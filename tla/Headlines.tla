----------------------------- MODULE Headlines -----------------------------
(***************************************************************************)
(* Korean headlines over one articles table: translate_pending of          *)
(* pipeline/translate_ko.py as the collector calls it every cycle, and     *)
(* tools/backfill_translations.py, a process of its own that calls it for  *)
(* the newest incomplete stories, batch after batch.                       *)
(*                                                                         *)
(* Each reads its batch under a lock, translates with the table free, and  *)
(* writes story by story on condition that the story is still incomplete.  *)
(* The sweep of full_article_worker.py blanks headlines meanwhile.         *)
(* ArticleWorker says what a headline is made from; here it is which       *)
(* stories get one.                                                        *)
(*                                                                         *)
(* A story's number is the order it is collected in.  Title and summary    *)
(* are one: translate_one gives both or none.                              *)
(***************************************************************************)
EXTENDS Naturals, FiniteSets

CONSTANTS
  Stories,       \* 1 .. n
  FinancialJuice, Thai, \* stories of that source, and other stories of the region 태국
  Published,     \* story -> the place of its published_at
  Refused,       \* no provider's translation of these passes the checks
  Batch,         \* COLLECT_BATCH
  BatchSize,     \* --batch-size
  Limits,        \* values of --max-rows, 0 for none
  MaxSweeps      \* bound: headlines blanked by the sweep

VARIABLES
  stored,  \* links in articles
  korean,  \* those with title_ko and summary_ko
  batch,   \* what the collector's cycle has still to translate
  tool,    \* the backfill: where it is and what it has read and counted
  sweeps

vars == <<stored, korean, batch, tool, sweeps>>

Off == [at |-> "off", max |-> 0, links |-> {}, todo |-> {}, before |-> 0, changed |-> 0, scanned |-> 0]

Init ==
  /\ stored = {} /\ korean = {}
  /\ batch = {}
  /\ tool = Off
  /\ sweeps = 0

Pending == stored \ korean

Smaller(a, b) == IF a < b THEN a ELSE b

\* The n first of the rows when later counts first.
NewestBy(rows, n, when) ==
  {s \in rows : Cardinality({o \in rows : when[o] > when[s]}) < n}

Collected == [s \in Stories |-> s]
Newest(rows, n) == NewestBy(rows, n, Collected)

-----------------------------------------------------------------------------
(* The collector's batch. *)

\* A share of the batch for each group of sources.
Quota ==
  LET fj == Smaller(Batch, (Batch * 3 + 4) \div 5)
      thai == Smaller(Batch - fj, Batch \div 5)
  IN [fj |-> fj, thai |-> thai, other |-> Batch - fj - thai]

Shares ==
  Newest(Pending \cap FinancialJuice, Quota.fj)
  \cup Newest(Pending \cap Thai, Quota.thai)
  \cup Newest(Pending \ (FinancialJuice \cup Thai), Quota.other)

\* Faulty variant: what a group does not use of its share is left unused.
SharesOnly == Shares

\* What the groups left unused goes to the newest of the rest.
Selected == Shares \cup Newest(Pending \ Shares, Batch - Cardinality(Shares))

BeginCycle ==
  /\ batch = {} /\ Pending # {}
  /\ batch' = Selected
  /\ UNCHANGED <<stored, korean, tool, sweeps>>

\* The guarded UPDATE writes a story that is still incomplete.
Save(s) == korean' = korean \cup {s}

Translate(s) ==
  /\ s \in batch /\ s \notin Refused
  /\ Save(s)
  /\ batch' = batch \ {s}
  /\ UNCHANGED <<stored, tool, sweeps>>

\* Every provider failed, or no answer kept the amounts: best effort, the story waits for another cycle.
GiveUp(s) ==
  /\ s \in batch
  /\ batch' = batch \ {s}
  /\ UNCHANGED <<stored, korean, tool, sweeps>>

-----------------------------------------------------------------------------
(* The backfill. *)

StartBackfill(max) ==
  /\ tool.at = "off"
  /\ tool' = [Off EXCEPT !.at = "pick", !.max = max]
  /\ UNCHANGED <<stored, korean, batch, sweeps>>

NextLimit == IF tool.max = 0 THEN BatchSize ELSE Smaller(BatchSize, tool.max - tool.scanned)

\* The next batch; the tool ends when the row limit is reached or nothing is pending.
Pick ==
  /\ tool.at = "pick"
  /\ LET links == NewestBy(Pending, NextLimit, Published) IN
       tool' = IF (tool.max # 0 /\ tool.scanned >= tool.max) \/ links = {}
               THEN Off
               ELSE [tool EXCEPT !.at = "count", !.links = links]
  /\ UNCHANGED <<stored, korean, batch, sweeps>>

CountBefore ==
  /\ tool.at = "count"
  /\ tool' = [tool EXCEPT !.at = "select", !.before = Cardinality(Pending)]
  /\ UNCHANGED <<stored, korean, batch, sweeps>>

\* translate_pending(links) reads again which of the links are incomplete.
SelectLinks ==
  /\ tool.at = "select"
  /\ tool' = [tool EXCEPT !.at = "translate", !.todo = tool.links \cap Pending, !.changed = 0]
  /\ UNCHANGED <<stored, korean, batch, sweeps>>

\* A story that got its headline meanwhile is not written and not counted.
BackfillOne(s) ==
  /\ tool.at = "translate" /\ s \in tool.todo
  /\ \/ /\ s \notin Refused
        /\ Save(s)
        /\ tool' = [tool EXCEPT !.todo = @ \ {s}, !.changed = IF s \in Pending THEN @ + 1 ELSE @]
     \/ /\ tool' = [tool EXCEPT !.todo = @ \ {s}]
        /\ UNCHANGED korean
  /\ UNCHANGED <<stored, batch, sweeps>>

\* Nothing written, and nothing else brought the number down either.
NoProgress == tool.changed = 0 /\ Cardinality(Pending) >= tool.before

EndBatch ==
  /\ tool.at = "translate" /\ tool.todo = {}
  /\ tool' = IF NoProgress
             THEN Off
             ELSE [tool EXCEPT !.at = "pick", !.scanned = IF tool.max = 0 THEN 0 ELSE @ + Cardinality(tool.links)]
  /\ UNCHANGED <<stored, korean, batch, sweeps>>

\* A write that fails ends the tool: it runs strict, and the error reaches main.
Halt ==
  /\ tool.at = "translate" /\ tool.todo # {}
  /\ tool' = Off
  /\ UNCHANGED <<stored, korean, batch, sweeps>>

Backfill ==
  Pick \/ CountBefore \/ SelectLinks \/ EndBatch \/ \E s \in tool.todo : BackfillOne(s)

-----------------------------------------------------------------------------
(* The table under them. *)

\* insert_articles
Store(s) ==
  /\ s \notin stored /\ \A o \in Stories : o < s => o \in stored
  /\ stored' = stored \cup {s}
  /\ UNCHANGED <<korean, batch, tool, sweeps>>

\* requeue_contaminated_ready blanks the headline of a story whose body has page chrome in it.
Sweep(s) ==
  /\ s \in korean /\ sweeps < MaxSweeps
  /\ korean' = korean \ {s}
  /\ sweeps' = sweeps + 1
  /\ UNCHANGED <<stored, batch, tool>>

Next ==
  \/ BeginCycle
  \/ \E s \in Stories : Translate(s) \/ GiveUp(s) \/ Store(s) \/ Sweep(s)
  \/ \E max \in Limits : StartBackfill(max)
  \/ Backfill \/ Halt

Spec == Init /\ [][Next]_vars

\* The service runs a cycle every interval and its batch comes to an end; a provider that fails comes
\* back, so a story tried again and again gets its translation; a tool that was started runs on.
FairSpec ==
  /\ Spec
  /\ WF_vars(BeginCycle)
  /\ \A s \in Stories : WF_vars(GiveUp(s)) /\ SF_vars(Translate(s))
  /\ WF_vars(Backfill)

-----------------------------------------------------------------------------
\* With fewer untranslatable stories than a batch holds, each other story comes to its turn in the
\* collector's batch, whatever its source, however often the newest first order puts others before it
\* and whatever the backfill takes: "the next collection cycle can retry the pending rows" (collect_news).
EveryStoryTranslated ==
  \A s \in Stories \ Refused : []<>(s \in stored => s \in korean)

\* The backfill ends, also when some stories cannot be translated, when the collector translates its
\* batch before it does, and when stories arrive or are blanked under it ("stopping to avoid an
\* infinite loop").
BackfillEnds == []<>(tool.at = "off")
=============================================================================
