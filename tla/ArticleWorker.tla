--------------------------- MODULE ArticleWorker ---------------------------
(***************************************************************************)
(* The article body pipeline over the articles table: the worker of        *)
(* pipeline/full_article_worker.py (fetch, translate, summarize), its      *)
(* --requeue-page-chrome sweep, and the collector of the dashboard, which  *)
(* inserts rows, fills bodies in from the feed and translates feed         *)
(* headlines (pipeline/translate_ko.py).                                   *)
(*                                                                         *)
(* A stage reads the rows it will work on in one transaction, calls        *)
(* publishers and language models with the table unlocked, and writes each *)
(* result back under a condition.  Workers, the sweep and the collector    *)
(* are separate processes, so anything may happen in between.              *)
(*                                                                         *)
(* Data: ko and digest hold the text they were made from, synopsis (the    *)
(* pair title_ko, summary_ko) the text or "feed".  No writer stores a body *)
(* of less than 120 characters, so such bodies are left out; so are the    *)
(* limits of a batch (20 rows), which end a run sooner (what a row that    *)
(* is never done takes from the others by its place is not modelled), and  *)
(* prune, which deletes rows two months after the worker stopped looking   *)
(* at them.                                                                *)
(***************************************************************************)
EXTENDS FiniteSets

CONSTANTS
  Links,    \* rows of articles
  Texts,    \* article bodies
  Chrome,   \* contains_page_chrome
  Dirty,    \* matched by the dirty_markers of fetch_candidates and store_fetched
  Swept,    \* matched by the markers of requeue_contaminated_ready as well
  NoText,   \* a blank column
  Feed,     \* a synopsis translated from the feed's title and summary
  Workers   \* runs of run_once()

ASSUME ArticleAssumption ==
  /\ Chrome \subseteq Texts /\ Dirty \subseteq Texts /\ Swept \subseteq Chrome
  /\ NoText \notin Texts /\ Feed \notin Texts /\ NoText # Feed

VARIABLES
  stored,      \* rows in the table
  hidden,      \* rows public_article_filter leaves out
  text,        \* full_text
  ko,          \* full_text_ko
  digest,      \* full_text_summary_hash
  synopsis,    \* title_ko and summary_ko
  status,      \* post_status: "legacy", "pending" (any of the three), "ready"
  checked,     \* rows whose full_text_checked_at is within 24 hours
  triedKo,     \* the body a translation attempt within the hour was about
  triedSum,    \* the same for the summary
  at, jobs,    \* per worker: the stage and the rows, with the bodies read, it still has to do
  ingest,      \* rows translate_ko.translate_pending read as incomplete
  repaired     \* history: rows the sweep has emptied

body == <<text, ko, digest>>
stamps == <<checked, triedKo, triedSum>>
vars == <<stored, hidden, body, synopsis, status, stamps, at, jobs, ingest, repaired>>

Blank == [l \in Links |-> NoText]

\* "pending" rows come with the deployed database; the code here writes it only in the sweep.
Init ==
  /\ stored \in SUBSET Links
  /\ hidden = {}
  /\ text = Blank /\ ko = Blank /\ digest = Blank /\ synopsis = Blank
  /\ status \in [Links -> {"legacy", "pending"}]
  /\ \A l \in Links \ stored : status[l] = "legacy"
  /\ checked = {} /\ triedKo = Blank /\ triedSum = Blank
  /\ at = [w \in Workers |-> "off"] /\ jobs = [w \in Workers |-> {}]
  /\ ingest = {}
  /\ repaired = {}

-----------------------------------------------------------------------------
(* The surroundings: time, and the operator's visibility switches. *)

\* The 24 hours of a fetch and the hour of each attempt run out one by one.
Elapse(l) ==
  /\ checked' \in {checked, checked \ {l}}
  /\ \E t \in {triedKo[l], NoText} : triedKo' = [triedKo EXCEPT ![l] = t]
  /\ \E t \in {triedSum[l], NoText} : triedSum' = [triedSum EXCEPT ![l] = t]
  /\ UNCHANGED <<stored, hidden, body, synopsis, status, at, jobs, ingest, repaired>>

Hide(l) ==
  /\ hidden' = IF l \in hidden THEN hidden \ {l} ELSE hidden \cup {l}
  /\ UNCHANGED <<stored, body, synopsis, status, stamps, at, jobs, ingest, repaired>>

-----------------------------------------------------------------------------
(* The collector. *)

\* insert_articles; feeds carry a body, uncleaned, or none.
Insert(l, b) ==
  /\ l \notin stored
  /\ stored' = stored \cup {l}
  /\ text' = [text EXCEPT ![l] = b]
  /\ UNCHANGED <<hidden, ko, digest, synopsis, status, stamps, at, jobs, ingest, repaired>>

Backfill(l, b) ==
  /\ l \in stored \ hidden
  /\ text[l] = NoText
  /\ text' = [text EXCEPT ![l] = b]
  /\ UNCHANGED <<stored, hidden, ko, digest, synopsis, status, stamps, at, jobs, ingest, repaired>>

Incomplete == {l \in stored : synopsis[l] = NoText}

IngestSelect ==
  /\ ingest = {}
  /\ ingest' = Incomplete
  /\ UNCHANGED <<stored, hidden, body, synopsis, status, stamps, at, jobs, repaired>>

IngestWrite(l) ==
  /\ l \in ingest
  /\ ingest' = ingest \ {l}
  /\ synopsis' = [synopsis EXCEPT ![l] = IF @ = NoText THEN Feed ELSE @]
  /\ UNCHANGED <<stored, hidden, body, status, stamps, at, jobs, repaired>>

\* No usable translation: the row stays incomplete.
IngestSkip(l) ==
  /\ l \in ingest
  /\ ingest' = ingest \ {l}
  /\ UNCHANGED <<stored, hidden, body, synopsis, status, stamps, at, jobs, repaired>>

\* translate_one: some provider gives a translation that keeps every amount, or none does.
IngestAnswer(l) == IngestWrite(l) \/ IngestSkip(l)

-----------------------------------------------------------------------------
(* What each stage selects. *)

NeedsFetch(l) == (text[l] = NoText /\ l \notin checked) \/ text[l] \in Dirty

NeedsKo(l) == text[l] # NoText /\ ko[l] = NoText /\ triedKo[l] = NoText

NeedsSummary(l) == text[l] # NoText /\ ko[l] # NoText /\ digest[l] = NoText /\ triedSum[l] = NoText

Selected(S) == {<<l, text[l]>> : l \in S \cap (stored \ hidden)}

Take(w, stage, S) ==
  /\ at' = [at EXCEPT ![w] = stage]
  /\ jobs' = [jobs EXCEPT ![w] = Selected(S)]
  /\ UNCHANGED <<stored, hidden, body, synopsis, status, stamps, ingest, repaired>>

BeginFetch(w) ==
  /\ at[w] = "off"
  /\ Take(w, "fetch", {l \in Links : NeedsFetch(l)})

BeginTranslation(w) ==
  /\ at[w] = "fetched"
  /\ Take(w, "translation", {l \in Links : NeedsKo(l)})

BeginSummary(w) ==
  /\ at[w] = "translation" /\ jobs[w] = {}
  /\ Take(w, "summary", {l \in Links : NeedsSummary(l)})

Finish(w) ==
  /\ at[w] = "summary" /\ jobs[w] = {}
  /\ at' = [at EXCEPT ![w] = "off"]
  /\ UNCHANGED <<stored, hidden, body, synopsis, status, stamps, jobs, ingest, repaired>>

\* The process is killed; nothing it had in hand is stored.
Kill(w) ==
  /\ at[w] # "off"
  /\ at' = [at EXCEPT ![w] = "off"]
  /\ jobs' = [jobs EXCEPT ![w] = {}]
  /\ UNCHANGED <<stored, hidden, body, synopsis, status, stamps, ingest, repaired>>

-----------------------------------------------------------------------------
(* store_fetched: one transaction for the whole batch. *)

Emptied(column, S) == [l \in Links |-> IF l \in S THEN NoText ELSE column[l]]

\* clean_text and is_unavailable_or_paywalled leave a clean body or none.
Pages == (Texts \ Chrome) \cup {NoText}

StoreFetched(w, page) ==
  /\ at[w] = "fetch"
  /\ LET takes == {l \in Links : (\E b \in Texts \cup {NoText} : <<l, b>> \in jobs[w])
                                  /\ text[l] \in Dirty \cup {NoText}}
         fetched == {l \in takes : page[l] # NoText}
         replaced == {l \in fetched : page[l] # text[l]}
     IN /\ text' = [l \in Links |-> IF l \in fetched THEN page[l] ELSE text[l]]
        /\ ko' = Emptied(ko, replaced)
        /\ digest' = Emptied(digest, replaced)
        /\ triedKo' = Emptied(triedKo, replaced)
        /\ triedSum' = Emptied(triedSum, replaced)
        /\ checked' = checked \cup takes
  /\ at' = [at EXCEPT ![w] = "fetched"]
  /\ jobs' = [jobs EXCEPT ![w] = {}]
  /\ UNCHANGED <<stored, hidden, synopsis, status, ingest, repaired>>

-----------------------------------------------------------------------------
(* Translation and summary: one row after the other, each written on its own. *)

\* Faulty variant: a failed row is tried again.
AttemptAgain(w, l, b) ==
  /\ at[w] \in {"translation", "summary"} /\ <<l, b>> \in jobs[w]
  /\ triedKo' = [triedKo EXCEPT ![l] = IF at[w] = "translation" /\ text[l] = b THEN b ELSE @]
  /\ triedSum' = [triedSum EXCEPT ![l] = IF at[w] = "summary" /\ text[l] = b THEN b ELSE @]
  /\ UNCHANGED <<stored, hidden, body, synopsis, status, checked, at, jobs, ingest, repaired>>

\* record_stage_attempt, after a result that is missing or fails validation.
Attempt(w, l, b) ==
  /\ at[w] \in {"translation", "summary"} /\ <<l, b>> \in jobs[w]
  /\ triedKo' = [triedKo EXCEPT ![l] = IF at[w] = "translation" /\ text[l] = b THEN b ELSE @]
  /\ triedSum' = [triedSum EXCEPT ![l] = IF at[w] = "summary" /\ text[l] = b THEN b ELSE @]
  /\ jobs' = [jobs EXCEPT ![w] = @ \ {<<l, b>>}]
  /\ UNCHANGED <<stored, hidden, body, synopsis, status, checked, at, ingest, repaired>>

\* Faulty variant: WHERE link=? alone.
TranslatedAnyBody(w, l, b) ==
  /\ at[w] = "translation" /\ <<l, b>> \in jobs[w]
  /\ IF ko[l] = NoText
       THEN ko' = [ko EXCEPT ![l] = b] /\ triedKo' = [triedKo EXCEPT ![l] = b]
       ELSE UNCHANGED <<ko, triedKo>>
  /\ jobs' = [jobs EXCEPT ![w] = @ \ {<<l, b>>}]
  /\ UNCHANGED <<stored, hidden, text, digest, synopsis, status, checked, triedSum, at, ingest, repaired>>

Translated(w, l, b) ==
  /\ at[w] = "translation" /\ <<l, b>> \in jobs[w]
  /\ IF text[l] = b /\ ko[l] = NoText
       THEN ko' = [ko EXCEPT ![l] = b] /\ triedKo' = [triedKo EXCEPT ![l] = b]
       ELSE UNCHANGED <<ko, triedKo>>
  /\ jobs' = [jobs EXCEPT ![w] = @ \ {<<l, b>>}]
  /\ UNCHANGED <<stored, hidden, text, digest, synopsis, status, checked, triedSum, at, ingest, repaired>>

Summarized(w, l, b) ==
  /\ at[w] = "summary" /\ <<l, b>> \in jobs[w]
  /\ IF text[l] = b /\ ko[l] # NoText /\ digest[l] = NoText
       THEN /\ synopsis' = [synopsis EXCEPT ![l] = b]
            /\ digest' = [digest EXCEPT ![l] = b]
            /\ triedSum' = [triedSum EXCEPT ![l] = b]
            /\ status' = [status EXCEPT ![l] = IF @ = "pending" THEN "ready" ELSE @]
       ELSE UNCHANGED <<synopsis, digest, triedSum, status>>
  /\ jobs' = [jobs EXCEPT ![w] = @ \ {<<l, b>>}]
  /\ UNCHANGED <<stored, hidden, text, ko, checked, triedKo, at, ingest, repaired>>

\* The providers answer chunk by chunk; a chunk no answer of which is acceptable fails the body.
TranslateBody(w, l, b) == at[w] = "translation" /\ (Translated(w, l, b) \/ Attempt(w, l, b))
SummarizeBody(w, l, b) == at[w] = "summary" /\ (Summarized(w, l, b) \/ Attempt(w, l, b))

-----------------------------------------------------------------------------
(* requeue_contaminated_ready: one transaction. *)

Contaminated == {l \in stored : status[l] = "ready" /\ {text[l], ko[l]} \cap Swept # {}}

Requeue ==
  /\ Contaminated # {}
  /\ status' = [l \in Links |-> IF l \in Contaminated THEN "pending" ELSE status[l]]
  /\ text' = Emptied(text, Contaminated) /\ ko' = Emptied(ko, Contaminated)
  /\ digest' = Emptied(digest, Contaminated) /\ synopsis' = Emptied(synopsis, Contaminated)
  /\ checked' = checked \ Contaminated
  /\ triedKo' = Emptied(triedKo, Contaminated) /\ triedSum' = Emptied(triedSum, Contaminated)
  /\ repaired' = repaired \cup Contaminated
  /\ UNCHANGED <<stored, hidden, at, jobs, ingest>>

-----------------------------------------------------------------------------
Work(w) ==
  \/ BeginTranslation(w) \/ BeginSummary(w) \/ Finish(w)
  \/ \E page \in [Links -> Pages] : StoreFetched(w, page)
  \/ \E l \in Links, b \in Texts : TranslateBody(w, l, b) \/ SummarizeBody(w, l, b)

Next ==
  \/ \E l \in Links : Elapse(l) \/ Hide(l) \/ IngestAnswer(l)
  \/ \E l \in Links, b \in Texts : Backfill(l, b)
  \/ \E l \in Links, b \in Texts \cup {NoText} : Insert(l, b)
  \/ IngestSelect \/ Requeue
  \/ \E w \in Workers : BeginFetch(w) \/ Work(w) \/ Kill(w)

Spec == Init /\ [][Next]_vars

\* A started run goes on; every request it makes has a timeout.
FairSpec == Spec /\ \A w \in Workers : WF_vars(Work(w))

-----------------------------------------------------------------------------
(* Properties. *)

\* The shape of every column; a translation or summary job holds the body it is about.
Column == [Links -> Texts \cup {NoText}]
TypeOK ==
  /\ stored \subseteq Links /\ hidden \subseteq Links /\ checked \subseteq Links
  /\ text \in Column /\ ko \in Column /\ digest \in Column
  /\ synopsis \in [Links -> Texts \cup {NoText, Feed}]
  /\ status \in [Links -> {"legacy", "pending", "ready"}]
  /\ triedKo \in Column /\ triedSum \in Column
  /\ at \in [Workers -> {"off", "fetch", "fetched", "translation", "summary"}]
  /\ jobs \in [Workers -> SUBSET (Links \X (Texts \cup {NoText}))]
  /\ \A w \in Workers : at[w] # "fetch" => jobs[w] \subseteq Links \X Texts
  /\ ingest \subseteq Links
  /\ repaired \subseteq Links

\* The translation and the summary hash of a row are of the body it holds now.
MadeFromBody ==
  \A l \in Links :
    /\ ko[l] \in {NoText, text[l]}
    /\ digest[l] \in {NoText, text[l]}
    /\ digest[l] # NoText => ko[l] # NoText

\* An attempt stamp is of the body the row holds: a replaced body does not wait for the retry window
\* of the old one.
StampOfItsBody == \A l \in Links : {triedKo[l], triedSum[l]} \subseteq {NoText, text[l]}

\* Whatever the columns of a row say was made or tried from a body is about the body it holds now,
\* although bodies are replaced and emptied while a stage works on the old one (WHERE full_text=?).
OfItsBody == MadeFromBody /\ StampOfItsBody

\* A row that counts as summarized shows the summary of its body: the collector's translation of the
\* feed headline, read before and written after, does not replace it.  A synopsis of another body than
\* the row's is one store_fetched left behind (it empties the translation and the hash, and keeps
\* title_ko and summary_ko): the old body was dirty, and the row waits to be summarized again.
SummaryStands ==
  \A l \in Links :
    /\ digest[l] # NoText => synopsis[l] = digest[l]
    /\ synopsis[l] \in Texts \ {text[l]} => synopsis[l] \in Dirty /\ digest[l] = NoText

\* A ready story has a body and shows a synopsis made from an article body, never the feed's and never
\* a blank one, whatever the sweep and the collector do in between.
ReadyFromBody == \A l \in Links : status[l] = "ready" => synopsis[l] \in Texts /\ text[l] # NoText

\* A started run comes to its end; a row it cannot do is set aside, not tried for ever.
RunEnds == \A w \in Workers : []<>(at[w] = "off")

\* requeue_contaminated_ready: "Hide ready stories whose stored article body contains page chrome, so
\* the new extractor can repair them".  The collector fills the emptied body in from the feed first.
RepairHolds == \A l \in repaired : status[l] = "ready" => text[l] \notin Swept

\* Every column has its shape; translation, hash and stamps are of the body the row holds; and the
\* synopsis shown is of that body too, or of the dirty body it replaced until the next summary.
BodiesHold == TypeOK /\ OfItsBody /\ SummaryStands /\ ReadyFromBody
=============================================================================
