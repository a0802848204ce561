---------------------------- MODULE FilterRules ----------------------------
(***************************************************************************)
(* The operator's filter rules in server/live_news_dashboard.py: the       *)
(* tables filter_rules, filter_hits and filter_keeps, the collector that   *)
(* asks the rules about each batch it registers, and the handler threads   *)
(* behind POST /api/filter.                                                *)
(*                                                                         *)
(* Each block under DB_LOCK is one step.  add_filter_rule and              *)
(* set_filter_rule take the lock twice: they change the rule, let go, and  *)
(* then rescan the window or drop the rule's catches, on what they read    *)
(* in the first block.  The collector, other callers and a restart of the  *)
(* service come in between.                                                *)
(*                                                                         *)
(* hidden_links, hidden_sources and picks are clauses of their own in      *)
(* query_articles that no rule reads; they are left out.  A rule that      *)
(* learn_filter_rules proposes arrives through add_filter_rule.            *)
(***************************************************************************)
EXTENDS Naturals, FiniteSets

CONSTANTS
  Links,      \* stories
  Patterns,   \* wordings of a rule
  Matches,    \* pairs <<pattern, link>>: _rule_regex finds the pattern in the story
  Callers,    \* handler threads
  MaxRules,   \* bound: rules ever added
  MaxCalls,   \* bound: calls of /api/filter that change a rule
  MaxRestarts \* bound: restarts of the service

Ids == 1 .. MaxRules
NoRule == 0

ASSUME FilterAssumption ==
  /\ MaxRules \in Nat /\ MaxCalls \in Nat /\ MaxRestarts \in Nat
  /\ Matches \subseteq Patterns \X Links
  /\ IsFiniteSet(Links)

VARIABLES
  rules,    \* ids in filter_rules
  on,       \* those enabled
  pattern,  \* id -> wording
  nextId,   \* AUTOINCREMENT
  counter,  \* filter_rules.hits
  hit,      \* filter_hits: link -> the rule that caught it
  kept,     \* filter_keeps
  recent,   \* stories inside the retention window
  older,    \* stories that left it but are still archived
  pending,  \* what a caller has still to do after its first block
  calls, restarts,
  torn,     \* a restart cut off a rescan, and none has run since
  caughtBy  \* history: pairs <<rule, link>> ever caught

table == <<rules, on, pattern, nextId>>
stories == <<recent, older>>
vars == <<table, counter, hit, kept, stories, pending, calls, restarts, torn, caughtBy>>

Nothing == [do |-> "nothing", rule |-> NoRule]
Rescanning == [do |-> "rescan", rule |-> NoRule]
Dropping(r) == [do |-> "drop", rule |-> r]

Init ==
  /\ rules = {} /\ on = {}
  /\ pattern \in [Ids -> Patterns]
  /\ nextId = 1
  /\ counter = [r \in Ids |-> 0]
  /\ hit = [l \in Links |-> NoRule]
  /\ kept = {}
  /\ recent = {} /\ older = {}
  /\ pending = [c \in Callers |-> Nothing]
  /\ calls = 0 /\ restarts = 0
  /\ torn = FALSE
  /\ caughtBy = {}

(***************************************************************************)
(* _record_filter_hits                                                     *)
(***************************************************************************)
Catchers(l) == {r \in on : <<pattern[r], l>> \in Matches}
First(l) == {r \in Catchers(l) : \A q \in Catchers(l) : r <= q}

\* INSERT OR IGNORE: a story already caught keeps its rule.
RecordHits(was, batch) ==
  [l \in Links |-> IF l \in batch /\ was[l] = NoRule /\ First(l) # {}
                     THEN CHOOSE r \in First(l) : TRUE
                     ELSE was[l]]

Tally(was, now) ==
  /\ hit' = now
  /\ counter' = [r \in Ids |-> counter[r] + Cardinality({l \in Links : was[l] = NoRule /\ now[l] = r})]
  /\ caughtBy' = caughtBy \cup {<<now[l], l>> : l \in {k \in Links : now[k] # NoRule}}

Visible(l) ==
  /\ l \in recent \cup older
  /\ hit[l] \in on => l \in kept

(***************************************************************************)
(* The collector                                                           *)
(***************************************************************************)
\* mutation: the rules are left to the next rescan
CollectUnfiltered(batch) ==
  /\ batch # {} /\ batch \cap older = {}
  /\ recent' = recent \cup batch
  /\ UNCHANGED <<table, counter, hit, kept, older, pending, calls, restarts, torn, caughtBy>>

\* insert_articles: the rules are asked in the same transaction.
Collect(batch) ==
  /\ batch # {} /\ batch \cap older = {}
  /\ recent' = recent \cup batch
  /\ Tally(hit, RecordHits(hit, batch))
  /\ UNCHANGED <<table, kept, older, pending, calls, restarts, torn>>

Age(l) ==
  /\ l \in recent
  /\ recent' = recent \ {l}
  /\ older' = older \cup {l}
  /\ UNCHANGED <<table, counter, hit, kept, pending, calls, restarts, torn, caughtBy>>

(***************************************************************************)
(* The operator's calls                                                    *)
(***************************************************************************)
Begin(c) ==
  /\ pending[c] = Nothing
  /\ calls < MaxCalls
  /\ calls' = calls + 1

AddRule(c, p) ==
  /\ Begin(c)
  /\ IF \E r \in rules : pattern[r] = p
       THEN UNCHANGED table
       ELSE /\ nextId \in Ids
            /\ rules' = rules \cup {nextId}
            /\ pattern' = [pattern EXCEPT ![nextId] = p]
            /\ nextId' = nextId + 1
            /\ UNCHANGED on
  /\ pending' = [pending EXCEPT ![c] = IF \E r \in on : pattern[r] = p THEN Rescanning ELSE Nothing]
  /\ UNCHANGED <<counter, hit, kept, stories, restarts, torn, caughtBy>>

\* set_filter_rule, first block, with "enabled" or "pattern" in the request; the wording is UNIQUE.
Switch(c, r, enabled) ==
  /\ Begin(c)
  /\ r \in rules
  /\ on' = IF enabled THEN on \cup {r} ELSE on \ {r}
  /\ pending' = [pending EXCEPT ![c] = IF enabled THEN Rescanning ELSE Dropping(r)]
  /\ UNCHANGED <<rules, pattern, nextId, counter, hit, kept, stories, restarts, torn, caughtBy>>

\* mutation: a reworded rule keeps its catches
RewordOnly(c, r, p) ==
  /\ Begin(c)
  /\ r \in rules
  /\ \A q \in rules \ {r} : pattern[q] # p
  /\ pattern' = [pattern EXCEPT ![r] = p]
  /\ UNCHANGED <<rules, on, nextId, counter, hit, kept, stories, pending, restarts, torn, caughtBy>>

Reword(c, r, p) ==
  /\ Begin(c)
  /\ r \in rules
  /\ \A q \in rules \ {r} : pattern[q] # p
  /\ pattern' = [pattern EXCEPT ![r] = p]
  /\ pending' = [pending EXCEPT ![c] = IF r \in on THEN Rescanning ELSE Dropping(r)]
  /\ UNCHANGED <<rules, on, nextId, counter, hit, kept, stories, restarts, torn, caughtBy>>

NoHits == [l \in Links |-> NoRule]

\* rescan_filters
Rescan(c) ==
  /\ pending[c] = Rescanning
  /\ Tally(NoHits, RecordHits(NoHits, recent))
  /\ pending' = [pending EXCEPT ![c] = Nothing]
  /\ torn' = FALSE
  /\ UNCHANGED <<table, kept, stories, calls, restarts>>

\* DELETE FROM filter_hits WHERE rule_id = ?
Released(r) == [l \in Links |-> IF hit[l] = r THEN NoRule ELSE hit[l]]

\* set_filter_rule, second block for a rule that was off in the first.
Drop(c, r) ==
  /\ pending[c] = Dropping(r)
  /\ hit' = Released(r)
  /\ pending' = [pending EXCEPT ![c] = Nothing]
  /\ UNCHANGED <<table, counter, kept, stories, calls, restarts, torn, caughtBy>>

DeleteRule(c, r) ==
  /\ Begin(c)
  /\ r \in rules
  /\ hit' = Released(r)
  /\ rules' = rules \ {r}
  /\ on' = on \ {r}
  /\ UNCHANGED <<pattern, nextId, counter, kept, stories, pending, restarts, torn, caughtBy>>

\* keep_caught
Keep(l) ==
  /\ kept' = kept \cup {l}
  /\ UNCHANGED <<table, counter, hit, stories, pending, calls, restarts, torn, caughtBy>>

Unkeep(l) ==
  /\ kept' = kept \ {l}
  /\ UNCHANGED <<table, counter, hit, stories, pending, calls, restarts, torn, caughtBy>>

\* systemd restarts the service: the callers are gone, the tables stay.
Restart ==
  /\ restarts < MaxRestarts
  /\ restarts' = restarts + 1
  /\ pending' = [c \in Callers |-> Nothing]
  /\ torn' = (torn \/ \E c \in Callers : pending[c] = Rescanning)
  /\ UNCHANGED <<table, counter, hit, kept, stories, calls, caughtBy>>

Next ==
  \/ \E batch \in SUBSET Links : Collect(batch)
  \/ \E l \in Links : Age(l) \/ Keep(l) \/ Unkeep(l)
  \/ \E c \in Callers : Rescan(c) \/ \E p \in Patterns : AddRule(c, p)
  \/ \E c \in Callers, r \in Ids :
       \/ \E enabled \in BOOLEAN : Switch(c, r, enabled)
       \/ \E p \in Patterns : Reword(c, r, p)
       \/ Drop(c, r) \/ DeleteRule(c, r)
  \/ Restart

Spec == Init /\ [][Next]_vars

(***************************************************************************)
(* Properties                                                              *)
(***************************************************************************)
\* Every variable has its shape.
TypeOK ==
  /\ rules \subseteq Ids /\ on \subseteq rules
  /\ pattern \in [Ids -> Patterns]
  /\ nextId \in 1 .. MaxRules + 1
  /\ \A r \in rules : r < nextId
  /\ counter \in [Ids -> Nat]
  /\ hit \in [Links -> rules \cup {NoRule}]
  /\ kept \subseteq Links
  /\ recent \subseteq Links /\ older \subseteq Links
  /\ pending \in [Callers -> {Nothing, Rescanning} \cup {Dropping(r) : r \in Ids}]
  /\ calls \in Nat /\ restarts \in Nat
  /\ torn \in BOOLEAN
  /\ caughtBy \subseteq Ids \X Links

\* A story is off the pages only for a reason the review list shows: the enabled rule recorded
\* against it matches it in its present wording.  The exceptions are a rescan still to come and one
\* that a restart cut off.
HonestCatch ==
  \A l \in recent \cup older : ~Visible(l) =>
    \/ <<pattern[hit[l]], l>> \in Matches
    \/ torn
    \/ \E c \in Callers : pending[c] = Rescanning

\* insert_articles: "a filtered story is registered and skipped in one transaction and cannot show
\* up in between", whatever the operator's calls are in the middle of.
NoFlash ==
  [][\A l \in recent' \ recent : Catchers(l) # {} => hit'[l] \in on']_vars

\* filter_rules.hits never falls behind: it counts every story the rule ever caught.
CountsEveryCatch ==
  \A r \in rules : counter[r] >= Cardinality({l \in Links : <<r, l>> \in caughtBy})

Quiet == ~torn /\ \A c \in Callers : pending[c] = Nothing

\* rescan_filters: "Turning a rule on has to act on what is already there".  Once the calls have
\* returned, a story in the window that an enabled rule matches is caught.  It holds for one caller
\* and rules that share no story; two callers can undo each other's rescan.
RulesAct ==
  Quiet => \A l \in recent : Catchers(l) # {} => hit[l] \in on

\* Every variable has its shape, and a story is off the pages only for a reason the review list shows.
CatchesHold == TypeOK /\ HonestCatch

\* insert_articles: a filtered story never shows up, not for a moment, and each catch is counted.
CaughtAtOnce == NoFlash /\ []CountsEveryCatch
=============================================================================
