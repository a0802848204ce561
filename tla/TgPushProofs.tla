---------------------------- MODULE TgPushProofs ----------------------------
(***************************************************************************)
(* Proofs about TgPush for every value of its constants: the type          *)
(* invariant; when one run at a time writes the channel, the ledger of     *)
(* messages and the implementation of Outlet; whatever runs overlap, what  *)
(* that can cost at most; and, with one tick at a time, the hourly cap,    *)
(* the cooldown and that nothing is told twice.  Of what is checked beside *)
(* it: the pictures of the editor (Composer), the names of members         *)
(* (Profiles), and the pusher's rehearsals (Rehearsal).                    *)
(***************************************************************************)
EXTENDS MCTgPush, FiniteSetTheorems, TLAPS

USE DataAssumption, RunAssumption, FigureAssumption

(* What a finite set of rows counts to is a natural number. *)
LEMMA RowCount ==
  ASSUME NEW cutoff
  PROVE  Cardinality(RowsSince(cutoff)) \in Nat
<1>1. IsFiniteSet(RowsSince(cutoff))
  BY FS_Subset, DataAssumption DEF RowsSince
<1>2. QED BY <1>1, FS_CardinalityType

(* MAX(posted_at) is a time or the missing value. *)
LEMMA LatestRowType ==
  ASSUME TypeOK, NEW S \in SUBSET Stories, NEW m \in LatestRow(S)
  PROVE  m \in Nat \cup {NoTime}
BY DEF TypeOK, LatestRow

LEMMA FreshType == Fresh \in Local
BY DEF Fresh, Local

(* Changing one local variable of a run within its type. *)
LEMMA LocalUpdate ==
  ASSUME NEW r \in Local, NEW n \in Nat, NEW S \in SUBSET Stories,
         NEW m \in Nat \cup {NoTime}, NEW i \in Stories \cup {NoStory}
  PROVE  /\ [r EXCEPT !.now = n] \in Local
         /\ [r EXCEPT !.todo = S] \in Local
         /\ [r EXCEPT !.recent = S] \in Local
         /\ [r EXCEPT !.dup = S] \in Local
         /\ [r EXCEPT !.seen = S] \in Local
         /\ [r EXCEPT !.mine = S] \in Local
         /\ [r EXCEPT !.held = S] \in Local
         /\ [r EXCEPT !.last = m] \in Local
         /\ [r EXCEPT !.lastRecap = m] \in Local
         /\ [r EXCEPT !.inHour = n] \in Local
         /\ [r EXCEPT !.item = i] \in Local
BY DEF Local

LEMMA ItemUpdate ==
  ASSUME NEW r \in Local, NEW i \in Stories \cup {NoStory}
  PROVE  [r EXCEPT !.item = i] \in Local
BY DEF Local

(* The fields of a run's local variables. *)
LEMMA LocalFields ==
  ASSUME NEW r \in Local
  PROVE  /\ r.now \in Nat /\ r.inHour \in Nat
         /\ r.todo \subseteq Stories /\ r.seen \subseteq Stories
         /\ r.mine \subseteq Stories /\ r.held \subseteq Stories
         /\ r.lastRecap \in Nat \cup {NoTime}
BY DEF Local

(* The walk and the recording of a post keep the local variables typed. *)
LEMMA WalkedType ==
  ASSUME NEW r \in Local, NEW s \in Stories, NEW verdict
  PROVE  /\ Walked(r, s, verdict) \in Local
         /\ verdict = "send" => Walked(r, s, verdict).item = s
<1> DEFINE r1 == [r EXCEPT !.todo = @ \ {s}]
           r2 == [r1 EXCEPT !.seen = IF verdict = "skip" THEN @ ELSE @ \cup {s}]
           r3 == [r2 EXCEPT !.held = IF verdict = "hold" THEN @ \cup {s} ELSE @]
           i == IF verdict = "send" THEN s ELSE NoStory
           r4 == [r3 EXCEPT !.item = i]
<1>1. r1 \in Local
  <2>1. r.todo \ {s} \in SUBSET Stories BY LocalFields
  <2>2. QED BY <2>1, LocalUpdate
<1> HIDE DEF r1
<1>2. r2 \in Local
  <2>1. (IF verdict = "skip" THEN r1.seen ELSE r1.seen \cup {s}) \in SUBSET Stories
    BY <1>1, LocalFields
  <2>2. QED BY <1>1, <2>1, LocalUpdate
<1> HIDE DEF r2
<1>3. r3 \in Local
  <2>1. (IF verdict = "hold" THEN r2.held \cup {s} ELSE r2.held) \in SUBSET Stories
    BY <1>2, LocalFields
  <2>2. QED BY <1>2, <2>1, LocalUpdate
<1> HIDE DEF r3
<1>4. r4 \in Local
  <2>1. i \in Stories \cup {NoStory}
    OBVIOUS
  <2> HIDE DEF i
  <2>2. QED BY <1>3, <2>1, ItemUpdate
<1>5. verdict = "send" => r4.item = s
  BY <1>3 DEF Local
<1>6. r4 = Walked(r, s, verdict)
  BY DEF r1, r2, r3, Walked
<1>7. QED BY <1>4, <1>5, <1>6

LEMMA RecordedType ==
  ASSUME NEW r \in Local, NEW s \in Stories
  PROVE  Recorded(r, s) \in Local
<1> DEFINE r1 == [r EXCEPT !.mine = @ \cup {s}]
           r2 == [r1 EXCEPT !.last = r.now]
           r3 == [r2 EXCEPT !.inHour = @ + 1]
           r4 == [r3 EXCEPT !.lastRecap = IF s \in Recaps THEN r.now ELSE @]
<1>1. r1 \in Local
  <2>1. r.mine \cup {s} \in SUBSET Stories BY LocalFields
  <2>2. QED BY <2>1, LocalUpdate
<1> HIDE DEF r1
<1>2. r2 \in Local
  BY <1>1, LocalFields, LocalUpdate
<1> HIDE DEF r2
<1>3. r3 \in Local
  <2>1. r2.inHour + 1 \in Nat BY <1>2, LocalFields
  <2>2. QED BY <1>2, <2>1, LocalUpdate
<1> HIDE DEF r3
<1>4. r4 \in Local
  <2>1. (IF s \in Recaps THEN r.now ELSE r3.lastRecap) \in Nat \cup {NoTime}
    BY <1>3, LocalFields
  <2>2. QED BY <1>3, <2>1, LocalUpdate
<1>5. r4 = Recorded(r, s)
  BY DEF r1, r2, r3, Recorded
<1>6. QED BY <1>4, <1>5

(* The end of a run leaves the three variables it writes well-typed. *)
LEMMA StopType ==
  ASSUME TypeOK, NEW p \in Runs, Stop(p)
  PROVE  /\ pc' \in [Runs -> {"off", "locking", "gauging", "scanning", "sending", "recording", "leaving"}]
         /\ run' \in [Runs -> Local]
         /\ \A q \in Runs : pc'[q] \in {"sending", "recording"} => run'[q].item \in Stories
         /\ \A q \in Agents : pc'[q] = "gauging" => run'[q].item \in Stories
         /\ ended' \in [Timer -> Int]
BY FreshType DEF TypeOK, Stop, Runs

(* Every variable keeps its shape. *)
THEOREM TypeCorrect == Spec => []TypeOK
<1>1. Init => TypeOK
  BY FreshType DEF Init, TypeOK, NoTime, Runs
<1>2. TypeOK /\ [Next]_vars => TypeOK'
  <2> SUFFICES ASSUME TypeOK, [Next]_vars PROVE TypeOK'
    OBVIOUS
  <2>1. CASE Advance
    BY <2>1 DEF TypeOK, Advance, table
  <2>2. ASSUME NEW s \in Stories, Collect(s) PROVE TypeOK'
    BY <2>2 DEF TypeOK, Collect, table
  <2>3. ASSUME NEW p \in Ticks, CheckLock(p) PROVE TypeOK'
    <3>0. p \in Runs BY DEF Runs
    <3>1. CASE Locked
      BY <2>3, <3>0, <3>1, StopType DEF TypeOK, CheckLock, table
    <3>2. CASE ~Locked
      <4>1. [run[p] EXCEPT !.now = clock] \in Local
        BY <3>0 DEF TypeOK, Local
      <4>2. QED BY <2>3, <3>0, <3>2, <4>1 DEF TypeOK, CheckLock, table, Runs
    <3>3. QED BY <3>1, <3>2
  <2>4. ASSUME NEW p \in Ticks, BeginTick(p) PROVE TypeOK'
    <3>0. p \in Runs BY DEF Runs
    <3>1. RowsSince(clock - CompareWindow) \subseteq Stories BY DEF RowsSince
    <3>2. PICK away \in SUBSET (stored \cap Withheld) :
            run' = [run EXCEPT ![p] = [@ EXCEPT !.now = clock, !.todo = stored \ away,
                                                !.recent = RowsSince(clock - CompareWindow)]]
      BY <2>4 DEF BeginTick
    <3>3. [run[p] EXCEPT !.now = clock, !.todo = stored \ away,
                         !.recent = RowsSince(clock - CompareWindow)] \in Local
      <4>1. [run[p] EXCEPT !.now = clock] \in Local
        BY <3>0, LocalUpdate DEF TypeOK
      <4>2. stored \ away \subseteq Stories
        BY DEF TypeOK
      <4>3. [run[p] EXCEPT !.now = clock, !.todo = stored \ away] \in Local
        BY <4>1, <4>2, LocalUpdate
      <4>4. QED BY <3>1, <4>3, LocalUpdate
    <3>4. QED BY <2>4, <3>0, <3>2, <3>3 DEF TypeOK, BeginTick, table
  <2>5. ASSUME NEW p \in Ticks, Gauge(p) PROVE TypeOK'
    <3>0. p \in Runs BY DEF Runs
    <3>1. PICK dup \in SUBSET (IF JevLive THEN JevBatch(run[p]) ELSE {}),
               last \in LatestRow(Stories), lastRecap \in LatestRow(Recaps) :
            run' = [run EXCEPT ![p] = [@ EXCEPT !.dup = dup, !.last = last, !.lastRecap = lastRecap,
                                                !.inHour = Cardinality(RowsSince(run[p].now - Hour))]]
      BY <2>5 DEF Gauge
    <3>2. dup \subseteq Stories
      BY <3>0, <3>1 DEF JevBatch, TypeOK, Local
    <3>3. last \in Nat \cup {NoTime} /\ lastRecap \in Nat \cup {NoTime}
      BY LatestRowType
    <3>4. Cardinality(RowsSince(run[p].now - Hour)) \in Nat
      BY RowCount
    <3>5. [run[p] EXCEPT !.dup = dup, !.last = last, !.lastRecap = lastRecap,
                         !.inHour = Cardinality(RowsSince(run[p].now - Hour))] \in Local
      <4>1. [run[p] EXCEPT !.dup = dup] \in Local
        BY <3>0, <3>2, LocalUpdate DEF TypeOK
      <4>2. [run[p] EXCEPT !.dup = dup, !.last = last] \in Local
        BY <3>3, <4>1, LocalUpdate
      <4>3. [run[p] EXCEPT !.dup = dup, !.last = last, !.lastRecap = lastRecap] \in Local
        BY <3>3, <4>2, LocalUpdate
      <4>4. QED BY <3>4, <4>3, LocalUpdate
    <3>6. QED BY <2>5, <3>0, <3>1, <3>5 DEF TypeOK, Gauge, table
  <2>6. ASSUME NEW p \in Ticks, Consider(p) PROVE TypeOK'
    <3>0. p \in Runs BY DEF Runs
    <3>1. PICK s \in Newest(run[p].todo) :
            /\ run' = [run EXCEPT ![p] = Walked(@, s, Verdict(s, run[p]))]
            /\ pc' = [pc EXCEPT ![p] = IF Verdict(s, run[p]) = "send" THEN "sending" ELSE @]
      BY <2>6 DEF Consider
    <3>2. s \in Stories
      BY <3>0 DEF Newest, TypeOK, Local
    <3>3. /\ Walked(run[p], s, Verdict(s, run[p])) \in Local
          /\ Verdict(s, run[p]) = "send" => Walked(run[p], s, Verdict(s, run[p])).item = s
      BY <3>0, <3>2, WalkedType DEF TypeOK
    <3>4. pc[p] = "scanning"
      BY <2>6 DEF Consider
    <3>5. QED
      BY <2>6, <3>0, <3>1, <3>2, <3>3, <3>4 DEF TypeOK, Consider, table
  <2>7. ASSUME NEW p \in Ticks, Leave(p) PROVE TypeOK'
    BY <2>7, StopType DEF TypeOK, Leave, Unlock, table, Runs, NoTime
  <2>8. ASSUME NEW p \in Agents, NEW s \in Stories, BeginPost(p, s) PROVE TypeOK'
    <3>0. p \in Runs BY DEF Runs
    <3>1. [run[p] EXCEPT !.now = clock, !.item = s] \in Local
      <4> DEFINE r == [run[p] EXCEPT !.now = clock]
      <4>1. r \in Local
        BY <3>0, LocalUpdate DEF TypeOK
      <4>2. [run[p] EXCEPT !.now = clock, !.item = s] = [r EXCEPT !.item = s]
        OBVIOUS
      <4>3. [r EXCEPT !.item = s] \in Local
        <5> HIDE DEF r
        <5> QED BY <4>1, ItemUpdate
      <4>4. QED BY <4>2, <4>3
    <3>2. QED BY <2>8, <3>0, <3>1 DEF TypeOK, BeginPost, table
  <2>9. ASSUME NEW p \in Agents, CheckPost(p) PROVE TypeOK'
    <3>0. p \in Runs BY DEF Runs
    <3>1. CASE Stop(p)
      BY <2>9, <3>0, <3>1, StopType DEF TypeOK, CheckPost, table
    <3>2. CASE pc' = [pc EXCEPT ![p] = "sending"] /\ UNCHANGED <<run, ended>>
      <4>1. run[p].item \in Stories
        BY <2>9 DEF CheckPost, TypeOK
      <4>2. QED BY <2>9, <3>0, <3>2, <4>1 DEF TypeOK, CheckPost, table
    <3>3. QED BY <2>9, <3>1, <3>2 DEF CheckPost
  <2>10. ASSUME NEW p \in Runs, Accepted(p) PROVE TypeOK'
    BY <2>10 DEF TypeOK, Accepted, table
  <2>11. ASSUME NEW p \in Runs, Refused(p) \/ AnswerLost(p) PROVE TypeOK'
    <3>1. PICK at \in {"scanning", "leaving"} : Resume(p, at)
      BY <2>11 DEF Refused, AnswerLost
    <3>2. /\ sent' \in [Stories -> Nat] /\ orphans' \in [Stories -> Nat] /\ mishaps' \in Nat
          /\ UNCHANGED <<clock, stored, table, lockFile>>
      BY <2>11 DEF Refused, AnswerLost, TypeOK
    <3>3. CASE Stop(p)
      BY <3>2, <3>3, StopType DEF TypeOK, table
    <3>4. CASE pc' = [pc EXCEPT ![p] = at] /\ UNCHANGED <<run, ended>>
      BY <3>2, <3>4 DEF TypeOK, table
    <3>5. QED BY <3>1, <3>3, <3>4 DEF Resume
  <2>12. ASSUME NEW p \in Runs, Record(p) PROVE TypeOK'
    <3>1. run[p] \in Local /\ run[p].item \in Stories /\ run[p].now \in Nat
      BY <2>12 DEF Record, TypeOK, Local
    <3>2. /\ postedAt' \in [Stories -> Nat \cup {NoTime}]
          /\ mode' \in [Stories -> {"none", "tick", "agent"}]
          /\ UNCHANGED <<clock, stored, sent, lockFile, orphans, mishaps>>
      BY <2>12, <3>1 DEF Record, TypeOK
    <3>3. CASE Stop(p)
      BY <3>2, <3>3, StopType DEF TypeOK
    <3>4. CASE /\ pc' = [pc EXCEPT ![p] = "scanning"]
               /\ run' = [run EXCEPT ![p] = Recorded(@, run[p].item)]
               /\ UNCHANGED ended
      <4>1. Recorded(run[p], run[p].item) \in Local
        BY <3>1, RecordedType
      <4>2. QED BY <3>2, <3>4, <4>1 DEF TypeOK
    <3>5. QED BY <2>12, <3>3, <3>4 DEF Record
  <2>13. ASSUME NEW p \in Runs, RecordFails(p) \/ Kill(p) PROVE TypeOK'
    <3>1. Stop(p)
      BY <2>13 DEF RecordFails, Kill, Unlock
    <3>2. /\ orphans' \in [Stories -> Nat] /\ mishaps' \in Nat
          /\ lockFile' \in Nat \cup {NoTime}
          /\ UNCHANGED <<clock, stored, sent, table>>
      BY <2>13 DEF RecordFails, Kill, Unlock, Abandon, TypeOK
    <3>3. QED BY <3>1, <3>2, StopType DEF TypeOK, table
  <2>14. CASE UNCHANGED vars
    BY <2>14 DEF TypeOK, vars, table
  <2>15. QED
    BY <2>1, <2>2, <2>3, <2>4, <2>5, <2>6, <2>7, <2>8, <2>9, <2>10, <2>11, <2>12, <2>13, <2>14
    DEF Next, TickStep, PostStep, SendStep
<1>3. QED BY <1>1, <1>2, PTL DEF Spec

-----------------------------------------------------------------------------
(***************************************************************************)
(* One run at a time.  The lock file, systemd and the absence of a hand-   *)
(* started run give this; TgPush itself does not (NoOverlap fails).        *)
(***************************************************************************)
OneRun == \E q : Runs = {q}

(* The story a run is sending or recording is one that the table still does  *)
(* not know (already_posted, read before the message and possibly long       *)
(* before the row).                                                          *)
LookedUp ==
  \A p \in Runs : pc[p] \in {"sending", "recording"} => ~Posted(run[p].item)

(* The message the run q has sent and not yet recorded, if it is of s. *)
Flying(q, s) == IF pc[q] = "recording" /\ run[q].item = s THEN 1 ELSE 0
Account(q) ==
  \A s \in Stories : sent[s] = orphans[s] + (IF Posted(s) THEN 1 ELSE 0) + Flying(q, s)

(* With one run, the ledger's cardinality is that run's own message. *)
LEMMA LedgerAccount ==
  ASSUME NEW q, Runs = {q}
  PROVE  (Ledger <=> Account(q)) /\ (Ledger' <=> Account(q)')
<1>1. Cardinality({}) = 0 /\ Cardinality({q}) = 1
  BY FS_EmptySet, FS_Singleton
<1>2. \A s : Cardinality(Recording(s)) = Flying(q, s)
  <2> TAKE s
  <2>1. Recording(s) = IF pc[q] = "recording" /\ run[q].item = s THEN {q} ELSE {}
    BY DEF Recording
  <2>2. QED BY <1>1, <2>1 DEF Flying
<1>3. \A s : Cardinality(Recording(s)') = Flying(q, s)'
  <2> TAKE s
  <2>1. Recording(s)' = IF pc'[q] = "recording" /\ run'[q].item = s THEN {q} ELSE {}
    BY DEF Recording
  <2>2. QED BY <1>1, <2>1 DEF Flying
<1>4. QED BY <1>2, <1>3 DEF Ledger, Account

(* A step that touches neither the channel nor the table, and leaves no run *)
(* recording that was not, keeps the account.                               *)
LEMMA QuietStep ==
  ASSUME NEW q, Runs = {q}, TypeOK, LookedUp, Account(q),
         UNCHANGED <<sent, table, orphans>>,
         UNCHANGED <<pc, run>> \/ (pc[q] # "recording" /\ pc'[q] \notin {"sending", "recording"})
  PROVE  LookedUp' /\ Account(q)'
BY DEF TypeOK, LookedUp, Account, Flying, Posted, table

(* The story of a run that starts sending is not in the table. *)
LEMMA SendingStep ==
  ASSUME NEW q, Runs = {q}, TypeOK, LookedUp, Account(q),
         UNCHANGED <<sent, table, orphans>>,
         pc[q] # "recording", pc'[q] = "sending", ~Posted(run'[q].item)
  PROVE  LookedUp' /\ Account(q)'
BY DEF TypeOK, LookedUp, Account, Flying, Posted, table

(* A run that is cut off while recording turns its message into an orphan. *)
LEMMA AbandonStep ==
  ASSUME NEW q, Runs = {q}, TypeOK, LookedUp, Account(q),
         Abandon(q), Stop(q), UNCHANGED <<sent, table>>
  PROVE  LookedUp' /\ Account(q)'
<1>1. pc'[q] = "off"
  BY DEF Stop, TypeOK
<1>2. LookedUp'
  BY <1>1 DEF LookedUp
<1>3. Account(q)'
  <2>1. CASE pc[q] = "recording"
    BY <1>1, <2>1 DEF Account, Flying, Posted, Abandon, table, TypeOK
  <2>2. CASE pc[q] # "recording"
    BY <1>1, <2>2 DEF Account, Flying, Posted, Abandon, table, TypeOK
  <2>3. QED BY <2>1, <2>2
<1>4. QED BY <1>2, <1>3

(* Every step of a single run keeps both parts of the invariant. *)
LEMMA SingleRunStep ==
  ASSUME NEW q, Runs = {q}, TypeOK, TypeOK', LookedUp, Account(q), [Next]_vars
  PROVE  LookedUp' /\ Account(q)'
<1>0. q \in Runs
  OBVIOUS
<1>1. CASE Advance \/ \E s \in Stories : Collect(s)
  BY <1>1, QuietStep DEF Advance, Collect, table
<1>2. ASSUME NEW p \in Ticks, CheckLock(p) PROVE LookedUp' /\ Account(q)'
  <2>1. p = q BY DEF Runs
  <2>2. QED BY <1>2, <2>1, QuietStep DEF CheckLock, Stop, table, TypeOK
<1>3. ASSUME NEW p \in Ticks, BeginTick(p) PROVE LookedUp' /\ Account(q)'
  <2>1. p = q BY DEF Runs
  <2>2. QED BY <1>3, <2>1, QuietStep DEF BeginTick, table, TypeOK
<1>4. ASSUME NEW p \in Ticks, Gauge(p) PROVE LookedUp' /\ Account(q)'
  <2>1. p = q BY DEF Runs
  <2>2. QED BY <1>4, <2>1, QuietStep DEF Gauge, table, TypeOK
<1>5. ASSUME NEW p \in Ticks, Consider(p) PROVE LookedUp' /\ Account(q)'
  <2>1. p = q BY DEF Runs
  <2>2. PICK s \in Newest(run[q].todo) :
          /\ run' = [run EXCEPT ![q] = Walked(@, s, Verdict(s, run[q]))]
          /\ pc' = [pc EXCEPT ![q] = IF Verdict(s, run[q]) = "send" THEN "sending" ELSE @]
    BY <1>5, <2>1 DEF Consider
  <2>3. pc[q] = "scanning" /\ UNCHANGED <<sent, table, orphans>>
    BY <1>5, <2>1 DEF Consider, table
  <2>4. CASE Verdict(s, run[q]) = "send"
    <3>1. s \in Stories /\ run[q] \in Local
      BY <1>0 DEF Newest, TypeOK, Local
    <3>2. run'[q].item = s
      BY <1>0, <2>2, <2>4, <3>1, WalkedType DEF TypeOK
    <3>3. ~Posted(s)
      BY <2>4 DEF Verdict
    <3>4. pc'[q] = "sending"
      BY <1>0, <2>2, <2>4 DEF TypeOK
    <3>5. QED BY <2>3, <3>2, <3>3, <3>4, SendingStep
  <2>5. CASE Verdict(s, run[q]) # "send"
    <3>1. pc'[q] = "scanning"
      BY <1>0, <2>2, <2>3, <2>5 DEF TypeOK
    <3>2. QED BY <2>3, <3>1, QuietStep
  <2>6. QED BY <2>4, <2>5
<1>6. ASSUME NEW p \in Ticks, Leave(p) PROVE LookedUp' /\ Account(q)'
  <2>1. p = q BY DEF Runs
  <2>2. pc'[q] = "off" /\ pc[q] # "recording" /\ UNCHANGED <<sent, table, orphans>>
    BY <1>6, <2>1, <1>0 DEF Leave, Unlock, Stop, table, TypeOK
  <2>3. QED BY <2>2, QuietStep
<1>7. ASSUME NEW p \in Agents, NEW s \in Stories, BeginPost(p, s) PROVE LookedUp' /\ Account(q)'
  <2>1. p = q BY DEF Runs
  <2>2. QED BY <1>7, <2>1, QuietStep DEF BeginPost, table, TypeOK
<1>8. ASSUME NEW p \in Agents, CheckPost(p) PROVE LookedUp' /\ Account(q)'
  <2>1. p = q BY DEF Runs
  <2>2. pc[q] = "gauging" /\ UNCHANGED <<sent, table, orphans>>
    BY <1>8, <2>1 DEF CheckPost, table
  <2>3. CASE Stop(q)
    <3>1. pc'[q] = "off" BY <1>0, <2>3 DEF Stop, TypeOK
    <3>2. QED BY <2>2, <3>1, QuietStep
  <2>4. CASE /\ ~Posted(run[q].item)
             /\ pc' = [pc EXCEPT ![q] = "sending"]
             /\ UNCHANGED <<run, ended>>
    <3>1. pc'[q] = "sending" BY <1>0, <2>4 DEF TypeOK
    <3>2. QED BY <2>2, <2>4, <3>1, SendingStep
  <2>5. QED BY <1>8, <2>1, <2>3, <2>4 DEF CheckPost
<1>9. ASSUME NEW p \in Runs, Accepted(p) PROVE LookedUp' /\ Account(q)'
  <2>1. p = q BY <1>9
  <2>2. LookedUp'
    BY <1>9, <2>1 DEF Accepted, LookedUp, Posted, table, TypeOK
  <2>3. Account(q)'
    BY <1>9, <2>1 DEF Accepted, Account, Flying, Posted, table, TypeOK
  <2>4. QED BY <2>2, <2>3
<1>10. ASSUME NEW p \in Runs, Refused(p) PROVE LookedUp' /\ Account(q)'
  <2>1. p = q BY <1>10
  <2>2. pc'[q] \in {"off", "scanning", "leaving"}
    BY <1>10, <2>1, <1>0 DEF Refused, Resume, Stop, TypeOK
  <2>3. QED BY <1>10, <2>1, <2>2, QuietStep DEF Refused, table
<1>11. ASSUME NEW p \in Runs, AnswerLost(p) PROVE LookedUp' /\ Account(q)'
  <2>1. p = q BY <1>11
  <2>2. pc'[q] \in {"off", "scanning"}
    BY <1>11, <2>1, <1>0 DEF AnswerLost, Resume, Stop, TypeOK
  <2>3. LookedUp'
    BY <2>2 DEF LookedUp
  <2>4. Account(q)'
    BY <1>11, <2>1, <2>2 DEF AnswerLost, Account, Flying, Posted, table, TypeOK
  <2>5. QED BY <2>3, <2>4
<1>12. ASSUME NEW p \in Runs, Record(p) PROVE LookedUp' /\ Account(q)'
  <2>1. p = q BY <1>12
  <2>2. pc'[q] \in {"off", "scanning"}
    BY <1>12, <2>1, <1>0 DEF Record, Stop, TypeOK
  <2>3. LookedUp'
    BY <2>2 DEF LookedUp
  <2>4. /\ pc[q] = "recording" /\ run[q].item \in Stories /\ run[q].now \in Nat
        /\ postedAt' = [postedAt EXCEPT ![run[q].item] = run[q].now]
        /\ UNCHANGED <<sent, orphans>>
        /\ ~Posted(run[q].item)
    BY <1>12, <2>1, <1>0 DEF Record, LookedUp, TypeOK, Local
  <2>5. Account(q)'
    BY <2>2, <2>4 DEF Account, Flying, Posted, TypeOK, NoTime
  <2>6. QED BY <2>3, <2>5
<1>13. ASSUME NEW p \in Runs, RecordFails(p) \/ Kill(p) PROVE LookedUp' /\ Account(q)'
  <2>1. p = q BY <1>13
  <2>2. Abandon(q) /\ Stop(q) /\ UNCHANGED <<sent, table>>
    BY <1>13, <2>1 DEF RecordFails, Kill, Unlock, table
  <2>3. QED BY <2>2, AbandonStep
<1>14. CASE UNCHANGED vars
  BY <1>14, QuietStep DEF vars, table
<1>15. QED
  BY <1>1, <1>2, <1>3, <1>4, <1>5, <1>6, <1>7, <1>8, <1>9, <1>10, <1>11, <1>12, <1>13, <1>14
  DEF Next, TickStep, PostStep, SendStep

(* One run at a time: the story being sent or recorded is one the table does *)
(* not know, and every message is covered by its row, its run or a mishap.   *)
THEOREM LedgerCorrect == OneRun => (Spec => [](LookedUp /\ Ledger))
<1> SUFFICES ASSUME NEW q, Runs = {q} PROVE Spec => [](LookedUp /\ Ledger)
  BY DEF OneRun
<1>1. Init => LookedUp /\ Ledger
  <2>1. Init => LookedUp /\ Account(q)
    BY DEF Init, LookedUp, Account, Flying, Posted
  <2>2. QED BY <2>1, LedgerAccount
<1>2. TypeOK /\ TypeOK' /\ LookedUp /\ Ledger /\ [Next]_vars => (LookedUp /\ Ledger)'
  BY SingleRunStep, LedgerAccount
<1>3. QED BY <1>1, <1>2, TypeCorrect, PTL DEF Spec

(* A step that changes neither the channel nor the table is a stutter. *)
LEMMA OutletStutter ==
  ASSUME UNCHANGED <<sent, postedAt>>
  PROVE  [Promise!Next]_(Promise!outletVars)
BY DEF Promise!outletVars, Posted

(* A message for a story the table does not know is Outlet's Publish. *)
LEMMA OutletPublish ==
  ASSUME NEW s \in Stories, ~Posted(s), sent' = [sent EXCEPT ![s] = @ + 1], UNCHANGED postedAt
  PROVE  [Promise!Next]_(Promise!outletVars)
BY DEF Promise!outletVars, Promise!Next, Promise!Publish, Posted

(* Every step of a single run is a step of Outlet or a stutter. *)
LEMMA OutletStep ==
  ASSUME NEW q, Runs = {q}, TypeOK, LookedUp, Account(q), [Next]_vars
  PROVE  [Promise!Next]_(Promise!outletVars)
<1>1. ASSUME NEW p \in Runs, Accepted(p) \/ AnswerLost(p)
      PROVE  [Promise!Next]_(Promise!outletVars)
  <2>1. /\ pc[p] = "sending" /\ run[p].item \in Stories
        /\ sent' = [sent EXCEPT ![run[p].item] = @ + 1] /\ UNCHANGED postedAt
    BY <1>1 DEF Accepted, AnswerLost, TypeOK, table
  <2>2. ~Posted(run[p].item)
    BY <1>1, <2>1 DEF LookedUp
  <2>3. QED BY <2>1, <2>2, OutletPublish
<1>2. ASSUME NEW p \in Runs, Record(p)
      PROVE  [Promise!Next]_(Promise!outletVars)
  <2>1. p = q BY <1>2
  <2>2. /\ pc[q] = "recording" /\ run[q].item \in Stories /\ run[q].now \in Nat
        /\ postedAt' = [postedAt EXCEPT ![run[q].item] = run[q].now]
        /\ UNCHANGED sent
    BY <1>2, <2>1 DEF Record, TypeOK, Local
  <2>3. sent[run[q].item] > 0
    BY <2>2 DEF Account, Flying, TypeOK
  <2>4. {s \in Stories : Posted(s)}' = {s \in Stories : Posted(s)} \cup {run[q].item}
    BY <2>2 DEF Posted, TypeOK, NoTime
  <2>5. Promise!Record(run[q].item)
    BY <2>2, <2>3, <2>4 DEF Promise!Record
  <2>6. QED BY <2>2, <2>5 DEF Promise!Next
<1>3. ASSUME UNCHANGED <<sent, postedAt>>
      PROVE  [Promise!Next]_(Promise!outletVars)
  BY <1>3, OutletStutter
<1>4. QED
  BY <1>1, <1>2, <1>3
  DEF Next, TickStep, PostStep, SendStep, Advance, Collect, CheckLock, BeginTick, Gauge, Consider,
      Leave, BeginPost, CheckPost, Refused, RecordFails, Kill, vars, table

(* One run at a time: the pusher implements Outlet, so no story the table    *)
(* knows is ever published again, across kills, lost answers and failed      *)
(* commits.                                                                  *)
THEOREM PromiseKept == OneRun => (Spec => KeepsPromise)
<1> SUFFICES ASSUME NEW q, Runs = {q} PROVE Spec => KeepsPromise
  BY DEF OneRun
<1>1. Init => Promise!Init
  BY DEF Init, Promise!Init, Posted
<1>2. TypeOK /\ LookedUp /\ Ledger /\ [Next]_vars => [Promise!Next]_(Promise!outletVars)
  BY OutletStep, LedgerAccount
<1>3. Spec => [](LookedUp /\ Ledger)
  BY LedgerCorrect DEF OneRun
<1>4. QED BY <1>1, <1>2, <1>3, TypeCorrect, PTL DEF Spec, KeepsPromise, Promise!Spec

-----------------------------------------------------------------------------
\* From here on a step names the assumptions it needs.
HIDE DataAssumption
HIDE RunAssumption
HIDE FigureAssumption

(***************************************************************************)
(* Runs that overlap.  A story without a row has been sent by the runs     *)
(* that are about to record it and by nobody else that no mishap explains; *)
(* once it has a row, only the runs that looked before can send it still.  *)
(***************************************************************************)
Sending(s) == {p \in Runs : pc[p] = "sending" /\ run[p].item = s}
Unexplained(s) == sent[s] - orphans[s]
Looked(s) ==
  /\ ~Posted(s) => Unexplained(s) <= Cardinality(Recording(s))
  /\ Unexplained(s) + Cardinality(Sending(s)) <= Cardinality(Runs)

(* Counting runs. *)
LEMMA RunSets ==
  ASSUME NEW S \in SUBSET Runs, NEW p \in Runs
  PROVE  /\ IsFiniteSet(S) /\ Cardinality(S) \in Nat /\ Cardinality(S) <= Cardinality(Runs)
         /\ Cardinality(Runs) \in Nat
         /\ p \notin S => Cardinality(S \cup {p}) = Cardinality(S) + 1
         /\ p \in S => Cardinality(S \ {p}) = Cardinality(S) - 1
         /\ S \ {p} = S \/ p \in S
<1>1. IsFiniteSet(S) /\ IsFiniteSet(Runs)
  BY FS_Subset, RunAssumption
<1>2. Cardinality(S) \in Nat /\ Cardinality(Runs) \in Nat /\ Cardinality(S) <= Cardinality(Runs)
  BY <1>1, FS_CardinalityType, FS_Subset
<1>3. p \notin S => Cardinality(S \cup {p}) = Cardinality(S) + 1
  BY <1>1, FS_AddElement
<1>4. p \in S => Cardinality(S \ {p}) = Cardinality(S) - 1
  BY <1>1, FS_RemoveElement
<1> QED
  BY <1>1, <1>2, <1>3, <1>4

(* Two disjoint sets of runs. *)
LEMMA TwoRunSets ==
  ASSUME NEW S \in SUBSET Runs, NEW T \in SUBSET Runs, S \cap T = {}
  PROVE  Cardinality(S) + Cardinality(T) <= Cardinality(Runs)
<1>1. IsFiniteSet(S) /\ IsFiniteSet(T) /\ IsFiniteSet(Runs) /\ IsFiniteSet(S \cup T)
  BY FS_Subset, RunAssumption, FS_Union
<1>2. Cardinality(S \cup T) = Cardinality(S) + Cardinality(T) - Cardinality(S \cap T)
  BY <1>1, FS_Union
<1>3. Cardinality(S \cap T) = 0
  BY FS_EmptySet
<1>4. Cardinality(S \cup T) <= Cardinality(Runs)
  <2>1. S \cup T \in SUBSET Runs
    OBVIOUS
  <2> QED
    BY <2>1, <1>1, FS_Subset
<1>5. Cardinality(S) \in Nat /\ Cardinality(T) \in Nat
  BY <1>1, FS_CardinalityType
<1> QED
  BY <1>2, <1>3, <1>4, <1>5

(* A step of the run p that leaves the other runs alone. *)
Alone(p) ==
  /\ \A q \in Runs : q # p => pc'[q] = pc[q] /\ run'[q] = run[q]

LEMMA SetsMove ==
  ASSUME NEW p \in Runs, Alone(p), NEW s
  PROVE  /\ Sending(s)' = IF pc'[p] = "sending" /\ run'[p].item = s
                          THEN Sending(s) \cup {p} ELSE Sending(s) \ {p}
         /\ Recording(s)' = IF pc'[p] = "recording" /\ run'[p].item = s
                            THEN Recording(s) \cup {p} ELSE Recording(s) \ {p}
BY DEF Alone, Sending, Recording

(* A step that neither sends nor records: a run may begin to send a story    *)
(* the table does not know, and a run may stop.                              *)
LEMMA QuietOverlap ==
  ASSUME TypeOK, NEW p \in Runs, Alone(p), UNCHANGED <<sent, table, orphans>>,
         \/ pc[p] # "recording" /\ pc'[p] \notin {"sending", "recording"}
         \/ pc[p] = pc'[p] /\ run[p].item = run'[p].item
         \/ pc[p] \notin {"sending", "recording"} /\ pc'[p] = "sending" /\ ~Posted(run'[p].item),
         NEW s \in Stories, Looked(s)
  PROVE  Looked(s)'
<1> DEFINE S == Sending(s) R == Recording(s)
<1>1. S \in SUBSET Runs /\ R \in SUBSET Runs /\ S \cap R = {}
  BY DEF Sending, Recording
<1>2. S' \in SUBSET Runs /\ R' \in SUBSET Runs /\ S' \cap R' = {}
  BY DEF Sending, Recording
<1>3. Unexplained(s)' = Unexplained(s) /\ Posted(s)' = Posted(s) /\ Unexplained(s) \in Int
  BY DEF Unexplained, Posted, table, TypeOK
<1>4. R' = R
  <2>1. R' = IF pc'[p] = "recording" /\ run'[p].item = s THEN R \cup {p} ELSE R \ {p}
    BY SetsMove
  <2>2. p \in R <=> pc[p] = "recording" /\ run[p].item = s
    BY DEF Recording
  <2> HIDE DEF R
  <2> QED
    BY <2>1, <2>2
<1>5. /\ IsFiniteSet(S) /\ Cardinality(S) \in Nat /\ IsFiniteSet(S') /\ Cardinality(S') \in Nat
      /\ Cardinality(R) \in Nat /\ Cardinality(Runs) \in Nat
  BY <1>1, <1>2, RunSets
<1>6. CASE ~Posted(s)
  <2>1. Cardinality(S') + Cardinality(R') <= Cardinality(Runs)
    BY <1>2, TwoRunSets
  <2>2. Unexplained(s) <= Cardinality(R)
    BY <1>6 DEF Looked
  <2> HIDE DEF S, R
  <2>3. Unexplained(s) + Cardinality(S') <= Cardinality(Runs)
    BY <2>1, <2>2, <1>3, <1>4, <1>5
  <2> QED
    BY <2>2, <2>3, <1>3, <1>4 DEF Looked, S, R
<1>7. CASE Posted(s)
  <2>1. S' \subseteq S
    <3>1. S' = IF pc'[p] = "sending" /\ run'[p].item = s THEN S \cup {p} ELSE S \ {p}
      BY SetsMove
    <3>2. p \in S <=> pc[p] = "sending" /\ run[p].item = s
      BY DEF Sending
    <3> HIDE DEF S
    <3>3. pc'[p] = "sending" /\ run'[p].item = s => p \in S
      BY <3>2, <1>7, <1>3 DEF Posted, table
    <3> QED
      BY <3>1, <3>3
  <2>2. Cardinality(S') <= Cardinality(S)
    BY <2>1, <1>5, FS_Subset
  <2>3. Unexplained(s) + Cardinality(S) <= Cardinality(Runs)
    BY DEF Looked
  <2> HIDE DEF S, R
  <2>4. Unexplained(s) + Cardinality(S') <= Cardinality(Runs)
    BY <2>2, <2>3, <1>3, <1>5
  <2> QED
    BY <2>4, <1>3, <1>7 DEF Looked, S, R
<1> QED
  BY <1>6, <1>7
(* What a step of p that does send, record or drop a message does to the     *)
(* figures of a story: Moved says by how much each of them changes.          *)
LEMMA LookedMoves ==
  ASSUME TypeOK, TypeOK', NEW p \in Runs, Alone(p), NEW s \in Stories, Looked(s),
         \/ /\ p \in Sending(s) /\ p \in Recording(s)' /\ ~(p \in Sending(s)')
            /\ Unexplained(s)' = Unexplained(s) + 1 /\ Posted(s)' = Posted(s)
         \/ /\ p \notin Sending(s)' /\ p \notin Recording(s)' /\ Unexplained(s)' = Unexplained(s)
            /\ Posted(s)' \/ (~Posted(s) /\ p \notin Recording(s))
         \/ /\ p \in Recording(s) /\ p \notin Sending(s)' /\ p \notin Recording(s)'
            /\ Unexplained(s)' = Unexplained(s) - 1 /\ Posted(s)' = Posted(s)
  PROVE  Looked(s)'
<1> DEFINE S == Sending(s) R == Recording(s)
<1>1. /\ S \in SUBSET Runs /\ R \in SUBSET Runs /\ S' \in SUBSET Runs /\ R' \in SUBSET Runs
      /\ p \in S => p \notin R
  BY DEF Sending, Recording
<1>2. Unexplained(s) \in Int /\ Unexplained(s)' \in Int
  BY DEF Unexplained, TypeOK
<1>3. /\ S' = IF p \in S' THEN S \cup {p} ELSE S \ {p}
      /\ R' = IF p \in R' THEN R \cup {p} ELSE R \ {p}
  <2>1. /\ S' = S \cup {p} \/ S' = S \ {p}
        /\ R' = R \cup {p} \/ R' = R \ {p}
    BY SetsMove
  <2> HIDE DEF S, R
  <2> QED
    BY <2>1
<1>4. /\ Cardinality(S) \in Nat /\ Cardinality(R) \in Nat /\ Cardinality(Runs) \in Nat
      /\ Cardinality(S') \in Nat /\ Cardinality(R') \in Nat
  BY <1>1, RunSets
<1>5. /\ p \in S => Cardinality(S \ {p}) = Cardinality(S) - 1
      /\ p \notin S => S \ {p} = S
  BY <1>1, RunSets
<1>6. /\ p \in R => Cardinality(R \ {p}) = Cardinality(R) - 1
      /\ p \notin R => R \ {p} = R
      /\ p \notin R => Cardinality(R \cup {p}) = Cardinality(R) + 1
  BY <1>1, RunSets
<1>7. /\ ~Posted(s) => Unexplained(s) <= Cardinality(R)
      /\ Unexplained(s) + Cardinality(S) <= Cardinality(Runs)
  BY DEF Looked
<1> HIDE DEF S, R
<1>8. CASE /\ p \in S /\ p \in R' /\ p \notin S'
           /\ Unexplained(s)' = Unexplained(s) + 1 /\ Posted(s)' = Posted(s)
  <2>1. Cardinality(S') = Cardinality(S) - 1 /\ Cardinality(R') = Cardinality(R) + 1
    BY <1>1, <1>3, <1>5, <1>6, <1>8
  <2>2. /\ ~Posted(s)' => Unexplained(s)' <= Cardinality(R')
        /\ Unexplained(s)' + Cardinality(S') <= Cardinality(Runs)
    BY <2>1, <1>2, <1>4, <1>7, <1>8
  <2> QED
    BY <2>2 DEF Looked, S, R
<1>9. CASE /\ p \notin S' /\ p \notin R' /\ Unexplained(s)' = Unexplained(s)
           /\ Posted(s)' \/ (~Posted(s) /\ p \notin R)
  <2>a. S' = S \ {p} /\ R' = R \ {p}
    BY <1>3, <1>9
  <2>b. Cardinality(S') <= Cardinality(S)
    <3>1. CASE p \in S
      <4>1. Cardinality(S \ {p}) = Cardinality(S) - 1
        BY <3>1, <1>5
      <4> QED
        BY <4>1, <2>a, <1>4
    <3>2. CASE p \notin S
      <4>1. S' = S
        BY <3>2, <1>5, <2>a
      <4> QED
        BY <4>1, <1>4
    <3> QED
      BY <3>1, <3>2
  <2>c. p \notin R => R' = R
    BY <2>a, <1>6
  <2>1. Cardinality(S') <= Cardinality(S) /\ (p \notin R => R' = R)
    BY <2>b, <2>c
  <2>2. /\ ~Posted(s)' => Unexplained(s)' <= Cardinality(R')
        /\ Unexplained(s)' + Cardinality(S') <= Cardinality(Runs)
    BY <2>1, <1>2, <1>4, <1>7, <1>9
  <2> QED
    BY <2>2 DEF Looked, S, R
<1>10. CASE /\ p \in R /\ p \notin S' /\ p \notin R'
            /\ Unexplained(s)' = Unexplained(s) - 1 /\ Posted(s)' = Posted(s)
  <2>a. S' = S \ {p} /\ R' = R \ {p}
    BY <1>3, <1>10
  <2>b. Cardinality(S') <= Cardinality(S)
    <3>1. CASE p \in S
      <4>1. Cardinality(S \ {p}) = Cardinality(S) - 1
        BY <3>1, <1>5
      <4> QED
        BY <4>1, <2>a, <1>4
    <3>2. CASE p \notin S
      <4>1. S' = S
        BY <3>2, <1>5, <2>a
      <4> QED
        BY <4>1, <1>4
    <3> QED
      BY <3>1, <3>2
  <2>c. Cardinality(R') = Cardinality(R) - 1
    BY <2>a, <1>6, <1>10
  <2>1. Cardinality(S') <= Cardinality(S) /\ Cardinality(R') = Cardinality(R) - 1
    BY <2>b, <2>c
  <2>2. /\ ~Posted(s)' => Unexplained(s)' <= Cardinality(R')
        /\ Unexplained(s)' + Cardinality(S') <= Cardinality(Runs)
    BY <2>1, <1>2, <1>4, <1>7, <1>10
  <2> QED
    BY <2>2 DEF Looked, S, R
<1> QED
  BY <1>8, <1>9, <1>10 DEF S, R

(* Every step, whatever runs overlap. *)
LEMMA OverlapStep ==
  ASSUME TypeOK, TypeOK', [Next]_vars, NEW s \in Stories, Looked(s)
  PROVE  Looked(s)'
<1> DEFINE Quiet(p) ==
      /\ Alone(p) /\ UNCHANGED <<sent, table, orphans>>
      /\ \/ pc[p] # "recording" /\ pc'[p] \notin {"sending", "recording"}
         \/ pc[p] = pc'[p] /\ run[p].item = run'[p].item
         \/ pc[p] \notin {"sending", "recording"} /\ pc'[p] = "sending" /\ ~Posted(run'[p].item)
<1>q. ASSUME NEW p \in Runs, Quiet(p) PROVE Looked(s)'
  BY <1>q, QuietOverlap
<1>h. ASSUME UNCHANGED <<sent, table, orphans, pc, run>> PROVE Looked(s)'
  BY <1>h DEF Looked, Sending, Recording, Unexplained, Posted, table
<1>s. ASSUME NEW p \in Runs, Stop(p)
      PROVE  Alone(p) /\ pc'[p] = "off"
  BY <1>s DEF Stop, Alone, TypeOK
<1> HIDE DEF Quiet
<1>1. CASE Advance \/ (\E t \in Stories : Collect(t)) \/ UNCHANGED vars
  <2>1. UNCHANGED <<sent, table, orphans, pc, run>>
    BY <1>1 DEF Advance, Collect, vars, table
  <2> QED
    BY <2>1, <1>h
<1>2. ASSUME NEW p \in Ticks, CheckLock(p) \/ BeginTick(p) \/ Gauge(p) \/ Leave(p)
      PROVE  Looked(s)'
  <2>0. p \in Runs BY DEF Runs
  <2>1. pc[p] \notin {"sending", "recording"} /\ UNCHANGED <<sent, table, orphans>>
    BY <1>2 DEF CheckLock, BeginTick, Gauge, Leave, table
  <2>2. Alone(p) /\ pc'[p] \notin {"sending", "recording"}
    BY <1>2, <1>s, <2>0 DEF CheckLock, BeginTick, Gauge, Leave, Unlock, Alone, TypeOK
  <2> QED
    BY <1>q, <2>0, <2>1, <2>2 DEF Quiet
<1>3. ASSUME NEW p \in Ticks, Consider(p) PROVE Looked(s)'
  <2>0. p \in Runs BY DEF Runs
  <2>1. PICK t \in Newest(run[p].todo) :
          /\ run' = [run EXCEPT ![p] = Walked(@, t, Verdict(t, run[p]))]
          /\ pc' = [pc EXCEPT ![p] = IF Verdict(t, run[p]) = "send" THEN "sending" ELSE @]
    BY <1>3 DEF Consider
  <2>2. pc[p] = "scanning" /\ UNCHANGED <<sent, table, orphans>>
    BY <1>3 DEF Consider, table
  <2>3. t \in Stories /\ run[p] \in Local
    BY <2>0 DEF Newest, TypeOK, Local
  <2>4. Alone(p)
    BY <2>0, <2>1 DEF Alone, TypeOK
  <2>5. CASE Verdict(t, run[p]) = "send"
    <3>1. pc'[p] = "sending" /\ run'[p].item = t
      BY <2>0, <2>1, <2>3, <2>5, WalkedType DEF TypeOK
    <3>2. ~Posted(t)
      BY <2>5 DEF Verdict
    <3> QED
      BY <1>q, <2>0, <2>2, <2>4, <3>1, <3>2 DEF Quiet
  <2>6. CASE Verdict(t, run[p]) # "send"
    <3>1. pc'[p] = "scanning"
      BY <2>0, <2>1, <2>2, <2>6 DEF TypeOK
    <3> QED
      BY <1>q, <2>0, <2>2, <2>4, <3>1 DEF Quiet
  <2> QED
    BY <2>5, <2>6
<1>4. ASSUME NEW p \in Agents, NEW t \in Stories, BeginPost(p, t) PROVE Looked(s)'
  <2>0. p \in Runs BY DEF Runs
  <2>1. Alone(p) /\ pc[p] = "off" /\ pc'[p] = "gauging" /\ UNCHANGED <<sent, table, orphans>>
    BY <1>4, <2>0 DEF BeginPost, Alone, table, TypeOK
  <2> QED
    BY <1>q, <2>0, <2>1 DEF Quiet
<1>5. ASSUME NEW p \in Agents, CheckPost(p) PROVE Looked(s)'
  <2>0. p \in Runs BY DEF Runs
  <2>1. pc[p] = "gauging" /\ UNCHANGED <<sent, table, orphans>>
    BY <1>5 DEF CheckPost, table
  <2>2. CASE Stop(p)
    <3>1. Alone(p) /\ pc'[p] = "off"
      BY <1>s, <2>0, <2>2
    <3> QED
      BY <1>q, <2>0, <2>1, <3>1 DEF Quiet
  <2>3. CASE ~Posted(run[p].item) /\ pc' = [pc EXCEPT ![p] = "sending"] /\ UNCHANGED <<run, ended>>
    <3>1. Alone(p) /\ pc'[p] = "sending" /\ ~Posted(run'[p].item)
      BY <2>0, <2>3 DEF Alone, TypeOK
    <3> QED
      BY <1>q, <2>0, <2>1, <3>1 DEF Quiet
  <2> QED
    BY <1>5, <2>2, <2>3 DEF CheckPost
<1>r. ASSUME NEW p \in Runs, NEW at \in {"scanning", "leaving"}, Resume(p, at)
      PROVE  Alone(p) /\ pc'[p] \in {"off", "scanning", "leaving"}
  BY <1>r, <1>s DEF Resume, Alone, TypeOK
<1>6. ASSUME NEW p \in Runs, Refused(p) PROVE Looked(s)'
  <2>1. Alone(p) /\ pc[p] = "sending" /\ pc'[p] \in {"off", "scanning", "leaving"}
    BY <1>6, <1>r DEF Refused
  <2>2. UNCHANGED <<sent, table, orphans>>
    BY <1>6 DEF Refused, table
  <2> QED
    BY <1>q, <2>1, <2>2 DEF Quiet
<1>7. ASSUME NEW p \in Runs, Accepted(p) PROVE Looked(s)'
  <2>1. /\ pc[p] = "sending" /\ pc'[p] = "recording" /\ UNCHANGED <<orphans, table, run>>
        /\ run[p].item \in Stories /\ Alone(p)
        /\ sent' = [sent EXCEPT ![run[p].item] = @ + 1]
    BY <1>7 DEF Accepted, Alone, table, TypeOK
  <2>2. CASE s = run[p].item
    <3>1. Unexplained(s)' = Unexplained(s) + 1 /\ Posted(s)' = Posted(s)
      BY <2>1, <2>2 DEF Unexplained, Posted, table, TypeOK
    <3>2. p \in Sending(s) /\ p \in Recording(s)' /\ p \notin Sending(s)'
      BY <2>1, <2>2 DEF Sending, Recording
    <3> QED
      BY <2>1, <3>1, <3>2, LookedMoves
  <2>3. CASE s # run[p].item
    <3>1. Unexplained(s)' = Unexplained(s) /\ Posted(s)' = Posted(s)
      BY <2>1, <2>3 DEF Unexplained, Posted, table, TypeOK
    <3>2. Sending(s)' = Sending(s) /\ Recording(s)' = Recording(s)
      BY <2>1, <2>3 DEF Sending, Recording, Alone
    <3> QED
      BY <3>1, <3>2 DEF Looked
  <2> QED
    BY <2>2, <2>3
<1>8. ASSUME NEW p \in Runs, AnswerLost(p) PROVE Looked(s)'
  <2>1. /\ pc[p] = "sending" /\ UNCHANGED table
        /\ run[p].item \in Stories
        /\ sent' = [sent EXCEPT ![run[p].item] = @ + 1]
        /\ orphans' = [orphans EXCEPT ![run[p].item] = @ + 1]
    BY <1>8 DEF AnswerLost, table, TypeOK
  <2>2. Alone(p) /\ pc'[p] \in {"off", "scanning", "leaving"}
    BY <1>8, <1>r DEF AnswerLost
  <2>3. Unexplained(s)' = Unexplained(s) /\ Posted(s)' = Posted(s)
    BY <2>1 DEF Unexplained, Posted, table, TypeOK
  <2>4. p \notin Sending(s)' /\ p \notin Recording(s)' /\ p \notin Recording(s)
    BY <2>1, <2>2 DEF Sending, Recording
  <2> QED
    BY <2>2, <2>3, <2>4, LookedMoves
<1>9. ASSUME NEW p \in Runs, Record(p) PROVE Looked(s)'
  <2>1. /\ pc[p] = "recording" /\ run[p].item \in Stories /\ run[p].now \in Nat
        /\ postedAt' = [postedAt EXCEPT ![run[p].item] = run[p].now]
        /\ UNCHANGED <<sent, orphans>>
    BY <1>9 DEF Record, TypeOK, Local
  <2>2. Alone(p) /\ pc'[p] \in {"off", "scanning"}
    BY <1>9, <1>s DEF Record, Alone, TypeOK
  <2>3. Unexplained(s)' = Unexplained(s)
    BY <2>1 DEF Unexplained
  <2>4. p \notin Sending(s)' /\ p \notin Recording(s)'
    BY <2>2 DEF Sending, Recording
  <2>5. CASE s = run[p].item
    <3>1. Posted(s)'
      BY <2>1, <2>5 DEF Posted, TypeOK, NoTime
    <3> QED
      BY <2>2, <2>3, <2>4, <3>1, LookedMoves
  <2>6. CASE s # run[p].item
    <3>1. Posted(s)' = Posted(s) /\ p \notin Recording(s)
      BY <2>1, <2>6 DEF Posted, Recording, TypeOK
    <3> QED
      BY <2>2, <2>3, <2>4, <3>1, LookedMoves
  <2> QED
    BY <2>5, <2>6
<1>10. ASSUME NEW p \in Runs, RecordFails(p) \/ Kill(p) PROVE Looked(s)'
  <2>1. Abandon(p) /\ Stop(p) /\ UNCHANGED <<sent, table>>
    BY <1>10 DEF RecordFails, Kill, Unlock, table
  <2>2. Alone(p) /\ pc'[p] = "off" /\ Posted(s)' = Posted(s)
    BY <2>1, <1>s DEF Posted, table
  <2>3. p \notin Sending(s)' /\ p \notin Recording(s)'
    BY <2>2 DEF Sending, Recording
  <2>4. CASE p \in Recording(s)
    <3>1. Unexplained(s)' = Unexplained(s) - 1
      BY <2>1, <2>4 DEF Abandon, Recording, Unexplained, TypeOK
    <3> QED
      BY <2>2, <2>3, <2>4, <3>1, LookedMoves
  <2>5. CASE p \notin Recording(s)
    <3>1. Unexplained(s)' = Unexplained(s)
      <4>1. orphans'[s] = orphans[s]
        BY <2>1, <2>5 DEF Abandon, Recording, TypeOK
      <4> QED
        BY <4>1, <2>1 DEF Unexplained
    <3> QED
      BY <2>2, <2>3, <2>5, <3>1, LookedMoves
  <2> QED
    BY <2>4, <2>5
<1> QED
  BY <1>1, <1>2, <1>3, <1>4, <1>5, <1>6, <1>7, <1>8, <1>9, <1>10
  DEF Next, TickStep, PostStep, SendStep

(* However many runs overlap, and whatever is killed or lost meanwhile, the  *)
(* messages of a story that no mishap explains are at most as many as the    *)
(* runs (the check against tg_posted before send, in tick and post_parts).   *)
THEOREM OverlapBounded == Spec => []OverlapBound
<1> DEFINE Inv == \A s \in Stories : Looked(s)
<1>1. Init => Inv
  <2> SUFFICES ASSUME Init, NEW s \in Stories PROVE Looked(s)
    OBVIOUS
  <2>1. Recording(s) = {} /\ Sending(s) = {} /\ Unexplained(s) = 0
    BY DEF Init, Recording, Sending, Unexplained
  <2>2. Cardinality({}) = 0 /\ Cardinality(Runs) \in Nat
    BY FS_EmptySet, FS_CardinalityType, RunAssumption
  <2> QED
    BY <2>1, <2>2 DEF Looked
<1>2. TypeOK /\ TypeOK' /\ Inv /\ [Next]_vars => Inv'
  BY OverlapStep
<1>3. TypeOK /\ Inv => OverlapBound
  <2> SUFFICES ASSUME TypeOK, Inv, NEW s \in Stories PROVE sent[s] - orphans[s] <= Cardinality(Runs)
    BY DEF OverlapBound
  <2>1. Sending(s) \in SUBSET Runs /\ IsFiniteSet(Sending(s))
    BY FS_Subset, RunAssumption DEF Sending
  <2>2. Cardinality(Sending(s)) \in Nat /\ Cardinality(Runs) \in Nat
    BY <2>1, FS_CardinalityType, RunAssumption
  <2>3. Unexplained(s) + Cardinality(Sending(s)) <= Cardinality(Runs)
    BY DEF Looked
  <2>4. Unexplained(s) \in Int
    BY DEF Unexplained, TypeOK
  <2> QED
    BY <2>2, <2>3, <2>4 DEF Unexplained
<1> QED
  BY <1>1, <1>2, <1>3, TypeCorrect, PTL DEF Spec

-----------------------------------------------------------------------------
(***************************************************************************)
(* What one tick at a time promises its readers, whatever agents post      *)
(* meanwhile.  The tick's own figures are never behind the table: its      *)
(* count covers the rows of ticks in its hour, `last` is no earlier than   *)
(* any of them (Counted); and it remembers every row of a tick it must not *)
(* repeat (Remembered).                                                    *)
(***************************************************************************)
Sends == {"sending", "recording"}
Walking == {"scanning"} \cup Sends
Busy == {"gauging", "leaving"} \cup Walking

TickRows(from) == {t \in Stories : ByTick(t) /\ postedAt[t] >= from}

Counted(q) ==
  /\ \A t \in Stories : ByTick(t) =>
       /\ postedAt[t] <= clock
       /\ pc[q] \in Busy => postedAt[t] <= run[q].now
       /\ pc[q] \in Walking => run[q].last # NoTime /\ postedAt[t] <= run[q].last
  /\ pc[q] \in Busy => run[q].now <= clock
  /\ pc[q] \in Walking => Cardinality(TickRows(run[q].now - Hour)) <= run[q].inHour
  /\ pc[q] \in Sends => Eligible(run[q].item, run[q])

Untold(s, r) ==
  /\ \A t \in r.recent \cup r.mine : <<s, t>> \notin SimilarKey
  /\ \A t \in r.recent : <<s, t>> \notin SameEventKo
  /\ \A t \in r.seen \ {s} : <<s, t>> \notin SameEvent

Remembered(q) ==
  /\ pc[q] # "off" => run[q].now <= clock
  /\ \A t \in Stories : ByTick(t) =>
       /\ pc[q] = "off" => postedAt[t] <= ended[q]
       /\ pc[q] \in {"locking", "gauging"} => postedAt[t] < run[q].now
       /\ pc[q] \in Busy /\ postedAt[t] = run[q].now => t \in run[q].mine
       /\ pc[q] \in Busy /\ postedAt[t] < run[q].now /\ postedAt[t] >= run[q].now - CompareWindow =>
            t \in run[q].recent
  /\ run[q].mine \subseteq run[q].seen
  /\ pc[q] \in Sends => run[q].item \in run[q].seen /\ Untold(run[q].item, run[q])

Symmetric(R) == \A s, t \in Stories : <<s, t>> \in R => <<t, s>> \in R

(* A step by which no tick gains a row. *)
Shrinks == \A t \in Stories : ByTick(t)' => ByTick(t) /\ postedAt'[t] = postedAt[t]

LEMMA RowsShrink ==
  ASSUME TypeOK, Shrinks
  PROVE  /\ \A n \in Int : Cardinality(TickRows(n)') <= Cardinality(TickRows(n))
         /\ HourlyCap => HourlyCap'
         /\ OrdinaryGap => OrdinaryGap'
         /\ NoRetelling => NoRetelling'
<1>1. ASSUME NEW S \in SUBSET Stories, NEW T \in SUBSET S
      PROVE  Cardinality(T) <= Cardinality(S) /\ Cardinality(T) \in Nat /\ Cardinality(S) \in Nat
  <2>1. IsFiniteSet(S) /\ IsFiniteSet(T)
    BY FS_Subset, DataAssumption
  <2> QED
    BY <2>1, FS_Subset, FS_CardinalityType
<1>2. \A n \in Int : Cardinality(TickRows(n)') <= Cardinality(TickRows(n))
  <2> SUFFICES ASSUME NEW n \in Int PROVE Cardinality(TickRows(n)') <= Cardinality(TickRows(n))
    OBVIOUS
  <2>1. TickRows(n) \in SUBSET Stories /\ TickRows(n)' \in SUBSET TickRows(n)
    BY DEF TickRows, Shrinks
  <2> QED
    BY <2>1, <1>1
<1>3. ASSUME HourlyCap PROVE HourlyCap'
  <2> DEFINE Window(s) == {t \in Stories : ByTick(t) /\ postedAt[t] <= postedAt[s]
                                           /\ postedAt[t] >= postedAt[s] - Hour}
  <2> SUFFICES ASSUME NEW s \in Stories, ByTick(s)' PROVE Cardinality(Window(s)') <= MaxPerHour
    BY DEF HourlyCap
  <2>1. ByTick(s) /\ postedAt'[s] = postedAt[s]
    BY DEF Shrinks
  <2>2. Window(s) \in SUBSET Stories /\ Window(s)' \in SUBSET Window(s)
    BY <2>1 DEF Shrinks
  <2>3. Cardinality(Window(s)) <= MaxPerHour
    BY <1>3, <2>1 DEF HourlyCap
  <2>4. Cardinality(Window(s)') <= Cardinality(Window(s))
        /\ Cardinality(Window(s)') \in Nat /\ Cardinality(Window(s)) \in Nat
    BY <2>2, <1>1
  <2>5. MaxPerHour \in Nat
    BY FigureAssumption
  <2> HIDE DEF Window
  <2> QED
    BY <2>3, <2>4, <2>5
<1>4. ASSUME OrdinaryGap PROVE OrdinaryGap'
  BY <1>4 DEF OrdinaryGap, Shrinks
<1>5. ASSUME NoRetelling PROVE NoRetelling'
  BY <1>5 DEF NoRetelling, Shrinks
<1> QED
  BY <1>2, <1>3, <1>4, <1>5

(* The rows of ticks as they are while the table is not written. *)
LEMMA SameRows ==
  ASSUME UNCHANGED table
  PROVE  /\ Shrinks /\ \A t \in Stories : ByTick(t)' = ByTick(t)
         /\ \A n : TickRows(n)' = TickRows(n)
         /\ \A s, r : Eligible(s, r)' = Eligible(s, r) /\ Untold(s, r)' = Untold(s, r)
BY DEF table, Shrinks, ByTick, Posted, TickRows, Eligible, Untold

(* The rows of ticks never outnumber what a run counted, when none is added. *)
LEMMA FewerRows ==
  ASSUME TypeOK, TypeOK', Shrinks, NEW q \in Runs, run'[q] = run[q],
         Cardinality(TickRows(run[q].now - Hour)) <= run[q].inHour
  PROVE  Cardinality(TickRows(run[q].now - Hour)') <= run[q].inHour
<1>1. run[q].now \in Nat /\ run[q].inHour \in Nat
  BY DEF TypeOK, Local
<1>2. run[q].now - Hour \in Int
  BY <1>1, FigureAssumption
<1>3. Cardinality(TickRows(run[q].now - Hour)') <= Cardinality(TickRows(run[q].now - Hour))
  BY <1>2, RowsShrink
<1>4. IsFiniteSet(TickRows(run[q].now - Hour)) /\ IsFiniteSet(TickRows(run[q].now - Hour)')
  BY FS_Subset, DataAssumption DEF TickRows
<1>5. Cardinality(TickRows(run[q].now - Hour)) \in Nat /\ Cardinality(TickRows(run[q].now - Hour)') \in Nat
  BY <1>4, FS_CardinalityType
<1> QED
  BY <1>1, <1>3, <1>5

(* While q stands still, time passes and others work. *)
LEMMA Waits ==
  ASSUME TypeOK, TypeOK', NEW q \in Runs, Shrinks, pc'[q] = pc[q], run'[q] = run[q],
         clock' >= clock, q \in Timer => ended'[q] = ended[q]
  PROVE  /\ Counted(q) => Counted(q)'
         /\ Remembered(q) /\ q \in Timer => Remembered(q)'
<1>0. clock \in Nat /\ clock' \in Nat /\ run[q].now \in Nat
      /\ postedAt \in [Stories -> Nat \cup {NoTime}] /\ postedAt' \in [Stories -> Nat \cup {NoTime}]
  BY DEF TypeOK, Local
<1>t. \A t \in Stories : postedAt[t] \in Int
  BY <1>0 DEF NoTime
<1>1. ASSUME Counted(q) PROVE Counted(q)'
  <2>1. pc[q] \in Walking => Cardinality(TickRows(run[q].now - Hour)') <= run[q].inHour
    BY <1>1, FewerRows DEF Counted
  <2>2. \A t \in Stories : ByTick(t)' =>
          /\ postedAt'[t] <= clock'
          /\ pc'[q] \in Busy => postedAt'[t] <= run'[q].now
          /\ pc'[q] \in Walking => run'[q].last # NoTime /\ postedAt'[t] <= run'[q].last
    <3> SUFFICES ASSUME NEW t \in Stories, ByTick(t)'
                 PROVE  /\ postedAt'[t] <= clock'
                        /\ pc'[q] \in Busy => postedAt'[t] <= run'[q].now
                        /\ pc'[q] \in Walking => run'[q].last # NoTime /\ postedAt'[t] <= run'[q].last
      OBVIOUS
    <3>1. ByTick(t) /\ postedAt'[t] = postedAt[t] /\ postedAt[t] \in Int
      BY <1>t DEF Shrinks
    <3>2. /\ postedAt[t] <= clock
          /\ pc[q] \in Busy => postedAt[t] <= run[q].now
          /\ pc[q] \in Walking => run[q].last # NoTime /\ postedAt[t] <= run[q].last
      BY <1>1, <3>1 DEF Counted
    <3> QED
      BY <3>1, <3>2, <1>0
  <2>3. pc'[q] \in Busy => run'[q].now <= clock'
    BY <1>0, <1>1 DEF Counted
  <2>4. pc'[q] \in Sends => Eligible(run'[q].item, run'[q])
    BY <1>1 DEF Counted
  <2> QED
    BY <2>1, <2>2, <2>3, <2>4 DEF Counted, TickRows
<1>2. ASSUME Remembered(q), q \in Timer PROVE Remembered(q)'
  <2>1. pc'[q] # "off" => run'[q].now <= clock'
    BY <1>0, <1>2 DEF Remembered
  <2>2. pc'[q] \in Sends => run'[q].item \in run'[q].seen /\ Untold(run'[q].item, run'[q])
    BY <1>2 DEF Remembered
  <2>3. \A t \in Stories : ByTick(t)' =>
          /\ pc'[q] = "off" => postedAt'[t] <= ended'[q]
          /\ pc'[q] \in {"locking", "gauging"} => postedAt'[t] < run'[q].now
          /\ pc'[q] \in Busy /\ postedAt'[t] = run'[q].now => t \in run'[q].mine
          /\ pc'[q] \in Busy /\ postedAt'[t] < run'[q].now
             /\ postedAt'[t] >= run'[q].now - CompareWindow => t \in run'[q].recent
    BY <1>2 DEF Remembered, Shrinks
  <2>4. run'[q].mine \subseteq run'[q].seen
    BY <1>2 DEF Remembered
  <2> QED
    BY <2>1, <2>2, <2>3, <2>4 DEF Remembered, Untold
<1> QED
  BY <1>1, <1>2

(* The run ends: its rows are no later than the clock, which is when it ended. *)
LEMMA Stops ==
  ASSUME TypeOK, NEW q \in Runs, UNCHANGED <<table, clock>>, Stop(q)
  PROVE  /\ Counted(q) => Counted(q)'
         /\ Remembered(q) /\ Counted(q) /\ q \in Timer => Remembered(q)'
<1>1. pc'[q] = "off" /\ run'[q] = Fresh /\ (q \in Timer => ended'[q] = clock)
  BY DEF Stop, TypeOK
<1>2. \A t \in Stories : ByTick(t)' = ByTick(t) /\ postedAt'[t] = postedAt[t]
  BY SameRows DEF table
<1>3. ASSUME Counted(q) PROVE \A t \in Stories : ByTick(t)' => postedAt'[t] <= clock
  BY <1>2, <1>3 DEF Counted
<1>4. Counted(q) => Counted(q)'
  BY <1>1, <1>3 DEF Counted, Busy, Walking, Sends
<1>5. Fresh.mine = {} /\ Fresh.seen = {}
  BY DEF Fresh
<1>6. Remembered(q) /\ Counted(q) /\ q \in Timer => Remembered(q)'
  BY <1>1, <1>3, <1>5 DEF Remembered, Busy, Walking, Sends
<1> QED
  BY <1>4, <1>6

(* The run goes on with what it knows, to a place that asks for no more. *)
LEMMA GoesOn ==
  ASSUME TypeOK, NEW q \in Runs, UNCHANGED <<table, clock>>, run'[q] = run[q], pc[q] \in Sends,
         \/ pc'[q] \in {"scanning", "leaving"}
         \/ pc'[q] = "recording"
  PROVE  /\ Counted(q) => Counted(q)'
         /\ Remembered(q) => Remembered(q)'
<1>1. \A t \in Stories : ByTick(t)' = ByTick(t) /\ postedAt'[t] = postedAt[t]
  BY SameRows DEF table
<1>2. \A n : TickRows(n)' = TickRows(n)
  BY SameRows
<1>3. /\ pc[q] # "off" /\ pc[q] \in Busy /\ pc[q] \in Walking
      /\ pc'[q] \notin {"off", "locking", "gauging"}
  BY DEF Sends, Walking, Busy
<1>4. Counted(q) => Counted(q)'
  BY <1>1, <1>2, <1>3 DEF Counted
<1>5. Remembered(q) => Remembered(q)'
  BY <1>1, <1>3 DEF Remembered, Untold
<1> QED
  BY <1>4, <1>5

(* What the walk and the recording of a post make of the local variables. *)
LEMMA WalkedFields ==
  ASSUME NEW r \in Local, NEW s \in Stories, NEW verdict
  PROVE  /\ Walked(r, s, verdict).now = r.now /\ Walked(r, s, verdict).recent = r.recent
         /\ Walked(r, s, verdict).mine = r.mine /\ Walked(r, s, verdict).last = r.last
         /\ Walked(r, s, verdict).inHour = r.inHour
         /\ Walked(r, s, verdict).seen = (IF verdict = "skip" THEN r.seen ELSE r.seen \cup {s})
         /\ verdict = "send" => Walked(r, s, verdict).item = s
BY DEF Walked, Local

LEMMA RecordedFields ==
  ASSUME NEW r \in Local, NEW s \in Stories, NEW w, w = Recorded(r, s)
  PROVE  /\ w.now = r.now /\ w.recent = r.recent /\ w.seen = r.seen /\ w.last = r.now
         /\ w.mine = r.mine \cup {s} /\ w.inHour = r.inHour + 1
BY DEF Recorded, Local

(* The tick begins: it starts after the last one ended, and looks at the table later still. *)
LEMMA Begins ==
  ASSUME TypeOK, TypeOK', NEW q \in Ticks, CheckLock(q) \/ BeginTick(q)
  PROVE  /\ Counted(q) => Counted(q)'
         /\ Counted(q) /\ Remembered(q) /\ q \in Timer /\ TickPeriod > 0 => Remembered(q)'
<1>0. q \in Runs
  BY DEF Runs
<1>1. UNCHANGED <<table, clock>>
  BY DEF CheckLock, BeginTick
<1>2. \A t \in Stories : ByTick(t)' = ByTick(t) /\ postedAt'[t] = postedAt[t]
  BY <1>1, SameRows DEF table
<1>3. clock \in Nat /\ run[q] \in Local /\ TickPeriod \in Nat /\ (q \in Timer => ended[q] \in Int)
  BY <1>0, FigureAssumption DEF TypeOK
<1>t. \A t \in Stories : postedAt[t] \in Int
  BY DEF TypeOK, NoTime
<1>4. CASE CheckLock(q) /\ Stop(q)
  BY <1>0, <1>1, <1>4, Stops
<1>5. CASE CheckLock(q) /\ ~Stop(q)
  <2>1. /\ pc[q] = "off" /\ pc'[q] = "locking" /\ (q \in Timer => clock >= ended[q] + TickPeriod)
        /\ run'[q] = [run[q] EXCEPT !.now = clock]
    BY <1>0, <1>5 DEF CheckLock, TypeOK
  <2>2. run'[q].now = clock /\ run'[q].mine = run[q].mine /\ run'[q].seen = run[q].seen
    BY <1>3, <2>1 DEF Local
  <2>3. Counted(q) => Counted(q)'
    BY <1>1, <1>2, <2>1 DEF Counted, Busy, Walking, Sends
  <2>4. ASSUME Remembered(q), q \in Timer, TickPeriod > 0
        PROVE  \A t \in Stories : ByTick(t)' => postedAt'[t] < run'[q].now
    BY <1>2, <1>3, <1>t, <2>1, <2>2, <2>4 DEF Remembered
  <2>5. ASSUME Remembered(q), q \in Timer, TickPeriod > 0 PROVE Remembered(q)'
    BY <1>1, <1>3, <2>1, <2>2, <2>4, <2>5 DEF Remembered, Busy, Walking, Sends
  <2> QED
    BY <2>3, <2>5
<1>6. CASE BeginTick(q)
  <2>1. /\ pc[q] = "locking" /\ pc'[q] = "gauging"
        /\ \E away : run'[q] = [run[q] EXCEPT !.now = clock, !.todo = stored \ away,
                                              !.recent = RowsSince(clock - CompareWindow)]
    BY <1>0, <1>6 DEF BeginTick, TypeOK
  <2>2. /\ run'[q].now = clock /\ run'[q].recent = RowsSince(clock - CompareWindow)
        /\ run'[q].mine = run[q].mine /\ run'[q].seen = run[q].seen
    BY <1>3, <2>1 DEF Local
  <2>3. Counted(q) => Counted(q)'
    BY <1>1, <1>2, <1>3, <2>1, <2>2 DEF Counted, Busy, Walking, Sends
  <2>4. ASSUME Remembered(q)
        PROVE  \A t \in Stories : ByTick(t)' => postedAt'[t] < run'[q].now
    <3>1. run[q].now \in Nat /\ run[q].now <= clock
      BY <1>3, <2>1, <2>4 DEF Remembered, Local
    <3> QED
      BY <1>2, <1>3, <1>t, <2>1, <2>2, <2>4, <3>1 DEF Remembered
  <2>5. \A t \in Stories : ByTick(t)' /\ postedAt'[t] >= run'[q].now - CompareWindow => t \in run'[q].recent
    BY <1>2, <2>2 DEF RowsSince, ByTick
  <2>6. ASSUME Remembered(q) PROVE Remembered(q)'
    <3>1. \A t \in Stories : ByTick(t)' => postedAt'[t] # run'[q].now
      BY <1>2, <1>3, <1>t, <2>2, <2>4, <2>6
    <3> QED
      BY <1>1, <1>3, <2>1, <2>2, <2>4, <2>5, <2>6, <3>1 DEF Remembered, Sends
  <2> QED
    BY <2>3, <2>6
<1> QED
  BY <1>4, <1>5, <1>6

(* The pacing figures cover the rows there are when they are read. *)
LEMMA Gauges ==
  ASSUME TypeOK, TypeOK', NEW q \in Ticks, Gauge(q)
  PROVE  /\ Counted(q) => Counted(q)'
         /\ Remembered(q) => Remembered(q)'
<1>0. q \in Runs
  BY DEF Runs
<1>1. UNCHANGED <<table, clock>> /\ pc[q] = "gauging" /\ pc'[q] = "scanning"
  BY <1>0 DEF Gauge, TypeOK
<1>2. \A t \in Stories : ByTick(t)' = ByTick(t) /\ postedAt'[t] = postedAt[t]
  BY <1>1, SameRows DEF table
<1>3. run[q] \in Local /\ run[q].now \in Nat
  BY <1>0 DEF TypeOK, Local
<1>4. PICK dup \in SUBSET (IF JevLive THEN JevBatch(run[q]) ELSE {}), last \in LatestRow(Stories), lastRecap \in LatestRow(Recaps) :
        run' = [run EXCEPT ![q] = [@ EXCEPT !.dup = dup, !.last = last, !.lastRecap = lastRecap,
                                   !.inHour = Cardinality(RowsSince(run[q].now - Hour))]]
  BY DEF Gauge
<1>5. /\ run'[q].now = run[q].now /\ run'[q].recent = run[q].recent
      /\ run'[q].mine = run[q].mine /\ run'[q].seen = run[q].seen /\ run'[q].last = last
      /\ run'[q].inHour = Cardinality(RowsSince(run[q].now - Hour))
  <2>1. run'[q] = [run[q] EXCEPT !.dup = dup, !.last = last, !.lastRecap = lastRecap,
                                 !.inHour = Cardinality(RowsSince(run[q].now - Hour))]
    BY <1>0, <1>4 DEF TypeOK
  <2> QED
    BY <1>3, <2>1 DEF Local
<1>6. \A t \in Stories : ByTick(t) => last # NoTime /\ postedAt[t] <= last
  <2> SUFFICES ASSUME NEW t \in Stories, ByTick(t) PROVE last # NoTime /\ postedAt[t] <= last
    OBVIOUS
  <2>1. postedAt[t] \in Nat /\ postedAt[t] <= last
    BY DEF ByTick, Posted, TypeOK, LatestRow
  <2> QED
    BY <2>1 DEF NoTime
<1>7. Cardinality(TickRows(run[q].now - Hour)') <= Cardinality(RowsSince(run[q].now - Hour))
  <2>1. TickRows(run[q].now - Hour)' \subseteq RowsSince(run[q].now - Hour)
    BY <1>1, <1>2, <1>5 DEF TickRows, RowsSince, ByTick
  <2>2. IsFiniteSet(RowsSince(run[q].now - Hour))
    BY FS_Subset, DataAssumption DEF RowsSince
  <2> QED
    BY <2>1, <2>2, FS_Subset
<1>8. Counted(q) => Counted(q)'
  BY <1>1, <1>2, <1>5, <1>6, <1>7 DEF Counted, Busy, Walking, Sends
<1>9. Remembered(q) => Remembered(q)'
  BY <1>1, <1>2, <1>5 DEF Remembered, Busy, Walking, Sends
<1> QED
  BY <1>8, <1>9

(* The walk sends only what its figures and its memory allow. *)
LEMMA Considers ==
  ASSUME TypeOK, TypeOK', NEW q \in Ticks, Consider(q)
  PROVE  /\ Counted(q) => Counted(q)'
         /\ Remembered(q) => Remembered(q)'
<1>0. q \in Runs
  BY DEF Runs
<1>1. UNCHANGED <<table, clock>> /\ pc[q] = "scanning"
  BY DEF Consider
<1>2. PICK s \in Newest(run[q].todo) :
        /\ run' = [run EXCEPT ![q] = Walked(@, s, Verdict(s, run[q]))]
        /\ pc' = [pc EXCEPT ![q] = IF Verdict(s, run[q]) = "send" THEN "sending" ELSE @]
  BY DEF Consider
<1>3. run[q] \in Local /\ s \in Stories
  BY <1>0 DEF TypeOK, Local, Newest
<1>4. \A t \in Stories : ByTick(t)' = ByTick(t) /\ postedAt'[t] = postedAt[t]
  BY <1>1, SameRows DEF table
<1>n. \A n : TickRows(n)' = TickRows(n)
  BY <1>1, SameRows
<1>5. run'[q] = Walked(run[q], s, Verdict(s, run[q]))
  BY <1>0, <1>2 DEF TypeOK
<1>6. /\ run'[q].now = run[q].now /\ run'[q].recent = run[q].recent /\ run'[q].mine = run[q].mine
      /\ run'[q].last = run[q].last /\ run'[q].inHour = run[q].inHour
      /\ run'[q].seen = (IF Verdict(s, run[q]) = "skip" THEN run[q].seen ELSE run[q].seen \cup {s})
      /\ Verdict(s, run[q]) = "send" => run'[q].item = s
  <2> DEFINE v == Verdict(s, run[q])
  <2>1. run'[q] = Walked(run[q], s, v)
    BY <1>5
  <2> HIDE DEF v
  <2>2. /\ run'[q].now = run[q].now /\ run'[q].recent = run[q].recent /\ run'[q].mine = run[q].mine
        /\ run'[q].last = run[q].last /\ run'[q].inHour = run[q].inHour
        /\ run'[q].seen = (IF v = "skip" THEN run[q].seen ELSE run[q].seen \cup {s})
        /\ v = "send" => run'[q].item = s
    <3>1. /\ Walked(run[q], s, v).now = run[q].now /\ Walked(run[q], s, v).recent = run[q].recent
          /\ Walked(run[q], s, v).mine = run[q].mine /\ Walked(run[q], s, v).last = run[q].last
          /\ Walked(run[q], s, v).inHour = run[q].inHour
          /\ Walked(run[q], s, v).seen = (IF v = "skip" THEN run[q].seen ELSE run[q].seen \cup {s})
          /\ v = "send" => Walked(run[q], s, v).item = s
      BY <1>3, WalkedFields
    <3> QED
      BY <2>1, <3>1
  <2> QED
    BY <2>2 DEF v
<1>7. CASE Verdict(s, run[q]) = "send"
  <2>1. pc'[q] = "sending" /\ run'[q].item = s /\ run'[q].seen = run[q].seen \cup {s}
    BY <1>0, <1>2, <1>6, <1>7 DEF TypeOK
  <2>2. Eligible(s, run[q]) /\ ~AlreadyTold(s, run[q])
    BY <1>7 DEF Verdict
  <2>3. Eligible(s, run'[q])
    BY <2>2, <1>6 DEF Eligible
  <2>4. Untold(s, run'[q])
    BY <2>1, <2>2, <1>6 DEF AlreadyTold, Untold
  <2>5. Counted(q) => Counted(q)'
    BY <1>1, <1>4, <1>n, <1>6, <2>1, <2>3 DEF Counted, Busy, Walking, Sends, Eligible, TickRows
  <2>6. Remembered(q) => Remembered(q)'
    BY <1>1, <1>4, <1>6, <2>1, <2>4 DEF Remembered, Busy, Walking, Sends, Untold
  <2> QED
    BY <2>5, <2>6
<1>8. CASE Verdict(s, run[q]) # "send"
  <2>1. pc'[q] = "scanning" /\ run[q].seen \subseteq run'[q].seen
    BY <1>0, <1>1, <1>2, <1>6, <1>8 DEF TypeOK
  <2>5. Counted(q) => Counted(q)'
    BY <1>1, <1>4, <1>n, <1>6, <2>1 DEF Counted, Busy, Walking, Sends, TickRows
  <2>6. Remembered(q) => Remembered(q)'
    BY <1>1, <1>4, <1>6, <2>1 DEF Remembered, Busy, Walking, Sends
  <2> QED
    BY <2>5, <2>6
<1> QED
  BY <1>7, <1>8

(* What Record by a tick does to the rows and to what the tick knows. *)
LEMMA TickRecords ==
  ASSUME TypeOK, NEW q \in Ticks, Record(q), NEW s, s = run[q].item
  PROVE  /\ s \in Stories /\ run[q] \in Local /\ pc[q] = "recording" /\ clock' = clock
         /\ \A t \in Stories : ByTick(t)' <=> t = s \/ ByTick(t)
         /\ \A t \in Stories : t # s => postedAt'[t] = postedAt[t]
         /\ postedAt'[s] = run[q].now
         /\ pc'[q] \in {"off", "scanning"}
         /\ pc'[q] = "off" => Stop(q)
         /\ pc'[q] = "scanning" => run'[q] = Recorded(run[q], s)
<1>1. q \in Runs /\ q \notin Agents
  BY RunAssumption DEF Runs
<1>2. s \in Stories /\ run[q] \in Local /\ pc[q] = "recording" /\ run[q].now \in Nat
  BY <1>1 DEF Record, TypeOK, Local
<1>3. /\ postedAt' = [postedAt EXCEPT ![s] = run[q].now] /\ mode' = [mode EXCEPT ![s] = "tick"]
      /\ pc' = [pc EXCEPT ![q] = "scanning"] /\ run' = [run EXCEPT ![q] = Recorded(@, s)]
      /\ clock' = clock
  BY <1>1 DEF Record
<1>4. pc'[q] = "scanning" /\ run'[q] = Recorded(run[q], s)
  BY <1>1, <1>3 DEF TypeOK
<1>5. \A t \in Stories : ByTick(t)' <=> t = s \/ ByTick(t)
  BY <1>2, <1>3 DEF ByTick, Posted, NoTime, TypeOK
<1> QED
  BY <1>2, <1>3, <1>4, <1>5 DEF TypeOK

(* A tick's row keeps the cap, the gap and the memory of the channel. *)
LEMMA RecordKeepsCap ==
  ASSUME TypeOK, TypeOK', NEW q \in Ticks, Record(q), Counted(q)
  PROVE  /\ Counted(q)'
         /\ HourlyCap => HourlyCap'
         /\ OrdinaryGap /\ Cooldown > 0 => OrdinaryGap'
<1> DEFINE s == run[q].item  n == run[q].now  r == run[q]
<1>1. /\ s \in Stories /\ r \in Local /\ pc[q] = "recording" /\ clock' = clock
      /\ \A t \in Stories : ByTick(t)' <=> t = s \/ ByTick(t)
      /\ \A t \in Stories : t # s => postedAt'[t] = postedAt[t]
      /\ postedAt'[s] = n
      /\ pc'[q] = "scanning" => run'[q] = Recorded(r, s)
      /\ pc'[q] = "off" \/ pc'[q] = "scanning"
  BY TickRecords
<1>2. n \in Nat /\ clock \in Nat /\ r.inHour \in Nat /\ r.last \in Nat \cup {NoTime}
      /\ MaxPerHour \in Nat /\ Hour \in Nat /\ Cooldown \in Nat
  BY <1>1, FigureAssumption DEF TypeOK, Local
<1>t. \A t \in Stories : postedAt[t] \in Int /\ postedAt'[t] \in Int
  BY DEF TypeOK, NoTime
<1>3. \A t \in Stories : ByTick(t) =>
        postedAt[t] <= clock /\ postedAt[t] <= n /\ r.last # NoTime /\ postedAt[t] <= r.last
  BY <1>1 DEF Counted, Busy, Walking, Sends
<1>4. n <= clock /\ Cardinality(TickRows(n - Hour)) <= r.inHour /\ Eligible(s, r)
  BY <1>1 DEF Counted, Busy, Walking, Sends
<1>5. /\ r.inHour < MaxPerHour
      /\ s \in Urgent \/ r.last = NoTime \/ n - r.last >= Cooldown
  BY <1>4 DEF Eligible
<1> DEFINE After == {t \in Stories : ByTick(t)' /\ postedAt'[t] >= n - Hour}
<1>6. IsFiniteSet(After) /\ Cardinality(After) \in Nat /\ Cardinality(After) <= r.inHour + 1
  <2>1. After \subseteq TickRows(n - Hour) \cup {s}
    BY <1>1 DEF TickRows
  <2>2. IsFiniteSet(TickRows(n - Hour)) /\ IsFiniteSet(After)
    BY FS_Subset, DataAssumption DEF TickRows
  <2>3. /\ IsFiniteSet(TickRows(n - Hour) \cup {s})
        /\ Cardinality(TickRows(n - Hour) \cup {s}) <= Cardinality(TickRows(n - Hour)) + 1
    <3>1. Cardinality(TickRows(n - Hour)) \in Nat
      BY <2>2, FS_CardinalityType
    <3>2. /\ IsFiniteSet(TickRows(n - Hour) \cup {s})
          /\ \/ Cardinality(TickRows(n - Hour) \cup {s}) = Cardinality(TickRows(n - Hour))
             \/ Cardinality(TickRows(n - Hour) \cup {s}) = Cardinality(TickRows(n - Hour)) + 1
      BY <2>2, FS_AddElement
    <3> QED
      BY <3>1, <3>2
  <2>4. Cardinality(After) <= Cardinality(TickRows(n - Hour) \cup {s})
    BY <2>1, <2>3, FS_Subset
  <2>5. /\ Cardinality(After) \in Nat /\ Cardinality(TickRows(n - Hour)) \in Nat
        /\ Cardinality(TickRows(n - Hour) \cup {s}) \in Nat
    BY <2>2, <2>3, FS_CardinalityType
  <2> HIDE DEF After, n, r
  <2> QED
    BY <2>2, <2>3, <2>4, <2>5, <1>2, <1>4
<1>7. Counted(q)'
  <2>1. \A t \in Stories : ByTick(t)' => postedAt'[t] <= clock'
    BY <1>1, <1>3, <1>4
  <2>2. CASE pc'[q] = "off"
    BY <2>1, <2>2 DEF Counted, Busy, Walking, Sends
  <2>3. CASE pc'[q] = "scanning"
    <3>1. run'[q].now = n /\ run'[q].last = n /\ run'[q].inHour = r.inHour + 1
      <4>1. run'[q] = Recorded(r, s)
        BY <1>1, <2>3
      <4> QED
        BY <4>1, <1>1, RecordedFields
    <3>2. TickRows(run[q].now - Hour)' = After
      BY <3>1 DEF TickRows
    <3>3. \A t \in Stories : ByTick(t)' => postedAt'[t] <= n
      BY <1>1, <1>2, <1>3
    <3>4. n # NoTime
      BY <1>2 DEF NoTime
    <3> HIDE DEF After, n
    <3> QED
      BY <2>1, <2>3, <3>1, <3>2, <3>3, <3>4, <1>1, <1>4, <1>6 DEF Counted, Busy, Walking, Sends
  <2> QED
    BY <1>1, <2>2, <2>3
<1>8. ASSUME HourlyCap PROVE HourlyCap'
  <2> DEFINE Window(u) == {t \in Stories : ByTick(t) /\ postedAt[t] <= postedAt[u]
                                           /\ postedAt[t] >= postedAt[u] - Hour}
  <2> SUFFICES ASSUME NEW u \in Stories, ByTick(u)' PROVE Cardinality(Window(u)') <= MaxPerHour
    BY DEF HourlyCap
  <2>0. IsFiniteSet(Window(u)) /\ IsFiniteSet(Window(u)')
    BY FS_Subset, DataAssumption
  <2>f. Cardinality(Window(u)) \in Nat /\ Cardinality(Window(u)') \in Nat
    BY <2>0, FS_CardinalityType
  <2>1. CASE postedAt'[u] = n
    <3>1. Window(u)' \subseteq After
      BY <2>1
    <3>2. Cardinality(Window(u)') <= Cardinality(After)
      BY <3>1, <1>6, FS_Subset
    <3> HIDE DEF Window, After, r
    <3> QED
      BY <3>2, <2>f, <1>2, <1>5, <1>6
  <2>2. CASE postedAt'[u] # n
    <3>1. u # s /\ ByTick(u) /\ postedAt'[u] = postedAt[u] /\ postedAt[u] < n
      BY <2>2, <1>1, <1>2, <1>3, <1>t
    <3>2. Window(u)' \subseteq Window(u)
      <4> SUFFICES ASSUME NEW t \in Window(u)' PROVE t \in Window(u)
        OBVIOUS
      <4>1. t # s
        BY <3>1, <1>1, <1>2, <1>t
      <4> QED
        BY <4>1, <3>1, <1>1
    <3>3. Cardinality(Window(u)') <= Cardinality(Window(u))
      BY <3>2, <2>0, FS_Subset
    <3>4. Cardinality(Window(u)) <= MaxPerHour
      BY <1>8, <3>1 DEF HourlyCap
    <3> HIDE DEF Window
    <3> QED
      BY <3>3, <3>4, <2>f, <1>2
  <2> QED
    BY <2>1, <2>2
<1>9. ASSUME OrdinaryGap, Cooldown > 0 PROVE OrdinaryGap'
  <2> SUFFICES ASSUME NEW x \in Stories, NEW y \in Stories,
                      x # y, ByTick(x)', ByTick(y)', x \notin Urgent
               PROVE  /\ postedAt'[y] < postedAt'[x] => postedAt'[x] - postedAt'[y] >= Cooldown
                      /\ postedAt'[y] = postedAt'[x] => y \in Urgent
    BY DEF OrdinaryGap
  <2>1. CASE x = s
    <3>1. ByTick(y) /\ postedAt'[y] = postedAt[y] /\ postedAt'[x] = n
      BY <2>1, <1>1
    <3>2. r.last # NoTime /\ postedAt[y] <= r.last /\ n - r.last >= Cooldown
      BY <2>1, <3>1, <1>3, <1>5
    <3>3. r.last \in Nat
      BY <3>2, <1>2
    <3> HIDE DEF n, r
    <3> QED
      BY <3>1, <3>2, <3>3, <1>2, <1>9, <1>t
  <2>2. CASE y = s
    <3>1. ByTick(x) /\ postedAt'[x] = postedAt[x] /\ postedAt'[y] = n
      BY <2>2, <1>1
    <3>2. r.last # NoTime /\ postedAt[x] <= r.last /\ postedAt[x] <= n
      BY <3>1, <1>3
    <3>3. r.last \in Nat
      BY <3>2, <1>2
    <3>4. postedAt[x] = n => y \in Urgent
      <4> SUFFICES ASSUME postedAt[x] = n, y \notin Urgent PROVE FALSE
        OBVIOUS
      <4>1. n - r.last >= Cooldown
        BY <2>2, <3>2, <1>5
      <4> HIDE DEF n, r
      <4> QED
        BY <4>1, <3>2, <3>3, <1>2, <1>9
    <3> HIDE DEF n, r
    <3> QED
      BY <3>1, <3>2, <3>4, <1>2, <1>t
  <2>3. CASE x # s /\ y # s
    BY <2>3, <1>1, <1>9 DEF OrdinaryGap
  <2> QED
    BY <2>1, <2>2, <2>3
<1> QED
  BY <1>7, <1>8, <1>9

LEMMA RecordKeepsMemory ==
  ASSUME TypeOK, TypeOK', NEW q \in Ticks, q \in Timer, Record(q), Counted(q), Remembered(q),
         Symmetric(SimilarKey), Symmetric(SameEvent)
  PROVE  /\ Remembered(q)'
         /\ NoRetelling => NoRetelling'
<1> DEFINE s == run[q].item  n == run[q].now  r == run[q]
<1>1. /\ s \in Stories /\ r \in Local /\ pc[q] = "recording" /\ clock' = clock
      /\ \A t \in Stories : ByTick(t)' <=> t = s \/ ByTick(t)
      /\ \A t \in Stories : t # s => postedAt'[t] = postedAt[t]
      /\ postedAt'[s] = n
      /\ pc'[q] = "scanning" => run'[q] = Recorded(r, s)
  BY TickRecords
<1>o. pc'[q] = "scanning"
  <2>1. q \notin Agents /\ q \in Runs
    BY RunAssumption DEF Runs
  <2> QED
    BY <2>1 DEF Record, TypeOK
<1>2. n \in Nat /\ clock \in Nat /\ CompareWindow \in Nat
  BY <1>1, FigureAssumption DEF TypeOK, Local
<1>t. \A t \in Stories : postedAt[t] \in Int /\ postedAt'[t] \in Int
  BY DEF TypeOK, NoTime
<1>3. \A t \in Stories : ByTick(t) => postedAt[t] <= n
  BY <1>1 DEF Counted, Busy, Walking, Sends
<1>4. n <= clock
  BY <1>1 DEF Remembered
<1>5. \A t \in Stories : ByTick(t) =>
        /\ postedAt[t] = n => t \in r.mine
        /\ postedAt[t] < n /\ postedAt[t] >= n - CompareWindow => t \in r.recent
  BY <1>1 DEF Remembered, Busy, Walking, Sends
<1>6. r.mine \subseteq r.seen /\ s \in r.seen /\ Untold(s, r)
  BY <1>1 DEF Remembered, Sends
<1>7. Remembered(q)'
  <2>1. /\ run'[q].now = n /\ run'[q].mine = r.mine \cup {s}
        /\ run'[q].seen = r.seen /\ run'[q].recent = r.recent
    <3>1. run'[q] = Recorded(r, s)
      BY <1>1, <1>o
    <3> QED
      BY <3>1, <1>1, RecordedFields
  <2>2. \A t \in Stories : ByTick(t)' =>
          /\ postedAt'[t] = n => t \in run'[q].mine
          /\ postedAt'[t] < n /\ postedAt'[t] >= n - CompareWindow => t \in run'[q].recent
    BY <2>1, <1>1, <1>2, <1>5
  <2> HIDE DEF n, r
  <2> QED
    BY <2>1, <2>2, <1>o, <1>1, <1>4, <1>6 DEF Remembered, Busy, Walking, Sends
<1>8. ASSUME NoRetelling PROVE NoRetelling'
  <2> SUFFICES ASSUME NEW x \in Stories, NEW y \in Stories, x # y, ByTick(x)', ByTick(y)',
                      postedAt'[x] - postedAt'[y] \in 0..CompareWindow
               PROVE  /\ <<x, y>> \notin SimilarKey
                      /\ postedAt'[x] = postedAt'[y] => <<x, y>> \notin SameEvent
                      /\ postedAt'[x] > postedAt'[y] => <<x, y>> \notin SameEventKo
    BY DEF NoRetelling
  <2>1. CASE x = s
    <3>1. ByTick(y) /\ postedAt'[y] = postedAt[y] /\ postedAt'[x] = n
      BY <2>1, <1>1
    <3>2. CASE postedAt[y] = n
      <4>1. y \in r.mine /\ y \in r.seen \ {s}
        BY <2>1, <3>1, <3>2, <1>5, <1>6
      <4> QED
        BY <2>1, <3>1, <3>2, <4>1, <1>2, <1>6 DEF Untold
    <3>3. CASE postedAt[y] # n
      <4>1. postedAt[y] < n /\ postedAt[y] >= n - CompareWindow
        <5> HIDE DEF n
        <5> QED
          BY <3>1, <3>3, <1>2, <1>3, <1>t
      <4>2. y \in r.recent
        BY <4>1, <3>1, <1>5
      <4> QED
        BY <2>1, <3>1, <3>3, <4>2, <1>6 DEF Untold
    <3> QED
      BY <3>2, <3>3
  <2>2. CASE y = s
    <3>1. ByTick(x) /\ postedAt'[x] = postedAt[x] /\ postedAt'[y] = n
      BY <2>2, <1>1
    <3>2. postedAt[x] = n
      <4>1. postedAt[x] <= n /\ postedAt[x] \in Int /\ postedAt[x] - n \in 0..CompareWindow
        BY <3>1, <1>3, <1>t
      <4> HIDE DEF n
      <4> QED
        BY <4>1, <1>2
    <3>3. x \in r.mine /\ x \in r.seen \ {s}
      BY <2>2, <3>1, <3>2, <1>5, <1>6
    <3>4. <<s, x>> \notin SimilarKey /\ <<s, x>> \notin SameEvent
      BY <3>3, <1>6 DEF Untold
    <3>5. <<x, s>> \notin SimilarKey /\ <<x, s>> \notin SameEvent
      BY <3>4, <1>1 DEF Symmetric
    <3> QED
      BY <2>2, <3>1, <3>2, <3>5, <1>2
  <2>3. CASE x # s /\ y # s
    BY <2>3, <1>1, <1>8 DEF NoRetelling
  <2> QED
    BY <2>1, <2>2, <2>3
<1> QED
  BY <1>7, <1>8

(* A step of another run: it leaves q alone and adds no row of a tick. *)
LEMMA OthersWait ==
  ASSUME TypeOK, NEW q, Ticks = {q}, NEW p \in Agents, PostStep(p) \/ SendStep(p) \/ Kill(p)
  PROVE  /\ Shrinks /\ pc'[q] = pc[q] /\ run'[q] = run[q] /\ clock' = clock
         /\ q \in Timer => ended'[q] = ended[q]
<1>1. p # q /\ q \notin Agents /\ p \in Runs /\ q \in Runs /\ p \notin Timer
  BY RunAssumption DEF Runs
<1>2. clock' = clock
  BY DEF PostStep, SendStep, BeginPost, CheckPost, Accepted, Refused, AnswerLost, Record, RecordFails, Kill
<1>3. ASSUME Stop(p)
      PROVE  pc'[q] = pc[q] /\ run'[q] = run[q] /\ (q \in Timer => ended'[q] = ended[q])
  BY <1>1, <1>3 DEF Stop, TypeOK
<1>4. /\ pc'[q] = pc[q] /\ run'[q] = run[q]
      /\ q \in Timer => ended'[q] = ended[q]
  <2>1. CASE PostStep(p)
    BY <2>1, <1>1, <1>3 DEF PostStep, BeginPost, CheckPost, TypeOK
  <2>2. CASE Accepted(p) \/ Refused(p) \/ AnswerLost(p)
    BY <2>2, <1>1, <1>3 DEF Accepted, Refused, AnswerLost, Resume, TypeOK
  <2>3. CASE Record(p) \/ RecordFails(p) \/ Kill(p)
    BY <2>3, <1>1, <1>3 DEF Record, RecordFails, Kill
  <2> QED
    BY <2>1, <2>2, <2>3 DEF SendStep
<1>5. Shrinks
  <2>1. CASE ~Record(p)
    <3>1. UNCHANGED table
      BY <2>1 DEF PostStep, SendStep, BeginPost, CheckPost, Accepted, Refused, AnswerLost, RecordFails, Kill
    <3> QED
      BY <3>1, SameRows
  <2>2. CASE Record(p)
    <3>0. pc[p] = "recording" /\ p \in Agents
      BY <2>2 DEF Record
    <3>1. PICK s \in Stories : /\ postedAt' = [postedAt EXCEPT ![s] = run[p].now]
                               /\ mode' = [mode EXCEPT ![s] = "agent"]
      BY <2>2, <3>0, <1>1 DEF Record, TypeOK
    <3>2. mode'[s] = "agent" /\ \A t \in Stories : t # s => postedAt'[t] = postedAt[t] /\ mode'[t] = mode[t]
      BY <3>1 DEF TypeOK
    <3>3. ~ByTick(s)'
      BY <3>2 DEF ByTick
    <3> QED
      BY <3>2, <3>3 DEF Shrinks, ByTick, Posted
  <2> QED
    BY <2>1, <2>2
<1> QED
  BY <1>2, <1>4, <1>5

(* A step of the tick other than the record of a post. *)
LEMMA TickKeeps ==
  ASSUME TypeOK, TypeOK', NEW q \in Ticks,
         TickStep(q) \/ Accepted(q) \/ Refused(q) \/ AnswerLost(q) \/ RecordFails(q) \/ Kill(q)
  PROVE  /\ Counted(q) => Counted(q)'
         /\ Counted(q) /\ Remembered(q) /\ q \in Timer /\ TickPeriod > 0 => Remembered(q)'
         /\ Shrinks
<1>1. q \in Runs /\ q \notin Agents
  BY RunAssumption DEF Runs
<1>2. UNCHANGED <<table, clock>>
  BY DEF TickStep, CheckLock, BeginTick, Gauge, Consider, Leave, Accepted, Refused, AnswerLost, RecordFails, Kill
<1>3. Shrinks
  BY <1>2, SameRows
<1>4. CASE CheckLock(q) \/ BeginTick(q)
  BY <1>3, <1>4, Begins
<1>5. CASE Gauge(q) \/ Consider(q)
  BY <1>3, <1>5, Gauges, Considers
<1>6. CASE Leave(q) \/ RecordFails(q) \/ Kill(q)
  <2>1. Stop(q)
    BY <1>1, <1>6 DEF Leave, RecordFails, Kill, Unlock
  <2> QED
    BY <1>1, <1>2, <1>3, <2>1, Stops
<1>7. CASE Accepted(q) \/ Refused(q) \/ AnswerLost(q)
  <2>1. pc[q] = "sending" /\ pc'[q] \in {"recording", "scanning", "leaving"} /\ run'[q] = run[q]
    BY <1>1, <1>7 DEF Accepted, Refused, AnswerLost, Resume, TypeOK
  <2> QED
    BY <1>1, <1>2, <1>3, <2>1, GoesOn DEF Sends
<1> QED
  BY <1>4, <1>5, <1>6, <1>7 DEF TickStep

(* Every step, when there is one tick: what the tick counts and remembers. *)
LEMMA OneTickStep ==
  ASSUME TypeOK, TypeOK', NEW q, Ticks = {q}, Counted(q), [Next]_vars
  PROVE  /\ Counted(q)'
         /\ HourlyCap => HourlyCap'
         /\ OrdinaryGap /\ Cooldown > 0 => OrdinaryGap'
         /\ Timer = {q} /\ TickPeriod > 0 /\ Remembered(q)
            /\ Symmetric(SimilarKey) /\ Symmetric(SameEvent) =>
              Remembered(q)' /\ (NoRetelling => NoRetelling')
<1>1. q \in Runs /\ q \in Ticks
  BY DEF Runs
<1>2. CASE Advance \/ (\E t \in Stories : Collect(t)) \/ UNCHANGED vars
  <2>1. UNCHANGED <<table, pc, run, ended>> /\ clock' \in {clock, clock + 1}
    BY <1>2 DEF Advance, Collect, vars, table
  <2>2. clock' >= clock
    <3>1. clock \in Nat
      BY DEF TypeOK
    <3> QED
      BY <2>1, <3>1
  <2>3. Shrinks
    BY <2>1, SameRows
  <2> QED
    BY <1>1, <2>1, <2>2, <2>3, RowsShrink, Waits
<1>3. ASSUME NEW p \in Agents, PostStep(p) \/ SendStep(p) \/ Kill(p)
      PROVE  /\ Shrinks /\ Counted(q)'
             /\ Remembered(q) /\ q \in Timer => Remembered(q)'
  <2>1. clock' >= clock
    BY <1>3, OthersWait DEF TypeOK
  <2> QED
    BY <1>1, <1>3, <2>1, OthersWait, Waits
<1>4. CASE TickStep(q) \/ Accepted(q) \/ Refused(q) \/ AnswerLost(q) \/ RecordFails(q) \/ Kill(q)
  BY <1>1, <1>4, TickKeeps, RowsShrink
<1>5. CASE Record(q)
  BY <1>1, <1>5, RecordKeepsCap, RecordKeepsMemory
<1>6. \/ Advance \/ (\E t \in Stories : Collect(t)) \/ UNCHANGED vars
      \/ \E p \in Agents : PostStep(p) \/ SendStep(p) \/ Kill(p)
      \/ TickStep(q) \/ SendStep(q) \/ Kill(q)
  BY DEF Next, Runs
<1> QED
  BY <1>2, <1>3, <1>4, <1>5, <1>6, RowsShrink DEF SendStep

(* Beside any number of agents, one tick at a time keeps the hourly cap on   *)
(* its posts; and the overlap of all those runs costs at most one message of *)
(* a story each (posts_within, the check against tg_posted).                 *)
OneTick == \E q : Ticks = {q}

THEOREM CapsKept == OneTick => (Spec => []WithinCaps)
<1> SUFFICES ASSUME NEW q, Ticks = {q} PROVE Spec => []WithinCaps
  BY DEF OneTick
<1>1. Init => Counted(q) /\ HourlyCap
  <2> SUFFICES ASSUME Init PROVE Counted(q) /\ HourlyCap
    OBVIOUS
  <2>1. \A t \in Stories : ~ByTick(t)
    BY DEF Init, ByTick, Posted
  <2>2. pc[q] = "off"
    BY DEF Init, Runs
  <2> QED
    BY <2>1, <2>2 DEF Counted, HourlyCap, Busy, Walking, Sends
<1>2. TypeOK /\ TypeOK' /\ Counted(q) /\ HourlyCap /\ [Next]_vars => Counted(q)' /\ HourlyCap'
  BY OneTickStep
<1> QED
  BY <1>1, <1>2, TypeCorrect, OverlapBounded, PTL DEF Spec, WithinCaps

(* The timer's tick alone on its lock, whatever agents post meanwhile: its   *)
(* ordinary posts keep the cooldown, and it tells nothing twice inside the   *)
(* comparison window.  Its period separates two ticks' clocks, and "similar" *)
(* and "same event" hold both ways or not at all (eligible and the duplicate *)
(* checks of tick).                                                          *)
OneTimer ==
  /\ \E q : Ticks = {q} /\ Timer = {q}
  /\ TickPeriod > 0 /\ Cooldown > 0
  /\ Symmetric(SimilarKey) /\ Symmetric(SameEvent)

THEOREM PacingKept == OneTimer => (Spec => []Pacing)
<1> SUFFICES ASSUME NEW q, Ticks = {q}, Timer = {q}, TickPeriod > 0, Cooldown > 0,
                    Symmetric(SimilarKey), Symmetric(SameEvent)
             PROVE  Spec => []Pacing
  BY DEF OneTimer
<1> DEFINE Inv == Counted(q) /\ Remembered(q) /\ OrdinaryGap /\ NoRetelling
<1>1. Init => Inv
  <2> SUFFICES ASSUME Init PROVE Inv
    OBVIOUS
  <2>1. \A t \in Stories : ~ByTick(t)
    BY DEF Init, ByTick, Posted
  <2>2. pc[q] = "off" /\ run[q].mine = {}
    BY DEF Init, Runs, Fresh
  <2> QED
    BY <2>1, <2>2 DEF Counted, Remembered, OrdinaryGap, NoRetelling, Busy, Walking, Sends
<1>2. TypeOK /\ TypeOK' /\ Inv /\ [Next]_vars => Inv'
  BY OneTickStep
<1>3. Inv => Pacing
  BY DEF Pacing
<1> QED
  BY <1>1, <1>2, <1>3, TypeCorrect, PTL DEF Spec

-----------------------------------------------------------------------------
(***************************************************************************)
(* Composer, the editor's pictures.  A preview from memory is that of the  *)
(* file with the marker's number; a save gives the files the addresses     *)
(* that follow those already stored, in their order.                       *)
(***************************************************************************)
Sources == {<<"text", 0>>} \cup ({"marker"} \X composer!Markers) \cup ({"address"} \X (Nat \ {0}))

ComposerType ==
  /\ composer_imageFiles \in Seq(Pictures)
  /\ composer_images \in Seq(Pictures \cup {None})
  /\ composer_previews \in [composer!Markers -> Pictures \cup {None}]
  /\ composer_body \in [Places -> Sources]

PreviewOfFile ==
  \A m \in composer!Markers : composer_previews[m] # None =>
    /\ m < Len(composer_imageFiles)
    /\ composer_previews[m] = composer_imageFiles[m + 1]

ComposerInv == ComposerType /\ PreviewOfFile /\ composer!PreviewIsSaved

(* There is room for one more only while there are fewer files than the limit. *)
LEMMA FilesWithinLimit ==
  ASSUME ComposerType
  PROVE  /\ composer!usedImageCount \in Nat
         /\ composer!usedImageCount >= Len(composer_imageFiles)
<1> DEFINE K == composer!Present \ composer_removed
<1>1. IsFiniteSet(K)
  <2>1. IsFiniteSet(1..Len(composer_images))
    BY FS_Interval DEF ComposerType
  <2>2. K \subseteq 1..Len(composer_images)
    BY DEF composer!Present, ComposerType
  <2> QED BY <2>1, <2>2, FS_Subset
<1>2. Cardinality(K) \in Nat
  BY <1>1, FS_CardinalityType
<1>3. composer!Cardinality(K) = Cardinality(K)
  BY DEF composer!Cardinality, Cardinality
<1>4. composer!usedImageCount = Cardinality(K) + Len(composer_imageFiles)
  BY <1>3 DEF composer!usedImageCount
<1> QED BY <1>2, <1>4 DEF ComposerType

LEMMA PictureAdded ==
  ASSUME ComposerInv, NEW pic \in Pictures, NEW p \in Places,
         composer!addInlineImage(pic, p)
  PROVE  ComposerInv'
<1> DEFINE m == Len(composer_imageFiles)
<1>1. m \in composer!Markers
  BY FilesWithinLimit, ComposerAssumption DEF ComposerInv, composer!addInlineImage, composer!validateImage,
     composer!Markers, ComposerType, ComposerAssumption
<1>2. /\ composer_imageFiles' = Append(composer_imageFiles, pic)
      /\ composer_previews' = [composer_previews EXCEPT ![m] = pic]
      /\ composer_body' = [composer_body EXCEPT ![p] = <<"marker", m>>]
      /\ UNCHANGED <<composer_images, composer_savedBody, composer_promised>>
  BY DEF composer!addInlineImage, composer!NextMarker, composer!post
<1>3. <<"marker", m>> \in Sources
  BY <1>1 DEF Sources
<1>4. ComposerType'
  BY <1>1, <1>2, <1>3 DEF ComposerInv, ComposerType, composer!Markers
<1>5. PreviewOfFile'
  <2> SUFFICES ASSUME NEW k \in composer!Markers, composer_previews'[k] # None
      PROVE  /\ k < Len(composer_imageFiles')
             /\ composer_previews'[k] = composer_imageFiles'[k + 1]
    BY DEF PreviewOfFile, composer!Markers
  <2>1. k \in Nat /\ m \in Nat
    BY <1>1, ComposerAssumption DEF composer!Markers, ComposerAssumption
  <2>2. CASE k = m
    BY <1>1, <1>2, <2>1, <2>2 DEF ComposerInv, ComposerType
  <2>3. CASE k # m
    <3>1. composer_previews'[k] = composer_previews[k]
      BY <1>1, <1>2, <2>3 DEF ComposerInv, ComposerType
    <3>2. k < m /\ composer_previews[k] = composer_imageFiles[k + 1]
      BY <3>1 DEF ComposerInv, PreviewOfFile
    <3> QED BY <1>2, <2>1, <3>1, <3>2 DEF ComposerInv, ComposerType
  <2> QED BY <2>2, <2>3
<1>6. composer!PreviewIsSaved'
  BY <1>2 DEF ComposerInv, composer!PreviewIsSaved, composer!Rendered
<1> QED BY <1>4, <1>5, <1>6 DEF ComposerInv

LEMMA PicturesChosen ==
  ASSUME ComposerInv,
         NEW pics \in {<<a>> : a \in Pictures} \cup (Pictures \X Pictures),
         composer!setFileInputFromSelection(pics)
  PROVE  ComposerInv'
<1> DEFINE room == MAX_IMAGES - composer!usedImageCount
           taken == IF room >= Len(pics) THEN pics ELSE SubSeq(pics, 1, room)
<1>1. room \in Int /\ room > 0
  BY FilesWithinLimit, ComposerAssumption DEF ComposerInv, ComposerAssumption, composer!setFileInputFromSelection
<1>2. pics \in Seq(Pictures)
  <2>1. CASE pics \in {<<a>> : a \in Pictures}
    BY <2>1
  <2>2. CASE pics \in Pictures \X Pictures
    <3>1. PICK a \in Pictures, b \in Pictures : pics = <<a, b>>
      BY <2>2
    <3> QED BY <3>1
  <2> QED BY <2>1, <2>2
<1>3. taken \in Seq(Pictures)
  <2> HIDE DEF room
  <2> QED BY <1>1, <1>2
<1>4. /\ composer_imageFiles' = composer_imageFiles \o taken
      /\ UNCHANGED <<composer_body, composer_previews, composer_images, composer_savedBody,
                     composer_promised>>
  BY DEF composer!setFileInputFromSelection, composer!post
<1> HIDE DEF taken
<1>5. ComposerType'
  BY <1>3, <1>4 DEF ComposerInv, ComposerType
<1>6. PreviewOfFile'
  <2> SUFFICES ASSUME NEW k \in composer!Markers, composer_previews[k] # None
      PROVE  /\ k < Len(composer_imageFiles')
             /\ composer_previews[k] = composer_imageFiles'[k + 1]
    BY <1>4 DEF PreviewOfFile, composer!Markers
  <2>1. k \in Nat
    BY ComposerAssumption DEF composer!Markers, ComposerAssumption
  <2>2. k < Len(composer_imageFiles) /\ composer_previews[k] = composer_imageFiles[k + 1]
    BY DEF ComposerInv, PreviewOfFile
  <2> QED BY <1>3, <1>4, <2>1, <2>2 DEF ComposerInv, ComposerType
<1>7. composer!PreviewIsSaved'
  BY <1>4 DEF ComposerInv, composer!PreviewIsSaved, composer!Rendered
<1> QED BY <1>5, <1>6, <1>7 DEF ComposerInv

(* A page that comes back knows some text, perhaps files, and shows no picture from memory. *)
LEMMA PageLoaded ==
  ASSUME ComposerInv, NEW text \in [Places -> Sources], NEW files \in Seq(Pictures),
         composer!Loaded(text, files), UNCHANGED composer!post
  PROVE  ComposerInv'
<1>1. /\ composer_body' = text /\ composer_imageFiles' = files
      /\ composer_previews' = [m \in composer!Markers |-> None]
      /\ UNCHANGED <<composer_images, composer_savedBody, composer_promised>>
  BY DEF composer!Loaded, composer!NoPreviews, composer!post
<1>2. ComposerType'
  BY <1>1 DEF ComposerInv, ComposerType, composer!Markers, Sources
<1>3. PreviewOfFile'
  BY <1>1 DEF PreviewOfFile, composer!Markers
<1>4. composer!PreviewIsSaved'
  BY <1>1 DEF ComposerInv, composer!PreviewIsSaved, composer!Rendered
<1> QED BY <1>2, <1>3, <1>4 DEF ComposerInv

LEMMA PostSaved ==
  ASSUME ComposerInv, composer!Save
  PROVE  ComposerInv'
<1> DEFINE n == Len(composer_images)
           f == Len(composer_imageFiles)
           kept == [i \in DOMAIN composer_images |->
                      IF i \in composer_removed THEN None ELSE composer_images[i]]
           swap(s) == composer!replace_inline_upload_markers(s)
<1>1. n \in Nat /\ f \in Nat /\ DOMAIN composer_images = 1..n
  BY DEF ComposerInv, ComposerType
<1>2. kept \in Seq(Pictures \cup {None}) /\ Len(kept) = n
  <2>1. kept \in [1..n -> Pictures \cup {None}]
    BY <1>1 DEF ComposerInv, ComposerType
  <2> QED BY <2>1, <1>1
<1>3. /\ composer_images' = kept \o composer_imageFiles
      /\ composer_savedBody' = [p \in Places |-> swap(composer_body[p])]
      /\ composer_promised' = [p \in Places |->
           IF composer_body[p][1] = "address" /\ composer_body[p][2] \in composer_removed
           THEN None ELSE composer!Previewed(p)]
      /\ composer_body' = composer_savedBody' /\ composer_imageFiles' = <<>>
      /\ composer_previews' = [m \in composer!Markers |-> None]
  BY DEF composer!Save, composer!save_post_images, composer!Loaded, composer!NoPreviews
<1>4. ASSUME NEW i \in 1..n, i \notin composer_removed
      PROVE  composer_images'[i] = composer_images[i]
  <2>1. kept[i] = composer_images[i]
    BY <1>1, <1>4
  <2> HIDE DEF kept
  <2> QED BY <1>1, <1>2, <1>3, <2>1 DEF ComposerInv, ComposerType
<1>5. ASSUME NEW i \in 1..f
      PROVE  composer_images'[n + i] = composer_imageFiles[i]
  <2> HIDE DEF kept
  <2> QED BY <1>1, <1>2, <1>3 DEF ComposerInv, ComposerType
<1>6. composer_images' \in Seq(Pictures \cup {None})
  <2> HIDE DEF kept
  <2>1. composer_imageFiles \in Seq(Pictures \cup {None})
    BY DEF ComposerInv, ComposerType
  <2> QED BY <1>2, <1>3, <2>1
<1> HIDE DEF kept
<1>7. ASSUME NEW p \in Places
      PROVE  /\ swap(composer_body[p]) \in Sources
             /\ composer_promised'[p] # None =>
                  /\ swap(composer_body[p])[1] = "address"
                  /\ composer_images'[swap(composer_body[p])[2]] = composer_promised'[p]
  <2>0. composer_promised'[p] =
          IF composer_body[p][1] = "address" /\ composer_body[p][2] \in composer_removed
          THEN None ELSE composer!Previewed(p)
    BY <1>3
  <2>1. CASE composer_body[p] = <<"text", 0>>
    <3>1. swap(composer_body[p]) = composer_body[p]
      BY <2>1 DEF composer!replace_inline_upload_markers
    <3>2. composer_promised'[p] = None
      BY <2>0, <2>1 DEF composer!Previewed
    <3> QED BY <2>1, <3>1, <3>2 DEF Sources
  <2>2. ASSUME NEW m \in composer!Markers, composer_body[p] = <<"marker", m>>
        PROVE  <1>7!2
    <3>0. m \in Nat
      BY ComposerAssumption DEF composer!Markers, ComposerAssumption
    <3>1. composer_promised'[p] = composer_previews[m]
      BY <2>0, <2>2 DEF composer!Previewed
    <3>2. CASE m < f
      <4>1. swap(composer_body[p]) = <<"address", n + m + 1>>
        BY <2>2, <3>2 DEF composer!replace_inline_upload_markers
      <4>2. composer_images'[n + (m + 1)] = composer_imageFiles[m + 1]
        BY <1>5, <1>1, <3>0, <3>2
      <4>3. n + (m + 1) = n + m + 1 /\ n + m + 1 \in Nat \ {0}
        BY <1>1, <3>0
      <4>4. composer_previews[m] # None => composer_previews[m] = composer_imageFiles[m + 1]
        BY DEF ComposerInv, PreviewOfFile
      <4> HIDE DEF n
      <4> QED BY <3>1, <4>1, <4>2, <4>3, <4>4 DEF Sources
    <3>3. CASE ~(m < f)
      <4>1. swap(composer_body[p]) = <<"marker", m>>
        BY <2>2, <3>3 DEF composer!replace_inline_upload_markers
      <4>2. composer_previews[m] = None
        BY <3>3 DEF ComposerInv, PreviewOfFile
      <4> QED BY <3>1, <4>1, <4>2 DEF Sources
    <3> QED BY <3>2, <3>3
  <2>3. ASSUME NEW a \in Nat \ {0}, composer_body[p] = <<"address", a>>
        PROVE  <1>7!2
    <3>1. swap(composer_body[p]) = <<"address", a>>
      BY <2>3 DEF composer!replace_inline_upload_markers
    <3>2. composer_promised'[p] =
            IF a \notin composer_removed /\ a \in composer!Present THEN composer_images[a] ELSE None
      BY <2>0, <2>3 DEF composer!Previewed
    <3>3. composer!Present \subseteq 1..n
      BY <1>1 DEF composer!Present
    <3> QED BY <1>4, <3>1, <3>2, <3>3 DEF Sources
  <2>4. composer_body[p] \in Sources
    BY DEF ComposerInv, ComposerType
  <2> QED BY <2>1, <2>2, <2>3, <2>4 DEF Sources
<1>8. composer_savedBody' \in [Places -> Sources]
  BY <1>3, <1>7
<1>9. ComposerType'
  BY <1>3, <1>6, <1>8 DEF ComposerType, composer!Markers, Sources
<1>10. PreviewOfFile'
  BY <1>3 DEF PreviewOfFile, composer!Markers
<1>11. composer!PreviewIsSaved'
  <2> SUFFICES ASSUME NEW p \in Places, composer_promised'[p] # None
      PROVE  composer!Rendered(p)' = composer_promised'[p]
    BY DEF composer!PreviewIsSaved
  <2>1. composer_savedBody'[p] = swap(composer_body[p])
    BY <1>3
  <2> QED BY <1>7, <2>1 DEF composer!Rendered
<1> QED BY <1>9, <1>10, <1>11 DEF ComposerInv

LEMMA ComposerSteps ==
  ASSUME ComposerInv, [composer!Next]_composerVars
  PROVE  ComposerInv'
<1>1. ASSUME NEW pic \in Pictures, NEW p \in Places, composer!addInlineImage(pic, p)
      PROVE  ComposerInv'
  BY <1>1, PictureAdded
<1>2. ASSUME NEW pics \in {<<a>> : a \in Pictures} \cup (Pictures \X Pictures),
             composer!setFileInputFromSelection(pics)
      PROVE  ComposerInv'
  BY <1>2, PicturesChosen
<1>3. ASSUME NEW p \in Places, NEW source \in composer!Source, composer!Edit(p, source)
      PROVE  ComposerInv'
  <2>1. /\ composer_body' = [composer_body EXCEPT ![p] = source]
        /\ source = <<"text", 0>> \/ \E q \in Places : source = composer_body[q]
        /\ UNCHANGED <<composer_imageFiles, composer_previews, composer_images,
                       composer_savedBody, composer_promised>>
    BY <1>3 DEF composer!Edit, composer!post
  <2>2. source \in Sources
    BY <2>1 DEF ComposerInv, ComposerType, Sources
  <2> QED BY <2>1, <2>2 DEF ComposerInv, ComposerType, PreviewOfFile, composer!PreviewIsSaved,
              composer!Rendered, composer!Markers, Sources
<1>4. ASSUME NEW i \in composer!Stored, composer!TickRemoval(i)
      PROVE  ComposerInv'
  BY <1>4 DEF composer!TickRemoval, composer!post, ComposerInv, ComposerType, PreviewOfFile,
     composer!PreviewIsSaved, composer!Rendered, composer!Markers, Sources
<1>5. ASSUME composer!Restored PROVE ComposerInv'
  <2>1. PICK files \in {composer_imageFiles, <<>>} :
          composer!Loaded(composer_body, files) /\ UNCHANGED composer!post
    BY <1>5 DEF composer!Restored
  <2>2. composer_imageFiles \in Seq(Pictures) /\ composer_body \in [Places -> Sources]
    BY DEF ComposerInv, ComposerType
  <2>3. files \in Seq(Pictures)
    <3>1. CASE files = composer_imageFiles
      BY <2>2, <3>1
    <3>2. CASE files = <<>>
      BY <3>2
    <3> QED BY <3>1, <3>2
  <2> QED BY <2>1, <2>2, <2>3, PageLoaded
<1>6. ASSUME composer!Refuse PROVE ComposerInv'
  <2>1. composer!Loaded(composer_body, <<>>) /\ UNCHANGED composer!post
    BY <1>6 DEF composer!Refuse
  <2>2. <<>> \in Seq(Pictures) /\ composer_body \in [Places -> Sources]
    BY DEF ComposerInv, ComposerType
  <2> QED BY <2>1, <2>2, PageLoaded
<1>7. CASE UNCHANGED composerVars
  BY <1>7 DEF composerVars, ComposerInv, ComposerType, PreviewOfFile,
     composer!PreviewIsSaved, composer!Rendered, composer!Markers, Sources
<1> QED BY <1>1, <1>2, <1>3, <1>4, <1>5, <1>6, <1>7, PostSaved DEF composer!Next

LEMMA ComposerLane == [LaneNext]_allVars => [composer!Next]_composerVars
BY DEF LaneNext, allVars, PushStep, ProfilesStep, ComposerStep, RehearsalStep, composer!Next

(***************************************************************************)
(* The picture a writer sees at a place in the text is the one readers see *)
(* there after the save, however many places, pictures, files and refused  *)
(* attempts there are (static/community-editor.js, community/forms.py).    *)
(***************************************************************************)
THEOREM SavedAsShown == LaneSpec => []PreviewIsSaved
<1>1. composer!Init => ComposerInv
  BY DEF composer!Init, ComposerInv, ComposerType, PreviewOfFile, composer!PreviewIsSaved,
     composer!NoText, composer!NoPreviews, Sources
<1>2. ComposerInv /\ [composer!Next]_composerVars => ComposerInv'
  BY ComposerSteps
<1>3. ComposerInv => PreviewIsSaved
  BY DEF ComposerInv, PreviewIsSaved
<1>4. LaneInit => composer!Init
  BY DEF LaneInit
<1> QED BY <1>1, <1>2, <1>3, <1>4, ComposerLane, PTL DEF LaneSpec

-----------------------------------------------------------------------------
(***************************************************************************)
(* Profiles, the names.  A request that was checked can be overtaken only  *)
(* by a member who takes a name, and that member's key is then in the      *)
(* column which the transaction itself finds unique; the names of users    *)
(* without a key are still those the check saw.                            *)
(***************************************************************************)
Named == Nicked \cup Staff
Asked == [kind : {"onboarding", "nickname"}, member : Nicked, nickname : Nicknames, now : Nat]

ProfilesType ==
  /\ profiles_day \in Nat
  /\ profiles_username = [u \in Named |-> profiles_username[u]]
  /\ profiles_nickname_key = [m \in Nicked |-> profiles_nickname_key[m]]
  /\ profiles_nickname_changed_at \in [Nicked -> Nat \cup {Never}]
  /\ profiles_request \in [Forms -> Asked \cup {None}]

(* The key is the name's, and only a member with one has changed it. *)
KeysOfNames ==
  \A m \in Nicked :
    IF profiles_nickname_key[m] = None THEN profiles_nickname_changed_at[m] = Never
    ELSE profiles_nickname_key[m] = FoldedName(profiles_username[m])

(* Of a request under way: its day is past, and who stands in its way has a key. *)
CheckStands(f) ==
  /\ f.now <= profiles_day
  /\ \A u \in Named \ {f.member} : FoldedName(profiles_username[u]) = FoldedName(f.nickname) =>
       u \in Nicked /\ profiles_nickname_key[u] # None
ChecksStand == \A t \in Forms : profiles_request[t] # None => CheckStands(profiles_request[t])

ProfilesInv == ProfilesType /\ KeysOfNames /\ ChecksStand

LEMMA RequestMade ==
  ASSUME ProfilesInv, NEW t \in Forms, NEW m \in Nicked, NEW n \in Nicknames,
         profiles!Onboarding(t, m, n) \/ profiles!EditNickname(t, m, n)
  PROVE  ProfilesInv'
<1>1. PICK kind \in {"onboarding", "nickname"} :
        profiles_request' = [profiles_request EXCEPT ![t] =
          [kind |-> kind, member |-> m, nickname |-> n, now |-> profiles_day]]
  BY DEF profiles!Onboarding, profiles!EditNickname
<1>2. /\ UNCHANGED <<profiles_day, profiles_username, profiles_nickname_key,
                     profiles_nickname_changed_at>>
      /\ \A u \in Named \ {m} : FoldedName(profiles_username[u]) # FoldedName(n)
  BY DEF profiles!Onboarding, profiles!EditNickname, profiles!clean_nickname, profiles!profiles,
     profiles!Users, Named
<1> DEFINE f == [kind |-> kind, member |-> m, nickname |-> n, now |-> profiles_day]
<1>3. f \in Asked /\ f.member = m /\ f.nickname = n /\ f.now = profiles_day
  BY DEF ProfilesInv, ProfilesType, Asked
<1> HIDE DEF f
<1>4. profiles_request' = [profiles_request EXCEPT ![t] = f]
  BY <1>1 DEF f
<1>5. ProfilesType'
  BY <1>2, <1>3, <1>4 DEF ProfilesInv, ProfilesType
<1>6. KeysOfNames'
  BY <1>2 DEF ProfilesInv, KeysOfNames
<1>7. ChecksStand'
  <2> SUFFICES ASSUME NEW s \in Forms, profiles_request'[s] # None
      PROVE  CheckStands(profiles_request[s])'
    BY DEF ChecksStand
  <2>1. CASE s = t
    <3>1. profiles_request'[s] = f
      BY <1>4, <2>1 DEF ProfilesInv, ProfilesType
    <3> QED BY <1>2, <1>3, <3>1 DEF CheckStands, ProfilesInv, ProfilesType
  <2>2. CASE s # t
    <3>1. profiles_request'[s] = profiles_request[s]
      BY <1>4, <2>2 DEF ProfilesInv, ProfilesType
    <3> QED BY <1>2, <3>1 DEF CheckStands, ProfilesInv, ChecksStand
  <2> QED BY <2>1, <2>2
<1> QED BY <1>5, <1>6, <1>7 DEF ProfilesInv

(* What stays of the invariant when a request ends and its member perhaps takes the name. *)
LEMMA NameTaken ==
  ASSUME ProfilesInv, NEW t \in Forms, NEW f \in Asked, profiles_request[t] = f, f # None,
         profiles_request' = [profiles_request EXCEPT ![t] = None],
         UNCHANGED profiles_day,
         profiles_nickname_changed_at' \in [Nicked -> Nat \cup {Never}],
         \A m \in Nicked \ {f.member} :
           profiles_nickname_changed_at'[m] = profiles_nickname_changed_at[m],
         profiles!UniqueNames(f.member, f.nickname), profiles!TakeName(f.member, f.nickname)
  PROVE  /\ ProfilesInv'
         /\ \A u \in Named \ {f.member} :
              /\ profiles_username'[u] = profiles_username[u]
              /\ FoldedName(profiles_username[u]) # FoldedName(f.nickname)
         /\ profiles_username'[f.member] = f.nickname
<1> DEFINE m == f.member  n == f.nickname
<1>1. m \in Nicked /\ n \in Nicknames
  BY DEF Asked
<1> HIDE DEF m, n
<1>2. /\ profiles_username' = [profiles_username EXCEPT ![m] = n]
      /\ profiles_nickname_key' = [profiles_nickname_key EXCEPT ![m] = FoldedName(n)]
      /\ \A k \in Nicked \ {m} : profiles_nickname_key[k] # FoldedName(n)
  BY DEF profiles!TakeName, profiles!UniqueNames, m, n
<1>3. /\ profiles_username'[m] = n /\ profiles_nickname_key'[m] = FoldedName(n)
      /\ \A u \in Named \ {m} : profiles_username'[u] = profiles_username[u]
      /\ \A k \in Nicked \ {m} : profiles_nickname_key'[k] = profiles_nickname_key[k]
      /\ profiles_username' = [u \in Named |-> profiles_username'[u]]
      /\ profiles_nickname_key' = [k \in Nicked |-> profiles_nickname_key'[k]]
  <2>1. m \in Named
    BY <1>1 DEF Named
  <2> QED BY <1>1, <1>2, <2>1 DEF ProfilesInv, ProfilesType
<1>4. FoldedName(n) # None
  BY <1>1, ProfilesAssumption DEF ProfilesAssumption
<1>5. CheckStands(f)
  BY DEF ProfilesInv, ChecksStand
<1>6. ASSUME NEW u \in Named \ {m} PROVE FoldedName(profiles_username[u]) # FoldedName(n)
  BY <1>2, <1>5, <1>6 DEF CheckStands, ProfilesInv, KeysOfNames, m, n
<1>7. ProfilesType'
  BY <1>3 DEF ProfilesInv, ProfilesType
<1>8. KeysOfNames'
  <2> SUFFICES ASSUME NEW k \in Nicked
      PROVE  IF profiles_nickname_key'[k] = None THEN profiles_nickname_changed_at'[k] = Never
             ELSE profiles_nickname_key'[k] = FoldedName(profiles_username'[k])
    BY DEF KeysOfNames
  <2>1. CASE k = m
    BY <1>3, <1>4, <2>1
  <2>2. CASE k # m
    <3>1. k \in Named /\ profiles_nickname_changed_at'[k] = profiles_nickname_changed_at[k]
      BY <2>2 DEF Named, m
    <3> QED BY <1>3, <2>2, <3>1 DEF ProfilesInv, KeysOfNames
  <2> QED BY <2>1, <2>2
<1>9. ChecksStand'
  <2> SUFFICES ASSUME NEW s \in Forms, profiles_request'[s] # None
      PROVE  CheckStands(profiles_request[s])'
    BY DEF ChecksStand
  <2>1. profiles_request'[s] = profiles_request[s]
    BY DEF ProfilesInv, ProfilesType
  <2> DEFINE g == profiles_request[s]
  <2>2. CheckStands(g)
    BY <2>1 DEF ProfilesInv, ChecksStand
  <2> HIDE DEF g
  <2>3. g.now <= profiles_day'
    BY <2>2 DEF CheckStands
  <2>4. ASSUME NEW u \in Named \ {g.member},
               FoldedName(profiles_username'[u]) = FoldedName(g.nickname)
        PROVE  u \in Nicked /\ profiles_nickname_key'[u] # None
    <3>1. CASE u = m
      BY <1>1, <1>3, <1>4, <3>1
    <3>2. CASE u # m
      BY <1>3, <2>2, <2>4, <3>2 DEF CheckStands
    <3> QED BY <3>1, <3>2
  <2> QED BY <2>1, <2>3, <2>4 DEF CheckStands, g
<1> QED BY <1>3, <1>6, <1>7, <1>8, <1>9 DEF ProfilesInv, m, n

(* A request that ends without a name leaves the rest as it is. *)
LEMMA NothingTaken ==
  ASSUME ProfilesInv, NEW t \in Forms,
         profiles_request' = [profiles_request EXCEPT ![t] = None],
         UNCHANGED <<profiles_day, profiles_username, profiles_nickname_key,
                     profiles_nickname_changed_at>>
  PROVE  ProfilesInv'
<1>1. ProfilesType' /\ KeysOfNames'
  BY DEF ProfilesInv, ProfilesType, KeysOfNames
<1>2. ASSUME NEW s \in Forms, profiles_request'[s] # None
      PROVE  CheckStands(profiles_request[s])'
  <2>1. profiles_request'[s] = profiles_request[s]
    BY <1>2 DEF ProfilesInv, ProfilesType
  <2> QED BY <1>2, <2>1 DEF ProfilesInv, ChecksStand, CheckStands
<1> QED BY <1>1, <1>2 DEF ProfilesInv, ChecksStand

(* Steps that touch no name. *)
LEMMA NamesUntouched ==
  ASSUME ProfilesInv, profiles_day' \in Nat, profiles_day <= profiles_day',
         UNCHANGED <<profiles_username, profiles_nickname_key, profiles_nickname_changed_at,
                     profiles_request>>
  PROVE  ProfilesInv'
<1>1. ProfilesType' /\ KeysOfNames'
  BY DEF ProfilesInv, ProfilesType, KeysOfNames
<1>2. ASSUME NEW s \in Forms, profiles_request'[s] # None
      PROVE  CheckStands(profiles_request[s])'
  <2>1. profiles_request[s] \in Asked /\ CheckStands(profiles_request[s])
    BY <1>2 DEF ProfilesInv, ProfilesType, ChecksStand
  <2>2. profiles_request[s].now \in Nat
    BY <2>1 DEF Asked
  <2> QED BY <2>1, <2>2 DEF ProfilesInv, ProfilesType, CheckStands
<1> QED BY <1>1, <1>2 DEF ProfilesInv, ChecksStand

(* The step of a name that changes. *)
NameStep ==
  \A m \in Nicked : profiles_username'[m] # profiles_username[m] =>
    /\ \A u \in Named \ {m} : FoldedName(profiles_username'[u]) # FoldedName(profiles_username'[m])
    /\ profiles_nickname_changed_at[m] # Never =>
         profiles_day - profiles_nickname_changed_at[m] >= MONTH

LEMMA FormOf ==
  ASSUME ProfilesInv, NEW t \in Forms, profiles_request[t] # None
  PROVE  /\ profiles_request[t] \in Asked
         /\ profiles_request[t].member \in Nicked /\ profiles_request[t].now \in Nat
         /\ profiles_request[t].now <= profiles_day
BY DEF ProfilesInv, ProfilesType, ChecksStand, CheckStands, Asked

LEMMA Onboarded ==
  ASSUME ProfilesInv, NEW t \in Forms, profiles!complete_profile(t)
  PROVE  ProfilesInv' /\ NameStep
<1> DEFINE f == profiles_request[t]
<1>1. /\ f # None /\ UNCHANGED <<profiles_day, profiles_nickname_changed_at>>
      /\ profiles_request' = [profiles_request EXCEPT ![t] = None]
      /\ IF profiles_nickname_key[f.member] = None /\ profiles!UniqueNames(f.member, f.nickname)
         THEN profiles!TakeName(f.member, f.nickname)
         ELSE UNCHANGED <<profiles_username, profiles_nickname_key>>
  BY DEF profiles!complete_profile, profiles!Done, profiles!is_complete
<1>2. f \in Asked /\ f.member \in Nicked
  BY <1>1, FormOf
<1>3. CASE profiles_nickname_key[f.member] = None /\ profiles!UniqueNames(f.member, f.nickname)
  <2>1. /\ ProfilesInv'
        /\ \A u \in Named \ {f.member} :
             /\ profiles_username'[u] = profiles_username[u]
             /\ FoldedName(profiles_username[u]) # FoldedName(f.nickname)
        /\ profiles_username'[f.member] = f.nickname
    <3> HIDE DEF f
    <3>1. profiles_request[t] = f
      BY DEF f
    <3>2. profiles_nickname_changed_at' \in [Nicked -> Nat \cup {Never}]
      BY <1>1 DEF ProfilesInv, ProfilesType
    <3> QED BY <1>1, <1>2, <1>3, <3>1, <3>2, NameTaken
  <2>2. profiles_nickname_changed_at[f.member] = Never
    BY <1>2, <1>3 DEF ProfilesInv, KeysOfNames
  <2> HIDE DEF f
  <2> QED BY <1>2, <2>1, <2>2 DEF NameStep, Named
<1>4. CASE ~(profiles_nickname_key[f.member] = None /\ profiles!UniqueNames(f.member, f.nickname))
  BY <1>1, <1>4, NothingTaken DEF NameStep
<1> QED BY <1>3, <1>4

LEMMA Renamed ==
  ASSUME ProfilesInv, NEW t \in Forms, profiles!UpdateNickname(t)
  PROVE  ProfilesInv' /\ NameStep
<1> DEFINE f == profiles_request[t]
<1>1. /\ f # None /\ UNCHANGED profiles_day
      /\ profiles_request' = [profiles_request EXCEPT ![t] = None]
      /\ IF profiles!MonthPassed(f.member, f.now) /\ profiles!UniqueNames(f.member, f.nickname)
         THEN /\ profiles!TakeName(f.member, f.nickname)
              /\ profiles_nickname_changed_at' =
                   [profiles_nickname_changed_at EXCEPT ![f.member] = f.now]
         ELSE UNCHANGED <<profiles_username, profiles_nickname_key, profiles_nickname_changed_at>>
  BY DEF profiles!UpdateNickname, profiles!Done
<1>2. f \in Asked /\ f.member \in Nicked /\ f.now \in Nat /\ f.now <= profiles_day
  BY <1>1, FormOf
<1>3. CASE profiles!MonthPassed(f.member, f.now) /\ profiles!UniqueNames(f.member, f.nickname)
  <2>1. /\ ProfilesInv'
        /\ \A u \in Named \ {f.member} :
             /\ profiles_username'[u] = profiles_username[u]
             /\ FoldedName(profiles_username[u]) # FoldedName(f.nickname)
        /\ profiles_username'[f.member] = f.nickname
    <3> HIDE DEF f
    <3>1. profiles_request[t] = f
      BY DEF f
    <3>2. /\ profiles_nickname_changed_at' \in [Nicked -> Nat \cup {Never}]
          /\ \A m \in Nicked \ {f.member} :
               profiles_nickname_changed_at'[m] = profiles_nickname_changed_at[m]
      BY <1>1, <1>2, <1>3 DEF ProfilesInv, ProfilesType
    <3> QED BY <1>1, <1>2, <1>3, <3>1, <3>2, NameTaken
  <2>2. profiles_nickname_changed_at[f.member] # Never =>
          profiles_day - profiles_nickname_changed_at[f.member] >= MONTH
    <3>1. /\ profiles_nickname_changed_at[f.member] \in Nat \cup {Never}
          /\ MONTH \in Nat /\ profiles_day \in Nat
      BY <1>2, ProfilesAssumption DEF ProfilesInv, ProfilesType, ProfilesAssumption
    <3> HIDE DEF f
    <3> QED BY <1>2, <1>3, <3>1 DEF profiles!MonthPassed
  <2> HIDE DEF f
  <2> QED BY <1>2, <2>1, <2>2 DEF NameStep, Named
<1>4. CASE ~(profiles!MonthPassed(f.member, f.now) /\ profiles!UniqueNames(f.member, f.nickname))
  BY <1>1, <1>4, NothingTaken DEF NameStep
<1> QED BY <1>3, <1>4

LEMMA ProfilesSteps ==
  ASSUME ProfilesInv, [profiles!Next]_profilesVars
  PROVE  ProfilesInv' /\ NameStep
<1>1. ASSUME NEW t \in Forms, NEW m \in Nicked, NEW n \in Nicknames,
             profiles!Onboarding(t, m, n) \/ profiles!EditNickname(t, m, n)
      PROVE  ProfilesInv' /\ NameStep
  BY <1>1, RequestMade DEF NameStep, profiles!Onboarding, profiles!EditNickname, profiles!profiles
<1>2. ASSUME NEW t \in Forms, profiles!complete_profile(t) \/ profiles!UpdateNickname(t)
      PROVE  ProfilesInv' /\ NameStep
  BY <1>2, Onboarded, Renamed
<1>3. ASSUME /\ profiles_day' \in Nat /\ profiles_day <= profiles_day'
             /\ UNCHANGED <<profiles_username, profiles_nickname_key,
                            profiles_nickname_changed_at, profiles_request>>
      PROVE  ProfilesInv' /\ NameStep
  BY <1>3, NamesUntouched DEF NameStep
<1>4. profiles_day \in Nat
  BY DEF ProfilesInv, ProfilesType
<1>5. ASSUME NEW m \in Nicked, NEW kind, NEW enabled,
             \/ profiles!edit_avatar(m) \/ profiles!profile_image(m, kind)
             \/ profiles!SetAnswerEmail(m, enabled)
      PROVE  ProfilesInv' /\ NameStep
  BY <1>3, <1>4, <1>5 DEF profiles!edit_avatar, profiles!profile_image, profiles!SetAnswerEmail
<1>6. CASE profiles!NextDay
  BY <1>3, <1>4, <1>6 DEF profiles!NextDay, profiles!profiles
<1>7. CASE UNCHANGED profilesVars
  BY <1>3, <1>4, <1>7 DEF profilesVars
<1> QED BY <1>1, <1>2, <1>5, <1>6, <1>7 DEF profiles!Next

LEMMA ProfilesLane == [LaneNext]_allVars => [profiles!Next]_profilesVars
BY DEF LaneNext, allVars, PushStep, ProfilesStep, ComposerStep, RehearsalStep, profiles!Next

(***************************************************************************)
(* However many members' requests overlap, nobody takes a name another     *)
(* user has in any case of letters, and a nickname once changed stays for  *)
(* a month (members/views.py, forms.py, services.py).                      *)
(***************************************************************************)
THEOREM NamesAreKept == LaneSpec => NamesStay
<1>1. profiles!Init => ProfilesInv
  BY ProfilesAssumption DEF profiles!Init, profiles!Users, ProfilesInv, ProfilesType, KeysOfNames,
     ChecksStand, Named, ProfilesAssumption
<1>2. ProfilesInv /\ [profiles!Next]_profilesVars => ProfilesInv'
  BY ProfilesSteps
<1>3. ProfilesInv /\ [profiles!Next]_profilesVars =>
        [\A m \in Nicked : profiles_username'[m] # profiles_username[m] =>
           /\ \A u \in profiles!Users \ {m} :
                FoldedName(profiles_username'[u]) # FoldedName(profiles_username'[m])
           /\ profiles_nickname_changed_at[m] # Never =>
                profiles_day - profiles_nickname_changed_at[m] >= MONTH]_(profiles!vars)
  BY ProfilesSteps DEF NameStep, Named, profiles!Users
<1>4. LaneInit => profiles!Init
  BY DEF LaneInit
<1> QED BY <1>1, <1>2, <1>3, <1>4, ProfilesLane, PTL DEF LaneSpec, NamesStay, profiles!NamesStay

-----------------------------------------------------------------------------
(***************************************************************************)
(* Rehearsal, the pacing of a replay.  What was listed is in the memory    *)
(* that holds the next story back, and of the listing's hours the counter  *)
(* knows the one that runs and the cap held the one before it: a sliding   *)
(* hour overlaps those two at most.                                        *)
(***************************************************************************)
Listing == Seq(PastStories \X Nat)

\* The messages of a listing from a minute on and before another.
Between(list, a, b) == {i \in 1..Len(list) : a <= list[i][2] /\ list[i][2] < b}
Figures == {PastCap, PastHour, PastCooldown, PastRecapCooldown, EventWindow, LINK_CHARS}

IsRemembered(i) ==
  LET s == rehearsal_out[i][1]
      at == rehearsal_out[i][2] IN
  /\ at <= rehearsal_now
  /\ s \in rehearsal_taken /\ s \in rehearsal_keys
  /\ [at |-> at, tokens |-> rehearsal!tokens(s)] \in rehearsal_events
  /\ rehearsal_last # None /\ at <= rehearsal_last
  /\ rehearsal!Has(s, "recap") => rehearsal_last_recap # None /\ at <= rehearsal_last_recap

RehearsalType ==
  /\ rehearsal_out \in Listing
  /\ rehearsal_now \in Nat /\ rehearsal_hour_anchor \in Nat /\ rehearsal_hour_count \in Nat
  /\ rehearsal_last \in Nat \cup {None} /\ rehearsal_last_recap \in Nat \cup {None}

Hours ==
  /\ rehearsal_hour_anchor <= rehearsal_now
  /\ rehearsal_now < rehearsal_hour_anchor + PastHour
  /\ Cardinality(Between(rehearsal_out, rehearsal_hour_anchor, rehearsal_hour_anchor + PastHour))
       <= rehearsal_hour_count
  /\ rehearsal_hour_count <= PastCap
  /\ Cardinality(Between(rehearsal_out, rehearsal_hour_anchor - PastHour, rehearsal_hour_anchor))
       <= PastCap

SpacedFromBefore ==
  \A i \in 2..Len(rehearsal_out) :
    \/ rehearsal!Has(rehearsal_out[i][1], "pick") \/ rehearsal!Has(rehearsal_out[i][1], "breaking")
    \/ rehearsal_out[i][2] - rehearsal_out[i - 1][2] >= PastCooldown

\* What a message and an earlier one may not be to each other.
Apart(x, y) ==
  /\ rehearsal!Has(x[1], "recap") /\ rehearsal!Has(y[1], "recap") /\ ~rehearsal!Has(y[1], "pick")
       => y[2] - x[2] >= PastRecapCooldown
  /\ y[2] - x[2] <= EventWindow
       => ~rehearsal!same_event(rehearsal!tokens(y[1]), rehearsal!tokens(x[1]))
  /\ x[1] # y[1] /\ <<y[1], x[1]>> \notin PastSimilar

AllApart ==
  \A i, j \in 1..Len(rehearsal_out) : i < j => Apart(rehearsal_out[i], rehearsal_out[j])

HoursCapped ==
  \A m \in Int : Cardinality(Between(rehearsal_out, m - PastHour + 1, m + 1)) <= 2 * PastCap

ReplayInv ==
  /\ RehearsalType
  /\ \A i \in 1..Len(rehearsal_out) : IsRemembered(i)
  /\ rehearsal_todo \cap rehearsal_taken = {}
  /\ Hours /\ SpacedFromBefore /\ AllApart /\ HoursCapped

LEMMA BetweenCounts ==
  ASSUME NEW list \in Listing, NEW a, NEW b
  PROVE  /\ IsFiniteSet(Between(list, a, b))
         /\ Cardinality(Between(list, a, b)) \in Nat
<1>1. Len(list) \in Nat
  BY DEF Listing
<1>2. IsFiniteSet(1..Len(list))
  BY <1>1, FS_Interval
<1>3. IsFiniteSet(Between(list, a, b))
  BY <1>2, FS_Subset DEF Between
<1> QED BY <1>3, FS_CardinalityType

(* A message more counts where its minute lies, once. *)
LEMMA OneMore ==
  ASSUME NEW list \in Listing, NEW s \in PastStories, NEW n \in Nat, NEW a \in Int, NEW b \in Int
  PROVE  LET more == Append(list, <<s, n>>) IN
         /\ ~(a <= n /\ n < b) => Between(more, a, b) = Between(list, a, b)
         /\ Cardinality(Between(more, a, b)) <= Cardinality(Between(list, a, b)) + 1
<1> DEFINE more == Append(list, <<s, n>>)
           k == Len(list) + 1
           B == Between(list, a, b)
<1>1. /\ more \in Listing /\ Len(more) = k /\ k \in Nat /\ Len(list) \in Nat
      /\ more[k] = <<s, n>>
      /\ \A i \in 1..Len(list) : more[i] = list[i]
  BY DEF Listing
<1>2. more[k][2] = n
  BY <1>1
<1> HIDE DEF more
<1>3. ~(a <= n /\ n < b) => Between(more, a, b) = B
  BY <1>1, <1>2 DEF Between
<1>4. (a <= n /\ n < b) => Between(more, a, b) = B \cup {k}
  BY <1>1, <1>2 DEF Between
<1>5. IsFiniteSet(B) /\ Cardinality(B) \in Nat
  BY BetweenCounts
<1>6. Cardinality(B \cup {k}) = IF k \in B THEN Cardinality(B) ELSE Cardinality(B) + 1
  <2> HIDE DEF B, k
  <2> QED BY <1>5, FS_AddElement
<1>7. Cardinality(Between(more, a, b)) <= Cardinality(B) + 1
  <2> HIDE DEF B, k
  <2> QED BY <1>3, <1>4, <1>5, <1>6
<1> QED BY <1>3, <1>7 DEF more

(* A sliding hour lies in the two fixed hours up to the one that runs. *)
LEMMA SlidingHour ==
  ASSUME NEW list \in Listing, NEW now \in Nat, NEW anchor \in Nat, NEW m \in Int,
         \A i \in 1..Len(list) : list[i][2] <= now,
         anchor <= now, now < anchor + PastHour, now <= m,
         Cardinality(Between(list, anchor, anchor + PastHour)) <= PastCap,
         Cardinality(Between(list, anchor - PastHour, anchor)) <= PastCap
  PROVE  Cardinality(Between(list, m - PastHour + 1, m + 1)) <= 2 * PastCap
<1> DEFINE W == Between(list, m - PastHour + 1, m + 1)
           P == Between(list, anchor - PastHour, anchor)
           C == Between(list, anchor, anchor + PastHour)
<1>1. PastHour \in Nat /\ PastCap \in Nat
  BY RehearsalAssumption DEF RehearsalAssumption
<1>2. \A i \in 1..Len(list) : list[i][2] \in Nat
  BY DEF Listing
<1>3. W \subseteq P \cup C
  BY <1>1, <1>2 DEF Between
<1>4. /\ IsFiniteSet(P) /\ IsFiniteSet(C) /\ IsFiniteSet(W)
      /\ Cardinality(P) \in Nat /\ Cardinality(C) \in Nat /\ Cardinality(W) \in Nat
  BY BetweenCounts
<1>5. IsFiniteSet(P \cap C) /\ Cardinality(P \cap C) \in Nat
  BY <1>4, FS_Subset, FS_CardinalityType
<1> HIDE DEF W, P, C
<1>6. Cardinality(P \cup C) = Cardinality(P) + Cardinality(C) - Cardinality(P \cap C)
  BY <1>4, FS_Union
<1>7. IsFiniteSet(P \cup C) /\ Cardinality(W) <= Cardinality(P \cup C)
  BY <1>3, <1>4, FS_Union, FS_Subset
<1>8. Cardinality(P) <= PastCap /\ Cardinality(C) <= PastCap
  BY DEF P, C
<1>9. Cardinality(W) <= 2 * PastCap
  BY <1>1, <1>4, <1>5, <1>6, <1>7, <1>8
<1> QED BY <1>9 DEF W

LEMMA MinuteWalked ==
  ASSUME ReplayInv, rehearsal!NextMinute
  PROVE  ReplayInv'
<1> DEFINE a == rehearsal_hour_anchor
           n == rehearsal_now
           O == rehearsal_out
<1>0. PastHour \in Nat /\ PastHour > 0 /\ PastCap \in Nat
  BY RehearsalAssumption DEF RehearsalAssumption
<1>1. /\ rehearsal_now' = n + 1
      /\ rehearsal_todo' = rehearsal!Waiting(n + 1, rehearsal_taken)
      /\ IF n + 1 - a >= PastHour
         THEN rehearsal_hour_anchor' = n + 1 /\ rehearsal_hour_count' = 0
         ELSE UNCHANGED <<rehearsal_hour_anchor, rehearsal_hour_count>>
      /\ UNCHANGED <<rehearsal_taken, rehearsal_keys, rehearsal_events, rehearsal_last,
                     rehearsal_last_recap, rehearsal_out>>
  BY DEF rehearsal!NextMinute
<1>2. /\ O \in Listing /\ n \in Nat /\ a \in Nat /\ rehearsal_hour_count \in Nat
      /\ a <= n /\ n < a + PastHour
  BY DEF ReplayInv, RehearsalType, Hours
<1>3. \A i \in 1..Len(O) : O[i][2] \in Nat
  BY <1>2 DEF Listing
<1>4. RehearsalType'
  BY <1>1, <1>2 DEF ReplayInv, RehearsalType, Listing
<1>5. ASSUME NEW i \in 1..Len(O) PROVE IsRemembered(i)'
  BY <1>1, <1>2, <1>3 DEF ReplayInv, IsRemembered
<1>6. rehearsal_todo' \cap rehearsal_taken' = {}
  BY <1>1 DEF rehearsal!Waiting
<1>7. Hours'
  <2>1. CASE n + 1 - a >= PastHour
    <3>1. n + 1 = a + PastHour /\ rehearsal_hour_anchor' = n + 1 /\ rehearsal_hour_count' = 0
      BY <1>0, <1>1, <1>2, <2>1
    <3>2. Between(O, n + 1, n + 1 + PastHour) = {}
      <4>1. ASSUME NEW i \in 1..Len(O) PROVE ~(n + 1 <= O[i][2])
        <5>1. O[i][2] <= n
          BY DEF ReplayInv, IsRemembered
        <5>2. O[i][2] \in Nat
          BY <1>3
        <5> QED BY <1>2, <5>1, <5>2
      <4> QED BY <4>1 DEF Between
    <3>3. Cardinality(Between(O, n + 1, n + 1 + PastHour)) = 0
      BY <3>2, FS_EmptySet
    <3>4. n + 1 - PastHour = a
      BY <1>0, <1>2, <3>1
    <3>5. Cardinality(Between(O, n + 1 - PastHour, n + 1)) <= rehearsal_hour_count
      BY <3>1, <3>4 DEF ReplayInv, Hours
    <3>6. Cardinality(Between(O, n + 1 - PastHour, n + 1)) <= PastCap
      BY <1>0, <1>2, <3>5, BetweenCounts DEF ReplayInv, Hours
    <3> QED BY <1>0, <1>1, <1>2, <3>1, <3>3, <3>6 DEF Hours
  <2>2. CASE ~(n + 1 - a >= PastHour)
    BY <1>0, <1>1, <1>2, <2>2 DEF ReplayInv, Hours
  <2> QED BY <2>1, <2>2
<1>8. SpacedFromBefore' /\ AllApart' /\ HoursCapped'
  BY <1>1 DEF ReplayInv, SpacedFromBefore, AllApart, HoursCapped, Apart
<1> QED BY <1>1, <1>4, <1>5, <1>6, <1>7, <1>8 DEF ReplayInv

LEMMA StoryListed ==
  ASSUME ReplayInv, NEW s \in PastStories, s \in rehearsal_todo,
         rehearsal!Verdict(s) = "listed", rehearsal!List(s),
         rehearsal_todo' = rehearsal_todo \ {s},
         rehearsal_taken' = rehearsal_taken \cup {s},
         rehearsal_keys' = rehearsal_keys \cup {s},
         rehearsal_events' =
           rehearsal_events \cup {[at |-> rehearsal_now, tokens |-> rehearsal!tokens(s)]},
         UNCHANGED <<rehearsal_now, rehearsal_hour_anchor>>
  PROVE  ReplayInv'
<1> DEFINE a == rehearsal_hour_anchor
           n == rehearsal_now
           O == rehearsal_out
           k == Len(O) + 1
           new == rehearsal_out'
<1>0. /\ PastHour \in Nat /\ PastHour > 0 /\ PastCap \in Nat /\ EventWindow \in Nat
      /\ PastCooldown \in Nat /\ PastRecapCooldown \in Nat /\ None \notin Nat
  BY RehearsalAssumption DEF RehearsalAssumption
<1>1. /\ new = Append(O, <<s, n>>) /\ rehearsal_last' = n
      /\ rehearsal_last_recap' = IF rehearsal!Has(s, "recap") THEN n ELSE rehearsal_last_recap
      /\ rehearsal_hour_count' = rehearsal_hour_count + 1
  BY DEF rehearsal!List
<1>2. /\ O \in Listing /\ n \in Nat /\ a \in Nat /\ rehearsal_hour_count \in Nat
      /\ rehearsal_last \in Nat \cup {None} /\ rehearsal_last_recap \in Nat \cup {None}
      /\ a <= n /\ n < a + PastHour
  BY DEF ReplayInv, RehearsalType, Hours
<1>3. \A i \in 1..Len(O) : O[i] \in PastStories \X Nat /\ O[i][2] \in Nat /\ O[i][1] \in PastStories
  BY <1>2 DEF Listing
<1>4. /\ new \in Listing /\ Len(new) = k /\ Len(O) \in Nat
      /\ new[k] = <<s, n>> /\ new[k][1] = s /\ new[k][2] = n
      /\ \A i \in 1..Len(O) : new[i] = O[i]
  BY <1>1, <1>2 DEF Listing
<1>5. /\ ~rehearsal!Held(s) /\ ~rehearsal!Retold(s)
      /\ \A t \in rehearsal_keys : <<s, t>> \notin PastSimilar
  BY DEF rehearsal!Verdict
<1>6. RehearsalType'
  BY <1>1, <1>2, <1>4 DEF RehearsalType
<1>7. ASSUME NEW i \in 1..Len(O) PROVE IsRemembered(i)'
  <2>1. IsRemembered(i) /\ new[i] = O[i] /\ O[i][2] <= n /\ O[i][2] \in Nat
    BY <1>3, <1>4 DEF ReplayInv, IsRemembered
  <2> HIDE DEF new, O
  <2>2. /\ new[i][2] <= rehearsal_now' /\ rehearsal_last' # None /\ new[i][2] <= rehearsal_last'
        /\ new[i][1] \in rehearsal_taken' /\ new[i][1] \in rehearsal_keys'
    BY <1>0, <1>1, <1>2, <2>1 DEF IsRemembered, O
  <2>3. [at |-> new[i][2], tokens |-> rehearsal!tokens(new[i][1])] \in rehearsal_events'
    BY <2>1 DEF IsRemembered, O
  <2>4. rehearsal!Has(new[i][1], "recap") =>
          rehearsal_last_recap' # None /\ new[i][2] <= rehearsal_last_recap'
    BY <1>0, <1>1, <1>2, <2>1 DEF IsRemembered, O
  <2> QED BY <2>2, <2>3, <2>4 DEF IsRemembered, new, rehearsal!tokens, rehearsal!Has
<1>8. ASSUME NEW i, i = k PROVE IsRemembered(i)'
  <2>1. new[i] = <<s, n>> /\ new[i][1] = s /\ new[i][2] = n
    BY <1>4, <1>8
  <2>0. n <= n /\ n # None /\ rehearsal_now' = n
    BY <1>0, <1>2
  <2> HIDE DEF new, n
  <2>2. /\ new[i][2] <= rehearsal_now' /\ rehearsal_last' # None /\ new[i][2] <= rehearsal_last'
        /\ rehearsal!Has(new[i][1], "recap") =>
             rehearsal_last_recap' # None /\ new[i][2] <= rehearsal_last_recap'
    BY <1>1, <2>0, <2>1
  <2>3. [at |-> new[i][2], tokens |-> rehearsal!tokens(new[i][1])] \in rehearsal_events'
    BY <2>1 DEF n
  <2> QED BY <2>1, <2>2, <2>3 DEF IsRemembered, new, rehearsal!tokens, rehearsal!Has
<1>9. ASSUME NEW i \in 1..Len(new) PROVE IsRemembered(i)'
  <2>1. i = k \/ i \in 1..Len(O)
    BY <1>4
  <2> QED BY <1>7, <1>8, <2>1
<1>10. rehearsal_todo' \cap rehearsal_taken' = {}
  BY DEF ReplayInv
<1>11. Hours'
  <2>1. rehearsal_hour_count < PastCap
    BY <1>0, <1>2, <1>5 DEF rehearsal!Held
  <2>2. /\ Cardinality(Between(new, a, a + PastHour)) <= Cardinality(Between(O, a, a + PastHour)) + 1
        /\ Between(new, a - PastHour, a) = Between(O, a - PastHour, a)
    BY <1>0, <1>1, <1>2, OneMore
  <2>3. /\ Cardinality(Between(new, a, a + PastHour)) \in Nat
        /\ Cardinality(Between(O, a, a + PastHour)) \in Nat
    BY <1>2, <1>4, BetweenCounts
  <2>4. Cardinality(Between(new, a, a + PastHour)) <= rehearsal_hour_count + 1
    BY <1>2, <2>2, <2>3 DEF ReplayInv, Hours
  <2> HIDE DEF new
  <2> QED BY <1>0, <1>1, <1>2, <2>1, <2>2, <2>4 DEF ReplayInv, Hours, new
<1>12. SpacedFromBefore'
  <2> SUFFICES ASSUME NEW i \in 2..Len(new)
      PROVE  \/ rehearsal!Has(new[i][1], "pick") \/ rehearsal!Has(new[i][1], "breaking")
             \/ new[i][2] - new[i - 1][2] >= PastCooldown
    BY DEF SpacedFromBefore, rehearsal!Has
  <2>1. CASE i = k
    <3>1. i - 1 \in 1..Len(O) /\ i - 1 = Len(O)
      BY <1>4, <2>1
    <3>2. IsRemembered(i - 1) /\ new[i - 1][2] = O[i - 1][2] /\ O[i - 1][2] \in Nat
      BY <1>3, <1>4, <3>1 DEF ReplayInv
    <3>3. rehearsal_last # None /\ O[i - 1][2] <= rehearsal_last
      BY <3>2 DEF IsRemembered
    <3>4. \/ rehearsal!Has(s, "pick") \/ rehearsal!Has(s, "breaking")
          \/ n - rehearsal_last >= PastCooldown
      BY <1>0, <1>2, <1>5, <3>3 DEF rehearsal!Held
    <3> HIDE DEF new
    <3> QED BY <1>0, <1>2, <1>4, <2>1, <3>2, <3>3, <3>4
  <2>2. CASE i # k
    <3>1. i \in 2..Len(O) /\ new[i] = O[i] /\ new[i - 1] = O[i - 1]
      BY <1>4, <2>2
    <3> HIDE DEF new
    <3> QED BY <3>1 DEF ReplayInv, SpacedFromBefore
  <2> QED BY <2>1, <2>2
<1>13. ASSUME NEW i \in 1..Len(O) PROVE Apart(O[i], <<s, n>>)
  <2>1. IsRemembered(i) /\ O[i][2] \in Nat /\ O[i][2] <= n
    BY <1>3 DEF ReplayInv, IsRemembered
  <2>2. rehearsal!Has(O[i][1], "recap") /\ rehearsal!Has(s, "recap") /\ ~rehearsal!Has(s, "pick")
          => n - O[i][2] >= PastRecapCooldown
    BY <1>0, <1>2, <1>5, <2>1 DEF rehearsal!Held, rehearsal!RecapHeld, IsRemembered
  <2>3. n - O[i][2] <= EventWindow =>
          ~rehearsal!same_event(rehearsal!tokens(s), rehearsal!tokens(O[i][1]))
    <3> DEFINE e == [at |-> O[i][2], tokens |-> rehearsal!tokens(O[i][1])]
    <3>1. e \in rehearsal_events /\ e.at = O[i][2] /\ e.tokens = rehearsal!tokens(O[i][1])
      BY <2>1 DEF IsRemembered
    <3> HIDE DEF e
    <3> QED BY <1>5, <3>1 DEF rehearsal!Retold
  <2>4. O[i][1] # s /\ <<s, O[i][1]>> \notin PastSimilar
    BY <1>5, <2>1 DEF ReplayInv, IsRemembered
  <2> QED BY <2>2, <2>3, <2>4 DEF Apart
<1>14. AllApart'
  <2> SUFFICES ASSUME NEW i \in 1..Len(new), NEW j \in 1..Len(new), i < j
      PROVE  Apart(new[i], new[j])
    BY DEF AllApart, Apart, rehearsal!Has, rehearsal!tokens, rehearsal!same_event,
       rehearsal!shared_tokens, rehearsal!SameWord
  <2>1. i \in 1..Len(O) /\ new[i] = O[i]
    BY <1>4
  <2>2. CASE j = k
    BY <1>4, <1>13, <2>1, <2>2
  <2>3. CASE j # k
    <3>1. j \in 1..Len(O) /\ new[j] = O[j]
      BY <1>4, <2>3
    <3> HIDE DEF new
    <3> QED BY <2>1, <3>1 DEF ReplayInv, AllApart
  <2> QED BY <2>2, <2>3
<1>15. HoursCapped'
  <2> SUFFICES ASSUME NEW m \in Int
      PROVE  Cardinality(Between(new, m - PastHour + 1, m + 1)) <= 2 * PastCap
    BY DEF HoursCapped
  <2>1. CASE n <= m
    <3>1. \A i \in 1..Len(new) : new[i][2] <= n
      BY <1>9 DEF IsRemembered
    <3>2. /\ Cardinality(Between(new, a, a + PastHour)) <= PastCap
          /\ Cardinality(Between(new, a - PastHour, a)) <= PastCap
      BY <1>0, <1>2, <1>4, <1>6, <1>11, BetweenCounts DEF Hours, RehearsalType
    <3> HIDE DEF new
    <3> QED BY <1>2, <1>4, <2>1, <3>1, <3>2, SlidingHour
  <2>2. CASE ~(n <= m)
    <3>1. Between(new, m - PastHour + 1, m + 1) = Between(O, m - PastHour + 1, m + 1)
      BY <1>0, <1>1, <1>2, <2>2, OneMore
    <3> QED BY <3>1 DEF ReplayInv, HoursCapped
  <2> QED BY <2>1, <2>2
<1> QED BY <1>6, <1>9, <1>10, <1>11, <1>12, <1>14, <1>15 DEF ReplayInv

LEMMA StoryVisited ==
  ASSUME ReplayInv, NEW s \in PastStories, rehearsal!Visit(s)
  PROVE  ReplayInv'
<1> DEFINE v == rehearsal!Verdict(s)
<1>1. /\ s \in rehearsal_todo /\ rehearsal_todo' = rehearsal_todo \ {s}
      /\ rehearsal_taken' = IF v = "held" THEN rehearsal_taken ELSE rehearsal_taken \cup {s}
      /\ rehearsal_keys' = IF v \in {"similar", "listed"} THEN rehearsal_keys \cup {s}
                           ELSE rehearsal_keys
      /\ rehearsal_events' = IF v \in {"unworthy", "held"} THEN rehearsal_events
           ELSE rehearsal_events \cup {[at |-> rehearsal_now, tokens |-> rehearsal!tokens(s)]}
      /\ IF v = "listed" THEN rehearsal!List(s)
         ELSE UNCHANGED <<rehearsal_last, rehearsal_last_recap, rehearsal_hour_count,
                          rehearsal_out>>
      /\ UNCHANGED <<rehearsal_now, rehearsal_hour_anchor>>
  BY DEF rehearsal!Visit
<1> HIDE DEF v
<1>2. CASE v = "listed"
  <2>1. rehearsal!Verdict(s) = "listed"
    BY <1>2 DEF v
  <2> QED BY <1>1, <1>2, <2>1, StoryListed
<1>3. CASE v # "listed"
  <2>1. UNCHANGED <<rehearsal_last, rehearsal_last_recap, rehearsal_hour_count, rehearsal_out,
                    rehearsal_now, rehearsal_hour_anchor>>
    BY <1>1, <1>3
  <2>2. /\ rehearsal_taken \subseteq rehearsal_taken' /\ rehearsal_keys \subseteq rehearsal_keys'
        /\ rehearsal_events \subseteq rehearsal_events'
    BY <1>1
  <2>3. rehearsal_todo' \cap rehearsal_taken' = {}
    BY <1>1 DEF ReplayInv
  <2>4. ASSUME NEW i \in 1..Len(rehearsal_out) PROVE IsRemembered(i)'
    <3>1. IsRemembered(i)
      BY DEF ReplayInv
    <3> QED BY <2>1, <2>2, <3>1 DEF IsRemembered, rehearsal!tokens, rehearsal!Has
  <2>5. RehearsalType' /\ Hours' /\ HoursCapped'
    BY <2>1 DEF ReplayInv, RehearsalType, Listing, Hours, HoursCapped, Between
  <2>6. SpacedFromBefore' /\ AllApart'
    BY <2>1 DEF ReplayInv, SpacedFromBefore, AllApart, Apart
  <2> QED BY <2>1, <2>3, <2>4, <2>5, <2>6 DEF ReplayInv
<1> QED BY <1>2, <1>3

LEMMA ReplayPaced == ASSUME ReplayInv PROVE rehearsal!Paced
<1>1. rehearsal_out \in Listing /\ Len(rehearsal_out) \in Nat
  BY DEF ReplayInv, RehearsalType, Listing
<1>2. ASSUME NEW m \in 0..PastLength
      PROVE  rehearsal!Cardinality({i \in 1..Len(rehearsal_out) :
               rehearsal_out[i][2] > m - PastHour /\ rehearsal_out[i][2] <= m}) <= 2 * PastCap
  <2> DEFINE S == {i \in 1..Len(rehearsal_out) :
                     rehearsal_out[i][2] > m - PastHour /\ rehearsal_out[i][2] <= m}
  <2>0. m \in Int /\ PastHour \in Nat
    BY RehearsalAssumption DEF RehearsalAssumption
  <2>1. \A i \in 1..Len(rehearsal_out) : rehearsal_out[i][2] \in Nat
    BY <1>1 DEF Listing
  <2>2. S = Between(rehearsal_out, m - PastHour + 1, m + 1)
    BY <2>0, <2>1 DEF Between
  <2> HIDE DEF S
  <2>3. Cardinality(S) <= 2 * PastCap
    BY <2>0, <2>2 DEF ReplayInv, HoursCapped
  <2>4. rehearsal!Cardinality(S) = Cardinality(S)
    BY DEF rehearsal!Cardinality, Cardinality
  <2> QED BY <2>3, <2>4 DEF S
<1>3. ASSUME NEW i \in 1..Len(rehearsal_out), NEW j \in 1..Len(rehearsal_out), i < j
      PROVE  Apart(rehearsal_out[i], rehearsal_out[j])
  BY <1>3 DEF ReplayInv, AllApart
<1> QED BY <1>2, <1>3 DEF rehearsal!Paced, ReplayInv, SpacedFromBefore, Apart

(***************************************************************************)
(* The shape of a message.  Escaping leaves the channel's own source line  *)
(* and footer to the renderer, so a message that ends with a footer was    *)
(* not cut, and what the check finds once is where the renderer put it.    *)
(***************************************************************************)
Inner == BodyLines \ {"source", "footer"}
TitleLines == {"titled", "untitled", "markdown"}
SourceLines == {"source", "source_unverified", "source_undated"}
Lines == Inner \cup TitleLines \cup SourceLines \cup {"footer"}

LEMMA Joined ==
  ASSUME NEW S, NEW p \in Seq(S), NEW q \in Seq(S)
  PROVE  /\ p \o q \in Seq(S) /\ Len(p \o q) = Len(p) + Len(q)
         /\ \A i \in 1..Len(p) : (p \o q)[i] = p[i]
         /\ \A i \in 1..Len(q) : (p \o q)[Len(p) + i] = q[i]
OBVIOUS

LinesIn(t, src, B, R) ==
  LET lines == <<t>> \o B \o R \o <<src, "footer">>
      n == Len(B) + Len(R) + 3 IN
  /\ lines \in Seq(Lines) /\ Len(lines) = n
  /\ lines[1] = t /\ lines[n - 1] = src /\ lines[n] = "footer"
  /\ \A i \in 2..(Len(B) + 1) : lines[i] = B[i - 1]
  /\ \A i \in (Len(B) + 2)..(n - 2) : lines[i] = R[i - (Len(B) + 1)]

LEMMA LinesInPlace ==
  ASSUME NEW t \in TitleLines, NEW src \in SourceLines, NEW B \in Seq(Inner), NEW R \in Seq(Inner)
  PROVE  LinesIn(t, src, B, R)
<1> DEFINE head == <<t>> \o B
           most == head \o R
           tail == <<src, "footer">>
           lines == most \o tail
           n == Len(B) + Len(R) + 3
<1>1. /\ B \in Seq(Lines) /\ R \in Seq(Lines) /\ <<t>> \in Seq(Lines)
      /\ <<src, "footer">> \in Seq(Lines) /\ Len(B) \in Nat /\ Len(R) \in Nat
  BY DEF Lines
<1>2. /\ head \in Seq(Lines) /\ Len(head) = Len(B) + 1 /\ head[1] = t
      /\ \A i \in 2..(Len(B) + 1) : head[i] = B[i - 1]
  BY <1>1
<1> HIDE DEF head
<1>3. /\ most \in Seq(Lines) /\ Len(most) = Len(B) + Len(R) + 1
      /\ \A i \in 1..(Len(B) + 1) : most[i] = head[i]
      /\ \A i \in (Len(B) + 2)..(Len(B) + 1 + Len(R)) : most[i] = R[i - (Len(B) + 1)]
  BY <1>1, <1>2
<1> HIDE DEF most
<1>a. Len(tail) = 2 /\ tail[1] = src /\ tail[2] = "footer" /\ tail \in Seq(Lines)
  BY <1>1
<1> HIDE DEF tail
<1>4. /\ lines \in Seq(Lines) /\ Len(lines) = n
      /\ \A i \in 1..(n - 2) : lines[i] = most[i]
      /\ lines[n - 1] = src /\ lines[n] = "footer"
  <2>1. most \in Seq(Lines) /\ tail \in Seq(Lines)
    BY <1>a, <1>3
  <2>2. /\ lines \in Seq(Lines) /\ Len(lines) = Len(most) + Len(tail)
        /\ \A i \in 1..Len(most) : lines[i] = most[i]
        /\ \A i \in 1..Len(tail) : lines[Len(most) + i] = tail[i]
    BY <2>1, Joined
  <2> HIDE DEF lines
  <2>3. Len(most) = Len(B) + Len(R) + 1 /\ Len(B) \in Nat /\ Len(R) \in Nat
    BY <1>1, <1>3
  <2>4. lines[Len(most) + 1] = tail[1] /\ lines[Len(most) + 2] = tail[2]
    BY <1>a, <2>2
  <2> QED BY <1>a, <2>2, <2>3, <2>4
<1> HIDE DEF lines
<1>5. /\ lines[1] = t
      /\ \A i \in 2..(Len(B) + 1) : lines[i] = B[i - 1]
      /\ \A i \in (Len(B) + 2)..(n - 2) : lines[i] = R[i - (Len(B) + 1)]
  BY <1>1, <1>2, <1>3, <1>4
<1> QED BY <1>4, <1>5 DEF LinesIn, lines, most, head, tail

\* What render cuts to the length of a message.
Uncut(item) ==
  LET words == rehearsal!shared_translation(item) IN
  <<rehearsal!TitleLine(words.title)>>
  \o (IF words.body = <<>> THEN <<>> ELSE <<"blank">> \o rehearsal!Escape(words.body))
  \o (IF item.tags = 0 THEN <<>> ELSE <<"blank", "related">>)
  \o <<rehearsal!SourceLine(item), "footer">>

LEMMA ItemParts ==
  ASSUME NEW item \in rehearsal!Items
  PROVE  /\ rehearsal!shared_translation(item).body \in Seq(BodyLines)
         /\ rehearsal!TitleLine(rehearsal!shared_translation(item).title) \in TitleLines
         /\ rehearsal!SourceLine(item) \in SourceLines
         /\ item.tags \in {0, 2}
         /\ item.stamp => rehearsal!SourceLine(item) \in rehearsal!Sources
<1>1. /\ item.title \in {"empty", "words", "markdown"} /\ item.title_ko \in {None, "empty", "words"}
      /\ item.summary \in Bodies /\ item.summary_ko \in {None} \cup Bodies
      /\ item.tags \in {0, 2} /\ item.stamp \in BOOLEAN
  BY DEF rehearsal!Items
<1>2. Bodies \subseteq Seq(BodyLines)
  BY RehearsalAssumption DEF RehearsalAssumption
<1>3. rehearsal!shared_translation(item).body \in Seq(BodyLines)
  BY <1>1, <1>2 DEF rehearsal!shared_translation, rehearsal!Or
<1>4. rehearsal!shared_translation(item).title \in {"empty", "words", "markdown"}
  BY <1>1 DEF rehearsal!shared_translation, rehearsal!Or
<1>5. rehearsal!TitleLine(rehearsal!shared_translation(item).title) \in TitleLines
  BY <1>4 DEF rehearsal!TitleLine, TitleLines
<1>6. /\ rehearsal!SourceLine(item) \in SourceLines
      /\ item.stamp => rehearsal!SourceLine(item) \in rehearsal!Sources
  BY <1>1 DEF rehearsal!SourceLine, SourceLines, rehearsal!Sources
<1> QED BY <1>1, <1>3, <1>5, <1>6

LEMMA EscapedBody ==
  ASSUME NEW body \in Seq(BodyLines)
  PROVE  /\ rehearsal!Escape(body) \in Seq(Inner)
         /\ Len(rehearsal!Escape(body)) = Len(body)
         /\ \A i \in 1..Len(body) : body[i] \in {"text", "blank"} =>
              rehearsal!Escape(body)[i] \in {"text", "blank"}
<1>1. Len(body) \in Nat /\ DOMAIN body = 1..Len(body)
  OBVIOUS
<1>2. rehearsal!Escape(body) \in [1..Len(body) -> Inner]
  <2>1. ASSUME NEW i \in 1..Len(body)
        PROVE  (IF body[i] \in {"source", "footer"} THEN "text" ELSE body[i]) \in Inner
    <3>1. body[i] \in BodyLines
      BY <1>1
    <3>2. "text" \in Inner
      BY DEF Inner, BodyLines
    <3> QED BY <3>1, <3>2 DEF Inner
  <2> QED BY <1>1, <2>1 DEF rehearsal!Escape
<1>3. \A i \in 1..Len(body) : body[i] \in {"text", "blank"} =>
        rehearsal!Escape(body)[i] \in {"text", "blank"}
  BY <1>1 DEF rehearsal!Escape
<1> HIDE DEF rehearsal!Escape
<1> QED BY <1>1, <1>2, <1>3

(* The lines of a message before it is cut. *)
LEMMA UncutLines ==
  ASSUME NEW item \in rehearsal!Items
  PROVE  LET lines == Uncut(item)
             n == Len(lines)
             words == rehearsal!shared_translation(item) IN
         /\ lines \in Seq(Lines) /\ n \in Nat /\ n >= 3
         /\ lines[1] = rehearsal!TitleLine(words.title)
         /\ lines[n - 1] = rehearsal!SourceLine(item) /\ lines[n] = "footer"
         /\ \A i \in 2..(n - 2) : lines[i] \in Inner
         /\ item.tags > 0 => n >= 5 /\ lines[n - 2] = "related"
         /\ rehearsal!Whole(item) => /\ n <= LINK_CHARS
                                     /\ \A i \in 2..(n - 3) : lines[i] \in {"text", "blank"}
<1> DEFINE words == rehearsal!shared_translation(item)
           t == rehearsal!TitleLine(words.title)
           src == rehearsal!SourceLine(item)
           E == rehearsal!Escape(words.body)
           B == IF words.body = <<>> THEN <<>> ELSE <<"blank">> \o E
           R == IF item.tags = 0 THEN <<>> ELSE <<"blank", "related">>
           lines == Uncut(item)
           n == Len(B) + Len(R) + 3
<1>1. /\ words.body \in Seq(BodyLines) /\ t \in TitleLines /\ src \in SourceLines
      /\ item.tags \in {0, 2} /\ LINK_CHARS \in Nat
  BY ItemParts, RehearsalAssumption DEF RehearsalAssumption
<1>2. lines = <<t>> \o B \o R \o <<src, "footer">>
  BY DEF Uncut
<1> DEFINE body == words.body
<1>3. /\ E \in Seq(Inner) /\ Len(E) = Len(body) /\ Len(body) \in Nat
      /\ \A i \in 1..Len(body) : body[i] \in {"text", "blank"} => E[i] \in {"text", "blank"}
  BY <1>1, EscapedBody
<1>4. rehearsal!Whole(item) => /\ item.tags > 0 /\ Len(body) + 6 <= LINK_CHARS
                               /\ \A i \in 1..Len(body) : body[i] \in {"text", "blank"}
  BY <1>1 DEF rehearsal!Whole
<1> HIDE DEF E, body
<1>5. /\ B \in Seq(Inner) /\ Len(B) <= Len(body) + 1 /\ Len(B) \in Nat
      /\ (\A i \in 1..Len(body) : body[i] \in {"text", "blank"}) =>
           \A i \in 1..Len(B) : B[i] \in {"text", "blank"}
  <2>1. CASE words.body = <<>>
    BY <1>3, <2>1
  <2>2. CASE words.body # <<>>
    <3>1. B = <<"blank">> \o E
      BY <2>2
    <3>2. "blank" \in Inner
      BY DEF Inner, BodyLines
    <3> HIDE DEF B
    <3>3. /\ B \in Seq(Inner) /\ Len(B) = Len(E) + 1 /\ B[1] = "blank"
          /\ \A i \in 2..Len(B) : B[i] = E[i - 1]
      BY <1>3, <3>1, <3>2
    <3>4. ASSUME \A i \in 1..Len(body) : body[i] \in {"text", "blank"}, NEW i \in 1..Len(B)
          PROVE  B[i] \in {"text", "blank"}
      <4>1. CASE i = 1
        BY <3>3, <4>1
      <4>2. CASE i # 1
        <5>1. B[i] = E[i - 1] /\ i - 1 \in 1..Len(body)
          BY <1>3, <3>3, <4>2
        <5> QED BY <1>3, <3>4, <5>1
      <4> QED BY <4>1, <4>2
    <3> QED BY <1>3, <3>3, <3>4
  <2> QED BY <2>1, <2>2
<1>6. /\ R \in Seq(Inner) /\ Len(R) \in Nat /\ Len(R) <= 2
      /\ item.tags > 0 => Len(R) = 2 /\ R[1] = "blank" /\ R[2] = "related"
  <2>0. "blank" \in Inner /\ "related" \in Inner
    BY DEF Inner, BodyLines
  <2>1. CASE item.tags = 0
    BY <2>1
  <2>2. CASE item.tags # 0
    <3>1. R = <<"blank", "related">>
      BY <2>2
    <3> QED BY <2>0, <3>1
  <2> QED BY <2>1, <2>2
<1> HIDE DEF B, R, t, src, words
<1>7. /\ lines \in Seq(Lines) /\ Len(lines) = n
      /\ lines[1] = t /\ lines[n - 1] = src /\ lines[n] = "footer"
      /\ \A i \in 2..(Len(B) + 1) : lines[i] = B[i - 1]
      /\ \A i \in (Len(B) + 2)..(n - 2) : lines[i] = R[i - (Len(B) + 1)]
  <2> HIDE DEF lines
  <2>1. B \in Seq(Inner) /\ R \in Seq(Inner) /\ t \in TitleLines /\ src \in SourceLines
    BY <1>1, <1>5, <1>6
  <2>2. LinesIn(t, src, B, R)
    BY <2>1, LinesInPlace
  <2> QED BY <1>2, <2>2 DEF LinesIn
<1> HIDE DEF lines
<1>8. ASSUME NEW i \in 2..(n - 2) PROVE lines[i] \in Inner
  <2>1. CASE i \in 2..(Len(B) + 1)
    BY <1>5, <1>7, <2>1
  <2>2. CASE i \in (Len(B) + 2)..(n - 2)
    BY <1>5, <1>6, <1>7, <2>2
  <2> QED BY <1>5, <1>6, <2>1, <2>2
<1>9. item.tags > 0 => n >= 5 /\ lines[n - 2] = "related"
  BY <1>5, <1>6, <1>7
<1>10. rehearsal!Whole(item) => /\ n <= LINK_CHARS
                                /\ \A i \in 2..(n - 3) : lines[i] \in {"text", "blank"}
  <2> SUFFICES ASSUME rehearsal!Whole(item)
      PROVE  n <= LINK_CHARS /\ \A i \in 2..(n - 3) : lines[i] \in {"text", "blank"}
    OBVIOUS
  <2>1. n <= LINK_CHARS
    BY <1>1, <1>3, <1>4, <1>5, <1>6
  <2>2. ASSUME NEW i \in 2..(n - 3) PROVE lines[i] \in {"text", "blank"}
    <3>1. CASE i \in 2..(Len(B) + 1)
      BY <1>4, <1>5, <1>7, <3>1
    <3>2. CASE i = Len(B) + 2
      <4>1. i \in (Len(B) + 2)..(n - 2) /\ i - (Len(B) + 1) = 1
        BY <1>4, <1>5, <1>6, <3>2
      <4>2. lines[i] = R[1]
        BY <1>7, <4>1
      <4> QED BY <1>4, <1>6, <4>2
    <3> QED BY <1>4, <1>5, <1>6, <3>1, <3>2
  <2> QED BY <2>1, <2>2
<1>11. n \in Nat /\ n >= 3
  BY <1>5, <1>6
<1> HIDE DEF n
<1> QED BY <1>7, <1>8, <1>9, <1>10, <1>11 DEF lines, t, src, words

(* What the shape check reports of a message that is not empty, problem by problem. *)
LEMMA ProblemsOf ==
  ASSUME NEW text \in Seq(Lines), text # <<>>
  PROVE  LET found == rehearsal!validate_post(text) IN
         /\ "length" \in found <=> Len(text) > LINK_CHARS
         /\ "title" \in found <=> text[1] # "titled"
         /\ "note" \in found <=> rehearsal!At(text, {"note"}) # {}
         /\ "related" \in found <=> Cardinality(rehearsal!At(text, {"related"})) # 1
         /\ "source" \in found <=> Cardinality(rehearsal!At(text, rehearsal!Sources)) # 1
         /\ "footer" \in found <=> text[Len(text)] # "footer"
         /\ "banned" \in found <=> rehearsal!At(text, rehearsal!Banned) # {}
<1> DEFINE found == rehearsal!validate_post(text)
           related == rehearsal!At(text, {"related"})
           source == rehearsal!At(text, rehearsal!Sources)
<1>1. /\ rehearsal!Cardinality(related) = Cardinality(related)
      /\ rehearsal!Cardinality(source) = Cardinality(source)
  BY DEF rehearsal!Cardinality, Cardinality
<1>2. Head(text) = text[1] /\ rehearsal!Last(text) = text[Len(text)]
  BY DEF rehearsal!Last
<1> HIDE DEF rehearsal!At, rehearsal!Sources, rehearsal!Banned
<1>3. "length" \in found <=> Len(text) > LINK_CHARS
  BY DEF rehearsal!validate_post
<1>4. "title" \in found <=> text[1] # "titled"
  BY <1>2 DEF rehearsal!validate_post
<1>5. "note" \in found <=> rehearsal!At(text, {"note"}) # {}
  BY DEF rehearsal!validate_post
<1>6. "related" \in found <=> Cardinality(related) # 1
  BY <1>1 DEF rehearsal!validate_post
<1>7. "source" \in found <=> Cardinality(source) # 1
  BY <1>1 DEF rehearsal!validate_post
<1>8. "footer" \in found <=> text[Len(text)] # "footer"
  BY <1>2 DEF rehearsal!validate_post
<1>9. "banned" \in found <=> rehearsal!At(text, rehearsal!Banned) # {}
  BY DEF rehearsal!validate_post
<1> QED BY <1>3, <1>4, <1>5, <1>6, <1>7, <1>8, <1>9

(* A message on which all of this is in order, and its tags before its source, has no problem. *)
LEMMA NoProblems ==
  ASSUME NEW text \in Seq(Lines), text # <<>>,
         Len(text) <= LINK_CHARS, text[1] = "titled", text[Len(text)] = "footer",
         rehearsal!At(text, {"note"}) = {}, rehearsal!At(text, rehearsal!Banned) = {},
         NEW r \in Nat, rehearsal!At(text, {"related"}) = {r},
         NEW s \in Nat, rehearsal!At(text, rehearsal!Sources) = {s}, r < s
  PROVE  rehearsal!validate_post(text) = {}
<1> DEFINE found == rehearsal!validate_post(text)
<1>1. Cardinality({r}) = 1 /\ Cardinality({s}) = 1
  BY FS_Singleton
<1>2. {"length", "title", "note", "related", "source", "footer", "banned"} \cap found = {}
  <2> HIDE DEF rehearsal!validate_post, rehearsal!At, rehearsal!Sources, rehearsal!Banned
  <2>1. /\ "title" \notin found /\ "note" \notin found /\ "related" \notin found
        /\ "source" \notin found /\ "footer" \notin found /\ "banned" \notin found
        /\ "length" \in found <=> Len(text) > LINK_CHARS
    BY <1>1, ProblemsOf
  <2>2. ~(Len(text) > LINK_CHARS)
    BY RehearsalAssumption DEF RehearsalAssumption
  <2> HIDE DEF found
  <2> QED BY <2>1, <2>2
<1>3. "order" \notin found
  <2> HIDE DEF rehearsal!At, rehearsal!Sources
  <2>1. ~ \E i \in rehearsal!At(text, {"related"}), j \in rehearsal!At(text, rehearsal!Sources) :
            /\ \A k \in rehearsal!At(text, {"related"}) : i <= k
            /\ \A k \in rehearsal!At(text, rehearsal!Sources) : j <= k
            /\ i >= j
    OBVIOUS
  <2> QED BY <2>1 DEF rehearsal!validate_post
<1>4. found \subseteq {"length", "title", "note", "related", "source", "footer", "order", "banned"}
  BY DEF rehearsal!validate_post
<1> HIDE DEF found
<1>5. found = {}
  BY <1>2, <1>3, <1>4
<1> QED BY <1>5 DEF found

(* The message as it is sent: cut to the length it may have. *)
LEMMA Cut ==
  ASSUME NEW item \in rehearsal!Items
  PROVE  LET text == rehearsal!render(item)
             n == Len(Uncut(item))
             k == IF n < LINK_CHARS THEN n ELSE LINK_CHARS IN
         /\ text \in Seq(Lines) /\ Len(text) = k
         /\ \A i \in 1..k : text[i] = Uncut(item)[i]
<1> DEFINE lines == Uncut(item)
           n == Len(lines)
           k == IF n < LINK_CHARS THEN n ELSE LINK_CHARS
<1>1. lines \in Seq(Lines) /\ n \in Nat /\ LINK_CHARS \in Nat
  BY UncutLines, RehearsalAssumption DEF RehearsalAssumption
<1>2. rehearsal!render(item) = SubSeq(lines, 1, k)
  BY DEF rehearsal!render, Uncut
<1> HIDE DEF lines
<1>3. k \in 0..n
  BY <1>1
<1> HIDE DEF k
<1>4. /\ SubSeq(lines, 1, k) \in Seq(Lines) /\ Len(SubSeq(lines, 1, k)) = k
      /\ \A i \in 1..k : SubSeq(lines, 1, k)[i] = lines[i]
  BY <1>1, <1>3
<1> QED BY <1>2, <1>4 DEF k, lines

(* A message without a problem is whole: it was not cut, and every line is where it belongs. *)
LEMMA CleanIsWhole ==
  ASSUME NEW item \in rehearsal!Items, rehearsal!validate_post(rehearsal!render(item)) = {}
  PROVE  LET text == rehearsal!render(item)
             n == Len(text) IN
         /\ text[1] = "titled" /\ text[n] = "footer"
         /\ text[n - 1] = rehearsal!SourceLine(item)
         /\ \E r \in 2..(n - 2) :
              /\ text[r] = "related" /\ (item.tags > 0 => r = n - 2)
              /\ \A i \in 2..(n - 2) : i = r \/ text[i] \in {"text", "blank"}
<1> DEFINE text == rehearsal!render(item)
           lines == Uncut(item)
           n == Len(lines)
           k == IF n < LINK_CHARS THEN n ELSE LINK_CHARS
           words == rehearsal!shared_translation(item)
           src == rehearsal!SourceLine(item)
<1>1. LINK_CHARS \in Nat
  BY RehearsalAssumption DEF RehearsalAssumption
<1>2. /\ lines \in Seq(Lines) /\ n \in Nat /\ n >= 3
      /\ lines[1] = rehearsal!TitleLine(words.title)
      /\ lines[n - 1] = src /\ lines[n] = "footer"
      /\ \A i \in 2..(n - 2) : lines[i] \in Inner
      /\ item.tags > 0 => n >= 5 /\ lines[n - 2] = "related"
  BY UncutLines
<1>3. text \in Seq(Lines) /\ Len(text) = k /\ \A i \in 1..k : text[i] = lines[i]
  BY Cut
<1>4. rehearsal!TitleLine(words.title) \in TitleLines /\ src \in SourceLines
  BY ItemParts
<1>5. text # <<>>
  BY DEF rehearsal!validate_post
<1>6. /\ text[1] = "titled" /\ rehearsal!At(text, {"note"}) = {}
      /\ Cardinality(rehearsal!At(text, {"related"})) = 1
      /\ text[Len(text)] = "footer" /\ rehearsal!At(text, rehearsal!Banned) = {}
  <2> HIDE DEF text
  <2>1. rehearsal!validate_post(text) = {}
    BY DEF text
  <2> HIDE DEF rehearsal!validate_post, rehearsal!At
  <2> QED BY <1>3, <1>5, <2>1, ProblemsOf
<1> HIDE DEF text, lines, words, src
<1>7. k \in 1..n
  BY <1>1, <1>2, <1>3, <1>5
<1>8. k = n
  <2> SUFFICES ASSUME k # n PROVE FALSE
    OBVIOUS
  <2>1. k \in 1..(n - 1) /\ lines[k] = "footer"
    BY <1>3, <1>6, <1>7
  <2>2. CASE k = 1
    BY <1>2, <1>4, <2>1, <2>2 DEF TitleLines
  <2>3. CASE k \in 2..(n - 2)
    BY <1>2, <2>1, <2>3 DEF Inner
  <2>4. CASE k = n - 1
    BY <1>2, <1>4, <2>1, <2>4 DEF SourceLines
  <2> QED BY <1>2, <2>1, <2>2, <2>3, <2>4
<1> HIDE DEF k
<1>9. Len(text) = n /\ \A i \in 1..n : text[i] = lines[i]
  BY <1>3, <1>8
<1> HIDE DEF n
<1>10. PICK r : rehearsal!At(text, {"related"}) = {r}
  <2> DEFINE A == rehearsal!At(text, {"related"})
  <2>1. A \subseteq 1..n
    BY <1>3, <1>9 DEF rehearsal!At
  <2>2. IsFiniteSet(A)
    <3>1. IsFiniteSet(1..n)
      BY <1>2, FS_Interval
    <3> HIDE DEF A
    <3> QED BY <2>1, <3>1, FS_Subset
  <2> HIDE DEF A
  <2>3. Cardinality(A) = 1
    BY <1>6 DEF A
  <2>4. \E x : A = {x}
    BY <2>2, <2>3, FS_Singleton
  <2> QED BY <2>4 DEF A
<1>11. r \in 1..n /\ text[r] = "related" /\ \A i \in 1..n : text[i] = "related" => i = r
  BY <1>3, <1>9, <1>10 DEF rehearsal!At
<1>12. \A i \in 1..n : text[i] # "note" /\ text[i] # "raw_source"
  BY <1>3, <1>6, <1>9 DEF rehearsal!At, rehearsal!Banned
<1>13. text[n] = "footer" /\ text[n - 1] = src
  BY <1>2, <1>9
<1>14. r \in 2..(n - 2)
  BY <1>2, <1>4, <1>6, <1>11, <1>13 DEF SourceLines
<1>15. item.tags > 0 => r = n - 2
  BY <1>2, <1>9, <1>11
<1>16. ASSUME NEW i \in 2..(n - 2), i # r PROVE text[i] \in {"text", "blank"}
  <2>1. i \in 1..n /\ text[i] \in Inner
    BY <1>2, <1>9, <1>16
  <2>2. text[i] # "related" /\ text[i] # "note" /\ text[i] # "raw_source"
    BY <1>11, <1>12, <1>16, <2>1
  <2> QED BY <2>1, <2>2 DEF Inner, BodyLines
<1> QED BY <1>6, <1>9, <1>11, <1>13, <1>14, <1>15, <1>16 DEF text, src

(* A complete story that fits and imitates no line of the shape is not refused. *)
LEMMA WholeIsClean ==
  ASSUME NEW item \in rehearsal!Items, rehearsal!Whole(item)
  PROVE  rehearsal!validate_post(rehearsal!render(item)) = {}
<1> DEFINE text == rehearsal!render(item)
           lines == Uncut(item)
           n == Len(lines)
           words == rehearsal!shared_translation(item)
           src == rehearsal!SourceLine(item)
<1>1. /\ words.title = "words" /\ item.tags > 0 /\ item.stamp
  BY DEF rehearsal!Whole
<1>2. /\ lines \in Seq(Lines) /\ n \in Nat /\ n >= 3
      /\ lines[1] = rehearsal!TitleLine(words.title)
      /\ lines[n - 1] = src /\ lines[n] = "footer"
      /\ n >= 5 /\ lines[n - 2] = "related"
      /\ n <= LINK_CHARS /\ \A i \in 2..(n - 3) : lines[i] \in {"text", "blank"}
  BY <1>1, UncutLines
<1>3. LINK_CHARS \in Nat
  BY RehearsalAssumption DEF RehearsalAssumption
<1>4. lines[1] = "titled"
  BY <1>1, <1>2 DEF rehearsal!TitleLine
<1>5. src \in {"source", "source_unverified"}
  BY <1>1, ItemParts DEF rehearsal!Sources
<1>6. /\ text \in Seq(Lines)
      /\ Len(text) = IF n < LINK_CHARS THEN n ELSE LINK_CHARS
      /\ \A i \in 1..(IF n < LINK_CHARS THEN n ELSE LINK_CHARS) : text[i] = lines[i]
  BY Cut
<1>7. (IF n < LINK_CHARS THEN n ELSE LINK_CHARS) = n
  BY <1>2, <1>3
<1>8. text \in Seq(Lines) /\ Len(text) = n /\ \A i \in 1..n : text[i] = lines[i]
  BY <1>6, <1>7
<1> HIDE DEF text, lines, words, src, n
<1>9. \A i \in 1..n :
        \/ (i = 1 /\ text[i] = "titled")
        \/ (i = n /\ text[i] = "footer")
        \/ (i = n - 1 /\ text[i] = src)
        \/ (i = n - 2 /\ text[i] = "related")
        \/ (i \in 2..(n - 3) /\ text[i] \in {"text", "blank"})
  BY <1>2, <1>4, <1>8
<1>10. text # <<>> /\ DOMAIN text = 1..n
  BY <1>2, <1>8
<1>11. /\ rehearsal!At(text, {"note"}) = {} /\ rehearsal!At(text, rehearsal!Banned) = {}
       /\ rehearsal!At(text, {"related"}) = {n - 2}
       /\ rehearsal!At(text, rehearsal!Sources) = {n - 1}
  <2>1. ASSUME NEW i \in 1..n
        PROVE  /\ text[i] # "note" /\ text[i] \notin rehearsal!Banned
               /\ text[i] = "related" <=> i = n - 2
               /\ text[i] \in rehearsal!Sources <=> i = n - 1
    BY <1>2, <1>5, <1>9 DEF rehearsal!Banned, rehearsal!Sources
  <2>2. n - 2 \in 1..n /\ n - 1 \in 1..n
    BY <1>2
  <2> HIDE DEF rehearsal!Banned, rehearsal!Sources
  <2> QED BY <1>10, <2>1, <2>2 DEF rehearsal!At
<1>12. n - 2 \in Nat /\ n - 1 \in Nat /\ n - 2 < n - 1
  BY <1>2
<1>13. text[1] = "titled" /\ text[Len(text)] = "footer" /\ Len(text) <= LINK_CHARS
  BY <1>2, <1>4, <1>8
<1> HIDE DEF rehearsal!At, rehearsal!Banned, rehearsal!Sources, rehearsal!validate_post
<1>14. rehearsal!validate_post(text) = {}
  BY <1>8, <1>10, <1>11, <1>12, <1>13, NoProblems
<1> QED BY <1>14 DEF text

(* A message a dry run printed is the rendering of a story, with what the check finds in it. *)
ShownAsRendered ==
  rehearsal_shown # None /\ rehearsal_shown.item # None =>
    \E item \in rehearsal!Items :
      rehearsal_shown = [item |-> item, text |-> rehearsal!render(item),
                         problems |-> rehearsal!validate_post(rehearsal!render(item))]

LEMMA ShownIsShapely == ASSUME ShownAsRendered PROVE rehearsal!Shapely
<1> SUFFICES ASSUME rehearsal_shown # None, rehearsal_shown.item # None
    PROVE  LET text == rehearsal_shown.text
               n == Len(text) IN
           /\ rehearsal_shown.problems = {} =>
                /\ text[1] = "titled" /\ text[n] = "footer"
                /\ text[n - 1] = rehearsal!SourceLine(rehearsal_shown.item)
                /\ \E r \in 2..(n - 2) :
                     /\ text[r] = "related" /\ (rehearsal_shown.item.tags > 0 => r = n - 2)
                     /\ \A i \in 2..(n - 2) : i = r \/ text[i] \in {"text", "blank"}
           /\ rehearsal!Whole(rehearsal_shown.item) => rehearsal_shown.problems = {}
  BY DEF rehearsal!Shapely
<1>1. PICK item \in rehearsal!Items :
        rehearsal_shown = [item |-> item, text |-> rehearsal!render(item),
                           problems |-> rehearsal!validate_post(rehearsal!render(item))]
  BY DEF ShownAsRendered
<1>2. /\ rehearsal_shown.item = item /\ rehearsal_shown.text = rehearsal!render(item)
      /\ rehearsal_shown.problems = rehearsal!validate_post(rehearsal!render(item))
  BY <1>1
<1>3. rehearsal!Whole(item) => rehearsal!validate_post(rehearsal!render(item)) = {}
  BY WholeIsClean
<1>4. rehearsal!validate_post(rehearsal!render(item)) = {} =>
        LET text == rehearsal!render(item)
            n == Len(text) IN
        /\ text[1] = "titled" /\ text[n] = "footer"
        /\ text[n - 1] = rehearsal!SourceLine(item)
        /\ \E r \in 2..(n - 2) :
             /\ text[r] = "related" /\ (item.tags > 0 => r = n - 2)
             /\ \A i \in 2..(n - 2) : i = r \/ text[i] \in {"text", "blank"}
  BY CleanIsWhole
<1> QED BY <1>2, <1>3, <1>4

RehearsalInv == ReplayInv /\ ShownAsRendered

LEMMA RehearsalStarts == ASSUME rehearsal!Init PROVE RehearsalInv
<1>0. /\ PastHour \in Nat /\ PastHour > 0 /\ PastCap \in Nat
  BY RehearsalAssumption DEF RehearsalAssumption
<1>1. /\ rehearsal_now = 0 /\ rehearsal_taken = {} /\ rehearsal_last = None
      /\ rehearsal_last_recap = None /\ rehearsal_hour_anchor = 0 /\ rehearsal_hour_count = 0
      /\ rehearsal_out = <<>> /\ rehearsal_shown = None
  BY DEF rehearsal!Init
<1>2. RehearsalType
  BY <1>1 DEF RehearsalType, Listing
<1>3. Cardinality({}) = 0
  BY FS_EmptySet
<1>4. ASSUME NEW a, NEW b PROVE Cardinality(Between(rehearsal_out, a, b)) = 0
  <2>1. Between(rehearsal_out, a, b) = {}
    BY <1>1 DEF Between
  <2> QED BY <1>3, <2>1
<1>5. Hours
  BY <1>0, <1>1, <1>4 DEF Hours
<1>6. HoursCapped
  BY <1>0, <1>4 DEF HoursCapped
<1>7. /\ \A i \in 1..Len(rehearsal_out) : IsRemembered(i)
      /\ SpacedFromBefore /\ AllApart
  BY <1>1 DEF SpacedFromBefore, AllApart
<1> QED BY <1>1, <1>2, <1>5, <1>6, <1>7 DEF RehearsalInv, ReplayInv, ShownAsRendered

LEMMA RehearsalSteps ==
  ASSUME RehearsalInv, [rehearsal!Next]_rehearsalVars
  PROVE  RehearsalInv'
<1>1. ASSUME UNCHANGED rehearsal_shown PROVE ShownAsRendered'
  <2> DEFINE Printed(item) ==
        [item |-> item, text |-> rehearsal!render(item),
         problems |-> rehearsal!validate_post(rehearsal!render(item))]
  <2>1. ShownAsRendered <=> (rehearsal_shown # None /\ rehearsal_shown.item # None =>
          \E item \in rehearsal!Items : rehearsal_shown = Printed(item))
    BY DEF ShownAsRendered
  <2>2. ShownAsRendered' <=> (rehearsal_shown' # None /\ rehearsal_shown'.item # None =>
          \E item \in rehearsal!Items : rehearsal_shown' = Printed(item))
    BY DEF ShownAsRendered, rehearsal!Items
  <2> HIDE DEF Printed
  <2> QED BY <1>1, <2>1, <2>2 DEF RehearsalInv
<1>2. ASSUME UNCHANGED <<rehearsal_now, rehearsal_todo, rehearsal_taken, rehearsal_keys,
                         rehearsal_events, rehearsal_last, rehearsal_last_recap,
                         rehearsal_hour_anchor, rehearsal_hour_count, rehearsal_out>>
      PROVE  ReplayInv'
  <2>1. RehearsalType' /\ Hours' /\ HoursCapped'
    BY <1>2 DEF RehearsalInv, ReplayInv, RehearsalType, Listing, Hours, HoursCapped, Between
  <2>2. SpacedFromBefore' /\ AllApart' /\ rehearsal_todo' \cap rehearsal_taken' = {}
    BY <1>2 DEF RehearsalInv, ReplayInv, SpacedFromBefore, AllApart, Apart
  <2>3. ASSUME NEW i \in 1..Len(rehearsal_out') PROVE IsRemembered(i)'
    BY <1>2 DEF RehearsalInv, ReplayInv, IsRemembered
  <2> QED BY <2>1, <2>2, <2>3 DEF ReplayInv
<1>3. ASSUME NEW s \in PastStories, rehearsal!Visit(s) PROVE RehearsalInv'
  <2>1. UNCHANGED rehearsal_shown
    BY <1>3 DEF rehearsal!Visit
  <2> QED BY <1>1, <1>3, <2>1, StoryVisited DEF RehearsalInv
<1>4. CASE rehearsal!NextMinute
  <2>1. UNCHANGED rehearsal_shown
    BY <1>4 DEF rehearsal!NextMinute
  <2> QED BY <1>1, <1>4, <2>1, MinuteWalked DEF RehearsalInv
<1>5. ASSUME NEW item \in rehearsal!Items, rehearsal!DryRun(item) PROVE RehearsalInv'
  <2>1. rehearsal_shown' = [item |-> item, text |-> rehearsal!render(item),
                            problems |-> rehearsal!validate_post(rehearsal!render(item))]
    BY <1>5 DEF rehearsal!DryRun
  <2>2. ShownAsRendered'
    BY <2>1 DEF ShownAsRendered, rehearsal!Items
  <2> QED BY <1>2, <1>5, <2>2 DEF rehearsal!DryRun, rehearsal!walk, RehearsalInv
<1>6. ASSUME NEW text, rehearsal!ShapeCheck(text) PROVE RehearsalInv'
  <2>1. rehearsal_shown'.item = None
    BY <1>6 DEF rehearsal!ShapeCheck
  <2>2. ShownAsRendered'
    BY <2>1 DEF ShownAsRendered
  <2> QED BY <1>2, <1>6, <2>2 DEF rehearsal!ShapeCheck, rehearsal!walk, RehearsalInv
<1>7. CASE UNCHANGED rehearsalVars
  BY <1>1, <1>2, <1>7 DEF rehearsalVars, RehearsalInv
<1> QED BY <1>3, <1>4, <1>5, <1>6, <1>7 DEF rehearsal!Next

LEMMA RehearsalLane == [LaneNext]_allVars => [rehearsal!Next]_rehearsalVars
BY DEF LaneNext, allVars, PushStep, ProfilesStep, ComposerStep, RehearsalStep, rehearsal!Next

(***************************************************************************)
(* A replay keeps the pacing it is read for, over a window of any length   *)
(* and any stories; and a message a dry run finds nothing wrong with is    *)
(* whole, whatever the body of its story (deploy/tg_push.py).              *)
(***************************************************************************)
THEOREM RehearsalsTell == LaneSpec => []RehearsalTells
<1>1. rehearsal!Init => RehearsalInv
  BY RehearsalStarts
<1>2. RehearsalInv /\ [rehearsal!Next]_rehearsalVars => RehearsalInv'
  BY RehearsalSteps
<1>3. RehearsalInv => RehearsalTells
  BY ReplayPaced, ShownIsShapely DEF RehearsalInv, RehearsalTells
<1>4. LaneInit => rehearsal!Init
  BY DEF LaneInit
<1> QED BY <1>1, <1>2, <1>3, <1>4, RehearsalLane, PTL DEF LaneSpec

=============================================================================
