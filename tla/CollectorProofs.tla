-------------------------- MODULE CollectorProofs --------------------------
(***************************************************************************)
(* Proofs about Collector, for any copies, links, headlines and windows.   *)
(*                                                                         *)
(* What a cycle has in hand is compared with the table in one step and     *)
(* inserted in a later one, with time passing in between.  The invariant   *)
(* says what the comparison is still worth then: a copy in hand shares no  *)
(* identity with a row of its tab's window (Compared) nor with another     *)
(* copy in hand (Apart).  The window only ever loses rows, and nobody else *)
(* inserts, so both survive until Store.                                   *)
(***************************************************************************)
EXTENDS Collector, TLAPS

Batched == phase \in {"compare", "store"}

Same(c, names, d, others) == SameKey(KeyOf(c, names), KeyOf(d, others)) \/ SamePage(c, d)

Apart ==
  Batched => \A c, d \in hand : c # d /\ SameTab(c, d) => ~Same(c, freshNamed, d, freshNamed)

Compared ==
  phase = "store" => \A c \in hand, d \in stored :
    SameTab(c, d) /\ InWindow(d) => ~Same(c, freshNamed, d, named)

\* Every copy gathered has its stand-in: in hand, or a row of its tab.
StandsIn(b) ==
  \E d \in stored :
    /\ SameTab(b, d)
    /\ \/ Link[b] = Link[d]
       \/ SameKey(KeyOf(b, freshNamed), KeyOf(d, named))
       \/ SamePageAsRow(b, d)

Covers(c) ==
  \E b \in fresh :
    /\ b = c \/ (SameTab(b, c) /\ Repeats(c, b))
    /\ b \in hand \/ StandsIn(b)

Covered == Batched => \A c \in fresh : Covers(c)

Owed == due <= wait /\ share = Backoff(Counted(failures + 1))

IInv == TypeOK /\ NoTwins /\ Apart /\ Compared /\ Owed

Columns == TypeOK /\ NoTwins /\ Apart /\ Compared

LEMMA Symmetric ==
  /\ \A c, d, names, others : Same(c, names, d, others) => Same(d, others, c, names)
  /\ \A c, d : SameTab(c, d) => SameTab(d, c)
BY DEF Same, SameKey, SamePage, SameTab

\* An exact repetition is one dedupe removes.
LEMMA ExactRepeats ==
  ASSUME NEW c, NEW d, Same(c, freshNamed, d, freshNamed)
  PROVE  Repeats(c, d)
BY DEF Same, SameKey, AlikeKey, Repeats

LEMMA InitIInv == Init => IInv
<1> SUFFICES ASSUME Init PROVE IInv
  OBVIOUS
<1> USE DEF Init
<1>1. TypeOK
  <2>1. 0 \in Ages /\ 0 \in 0 .. Doublings + 1 /\ 1 \in 1 .. MaxBackoff
    BY CollectorAssumption DEF Ages
  <2> QED
    BY <2>1 DEF TypeOK, NoAges
<1>2. NoTwins /\ Apart /\ Compared
  BY DEF NoTwins, Apart, Compared, Batched
<1>3. Owed
  BY CollectorAssumption DEF Owed, Backoff, Counted, Lower, Doubled
<1> QED
  BY <1>1, <1>2, <1>3 DEF IInv

-----------------------------------------------------------------------------
(* Inserting *)

\* Of the copies of one link at most one becomes a row, and none does whose link is a row already.
LEMMA Rows ==
  ASSUME TypeOK, NEW copies \in SUBSET Copies
  PROVE  /\ New(copies) \subseteq copies
         /\ New(copies) \cap stored = {}
         /\ \A c, d \in stored \cup New(copies) : Link[c] = Link[d] => c = d
<1>1. \A c, d \in New(copies) : Link[c] = Link[d] => c = d
  BY CollectorAssumption DEF New, SameTab
<1> QED
  BY <1>1 DEF New, TypeOK

LEMMA InsertTypes ==
  ASSUME TypeOK, NEW copies \in SUBSET Copies, NEW ages \in [Copies -> Ages], NEW names,
         Insert(copies, ages, names)
  PROVE  /\ stored' \subseteq Copies /\ named' \subseteq stored' /\ renamed' \subseteq named'
         /\ age' \in [Copies -> Ages] /\ resolved' \subseteq Links /\ gained' \in BOOLEAN
         /\ \A c, d \in stored' : Link[c] = Link[d] => c = d
<1>1. stored' = stored \cup New(copies)
  BY DEF Insert
<1>2. age' \in [Copies -> Ages]
  BY DEF Insert, TypeOK
<1>3. resolved' \subseteq Links /\ gained' \in BOOLEAN
  BY DEF Insert, TypeOK
<1>4. named' \subseteq stored' /\ renamed' \subseteq named'
  BY DEF Insert, TypeOK
<1> QED
  BY <1>1, <1>2, <1>3, <1>4, Rows DEF TypeOK

\* After an insert a row that the other tab has not renamed reads as it did, or as its own copy
\* of the batch does.
LEMMA Reads ==
  ASSUME TypeOK, NEW copies \in SUBSET Copies, NEW ages, NEW names,
         Insert(copies, ages, names), NEW c \in stored' \ renamed'
  PROVE  \/ c \in stored \ renamed /\ age'[c] = age[c] /\ (c \in named' <=> c \in named)
         \/ /\ c \in copies /\ (c \in named' <=> c \in names)
<1>1. stored' = stored \cup New(copies) /\ New(copies) \subseteq copies /\ New(copies) \cap stored = {}
  BY Rows DEF Insert
<1> DEFINE filled == {d \in stored' : \E b \in copies \cap names : Link[b] = Link[d]}
<1>2. named' = named \cup filled /\ renamed' = renamed \cup (filled \ (named \cup (copies \cap names)))
  BY DEF Insert
<1>3. c \in copies \cap names => c \in filled
  OBVIOUS
<1>4. named \subseteq stored /\ renamed \subseteq named /\ c \in Copies
  BY <1>1 DEF TypeOK
<1>5. CASE c \in New(copies)
  BY <1>1, <1>2, <1>3, <1>4, <1>5
<1>6. CASE c \in stored
  <2>1. age'[c] = age[c]
    BY <1>1, <1>4, <1>6 DEF Insert
  <2> HIDE DEF filled
  <2> QED
    BY <1>2, <1>3, <1>4, <1>6, <2>1
<1> QED
  BY <1>1, <1>5, <1>6

LEMMA StoreColumns == Columns /\ Store => Columns'
<1> SUFFICES ASSUME Columns, Store PROVE Columns'
  OBVIOUS
<1> USE DEF Columns
<1>1. Insert(hand, freshAge, freshNamed) /\ phase' = "close" /\ phase = "store"
  BY DEF Store
<1>2. hand \subseteq Copies /\ freshAge \in [Copies -> Ages]
  BY DEF TypeOK, Ordinary
<1>3. TypeOK'
  <2>1. fresh' = {} /\ freshAge' = [c \in Copies |-> 0] /\ freshNamed' = {} /\ hand' = {} /\ UNCHANGED poll
    BY DEF Store, NoBatch, NoAges
  <2>2. freshAge' \in [Copies -> Ages]
    BY <2>1, CollectorAssumption DEF Ages
  <2> QED
    BY <1>1, <1>2, <2>1, <2>2, InsertTypes DEF TypeOK, poll
<1>4. NoTwins'
  <2> SUFFICES ASSUME NEW c \in (stored' \cap Ordinary) \ renamed', NEW d \in (stored' \cap Ordinary) \ renamed',
                      c # d, SameTab(c, d), InWindow(c)', InWindow(d)'
               PROVE  ~Same(c, named', d, named')
    BY DEF NoTwins, Same
  <2> DEFINE Was(e) == e \in stored \ renamed /\ age'[e] = age[e] /\ (e \in named' <=> e \in named)
             Is(e) == e \in hand /\ (e \in named' <=> e \in freshNamed)
  <2>1. Was(c) \/ Is(c)
    BY <1>1, <1>2, Reads
  <2>2. Was(d) \/ Is(d)
    BY <1>1, <1>2, Reads
  <2>3. \A e : Was(e) => KeyOf(e, named') = KeyOf(e, named)
    BY DEF KeyOf
  <2>4. \A e : Is(e) => KeyOf(e, named') = KeyOf(e, freshNamed)
    BY DEF KeyOf
  <2>5. \A e : Was(e) /\ InWindow(e)' => InWindow(e)
    BY DEF InWindow
  <2>6. CASE Was(c) /\ Was(d)
    BY <2>3, <2>5, <2>6 DEF NoTwins, Same
  <2>7. CASE Is(c) /\ Was(d)
    BY <1>1, <2>3, <2>4, <2>5, <2>7 DEF Compared, Same
  <2>8. CASE Was(c) /\ Is(d)
    <3>1. ~Same(d, freshNamed, c, named)
      BY <1>1, <2>5, <2>8, Symmetric DEF Compared
    <3> QED
      BY <2>3, <2>4, <2>8, <3>1, Symmetric DEF Same
  <2>9. CASE Is(c) /\ Is(d)
    BY <1>1, <2>4, <2>9 DEF Apart, Batched, Same
  <2> QED
    BY <2>1, <2>2, <2>6, <2>7, <2>8, <2>9
<1> QED
  BY <1>1, <1>3, <1>4 DEF Apart, Compared, Batched

LEMMA AlertsColumns == Columns /\ Alerts => Columns'
<1> SUFFICES ASSUME Columns, Alerts PROVE Columns'
  OBVIOUS
<1> USE DEF Columns
<1>0. PICK listed \in SUBSET Juice : \E dates \in [listed -> FeedAges] : Insert(Recent(dates), Dated(dates), {})
  BY DEF Alerts
<1>1. PICK dates \in [listed -> FeedAges] : Insert(Recent(dates), Dated(dates), {})
  BY <1>0
<1>2. Recent(dates) \subseteq Juice /\ Juice \subseteq Copies
  BY CollectorAssumption DEF Recent
<1>3. Dated(dates) \in [Copies -> Ages]
  BY CollectorAssumption DEF Dated, Recent, FeedAges, Ages
<1>4. Insert(Recent(dates), Dated(dates), {}) /\ Recent(dates) \in SUBSET Copies
  BY <1>1, <1>2
<1>5. TypeOK'
  <2>1. PICK batched \in SUBSET Copies : batched = Recent(dates)
    BY <1>4
  <2>2. PICK ages \in [Copies -> Ages] : ages = Dated(dates)
    BY <1>3
  <2>3. Insert(batched, ages, {})
    BY <1>4, <2>1, <2>2
  <2>4. /\ stored' \subseteq Copies /\ named' \subseteq stored' /\ renamed' \subseteq named'
        /\ age' \in [Copies -> Ages] /\ resolved' \subseteq Links /\ gained' \in BOOLEAN
        /\ \A c, d \in stored' : Link[c] = Link[d] => c = d
    BY <2>3, InsertTypes
  <2> QED
    BY <2>4, CollectorAssumption DEF Alerts, Answered, batch, TypeOK
<1>6. \A c \in (stored' \cap Ordinary) \ renamed' : c \in stored \ renamed /\ age'[c] = age[c]
  BY <1>2, <1>4, Rows DEF Insert, TypeOK, Ordinary
<1>7. named' = named
  BY <1>4 DEF Insert
<1>8. NoTwins'
  BY <1>6, <1>7 DEF NoTwins, InWindow
<1> QED
  BY <1>5, <1>8 DEF Alerts, Apart, Compared, Batched
-----------------------------------------------------------------------------
(* The other steps *)

LEMMA GatherColumns == Columns /\ Gather => Columns'
<1> SUFFICES ASSUME Columns, Gather PROVE Columns'
  OBVIOUS
<1> USE DEF Columns
<1>0. PICK listed \in SUBSET Ordinary : \E dates \in [listed -> FeedAges] :
        /\ fresh' = Recent(dates) /\ freshAge' = Dated(dates)
        /\ freshNamed' \subseteq Recent(dates)
  BY DEF Gather
<1>1. PICK dates \in [listed -> FeedAges] :
        /\ fresh' = Recent(dates) /\ freshAge' = Dated(dates)
        /\ freshNamed' \subseteq Recent(dates)
  BY <1>0
<1>2. fresh' \subseteq Ordinary /\ freshNamed' \subseteq fresh'
  BY <1>1 DEF Recent
<1>3. freshAge' \in [Copies -> Ages]
  BY <1>1, CollectorAssumption DEF Dated, Recent, FeedAges, Ages
<1>4. hand' \subseteq fresh' /\ \A c, d \in hand' : c # d /\ SameTab(c, d) => ~Repeats(c, d)'
  BY DEF Gather, Deduped
<1>5. UNCHANGED <<stored, age, named, resolved, renamed, wait, failures, share, due, gained>> /\ phase' = "compare"
  BY DEF Gather, table, poll
<1>6. TypeOK'
  BY <1>2, <1>3, <1>4, <1>5 DEF TypeOK
<1>7. Apart'
  BY <1>4 DEF Apart, Same, SameKey, AlikeKey, Repeats
<1> QED
  BY <1>5, <1>6, <1>7 DEF NoTwins, InWindow, Compared

LEMMA CompareColumns == Columns /\ Compare => Columns'
<1> SUFFICES ASSUME Columns, Compare PROVE Columns'
  OBVIOUS
<1> USE DEF Columns
<1>1. UNCHANGED <<stored, age, named, resolved, renamed, wait, failures, share, due, gained>>
  BY DEF Compare, table, poll
<1>2. UNCHANGED <<fresh, freshAge, freshNamed>> /\ phase = "compare" /\ phase' = "store"
  BY DEF Compare
<1>3. hand' \subseteq hand /\ \A c \in hand' : ~Known(c)
  BY DEF Compare
<1>4. TypeOK'
  BY <1>1, <1>2, <1>3 DEF TypeOK
<1>5. Compared'
  BY <1>1, <1>2, <1>3 DEF Compared, Known, InWindow, Same, SamePage, SamePageAsRow
<1> QED
  BY <1>1, <1>2, <1>3, <1>4, <1>5 DEF NoTwins, InWindow, Apart, Batched

LEMMA HourColumns == Columns /\ Hour => Columns'
<1> SUFFICES ASSUME Columns, Hour PROVE Columns'
  OBVIOUS
<1> USE DEF Columns
<1>1. UNCHANGED <<stored, named, resolved, renamed, fresh, freshNamed, hand, wait, failures, share, due, phase, gained>>
  BY DEF Hour, poll
<1>2. age' \in [Copies -> Ages] /\ freshAge' \in [Copies -> Ages]
  BY CollectorAssumption DEF Hour, Older, TypeOK, Ages
<1>3. \A d \in stored : InWindow(d)' => InWindow(d)
  BY CollectorAssumption DEF Hour, Older, InWindow, TypeOK, Ages
<1>4. TypeOK'
  BY <1>1, <1>2 DEF TypeOK
<1> QED
  BY <1>1, <1>3, <1>4 DEF NoTwins, Compared, Apart, Batched

LEMMA CloseColumns == Columns /\ Close => Columns'
<1> SUFFICES ASSUME Columns, Close PROVE Columns'
  OBVIOUS
<1> USE DEF Columns
<1>1. PICK kept \in SUBSET stored :
        /\ stored' = kept /\ age' = [c \in Copies |-> IF c \in kept THEN age[c] ELSE 0]
        /\ named' = named \cap kept /\ renamed' = renamed \cap kept /\ resolved' = resolved
  BY DEF Close
<1>2. UNCHANGED <<fresh, freshAge, freshNamed, hand, wait, failures, share, due>> /\ phase' = "idle" /\ gained' = FALSE
  BY DEF Close, batch, poll
<1>3. age' \in [Copies -> Ages]
  BY <1>1, CollectorAssumption DEF TypeOK, Ages
<1>4. TypeOK'
  BY <1>1, <1>2, <1>3 DEF TypeOK
<1>5. \A c \in (stored' \cap Ordinary) \ renamed' :
        c \in (stored \cap Ordinary) \ renamed /\ age'[c] = age[c] /\ (c \in named' <=> c \in named)
  BY <1>1 DEF TypeOK
<1>6. NoTwins'
  <2> SUFFICES ASSUME NEW c \in (stored' \cap Ordinary) \ renamed', NEW d \in (stored' \cap Ordinary) \ renamed',
                      c # d, SameTab(c, d), InWindow(c)', InWindow(d)'
               PROVE  ~SameKey(KeyOf(c, named'), KeyOf(d, named')) /\ ~SamePage(c, d)
    BY DEF NoTwins
  <2> QED
    BY <1>5 DEF NoTwins, KeyOf, InWindow
<1> QED
  BY <1>2, <1>4, <1>6 DEF Apart, Compared, Batched

\* Steps that leave the rows' headlines and ages alone.
LEMMA OtherColumns ==
  Columns /\ (Defer \/ AlertsLost \/ Refused \/ Fail \/ Resolve \/ Minute \/ Restart \/ UNCHANGED vars) => Columns'
<1> SUFFICES ASSUME Columns,
                    Defer \/ AlertsLost \/ Refused \/ Fail \/ Resolve \/ Minute \/ Restart \/ UNCHANGED vars
             PROVE  Columns'
  OBVIOUS
<1> USE DEF Columns
<1>1. UNCHANGED <<stored, age, named, renamed>>
  BY DEF Defer, AlertsLost, Refused, Fail, Resolve, Minute, Restart, vars, table
<1>2. resolved' \subseteq Links
  BY DEF Defer, AlertsLost, Refused, Fail, Resolve, Minute, Restart, vars, table, TypeOK, Links
<1>3. \/ UNCHANGED <<fresh, freshAge, freshNamed, hand>>
         /\ (UNCHANGED phase \/ phase' = "gather")
      \/ NoBatch /\ phase' = "idle"
  BY DEF Defer, AlertsLost, Refused, Fail, Resolve, Minute, Restart, vars, table, batch
<1>4. gained' \in BOOLEAN
  BY DEF Defer, AlertsLost, Refused, Fail, Resolve, Minute, Restart, vars, TypeOK
<1>5. wait' \in Nat /\ due' \in Nat /\ failures' \in 0 .. Doublings + 1 /\ share' \in 1 .. MaxBackoff
  <2>1. CASE Refused
    <3>1. PICK retry \in Retries : Failed(retry)
      BY <2>1 DEF Refused
    <3>2. retry \in Nat /\ MaxBackoff \in Nat \ {0} /\ Doublings \in 0 .. 4
      BY CollectorAssumption
    <3>3. failures' \in 0 .. Doublings + 1 /\ failures' >= 1
      BY <3>1, <3>2 DEF Failed, Counted, Lower, TypeOK
    <3>4. Doubled[failures'] \in Nat
      BY <3>2, <3>3 DEF Doubled
    <3> QED
      BY <3>1, <3>2, <3>3, <3>4 DEF Failed, Backoff, Lower, Higher, TypeOK
  <2>2. CASE AlertsLost \/ Restart
    BY <2>2, CollectorAssumption DEF AlertsLost, Answered, Restart
  <2>3. CASE Minute
    BY <2>3 DEF Minute, TypeOK
  <2> QED
    BY <2>1, <2>2, <2>3 DEF Defer, Fail, Resolve, vars, poll, TypeOK
<1>6. TypeOK'
  BY <1>1, <1>2, <1>3, <1>4, <1>5, CollectorAssumption DEF TypeOK, NoBatch, NoAges, Ages
<1>7. Apart' /\ Compared'
  BY <1>1, <1>3 DEF Apart, Compared, Batched, NoBatch, InWindow
<1> QED
  BY <1>1, <1>6, <1>7 DEF NoTwins, InWindow

\* Twice a share is the next one, as long as the doubling goes on; after that both are the cap.
LEMMA Twice ==
  ASSUME NEW n \in 1 .. Doublings + 1
  PROVE  Lower(MaxBackoff, 2 * Lower(MaxBackoff, Doubled[n])) = Lower(MaxBackoff, Doubled[Lower(n + 1, Doublings + 1)])
<1>1. MaxBackoff \in Nat \ {0} /\ Doublings \in 0 .. 4 /\ MaxBackoff <= Doubled[Doublings + 1]
  BY CollectorAssumption
<1>2. \A m \in 1 .. 5 : Doubled[m] \in Nat
  BY DEF Doubled
<1>3. \A m \in 1 .. 4 : Doubled[m + 1] = 2 * Doubled[m]
  BY DEF Doubled
<1>4. CASE n = Doublings + 1
  <2>1. Lower(n + 1, Doublings + 1) = n /\ Doubled[n] \in Nat /\ MaxBackoff <= Doubled[n]
    BY <1>1, <1>2, <1>4 DEF Lower
  <2> QED
    BY <1>1, <2>1 DEF Lower
<1>5. CASE n # Doublings + 1
  <2>1. n \in 1 .. 4 /\ Lower(n + 1, Doublings + 1) = n + 1
    BY <1>1, <1>5 DEF Lower
  <2>2. Doubled[n + 1] = 2 * Doubled[n] /\ Doubled[n] \in Nat
    BY <1>2, <1>3, <2>1
  <2> QED
    BY <1>1, <2>1, <2>2 DEF Lower
<1> QED
  BY <1>4, <1>5

\* The history of the feed's demands and the code's counters move together.
LEMMA OwedKept == TypeOK /\ Owed /\ [Next]_vars => Owed'
<1> SUFFICES ASSUME TypeOK, Owed, [Next]_vars PROVE Owed'
  OBVIOUS
<1>1. MaxBackoff \in Nat \ {0} /\ Doublings \in 0 .. 4 /\ MaxBackoff <= Doubled[Doublings + 1]
  BY CollectorAssumption
<1>2. Backoff(Counted(1)) = 1
  BY <1>1 DEF Backoff, Counted, Lower, Doubled
<1>3. CASE Refused
  <2>1. PICK retry \in Retries : Failed(retry)
    BY <1>3 DEF Refused
  <2>2. failures' = Counted(failures + 1) /\ share = Backoff(failures')
    BY <2>1 DEF Failed, Owed
  <2>3. due' = Higher(share, retry) /\ wait' = Higher(share, retry)
    BY <2>1, <2>2 DEF Failed
  <2>4. share' = Lower(MaxBackoff, 2 * share)
    BY <2>1 DEF Failed
  <2>5. failures' \in 1 .. Doublings + 1
    BY <1>1, <2>2 DEF Counted, Lower, TypeOK
  <2>6. Lower(MaxBackoff, 2 * Lower(MaxBackoff, Doubled[failures'])) = Lower(MaxBackoff, Doubled[Lower(failures' + 1, Doublings + 1)])
    <3>1. PICK n \in 1 .. Doublings + 1 : n = failures'
      BY <2>5
    <3> QED
      BY <3>1, Twice
  <2>7. wait' \in Nat
    BY <2>3, CollectorAssumption DEF Higher, TypeOK
  <2> QED
    BY <2>2, <2>3, <2>4, <2>6, <2>7 DEF Owed, Backoff, Counted
<1>4. CASE Alerts \/ AlertsLost \/ Restart
  BY <1>2, <1>4 DEF Alerts, AlertsLost, Answered, Restart, Owed
<1>5. CASE Minute
  BY <1>5 DEF Minute, Owed, TypeOK
<1>6. CASE UNCHANGED poll
  BY <1>6 DEF poll, Owed
<1> QED
  BY <1>3, <1>4, <1>5, <1>6 DEF Next, Cycle, Ask, Defer, Gather, Compare, Store, Close, Fail, Resolve, Hour, vars

LEMMA NextIInv == IInv /\ [Next]_vars => IInv'
<1>1. Columns /\ [Next]_vars => Columns'
  BY StoreColumns, AlertsColumns, GatherColumns, CompareColumns, HourColumns, CloseColumns, OtherColumns
     DEF Next, Cycle, Ask
<1> QED
  BY <1>1, OwedKept DEF IInv, Columns

LEMMA AlwaysIInv == Spec => []IInv
BY InitIInv, NextIInv, PTL DEF Spec

-----------------------------------------------------------------------------
(* Nothing gathered is lost *)

LEMMA CompareCovered == Covered /\ Compare => Covered'
<1> SUFFICES ASSUME Covered, Compare, NEW c \in fresh PROVE Covers(c)'
  BY DEF Covered, Compare
<1>1. UNCHANGED <<stored, age, named, resolved, fresh, freshAge, freshNamed>> /\ hand' = {b \in hand : ~Known(b)}
  BY DEF Compare, table
<1>2. PICK b \in fresh : (b = c \/ (SameTab(b, c) /\ Repeats(c, b))) /\ (b \in hand \/ StandsIn(b))
  BY DEF Covered, Covers, Batched, Compare
<1>3. Known(b) => StandsIn(b)
  BY DEF Known, StandsIn
<1>4. b \in hand' \/ StandsIn(b)
  BY <1>1, <1>2, <1>3
<1>5. StandsIn(b)' <=> StandsIn(b)
  BY <1>1 DEF StandsIn, SamePageAsRow
<1>6. Repeats(c, b)' <=> Repeats(c, b)
  BY <1>1 DEF Repeats
<1> QED
  BY <1>1, <1>2, <1>4, <1>5, <1>6 DEF Covers

\* Two ages never drift apart.
LEMMA HourRepeats ==
  ASSUME TypeOK, Hour, NEW c \in fresh, NEW b \in fresh, Repeats(c, b)
  PROVE  Repeats(c, b)'
<1>1. CASE freshAge[c] - freshAge[b] \in -EventSpan .. EventSpan
  <2>1. freshAge'[c] = Older(freshAge[c]) /\ freshAge'[b] = Older(freshAge[b])
    BY DEF Hour, TypeOK, Ordinary
  <2>2. PICK x \in Ages : x = freshAge[c]
    BY DEF TypeOK, Ordinary
  <2>3. PICK y \in Ages : y = freshAge[b]
    BY DEF TypeOK, Ordinary
  <2>4. Older(x) - Older(y) \in -EventSpan .. EventSpan
    BY <1>1, <2>2, <2>3, CollectorAssumption DEF Older, Ages
  <2> QED
    BY <2>1, <2>2, <2>3, <2>4 DEF Repeats, Hour
<1>2. CASE ~(freshAge[c] - freshAge[b] \in -EventSpan .. EventSpan)
  BY <1>2 DEF Repeats, Hour
<1> QED
  BY <1>1, <1>2

LEMMA HourCovered == TypeOK /\ Covered /\ Hour => Covered'
<1> SUFFICES ASSUME TypeOK, Covered, Hour, Batched, NEW c \in fresh PROVE Covers(c)'
  BY DEF Covered, Hour, Batched
<1>1. PICK b \in fresh : (b = c \/ (SameTab(b, c) /\ Repeats(c, b))) /\ (b \in hand \/ StandsIn(b))
  BY DEF Covered, Covers
<1>2. StandsIn(b) => StandsIn(b)'
  BY DEF StandsIn, SamePageAsRow, Hour
<1>3. Repeats(c, b) => Repeats(c, b)'
  BY HourRepeats
<1> QED
  BY <1>1, <1>2, <1>3 DEF Covers, Hour

LEMMA CoveredKept == TypeOK /\ Covered /\ [Next]_vars => Covered'
<1> SUFFICES ASSUME TypeOK, Covered, [Next]_vars PROVE Covered'
  OBVIOUS
<1>1. CASE Gather
  <2>1. /\ hand' \subseteq fresh'
        /\ \A c \in fresh' \ hand' : \E d \in hand' : SameTab(c, d) /\ Repeats(c, d)'
    BY <1>1 DEF Gather, Deduped
  <2> QED
    BY <2>1, Symmetric DEF Covered, Covers
<1>2. CASE Compare
  BY <1>2, CompareCovered
<1>3. CASE Hour
  BY <1>3, HourCovered
<1>4. CASE Resolve
  <2>1. UNCHANGED <<stored, named, fresh, freshAge, freshNamed, hand, phase>> /\ resolved \subseteq resolved'
    BY <1>4 DEF Resolve, batch
  <2>2. \A b : StandsIn(b) => StandsIn(b)'
    BY <2>1 DEF StandsIn, SamePageAsRow
  <2>3. \A b, c : Repeats(c, b) => Repeats(c, b)'
    BY <2>1 DEF Repeats
  <2> QED
    BY <2>1, <2>2, <2>3 DEF Covered, Covers, Batched
<1>5. CASE UNCHANGED <<table, batch, phase>>
  BY <1>5 DEF table, batch, Covered, Covers, Batched, StandsIn, SamePageAsRow, Repeats
<1>6. CASE phase' \in {"idle", "gather", "close"}
  BY <1>6 DEF Covered, Batched
<1> QED
  BY <1>1, <1>2, <1>3, <1>4, <1>5, <1>6
     DEF Next, Cycle, Ask, Defer, Alerts, AlertsLost, Refused, Store, Close, Fail, Minute, Restart, vars

\* After an insert every link of the batch is a row's.
LEMMA Linked ==
  ASSUME NEW copies, NEW ages, NEW names, Insert(copies, ages, names), NEW b \in copies,
         copies \subseteq Copies
  PROVE  \E r \in stored' : Link[r] = Link[b]
<1>1. stored' = stored \cup New(copies)
  BY DEF Insert
<1>2. CASE \E d \in stored : Link[d] = Link[b]
  BY <1>1, <1>2
<1>3. CASE ~\E d \in stored : Link[d] = Link[b]
  <2>1. CASE b \in New(copies)
    BY <1>1, <2>1
  <2>2. CASE b \notin New(copies)
    <3>1. PICK d \in copies : Link[d] = Link[b] /\ d # b /\ b \in Thai
      BY <1>3, <2>2 DEF New
    <3>2. d \notin Thai
      BY <3>1, CollectorAssumption DEF SameTab
    <3>3. d \in New(copies)
      BY <1>3, <3>1, <3>2 DEF New
    <3> QED
      BY <1>1, <3>1, <3>3
  <2> QED
    BY <2>1, <2>2
<1> QED
  BY <1>2, <1>3

\* Every variable keeps its shape, and a link is one row (articles.link is the primary key).
THEOREM CollectorTypeCorrect == Spec => []TypeOK
BY AlwaysIInv, PTL DEF IInv

\* drop_already_stored: whatever the feeds repeat, whenever, and under however many links, a tab's
\* window never holds two ordinary stories with one headline or one page, but for those the other
\* tab renamed; crashes, restarts and the time between comparing and inserting make no difference.
THEOREM NoTwinsStored == Spec => []NoTwins
BY AlwaysIInv, PTL DEF IInv

\* A gathered story is in its tab once the cycle has stored, as itself or as one it repeats, unless
\* the other tab holds the link of the copy that was kept for it.
THEOREM NothingGatheredIsLost == Spec => Represented
<1>1. Init => Covered
  BY DEF Init, Covered, Batched
<1>2. TypeOK /\ Covered /\ Next /\ phase = "store" /\ phase' = "close" =>
        \A c \in fresh : \E b \in fresh :
          /\ b = c \/ (SameTab(b, c) /\ Repeats(c, b))
          /\ Stands(b) \/ HeldElsewhere(b)
  <2> SUFFICES ASSUME TypeOK, Covered, Next, phase = "store", phase' = "close", NEW c \in fresh
               PROVE  \E b \in fresh :
                        /\ b = c \/ (SameTab(b, c) /\ Repeats(c, b))
                        /\ Stands(b) \/ HeldElsewhere(b)
    OBVIOUS
  <2>1. Insert(hand, freshAge, freshNamed)
    BY DEF Next, Cycle, Ask, Defer, Alerts, AlertsLost, Refused, Gather, Compare, Store, Close, Fail,
           Resolve, Hour, Minute, Restart
  <2>2. PICK b \in fresh : (b = c \/ (SameTab(b, c) /\ Repeats(c, b))) /\ (b \in hand \/ StandsIn(b))
    BY DEF Covered, Covers, Batched
  <2>3. CASE b \in hand
    <3>1. hand \subseteq Copies
      BY DEF TypeOK, Ordinary
    <3>2. PICK r \in stored' : Link[r] = Link[b]
      BY <2>1, <2>3, <3>1, Linked
    <3>3. Stands(b) \/ HeldElsewhere(b)
      BY <3>2 DEF Stands, HeldElsewhere
    <3> QED
      BY <2>2, <3>3
  <2>4. CASE StandsIn(b)
    <3>1. stored \subseteq stored' /\ resolved' = resolved
      BY <2>1 DEF Insert
    <3>2. Stands(b)
      BY <2>4, <3>1 DEF Stands, StandsIn
    <3> QED
      BY <2>2, <3>2
  <2> QED
    BY <2>2, <2>3, <2>4
<1>3. TypeOK /\ Covered /\ [Next]_vars =>
        [phase = "store" /\ phase' = "close" =>
           \A c \in fresh : \E b \in fresh :
             /\ b = c \/ (SameTab(b, c) /\ Repeats(c, b))
             /\ Stands(b) \/ HeldElsewhere(b)]_vars
  BY <1>2
<1>4. Spec => []TypeOK
  BY AlwaysIInv, PTL DEF IInv
<1> QED
  BY <1>1, <1>3, <1>4, CoveredKept, PTL DEF Spec, Represented

\* The feed is never asked before the minute, the doubled backoff and its Retry-After are over.
THEOREM PatienceKept == Spec => []Patience
<1>1. IInv => Patience
  BY DEF IInv, Owed, Patience
<1> QED
  BY <1>1, AlwaysIInv, PTL

\* The archive and the polling of the feed, for any stories, feeds, windows and delays.
THEOREM ArchiveHeld == Spec => []ArchiveSound
BY CollectorTypeCorrect, NoTwinsStored, PatienceKept, PTL DEF ArchiveSound
=============================================================================
