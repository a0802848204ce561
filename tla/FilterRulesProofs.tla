------------------------- MODULE FilterRulesProofs -------------------------
(***************************************************************************)
(* Proofs about FilterRules, for any stories, rules, callers and bounds.   *)
(*                                                                         *)
(* The invariant is Honest: an enabled rule's catch matches its wording,   *)
(* or a rescan is due.  A switched-off rule may keep stale catches (its    *)
(* drop may be cut off), but it can be enabled again only by a call that   *)
(* owes a rescan, and every rescan starts from an empty table.             *)
(*                                                                         *)
(* The step properties rest on NInv, which adds that every catch is of a   *)
(* story the archive has, was noted when made, and was counted.  The rule  *)
(* that records a catch is the least one that matches, which exists        *)
(* because ids are numbers.                                                *)
(***************************************************************************)
EXTENDS FilterRules, FiniteSetTheorems, WellFoundedInduction, TLAPS

RescanDue == torn \/ \E c \in Callers : pending[c] = Rescanning

Honest == \A l \in Links : hit[l] \in on => <<pattern[hit[l]], l>> \in Matches \/ RescanDue

IInv == TypeOK /\ Honest

ToDo == {Nothing, Rescanning} \cup {Dropping(r) : r \in Ids}

\* The three kinds of unfinished work are told apart, and no rule has id 0.
LEMMA Kinds ==
  /\ Rescanning # Nothing
  /\ \A r : Dropping(r) # Rescanning
  /\ NoRule \notin Ids
BY FilterAssumption DEF Rescanning, Nothing, Dropping, NoRule, Ids

\* What asking the rules records: nothing new, or an enabled rule that matches.
LEMMA Recorded ==
  ASSUME TypeOK, NEW was \in [Links -> rules \cup {NoRule}], NEW batch
  PROVE  /\ RecordHits(was, batch) \in [Links -> rules \cup {NoRule}]
         /\ \A l \in Links :
              \/ RecordHits(was, batch)[l] = was[l]
              \/ RecordHits(was, batch)[l] \in on /\ <<pattern[RecordHits(was, batch)[l]], l>> \in Matches
<1> DEFINE h == RecordHits(was, batch)
<1>1. ASSUME NEW l \in Links
      PROVE  h[l] = was[l] \/ h[l] \in First(l)
  BY DEF RecordHits
<1>2. ASSUME NEW l \in Links, NEW r \in First(l)
      PROVE  r \in on /\ r \in rules /\ <<pattern[r], l>> \in Matches
  BY DEF First, Catchers, TypeOK
<1>3. h = [l \in Links |-> h[l]]
  BY DEF RecordHits
<1>4. \A l \in Links : h[l] \in rules \cup {NoRule}
  BY <1>1, <1>2
<1> HIDE DEF h
<1>5. h \in [Links -> rules \cup {NoRule}]
  BY <1>3, <1>4
<1>6. \A l \in Links : h[l] = was[l] \/ (h[l] \in on /\ <<pattern[h[l]], l>> \in Matches)
  BY <1>1, <1>2
<1> QED
  BY <1>5, <1>6 DEF h

\* Counting keeps its shape.
LEMMA Tallied ==
  ASSUME TypeOK, NEW was, NEW now \in [Links -> rules \cup {NoRule}], Tally(was, now)
  PROVE  hit' = now /\ counter' \in [Ids -> Nat] /\ caughtBy' \subseteq Ids \X Links
<1>1. \A r : Cardinality({l \in Links : was[l] = NoRule /\ now[l] = r}) \in Nat
  BY FilterAssumption, FS_Subset, FS_CardinalityType
<1> DEFINE caught(r) == Cardinality({l \in Links : was[l] = NoRule /\ now[l] = r})
<1>2. counter' \in [Ids -> Nat]
  <2>1. counter' = [r \in Ids |-> counter[r] + caught(r)] /\ counter \in [Ids -> Nat]
    BY DEF Tally, TypeOK
  <2>2. \A r : caught(r) \in Nat
    BY <1>1
  <2> HIDE DEF caught
  <2> QED
    BY <2>1, <2>2
<1>3. {<<now[l], l>> : l \in {k \in Links : now[k] # NoRule}} \subseteq Ids \X Links
  BY DEF TypeOK
<1> QED
  BY <1>2, <1>3 DEF Tally, TypeOK

LEMMA InitIInv == Init => IInv
<1> SUFFICES ASSUME Init PROVE IInv
  OBVIOUS
<1>1. pending \in [Callers -> ToDo]
  BY DEF Init, ToDo
<1>2. hit \in [Links -> rules \cup {NoRule}] /\ counter \in [Ids -> Nat]
  BY DEF Init
<1>3. TypeOK
  <2>1. nextId \in 1 .. MaxRules + 1
    BY FilterAssumption DEF Init
  <2>2. pending \in [Callers -> {Nothing, Rescanning} \cup {Dropping(r) : r \in Ids}]
    BY <1>1 DEF ToDo
  <2> QED
    BY <1>2, <2>1, <2>2, Zenon DEF Init, TypeOK
<1>4. Honest
  BY DEF Init, Honest
<1> QED
  BY <1>3, <1>4 DEF IInv

LEMMA CollectIInv ==
  ASSUME IInv, NEW batch \in SUBSET Links, Collect(batch)
  PROVE  IInv'
<1>0. TypeOK /\ hit \in [Links -> rules \cup {NoRule}]
  BY DEF IInv, TypeOK
<1>1. /\ RecordHits(hit, batch) \in [Links -> rules \cup {NoRule}]
      /\ \A l \in Links :
           \/ RecordHits(hit, batch)[l] = hit[l]
           \/ RecordHits(hit, batch)[l] \in on /\ <<pattern[RecordHits(hit, batch)[l]], l>> \in Matches
  BY <1>0, Recorded
<1>2. hit' = RecordHits(hit, batch) /\ counter' \in [Ids -> Nat] /\ caughtBy' \subseteq Ids \X Links
  BY <1>0, <1>1, Tallied DEF Collect
<1>3. TypeOK'
  BY <1>0, <1>1, <1>2 DEF Collect, table, TypeOK
<1>4. Honest'
  BY <1>1, <1>2 DEF Collect, table, IInv, Honest, RescanDue
<1> QED
  BY <1>3, <1>4 DEF IInv

LEMMA RescanIInv ==
  ASSUME IInv, NEW c \in Callers, Rescan(c)
  PROVE  IInv'
<1>0. TypeOK /\ NoHits \in [Links -> rules \cup {NoRule}]
  BY DEF IInv, NoHits
<1>1. /\ RecordHits(NoHits, recent) \in [Links -> rules \cup {NoRule}]
      /\ \A l \in Links :
           \/ RecordHits(NoHits, recent)[l] = NoHits[l]
           \/ RecordHits(NoHits, recent)[l] \in on /\ <<pattern[RecordHits(NoHits, recent)[l]], l>> \in Matches
  BY <1>0, Recorded
<1>2. hit' = RecordHits(NoHits, recent) /\ counter' \in [Ids -> Nat] /\ caughtBy' \subseteq Ids \X Links
  BY <1>0, <1>1, Tallied DEF Rescan
<1>3. TypeOK'
  <2>1. pending' \in [Callers -> ToDo]
    BY <1>0 DEF Rescan, TypeOK, ToDo
  <2> QED
    BY <1>0, <1>1, <1>2, <2>1 DEF Rescan, table, stories, TypeOK, ToDo
<1>4. on' = on /\ pattern' = pattern /\ NoRule \notin on
  BY <1>0, Kinds DEF Rescan, table, TypeOK
<1>5. \A l \in Links : NoHits[l] = NoRule
  BY DEF NoHits
<1>6. Honest'
  BY <1>1, <1>2, <1>4, <1>5 DEF Honest
<1> QED
  BY <1>3, <1>6 DEF IInv

\* Deleting a rule's catches leaves the rest as they were.
LEMMA ReleasedHits ==
  ASSUME TypeOK, NEW r
  PROVE  /\ Released(r) \in [Links -> rules \cup {NoRule}]
         /\ \A l \in Links : Released(r)[l] = NoRule \/ (Released(r)[l] = hit[l] /\ hit[l] # r)
BY DEF Released, TypeOK

LEMMA DropIInv ==
  ASSUME IInv, NEW c \in Callers, NEW r \in Ids, Drop(c, r)
  PROVE  IInv'
<1>0. TypeOK
  BY DEF IInv
<1>1. /\ hit' \in [Links -> rules \cup {NoRule}]
      /\ \A l \in Links : hit'[l] = NoRule \/ (hit'[l] = hit[l] /\ hit[l] # r)
  BY <1>0, ReleasedHits DEF Drop
<1>2. pending' \in [Callers -> ToDo]
  BY <1>0 DEF Drop, TypeOK, ToDo
<1>3. TypeOK'
  BY <1>0, <1>1, <1>2 DEF Drop, table, stories, TypeOK, ToDo
<1>4. RescanDue => RescanDue'
  BY <1>0, Kinds DEF Drop, TypeOK, RescanDue
<1>5. on' = on /\ pattern' = pattern /\ NoRule \notin on
  BY <1>0, Kinds DEF Drop, table, TypeOK
<1>6. Honest'
  BY <1>1, <1>4, <1>5 DEF IInv, Honest
<1> QED
  BY <1>3, <1>6 DEF IInv

LEMMA DeleteIInv ==
  ASSUME IInv, NEW c \in Callers, NEW r \in Ids, DeleteRule(c, r)
  PROVE  IInv'
<1>0. TypeOK
  BY DEF IInv
<1>1. hit' = Released(r) /\ Released(r) \in [Links -> rules \cup {NoRule}]
      /\ \A l \in Links : hit'[l] = NoRule \/ (hit'[l] = hit[l] /\ hit[l] # r)
  BY <1>0, ReleasedHits DEF DeleteRule
<1>2. hit' \in [Links -> rules' \cup {NoRule}]
  BY <1>0, <1>1 DEF DeleteRule, TypeOK
<1>3. TypeOK'
  BY <1>0, <1>2 DEF DeleteRule, Begin, stories, TypeOK
<1>4. UNCHANGED RescanDue /\ on' = on \ {r} /\ pattern' = pattern /\ NoRule \notin on
  BY <1>0, Kinds DEF DeleteRule, TypeOK, RescanDue
<1>5. Honest'
  BY <1>1, <1>4 DEF IInv, Honest
<1> QED
  BY <1>3, <1>5 DEF IInv

LEMMA AddIInv ==
  ASSUME IInv, NEW c \in Callers, NEW p \in Patterns, AddRule(c, p)
  PROVE  IInv'
<1>0. TypeOK
  BY DEF IInv
<1>1. pending' \in [Callers -> ToDo] /\ calls' \in Nat
  BY <1>0 DEF AddRule, Begin, TypeOK, ToDo
<1>2. RescanDue => RescanDue'
  BY <1>0, Kinds DEF AddRule, Begin, TypeOK, RescanDue
<1>3. CASE UNCHANGED table
  <2>1. TypeOK'
    BY <1>0, <1>1, <1>3 DEF AddRule, table, stories, TypeOK, ToDo
  <2>2. Honest'
    BY <1>2, <1>3 DEF AddRule, table, IInv, Honest
  <2> QED
    BY <2>1, <2>2 DEF IInv
<1>4. CASE /\ nextId \in Ids
           /\ rules' = rules \cup {nextId}
           /\ pattern' = [pattern EXCEPT ![nextId] = p]
           /\ nextId' = nextId + 1
           /\ on' = on
  <2>1. nextId \notin rules /\ nextId' \in 1 .. MaxRules + 1 /\ \A r \in rules' : r < nextId'
    BY <1>0, <1>4, FilterAssumption DEF TypeOK, Ids
  <2>2. pattern' \in [Ids -> Patterns] /\ hit' \in [Links -> rules' \cup {NoRule}]
    BY <1>0, <1>4 DEF AddRule, TypeOK
  <2>3. TypeOK'
    BY <1>0, <1>1, <1>4, <2>1, <2>2 DEF AddRule, stories, TypeOK, ToDo
  <2>4. \A r \in on : pattern'[r] = pattern[r]
    BY <1>0, <1>4, <2>1 DEF TypeOK
  <2>5. Honest'
    BY <1>2, <1>4, <2>4 DEF AddRule, IInv, Honest
  <2> QED
    BY <2>3, <2>5 DEF IInv
<1> QED
  BY <1>3, <1>4 DEF AddRule, table

LEMMA SwitchIInv ==
  ASSUME IInv, NEW c \in Callers, NEW r \in Ids, NEW enabled \in BOOLEAN, Switch(c, r, enabled)
  PROVE  IInv'
<1>0. TypeOK
  BY DEF IInv
<1>1. pending' \in [Callers -> ToDo] /\ calls' \in Nat
  BY <1>0 DEF Switch, Begin, TypeOK, ToDo
<1>2. on' \subseteq rules
  BY <1>0 DEF Switch, TypeOK
<1>3. TypeOK'
  BY <1>0, <1>1, <1>2 DEF Switch, stories, TypeOK, ToDo
<1>4. CASE enabled
  <2>1. RescanDue'
    BY <1>0, <1>4 DEF Switch, TypeOK, RescanDue
  <2> QED
    BY <1>3, <2>1 DEF IInv, Honest
<1>5. CASE ~enabled
  <2>1. RescanDue => RescanDue'
    BY <1>0, <1>5, Kinds DEF Switch, Begin, TypeOK, RescanDue
  <2>2. on' = on \ {r}
    BY <1>5 DEF Switch
  <2>3. Honest'
    BY <2>1, <2>2 DEF Switch, IInv, Honest
  <2> QED
    BY <1>3, <2>3 DEF IInv
<1> QED
  BY <1>4, <1>5

LEMMA RewordIInv ==
  ASSUME IInv, NEW c \in Callers, NEW r \in Ids, NEW p \in Patterns, Reword(c, r, p)
  PROVE  IInv'
<1>0. TypeOK
  BY DEF IInv
<1>1. pending' \in [Callers -> ToDo] /\ calls' \in Nat
  BY <1>0 DEF Reword, Begin, TypeOK, ToDo
<1>2. pattern' \in [Ids -> Patterns] /\ \A q \in Ids \ {r} : pattern'[q] = pattern[q]
  BY <1>0 DEF Reword, TypeOK
<1>3. TypeOK'
  BY <1>0, <1>1, <1>2 DEF Reword, stories, TypeOK, ToDo
<1>4. CASE r \in on
  <2>1. RescanDue'
    BY <1>0, <1>4 DEF Reword, TypeOK, RescanDue
  <2> QED
    BY <1>3, <2>1 DEF IInv, Honest
<1>5. CASE r \notin on
  <2>1. RescanDue => RescanDue'
    BY <1>0, Kinds DEF Reword, Begin, TypeOK, RescanDue
  <2>2. \A q \in on : q \in Ids \ {r}
    BY <1>0, <1>5 DEF TypeOK
  <2>3. Honest'
    BY <1>2, <2>1, <2>2 DEF Reword, IInv, Honest
  <2> QED
    BY <1>3, <2>3 DEF IInv
<1> QED
  BY <1>4, <1>5

LEMMA OtherIInv ==
  ASSUME IInv,
         \/ \E l \in Links : Age(l) \/ Keep(l) \/ Unkeep(l)
         \/ Restart
         \/ UNCHANGED vars
  PROVE  IInv'
<1>1. CASE \E l \in Links : Age(l) \/ Keep(l) \/ Unkeep(l)
  <2>1. UNCHANGED <<table, counter, hit, pending, calls, restarts, torn, caughtBy>>
        /\ kept' \subseteq Links /\ recent' \subseteq Links /\ older' \subseteq Links
    BY <1>1 DEF Age, Keep, Unkeep, stories, IInv, TypeOK
  <2> QED
    BY <2>1 DEF table, IInv, TypeOK, Honest, RescanDue
<1>2. CASE Restart
  <2>1. pending' \in [Callers -> ToDo] /\ restarts' \in Nat /\ torn' \in BOOLEAN
    BY <1>2 DEF Restart, IInv, TypeOK, ToDo
  <2>2. TypeOK'
    BY <1>2, <2>1 DEF Restart, table, stories, IInv, TypeOK, ToDo
  <2>3. RescanDue => RescanDue'
    BY <1>2, Zenon DEF Restart, RescanDue
  <2> QED
    BY <1>2, <2>2, <2>3 DEF Restart, table, IInv, Honest
<1>3. CASE UNCHANGED vars
  BY <1>3 DEF vars, table, stories, IInv, TypeOK, Honest, RescanDue
<1> QED
  BY <1>1, <1>2, <1>3

LEMMA NextIInv == IInv /\ [Next]_vars => IInv'
BY CollectIInv, RescanIInv, DropIInv, DeleteIInv, AddIInv, SwitchIInv, RewordIInv, OtherIInv DEF Next

LEMMA AlwaysIInv == Spec => []IInv
BY InitIInv, NextIInv, PTL DEF Spec

\* Every variable keeps its shape; in particular filter_hits names only rules that exist.
THEOREM FiltersTypeCorrect == Spec => []TypeOK
BY AlwaysIInv, PTL DEF IInv

\* query_articles leaves a story out for a rule only if that rule is on and matches it, or a rescan
\* is due, however the calls of several operators and the restarts interleave.
THEOREM CatchesHonest == Spec => []HonestCatch
<1>1. IInv => HonestCatch
  <2> SUFFICES ASSUME IInv, NEW l \in recent \cup older, ~Visible(l)
               PROVE  <<pattern[hit[l]], l>> \in Matches \/ RescanDue
    BY DEF HonestCatch, RescanDue
  <2>1. l \in Links /\ hit[l] \in on
    BY DEF Visible, IInv, TypeOK
  <2> QED
    BY <2>1 DEF IInv, Honest
<1> QED
  BY <1>1, AlwaysIInv, PTL

\* What the pages leave out, and why, for any operators, rules and restarts.
THEOREM CatchesHeld == Spec => []CatchesHold
BY FiltersTypeCorrect, CatchesHonest, PTL DEF CatchesHold
-----------------------------------------------------------------------------
\* Of the rules that catch a story one has the least id.
LEMMA FirstCatcher ==
  ASSUME TypeOK, NEW l, Catchers(l) # {}
  PROVE  (CHOOSE r \in First(l) : TRUE) \in First(l) /\ First(l) \subseteq on
<1> DEFINE Before == {ss \in Nat \X Nat : ss[1] < ss[2]}
<1>1. IsWellFoundedOn(Before, Nat)
  BY NatLessThanWellFounded DEF OpToRel
<1>2. Catchers(l) \subseteq Nat /\ Catchers(l) \subseteq on
  <2>1. \A r \in Ids : r \in Nat
    BY FilterAssumption DEF Ids
  <2> QED
    BY <2>1 DEF Catchers, TypeOK
<1>3. PICK r \in Catchers(l) : \A q \in Catchers(l) : <<q, r>> \notin Before
  <2> HIDE DEF Before
  <2> QED
    BY <1>1, <1>2, WFMin
<1>4. \A q \in Catchers(l) : r <= q
  <2> SUFFICES ASSUME NEW q \in Catchers(l) PROVE r <= q
    OBVIOUS
  <2>1. q \in Nat /\ r \in Nat /\ ~(<<q, r>> \in Before)
    BY <1>2, <1>3
  <2>2. ~(q < r)
    BY <2>1
  <2> QED
    BY <2>1, <2>2
<1>5. r \in First(l)
  BY <1>3, <1>4 DEF First
<1> QED
  BY <1>2, <1>5 DEF First

\* A catch is recorded for stories the archive has, and was counted when it was made.
Archived == \A l \in Links : hit[l] # NoRule => l \in recent \cup older
Noted == \A l \in Links : hit[l] # NoRule => <<hit[l], l>> \in caughtBy
CaughtOf(r) == {l \in Links : <<r, l>> \in caughtBy}
Counted == \A r \in Ids : counter[r] >= Cardinality(CaughtOf(r))

NInv == Archived /\ Noted /\ Counted

\* The rules are asked about a set of stories, of which those already caught keep their rule.
LEMMA TallyNInv ==
  ASSUME IInv, IInv', NInv, NEW was \in [Links -> rules \cup {NoRule}], NEW batch \in SUBSET Links,
         \A l \in Links : was[l] # NoRule => hit[l] = was[l],
         Tally(was, RecordHits(was, batch)), batch \subseteq recent' \cup older',
         recent \cup older \subseteq recent' \cup older'
  PROVE  NInv'
<1> DEFINE now == RecordHits(was, batch)
<1>1. /\ now \in [Links -> rules \cup {NoRule}]
      /\ \A l \in Links : now[l] = was[l] \/ (now[l] \in on /\ l \in batch /\ was[l] = NoRule)
  <2>1. now \in [Links -> rules \cup {NoRule}]
    BY Recorded DEF IInv
  <2>2. ASSUME NEW l \in Links, now[l] # was[l] PROVE now[l] \in First(l) /\ l \in batch /\ was[l] = NoRule
    BY <2>2 DEF RecordHits
  <2> HIDE DEF now
  <2> QED
    BY <2>1, <2>2 DEF First, Catchers
<1>2. /\ hit' = now
      /\ counter' = [r \in Ids |-> counter[r] + Cardinality({l \in Links : was[l] = NoRule /\ now[l] = r})]
      /\ caughtBy' = caughtBy \cup {<<now[l], l>> : l \in {k \in Links : now[k] # NoRule}}
  BY DEF Tally
<1> HIDE DEF now
<1>3. Archived'
  BY <1>1, <1>2 DEF NInv, Archived
<1>4. Noted'
  BY <1>2 DEF Noted
<1>5. Counted'
  <2> SUFFICES ASSUME NEW r \in Ids PROVE counter'[r] >= Cardinality(CaughtOf(r)')
    BY DEF Counted
  <2> DEFINE fresh == {l \in Links : was[l] = NoRule /\ now[l] = r}
  <2>1. CaughtOf(r)' \subseteq CaughtOf(r) \cup fresh
    <3> SUFFICES ASSUME NEW l \in Links, <<r, l>> \in caughtBy', <<r, l>> \notin caughtBy
                 PROVE  l \in fresh
      BY DEF CaughtOf
    <3>0. <<r, l>> \in {<<now[k], k>> : k \in {m \in Links : now[m] # NoRule}}
      BY <1>2
    <3>1. now[l] = r /\ r # NoRule
      <4>1. PICK k \in Links : now[k] # NoRule /\ <<r, l>> = <<now[k], k>>
        BY <3>0
      <4> QED
        BY <4>1
    <3>2. was[l] = NoRule
      BY <1>1, <3>1 DEF NInv, Noted
    <3> QED
      BY <3>1, <3>2
  <2>2. /\ IsFiniteSet(CaughtOf(r)) /\ IsFiniteSet(fresh) /\ IsFiniteSet(CaughtOf(r)')
        /\ IsFiniteSet(CaughtOf(r) \cup fresh) /\ IsFiniteSet(CaughtOf(r) \cap fresh)
    BY FilterAssumption, FS_Subset DEF CaughtOf
  <2>3. Cardinality(CaughtOf(r)') <= Cardinality(CaughtOf(r) \cup fresh)
    BY <2>1, <2>2, FS_Subset
  <2>4. Cardinality(CaughtOf(r) \cup fresh) =
          Cardinality(CaughtOf(r)) + Cardinality(fresh) - Cardinality(CaughtOf(r) \cap fresh)
    BY <2>2, FS_Union
  <2>5. /\ Cardinality(CaughtOf(r)) \in Nat /\ Cardinality(fresh) \in Nat
        /\ Cardinality(CaughtOf(r) \cap fresh) \in Nat
        /\ Cardinality(CaughtOf(r)') \in Nat /\ Cardinality(CaughtOf(r) \cup fresh) \in Nat
    BY <2>2, FS_CardinalityType
  <2>6. counter'[r] = counter[r] + Cardinality(fresh) /\ counter[r] \in Nat
        /\ counter[r] >= Cardinality(CaughtOf(r))
    BY <1>2 DEF NInv, Counted, IInv, TypeOK
  <2> HIDE DEF fresh
  <2> QED
    BY <2>3, <2>4, <2>5, <2>6
<1> QED
  BY <1>3, <1>4, <1>5 DEF NInv

LEMMA NextNInv ==
  ASSUME IInv, IInv', NInv, [Next]_vars
  PROVE  NInv'
<1>1. ASSUME NEW batch \in SUBSET Links, Collect(batch) PROVE NInv'
  <2>1. hit \in [Links -> rules \cup {NoRule}]
    BY DEF IInv, TypeOK
  <2> QED
    BY <1>1, <2>1, TallyNInv DEF Collect
<1>2. ASSUME NEW c \in Callers, Rescan(c) PROVE NInv'
  <2>1. NoHits \in [Links -> rules \cup {NoRule}] /\ \A l \in Links : NoHits[l] = NoRule
    BY DEF NoHits
  <2>2. recent' = recent /\ older' = older /\ recent \subseteq Links
    BY <1>2 DEF Rescan, stories, IInv, TypeOK
  <2> QED
    BY <1>2, <2>1, <2>2, TallyNInv DEF Rescan
<1>3. ASSUME NEW r, hit' = Released(r), UNCHANGED <<counter, stories, caughtBy>>
      PROVE  NInv'
  <2>1. \A l \in Links : hit'[l] # NoRule => hit'[l] = hit[l]
    BY <1>3 DEF Released
  <2> QED
    BY <1>3, <2>1 DEF stories, NInv, Archived, Noted, Counted, CaughtOf
<1>4. CASE UNCHANGED <<counter, hit, caughtBy>> /\ recent \cup older \subseteq recent' \cup older'
  BY <1>4 DEF NInv, Archived, Noted, Counted, CaughtOf
<1>5. ASSUME NEW l \in Links, Age(l) \/ Keep(l) \/ Unkeep(l) PROVE NInv'
  BY <1>4, <1>5 DEF Age, Keep, Unkeep, stories
<1>6. ASSUME NEW c \in Callers, NEW p \in Patterns, AddRule(c, p) PROVE NInv'
  BY <1>4, <1>6 DEF AddRule, stories
<1>7. ASSUME NEW c \in Callers, NEW r \in Ids,
             \/ \E enabled \in BOOLEAN : Switch(c, r, enabled)
             \/ \E p \in Patterns : Reword(c, r, p)
      PROVE  NInv'
  BY <1>4, <1>7 DEF Switch, Reword, stories
<1>8. ASSUME NEW c \in Callers, NEW r \in Ids, Drop(c, r) \/ DeleteRule(c, r) PROVE NInv'
  BY <1>3, <1>8 DEF Drop, DeleteRule
<1>9. CASE Restart \/ UNCHANGED vars
  BY <1>4, <1>9 DEF Restart, vars, stories
<1> QED
  BY <1>1, <1>2, <1>5, <1>6, <1>7, <1>8, <1>9 DEF Next

\* A story the collector registers is caught in the same step, whatever rules are being changed, and
\* each catch is counted (insert_articles, _record_filter_hits, rescan_filters).
THEOREM CaughtInTheSameStep == Spec => CaughtAtOnce
<1> DEFINE Flashless == \A l \in recent' \ recent : Catchers(l) # {} => hit'[l] \in on'
<1>1. Init => NInv
  <2> SUFFICES ASSUME Init PROVE NInv
    OBVIOUS
  <2>1. \A r \in Ids : CaughtOf(r) = {} /\ counter[r] = 0
    BY DEF Init, CaughtOf
  <2>2. Counted
    BY <2>1, FS_EmptySet DEF Counted
  <2> QED
    BY <2>2 DEF Init, NInv, Archived, Noted
<1>2. IInv /\ IInv' /\ NInv /\ [Next]_vars => NInv'
  BY NextNInv
<1>3. IInv /\ NInv /\ [Next]_vars => [Flashless]_vars
  <2> SUFFICES ASSUME IInv, NInv, Next PROVE Flashless
    OBVIOUS
  <2>1. ASSUME NEW batch \in SUBSET Links, Collect(batch), NEW l \in recent' \ recent, Catchers(l) # {}
        PROVE  hit'[l] \in on'
    <3>1. /\ l \in batch /\ l \in Links /\ l \notin recent \cup older /\ on' = on
          /\ hit' = RecordHits(hit, batch)
      BY <2>1 DEF Collect, table, Tally
    <3>2. hit[l] = NoRule
      BY <3>1 DEF NInv, Archived
    <3>3. (CHOOSE r \in First(l) : TRUE) \in First(l) /\ First(l) \subseteq on
      BY <2>1, FirstCatcher DEF IInv
    <3>4. First(l) # {}
      BY <3>3
    <3>5. hit'[l] = CHOOSE r \in First(l) : TRUE
      BY <3>1, <3>2, <3>4 DEF RecordHits
    <3> QED
      BY <3>1, <3>3, <3>5
  <2>2. CASE recent' \subseteq recent
    BY <2>2
  <2>3. (\E batch \in SUBSET Links : Collect(batch)) \/ recent' \subseteq recent
    BY DEF Next, Age, Keep, Unkeep, Rescan, AddRule, Switch, Reword, Drop, DeleteRule, Restart, stories
  <2> QED
    BY <2>1, <2>2, <2>3
<1>4. IInv /\ NInv => CountsEveryCatch
  BY DEF IInv, TypeOK, NInv, Counted, CaughtOf, CountsEveryCatch
<1> QED
  BY <1>1, <1>2, <1>3, <1>4, AlwaysIInv, PTL DEF Spec, CaughtAtOnce, NoFlash
=============================================================================
