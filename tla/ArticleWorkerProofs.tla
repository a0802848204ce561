------------------------ MODULE ArticleWorkerProofs ------------------------
(***************************************************************************)
(* Proofs about ArticleWorker, for any rows, bodies and number of workers. *)
(*                                                                         *)
(* Every write of a stage names the body it read (WHERE full_text=?), and  *)
(* whoever changes a body empties what was made from the old one in the    *)
(* same transaction; only the synopsis of a dirty body stays behind.  The  *)
(* invariants hold together, once it is known                              *)
(* that a body is only filled in where the row was blank (Unfilled) and    *)
(* that a worker only has rows of the table in hand (RowsInHand).          *)
(***************************************************************************)
EXTENDS ArticleWorker, TLAPS

Unfilled == \A l \in Links \ stored : text[l] = NoText

RowsInHand == \A w \in Workers : \A j \in jobs[w] : j[1] \in stored

\* A row without a body shows no synopsis of one.
BlankUnread == \A l \in Links : text[l] = NoText => synopsis[l] \notin Texts

Sound == MadeFromBody /\ SummaryStands /\ ReadyFromBody /\ StampOfItsBody /\ BlankUnread

IInv == TypeOK /\ Unfilled /\ RowsInHand /\ Sound

LEMMA InitIInv == Init => IInv
<1> SUFFICES ASSUME Init PROVE IInv
  OBVIOUS
<1>1. TypeOK
  BY DEF Init, TypeOK, Column, Blank
<1>2. Unfilled /\ RowsInHand
  BY DEF Init, Unfilled, RowsInHand, Blank
<1>3. Sound
  BY ArticleAssumption
  DEF Init, Sound, MadeFromBody, SummaryStands, ReadyFromBody, StampOfItsBody, BlankUnread, Blank
<1> QED
  BY <1>1, <1>2, <1>3 DEF IInv

\* Emptying a column keeps its shape.
LEMMA EmptiedColumn ==
  ASSUME NEW column \in Column, NEW S
  PROVE  Emptied(column, S) \in Column
BY DEF Column, Emptied

LEMMA CollectorIInv ==
  ASSUME IInv, NEW l \in Links, NEW b \in Texts \cup {NoText},
         Insert(l, b) \/ (b \in Texts /\ Backfill(l, b))
  PROVE  IInv'
<1>1. text[l] = NoText /\ text' = [text EXCEPT ![l] = b] /\ stored \subseteq stored' /\ l \in stored'
  BY DEF Insert, Backfill, IInv, Unfilled
<1>2. UNCHANGED <<hidden, ko, digest, synopsis, status, stamps, at, jobs, ingest, repaired>>
  BY DEF Insert, Backfill
<1>3. TypeOK'
  <2>1. text' \in Column /\ stored' \subseteq Links
    BY <1>1 DEF IInv, TypeOK, Column, Insert, Backfill
  <2> QED
    BY <1>2, <2>1 DEF IInv, TypeOK, stamps
<1>4. Unfilled' /\ RowsInHand'
  BY <1>1, <1>2 DEF IInv, TypeOK, Column, Unfilled, RowsInHand
<1>5. Sound'
  <2>1. MadeFromBody'
    BY <1>1, <1>2, ArticleAssumption DEF IInv, Sound, MadeFromBody, TypeOK, Column
  <2>2. StampOfItsBody'
    BY <1>1, <1>2 DEF IInv, Sound, StampOfItsBody, TypeOK, Column, stamps
  <2>3. SummaryStands'
    <3>1. \A k \in Links : k # l => text'[k] = text[k]
      BY <1>1 DEF IInv, TypeOK, Column
    <3>2. synopsis[l] \notin Texts
      BY <1>1 DEF IInv, Sound, BlankUnread
    <3> QED
      BY <1>2, <3>1, <3>2 DEF IInv, Sound, SummaryStands
  <2>4. ReadyFromBody' /\ BlankUnread'
    BY <1>1, <1>2 DEF IInv, TypeOK, Column, Sound, BlankUnread, ReadyFromBody
  <2> QED
    BY <2>1, <2>2, <2>3, <2>4 DEF Sound
<1> QED
  BY <1>3, <1>4, <1>5 DEF IInv

LEMMA SurroundingsIInv ==
  ASSUME IInv, NEW l \in Links, Elapse(l) \/ Hide(l)
  PROVE  IInv'
<1>1. UNCHANGED <<stored, body, synopsis, status, at, jobs, ingest, repaired>>
  BY DEF Elapse, Hide, stamps
<1>2. /\ hidden' \subseteq Links /\ checked' \subseteq Links
      /\ triedKo' \in Column /\ triedSum' \in Column
      /\ \A k \in Links : triedKo'[k] \in {NoText, triedKo[k]} /\ triedSum'[k] \in {NoText, triedSum[k]}
  <2>1. CASE Elapse(l)
    BY <2>1 DEF Elapse, IInv, TypeOK, Column
  <2>2. CASE Hide(l)
    BY <2>2 DEF Hide, stamps, IInv, TypeOK, Column
  <2> QED
    BY <2>1, <2>2
<1>3. TypeOK'
  BY <1>1, <1>2 DEF IInv, TypeOK, body
<1>4. Unfilled' /\ RowsInHand' /\ MadeFromBody' /\ SummaryStands' /\ ReadyFromBody' /\ BlankUnread'
  BY <1>1 DEF body, IInv, Sound, Unfilled, RowsInHand, MadeFromBody, SummaryStands, ReadyFromBody, BlankUnread
<1>5. StampOfItsBody'
  BY <1>1, <1>2 DEF body, IInv, Sound, StampOfItsBody
<1> QED
  BY <1>3, <1>4, <1>5 DEF IInv, Sound

LEMMA IngestIInv ==
  ASSUME IInv, IngestSelect \/ \E l \in Links : IngestWrite(l) \/ IngestSkip(l)
  PROVE  IInv'
<1>1. UNCHANGED <<stored, hidden, body, status, stamps, at, jobs, repaired>>
  BY DEF IngestSelect, IngestWrite, IngestSkip
<1>2. ingest' \subseteq Links
  BY DEF IngestSelect, IngestWrite, IngestSkip, Incomplete, IInv, TypeOK
<1>3. /\ synopsis' \in [Links -> Texts \cup {NoText, Feed}]
      /\ \A l \in Links : synopsis'[l] \in {synopsis[l], Feed}
      /\ \A l \in Links : synopsis[l] # NoText => synopsis'[l] = synopsis[l]
  BY DEF IngestSelect, IngestWrite, IngestSkip, IInv, TypeOK
<1>4. TypeOK'
  BY <1>1, <1>2, <1>3 DEF body, stamps, IInv, TypeOK
<1>5. Unfilled' /\ RowsInHand' /\ MadeFromBody' /\ StampOfItsBody'
  BY <1>1 DEF body, stamps, IInv, Sound, Unfilled, RowsInHand, MadeFromBody, StampOfItsBody
<1>6. SummaryStands' /\ ReadyFromBody' /\ BlankUnread'
  BY <1>1, <1>3, ArticleAssumption
  DEF body, IInv, Sound, TypeOK, Column, SummaryStands, ReadyFromBody, BlankUnread
<1> QED
  BY <1>4, <1>5, <1>6 DEF IInv, Sound

LEMMA StageIInv ==
  ASSUME IInv, NEW w \in Workers,
         BeginFetch(w) \/ BeginTranslation(w) \/ BeginSummary(w) \/ Finish(w) \/ Kill(w)
  PROVE  IInv'
<1>1. UNCHANGED <<stored, hidden, body, synopsis, status, stamps, ingest, repaired>>
  BY DEF BeginFetch, BeginTranslation, BeginSummary, Finish, Kill, Take
<1>2. /\ at' \in [Workers -> {"off", "fetch", "fetched", "translation", "summary"}]
      /\ jobs' \in [Workers -> SUBSET (Links \X (Texts \cup {NoText}))]
      /\ \A v \in Workers : at'[v] # "fetch" => jobs'[v] \subseteq Links \X Texts
      /\ RowsInHand'
  <2>2. CASE BeginFetch(w) \/ BeginTranslation(w) \/ BeginSummary(w)
    <3> DEFINE S == {l \in Links : NeedsFetch(l)}
               T == {l \in Links : NeedsKo(l)}
               U == {l \in Links : NeedsSummary(l)}
    <3>1. /\ Selected(S) \subseteq stored \X (Texts \cup {NoText})
          /\ Selected(T) \subseteq stored \X Texts
          /\ Selected(U) \subseteq stored \X Texts
      BY DEF Selected, NeedsKo, NeedsSummary, IInv, TypeOK, Column
    <3>2. \/ at' = [at EXCEPT ![w] = "fetch"] /\ jobs' = [jobs EXCEPT ![w] = Selected(S)]
          \/ /\ at' = [at EXCEPT ![w] = "translation"] \/ at' = [at EXCEPT ![w] = "summary"]
             /\ jobs' = [jobs EXCEPT ![w] = Selected(T)] \/ jobs' = [jobs EXCEPT ![w] = Selected(U)]
      BY <2>2 DEF BeginFetch, BeginTranslation, BeginSummary, Take
    <3> HIDE DEF S, T, U
    <3> QED
      BY <1>1, <3>1, <3>2 DEF IInv, TypeOK, RowsInHand
  <2>3. CASE Finish(w) \/ Kill(w)
    BY <2>3 DEF Finish, Kill, IInv, TypeOK, RowsInHand
  <2> QED
    BY <2>2, <2>3
<1>3. TypeOK'
  BY <1>1, <1>2 DEF body, stamps, IInv, TypeOK
<1>4. Unfilled' /\ Sound'
  BY <1>1 DEF body, stamps, IInv, Sound, Unfilled, MadeFromBody, SummaryStands, ReadyFromBody, StampOfItsBody,
    BlankUnread
<1> QED
  BY <1>2, <1>3, <1>4 DEF IInv

LEMMA StoreIInv ==
  ASSUME IInv, NEW w \in Workers, NEW page \in [Links -> Pages], StoreFetched(w, page)
  PROVE  IInv'
<1> DEFINE takes == {l \in Links : (\E b \in Texts \cup {NoText} : <<l, b>> \in jobs[w])
                                    /\ text[l] \in Dirty \cup {NoText}}
           fetched == {l \in takes : page[l] # NoText}
           replaced == {l \in fetched : page[l] # text[l]}
<1>1. /\ text' = [l \in Links |-> IF l \in fetched THEN page[l] ELSE text[l]]
      /\ ko' = Emptied(ko, replaced) /\ digest' = Emptied(digest, replaced)
      /\ triedKo' = Emptied(triedKo, replaced) /\ triedSum' = Emptied(triedSum, replaced)
      /\ checked' = checked \cup takes
  BY DEF StoreFetched
<1>2. UNCHANGED <<stored, hidden, synopsis, status, ingest, repaired>>
  BY DEF StoreFetched
<1>3. at' = [at EXCEPT ![w] = "fetched"] /\ jobs' = [jobs EXCEPT ![w] = {}]
  BY DEF StoreFetched
<1>4. takes \subseteq Links /\ takes \subseteq stored /\ fetched \subseteq takes
  BY DEF IInv, RowsInHand
<1>5. \A l \in Links : l \notin replaced => text'[l] = text[l]
  BY <1>1
<1>6. text' \in Column
  BY <1>1 DEF IInv, TypeOK, Column, Pages
<1>7. \A l \in Links \ stored : text'[l] = text[l]
  BY <1>1, <1>4
<1>a. /\ \A l \in replaced : text[l] \in Dirty \cup {NoText}
      /\ \A l \in Links : text'[l] = NoText => text[l] = NoText
  BY <1>1
<1> HIDE DEF takes, fetched, replaced
<1>8. TypeOK'
  <2>1. ko' \in Column /\ digest' \in Column /\ triedKo' \in Column /\ triedSum' \in Column
    BY <1>1, EmptiedColumn DEF IInv, TypeOK
  <2>2. checked' \subseteq Links
    BY <1>1, <1>4 DEF IInv, TypeOK
  <2> QED
    BY <1>2, <1>3, <1>6, <2>1, <2>2 DEF IInv, TypeOK
<1>9. Unfilled' /\ RowsInHand'
  BY <1>2, <1>3, <1>7 DEF IInv, TypeOK, Unfilled, RowsInHand
<1>10. Sound'
  <2>1. MadeFromBody' /\ StampOfItsBody'
    BY <1>1, <1>5 DEF IInv, Sound, MadeFromBody, StampOfItsBody, Emptied
  <2>2. SummaryStands'
    <3> SUFFICES ASSUME NEW l \in Links
                 PROVE  /\ digest'[l] # NoText => synopsis'[l] = digest'[l]
                        /\ synopsis'[l] \in Texts \ {text'[l]} => synopsis'[l] \in Dirty /\ digest'[l] = NoText
      BY DEF SummaryStands
    <3>1. CASE l \in replaced
      BY <1>1, <1>2, <1>a, <3>1 DEF IInv, Sound, SummaryStands, BlankUnread, Emptied
    <3>2. CASE l \notin replaced
      BY <1>1, <1>2, <1>5, <3>2 DEF IInv, Sound, SummaryStands, Emptied
    <3> QED
      BY <3>1, <3>2
  <2>3. ReadyFromBody' /\ BlankUnread'
    BY <1>2, <1>a DEF IInv, Sound, ReadyFromBody, BlankUnread
  <2> QED
    BY <2>1, <2>2, <2>3 DEF Sound
<1> QED
  BY <1>8, <1>9, <1>10 DEF IInv

\* A job that is done leaves the other jobs alone.
LEMMA JobDone ==
  ASSUME IInv, NEW w \in Workers, NEW j, jobs' = [jobs EXCEPT ![w] = @ \ {j}], UNCHANGED <<stored, at>>
  PROVE  /\ jobs' \in [Workers -> SUBSET (Links \X (Texts \cup {NoText}))]
         /\ \A v \in Workers : at'[v] # "fetch" => jobs'[v] \subseteq Links \X Texts
         /\ RowsInHand'
BY DEF IInv, TypeOK, RowsInHand

LEMMA AttemptIInv ==
  ASSUME IInv, NEW w \in Workers, NEW l \in Links, NEW b \in Texts, Attempt(w, l, b)
  PROVE  IInv'
<1>1. UNCHANGED <<stored, hidden, body, synopsis, status, checked, at, ingest, repaired>>
      /\ jobs' = [jobs EXCEPT ![w] = @ \ {<<l, b>>}]
  BY DEF Attempt
<1>2. /\ triedKo' = [triedKo EXCEPT ![l] = IF at[w] = "translation" /\ text[l] = b THEN b ELSE @]
      /\ triedSum' = [triedSum EXCEPT ![l] = IF at[w] = "summary" /\ text[l] = b THEN b ELSE @]
  BY DEF Attempt
<1>3. TypeOK' /\ RowsInHand'
  BY <1>1, <1>2, JobDone DEF body, IInv, TypeOK, Column
<1>4. StampOfItsBody'
  BY <1>1, <1>2 DEF body, IInv, TypeOK, Column, Sound, StampOfItsBody
<1>5. Unfilled' /\ MadeFromBody' /\ SummaryStands' /\ ReadyFromBody' /\ BlankUnread'
  BY <1>1 DEF body, IInv, Sound, Unfilled, MadeFromBody, SummaryStands, ReadyFromBody, BlankUnread
<1> QED
  BY <1>3, <1>4, <1>5 DEF IInv, Sound

LEMMA TranslatedIInv ==
  ASSUME IInv, NEW w \in Workers, NEW l \in Links, NEW b \in Texts, Translated(w, l, b)
  PROVE  IInv'
<1>1. UNCHANGED <<stored, hidden, text, digest, synopsis, status, checked, triedSum, at, ingest, repaired>>
      /\ jobs' = [jobs EXCEPT ![w] = @ \ {<<l, b>>}]
  BY DEF Translated
<1>2. /\ ko' \in Column /\ triedKo' \in Column
      /\ \A k \in Links : ko'[k] = ko[k] \/ (ko'[k] = text[k] /\ text[k] \in Texts)
      /\ \A k \in Links : triedKo'[k] \in {triedKo[k], text[k]}
  BY DEF Translated, IInv, TypeOK, Column
<1>3. TypeOK' /\ RowsInHand'
  BY <1>1, <1>2, JobDone DEF IInv, TypeOK
<1>4. MadeFromBody' /\ StampOfItsBody'
  BY <1>1, <1>2, ArticleAssumption DEF IInv, Sound, MadeFromBody, StampOfItsBody
<1>5. Unfilled' /\ SummaryStands' /\ ReadyFromBody' /\ BlankUnread'
  BY <1>1 DEF IInv, Sound, Unfilled, SummaryStands, ReadyFromBody, BlankUnread
<1> QED
  BY <1>3, <1>4, <1>5 DEF IInv, Sound

LEMMA SummarizedIInv ==
  ASSUME IInv, NEW w \in Workers, NEW l \in Links, NEW b \in Texts, Summarized(w, l, b)
  PROVE  IInv'
<1>1. UNCHANGED <<stored, hidden, text, ko, checked, triedKo, at, ingest, repaired>>
      /\ jobs' = [jobs EXCEPT ![w] = @ \ {<<l, b>>}]
  BY DEF Summarized
<1>2. CASE text[l] = b /\ ko[l] # NoText /\ digest[l] = NoText
  <2>1. /\ synopsis' = [synopsis EXCEPT ![l] = b] /\ digest' = [digest EXCEPT ![l] = b]
        /\ triedSum' = [triedSum EXCEPT ![l] = b]
        /\ status' = [status EXCEPT ![l] = IF @ = "pending" THEN "ready" ELSE @]
    BY <1>2 DEF Summarized
  <2>2. TypeOK' /\ RowsInHand'
    <3>1. synopsis' \in [Links -> Texts \cup {NoText, Feed}] /\ digest' \in Column /\ triedSum' \in Column
          /\ status' \in [Links -> {"legacy", "pending", "ready"}]
      BY <2>1 DEF IInv, TypeOK, Column
    <3> QED
      BY <1>1, <3>1, JobDone DEF IInv, TypeOK
  <2>3. MadeFromBody' /\ StampOfItsBody'
    BY <1>1, <1>2, <2>1 DEF IInv, TypeOK, Column, Sound, MadeFromBody, StampOfItsBody
  <2>4. SummaryStands' /\ ReadyFromBody' /\ BlankUnread'
    <3>1. \A k \in Links : k # l => /\ synopsis'[k] = synopsis[k] /\ digest'[k] = digest[k]
                                    /\ status'[k] = status[k] /\ text'[k] = text[k]
      BY <1>1, <2>1 DEF IInv, TypeOK, Column
    <3>2. /\ synopsis'[l] = b /\ digest'[l] = b /\ text'[l] = b /\ b # NoText
      BY <1>1, <1>2, <2>1, ArticleAssumption DEF IInv, TypeOK, Column
    <3> QED
      BY <3>1, <3>2 DEF IInv, Sound, SummaryStands, ReadyFromBody, BlankUnread
  <2> QED
    BY <1>1, <2>2, <2>3, <2>4 DEF IInv, Sound, Unfilled
<1>3. CASE ~(text[l] = b /\ ko[l] # NoText /\ digest[l] = NoText)
  <2>1. UNCHANGED <<synopsis, digest, triedSum, status>>
    BY <1>3 DEF Summarized
  <2>2. TypeOK' /\ RowsInHand'
    BY <1>1, <2>1, JobDone DEF IInv, TypeOK
  <2> QED
    BY <1>1, <2>1, <2>2
    DEF IInv, Sound, Unfilled, MadeFromBody, SummaryStands, ReadyFromBody, StampOfItsBody, BlankUnread
<1> QED
  BY <1>2, <1>3

LEMMA RequeueIInv ==
  ASSUME IInv, Requeue
  PROVE  IInv'
<1> DEFINE C == Contaminated
<1>1. /\ status' = [l \in Links |-> IF l \in C THEN "pending" ELSE status[l]]
      /\ text' = Emptied(text, C) /\ ko' = Emptied(ko, C)
      /\ digest' = Emptied(digest, C) /\ synopsis' = Emptied(synopsis, C)
      /\ checked' = checked \ C
      /\ triedKo' = Emptied(triedKo, C) /\ triedSum' = Emptied(triedSum, C)
      /\ repaired' = repaired \cup C
      /\ UNCHANGED <<stored, hidden, at, jobs, ingest>>
  BY DEF Requeue
<1>2. C \subseteq Links
  BY DEF Contaminated, IInv, TypeOK
<1> HIDE DEF C
<1>3. TypeOK'
  <2>1. text' \in Column /\ ko' \in Column /\ digest' \in Column /\ triedKo' \in Column /\ triedSum' \in Column
    BY <1>1, EmptiedColumn DEF IInv, TypeOK
  <2>2. synopsis' \in [Links -> Texts \cup {NoText, Feed}] /\ status' \in [Links -> {"legacy", "pending", "ready"}]
    BY <1>1 DEF IInv, TypeOK, Emptied
  <2> QED
    BY <1>1, <1>2, <2>1, <2>2 DEF IInv, TypeOK
<1>4. Unfilled' /\ RowsInHand'
  BY <1>1 DEF IInv, Unfilled, RowsInHand, Emptied
<1>5. MadeFromBody' /\ StampOfItsBody'
  BY <1>1 DEF IInv, Sound, MadeFromBody, StampOfItsBody, Emptied
<1>6. SummaryStands' /\ ReadyFromBody' /\ BlankUnread'
  BY <1>1, ArticleAssumption DEF IInv, Sound, SummaryStands, ReadyFromBody, BlankUnread, Emptied
<1> QED
  BY <1>3, <1>4, <1>5, <1>6 DEF IInv, Sound

LEMMA NextIInv == IInv /\ [Next]_vars => IInv'
<1> SUFFICES ASSUME IInv, [Next]_vars PROVE IInv'
  OBVIOUS
<1>1. CASE UNCHANGED vars
  BY <1>1 DEF vars, body, stamps, IInv, TypeOK, Unfilled, RowsInHand, Sound, MadeFromBody, SummaryStands,
    ReadyFromBody, StampOfItsBody, BlankUnread
<1>2. CASE Next
  BY <1>2, CollectorIInv, SurroundingsIInv, IngestIInv, StageIInv, StoreIInv, AttemptIInv, TranslatedIInv,
    SummarizedIInv, RequeueIInv DEF Next, Work, IngestAnswer, TranslateBody, SummarizeBody
<1> QED
  BY <1>1, <1>2

LEMMA AlwaysIInv == Spec => []IInv
BY InitIInv, NextIInv, PTL DEF Spec

\* Every column keeps its shape, and no stage ever works on a blank body.
THEOREM ArticleTypeCorrect == Spec => []TypeOK
BY AlwaysIInv, PTL DEF IInv

\* The conditional writes of the stages keep translation, summary hash and attempt stamps with the
\* body they were made from, for any number of workers, sweeps and collectors.
THEOREM NothingStale == Spec => []OfItsBody
BY AlwaysIInv, PTL DEF IInv, Sound, OfItsBody

\* The collector's late headline translation never replaces the summary of the body, and a synopsis of
\* another body is that of a dirty one, at a row that waits to be summarized again.
THEOREM SummaryKept == Spec => []SummaryStands
BY AlwaysIInv, PTL DEF IInv, Sound

\* A ready story has a body and shows a synopsis made from an article body.
THEOREM ReadyGrounded == Spec => []ReadyFromBody
BY AlwaysIInv, PTL DEF IInv, Sound

\* For any rows, bodies, workers and sweeps: translation, hash and stamps are of the body the row
\* holds, and so is the synopsis shown, but for that of a dirty body replaced since the last summary.
THEOREM BodiesHeld == Spec => []BodiesHold
BY ArticleTypeCorrect, NothingStale, SummaryKept, ReadyGrounded, PTL DEF BodiesHold
=============================================================================
