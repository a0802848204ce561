--------------------------- MODULE TgOutboxProofs ---------------------------
(***************************************************************************)
(* Proofs about TgOutbox, for any names, stories and bounds.               *)
(*                                                                         *)
(* No file is lost because a file in hand is staged (InHand) before the    *)
(* watched one is deleted, and a file of a unique name is the one deleted. *)
(* done/ is honest because the row is committed before the file moves      *)
(* (Honest), and rows are written only after the message (RowsTold).       *)
(* Repeats are paid for because a message without a row is in flight or    *)
(* cost a mishap (Paid); starts are, because each watched file is worth    *)
(* two of them (Spent).                                                    *)
(***************************************************************************)
EXTENDS TgOutbox, FiniteSetTheorems, TLAPS

InHand == pc \in {"unlink", "send", "record", "posted", "refused"} => item \in staged

Honest ==
  /\ pc = "posted" => item.story \in recorded
  /\ pc = "record" => told[item.story] > 0

RowsTold == \A s \in recorded : told[s] > 0

DoneRecorded == \A i \in done : i.story \in recorded

IInv == TypeOK /\ InHand /\ Honest /\ RowsTold /\ DoneRecorded /\ Kept

\* Writing or removing a file keeps a directory one.
LEMMA DirectoryPut ==
  ASSUME NEW dir, NEW i \in written, Directory(dir)
  PROVE  Directory(Put(dir, i))
BY DEF Directory, Put, Without

LEMMA DirectoryWithout ==
  ASSUME NEW dir, NEW n, Directory(dir)
  PROVE  Directory(Without(dir, n))
BY DEF Directory, Without

\* A listing holds file names.
LEMMA Listing ==
  ASSUME NEW dir, Directory(dir), written \subseteq Items
  PROVE  NamesOf(dir) \subseteq Names
BY DEF Directory, NamesOf, Items

LEMMA InitIInv == Init => IInv
<1> SUFFICES ASSUME Init PROVE IInv
  OBVIOUS
<1>1. IsFiniteSet(written)
  BY FS_EmptySet DEF Init
<1>2. told \in [Stories -> Nat]
  BY DEF Init
<1>3. TypeOK
  BY <1>1, <1>2 DEF Init, TypeOK, Directory, Working
<1>4. InHand /\ Honest /\ RowsTold /\ DoneRecorded /\ Kept
  BY DEF Init, InHand, Honest, RowsTold, DoneRecorded, Kept, Unique
<1> QED
  BY <1>3, <1>4 DEF IInv

LEMMA WriteIInv ==
  ASSUME IInv, NEW n \in Names, NEW s \in Stories, Write(n, s)
  PROVE  IInv'
<1> DEFINE i == [name |-> n, no |-> Cardinality(written), story |-> s]
<1>1. IsFiniteSet(written) /\ IsFiniteSet(written \cup {i})
  BY FS_AddElement DEF IInv, TypeOK
<1>2. i \in Items
  BY <1>1, FS_CardinalityType DEF Items
<1>3. written' = written \cup {i} /\ queued' = Put(queued, i)
  BY DEF Write
<1>4. i.name = n
  OBVIOUS
<1> HIDE DEF i
<1>5. TypeOK'
  <2>1. Directory(queued)'
    BY <1>3 DEF IInv, TypeOK, Directory, Put, Without
  <2>2. Directory(staged)' /\ Directory(done)' /\ Directory(failed)'
    BY <1>3 DEF Write, IInv, TypeOK, Directory
  <2> QED
    BY <1>1, <1>2, <1>3, <2>1, <2>2 DEF Write, posts, IInv, TypeOK
<1>7. Kept'
  <2> SUFFICES ASSUME NEW j \in written', Unique(j)'
               PROVE  j \in queued' \cup staged \cup done \cup failed
    BY DEF Kept, Unique, Write
  <2>1. CASE j = i
    BY <2>1, <1>3 DEF Put
  <2>2. CASE j \in written
    <3>1. j = i \/ j.name # n
      BY <1>3, <1>4 DEF Unique
    <3>2. Unique(j)
      BY <1>3 DEF Unique
    <3> QED
      BY <2>1, <2>2, <3>1, <3>2, <1>3, <1>4 DEF IInv, Kept, Unique, Put, Without
  <2> QED
    BY <1>3, <2>1, <2>2
<1>8. (InHand /\ Honest /\ RowsTold /\ DoneRecorded)'
  BY DEF Write, posts, IInv, InHand, Honest, RowsTold, DoneRecorded
<1> QED
  BY <1>5, <1>7, <1>8 DEF IInv

LEMMA TickerIInv ==
  ASSUME IInv, NEW s \in Stories, TickerPosts(s)
  PROVE  IInv'
<1>1. told \in [Stories -> Nat] /\ told' = [told EXCEPT ![s] = @ + 1] /\ recorded' = recorded \cup {s}
  BY DEF TickerPosts, IInv, TypeOK
<1>2. told' \in [Stories -> Nat] /\ \A t \in Stories : told[t] > 0 \/ t = s => told'[t] > 0
  BY <1>1
<1>3. TypeOK' /\ InHand' /\ Kept' /\ DoneRecorded'
  BY <1>1, <1>2 DEF TickerPosts, dirs, IInv, TypeOK, Directory, InHand, Kept, Unique, DoneRecorded
<1>4. RowsTold'
  BY <1>1, <1>2 DEF IInv, TypeOK, RowsTold
<1>5. Honest'
  <2>1. pc' = pc /\ item' = item
    BY DEF TickerPosts
  <2>2. pc = "record" => item.story \in Stories
    BY DEF IInv, TypeOK, InHand, Directory, Items
  <2> QED
    BY <1>1, <1>2, <2>1, <2>2 DEF IInv, Honest
<1> QED
  BY <1>3, <1>4, <1>5 DEF IInv

\* What a step that posts nothing has to show.
LEMMA QuietIInv ==
  ASSUME IInv, UNCHANGED <<written, posts>>, TypeOK', InHand', Kept', Honest', DoneRecorded'
  PROVE  IInv'
BY DEF IInv, posts, RowsTold

LEMMA StagingIInv ==
  ASSUME IInv, Start \/ (\E i \in queued : Copy(i)) \/ Unlink \/ Open
  PROVE  IInv'
<1>1. CASE Start
  <2>1. TypeOK'
    <3>1. NamesOf(queued) \subseteq Names
      BY Listing DEF IInv, TypeOK
    <3>2. starts' = starts + 1 /\ modified' = FALSE /\ todo' = NamesOf(queued)
      BY <1>1, Zenon DEF Start
    <3>3. starts' \in Nat /\ modified' \in BOOLEAN /\ todo' \subseteq Names
      <4>1. starts \in Nat
        BY DEF IInv, TypeOK
      <4>2. modified' \in BOOLEAN
        BY <3>2
      <4> QED
        BY <3>1, <3>2, <4>1, <4>2
    <3>4. pc' \in Working \cup {"inactive"}
      BY <1>1 DEF Start, Working
    <3>5. UNCHANGED <<dirs, written, item, posts, mishaps>>
      BY <1>1 DEF Start
    <3> QED
      BY <3>3, <3>4, <3>5 DEF dirs, posts, IInv, TypeOK, Directory
  <2> QED
    BY <1>1, <2>1, QuietIInv DEF Start, dirs, posts, IInv, InHand, Honest, DoneRecorded, Kept, Unique
<1>2. ASSUME NEW i \in queued, Copy(i) PROVE IInv'
  <2>1. i \in written /\ i \in Items
    BY DEF IInv, TypeOK, Directory
  <2>2. Directory(Put(staged, i))
    BY <2>1, DirectoryPut DEF IInv, TypeOK
  <2>3. TypeOK'
    BY <1>2, <2>1, <2>2 DEF Copy, posts, IInv, TypeOK, Directory, Working
  <2>4. Kept'
    BY <1>2, <2>1 DEF Copy, IInv, TypeOK, Directory, Kept, Unique, Put, Without
  <2>5. InHand' /\ Honest' /\ DoneRecorded'
    BY <1>2 DEF Copy, posts, IInv, InHand, Honest, DoneRecorded, Put
  <2> QED
    BY <1>2, <2>3, <2>4, <2>5, QuietIInv DEF Copy
<1>3. CASE Unlink
  <2>1. item \in staged /\ item \in written
    BY <1>3 DEF Unlink, IInv, InHand, TypeOK, Directory
  <2>2. Directory(Without(queued, item.name))
    BY DirectoryWithout DEF IInv, TypeOK
  <2>3. TypeOK'
    BY <1>3, <2>2 DEF Unlink, posts, IInv, TypeOK, Directory, Working
  <2>4. Kept'
    BY <1>3, <2>1 DEF Unlink, IInv, TypeOK, Directory, Kept, Unique, Without
  <2>5. InHand' /\ Honest' /\ DoneRecorded'
    BY <1>3 DEF Unlink, posts, IInv, InHand, Honest, DoneRecorded
  <2> QED
    BY <1>3, <2>3, <2>4, <2>5, QuietIInv DEF Unlink
<1>4. CASE Open
  <2>1. TypeOK'
    <3>1. NamesOf(staged) \subseteq Names
      BY Listing DEF IInv, TypeOK
    <3> QED
      BY <1>4, <3>1 DEF Open, dirs, posts, IInv, TypeOK, Directory, Working
  <2> QED
    BY <1>4, <2>1, QuietIInv DEF Open, dirs, posts, IInv, InHand, Honest, DoneRecorded, Kept, Unique
<1> QED
  BY <1>1, <1>2, <1>3, <1>4

LEMMA PostingIInv ==
  ASSUME IInv,
         \/ \E i \in staged : Pass(i) \/ Refuse(i)
         \/ Deliver \/ TelegramRefuses \/ AnswerLost \/ Record
  PROVE  IInv'
<1>1. ASSUME NEW i \in staged, Pass(i) \/ Refuse(i) PROVE IInv'
  <2>1. TypeOK'
    BY <1>1 DEF Pass, Refuse, dirs, posts, IInv, TypeOK, Directory, Working
  <2> QED
    BY <1>1, <2>1, QuietIInv
    DEF Pass, Refuse, dirs, posts, IInv, InHand, Honest, DoneRecorded, Kept, Unique
<1>2. CASE Deliver \/ AnswerLost
  <2>1. item \in staged /\ item.story \in Stories
    BY <1>2 DEF Deliver, AnswerLost, IInv, InHand, TypeOK, Directory, Items
  <2>2. told' = [told EXCEPT ![item.story] = @ + 1] /\ told \in [Stories -> Nat]
    BY <1>2 DEF Deliver, AnswerLost, IInv, TypeOK
  <2>3. told' \in [Stories -> Nat] /\ told'[item.story] > 0 /\ \A t \in Stories : told[t] > 0 => told'[t] > 0
    BY <2>1, <2>2
  <2>4. UNCHANGED <<dirs, written, modified, starts, todo, item, recorded>>
        /\ pc' \in {"record", "refused"} /\ mishaps' \in Nat
    BY <1>2 DEF Deliver, AnswerLost, IInv, TypeOK
  <2>5. TypeOK' /\ InHand' /\ DoneRecorded' /\ Kept'
    BY <2>1, <2>3, <2>4 DEF dirs, IInv, TypeOK, Directory, InHand, DoneRecorded, Kept, Unique, Working
  <2>6. Honest' /\ RowsTold'
    BY <2>3, <2>4 DEF IInv, TypeOK, Honest, RowsTold
  <2> QED
    BY <2>5, <2>6 DEF IInv
<1>3. CASE TelegramRefuses
  <2>1. TypeOK'
    BY <1>3 DEF TelegramRefuses, dirs, posts, IInv, TypeOK, Directory, Working
  <2> QED
    BY <1>3, <2>1, QuietIInv
    DEF TelegramRefuses, dirs, posts, IInv, InHand, Honest, DoneRecorded, Kept, Unique
<1>4. CASE Record
  <2>1. item \in staged /\ item.story \in Stories
    BY <1>4 DEF Record, IInv, InHand, TypeOK, Directory, Items
  <2>2. TypeOK'
    BY <1>4, <2>1 DEF Record, dirs, IInv, TypeOK, Directory, Working
  <2> QED
    BY <1>4, <2>1, <2>2
    DEF Record, dirs, IInv, InHand, Honest, RowsTold, DoneRecorded, Kept, Unique
<1> QED
  BY <1>1, <1>2, <1>3, <1>4

LEMMA FilingIInv ==
  ASSUME IInv, SetAside \/ SetAsideFails \/ Kill
  PROVE  IInv'
<1>1. CASE SetAside
  <2>1. item \in staged /\ item \in written
    BY <1>1 DEF SetAside, IInv, InHand, TypeOK, Directory
  <2>2. Directory(Without(staged, item.name)) /\ Directory(Put(done, item)) /\ Directory(Put(failed, item))
    BY <2>1, DirectoryWithout, DirectoryPut DEF IInv, TypeOK
  <2>3. TypeOK'
    <3>1. Directory(staged)' /\ Directory(queued)'
      BY <1>1, <2>2 DEF SetAside, IInv, TypeOK, Directory
    <3>2. Directory(done)' /\ Directory(failed)'
      BY <1>1, <2>2 DEF SetAside, IInv, TypeOK, Directory
    <3> QED
      BY <1>1, <3>1, <3>2 DEF SetAside, posts, IInv, TypeOK, Onward, Working
  <2>4. Kept'
    <3> SUFFICES ASSUME NEW j \in written, Unique(j), j \notin queued
                 PROVE  j \in staged' \cup done' \cup failed'
      BY <1>1 DEF Kept, Unique, SetAside
    <3>1. CASE j = item
      BY <1>1, <3>1 DEF SetAside, Put
    <3>2. CASE j # item
      <4>1. j.name # item.name
        BY <2>1, <3>2 DEF Unique
      <4> QED
        BY <1>1, <4>1 DEF SetAside, IInv, Kept, Unique, Put, Without
    <3> QED
      BY <3>1, <3>2
  <2>5. DoneRecorded'
    BY <1>1 DEF SetAside, posts, IInv, DoneRecorded, Honest, Put, Without
  <2>6. InHand' /\ Honest'
    BY <1>1 DEF SetAside, Onward, InHand, Honest
  <2> QED
    BY <1>1, <2>3, <2>4, <2>5, <2>6, QuietIInv DEF SetAside
<1>2. CASE SetAsideFails \/ Kill
  <2>1. TypeOK'
    BY <1>2 DEF SetAsideFails, Kill, dirs, posts, IInv, TypeOK, Directory, Onward, Working
  <2> QED
    BY <1>2, <2>1, QuietIInv
    DEF SetAsideFails, Kill, dirs, posts, Onward, IInv, InHand, Honest, DoneRecorded, Kept, Unique
<1> QED
  BY <1>1, <1>2

LEMMA NextIInv == IInv /\ [Next]_vars => IInv'
<1> SUFFICES ASSUME IInv, [Next]_vars PROVE IInv'
  OBVIOUS
<1>1. CASE UNCHANGED vars
  BY <1>1 DEF vars, dirs, posts, IInv, TypeOK, Directory, InHand, Honest, RowsTold, DoneRecorded, Kept, Unique
<1>2. CASE Next
  BY <1>2, WriteIInv, TickerIInv, StagingIInv, PostingIInv, FilingIInv DEF Next, Serve, Mishap
<1> QED
  BY <1>1, <1>2

LEMMA AlwaysIInv == Spec => []IInv
BY InitIInv, NextIInv, PTL DEF Spec

\* Every variable keeps its shape, and no directory ever holds two files of one name.
THEOREM OutboxTypeCorrect == Spec => []TypeOK
BY AlwaysIInv, PTL DEF IInv

\* tg_outbox_drain.sh copies before it deletes and drain_outbox moves by rename, so no kill between
\* two steps loses a file of a name of its own.
THEOREM NothingLost == Spec => []Kept
BY AlwaysIInv, PTL DEF IInv

\* What drain_outbox files under done/ is in the channel and in tg_posted.
THEOREM DoneHonest == Spec => []DoneIsPosted
<1>1. IInv => DoneIsPosted
  BY DEF IInv, DoneRecorded, RowsTold, DoneIsPosted
<1> QED
  BY <1>1, AlwaysIInv, PTL

\* Between the check and the message the row stays absent, for a story the ticker leaves alone.
Unrecorded == pc = "send" /\ item.story \in Own => item.story \notin recorded

LEMMA UnrecordedNext ==
  ASSUME IInv, Unrecorded, [Next]_vars
  PROVE  Unrecorded'
<1>1. CASE \E i \in staged : Pass(i)
  BY <1>1 DEF Pass, posts, Unrecorded
<1>2. CASE Record
  BY <1>2 DEF Record, Unrecorded
<1>3. CASE pc' = pc /\ item' = item /\ recorded' \subseteq recorded \cup Ticked
  BY <1>3 DEF Unrecorded, Own
<1>4. CASE pc' # "send"
  BY <1>4 DEF Unrecorded
<1>5. \/ \E i \in staged : Pass(i)
      \/ Record
      \/ pc' = pc /\ item' = item /\ recorded' \subseteq recorded \cup Ticked
      \/ pc' # "send"
  <2>1. CASE UNCHANGED vars
    BY <2>1 DEF vars, posts
  <2>2. CASE (\E n \in Names, s \in Stories : Write(n, s)) \/ (\E s \in Stories : TickerPosts(s))
    BY <2>2 DEF Write, TickerPosts, posts
  <2>3. CASE Serve
    BY <2>3 DEF Serve, Start, Copy, Unlink, Open, Refuse, Deliver, TelegramRefuses, SetAside, Onward
  <2>4. CASE Mishap
    BY <2>4 DEF Mishap, AnswerLost, SetAsideFails, Kill, Onward
  <2> QED
    BY <2>1, <2>2, <2>3, <2>4 DEF Next
<1> QED
  BY <1>1, <1>2, <1>3, <1>4, <1>5

\* What Outlet sees of a message of story x, and of the stories left alone.
LEMMA SeenMessage ==
  ASSUME IInv, NEW x \in Stories, told' = [told EXCEPT ![x] = @ + 1]
  PROVE  [t \in Own |-> told'[t]] =
           IF x \in Own THEN [[t \in Own |-> told[t]] EXCEPT ![x] = @ + 1] ELSE [t \in Own |-> told[t]]
<1>1. told \in [Stories -> Nat] /\ Own \subseteq Stories
  BY DEF IInv, TypeOK, Own
<1> QED
  BY <1>1

LEMMA PromiseStep ==
  ASSUME IInv, Unrecorded, [Next]_vars
  PROVE  [Promise!Next]_(Promise!outletVars)
<1>1. CASE Deliver \/ AnswerLost
  <2>1. item.story \in Stories /\ recorded' = recorded
    BY <1>1 DEF Deliver, AnswerLost, IInv, InHand, TypeOK, Directory, Items
  <2>2. told' = [told EXCEPT ![item.story] = @ + 1]
    BY <1>1 DEF Deliver, AnswerLost
  <2>3. CASE item.story \in Own
    <3>1. item.story \notin recorded
      BY <1>1, <2>3 DEF Deliver, AnswerLost, Unrecorded
    <3>2. /\ item.story \notin recorded \ Ticked
          /\ [t \in Own |-> told'[t]] = [[t \in Own |-> told[t]] EXCEPT ![item.story] = @ + 1]
          /\ recorded' \ Ticked = recorded \ Ticked
      BY <2>1, <2>2, <2>3, <3>1, SeenMessage
    <3>3. \E s \in Own : Promise!Publish(s)
      BY <2>3, <3>2 DEF Promise!Publish
    <3> QED
      BY <3>3 DEF Promise!Next
  <2>4. CASE item.story \notin Own
    BY <2>1, <2>2, <2>4, SeenMessage DEF Promise!outletVars
  <2> QED
    BY <2>3, <2>4
<1>2. CASE Record
  <2>1. item.story \in Stories /\ told[item.story] > 0
    BY <1>2 DEF Record, IInv, InHand, TypeOK, Directory, Items, Honest
  <2>2. told' = told /\ recorded' = recorded \cup {item.story}
    BY <1>2 DEF Record
  <2>3. CASE item.story \in Own
    <3>1. Promise!Record(item.story)
      BY <2>1, <2>2, <2>3 DEF Promise!Record, Own
    <3> QED
      BY <2>3, <3>1 DEF Promise!Next
  <2>4. CASE item.story \notin Own
    BY <2>1, <2>2, <2>4 DEF Promise!outletVars, Own
  <2> QED
    BY <2>3, <2>4
<1>3. CASE \E s \in Stories : TickerPosts(s)
  <2> PICK s \in Stories : TickerPosts(s)
    BY <1>3
  <2>1. s \in Ticked /\ s \notin Own
    BY DEF TickerPosts, Own
  <2>2. told' = [told EXCEPT ![s] = @ + 1] /\ recorded' = recorded \cup {s}
    BY DEF TickerPosts
  <2> QED
    BY <2>1, <2>2, SeenMessage DEF Promise!outletVars
<1>4. CASE UNCHANGED posts
  BY <1>4 DEF posts, Promise!outletVars
<1>5. Deliver \/ AnswerLost \/ Record \/ (\E s \in Stories : TickerPosts(s)) \/ UNCHANGED posts
  BY DEF Next, vars, Serve, Mishap, Write, Start, Copy, Unlink, Open, Pass, Refuse,
    TelegramRefuses, SetAside, SetAsideFails, Kill
<1> QED
  BY <1>1, <1>2, <1>3, <1>4, <1>5

\* For the stories no ticker posts, the outbox implements Outlet: a link tg_posted holds is never
\* posted again, whatever is killed or lost.
THEOREM OutboxKeepsPromise == Spec => KeepsPromise
<1>1. Init => Promise!Init
  BY DEF Init, Promise!Init, Own
<1>2. Init => Unrecorded
  BY DEF Init, Unrecorded
<1>3. Spec => []Unrecorded
  BY <1>2, AlwaysIInv, UnrecordedNext, PTL DEF Spec
<1> QED
  BY <1>1, <1>3, AlwaysIInv, PromiseStep, PTL DEF Spec, KeepsPromise, Promise!Spec

\* The directories, whatever is killed, lost or fails to move: the three facts the runs check.
THEOREM FilesHeld == Spec => []FilesHold
BY OutboxTypeCorrect, NothingLost, DoneHonest, PTL DEF FilesHold

-----------------------------------------------------------------------------
\* A story without a row has been told by mishaps and by the message in flight only; one with a row
\* has been told once more, and a ticker's story twice: its row may come between check and message.
Paid(s) ==
  /\ s \notin recorded => told[s] <= mishaps + (IF pc = "record" /\ item.story = s THEN 1 ELSE 0)
  /\ s \in recorded => told[s] <= mishaps + 1 + (IF s \in Ticked THEN 1 ELSE 0)
  /\ pc = "send" /\ item.story = s /\ s \in recorded => s \in Ticked /\ told[s] <= mishaps + 1

LEMMA PaidNext ==
  ASSUME IInv, IInv', NEW s \in Stories, Paid(s), [Next]_vars
  PROVE  Paid(s)'
<1>0. /\ told \in [Stories -> Nat] /\ told' \in [Stories -> Nat]
      /\ told[s] \in Nat /\ mishaps \in Nat
  BY DEF IInv, TypeOK
<1>i. pc \in {"send", "record"} => item.story \in Stories
  BY DEF IInv, TypeOK, InHand, Directory, Items
<1>1. CASE UNCHANGED posts /\ pc' = pc /\ item' = item /\ mishaps' = mishaps
  BY <1>1 DEF Paid, posts
<1>2. CASE UNCHANGED posts /\ mishaps' = mishaps /\ pc # "record" /\ pc' \notin {"record", "send"}
  BY <1>2, <1>0 DEF Paid, posts
<1>3. ASSUME NEW i \in staged, Pass(i) PROVE Paid(s)'
  <2>1. /\ i.story \notin recorded /\ item' = i /\ pc = "check" /\ pc' = "send"
        /\ UNCHANGED <<told, recorded, mishaps>>
    BY <1>3 DEF Pass, posts
  <2> QED
    BY <2>1, <1>0 DEF Paid
<1>4. CASE UNCHANGED posts /\ mishaps' = mishaps + 1 /\ pc' \notin {"record", "send"}
  BY <1>4, <1>0 DEF Paid, posts
<1>5. CASE Deliver
  <2>1. /\ pc = "send" /\ pc' = "record" /\ told' = [told EXCEPT ![item.story] = @ + 1]
        /\ UNCHANGED <<item, recorded, mishaps>>
    BY <1>5 DEF Deliver
  <2>2. told'[s] = (IF item.story = s THEN told[s] + 1 ELSE told[s])
    BY <2>1, <1>0, <1>i
  <2> QED
    BY <2>1, <2>2, <1>0 DEF Paid
<1>6. CASE AnswerLost
  <2>1. /\ pc = "send" /\ pc' = "refused" /\ told' = [told EXCEPT ![item.story] = @ + 1]
        /\ mishaps' = mishaps + 1 /\ UNCHANGED <<item, recorded>>
    BY <1>6 DEF AnswerLost
  <2>2. told'[s] = (IF item.story = s THEN told[s] + 1 ELSE told[s])
    BY <2>1, <1>0, <1>i
  <2> QED
    BY <2>1, <2>2, <1>0 DEF Paid
<1>7. CASE Record
  <2>1. /\ pc = "record" /\ pc' = "posted" /\ recorded' = recorded \cup {item.story}
        /\ UNCHANGED <<item, told, mishaps>>
    BY <1>7 DEF Record
  <2> QED
    BY <2>1, <1>0 DEF Paid
<1>8. ASSUME NEW t \in Stories, TickerPosts(t) PROVE Paid(s)'
  <2>1. /\ t \in Ticked /\ t \notin recorded /\ recorded' = recorded \cup {t}
        /\ told' = [told EXCEPT ![t] = @ + 1] /\ UNCHANGED <<pc, item, mishaps>>
    BY <1>8 DEF TickerPosts
  <2>2. told'[s] = (IF t = s THEN told[s] + 1 ELSE told[s])
    BY <2>1, <1>0
  <2> QED
    BY <2>1, <2>2, <1>0 DEF Paid
<1>9. CASE UNCHANGED vars \/ (\E n \in Names, t \in Stories : Write(n, t)) \/ Start
           \/ (\E i \in queued : Copy(i)) \/ Unlink \/ Open \/ (\E i \in staged : Refuse(i))
           \/ TelegramRefuses \/ SetAside
  <2>1. UNCHANGED posts /\ mishaps' = mishaps
        /\ ((pc' = pc /\ item' = item) \/ (pc # "record" /\ pc' \notin {"record", "send"}))
    <3>1. CASE UNCHANGED vars \/ (\E n \in Names, t \in Stories : Write(n, t))
      BY <3>1 DEF vars, Write
    <3>2. CASE Start \/ (\E i \in queued : Copy(i)) \/ Unlink \/ Open
      BY <3>2 DEF Start, Copy, Unlink, Open
    <3>3. CASE (\E i \in staged : Refuse(i)) \/ TelegramRefuses \/ SetAside
      BY <3>3 DEF Refuse, TelegramRefuses, SetAside, Onward
    <3> QED
      BY <1>9, <3>1, <3>2, <3>3
  <2> QED
    BY <2>1, <1>1, <1>2
<1>10. CASE SetAsideFails \/ Kill
  BY <1>4, <1>10 DEF SetAsideFails, Kill, Onward
<1> QED
  BY <1>3, <1>5, <1>6, <1>7, <1>8, <1>9, <1>10 DEF Next, Serve, Mishap

\* drain_outbox asks tg_posted before it sends and writes its row after: each further message of a
\* story is paid for by a mishap, or by the ticker's post between the two.
THEOREM RepeatsPaid == Spec => []PaidRepeats
<1> DEFINE Inv == \A s \in Stories : Paid(s)
<1>1. Init => Inv
  <2> SUFFICES ASSUME Init, NEW s \in Stories PROVE Paid(s)
    OBVIOUS
  <2>1. told[s] = 0 /\ recorded = {} /\ pc = "inactive" /\ mishaps = 0
    BY DEF Init
  <2> QED
    BY <2>1 DEF Paid
<1>2. IInv /\ IInv' /\ Inv /\ [Next]_vars => Inv'
  BY PaidNext
<1>3. IInv /\ Inv => PaidRepeats
  <2> SUFFICES ASSUME IInv, Inv, NEW s \in Stories
               PROVE  told[s] <= 1 + mishaps + (IF s \in Ticked THEN 1 ELSE 0)
    BY DEF PaidRepeats
  <2>1. told[s] \in Nat /\ mishaps \in Nat /\ Paid(s)
    BY DEF IInv, TypeOK
  <2> QED
    BY <2>1 DEF Paid
<1> QED
  BY <1>1, <1>2, <1>3, AlwaysIInv, PTL DEF Spec
-----------------------------------------------------------------------------
\* Files are numbered as they are written, and a run stages only what is still watched.
Numbered == \A i \in written : i.no < Cardinality(written)
Listed == pc \in {"stage", "unlink"} =>
  /\ todo # {} /\ todo \subseteq NamesOf(queued)
  /\ pc = "unlink" => item.name \in todo

\* A watched file is worth two starts, one to stage it and one for the change of taking it away;
\* a run that is staging has used one of them in advance.
Spent ==
  starts + 2 * Cardinality(queued) + (IF modified /\ queued = {} THEN 1 ELSE 0)
    <= 2 * Cardinality(written) + mishaps + (IF pc \in {"stage", "unlink"} THEN 1 ELSE 0)

SInv == Numbered /\ Listed /\ Spent

LEMMA Counts ==
  ASSUME IInv
  PROVE  /\ IsFiniteSet(written) /\ IsFiniteSet(queued)
         /\ Cardinality(written) \in Nat /\ Cardinality(queued) \in Nat
         /\ queued = {} <=> Cardinality(queued) = 0
         /\ starts \in Nat /\ mishaps \in Nat
<1>1. IsFiniteSet(written) /\ IsFiniteSet(queued)
  BY FS_Subset DEF IInv, TypeOK, Directory
<1> QED
  BY <1>1, FS_CardinalityType, FS_EmptySet DEF IInv, TypeOK

LEMMA WriteSInv ==
  ASSUME IInv, IInv', SInv, NEW n \in Names, NEW s \in Stories, Write(n, s)
  PROVE  SInv'
<1> DEFINE i == [name |-> n, no |-> Cardinality(written), story |-> s]
<1>1. /\ written' = written \cup {i} /\ queued' = Put(queued, i)
      /\ UNCHANGED <<pc, todo, item, starts, mishaps>>
  BY DEF Write
<1>2. i.name = n /\ i.no = Cardinality(written)
  OBVIOUS
<1> HIDE DEF i
<1>c. /\ IsFiniteSet(written) /\ IsFiniteSet(queued)
      /\ Cardinality(written) \in Nat /\ Cardinality(queued) \in Nat
      /\ starts \in Nat /\ mishaps \in Nat
  BY Counts
<1>3. i \notin written
  BY <1>2, <1>c DEF SInv, Numbered
<1>4. Cardinality(written') = Cardinality(written) + 1
  BY <1>1, <1>3, <1>c, FS_AddElement
<1>5. Numbered'
  BY <1>1, <1>2, <1>4, <1>c DEF SInv, Numbered, IInv, TypeOK, Items
<1>6. Listed'
  BY <1>1, <1>2 DEF SInv, Listed, NamesOf, Put, Without
<1>7. queued' # {} /\ Cardinality(queued') \in Nat /\ Cardinality(queued') <= Cardinality(queued) + 1
  <2>1. IsFiniteSet(Without(queued, n)) /\ Cardinality(Without(queued, n)) <= Cardinality(queued)
    BY <1>c, FS_Subset DEF Without
  <2>2. queued' = Without(queued, n) \cup {i} /\ i \notin Without(queued, n)
    BY <1>1, <1>2 DEF Put, Without
  <2>3. Cardinality(queued') = Cardinality(Without(queued, n)) + 1 /\ IsFiniteSet(queued')
    BY <2>1, <2>2, FS_AddElement
  <2>4. Cardinality(Without(queued, n)) \in Nat
    BY <2>1, FS_CardinalityType
  <2> QED
    BY <2>1, <2>2, <2>3, <2>4, <1>c
<1>8. Spent'
  BY <1>1, <1>4, <1>7, <1>c DEF SInv, Spent
<1> QED
  BY <1>5, <1>6, <1>8 DEF SInv

LEMMA UnlinkSInv ==
  ASSUME IInv, IInv', SInv, Unlink
  PROVE  SInv'
<1>1. /\ pc = "unlink" /\ queued' = Without(queued, item.name) /\ modified' = TRUE
      /\ todo' = todo \ {item.name}
      /\ pc' = (IF todo' = {} THEN "open" ELSE "stage")
      /\ UNCHANGED <<written, starts, mishaps>>
  BY DEF Unlink
<1>2. item.name \in todo /\ todo \subseteq NamesOf(queued)
  BY <1>1 DEF SInv, Listed
<1>c. /\ IsFiniteSet(queued) /\ Cardinality(written) \in Nat /\ Cardinality(queued) \in Nat
      /\ starts \in Nat /\ mishaps \in Nat
  BY Counts
<1>3. PICK i \in queued : i.name = item.name
  BY <1>2 DEF NamesOf
<1>4. queued' = queued \ {i}
  BY <1>1, <1>3 DEF Without, IInv, TypeOK, Directory
<1>5. Cardinality(queued') = Cardinality(queued) - 1
  BY <1>3, <1>4, <1>c, FS_RemoveElement
<1>6. Numbered'
  BY <1>1 DEF SInv, Numbered
<1>7. Listed'
  <2>1. todo' \subseteq NamesOf(queued')
    BY <1>1, <1>2 DEF NamesOf, Without
  <2> QED
    BY <2>1, <1>1 DEF Listed, NamesOf
<1>8. pc' = "stage" => queued' # {}
  BY <1>7 DEF Listed, NamesOf
<1>9. Spent'
  <2>1. starts + 2 * Cardinality(queued) <= 2 * Cardinality(written) + mishaps + 1
    BY <1>1, <1>c DEF SInv, Spent
  <2>2. CASE pc' = "stage"
    BY <2>1, <2>2, <1>1, <1>5, <1>8, <1>c DEF Spent
  <2>3. CASE pc' = "open"
    BY <2>1, <2>3, <1>1, <1>5, <1>c DEF Spent
  <2> QED
    BY <2>2, <2>3, <1>1
<1> QED
  BY <1>6, <1>7, <1>9 DEF SInv

LEMMA StartSInv ==
  ASSUME IInv, SInv, Start
  PROVE  SInv'
<1>1. /\ pc = "inactive" /\ (queued # {} \/ modified)
      /\ modified' = FALSE /\ starts' = starts + 1 /\ todo' = NamesOf(queued)
      /\ pc' = (IF queued = {} THEN "inactive" ELSE "stage")
      /\ UNCHANGED <<queued, written, mishaps>>
  BY DEF Start, dirs
<1>c. /\ Cardinality(written) \in Nat /\ Cardinality(queued) \in Nat
      /\ starts \in Nat /\ mishaps \in Nat
  BY Counts
<1>2. Numbered'
  BY <1>1 DEF SInv, Numbered
<1>3. Listed'
  BY <1>1 DEF Listed, NamesOf
<1>4. Spent'
  <2>1. starts + 2 * Cardinality(queued) + (IF modified /\ queued = {} THEN 1 ELSE 0)
          <= 2 * Cardinality(written) + mishaps
    BY <1>1, <1>c DEF SInv, Spent
  <2>2. CASE queued = {}
    BY <2>1, <2>2, <1>1, <1>c DEF Spent
  <2>3. CASE queued # {}
    BY <2>1, <2>3, <1>1, <1>c DEF Spent
  <2> QED
    BY <2>2, <2>3
<1> QED
  BY <1>2, <1>3, <1>4 DEF SInv

\* Every other step leaves the directory and the trigger alone; a kill pays for the start it wastes.
LEMMA OtherSInv ==
  ASSUME IInv, IInv', SInv, UNCHANGED <<queued, written, modified, starts>>,
         \/ pc' \notin {"stage", "unlink"} /\ mishaps' = mishaps /\ pc \notin {"stage", "unlink"}
         \/ pc' \notin {"stage", "unlink"} /\ mishaps' = mishaps + 1
         \/ UNCHANGED <<pc, todo, item, mishaps>>
         \/ pc = "stage" /\ pc' = "unlink" /\ item'.name \in todo /\ UNCHANGED <<todo, mishaps>>
  PROVE  SInv'
<1>c. /\ Cardinality(written) \in Nat /\ Cardinality(queued) \in Nat
      /\ starts \in Nat /\ mishaps \in Nat
  BY Counts
<1>1. Numbered'
  BY DEF SInv, Numbered
<1>2. Listed'
  BY DEF SInv, Listed, NamesOf
<1>3. Spent'
  BY <1>c DEF SInv, Spent
<1> QED
  BY <1>1, <1>2, <1>3 DEF SInv

LEMMA NextSInv ==
  ASSUME IInv, IInv', SInv, [Next]_vars
  PROVE  SInv'
<1>1. CASE Start \/ Unlink \/ (\E n \in Names, s \in Stories : Write(n, s))
  BY <1>1, StartSInv, UnlinkSInv, WriteSInv
<1>2. CASE \E i \in queued : Copy(i)
  BY <1>2, OtherSInv DEF Copy
<1>3. CASE (\E s \in Stories : TickerPosts(s)) \/ UNCHANGED vars
  BY <1>3, OtherSInv DEF TickerPosts, vars, dirs
<1>4. CASE Open \/ (\E i \in staged : Pass(i) \/ Refuse(i)) \/ Deliver \/ TelegramRefuses \/ Record
           \/ SetAside
  BY <1>4, OtherSInv DEF Open, Pass, Refuse, Deliver, TelegramRefuses, Record, SetAside, Onward, dirs
<1>5. CASE Mishap
  BY <1>5, OtherSInv DEF Mishap, AnswerLost, SetAsideFails, Kill, Onward, dirs
<1> QED
  BY <1>1, <1>2, <1>3, <1>4, <1>5 DEF Next, Serve

\* teemo-agent-outbox.path starts the service once per file and once per change of its own making,
\* so its starts stay in proportion to what the agent writes and to mishaps.
THEOREM StartsStayBounded == Spec => []StartsBounded
<1>1. Init => SInv
  <2> SUFFICES ASSUME Init PROVE SInv
    OBVIOUS
  <2>1. queued = {} /\ written = {} /\ starts = 0 /\ mishaps = 0 /\ modified = FALSE /\ pc = "inactive"
    BY DEF Init
  <2>2. Cardinality(queued) = 0 /\ Cardinality(written) = 0
    BY <2>1, FS_EmptySet
  <2> QED
    BY <2>1, <2>2 DEF SInv, Numbered, Listed, Spent
<1>2. IInv /\ IInv' /\ SInv /\ [Next]_vars => SInv'
  BY NextSInv
<1>3. IInv /\ SInv => StartsBounded
  <2> SUFFICES ASSUME IInv, SInv PROVE StartsBounded
    OBVIOUS
  <2>1. /\ Cardinality(written) \in Nat /\ Cardinality(queued) \in Nat
        /\ starts \in Nat /\ mishaps \in Nat
        /\ queued = {} <=> Cardinality(queued) = 0
    BY Counts
  <2>2. pc \in {"stage", "unlink"} => queued # {}
    BY DEF SInv, Listed, NamesOf
  <2> QED
    BY <2>1, <2>2 DEF SInv, Spent, StartsBounded
<1> QED
  BY <1>1, <1>2, <1>3, AlwaysIInv, PTL DEF Spec
=============================================================================
