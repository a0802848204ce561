------------------------------ MODULE TgOutbox ------------------------------
(***************************************************************************)
(* The agent's mailbox: the directory the VPS agent writes post files      *)
(* into, the path unit that watches it, tg_outbox_drain.sh, and            *)
(* tg_push.py --drain-outbox, which posts each file and files it under     *)
(* done/ or failed/.                                                       *)
(*                                                                         *)
(* The service copies every watched file into a staging directory, deletes *)
(* the original, and only then posts what is staged.  Each of these is a   *)
(* step of its own: the service is killed after TimeoutStartSec or by a    *)
(* restart between any two of them.  The ticker of TgPush may post the     *)
(* same stories meanwhile; its own steps are TgPush's, one is enough here. *)
(*                                                                         *)
(* A refusal is a choice: an unreadable file, a link the archive does not  *)
(* hold (yet), a shape problem, an unavailable or blocking JEV gate.       *)
(* Left out: --dry-run, which moves nothing, and the unit's start limit,   *)
(* for which the starts are counted instead.                               *)
(***************************************************************************)
EXTENDS Naturals, FiniteSets

CONSTANTS
  Names,       \* file names
  Stories,     \* article links
  Ticked,      \* stories the ticker may post meanwhile
  NoItem,      \* no file in hand
  MaxWrites,   \* bound: files the agent writes
  MaxMishaps   \* bound: kills, lost answers, failed commits and failed moves

Items == [name : Names, no : Nat, story : Stories]

ASSUME OutboxAssumption ==
  /\ Ticked \subseteq Stories
  /\ MaxWrites \in Nat /\ MaxMishaps \in Nat
  /\ NoItem \notin Items

VARIABLES
  queued, staged, done, failed,  \* the four directories, sets of items with distinct names
  written,                       \* every item the agent ever wrote
  modified,                      \* a change of the watched directory the path unit has not served
  starts,                        \* times the service was started
  pc,                            \* what the service is about to do
  todo,                          \* names its listing still holds
  item,                          \* the item in hand
  told, recorded,                \* messages per story; the links tg_posted holds
  mishaps

dirs == <<queued, staged, done, failed>>
posts == <<told, recorded>>
vars == <<dirs, written, modified, starts, pc, todo, item, posts, mishaps>>

Working == {"stage", "unlink", "open", "check", "send", "record", "posted", "refused"}

NamesOf(dir) == {i.name : i \in dir}
Without(dir, n) == {i \in dir : i.name # n}
\* Writing a file replaces the one of that name.
Put(dir, i) == Without(dir, i.name) \cup {i}

Init ==
  /\ queued = {} /\ staged = {} /\ done = {} /\ failed = {}
  /\ written = {}
  /\ modified = FALSE
  /\ starts = 0
  /\ pc = "inactive"
  /\ todo = {}
  /\ item = NoItem
  /\ told = [s \in Stories |-> 0]
  /\ recorded = {}
  /\ mishaps = 0

(***************************************************************************)
(* The agent and the ticker                                                *)
(***************************************************************************)
Write(n, s) ==
  /\ Cardinality(written) < MaxWrites
  /\ LET i == [name |-> n, no |-> Cardinality(written), story |-> s]
     IN /\ written' = written \cup {i}
        /\ queued' = Put(queued, i)
  /\ modified' = TRUE
  /\ UNCHANGED <<staged, done, failed, starts, pc, todo, item, posts, mishaps>>

TickerPosts(s) ==
  /\ s \in Ticked \ recorded
  /\ told' = [told EXCEPT ![s] = @ + 1]
  /\ recorded' = recorded \cup {s}
  /\ UNCHANGED <<dirs, written, modified, starts, pc, todo, item, mishaps>>

(***************************************************************************)
(* tg_outbox_drain.sh                                                      *)
(***************************************************************************)
\* mutation: the path unit without PathExistsGlob
StartOnModified ==
  /\ pc = "inactive" /\ modified
  /\ modified' = FALSE
  /\ starts' = starts + 1
  /\ todo' = NamesOf(queued)
  /\ pc' = IF queued = {} THEN "inactive" ELSE "stage"
  /\ UNCHANGED <<dirs, written, item, posts, mishaps>>

\* PathExistsGlob or PathModified; a start that lists no file exits at once.
Start ==
  /\ pc = "inactive"
  /\ queued # {} \/ modified
  /\ modified' = FALSE
  /\ starts' = starts + 1
  /\ todo' = NamesOf(queued)
  /\ pc' = IF queued = {} THEN "inactive" ELSE "stage"
  /\ UNCHANGED <<dirs, written, item, posts, mishaps>>

Copy(i) ==
  /\ pc = "stage"
  /\ i \in queued /\ i.name \in todo
  /\ staged' = Put(staged, i)
  /\ item' = i
  /\ pc' = "unlink"
  /\ UNCHANGED <<queued, done, failed, written, modified, starts, todo, posts, mishaps>>

\* mutation: rm -f *.json, with what arrived after the listing
UnlinkAll ==
  /\ pc = "unlink"
  /\ queued' = {}
  /\ modified' = TRUE
  /\ todo' = {}
  /\ item' = NoItem
  /\ pc' = "open"
  /\ UNCHANGED <<staged, done, failed, written, starts, posts, mishaps>>

\* rm takes whatever has the name by now.
Unlink ==
  /\ pc = "unlink"
  /\ queued' = Without(queued, item.name)
  /\ modified' = TRUE
  /\ todo' = todo \ {item.name}
  /\ item' = NoItem
  /\ pc' = IF todo' = {} THEN "open" ELSE "stage"
  /\ UNCHANGED <<staged, done, failed, written, starts, posts, mishaps>>

(***************************************************************************)
(* drain_outbox and post_parts                                             *)
(***************************************************************************)
Open ==
  /\ pc = "open"
  /\ todo' = NamesOf(staged)
  /\ pc' = "check"
  /\ UNCHANGED <<dirs, written, modified, starts, item, posts, mishaps>>

\* mutation: the table is not asked
PassUnchecked(i) ==
  /\ pc = "check"
  /\ i \in staged /\ i.name \in todo
  /\ item' = i
  /\ pc' = "send"
  /\ UNCHANGED <<dirs, written, modified, starts, todo, posts, mishaps>>

Pass(i) ==
  /\ pc = "check"
  /\ i \in staged /\ i.name \in todo
  /\ i.story \notin recorded
  /\ item' = i
  /\ pc' = "send"
  /\ UNCHANGED <<dirs, written, modified, starts, todo, posts, mishaps>>

Refuse(i) ==
  /\ pc = "check"
  /\ i \in staged /\ i.name \in todo
  /\ item' = i
  /\ pc' = "refused"
  /\ UNCHANGED <<dirs, written, modified, starts, todo, posts, mishaps>>

Deliver ==
  /\ pc = "send"
  /\ told' = [told EXCEPT ![item.story] = @ + 1]
  /\ pc' = "record"
  /\ UNCHANGED <<dirs, written, modified, starts, todo, item, recorded, mishaps>>

TelegramRefuses ==
  /\ pc = "send"
  /\ pc' = "refused"
  /\ UNCHANGED <<dirs, written, modified, starts, todo, item, posts, mishaps>>

\* The message is in the channel, but the answer never came.
AnswerLost ==
  /\ pc = "send"
  /\ mishaps < MaxMishaps
  /\ told' = [told EXCEPT ![item.story] = @ + 1]
  /\ pc' = "refused"
  /\ mishaps' = mishaps + 1
  /\ UNCHANGED <<dirs, written, modified, starts, todo, item, recorded>>

Record ==
  /\ pc = "record"
  /\ recorded' = recorded \cup {item.story}
  /\ pc' = "posted"
  /\ UNCHANGED <<dirs, written, modified, starts, todo, item, told, mishaps>>

Onward(left) == IF left = {} THEN "inactive" ELSE "check"

\* path.replace(directory / path.name)
SetAside ==
  /\ pc \in {"posted", "refused"}
  /\ staged' = Without(staged, item.name)
  /\ IF pc = "posted"
       THEN done' = Put(done, item) /\ UNCHANGED failed
       ELSE failed' = Put(failed, item) /\ UNCHANGED done
  /\ todo' = todo \ {item.name}
  /\ pc' = Onward(todo')
  /\ item' = NoItem
  /\ UNCHANGED <<queued, written, modified, starts, posts, mishaps>>

\* An OSError is logged and the file stays staged.
SetAsideFails ==
  /\ pc \in {"posted", "refused"}
  /\ mishaps < MaxMishaps
  /\ todo' = todo \ {item.name}
  /\ pc' = Onward(todo')
  /\ item' = NoItem
  /\ mishaps' = mishaps + 1
  /\ UNCHANGED <<dirs, written, modified, starts, posts>>

\* TimeoutStartSec, a restart, or a commit that raises: the run is gone, the directories stay.
Kill ==
  /\ pc # "inactive"
  /\ mishaps < MaxMishaps
  /\ pc' = "inactive"
  /\ todo' = {}
  /\ item' = NoItem
  /\ mishaps' = mishaps + 1
  /\ UNCHANGED <<dirs, written, modified, starts, posts>>

Serve ==
  \/ Start \/ Unlink \/ Open \/ Deliver \/ TelegramRefuses \/ Record \/ SetAside
  \/ \E i \in queued : Copy(i)
  \/ \E i \in staged : Pass(i) \/ Refuse(i)

Mishap == AnswerLost \/ SetAsideFails \/ Kill

Next ==
  \/ \E n \in Names, s \in Stories : Write(n, s)
  \/ \E s \in Stories : TickerPosts(s)
  \/ Serve
  \/ Mishap

Spec == Init /\ [][Next]_vars

\* systemd starts the unit whenever a trigger is pending, and the script does not block for ever:
\* every call it makes has a timeout.
FairSpec == Spec /\ WF_vars(Serve)

(***************************************************************************)
(* Properties                                                              *)
(***************************************************************************)
\* A directory holds files the agent wrote, at most one of each name.
Directory(dir) ==
  /\ dir \subseteq written
  /\ \A i, j \in dir : i.name = j.name => i = j

\* Every variable has its shape, and no directory holds two files of one name.
TypeOK ==
  /\ Directory(queued) /\ Directory(staged) /\ Directory(done) /\ Directory(failed)
  /\ written \subseteq Items /\ IsFiniteSet(written)
  /\ modified \in BOOLEAN
  /\ starts \in Nat /\ mishaps \in Nat
  /\ pc \in Working \cup {"inactive"}
  /\ todo \subseteq Names
  /\ item \in Items \cup {NoItem}
  /\ told \in [Stories -> Nat]
  /\ recorded \subseteq Stories

\* A file the agent wrote under a name it never uses again is not lost: whenever the service is
\* killed, one of the four directories still holds it.
Unique(i) == \A j \in written : j.name = i.name => j = i
Kept == \A i \in written : Unique(i) => i \in queued \cup staged \cup done \cup failed

\* What done/ holds is in the channel and in tg_posted, so no producer posts it again.
DoneIsPosted == \A i \in done : i.story \in recorded /\ told[i.story] > 0

\* Queueing a story again, under any name, cannot post it again: each further message of a story is
\* paid for by a kill or a lost answer, or by the ticker's post falling into the moment between the
\* check and the message.
PaidRepeats == \A s \in Stories : told[s] <= 1 + mishaps + (IF s \in Ticked THEN 1 ELSE 0)

\* The path unit settles: one start per change of the watched directory, so a refused file cannot
\* run the unit into systemd's start limit.
StartsBounded == starts <= 2 * Cardinality(written) + mishaps

\* Every watched file is eventually taken out of the watched directory.
WatchedLeaves == \A n \in Names : []<>(n \notin NamesOf(queued))

\* tg_outbox_drain.sh, step 2: the drain "moves the file to done/ or failed/".  A killed run leaves
\* its files staged, and no trigger looks there.
StagedFiled == \A n \in Names : []<>(n \notin NamesOf(staged))

\* The outbox keeps Outlet's promise for the stories no ticker posts: what tg_posted holds is never
\* published again.
Own == Stories \ Ticked
Promise == INSTANCE Outlet
  WITH Stories <- Own, told <- [s \in Own |-> told[s]], recorded <- recorded \ Ticked
KeepsPromise == Promise!Spec

\* The files: every variable has its shape, no kill or failed move loses a file, and done/ holds only
\* what the channel and tg_posted have.
FilesHold == TypeOK /\ Kept /\ DoneIsPosted

\* What is put into the directory is dealt with and done with: every file leaves it, the unit stops
\* starting, and a story is only told again when something went wrong in between.
Settles == WatchedLeaves /\ [](PaidRepeats /\ StartsBounded)
=============================================================================
