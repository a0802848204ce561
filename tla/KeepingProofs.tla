---------------------------- MODULE KeepingProofs ----------------------------
(***************************************************************************)
(* Proofs about components that hold what people wrote or what readers are *)
(* served: the private messages (Letters), the move of the boards' tables  *)
(* (Cutover), the tools that rewrite the stored archive (Archive), the     *)
(* commands that publish pages (Publishing), the sessions of operators     *)
(* (AdminSessions), the rules learned from what was hidden (Learner), the  *)
(* economic calendar (Calendar), the switches of sources (OperatorDesk),   *)
(* scores and categories (Scoring), the public list (PublicJson) and the   *)
(* address of a reader's page (NewsPage).  Those of MCFilterRules are      *)
(* proved of the specification its runs check, for any posts, texts, links *)
(* and categories, and any number of tool runs.  What a constant must be   *)
(* for that is an assumption of the theorem that needs it, or a named one  *)
(* of the module of the run.                                               *)
(***************************************************************************)
EXTENDS MCFilterRules, FiniteSetTheorems, SequenceTheorems, TLAPS

CONSTANTS Members, Reader, Requests, MaxLetters          \* of Letters
VARIABLES blocks, letters, req, lock, page

mail == INSTANCE Letters

-----------------------------------------------------------------------------
(* A step of the composition is a step of the one component that moves.    *)

LEMMA CutoverLane == [LaneNext]_allVars => [cutover!Next]_cutoverVars
<1> SUFFICES ASSUME [LaneNext]_allVars PROVE cutover!Next \/ UNCHANGED cutoverVars
  OBVIOUS
<1>1. CASE LaneNext
  BY <1>1 DEF LaneNext, RulesStep, CalendarStep, SessionsStep, DeskStep, LearnerStep, ArchiveStep,
     PublicjsonStep, CutoverStep, PublishingStep, ScoringStep, cutover!Next
<1>2. CASE UNCHANGED allVars
  BY <1>2 DEF allVars
<1> QED
  BY <1>1, <1>2

LEMMA ArchiveLane == [LaneNext]_allVars => [archive!Next]_archiveVars
<1> SUFFICES ASSUME [LaneNext]_allVars PROVE archive!Next \/ UNCHANGED archiveVars
  OBVIOUS
<1>1. CASE LaneNext
  BY <1>1 DEF LaneNext, RulesStep, CalendarStep, SessionsStep, DeskStep, LearnerStep, ArchiveStep,
     PublicjsonStep, CutoverStep, PublishingStep, ScoringStep, archive!Next
<1>2. CASE UNCHANGED allVars
  BY <1>2 DEF allVars
<1> QED
  BY <1>1, <1>2

-----------------------------------------------------------------------------
(* Private messages.  A request that goes past its check holds the rows of *)
(* both members until it commits (Locked), so what it found about blocks   *)
(* still holds when it writes (Checked).                                   *)

\* The values the variables take.
Jobs == [kind : {"send", "block", "unblock"}, by : Members, to : Members,
         at : {"lock", "write", "refuse"}]
Mails == [id : Nat, from : Members, to : Members, read : BOOLEAN]
LettersShape ==
  /\ req \in [Requests -> Jobs \cup {None}]
  /\ lock \in [Members -> Requests \cup {None}]
  /\ letters \subseteq Mails

\* Messages are numbered in the order they are stored.
Numbered ==
  /\ IsFiniteSet(letters)
  /\ \A l \in letters : l.id <= Cardinality(letters)
  /\ \A k, l \in letters : k.id = l.id => k = l

Locked ==
  \A r \in Requests : req[r] # None /\ req[r].at # "lock" =>
    lock[req[r].by] = r /\ lock[req[r].to] = r

Checked ==
  \A r \in Requests : req[r] # None /\ req[r].at = "write" /\ req[r].kind = "send" =>
    <<req[r].by, req[r].to>> \notin blocks /\ <<req[r].to, req[r].by>> \notin blocks

LettersInv == LettersShape /\ Numbered /\ Locked /\ Checked

LEMMA MailCardinality == \A S : mail!Cardinality(S) = Cardinality(S)
BY DEF mail!Cardinality, Cardinality

LEMMA BeginKeeps ==
  ASSUME None \notin Jobs, None \notin Requests, LettersInv, NEW r \in Requests, NEW kind \in mail!Kinds,
         NEW u \in Members, NEW v \in Members, mail!Begin(r, kind, u, v)
  PROVE  LettersInv'
<1> DEFINE job == [kind |-> kind, by |-> u, to |-> v, at |-> "lock"]
<1>1. /\ req' = [req EXCEPT ![r] = job] /\ UNCHANGED <<blocks, letters, lock>>
  BY DEF mail!Begin
<1>2. job \in Jobs /\ job.at = "lock"
  BY DEF Jobs, mail!Kinds
<1> HIDE DEF job
<1>3. LettersShape'
  BY <1>1, <1>2 DEF LettersInv, LettersShape
<1>4. Numbered' /\ Locked' /\ Checked'
  BY <1>1, <1>2 DEF LettersInv, LettersShape, Numbered, Locked, Checked
<1> QED
  BY <1>3, <1>4 DEF LettersInv

LEMMA LockKeeps ==
  ASSUME None \notin Jobs, None \notin Requests, LettersInv, NEW r \in Requests, mail!LockRow(r)
  PROVE  LettersInv'
<1>1. PICK m : lock[m] = None /\ lock' = [lock EXCEPT ![m] = r]
  BY DEF mail!LockRow
<1>2. UNCHANGED <<blocks, letters, req>>
  BY DEF mail!LockRow
<1>3. \A n \in Members, q \in Requests : lock[n] = q => lock'[n] = q
  BY <1>1 DEF LettersInv, LettersShape
<1>4. LettersShape'
  BY <1>1, <1>2 DEF LettersInv, LettersShape
<1>5. Locked'
  BY <1>2, <1>3 DEF LettersInv, LettersShape, Locked, Jobs
<1>6. Numbered' /\ Checked'
  BY <1>2 DEF LettersInv, Numbered, Checked
<1> QED
  BY <1>4, <1>5, <1>6 DEF LettersInv

LEMMA CheckKeeps ==
  ASSUME None \notin Jobs, None \notin Requests, LettersInv, NEW r \in Requests, mail!Check(r)
  PROVE  LettersInv'
<1> DEFINE at == IF req[r].kind = "send" /\ mail!Blocked(req[r].by, req[r].to) THEN "refuse" ELSE "write"
<1>1. req' = [req EXCEPT ![r] = [req[r] EXCEPT !.at = at]] /\ UNCHANGED <<blocks, letters, lock>>
  BY DEF mail!Check
<1>2. req[r] \in Jobs
  BY DEF mail!Check, LettersInv, LettersShape
<1>3. /\ at \in {"write", "refuse"}
      /\ at = "write" /\ req[r].kind = "send" =>
           <<req[r].by, req[r].to>> \notin blocks /\ <<req[r].to, req[r].by>> \notin blocks
  BY DEF mail!Blocked
<1>4. lock[req[r].by] = r /\ lock[req[r].to] = r
  <2>1. {req[r].by, req[r].to} \subseteq {m \in Members : lock[m] = r}
    BY DEF mail!Check, mail!Pair, mail!Held
  <2> QED
    BY <2>1
<1> HIDE DEF at
<1>5. /\ req'[r] \in Jobs /\ req'[r].at = at /\ req'[r].by = req[r].by /\ req'[r].to = req[r].to
      /\ req'[r].kind = req[r].kind
  BY <1>1, <1>2, <1>3 DEF Jobs, LettersInv, LettersShape
<1>6. \A q \in Requests : q # r => req'[q] = req[q]
  BY <1>1 DEF LettersInv, LettersShape
<1>7. LettersShape'
  BY <1>1, <1>5, <1>6 DEF LettersInv, LettersShape
<1>8. Locked'
  BY <1>1, <1>4, <1>5, <1>6 DEF LettersInv, Locked
<1>9. Checked'
  BY <1>1, <1>3, <1>5, <1>6 DEF LettersInv, Checked
<1>10. Numbered'
  BY <1>1 DEF LettersInv, Numbered
<1> QED
  BY <1>7, <1>8, <1>9, <1>10 DEF LettersInv

LEMMA CommitKeeps ==
  ASSUME None \notin Jobs, None \notin Requests, LettersInv, NEW r \in Requests, mail!Commit(r)
  PROVE  /\ LettersInv'
         /\ \A l \in letters' : l.id > Cardinality(letters) =>
              ~mail!Blocked(l.from, l.to) /\ blocks' = blocks
<1> DEFINE letter == [id |-> Cardinality(letters) + 1, from |-> req[r].by, to |-> req[r].to, read |-> FALSE]
           sends == req[r].at = "write" /\ req[r].kind = "send"
<1>1. /\ req[r] \in Jobs /\ req[r].at # "lock" /\ req[r] # None
  BY DEF mail!Commit, LettersInv, LettersShape
<1>2. /\ req' = [req EXCEPT ![r] = None]
      /\ lock' = [m \in Members |-> IF lock[m] = r THEN None ELSE lock[m]]
  BY DEF mail!Commit
<1>3. letters' = IF sends THEN letters \cup {letter} ELSE letters
  BY MailCardinality DEF mail!Commit
<1>4. /\ blocks' \subseteq blocks \cup {<<req[r].by, req[r].to>>}
      /\ sends => blocks' = blocks
  BY DEF mail!Commit
<1>5. lock[req[r].by] = r /\ lock[req[r].to] = r
  BY <1>1 DEF LettersInv, Locked
<1>6. Cardinality(letters) \in Nat
  BY FS_CardinalityType DEF LettersInv, Numbered
<1>7. letter \in Mails /\ letter.id = Cardinality(letters) + 1
      /\ letter.from = req[r].by /\ letter.to = req[r].to
  BY <1>1, <1>6 DEF Mails, Jobs
<1>l. \A l \in letters : l.id \in Nat
  BY DEF LettersInv, LettersShape, Mails
<1> HIDE DEF letter, sends
<1>8. LettersShape'
  BY <1>1, <1>2, <1>3, <1>7 DEF LettersInv, LettersShape
<1>9. Numbered'
  <2>1. letter \notin letters
    BY <1>6, <1>7, <1>l DEF LettersInv, Numbered
  <2>2. CASE sends
    <3>1. letters' = letters \cup {letter}
      BY <1>3, <2>2
    <3>2. IsFiniteSet(letters') /\ Cardinality(letters') = Cardinality(letters) + 1
      BY <3>1, <2>1, FS_AddElement DEF LettersInv, Numbered
    <3>3. \A m \in letters : m.id \in Nat /\ m.id <= Cardinality(letters)
      BY <1>l DEF LettersInv, Numbered
    <3>4. \A m \in letters' : m.id <= Cardinality(letters')
      BY <3>1, <3>2, <3>3, <1>6, <1>7
    <3>5. \A k, m \in letters : k.id = m.id => k = m
      BY DEF LettersInv, Numbered
    <3>6. \A k, m \in letters' : k.id = m.id => k = m
      BY <3>1, <3>3, <3>5, <1>6, <1>7
    <3> QED
      BY <3>2, <3>4, <3>6 DEF Numbered
  <2>3. CASE ~sends
    BY <1>3, <2>3 DEF LettersInv, Numbered
  <2> QED
    BY <2>2, <2>3
<1>10. \A q \in Requests : q # r => req'[q] = req[q]
  BY <1>2 DEF LettersInv, LettersShape
<1>11. req'[r] = None
  BY <1>2 DEF LettersInv, LettersShape
<1>12. Locked'
  <2> SUFFICES ASSUME NEW q \in Requests, req'[q] # None, req'[q].at # "lock"
               PROVE  lock'[req'[q].by] = q /\ lock'[req'[q].to] = q
    BY DEF Locked
  <2>1. q # r /\ req'[q] = req[q]
    BY <1>10, <1>11
  <2>2. req[q] \in Jobs /\ lock[req[q].by] = q /\ lock[req[q].to] = q
    BY <2>1 DEF LettersInv, LettersShape, Locked
  <2> QED
    BY <2>1, <2>2, <1>2 DEF Jobs
<1>13. Checked'
  <2> SUFFICES ASSUME NEW q \in Requests, req'[q] # None, req'[q].at = "write", req'[q].kind = "send"
               PROVE  <<req'[q].by, req'[q].to>> \notin blocks' /\ <<req'[q].to, req'[q].by>> \notin blocks'
    BY DEF Checked
  <2>1. q # r /\ req'[q] = req[q]
    BY <1>10, <1>11
  <2>2. lock[req[q].by] = q /\ <<req[q].by, req[q].to>> \notin blocks /\ <<req[q].to, req[q].by>> \notin blocks
    BY <2>1 DEF LettersInv, Locked, Checked
  <2>3. req[q].by # req[r].by /\ req[q].by # req[r].to
    BY <1>5, <2>1, <2>2
  <2> QED
    BY <2>1, <2>2, <2>3, <1>4
<1>14. ASSUME NEW l \in letters', l.id > Cardinality(letters)
       PROVE  ~mail!Blocked(l.from, l.to) /\ blocks' = blocks
  <2>1. sends /\ l = letter
    BY <1>14, <1>3, <1>6, <1>l DEF LettersInv, Numbered
  <2>2. <<req[r].by, req[r].to>> \notin blocks /\ <<req[r].to, req[r].by>> \notin blocks
    BY <2>1, <1>1 DEF LettersInv, Checked, sends
  <2> QED
    BY <2>1, <2>2, <1>4, <1>7 DEF mail!Blocked
<1> QED
  BY <1>8, <1>9, <1>12, <1>13, <1>14 DEF LettersInv

LEMMA ReadKeeps ==
  ASSUME LettersInv, NEW l \in letters, mail!Read(l)
  PROVE  LettersInv' /\ \A k \in letters' : k.id <= Cardinality(letters)
<1> DEFINE read == [l EXCEPT !.read = TRUE]
<1>1. letters' = (letters \ {l}) \cup {read} /\ UNCHANGED <<blocks, req, lock>> /\ ~l.read
  BY DEF mail!Read
<1>2. l \in Mails /\ read \in Mails /\ read.id = l.id /\ read.read
  BY DEF LettersInv, LettersShape, Mails
<1> HIDE DEF read
<1>3. read \notin letters
  BY <1>1, <1>2 DEF LettersInv, Numbered
<1>4. IsFiniteSet(letters \ {l}) /\ Cardinality(letters \ {l}) = Cardinality(letters) - 1
  BY FS_RemoveElement DEF LettersInv, Numbered
<1>5. Cardinality(letters) \in Nat
  BY FS_CardinalityType DEF LettersInv, Numbered
<1>6. IsFiniteSet(letters') /\ Cardinality(letters') = Cardinality(letters)
  BY <1>1, <1>3, <1>4, <1>5, FS_AddElement
<1>7. Numbered' /\ \A k \in letters' : k.id <= Cardinality(letters)
  BY <1>1, <1>2, <1>6 DEF LettersInv, Numbered
<1>8. LettersShape' /\ Locked' /\ Checked'
  BY <1>1, <1>2 DEF LettersInv, LettersShape, Locked, Checked
<1> QED
  BY <1>7, <1>8 DEF LettersInv

\* Whatever two members do at once, no message is stored while one of them blocks the other: lock_pair
\* takes both rows before blocks are read, and a block needs the same two rows (private_messages.py).
THEOREM LettersRespectBlocks ==
  ASSUME None \notin Jobs, None \notin Requests
  PROVE  mail!Spec => mail!NoLetterUnderBlock
<1> DEFINE Fair == \A l \in letters' : l.id > Cardinality(letters) =>
                     ~mail!Blocked(l.from, l.to) /\ blocks' = blocks
<1>1. mail!Init => LettersInv
  BY FS_EmptySet DEF mail!Init, LettersInv, LettersShape, Numbered, Locked, Checked
<1>2. LettersInv /\ [mail!Next]_(mail!vars) => LettersInv' /\ [Fair]_(mail!vars)
  <2> SUFFICES ASSUME LettersInv, [mail!Next]_(mail!vars) PROVE LettersInv' /\ [Fair]_(mail!vars)
    OBVIOUS
  <2>n. \A l \in letters : l.id \in Nat /\ l.id <= Cardinality(letters)
    BY DEF LettersInv, LettersShape, Mails, Numbered
  <2>c. Cardinality(letters) \in Nat
    BY FS_CardinalityType DEF LettersInv, Numbered
  <2>s. letters' = letters => Fair
    BY <2>n, <2>c
  <2>1. ASSUME NEW r \in Requests, NEW kind \in mail!Kinds, NEW u \in Members, NEW v \in Members,
               mail!Begin(r, kind, u, v)
        PROVE  LettersInv' /\ Fair
    BY <2>1, <2>s, BeginKeeps DEF mail!Begin
  <2>2. ASSUME NEW r \in Requests, mail!LockRow(r) PROVE LettersInv' /\ Fair
    BY <2>2, <2>s, LockKeeps DEF mail!LockRow
  <2>3. ASSUME NEW r \in Requests, mail!Check(r) PROVE LettersInv' /\ Fair
    BY <2>3, <2>s, CheckKeeps DEF mail!Check
  <2>4. ASSUME NEW r \in Requests, mail!Commit(r) PROVE LettersInv' /\ Fair
    BY <2>4, CommitKeeps
  <2>5. ASSUME NEW l \in letters, mail!Read(l) PROVE LettersInv' /\ Fair
    <3>1. LettersInv' /\ \A k \in letters' : k.id <= Cardinality(letters)
      BY <2>5, ReadKeeps
    <3>2. \A k \in letters' : k.id \in Nat
      BY <3>1 DEF LettersInv, LettersShape, Mails
    <3> QED
      BY <3>1, <3>2, <2>c
  <2>6. CASE mail!TimerFires \/ mail!Count \/ mail!Arrive \/ mail!Fail \/ mail!Turn
    <3>1. UNCHANGED <<blocks, letters, req, lock>>
      BY <2>6 DEF mail!TimerFires, mail!Count, mail!Arrive, mail!Fail, mail!Turn, mail!server
    <3> QED
      BY <3>1, <2>s DEF LettersInv, LettersShape, Numbered, Locked, Checked
  <2>7. CASE UNCHANGED mail!vars
    <3>1. UNCHANGED <<blocks, letters, req, lock>>
      BY <2>7 DEF mail!vars, mail!server
    <3> QED
      BY <3>1, <2>7 DEF LettersInv, LettersShape, Numbered, Locked, Checked
  <2> QED
    BY <2>1, <2>2, <2>3, <2>4, <2>5, <2>6, <2>7 DEF mail!Next
<1>3. [Fair]_(mail!vars) =>
       [\A l \in letters' : l.id > mail!Cardinality(letters) =>
          ~mail!Blocked(l.from, l.to) /\ blocks' = blocks]_(mail!vars)
  BY MailCardinality
<1> QED
  BY <1>1, <1>2, <1>3, PTL DEF mail!Spec, mail!NoLetterUnderBlock
-----------------------------------------------------------------------------
(* The cutover.  A script that has found the service stopped keeps it so   *)
(* (ServiceDown), what it could restore is what is there (Saved), and the boards *)
(* hold every post once it passes (Moved); Headed says at which step the   *)
(* database has which tables.                                              *)

\* The values the variables take.
Values == Texts \cup {None, Blank}
CutoverShape ==
  /\ cutover_post \in [BoardPosts -> Values] /\ cutover_row \in [BoardPosts -> Values] /\ cutover_latest \in [BoardPosts -> Values]

ServiceDown == cutover_stage \in {"stopped", "saved", "migrate", "verify", "abort"} => ~cutover_serving

Shows == \A p \in BoardPosts : cutover!Shown(p) = cutover_latest[p]

\* A post is there exactly when its author has left one.
SameThere == \A p \in BoardPosts : cutover_post[p] = None <=> cutover_latest[p] = None

Headed ==
  /\ cutover_release \in {"old", "new"}
  /\ cutover_release = "new" => cutover_head = 2
  /\ cutover_rebackfill /\ cutover!Running => cutover_head = 2
  /\ cutover_stage \in {"verify", "pass"} => cutover_head = 2
  /\ cutover_stage \in {"found", "stopped", "saved", "migrate"} /\ ~cutover_rebackfill => cutover_release = "old"
  /\ cutover_stage = "migrate" => ~cutover_rebackfill

Saved ==
  cutover_stage \in {"saved", "migrate", "verify", "abort"} =>
    /\ cutover_backup.post = cutover_post
    /\ cutover_backup.row \in [BoardPosts -> Values]
    /\ cutover_release = "new" => cutover_backup.row = cutover_row /\ cutover_backup.head = cutover_head

Moved == cutover_stage = "pass" => \A p \in BoardPosts : p \in Boarded => cutover_row[p] = cutover_latest[p]

CutoverInv == CutoverShape /\ ServiceDown /\ Shows /\ SameThere /\ Headed /\ Saved /\ Moved

LEMMA CutoverKeeps ==
  ASSUME None \notin Texts, Blank # None, CutoverInv, cutover!Next
  PROVE  CutoverInv'
<1> USE DEF CutoverInv, CutoverShape, ServiceDown, Shows, SameThere, Headed, Saved, Moved, Values,
     cutover!Shown, cutover!Running, cutover!database, cutover!script
<1>1. ASSUME NEW p \in BoardPosts, cutover!Write(p) PROVE CutoverInv'
  BY <1>1, SMTT(30) DEF cutover!Write
<1>2. ASSUME NEW again \in BOOLEAN, cutover!Start(again) PROVE CutoverInv'
  BY <1>2, SMTT(30) DEF cutover!Start
<1>3. CASE cutover!CheckStopped
  BY <1>3, SMTT(30) DEF cutover!CheckStopped, cutover!Refuse
<1>4. CASE cutover!Backup
  BY <1>4, SMTT(30) DEF cutover!Backup, cutover!Abort
<1>5. CASE cutover!CheckDrift
  BY <1>5, SMTT(30) DEF cutover!CheckDrift, cutover!Abort
<1>6. CASE cutover!Migrate
  BY <1>6, SMTT(30) DEF cutover!Migrate, cutover!backfill_board_content, cutover!Present
<1>7. CASE cutover!Rebackfill
  BY <1>7, SMTT(30) DEF cutover!Rebackfill, cutover!backfill_board_content, cutover!Present
<1>8. CASE cutover!DjangoFails
  BY <1>8, SMTT(30) DEF cutover!DjangoFails, cutover!Abort
<1>9. CASE cutover!Verify
  BY <1>9, SMTT(30) DEF cutover!Verify, cutover!check_board_rows, cutover!Present
<1>10. CASE cutover!Killed
  BY <1>10, SMTT(30) DEF cutover!Killed, cutover!Refuse
<1>11. CASE cutover!StopService \/ cutover!StartService \/ cutover!Activate
  BY <1>11, SMTT(30) DEF cutover!StopService, cutover!StartService, cutover!Activate
<1>12. CASE cutover!Restore
  BY <1>12, SMTT(30) DEF cutover!Restore
<1> QED
  BY <1>1, <1>2, <1>3, <1>4, <1>5, <1>6, <1>7, <1>8, <1>9, <1>10, <1>11, <1>12 DEF cutover!Next

\* For any posts, texts and boards, and wherever the script fails or is killed: a site that serves shows
\* every post as its author last left it (the docstring of cutover_4c6eb61_dbstep.py).
THEOREM CutoverShowsLatest ==
  ASSUME None \notin Texts, Blank # None
  PROVE  LaneSpec => []ShowsLatest
<1>1. cutover!Init => CutoverInv
  BY SMTT(30) DEF cutover!Init, CutoverInv, CutoverShape, ServiceDown, Shows, SameThere, Headed, Saved, Moved,
     Values, cutover!Shown, cutover!Running, cutover!Present
<1>2. CutoverInv /\ [cutover!Next]_cutoverVars => CutoverInv'
  <2>1. CASE UNCHANGED cutoverVars
    BY <2>1 DEF cutoverVars, CutoverInv, CutoverShape, ServiceDown, Shows, SameThere, Headed, Saved, Moved,
       cutover!Shown, cutover!Running
  <2> QED
    BY <2>1, CutoverKeeps
<1>3. CutoverInv => ShowsLatest
  BY DEF CutoverInv, Shows, ShowsLatest, cutover!ShowsLatest
<1>4. LaneInit => cutover!Init
  BY DEF LaneInit
<1> QED
  BY <1>1, <1>2, <1>3, <1>4, CutoverLane, PTL DEF LaneSpec
-----------------------------------------------------------------------------
(* The archive.  Every row ever stored is in a file (AllKept), because a   *)
(* tool that takes a row away from the current one first copied it: what   *)
(* it has in hand, InHand says.  Records are handled through the lemmas    *)
(* below and otherwise left closed.                                        *)

\* The values the variables take.
Rows == [archive!AllLinks -> Labels \cup {None}]
Databases == [articles : Rows, hidden : (SUBSET archive!AllLinks) \cup {None}]
Phases == {"resting", "back up", "rewrite", "merge articles", "merge hidden", "move away", "move in"}
Tools == [at : Phases, updates : SUBSET (archive!AllLinks \X Labels)]

LEMMA WithArticles ==
  ASSUME NEW db \in Databases, NEW rows \in Rows
  PROVE  /\ [db EXCEPT !.articles = rows] \in Databases
         /\ [db EXCEPT !.articles = rows].articles = rows
         /\ [db EXCEPT !.articles = rows].hidden = db.hidden
BY DEF Databases

LEMMA WithHidden ==
  ASSUME NEW db \in Databases, NEW h \in (SUBSET archive!AllLinks) \cup {None}
  PROVE  /\ [db EXCEPT !.hidden = h] \in Databases
         /\ [db EXCEPT !.hidden = h].articles = db.articles
BY DEF Databases

LEMMA ToolRecord ==
  ASSUME NEW at \in Phases, NEW updates \in SUBSET (archive!AllLinks \X Labels)
  PROVE  /\ [at |-> at, updates |-> updates] \in Tools
         /\ [at |-> at, updates |-> updates].at = at
         /\ [at |-> at, updates |-> updates].updates = updates
BY DEF Tools

LEMMA RestingTool == archive!Resting \in Tools /\ archive!Resting.at = "resting"
<1>1. archive!Resting = [at |-> "resting", updates |-> {}]
  BY DEF archive!Resting
<1>2. {} \in SUBSET (archive!AllLinks \X Labels) /\ "resting" \in Phases
  BY DEF Phases
<1> QED
  BY <1>1, <1>2, ToolRecord

LEMMA Then ==
  ASSUME archive_tool \in Tools, NEW at \in Phases
  PROVE  /\ [archive_tool EXCEPT !.at = at] \in Tools
         /\ [archive_tool EXCEPT !.at = at].at = at
         /\ [archive_tool EXCEPT !.at = at].updates = archive_tool.updates
BY DEF Tools

\* An uploaded database is one of the program's: what it holds of a blog post is what the post's file says.
ArchiveConstants ==
  /\ None \notin Databases /\ None \notin SUBSET archive!AllLinks /\ None \notin Labels
  /\ ArchiveStories \cap ArchivePosts = {}
  /\ LabelOf \in [{"old", "new"} \X archive!AllLinks -> Labels]
  /\ FileLabel \in [ArchivePosts -> Labels]
  /\ Uploads \subseteq Databases
  /\ \A db \in Uploads, p \in ArchivePosts : db.articles[p] \in {None, FileLabel[p]}

ArchiveShape ==
  /\ archive_current # None => archive_current \in Databases /\ archive_current.hidden # None
  /\ archive_incoming # None => archive_incoming \in Databases
  /\ archive_service \in {"stopped", "old", "new"} /\ archive_rules \in {"old", "new"}
  /\ archive_tool \in Tools
  /\ archive_ever \subseteq archive!AllLinks \X Labels

Stored(l, c) == \E db \in archive!Files : db.articles[l] = c

AllKept ==
  \A l \in archive!AllLinks, c \in Labels :
    <<l, c>> \in archive_ever => Stored(l, c) /\ (l \in ArchivePosts => c = FileLabel[l])

\* The rows retag will write, and what is in hand between two transactions of a tool.
Due(l) == \E c \in Labels : <<l, c>> \in archive_tool.updates
InHand ==
  /\ archive_tool.at \in {"back up", "rewrite", "merge articles", "merge hidden", "move away"} => archive_current # None
  /\ archive_tool.at \in {"back up", "rewrite"} =>
       \A l \in archive!AllLinks : Due(l) => archive_current.articles[l] # None
  /\ archive_tool.at = "rewrite" =>
       \A l \in archive!AllLinks : Due(l) => \E db \in archive_copies : db.articles[l] = archive_current.articles[l]
  /\ archive!Merging => archive_incoming # None /\ archive_service = "stopped"
  /\ archive_tool.at = "move in" => archive_current = None

ArchiveInv == ArchiveShape /\ AllKept /\ InHand

\* new has every row of old.
Covers(new, old) == \A l \in archive!AllLinks : old.articles[l] \in {None, new.articles[l]}

LEMMA StillStored ==
  ASSUME ArchiveConstants,
         \A db \in archive!Files : \E new \in archive!Files' : Covers(new, db),
         NEW l \in archive!AllLinks, NEW c \in Labels, Stored(l, c)
  PROVE  Stored(l, c)'
BY DEF Stored, Covers, ArchiveConstants

LEMMA CoversItself == \A db : Covers(db, db)
BY DEF Covers

LEMMA CollectKeeps ==
  ASSUME ArchiveConstants, ArchiveInv, NEW l \in ArchiveStories, archive!Collect(l)
  PROVE  ArchiveInv'
<1> DEFINE rows == [archive_current.articles EXCEPT ![l] = LabelOf[<<archive_service, l>>]]
<1>0. ArchiveShape /\ AllKept /\ InHand
  BY DEF ArchiveInv
<1>1. /\ archive_current \in Databases /\ LabelOf[<<archive_service, l>>] \in Labels
      /\ l \in archive!AllLinks /\ archive_current.hidden # None
  BY <1>0 DEF archive!Collect, ArchiveConstants, ArchiveShape, archive!AllLinks
<1>2. archive_current.articles \in Rows
  BY <1>1 DEF Databases
<1>3. /\ rows \in Rows /\ rows[l] = LabelOf[<<archive_service, l>>]
      /\ \A k \in archive!AllLinks : k # l => rows[k] = archive_current.articles[k]
  BY <1>1, <1>2 DEF Rows
<1>4. archive_current' \in Databases /\ archive_current'.articles = rows /\ archive_current'.hidden = archive_current.hidden
  BY <1>3, <1>1, WithArticles DEF archive!Collect
<1>5. archive_current' # None
  BY <1>4 DEF ArchiveConstants
<1>6. ArchiveShape'
  BY <1>0, <1>1, <1>4 DEF archive!Collect, ArchiveShape
<1>7. AllKept'
  <2>1. \A db \in archive!Files : \E new \in archive!Files' : Covers(new, db)
    <3>1. Covers(archive_current', archive_current)
      BY <1>3, <1>4 DEF Covers, archive!Collect
    <3> QED
      BY <3>1, <1>5, CoversItself DEF archive!Collect, archive!Files
  <2> SUFFICES ASSUME NEW k \in archive!AllLinks, NEW c \in Labels, <<k, c>> \in archive_ever'
               PROVE  Stored(k, c)' /\ (k \in ArchivePosts => c = FileLabel[k])
    BY DEF AllKept
  <2>2. CASE <<k, c>> \in archive_ever
    BY <2>1, <2>2, <1>0, StillStored DEF AllKept
  <2>3. CASE k = l /\ c = LabelOf[<<archive_service, l>>]
    BY <2>3, <1>3, <1>4, <1>5 DEF Stored, archive!Files, ArchiveConstants
  <2> QED
    BY <2>2, <2>3 DEF archive!Collect
<1>8. InHand'
  <2>1. /\ archive_tool' = archive_tool /\ archive_service' = archive_service /\ archive_incoming' = archive_incoming /\ archive_copies' = archive_copies
        /\ archive_service # "stopped" /\ archive_current # None
        /\ archive_current.articles[l] = None
    BY DEF archive!Collect
  <2>2. \A k \in archive!AllLinks : Due(k)' <=> Due(k)
    BY <2>1 DEF Due
  <2> QED
    BY <1>0, <1>3, <1>4, <1>5, <2>1, <2>2 DEF InHand, archive!Merging
<1> QED
  BY <1>6, <1>7, <1>8 DEF ArchiveInv

LEMMA SiteKeeps ==
  ASSUME ArchiveConstants, ArchiveInv,
         \/ archive!Deploy \/ archive!Stop \/ archive!Start \/ archive!Killed
         \/ \E l \in ArchiveStories : archive!Hide(l)
  PROVE  ArchiveInv'
<1>0. ArchiveShape /\ AllKept /\ InHand
  BY DEF ArchiveInv
<1>2. /\ archive!Empty \in Databases /\ archive!Empty.hidden = {} /\ archive!Empty # None
  <2>1. [l \in archive!AllLinks |-> None] \in Rows
    BY DEF Rows
  <2>2. archive!Empty = [articles |-> [l \in archive!AllLinks |-> None], hidden |-> {}]
    BY DEF archive!Empty
  <2> QED
    BY <2>1, <2>2 DEF Databases, ArchiveConstants
<1>r. \A db \in Databases : db.hidden \in (SUBSET archive!AllLinks) \cup {None}
  BY DEF Databases
<1>n. {} # None
  BY DEF ArchiveConstants
<1>3. CASE archive!Deploy \/ archive!Stop
  <2>1. ArchiveShape'
    BY <1>0, <1>3 DEF archive!Deploy, archive!Stop, ArchiveShape
  <2>2. AllKept'
    BY <1>0, <1>3 DEF archive!Deploy, archive!Stop, AllKept, Stored, archive!Files
  <2>3. InHand'
    BY <1>0, <1>3 DEF archive!Deploy, archive!Stop, InHand, Due, archive!Merging
  <2> QED
    BY <2>1, <2>2, <2>3 DEF ArchiveInv
<1>4. CASE archive!Killed
  <2>1. ArchiveShape'
    BY <1>0, RestingTool, <1>4 DEF archive!Killed, ArchiveShape
  <2>2. AllKept'
    BY <1>0, <1>4 DEF archive!Killed, AllKept, Stored, archive!Files
  <2>3. InHand'
    BY <1>0, RestingTool, <1>4 DEF archive!Killed, InHand, Due, archive!Merging
  <2> QED
    BY <2>1, <2>2, <2>3 DEF ArchiveInv
<1>5. CASE archive!Start
  <2>1. ArchiveShape'
    <3>1. archive_current' \in {archive_current, archive!Empty} /\ archive_service' = archive_rules /\ UNCHANGED <<archive_incoming, archive_rules, archive_tool, archive_ever>>
      BY <1>5 DEF archive!Start
    <3> QED
      BY <1>0, <1>2, <1>n, <3>1 DEF ArchiveShape
  <2>2. AllKept'
    BY <1>0, <1>2, <1>5 DEF archive!Start, AllKept, Stored, archive!Files
  <2>3. InHand'
    <3>1. archive_current # None => archive_current' = archive_current
      BY <1>5 DEF archive!Start
    <3> QED
      BY <1>0, <1>2, <1>5, <3>1 DEF archive!Start, InHand, Due, archive!Merging
  <2> QED
    BY <2>1, <2>2, <2>3 DEF ArchiveInv
<1>6. ASSUME NEW l \in ArchiveStories, archive!Hide(l) PROVE ArchiveInv'
  <2>1. /\ archive_current \in Databases /\ archive_current.hidden # None /\ archive_current.hidden \cup {l} \in SUBSET archive!AllLinks
    <3>1. archive_current \in Databases /\ archive_current.hidden # None
      BY <1>0, <1>6 DEF archive!Hide, ArchiveShape
    <3>2. archive_current.hidden \in SUBSET archive!AllLinks
      BY <3>1, <1>r
    <3>3. l \in archive!AllLinks
      BY DEF archive!AllLinks
    <3> QED
      BY <3>1, <3>2, <3>3
  <2>2. archive_current' \in Databases /\ archive_current'.articles = archive_current.articles /\ archive_current'.hidden = archive_current.hidden \cup {l}
    BY <2>1, <1>6, WithHidden DEF archive!Hide
  <2>3. ArchiveShape'
    BY <1>0, <2>1, <2>2, <1>6 DEF archive!Hide, ArchiveShape, ArchiveConstants
  <2>4. archive_current' # None /\ UNCHANGED <<archive_incoming, archive_copies, archive_service, archive_tool, archive_ever>> /\ archive_current # None
    BY <2>2, <1>6 DEF archive!Hide, ArchiveConstants
  <2>5. AllKept'
    BY <1>0, <2>2, <2>4 DEF AllKept, Stored, archive!Files
  <2>6. InHand'
    BY <1>0, <2>2, <2>4 DEF InHand, Due, archive!Merging
  <2> QED
    BY <2>3, <2>5, <2>6 DEF ArchiveInv
<1> QED
  BY <1>3, <1>4, <1>5, <1>6

LEMMA UploadKeeps ==
  ASSUME ArchiveConstants, ArchiveInv, NEW db \in Uploads, archive!Upload(db)
  PROVE  ArchiveInv'
<1>0. ArchiveShape /\ AllKept /\ InHand
  BY DEF ArchiveInv
<1>1. db \in Databases /\ db # None /\ db.articles \in Rows
  BY DEF ArchiveConstants, Databases
<1>2. /\ archive_incoming = None /\ archive_incoming' = db /\ ~archive!Merging
      /\ UNCHANGED <<archive_current, archive_copies, archive_service, archive_rules, archive_tool>>
  BY DEF archive!Upload
<1>3. \A l \in archive!AllLinks, c \in Labels : <<l, c>> \in archive_ever' <=> <<l, c>> \in archive_ever \/ db.articles[l] = c
  BY DEF archive!Upload, archive!RowsOf, ArchiveConstants
<1>4. archive_ever' \subseteq archive!AllLinks \X Labels
  <2>1. \A l \in archive!AllLinks : db.articles[l] \in Labels \cup {None}
    BY <1>1 DEF Rows
  <2> QED
    BY <1>0, <2>1 DEF archive!Upload, archive!RowsOf, ArchiveShape
<1>5. ArchiveShape'
  BY <1>0, <1>1, <1>2, <1>4 DEF ArchiveShape
<1>6. AllKept'
  <2>1. \A old \in archive!Files : \E new \in archive!Files' : Covers(new, old)
    BY <1>2, CoversItself DEF archive!Files
  <2> SUFFICES ASSUME NEW l \in archive!AllLinks, NEW c \in Labels, <<l, c>> \in archive_ever'
               PROVE  Stored(l, c)' /\ (l \in ArchivePosts => c = FileLabel[l])
    BY DEF AllKept
  <2>2. CASE <<l, c>> \in archive_ever
    BY <2>1, <2>2, <1>0, StillStored DEF AllKept
  <2>3. CASE db.articles[l] = c
    <3>1. Stored(l, c)'
      BY <1>1, <1>2, <2>3 DEF Stored, archive!Files
    <3>2. l \in ArchivePosts => c = FileLabel[l]
      BY <2>3 DEF ArchiveConstants
    <3> QED
      BY <3>1, <3>2
  <2> QED
    BY <2>2, <2>3, <1>3
<1>7. InHand'
  BY <1>0, <1>1, <1>2 DEF InHand, Due, archive!Merging
<1> QED
  BY <1>5, <1>6, <1>7 DEF ArchiveInv

LEMMA RetagKeeps ==
  ASSUME ArchiveConstants, ArchiveInv,
         archive!RetagRead \/ archive!RetagBackup \/ archive!RetagWrite
  PROVE  ArchiveInv'
<1>0. ArchiveShape /\ AllKept /\ InHand
  BY DEF ArchiveInv
<1>1. CASE archive!RetagRead
  <2>1. /\ archive_current # None /\ archive_current \in Databases /\ archive_current.articles \in Rows
        /\ UNCHANGED <<archive_current, archive_incoming, archive_copies, archive_service, archive_rules, archive_ever>>
        /\ archive_tool' = [at |-> "back up", updates |-> archive!Updates]
    BY <1>0, <1>1 DEF archive!RetagRead, archive!Begun, ArchiveShape, Databases
  <2>2. archive!Updates \in SUBSET (archive!AllLinks \X Labels)
    <3>1. \A l \in archive!AllLinks : LabelOf[<<archive_rules, l>>] \in Labels
      BY <1>0 DEF ArchiveShape, ArchiveConstants
    <3> SUFFICES ASSUME NEW u \in archive!Updates
                 PROVE  u \in archive!AllLinks \X Labels
      OBVIOUS
    <3>2. PICK l \in archive!AllLinks : u = <<l, LabelOf[<<archive_rules, l>>]>>
      BY DEF archive!Updates
    <3> QED
      BY <3>1, <3>2
  <2>3. archive_tool' \in Tools /\ archive_tool'.at = "back up" /\ archive_tool'.updates = archive!Updates
    BY <2>1, <2>2, ToolRecord DEF Phases
  <2>4. \A l \in archive!AllLinks, c \in Labels : <<l, c>> \in archive!Updates => archive_current.articles[l] # None
    BY DEF archive!Updates
  <2>5. ArchiveShape'
    BY <1>0, <2>1, <2>3 DEF ArchiveShape
  <2>6. AllKept'
    BY <1>0, <2>1 DEF AllKept, Stored, archive!Files
  <2>7. InHand'
    BY <2>1, <2>3, <2>4 DEF InHand, Due, archive!Merging
  <2> QED
    BY <2>5, <2>6, <2>7 DEF ArchiveInv
<1>2. CASE archive!RetagBackup
  <2>1. /\ archive_tool.at = "back up" /\ archive_copies' = archive_copies \cup {archive_current} /\ archive_tool' = [archive_tool EXCEPT !.at = "rewrite"]
        /\ UNCHANGED <<archive_current, archive_incoming, archive_service, archive_rules, archive_ever>>
    BY <1>2 DEF archive!RetagBackup, archive!Then
  <2>2. archive_tool' \in Tools /\ archive_tool'.at = "rewrite" /\ archive_tool'.updates = archive_tool.updates
    BY <1>0, <2>1, Then DEF ArchiveShape, Phases
  <2>3. ArchiveShape'
    BY <1>0, <2>1, <2>2 DEF ArchiveShape
  <2>4. AllKept'
    <3>1. \A old \in archive!Files : \E new \in archive!Files' : Covers(new, old)
      BY <2>1, CoversItself DEF archive!Files
    <3> QED
      BY <1>0, <3>1, <2>1, StillStored DEF AllKept
  <2>5. InHand'
    BY <1>0, <2>1, <2>2 DEF InHand, Due, archive!Merging
  <2> QED
    BY <2>3, <2>4, <2>5 DEF ArchiveInv
<1>3. CASE archive!RetagWrite
  <2> DEFINE rows == archive!Rewritten(archive_current.articles, archive_tool.updates)
  <2>1. /\ archive_tool.at = "rewrite" /\ archive_tool' = archive!Resting
        /\ archive_current' = [archive_current EXCEPT !.articles = rows]
        /\ UNCHANGED <<archive_incoming, archive_copies, archive_service, archive_rules, archive_ever>>
    BY <1>3 DEF archive!RetagWrite
  <2>2. archive_current # None /\ archive_current \in Databases /\ archive_tool.updates \subseteq archive!AllLinks \X Labels
        /\ archive_current.hidden # None
    BY <1>0, <2>1 DEF InHand, ArchiveShape, Tools
  <2>3. archive_current.articles \in Rows
    BY <2>2 DEF Databases
  <2>4. \A l \in archive!AllLinks : rows[l] = archive_current.articles[l] \/ Due(l)
    BY <2>2 DEF archive!Rewritten, Due
  <2>5. rows \in Rows
    <3> SUFFICES ASSUME NEW l \in archive!AllLinks, \E u \in archive_tool.updates : u[1] = l
                 PROVE  (CHOOSE u \in archive_tool.updates : u[1] = l)[2] \in Labels
      BY <2>3 DEF archive!Rewritten, Rows
    <3>1. (CHOOSE u \in archive_tool.updates : u[1] = l) \in archive_tool.updates
      OBVIOUS
    <3> QED
      BY <3>1, <2>2
  <2>6. archive_current' \in Databases /\ archive_current'.articles = rows /\ archive_current'.hidden = archive_current.hidden /\ archive_current' # None
    BY <2>1, <2>2, <2>5, WithArticles DEF ArchiveConstants
  <2>7. archive_tool' \in Tools /\ archive_tool'.at = "resting"
    BY <2>1, RestingTool
  <2>8. ArchiveShape'
    BY <1>0, <2>1, <2>2, <2>6, <2>7 DEF ArchiveShape
  <2>9. AllKept'
    <3> SUFFICES ASSUME NEW l \in archive!AllLinks, NEW c \in Labels, <<l, c>> \in archive_ever
                 PROVE  Stored(l, c)' /\ (l \in ArchivePosts => c = FileLabel[l])
      BY <2>1 DEF AllKept
    <3>1. Stored(l, c) /\ (l \in ArchivePosts => c = FileLabel[l])
      BY <1>0 DEF AllKept
    <3>2. PICK db \in archive!Files : db.articles[l] = c
      BY <3>1 DEF Stored
    <3>3. CASE db # archive_current
      BY <2>1, <3>1, <3>2, <3>3 DEF Stored, archive!Files
    <3>4. CASE db = archive_current
      <4>1. CASE rows[l] = archive_current.articles[l]
        BY <4>1, <3>1, <3>2, <3>4, <2>6 DEF Stored, archive!Files
      <4>2. CASE Due(l)
        BY <4>2, <3>1, <3>2, <3>4, <2>1, <1>0 DEF InHand, Stored, archive!Files, ArchiveConstants
      <4> QED
        BY <4>1, <4>2, <2>4
    <3> QED
      BY <3>3, <3>4
  <2>10. InHand'
    BY <2>7 DEF InHand, archive!Merging
  <2> QED
    BY <2>8, <2>9, <2>10 DEF ArchiveInv
<1> QED
  BY <1>1, <1>2, <1>3

LEMMA ImportKeeps ==
  ASSUME ArchiveConstants, ArchiveInv, archive!Import
  PROVE  ArchiveInv'
<1> DEFINE rows == [l \in archive!AllLinks |-> IF l \in ArchivePosts THEN FileLabel[l] ELSE archive_current.articles[l]]
<1>0. ArchiveShape /\ AllKept /\ InHand
  BY DEF ArchiveInv
<1>1. /\ archive_current # None /\ archive_current \in Databases /\ archive_current.hidden # None
      /\ archive_current' = [archive_current EXCEPT !.articles = rows]
      /\ UNCHANGED <<archive_incoming, archive_copies, archive_service, archive_rules, archive_tool, archive_ever>>
      /\ archive_tool.at = "resting"
  BY <1>0, RestingTool DEF archive!Import, archive!Filed, ArchiveShape
<1>2. archive_current.articles \in Rows
  BY <1>1 DEF Databases
<1>3. rows \in Rows
  BY <1>2 DEF Rows, ArchiveConstants
<1>4. archive_current' \in Databases /\ archive_current'.articles = rows /\ archive_current'.hidden = archive_current.hidden /\ archive_current' # None
  BY <1>1, <1>3, WithArticles DEF ArchiveConstants
<1>5. ArchiveShape'
  BY <1>0, <1>1, <1>4 DEF ArchiveShape
<1>6. AllKept'
  <2> SUFFICES ASSUME NEW l \in archive!AllLinks, NEW c \in Labels, <<l, c>> \in archive_ever
               PROVE  Stored(l, c)' /\ (l \in ArchivePosts => c = FileLabel[l])
    BY <1>1 DEF AllKept
  <2>1. Stored(l, c) /\ (l \in ArchivePosts => c = FileLabel[l])
    BY <1>0 DEF AllKept
  <2>2. PICK db \in archive!Files : db.articles[l] = c
    BY <2>1 DEF Stored
  <2>3. CASE db # archive_current
    BY <1>1, <2>1, <2>2, <2>3 DEF Stored, archive!Files
  <2>4. CASE db = archive_current
    <3>1. rows[l] = c
      BY <2>1, <2>2, <2>4
    <3> QED
      BY <3>1, <2>1, <1>4 DEF Stored, archive!Files
  <2> QED
    BY <2>3, <2>4
<1>7. InHand'
  BY <1>0, <1>1 DEF InHand, Due, archive!Merging
<1> QED
  BY <1>5, <1>6, <1>7 DEF ArchiveInv

LEMMA MergeKeeps ==
  ASSUME ArchiveConstants, ArchiveInv,
         \/ archive!MergeStart \/ archive!MergeArticles \/ archive!MergeHidden
         \/ archive!MoveAway \/ archive!MoveIn
  PROVE  ArchiveInv'
<1>0. ArchiveShape /\ AllKept /\ InHand
  BY DEF ArchiveInv
<1>r. \A db \in Databases : db.articles \in Rows /\ db.hidden \in (SUBSET archive!AllLinks) \cup {None}
  BY DEF Databases
<1>1. CASE archive!MergeStart
  <2>1. /\ archive_tool' = [at |-> "merge articles", updates |-> {}]
        /\ archive_current # None /\ archive_incoming # None /\ archive_service = "stopped"
        /\ UNCHANGED <<archive_current, archive_incoming, archive_copies, archive_service, archive_rules, archive_ever>>
    BY <1>1 DEF archive!MergeStart, archive!Begun
  <2>2. {} \in SUBSET (archive!AllLinks \X Labels) /\ "merge articles" \in Phases
    BY DEF Phases
  <2>3. archive_tool' \in Tools /\ archive_tool'.at = "merge articles"
    BY <2>1, <2>2, ToolRecord
  <2>4. ArchiveShape'
    BY <1>0, <2>1, <2>3 DEF ArchiveShape
  <2>5. AllKept'
    BY <1>0, <2>1 DEF AllKept, Stored, archive!Files
  <2>6. InHand'
    BY <2>1, <2>3 DEF InHand, archive!Merging
  <2> QED
    BY <2>4, <2>5, <2>6 DEF ArchiveInv
<1>2. CASE archive!MergeArticles
  <2> DEFINE rows == archive!Merged(archive_incoming.articles, archive_current.articles)
  <2>1. /\ archive_tool.at = "merge articles" /\ archive_tool' = [archive_tool EXCEPT !.at = "merge hidden"]
        /\ archive_incoming' = [archive_incoming EXCEPT !.articles = rows]
        /\ UNCHANGED <<archive_current, archive_copies, archive_service, archive_rules, archive_ever>>
    BY <1>2 DEF archive!MergeArticles, archive!Then
  <2>2. /\ archive_current # None /\ archive_current \in Databases /\ archive_current.articles \in Rows
        /\ archive_incoming # None /\ archive_incoming \in Databases /\ archive_incoming.articles \in Rows
        /\ archive_service = "stopped"
    BY <1>0, <1>r, <2>1 DEF InHand, ArchiveShape, archive!Merging
  <2>3. rows \in Rows
    BY <2>2 DEF archive!Merged, Rows
  <2>4. archive_incoming' \in Databases /\ archive_incoming'.articles = rows /\ archive_incoming' # None
    BY <2>1, <2>2, <2>3, WithArticles DEF ArchiveConstants
  <2>5. archive_tool' \in Tools /\ archive_tool'.at = "merge hidden"
    BY <1>0, <2>1, Then DEF ArchiveShape, Phases
  <2>6. ArchiveShape'
    BY <1>0, <2>1, <2>4, <2>5 DEF ArchiveShape
  <2>7. AllKept'
    <3>1. Covers(archive_incoming', archive_incoming)
      BY <2>4 DEF Covers, archive!Merged
    <3>2. \A old \in archive!Files : \E new \in archive!Files' : Covers(new, old)
      BY <3>1, <2>1, <2>4, CoversItself DEF archive!Files
    <3> QED
      BY <1>0, <3>2, <2>1, StillStored DEF AllKept
  <2>8. InHand'
    BY <2>1, <2>2, <2>4, <2>5 DEF InHand, archive!Merging
  <2> QED
    BY <2>6, <2>7, <2>8 DEF ArchiveInv
<1>3. CASE archive!MergeHidden
  <2> DEFINE hidden == IF archive_incoming.hidden = None THEN None ELSE archive_incoming.hidden \cup archive_current.hidden
  <2>1. /\ archive_tool.at = "merge hidden" /\ archive_tool' = [archive_tool EXCEPT !.at = "move away"]
        /\ archive_incoming' = [archive_incoming EXCEPT !.hidden = hidden]
        /\ UNCHANGED <<archive_current, archive_copies, archive_service, archive_rules, archive_ever>>
    BY <1>3 DEF archive!MergeHidden, archive!Then
  <2>2. /\ archive_current # None /\ archive_current \in Databases /\ archive_current.hidden # None
        /\ archive_incoming # None /\ archive_incoming \in Databases /\ archive_service = "stopped"
    BY <1>0, <2>1 DEF InHand, ArchiveShape, archive!Merging
  <2>3. hidden \in (SUBSET archive!AllLinks) \cup {None}
    BY <2>2, <1>r
  <2>4. archive_incoming' \in Databases /\ archive_incoming'.articles = archive_incoming.articles /\ archive_incoming' # None
    BY <2>1, <2>2, <2>3, WithHidden DEF ArchiveConstants
  <2>5. archive_tool' \in Tools /\ archive_tool'.at = "move away"
    BY <1>0, <2>1, Then DEF ArchiveShape, Phases
  <2>6. ArchiveShape'
    BY <1>0, <2>1, <2>4, <2>5 DEF ArchiveShape
  <2>7. AllKept'
    <3>1. Covers(archive_incoming', archive_incoming)
      BY <2>4 DEF Covers
    <3>2. \A old \in archive!Files : \E new \in archive!Files' : Covers(new, old)
      BY <3>1, <2>1, <2>4, CoversItself DEF archive!Files
    <3> QED
      BY <1>0, <3>2, <2>1, StillStored DEF AllKept
  <2>8. InHand'
    BY <2>1, <2>2, <2>4, <2>5 DEF InHand, archive!Merging
  <2> QED
    BY <2>6, <2>7, <2>8 DEF ArchiveInv
<1>4. CASE archive!MoveAway
  <2>1. /\ archive_tool.at = "move away" /\ archive_tool' = [archive_tool EXCEPT !.at = "move in"]
        /\ archive_copies' = archive_copies \cup {archive_current} /\ archive_current' = None
        /\ UNCHANGED <<archive_incoming, archive_service, archive_rules, archive_ever>>
    BY <1>4 DEF archive!MoveAway, archive!Then
  <2>2. archive_incoming # None /\ archive_service = "stopped" /\ archive_current # None
    BY <1>0, <2>1 DEF InHand, archive!Merging
  <2>3. archive_tool' \in Tools /\ archive_tool'.at = "move in"
    BY <1>0, <2>1, Then DEF ArchiveShape, Phases
  <2>4. ArchiveShape'
    BY <1>0, <2>1, <2>3 DEF ArchiveShape
  <2>5. AllKept'
    <3>1. archive!Files \subseteq archive!Files'
      BY <2>1 DEF archive!Files
    <3> QED
      BY <1>0, <2>1, <3>1 DEF AllKept, Stored
  <2>6. InHand'
    BY <2>1, <2>2, <2>3 DEF InHand, archive!Merging
  <2> QED
    BY <2>4, <2>5, <2>6 DEF ArchiveInv
<1>5. CASE archive!MoveIn
  <2> DEFINE hidden == IF archive_incoming.hidden = None THEN {} ELSE archive_incoming.hidden
  <2>1. /\ archive_tool.at = "move in" /\ archive_tool' = archive!Resting
        /\ archive_current' = [archive_incoming EXCEPT !.hidden = hidden] /\ archive_incoming' = None
        /\ UNCHANGED <<archive_copies, archive_service, archive_rules, archive_ever>>
    BY <1>5 DEF archive!MoveIn
  <2>2. archive_incoming # None /\ archive_incoming \in Databases /\ archive_current = None
    BY <1>0, <2>1 DEF InHand, ArchiveShape, archive!Merging
  <2>3. hidden \in SUBSET archive!AllLinks /\ hidden # None
    BY <2>2, <1>r DEF ArchiveConstants
  <2>4. /\ archive_current' \in Databases /\ archive_current'.articles = archive_incoming.articles
        /\ archive_current'.hidden # None /\ archive_current' # None
    <3> HIDE DEF hidden
    <3>1. /\ [archive_incoming EXCEPT !.hidden = hidden] \in Databases
          /\ [archive_incoming EXCEPT !.hidden = hidden].articles = archive_incoming.articles
      BY <2>2, <2>3, WithHidden
    <3>2. archive_current'.hidden = hidden
      BY <2>1, <2>2 DEF Databases
    <3> QED
      BY <3>1, <3>2, <2>1, <2>3 DEF ArchiveConstants
  <2>5. ArchiveShape'
    BY <1>0, <2>1, <2>4, RestingTool DEF ArchiveShape
  <2>6. AllKept'
    <3>1. Covers(archive_current', archive_incoming)
      BY <2>4 DEF Covers
    <3>2. \A old \in archive!Files : \E new \in archive!Files' : Covers(new, old)
      BY <3>1, <2>1, <2>2, <2>4, CoversItself DEF archive!Files
    <3> QED
      BY <1>0, <3>2, <2>1, StillStored DEF AllKept
  <2>7. InHand'
    BY <2>1, RestingTool DEF InHand, archive!Merging
  <2> QED
    BY <2>5, <2>6, <2>7 DEF ArchiveInv
<1> QED
  BY <1>1, <1>2, <1>3, <1>4, <1>5

\* Whatever tools are run on whatever uploaded databases, and wherever they are killed, a row that was
\* ever collected or uploaded is still in one of the files on the host, with the categories it had
\* (vps_merge_db.py, retag_categories.py, import_blog_posts.py).
THEOREM ArchiveKeepsRows ==
  ASSUME ArchiveConstants
  PROVE  LaneSpec => []NothingLost
<1>1. archive!Init => ArchiveInv
  <2> SUFFICES ASSUME archive!Init PROVE ArchiveInv
    OBVIOUS
  <2>1. [l \in archive!AllLinks |-> None] \in Rows
    BY DEF Rows
  <2>2. /\ archive!Empty \in Databases /\ archive!Empty.hidden # None
    <3>1. archive!Empty = [articles |-> [l \in archive!AllLinks |-> None], hidden |-> {}]
      BY DEF archive!Empty
    <3> QED
      BY <2>1, <3>1 DEF Databases, ArchiveConstants
  <2>3. ArchiveShape
    BY <2>2, RestingTool DEF archive!Init, ArchiveShape
  <2>4. AllKept
    BY DEF archive!Init, AllKept
  <2>5. InHand
    BY RestingTool DEF archive!Init, InHand, archive!Merging
  <2> QED
    BY <2>3, <2>4, <2>5 DEF ArchiveInv
<1>2. ArchiveInv /\ [archive!Next]_archiveVars => ArchiveInv'
  <2> SUFFICES ASSUME ArchiveInv, [archive!Next]_archiveVars PROVE ArchiveInv'
    OBVIOUS
  <2>1. CASE archive!Next
    BY <2>1, CollectKeeps, SiteKeeps, UploadKeeps, RetagKeeps, ImportKeeps, MergeKeeps DEF archive!Next
  <2>2. CASE UNCHANGED archiveVars
    BY <2>2 DEF archiveVars, ArchiveInv, ArchiveShape, AllKept, Stored, InHand, Due, archive!Files,
         archive!Merging
  <2> QED
    BY <2>1, <2>2
<1>3. ArchiveInv => NothingLost
  <2> SUFFICES ASSUME ArchiveInv, NEW entry \in archive_ever
               PROVE  \E db \in archive!Files : entry \in archive!RowsOf(db)
    BY DEF NothingLost, archive!NothingLost
  <2>1. PICK l \in archive!AllLinks, c \in Labels : entry = <<l, c>>
    BY DEF ArchiveInv, ArchiveShape
  <2>2. PICK db \in archive!Files : db.articles[l] = c
    BY <2>1 DEF ArchiveInv, AllKept, Stored
  <2>3. entry \in archive!RowsOf(db)
    BY <2>1, <2>2 DEF archive!RowsOf, ArchiveConstants
  <2> QED
    BY <2>3
<1>4. LaneInit => archive!Init
  BY DEF LaneInit
<1> QED
  BY <1>1, <1>2, <1>3, <1>4, ArchiveLane, PTL DEF LaneSpec

-----------------------------------------------------------------------------
(* Publishing.  A run that publishes has a complete build (FromComplete),  *)
(* and the temporary file it has finished is its own and whole (Finished): *)
(* a page builder draws a new name for each, and of the runs of the        *)
(* script, which name theirs after the commit, one is at work at a time    *)
(* (OneUpdate).                                                            *)

LEMMA PublishingLane == [LaneNext]_allVars => [publishing!Next]_publishingVars
<1> SUFFICES ASSUME [LaneNext]_allVars PROVE publishing!Next \/ UNCHANGED publishingVars
  OBVIOUS
<1>1. CASE LaneNext
  BY <1>1 DEF LaneNext, RulesStep, CalendarStep, SessionsStep, DeskStep, LearnerStep, ArchiveStep,
     PublicjsonStep, CutoverStep, PublishingStep, ScoringStep, publishing!Next
<1>2. CASE UNCHANGED allVars
  BY <1>2 DEF allVars
<1> QED
  BY <1>1, <1>2

File == [build : PublishRuns, whole : BOOLEAN]
PublishingShape ==
  /\ publishing_served \in [publishing!Places -> [build : PublishRuns \cup {"before"}, whole : BOOLEAN]]
  /\ publishing_temp \in [publishing!TempNames -> File \cup {None}]
  /\ publishing_complete \in [PublishRuns -> BOOLEAN]
  /\ publishing_stage \in [PublishRuns -> {"new", "built", "publish", "end"}]
  /\ publishing_step \in [PublishRuns -> Nat]
  /\ \A r \in PublishRuns : publishing_step[r] \in 1 .. Len(publishing!Order(r))
  /\ publishing_copied \in [PublishRuns -> {"no", "half", "yes"}]

OneUpdate ==
  \A q, r \in PublishRuns :
    RunKind(q) = "update" /\ RunKind(r) = "update" /\ ~publishing!Ended(q) /\ ~publishing!Ended(r) => q = r

\* A build that may be out is complete, and its run past the look at the staged outputs.
Out(r) == publishing_complete[r] /\ publishing_stage[r] \in {"publish", "end"}
FromComplete ==
  /\ \A r \in PublishRuns : publishing!Publishes(r) => publishing_complete[r]
  /\ \A p \in publishing!Places : publishing_served[p].build \in PublishRuns => Out(publishing_served[p].build)
  /\ \A n \in publishing!TempNames : publishing_temp[n] # None => Out(publishing_temp[n].build)

Finished ==
  \A r \in PublishRuns :
    /\ publishing_stage[r] \in {"new", "built"} => publishing_copied[r] = "no"
    /\ publishing!Publishes(r) /\ publishing_copied[r] # "no" /\ publishing!Renamed(r, publishing!Place(r)) =>
         publishing_temp[publishing!TempName(r, publishing!Place(r))] =
           [build |-> r, whole |-> publishing_copied[r] = "yes"]

WholePages == \A p \in publishing!Places : p \in {"ticker", "landing", "thai"} => publishing_served[p].whole

PublishingInv == PublishingShape /\ OneUpdate /\ FromComplete /\ Finished /\ WholePages

\* The places a run publishes.
LEMMA PlacesOfARun ==
  ASSUME PublishingShape, NEW r \in PublishRuns
  PROVE  /\ publishing!Place(r) \in publishing!Places
         /\ ~publishing!Renamed(r, publishing!Place(r)) => publishing!Place(r) \in {"news", "sections"}
         /\ publishing!TempName(r, publishing!Place(r)) \in publishing!TempNames
<1>1. publishing_step[r] \in 1 .. Len(publishing!Order(r))
  BY DEF PublishingShape
<1>2. CASE RunKind(r) = "seed"
  <2>1. publishing!Order(r) = <<"news", "thai">> /\ Len(publishing!Order(r)) = 2
    BY <1>2 DEF publishing!Order
  <2>2. publishing!Place(r) \in {"news", "thai"}
    BY <1>1, <2>1 DEF publishing!Place
  <2> QED
    BY <1>2, <2>2 DEF publishing!Places, publishing!Renamed, publishing!TempNames
<1>3. CASE RunKind(r) # "seed"
  <2>1. publishing!Order(r) = <<"ticker", "landing", "news", "sections">> /\ Len(publishing!Order(r)) = 4
    BY <1>3 DEF publishing!Order
  <2>2. publishing!Place(r) \in {"ticker", "landing", "news", "sections"}
    BY <1>1, <2>1 DEF publishing!Place
  <2> QED
    BY <2>2 DEF publishing!Places, publishing!Renamed, publishing!TempNames
<1> QED
  BY <1>2, <1>3

\* Two runs that publish write under different names, whatever places they are at.
LEMMA NamesApart ==
  ASSUME PublishingInv, NEW q \in PublishRuns, NEW r \in PublishRuns, q # r,
         publishing!Publishes(q), publishing!Publishes(r), NEW a, NEW b
  PROVE  publishing!TempName(q, a) # publishing!TempName(r, b)
<1>1. ~(RunKind(q) = "update" /\ RunKind(r) = "update")
  BY DEF PublishingInv, OneUpdate, publishing!Publishes, publishing!Ended
<1> QED
  BY <1>1, PublishingAssumption DEF publishing!TempName

LEMMA BuildKeeps ==
  ASSUME PublishingInv, NEW r \in PublishRuns,
         publishing!Build(r) \/ publishing!Staged(r)
  PROVE  PublishingInv'
<1>0. PublishingShape /\ OneUpdate /\ FromComplete /\ Finished /\ WholePages
  BY DEF PublishingInv
<1>1. /\ UNCHANGED <<publishing_served, publishing_temp, publishing_step, publishing_copied>>
      /\ publishing_stage[r] \in {"new", "built"} /\ ~publishing!Publishes(r)
      /\ \A q \in PublishRuns : q # r => publishing_stage'[q] = publishing_stage[q]
                                        /\ publishing_complete'[q] = publishing_complete[q]
      /\ publishing_complete' \in [PublishRuns -> BOOLEAN]
      /\ publishing_stage' \in [PublishRuns -> {"new", "built", "publish", "end"}]
      /\ publishing_stage'[r] = "publish" => publishing_complete'[r]
      /\ publishing_stage'[r] # "new"
  BY <1>0 DEF PublishingShape, publishing!Build, publishing!Staged, publishing!Publishes
<1>2. PublishingShape'
  BY <1>0, <1>1 DEF PublishingShape, publishing!Order
<1>3. OneUpdate'
  <2>1. CASE publishing!Build(r)
    BY <1>0, <1>1, <2>1 DEF OneUpdate, publishing!Build, publishing!Ended
  <2>2. CASE publishing!Staged(r)
    BY <1>0, <1>1, <2>2 DEF OneUpdate, publishing!Staged, publishing!Ended
  <2> QED
    BY <2>1, <2>2
<1>4. FromComplete'
  <2>1. \A q \in PublishRuns : Out(q) => Out(q)'
    BY <1>1 DEF Out
  <2>2. \A n \in publishing!TempNames : publishing_temp[n] # None => publishing_temp[n].build \in PublishRuns
    BY <1>0 DEF PublishingShape, File
  <2>3. \A q \in PublishRuns : publishing!Publishes(q)' => publishing_complete'[q]
    BY <1>0, <1>1 DEF FromComplete, publishing!Publishes
  <2>4. \A p \in publishing!Places : publishing_served'[p].build \in PublishRuns => Out(publishing_served[p].build)'
    BY <1>0, <1>1, <2>1 DEF FromComplete
  <2>5. \A n \in publishing!TempNames : publishing_temp'[n] # None => Out(publishing_temp[n].build)'
    BY <1>0, <1>1, <2>1, <2>2 DEF FromComplete
  <2> QED
    BY <1>1, <2>3, <2>4, <2>5 DEF FromComplete
<1>5. Finished'
  <2>1. \A q \in PublishRuns : publishing!Publishes(q)' /\ publishing_copied'[q] # "no" => publishing!Publishes(q)
    BY <1>0, <1>1 DEF Finished, publishing!Publishes
  <2>2. \A q \in PublishRuns : publishing_stage'[q] \in {"new", "built"} => publishing_copied'[q] = "no"
    BY <1>0, <1>1 DEF Finished
  <2> QED
    BY <1>0, <1>1, <2>1, <2>2 DEF Finished, publishing!TempName, publishing!Place, publishing!Order,
       publishing!Renamed
<1>6. WholePages'
  BY <1>0, <1>1 DEF WholePages
<1> QED
  BY <1>2, <1>3, <1>4, <1>5, <1>6 DEF PublishingInv

LEMMA CopyKeeps ==
  ASSUME PublishingInv, NEW r \in PublishRuns, publishing!Copy(r)
  PROVE  PublishingInv'
<1> DEFINE place == publishing!Place(r)
           name  == publishing!TempName(r, place)
           file  == [build |-> r, whole |-> publishing_copied[r] = "half"]
<1>0. PublishingShape /\ OneUpdate /\ FromComplete /\ Finished /\ WholePages
  BY DEF PublishingInv
<1>1. /\ publishing!Publishes(r) /\ publishing_copied[r] # "yes" /\ Out(r)
      /\ publishing_copied' = [publishing_copied EXCEPT ![r] = IF @ = "no" THEN "half" ELSE "yes"]
      /\ UNCHANGED <<publishing_complete, publishing_stage, publishing_step>>
  BY <1>0 DEF publishing!Copy, FromComplete, Out, publishing!Publishes
<1>2. place \in publishing!Places /\ name \in publishing!TempNames
      /\ (~publishing!Renamed(r, place) => place \in {"news", "sections"})
  BY <1>0, PlacesOfARun
<1>3. file \in File /\ file.build = r /\ publishing_copied'[r] \in {"half", "yes"}
      /\ (publishing_copied[r] = "half" <=> publishing_copied'[r] = "yes")
  BY <1>0, <1>1 DEF File, PublishingShape
<1>4. \/ /\ publishing!Renamed(r, place)
         /\ publishing_temp' = [publishing_temp EXCEPT ![name] = file] /\ UNCHANGED publishing_served
      \/ /\ ~publishing!Renamed(r, place)
         /\ publishing_served' = [publishing_served EXCEPT ![place] = file] /\ UNCHANGED publishing_temp
  BY DEF publishing!Copy, publishing!Target
<1>5. PublishingShape'
  <2>1. file \in [build : PublishRuns \cup {"before"}, whole : BOOLEAN] /\ file \in File \cup {None}
    BY <1>3 DEF File
  <2> HIDE DEF file, name, place
  <2>2. publishing_served' \in [publishing!Places -> [build : PublishRuns \cup {"before"}, whole : BOOLEAN]]
    BY <1>0, <1>4, <2>1 DEF PublishingShape
  <2>3. publishing_temp' \in [publishing!TempNames -> File \cup {None}]
    BY <1>0, <1>4, <2>1 DEF PublishingShape
  <2>4. publishing_copied' \in [PublishRuns -> {"no", "half", "yes"}]
    BY <1>0, <1>1 DEF PublishingShape
  <2> QED
    BY <1>0, <1>1, <2>2, <2>3, <2>4 DEF PublishingShape, File, publishing!Order
<1>6. OneUpdate'
  BY <1>0, <1>1 DEF OneUpdate, publishing!Ended
<1>7. FromComplete'
  <2>1. \A q \in PublishRuns : Out(q)' = Out(q)
    BY <1>1 DEF Out
  <2>2. \A n \in publishing!TempNames : publishing_temp[n] # None => publishing_temp[n].build \in PublishRuns
    BY <1>0 DEF PublishingShape, File
  <2>3. \A q \in PublishRuns : publishing!Publishes(q)' => publishing_complete'[q]
    BY <1>0, <1>1 DEF FromComplete, publishing!Publishes
  <2>4. \A p \in publishing!Places : publishing_served'[p].build \in PublishRuns => Out(publishing_served'[p].build)
    BY <1>0, <1>1, <1>2, <1>3, <1>4 DEF FromComplete, PublishingShape
  <2>5. \A n \in publishing!TempNames : publishing_temp'[n] # None => Out(publishing_temp'[n].build)
                                                                     /\ publishing_temp'[n].build \in PublishRuns
    BY <1>0, <1>1, <1>2, <1>3, <1>4, <2>2 DEF FromComplete, PublishingShape
  <2>6. \A p \in publishing!Places : publishing_served'[p].build \in PublishRuns => Out(publishing_served[p].build)'
    BY <2>1, <2>4, <1>1 DEF Out
  <2>7. \A n \in publishing!TempNames : publishing_temp'[n] # None => Out(publishing_temp[n].build)'
    BY <2>1, <2>5, <1>1 DEF Out
  <2> QED
    BY <1>1, <2>3, <2>6, <2>7 DEF FromComplete
<1>8. Finished'
  <2> SUFFICES ASSUME NEW q \in PublishRuns
               PROVE  /\ publishing_stage'[q] \in {"new", "built"} => publishing_copied'[q] = "no"
                      /\ publishing!Publishes(q) /\ publishing_copied'[q] # "no"
                           /\ publishing!Renamed(q, publishing!Place(q)) =>
                           publishing_temp'[publishing!TempName(q, publishing!Place(q))] =
                             [build |-> q, whole |-> publishing_copied'[q] = "yes"]
    BY <1>1 DEF Finished, publishing!Publishes, publishing!Place, publishing!Order, publishing!Renamed,
                publishing!TempName
  <2>1. publishing!TempName(q, publishing!Place(q)) \in publishing!TempNames
    BY <1>0, PlacesOfARun
  <2>2. CASE q = r
    BY <1>0, <1>1, <1>2, <1>3, <1>4, <2>2 DEF Finished, PublishingShape, publishing!Publishes
  <2>3. CASE q # r
    <3>1. publishing_copied'[q] = publishing_copied[q]
      BY <1>0, <1>1, <2>3 DEF PublishingShape
    <3>2. publishing!Publishes(q) => publishing!TempName(q, publishing!Place(q)) # name
      BY <1>1, <2>3, NamesApart
    <3>3. publishing!Publishes(q) => publishing_temp'[publishing!TempName(q, publishing!Place(q))]
                                     = publishing_temp[publishing!TempName(q, publishing!Place(q))]
      BY <1>0, <1>4, <2>1, <3>2 DEF PublishingShape
    <3> QED
      BY <1>0, <1>1, <3>1, <3>3 DEF Finished
  <2> QED
    BY <2>2, <2>3
<1>9. WholePages'
  BY <1>0, <1>2, <1>4 DEF WholePages, PublishingShape
<1> QED
  BY <1>5, <1>6, <1>7, <1>8, <1>9 DEF PublishingInv

LEMMA MoveKeeps ==
  ASSUME PublishingInv, NEW r \in PublishRuns, publishing!Move(r)
  PROVE  PublishingInv'
<1> DEFINE place == publishing!Place(r)
           name  == publishing!TempName(r, place)
           file  == [build |-> r, whole |-> TRUE]
<1>0. PublishingShape /\ OneUpdate /\ FromComplete /\ Finished /\ WholePages
  BY DEF PublishingInv
<1>1. /\ publishing!Publishes(r) /\ publishing_copied[r] = "yes" /\ Out(r)
      /\ publishing_stage' = [publishing_stage EXCEPT ![r] = IF publishing!Last(r) THEN "end" ELSE @]
      /\ publishing_step' = [publishing_step EXCEPT ![r] = IF publishing!Last(r) THEN @ ELSE @ + 1]
      /\ publishing_copied' = [publishing_copied EXCEPT ![r] = "no"]
      /\ UNCHANGED publishing_complete
  BY <1>0 DEF publishing!Move, FromComplete, Out, publishing!Publishes
<1>2. place \in publishing!Places /\ name \in publishing!TempNames
  BY <1>0, PlacesOfARun
<1>3. \/ /\ publishing!Renamed(r, place)
         /\ publishing_served' = [publishing_served EXCEPT ![place] = file]
         /\ publishing_temp' = [publishing_temp EXCEPT ![name] = None]
      \/ UNCHANGED <<publishing_served, publishing_temp>>
  BY <1>0, <1>1 DEF publishing!Move, Finished
<1>4. file \in File \cup {None} /\ file \in [build : PublishRuns \cup {"before"}, whole : BOOLEAN]
      /\ file.build = r /\ file.whole
  BY DEF File
<1> HIDE DEF file, name, place
<1>5. PublishingShape'
  <2>1. publishing_step' \in [PublishRuns -> Nat]
    BY <1>0, <1>1 DEF PublishingShape
  <2>2. \A q \in PublishRuns : publishing_step'[q] \in 1 .. Len(publishing!Order(q))
    <3>1. publishing_step'[r] \in 1 .. Len(publishing!Order(r))
      <4>1. publishing_step[r] \in 1 .. Len(publishing!Order(r)) /\ Len(publishing!Order(r)) \in {2, 4}
        BY <1>0 DEF PublishingShape, publishing!Order
      <4>2. publishing_step'[r] = IF publishing!Last(r) THEN publishing_step[r] ELSE publishing_step[r] + 1
        BY <1>0, <1>1 DEF PublishingShape
      <4> QED
        BY <4>1, <4>2 DEF publishing!Last
    <3>2. \A q \in PublishRuns : q # r => publishing_step'[q] = publishing_step[q]
      BY <1>0, <1>1 DEF PublishingShape
    <3> QED
      BY <1>0, <3>1, <3>2 DEF PublishingShape
  <2>3. \A q \in PublishRuns : publishing!Order(q)' = publishing!Order(q)
    BY DEF publishing!Order
  <2>4. /\ publishing_served' \in [publishing!Places -> [build : PublishRuns \cup {"before"}, whole : BOOLEAN]]
        /\ publishing_temp' \in [publishing!TempNames -> File \cup {None}]
    BY <1>0, <1>3, <1>4 DEF PublishingShape
  <2>5. /\ publishing_stage' \in [PublishRuns -> {"new", "built", "publish", "end"}]
        /\ publishing_copied' \in [PublishRuns -> {"no", "half", "yes"}]
        /\ publishing_complete' \in [PublishRuns -> BOOLEAN]
    BY <1>0, <1>1 DEF PublishingShape
  <2> QED
    BY <2>1, <2>2, <2>3, <2>4, <2>5 DEF PublishingShape, File, publishing!Order
<1>6. OneUpdate'
  BY <1>0, <1>1 DEF OneUpdate, publishing!Ended, PublishingShape, publishing!Publishes
<1>7. FromComplete'
  <2>1. \A q \in PublishRuns : Out(q) => Out(q)'
    BY <1>0, <1>1 DEF Out, PublishingShape
  <2>2. \A n \in publishing!TempNames : publishing_temp[n] # None => publishing_temp[n].build \in PublishRuns
    BY <1>0 DEF PublishingShape, File
  <2>3. \A q \in PublishRuns : publishing!Publishes(q)' => publishing_complete'[q]
    BY <1>0, <1>1 DEF FromComplete, publishing!Publishes, PublishingShape
  <2>4. \A p \in publishing!Places : publishing_served'[p].build \in PublishRuns => Out(publishing_served'[p].build)
    BY <1>0, <1>1, <1>3, <1>4 DEF FromComplete, PublishingShape
  <2>5. \A n \in publishing!TempNames : publishing_temp'[n] # None => Out(publishing_temp'[n].build)
                                                                     /\ publishing_temp'[n].build \in PublishRuns
    BY <1>0, <1>2, <1>3, <2>2 DEF FromComplete, PublishingShape
  <2>6. \A p \in publishing!Places : publishing_served'[p].build \in PublishRuns => Out(publishing_served[p].build)'
    BY <2>1, <2>4 DEF Out
  <2>7. \A n \in publishing!TempNames : publishing_temp'[n] # None => Out(publishing_temp[n].build)'
    BY <2>1, <2>5 DEF Out
  <2> QED
    BY <2>3, <2>6, <2>7 DEF FromComplete
<1>8. Finished'
  <2> SUFFICES ASSUME NEW q \in PublishRuns
               PROVE  /\ publishing_stage'[q] \in {"new", "built"} => publishing_copied'[q] = "no"
                      /\ publishing!Publishes(q)' /\ publishing_copied'[q] # "no"
                           /\ publishing!Renamed(q, publishing!Place(q)') =>
                           publishing_temp'[publishing!TempName(q, publishing!Place(q)')] =
                             [build |-> q, whole |-> publishing_copied'[q] = "yes"]
    BY DEF Finished, publishing!Renamed, publishing!TempName
  <2>1. CASE q = r
    BY <1>0, <1>1, <2>1 DEF PublishingShape, publishing!Publishes
  <2>2. CASE q # r
    <3>1. /\ publishing_copied'[q] = publishing_copied[q] /\ publishing_stage'[q] = publishing_stage[q]
          /\ publishing_step'[q] = publishing_step[q]
      BY <1>0, <1>1, <2>2 DEF PublishingShape
    <3>2. publishing!Place(q)' = publishing!Place(q)
      BY <3>1 DEF publishing!Place, publishing!Order
    <3>3. publishing!TempName(q, publishing!Place(q)) \in publishing!TempNames
      BY <1>0, PlacesOfARun
    <3>4. publishing!Publishes(q) => publishing!TempName(q, publishing!Place(q)) # name
      BY <1>1, <2>2, NamesApart DEF name
    <3>5. publishing!Publishes(q) => publishing_temp'[publishing!TempName(q, publishing!Place(q))]
                                     = publishing_temp[publishing!TempName(q, publishing!Place(q))]
      BY <1>0, <1>3, <3>3, <3>4 DEF PublishingShape
    <3> QED
      BY <1>0, <3>1, <3>2, <3>5 DEF Finished, publishing!Publishes
  <2> QED
    BY <2>1, <2>2
<1>9. WholePages'
  BY <1>0, <1>3, <1>4 DEF WholePages, PublishingShape
<1> QED
  BY <1>5, <1>6, <1>7, <1>8, <1>9 DEF PublishingInv

LEMMA StopKeeps ==
  ASSUME PublishingInv, NEW r \in PublishRuns, publishing!Stop(r)
  PROVE  PublishingInv'
<1> DEFINE name == publishing!TempName(r, publishing!Place(r))
<1>0. PublishingShape /\ OneUpdate /\ FromComplete /\ Finished /\ WholePages
  BY DEF PublishingInv
<1>1. /\ ~publishing!Ended(r) /\ publishing_stage' = [publishing_stage EXCEPT ![r] = "end"]
      /\ UNCHANGED <<publishing_served, publishing_complete, publishing_step, publishing_copied>>
      /\ \/ UNCHANGED publishing_temp
         \/ publishing!Publishes(r) /\ publishing_temp' = [publishing_temp EXCEPT ![name] = None]
  BY DEF publishing!Stop
<1>2. name \in publishing!TempNames
  BY <1>0, PlacesOfARun
<1>3. PublishingShape'
  BY <1>0, <1>1, <1>2 DEF PublishingShape, publishing!Order
<1>4. OneUpdate'
  BY <1>0, <1>1 DEF OneUpdate, publishing!Ended, PublishingShape
<1>5. FromComplete'
  <2>1. \A q \in PublishRuns : Out(q) => Out(q)'
    BY <1>0, <1>1 DEF Out, PublishingShape
  <2>2. \A n \in publishing!TempNames : publishing_temp[n] # None => publishing_temp[n].build \in PublishRuns
    BY <1>0 DEF PublishingShape, File
  <2>3. \A q \in PublishRuns : publishing!Publishes(q)' => publishing_complete'[q]
    BY <1>0, <1>1 DEF FromComplete, publishing!Publishes, PublishingShape
  <2>4. \A p \in publishing!Places : publishing_served'[p].build \in PublishRuns => Out(publishing_served[p].build)'
    BY <1>0, <1>1, <2>1 DEF FromComplete, PublishingShape
  <2>5. \A n \in publishing!TempNames : publishing_temp'[n] # None => Out(publishing_temp'[n].build)
                                                                     /\ publishing_temp'[n].build \in PublishRuns
    BY <1>0, <1>1, <1>2, <2>2 DEF FromComplete, PublishingShape
  <2>6. \A n \in publishing!TempNames : publishing_temp'[n] # None => Out(publishing_temp[n].build)'
    BY <2>1, <2>5 DEF Out
  <2> QED
    BY <2>3, <2>4, <2>6 DEF FromComplete
<1>6. Finished'
  <2> SUFFICES ASSUME NEW q \in PublishRuns
               PROVE  /\ publishing_stage'[q] \in {"new", "built"} => publishing_copied'[q] = "no"
                      /\ publishing!Publishes(q)' /\ publishing_copied'[q] # "no"
                           /\ publishing!Renamed(q, publishing!Place(q)) =>
                           publishing_temp'[publishing!TempName(q, publishing!Place(q))] =
                             [build |-> q, whole |-> publishing_copied'[q] = "yes"]
    BY <1>1 DEF Finished, publishing!Place, publishing!Order, publishing!Renamed, publishing!TempName
  <2>1. CASE q = r
    BY <1>0, <1>1, <2>1 DEF PublishingShape, publishing!Publishes
  <2>2. CASE q # r
    <3>1. publishing_stage'[q] = publishing_stage[q]
      BY <1>0, <1>1, <2>2 DEF PublishingShape
    <3>2. publishing!TempName(q, publishing!Place(q)) \in publishing!TempNames
      BY <1>0, PlacesOfARun
    <3>3. publishing!Publishes(q) => publishing_temp'[publishing!TempName(q, publishing!Place(q))]
                                     = publishing_temp[publishing!TempName(q, publishing!Place(q))]
      BY <1>0, <1>1, <1>2, <2>2, <3>2, NamesApart DEF PublishingShape
    <3> QED
      BY <1>0, <1>1, <3>1, <3>3 DEF Finished, publishing!Publishes
  <2> QED
    BY <2>1, <2>2
<1>7. WholePages'
  BY <1>0, <1>1 DEF WholePages
<1> QED
  BY <1>3, <1>4, <1>5, <1>6, <1>7 DEF PublishingInv

\* Whatever the runs and wherever they stop, every place is served from a complete build,
\* and a page renamed into place is whole.  Assumed: PublishingAssumption.
THEOREM PublishingServesWhole == LaneSpec => []ServedWhole
<1>1. publishing!Init => PublishingInv
  <2> SUFFICES ASSUME publishing!Init PROVE PublishingInv
    OBVIOUS
  <2>1. \A r \in PublishRuns : 1 \in 1 .. Len(publishing!Order(r))
    BY DEF publishing!Order
  <2>2. PublishingShape
    BY <2>1 DEF publishing!Init, PublishingShape
  <2>3. OneUpdate /\ Finished /\ WholePages
    BY DEF publishing!Init, OneUpdate, publishing!Ended, Finished, publishing!Publishes, WholePages
  <2>4. FromComplete
    BY PublishingAssumption DEF publishing!Init, FromComplete, publishing!Publishes
  <2> QED
    BY <2>2, <2>3, <2>4 DEF PublishingInv
<1>2. PublishingInv /\ [publishing!Next]_publishingVars => PublishingInv'
  <2> SUFFICES ASSUME PublishingInv, [publishing!Next]_publishingVars PROVE PublishingInv'
    OBVIOUS
  <2>1. CASE publishing!Next
    BY <2>1, BuildKeeps, CopyKeeps, MoveKeeps, StopKeeps DEF publishing!Next
  <2>2. CASE UNCHANGED publishingVars
    BY <2>2 DEF publishingVars, PublishingInv, PublishingShape, OneUpdate, FromComplete, Finished, WholePages,
       Out, publishing!Order, publishing!Ended, publishing!Publishes, publishing!Place, publishing!Renamed,
       publishing!TempName
  <2> QED
    BY <2>1, <2>2
<1>3. PublishingInv => ServedWhole
  BY DEF PublishingInv, ServedWhole, publishing!ServedWhole, PublishingShape, FromComplete, Out, WholePages
<1>4. LaneInit => publishing!Init
  BY DEF LaneInit
<1> QED
  BY <1>1, <1>2, <1>3, <1>4, PublishingLane, PTL DEF LaneSpec

-----------------------------------------------------------------------------
(* The operator's sessions.  A token signed out is on the list or expired  *)
(* (Forgotten).  The failures of the window and the logins let in but not  *)
(* yet compared stay together below the limit and the number of threads    *)
(* (Guesses): a login counts against it from the moment it is let in.      *)

LEMMA SessionsLane == [LaneNext]_allVars => [sessions!Next]_sessionsVars
<1> SUFFICES ASSUME [LaneNext]_allVars PROVE sessions!Next \/ UNCHANGED sessionsVars
  OBVIOUS
<1>1. CASE LaneNext
  BY <1>1 DEF LaneNext, RulesStep, CalendarStep, SessionsStep, DeskStep, LearnerStep, ArchiveStep,
     PublicjsonStep, CutoverStep, PublishingStep, ScoringStep, sessions!Next
<1>2. CASE UNCHANGED allVars
  BY <1>2 DEF allVars
<1> QED
  BY <1>1, <1>2

Token == [expiry : Nat, key : Passwords, nonce : Nat]
Doing ==
  [step : {"check"}, by : Browsers, typed : Passwords] \cup [step : {"issue"}, by : Browsers]
    \cup [step : {"gate", "admitted"}, token : Token]
SessionsShape ==
  /\ sessions_clock \in Nat /\ sessions_issued \in Nat
  /\ sessions_password \in Passwords \cup {0}
  /\ sessions_failures \subseteq (Nat \X Nat) /\ IsFiniteSet(sessions_failures)
  /\ \A f \in sessions_failures : f[1] <= sessions_clock
  /\ sessions_revoked \subseteq Token /\ sessions_signedOut \subseteq Token
  /\ sessions_jar \in [Browsers -> Token \cup {None}]
  /\ sessions_req \in [SessionThreads -> Doing \cup {None}]

Forgotten == \A token \in sessions_signedOut : token \in sessions_revoked \/ token.expiry <= sessions_clock

LetIn == {t \in SessionThreads : sessions_req[t] # None /\ sessions_req[t].step = "check"}
Guesses ==
  Cardinality(sessions!Recent) + Cardinality(LetIn) < FAIL_LIMIT + Cardinality(SessionThreads)

SessionsInv == SessionsShape /\ Forgotten /\ Guesses

LEMMA SessionsCardinality == \A S : sessions!Cardinality(S) = Cardinality(S)
BY DEF sessions!Cardinality, Cardinality

LEMMA SessionsSets ==
  ASSUME SessionsShape
  PROVE  /\ IsFiniteSet(sessions!Recent) /\ Cardinality(sessions!Recent) \in Nat
         /\ IsFiniteSet(SessionThreads) /\ Cardinality(SessionThreads) \in Nat
         /\ IsFiniteSet(LetIn) /\ Cardinality(LetIn) \in Nat
         /\ Cardinality(LetIn) <= Cardinality(SessionThreads)
<1>1. sessions!Recent \subseteq sessions_failures /\ LetIn \subseteq SessionThreads
  BY DEF sessions!Recent, LetIn
<1>2. IsFiniteSet(SessionThreads) /\ IsFiniteSet(sessions_failures)
  BY SessionsAssumption DEF SessionsShape
<1> QED
  BY <1>1, <1>2, FS_Subset, FS_CardinalityType

\* Nothing but a login and its comparison touches the failures and the logins let in.
LEMMA GuessesStay ==
  ASSUME SessionsInv, SessionsShape', sessions!Recent' \subseteq sessions!Recent, LetIn' \subseteq LetIn
  PROVE  Guesses'
<1>1. /\ IsFiniteSet(sessions!Recent) /\ Cardinality(sessions!Recent) \in Nat
      /\ IsFiniteSet(LetIn) /\ Cardinality(LetIn) \in Nat /\ Cardinality(SessionThreads) \in Nat
  BY SessionsSets DEF SessionsInv
<1>2. /\ Cardinality(sessions!Recent') <= Cardinality(sessions!Recent) /\ Cardinality(sessions!Recent') \in Nat
      /\ Cardinality(LetIn') <= Cardinality(LetIn) /\ Cardinality(LetIn') \in Nat
  BY <1>1, FS_Subset, FS_CardinalityType
<1> QED
  BY <1>1, <1>2, SessionsAssumption DEF SessionsInv, Guesses

LEMMA LoginKeeps ==
  ASSUME SessionsInv, NEW t \in SessionThreads, NEW b \in Browsers, NEW p \in Passwords, sessions!Login(t, b, p)
  PROVE  SessionsInv'
<1>0. SessionsShape /\ Forgotten /\ Guesses
  BY DEF SessionsInv
<1>1. /\ sessions_failures' = sessions!Recent
      /\ sessions_req' = [sessions_req EXCEPT ![t] = [step |-> "check", by |-> b, typed |-> p]]
      /\ Cardinality(sessions!Recent) < FAIL_LIMIT
      /\ UNCHANGED <<sessions_clock, sessions_password, sessions_revoked, sessions_jar, sessions_issued,
                     sessions_signedOut>>
  BY SessionsCardinality DEF sessions!Login, sessions!Go, sessions!login_allowed
<1>2. SessionsShape'
  <2>1. [step |-> "check", by |-> b, typed |-> p] \in Doing
    BY DEF Doing
  <2>2. sessions_req' \in [SessionThreads -> Doing \cup {None}]
    BY <1>0, <1>1, <2>1 DEF SessionsShape
  <2>3. sessions!Recent \subseteq sessions_failures /\ IsFiniteSet(sessions!Recent)
    BY <1>0, SessionsSets DEF sessions!Recent
  <2> QED
    BY <1>0, <1>1, <2>2, <2>3 DEF SessionsShape
<1>3. Guesses'
  <2>1. sessions!Recent' \subseteq sessions!Recent
    BY <1>1 DEF sessions!Recent
  <2>2. /\ IsFiniteSet(sessions!Recent) /\ Cardinality(sessions!Recent) \in Nat
        /\ Cardinality(SessionThreads) \in Nat
    BY <1>0, SessionsSets
  <2>3. Cardinality(LetIn') <= Cardinality(SessionThreads) /\ Cardinality(LetIn') \in Nat
    <3>1. LetIn' \subseteq SessionThreads
      BY DEF LetIn
    <3> QED
      BY <3>1, FS_Subset, FS_CardinalityType, SessionsAssumption
  <2>4. Cardinality(sessions!Recent') <= Cardinality(sessions!Recent) /\ Cardinality(sessions!Recent') \in Nat
    BY <2>1, <2>2, FS_Subset, FS_CardinalityType
  <2> QED
    BY <1>1, <2>2, <2>3, <2>4, SessionsAssumption DEF Guesses
<1>4. Forgotten'
  BY <1>0, <1>1 DEF Forgotten
<1> QED
  BY <1>2, <1>3, <1>4 DEF SessionsInv

LEMMA CheckLoginKeeps ==
  ASSUME SessionsInv, NEW t \in SessionThreads, sessions!CheckLogin(t)
  PROVE  SessionsInv'
<1>0. SessionsShape /\ Forgotten /\ Guesses
  BY DEF SessionsInv
<1>1. /\ t \in LetIn
      /\ UNCHANGED <<sessions_clock, sessions_password, sessions_revoked, sessions_jar, sessions_issued,
                     sessions_signedOut>>
  BY DEF sessions!CheckLogin, sessions!Idle, LetIn
<1>2. sessions!ThisFailure \in Nat \X Nat /\ sessions!ThisFailure[1] = sessions_clock
  <2> DEFINE now == {f \in sessions_failures : f[1] = sessions_clock}
  <2>1. IsFiniteSet(now)
    BY <1>0, FS_Subset DEF SessionsShape
  <2>2. Cardinality(now) \in Nat
    BY <2>1, FS_CardinalityType
  <2> QED
    BY <1>0, <2>2, SessionsCardinality DEF SessionsShape, sessions!ThisFailure
<1>3. /\ sessions_failures' = {} \/ sessions_failures' = sessions_failures \cup {sessions!ThisFailure}
      /\ \E d \in Doing \cup {None} : sessions_req' = [sessions_req EXCEPT ![t] = d]
                                      /\ (d = None \/ d.step = "issue")
  <2>1. [step |-> "issue", by |-> sessions_req[t].by] \in Doing
    <3>1. sessions_req[t] \in [step : {"check"}, by : Browsers, typed : Passwords]
      BY <1>0, <1>1 DEF SessionsShape, Doing, LetIn
    <3> QED
      BY <3>1 DEF Doing
  <2> QED
    BY <2>1 DEF sessions!CheckLogin, sessions!Go
<1>4. SessionsShape'
  <2>1. sessions_req' \in [SessionThreads -> Doing \cup {None}]
    BY <1>0, <1>3 DEF SessionsShape
  <2>2. sessions_failures' \subseteq (Nat \X Nat) /\ \A f \in sessions_failures' : f[1] <= sessions_clock
    BY <1>0, <1>2, <1>3 DEF SessionsShape
  <2>3. IsFiniteSet(sessions_failures')
    <3>1. IsFiniteSet(sessions_failures)
      BY <1>0 DEF SessionsShape
    <3>2. IsFiniteSet(sessions_failures \cup {sessions!ThisFailure})
      BY <3>1, FS_AddElement
    <3>3. IsFiniteSet({})
      BY FS_EmptySet
    <3> QED
      BY <1>3, <3>2, <3>3
  <2> QED
    BY <1>0, <1>1, <2>1, <2>2, <2>3 DEF SessionsShape
<1>5. Guesses'
  <2>1. LetIn' \subseteq LetIn \ {t}
    BY <1>0, <1>3 DEF SessionsShape, LetIn
  <2>2. sessions!Recent' \subseteq sessions!Recent \cup {sessions!ThisFailure}
    BY <1>1, <1>3 DEF sessions!Recent
  <2>3. /\ IsFiniteSet(sessions!Recent) /\ Cardinality(sessions!Recent) \in Nat
        /\ IsFiniteSet(LetIn) /\ Cardinality(LetIn) \in Nat /\ Cardinality(SessionThreads) \in Nat
    BY <1>0, SessionsSets
  <2>4. Cardinality(LetIn') <= Cardinality(LetIn) - 1 /\ Cardinality(LetIn') \in Nat
    <3>1. IsFiniteSet(LetIn \ {t}) /\ Cardinality(LetIn \ {t}) = Cardinality(LetIn) - 1
      BY <1>1, <2>3, FS_RemoveElement
    <3> QED
      BY <2>1, <3>1, FS_Subset, FS_CardinalityType
  <2>5. Cardinality(sessions!Recent') <= Cardinality(sessions!Recent) + 1 /\ Cardinality(sessions!Recent') \in Nat
    <3> DEFINE new == sessions!ThisFailure
               more == sessions!Recent \cup {new}
    <3> HIDE DEF new
    <3>1. IsFiniteSet(more) /\ Cardinality(more) <= Cardinality(sessions!Recent) + 1
      <4>1. /\ IsFiniteSet(more)
            /\ Cardinality(more) = IF new \in sessions!Recent THEN Cardinality(sessions!Recent)
                                                              ELSE Cardinality(sessions!Recent) + 1
        BY <2>3, FS_AddElement
      <4> QED
        BY <4>1, <2>3
    <3> USE DEF new
    <3>2. IsFiniteSet(sessions!Recent') /\ Cardinality(sessions!Recent') <= Cardinality(more)
      BY <2>2, <3>1, FS_Subset
    <3>3. Cardinality(sessions!Recent') \in Nat /\ Cardinality(more) \in Nat
      BY <3>1, <3>2, FS_CardinalityType
    <3> QED
      BY <2>3, <3>1, <3>2, <3>3
  <2> QED
    BY <1>0, <2>3, <2>4, <2>5, SessionsAssumption DEF Guesses
<1>6. Forgotten'
  BY <1>0, <1>1 DEF Forgotten
<1> QED
  BY <1>4, <1>5, <1>6 DEF SessionsInv

\* A step of a request that is no login.
LEMMA RequestKeeps ==
  ASSUME SessionsInv, NEW t \in SessionThreads,
         sessions!Issue(t) \/ sessions!Gate(t) \/ sessions!Served(t) \/ \E b \in Browsers : sessions!Send(t, b)
  PROVE  SessionsInv'
<1>0. SessionsShape /\ Forgotten /\ Guesses
  BY DEF SessionsInv
<1>1. /\ UNCHANGED <<sessions_clock, sessions_password, sessions_failures, sessions_revoked, sessions_signedOut>>
      /\ sessions_issued' \in {sessions_issued, sessions_issued + 1}
  BY DEF sessions!Issue, sessions!Gate, sessions!Served, sessions!Send
<1>2. \E d \in Doing \cup {None} : sessions_req' = [sessions_req EXCEPT ![t] = d]
                                   /\ (d = None \/ d.step \in {"gate", "admitted"})
  <2>1. CASE sessions!Issue(t) \/ sessions!Served(t)
    BY <2>1 DEF sessions!Issue, sessions!Served, sessions!Go
  <2>2. CASE sessions!Gate(t)
    <3>1. sessions_req[t] \in [step : {"gate", "admitted"}, token : Token]
      BY <1>0, <2>2 DEF sessions!Gate, sessions!Idle, SessionsShape, Doing
    <3> DEFINE d == [step |-> "admitted", token |-> sessions_req[t].token]
    <3>2. d \in Doing /\ d.step = "admitted"
      BY <3>1 DEF Doing
    <3>3. sessions_req' = [sessions_req EXCEPT ![t] = d] \/ sessions_req' = [sessions_req EXCEPT ![t] = None]
      BY <2>2 DEF sessions!Gate, sessions!Go
    <3> HIDE DEF d
    <3> QED
      BY <3>2, <3>3
  <2>3. ASSUME NEW b \in Browsers, sessions!Send(t, b)
        PROVE  \E d \in Doing \cup {None} : sessions_req' = [sessions_req EXCEPT ![t] = d]
                                            /\ (d = None \/ d.step \in {"gate", "admitted"})
    <3> DEFINE d == [step |-> "gate", token |-> sessions_jar[b]]
    <3>1. d \in Doing /\ d.step = "gate"
      BY <1>0, <2>3 DEF sessions!Send, SessionsShape, Doing
    <3>2. sessions_req' = [sessions_req EXCEPT ![t] = d]
      BY <2>3 DEF sessions!Send, sessions!Go
    <3> HIDE DEF d
    <3> QED
      BY <3>1, <3>2
  <2> QED
    BY <2>1, <2>2, <2>3
<1>3. sessions_jar' \in [Browsers -> Token \cup {None}]
  <2>1. CASE sessions!Issue(t)
    <3>1. sessions!issue_token \in Token \cup {None}
      BY <1>0, SessionsAssumption DEF sessions!issue_token, SessionsShape, Token
    <3> QED
      BY <1>0, <2>1, <3>1 DEF sessions!Issue, SessionsShape
  <2>2. CASE ~sessions!Issue(t)
    BY <1>0, <2>2 DEF sessions!Gate, sessions!Served, sessions!Send, SessionsShape
  <2> QED
    BY <2>1, <2>2
<1>4. SessionsShape'
  BY <1>0, <1>1, <1>2, <1>3 DEF SessionsShape
<1>5. LetIn' \subseteq LetIn /\ sessions!Recent' = sessions!Recent
  BY <1>0, <1>1, <1>2 DEF LetIn, sessions!Recent, SessionsShape
<1>6. Guesses'
  BY <1>4, <1>5, GuessesStay
<1>7. Forgotten'
  BY <1>0, <1>1 DEF Forgotten
<1> QED
  BY <1>4, <1>6, <1>7 DEF SessionsInv

LEMMA LogoutKeeps ==
  ASSUME SessionsInv, NEW t \in SessionThreads, NEW b \in Browsers, sessions!Logout(t, b)
  PROVE  SessionsInv'
<1>0. SessionsShape /\ Forgotten /\ Guesses
  BY DEF SessionsInv
<1>1. /\ UNCHANGED <<sessions_clock, sessions_password, sessions_failures, sessions_req, sessions_issued>>
      /\ sessions_jar' = [sessions_jar EXCEPT ![b] = None]
  BY DEF sessions!Logout
<1>2. \/ UNCHANGED <<sessions_revoked, sessions_signedOut>>
      \/ /\ sessions_jar[b] \in Token
         /\ sessions_revoked' = sessions!Remembered(sessions_revoked \cup {sessions_jar[b]})
         /\ sessions_signedOut' = sessions_signedOut \cup {sessions_jar[b]}
  BY <1>0 DEF sessions!Logout, SessionsShape
<1>3. SessionsShape'
  BY <1>0, <1>1, <1>2 DEF SessionsShape, sessions!Remembered
<1>4. LetIn' = LetIn /\ sessions!Recent' = sessions!Recent
  BY <1>1 DEF LetIn, sessions!Recent
<1>5. Guesses'
  BY <1>3, <1>4, GuessesStay
<1>6. Forgotten'
  <2> SUFFICES ASSUME NEW token \in sessions_signedOut', ~(token.expiry <= sessions_clock)
               PROVE  token \in sessions_revoked'
    BY <1>1 DEF Forgotten
  <2>1. token.expiry > sessions_clock
    BY <1>0, <1>1, <1>3 DEF SessionsShape, Token
  <2> QED
    BY <1>0, <1>2, <2>1 DEF Forgotten, sessions!Remembered
<1> QED
  BY <1>3, <1>5, <1>6 DEF SessionsInv

LEMMA AroundKeeps ==
  ASSUME SessionsInv,
         sessions!Tick \/ sessions!Restart \/ \E p \in Passwords \cup {0} : sessions!ChangePassword(p)
  PROVE  SessionsInv'
<1>0. SessionsShape /\ Forgotten /\ Guesses
  BY DEF SessionsInv
<1>1. CASE sessions!Restart
  <2>1. SessionsShape'
    BY <1>0, <1>1, FS_EmptySet DEF sessions!Restart, SessionsShape
  <2>2. LetIn' \subseteq LetIn /\ sessions!Recent' \subseteq sessions!Recent
    BY <1>1 DEF sessions!Restart, LetIn, sessions!Recent
  <2>3. Forgotten'
    BY <1>1 DEF sessions!Restart, Forgotten
  <2> QED
    BY <2>1, <2>2, <2>3, GuessesStay DEF SessionsInv
<1>2. CASE sessions!Tick
  <2>1. SessionsShape'
    BY <1>0, <1>2 DEF sessions!Tick, SessionsShape
  <2>2. LetIn' = LetIn
    BY <1>2 DEF sessions!Tick, LetIn
  <2>3. sessions!Recent' \subseteq sessions!Recent
    BY <1>0, <1>2, SessionsAssumption DEF sessions!Tick, sessions!Recent, SessionsShape
  <2>4. Forgotten'
    BY <1>0, <1>2 DEF sessions!Tick, Forgotten, SessionsShape, Token
  <2> QED
    BY <2>1, <2>2, <2>3, <2>4, GuessesStay DEF SessionsInv
<1>3. ASSUME NEW p \in Passwords \cup {0}, sessions!ChangePassword(p)
      PROVE  SessionsInv'
  <2>1. SessionsShape'
    BY <1>0, <1>3 DEF sessions!ChangePassword, SessionsShape
  <2>2. LetIn' = LetIn /\ sessions!Recent' = sessions!Recent
    BY <1>3 DEF sessions!ChangePassword, LetIn, sessions!Recent
  <2>3. Forgotten'
    BY <1>0, <1>3 DEF sessions!ChangePassword, Forgotten
  <2> QED
    BY <2>1, <2>2, <2>3, GuessesStay DEF SessionsInv
<1> QED
  BY <1>1, <1>2, <1>3

\* However requests of any number of threads interleave, whatever the time, the password and the
\* process do: a token that was signed out is refused, and an address has never more failures inside
\* the window than the limit and the logins let in at once.  Assumed: SessionsAssumption.
THEOREM SessionsStayShut == LaneSpec => []SessionsHold
<1>1. sessions!Init => SessionsInv
  <2> SUFFICES ASSUME sessions!Init PROVE SessionsInv
    OBVIOUS
  <2>1. SessionsShape
    BY FS_EmptySet DEF sessions!Init, SessionsShape
  <2>2. Forgotten
    BY DEF sessions!Init, Forgotten
  <2>3. sessions!Recent = {} /\ LetIn = {}
    BY DEF sessions!Init, sessions!Recent, LetIn
  <2>4. Guesses
    BY <2>1, <2>3, SessionsSets, FS_EmptySet, SessionsAssumption DEF Guesses
  <2> QED
    BY <2>1, <2>2, <2>4 DEF SessionsInv
<1>2. SessionsInv /\ [sessions!Next]_sessionsVars => SessionsInv'
  <2> SUFFICES ASSUME SessionsInv, [sessions!Next]_sessionsVars PROVE SessionsInv'
    OBVIOUS
  <2>1. CASE sessions!Next
    BY <2>1, LoginKeeps, CheckLoginKeeps, RequestKeeps, LogoutKeeps, AroundKeeps DEF sessions!Next
  <2>2. CASE UNCHANGED sessionsVars
    BY <2>2 DEF sessionsVars, SessionsInv, SessionsShape, Forgotten, Guesses, LetIn, sessions!Recent
  <2> QED
    BY <2>1, <2>2
<1>3. SessionsInv => SessionsHold
  <2> SUFFICES ASSUME SessionsInv PROVE sessions!SignedOutStays /\ sessions!Throttled
    BY DEF SessionsHold
  <2>1. sessions!SignedOutStays
    BY DEF SessionsInv, SessionsShape, Forgotten, Token, sessions!SignedOutStays, sessions!verify_token
  <2>2. sessions!Throttled
    BY SessionsSets, SessionsCardinality, SessionsAssumption DEF SessionsInv, Guesses, sessions!Throttled
  <2> QED
    BY <2>1, <2>2
<1>4. LaneInit => sessions!Init
  BY DEF LaneInit
<1> QED
  BY <1>1, <1>2, <1>3, <1>4, SessionsLane, PTL DEF LaneSpec

-----------------------------------------------------------------------------
(* Learning.  A press works on the wordings it read first and those it     *)
(* added: every rule that stood when it read, and every rule it has added, *)
(* is among them (Noticed), however many presses and deletions go on       *)
(* beside it.  What a new wording finds and they do not, those rules do    *)
(* not find.  Nothing is needed of what derive proposes.                   *)

LEMMA LearnerLane == [LaneNext]_allVars => [learner!Next]_learnerVars
<1> SUFFICES ASSUME [LaneNext]_allVars PROVE learner!Next \/ UNCHANGED learnerVars
  OBVIOUS
<1>1. CASE LaneNext
  BY <1>1 DEF LaneNext, RulesStep, CalendarStep, SessionsStep, DeskStep, LearnerStep, ArchiveStep,
     PublicjsonStep, CutoverStep, PublishingStep, ScoringStep, learner!Next
<1>2. CASE UNCHANGED allVars
  BY <1>2 DEF allVars
<1> QED
  BY <1>1, <1>2

\* What thread t has in hand: nothing, or a press of known stories with an id that was the next one.
PressOf(job) ==
  /\ job = [busy |-> job.busy, titles |-> job.titles, existing |-> job.existing,
            proposals |-> job.proposals, since |-> job.since]
  /\ job.busy => /\ job.titles \subseteq LearnerStories
                 /\ job.since \in Nat /\ job.since <= learner_nextId

\* The wordings of the rules the press of thread t has seen are among those it compares with.
SeenBy(t, job) ==
  job.busy =>
    \A r \in learner_rules :
      r.id < job.since \/ (r.origin = "learned" /\ r.by = t /\ r.since = job.since)
        => r.pattern \in job.existing

LearnerShape ==
  /\ learner_stored \subseteq LearnerStories /\ learner_hidden \subseteq LearnerStories
  /\ learner_nextId \in Nat
  /\ \A r \in learner_rules :
       /\ r.id \in Nat /\ r.id < learner_nextId
       /\ r.since \in Nat /\ r.since <= r.id
  /\ learner_press = [t \in LearnerThreads |-> learner_press[t]]
  /\ \A t \in LearnerThreads : PressOf(learner_press[t])

Noticed == \A t \in LearnerThreads : SeenBy(t, learner_press[t])

LearnerInv == LearnerShape /\ Noticed /\ learner!SaysMoreThanSeen

\* What is left of a press: itself, or nothing.
LEMMA AtRest ==
  ASSUME NEW busy, NEW titles, NEW existing, NEW proposals, NEW since
  PROVE  LET job == [busy |-> busy, titles |-> titles, existing |-> existing,
                     proposals |-> proposals, since |-> since]
             left == learner!Rest(job)
         IN /\ left = [busy |-> left.busy, titles |-> left.titles, existing |-> left.existing,
                       proposals |-> left.proposals, since |-> left.since]
            /\ left.busy => left.titles = titles /\ left.existing = existing /\ left.since = since
<1> DEFINE job == [busy |-> busy, titles |-> titles, existing |-> existing,
                   proposals |-> proposals, since |-> since]
<1>1. CASE proposals = {}
  <2>1. learner!Rest(job) = [busy |-> FALSE, titles |-> {}, existing |-> {}, proposals |-> {}, since |-> 0]
    BY <1>1 DEF learner!Rest, learner!Idle
  <2> QED
    BY <2>1
<1>2. CASE proposals # {}
  <2>1. learner!Rest(job) = job
    BY <1>2 DEF learner!Rest
  <2> QED
    BY <2>1
<1> QED
  BY <1>1, <1>2

\* A thread that takes up a press.
LEMMA LearnKeeps ==
  ASSUME LearnerInv, NEW t \in LearnerThreads, learner!Learn(t)
  PROVE  LearnerInv'
<1>0. LearnerShape /\ Noticed /\ learner!SaysMoreThanSeen
  BY DEF LearnerInv
<1>1. UNCHANGED <<learner_stored, learner_hidden, learner_rules, learner_nextId>>
  BY DEF learner!Learn
<1>2. PICK ps : learner_press' = [learner_press EXCEPT ![t] =
        learner!Rest([busy |-> TRUE, titles |-> learner_hidden, existing |-> learner!Wordings,
                      proposals |-> ps, since |-> learner_nextId])]
  BY DEF learner!Learn
<1>3. PICK job : /\ learner_press' = [learner_press EXCEPT ![t] = job]
                 /\ job = [busy |-> job.busy, titles |-> job.titles, existing |-> job.existing,
                           proposals |-> job.proposals, since |-> job.since]
                 /\ job.busy => /\ job.titles = learner_hidden /\ job.existing = learner!Wordings
                                /\ job.since = learner_nextId
  <2> DEFINE left == learner!Rest([busy |-> TRUE, titles |-> learner_hidden, existing |-> learner!Wordings,
                                   proposals |-> ps, since |-> learner_nextId])
  <2>1. /\ left = [busy |-> left.busy, titles |-> left.titles, existing |-> left.existing,
                   proposals |-> left.proposals, since |-> left.since]
        /\ left.busy => /\ left.titles = learner_hidden /\ left.existing = learner!Wordings
                        /\ left.since = learner_nextId
    BY AtRest
  <2>2. learner_press' = [learner_press EXCEPT ![t] = left]
    BY <1>2
  <2> HIDE DEF left
  <2> WITNESS left
  <2> QED
    BY <2>1, <2>2
<1>4. \A u \in LearnerThreads : learner_press'[u] = IF u = t THEN job ELSE learner_press[u]
  BY <1>0, <1>3 DEF LearnerShape
<1>5. PressOf(job)' /\ SeenBy(t, job)'
  BY <1>0, <1>1, <1>3 DEF LearnerShape, PressOf, SeenBy, learner!Wordings
<1>6. LearnerShape'
  <2>1. learner_press' = [u \in LearnerThreads |-> learner_press'[u]]
    BY <1>0, <1>3 DEF LearnerShape
  <2> QED
    BY <1>0, <1>1, <1>4, <1>5, <2>1 DEF LearnerShape, PressOf
<1>7. Noticed'
  BY <1>0, <1>1, <1>4, <1>5 DEF Noticed, SeenBy
<1>8. learner!SaysMoreThanSeen'
  BY <1>0, <1>1 DEF learner!SaysMoreThanSeen, learner!SeenBefore
<1> QED
  BY <1>6, <1>7, <1>8 DEF LearnerInv

LEMMA ProposeKeeps ==
  ASSUME LearnerInv, NEW t \in LearnerThreads, NEW c, learner!Propose(t, c)
  PROVE  LearnerInv'
<1> DEFINE job  == learner_press[t]
           rule == [id |-> learner_nextId, pattern |-> c.pattern, origin |-> "learned",
                    by |-> t, since |-> job.since]
<1>0. LearnerShape /\ Noticed /\ learner!SaysMoreThanSeen
  BY DEF LearnerInv
<1>1. job.busy /\ UNCHANGED <<learner_stored, learner_hidden>>
  BY DEF learner!Propose
<1>2. PICK next : /\ learner_press' = [learner_press EXCEPT ![t] = next]
                  /\ next = [busy |-> next.busy, titles |-> next.titles, existing |-> next.existing,
                             proposals |-> next.proposals, since |-> next.since]
                  /\ next.busy => /\ next.titles = job.titles /\ next.since = job.since
                                  /\ job.existing \subseteq next.existing
                  /\ \/ UNCHANGED <<learner_rules, learner_nextId>>
                     \/ /\ learner!SaysSomethingNew(c, job)
                        /\ learner_rules' = learner_rules \cup {rule} /\ learner_nextId' = learner_nextId + 1
                        /\ next.busy => c.pattern \in next.existing
  <2>0. job = [busy |-> job.busy, titles |-> job.titles, existing |-> job.existing,
               proposals |-> job.proposals, since |-> job.since]
    BY <1>0 DEF LearnerShape, PressOf
  <2> DEFINE left(known) ==
               learner!Rest([busy |-> job.busy, titles |-> job.titles, existing |-> known,
                             proposals |-> job.proposals \ {c}, since |-> job.since])
  <2>1. \A known : /\ left(known) = [busy |-> left(known).busy, titles |-> left(known).titles,
                                     existing |-> left(known).existing,
                                     proposals |-> left(known).proposals, since |-> left(known).since]
                   /\ left(known).busy => /\ left(known).titles = job.titles
                                          /\ left(known).existing = known /\ left(known).since = job.since
    BY AtRest
  <2>2. CASE learner!SaysSomethingNew(c, job)
    <3>1. learner_press' = [learner_press EXCEPT ![t] =
            learner!Rest([[job EXCEPT !.proposals = @ \ {c}] EXCEPT !.existing = job.existing \cup {c.pattern}])]
      BY <2>2 DEF learner!Propose, learner!Known
    <3>2. [[job EXCEPT !.proposals = @ \ {c}] EXCEPT !.existing = job.existing \cup {c.pattern}]
            = [busy |-> job.busy, titles |-> job.titles, existing |-> job.existing \cup {c.pattern},
               proposals |-> job.proposals \ {c}, since |-> job.since]
      <4> DEFINE whole == [busy |-> job.busy, titles |-> job.titles, existing |-> job.existing,
                           proposals |-> job.proposals, since |-> job.since]
                 known == job.existing \cup {c.pattern}
                 others == job.proposals \ {c}
      <4>1. [[whole EXCEPT !.proposals = others] EXCEPT !.existing = known]
              = [busy |-> job.busy, titles |-> job.titles, existing |-> known,
                 proposals |-> others, since |-> job.since]
        <5> DEFINE fewer == [busy |-> job.busy, titles |-> job.titles, existing |-> job.existing,
                             proposals |-> others, since |-> job.since]
        <5> HIDE DEF job, known, others
        <5>1. [whole EXCEPT !.proposals = others] = fewer
          OBVIOUS
        <5>2. [fewer EXCEPT !.existing = known]
                = [busy |-> job.busy, titles |-> job.titles, existing |-> known,
                   proposals |-> others, since |-> job.since]
          OBVIOUS
        <5> HIDE DEF whole, fewer
        <5> QED
          BY <5>1, <5>2
      <4>2. job = whole
        BY <2>0
      <4> HIDE DEF job, whole
      <4> QED
        BY <4>1, <4>2
    <3>3. learner_press' = [learner_press EXCEPT ![t] = left(job.existing \cup {c.pattern})]
      BY <3>1, <3>2
    <3>4. \/ UNCHANGED <<learner_rules, learner_nextId>>
          \/ learner_rules' = learner_rules \cup {rule} /\ learner_nextId' = learner_nextId + 1
      BY <2>2 DEF learner!Propose, learner!Inserted
    <3> HIDE DEF left, job, rule
    <3> WITNESS left(job.existing \cup {c.pattern})
    <3> QED
      BY <2>1, <2>2, <3>3, <3>4
  <2>3. CASE ~learner!SaysSomethingNew(c, job)
    <3>1. /\ learner_press' = [learner_press EXCEPT ![t] = learner!Rest([job EXCEPT !.proposals = @ \ {c}])]
          /\ UNCHANGED <<learner_rules, learner_nextId>>
      BY <2>3 DEF learner!Propose
    <3>2. [job EXCEPT !.proposals = @ \ {c}]
            = [busy |-> job.busy, titles |-> job.titles, existing |-> job.existing,
               proposals |-> job.proposals \ {c}, since |-> job.since]
      BY <2>0
    <3>3. learner_press' = [learner_press EXCEPT ![t] = left(job.existing)]
      BY <3>1, <3>2
    <3> HIDE DEF left, job, rule
    <3> WITNESS left(job.existing)
    <3> QED
      BY <2>1, <3>1, <3>3
  <2> QED
    BY <2>2, <2>3
<1>3. /\ rule.id = learner_nextId /\ rule.pattern = c.pattern /\ rule.origin = "learned"
      /\ rule.by = t /\ rule.since = job.since
  OBVIOUS
<1> HIDE DEF rule
<1>4. /\ job.titles \subseteq LearnerStories /\ job.since \in Nat /\ job.since <= learner_nextId
      /\ learner_nextId \in Nat /\ learner_nextId' \in Nat /\ learner_nextId <= learner_nextId'
  BY <1>0, <1>1, <1>2 DEF LearnerShape, PressOf
<1>5. \A u \in LearnerThreads : learner_press'[u] = IF u = t THEN next ELSE learner_press[u]
  BY <1>0, <1>2 DEF LearnerShape
<1>6. \A q \in learner_rules' : q \in learner_rules \/ (q = rule /\ learner_nextId' = learner_nextId + 1)
  BY <1>2
<1>7. LearnerShape'
  <2>1. \A r \in learner_rules' : /\ r.id \in Nat /\ r.id < learner_nextId'
                                  /\ r.since \in Nat /\ r.since <= r.id
    BY <1>0, <1>3, <1>4, <1>6 DEF LearnerShape
  <2>2. PressOf(next)'
    BY <1>2, <1>4 DEF PressOf
  <2>3. \A u \in LearnerThreads : PressOf(learner_press[u])'
    <3> SUFFICES ASSUME NEW u \in LearnerThreads PROVE PressOf(learner_press[u])'
      OBVIOUS
    <3>1. CASE u = t
      BY <1>5, <2>2, <3>1 DEF PressOf
    <3>2. CASE u # t
      BY <1>0, <1>4, <1>5, <3>2 DEF LearnerShape, PressOf
    <3> QED
      BY <3>1, <3>2
  <2>4. learner_press' = [u \in LearnerThreads |-> learner_press'[u]]
    BY <1>0, <1>2 DEF LearnerShape
  <2> QED
    BY <1>0, <1>1, <1>4, <2>1, <2>3, <2>4 DEF LearnerShape
<1>8. Noticed'
  <2> SUFFICES ASSUME NEW u \in LearnerThreads, learner_press'[u].busy, NEW r \in learner_rules',
                      \/ r.id < learner_press'[u].since
                      \/ r.origin = "learned" /\ r.by = u /\ r.since = learner_press'[u].since
               PROVE  r.pattern \in learner_press'[u].existing
    BY DEF Noticed, SeenBy
  <2>1. CASE u = t /\ r \in learner_rules
    <3>1. r.pattern \in job.existing
      BY <1>0, <1>1, <1>2, <1>5, <2>1 DEF Noticed, SeenBy
    <3> QED
      BY <1>2, <1>5, <2>1, <3>1
  <2>2. CASE u = t /\ r \notin learner_rules
    <3>1. r = rule /\ learner_rules' # learner_rules
      BY <1>6, <2>2
    <3> QED
      BY <1>2, <1>3, <1>5, <2>2, <3>1
  <2>3. CASE u # t
    <3>1. learner_press'[u] = learner_press[u] /\ PressOf(learner_press[u])
      BY <1>0, <1>5, <2>3 DEF LearnerShape
    <3>2. r # rule
      BY <1>3, <1>4, <2>3, <3>1 DEF PressOf
    <3> QED
      BY <1>0, <1>6, <3>1, <3>2 DEF Noticed, SeenBy
  <2> QED
    BY <2>1, <2>2, <2>3
<1>9. learner!SaysMoreThanSeen'
  <2>1. CASE UNCHANGED <<learner_rules, learner_nextId>>
    BY <1>0, <2>1 DEF learner!SaysMoreThanSeen, learner!SeenBefore
  <2>2. CASE learner!SaysSomethingNew(c, job) /\ learner_rules' = learner_rules \cup {rule}
    <3> SUFFICES ASSUME NEW r \in learner_rules', r.origin = "learned"
                 PROVE  \E s \in LearnerStories :
                          /\ learner!Found(r.pattern, s)
                          /\ \A q \in learner_rules' : learner!SeenBefore(q, r) => ~learner!Found(q.pattern, s)
      BY DEF learner!SaysMoreThanSeen, learner!SeenBefore, learner!Found, learner!Places, learner!Breaks
    <3>1. CASE r \in learner_rules
      <4>1. ~learner!SeenBefore(rule, r)
        BY <1>0, <1>3, <1>4, <3>1 DEF LearnerShape, learner!SeenBefore
      <4>2. \A q \in learner_rules' : learner!SeenBefore(q, r) => q \in learner_rules
        BY <2>2, <4>1
      <4> QED
        BY <1>0, <3>1, <4>2 DEF learner!SaysMoreThanSeen
    <3>2. CASE r = rule
      <4>1. PICK s \in job.titles : learner!Found(c.pattern, s) /\ \A p \in job.existing : ~learner!Found(p, s)
        BY <2>2 DEF learner!SaysSomethingNew
      <4>2. ~learner!SeenBefore(rule, rule)
        BY <1>3, <1>4 DEF learner!SeenBefore
      <4>3. \A q \in learner_rules' : learner!SeenBefore(q, r) => q \in learner_rules
        BY <2>2, <3>2, <4>2
      <4>4. \A q \in learner_rules : learner!SeenBefore(q, rule) => q.pattern \in job.existing
        BY <1>0, <1>1, <1>3 DEF Noticed, SeenBy, learner!SeenBefore
      <4>5. s \in LearnerStories
        BY <1>4
      <4> QED
        BY <1>3, <3>2, <4>1, <4>3, <4>4, <4>5
    <3> QED
      BY <2>2, <3>1, <3>2
  <2> QED
    BY <1>2, <2>1, <2>2
<1> QED
  BY <1>7, <1>8, <1>9 DEF LearnerInv

\* A step of the operator or the collector.
LEMMA TablesKeep ==
  ASSUME LearnerInv,
         \/ \E s \in LearnerStories : learner!Store(s) \/ learner!Hide(s) \/ learner!Unhide(s)
         \/ \E p \in ByHand : learner!AddByHand(p)
         \/ \E r \in learner_rules : learner!Delete(r)
  PROVE  LearnerInv'
<1>0. LearnerShape /\ Noticed /\ learner!SaysMoreThanSeen
  BY DEF LearnerInv
<1>1. CASE \E s \in LearnerStories : learner!Store(s) \/ learner!Hide(s) \/ learner!Unhide(s)
  <2>1. /\ learner_stored' \subseteq LearnerStories /\ learner_hidden' \subseteq LearnerStories
        /\ UNCHANGED <<learner_rules, learner_nextId, learner_press>>
    BY <1>0, <1>1 DEF LearnerShape, learner!Store, learner!Hide, learner!Unhide
  <2> QED
    BY <1>0, <2>1 DEF LearnerInv, LearnerShape, PressOf, Noticed, SeenBy,
       learner!SaysMoreThanSeen, learner!SeenBefore
<1>2. ASSUME NEW p \in ByHand, learner!AddByHand(p)
      PROVE  LearnerInv'
  <2> DEFINE rule == [id |-> learner_nextId, pattern |-> p, origin |-> "operator", by |-> "hand", since |-> 0]
  <2>1. /\ learner_rules' = learner_rules \cup {rule} /\ learner_nextId' = learner_nextId + 1
        /\ UNCHANGED <<learner_stored, learner_hidden, learner_press>>
    BY <1>2 DEF learner!AddByHand, learner!Inserted
  <2>2. rule.id = learner_nextId /\ rule.origin = "operator" /\ rule.since = 0
    OBVIOUS
  <2> HIDE DEF rule
  <2>3. LearnerShape'
    BY <1>0, <2>1, <2>2 DEF LearnerShape, PressOf
  <2>4. Noticed'
    BY <1>0, <2>1, <2>2 DEF LearnerShape, PressOf, Noticed, SeenBy
  <2>5. \A r \in learner_rules' : r.origin = "learned" => r \in learner_rules /\ ~learner!SeenBefore(rule, r)
    BY <1>0, <2>1, <2>2 DEF LearnerShape, learner!SeenBefore
  <2>6. \A r, q \in learner_rules' : r.origin = "learned" /\ learner!SeenBefore(q, r) => q \in learner_rules
    BY <2>1, <2>5
  <2>7. learner!SaysMoreThanSeen'
    <3> SUFFICES ASSUME NEW r \in learner_rules', r.origin = "learned"
                 PROVE  \E s \in LearnerStories :
                          /\ learner!Found(r.pattern, s)
                          /\ \A q \in learner_rules' : learner!SeenBefore(q, r) => ~learner!Found(q.pattern, s)
      BY DEF learner!SaysMoreThanSeen, learner!SeenBefore, learner!Found, learner!Places, learner!Breaks
    <3> QED
      BY <1>0, <2>5, <2>6 DEF learner!SaysMoreThanSeen
  <2> QED
    BY <2>3, <2>4, <2>7 DEF LearnerInv
<1>3. ASSUME NEW r \in learner_rules, learner!Delete(r)
      PROVE  LearnerInv'
  <2>1. learner_rules' \subseteq learner_rules
        /\ UNCHANGED <<learner_stored, learner_hidden, learner_nextId, learner_press>>
    BY <1>3 DEF learner!Delete
  <2>2. LearnerShape'
    BY <1>0, <2>1 DEF LearnerShape, PressOf
  <2>3. Noticed'
    BY <1>0, <2>1 DEF Noticed, SeenBy
  <2>4. learner!SaysMoreThanSeen'
    BY <1>0, <2>1 DEF learner!SaysMoreThanSeen, learner!SeenBefore
  <2> QED
    BY <2>2, <2>3, <2>4 DEF LearnerInv
<1> QED
  BY <1>1, <1>2, <1>3

\* However many presses of "learn" cross each other and whatever the operator hides, restores, adds or
\* deletes meanwhile, a learned rule finds a story that no rule its press has seen finds.
THEOREM LearningAddsSomething == LaneSpec => []SaysMoreThanSeen
<1>1. learner!Init => LearnerInv
  BY DEF learner!Init, learner!Idle, LearnerInv, LearnerShape, PressOf, Noticed, SeenBy, learner!SaysMoreThanSeen
<1>2. LearnerInv /\ [learner!Next]_learnerVars => LearnerInv'
  <2> SUFFICES ASSUME LearnerInv, [learner!Next]_learnerVars PROVE LearnerInv'
    OBVIOUS
  <2>1. CASE learner!Next
    BY <2>1, LearnKeeps, ProposeKeeps, TablesKeep DEF learner!Next
  <2>2. CASE UNCHANGED learnerVars
    BY <2>2 DEF learnerVars, LearnerInv, LearnerShape, PressOf, Noticed, SeenBy, learner!SaysMoreThanSeen,
       learner!SeenBefore
  <2> QED
    BY <2>1, <2>2
<1>3. LearnerInv => SaysMoreThanSeen
  BY DEF LearnerInv, SaysMoreThanSeen
<1>4. LaneInit => learner!Init
  BY DEF LaneInit
<1> QED
  BY <1>1, <1>2, <1>3, <1>4, LearnerLane, PTL DEF LaneSpec

-----------------------------------------------------------------------------
(* The calendar.  Every entry that is due is on a page asked for, at a     *)
(* date inside the three days (RowOfAPage); folding rows leaves of each    *)
(* row itself or one of the same moment and country whose name begins its  *)
(* own, for among the rows that fold into each other one is minimal        *)
(* (OneStays); naming and storing keep what they are about (CalendarInv).  *)

LEMMA CalendarLane == [LaneNext]_allVars => [calendar!Next]_calendarVars
<1> SUFFICES ASSUME [LaneNext]_allVars PROVE calendar!Next \/ UNCHANGED calendarVars
  OBVIOUS
<1>1. CASE LaneNext
  BY <1>1 DEF LaneNext, RulesStep, CalendarStep, SessionsStep, DeskStep, LearnerStep, ArchiveStep,
     PublicjsonStep, CutoverStep, PublishingStep, ScoringStep, calendar!Next
<1>2. CASE UNCHANGED allVars
  BY <1>2 DEF allVars
<1> QED
  BY <1>1, <1>2

IsEvent(ev) ==
  /\ ev = [id |-> ev.id, name |-> ev.name, country |-> ev.country, date |-> ev.date, slot |-> ev.slot,
           kind |-> ev.kind, stars |-> ev.stars, vote |-> ev.vote, released |-> ev.released,
           passed |-> ev.passed, ko |-> ev.ko]
  /\ ev.id \in Nat /\ ev.name \in Seq(STRING) /\ ev.date \in Nat /\ ev.slot \in Nat
  /\ ev.kind = "econ" => ev.date = calendar!Day(ev.slot)

\* Two rows that differ in nothing a reader looks an entry up by.
Alike(ev, other) ==
  /\ ev.id = other.id /\ ev.name = other.name /\ ev.country = other.country
  /\ ev.date = other.date /\ ev.slot = other.slot /\ ev.kind = other.kind

Within(ev, d) == d <= ev.date + 1 /\ ev.date <= d + 1
RowOf(ev, e) ==
  /\ ev.id = e.id
  /\ ev.kind = "econ" => /\ e.feed = "econ" /\ ev.name = e.name /\ ev.country = e.country
                         /\ ev.slot = calendar!Kst(e.half)

LEMMA HalfDays == \A h \in Nat : calendar!Day(h) \in Nat /\ calendar!Kst(h) \in Nat
BY DEF calendar!Day, calendar!Kst

LEMMA RowsOfPages ==
  ASSUME NEW d \in Nat, NEW p \in calendar!Pages(d), NEW ev \in calendar!OfPage(p)
  PROVE  IsEvent(ev)
<1>1. p[1] \in {"econ", "earnings", "potus"}
  BY DEF calendar!Pages, calendar!EconPages
<1>2. CASE p[1] = "econ"
  <2>1. PICK e \in CalendarEntries : ev = calendar!release(e)
    BY <1>2 DEF calendar!OfPage, calendar!fetch_day
  <2> DEFINE h == calendar!Kst(e.half)
  <2>2. e.id \in Nat /\ e.name \in Seq(STRING) /\ h \in Nat /\ calendar!Day(h) \in Nat
    BY CalendarAssumption, HalfDays
  <2> HIDE DEF h
  <2>3. /\ ev = [id |-> ev.id, name |-> ev.name, country |-> ev.country, date |-> ev.date, slot |-> ev.slot,
                kind |-> ev.kind, stars |-> ev.stars, vote |-> ev.vote, released |-> ev.released,
                passed |-> ev.passed, ko |-> ev.ko]
        /\ ev.id = e.id /\ ev.name = e.name /\ ev.date = calendar!Day(h) /\ ev.slot = h
    BY <2>1 DEF calendar!release, calendar!event, h
  <2> QED
    BY <2>2, <2>3 DEF IsEvent
<1>3. CASE p[1] = "earnings"
  <2>1. PICK e \in CalendarEntries : ev = calendar!earnings_rows(e)
    BY <1>3 DEF calendar!OfPage, calendar!fetch_earnings
  <2> DEFINE d1 == calendar!Day(e.half)
  <2>2. e.id \in Nat /\ e.name \in Seq(STRING) /\ d1 \in Nat
    BY CalendarAssumption, HalfDays
  <2> HIDE DEF d1
  <2>3. /\ ev = [id |-> ev.id, name |-> ev.name, country |-> ev.country, date |-> ev.date, slot |-> ev.slot,
                kind |-> ev.kind, stars |-> ev.stars, vote |-> ev.vote, released |-> ev.released,
                passed |-> ev.passed, ko |-> ev.ko]
        /\ ev.id = e.id /\ ev.name = e.name /\ ev.kind = "earnings" /\ ev.date \in {d1 + 0, d1 + 1}
        /\ ev.slot \in {2 * ev.date + 0, 2 * ev.date + 1}
    BY <2>1 DEF calendar!earnings_rows, calendar!event, d1
  <2>4. ev.date \in Nat /\ ev.slot \in Nat
    BY <2>2, <2>3
  <2> QED
    BY <2>2, <2>3, <2>4 DEF IsEvent
<1>4. CASE p[1] = "potus"
  <2>1. PICK e \in CalendarEntries : ev = calendar!rows_for(e)
    BY <1>4 DEF calendar!OfPage
  <2> DEFINE h == IF "timed" \in e.words THEN calendar!Kst(e.half) ELSE 2 * calendar!Day(e.half)
  <2>2. e.id \in Nat /\ e.name \in Seq(STRING) /\ h \in Nat
    <3>1. e.id \in Nat /\ e.name \in Seq(STRING) /\ e.half \in Nat
      BY CalendarAssumption
    <3>2. calendar!Kst(e.half) \in Nat /\ calendar!Day(e.half) \in Nat
      BY <3>1, HalfDays
    <3> QED
      BY <3>1, <3>2
  <2>3. calendar!Day(h) \in Nat
    BY <2>2, HalfDays
  <2> HIDE DEF h
  <2>4. /\ ev = [id |-> ev.id, name |-> ev.name, country |-> ev.country, date |-> ev.date, slot |-> ev.slot,
                kind |-> ev.kind, stars |-> ev.stars, vote |-> ev.vote, released |-> ev.released,
                passed |-> ev.passed, ko |-> ev.ko]
        /\ ev.id = e.id /\ ev.name = e.name /\ ev.kind = "potus" /\ ev.date = calendar!Day(h) /\ ev.slot = h
    BY <2>1 DEF calendar!rows_for, calendar!event, h
  <2> QED
    BY <2>2, <2>3, <2>4 DEF IsEvent
<1> QED
  BY <1>1, <1>2, <1>3, <1>4

\* The pages asked for hold every entry that is due: the shift of the days and the two clocks agree.
LEMMA RowOfAPage ==
  ASSUME NEW d \in Nat, NEW e \in CalendarEntries, calendar!Due(e, d)
  PROVE  \E p \in calendar!Pages(d) : \E ev \in calendar!OfPage(p) : RowOf(ev, e) /\ Within(ev, d)
<1>0. e.half \in Nat /\ e.feed \in {"econ", "earnings", "potus"}
  BY CalendarAssumption
<1>1. CASE e.feed = "econ"
  <2> DEFINE day == calendar!Day(e.half) + 1
             p   == <<"econ", day>>
             ev  == calendar!release(e)
  <2>1. /\ "timed" \in e.words /\ calendar!classify(e)[1] > 0
        /\ calendar!Day(calendar!Kst(e.half)) \in {d - 1, d, d + 1}
    BY <1>1 DEF calendar!Due
  <2>2. day \in d - 2 .. d + 2
    BY <1>0, <2>1 DEF calendar!Day, calendar!Kst
  <2>3. p \in calendar!Pages(d)
    <3>1. day - d + 2 \in 0 .. 4 /\ day = d + (day - d + 2) - 2
      BY <2>2
    <3> QED
      BY <3>1 DEF calendar!Pages, calendar!EconPages
  <2>4. ev \in calendar!OfPage(p)
    BY <1>1, <2>1 DEF calendar!OfPage, calendar!fetch_day
  <2>5. RowOf(ev, e) /\ Within(ev, d)
    BY <1>0, <1>1, <2>1 DEF calendar!release, calendar!event, RowOf, Within
  <2> QED
    BY <2>3, <2>4, <2>5
<1>2. CASE e.feed = "earnings"
  <2> DEFINE day == calendar!Day(e.half)
             p   == <<"earnings", day>>
             ev  == calendar!earnings_rows(e)
  <2>1. calendar!Has(e, {"mega", "giant"}) /\ ev.date \in {d, d + 1}
    BY <1>2 DEF calendar!Due
  <2>2. ev.date \in {day, day + 1} /\ day \in Nat /\ ev.kind = "earnings" /\ ev.id = e.id
    BY <1>0 DEF calendar!earnings_rows, calendar!event, calendar!Day
  <2>3. p \in calendar!Pages(d)
    <3>1. day - d + 1 \in 0 .. 2 /\ day = d + (day - d + 1) - 1
      BY <2>1, <2>2
    <3> QED
      BY <3>1 DEF calendar!Pages
  <2>4. ev \in calendar!OfPage(p)
    BY <1>2, <2>1 DEF calendar!OfPage, calendar!fetch_earnings
  <2>5. RowOf(ev, e) /\ Within(ev, d)
    BY <2>1, <2>2 DEF RowOf, Within
  <2> QED
    BY <2>3, <2>4, <2>5
<1>3. CASE e.feed = "potus"
  <2> DEFINE ev == calendar!rows_for(e)
  <2>1. calendar!wanted(e) /\ ev.date \in {d - 1, d, d + 1}
    BY <1>3 DEF calendar!Due
  <2>2. ev.kind = "potus" /\ ev.id = e.id
    BY DEF calendar!rows_for, calendar!event
  <2>3. <<"potus", 0>> \in calendar!Pages(d) /\ ev \in calendar!OfPage(<<"potus", 0>>)
    BY <1>3, <2>1 DEF calendar!Pages, calendar!OfPage
  <2>4. RowOf(ev, e) /\ Within(ev, d)
    BY <2>1, <2>2 DEF RowOf, Within
  <2> QED
    BY <2>3, <2>4
<1> QED
  BY <1>0, <1>1, <1>2, <1>3

LEMMA FillingKeeps ==
  ASSUME NEW ev, IsEvent(ev), NEW fed
  PROVE  IsEvent(calendar!Filled(ev, fed)) /\ Alike(calendar!Filled(ev, fed), ev)
BY DEF IsEvent, Alike, calendar!Filled

\* Of the numbers something has, one is the least.
LEMMA Least ==
  ASSUME NEW S, S # {}, S \subseteq Nat
  PROVE  \E n \in S : \A m \in S : n <= m
<1> DEFINE Before == {ss \in Nat \X Nat : ss[1] < ss[2]}
<1>1. IsWellFoundedOn(Before, Nat)
  BY NatLessThanWellFounded DEF OpToRel
<1>2. PICK n \in S : \A m \in S : <<m, n>> \notin Before
  <2> HIDE DEF Before
  <2> QED
    BY <1>1, WFMin
<1>3. \A m \in S : n <= m
  <2> SUFFICES ASSUME NEW m \in S PROVE n <= m
    OBVIOUS
  <2>1. m \in Nat /\ n \in Nat /\ ~(<<m, n>> \in Before)
    BY <1>2
  <2>2. ~(m < n)
    BY <2>1
  <2> QED
    BY <2>1, <2>2
<1> QED
  BY <1>3

LEMMA PrefixMeans ==
  ASSUME NEW s \in Seq(STRING), NEW t \in Seq(STRING)
  PROVE  /\ Len(s) \in Nat /\ Len(t) \in Nat
         /\ calendar!IsPrefix(s, t) <=> Len(s) <= Len(t) /\ \A i \in 1 .. Len(s) : s[i] = t[i]
         /\ calendar!IsPrefix(s, t) /\ Len(s) = Len(t) => s = t
<1>1. Len(s) \in Nat /\ Len(t) \in Nat
  BY LenProperties
<1>2. SubSeq(s, 1, Len(s)) = s
  BY SubSeqFull
<1>3. ASSUME Len(s) <= Len(t)
      PROVE  SubSeq(t, 1, Len(s)) \in Seq(STRING) /\ Len(SubSeq(t, 1, Len(s))) = Len(s)
             /\ \A i \in 1 .. Len(s) : SubSeq(t, 1, Len(s))[i] = t[i]
  <2>1. \A i \in 1 .. Len(s) : t[i] \in STRING
    BY <1>1, <1>3, ElementOfSeq
  <2> HIDE <1>2
  <2>2. /\ SubSeq(t, 1, Len(s)) \in Seq(STRING)
        /\ Len(SubSeq(t, 1, Len(s))) = IF 1 <= Len(s) THEN Len(s) - 1 + 1 ELSE 0
        /\ \A i \in 1 .. Len(s) - 1 + 1 : SubSeq(t, 1, Len(s))[i] = t[1 + i - 1]
    BY <1>1, <2>1, SubSeqProperties
  <2> QED
    BY <1>1, <2>2
<1>4. calendar!IsPrefix(s, t) <=> Len(s) <= Len(t) /\ s = SubSeq(t, 1, Len(s))
  BY <1>2 DEF calendar!IsPrefix
<1>5. Len(s) <= Len(t) => (s = SubSeq(t, 1, Len(s)) <=> \A i \in 1 .. Len(s) : s[i] = t[i])
  BY <1>3, SeqEqual
<1>6. calendar!IsPrefix(s, t) /\ Len(s) = Len(t) => s = t
  BY <1>4, <1>5, SeqEqual
<1> QED
  BY <1>1, <1>4, <1>5, <1>6

\* Folding leaves a row, or one that stands for it.
LEMMA OneStays ==
  ASSUME NEW S, \A x \in S : IsEvent(x), NEW ev \in S
  PROVE  \E k \in calendar!kept(S) : k = ev \/ (calendar!SameSlot(k, ev) /\ calendar!IsPrefix(k.name, ev.name))
<1> DEFINE T    == {x \in S : x = ev \/ (calendar!SameSlot(x, ev) /\ calendar!IsPrefix(x.name, ev.name))}
           lens == {Len(x.name) : x \in T}
<1>1. \A x \in S : x.name \in Seq(STRING) /\ Len(x.name) \in Nat /\ x.id \in Nat
  BY LenProperties DEF IsEvent
<1>2. ev \in T /\ lens # {} /\ lens \subseteq Nat
  BY <1>1
<1>3. PICK n \in lens : \A m \in lens : n <= m
  BY <1>2, Least
<1> DEFINE few == {x \in T : Len(x.name) = n}
           ids == {x.id : x \in few}
<1>4. ids # {} /\ ids \subseteq Nat
  BY <1>1, <1>3
<1>5. PICK i \in ids : \A j \in ids : i <= j
  BY <1>4, Least
<1>6. PICK k \in few : k.id = i
  BY <1>5
<1>7. k \in S /\ Len(k.name) = n /\ (k = ev \/ (calendar!SameSlot(k, ev) /\ calendar!IsPrefix(k.name, ev.name)))
  BY <1>6
<1>8. \A other \in S : ~calendar!Repeats(k, other)
  <2> SUFFICES ASSUME NEW other \in S, calendar!Repeats(k, other) PROVE FALSE
    OBVIOUS
  <2>1. calendar!SameSlot(k, other)
        /\ (calendar!IsStrictPrefix(other.name, k.name) \/ (other.name = k.name /\ other.id < k.id))
    BY DEF calendar!Repeats
  <2>2. calendar!SameSlot(other, ev)
    BY <1>7, <2>1 DEF calendar!SameSlot
  <2>3. calendar!IsPrefix(other.name, k.name)
    BY <1>1, <1>7, <2>1, PrefixMeans DEF calendar!IsStrictPrefix
  <2>4. calendar!IsPrefix(k.name, ev.name)
    BY <1>1, <1>7, PrefixMeans
  <2>5. calendar!IsPrefix(other.name, ev.name)
    <3>1. other.name \in Seq(STRING) /\ k.name \in Seq(STRING) /\ ev.name \in Seq(STRING)
      BY <1>1, <1>7
    <3> QED
      BY <2>3, <2>4, <3>1, PrefixMeans
  <2>6. other \in T
    BY <2>2, <2>5
  <2>7. n <= Len(other.name)
    BY <1>3, <2>6
  <2>8. Len(other.name) <= Len(k.name) /\ Len(other.name) \in Nat /\ Len(k.name) \in Nat
    BY <1>1, <1>7, <2>3, PrefixMeans
  <2>9. Len(other.name) = Len(k.name)
    BY <1>7, <2>7, <2>8
  <2>10. other.name = k.name
    BY <1>1, <1>7, <2>3, <2>9, PrefixMeans
  <2>11. other.id < k.id
    BY <2>1, <2>10 DEF calendar!IsStrictPrefix
  <2>12. other.id \in ids
    BY <1>7, <2>6, <2>9
  <2>13. i <= other.id /\ i \in Nat /\ other.id \in Nat
    BY <1>1, <1>4, <1>5, <2>12
  <2> QED
    BY <1>6, <2>11, <2>13
<1>9. k \in calendar!kept(S)
  BY <1>7, <1>8 DEF calendar!kept
<1> QED
  BY <1>7, <1>9

\* The rows that show what is due on the days around d.
IsDue(e, d) ==
  CASE e.feed = "econ" -> /\ "timed" \in e.words /\ calendar!classify(e)[1] > 0
                          /\ calendar!Day(calendar!Kst(e.half)) \in {d - 1, d, d + 1}
    [] e.feed = "earnings" -> /\ calendar!Has(e, {"mega", "giant"})
                              /\ calendar!Day(e.half) + (IF "after" \in e.words THEN 1 ELSE 0) \in {d, d + 1}
    [] e.feed = "potus" -> /\ calendar!wanted(e)
                           /\ calendar!Day(IF "timed" \in e.words THEN calendar!Kst(e.half)
                                                                  ELSE 2 * calendar!Day(e.half)) \in {d - 1, d, d + 1}
LEMMA DueMeans ==
  ASSUME NEW e \in CalendarEntries, NEW d \in Nat
  PROVE  calendar!Due(e, d) <=> IsDue(e, d)
<1>1. calendar!earnings_rows(e).date = calendar!Day(e.half) + (IF "after" \in e.words THEN 1 ELSE 0)
  BY DEF calendar!earnings_rows, calendar!event
<1>2. calendar!rows_for(e).date = calendar!Day(IF "timed" \in e.words THEN calendar!Kst(e.half)
                                                                     ELSE 2 * calendar!Day(e.half))
  BY DEF calendar!rows_for, calendar!event
<1> QED
  BY <1>1, <1>2, CalendarAssumption DEF calendar!Due, IsDue

ShownAs(ev, e) ==
  \/ ev.id = e.id
  \/ /\ e.feed = "econ" /\ ev.kind = "econ" /\ ev.country = e.country
     /\ ev.slot = calendar!Kst(e.half) /\ calendar!IsPrefix(ev.name, e.name)
ShowAllDue(events, d) ==
  \A e \in CalendarEntries : IsDue(e, d) => \E ev \in events : ShownAs(ev, e) /\ Within(ev, d)

\* What collect makes of the pages, if every one answered.
LEMMA CollectedShow ==
  ASSUME NEW d \in Nat, NEW fed,
         NEW S, S = {calendar!Filled(ev, fed) : ev \in UNION {calendar!OfPage(p) : p \in calendar!Pages(d)}}
  PROVE  ShowAllDue(calendar!kept(S), d)
<1> SUFFICES ASSUME NEW e \in CalendarEntries, IsDue(e, d)
             PROVE  \E ev \in calendar!kept(S) : ShownAs(ev, e) /\ Within(ev, d)
  BY DEF ShowAllDue
<1>1. PICK p \in calendar!Pages(d) : \E ev \in calendar!OfPage(p) : RowOf(ev, e) /\ Within(ev, d)
  BY DueMeans, RowOfAPage
<1>2. PICK row \in calendar!OfPage(p) : RowOf(row, e) /\ Within(row, d)
  BY <1>1
<1>3. \A x \in S : IsEvent(x)
  BY RowsOfPages, FillingKeeps
<1> DEFINE ev == calendar!Filled(row, fed)
<1>4. ev \in S /\ RowOf(ev, e) /\ Within(ev, d) /\ IsEvent(ev)
  <2>1. Alike(ev, row) /\ IsEvent(ev)
    BY RowsOfPages, FillingKeeps
  <2> HIDE DEF ev
  <2>2. ev \in S
    BY DEF ev
  <2> QED
    BY <1>2, <2>1, <2>2 DEF Alike, RowOf, Within
<1> HIDE DEF ev
<1>5. PICK k \in calendar!kept(S) : k = ev \/ (calendar!SameSlot(k, ev) /\ calendar!IsPrefix(k.name, ev.name))
  BY <1>3, <1>4, OneStays
<1>6. k \in S /\ IsEvent(k)
  BY <1>3, <1>5 DEF calendar!kept
<1>7. ShownAs(k, e) /\ Within(k, d)
  <2>1. CASE k = ev
    BY <1>4, <2>1 DEF ShownAs, RowOf
  <2>2. CASE calendar!SameSlot(k, ev) /\ calendar!IsPrefix(k.name, ev.name)
    BY <1>4, <1>6, <2>2 DEF ShownAs, RowOf, Within, IsEvent, calendar!SameSlot
  <2> QED
    BY <1>5, <2>1, <2>2
<1> QED
  BY <1>5, <1>7

\* What the invariant says of a build, and of the payload.
Sound(b) ==
  b # None =>
    /\ b.anchor \in Nat
    /\ b.step \in {"name", "store"} =>
         /\ b = [step |-> b.step, anchor |-> b.anchor, errors |-> b.errors, events |-> b.events]
         /\ \A ev \in b.events : IsEvent(ev)
         /\ b.errors = {} => ShowAllDue(b.events, b.anchor)
Full(shown) ==
  shown # None => shown.anchor \in Nat /\ (shown.errors = {} => ShowAllDue(shown.events, shown.anchor))

CalendarInv ==
  /\ calendar_now \in Nat
  /\ calendar_build = [t \in CalendarThreads |-> calendar_build[t]]
  /\ \A t \in CalendarThreads : Sound(calendar_build[t])
  /\ Full(calendar_payload)

\* They speak of the entries and not of the state: a value sound now is sound later.
LEMMA Rigid ==
  ASSUME CalendarInv, calendar_now' \in Nat, calendar_build' = [t \in CalendarThreads |-> calendar_build'[t]],
         \A t \in CalendarThreads : Sound(calendar_build'[t]), Full(calendar_payload')
  PROVE  CalendarInv'
<1>1. \A t \in CalendarThreads : Sound(calendar_build[t])'
  <2> SUFFICES ASSUME NEW t \in CalendarThreads, Sound(calendar_build'[t]) PROVE Sound(calendar_build[t])'
    OBVIOUS
  <2> QED
    BY DEF Sound, ShowAllDue, IsDue, IsEvent, ShownAs, Within, calendar!classify, calendar!speaker_stars,
   calendar!Has, calendar!wanted, calendar!Day, calendar!Kst, calendar!IsPrefix
<1>2. Full(calendar_payload)'
  BY DEF Full, ShowAllDue, IsDue, ShownAs, Within, calendar!classify, calendar!speaker_stars,
   calendar!Has, calendar!wanted, calendar!Day, calendar!Kst, calendar!IsPrefix
<1> QED
  BY <1>1, <1>2 DEF CalendarInv

LEMMA CalendarStepKeeps ==
  ASSUME CalendarInv, NEW t \in CalendarThreads, NEW b, Sound(b),
         calendar_build' = [calendar_build EXCEPT ![t] = b],
         calendar_payload' = calendar_payload \/ Full(calendar_payload'), calendar_now' = calendar_now
  PROVE  CalendarInv'
<1>1. calendar_build' = [u \in CalendarThreads |-> calendar_build'[u]]
  BY DEF CalendarInv
<1>2. \A u \in CalendarThreads : calendar_build'[u] = IF u = t THEN b ELSE calendar_build[u]
  BY DEF CalendarInv
<1>3. \A u \in CalendarThreads : Sound(calendar_build'[u])
  BY <1>2 DEF CalendarInv
<1>4. calendar_now' \in Nat /\ Full(calendar_payload')
  BY DEF CalendarInv
<1> QED
  BY <1>1, <1>3, <1>4, Rigid

LEMMA CollectedSound ==
  ASSUME NEW d \in Nat, NEW bad, NEW fed,
         NEW S, S = {calendar!Filled(ev, fed) : ev \in UNION {calendar!OfPage(p) : p \in calendar!Pages(d) \ bad}}
  PROVE  Sound([step |-> "name", anchor |-> d, errors |-> bad, events |-> calendar!kept(S)])
<1>1. \A ev \in calendar!kept(S) : IsEvent(ev)
  BY RowsOfPages, FillingKeeps DEF calendar!kept
<1>2. bad = {} => ShowAllDue(calendar!kept(S), d)
  <2> SUFFICES ASSUME bad = {} PROVE ShowAllDue(calendar!kept(S), d)
    OBVIOUS
  <2>1. S = {calendar!Filled(ev, fed) : ev \in UNION {calendar!OfPage(p) : p \in calendar!Pages(d)}}
    OBVIOUS
  <2> QED
    BY <2>1, CollectedShow
<1> DEFINE k == calendar!kept(S)
<1> HIDE DEF k
<1>3. bad = {} => ShowAllDue(k, d)
  BY <1>2 DEF k
<1>4. \A ev \in k : IsEvent(ev)
  BY <1>1 DEF k
<1>5. Sound([step |-> "name", anchor |-> d, errors |-> bad, events |-> k])
  BY <1>3, <1>4 DEF Sound
<1> QED
  BY <1>5 DEF k

LEMMA PagesKeep ==
  ASSUME CalendarInv, NEW t \in CalendarThreads, calendar!collect(t)
  PROVE  CalendarInv'
<1> DEFINE d == calendar_build[t].anchor
           S(bad, fed) == {calendar!Filled(ev, fed) : ev \in UNION {calendar!OfPage(p) : p \in calendar!Pages(d) \ bad}}
           b(bad, fed) == [step |-> "name", anchor |-> d, errors |-> bad, events |-> calendar!kept(S(bad, fed))]
<1>1. d \in Nat
  BY DEF calendar!collect, CalendarInv, Sound
<1>2. calendar_build = [u \in CalendarThreads |-> calendar_build[u]]
  BY DEF CalendarInv
<1>3. \E bad, fed : calendar_build' = [calendar_build EXCEPT ![t] = b(bad, fed)]
  <2>1. PICK failed \in CalendarFailSets, fed \in BOOLEAN :
          LET pages == calendar!Pages(d)
              bad == {p \in pages : <<p[1], IF p[1] = "potus" THEN 2 ELSE p[2] + 2 - d>> \in failed}
              events == UNION {calendar!OfPage(p) : p \in pages \ bad}
          IN  calendar_build' = [calendar_build EXCEPT ![t] = [step |-> "name", anchor |-> @.anchor, errors |-> bad,
                events |-> calendar!kept({calendar!Filled(ev, fed /\ calendar_fedOut) : ev \in events})]]
    BY DEF calendar!collect
  <2> DEFINE bad == {p \in calendar!Pages(d) : <<p[1], IF p[1] = "potus" THEN 2 ELSE p[2] + 2 - d>> \in failed}
  <2>2. calendar_build' = [calendar_build EXCEPT ![t] = b(bad, fed /\ calendar_fedOut)]
    BY <1>2, <2>1
  <2> HIDE DEF b, bad
  <2> QED
    BY <2>2
<1>4. \A bad, fed : Sound(b(bad, fed))
  BY <1>1, CollectedSound
<1>5. calendar_payload' = calendar_payload /\ calendar_now' = calendar_now
  BY DEF calendar!collect
<1>6. PICK bad, fed : calendar_build' = [calendar_build EXCEPT ![t] = b(bad, fed)]
  BY <1>3
<1>7. Sound(b(bad, fed))
  BY <1>4
<1> HIDE DEF b
<1>8. CalendarInv'
  BY <1>5, <1>6, <1>7, CalendarStepKeeps
<1> QED
  BY <1>8

LEMMA NamesKeep ==
  ASSUME CalendarInv, NEW t \in CalendarThreads, calendar!Attach(t)
  PROVE  CalendarInv'
<1> DEFINE old == calendar_build[t]
           Named(ev) == [ev EXCEPT !.ko = <<ev.name, TRUE>> \in calendar_names']
           b == [step |-> "store", anchor |-> old.anchor, errors |-> old.errors, events |-> {Named(ev) : ev \in old.events}]
<1>1. /\ old.anchor \in Nat
      /\ old = [step |-> old.step, anchor |-> old.anchor, errors |-> old.errors, events |-> old.events]
      /\ \A ev \in old.events : IsEvent(ev)
      /\ old.errors = {} => ShowAllDue(old.events, old.anchor)
  BY DEF calendar!Attach, CalendarInv, Sound
<1>2. \A ev \in old.events : IsEvent(Named(ev)) /\ Alike(Named(ev), ev)
  BY <1>1 DEF IsEvent, Alike
<1>3. old.errors = {} => ShowAllDue(b.events, old.anchor)
  <2> SUFFICES ASSUME old.errors = {}, NEW e \in CalendarEntries, IsDue(e, old.anchor)
               PROVE  \E ev \in {Named(ev) : ev \in old.events} : ShownAs(ev, e) /\ Within(ev, old.anchor)
    BY DEF ShowAllDue
  <2>1. PICK ev \in old.events : ShownAs(ev, e) /\ Within(ev, old.anchor)
    BY <1>1 DEF ShowAllDue
  <2>2. Alike(Named(ev), ev)
    BY <1>2
  <2> HIDE DEF Named
  <2>3. ShownAs(Named(ev), e) /\ Within(Named(ev), old.anchor)
    BY <2>1, <2>2 DEF ShownAs, Within, Alike
  <2> QED
    BY <2>3
<1>4. Sound(b)
  <2>1. \A ev \in b.events : IsEvent(ev)
    BY <1>2
  <2>2. b = [step |-> b.step, anchor |-> b.anchor, errors |-> b.errors, events |-> b.events]
        /\ b.anchor = old.anchor /\ b.errors = old.errors
    OBVIOUS
  <2> HIDE DEF b
  <2> QED
    BY <1>1, <1>3, <2>1, <2>2 DEF Sound
<1>5. calendar_payload' = calendar_payload /\ calendar_now' = calendar_now
  BY DEF calendar!Attach
<1>6. calendar_build' = [calendar_build EXCEPT ![t] = b]
  <2>1. calendar_build = [u \in CalendarThreads |-> calendar_build[u]]
    BY DEF CalendarInv
  <2>2. calendar_build' = [calendar_build EXCEPT ![t].step = "store", ![t].events = {Named(ev) : ev \in @}]
    BY DEF calendar!Attach
  <2> HIDE DEF Named
  <2> DEFINE told == {Named(ev) : ev \in old.events}
  <2>3. calendar_build' = [calendar_build EXCEPT ![t].step = "store", ![t].events = told]
    BY <2>1, <2>2
  <2>4. b = [step |-> "store", anchor |-> old.anchor, errors |-> old.errors, events |-> told]
    OBVIOUS
  <2> HIDE DEF told, b
  <2>5. calendar_build'[t] = b
    BY <1>1, <2>1, <2>3, <2>4
  <2>6. calendar_build' = [calendar_build EXCEPT ![t] = calendar_build'[t]]
    BY <2>1, <2>3
  <2> QED
    BY <2>5, <2>6
<1> HIDE DEF b
<1> QED
  BY <1>4, <1>5, <1>6, CalendarStepKeeps

LEMMA PayloadKeeps ==
  ASSUME CalendarInv, NEW t \in CalendarThreads, calendar!Store(t)
  PROVE  CalendarInv'
<1> DEFINE b == calendar_build[t]
<1>1. /\ b.anchor \in Nat /\ (b.errors = {} => ShowAllDue(b.events, b.anchor))
      /\ \A ev \in b.events : IsEvent(ev)
  BY DEF calendar!Store, CalendarInv, Sound
<1>2. /\ calendar_payload' = calendar!Days(b) /\ calendar_now' = calendar_now
      /\ calendar_build' = [calendar_build EXCEPT ![t] = None]
  BY DEF calendar!Store
<1>3. Full(calendar!Days(b))
  <2>1. b.errors = {} => ShowAllDue(calendar!Days(b).events, b.anchor)
    <3>1. calendar!Days(b).events = {ev \in b.events : b.anchor <= ev.date + 1 /\ ev.date <= b.anchor + 1}
      BY DEF calendar!Days
    <3> QED
      BY <1>1, <3>1 DEF ShowAllDue, Within
  <2>2. calendar!Days(b).anchor = b.anchor /\ calendar!Days(b).errors = b.errors
    BY DEF calendar!Days
  <2> QED
    BY <1>1, <2>1, <2>2 DEF Full
<1>4. Sound(None)
  BY DEF Sound
<1> QED
  BY <1>2, <1>3, <1>4, CalendarStepKeeps

\* A payload every page answered for shows all that is due on its three days, whatever the sources
\* publish, whatever requests build at once and whatever the clock does meanwhile.  Assumed:
\* CalendarAssumption.
THEOREM CalendarShowsAllDue == LaneSpec => []CalendarComplete
<1>1. calendar!Init => CalendarInv
  BY CalendarAssumption DEF calendar!Init, CalendarInv, Sound, Full
<1>2. CalendarInv /\ [calendar!Next]_calendarVars => CalendarInv'
  <2> SUFFICES ASSUME CalendarInv, [calendar!Next]_calendarVars PROVE CalendarInv'
    OBVIOUS
  <2>1. ASSUME NEW t \in CalendarThreads, calendar!Serve(t) PROVE CalendarInv'
    <3> DEFINE b == [step |-> "collect", anchor |-> calendar!Today]
    <3>1. Sound(b)
      BY HalfDays DEF Sound, calendar!Today, CalendarInv
    <3>2. calendar_build' = [calendar_build EXCEPT ![t] = b] /\ calendar_payload' = calendar_payload
          /\ calendar_now' = calendar_now
      BY <2>1 DEF calendar!Serve
    <3> HIDE DEF b
    <3> QED
      BY <3>1, <3>2, CalendarStepKeeps
  <2>2. CASE \/ calendar!Age \/ calendar!Tick \/ calendar!Forget \/ calendar!Statement
             \/ (\E e \in CalendarEntries : calendar!Result(e)) \/ UNCHANGED calendarVars
    <3>1. calendar_now' \in Nat /\ UNCHANGED <<calendar_build, calendar_payload>>
      BY <2>2 DEF CalendarInv, calendar!Age, calendar!Tick, calendar!Forget, calendar!Statement, calendar!Result,
         calendarVars
    <3> QED
      BY <3>1, Rigid DEF CalendarInv
  <2>3. ASSUME NEW t \in CalendarThreads, calendar!collect(t) \/ calendar!Attach(t) \/ calendar!Store(t) PROVE CalendarInv'
    BY <2>3, PagesKeep, NamesKeep, PayloadKeeps
  <2> QED
    BY <2>1, <2>2, <2>3 DEF calendar!Next
<1>3. CalendarInv => CalendarComplete
  <2> SUFFICES ASSUME CalendarInv, calendar_payload # None, calendar_payload.errors = {},
                      NEW e \in CalendarEntries, calendar!Due(e, calendar_payload.anchor)
               PROVE  \E ev \in calendar_payload.events : ShownAs(ev, e)
    BY DEF CalendarComplete, calendar!Complete, ShownAs
  <2>1. IsDue(e, calendar_payload.anchor)
    BY DueMeans DEF CalendarInv, Full
  <2> QED
    BY <2>1 DEF CalendarInv, Full, ShowAllDue
<1>4. LaneInit => calendar!Init
  BY DEF LaneInit
<1> QED
  BY <1>1, <1>2, <1>3, <1>4, CalendarLane, PTL DEF LaneSpec

-----------------------------------------------------------------------------
(* The operator's switches.  The list a request has read and the list as   *)
(* it stands differ only where another request has switched a source since *)
(* (DeskInv), which is all that its write can undo.                        *)

LEMMA DeskLane == [LaneNext]_allVars => [desk!Next]_deskVars
<1> SUFFICES ASSUME [LaneNext]_allVars PROVE desk!Next \/ UNCHANGED deskVars
  OBVIOUS
<1>1. CASE LaneNext
  BY <1>1 DEF LaneNext, RulesStep, CalendarStep, SessionsStep, DeskStep, LearnerStep, ArchiveStep,
     PublicjsonStep, CutoverStep, PublishingStep, ScoringStep, desk!Next
<1>2. CASE UNCHANGED allVars
  BY <1>2 DEF allVars
<1> QED
  BY <1>1, <1>2

\* A request that has read the list, and what has been switched since.
ReadBy(r, raced) ==
  /\ r.hide \in BOOLEAN
  /\ \A s : s \notin raced => (s \in r.current <=> s \in desk_hidden_sources)

DeskInv ==
  /\ desk_req = [t \in DeskThreads |-> desk_req[t]]
  /\ desk_raced = [t \in DeskThreads |-> desk_raced[t]]
  /\ \A t \in DeskThreads : desk!Switching(t) => ReadBy(desk_req[t], desk_raced[t])

\* What a step of the desk may do to the list.
OneSwitch ==
  \A s \in desk!Moved :
    \E t \in DeskThreads :
      /\ desk!Switching(t) /\ desk_req'[t] = None
      /\ \/ desk_req[t].source = s /\ desk_req[t].hide = (s \in desk_hidden_sources')
         \/ s \in desk_raced[t] /\ (s \in desk_hidden_sources' <=> s \in desk_req[t].current)

\* Every other step leaves the list alone, and no new request has read it.
LEMMA DeskRests ==
  ASSUME DeskInv, desk_hidden_sources' = desk_hidden_sources,
         desk_req' = [t \in DeskThreads |-> desk_req'[t]],
         desk_raced' = [t \in DeskThreads |-> desk_raced'[t]],
         \A t \in DeskThreads : desk!Switching(t)' => desk_req'[t] = desk_req[t] /\ desk_raced'[t] = desk_raced[t]
  PROVE  DeskInv' /\ OneSwitch
<1>1. desk!Moved = {}
  BY DEF desk!Moved
<1>2. \A t \in DeskThreads : desk!Switching(t)' => desk!Switching(t)
  BY DEF desk!Switching, desk!Idle
<1> QED
  BY <1>1, <1>2 DEF DeskInv, ReadBy, OneSwitch

LEMMA DeskAsks ==
  ASSUME DeskInv, NEW t \in DeskThreads, NEW source, NEW hide \in BOOLEAN, desk!PostSource(t, source, hide)
  PROVE  DeskInv' /\ OneSwitch
<1> DEFINE asked == [step |-> "switch", source |-> source, hide |-> hide, current |-> desk_hidden_sources]
<1>1. /\ desk_hidden_sources' = desk_hidden_sources /\ desk_raced' = desk_raced
      /\ desk_req' = [desk_req EXCEPT ![t] = asked]
  BY DEF desk!PostSource, desk!db
<1>2. \A u \in DeskThreads : desk_req'[u] = IF u = t THEN asked ELSE desk_req[u]
  BY <1>1 DEF DeskInv
<1>3. desk_req' = [u \in DeskThreads |-> desk_req'[u]]
  BY <1>1, <1>2 DEF DeskInv
<1>4. ReadBy(desk_req[t], desk_raced[t])'
  BY <1>1, <1>2 DEF ReadBy
<1>5. ASSUME NEW u \in DeskThreads, u # t, desk!Switching(u)'
      PROVE  ReadBy(desk_req[u], desk_raced[u])'
  <2>1. desk!Switching(u) /\ desk_req'[u] = desk_req[u]
    BY <1>2, <1>5 DEF desk!Switching, desk!Idle
  <2> QED
    BY <1>1, <2>1 DEF DeskInv, ReadBy
<1>6. desk!Moved = {}
  BY <1>1 DEF desk!Moved
<1> QED
  BY <1>1, <1>3, <1>4, <1>5, <1>6 DEF DeskInv, OneSwitch

\* A request writes what it has read with its source switched, and tells the others what that changes.
LEMMA DeskSwitches ==
  ASSUME DeskInv, NEW t \in DeskThreads, desk!set_source_hidden(t)
  PROVE  DeskInv' /\ OneSwitch
<1>1. /\ desk!Switching(t)
      /\ desk_hidden_sources' = desk!Switched(desk_req[t])
      /\ desk_req' = [desk_req EXCEPT ![t] = None]
      /\ desk_raced' = [u \in DeskThreads |->
                          IF u # t /\ desk!Switching(u) THEN desk_raced[u] \cup desk!Moved ELSE {}]
  BY DEF desk!set_source_hidden
<1>2. /\ desk_req' = [u \in DeskThreads |-> desk_req'[u]]
      /\ \A u \in DeskThreads : desk_req'[u] = IF u = t THEN None ELSE desk_req[u]
  BY <1>1 DEF DeskInv
<1>3. DeskInv'
  <2>1. ASSUME NEW u \in DeskThreads, desk!Switching(u)'
        PROVE  ReadBy(desk_req[u], desk_raced[u])'
    <3>1. u # t /\ desk!Switching(u) /\ desk_req'[u] = desk_req[u]
      BY <1>2, <2>1 DEF desk!Switching, desk!Idle
    <3>2. desk_raced'[u] = desk_raced[u] \cup desk!Moved
      BY <1>1, <3>1
    <3>3. \A s : s \notin desk!Moved => (s \in desk_hidden_sources <=> s \in desk_hidden_sources')
      BY DEF desk!Moved
    <3>4. ReadBy(desk_req[u], desk_raced[u])
      BY <3>1 DEF DeskInv
    <3> QED
      BY <3>1, <3>2, <3>3, <3>4 DEF ReadBy
  <2>2. desk_raced' = [u \in DeskThreads |-> desk_raced'[u]]
    BY <1>1
  <2> QED
    BY <1>2, <2>1, <2>2 DEF DeskInv
<1>4. ReadBy(desk_req[t], desk_raced[t])
  BY <1>1 DEF DeskInv
<1>5. ASSUME NEW s \in desk!Moved
      PROVE  \/ desk_req[t].source = s /\ desk_req[t].hide = (s \in desk_hidden_sources')
             \/ s \in desk_raced[t] /\ (s \in desk_hidden_sources' <=> s \in desk_req[t].current)
  <2> DEFINE r == desk_req[t]
  <2>1. ~(s \in desk_hidden_sources <=> s \in desk_hidden_sources')
    BY <1>5 DEF desk!Moved
  <2>2. CASE s = r.source
    <3>1. r.hide \in BOOLEAN
      BY <1>4 DEF ReadBy
    <3>2. CASE r.hide
      <4>1. s \in desk_hidden_sources'
        BY <1>1, <2>2, <3>2 DEF desk!Switched
      <4> QED
        BY <2>2, <3>1, <3>2, <4>1
    <3>3. CASE ~r.hide
      <4>1. s \notin desk_hidden_sources'
        BY <1>1, <2>2, <3>3 DEF desk!Switched
      <4> QED
        BY <2>2, <3>1, <3>3, <4>1
    <3> QED
      BY <3>2, <3>3
  <2>3. CASE s # r.source
    <3>1. s \in desk_hidden_sources' <=> s \in r.current
      BY <1>1, <2>3 DEF desk!Switched
    <3> QED
      BY <1>4, <2>1, <3>1 DEF ReadBy
  <2> QED
    BY <2>2, <2>3
<1> QED
  BY <1>1, <1>2, <1>3, <1>5 DEF OneSwitch

\* set_source_hidden: whatever requests cross each other and however often the server is started again,
\* a source changes only by a request for it, or because a request puts back what it had read of a
\* source another request has switched since.
THEOREM SwitchesChangeOneSource == LaneSpec => LostOnlyToOverlap
<1>1. desk!Init => DeskInv
  BY DEF desk!Init, DeskInv, desk!Switching, desk!Idle
<1>2. DeskInv /\ [desk!Next]_deskVars => DeskInv' /\ [OneSwitch]_deskVars
  <2> SUFFICES ASSUME DeskInv, [desk!Next]_deskVars PROVE DeskInv' /\ [OneSwitch]_deskVars
    OBVIOUS
  <2>0. CASE UNCHANGED <<desk_hidden_sources, desk_req, desk_raced>>
    BY <2>0, DeskRests DEF DeskInv
  <2>1. CASE desk!Next
    <3>1. CASE \E t \in DeskThreads : desk!set_source_hidden(t)
      BY <3>1, DeskSwitches
    <3>2. CASE \E t \in DeskThreads, s \in NewsSources : desk!switchSource(t, s)
      BY <3>2, DeskAsks DEF desk!switchSource
    <3>3. ASSUME NEW t \in DeskThreads,
                 desk!interval_text(t) \/ desk!setting_set(t) \/ \E n \in Intervals : desk!set_interval(t, n)
          PROVE  DeskInv' /\ OneSwitch
      <4>1. /\ desk_hidden_sources' = desk_hidden_sources /\ desk_raced' = desk_raced
            /\ \E job \in {None, [step |-> "interval"], [step |-> "set", value |-> desk_interval]} :
                 desk_req' = [desk_req EXCEPT ![t] = job]
        BY <3>3 DEF desk!setting_set, desk!interval_text, desk!set_interval, desk!db
      <4>2. PICK job : /\ job = None \/ job.step # "switch"
                       /\ desk_req' = [desk_req EXCEPT ![t] = job]
        BY <4>1
      <4>3. /\ desk_req' = [u \in DeskThreads |-> desk_req'[u]]
            /\ \A u \in DeskThreads : desk_req'[u] = IF u = t THEN job ELSE desk_req[u]
        BY <4>2 DEF DeskInv
      <4>4. \A u \in DeskThreads : desk!Switching(u)' => desk_req'[u] = desk_req[u] /\ desk_raced'[u] = desk_raced[u]
        BY <4>1, <4>2, <4>3 DEF desk!Switching, desk!Idle
      <4> QED
        BY <4>1, <4>3, <4>4, DeskRests DEF DeskInv
    <3>4. CASE desk!Restart
      <4>1. /\ desk_hidden_sources' = desk_hidden_sources
            /\ desk_req' = [u \in DeskThreads |-> None] /\ desk_raced' = [u \in DeskThreads |-> {}]
        BY <3>4 DEF desk!Restart, desk!db
      <4>2. \A u \in DeskThreads : ~desk!Switching(u)'
        BY <4>1 DEF desk!Switching, desk!Idle
      <4> QED
        BY <4>1, <4>2, DeskRests
    <3>5. ASSUME NEW t \in DeskThreads, NEW l \in DeskStories, desk!hideStory(t, l) \/ desk!Restore(t, l)
          PROVE  UNCHANGED <<desk_hidden_sources, desk_req, desk_raced>>
      BY <3>5 DEF desk!hideStory, desk!Restore, desk!PostStory
    <3>6. ASSUME NEW t \in DeskThreads, NEW l \in DeskStories, NEW note, NEW picked, desk!togglePick(t, l, note, picked)
          PROVE  UNCHANGED <<desk_hidden_sources, desk_req, desk_raced>>
      BY <3>6 DEF desk!togglePick, desk!PostStory
    <3>7. ASSUME NEW t \in DeskThreads, desk!Undo(t) PROVE UNCHANGED <<desk_hidden_sources, desk_req, desk_raced>>
      BY <3>7 DEF desk!Undo, desk!PostStory
    <3>8. ASSUME desk!loadHidden \/ desk!loadSourceSwitches \/ \E a \in desk_answers : desk!Hear(a) \/ desk!Lose(a)
          PROVE  UNCHANGED <<desk_hidden_sources, desk_req, desk_raced>>
      BY <3>8 DEF desk!loadHidden, desk!loadSourceSwitches, desk!Asked, desk!Hear, desk!Lose, desk!db
    <3> QED
      BY <2>0, <2>1, <3>1, <3>2, <3>3, <3>4, <3>5, <3>6, <3>7, <3>8 DEF desk!Next
  <2>2. CASE UNCHANGED deskVars
    BY <2>0, <2>2 DEF deskVars
  <2> QED
    BY <2>1, <2>2
<1>3. DeskInv /\ [desk!Next]_deskVars => DeskInv' /\ [OneSwitch]_(desk!vars)
  BY <1>2 DEF desk!vars, desk!db, deskVars
<1>4. LaneInit => desk!Init
  BY DEF LaneInit
<1> QED
  BY <1>1, <1>3, <1>4, DeskLane, PTL DEF LaneSpec, LostOnlyToOverlap, desk!LostOnlyToOverlap, OneSwitch

-----------------------------------------------------------------------------
(* Scores and categories.  In a finite set with a strict total order the   *)
(* number of members below each one numbers them (Ranks), so a list picked *)
(* in order holds what it was picked from, each once (InOrder, Picked).    *)

LEMMA Ranks ==
  ASSUME NEW S, IsFiniteSet(S), NEW below \in [S -> SUBSET S],
         \A a \in S : a \notin below[a],
         \A a, b \in S : a # b => a \in below[b] \/ b \in below[a],
         \A a, b \in S : a \in below[b] => below[a] \subseteq below[b]
  PROVE  /\ \A a, b \in S : a \in below[b] => Cardinality(below[a]) < Cardinality(below[b])
         /\ \A a \in S : Cardinality(below[a]) \in 0..(Cardinality(S) - 1)
         /\ \A k \in 1..Cardinality(S) : \E a \in S : Cardinality(below[a]) = k - 1
<1>1. ASSUME NEW T \in SUBSET S, NEW U \in SUBSET T, U # T
      PROVE  Cardinality(U) \in Nat /\ Cardinality(T) \in Nat /\ Cardinality(U) < Cardinality(T)
  <2>1. IsFiniteSet(T) /\ IsFiniteSet(U)
    BY FS_Subset
  <2>2. Cardinality(U) \in Nat /\ Cardinality(T) \in Nat
    BY <2>1, FS_CardinalityType
  <2>3. Cardinality(U) <= Cardinality(T) /\ Cardinality(U) # Cardinality(T)
    BY <1>1, <2>1, FS_Subset
  <2> QED
    BY <2>2, <2>3
<1>2. \A a, b \in S : a \in below[b] => Cardinality(below[a]) < Cardinality(below[b])
  <2> SUFFICES ASSUME NEW a \in S, NEW b \in S, a \in below[b]
               PROVE  Cardinality(below[a]) < Cardinality(below[b])
    OBVIOUS
  <2>1. below[a] \in SUBSET below[b] /\ below[a] # below[b] /\ below[b] \in SUBSET S
    OBVIOUS
  <2> QED
    BY <1>1, <2>1
<1>3. \A a \in S : Cardinality(below[a]) \in 0..(Cardinality(S) - 1)
  <2> SUFFICES ASSUME NEW a \in S PROVE Cardinality(below[a]) \in 0..(Cardinality(S) - 1)
    OBVIOUS
  <2>1. below[a] \in SUBSET S /\ below[a] # S /\ S \in SUBSET S
    OBVIOUS
  <2> QED
    BY <1>1, <2>1
<1> DEFINE n == Cardinality(S)
           rank == [a \in S |-> Cardinality(below[a])]
<1>4. n \in Nat
  BY FS_CardinalityType
<1>5. CASE n = 0
  BY <1>2, <1>3, <1>5
<1>6. CASE n # 0
  <2>1. IsFiniteSet(0..(n - 1)) /\ Cardinality(0..(n - 1)) = n
    <3>1. 0 \in Int /\ n - 1 \in Int /\ ~(0 > n - 1) /\ (n - 1) - 0 + 1 = n
      BY <1>4, <1>6
    <3> QED
      BY <3>1, FS_Interval
  <2>2. \A a, b \in S : rank[a] = rank[b] => a = b
    BY <1>2, <1>3
  <2>3. rank \in Injection(S, 0..(n - 1))
    BY <1>3, <2>2 DEF Injection, IsInjective
  <2> HIDE DEF rank
  <2>4. rank \in Surjection(S, 0..(n - 1))
    BY <2>1, <2>3, FS_Injection
  <2>5. ASSUME NEW k \in 1..n PROVE \E a \in S : rank[a] = k - 1
    BY <1>4, <2>4 DEF Surjection
  <2> QED
    BY <1>2, <1>3, <2>5 DEF rank
<1> QED
  BY <1>5, <1>6

LEMMA InOrder ==
  ASSUME NEW S, IsFiniteSet(S), NEW below \in [S -> SUBSET S],
         \A a \in S : a \notin below[a],
         \A a, b \in S : a # b => a \in below[b] \/ b \in below[a],
         \A a, b \in S : a \in below[b] => below[a] \subseteq below[b],
         NEW f, f = [k \in 1..Cardinality(S) |-> f[k]],
         \A k \in 1..Cardinality(S) : f[k] \in S /\ Cardinality(below[f[k]]) = k - 1
  PROVE  /\ Cardinality(S) \in Nat /\ f \in [1..Cardinality(S) -> S]
         /\ \A i, j \in 1..Cardinality(S) : i < j <=> f[i] \in below[f[j]]
         /\ \A i, j \in 1..Cardinality(S) : f[i] = f[j] => i = j
         /\ \A a \in S : \E k \in 1..Cardinality(S) : f[k] = a
<1> DEFINE n == Cardinality(S)
<1>1. n \in Nat
  BY FS_CardinalityType
<1>2. /\ \A a, b \in S : a \in below[b] => Cardinality(below[a]) < Cardinality(below[b])
      /\ \A a \in S : Cardinality(below[a]) \in 0..(n - 1)
  BY Ranks
<1>3. f \in [1..n -> S]
  OBVIOUS
<1>4. \A a, b \in S : Cardinality(below[a]) = Cardinality(below[b]) => a = b
  BY <1>2, <1>1
<1>5. \A i, j \in 1..n : f[i] = f[j] => i = j
  BY <1>1
<1>6. \A i, j \in 1..n : i < j <=> f[i] \in below[f[j]]
  <2> SUFFICES ASSUME NEW i \in 1..n, NEW j \in 1..n PROVE i < j <=> f[i] \in below[f[j]]
    OBVIOUS
  <2>1. f[i] \in S /\ f[j] \in S /\ Cardinality(below[f[i]]) = i - 1 /\ Cardinality(below[f[j]]) = j - 1
    OBVIOUS
  <2>2. f[i] \in below[f[j]] => i - 1 < j - 1
    BY <1>2, <2>1
  <2>3. f[j] \in below[f[i]] => j - 1 < i - 1
    BY <1>2, <2>1
  <2>4. f[i] = f[j] \/ f[i] \in below[f[j]] \/ f[j] \in below[f[i]]
    BY <2>1
  <2> QED
    BY <1>1, <1>5, <2>2, <2>3, <2>4
<1>7. ASSUME NEW a \in S PROVE \E k \in 1..n : f[k] = a
  <2>1. Cardinality(below[a]) + 1 \in 1..n
    BY <1>1, <1>2
  <2> DEFINE k == Cardinality(below[a]) + 1
  <2>2. f[k] \in S /\ Cardinality(below[f[k]]) = Cardinality(below[a])
    BY <1>1, <1>2, <2>1
  <2> QED
    BY <1>4, <2>1, <2>2
<1> QED
  BY <1>1, <1>3, <1>5, <1>6, <1>7

LEMMA ScoringCardinality == \A S : scoring!Cardinality(S) = Cardinality(S)
BY DEF scoring!Cardinality, Cardinality

\* f lists the positions in I, in order.
Lists(f, I) ==
  /\ Cardinality(I) \in Nat /\ f \in [1..Cardinality(I) -> I]
  /\ \A i, j \in 1..Cardinality(I) : i < j <=> f[i] < f[j]
  /\ \A i, j \in 1..Cardinality(I) : f[i] = f[j] => i = j
  /\ \A i \in I : \E k \in 1..Cardinality(I) : f[k] = i
  /\ \A k \in 1..Cardinality(I) : Cardinality({j \in I : j < f[k]}) = k - 1

LEMMA Picked ==
  ASSUME NEW I \in SUBSET Nat, IsFiniteSet(I), NEW s
  PROVE  \E f : Lists(f, I) /\ scoring!Pick(s, I) = [k \in 1..Cardinality(I) |-> s[f[k]]]
<1> DEFINE n == Cardinality(I)
           below == [i \in I |-> {j \in I : j < i}]
           Nth(k) == CHOOSE i \in I : scoring!Cardinality({j \in I : j < i}) = k - 1
           f == [k \in 1..n |-> Nth(k)]
<1>1. /\ below \in [I -> SUBSET I]
      /\ \A a \in I : a \notin below[a]
      /\ \A a, b \in I : a # b => a \in below[b] \/ b \in below[a]
      /\ \A a, b \in I : a \in below[b] => below[a] \subseteq below[b]
  <2>1. \A i, j \in I : j \in below[i] <=> j < i
    OBVIOUS
  <2>2. below \in [I -> SUBSET I]
    OBVIOUS
  <2> HIDE DEF below
  <2>3. \A a, b \in I : a \in below[b] => below[a] \subseteq below[b]
    <3> SUFFICES ASSUME NEW a \in I, NEW b \in I, a \in below[b], NEW c \in below[a] PROVE c \in below[b]
      OBVIOUS
    <3>1. c \in I
      BY <2>2
    <3>2. c < a /\ a < b
      BY <2>1, <3>1
    <3> QED
      BY <2>1, <3>1, <3>2
  <2> QED
    BY <2>1, <2>2, <2>3
<1>2. \A k \in 1..n : \E i \in I : Cardinality(below[i]) = k - 1
  <2> HIDE DEF below, f, Nth
  <2> QED
    BY <1>1, Ranks
<1>3. ASSUME NEW k \in 1..n PROVE f[k] \in I /\ Cardinality(below[f[k]]) = k - 1
  <2>1. \E i \in I : scoring!Cardinality({j \in I : j < i}) = k - 1
    BY <1>2, ScoringCardinality
  <2> DEFINE P(i) == scoring!Cardinality({j \in I : j < i}) = k - 1
  <2>2. f[k] = CHOOSE i \in I : P(i)
    OBVIOUS
  <2>3. \E i \in I : P(i)
    BY <2>1
  <2> HIDE DEF P, Nth, f
  <2>4. f[k] \in I /\ P(f[k])
    BY <2>2, <2>3
  <2> QED
    BY <2>4, ScoringCardinality DEF P
<1>4. f = [k \in 1..n |-> f[k]]
  <2> HIDE DEF Nth
  <2> QED
    OBVIOUS
<1>5. scoring!Pick(s, I) = [k \in 1..n |-> s[f[k]]]
  <2>1. scoring!Pick(s, I) = [k \in 1..n |-> s[CHOOSE i \in I : scoring!Cardinality({j \in I : j < i}) = k - 1]]
    BY ScoringCardinality DEF scoring!Pick
  <2> QED
    BY <2>1
<1> HIDE DEF f, Nth, below
<1>6. /\ n \in Nat /\ f \in [1..n -> I]
      /\ \A i, j \in 1..n : i < j <=> f[i] \in below[f[j]]
      /\ \A i, j \in 1..n : f[i] = f[j] => i = j
      /\ \A a \in I : \E k \in 1..n : f[k] = a
  BY <1>1, <1>3, <1>4, InOrder
<1>7. \A i, j \in 1..n : i < j <=> f[i] < f[j]
  BY <1>6 DEF below
<1>8. \A k \in 1..n : Cardinality({j \in I : j < f[k]}) = k - 1
  BY <1>3 DEF below
<1> QED
  BY <1>5, <1>6, <1>7, <1>8 DEF Lists

Names == Seq(STRING)

\* What is picked from a list of V is a list of V; nothing is picked from no position.
LEMMA PickedList ==
  ASSUME NEW V, NEW s \in Seq(V), NEW I \in SUBSET DOMAIN s
  PROVE  /\ scoring!Pick(s, I) \in Seq(V)
         /\ \A k \in DOMAIN scoring!Pick(s, I) : \E i \in I : scoring!Pick(s, I)[k] = s[i]
         /\ \A i \in I : \E k \in DOMAIN scoring!Pick(s, I) : scoring!Pick(s, I)[k] = s[i]
<1>1. I \in SUBSET Nat /\ IsFiniteSet(I)
  <2>1. DOMAIN s = 1..Len(s) /\ Len(s) \in Nat
    OBVIOUS
  <2>2. IsFiniteSet(1..Len(s))
    BY <2>1, FS_Interval
  <2> QED
    BY <2>1, <2>2, FS_Subset
<1> DEFINE n == Cardinality(I)
           p == scoring!Pick(s, I)
<1>2. PICK f : Lists(f, I) /\ p = [k \in 1..n |-> s[f[k]]]
  BY <1>1, Picked
<1>3. n \in Nat /\ f \in [1..n -> I] /\ \A i \in I : \E k \in 1..n : f[k] = i
  BY <1>2 DEF Lists
<1> HIDE DEF p, n
<1>4. DOMAIN p = 1..n /\ \A k \in 1..n : f[k] \in I /\ p[k] = s[f[k]]
  BY <1>2, <1>3
<1>5. \A i \in I : s[i] \in V
  OBVIOUS
<1>6. p \in [1..n -> V]
  BY <1>2, <1>3, <1>5
<1>7. p \in Seq(V)
  BY <1>3, <1>6
<1>8. \A i \in I : \E k \in DOMAIN p : p[k] = s[i]
  <2> SUFFICES ASSUME NEW i \in I PROVE \E k \in DOMAIN p : p[k] = s[i]
    OBVIOUS
  <2>1. PICK k \in 1..n : f[k] = i
    BY <1>3
  <2> QED
    BY <1>4, <2>1
<1> QED
  BY <1>4, <1>7, <1>8 DEF p

LEMMA RulesNamed ==
  ASSUME scoring_release \in 1..Len(RuleReleases)
  PROVE  /\ scoring!Rules \in Seq([name : Names, terms : SUBSET STRING, context : SUBSET STRING])
         /\ \A text : scoring!match_all(text) \in Seq(Names)
<1>1. scoring!Rules \in Seq([name : Names, terms : SUBSET STRING, context : SUBSET STRING])
  BY ScoringAssumption DEF scoring!Rules, Names
<1>2. ASSUME NEW text PROVE scoring!match_all(text) \in Seq(Names)
  <2> DEFINE names == [i \in DOMAIN scoring!Rules |-> scoring!Rules[i].name]
  <2> DEFINE Rule == [name : Names, terms : SUBSET STRING, context : SUBSET STRING]
  <2>0. \A i \in DOMAIN scoring!Rules : scoring!Rules[i] \in Rule
    <3>1. scoring!Rules \in Seq(Rule)
      BY <1>1
    <3> HIDE DEF Rule
    <3> QED
      BY <3>1
  <2>1. names \in Seq(Names) /\ DOMAIN names = DOMAIN scoring!Rules
    <3>1. DOMAIN scoring!Rules = 1..Len(scoring!Rules) /\ Len(scoring!Rules) \in Nat
      BY <1>1
    <3>2. \A i \in DOMAIN scoring!Rules : scoring!Rules[i].name \in Names
      <4> SUFFICES ASSUME NEW i \in DOMAIN scoring!Rules PROVE scoring!Rules[i].name \in Names
        OBVIOUS
      <4> QED
        BY <2>0
    <3> QED
      BY <3>1, <3>2
  <2>2. \E I \in SUBSET DOMAIN scoring!Rules : scoring!match_all(text) = scoring!Pick(names, I)
    BY DEF scoring!match_all
  <2> HIDE DEF names
  <2>3. PICK I \in SUBSET DOMAIN scoring!Rules : scoring!match_all(text) = scoring!Pick(names, I)
    BY <2>2
  <2> QED
    BY <2>1, <2>3, PickedList
<1> QED
  BY <1>1, <1>2

\* A name read is one of today, or none of its parts is.
LEMMA Retired ==
  ASSUME NEW name \in Names
  PROVE  /\ scoring!retire(name) \in Names
         /\ name \in scoring!valid_names => scoring!retire(name) = name
         /\ \/ scoring!retire(name) \in scoring!valid_names
            \/ scoring!retire(name) = name /\ \A k \in DOMAIN name : <<name[k]>> \notin scoring!valid_names
         /\ scoring!retire(scoring!retire(name)) = scoring!retire(name)
<1> DEFINE I == {i \in DOMAIN name : <<name[i]>> \in scoring!valid_names}
           current == scoring!Pick(name, I)
<1>1. scoring!retire(name) = IF name \in scoring!valid_names \/ current = <<>> THEN name ELSE <<Head(current)>>
  BY DEF scoring!retire
<1>2. /\ current \in Seq(STRING)
      /\ \A k \in DOMAIN current : \E i \in I : current[k] = name[i]
      /\ \A i \in I : \E k \in DOMAIN current : current[k] = name[i]
  <2>1. name \in Seq(STRING) /\ I \in SUBSET DOMAIN name
    BY DEF Names
  <2> HIDE DEF I
  <2> QED
    BY <2>1, PickedList
<1>3. \A i \in I : <<name[i]>> \in scoring!valid_names
  OBVIOUS
<1>4. \A k \in DOMAIN name : k \notin I => <<name[k]>> \notin scoring!valid_names
  OBVIOUS
<1> HIDE DEF I, current
<1>5. current = <<>> => I = {}
  BY <1>2
<1>6. CASE name \in scoring!valid_names
  BY <1>1, <1>6
<1>7. CASE name \notin scoring!valid_names /\ current = <<>>
  BY <1>1, <1>4, <1>5, <1>7
<1>8. CASE name \notin scoring!valid_names /\ current # <<>>
  <2>1. 1 \in DOMAIN current /\ Head(current) = current[1] /\ current[1] \in STRING
    BY <1>2, <1>8
  <2>2. <<Head(current)>> \in scoring!valid_names
    BY <1>2, <1>3, <2>1
  <2>3. scoring!retire(<<Head(current)>>) = <<Head(current)>>
    BY <2>2 DEF scoring!retire
  <2>4. <<Head(current)>> \in Names
    BY <2>1 DEF Names
  <2> QED
    BY <1>1, <1>8, <2>2, <2>3, <2>4
<1> QED
  BY <1>6, <1>7, <1>8

\* The positions at which a value first stands hold every value once; where none comes twice, they are all.
Firsts(s) == {i \in DOMAIN s : \A k \in 1..(i - 1) : s[k] # s[i]}

LEMMA FirstsPicked ==
  ASSUME NEW V, NEW s \in Seq(V)
  PROVE  /\ scoring!Pick(s, Firsts(s)) \in Seq(V)
         /\ \A k \in DOMAIN scoring!Pick(s, Firsts(s)) : \E i \in DOMAIN s : scoring!Pick(s, Firsts(s))[k] = s[i]
         /\ \A i \in DOMAIN s : \E k \in DOMAIN scoring!Pick(s, Firsts(s)) : scoring!Pick(s, Firsts(s))[k] = s[i]
         /\ \A i, j \in DOMAIN scoring!Pick(s, Firsts(s)) :
              scoring!Pick(s, Firsts(s))[i] = scoring!Pick(s, Firsts(s))[j] => i = j
         /\ (\A i, j \in DOMAIN s : s[i] = s[j] => i = j) => scoring!Pick(s, Firsts(s)) = s
<1> DEFINE I == Firsts(s)
           n == Cardinality(I)
           p == scoring!Pick(s, I)
<1>1. DOMAIN s = 1..Len(s) /\ Len(s) \in Nat
  OBVIOUS
<1>2. I \in SUBSET DOMAIN s /\ I \in SUBSET Nat /\ IsFiniteSet(I)
  <2>1. I \in SUBSET DOMAIN s /\ IsFiniteSet(1..Len(s))
    BY <1>1, FS_Interval DEF Firsts
  <2> QED
    BY <1>1, <2>1, FS_Subset
<1>3. \A i, j \in I : s[i] = s[j] => i = j
  BY <1>1, <1>2 DEF Firsts
<1>4. \A i \in DOMAIN s : \E j \in I : s[j] = s[i]
  <2> SUFFICES ASSUME NEW i \in DOMAIN s PROVE \E j \in I : s[j] = s[i]
    OBVIOUS
  <2> DEFINE J == {j \in DOMAIN s : s[j] = s[i]}
             m == Cardinality(J)
  <2>1. J \in SUBSET Nat /\ IsFiniteSet(J)
    <3>1. J \in SUBSET DOMAIN s /\ IsFiniteSet(1..Len(s))
      BY <1>1, FS_Interval
    <3> QED
      BY <1>1, <3>1, FS_Subset
  <2>2. PICK g : Lists(g, J)
    BY <2>1, Picked
  <2>3. /\ m \in Nat /\ g \in [1..m -> J]
        /\ \A a, b \in 1..m : a < b <=> g[a] < g[b]
        /\ \A a \in J : \E k \in 1..m : g[k] = a
    BY <2>2 DEF Lists
  <2>4. i \in J /\ \A j \in J : j \in DOMAIN s /\ s[j] = s[i]
    OBVIOUS
  <2>5. \A j \in DOMAIN s : s[j] = s[i] => j \in J
    OBVIOUS
  <2> HIDE DEF J, m
  <2>6. 1 \in 1..m
    BY <2>3, <2>4
  <2>7. ASSUME NEW j \in 1..(g[1] - 1) PROVE s[j] # s[g[1]]
    <3>1. g[1] \in J /\ g[1] \in 1..Len(s) /\ s[g[1]] = s[i]
      BY <1>1, <2>3, <2>4, <2>6
    <3>2. SUFFICES ASSUME s[j] = s[g[1]] PROVE FALSE
      OBVIOUS
    <3>3. j \in DOMAIN s /\ j < g[1]
      BY <1>1, <3>1
    <3>4. PICK k \in 1..m : g[k] = j
      BY <2>3, <2>5, <3>1, <3>2, <3>3
    <3>5. k < 1
      BY <2>3, <2>6, <3>3, <3>4
    <3> QED
      BY <2>3, <3>5
  <2>8. g[1] \in I /\ s[g[1]] = s[i]
    BY <2>3, <2>4, <2>6, <2>7 DEF Firsts
  <2> QED
    BY <2>8
<1>5. PICK f : Lists(f, I) /\ p = [k \in 1..n |-> s[f[k]]]
  BY <1>2, Picked
<1>6. /\ n \in Nat /\ f \in [1..n -> I]
      /\ \A i, j \in 1..n : f[i] = f[j] => i = j
      /\ \A k \in 1..n : Cardinality({j \in I : j < f[k]}) = k - 1
  BY <1>5 DEF Lists
<1>7. ASSUME \A i, j \in DOMAIN s : s[i] = s[j] => i = j PROVE p = s
  <2>0. \A m \in Nat : Cardinality(1..m) = m
    BY FS_Interval
  <2>1. I = 1..Len(s)
    BY <1>1, <1>7 DEF Firsts
  <2>2. n = Len(s)
    BY <1>1, <2>0, <2>1
  <2>3. ASSUME NEW k \in 1..n PROVE f[k] = k
    <3>1. f[k] \in 1..Len(s)
      BY <1>6, <2>1
    <3>2. {j \in I : j < f[k]} = 1..(f[k] - 1)
      BY <1>1, <2>1, <3>1
    <3>3. Cardinality(1..(f[k] - 1)) = f[k] - 1
      <4>1. f[k] - 1 \in Nat
        BY <1>1, <3>1
      <4> QED
        BY <2>0, <4>1
    <3> HIDE DEF n, I
    <3>4. f[k] - 1 = k - 1
      BY <1>6, <3>2, <3>3
    <3> QED
      BY <1>1, <1>6, <3>1, <3>4
  <2>4. p = [k \in 1..Len(s) |-> s[k]]
    BY <1>5, <2>2, <2>3
  <2> QED
    BY <1>1, <2>4
<1> HIDE DEF I, n, p
<1>8. p \in Seq(V) /\ \A k \in DOMAIN p : \E i \in I : p[k] = s[i]
  BY <1>2, PickedList DEF p
<1>9. \A i \in I : \E k \in DOMAIN p : p[k] = s[i]
  BY <1>2, PickedList DEF p
<1>10. \A i, j \in DOMAIN p : p[i] = p[j] => i = j
  BY <1>3, <1>5, <1>6
<1>11. \A i \in DOMAIN s : \E k \in DOMAIN p : p[k] = s[i]
  BY <1>4, <1>9
<1>12. \A k \in DOMAIN p : \E i \in DOMAIN s : p[k] = s[i]
  BY <1>2, <1>8
<1> QED
  BY <1>7, <1>8, <1>10, <1>11, <1>12 DEF p, I

LEMMA SplitFacts ==
  ASSUME NEW names \in Seq(Names), names # <<>>
  PROVE  LET read == scoring!split_categories(names)
         IN  /\ read \in Seq(Names) /\ read # <<>>
             /\ \A i, j \in DOMAIN read : read[i] = read[j] => i = j
             /\ \A i \in DOMAIN names : \E k \in DOMAIN read : read[k] = scoring!retire(names[i])
             /\ \A k \in DOMAIN read : \E i \in DOMAIN names : read[k] = scoring!retire(names[i])
             /\ scoring!split_categories(read) = read
<1> DEFINE now(s) == [i \in DOMAIN s |-> scoring!retire(s[i])]
           read == scoring!split_categories(names)
<1>1. \A s : s # <<>> => scoring!split_categories(s) = scoring!Pick(now(s), Firsts(now(s)))
  BY DEF scoring!split_categories, Firsts
<1>2. now(names) \in Seq(Names) /\ DOMAIN now(names) = DOMAIN names
  <2>1. \A i \in DOMAIN names : scoring!retire(names[i]) \in Names
    BY Retired
  <2>2. DOMAIN names = 1..Len(names) /\ Len(names) \in Nat
    OBVIOUS
  <2> QED
    BY <2>1, <2>2
<1> DEFINE today == now(names)
<1>3. \A i \in DOMAIN names : today[i] = scoring!retire(names[i])
  OBVIOUS
<1>4. read = scoring!Pick(today, Firsts(today))
  BY <1>1
<1> HIDE DEF today, read
<1>5. /\ read \in Seq(Names)
      /\ \A k \in DOMAIN read : \E i \in DOMAIN today : read[k] = today[i]
      /\ \A i \in DOMAIN today : \E k \in DOMAIN read : read[k] = today[i]
      /\ \A i, j \in DOMAIN read : read[i] = read[j] => i = j
  <2>1. today \in Seq(Names)
    BY <1>2 DEF today
  <2> QED
    BY <1>4, <2>1, FirstsPicked
<1>6. 1 \in DOMAIN names
  OBVIOUS
<1>7. read # <<>>
  BY <1>2, <1>5, <1>6 DEF today
<1>8. \A k \in DOMAIN read : \E i \in DOMAIN names : read[k] = scoring!retire(names[i])
  BY <1>2, <1>3, <1>5 DEF today
<1>9. now(read) = read
  <2>1. ASSUME NEW k \in DOMAIN read PROVE scoring!retire(read[k]) = read[k]
    <3>1. PICK i \in DOMAIN names : read[k] = scoring!retire(names[i])
      BY <1>8
    <3>2. names[i] \in Names
      OBVIOUS
    <3> QED
      BY <3>1, <3>2, Retired
  <2>2. read = [k \in DOMAIN read |-> read[k]]
    BY <1>5
  <2> QED
    BY <2>1, <2>2
<1>10. scoring!split_categories(read) = read
  <2>1. scoring!split_categories(read) = scoring!Pick(read, Firsts(read))
    BY <1>1, <1>7, <1>9
  <2> QED
    BY <1>5, <2>1, FirstsPicked
<1>11. \A i \in DOMAIN names : \E k \in DOMAIN read : read[k] = scoring!retire(names[i])
  BY <1>2, <1>3, <1>5 DEF today
<1> QED
  BY <1>5, <1>7, <1>8, <1>10, <1>11 DEF read

-----------------------------------------------------------------------------
(* A run asks for its rows batch by batch, each once (Upto), and a number  *)
(* the model gives is read under the index of the batch it was asked about *)
(* (ScoreRun), so what a run holds and what it writes was meant.           *)

Upto(rows, m) == {rows[i] : i \in {j \in DOMAIN rows : j <= m}}

RunOf(pc, rows, offset, payload, index, scored, asked) ==
  [pc |-> pc, rows |-> rows, offset |-> offset, payload |-> payload, index |-> index,
   scored |-> scored, asked |-> asked]
Whole(r) == r = RunOf(r.pc, r.rows, r.offset, r.payload, r.index, r.scored, r.asked)

IsRun(r) ==
  /\ Whole(r)
  /\ r.rows \in Seq(ScoredStories) /\ r.offset \in Nat
  /\ \A i, j \in DOMAIN r.rows : r.rows[i] = r.rows[j] => i = j

ScoreRun(r, said) ==
  /\ IsRun(r)
  /\ r.pc = "asking" => r.asked = Upto(r.rows, r.offset)
  /\ r.pc = "waiting" => r.payload = r.index /\ r.asked = Upto(r.rows, r.offset + BATCH)
  /\ \A s \in ScoredStories : r.scored[s] # None => <<s, r.scored[s]>> \in said

ScoresInv ==
  /\ scoring_run = [p \in ScoreRuns |-> scoring_run[p]]
  /\ \A p \in ScoreRuns : ScoreRun(scoring_run[p], scoring_meant)
  /\ \A s \in ScoredStories : scoring_ai_priority[s] # None => <<s, scoring_ai_priority[s]>> \in scoring_meant

LabelsInv ==
  /\ scoring_release \in 1..Len(RuleReleases) /\ scoring_stored \subseteq ScoredStories
  /\ scoring_categories \in [ScoredStories -> Seq(Names)]
  /\ \A s \in scoring_stored : scoring_categories[s] # <<>>

\* Fields of a run changed, the others as they were.
LEMMA RunMade ==
  ASSUME NEW pc, NEW rows, NEW offset, NEW payload, NEW index, NEW scored, NEW asked, NEW r,
         r = RunOf(pc, rows, offset, payload, index, scored, asked)
  PROVE  /\ r.pc = pc /\ r.rows = rows /\ r.offset = offset /\ r.payload = payload
         /\ r.index = index /\ r.scored = scored /\ r.asked = asked /\ Whole(r)
BY DEF RunOf, Whole

LEMMA RunMoved ==
  ASSUME NEW r, Whole(r), NEW pc, NEW offset
  PROVE  [r EXCEPT !.pc = pc, !.offset = offset] = RunOf(pc, r.rows, offset, r.payload, r.index, r.scored, r.asked)
<1> DEFINE a == [r EXCEPT !.pc = pc]
<1>1. a = RunOf(pc, r.rows, r.offset, r.payload, r.index, r.scored, r.asked)
  BY DEF Whole, RunOf
<1>2. [a EXCEPT !.offset = offset] = RunOf(pc, r.rows, offset, r.payload, r.index, r.scored, r.asked)
  <2> HIDE DEF a
  <2> QED
    BY <1>1 DEF RunOf
<1> QED
  BY <1>2

LEMMA RunScored ==
  ASSUME NEW r, Whole(r), NEW pc, NEW offset, NEW scored
  PROVE  [r EXCEPT !.pc = pc, !.offset = offset, !.scored = scored] =
           RunOf(pc, r.rows, offset, r.payload, r.index, scored, r.asked)
<1> DEFINE a == [r EXCEPT !.pc = pc, !.offset = offset]
<1>1. a = RunOf(pc, r.rows, offset, r.payload, r.index, r.scored, r.asked)
  BY RunMoved
<1>2. [a EXCEPT !.scored = scored] = RunOf(pc, r.rows, offset, r.payload, r.index, scored, r.asked)
  <2> HIDE DEF a
  <2> QED
    BY <1>1 DEF RunOf
<1> QED
  BY <1>2

LEMMA RunBegun ==
  ASSUME NEW r, Whole(r), NEW pc, NEW rows
  PROVE  [r EXCEPT !.pc = pc, !.rows = rows] = RunOf(pc, rows, r.offset, r.payload, r.index, r.scored, r.asked)
<1> DEFINE a == [r EXCEPT !.pc = pc]
<1>1. a = RunOf(pc, r.rows, r.offset, r.payload, r.index, r.scored, r.asked)
  BY DEF Whole, RunOf
<1>2. [a EXCEPT !.rows = rows] = RunOf(pc, rows, r.offset, r.payload, r.index, r.scored, r.asked)
  <2> HIDE DEF a
  <2> QED
    BY <1>1 DEF RunOf
<1> QED
  BY <1>2

Asking(r, payload, index, asked) ==
  [r EXCEPT !.pc = "waiting", !.payload = payload, !.index = index, !.asked = asked]

LEMMA RunAsked ==
  ASSUME NEW r, Whole(r), NEW payload, NEW index, NEW asked
  PROVE  Asking(r, payload, index, asked) = RunOf("waiting", r.rows, r.offset, payload, index, r.scored, asked)
<1> DEFINE a == [r EXCEPT !.pc = "waiting"]
           b == [a EXCEPT !.payload = payload]
           c == [b EXCEPT !.index = index]
<1>1. a = RunOf("waiting", r.rows, r.offset, r.payload, r.index, r.scored, r.asked)
  BY DEF Whole, RunOf
<1>2. b = RunOf("waiting", r.rows, r.offset, payload, r.index, r.scored, r.asked)
  <2> HIDE DEF a
  <2> QED
    BY <1>1 DEF RunOf
<1>3. c = RunOf("waiting", r.rows, r.offset, payload, index, r.scored, r.asked)
  <2> HIDE DEF b
  <2> QED
    BY <1>2 DEF RunOf
<1>4. [c EXCEPT !.asked = asked] = RunOf("waiting", r.rows, r.offset, payload, index, r.scored, asked)
  <2> HIDE DEF c
  <2> QED
    BY <1>3 DEF RunOf
<1> QED
  BY <1>4 DEF Asking

\* As many of the rows as were asked for, or all of them.
LEMMA UptoCounts ==
  ASSUME NEW V, NEW rows \in Seq(V), \A i, j \in DOMAIN rows : rows[i] = rows[j] => i = j, NEW m \in Nat
  PROVE  /\ m >= Len(rows) => Upto(rows, m) = {rows[i] : i \in DOMAIN rows} /\ Cardinality(Upto(rows, m)) = Len(rows)
         /\ m < Len(rows) => Cardinality(Upto(rows, m)) = m
<1> DEFINE k == IF m < Len(rows) THEN m ELSE Len(rows)
           f == [i \in 1..k |-> rows[i]]
<1>1. Len(rows) \in Nat /\ DOMAIN rows = 1..Len(rows) /\ k \in Nat
  OBVIOUS
<1>2. {j \in DOMAIN rows : j <= m} = 1..k
  BY <1>1
<1>3. f \in Bijection(1..k, Upto(rows, m))
  <2>1. Upto(rows, m) = {rows[i] : i \in 1..k}
    BY <1>2 DEF Upto
  <2>2. 1..k \subseteq DOMAIN rows
    BY <1>1
  <2> HIDE DEF k
  <2>3. f \in [1..k -> Upto(rows, m)]
    BY <2>1
  <2>4. \A i, j \in 1..k : f[i] = f[j] => i = j
    BY <2>2
  <2>5. \A v \in Upto(rows, m) : \E i \in 1..k : f[i] = v
    BY <2>1
  <2> QED
    BY <2>3, <2>4, <2>5 DEF Bijection, Injection, Surjection, IsInjective
<1>4. IsFiniteSet(1..k) /\ Cardinality(1..k) = k
  <2> HIDE DEF k
  <2> QED
    BY <1>1, FS_Interval
<1>5. Cardinality(Upto(rows, m)) = k
  <2> HIDE DEF k, f
  <2>1. ExistsBijection(1..k, Upto(rows, m))
    BY <1>3 DEF ExistsBijection
  <2> QED
    BY <1>4, <2>1, FS_Bijection
<1>6. CASE m >= Len(rows)
  <2>1. {j \in DOMAIN rows : j <= m} = DOMAIN rows
    BY <1>1, <1>6
  <2>2. Upto(rows, m) = {rows[i] : i \in DOMAIN rows}
    BY <2>1 DEF Upto
  <2>3. ~(m < Len(rows))
    BY <1>1, <1>6
  <2>4. k = Len(rows)
    BY <2>3
  <2> HIDE DEF k
  <2> QED
    BY <1>5, <2>2, <2>3, <2>4
<1>7. CASE m < Len(rows)
  <2>1. k = m /\ ~(m >= Len(rows))
    BY <1>1, <1>7
  <2> HIDE DEF k
  <2> QED
    BY <1>5, <2>1
<1> QED
  BY <1>1, <1>6, <1>7

\* The rows of a run: stories, none twice.
LEMMA PendingRows ==
  ASSUME scoring_stored \subseteq ScoredStories
  PROVE  /\ scoring!pending \in Seq(ScoredStories)
         /\ \A i, j \in DOMAIN scoring!pending : scoring!pending[i] = scoring!pending[j] => i = j
<1> DEFINE found == {s \in scoring_stored \ scoring_caught : scoring_ai_priority[s] = None /\ scoring!Recent(s)}
           newer(s) == {t \in found : ScoredAt[t] > ScoredAt[s] \/ (ScoredAt[t] = ScoredAt[s] /\ t > s)}
           n == Cardinality(found)
           Nth(k) == CHOOSE s \in found : scoring!Cardinality(newer(s)) = k - 1
           rows == [k \in 1..n |-> Nth(k)]
<1>1. scoring!pending = IF ScoreLimit > 0 /\ Len(rows) > ScoreLimit THEN SubSeq(rows, 1, ScoreLimit) ELSE rows
  BY ScoringCardinality DEF scoring!pending
<1>2. IsFiniteSet(found)
  <2>1. found \in SUBSET ScoredStories
    OBVIOUS
  <2> QED
    BY <2>1, ScoringAssumption, FS_Subset
<1>3. found \subseteq ScoredStories
  OBVIOUS
<1> HIDE DEF found
<1> DEFINE below == [s \in found |-> newer(s)]
<1>4. /\ below \in [found -> SUBSET found]
      /\ \A a \in found : a \notin below[a]
      /\ \A a, b \in found : a # b => a \in below[b] \/ b \in below[a]
      /\ \A a, b \in found : a \in below[b] => below[a] \subseteq below[b]
  <2>1. \A a, b \in found : a \in below[b] <=> ScoredAt[a] > ScoredAt[b] \/ (ScoredAt[a] = ScoredAt[b] /\ a > b)
    OBVIOUS
  <2>2. below \in [found -> SUBSET found]
    OBVIOUS
  <2> HIDE DEF below
  <2>3. \A a \in found : ScoredAt[a] \in Nat /\ a \in Nat
    BY <1>3, ScoringAssumption
  <2>5. \A a, b \in found : a \in below[b] => below[a] \subseteq below[b]
    <3> SUFFICES ASSUME NEW a \in found, NEW b \in found, a \in below[b], NEW c \in below[a] PROVE c \in below[b]
      OBVIOUS
    <3>1. c \in found
      BY <2>2
    <3> QED
      BY <2>1, <2>3, <3>1
  <2>6. \A a \in found : a \notin below[a]
    BY <2>1, <2>3
  <2>7. \A a, b \in found : a # b => a \in below[b] \/ b \in below[a]
    BY <2>1, <2>3
  <2> QED
    BY <2>2, <2>5, <2>6, <2>7
<1>5. \A k \in 1..n : \E s \in found : Cardinality(below[s]) = k - 1
  <2> HIDE DEF below
  <2> QED
    BY <1>2, <1>4, Ranks
<1>6. ASSUME NEW k \in 1..n PROVE rows[k] \in found /\ Cardinality(below[rows[k]]) = k - 1
  <2> DEFINE P(s) == scoring!Cardinality(newer(s)) = k - 1
  <2>1. \E s \in found : P(s)
    BY <1>5, ScoringCardinality
  <2>2. rows[k] = CHOOSE s \in found : P(s)
    OBVIOUS
  <2> HIDE DEF P, rows
  <2>3. rows[k] \in found /\ P(rows[k])
    BY <2>1, <2>2
  <2> QED
    BY <2>3, ScoringCardinality DEF P
<1>7. rows = [k \in 1..n |-> rows[k]]
  <2> HIDE DEF Nth
  <2> QED
    OBVIOUS
<1> HIDE DEF rows, below
<1>8. /\ n \in Nat /\ rows \in [1..n -> found]
      /\ \A i, j \in 1..n : i < j <=> rows[i] \in below[rows[j]]
      /\ \A i, j \in 1..n : rows[i] = rows[j] => i = j
      /\ \A a \in found : \E k \in 1..n : rows[k] = a
  <2>1. \A k \in 1..n : rows[k] \in found /\ Cardinality(below[rows[k]]) = k - 1
    BY <1>6
  <2>2. /\ \A a \in found : a \notin below[a]
        /\ \A a, b \in found : a # b => a \in below[b] \/ b \in below[a]
        /\ \A a, b \in found : a \in below[b] => below[a] \subseteq below[b]
    BY <1>4
  <2> QED
    BY <1>2, <1>4, <1>7, <2>1, <2>2, InOrder
<1>9. rows \in Seq(ScoredStories) /\ Len(rows) = n /\ DOMAIN rows = 1..n
  BY <1>3, <1>8
<1>10. CASE ScoreLimit > 0 /\ Len(rows) > ScoreLimit
  <2>1. SubSeq(rows, 1, ScoreLimit) \in Seq(ScoredStories)
    BY <1>8, <1>9, <1>10, ScoringAssumption
  <2>2. /\ DOMAIN SubSeq(rows, 1, ScoreLimit) = 1..ScoreLimit
        /\ \A i \in 1..ScoreLimit : SubSeq(rows, 1, ScoreLimit)[i] = rows[i]
    BY <1>8, <1>9, <1>10, ScoringAssumption
  <2>3. 1..ScoreLimit \subseteq 1..n
    BY <1>8, <1>9, <1>10, ScoringAssumption
  <2> QED
    BY <1>1, <1>8, <1>10, <2>1, <2>2, <2>3
<1>11. CASE ~(ScoreLimit > 0 /\ Len(rows) > ScoreLimit)
  BY <1>1, <1>8, <1>9, <1>11
<1> QED
  BY <1>10, <1>11

LEMMA BeginScores ==
  ASSUME ScoresInv, scoring_stored \subseteq ScoredStories, NEW p \in ScoreRuns, scoring!Begin(p)
  PROVE  ScoresInv'
<1> DEFINE new == RunOf("asking", scoring!pending, 0, <<>>, <<>>, [s \in ScoredStories |-> None], {})
<1>1. /\ scoring_run' = [scoring_run EXCEPT ![p] = new]
      /\ UNCHANGED <<scoring_ai_priority, scoring_meant>>
  <2>1. [scoring!Idle EXCEPT !.pc = "asking", !.rows = scoring!pending] = new
    <3>1. scoring!Idle = RunOf("off", <<>>, 0, <<>>, <<>>, [s \in ScoredStories |-> None], {})
      BY DEF scoring!Idle, RunOf
    <3> HIDE DEF new
    <3> DEFINE idle == scoring!Idle
    <3>2. /\ Whole(idle) /\ idle.offset = 0 /\ idle.payload = <<>> /\ idle.index = <<>>
          /\ idle.scored = [s \in ScoredStories |-> None] /\ idle.asked = {}
      BY <3>1, RunMade
    <3>3. [idle EXCEPT !.pc = "asking", !.rows = scoring!pending] =
            RunOf("asking", scoring!pending, idle.offset, idle.payload, idle.index, idle.scored, idle.asked)
      BY <3>2, RunBegun
    <3> QED
      BY <3>2, <3>3 DEF new
  <2> HIDE DEF new
  <2> QED
    BY <2>1 DEF scoring!Begin
<1>2. /\ new.pc = "asking" /\ new.rows = scoring!pending /\ new.offset = 0 /\ new.asked = {}
      /\ new.scored = [s \in ScoredStories |-> None] /\ Whole(new)
  <2> HIDE DEF new
  <2> QED
    BY RunMade DEF new
<1> HIDE DEF new
<1>3. Upto(scoring!pending, 0) = {}
  <2>1. scoring!pending \in Seq(ScoredStories)
    BY PendingRows
  <2>2. \A i \in DOMAIN scoring!pending : ~(i <= 0)
    BY <2>1
  <2> QED
    BY <2>2 DEF Upto
<1>4. IsRun(new)
  BY <1>2, PendingRows DEF IsRun
<1>5. ScoreRun(new, scoring_meant)
  BY <1>2, <1>3, <1>4 DEF ScoreRun
<1> QED
  BY <1>1, <1>5 DEF ScoresInv

\* The next rows of a run, and with them what was asked for.
LEMMA NextChunk ==
  ASSUME NEW r, IsRun(r), r.offset < Len(r.rows)
  PROVE  /\ scoring!Chunk(r).payload \in Seq(ScoredStories)
         /\ scoring!Chunk(r).index = scoring!Chunk(r).payload
         /\ Upto(r.rows, r.offset) \cup scoring!ToSet(scoring!Chunk(r).payload) = Upto(r.rows, r.offset + BATCH)
<1> DEFINE last == IF r.offset + BATCH < Len(r.rows) THEN r.offset + BATCH ELSE Len(r.rows)
           rows == r.rows
           from == r.offset
           part == SubSeq(rows, from + 1, last)
<1>1. scoring!Chunk(r).payload = part /\ scoring!Chunk(r).index = part
  BY DEF scoring!Chunk, scoring!build_batch
<1>2. /\ rows \in Seq(ScoredStories) /\ from \in Nat /\ BATCH \in Nat \ {0} /\ Len(rows) \in Nat
      /\ last \in Nat /\ from + 1 <= last /\ last <= Len(rows) /\ DOMAIN rows = 1..Len(rows)
      /\ \A j \in 1..Len(rows) : j <= last <=> j <= from + BATCH
  BY ScoringAssumption DEF IsRun
<1> HIDE DEF last, rows, from
<1>3. /\ part \in Seq(ScoredStories) /\ DOMAIN part = 1..(last - from)
      /\ \A i \in 1..(last - from) : part[i] = rows[from + i]
  <2>1. \A i \in (from + 1)..last : rows[i] \in ScoredStories
    BY <1>2
  <2>2. from + 1 \in Int /\ last \in Int
    BY <1>2
  <2>3. /\ part \in Seq(ScoredStories)
        /\ Len(part) = IF from + 1 <= last THEN last - (from + 1) + 1 ELSE 0
        /\ \A i \in 1..(last - (from + 1) + 1) : part[i] = rows[(from + 1) + i - 1]
    BY <2>1, <2>2, SubSeqProperties
  <2> HIDE DEF part
  <2>4. Len(part) = last - from /\ last - (from + 1) + 1 = last - from
    BY <1>2, <2>3
  <2>5. \A i \in 1..(last - from) : (from + 1) + i - 1 = from + i
    BY <1>2
  <2> QED
    BY <2>3, <2>4, <2>5
<1> HIDE DEF part
<1>4. scoring!ToSet(part) = {rows[i] : i \in {j \in DOMAIN rows : j > from /\ j <= last}}
  <2>1. scoring!ToSet(part) = {part[i] : i \in DOMAIN part}
    BY DEF scoring!ToSet
  <2>2. \A i \in DOMAIN part : from + i \in DOMAIN rows /\ from + i > from /\ from + i <= last /\ part[i] = rows[from + i]
    BY <1>2, <1>3
  <2>3. \A j \in DOMAIN rows : j > from /\ j <= last => j - from \in DOMAIN part /\ part[j - from] = rows[j]
    <3> SUFFICES ASSUME NEW j \in DOMAIN rows, j > from, j <= last
                 PROVE  j - from \in DOMAIN part /\ part[j - from] = rows[j]
      OBVIOUS
    <3>1. j - from \in 1..(last - from) /\ from + (j - from) = j
      BY <1>2
    <3> QED
      BY <1>3, <3>1
  <2> QED
    BY <2>1, <2>2, <2>3
<1>5. Upto(rows, from) \cup scoring!ToSet(part) = Upto(rows, from + BATCH)
  <2>1. \A j \in DOMAIN rows : j <= from + BATCH <=> j <= from \/ (j > from /\ j <= last)
    BY <1>2
  <2> QED
    BY <1>4, <2>1 DEF Upto
<1> QED
  BY <1>1, <1>3, <1>5 DEF rows, from

LEMMA AskScores ==
  ASSUME ScoresInv, NEW p \in ScoreRuns, scoring!Ask(p)
  PROVE  ScoresInv'
<1> DEFINE r == scoring_run[p]
           batch == scoring!Chunk(r)
           new == RunOf("waiting", r.rows, r.offset, batch.payload, batch.index, r.scored,
                        r.asked \cup scoring!ToSet(batch.payload))
<1>1. ScoreRun(r, scoring_meant) /\ IsRun(r)
  BY DEF ScoresInv, ScoreRun
<1>2. /\ r.pc = "asking" /\ r.offset < Len(r.rows)
      /\ scoring_run' = [scoring_run EXCEPT ![p] = new]
      /\ UNCHANGED <<scoring_ai_priority, scoring_meant>>
  <2>1. [r EXCEPT !.pc = "waiting", !.payload = batch.payload, !.index = batch.index,
                  !.asked = r.asked \cup scoring!ToSet(batch.payload)] = new
    <3>1. Whole(r)
      BY <1>1 DEF IsRun
    <3>2. new = Asking(r, batch.payload, batch.index, r.asked \cup scoring!ToSet(batch.payload))
      BY <3>1, RunAsked
    <3> QED
      BY <3>2 DEF Asking
  <2> HIDE DEF new
  <2> QED
    BY <2>1 DEF scoring!Ask
<1>3. batch.index = batch.payload /\ r.asked \cup scoring!ToSet(batch.payload) = Upto(r.rows, r.offset + BATCH)
  BY <1>1, <1>2, NextChunk DEF ScoreRun
<1>4. /\ new.pc = "waiting" /\ new.rows = r.rows /\ new.offset = r.offset /\ new.payload = batch.payload
      /\ new.index = batch.index /\ new.scored = r.scored /\ Whole(new)
      /\ new.asked = r.asked \cup scoring!ToSet(batch.payload)
  <2> HIDE DEF new
  <2> QED
    BY RunMade DEF new
<1> HIDE DEF new
<1>5. IsRun(new)
  BY <1>1, <1>4 DEF IsRun
<1>6. ScoreRun(new, scoring_meant)
  BY <1>1, <1>3, <1>4, <1>5 DEF ScoreRun
<1> QED
  BY <1>2, <1>6 DEF ScoresInv

\* Every score read from an answer is one it gives at a number of the index.
LEMMA Parsed ==
  ASSUME NEW answer \in ScoreAnswers, NEW index, NEW s \in ScoredStories, scoring!parse(answer, index)[s] # None
  PROVE  \E i \in DOMAIN answer : /\ answer[i].id \in DOMAIN index /\ index[answer[i].id] = s
                                  /\ scoring!parse(answer, index)[s] = answer[i].score
<1> DEFINE I == {i \in DOMAIN answer : LET line == answer[i] IN
                   line.id \in DOMAIN index /\ line.score \in 1..5 /\ index[line.id] = s}
           lines == scoring!Pick(answer, I)
<1>1. scoring!parse(answer, index)[s] = IF lines = <<>> THEN None ELSE scoring!Last(lines).score
  BY DEF scoring!parse
<1>2. \A i \in I : i \in DOMAIN answer /\ answer[i].id \in DOMAIN index /\ index[answer[i].id] = s
  OBVIOUS
<1>3. /\ lines \in Seq([id : Int, score : Int])
      /\ \A k \in DOMAIN lines : \E i \in I : lines[k] = answer[i]
  <2>1. answer \in Seq([id : Int, score : Int]) /\ I \in SUBSET DOMAIN answer
    BY ScoringAssumption
  <2> HIDE DEF I
  <2> QED
    BY <2>1, PickedList
<1> HIDE DEF I, lines
<1>4. lines # <<>> /\ Len(lines) \in DOMAIN lines
  BY <1>1, <1>3
<1>5. PICK i \in I : lines[Len(lines)] = answer[i]
  BY <1>3, <1>4
<1> QED
  BY <1>1, <1>2, <1>4, <1>5 DEF scoring!Last

LEMMA AnswerScores ==
  ASSUME ScoresInv, NEW p \in ScoreRuns, NEW answer \in ScoreAnswers, scoring!Answer(p, answer)
  PROVE  ScoresInv'
<1> DEFINE r == scoring_run[p]
           more == scoring!parse(answer, r.index)
           scored == scoring!Update(r.scored, more)
           new == RunOf("asking", r.rows, r.offset + BATCH, r.payload, r.index, scored, r.asked)
<1>1. ScoreRun(r, scoring_meant) /\ IsRun(r)
  BY DEF ScoresInv, ScoreRun
<1>2. /\ r.pc = "waiting"
      /\ scoring_meant' = scoring_meant \cup {<<r.payload[line.id], line.score>> :
                line \in {l \in scoring!ToSet(answer) : l.id \in DOMAIN r.payload}}
      /\ scoring_run' = [scoring_run EXCEPT ![p] = new]
      /\ scoring_ai_priority' = scoring_ai_priority
  <2>1. [r EXCEPT !.pc = "asking", !.offset = r.offset + BATCH, !.scored = scored] = new
    BY <1>1, RunScored DEF IsRun
  <2> HIDE DEF new, scored
  <2> QED
    BY <2>1 DEF scoring!Answer, scored
<1>3. r.payload = r.index /\ r.asked = Upto(r.rows, r.offset + BATCH)
  BY <1>1, <1>2 DEF ScoreRun
<1>4. /\ new.pc = "asking" /\ new.rows = r.rows /\ new.offset = r.offset + BATCH /\ new.scored = scored
      /\ new.asked = r.asked /\ Whole(new)
  <2> HIDE DEF new
  <2> QED
    BY RunMade DEF new
<1>5. scoring_meant \subseteq scoring_meant'
  BY <1>2
<1>6. ASSUME NEW s \in ScoredStories, scored[s] # None PROVE <<s, scored[s]>> \in scoring_meant'
  <2>1. CASE more[s] = None
    <3>1. scored[s] = r.scored[s]
      BY <2>1 DEF scoring!Update
    <3> QED
      BY <1>1, <1>5, <1>6, <3>1 DEF ScoreRun
  <2>2. CASE more[s] # None
    <3>1. scored[s] = more[s]
      BY <2>2 DEF scoring!Update
    <3>2. PICK i \in DOMAIN answer : /\ answer[i].id \in DOMAIN r.index /\ r.index[answer[i].id] = s
                                     /\ more[s] = answer[i].score
      BY <2>2, Parsed
    <3>3. answer[i] \in scoring!ToSet(answer)
      BY DEF scoring!ToSet
    <3> QED
      BY <1>2, <1>3, <3>1, <3>2, <3>3
  <2> QED
    BY <2>1, <2>2
<1> HIDE DEF new, scored
<1>7. ScoreRun(new, scoring_meant')
  <2>1. IsRun(new)
    BY <1>1, <1>4, ScoringAssumption DEF IsRun
  <2> QED
    BY <1>3, <1>4, <1>6, <2>1 DEF ScoreRun
<1>8. \A q \in ScoreRuns : ScoreRun(scoring_run[q], scoring_meant')
  BY <1>5 DEF ScoresInv, ScoreRun
<1> QED
  BY <1>2, <1>5, <1>7, <1>8 DEF ScoresInv

\* A call that fails, a run that ends.
LEMMA RunMovesOn ==
  ASSUME ScoresInv, NEW p \in ScoreRuns, scoring!Fail(p) \/ scoring!Write(p) \/ scoring!Killed(p)
  PROVE  ScoresInv'
<1> DEFINE r == scoring_run[p]
<1>1. ScoreRun(r, scoring_meant) /\ IsRun(r)
  BY DEF ScoresInv, ScoreRun
<1>2. ScoreRun(scoring!Idle, scoring_meant)
  BY DEF scoring!Idle, ScoreRun, IsRun, Whole, RunOf
<1>3. CASE scoring!Fail(p)
  <2> DEFINE new == RunOf("asking", r.rows, r.offset + BATCH, r.payload, r.index, r.scored, r.asked)
  <2>1. /\ r.pc = "waiting" /\ scoring_run' = [scoring_run EXCEPT ![p] = new]
        /\ UNCHANGED <<scoring_ai_priority, scoring_meant>>
    <3>1. [r EXCEPT !.pc = "asking", !.offset = r.offset + BATCH] = new
      BY <1>1, RunMoved DEF IsRun
    <3> HIDE DEF new
    <3> QED
      BY <1>3, <3>1 DEF scoring!Fail
  <2>2. /\ new.pc = "asking" /\ new.rows = r.rows /\ new.offset = r.offset + BATCH /\ new.scored = r.scored
        /\ new.asked = r.asked /\ Whole(new)
    <3> HIDE DEF new
    <3> QED
      BY RunMade DEF new
  <2> HIDE DEF new
  <2>3. IsRun(new)
    BY <1>1, <2>2, ScoringAssumption DEF IsRun
  <2>4. ScoreRun(new, scoring_meant)
    BY <1>1, <2>1, <2>2, <2>3 DEF ScoreRun
  <2> QED
    BY <2>1, <2>4 DEF ScoresInv
<1>4. CASE scoring!Killed(p)
  <2>1. scoring_run' = [scoring_run EXCEPT ![p] = scoring!Idle] /\ UNCHANGED <<scoring_ai_priority, scoring_meant>>
    BY <1>4 DEF scoring!Killed
  <2> QED
    BY <1>2, <2>1 DEF ScoresInv
<1>5. CASE scoring!Write(p)
  <2>1. /\ scoring_run' = [scoring_run EXCEPT ![p] = scoring!Idle] /\ scoring_meant' = scoring_meant
        /\ scoring_ai_priority' = scoring!Update(scoring_ai_priority, r.scored)
    BY <1>5 DEF scoring!Write
  <2>2. \A s \in ScoredStories : scoring_ai_priority'[s] # None => <<s, scoring_ai_priority'[s]>> \in scoring_meant
    BY <1>1, <2>1 DEF scoring!Update, ScoresInv, ScoreRun
  <2> QED
    BY <1>2, <2>1, <2>2 DEF ScoresInv
<1> QED
  BY <1>3, <1>4, <1>5

-----------------------------------------------------------------------------
\* A story is labelled by the rules of its day, and by one name at least.
LEMMA LabelsKeep ==
  ASSUME LabelsInv, [scoring!Next]_scoringVars
  PROVE  LabelsInv'
<1>1. CASE UNCHANGED <<scoring_stored, scoring_release, scoring_categories>>
  BY <1>1 DEF LabelsInv
<1>2. ASSUME NEW s \in ScoredStories, scoring!Insert(s) PROVE LabelsInv'
  <2> DEFINE matched == scoring!match_all(ScoredWords[s])
             names == IF matched = <<>> THEN <<GENERIC_CATEGORY>> ELSE matched
  <2>1. /\ scoring_stored' = scoring_stored \cup {s} /\ scoring_release' = scoring_release
        /\ scoring_categories' = [scoring_categories EXCEPT ![s] = names]
    BY <1>2 DEF scoring!Insert
  <2>2. matched \in Seq(Names) /\ GENERIC_CATEGORY \in Names
    BY RulesNamed, ScoringAssumption DEF LabelsInv, Names
  <2> HIDE DEF matched
  <2>3. names \in Seq(Names) /\ names # <<>>
    BY <2>2
  <2> HIDE DEF names
  <2> QED
    BY <2>1, <2>3 DEF LabelsInv
<1>3. CASE scoring!Deploy
  BY <1>3, ScoringAssumption DEF scoring!Deploy, LabelsInv
<1>4. CASE scoring!Hour \/ scoring!Switch
  BY <1>1, <1>4 DEF scoring!Hour, scoring!Switch, scoring!labels
<1>5. ASSUME NEW p \in ScoreRuns, scoring!Begin(p) \/ scoring!Ask(p) \/ scoring!Fail(p) \/ scoring!Write(p)
                                  \/ scoring!Killed(p) \/ \E answer \in ScoreAnswers : scoring!Answer(p, answer)
      PROVE  LabelsInv'
  BY <1>1, <1>5 DEF scoring!Begin, scoring!Ask, scoring!Fail, scoring!Write, scoring!Killed, scoring!Answer,
     scoring!labels
<1>6. CASE UNCHANGED scoringVars
  BY <1>1, <1>6 DEF scoringVars
<1> QED
  BY <1>2, <1>3, <1>4, <1>5, <1>6 DEF scoring!Next

LEMMA ScoresKeep ==
  ASSUME ScoresInv, LabelsInv, [scoring!Next]_scoringVars
  PROVE  ScoresInv'
<1>1. CASE UNCHANGED <<scoring_run, scoring_ai_priority, scoring_meant>>
  BY <1>1 DEF ScoresInv
<1>2. CASE scoring!Deploy \/ scoring!Hour \/ scoring!Switch \/ \E s \in ScoredStories : scoring!Insert(s)
  BY <1>1, <1>2 DEF scoring!Deploy, scoring!Hour, scoring!Switch, scoring!Insert
<1>3. ASSUME NEW p \in ScoreRuns, scoring!Begin(p) \/ scoring!Ask(p) \/ scoring!Fail(p) \/ scoring!Write(p)
                                  \/ scoring!Killed(p) \/ \E answer \in ScoreAnswers : scoring!Answer(p, answer)
      PROVE  ScoresInv'
  BY <1>3, BeginScores, AskScores, AnswerScores, RunMovesOn DEF LabelsInv
<1>4. CASE UNCHANGED scoringVars
  BY <1>1, <1>4 DEF scoringVars
<1> QED
  BY <1>2, <1>3, <1>4 DEF scoring!Next

LEMMA ScoresAreMeant == ScoresInv => scoring!ScoresMeant
<1> SUFFICES ASSUME ScoresInv PROVE scoring!ScoresMeant
  OBVIOUS
<1>1. ASSUME NEW p \in ScoreRuns, scoring_run[p].pc = "asking"
      PROVE  LET r == scoring_run[p] IN
             /\ r.offset >= Len(r.rows) => r.asked = scoring!ToSet(r.rows)
             /\ Cardinality(r.asked) >= Len(r.rows) \/ r.offset = Cardinality(r.asked)
  <2> DEFINE r == scoring_run[p]
  <2>1. /\ r.rows \in Seq(ScoredStories) /\ r.offset \in Nat /\ r.asked = Upto(r.rows, r.offset)
        /\ \A i, j \in DOMAIN r.rows : r.rows[i] = r.rows[j] => i = j
    BY <1>1 DEF ScoresInv, ScoreRun, IsRun
  <2>2. scoring!ToSet(r.rows) = {r.rows[i] : i \in DOMAIN r.rows}
    BY DEF scoring!ToSet
  <2> HIDE DEF r
  <2>3. /\ r.offset >= Len(r.rows) => /\ Upto(r.rows, r.offset) = {r.rows[i] : i \in DOMAIN r.rows}
                                      /\ Cardinality(Upto(r.rows, r.offset)) = Len(r.rows)
        /\ r.offset < Len(r.rows) => Cardinality(Upto(r.rows, r.offset)) = r.offset
    BY <2>1, UptoCounts
  <2>4. Len(r.rows) \in Nat
    BY <2>1
  <2>5. Cardinality(r.asked) >= Len(r.rows) \/ r.offset = Cardinality(r.asked)
    BY <2>1, <2>3, <2>4
  <2> QED
    BY <2>1, <2>2, <2>3, <2>5 DEF r
<1> QED
  BY <1>1, ScoringCardinality DEF scoring!ScoresMeant, ScoresInv

LEMMA LabelsAreCurrent == LabelsInv => scoring!LabelsCurrent
<1> SUFFICES ASSUME LabelsInv, NEW s \in scoring_stored
             PROVE  LET names == scoring_categories[s]
                        read == scoring!split_categories(names)
                    IN  /\ read # <<>> /\ scoring!IsInjective(read)
                        /\ \A i \in DOMAIN names : LET name == names[i] IN
                             \/ name \in scoring!valid_names /\ scoring!Contains(read, name)
                             \/ name \notin scoring!valid_names /\ scoring!Contains(read, scoring!retire(name))
                        /\ \A i \in DOMAIN read :
                             read[i] \in scoring!valid_names
                             \/ \A k \in DOMAIN read[i] : <<read[i][k]>> \notin scoring!valid_names
                        /\ scoring!split_categories(read) = read
  BY DEF scoring!LabelsCurrent
<1> DEFINE names == scoring_categories[s]
           read == scoring!split_categories(names)
<1>1. names \in Seq(Names) /\ names # <<>>
  BY DEF LabelsInv
<1> HIDE DEF names
<1>2. /\ read \in Seq(Names) /\ read # <<>>
      /\ \A i, j \in DOMAIN read : read[i] = read[j] => i = j
      /\ \A i \in DOMAIN names : \E k \in DOMAIN read : read[k] = scoring!retire(names[i])
      /\ \A k \in DOMAIN read : \E i \in DOMAIN names : read[k] = scoring!retire(names[i])
      /\ scoring!split_categories(read) = read
  BY <1>1, SplitFacts
<1> HIDE DEF read
<1>3. scoring!IsInjective(read)
  BY <1>2 DEF scoring!IsInjective
<1>4. DOMAIN read = 1..Len(read) /\ \A i \in DOMAIN names : names[i] \in Names
  BY <1>1, <1>2
<1>5. ASSUME NEW i \in DOMAIN names
      PROVE  /\ scoring!Contains(read, scoring!retire(names[i]))
             /\ names[i] \in scoring!valid_names => scoring!retire(names[i]) = names[i]
  BY <1>2, <1>4, Retired DEF scoring!Contains
<1>6. ASSUME NEW i \in DOMAIN read
      PROVE  read[i] \in scoring!valid_names \/ \A k \in DOMAIN read[i] : <<read[i][k]>> \notin scoring!valid_names
  <2>1. PICK j \in DOMAIN names : read[i] = scoring!retire(names[j])
    BY <1>2
  <2>2. names[j] \in Names
    BY <1>4
  <2> QED
    BY <2>1, <2>2, Retired
<1> QED
  BY <1>2, <1>3, <1>5, <1>6 DEF names, read

LEMMA ScoringLane == [LaneNext]_allVars => [scoring!Next]_scoringVars
<1> SUFFICES ASSUME [LaneNext]_allVars PROVE scoring!Next \/ UNCHANGED scoringVars
  OBVIOUS
<1>1. CASE LaneNext
  BY <1>1 DEF LaneNext, RulesStep, CalendarStep, SessionsStep, DeskStep, LearnerStep, ArchiveStep,
     PublicjsonStep, CutoverStep, PublishingStep, ScoringStep, scoring!Next
<1>2. CASE UNCHANGED allVars
  BY <1>2 DEF allVars
<1> QED
  BY <1>1, <1>2

(* ai_score.py and category_rules.py: a stored score is one the model gave for that story, a run about to  *)
(* write has asked for each of its stories once, and every stored label reads as categories of today.      *)
THEOREM ScoresAlwaysStand == LaneSpec => []ScoresStand
<1>1. scoring!Init => ScoresInv /\ LabelsInv
  <2> SUFFICES ASSUME scoring!Init PROVE ScoresInv /\ LabelsInv
    OBVIOUS
  <2>1. ScoreRun(scoring!Idle, scoring_meant)
    BY DEF scoring!Idle, ScoreRun, IsRun, Whole, RunOf
  <2>2. ScoresInv
    BY <2>1 DEF scoring!Init, ScoresInv
  <2>3. LabelsInv
    BY ScoringAssumption DEF scoring!Init, LabelsInv
  <2> QED
    BY <2>2, <2>3
<1>2. ScoresInv /\ LabelsInv /\ [scoring!Next]_scoringVars => (ScoresInv /\ LabelsInv)'
  BY ScoresKeep, LabelsKeep
<1>3. ScoresInv /\ LabelsInv => ScoresStand
  BY ScoresAreMeant, LabelsAreCurrent DEF ScoresStand
<1>4. LaneInit => scoring!Init
  BY DEF LaneInit
<1> QED
  BY <1>1, <1>2, <1>3, <1>4, ScoringLane, PTL DEF LaneSpec


-----------------------------------------------------------------------------
(* The public list (PublicJson): a listed story stays listed, itself or by another copy of it. *)

LEMMA PublicCardinality == \A S : publicjson!Cardinality(S) = Cardinality(S)
BY DEF publicjson!Cardinality, Cardinality

\* A row of the list; what the file carries beside its link is where the link leads, or nothing.
PublicRow(r) ==
  /\ r.link \in PublicLinks
  /\ r.original_link \in {PublicLeads(r.link), None}
  /\ r = [link |-> r.link, ko |-> r.ko, original_link |-> r.original_link]
OncePerLink(S) == (\A r \in S : PublicRow(r)) /\ (\A a, b \in S : a.link = b.link => a = b)

\* There are no more rows than links.
LEMMA FewRows ==
  ASSUME NEW S, OncePerLink(S)
  PROVE  IsFiniteSet(S)
<1> DEFINE f == [r \in S |-> r.link]
<1>1. \A r \in S : f[r] = r.link /\ r.link \in PublicLinks
  BY DEF OncePerLink, PublicRow
<1>2. f \in [S -> PublicLinks]
  BY <1>1
<1> HIDE DEF f
<1>3. \A a, b \in S : f[a] = f[b] => a = b
  BY <1>1 DEF OncePerLink
<1>4. f \in Injection(S, PublicLinks)
  BY <1>2, <1>3 DEF Injection, IsInjective
<1> QED
  BY <1>4, FS_Injection, PublicAssumption

\* The newest row first, and every row.
LEMMA NewestFirstLists ==
  ASSUME NEW S, OncePerLink(S)
  PROVE  /\ publicjson!NewestFirst(S) \in Seq(S)
         /\ \A r \in S : \E k \in 1..Len(publicjson!NewestFirst(S)) : publicjson!NewestFirst(S)[k] = r
<1> DEFINE n == Cardinality(S)
           below == [r \in S |-> {q \in S : publicjson!Newer(q, r)}]
           Nth(k) == CHOOSE r \in S : publicjson!Cardinality({q \in S : publicjson!Newer(q, r)}) = k - 1
           f == [k \in 1..n |-> Nth(k)]
<1>0. IsFiniteSet(S)
  BY FewRows
<1>1. /\ below \in [S -> SUBSET S]
      /\ \A a \in S : a \notin below[a]
      /\ \A a, b \in S : a # b => a \in below[b] \/ b \in below[a]
      /\ \A a, b \in S : a \in below[b] => below[a] \subseteq below[b]
  <2>1. \A a, b \in S : b \in below[a] <=> publicjson!Newer(b, a)
    OBVIOUS
  <2>2. below \in [S -> SUBSET S]
    OBVIOUS
  <2> HIDE DEF below
  <2>3. \A a \in S : a.link \in Nat /\ PublicAt(a.link) \in Nat
    BY PublicAssumption DEF OncePerLink, PublicRow
  <2>4. \A a, b \in S : a # b => a.link # b.link
    BY DEF OncePerLink
  <2>5. \A a, b \in S : b \in below[a] <=> PublicAt(b.link) > PublicAt(a.link)
                                          \/ (PublicAt(b.link) = PublicAt(a.link) /\ b.link > a.link)
    BY <2>1 DEF publicjson!Newer
  <2>6. \A a, b \in S : a \in below[b] => below[a] \subseteq below[b]
    <3> SUFFICES ASSUME NEW a \in S, NEW b \in S, a \in below[b], NEW c \in below[a] PROVE c \in below[b]
      OBVIOUS
    <3>1. c \in S
      BY <2>2
    <3> QED
      BY <2>3, <2>5, <3>1
  <2>7. \A a \in S : a \notin below[a]
    BY <2>3, <2>5
  <2>8. \A a, b \in S : a # b => a \in below[b] \/ b \in below[a]
    BY <2>3, <2>4, <2>5
  <2> QED
    BY <2>2, <2>6, <2>7, <2>8
<1>2. \A k \in 1..n : \E i \in S : Cardinality(below[i]) = k - 1
  <2> HIDE DEF below, f, Nth
  <2> QED
    BY <1>0, <1>1, Ranks
<1>3. ASSUME NEW k \in 1..n PROVE f[k] \in S /\ Cardinality(below[f[k]]) = k - 1
  <2> DEFINE P(r) == publicjson!Cardinality({q \in S : publicjson!Newer(q, r)}) = k - 1
  <2>1. \E i \in S : P(i)
    BY <1>2, PublicCardinality
  <2>2. f[k] = CHOOSE r \in S : P(r)
    OBVIOUS
  <2>3. P(f[k]) /\ f[k] \in S => Cardinality(below[f[k]]) = k - 1
    BY PublicCardinality
  <2> HIDE DEF P, Nth, f, below
  <2>4. f[k] \in S /\ P(f[k])
    BY <2>1, <2>2
  <2> QED
    BY <2>3, <2>4
<1>4. f = [k \in 1..n |-> f[k]]
  <2> HIDE DEF Nth
  <2> QED
    OBVIOUS
<1>5. publicjson!NewestFirst(S) = f
  BY PublicCardinality DEF publicjson!NewestFirst
<1> HIDE DEF f, Nth, below
<1>6. /\ n \in Nat /\ f \in [1..n -> S]
      /\ \A i, j \in 1..n : i < j <=> f[i] \in below[f[j]]
      /\ \A i, j \in 1..n : f[i] = f[j] => i = j
      /\ \A a \in S : \E k \in 1..n : f[k] = a
  BY <1>0, <1>1, <1>3, <1>4, InOrder
<1> QED
  BY <1>5, <1>6

\* The walk over the rows, as one table of what is kept of the first n.
Walk(s, walk) ==
  walk = [n \in 0..Len(s) |->
            IF n = 0 THEN <<>>
            ELSE IF publicjson!Folded(walk[n - 1], s[n]) THEN walk[n - 1] ELSE Append(walk[n - 1], s[n])]

\* What holds for the first n rows of a walk, holds for all.
LEMMA UptoEnd ==
  ASSUME NEW m \in Nat, NEW T \in SUBSET Nat, 0 \in T, \A n \in 0..(m - 1) : n \in T => n + 1 \in T
  PROVE  \A n \in 0..m : n \in T
<1> SUFFICES ASSUME NEW k \in 0..m, k \notin T PROVE FALSE
  OBVIOUS
<1> DEFINE Off == {n \in 0..m : n \notin T}
<1>1. Off # {} /\ Off \subseteq Nat
  OBVIOUS
<1>2. PICK n \in Off : \A i \in Off : n <= i
  <2> HIDE DEF Off
  <2> QED
    BY <1>1, Least
<1>3. n \in 0..m /\ n \notin T /\ n # 0
  BY <1>2
<1>4. n - 1 \in 0..(m - 1) /\ n - 1 \in 0..m /\ ~(n <= n - 1) /\ (n - 1) + 1 = n
  BY <1>3
<1>5. n - 1 \in T
  <2>1. n - 1 \notin Off
    <3> HIDE DEF Off
    <3> QED
      BY <1>2, <1>4
  <2> QED
    BY <2>1, <1>4
<1> QED
  BY <1>3, <1>4, <1>5

LEMMA AWalk ==
  ASSUME NEW S, NEW s \in Seq(S)
  PROVE  \E walk : Walk(s, walk)
<1> DEFINE Next1(g, n) == IF publicjson!Folded(g[n - 1], s[n]) THEN g[n - 1] ELSE Append(g[n - 1], s[n])
           Table(m, g) == g = [n \in 0..m |-> IF n = 0 THEN <<>> ELSE Next1(g, n)]
           T == {m \in Nat : \E g : Table(m, g)}
<1>1. Len(s) \in Nat
  BY LenProperties
<1>2. 0 \in T
  <2> DEFINE g == [n \in 0..0 |-> <<>>]
  <2>1. g = [n \in 0..0 |-> IF n = 0 THEN <<>> ELSE Next1(g, n)]
    <3> HIDE DEF Next1
    <3> QED
      OBVIOUS
  <2> HIDE DEF g, Next1
  <2> QED
    BY <2>1
<1>3. ASSUME NEW m \in Nat, m \in T PROVE m + 1 \in T
  <2>1. PICK g : Table(m, g)
    BY <1>3
  <2> DEFINE h == [n \in 0..(m + 1) |-> IF n = m + 1 THEN Next1(g, m + 1) ELSE g[n]]
  <2>2. /\ DOMAIN h = 0..(m + 1) /\ h = [n \in 0..(m + 1) |-> h[n]]
        /\ \A n \in 0..m : h[n] = g[n]
        /\ h[m + 1] = Next1(g, m + 1)
    <3> HIDE DEF Next1
    <3> QED
      OBVIOUS
  <2>3. \A n \in 0..m : g[n] = IF n = 0 THEN <<>> ELSE Next1(g, n)
    <3> HIDE DEF Next1
    <3> QED
      BY <2>1
  <2> HIDE DEF h
  <2>4. \A n \in 1..(m + 1) : Next1(h, n) = Next1(g, n)
    <3> SUFFICES ASSUME NEW n \in 1..(m + 1) PROVE Next1(h, n) = Next1(g, n)
      OBVIOUS
    <3>1. n - 1 \in 0..m
      OBVIOUS
    <3>2. h[n - 1] = g[n - 1]
      BY <2>2, <3>1
    <3> QED
      BY <3>2
  <2> HIDE DEF Next1
  <2>5. \A n \in 0..(m + 1) : h[n] = IF n = 0 THEN <<>> ELSE Next1(h, n)
    <3> SUFFICES ASSUME NEW n \in 0..(m + 1) PROVE h[n] = IF n = 0 THEN <<>> ELSE Next1(h, n)
      OBVIOUS
    <3>1. CASE n = m + 1
      BY <2>2, <2>4, <3>1
    <3>2. CASE n # m + 1
      <4>1. n \in 0..m
        BY <3>2
      <4>2. n # 0 => n \in 1..(m + 1)
        OBVIOUS
      <4> QED
        BY <2>2, <2>3, <2>4, <4>1, <4>2
    <3> QED
      BY <3>1, <3>2
  <2>6. Table(m + 1, h)
    BY <2>2, <2>5
  <2> HIDE DEF Table
  <2> QED
    BY <2>6
<1>4. Len(s) \in T
  <2> HIDE DEF T
  <2>1. T \subseteq Nat
    BY DEF T
  <2>2. \A n \in 0..Len(s) : n \in T
    BY <1>1, <1>2, <1>3, <2>1, UptoEnd
  <2> QED
    BY <1>1, <2>2
<1>5. PICK g : Table(Len(s), g)
  BY <1>4
<1> QED
  BY <1>5 DEF Walk

LEMMA DedupeWalks ==
  ASSUME NEW S, NEW s \in Seq(S)
  PROVE  \E walk : Walk(s, walk) /\ publicjson!dedupe_rows(s) = walk[Len(s)]
<1> DEFINE walk == CHOOSE k : Walk(s, k)
<1>1. publicjson!dedupe_rows(s) = walk[Len(s)]
  BY DEF publicjson!dedupe_rows, Walk
<1>2. Walk(s, walk)
  BY AWalk
<1> QED
  BY <1>1, <1>2

\* No link twice, and every row itself or another copy of its story.
Kept(out, s, n) ==
  /\ \A i, j \in 1..Len(out) : out[i].link = out[j].link => i = j
  /\ \A i \in 1..n : \E k \in 1..Len(out) : publicjson!SameStory(s[i], out[k])

LEMMA DedupeKeeps ==
  ASSUME NEW S, NEW s \in Seq(S)
  PROVE  publicjson!dedupe_rows(s) \in Seq(S) /\ Kept(publicjson!dedupe_rows(s), s, Len(s))
<1>1. PICK walk : Walk(s, walk) /\ publicjson!dedupe_rows(s) = walk[Len(s)]
  BY DedupeWalks
<1>2. Len(s) \in Nat /\ \A i \in 1..Len(s) : s[i] \in S
  BY LenProperties, ElementOfSeq
<1> DEFINE m == Len(s)
           T == {n \in Nat : n \in 0..m => walk[n] \in Seq(S) /\ Kept(walk[n], s, n)}
<1>3. /\ walk[0] = <<>>
      /\ \A n \in 0..(m - 1) :
           walk[n + 1] = IF publicjson!Folded(walk[n], s[n + 1]) THEN walk[n] ELSE Append(walk[n], s[n + 1])
  <2>1. \A n \in 0..m : walk[n] = IF n = 0 THEN <<>>
                                  ELSE IF publicjson!Folded(walk[n - 1], s[n]) THEN walk[n - 1]
                                       ELSE Append(walk[n - 1], s[n])
    BY <1>1 DEF Walk
  <2>2. walk[0] = <<>>
    BY <1>2, <2>1
  <2>3. ASSUME NEW n \in 0..(m - 1)
        PROVE  walk[n + 1] = IF publicjson!Folded(walk[n], s[n + 1]) THEN walk[n]
                             ELSE Append(walk[n], s[n + 1])
    <3>1. n + 1 \in 0..m /\ n + 1 # 0 /\ (n + 1) - 1 = n
      BY <1>2
    <3> QED
      BY <2>1, <3>1
  <2> QED
    BY <2>2, <2>3
<1>4. 0 \in T
  <2>1. Kept(<<>>, s, 0)
    BY DEF Kept
  <2>2. <<>> \in Seq(S)
    OBVIOUS
  <2> QED
    BY <1>3, <2>1, <2>2
<1>5. ASSUME NEW n \in 0..(m - 1), n \in T PROVE n + 1 \in T
  <2> DEFINE out == walk[n]
             row == s[n + 1]
  <2>1. n \in 0..m /\ n \in Nat /\ n + 1 \in Nat /\ n + 1 \in 1..m
    BY <1>2
  <2>2. out \in Seq(S) /\ Kept(out, s, n) /\ row \in S
    BY <1>2, <1>5, <2>1
  <2>3. \A i \in 1..(n + 1) : i \in 1..n \/ i = n + 1
    BY <2>1
  <2>4. CASE publicjson!Folded(out, row)
    <3>1. walk[n + 1] = out
      BY <1>3, <2>4
    <3>2. \E k \in 1..Len(out) : publicjson!SameStory(row, out[k])
      BY <2>4 DEF publicjson!Folded, publicjson!SameStory
    <3>3. Kept(out, s, n + 1)
      BY <2>2, <2>3, <3>2 DEF Kept
    <3> QED
      BY <2>1, <2>2, <3>1, <3>3
  <2>5. CASE ~publicjson!Folded(out, row)
    <3> DEFINE o2 == Append(out, row)
    <3>1. walk[n + 1] = o2
      BY <1>3, <2>5
    <3>2. /\ o2 \in Seq(S) /\ Len(o2) = Len(out) + 1 /\ Len(out) \in Nat
          /\ \A i \in 1..Len(out) : o2[i] = out[i]
          /\ o2[Len(out) + 1] = row
      <4> HIDE <2>5
      <4> QED
        BY <2>2, AppendProperties, LenProperties
    <3> HIDE DEF o2
    <3>3. \A i \in 1..Len(out) : out[i].link # row.link
      BY <2>5 DEF publicjson!Folded
    <3>4. \A i \in 1..Len(o2) : i \in 1..Len(out) \/ i = Len(out) + 1
      BY <3>2
    <3>5. \A i, j \in 1..Len(o2) : o2[i].link = o2[j].link => i = j
      BY <2>2, <3>2, <3>3, <3>4 DEF Kept
    <3>6. publicjson!SameStory(row, o2[Len(out) + 1])
      BY <3>2 DEF publicjson!SameStory
    <3>7. ASSUME NEW i \in 1..(n + 1) PROVE \E k \in 1..Len(o2) : publicjson!SameStory(s[i], o2[k])
      <4>1. CASE i \in 1..n
        <5>1. PICK k \in 1..Len(out) : publicjson!SameStory(s[i], out[k])
          BY <2>2, <4>1 DEF Kept
        <5>2. k \in 1..Len(o2) /\ o2[k] = out[k]
          BY <3>2
        <5> QED
          BY <5>1, <5>2
      <4>2. CASE i = n + 1
        <5>1. Len(out) + 1 \in 1..Len(o2)
          BY <3>2
        <5> QED
          BY <3>6, <4>2, <5>1
      <4> QED
        BY <2>3, <4>1, <4>2
    <3>8. Kept(o2, s, n + 1)
      BY <3>5, <3>7 DEF Kept
    <3> QED
      BY <2>1, <3>1, <3>2, <3>8
  <2> QED
    BY <2>4, <2>5
<1>6. m \in T
  <2>1. T \in SUBSET Nat
    OBVIOUS
  <2> HIDE DEF T
  <2>2. \A n \in 0..m : n \in T
    BY <1>2, <1>4, <1>5, <2>1, UptoEnd
  <2> QED
    BY <1>2, <2>2
<1> QED
  BY <1>1, <1>2, <1>6

LEMMA PublicRows ==
  ASSUME NEW r, PublicRow(r), NEW cache
  PROVE  PublicRow(publicjson!public_row(r, cache)) /\ publicjson!public_row(r, cache).link = r.link
<1> DEFINE p == publicjson!public_row(r, cache)
           url == IF r.link \in cache THEN PublicLeads(r.link)
                  ELSE IF PublicAggregated(r.link) /\ publicjson!valid_original(r.original_link)
                       THEN r.original_link ELSE None
<1>1. url \in {PublicLeads(r.link), None}
  BY DEF PublicRow
<1>2. p = [r EXCEPT !.original_link = url]
  BY DEF publicjson!public_row
<1> HIDE DEF p, url
<1>3. p = [link |-> r.link, ko |-> r.ko, original_link |-> url]
  BY <1>2 DEF PublicRow
<1>4. p.link = r.link /\ p.ko = r.ko /\ p.original_link = url
  BY <1>3
<1> QED
  BY <1>1, <1>3, <1>4 DEF PublicRow, p

\* A file of rows, each link once.
GoodFile(f) ==
  /\ DOMAIN f = 1..Len(f)
  /\ \A i \in 1..Len(f) : PublicRow(f[i])
  /\ \A i, j \in 1..Len(f) : f[i].link = f[j].link => i = j

LEMMA FileOncePerLink ==
  ASSUME NEW f, GoodFile(f)
  PROVE  OncePerLink(publicjson!InFile(f)) /\ \A i \in 1..Len(f) : f[i] \in publicjson!InFile(f)
BY DEF GoodFile, OncePerLink, publicjson!InFile

LEMMA PublishedRows ==
  ASSUME NEW S, NEW rows \in Seq(S), \A r \in S : PublicRow(r), NEW cache,
         \A i, j \in 1..Len(rows) : rows[i].link = rows[j].link => i = j
  PROVE  /\ GoodFile(publicjson!Published(rows, cache))
         /\ Len(publicjson!Published(rows, cache)) = Len(rows)
         /\ \A i \in 1..Len(rows) : publicjson!Published(rows, cache)[i].link = rows[i].link
<1> DEFINE p == publicjson!Published(rows, cache)
           n == Len(rows)
<1>1. n \in Nat /\ \A i \in 1..n : PublicRow(rows[i])
  BY LenProperties, ElementOfSeq
<1>2. p = [i \in 1..n |-> publicjson!public_row(rows[i], cache)]
  BY DEF publicjson!Published
<1> HIDE DEF p
<1>3. DOMAIN p = 1..n /\ Len(p) = n
  BY <1>1, <1>2
<1>4. \A i \in 1..n : PublicRow(p[i]) /\ p[i].link = rows[i].link
  BY <1>1, <1>2, PublicRows
<1> QED
  BY <1>3, <1>4 DEF GoodFile, p

LEMMA TruncatedRows ==
  ASSUME NEW S, NEW D \in Seq(S)
  PROVE  /\ publicjson!Truncated(D) \in Seq(S)
         /\ Len(publicjson!Truncated(D)) <= Len(D)
         /\ \A i \in 1..Len(publicjson!Truncated(D)) : publicjson!Truncated(D)[i] = D[i]
         /\ Len(publicjson!Truncated(D)) < MAX_PER_REGION => publicjson!Truncated(D) = D
<1> DEFINE out == publicjson!Truncated(D)
           m == IF Len(D) < MAX_PER_REGION THEN Len(D) ELSE MAX_PER_REGION
<1>1. Len(D) \in Nat /\ m \in Nat /\ m <= Len(D)
  BY LenProperties, PublicAssumption
<1>2. out = SubSeq(D, 1, m)
  BY DEF publicjson!Truncated
<1>3. \A i \in 1..m : D[i] \in S
  BY <1>1, ElementOfSeq
<1> HIDE DEF out, m
<1>4. out \in Seq(S) /\ Len(out) = m /\ \A i \in 1..m : out[i] = D[i]
  BY <1>1, <1>2, <1>3, SubSeqProperties
<1>5. m = Len(D) => out = D
  BY <1>2, SubSeqFull
<1>6. m < MAX_PER_REGION => m = Len(D)
  BY PublicAssumption DEF m
<1> QED
  BY <1>1, <1>4, <1>5, <1>6 DEF out

\* What a run makes of the file: of the rows still inside the window only the cap leaves one out.
Gathered(out, previous, fresh) ==
  /\ out \in Seq(previous \cup fresh)
  /\ \A i, j \in 1..Len(out) : out[i].link = out[j].link => i = j
  /\ \A r \in previous :
       PublicAt(r.link) + PublicKept >= publicjson_now /\ Len(out) < MAX_PER_REGION =>
         \E q, k : PublicRow(q) /\ q.link = r.link /\ k \in 1..Len(out) /\ publicjson!SameStory(q, out[k])

LEMMA ListMergeKeeps ==
  ASSUME NEW previous, OncePerLink(previous), NEW fresh, OncePerLink(fresh)
  PROVE  Gathered(publicjson!merge(previous, fresh), previous, fresh)
<1> DEFINE old == {row \in previous : \A f \in fresh : f.link # row.link}
           S == {row \in old \cup fresh : PublicAt(row.link) + PublicKept >= publicjson_now}
           s == publicjson!NewestFirst(S)
           D == publicjson!dedupe_rows(s)
           out == publicjson!merge(previous, fresh)
<1>1. OncePerLink(S) /\ S \subseteq previous \cup fresh
  BY DEF OncePerLink
<1>2. out = publicjson!Truncated(D)
  BY DEF publicjson!merge
<1>3. ASSUME NEW r \in previous, PublicAt(r.link) + PublicKept >= publicjson_now
      PROVE  \E q \in S : q.link = r.link
  <2>1. CASE r \in old
    BY <1>3, <2>1
  <2>2. CASE r \notin old
    <3>1. PICK q \in fresh : q.link = r.link
      BY <2>2
    <3> QED
      BY <1>3, <3>1
  <2> QED
    BY <2>1, <2>2
<1> HIDE DEF S
<1>4. s \in Seq(S) /\ \A r \in S : \E k \in 1..Len(s) : s[k] = r
  BY <1>1, NewestFirstLists
<1> HIDE DEF s
<1>5. D \in Seq(S) /\ Kept(D, s, Len(s))
  BY <1>4, DedupeKeeps
<1> HIDE DEF D, out
<1>6. /\ out \in Seq(S) /\ Len(out) <= Len(D)
      /\ \A i \in 1..Len(out) : out[i] = D[i]
      /\ Len(out) < MAX_PER_REGION => out = D
  BY <1>2, <1>5, TruncatedRows
<1>7. Len(out) \in Nat /\ Len(D) \in Nat
  BY <1>5, <1>6, LenProperties
<1>8. \A i, j \in 1..Len(out) : out[i].link = out[j].link => i = j
  <2>1. \A i \in 1..Len(out) : i \in 1..Len(D)
    BY <1>6, <1>7
  <2> QED
    BY <1>5, <1>6, <2>1 DEF Kept
<1>9. out \in Seq(previous \cup fresh)
  BY <1>1, <1>6
<1>10. ASSUME NEW r \in previous, PublicAt(r.link) + PublicKept >= publicjson_now, Len(out) < MAX_PER_REGION
       PROVE  \E q, k : PublicRow(q) /\ q.link = r.link /\ k \in 1..Len(out)
                        /\ publicjson!SameStory(q, out[k])
  <2>1. PICK q \in S : q.link = r.link
    BY <1>3, <1>10
  <2>2. PICK i \in 1..Len(s) : s[i] = q
    BY <1>4
  <2>3. PICK k \in 1..Len(D) : publicjson!SameStory(q, D[k])
    BY <1>5, <2>2 DEF Kept
  <2>4. PublicRow(q) /\ out = D
    BY <1>1, <1>6, <1>10 DEF OncePerLink
  <2> QED
    BY <2>1, <2>3, <2>4
<1> QED
  BY <1>8, <1>9, <1>10 DEF Gathered, out

LEMMA SameStoryStays ==
  ASSUME NEW a, PublicRow(a), NEW b, PublicRow(b), NEW q, PublicRow(q), NEW d, PublicRow(d),
         q.link = a.link, d.link = b.link, publicjson!SameStory(q, d)
  PROVE  publicjson!SameStory(a, b) \/ PublicLeads(a.link) = PublicLeads(b.link)
<1>1. CASE q.link = d.link
  BY <1>1 DEF publicjson!SameStory
<1>2. CASE publicjson!same_event(q, d)
  BY <1>2 DEF publicjson!SameStory, publicjson!same_event
<1>3. CASE publicjson!_identity_equal(q, d)
  <2>1. CASE PublicKey(q.link) = PublicKey(d.link)
    BY <2>1 DEF publicjson!SameStory, publicjson!_identity_equal
  <2>2. CASE publicjson!publisher_url(q) # None /\ publicjson!publisher_url(q) = publicjson!publisher_url(d)
    <3>1. publicjson!publisher_url(q) \in {PublicLeads(a.link), None}
      BY DEF publicjson!publisher_url, PublicRow
    <3>2. publicjson!publisher_url(d) \in {PublicLeads(b.link), None}
      BY DEF publicjson!publisher_url, PublicRow
    <3> QED
      BY <2>2, <3>1, <3>2
  <2> QED
    BY <1>3, <2>1, <2>2 DEF publicjson!_identity_equal
<1> QED
  BY <1>1, <1>2, <1>3 DEF publicjson!SameStory

\* What a run and an hour may do to the list.
NoHole ==
  \A i \in 1..Len(publicjson_file) :
    PublicAt(publicjson_file[i].link) + PublicKept >= publicjson_now /\ Len(publicjson_file') < MAX_PER_REGION =>
      \E k \in 1..Len(publicjson_file') :
        \/ publicjson!SameStory(publicjson_file[i], publicjson_file'[k])
        \/ PublicLeads(publicjson_file[i].link) = PublicLeads(publicjson_file'[k].link)

LEMMA RunLeavesNoHole ==
  ASSUME GoodFile(publicjson_file), publicjson!Run
  PROVE  GoodFile(publicjson_file') /\ NoHole
<1> DEFINE Found(got, ko) == {publicjson!RowOf(l, l \in ko, None) : l \in got}
           Sifted(got, ko) == publicjson!dedupe_rows(publicjson!NewestFirst(Found(got, ko)))
           previous == publicjson!InFile(publicjson_file)
           Fresh(rows, cache) == publicjson!InFile(publicjson!Published(rows, cache))
<1>1. PICK got, ko, cache :
        /\ got \in SUBSET PublicLinks
        /\ publicjson_file' = publicjson!Published(publicjson!merge(previous, Fresh(Sifted(got, ko), cache)), cache)
  BY DEF publicjson!Run
<1> DEFINE found == Found(got, ko)
           sorted == publicjson!NewestFirst(found)
           rows == Sifted(got, ko)
           fresh == Fresh(rows, cache)
           out == publicjson!merge(previous, fresh)
<1>2. OncePerLink(found)
  <2>1. got \in SUBSET PublicLinks
    BY <1>1
  <2> QED
    BY <2>1 DEF OncePerLink, PublicRow, publicjson!RowOf
<1> HIDE DEF found
<1>3. sorted \in Seq(found)
  BY <1>2, NewestFirstLists
<1> HIDE DEF sorted
<1>4. rows \in Seq(found) /\ \A i, j \in 1..Len(rows) : rows[i].link = rows[j].link => i = j
  <2>1. rows = publicjson!dedupe_rows(sorted)
    BY DEF sorted, found
  <2> QED
    BY <1>3, <2>1, DedupeKeeps DEF Kept
<1> HIDE DEF rows
<1>5. GoodFile(publicjson!Published(rows, cache))
  BY <1>2, <1>4, PublishedRows DEF OncePerLink
<1>6. OncePerLink(fresh)
  BY <1>5, FileOncePerLink
<1>7. OncePerLink(previous) /\ \A i \in 1..Len(publicjson_file) : publicjson_file[i] \in previous
  BY FileOncePerLink
<1>8. publicjson_file' = publicjson!Published(out, cache)
  BY <1>1 DEF rows
<1> HIDE DEF previous, fresh
<1>9. Gathered(out, previous, fresh)
  BY <1>6, <1>7, ListMergeKeeps
<1> HIDE DEF out
<1>10. \A r \in previous \cup fresh : PublicRow(r)
  BY <1>6, <1>7 DEF OncePerLink
<1>11. /\ out \in Seq(previous \cup fresh)
       /\ \A i, j \in 1..Len(out) : out[i].link = out[j].link => i = j
  BY <1>9 DEF Gathered
<1>12. /\ GoodFile(publicjson_file') /\ Len(publicjson_file') = Len(out)
       /\ \A i \in 1..Len(out) : publicjson_file'[i].link = out[i].link
  BY <1>8, <1>10, <1>11, PublishedRows
<1>13. NoHole
  <2> SUFFICES ASSUME NEW i \in 1..Len(publicjson_file),
                      PublicAt(publicjson_file[i].link) + PublicKept >= publicjson_now,
                      Len(publicjson_file') < MAX_PER_REGION
               PROVE  \E k \in 1..Len(publicjson_file') :
                        \/ publicjson!SameStory(publicjson_file[i], publicjson_file'[k])
                        \/ PublicLeads(publicjson_file[i].link) = PublicLeads(publicjson_file'[k].link)
    BY DEF NoHole
  <2>1. PICK q, k : PublicRow(q) /\ q.link = publicjson_file[i].link /\ k \in 1..Len(out)
                    /\ publicjson!SameStory(q, out[k])
    BY <1>7, <1>9, <1>12 DEF Gathered
  <2>2. k \in 1..Len(publicjson_file') /\ publicjson_file'[k].link = out[k].link
    BY <1>12, <2>1
  <2>3. PublicRow(publicjson_file[i]) /\ PublicRow(publicjson_file'[k])
    BY <1>12, <2>2 DEF GoodFile
  <2>4. PublicRow(out[k])
    BY <1>10, <1>11, <2>1, ElementOfSeq
  <2> QED
    BY <2>1, <2>2, <2>3, <2>4, SameStoryStays
<1> QED
  BY <1>12, <1>13

LEMMA PublicLane == [LaneNext]_allVars => [publicjson!Next]_publicjsonVars
<1> SUFFICES ASSUME [LaneNext]_allVars PROVE publicjson!Next \/ UNCHANGED publicjsonVars
  OBVIOUS
<1>1. CASE LaneNext
  BY <1>1 DEF LaneNext, RulesStep, CalendarStep, SessionsStep, DeskStep, LearnerStep, ArchiveStep,
     PublicjsonStep, CutoverStep, PublishingStep, ScoringStep, publicjson!Next
<1>2. CASE UNCHANGED allVars
  BY <1>2 DEF allVars
<1> QED
  BY <1>1, <1>2

(* collect_public.py and dedupe_rows: whatever the feeds give and Google answers, a listed story that is   *)
(* still inside the window stays listed, itself or by another copy of it, unless the list has reached its  *)
(* cap.                                                                                                    *)
THEOREM ListHasNoHoles == LaneSpec => NoHoles
<1>1. LaneInit => GoodFile(publicjson_file)
  BY DEF LaneInit, publicjson!Init, GoodFile
<1>2. GoodFile(publicjson_file) /\ [publicjson!Next]_publicjsonVars
        => GoodFile(publicjson_file)' /\ [NoHole]_(publicjson!vars)
  <2> SUFFICES ASSUME GoodFile(publicjson_file), [publicjson!Next]_publicjsonVars
               PROVE  GoodFile(publicjson_file') /\ (NoHole \/ UNCHANGED publicjson!vars)
    BY DEF GoodFile, PublicRow
  <2>1. CASE publicjson!Run
    BY <2>1, RunLeavesNoHole
  <2>2. CASE publicjson!Hour
    <3>1. publicjson_file' = publicjson_file
      BY <2>2 DEF publicjson!Hour
    <3>2. NoHole
      BY <3>1 DEF NoHole, publicjson!SameStory
    <3> QED
      BY <3>1, <3>2
  <2>3. CASE UNCHANGED publicjsonVars
    BY <2>3 DEF publicjsonVars, publicjson!vars, GoodFile
  <2> QED
    BY <2>1, <2>2, <2>3 DEF publicjson!Next
<1> QED
  BY <1>1, <1>2, PublicLane, PTL DEF LaneSpec, NoHoles, publicjson!NoHoles, NoHole


-----------------------------------------------------------------------------
(* A reader's selection and its address (NewsPage), of any categories, sources and keywords. *)

CONSTANTS NewsCategories, Outlets, Keywords, Periods, TermCap, ListModes, AskCap
VARIABLES page_kind, selection, address_bar, unseen, under_way, rows_shown

reader == INSTANCE NewsPage WITH
  Categories <- NewsCategories, Sources <- Outlets, Words <- Keywords, Hours <- Periods, TermLimit <- TermCap,
  Modes <- ListModes, MaxAsked <- AskCap, CFG <- page_kind, V <- selection, address <- address_bar,
  hidden <- unseen, asked <- under_way, shown <- rows_shown

SelectionOf(tab, last, hours, cats, terms, q, tag, pick, mode) ==
  [tab |-> tab, lastNews |-> last, hours |-> hours, cats |-> cats, terms |-> terms, q |-> q, tag |-> tag,
   pickOnly |-> pick, mode |-> mode]
Shaped(v) == v = SelectionOf(v.tab, v.lastNews, v.hours, v.cats, v.terms, v.q, v.tag, v.pickOnly, v.mode)

\* The operator's page is a global one; the tabs a page has are the calendar and its lists.
PageKind(cfg) == cfg.wantThai \in BOOLEAN /\ cfg.admin \in BOOLEAN /\ ~(cfg.wantThai /\ cfg.admin)
PageLists(cfg) == IF cfg.admin THEN {"global", "thai"} ELSE {reader!Home(cfg)}

Selected(cfg, v) ==
  /\ Shaped(v)
  /\ v.tab \in PageLists(cfg) \cup {"cal"} /\ v.lastNews \in PageLists(cfg)
  /\ v.tag \in reader!Tags

Addressed(a) ==
  /\ a.source \in Outlets \cup {None}
  /\ a = [tab |-> a.tab, hours |-> a.hours, cats |-> a.cats, terms |-> a.terms, q |-> a.q,
          source |-> a.source, picked |-> a.picked, mode |-> a.mode]

PageInv ==
  /\ PageKind(page_kind) /\ Selected(page_kind, selection) /\ Addressed(address_bar)
  /\ reader!AddressAsksSame

LEMMA OneFieldChanges ==
  ASSUME NEW v, Shaped(v), NEW x
  PROVE  /\ [v EXCEPT !.tab = x] =
              SelectionOf(x, v.lastNews, v.hours, v.cats, v.terms, v.q, v.tag, v.pickOnly, v.mode)
         /\ [v EXCEPT !.lastNews = x] =
              SelectionOf(v.tab, x, v.hours, v.cats, v.terms, v.q, v.tag, v.pickOnly, v.mode)
         /\ [v EXCEPT !.hours = x] =
              SelectionOf(v.tab, v.lastNews, x, v.cats, v.terms, v.q, v.tag, v.pickOnly, v.mode)
         /\ [v EXCEPT !.cats = x] =
              SelectionOf(v.tab, v.lastNews, v.hours, x, v.terms, v.q, v.tag, v.pickOnly, v.mode)
         /\ [v EXCEPT !.terms = x] =
              SelectionOf(v.tab, v.lastNews, v.hours, v.cats, x, v.q, v.tag, v.pickOnly, v.mode)
         /\ [v EXCEPT !.q = x] =
              SelectionOf(v.tab, v.lastNews, v.hours, v.cats, v.terms, x, v.tag, v.pickOnly, v.mode)
         /\ [v EXCEPT !.tag = x] =
              SelectionOf(v.tab, v.lastNews, v.hours, v.cats, v.terms, v.q, x, v.pickOnly, v.mode)
         /\ [v EXCEPT !.pickOnly = x] =
              SelectionOf(v.tab, v.lastNews, v.hours, v.cats, v.terms, v.q, v.tag, x, v.mode)
         /\ [v EXCEPT !.mode = x] =
              SelectionOf(v.tab, v.lastNews, v.hours, v.cats, v.terms, v.q, v.tag, v.pickOnly, x)
BY DEF Shaped, SelectionOf

\* A selection of the same tabs and tag.
Beside(v, w) == Shaped(w) /\ w.tab = v.tab /\ w.lastNews = v.lastNews /\ w.tag = v.tag

LEMMA SelectionParts ==
  ASSUME NEW tab, NEW last, NEW hours, NEW cats, NEW terms, NEW q, NEW tag, NEW pick, NEW mode
  PROVE  /\ Shaped(SelectionOf(tab, last, hours, cats, terms, q, tag, pick, mode))
         /\ SelectionOf(tab, last, hours, cats, terms, q, tag, pick, mode).tab = tab
         /\ SelectionOf(tab, last, hours, cats, terms, q, tag, pick, mode).lastNews = last
         /\ SelectionOf(tab, last, hours, cats, terms, q, tag, pick, mode).tag = tag
BY DEF Shaped, SelectionOf

LEMMA ConditionsChange ==
  ASSUME NEW v, Shaped(v), NEW x
  PROVE  /\ Beside(v, [v EXCEPT !.hours = x]) /\ Beside(v, [v EXCEPT !.cats = x])
         /\ Beside(v, [v EXCEPT !.terms = x]) /\ Beside(v, [v EXCEPT !.q = x])
         /\ Beside(v, [v EXCEPT !.pickOnly = x]) /\ Beside(v, [v EXCEPT !.mode = x])
<1>1. Beside(v, [v EXCEPT !.hours = x])
  <2>1. [v EXCEPT !.hours = x] = SelectionOf(v.tab, v.lastNews, x, v.cats, v.terms, v.q, v.tag, v.pickOnly, v.mode)
    BY OneFieldChanges
  <2> QED
    BY <2>1, SelectionParts DEF Beside
<1>2. Beside(v, [v EXCEPT !.cats = x])
  <2>1. [v EXCEPT !.cats = x] = SelectionOf(v.tab, v.lastNews, v.hours, x, v.terms, v.q, v.tag, v.pickOnly, v.mode)
    BY OneFieldChanges
  <2> QED
    BY <2>1, SelectionParts DEF Beside
<1>3. Beside(v, [v EXCEPT !.terms = x])
  <2>1. [v EXCEPT !.terms = x] = SelectionOf(v.tab, v.lastNews, v.hours, v.cats, x, v.q, v.tag, v.pickOnly, v.mode)
    BY OneFieldChanges
  <2> QED
    BY <2>1, SelectionParts DEF Beside
<1>4. Beside(v, [v EXCEPT !.q = x])
  <2>1. [v EXCEPT !.q = x] = SelectionOf(v.tab, v.lastNews, v.hours, v.cats, v.terms, x, v.tag, v.pickOnly, v.mode)
    BY OneFieldChanges
  <2> QED
    BY <2>1, SelectionParts DEF Beside
<1>5. Beside(v, [v EXCEPT !.pickOnly = x])
  <2>1. [v EXCEPT !.pickOnly = x] = SelectionOf(v.tab, v.lastNews, v.hours, v.cats, v.terms, v.q, v.tag, x, v.mode)
    BY OneFieldChanges
  <2> QED
    BY <2>1, SelectionParts DEF Beside
<1>6. Beside(v, [v EXCEPT !.mode = x])
  <2>1. [v EXCEPT !.mode = x] = SelectionOf(v.tab, v.lastNews, v.hours, v.cats, v.terms, v.q, v.tag, v.pickOnly, x)
    BY OneFieldChanges
  <2> QED
    BY <2>1, SelectionParts DEF Beside
<1> QED
  BY <1>1, <1>2, <1>3, <1>4, <1>5, <1>6

LEMMA TagChanges ==
  ASSUME NEW v, Shaped(v), NEW x
  PROVE  LET w == [v EXCEPT !.tag = x]
         IN  Shaped(w) /\ w.tab = v.tab /\ w.lastNews = v.lastNews /\ w.tag = x
BY OneFieldChanges DEF Shaped, SelectionOf

LEMMA TabChanges ==
  ASSUME NEW v, Shaped(v), NEW x
  PROVE  /\ LET w == [v EXCEPT !.tab = x]
            IN  Shaped(w) /\ w.tab = x /\ w.lastNews = v.lastNews /\ w.tag = v.tag
         /\ LET w == [v EXCEPT !.lastNews = x]
            IN  Shaped(w) /\ w.tab = v.tab /\ w.lastNews = x /\ w.tag = v.tag
BY OneFieldChanges DEF Shaped, SelectionOf

\* What an address is made of, a page reads back, as far as the server is asked.
LEMMA AddressReadBack ==
  ASSUME None \notin Outlets \cup {"cal", "thai"}, NEW cfg, PageKind(cfg), NEW v, Selected(cfg, v)
  PROVE  /\ Addressed(reader!Written(cfg, v))
         /\ reader!buildQuery(reader!Restored(cfg, reader!Written(cfg, v))) = reader!buildQuery(v)
<1> DEFINE a == reader!Written(cfg, v)
           r == reader!Restored(cfg, a)
<1>1. \/ v.tag = [k |-> "none", v |-> None]
      \/ \E c \in NewsCategories : v.tag = [k |-> "cat", v |-> c]
      \/ \E s \in Outlets : v.tag = [k |-> "src", v |-> s]
  BY DEF Selected, reader!Tags, reader!NoTag
<1>2. /\ a.tab = reader!KeepTab(cfg, v.tab) /\ a.hours = v.hours /\ a.cats = reader!Chosen(v)
      /\ a.terms = v.terms /\ a.q = v.q /\ a.source = (IF v.tag.k = "src" THEN v.tag.v ELSE None)
      /\ a.picked = v.pickOnly /\ a.mode = v.mode
      /\ a = [tab |-> a.tab, hours |-> a.hours, cats |-> a.cats, terms |-> a.terms, q |-> a.q,
              source |-> a.source, picked |-> a.picked, mode |-> a.mode]
  BY DEF reader!Written
<1> HIDE DEF a
<1>3. Addressed(a)
  <2>1. v.tag.k = "src" => v.tag.v \in Outlets
    <3>1. CASE v.tag = [k |-> "none", v |-> None]
      BY <3>1
    <3>2. ASSUME NEW c \in NewsCategories, v.tag = [k |-> "cat", v |-> c] PROVE v.tag.k # "src"
      BY <3>2
    <3>3. ASSUME NEW t \in Outlets, v.tag = [k |-> "src", v |-> t] PROVE v.tag.v \in Outlets
      BY <3>3
    <3> QED
      BY <1>1, <3>1, <3>2, <3>3
  <2>2. a.source \in Outlets \cup {None}
    BY <1>2, <2>1
  <2> QED
    BY <1>2, <2>2 DEF Addressed
<1>4. /\ r.tab = reader!InitialTab(cfg, a) /\ r.hours = v.hours /\ r.cats = reader!Chosen(v)
      /\ r.terms = v.terms /\ r.q = v.q /\ r.pickOnly = v.pickOnly /\ r.mode = v.mode
      /\ r.tag = IF a.source = None THEN [k |-> "none", v |-> None] ELSE [k |-> "src", v |-> a.source]
  BY <1>2 DEF reader!Restored, reader!NoTag
<1> HIDE DEF r
<1>5. r.tab = v.tab
  <2>1. v.tab \in {"cal", "global", "thai"} /\ (v.tab = "global" => ~cfg.wantThai)
        /\ (v.tab = "thai" => cfg.wantThai \/ cfg.admin)
    BY DEF Selected, PageLists, PageKind, reader!Home
  <2>2. CASE v.tab = "cal"
    BY <1>2, <1>4, <2>2 DEF reader!InitialTab, reader!KeepTab
  <2>3. CASE v.tab = "global"
    BY <1>2, <1>4, <2>1, <2>3 DEF reader!InitialTab, reader!KeepTab, reader!Home
  <2>4. CASE v.tab = "thai"
    BY <1>2, <1>4, <2>1, <2>4 DEF reader!InitialTab, reader!KeepTab, reader!Home
  <2> QED
    BY <2>1, <2>2, <2>3, <2>4
<1>6. reader!Chosen(r) = reader!Chosen(v)
  <2>1. \A c \in NewsCategories : r.tag # [k |-> "cat", v |-> c]
    <3>1. r.tag.k # "cat"
      BY <1>4
    <3> QED
      BY <3>1
  <2> QED
    BY <1>4, <2>1 DEF reader!Chosen
<1>7. {s \in Outlets : r.tag = [k |-> "src", v |-> s]} = {s \in Outlets : v.tag = [k |-> "src", v |-> s]}
  <2> SUFFICES ASSUME NEW s \in Outlets
               PROVE  r.tag = [k |-> "src", v |-> s] <=> v.tag = [k |-> "src", v |-> s]
    OBVIOUS
  <2>1. \A x, y : [k |-> "src", v |-> x] = [k |-> "src", v |-> y] => x = y
    <3> SUFFICES ASSUME NEW x, NEW y, [k |-> "src", v |-> x] = [k |-> "src", v |-> y] PROVE x = y
      OBVIOUS
    <3>1. [k |-> "src", v |-> x].v = x /\ [k |-> "src", v |-> y].v = y
      OBVIOUS
    <3> QED
      BY <3>1
  <2>2. \A x, y : [k |-> "none", v |-> x] # [k |-> "src", v |-> y] /\ [k |-> "cat", v |-> x] # [k |-> "src", v |-> y]
    <3> SUFFICES ASSUME NEW x, NEW y
                 PROVE  [k |-> "none", v |-> x] # [k |-> "src", v |-> y]
                        /\ [k |-> "cat", v |-> x] # [k |-> "src", v |-> y]
      OBVIOUS
    <3>1. /\ [k |-> "none", v |-> x].k = "none" /\ [k |-> "cat", v |-> x].k = "cat"
          /\ [k |-> "src", v |-> y].k = "src"
      OBVIOUS
    <3> QED
      BY <3>1
  <2>3. CASE v.tag = [k |-> "none", v |-> None]
    BY <1>2, <1>4, <2>2, <2>3
  <2>4. ASSUME NEW c \in NewsCategories, v.tag = [k |-> "cat", v |-> c]
        PROVE  r.tag = [k |-> "src", v |-> s] <=> v.tag = [k |-> "src", v |-> s]
    BY <1>2, <1>4, <2>2, <2>4
  <2>5. ASSUME NEW t \in Outlets, v.tag = [k |-> "src", v |-> t]
        PROVE  r.tag = [k |-> "src", v |-> s] <=> v.tag = [k |-> "src", v |-> s]
    BY <1>2, <1>4, <2>5
  <2> QED
    BY <1>1, <2>3, <2>4, <2>5
<1>8. reader!buildQuery(r) = reader!buildQuery(v)
  BY <1>4, <1>5, <1>6, <1>7 DEF reader!buildQuery
<1> QED
  BY <1>3, <1>8 DEF a, r

LEMMA AddressRead ==
  ASSUME NEW cfg, PageKind(cfg), NEW a, Addressed(a)
  PROVE  Selected(cfg, reader!Restored(cfg, a))
<1> DEFINE r == reader!Restored(cfg, a)
<1>1. /\ Shaped(r) /\ r.tab = reader!InitialTab(cfg, a)
      /\ r.lastNews = (IF reader!InitialTab(cfg, a) = "cal" THEN reader!Home(cfg) ELSE reader!InitialTab(cfg, a))
      /\ r.tag = IF a.source = None THEN reader!NoTag ELSE [k |-> "src", v |-> a.source]
  BY DEF reader!Restored, Shaped, SelectionOf
<1> HIDE DEF r
<1>2. reader!Home(cfg) \in PageLists(cfg) /\ reader!Home(cfg) # "cal"
  BY DEF PageKind, PageLists, reader!Home
<1>3. reader!InitialTab(cfg, a) \in PageLists(cfg) \cup {"cal"}
  BY <1>2 DEF reader!InitialTab, PageKind, PageLists, reader!Home
<1>4. r.tag \in reader!Tags
  BY <1>1 DEF Addressed, reader!Tags
<1>5. r.tab \in PageLists(cfg) \cup {"cal"} /\ r.lastNews \in PageLists(cfg)
  BY <1>1, <1>2, <1>3
<1> QED
  BY <1>1, <1>4, <1>5 DEF Selected, r

\* A tab that is tidied in the address is still the page's tab.
LEMMA AddressTidied ==
  ASSUME None \notin {"cal", "thai"}, NEW cfg, PageKind(cfg), NEW a, Addressed(a),
         NEW b, b = [a EXCEPT !.tab = reader!KeepTab(cfg, reader!InitialTab(cfg, a))]
  PROVE  Addressed(b) /\ reader!Restored(cfg, b) = reader!Restored(cfg, a)
<1> DEFINE t == reader!KeepTab(cfg, reader!InitialTab(cfg, a))
<1>1. b = [tab |-> t, hours |-> a.hours, cats |-> a.cats, terms |-> a.terms, q |-> a.q,
           source |-> a.source, picked |-> a.picked, mode |-> a.mode]
  <2> HIDE DEF t
  <2>1. b = [a EXCEPT !.tab = t]
    BY DEF t
  <2> QED
    BY <2>1 DEF Addressed
<1>2. reader!InitialTab(cfg, a) \in {"cal", "global", "thai"}
      /\ (reader!InitialTab(cfg, a) = "global" => ~cfg.wantThai)
      /\ (reader!InitialTab(cfg, a) = "thai" => cfg.wantThai \/ cfg.admin)
  BY DEF reader!InitialTab, PageKind, reader!Home
<1>3. \A x : x.tab = t => reader!InitialTab(cfg, x) = reader!InitialTab(cfg, a)
  <2> SUFFICES ASSUME NEW x, x.tab = t PROVE reader!InitialTab(cfg, x) = reader!InitialTab(cfg, a)
    OBVIOUS
  <2> DEFINE i == reader!InitialTab(cfg, a)
  <2>0. x.tab = reader!KeepTab(cfg, i)
    OBVIOUS
  <2> HIDE DEF i, t
  <2>1. CASE i = "cal"
    BY <2>0, <2>1 DEF reader!InitialTab, reader!KeepTab, i
  <2>2. CASE i = "global"
    BY <1>2, <2>0, <2>2 DEF reader!InitialTab, reader!KeepTab, reader!Home, i
  <2>3. CASE i = "thai"
    BY <1>2, <2>0, <2>3 DEF reader!InitialTab, reader!KeepTab, reader!Home, i
  <2> QED
    BY <1>2, <2>1, <2>2, <2>3 DEF i
<1> HIDE DEF t
<1>4. /\ b.tab = t /\ b.hours = a.hours /\ b.cats = a.cats /\ b.terms = a.terms /\ b.q = a.q
      /\ b.source = a.source /\ b.picked = a.picked /\ b.mode = a.mode
  BY <1>1
<1>5. Addressed(b)
  BY <1>1, <1>4 DEF Addressed
<1>6. reader!InitialTab(cfg, b) = reader!InitialTab(cfg, a)
  BY <1>3, <1>4
<1>7. reader!Restored(cfg, b) = reader!Restored(cfg, a)
  BY <1>4, <1>6 DEF reader!Restored
<1> QED
  BY <1>5, <1>7

LEMMA SelectKeeps ==
  ASSUME None \notin Outlets \cup {"cal", "thai"}, PageInv, NEW v, Selected(page_kind, v), NEW n, reader!Change(v, n)
  PROVE  PageInv'
<1>1. page_kind' = page_kind /\ selection' = v /\ address_bar' = reader!Written(page_kind, v)
  BY DEF reader!Change
<1>2. PageKind(page_kind) /\ Addressed(reader!Written(page_kind, v))
      /\ reader!buildQuery(reader!Restored(page_kind, reader!Written(page_kind, v))) = reader!buildQuery(v)
  BY AddressReadBack DEF PageInv
<1>3. PageKind(page_kind)' /\ Selected(page_kind, selection)' /\ Addressed(address_bar)'
  BY <1>1, <1>2 DEF PageKind, Selected, PageLists, Shaped, SelectionOf, Addressed,
     reader!Home, reader!Tags, reader!NoTag
<1>4. reader!AddressAsksSame'
  BY <1>1, <1>2 DEF reader!AddressAsksSame, reader!buildQuery, reader!Restored, reader!Chosen,
     reader!InitialTab, reader!Home, reader!NoTag
<1> QED
  BY <1>3, <1>4 DEF PageInv

LEMMA BesideSelected ==
  ASSUME NEW cfg, NEW v, Selected(cfg, v), NEW w, Beside(v, w)
  PROVE  Selected(cfg, w)
BY DEF Selected, Beside

LEMMA ClearedSelected ==
  ASSUME Selected(page_kind, selection)
  PROVE  Selected(page_kind, reader!Cleared)
<1> DEFINE a == [selection EXCEPT !.cats = {}]
           b == [a EXCEPT !.tag = reader!NoTag]
           c == [b EXCEPT !.pickOnly = FALSE]
           d == [c EXCEPT !.terms = {}]
           e == [d EXCEPT !.q = None]
<1>1. reader!Cleared = e
  BY DEF reader!Cleared
<1>2. Selected(page_kind, a)
  BY ConditionsChange, BesideSelected DEF Selected
<1>3. Selected(page_kind, b)
  <2> HIDE DEF a
  <2>1. Shaped(a)
    BY <1>2 DEF Selected
  <2>2. Shaped(b) /\ b.tab = a.tab /\ b.lastNews = a.lastNews /\ b.tag = reader!NoTag
    BY <2>1, TagChanges
  <2>3. reader!NoTag \in reader!Tags
    BY DEF reader!Tags
  <2> HIDE DEF b
  <2> QED
    BY <1>2, <2>2, <2>3 DEF Selected
<1>4. Selected(page_kind, c)
  <2> HIDE DEF b
  <2> QED
    BY <1>3, ConditionsChange, BesideSelected DEF Selected
<1>5. Selected(page_kind, d)
  <2> HIDE DEF c
  <2> QED
    BY <1>4, ConditionsChange, BesideSelected DEF Selected
<1>6. Selected(page_kind, e)
  <2> HIDE DEF d
  <2> QED
    BY <1>5, ConditionsChange, BesideSelected DEF Selected
<1> QED
  BY <1>1, <1>6

\* One condition of a selection changes, and then perhaps a second.
LEMMA OneCondition ==
  ASSUME NEW cfg, NEW v, Selected(cfg, v), NEW x
  PROVE  /\ Selected(cfg, [v EXCEPT !.hours = x]) /\ Selected(cfg, [v EXCEPT !.cats = x])
         /\ Selected(cfg, [v EXCEPT !.terms = x]) /\ Selected(cfg, [v EXCEPT !.q = x])
         /\ Selected(cfg, [v EXCEPT !.pickOnly = x]) /\ Selected(cfg, [v EXCEPT !.mode = x])
         /\ x \in reader!Tags => Selected(cfg, [v EXCEPT !.tag = x])
<1>1. Shaped(v)
  BY DEF Selected
<1>2. x \in reader!Tags => Selected(cfg, [v EXCEPT !.tag = x])
  <2> DEFINE w == [v EXCEPT !.tag = x]
  <2>1. Shaped(w) /\ w.tab = v.tab /\ w.lastNews = v.lastNews /\ w.tag = x
    BY <1>1, TagChanges
  <2> HIDE DEF w
  <2>2. x \in reader!Tags => Selected(cfg, w)
    BY <2>1 DEF Selected
  <2> QED
    BY <2>2 DEF w
<1> QED
  BY <1>1, <1>2, ConditionsChange, BesideSelected

LEMMA TwoConditions ==
  ASSUME NEW cfg, NEW v, Selected(cfg, v), NEW x, NEW y
  PROVE  /\ Selected(cfg, [v EXCEPT !.cats = x, !.mode = y])
         /\ Selected(cfg, [v EXCEPT !.terms = x, !.q = y])
         /\ x \in reader!Tags => Selected(cfg, [v EXCEPT !.tag = x, !.mode = y])
<1>1. Selected(cfg, [v EXCEPT !.cats = x, !.mode = y])
  <2> DEFINE w == [v EXCEPT !.cats = x]
  <2>1. Selected(cfg, w)
    BY OneCondition
  <2>2. Selected(cfg, [w EXCEPT !.mode = y])
    <3> HIDE DEF w
    <3> QED
      BY <2>1, OneCondition
  <2> QED
    BY <2>2
<1>2. Selected(cfg, [v EXCEPT !.terms = x, !.q = y])
  <2> DEFINE w == [v EXCEPT !.terms = x]
  <2>1. Selected(cfg, w)
    BY OneCondition
  <2>2. Selected(cfg, [w EXCEPT !.q = y])
    <3> HIDE DEF w
    <3> QED
      BY <2>1, OneCondition
  <2> QED
    BY <2>2
<1>3. ASSUME x \in reader!Tags PROVE Selected(cfg, [v EXCEPT !.tag = x, !.mode = y])
  <2> DEFINE w == [v EXCEPT !.tag = x]
  <2>1. Selected(cfg, w)
    BY <1>3, OneCondition
  <2>2. Selected(cfg, [w EXCEPT !.mode = y])
    <3> HIDE DEF w
    <3> QED
      BY <2>1, OneCondition
  <2> QED
    BY <2>2
<1> QED
  BY <1>1, <1>2, <1>3

\* A tab of the page, and the list the calendar's tab goes back to.
LEMMA TabSelected ==
  ASSUME NEW cfg, NEW v, Selected(cfg, v), NEW mode,
         NEW tab \in PageLists(cfg) \cup {"cal"}, NEW last \in PageLists(cfg)
  PROVE  Selected(cfg, [v EXCEPT !.tab = tab, !.mode = mode, !.lastNews = last])
<1> DEFINE a == [v EXCEPT !.tab = tab]
           b == [a EXCEPT !.mode = mode]
           c == [b EXCEPT !.lastNews = last]
<1>1. Selected(cfg, a)
  <2>1. Shaped(a) /\ a.tab = tab /\ a.lastNews = v.lastNews /\ a.tag = v.tag
    BY TabChanges DEF Selected
  <2> HIDE DEF a
  <2> QED
    BY <2>1 DEF Selected
<1>2. Selected(cfg, b)
  <2> HIDE DEF a
  <2> QED
    BY <1>1, OneCondition
<1>3. Selected(cfg, c)
  <2> HIDE DEF b
  <2>1. Shaped(b)
    BY <1>2 DEF Selected
  <2>2. Shaped(c) /\ c.tab = b.tab /\ c.lastNews = last /\ c.tag = b.tag
    BY <2>1, TabChanges
  <2> HIDE DEF c
  <2> QED
    BY <1>2, <2>2 DEF Selected
<1> QED
  BY <1>3

LEMMA TabKeeps ==
  ASSUME None \notin Outlets \cup {"cal", "thai"}, PageInv, NEW next, reader!setTab(next)
  PROVE  PageInv'
<1> DEFINE tab == IF next = "cal" /\ selection.tab = "cal" THEN selection.lastNews ELSE next
           last == IF tab = "cal" THEN reader!Cleared.lastNews ELSE tab
           v == [reader!Cleared EXCEPT !.tab = tab, !.mode = "all", !.lastNews = last]
           n == IF tab = "cal" THEN 0 ELSE 1
<1>1. next \in reader!Tabs /\ reader!Change(v, n)
  BY DEF reader!setTab
<1>2. Selected(page_kind, selection) /\ Selected(page_kind, reader!Cleared)
  BY ClearedSelected DEF PageInv
<1>3. next \in PageLists(page_kind) \cup {"cal"}
  BY <1>1 DEF reader!Tabs, PageLists
<1>4. tab \in PageLists(page_kind) \cup {"cal"}
  BY <1>2, <1>3 DEF Selected
<1>5. last \in PageLists(page_kind)
  <2> HIDE DEF tab
  <2> QED
    BY <1>2, <1>4 DEF Selected
<1> HIDE DEF tab, last
<1>6. Selected(page_kind, v)
  BY <1>2, <1>4, <1>5, TabSelected
<1> HIDE DEF v, n
<1> QED
  BY <1>1, <1>6, SelectKeeps

LEMMA ConditionsKeep ==
  ASSUME None \notin Outlets \cup {"cal", "thai"}, PageInv,
         \/ reader!PickPill \/ reader!AllPill \/ reader!ClearTrends
         \/ \E c \in NewsCategories : reader!CategoryPill(c) \/ reader!dropCond("cat", c)
         \/ \E s \in Outlets : reader!dropCond("src", s)
         \/ \E tag \in reader!Tags : reader!Chip(tag)
         \/ \E w \in Keywords : reader!Trend(w) \/ reader!qadd(w) \/ reader!dropCond("term", w)
         \/ \E w \in Keywords \cup {None} : reader!Typed(w)
         \/ \E h \in Periods : reader!hours(h)
  PROVE  PageInv'
<1> SUFFICES \E v : Selected(page_kind, v) /\ reader!Select(v)
  BY SelectKeeps DEF reader!Select
<1>1. Selected(page_kind, selection) /\ Selected(page_kind, reader!Cleared)
  BY ClearedSelected DEF PageInv
<1>2. CASE reader!PickPill
  BY <1>1, <1>2, OneCondition DEF reader!PickPill
<1>3. CASE reader!AllPill
  BY <1>1, <1>3, OneCondition DEF reader!AllPill
<1>4. CASE reader!ClearTrends
  BY <1>1, <1>4, OneCondition DEF reader!ClearTrends
<1>5. ASSUME NEW c \in NewsCategories, reader!CategoryPill(c)
      PROVE  \E v : Selected(page_kind, v) /\ reader!Select(v)
  BY <1>1, <1>5, TwoConditions DEF reader!CategoryPill
<1>6. reader!NoTag \in reader!Tags
  BY DEF reader!Tags
<1>7. ASSUME NEW kind, NEW x, reader!dropCond(kind, x)
      PROVE  \E v : Selected(page_kind, v) /\ reader!Select(v)
  <2>1. \/ reader!Select([selection EXCEPT !.cats = selection.cats \ {x}])
        \/ reader!Select([selection EXCEPT !.terms = selection.terms \ {x}])
        \/ reader!Select([selection EXCEPT !.tag = reader!NoTag])
    BY <1>7 DEF reader!dropCond
  <2> QED
    BY <1>1, <1>6, <2>1, OneCondition
<1>8. ASSUME NEW tag \in reader!Tags, reader!Chip(tag)
      PROVE  \E v : Selected(page_kind, v) /\ reader!Select(v)
  <2>1. CASE tag = reader!NoTag
    BY <1>1, <1>6, <1>8, <2>1, OneCondition DEF reader!Chip
  <2>2. CASE tag # reader!NoTag
    <3> DEFINE x == IF selection.tag = tag THEN reader!NoTag ELSE tag
    <3>1. reader!Select([selection EXCEPT !.tag = x, !.mode = "all"])
      BY <1>8, <2>2 DEF reader!Chip
    <3>2. x \in reader!Tags
      BY <1>6
    <3> HIDE DEF x
    <3> QED
      BY <1>1, <3>1, <3>2, TwoConditions
  <2> QED
    BY <2>1, <2>2
<1>9. ASSUME NEW w, reader!Trend(w) \/ reader!qadd(w)
      PROVE  \E v : Selected(page_kind, v) /\ reader!Select(v)
  BY <1>1, <1>9, TwoConditions DEF reader!Trend, reader!qadd
<1>10. ASSUME NEW w, reader!Typed(w) \/ reader!hours(w)
       PROVE  \E v : Selected(page_kind, v) /\ reader!Select(v)
  BY <1>1, <1>10, OneCondition DEF reader!Typed, reader!hours
<1> QED
  BY <1>2, <1>3, <1>4, <1>5, <1>7, <1>8, <1>9, <1>10

LEMMA ReloadKeeps ==
  ASSUME None \notin {"cal", "thai"}, NEW cfg, PageKind(cfg), NEW a, Addressed(a), page_kind' = cfg,
         selection' = reader!Restored(cfg, a),
         address_bar' = [a EXCEPT !.tab = reader!KeepTab(cfg, reader!InitialTab(cfg, a))]
  PROVE  PageInv'
<1>1. Selected(cfg, reader!Restored(cfg, a))
  BY AddressRead
<1>2. Addressed(address_bar') /\ reader!Restored(cfg, address_bar') = reader!Restored(cfg, a)
  BY AddressTidied
<1>3. PageKind(page_kind)' /\ Selected(page_kind, selection)' /\ Addressed(address_bar)'
  BY <1>1, <1>2 DEF PageKind, Selected, PageLists, Shaped, SelectionOf, Addressed,
     reader!Home, reader!Tags, reader!NoTag
<1>4. reader!AddressAsksSame'
  BY <1>2 DEF reader!AddressAsksSame, reader!buildQuery, reader!Restored, reader!Chosen,
     reader!InitialTab, reader!Home, reader!NoTag
<1> QED
  BY <1>3, <1>4 DEF PageInv

\* Whatever a reader presses, types and drops, and whatever address the page was loaded from, the address
\* of the page, loaded again, asks the server for what the selection asks (page_build.py).
THEOREM AddressesAskTheSame ==
  ASSUME None \notin Outlets \cup {"cal", "thai"}
  PROVE  reader!Spec => []reader!AddressAsksSame
<1>1. reader!Init => PageInv
  <2> SUFFICES ASSUME reader!Init PROVE PageInv
    OBVIOUS
  <2>1. PageKind(page_kind)
    BY DEF reader!Init, PageKind
  <2>2. PICK a \in reader!Address : reader!Loaded(page_kind, a)
    BY DEF reader!Init
  <2>3. Addressed(a)
    BY DEF reader!Address, Addressed
  <2>4. selection = reader!Restored(page_kind, a)
        /\ address_bar = [a EXCEPT !.tab = reader!KeepTab(page_kind, reader!InitialTab(page_kind, a))]
    BY <2>2 DEF reader!Loaded
  <2>5. Selected(page_kind, selection)
    BY <2>1, <2>3, <2>4, AddressRead
  <2>6. Addressed(address_bar) /\ reader!Restored(page_kind, address_bar) = selection
    BY <2>1, <2>3, <2>4, AddressTidied
  <2> QED
    BY <2>1, <2>5, <2>6 DEF PageInv, reader!AddressAsksSame
<1>2. PageInv /\ [reader!Next]_(reader!vars) => PageInv'
  <2> SUFFICES ASSUME PageInv, [reader!Next]_(reader!vars) PROVE PageInv'
    OBVIOUS
  <2>1. ASSUME NEW tab \in {"global", "thai", "cal"}, reader!setTab(tab) PROVE PageInv'
    BY <2>1, TabKeeps
  <2>2. CASE \/ reader!PickPill \/ reader!AllPill \/ reader!ClearTrends
             \/ \E c \in NewsCategories : reader!CategoryPill(c) \/ reader!dropCond("cat", c)
             \/ \E s \in Outlets : reader!dropCond("src", s)
             \/ \E tag \in reader!Tags : reader!Chip(tag)
             \/ \E w \in Keywords : reader!Trend(w) \/ reader!qadd(w) \/ reader!dropCond("term", w)
             \/ \E w \in Keywords \cup {None} : reader!Typed(w)
             \/ \E h \in Periods : reader!hours(h)
    BY <2>2, ConditionsKeep
  <2>3. CASE reader!Reload
    BY <2>3, ReloadKeeps DEF PageInv, reader!Reload
  <2>4. CASE UNCHANGED <<page_kind, selection, address_bar>>
    BY <2>4 DEF PageInv, PageKind, Selected, PageLists, Shaped, SelectionOf, Addressed, reader!Home, reader!Tags,
       reader!NoTag, reader!AddressAsksSame, reader!buildQuery, reader!Restored, reader!Chosen, reader!InitialTab
  <2>5. reader!poll \/ reader!Hide \/ reader!Show \/ (\E kind \in {"present", "earlier"} :
          reader!Answer(kind) \/ reader!Fail(kind)) => UNCHANGED <<page_kind, selection, address_bar>>
    BY DEF reader!poll, reader!Hide, reader!Show, reader!Answer, reader!Fail
  <2>6. UNCHANGED reader!vars => UNCHANGED <<page_kind, selection, address_bar>>
    BY DEF reader!vars
  <2> QED
    BY <2>1, <2>2, <2>3, <2>4, <2>5, <2>6 DEF reader!Next
<1>3. PageInv => reader!AddressAsksSame
  BY DEF PageInv
<1> QED
  BY <1>1, <1>2, <1>3, PTL DEF reader!Spec
=============================================================================
