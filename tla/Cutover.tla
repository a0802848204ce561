------------------------------- MODULE Cutover --------------------------------
(***************************************************************************)
(* The move of the community database to the tables of the boards          *)
(* (deploy/cutover_4c6eb61_dbstep.py), on the live database: the script    *)
(* that backs up, migrates and verifies, its --rebackfill mode, and the    *)
(* operator who stops the service for it, restores when it says ABORT and  *)
(* activates the new release when it says PASS.                            *)
(*                                                                         *)
(* The old release reads and writes Post.title/body alone.  The new one    *)
(* keeps the text of a board's post in the board's table and blanks the    *)
(* copy in Post.  Title and body are one text; the eight migrations are    *)
(* three heads: 0021, one where the tables exist, and 0029.                *)
(*                                                                         *)
(* Left out: a rehearsal on a copy of the database, the checks of files    *)
(* and of SQLite's integrity, the receipt, and every other table (their    *)
(* row counts are compared too, so what is lost there is seen the same).   *)
(***************************************************************************)
EXTENDS Naturals, FiniteSets

CONSTANTS
  Posts,        \* that there can be
  Boarded,      \* those of a category that has a table
  Old,          \* those written before the cutover
  Texts,        \* what members write
  Blank,        \* the empty text
  None          \* no post, no row, no backup

VARIABLES
  post,         \* Post.title/body of each post, or None
  row,          \* the text in the board's table, or None
  head,         \* 0: 0021, 1: the tables exist, 2: 0029
  release,      \* the one that serves: "old" or "new"
  serving,      \* the service is active
  stage,        \* of the script, or "idle", "abort", "pass"
  rebackfill,   \* the script was started with --rebackfill
  pre,          \* the posts it found at its start
  backup,       \* post, row and head as of its backup, or None
  latest        \* the text each post was last given by its author

database == <<post, row, head>>
script == <<stage, rebackfill, pre, backup>>
vars == <<database, release, serving, script, latest>>

expect_posts == Cardinality(Old)
Present == {p \in Posts : post[p] # None}
Running == stage \notin {"idle", "abort", "pass"}

Init ==
  /\ post \in [Posts -> Texts \cup {None}] /\ Present = Old
  /\ row = [p \in Posts |-> None]
  /\ head = 0
  /\ release = "old" /\ serving = TRUE
  /\ stage = "idle" /\ rebackfill = FALSE /\ pre = None /\ backup = None
  /\ latest = post

-----------------------------------------------------------------------------
(* The site. *)

\* A post is written or edited; a written one makes the last verdict of the script old.
Write(p) ==
  /\ serving
  /\ \E t \in Texts :
       /\ latest' = [latest EXCEPT ![p] = t]
       /\ IF release = "new" /\ p \in Boarded
            THEN post' = [post EXCEPT ![p] = Blank] /\ row' = [row EXCEPT ![p] = t]
            ELSE post' = [post EXCEPT ![p] = t] /\ UNCHANGED row
  /\ stage' = IF stage = "pass" THEN "idle" ELSE stage
  /\ UNCHANGED <<head, release, serving, rebackfill, pre, backup>>

-----------------------------------------------------------------------------
(* The script. *)

Abort == stage' = "abort" /\ UNCHANGED <<rebackfill, pre>>
Refuse == stage' = "idle" /\ UNCHANGED <<rebackfill, pre, backup>>

\* It snapshots the database and refuses one at the wrong head or with other posts.
Start(again) ==
  /\ stage \in {"idle", "pass"}
  /\ IF again THEN head = 2 ELSE head = 0 /\ Cardinality(Present) = expect_posts
  /\ stage' = "found" /\ rebackfill' = again /\ pre' = post /\ backup' = None
  /\ UNCHANGED <<database, release, serving, latest>>

\* Faulty variant: the script does not ask whether the service is active.
AnyService ==
  /\ stage = "found" /\ stage' = "stopped"
  /\ UNCHANGED <<database, release, serving, rebackfill, pre, backup, latest>>

CheckStopped ==
  /\ stage = "found"
  /\ IF serving THEN Refuse ELSE stage' = "stopped" /\ UNCHANGED <<rebackfill, pre, backup>>
  /\ UNCHANGED <<database, release, serving, latest>>

\* The online backup is compared with the snapshot; a rebackfill takes it as it is.
Backup ==
  /\ stage = "stopped"
  /\ backup' = [post |-> post, row |-> row, head |-> head]
  /\ IF ~rebackfill /\ post # pre THEN Abort ELSE stage' = "saved" /\ UNCHANGED <<rebackfill, pre>>
  /\ UNCHANGED <<database, release, serving, latest>>

\* Nothing was written between the backup and the migration.
CheckDrift ==
  /\ stage = "saved" /\ ~rebackfill
  /\ IF post # pre THEN Abort ELSE stage' = "migrate" /\ UNCHANGED <<rebackfill, pre>>
  /\ UNCHANGED <<database, release, serving, backup, latest>>

\* get_or_create: a post of a board that has no row gets one with the text in Post.
backfill_board_content ==
  row' = [p \in Posts |-> IF p \in Boarded \cap Present /\ row[p] = None THEN post[p] ELSE row[p]]

\* manage.py migrate, one migration and its transaction at a time.
Migrate ==
  /\ stage = "migrate" /\ head' = head + 1
  /\ IF head = 1 THEN backfill_board_content /\ stage' = "verify" ELSE UNCHANGED <<row, stage>>
  /\ UNCHANGED <<post, release, serving, rebackfill, pre, backup, latest>>

Rebackfill ==
  /\ stage = "saved" /\ rebackfill
  /\ backfill_board_content /\ stage' = "verify"
  /\ UNCHANGED <<post, head, release, serving, rebackfill, pre, backup, latest>>

\* manage.py ends with an error: what its last migration did is rolled back.
DjangoFails ==
  /\ stage = "migrate" \/ (stage = "saved" /\ rebackfill)
  /\ Abort /\ UNCHANGED <<database, release, serving, backup, latest>>

\* The posts are those of the snapshot, each of a board has the one row that says the same,
\* and no other post has a row.
check_board_rows ==
  /\ Present = {p \in Posts : pre[p] # None}
  /\ \A p \in Present : post[p] = pre[p] /\ row[p] = (IF p \in Boarded THEN pre[p] ELSE None)
  /\ \A p \in Posts \ Present : row[p] = None

Verify ==
  /\ stage = "verify"
  /\ stage' = IF check_board_rows THEN "pass" ELSE "abort"
  /\ UNCHANGED <<database, release, serving, rebackfill, pre, backup, latest>>

\* The session of the operator breaks: nothing is printed.
Killed ==
  /\ Running /\ Refuse
  /\ UNCHANGED <<database, release, serving, latest>>

-----------------------------------------------------------------------------
(* The operator, who follows what the script prints. *)

StopService ==
  /\ serving /\ serving' = FALSE
  /\ UNCHANGED <<database, release, script, latest>>

\* Not while the script runs, nor before what it prints has been done.
StartService ==
  /\ ~serving /\ stage \in {"idle", "pass"} /\ serving' = TRUE
  /\ UNCHANGED <<database, release, script, latest>>

\* The restore block of print_abort: the backup takes the place of the database, and
\* the release that served goes on serving.
Restore ==
  /\ stage = "abort" /\ stage' = "idle"
  /\ post' = backup.post /\ row' = backup.row /\ head' = backup.head
  /\ serving' = TRUE
  /\ UNCHANGED <<release, rebackfill, pre, backup, latest>>

Activate ==
  /\ stage = "pass" /\ release = "old"
  /\ release' = "new" /\ serving' = TRUE
  /\ UNCHANGED <<database, script, latest>>

Next ==
  \/ \E p \in Posts : Write(p)
  \/ \E again \in BOOLEAN : Start(again)
  \/ CheckStopped \/ Backup \/ CheckDrift \/ Migrate \/ Rebackfill \/ DjangoFails
  \/ Verify \/ Killed \/ StopService \/ StartService \/ Restore \/ Activate
Spec == Init /\ [][Next]_vars

-----------------------------------------------------------------------------
(* Properties. *)

Shown(p) == IF release = "new" /\ p \in Boarded THEN row[p] ELSE post[p]

(* Whatever the script met on its way, a site that serves shows each post as *)
(* its author last left it: no restore takes back what a member wrote, and   *)
(* the new release is not activated over a row older than its post (the      *)
(* safety paragraph and steps 3 and 5 of the docstring of the script).       *)
ShowsLatest == serving => \A p \in Posts : Shown(p) = latest[p]
=============================================================================
