-------------------------------- MODULE Upkeep --------------------------------
(***************************************************************************)
(* What looks after the running site from outside of it: the daily copy of *)
(* the database (tools/backup_db.py), the watch that runs every half hour  *)
(* and speaks only of what is broken (tools/watch_site.py), and the command*)
(* that registers the channel it speaks to (tools/set_watch_channel.py).   *)
(* The site itself is what they see of it: its service, its collector, its *)
(* database, the time since the newest story.                              *)
(*                                                                         *)
(* An hour of the clock stands for several runs of the watch.  Left out:   *)
(* the disk and the journal of failed sources, two more lines of the same  *)
(* report, and the wording of it.                                          *)
(***************************************************************************)
EXTENDS Integers, Sequences, FiniteSets

CONSTANTS
  MAX_AGE,          \* of the newest story: 35 minutes
  BACKUP_MAX_AGE,   \* of the newest copy: 36 hours
  KEEP              \* copies: 7

VARIABLES
  serving,      \* the service is active and its addresses answer
  collecting,   \* the collector stores what the feeds bring
  sound,        \* the database opens, is intact, holds rows the application can read
  age,          \* of the newest story, up to one more than MAX_AGE
  copies,       \* of each copy, oldest first: it verifies
  copyAge,      \* of the newest copy, up to one more than BACKUP_MAX_AGE
  channel,      \* of alerts: "none", "works", "refuses"
  report,       \* the problems of the last run of the watch
  delivered     \* what became of it: "quiet", "sent", "logged"

site == <<serving, collecting, sound, age>>
vars == <<site, copies, copyAge, channel, report, delivered>>

Init ==
  /\ serving = TRUE /\ collecting = TRUE /\ sound = TRUE /\ age = 0
  /\ copies = <<>> /\ copyAge = 0
  /\ channel = "none" /\ report = {} /\ delivered = "quiet"

-----------------------------------------------------------------------------
(* The site. *)

Story ==
  /\ serving /\ collecting /\ sound /\ age > 0
  /\ age' = 0
  /\ UNCHANGED <<serving, collecting, sound, copies, copyAge, channel, report, delivered>>

Hour ==
  /\ age' = IF age > MAX_AGE THEN age ELSE age + 1
  /\ copyAge' = IF copyAge > BACKUP_MAX_AGE THEN copyAge ELSE copyAge + 1
  /\ UNCHANGED <<serving, collecting, sound, copies, channel, report, delivered>>

\* It breaks in one of its parts, or is repaired by hand.
Turn ==
  /\ \/ serving' = ~serving /\ UNCHANGED <<collecting, sound>>
     \/ collecting' = ~collecting /\ UNCHANGED <<serving, sound>>
     \/ sound' = ~sound /\ UNCHANGED <<serving, collecting>>
  /\ UNCHANGED <<age, copies, copyAge, channel, report, delivered>>

-----------------------------------------------------------------------------
(* The copies. *)

\* verify: the copy answers the application as a restore would.
verify == sound

\* prune: the newest by name, whatever they hold.
prune(kept) == IF Len(kept) > KEEP THEN SubSeq(kept, Len(kept) - KEEP + 1, Len(kept)) ELSE kept

\* The copy is written, checked and counted; a cron that does not run does nothing.
BackUp ==
  /\ copies' = prune(Append(copies, verify))
  /\ copyAge' = 0
  /\ UNCHANGED <<site, channel, report, delivered>>

-----------------------------------------------------------------------------
(* The watch. *)

Addresses == IF serving THEN {} ELSE {"addresses"}

\* Faulty variant: a page that answers is taken for a site that lives.
OfThePage == IF serving THEN {} ELSE {"stories"}

\* Freshness, from the API: the newest story of a database that can be read.
Freshness == IF serving /\ sound /\ age <= MAX_AGE THEN {} ELSE {"stories"}
Service == IF serving THEN {} ELSE {"service"}
newest_backup == IF copies = <<>> \/ copyAge > BACKUP_MAX_AGE THEN {"backup"} ELSE {}
check == Addresses \cup Freshness \cup Service \cup newest_backup

\* No problem, no word; otherwise the channel, and the log in any case.
notify == IF channel = "works" THEN "sent" ELSE "logged"
Watch ==
  /\ report' = check
  /\ delivered' = IF check = {} THEN "quiet" ELSE notify
  /\ UNCHANGED <<site, copies, copyAge, channel>>

\* A file that is there is replaced with --force alone; the test message comes first, and
\* a channel that refuses it is not written.
SetChannel(force) ==
  /\ channel = "none" \/ force
  /\ channel' = "works"
  /\ UNCHANGED <<site, copies, copyAge, report, delivered>>

\* The bot is blocked or its token withdrawn.
ChannelRefuses ==
  /\ channel = "works" /\ channel' = "refuses"
  /\ UNCHANGED <<site, copies, copyAge, report, delivered>>

Next ==
  \/ Story \/ Hour \/ Turn \/ BackUp \/ Watch
  \/ \E force \in BOOLEAN : SetChannel(force)
  \/ ChannelRefuses
Spec == Init /\ [][Next]_vars

\* Time passes and cron runs the watch.
FairSpec == Spec /\ WF_vars(Hour) /\ WF_vars(Watch)

-----------------------------------------------------------------------------
(* Properties. *)

(* A collector that has stopped is told of, though every page still answers  *)
(* (docstring of watch_site.py): it collects again or the watch reports it.  *)
StopIsTold == []<>(collecting \/ report # {})
=============================================================================
