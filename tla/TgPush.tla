------------------------------- MODULE TgPush -------------------------------
(***************************************************************************)
(* The Telegram channel pusher, deploy/tg_push.py: the timer's tick, a     *)
(* tick started by hand, and the agent's post_parts, all writing one       *)
(* channel and one tg_posted table.                                        *)
(*                                                                         *)
(* A tick takes the lock file, reads its candidates and the recent posts,  *)
(* asks the JEV gate, reads the pacing figures and then walks its          *)
(* candidates newest first.  The walk checks the table live, but pacing    *)
(* and "have we told this already" use what the tick read at its start.    *)
(* Between a check and the message, and between the message and the row    *)
(* that records it, other processes run and the tick may be killed.        *)
(*                                                                         *)
(* Left out: --dry-run and --replay (they change neither channel nor       *)
(* table; see Rehearsal), --skip-lock (a run by hand, named by no script   *)
(* or unit, that takes no lock and removes the file when it ends), what    *)
(* CANDIDATE_LIMIT cuts off, the wording of a message, the audit tables    *)
(* jev_runs and jev_decisions, and the resolution of Google News links,    *)
(* which no other step reads.                                              *)
(***************************************************************************)
EXTENDS Integers, FiniteSets

CONSTANTS
  Stories,       \* article links
  Published,     \* [Stories -> Nat]: published_at
  Breaking,      \* priority 5 and above
  Picks,         \* channel_pick: the operator chose the story
  Recaps,        \* is_recap(title)
  Dull,          \* rejected by worth_posting for what they are, not their age
  Withheld,      \* may be kept off the pages: hidden, or caught by a filter rule
  Malformed,     \* validate_post finds a problem in the rendered message
  SimilarKey,    \* pairs <<s, t>>: the normalized original titles are similar
  SameEvent,     \* pairs <<s, t>>: same_event on both original titles
  SameEventKo,   \* pairs <<s, t>>: same_event of s's original title and t's posted title
  Ticks,         \* runs of tick(), the timer's and those started by hand
  Timer,         \* the runs systemd starts and kills after TickTimeout
  Agents,        \* runs of post_parts: --drain-outbox and --agent-json
  MaxPerHour, Hour, Cooldown, RecapCooldown, CompareWindow, MaxAge,
  BatchSize, JevLive, Limit,
  LockTTL, LockWritable, TickTimeout, TickPeriod,
  MaxClock,      \* bound: the run of the clock that is explored
  MaxMishaps     \* bound: kills, lost answers and failed commits

NoTime == -1
NoStory == "none"
Runs == Ticks \cup Agents
Pairs == Stories \X Stories

ASSUME DataAssumption ==
  /\ Published \in [Stories -> Nat]
  /\ \A s, t \in Stories : s # t => Published[s] # Published[t]
  /\ Breaking \subseteq Stories /\ Picks \subseteq Stories /\ Recaps \subseteq Stories
  /\ SimilarKey \subseteq Pairs /\ SameEvent \subseteq Pairs /\ SameEventKo \subseteq Pairs
  /\ NoStory \notin Stories
  /\ IsFiniteSet(Stories)

ASSUME RunAssumption ==
  /\ Timer \subseteq Ticks
  /\ Ticks \cap Agents = {}
  /\ IsFiniteSet(Runs)

ASSUME FigureAssumption ==
  /\ {MaxPerHour, Hour, Cooldown, RecapCooldown, CompareWindow, MaxAge, BatchSize, Limit,
      LockTTL, TickTimeout, TickPeriod, MaxClock, MaxMishaps} \subseteq Nat
  /\ {JevLive, LockWritable} \subseteq BOOLEAN
  /\ TickTimeout < LockTTL

VARIABLES
  clock,     \* seconds, in coarse units
  stored,    \* articles the collector has inserted
  sent,      \* messages of each story in the channel
  postedAt,  \* tg_posted.posted_at, NoTime when there is no row
  mode,      \* tg_posted.mode: "tick" stands for star and pick
  lockFile,  \* the stamp in LOCK_FILE, NoTime when there is none
  pc,        \* where each run is
  run,       \* the local variables of each run
  ended,     \* when each timer run last ended
  orphans,   \* history: messages whose row could not be written
  mishaps

vars == <<clock, stored, sent, postedAt, mode, lockFile, pc, run, ended, orphans, mishaps>>
table == <<postedAt, mode>>

(***************************************************************************)
(* The local variables of tick().  `recent` is the rows of the comparison  *)
(* window (keys, and the row part of tick_events); `seen` is what the walk *)
(* itself added to tick_events; `mine` is what it posted; `keep` needs no  *)
(* field, because rows are never deleted and the table is checked live.    *)
(***************************************************************************)
Local == [now: Nat, todo: SUBSET Stories, recent: SUBSET Stories, dup: SUBSET Stories,
          seen: SUBSET Stories, mine: SUBSET Stories, held: SUBSET Stories,
          last: Nat \cup {NoTime}, lastRecap: Nat \cup {NoTime}, inHour: Nat,
          item: Stories \cup {NoStory}]

Fresh == [now |-> 0, todo |-> {}, recent |-> {}, dup |-> {}, seen |-> {}, mine |-> {},
          held |-> {}, last |-> NoTime, lastRecap |-> NoTime, inHour |-> 0, item |-> NoStory]

Posted(s) == postedAt[s] # NoTime
RowsSince(cutoff) == {s \in Stories : Posted(s) /\ postedAt[s] >= cutoff}
Urgent == Breaking \cup Picks

(* MAX(posted_at) over the rows of S, NoTime when there is none (one element). *)
LatestRow(S) ==
  {m \in {NoTime} \cup {postedAt[s] : s \in S} : \A s \in S : postedAt[s] <= m}

(* The candidates in the order of the walk: no other one is newer. *)
Newest(S) == {s \in S : \A t \in S : Published[t] <= Published[s]}

Worth(s, now) == s \notin Dull /\ now - Published[s] <= MaxAge

(* The first BatchSize candidates that are unposted and worth posting. *)
JevBatch(r) ==
  LET probes == {s \in r.todo : ~Posted(s) /\ Worth(s, r.now)} IN
  {s \in probes : Cardinality({t \in probes : Published[t] > Published[s]}) < BatchSize}

Init ==
  /\ clock = 0
  /\ stored = {}
  /\ sent = [s \in Stories |-> 0]
  /\ postedAt = [s \in Stories |-> NoTime]
  /\ mode = [s \in Stories |-> "none"]
  /\ lockFile = NoTime
  /\ pc = [p \in Runs |-> "off"]
  /\ run = [p \in Runs |-> Fresh]
  /\ ended = [p \in Timer |-> -TickPeriod]
  /\ orphans = [s \in Stories |-> 0]
  /\ mishaps = 0

-----------------------------------------------------------------------------
(* The surroundings: time passes, the collector stores a story. *)

Overdue(p) == p \in Timer /\ pc[p] # "off" /\ clock - run[p].now >= TickTimeout

Advance ==
  /\ clock < MaxClock
  /\ \A p \in Timer : ~Overdue(p)
  /\ clock' = clock + 1
  /\ UNCHANGED <<stored, sent, table, lockFile, pc, run, ended, orphans, mishaps>>

Collect(s) ==
  /\ s \notin stored
  /\ Published[s] <= clock
  /\ stored' = stored \cup {s}
  /\ UNCHANGED <<clock, sent, table, lockFile, pc, run, ended, orphans, mishaps>>

(* The run ends here; systemd starts the next one TickPeriod later. *)
Stop(p) ==
  /\ pc' = [pc EXCEPT ![p] = "off"]
  /\ run' = [run EXCEPT ![p] = Fresh]
  /\ ended' = [q \in Timer |-> IF q = p THEN clock ELSE ended[q]]

-----------------------------------------------------------------------------
(* lock() and unlock(): the stamp is read first and written afterwards. *)

Locked == lockFile # NoTime /\ clock - lockFile < LockTTL

CheckLock(p) ==
  /\ pc[p] = "off"
  /\ p \in Timer => clock >= ended[p] + TickPeriod
  /\ IF Locked
     THEN Stop(p)
     ELSE /\ pc' = [pc EXCEPT ![p] = "locking"]
          /\ run' = [run EXCEPT ![p] = [@ EXCEPT !.now = clock]]
          /\ UNCHANGED ended
  /\ UNCHANGED <<clock, stored, sent, table, lockFile, orphans, mishaps>>

(* The stamp is written and tick() reads its candidates and recent posts.  A story the *)
(* pages do not show is no candidate, and is one again once they do.                    *)
BeginTick(p) ==
  /\ pc[p] = "locking"
  /\ lockFile' = IF LockWritable THEN clock ELSE lockFile
  /\ \E away \in SUBSET (stored \cap Withheld) :
       run' = [run EXCEPT ![p] = [@ EXCEPT !.now = clock, !.todo = stored \ away,
                                           !.recent = RowsSince(clock - CompareWindow)]]
  /\ pc' = [pc EXCEPT ![p] = "gauging"]
  /\ UNCHANGED <<clock, stored, sent, table, ended, orphans, mishaps>>

Unlock(p) ==
  /\ lockFile' = NoTime
  /\ Stop(p)

(* The JEV answer arrives, then the pacing figures are read. *)
Gauge(p) ==
  /\ p \in Ticks /\ pc[p] = "gauging"
  /\ \E dup \in SUBSET (IF JevLive THEN JevBatch(run[p]) ELSE {}),
        last \in LatestRow(Stories), lastRecap \in LatestRow(Recaps) :
       run' = [run EXCEPT ![p] = [@ EXCEPT !.dup = dup, !.last = last, !.lastRecap = lastRecap,
                                           !.inHour = Cardinality(RowsSince(run[p].now - Hour))]]
  /\ pc' = [pc EXCEPT ![p] = "scanning"]
  /\ UNCHANGED <<clock, stored, sent, table, lockFile, ended, orphans, mishaps>>

-----------------------------------------------------------------------------
(* The walk over the candidates. *)

(* Faulty variant: the title comparison forgets what the walk itself saw. *)
AlreadyToldRowsOnly(s, r) ==
  \/ s \in r.dup /\ s \notin Picks
  \/ \E t \in r.recent \cup r.mine : <<s, t>> \in SimilarKey
  \/ \E t \in r.recent : <<s, t>> \in SameEventKo

AlreadyTold(s, r) ==
  \/ s \in r.dup /\ s \notin Picks
  \/ \E t \in r.recent \cup r.mine : <<s, t>> \in SimilarKey
  \/ \E t \in r.recent : <<s, t>> \in SameEventKo
  \/ \E t \in r.seen : <<s, t>> \in SameEvent

RecapHeld(s, r) ==
  s \in Recaps \ Picks /\ r.lastRecap # NoTime /\ r.now - r.lastRecap < RecapCooldown

Eligible(s, r) ==
  /\ r.inHour < MaxPerHour
  /\ s \in Urgent \/ r.last = NoTime \/ r.now - r.last >= Cooldown

(* Faulty variant: only the posts of the comparison window are looked up. *)
VerdictRecentOnly(s, r) ==
  IF s \in r.recent \cup r.mine \/ ~Worth(s, r.now) THEN "skip"
  ELSE IF AlreadyTold(s, r) THEN "told"
  ELSE IF RecapHeld(s, r) \/ ~Eligible(s, r) THEN "hold"
  ELSE IF s \in Malformed THEN "misshapen"
  ELSE "send"

(* What the loop body does with s, in the order of its early exits. *)
Verdict(s, r) ==
  IF Posted(s) \/ ~Worth(s, r.now) THEN "skip"
  ELSE IF AlreadyTold(s, r) THEN "told"
  ELSE IF RecapHeld(s, r) \/ ~Eligible(s, r) THEN "hold"
  ELSE IF s \in Malformed THEN "misshapen"
  ELSE "send"

LimitReached(r) == Limit > 0 /\ Cardinality(r.mine) >= Limit

(* The walk's variables after s: everything but a skip enters tick_events. *)
Walked(r, s, verdict) ==
  [r EXCEPT !.todo = @ \ {s},
            !.seen = IF verdict = "skip" THEN @ ELSE @ \cup {s},
            !.held = IF verdict = "hold" THEN @ \cup {s} ELSE @,
            !.item = IF verdict = "send" THEN s ELSE NoStory]

(* Faulty variant: a skipped story is kept. *)
ConsiderKeepsSkipped(p) ==
  /\ pc[p] = "scanning" /\ run[p].todo # {}
  /\ \E s \in Newest(run[p].todo) : LET verdict == Verdict(s, run[p]) IN
     /\ run' = IF verdict = "skip" THEN run ELSE [run EXCEPT ![p] = Walked(@, s, verdict)]
     /\ pc' = [pc EXCEPT ![p] = IF verdict = "send" THEN "sending" ELSE @]
  /\ UNCHANGED <<clock, stored, sent, table, lockFile, ended, orphans, mishaps>>

Consider(p) ==
  /\ pc[p] = "scanning" /\ run[p].todo # {} /\ ~LimitReached(run[p])
  /\ \E s \in Newest(run[p].todo) : LET verdict == Verdict(s, run[p]) IN
     /\ run' = [run EXCEPT ![p] = Walked(@, s, verdict)]
     /\ pc' = [pc EXCEPT ![p] = IF verdict = "send" THEN "sending" ELSE @]
  /\ UNCHANGED <<clock, stored, sent, table, lockFile, ended, orphans, mishaps>>

Leave(p) ==
  /\ \/ pc[p] = "leaving"
     \/ pc[p] = "scanning" /\ (run[p].todo = {} \/ LimitReached(run[p]))
  /\ Unlock(p)
  /\ UNCHANGED <<clock, stored, sent, table, orphans, mishaps>>

-----------------------------------------------------------------------------
(* post_parts(): no lock, no pacing, no age; the JEV gate before the check. *)

BeginPost(p, s) ==
  /\ p \in Agents /\ pc[p] = "off"
  /\ s \in stored
  /\ pc' = [pc EXCEPT ![p] = "gauging"]
  /\ run' = [run EXCEPT ![p] = [@ EXCEPT !.now = clock, !.item = s]]
  /\ UNCHANGED <<clock, stored, sent, table, lockFile, ended, orphans, mishaps>>

CheckPost(p) ==
  /\ p \in Agents /\ pc[p] = "gauging"
  /\ LET s == run[p].item
         fit == s \notin Malformed /\ ~Posted(s) IN
     \/ /\ fit
        /\ pc' = [pc EXCEPT ![p] = "sending"]
        /\ UNCHANGED <<run, ended>>
     \/ /\ ~fit \/ JevLive \/ s \in Dull
        /\ Stop(p)
  /\ UNCHANGED <<clock, stored, sent, table, lockFile, orphans, mishaps>>

-----------------------------------------------------------------------------
(* send() and the row that follows it, the same code in both paths. *)

(* A tick goes on with its next candidate, post_parts returns. *)
Resume(p, at) ==
  IF p \in Agents THEN Stop(p)
  ELSE /\ pc' = [pc EXCEPT ![p] = at]
       /\ UNCHANGED <<run, ended>>

Accepted(p) ==
  /\ pc[p] = "sending"
  /\ sent' = [sent EXCEPT ![run[p].item] = @ + 1]
  /\ pc' = [pc EXCEPT ![p] = "recording"]
  /\ UNCHANGED <<clock, stored, table, lockFile, run, ended, orphans, mishaps>>

(* Telegram refuses: HTTP 429 ends the tick, any other error skips the item. *)
Refused(p) ==
  /\ pc[p] = "sending"
  /\ \E at \in {"scanning", "leaving"} : Resume(p, at)
  /\ UNCHANGED <<clock, stored, sent, table, lockFile, orphans, mishaps>>

(* Telegram took the message and the answer was lost: for the code, a failure. *)
AnswerLost(p) ==
  /\ pc[p] = "sending" /\ mishaps < MaxMishaps
  /\ sent' = [sent EXCEPT ![run[p].item] = @ + 1]
  /\ orphans' = [orphans EXCEPT ![run[p].item] = @ + 1]
  /\ mishaps' = mishaps + 1
  /\ Resume(p, "scanning")
  /\ UNCHANGED <<clock, stored, table, lockFile>>

(* Faulty variant: the count of the running tick is not kept up. *)
RecordedNoCount(r, s) ==
  [r EXCEPT !.mine = @ \cup {s}, !.last = r.now,
            !.lastRecap = IF s \in Recaps THEN r.now ELSE @]
Recorded(r, s) ==
  [r EXCEPT !.mine = @ \cup {s}, !.last = r.now, !.inHour = @ + 1,
            !.lastRecap = IF s \in Recaps THEN r.now ELSE @]

Record(p) ==
  /\ pc[p] = "recording"
  /\ LET s == run[p].item IN
     /\ postedAt' = [postedAt EXCEPT ![s] = run[p].now]
     /\ mode' = [mode EXCEPT ![s] = IF p \in Agents THEN "agent" ELSE "tick"]
     /\ IF p \in Agents THEN Stop(p)
        ELSE /\ pc' = [pc EXCEPT ![p] = "scanning"]
             /\ run' = [run EXCEPT ![p] = Recorded(@, s)]
             /\ UNCHANGED ended
  /\ UNCHANGED <<clock, stored, sent, lockFile, orphans, mishaps>>

(* The message that a run leaves in the channel without a row. *)
Abandon(p) ==
  orphans' = IF pc[p] = "recording" THEN [orphans EXCEPT ![run[p].item] = @ + 1] ELSE orphans

(* The INSERT raises (the database stays locked): `finally` still unlocks. *)
RecordFails(p) ==
  /\ pc[p] = "recording" /\ mishaps < MaxMishaps
  /\ mishaps' = mishaps + 1
  /\ Abandon(p)
  /\ IF p \in Agents THEN Stop(p) /\ UNCHANGED lockFile ELSE Unlock(p)
  /\ UNCHANGED <<clock, stored, sent, table>>

(* SIGKILL, a reboot, or TimeoutStartSec: nothing runs, not even unlock(). *)
Kill(p) ==
  /\ pc[p] # "off"
  /\ mishaps < MaxMishaps \/ Overdue(p)
  /\ mishaps' = IF Overdue(p) THEN mishaps ELSE mishaps + 1
  /\ Abandon(p)
  /\ Stop(p)
  /\ UNCHANGED <<clock, stored, sent, table, lockFile>>

-----------------------------------------------------------------------------
TickStep(p) == CheckLock(p) \/ BeginTick(p) \/ Gauge(p) \/ Consider(p) \/ Leave(p)
PostStep(p) == (\E s \in Stories : BeginPost(p, s)) \/ CheckPost(p)
SendStep(p) == Accepted(p) \/ Refused(p) \/ AnswerLost(p) \/ Record(p) \/ RecordFails(p)

Next ==
  \/ Advance
  \/ \E s \in Stories : Collect(s)
  \/ \E p \in Ticks : TickStep(p)
  \/ \E p \in Agents : PostStep(p)
  \/ \E p \in Runs : SendStep(p) \/ Kill(p)

Spec == Init /\ [][Next]_vars

(* systemd keeps the timer going and a started run keeps running. *)
FairSpec ==
  /\ Spec
  /\ \A p \in Ticks : WF_vars(BeginTick(p) \/ Gauge(p) \/ Consider(p) \/ Leave(p) \/ SendStep(p))
  /\ \A p \in Agents : WF_vars(CheckPost(p) \/ SendStep(p))

-----------------------------------------------------------------------------
(* Properties. *)

(* The shape of every variable; a run that sends or records has its story.   *)
TypeOK ==
  /\ clock \in Nat
  /\ stored \subseteq Stories
  /\ sent \in [Stories -> Nat]
  /\ postedAt \in [Stories -> Nat \cup {NoTime}]
  /\ mode \in [Stories -> {"none", "tick", "agent"}]
  /\ lockFile \in Nat \cup {NoTime}
  /\ pc \in [Runs -> {"off", "locking", "gauging", "scanning", "sending", "recording", "leaving"}]
  /\ run \in [Runs -> Local]
  /\ \A p \in Runs : pc[p] \in {"sending", "recording"} => run[p].item \in Stories
  /\ \A p \in Agents : pc[p] = "gauging" => run[p].item \in Stories
  /\ ended \in [Timer -> Int]
  /\ orphans \in [Stories -> Nat]
  /\ mishaps \in Nat

(* One run at a time: every message of a story is accounted for exactly once *)
(* by a row, by a run that is about to write the row, or by a mishap that    *)
(* kept the row from being written; nothing else repeats a story (tick's     *)
(* check, send, INSERT sequence).                                            *)
Recording(s) == {p \in Runs : pc[p] = "recording" /\ run[p].item = s}
Ledger ==
  \A s \in Stories :
    sent[s] = orphans[s] + (IF Posted(s) THEN 1 ELSE 0) + Cardinality(Recording(s))

(* When runs overlap, each of them can pass the table check for a story once *)
(* before the first row is written, so the messages no mishap explains are   *)
(* at most as many as the runs that overlapped.                              *)
OverlapBound ==
  \A s \in Stories : sent[s] - orphans[s] <= Cardinality(Runs)

(* posts_within and eligible: no window of an hour that ends with a tick's   *)
(* post holds more than MaxPerHour posts of ticks, although each tick counts *)
(* them once, at its start, and an agent may post while it runs.             *)
ByTick(s) == Posted(s) /\ mode[s] = "tick"
HourlyCap ==
  \A s \in Stories : ByTick(s) =>
    Cardinality({t \in Stories : ByTick(t) /\ postedAt[t] <= postedAt[s]
                                 /\ postedAt[t] >= postedAt[s] - Hour}) <= MaxPerHour

(* eligible: an ordinary story follows any earlier post of a tick at the     *)
(* cooldown's distance, and shares its tick with no other ordinary story.    *)
OrdinaryGap ==
  \A s, t \in Stories :
    (s # t /\ ByTick(s) /\ ByTick(t) /\ s \notin Urgent) =>
      /\ postedAt[t] < postedAt[s] => postedAt[s] - postedAt[t] >= Cooldown
      /\ postedAt[t] = postedAt[s] => t \in Urgent

(* tick's duplicate checks: two posts of ticks inside the comparison window  *)
(* never carry similar titles, and two posts of one tick never tell the same *)
(* event, whichever was considered first.                                    *)
NoRetelling ==
  \A s, t \in Stories :
    (s # t /\ ByTick(s) /\ ByTick(t) /\ postedAt[s] - postedAt[t] \in 0..CompareWindow) =>
      /\ <<s, t>> \notin SimilarKey
      /\ postedAt[s] = postedAt[t] => <<s, t>> \notin SameEvent
      /\ postedAt[s] > postedAt[t] => <<s, t>> \notin SameEventKo

(* The table keeps the promise of Outlet: only unrecorded stories are        *)
(* published, only published ones recorded, whatever is killed or lost.      *)
Promise == INSTANCE Outlet WITH told <- sent, recorded <- {s \in Stories : Posted(s)}
KeepsPromise == Promise!Spec

(* Every started run comes to an end and lets the next one in: a tick by     *)
(* leaving or by being killed, post_parts by returning.                      *)
RunsEnd == \A p \in Runs : pc[p] \notin {"off", "locking"} ~> pc[p] = "off"

(* Ticks keep their distance and do not repeat themselves: what posts_within, *)
(* eligible and the duplicate checks are for, together.                       *)
Pacing == OrdinaryGap /\ NoRetelling

(* The shape of the variables, the hourly cap on ticks beside an agent that   *)
(* posts meanwhile, and what an overlap of runs can cost at most.             *)
WithinCaps == TypeOK /\ HourlyCap /\ OverlapBound
=============================================================================
