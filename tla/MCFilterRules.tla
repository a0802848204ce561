---------------------------- MODULE MCFilterRules -----------------------------
(* Small instances of FilterRules, and of components beside it that share  *)
(* nothing with it nor with each other: in a behaviour one of them moves.   *)
EXTENDS FilterRules, Integers, Sequences, TLC

CONSTANTS l1, l2, l3, p1, p2, c1, c2, Lanes, None, Redirect,
  \* Of the components beside FilterRules; their modules say what each is.
  CalendarEntries, CalendarCountries, CalendarThreads, CalendarFailSets, FirstHalf, LastHalf,
  SessionThreads, Browsers, Passwords, TTL, FAIL_LIMIT, FAIL_WINDOW, MaxClock, MaxLogins,
  DeskThreads, DeskStories, NewsSources, PickNotes, Intervals, DEFAULT_INTERVAL, MIN_INTERVAL,
  MAX_INTERVAL, MaxAnswers,
  LearnerStories, LearnerTitle, LearnerSummary, LearnerBroken, STOP, Short, PHRASE_MIN, PHRASE_MAX,
  LEAD, HIDDEN_MIN, WORD_HIDDEN_MIN, LIMIT, KEPT_MIN, KEPT_TIMES, ByHand, LearnerThreads, MaxLearned,
  ArchiveStories, ArchivePosts, Labels, LabelOf, FileLabel, Uploads, MaxTools,
  BoardPosts, Boarded, OldPosts, Texts, Blank,
  PublishRuns, RunKind(_), RunCommit(_),
  ScoredStories, ScoredAt, RuleMatched, ScoreRuns, BATCH, ScoreLimit, SCORE_HOURS, ScoreDay, ScoreAnswers,
  ScoredWords, WholeWord, WithinWord, BOUNDARY_TERMS, NonLatin, RuleReleases, GENERIC_CATEGORY,
  PublicLinks, PublicAt(_), PublicKey(_), PublicLeads(_), PublicAggregated(_), PublicEvent(_),
  PublicPriority, PublicKept, EVENT_HOURS, MAX_PER_REGION, LINK_RESOLVE_PER_RUN, LastHour

ASSUME CalendarAssumption ==
  /\ FirstHalf \in Nat
  /\ \A e \in CalendarEntries :
       /\ e.feed \in {"econ", "earnings", "potus"}
       /\ e.id \in Nat /\ e.half \in Nat /\ e.name \in Seq(STRING)
ASSUME SessionsAssumption ==
  /\ IsFiniteSet(SessionThreads)
  /\ FAIL_LIMIT \in Nat \ {0} /\ FAIL_WINDOW \in Nat /\ TTL \in Nat
\* A commit is not the name of a run, nor is "before", and no file is not a file.
ASSUME PublishingAssumption ==
  /\ \A r \in PublishRuns : RunKind(r) \in {"update", "seed"} /\ RunCommit(r) \notin PublishRuns
  /\ "before" \notin PublishRuns
  /\ None \notin [build : PublishRuns, whole : BOOLEAN]
\* Stories are numbered; a category's name has parts, an answer numbered lines.
ASSUME ScoringAssumption ==
  /\ IsFiniteSet(ScoredStories) /\ ScoredStories \subseteq Nat /\ ScoredAt \in [ScoredStories -> Nat]
  /\ BATCH \in Nat \ {0} /\ ScoreLimit \in Nat
  /\ ScoreAnswers \subseteq Seq([id : Int, score : Int])
  /\ GENERIC_CATEGORY \in Seq(STRING)
  /\ RuleReleases \in Seq(Seq([name : Seq(STRING), terms : SUBSET STRING, context : SUBSET STRING]))
  /\ RuleReleases # <<>>
ASSUME PublicAssumption ==
  /\ IsFiniteSet(PublicLinks) /\ PublicLinks \subseteq Nat /\ \A l \in PublicLinks : PublicAt(l) \in Nat
  /\ MAX_PER_REGION \in Nat

MCCallers == Permutations({c1, c2})

\* Rules that share no story, and rules that do.
MCDisjoint == {<<p1, l1>>, <<p2, l2>>}
MCShared == {<<p1, l1>>, <<p1, l2>>, <<p2, l2>>}

\* The component that moves; the others stay in an initial state of theirs.
VARIABLES lane,
  calendar_now, calendar_out, calendar_fedOut, calendar_stale, calendar_payload, calendar_build,
  calendar_names,
  sessions_clock, sessions_password, sessions_failures, sessions_revoked, sessions_jar,
  sessions_req, sessions_issued, sessions_signedOut,
  desk_hidden_links, desk_picked_links, desk_hidden_sources, desk_stored, desk_interval, desk_req,
  desk_answers, desk_page, desk_raced,
  learner_stored, learner_hidden, learner_rules, learner_nextId, learner_press,
  archive_current, archive_incoming, archive_copies, archive_service, archive_rules, archive_tool,
  archive_tools, archive_ever,
  publicjson_now, publicjson_file,
  cutover_post, cutover_row, cutover_head, cutover_release, cutover_serving, cutover_stage,
  cutover_rebackfill, cutover_pre, cutover_backup, cutover_latest,
  publishing_served, publishing_temp, publishing_complete, publishing_stage, publishing_step,
  publishing_copied,
  scoring_clock, scoring_stored, scoring_caught, scoring_ai_priority, scoring_run, scoring_meant,
  scoring_release, scoring_categories

calendarVars == <<calendar_now, calendar_out, calendar_fedOut, calendar_stale, calendar_payload,
    calendar_build, calendar_names>>
sessionsVars == <<sessions_clock, sessions_password, sessions_failures, sessions_revoked,
    sessions_jar, sessions_req, sessions_issued, sessions_signedOut>>
deskVars == <<desk_hidden_links, desk_picked_links, desk_hidden_sources, desk_stored, desk_interval,
    desk_req, desk_answers, desk_page, desk_raced>>
learnerVars == <<learner_stored, learner_hidden, learner_rules, learner_nextId, learner_press>>
archiveVars == <<archive_current, archive_incoming, archive_copies, archive_service, archive_rules,
    archive_tool, archive_tools, archive_ever>>
publicjsonVars == <<publicjson_now, publicjson_file>>
cutoverVars == <<cutover_post, cutover_row, cutover_head, cutover_release, cutover_serving,
    cutover_stage, cutover_rebackfill, cutover_pre, cutover_backup, cutover_latest>>
publishingVars == <<publishing_served, publishing_temp, publishing_complete, publishing_stage,
    publishing_step, publishing_copied>>
scoringVars == <<scoring_clock, scoring_stored, scoring_caught, scoring_ai_priority, scoring_run,
    scoring_meant, scoring_release, scoring_categories>>
allVars == <<lane, vars, calendarVars, sessionsVars, deskVars, learnerVars, archiveVars,
    publicjsonVars, cutoverVars, publishingVars, scoringVars>>

\* Two releases of one moment, one of the next, a speech, a result and a remark.
CalendarEntry(id, feed, half, country, words, name) ==
  [id |-> id, feed |-> feed, half |-> half, country |-> country, words |-> words, name |-> name]
MCCalendarEntries ==
  {CalendarEntry(1, "econ", 4, "US", {"timed", "level3"}, <<"cpi">>),
   CalendarEntry(2, "econ", 4, "US", {"timed", "level3"}, <<"cpi", "core">>),
   CalendarEntry(3, "econ", 5, "US", {"timed", "level3"}, <<"decision">>),
   CalendarEntry(4, "econ", 9, "EU", {"timed", "speak", "voter"}, <<"speech">>),
   CalendarEntry(5, "earnings", 6, "US", {"mega", "after"}, <<"result">>),
   CalendarEntry(6, "potus", 7, "US", {"timed", "keep"}, <<"remarks">>)}
\* No page fails, all do, or one day's.
MCCalendarFailSets ==
  {{}, ({"econ"} \X (0..4)) \cup ({"earnings"} \X (1..3)) \cup {<<"potus", 2>>}, {<<"econ", 1>>}}

MCLearnerTitle == << <<"bloomberg", "news", "tonight", "fed">>, <<"bloomberg", "news", "tonight", "oil">>,
                     <<"the", "oil", "bloomberg">> >>
MCLearnerSummary == << <<>>, <<>>, <<"bloomberg", "news">> >>
MCLearnerBroken == {<<2, 2>>}
MCByHand == {<<"oil">>}

\* New rules file story 1 elsewhere; an upload with a table of hidden stories, and one without.
MCLabelOf ==
  [x \in {"old", "new"} \X (1..3) |-> IF x[1] = "new" /\ x[2] = 1 THEN "b" ELSE "a"]
MCFileLabel == 3 :> "blog"
MCUploads ==
  {[articles |-> <<"c", "a", None>>, hidden |-> {2}], [articles |-> <<None, "c", None>>, hidden |-> None]}

\* A flood and a rain under one address; a rate cut from an outlet, a wire and the alert service.
MCPublicAt(l) == <<1, 2, 2, 3, 2>>[l]
MCPublicKey(l) == <<"flood", "rain", "rates", "fed", "rates">>[l]
MCPublicLeads(l) == <<"outlet/flood", "outlet/flood", "outlet/rates", "wire/fed", "alert/rates">>[l]
MCPublicAggregated(l) == l \in {1, 3}
RateCut(actors, targets, amounts) ==
  [actors |-> actors, action |-> "cut_rate", targets |-> targets, amounts |-> amounts]
MCPublicEvent(l) ==
  <<None, None, RateCut({"fed", "us"}, {"us"}, {}), RateCut({"fed"}, {"us"}, {"25"}),
    RateCut({"fed"}, {"us"}, {"50"})>>[l]

MCRunKind(r) == IF r = "s1" THEN "seed" ELSE "update"
MCRunCommit(r) == "c"

MCScoreAnswers ==
  {<<>>, <<[id |-> 1, score |-> 2]>>,
   <<[id |-> 1, score |-> 5], [id |-> 1, score |-> 6], [id |-> 2, score |-> 4]>>}
MCScoredAt == <<1, 2>>
MCScoredWords == << {"repo", "white house", "visa"}, {"reports", "visa", "thailand"} >>
MCWholeWord == {<<w, w>> : w \in {"repo", "visa", "white house", "thailand"}}
MCWithinWord == {<<"repo", "reports">>}
MCGeneric == <<"general">>
\* A combined category is split, its first part is renamed away, a new one needs its place named.
ScoringRule(name, term, context) == [name |-> name, terms |-> {term}, context |-> context]
MCRuleReleases ==
  << <<ScoringRule(<<"liquidity", "rates">>, "repo", {}),
       ScoringRule(<<"us policy", "trump">>, "white house", {})>>,
     <<ScoringRule(<<"rates">>, "repo", {}), ScoringRule(<<"us policy">>, "white house", {}),
       ScoringRule(<<"visa", "immigration">>, "visa", {"thailand"})>>,
     <<ScoringRule(<<"rates">>, "repo", {}), ScoringRule(<<"trump">>, "white house", {}),
       ScoringRule(<<"visa", "immigration">>, "visa", {"thailand"})>> >>

calendar == INSTANCE Calendar WITH
  Entries <- CalendarEntries, Countries <- CalendarCountries, Threads <- CalendarThreads,
  FailSets <- CalendarFailSets, FirstHalf <- FirstHalf, LastHalf <- LastHalf, None <- None,
  now <- calendar_now, out <- calendar_out, fedOut <- calendar_fedOut, stale <- calendar_stale,
  payload <- calendar_payload, build <- calendar_build, names <- calendar_names

sessions == INSTANCE AdminSessions WITH
  Threads <- SessionThreads, Browsers <- Browsers, Passwords <- Passwords, TTL <- TTL,
  FAIL_LIMIT <- FAIL_LIMIT, FAIL_WINDOW <- FAIL_WINDOW, MaxClock <- MaxClock,
  MaxLogins <- MaxLogins, None <- None, clock <- sessions_clock, password <- sessions_password,
  failures <- sessions_failures, revoked <- sessions_revoked, jar <- sessions_jar,
  req <- sessions_req, issued <- sessions_issued, signedOut <- sessions_signedOut

desk == INSTANCE OperatorDesk WITH
  Threads <- DeskThreads, Links <- DeskStories, Sources <- NewsSources, Notes <- PickNotes,
  Intervals <- Intervals, DEFAULT_INTERVAL <- DEFAULT_INTERVAL, MIN_INTERVAL <- MIN_INTERVAL,
  MAX_INTERVAL <- MAX_INTERVAL, MaxAnswers <- MaxAnswers, None <- None,
  hidden_links <- desk_hidden_links, picked_links <- desk_picked_links,
  hidden_sources <- desk_hidden_sources, stored <- desk_stored, interval <- desk_interval,
  req <- desk_req, answers <- desk_answers, page <- desk_page, raced <- desk_raced

learner == INSTANCE Learner WITH
  Stories <- LearnerStories, Title <- LearnerTitle, Summary <- LearnerSummary,
  Broken <- LearnerBroken, STOP <- STOP, Short <- Short, PHRASE_MIN <- PHRASE_MIN,
  PHRASE_MAX <- PHRASE_MAX, LEAD <- LEAD, HIDDEN_MIN <- HIDDEN_MIN,
  WORD_HIDDEN_MIN <- WORD_HIDDEN_MIN, LIMIT <- LIMIT, KEPT_MIN <- KEPT_MIN,
  KEPT_TIMES <- KEPT_TIMES, ByHand <- ByHand, Threads <- LearnerThreads, MaxRules <- MaxLearned,
  stored <- learner_stored, hidden <- learner_hidden, rules <- learner_rules,
  nextId <- learner_nextId, press <- learner_press

archive == INSTANCE Archive WITH
  Stories <- ArchiveStories, Posts <- ArchivePosts, Labels <- Labels, LabelOf <- LabelOf,
  FileLabel <- FileLabel, Uploads <- Uploads, NoFile <- None, NoTable <- None, Absent <- None,
  MaxTools <- MaxTools, current <- archive_current, incoming <- archive_incoming,
  copies <- archive_copies, service <- archive_service, rules <- archive_rules,
  tool <- archive_tool, tools <- archive_tools, ever <- archive_ever

publicjson == INSTANCE PublicJson WITH
  Links <- PublicLinks, At <- PublicAt, Key <- PublicKey, Leads <- PublicLeads,
  is_aggregator <- PublicAggregated, Event <- PublicEvent, Priority <- PublicPriority,
  KEEP_HOURS <- PublicKept, WINDOW_HOURS <- EVENT_HOURS, MAX_PER_REGION <- MAX_PER_REGION,
  LINK_RESOLVE_PER_RUN <- LINK_RESOLVE_PER_RUN, LastHour <- LastHour, Redirect <- Redirect,
  Nothing <- None, now <- publicjson_now, file <- publicjson_file

cutover == INSTANCE Cutover WITH
  Posts <- BoardPosts, Boarded <- Boarded, Old <- OldPosts, Texts <- Texts, Blank <- Blank,
  None <- None, post <- cutover_post, row <- cutover_row, head <- cutover_head,
  release <- cutover_release, serving <- cutover_serving, stage <- cutover_stage,
  rebackfill <- cutover_rebackfill, pre <- cutover_pre, backup <- cutover_backup,
  latest <- cutover_latest

publishing == INSTANCE Publishing WITH
  Runs <- PublishRuns, Kind <- RunKind, Commit <- RunCommit, None <- None,
  served <- publishing_served, temp <- publishing_temp, complete <- publishing_complete,
  stage <- publishing_stage, step <- publishing_step, copied <- publishing_copied

scoring == INSTANCE Scoring WITH
  Stories <- ScoredStories, Published <- ScoredAt, Matched <- RuleMatched, Runs <- ScoreRuns,
  BATCH <- BATCH, Limit <- ScoreLimit, WINDOW_HOURS <- SCORE_HOURS, Day <- ScoreDay,
  Answers <- ScoreAnswers, Words <- ScoredWords, Whole <- WholeWord, Within <- WithinWord,
  BOUNDARY_TERMS <- BOUNDARY_TERMS, NonLatin <- NonLatin, Releases <- RuleReleases,
  GENERIC_CATEGORY <- GENERIC_CATEGORY, MaxClock <- MaxClock, None <- None, clock <- scoring_clock,
  stored <- scoring_stored, caught <- scoring_caught, ai_priority <- scoring_ai_priority,
  run <- scoring_run, meant <- scoring_meant, release <- scoring_release,
  categories <- scoring_categories

LaneInit ==
  /\ lane \in Lanes /\ Init
  /\ lane = "rules" \/ \A r \in Ids : pattern[r] = p1
  /\ calendar!Init
  /\ sessions!Init
  /\ lane = "sessions" \/ sessions_password = 1
  /\ desk!Init
  /\ learner!Init
  /\ archive!Init
  /\ publicjson!Init
  /\ cutover!Init
  /\ lane = "cutover" \/ cutover_post = [p \in BoardPosts |-> IF p \in OldPosts THEN CHOOSE t \in Texts : TRUE ELSE None]
  /\ publishing!Init
  /\ scoring!Init

RulesStep(A) == lane = "rules" /\ A /\ UNCHANGED <<lane, calendarVars, sessionsVars, deskVars,
      learnerVars, archiveVars, publicjsonVars, cutoverVars, publishingVars, scoringVars>>
CalendarStep(A) == lane = "calendar" /\ A /\ UNCHANGED <<lane, vars, sessionsVars, deskVars,
      learnerVars, archiveVars, publicjsonVars, cutoverVars, publishingVars, scoringVars>>
SessionsStep(A) == lane = "sessions" /\ A /\ UNCHANGED <<lane, vars, calendarVars, deskVars,
      learnerVars, archiveVars, publicjsonVars, cutoverVars, publishingVars, scoringVars>>
DeskStep(A) == lane = "desk" /\ A /\ UNCHANGED <<lane, vars, calendarVars, sessionsVars,
      learnerVars, archiveVars, publicjsonVars, cutoverVars, publishingVars, scoringVars>>
LearnerStep(A) == lane = "learner" /\ A /\ UNCHANGED <<lane, vars, calendarVars, sessionsVars,
      deskVars, archiveVars, publicjsonVars, cutoverVars, publishingVars, scoringVars>>
ArchiveStep(A) == lane = "archive" /\ A /\ UNCHANGED <<lane, vars, calendarVars, sessionsVars,
      deskVars, learnerVars, publicjsonVars, cutoverVars, publishingVars, scoringVars>>
PublicjsonStep(A) == lane = "publicjson" /\ A /\ UNCHANGED <<lane, vars, calendarVars, sessionsVars,
      deskVars, learnerVars, archiveVars, cutoverVars, publishingVars, scoringVars>>
CutoverStep(A) == lane = "cutover" /\ A /\ UNCHANGED <<lane, vars, calendarVars, sessionsVars,
      deskVars, learnerVars, archiveVars, publicjsonVars, publishingVars, scoringVars>>
PublishingStep(A) == lane = "publishing" /\ A /\ UNCHANGED <<lane, vars, calendarVars, sessionsVars,
      deskVars, learnerVars, archiveVars, publicjsonVars, cutoverVars, scoringVars>>
ScoringStep(A) == lane = "scoring" /\ A /\ UNCHANGED <<lane, vars, calendarVars, sessionsVars,
      deskVars, learnerVars, archiveVars, publicjsonVars, cutoverVars, publishingVars>>

LaneNext ==
  \/ \E batch \in SUBSET Links : RulesStep(Collect(batch))
  \/ \E l \in Links :
       \/ RulesStep(Age(l)) \/ RulesStep(Keep(l)) \/ RulesStep(Unkeep(l))
  \/ \E c \in Callers :
       \/ RulesStep(Rescan(c)) \/ \E p \in Patterns : RulesStep(AddRule(c, p))
  \/ \E c \in Callers, r \in Ids :
       \/ \E enabled \in BOOLEAN : RulesStep(Switch(c, r, enabled))
       \/ \E p \in Patterns : RulesStep(Reword(c, r, p))
       \/ RulesStep(Drop(c, r)) \/ RulesStep(DeleteRule(c, r))
  \/ RulesStep(Restart)
  \/ \E t \in CalendarThreads :
       \/ CalendarStep(calendar!Serve(t)) \/ CalendarStep(calendar!collect(t))
       \/ CalendarStep(calendar!Attach(t)) \/ CalendarStep(calendar!Store(t))
  \/ CalendarStep(calendar!Age) \/ CalendarStep(calendar!Tick) \/ CalendarStep(calendar!Forget)
  \/ CalendarStep(calendar!Statement)
  \/ \E e \in CalendarEntries : CalendarStep(calendar!Result(e))
  \/ \E t \in SessionThreads, b \in Browsers :
       \/ SessionsStep(sessions!Logout(t, b)) \/ SessionsStep(sessions!Send(t, b))
       \/ \E p \in Passwords : SessionsStep(sessions!Login(t, b, p))
  \/ \E t \in SessionThreads :
       \/ SessionsStep(sessions!CheckLogin(t)) \/ SessionsStep(sessions!Issue(t))
       \/ SessionsStep(sessions!Gate(t)) \/ SessionsStep(sessions!Served(t))
  \/ SessionsStep(sessions!Tick) \/ SessionsStep(sessions!Restart)
  \/ \E p \in Passwords \cup {0} : SessionsStep(sessions!ChangePassword(p))
  \/ \E t \in DeskThreads, l \in DeskStories :
       \/ DeskStep(desk!hideStory(t, l)) \/ DeskStep(desk!Restore(t, l))
       \/ \E note \in PickNotes, picked \in BOOLEAN : DeskStep(desk!togglePick(t, l, note, picked))
  \/ \E t \in DeskThreads :
       \/ DeskStep(desk!Undo(t))
       \/ \E s \in NewsSources : DeskStep(desk!switchSource(t, s))
       \/ DeskStep(desk!set_source_hidden(t))
       \/ \E n \in Intervals : DeskStep(desk!set_interval(t, n))
       \/ DeskStep(desk!interval_text(t)) \/ DeskStep(desk!setting_set(t))
  \/ DeskStep(desk!loadHidden) \/ DeskStep(desk!loadSourceSwitches) \/ DeskStep(desk!Restart)
  \/ \E a \in desk_answers : DeskStep(desk!Hear(a)) \/ DeskStep(desk!Lose(a))
  \/ \E t \in LearnerThreads :
       \/ LearnerStep(learner!Learn(t))
       \/ \E c \in learner_press[t].proposals : LearnerStep(learner!Propose(t, c))
  \/ \E s \in LearnerStories :
       \/ LearnerStep(learner!Store(s)) \/ LearnerStep(learner!Hide(s))
       \/ LearnerStep(learner!Unhide(s))
  \/ \E p \in ByHand : LearnerStep(learner!AddByHand(p))
  \/ \E r \in learner_rules : LearnerStep(learner!Delete(r))
  \/ \E l \in ArchiveStories : ArchiveStep(archive!Collect(l)) \/ ArchiveStep(archive!Hide(l))
  \/ ArchiveStep(archive!Deploy) \/ ArchiveStep(archive!Start) \/ ArchiveStep(archive!Stop)
  \/ ArchiveStep(archive!Killed)
  \/ \E db \in Uploads : ArchiveStep(archive!Upload(db))
  \/ ArchiveStep(archive!RetagRead) \/ ArchiveStep(archive!RetagBackup)
  \/ ArchiveStep(archive!RetagWrite)
  \/ ArchiveStep(archive!Import)
  \/ ArchiveStep(archive!MergeStart) \/ ArchiveStep(archive!MergeArticles)
  \/ ArchiveStep(archive!MergeHidden) \/ ArchiveStep(archive!MoveAway)
  \/ ArchiveStep(archive!MoveIn)
  \/ PublicjsonStep(publicjson!Run) \/ PublicjsonStep(publicjson!Hour)
  \/ \E p \in BoardPosts : CutoverStep(cutover!Write(p))
  \/ \E again \in BOOLEAN : CutoverStep(cutover!Start(again))
  \/ CutoverStep(cutover!CheckStopped) \/ CutoverStep(cutover!Backup)
  \/ CutoverStep(cutover!CheckDrift) \/ CutoverStep(cutover!Migrate)
  \/ CutoverStep(cutover!Rebackfill) \/ CutoverStep(cutover!DjangoFails)
  \/ CutoverStep(cutover!Verify) \/ CutoverStep(cutover!Killed) \/ CutoverStep(cutover!StopService)
  \/ CutoverStep(cutover!StartService) \/ CutoverStep(cutover!Restore)
  \/ CutoverStep(cutover!Activate)
  \/ \E r \in PublishRuns :
       \/ PublishingStep(publishing!Build(r)) \/ PublishingStep(publishing!Staged(r))
       \/ PublishingStep(publishing!Copy(r)) \/ PublishingStep(publishing!Move(r))
       \/ PublishingStep(publishing!Stop(r))
  \/ \E s \in ScoredStories : ScoringStep(scoring!Insert(s))
  \/ ScoringStep(scoring!Deploy) \/ ScoringStep(scoring!Hour) \/ ScoringStep(scoring!Switch)
  \/ \E p \in ScoreRuns :
       \/ ScoringStep(scoring!Begin(p)) \/ ScoringStep(scoring!Ask(p))
       \/ ScoringStep(scoring!Fail(p)) \/ ScoringStep(scoring!Write(p))
       \/ ScoringStep(scoring!Killed(p))
  \/ \E p \in ScoreRuns, answer \in ScoreAnswers : ScoringStep(scoring!Answer(p, answer))

LaneSpec == LaneInit /\ [][LaneNext]_allVars

-----------------------------------------------------------------------------
\* The properties of the components.
\* The calendar shows everything that is due (Calendar.tla).
CalendarComplete == lane = "calendar" => calendar!Complete
\* A session signed out stays so, and guesses are throttled (AdminSessions.tla).
SessionsHold == lane = "sessions" => sessions!SignedOutStays /\ sessions!Throttled
\* A switch of one source is lost only to an overlapping one (OperatorDesk.tla), and a learned rule
\* says more than what its press has seen (Learner.tla).
LostOnlyToOverlap == desk!LostOnlyToOverlap
SaysMoreThanSeen == lane = "learner" => learner!SaysMoreThanSeen
\* What the two hold to while one request is answered at a time.
OneSourceAtATime == desk!OneSourceAtATime
NoWeakerWording == lane = "learner" => learner!NoWeakerWording
\* No archive tool loses a row (Archive.tla).
NothingLost == lane = "archive" => archive!NothingLost
\* A missed feed leaves no hole in the public list (PublicJson.tla).
NoHoles == publicjson!NoHoles
\* A site that serves shows what its authors last wrote (Cutover.tla).
ShowsLatest == lane = "cutover" => cutover!ShowsLatest
\* Readers get whole pages of complete builds (Publishing.tla).
ServedWhole == lane = "publishing" => publishing!ServedWhole
\* A score is of the story it stands at, and categories are those of today (Scoring.tla).
ScoresStand == lane = "scoring" => scoring!ScoresMeant /\ scoring!LabelsCurrent
=============================================================================
