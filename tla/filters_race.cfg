SPECIFICATION LaneSpec
CONSTANTS
  l1 = l1 l2 = l2 l3 = l3 p1 = p1 p2 = p2 c1 = c1 c2 = c2
  Lanes = {"rules"}
  None = None
  Redirect = Redirect
  CalendarEntries <- MCCalendarEntries
  CalendarCountries = {"US", "EU"}
  CalendarThreads = {"t1"}
  CalendarFailSets <- MCCalendarFailSets
  FirstHalf = 7
  LastHalf = 8
  SessionThreads = {"t1", "t2"}
  Browsers = {"b1"}
  Passwords = {1, 2}
  TTL = 2
  FAIL_LIMIT = 2
  FAIL_WINDOW = 2
  MaxClock = 3
  MaxLogins = 2
  DeskThreads = {c1, c2}
  DeskStories = {"l1"}
  NewsSources = {"x", "y"}
  PickNotes = {"n1"}
  Intervals = {5}
  DEFAULT_INTERVAL = 30
  MIN_INTERVAL = 10
  MAX_INTERVAL = 600
  MaxAnswers = 1
  LearnerStories = {1, 2, 3}
  LearnerTitle <- MCLearnerTitle
  LearnerSummary <- MCLearnerSummary
  LearnerBroken <- MCLearnerBroken
  STOP = {"the"}
  Short = {"fed", "oil"}
  PHRASE_MIN = 2
  PHRASE_MAX = 3
  LEAD = 2
  HIDDEN_MIN = 2
  WORD_HIDDEN_MIN = 2
  LIMIT = 2
  KEPT_MIN = 1
  KEPT_TIMES = 1
  ByHand <- MCByHand
  LearnerThreads = {c1, c2}
  MaxLearned = 3
  ArchiveStories = {1, 2}
  ArchivePosts = {3}
  Labels = {"a", "b", "c", "blog"}
  LabelOf <- MCLabelOf
  FileLabel <- MCFileLabel
  Uploads <- MCUploads
  MaxTools = 2
  BoardPosts = {1, 2, 3}
  Boarded = {1, 2}
  OldPosts = {1, 3}
  Texts = {"a", "b"}
  Blank = ""
  PublishRuns = {"u1", "u2", "s1"}
  RunKind <- MCRunKind
  RunCommit <- MCRunCommit
  ScoredStories = {1, 2}
  ScoredAt <- MCScoredAt
  RuleMatched = {1}
  ScoreRuns = {"p1", "p2"}
  BATCH = 1
  ScoreLimit = 0
  SCORE_HOURS = 2
  ScoreDay = 2
  ScoreAnswers <- MCScoreAnswers
  ScoredWords <- MCScoredWords
  WholeWord <- MCWholeWord
  WithinWord <- MCWithinWord
  BOUNDARY_TERMS = {"repo"}
  NonLatin = {}
  RuleReleases <- MCRuleReleases
  GENERIC_CATEGORY <- MCGeneric
  PublicLinks = {1, 2, 3, 4, 5}
  PublicAt <- MCPublicAt
  PublicKey <- MCPublicKey
  PublicLeads <- MCPublicLeads
  PublicAggregated <- MCPublicAggregated
  PublicEvent <- MCPublicEvent
  PublicPriority = {5}
  PublicKept = 3
  EVENT_HOURS = 1
  MAX_PER_REGION = 3
  LINK_RESOLVE_PER_RUN = 1
  LastHour = 5
  Links = {l1, l2}
  Patterns = {p1, p2}
  Callers = {c1, c2}
  Matches <- MCDisjoint
  MaxRules = 2
  MaxCalls = 3
  MaxRestarts = 0
CHECK_DEADLOCK FALSE
INVARIANT RulesAct
