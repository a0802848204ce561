SPECIFICATION LaneSpec
CONSTANTS
  s1 = s1  s2 = s2  s3 = s3  s4 = s4
  t1 = t1  t2 = t2  a1 = a1
  Lanes = {"push", "profiles", "composer"}
  None = None  Never = Never  pic1 = pic1  pic2 = pic2  bad = bad
  Nicked = {"m1", "m2"}
  Staff = {"op"}
  Nicknames = {"kim", "Kim", "lee", "oh"}
  FoldedName <- MCFoldedName
  NameOfOperator <- MCNameOfOperator
  Forms = {"t1", "t2"}
  MONTH = 2
  LastDay = 2
  Places = {1, 2}
  Pictures = {pic1, pic2, bad}
  Unreadable = {bad}
  MAX_IMAGES = 2
  MaxStored = 2
  PastStories = {1, 2, 3, 4, 5}
  PastTraits <- MCTraits
  PastTitle <- MCTitle
  Boilerplate = {"the"}
  WordStarts <- MCStarts
  PastSimilar <- MCSimilar
  PastCap = 2
  PastHour = 2
  PastCooldown = 2
  PastRecapCooldown = 3
  EventWindow = 1
  PastAge = 3
  PastLength = 4
  Bodies <- MCBodies
  LINK_CHARS = 7
  Stories = {s1, s2, s3, s4}
  Published <- MCPublished
  Breaking = {s2}
  Picks = {}
  Recaps = {}
  Dull = {}
  Withheld = {s1}
  Malformed = {}
  SimilarKey <- MCSimilarKey
  SameEvent <- MCSameEvent
  SameEventKo <- MCSameEvent
  Ticks = {t1}
  Timer = {t1}
  Agents = {}
  MaxPerHour = 2
  Hour = 6
  Cooldown = 3
  RecapCooldown = 4
  CompareWindow = 5
  MaxAge = 6
  BatchSize = 2
  JevLive = TRUE
  Limit = 0
  LockTTL = 3
  LockWritable = TRUE
  TickTimeout = 2
  TickPeriod = 1
  MaxClock = 7
  MaxMishaps = 1
INVARIANTS Ledger Pacing PreviewIsSaved
PROPERTIES KeepsPromise NamesStay
CHECK_DEADLOCK FALSE
