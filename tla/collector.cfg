SPECIFICATION FairSpec
CONSTANTS
  a = a b = b t = t j = j
  Copies = {a, b, t, j}
  Thai = {t}
  Juice = {j}
  Aggregated = {a, t}
  Link <- MCLink
  Url <- MCUrl
  Plain <- MCPlain
  Tailed <- MCTailed
  NoKey = "none"
  Similar <- MCSimilar
  Events <- MCEvents
  EventSpan = 0
  Ahead = 0
  Window = 1
  Archive = 1
  MaxBackoff = 2
  Doublings = 1
  Retries = {0, 2}
INVARIANTS ArchiveSound
PROPERTIES StoriesKept
