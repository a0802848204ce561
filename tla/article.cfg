SPECIFICATION LaneFairSpec
CONSTANTS
  l1 = l1 clean = clean mention = mention trailer = trailer w1 = w1 w2 = w2
  Lanes = {"article", "sources", "pictures", "headlines"}
  NoText = NoText
  Feed = Feed
  Links = {l1}
  Texts = {clean, mention, trailer}
  Chrome = {trailer}
  Dirty = {mention}
  Swept = {trailer}
  Workers = {w1, w2}
CHECK_DEADLOCK FALSE
INVARIANTS BodiesHold
PROPERTIES RunEnds StoriesStored EveryStoryServed
