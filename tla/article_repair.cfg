SPECIFICATION LaneSpec
CONSTANTS
  l1 = l1 clean = clean mention = mention trailer = trailer w1 = w1 w2 = w2
  Lanes = {"article"}
  NoText = NoText
  Feed = Feed
  Links = {l1}
  Texts = {clean, mention, trailer}
  Chrome = {trailer}
  Dirty = {mention}
  Swept = {trailer}
  Workers = {w1}
CHECK_DEADLOCK FALSE
INVARIANT RepairHolds
