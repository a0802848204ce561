SPECIFICATION LaneFairSpec
CONSTANTS
  f1 = f1 f2 = f2 s1 = s1 s2 = s2
  Lanes = {"outbox"}
  NoItem = NoItem
  Stories = {s1, s2}
  Names = {f1, f2}
  Ticked = {}
  MaxWrites = 2
  MaxMishaps = 1
CHECK_DEADLOCK FALSE
PROPERTY StagedFiled
