SPECIFICATION LaneFairSpec
CONSTANTS
  f1 = f1 f2 = f2 s1 = s1 s2 = s2
  Lanes = {"outbox", "letters", "upkeep", "ticker", "newspage", "frontpage"}
  NoItem = NoItem
  Stories = {s1, s2}
  Names = {f1, f2}
  Ticked = {s1}
  MaxWrites = 2
  MaxMishaps = 2
CHECK_DEADLOCK FALSE
INVARIANTS FilesHold
PROPERTIES Settles KeepsPromise LettersKept OutagesPass SelectionShown PageFollows
