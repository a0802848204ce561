SPECIFICATION LaneSpec
CONSTANTS
  p1 = p1 c1 = c1 n1 = n1 m1 = m1 m2 = m2
  Lanes = {"moderation", "boards", "talk", "feed"}
  Nobody = Nobody
  None = None
  Absent = Absent
  Asked = Asked
  Writers = {"writer", "operator"}
  Staff = {"operator"}
  BoardTabs = {"t1"}
  BoardCategories = {"notice", "market", "housing"}
  Subdivisions = {"market"}
  PostTexts = {"a", "b"}
  MaxPostImages = 2
  MaxVersion = 3
  Talkers = {"a", "b", "c"}
  Author = "a"
  Slots = {1, 2}
  MaxMarks = 1
  FeedStories = {1, 2, 3}
  Caught = {3}
  Unprintable = {}
  SourceOf <- MCSourceOf
  FeedSources = {"b"}
  PageSize = 1
  Present = 1
  Posts = {p1}
  Comments = {c1}
  NewsComments = {n1}
  PostOf <- MCPostOf
  Pk <- MCPk
  Members = {m1, m2}
  Moderators = {m1, m2}
  Operators = {m1, m2}
  Threshold = 2
  MaxReports = 2
  MaxAppeals = 1
SYMMETRY Symmetric
CHECK_DEADLOCK FALSE
INVARIANTS HidingFair PostWhole PagesAgree ListWhole
PROPERTIES ReviewsStand NothingUnseenLost
