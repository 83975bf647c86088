SPECIFICATION SearchSpec
CONSTANTS
  s1 = s1
  s2 = s2
  NoSession = NoSession
  NoIndex = NoIndex
  Chunks <- ThreeChunks
  Pos <- Points
  Query <- Origin
  RawQueries <- GivenQueries
  Sessions = {s1, s2}
  Ms = {1, 2}
  EfC = 2
  EfSearch = 1
  Limit = 1
  MaxCalls = 6
  w1 = w1
  w2 = w2
  Null = Null
  Rows <- FiveRows
  Dists = {0, 1, 2}
  Texts <- SomeTexts
  QueryVec <- TwoDims
  Participants = {w1, w2}
  Ks = {0, 2, 4}
SYMMETRY Symmetry
CHECK_DEADLOCK FALSE
INVARIANTS
  Findable
  CountIsTrue
  AnswersForget
  AnswerIsExact
  NothingBetterLost
  PathsAgree
