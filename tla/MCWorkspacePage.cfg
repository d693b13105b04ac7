SPECIFICATION Spec
CONSTANTS
  QuestionIds <- MCQuestionIds
  Texts = {t1, t2}
  NoText = NoText
  MaxVersion = 5
  MaxEdits = 2
  MaxMoves = 1
  MaxTokens = 1
  MaxExports = 1
  MaxTrips = 1
  LeftBehind = {"confirm"}
SYMMETRY TextSymmetry
INVARIANTS
  TypeOK
  ExactTextConfirmed
  PageNeverAhead
PROPERTIES
  ReviewShowsLatestWording
  TypedWordsKept
CHECK_DEADLOCK FALSE
