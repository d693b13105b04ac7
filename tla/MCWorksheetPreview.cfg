SPECIFICATION PreviewSpec
CONSTANTS
  QuestionIds <- OneQuestion
  Texts = {t1}
  NoText = NoText
  MaxVersion = 6
  MaxEdits = 1
  MaxMoves = 0
  MaxTokens = 2
  MaxExports = 1
  MaxTrips = 1
  LeftBehind = {}
INVARIANT CopyHoldsAddedAnswers
CHECK_DEADLOCK FALSE
