SPECIFICATION Spec
CONSTANTS
  b1 = b1
  b2 = b2
  b3 = b3
  t1 = t1
  NoText = NoText
  QuestionIds <- MCQuestionIds
  Texts <- MCTexts
  Blocks <- MCBlocks
  PageOf <- MCPageOf
  PageCount = 2
  Found <- MCFound
  MaxCalls = 2
  MaxPolls = 1
  Touched <- MCTouched
INVARIANTS
  TypeOK
  SavedWasSeen
PROPERTIES
  AcceptedIsShown
  CheckingEnds
CHECK_DEADLOCK FALSE
