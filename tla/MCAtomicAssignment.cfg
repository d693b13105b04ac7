SPECIFICATION Spec
CONSTANTS
  q1 = q1
  q2 = q2
  x1 = x1
  x2 = x2
  NoText = NoText
  QuestionIds <- TwoQuestions
  Detected <- TwoQuestions
  Texts <- MCTexts
  ReviewTTL = 1
  ExpiresAt = 2
  MaxVersion = 5
  MaxVersionAlone = 7
  MaxTokens = 2
CONSTRAINT Bounded
INVARIANTS
  TypeOK
  Loadable
  LiveTokenIsCurrent
  ConsumedOnce
  ConfirmedAsReviewed
  RevisionsComplete
  SuggestedWordingIsRecorded
  RevisionOfLatest
PROPERTIES
  VersionNamesAnswers
  ConfirmedNeverLost
CHECK_DEADLOCK FALSE
