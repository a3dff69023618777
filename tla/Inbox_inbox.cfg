SPECIFICATION FairSpec
CONSTANTS
  Phases = 2
  MaxMessages = 1
  Questions = {q1}
  MaxParts = 2
  MaxPresses = 1
  MaxCrashes = 2
INVARIANTS
  WordsAreReadInTime
  ReadByOneAnswer
  CountedOnce
PROPERTIES
  NothingIsTakenBack
  QuestionsEnd
\* done, and nobody has anything more to say
CHECK_DEADLOCK FALSE
