SPECIFICATION FairSpec
CONSTANTS
  Sendings = {s1, s2}
  Projects = {p1, p2}
  Theirs = {p2}
  Grows = {p1}
  MaxCodes = 2
  s1 = s1
  s2 = s2
  p1 = p1
  p2 = p2
CHECK_DEADLOCK FALSE
INVARIANTS
  OldWorkSurvives
  OneWriter
PROPERTIES
  DeletedOnlyWhenWritten
  SendingsEnd
