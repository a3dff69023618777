SPECIFICATION Spec
CONSTANTS
  Handlers = {h1, h2}
  Owner = owner
  Members = {m}
  Telegram = {t1, t2}
  Slack = {}
  Gates = {g1}
  MemberGates = {g1}
  MaxVisits = 2
  MaxPrompts = 2
  MaxEvents = 1
CHECK_DEADLOCK FALSE
INVARIANTS
  DecidesOnce
  OnlyTheAskedDecide
  StandsUnlessLate
  NoPressIsLost
SYMMETRY Symmetry
