SPECIFICATION FairSpec
CONSTANTS
  Requests = {r1, r2, r3}
  Refused = {r2}
  Answers = {a1, a2}
  TooBig = {r3}
  Malformed = {a2}
  Statuses = {"1001"}
  NoStatus = NoStatus
  NothingHeld = NothingHeld
  MaxMessages = 2
CHECK_DEADLOCK FALSE
INVARIANTS
  Transparent
  NothingLeftOpen
  StatusHasCause
PROPERTY
  EndTogether
