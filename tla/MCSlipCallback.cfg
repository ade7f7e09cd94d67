CONSTANTS
  s1 = s1
  e1 = e1
  c1 = c1
  c2 = c2
  Slips = {s1}
  Events = {e1}
  Console = Console
  Callers = {c1, c2}
  Due = 2
  Amounts = {1}
  MaxPayments = 3
  MaxTransfers = 1
  Troubles = {"crash"}
SPECIFICATION Spec
INVARIANT EventsArePaid
CHECK_DEADLOCK FALSE
