CONSTANTS
  r1 = r1
  r2 = r2
  bridge = bridge
  paid = paid
  none = none
  Requests <- TwoRequests
  Primary <- bridge
  Fallback <- paid
  None <- none
SPECIFICATION ConfirmationSpec
CHECK_DEADLOCK FALSE
INVARIANT AcceptedCounts
