SPECIFICATION LiveSpec
CONSTANTS
  c1 = c1 c2 = c2 f1 = f1 f2 = f2 f3 = f3
  Empty = Empty
  Callbacks <- MCCallbacks
  Forms <- MCForms
INVARIANTS TypeOK OneEnrollment SuccessIsDurable ResultMatchesDisk TokenForgotten
PROPERTIES TokenBeforeForm ImplementsOneShot Returns
CHECK_DEADLOCK FALSE
