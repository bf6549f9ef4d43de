CONSTANTS
  MaxKey = 3
  Key <- MCKey
  Capacity = 3
  Less <- MCLess
  Greater = 1
  MaxMixed = 3
SPECIFICATION Spec
VIEW TreeView
INVARIANT TreeAssertsHold
