CONSTANTS
  MaxKey = 8
  Key <- MCKey
  Capacity = 8
  Less <- MCLess
  Greater = 1
  MaxMixed = 5
SPECIFICATION Spec
VIEW TreeView
INVARIANTS
  SearchTree
  RedBlack
  EndsExact
  OnePlace
  OtherAssertsHold
PROPERTY
  ActsAsBag
