SPECIFICATION Spec
CONSTANTS
  Allocator = {"A", "B"}
  Nobody = "nobody"
  Programs <- MCPrograms
  MaxSlabs = 2
  Pages = 12
  PageSize = 16
  HeaderSize = 4
  MinObjSize = 1
  Bits = 10
INVARIANTS
  MappingsExact
  ObjectsFit
  FindsSlab
  RoundingAssertsHold
