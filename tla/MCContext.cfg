SPECIFICATION Spec
CONSTANTS
  PointerSize = 8
  NameOrder <- MCNameOrder
  TextLen <- MCTextLen
  TypeLen <- MCTypeLen
  OptInfo <- MCOptInfo
  a = a
  b = b
  c = c
  Contexts = {a, b, c}
  Hash <- MCHash
  Order <- MCOrder
  StructLists <- MCStructLists
  MaxFormats = 2
INVARIANTS OneMeaning IDsAgree RegisteredAsGiven
SYMMETRY MCSymmetry
CHECK_DEADLOCK FALSE
