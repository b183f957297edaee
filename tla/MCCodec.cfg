SPECIFICATION Spec
CONSTANTS
  PointerSize = 8
  IdLength = 12
  NameOrder <- MCNameOrder
  StructLists <- MCStructLists
  Heaps <- MCHeaps
  Targets <- MCTargets
INVARIANTS PiecesFit SameData BlocksApart OnceEach DecodedRight
CHECK_DEADLOCK FALSE
