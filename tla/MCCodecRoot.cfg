SPECIFICATION Spec
CONSTANTS
  PointerSize = 8
  IdLength = 12
  NameOrder <- MCNameOrder
  StructLists <- MCStructLists
  Heaps <- MCHeaps
  Targets <- MCTargets
INVARIANT RootKept
CHECK_DEADLOCK FALSE
