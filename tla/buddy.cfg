CONSTANTS
  sz = 3
  level = 3
SPECIFICATION Spec
INVARIANTS TypeOK Partition SizeIsKnown NoFreePair FailsOnlyWhenFull
PROPERTY ImplementsArena
