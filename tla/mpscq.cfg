CONSTANTS
  p1 = p1
  p2 = p2
  p3 = p3
  n1 = n1
  n2 = n2
  n3 = n3
  Producers <- MCProducers
  Nodes <- MCNodes
  Stub = Stub
  NIL = NIL
SYMMETRY MCSymmetry
SPECIFICATION Spec
INVARIANTS
  ChainComplete
  LinkTargetLive
  IsEmptyExact
PROPERTIES
  RefinesFifo
  NullJustified
