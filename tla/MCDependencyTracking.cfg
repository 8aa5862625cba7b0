CONSTANTS
  Op = {o1, o2, o3}
  Value = {v1, v2}
  Invocation <- AllInvocations
  Registered <- AllAccesses
SYMMETRY Symmetry
SPECIFICATION Spec
INVARIANTS
  TypeOK
  SingleWriterMultipleReaders
  ConflictsAreOrdered
  NoSpuriousDependency
  NoCyclicWait
