SPECIFICATION SafetySpec
CONSTANTS
  Publishers = {p1, p2}
  Streams = {s1, s2}
  Buffer = 1
  MaxEvents = 3
  Free = Free
SYMMETRY Symmetric
INVARIANTS IInv NoPanic
PROPERTIES ImplementsChangeStream
