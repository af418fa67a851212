SPECIFICATION Spec
CONSTANTS
  Elems = {a, b}
  Nil = Nil
  Panic = Panic
  MinQueueLen = 2
  MaxLen = 7
INVARIANT RingOK
PROPERTY IsFifo
