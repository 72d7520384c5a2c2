SPECIFICATION Spec
CONSTANTS
  w1 = w1
  w2 = w2
  Workers = {w1, w2}
  MaxStarts = 1
SYMMETRY WorkerSymmetry
INVARIANTS
  KeepsAccepting
