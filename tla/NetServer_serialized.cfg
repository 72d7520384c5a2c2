SPECIFICATION Spec
CONSTANTS
  w1 = w1
  w2 = w2
  Workers = {w1, w2}
  MaxStarts = 2
SYMMETRY WorkerSymmetry
INVARIANTS
  HooksSerialized
