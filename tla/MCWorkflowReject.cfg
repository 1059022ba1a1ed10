SPECIFICATION Spec
CONSTANTS
  Proposal = {p1}
  w1 = w1
  w2 = w2
  Worker = {w1, w2}
  MaxBehind = 2
SYMMETRY WorkerSymmetry
INVARIANT RejectExecutesNothing
