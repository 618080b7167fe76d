SPECIFICATION Spec
CONSTANTS
  Attempts = {0}
  Requests = {q1, q2, q3}
  Calls = {c1, c2}
  MaxKeys = 2
  PostAttempts = 2
INVARIANTS
  NotSentIsTrue
SYMMETRY Symmetric
