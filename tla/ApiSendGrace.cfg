SPECIFICATION Spec
CONSTANTS
  Posters = {p1, p2}
  Pollers = {q1}
  Texts = {t1, t2}
  PostTimeout = 2
  StatusTimeout = 2
  Grace = 3
PROPERTIES
  PendingKeepsGrace
SYMMETRY Symmetric
CHECK_DEADLOCK FALSE
