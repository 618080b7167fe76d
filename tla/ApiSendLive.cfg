SPECIFICATION FairSpec
CONSTANTS
  Posters = {p1}
  Pollers = {q1}
  Texts = {t1}
  PostTimeout = 2
  StatusTimeout = 2
  Grace = 3
PROPERTIES
  
  VerdictIsLearned
CHECK_DEADLOCK FALSE
