SPECIFICATION Spec
CONSTANTS
  c1 = c1
  c2 = c2
  Chats <- MCChats
  MaxDraft = 1
  MaxAttempt = 1
  Slots = 2
CHECK_DEADLOCK FALSE
SYMMETRY MCSymmetry
INVARIANTS SendSound
 
