SPECIFICATION Spec
CONSTANTS
  c1 = c1
  c2 = c2
  c3 = c3
  Calls <- ThreeCalls
  Times = {0, 1, 2, 3}
  Window = 2
  MaxAttempts = 2
  NoClaim = NoClaim
 
PROPERTIES ImplementsWindow
CHECK_DEADLOCK FALSE
