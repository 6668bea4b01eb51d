CONSTANTS
  MaxFaults = 2
  MaxChanges = 3
SPECIFICATION Spec
INVARIANTS NothingPending NoLostWake NoLostReport
PROPERTIES Recovers 
