CONSTANTS
  MaxRequestId = 3
  Sessions = {s1}
  NoSession = none
  MaxTurns = 2
  MaxFrames = 1
  MaxDown = 2
  Faults = {}
SPECIFICATION LinkSafety
INVARIANT StaleEventIsHarmless
