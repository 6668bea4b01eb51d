CONSTANTS
  MaxRequestId = 3
  Sessions = {s1, s2}
  NoSession = none
  MaxTurns = 7
  MaxFrames = 1
  MaxDown = 2
  Faults = {"send", "submit", "timeout", "button", "budget_exceeded", "budget_unavailable"}
  GatewayIds = {r1, r2}
  LinkTurns = 2
  Parts = {"agent", "gateway", "link"}
SYMMETRY IdSymmetry
SPECIFICATION MCSpec
INVARIANTS TypesOK AnswerIsCurrent RunningTurnIsOwedAnAnswer OneSpeech
PROPERTIES WireOrder ReplacedTurnIsStoppedFirst
