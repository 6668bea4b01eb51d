CONSTANTS
  Depth = 2
  MaxRequests = 2
  MaxPackets = 4
  MaxCalls = 6
SPECIFICATION MCSpec
INVARIANTS  PlayedInOrder StoppedIsQuiet
PROPERTIES NoAudioAfterFlush DrainEnds
