CONSTANTS
  Ids = {r1}
  MaxStreams = 1
  MaxFrames = 1
  MaxDown = 1
SPECIFICATION Spec
PROPERTY StartedIsTerminated
