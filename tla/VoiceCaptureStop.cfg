CONSTANT MaxCalls = 2
SPECIFICATION Spec
PROPERTY MicrophoneReleased
