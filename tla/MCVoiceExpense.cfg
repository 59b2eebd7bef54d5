CONSTANTS
  MaxOpens = 2
  MaxThreads = 2
  MaxStarts = 2
SPECIFICATION VoiceSpec
INVARIANTS
  MicrophoneReleased
  RecordingInReach
  OwnWords
PROPERTIES
  ProcessingEnds
CHECK_DEADLOCK FALSE
