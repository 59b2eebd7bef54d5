CONSTANTS
  MaxOpens = 2
  MaxThreads = 2
  MaxStarts = 3
SPECIFICATION VoiceSpec
INVARIANT NoStrayRecording
CHECK_DEADLOCK FALSE
