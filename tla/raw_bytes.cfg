\* One port and two writes: the second holds two messages under running status.
SPECIFICATION MidiCaptureSpec
CONSTANTS
  MidiPorts = {1}
  Writes <- MCWrites
  CaptureLimit = 4
  MaxEmissions = 2
  MaxConnectionChanges = 0
CHECK_DEADLOCK FALSE
INVARIANT RawBytesAreKept
