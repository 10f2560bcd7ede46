SPECIFICATION FairSpec
CONSTANTS
  s1 = s1
  s2 = s2
  k1 = k1
  None = None
  Streams = {s1}
  Keys = {k1}
  KeyOf <- OneStream
  Events = {"quarantine", "break", "kill"}
  Sizes = {1}
  MaxQueue = 1
  MaxBytes = 1
  MaxWire = 2
INVARIANTS
  QuarantineCutsStreams
  EnclaveStreamHasRelay
PROPERTIES
  MuxLossEndsStreams
  QuarantineEndsStreams
