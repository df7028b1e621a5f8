SPECIFICATION Spec
CONSTANTS
  None = None
  Connecting = Connecting
  Gone = Gone
  Boxless = Boxless
  Clients = {1, 2, 3}
  Backends = {"custom"}
  Requests = {1, 2, 3}
  MaxPolls = 1
  Capabilities <- MCCapabilities
  MAX_PAYLOAD_DEPTH = 2
  MAX_PAYLOAD_NODES = 4
  FirstFile <- MCFile
  MaxChanges = 1
  Sessions <- MCSessions
INVARIANTS
  ProcessesAreOwned
  ExecuteTellsTruth
PROPERTIES
  EveryRequestReplied
