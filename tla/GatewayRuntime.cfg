CONSTANTS
  NumShards = 2
  NumClients = 4
SPECIFICATION Spec
INVARIANTS TypeOK OneThreadPerShard Balanced SummaryExact
PROPERTIES NoPostToStopped StopTerminates SocketServed KeepsAccepting
CHECK_DEADLOCK FALSE
