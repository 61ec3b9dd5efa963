SPECIFICATION FairSpec
CONSTANTS
  replicate = replicate
  heartbeat = heartbeat
  Caller = {replicate, heartbeat}
  MaxCalls = 2
INVARIANTS
  TypeOK
PROPERTIES
  IsRemoteCall
  HandlersEnd
CHECK_DEADLOCK FALSE
