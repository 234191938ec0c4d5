CONSTANTS
  Parties = {1, 2, 3}
  Uploads = {u1, u2}
  DataOf <- OneData
  Choices <- RepeatedOrNot
  u2 = u2
  Failures = {"token", "refused", "applied", "sync", "request", "delete"}
  MaxFaults = 2
SPECIFICATION FairSpec
INVARIANTS
  TypeOK
  
  LostRowIsReported
PROPERTIES
  UploadsReturn
CHECK_DEADLOCK FALSE
