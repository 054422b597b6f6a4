SPECIFICATION Spec
CONSTANTS
  Keys = {k1, k2}
  BadKey = BadKey
  Purposes = {"pwreset-v1", "email-verify-v1"}
  OtherAAD = OtherAAD
  Payloads = {u1}
  Users = {u1}
  SessionIDs = {s1, s2}
  sessionTTL = 4
  csrfTTL = 1
  clockSkewLimit = 1
  Secrets = {w1, w2}
  Bodies = {b1, b2}
  Tolerance = 3
  Stamps <- OfferedStamps
  Sec = 2
  Ttls <- OfferedTtls
  Half = 16
  MaxTime = 7
  MaxBacks = 1
  MaxTokens = 1
INVARIANTS AcceptedInTime NotExpiredEarly NoTokenConfusion SkewTolerated FreshAndGenuine DeliveredInTime
PROPERTIES ExpiryIsFinal ReplaysEnd
SYMMETRY Symmetry
