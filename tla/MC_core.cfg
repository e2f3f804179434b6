CONSTANTS
  r1 = r1
  RtxSsrcs = {r1}
  RtxOf <- MC_RtxOf
  RtxSent = {}
  BurstLoss = 0
  s1 = s1
  s2 = s2
  Ssrcs <- MC_Ssrcs
  StartExts = {65534}
  MaxSent = 3
  MaxDeliveries = 4
  BodyLens = {1}
  PayloadTypes = {0, 96, 127}
  RedPt = 127
  Thresholds = {50}
  PacketTimeoutMs = 1
  MaxTime = 3
  ApiCalls = {"ResetStatistics", "SetNACKStatus", "RegisterReceivePayload", "DeRegisterReceivePayload"}
  MaxCalls = 3
  PayloadKind <- MC_PayloadKind
  Payloads <- MC_Payloads
SPECIFICATION Spec
SYMMETRY MC_Symmetry
INVARIANT LossNeverOverstated
INVARIANT CountersExactOffZero
INVARIANT ExtHighNotInflated
CHECK_DEADLOCK FALSE
PROPERTY ReportRefinement
