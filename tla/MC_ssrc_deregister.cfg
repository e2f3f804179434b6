CONSTANTS
  r1 = r1
  RtxSsrcs = {r1}
  RtxOf <- MC_RtxOf
  RtxSent = {}
  BurstLoss = 0
  s1 = s1
  s2 = s2
  Ssrcs <- MC_Ssrcs
  MaxSent = 3
  MaxDeliveries = 4
  PayloadTypes = {0, 96, 127}
  RedPt = 127
  Thresholds = {0}
  MaxTime = 3
  MaxCalls = 3
  PayloadKind <- MC_PayloadKind
  Payloads <- MC_Payloads
SPECIFICATION Spec
SYMMETRY MC_Symmetry
CHECK_DEADLOCK FALSE
CONSTANT StartExts = {100}
CONSTANT BodyLens = {1}
CONSTANT PacketTimeoutMs = 0
CONSTANT ApiCalls = {"DeRegisterReceivePayload"}
INVARIANT SsrcConsistent
