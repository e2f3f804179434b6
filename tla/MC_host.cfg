CONSTANTS
  r1 = r1
  RtxSsrcs = {r1}
  RtxOf <- MC_RtxOf
  RtxSent = {}
  BurstLoss = 0
  s1 = s1
  s2 = s2
  Ssrcs <- MC_Ssrcs
  StartExts = {100}
  MaxSent = 2
  MaxDeliveries = 3
  BodyLens = {1}
  PayloadTypes = {0, 96, 127}
  RedPt = 127
  Thresholds = {0}
  PacketTimeoutMs = 0
  MaxTime = 1
  MaxCalls = 2
  ApiCalls = {"ResetStatistics", "ResetDataCounters", "SetNACKStatus", "RegisterReceivePayload", "SetRTXStatus", "SetSSRCFilter", "SetPacketTimeout"}
  PayloadKind <- MC_PayloadKind
  Payloads <- MC_MixedPayloads
SPECIFICATION Spec
SYMMETRY MC_Symmetry
CHECK_DEADLOCK FALSE
INVARIANT TypeOK
