CONSTANTS
  r1 = r1
  RtxSsrcs = {r1}
  RtxOf <- MC_RtxOf
  RtxSent = {}
  BurstLoss = 0
  s1 = s1
  s2 = s2
  Ssrcs <- MC_Ssrcs
  StartExts = {100}
  MaxSent = 2
  MaxDeliveries = 2
  BodyLens = {1}
  PayloadTypes = {0, 96, 127}
  RedPt = 127
  Thresholds = {50}
  PacketTimeoutMs = 1
  MaxTime = 3
  ApiCalls = {}
  MaxCalls = 0
  PayloadKind <- MC_PayloadKind
  Payloads <- MC_Payloads
SPECIFICATION FairSpec
CHECK_DEADLOCK FALSE
PROPERTY NoticeEventuallyTimedOut
