CONSTANTS
  r1 = r1
  RtxSsrcs = {r1}
  RtxOf <- MC_RtxOf
  RtxSent = {}
  BurstLoss = 300
  s1 = s1
  s2 = s2
  Ssrcs <- MC_Ssrcs
  StartExts = {65535}
  MaxSent = 2
  MaxDeliveries = 3
  BodyLens = {1}
  PayloadTypes = {0, 96, 127}
  RedPt = 127
  Thresholds = {50}
  PacketTimeoutMs = 0
  MaxTime = 1
  ApiCalls = {}
  MaxCalls = 0
  PayloadKind <- MC_PayloadKind
  Payloads <- MC_Payloads
SPECIFICATION Spec
SYMMETRY MC_Symmetry
CHECK_DEADLOCK FALSE
INVARIANT ExtHighNotInflated
