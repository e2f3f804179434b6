CONSTANTS
    CsrcIds = {1, 2}
    kRtpCsrcSize = 2
    MaxPackets = 4
    Headers <- MC_WellFormed
SPECIFICATION Spec
INVARIANTS
    HostViewExact
    EnergyOfLastHeader
CHECK_DEADLOCK FALSE
