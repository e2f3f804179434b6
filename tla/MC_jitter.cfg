CONSTANTS
    TimeDiffs <- MC_TimeDiffs
    ExtTimeDiffs = {0, 450000}
    MaxPackets = 6
    MaxCalls = 2
    FrequenciesKhz = {8, 48, 90}
    MinRtts = {0, 30}
SPECIFICATION Spec
INVARIANTS
    JitterStepRoundsToNearest
    JitterBounded
    RetransmitDelayPerSpec
CHECK_DEADLOCK FALSE
