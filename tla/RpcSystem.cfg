SPECIFICATION FairRSpec
CONSTANTS
    MaxStates = 2
    MaxSends = 4
    MaxTerminates = 2
INVARIANTS
    WritesAsPromised
    SenderLeft
    GracefulShutdown
CHECK_DEADLOCK FALSE
PROPERTIES
    EveryCallSettles
    SystemFinishes
    LossNoticed
    DisconnectorFinishes
