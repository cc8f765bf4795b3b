CONSTANTS
    FailuresToGetBanned = 1
    BanTimeout = 1
    MaxFails = 2
    Admins = {a1, a2}
SPECIFICATION RegistrySpec
INVARIANT RegistryAgrees
PROPERTIES
    BanServed
    BanEnds
    WorkerRecovers
