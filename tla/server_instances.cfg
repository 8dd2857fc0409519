SPECIFICATION FairSpec
CONSTANTS
    Instances = {i1, i2}
    Updates = {u1, u2}
    Clients = {c}
    Schedules = {nightly}
    Off = Off
    Garbled = Garbled
    StaticSchedule = nightly
    Boot = Boot
    Null = Null
INVARIANT SerialUpdatesApply
PROPERTIES ReapersKeepWorking ShutdownCompletes
