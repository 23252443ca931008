\* Polls, heartbeats and submissions may fail for ever.
CONSTANTS
    OneShots = {s1, s2}
    Grants = {}
    Garbled = {}
    Recurring = {r1, r2}
    Intervals = {2}
    Expiries = {1}
    NoDeadline = NoDeadline
    Nobody = Nobody
    PollTimes = {0}
    BeatTimes = {0}
    TaskTimes = {2}
    DrainTimes = {0}
    RetryDelays = {1}
    PollInterval = 1
    HeartbeatInterval = 2
    MaxSleep = 2
    LeaseLimit = 2
    Horizon = 3
SPECIFICATION FairSpec
PROPERTIES OneShotsAnswered ResultsDelivered KeepsMeasuring
