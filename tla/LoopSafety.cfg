\* One-shots with deadlines, a reflector grant, a recurring assignment with two cadences.
CONSTANTS
    OneShots = {s1, s2}
    Grants = {g}
    Garbled = {x}
    Recurring = {r}
    Intervals = {2, 3}
    Expiries = {2}
    NoDeadline = NoDeadline
    Nobody = Nobody
    PollTimes = {1}
    BeatTimes = {0, 1}
    TaskTimes = {0, 3}
    DrainTimes = {0}
    RetryDelays = {1}
    PollInterval = 2
    HeartbeatInterval = 3
    MaxSleep = 2
    LeaseLimit = 2
    Horizon = 4
SPECIFICATION Spec
INVARIANTS LatenessBounded OneShotAccounted
PROPERTY NoBurst
