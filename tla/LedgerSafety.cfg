\* A mesh pairing and a one-shot that crowd each other; late agents, lost answers,
\* bad results, crashes, a deletion, a restart.
CONSTANTS
    a = a
    b = b
    Agents = {a, b}
    Pairs <- OnePair
    Shots = {o}
    Peerless = {o}
    LeaseLimit = 1
    MaxCycle = 1
    MaxRuns = 6
    MaxFaults = 2
    MaxRestarts = 1
    MaxDraws = 2
SPECIFICATION FairSpec
INVARIANTS NoDoubleCount NoAnswerLost
PROPERTIES EveryProbeAnswered SendersPurged
