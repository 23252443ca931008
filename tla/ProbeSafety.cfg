\* Three packets, two grants, and a second run or a duplicated packet.
CONSTANTS
    Count = 3
    MaxTrouble = 2
    MaxGrants = 2
    None = None
SPECIFICATION FairSpec
INVARIANTS ReverseBlamedJustly AttributionExact RejectedOnlyForDuplicates ReorderIsRfc4737
PROPERTY RunEnds
