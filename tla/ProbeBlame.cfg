\* One run: the last reply is lost.
CONSTANTS
    Count = 3
    MaxTrouble = 1
    MaxGrants = 1
    None = None
SPECIFICATION Spec
INVARIANT NoDirectionGuessed
