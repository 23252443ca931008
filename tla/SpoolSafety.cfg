\* A spool of four with a reserve of three; results may be queued during a POST.
CONSTANTS
    CfgEntries = 4
    CfgBytes = 8
    OnsetPct = 95
    SubmitBatch = 3
    Sizes = {1, 3}
    MaxResults = 9
SPECIFICATION Spec
INVARIANTS TypeOK Bounded Ordered Conserved DropsReported LoopsAgree
PROPERTIES OnsetProtected ReturnIsLossless ImplementsDelivery
