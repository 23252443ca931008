CONSTANTS
    Unset = Unset
    Empty = Empty
    Bad = Bad
    Starts <- MCStarts
SPECIFICATION Spec
INVARIANTS SameCommand PeersServedAndFlushed
PROPERTY HeardIsObeyed
