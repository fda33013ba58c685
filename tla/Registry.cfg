\* Three subscriptions of one topic by any application, two calls of
\* unsubscribe() beside the finalizers, one loss.
SPECIFICATION MCSpec
CONSTANTS
    h1 = h1
    h2 = h2
    h3 = h3
    None = None
    Handles <- MCHandles
    MaxCalls = 2
    MaxLosses = 1
INVARIANTS
    TypeOK
    RegisteredIsOpen
    OpenIsRegistered
    OnlyOwnerCloses
    
PROPERTIES
    UnsubscribeReturns
CHECK_DEADLOCK FALSE
