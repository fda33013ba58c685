\* The bucket of cmd_vel: one token, three ticks to a token.
SPECIFICATION Spec
CONSTANTS
    Period = 3
    Burst = 1
    MaxTime = 10
INVARIANTS
    TypeOK
    RateBounded
    LimitedOnlyIfFast
