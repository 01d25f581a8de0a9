SPECIFICATION FairSpec
CONSTANTS
    Keys = {k1, k2}
    NoKey = NoKey
    Runs = {r1, r2}
    NoRun = NoRun
    Sizes = {0, 3}
    BatchSize = 2
    MaxActs = 3
CHECK_DEADLOCK FALSE
INVARIANTS RejectedKeyForgotten 
PROPERTIES ComesToRest EveryCardIsAsked
