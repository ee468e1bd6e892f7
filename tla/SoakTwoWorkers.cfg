SPECIFICATION FairSpec
CONSTANTS
    Workers = {w1, w2}
    Kinds = {compression}
    Raising = {compression}
    MaxRounds = 1
INVARIANTS
    TypeOK
    LossNeedsADeath
    SurvivorsFullyCounted
    NeverOvercounted
    CreditedUnitsAreJudged
PROPERTY PromiseKept
