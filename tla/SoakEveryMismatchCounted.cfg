SPECIFICATION Spec
CONSTANTS
    Workers = {w1}
    Kinds = {integer, compression}
    Raising = {compression}
    MaxRounds = 3
INVARIANT EveryMismatchCounted
