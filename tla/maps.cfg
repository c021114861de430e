SPECIFICATION BenchSpec
CONSTANTS
    Key = {k1, k2, k3, k4, k5}
    Callers = {c1, c2, c3}
    NoKey = NoKey
    NoCaller = NoCaller
    MaxSize = 2
    ShardedKeys = {0, 1, 2}
    MinShards = 2
SYMMETRY Symmetry
INVARIANTS ListMirrorsMap AddedIsFound SizeIsCount
PROPERTY CallsAreAtomic
