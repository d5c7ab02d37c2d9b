SPECIFICATION Spec
CONSTANTS
    Keys = {k1, k2, k3}
    Values = {v1, v2}
    Elements = {e1, e2, e3}
    Nil = Nil
    TTLs <- MCTTLs
    DefaultTTL = 0
    Capacity = 2
    CounterRange = 3
    MaxTime = 4
SYMMETRY Symmetry
INVARIANTS TypeOK IndexAgrees RecencyOrder StatsBalance
PROPERTIES EvictsLeastRecent ImplementsTTLMap
