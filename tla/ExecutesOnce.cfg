SPECIFICATION Spec
CONSTANTS
    Handlers = {h1, h2, h3}
    Keys = {k1, k2}
    NoKey = nokey
    MaxEffects = 2
SYMMETRY Symmetry
INVARIANTS ExecutesOnce
