CONSTANTS
    Instances = {i1, i2}
    Files = {f, g, h}
    Limit = 2
SPECIFICATION Spec
INVARIANTS TypeOK SessionRemembered
PROPERTIES MergedWhenUnraced
SYMMETRY Symmetry
