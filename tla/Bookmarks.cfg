CONSTANTS
    a = a
    b = b
    Files = {f, g}
    Lines = {a, b}
    Texts <- ShortTexts
    RepositorySize = 1
SPECIFICATION Spec
INVARIANTS TypeOK BookmarksKept
SYMMETRY FileSymmetry
