CONSTANTS
    Features <- WindowsFeatures
    Decls <- WindowsDecls
    Decl <- WindowsDecl
    DotEmacs <- WindowsUses
    Conds <- WindowsConds
    Requires <- WindowsRequires
    Missing = {}
    Faulty = {}
    Elsewhere <- WindowsElsewhere
SPECIFICATION Spec
INVARIANTS HookedAtInitRuns EntryPointsInstalled CommandsBound
CHECK_DEADLOCK FALSE
