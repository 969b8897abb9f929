CONSTANTS
    Features <- IdleFeatures
    Decls <- IdleDecls
    Decl <- IdleDecl
    DotEmacs <- IdleUses
    Conds <- IdleConds
    Requires <- IdleRequires
    Missing <- IdleMissing
    Faulty = {"recentf"}
    Elsewhere = {"tramp"}
SPECIFICATION FairSpec
PROPERTIES StartupEnds IdleFormsConfigured
CHECK_DEADLOCK FALSE
