CONSTANTS
    Features <- CompanyFeatures
    Decls <- CompanyDecls
    Decl <- CompanyDecl
    DotEmacs <- CompanyUses
    Conds <- CompanyConds
    Requires <- CompanyRequires
    Missing = {}
    Faulty <- CompanyFaulty
    Elsewhere <- CompanyElsewhere
SPECIFICATION Spec
INVARIANTS IInv SectionOrder EveryFormOnce ErrorsContained
PROPERTIES ImplementsLifecycle
CHECK_DEADLOCK FALSE
