CONSTANTS
    Features <- HtmlFeatures
    Decls <- HtmlDecls
    Decl <- HtmlDecl
    DotEmacs <- HtmlUses
    Conds <- HtmlConds
    Requires <- HtmlRequires
    Missing = {}
    Faulty = {}
    Elsewhere <- HtmlElsewhere
SPECIFICATION Spec
INVARIANTS CirclesStay
CHECK_DEADLOCK FALSE
