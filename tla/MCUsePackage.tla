---------------------------- MODULE MCUsePackage ----------------------------
(***************************************************************************)
(* Groups of setup files that interact, as instances of UsePackage.        *)
(***************************************************************************)
EXTENDS UsePackage, SetupForms

\* The features forms name, and what each library requires: `known' for the
\* libraries that require one of those features, nothing for the others.
Libraries(forms, known) ==
    known @@ [f \in UNION {{forms[d].feature} \cup Range(forms[d].after) :
                           d \in DOMAIN forms} |-> <<>>]

\* The setup files keep the rules that the proofs suppose.
ASSUME OwnCommandsAssumption == OwnCommands
ASSUME UsedOnceAssumption == UsedOnce
ASSUME HookedEarlyAssumption == HookedEarly

-----------------------------------------------------------------------------
(* setup-html.el, with the forms of other files that it waits for           *)

HtmlDecl == HtmlForms @@ SmartparensForms @@ HideshowForms
HtmlDecls == DOMAIN HtmlDecl
HtmlUses ==
    Uses(<<"smartparens">>) \o Uses(HtmlOrder) \o Uses(<<"hideshow">>)
HtmlConds == {"xclip-or-python"}
HtmlRequires ==
    Libraries(HtmlDecl,
         "company-web" :> <<"company", "web-completion-data">>
      @@ "ox-clip" :> <<"org", "htmlize">>
      @@ "smartparens-config" :> <<"smartparens">>)
HtmlFeatures == DOMAIN HtmlRequires

\* Emacs's own major modes, what other setup files load, and what Org requires
\* when it exports HTML.
HtmlElsewhere == {"nxml-mode", "sgml-mode", "hideshow", "org", "company", "htmlize"}

\* web-mode and company-web wait for web-completion-data, which "is required
\* by web-mode" (setup-html.el:59) but which nothing loads first: the three
\* are stuck.
WebLibraries == {"web-completion-data", "web-mode", "company-web"}
ASSUME HtmlAssumption == Decl = HtmlDecl => WebLibraries \in Circles

-----------------------------------------------------------------------------
(* setup-windows.el and setup-helm.el                                       *)

WindowsDecl == WindowsForms @@ HelmForms
WindowsDecls == DOMAIN WindowsDecl
WindowsUses  == Uses(WindowsOrder) \o Uses(HelmOrder)
WindowsConds == {"graphic"}
WindowsRequires ==
    Libraries(WindowsDecl,
         "helm-imenu" :> <<"helm">>
      @@ "helm-ring" :> <<"helm">>
      @@ "helm-projectile" :> <<"projectile", "helm">>
      @@ "helm-lsp" :> <<"helm">>
      @@ "window-purpose-x" :> <<"window-purpose">>
      @@ "helm-purpose" :> <<"helm", "window-purpose">>
      @@ "ivy-purpose" :> <<"ivy", "window-purpose">>)
WindowsFeatures == DOMAIN WindowsRequires

\* setup-ivy.el and setup-projectile.el.
WindowsElsewhere == {"ivy", "projectile"}

\* All that waits for a command waits for window-purpose's.
WindowsRank == [d \in WindowsDecls |-> IF d = "window-purpose" THEN 0 ELSE 1]
ASSUME WindowsAssumption == Decl = WindowsDecl => Grounded(WindowsRank)

-----------------------------------------------------------------------------
(* setup-company.el, between setup-lsp.el, setup-web.el and what follows    *)

CompanyDecl == LspForms @@ WebForms @@ CompanyForms @@ VcForms
CompanyDecls == DOMAIN CompanyDecl
CompanyUses ==
    Uses(<<"lsp-mode">>) \o Uses(WebOrder) \o Uses(CompanyOrder)
    \o <<EndCatch("company")>> \o Uses(<<"vc">>)
CompanyConds == {"TabNine", "irony-server", "rdm", "clangd", "bibtex", "emacs-26"}
CompanyRequires ==
    Libraries(CompanyDecl,
         "company-restclient" :> <<"company", "restclient">>
      @@ "company-lsp" :> <<"company", "lsp-mode">>
      @@ "company-irony" :> <<"company">>
      @@ "company-bibtex" :> <<"company">>
      @@ "company-math" :> <<"math-symbol-lists", "company">>
      @@ "company-auctex" :> <<"company">>)
CompanyFeatures == DOMAIN CompanyRequires
CompanyFaulty   == {"company", "company-lsp", "company-bibtex"}
CompanyElsewhere == {"auctex", "math-symbol-lists"}

\* What comes behind (ignore-errors (require 'setup-company)), .emacs:177, does
\* not depend on company's forms.
ASSUME CompanyAssumption == Decl = CompanyDecl => Dependable({"vc"}, {"vc"})

-----------------------------------------------------------------------------
(* Forms that load after some idle time, where some are not installed.      *)

IdleDecl ==
    AutorevertForms @@ UniquifyForms @@ BookmarksForms @@ DockerTrampForms
    @@ RecentfForms
IdleDecls == DOMAIN IdleDecl
IdleUses ==
    Uses(<<"autorevert", "uniquify">>) \o Uses(BookmarksOrder)
    \o Uses(<<"docker-tramp", "recentf">>)
IdleConds == {"windows-nt"}
IdleRequires == Libraries(IdleDecl, "docker-tramp" :> <<"tramp">>)
IdleFeatures == DOMAIN IdleRequires
IdleMissing  == {"bm", "docker-tramp"}

=============================================================================
