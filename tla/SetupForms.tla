------------------------------ MODULE SetupForms ------------------------------
(***************************************************************************)
(* The `use-package' forms of the setup files, one row per form: a         *)
(* function from the name of the form to what its keywords say.  Rows are  *)
(* in the order of their file; a long file has a definition per topic.      *)
(***************************************************************************)
EXTENDS Forms, Naturals, TLC

-----------------------------------------------------------------------------
(* setup-html.el, and the forms of other files it waits for                 *)

MarkupForms ==
    "nginx-mode" :> Commanding("nginx-mode")
 @@ "apache-mode" :> [Form("apache-mode") EXCEPT !.commands = TRUE]
 @@ "nxml-mode" :>
      [Commanding("nxml-mode") EXCEPT
         !.after = <<"hideshow", "smartparens">>, !.init = <<Use("sgml-mode")>>]
 @@ "sgml-mode" :> Form("sgml-mode")
 @@ "web-completion-data" :> Deferring("web-completion-data")
 @@ "web-mode" :>
      [Commanding("web-mode") EXCEPT
         !.after = <<"nxml-mode", "web-completion-data">>]
 @@ "company-web" :>
      [Commanding("company-web") EXCEPT
         !.after = <<"company", "web-mode", "web-completion-data">>]

ExportForms ==
    "htmlize" :>
      [Commanding("htmlize") EXCEPT !.after = <<"org", "web-mode">>]
 @@ "ox-clip" :>
      [Form("ox-clip") EXCEPT
         !.when = {"xclip-or-python"}, !.after = <<"htmlize", "org">>,
         !.commands = TRUE]

HtmlForms == MarkupForms @@ ExportForms

HtmlOrder ==
    <<"nginx-mode", "apache-mode", "nxml-mode", "web-completion-data",
      "web-mode", "company-web", "htmlize", "ox-clip">>

\* setup-parenthesis.el, setup-folding.el
SmartparensForms ==
    "smartparens" :>
      [Commanding("smartparens") EXCEPT
         !.initHook = TRUE, !.config = <<Use("smartparens-config")>>]
 @@ "smartparens-config" :> Form("smartparens-config")

HideshowForms == "hideshow" :> Commanding("hideshow")

-----------------------------------------------------------------------------
(* setup-versioning.el: the form that comes after company's                 *)

VcForms == "vc" :> Demanding("vc")

-----------------------------------------------------------------------------
(* setup-windows.el and setup-helm.el                                       *)

FrameForms ==
    "frame" :> Demanding("frame")
 @@ "winner" :> [Commanding("winner") EXCEPT !.initHook = TRUE]
 @@ "popwin" :> Commanding("popwin")
 @@ "perspective" :> Commanding("perspective")

PurposeForms ==
    "window-purpose" :>
      [Commanding("window-purpose") EXCEPT
         !.after = <<"helm">>, !.initHook = TRUE,
         !.config = <<Call("window-purpose"), Use("window-purpose-x")>>]
 @@ "window-purpose-x" :>
      [Demanding("window-purpose-x") EXCEPT !.after = <<"window-purpose">>]
 @@ "helm-purpose" :>
      [Commanding("helm-purpose") EXCEPT !.after = <<"helm", "window-purpose">>]
 @@ "ivy-purpose" :>
      [Commanding("ivy-purpose") EXCEPT !.after = <<"ivy", "window-purpose">>]

SwitchForms ==
    "resize-window" :> Commanding("resize-window")
 @@ "switch-window" :> [Commanding("switch-window") EXCEPT !.when = {"graphic"}]
 @@ "ace-window" :> Commanding("ace-window")
 @@ "golden-ratio" :> Commanding("golden-ratio")
 @@ "auto-dim-other-buffers" :> Commanding("auto-dim-other-buffers")
 @@ "shackle" :> [Commanding("shackle") EXCEPT !.init = <<Call("shackle")>>]
 @@ "popup-buffers" :>
      [Form("popup-buffers") EXCEPT !.commands = TRUE, !.initHook = TRUE]

WindowsForms == FrameForms @@ PurposeForms @@ SwitchForms

WindowsOrder ==
    <<"frame", "winner", "popwin", "perspective", "window-purpose",
      "helm-purpose", "ivy-purpose", "resize-window", "switch-window",
      "ace-window", "golden-ratio", "auto-dim-other-buffers", "shackle",
      "popup-buffers">>

HelmForms ==
    "helm-config" :> Demanding("helm-config")
 @@ "helm-ring" :> [Form("helm-ring") EXCEPT !.commands = TRUE]
 @@ "helm-projectile" :>
      [Commanding("helm-projectile") EXCEPT
         !.after = <<"projectile", "helm-config">>]
 @@ "helm-imenu" :> Form("helm-imenu")
 @@ "helm-lsp" :> Commanding("helm-lsp")
 @@ "helm-posframe" :>
      [Commanding("helm-posframe") EXCEPT
         !.disabled = TRUE, !.initHook = TRUE, !.when = {"graphic"}]

HelmOrder ==
    <<"helm-config", "helm-ring", "helm-projectile", "helm-imenu",
      "helm-lsp", "helm-posframe">>

-----------------------------------------------------------------------------
(* setup-lsp.el and setup-web.el, as far as setup-company.el meets them     *)

LspForms == "lsp-mode" :> Demanding("lsp-mode")

WebForms ==
    "restclient" :> Form("restclient")
 @@ "company-restclient" :>
      [Form("company-restclient") EXCEPT !.after = <<"company", "restclient">>]

WebOrder == <<"restclient", "company-restclient">>

(* setup-company.el                                                         *)

CompletionForms ==
    "company" :>
      [Commanding("company") EXCEPT
         !.init = <<Call("company")>>,
         !.config = <<Use("company-lsp"), Use("company-tabnine"),
                      Use("company-irony"), Use("company-rtags"),
                      Use("company-box"), Use("company-quickhelp"),
                      Use("company-bibtex"), Use("company-math"),
                      Use("company-auctex")>>]

BackendForms ==
    "company-lsp" :> Demanding("company-lsp")
 @@ "company-tabnine" :>
      [Form("company-tabnine") EXCEPT !.when = {"TabNine"}, !.commands = TRUE]
 @@ "company-irony" :>
      [Form("company-irony") EXCEPT
         !.when = {"irony-server"}, !.unless = {"clangd"}]
 @@ "company-rtags" :>
      [Form("company-rtags") EXCEPT !.when = {"rdm"}, !.unless = {"clangd"}]
 @@ "company-box" :>
      [Form("company-box") EXCEPT !.when = {"emacs-26"}, !.commands = TRUE]
 @@ "company-quickhelp" :>
      [Form("company-quickhelp") EXCEPT !.disabled = TRUE, !.commands = TRUE]
 @@ "company-bibtex" :> [Form("company-bibtex") EXCEPT !.when = {"bibtex"}]
 @@ "company-math" :>
      [Form("company-math") EXCEPT !.after = <<"math-symbol-lists">>]
 @@ "company-auctex" :>
      [Commanding("company-auctex") EXCEPT
         !.after = <<"auctex", "company-math">>]
 @@ "company-tng-mode" :>
      [Form("company-tng-mode") EXCEPT !.disabled = TRUE, !.commands = TRUE]

CompanyForms == CompletionForms @@ BackendForms

CompanyOrder == <<"company", "company-tng-mode">>

-----------------------------------------------------------------------------
(* Forms with a number after :defer                                         *)

\* setup-general.el
UniquifyForms == "uniquify" :> [Form("uniquify") EXCEPT !.defer = "idle"]
AutorevertForms ==
    "autorevert" :>
      [Form("autorevert") EXCEPT
         !.unless = {"windows-nt"}, !.defer = "idle", !.commands = TRUE,
         !.initHook = TRUE]

\* setup-bookmarks.el
BookmarksForms ==
    "bookmark" :> [Form("bookmark") EXCEPT !.defer = "idle"]
 @@ "bm" :>
      [Form("bm") EXCEPT !.defer = "idle", !.commands = TRUE, !.initHook = TRUE]

BookmarksOrder == <<"bookmark", "bm">>

\* setup-docker.el
DockerTrampForms ==
    "docker-tramp" :>
      [Form("docker-tramp") EXCEPT !.after = <<"tramp">>, !.defer = "idle"]

\* setup-recentf.el
RecentfForms ==
    "recentf" :>
      [Form("recentf") EXCEPT
         !.defer = "idle", !.commands = TRUE,
         !.init = <<Call("recentf"), Call("recentf")>>]

Uses(order) == [i \in 1..Len(order) |-> Use(order[i])]
=============================================================================
