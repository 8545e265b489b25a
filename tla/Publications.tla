----------------------------- MODULE Publications ------------------------------
(***************************************************************************)
(* The versions of the portal's form and the seasonal themes: of each, one  *)
(* is meant to be active.                                                   *)
(***************************************************************************)
EXTENDS PageRequest

CONSTANTS Forms, Themes   \* keys of the rows there may be

VARIABLES forms, themes

pubVars == <<forms, themes>>

NoForm == [version |-> 0, is_active |-> FALSE, new_structure |-> FALSE]
NoTheme == [exists |-> FALSE, is_active |-> FALSE, look |-> 0]

PublicationsInit ==
    /\ forms = [f \in Forms |-> NoForm]
    /\ themes = [t \in Themes |-> NoTheme]

-----------------------------------------------------------------------------
(* Form versions.                                                           *)

FormRows == {f \in Forms : forms[f].version > 0}
max_ver == LET v == {forms[f].version : f \in FormRows}
           IN  IF v = {} THEN 0 ELSE CHOOSE n \in v : \A m \in v : m <= n

\* The row the portal and the builder load: an active one of the highest version.
ActiveForms(table) ==
    {f \in Forms : table[f].is_active /\ \A g \in Forms : table[g].is_active => table[g].version <= table[f].version}

\* The builder shows the built-in form in place of none and of the old format.
get_active_form_schema ==
    IF ActiveForms(forms) = {} THEN {None}
    ELSE {IF forms[f].new_structure THEN f ELSE None : f \in ActiveForms(forms)}

save_form_version(c, structured) ==
    /\ FormRows # Forms /\ Cardinality(FormRows) < page.rows
    /\ Begin(c, [op |-> "save_form_version", pc |-> "update", max_ver |-> max_ver,
                 new_structure |-> structured, stage |-> Nothing])
    /\ UNCHANGED pubVars

activate_form_version(c, f) ==
    /\ f \in FormRows
    /\ Begin(c, [op |-> "activate_form_version", pc |-> "update", form |-> f,
                 was_active |-> forms[f].is_active, stage |-> Nothing])
    /\ UNCHANGED pubVars

HideActiveForm(c) == [f \in ActiveForms(forms) |-> [is_active |-> FALSE]]

\* The UPDATE that hides the rows there are holds their locks to the commit.
HideForms(c) == [f \in FormRows |-> [is_active |-> FALSE]]

UpdateForms(c) ==
    /\ Busy(c) /\ req[c].pc = "update"
    /\ Goto(c, [pc |-> "commit", stage |-> HideForms(c)])
    /\ UNCHANGED pubVars

\* is_active = True is written only over a row that was read inactive.
CommitForm(c) ==
    LET r == req[c]
        new == IF r.op = "save_form_version"
               THEN Only(CHOOSE f \in Forms \ FormRows : TRUE,
                         [version |-> r.max_ver + 1, is_active |-> TRUE,
                          new_structure |-> r.new_structure])
               ELSE IF r.was_active THEN Nothing ELSE Only(r.form, [is_active |-> TRUE])
    IN  /\ Busy(c) /\ r.pc = "commit"
        /\ forms' = Written(forms, Over(new, r.stage))
        /\ Finish(c)
        /\ UNCHANGED themes

-----------------------------------------------------------------------------
(* Themes.                                                                  *)

ThemeRows == {t \in Themes : themes[t].exists}
active_theme(table) == {t \in Themes : table[t].exists /\ table[t].is_active}

create_theme ==
    /\ Cardinality(ThemeRows) < page.rows
    /\ themes' = [themes EXCEPT ![CHOOSE t \in Themes \ ThemeRows : TRUE] = [NoTheme EXCEPT !.exists = TRUE]]
    /\ Interrupt
    /\ UNCHANGED forms

BeginTheme(c, op, t, pc, stage) ==
    /\ t \in ThemeRows
    /\ Begin(c, [op |-> op, pc |-> pc, theme |-> t, stage |-> Only(t, stage)])
    /\ UNCHANGED pubVars

update_theme(c, t, look) ==
    BeginTheme(c, "update_theme", t, "commit", NetChange(themes[t], [look |-> look]))
delete_theme(c, t) == BeginTheme(c, "delete_theme", t, "commit", NoTheme)
toggle_theme(c, t) ==
    BeginTheme(c, "toggle_theme", t, IF themes[t].is_active THEN "commit" ELSE "others",
               [is_active |-> ~themes[t].is_active])

OtherThemes(c) == active_theme(themes) \ {req[c].theme}

\* Activation first puts out the others it finds active.
ReadOtherThemes(c) ==
    /\ Busy(c) /\ req[c].pc = "others"
    /\ Goto(c, [pc |-> "commit",
                stage |-> Over(req[c].stage, [t \in OtherThemes(c) |-> [is_active |-> FALSE]])])
    /\ UNCHANGED pubVars

\* An UPDATE of a row that was deleted meanwhile fails; a second DELETE does not.
Stale(c) == req[c].op # "delete_theme" /\ \E t \in DOMAIN req[c].stage :
                ~themes[t].exists /\ DOMAIN req[c].stage[t] # {}

CommitTheme(c) ==
    /\ Busy(c) /\ req[c].pc = "commit"
    /\ IF Stale(c) THEN Rollback(c) /\ UNCHANGED themes
                   ELSE themes' = Written(themes, req[c].stage) /\ Finish(c)
    /\ UNCHANGED forms

FormsNext ==
    /\ page.area = "forms"
    /\ \E c \in Slots :
         \/ \E b \in BOOLEAN : save_form_version(c, b)
         \/ \E f \in Forms : activate_form_version(c, f)
         \/ UpdateForms(c) \/ CommitForm(c)

ThemesNext ==
    /\ page.area = "themes"
    /\ \/ create_theme
       \/ \E c \in Slots :
            \/ \E t \in Themes : toggle_theme(c, t) \/ delete_theme(c, t)
                                 \/ \E look \in {0, 1} : update_theme(c, t, look)
            \/ ReadOtherThemes(c) \/ CommitTheme(c)
=============================================================================
