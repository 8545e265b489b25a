--------------------------------- MODULE Pages ---------------------------------
(***************************************************************************)
(* The management pages, what the workers of reports do and what an open    *)
(* page is told, together.                                                  *)
(***************************************************************************)
EXTENDS Publications, KnowledgeBase, Directory, Settings, Reports, Live

vars == <<page, req, pubVars, kbVars, dirVars, setVars, repVars, liveVars>>

Init ==
    /\ PageInit /\ PublicationsInit /\ KnowledgeBaseInit /\ DirectoryInit /\ SettingsInit
    /\ ReportsInit /\ LiveInit

Next ==
    \/ (FormsNext \/ ThemesNext) /\ UNCHANGED <<kbVars, dirVars, setVars, repVars, liveVars>>
    \/ KnowledgeBaseNext /\ UNCHANGED <<pubVars, dirVars, setVars, repVars, liveVars>>
    \/ DirectoryNext /\ UNCHANGED <<pubVars, kbVars, setVars, repVars, liveVars>>
    \/ SettingsNext /\ UNCHANGED <<pubVars, kbVars, dirVars, repVars, liveVars>>
    \/ (ReportsNext \/ MonthNext) /\ UNCHANGED <<pubVars, kbVars, dirVars, setVars, liveVars>>
    \/ (ViewersNext \/ NotesNext) /\ UNCHANGED <<pubVars, kbVars, dirVars, setVars, repVars>>

Spec == Init /\ [][Next]_vars
=============================================================================
