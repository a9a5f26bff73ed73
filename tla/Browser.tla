------------------------------- MODULE Browser -------------------------------
(***************************************************************************)
(* A browser tab of the registry's user interface.  It shows one page at a *)
(* time: the scripts of a page start afresh when it is opened, and what    *)
(* they were waiting for is dropped when it is left.  A behaviour is the   *)
(* life of one page; it may be left at any time.                           *)
(***************************************************************************)
EXTENDS DatasetExplorer, Qonsole, EditForm

VARIABLE page

browserVars == <<page, explorerVars, qonsoleVars, editVars>>

Pages == {"dataset-browse", "sparql-form", "edit-form"}

\* A page is opened: its scripts start.  The table matters on its own page only.
smallest == CHOOSE n \in TableSizes : \A k \in TableSizes : n <= k

BrowserInit ==
    /\ page \in Pages
    /\ ExplorerInit /\ QonsoleInit
    /\ \E n \in TableSizes : EditInit(n) /\ (page = "edit-form" \/ n = smallest)

\* A save was answered with success: the script goes to the return page.
SavedAndLeft ==
    /\ page = "edit-form"
    /\ \E s \in saves : s.done
    /\ page' = "left"
    /\ UNCHANGED <<explorerVars, qonsoleVars, editVars>>

BrowserNext ==
    \/ page = "dataset-browse" /\ ExplorerNext /\ UNCHANGED <<page, qonsoleVars, editVars>>
    \/ page = "sparql-form" /\ QonsoleNext /\ UNCHANGED <<page, explorerVars, editVars>>
    \/ page = "edit-form" /\ EditNext /\ UNCHANGED <<page, explorerVars, qonsoleVars>>
    \/ SavedAndLeft

BrowserSpec == BrowserInit /\ [][BrowserNext]_browserVars
==============================================================================
