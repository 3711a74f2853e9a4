------------------------------ MODULE EditorTabs ------------------------------
(***************************************************************************)
(* The tabs of the main window (CDMS/Construct.cpp) and what becomes of    *)
(* the changes made in them: saving, the questions asked when a tab, the   *)
(* mod or the program is closed, failed saves and vetoes.  Every editor    *)
(* (frmRGDEditor, frmUCSEditor, frmScarEditor, frmRgmMaterialEditor and    *)
(* frmModule) answers a close event in the same way.                       *)
(*                                                                         *)
(* A document is edited in a copy of its own, deleted with its tab.  The   *)
(* properties tab edits the CModuleFile itself, which lives until the mod  *)
(* is closed.  A change is made once; a copy, and a file, is the set of    *)
(* changes in it.                                                          *)
(***************************************************************************)
EXTENDS Naturals

CONSTANTS Docs,     \* the documents that may be opened
          Props,    \* the properties tab
          Silent,   \* those with handlers that do not mark the page: frmRGDEditor's
                    \* OnAddChild, OnDelete and OnPasteInto
          Changes,  \* the changes users make
          MayVeto   \* whether a close of the main window may be refused: TRUE
                    \* for its X, FALSE for File, Exit, which calls Close(TRUE)

Pages == Docs \union {Props}

ASSUME TabsAssumption == Props \notin Docs /\ Silent \subseteq Docs /\ MayVeto \subseteq BOOLEAN

VARIABLES running,   \* the main window exists
          loaded,    \* m_pModule is set
          tabs,      \* the pages of m_pTabs
          dirty,     \* the pages with m_bNeedsSave set
          copy,      \* page -> the changes in what it edits
          file,      \* page -> the changes in its file
          closing,   \* what ConfirmCloseTabs is run for: "nothing", "mod", "program"
          canVeto,   \* its argument
          toAsk,     \* the pages it has not come to
          \* What users know:
          made,      \* the changes made
          answered,  \* the pages they answered "No" for in this ConfirmCloseTabs
          refused,   \* the changes whose page was closed after a "No"
          cut        \* the changes a save took from a file: one that emptied it and
                     \* failed, or one that lost them and noticed nothing

vars == <<running, loaded, tabs, dirty, copy, file, closing, canVeto, toAsk,
          made, answered, refused, cut>>

Init ==
  /\ running = TRUE /\ loaded = FALSE /\ tabs = {} /\ dirty = {}
  /\ copy = [p \in Pages |-> {}] /\ file = copy
  /\ closing = "nothing" /\ canVeto = TRUE /\ toAsk = {}
  /\ made = {} /\ answered = {} /\ refused = {} /\ cut = {}

\* No handler runs while another asks its questions: the boxes are modal.
Idle == running /\ closing = "nothing"

-----------------------------------------------------------------------------
(* Opening, editing, saving *)

\* SetModule(pMod) leaves the properties tab as the only one.
LoadMod ==
  /\ Idle /\ ~loaded
  /\ loaded' = TRUE /\ tabs' = {Props}
  /\ UNCHANGED <<running, dirty, copy, file, closing, canVeto, toAsk, made, answered, refused, cut>>

\* A document is opened; OnModuleProperties brings the properties tab back,
\* with no change to save.
OpenPage(p) ==
  /\ Idle /\ loaded /\ p \notin tabs
  /\ tabs' = tabs \union {p} /\ dirty' = dirty \ {p}
  /\ copy' = IF p = Props THEN copy ELSE [copy EXCEPT ![p] = file[p]]
  /\ UNCHANGED <<running, loaded, file, closing, canVeto, toAsk, made, answered, refused, cut>>

\* Mutant: no change marks the page.
MarkNothing(p) == UNCHANGED dirty
MarkModified(p) == dirty' = dirty \union {p}

Edit(p, c) ==
  /\ Idle /\ p \in tabs /\ c \in Changes \ made
  /\ MarkModified(p) \/ (p \in Silent /\ UNCHANGED dirty)
  /\ copy' = [copy EXCEPT ![p] = @ \union {c}]
  /\ made' = made \union {c}
  /\ UNCHANGED <<running, loaded, tabs, file, closing, canVeto, toAsk, answered, refused, cut>>

Saved(p) ==
  /\ file' = [file EXCEPT ![p] = copy[p]] /\ dirty' = dirty \ {p}
  /\ UNCHANGED cut

\* The save fails after it has opened, and so emptied, the file; the backup it
\* restores does not exist (RestoreBackupFile does nothing).  The properties
\* are written to a temporary file first.
FailsLate(p) ==
  /\ p # Props
  /\ file' = [file EXCEPT ![p] = {}] /\ cut' = cut \union file[p]

\* A write that fails and that nobody looks at: CUcsFile::Save ignores what fwrite,
\* fputws and fclose return, the writer of .module files and COutputStream what
\* fclose does.  The page is clean, and its file has some of it.
FailsUnseen(p) ==
  \E written \in SUBSET copy[p] :
    /\ file' = [file EXCEPT ![p] = written] /\ dirty' = dirty \ {p}
    /\ cut' = cut \union (copy[p] \ written)

\* Mutant: a save that fails, and is told so, is not told from one that succeeds.
SaveBlindly(p) == Saved(p) \/ (UNCHANGED <<file, cut>> /\ dirty' = dirty \ {p})

\* DoSave of the page: a failure that is noticed clears nothing.
Save(p) ==
  \/ Saved(p)
  \/ FailsUnseen(p)
  \/ UNCHANGED <<file, dirty, cut>>
  \/ FailsLate(p) /\ UNCHANGED dirty

OnSaveActive(p) ==
  /\ Idle /\ p \in tabs
  /\ Save(p)
  /\ UNCHANGED <<running, loaded, tabs, copy, closing, canVeto, toAsk, made, answered, refused>>

-----------------------------------------------------------------------------
(* Closing one tab: OnCloseActiveTab, and OnClosePage for its X *)

\* Mutant: the flag outlives the page.
DeletePageOnly(p) == tabs' = tabs \ {p} /\ UNCHANGED dirty
DeletePage(p) == tabs' = tabs \ {p} /\ dirty' = dirty \ {p}

CloseClean(p) ==
  /\ Idle /\ p \in tabs \ dirty
  /\ DeletePage(p)
  /\ UNCHANGED <<running, loaded, copy, file, closing, canVeto, toAsk, made, answered, refused, cut>>

\* "Yes": the page saves, and vetoes if it is still dirty.
CloseYes(p) ==
  /\ Idle /\ p \in tabs \intersect dirty
  /\ Save(p)
  /\ tabs' = IF p \in dirty' THEN tabs ELSE tabs \ {p}
  /\ UNCHANGED <<running, loaded, copy, closing, canVeto, toAsk, made, answered, refused>>

\* "No".  ("Cancel" vetoes and changes nothing.)
CloseNo(p) ==
  /\ Idle /\ p \in tabs \intersect dirty
  /\ refused' = refused \union (copy[p] \ file[p])
  /\ DeletePage(p)
  /\ UNCHANGED <<running, loaded, copy, file, closing, canVeto, toAsk, made, answered, cut>>

-----------------------------------------------------------------------------
(* Closing the mod or the program: ConfirmCloseTabs asks every page *)

StartClosing(goal, veto) ==
  /\ Idle
  /\ closing' = goal /\ canVeto' = veto /\ toAsk' = tabs /\ answered' = {}
  /\ UNCHANGED <<running, loaded, tabs, dirty, copy, file, made, refused, cut>>

OnCloseMod == loaded /\ StartClosing("mod", TRUE)
OnCloseWindow == \E veto \in MayVeto : StartClosing("program", veto)

\* A page has let the close event pass; or has vetoed it, if it may.
Passed(p) == toAsk' = toAsk \ {p} /\ UNCHANGED closing
Vetoed(p) == IF canVeto THEN closing' = "nothing" /\ toAsk' = {} ELSE Passed(p)

AskPage(p) ==
  /\ running /\ closing # "nothing" /\ p \in toAsk
  /\ UNCHANGED <<running, loaded, tabs, copy, canVeto, made, refused>>
  /\ \/ /\ p \notin dirty
        /\ Passed(p) /\ UNCHANGED <<file, dirty, cut, answered>>
     \/ /\ p \in dirty
        /\ \/ /\ Save(p)                                               \* "Yes"
              /\ IF p \in dirty' THEN Vetoed(p) ELSE Passed(p)
              /\ UNCHANGED answered
           \/ /\ answered' = answered \union {p}                        \* "No"
              /\ Passed(p) /\ UNCHANGED <<file, dirty, cut>>
           \/ Vetoed(p) /\ UNCHANGED <<file, dirty, cut, answered>>   \* "Cancel"

\* No page is left to ask: SetModule(0) deletes the tabs, then the mod; or the main
\* window is destroyed, with all.
Close ==
  /\ running /\ closing # "nothing" /\ toAsk = {}
  /\ refused' = refused \union UNION {copy[p] \ file[p] : p \in answered}
  /\ tabs' = {} /\ dirty' = {}
  /\ copy' = [copy EXCEPT ![Props] = file[Props]]
  /\ loaded' = FALSE /\ running' = (closing = "mod")
  /\ closing' = "nothing" /\ toAsk' = {} /\ answered' = {}
  /\ UNCHANGED <<file, canVeto, made, cut>>

Next ==
  \/ LoadMod
  \/ \E p \in Pages :
       \/ OpenPage(p)
       \/ \E c \in Changes : Edit(p, c)
       \/ OnSaveActive(p)
       \/ CloseClean(p)
       \/ CloseYes(p)
       \/ CloseNo(p)
       \/ AskPage(p)
  \/ OnCloseMod
  \/ OnCloseWindow
  \/ Close

Spec == Init /\ [][Next]_vars

-----------------------------------------------------------------------------
TypeOK ==
  /\ running \in BOOLEAN /\ loaded \in BOOLEAN /\ canVeto \in BOOLEAN
  /\ tabs \subseteq Pages /\ dirty \subseteq tabs
  /\ copy \in [Pages -> SUBSET Changes] /\ file \in [Pages -> SUBSET Changes]
  /\ closing \in {"nothing", "mod", "program"} /\ toAsk \subseteq tabs
  /\ made \subseteq Changes /\ answered \subseteq Pages /\ refused \subseteq made
  /\ cut \subseteq made

\* A change is given up by its user only: it is in a file, in a tab that will
\* ask before it is closed, or in one that was closed after the answer "No".
\* No veto, answer given for another tab or save that says it failed loses it,
\* but for what a save cuts: it empties the file and fails, or the writes fail
\* that nobody looks at (ConstructFrame::ConfirmCloseTabs, OnClosePage,
\* OnCloseActiveTab, SetModule).
Kept(c) ==
  \/ \E p \in Pages : c \in file[p]
  \/ \E p \in tabs \intersect dirty : c \in copy[p]
NothingIsLost == \A c \in made : Kept(c) \/ c \in refused \union cut

\* A tab that does not ask when it is closed shows nothing that its file has
\* not, but for what a save has cut and what its user has given up: the
\* properties tab, brought back after a "No", still shows those changes (the
\* m_bNeedsSave of the editors).
CleanHasNothing == \A p \in tabs \ dirty : copy[p] \subseteq file[p] \union refused \union cut
=============================================================================
