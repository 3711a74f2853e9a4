------------------------------ MODULE UcsEditing ------------------------------
(***************************************************************************)
(* One UCS file (numbered texts of a locale), from the disk to the grid    *)
(* the user types into.  CUcsFile holds the texts in memory; every editor  *)
(* tab, several of which may be open on the same CUcsFile, edits through a *)
(* CUcsTransaction of its own, which commits to the CUcsFile when the tab  *)
(* is saved.                                                               *)
(*                                                                         *)
(* A table of texts is a function on Ids; None is an id with no text.      *)
(* Every text a user types differs from every text typed before, so that a *)
(* text found in the file tells whose edit it is.                          *)
(***************************************************************************)
EXTENDS Integers

CONSTANTS Ids,        \* the numbers a user may enter, an unsigned long each
          Half,       \* half the numbers an unsigned long has (2^31)
          Texts,      \* what users type
          Old,        \* the text of the entries the file has at first
          Blank,      \* the text of an entry just added
          None,       \* no entry
          Untouched,  \* no edit of an entry
          Stock,      \* the ids the file has at first
          Editors,    \* the tabs that may be opened on the file
          Outcomes    \* how a write of the file may end: "saved"; "failed", when the file
                      \* cannot be opened; "cut", when writes fail that nobody looks at

UcsAssumption ==
  /\ Half \in Nat /\ Ids \subseteq 0..(2 * Half - 1)
  /\ Stock \subseteq Ids
  /\ Outcomes \subseteq {"saved", "failed", "cut"}
  /\ Untouched \notin {Old, Blank, None} /\ None \notin {Old, Blank} /\ Old # Blank
  /\ Texts \cap {Old, Blank, None, Untouched} = {}

VARIABLES disk,     \* the lines of the file: number written -> text
          raw,      \* CUcsFile::m_mapValues
          own,      \* the m_mapValues of every editor's transaction
          grid,     \* the rows every editor's property grid shows
          open,     \* the editors that are open
          dirty,    \* the editors with m_bNeedsSave set
          crashed,  \* a handler has followed a null pointer
          \* What users may rely on, which the program does not record:
          typed,    \* the texts typed so far
          pending,  \* every editor's edits since it last reported "File saved"
          saved,    \* the texts reported saved, or in the file from the first
          dropped,  \* the ids of lines a write lost unseen, and none wrote again
          refused   \* the edits, <<id, text>>, users gave up: typed over unsaved, or
                    \* answered "No" to save

vars == <<disk, raw, own, grid, open, dirty, crashed, typed, pending, saved, dropped, refused>>

Table == [Ids -> Texts \union {Old, Blank, None}]
Edits == [Ids -> Texts \union {Blank, Untouched}]
NoEdits == [id \in Ids |-> Untouched]

\* Mutant: what is there wins.
OverSwapped(table, edits) == [id \in Ids |-> IF table[id] # None \/ edits[id] = Untouched THEN table[id] ELSE edits[id]]

\* The edits laid over a table.
Over(table, edits) == [id \in Ids |-> IF edits[id] = Untouched THEN table[id] ELSE edits[id]]

(***************************************************************************)
(* The file.  An id is written as a signed long (_ltow) and read as a run  *)
(* of digits: a line that begins with a minus sign is skipped.             *)
(***************************************************************************)
Number(id) == IF id < Half THEN id ELSE id - 2 * Half
Numbers == {Number(id) : id \in Ids}
Write(table) == [n \in Numbers |-> table[CHOOSE id \in Ids : Number(id) = n]]
Lines == [Numbers -> Texts \union {Old, Blank, None}]

\* CUcsFile::Save looks at no fwrite, fputws and fclose: a line may not get to the
\* disk, or not all of it.  What is left of a text is not told from the empty one,
\* and pieces of two lines do not make the number of a third; a file that has lost
\* its header has lost all lines.
Cut(lines) == {left \in Lines : \A n \in Numbers :
                 left[n] \in {lines[n], None} \/ (lines[n] # None /\ left[n] = Blank)}

Read(lines) == [id \in Ids |-> IF id \in Numbers THEN lines[id] ELSE None]

StockTable == [id \in Ids |-> IF id \in Stock THEN Old ELSE None]

Init ==
  /\ disk = Write(StockTable) /\ raw = Read(disk)
  /\ own = [e \in Editors |-> NoEdits] /\ grid = [e \in Editors |-> {}]
  /\ open = {} /\ dirty = {} /\ crashed = FALSE
  /\ typed = {} /\ pending = [e \in Editors |-> NoEdits]
  /\ saved = StockTable /\ dropped = {} /\ refused = {}

-----------------------------------------------------------------------------
\* The ids of the entries an editor works on: its edits over the file's.
Entries(e) == {id \in Ids : Over(raw, own[e])[id] # None}

\* A tab is opened on the file: its grid is filled once, from the CUcsFile.
FillFromCUcsFile(e) ==
  /\ e \notin open
  /\ open' = open \union {e}
  /\ own' = [own EXCEPT ![e] = NoEdits]
  /\ grid' = [grid EXCEPT ![e] = {id \in Ids : raw[id] # None}]
  /\ dirty' = dirty \ {e}
  /\ pending' = [pending EXCEPT ![e] = NoEdits]
  /\ UNCHANGED <<disk, raw, crashed, typed, saved, dropped, refused>>

\* The edits of a tab not reported saved.
Unsaved(e) == {edit \in Ids \X (Texts \union {Blank}) : pending[e][edit[1]] = edit[2]}

SetString(e, id, t) ==
  /\ own' = [own EXCEPT ![e][id] = t]
  /\ pending' = [pending EXCEPT ![e][id] = t]
  /\ dirty' = dirty \union {e}
  /\ refused' = refused \union {edit \in Unsaved(e) : edit[1] = id}

\* A text is typed into a row.
OnPropertyChange(e, id, t) ==
  /\ e \in open /\ id \in grid[e] /\ t \in Texts \ typed
  /\ SetString(e, id, t)
  /\ typed' = typed \union {t}
  /\ UNCHANGED <<disk, raw, grid, open, crashed, saved, dropped>>

\* The row before which a new one goes: that of the next entry.
Following(e, id) == {later \in Entries(e) : later > id /\ \A x \in Entries(e) : x > id => later <= x}

\* Mutant: no row is made.
SameRows(e, id) == grid[e]
\* The rows once an entry is added.
NewRow(e, id) == grid[e] \union {id}

\* An entry is added.  A new row goes before the row of the following entry,
\* looked up by its label; without such a row Insert follows a null pointer,
\* which ends the program.
OnNewEntry(e, id) ==
  /\ e \in open /\ id \notin Entries(e)
  /\ IF Following(e, id) \subseteq grid[e]
     THEN /\ SetString(e, id, Blank)
          /\ grid' = [grid EXCEPT ![e] = NewRow(e, id)]
          /\ UNCHANGED <<open, crashed>>
     ELSE /\ crashed' = TRUE /\ open' = {} /\ dirty' = {}
          /\ own' = [x \in Editors |-> NoEdits]
          /\ pending' = [x \in Editors |-> NoEdits]
          /\ grid' = [x \in Editors |-> {}] /\ UNCHANGED refused
  /\ UNCHANGED <<disk, raw, typed, saved, dropped>>

(***************************************************************************)
(* DoSave.  The edits are committed to the CUcsFile and forgotten before   *)
(* the file is written, and stay committed when the write fails.           *)
(***************************************************************************)
\* Mutant: nothing is committed.
CommitNothing(e) == UNCHANGED raw
Commit(e) == raw' = Over(raw, own[e])

Written ==
  /\ disk' = Write(raw')
  /\ dropped' = {id \in dropped : raw'[id] # saved'[id]}

WrittenInPart ==
  /\ disk' \in Cut(Write(raw'))
  /\ dropped' = dropped \union {id \in Ids : Read(disk')[id] # raw'[id]}

Save(e, outcome) ==
  /\ Commit(e)
  /\ own' = [own EXCEPT ![e] = NoEdits]
  /\ IF outcome = "failed"
     THEN UNCHANGED <<disk, dirty, saved, dropped, pending>>
     ELSE /\ dirty' = dirty \ {e}
          /\ saved' = [id \in Ids |-> IF pending[e][id] = Untouched THEN saved[id] ELSE pending[e][id]]
          /\ pending' = [pending EXCEPT ![e] = NoEdits]
          /\ IF outcome = "saved" THEN Written ELSE WrittenInPart

DoSave(e, outcome) ==
  /\ e \in open /\ outcome \in Outcomes
  /\ Save(e, outcome)
  /\ UNCHANGED <<grid, open, crashed, typed, refused>>

\* Mutant: what is left is committed.
CommitLeft(e) == Commit(e) /\ own' = [own EXCEPT ![e] = NoEdits]
\* The tab is closed and its transaction deleted with what is not committed.
Discard(e) == own' = [own EXCEPT ![e] = NoEdits] /\ UNCHANGED raw

Leave(e) == open' = open \ {e} /\ grid' = [grid EXCEPT ![e] = {}]

CloseClean(e) ==
  /\ e \in open \ dirty
  /\ Leave(e) /\ Discard(e)
  /\ UNCHANGED <<disk, dirty, crashed, typed, pending, saved, dropped, refused>>

\* OnCloseWindow with unsaved edits, answered "Yes": a tab that is still
\* dirty after the save is kept.
CloseYes(e, outcome) ==
  /\ e \in open \intersect dirty /\ outcome \in Outcomes
  /\ Save(e, outcome)
  /\ IF e \in dirty' THEN UNCHANGED <<open, grid>> ELSE Leave(e)
  /\ UNCHANGED <<crashed, typed, refused>>

\* Answered "No": the user gives the texts up.
CloseNo(e) ==
  /\ e \in open \intersect dirty
  /\ Leave(e) /\ Discard(e)
  /\ dirty' = dirty \ {e}
  /\ refused' = refused \union Unsaved(e)
  /\ pending' = [pending EXCEPT ![e] = NoEdits]
  /\ UNCHANGED <<disk, crashed, typed, saved, dropped>>

\* The mod is closed, with all its tabs, and loaded again.
Reload ==
  /\ open = {} /\ raw # Read(disk)
  /\ raw' = Read(disk)
  /\ UNCHANGED <<disk, own, grid, open, dirty, crashed, typed, pending, saved, dropped, refused>>

Next ==
  \/ \E e \in Editors :
       \/ FillFromCUcsFile(e)
       \/ \E id \in Ids, t \in Texts : OnPropertyChange(e, id, t)
       \/ \E id \in Ids : OnNewEntry(e, id)
       \/ \E outcome \in Outcomes : DoSave(e, outcome)
       \/ CloseClean(e)
       \/ \E outcome \in Outcomes : CloseYes(e, outcome)
       \/ CloseNo(e)
  \/ Reload

Spec == Init /\ [][Next]_vars

-----------------------------------------------------------------------------
TypeOK ==
  /\ disk \in Lines /\ raw \in Table
  /\ own \in [Editors -> Edits] /\ grid \in [Editors -> SUBSET Ids]
  /\ open \subseteq Editors /\ dirty \subseteq open /\ crashed \in BOOLEAN
  /\ typed \subseteq Texts /\ pending \in [Editors -> Edits]
  /\ saved \in Table /\ dropped \subseteq Ids /\ refused \subseteq Ids \X (Texts \union {Blank})

\* What was reported saved last, or was in the file from the first, is what
\* the file holds when it is next loaded: no later save of another editor and
\* no save before it that said it failed takes it away; a write that lost it
\* unseen does, until one writes it again.  (What replaces it against the
\* user's answer is the matter of RefusedStaysOut.)  (CUcsTransaction::Save,
\* CUcsFile::Save, CUcsFile::Load.)
SavedIsReadBack ==
  \A id \in Ids \ dropped : Read(disk)[id] = saved[id] \/ <<id, Read(disk)[id]>> \in refused

\* A text whose editor was closed with the answer "No", or that was typed
\* over before it was saved, is never written to the file, whoever saves
\* later (frmUCSEditor::OnCloseWindow, CUcsTransaction).
RefusedStaysOut == \A edit \in refused : edit[2] \in Texts => Read(disk)[edit[1]] # edit[2]

\* Adding an entry always finds the row it is to be put before: the property
\* grid is filled once, and the map the following entry is looked for in is
\* shared with every other editor of the file (frmUCSEditor::OnNewEntry).
RowsAreFound == ~crashed

\* A save that fails leaves nothing undone that a second one does not do:
\* every edit not reported saved is still an entry of its editor
\* (frmUCSEditor::DoSave, CUcsTransaction::Save, GetRawMap).
EditsAreKept ==
  \A e \in open, id \in Ids :
    pending[e][id] # Untouched => Over(raw, own[e])[id] = pending[e][id]
=============================================================================
