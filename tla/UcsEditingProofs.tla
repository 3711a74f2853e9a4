--------------------------- MODULE UcsEditingProofs ---------------------------
(***************************************************************************)
(* Proofs about UcsEditing.  Two cases keep what users are told: any       *)
(* number of tabs on one file when every write succeeds, and one tab       *)
(* whatever its writes do.  Ids are below half the numbers an unsigned     *)
(* long has, as others are not read back.                                  *)
(***************************************************************************)
EXTENDS UcsEditing, TLAPS

SmallIds == Ids \subseteq 0..(Half - 1)
NoFailure == Outcomes \subseteq {"saved"}
OneTab == \A e, f \in Editors : e = f

-----------------------------------------------------------------------------
(* The operators *)

LEMMA NumberIsId ==
    ASSUME UcsAssumption, SmallIds
    PROVE  Numbers = Ids /\ \A id \in Ids : Number(id) = id
<1>1. \A id \in Ids : Number(id) = id
    BY DEF SmallIds, UcsAssumption, Number
<1> QED
    BY <1>1 DEF Numbers

\* What is written is read back.
LEMMA ReadWrite ==
    ASSUME UcsAssumption, SmallIds, NEW t \in Table
    PROVE  Read(Write(t)) = t
<1>1. ASSUME NEW id \in Ids PROVE Write(t)[id] = t[id]
    <2>1. (CHOOSE i \in Ids : Number(i) = id) = id
        BY NumberIsId
    <2> QED
        BY <2>1, NumberIsId DEF Write
<1>2. Read(Write(t)) = [id \in Ids |-> t[id]]
    BY <1>1, NumberIsId DEF Read
<1> QED
    BY <1>2 DEF Table

LEMMA WriteType ==
    ASSUME NEW t \in Table PROVE Write(t) \in Lines
<1>1. \A n \in Numbers : (CHOOSE id \in Ids : Number(id) = n) \in Ids
    BY DEF Numbers
<1> QED
    BY <1>1 DEF Write, Table, Lines

LEMMA ReadType ==
    ASSUME NEW d \in Lines PROVE Read(d) \in Table
BY DEF Read, Table, Lines

LEMMA OverType ==
    ASSUME NEW t \in Table, NEW edits \in Edits
    PROVE  /\ Over(t, edits) \in Table
           /\ \A id \in Ids : Over(t, edits)[id] = IF edits[id] = Untouched THEN t[id] ELSE edits[id]
BY DEF Over, Table, Edits

LEMMA NoEditsType == NoEdits \in Edits /\ \A id \in Ids : NoEdits[id] = Untouched
BY DEF NoEdits, Edits

LEMMA StockType == UcsAssumption => StockTable \in Table
BY DEF StockTable, Table

-----------------------------------------------------------------------------
(* Types *)

LEMMA TypeInit == ASSUME UcsAssumption, Init PROVE TypeOK
<1>1. disk \in Lines /\ raw \in Table
    BY StockType, WriteType, ReadType DEF Init
<1> QED
    BY <1>1, StockType, NoEditsType DEF Init, TypeOK

LEMMA SetStringType ==
    ASSUME TypeOK, NEW e \in open, NEW id \in Ids, NEW t \in Texts \cup {Blank}, SetString(e, id, t)
    PROVE  /\ own' \in [Editors -> Edits] /\ pending' \in [Editors -> Edits]
           /\ dirty' \subseteq open /\ refused' \subseteq Ids \X (Texts \cup {Blank})
<1>1. e \in Editors /\ own[e] \in Edits /\ pending[e] \in Edits
    BY DEF TypeOK
<1>2. [own[e] EXCEPT ![id] = t] \in Edits /\ [pending[e] EXCEPT ![id] = t] \in Edits
    BY <1>1 DEF Edits
<1> QED
    BY <1>1, <1>2 DEF TypeOK, SetString, Unsaved

LEMMA SaveType ==
    ASSUME TypeOK, NEW e \in open, NEW outcome \in Outcomes, Save(e, outcome)
    PROVE  /\ raw' \in Table /\ raw' = Over(raw, own[e]) /\ disk' \in Lines
           /\ own' \in [Editors -> Edits] /\ pending' \in [Editors -> Edits]
           /\ saved' \in Table /\ dropped' \subseteq Ids /\ dirty' \subseteq open
           /\ dirty' \in {dirty, dirty \ {e}}
<1>1. e \in Editors /\ own[e] \in Edits /\ pending[e] \in Edits /\ raw \in Table /\ saved \in Table
    BY DEF TypeOK
<1>2. raw' \in Table /\ raw' = Over(raw, own[e])
    BY <1>1, OverType DEF Save, Commit
<1>3. Write(raw') \in Lines
    BY <1>2, WriteType
<1>4. [id \in Ids |-> IF pending[e][id] = Untouched THEN saved[id] ELSE pending[e][id]] \in Table
    BY <1>1 DEF Table, Edits
<1>5. own' \in [Editors -> Edits] /\ [pending EXCEPT ![e] = NoEdits] \in [Editors -> Edits]
    BY <1>1, NoEditsType DEF TypeOK, Save
<1> QED
    BY <1>2, <1>3, <1>4, <1>5 DEF Save, Written, WrittenInPart, Cut, TypeOK

LEMMA TypeStep == ASSUME TypeOK, [Next]_vars PROVE TypeOK'
<1> USE DEF TypeOK
<1>1. ASSUME NEW e \in Editors, FillFromCUcsFile(e) PROVE TypeOK'
    <2>1. {id \in Ids : raw[id] # None} \in SUBSET Ids
        OBVIOUS
    <2> QED
        BY <1>1, <2>1, NoEditsType DEF FillFromCUcsFile
<1>2. ASSUME NEW e \in Editors, NEW id \in Ids, NEW t \in Texts, OnPropertyChange(e, id, t) PROVE TypeOK'
    BY <1>2, SetStringType DEF OnPropertyChange
<1>3. ASSUME NEW e \in Editors, NEW id \in Ids, OnNewEntry(e, id) PROVE TypeOK'
    <2>1. CASE Following(e, id) \subseteq grid[e]
        <3>1. SetString(e, id, Blank) /\ grid' = [grid EXCEPT ![e] = NewRow(e, id)] /\ e \in open
              /\ UNCHANGED <<open, crashed, disk, raw, typed, saved, dropped>>
            BY <1>3, <2>1 DEF OnNewEntry
        <3> QED
            BY <3>1, SetStringType DEF NewRow
    <2>2. CASE ~(Following(e, id) \subseteq grid[e])
        BY <1>3, <2>2, NoEditsType DEF OnNewEntry
    <2> QED
        BY <2>1, <2>2
<1>4. ASSUME NEW e \in Editors, NEW outcome \in Outcomes, DoSave(e, outcome) PROVE TypeOK'
    BY <1>4, SaveType DEF DoSave
<1>5. ASSUME NEW e \in Editors, CloseClean(e) PROVE TypeOK'
    BY <1>5, NoEditsType DEF CloseClean, Leave, Discard
<1>6. ASSUME NEW e \in Editors, NEW outcome \in Outcomes, CloseYes(e, outcome) PROVE TypeOK'
    <2>1. Save(e, outcome) /\ e \in open /\ UNCHANGED <<crashed, typed, refused>>
        BY <1>6 DEF CloseYes
    <2>2. \/ UNCHANGED <<open, grid>>
          \/ Leave(e) /\ e \notin dirty'
        BY <1>6 DEF CloseYes
    <2> QED
        BY <2>1, <2>2, SaveType DEF Leave
<1>7. ASSUME NEW e \in Editors, CloseNo(e) PROVE TypeOK'
    BY <1>7, NoEditsType DEF CloseNo, Leave, Discard, Unsaved
<1>8. CASE Reload
    BY <1>8, ReadType DEF Reload
<1>9. CASE UNCHANGED vars
    BY <1>9 DEF vars
<1> QED
    BY <1>1, <1>2, <1>3, <1>4, <1>5, <1>6, <1>7, <1>8, <1>9 DEF Next

\* Types, for any tabs, texts, ids and outcomes of writes; no tab that is closed
\* asks to be saved.
THEOREM TypeCorrect == ASSUME UcsAssumption PROVE Spec => []TypeOK
<1>1. Init => TypeOK
    BY TypeInit
<1>2. TypeOK /\ [Next]_vars => TypeOK'
    BY TypeStep
<1> QED
    BY <1>1, <1>2, PTL DEF Spec

-----------------------------------------------------------------------------
(* Any number of tabs, no failure *)

\* A text is typed once: it is in one place, and a text given up is nowhere.
Once ==
  /\ \A id \in Ids : raw[id] \in Texts => raw[id] \in typed
  /\ \A e \in Editors, id \in Ids : own[e][id] \in Texts => own[e][id] \in typed /\ raw[id] # own[e][id]
  /\ \A e, f \in Editors, id \in Ids :
        own[e][id] \in Texts /\ own[e][id] = own[f][id] => e = f
  /\ \A edit \in refused : edit[2] \in Texts =>
        /\ edit[2] \in typed /\ raw[edit[1]] # edit[2]
        /\ \A e \in Editors : own[e][edit[1]] # edit[2]

\* The file holds what is in memory, and edits not committed are those not saved.
Settled ==
  /\ Read(disk) = raw /\ raw = saved /\ pending = own
  /\ \A e \in Editors \ dirty : own[e] = NoEdits

InvS == TypeOK /\ Settled /\ Once

LEMMA SettledInit == ASSUME UcsAssumption, SmallIds, Init PROVE InvS
<1>1. raw = StockTable /\ Read(disk) = StockTable
    BY StockType, ReadWrite DEF Init
<1>2. Settled
    BY <1>1 DEF Init, Settled
<1>3. Once
    BY <1>1, NoEditsType DEF Init, Once, StockTable, UcsAssumption
<1> QED
    BY <1>2, <1>3, TypeInit DEF InvS

\* An edit of one entry.
LEMMA SettledSetString ==
    ASSUME UcsAssumption, InvS, NEW e \in open, NEW id \in Ids,
           NEW t \in Texts \cup {Blank}, t \notin typed, SetString(e, id, t),
           UNCHANGED <<disk, raw, saved>>,
           typed' = typed \cup ({t} \cap Texts)
    PROVE  Settled' /\ Once'
<1>1. e \in Editors /\ own[e] \in Edits /\ pending = own /\ own \in [Editors -> Edits]
    BY DEF InvS, TypeOK, Settled
<1>2. /\ pending' = own' /\ dirty' = dirty \cup {e}
      /\ \A f \in Editors : f # e => own'[f] = own[f]
      /\ \A i \in Ids : own'[e][i] = IF i = id THEN t ELSE own[e][i]
    BY <1>1 DEF SetString, Edits
<1>3. Settled'
    BY <1>2 DEF InvS, Settled
<1>4. \A edit \in refused' : edit \in refused \/ (edit[1] = id /\ edit[2] = own[e][id] /\ edit[2] \in Texts \cup {Blank})
    BY <1>1 DEF SetString, Unsaved
<1>5. \A edit \in refused : edit[1] \in Ids
    BY DEF InvS, TypeOK
<1>6. Blank \notin Texts
    BY DEF UcsAssumption
<1>7. \A i \in Ids : raw'[i] \in Texts => raw'[i] \in typed'
    BY DEF InvS, Once
<1>8. \A f \in Editors, i \in Ids : own'[f][i] \in Texts => own'[f][i] \in typed' /\ raw'[i] # own'[f][i]
    BY <1>1, <1>2 DEF InvS, Once
<1>9. \A f, g \in Editors, i \in Ids : own'[f][i] \in Texts /\ own'[f][i] = own'[g][i] => f = g
    BY <1>1, <1>2 DEF InvS, Once
<1>10. ASSUME NEW edit \in refused', edit[2] \in Texts
       PROVE  /\ edit[2] \in typed' /\ raw'[edit[1]] # edit[2]
              /\ \A f \in Editors : own'[f][edit[1]] # edit[2]
    <2>1. CASE edit \in refused
        BY <1>10, <1>1, <1>2, <1>5, <2>1 DEF InvS, Once
    <2>2. CASE edit[1] = id /\ edit[2] = own[e][id]
        BY <1>10, <1>1, <1>2, <2>2 DEF InvS, Once
    <2> QED
        BY <1>4, <2>1, <2>2
<1> QED
    BY <1>3, <1>7, <1>8, <1>9, <1>10 DEF Once

\* A save.
LEMMA SettledSave ==
    ASSUME UcsAssumption, SmallIds, InvS, NEW e \in open, Save(e, "saved"),
           UNCHANGED <<typed, refused>>
    PROVE  Settled' /\ Once' /\ dirty' = dirty \ {e}
<1>1. /\ e \in Editors /\ own[e] \in Edits /\ pending = own /\ own \in [Editors -> Edits]
      /\ raw \in Table /\ saved = raw
    BY DEF InvS, TypeOK, Settled
<1>2. /\ raw' = Over(raw, own[e]) /\ disk' = Write(raw') /\ dirty' = dirty \ {e}
      /\ own' = [own EXCEPT ![e] = NoEdits] /\ pending' = own'
      /\ saved' = [id \in Ids |-> IF own[e][id] = Untouched THEN raw[id] ELSE own[e][id]]
    BY <1>1 DEF Save, Written, Commit
<1>3. /\ raw' \in Table /\ saved' = raw'
      /\ \A id \in Ids : raw'[id] = IF own[e][id] = Untouched THEN raw[id] ELSE own[e][id]
    BY <1>1, <1>2, OverType DEF Over
<1>4. Read(disk') = raw'
    BY <1>2, <1>3, ReadWrite
<1>5. Read(disk)' = Read(disk')
    BY DEF Read
<1>6. \A f \in Editors \ dirty' : own'[f] = NoEdits
    BY <1>1, <1>2 DEF InvS, Settled
<1>7. Settled'
    BY <1>2, <1>3, <1>4, <1>5, <1>6 DEF Settled
<1>8. /\ \A f \in Editors : f # e => own'[f] = own[f]
      /\ \A id \in Ids : own'[e][id] = Untouched
    BY <1>1, <1>2, NoEditsType
<1>9. Untouched \notin Texts
    BY DEF UcsAssumption
<1>10. \A id \in Ids : raw'[id] \in Texts => raw'[id] \in typed'
    BY <1>1, <1>3 DEF InvS, Once
<1>11. \A f \in Editors, id \in Ids : own'[f][id] \in Texts => own'[f][id] \in typed' /\ raw'[id] # own'[f][id]
    BY <1>1, <1>3, <1>8, <1>9 DEF InvS, Once
<1>12. \A f, g \in Editors, id \in Ids : own'[f][id] \in Texts /\ own'[f][id] = own'[g][id] => f = g
    BY <1>8, <1>9 DEF InvS, Once
<1>13. ASSUME NEW edit \in refused', edit[2] \in Texts
       PROVE  /\ edit[2] \in typed' /\ raw'[edit[1]] # edit[2]
              /\ \A f \in Editors : own'[f][edit[1]] # edit[2]
    <2>1. edit[1] \in Ids /\ edit \in refused
        BY DEF InvS, TypeOK
    <2> QED
        BY <1>13, <1>1, <1>3, <1>8, <1>9, <2>1 DEF InvS, Once
<1> QED
    BY <1>2, <1>7, <1>10, <1>11, <1>12, <1>13 DEF Once

\* A tab's edits are dropped; they are refused, if there are any.
LEMMA SettledDrop ==
    ASSUME UcsAssumption, InvS, NEW e \in Editors,
           own' = [own EXCEPT ![e] = NoEdits], pending' = own',
           dirty' \in {dirty, dirty \ {e}},
           refused' \in {refused, refused \cup Unsaved(e)},
           UNCHANGED <<disk, raw, saved, typed>>
    PROVE  Settled' /\ Once'
<1>1. own[e] \in Edits /\ pending = own /\ own \in [Editors -> Edits]
    BY DEF InvS, TypeOK, Settled
<1>2. /\ \A f \in Editors : f # e => own'[f] = own[f]
      /\ own'[e] = NoEdits /\ \A id \in Ids : own'[e][id] = Untouched
    BY <1>1, NoEditsType
<1>3. Settled'
    BY <1>2 DEF InvS, Settled
<1>4. Untouched \notin Texts
    BY DEF UcsAssumption
<1>5. \A f \in Editors, id \in Ids : own'[f][id] \in Texts => own'[f][id] \in typed' /\ raw'[id] # own'[f][id]
    BY <1>2, <1>4 DEF InvS, Once
<1>6. \A f, g \in Editors, id \in Ids : own'[f][id] \in Texts /\ own'[f][id] = own'[g][id] => f = g
    BY <1>2, <1>4 DEF InvS, Once
<1>7. ASSUME NEW edit \in refused', edit[2] \in Texts
      PROVE  /\ edit[2] \in typed' /\ raw'[edit[1]] # edit[2]
             /\ \A f \in Editors : own'[f][edit[1]] # edit[2]
    <2>1. CASE edit \in refused
        BY <1>7, <1>2, <1>4, <2>1 DEF InvS, Once, TypeOK
    <2>2. CASE edit \in Unsaved(e)
        <3>1. edit[1] \in Ids /\ edit[2] = own[e][edit[1]]
            BY <1>1, <2>2 DEF Unsaved
        <3> QED
            BY <1>7, <1>2, <1>4, <3>1 DEF InvS, Once
    <2> QED
        BY <2>1, <2>2
<1> QED
    BY <1>3, <1>5, <1>6, <1>7 DEF InvS, Once

LEMMA SettledStep ==
    ASSUME UcsAssumption, SmallIds, NoFailure, InvS, [Next]_vars
    PROVE  InvS'
<1>0. TypeOK'
    BY TypeStep DEF InvS
<1>1. ASSUME NEW e \in Editors, FillFromCUcsFile(e) PROVE Settled' /\ Once'
    <2>1. e \notin dirty
        BY <1>1 DEF FillFromCUcsFile, InvS, TypeOK
    <2>2. pending' = own'
        BY <1>1 DEF FillFromCUcsFile, InvS, Settled
    <2> QED
        BY <1>1, <2>2, SettledDrop DEF FillFromCUcsFile
<1>2. ASSUME NEW e \in Editors, NEW id \in Ids, NEW t \in Texts, OnPropertyChange(e, id, t)
      PROVE  Settled' /\ Once'
    <2>1. typed' = typed \cup ({t} \cap Texts)
        BY <1>2 DEF OnPropertyChange
    <2> QED
        BY <1>2, <2>1, SettledSetString DEF OnPropertyChange
<1>3. ASSUME NEW e \in Editors, NEW id \in Ids, OnNewEntry(e, id) PROVE Settled' /\ Once'
    <2>1. CASE Following(e, id) \subseteq grid[e]
        <3>1. SetString(e, id, Blank) /\ e \in open /\ UNCHANGED <<disk, raw, typed, saved, dropped>>
            BY <1>3, <2>1 DEF OnNewEntry
        <3>2. Blank \notin typed /\ typed' = typed \cup ({Blank} \cap Texts)
            BY <3>1 DEF InvS, TypeOK, UcsAssumption
        <3> QED
            BY <3>1, <3>2, SettledSetString
    <2>2. CASE ~(Following(e, id) \subseteq grid[e])
        <3>1. /\ own' = [x \in Editors |-> NoEdits] /\ pending' = own'
              /\ UNCHANGED <<disk, raw, typed, saved, dropped, refused>>
            BY <1>3, <2>2 DEF OnNewEntry
        <3>2. \A f \in Editors, i \in Ids : own'[f] = NoEdits /\ own'[f][i] = Untouched
            BY <3>1, NoEditsType
        <3>3. Settled'
            BY <3>1, <3>2 DEF InvS, Settled
        <3>4. Untouched \notin Texts
            BY DEF UcsAssumption
        <3>5. \A edit \in refused : edit[1] \in Ids
            BY DEF InvS, TypeOK
        <3>6. Once'
            BY <3>1, <3>2, <3>4, <3>5 DEF InvS, Once
        <3> QED
            BY <3>3, <3>6
    <2> QED
        BY <2>1, <2>2
<1>4. ASSUME NEW e \in Editors, NEW outcome \in Outcomes, DoSave(e, outcome) PROVE Settled' /\ Once'
    BY <1>4, SettledSave DEF DoSave, NoFailure
<1>5. ASSUME NEW e \in Editors, CloseClean(e) PROVE Settled' /\ Once'
    <2>1. own[e] = NoEdits /\ own \in [Editors -> Edits] /\ pending = own
        BY <1>5 DEF CloseClean, InvS, Settled, TypeOK
    <2>2. own' = own /\ pending' = own'
        BY <1>5, <2>1 DEF CloseClean, Discard
    <2> QED
        BY <1>5, <2>2, SettledDrop DEF CloseClean, Discard
<1>6. ASSUME NEW e \in Editors, NEW outcome \in Outcomes, CloseYes(e, outcome) PROVE Settled' /\ Once'
    BY <1>6, SettledSave DEF CloseYes, NoFailure
<1>7. ASSUME NEW e \in Editors, CloseNo(e) PROVE Settled' /\ Once'
    <2>1. pending' = own'
        BY <1>7 DEF CloseNo, Discard, InvS, Settled
    <2> QED
        BY <1>7, <2>1, SettledDrop DEF CloseNo, Discard
<1>8. CASE Reload
    BY <1>8 DEF Reload, InvS, Settled
<1>9. CASE UNCHANGED vars
    <2>1. Settled'
        BY <1>9 DEF vars, InvS, Settled, Read
    <2>2. Once'
        BY <1>9 DEF vars, InvS, Once
    <2> QED
        BY <1>0, <2>1, <2>2 DEF InvS
<1> QED
    BY <1>0, <1>1, <1>2, <1>3, <1>4, <1>5, <1>6, <1>7, <1>8, <1>9 DEF Next, InvS

LEMMA SettledSays == ASSUME InvS PROVE SavedIsReadBack /\ EditsAreKept /\ RefusedStaysOut
<1>1. SavedIsReadBack
    BY DEF InvS, Settled, SavedIsReadBack
<1>2. EditsAreKept
    <2> SUFFICES ASSUME NEW e \in open, NEW id \in Ids, pending[e][id] # Untouched
                 PROVE  Over(raw, own[e])[id] = pending[e][id]
        BY DEF EditsAreKept
    <2> QED
        BY OverType DEF InvS, Settled, TypeOK
<1>3. RefusedStaysOut
    BY DEF InvS, Settled, Once, RefusedStaysOut
<1> QED
    BY <1>1, <1>2, <1>3

\* With any number of tabs on one file, as long as no write fails: what was
\* reported saved is read back, what is not saved is still an entry of its tab,
\* and a text the user gave up is not in the file
\* (CUcsTransaction::Save, frmUCSEditor::OnCloseWindow).
THEOREM ManyTabsNoFailure ==
    ASSUME UcsAssumption, SmallIds, NoFailure
    PROVE  Spec => [](SavedIsReadBack /\ EditsAreKept /\ RefusedStaysOut)
<1>1. Init => InvS
    BY SettledInit
<1>2. InvS /\ [Next]_vars => InvS'
    BY SettledStep
<1>3. InvS => SavedIsReadBack /\ EditsAreKept /\ RefusedStaysOut
    BY SettledSays
<1> QED
    BY <1>1, <1>2, <1>3, PTL DEF Spec

-----------------------------------------------------------------------------
(* One tab, whatever fails *)

\* What the tab has committed or still has as an edit is what it has not
\* reported saved; what is in memory is in the file, or given up, or not yet
\* reported saved, or was lost by a write unseen.
Accounted ==
  /\ \A e \in Editors \ dirty : own[e] = NoEdits /\ pending[e] = NoEdits
  /\ \A e \in Editors, id \in Ids : own[e][id] # Untouched => pending[e][id] = own[e][id]
  /\ \A e \in Editors, id \in Ids : pending[e][id] # Untouched => Over(raw, own[e])[id] = pending[e][id]
  /\ \A id \in Ids : \/ raw[id] = saved[id]
                     \/ <<id, raw[id]>> \in refused
                     \/ \E e \in Editors : pending[e][id] = raw[id]
                     \/ id \in dropped

\* The rows of the tab are those of its entries.
InStep == ~crashed /\ \A e \in open : grid[e] = Entries(e)

InvA == TypeOK /\ Accounted /\ SavedIsReadBack /\ InStep

\* What the parts of InvA say, entry by entry.
LEMMA Facts ==
    ASSUME UcsAssumption, InvA, NEW e \in Editors
    PROVE  /\ own \in [Editors -> Edits] /\ pending \in [Editors -> Edits] /\ raw \in Table
           /\ own[e] \in Edits /\ pending[e] \in Edits
           /\ \A id \in Ids : raw[id] # Untouched /\ own[e][id] # None
           /\ \A id \in Ids : Over(raw, own[e])[id] = IF own[e][id] = Untouched THEN raw[id] ELSE own[e][id]
           /\ \A id \in Ids : \/ own[e][id] = Untouched /\ pending[e][id] = Untouched
                              \/ own[e][id] = Untouched /\ pending[e][id] = raw[id]
                              \/ own[e][id] # Untouched /\ pending[e][id] = own[e][id]
<1>1. /\ own \in [Editors -> Edits] /\ pending \in [Editors -> Edits] /\ raw \in Table
      /\ own[e] \in Edits /\ pending[e] \in Edits
    BY DEF InvA, TypeOK
<1>2. \A id \in Ids : raw[id] # Untouched /\ own[e][id] # None
    BY <1>1 DEF Table, Edits, UcsAssumption
<1>3. \A id \in Ids : Over(raw, own[e])[id] = IF own[e][id] = Untouched THEN raw[id] ELSE own[e][id]
    BY <1>1, OverType
<1>4. \A id \in Ids : \/ own[e][id] = Untouched /\ pending[e][id] = Untouched
                      \/ own[e][id] = Untouched /\ pending[e][id] = raw[id]
                      \/ own[e][id] # Untouched /\ pending[e][id] = own[e][id]
    BY <1>3 DEF InvA, Accounted
<1> QED
    BY <1>1, <1>2, <1>3, <1>4

\* The tab has no edit: what is in memory is saved or was given up.
LEMMA NothingPending ==
    ASSUME UcsAssumption, OneTab, InvA, NEW e \in Editors, pending[e] = NoEdits, NEW id \in Ids \ dropped
    PROVE  raw[id] = saved[id] \/ <<id, raw[id]>> \in refused
<1>1. raw[id] # Untouched /\ pending[e][id] = Untouched
    BY Facts, NoEditsType
<1> QED
    BY <1>1 DEF InvA, Accounted, OneTab

LEMMA AccountedInit == ASSUME UcsAssumption, SmallIds, Init PROVE InvA
<1>1. raw = StockTable /\ Read(disk) = StockTable /\ saved = StockTable /\ dropped = {}
    BY StockType, ReadWrite DEF Init
<1>2. Accounted
    BY <1>1, NoEditsType DEF Init, Accounted
<1>3. SavedIsReadBack
    BY <1>1 DEF SavedIsReadBack
<1>4. InStep
    BY DEF Init, InStep
<1> QED
    BY <1>2, <1>3, <1>4, TypeInit DEF InvA

\* An edit of one entry.
LEMMA AccountedSetString ==
    ASSUME UcsAssumption, OneTab, InvA, NEW e \in open, NEW id \in Ids,
           NEW t \in Texts \cup {Blank}, SetString(e, id, t),
           UNCHANGED <<disk, raw, saved, dropped, open, crashed>>,
           grid' = [grid EXCEPT ![e] = grid[e] \cup {id}]
    PROVE  Accounted' /\ SavedIsReadBack' /\ InStep'
<1>1. e \in Editors /\ \A f \in Editors : f = e
    BY DEF InvA, TypeOK, OneTab
<1>2. /\ \A i \in Ids : own'[e][i] = IF i = id THEN t ELSE own[e][i]
      /\ \A i \in Ids : pending'[e][i] = IF i = id THEN t ELSE pending[e][i]
      /\ own'[e] \in Edits /\ e \in dirty'
    BY <1>1, Facts DEF SetString, Edits
<1>3. t # Untouched /\ t # None
    <2>1. Blank # Untouched /\ Blank # None
        BY DEF UcsAssumption
    <2>2. t \in Texts => t # Untouched /\ t # None
        BY DEF UcsAssumption
    <2> QED
        BY <2>1, <2>2
<1>4. \A i \in Ids : Over(raw', own'[e])[i] = IF i = id THEN t ELSE Over(raw, own[e])[i]
    <2>1. raw' = raw /\ raw \in Table
        BY Facts, <1>1
    <2>2. \A i \in Ids : Over(raw', own'[e])[i] = IF own'[e][i] = Untouched THEN raw[i] ELSE own'[e][i]
        BY <1>2, <2>1, OverType
    <2> QED
        BY <1>1, <1>2, <1>3, <2>2, Facts
<1>5. \A i \in Ids : own'[e][i] # Untouched => pending'[e][i] = own'[e][i]
    BY <1>1, <1>2, Facts
<1>6. \A i \in Ids : pending'[e][i] # Untouched => Over(raw', own'[e])[i] = pending'[e][i]
    BY <1>1, <1>2, <1>4, Facts
<1>7. refused \subseteq refused'
    BY DEF SetString
<1>8. \A i \in Ids \ dropped' : \/ raw'[i] = saved'[i] \/ <<i, raw'[i]>> \in refused' \/ pending'[e][i] = raw'[i]
    <2> SUFFICES ASSUME NEW i \in Ids \ dropped, pending[e][i] = raw[i]
                 PROVE  <<i, raw'[i]>> \in refused' \/ pending'[e][i] = raw'[i]
        BY <1>1, <1>7 DEF InvA, Accounted
    <2>1. CASE i = id
        <3>1. raw[i] \in Texts \cup {Blank}
            BY <1>1, Facts DEF Edits
        <3>2. <<i, raw[i]>> \in Unsaved(e)
            BY <3>1 DEF Unsaved
        <3> QED
            BY <2>1, <3>2 DEF SetString
    <2>2. CASE i # id
        BY <1>2, <2>2
    <2> QED
        BY <2>1, <2>2
<1>9. Accounted'
    BY <1>1, <1>2, <1>5, <1>6, <1>8 DEF Accounted
<1>10. SavedIsReadBack'
    BY <1>7 DEF InvA, SavedIsReadBack, Read
<1>11. Entries(e)' = Entries(e) \cup {id}
    BY <1>3, <1>4 DEF Entries
<1>12. InStep'
    BY <1>1, <1>11 DEF InvA, TypeOK, InStep
<1> QED
    BY <1>9, <1>10, <1>12

\* A save, which may fail, seen or unseen.
LEMMA AccountedSave ==
    ASSUME UcsAssumption, SmallIds, OneTab, InvA, NEW e \in open, NEW outcome \in Outcomes,
           Save(e, outcome), UNCHANGED <<refused, crashed>>
    PROVE  Accounted' /\ SavedIsReadBack' /\ Entries(e)' = Entries(e)
<1>1. e \in Editors /\ \A f \in Editors : f = e
    BY DEF InvA, TypeOK, OneTab
<1>2. /\ raw' = Over(raw, own[e]) /\ raw' \in Table /\ own'[e] = NoEdits
      /\ \A i \in Ids : raw'[i] = IF own[e][i] = Untouched THEN raw[i] ELSE own[e][i]
    BY <1>1, Facts, OverType DEF Save, Commit
<1>3. \A i \in Ids : own'[e][i] = Untouched /\ Over(raw', own'[e])[i] = raw'[i]
    BY <1>2, NoEditsType, OverType
<1>4. Entries(e)' = Entries(e)
    BY <1>2, <1>3 DEF Entries
<1>5. CASE outcome # "failed"
    <2>1. /\ pending'[e] = NoEdits /\ (Written \/ WrittenInPart)
          /\ saved' = [id \in Ids |-> IF pending[e][id] = Untouched THEN saved[id] ELSE pending[e][id]]
        BY <1>1, <1>5, Facts DEF Save
    <2>2. \A i \in Ids \ dropped : raw'[i] = saved'[i] \/ <<i, raw'[i]>> \in refused'
        <3> SUFFICES ASSUME NEW i \in Ids \ dropped PROVE raw'[i] = saved'[i] \/ <<i, raw'[i]>> \in refused'
            OBVIOUS
        <3>1. CASE pending[e][i] = Untouched
            <4>1. own[e][i] = Untouched /\ raw[i] # Untouched
                BY <1>1, <3>1, Facts
            <4>2. raw[i] = saved[i] \/ <<i, raw[i]>> \in refused
                BY <1>1, <3>1, <4>1 DEF InvA, Accounted
            <4> QED
                BY <1>2, <2>1, <3>1, <4>1, <4>2
        <3>2. CASE pending[e][i] # Untouched
            BY <1>1, <1>2, <2>1, <3>2, Facts
        <3> QED
            BY <3>1, <3>2
    <2>3. \A i \in Ids \ dropped' :
            /\ Read(disk')[i] = raw'[i]
            /\ raw'[i] = saved'[i] \/ <<i, raw'[i]>> \in refused'
        <3>1. CASE Written
            <4>1. Read(disk') = raw'
                BY <1>2, <3>1, ReadWrite DEF Written
            <4>2. \A i \in Ids \ dropped' : i \notin dropped \/ raw'[i] = saved'[i]
                BY <3>1 DEF Written
            <4> QED
                BY <2>2, <4>1, <4>2
        <3>2. CASE WrittenInPart
            BY <2>2, <3>2 DEF WrittenInPart
        <3> QED
            BY <2>1, <3>1, <3>2
    <2>4. \A i \in Ids : pending'[e][i] = Untouched
        BY <2>1, NoEditsType
    <2>5. Accounted'
        BY <1>1, <1>2, <1>3, <2>1, <2>3, <2>4 DEF Accounted
    <2>6. SavedIsReadBack'
        BY <2>3 DEF SavedIsReadBack, Read
    <2> QED
        BY <1>4, <2>5, <2>6
<1>6. CASE outcome = "failed"
    <2>1. UNCHANGED <<disk, dirty, saved, dropped, pending, refused>>
        BY <1>6 DEF Save
    <2>2. \A i \in Ids : pending[e][i] # Untouched => raw'[i] = pending[e][i]
        BY <1>1, <1>2, Facts
    <2>3. \A i \in Ids \ dropped : raw'[i] = saved[i] \/ <<i, raw'[i]>> \in refused \/ pending[e][i] = raw'[i]
        BY <1>1, <1>2, Facts DEF InvA, Accounted
    <2>4. e \notin dirty => pending[e] = NoEdits
        BY <1>1 DEF InvA, Accounted
    <2>5. Accounted'
        BY <1>1, <1>2, <1>3, <2>1, <2>2, <2>3, <2>4 DEF Accounted
    <2>6. SavedIsReadBack'
        BY <2>1 DEF InvA, SavedIsReadBack, Read
    <2> QED
        BY <1>4, <2>5, <2>6
<1> QED
    BY <1>5, <1>6

\* The tab is left with no edit, those it had are given up.
LEMMA AccountedDrop ==
    ASSUME UcsAssumption, OneTab, InvA, NEW e \in Editors,
           own'[e] = NoEdits, pending'[e] = NoEdits,
           refused' = refused \/ refused' = refused \cup Unsaved(e),
           pending[e] = NoEdits \/ refused' = refused \cup Unsaved(e),
           UNCHANGED <<disk, raw, saved, dropped>>
    PROVE  Accounted' /\ SavedIsReadBack'
<1>1. \A f \in Editors : f = e
    BY DEF OneTab
<1>2. \A i \in Ids : own'[e][i] = Untouched /\ pending'[e][i] = Untouched
    BY NoEditsType
<1>3. refused \subseteq refused'
    OBVIOUS
<1>4. \A i \in Ids \ dropped : raw[i] = saved[i] \/ <<i, raw[i]>> \in refused'
    <2> SUFFICES ASSUME NEW i \in Ids \ dropped PROVE raw[i] = saved[i] \/ <<i, raw[i]>> \in refused'
        OBVIOUS
    <2>1. CASE pending[e] = NoEdits
        BY <1>3, <2>1, NothingPending
    <2>2. CASE refused' = refused \cup Unsaved(e)
        <3>1. CASE pending[e][i] = raw[i]
            <4>1. raw[i] \in Texts \cup {Blank}
                BY <3>1, Facts DEF Edits
            <4> QED
                BY <2>2, <3>1, <4>1 DEF Unsaved
        <3>2. CASE pending[e][i] # raw[i]
            BY <1>1, <1>3, <3>2 DEF InvA, Accounted
        <3> QED
            BY <3>1, <3>2
    <2> QED
        BY <2>1, <2>2
<1>5. Accounted'
    BY <1>1, <1>2, <1>4 DEF Accounted
<1>6. SavedIsReadBack'
    BY <1>3 DEF InvA, SavedIsReadBack, Read
<1> QED
    BY <1>5, <1>6

LEMMA AccountedStep ==
    ASSUME UcsAssumption, SmallIds, OneTab, InvA, [Next]_vars
    PROVE  InvA'
<1>0. TypeOK'
    BY TypeStep DEF InvA
<1>1. ASSUME NEW e \in Editors, FillFromCUcsFile(e) PROVE Accounted' /\ SavedIsReadBack' /\ InStep'
    <2>1. e \notin dirty /\ pending[e] = NoEdits
        BY <1>1 DEF FillFromCUcsFile, InvA, TypeOK, Accounted
    <2>2. own'[e] = NoEdits /\ pending'[e] = NoEdits
        BY <1>1, Facts DEF FillFromCUcsFile
    <2>3. Accounted' /\ SavedIsReadBack'
        BY <1>1, <2>1, <2>2, AccountedDrop DEF FillFromCUcsFile
    <2>4. \A i \in Ids : Over(raw', own'[e])[i] = raw[i]
        BY <1>1, <2>2, Facts, NoEditsType, OverType DEF FillFromCUcsFile
    <2>5. grid'[e] = Entries(e)'
        BY <1>1, <2>4 DEF FillFromCUcsFile, Entries, InvA, TypeOK
    <2>6. InStep'
        BY <1>0, <1>1, <2>5 DEF FillFromCUcsFile, InvA, InStep, OneTab, TypeOK
    <2> QED
        BY <2>3, <2>6
<1>2. ASSUME NEW e \in Editors, NEW id \in Ids, NEW t \in Texts, OnPropertyChange(e, id, t)
      PROVE  Accounted' /\ SavedIsReadBack' /\ InStep'
    <2>1. grid' = [grid EXCEPT ![e] = grid[e] \cup {id}]
        BY <1>2 DEF OnPropertyChange, InvA, TypeOK
    <2> QED
        BY <1>2, <2>1, AccountedSetString DEF OnPropertyChange
<1>3. ASSUME NEW e \in Editors, NEW id \in Ids, OnNewEntry(e, id)
      PROVE  Accounted' /\ SavedIsReadBack' /\ InStep'
    <2>1. Following(e, id) \subseteq grid[e] /\ e \in open
        BY <1>3 DEF OnNewEntry, Following, InvA, InStep
    <2>2. /\ SetString(e, id, Blank) /\ grid' = [grid EXCEPT ![e] = grid[e] \cup {id}]
          /\ UNCHANGED <<open, crashed, disk, raw, typed, saved, dropped>>
        BY <1>3, <2>1 DEF OnNewEntry, NewRow
    <2> QED
        BY <2>1, <2>2, AccountedSetString
<1>4. ASSUME NEW e \in Editors, NEW outcome \in Outcomes, DoSave(e, outcome)
      PROVE  Accounted' /\ SavedIsReadBack' /\ InStep'
    <2>1. /\ Save(e, outcome) /\ e \in open /\ UNCHANGED <<grid, open, crashed, typed, refused>>
        BY <1>4 DEF DoSave
    <2>2. Accounted' /\ SavedIsReadBack' /\ Entries(e)' = Entries(e)
        BY <2>1, AccountedSave
    <2>3. InStep'
        BY <2>1, <2>2 DEF InvA, InStep, OneTab, TypeOK
    <2> QED
        BY <2>2, <2>3
<1>5. ASSUME NEW e \in Editors, CloseClean(e) PROVE Accounted' /\ SavedIsReadBack' /\ InStep'
    <2>1. pending[e] = NoEdits
        BY <1>5 DEF CloseClean, InvA, Accounted
    <2>2. own'[e] = NoEdits /\ pending'[e] = NoEdits
        BY <1>5, <2>1, Facts DEF CloseClean, Discard
    <2>3. Accounted' /\ SavedIsReadBack'
        BY <1>5, <2>1, <2>2, AccountedDrop DEF CloseClean, Discard
    <2>4. open' = {} /\ crashed' = crashed
        BY <1>5 DEF CloseClean, Leave, InvA, TypeOK, OneTab
    <2> QED
        BY <2>3, <2>4 DEF InvA, InStep
<1>6. ASSUME NEW e \in Editors, NEW outcome \in Outcomes, CloseYes(e, outcome)
      PROVE  Accounted' /\ SavedIsReadBack' /\ InStep'
    <2>1. Save(e, outcome) /\ e \in open /\ UNCHANGED <<crashed, typed, refused>>
        BY <1>6 DEF CloseYes
    <2>2. Accounted' /\ SavedIsReadBack' /\ Entries(e)' = Entries(e)
        BY <2>1, AccountedSave
    <2>3. \/ UNCHANGED <<open, grid>>
          \/ open' = {}
        BY <1>6 DEF CloseYes, Leave, InvA, TypeOK, OneTab
    <2>4. InStep'
        BY <2>1, <2>2, <2>3 DEF InvA, InStep, OneTab, TypeOK
    <2> QED
        BY <2>2, <2>4
<1>7. ASSUME NEW e \in Editors, CloseNo(e) PROVE Accounted' /\ SavedIsReadBack' /\ InStep'
    <2>1. own'[e] = NoEdits /\ pending'[e] = NoEdits /\ refused' = refused \cup Unsaved(e)
        BY <1>7, Facts DEF CloseNo, Discard
    <2>2. Accounted' /\ SavedIsReadBack'
        BY <1>7, <2>1, AccountedDrop DEF CloseNo, Discard
    <2>3. open' = {} /\ crashed' = crashed
        BY <1>7 DEF CloseNo, Leave, InvA, TypeOK, OneTab
    <2> QED
        BY <2>2, <2>3 DEF InvA, InStep
<1>8. CASE Reload
    <2>1. /\ dirty = {} /\ raw' = Read(disk) /\ open' = {}
          /\ UNCHANGED <<disk, own, dirty, crashed, pending, saved, dropped, refused>>
        BY <1>8 DEF Reload, InvA, TypeOK
    <2>2. \A e \in Editors : own[e] = NoEdits /\ pending[e] = NoEdits
        BY <2>1 DEF InvA, Accounted
    <2>3. \A i \in Ids \ dropped : raw'[i] = saved'[i] \/ <<i, raw'[i]>> \in refused'
        BY <2>1 DEF InvA, SavedIsReadBack, Read
    <2>4. \A e \in Editors : own'[e] = NoEdits /\ pending'[e] = NoEdits
        BY <2>1, <2>2
    <2>5. Accounted'
        <3>1. dropped' = dropped
            BY <2>1
        <3>2. \A e \in Editors, i \in Ids : own'[e][i] = Untouched /\ pending'[e][i] = Untouched
            BY <2>4, NoEditsType
        <3> QED
            BY <2>3, <2>4, <3>1, <3>2 DEF Accounted
    <2>6. SavedIsReadBack' /\ InStep'
        BY <2>1 DEF InvA, SavedIsReadBack, InStep, Read
    <2> QED
        BY <1>0, <2>5, <2>6 DEF InvA
<1>9. CASE UNCHANGED vars
    <2>1. /\ raw' = raw /\ own' = own /\ pending' = pending /\ dirty' = dirty
          /\ saved' = saved /\ dropped' = dropped /\ refused' = refused
        BY <1>9 DEF vars
    <2>2. Accounted'
        BY <2>1 DEF InvA, Accounted, Over
    <2>3. SavedIsReadBack' /\ InStep'
        BY <1>9 DEF vars, InvA, SavedIsReadBack, InStep, Read, Entries, Over
    <2> QED
        BY <1>0, <2>2, <2>3 DEF InvA
<1> QED
    BY <1>0, <1>1, <1>2, <1>3, <1>4, <1>5, <1>6, <1>7, <1>8, <1>9 DEF Next, InvA

LEMMA AccountedSays == ASSUME InvA PROVE SavedIsReadBack /\ EditsAreKept /\ RowsAreFound
    BY DEF InvA, Accounted, InStep, EditsAreKept, RowsAreFound, TypeOK

\* With one tab on the file, whatever its writes do, seen or unseen: what was
\* reported saved is read back, or was given up, or is of a line a write lost unseen
\* and none wrote again; a save that says it failed leaves every edit an entry of
\* the tab; and adding an entry finds its row, in what is left of a file too
\* (frmUCSEditor::DoSave, CUcsFile::Save, frmUCSEditor::OnNewEntry).
THEOREM OneTabAnyFailure ==
    ASSUME UcsAssumption, SmallIds, OneTab
    PROVE  Spec => [](SavedIsReadBack /\ EditsAreKept /\ RowsAreFound)
<1>1. Init => InvA
    BY AccountedInit
<1>2. InvA /\ [Next]_vars => InvA'
    BY AccountedStep
<1>3. InvA => SavedIsReadBack /\ EditsAreKept /\ RowsAreFound
    BY AccountedSays
<1> QED
    BY <1>1, <1>2, <1>3, PTL DEF Spec
=============================================================================
