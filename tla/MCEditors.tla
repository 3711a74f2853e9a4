----------------------------- MODULE MCEditors -----------------------------
(***************************************************************************)
(* The editors and the mod behind them, each part explored by itself: the  *)
(* tabs of the main window (EditorTabs), several editors of one UCS file   *)
(* whose writes succeed and one editor whose writes may fail (UcsEditing), *)
(* the mod that is loaded, refreshed and closed (ModuleLoad), its .module  *)
(* file (ModuleFile), the names of the keys of its tables (RgdNames) and   *)
(* the editor's lists of the children of one (RgdEditor), the files of a   *)
(* Company of Heroes mod, whose sources share sort numbers, and of a mass  *)
(* extraction from it (FileMap) and the rewriting of its tables of         *)
(* contents (TocRewrite).  A part whose proofs are in a module of their    *)
(* own is an instance of that module, for EditorsProofs.                   *)
(***************************************************************************)
EXTENDS EditorTabs, Sequences, TLC

CONSTANTS
    Parts,                                \* what is explored
    Ids, AloneIds, Half, Texts, Old, Blank, None, Untouched, Stock, Editors,
    Single, AloneTexts,                   \* the one editor, of a file of AloneIds
    Kinds, TabsMayStay,                   \* ModuleLoad
    Versions, NoSource, Missing, Empty,   \* FileMap
    UIName, ModVersion, plain, noted, zero,
    ManagedKeys, ManagedValues, Settable, AsRead, Initially, ModuleFiles,
    Global, Loose, Section, Text, NoFile,  \* ModuleFile
    key1, key2, key3, key4, Absent,       \* RgdNames
    Attributes,                           \* RgdEditor
    Tocs, TocFiles, Attrib, Generic, Slash  \* TocRewrite

VARIABLES
    part,
    disk, raw, own, grid, open, unsaved, crashed, typed, pending, saved, dropped, givenUp, \* UcsEditing
    stage, kind, mods, sources, todo, missing, loads, heap, twice, tree, texts,   \* ModuleLoad
    cohRegistered, cohKnown, cohListed, cohNames, cohIndex, cohDisk, cohDirs, cohStreams, \* FileMap
    tocs, rewrites, held, loading, opened, \* TocRewrite
    moduleFile, temp, values, output, phase, whole, reported, unseen, \* ModuleFile
    before, after, custom, naming, table, saving, learnt, torn,   \* RgdNames
    kids, nameOf, items, rows, picked, last, unsorted, stale, freed  \* RgdEditor

ucsVars == <<disk, raw, own, grid, open, unsaved, crashed, typed, pending, saved, dropped, givenUp>>
loadVars == <<stage, kind, mods, sources, todo, missing, loads, heap, twice, tree, texts>>
cohVars == <<cohRegistered, cohKnown, cohListed, cohNames, cohIndex, cohDisk, cohDirs, cohStreams>>
tocVars == <<tocs, rewrites, held, loading, opened>>
moduleVars == <<moduleFile, temp, values, output, phase, whole, reported, unseen>>
keyVars == <<before, after, custom, naming, table, saving, learnt, torn>>
editorVars == <<kids, nameOf, items, rows, picked, last, unsorted, stale, freed>>

Shared == INSTANCE UcsEditingProofs WITH Outcomes <- {"saved"}, dirty <- unsaved, refused <- givenUp
Alone == INSTANCE UcsEditingProofs WITH
    Ids <- AloneIds, Texts <- AloneTexts, Editors <- {Single},
    Outcomes <- {"saved", "failed", "cut"}, dirty <- unsaved, refused <- givenUp

\* Two required mods; two sections of a Company of Heroes mod, the second with
\* the files of another mod.
Load == INSTANCE ModuleLoadProofs WITH
    Requireds <- <<1, 2>>,
    DataSources <- <<[num |-> 1, own |-> TRUE], [num |-> 2, own |-> FALSE]>>,
    MaxMissing <- 2, MaxLoads <- 2, tabs <- texts

ASSUME SharedIsSound == Shared!UcsAssumption
ASSUME AloneIsSound == Alone!UcsAssumption /\ Single \in Editors
ASSUME LoadIsSound == Load!LoadAssumption

-----------------------------------------------------------------------------
\* A Company of Heroes mod: the folders of [data:common:01] and
\* [data:sound_high:01] have one number; an archive of a scenario pack; and the
\* folder chosen to extract files to, which frmMassExtract maps as a pure output.
CohSources == {"Common", "Sound", "Pack", "Target"}
CohSort == [Target |-> 0, Common |-> 15001,
            Sound |-> 15001, Pack |-> 15000 * 131072 + 65536 + 15000]

\* One folder: what is below it makes no difference to ties.
CohFiles == {"top.lua"}
CohFolders == {"data"}
CohStock == [Target |-> CohFiles, Common |-> {}, Sound |-> CohFiles, Pack |-> CohFiles]
CohUp == [data |-> CohFolders]
AllFolders == [Target |-> CohFolders, Common |-> CohFolders, Sound |-> CohFolders, Pack |-> CohFolders]

Coh == INSTANCE FileMapProofs WITH
    Sources <- CohSources, Files <- CohFiles, Folders <- CohFolders,
    FolderOf <- "top.lua" :> "data", Up <- CohUp,
    Sort <- CohSort, Writable <- {"Common", "Sound", "Target"},
    DefaultOutput <- {"Common", "Target"}, PureOutput <- {"Target"},
    Mount <- AllFolders, Stock <- CohStock, StockDirs <- AllFolders, MaxStreams <- 2,
    registered <- cohRegistered, known <- cohKnown, listed <- cohListed, names <- cohNames,
    index <- cohIndex, disk <- cohDisk, dirs <- cohDirs, streams <- cohStreams
ASSUME CohIsATree == Coh!TreeAssumption
ASSUME CohHasSources == Coh!SourceAssumption
ASSUME CohHasContents == Coh!ContentAssumption

Toc == INSTANCE TocRewrite WITH Names <- TocFiles, files <- held
ASSUME TocIsSound == Toc!NamesAssumption

\* `attrib' and `generic', the longer by one letter, `data', and two files one
\* of which ends the other.
McAttrib == <<1, 1>>
McGeneric == <<2, 2, 2>>
McTocs == {McAttrib, McGeneric, <<3, 3>>}
McTocFiles == {<<4, 5>>, <<5>>}

-----------------------------------------------------------------------------
\* A key with a default the reader knows, and one without; a value with a
\* remark after a semicolon.  Files without a key, with a key twice, with keys
\* outside the section, and with a header the writer does not recognise.
McManagedKeys == <<UIName, ModVersion>>
McManagedValues == {Empty, plain, noted, zero}
McSettable == UIName :> {Empty, plain, noted} @@ ModVersion :> {plain, zero}
McAsRead == [v \in McManagedValues |-> IF v = noted THEN plain ELSE v]
McInitially == UIName :> Empty @@ ModVersion :> zero
Line(k, v) == [key |-> k, value |-> v]
McModuleFiles ==
    {<<Global, Text, Section>>,
     <<Global, Line(UIName, noted), Line(UIName, plain), Text>>,
     <<Text, Section, Global>>,
     <<Loose, Section, Line(UIName, plain)>>}

Module == INSTANCE ModuleFile WITH
    file <- moduleFile, mem <- values,
    Keys <- ManagedKeys, Values <- ManagedValues, Stock <- ModuleFiles
ASSUME ModuleIsSound == Module!ModuleAssumption

ModuleWaits == Module!Init /\ moduleFile = CHOOSE f \in ModuleFiles : TRUE

-----------------------------------------------------------------------------
\* Two spellings of a name, of which a dictionary gives one back, a number the
\* table begins with and one it does not.
McNames == {"my cost", "mycost", "1", "10000"}
McDictionaries ==
    {[k \in {key1, key2, key3, key4} |->
        IF k \notin named THEN Absent
        ELSE IF k = key3 THEN "1" ELSE IF k = key4 THEN "10000" ELSE "mycost"] :
     named \in {{}, {key1}, {key1, key2}, {key2, key3}, {key4}}}

KeyNames == INSTANCE RgdNamesProofs WITH
    running <- naming,
    Keys <- {key1, key2, key3, key4}, Names <- McNames,
    HashOf <- "my cost" :> key1 @@ "mycost" :> key2 @@ "1" :> key3 @@ "10000" :> key4,
    Stripped <- [n \in McNames |-> IF n = "my cost" THEN "mycost" ELSE n],
    Numeric <- {"1", "10000"}, Preset <- {"1"}, Dictionaries <- McDictionaries
ASSUME NamesAreSound == KeyNames!NamesAssumption

KeysWait == KeyNames!Init /\ \A k \in DOMAIN before : before[k] = Absent /\ after[k] = Absent

-----------------------------------------------------------------------------
\* a_2, A_2, a_10, a_1z and b: some have no order, some are one name to stricmp.
McChildNames == {<<97, 95, 50>>, <<65, 95, 50>>, <<97, 95, 49, 48>>, <<97, 95, 49, 122>>, <<98>>}

Order == INSTANCE RgdOrder
McInOrder == {p \in {<<a, b>> : a, b \in McChildNames} : Order!Before(p[1], p[2])}

Editor == INSTANCE RgdEditorProofs WITH
    Entries <- Attributes, Nobody <- None, Names <- McChildNames,
    Stock <- {{}, {<<97, 95, 50>>, <<97, 95, 49, 48>>}}, InOrder <- McInOrder
ASSUME EntriesAreSound == Editor!EntriesAssumption

EditorWaits == Editor!Init /\ kids = <<>>

-----------------------------------------------------------------------------
\* The entries of a table are only compared.
Symmetry == Permutations(Attributes)

EditorsInit ==
  /\ part \in Parts
  /\ Init
  /\ IF part = "alone" THEN Alone!Init ELSE Shared!Init
  /\ Load!Init /\ Coh!Init /\ Toc!Init
  /\ IF part = "module" THEN Module!Init ELSE ModuleWaits
  /\ IF part = "names" THEN KeyNames!Init ELSE KeysWait
  /\ IF part = "editor" THEN Editor!Init ELSE EditorWaits

EditorsNext ==
  /\ \/ part = "tabs" /\ Next
        /\ UNCHANGED <<ucsVars, loadVars, cohVars, tocVars, moduleVars, keyVars, editorVars>>
     \/ part = "shared" /\ Shared!Next
        /\ UNCHANGED <<vars, loadVars, cohVars, tocVars, moduleVars, keyVars, editorVars>>
     \/ part = "alone" /\ Alone!Next
        /\ UNCHANGED <<vars, loadVars, cohVars, tocVars, moduleVars, keyVars, editorVars>>
     \/ part = "load" /\ Load!Next
        /\ UNCHANGED <<vars, ucsVars, cohVars, tocVars, moduleVars, keyVars, editorVars>>
     \/ part = "coh" /\ Coh!Next
        /\ UNCHANGED <<vars, ucsVars, loadVars, tocVars, moduleVars, keyVars, editorVars>>
     \/ part = "toc" /\ Toc!Next
        /\ UNCHANGED <<vars, ucsVars, loadVars, cohVars, moduleVars, keyVars, editorVars>>
     \/ part = "module" /\ Module!Next
        /\ UNCHANGED <<vars, ucsVars, loadVars, cohVars, tocVars, keyVars, editorVars>>
     \/ part = "names" /\ KeyNames!Next
        /\ UNCHANGED <<vars, ucsVars, loadVars, cohVars, tocVars, moduleVars, editorVars>>
     \/ part = "editor" /\ Editor!Next
        /\ UNCHANGED <<vars, ucsVars, loadVars, cohVars, tocVars, moduleVars, keyVars>>
  /\ UNCHANGED part

allVars == <<part, vars, ucsVars, loadVars, cohVars, tocVars, moduleVars, keyVars, editorVars>>

EditorsSpec == EditorsInit /\ [][EditorsNext]_allVars

\* UcsEditing: what was reported saved, and not lost by a write unseen, is what the
\* file holds.
SavedIsReadBack ==
  /\ part = "alone" => Alone!SavedIsReadBack
  /\ part = "shared" => Shared!SavedIsReadBack

\* UcsEditing, for several editors: OnNewEntry finds the row of the next entry.
RowsAreFound == Shared!RowsAreFound

\* UcsEditing, for one editor: OnNewEntry finds the row of the next entry.
RowsAreFoundAlone == part = "alone" => Alone!RowsAreFound

\* UcsEditing, one editor, saves that fail: DoSave and CUcsTransaction::Save
\* keep every edit that is not reported saved.
EditsAreKeptAlone == part = "alone" => Alone!EditsAreKept

\* UcsEditing, several editors, no failing write: nothing that was answered
\* "No" is written by CUcsTransaction::Save.
RefusedStaysOutShared == part = "shared" => Shared!RefusedStaysOut

\* ModuleLoad: nobody is left with a pointer to what ReloadResources,
\* _CleanResources or SetModule freed.
NothingDangles == part = "load" => Load!NothingDangles

\* ModuleLoad: modules that share map, path and store free them once, and
\* nothing is left of a mod that is closed (~CModuleFile).
FreedOnce == part = "load" => Load!FreedOnce

\* ModuleLoad: what CFileMap assumes of the sort numbers is what
\* ReloadResources gives it.
InFront == part = "load" => Load!InFront

\* FileMap, sources that share numbers: a file's map has one key for sources of
\* one number (TypeOK), each key leads to a source that has the file
\* (IndexSound), and the target of an extraction, a pure output, never serves a
\* read (_RawMap, _MakeFolderWritable, EraseSource).
SoundWithTies == part = "coh" => Coh!TypeOK /\ Coh!IndexSound /\ Coh!PureOutputHidden

\* TocRewrite: what was written under a path is read back (VOpenOutputStream,
\* RewriteToC, UnrewriteToC).
WrittenIsReadBack == part = "toc" => Toc!WrittenIsReadBack

\* ModuleFile: no save leaves a truncated file (Rainman_UpdateModuleFile).
NotTruncated == Module!NotTruncated

\* ModuleFile: none does, whatever fails and wherever the program ends, as long as
\* no fread or fclose fails unseen.
OldOrNew == part = "module" => Module!OldOrNew

\* ModuleFile: a save that succeeded is read back, from a tidy file, and a second
\* save changes nothing, as long as no fread or fclose fails unseen.
ModuleIsLoaded == part = "module" => Module!SavedIsLoaded /\ Module!SavedOnceForAll

\* ModuleFile: every line without a managed key stays, as long as no fread or
\* fclose fails unseen.
OthersKept == Module!OthersKept

\* RgdNames: a name that RGD files point to is neither changed nor freed.
NamesStay == KeyNames!NamesStay

\* RgdNames: a name learnt is known in every later run.
KnownForGood == part = "names" => KeyNames!KnownForGood

\* RgdNames: custom.txt does not list what a dictionary names.
NotTwice == KeyNames!NotTwice

\* RgdEditor: the entry that is changed is the one that was picked.
MeantIsChanged == Editor!MeantIsChanged
=============================================================================
