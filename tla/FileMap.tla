------------------------------ MODULE FileMap ------------------------------
(***************************************************************************)
(* CFileMap (Rainman/CFileMap.cpp): the virtual file system a mod is       *)
(* edited through.  Data folders and archives ("sources") are laid over    *)
(* one another; a read goes to the source with the lowest sort number that *)
(* has the file, a write to an output folder of the mod being edited.      *)
(*                                                                         *)
(* The stores behind the sources are modelled by what they hold            *)
(* (`disk', `dirs'); a path inside a source is abstracted to the fact that *)
(* the folder has one (`names').  The vectors of children and their binary *)
(* search are in FolderListing, table-of-contents rewriting in TocRewrite. *)
(***************************************************************************)
EXTENDS Naturals, FiniteSets

CONSTANTS
    Sources,        \* _DataSource objects
    Files,          \* a file is a name in one folder
    Folders,        \* folders of all tables of contents
    FolderOf,       \* FolderOf[f]: _File::pParent
    Up,             \* Up[d]: d and every folder above it (_Folder::pParent)
    Sort,           \* Sort[s]: _DataSource::iSortNumber
    Writable,       \* sources with bIsWritable
    DefaultOutput,  \* sources with bIsDefaultOutput
    PureOutput,     \* sources with bIsPureOutput
    Mount,          \* Mount[s]: the virtual folders the source is mapped at
    Stock,          \* Stock[s]: the files the store of s has at the start
    StockDirs,      \* StockDirs[s]: the folders it has, by their virtual folder
    Versions,       \* contents the editors write
    MaxStreams,     \* bound: output streams open at a time
    NoSource,
    Missing,
    Empty           \* a file that was truncated and not written yet

ASSUME TreeAssumption ==
    /\ FolderOf \in [Files -> Folders]
    /\ Up \in [Folders -> SUBSET Folders]
    /\ \A d \in Folders : d \in Up[d]
    /\ \A d \in Folders : \A a \in Up[d] : Up[a] \subseteq Up[d]
    /\ \A d \in Folders : \A a, b \in Up[d] : a \in Up[b] \/ b \in Up[a]
    /\ Mount \in [Sources -> SUBSET Folders]

ASSUME SourceAssumption ==
    /\ Sort \in [Sources -> Nat]
    /\ Writable \subseteq Sources /\ DefaultOutput \subseteq Sources /\ PureOutput \subseteq Sources
    /\ Stock \in [Sources -> SUBSET Files]
    /\ StockDirs \in [Sources -> SUBSET Folders]
    /\ \A s \in Sources : \A f \in Stock[s] : FolderOf[f] \in StockDirs[s]
    /\ \A s \in Sources : \A d \in StockDirs[s] :
          \E m \in Mount[s] \cap Up[d] : \A a \in Up[d] : m \in Up[a] => a \in StockDirs[s]

ASSUME ContentAssumption ==
    /\ NoSource \notin Sources
    /\ Missing \notin Sources \cup Versions \cup {Empty}

VARIABLES
    registered,  \* m_vDataSources
    known,       \* folders that have a _Folder object
    listed,      \* files that have a _File object in their folder's vChildFiles
    names,       \* names[d]: the keys of _Folder::mapSourceNames
    index,       \* index[f][s]: under key s of _File::mapSources, the source the
                 \* write time came from; NoSource when the map has no such key
    disk,        \* disk[s][f]: what the store of s holds for f
    dirs,        \* dirs[s]: the folders the store of s has
    streams      \* output streams open, <<source, file>>

vars == <<registered, known, listed, names, index, disk, dirs, streams>>

\* The bytes a file can hold: those a source came with (named after the
\* source), those an editor wrote, or nothing.
Content == Sources \cup Versions \cup {Empty}

-----------------------------------------------------------------------------
(* Source priorities and std::map<_DataSource*, tLastWriteTime, _DataSource> *)

\* SetMod, SetSourceType and SetSourceNumber pack a 15-bit mod number, a type
\* bit (1 for an archive) and a 16-bit source number.
SortNumber(mod, sga, num) == (mod % 32768) * 131072 + sga * 65536 + (num % 65536)

\* 0x0000ffff: the sort numbers up to this one are the folders of mod 0, the
\* mod being edited.
OutputLimit == 65535

\* The type bit: a data folder, not an archive.
IsFolder(s) == (Sort[s] \div 65536) % 2 = 0

SameKey(s, t) == Sort[s] = Sort[t]

Keys(map) == {s \in Sources : map[s] # NoSource}
KeysOf(f) == Keys(index[f])

\* mapSources.begin(): the file's highest-priority source.
IsTop(s, f) == s \in KeysOf(f) /\ \A t \in KeysOf(f) : Sort[s] <= Sort[t]

\* Mutant: a file knows only the source mapped last.
PutLastOnly(map, s) == [t \in Sources |-> IF t = s THEN s ELSE NoSource]

\* mapSources[s] = time: an equal key already there stays and takes the time.
Put(map, s) ==
    LET equal == {t \in Keys(map) : SameKey(s, t)}
    IN  [t \in Sources |-> IF t \in (IF equal = {} THEN {s} ELSE equal) THEN s ELSE map[t]]

\* Mutant: erase(begin()) for erase(s).
DropFirst(map, s) ==
    [t \in Sources |->
        IF \A u \in Keys(map) : Sort[t] <= Sort[u] THEN NoSource ELSE map[t]]

\* Mutant: erase(find(s), end()) for erase(s).
DropRest(map, s) == [t \in Sources |-> IF Sort[t] >= Sort[s] THEN NoSource ELSE map[t]]

\* Mutant: the entry stays, with a null value.
DropValue(map, s) == [t \in Sources |-> IF SameKey(s, t) THEN Missing ELSE map[t]]

\* mapSources.erase(s): whatever key compares equal to s goes.
Drop(map, s) == [t \in Sources |-> IF SameKey(s, t) THEN NoSource ELSE map[t]]

\* Mutant: the bIsPureOutput test is forgotten.
EnterAlways(map, s) == Put(map, s)

\* A source that has a file is entered in the file's map unless it is a
\* pure-output source.
Enter(map, s) == IF s \in PureOutput THEN map ELSE Put(map, s)

-----------------------------------------------------------------------------
(* Lookup *)

\* _FindFile throws when the path's table of contents does not exist, and
\* otherwise creates the folders of the path, whether or not the file is found.
TocExists(d) == Up[d] \cap known # {}

\* VOpenStream(f) opens the file of source s: its top source, provided the
\* folder has a path in that source.
ReadFrom(s, f) == IsTop(s, f) /\ s \in names[FolderOf[f]]

-----------------------------------------------------------------------------
(* Sources come and go *)

Init ==
    /\ registered = {} /\ known = {} /\ listed = {} /\ streams = {}
    /\ names = [d \in Folders |-> {}]
    /\ index = [f \in Files |-> [s \in Sources |-> NoSource]]
    /\ disk = [s \in Sources |-> [f \in Files |-> IF f \in Stock[s] THEN s ELSE Missing]]
    /\ dirs = StockDirs

Register(s) ==
    /\ s \notin registered
    /\ registered' = registered \cup {s}
    /\ UNCHANGED <<known, listed, names, index, disk, dirs, streams>>

\* RegisterSource is followed by one MapIterator or MapIteratorDeep, or by MapSga,
\* which calls MapIterator for each table of contents of the archive.
Mappable(s) ==
    /\ s \in registered
    /\ Mount[s] \subseteq dirs[s]
    /\ \A d \in Folders : s \notin names[d]

\* _RawMap went through the folders `visited' and `met' the files; a
\* pure-output source has its folders mapped and its files skipped.
RawMap(s, visited, met) ==
    /\ names' = [d \in Folders |-> IF d \in visited THEN names[d] \cup {s} ELSE names[d]]
    /\ listed' = IF s \in PureOutput THEN listed ELSE listed \cup met
    /\ index' = [f \in Files |-> IF f \in met THEN Enter(index[f], s) ELSE index[f]]
    /\ UNCHANGED <<registered, disk, dirs, streams>>

HeldIn(s, folders) == {f \in Files : disk[s][f] # Missing /\ FolderOf[f] \in folders}

MapSource(s) ==
    /\ Mappable(s)
    /\ known' = known \cup UNION {Up[d] : d \in dirs[s]}
    /\ RawMap(s, dirs[s], HeldIn(s, dirs[s]))

Above(s, bad) == {d \in dirs[s] \ {bad} : d \in Up[bad]}

\* What was mapped when VOpenSubDir throws at an unreadable sub-folder `bad':
\* the folders above it in part, and each other sub-folder entirely (`done') or
\* not at all.
Finished(s, bad, done) ==
    /\ \A d \in done : bad \notin Up[d] /\ d \notin Above(s, bad)
    /\ \A d \in done, e \in dirs[s] : d \in Up[e] => e \in done
    /\ \A d \in done, a \in dirs[s] : a \in Up[d] => a \in done \cup Above(s, bad)

\* The mapping of a data folder stops there; what it has done stays.
MapSourceFails(s) ==
    /\ Mappable(s)
    /\ IsFolder(s)
    /\ \E bad \in dirs[s] \ Mount[s], done \in SUBSET dirs[s], met \in SUBSET Files :
         /\ Finished(s, bad, done)
         /\ met \subseteq HeldIn(s, Above(s, bad))
         /\ known' = known \cup UNION {Up[d] : d \in done \cup {bad}}
         /\ RawMap(s, Above(s, bad) \cup done, met \cup HeldIn(s, done))

\* The source's pointer is looked up by identity in the folders' maps, and by
\* sort number in the files'.
EraseSource(s) ==
    /\ s \in registered
    /\ registered' = registered \ {s}
    /\ names' = [d \in Folders |-> names[d] \ {s}]
    /\ index' = [f \in Files |-> Drop(index[f], s)]
    /\ UNCHANGED <<known, listed, disk, dirs, streams>>

-----------------------------------------------------------------------------
(* Reading and writing *)

\* VOpenStream, VGetLastWriteTime and VIterate leave one trace: the folder of
\* the path exists afterwards.
LookUp(d) ==
    /\ TocExists(d)
    /\ known' = known \cup Up[d]
    /\ UNCHANGED <<registered, listed, names, index, disk, dirs, streams>>

\* Mutant: the bound on the sort number starts at infinity.
SuitsAnyMod(s, f) == \A t \in KeysOf(f) : Sort[s] <= Sort[t]

\* _MakeFolderWritable considers only the folders of the mod being edited, and
\* none that the file's top source would hide.
Suits(s, f) == Sort[s] <= OutputLimit /\ \A t \in KeysOf(f) : Sort[s] <= Sort[t]

\* Mutant: any writable source of the file will do, not only its first.
AnyOutputs(f) ==
    {s \in Writable \cup DefaultOutput : s \in KeysOf(f) /\ Sort[s] <= OutputLimit}

\* The file's top source, when it can be written to.
TopOutputs(f) ==
    {s \in Writable \cup DefaultOutput : Sort[s] <= OutputLimit /\ IsTop(s, f)}

FolderOutputs(d, f) == {s \in names[d] \cap DefaultOutput : Suits(s, f)}

\* The nearest folder, from the file's own upwards, with an output source.
OutputFolder(d, f) ==
    /\ d \in Up[FolderOf[f]]
    /\ FolderOutputs(d, f) # {}
    /\ \A e \in Up[FolderOf[f]] : FolderOutputs(e, f) # {} => e \in Up[d]

Below(d, f) == {e \in Up[FolderOf[f]] : d \in Up[e] /\ e # d}

\* _MakeFolderWritable returns s, having created the folders `made' in it.
\* mapSourceNames is ordered by address: any suitable source may come first.
Routes(s, f, made) ==
    \/ made = {} /\ s \in TopOutputs(f)
    \/ /\ \E d \in Folders :
            made = Below(d, f) /\ s \in FolderOutputs(d, f) /\ OutputFolder(d, f)
       /\ TopOutputs(f) = {}

\* VCreateFolderIn throws on the way down; the folders created before it stay.
RouteBreaks(s, f, made) ==
    /\ TopOutputs(f) = {}
    /\ \E d \in Folders :
         /\ s \in FolderOutputs(d, f) /\ OutputFolder(d, f)
         /\ \E bad \in Below(d, f) : made = {e \in Below(d, f) : e \in Up[bad] /\ e # bad}

\* Mutant: VCreateFolderIn is not called.
NameFolders(s, made) ==
    /\ names' = [d \in Folders |-> IF d \in made THEN names[d] \cup {s} ELSE names[d]]
    /\ dirs' = dirs

MakeFolders(s, made) ==
    /\ names' = [d \in Folders |-> IF d \in made THEN names[d] \cup {s} ELSE names[d]]
    /\ dirs' = [dirs EXCEPT ![s] = @ \cup made]

\* Mutant: the source chosen is not compared with the file's top source.
MayOpenAny(s, f, erase) == TRUE

\* Without erase, a source that a reader would not be shown is refused.
MayOpen(s, f, erase) == erase \/ KeysOf(f) = {} \/ IsTop(s, f)

\* The store of s opens the file: it is created when it is not there, and emptied
\* when it is to be erased.
StoreOpens(s, f, erase) ==
    disk' = [disk EXCEPT ![s][f] = IF erase \/ @ = Missing THEN Empty ELSE @]

\* VOpenOutputStream(f, erase) returns a stream.
OpenOutputStream(f, erase) ==
    /\ TocExists(FolderOf[f])
    /\ Cardinality(streams) < MaxStreams
    /\ known' = known \cup Up[FolderOf[f]]
    /\ \E s \in Sources : \E made \in SUBSET Folders :
         /\ Routes(s, f, made)
         /\ MayOpen(s, f, erase)
         /\ MakeFolders(s, made)
         /\ StoreOpens(s, f, erase)
         /\ index' = [index EXCEPT ![f] = Enter(@, s)]
         /\ streams' = streams \cup {<<s, f>>}
    /\ listed' = listed \cup {f}
    /\ UNCHANGED registered

\* It throws, or the auxiliary supply hands out a stream on a file outside the
\* map: no output source, a folder that cannot be created, a source that is
\* not the top one, a store that cannot open the file.
OpenOutputFails(f) ==
    /\ TocExists(FolderOf[f])
    /\ known' = known \cup Up[FolderOf[f]]
    /\ \/ /\ ~\E s \in Sources, made \in SUBSET Folders : Routes(s, f, made)
          /\ UNCHANGED <<names, dirs>>
       \/ \E s \in Sources : \E made \in SUBSET Folders :
            /\ Routes(s, f, made) \/ RouteBreaks(s, f, made)
            /\ MakeFolders(s, made)
    /\ UNCHANGED <<registered, listed, index, disk, streams>>

\* It throws after the store has opened the file, whose write time cannot be read:
\* the file is created or emptied for nothing.  What the file map has of a file it
\* knew is up to the compiler, which may evaluate mapSources[pDS] before the time.
OpenOutputUntimed(f, erase) ==
    /\ TocExists(FolderOf[f])
    /\ known' = known \cup Up[FolderOf[f]]
    /\ \E s \in Sources \ PureOutput : \E made \in SUBSET Folders :
         /\ Routes(s, f, made)
         /\ MayOpen(s, f, erase)
         /\ MakeFolders(s, made)
         /\ StoreOpens(s, f, erase)
         /\ \/ UNCHANGED index
            \/ f \in listed /\ index' = [index EXCEPT ![f] = Put(@, s)]
    /\ UNCHANGED <<registered, listed, streams>>

WriteStream(s, f, v) ==
    /\ <<s, f>> \in streams
    /\ disk' = [disk EXCEPT ![s][f] = v]
    /\ UNCHANGED <<registered, known, listed, names, index, dirs, streams>>

CloseStream(s, f) ==
    /\ <<s, f>> \in streams
    /\ streams' = streams \ {<<s, f>>}
    /\ UNCHANGED <<registered, known, listed, names, index, disk, dirs>>

Next ==
    \/ \E s \in Sources :
         Register(s) \/ MapSource(s) \/ MapSourceFails(s) \/ EraseSource(s)
    \/ \E d \in Folders : LookUp(d)
    \/ \E f \in Files :
         \/ \E erase \in BOOLEAN : OpenOutputStream(f, erase) \/ OpenOutputUntimed(f, erase)
         \/ OpenOutputFails(f)
    \/ \E s \in Sources, f \in Files :
         \/ \E v \in Versions : WriteStream(s, f, v)
         \/ CloseStream(s, f)

Spec == Init /\ [][Next]_vars

-----------------------------------------------------------------------------
(* What makes the map correct *)

\* Types of the state; _File::mapSources has one key per sort number.
TypeOK ==
    /\ registered \subseteq Sources
    /\ known \subseteq Folders
    /\ listed \subseteq Files
    /\ names \in [Folders -> SUBSET Sources]
    /\ index \in [Files -> [Sources -> Sources \cup {NoSource}]]
    /\ disk \in [Sources -> [Files -> Content \cup {Missing}]]
    /\ dirs \in [Sources -> SUBSET Folders]
    /\ streams \subseteq Sources \X Files
    /\ \A f \in Files : \A s, t \in KeysOf(f) : SameKey(s, t) => s = t

\* Every key of a file's map is a source that is still registered, that its
\* folder has a path in, and whose store has the file: _OpenFile never follows
\* a freed _DataSource, and never fails for want of a folder or a file.
IndexSound ==
    \A f \in Files : \A s \in KeysOf(f) :
        /\ s \in registered
        /\ s \in names[FolderOf[f]]
        /\ disk[s][f] # Missing
        /\ f \in listed

\* A folder's map names registered sources only, and paths that exist in them,
\* so the folder chosen for an output is a folder that can be written to.
FoldersSound ==
    \A d \in Folders : \A s \in names[d] : s \in registered /\ d \in dirs[s] /\ d \in known

\* A stream is open on a file that exists, in a folder of the mod being edited.
StreamsSound ==
    \A s \in Sources, f \in Files :
        <<s, f>> \in streams => Sort[s] <= OutputLimit /\ disk[s][f] # Missing

\* The invariant that is inductive: each part leans on the others.
IInv == TypeOK /\ IndexSound /\ FoldersSound /\ StreamsSound

\* A pure-output source takes what is written and never serves a read.
PureOutputHidden == \A f \in Files : KeysOf(f) \cap PureOutput = {}

\* Only the data folders of the mod being edited are ever written to: required
\* mods and the engine are registered as outputs too, archives are not files.
OwnModOnly ==
    [][\A s \in Sources : Sort[s] > OutputLimit => disk'[s] = disk[s] /\ dirs'[s] = dirs[s]]_vars

\* An output stream is opened on the file that a reader is given from then on.
ReadYourWrites ==
    [][\A s \in Sources, f \in Files :
         <<s, f>> \in streams' \ streams /\ s \notin PureOutput => ReadFrom(s, f)']_vars

\* As long as a source is registered, a file that it serves is served by it or
\* by a source of higher priority: no operation on another source, and no
\* write, brings back an older version of the file.
NeverFallsBack ==
    [][\A f \in Files : \A s \in registered \cap registered' :
         ReadFrom(s, f) => \E t \in Sources : ReadFrom(t, f)' /\ Sort[t] <= Sort[s]]_vars

\* A stream that does not erase continues the file that readers see, whichever
\* source it came from; so a new stream shows either nothing or that file.
ContinuesWhatIsRead ==
    [][\A s \in Sources, f \in Files : \A t \in Sources :
         /\ <<s, f>> \in streams' \ streams
         /\ ReadFrom(t, f)
         => disk'[s][f] = Empty \/ (t = s /\ disk'[s][f] = disk[t][f])]_vars

\* No two sources share a sort number: what makes the map a stack.
DistinctSort == \A s, t \in Sources : SameKey(s, t) => s = t

\* What each source contributes to what is read.
Contribution ==
    [s \in Sources |-> [f \in Files |->
        IF index[f][s] # NoSource THEN disk[s][f] ELSE Missing]]

O == INSTANCE Overlay WITH
        held <- Contribution,
        Outputs <- {s \in Sources : Sort[s] <= OutputLimit}

\* The map of maps is a stack of layers: every operation attaches a layer,
\* detaches it, or publishes or amends one file of one layer.
ImplementsOverlay == O!Spec
=============================================================================
