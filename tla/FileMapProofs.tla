--------------------------- MODULE FileMapProofs ---------------------------
(***************************************************************************)
(* Proofs about FileMap, for every tree of folders, every set of sources   *)
(* and every assignment of sort numbers.                                   *)
(***************************************************************************)
EXTENDS FileMap, TLAPS

-----------------------------------------------------------------------------
(* std::map<_DataSource*, tLastWriteTime, _DataSource> *)

Maps == [Sources -> Sources \cup {NoSource}]

OneKeyEach(map) == \A s, t \in Keys(map) : SameKey(s, t) => s = t

\* Entering a source adds at most that source to the keys, and adds it unless
\* an equal key is there: the keys stay one per sort number.
LEMMA PutMap ==
    ASSUME NEW map \in Maps, NEW s \in Sources, OneKeyEach(map)
    PROVE  /\ Put(map, s) \in Maps
           /\ Keys(map) \subseteq Keys(Put(map, s))
           /\ Keys(Put(map, s)) \subseteq Keys(map) \cup {s}
           /\ OneKeyEach(Put(map, s))
           /\ s \in Keys(Put(map, s)) \/ \E t \in Keys(map) : SameKey(s, t)
<1> DEFINE equal == {t \in Keys(map) : SameKey(s, t)}
<1>1. Put(map, s) = [t \in Sources |-> IF t \in (IF equal = {} THEN {s} ELSE equal) THEN s ELSE map[t]]
  BY DEF Put
<1>2. Put(map, s) \in Maps
  BY <1>1 DEF Maps
<1>3. s # NoSource
  BY ContentAssumption
<1>4. CASE equal = {}
  <2>1. Keys(Put(map, s)) = Keys(map) \cup {s}
    BY <1>1, <1>3, <1>4 DEF Keys, Maps
  <2>2. OneKeyEach(Put(map, s))
    BY <2>1, <1>4 DEF OneKeyEach, SameKey
  <2> QED BY <1>2, <2>1, <2>2
<1>5. CASE equal # {}
  <2>1. Keys(Put(map, s)) = Keys(map)
    BY <1>1, <1>3, <1>5 DEF Keys, Maps
  <2>2. OneKeyEach(Put(map, s))
    BY <2>1 DEF OneKeyEach
  <2> QED BY <1>2, <2>1, <2>2, <1>5
<1> QED BY <1>4, <1>5

\* Erasing a source leaves the keys that do not compare equal to it.
LEMMA DropMap ==
    ASSUME NEW map \in Maps, NEW s \in Sources, OneKeyEach(map)
    PROVE  /\ Drop(map, s) \in Maps
           /\ Keys(Drop(map, s)) = {t \in Keys(map) : ~SameKey(s, t)}
           /\ OneKeyEach(Drop(map, s))
<1>1. Drop(map, s) \in Maps
  BY DEF Drop, Maps
<1>2. Keys(Drop(map, s)) = {t \in Keys(map) : ~SameKey(s, t)}
  BY DEF Drop, Keys, Maps
<1>3. OneKeyEach(Drop(map, s))
  BY <1>2 DEF OneKeyEach
<1> QED BY <1>1, <1>2, <1>3

\* Enter is Put for the sources that serve reads, and nothing for the others.
LEMMA EnterMap ==
    ASSUME NEW map \in Maps, NEW s \in Sources, OneKeyEach(map)
    PROVE  /\ Enter(map, s) \in Maps
           /\ Keys(map) \subseteq Keys(Enter(map, s))
           /\ Keys(Enter(map, s)) \subseteq Keys(map) \cup {s}
           /\ OneKeyEach(Enter(map, s))
BY PutMap DEF Enter

-----------------------------------------------------------------------------
(* Choosing where to write *)

\* The chosen source is a folder of the mod being edited that no source of the
\* file comes before; the file's folder has a path in it, or is being given one;
\* and only folders on the way to the file are created.
LEMMA RouteSound ==
    ASSUME IInv, NEW s \in Sources, NEW f \in Files, NEW made \in SUBSET Folders,
           Routes(s, f, made) \/ RouteBreaks(s, f, made)
    PROVE  /\ Sort[s] <= OutputLimit
           /\ \A t \in KeysOf(f) : Sort[s] <= Sort[t]
           /\ s \in registered
           /\ made \subseteq Up[FolderOf[f]]
           /\ Routes(s, f, made) => FolderOf[f] \in made \/ s \in names[FolderOf[f]]
<1>1. CASE s \in TopOutputs(f) /\ made = {}
  <2>1. IsTop(s, f) /\ Sort[s] <= OutputLimit
    BY <1>1 DEF TopOutputs
  <2>2. s \in registered /\ s \in names[FolderOf[f]]
    BY <2>1 DEF IsTop, IInv, IndexSound
  <2> QED BY <1>1, <2>1, <2>2 DEF IsTop
<1>2. ASSUME NEW d \in Folders, OutputFolder(d, f), s \in FolderOutputs(d, f),
             made \subseteq Below(d, f)
      PROVE  /\ Sort[s] <= OutputLimit
             /\ \A t \in KeysOf(f) : Sort[s] <= Sort[t]
             /\ s \in registered
             /\ made \subseteq Up[FolderOf[f]]
             /\ made = Below(d, f) => FolderOf[f] \in made \/ s \in names[FolderOf[f]]
  <2>1. s \in names[d] /\ Suits(s, f)
    BY <1>2 DEF FolderOutputs
  <2>2. s \in registered
    BY <2>1 DEF IInv, FoldersSound
  <2>3. FolderOf[f] \in Folders /\ FolderOf[f] \in Up[FolderOf[f]] /\ d \in Up[FolderOf[f]]
    BY <1>2, TreeAssumption DEF OutputFolder
  <2>4. made = Below(d, f) => FolderOf[f] \in made \/ s \in names[FolderOf[f]]
    BY <2>1, <2>3 DEF Below
  <2> QED BY <1>2, <2>1, <2>2, <2>4 DEF Suits, Below
<1> QED BY <1>1, <1>2 DEF Routes, RouteBreaks

-----------------------------------------------------------------------------
(* The inductive invariant *)

\* Nothing is registered, mapped or open at the start.
LEMMA InitIInv == Init => IInv
<1> SUFFICES ASSUME Init PROVE IInv
  OBVIOUS
<1>1. \A f \in Files : KeysOf(f) = {}
  BY DEF Init, KeysOf, Keys
<1>2. TypeOK
  BY <1>1, SourceAssumption, ContentAssumption DEF Init, TypeOK, Content
<1>3. IndexSound
  BY <1>1 DEF IndexSound
<1>4. FoldersSound /\ StreamsSound
  BY DEF Init, FoldersSound, StreamsSound
<1> QED BY <1>2, <1>3, <1>4 DEF IInv

\* Mapping the folders `visited' and the files `met' that the store of s has
\* keeps the maps sound.
LEMMA RawMapIInv ==
    ASSUME IInv, NEW s \in Sources, NEW visited \in SUBSET Folders, NEW met \in SUBSET Files,
           s \in registered, visited \subseteq dirs[s], met \subseteq HeldIn(s, visited),
           RawMap(s, visited, met),
           known' \subseteq Folders, known \subseteq known', visited \subseteq known'
    PROVE  IInv'
<1> USE DEF IInv
<1>1. \A f \in Files : /\ index[f] \in Maps
                       /\ OneKeyEach(index[f])
  BY DEF TypeOK, Maps, OneKeyEach, KeysOf
<1>2. \A f \in Files : /\ index'[f] \in Maps
                       /\ OneKeyEach(index'[f])
                       /\ Keys(index'[f]) \subseteq Keys(index[f]) \cup {s}
                       /\ f \notin met => index'[f] = index[f]
                       /\ s \in PureOutput => index'[f] = index[f]
  BY <1>1, EnterMap DEF RawMap, Enter
<1>3. TypeOK'
  <2>1. index' \in [Files -> [Sources -> Sources \cup {NoSource}]]
    BY <1>2 DEF RawMap, Maps
  <2>2. \A f \in Files : \A t, u \in KeysOf(f)' : SameKey(t, u) => t = u
    BY <1>2 DEF KeysOf, OneKeyEach
  <2> QED BY <2>1, <2>2 DEF TypeOK, RawMap
<1>4. IndexSound'
  <2> SUFFICES ASSUME NEW f \in Files, NEW t \in KeysOf(f)'
               PROVE  /\ t \in registered'
                      /\ t \in names'[FolderOf[f]]
                      /\ disk'[t][f] # Missing
                      /\ f \in listed'
    BY DEF IndexSound
  <2>1. FolderOf[f] \in Folders
    BY TreeAssumption
  <2>2. CASE t \in KeysOf(f)
    BY <2>1, <2>2 DEF IndexSound, RawMap
  <2>3. CASE t \notin KeysOf(f)
    <3>1. t = s /\ f \in met /\ s \notin PureOutput
      BY <1>2, <2>3 DEF KeysOf
    <3> QED BY <2>1, <3>1 DEF RawMap, HeldIn
  <2> QED BY <2>2, <2>3
<1>5. FoldersSound'
  BY DEF FoldersSound, RawMap
<1>6. StreamsSound'
  BY DEF StreamsSound, RawMap
<1> QED BY <1>3, <1>4, <1>5, <1>6

\* Opening a stream, successfully or not, gives the source its folders.
LEMMA MakeFoldersSound ==
    ASSUME IInv, NEW s \in Sources, NEW f \in Files, NEW made \in SUBSET Folders,
           Routes(s, f, made) \/ RouteBreaks(s, f, made), MakeFolders(s, made),
           known' = known \cup Up[FolderOf[f]], registered' = registered
    PROVE  /\ known' \subseteq Folders
           /\ names' \in [Folders -> SUBSET Sources]
           /\ dirs' \in [Sources -> SUBSET Folders]
           /\ \A d \in Folders : names[d] \subseteq names'[d]
           /\ FoldersSound'
<1> USE DEF IInv
<1>1. Up[FolderOf[f]] \subseteq Folders
  BY TreeAssumption
<1>2. s \in registered /\ made \subseteq Up[FolderOf[f]]
  BY RouteSound
<1>3. known' \subseteq Folders
  BY <1>1 DEF TypeOK
<1>4. /\ names' \in [Folders -> SUBSET Sources]
      /\ dirs' \in [Sources -> SUBSET Folders]
      /\ \A d \in Folders : names[d] \subseteq names'[d]
  BY DEF TypeOK, MakeFolders
<1>5. ASSUME NEW d \in Folders, NEW t \in names'[d]
      PROVE  t \in registered' /\ d \in dirs'[t] /\ d \in known'
  <2>1. CASE t \in names[d]
    BY <2>1 DEF FoldersSound, MakeFolders, TypeOK
  <2>2. CASE t \notin names[d]
    BY <2>2, <1>2 DEF MakeFolders, TypeOK
  <2> QED BY <2>1, <2>2
<1> QED BY <1>3, <1>4, <1>5 DEF FoldersSound

\* The store of s has opened f; the map of f has s, unless s is pure output or the
\* write time could not be read.
Opens(s, f, made, erase) ==
    /\ Routes(s, f, made) /\ MakeFolders(s, made) /\ StoreOpens(s, f, erase)
    /\ index' \in {index, [index EXCEPT ![f] = Enter(@, s)]}
    /\ index' # index => f \in listed'
    /\ known' = known \cup Up[FolderOf[f]] /\ registered' = registered
    /\ listed' \in {listed, listed \cup {f}}
    /\ streams' \in {streams, streams \cup {<<s, f>>}}

OpensOrThrows(f, erase) == OpenOutputStream(f, erase) \/ OpenOutputUntimed(f, erase)

LEMMA Opening ==
    ASSUME NEW f \in Files, NEW erase \in BOOLEAN, OpensOrThrows(f, erase)
    PROVE  \E s \in Sources, made \in SUBSET Folders : Opens(s, f, made, erase)
<1>1. CASE OpenOutputStream(f, erase)
  BY <1>1 DEF OpenOutputStream, Opens
<1>2. CASE OpenOutputUntimed(f, erase)
  <2>1. PICK s \in Sources \ PureOutput, made \in SUBSET Folders :
          /\ Routes(s, f, made) /\ MakeFolders(s, made) /\ StoreOpens(s, f, erase)
          /\ UNCHANGED index \/ (f \in listed /\ index' = [index EXCEPT ![f] = Put(@, s)])
    BY <1>2 DEF OpenOutputUntimed
  <2>2. Enter(index[f], s) = Put(index[f], s)
    BY <2>1 DEF Enter
  <2>3. Opens(s, f, made, erase)
    BY <1>2, <2>1, <2>2 DEF OpenOutputUntimed, Opens
  <2> QED BY <2>1, <2>3
<1> QED BY <1>1, <1>2 DEF OpensOrThrows

\* Opening an output stream keeps the maps sound: the source entered for the
\* file is registered, named by the folder, and has the file by then.
LEMMA OpensIInv ==
    ASSUME IInv, NEW f \in Files, NEW erase \in BOOLEAN, OpensOrThrows(f, erase)
    PROVE  IInv'
<1> USE DEF IInv
<1>1. PICK s \in Sources, made \in SUBSET Folders : Opens(s, f, made, erase)
  BY Opening
<1> USE DEF Opens, StoreOpens
<1>2. /\ known' = known \cup Up[FolderOf[f]]
      /\ listed' \in {listed, listed \cup {f}}
      /\ registered' = registered
  BY <1>1
<1>3. /\ Sort[s] <= OutputLimit /\ s \in registered
      /\ FolderOf[f] \in made \/ s \in names[FolderOf[f]]
  BY <1>1, RouteSound
<1>4. /\ known' \subseteq Folders
      /\ names' \in [Folders -> SUBSET Sources]
      /\ dirs' \in [Sources -> SUBSET Folders]
      /\ \A d \in Folders : names[d] \subseteq names'[d]
      /\ FoldersSound'
  BY <1>1, <1>2, MakeFoldersSound
<1>5. \A g \in Files : index[g] \in Maps /\ OneKeyEach(index[g])
  BY DEF TypeOK, Maps, OneKeyEach, KeysOf
<1>6. \A g \in Files : /\ index'[g] \in Maps
                       /\ OneKeyEach(index'[g])
                       /\ Keys(index'[g]) \subseteq Keys(index[g]) \cup (IF g = f THEN {s} ELSE {})
  BY <1>1, <1>5, EnterMap DEF TypeOK
<1>7. /\ disk' \in [Sources -> [Files -> Content \cup {Missing}]]
      /\ disk'[s][f] # Missing
      /\ \A t \in Sources, g \in Files : disk[t][g] # Missing => disk'[t][g] # Missing
  BY <1>1, ContentAssumption DEF TypeOK, Content
<1>8. TypeOK'
  <2>1. index' \in [Files -> [Sources -> Sources \cup {NoSource}]]
    BY <1>1, <1>6 DEF Maps, TypeOK
  <2>2. \A g \in Files : \A t, u \in KeysOf(g)' : SameKey(t, u) => t = u
    BY <1>6 DEF KeysOf, OneKeyEach
  <2> QED BY <1>1, <1>2, <1>4, <1>7, <2>1, <2>2 DEF TypeOK
<1>9. IndexSound'
  <2> SUFFICES ASSUME NEW g \in Files, NEW t \in KeysOf(g)'
               PROVE  /\ t \in registered'
                      /\ t \in names'[FolderOf[g]]
                      /\ disk'[t][g] # Missing
                      /\ g \in listed'
    BY DEF IndexSound
  <2>1. FolderOf[g] \in Folders
    BY TreeAssumption
  <2>2. t \in Sources
    BY DEF KeysOf, Keys
  <2>3. CASE t \in KeysOf(g)
    BY <1>2, <1>4, <1>7, <2>1, <2>2, <2>3 DEF IndexSound
  <2>4. CASE t \notin KeysOf(g)
    <3>1. t = s /\ g = f
      BY <1>6, <2>4 DEF KeysOf
    <3>2. s \in names'[FolderOf[f]]
      BY <1>1, <1>3, <2>1, <3>1 DEF MakeFolders
    <3>3. index' # index
      BY <2>4 DEF KeysOf
    <3>4. f \in listed'
      BY <1>1, <3>3
    <3> QED BY <1>2, <1>3, <1>7, <3>1, <3>2, <3>4
  <2> QED BY <2>3, <2>4
<1>10. StreamsSound'
  BY <1>1, <1>3, <1>7 DEF StreamsSound
<1> QED BY <1>4, <1>8, <1>9, <1>10

\* Every step keeps the invariant.
LEMMA NextIInv == IInv /\ [Next]_vars => IInv'
<1> SUFFICES ASSUME IInv, [Next]_vars PROVE IInv'
  OBVIOUS
<1> USE DEF IInv
<1>1. ASSUME NEW s \in Sources, Register(s) PROVE IInv'
  BY <1>1 DEF Register, TypeOK, IndexSound, FoldersSound, StreamsSound, KeysOf
<1>2. ASSUME NEW s \in Sources, MapSource(s) PROVE IInv'
  <2>1. /\ s \in registered
        /\ dirs[s] \in SUBSET Folders /\ dirs[s] \subseteq dirs[s]
        /\ HeldIn(s, dirs[s]) \in SUBSET Files
        /\ known' = known \cup UNION {Up[d] : d \in dirs[s]}
        /\ RawMap(s, dirs[s], HeldIn(s, dirs[s]))
    BY <1>2 DEF MapSource, Mappable, TypeOK, HeldIn
  <2>2. known' \subseteq Folders /\ known \subseteq known' /\ dirs[s] \subseteq known'
    BY <2>1, TreeAssumption DEF TypeOK
  <2> QED BY <2>1, <2>2, RawMapIInv
<1>3. ASSUME NEW s \in Sources, MapSourceFails(s) PROVE IInv'
  <2>1. PICK bad \in dirs[s], done \in SUBSET dirs[s], met \in SUBSET Files :
          /\ met \subseteq HeldIn(s, Above(s, bad))
          /\ known' = known \cup UNION {Up[d] : d \in done \cup {bad}}
          /\ RawMap(s, Above(s, bad) \cup done, met \cup HeldIn(s, done))
    BY <1>3 DEF MapSourceFails
  <2>2. s \in registered /\ dirs[s] \in SUBSET Folders
    BY <1>3 DEF MapSourceFails, Mappable, TypeOK
  <2>3. met \cup HeldIn(s, done) \subseteq HeldIn(s, Above(s, bad) \cup done)
    BY <2>1 DEF HeldIn
  <2>4. Above(s, bad) \subseteq dirs[s] /\ Above(s, bad) \subseteq Up[bad]
    BY DEF Above
  <2>5. known' \subseteq Folders /\ known \subseteq known' /\ Above(s, bad) \cup done \subseteq known'
    BY <2>1, <2>2, <2>4, TreeAssumption DEF TypeOK
  <2>6. met \cup HeldIn(s, done) \in SUBSET Files
    BY <2>1 DEF HeldIn
  <2> QED BY <2>1, <2>2, <2>3, <2>4, <2>5, <2>6, RawMapIInv
<1>4. ASSUME NEW s \in Sources, EraseSource(s) PROVE IInv'
  <2>1. \A f \in Files : index[f] \in Maps /\ OneKeyEach(index[f])
    BY DEF TypeOK, Maps, OneKeyEach, KeysOf
  <2>2. \A f \in Files : /\ index'[f] \in Maps
                         /\ OneKeyEach(index'[f])
                         /\ Keys(index'[f]) = {t \in Keys(index[f]) : ~SameKey(s, t)}
    BY <1>4, <2>1, DropMap DEF EraseSource
  <2>3. TypeOK'
    <3>1. index' \in [Files -> [Sources -> Sources \cup {NoSource}]]
      BY <1>4, <2>2 DEF EraseSource, Maps
    <3>2. \A f \in Files : \A t, u \in KeysOf(f)' : SameKey(t, u) => t = u
      BY <2>2 DEF KeysOf, OneKeyEach
    <3> QED BY <1>4, <3>1, <3>2 DEF TypeOK, EraseSource
  <2>4. IndexSound'
    BY SMTT(30), <1>4, <2>2, TreeAssumption DEF IndexSound, EraseSource, KeysOf, SameKey
  <2>5. FoldersSound' /\ StreamsSound'
    BY <1>4 DEF EraseSource, FoldersSound, StreamsSound
  <2> QED BY <2>3, <2>4, <2>5
<1>5. ASSUME NEW d \in Folders, LookUp(d) PROVE IInv'
  <2>1. known' \subseteq Folders
    BY <1>5, TreeAssumption DEF LookUp, TypeOK
  <2> QED BY <1>5, <2>1 DEF LookUp, TypeOK, IndexSound, FoldersSound, StreamsSound, KeysOf
<1>6. ASSUME NEW f \in Files, NEW erase \in BOOLEAN, OpensOrThrows(f, erase) PROVE IInv'
  BY <1>6, OpensIInv
<1>7. ASSUME NEW f \in Files, OpenOutputFails(f) PROVE IInv'
  <2>1. /\ known' = known \cup Up[FolderOf[f]]
        /\ UNCHANGED <<registered, listed, index, disk, streams>>
    BY <1>7 DEF OpenOutputFails
  <2>2. /\ known' \subseteq Folders
        /\ names' \in [Folders -> SUBSET Sources]
        /\ dirs' \in [Sources -> SUBSET Folders]
        /\ \A d \in Folders : names[d] \subseteq names'[d]
        /\ FoldersSound'
    <3>1. CASE UNCHANGED <<names, dirs>>
      BY <2>1, <3>1, TreeAssumption DEF TypeOK, FoldersSound
    <3>2. CASE \E s \in Sources : \E made \in SUBSET Folders :
                 /\ Routes(s, f, made) \/ RouteBreaks(s, f, made)
                 /\ MakeFolders(s, made)
      BY <2>1, <3>2, MakeFoldersSound
    <3> QED BY <1>7, <3>1, <3>2 DEF OpenOutputFails
  <2> QED BY <2>1, <2>2, TreeAssumption DEF TypeOK, IndexSound, StreamsSound, KeysOf
<1>8. ASSUME NEW s \in Sources, NEW f \in Files, NEW v \in Versions, WriteStream(s, f, v) PROVE IInv'
  <2>1. /\ disk' \in [Sources -> [Files -> Content \cup {Missing}]]
        /\ \A t \in Sources, g \in Files : disk[t][g] # Missing => disk'[t][g] # Missing
    BY <1>8, ContentAssumption DEF WriteStream, TypeOK, Content
  <2>2. \A g \in Files : KeysOf(g) \subseteq Sources
    BY DEF KeysOf, Keys
  <2> QED BY <1>8, <2>1, <2>2 DEF WriteStream, TypeOK, IndexSound, FoldersSound, StreamsSound, KeysOf
<1>9. ASSUME NEW s \in Sources, NEW f \in Files, CloseStream(s, f) PROVE IInv'
  BY <1>9 DEF CloseStream, TypeOK, IndexSound, FoldersSound, StreamsSound, KeysOf
<1>10. CASE UNCHANGED vars
  BY <1>10 DEF vars, TypeOK, IndexSound, FoldersSound, StreamsSound, KeysOf
<1> QED BY <1>1, <1>2, <1>3, <1>4, <1>5, <1>6, <1>7, <1>8, <1>9, <1>10 DEF Next, OpensOrThrows

\* The invariant holds in every reachable state, whatever the tree and the
\* sort numbers, equal ones included.
THEOREM Invariance == Spec => []IInv
<1>1. Init => IInv
  BY InitIInv
<1>2. IInv /\ [Next]_vars => IInv'
  BY NextIInv
<1> QED BY <1>1, <1>2, PTL DEF Spec

\* The state is well typed, and a file's map has one key per sort number: no
\* order of mapping, erasing and writing enters a source twice.
THEOREM TypeCorrect == Spec => []TypeOK
<1>1. IInv => TypeOK
  BY DEF IInv
<1> QED BY <1>1, Invariance, PTL

\* Opening a file never follows a freed _DataSource, nor looks for a file or a
\* folder that its source does not have (_OpenFile).
THEOREM IndexSafe == Spec => []IndexSound
<1>1. IInv => IndexSound
  BY DEF IInv
<1> QED BY <1>1, Invariance, PTL

\* Every path in a folder's map leads to a folder of a registered source, also
\* when mapping was interrupted or an output stream failed half way.
THEOREM FoldersSafe == Spec => []FoldersSound
<1>1. IInv => FoldersSound
  BY DEF IInv
<1> QED BY <1>1, Invariance, PTL

-----------------------------------------------------------------------------
(* What is written, and where *)

\* A sort number within the bound is not beyond it.
LEMMA Within ==
    ASSUME NEW s \in Sources, Sort[s] <= OutputLimit
    PROVE  ~(Sort[s] > OutputLimit)
<1>1. Sort[s] \in Nat
  BY SourceAssumption
<1> QED BY <1>1 DEF OutputLimit

\* The data folders of required mods, of the engine and of the archives are
\* never written to, although the former are registered as default outputs:
\* the bound on the sort number is enough, because a stream is only ever open
\* on a source within it (StreamsSound).
THEOREM WritesStayInMod == Spec => OwnModOnly
<1> DEFINE Spared(s) == Sort[s] > OutputLimit => disk'[s] = disk[s] /\ dirs'[s] = dirs[s]
<1>1. ASSUME IInv, [Next]_vars, NEW s \in Sources PROVE Spared(s)
  <2> USE DEF IInv
  <2>1. ASSUME NEW r \in Sources, Register(r) \/ MapSource(r) \/ MapSourceFails(r) \/ EraseSource(r)
        PROVE  Spared(s)
    BY <2>1 DEF Register, MapSource, MapSourceFails, RawMap, EraseSource
  <2>2. ASSUME NEW d \in Folders, LookUp(d) PROVE Spared(s)
    BY <2>2 DEF LookUp
  <2>3. ASSUME NEW f \in Files, NEW erase \in BOOLEAN, OpensOrThrows(f, erase)
        PROVE  Spared(s)
    <3>1. PICK r \in Sources, made \in SUBSET Folders :
             /\ Routes(r, f, made)
             /\ MakeFolders(r, made)
             /\ disk' = [disk EXCEPT ![r][f] = IF erase \/ @ = Missing THEN Empty ELSE @]
      BY <2>3, Opening DEF Opens, StoreOpens
    <3>2. Sort[r] <= OutputLimit
      BY <1>1, <3>1, RouteSound
    <3>3. CASE s = r
      BY <3>2, <3>3, Within
    <3>4. CASE s # r
      BY <1>1, <3>1, <3>4 DEF MakeFolders, TypeOK
    <3> QED BY <3>3, <3>4
  <2>4. ASSUME NEW f \in Files, OpenOutputFails(f) PROVE Spared(s)
    <3>1. disk' = disk
      BY <2>4 DEF OpenOutputFails
    <3>2. CASE UNCHANGED <<names, dirs>>
      BY <3>1, <3>2
    <3>3. ASSUME NEW r \in Sources, NEW made \in SUBSET Folders,
                 Routes(r, f, made) \/ RouteBreaks(r, f, made), MakeFolders(r, made)
          PROVE  Spared(s)
      <4>1. Sort[r] <= OutputLimit
        BY <1>1, <3>3, RouteSound
      <4> QED BY <3>1, <3>3, <4>1, Within, <1>1 DEF MakeFolders, TypeOK
    <3> QED BY <2>4, <3>2, <3>3 DEF OpenOutputFails
  <2>5. ASSUME NEW r \in Sources, NEW f \in Files, NEW v \in Versions, WriteStream(r, f, v)
        PROVE  Spared(s)
    <3>1. Sort[r] <= OutputLimit
      BY <1>1, <2>5 DEF WriteStream, StreamsSound
    <3> QED BY <2>5, <3>1, Within, <1>1 DEF WriteStream, TypeOK
  <2>6. ASSUME NEW r \in Sources, NEW f \in Files, CloseStream(r, f) PROVE Spared(s)
    BY <2>6 DEF CloseStream
  <2>7. CASE UNCHANGED vars
    BY <2>7 DEF vars
  <2> QED BY <1>1, <2>1, <2>2, <2>3, <2>4, <2>5, <2>6, <2>7 DEF Next, OpensOrThrows
<1>2. IInv /\ [Next]_vars
        => [\A s \in Sources : Sort[s] > OutputLimit => disk'[s] = disk[s] /\ dirs'[s] = dirs[s]]_vars
  BY <1>1
<1> QED BY <1>2, Invariance, PTL DEF Spec, OwnModOnly

-----------------------------------------------------------------------------
(* Reading what was written *)

\* Data folders of the mod being edited that have one sort number are outputs
\* together: _DoLoadFolder registers all of them as writable.
OutputsAlike ==
    \A s, t \in Sources :
        SameKey(s, t) /\ Sort[s] <= OutputLimit /\ s \in DefaultOutput
        => t \in Writable \cup DefaultOutput

\* A source that is chosen for a file is one of its keys, or no key equals it.
LEMMA ChosenIsNew ==
    ASSUME OutputsAlike, IInv, NEW s \in Sources, NEW f \in Files, NEW made, Routes(s, f, made)
    PROVE  s \in KeysOf(f) \/ \A t \in KeysOf(f) : ~SameKey(s, t)
<1>1. CASE s \in TopOutputs(f)
  BY <1>1 DEF TopOutputs, IsTop
<1>2. ASSUME TopOutputs(f) = {}, NEW d \in Folders, s \in FolderOutputs(d, f),
             NEW t \in KeysOf(f), SameKey(s, t)
      PROVE  FALSE
  <2>1. s \in DefaultOutput /\ Sort[s] <= OutputLimit /\ \A u \in KeysOf(f) : Sort[s] <= Sort[u]
    BY <1>2 DEF FolderOutputs, Suits
  <2>2. t \in Sources /\ Sort[t] = Sort[s]
    BY <1>2 DEF SameKey, KeysOf, Keys
  <2>3. t \in Writable \cup DefaultOutput
    BY <1>2, <2>1, <2>2 DEF OutputsAlike
  <2>4. t \in TopOutputs(f)
    BY <1>2, <2>1, <2>2, <2>3, SourceAssumption DEF TopOutputs, IsTop
  <2> QED BY <1>2, <2>4
<1> QED BY <1>1, <1>2 DEF Routes

\* An output stream is opened on the file that readers are given from then on,
\* sources of equal sort numbers included, as long as they are outputs alike.
THEOREM WritesAreRead == ASSUME OutputsAlike PROVE Spec => ReadYourWrites
<1> DEFINE Opened(s, f) == <<s, f>> \in streams' \ streams /\ s \notin PureOutput
<1>1. ASSUME IInv, [Next]_vars, NEW s \in Sources, NEW f \in Files, Opened(s, f)
      PROVE  ReadFrom(s, f)'
  <2>1. PICK g \in Files, erase \in BOOLEAN : OpenOutputStream(g, erase)
    BY <1>1 DEF Next, vars, Register, MapSource, MapSourceFails, RawMap, EraseSource, LookUp,
                OpenOutputFails, OpenOutputUntimed, WriteStream, CloseStream
  <2>2. PICK r \in Sources, made \in SUBSET Folders :
          /\ Routes(r, g, made)
          /\ MakeFolders(r, made)
          /\ index' = [index EXCEPT ![g] = Enter(@, r)]
          /\ streams' = streams \cup {<<r, g>>}
    BY <2>1 DEF OpenOutputStream
  <2>3. r = s /\ g = f
    BY <1>1, <2>2
  <2>4. index[f] \in Maps /\ OneKeyEach(index[f])
    BY <1>1 DEF IInv, TypeOK, Maps, OneKeyEach, KeysOf
  <2>5. index'[f] = Put(index[f], s)
    BY <1>1, <2>2, <2>3 DEF IInv, TypeOK, Enter
  <2>6. s \in KeysOf(f)'
    BY <1>1, <2>2, <2>3, <2>4, <2>5, PutMap, ChosenIsNew DEF KeysOf
  <2>7. KeysOf(f)' \subseteq KeysOf(f) \cup {s}
    BY <2>4, <2>5, PutMap DEF KeysOf
  <2>8. /\ \A t \in KeysOf(f) : Sort[s] <= Sort[t]
        /\ FolderOf[f] \in made \/ s \in names[FolderOf[f]]
    BY <1>1, <2>2, <2>3, RouteSound
  <2>9. s \in names'[FolderOf[f]]
    BY <1>1, <2>2, <2>3, <2>8, TreeAssumption DEF IInv, TypeOK, MakeFolders
  <2>10. \A t \in KeysOf(f)' : Sort[s] <= Sort[t]
    BY <2>7, <2>8, SourceAssumption
  <2> QED BY <2>6, <2>9, <2>10 DEF ReadFrom, IsTop
<1>2. IInv /\ [Next]_vars
        => [\A s \in Sources, f \in Files :
              <<s, f>> \in streams' \ streams /\ s \notin PureOutput => ReadFrom(s, f)']_vars
  BY <1>1
<1> QED BY <1>2, Invariance, PTL DEF Spec, ReadYourWrites

\* A source that a map does not gain is no key of it.
LEMMA StepHidden == ASSUME IInv, PureOutputHidden, [Next]_vars PROVE PureOutputHidden'
<1> USE DEF PureOutputHidden
<1>1. \A f \in Files : index[f] \in Maps /\ OneKeyEach(index[f])
  BY DEF IInv, TypeOK, Maps, OneKeyEach, KeysOf
<1>2. \A s \in Sources, f \in Files :
        Keys(Enter(index[f], s)) \cap PureOutput \subseteq Keys(index[f])
  <2> TAKE s \in Sources, f \in Files
  <2>1. CASE s \in PureOutput
    BY <2>1 DEF Enter
  <2>2. CASE s \notin PureOutput
    BY <1>1, <2>2, EnterMap
  <2> QED BY <2>1, <2>2
<1>3. \A s \in Sources, f \in Files : Keys(Drop(index[f], s)) \subseteq Keys(index[f])
  BY <1>1, DropMap
<1>4. ASSUME NEW s \in Sources, MapSource(s) \/ MapSourceFails(s) PROVE PureOutputHidden'
  <2>1. \A f \in Files : index'[f] = index[f] \/ index'[f] = Enter(index[f], s)
    BY <1>4 DEF MapSource, MapSourceFails, RawMap
  <2> QED BY <1>2, <2>1 DEF KeysOf
<1>5. ASSUME NEW s \in Sources, EraseSource(s) PROVE PureOutputHidden'
  BY <1>3, <1>5 DEF EraseSource, KeysOf
<1>6. ASSUME NEW f \in Files, NEW erase \in BOOLEAN, OpensOrThrows(f, erase)
      PROVE  PureOutputHidden'
  <2>1. PICK s \in Sources : index' \in {index, [index EXCEPT ![f] = Enter(@, s)]}
    BY <1>6, Opening DEF Opens
  <2>2. \A g \in Files : index'[g] = index[g] \/ index'[g] = Enter(index[g], s)
    BY <2>1 DEF IInv, TypeOK
  <2> QED BY <1>2, <2>2 DEF KeysOf
<1>7. CASE UNCHANGED index
  BY <1>7 DEF KeysOf
<1> QED BY <1>4, <1>5, <1>6, <1>7 DEF Next, vars, Register, LookUp, OpenOutputFails, OpensOrThrows, WriteStream, CloseStream

\* A pure-output source never serves a read, whatever is registered beside it
\* and in whatever order it is mapped, written to and erased.
THEOREM PureOutputNeverRead == Spec => []PureOutputHidden
<1>1. Init => PureOutputHidden
  BY DEF Init, PureOutputHidden, KeysOf, Keys
<1>2. IInv /\ PureOutputHidden /\ [Next]_vars => PureOutputHidden'
  BY StepHidden
<1> QED BY <1>1, <1>2, Invariance, PTL DEF Spec

\* A stream that does not erase continues the file readers see, from whichever
\* source, of equal sort numbers or not; any other shows nothing yet.
THEOREM StreamsContinue == Spec => ContinuesWhatIsRead
<1>1. ASSUME IInv, [Next]_vars, NEW s \in Sources, NEW t \in Sources, NEW f \in Files,
             <<s, f>> \in streams' \ streams, ReadFrom(t, f)
      PROVE  disk'[s][f] = Empty \/ (t = s /\ disk'[s][f] = disk[t][f])
  <2>1. PICK g \in Files, erase \in BOOLEAN : OpenOutputStream(g, erase)
    BY <1>1 DEF Next, vars, Register, MapSource, MapSourceFails, RawMap, EraseSource, LookUp,
                OpenOutputFails, OpenOutputUntimed, WriteStream, CloseStream
  <2>2. PICK r \in Sources :
          /\ MayOpen(r, g, erase)
          /\ disk' = [disk EXCEPT ![r][g] = IF erase \/ @ = Missing THEN Empty ELSE @]
          /\ streams' = streams \cup {<<r, g>>}
    BY <2>1 DEF OpenOutputStream, StoreOpens
  <2>3. r = s /\ g = f
    BY <1>1, <2>2
  <2>4. disk'[s][f] = IF erase \/ disk[s][f] = Missing THEN Empty ELSE disk[s][f]
    BY <1>1, <2>2, <2>3 DEF IInv, TypeOK
  <2>5. CASE erase
    BY <2>4, <2>5
  <2>6. CASE ~erase
    <3>1. t \in KeysOf(f) /\ IsTop(t, f)
      BY <1>1 DEF ReadFrom, IsTop
    <3>2. IsTop(s, f)
      BY <2>2, <2>3, <2>6, <3>1 DEF MayOpen
    <3>3. SameKey(s, t)
      BY <3>1, <3>2, SourceAssumption DEF IsTop, SameKey
    <3>4. s = t
      BY <1>1, <3>1, <3>2, <3>3 DEF IInv, TypeOK, IsTop
    <3> QED BY <2>4, <3>4
  <2> QED BY <2>5, <2>6
<1>2. IInv /\ [Next]_vars
        => [\A s \in Sources, f \in Files : \A t \in Sources :
              /\ <<s, f>> \in streams' \ streams
              /\ ReadFrom(t, f)
              => disk'[s][f] = Empty \/ (t = s /\ disk'[s][f] = disk[t][f])]_vars
  BY <1>1
<1> QED BY <1>2, Invariance, PTL DEF Spec, ContinuesWhatIsRead

\* What a step may do to a file's map when no two sources share a number: it
\* keeps the sources that stay registered, and gains one at most.
LEMMA StepMaps ==
    ASSUME DistinctSort, IInv, [Next]_vars, NEW f \in Files, NEW s \in KeysOf(f), s \in registered'
    PROVE  s \in KeysOf(f)' /\ \E r \in Sources : KeysOf(f)' \subseteq KeysOf(f) \cup {r}
<1>1. index[f] \in Maps /\ OneKeyEach(index[f]) /\ s \in Sources
  BY DEF IInv, TypeOK, Maps, OneKeyEach, KeysOf, Keys
<1> DEFINE Good == s \in KeysOf(f)' /\ \E r \in Sources : KeysOf(f)' \subseteq KeysOf(f) \cup {r}
<1>2. ASSUME NEW r \in Sources, index'[f] = index[f] \/ index'[f] = Enter(index[f], r) PROVE Good
  BY <1>1, <1>2, EnterMap DEF KeysOf
<1>3. ASSUME NEW r \in Sources, MapSource(r) \/ MapSourceFails(r) PROVE Good
  <2>1. index'[f] = index[f] \/ index'[f] = Enter(index[f], r)
    BY <1>3 DEF MapSource, MapSourceFails, RawMap
  <2> QED BY <1>2, <2>1
<1>4. ASSUME NEW r \in Sources, EraseSource(r) PROVE Good
  <2>1. index'[f] = Drop(index[f], r) /\ r # s
    BY <1>4 DEF EraseSource
  <2>2. KeysOf(f)' = {t \in KeysOf(f) : ~SameKey(r, t)}
    BY <1>1, <2>1, DropMap DEF KeysOf
  <2> QED BY <1>1, <2>1, <2>2 DEF DistinctSort
<1>5. ASSUME NEW g \in Files, NEW erase \in BOOLEAN, OpensOrThrows(g, erase) PROVE Good
  <2>1. PICK r \in Sources : index' \in {index, [index EXCEPT ![g] = Enter(@, r)]}
    BY <1>5, Opening DEF Opens
  <2>2. index'[f] = index[f] \/ index'[f] = Enter(index[f], r)
    BY <2>1 DEF IInv, TypeOK
  <2> QED BY <1>2, <2>2
<1>6. CASE UNCHANGED index
  BY <1>1, <1>2, <1>6
<1> QED BY <1>3, <1>4, <1>5, <1>6 DEF Next, vars, Register, LookUp, OpenOutputFails, OpensOrThrows, WriteStream, CloseStream

\* While a source is registered, a file it serves is served by it or by one in
\* front of it, when no two sources share a sort number: no mapping, erasing,
\* failing or writing uncovers an older version.
THEOREM NothingFallsBack == ASSUME DistinctSort PROVE Spec => NeverFallsBack
<1>1. ASSUME IInv, IInv', [Next]_vars, NEW f \in Files, NEW s \in registered \cap registered',
             ReadFrom(s, f)
      PROVE  \E t \in Sources : ReadFrom(t, f)' /\ Sort[t] <= Sort[s]
  <2>1. s \in Sources /\ s \in KeysOf(f) /\ \A t \in KeysOf(f) : Sort[s] <= Sort[t]
    BY <1>1 DEF ReadFrom, IsTop, KeysOf, Keys
  <2>2. PICK r \in Sources : s \in KeysOf(f)' /\ KeysOf(f)' \subseteq KeysOf(f) \cup {r}
    BY <1>1, <2>1, StepMaps
  <2>3. \A t \in KeysOf(f)' : t \in names'[FolderOf[f]]
    BY <1>1 DEF IInv, IndexSound
  <2>4. CASE r \in KeysOf(f)' /\ Sort[r] < Sort[s]
    <3>1. \A t \in KeysOf(f)' : Sort[r] <= Sort[t]
      <4>1. \A t \in KeysOf(f)' : t \in Sources
        BY DEF KeysOf, Keys
      <4> QED BY <2>1, <2>2, <2>4, <4>1, SourceAssumption
    <3> QED BY <2>1, <2>3, <2>4, <3>1, SourceAssumption DEF ReadFrom, IsTop
  <2>5. CASE ~(r \in KeysOf(f)' /\ Sort[r] < Sort[s])
    <3>1. \A t \in KeysOf(f)' : Sort[s] <= Sort[t]
      BY <2>1, <2>2, <2>5, SourceAssumption
    <3>2. ReadFrom(s, f)'
      BY <2>2, <2>3, <3>1 DEF ReadFrom, IsTop
    <3> QED BY <2>1, <3>2, SourceAssumption
  <2> QED BY <2>4, <2>5
<1>2. IInv /\ IInv' /\ [Next]_vars
        => [\A f \in Files : \A s \in registered \cap registered' :
              ReadFrom(s, f) => \E t \in Sources : ReadFrom(t, f)' /\ Sort[t] <= Sort[s]]_vars
  BY <1>1
<1> QED BY <1>2, Invariance, PTL DEF Spec, NeverFallsBack

-----------------------------------------------------------------------------
(* The map of maps is a stack of layers *)

\* Where no two sources share a number, a map's operations touch one key.
LEMMA OneKeyOps ==
    ASSUME DistinctSort, NEW map \in Maps, NEW s \in Sources
    PROVE  /\ Put(map, s) = [map EXCEPT ![s] = s]
           /\ Drop(map, s) = [map EXCEPT ![s] = NoSource]
<1>1. Drop(map, s) = [map EXCEPT ![s] = NoSource]
  <2>1. \A t \in Sources : SameKey(s, t) <=> t = s
    BY DEF DistinctSort, SameKey
  <2> QED BY <2>1 DEF Drop, Maps
<1>2. Put(map, s) = [map EXCEPT ![s] = s]
  <2> DEFINE equal == {t \in Keys(map) : SameKey(s, t)}
  <2>1. (IF equal = {} THEN {s} ELSE equal) = {s}
    BY DEF DistinctSort, SameKey, Keys
  <2>2. Put(map, s) = [t \in Sources |-> IF t \in {s} THEN s ELSE map[t]]
    BY <2>1 DEF Put
  <2> QED BY <2>2 DEF Maps
<1> QED BY <1>1, <1>2

\* What a step that leaves the files of the disk alone does to the layers.
LEMMA SameDisk ==
    ASSUME IInv, UNCHANGED disk, NEW s \in Sources,
           index' \in [Files -> Maps],
           \A f \in Files, t \in Sources \ {s} : index'[f][t] = index[f][t]
    PROVE  Contribution' = [Contribution EXCEPT ![s] = Contribution'[s]]
<1>1. ASSUME NEW t \in Sources, t # s PROVE Contribution'[t] = Contribution[t]
  <2>1. \A f \in Files : disk'[t][f] = disk[t][f] /\ index'[f][t] = index[f][t]
    BY <1>1
  <2> QED BY <2>1 DEF Contribution
<1>2. /\ Contribution = [t \in Sources |-> Contribution[t]]
      /\ Contribution' = [t \in Sources |-> Contribution'[t]]
  BY DEF Contribution
<1> DEFINE held == Contribution
           next == Contribution'
<1>3. /\ held = [t \in Sources |-> held[t]] /\ next = [t \in Sources |-> next[t]]
      /\ \A t \in Sources : t # s => next[t] = held[t]
  BY <1>1, <1>2
<1> HIDE DEF held, next
<1>4. next = [held EXCEPT ![s] = next[s]]
  BY <1>3
<1> QED BY <1>4 DEF held, next

\* An empty map is a stack of empty layers.
LEMMA InitOverlay == Init => O!Init
BY DEF Init, O!Init, Contribution

\* Mapping a source attaches a layer, erasing it detaches it, opening and writing
\* a file change the topmost layer that can be written, and nothing else changes.
LEMMA StepOverlay ==
    ASSUME DistinctSort, IInv, IInv', PureOutputHidden, [Next]_vars
    PROVE  [O!Next]_Contribution
<1> DEFINE Layers == [O!Next]_Contribution
           Held == [Files -> Content \cup {Missing}]
<1>1. /\ index \in [Files -> Maps] /\ index' \in [Files -> Maps]
      /\ \A s \in Sources, f \in Files : index[f][s] # NoSource <=> s \in KeysOf(f)
      /\ Contribution \in [Sources -> Held] /\ Contribution' \in [Sources -> Held]
  BY DEF IInv, TypeOK, Maps, KeysOf, Keys, Contribution
<1>2. CASE UNCHANGED <<index, disk>>
  BY <1>2 DEF Contribution
<1>3. ASSUME NEW s \in Sources, MapSource(s) \/ MapSourceFails(s) PROVE Layers
  <2>1. \A f \in Files : index[f][s] = NoSource
    BY <1>1, <1>3, TreeAssumption DEF MapSource, MapSourceFails, Mappable, IInv, IndexSound
  <2>2. \A f \in Files : index'[f] = index[f] \/ index'[f] = [index[f] EXCEPT ![s] = s]
    <3>1. \A f \in Files : index'[f] = index[f] \/ index'[f] = Enter(index[f], s)
      BY <1>3 DEF MapSource, MapSourceFails, RawMap
    <3>2. \A f \in Files : Enter(index[f], s) = index[f] \/ Enter(index[f], s) = [index[f] EXCEPT ![s] = s]
      BY <1>1, OneKeyOps DEF Enter
    <3> QED BY <3>1, <3>2
  <2>3. UNCHANGED disk
    BY <1>3 DEF MapSource, MapSourceFails, RawMap
  <2>4. \A f \in Files, t \in Sources \ {s} : index'[f][t] = index[f][t]
    BY SMTT(30), <1>1, <2>2 DEF Maps
  <2>5. Contribution' = [Contribution EXCEPT ![s] = Contribution'[s]]
    BY <1>1, <2>3, <2>4, SameDisk
  <2>6. \A f \in Files : Contribution[s][f] = Missing
    BY <2>1 DEF Contribution
  <2>7. O!Attach(s)
    BY <1>1, <2>5, <2>6 DEF O!Attach, O!Shows
  <2> QED BY <2>7 DEF O!Next
<1>4. ASSUME NEW s \in Sources, EraseSource(s) PROVE Layers
  <2>1. UNCHANGED disk /\ \A f \in Files : index'[f] = [index[f] EXCEPT ![s] = NoSource]
    BY <1>1, <1>4, OneKeyOps DEF EraseSource
  <2>2. \A f \in Files, t \in Sources \ {s} : index'[f][t] = index[f][t]
    BY <1>1, <2>1 DEF Maps
  <2>3. \A f \in Files : index'[f][s] = NoSource
    BY <1>1, <2>1 DEF Maps
  <2>4. Contribution'[s] = [f \in Files |-> Missing]
    BY <2>3 DEF Contribution
  <2>5. O!Detach(s)
    BY <1>1, <2>1, <2>2, <2>4, SameDisk DEF O!Detach
  <2> QED BY <2>5 DEF O!Next
<1>5. ASSUME NEW f \in Files, NEW erase \in BOOLEAN, OpensOrThrows(f, erase) PROVE Layers
  <2>1. PICK s \in Sources, made \in SUBSET Folders :
          /\ Routes(s, f, made)
          /\ disk' = [disk EXCEPT ![s][f] = IF erase \/ @ = Missing THEN Empty ELSE @]
          /\ index' \in {index, [index EXCEPT ![f] = Enter(@, s)]}
    BY <1>5, Opening DEF Opens, StoreOpens
  <2>2. Sort[s] <= OutputLimit /\ \A t \in KeysOf(f) : Sort[s] <= Sort[t]
    BY <2>1, RouteSound
  <2>3. \A t \in Sources, g \in Files : t # s \/ g # f => disk'[t][g] = disk[t][g]
    BY <2>1 DEF IInv, TypeOK
  <2>4. index' = index \/ index' = [index EXCEPT ![f] = [@ EXCEPT ![s] = s]]
    BY <1>1, <2>1, OneKeyOps DEF Enter
  <2>5. \A t \in Sources, g \in Files : t # s \/ g # f => index'[g][t] = index[g][t]
    BY <1>1, <2>4 DEF Maps
  <2>6. \A t \in Sources, g \in Files : t # s \/ g # f => Contribution'[t][g] = Contribution[t][g]
    BY <2>3, <2>5 DEF Contribution
  <2>7. CASE index'[f][s] = NoSource
    <3>1. index' = index
      BY <1>1, <2>4, <2>7, ContentAssumption DEF Maps
    <3> QED BY <1>1, <2>6, <2>7, <3>1 DEF Contribution
  <2>8. CASE index'[f][s] # NoSource
    <3>1. disk'[s][f] \in Content
      BY <2>1, ContentAssumption DEF IInv, TypeOK, Content
    <3>2. Contribution'[s][f] \in Content
      BY <2>8, <3>1 DEF Contribution
    <3>3. Contribution' = [Contribution EXCEPT ![s][f] = Contribution'[s][f]]
      BY <1>1, <2>6
    <3>4. \A t \in Sources : Contribution[t][f] # Missing => Sort[s] <= Sort[t]
      BY <1>1, <2>2 DEF Contribution
    <3>5. O!Publish(s, f)
      BY <2>2, <3>2, <3>3, <3>4 DEF O!Publish, O!Shows, O!Replace
    <3> QED BY <3>5 DEF O!Next
  <2> QED BY <2>7, <2>8
<1>6. ASSUME NEW s \in Sources, NEW f \in Files, NEW v \in Versions, WriteStream(s, f, v) PROVE Layers
  <2>1. Sort[s] <= OutputLimit /\ disk[s][f] # Missing
    BY <1>6 DEF WriteStream, IInv, StreamsSound
  <2>2. index' = index /\ disk' = [disk EXCEPT ![s][f] = v]
    BY <1>6 DEF WriteStream
  <2>3. \A t \in Sources, g \in Files : t # s \/ g # f => Contribution'[t][g] = Contribution[t][g]
    BY <2>2 DEF Contribution, IInv, TypeOK
  <2>4. CASE index[f][s] = NoSource
    <3>1. Contribution'[s][f] = Contribution[s][f]
      BY <2>2, <2>4 DEF Contribution
    <3> QED BY <1>1, <2>3, <3>1
  <2>5. CASE index[f][s] # NoSource
    <3>1. Contribution'[s][f] = v /\ Contribution[s][f] # Missing
      BY <2>1, <2>2, <2>5 DEF Contribution, IInv, TypeOK
    <3>2. Contribution' = [Contribution EXCEPT ![s][f] = v]
      BY <1>1, <2>3, <3>1
    <3>3. O!Amend(s, f)
      BY <2>1, <3>1, <3>2 DEF O!Amend, O!Shows, O!Replace, Content
    <3> QED BY <3>3 DEF O!Next
  <2> QED BY <2>4, <2>5
<1> QED BY <1>2, <1>3, <1>4, <1>5, <1>6 DEF Next, vars, Register, LookUp, OpenOutputFails, OpensOrThrows, CloseStream

\* When no two sources share a sort number, the file map implements Overlay: a
\* reader sees a stack of layers, and every operation attaches, detaches or
\* changes one of them.
THEOREM Refinement == ASSUME DistinctSort PROVE Spec => ImplementsOverlay
<1>1. IInv /\ IInv' /\ PureOutputHidden /\ [Next]_vars => [O!Next]_Contribution
  BY StepOverlay
<1> QED BY <1>1, InitOverlay, Invariance, PureOutputNeverRead, PTL DEF Spec, ImplementsOverlay, O!Spec
=============================================================================
