----------------------------- MODULE ModuleLoad -----------------------------
(***************************************************************************)
(* What a CModuleFile loads and owns, and who points into it: the folders  *)
(* and archives it registers with the file map, the required mods and      *)
(* engines that share its map, path and store, the texts (CUcsFile), the   *)
(* file tree and the tabs of UCS editors.                                  *)
(*                                                                         *)
(* A load goes through a list of things (`todo'); any of them may be       *)
(* missing or throw, which some of the code swallows and the rest does     *)
(* not.  Objects carry the number of their load, so that one that is freed *)
(* is never taken for its successor.  A module is named by its number in   *)
(* the file map.  CFileMap::MapSga does not throw: CSgaFile::Load has read *)
(* the tables it walks.                                                    *)
(***************************************************************************)
EXTENDS Integers, Sequences

CONSTANTS
    Kinds,        \* what may be opened
    Requireds,    \* the numbers of the RequiredMod lines
    DataSources,  \* a Company of Heroes mod's sections: numbers, and whether its own
    MaxMissing,   \* bound: how much a load does not find
    MaxLoads,     \* bound: loads and refreshes
    TabsMayStay   \* whether the mod is refreshed while UCS editors are open

AllKinds == {"DoW", "Early", "CoH", "sga2", "sga4"}
LineNumbers == 1..14999

\* Each line of a .module file has a number of its own, and the numbers of
\* required mods are below those of the engines.
LoadAssumption ==
    /\ Kinds \subseteq AllKinds
    /\ Requireds \in Seq(LineNumbers)
    /\ \A i, j \in DOMAIN Requireds : Requireds[i] = Requireds[j] => i = j
    /\ DataSources \in Seq([num : Nat, own : BOOLEAN])
    /\ MaxMissing \in Nat /\ MaxLoads \in Nat /\ TabsMayStay \in BOOLEAN

VARIABLES
    stage,    \* "closed", "loading", "open", or "ended": the program is gone
    kind,     \* m_eModuleType, or the version of an archive opened as a mod
    mods,     \* the CModuleFile objects that the open mod reaches
    sources,  \* what is registered with a file map
    todo,     \* what the load has not come to
    missing,  \* how much it has not found
    loads,    \* how many loads and refreshes there were
    heap,     \* the objects that are there
    twice,    \* the objects that were freed without being there
    tree,     \* the file map that the file tree shows
    tabs      \* the texts that UCS editors have open

vars == <<stage, kind, mods, sources, todo, missing, loads, heap, twice, tree, tabs>>

Own == 0
Other == 15000       \* another mod whose files a Company of Heroes mod loads itself
Engine == 30001
RelicOnline == 30000

-----------------------------------------------------------------------------
(* Objects and their ends *)

Obj(what, of, num) == [what |-> what, of |-> of, num |-> num, load |-> loads]
Null == [what |-> "null", of |-> 0, num |-> 0, load |-> 0]

\* A CModuleFile: whether m_pParentModule is set, the map it maps into, and the
\* archives, texts and modules that are its own.
Module(number, parent, map) ==
    [self |-> Obj("CModuleFile", number, 0), number |-> number, parent |-> parent, map |-> map,
     archives |-> {}, texts |-> {}, children |-> {}]

\* m_sApplicationPath, m_sLocale and m_pFSS, which children borrow.
Lent == {"path", "locale", "store"}
Store == CHOOSE o \in heap : o.what = "store"

\* Mutant: the parent is forgotten before the resources are cleaned.
ResourcesAnyway(f) == {f.map} \cup f.archives \cup f.texts

\* What _CleanResources deletes of a module, its children apart.
Resources(f) == (IF f.parent THEN {} ELSE {f.map}) \cup f.archives \cup f.texts

\* What ~CModuleFile deletes, its children apart.
Remains(f) ==
    Resources(f) \cup {f.self} \cup (IF f.parent THEN {} ELSE {o \in heap : o.what \in Lent})

\* What the mod deletes of its own, and what each of its children then deletes.
WithChildren(own) ==
    [m \in {Own} \cup mods[Own].children |-> IF m = Own THEN own ELSE Remains(mods[m])]

\* Every module of `freed' deletes what it has there; `new' is made.
Replace(freed, new) ==
    LET all == UNION {freed[m] : m \in DOMAIN freed}
    IN  /\ heap' = (heap \ all) \cup new
        /\ twice' = twice \cup (all \ heap)
                   \cup {o \in all : \E m, n \in DOMAIN freed : m # n /\ o \in freed[m] /\ o \in freed[n]}

Make(new) == heap' = heap \cup new /\ UNCHANGED twice

-----------------------------------------------------------------------------
(* What ReloadResources loads, and in which order *)

Item(op, of, num) == [op |-> op, of |-> of, num |-> num]

\* A Dawn of War mod with a locale folder, its Data folder and an archive; the
\* engine, which has no locale folder; a module of the early kind, as either
\* engine of Company of Heroes is.
DowItems(of) == <<Item("texts", of, 0), Item("folder", of, 15000), Item("output", of, 15001),
                  Item("archive", of, 15001)>>
EngineItems(of) == <<Item("texts", of, 0), Item("output", of, 15001), Item("archive", of, 15001)>>
EarlyItems(of) == <<Item("texts", of, 0), Item("output", of, 15000), Item("output", of, 15000),
                    Item("directory", of, 15000)>>

CohItems ==
    LET of(d) == IF d.own THEN Own ELSE Other
        folder(d) == Item(IF d.num < 2 THEN "output" ELSE "folder", of(d), 15000 + d.num)
        archive(d) == Item("archive", of(d), 15000 + 500 * d.num + 1)
    IN  <<Item("texts", Own, 0)>> \o [i \in DOMAIN DataSources |-> folder(DataSources[i])]
        \o [i \in DOMAIN DataSources |-> archive(DataSources[i])] \o <<Item("packs", Other, 15000)>>

\* Generic data is loaded whatever else is (1481).  An archive of version 2 that
\* is open as a mod stands in m_vArchives like those of a .module file.
ModItems(k) ==
    (CASE k = "DoW"   -> DowItems(Own)
                         \o [i \in DOMAIN Requireds |-> Item("required", 15000 + Requireds[i], 0)]
                         \o <<Item("engine", Engine, 0)>>
       [] k = "Early" -> EarlyItems(Own) \o <<Item("engine", Engine, 0), Item("engine", RelicOnline, 0)>>
       [] k = "CoH"   -> CohItems \o <<Item("engine", Engine, 0), Item("engine", RelicOnline, 0)>>
       [] k = "sga2"  -> <<Item("texts", Own, 0), Item("archive", Own, 15000), Item("engine", Engine, 0)>>
       [] k = "sga4"  -> <<Item("texts", Own, 0), Item("engine", Engine, 0), Item("engine", RelicOnline, 0)>>)
    \o <<Item("generic", Own, 99)>>

\* Without required mods and engines of their own.
ChildItems(i) ==
    (IF i.op = "required" THEN DowItems(i.of)
     ELSE IF kind \in {"DoW", "sga2"} THEN EngineItems(i.of) ELSE EarlyItems(i.of))
    \o <<Item("generic", i.of, 99)>>

Now == Head(todo)
Loader == IF Now.of = Other THEN Own ELSE Now.of

\* The number the source is registered under.
RegisteredAs(of) == IF of = Other THEN Other ELSE mods[of].number

Source(of, sga, num, store, output) ==
    [map |-> mods[Loader].map, of |-> of, mod |-> RegisteredAs(of), sga |-> sga, num |-> num,
     store |-> store, output |-> output,
     writable |-> sga = 0 /\ of # Other /\ ~mods[of].parent]

-----------------------------------------------------------------------------
(* The steps of a load *)

Loading(op) == stage = "loading" /\ todo # <<>> /\ Now.op = op
Go(next) == todo' = next /\ UNCHANGED <<stage, kind, loads, tree, tabs>>

\* Nothing is there and nobody minds: a folder that VIterate does not find, an
\* archive that VOpenStream does not open, a pack that does not load.
Pass ==
    /\ \E op \in {"texts", "folder", "output", "archive", "packs", "pack", "generic"} : Loading(op)
    /\ missing < MaxMissing /\ missing' = missing + 1
    /\ Go(Tail(todo)) /\ UNCHANGED <<mods, sources, heap, twice>>

\* CModuleFile_UcsForEach: one text.
LoadTexts ==
    /\ Loading("texts")
    /\ LET text == Obj("text", Now.of, 0)
       IN  mods' = [mods EXCEPT ![Now.of].texts = @ \cup {text}] /\ Make({text})
    /\ Go(Tail(todo)) /\ UNCHANGED <<sources, missing>>

\* _DoLoadFolder, which keeps the source if its walk throws.  The folder of
\* generic data may be inside a Company of Heroes mod or not.
LoadFolder ==
    /\ \E op \in {"folder", "output", "generic"} : Loading(op)
    /\ \E of \in {Now.of} \cup IF kind = "CoH" /\ Now.op = "generic" /\ Now.of = Own THEN {Other} ELSE {} :
          LET output == /\ of # Other
                        /\ Now.op = "output" \/ (Now.op = "generic" /\ ~mods[of].parent)
          IN  sources' = sources \cup {Source(of, 0, Now.num, Store, output)}
    /\ Go(Tail(todo)) /\ UNCHANGED <<mods, missing, heap, twice>>

\* _DoLoadArchive, for a module's list, a directory of archives or of packs.
LoadArchive ==
    /\ \E op \in {"archive", "pack"} : Loading(op)
    /\ LET archive == Obj("archive", Now.of, Now.num)
       IN  /\ sources' = sources \cup {Source(Now.of, 1, Now.num, archive, FALSE)}
           /\ mods' = [mods EXCEPT ![Loader].archives = @ \cup {archive}]
           /\ Make({archive})
    /\ Go(Tail(todo)) /\ UNCHANGED missing

\* Util_ForEach over a folder of archives, with one or none in it.
ListArchives ==
    /\ \E op \in {"directory", "packs"} : Loading(op)
    /\ LET each == Item(IF Now.op = "packs" THEN "pack" ELSE "archive", Now.of, Now.num)
       IN  Go(<<each>> \o Tail(todo)) \/ Go(Tail(todo))
    /\ UNCHANGED <<mods, sources, missing, heap, twice>>

\* Mutant: the child has its number only after it has loaded.
ChildUnnumbered(number) == [Module(number, TRUE, mods[Own].map) EXCEPT !.number = Own]

Child(number) == Module(number, TRUE, mods[Own].map)

\* A required mod whose .module file can be read, or an engine.
LoadChild ==
    /\ \E op \in {"required", "engine"} : Loading(op)
    /\ LET child == Child(Now.of)
           own == [mods[Own] EXCEPT !.children = @ \cup {Now.of}]
       IN  /\ mods' = [m \in DOMAIN mods \cup {Now.of} |->
                          IF m = Now.of THEN child ELSE IF m = Own THEN own ELSE mods[m]]
           /\ Make({child.self})
    /\ Go(ChildItems(Now) \o Tail(todo)) /\ UNCHANGED <<sources, missing>>

\* Something that is thrown leaves ReloadResources.  DoLoadMod deletes the mod;
\* CRefreshFilesTool::DoAction lets it through, and the program ends.  A required
\* mod that cannot be read is in no list yet and stays behind.
Throw ==
    /\ \E op \in {"texts", "archive", "directory", "required", "generic"} : Loading(op)
    /\ LET lost == IF Now.op = "required" THEN {Obj("unread", Now.of, 0)} ELSE {}
       IN  IF tree = Null
           THEN /\ stage' = "closed"
                /\ Replace(WithChildren(Remains(mods[Own])), lost)
                /\ mods' = <<>> /\ sources' = {}
           ELSE stage' = "ended" /\ Make(lost) /\ UNCHANGED <<mods, sources>>
    /\ todo' = <<>> /\ UNCHANGED <<kind, missing, loads, tree, tabs>>

\* SetModule after a load; after a refresh, FillFromIDirectoryTraverser.
Show ==
    /\ stage = "loading" /\ todo = <<>>
    /\ stage' = "open" /\ tree' = mods[Own].map
    /\ UNCHANGED <<kind, mods, sources, todo, missing, loads, heap, twice, tabs>>

-----------------------------------------------------------------------------
(* What the user does *)

\* DoLoadMod; DoLoadSga, which loads the archive at once and under number 0.
Open(k) ==
    /\ stage = "closed" /\ loads < MaxLoads
    /\ LET own == Module(Own, FALSE, Obj("map", Own, 0))
       IN  /\ mods' = [m \in {Own} |-> own]
           /\ heap' = heap \cup {own.self, own.map} \cup {Obj(what, Own, 0) : what \in Lent}
    /\ kind' = k /\ stage' = "loading" /\ missing' = 0 /\ loads' = loads + 1
    /\ todo' = IF k \in {"sga2", "sga4"} THEN <<Item("archive", Own, 0)>> ELSE ModItems(k)
    /\ UNCHANGED <<sources, twice, tree, tabs>>

\* Mutant: the map is kept, like the store.
CleanButTheMap == Resources(mods[Own]) \ {mods[Own].map}

\* _CleanResources of the mod, its children apart.
Clean == Resources(mods[Own])

\* CRefreshFilesTool::DoAction.
Refresh ==
    /\ stage = "open" /\ loads < MaxLoads
    /\ TabsMayStay \/ tabs = {}
    /\ LET map == IF mods[Own].map \in Clean THEN Obj("map", Own, 0) ELSE mods[Own].map
       IN  /\ Replace(WithChildren(Clean), {map})
           /\ mods' = [m \in {Own} |-> [mods[Own] EXCEPT !.map = map, !.archives = {}, !.texts = {},
                                                         !.children = {}]]
           /\ sources' = {s \in sources : s.map = map}
    /\ stage' = "loading" /\ todo' = ModItems(kind) /\ missing' = 0 /\ loads' = loads + 1
    /\ UNCHANGED <<kind, tree, tabs>>

\* CUcsTool: any text of the mod, its required mods and its engines.
OpenText ==
    /\ stage = "open"
    /\ \E m \in DOMAIN mods : \E t \in mods[m].texts \ tabs : tabs' = tabs \cup {t}
    /\ UNCHANGED <<stage, kind, mods, sources, todo, missing, loads, heap, twice, tree>>

CloseText ==
    /\ stage = "open"
    /\ \E t \in tabs : tabs' = tabs \ {t}
    /\ UNCHANGED <<stage, kind, mods, sources, todo, missing, loads, heap, twice, tree>>

\* SetModule(0): the tree and the tabs, then the mod.
CloseMod ==
    /\ stage = "open"
    /\ tree' = Null /\ tabs' = {}
    /\ Replace(WithChildren(Remains(mods[Own])), {})
    /\ mods' = <<>> /\ sources' = {} /\ stage' = "closed"
    /\ UNCHANGED <<kind, todo, missing, loads>>

Init ==
    /\ stage = "closed" /\ kind = "DoW" /\ mods = <<>> /\ sources = {} /\ todo = <<>>
    /\ missing = 0 /\ loads = 0 /\ heap = {} /\ twice = {} /\ tree = Null /\ tabs = {}

Next ==
    \/ Pass \/ LoadTexts \/ LoadFolder \/ LoadArchive \/ ListArchives \/ LoadChild \/ Throw \/ Show
    \/ \E k \in Kinds : Open(k)
    \/ Refresh \/ OpenText \/ CloseText \/ CloseMod

Spec == Init /\ [][Next]_vars

-----------------------------------------------------------------------------
\* Whoever can be asked for something finds it: a module its map and what it
\* owns, the map the stores of its sources, and, when the window can be used,
\* the tree its map and each UCS editor its text (SetModule, Construct.cpp:940;
\* _CleanResources; _DoLoadArchive, which deletes an archive that throws).
NothingDangles ==
    /\ \A m \in DOMAIN mods : {mods[m].self, mods[m].map} \cup mods[m].archives \cup mods[m].texts \subseteq heap
    /\ \A s \in sources : {s.map, s.store} \subseteq heap
    /\ stage = "open" => {tree} \cup tabs \subseteq heap

\* However a load ends, nothing is deleted twice, although the modules share
\* map, path, locale and store, and when the mod is closed all is gone that a
\* module had a pointer to (~CModuleFile, _Clean).
FreedOnce ==
    /\ twice = {}
    /\ stage = "closed" => \A o \in heap : o.what = "unread"

\* SetMod, SetSourceType and SetSourceNumber, whose bits do not overlap.
Sort(s) == <<s.mod % 32768, s.sga, s.num % 65536>>
Before(s, t) ==
    \E i \in 1..3 : Sort(s)[i] < Sort(t)[i] /\ \A j \in 1..(i - 1) : Sort(s)[j] = Sort(t)[j]

\* The sort numbers say what CFileMap takes from them: the mod's own sources are
\* in front of the required mods' in the order of their numbers, these in front
\* of the engines', a module's folders in front of its archives, and a default
\* output of mod 0 is a folder that may be written to (_DoLoadFolder,
\* ReloadResources; CFileMap::VOpenOutputStream).
InFront ==
    /\ \A s, t \in sources : s.of < t.of \/ (s.of = t.of /\ s.sga < t.sga) => Before(s, t)
    /\ \A s \in sources : s.output /\ s.mod = 0 => s.of = Own /\ s.writable
=============================================================================
