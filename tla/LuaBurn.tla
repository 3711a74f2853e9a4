------------------------------- MODULE LuaBurn -------------------------------
(***************************************************************************)
(* "Convert all LUAs in this folder to RGD": Lua files that inherit from   *)
(* one another are run one after the other, and the states of the files    *)
(* that were inherited are kept in a CLuaFileCache for those that inherit  *)
(* them next.                                                              *)
(*                                                                         *)
(* What Inherit returns is a copy of one level of the other file's         *)
(* GameData, whose tables are wrapped (tLuaTableProtector): a wrap shares  *)
(* the table until it is first indexed or written to, and then owns a copy *)
(* of one more level.                                                      *)
(*                                                                         *)
(* A file is its list of statements: what is assigned (a value, a new      *)
(* table, or what Inherit or Reference returns) at which path of GameData. *)
(***************************************************************************)
EXTENDS Integers, Sequences, FiniteSets, SequencesExt

CONSTANTS Files,       \* the Lua files, by the names Inherit is given
          Folder,      \* the files of the folder that is burnt, all of this mod
          Keys,        \* the keys of tables
          Values,      \* what is not a table
          Script,      \* Files -> the sequence of a file's statements
          Unreadable,  \* the files VOpenStream does not open
          Blank,       \* Inherit([[]]), which returns a new table; also: no name
          Nil,         \* no value
          Error,       \* what comes of a file that cannot be loaded
          ClearEvery,  \* the cache is cleared before every so many files (256)
          MaxDepth     \* how many loads the C stack holds

Statement == [at : Seq(Keys), is : Files \union {Blank} \union Values]

ASSUME BurnAssumption ==
  /\ Unreadable \subseteq Files /\ Folder \subseteq Files
  /\ Script \in [Files -> Seq(Statement)]
  /\ \A f \in Files : \A i \in DOMAIN Script[f] :
       Script[f][i].at = <<>> => Script[f][i].is \notin Values
  /\ Blank \notin Files
  /\ ClearEvery \in Nat \ {0} /\ MaxDepth \in Nat

VARIABLES heap,     \* the Lua tables, and what each has under every key
          states,   \* the entries of the CLuaFileCache, in their order
          made,     \* how many states have been made
          stack,    \* the loads in progress, the one that runs last (m_pRefQueue)
          left,     \* the files of the folder the walk has not been through
          newer,    \* the file whose RGD was found to be newer, or Blank
          burnt,    \* what was written for every file that was burnt
          thrown,   \* an exception has left the walk
          crashed   \* a nil was duplicated, or the C stack overflowed

vars == <<heap, states, made, stack, left, newer, burnt, thrown, crashed>>

-----------------------------------------------------------------------------
(***************************************************************************)
(* Tables.  What a table has under a key is a cell: a value, a table of    *)
(* its own, or a table that is shared until it is used.  A wrap is the     *)
(* cell that holds it: one that owns its table (iOwnIt) is used as the     *)
(* table would be.                                                         *)
(***************************************************************************)
Atom(v) == [is |-> "atom", of |-> v]
Own(t) == [is |-> "own", of |-> t]
Shared(t) == [is |-> "shared", of |-> t]

NewTable(h) == Append(h, [k \in Keys |-> Atom(Nil)])

\* Mutant: the flag of a wrap is copied with it.
WrappedAsIs(c) == c

Wrapped(c) == IF c.is = "atom" THEN c ELSE Shared(c.of)

\* The heap with a copy of table t, whose tables are wrapped anew.
SimpleTableDuplicate(h, t) == Append(h, [k \in Keys |-> Wrapped(h[t][k])])

\* Mutant: the table that is shared is written to.
TakenOver(h, t, k) == [h EXCEPT ![t][k] = Own(@.of)]

\* OnIndex, OnNewIndex: a wrap that is used owns a copy from then on.
Owned(h, t, k) ==
  IF h[t][k].is = "own" THEN h
  ELSE [SimpleTableDuplicate(h, h[t][k].of) EXCEPT ![t][k] = Own(Len(h) + 1)]

\* Where a key leads to, when that is a table: the heap and the table in it.
Used(at, k) ==
  {[heap |-> h, table |-> h[at.table][k].of] :
     h \in IF at.heap[at.table][k].is = "atom" THEN {} ELSE {Owned(at.heap, at.table, k)}}

\* The heap after an assignment at a path below table t, as the one element of
\* a set; the set is empty when the path leads through what is not a table.
Assigned(h, t, path, c) ==
  LET from[i \in 0..Len(path) - 1] ==
        IF i = 0 THEN {[heap |-> h, table |-> t]}
        ELSE UNION {Used(at, path[i]) : at \in from[i - 1]}
  IN {[at.heap EXCEPT ![at.table][Last(path)] = c] : at \in from[Len(path) - 1]}

\* What _LoadLua reads: the tables, whatever wraps are around them.
View(h, c) ==
  LET seen[t \in DOMAIN h] ==
        [k \in Keys |-> IF h[t][k].is = "atom" THEN h[t][k].of ELSE seen[h[t][k].of]]
  IN IF c.is = "atom" THEN c.of ELSE seen[c.of]

-----------------------------------------------------------------------------
(***************************************************************************)
(* Loads and the cache.                                                    *)
(***************************************************************************)
Running == Last(stack)
At(load) == Script[load.file][load.pc]
AtEnd(load) == load.pc > Len(Script[load.file])

\* The entry Fetch finds: the first that has the name.
Named(f) == {i \in DOMAIN states : states[i].name = f}
Fetch(f) == CHOOSE i \in Named(f) : \A j \in Named(f) : i <= j

MakeState(ss) == Append(ss, [L |-> made + 1, name |-> Blank, game |-> Atom(Nil)])
\* The entry of L is unlinked.
FreeState(L) == RemoveAt(states, CHOOSE i \in DOMAIN states : states[i].L = L)
AddToCache(load) ==
  [i \in DOMAIN states |->
     IF states[i].L = load.L THEN [states[i] EXCEPT !.name = load.file, !.game = load.game]
     ELSE states[i]]

Load(f) == [file |-> f, L |-> made + 1, pc |-> 1, game |-> Atom(Nil)]

Advanced(load) == [load EXCEPT !.pc = @ + 1]

\* Mutant: only the innermost load is looked at.
CircularNearest(f) == Len(stack) > 1 /\ Running.file = f

\* The file that is burnt is known by its path, so it is found only when it is
\* loaded again by name.
Circular(f) == \E i \in 2..Len(stack) : stack[i].file = f

\* An error leaves every load in progress and is shown for the file that is
\* burnt; the states that were made stay in the cache.
Fail ==
  /\ stack' = <<>>
  /\ burnt' = [burnt EXCEPT ![stack[1].file] = Error]

\* The load above `below' gets cell c by the statement it is at.
Receive(below, load, h, c) ==
  LET at == At(load).at
      game == IF at = <<>> THEN c ELSE load.game
      puts == CASE at = <<>> -> {h}
                [] at # <<>> /\ load.game.is = "atom" -> {}
                [] OTHER -> Assigned(h, load.game.of, at, c)
  IN \/ puts = {} /\ Fail /\ heap' = h
     \/ /\ heap' \in puts
        /\ stack' = Append(below, [Advanced(load) EXCEPT !.game = game])
        /\ UNCHANGED burnt

-----------------------------------------------------------------------------
Init ==
  /\ heap = <<>> /\ states = <<>> /\ made = 0 /\ stack = <<>>
  /\ left = Folder /\ newer = Blank /\ burnt = [f \in Folder |-> Blank]
  /\ thrown = FALSE /\ crashed = FALSE

\* The walk comes to file f, and clears the cache when it is due.
ClearDue == (Cardinality(Folder \ left) + 1) % ClearEvery = 0
Kept == IF ClearDue THEN <<>> ELSE states
Reach(f) ==
  /\ stack = <<>> /\ newer = Blank /\ ~thrown /\ ~crashed
  /\ f \in left
  /\ heap' = IF ClearDue THEN <<>> ELSE heap

Burn(f) ==
  /\ Reach(f) /\ f \notin Unreadable
  /\ left' = left \ {f}
  /\ states' = MakeState(Kept) /\ made' = made + 1
  /\ stack' = <<Load(f)>>
  /\ UNCHANGED <<newer, burnt, thrown, crashed>>

\* The time of the Lua file cannot be read, or the file cannot be opened: what is
\* thrown leaves the walk and its handler, whatever files are left.
Throw(f) ==
  /\ Reach(f)
  /\ states' = Kept /\ thrown' = TRUE
  /\ UNCHANGED <<made, stack, left, newer, burnt, crashed>>

FoundNewer(f) ==
  /\ Reach(f)
  /\ states' = Kept /\ newer' = f
  /\ UNCHANGED <<made, stack, left, burnt, thrown, crashed>>

\* Mutant: the label is behind the step to the next file.
SkipStays ==
  /\ newer # Blank /\ newer' = Blank
  /\ UNCHANGED <<heap, states, made, stack, left, burnt, thrown, crashed>>

\* The walk goes on behind a file whose RGD is newer.
Skip ==
  /\ newer # Blank
  /\ left' = left \ {newer} /\ newer' = Blank
  /\ UNCHANGED <<heap, states, made, stack, burnt, thrown, crashed>>

Step == stack # <<>> /\ ~crashed /\ UNCHANGED <<left, newer, thrown>>

\* A value, or the new table of Inherit([[]]), is assigned.
Literal ==
  /\ Step /\ ~AtEnd(Running) /\ At(Running).is \notin Files
  /\ LET new == At(Running).is = Blank
         h == IF new THEN NewTable(heap) ELSE heap
     IN Receive(Front(stack), Running, h, IF new THEN Own(Len(h)) ELSE Atom(At(Running).is))
  /\ UNCHANGED <<states, made, crashed>>

\* Inherit or Reference of a file whose state is in the cache.  What is
\* duplicated is not looked at: lua_next of a nil.
InheritCached(f) ==
  /\ Step /\ ~AtEnd(Running) /\ At(Running).is = f /\ Named(f) # {}
  /\ LET game == states[Fetch(f)].game
     IN /\ crashed' = (game = Atom(Nil))
        /\ IF crashed' THEN UNCHANGED <<heap, stack, burnt>>
           ELSE \E h \in {SimpleTableDuplicate(heap, game.of)} :
                  Receive(Front(stack), Running, h, Own(Len(h)))
  /\ UNCHANGED <<states, made>>

Uncached(f) == Step /\ ~AtEnd(Running) /\ At(Running).is = f /\ Named(f) = {}

InheritUnreadable(f) ==
  /\ Uncached(f) /\ f \in Unreadable
  /\ Fail /\ UNCHANGED <<heap, states, made, crashed>>

\* The file is loaded into a state of its own, which is made before the check
\* for circular references.
InheritLoad(f) ==
  /\ Uncached(f) /\ f \notin Unreadable
  /\ states' = MakeState(states) /\ made' = made + 1
  /\ IF Circular(f) THEN Fail /\ UNCHANGED crashed
     ELSE /\ crashed' = (Len(stack) = MaxDepth)
          /\ stack' = Append(stack, Load(f)) /\ UNCHANGED burnt
  /\ UNCHANGED heap

\* A file that was inherited is loaded: its state is named, and what it has is
\* duplicated for the load below.  It is named even when it has no GameData.
Inherited ==
  /\ Step /\ Len(stack) > 1 /\ AtEnd(Running)
  /\ states' = AddToCache(Running)
  /\ IF Running.game = Atom(Nil) THEN Fail /\ UNCHANGED heap
     ELSE \E h \in {SimpleTableDuplicate(heap, Running.game.of)} :
            Receive(Front(Front(stack)), Last(Front(stack)), h, Own(Len(h)))
  /\ UNCHANGED <<made, crashed>>

\* The file that is burnt is loaded: CRgdFile::Load reads its GameData, and its
\* state is freed.
Burnt ==
  /\ Step /\ Len(stack) = 1 /\ AtEnd(Running)
  /\ burnt' = [burnt EXCEPT ![Running.file] =
                 IF Running.game = Atom(Nil) THEN Error ELSE View(heap, Running.game)]
  /\ states' = FreeState(Running.L) /\ stack' = <<>>
  /\ UNCHANGED <<heap, made, crashed>>

Next ==
  \/ \E f \in Folder : Burn(f) \/ Throw(f) \/ FoundNewer(f)
  \/ Skip
  \/ Literal \/ Inherited \/ Burnt
  \/ \E f \in Files : InheritCached(f) \/ InheritUnreadable(f) \/ InheritLoad(f)

\* The walk and the loads are one loop of one handler: some step is taken as long
\* as there is one.  Only an exception leaves the loop early.
Spec == Init /\ [][Next]_vars /\ WF_vars(Next)

-----------------------------------------------------------------------------
\* The types.
TypeOK ==
  /\ left \subseteq Folder /\ newer \in Folder \union {Blank}
  /\ thrown \in BOOLEAN /\ crashed \in BOOLEAN
  /\ \A t \in DOMAIN heap, k \in Keys : heap[t][k].is # "atom" => heap[t][k].of \in DOMAIN heap
  /\ \A i \in DOMAIN stack :
       stack[i].file \in Files /\ stack[i].pc \in 1..Len(Script[stack[i].file]) + 1
  /\ \A i \in DOMAIN states : states[i].L \in 1..made /\ states[i].name \in Files \union {Blank}

\* No load follows a nil or runs out of stack: the check for circular
\* references ends every chain of files (CLuaFile::Load), and what is
\* duplicated is a table.
NeverCrashes == ~crashed

\* A table and those below it, as far down as they go.
OneDown(h, ts) ==
  ts \union {h[at[1]][at[2]].of : at \in {x \in ts \X Keys : h[x[1]][x[2]].is # "atom"}}
Below(h, c) ==
  LET down[i \in 0..Len(h)] ==
        IF i = 0 THEN {t \in DOMAIN h : c.is # "atom" /\ t = c.of} ELSE OneDown(h, down[i - 1])
  IN down[Len(h)]

StatesStay ==
  \A i \in DOMAIN states : \A j \in DOMAIN states' :
    states[i].name # Blank /\ states'[j].L = states[i].L =>
      /\ states'[j] = states[i]
      /\ \A t \in Below(heap, states[i].game) : t \in DOMAIN heap' /\ heap'[t] = heap[t]

\* Nothing that a state in the cache leads to is ever changed, whatever the files
\* that inherit it assign, until the cache is cleared (SimpleTableDuplicate,
\* OnIndex, OnNewIndex, CLuaFileCache::GameDataToStack).
CacheUntouched == [][StatesStay]_vars

\* The batch comes to its end: nothing is being loaded or skipped, and the walk
\* has been through every file unless an exception has left it, however many RGDs
\* are newer and whatever inherits itself (CLuaBurnFolderAction::Recurse,
\* CLuaFile::Load).
BatchEnds == <>(stack = <<>> /\ newer = Blank /\ (left = {} \/ thrown))
==============================================================================
