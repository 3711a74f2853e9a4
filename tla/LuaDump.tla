------------------------------- MODULE LuaDump -------------------------------
(***************************************************************************)
(* "Dump all RGDs in this folder to Lua": for each RGD a Lua file is       *)
(* written beside it that says only what differs from the files it refers  *)
(* to (Rainman/CLuaFromRgd.cpp, MakeLuaFromRgdAndNil).  These are read     *)
(* from the module, so a file that is dumped is read when the next one is. *)
(*                                                                         *)
(* A table has a reference and children; a child is an atom, a table or    *)
(* Absent.  A Lua file is its statements: what is assigned (an atom, nil   *)
(* or what Inherit or Reference returns) at which path of GameData.  No    *)
(* file refers to itself, or to one that does.                             *)
(***************************************************************************)
EXTENDS Sequences, SequencesExt

CONSTANTS Names,    \* the files, by what references call them
          Keys,     \* the keys of tables, in a sequence
          Atoms,    \* what is not a table
          Near,     \* atoms that are numbers less than 0.00001 apart
          Ucs,      \* atoms that a Lua file holds as strings, and an RGD does not
          Rgds,     \* the RGDs there may be: Names -> Roots -> a table
          Luas,     \* the Luas there may be before: Names -> Roots -> a Lua
          Absent,   \* no child; nil
          NoRef,    \* Inherit([[]]), Reference([[]])
          NoSuch,  \* no such file
          Broken    \* a file that cannot be loaded

Roots == {"attrib", "data"}

VARIABLES rgd, lua,  \* the files, by name and root folder
          dumped     \* what has become of the dump of each: "no", "good" or "failed"

vars == <<rgd, lua, dumped>>

IsTable(x) == x \notin Atoms \cup {Absent, NoSuch, Broken}
EmptyTable == [ref |-> NoRef, kids |-> [i \in DOMAIN Keys |-> Absent]]

-----------------------------------------------------------------------------
(***************************************************************************)
(* What a Lua file means: its statements one after the other.  That tables *)
(* are copied when they are used is for LuaBurn to show.                   *)
(***************************************************************************)
\* Table t after an assignment at a path below it.
RECURSIVE Put(_, _, _)
Put(t, path, x) ==
  IF path = <<>> THEN x
  ELSE IF t = Broken \/ ~IsTable(t) THEN Broken
  ELSE LET child == Put(t.kids[path[1]], Tail(path), x)
       IN IF child = Broken THEN Broken ELSE [t EXCEPT !.kids[path[1]] = child]

RECURSIVE GameData(_)

\* _Inherit: the GameData of the first Lua of that name, which remembers it.
Inherit(n) ==
  LET first == IF lua[n]["attrib"] # NoSuch THEN lua[n]["attrib"] ELSE lua[n]["data"]
      game == GameData(first)
  IN IF IsTable(game) THEN [game EXCEPT !.ref = n] ELSE Broken

\* The GameData of a Lua; Absent when it has none.
GameData(file) ==
  LET what(x) == IF x \in Atoms \cup {Absent} THEN x
                 ELSE IF x.inherit = NoRef THEN EmptyTable ELSE Inherit(x.inherit)
      run(g, s) == IF g = Broken \/ what(s.is) = Broken THEN Broken ELSE Put(g, s.at, what(s.is))
  IN IF file \in {NoSuch, Broken} THEN Broken ELSE FoldLeft(run, Absent, file)

-----------------------------------------------------------------------------
(***************************************************************************)
(* MakeLuaFromRgdAndNil_LoadTable: the table a reference stands for.       *)
(***************************************************************************)
NoTable == [table |-> EmptyTable, fromLua |-> FALSE]

\* The first RGD there is; Broken when it cannot be loaded.
LoadRgd(n, roots) ==
  LET there == SelectSeq(roots, LAMBDA p : rgd[n][p] # NoSuch)
  IN IF there = <<>> THEN NoTable ELSE [table |-> rgd[n][there[1]], fromLua |-> FALSE]

\* A Lua is taken before an RGD of the same root folder; when it cannot be
\* loaded the RGDs are looked at, and when it has no GameData nothing is.
LoadTable(n) ==
  LET fromLua(p) ==
        LET game == GameData(lua[n][p])
        IN IF game = Broken THEN LoadRgd(n, <<"attrib", "data">>)
           ELSE IF IsTable(game) THEN [table |-> game, fromLua |-> TRUE] ELSE NoTable
  IN CASE n = NoRef -> NoTable
       [] n # NoRef /\ lua[n]["attrib"] # NoSuch -> fromLua("attrib")
       [] n # NoRef /\ lua[n]["attrib"] = NoSuch /\ rgd[n]["attrib"] # NoSuch -> LoadRgd(n, <<"attrib">>)
       [] OTHER -> IF lua[n]["data"] # NoSuch THEN fromLua("data") ELSE LoadRgd(n, <<"data">>)

-----------------------------------------------------------------------------
(***************************************************************************)
(* MakeLuaFromRgdAndNil_Node: what is written for a node, and whether the  *)
(* writing got to its end.                                                 *)
(***************************************************************************)
Written(lines) == [lines |-> lines, ok |-> TRUE]
Then(out, more) == [lines |-> out.lines \o more.lines, ok |-> more.ok]

Alike(x, y) == x = y \/ {x, y} \subseteq Near

\* Whether the node's own value is written; a table's is its reference.
EchoVal(x, inh, fromLua) ==
  CASE IsTable(x) /\ IsTable(inh) -> x.ref # inh.ref
    [] x \in Atoms /\ inh \in Atoms -> ~Alike(x, inh) \/ (fromLua /\ x \in Ucs)
    [] OTHER -> TRUE

\* Mutant: children are compared with those of the table that is replaced.
InheritedAsBefore(x, inh, fromLua) ==
  IF EchoVal(x, inh, fromLua) /\ ~IsTable(inh) THEN LoadTable(x.ref)
  ELSE [table |-> inh, fromLua |-> fromLua]

\* The table that a table's children are compared with.
Inherited(x, inh, fromLua) ==
  IF EchoVal(x, inh, fromLua) THEN LoadTable(x.ref) ELSE [table |-> inh, fromLua |-> fromLua]

\* The children that the RGD has, then those it has not.
Children(x, inh) ==
  LET all == [i \in DOMAIN Keys |-> i]
  IN SelectSeq(all, LAMBDA i : x.kids[i] # Absent)
     \o SelectSeq(all, LAMBDA i : x.kids[i] = Absent /\ inh.kids[i] # Absent)

\* Node x, at a path, whose counterpart is inh.
RECURSIVE Node(_, _, _, _)
Node(path, x, inh, fromLua) ==
  LET line == <<[at |-> path, is |-> IF IsTable(x) THEN [inherit |-> x.ref] ELSE x]>>
      own == Written(IF EchoVal(x, inh, fromLua) THEN line ELSE <<>>)
      against == Inherited(x, inh, fromLua)
      child(out, i) ==
        IF ~out.ok THEN out
        ELSE Then(out, Node(Append(path, i), x.kids[i], against.table.kids[i], against.fromLua))
  IN CASE ~IsTable(x) -> own
       [] IsTable(x) /\ against.table = Broken -> [own EXCEPT !.ok = FALSE]
       [] OTHER -> FoldLeft(child, own, Children(x, against.table))

-----------------------------------------------------------------------------
Init ==
  /\ rgd \in Rgds /\ lua \in Luas
  /\ dumped = [n \in Names |-> [p \in Roots |-> "no"]]

\* DoConvert: the Lua is emptied, the RGD loaded, and what is written until an
\* error stays.
Dump(n, p) ==
  /\ rgd[n][p] # NoSuch
  /\ LET out == IF rgd[n][p] = Broken THEN [lines |-> <<>>, ok |-> FALSE]
                ELSE Node(<<>>, rgd[n][p], Absent, FALSE)
     IN /\ lua' = [lua EXCEPT ![n][p] = out.lines]
        /\ dumped' = [dumped EXCEPT ![n][p] = IF out.ok THEN "good" ELSE "failed"]
  /\ UNCHANGED rgd

Next == \E n \in Names, p \in Roots : Dump(n, p)

Spec == Init /\ [][Next]_vars

-----------------------------------------------------------------------------
\* What x and y have in common is all there is, but for numbers that are near.
RECURSIVE Matches(_, _)
Matches(x, y) ==
  IF IsTable(x) /\ IsTable(y)
  THEN x.ref = y.ref /\ \A i \in DOMAIN Keys : Matches(x.kids[i], y.kids[i])
  ELSE ~IsTable(x) /\ ~IsTable(y) /\ Alike(x, y)

\* The types.
TypeOK ==
  /\ rgd \in Rgds /\ dumped \in [Names -> [Roots -> {"no", "good", "failed"}]]
  /\ \A n \in Names, p \in Roots : dumped[n][p] # "no" => lua[n][p] \notin {NoSuch, Broken}

\* Once every dump has gone well, burning what was dumped gives the RGD back, or
\* an error, and that only when a file that is referred to has no Lua; whatever
\* was dumped in between, in whichever order, and read from whichever of a
\* file's variants (MakeLuaFromRgdAndNil, CLuaFile::_Inherit).  The variants of
\* a file mean the same before.
BurnsToTheSame ==
  \A n \in Names, p \in Roots :
    (dumped[n][p] = "good" /\ \A m \in Names, q \in Roots : dumped[m][q] # "failed") =>
      LET game == GameData(lua[n][p])
      IN \/ IsTable(game) /\ Matches(game, rgd[n][p])
         \/ game = Broken /\ \E m \in Names : Inherit(m) = Broken
==============================================================================
