---------------------------- MODULE MacroTables ----------------------------
(***************************************************************************)
(* What a macro does to the tables of an RGD (CRgdFileMacro).  A table of  *)
(* the RGD is shown to Lua as a userdata, which from its first use on has  *)
(* a Lua table with the values of the RGD's entries, its `children'.       *)
(* Indexing reads the children; assigning is to change both.  GET reads    *)
(* the entries, and saveAs writes them.                                    *)
(*                                                                         *)
(* An assignment goes where Lua's metatables lead it: through the userdata *)
(* and its members to the children.  They have a function for a key that   *)
(* is there, under "__updateindex", and one for a key that is not, under   *)
(* "__newindex".  The Lua the program is built with knows only the second  *)
(* (luaV_settable, lua-5.1.2/src/lvm.c:134-160): to a key that is there it *)
(* assigns without asking anyone.                                          *)
(*                                                                         *)
(* A table is a number, 0 being GameData.  A macro that uses a table after *)
(* it was deleted, or copies a table into itself, is left out.             *)
(***************************************************************************)
EXTENDS Naturals, Sequences, FiniteSets, SequencesExt, FiniteSetsExt

CONSTANTS
    Keys,      \* names of entries
    Values,    \* what an entry may hold that is no table
    Simple,    \* what a macro may assign that is no table
    Shown,     \* Shown[v]: what a macro sees of the value v
    Kept,      \* Kept[s]: what is stored when s is assigned
    False,     \* the value a new entry has before its own
    Made,      \* the Lua tables a macro may assign: functions, key -> what it holds
    Stock,     \* RGDs: table -> entries
    MaxTables, \* bound: tables, the deleted ones included
    MaxSteps   \* bound: assignments of a macro

\* What an entry holds: a value or a table.  What Lua holds: that, nothing, or
\* a table of the macro's own.
Value(v) == <<"value", v>>
Table(t) == <<"table", t>>
Nil == <<"nil">>
Own(f) == <<"own", f>>
IsTable(v) == v[1] = "table"

MacroAssumption == \A s \in Simple : Kept[s] \in Values /\ Shown[Kept[s]] = s

VARIABLES
    heap,    \* .of: the entries of each table, the RGD's vectors;
             \* .lua: its children, a function on Keys, or <<>> before its first use;
             \* .gone: the deleted tables
    raw,     \* <<t, k>> that Lua assigned by itself (not recorded by the code)
    saved,   \* what was saved last, what the macro saw then, and raw;
             \* <<>> before a save and after one that failed
    failed,  \* an error ended the macro
    steps

vars == <<heap, raw, saved, failed, steps>>

-----------------------------------------------------------------------------
(* Tables *)

Entries(h, t) == ToSet(h.of[t])
Under(h, t, k) == SelectSeq(h.of[t], LAMBDA e : e.key = k)
Loaded(h, t) == h.lua[t] # <<>>

\* A table and those below it, in the RGD and in Lua: _CleanRgdTable follows
\* the RGD.
RECURSIVE Below(_, _), Reached(_, _)
Below(h, t) ==
    {t} \cup UNION {Below(h, e.holds[2]) : e \in {d \in Entries(h, t) : IsTable(d.holds)}}
Reached(h, t) ==
    {t} \cup UNION {Reached(h, v[2]) : v \in
        {w \in IF Loaded(h, t) THEN {h.lua[t][k] : k \in Keys} ELSE {e.holds : e \in Entries(h, t)} :
            IsTable(w)}}

AsShown(v) == IF IsTable(v) THEN v ELSE Value(Shown[v[2]])

\* luae_delayload: of two entries with one name the last is seen.
Load(h, t) ==
    IF Loaded(h, t) THEN h
    ELSE [h EXCEPT !.lua[t] = [k \in Keys |->
            IF Under(h, t, k) = <<>> THEN Nil ELSE AsShown(Last(Under(h, t, k)).holds)]]

\* luaf_GET of one key: the first entry.  For a table CRgdTable's own GET looks
\* for the file's objects under the wrong pointer and raises an error.
Get(h, t, k) ==
    IF Under(h, t, k) = <<>> THEN Nil ELSE AsShown(Head(Under(h, t, k)).holds)

RECURSIVE Assign(_, _, _, _), Copy(_, _, _)

\* Mutant: T's children keep what they had.
CopyOver(h, t, v) ==
    LET h1 == IF IsTable(v) THEN Load(h, v[2]) ELSE h
        from == IF IsTable(v) THEN h1.lua[v[2]] ELSE v[2]
        h2 == [Load(h1, t) EXCEPT !.of[t] = <<>>, !.gone = @ \cup (Below(h1, t) \ {t})]
        there == {k \in DOMAIN from : from[k] # Nil}
    IN  FoldSeq(LAMBDA k, g : Assign(g, t, k, from[k]), h2, SetToSeq(there))

\* T:SET(V), luap_setself: T loses its entries and its children, and gets the
\* children that V has, in the order lua_next gives them.
Copy(h, t, v) ==
    LET h1 == IF IsTable(v) THEN Load(h, v[2]) ELSE h
        from == IF IsTable(v) THEN h1.lua[v[2]] ELSE v[2]
        h2 == [h1 EXCEPT !.of[t] = <<>>, !.lua[t] = [k \in Keys |-> Nil],
                         !.gone = @ \cup (Below(h1, t) \ {t})]
        there == {k \in DOMAIN from : from[k] # Nil}
    IN  FoldSeq(LAMBDA k, g : Assign(g, t, k, from[k]), h2, SetToSeq(there))

\* The first entry of the name gets the value (luae_setindex).  A table is a
\* new one, unless the entry held a table: then it stays, emptied, and
\* is looked for in the children, which have it no longer; the call fails.
Change(h, t, k, v) ==
    LET i == CHOOSE i \in DOMAIN h.of[t] :
                h.of[t][i].key = k /\ \A j \in 1..(i - 1) : h.of[t][j].key # k
        old == h.of[t][i].holds
        new == Cardinality(DOMAIN h.of)
        h1 == IF IsTable(old) THEN [h EXCEPT !.gone = @ \cup Below(h, old[2])] ELSE h
        h2 == [h1 EXCEPT !.of = @ @@ (new :> <<>>), !.lua = @ @@ (new :> <<>>)]
    IN  IF v[1] = "value"
        THEN [h1 EXCEPT !.of[t][i].holds = Value(Kept[v[2]]), !.lua[t][k] = v]
        ELSE IF IsTable(old) THEN [h1 EXCEPT !.failed = TRUE]
        ELSE Copy([h2 EXCEPT !.of[t][i].holds = Table(new), !.lua[t][k] = Table(new)], new, v)

\* luae_newindex: a new entry, whatever the entries hold, and its value.
Add(h, t, k, v) ==
    IF v = Nil THEN h
    ELSE Change([h EXCEPT !.of[t] = Append(@, [key |-> k, holds |-> Value(False)])], t, k, v)

\* T[k] = v.
Assign(h, t, k, v) ==
    LET l == Load(h, t)
    IN  IF l.lua[t][k] # Nil THEN [l EXCEPT !.lua[t][k] = v] ELSE Add(l, t, k, v)
-----------------------------------------------------------------------------
(* The macro *)

\* The RGD as it is written: for every name what the entries of that name hold.
RECURSIVE Written(_, _), Seen(_, _, _), OwnSeen(_), Fits(_, _, _)
Written(h, t) ==
    [k \in Keys |-> LET es == Under(h, t, k)
                    IN  [i \in DOMAIN es |-> IF IsTable(es[i].holds)
                                            THEN Table(Written(h, es[i].holds[2])) ELSE es[i].holds]]

\* The same as the macro sees it, and which keys Lua assigned by itself.
OwnSeen(f) ==
    [k \in Keys |-> [raw |-> FALSE,
        is |-> IF k \notin DOMAIN f THEN Nil
               ELSE IF f[k][1] = "own" THEN Table(OwnSeen(f[k][2])) ELSE f[k]]]
Seen(h, r, t) ==
    [k \in Keys |-> LET v == Load(h, t).lua[t][k]
                    IN  [raw |-> <<t, k>> \in r,
                         is |-> IF IsTable(v) THEN Table(Seen(h, r, v[2]))
                                ELSE IF v[1] = "own" THEN Table(OwnSeen(v[2])) ELSE v]]

\* An RGD as it is loaded.
Fresh(s) == [of |-> s, lua |-> [t \in DOMAIN s |-> <<>>], gone |-> {}, failed |-> FALSE]

Init ==
    /\ \E s \in Stock : heap = Fresh(s)
    /\ raw = {} /\ saved = <<>> /\ failed = FALSE /\ steps = 0

\* Tables that are in the RGD and that the macro can reach.
InUse == Reached(heap, 0) \ heap.gone
Assignable ==
    {Value(s) : s \in Simple} \cup {Own(f) : f \in Made} \cup {Table(t) : t \in InUse}
OfTable(v) == IF IsTable(v) THEN Reached(heap, v[2]) ELSE {}

Goes(h) ==
    /\ ~failed /\ steps < MaxSteps /\ steps' = steps + 1
    /\ Cardinality(DOMAIN h.of) <= MaxTables
    /\ heap' = h /\ failed' = h.failed /\ UNCHANGED saved

\* T[k] = v, T:SET(k, v)
SetKey(t, k, v) ==
    LET h == Assign(heap, t, k, v)
    IN  /\ t \notin OfTable(v) /\ OfTable(v) \cap h.gone = {}
        /\ Goes(h)
        /\ raw' = IF Load(heap, t).lua[t][k] # Nil THEN raw \cup {<<t, k>>} ELSE raw

\* T:SET(v)
SetSelf(t, v) ==
    LET h == Copy(heap, t, v)
    IN  /\ t \notin OfTable(v) /\ OfTable(v) \cap h.gone = {}
        /\ Goes(h)
        /\ raw' = {p \in raw : p[1] # t}

\* luaf_saveAs.  The stream is opened, which empties the file, before the user
\* may be asked whether to save there, and the answer is not looked at.
SaveAs(how) ==
    /\ ~failed
    /\ saved' = IF how = "saved" THEN [file |-> Written(heap, 0), seen |-> Seen(heap, raw, 0)]
                ELSE IF how = "not opened" THEN saved ELSE <<>>
    /\ failed' = (how # "saved")
    /\ UNCHANGED <<heap, raw, steps>>

\* runMacro with the next file, after an error too if the user goes on.
RunMacro(s) ==
    /\ heap' = Fresh(s) /\ raw' = {} /\ saved' = <<>> /\ failed' = FALSE /\ steps' = 0

Next ==
    \/ \E t \in InUse, k \in Keys, v \in Assignable \cup {Nil} : SetKey(t, k, v)
    \/ \E t \in InUse, v \in Assignable : v[1] # "value" /\ SetSelf(t, v)
    \/ \E how \in {"saved", "not opened", "not written"} : SaveAs(how)
    \/ \E s \in Stock : RunMacro(s)

Spec == Init /\ [][Next]_vars

-----------------------------------------------------------------------------
(* Properties *)

\* A file holds what the macro saw, of all keys or of those that Lua did not
\* assign by itself.
Fits(f, s, all) ==
    \A k \in Keys :
        \/ s[k].raw /\ ~all
        \/ s[k].is = Nil /\ f[k] = <<>>
        \/ /\ Len(f[k]) = 1 /\ s[k].is # Nil
           /\ f[k][1][1] = s[k].is[1]
           /\ IF IsTable(s[k].is) THEN Fits(f[k][1][2], s[k].is[2], all)
              ELSE Shown[f[k][1][2]] = s[k].is[2]

\* Every table agrees with its children, so that GET, which reads the one, and
\* indexing, which reads the other, give the same; and what is saved is what
\* the macro saw, once each, whatever was copied from where, except for the
\* keys that Lua assigned by itself.
AddedIsSaved ==
    /\ \A t \in DOMAIN heap.of \ heap.gone, k \in Keys :
          failed \/ ~Loaded(heap, t) \/ <<t, k>> \in raw \/ Get(heap, t, k) = heap.lua[t][k]
    /\ saved # <<>> => Fits(saved.file, saved.seen, FALSE)

\* What a macro assigned is saved (tutorials-rgd-macro-basics-16.html:
\* "Finally, for your changes to be saved, remember to call rgd:save()").
AssignedIsSaved == saved # <<>> => Fits(saved.file, saved.seen, TRUE)
=============================================================================
