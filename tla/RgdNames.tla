------------------------------ MODULE RgdNames ------------------------------
(***************************************************************************)
(* CRgdHashTable, which gives the hashed keys of RGD files their names, as *)
(* the program uses it: filled from the dictionaries of a folder at its    *)
(* first use (ConstructFrame::GetRgdHashTable), extended by every name a   *)
(* user or a Lua file brings, and saved to custom.txt, one of those        *)
(* dictionaries, when the program ends.                                    *)
(*                                                                         *)
(* `Before' and `After' stand for the dictionaries that the walk of the    *)
(* folder meets before and after custom.txt; there is a custom.txt.        *)
(***************************************************************************)
CONSTANTS
    Keys,       \* the hashes
    Names,      \* the texts keys are named by
    HashOf,     \* HashOf[n]: the hash of n
    Stripped,   \* Stripped[n]: n without blanks, as a dictionary gives it
    Numeric,    \* the names of digits only
    Preset,     \* those of them that the table begins with, 1 to 9999
    Dictionaries,  \* what the dictionaries but custom.txt may hold
    None,       \* no name: a null sString
    Absent      \* no line in custom.txt

NamesAssumption ==
    /\ HashOf \in [Names -> Keys] /\ Stripped \in [Names -> Names]
    /\ Preset \subseteq Numeric /\ Numeric \subseteq Names
    /\ Dictionaries \subseteq [Keys -> {Stripped[n] : n \in Names} \cup {Absent}]
    /\ None \notin Names /\ Absent \notin Names /\ None # Absent
    /\ \A n \in Names : Stripped[Stripped[n]] = Stripped[n]

VARIABLES
    before, after,  \* Before and After: the name each gives a key, or Absent
    custom,         \* custom.txt: a name, None for "is an unknown value!!", or Absent
    running,        \* there is an m_pRgdHashTable
    table,          \* m_mHashTable: sString and bCustom; an entry with neither is as none
    saving,         \* the keys SaveCustomKeys has still to write; {} when it is not at work
    learnt,         \* the keys a session named that was ended in order (not recorded by the code)
    torn            \* a program was killed while it saved (not recorded by the code)

vars == <<before, after, custom, running, table, saving, learnt, torn>>

Nothing == [k \in Keys |-> [name |-> None, custom |-> FALSE]]

-----------------------------------------------------------------------------
\* Mutant: a key that custom.txt lists is custom, whoever else names it.
ExtendedAnew(t, dictionary, isCustom) ==
    [k \in Keys |->
        IF dictionary[k] = Absent THEN t[k]
        ELSE IF t[k].name # None THEN [t[k] EXCEPT !.custom = isCustom]
        ELSE [name |-> dictionary[k], custom |-> isCustom]]

\* A key with a name keeps it, and is custom as long as all that name it are.
Extended(t, dictionary, isCustom) ==
    [k \in Keys |->
        IF dictionary[k] = Absent THEN t[k]
        ELSE IF t[k].name # None THEN [t[k] EXCEPT !.custom = @ /\ isCustom]
        ELSE [name |-> dictionary[k], custom |-> isCustom]]

\* What the constructor puts in: the numbers, by their hashes.
Numbers == [k \in Keys |->
    LET here == {n \in Preset : HashOf[n] = k}
    IN  [name |-> IF here = {} THEN None ELSE CHOOSE n \in here : TRUE, custom |-> FALSE]]

\* What is read of custom.txt: blanks in names are gone.
Read(dictionary) ==
    [k \in Keys |-> IF dictionary[k] \in Names THEN Stripped[dictionary[k]] ELSE dictionary[k]]

Loaded == Extended(Extended(Extended(Numbers, before, FALSE), Read(custom), TRUE), after, FALSE)

\* HashToValue: asking for a key without a name marks it for custom.txt.
HashToValue(t, k) == IF t[k].name = None THEN [t EXCEPT ![k].custom = TRUE] ELSE t

\* Mutant: the last name given is the name.
NamedAgain(t, n) == [t EXCEPT ![HashOf[n]] = [name |-> n, custom |-> n \notin Numeric]]

\* Mutant: what a user names is not for custom.txt.
NamedForNow(t, n) ==
    IF t[HashOf[n]].name # None THEN t
    ELSE [t EXCEPT ![HashOf[n]] = [name |-> n, custom |-> FALSE]]

\* ValueToHash: a key without a name gets this one.
ValueToHash(t, n) ==
    IF t[HashOf[n]].name # None THEN t
    ELSE [t EXCEPT ![HashOf[n]] = [name |-> n, custom |-> n \notin Numeric]]

-----------------------------------------------------------------------------
Init ==
    /\ before \in Dictionaries /\ after \in Dictionaries
    /\ custom = [k \in Keys |-> Absent]
    /\ running = FALSE /\ table = Nothing /\ saving = {} /\ learnt = {} /\ torn = FALSE

\* The first editor or tool that needs names.
GetRgdHashTable ==
    /\ ~running /\ saving = {}
    /\ running' = TRUE /\ table' = Loaded
    /\ UNCHANGED <<before, after, custom, saving, learnt, torn>>

\* An RGD file has key k, or a user enters k itself, "0x" and eight digits.
Meet(k) ==
    /\ running /\ table' = HashToValue(table, k)
    /\ UNCHANGED <<before, after, custom, running, saving, learnt, torn>>

\* A user or a Lua file brings name n; its key is then asked for at once.
Name(n) ==
    /\ running /\ table' = HashToValue(ValueToHash(table, n), HashOf[n])
    /\ UNCHANGED <<before, after, custom, running, saving, learnt, torn>>

\* ~ConstructFrame calls SaveCustomKeys: custom.txt is emptied, then written
\* key by key, in the order of the keys, which does not matter here.
SaveCustomKeys ==
    /\ running /\ running' = FALSE
    /\ custom' = [k \in Keys |-> Absent]
    /\ saving' = {k \in Keys : table[k].custom}
    /\ learnt' = learnt \cup {k \in Keys : table[k].name \notin Numeric \cup {None}}
    /\ UNCHANGED <<before, after, table, torn>>

SaveKey ==
    /\ \E k \in saving : /\ custom' = [custom EXCEPT ![k] = table[k].name]
                         /\ saving' = saving \ {k}
    /\ UNCHANGED <<before, after, running, table, learnt, torn>>

\* The program is gone without its destructors.
Killed ==
    /\ running \/ saving # {}
    /\ torn' = (torn \/ saving # {})
    /\ running' = FALSE /\ saving' = {} /\ table' = Nothing
    /\ UNCHANGED <<before, after, custom, learnt>>

\* New dictionaries are put in the folder; they name what the old ones named.
Install ==
    /\ ~running /\ saving = {}
    /\ \E d \in Dictionaries : /\ \A k \in Keys : before[k] # Absent => d[k] # Absent
                             /\ before' = d
    /\ UNCHANGED <<after, custom, running, table, saving, learnt, torn>>

Next ==
    \/ GetRgdHashTable \/ SaveCustomKeys \/ SaveKey \/ Killed \/ Install
    \/ \E k \in Keys : Meet(k)
    \/ \E n \in Names : Name(n)

Spec == Init /\ [][Next]_vars

-----------------------------------------------------------------------------
\* Names that RGD files hold pointers to are neither changed nor freed while
\* the program runs (CRgdFile's sName, HashToValue).
NamesStay ==
    [][running /\ running' =>
        \A k \in Keys : table[k].name # None => table'[k].name = table[k].name]_vars

\* A key that had a name when the program ended has one in every later run,
\* whatever dictionaries are put in: "Creates a dictionary file loadable by
\* ExtendWithDictionary() from all of the key/value pairs" (CRgdHashTable.h:78).
KnownForGood == running /\ ~torn => \A k \in learnt : table[k].name # None

\* custom.txt lists no key, when it is written out, that a dictionary of the
\* run named: what was discovered and is then published leaves it.
NotTwice ==
    [][SaveCustomKeys => \A k \in saving' : before[k] = Absent /\ after[k] = Absent]_vars
=============================================================================
