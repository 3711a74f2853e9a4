--------------------------- MODULE RgdNamesProofs ---------------------------
(***************************************************************************)
(* Proofs about RgdNames, for any keys, names and dictionaries: the names  *)
(* of a running program stay, what it saves no dictionary names, and what  *)
(* it learnt is known for good, however often it was killed when it was    *)
(* not saving.                                                             *)
(***************************************************************************)
EXTENDS RgdNames, TLAPS

-----------------------------------------------------------------------------
(* The inductive invariant *)

Entry == [name : Names \cup {None}, custom : BOOLEAN]
Line == Names \cup {None, Absent}

TypeInv ==
    /\ before \in Dictionaries /\ after \in Dictionaries
    /\ custom \in [Keys -> Line]
    /\ running \in BOOLEAN /\ torn \in BOOLEAN
    /\ table \in [Keys -> Entry]
    /\ saving \subseteq Keys /\ learnt \subseteq Keys
    /\ running => saving = {}

Listed(k) == before[k] # Absent \/ after[k] # Absent \/ Numbers[k].name # None

\* A dictionary's key has a name, and not one that is the user's.
Published ==
    running => \A k \in Keys :
        table[k].custom \/ table[k].name = None => before[k] = Absent /\ after[k] = Absent

\* What was learnt is named in this run, and will be written to custom.txt
\* unless something else names it.
Held(k) == table[k].name \in Names /\ (table[k].custom \/ Listed(k))

\* A name that is neither to be saved nor from a dictionary is a number.
Unsaved(k) ==
    \/ table[k].name = None \/ table[k].custom \/ Listed(k)
    \/ table[k].name \in Numeric

\* What was learnt is on the disk, or about to be.
Known(k) == Listed(k) \/ custom[k] \in Names
Coming(k) == k \in saving /\ table[k].name \in Names

Remembered ==
    /\ \A k \in saving : custom[k] = Absent
    /\ running => \A k \in Keys : Unsaved(k)
    /\ ~torn => \A k \in learnt : /\ Known(k) \/ Coming(k)
                                  /\ running => Held(k)

IInv == TypeInv /\ Published /\ Remembered

-----------------------------------------------------------------------------
(* The operators *)

LEMMA DictionaryType ==
    ASSUME NamesAssumption, NEW d \in Dictionaries
    PROVE  d \in [Keys -> Names \cup {Absent}]
BY DEF NamesAssumption

LEMMA NumbersType ==
    ASSUME NamesAssumption
    PROVE  Numbers \in [Keys -> Entry] /\ \A k \in Keys : Numbers[k].custom = FALSE
<1>1. \A k \in Keys : (CHOOSE n \in {m \in Preset : HashOf[m] = k} : TRUE) \in Names
                      \/ {m \in Preset : HashOf[m] = k} = {}
    BY DEF NamesAssumption
<1> QED
    BY <1>1 DEF Numbers, Entry

LEMMA ExtendedType ==
    ASSUME NamesAssumption, NEW t \in [Keys -> Entry], NEW d \in [Keys -> Line], NEW c \in BOOLEAN
    PROVE  Extended(t, d, c) \in [Keys -> Entry]
<1> SUFFICES ASSUME NEW k \in Keys PROVE Extended(t, d, c)[k] \in Entry
    BY DEF Extended
<1>1. t[k] \in Entry /\ d[k] \in Line
    OBVIOUS
<1>2. [t[k] EXCEPT !.custom = @ /\ c] \in Entry
    BY <1>1 DEF Entry
<1>3. d[k] # Absent => [name |-> d[k], custom |-> c] \in Entry
    BY <1>1 DEF Entry, Line
<1> QED
    BY <1>1, <1>2, <1>3 DEF Extended

\* What a dictionary and custom.txt make of one key.
FromDictionary(new, old, line) ==
    /\ line = Absent => new = old
    /\ line # Absent /\ old.name # None => new.name = old.name /\ new.custom = FALSE
    /\ line # Absent /\ old.name = None => new.name = line /\ new.custom = FALSE

LEMMA DictionaryAt ==
    ASSUME NEW t \in [Keys -> Entry], NEW d, NEW k \in Keys
    PROVE  FromDictionary(Extended(t, d, FALSE)[k], t[k], d[k])
<1>1. t[k] \in Entry
    OBVIOUS
<1>2. /\ [t[k] EXCEPT !.custom = @ /\ FALSE].name = t[k].name
      /\ [t[k] EXCEPT !.custom = @ /\ FALSE].custom = FALSE
    BY <1>1 DEF Entry
<1>3. /\ d[k] = Absent => Extended(t, d, FALSE)[k] = t[k]
      /\ d[k] # Absent /\ t[k].name # None => Extended(t, d, FALSE)[k] = [t[k] EXCEPT !.custom = @ /\ FALSE]
      /\ d[k] # Absent /\ t[k].name = None => Extended(t, d, FALSE)[k] = [name |-> d[k], custom |-> FALSE]
    BY DEF Extended
<1>4. [name |-> d[k], custom |-> FALSE].name = d[k] /\ [name |-> d[k], custom |-> FALSE].custom = FALSE
    OBVIOUS
<1> QED
    BY <1>2, <1>3, <1>4, Zenon DEF FromDictionary

LEMMA CustomAt ==
    ASSUME NEW t \in [Keys -> Entry], NEW d, NEW k \in Keys
    PROVE  /\ d[k] = Absent => Extended(t, d, TRUE)[k] = t[k]
           /\ d[k] # Absent /\ t[k].name # None =>
                /\ Extended(t, d, TRUE)[k].name = t[k].name
                /\ Extended(t, d, TRUE)[k].custom = t[k].custom
           /\ d[k] # Absent /\ t[k].name = None =>
                /\ Extended(t, d, TRUE)[k].name = d[k]
                /\ Extended(t, d, TRUE)[k].custom = TRUE
<1>1. t[k] \in Entry
    OBVIOUS
<1>2. /\ [t[k] EXCEPT !.custom = @ /\ TRUE].name = t[k].name
      /\ [t[k] EXCEPT !.custom = @ /\ TRUE].custom = t[k].custom
    BY <1>1 DEF Entry
<1>3. /\ d[k] = Absent => Extended(t, d, TRUE)[k] = t[k]
      /\ d[k] # Absent /\ t[k].name # None => Extended(t, d, TRUE)[k] = [t[k] EXCEPT !.custom = @ /\ TRUE]
      /\ d[k] # Absent /\ t[k].name = None => Extended(t, d, TRUE)[k] = [name |-> d[k], custom |-> TRUE]
    BY DEF Extended
<1>4. [name |-> d[k], custom |-> TRUE].name = d[k] /\ [name |-> d[k], custom |-> TRUE].custom = TRUE
    OBVIOUS
<1> QED
    BY <1>2, <1>3, <1>4, Zenon

LEMMA ReadType ==
    ASSUME NamesAssumption, NEW d \in [Keys -> Line]
    PROVE  /\ Read(d) \in [Keys -> Line]
           /\ \A k \in Keys : /\ d[k] \in Names => Read(d)[k] \in Names
                              /\ d[k] \notin Names => Read(d)[k] = d[k]
BY DEF NamesAssumption, Read, Line

LEMMA NothingType == ASSUME NamesAssumption PROVE Nothing \in [Keys -> Entry]
BY DEF Nothing, Entry

\* The table of a program that begins: a key has a name if anything gives one,
\* and is the user's if only custom.txt does.
LEMMA LoadedNames ==
    ASSUME NamesAssumption, TypeInv
    PROVE  /\ Loaded \in [Keys -> Entry]
           /\ \A k \in Keys :
                /\ Known(k) => Loaded[k].name \in Names
                /\ Loaded[k].name # None => Loaded[k].custom \/ Listed(k)
                /\ Loaded[k].custom \/ Loaded[k].name = None => before[k] = Absent /\ after[k] = Absent
<1> DEFINE one == Extended(Numbers, before, FALSE)
           two == Extended(one, Read(custom), TRUE)
<1>1. /\ before \in [Keys -> Names \cup {Absent}] /\ after \in [Keys -> Names \cup {Absent}]
      /\ before \in [Keys -> Line] /\ after \in [Keys -> Line]
    <2>1. before \in [Keys -> Names \cup {Absent}] /\ after \in [Keys -> Names \cup {Absent}]
        BY DictionaryType DEF TypeInv
    <2> QED
        BY <2>1 DEF Line
<1>2. Read(custom) \in [Keys -> Line]
    BY ReadType DEF TypeInv
<1>3. one \in [Keys -> Entry]
    BY <1>1, NumbersType, ExtendedType
<1>4. two \in [Keys -> Entry]
    BY <1>2, <1>3, ExtendedType
<1>5. Loaded = Extended(two, after, FALSE) /\ Loaded \in [Keys -> Entry]
    <2>1. Loaded = Extended(two, after, FALSE)
        BY DEF Loaded
    <2> QED
        BY <1>1, <1>4, <2>1, ExtendedType
<1>6. None \notin Names /\ Absent \notin Names /\ None # Absent
    BY DEF NamesAssumption
<1>7. ASSUME NEW k \in Keys
      PROVE  /\ one[k].custom = FALSE
             /\ one[k].name # None <=> before[k] # Absent \/ Numbers[k].name # None
             /\ one[k].name # None => one[k].name \in Names
    <2>1. one[k] \in Entry
        BY <1>3
    <2>2. Numbers[k].custom = FALSE /\ Numbers[k] \in Entry
        BY NumbersType
    <2>3. before[k] \in Names \cup {Absent}
        BY <1>1
    <2>4. FromDictionary(one[k], Numbers[k], before[k])
        BY NumbersType, DictionaryAt
    <2> HIDE DEF one
    <2> QED
        BY <2>1, <2>2, <2>3, <2>4, <1>6 DEF Entry, FromDictionary
<1>8. ASSUME NEW k \in Keys
      PROVE  /\ one[k].name # None => two[k].name = one[k].name /\ two[k].custom = FALSE
             /\ one[k].name = None /\ custom[k] \in Names => two[k].name \in Names /\ two[k].custom = TRUE
             /\ one[k].name = None /\ custom[k] \notin Names => two[k].name = None
    <2>1. /\ Read(custom)[k] = Absent => two[k] = one[k]
          /\ Read(custom)[k] # Absent /\ one[k].name # None =>
               two[k].name = one[k].name /\ two[k].custom = one[k].custom
          /\ Read(custom)[k] # Absent /\ one[k].name = None =>
               two[k].name = Read(custom)[k] /\ two[k].custom = TRUE
        BY <1>3, CustomAt
    <2>2. /\ custom[k] \in Names => Read(custom)[k] \in Names
          /\ custom[k] \notin Names => Read(custom)[k] = custom[k]
          /\ custom[k] \in Line
        BY ReadType DEF TypeInv
    <2> QED
        BY <1>6, <1>7, <2>1, <2>2 DEF Line
<1>9. ASSUME NEW k \in Keys
      PROVE  /\ after[k] = Absent => Loaded[k] = two[k]
             /\ after[k] # Absent /\ two[k].name # None =>
                  Loaded[k].name = two[k].name /\ Loaded[k].custom = FALSE
             /\ after[k] # Absent /\ two[k].name = None =>
                  Loaded[k].name \in Names /\ Loaded[k].custom = FALSE
    <2>1. FromDictionary(Loaded[k], two[k], after[k])
        <3> HIDE DEF two
        <3>1. FromDictionary(Extended(two, after, FALSE)[k], two[k], after[k])
            BY <1>4, DictionaryAt
        <3> QED
            BY <1>5, <3>1
    <2>2. after[k] \in Names \cup {Absent}
        BY <1>1
    <2> HIDE DEF two
    <2> QED
        BY <2>1, <2>2, Zenon DEF FromDictionary
<1>10. ASSUME NEW k \in Keys
       PROVE  /\ Known(k) => Loaded[k].name \in Names
              /\ Loaded[k].name # None => Loaded[k].custom \/ Listed(k)
              /\ Loaded[k].custom \/ Loaded[k].name = None => before[k] = Absent /\ after[k] = Absent
    <2> HIDE DEF one, two
    <2>1. /\ one[k].name # None => two[k].name \in Names /\ two[k].name # None /\ two[k].custom = FALSE
          /\ one[k].name = None /\ custom[k] \in Names =>
               two[k].name \in Names /\ two[k].name # None /\ two[k].custom = TRUE
          /\ one[k].name = None /\ custom[k] \notin Names => two[k].name = None
        BY <1>6, <1>7, <1>8
    <2>2. CASE after[k] # Absent
        <3>1. Loaded[k].name \in Names /\ Loaded[k].name # None /\ Loaded[k].custom = FALSE
            BY <1>6, <1>9, <2>1, <2>2
        <3> QED
            BY <2>2, <3>1 DEF Listed
    <2>3. CASE after[k] = Absent
        <3>1. Loaded[k] = two[k]
            BY <1>9, <2>3
        <3>2. CASE one[k].name # None
            <4>1. Listed(k)
                BY <1>7, <3>2 DEF Listed
            <4> QED
                BY <2>1, <3>1, <3>2, <4>1
        <3>3. CASE one[k].name = None
            <4>1. before[k] = Absent /\ ~Listed(k)
                BY <1>7, <2>3, <3>3 DEF Listed
            <4> QED
                BY <2>1, <2>3, <3>1, <3>3, <4>1 DEF Known
        <3> QED
            BY <3>2, <3>3
    <2> QED
        BY <2>2, <2>3
<1> QED
    BY <1>5, <1>10

\* Asking for a name changes none, and gives none.
LEMMA HashToValueKeeps ==
    ASSUME NEW t \in [Keys -> Entry], NEW k \in Keys
    PROVE  /\ HashToValue(t, k) \in [Keys -> Entry]
           /\ \A j \in Keys : HashToValue(t, k)[j].name = t[j].name
           /\ \A j \in Keys : HashToValue(t, k)[j].custom = (t[j].custom \/ (j = k /\ t[k].name = None))
<1>1. t[k] \in Entry /\ t[k].custom \in BOOLEAN
    BY DEF Entry
<1>2. [t[k] EXCEPT !.custom = TRUE] \in Entry
    BY <1>1 DEF Entry
<1> QED
    BY <1>1, <1>2 DEF HashToValue, Entry

\* A name given to a key that has one changes nothing.
LEMMA ValueToHashKeeps ==
    ASSUME NamesAssumption, NEW t \in [Keys -> Entry], NEW n \in Names
    PROVE  /\ HashOf[n] \in Keys /\ ValueToHash(t, n) \in [Keys -> Entry]
           /\ ValueToHash(t, n)[HashOf[n]].name \in Names
           /\ \A k \in Keys : t[k].name # None => ValueToHash(t, n)[k] = t[k]
           /\ \A k \in Keys : t[k].name = None =>
                IF k = HashOf[n]
                THEN ValueToHash(t, n)[k] = [name |-> n, custom |-> n \notin Numeric]
                ELSE ValueToHash(t, n)[k] = t[k]
<1>1. HashOf[n] \in Keys
    BY DEF NamesAssumption
<1>2. [name |-> n, custom |-> n \notin Numeric] \in Entry
    BY DEF Entry
<1>3. t[HashOf[n]] \in Entry
    BY <1>1
<1> QED
    BY <1>1, <1>2, <1>3 DEF ValueToHash, Entry
-----------------------------------------------------------------------------
(* The steps *)

LEMMA InitHolds == ASSUME NamesAssumption, Init PROVE IInv
<1>1. TypeInv
    BY NothingType DEF Init, TypeInv, Line
<1> QED
    BY <1>1 DEF Init, IInv, Published, Remembered

LEMMA GetRgdHashTableKeeps == ASSUME NamesAssumption, IInv, GetRgdHashTable PROVE IInv'
<1> USE DEF GetRgdHashTable
<1>1. TypeInv'
    BY LoadedNames DEF IInv, TypeInv
<1>2. \A k \in Keys : Listed(k)' = Listed(k) /\ Known(k)' = Known(k)
    BY DEF Listed, Known, Numbers
<1>3. Published'
    BY LoadedNames DEF IInv, Published
<1>4. (\A k \in Keys : Unsaved(k))'
    BY <1>2, LoadedNames DEF IInv, Unsaved
<1>5. ASSUME ~torn, NEW k \in learnt PROVE Known(k) /\ Held(k)'
    <2>1. Known(k) /\ k \in Keys
        BY <1>5 DEF IInv, TypeInv, Remembered, Coming
    <2>2. Loaded[k].name \in Names /\ (Loaded[k].custom \/ Listed(k))
        BY <2>1, LoadedNames DEF IInv, NamesAssumption
    <2> QED
        BY <1>2, <2>1, <2>2 DEF Held
<1>6. Remembered'
    BY <1>2, <1>4, <1>5 DEF Remembered, IInv, TypeInv
<1> QED
    BY <1>1, <1>3, <1>6 DEF IInv

\* A step of a running program that names some more keys.
LEMMA NamingKeeps ==
    ASSUME NamesAssumption, IInv, running,
           UNCHANGED <<before, after, custom, running, saving, learnt, torn>>,
           table' \in [Keys -> Entry],
           \A k \in Keys : table[k].name # None =>
               table'[k].name = table[k].name /\ table'[k].custom = table[k].custom,
           \A k \in Keys : table[k].name = None /\ table'[k].name # None =>
               table'[k].custom \/ table'[k].name \in Numeric
    PROVE  IInv'
<1>1. TypeInv'
    BY DEF IInv, TypeInv
<1>2. \A k \in Keys : Listed(k)' = Listed(k) /\ Known(k)' = Known(k)
    BY DEF Listed, Known, Numbers
<1>3. Published'
    BY DEF IInv, Published
<1>4. (\A k \in Keys : Unsaved(k))'
    BY <1>2 DEF IInv, Remembered, Unsaved
<1>5. ASSUME ~torn, NEW k \in learnt PROVE Known(k) /\ Held(k)'
    <2>1. Known(k) /\ k \in Keys /\ Held(k)
        BY <1>5 DEF IInv, TypeInv, Remembered, Coming
    <2>2. table[k].name # None
        BY <2>1 DEF Held, NamesAssumption
    <2> QED
        BY <1>2, <2>1, <2>2 DEF Held
<1>6. Remembered'
    BY <1>2, <1>4, <1>5 DEF Remembered, IInv, TypeInv
<1> QED
    BY <1>1, <1>3, <1>6 DEF IInv

LEMMA MeetKeeps == ASSUME NamesAssumption, IInv, NEW k \in Keys, Meet(k) PROVE IInv'
<1>1. table \in [Keys -> Entry] /\ table' = HashToValue(table, k)
    BY DEF IInv, TypeInv, Meet
<1>2. /\ table' \in [Keys -> Entry]
      /\ \A j \in Keys : table'[j].name = table[j].name
      /\ \A j \in Keys : table'[j].custom = (table[j].custom \/ (j = k /\ table[k].name = None))
    BY <1>1, HashToValueKeeps
<1>3. \A j \in Keys : table[j].name # None => table'[j].custom = table[j].custom
    <2> SUFFICES ASSUME NEW j \in Keys, table[j].name # None PROVE table'[j].custom = table[j].custom
        OBVIOUS
    <2>1. table[j].custom \in BOOLEAN /\ ~(j = k /\ table[k].name = None)
        BY <1>1 DEF Entry
    <2>2. table'[j].custom = (table[j].custom \/ (j = k /\ table[k].name = None))
        BY <1>2
    <2> QED
        BY <2>1, <2>2
<1> QED
    BY <1>2, <1>3, NamingKeeps DEF Meet

LEMMA NameKeeps == ASSUME NamesAssumption, IInv, NEW n \in Names, Name(n) PROVE IInv'
<1> DEFINE t == ValueToHash(table, n)
<1>1. table \in [Keys -> Entry] /\ table' = HashToValue(t, HashOf[n])
    BY DEF IInv, TypeInv, Name
<1>2. /\ HashOf[n] \in Keys /\ t \in [Keys -> Entry]
      /\ t[HashOf[n]].name \in Names
      /\ \A k \in Keys : table[k].name # None => t[k] = table[k]
      /\ \A k \in Keys : table[k].name = None =>
           IF k = HashOf[n] THEN t[k] = [name |-> n, custom |-> n \notin Numeric] ELSE t[k] = table[k]
    BY <1>1, ValueToHashKeeps
<1> HIDE DEF t
<1>3. \A k \in Keys : table[k].name = None /\ t[k].name # None => t[k].custom \/ t[k].name \in Numeric
    <2> SUFFICES ASSUME NEW k \in Keys, table[k].name = None, t[k].name # None
                 PROVE  t[k].custom \/ t[k].name \in Numeric
        OBVIOUS
    <2>1. k = HashOf[n] /\ t[k] = [name |-> n, custom |-> n \notin Numeric]
        BY <1>2
    <2>2. t[k].name = n /\ t[k].custom = (n \notin Numeric)
        BY <2>1
    <2> QED
        BY <2>2, Zenon
<1>4. /\ table' \in [Keys -> Entry]
      /\ \A k \in Keys : table'[k].name = t[k].name
      /\ \A k \in Keys : table'[k].custom = (t[k].custom \/ (k = HashOf[n] /\ t[HashOf[n]].name = None))
    BY <1>1, <1>2, HashToValueKeeps
<1>5. t[HashOf[n]].name # None
    BY <1>2 DEF NamesAssumption
<1>6. \A k \in Keys : t[k] \in Entry /\ t[k].custom \in BOOLEAN
    BY <1>2 DEF Entry
<1>7. \A k \in Keys : table'[k].custom = t[k].custom
    BY <1>4, <1>5, <1>6
<1> QED
    BY <1>2, <1>3, <1>4, <1>7, NamingKeeps DEF Name

LEMMA SaveCustomKeysKeeps == ASSUME NamesAssumption, IInv, SaveCustomKeys PROVE IInv'
<1> USE DEF SaveCustomKeys
<1>1. TypeInv'
    BY DEF IInv, TypeInv, Line
<1>2. \A k \in Keys : Listed(k)' = Listed(k)
    BY DEF Listed, Numbers
<1>3. ASSUME ~torn, NEW k \in learnt' PROVE Listed(k) \/ Coming(k)'
    <2>1. k \in Keys /\ table[k] \in Entry
        BY <1>1 DEF IInv, TypeInv
    <2>2. CASE k \in learnt
        BY <1>3, <2>1, <2>2 DEF IInv, Remembered, Held, Coming
    <2>3. CASE k \notin learnt
        <3>1. table[k].name \notin Numeric \cup {None}
            BY <2>3
        <3>2. table[k].custom \/ Listed(k)
            BY <2>1, <3>1 DEF IInv, Remembered, Unsaved
        <3> QED
            BY <2>1, <3>1, <3>2 DEF Coming, Entry
    <2> QED
        BY <2>2, <2>3
<1>4. Remembered'
    BY <1>1, <1>2, <1>3 DEF Remembered, Known, TypeInv
<1> QED
    BY <1>1, <1>4 DEF IInv, Published

LEMMA SaveKeyKeeps == ASSUME NamesAssumption, IInv, SaveKey PROVE IInv'
<1>1. PICK k \in saving : custom' = [custom EXCEPT ![k] = table[k].name] /\ saving' = saving \ {k}
    BY DEF SaveKey
<1>2. UNCHANGED <<before, after, running, table, learnt, torn>> /\ ~running
    BY <1>1 DEF SaveKey, IInv, TypeInv
<1>3. k \in Keys /\ table[k] \in Entry
    BY <1>1 DEF IInv, TypeInv
<1>4. TypeInv'
    BY <1>1, <1>2, <1>3 DEF IInv, TypeInv, Entry, Line
<1>5. ASSUME ~torn, NEW j \in learnt PROVE Known(j)' \/ Coming(j)'
    <2>1. j \in Keys /\ (Known(j) \/ Coming(j))
        BY <1>5 DEF IInv, TypeInv, Remembered
    <2>2. Listed(j)' = Listed(j)
        BY <1>2 DEF Listed, Numbers
    <2>3. CASE j = k
        <3>1. custom[k] = Absent /\ Absent \notin Names
            BY DEF IInv, Remembered, NamesAssumption
        <3>2. Listed(k) \/ table[k].name \in Names
            BY <2>1, <2>3, <3>1 DEF Known, Coming
        <3>3. custom'[k] = table[k].name
            BY <1>1, <1>3 DEF IInv, TypeInv
        <3> QED
            BY <2>2, <2>3, <3>2, <3>3 DEF Known
    <2>4. CASE j # k
        BY <1>1, <1>2, <2>1, <2>2, <2>4 DEF Known, Coming, IInv, TypeInv
    <2> QED
        BY <2>3, <2>4
<1>6. \A j \in saving' : custom'[j] = Absent
    BY <1>1 DEF IInv, TypeInv, Remembered
<1> QED
    BY <1>2, <1>4, <1>5, <1>6 DEF IInv, Published, Remembered

LEMMA KilledKeeps == ASSUME NamesAssumption, IInv, Killed PROVE IInv'
<1> USE DEF Killed
<1>1. TypeInv'
    BY NothingType DEF IInv, TypeInv
<1>2. \A k \in Keys : Known(k)' = Known(k)
    BY DEF Listed, Known, Numbers
<1>3. ASSUME ~torn', NEW k \in learnt PROVE Known(k)
    BY <1>3 DEF IInv, TypeInv, Remembered, Coming
<1> QED
    BY <1>1, <1>2, <1>3 DEF IInv, TypeInv, Published, Remembered

LEMMA InstallKeeps == ASSUME NamesAssumption, IInv, Install PROVE IInv'
<1> USE DEF Install
<1>1. TypeInv'
    BY DEF IInv, TypeInv
<1>2. \A k \in Keys : Known(k) => Known(k)'
    BY DEF Listed, Known, Numbers
<1>3. ASSUME ~torn, NEW k \in learnt PROVE Known(k)
    BY <1>3 DEF IInv, TypeInv, Remembered, Coming
<1> QED
    BY <1>1, <1>2, <1>3 DEF IInv, TypeInv, Published, Remembered

LEMMA NextKeeps == ASSUME NamesAssumption, IInv, [Next]_vars PROVE IInv'
<1>1. CASE UNCHANGED vars
    BY <1>1 DEF vars, IInv, TypeInv, Published, Remembered, Unsaved, Known, Coming, Held, Listed, Numbers
<1> QED
    BY <1>1, GetRgdHashTableKeeps, MeetKeeps, NameKeeps, SaveCustomKeysKeeps, SaveKeyKeeps, KilledKeeps,
       InstallKeeps DEF Next

LEMMA Invariance == ASSUME NamesAssumption PROVE Spec => []IInv
<1>1. Init => IInv
    BY InitHolds
<1>2. IInv /\ [Next]_vars => IInv'
    BY NextKeeps
<1> QED
    BY <1>1, <1>2, PTL DEF Spec

\* No step of a running program changes a name it has.
LEMMA NameStays ==
    ASSUME NamesAssumption, IInv, [Next]_vars, running, running',
           NEW k \in Keys, table[k].name # None
    PROVE  table'[k].name = table[k].name
<1>1. table \in [Keys -> Entry]
    BY DEF IInv, TypeInv
<1>2. ASSUME NEW j \in Keys, Meet(j) PROVE table'[k].name = table[k].name
    BY <1>1, <1>2, HashToValueKeeps DEF Meet
<1>3. ASSUME NEW n \in Names, Name(n) PROVE table'[k].name = table[k].name
    <2>1. HashOf[n] \in Keys /\ ValueToHash(table, n) \in [Keys -> Entry]
          /\ \A j \in Keys : table[j].name # None => ValueToHash(table, n)[j] = table[j]
        BY <1>1, ValueToHashKeeps
    <2>2. ValueToHash(table, n)[k] = table[k]
        BY <2>1
    <2> DEFINE t == ValueToHash(table, n)
               h == HashOf[n]
    <2>3. t \in [Keys -> Entry] /\ h \in Keys /\ t[k] = table[k]
        BY <2>1, <2>2
    <2>4. table' = HashToValue(t, h)
        BY <1>3 DEF Name
    <2> HIDE DEF t, h
    <2>5. HashToValue(t, h)[k].name = t[k].name
        BY <2>3, HashToValueKeeps
    <2> QED
        BY <2>3, <2>4, <2>5
<1> QED
    BY <1>2, <1>3 DEF Next, vars, GetRgdHashTable, SaveCustomKeys, SaveKey, Killed, Install

LEMMA LearntSaid == ASSUME NamesAssumption, IInv PROVE KnownForGood
    BY DEF IInv, TypeInv, Remembered, Held, KnownForGood, NamesAssumption

LEMMA NoneWrittenTwice ==
    ASSUME IInv, SaveCustomKeys
    PROVE  \A k \in saving' : before[k] = Absent /\ after[k] = Absent
    BY DEF IInv, Published, SaveCustomKeys

-----------------------------------------------------------------------------
(* The theorems *)

\* CRgdHashTable::ValueToHash and HashToValue: while the program runs no name
\* that an RGD file may point to is changed, whatever is met, named or asked.
THEOREM NamesAreKept == ASSUME NamesAssumption PROVE Spec => NamesStay
<1>1. IInv /\ [Next]_vars =>
        [running /\ running' =>
            \A k \in Keys : table[k].name # None => table'[k].name = table[k].name]_vars
    BY NameStays
<1> QED
    BY <1>1, Invariance, PTL DEF Spec, NamesStay

\* What a session named that ended in order is named in every later one, over
\* new dictionaries and sessions that were killed (SaveCustomKeys,
\* ExtendWithDictionary).
THEOREM LearntIsKnown == ASSUME NamesAssumption PROVE Spec => []KnownForGood
<1>1. IInv => KnownForGood
    BY LearntSaid
<1> QED
    BY <1>1, Invariance, PTL

\* A key that a dictionary names is not written to custom.txt
\* (ExtendWithDictionary, which takes the flag away).
THEOREM PublishedIsLeft == ASSUME NamesAssumption PROVE Spec => NotTwice
<1>1. IInv /\ [Next]_vars =>
        [SaveCustomKeys => \A k \in saving' : before[k] = Absent /\ after[k] = Absent]_vars
    BY NoneWrittenTwice
<1> QED
    BY <1>1, Invariance, PTL DEF Spec, NotTwice
=============================================================================
