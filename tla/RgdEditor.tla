----------------------------- MODULE RgdEditor -----------------------------
(***************************************************************************)
(* frmRgdEditor and one table of the file it shows: the children as the    *)
(* table keeps them, sorted (CMetaTable::m_vecChildren), as items of the   *)
(* tree, and as rows of the property grid.  An operation on one of the     *)
(* three finds the entry in the others by its position or by its name.     *)
(*                                                                         *)
(* Entries whose hash has no name are left out: they cannot be renamed.    *)
(***************************************************************************)
EXTENDS RgdOrder, FiniteSets

CONSTANTS
    Entries,    \* _RgdEntry objects, at most so many at a time
    Names,      \* what a user may call them
    Stock,      \* the sets of names a table may have at first
    Nobody,     \* not an entry
    InOrder     \* the names that are before others, a parameter so that it is worked out once

EntriesAssumption ==
    /\ IsFiniteSet(Entries) /\ Nobody \notin Entries
    /\ Names \subseteq Seq(Nat) \ {<<>>} /\ Stock \subseteq SUBSET Names
    /\ InOrder = {p \in Names \X Names : Before(p[1], p[2])}

VARIABLES
    kids,     \* the children, in the order of m_vecChildren
    nameOf,   \* nameOf[e]: sName; <<>> for an entry that is not there
    items,    \* the entries of the tree items below the table's
    rows,     \* what the rows of the grid show; <<>> when it does not show the table
    picked,   \* the entry whose item is selected, or Nobody for the table's own
    last,     \* the last operation, the entry it was meant for and the one it changed (not recorded by the code)
    unsorted, \* the children may be in no order: since they were all sorted one was
              \* renamed, or there was no order to sort them by (not recorded by the code)
    stale,    \* they were sorted after that to add one, or by what is no order, or one has
              \* the name of another (not recorded by the code)
    freed     \* a tree item is left on an entry that is gone: what follows is undefined

vars == <<kids, nameOf, items, rows, picked, last, unsorted, stale, freed>>

-----------------------------------------------------------------------------
\* An order std::sort can be given: a strict weak one.  The two ways to compare
\* can contradict each other: a_2, a_10, a_1z, a_2 are each before the next.
Alike(a, b) == <<a, b>> \notin InOrder /\ <<b, a>> \notin InOrder
Orders(names) ==
    \A a, b, c \in names :
        /\ <<a, b>> \in InOrder /\ <<b, c>> \in InOrder => <<a, c>> \in InOrder
        /\ Alike(a, b) => a = b

Sorted(s, nm) == \A i, j \in DOMAIN s : i < j => <<nm[s[j]], nm[s[i]]>> \notin InOrder

\* What std::sort may make of entries with names nm, in the order of these or,
\* when they have none, in any.
Sorts(es, nm) ==
    IF Orders({nm[e] : e \in es}) THEN {p \in SetToSeqs(es) : Sorted(p, nm)} ELSE SetToSeqs(es)

Children == ToSet(kids)
\* Two children have one name, to those who look them up by name.
Twins == \E d, e \in Children : d # e /\ SameName(nameOf[d], nameOf[e])
NamesOf(es) == {nameOf[e] : e \in es}
NoOrder == ~Orders(NamesOf(Children))

-----------------------------------------------------------------------------
Init ==
    /\ \E names \in Stock : \E es \in SUBSET Entries :
         /\ Cardinality(es) = Cardinality(names)
         /\ nameOf \in [Entries -> names \cup {<<>>}]
         /\ \A e \in Entries : nameOf[e] # <<>> <=> e \in es
         /\ NamesOf(es) = names
         /\ kids \in Sorts(es, nameOf)
    /\ items = kids /\ rows = kids /\ picked = Nobody
    /\ last = [op |-> "none", meant |-> Nobody, hit |-> Nobody]
    /\ unsorted = NoOrder /\ stale = Twins /\ freed = FALSE

\* The table's item is selected: the grid gets a row for every child.
SelectTable ==
    /\ ~freed /\ picked' = Nobody /\ rows' = kids
    /\ UNCHANGED <<kids, nameOf, items, last, unsorted, stale, freed>>

SelectEntry(e) ==
    /\ ~freed /\ e \in ToSet(items) /\ picked' = e /\ rows' = <<>>
    /\ UNCHANGED <<kids, nameOf, items, last, unsorted, stale, freed>>

\* A value is entered in row i: the i-th item below the table's has the entry.
EditRow(i) ==
    /\ ~freed /\ i \in DOMAIN rows
    /\ last' = [op |-> "edit", meant |-> rows[i], hit |-> items[i]]
    /\ UNCHANGED <<kids, nameOf, items, rows, picked, unsorted, stale, freed>>

\* VSetName: no other child is looked at, and nothing sorted.
Rename(n) ==
    /\ ~freed /\ picked # Nobody
    /\ nameOf' = [nameOf EXCEPT ![picked] = n]
    /\ last' = [op |-> "rename", meant |-> picked, hit |-> picked]
    /\ UNCHANGED <<kids, items, rows, picked, freed>>
    /\ unsorted' = TRUE /\ stale' = (stale \/ Twins')

\* Mutant: the children are not looked at.
TakesAnyName(n) == TRUE

\* A child of that name must not be there.
Takes(n) == \A e \in Children : ~SameName(nameOf[e], n)

\* Mutant: the item and the row are put last, whatever the order.
PutLast(seq, i, e) == Append(seq, e)

PutAt(seq, i, e) == InsertAt(seq, i, e)

\* VAddChild sorts all children; one item and one row are put where it is now.
AddChild(n) ==
    /\ ~freed /\ picked = Nobody /\ Len(rows) = Len(kids) /\ Takes(n)
    /\ \E e \in Entries \ Children :
         /\ nameOf' = [nameOf EXCEPT ![e] = n]
         /\ kids' \in Sorts(Children \cup {e}, nameOf')
         /\ LET at == CHOOSE i \in DOMAIN kids' : kids'[i] = e
            IN  items' = PutAt(items, at, e) /\ rows' = PutAt(rows, at, e)
    /\ stale' = (stale \/ unsorted \/ NoOrder')
    /\ last' = [op |-> "add", meant |-> Nobody, hit |-> Nobody]
    /\ UNCHANGED <<picked, unsorted, freed>>

\* Where the first child with the name of e is.
ByName(e) == SelectInSeq(kids, LAMBDA k : SameName(nameOf[k], nameOf[e]))

Delete ==
    /\ ~freed /\ picked # Nobody
    /\ LET at == ByName(picked)
           gone == kids[at]
       IN  /\ kids' = RemoveAt(kids, at)
           /\ nameOf' = [nameOf EXCEPT ![gone] = <<>>]
           /\ freed' = (gone # picked)
           /\ last' = [op |-> "delete", meant |-> picked, hit |-> gone]
    /\ items' = RemoveAt(items, SelectInSeq(items, LAMBDA k : k = picked))
    /\ rows' = <<>> /\ picked' = Nobody
    /\ UNCHANGED <<unsorted, stale>>

\* An entry called n is pasted into the table: over the first child of exactly
\* that name, or as a new one, which is called n without a look at the others.
\* _SyncTreeView then makes the items anew from a new CMetaTable.
PasteInto(n) ==
    /\ ~freed /\ picked = Nobody
    /\ \E e \in Entries :
         /\ IF n \in NamesOf(Children)
            THEN e = kids[SelectInSeq(kids, LAMBDA k : nameOf[k] = n)]
            ELSE e \notin Children
         /\ nameOf' = [nameOf EXCEPT ![e] = n]
         /\ kids' \in Sorts(Children \cup {e}, nameOf')
    /\ items' = kids' /\ rows' = kids'
    /\ last' = [op |-> "paste", meant |-> Nobody, hit |-> Nobody]
    /\ unsorted' = NoOrder' /\ stale' = Twins'
    /\ UNCHANGED <<picked, freed>>

\* The file is saved, closed and opened again.
Reopen ==
    /\ kids' \in Sorts(Children, nameOf) /\ items' = kids' /\ rows' = kids' /\ picked' = Nobody
    /\ last' = [op |-> "reopen", meant |-> Nobody, hit |-> Nobody]
    /\ UNCHANGED nameOf
    /\ unsorted' = NoOrder' /\ stale' = Twins' /\ freed' = FALSE

Next ==
    \/ SelectTable \/ Delete \/ Reopen
    \/ \E e \in Entries : SelectEntry(e)
    \/ \E i \in 1..Cardinality(Entries) : EditRow(i)
    \/ \E n \in Names : Rename(n) \/ AddChild(n) \/ PasteInto(n)

Spec == Init /\ [][Next]_vars

-----------------------------------------------------------------------------
\* What is edited or deleted is the entry that was picked, through the order of
\* three lists and the equality of names, as long as no rename or paste gave a
\* child the name of another, and the children were sorted only by what is an
\* order and before any rename (OnPropertyChange, OnDelete, OnAddChild).
MeantIsChanged == [][~stale => (last.meant = last.hit)']_vars
=============================================================================
