-------------------------- MODULE RgdEditorProofs --------------------------
(***************************************************************************)
(* What is proved of RgdEditor, for any entries, names and tables: the     *)
(* children, the items of the tree and the rows of the grid stay in step   *)
(* through every operation, as long as `stale' does not say otherwise.     *)
(* What makes it true is that a list of entries with different names has   *)
(* one order at most, so that an item put in where VAddChild has put its   *)
(* entry is where the sorted list has it.                                  *)
(***************************************************************************)
EXTENDS RgdEditor, FiniteSetsExt, FiniteSetTheorems, SequenceTheorems, WellFoundedInduction, TLAPS

\* s has every entry of es, once.
Lists(s, es) == s \in Seq(es) /\ IsInjective(s) /\ ToSet(s) = es /\ Len(s) = Cardinality(es)

Named(es, nm) == {nm[e] : e \in es}

TypeInv ==
    /\ nameOf \in [Entries -> Names \cup {<<>>}]
    /\ Children \subseteq Entries /\ Lists(kids, Children)
    /\ \A e \in Children : nameOf[e] \in Names
    /\ rows \in Seq(Entries)

\* The tree shows every child, and what is selected is one.
Present == ~freed => Lists(items, Children) /\ picked \in Children \cup {Nobody}

InStep ==
    ~stale => /\ ~freed /\ ~Twins /\ items = kids /\ rows \in {<<>>, kids}
              /\ last.meant = last.hit
              /\ ~unsorted => ~NoOrder /\ Sorted(kids, nameOf)

IInv == TypeInv /\ Present /\ InStep

-----------------------------------------------------------------------------
(* Sets of numbers, and lists *)

LEMMA Smallest ==
    ASSUME NEW S \in SUBSET Nat, S # {}
    PROVE  \E m \in S : \A n \in S : m <= n
<1>1. \E m \in S : \A n \in S : <<n, m>> \notin OpToRel(<, Nat)
    BY NatLessThanWellFounded, WFMin
<1>2. \A m, n \in Nat : n < m => <<n, m>> \in OpToRel(<, Nat)
    BY DEF OpToRel
<1>3. \A m, n \in S : ~(n < m) => m <= n
    OBVIOUS
<1> QED
    BY <1>1, <1>2, <1>3

LEMMA RemoveAtIs ==
    ASSUME NEW S, NEW s \in Seq(S), NEW i \in 1..Len(s)
    PROVE  /\ RemoveAt(s, i) \in Seq(S) /\ Len(RemoveAt(s, i)) = Len(s) - 1
           /\ \A j \in 1..(Len(s) - 1) : RemoveAt(s, i)[j] = IF j < i THEN s[j] ELSE s[j + 1]
<1> DEFINE a == SubSeq(s, 1, i - 1)
           b == SubSeq(s, i + 1, Len(s))
<1>1. a \in Seq(S) /\ Len(a) = i - 1 /\ \A j \in 1..(i - 1) : a[j] = s[j]
    BY SubSeqProperties
<1>2. b \in Seq(S) /\ Len(b) = Len(s) - i /\ \A j \in 1..(Len(s) - i) : b[j] = s[i + j]
    BY SubSeqProperties
<1> HIDE DEF a, b
<1>3. /\ a \o b \in Seq(S) /\ Len(a \o b) = Len(s) - 1
      /\ \A j \in 1..(Len(s) - 1) : (a \o b)[j] = IF j <= i - 1 THEN a[j] ELSE b[j - (i - 1)]
    <2>0. Len(s) \in Nat /\ Len(a) + Len(b) = Len(s) - 1
        BY <1>1, <1>2
    <2>1. /\ a \o b \in Seq(S) /\ Len(a \o b) = Len(a) + Len(b)
          /\ \A j \in 1..(Len(a) + Len(b)) : (a \o b)[j] = IF j <= Len(a) THEN a[j] ELSE b[j - Len(a)]
        BY <1>1, <1>2, ConcatProperties
    <2> QED
        BY <1>1, <2>0, <2>1
<1>4. \A j \in 1..(Len(s) - 1) : (a \o b)[j] = IF j < i THEN s[j] ELSE s[j + 1]
    BY <1>1, <1>2, <1>3
<1> QED
    BY <1>3, <1>4 DEF RemoveAt, a, b

LEMMA InsertAtIs ==
    ASSUME NEW S, NEW s \in Seq(S), NEW i \in 1..(Len(s) + 1), NEW e \in S
    PROVE  /\ InsertAt(s, i, e) \in Seq(S) /\ Len(InsertAt(s, i, e)) = Len(s) + 1
           /\ \A j \in 1..(Len(s) + 1) :
                InsertAt(s, i, e)[j] = IF j < i THEN s[j] ELSE IF j = i THEN e ELSE s[j - 1]
<1> DEFINE a == SubSeq(s, 1, i - 1)
           b == SubSeq(s, i, Len(s))
<1>1. a \in Seq(S) /\ Len(a) = i - 1 /\ \A j \in 1..(i - 1) : a[j] = s[j]
    BY SubSeqProperties
<1>2. b \in Seq(S) /\ Len(b) = Len(s) - i + 1 /\ \A j \in 1..(Len(s) - i + 1) : b[j] = s[i + j - 1]
    BY SubSeqProperties
<1> HIDE DEF a, b
<1> DEFINE c == a \o <<e>>
<1>3. c \in Seq(S) /\ Len(c) = i /\ \A j \in 1..i : c[j] = IF j <= i - 1 THEN a[j] ELSE e
    BY <1>1
<1> HIDE DEF c
<1>4. /\ c \o b \in Seq(S) /\ Len(c \o b) = Len(s) + 1
      /\ \A j \in 1..(Len(s) + 1) : (c \o b)[j] = IF j <= i THEN c[j] ELSE b[j - i]
    BY <1>2, <1>3, ConcatProperties
<1>5. \A j \in 1..(Len(s) + 1) :
        (c \o b)[j] = IF j < i THEN s[j] ELSE IF j = i THEN e ELSE s[j - 1]
    BY <1>1, <1>2, <1>3, <1>4
<1> QED
    BY <1>4, <1>5 DEF InsertAt, a, b, c

\* A position in a list found by a property of what is there.
LEMMA FirstIsOne ==
    ASSUME NEW n \in Nat, NEW I \in SUBSET (1..n), I # {}
    PROVE  Min(I) \in I
<1>1. I \in SUBSET Nat
    OBVIOUS
<1> QED
    BY <1>1, Smallest DEF Min

LEMMA Listed ==
    ASSUME NEW es, IsFiniteSet(es), NEW s \in Seq(es), IsInjective(s), Len(s) = Cardinality(es)
    PROVE  Lists(s, es)
<1>1. Len(s) \in Nat /\ DOMAIN s = 1..Len(s) /\ ToSet(s) \subseteq es
    BY DEF ToSet
<1>2. IsFiniteSet(1..Len(s)) /\ Cardinality(1..Len(s)) = Len(s)
    BY <1>1, FS_Interval
<1>3. s \in Bijection(1..Len(s), ToSet(s))
    BY <1>1 DEF Bijection, Injection, Surjection, IsInjective, ToSet
<1>4. Cardinality(ToSet(s)) = Cardinality(es)
    BY <1>2, <1>3, FS_Bijection DEF ExistsBijection
<1>5. ToSet(s) = es
    BY <1>1, <1>4, FS_Subset
<1> QED
    BY <1>5 DEF Lists

LEMMA SortsAre ==
    ASSUME NEW es, IsFiniteSet(es), NEW nm, NEW p \in Sorts(es, nm)
    PROVE  Lists(p, es) /\ (Orders(Named(es, nm)) => Sorted(p, nm))
<1>1. /\ p \in [1..Cardinality(es) -> es]
      /\ \A i, j \in 1..Cardinality(es) : i # j => p[i] # p[j]
    BY DEF Sorts, SetToSeqs
<1>2. Cardinality(es) \in Nat
    BY FS_CardinalityType
<1>3. p \in Seq(es) /\ Len(p) = Cardinality(es) /\ IsInjective(p)
    BY <1>1, <1>2 DEF IsInjective
<1> QED
    BY <1>3, Listed DEF Sorts, Sorted, Named

\* What is left of a list without the entry at i.
LEMMA TakenOut ==
    ASSUME NEW es, IsFiniteSet(es), NEW p, Lists(p, es), NEW i \in 1..Len(p)
    PROVE  /\ Lists(RemoveAt(p, i), es \ {p[i]})
           /\ InsertAt(RemoveAt(p, i), i, p[i]) = p
           /\ \A nm : Sorted(p, nm) => Sorted(RemoveAt(p, i), nm)
<1> DEFINE q == RemoveAt(p, i)
<1>1. p \in Seq(es) /\ Len(p) \in Nat /\ DOMAIN p = 1..Len(p) /\ p[i] \in es
    BY DEF Lists
<1>2. /\ q \in Seq(es) /\ Len(q) = Len(p) - 1 /\ DOMAIN q = 1..(Len(p) - 1)
      /\ \A j \in 1..(Len(p) - 1) : q[j] = IF j < i THEN p[j] ELSE p[j + 1]
    <2>1. /\ q \in Seq(es) /\ Len(q) = Len(p) - 1
          /\ \A j \in 1..(Len(p) - 1) : q[j] = IF j < i THEN p[j] ELSE p[j + 1]
        BY <1>1, RemoveAtIs
    <2> QED
        BY <2>1
<1> HIDE DEF q
<1>3. \A j, k \in 1..Len(p) : p[j] = p[k] => j = k
    BY <1>1 DEF Lists, IsInjective
<1>4. \A j, k \in 1..Len(q) : q[j] = q[k] => j = k
    BY <1>1, <1>2, <1>3
<1>5. \A j \in 1..Len(q) : q[j] \in es \ {p[i]}
    BY <1>1, <1>2, <1>3
<1>6. q \in Seq(es \ {p[i]})
    BY <1>2, <1>5
<1>7. IsFiniteSet(es \ {p[i]}) /\ Cardinality(es \ {p[i]}) = Len(q)
    BY <1>1, <1>2, FS_RemoveElement DEF Lists
<1>8. Lists(q, es \ {p[i]})
    BY <1>2, <1>4, <1>6, <1>7, Listed DEF IsInjective
<1>9. InsertAt(q, i, p[i]) = p
    <2>0. i \in 1..(Len(q) + 1) /\ Len(q) + 1 = Len(p)
        BY <1>1, <1>2
    <2> DEFINE r == InsertAt(q, i, p[i])
    <2>1. /\ r \in Seq(es) /\ Len(r) = Len(q) + 1
          /\ \A j \in 1..(Len(q) + 1) : r[j] = IF j < i THEN q[j] ELSE IF j = i THEN p[i] ELSE q[j - 1]
        <3>1. q \in Seq(es) /\ p[i] \in es
            BY <1>1, <1>2
        <3> QED
            BY <2>0, <3>1, InsertAtIs
    <2> HIDE DEF r
    <2>2. ASSUME NEW j \in 1..Len(p) PROVE r[j] = p[j]
        <3>1. r[j] = IF j < i THEN q[j] ELSE IF j = i THEN p[i] ELSE q[j - 1]
            BY <2>0, <2>1
        <3>2. CASE j < i
            <4>1. j \in 1..(Len(p) - 1) /\ j < i
                BY <1>1, <3>2
            <4> QED
                BY <1>2, <3>1, <4>1
        <3>3. CASE j = i
            BY <3>1, <3>3
        <3>4. CASE j > i
            <4>1. j - 1 \in 1..(Len(p) - 1) /\ ~(j - 1 < i) /\ (j - 1) + 1 = j /\ ~(j < i) /\ j # i
                BY <1>1, <3>4
            <4>2. q[j - 1] = p[(j - 1) + 1]
                BY <1>2, <4>1
            <4> QED
                BY <3>1, <4>1, <4>2
        <3> QED
            BY <3>2, <3>3, <3>4
    <2>3. r = p
        BY <1>1, <2>0, <2>1, <2>2, SeqEqual
    <2> QED
        BY <2>3 DEF r
<1>10. ASSUME NEW nm, Sorted(p, nm) PROVE Sorted(q, nm)
    <2>1. ASSUME NEW j \in 1..(Len(p) - 1), NEW k \in 1..(Len(p) - 1), j < k
          PROVE  \E m, n \in 1..Len(p) : m < n /\ q[j] = p[m] /\ q[k] = p[n]
        <3> DEFINE m == IF j < i THEN j ELSE j + 1
                   n == IF k < i THEN k ELSE k + 1
        <3>1. m \in 1..Len(p) /\ n \in 1..Len(p) /\ m < n
            BY <1>1, <2>1
        <3>2. q[j] = p[m] /\ q[k] = p[n]
            BY <1>1, <1>2
        <3> QED
            BY <3>1, <3>2
    <2>2. ASSUME NEW j \in 1..(Len(p) - 1), NEW k \in 1..(Len(p) - 1), j < k
          PROVE  <<nm[q[k]], nm[q[j]]>> \notin InOrder
        <3>1. PICK m, n \in 1..Len(p) : m < n /\ q[j] = p[m] /\ q[k] = p[n]
            BY <2>1, <2>2
        <3> QED
            BY <1>1, <1>10, <3>1 DEF Sorted
    <2> QED
        BY <1>2, <2>2 DEF Sorted
<1> QED
    BY <1>8, <1>9, <1>10 DEF q

-----------------------------------------------------------------------------
(* Entries whose names differ and can be ordered have one order *)

LEMMA OneOrder ==
    ASSUME NEW es, NEW nm, \A e \in es : nm[e] \in Names,
           \A d, e \in es : nm[d] = nm[e] => d = e,
           Orders(Named(es, nm)),
           NEW p, NEW q, Lists(p, es), Lists(q, es), Sorted(p, nm), Sorted(q, nm)
    PROVE  p = q
<1>1. /\ p \in Seq(es) /\ q \in Seq(es) /\ Len(p) = Len(q) /\ Len(p) \in Nat
      /\ DOMAIN p = 1..Len(p) /\ DOMAIN q = 1..Len(p)
    BY DEF Lists
<1> DEFINE Differ == {i \in 1..Len(p) : p[i] # q[i]}
<1>2. Differ = {}
    <2> SUFFICES ASSUME Differ # {} PROVE FALSE
        OBVIOUS
    <2>1. Differ \in SUBSET Nat
        BY <1>1
    <2>2. PICK k \in Differ : \A i \in Differ : k <= i
        BY <2>1, Smallest
    <2> HIDE DEF Differ
    <2>3. k \in 1..Len(p) /\ p[k] # q[k] /\ \A i \in 1..Len(p) : i < k => p[i] = q[i]
        BY <1>1, <2>2 DEF Differ
    <2>4. p[k] \in es /\ q[k] \in es
        BY <1>1, <2>3
    <2>5. es = {p[i] : i \in 1..Len(p)} /\ es = {q[i] : i \in 1..Len(p)}
        BY <1>1 DEF Lists, ToSet
    <2>6. PICK m \in 1..Len(p) : q[m] = p[k]
        BY <2>4, <2>5
    <2>7. PICK l \in 1..Len(p) : p[l] = q[k]
        BY <2>4, <2>5
    <2>8. \A i, j \in 1..Len(p) : (p[i] = p[j] => i = j) /\ (q[i] = q[j] => i = j)
        BY <1>1 DEF Lists, IsInjective
    <2>9. k < m
        BY <1>1, <2>3, <2>6, <2>8
    <2>10. k < l
        BY <1>1, <2>3, <2>7, <2>8
    <2>11. <<nm[p[k]], nm[q[k]]>> \notin InOrder /\ <<nm[q[k]], nm[p[k]]>> \notin InOrder
        BY <1>1, <2>3, <2>6, <2>7, <2>9, <2>10 DEF Sorted
    <2>12. Alike(nm[p[k]], nm[q[k]])
        BY <2>11 DEF Alike
    <2>13. nm[p[k]] = nm[q[k]]
        <3>1. nm[p[k]] \in Named(es, nm) /\ nm[q[k]] \in Named(es, nm)
            BY <2>4 DEF Named
        <3> QED
            BY <2>12, <3>1 DEF Orders
    <2> QED
        BY <2>3, <2>4, <2>13
<1> QED
    BY <1>1, <1>2, SeqEqual

-----------------------------------------------------------------------------
(* The order of a table with a new entry *)

LEMMA PutIn ==
    ASSUME NEW es, IsFiniteSet(es), NEW s, Lists(s, es), NEW e, e \notin es, NEW i \in 1..(Len(s) + 1)
    PROVE  Lists(InsertAt(s, i, e), es \cup {e})
<1> DEFINE all == es \cup {e}
           r == InsertAt(s, i, e)
<1>1. s \in Seq(all) /\ Len(s) \in Nat /\ DOMAIN s = 1..Len(s) /\ \A j \in 1..Len(s) : s[j] \in es
    BY DEF Lists
<1>2. /\ r \in Seq(all) /\ Len(r) = Len(s) + 1
      /\ \A j \in 1..(Len(s) + 1) : r[j] = IF j < i THEN s[j] ELSE IF j = i THEN e ELSE s[j - 1]
    <2>1. e \in all
        OBVIOUS
    <2> HIDE DEF all
    <2> QED
        BY <1>1, <2>1, InsertAtIs
<1> HIDE DEF r
<1>3. \A j, k \in 1..Len(s) : s[j] = s[k] => j = k
    BY <1>1 DEF Lists, IsInjective
<1>4. \A j, k \in 1..Len(r) : r[j] = r[k] => j = k
    BY <1>1, <1>2, <1>3
<1>5. DOMAIN r = 1..Len(r)
    BY <1>2
<1>6. IsFiniteSet(all) /\ Cardinality(all) = Len(r)
    BY <1>2, FS_AddElement DEF Lists
<1>7. Lists(r, all)
    BY <1>2, <1>4, <1>5, <1>6, Listed DEF IsInjective
<1> QED
    BY <1>7 DEF r

\* An entry taken out of a sorted list leaves the sorted list of the others, so
\* that it is back in order where it was.
LEMMA BackInOrder ==
    ASSUME NEW es, IsFiniteSet(es), NEW nm, NEW e, e \notin es,
           \A d \in es : nm[d] \in Names, \A c, d \in es : nm[c] = nm[d] => c = d,
           Orders(Named(es, nm)),
           NEW p, Lists(p, es \cup {e}), Sorted(p, nm),
           NEW q, Lists(q, es), Sorted(q, nm),
           NEW i \in 1..Len(p), p[i] = e
    PROVE  InsertAt(q, i, e) = p
<1> DEFINE all == es \cup {e}
           r == RemoveAt(p, i)
<1>1. IsFiniteSet(all) /\ all \ {e} = es /\ Lists(p, all)
    BY FS_AddElement
<1>2. Lists(r, es) /\ InsertAt(r, i, e) = p /\ Sorted(r, nm)
    <2> HIDE DEF all
    <2> QED
        BY <1>1, TakenOut
<1> HIDE DEF r
<1>3. r = q
    BY <1>2, OneOrder
<1> QED
    BY <1>2, <1>3

-----------------------------------------------------------------------------
(* The operations keep the invariant *)

\* What every step keeps, and what it does.
Kept == IInv' /\ (~stale => last'.meant = last'.hit)

LEMMA ChildrenAreFinite ==
    ASSUME EntriesAssumption, TypeInv
    PROVE  IsFiniteSet(Children)
BY FS_Subset DEF TypeInv, EntriesAssumption

LEMMA NamesDiffer ==
    ASSUME ~Twins
    PROVE  \A d, e \in Children : nameOf[d] = nameOf[e] => d = e
BY DEF Twins, SameName

\* A list of the children made anew, with its items and rows, is one to start from.
LEMMA MadeAnew ==
    ASSUME EntriesAssumption, NEW es \in SUBSET Entries, NEW nm \in [Entries -> Names \cup {<<>>}],
           \A d \in es : nm[d] \in Names,
           kids' \in Sorts(es, nm), nameOf' = nm, items' = kids', rows' = kids', picked' = Nobody,
           last'.meant = last'.hit, unsorted' = NoOrder', stale' = Twins', freed' = FALSE
    PROVE  IInv'
<1>1. IsFiniteSet(es)
    BY FS_Subset DEF EntriesAssumption
<1>2. Lists(kids', es) /\ (Orders(Named(es, nm)) => Sorted(kids', nm))
    BY <1>1, SortsAre
<1>3. Children' = es
    BY <1>2 DEF Lists, Children
<1>4. TypeInv'
    <2>1. kids' \in Seq(Entries)
        BY <1>2 DEF Lists
    <2> QED
        BY <1>2, <1>3, <2>1 DEF TypeInv
<1>5. Present'
    BY <1>2, <1>3 DEF Present
<1>6. InStep'
    BY <1>2, <1>3 DEF InStep, NoOrder, NamesOf, Named
<1> QED
    BY <1>4, <1>5, <1>6 DEF IInv

LEMMA SelectTableKeeps ==
    ASSUME IInv, SelectTable
    PROVE  Kept
<1> USE DEF IInv, SelectTable
<1>1. Children' = Children
    BY DEF Children
<1>2. kids \in Seq(Entries)
    BY DEF TypeInv, Lists
<1>3. TypeInv' /\ Present'
    BY <1>1, <1>2 DEF TypeInv, Present
<1>4. InStep'
    BY <1>1 DEF InStep, NoOrder, NamesOf, Twins
<1> QED
    BY <1>3, <1>4 DEF Kept, InStep

LEMMA SelectEntryKeeps ==
    ASSUME IInv, NEW e \in Entries, SelectEntry(e)
    PROVE  Kept
<1> USE DEF IInv, SelectEntry
<1>1. Children' = Children
    BY DEF Children
<1>2. e \in Children
    BY DEF Present, Lists
<1>3. TypeInv' /\ Present'
    BY <1>1, <1>2 DEF TypeInv, Present
<1>4. InStep'
    BY <1>1 DEF InStep, NoOrder, NamesOf, Twins
<1> QED
    BY <1>3, <1>4 DEF Kept, InStep

\* The rows are the items' entries, in their order, wherever there are any.
LEMMA EditRowKeeps ==
    ASSUME IInv, NEW i, EditRow(i)
    PROVE  Kept
<1> USE DEF IInv, EditRow
<1>1. Children' = Children
    BY DEF Children
<1>2. TypeInv' /\ Present'
    BY <1>1 DEF TypeInv, Present
<1>3. ~stale => rows = items
    BY DEF InStep
<1>4. ~stale => last'.meant = last'.hit
    BY <1>3
<1>5. InStep'
    BY <1>1, <1>4 DEF InStep, NoOrder, NamesOf, Twins
<1> QED
    BY <1>2, <1>4, <1>5 DEF Kept

LEMMA RenameKeeps ==
    ASSUME IInv, NEW n \in Names, Rename(n)
    PROVE  Kept
<1> USE DEF IInv, Rename
<1>1. Children' = Children
    BY DEF Children
<1>2. picked \in Children /\ picked \in Entries
    BY DEF Present, TypeInv
<1>3. TypeInv'
    BY <1>1, <1>2 DEF TypeInv
<1>4. Present'
    BY <1>1 DEF Present
<1>5. InStep'
    BY DEF InStep
<1> QED
    BY <1>3, <1>4, <1>5 DEF Kept

\* VAddChild: the new entry's place among the sorted children is its place among
\* the items and the rows.
LEMMA AddChildKeeps ==
    ASSUME EntriesAssumption, IInv, NEW n \in Names, AddChild(n)
    PROVE  Kept
<1>1. PICK e \in Entries \ Children :
         /\ nameOf' = [nameOf EXCEPT ![e] = n]
         /\ kids' \in Sorts(Children \cup {e}, nameOf')
         /\ LET at == CHOOSE i \in DOMAIN kids' : kids'[i] = e
            IN  items' = PutAt(items, at, e) /\ rows' = PutAt(rows, at, e)
    BY DEF AddChild
<1>2. IsFiniteSet(Children) /\ IsFiniteSet(Children \cup {e})
    BY ChildrenAreFinite, FS_AddElement DEF IInv
<1> DEFINE all == Children \cup {e}
<1>3. /\ Lists(kids', all)
      /\ Orders(Named(all, nameOf')) => Sorted(kids', nameOf')
    <2>1. IsFiniteSet(all) /\ kids' \in Sorts(all, nameOf')
        BY <1>1, <1>2
    <2> HIDE DEF all
    <2> QED
        BY <2>1, SortsAre
<1>4. Children' = Children \cup {e}
    BY <1>3 DEF Lists, Children
<1>5. PICK i \in 1..Len(kids') :
        kids'[i] = e /\ items' = InsertAt(items, i, e) /\ rows' = InsertAt(rows, i, e)
    <2>1. DOMAIN kids' = 1..Len(kids') /\ \E i \in DOMAIN kids' : kids'[i] = e
        <3>1. e \in all
            OBVIOUS
        <3> HIDE DEF all
        <3>2. kids' \in Seq(all) /\ e \in ToSet(kids')
            BY <1>3, <3>1 DEF Lists
        <3> QED
            BY <3>2 DEF ToSet
    <2> QED
        BY <1>1, <2>1 DEF PutAt
<1>6. /\ Lists(kids, Children) /\ Lists(items, Children)
      /\ Len(kids') = Len(kids) + 1 /\ Len(kids) \in Nat
      /\ Len(items) = Len(kids) /\ Len(rows) = Len(kids)
    <2>1. Lists(kids, Children) /\ Lists(items, Children) /\ Len(rows) = Len(kids)
        BY DEF IInv, TypeInv, Present, AddChild
    <2>2. Cardinality(Children \cup {e}) = Cardinality(Children) + 1
        BY <1>1, <1>2, FS_AddElement
    <2> QED
        BY <1>3, <2>1, <2>2 DEF Lists
<1>7. /\ \A d \in Children : nameOf'[d] = nameOf[d] /\ nameOf[d] \in Names
      /\ nameOf' \in [Entries -> Names \cup {<<>>}] /\ nameOf'[e] = n
    BY <1>1 DEF IInv, TypeInv
<1>8. TypeInv'
    <2>1. rows' \in Seq(Entries)
        <3>1. rows \in Seq(Entries) /\ i \in 1..(Len(rows) + 1) /\ e \in Entries
            BY <1>1, <1>6 DEF IInv, TypeInv
        <3> QED
            BY <1>5, <3>1, InsertAtIs
    <2>2. Children \cup {e} \subseteq Entries
        BY <1>1 DEF IInv, TypeInv
    <2> QED
        BY <1>3, <1>4, <1>7, <2>1, <2>2 DEF TypeInv
<1>9. Lists(items', Children')
    <2>1. i \in 1..(Len(items) + 1)
        BY <1>6
    <2> QED
        BY <1>1, <1>2, <1>4, <1>5, <1>6, <2>1, PutIn
<1>10. Present'
    BY <1>4, <1>9 DEF Present, IInv, AddChild
<1>11. ASSUME ~stale'
       PROVE  /\ ~freed' /\ ~Twins' /\ items' = kids' /\ rows' \in {<<>>, kids'}
              /\ ~unsorted' => ~NoOrder' /\ Sorted(kids', nameOf')
    <2>1. /\ ~stale /\ ~unsorted /\ ~NoOrder' /\ ~freed'
          /\ ~Twins /\ items = kids /\ rows \in {<<>>, kids} /\ Sorted(kids, nameOf)
        BY <1>11 DEF AddChild, IInv, InStep
    <2>2. Sorted(kids', nameOf')
        BY <1>3, <1>4, <2>1 DEF NoOrder, NamesOf, Named
    <2>3. Sorted(kids, nameOf')
        <3>1. \A j \in DOMAIN kids : kids[j] \in Children
            BY DEF Children, ToSet
        <3> QED
            BY <1>7, <2>1, <3>1 DEF Sorted
    <2>4. Orders(Named(Children, nameOf'))
        <3>1. Orders(Named(all, nameOf'))
            BY <1>4, <2>1 DEF NoOrder, NamesOf, Named
        <3> QED
            BY <3>1 DEF Orders, Named
    <2>5. /\ \A d \in Children : nameOf'[d] \in Names
          /\ \A c, d \in Children : nameOf'[c] = nameOf'[d] => c = d
        BY <1>7, <2>1, NamesDiffer
    <2>6. InsertAt(kids, i, e) = kids'
        <3>1. e \notin Children /\ i \in 1..Len(kids')
            BY <1>1
        <3>2. Lists(kids', Children \cup {e})
            BY <1>3
        <3> QED
            BY <1>2, <1>5, <1>6, <2>2, <2>3, <2>4, <2>5, <3>1, <3>2, BackInOrder
    <2>7. rows = kids
        BY <1>6, <2>1
    <2>8. ~Twins'
        <3>1. Takes(n)
            BY DEF AddChild
        <3> QED
            BY <1>4, <1>7, <2>1, <3>1 DEF Twins, Takes, SameName
    <2> QED
        BY <1>5, <2>1, <2>2, <2>6, <2>7, <2>8
<1> QED
    BY <1>8, <1>10, <1>11 DEF Kept, IInv, InStep, AddChild

\* OnDelete: the name of the entry that is selected finds it, if it is no other's.
LEMMA DeleteKeeps ==
    ASSUME EntriesAssumption, IInv, Delete
    PROVE  Kept
<1> DEFINE at == ByName(picked)
           gone == kids[at]
           spot == SelectInSeq(items, LAMBDA k : k = picked)
<1>1. /\ picked \in Children /\ Lists(kids, Children) /\ Lists(items, Children)
      /\ IsFiniteSet(Children) /\ Len(kids) \in Nat /\ Len(items) \in Nat
    <2>1. picked \in Children /\ Lists(kids, Children) /\ Lists(items, Children)
        BY DEF IInv, TypeInv, Present, Delete
    <2> QED
        BY <2>1, ChildrenAreFinite DEF Lists, IInv
<1>2. at \in 1..Len(kids) /\ SameName(nameOf[gone], nameOf[picked])
    <2> DEFINE I == {i \in 1..Len(kids) : SameName(nameOf[kids[i]], nameOf[picked])}
    <2>1. PICK i \in 1..Len(kids) : kids[i] = picked
        BY <1>1 DEF Lists, ToSet
    <2>2. i \in I
        BY <2>1 DEF SameName
    <2>3. I \in SUBSET (1..Len(kids)) /\ I # {}
        BY <2>2
    <2>4. at = IF I # {} THEN Min(I) ELSE 0
        BY DEF ByName, SelectInSeq
    <2>5. Min(I) \in I
        <3> HIDE DEF I
        <3> QED
            BY <1>1, <2>3, FirstIsOne
    <2> QED
        BY <2>3, <2>4, <2>5
<1>3. spot \in 1..Len(items) /\ items[spot] = picked
    <2> DEFINE I == {i \in 1..Len(items) : items[i] = picked}
    <2>1. PICK i \in 1..Len(items) : items[i] = picked
        BY <1>1 DEF Lists, ToSet
    <2>2. I \in SUBSET (1..Len(items)) /\ I # {}
        BY <2>1
    <2>3. spot = IF I # {} THEN Min(I) ELSE 0
        BY DEF SelectInSeq
    <2>4. Min(I) \in I
        <3> HIDE DEF I
        <3> QED
            BY <1>1, <2>2, FirstIsOne
    <2> QED
        BY <2>2, <2>3, <2>4
<1>4. /\ kids' = RemoveAt(kids, at) /\ items' = RemoveAt(items, spot)
      /\ nameOf' = [nameOf EXCEPT ![gone] = <<>>] /\ freed' = (gone # picked)
      /\ last' = [op |-> "delete", meant |-> picked, hit |-> gone]
      /\ rows' = <<>> /\ picked' = Nobody /\ unsorted' = unsorted /\ stale' = stale
    BY DEF Delete
<1> HIDE DEF at, spot
<1>5. Lists(kids', Children \ {gone})
    BY <1>1, <1>2, <1>4, TakenOut
<1>6. Lists(items', Children \ {picked})
    BY <1>1, <1>3, <1>4, TakenOut
<1>7. Children' = Children \ {gone} /\ gone \in Children
    BY <1>1, <1>2, <1>5 DEF Lists, Children
<1> HIDE DEF gone
<1>8. /\ \A d \in Children' : nameOf'[d] = nameOf[d] /\ nameOf[d] \in Names
      /\ nameOf' \in [Entries -> Names \cup {<<>>}]
    BY <1>4, <1>7 DEF IInv, TypeInv
<1>9. TypeInv'
    BY <1>4, <1>5, <1>7, <1>8 DEF IInv, TypeInv
<1>10. Present'
    BY <1>4, <1>6, <1>7 DEF Present
<1>11. ASSUME ~stale
       PROVE  /\ gone = picked /\ ~Twins' /\ items' = kids'
              /\ ~unsorted' => ~NoOrder' /\ Sorted(kids', nameOf')
    <2>1. /\ ~Twins /\ items = kids
          /\ ~unsorted => ~NoOrder /\ Sorted(kids, nameOf)
        BY <1>11 DEF IInv, InStep
    <2>2. gone = picked
        BY <1>1, <1>2, <1>7, <2>1 DEF Twins, gone
    <2>3. at = spot
        BY <1>1, <1>2, <1>3, <2>1, <2>2 DEF gone, Lists, IsInjective
    <2>4. ~Twins'
        BY <1>7, <1>8, <2>1 DEF Twins
    <2>5. ASSUME ~unsorted PROVE ~NoOrder'
        <3>1. Orders(Named(Children, nameOf))
            BY <2>1, <2>5 DEF NoOrder, NamesOf, Named
        <3>2. Named(Children', nameOf') \subseteq Named(Children, nameOf)
            BY <1>7, <1>8 DEF Named
        <3>3. Orders(Named(Children', nameOf'))
            BY <3>1, <3>2 DEF Orders
        <3> QED
            BY <3>3 DEF NoOrder, NamesOf, Named
    <2>6. ASSUME ~unsorted PROVE Sorted(kids', nameOf')
        <3>1. Sorted(kids', nameOf)
            BY <1>1, <1>2, <1>4, <2>1, <2>6, TakenOut
        <3>2. \A j \in DOMAIN kids' : kids'[j] \in Children'
            BY DEF Children, ToSet
        <3> QED
            BY <1>8, <3>1, <3>2 DEF Sorted
    <2> QED
        BY <1>4, <2>1, <2>2, <2>3, <2>4, <2>5, <2>6
<1>12. InStep'
    BY <1>4, <1>11 DEF InStep
<1> QED
    BY <1>4, <1>9, <1>10, <1>11, <1>12 DEF Kept, IInv

\* _SyncTreeView: the items are made anew, so that they are the sorted children.
LEMMA PasteIntoKeeps ==
    ASSUME EntriesAssumption, IInv, NEW n \in Names, PasteInto(n)
    PROVE  Kept
<1>1. PICK e \in Entries :
         nameOf' = [nameOf EXCEPT ![e] = n] /\ kids' \in Sorts(Children \cup {e}, nameOf')
    BY DEF PasteInto
<1> DEFINE all == Children \cup {e}
<1>2. /\ all \in SUBSET Entries /\ nameOf' \in [Entries -> Names \cup {<<>>}]
      /\ \A d \in all : nameOf'[d] \in Names
    BY <1>1 DEF IInv, TypeInv
<1>3. kids' \in Sorts(all, nameOf')
    BY <1>1
<1> HIDE DEF all
<1>4. /\ items' = kids' /\ rows' = kids' /\ picked' = Nobody /\ last'.meant = last'.hit
      /\ unsorted' = NoOrder' /\ stale' = Twins' /\ freed' = FALSE
    BY DEF PasteInto
<1>5. IInv'
    BY <1>2, <1>3, <1>4, MadeAnew
<1> QED
    BY <1>4, <1>5 DEF Kept

LEMMA ReopenKeeps ==
    ASSUME EntriesAssumption, IInv, Reopen
    PROVE  Kept
<1>1. /\ Children \in SUBSET Entries /\ nameOf' \in [Entries -> Names \cup {<<>>}]
      /\ \A d \in Children : nameOf'[d] \in Names
    BY DEF IInv, TypeInv, Reopen
<1>2. /\ items' = kids' /\ rows' = kids' /\ picked' = Nobody /\ last'.meant = last'.hit
      /\ unsorted' = NoOrder' /\ stale' = Twins' /\ freed' = FALSE
      /\ kids' \in Sorts(Children, nameOf')
    BY DEF Reopen
<1>3. IInv'
    BY <1>1, <1>2, MadeAnew
<1> QED
    BY <1>2, <1>3 DEF Kept

-----------------------------------------------------------------------------
LEMMA InitIInv ==
    ASSUME EntriesAssumption, Init
    PROVE  IInv
<1>1. PICK names \in Stock, es \in SUBSET Entries :
         /\ nameOf \in [Entries -> names \cup {<<>>}]
         /\ \A e \in Entries : nameOf[e] # <<>> <=> e \in es
         /\ kids \in Sorts(es, nameOf)
    BY DEF Init
<1>2. IsFiniteSet(es) /\ names \subseteq Names
    BY FS_Subset DEF EntriesAssumption
<1>3. Lists(kids, es) /\ (Orders(Named(es, nameOf)) => Sorted(kids, nameOf))
    BY <1>1, <1>2, SortsAre
<1>4. Children = es
    BY <1>3 DEF Lists, Children
<1>5. /\ nameOf \in [Entries -> Names \cup {<<>>}]
      /\ \A e \in Children : nameOf[e] \in Names
    BY <1>1, <1>2, <1>4
<1>6. /\ items = kids /\ rows = kids /\ picked = Nobody /\ last.meant = last.hit
      /\ unsorted = NoOrder /\ stale = Twins /\ freed = FALSE
    BY DEF Init
<1>7. kids \in Seq(Entries)
    BY <1>3 DEF Lists
<1>8. TypeInv
    BY <1>3, <1>4, <1>5, <1>6, <1>7 DEF TypeInv
<1>9. Present /\ InStep
    BY <1>3, <1>4, <1>6 DEF Present, InStep, NoOrder, NamesOf, Named
<1> QED
    BY <1>8, <1>9 DEF IInv

LEMMA StepKeeps ==
    ASSUME EntriesAssumption, IInv, [Next]_vars
    PROVE  IInv' /\ [~stale => (last.meant = last.hit)']_vars
<1>1. CASE SelectTable
    BY <1>1, SelectTableKeeps DEF Kept
<1>2. CASE Delete
    BY <1>2, DeleteKeeps DEF Kept
<1>3. CASE Reopen
    BY <1>3, ReopenKeeps DEF Kept
<1>4. CASE \E e \in Entries : SelectEntry(e)
    BY <1>4, SelectEntryKeeps DEF Kept
<1>5. CASE \E i \in 1..Cardinality(Entries) : EditRow(i)
    BY <1>5, EditRowKeeps DEF Kept
<1>6. CASE \E n \in Names : Rename(n)
    BY <1>6, RenameKeeps DEF Kept
<1>7. CASE \E n \in Names : AddChild(n)
    BY <1>7, AddChildKeeps DEF Kept
<1>8. CASE \E n \in Names : PasteInto(n)
    BY <1>8, PasteIntoKeeps DEF Kept
<1>9. CASE UNCHANGED vars
    BY <1>9 DEF vars, IInv, TypeInv, Present, InStep, Children, Twins, NoOrder, NamesOf, Lists, Sorted
<1> QED
    BY <1>1, <1>2, <1>3, <1>4, <1>5, <1>6, <1>7, <1>8, <1>9 DEF Next

\* The editor changes the entry that was picked, for any table and names.
THEOREM MeantIsHit == ASSUME EntriesAssumption PROVE Spec => MeantIsChanged
<1>1. Init => IInv
    BY InitIInv
<1>2. IInv /\ [Next]_vars => IInv' /\ [~stale => (last.meant = last.hit)']_vars
    BY StepKeeps
<1> QED
    BY <1>1, <1>2, PTL DEF Spec, MeantIsChanged
=============================================================================
