------------------------------ MODULE RgdOrder ------------------------------
(***************************************************************************)
(* The order in which CMetaTable (CRgdFile) keeps the children of a table: *)
(* _SortCMetaTableChildren, as std::sort is given it.  A name is a         *)
(* sequence of ASCII codes.                                                *)
(***************************************************************************)
EXTENDS Integers, Sequences, SequencesExt

Underscore == 95
IsDigit(c) == c \in 48..57
Folded(n) == [i \in DOMAIN n |-> IF n[i] \in 65..90 THEN n[i] + 32 ELSE n[i]]

\* stricmp(a, b) = 0 and stricmp(a, b) < 0.
SameName(a, b) == Folded(a) = Folded(b)
Stricmp(a, b) ==
    LET x == Folded(a)  y == Folded(b)
    IN  \E i \in DOMAIN y : /\ \A j \in 1..(i - 1) : j \in DOMAIN x /\ x[j] = y[j]
                            /\ i \in DOMAIN x => x[i] < y[i]

\* strrchr(n, '_'), where only digits, and some, are after it; 0 otherwise.
NumberAt(n) ==
    LET at == SelectLastInSeq(n, LAMBDA c : c = Underscore)
    IN  IF at = Len(n) \/ \E i \in (at + 1)..Len(n) : ~IsDigit(n[i]) THEN 0 ELSE at

Prefix(n) == SubSeq(n, 1, NumberAt(n) - 1)
Atol(n) == FoldLeft(LAMBDA v, c : 10 * v + (c - 48), 0, SubSeq(n, NumberAt(n) + 1, Len(n)))

\* _SortCMetaTableChildren: names that end in numbers and are alike before are
\* sorted by those, all others as texts.
Before(a, b) ==
    IF NumberAt(a) # 0 /\ NumberAt(b) # 0 /\ SameName(Prefix(a), Prefix(b))
    THEN Atol(a) < Atol(b)
    ELSE Stricmp(a, b)
=============================================================================
