--------------------------- MODULE FolderListing ---------------------------
(***************************************************************************)
(* The children of one CFileMap::_Folder (Rainman/CFileMap.cpp): two       *)
(* vectors that _RawMap fills by linear search and push_back, sorting them *)
(* when a whole directory has been walked, and that _FindFile takes to be  *)
(* sorted.  FileMap abstracts both to sets of names.                       *)
(*                                                                         *)
(* A name is a sequence of letters, case folded; a child is its name.      *)
(***************************************************************************)
EXTENDS Naturals, FiniteSets, SequencesExt

CONSTANTS
    Names,        \* names of children
    Unreadable,   \* sub-folders at, or below, which VOpenSubDir throws
    MaxListing,   \* bound: sub-folders and files a source lists
    MaxChildren   \* bound: length of the vectors

NamesAssumption ==
    /\ Names \subseteq Seq(Nat) \ {<<>>}
    /\ Unreadable \subseteq Names
    /\ MaxListing \in Nat /\ MaxChildren \in Nat

VARIABLES folds,  \* vChildFolders
          files,  \* vChildFiles
          broken  \* a walk was interrupted by an exception (not recorded by the code)

vars == <<folds, files, broken>>

-----------------------------------------------------------------------------
(* Comparing names, sorting and searching *)

\* stricmp(a, b) < 0: where they differ first, a has a letter before b's or none.
Before(a, b) ==
    \E i \in 1..Len(b) :
        /\ \A j \in 1..(i - 1) : j <= Len(a) /\ a[j] = b[j]
        /\ i <= Len(a) => a[i] < b[i]

\* What strnicmp sees of a name.
Cut(a, n) == IF n < Len(a) THEN SubSeq(a, 1, n) ELSE a

\* Mutant: the vectors are left as they were filled.
LeftAsFilled(v) == v

\* std::sort with _SortFiles, _SortFolds: what is less is before a child, and
\* what has its name and was.
Place(v, i) == Cardinality({j \in DOMAIN v : Before(v[j], v[i]) \/ (v[j] = v[i] /\ j < i)}) + 1
Sorted(v) == [n \in DOMAIN v |-> v[CHOOSE i \in DOMAIN v : Place(v, i) = n]]

\* Mutant: the length of the child's name is not compared.
HigherByPrefix(c, n) == Before(n, Cut(c, Len(n)))

\* Where _FindFile's loop goes when it meets the child folder c on its way to
\* the part n of a path.  strnicmp compares as much of c as n has; a longer
\* name that begins with n comes after n.
Higher(c, n) == Before(n, Cut(c, Len(n))) \/ (Cut(c, Len(n)) = n /\ Len(c) # Len(n))
Lower(c, n) == Before(Cut(c, Len(n)), n)

\* The binary search among so many children, some of which are too high and
\* some too low: the position it stops at, or 0.  A round leaves one half.
Mid(r) == (r.lo + r.hi) \div 2
Halved(r, higher, lower) ==
    CASE r.lo < r.hi /\ Mid(r) + 1 \in higher -> [r EXCEPT !.hi = Mid(r)]
      [] r.lo < r.hi /\ Mid(r) + 1 \in lower \ higher -> [r EXCEPT !.lo = Mid(r) + 1]
      [] OTHER -> r
Search(size, higher, lower) ==
    LET range[i \in 0..size] ==
            IF i = 0 THEN [lo |-> 0, hi |-> size] ELSE Halved(range[i - 1], higher, lower)
    IN  IF range[size].lo < range[size].hi THEN Mid(range[size]) + 1 ELSE 0

FindFold(n) == Search(Len(folds), {i \in DOMAIN folds : Higher(folds[i], n)},
                                  {i \in DOMAIN folds : Lower(folds[i], n)})
FindFile(n) == Search(Len(files), {i \in DOMAIN files : Before(n, files[i])},
                                  {i \in DOMAIN files : Before(files[i], n)})

-----------------------------------------------------------------------------
(* What is done to the vectors *)

\* What a directory walk meets, in any order: sub-folders and files.
Listings == UNION {{p \in [1..k -> Names] : IsInjective(p)} : k \in 0..MaxListing}
Walks == {w \in Listings \X Listings : Len(w[1]) + Len(w[2]) <= MaxListing}

\* Each name met is looked for among the children, one by one, and appended.
Grown(v, listing) ==
    LET grown[i \in 0..Len(listing)] ==
            IF i = 0 THEN v
            ELSE IF Contains(grown[i - 1], listing[i]) THEN grown[i - 1]
            ELSE Append(grown[i - 1], listing[i])
    IN  grown[Len(listing)]

Fits(v) == Len(v) <= MaxChildren

Init == folds = <<>> /\ files = <<>> /\ broken = FALSE

\* _RawMap walks the whole of a source's folder.
MapListing ==
    \E walk \in Walks :
    LET grownFolds == Grown(folds, walk[1])  grownFiles == Grown(files, walk[2]) IN
        /\ ToSet(walk[1]) \cap Unreadable = {}
        /\ Fits(grownFolds) /\ folds' = Sorted(grownFolds)
        /\ Fits(grownFiles) /\ files' = Sorted(grownFiles)
        /\ UNCHANGED broken

\* An exception leaves _RawMap from the walk of a sub-folder: what was appended
\* by then stays, and neither vector is sorted.  _DoLoadFolder drops the
\* exception and keeps the source.
MapInterrupted ==
    \E walk \in Walks : LET subdirs == walk[1]  leaves == walk[2] IN
        /\ subdirs # <<>> /\ Last(subdirs) \in Unreadable
        /\ ToSet(Front(subdirs)) \cap Unreadable = {}
        /\ folds' = Grown(folds, subdirs) /\ Fits(folds')
        /\ files' = Grown(files, leaves) /\ Fits(files')
        /\ broken' = TRUE

\* _FindFile passes through the sub-folder n, and creates it if need be.
PassFold(n) ==
    /\ FindFold(n) = 0
    /\ Len(folds) < MaxChildren /\ folds' = Sorted(Append(folds, n))
    /\ UNCHANGED <<files, broken>>

\* VOpenOutputStream of n: a file not found is appended; the files are sorted
\* in any case.
OpenOutput(n) ==
    LET grown == IF FindFile(n) = 0 THEN Append(files, n) ELSE files IN
        /\ Fits(grown) /\ files' = Sorted(grown)
        /\ UNCHANGED <<folds, broken>>

Next ==
    \/ MapListing
    \/ MapInterrupted
    \/ \E n \in Names : PassFold(n) \/ OpenOutput(n)

Spec == Init /\ [][Next]_vars

-----------------------------------------------------------------------------
(* What makes lookup correct *)

\* What the search stops at is what was asked for, sorted or not: no path is
\* ever taken into another folder with the same beginning, or to another file.
SearchSound ==
    \A n \in Names : /\ FindFold(n) # 0 => folds[FindFold(n)] = n
                     /\ FindFile(n) # 0 => files[FindFile(n)] = n

\* Every child can be reached by its name: _FindFile "Finds the file of the
\* given name in the files tree" (CFileMap.h:208).
EveryChildFound ==
    \A n \in Names : /\ Contains(folds, n) => FindFold(n) # 0
                     /\ Contains(files, n) => FindFile(n) # 0

\* No two children have one name: a path leads to one _File, with all the
\* sources of that file in one map.
NoTwins == IsInjective(folds) /\ IsInjective(files)

\* Both, as long as every walk came to its end.
FoundWhenWalked == broken \/ (EveryChildFound /\ NoTwins)
=============================================================================
