----------------------------- MODULE TocRewrite -----------------------------
(***************************************************************************)
(* Tables of contents and their rewriting (CFileMap::RewriteToC).  While a *)
(* Lua file of `generic' is loaded, every path that begins with `attrib'   *)
(* is looked up in `generic'; nothing is written meanwhile.                *)
(*                                                                         *)
(* Files are in the root folder of their table of contents; every one can  *)
(* be written to.  Names are sequences of letters.                         *)
(***************************************************************************)
EXTENDS Naturals, Sequences

CONSTANTS
    Tocs,     \* names of tables of contents
    Names,    \* names of files
    Attrib,   \* the table of contents that is rewritten,
    Generic,  \* and the one that stands for it meanwhile
    Slash,    \* the letter between the parts of a path
    None

NamesAssumption ==
    /\ Tocs \cup Names \subseteq Seq(Nat) \ {<<>>}
    /\ Attrib \in Tocs /\ Generic \in Tocs
    /\ Slash \in Nat /\ None \notin Tocs

VARIABLES
    tocs,      \* m_vTOCs
    rewrites,  \* m_mapTOCRewrites
    files,     \* files[t]: the names of the files in the root folder of t
    loading,   \* a Lua file of generic is being loaded
    opened     \* the paths VOpenOutputStream was given and the files it opened

vars == <<tocs, rewrites, files, loading, opened>>

\* A path given to the map: its first part and what is left of it.
Path(t, n) == t \o <<Slash>> \o n

\* The table of contents that _FindFile searches for a path of t.
Resolve(t) == IF rewrites[t] # None THEN rewrites[t] ELSE t

\* The file that a path leads to, for a reader.
Holds(t, n) == t \in tocs /\ n \in files[Resolve(t)]

\* Mutant: the separator is kept.
NameWithSlash(t, n) == SubSeq(Path(t, n), Len(Resolve(t)) + 1, Len(Path(t, n)))

\* VOpenOutputStream names the file it creates: the path, less the full name of
\* the folder and one letter.
NewName(t, n) == SubSeq(Path(t, n), Len(Resolve(t)) + 2, Len(Path(t, n)))

Init ==
    /\ tocs = {} /\ loading = FALSE /\ opened = {}
    /\ rewrites = [t \in Tocs |-> None]
    /\ files = [t \in Tocs |-> {}]

\* MapIterator creates the table of contents, and does not follow rewrites.
Map(t, listing) ==
    /\ ~loading
    /\ tocs' = tocs \cup {t}
    /\ files' = [files EXCEPT ![t] = @ \cup listing]
    /\ UNCHANGED <<rewrites, loading, opened>>

\* CLuaFile::Load of a file of generic: RewriteToC, which creates both tables of
\* contents, and the load with every Inherit in it.
RewriteToC ==
    /\ ~loading /\ loading' = TRUE
    /\ tocs' = tocs \cup {Attrib, Generic}
    /\ rewrites' = [rewrites EXCEPT ![Attrib] = Generic]
    /\ UNCHANGED <<files, opened>>

\* Mutant: the load leaves the rewrite in place.
LeftRewritten == loading /\ loading' = FALSE /\ UNCHANGED <<tocs, rewrites, files, opened>>

\* The load ends, whether with an error or not.
UnrewriteToC ==
    /\ loading /\ loading' = FALSE
    /\ rewrites' = [rewrites EXCEPT ![Attrib] = None]
    /\ UNCHANGED <<tocs, files, opened>>

\* A file that is found is opened; one that is not is created, provided there is
\* something left of the path to name it.
VOpenOutputStream(t, n) ==
    /\ ~loading /\ t \in tocs
    /\ LET file == IF Holds(t, n) THEN n ELSE NewName(t, n)
       IN  /\ file # <<>>
           /\ files' = [files EXCEPT ![Resolve(t)] = @ \cup {file}]
           /\ opened' = opened \cup {<<t, n, Resolve(t), file>>}
    /\ UNCHANGED <<tocs, rewrites, loading>>

Next ==
    \/ \E t \in Tocs : \E listing \in SUBSET Names : Map(t, listing)
    \/ RewriteToC \/ UnrewriteToC
    \/ \E t \in Tocs, n \in Names : VOpenOutputStream(t, n)

Spec == Init /\ [][Next]_vars

\* What was written under a path is the file that path still leads to outside a
\* load, in the table of contents the path names and under its whole name:
\* VOpenOutputStream cuts the name of the folder it was led to off the path, and
\* a folder of another table of contents would have a name of another length.
WrittenIsReadBack ==
    \A w \in opened :
        /\ w[3] = w[1] /\ w[4] = w[2]
        /\ ~loading => Resolve(w[1]) = w[3] /\ Holds(w[1], w[2])
=============================================================================
