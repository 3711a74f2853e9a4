---------------------------- MODULE MaterialFile ----------------------------
(***************************************************************************)
(* A material file (RGM): the tree of chunks that CChunkyFile reads and    *)
(* writes, the materials and variables that CRgmFile finds in it, and what *)
(* the material editor does to them.  A material and a variable point to   *)
(* the chunk they were parsed from; a save writes them back into it, drops *)
(* the textures that no variable names any more, adds those that are new,  *)
(* and writes the tree.                                                    *)
(*                                                                         *)
(* A chunk that something was parsed from has an `id'.  In the file a      *)
(* chunk is a piece, its header, descriptor and data; the size of a folder *)
(* says how many bytes its children take.  Files are of version 3 or       *)
(* later: to earlier ones, which have a shorter header, Save writes the    *)
(* long one.                                                               *)
(***************************************************************************)
EXTENDS Integers, Sequences, FiniteSets, SequencesExt

CONSTANTS
    Names,      \* what a user may call a material or a shader
    Texts,      \* what a user may enter as the text of a variable
    Numbers,    \* the numbers a user may enter
    Lower,      \* Lower[t]: text t in small letters
    LengthOf,   \* LengthOf[t]: its bytes; the empty text has none
    Textures,   \* the texts that may name a texture (CRgmFile.cpp:117-122)
    NoText,     \* the empty text
    NoId,       \* a chunk that nothing was parsed from
    Bad,        \* a file that cannot be loaded
    Stock,      \* the files there may be at first, as trees; every MTRL has an INFO
    MaxChanged  \* bound: the materials and variables that differ from their chunks

VARIABLES
    file,    \* the pieces on the disk
    tree,    \* m_pChunky's chunks
    now,     \* m_vMaterials and their variables, by the ids of their chunks
    gone,    \* the program has ended, and the editor with it
    saved    \* what was saved last; <<>> before a save and after one that failed
             \* (not recorded by the code)

vars == <<file, tree, now, gone, saved>>

-----------------------------------------------------------------------------
(* Chunks *)

Folder(name, desc, id, kids) ==
    [type |-> "FOLD", name |-> name, desc |-> desc, id |-> id, data |-> <<>>, kids |-> kids]
Data(name, desc, id, data) ==
    [type |-> "DATA", name |-> name, desc |-> desc, id |-> id, data |-> data, kids |-> <<>>]

IsFold(c, name) == c.type = "FOLD" /\ c.name = name
IsInfo(c) == c.type = "DATA" /\ c.name = "INFO"
OneChild(c) == IsFold(c, "TSET") /\ Len(c.kids) = 1

\* All chunks, each before its children.
RECURSIVE Flat(_)
Flat(chunks) ==
    FlattenSeq([i \in DOMAIN chunks |-> <<chunks[i]>> \o Flat(chunks[i].kids)])

\* What data is: a text of some kind, a number, an array of numbers, a count.
Width(data) ==
    CASE data.is = "text" -> 13 + LengthOf[data.v]
      [] data.is = "shader" -> 4 + LengthOf[data.v]
      [] data.is = "texture" -> 16 + LengthOf[data.v]
      [] OTHER -> 16

-----------------------------------------------------------------------------
(* The file *)

Header == 28

\* Mutant: the zero after an empty descriptor is counted.
RoomAlways(desc) == LengthOf[desc] + 1

\* The bytes of a descriptor: none for an empty one.
Room(desc) == IF desc = NoText THEN 0 ELSE LengthOf[desc] + 1

\* _FoldUpdateSize: the size of the data, and that of the whole chunk.
RECURSIVE DataLength(_)
FoldUpdateSize(c) == DataLength(c) + Header + Room(c.desc)
DataLength(c) ==
    IF c.type = "DATA" THEN Width(c.data)
    ELSE FoldLeft(LAMBDA n, kid : n + FoldUpdateSize(kid), 0, c.kids)

\* The bytes of a piece: a descriptor of no letters is written without its zero.
Span(c) ==
    Header + (IF c.desc = NoText THEN 0 ELSE LengthOf[c.desc] + 1)
    + (IF c.type = "DATA" THEN Width(c.data) ELSE 0)

\* CChunkyFile::Save.
Pieces(chunks) ==
    LET all == Flat(chunks)
    IN  [i \in DOMAIN all |-> [chunk |-> [all[i] EXCEPT !.kids = <<>>], size |-> DataLength(all[i])]]

\* The chunks from piece i on that begin before byte `end', counted from piece i,
\* and the first piece after them; Bad when the file ends before.
RECURSIVE Read(_, _, _)
Read(pieces, i, end) ==
    IF end <= 0 THEN [chunks |-> <<>>, next |-> i]
    ELSE IF i > Len(pieces) THEN Bad
    ELSE LET c == pieces[i].chunk
             in == Read(pieces, i + 1, IF c.type = "FOLD" THEN pieces[i].size ELSE 0)
         IN  IF in = Bad THEN Bad
             ELSE LET bytes == FoldLeft(LAMBDA n, p : n + Span(p.chunk), 0,
                                        SubSeq(pieces, i, in.next - 1))
                      more == Read(pieces, in.next, end - bytes)
                  IN  IF more = Bad THEN Bad
                      ELSE [chunks |-> <<[c EXCEPT !.kids = in.chunks]>> \o more.chunks,
                            next |-> more.next]

\* CChunkyFile::Load: at the root the chunks end where the file does.
Load(pieces) ==
    LET read == Read(pieces, 1, FoldLeft(LAMBDA n, p : n + Span(p.chunk), 0, pieces))
    IN  IF read = Bad THEN Bad ELSE read.chunks

-----------------------------------------------------------------------------
(* Materials *)

\* _ParseChunk: a material of each MTRL, its last INFO and its variables.
Parsed(chunks) ==
    LET all == ToSet(Flat(chunks))
        mtrls == {c \in all : IsFold(c, "MTRL")}
        inside == UNION {ToSet(m.kids) : m \in mtrls}
        parsed == mtrls \cup {v \in inside : v.name = "VAR"}
    IN  [id \in {c.id : c \in parsed} |->
            LET c == CHOOSE p \in parsed : p.id = id
            IN  IF c.type = "DATA" THEN c.data
                ELSE [name |-> c.desc, shader |-> Last(SelectSeq(c.kids, IsInfo)).data.v]]

\* CMaterial::_WriteChunk, CVariable::_WriteChunk: an array stays as it is.
RECURSIVE WriteChunk(_, _)
WriteChunk(c, values) ==
    LET kids == [i \in DOMAIN c.kids |-> WriteChunk(c.kids[i], values)]
        shader(k) == IF k.name = "INFO" THEN [k EXCEPT !.data = [is |-> "shader", v |-> values[c.id].shader]] ELSE k
    IN  IF c.id = NoId THEN [c EXCEPT !.kids = kids]
        ELSE IF c.type = "FOLD"
        THEN [c EXCEPT !.desc = values[c.id].name, !.kids = [i \in DOMAIN kids |-> shader(kids[i])]]
        ELSE [c EXCEPT !.data = values[c.id]]

Same(s, t) == Lower[s] = Lower[t]

\* vUsedTextures: each texture that the variables name, once, in their order.
UsedTextures(chunks) ==
    LET named == SelectSeq(Flat(chunks), LAMBDA c : /\ c.name = "VAR" /\ c.id # NoId
                                                    /\ c.data.is = "text" /\ c.data.v \in Textures)
    IN  FoldLeft(LAMBDA used, c : IF \E i \in DOMAIN used : Same(used[i], c.data.v) THEN used
                                  ELSE Append(used, c.data.v), <<>>, named)

\* A texture that is not in the file itself and that nobody names.
Unused(c, used) == OneChild(c) /\ \A i \in DOMAIN used : ~Same(c.desc, used[i])

Without(chunks, used) == SelectSeq(chunks, LAMBDA c : ~Unused(c, used))

\* _TSETPrune, for a list of chunks; what is in a TSET is not looked at.
RECURSIVE TSETPrune(_, _)
TSETPrune(chunks, used) ==
    LET kept == Without(chunks, used)
    IN  [i \in DOMAIN kept |->
            IF IsFold(kept[i], "TSET") THEN kept[i]
            ELSE [kept[i] EXCEPT !.kids = TSETPrune(@, used)]]

TextureOf(name) ==
    Folder("TSET", name, NoId, <<Data("DATA", NoText, NoId, [is |-> "texture", v |-> name])>>)

\* Where new textures go in a MODL: in front of the first chunk after the first
\* run of textures, or first of all; the INFO up to there gets the count.  Each
\* is put in front of the one before.
Completed(modl, new, count) ==
    LET kids == modl.kids
        after == {i \in DOMAIN kids : /\ ~IsFold(kids[i], "TSET")
                                      /\ \E j \in 1..(i - 1) : IsFold(kids[j], "TSET")}
        stop == IF after = {} THEN 0 ELSE CHOOSE i \in after : \A j \in after : i <= j
        seen == {i \in DOMAIN kids : IsInfo(kids[i]) /\ (stop # 0 => i <= stop)}
        counted == [i \in DOMAIN kids |->
                      IF i \in seen /\ \A j \in seen : j <= i
                      THEN [kids[i] EXCEPT !.data = [is |-> "count", n |-> count]] ELSE kids[i]]
        before == IF stop = 0 THEN 0 ELSE stop - 1
    IN  [modl EXCEPT !.kids = SubSeq(counted, 1, before)
                              \o Reverse([i \in DOMAIN new |-> TextureOf(new[i])])
                              \o SubSeq(counted, before + 1, Len(counted))]

\* CRgmFile::Save, up to the writing: the last MODL of the root is completed; the
\* count is of the textures that were there before.
Updated(chunks, values) ==
    LET written == [i \in DOMAIN chunks |-> WriteChunk(chunks[i], values)]
        used == UsedTextures(written)
        pruned == TSETPrune(written, used)
        all == Flat(pruned)
        new == SelectSeq(used, LAMBDA t : \A i \in DOMAIN all : OneChild(all[i]) => ~Same(all[i].desc, t))
        count == Len(SelectSeq(all, LAMBDA c : IsFold(c, "TSET")))
        at == SelectLastInSeq(pruned, LAMBDA c : IsFold(c, "MODL"))
    IN  IF at = 0 THEN pruned ELSE [pruned EXCEPT ![at] = Completed(@, new, count)]

-----------------------------------------------------------------------------
Init ==
    /\ \E s \in Stock : file = Pieces(s) /\ tree = s
    /\ now = Parsed(tree) /\ gone = FALSE /\ saved = <<>>

Editing == ~gone /\ UNCHANGED <<file, tree, saved>>

\* OnPropertyChange, by the row: the material's name or shader.
SetName(id, t) == Editing /\ now' = [now EXCEPT ![id].name = t] /\ UNCHANGED gone
SetDxName(id, t) == Editing /\ now' = [now EXCEPT ![id].shader = t] /\ UNCHANGED gone

SetValueText(id, t) ==
    /\ Editing /\ now[id].is = "text"
    /\ now' = [now EXCEPT ![id].v = t] /\ UNCHANGED gone

\* A number and a text share their place (a union), and SetValueNumber deletes
\* the number that was there as if it were a text: with any but 0.0 that ends
\* the program, or does not.
SetValueNumber(id, v) ==
    /\ Editing /\ now[id].is = "number"
    /\ now' = [now EXCEPT ![id].n = v]
    /\ gone' \in IF now[id].n = 0 THEN {FALSE} ELSE BOOLEAN

\* OnSave.
Save ==
    /\ ~gone
    /\ \E t \in {Updated(tree, now)} : tree' = t /\ file' = Pieces(t)
    /\ saved' = now /\ UNCHANGED <<now, gone>>

\* A write fails: the file, which opening it emptied, has what was written, and
\* RestoreBackupFile restores nothing; the chunks are changed all the same.
SaveFails ==
    /\ ~gone
    /\ \E t \in {Updated(tree, now)} :
         /\ tree' = t
         /\ \E n \in 0..(Len(Pieces(t)) - 1) : file' = SubSeq(Pieces(t), 1, n)
    /\ saved' = <<>> /\ UNCHANGED <<now, gone>>

\* The file is opened, with or without what was not saved.
Open ==
    /\ \E t \in {Load(file)} \ {Bad} : tree' = t /\ now' = Parsed(t)
    /\ gone' = FALSE /\ UNCHANGED <<file, saved>>

\* What cannot be loaded is not opened.
OpenFails == Load(file) = Bad /\ UNCHANGED vars

\* The materials (by "shader") or variables (by "is") that may be edited: the
\* bound is on those that differ from their chunks.
Editable(kind) ==
    LET chunks == Parsed(tree)
        changed == {id \in DOMAIN now : now[id] # chunks[id]}
    IN  {id \in DOMAIN now : kind \in DOMAIN now[id] /\ Cardinality(changed \cup {id}) <= MaxChanged}

Next ==
    \/ \E id \in Editable("shader"), t \in Names : SetName(id, t) \/ SetDxName(id, t)
    \/ \E id \in Editable("is") : \/ \E t \in Texts : SetValueText(id, t)
                             \/ \E v \in Numbers : SetValueNumber(id, v)
    \/ Save \/ SaveFails \/ Open \/ OpenFails

Spec == Init /\ [][Next]_vars

-----------------------------------------------------------------------------
\* What is in the file is what was saved last: every chunk, and so every
\* material and variable, whatever was renamed, pruned and inserted around them
\* (CRgmFile::Save, _FoldUpdateSize, CChunk::_Load).
SavedIsLoaded == saved # <<>> => Load(file) = tree /\ Parsed(tree) = saved

\* A saved file has a texture set for every texture that a variable names, if
\* there is a MODL to put it in, none that nobody names, and every set with data
\* of its own that was there (_TSETPrune, Save).
Embedded(chunks) == SelectSeq(Flat(chunks), LAMBDA c : IsFold(c, "TSET") /\ Len(c.kids) > 1)
TexturesFit ==
    saved # <<>> =>
        LET all == ToSet(Flat(tree))
            used == UsedTextures(tree)
        IN  /\ \A c \in all : ~Unused(c, used)
            /\ (\E i \in DOMAIN tree : IsFold(tree[i], "MODL")) =>
                  \A u \in ToSet(used) : \E c \in all : OneChild(c) /\ Same(c.desc, u)
            /\ \E s \in Stock : Embedded(tree) = Embedded(s)

\* Saving what was saved changes nothing but the count of texture sets, which
\* leaves out those that the save before has added (Save).
NoCount(chunks) ==
    LET all == Flat(chunks)
    IN  [i \in DOMAIN all |-> IF IsInfo(all[i]) /\ all[i].data.is = "count" THEN NoText
                              ELSE [all[i] EXCEPT !.kids = Len(@)]]
Settled == saved # <<>> => NoCount(Updated(tree, saved)) = NoCount(tree)
=============================================================================
