------------------------------ MODULE RgdFile ------------------------------
(***************************************************************************)
(* CRgdFile: the tables of an RGD file, what the editor does to them, and  *)
(* how they are laid out in the file (_WriteRawRgdData,                    *)
(* _ProcessRawRgdData).                                                    *)
(*                                                                         *)
(* A table is written as a count, three words for every key, and the data  *)
(* the keys give the offsets of; the words are written as zeros first and  *)
(* filled in one by one, the stream going to the data and back each time.  *)
(*                                                                         *)
(* A byte is a pair of what it was written as and its value; the second    *)
(* and later bytes of a value are `More'.                                  *)
(***************************************************************************)
EXTENDS Integers, Sequences, FiniteSets, SequencesExt

CONSTANTS
    RootKeys, TableKeys,  \* the hashes of the keys a user may add, to the root and to its tables
    Types,      \* the types a user may give a node
    Texts,      \* the texts a user may enter as a reference
    NumberOf,   \* NumberOf[h]: the number that h is the hash of, for those that are of one
    Ref,        \* the hash of "$REF", 0x49D60FAE
    NoRef,      \* pExt is 0
    More, Bad,  \* a byte that continues a value; what cannot be read
    MaxNodes    \* bound: on the nodes of a file

VARIABLE root   \* m_pDataChunk->RootEntry

(* A node has a type and a value; a table has children by their hashes and *)
(* an `ext', the reference it inherits from, which the editor does not list *)
(* as a child.                                                             *)
Leaf(type, v) == [type |-> type, v |-> v]
Table(kids, ext) == [type |-> "table", kids |-> kids, ext |-> ext]
IsTable(node) == node.type = "table"
NoData == Leaf("nodata", <<>>)

Bytes == INSTANCE ByteFile WITH
    Byte <- {}, Junk <- {}, MaxLength <- 0, data <- <<>>, pos <- 0, got <- <<>>

-----------------------------------------------------------------------------
(* Writing *)

\* A value of n bytes.
Wide(tag, v, n) == [i \in 1..n |-> IF i = 1 THEN <<tag, v>> ELSE <<"more", More>>]
Zeros(n) == [i \in 1..n |-> <<"char", "NUL">>]

Cells(node) ==
    CASE node.type = "int" -> Wide("int", node.v, 4)
      [] node.type = "bool" -> Wide("bool", node.v, 1)
      [] node.type = "string" -> [i \in DOMAIN node.v |-> <<"char", node.v[i]>>] \o Zeros(1)
      [] node.type = "wstring" -> FlattenSeq([i \in DOMAIN node.v |-> Wide("wide", node.v[i], 2)])
                                      \o Wide("wide", "NUL", 2)

\* A stream over memory: its bytes, its position, and that no seek was refused,
\* which would have ended the save.
Put(s, cells) == [s EXCEPT !.data = Bytes!Overwritten(s.data, s.pos, cells), !.pos = @ + Len(cells)]
SeekRoot(s, p) ==
    IF p \in 0..Len(s.data) THEN [s EXCEPT !.pos = p] ELSE [s EXCEPT !.inside = FALSE]

\* All children have numbers for names; one without a name, as the reference
\* has none that is a number, is enough that they have not.
AllNumeric(table) == table.ext = NoRef /\ DOMAIN table.kids \subseteq DOMAIN NumberOf

\* What is written of a table: not what has no data.
Written(table) ==
    LET isRef == table.ext \notin {NoRef, NoData}
    IN  [h \in DOMAIN table.kids \cup (IF isRef THEN {Ref} ELSE {}) |->
            IF h = Ref THEN table.ext ELSE table.kids[h]]

\* By the hashes, or by the numbers when all are numbers.
Sorted(entries, numeric) ==
    SetToSortSeq(DOMAIN entries,
        LAMBDA a, b : IF numeric THEN NumberOf[a] < NumberOf[b] ELSE a < b)

Boundary(node) ==
    CASE node.type \in {"int", "table"} -> 4
      [] node.type = "wstring" -> 2
      [] OTHER -> 1

Pad(len, boundary) == (boundary - (len % boundary)) % boundary

\* Where the stream goes to write a value that is to be at `at' after padding.
DataAt(dataOffset, at, pad) == dataOffset + at - pad

\* Mutant: of a table, the part that is its own is counted.
LengthOwn(begin, end, node) ==
    IF IsTable(node) THEN 4 + 12 * Cardinality(DOMAIN Written(node)) ELSE end - begin

\* How much a value has added to the data.
LengthOf(begin, end, node) == end - begin

RECURSIVE WriteTable(_, _, _)
WriteTable(stream, table, numeric) ==
    LET entries == Written(table)
        keys == Sorted(entries, numeric)
        begin == stream.pos + 4
        dataOffset == begin + 12 * Len(keys)
        dummies == Put(Put(stream, Wide("long", Len(keys), 4)), Zeros(12 * Len(keys)))
        WriteEntry(done, h) ==
            LET node == entries[h]
                pad == Pad(done.len, Boundary(node))
                at == done.len + pad
                type == IF IsTable(node) /\ AllNumeric(node) THEN "tableint" ELSE node.type
                keyed == Put(done.stream, Wide("long", h, 4) \o Wide("type", type, 4) \o Wide("long", at, 4))
                padded == Put(SeekRoot(keyed, DataAt(dataOffset, at, pad)), Zeros(pad))
                valued == IF IsTable(node) THEN WriteTable(padded, node, AllNumeric(node))
                          ELSE Put(padded, Cells(node))
            IN  [stream |-> SeekRoot(valued, keyed.pos),
                 len |-> at + LengthOf(padded.pos, valued.pos, node)]
        all == FoldLeft(WriteEntry, [stream |-> SeekRoot(dummies, begin), len |-> 0], keys)
    IN  SeekRoot(all.stream, dataOffset + all.len)

\* The data of the chunk, made in a new stream over memory.
Raw(table) == WriteTable([data |-> <<>>, pos |-> 0, inside |-> TRUE], table, FALSE)

-----------------------------------------------------------------------------
(* Reading *)

\* n bytes from p on that were written as a value of kind `tag'.
At(data, p, tag, n) ==
    IF /\ p + n <= Len(data) /\ data[p + 1][1] = tag
       /\ \A i \in 2..n : data[p + i][1] = "more"
    THEN data[p + 1][2] ELSE Bad

\* The characters from p up to the one that ends the text.
TextAt(data, p, tag, n) ==
    LET Char(i) == At(data, p + i * n, tag, n)
        ends == {i \in 0..Len(data) : Char(i) \in {"NUL", Bad}}
        len == CHOOSE i \in ends : \A j \in ends : i <= j
    IN  IF Char(len) = Bad THEN Bad ELSE [i \in 1..len |-> Char(i - 1)]

RECURSIVE ReadTable(_, _)
ReadNode(data, p, type) ==
    CASE type = "int" -> Leaf(type, At(data, p, "int", 4))
      [] type = "bool" -> Leaf(type, At(data, p, "bool", 1))
      [] type = "string" -> Leaf(type, TextAt(data, p, "char", 1))
      [] type = "wstring" -> Leaf(type, TextAt(data, p, "wide", 2))
      [] type \in {"table", "tableint"} -> ReadTable(data, p)
      [] OTHER -> Bad

\* A text under "$REF" is what the table inherits from.
IsRef(h, node) == h = Ref /\ node.type \in {"string", "wstring"}

ReadTable(data, p) ==
    LET count == At(data, p, "long", 4)
        Key(i) == p + 4 + 12 * (i - 1)
        HashOf(i) == At(data, Key(i), "long", 4)
        Node(i) == ReadNode(data, p + 4 + 12 * count + At(data, Key(i) + 8, "long", 4),
                            At(data, Key(i) + 4, "type", 4))
        refs == {i \in 1..count : IsRef(HashOf(i), Node(i))}
    IN  IF count = Bad THEN Bad
        ELSE IF \E i \in 1..count : \/ HashOf(i) = Bad
                                    \/ At(data, Key(i) + 8, "long", 4) = Bad
             THEN Bad
        ELSE Table([h \in {HashOf(i) : i \in (1..count) \ refs} |->
                        Node(CHOOSE i \in 1..count : HashOf(i) = h)],
                   IF refs = {} THEN NoRef ELSE Node(CHOOSE i \in refs : TRUE))

-----------------------------------------------------------------------------
(* What the editor does *)

False == <<"f", "a", "l", "s", "e">>
True == <<"t", "r", "u", "e">>
Digits(i) == IF i = 0 THEN <<"0">> ELSE <<"1">>

AsInt(node) ==
    CASE node.type = "bool" -> IF node.v THEN 1 ELSE 0
      [] node.type \in {"string", "wstring"} -> IF node.v = Digits(1) THEN 1 ELSE 0
      [] OTHER -> 0
AsBool(node) ==
    CASE node.type = "int" -> node.v # 0
      [] node.type \in {"string", "wstring"} -> node.v # <<>>
      [] OTHER -> FALSE
AsText(node) ==
    CASE node.type = "int" -> Digits(node.v)
      [] node.type = "bool" -> IF node.v THEN True ELSE False
      [] node.type \in {"string", "wstring"} -> node.v
      [] OTHER -> <<>>

\* VSetType: a table that was a text inherits from it, and a table made a text
\* becomes what it inherits from; one without a pExt is not made a text, the
\* program would be gone (it reads the type of *pExt).
Converted(node, type) ==
    LET source == IF IsTable(node) THEN node.ext ELSE node
    IN  CASE type = "int" -> Leaf(type, IF IsTable(node) THEN 0 ELSE AsInt(node))
          [] type = "bool" -> Leaf(type, IF IsTable(node) THEN FALSE ELSE AsBool(node))
          [] type \in {"string", "wstring"} -> Leaf(type, AsText(source))
          [] type = "table" -> Table(<<>>, IF node.type \in {"string", "wstring"} THEN node ELSE NoData)

\* The tables of the file a user can work in: the root, and its children.
Paths == {<<>>} \cup {<<h>> : h \in {h \in DOMAIN root.kids : IsTable(root.kids[h])}}
TableAt(path) == IF path = <<>> THEN root ELSE root.kids[path[1]]
SetTable(path, table) ==
    root' = IF path = <<>> THEN table ELSE [root EXCEPT !.kids[path[1]] = table]
WithChild(table, h, node) ==
    [table EXCEPT !.kids = [k \in DOMAIN table.kids \cup {h} |-> IF k = h THEN node ELSE table.kids[k]]]
WithoutChild(table, h) ==
    [table EXCEPT !.kids = [k \in DOMAIN table.kids \ {h} |-> table.kids[k]]]

RECURSIVE Size(_)
Size(node) ==
    IF IsTable(node) THEN 1 + FoldFunction(LAMBDA a, b : a + b, 0, [h \in DOMAIN node.kids |-> Size(node.kids[h])])
    ELSE 1

Init == root = Table(<<>>, NoRef)

\* VAddChild: a child of that hash, or name, must not be there.
VAddChild(path, h) ==
    /\ h \notin DOMAIN TableAt(path).kids /\ Size(root) < MaxNodes
    /\ SetTable(path, WithChild(TableAt(path), h, Leaf("bool", FALSE)))

VDeleteChild(path, h) ==
    /\ h \in DOMAIN TableAt(path).kids
    /\ SetTable(path, WithoutChild(TableAt(path), h))

VSetType(path, h, type) ==
    /\ h \in DOMAIN TableAt(path).kids
    /\ LET node == TableAt(path).kids[h]
       IN  /\ type # node.type
           /\ type \in {"string", "wstring"} /\ IsTable(node) => node.ext # NoRef
           /\ type = "table" => path = <<>>   \* bound: no deeper tables
           /\ SetTable(path, WithChild(TableAt(path), h, Converted(node, type)))

\* _DoValueChange for a table: it inherits from a text, a wide one if it was.
SetReference(path, text) ==
    LET ext == TableAt(path).ext
        type == IF ext # NoRef /\ ext.type = "wstring" THEN "wstring" ELSE "string"
    IN  SetTable(path, [TableAt(path) EXCEPT !.ext = Leaf(type, text)])

\* The file is saved, closed and opened again.
Reopen == root' = ReadTable(Raw(root).data, 0)

KeysIn(path) == IF path = <<>> THEN RootKeys ELSE TableKeys

Next ==
    \/ \E path \in Paths : \E h \in KeysIn(path) :
           \/ VAddChild(path, h) \/ VDeleteChild(path, h)
           \/ \E type \in Types : VSetType(path, h, type)
    \/ \E path \in Paths : \E text \in Texts : SetReference(path, text)
    \/ Reopen

Spec == Init /\ [][Next]_root

-----------------------------------------------------------------------------
\* A table as it is after a load: the reference a user can see, or none.
RECURSIVE Loaded(_)
Loaded(node) ==
    IF IsTable(node)
    THEN Table([h \in DOMAIN node.kids |-> Loaded(node.kids[h])],
               IF node.ext = NoData THEN NoRef ELSE node.ext)
    ELSE node

\* What the editor has is what a load of the saved file gives
\* (_WriteRawRgdData, _ProcessRawRgdData).
SavedIsLoaded == ReadTable(Raw(root).data, 0) = Loaded(root)

\* "if it is N bytes big, it falls on an N byte boundry" (CRgdFile.cpp:934).
OnBoundaries ==
    LET data == Raw(root).data
        Size2(p) == Cardinality({q \in p..Len(data) : \A i \in (p + 1)..q : data[i][1] = "more"})
    IN  \A p \in DOMAIN data : data[p][1] # "more" => (p - 1) % Size2(p) = 0

\* The stream is sent to no place it has not reached: such a seek throws, and
\* with it the save (CMemoryStore::COutStream::VSeek).
SeeksInside == Raw(root).inside
=============================================================================
