----------------------------- MODULE SgaLayout -----------------------------
(***************************************************************************)
(* An SGA archive as CSgaCreator::CreateSga writes it and CSgaFile reads   *)
(* it.  The data header is a table of fields at byte offsets, made in      *)
(* memory in two phases, written in front of the data as a placeholder,    *)
(* and written over when all files are packed.  Each write to the file is  *)
(* a step, after which the creation may end and leave what it wrote: a     *)
(* failure removes nothing.                                                *)
(*                                                                         *)
(* A path is a sequence of names; a name is one letter.  Checksums differ  *)
(* when what they are of differs.                                          *)
(***************************************************************************)
EXTENDS Integers, SequencesExt, FiniteSetsExt

CONSTANTS
    Lower,    \* Lower[n]: name n in small letters
    Code,     \* Code[n]: n's place in the order of strcmp
    Lengths,  \* Lengths[n]: the bytes of a file of name n, and how many zlib makes of them
    Trees,    \* the folders that may be packed: sets of folders and of files
    Version,  \* 2 (Dawn of War) or 4 (Company of Heroes)
    Short     \* what an unsigned short wraps at

SgaAssumption ==
    /\ Version \in {2, 4}
    /\ \A t \in Trees :
          /\ <<>> \in t.dirs
          /\ \A d \in t.dirs : d = <<>> \/ Front(d) \in t.dirs
          /\ \A f \in t.files : f # <<>> /\ Front(f) \in t.dirs

VARIABLES
    tree,    \* the folder that is packed
    input,   \* pInput and vFilesList: the folder as it was scanned
    header,  \* pDataHeader: the fields written to it
    packed,  \* how many files have been packed
    total,   \* iDataLengthTotal
    disk,    \* the archive: placeholders or checksum, size and offset, header and data
    step     \* how far CreateSga is

vars == <<tree, input, header, packed, total, disk, step>>

-----------------------------------------------------------------------------
(* Bytes: a set of fields, of which a later one replaces those it overlaps *)

Field(at, width, value) == [at |-> at, width |-> width, value |-> value]
Apart(f, g) == f.at + f.width <= g.at \/ g.at + g.width <= f.at
Put(fields, new) == {f \in fields : \A g \in new : Apart(f, g)} \cup new
Unread == -1
Get(fields, at, width) ==
    LET there == {f \in fields : f.at = at /\ f.width = width}
    IN  IF there = {} THEN Unread ELSE (CHOOSE f \in there : TRUE).value
AsShort(n) == n % Short

-----------------------------------------------------------------------------
(* _ScanDirectory: what is in each folder, in the order of the small letters *)

\* Mutant: the names are sorted as they are spelled.
AsSpelled(S) == SetToSortSeq(S, LAMBDA p, q : Code[Last(p)] < Code[Last(q)])

InOrder(S) == SetToSortSeq(S, LAMBDA p, q : Code[Lower[Last(p)]] < Code[Lower[Last(q)]])
DirsIn(t, d) == InOrder({e \in t.dirs : e # <<>> /\ Front(e) = d})
FilesIn(t, d) == InOrder({f \in t.files : Front(f) = d})

\* The bytes of a name or path and the zero after it.
Room(path) == IF path = <<>> THEN 1 ELSE 2 * Len(path)
Small(path) == [i \in DOMAIN path |-> Lower[path[i]]]

\* The folders in the order of the queue they are taken from, the files in the
\* order of the folders, where in both lists those of the first i folders end,
\* and the texts behind the tables, which are the paths of the folders and the
\* names of the files.
Scan(t) ==
    LET n == Cardinality(t.dirs)
        queue[i \in 0..n] == IF i = 0 THEN <<<<>>>> ELSE queue[i - 1] \o DirsIn(t, queue[i - 1][i])
        dirs == queue[n]
        files[i \in 0..n] == IF i = 0 THEN <<>> ELSE files[i - 1] \o FilesIn(t, dirs[i])
        texts == [i \in 1..n |-> Small(dirs[i])]
                 \o [i \in DOMAIN files[n] |-> Small(<<Last(files[n][i])>>)]
        ends[i \in 0..Len(texts)] == IF i = 0 THEN 0 ELSE ends[i - 1] + Room(texts[i])
    IN  [dirs |-> dirs, dirEnds |-> [i \in 0..n |-> Len(queue[i])],
         files |-> files[n], fileEnds |-> [i \in 0..n |-> Len(files[i])],
         texts |-> texts, textEnds |-> ends]

-----------------------------------------------------------------------------
(* The data header *)

HeadLength == 24
TocLength == 138
DirLength == 12
FileLength == IF Version = 4 THEN 22 ELSE 20
DirAt(i) == HeadLength + TocLength + DirLength * (i - 1)
FileAt(in, i) == DirAt(Len(in.dirs) + 1) + FileLength * (i - 1)
NamesAt(in) == FileAt(in, Len(in.files) + 1)
HeaderLength(in) == NamesAt(in) + in.textEnds[Len(in.texts)]

\* The offsets and counts, and the one table of contents.
Heading(in) ==
    LET dirs == AsShort(Len(in.dirs))
        files == AsShort(Len(in.files))
    IN  {Field(6, 4, DirAt(1)), Field(10, 2, dirs), Field(12, 4, FileAt(in, 1)),
         Field(16, 2, files), Field(18, 4, NamesAt(in)),
         Field(152, 2, 0), Field(154, 2, dirs), Field(156, 2, 0), Field(158, 2, files)}

\* The entry of the i-th folder: its name, its first and last folder and file.
DirEntry(in, i) ==
    {Field(DirAt(i), 4, in.textEnds[i - 1]),
     Field(DirAt(i) + 4, 2, AsShort(in.dirEnds[i - 1])),
     Field(DirAt(i) + 6, 2, AsShort(in.dirEnds[i])),
     Field(DirAt(i) + 8, 2, AsShort(in.fileEnds[i - 1])),
     Field(DirAt(i) + 10, 2, AsShort(in.fileEnds[i]))}

PhaseOne(in) ==
    Heading(in) \cup UNION {DirEntry(in, i) : i \in DOMAIN in.dirs}
    \cup {Field(FileAt(in, i), 4, in.textEnds[Len(in.dirs) + i - 1]) : i \in DOMAIN in.files}

Length(f) == Lengths[Last(f)][1]
Zipped(f) == Lengths[Last(f)][2]
IsZipped(f) == Zipped(f) < Length(f)
InArchive(f) == IF IsZipped(f) THEN Zipped(f) ELSE Length(f)

\* Where the file's data is and how long it is, in and out of the archive.  A
\* version 2 entry has four bytes of flags, of which two are written.
PhaseTwo(in, i, at) ==
    LET f == in.files[i]
        e == FileAt(in, i) + 4
        flags == IF ~IsZipped(f) THEN 0 ELSE IF Length(f) < 4096 THEN 32 ELSE 16
    IN  IF Version = 4
        THEN {Field(e, 4, at), Field(e + 4, 4, InArchive(f)), Field(e + 8, 4, Length(f))}
        ELSE {Field(e, 2, flags), Field(e + 2, 4, at), Field(e + 6, 4, InArchive(f)),
              Field(e + 10, 4, Length(f))}

-----------------------------------------------------------------------------
(* CreateSga *)

Base == IF Version = 4 THEN 184 ELSE 180
BeforeData == IF Version = 4 THEN 260 ELSE 0

\* The texts, by where they begin.
TextsOf(in) ==
    [at \in {in.textEnds[i] : i \in 0..Len(in.texts) - 1} |->
        in.texts[CHOOSE i \in DOMAIN in.texts : in.textEnds[i - 1] = at]]

Blank == [md5 |-> {}, size |-> 0, offset |-> 0, head |-> {}, texts |-> <<>>, data |-> {}]

Init ==
    /\ tree \in Trees /\ input = Scan(tree) /\ header = {} /\ packed = 0 /\ total = 0
    /\ disk = Blank /\ step = "idle"

\* The folder has been scanned, and the archive is opened, which empties it; the
\* header is made and written as it is so far.
Begin ==
    /\ step = "idle" /\ step' = "files"
    /\ header' = PhaseOne(input) /\ packed' = 0 /\ total' = 0
    /\ disk' = [Blank EXCEPT !.head = header', !.texts = TextsOf(input)]
    /\ UNCHANGED <<tree, input>>

\* One file is read, packed, entered in the header in memory, and written.
Pack ==
    LET f == input.files[packed + 1]
        at == total + BeforeData
    IN  /\ step = "files" /\ packed < Len(input.files)
        /\ header' = Put(header, PhaseTwo(input, packed + 1, at))
        /\ disk' = [disk EXCEPT !.data =
                      @ \cup {Field(Base + HeaderLength(input) + at, InArchive(f), f)}]
        /\ total' = at + InArchive(f)
        /\ packed' = packed + 1
        /\ UNCHANGED <<tree, input, step>>

\* The checksum of the header, its size, and where the data begins.
WriteMD5 ==
    /\ step = "files" /\ packed = Len(input.files) /\ step' = "size"
    /\ disk' = [disk EXCEPT !.md5 = header]
    /\ UNCHANGED <<tree, input, header, packed, total>>

WriteSize ==
    /\ step = "size" /\ step' = "offset"
    /\ disk' = [disk EXCEPT !.size = HeaderLength(input)]
    /\ UNCHANGED <<tree, input, header, packed, total>>

WriteOffset ==
    /\ step = "offset" /\ step' = "proper"
    /\ disk' = [disk EXCEPT !.offset = HeaderLength(input) + Base]
    /\ UNCHANGED <<tree, input, header, packed, total>>

\* The header over the placeholder; the file's own checksum, which no reader
\* looks at, follows.
WriteHeader ==
    /\ step = "proper" /\ step' = "idle"
    /\ disk' = [disk EXCEPT !.head = header]
    /\ UNCHANGED <<tree, input, header, packed, total>>

\* A write that stops half way.
WritePart ==
    /\ step = "proper" /\ step' = "idle"
    /\ \E end \in {f.at : f \in header} :
          disk' = [disk EXCEPT !.head = {f \in header : f.at < end} \cup {f \in @ : f.at >= end}]
    /\ UNCHANGED <<tree, input, header, packed, total>>

\* A file cannot be read, or a write fails: the archive stays as it is.
Fail ==
    /\ step # "idle" /\ step' = "idle"
    /\ UNCHANGED <<tree, input, header, packed, total, disk>>

Next == Begin \/ Pack \/ WriteMD5 \/ WriteSize \/ WriteOffset \/ WriteHeader \/ WritePart \/ Fail

Spec == Init /\ [][Next]_vars

-----------------------------------------------------------------------------
(* CSgaFile *)

\* Load goes by the checksum of as many bytes as the size says.
Accepted(a) == a.size # 0 /\ a.md5 = a.head

TextOf(a, at) == IF at \in DOMAIN a.texts THEN a.texts[at] ELSE <<>>
DirField(a, i, at, width) == Get(a.head, Get(a.head, 6, 4) + DirLength * i + at, width)
DirName(a, i) == TextOf(a, DirField(a, i, 0, 4))
DirCount(a) == Get(a.head, 10, 2)
FileField(a, i, at) == Get(a.head, Get(a.head, 12, 4) + FileLength * i + at, 4)
FileName(a, i) == TextOf(a, FileField(a, i, 0))

\* Paths that are the same but for their case (crc32_case_idt).
Same(p, q) == Small(p) = Small(q)

\* The bisection over the files of a folder: the number of the one of that name.
\* It ends where the range is empty.
FindFile(a, begin, end, name) ==
    LET from[l, h \in begin..end] ==
          LET m == (l + h) \div 2 IN
          IF h <= l THEN Unread
          ELSE IF Code[Lower[FileName(a, m)[1]]] > Code[Lower[name]] THEN from[l, m]
          ELSE IF Code[Lower[FileName(a, m)[1]]] < Code[Lower[name]] THEN from[m + 1, h]
          ELSE m
    IN  from[begin, end]

\* The data an entry leads to: _SgaFileInfo, _SgaFileInfo4.
DataOf(a, i) ==
    LET skip == IF Version = 2 THEN 8 ELSE 4
        at == FileField(a, i, skip)
        length == FileField(a, i, skip + 4)
        whole == FileField(a, i, skip + 8)
        there == {f \in a.data : f.at = a.offset + at /\ f.width = length}
    IN  IF Unread \in {at, length, whole} THEN {}
        ELSE {f.value : f \in {g \in there : IsZipped(g.value) <=> length # whole}}

\* VOpenStream, of a file in a folder; the folder is found by its checksum.
Opened(a, path) ==
    LET found == {i \in 0..DirCount(a) - 1 : Same(DirName(a, i), Front(path))}
    IN  UNION {LET n == FindFile(a, DirField(a, i, 8, 2), DirField(a, i, 10, 2), Last(path))
               IN  IF n = Unread THEN {} ELSE DataOf(a, n) : i \in found}

\* VIterate: what a folder's entry says is in it.
Listed(a, i) ==
    [dirs |-> {DirName(a, j) : j \in DirField(a, i, 4, 2)..DirField(a, i, 6, 2) - 1},
     files |-> {FileName(a, j)[1] : j \in DirField(a, i, 8, 2)..DirField(a, i, 10, 2) - 1}]

-----------------------------------------------------------------------------
\* The counts fit the fields they are written to.
Fits(t) == Cardinality(t.dirs) < Short /\ Cardinality(t.files) < Short

\* An archive that a reader accepts, at whatever step its creation ended, is
\* the whole folder: every file opens, by its name in any case, to its own
\* bytes, and the list of every folder is what was in it (CreateSga, which
\* writes the checksum before the header it is of, and CSgaFile::Load,
\* VOpenStream and VIterate).
WholeOrRefused ==
    Accepted(disk) /\ Fits(tree) =>
        /\ \A f \in tree.files : Opened(disk, f) = {f}
        /\ DirCount(disk) = Cardinality(tree.dirs)
        /\ \A i \in 0..DirCount(disk) - 1 :
              LET below(S) == {Small(p) : p \in {q \in S : q # <<>> /\ Same(Front(q), DirName(disk, i))}}
              IN  Listed(disk, i) = [dirs |-> below(tree.dirs),
                                     files |-> {Last(f) : f \in below(tree.files)}]
=============================================================================
