----------------------------- MODULE MCLibrary -----------------------------
(***************************************************************************)
(* Seven parts of the program that have no state in common, each explored  *)
(* by itself while the others wait in one initial state: a stream over     *)
(* memory (MemoryStream), the children of a folder (FolderListing), the    *)
(* tables of an RGD file (RgdFile), an archive (SgaLayout), the dumping of *)
(* RGDs to Lua (LuaDump), a material file with its editor (MaterialFile)   *)
(* and a macro (MacroTables).                                              *)
(***************************************************************************)
EXTENDS Storage, TLC, SequencesExt, FiniteSetsExt

CONSTANTS
    None, NoRef, More, Bad,                             \* RgdFile
    SgaVersion,                                         \* SgaLayout
    top, base, one, near, ucs, Absent, NoSuch, Broken   \* LuaDump

VARIABLES
    part,                                                   \* the part that is explored
    root,                                                   \* RgdFile
    tree, input, header, packed, total, disk, step,         \* SgaLayout
    rgd, lua, dumped,                                       \* LuaDump
    rgm, chunked, edited, ended, written,                   \* MaterialFile
    heap, raw, stored, failed, steps                        \* MacroTables

listingVars == <<folds, files, broken>>
sgaVars == <<tree, input, header, packed, total, disk, step>>
dumpVars == <<rgd, lua, dumped>>
materialVars == <<rgm, chunked, edited, ended, written>>
macroVars == <<heap, raw, stored, failed, steps>>

-----------------------------------------------------------------------------
\* Hashes and numbers that sort differently.
Rgd == INSTANCE RgdFile WITH
    RootKeys <- {1, 7}, TableKeys <- {1, 5}, Types <- {"int", "wstring", "table"},
    Texts <- {<<"0">>}, NumberOf <- 1 :> 3 @@ 5 :> 2, Ref <- 4, MaxNodes <- 4

-----------------------------------------------------------------------------
\* Names of children, one of which begins another.
McFolderNames == {<<1>>, <<1, 1>>, <<1, 2>>, <<2>>}
McUnreadable == {<<1, 1>>}

-----------------------------------------------------------------------------
\* Up to four folders below the root, in each of which there may be a, B and _:
\* no file, two files or all of them.  "_" is after "B" and before "b".  Zipped,
\* a is shorter, B as long and _ longer.
McFolders == {below \in SUBSET {<<"a">>, <<"B">>, <<"a", "a">>, <<"B", "a">>} :
                \A d \in below : Len(d) = 1 \/ Front(d) \in below}
McTrees == UNION {LET dirs == {<<>>} \cup below
                      all == {Append(d, n) : d \in dirs, n \in {"a", "B", "_"}}
                  IN  {[dirs |-> dirs, files |-> some] : some \in kSubset(2, all) \cup {{}, all}} :
                  below \in McFolders}

Sga == INSTANCE SgaLayout WITH
    Lower <- [n \in {"a", "B", "b", "_"} |-> IF n = "B" THEN "b" ELSE n],
    Code <- "a" :> 97 @@ "b" :> 98 @@ "B" :> 66 @@ "_" :> 95,
    Lengths <- "a" :> <<5000, 3>> @@ "B" :> <<4, 4>> @@ "_" :> <<0, 8>>,
    Trees <- McTrees, Version <- SgaVersion, Short <- 15
ASSUME Sga!SgaAssumption

SgaWaits == Sga!Init /\ tree.dirs = {<<>>} /\ tree.files = {}

-----------------------------------------------------------------------------
\* top refers to base or to nothing, in its root, in the table it may have
\* below, or in both.  base may be there as an RGD in either root folder or in
\* both, and may be there as an RGD or as a Lua that cannot be loaded.
Table(ref, x, y) == [ref |-> ref, kids |-> <<x, y>>]
McTables(refs) ==
    LET inner == {Table(r, Absent, y) : r \in refs, y \in {Absent, one, near, ucs}}
    IN  {Table(r, x, y) : r \in refs, x \in {Absent, one} \cup inner, y \in {Absent, one, near}}
In(attrib, data) == "attrib" :> attrib @@ "data" :> data
McRgds == {top :> In(t, NoSuch) @@ base :> b :
             t \in McTables({NoRef, base}),
             b \in UNION {{In(u, NoSuch), In(NoSuch, u), In(u, u)} : u \in McTables({NoRef})}
                   \cup {In(Broken, NoSuch)}}
McLuas == {top :> In(NoSuch, NoSuch) @@ base :> In(b, NoSuch) : b \in {NoSuch, Broken}}

Dump == INSTANCE LuaDump WITH
    Names <- {top, base}, Keys <- <<"squad", "cost">>, Atoms <- {one, near, ucs},
    Near <- {one, near}, Ucs <- {ucs}, Rgds <- McRgds, Luas <- McLuas

DumpWaits == rgd = NoSuch /\ lua = NoSuch /\ dumped = NoSuch

-----------------------------------------------------------------------------
\* In a MODL: materials in it or in a folder of it, behind textures, one of which
\* has two spellings, another two children.  A material at the root without a MODL.
McTextures == {"fur", "Fur", "skin", "claw"}
McWords == McTextures \cup {"m", "v", "", "none"}
Is(kind, v) == [is |-> kind, v |-> v]
Chunk(name, id, data) ==
    [type |-> "DATA", name |-> name, desc |-> "v", id |-> id, data |-> data, kids |-> <<>>]
Fold(name, desc, id, inner) ==
    [type |-> "FOLD", name |-> name, desc |-> desc, id |-> id, data |-> <<>>, kids |-> inner]
Set(t, n) == Fold("TSET", t, 0, [i \in 1..n |-> Chunk("DATA", 0, Is("texture", t))])
Mtrl(id, variables) == Fold("MTRL", "m", id, <<Chunk("INFO", 0, Is("shader", "m"))>> \o variables)
Variable(id, t) == Chunk("VAR", id, Is("text", t))
Count(n) == Chunk("INFO", 0, [is |-> "count", n |-> n])
McMaterials ==
    {<<Chunk("FBIF", 0, Is("text", "m")),
       Fold("MODL", "", 0, <<Count(4), Set("fur", 1), Set("skin", 2), Set("claw", 1), Set("Fur", 1),
            Mtrl(1, <<Variable(2, "fur"), Chunk("VAR", 3, [is |-> "number", n |-> 0])>>)>>)>>,
     <<Fold("MODL", "", 0, <<Count(0), Fold("SUB", "m", 0, <<Set("skin", 1), Set("claw", 1),
            Mtrl(4, <<Variable(5, "fur"), Chunk("VAR", 3, [is |-> "array"])>>)>>)>>),
       Set("fur", 1)>>,
     <<Mtrl(1, <<Variable(2, "fur")>>), Set("claw", 1), Set("skin", 1)>>}

Material == INSTANCE MaterialFile WITH
    Names <- {"m", ""}, Texts <- {"fur", "skin", "none"}, Numbers <- {0, 1},
    Lower <- [t \in McWords |-> IF t = "Fur" THEN "fur" ELSE t],
    LengthOf <- [t \in McWords |-> Len(t)],
    Textures <- McTextures, NoText <- "", NoId <- 0, Stock <- McMaterials, MaxChanged <- 1,
    file <- rgm, tree <- chunked, now <- edited, gone <- ended, saved <- written

MaterialWaits == Material!Init /\ chunked = CHOOSE s \in McMaterials : Len(s) = 3

-----------------------------------------------------------------------------
\* Tables in tables, one of them with a number that is shown as a text and would
\* be stored as one; the macro's own tables, one with another in it.
McStored == {"num", "int", "ucs", "false"}
Entry(k, holds) == [key |-> k, holds |-> holds]
Num == <<"value", "num">>
McRgdTables ==
    {0 :> <<Entry("cost", <<"value", "int">>), Entry("sub", <<"table", 1>>)>>
        @@ 1 :> <<Entry("cost", Num)>>,
     0 :> <<Entry("sub", <<"table", 1>>)>> @@ 1 :> <<Entry("sub", <<"table", 2>>)>> @@ 2 :> <<>>}

Macro == INSTANCE MacroTables WITH
    Keys <- {"cost", "sub"}, Values <- McStored, Simple <- {"num", "$1"},
    Shown <- [v \in McStored |-> IF v \in {"int", "ucs"} THEN "$1" ELSE v],
    Kept <- [v \in {"num", "$1"} |-> IF v = "$1" THEN "ucs" ELSE v], False <- "false",
    Made <- {"cost" :> <<"value", "$1">>, "cost" :> Num @@ "sub" :> <<"own", "cost" :> Num>>},
    Stock <- McRgdTables, MaxTables <- 6, MaxSteps <- 2, saved <- stored
ASSUME Macro!MacroAssumption

MacroWaits == Macro!Init /\ DOMAIN heap.of = 0..1

-----------------------------------------------------------------------------
LibraryInit ==
    /\ part \in {"stream", "listing", "rgd", "sga", "dump", "material", "macro"}
    /\ Init /\ Listing!Init /\ Rgd!Init
    /\ IF part = "sga" THEN Sga!Init ELSE SgaWaits
    /\ IF part = "dump" THEN Dump!Init ELSE DumpWaits
    /\ IF part = "material" THEN Material!Init ELSE MaterialWaits
    /\ IF part = "macro" THEN Macro!Init ELSE MacroWaits

LibraryNext ==
    /\ \/ part = "stream" /\ Next
          /\ UNCHANGED <<root, listingVars, sgaVars, dumpVars, materialVars, macroVars>>
       \/ part = "rgd" /\ Rgd!Next
          /\ UNCHANGED <<vars, listingVars, sgaVars, dumpVars, materialVars, macroVars>>
       \/ part = "listing" /\ Listing!Next
          /\ UNCHANGED <<vars, root, sgaVars, dumpVars, materialVars, macroVars>>
       \/ part = "sga" /\ Sga!Next
          /\ UNCHANGED <<vars, root, listingVars, dumpVars, materialVars, macroVars>>
       \/ part = "dump" /\ Dump!Next
          /\ UNCHANGED <<vars, root, listingVars, sgaVars, materialVars, macroVars>>
       \/ part = "material" /\ Material!Next
          /\ UNCHANGED <<vars, root, listingVars, sgaVars, dumpVars, macroVars>>
       \/ part = "macro" /\ Macro!Next
          /\ UNCHANGED <<vars, root, listingVars, sgaVars, dumpVars, materialVars>>
    /\ UNCHANGED part

Library ==
    LibraryInit
    /\ [][LibraryNext]_<<part, vars, root, listingVars, sgaVars, dumpVars, materialVars, macroVars>>

\* RgdFile: what is saved is what is loaded, every value falls on its boundary,
\* and no seek ends a save.
TableIsLoaded == part = "rgd" => Rgd!SavedIsLoaded /\ Rgd!OnBoundaries /\ Rgd!SeeksInside

\* SgaLayout: an archive that a reader accepts is the whole folder.
WholeOrRefused == part = "sga" => Sga!WholeOrRefused

\* LuaDump: burning what was dumped gives the RGD back.
BurnsToTheSame == part = "dump" => Dump!TypeOK /\ Dump!BurnsToTheSame

\* MaterialFile: what was saved is what is loaded, with the textures that its
\* variables name and no other.
MaterialIsLoaded ==
    part = "material" => Material!SavedIsLoaded /\ Material!TexturesFit /\ Material!Settled

\* MacroTables: what is saved is what the macro saw, but for the keys that Lua
\* assigned by itself.
AddedIsSaved == part = "macro" => Macro!AddedIsSaved

\* MacroTables: what a macro assigned is saved.
AssignedIsSaved == part = "macro" => Macro!AssignedIsSaved
=============================================================================
