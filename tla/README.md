# A TLA+ verification of Corsix's Mod Studio

Corsix's Mod Studio edits mods of *Dawn of War* and *Company of Heroes*. A mod is a set of
data folders and SGA archives laid over those of other mods and of the game; the program shows
them as one tree of files, opens editors on them, and converts between the game's formats and Lua.
This directory holds TLA+ models of the parts of the program that keep state and could lose, hide
or mix up a modder's work, the instances TLC checks, and proofs that TLAPS checks.

Paths below are relative to `src/`: `Rainman/` stands for `src/CDMS/Rainman/` (the library),
`CDMS/` for `src/CDMS/CDMS/` (the program). `PROJECT.json` lists for every definition the lines
it models.

## 1. The system

The program is single-threaded: one wxWidgets event loop runs one handler at a time, and the
questions it asks are modal. So there are no data races; what makes it hard is the order in which
users can do things, objects that several parts point into, exceptions that leave an operation
half done and are swallowed further up (`catch(CRainmanException *pE) {pE->destroy();}`), and files
that are rewritten in place, where a failure or a killed program leaves what had been written.

    user ──> ConstructFrame (tabs, menus, tools) ──> editors: RGD, UCS, SCAR, material, properties
                │ DoLoadMod / SetModule        │ DoSave / OnCloseWindow     │ burn, dump, make archive
                v                              v                            v
           CModuleFile ──RegisterSource──> CFileMap <── streams ──> CRgdFile, CLuaFile, CSgaCreator
                │          MapIterator       │  ^                     │            │
                │ .module, CUcsFile          v  │ RewriteToC     CRgdHashTable  CLuaFileCache
                v                   CFileSystemStore, CSgaFile (the sources), CMemoryStore
         ModuleFileWriter                    │
                                             v
                                           disk

| Component | State | Operations | Hard behaviours | What makes it correct |
| --- | --- | --- | --- | --- |
| `CFileMap`: sources | registered sources with sort numbers; per folder the path in each source; per file a `std::map` keyed by *sort number* | RegisterSource, MapSga, MapIterator(Deep), EraseSource, VOpenStream, VOpenOutputStream | sources with equal numbers; a walk or the creation of a folder that throws half way; erasing while streams are open | no map names a freed source; a write goes to the mod being edited and is what is read from then on; nothing brings an older version back |
| `CFileMap`: children of a folder | two vectors per folder | filled by linear search, sorted after a walk, bisected by `_FindFile` | names that begin other names; an interrupted walk leaves vectors unsorted | what is found is what was asked for; every child is found; no two children of one name |
| `CFileMap`: tables of contents | table names, a map of rewrites | RewriteToC, UnrewriteToC | a rewrite outliving the load that asked for it | a path that was written is read back |
| `CModuleFile` | folders, archives, texts and child modules; the file map it may share with its parent | LoadModuleFile, ReloadResources, _CleanResources, LoadSga | loads that throw, things that are missing, children that share map, path and store | nobody points at what was freed, nothing is freed twice, sort numbers say which source is in front |
| `ModuleFileWriter` | the lines of a file, a temporary file | Rainman_UpdateModuleFile | disk errors, two of which are not looked at, and crashes between two calls; keys that are missing, doubled or in other sections | the old or the new file on the disk; other lines unchanged; what was saved is loaded |
| `CMemoryStore` | buffer, position, room left | reads, writes, seeks | a buffer that grows while it is written to; a relative seek past the end, which the check does not refuse | a file with a position |
| `CRgdHashTable` | hash to name, custom or not; `custom.txt` | ValueToHash, HashToValue, SaveCustomKeys | names that dictionaries, users and Lua files bring in any order; a program killed while it saves | pointers into it stay good; a name learnt is known in later runs |
| `CRgdFile`, `frmRgdEditor` | tables of entries; tree, grid and sorted children | add, delete, rename, retype, paste, save, load | a layout written in nested passes with seeks; three lists kept in step by position and by name | what is saved is what is loaded; what is picked is what is changed |
| `CLuaFile`, `CLuaFileCache` | Lua states kept between burns, tables shared until they are used | Inherit, Reference, Fetch, AddToCache | copies on first use through several levels; circles; errors half way; exceptions that leave the whole walk | every file is burnt to what it means alone |
| `CLuaFromRgd` | the Lua files written so far | dump of a folder | a dump reads what earlier dumps wrote | burning a dump gives the RGD back |
| `CSgaCreator`, `CSgaFile` | header in memory, archive on disk | CreateSga; Load, VOpenStream, VIterate | written twice, checksum first; 16-bit counts; ends anywhere | an archive a reader accepts is the whole folder |
| UCS: `CUcsFile`, `CUcsTransaction`, `frmUCSEditor` | the texts in memory, the edits of each tab, the rows of its grid | open, edit, new entry, save, close | several tabs on one file; a save that fails after its edits were committed, or fails and reports success | what was reported saved is in the file, unless writes failed unseen; edits are kept until given up; rows are found |
| Main window and tabs | open pages, their dirty flags, a close in progress | open, edit, save, close a tab, the mod, the program | a close that stops half way; a save that fails inside a close; a close that cannot be vetoed | no change is lost but by its user's "No" |
| `CRgmFile`, `CChunkyFile`, `frmRgmMaterialEditor` | a tree of chunks, materials and variables that point into it | load, edit, save | a save writes values back into the tree, prunes and inserts texture sets by index, and works out every folder's size | what is saved is what is loaded; the texture sets are those that the variables name |
| `CRgdFileMacro` | entries of the RGD, and a Lua table over each that was used | assign, delete, copy a table, GET, save | what a script sees and what is saved are two things that every operation must change alike | what is saved is what the script saw |
| `CInheritTable`, textures, tools, forms, script bindings | | | see section 8 | |

`PROJECT.json` ("components") names every part with its files and says whether it is modelled.

## 2. The modules

| Module | What it is | Read it with |
| --- | --- | --- |
| `Overlay` | abstract: a stack of layers, of which a reader sees the foremost | |
| `FileMap` | `CFileMap`'s sources, indexes and streams; implements `Overlay` | `Rainman/CFileMap.cpp` |
| `FileMapProofs` | theorems about `FileMap` | |
| `FolderListing` | the vectors of one folder's children and the bisection over them | `Rainman/CFileMap.cpp:553-675, 994-1068` |
| `TocRewrite` | tables of contents and their rewriting | `Rainman/CFileMap.cpp:165-189, 492-581` |
| `ModuleLoad` | what a mod loads, owns and shares, and who points into it | `Rainman/CModuleFile.cpp`, `CDMS/Construct.cpp`, `CDMS/Tools.cpp:485` |
| `ModuleLoadProofs` | theorems about `ModuleLoad` | |
| `ModuleFile` | reading and saving a `.module` file | `Rainman/ModuleFileWriter.cpp`, `Rainman/CModuleFile.cpp` |
| `ByteFile` | abstract: bytes and a position | `Rainman/IFileStore.h` |
| `MemoryStream` | `CMemoryStore`'s streams; implements `ByteFile` | `Rainman/CMemoryStore.cpp` |
| `Storage` | streams over memory and folders' children, side by side | |
| `StorageProofs` | theorems about `MemoryStream` and `FolderListing` | |
| `RgdNames` | the names of RGD keys, over several runs of the program | `Rainman/CRgdHashTable.cpp` |
| `RgdNamesProofs` | theorems about `RgdNames` | |
| `RgdFile` | the tables of an RGD file and their layout | `Rainman/CRgdFile.cpp` |
| `RgdOrder` | the order of a table's children | `Rainman/CRgdFile.cpp:1718-1758` |
| `RgdEditor` | the three lists in which the editor keeps a table's children | `CDMS/frmRgdEditor.cpp`, `Rainman/CRgdFile.cpp` |
| `RgdEditorProofs` | theorem about `RgdEditor` | |
| `SgaLayout` | an archive, as it is written and read | `Rainman/CSgaCreator.cpp`, `Rainman/CSgaFile.cpp` |
| `LuaBurn` | Lua files burnt one after the other, with the cache between them | `Rainman/CLuaFile.cpp`, `Rainman/CLuaFileCache.cpp`, `CDMS/frmFiles_Actions.h` |
| `LuaBurnProofs` | theorems about `LuaBurn` | |
| `LuaMeaning` | what a Lua file means by itself; recursive, for TLC only | `Rainman/CLuaFile.cpp` |
| `LuaDump` | RGDs dumped to Lua files that refer to each other | `Rainman/CLuaFromRgd.cpp` |
| `MaterialFile` | a material file, from its bytes to the material editor | `Rainman/CRgmFile.cpp`, `Rainman/CChunkyFile.cpp` |
| `MacroTables` | what a macro does to the tables of an RGD | `Rainman/CRgdFileMacro.cpp` |
| `UcsEditing` | a UCS file, from the disk to the grids of its editors | `Rainman/CUcsFile.cpp`, `Rainman/CUcsTransation.cpp`, `CDMS/frmUCSEditor.cpp` |
| `UcsEditingProofs` | theorems about `UcsEditing` | |
| `EditorTabs` | tabs, dirty flags and the close protocol | `CDMS/Construct.cpp`, the editors' `DoSave` and `OnCloseWindow` |
| `MCFileMap` | a Dawn of War mod's sources for `FileMap` | |
| `MCEditors` | tabs, UCS files, loading, `.module` files, key names, the RGD editor, and the files of a Company of Heroes mod | |
| `EditorsProofs` | theorems about `EditorTabs`, `TocRewrite` and `ModuleFile`, and what the other parts' theorems say of `MCEditors` | |
| `MCLibrary` | streams, folders, RGD files, archives, dumps, materials, macros | |
| `MCLuaBurn` | a folder of Lua files | |

Three modules cut `CFileMap` along its data. `FileMap` takes the children of a folder
to be a set and leaves rewrites out; `FolderListing` says when the vectors behave as that set (as
long as no walk was interrupted), `TocRewrite` what rewriting adds to a lookup. `ModuleLoad` gives the
sources and sort numbers that `FileMap` takes as constants, and `InFront` is what `FileMap` takes
from them. `EditorTabs` treats a document as a set of changes; `UcsEditing`, `RgdEditor` and
`ModuleFile` open up one kind of document each. `LuaDump` takes Lua files to mean their
statements one after the other, which is what `LuaBurn` shows of them.

### FileMap

State: `registered` is `m_vDataSources`; `known` the folders that have a `_Folder`; `names[d]` the
keys of `_Folder::mapSourceNames`; `index[f]` is `_File::mapSources`; `disk` and `dirs` are what the
stores behind the sources hold; `streams` the output streams handed out.

`mapSources` is ordered by a comparator that looks at the sort number only. `Put` and `Drop` model
what that does: `mapSources[s] = t` leaves an *equal* key in place, and `erase(s)` removes whichever
key is equal. Sort numbers are packed as the code packs them (`SortNumber`, 15 bits of mod number,
one of type, 16 of source number), and the limit `0x0000ffff` that `_MakeFolderWritable` compares
with is `OutputLimit`.

| Action | Code |
| --- | --- |
| `Register` | `RegisterSource` |
| `MapSource` | `MapSga`, `MapIterator`, `MapIteratorDeep` with `_RawMap`, walked to the end |
| `MapSourceFails` | the same, left by an exception of `VOpenSubDir`: folders above the unreadable one in part, others entirely or not at all |
| `EraseSource` | `EraseSource`, `_EraseSourceFromFolder` |
| `LookUp` | `_FindFile` (which creates the folders of the path), for `VOpenStream`, `VGetLastWriteTime`, `VIterate` |
| `OpenOutputStream` | `VOpenOutputStream` with `_MakeFolderWritable`: the choice of a source, the folders created, the entry in the file's map |
| `OpenOutputFails` | its exceptions and its auxiliary supply, after the effects they leave in the maps and folders |
| `OpenOutputUntimed` | `VGetLastWriteTime` throws once the store has opened the file (`CFileMap.cpp:250-252`): the file is there, emptied if the stream erases, and the maps are as they were, but for a file that was listed already, whose entry may have been made before the exception |
| `WriteStream`, `CloseStream` | `CFileSystemStore`'s output stream |

`mapSourceNames` is ordered by address, so any suitable source of a folder may be the first:
`Routes` is a relation, not a function.

### FolderListing and TocRewrite

Names in `FolderListing` are sequences of letters. `MapListing` is `_RawMap` over one directory (append what a linear
search does not find, sort at the end: `Sorted` puts each name at its place, the number of those before it), `MapInterrupted` the same left by an exception, before the
sort. `Search` is `_FindFile`'s bisection, with the asymmetric comparison it makes of sub-folders
(`strnicmp` over the length of the part looked for, then the length). `PassFold` and `OpenOutput`
are the insertions of a lookup and of an output stream. In `TocRewrite`, `RewriteToC` and
`UnrewriteToC` change which table of contents a path is looked up in; `Map` does
not follow rewrites; `VOpenOutputStream` names a new file by cutting the *resolved* folder's name
length off the path that was asked for.

### ModuleLoad

A load goes through `todo`, the list of what `ReloadResources` comes to in its order, for each
kind of mod and for an archive opened as one (`ModItems`, `ChildItems`). Each item may be there
(`LoadTexts`, `LoadFolder`, `LoadArchive`, `ListArchives`, `LoadChild`), missing (`Pass`), or throw (`Throw`,
where the code lets it through). Objects carry the number of the load that made them, so that a freed one is
never taken for its successor; `twice` collects what is deleted without being there. `Refresh` is
*Refresh file list*, `CloseMod` is `SetModule(0)`, and `tree` and `tabs` are the pointers the window keeps.

### ModuleFile

A file is a sequence of `Lines`: a header, a managed key with its value, or anything else. `Rewritten`, `NewLines` and `Inserted` are the three passes of `Rainman_UpdateModuleFile` over the
lines; `OpenTemp`, `Write`, `Close` and `Replace` its calls to the disk, each of which may fail and after each of
which the program may be gone (`Reopen`). Two of these calls fail without anybody seeing it: an `fread` that returns
nothing is taken for the end of the file (`_ReadWholeFile`), so `OpenTemp` rewrites what was read until then; and what `fclose` returns is not
looked at (`Close`). `Passed` is what either lets through: any prefix, whose last line may be cut. `unseen` is history: one of them has failed
since the mod was opened.

### MemoryStream, RgdNames, RgdFile, RgdEditor

`MemoryStream` has the pointer and the remaining length apart, as `COutStream` has, and copies
item by item (`CopyItem`, `Grow`), each a step; `ByteFile` has one position and one write per item. What is left is unsigned in the
code, so that the check of a relative seek against the end (`Rainman/CMemoryStore.cpp:204`) compares an unsigned difference with zero and refuses
nothing: `SeekCurrent` goes past the end, and what is left wraps (`Wrapped`, `Modulus`). From there no read is refused and no write adds to the length;
both are of memory that is not the data, of which the model says that reads find anything and writes are lost. `ByteFile` therefore lets its position
pass the end, although the comment at `Rainman/IFileStore.h:101` says that a seek cannot. One caller can go there:
pasting into an RGD table seeks by a length it took from the clipboard (`Rainman/CRgdFile.cpp:1971`).
`RgdNames` runs the program again and again: dictionaries are read before and after `custom.txt`
(`Loaded`), names come from users and Lua files (`Name`, `Meet`), `custom.txt` is written key by key when
the program ends, or not at all (`Killed`). `RgdFile` writes tables to a stream of tagged bytes as `_WriteRawRgdData` does
(zeros first, then each key, its padding and its data, with the seeks between) and reads them as
`_ProcessRawRgdData` does. `RgdEditor` has the three lists (`kids`, `items`, `rows`) and the operations
that find an entry of one in another by position or by name; `std::sort` may return anything when the comparison
is no order (`Sorts`). `RgdOrder` is that comparison; `RgdEditor` takes what it says of its names as a constant (`InOrder`),
so that TLC works it out once. `unsorted` and `stale` are history: when the list of children may be in no order,
and when it was put in one behind the back of the tree.

### SgaLayout

The header is a set of fields at byte offsets; writing one replaces those it overlaps (`Put`). `Scan`
is `_ScanDirectory` with the queue of folders, `PhaseOne` and `PhaseTwo` the two passes over the header.
Each write to the archive is a step after which the creation may end (`Fail`, `WritePart`). The reader has the
checks of `CSgaFile::Load`, the bisection of `VOpenStream` and the lists of `VIterate`.

### LuaBurn and LuaDump

A table of `LuaBurn` has cells; a `Shared` cell is a `tLuaTableProtector` that does not own its table yet, and
`Owned` is the copy made when it is first indexed or written to. `stack` is the loads in progress, `states` the
entries of the cache in their order. The walk (`CLuaBurnFolderAction::Recurse`) comes to the files in any order, and for each one of three things happens: it is
burnt (`Burn`); its RGD is newer, and the walk jumps to the label behind (`FoundNewer`, `Skip`); or the write time cannot be read or
the file not be opened, and an exception leaves the walk and the files that are left (`Throw`, `frmFiles_Actions.h:1841, 1865`), because
neither call is in a `try`. An error in the load itself is caught and shown for that file. `LuaDump` has a dump as one action (nothing else runs in
it); `LoadTable` chooses the file that a reference is compared with, `Node` writes what differs from it.

### MaterialFile and MacroTables

`MaterialFile` has the tree of chunks (`tree`), the materials and variables parsed from it (`now`, by the chunks they point
to), and the file as the pieces that are written one after the other (`file`): `Pieces` is `CChunkyFile::Save`, `Read` and `Load` its reading, where
the size of a folder alone says which pieces are its children. `Updated` is what `CRgmFile::Save` does before it writes:
`WriteChunk`, `UsedTextures`, `TSETPrune`, `Completed`. `SaveFails` leaves any number of pieces.

`MacroTables` has a heap of tables, each with its entries (`of`, the vectors of the RGD) and its Lua table (`lua`, the
`children` of `luae_delayload`, made at first use). `Assign` is where an assignment goes by way of Lua's metatables, `Add`
`luae_newindex`, `Change` `luae_setindex`, `Copy` `luap_setself`, `Get` `luaf_GET`. A script is any sequence of `SetKey`,
`SetSelf` and `SaveAs`; `RunMacro` goes on to the next file.

### UcsEditing

`disk`, `raw`, `own[e]`, `grid[e]` are the file, `CUcsFile::m_mapValues`, each transaction's edits and
each grid's rows. `Write` and `Read` model the conversion of a number (`_ltow` writes a signed long,
`Load` reads digits). `DoSave` commits the edits, forgets them, then writes. A write ends in one of three ways (`Outcomes`): the file is written; it
cannot be opened, which is noticed; or some of its writes fail, which is not, because `CUcsFile::Save` looks at none of what `fwrite`, `fputws` and `fclose` return
(`Rainman/CUcsFile.cpp:66-95`): then any lines may be missing or cut in the file (`Cut`, `WrittenInPart`) and the save is reported as done.
`OnNewEntry` looks for the row of the following entry in its own grid. Five more variables record
what users may rely on: texts typed, edits not reported saved, texts reported saved, the ids of lines that a write lost unseen and none
has written since (`dropped`), edits refused.

### EditorTabs

`ConfirmCloseTabs` asks one page per step (`AskPage`), so that a save, a failure, a "No" and a veto
of different pages come in every order; `Close` is what follows when none has vetoed. `Save` has the
four outcomes the editors' `DoSave` has: saved; refused, with nothing changed; failed after the
output stream emptied the file (`FailsLate`); and reported as saved, the page clean, with any part of the changes in the file (`FailsUnseen`), because no writer looks at
every result: `CUcsFile::Save` at none, and the output stream not at its `fclose` (`Rainman/CFileSystemStore.cpp:183`). `RestoreBackupFile` restores nothing in this version
(`CDMS/Utility.cpp:129`), so the third leaves the file empty; the properties tab, which writes a
temporary file first, does not have that outcome. What either of the last two takes from a file is in `cut`. The properties tab edits the `CModuleFile`, which
outlives it.

## 3. Properties

Every property is preceded in its module by a comment that says what it means for the code. They are:

* `FileMap`: `IndexSound` and `FoldersSound` (no map names a freed source, a file that is not there, or
  a folder that cannot be opened), `OwnModOnly` (only data folders of the mod being edited change),
  `ReadYourWrites`, `NeverFallsBack` (no operation on another source, and no write, uncovers an older
  version), `ContinuesWhatIsRead` (a stream that does not erase continues the file readers see),
  `PureOutputHidden`, and `ImplementsOverlay`, the refinement of the stack of layers.
* `FolderListing`: `SearchSound`, `FoundWhenWalked` (part of `Storage`). `TocRewrite`: `WrittenIsReadBack`.
* `ModuleLoad`: `NothingDangles`, `FreedOnce`, `InFront`.
* `ModuleFile`: `NotTruncated`, which a violation run shows to fail, and `OldOrNew`, `SavedIsLoaded`, `SavedOnceForAll`, `OthersKept`.
* `MemoryStream`: `Consistent`, `NoJunk`, and `IsAFile`, the refinement of `ByteFile`.
* `RgdNames`: `NamesStay`, `KnownForGood`, `NotTwice`.
* `RgdFile`: `SavedIsLoaded`, `OnBoundaries`, `SeeksInside`. `RgdEditor`: `MeantIsChanged`.
  `SgaLayout`: `WholeOrRefused`.
* `LuaBurn`: `NeverCrashes`, `BatchEnds`, and `CacheUntouched`, which is proved; `LuaMeaning`: `BurntAsAlone`. `LuaDump`: `BurnsToTheSame`.
* `MaterialFile`: `SavedIsLoaded`, `TexturesFit`, `Settled`. `MacroTables`: `AddedIsSaved`, `AssignedIsSaved`.
* `UcsEditing`: `SavedIsReadBack`, `EditsAreKept`, `RefusedStaysOut`, `RowsAreFound`.
* `EditorTabs`: `NothingIsLost`, `CleanHasNothing`.

Each property of a passing run has a mutant in `PROJECT.json`: an operator of the module changed as a bug in the
code would change it, under which TLC finds the property violated.

## 4. What the runs check

Parts without state in common are explored by one run: a variable says which part moves, the others wait in one
initial state. So a run's states are the sum of its parts' and not their product. Passing runs
(distinct states in brackets):

| Run | Instance | Shows |
| --- | --- | --- |
| `filemap` (30 877) | locale folder, Data folder, archive, a required mod's folder, all sort numbers distinct; two folders, two files; one stream | soundness of the maps, where writes go, read-your-writes, no fall-back, and the refinement |
| `editors` (279 173), part `tabs` | two documents and the properties tab, two changes, every close vetoable, saves that fail noticed or not | no change is lost but by the save that cuts it, clean tabs have nothing else to lose |
| part `alone` | one UCS editor opened any number of times, two ids, a text, saves that fail and saves that lose lines unseen | retries, what is reported saved, rows |
| part `shared` | two editors on one file, saves that do not fail | a save keeps what the other saved and writes nothing given up |
| part `load` | every kind of mod, two required mods, engines, two loads or refreshes, up to two things missing, anything throwing | pointers, ownership, order of sources |
| part `coh` | two data folders of one number, an archive of a scenario pack, the target of a mass extraction, two streams | the maps stay sound although a file keeps one of two equal keys; the target never serves a read |
| part `toc` | `attrib`, `generic` and a third table of contents, two files one of which ends the other | rewriting and reading back |
| part `module` | four files: without a key, with one twice, outside the section, with a header that only the reader takes; every call may fail, once unseen | atomicity, other lines, reading back, as long as no failure was unseen |
| part `names` | two spellings of a name, a preset number and another, five sets of dictionaries on either side of `custom.txt` | names stay, and are known for good |
| part `editor` | three entries called `a_2`, `A_2`, `a_10`, `a_1z` or `b`, in a table that is empty or has two of them at first | the entry that was picked is changed |
| `library` (181 697), part `stream` | items of one and two bytes, up to two at a time, a buffer that begins with one byte, seeks to either side of the end | a stream over memory is a file |
| part `rgd` | two keys in the root and two in its tables, four nodes, four types | layout and reading back |
| part `listing` | names `1`, `11`, `12`, `2`, listings of up to two names, four children, one unreadable folder | search soundness always, completeness and uniqueness as long as no walk was interrupted |
| part `sga` | up to four folders, up to three files in each, names whose order depends on case | an accepted archive is whole |
| part `dump` | a file and the one it may refer to, in either root folder or both, as RGD or as Lua that cannot be loaded | dumps mean the RGDs |
| part `material` | materials in a MODL, in a folder of it, and without one; a texture in two spellings, one with data of its own; writes that fail anywhere | a saved material is loaded with the textures it names |
| part `macro` | a table in a table, up to two assignments or copies of any table or of the script's own, saves that fail | what is saved is what the script saw, but for the keys that were there when it assigned them |
| `lua_burn` (97 780) | seven files burnt out of twelve: inheritance over three files, changes two tables down, a circle, a file that cannot be opened, inherited and in the folder, an indexed nil; RGDs that are newer, exceptions; the cache cleared every fourth file | files burn as if alone, nothing crashes, the batch ends |

Runs that show a disagreement between the code and what it says of itself (`findings` in
`PROJECT.json` quotes both):

| Run | Finding |
| --- | --- |
| `tabs_exit` | *File, Exit* calls `Close(TRUE)` (`CDMS/Construct.cpp:1313`): the close cannot be vetoed, so a tab whose save fails, or that was answered "Cancel", is destroyed with its changes, where `CHANGELOG.md:123` says it is kept open |
| `tabs_silent` | `frmRGDEditor::OnAddChild`, `OnDelete` and `OnPasteInto` do not set `m_bDataNeedsSaving`: the tab closes without the question `CHANGELOG.md:114` promises |
| `ucs_rows` | two tabs on one UCS file: a new entry is inserted before a row that only the other tab has, and the property grid follows a null pointer, which its own assertion excludes |
| `refresh_stale` | *Refresh file list* deletes the texts of the mod while UCS editors that show them stay open (`CDMS/Tools.cpp:485`), which the comment of `SetModule` says must not be |
| `module_truncated` | an `fread` that fails is taken for the end of the file (`Rainman/ModuleFileWriter.cpp:41-48`) and `fclose` is not looked at (`:198`), so a cut file may replace the module with success, which `ModuleFileWriter.h:34` excludes |
| `macro_lost` | a macro that assigns to a key that is there, or deletes it with `nil`, changes its Lua table only: the function that would change the RGD hangs on the metatable event `__updateindex`, which Lua 5.1 does not have (`Rainman/CRgdFileMacro.cpp:882`); the macro's `save` writes the old value |
| `lua_hollow` | a file without `GameData` is named in the cache before it is refused: the second file that inherits it duplicates a nil (`Rainman/CLuaFile.cpp:370`) |
| `sga_dow` | in an archive for Dawn of War the flags of a file have two bytes where the reader has four (`Rainman/CSgaCreator.cpp:477`): it is accepted and no file in it can be read |

### Bounds and why they are enough

* *FileMap.* Four sources are one of each kind that `_DoLoadFolder` and `_DoLoadArchive` make (own
  folder that is a default output, own folder that is only writable, archive, folder of another
  mod); all comparisons are between two sort numbers, so a third source between any two adds
  nothing but another pair. The tree has a root and a sub-folder: every rule about folders relates a folder
  to its parent. One stream at a time suffices for properties about one step; two are used where
  writes interleave with erasure. `MaxStreams` and the set `Versions` are the only
  bounds; the theorems of section 6 hold for all of them.
* *FolderListing.* The names are a name, two that it begins, and one that follows; vectors of up to four
  children make the bisection turn both ways twice. `MaxListing` and `MaxChildren` bound the vectors.
* *TocRewrite.* Three tables of contents, of which one is not rewritten; the letters of a name count only in their number.
* *ModuleLoad.* `MaxLoads = 2`: what is left of one load can meet one more; a third meets what the second
  leaves. `MaxMissing = 2`. Two required mods give an order between them. The theorems have none of these bounds.
* *ModuleFile.* One key with a default that is no text, one with; every line kind the writer tells apart. One failure that nobody sees in an opening of the mod
  (`Passed`): no property speaks of what comes after it, and opening the mod again lets the next one happen. The theorems share this bound.
* *MemoryStream.* `MaxLength = 4` lets the buffer double twice and the position pass an end before it; `Modulus`, 2^32 in the code, is more than twice
  every length and position. The theorems hold for every `MaxLength` below half of `Modulus`.
* *RgdFile.* Tables no deeper than one below the root, at most `MaxNodes` nodes: padding, nesting and the
  order of keys all occur. *RgdEditor*: three entries, which is what a wrong order of three needs, and a fifth name, in
  order with what is left of such three. The theorem has no such bound.
* *SgaLayout.* `Short = 15` is above the largest count of the trees; `Fits` is the size beyond which counts wrap (a
  hazard that no check of the code excludes).
* *LuaBurn.* `ClearEvery = 4` (256 in the code) clears the cache in the midst of a chain. *LuaDump*: two keys, tables
  one below the root, references one file deep in each direction the search has.
* *UcsEditing.* Three ids (`Ids`, part `shared`) give an entry before, between and after others; two (`AloneIds`, part `alone`) are a line that is lost and one that is
  not, and a row before another; two texts (`Texts`, part `shared`) are two edits that can
  be told apart, each typed once; one (`AloneTexts`) is told from the empty text of a new entry and that of the file. `Half`, half the range of an unsigned long, lies above the ids:
  from `Half` on the written number is negative and is not read back (a hazard in `PROJECT.json`).
* *EditorTabs.* Two documents and the properties tab are the least that have an answer before, at and after a veto; two changes are the one
  that may be lost and one that makes another page ask.
* *MaterialFile.* Every place a texture set can be in (before, between and behind other chunks, below the MODL or not), and one
  edit of a material or variable between two saves (`MaxChanged = 1`), any number of saves.
* *MacroTables.* `MaxSteps = 2` operations of a script, each on any table in reach, with any table as its value: the second can meet what
  the first left in either of the two copies. `MaxTables = 6` counts the tables of the RGD and those that copies make.
Symmetry: the entries of `RgdEditor` (`Attributes`) are only compared for equality in `editors`, and are its only symmetry. `editors` and `library` check no liveness; their temporal properties are action properties and a
refinement without fairness.

Deadlock is checked in all runs but `editors`, `lua_burn` and those with their modules: the program
ends, and so does a batch.

### Switches of passing runs

Two constants turn off, in passing runs, what a finding shows: `Silent = {}` (every handler marks its page) and
`TabsMayStay = FALSE` (a refresh only without UCS editors). `MayVeto = {TRUE}` leaves
*File, Exit* out. The violation runs turn one of them on each.

Failures that the code does not notice are switched off nowhere. History variables (`unseen`, `cut`, `dropped`) say what they took, and the properties except
that and no more: every other change, line and file is still accounted for in the same behaviours. `module_truncated` checks the property without
the exception. The same disagreement in UCS files, where the change log says that a tab whose save fails stays open (`CHANGELOG.md:123-125`), and that of the
seek with its comment (`Rainman/IFileStore.h:101`) have no violation run of their own; they are hazards in `PROJECT.json`.

## 5. Fairness and liveness

`LuaBurn` has `WF_vars(Next)`: the walk over the folder and the loads in it are one loop inside one handler, which
the event loop does not interrupt, so its next step is always taken. Under it `BatchEnds` says that the walk comes to its end:
that circles of files are detected, that an error in a load leaves the load and not the batch, and that a file that is skipped is not
come to again. It does not say that every file is burnt: an exception of `VGetLastWriteTime` or `VOpenStream` leaves the walk (`thrown`), after which
nothing is promised for the files that are left.

No other fairness is assumed. Every other action is started by a user, by a question only a user answers, or may
be prevented by a crash; nothing else in this code retries, waits or runs in the background, so
nothing *must* happen that the code itself brings about.

## 6. What is proved

`tlapm` checks the following for every value of the constants, with the assumptions stated in the modules
(`TreeAssumption`: folders form a forest; `SourceAssumption`: a source's files are in folders it has,
reachable from where it is mounted; `LoadAssumption`: the required mods of a `.module` file have numbers of their own below
15000, which is where the sort numbers of engines begin, `Rainman/CFileMap.h:43`; `ContentAssumption`, `TabsAssumption`,
`StreamAssumption`, `UcsAssumption`, `EntriesAssumption`, `BurnAssumption` and the three `NamesAssumption`s: constants are told apart and of
their types; `ModuleAssumption`: see below).
TLC evaluates all of them for the constants of the runs.

**FileMapProofs.** The invariant is `IInv`, of four parts that lean on each other: `TypeOK`,
`IndexSound`, `FoldersSound` and `StreamsSound`. `TypeOK` includes that a file's map has one key per sort
number, which is what makes `Drop` remove the right key; `IndexSound` needs `FoldersSound` for the
folder of a file that is written for the first time; `OwnModOnly` needs `StreamsSound`, because
bytes arrive on a stream long after its source was chosen. The lemmas `PutMap`, `DropMap` and `EnterMap` say what
the map operations preserve, `RouteSound` what `_MakeFolderWritable` returns, and there is one
step per action above them.

| Theorem | Assuming | Property |
| --- | --- | --- |
| `TypeCorrect`, `IndexSafe`, `FoldersSafe` | | `TypeOK`, `IndexSound`, `FoldersSound` |
| `WritesStayInMod` | | `OwnModOnly` |
| `PureOutputNeverRead` | | `PureOutputHidden` (which the run `editors` checks as a part of `SoundWithTies`) |
| `StreamsContinue` | | `ContinuesWhatIsRead` |
| `WritesAreRead` | `OutputsAlike` | `ReadYourWrites` |
| `NothingFallsBack` | `DistinctSort` | `NeverFallsBack` |
| `Refinement` | `DistinctSort` | `ImplementsOverlay` |

`OutputsAlike` says that of the data folders of the mod being edited, one that has the number of a
default output can be written to itself. It holds because `_DoLoadFolder` registers all of them as
writable, and mod number 0 is theirs alone (`InFront` checks the second half). `DistinctSort` says that no two sources share a number. It holds in a
Dawn of War mod whose `.module` file numbers its folders, archives and required mods apart
(`DataFolder.01`, `DataFolder.02`, ...: the number is read off the key, `CModuleFile.cpp:674`), and
not in Company of Heroes mods: there the number of a folder is the number in its section's name,
and the archives of a scenario pack share one. Erasing one of two such sources takes the key of the other; that is why the two
theorems that compare a file with itself before and after a step need the assumption.

**StorageProofs, MemoryStream.** `IInv` adds to the types that what is left is the length less the pointer, modulo `Modulus` (`Agreed`), and that what is in
front of the end of the data has been written (`Filled`). Past the end the room left is so large that an item adds nothing to the length; that
it can never be taken for the room before the end is what `Modulus > 2 * MaxLength` is for. `PositionsAgree` and `NoJunkRead` follow; `IsAByteFile` is the refinement: each
item copied is a write of `ByteFile`, lost if the position is past the end, and growth a stutter.

**StorageProofs, FolderListing.** `ListingInv` says that, unless a walk was interrupted (`broken`), both vectors are in the order
of their names and have none twice. It rests on four groups of lemmas. `BeforeIsAnOrder`: comparing letter by letter is a
strict order, and of two names one is before the other. `FoldsAreCompared`: what the bisection over the sub-folders compares, a part of
each name and then the lengths, is that order too; so *equal*
can only mean the same name, for files and folders alike, even in vectors that are out of order. `SortedIs`: as many names are before a name as
its place says, so that `Sorted` is in order and has what it was given, once each. `SearchStops`: the range that is left shrinks with
each round and keeps what is looked for as long as the vector is in order. `GrownIs` says that appending what a *linear* search does not
find (`_RawMap`) makes no doubles; with the bisection, which the vector is not sorted for yet, that would fail.

| Theorem | Property |
| --- | --- |
| `PositionsAgree` | `Consistent` |
| `NoJunkRead` | `NoJunk` |
| `IsAByteFile` | `IsAFile` |
| `ChildIsTheOneAskedFor` | `SearchSound` |
| `WalkedIsFound` | `FoundWhenWalked` |

**EditorsProofs, EditorTabs.** `TabsInv` adds to `TypeOK` the parts `Asked` (while a vetoable close is in progress, a dirty page
is still to be asked or its user answered "No") and `InStep` (a copy holds at least what its file
holds). Without `Asked` nothing says that what `Close` deletes has been asked for.

| Theorem | Assuming | Property |
| --- | --- | --- |
| `TypeCorrect` | | `TypeOK` |
| `CleanIsSafe` | `Silent = {}` | `CleanHasNothing` |
| `NothingLost` | `Silent = {}`, `FALSE \notin MayVeto` | `NothingIsLost` |

Both properties except what a save cuts (`cut`): a save that emptied the file and failed, or one that lost changes and reported success.

The two assumptions are exactly the two findings: with a handler that does not mark its page
(`tabs_silent`), or a close that cannot be vetoed (`tabs_exit`), `NothingIsLost` fails. They are theorems of `EditorTabs`' own
specification, of which the run's is an instance (`TabsAsAPart`).

**RgdNamesProofs.** `IInv` is `TypeInv`, `Published` (while the program runs, an entry without a dictionary's name is one no
dictionary names) and `Remembered`: what was learnt is in a dictionary, preset or in `custom.txt`, or it is in the table of the
program that runs *and* flagged as the user's, or it is among the keys a save has still to write. The last two make it
inductive: between the emptying of `custom.txt` and its last line, the file says nothing of a key that will be known again.
A name that is not flagged and in no dictionary must be a number (`Unsaved`), which is why numbers are left out of `learnt`.

| Theorem | Property |
| --- | --- |
| `NamesAreKept` | `NamesStay` |
| `LearntIsKnown` | `KnownForGood` |
| `PublishedIsLeft` | `NotTwice` |

**UcsEditingProofs.** Two invariants, as what holds with several tabs needs writes that succeed, and what holds when writes
fail needs that there is one tab. `InvS` says that file, memory and what was reported saved are one table, that each tab's
transaction is its edits, and that a text is in one place (`Once`). `InvA` accounts for every entry: in memory it is what was
saved, or was given up, or is still an edit of the tab, or its line is one that a write lost unseen (`dropped`); and the grid's rows are the transaction's entries.

| Theorem | Assuming | Property |
| --- | --- | --- |
| `TypeCorrect` | | `TypeOK` |
| `ManyTabsNoFailure` | `SmallIds`, `NoFailure` | `SavedIsReadBack`, `EditsAreKept`, `RefusedStaysOut` |
| `OneTabAnyFailure` | `SmallIds`, `OneTab` | `SavedIsReadBack`, `EditsAreKept`, `RowsAreFound` |

`OneTabAnyFailure` covers writes that are noticed to fail and writes that are not. The assumptions are where the code stops being right: an id of 2^31 or more (`SmallIds`) is written with a sign and not read
back (a hazard of `PROJECT.json`); with two tabs rows are not found (`ucs_rows`); and a text answered "No" after its save failed has been
committed to the `CUcsFile`, so that the next tab's save writes it. The parts `alone` and `shared` of the run `editors` are the two cases.

**EditorsProofs, TocRewrite.** `Straight` says that a table is rewritten only while a file is loaded, `Kept` that every path ever
written was made in the table and under the name it gave; the lemma about lengths shows that what is cut off a path is
its folder. `TocsAreReadBack` proves `WrittenIsReadBack`.

**EditorsProofs, ModuleFile.** `FileWhole`: the file is whole, and so is the temporary file that is about to replace it. `ModuleInv` adds what
is needed to say what is in it: a save in progress has the rewritten lines of *this* file and of *these* values (nobody edits the tab or the
file between `OpenTemp` and `Replace`), and a key that the file has not and of which there is nothing to say has the value the reader gives
such a key. The second is what makes the first save right: without it a key could be left out although the next load shows
something else for it. `UpdatedIs` says what a save makes of any file: every line of a key has the key's value, wherever
it is; a key that is still missing has nothing to say, if there is a `[global]`; the other lines are those of before, in
their order. `UpdatedAgain` and `WrittenIsLoaded` follow from that alone. As the provers have no induction, what the recursive functions
`NewLines` and `OthersOf` are at each index follows from `Iterates` (a function can be built value by value) and `Along` (what is passed
on holds to the end), both from the well-foundedness of the numbers.

| Theorem | Assuming | Property |
| --- | --- | --- |
| `ModulesAreWhole` | | `OldOrNew` |
| `ModuleIsReadBack` | | `ModuleIsLoaded` (`SavedIsLoaded` and `SavedOnceForAll`) |
| `OthersStay` | | `OthersKept` |

The keys, values, lines and files are arbitrary; `ModuleAssumption` says of them that a key whose value can be empty is also empty, as
the reader takes it, when the file does not have it. The texts of `CModuleFile` are null pointers at first and the version numbers have no empty
form, so it holds in the code. All three properties speak of the time before an `fread` or `fclose` has failed unseen (`~unseen`); `module_truncated`
shows that nothing of the kind can be said afterwards. Every other failure, and the end of the program at any call, is covered.

**LuaBurnProofs.** The invariant is that every table of the heap has an owner, the load that made it (`AllFit`: *some* assignment of owners
fits). A load writes only to its own tables, a table that is owned has the owner of the table it is in, and a shared one belongs to
no load that runs (`Sound`): a wrap shares only what a load that is over left in the cache. The lemmas about the heap (`NewTableKeeps`,
`CopyKeeps`, `WriteKeeps`, `OwnedKeeps`, `AssignedKeeps`) say that what the `LuaBurn` operators do keeps this, and `BelowIsIn` that all
that is reached from a state in the cache is among what no step changes. For `NeverCrashes` a second invariant, `Alive`: the loads in
progress are a chain of files each of which inherits the next, none twice but perhaps the first; a load that is past the statement that
assigns `GameData` has it; a state that is named has it.

| Theorem | Assuming | Property |
| --- | --- | --- |
| `TypeCorrect` | | `TypeOK` |
| `CacheIsUntouched` | | `CacheUntouched` |
| `NeverCrashing` | `WithGameData(reached)`, `Shallow` | `NeverCrashes` |

`WithGameData` says that the files that are inherited, directly or through others, from the folder burnt have a `GameData`; `lua_hollow`
shows what one without does. `Shallow` says that no chain of different files is longer than the C stack allows. The
run `lua_burn` satisfies both: its longest chain has five files, `MaxDepth` is 6.

**ModuleLoadProofs.** `IInv` has one part per owner: `Family` (the mod and its children by their numbers, one map for all),
`Marked` (what a module has bears its number), `Owned` (all of it exists, and nothing exists that nobody owns but what the
load lent or lost), `SourcesFit` (a source's numbers and pointers), and `Listed`, about the part of the load that is still to come: no
item makes a child that there is already, and none loads into a module that is not there. Without `Listed` nothing says that two children
differ. `Gone` says what is left when a mod is closed: nothing but the required mod whose file could not be read, which
the code leaks. The lemmas `DowPlain`, `CohPlain`, `EnginesListed`, `RequiredListed` and `ModListed` show it of the lists that
`ReloadResources` goes through for each kind of mod, with any required mods; `Deleted` and `Closes` what `_CleanResources` and
`~CModuleFile` delete; and there is a lemma for each action.

| Theorem | Assuming | Property |
| --- | --- | --- |
| `EachFreedOnce` | | `FreedOnce` |
| `OwnFirst` | | `InFront` |
| `NoneLeftDangling` | `~TabsMayStay` | `NothingDangles` |

`~TabsMayStay` is the finding `refresh_stale`. `OwnFirst` is what lets `FileMap` take sort numbers as constants.

**RgdEditorProofs.** `IInv` says that kids, items and rows each list the children once (`TypeInv`, `Present`) and, while not `stale`, that
they are one list, in the order of its names if these have one and nobody was renamed since (`InStep`). What keeps it is
`OneOrder`: a set of entries with different names has one sorted list. Two such lists would differ first at some place, and
what each has there is later in the other, so neither is before the other; the first place is what the well-foundedness of
the numbers gives (`Smallest`). So the sorted list without the new entry is the list that was there
(`TakenOut`, `BackInOrder`), and putting the new one in the tree where it is now among the children gives that list again.
A first form of the invariant was not inductive: children that std::sort was given no order for stay as they are when
one of them is deleted and the others have an order again, and the next attribute sorts them. `unsorted`
therefore covers them as it does a rename.

| Theorem | Property |
| --- | --- |
| `MeantIsHit` | `MeantIsChanged` |

**EditorsProofs, the parts.** The run `editors` explores parts that share no variable. A step of one is a stutter of the others, so each
part's invariant is one of the whole; `EditorsProofs` draws that conclusion for the instances in `MCEditors`, which cites the
parts' lemmas by the instance (`Load!StepKeeps`), their assumptions being those that `MCEditors` states and TLC evaluates. The ids, texts and tabs, kinds of
mod, keys, `.module` files and tables of contents of `MCEditors` that are constants there stay arbitrary.

| Theorem | Assuming | Property of the run | From |
| --- | --- | --- | --- |
| `ModsFreeOnce`, `ModsInFront` | | `FreedOnce`, `InFront` | `ModuleLoadProofs` |
| `ModsDoNotDangle` | `~TabsMayStay` | `NothingDangles` | `ModuleLoadProofs` |
| `TiesAreSound` | | `SoundWithTies` | `FileMapProofs` |
| `TocsAreReadBack` | | `WrittenIsReadBack` | above |
| `EntriesAreMeant` | | `MeantIsChanged` | `RgdEditorProofs` |
| `KeysKeepNames`, `KeysAreKnown`, `KeysNotTwice` | | `NamesStay`, `KnownForGood`, `NotTwice` | `RgdNamesProofs` |
| `UcsIsReadBack`, `UcsRowsAreFound`, `UcsEditsAreKept`, `UcsRefusedStaysOut` | ids below `Half` | `SavedIsReadBack`, `RowsAreFoundAlone`, `EditsAreKeptAlone`, `RefusedStaysOutShared` | `UcsEditingProofs` |
| `ModulesAreWhole`, `ModuleIsReadBack`, `OthersStay` | | `OldOrNew`, `ModuleIsLoaded`, `OthersKept` | above |

## 7. What is only model-checked

* `BurntAsAlone`, `BurnsToTheSame`, `TableIsLoaded`, `MaterialIsLoaded`, `AddedIsSaved`: what a file *means*, for trees of any depth, is
  said with recursive operators, which the provers do not handle; that two such meanings agree is an induction over data, whose
  theorems in the library take operator parameters that the installed provers cannot instantiate. Of `BurntAsAlone` the part that is not about meaning,
  that what is in the cache is left as it was, is `CacheIsUntouched`.
* `WholeOrRefused`: the archive is a tree too, walked by a recursive scan, and its layout is arithmetic over sums of names' lengths.
* `BatchEnds`: liveness.

## 8. What is abstracted, and what is not modelled

In the modules that exist:

* `FileMap`: write times (it keeps under which key one is stored, not its value, and that reading one may throw); `MapSingleFile`,
  which nothing calls; iterators that stay open while the map changes.
* `ModuleLoad`: required mods have numbers of their own, as they are keyed by them (the code takes two lines of one number, whose
  sources would then share sort numbers); one archive per directory, one text per module; `CFileMap::MapSga` does not throw, as
  `CSgaFile::Load` has read the tables it walks; `LoadModuleFile` that fails leaves nothing; `LoadSga` of an archive that cannot be
  opened is left out, as what it does is undefined. The mutable list of archives chosen for a Company of Heroes mod is two constant sections.
* `ModuleFile`: that `bInGlobal` is not initialised makes no difference to the files considered, none of which has a key before the
  first header.
* `MemoryStream`: what memory a read or write past the end really touches, and what that does to the rest of the program, which may end. Seeks in front of
  the buffer are refused, as in the code. `RgdFile`, which writes through streams, makes no seek past the end (`SeeksInside`).
* `RgdNames`: the hash is a parameter; `custom.txt` exists; the empty line that `fgetline` reads at the end of a dictionary names
  nothing that is looked up.
* `RgdFile`: the chunk around the table (its checksum is computed over what was written), the clipboard. Converting a table
  without a `pExt` to a text reads a null pointer and is not done here.
* `SgaLayout`: one letter per name; checksums and hashes differ when what they are of differs; writes reach the disk in their order.
* `LuaBurn`: the order of the walk, which goes through a list of entries where the model takes any file that is left (so that a label in the wrong
  place shows as a file come to again); `InheritMeta`, the metadata tables, the second reader (`CLuaFile2`). `LuaDump`: files that refer to each other in a circle;
  variants of one file that mean different things beforehand; keys without a name; texts with `]]` in them; what is compared as
  near (0.00001) is one set, within which nearness is transitive.
* `UcsEditing`: DAT files, the modal dialog that holds several UCS editors, files that someone changes behind the program's back.
* `MaterialFile`: files of a version before 3, which would be saved with the longer header of later ones; materials without an
  `INFO`. The bytes of a chunk are one piece: a file that ends within a piece is refused like one that ends within a folder. A
  texture set with more than one chunk that a variable names gets a second, empty one besides (`TexturesFit` allows it). The comment at
  `CRgmFile.cpp:117` speaks of a forward slash where the code looks for a backslash; the set `Textures` stands for either.
* `MacroTables`: tables used after they were deleted, and a table copied into itself (the code recurses until Lua's stack of C calls
  overflows). `GET` of a table from a table raises an error, as `luaf_GET` looks for it under `self` where the file's tables are
  registered under the file (`CRgdFileMacro.cpp:561`). `T.a = nil; T.a = {...}` fails, and `T.a = nil; T.a = 5` leaves two entries
  `a`: both follow from the event that is never raised, and `raw` marks such keys.
* `RgdEditor`: after two siblings were given one name, *Delete this entry* deletes the first of them, whichever is selected
  (`CDMS/frmRgdEditor.cpp:1533`); `MeantIsChanged` makes an exception for such names.

Not modelled: the formats that are conversions of one file into another (RGT, BFX, TGA, DDS), which are
computation over bytes without state between calls; the Lua interpreter and the script bindings, which forward one call
each; the earlier library (`CDoWModule`, `CDoWFileView`), which the editor no longer creates; widgets, menus and forms; vendored
code (zlib, Lua, wxPropertyGrid, squish).

`CInheritTable`: its nodes are found or made and linked by one operation, and what can be said of the links holds by the shape of
a model of them. Reading it showed that `~CNode` deletes the next node of its hash chain and its children, so of two paths with one
CRC32 one is deleted twice (`Rainman/CInheritTable.cpp:21-31`); that `frmLuaInheritTree::OnActivated` deletes its tool twice when the tool
throws (`CDMS/frmLuaInheritTree.cpp:66,69`); and that files which inherit each other in a circle never come under the root.

What could be modelled and is not: the clipboard of the RGD editor; the file tree, which follows the file map by names; the
second Lua reader (`CLuaFile2`); DAT files; the extraction of a list of files.

`PROJECT.json` ("hazards") lists what is hard to test in this code, line by line, with the
properties that cover it or the reason why none does.

## 9. Running it

    tlasany FileMap.tla                               # parse
    tlc -workers 2 -config FileMap.cfg MCFileMap      # a run
    tlapm FileMapProofs.tla                           # the proofs of a module

`filemap`, `editors` and `library` take two to three minutes each (in `filemap` TLC checks the refinement of `Overlay` by enumerating the
layers `Attach` may show), `lua_burn` a little more than one; the proofs of `EditorsProofs` take about five, those of `LuaBurnProofs`, `ModuleLoadProofs` and `StorageProofs` about
three, the others one or less.
