----------------------------- MODULE MCFileMap -----------------------------
(***************************************************************************)
(* Small instances of FileMap.  The tree is one table of contents `data'   *)
(* with a sub-folder `sub', one file in each.                              *)
(***************************************************************************)
EXTENDS FileMap, TLC

McFiles == {"top.lua", "deep.rgd"}
McFolders == {"data", "sub"}
McFolderOf == "top.lua" :> "data" @@ "deep.rgd" :> "sub"
McUp == [data |-> {"data"}, sub |-> {"data", "sub"}]

\* A Dawn of War mod: its Data folder, a locale folder before it, an archive of
\* its own, and the Data folder of a required mod.  _DoLoadFolder makes the mod's
\* own folders writable and the Data folders, the required mod's too, default
\* outputs.
DowSources == {"Locale", "Data", "Archive", "Required"}
DowSort == [Locale |-> SortNumber(0, 0, 15000), Data |-> SortNumber(0, 0, 15001),
            Archive |-> SortNumber(0, 1, 15001), Required |-> SortNumber(15001, 0, 15001)]
DowStock == [Locale |-> {"top.lua"}, Data |-> {"top.lua"},
             Archive |-> {"top.lua", "deep.rgd"}, Required |-> {"top.lua"}]
DowDirs == [Locale |-> {"data"}, Data |-> {"data"},
            Archive |-> {"data", "sub"}, Required |-> {"data"}]
AtRoot == [Locale |-> {"data"}, Data |-> {"data"}, Archive |-> {"data"}, Required |-> {"data"}]
=============================================================================
