------------------------------- MODULE Storage -------------------------------
(***************************************************************************)
(* The two parts of the library that StorageProofs is about: a stream over *)
(* memory (MemoryStream) and the children of a folder (FolderListing).     *)
(* They have no state in common.                                           *)
(***************************************************************************)
EXTENDS MemoryStream

CONSTANTS FolderNames, UnreadableFolders, MaxListing, MaxChildren

VARIABLES folds, files, broken  \* FolderListing

Listing == INSTANCE FolderListing WITH Names <- FolderNames, Unreadable <- UnreadableFolders
ASSUME ListingIsSound == Listing!NamesAssumption

\* FolderListing: what a bisection stops at is what was asked for (_FindFile).
SearchSound == Listing!SearchSound

\* FolderListing: every child is found and no two have one name, unless a walk
\* was interrupted (_RawMap).
FoundWhenWalked == Listing!FoundWhenWalked
==============================================================================
