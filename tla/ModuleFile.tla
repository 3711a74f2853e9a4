----------------------------- MODULE ModuleFile -----------------------------
(***************************************************************************)
(* The .module file of a mod and the values of it that the properties tab  *)
(* edits: CModuleFile::LoadModuleFile, SaveModuleFile and                  *)
(* Rainman_UpdateModuleFile, which rewrites the lines of those values and  *)
(* no others, into a temporary file that then takes the file's place.      *)
(* Each call to the disk is a step, after which the program may be gone.   *)
(*                                                                         *)
(* A line is a header, `Key = value', or anything else; a header that      *)
(* counts as [global] to the reader but has blanks about it is `Loose'.    *)
(***************************************************************************)
EXTENDS Integers, Sequences, SequencesExt

CONSTANTS
    Keys,           \* the managed keys, in the order of aKeys
    Values,         \* what they can have
    Settable,       \* Settable[k]: what the properties tab can set k to
    Empty,          \* no text
    AsRead,         \* AsRead[v]: v as the reader takes it, cut at a semicolon and trimmed
    Initially,      \* Initially[k]: what CModuleFile has for a key the file has not
    Global, Loose, Section, Text,  \* the lines that are not keys
    Stock,          \* the files there may be at first
    NoFile          \* there is no temporary file

Managed == ToSet(Keys)
KeyLine(k, v) == [key |-> k, value |-> v]
IsKey(line) == line \notin {Global, Loose, Section, Text}
Lines == {Global, Loose, Section, Text} \cup [key : Managed, value : Values]
Files == Seq(Lines)

\* A key that is not written because there is nothing to say of it is read back
\* as it was: `Initially' is then what the reader makes of nothing.
ModuleAssumption ==
    /\ Keys \in Seq(Managed) /\ \A k \in Managed, v \in Values : IsKey(KeyLine(k, v))
    /\ Stock \subseteq Files /\ NoFile \notin Files
    /\ \A f \in Stock : \A i \in DOMAIN f :
          IsKey(f[i]) => \E h \in 1..i : f[h] \in {Global, Loose, Section}
    /\ Empty \in Values /\ AsRead \in [Values -> Values]
    /\ Initially \in [Managed -> Values] /\ Settable \in [Managed -> SUBSET Values]
    /\ \A k \in Managed : Empty \in Settable[k] \cup {Initially[k]} => Initially[k] = AsRead[Empty]

VARIABLES
    file,     \* what is on the disk
    temp,     \* the temporary file next to it
    mem,      \* m_sUiName, m_sDescription, ...: the values of the open mod
    output,   \* sOutput of the save in progress
    phase,    \* how far that save is; "idle" when there is none
    whole,    \* the contents the file was meant to have: as found, or as last written (not recorded by the code)
    reported, \* the values of the last save that returned true, unless the mod was
              \* changed or opened since; <<>> for none (not recorded by the code)
    unseen    \* an fread or an fclose has failed since the mod was opened, and nothing
              \* looked at it (not recorded by the code)

vars == <<file, temp, mem, output, phase, whole, reported, unseen>>

-----------------------------------------------------------------------------
(* Rewriting and reading the lines *)

Having(lines, k) == {i \in DOMAIN lines : IsKey(lines[i]) /\ lines[i].key = k}

\* Mutant: only the first line of a key is rewritten.
RewrittenOnce(lines, m) ==
    [i \in DOMAIN lines |->
        IF IsKey(lines[i]) /\ \A j \in Having(lines, lines[i].key) : i <= j
        THEN KeyLine(lines[i].key, m[lines[i].key]) ELSE lines[i]]

\* Mutant: what the program does not know of is written no more.
UnknownDropped(lines, m) ==
    SelectSeq([i \in DOMAIN lines |->
        IF IsKey(lines[i]) THEN KeyLine(lines[i].key, m[lines[i].key]) ELSE lines[i]],
        LAMBDA l : l # Text)

\* Every line of a managed key gets its value, in whatever section it is.
Rewritten(lines, m) ==
    [i \in DOMAIN lines |->
        IF IsKey(lines[i]) THEN KeyLine(lines[i].key, m[lines[i].key]) ELSE lines[i]]

\* The keys the file does not have, unless there is nothing to say of them.
NewLines(lines, m) ==
    LET new[i \in 0..Len(Keys)] ==
            IF i = 0 THEN <<>>
            ELSE IF Having(lines, Keys[i]) = {} /\ m[Keys[i]] # Empty
                 THEN Append(new[i - 1], KeyLine(Keys[i], m[Keys[i]]))
                 ELSE new[i - 1]
    IN  new[Len(Keys)]

\* They are put after the first line that is [global] and nothing else.
Inserted(lines, new) ==
    IF ~Contains(lines, Global) THEN lines
    ELSE LET at == CHOOSE i \in DOMAIN lines :
                     lines[i] = Global /\ \A j \in 1..(i - 1) : lines[j] # Global
         IN  SubSeq(lines, 1, at) \o new \o SubSeq(lines, at + 1, Len(lines))

Updated(lines, m) == Inserted(Rewritten(lines, m), NewLines(lines, m))

\* The section that line i is in is [global], to the reader.  Before the first
\* header that is what an uninitialised bInGlobal says: no file has a key there.
InGlobal(lines, i) ==
    \E h \in 1..i : /\ lines[h] \in {Global, Loose}
                    /\ \A j \in h..i : lines[j] # Section

\* What LoadModuleFile makes of a file: of several lines the last counts.
LoadModuleFile(lines) ==
    [k \in Managed |->
        LET read == {i \in Having(lines, k) : InGlobal(lines, i)}
        IN  IF read = {} THEN Initially[k]
            ELSE AsRead[lines[CHOOSE i \in read : \A j \in read : j <= i].value]]

\* What there may be of a text that was not read or written to its end.  A line
\* without its own is none that the program knows, or is taken for the line.
Cut(lines) ==
    {SubSeq(lines, 1, n) : n \in 0..Len(lines)} \cup
    {Append(SubSeq(lines, 1, n - 1), Text) : n \in DOMAIN lines}

-----------------------------------------------------------------------------
Init ==
    /\ file \in Stock /\ temp = NoFile /\ mem = LoadModuleFile(file)
    /\ output = <<>> /\ phase = "idle" /\ whole = {file} /\ reported = <<>>
    /\ unseen = FALSE

\* The properties tab sets a value.
Set(k, v) ==
    /\ phase = "idle" /\ mem' = [mem EXCEPT ![k] = v] /\ reported' = <<>>
    /\ UNCHANGED <<file, temp, output, phase, whole, unseen>>

\* What fread takes in and fclose puts down of a text, without a word of a failure.
\* Bound: there is one such failure in an opening of the mod.
Passed(lines) == IF unseen THEN {lines} ELSE Cut(lines)

\* The save gives up, and says so.
GiveUp ==
    /\ phase' = "idle" /\ output' = <<>>
    /\ UNCHANGED <<file, mem, whole, reported, unseen>>

\* The file is read, to where fread first returns nothing, which a failure does as
\* well as the end; its new text is made, and the temporary file opened, which
\* empties one that was left.
OpenTemp ==
    /\ phase = "idle"
    /\ phase' = "opened" /\ temp' = <<>>
    /\ \E read \in Passed(file) :
          output' = Updated(read, mem) /\ unseen' = (unseen \/ read # file)
    /\ UNCHANGED <<file, mem, whole, reported>>

\* Neither file, or not the temporary one, can be opened.
OpenFails == phase = "idle" /\ GiveUp /\ UNCHANGED temp

\* Mutant: a short write is not noticed.
ShortUnnoticed ==
    /\ phase = "opened" /\ phase' = "closed"
    /\ temp' \in Cut(output)
    /\ UNCHANGED <<file, mem, output, whole, reported, unseen>>

\* fwrite takes everything; what of it is on the disk before fclose makes no
\* difference, as nobody reads the temporary file.
Write ==
    /\ phase = "opened" /\ phase' = "written"
    /\ UNCHANGED <<file, temp, mem, output, whole, reported, unseen>>

\* fwrite takes less: the temporary file is removed.
WriteFails == phase = "opened" /\ temp' = NoFile /\ GiveUp

\* fclose writes what is left in the buffer, or fails to; what it returns is not
\* looked at.
Close ==
    /\ phase = "written" /\ phase' = "closed"
    /\ temp' \in Passed(output) /\ unseen' = (unseen \/ temp' # output)
    /\ UNCHANGED <<file, mem, output, whole, reported>>

\* PathUtil_moveReplace: the temporary file takes the place of the file.
Replace ==
    /\ phase = "closed" /\ phase' = "idle"
    /\ file' = temp /\ temp' = NoFile /\ whole' = {Updated(file, mem)} /\ output' = <<>>
    /\ reported' = mem
    /\ UNCHANGED <<mem, unseen>>

ReplaceFails == phase = "closed" /\ temp' = NoFile /\ GiveUp

\* The mod is opened again, by a user or after the program was gone, which may
\* be in the midst of a save.  A temporary file may be left; the texts it may have
\* are not told apart, as OpenTemp empties it.
Reopen ==
    /\ mem' = LoadModuleFile(file)
    /\ phase' = "idle" /\ output' = <<>> /\ reported' = <<>>
    /\ whole' = (IF unseen THEN {file} ELSE whole) /\ unseen' = FALSE
    /\ temp' = (IF temp = NoFile THEN NoFile ELSE <<>>)
    /\ UNCHANGED file

Next ==
    \/ \E k \in Managed : \E v \in Settable[k] : Set(k, v)
    \/ OpenTemp \/ OpenFails \/ Write \/ WriteFails \/ Close
    \/ Replace \/ ReplaceFails \/ Reopen

Spec == Init /\ [][Next]_vars

-----------------------------------------------------------------------------
\* The file is the one that was there or one with all the lines of a save: "a
\* failure cannot leave a truncated module behind" (ModuleFileWriter.h:34-35).
NotTruncated == file \in whole

\* It takes an fread or an fclose that fails, as nothing looks at it, to leave a
\* truncated file; no fopen, no fwrite, no moveReplace and no end of the program.
OldOrNew == ~unseen => NotTruncated

\* A file the reader and the writer see alike: there is a [global] line as the
\* writer wants it, and a managed key is nowhere but in that section.
Tidy(lines) ==
    /\ Contains(lines, Global)
    /\ \A i \in DOMAIN lines : IsKey(lines[i]) => InGlobal(lines, i)

\* A save that returned true is read back, from a tidy file: opening the mod
\* again shows the values that were saved, as far as the reader takes them over,
\* unless a failure was not seen.
SavedIsLoaded ==
    ~unseen /\ reported # <<>> /\ Tidy(file) => LoadModuleFile(file) = [k \in Managed |-> AsRead[reported[k]]]

\* Saving again what was saved changes no line (Rainman_UpdateModuleFile).
SavedOnceForAll == ~unseen /\ reported # <<>> => Updated(file, reported) = file

\* No save changes, drops or moves a line without a managed key: "Every other
\* line is preserved exactly" (ModuleFileWriter.h:28), unless a failure was not
\* seen.
OthersOf(lines) ==
    LET others[i \in 0..Len(lines)] ==
            IF i = 0 THEN <<>>
            ELSE IF IsKey(lines[i]) THEN others[i - 1] ELSE Append(others[i - 1], lines[i])
    IN  others[Len(lines)]
OthersKept == [][unseen' \/ OthersOf(file') = OthersOf(file)]_vars
=============================================================================
