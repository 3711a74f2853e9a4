------------------------------ MODULE ByteFile ------------------------------
(***************************************************************************)
(* What the streams of the library do for their callers (IFileStore's      *)
(* IStream and IOutputStream): bytes, and a position at which the next are *)
(* read or written.  IOutputStream's comment says that VSeek cannot pass   *)
(* the end; a relative one can, so this file lets the position pass it:    *)
(* what is written there is lost, and what is read there is anything.      *)
(* MemoryStream implements it; RgdFile writes and reads through its        *)
(* operators.                                                              *)
(***************************************************************************)
EXTENDS Integers, Sequences

CONSTANTS
    Byte,       \* the bytes there are
    Junk,       \* what is read where no byte was written
    MaxLength   \* bound: no write is longer, no position larger

VARIABLES
    data,   \* the bytes, as a sequence
    pos,    \* how many are before the position
    got     \* the bytes of the last read that was not refused

vars == <<data, pos, got>>

Larger(m, n) == IF m < n THEN n ELSE m

\* `bytes' from position p on, over what is there and past its end.
Overwritten(d, p, bytes) ==
    [i \in 1..Larger(Len(d), p + Len(bytes)) |->
        IF i \in (p + 1)..(p + Len(bytes)) THEN bytes[i - p] ELSE d[i]]

Init == data = <<>> /\ pos = 0 /\ got = <<>>

PastEnd == pos > Len(data)

Write(bytes) ==
    /\ data' = IF PastEnd THEN data ELSE Overwritten(data, pos, bytes)
    /\ pos' = pos + Len(bytes)
    /\ UNCHANGED got

\* A read of more than is left is refused.
Read(n) ==
    /\ ~PastEnd /\ pos + n <= Len(data)
    /\ got' = SubSeq(data, pos + 1, pos + n) /\ pos' = pos + n
    /\ UNCHANGED data

ReadPastEnd(n) ==
    /\ PastEnd /\ got' \in [1..n -> Byte \cup {Junk}] /\ pos' = pos + n
    /\ UNCHANGED data

Seek(p) == pos' = p /\ UNCHANGED <<data, got>>

Next ==
    \/ \E n \in 0..MaxLength : \E bytes \in [1..n -> Byte] : Write(bytes)
    \/ \E n \in 0..MaxLength : Read(n) \/ ReadPastEnd(n) \/ Seek(n)

Spec == Init /\ [][Next]_vars
=============================================================================
