---------------------------- MODULE MemoryStream ----------------------------
(***************************************************************************)
(* CMemoryStore::COutStream, the stream over memory that RGD files, chunk  *)
(* data and archive headers are made in (CStream, which reads only, has    *)
(* the same reads and seeks).  Its position is kept twice, as a pointer    *)
(* and as what is left behind it, and VTell answers from the second.       *)
(*                                                                         *)
(* What is left is unsigned, so the check of a relative seek against the   *)
(* end refuses nothing: the seek goes past it, and what is left wraps to   *)
(* almost Modulus.  From there on no read is refused and no write adds to  *)
(* the length; both work on memory that is not the data, or not even the   *)
(* buffer.  What that does to the rest of the program, which it may end,   *)
(* is not modelled.                                                        *)
(*                                                                         *)
(* A write doubles the buffer until it fits and then copies its items one  *)
(* at a time; both loops are steps here, during which no other call comes. *)
(***************************************************************************)
EXTENDS Integers, Sequences

CONSTANTS
    Byte,           \* the bytes there are
    Junk,           \* what new memory holds
    InitialLength,  \* the length of the first buffer, 131072 in the code
    MaxItems,       \* bound: of items in a write
    ItemSizes,      \* the sizes of items
    Modulus,        \* how many values an unsigned long has, 2^32
    MaxLength       \* bound: no stream gets longer, no position larger

ASSUME StreamAssumption ==
    /\ InitialLength \in Nat \ {0} /\ MaxItems \in Nat /\ MaxLength \in Nat
    /\ ItemSizes \subseteq Nat \ {0} /\ Junk \notin Byte
    /\ Modulus \in Nat /\ Modulus > 2 * MaxLength

VARIABLES
    buffer,     \* *m_pBegin, as a function of the offset
    capacity,   \* m_iBufferLength
    current,    \* m_pCurrent - m_pBegin
    length,     \* m_iLength
    lengthLeft, \* m_iLengthLeft
    source,     \* the bytes of the write in progress that are still to be copied
    itemSize,   \* its iItemSize
    got         \* the bytes of the last read

vars == <<buffer, capacity, current, length, lengthLeft, source, itemSize, got>>

Cell == Byte \cup {Junk}
Memory(n) == [0..(n - 1) -> Cell]
Idle == source = <<>>

\* Unsigned, of a sum or difference of two unsigned numbers.
Wrapped(n) ==
    IF n < 0 THEN n + Modulus ELSE IF n >= Modulus THEN n - Modulus ELSE n

Init ==
    /\ capacity = InitialLength /\ buffer = [i \in 0..(InitialLength - 1) |-> Junk]
    /\ current = 0 /\ length = 0 /\ lengthLeft = 0
    /\ source = <<>> /\ itemSize = 1 /\ got = <<>>

-----------------------------------------------------------------------------
BeginWrite(count, size, bytes) ==
    /\ Idle
    /\ length + count * size <= MaxLength /\ current + count * size <= MaxLength
    /\ source' = bytes /\ itemSize' = size
    /\ UNCHANGED <<buffer, capacity, current, length, lengthLeft, got>>

TooSmall == length + Len(source) > capacity

\* Mutant: the pointer is left where it was in the buffer that is gone.
GrowForgets ==
    /\ TooSmall /\ capacity' = 2 * capacity
    /\ buffer' = [i \in 0..(2 * capacity - 1) |-> IF i < length THEN buffer[i] ELSE Junk]
    /\ current' = 0
    /\ UNCHANGED <<length, lengthLeft, source, itemSize, got>>

Grow ==
    /\ TooSmall /\ capacity' = 2 * capacity
    /\ buffer' = [i \in 0..(2 * capacity - 1) |-> IF i < length THEN buffer[i] ELSE Junk]
    /\ UNCHANGED <<current, length, lengthLeft, source, itemSize, got>>

\* Mutant: an item that ends past the end counts in full.
CountedInFull(size) == IF lengthLeft >= size THEN 0 ELSE size

\* What an item adds to the length: what of it did not go over what was there.
Added(size) ==
    IF lengthLeft = 0 THEN size
    ELSE LET overwritten == IF lengthLeft >= size THEN size ELSE lengthLeft
         IN  size - overwritten

\* What an item takes of what is left.
Covered(size) == IF lengthLeft >= size THEN size ELSE lengthLeft

\* Only what falls into the buffer is seen of the copy.
CopyItem ==
    /\ ~Idle /\ ~TooSmall
    /\ buffer' = [i \in DOMAIN buffer |->
                    IF i \in current..(current + itemSize - 1)
                    THEN source[i - current + 1] ELSE buffer[i]]
    /\ current' = current + itemSize
    /\ length' = length + Added(itemSize)
    /\ lengthLeft' = lengthLeft - Covered(itemSize)
    /\ source' = SubSeq(source, itemSize + 1, Len(source))
    /\ UNCHANGED <<capacity, itemSize, got>>

\* A read of more than is left throws before anything is changed.  Behind the
\* buffer there may be anything.
VRead(n) ==
    /\ Idle /\ n <= lengthLeft
    /\ current + n <= MaxLength
    /\ got' \in {bytes \in [1..n -> Cell] : \A i \in 1..n :
                    current + i - 1 < capacity => bytes[i] = buffer[current + i - 1]}
    /\ current' = current + n /\ lengthLeft' = lengthLeft - n
    /\ UNCHANGED <<buffer, capacity, length, source, itemSize>>

\* Relative to the position.  Only the front of the buffer is a limit: the
\* check against the end compares an unsigned difference with zero.
SeekCurrent(n) ==
    /\ Idle /\ current + n \in 0..MaxLength
    /\ current' = current + n
    /\ lengthLeft' = Wrapped(lengthLeft - n)
    /\ UNCHANGED <<buffer, capacity, length, source, itemSize, got>>

\* Mutant: what is left is not brought up to date.
SeekRootOnly(n) ==
    /\ Idle /\ n >= 0 /\ n <= length /\ current' = n
    /\ UNCHANGED <<buffer, capacity, length, lengthLeft, source, itemSize, got>>

SeekRoot(n) ==
    /\ Idle /\ n >= 0 /\ n <= length
    /\ current' = n /\ lengthLeft' = length - n
    /\ UNCHANGED <<buffer, capacity, length, source, itemSize, got>>

SeekEnd(n) ==
    /\ Idle /\ n <= 0 /\ -n <= length
    /\ current' = length + n /\ lengthLeft' = -n
    /\ UNCHANGED <<buffer, capacity, length, source, itemSize, got>>

VSeek(n) == SeekCurrent(n) \/ SeekRoot(n) \/ SeekEnd(n)

VTell == Wrapped(length - lengthLeft)
GetData == [i \in 1..length |-> buffer[i - 1]]

Next ==
    \/ \E count \in 1..MaxItems, size \in ItemSizes :
           \E bytes \in [1..(count * size) -> Byte] : BeginWrite(count, size, bytes)
    \/ Grow \/ CopyItem
    \/ \E n \in 0..MaxLength : VRead(n)
    \/ \E n \in -MaxLength..MaxLength : VSeek(n)

Spec == Init /\ [][Next]_vars

-----------------------------------------------------------------------------
\* The two positions agree, also where what is left has wrapped, so that a seek
\* back finds the data again; and from inside the data nothing is copied past
\* the end of the buffer, whatever was sought and written before.
Consistent ==
    /\ VTell = current /\ lengthLeft = Wrapped(length - current)
    /\ length <= capacity
    /\ current <= length /\ ~Idle /\ ~TooSmall => current + Len(source) <= capacity

\* Memory that was never written is never handed out (GetData), not even after
\* a seek past the end and a write there.
NoJunk == \A i \in 1..length : GetData[i] # Junk

\* To its callers the stream is a file with a position, the one VTell tells,
\* whatever the growth of the buffer and the order of writes over and past
\* what was there, and of seeks past the end, where writes are lost: every
\* step is one of ByteFile, an item of a write each.
File == INSTANCE ByteFile WITH data <- GetData, pos <- VTell
IsAFile == File!Spec
=============================================================================
