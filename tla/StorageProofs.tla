---------------------------- MODULE StorageProofs ----------------------------
(***************************************************************************)
(* Proofs about two parts of the library, for any values of the constants. *)
(*                                                                         *)
(* MemoryStream: what Consistent and NoJunk say of every state, and that   *)
(* the stream implements ByteFile.                                         *)
(*                                                                         *)
(* FolderListing: the comparison of names is an order, and the one of      *)
(* folders is the same although strnicmp sees a part of the name; sorting  *)
(* and filling keep children apart; a bisection stops at what was asked    *)
(* for, and does not miss it among children that are in order.             *)
(***************************************************************************)
EXTENDS Storage, FiniteSetTheorems, SequenceTheorems, WellFoundedInduction, TLAPS

-----------------------------------------------------------------------------
(* A stream over memory: the inductive invariant *)

TypeInv ==
    /\ capacity \in Nat \ {0} /\ buffer \in Memory(capacity)
    /\ current \in Nat /\ length \in Nat /\ lengthLeft \in Nat
    /\ source \in Seq(Byte) /\ itemSize \in Nat \ {0} /\ got \in Seq(Cell)

\* The two positions agree, what is to be copied comes in whole items, and the
\* bound leaves room for it.
Agreed ==
    /\ lengthLeft = Wrapped(length - current) /\ length <= capacity
    /\ length + Len(source) <= MaxLength /\ current + Len(source) <= MaxLength
    /\ \E k \in Nat : Len(source) = k * itemSize

\* Up to the length, every cell was written.
Filled == \A i \in 0..(length - 1) : buffer[i] \in Byte

IInv == TypeInv /\ Agreed /\ Filled

LEMMA ConstantTypes ==
    /\ InitialLength \in Nat /\ InitialLength # 0 /\ MaxItems \in Nat /\ MaxLength \in Nat
    /\ \A size \in ItemSizes : size \in Nat /\ size # 0
    /\ Junk \notin Byte
    /\ Modulus \in Nat /\ Modulus > MaxLength + MaxLength
BY StreamAssumption DEF StreamAssumption

\* What is left and the position, from each other: inside the data nothing has
\* wrapped, and past its end so much is left that no item is as long.
LEMMA Apart ==
    ASSUME NEW p \in Nat, NEW l \in Nat, p <= MaxLength, l <= MaxLength
    PROVE  /\ Wrapped(l - p) \in Nat /\ Wrapped(l - Wrapped(l - p)) = p
           /\ p <= l => Wrapped(l - p) = l - p
           /\ p > l => Wrapped(l - p) = l - p + Modulus /\ Wrapped(l - p) > MaxLength
BY ConstantTypes DEF Wrapped

\* A write that is not done has an item left: its bytes are a multiple of the
\* item's size and not none.
LEMMA ItemIsThere ==
    ASSUME NEW n \in Nat, NEW size \in Nat, size # 0, n # 0,
           NEW k \in Nat, n = k * size
    PROVE  size <= n /\ n - size = (k - 1) * size /\ k - 1 \in Nat
<1>1. k # 0
    BY SMT
<1>2. k - 1 \in Nat /\ k = (k - 1) + 1
    BY <1>1, SMT
<1>3. n = (k - 1) * size + size
    BY <1>2, SMT
<1>4. (k - 1) * size \in Nat
    BY <1>2, SMT
<1> QED
    BY <1>2, <1>3, <1>4, SMT

LEMMA InitHolds == Init => IInv
<1> SUFFICES ASSUME Init PROVE IInv
    OBVIOUS
<1>1. TypeInv
    BY ConstantTypes DEF Init, TypeInv, Memory, Cell
<1>2. Len(source) = 0 * itemSize /\ Len(source) = 0
    BY DEF Init
<1>3. Agreed
    <2>1. lengthLeft = Wrapped(length - current)
        BY ConstantTypes DEF Init, Wrapped
    <2> QED
        BY <2>1, <1>2, ConstantTypes DEF Init, Agreed
<1>4. Filled
    BY DEF Init, Filled
<1> QED
    BY <1>1, <1>3, <1>4 DEF IInv

\* What an item adds and covers, together, is the item.
LEMMA AddedAndCovered ==
    ASSUME NEW size \in Nat, lengthLeft \in Nat
    PROVE  /\ Added(size) \in Nat /\ Covered(size) \in Nat
           /\ Added(size) + Covered(size) = size
           /\ Covered(size) <= lengthLeft
           /\ Covered(size) = lengthLeft \/ Added(size) = 0
BY DEF Added, Covered

LEMMA BeginWriteKeeps ==
    ASSUME IInv, NEW count \in 1..MaxItems, NEW size \in ItemSizes,
           NEW bytes \in [1..(count * size) -> Byte], BeginWrite(count, size, bytes)
    PROVE  IInv'
<1>1. count \in Nat /\ size \in Nat \ {0}
    BY ConstantTypes
<1>2. count * size \in Nat
    BY <1>1
<1>3. bytes \in Seq(Byte) /\ Len(bytes) = count * size
    BY <1>2
<1>4. TypeInv'
    BY <1>1, <1>3 DEF IInv, TypeInv, BeginWrite
<1>5. Agreed'
    BY <1>1, <1>3 DEF IInv, Agreed, BeginWrite
<1>6. Filled'
    BY DEF IInv, Filled, BeginWrite
<1> QED
    BY <1>4, <1>5, <1>6 DEF IInv

LEMMA GrowKeeps == ASSUME IInv, Grow PROVE IInv'
<1>1. buffer' \in Memory(capacity') /\ capacity' \in Nat \ {0}
    BY DEF IInv, TypeInv, Agreed, Grow, Memory, Cell
<1>2. TypeInv'
    BY <1>1 DEF IInv, TypeInv, Grow
<1>3. Agreed'
    <2>1. UNCHANGED <<current, length, lengthLeft, source, itemSize>>
        BY DEF Grow
    <2>2. length <= capacity'
        BY DEF IInv, TypeInv, Agreed, Grow
    <2>3. \E k \in Nat : Len(source') = k * itemSize'
        BY <2>1 DEF IInv, Agreed
    <2> QED
        BY <2>1, <2>2, <2>3 DEF IInv, Agreed
<1>4. Filled'
    <2>1. ASSUME NEW i \in 0..(length - 1) PROVE buffer'[i] = buffer[i]
        BY DEF IInv, TypeInv, Agreed, Grow
    <2> QED
        BY <2>1 DEF IInv, Filled, Grow
<1> QED
    BY <1>2, <1>3, <1>4 DEF IInv

\* What CopyItem finds: an item, and room for it in the buffer.
LEMMA RoomForItem ==
    ASSUME IInv, CopyItem
    PROVE  /\ itemSize <= Len(source) /\ Len(source) \in Nat
           /\ current <= length => current + itemSize <= capacity
           /\ \E k \in Nat : Len(source) - itemSize = k * itemSize
<1>1. source \in Seq(Byte) /\ itemSize \in Nat /\ itemSize # 0
    BY DEF IInv, TypeInv
<1>2. Len(source) \in Nat /\ Len(source) # 0
    BY <1>1 DEF CopyItem, Idle
<1>3. PICK k \in Nat : Len(source) = k * itemSize
    BY DEF IInv, Agreed
<1>4. itemSize <= Len(source) /\ Len(source) - itemSize = (k - 1) * itemSize /\ k - 1 \in Nat
    BY <1>1, <1>2, <1>3, ItemIsThere
<1>5. length + Len(source) <= capacity
    BY <1>2 DEF CopyItem, TooSmall, IInv, TypeInv
<1>6. current <= length => current + itemSize <= capacity
    BY <1>1, <1>2, <1>4, <1>5 DEF IInv, TypeInv, Agreed
<1> QED
    BY <1>2, <1>4, <1>6

\* The bytes of the item that CopyItem copies.
Item == [j \in 1..itemSize |-> source[j]]

\* The position and what is left of a state of the invariant.
LEMMA Positions ==
    ASSUME IInv
    PROVE  /\ current \in Nat /\ length \in Nat /\ lengthLeft \in Nat
           /\ current <= MaxLength /\ length <= MaxLength
           /\ VTell = current
           /\ current <= length => lengthLeft = length - current
           /\ current > length => lengthLeft = length - current + Modulus /\ lengthLeft > MaxLength
<1>1. /\ current \in Nat /\ length \in Nat /\ lengthLeft = Wrapped(length - current)
      /\ current <= MaxLength /\ length <= MaxLength
    <2>1. Len(source) \in Nat
        BY DEF IInv, TypeInv
    <2> QED
        BY <2>1, ConstantTypes DEF IInv, TypeInv, Agreed
<1>2. VTell = Wrapped(length - lengthLeft)
    BY DEF VTell
<1> QED
    BY <1>1, <1>2, Apart

LEMMA CopyItemKeeps == ASSUME IInv, CopyItem PROVE IInv'
<1> DEFINE add == Added(itemSize)
           cover == Covered(itemSize)
<1>1. /\ itemSize \in Nat /\ itemSize # 0 /\ source \in Seq(Byte)
      /\ current \in Nat /\ length \in Nat /\ lengthLeft \in Nat /\ capacity \in Nat
    BY DEF IInv, TypeInv
<1>2. /\ add \in Nat /\ cover \in Nat /\ add + cover = itemSize /\ cover <= lengthLeft
      /\ cover = lengthLeft \/ add = 0
    BY <1>1, AddedAndCovered
<1>3. length' = length + add /\ lengthLeft' = lengthLeft - cover /\ current' = current + itemSize
    BY DEF CopyItem
<1> HIDE DEF add, cover
<1>4. /\ itemSize <= Len(source) /\ Len(source) \in Nat
      /\ current <= length => current + itemSize <= capacity
      /\ \E k \in Nat : Len(source) - itemSize = k * itemSize
    BY RoomForItem
<1>5. source' \in Seq(Byte) /\ Len(source') = Len(source) - itemSize
    <2>1. source' = SubSeq(source, itemSize + 1, Len(source))
        BY DEF CopyItem
    <2>2. itemSize <= Len(source)
        BY <1>4
    <2> QED
        BY <2>1, <2>2, <1>1
<1>6. \A j \in 1..itemSize : source[j] \in Byte
    BY <1>1, <1>4
<1>7. buffer' \in Memory(capacity)
    BY <1>1, <1>6 DEF IInv, TypeInv, CopyItem, Memory, Cell
<1>8. TypeInv'
    <2>1. current' \in Nat /\ length' \in Nat /\ lengthLeft' \in Nat
        BY <1>1, <1>2, <1>3
    <2> QED
        BY <2>1, <1>5, <1>7 DEF IInv, TypeInv, CopyItem
<1>9. length + Len(source) <= MaxLength /\ current + Len(source) <= MaxLength
    BY DEF IInv, Agreed
\* Past the end the item is covered and adds nothing.
<1>10. current > length => add = 0 /\ cover = itemSize
    <2>1. current > length => lengthLeft > MaxLength
        BY Positions
    <2>2. itemSize <= MaxLength
        BY <1>1, <1>4, <1>9, ConstantTypes
    <2> QED
        BY <2>1, <2>2, <1>1, <1>2, ConstantTypes DEF add, cover, Added, Covered
<1>11. Agreed'
    <2>1. /\ length' <= MaxLength /\ current' <= MaxLength
          /\ length' \in Nat /\ current' \in Nat
        BY <1>1, <1>2, <1>3, <1>4, <1>9, ConstantTypes
    <2>2. lengthLeft' = Wrapped(length' - current')
        <3>1. CASE current <= length
            <4>1. lengthLeft = length - current
                BY <3>1, Positions
            <4>2. current' <= length' /\ lengthLeft' = length' - current'
                BY <4>1, <1>1, <1>2, <1>3
            <4> QED
                BY <4>2, <2>1, Apart
        <3>2. CASE current > length
            <4>1. lengthLeft = length - current + Modulus
                BY <3>2, Positions
            <4>2. current' > length' /\ lengthLeft' = length' - current' + Modulus
                BY <4>1, <3>2, <1>1, <1>3, <1>10, ConstantTypes
            <4> QED
                BY <4>2, <2>1, Apart
        <3> QED
            BY <3>1, <3>2, <1>1
    <2>3. length' + Len(source') <= length + Len(source)
        BY <1>1, <1>2, <1>3, <1>4, <1>5
    <2>4. length + Len(source) <= capacity /\ capacity' = capacity /\ itemSize' = itemSize
        BY <1>1, <1>4 DEF CopyItem, TooSmall
    <2>5. length' <= capacity'
        BY <2>3, <2>4, <1>1, <1>2, <1>3, <1>4, <1>5
    <2>6. length' + Len(source') <= MaxLength /\ current' + Len(source') <= MaxLength
        BY <2>3, <1>1, <1>2, <1>3, <1>4, <1>5, <1>9, ConstantTypes
    <2>7. \E k \in Nat : Len(source') = k * itemSize'
        BY <2>4, <1>4, <1>5
    <2> QED
        BY <2>2, <2>5, <2>6, <2>7 DEF Agreed
<1>12. Filled'
    <2> SUFFICES ASSUME NEW i \in 0..(length' - 1) PROVE buffer'[i] \in Byte
        BY DEF Filled
    <2>1. i \in DOMAIN buffer
        <3>1. length' <= capacity
            BY <1>11 DEF Agreed, CopyItem
        <3> QED
            BY <3>1, <1>1, <1>2, <1>3 DEF IInv, TypeInv, Memory
    <2>2. CASE i \in current..(current + itemSize - 1)
        <3>1. buffer'[i] = source[i - current + 1] /\ i - current + 1 \in 1..itemSize
            BY <2>1, <2>2, <1>1 DEF CopyItem
        <3> QED
            BY <3>1, <1>6
    <2>3. CASE ~(i \in current..(current + itemSize - 1))
        <3>1. buffer'[i] = buffer[i]
            BY <2>1, <2>3 DEF CopyItem
        <3>2. current <= length => lengthLeft = length - current
            BY Positions
        <3>3. i \in 0..(length - 1)
            BY <3>2, <2>3, <1>1, <1>2, <1>3, <1>10
        <3> QED
            BY <3>1, <3>3 DEF IInv, Filled
    <2> QED
        BY <2>2, <2>3
<1> QED
    BY <1>8, <1>11, <1>12 DEF IInv

\* A move of the position, for a read or a seek.
LEMMA MoveKeeps ==
    ASSUME IInv, UNCHANGED <<buffer, capacity, length, source, itemSize>>,
           source = <<>> \/ UNCHANGED current,
           current' \in 0..MaxLength, lengthLeft' = Wrapped(length - current'),
           got' \in Seq(Cell)
    PROVE  IInv'
<1>1. lengthLeft' \in Nat /\ current' \in Nat
    <2>1. current' \in Nat /\ current' <= MaxLength
        BY ConstantTypes
    <2>2. length \in Nat /\ length <= MaxLength
        BY Positions
    <2>3. Wrapped(length - current') \in Nat
        BY <2>1, <2>2, Apart
    <2> QED
        BY <2>1, <2>3
<1>2. TypeInv'
    BY <1>1 DEF IInv, TypeInv
<1>3. \E k \in Nat : Len(source') = k * itemSize'
    BY DEF IInv, Agreed
<1>4. current' + Len(source') <= MaxLength
    <2>1. CASE source = <<>>
        BY <2>1, <1>1
    <2>2. CASE UNCHANGED current
        BY <2>2 DEF IInv, Agreed
    <2> QED
        BY <2>1, <2>2
<1>5. Agreed'
    BY <1>3, <1>4 DEF IInv, Agreed
<1>6. Filled'
    BY DEF IInv, Filled
<1> QED
    BY <1>2, <1>5, <1>6 DEF IInv

LEMMA VReadKeeps == ASSUME IInv, NEW n \in 0..MaxLength, VRead(n) PROVE IInv'
<1>1. /\ n \in Nat /\ n <= lengthLeft /\ current + n \in 0..MaxLength /\ current' = current + n
      /\ lengthLeft' = lengthLeft - n
    BY Positions, ConstantTypes DEF VRead
<1>2. got' \in Seq(Cell)
    BY <1>1 DEF VRead
<1>3. lengthLeft' = Wrapped(length - current')
    <2>1. /\ current' \in Nat /\ current' <= MaxLength
          /\ length \in Nat /\ length <= MaxLength /\ current \in Nat
        BY <1>1, Positions, ConstantTypes
    <2>2. /\ current' <= length => Wrapped(length - current') = length - current'
          /\ current' > length => Wrapped(length - current') = length - current' + Modulus
        BY <2>1, Apart
    <2>3. CASE current <= length
        <3>1. lengthLeft' = length - current' /\ current' <= length
            BY <2>3, <2>1, <1>1, Positions
        <3> QED
            BY <3>1, <2>2
    <2>4. CASE current > length
        <3>1. lengthLeft = length - current + Modulus
            BY <2>4, Positions
        <3>2. lengthLeft' = length - current' + Modulus /\ current' > length
            BY <3>1, <2>4, <2>1, <1>1, ConstantTypes
        <3> QED
            BY <3>2, <2>2
    <2> QED
        BY <2>1, <2>3, <2>4
<1> QED
    BY <1>1, <1>2, <1>3, MoveKeeps DEF VRead, Idle

\* A relative seek changes both positions by as much, modulo Modulus.
LEMMA SeekCurrentKeeps ==
    ASSUME IInv, NEW n \in -MaxLength..MaxLength, SeekCurrent(n) PROVE IInv'
<1>1. /\ n \in Int /\ current' = current + n /\ current' \in 0..MaxLength
      /\ lengthLeft' = Wrapped(lengthLeft - n)
    BY ConstantTypes DEF SeekCurrent
<1>2. lengthLeft' = Wrapped(length - current')
    <2>1. CASE current <= length
        <3>1. lengthLeft - n = length - current'
            BY <2>1, <1>1, Positions
        <3> QED
            BY <3>1, <1>1
    <2>2. CASE current > length
        <3>1. lengthLeft - n = length - current' + Modulus
            BY <2>2, <1>1, Positions, ConstantTypes
        <3>2. Wrapped(length - current' + Modulus) = Wrapped(length - current')
            BY <1>1, Positions, ConstantTypes DEF Wrapped
        <3> QED
            BY <3>1, <3>2, <1>1
    <2> QED
        BY <2>1, <2>2, Positions
<1> QED
    BY <1>1, <1>2, MoveKeeps DEF SeekCurrent, Idle, IInv, TypeInv

LEMMA VSeekKeeps == ASSUME IInv, NEW n \in -MaxLength..MaxLength, VSeek(n) PROVE IInv'
<1>1. n \in Int /\ got \in Seq(Cell)
    BY ConstantTypes DEF IInv, TypeInv
<1>2. CASE SeekCurrent(n)
    BY <1>2, SeekCurrentKeeps
<1>3. CASE SeekRoot(n)
    <2>1. current' \in 0..MaxLength /\ lengthLeft' = length - current' /\ current' <= length
        BY <1>1, <1>3, Positions, ConstantTypes DEF SeekRoot
    <2>2. lengthLeft' = Wrapped(length - current')
        BY <2>1, Positions, Apart
    <2> QED
        BY <1>1, <1>3, <2>1, <2>2, MoveKeeps DEF SeekRoot, Idle
<1>4. CASE SeekEnd(n)
    <2>1. current' \in 0..MaxLength /\ lengthLeft' = length - current' /\ current' <= length
        BY <1>1, <1>4, Positions, ConstantTypes DEF SeekEnd
    <2>2. lengthLeft' = Wrapped(length - current')
        BY <2>1, Positions, Apart
    <2> QED
        BY <1>1, <1>4, <2>1, <2>2, MoveKeeps DEF SeekEnd, Idle
<1> QED
    BY <1>2, <1>3, <1>4 DEF VSeek

LEMMA NextKeeps == IInv /\ [Next]_vars => IInv'
<1> SUFFICES ASSUME IInv, [Next]_vars PROVE IInv'
    OBVIOUS
<1>1. ASSUME NEW count \in 1..MaxItems, NEW size \in ItemSizes,
             NEW bytes \in [1..(count * size) -> Byte], BeginWrite(count, size, bytes)
      PROVE  IInv'
    BY <1>1, BeginWriteKeeps
<1>2. CASE Grow
    BY <1>2, GrowKeeps
<1>3. CASE CopyItem
    BY <1>3, CopyItemKeeps
<1>4. ASSUME NEW n \in 0..MaxLength, VRead(n) PROVE IInv'
    BY <1>4, VReadKeeps
<1>5. ASSUME NEW n \in -MaxLength..MaxLength, VSeek(n) PROVE IInv'
    BY <1>5, VSeekKeeps
<1>6. CASE UNCHANGED vars
    <2>1. UNCHANGED <<buffer, capacity, current, length, lengthLeft, source, itemSize, got>>
        BY <1>6 DEF vars
    <2>2. current' \in 0..MaxLength
        BY <2>1, Positions, ConstantTypes
    <2> QED
        BY <2>1, <2>2, MoveKeeps DEF IInv, TypeInv, Agreed
<1> QED
    BY <1>1, <1>2, <1>3, <1>4, <1>5, <1>6 DEF Next

THEOREM Invariance == Spec => []IInv
BY InitHolds, NextKeeps, PTL DEF Spec

\* The positions agree, past the end modulo Modulus, and from inside the data no
\* copy leaves the buffer, over any seeks and writes (VWrite, VSeek).
THEOREM PositionsAgree == Spec => []Consistent
<1>1. ASSUME IInv PROVE Consistent
    <2>1. VTell = current
        BY <1>1, Positions
    <2>2. Len(source) \in Nat
        BY <1>1 DEF IInv, TypeInv
    <2> QED
        BY <1>1, <2>1, <2>2 DEF IInv, TypeInv, Agreed, Consistent, TooSmall
<1> QED
    BY <1>1, Invariance, PTL

\* What was never written is never handed out (GetData), whatever was sought,
\* read and written past the end.
THEOREM NoJunkRead == Spec => []NoJunk
<1>1. IInv => NoJunk
    <2> SUFFICES ASSUME IInv, NEW i \in 1..length PROVE GetData[i] # Junk
        BY DEF NoJunk
    <2>1. GetData[i] = buffer[i - 1] /\ i - 1 \in 0..(length - 1)
        BY DEF GetData, IInv, TypeInv
    <2> QED
        BY <2>1, ConstantTypes DEF IInv, Filled
<1> QED
    BY <1>1, Invariance, PTL

-----------------------------------------------------------------------------
(* The stream implements ByteFile *)

\* What the mapping makes of a state.
MappedWell ==
    /\ GetData \in Seq(Byte) /\ Len(GetData) = length
    /\ VTell = current /\ VTell \in 0..MaxLength /\ length \in 0..MaxLength

LEMMA Mapped == IInv => MappedWell
<1> SUFFICES ASSUME IInv PROVE MappedWell
    OBVIOUS
<1>1. /\ current \in Nat /\ length \in Nat /\ VTell = current
      /\ current <= MaxLength /\ length <= MaxLength
    BY Positions
<1>2. \A i \in 1..length : buffer[i - 1] \in Byte
    BY <1>1 DEF IInv, Filled
<1> QED
    BY <1>1, <1>2, ConstantTypes DEF GetData, MappedWell

LEMMA MappedNext == IInv' => MappedWell'
BY Mapped, PTL

LEMMA InitMaps == Init => File!Init
<1> SUFFICES ASSUME Init PROVE File!Init
    OBVIOUS
<1>1. GetData = <<>>
    BY DEF Init, GetData
<1>2. VTell = 0
    BY ConstantTypes DEF Init, VTell, Wrapped
<1> QED
    BY <1>1, <1>2 DEF Init, File!Init

\* Growing, and beginning a write, change nothing that the mapping sees.
LEMMA StutterMaps ==
    ASSUME IInv, UNCHANGED <<length, lengthLeft, got>>,
           \A i \in 0..(length - 1) : buffer'[i] = buffer[i]
    PROVE  UNCHANGED <<GetData, VTell, got>>
<1>1. length \in Nat
    BY DEF IInv, TypeInv
<1>2. GetData' = GetData
    BY <1>1 DEF GetData
<1> QED
    BY <1>2 DEF VTell

\* An item copied is a write of ByteFile, lost when it is past the end.
LEMMA CopyItemMaps == ASSUME IInv, CopyItem PROVE File!Next
<1>1. /\ itemSize \in Nat /\ itemSize # 0 /\ source \in Seq(Byte) /\ capacity \in Nat
      /\ current \in Nat /\ length \in Nat /\ lengthLeft \in Nat
      /\ DOMAIN buffer = 0..(capacity - 1) /\ length + Len(source) <= MaxLength
    BY DEF IInv, TypeInv, Agreed, Memory
<1>2. itemSize <= Len(source) /\ Len(source) \in Nat
    BY RoomForItem
<1>3. Item \in [1..itemSize -> Byte] /\ Len(Item) = itemSize
    BY <1>1, <1>2 DEF Item
<1>4. MappedWell /\ MappedWell' /\ IInv'
    BY CopyItemKeeps, Mapped, MappedNext
<1>5. VTell' = VTell + Len(Item) /\ VTell = current
    BY <1>3, <1>4 DEF MappedWell, CopyItem
<1>6. /\ current <= length => lengthLeft = length - current
      /\ current > length => lengthLeft > MaxLength
    BY Positions
<1>7. /\ Added(itemSize) = IF lengthLeft >= itemSize THEN 0 ELSE itemSize - lengthLeft
      /\ length' = length + Added(itemSize) /\ Len(GetData) = length
    BY <1>1, <1>4 DEF Added, CopyItem, MappedWell
<1>8. ASSUME NEW i \in 1..length'
      PROVE  buffer'[i - 1] = IF i \in (current + 1)..(current + itemSize)
                              THEN Item[i - current] ELSE buffer[i - 1]
    <2>1. i \in Int /\ length' <= capacity /\ length' \in Nat
        BY <1>4 DEF IInv, TypeInv, Agreed, CopyItem
    <2>2. i - 1 \in DOMAIN buffer
        BY <2>1, <1>1
    <2>3. CASE i \in (current + 1)..(current + itemSize)
        <3>1. i - 1 \in current..(current + itemSize - 1) /\ (i - 1) - current + 1 = i - current
            BY <2>1, <2>3, <1>1
        <3>2. buffer'[i - 1] = source[i - current]
            BY <3>1, <2>2 DEF CopyItem
        <3>3. i - current \in 1..itemSize
            BY <2>1, <2>3, <1>1
        <3> QED
            BY <3>2, <3>3, <2>3 DEF Item
    <2>4. CASE ~(i \in (current + 1)..(current + itemSize))
        <3>1. ~(i - 1 \in current..(current + itemSize - 1))
            BY <2>1, <2>4, <1>1
        <3>2. buffer'[i - 1] = buffer[i - 1]
            BY <3>1, <2>2 DEF CopyItem
        <3> QED
            BY <3>2, <2>4
    <2> QED
        BY <2>3, <2>4
<1>9. itemSize \in 0..MaxLength
    BY <1>1, <1>2, ConstantTypes
<1>10. GetData' = [i \in 1..length' |-> buffer'[i - 1]]
    BY DEF GetData
<1>11. CASE current <= length
    <2>1. length' = File!Larger(Len(GetData), VTell + Len(Item))
        BY <1>11, <1>1, <1>3, <1>5, <1>6, <1>7 DEF File!Larger
    <2>2. ASSUME NEW i \in 1..length', ~(i \in (current + 1)..(current + itemSize))
          PROVE  buffer[i - 1] = GetData[i]
        <3>1. i \in 1..length
            BY <2>1, <2>2, <1>11, <1>1, <1>3, <1>5, <1>7 DEF File!Larger
        <3> QED
            BY <3>1 DEF GetData
    <2>3. GetData' = File!Overwritten(GetData, VTell, Item)
        BY <2>1, <2>2, <1>3, <1>5, <1>8, <1>10 DEF File!Overwritten
    <2>4. ~File!PastEnd
        BY <1>11, <1>1, <1>5, <1>7 DEF File!PastEnd
    <2> QED
        BY <2>3, <2>4, <1>5, <1>3, <1>9 DEF File!Write, File!Next, CopyItem
<1>12. CASE current > length
    <2>1. length' = length
        BY <1>12, <1>1, <1>6, <1>7, <1>9, ConstantTypes
    <2>2. GetData' = GetData
        <3>1. ASSUME NEW i \in 1..length PROVE buffer'[i - 1] = buffer[i - 1]
            BY <2>1, <1>8, <1>12, <1>1
        <3> QED
            BY <3>1, <2>1, <1>10 DEF GetData
    <2>3. File!PastEnd
        BY <1>12, <1>1, <1>5, <1>7 DEF File!PastEnd
    <2> QED
        BY <2>2, <2>3, <1>5, <1>3, <1>9 DEF File!Write, File!Next, CopyItem
<1> QED
    BY <1>1, <1>11, <1>12

LEMMA VReadMaps == ASSUME IInv, NEW n \in 0..MaxLength, VRead(n) PROVE File!Next
<1>1. /\ n \in Nat /\ n <= lengthLeft /\ current \in Nat /\ length \in Nat
      /\ current <= length => lengthLeft = length - current
      /\ length <= capacity /\ capacity \in Nat
    <2>1. n \in Nat /\ n <= lengthLeft
        BY ConstantTypes DEF VRead
    <2>2. length <= capacity /\ capacity \in Nat
        BY DEF IInv, TypeInv, Agreed
    <2> QED
        BY <2>1, <2>2, Positions
<1>2. MappedWell /\ MappedWell'
    BY VReadKeeps, Mapped, MappedNext
<1>3. VTell = current /\ VTell' = VTell + n /\ Len(GetData) = length
    BY <1>2 DEF MappedWell, VRead
<1>4. GetData' = GetData
    BY DEF GetData, VRead
<1>5. /\ got' \in [1..n -> Cell]
      /\ \A i \in 1..n : current + i - 1 < capacity => got'[i] = buffer[current + i - 1]
    BY DEF VRead
<1>6. CASE current <= length
    <2>1. VTell + n <= Len(GetData) /\ ~File!PastEnd
        BY <1>6, <1>1, <1>3 DEF File!PastEnd
    <2>2. SubSeq(GetData, VTell + 1, VTell + n) = [i \in 1..n |-> GetData[VTell + i]]
        BY <1>1, <1>3
    <2>3. ASSUME NEW i \in 1..n PROVE GetData[current + i] = got'[i]
        <3>1. current + i \in 1..length /\ current + i - 1 < capacity
            BY <1>6, <1>1
        <3>2. GetData[current + i] = buffer[current + i - 1]
            BY <3>1, <1>1 DEF GetData
        <3> QED
            BY <3>1, <3>2, <1>5
    <2>4. got' = [i \in 1..n |-> GetData[VTell + i]]
        BY <2>3, <1>3, <1>5
    <2>5. got' = SubSeq(GetData, VTell + 1, VTell + n)
        BY <2>2, <2>4
    <2> QED
        BY <2>1, <2>5, <1>3, <1>4 DEF File!Read, File!Next
<1>7. CASE current > length
    <2>1. File!PastEnd
        BY <1>7, <1>3 DEF File!PastEnd
    <2>2. got' \in [1..n -> Byte \cup {Junk}]
        BY <1>5 DEF Cell
    <2> QED
        BY <2>1, <2>2, <1>3, <1>4 DEF File!ReadPastEnd, File!Next
<1> QED
    BY <1>1, <1>6, <1>7

LEMMA VSeekMaps == ASSUME IInv, NEW n \in -MaxLength..MaxLength, VSeek(n) PROVE File!Next
<1>1. MappedWell /\ MappedWell'
    BY VSeekKeeps, Mapped, MappedNext
<1>2. GetData' = GetData /\ UNCHANGED got
    BY DEF GetData, VSeek, SeekCurrent, SeekRoot, SeekEnd
<1>3. VTell' \in 0..MaxLength
    BY <1>1 DEF MappedWell
<1>4. File!Seek(VTell')
    BY <1>2 DEF File!Seek
<1> QED
    BY <1>3, <1>4 DEF File!Next

\* Every step of the stream is one of the file, or changes nothing of it.
LEMMA NextMaps == IInv /\ [Next]_vars => [File!Next]_(File!vars)
<1> SUFFICES ASSUME IInv, [Next]_vars PROVE [File!Next]_(File!vars)
    OBVIOUS
<1>1. ASSUME UNCHANGED <<GetData, VTell, got>> PROVE UNCHANGED File!vars
    BY <1>1 DEF File!vars
<1>2. ASSUME NEW count \in 1..MaxItems, NEW size \in ItemSizes,
             NEW bytes \in [1..(count * size) -> Byte], BeginWrite(count, size, bytes)
      PROVE  UNCHANGED File!vars
    BY <1>1, <1>2, StutterMaps DEF BeginWrite
<1>3. CASE Grow
    <2>1. \A i \in 0..(length - 1) : buffer'[i] = buffer[i]
        BY <1>3 DEF IInv, TypeInv, Agreed, Grow
    <2> QED
        BY <1>1, <1>3, <2>1, StutterMaps DEF Grow
<1>4. CASE CopyItem
    BY <1>4, CopyItemMaps
<1>5. ASSUME NEW n \in 0..MaxLength, VRead(n) PROVE File!Next
    BY <1>5, VReadMaps
<1>6. ASSUME NEW n \in -MaxLength..MaxLength, VSeek(n) PROVE File!Next
    BY <1>6, VSeekMaps
<1>7. CASE UNCHANGED vars
    BY <1>1, <1>7, StutterMaps DEF vars
<1> QED
    BY <1>2, <1>3, <1>4, <1>5, <1>6, <1>7 DEF Next

\* The stream over memory is the file its callers take it for.
THEOREM IsAByteFile == Spec => IsAFile
BY InitHolds, InitMaps, NextMaps, Invariance, PTL DEF Spec, IsAFile, File!Spec

-----------------------------------------------------------------------------
(* The children of a folder: FolderListing.  Numbers and finite sets         *)

LEMMA Smallest ==
  ASSUME NEW S \in SUBSET Nat, S # {}
  PROVE  \E m \in S : \A n \in S : m <= n
<1>1. \E m \in S : \A n \in S : <<n, m>> \notin OpToRel(<, Nat)
  BY NatLessThanWellFounded, WFMin
<1>2. \A m, n \in Nat : n < m => <<n, m>> \in OpToRel(<, Nat)
  BY DEF OpToRel
<1>3. \A m, n \in S : ~(n < m) => m <= n
  OBVIOUS
<1> QED BY <1>1, <1>2, <1>3

\* What holds of 0 and of each number after one it holds of holds up to n.
LEMMA Along ==
  ASSUME NEW n \in Nat, NEW P, 0 \in P, \A i \in 1..n : i - 1 \in P => i \in P
  PROVE  \A i \in 0..n : i \in P
<1> DEFINE Bad == {i \in 0..n : i \notin P}
<1>1. SUFFICES ASSUME Bad # {} PROVE FALSE
  OBVIOUS
<1>2. Bad \in SUBSET Nat
  OBVIOUS
<1>3. PICK m \in Bad : \A i \in Bad : m <= i
  BY <1>1, <1>2, Smallest
<1>4. m \in 1..n /\ m - 1 \in 0..n /\ m - 1 \notin Bad
  BY <1>3
<1> QED BY <1>3, <1>4

\* A function can be built value by value.
Built(f, s0, n, g) == f = [i \in 0..n |-> IF i = 0 THEN s0 ELSE g[i][f[i - 1]]]

LEMMA Iterates ==
  ASSUME NEW S, NEW s0 \in S, NEW n \in Nat, NEW g \in [1..n -> [S -> S]]
  PROVE  \E f \in [0..n -> S] : Built(f, s0, n, g)
<1> DEFINE Has(m) == \E f \in [0..m -> S] :
             \A i \in 0..m : f[i] = IF i = 0 THEN s0 ELSE g[i][f[i - 1]]
           P == {m \in 0..n : Has(m)}
<1>1. Has(0)
  <2> WITNESS [i \in 0..0 |-> s0] \in [0..0 -> S]
  <2> QED OBVIOUS
<1>2. ASSUME NEW m \in 1..n, Has(m - 1) PROVE Has(m)
  <2>1. PICK f \in [0..(m - 1) -> S] :
          \A i \in 0..(m - 1) : f[i] = IF i = 0 THEN s0 ELSE g[i][f[i - 1]]
    BY <1>2
  <2> DEFINE h == [i \in 0..m |-> IF i = m THEN g[m][f[m - 1]] ELSE f[i]]
  <2>2. m - 1 \in 0..(m - 1) /\ g[m] \in [S -> S]
    OBVIOUS
  <2>3. h \in [0..m -> S]
    BY <2>2
  <2>4. \A i \in 0..m : h[i] = IF i = 0 THEN s0 ELSE g[i][h[i - 1]]
    <3> TAKE i \in 0..m
    <3>1. CASE i = m
      BY <3>1
    <3>2. CASE i # m
      <4>1. i \in 0..(m - 1) /\ (i # 0 => i - 1 \in 0..m /\ i - 1 # m)
        BY <3>2
      <4> QED BY <2>1, <3>2, <4>1
    <3> QED BY <3>1, <3>2
  <2> QED BY <2>3, <2>4
<1> HIDE DEF Has
<1>3. \A i \in 0..n : i \in P
  <2>1. 0 \in P /\ \A i \in 1..n : i - 1 \in P => i \in P
    BY <1>1, <1>2
  <2> HIDE DEF P
  <2> QED BY <2>1, Along
<1>4. PICK f \in [0..n -> S] : \A i \in 0..n : f[i] = IF i = 0 THEN s0 ELSE g[i][f[i - 1]]
  BY <1>3 DEF Has
<1>5. Built(f, s0, n, g)
  BY <1>4 DEF Built
<1> QED BY <1>5

\* Numbers that are ordered in any way are in that order when each is put behind
\* as many as are before it.
ByRank(n, R) ==
  [r \in 1..n |-> CHOOSE i \in 1..n : Cardinality({j \in 1..n : <<j, i>> \in R}) + 1 = r]

Arranged(n, R, p) ==
  /\ p \in Injection(1..n, 1..n)
  /\ \A i, j \in 1..n : i < j => <<p[i], p[j]>> \in R

LEMMA Arrangement ==
  ASSUME NEW n \in Nat, NEW R,
         \A i \in 1..n : <<i, i>> \notin R,
         \A i, j \in 1..n : i # j => <<i, j>> \in R \/ <<j, i>> \in R,
         \A i, j, k \in 1..n : <<i, j>> \in R /\ <<j, k>> \in R => <<i, k>> \in R
  PROVE  Arranged(n, R, ByRank(n, R))
<1> DEFINE D == 1..n
           under(i) == {j \in D : <<j, i>> \in R}
           rank == [i \in D |-> Cardinality(under(i)) + 1]
<1>0. ByRank(n, R) = [r \in D |-> CHOOSE i \in D : rank[i] = r]
  <2> DEFINE at(r) == CHOOSE i \in D : rank[i] = r
             put(r) == CHOOSE i \in 1..n : Cardinality({j \in 1..n : <<j, i>> \in R}) + 1 = r
  <2>1. \A r : \A i \in D : rank[i] = r <=> Cardinality({j \in 1..n : <<j, i>> \in R}) + 1 = r
    OBVIOUS
  <2>2. \A r : at(r) = put(r)
    BY <2>1
  <2>3. ByRank(n, R) = [r \in 1..n |-> put(r)]
    BY DEF ByRank
  <2> HIDE DEF rank, at, put
  <2>4. ByRank(n, R) = [r \in D |-> at(r)]
    BY <2>2, <2>3
  <2> QED BY <2>4 DEF at
<1>1. IsFiniteSet(D) /\ Cardinality(D) = n
  BY FS_Interval
<1>a. \A i \in D : under(i) \in SUBSET (D \ {i})
  OBVIOUS
<1>b. \A i, j \in D : <<i, j>> \in R => under(i) \in SUBSET (under(j) \ {i}) /\ i \in under(j)
  OBVIOUS
<1>c. \A i \in D : rank[i] = Cardinality(under(i)) + 1
  OBVIOUS
<1> HIDE DEF D, under, rank
<1>2. ASSUME NEW i \in D PROVE IsFiniteSet(under(i)) /\ Cardinality(under(i)) \in 0..(n - 1)
  <2>1. under(i) \in SUBSET (D \ {i})
    BY <1>a
  <2>2. IsFiniteSet(D \ {i}) /\ Cardinality(D \ {i}) = n - 1
    BY <1>1, FS_RemoveElement
  <2>3. IsFiniteSet(under(i)) /\ Cardinality(under(i)) <= Cardinality(D \ {i})
    BY <2>1, <2>2, FS_Subset
  <2>4. Cardinality(under(i)) \in Nat
    BY <2>3, FS_CardinalityType
  <2> QED BY <2>2, <2>3, <2>4
<1>3. ASSUME NEW i \in D, NEW j \in D, <<i, j>> \in R PROVE rank[i] < rank[j]
  <2>1. under(i) \in SUBSET (under(j) \ {i}) /\ i \in under(j)
    BY <1>3, <1>b
  <2>2. IsFiniteSet(under(j) \ {i}) /\ Cardinality(under(j) \ {i}) = Cardinality(under(j)) - 1
    BY <1>2, <2>1, FS_RemoveElement
  <2>3. Cardinality(under(i)) <= Cardinality(under(j) \ {i})
    BY <2>1, <2>2, FS_Subset
  <2>4. Cardinality(under(i)) \in Nat /\ Cardinality(under(j)) \in Nat
    BY <1>2
  <2> QED BY <1>c, <2>2, <2>3, <2>4
<1>4. rank \in [D -> D]
  <2>1. \A i \in D : Cardinality(under(i)) + 1 \in D
    BY <1>2 DEF D
  <2> QED BY <2>1 DEF rank
<1>5. \A i, j \in D : rank[i] = rank[j] => i = j
  <2> SUFFICES ASSUME NEW i \in D, NEW j \in D, rank[i] = rank[j], i # j PROVE FALSE
    OBVIOUS
  <2>1. <<i, j>> \in R \/ <<j, i>> \in R
    BY DEF D
  <2>2. rank[i] < rank[j] \/ rank[j] < rank[i]
    BY <1>3, <2>1
  <2> QED BY <1>4, <2>2 DEF D
<1>6. rank \in Injection(D, D)
  BY <1>4, <1>5 DEF Injection, IsInjective
<1>7. rank \in Surjection(D, D)
  BY <1>1, <1>6, FS_Injection
<1>8. \A r \in D : \E i \in D : rank[i] = r
  BY <1>7 DEF Surjection
<1> DEFINE p == [r \in D |-> CHOOSE i \in D : rank[i] = r]
<1>9. \A r \in D : p[r] \in D /\ rank[p[r]] = r
  BY <1>8
<1>10. p \in [D -> D]
  BY <1>9
<1> HIDE DEF p
<1>11. p \in Injection(D, D)
  BY <1>9, <1>10 DEF Injection, IsInjective
<1>12. ASSUME NEW i \in D, NEW j \in D, i < j PROVE <<p[i], p[j]>> \in R
  <2>1. p[i] # p[j] /\ p[i] \in D /\ p[j] \in D
    BY <1>9, <1>12 DEF D
  <2>2. <<p[j], p[i]>> \in R => FALSE
    <3> SUFFICES ASSUME <<p[j], p[i]>> \in R PROVE FALSE
      OBVIOUS
    <3>1. rank[p[j]] < rank[p[i]]
      BY <1>3, <2>1
    <3> QED BY <1>9, <1>12, <3>1 DEF D
  <2> QED BY <2>1, <2>2 DEF D
<1> QED BY <1>0, <1>11, <1>12 DEF Arranged, D, p

-----------------------------------------------------------------------------
(* stricmp is an order, and strnicmp with the length is the same one *)

LEMMA BeforeBy ==
  ASSUME NEW a, NEW b, NEW i \in 1..Len(b), \A j \in 1..(i - 1) : j <= Len(a) /\ a[j] = b[j],
         i <= Len(a) => a[i] < b[i]
  PROVE  Listing!Before(a, b)
BY DEF Listing!Before

LEMMA BeforeIsAnOrder ==
  ASSUME NEW a \in Seq(Nat), NEW b \in Seq(Nat), NEW c \in Seq(Nat)
  PROVE  /\ ~Listing!Before(a, a)
         /\ Listing!Before(a, b) /\ Listing!Before(b, c) => Listing!Before(a, c)
         /\ Listing!Before(a, b) \/ a = b \/ Listing!Before(b, a)
<1>1. Len(a) \in Nat /\ Len(b) \in Nat /\ Len(c) \in Nat
  OBVIOUS
<1>2. /\ \A i \in 1..Len(a) : a[i] \in Nat
      /\ \A i \in 1..Len(b) : b[i] \in Nat
      /\ \A i \in 1..Len(c) : c[i] \in Nat
  OBVIOUS
<1>3. ~Listing!Before(a, a)
  BY <1>1, <1>2 DEF Listing!Before
<1>4. ASSUME Listing!Before(a, b), Listing!Before(b, c) PROVE Listing!Before(a, c)
  <2>1. PICK i \in 1..Len(b) : /\ \A j \in 1..(i - 1) : j <= Len(a) /\ a[j] = b[j]
                               /\ i <= Len(a) => a[i] < b[i]
    BY <1>4 DEF Listing!Before
  <2>2. PICK k \in 1..Len(c) : /\ \A j \in 1..(k - 1) : j <= Len(b) /\ b[j] = c[j]
                               /\ k <= Len(b) => b[k] < c[k]
    BY <1>4 DEF Listing!Before
  <2>3. CASE i <= k
    <3>1. i \in 1..Len(c) /\ \A j \in 1..(i - 1) : j <= Len(a) /\ a[j] = c[j]
      <4>1. i \in 1..Len(c) /\ \A j \in 1..(i - 1) : j \in 1..(k - 1)
        BY <1>1, <2>3
      <4> QED BY <2>1, <2>2, <4>1
    <3>2. ASSUME i <= Len(a) PROVE a[i] < c[i]
      <4>1. a[i] < b[i] /\ (b[i] < c[i] \/ b[i] = c[i])
        <5>1. i = k \/ i \in 1..(k - 1)
          BY <1>1, <2>3
        <5>2. i <= Len(b)
          BY <1>1
        <5> QED BY <2>1, <2>2, <3>2, <5>1, <5>2
      <4>2. a[i] \in Nat /\ b[i] \in Nat /\ c[i] \in Nat
        BY <1>1, <1>2, <2>1, <3>1, <3>2
      <4>3. \A x, y, z \in Nat : x < y /\ (y < z \/ y = z) => x < z
        OBVIOUS
      <4> QED BY <4>1, <4>2, <4>3
    <3> QED BY <3>1, <3>2, BeforeBy
  <2>4. CASE k < i
    <3>1. k \in 1..(i - 1) /\ k <= Len(b) /\ \A j \in 1..(k - 1) : j \in 1..(i - 1)
      BY <1>1, <2>4
    <3>2. a[k] < c[k] /\ \A j \in 1..(k - 1) : j <= Len(a) /\ a[j] = c[j]
      BY <2>1, <2>2, <3>1
    <3> QED BY <3>1, <3>2, BeforeBy
  <2> QED BY <1>1, <2>3, <2>4
<1>5. ASSUME a # b PROVE Listing!Before(a, b) \/ Listing!Before(b, a)
  <2> DEFINE D == {i \in Nat \ {0} : i <= Len(a) /\ i <= Len(b) => a[i] # b[i]}
  <2>1. Len(a) + Len(b) + 1 \in D
    BY <1>1
  <2>2. PICK m \in D : \A i \in D : m <= i
    BY <2>1, Smallest
  <2>3. \A j \in 1..(m - 1) : j <= Len(a) /\ j <= Len(b) /\ a[j] = b[j]
    BY <1>1, <2>2
  <2>4. CASE m <= Len(a) /\ m <= Len(b)
    <3>1. a[m] < b[m] \/ b[m] < a[m]
      BY <1>2, <2>2, <2>4
    <3>2. m \in 1..Len(a) /\ m \in 1..Len(b)
      BY <1>1, <2>2, <2>4
    <3> QED BY <2>3, <3>1, <3>2, BeforeBy
  <2>5. CASE m <= Len(a) /\ ~(m <= Len(b))
    <3>1. m \in 1..Len(a)
      BY <1>1, <2>2, <2>5
    <3> QED BY <2>3, <2>5, <3>1, BeforeBy
  <2>6. CASE ~(m <= Len(a)) /\ m <= Len(b)
    <3>1. m \in 1..Len(b)
      BY <1>1, <2>2, <2>6
    <3> QED BY <2>3, <2>6, <3>1, BeforeBy
  <2>7. CASE ~(m <= Len(a)) /\ ~(m <= Len(b))
    <3>1. Len(a) = m - 1 /\ Len(b) = m - 1
      <4>1. m \in Nat /\ (m - 1 = 0 \/ m - 1 \in 1..(m - 1))
        BY <2>2
      <4>2. m - 1 = 0 \/ (m - 1 <= Len(a) /\ m - 1 <= Len(b))
        BY <2>3, <4>1
      <4> QED BY <1>1, <2>7, <4>1, <4>2
    <3>2. a = b
      BY <2>3, <3>1, SeqEqual
    <3> QED BY <1>5, <3>2
  <2> QED BY <2>4, <2>5, <2>6, <2>7
<1> QED BY <1>3, <1>4, <1>5

LEMMA FoldsAreCompared ==
  ASSUME NEW c \in Seq(Nat), NEW n \in Seq(Nat)
  PROVE  /\ Listing!Higher(c, n) <=> Listing!Before(n, c)
         /\ Listing!Lower(c, n) <=> Listing!Before(c, n)
<1> DEFINE d == Listing!Cut(c, Len(n))
<1>1. Len(c) \in Nat /\ Len(n) \in Nat
  OBVIOUS
<1>2. /\ d \in Seq(Nat) /\ Len(d) <= Len(n) /\ Len(d) <= Len(c)
      /\ Len(d) = Len(n) \/ d = c
      /\ \A j \in 1..Len(d) : d[j] = c[j]
  <2>1. CASE Len(n) < Len(c)
    <3>1. \A j \in 1..Len(n) : c[j] \in Nat
      BY <1>1, <2>1
    <3>2. /\ SubSeq(c, 1, Len(n)) \in Seq(Nat) /\ Len(SubSeq(c, 1, Len(n))) = Len(n)
          /\ \A j \in 1..Len(n) : SubSeq(c, 1, Len(n))[j] = c[j]
      BY <1>1, <2>1, <3>1, SubSeqProperties
    <3> QED BY <1>1, <2>1, <3>2 DEF Listing!Cut
  <2>2. CASE ~(Len(n) < Len(c))
    BY <1>1, <2>2 DEF Listing!Cut
  <2> QED BY <2>1, <2>2
<1> HIDE DEF d
<1>3. Len(d) \in Nat
  BY <1>2
<1>4. ASSUME Listing!Before(n, d) PROVE Listing!Before(n, c)
  <2>1. PICK i \in 1..Len(d) : /\ \A j \in 1..(i - 1) : j <= Len(n) /\ n[j] = d[j]
                               /\ i <= Len(n) => n[i] < d[i]
    BY <1>4 DEF Listing!Before
  <2>2. i \in 1..Len(c) /\ \A j \in 1..i : d[j] = c[j]
    <3>1. Len(d) <= Len(c) /\ \A j \in 1..Len(d) : d[j] = c[j]
      BY <1>2
    <3>2. i \in 1..Len(c) /\ \A j \in 1..i : j \in 1..Len(d)
      BY <1>1, <1>3, <3>1
    <3> QED BY <3>1, <3>2
  <2>3. i \in 1..i /\ \A j \in 1..(i - 1) : j \in 1..i
    BY <2>1
  <2> QED BY <2>1, <2>2, <2>3, BeforeBy
<1>5. ASSUME d = n, Len(c) # Len(n) PROVE Listing!Before(n, c)
  <2>1. Len(n) + 1 \in 1..Len(c) /\ \A j \in 1..Len(n) : n[j] = c[j]
    BY <1>1, <1>2, <1>5
  <2> QED BY <1>1, <2>1 DEF Listing!Before
<1>6. ASSUME Listing!Before(n, c) PROVE Listing!Before(n, d) \/ (d = n /\ Len(c) # Len(n))
  <2>1. PICK i \in 1..Len(c) : /\ \A j \in 1..(i - 1) : j <= Len(n) /\ n[j] = c[j]
                               /\ i <= Len(n) => n[i] < c[i]
    BY <1>6 DEF Listing!Before
  <2>2. CASE i <= Len(n)
    <3>1. i \in 1..Len(d)
      BY <1>1, <1>2, <1>3, <2>1, <2>2
    <3>2. \A j \in 1..i : d[j] = c[j]
      BY <1>1, <1>2, <1>3, <3>1
    <3>3. i \in 1..i /\ \A j \in 1..(i - 1) : j \in 1..i
      BY <2>1
    <3> QED BY <2>1, <2>2, <3>1, <3>2, <3>3, BeforeBy
  <2>3. CASE ~(i <= Len(n))
    <3>1. i = Len(n) + 1
      <4>1. i \in Nat /\ (i - 1 = 0 \/ i - 1 \in 1..(i - 1))
        BY <2>1
      <4>2. i - 1 = 0 \/ i - 1 <= Len(n)
        BY <2>1, <4>1
      <4> QED BY <1>1, <2>3, <4>1, <4>2
    <3>2. Len(d) = Len(n) /\ Len(c) # Len(n)
      BY <1>1, <1>2, <2>1, <3>1
    <3>3. \A j \in 1..Len(n) : d[j] = n[j]
      BY <1>1, <1>2, <2>1, <3>1, <3>2
    <3> QED BY <1>2, <3>2, <3>3, SeqEqual
  <2> QED BY <2>2, <2>3
<1>7. ASSUME NEW x, NEW y, {x, y} = {c, d}, Listing!Before(x, n) PROVE Listing!Before(y, n)
  <2>1. PICK i \in 1..Len(n) : /\ \A j \in 1..(i - 1) : j <= Len(x) /\ x[j] = n[j]
                               /\ i <= Len(x) => x[i] < n[i]
    BY <1>7 DEF Listing!Before
  <2>2. \A j \in 1..i : j <= Len(d) <=> j <= Len(c)
    BY <1>1, <1>2, <1>3, <2>1
  <2>3. \A j \in 1..i : j <= Len(d) => d[j] = c[j]
    BY <1>2, <1>3, <2>1
  <2>4. \A j \in 1..i : (j <= Len(y) <=> j <= Len(x)) /\ (j <= Len(x) => y[j] = x[j])
    BY <1>7, <2>2, <2>3
  <2>5. i \in 1..i /\ \A j \in 1..(i - 1) : j \in 1..i
    BY <2>1
  <2> QED BY <2>1, <2>4, <2>5, BeforeBy
<1>8. Listing!Before(d, n) <=> Listing!Before(c, n)
  BY <1>7
<1> QED BY <1>4, <1>5, <1>6, <1>8 DEF Listing!Higher, Listing!Lower, d

-----------------------------------------------------------------------------
(* The search *)

Ranges(size) == [lo : 0..size, hi : 0..size]

SearchedBy(f, size, higher, lower) ==
  /\ f \in [0..size -> Ranges(size)] /\ f[0] = [lo |-> 0, hi |-> size]
  /\ \A i \in 1..size : f[i] = Listing!Halved(f[i - 1], higher, lower)
  /\ Listing!Search(size, higher, lower) =
       IF f[size].lo < f[size].hi THEN Listing!Mid(f[size]) + 1 ELSE 0

LEMMA MidIsInside ==
  ASSUME NEW size \in Nat, NEW r \in Ranges(size), r.lo < r.hi
  PROVE  Listing!Mid(r) \in r.lo..(r.hi - 1)
<1>1. r.lo \in Nat /\ r.hi \in Nat
  BY DEF Ranges
<1>2. \A a, b \in Nat : a < b => (a + b) \div 2 \in a..(b - 1)
  OBVIOUS
<1> QED BY <1>1, <1>2 DEF Listing!Mid

\* A round keeps the range, or leaves the part below or above its middle.
LEMMA HalvedIs ==
  ASSUME NEW size \in Nat, NEW r \in Ranges(size), NEW higher, NEW lower
  PROVE  LET h == Listing!Halved(r, higher, lower)  m == Listing!Mid(r) IN
         /\ h \in Ranges(size)
         /\ r.lo < r.hi /\ m + 1 \in higher => h.lo = r.lo /\ h.hi = m
         /\ r.lo < r.hi /\ m + 1 \in lower \ higher => h.lo = m + 1 /\ h.hi = r.hi
         /\ ~(r.lo < r.hi) \/ m + 1 \notin higher \union lower => h = r
<1> DEFINE m == Listing!Mid(r)
<1>1. r.lo \in 0..size /\ r.hi \in 0..size /\ r = [lo |-> r.lo, hi |-> r.hi]
  BY DEF Ranges
<1>2. r.lo < r.hi => m \in 0..size /\ m + 1 \in 0..size
  BY <1>1, MidIsInside
<1> HIDE DEF m
<1>3. CASE r.lo < r.hi /\ m + 1 \in higher
  <2>1. Listing!Halved(r, higher, lower) = [lo |-> r.lo, hi |-> m]
    BY <1>1, <1>3 DEF Listing!Halved, m
  <2> QED BY <1>1, <1>2, <1>3, <2>1 DEF Ranges, m
<1>4. CASE r.lo < r.hi /\ m + 1 \in lower \ higher
  <2>1. Listing!Halved(r, higher, lower) = [lo |-> m + 1, hi |-> r.hi]
    BY <1>1, <1>4 DEF Listing!Halved, m
  <2> QED BY <1>1, <1>2, <1>4, <2>1 DEF Ranges, m
<1>5. CASE ~(r.lo < r.hi) \/ m + 1 \notin higher \union lower
  <2>1. Listing!Halved(r, higher, lower) = r
    BY <1>5 DEF Listing!Halved, m
  <2> QED BY <1>5, <2>1 DEF m
<1> QED BY <1>3, <1>4, <1>5 DEF m

LEMMA SearchGoesOn ==
  ASSUME NEW size \in Nat, NEW higher, NEW lower
  PROVE  \E f : SearchedBy(f, size, higher, lower)
<1> DEFINE S == Ranges(size)
           s0 == [lo |-> 0, hi |-> size]
           next(r) == Listing!Halved(r, higher, lower)
           g == [i \in 1..size |-> [r \in S |-> next(r)]]
           Is(f) == f = [i \in 0..size |-> IF i = 0 THEN s0 ELSE next(f[i - 1])]
           range == CHOOSE f : Is(f)
<1>1. s0 \in S
  BY DEF Ranges
<1>2. ASSUME NEW r \in S PROVE next(r) \in S
  BY HalvedIs
<1> HIDE DEF S, s0, next
<1>3. g \in [1..size -> [S -> S]]
  BY <1>2
<1>4. \E f : Is(f)
  <2> HIDE DEF g
  <2>1. PICK f \in [0..size -> S] : Built(f, s0, size, g)
    BY <1>1, <1>3, Iterates
  <2>2. \A i \in 0..size : i # 0 => i \in 1..size /\ i - 1 \in 0..size /\ f[i - 1] \in S
    BY <2>1
  <2>3. \A i \in 0..size : i # 0 => g[i][f[i - 1]] = next(f[i - 1])
    BY <2>2 DEF g
  <2>4. Is(f)
    BY <2>1, <2>3 DEF Built
  <2> QED BY <2>4
<1>5. Is(range)
  <2> HIDE DEF Is
  <2> QED BY <1>4
<1> HIDE DEF range
<1>6. range[0] = s0 /\ \A i \in 1..size : range[i] = next(range[i - 1])
  BY <1>5
<1>7. \A i \in 0..size : range[i] \in S
  <2> DEFINE P == {i \in 0..size : range[i] \in S}
  <2>1. 0 \in P
    BY <1>1, <1>6
  <2>2. ASSUME NEW i \in 1..size, i - 1 \in P PROVE i \in P
    BY <2>2, <1>2, <1>6
  <2>3. \A i \in 0..size : i \in P
    <3> HIDE DEF P
    <3> QED BY <2>1, <2>2, Along
  <2> QED BY <2>3
<1>8. range \in [0..size -> S]
  <2>1. \E f : f = [i \in 0..size |-> range[i]] /\ f = range
    BY <1>5
  <2> QED BY <1>7, <2>1
<1>9. Listing!Search(size, higher, lower) =
        IF range[size].lo < range[size].hi THEN Listing!Mid(range[size]) + 1 ELSE 0
  BY DEF Listing!Search, range, Is, s0, next
<1>10. SearchedBy(range, size, higher, lower)
  BY <1>6, <1>8, <1>9 DEF SearchedBy, S, s0, next
<1> QED BY <1>10

\* What the search stops at is neither too high nor too low.
LEMMA SearchStopsAt ==
  ASSUME NEW size \in Nat, NEW higher, NEW lower, Listing!Search(size, higher, lower) # 0
  PROVE  Listing!Search(size, higher, lower) \in (1..size) \ (higher \union lower)
<1>1. PICK f : SearchedBy(f, size, higher, lower)
  BY SearchGoesOn
<1> DEFINE Over(r) == ~(r.lo < r.hi) \/ Listing!Mid(r) + 1 \notin higher \union lower
           P == {i \in 0..size : Over(f[i]) \/ f[i].hi - f[i].lo <= size - i}
<1>2. 0 \in P
  BY <1>1 DEF SearchedBy
<1>3. ASSUME NEW i \in 1..size, i - 1 \in P PROVE i \in P
  <2> DEFINE r == f[i - 1]  h == Listing!Halved(r, higher, lower)  m == Listing!Mid(r)
  <2>1. r \in Ranges(size) /\ f[i] = h
    BY <1>1 DEF SearchedBy
  <2>2. CASE Over(r)
    <3>1. h = r
      BY <2>1, <2>2, HalvedIs
    <3> QED BY <2>1, <2>2, <3>1
  <2>3. CASE ~Over(r)
    <3>1. r.hi - r.lo <= size - (i - 1) /\ r.lo < r.hi /\ m + 1 \in higher \union lower
      BY <1>3, <2>3
    <3>2. r.lo \in Nat /\ r.hi \in Nat /\ m \in r.lo..(r.hi - 1)
      BY <2>1, <3>1, MidIsInside DEF Ranges
    <3>3. (h.lo = r.lo /\ h.hi = m) \/ (h.lo = m + 1 /\ h.hi = r.hi)
      BY <2>1, <3>1, HalvedIs
    <3> HIDE DEF r, h, m
    <3>4. h.hi - h.lo <= size - i
      BY <3>1, <3>2, <3>3
    <3> QED BY <2>1, <3>4
  <2> QED BY <2>2, <2>3
<1>4. size \in P
  <2>1. \A i \in 0..size : i \in P
    <3> HIDE DEF P
    <3> QED BY <1>2, <1>3, Along
  <2> QED BY <2>1
<1> DEFINE r == f[size]
<1>5. r \in Ranges(size) /\ r.lo < r.hi /\ Listing!Search(size, higher, lower) = Listing!Mid(r) + 1
  BY <1>1 DEF SearchedBy
<1>6. r.lo \in 0..size /\ r.hi \in 0..size /\ Listing!Mid(r) \in r.lo..(r.hi - 1)
  BY <1>5, MidIsInside DEF Ranges
<1>7. Over(r)
  BY <1>4, <1>5, <1>6
<1> QED BY <1>5, <1>6, <1>7

\* A place that every higher one is above and every lower one below is not lost.
LEMMA SearchStops ==
  ASSUME NEW size \in Nat, NEW higher, NEW lower, NEW p \in 1..size,
         \A i \in higher \cap 1..size : p < i, \A i \in lower \cap 1..size : i < p
  PROVE  Listing!Search(size, higher, lower) # 0
<1>1. PICK f : SearchedBy(f, size, higher, lower)
  BY SearchGoesOn
<1> DEFINE P == {i \in 0..size : f[i].lo < p /\ p <= f[i].hi}
<1>2. 0 \in P
  BY <1>1 DEF SearchedBy
<1>3. ASSUME NEW i \in 1..size, i - 1 \in P PROVE i \in P
  <2> DEFINE r == f[i - 1]  h == Listing!Halved(r, higher, lower)  m == Listing!Mid(r)
  <2>1. r \in Ranges(size) /\ f[i] = h
    BY <1>1 DEF SearchedBy
  <2>2. r.lo < p /\ p <= r.hi /\ r.lo \in 0..size /\ r.hi \in 0..size
    BY <1>3, <2>1 DEF Ranges
  <2>3. r.lo < r.hi
    BY <2>2
  <2>4. m \in r.lo..(r.hi - 1)
    BY <2>1, <2>3, MidIsInside
  <2>5. m + 1 \in 1..size
    BY <2>2, <2>4
  <2>6. CASE m + 1 \in higher
    <3>1. h.lo = r.lo /\ h.hi = m
      BY <2>1, <2>3, <2>6, HalvedIs
    <3>2. p < m + 1
      BY <2>5, <2>6
    <3> HIDE DEF r, h, m
    <3>3. h.lo < p /\ p <= h.hi
      BY <2>2, <2>4, <3>1, <3>2
    <3> QED BY <2>1, <3>3
  <2>7. CASE m + 1 \in lower \ higher
    <3>1. h.lo = m + 1 /\ h.hi = r.hi
      BY <2>1, <2>3, <2>7, HalvedIs
    <3>2. m + 1 < p
      BY <2>5, <2>7
    <3> HIDE DEF r, h, m
    <3>3. h.lo < p /\ p <= h.hi
      BY <2>2, <2>4, <3>1, <3>2
    <3> QED BY <2>1, <3>3
  <2>8. CASE m + 1 \notin higher \union lower
    <3>1. h = r
      BY <2>1, <2>8, HalvedIs
    <3> QED BY <2>1, <2>2, <3>1
  <2> QED BY <2>6, <2>7, <2>8
<1>4. size \in P
  <2>1. \A i \in 0..size : i \in P
    <3> HIDE DEF P
    <3> QED BY <1>2, <1>3, Along
  <2> QED BY <2>1
<1> DEFINE r == f[size]
<1>5. r \in Ranges(size) /\ r.lo < p /\ p <= r.hi
  BY <1>1, <1>4 DEF SearchedBy
<1>6. r.lo \in Nat /\ r.hi \in Nat
  BY <1>5 DEF Ranges
<1>7. r.lo < r.hi
  BY <1>5, <1>6
<1>8. Listing!Mid(r) \in Nat
  BY <1>5, <1>6, <1>7, MidIsInside
<1> QED BY <1>1, <1>7, <1>8 DEF SearchedBy

-----------------------------------------------------------------------------
(* Sorting and filling the vectors *)

LEMMA SeqElements ==
  ASSUME NEW S, NEW v \in Seq(S)
  PROVE  Len(v) \in Nat /\ DOMAIN v = 1..Len(v) /\ \A i \in DOMAIN v : v[i] \in S
BY ElementOfSeq

InOrder(v) == \A i, j \in DOMAIN v : i < j => ~Listing!Before(v[j], v[i])

SortedOf(S, v, w) ==
  /\ w \in Seq(S) /\ Len(w) = Len(v) /\ InOrder(w)
  /\ IsInjective(v) => IsInjective(w)

LEMMA SortedIs ==
  ASSUME NEW S \in SUBSET Seq(Nat), NEW v \in Seq(S)
  PROVE  SortedOf(S, v, Listing!Sorted(v))
<1> DEFINE n == Len(v)
           R == {e \in (1..n) \X (1..n) : \/ Listing!Before(v[e[1]], v[e[2]])
                                          \/ v[e[1]] = v[e[2]] /\ e[1] < e[2]}
           by(p) == [i \in DOMAIN v |-> v[p[i]]]
<1>1. n \in Nat /\ DOMAIN v = 1..n /\ \A i \in 1..n : v[i] \in Seq(Nat) /\ v[i] \in S
  BY SeqElements
<1>2. \A i, j \in 1..n : <<i, j>> \in R <=> \/ Listing!Before(v[i], v[j])
                                            \/ v[i] = v[j] /\ i < j
  OBVIOUS
<1> HIDE DEF R, n
<1>3. \A i \in 1..n : <<i, i>> \notin R
  BY <1>1, <1>2, BeforeIsAnOrder
<1>4. \A i, j \in 1..n : i # j => <<i, j>> \in R \/ <<j, i>> \in R
  <2> TAKE i, j \in 1..n
  <2> HAVE i # j
  <2>1. Listing!Before(v[i], v[j]) \/ v[i] = v[j] \/ Listing!Before(v[j], v[i])
    BY <1>1, BeforeIsAnOrder
  <2>2. i < j \/ j < i
    BY <1>1
  <2> QED BY <1>2, <2>1, <2>2
<1>5. \A i, j, k \in 1..n : <<i, j>> \in R /\ <<j, k>> \in R => <<i, k>> \in R
  <2> TAKE i, j, k \in 1..n
  <2> HAVE <<i, j>> \in R /\ <<j, k>> \in R
  <2>1. Listing!Before(v[i], v[j]) /\ Listing!Before(v[j], v[k]) => Listing!Before(v[i], v[k])
    BY <1>1, BeforeIsAnOrder
  <2>2. i < j /\ j < k => i < k
    BY <1>1
  <2> QED BY <1>2, <2>1, <2>2
<1> DEFINE p == ByRank(n, R)
<1>6. Arranged(n, R, p)
  BY <1>1, <1>3, <1>4, <1>5, Arrangement
<1>7. Listing!Sorted(v) = by(p)
  <2>1. \A i \in 1..n : Listing!Place(v, i) = Cardinality({j \in 1..n : <<j, i>> \in R}) + 1
    <3> TAKE i \in 1..n
    <3>1. {j \in DOMAIN v : Listing!Before(v[j], v[i]) \/ (v[j] = v[i] /\ j < i)}
            = {j \in 1..n : <<j, i>> \in R}
      BY <1>1, <1>2
    <3>2. \A T : Listing!Cardinality(T) = Cardinality(T)
      BY DEF Listing!Cardinality, Cardinality
    <3> QED BY <3>1, <3>2 DEF Listing!Place
  <2> DEFINE at(r) == CHOOSE i \in DOMAIN v : Listing!Place(v, i) = r
             put(r) == CHOOSE i \in 1..n : Cardinality({j \in 1..n : <<j, i>> \in R}) + 1 = r
  <2>2. \A r : at(r) = put(r)
    BY <1>1, <2>1
  <2>3. Listing!Sorted(v) = [r \in DOMAIN v |-> v[at(r)]]
    BY DEF Listing!Sorted
  <2>4. p = [r \in 1..n |-> put(r)]
    BY DEF ByRank
  <2> HIDE DEF p, at, put
  <2> QED BY <1>1, <2>2, <2>3, <2>4
<1> HIDE DEF p
<1>8. p \in [1..n -> 1..n] /\ \A i, j \in 1..n : p[i] = p[j] => i = j
  BY <1>6 DEF Arranged, Injection, IsInjective
<1>9. InOrder(by(p))
  <2>1. ASSUME NEW i \in 1..n, NEW j \in 1..n, i < j PROVE ~Listing!Before(v[p[j]], v[p[i]])
    <3>1. p[i] \in 1..n /\ p[j] \in 1..n /\ <<p[i], p[j]>> \in R
      BY <1>6, <1>8, <2>1 DEF Arranged
    <3>2. /\ ~Listing!Before(v[p[i]], v[p[i]])
          /\ ~(Listing!Before(v[p[i]], v[p[j]]) /\ Listing!Before(v[p[j]], v[p[i]]))
      BY <1>1, <3>1, BeforeIsAnOrder
    <3> QED BY <1>2, <3>1, <3>2
  <2>2. DOMAIN by(p) = 1..n /\ \A i \in 1..n : by(p)[i] = v[p[i]]
    BY <1>1
  <2> QED BY <2>1, <2>2 DEF InOrder
<1>10. by(p) \in [1..n -> S]
  BY <1>1, <1>8
<1>11. by(p) \in Seq(S) /\ Len(by(p)) = n
  BY <1>1, <1>10
<1>12. IsInjective(v) => IsInjective(by(p))
  BY <1>1, <1>8 DEF IsInjective
<1> QED BY <1>7, <1>9, <1>11, <1>12 DEF SortedOf, n

\* A name that is not there is appended.
LEMMA AppendedOnce ==
  ASSUME NEW S, NEW v \in Seq(S), NEW n \in S
  PROVE  /\ Append(v, n) \in Seq(S)
         /\ IsInjective(v) /\ ~Listing!Contains(v, n) => IsInjective(Append(v, n))
<1>1. Len(v) \in Nat /\ DOMAIN v = 1..Len(v)
  BY SeqElements
<1>2. /\ Append(v, n) \in Seq(S) /\ DOMAIN Append(v, n) = 1..(Len(v) + 1)
      /\ \A i \in 1..Len(v) : Append(v, n)[i] = v[i]
      /\ Append(v, n)[Len(v) + 1] = n
  BY AppendProperties
<1>3. ~Listing!Contains(v, n) => \A i \in 1..Len(v) : v[i] # n
  BY <1>1 DEF Listing!Contains
<1>4. \A i \in 1..(Len(v) + 1) : i \in 1..Len(v) \/ i = Len(v) + 1
  BY <1>1
<1> QED BY <1>1, <1>2, <1>3, <1>4 DEF IsInjective

GrownOf(S, v, w) == w \in Seq(S) /\ (IsInjective(v) => IsInjective(w))

LEMMA GrownIs ==
  ASSUME NEW S, NEW v \in Seq(S), NEW listing \in Seq(S)
  PROVE  GrownOf(S, v, Listing!Grown(v, listing))
<1> DEFINE n == Len(listing)
           T == {w \in Seq(S) : IsInjective(v) => IsInjective(w)}
           next(w, i) == IF Listing!Contains(w, listing[i]) THEN w ELSE Append(w, listing[i])
           g == [i \in 1..n |-> [w \in T |-> next(w, i)]]
           Is(f) == f = [i \in 0..n |->
                      IF i = 0 THEN v
                      ELSE IF Listing!Contains(f[i - 1], listing[i]) THEN f[i - 1]
                      ELSE Append(f[i - 1], listing[i])]
           grown == CHOOSE f : Is(f)
<1>1. n \in Nat /\ v \in T /\ \A i \in 1..n : listing[i] \in S
  BY SeqElements
<1>2. ASSUME NEW i \in 1..n, NEW w \in T PROVE next(w, i) \in T
  BY <1>1, AppendedOnce
<1>3. \A f : Is(f) <=> f = [i \in 0..n |-> IF i = 0 THEN v ELSE next(f[i - 1], i)]
  OBVIOUS
<1>a. Listing!Grown(v, listing) = grown[n]
  BY DEF Listing!Grown
<1> HIDE DEF T, next, n, Is
<1>4. g \in [1..n -> [T -> T]]
  BY <1>2
<1>5. \E f : Is(f)
  <2> HIDE DEF g
  <2>1. PICK f \in [0..n -> T] : Built(f, v, n, g)
    BY <1>1, <1>4, Iterates
  <2>2. \A i \in 0..n : i # 0 => i \in 1..n /\ i - 1 \in 0..n /\ f[i - 1] \in T
    BY <1>1, <2>1
  <2>3. \A i \in 0..n : i # 0 => g[i][f[i - 1]] = next(f[i - 1], i)
    BY <2>2 DEF g
  <2>4. f = [i \in 0..n |-> IF i = 0 THEN v ELSE next(f[i - 1], i)]
    BY <2>1, <2>3 DEF Built
  <2> QED BY <1>3, <2>4
<1>6. Is(grown)
  BY <1>5
<1> HIDE DEF grown
<1>7. grown[0] = v /\ \A i \in 1..n : grown[i] = next(grown[i - 1], i)
  BY <1>1, <1>3, <1>6
<1>8. grown[n] \in T
  <2> DEFINE P == {i \in 0..n : grown[i] \in T}
  <2>1. 0 \in P
    BY <1>1, <1>7
  <2>2. ASSUME NEW i \in 1..n, i - 1 \in P PROVE i \in P
    BY <2>2, <1>2, <1>7
  <2>3. \A i \in 0..n : i \in P
    <3> HIDE DEF P
    <3> QED BY <1>1, <2>1, <2>2, Along
  <2> QED BY <1>1, <2>3
<1> QED BY <1>8, <1>a DEF T, GrownOf

-----------------------------------------------------------------------------
(* The vectors *)

\* What a walk that ends leaves: a child once, in order.
Good(v) == InOrder(v) /\ IsInjective(v)

ListingInv ==
  /\ folds \in Seq(FolderNames) /\ files \in Seq(FolderNames) /\ broken \in BOOLEAN
  /\ ~broken => Good(folds) /\ Good(files)

LEMMA NamesAreNumbers == FolderNames \in SUBSET Seq(Nat)
BY ListingIsSound DEF Listing!NamesAssumption

\* FindFold and FindFile are one search.
LEMMA FoldsAreSearched ==
  ASSUME folds \in Seq(FolderNames), NEW n \in FolderNames
  PROVE  Listing!FindFold(n) = Listing!Search(Len(folds),
           {i \in DOMAIN folds : Listing!Before(n, folds[i])},
           {i \in DOMAIN folds : Listing!Before(folds[i], n)})
<1>1. \A i \in DOMAIN folds : /\ Listing!Higher(folds[i], n) <=> Listing!Before(n, folds[i])
                              /\ Listing!Lower(folds[i], n) <=> Listing!Before(folds[i], n)
  BY SeqElements, NamesAreNumbers, FoldsAreCompared
<1>2. /\ {i \in DOMAIN folds : Listing!Higher(folds[i], n)} = {i \in DOMAIN folds : Listing!Before(n, folds[i])}
      /\ {i \in DOMAIN folds : Listing!Lower(folds[i], n)} = {i \in DOMAIN folds : Listing!Before(folds[i], n)}
  BY <1>1
<1> QED BY <1>2 DEF Listing!FindFold

Looked(v, n, at) ==
  /\ at # 0 => at \in DOMAIN v /\ v[at] = n
  /\ InOrder(v) /\ Listing!Contains(v, n) => at # 0

LEMMA LookedFor ==
  ASSUME NEW v \in Seq(FolderNames), NEW n \in FolderNames
  PROVE  Looked(v, n, Listing!Search(Len(v), {i \in DOMAIN v : Listing!Before(n, v[i])},
                                             {i \in DOMAIN v : Listing!Before(v[i], n)}))
<1> DEFINE higher == {i \in DOMAIN v : Listing!Before(n, v[i])}
           lower == {i \in DOMAIN v : Listing!Before(v[i], n)}
           at == Listing!Search(Len(v), higher, lower)
<1>1. /\ Len(v) \in Nat /\ DOMAIN v = 1..Len(v) /\ n \in Seq(Nat)
      /\ \A i \in DOMAIN v : v[i] \in Seq(Nat)
  BY SeqElements, NamesAreNumbers
<1>2. ASSUME at # 0 PROVE at \in DOMAIN v /\ v[at] = n
  <2>1. at \in (1..Len(v)) \ (higher \union lower)
    <3> HIDE DEF higher, lower
    <3> QED BY <1>1, <1>2, SearchStopsAt
  <2> HIDE DEF at
  <2>2. ~Listing!Before(n, v[at]) /\ ~Listing!Before(v[at], n)
    BY <1>1, <2>1
  <2> QED BY <1>1, <2>1, <2>2, BeforeIsAnOrder
<1>3. ASSUME InOrder(v), Listing!Contains(v, n) PROVE at # 0
  <2>1. PICK p \in 1..Len(v) : v[p] = n
    BY <1>1, <1>3 DEF Listing!Contains
  <2>2. ~Listing!Before(n, n)
    BY <1>1, BeforeIsAnOrder
  <2>3. /\ \A i \in higher \cap 1..Len(v) : p < i
        /\ \A i \in lower \cap 1..Len(v) : i < p
    <3>1. \A i, j \in 1..Len(v) : i < j => ~Listing!Before(v[j], v[i])
      BY <1>1, <1>3 DEF InOrder
    <3>2. \A i \in 1..Len(v) : i < p \/ i = p \/ p < i
      BY <1>1
    <3>3. \A i \in 1..Len(v) : i = p => ~Listing!Before(n, v[i]) /\ ~Listing!Before(v[i], n)
      BY <2>1, <2>2
    <3> QED BY <2>1, <3>1, <3>2, <3>3
  <2> HIDE DEF higher, lower
  <2> QED BY <1>1, <2>1, <2>3, SearchStops
<1> QED BY <1>2, <1>3 DEF Looked

LEMMA FoldIsFound ==
  ASSUME folds \in Seq(FolderNames), NEW n \in FolderNames
  PROVE  Looked(folds, n, Listing!FindFold(n))
BY FoldsAreSearched, LookedFor

LEMMA FileIsFound ==
  ASSUME files \in Seq(FolderNames), NEW n \in FolderNames
  PROVE  Looked(files, n, Listing!FindFile(n))
BY LookedFor DEF Listing!FindFile

LEMMA ListingBegins == Listing!Init => ListingInv
<1> SUFFICES ASSUME Listing!Init PROVE ListingInv
  OBVIOUS
<1>1. <<>> \in Seq(FolderNames) /\ DOMAIN <<>> = {}
  OBVIOUS
<1>2. Good(<<>>)
  BY <1>1 DEF Good, InOrder, IsInjective
<1> QED BY <1>1, <1>2 DEF Listing!Init, ListingInv

\* What a walk meets.
LEMMA WalksAre ==
  ASSUME NEW walk \in Listing!Walks
  PROVE  walk[1] \in Seq(FolderNames) /\ walk[2] \in Seq(FolderNames)
<1>1. Listing!Listings \subseteq Seq(FolderNames)
  BY DEF Listing!Listings
<1> QED BY <1>1 DEF Listing!Walks

LEMMA ListingGoesOn == ListingInv /\ [Listing!Next]_(Listing!vars) => ListingInv'
<1> SUFFICES ASSUME ListingInv, [Listing!Next]_(Listing!vars) PROVE ListingInv'
  OBVIOUS
<1> USE DEF ListingInv
<1>1. CASE Listing!MapListing
  <2>1. PICK walk \in Listing!Walks :
          /\ folds' = Listing!Sorted(Listing!Grown(folds, walk[1]))
          /\ files' = Listing!Sorted(Listing!Grown(files, walk[2]))
          /\ broken' = broken
    BY <1>1 DEF Listing!MapListing
  <2>2. /\ GrownOf(FolderNames, folds, Listing!Grown(folds, walk[1]))
        /\ GrownOf(FolderNames, files, Listing!Grown(files, walk[2]))
    BY WalksAre, GrownIs
  <2>3. /\ SortedOf(FolderNames, Listing!Grown(folds, walk[1]), folds')
        /\ SortedOf(FolderNames, Listing!Grown(files, walk[2]), files')
    BY <2>1, <2>2, NamesAreNumbers, SortedIs DEF GrownOf
  <2> QED BY <2>1, <2>2, <2>3 DEF GrownOf, SortedOf, Good
<1>2. CASE Listing!MapInterrupted
  <2>1. PICK walk \in Listing!Walks :
          /\ folds' = Listing!Grown(folds, walk[1]) /\ files' = Listing!Grown(files, walk[2])
          /\ broken' = TRUE
    BY <1>2 DEF Listing!MapInterrupted
  <2>2. GrownOf(FolderNames, folds, folds') /\ GrownOf(FolderNames, files, files')
    BY <2>1, WalksAre, GrownIs
  <2> QED BY <2>1, <2>2 DEF GrownOf
<1>3. ASSUME NEW n \in FolderNames, Listing!PassFold(n) PROVE ListingInv'
  <2>1. /\ Listing!FindFold(n) = 0 /\ folds' = Listing!Sorted(Append(folds, n))
        /\ files' = files /\ broken' = broken
    BY <1>3 DEF Listing!PassFold
  <2>2. ~broken => ~Listing!Contains(folds, n)
    BY <2>1, FoldIsFound DEF Looked, Good
  <2>3. Append(folds, n) \in Seq(FolderNames) /\ (~broken => IsInjective(Append(folds, n)))
    BY <2>2, AppendedOnce DEF Good
  <2>4. SortedOf(FolderNames, Append(folds, n), folds')
    BY <2>1, <2>3, NamesAreNumbers, SortedIs
  <2> QED BY <2>1, <2>3, <2>4 DEF SortedOf, Good
<1>4. ASSUME NEW n \in FolderNames, Listing!OpenOutput(n) PROVE ListingInv'
  <2> DEFINE grown == IF Listing!FindFile(n) = 0 THEN Append(files, n) ELSE files
  <2>1. files' = Listing!Sorted(grown) /\ folds' = folds /\ broken' = broken
    BY <1>4 DEF Listing!OpenOutput
  <2>2. grown \in Seq(FolderNames) /\ (~broken => IsInjective(grown))
    <3>1. CASE Listing!FindFile(n) = 0
      <4>1. ~broken => ~Listing!Contains(files, n)
        BY <3>1, FileIsFound DEF Looked, Good
      <4> QED BY <3>1, <4>1, AppendedOnce DEF Good
    <3>2. CASE Listing!FindFile(n) # 0
      BY <3>2 DEF Good
    <3> QED BY <3>1, <3>2
  <2> HIDE DEF grown
  <2>3. SortedOf(FolderNames, grown, files')
    BY <2>1, <2>2, NamesAreNumbers, SortedIs
  <2> QED BY <2>1, <2>2, <2>3 DEF SortedOf, Good
<1>5. CASE UNCHANGED Listing!vars
  BY <1>5 DEF Listing!vars, Good, InOrder, IsInjective
<1> QED BY <1>1, <1>2, <1>3, <1>4, <1>5 DEF Listing!Next

\* A lookup never ends at another folder or another file than the one asked
\* for, whatever the order of the children (CFileMap::_FindFile).
THEOREM ChildIsTheOneAskedFor == Listing!Spec => []SearchSound
<1>1. ListingInv => SearchSound
  BY FoldIsFound, FileIsFound DEF ListingInv, SearchSound, Listing!SearchSound, Looked
<1> QED BY <1>1, ListingBegins, ListingGoesOn, PTL DEF Listing!Spec

\* As long as every walk of a directory came to its end, each child is found by
\* its name and is there once (CFileMap::_RawMap, _FindFile).
THEOREM WalkedIsFound == Listing!Spec => []FoundWhenWalked
<1>1. ListingInv => FoundWhenWalked
  <2> SUFFICES ASSUME ListingInv, ~broken PROVE Listing!EveryChildFound /\ Listing!NoTwins
    BY DEF FoundWhenWalked, Listing!FoundWhenWalked
  <2>1. Listing!EveryChildFound
    BY FoldIsFound, FileIsFound DEF ListingInv, Listing!EveryChildFound, Looked, Good
  <2>2. Listing!NoTwins
    BY DEF ListingInv, Good, Listing!NoTwins, Listing!IsInjective, IsInjective
  <2> QED BY <2>1, <2>2
<1> QED BY <1>1, ListingBegins, ListingGoesOn, PTL DEF Listing!Spec

=============================================================================
