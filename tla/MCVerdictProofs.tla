-------------------------- MODULE MCVerdictProofs --------------------------
(***************************************************************************)
(* For any device, block size, number of slots and length of read: the      *)
(* cache of BlockReader holds the device's bytes, a read stops short only   *)
(* where the device did, and reads implement the reader of ByteStream,      *)
(* however the device answers.  Then what PipelineProofs and                *)
(* CandidateGraphProofs say of any artifacts and any observations, of those *)
(* MCVerdict has.  Last, for any certificates and any journal: a chain to a *)
(* root is found where there is one, and the rows of a journal are read     *)
(* once and in their order.  And for any table of weights that is ordered   *)
(* as the shipped one: the score is that of the strongest rows, whatever    *)
(* the order, names are judged by other files, and a worse signature is     *)
(* never worth less.                                                        *)
(***************************************************************************)
EXTENDS MCVerdict, FiniteSetTheorems, SequenceTheorems, TLAPS

Block == [start : Nat, data : Seq(Nat \cup {Junk}), valid : BOOLEAN]
Reading == [active : {TRUE}, want : Nat, copied : Seq(Nat)]

(* The cache, the position and the read in progress, as functions, numbers  *)
(* and records: what the arithmetic of the loop needs.                      *)
Shape ==
    /\ position \in 0..MaxOffset
    /\ cache \in [Slots -> Block]
    /\ call \in {NoCall} \cup Reading
    /\ call.active => /\ call.want \in 1..(Length - position)
                      /\ Len(call.copied) <= call.want
    /\ got.kind \in {"nothing", "read", "error"}

IInv == Shape /\ CacheIsTheDevice /\ CopiedIsTheDevice

-----------------------------------------------------------------------------
(* A run of bytes is a sequence of offsets of its own length.               *)
LEMMA BytesAreASequence ==
    ASSUME NEW start \in Nat, NEW count \in Nat
    PROVE  Bytes(start, count) \in Seq(Nat) /\ Len(Bytes(start, count)) = count
<1>1. \A i \in 1..count : start + i - 1 \in Nat
  OBVIOUS
<1>2. Bytes(start, count) \in [1..count -> Nat]
  BY <1>1 DEF Bytes
<1> QED
  BY <1>2

(* Two runs, the second where the first ends, are one.                      *)
LEMMA BytesJoin ==
    ASSUME NEW start \in Nat, NEW n \in Nat, NEW m \in Nat
    PROVE  Bytes(start, n) \o Bytes(start + n, m) = Bytes(start, n + m)
<1>1. /\ start + n \in Nat /\ n + m \in Nat
      /\ Bytes(start, n) \in Seq(Nat) /\ Len(Bytes(start, n)) = n
      /\ Bytes(start + n, m) \in Seq(Nat)
      /\ Len(Bytes(start + n, m)) = m
      /\ Bytes(start, n + m) \in Seq(Nat)
      /\ Len(Bytes(start, n + m)) = n + m
  <2>1. start + n \in Nat /\ n + m \in Nat
    OBVIOUS
  <2> QED
    BY Zenon, <2>1, BytesAreASequence
<1>2. \A i \in 1..(n + m) :
        Bytes(start, n + m)[i] =
          IF i <= n THEN Bytes(start, n)[i] ELSE Bytes(start + n, m)[i - n]
  BY DEF Bytes
<1>3. ASSUME NEW a \in Seq(Nat), NEW b \in Seq(Nat), NEW c \in Seq(Nat),
             Len(a) = n, Len(b) = m, Len(c) = n + m,
             \A i \in 1..(n + m) :
               c[i] = IF i <= n THEN a[i] ELSE b[i - n]
      PROVE  a \o b = c
  <2>1. /\ a \o b \in Seq(Nat) /\ Len(a \o b) = n + m
        /\ \A i \in 1..(n + m) :
             (a \o b)[i] = IF i <= n THEN a[i] ELSE b[i - n]
    BY Zenon, <1>3, ConcatProperties
  <2>2. \A i \in 1..(n + m) : (a \o b)[i] = c[i]
    BY Zenon, <1>3, <2>1
  <2> QED
    BY Zenon, <1>3, <2>1, <2>2, SeqEqual
<1> QED
  BY Zenon, <1>1, <1>2, <1>3

(* The block under a byte starts at or before it, in some slot.             *)
LEMMA BlockUnder ==
    ASSUME NEW p \in Nat
    PROVE  /\ BlockStart(p) \in Nat
           /\ BlockStart(p) <= p
           /\ SlotOf(BlockStart(p)) \in Slots
<1> USE GeometryAssumption
<1>1. p % BlockSize \in 0..p
  <2>1. p % BlockSize \in Nat /\ p % BlockSize < BlockSize
    OBVIOUS
  <2>2. p = BlockSize * (p \div BlockSize) + (p % BlockSize)
    OBVIOUS
  <2>3. p \div BlockSize \in Nat
    OBVIOUS
  <2>4. BlockSize * (p \div BlockSize) \in Nat
    BY <2>3
  <2> QED
    BY <2>1, <2>2, <2>4
<1>2. BlockStart(p) \in Nat /\ BlockStart(p) <= p
  BY <1>1 DEF BlockStart
<1>3. BlockStart(p) \div BlockSize \in Nat
  BY <1>2
<1>4. SlotOf(BlockStart(p)) \in 0..(BlockCount - 1)
  BY <1>3 DEF SlotOf
<1> QED
  BY <1>2, <1>4 DEF Slots

(* While there is something left to copy, the next byte is on the device,   *)
(* and so is the start of its block.                                        *)
LEMMA CopyingShape ==
    ASSUME IInv, Copying
    PROVE  /\ call \in Reading
           /\ Cursor \in Nat /\ Cursor < Length
           /\ Start \in Nat /\ Start <= Cursor
           /\ Slot \in Slots
           /\ WantOf(Start) \in Nat
<1> USE GeometryAssumption DEF IInv
<1>1. call \in Reading
  BY DEF Copying, Shape, NoCall
<1>2. Cursor \in Nat /\ Cursor < Length
  <2>1. /\ position \in Nat /\ Len(call.copied) \in Nat
        /\ call.want \in 1..(Length - position)
        /\ Len(call.copied) < call.want
    BY <1>1, LenProperties DEF Copying, Shape, Reading
  <2> QED
    BY <2>1 DEF Cursor
<1>3. Start \in Nat /\ Start <= Cursor /\ Slot \in Slots
  BY <1>2, BlockUnder DEF Start, Slot
<1>4. WantOf(Start) \in Nat
  BY <1>2, <1>3 DEF WantOf, Smaller
<1> QED
  BY <1>1, <1>2, <1>3, <1>4

(* An empty cache holds nothing but the device's bytes.                     *)
LEMMA InitIInv == Init => IInv
<1> SUFFICES ASSUME Init PROVE IInv
  OBVIOUS
<1>1. EmptyBlock \in Block
  BY DEF EmptyBlock, Block
<1>2. Shape
  BY <1>1, GeometryAssumption DEF Init, Shape, NoCall, Nothing
<1>3. CacheIsTheDevice /\ CopiedIsTheDevice
  BY DEF Init, CacheIsTheDevice, CopiedIsTheDevice, EmptyBlock, NoCall
<1> QED
  BY <1>2, <1>3 DEF IInv

(* A read begins inside the device, with nothing copied.                    *)
LEMMA BeginReadKeepsIInv == IInv /\ BeginRead => IInv'
<1> SUFFICES ASSUME IInv, BeginRead PROVE IInv'
  OBVIOUS
<1> USE GeometryAssumption DEF IInv
<1>1. CacheIsTheDevice'
  BY DEF BeginRead, CacheIsTheDevice
<1>2. PICK want \in 0..MaxWant :
        IF position >= Length \/ want = 0
        THEN got' = Answer(<< >>) /\ UNCHANGED call
        ELSE /\ call' = [active |-> TRUE, want |-> Clamped(want), copied |-> << >>]
             /\ UNCHANGED got
  BY DEF BeginRead
<1>3. CASE position >= Length \/ want = 0
  BY <1>1, <1>2, <1>3 DEF BeginRead, Shape, CopiedIsTheDevice, Answer
<1>4. CASE ~(position >= Length \/ want = 0)
  <2>1. Clamped(want) \in 1..(Length - position)
    BY <1>4 DEF Clamped, Smaller, Shape
  <2>2. call' \in Reading /\ Len(call'.copied) = 0 /\ call'.copied = << >>
    <3>1. << >> \in Seq(Nat) /\ Len(<< >>) = 0
      BY EmptySeq
    <3>2. Clamped(want) \in Nat
      BY <2>1 DEF Shape
    <3>3. call' = [active |-> TRUE, want |-> Clamped(want), copied |-> << >>]
      BY <1>2, <1>4
    <3>4. call' \in Reading /\ call'.copied = << >>
      BY <3>1, <3>2, <3>3 DEF Reading
    <3> QED
      BY <3>1, <3>4
  <2>3. Shape'
    BY <1>2, <1>4, <2>1, <2>2 DEF BeginRead, Shape
  <2>4. Bytes(position, 0) = << >>
    BY BytesAreASequence, EmptySeq DEF Shape
  <2>5. CopiedIsTheDevice'
    BY <2>2, <2>4 DEF BeginRead, CopiedIsTheDevice
  <2> QED
    BY <1>1, <2>3, <2>5
<1> QED
  BY <1>3, <1>4

(* A load puts the device's bytes, or an invalid block, into one slot.      *)
LEMMA LoadKeepsIInv == IInv /\ (LoadBlock \/ LoadFails \/ LoadEmpty) => IInv'
<1> SUFFICES ASSUME IInv, LoadBlock \/ LoadFails \/ LoadEmpty PROVE IInv'
  OBVIOUS
<1> USE GeometryAssumption DEF IInv
<1>1. /\ Start \in Nat /\ Slot \in Slots /\ WantOf(Start) \in Nat
  BY CopyingShape DEF LoadBlock, LoadFails, LoadEmpty
<1>2. PICK block \in Block :
        /\ cache' = [cache EXCEPT ![Slot] = block]
        /\ block.valid => block.data = Bytes(block.start, Len(block.data))
  <2>1. CASE LoadBlock
    <3>1. PICK count \in 1..WantOf(Start) :
            cache' = [cache EXCEPT ![Slot] =
                        [start |-> Start, data |-> Bytes(Start, count), valid |-> TRUE]]
      BY Zenon, <2>1 DEF LoadBlock
    <3>2. count \in Nat
      BY <1>1
    <3>3. Bytes(Start, count) \in Seq(Nat \cup {Junk}) /\ Len(Bytes(Start, count)) = count
      BY Zenon, <1>1, <3>2, BytesAreASequence, SeqMonotonic
    <3> DEFINE block == [start |-> Start, data |-> Bytes(Start, count), valid |-> TRUE]
    <3>4. block \in Block /\ block.data = Bytes(block.start, Len(block.data))
      BY <1>1, <3>3 DEF Block
    <3> QED
      BY Zenon, <3>1, <3>4
  <2>2. CASE LoadFails
    <3> DEFINE scribbled == [i \in 1..WantOf(Start) |-> Junk]
               block == [cache[Slot] EXCEPT !.data = scribbled, !.valid = FALSE]
    <3>1. scribbled \in Seq(Nat \cup {Junk})
      BY <1>1
    <3> HIDE DEF scribbled
    <3>2. cache[Slot] \in Block
      BY <1>1 DEF Shape
    <3>3. block \in Block /\ ~block.valid
      BY Zenon, <3>1, <3>2 DEF Block
    <3>4. cache' = [cache EXCEPT ![Slot] = block]
      BY Zenon, <1>1, <2>2 DEF LoadFails, Invalidate, Shape, scribbled
    <3> QED
      BY Zenon, <3>3, <3>4
  <2>3. CASE LoadEmpty
    <3>1. [start |-> Start, data |-> << >>, valid |-> FALSE] \in Block
      BY <1>1, EmptySeq DEF Block
    <3> QED
      BY Zenon, <2>3, <3>1 DEF LoadEmpty
  <2> QED
    BY <2>1, <2>2, <2>3
<1>3. cache' \in [Slots -> Block] /\ CacheIsTheDevice'
  BY <1>1, <1>2 DEF Shape, CacheIsTheDevice
<1>4. (UNCHANGED << position, call, got >>)
        \/ (position' = position /\ call' = NoCall /\ got' = Refused)
  BY DEF LoadBlock, LoadFails, LoadEmpty
<1>5. Shape' /\ CopiedIsTheDevice'
  BY <1>3, <1>4 DEF Shape, CopiedIsTheDevice, NoCall, Refused
<1> QED
  BY <1>3, <1>5

(* Copying out of a hit continues the run of bytes copied so far.           *)
LEMMA CopyOutKeepsIInv == IInv /\ CopyOut => IInv'
<1> SUFFICES ASSUME IInv, CopyOut PROVE IInv'
  OBVIOUS
<1> USE GeometryAssumption DEF IInv
<1> DEFINE n == Len(call.copied)
           total == Len(cache[Slot].data)
           count == Smaller(Available, call.want - n)
           piece == SubSeq(cache[Slot].data, Offset + 1, Offset + count)
<1>1. /\ Copying /\ Hit(Start) /\ Available > 0
      /\ call' = [call EXCEPT !.copied = @ \o piece]
      /\ UNCHANGED << position, cache, got >>
  BY DEF CopyOut
<1>2. /\ call \in Reading
      /\ Start \in Nat /\ Cursor \in Nat /\ Start <= Cursor /\ Slot \in Slots
  BY <1>1, CopyingShape
<1>3. /\ cache[Slot] \in Block /\ cache[Slot].start = Start
      /\ cache[Slot].data = Bytes(Start, total)
      /\ total \in Nat
  <2>1. cache[Slot] \in Block
    BY <1>2 DEF Shape
  <2>2. cache[Slot].valid /\ cache[Slot].start = Start
    BY <1>1 DEF Hit, Slot
  <2>3. total \in Nat
    BY <2>1, LenProperties DEF Block
  <2> QED
    BY <1>2, <2>1, <2>2, <2>3 DEF CacheIsTheDevice
<1>4. /\ position \in Nat /\ n \in Nat /\ call.want \in 1..(Length - position)
      /\ n < call.want /\ call.active /\ call.copied \in Seq(Nat)
  BY <1>1, <1>2, LenProperties DEF Copying, Shape, Reading
<1>5. /\ Offset \in Nat /\ count \in Nat
      /\ Offset + count <= total /\ n + count <= call.want
      /\ Start + Offset = Cursor /\ Cursor = position + n
  <2>1. Offset = Cursor - Start /\ Available = total - Offset /\ Cursor = position + n
    BY DEF Offset, Available, Cursor
  <2>2. Available > 0
    BY <1>1
  <2> HIDE DEF n, total, IInv
  <2>3. /\ Offset \in Nat /\ Available \in Nat /\ call.want - n \in Nat
        /\ Start + Offset = Cursor
    BY <1>2, <1>3, <1>4, <2>1, <2>2
  <2>4. count \in Nat /\ count <= Available /\ count <= call.want - n
    BY <2>3 DEF Smaller
  <2> HIDE DEF count
  <2> QED
    BY SMTT(30), <1>3, <1>4, <2>1, <2>3, <2>4
<1>6. piece = Bytes(Cursor, count)
  <2> HIDE DEF total, count, IInv
  <2>1. SubSeq(Bytes(Start, total), Offset + 1, Offset + count)
          = Bytes(Start + Offset, count)
    <3>1. /\ Start \in Nat /\ total \in Nat /\ Offset \in Nat /\ count \in Nat
          /\ Offset + count <= total
      BY <1>2, <1>3, <1>5
    <3>2. PICK f, t, k, c \in Nat :
            f = Start /\ t = total /\ k = Offset /\ c = count
      BY <3>1
    <3>3. k + c <= t
      BY <3>1, <3>2
    <3> HIDE <3>2
    <3>4. SubSeq(Bytes(f, t), k + 1, k + c) = Bytes(f + k, c)
      <4>1. /\ Bytes(f, t) \in Seq(Nat) /\ Len(Bytes(f, t)) = t
        BY BytesAreASequence
      <4>2. SubSeq(Bytes(f, t), k + 1, k + c) = [i \in 1..c |-> Bytes(f, t)[k + i]]
        BY <3>3, <4>1
      <4>3. \A i \in 1..c : Bytes(f, t)[k + i] = f + k + i - 1
        BY <3>3 DEF Bytes
      <4> QED
        BY Zenon, <4>2, <4>3 DEF Bytes
    <3> QED
      BY <3>2, <3>4
  <2> QED
    BY <1>3, <1>5, <2>1
<1>7. call.copied = Bytes(position, n)
  BY <1>4 DEF CopiedIsTheDevice
<1>8. call.copied \o piece = Bytes(position, n + count)
  <2> HIDE DEF n, count, piece, IInv
  <2>1. Bytes(position, n) \o Bytes(position + n, count) = Bytes(position, n + count)
    <3>1. position \in Nat /\ n \in Nat /\ count \in Nat
      BY <1>4, <1>5
    <3> QED
      BY <3>1, BytesJoin, ZenonT(20)
  <2> QED
    BY <1>5, <1>6, <1>7, <2>1
<1>9. /\ call.copied \o piece \in Seq(Nat)
      /\ Len(call.copied \o piece) = n + count
  <2> HIDE DEF n, count, piece, IInv
  <2>1. n + count \in Nat
    BY <1>4, <1>5
  <2> QED
    BY <1>4, <1>8, <2>1, BytesAreASequence
<1> HIDE DEF n, total, count, piece
<1>10. /\ call' \in Reading /\ call'.want = call.want /\ call'.active
       /\ call'.copied = Bytes(position, n + count)
       /\ Len(call'.copied) = n + count
  BY Zenon, <1>1, <1>2, <1>8, <1>9 DEF Reading
<1>11. Shape'
  BY <1>1, <1>4, <1>5, <1>10 DEF Shape
<1>12. CacheIsTheDevice' /\ CopiedIsTheDevice'
  BY Zenon, <1>1, <1>10 DEF CacheIsTheDevice, CopiedIsTheDevice
<1> QED
  BY <1>11, <1>12

(* A read ends inside the device.                                           *)
LEMMA FinishReadKeepsIInv ==
    ASSUME IInv, FinishRead
    PROVE  /\ IInv'
           /\ Len(call.copied) \in 0..(MaxOffset - position)
           /\ got' = Answer(Bytes(position, Len(call.copied)))
           /\ position' = position + Len(call.copied)
<1> USE GeometryAssumption DEF IInv
<1>1. /\ call.active /\ call \in Reading
      /\ position' = position + Len(call.copied)
      /\ got' = Answer(call.copied) /\ call' = NoCall /\ cache' = cache
  BY DEF FinishRead, Advance, Shape, NoCall
<1>2. Len(call.copied) \in Nat /\ Len(call.copied) <= Length - position
  BY <1>1, LenProperties DEF Shape, Reading
<1>3. Shape' /\ CacheIsTheDevice' /\ CopiedIsTheDevice'
  <2>1. position' \in 0..MaxOffset
    BY <1>1, <1>2 DEF Shape
  <2> QED
    BY <1>1, <2>1 DEF Shape, CacheIsTheDevice, CopiedIsTheDevice, NoCall, Answer
<1>4. call.copied = Bytes(position, Len(call.copied))
  BY <1>1 DEF CopiedIsTheDevice
<1>5. Len(call.copied) \in 0..(MaxOffset - position)
  BY <1>2 DEF Shape
<1> QED
  BY <1>1, <1>3, <1>4, <1>5

(* Every step keeps the strengthening.                                      *)
LEMMA NextKeepsIInv == IInv /\ [Next]_vars => IInv'
<1> SUFFICES ASSUME IInv, [Next]_vars PROVE IInv'
  OBVIOUS
<1>1. CASE SeekTo \/ SeekRefused
  BY <1>1 DEF SeekTo, SeekRefused, IInv, Shape, CacheIsTheDevice, CopiedIsTheDevice,
              Nothing, Refused
<1>2. CASE UNCHANGED vars
  BY <1>2 DEF vars, IInv, Shape, CacheIsTheDevice, CopiedIsTheDevice
<1> QED
  BY <1>1, <1>2, BeginReadKeepsIInv, LoadKeepsIInv, CopyOutKeepsIInv, FinishReadKeepsIInv
  DEF Next

(* The strengthening is an invariant of every behaviour.                    *)
LEMMA IInvHolds == Spec => []IInv
  BY InitIInv, NextKeepsIInv, PTL DEF Spec

(* A valid slot holds the device's bytes from its start, however the loads  *)
(* of this and of other blocks ended.                                       *)
THEOREM CacheCorrect == Spec => []CacheIsTheDevice
  BY IInvHolds, PTL DEF IInv

(* Position, cache and read keep their types, and a read never wants bytes  *)
(* past the end of the device.                                              *)
THEOREM TypeCorrect == Spec => []TypeOK
<1>1. ASSUME IInv PROVE TypeOK
  <2>1. \A s \in Slots : cache[s].valid \in BOOLEAN /\ cache[s].start \in Nat
                          /\ cache[s].data \in Seq(Nat \cup {Junk})
    BY <1>1 DEF IInv, Shape, Block
  <2>2. call = NoCall \/ (call.active /\ call.want \in 1..(Length - position))
    BY Zenon, <1>1 DEF IInv, Shape, Reading
  <2> QED
    BY <1>1, <2>1, <2>2 DEF IInv, Shape, TypeOK
<1> QED
  BY <1>1, IInvHolds, PTL

(* The byte under the cursor lies inside the part of its block that is on   *)
(* the device: the loop never stands behind a block the device filled.      *)
LEMMA CursorInsideBlock ==
    ASSUME IInv, Copying
    PROVE  Offset \in Nat /\ Offset < WantOf(Start)
<1> USE GeometryAssumption
<1>1. /\ Cursor \in Nat /\ Cursor < Length
      /\ Start \in Nat /\ Start <= Cursor
  BY CopyingShape
<1>2. Cursor - Start = Cursor % BlockSize
  BY <1>1 DEF Start, BlockStart
<1>3. Offset \in Nat /\ Offset < BlockSize /\ Offset < Length - Start
  BY <1>1, <1>2 DEF Offset
<1> QED
  BY <1>1, <1>3 DEF WantOf, Smaller

(* Only the end of a read answers it, and it ends early at a block the      *)
(* device gave less of than it has.                                         *)
LEMMA EndsWhereTheDeviceWas ==
    ASSUME IInv, Next, call.active, ~call'.active, got'.kind = "read"
    PROVE  \/ Len(got'.bytes) = call.want
           \/ Hit(Start) /\ Len(cache[Slot].data) < WantOf(Start)
<1>1. FinishRead
  <2>1. ~(LoadFails \/ LoadEmpty)
    BY DEF LoadFails, LoadEmpty, Refused
  <2>2. ~(BeginRead \/ SeekTo \/ SeekRefused)
    BY DEF BeginRead, SeekTo, SeekRefused
  <2>3. ~(LoadBlock \/ CopyOut)
    <3>1. CASE LoadBlock
      BY <3>1 DEF LoadBlock
    <3>2. CASE CopyOut
      <4>1. call \in Reading
        BY <3>2, CopyingShape DEF CopyOut
      <4>2. call'.active = call.active
        BY <3>2, <4>1 DEF CopyOut, Reading
      <4> QED
        BY <4>2
    <3> QED
      BY <3>1, <3>2
  <2> QED
    BY <2>1, <2>2, <2>3 DEF Next
<1>2. got'.bytes = call.copied
  BY <1>1 DEF FinishRead, Answer
<1>3. CASE Len(call.copied) = call.want
  BY <1>2, <1>3
<1>4. CASE Copying /\ Hit(Start) /\ Available <= 0
  <2>1. Offset \in Nat /\ Offset < WantOf(Start) /\ WantOf(Start) \in Nat
    BY <1>4, CursorInsideBlock, CopyingShape
  <2>2. Len(cache[Slot].data) \in Nat
    <3>1. cache[Slot].data \in Seq(Nat \cup {Junk})
      BY <1>4, CopyingShape DEF IInv, Shape, Block
    <3> QED
      BY <3>1, LenProperties
  <2>3. Len(cache[Slot].data) < WantOf(Start)
    BY <1>4, <2>1, <2>2 DEF Available
  <2> QED
    BY <1>4, <2>3
<1> QED
  BY <1>1, <1>3, <1>4 DEF FinishRead

(* A read stops short of what it was asked for only at a block the device   *)
(* itself answered short: never at a block boundary, a conflict of slots,   *)
(* an eviction, or because of an earlier failure.                           *)
THEOREM ShortReadsCorrect == Spec => ShortOnlyWhereTheDeviceWas
<1>1. IInv /\ [Next]_vars =>
        [ call.active /\ ~call'.active /\ got'.kind = "read" =>
            \/ Len(got'.bytes) = call.want
            \/ Hit(Start) /\ Len(cache[Slot].data) < WantOf(Start) ]_vars
  BY EndsWhereTheDeviceWas
<1> QED
  BY <1>1, IInvHolds, PTL DEF Spec, ShortOnlyWhereTheDeviceWas

-----------------------------------------------------------------------------
(* The loop of a read is one answer of ByteStream, or one failure.          *)
LEMMA StepIsAStreamStep == IInv /\ [Next]_vars => [Stream!Next]_(Stream!vars)
<1> SUFFICES ASSUME IInv, [Next]_vars, ~(UNCHANGED Stream!vars)
             PROVE  Stream!Read("device") \/ Stream!Fail("device") \/ Stream!Seek("device")
  BY DEF Stream!Next
<1> USE DEF IInv
<1>1. CASE BeginRead
  <2>1. got' = Answer(<< >>) /\ position' = position
    BY <1>1 DEF BeginRead, Stream!vars
  <2>2. Stream!Bytes(position, 0) = << >>
    BY BytesAreASequence, EmptySeq DEF Bytes, Stream!Bytes, Shape
  <2>3. 0 \in 0..(MaxOffset - position) /\ position + 0 = position
    BY GeometryAssumption DEF Shape
  <2>4. Stream!Read("device")
    BY <2>1, <2>2, <2>3 DEF Stream!Read, Answer, Stream!Answer
  <2> QED
    BY <2>4
<1>2. CASE LoadFails \/ LoadEmpty \/ SeekRefused
  BY <1>2 DEF LoadFails, LoadEmpty, SeekRefused, Stream!Fail, Refused, Stream!Refused
<1>3. CASE FinishRead
  <2>1. /\ Len(call.copied) \in 0..(MaxOffset - position)
        /\ got' = Answer(Bytes(position, Len(call.copied)))
        /\ position' = position + Len(call.copied)
    BY <1>3, FinishReadKeepsIInv
  <2> QED
    BY Zenon, <2>1 DEF Stream!Read, Answer, Stream!Answer, Bytes, Stream!Bytes
<1>4. CASE SeekTo
  BY <1>4 DEF SeekTo, Stream!Seek, Nothing, Stream!Nothing
<1>5. CASE LoadBlock \/ CopyOut \/ UNCHANGED vars
  BY <1>5 DEF LoadBlock, CopyOut, vars, Stream!vars
<1> QED
  BY <1>1, <1>2, <1>3, <1>4, <1>5 DEF Next

(* The cached reader implements the reader it promises: every answer is the *)
(* run of bytes at the position, and a failure moves nothing.               *)
THEOREM ServesCorrect == Spec => ServesTheDevice
<1>1. Init => Stream!Init
  BY DEF Init, Stream!Init, Nothing, Stream!Nothing
<1> QED
  BY <1>1, IInvHolds, StepIsAStreamStep, PTL DEF Spec, ServesTheDevice, Stream!Spec

-----------------------------------------------------------------------------
(* The stages of a run.  Their definitions are those of any run, word for   *)
(* word: what is done with the claims does not depend on them.              *)
AnyPipe == INSTANCE PipelineProofs WITH Contents <- MCContents, Claims <- MCClaims

(* Selections.                                                              *)
LEMMA SameThose ==
    \A s, set : Pipe!Those(s, set) = AnyPipe!Those(s, set)
  BY DEF Pipe!Those, AnyPipe!Those

(* The order of the stages.                                                 *)
LEMMA SameSettle ==
    Pipe!Settle <=> AnyPipe!Settle
  BY DEF Pipe!Settle, Pipe!Following, Pipe!Stages, AnyPipe!Settle, AnyPipe!Following,
      AnyPipe!Stages

(* A set in some order.                                                     *)
LEMMA SameOrder ==
    \A S : Pipe!SetToSeq(S) = AnyPipe!SetToSeq(S)
  BY DEF Pipe!SetToSeq, Pipe!IsInjective, Pipe!Cardinality, AnyPipe!SetToSeq,
      AnyPipe!IsInjective, AnyPipe!Cardinality

(* What every stage of the harvest does.                                    *)
LEMMA SameParse ==
    Pipe!Parse <=> AnyPipe!Parse
  BY Zenon, SameSettle
  DEF Pipe!Parse, Pipe!Found, Pipe!Stamped, Pipe!volume, Pipe!judged, AnyPipe!Parse,
      AnyPipe!Found, AnyPipe!Stamped, AnyPipe!volume, AnyPipe!judged

(* Where a run begins.                                                      *)
LEMMA SameInit ==
    Pipe!Init <=> AnyPipe!Init
  BY DEF Pipe!Init, AnyPipe!Init

(* The harvest.                                                             *)
LEMMA SameHarvest ==
    Pipe!Harvest <=> AnyPipe!Harvest
  BY Zenon, SameParse
  DEF Pipe!Harvest, Pipe!SoftwareHive, Pipe!SystemHive, Pipe!UserHives,
      Pipe!StartupFolders, Pipe!Amcache, Pipe!Prefetch, Pipe!Pca, Pipe!Tasks,
      Pipe!Quarantine, Pipe!RecycleBin, Pipe!DefenderLog, Pipe!At, AnyPipe!Harvest,
      AnyPipe!SoftwareHive, AnyPipe!SystemHive, AnyPipe!UserHives,
      AnyPipe!StartupFolders, AnyPipe!Amcache, AnyPipe!Prefetch, AnyPipe!Pca,
      AnyPipe!Tasks, AnyPipe!Quarantine, AnyPipe!RecycleBin, AnyPipe!DefenderLog,
      AnyPipe!At

(* Observations of other volumes.                                           *)
LEMMA SameWithhold ==
    Pipe!WithholdOtherVolumes <=> AnyPipe!WithholdOtherVolumes
  BY Zenon, SameSettle, SameThose
  DEF Pipe!WithholdOtherVolumes, Pipe!Select, Pipe!At, Pipe!ToSet, Pipe!OnAnotherVolume,
      Pipe!Ids, Pipe!volume, Pipe!judged, AnyPipe!WithholdOtherVolumes, AnyPipe!Select,
      AnyPipe!At, AnyPipe!ToSet, AnyPipe!OnAnotherVolume, AnyPipe!Ids, AnyPipe!volume,
      AnyPipe!judged

(* Class registrations.                                                     *)
LEMMA SameCom ==
    Pipe!ComRegistrations <=> AnyPipe!ComRegistrations
  BY Zenon, SameSettle, SameThose
  DEF Pipe!ComRegistrations, Pipe!Select, Pipe!At, Pipe!ToSet, Pipe!RelabelSuperseded,
      Pipe!PromoteComHijacks, Pipe!MachineTargets, Pipe!MachineWide,
      Pipe!IsDeferrableCom, Pipe!Canonical, Pipe!Key, Pipe!volume, Pipe!judged,
      Pipe!past, AnyPipe!ComRegistrations, AnyPipe!Select, AnyPipe!At, AnyPipe!ToSet,
      AnyPipe!RelabelSuperseded, AnyPipe!PromoteComHijacks, AnyPipe!MachineTargets,
      AnyPipe!MachineWide, AnyPipe!IsDeferrableCom, AnyPipe!Canonical, AnyPipe!Key,
      AnyPipe!volume, AnyPipe!judged, AnyPipe!past

(* Detections and freed values.                                             *)
LEMMA SameDeferral ==
    Pipe!DeferTheRest <=> AnyPipe!DeferTheRest
  BY Zenon, SameSettle, SameThose
  DEF Pipe!DeferTheRest, Pipe!Select, Pipe!At, Pipe!ToSet, Pipe!Referenced, Pipe!Keys,
      Pipe!IsDetection, Pipe!IsDeletedValue, Pipe!IsKept, Pipe!volume, Pipe!judged,
      Pipe!past, AnyPipe!DeferTheRest, AnyPipe!Select, AnyPipe!At, AnyPipe!ToSet,
      AnyPipe!Referenced, AnyPipe!Keys, AnyPipe!IsDetection, AnyPipe!IsDeletedValue,
      AnyPipe!IsKept, AnyPipe!volume, AnyPipe!judged, AnyPipe!past

(* What a record of the volume tells.                                       *)
LEMMA SameFacts ==
    \A kind, ks : Pipe!Facts(kind, ks) = AnyPipe!Facts(kind, ks)
  BY Zenon, SameOrder
  DEF Pipe!Facts, Pipe!About, AnyPipe!Facts, AnyPipe!About

(* Paths that are known to be gone.                                         *)
LEMMA SameDeletions ==
    \A ks : Pipe!Deletions(ks) = AnyPipe!Deletions(ks)
  BY Zenon
  DEF Pipe!Deletions, Pipe!Cardinality, AnyPipe!Deletions, AnyPipe!Cardinality

(* The walk.                                                                *)
LEMMA SameWalk ==
    Pipe!WalkFilesystem <=> AnyPipe!WalkFilesystem
  BY Zenon, SameSettle, SameFacts, SameDeletions
  DEF Pipe!WalkFilesystem, Pipe!At, Pipe!WorthObserving, Pipe!Key, Pipe!judged,
      Pipe!past, AnyPipe!WalkFilesystem, AnyPipe!At, AnyPipe!WorthObserving,
      AnyPipe!Key, AnyPipe!judged, AnyPipe!past

(* What comes back from being set aside.                                    *)
LEMMA SameRejoin ==
    \A obs, aside : Pipe!Rejoin(obs, aside) = AnyPipe!Rejoin(obs, aside)
  BY SameThose
  DEF Pipe!Rejoin, Pipe!Select, Pipe!ToSet, Pipe!Keys, AnyPipe!Rejoin, AnyPipe!Select,
      AnyPipe!ToSet, AnyPipe!Keys

(* All that comes back.                                                     *)
LEMMA SameReattach ==
    Pipe!Reattach <=> AnyPipe!Reattach
  BY Zenon, SameSettle, SameRejoin
  DEF Pipe!Reattach, Pipe!At, Pipe!ToSet, Pipe!Ids, Pipe!volume, Pipe!judged,
      AnyPipe!Reattach, AnyPipe!At, AnyPipe!ToSet, AnyPipe!Ids, AnyPipe!volume,
      AnyPipe!judged

(* The facts of a file behind a junction.                                   *)
LEMMA SameWithFacts ==
    \A obs, crossed : Pipe!WithFacts(obs, crossed) = AnyPipe!WithFacts(obs, crossed)
  BY Zenon, SameFacts, SameThose
  DEF Pipe!WithFacts, Pipe!Select, Pipe!ToSet, Pipe!Keys, AnyPipe!WithFacts,
      AnyPipe!Select, AnyPipe!ToSet, AnyPipe!Keys

(* Paths through junctions.                                                 *)
LEMMA SameJunctions ==
    Pipe!CanonicalizeThroughJunctions <=> AnyPipe!CanonicalizeThroughJunctions
  BY Zenon, SameSettle, SameThose, SameWithFacts
  DEF Pipe!CanonicalizeThroughJunctions, Pipe!Select, Pipe!At, Pipe!ToSet,
      Pipe!Translates, Pipe!Canonical, Pipe!Key, Pipe!Keys, Pipe!volume, Pipe!judged,
      Pipe!past, AnyPipe!CanonicalizeThroughJunctions, AnyPipe!Select, AnyPipe!At,
      AnyPipe!ToSet, AnyPipe!Translates, AnyPipe!Canonical, AnyPipe!Key, AnyPipe!Keys,
      AnyPipe!volume, AnyPipe!judged, AnyPipe!past

(* The change journal.                                                      *)
LEMMA SameJournal ==
    Pipe!HarvestUsnJournal <=> AnyPipe!HarvestUsnJournal
  BY Zenon, SameSettle, SameOrder, SameThose, SameDeletions
  DEF Pipe!HarvestUsnJournal, Pipe!KnownPresent, Pipe!Select, Pipe!ToSet, Pipe!At,
      Pipe!Keys, Pipe!About, Pipe!volume, Pipe!judged, Pipe!past,
      AnyPipe!HarvestUsnJournal, AnyPipe!KnownPresent, AnyPipe!Select, AnyPipe!ToSet,
      AnyPipe!At, AnyPipe!Keys, AnyPipe!About, AnyPipe!volume, AnyPipe!judged,
      AnyPipe!past

(* The digest a candidate was recorded with.                                *)
LEMMA SameRecorded ==
    \A obs : Pipe!RecordedHash(obs) = AnyPipe!RecordedHash(obs)
  BY SameThose
  DEF Pipe!RecordedHash, Pipe!Select, Pipe!ToSet, AnyPipe!RecordedHash, AnyPipe!Select,
      AnyPipe!ToSet

(* Links by digest.                                                         *)
LEMMA SameLinks ==
    \A cs, h, d : Pipe!LinkSharedDigests(cs, h, d) = AnyPipe!LinkSharedDigests(cs, h, d)
  BY SameThose
  DEF Pipe!LinkSharedDigests, Pipe!WithoutLinks, Pipe!Select, Pipe!ToSet, Pipe!IsShared,
      Pipe!About, AnyPipe!LinkSharedDigests, AnyPipe!WithoutLinks, AnyPipe!Select,
      AnyPipe!ToSet, AnyPipe!IsShared, AnyPipe!About

(* The candidates.                                                          *)
LEMMA SameBuild ==
    Pipe!BuildAndScore <=> AnyPipe!BuildAndScore
  BY Zenon, SameSettle, SameThose, SameRecorded, SameLinks
  DEF Pipe!BuildAndScore, Pipe!Select, Pipe!At, Pipe!ToSet, Pipe!Keys, Pipe!ExtractAll,
      Pipe!Extract, Pipe!volume, Pipe!past, AnyPipe!BuildAndScore, AnyPipe!Select,
      AnyPipe!At,
      AnyPipe!ToSet, AnyPipe!Keys, AnyPipe!ExtractAll, AnyPipe!Extract, AnyPipe!volume,
      AnyPipe!past

(* Signatures.                                                              *)
LEMMA SameVerify ==
    Pipe!VerifySignatures <=> AnyPipe!VerifySignatures
  BY Zenon, SameSettle
  DEF Pipe!VerifySignatures, Pipe!At, Pipe!ToSet, Pipe!About, Pipe!Extract, Pipe!volume,
      Pipe!gathered, Pipe!past, AnyPipe!VerifySignatures, AnyPipe!At, AnyPipe!ToSet,
      AnyPipe!About, AnyPipe!Extract, AnyPipe!volume, AnyPipe!gathered, AnyPipe!past

(* The incident window.                                                     *)
LEMMA SameWindow ==
    Pipe!ApplyIncidentWindow <=> AnyPipe!ApplyIncidentWindow
  BY SameSettle
  DEF Pipe!ApplyIncidentWindow, Pipe!At, Pipe!ToSet, Pipe!ExtractAll, Pipe!Extract,
      Pipe!volume, Pipe!gathered, Pipe!past, AnyPipe!ApplyIncidentWindow, AnyPipe!At,
      AnyPipe!ToSet, AnyPipe!ExtractAll, AnyPipe!Extract, AnyPipe!volume,
      AnyPipe!gathered,
      AnyPipe!past

(* The samples.                                                             *)
LEMMA SameSamples ==
    Pipe!AcquireSamples <=> AnyPipe!AcquireSamples
  BY Zenon, SameSettle
  DEF Pipe!AcquireSamples, Pipe!At, Pipe!Disputes, Pipe!IsShared, Pipe!Cardinality,
      Pipe!volume, Pipe!gathered, Pipe!past, AnyPipe!AcquireSamples, AnyPipe!At,
      AnyPipe!Disputes, AnyPipe!IsShared, AnyPipe!Cardinality, AnyPipe!volume,
      AnyPipe!gathered, AnyPipe!past

(* The links of a candidate.                                                *)
LEMMA SameShared ==
    \A cs, k : Pipe!Shared(cs, k) = AnyPipe!Shared(cs, k)
  BY SameThose
  DEF Pipe!Shared, Pipe!Select, Pipe!ToSet, Pipe!IsShared, AnyPipe!Shared, AnyPipe!Select,
      AnyPipe!ToSet, AnyPipe!IsShared

(* Links made anew.                                                         *)
LEMMA SameRelink ==
    Pipe!RelinkSharedDigests <=> AnyPipe!RelinkSharedDigests
  BY SameSettle, SameShared, SameLinks
  DEF Pipe!RelinkSharedDigests, Pipe!At, Pipe!ToSet, Pipe!Changed, Pipe!Extract,
  Pipe!volume,
      Pipe!gathered, Pipe!past, AnyPipe!RelinkSharedDigests, AnyPipe!At, AnyPipe!ToSet,
      AnyPipe!Changed, AnyPipe!Extract, AnyPipe!volume, AnyPipe!gathered, AnyPipe!past

(* A step of the run.                                                       *)
LEMMA SameNext ==
    Pipe!Next <=> AnyPipe!Next
  BY SameHarvest, SameWithhold, SameCom, SameDeferral, SameWalk, SameReattach,
     SameJunctions, SameJournal, SameBuild, SameVerify, SameWindow, SameSamples, SameRelink
  DEF Pipe!Next, Pipe!Gather, Pipe!Judge, AnyPipe!Next, AnyPipe!Gather, AnyPipe!Judge

-----------------------------------------------------------------------------
(* The bounds of the instance are numbers.                                  *)
LEMMA BoundsAre == AnyPipe!BoundAssumption
  BY PipeAssumption DEF Pipe!BoundAssumption, AnyPipe!BoundAssumption

(* No claim of the instance is a link, and each is of a path.               *)
LEMMA ClaimsAre == AnyPipe!ClaimsAssumption
<1> DEFINE Fits(c) == /\ c.kind # "shared" /\ c.key \in AnyPipe!Key
                      /\ c.elsewhere \in BOOLEAN /\ c.digest \in MCContents \cup {NoDigest}
<1>a. ASSUME NEW kind, kind # "shared", NEW keys \in SUBSET AnyPipe!Key,
             NEW digests \in SUBSET (MCContents \cup {NoDigest}),
             NEW elsewhere \in SUBSET BOOLEAN
      PROVE  \A c \in Says({kind}, keys, digests, elsewhere) : Fits(c)
  BY <1>a DEF Says
<1>b. /\ {"user", "program"} \in SUBSET AnyPipe!Key /\ {"program"} \in SUBSET AnyPipe!Key
      /\ {"program", "alias"} \in SUBSET AnyPipe!Key /\ {"alias"} \in SUBSET AnyPipe!Key
      /\ {"user"} \in SUBSET AnyPipe!Key /\ {"user", "alias"} \in SUBSET AnyPipe!Key
      /\ {NoDigest} \in SUBSET (MCContents \cup {NoDigest})
      /\ MCContents \in SUBSET (MCContents \cup {NoDigest})
      /\ {TRUE} \in SUBSET BOOLEAN /\ {FALSE} \in SUBSET BOOLEAN
  BY DEF AnyPipe!Key
<1> HIDE DEF Fits
<1>1. ASSUME NEW s \in AnyPipe!ArtifactStages PROVE \A c \in MCClaims[s] : Fits(c)
  <2>1. CASE s = "SOFTWARE"
    <3>1. MCClaims[s] = Says({"com"}, {"user", "program"}, {NoDigest}, {FALSE})
                          \cup Says({"deletedCom"}, {"program"}, {NoDigest}, {FALSE})
      BY <2>1 DEF MCClaims, AnyPipe!ArtifactStages
    <3>2. \A c \in Says({"com"}, {"user", "program"}, {NoDigest}, {FALSE}) : Fits(c)
      BY <1>a, <1>b
    <3>3. \A c \in Says({"deletedCom"}, {"program"}, {NoDigest}, {FALSE}) : Fits(c)
      BY <1>a, <1>b
    <3> QED
      BY Zenon, <3>1, <3>2, <3>3
  <2>2. CASE s = "users"
    <3>1. MCClaims[s] = Says({"com"}, {"program", "alias"}, {NoDigest}, {FALSE})
                          \cup Says({"value"}, {"program"}, {NoDigest}, {FALSE})
      BY <2>2 DEF MCClaims, AnyPipe!ArtifactStages
    <3>2. \A c \in Says({"com"}, {"program", "alias"}, {NoDigest}, {FALSE}) : Fits(c)
      BY <1>a, <1>b
    <3>3. \A c \in Says({"value"}, {"program"}, {NoDigest}, {FALSE}) : Fits(c)
      BY <1>a, <1>b
    <3> QED
      BY Zenon, <3>1, <3>2, <3>3
  <2>3. CASE s = "Amcache"
    <3>1. MCClaims[s] = Says({"executed"}, {"user", "program"}, MCContents, {FALSE})
                          \cup Says({"executed"}, {"alias"}, {NoDigest}, {FALSE})
      BY <2>3 DEF MCClaims, AnyPipe!ArtifactStages
    <3>2. \A c \in Says({"executed"}, {"user", "program"}, MCContents, {FALSE}) : Fits(c)
      BY <1>a, <1>b
    <3>3. \A c \in Says({"executed"}, {"alias"}, {NoDigest}, {FALSE}) : Fits(c)
      BY <1>a, <1>b
    <3> QED
      BY Zenon, <3>1, <3>2, <3>3
  <2>4. CASE s = "quarantine"
    <3>1. MCClaims[s] = Says({"quarantined"}, {"user"}, {NoDigest}, {TRUE})
      BY <2>4 DEF MCClaims, AnyPipe!ArtifactStages
    <3>2. \A c \in Says({"quarantined"}, {"user"}, {NoDigest}, {TRUE}) : Fits(c)
      BY <1>a, <1>b
    <3> QED
      BY Zenon, <3>1, <3>2
  <2>5. CASE s = "Defender"
    <3>1. MCClaims[s] = Says({"detected"}, {"user", "alias"}, {NoDigest}, {FALSE})
      BY <2>5 DEF MCClaims, AnyPipe!ArtifactStages
    <3>2. \A c \in Says({"detected"}, {"user", "alias"}, {NoDigest}, {FALSE}) : Fits(c)
      BY <1>a, <1>b
    <3> QED
      BY Zenon, <3>1, <3>2
  <2>6. CASE s \notin {"SOFTWARE", "users", "Amcache", "quarantine", "Defender"}
    <3>1. MCClaims[s] = {}
      BY <2>6 DEF MCClaims, AnyPipe!ArtifactStages
    <3> QED
      BY <3>1
  <2> QED
    BY <2>1, <2>2, <2>3, <2>4, <2>5, <2>6
<1> QED
  BY <1>1 DEF AnyPipe!ClaimsAssumption, Fits

(* So the stages of the instance are a run.                                 *)
LEMMA StagesAreAny == MCSpec => AnyPipe!Spec
<1>1. MCInit => AnyPipe!Init
  BY SameInit DEF MCInit
<1>2. [MCNext]_<< part, vars, grouping, stages, signer, score, journal >>
        => [AnyPipe!Next]_(AnyPipe!vars)
  <2> SUFFICES ASSUME [MCNext]_<< part, vars, grouping, stages, signer, score, journal >>
               PROVE  [AnyPipe!Next]_(AnyPipe!vars)
    OBVIOUS
  <2>1. Pipe!Next \/ UNCHANGED stages
    BY DEF MCNext
  <2> QED
    BY <2>1, SameNext DEF stages, AnyPipe!vars, AnyPipe!volume, AnyPipe!gathered,
       AnyPipe!judged, AnyPipe!past
<1> QED
  BY <1>1, <1>2, PTL DEF MCSpec, AnyPipe!Spec

(* What an artifact of the instance said is in one place, counted once.     *)
THEOREM AccountedCorrect == MCSpec => []EveryObservationIsAccountedFor
<1>1. AnyPipe!Spec => []AnyPipe!EveryObservationIsAccountedFor
  BY SMTT(30), BoundsAre, ClaimsAre, AnyPipe!EveryObservationIsSomewhere
<1>2. AnyPipe!EveryObservationIsAccountedFor => EveryObservationIsAccountedFor
  BY Zenon, SameThose
  DEF Pipe!EveryObservationIsAccountedFor, Pipe!Places, Pipe!Given, Pipe!Ids, Pipe!Select,
         Pipe!ToSet, Pipe!Cardinality, AnyPipe!EveryObservationIsAccountedFor,
         AnyPipe!Places,
         AnyPipe!Given, AnyPipe!Ids, AnyPipe!Select, AnyPipe!ToSet, AnyPipe!Cardinality,
         EveryObservationIsAccountedFor
<1> QED
  BY <1>1, <1>2, StagesAreAny, PTL

(* A detection of a file the walk could see is not dropped.                 *)
THEOREM DetectionsCorrect == MCSpec => []DetectionOfAFileHereIsKept
<1>1. AnyPipe!Spec => []AnyPipe!DetectionOfAFileHereIsKept
  BY BoundsAre, ClaimsAre, AnyPipe!DetectionsOfFilesStay
<1>2. AnyPipe!DetectionOfAFileHereIsKept => DetectionOfAFileHereIsKept
  BY DEF Pipe!DetectionOfAFileHereIsKept, Pipe!IsDetection,
         AnyPipe!DetectionOfAFileHereIsKept, AnyPipe!IsDetection,
         DetectionOfAFileHereIsKept
<1> QED
  BY <1>1, <1>2, StagesAreAny, PTL

(* A name that is only set aside makes no candidate, unless a registration  *)
(* spelled it through a junction and the file's own record does not tell.   *)
THEOREM AnchorsCorrect == MCSpec => []DeferredNameNoCandidateAlone
<1>1. AnyPipe!Spec => []AnyPipe!DeferredNameNoCandidateAlone
  BY BoundsAre, ClaimsAre, AnyPipe!CandidatesAreAnchored
<1>2. AnyPipe!DeferredNameNoCandidateAlone => DeferredNameNoCandidateAlone
  BY Zenon
  DEF Pipe!DeferredNameNoCandidateAlone, Pipe!IsKept, Pipe!IsDetection,
      Pipe!IsDeletedValue, Pipe!IsDeferrableCom, Pipe!LedTo, Pipe!Canonical, Pipe!Key,
      AnyPipe!DeferredNameNoCandidateAlone, AnyPipe!IsKept, AnyPipe!IsDetection,
      AnyPipe!IsDeletedValue, AnyPipe!IsDeferrableCom, AnyPipe!LedTo, AnyPipe!Canonical,
      AnyPipe!Key, DeferredNameNoCandidateAlone
<1> QED
  BY <1>1, <1>2, StagesAreAny, PTL

(* A candidate that is a file is not judged as one that vanished, unless it *)
(* is reached through a junction and a freed record had its path, or its    *)
(* own record does not tell.                                                *)
THEOREM PresentCorrect == MCSpec => []PresentFilesAreKnownPresent
<1>1. AnyPipe!Spec => []AnyPipe!PresentFilesAreKnownPresent
  BY BoundsAre, ClaimsAre, AnyPipe!FilesHereAreKnown
<1>2. AnyPipe!PresentFilesAreKnownPresent => PresentFilesAreKnownPresent
  <2>1. \A obs : Pipe!KnownPresent(obs) = AnyPipe!KnownPresent(obs)
    BY Zenon, SameThose
    DEF Pipe!KnownPresent, Pipe!Select, Pipe!ToSet, Pipe!Keys, AnyPipe!KnownPresent,
        AnyPipe!Select, AnyPipe!ToSet, AnyPipe!Keys
  <2> QED
    BY Zenon, <2>1
    DEF Pipe!PresentFilesAreKnownPresent, Pipe!Spelled, Pipe!Canonical, Pipe!Key,
        Pipe!NamedByAnArtifact, Pipe!IsDeferrableCom, Pipe!LedTo, Pipe!RecordedFreed,
        AnyPipe!PresentFilesAreKnownPresent, AnyPipe!Spelled, AnyPipe!Canonical,
        AnyPipe!Key, AnyPipe!NamedByAnArtifact, AnyPipe!IsDeferrableCom, AnyPipe!LedTo,
        AnyPipe!RecordedFreed, PresentFilesAreKnownPresent
<1> QED
  BY <1>1, <1>2, StagesAreAny, PTL

(* The conclusions in the report are of the observations in it.             *)
THEOREM EvidenceCorrect == MCSpec => []EvidenceIsOfTheReport
<1>1. AnyPipe!Spec => []AnyPipe!EvidenceIsOfTheReport
  BY BoundsAre, ClaimsAre, AnyPipe!EvidenceIsUpToDate
<1>2. AnyPipe!EvidenceIsOfTheReport => EvidenceIsOfTheReport
  BY DEF Pipe!EvidenceIsOfTheReport, Pipe!Done, Pipe!At, Pipe!Extract, Pipe!ToSet,
         AnyPipe!EvidenceIsOfTheReport, AnyPipe!Done, AnyPipe!At, AnyPipe!Extract,
         AnyPipe!ToSet, EvidenceIsOfTheReport
<1> QED
  BY <1>1, <1>2, StagesAreAny, PTL

(* Links by digest go both ways between candidates that agree.              *)
THEOREM LinksCorrect == MCSpec => []SharedDigestsAreMutual
<1>1. AnyPipe!Spec => []AnyPipe!SharedDigestsAreMutual
  BY BoundsAre, ClaimsAre, AnyPipe!LinksAreMutual
<1>2. AnyPipe!SharedDigestsAreMutual => SharedDigestsAreMutual
  BY SameShared
  DEF Pipe!SharedDigestsAreMutual, Pipe!Done, Pipe!At,
         AnyPipe!SharedDigestsAreMutual, AnyPipe!Done, AnyPipe!At,
         SharedDigestsAreMutual
<1> QED
  BY <1>1, <1>2, StagesAreAny, PTL
-----------------------------------------------------------------------------
(* The candidates.  Here too the definitions are those of any graph.        *)
AnyGraph == INSTANCE CandidateGraphProofs WITH
    Paths <- MCPaths, Contents <- MCContents,
    Algorithms <- << "sha256", "sha1" >>,
    DigestSets <- { {"sha1"}, {"sha256", "sha1"} }

(* What the harvesters record, as GraphAssumption has it.                   *)
LEMMA GraphIsAny ==
    /\ AnyGraph!Assumed
    /\ Graph!Init <=> AnyGraph!Init
    /\ Graph!Next <=> AnyGraph!Next
<1>1. AnyGraph!Assumed
  BY GraphAssumption
  DEF GraphAssumption, AnyGraph!Assumed,
      Graph!PathAssumption, Graph!AlgorithmAssumption, Graph!DigestAssumption,
      Graph!SharedAlgorithmAssumption, Graph!Algorithm,
      AnyGraph!PathAssumption, AnyGraph!AlgorithmAssumption, AnyGraph!DigestAssumption,
      AnyGraph!SharedAlgorithmAssumption, AnyGraph!Algorithm
<1>2. Graph!Init <=> AnyGraph!Init
  BY DEF Graph!Init, Graph!Digest, Graph!Algorithm, Graph!NotIndexed,
         AnyGraph!Init, AnyGraph!Digest, AnyGraph!Algorithm, AnyGraph!NotIndexed
<1>3. ASSUME NEW o PROVE Graph!Observe(o) <=> AnyGraph!Observe(o)
  <2>1. Graph!JoinDigests(o) = AnyGraph!JoinDigests(o)
    BY DEF Graph!JoinDigests, Graph!HashKeys, Graph!JoinPath, Graph!Sets,
       Graph!JoinDigest,
           Graph!Conflict, Graph!PathOf, Graph!Union, Graph!NotIndexed,
           AnyGraph!JoinDigests, AnyGraph!HashKeys, AnyGraph!JoinPath, AnyGraph!Sets,
           AnyGraph!JoinDigest, AnyGraph!Conflict, AnyGraph!PathOf, AnyGraph!Union,
           AnyGraph!NotIndexed
  <2>2. Graph!Place(o) = AnyGraph!Place(o)
    BY <2>1 DEF Graph!Place, Graph!Make, Graph!NotIndexed,
                AnyGraph!Place, AnyGraph!Make, AnyGraph!NotIndexed
  <2>3. \A s, p : Graph!CommitPath(s, p) = AnyGraph!CommitPath(s, p)
    BY DEF Graph!CommitPath, AnyGraph!CommitPath
  <2>4. \A index, keys, root : Graph!OrInsert(index, keys, root) = AnyGraph!OrInsert(index, keys, root)
    BY DEF Graph!OrInsert, Graph!NotIndexed, AnyGraph!OrInsert, AnyGraph!NotIndexed
  <2>5. \A sets, root : Graph!Push(sets, root) = AnyGraph!Push(sets, root)
    BY DEF Graph!Push, AnyGraph!Push
  <2> QED
    BY <2>2, <2>3, <2>4, <2>5 DEF Graph!Observe, AnyGraph!Observe
<1>4. Graph!Observation = AnyGraph!Observation
  BY DEF Graph!Observation, Graph!Hashless, Graph!Hashed,
         AnyGraph!Observation, AnyGraph!Hashless, AnyGraph!Hashed
<1>5. Graph!Next <=> AnyGraph!Next
  BY <1>3, <1>4 DEF Graph!Next, AnyGraph!Next
<1> QED
  BY <1>1, <1>2, <1>5

LEMMA CandidatesAreAny == MCSpec => AnyGraph!Spec
<1>1. MCInit => AnyGraph!Init
  BY GraphIsAny DEF MCInit
<1>2. [MCNext]_<< part, vars, grouping, stages, signer, score, journal >>
        => [AnyGraph!Next]_(AnyGraph!vars)
  <2> SUFFICES ASSUME [MCNext]_<< part, vars, grouping, stages, signer, score, journal >>
               PROVE  [AnyGraph!Next]_(AnyGraph!vars)
    OBVIOUS
  <2>1. Graph!Next \/ UNCHANGED grouping
    BY DEF MCNext
  <2> QED
    BY <2>1, GraphIsAny DEF grouping, AnyGraph!vars
<1> QED
  BY <1>1, <1>2, PTL DEF MCSpec, AnyGraph!Spec

LEMMA SameMembers ==
    /\ Graph!Roots = AnyGraph!Roots
    /\ \A r : Graph!Members(r) = AnyGraph!Members(r)
  BY DEF Graph!Roots, Graph!Members, AnyGraph!Roots, AnyGraph!Members

(* No candidate of the instance falls apart.                                *)
THEOREM ResemblanceCorrect == MCSpec => []NothingIsMergedOnResemblance
<1>1. AnyGraph!Spec => []AnyGraph!NothingIsMergedOnResemblance
  BY GraphIsAny, AnyGraph!ResemblanceCorrect
<1>2. AnyGraph!NothingIsMergedOnResemblance => NothingIsMergedOnResemblance
  BY SameMembers
  DEF NothingIsMergedOnResemblance, Graph!NothingIsMergedOnResemblance, Graph!Share,
      AnyGraph!NothingIsMergedOnResemblance, AnyGraph!Share
<1> QED
  BY <1>1, <1>2, CandidatesAreAny, PTL

(* And they are as many, whatever order the artifacts were read in.         *)
THEOREM SplitCorrect == MCSpec => []TheSplitIsTheSameInAnyOrder
<1>1. AnyGraph!Spec => []AnyGraph!TheSplitIsTheSameInAnyOrder
  BY GraphIsAny, AnyGraph!SplitCorrect
<1>2. AnyGraph!TheSplitIsTheSameInAnyOrder => TheSplitIsTheSameInAnyOrder
  <2>1. /\ Graph!PathsSeen = AnyGraph!PathsSeen /\ Graph!ContentsSeen = AnyGraph!ContentsSeen
        /\ Graph!Placed = AnyGraph!Placed
    BY DEF Graph!PathsSeen, Graph!ContentsSeen, Graph!Placed, Graph!ContentOf,
           AnyGraph!PathsSeen, AnyGraph!ContentsSeen, AnyGraph!Placed, AnyGraph!ContentOf
  <2>2. \A S : Graph!Cardinality(S) = AnyGraph!Cardinality(S)
    BY DEF Graph!Cardinality, AnyGraph!Cardinality
  <2>3. Graph!DifferentPathsStayApart <=> AnyGraph!DifferentPathsStayApart
    BY Zenon, SameMembers
    DEF Graph!DifferentPathsStayApart, Graph!PathsIn,
        AnyGraph!DifferentPathsStayApart, AnyGraph!PathsIn
  <2> QED
    BY SameMembers, <2>1, <2>2, <2>3
    DEF TheSplitIsTheSameInAnyOrder, Graph!TheSplitIsTheSameInAnyOrder,
        AnyGraph!TheSplitIsTheSameInAnyOrder
<1> QED
  BY <1>1, <1>2, CandidatesAreAny, PTL

-----------------------------------------------------------------------------
(* Selections from the certificates of a file, or from the roots.           *)
LEMMA ChosenAre ==
    ASSUME NEW S, NEW s \in Seq(S), NEW set
    PROVE  /\ Chain!Those(s, set) \in Seq(S)
           /\ Chain!ToSet(Chain!Those(s, set)) = Chain!ToSet(s) \cap set
<1>1. Chain!Those(s, set) = AnyPipe!Those(s, set)
  BY DEF Chain!Those, AnyPipe!Those
<1>2. \A t : Chain!ToSet(t) = AnyPipe!ToSet(t)
  BY DEF Chain!ToSet, AnyPipe!ToSet
<1> QED
  BY <1>1, <1>2, AnyPipe!ThoseAre

Certificates == Chain!ToSet(pool) \cup Chain!ToSet(roots)

(* The path is a chain so far, of certificates of the file.                 *)
Linked ==
    /\ certs \in Seq(Chain!ToSet(pool)) /\ certs # << >> /\ certs[1] = Chain!Leaf
    /\ \A i, j \in 1..Len(certs) : certs[i] = certs[j] => i = j
    /\ \A i \in 1..(Len(certs) - 1) : certs[i + 1].ca /\ Chain!Issued(certs[i], certs[i + 1])

(* What is still to be tried for a certificate of the path may issue it.    *)
MayFollow(i, c) ==
    /\ i <= MaxChain /\ Chain!Names(c, certs[i])
    /\ \/ c \in Chain!ToSet(roots)
       \/ c \in Chain!ToSet(pool) /\ c.ca /\ \A j \in 1..i : certs[j] # c
Framed ==
    /\ frames \in Seq(Seq(Certificates))
    /\ Len(frames) = Len(certs) \/ frames = << >>
    /\ \A i \in 1..Len(frames) : \A c \in Chain!ToSet(frames[i]) : MayFollow(i, c)

(* A chain the walk has yet to find: it follows the path for a while, and   *)
(* what leads on from there is still to be tried.                           *)
LeadsOn(p, i, c) ==
    \/ i < Len(p) /\ c = p[i + 1]
    \/ i = Len(p) /\ c \in Chain!ToSet(roots) /\ Chain!Issued(p[i], c)
Ahead(p) ==
    \E i \in 1..Len(frames) :
        /\ i <= Len(p) /\ \A j \in 1..i : certs[j] = p[j]
        /\ \E c \in Chain!ToSet(frames[i]) : LeadsOn(p, i, c)

FileGiven ==
    /\ pool # << >> /\ pool \in Seq(Chain!ToSet(pool)) /\ roots \in Seq(Chain!ToSet(roots))
    /\ budget \in Nat

(* What was concluded: a chain, or nothing of one that was not looked for.  *)
Concluded ==
    /\ signed_by # Chain!None =>
         \/ signed_by.kind = "Reached" /\ signed_by.path \in Chain!Chains
         \/ /\ signed_by.kind \in {"Uncheckable", "Broken", "SelfSignedTop", "Incomplete"}
            /\ budget = 0 => signed_by.kind = "Uncheckable"
            /\ frames = << >>
    /\ outcome # "none" => signed_by # Chain!None /\ (signed_by.kind = "Uncheckable" => outcome = "Unknown")

Found == signed_by # Chain!None /\ signed_by.kind = "Reached"

ChainInv ==
    /\ FileGiven /\ Linked /\ Framed /\ Concluded
    /\ \A p \in Chain!Chains : Found \/ budget = 0 \/ Ahead(p)

-----------------------------------------------------------------------------
(* All but the last of a sequence.                                          *)
LEMMA FrontIs ==
    ASSUME NEW S, NEW s \in Seq(S), s # << >>
    PROVE  /\ Len(s) \in Nat /\ Len(s) > 0
           /\ Chain!Front(s) \in Seq(S) /\ Len(Chain!Front(s)) = Len(s) - 1
           /\ \A i \in 1..(Len(s) - 1) : Chain!Front(s)[i] = s[i]
<1>1. Len(s) \in Nat \ {0}
  BY EmptySeq
<1>2. \A i \in 1..(Len(s) - 1) : s[i] \in S
  BY <1>1, ElementOfSeq
<1>3. Len(s) - 1 \in Int /\ 1 \in Int /\ (Len(s) - 1) - 1 + 1 = Len(s) - 1
  BY <1>1
<1>4. /\ SubSeq(s, 1, Len(s) - 1) \in Seq(S)
      /\ Len(SubSeq(s, 1, Len(s) - 1)) = Len(s) - 1
      /\ \A i \in 1..(Len(s) - 1) : SubSeq(s, 1, Len(s) - 1)[i] = s[1 + i - 1]
  BY <1>1, <1>2, <1>3, SubSeqProperties
<1> QED
  BY <1>1, <1>4 DEF Chain!Front

(* What walk() tries for the last certificate of a path: the roots that     *)
(* name it, and those of the file that may issue it.                        *)
LEMMA IssuersAre ==
    ASSUME FileGiven, NEW p \in Seq(Chain!ToSet(pool)), p # << >>
    PROVE  /\ Chain!Issuers(p) \in Seq(Certificates)
           /\ \A c : c \in Chain!ToSet(Chain!Issuers(p)) <=>
                /\ Len(p) <= MaxChain /\ Chain!Names(c, Chain!Last(p))
                /\ c \in Chain!ToSet(roots) \/ (c \in Chain!ToSet(pool) /\ Chain!MayIssue(p, c))
<1> DEFINE R == { r \in Chain!ToSet(roots) : Chain!Names(r, Chain!Last(p)) }
           C == { c \in Chain!ToSet(pool) : Chain!MayIssue(p, c) }
           a == Chain!Those(roots, R)
           b == Chain!Those(pool, C)
<1>1. /\ a \in Seq(Chain!ToSet(roots)) /\ Chain!ToSet(a) = Chain!ToSet(roots) \cap R
      /\ b \in Seq(Chain!ToSet(pool)) /\ Chain!ToSet(b) = Chain!ToSet(pool) \cap C
  <2> HIDE DEF R, C
  <2> QED
    BY ChosenAre DEF FileGiven
<1>2. a \in Seq(Certificates) /\ b \in Seq(Certificates)
  <2> HIDE DEF a, b
  <2>1. Chain!ToSet(roots) \subseteq Certificates /\ Chain!ToSet(pool) \subseteq Certificates
    BY DEF Certificates
  <2> QED
    BY <1>1, <2>1, SeqMonotonic
<1>3. Len(p) \in Nat /\ MaxChain \in Nat
  BY LenProperties, ChainAssumption DEF Chain!PoolAssumption
<1>4. CASE Len(p) > MaxChain
  <2>1. Chain!Issuers(p) = << >> /\ ~(Len(p) <= MaxChain)
    BY <1>3, <1>4 DEF Chain!Issuers
  <2>2. \A c : c \notin Chain!ToSet(<< >>)
    BY DEF Chain!ToSet
  <2> QED
    BY <2>1, <2>2
<1>5. CASE Len(p) <= MaxChain
  <2>1. Chain!Issuers(p) = a \o b
    BY <1>3, <1>5 DEF Chain!Issuers
  <2> HIDE DEF a, b
  <2>2. \A c : c \in Chain!ToSet(a \o b) <=> c \in Chain!ToSet(a) \/ c \in Chain!ToSet(b)
    <3>1. /\ a \o b \in Seq(Certificates) /\ Len(a \o b) = Len(a) + Len(b)
          /\ \A i \in 1..(Len(a) + Len(b)) :
               (a \o b)[i] = IF i <= Len(a) THEN a[i] ELSE b[i - Len(a)]
      BY <1>2, ConcatProperties
    <3>2. /\ Len(a) \in Nat /\ Len(b) \in Nat /\ DOMAIN a = 1..Len(a) /\ DOMAIN b = 1..Len(b)
          /\ DOMAIN (a \o b) = 1..(Len(a) + Len(b))
      BY <1>2, <3>1, LenProperties
    <3> DEFINE ab == a \o b
    <3> HIDE DEF ab
    <3>3. ASSUME NEW i \in 1..(Len(a) + Len(b)) PROVE ab[i] \in Chain!ToSet(a) \/ ab[i] \in Chain!ToSet(b)
      <4>1. CASE i <= Len(a)
        BY SMTT(30), <3>1, <3>2, <4>1 DEF Chain!ToSet, ab
      <4>2. CASE ~(i <= Len(a))
        <5>1. i - Len(a) \in 1..Len(b)
          BY <3>2, <4>2
        <5> QED
          BY Zenon, <3>1, <3>2, <4>2, <5>1 DEF Chain!ToSet, ab
      <4> QED
        BY <4>1, <4>2
    <3>4. ASSUME NEW i \in 1..Len(a) PROVE a[i] \in Chain!ToSet(ab)
      <4>1. i \in 1..(Len(a) + Len(b)) /\ ab[i] = a[i]
        BY <3>1, <3>2 DEF ab
      <4> QED
        BY <3>2, <4>1 DEF Chain!ToSet, ab
    <3>5. ASSUME NEW i \in 1..Len(b) PROVE b[i] \in Chain!ToSet(ab)
      <4>1. i + Len(a) \in 1..(Len(a) + Len(b)) /\ ~(i + Len(a) <= Len(a)) /\ i + Len(a) - Len(a) = i
        BY <3>2
      <4>2. ab[i + Len(a)] = b[i]
        BY <3>1, <4>1 DEF ab
      <4> QED
        BY <3>2, <4>1, <4>2 DEF Chain!ToSet, ab
    <3>6. Chain!ToSet(ab) = { ab[i] : i \in 1..(Len(a) + Len(b)) }
      BY <3>2 DEF Chain!ToSet, ab
    <3>7. Chain!ToSet(a) = { a[i] : i \in 1..Len(a) } /\ Chain!ToSet(b) = { b[i] : i \in 1..Len(b) }
      BY <3>2 DEF Chain!ToSet
    <3>8. \A c : c \in Chain!ToSet(ab) <=> c \in Chain!ToSet(a) \/ c \in Chain!ToSet(b)
      BY Zenon, <3>3, <3>4, <3>5, <3>6, <3>7
    <3> QED
      BY <3>8 DEF ab
  <2>3. a \o b \in Seq(Certificates)
    BY <1>2, ConcatProperties
  <2>4. \A c : Chain!MayIssue(p, c) => Chain!Names(c, Chain!Last(p))
    BY DEF Chain!MayIssue
  <2> QED
    BY <1>1, <1>5, <2>1, <2>2, <2>3, <2>4
<1> QED
  BY <1>3, <1>4, <1>5

(* A chain, certificate by certificate.                                     *)
LEMMA ChainShape ==
    ASSUME NEW p \in Chain!Chains
    PROVE  /\ Len(p) \in Nat /\ 1 <= Len(p) /\ Len(p) <= MaxChain
           /\ p[1] = Chain!Leaf /\ \A i \in 1..Len(p) : p[i] \in Chain!ToSet(pool)
           /\ \A i, j \in 1..Len(p) : p[i] = p[j] => i = j
           /\ \A i \in 1..(Len(p) - 1) : p[i + 1].ca /\ Chain!Issued(p[i], p[i + 1])
           /\ \E r \in Chain!ToSet(roots) : Chain!Issued(p[Len(p)], r)
<1>1. PICK m \in 0..MaxChain : p \in [1..m -> Chain!ToSet(pool)]
  BY DEF Chain!Chains, Chain!SeqOf
<1>2. m \in Nat /\ m <= MaxChain
  BY ChainAssumption DEF Chain!PoolAssumption
<1>3. p \in Seq(Chain!ToSet(pool)) /\ Len(p) = m
  BY <1>1, <1>2
<1>4. p # << >> /\ Chain!IsChain(p)
  BY DEF Chain!Chains
<1>5. m # 0
  BY <1>3, <1>4, EmptySeq
<1> QED
  BY <1>1, <1>2, <1>3, <1>4, <1>5 DEF Chain!IsChain, Chain!IsInjective, Chain!Last

(* While the walk goes on, a frame is there for every certificate of the    *)
(* path.                                                                    *)
LEMMA WalkingIs ==
    ASSUME ChainInv, Chain!Walking
    PROVE  /\ Len(certs) \in Nat /\ Len(certs) >= 1 /\ Len(frames) = Len(certs)
           /\ \A i \in 1..Len(certs) : certs[i] \in Chain!ToSet(pool) /\ frames[i] \in Seq(Certificates)
           /\ Chain!Last(certs) = certs[Len(certs)] /\ Chain!Last(frames) = frames[Len(certs)]
<1>1. /\ certs \in Seq(Chain!ToSet(pool)) /\ certs # << >>
      /\ frames \in Seq(Seq(Certificates)) /\ frames # << >>
      /\ Len(frames) = Len(certs)
  BY DEF ChainInv, Linked, Framed, Chain!Walking
<1>2. Len(certs) \in Nat \ {0}
  BY <1>1, EmptySeq
<1>3. \A i \in 1..Len(certs) : certs[i] \in Chain!ToSet(pool)
  BY <1>1, ElementOfSeq
<1>4. \A i \in 1..Len(frames) : frames[i] \in Seq(Certificates)
  BY <1>1, ElementOfSeq
<1> QED
  BY <1>1, <1>2, <1>3, <1>4 DEF Chain!Last

(* The frames when one more issuer has been tried.                          *)
LEMMA TriedIs ==
    ASSUME ChainInv, Chain!Walking, Chain!Last(frames) # << >>
    PROVE  /\ Chain!Tried \in Seq(Seq(Certificates)) /\ Len(Chain!Tried) = Len(certs) /\ Chain!Tried # << >>
           /\ \A i \in 1..(Len(certs) - 1) : Chain!Tried[i] = frames[i]
           /\ \A c : c \in Chain!ToSet(frames[Len(certs)]) <=>
                 c = Chain!Try \/ c \in Chain!ToSet(Chain!Tried[Len(certs)])
           /\ Chain!Try \in Certificates
<1> DEFINE k == Len(certs)
           f == frames[k]
           S == Seq(Certificates)
<1>1. /\ k \in Nat /\ k >= 1 /\ Len(frames) = k /\ f \in S /\ f # << >>
      /\ frames \in Seq(S) /\ frames # << >> /\ Chain!Last(frames) = f
      /\ \A i \in 1..k : frames[i] \in S
  BY WalkingIs DEF ChainInv, Framed, Chain!Walking
<1> HIDE DEF k, f, S
<1>2. /\ Head(f) \in Certificates /\ Tail(f) \in S /\ Len(Tail(f)) = Len(f) - 1
      /\ \A i \in 1..Len(Tail(f)) : Tail(f)[i] = f[i + 1]
      /\ Head(f) = f[1] /\ Len(f) \in Nat /\ Len(f) > 0
      /\ DOMAIN f = 1..Len(f) /\ DOMAIN Tail(f) = 1..Len(Tail(f))
  <2>1. f \in Seq(Certificates) /\ f # << >>
    BY <1>1 DEF S
  <2>2. Len(f) \in Nat \ {0} /\ DOMAIN f = 1..Len(f)
    BY <2>1, EmptySeq, LenProperties
  <2>3. /\ Head(f) \in Certificates /\ Tail(f) \in Seq(Certificates) /\ Len(Tail(f)) = Len(f) - 1
        /\ \A i \in 1..Len(Tail(f)) : Tail(f)[i] = f[i + 1]
    BY <2>1, HeadTailProperties
  <2>4. DOMAIN Tail(f) = 1..Len(Tail(f))
    BY <2>3, LenProperties
  <2>5. Head(f) = f[1]
    BY <2>1
  <2> QED
    BY <2>2, <2>3, <2>4, <2>5 DEF S
<1>3. /\ Chain!Front(frames) \in Seq(S) /\ Len(Chain!Front(frames)) = k - 1
      /\ \A i \in 1..(k - 1) : Chain!Front(frames)[i] = frames[i]
  BY <1>1, FrontIs
<1> DEFINE g == Chain!Front(frames)
           t == << Tail(f) >>
<1>4. t \in Seq(S) /\ Len(t) = 1 /\ t[1] = Tail(f)
  BY <1>2
<1>5. Chain!Tried = g \o t /\ Chain!Try = Head(f)
  BY <1>1 DEF Chain!Tried, Chain!Try
<1> HIDE DEF g, t
<1>6. /\ g \o t \in Seq(S) /\ Len(g \o t) = Len(g) + Len(t)
      /\ \A i \in 1..(Len(g) + Len(t)) : (g \o t)[i] = IF i <= Len(g) THEN g[i] ELSE t[i - Len(g)]
  <2>1. g \in Seq(S)
    BY <1>3 DEF g
  <2> QED
    BY Zenon, <1>4, <2>1, ConcatProperties
<1>7. /\ Chain!Tried \in Seq(S) /\ Len(Chain!Tried) = k /\ Chain!Tried[k] = Tail(f)
      /\ \A i \in 1..(k - 1) : Chain!Tried[i] = frames[i]
  <2>1. Len(g) = k - 1 /\ Len(g) + Len(t) = k /\ \A i \in 1..(k - 1) : g[i] = frames[i]
    BY <1>1, <1>3, <1>4 DEF g
  <2>2. \A i \in 1..k : Chain!Tried[i] = IF i <= k - 1 THEN g[i] ELSE t[i - (k - 1)]
    BY Zenon, <1>5, <1>6, <2>1
  <2>3. Chain!Tried[k] = t[1]
    <3>1. k \in 1..k /\ ~(k <= k - 1) /\ k - (k - 1) = 1
      BY <1>1
    <3> QED
      BY <2>2, <3>1
  <2>4. \A i \in 1..(k - 1) : i \in 1..k /\ i <= k - 1
    BY <1>1
  <2> QED
    BY <1>4, <1>5, <1>6, <2>1, <2>2, <2>3, <2>4
<1>8. \A c : c \in Chain!ToSet(f) <=> c = Head(f) \/ c \in Chain!ToSet(Tail(f))
  <2>1. Chain!ToSet(f) = { f[i] : i \in 1..Len(f) }
        /\ Chain!ToSet(Tail(f)) = { Tail(f)[i] : i \in 1..Len(Tail(f)) }
    BY Zenon, <1>2 DEF Chain!ToSet
  <2>2. \A i \in 1..Len(f) : i = 1 \/ (i - 1 \in 1..Len(Tail(f)) /\ (i - 1) + 1 = i)
    BY <1>2
  <2>3. \A i \in 1..Len(Tail(f)) : i + 1 \in 1..Len(f)
    BY <1>2
  <2>4. 1 \in 1..Len(f)
    BY <1>2
  <2>5. ASSUME NEW i \in 1..Len(f) PROVE f[i] = Head(f) \/ f[i] \in Chain!ToSet(Tail(f))
    <3>1. CASE i = 1
      BY <1>2, <3>1
    <3>2. CASE i # 1
      <4>1. i - 1 \in 1..Len(Tail(f)) /\ (i - 1) + 1 = i
        BY <2>2, <3>2
      <4>2. Tail(f)[i - 1] = f[i]
        BY <1>2, <4>1
      <4> QED
        BY Zenon, <2>1, <4>1, <4>2
    <3> QED
      BY <3>1, <3>2
  <2>6. ASSUME NEW i \in 1..Len(Tail(f)) PROVE Tail(f)[i] \in Chain!ToSet(f)
    BY <1>2, <2>1, <2>3
  <2>7. Head(f) \in Chain!ToSet(f)
    BY <1>2, <2>1, <2>4
  <2> QED
    BY <2>1, <2>5, <2>6, <2>7
<1>9. Chain!Tried # << >>
  BY <1>1, <1>7, EmptySeq
<1> QED
  BY Zenon, <1>1, <1>2, <1>5, <1>7, <1>8, <1>9 DEF k, f, S
-----------------------------------------------------------------------------
(* To begin with, everything is ahead of the signer's certificate.          *)
LEMMA InitChainInv == Chain!Init => ChainInv
<1> SUFFICES ASSUME Chain!Init PROVE ChainInv
  OBVIOUS
<1>1. FileGiven
  BY ChainAssumption DEF Chain!Init, FileGiven, Chain!PoolAssumption
<1>2. Chain!Leaf \in Chain!ToSet(pool) /\ certs = << Chain!Leaf >> /\ frames = << Chain!Issuers(certs) >> /\ signed_by = Chain!None
      /\ outcome = "none"
  <2>1. pool \in Seq(Chain!ToSet(pool)) /\ pool # << >>
    BY <1>1 DEF FileGiven
  <2>2. 1 \in 1..Len(pool)
    BY <2>1, EmptySeq
  <2> QED
    BY <2>1, <2>2, ElementOfSeq DEF Chain!Init, Chain!Leaf
<1> DEFINE is == Chain!Issuers(certs)
<1>3. /\ certs \in Seq(Chain!ToSet(pool)) /\ certs # << >> /\ Len(certs) = 1 /\ certs[1] = Chain!Leaf
      /\ Chain!Last(certs) = Chain!Leaf
  BY <1>2 DEF Chain!Last
<1>4. /\ is \in Seq(Certificates)
      /\ \A c : c \in Chain!ToSet(is) <=>
                /\ Len(certs) <= MaxChain /\ Chain!Names(c, Chain!Last(certs))
                /\ c \in Chain!ToSet(roots) \/ (c \in Chain!ToSet(pool) /\ Chain!MayIssue(certs, c))
  BY Zenon, <1>1, <1>3, IssuersAre
<1> HIDE DEF is
<1>5. frames = << is >> /\ frames \in Seq(Seq(Certificates)) /\ Len(frames) = 1 /\ frames[1] = is
  BY <1>2, <1>4 DEF is
<1>6. Linked
  BY <1>3 DEF Linked
<1>7. Chain!ToSet(certs) = {Chain!Leaf}
  BY <1>2 DEF Chain!ToSet
<1>8. Framed
  <2>1. ASSUME NEW c \in Chain!ToSet(is) PROVE MayFollow(1, c)
    BY <1>3, <1>4, <1>7, <2>1 DEF MayFollow, Chain!MayIssue
  <2> QED
    BY <1>3, <1>5, <2>1 DEF Framed
<1>9. Concluded
  BY <1>2 DEF Concluded, Chain!None
<1>10. ASSUME NEW p \in Chain!Chains PROVE Ahead(p)
  <2>1. /\ Len(p) \in Nat /\ 1 <= Len(p) /\ Len(p) <= MaxChain
        /\ p[1] = Chain!Leaf /\ \A i \in 1..Len(p) : p[i] \in Chain!ToSet(pool)
        /\ \A i, j \in 1..Len(p) : p[i] = p[j] => i = j
        /\ \A i \in 1..(Len(p) - 1) : p[i + 1].ca /\ Chain!Issued(p[i], p[i + 1])
        /\ \E r \in Chain!ToSet(roots) : Chain!Issued(p[Len(p)], r)
    BY ChainShape
  <2>2. MaxChain \in Nat
    BY ChainAssumption DEF Chain!PoolAssumption
  <2>3. \E c \in Chain!ToSet(is) : LeadsOn(p, 1, c)
    <3>0. Len(p) = 1 \/ Len(p) > 1
      <4>1. Len(p) \in Nat /\ 1 <= Len(p)
        BY ChainShape
      <4> QED
        BY <4>1
    <3>1. CASE Len(p) = 1
      <4>1. PICK r \in Chain!ToSet(roots) : Chain!Issued(p[1], r)
        BY <2>1, <3>1
      <4>2. r \in Chain!ToSet(is)
        BY <1>3, <1>4, <2>1, <2>2, <4>1 DEF Chain!Issued
      <4> QED
        BY <3>1, <4>1, <4>2 DEF LeadsOn
    <3>2. CASE Len(p) > 1
      <4>1. 2 \in 1..Len(p) /\ 1 \in 1..(Len(p) - 1) /\ 1 \in 1..Len(p) /\ 1 + 1 = 2
        BY <2>1, <3>2
      <4>2. p[2] \in Chain!ToSet(pool) /\ p[2].ca /\ Chain!Issued(Chain!Leaf, p[2]) /\ p[2] # Chain!Leaf
        BY <2>1, <4>1
      <4>3. p[2] \in Chain!ToSet(is)
        BY <1>3, <1>4, <1>7, <2>1, <2>2, <4>2 DEF Chain!Issued, Chain!MayIssue
      <4> QED
        BY <3>2, <4>1, <4>3 DEF LeadsOn
    <3> QED
      BY <3>0, <3>1, <3>2, Zenon
  <2> QED
    BY <1>3, <1>5, <2>1, <2>3 DEF Ahead
<1> QED
  BY <1>1, <1>6, <1>8, <1>9, <1>10 DEF ChainInv, Found

(* A path that has reached a root is a chain.                               *)
LEMMA ReachRootKeeps == ChainInv /\ Chain!ReachRoot => ChainInv'
<1> SUFFICES ASSUME ChainInv, Chain!ReachRoot PROVE ChainInv'
  OBVIOUS
<1>1. /\ Chain!Walking /\ Chain!Last(frames) # << >> /\ budget \in Nat /\ budget > 0 /\ budget' = budget - 1
      /\ UNCHANGED << pool, roots, certs, frames, outcome >>
      /\ Chain!IsRoot(Chain!Try) /\ Chain!Check(Chain!Last(certs), Chain!Try) = "good"
      /\ signed_by' = [kind |-> "Reached", path |-> certs, root |-> Chain!Try]
  BY DEF Chain!ReachRoot, Chain!CheckIssuer, Chain!given, ChainInv, FileGiven
<1>2. FileGiven' /\ Linked' /\ Framed' /\ Chain!Chains' = Chain!Chains
  BY <1>1 DEF ChainInv, Found, FileGiven, Linked, Framed, Chain!Leaf, MayFollow,
     Certificates, Chain!Chains, Chain!IsChain
<1>3. signed_by' # Chain!None /\ signed_by'.kind = "Reached" /\ signed_by'.path = certs
  BY <1>1 DEF Chain!None
<1> DEFINE k == Len(certs)
<1>4. /\ k \in Nat /\ k >= 1 /\ Len(frames) = k /\ Chain!Last(certs) = certs[k]
      /\ \A i \in 1..k : certs[i] \in Chain!ToSet(pool)
      /\ \A c : c \in Chain!ToSet(frames[k]) <=> c = Chain!Try \/ c \in Chain!ToSet(Chain!Tried[k])
  BY <1>1, WalkingIs, TriedIs
<1>5. MayFollow(k, Chain!Try)
  BY <1>4 DEF ChainInv, Framed
<1>6. certs \in Chain!Chains
  <2>1. certs \in [1..k -> Chain!ToSet(pool)] /\ DOMAIN certs = 1..k /\ certs # << >>
    BY LenProperties DEF ChainInv, Linked
  <2>2. k \in 0..MaxChain
    BY <1>4, <1>5, ChainAssumption DEF MayFollow, Chain!PoolAssumption
  <2>3. certs \in Chain!SeqOf(Chain!ToSet(pool), MaxChain)
    BY <2>1, <2>2 DEF Chain!SeqOf
  <2>4. Chain!Issued(Chain!Last(certs), Chain!Try) /\ Chain!Try \in Chain!ToSet(roots)
    BY <1>1, <1>4, <1>5 DEF Chain!Issued, MayFollow, Chain!IsRoot
  <2>5. Chain!IsChain(certs)
    BY <2>1, <2>4 DEF Chain!IsChain, Chain!IsInjective, ChainInv, Linked
  <2> QED
    BY <2>1, <2>3, <2>5 DEF Chain!Chains
<1>7. Concluded'
  <2>1. outcome' = "none"
    BY <1>1 DEF ChainInv, Concluded, Chain!Walking
  <2> QED
    BY <1>2, <1>3, <1>6, <2>1 DEF Concluded
<1> QED
  BY <1>2, <1>3, <1>7 DEF ChainInv, Found

(* What followed the issuer that was taken is ahead of it now.              *)
LEMMA ClimbKeeps == ChainInv /\ Chain!Climb => ChainInv'
<1> SUFFICES ASSUME ChainInv, Chain!Climb PROVE ChainInv'
  OBVIOUS
<1>0. PICK k : k = Len(certs)
  BY Zenon
<1>1. /\ Chain!Walking /\ Chain!Last(frames) # << >> /\ budget \in Nat /\ budget > 0 /\ budget' = budget - 1
      /\ UNCHANGED << pool, roots, signed_by, outcome >>
      /\ ~Chain!IsRoot(Chain!Try) /\ Chain!Check(Chain!Last(certs), Chain!Try) = "good"
      /\ certs' = Append(certs, Chain!Try) /\ frames' = Append(Chain!Tried, Chain!Issuers(certs'))
      /\ FileGiven /\ Linked /\ Framed /\ Concluded /\ signed_by = Chain!None
  BY DEF Chain!Climb, Chain!CheckIssuer, Chain!given, ChainInv, FileGiven, Chain!Walking
<1>2. FileGiven' /\ Chain!Chains' = Chain!Chains /\ Certificates' = Certificates
  BY <1>1 DEF FileGiven, Chain!Leaf, Certificates, Chain!Chains, Chain!IsChain
<1>3. /\ k \in Nat /\ k >= 1 /\ Len(frames) = k /\ Chain!Last(certs) = certs[k]
      /\ \A i \in 1..k : certs[i] \in Chain!ToSet(pool)
  BY <1>0, <1>1, WalkingIs
<1>4. /\ Chain!Tried \in Seq(Seq(Certificates)) /\ Len(Chain!Tried) = k
      /\ \A i \in 1..(k - 1) : Chain!Tried[i] = frames[i]
      /\ \A c : c \in Chain!ToSet(frames[k]) <=> c = Chain!Try \/ c \in Chain!ToSet(Chain!Tried[k])
  BY <1>0, <1>1, TriedIs
<1>5. MayFollow(k, Chain!Try)
  BY <1>1, <1>3, <1>4 DEF Framed
<1>6. Chain!Try \in Chain!ToSet(pool) /\ Chain!Try.ca /\ \A j \in 1..k : certs[j] # Chain!Try
  BY <1>1, <1>5 DEF MayFollow, Chain!IsRoot
<1>7. PICK q : q = Append(certs, Chain!Try)
  BY Zenon
<1>8. /\ q \in Seq(Chain!ToSet(pool)) /\ q # << >> /\ Len(q) = k + 1 /\ q[k + 1] = Chain!Try
      /\ \A i \in 1..k : q[i] = certs[i]
  <2>1. certs \in Seq(Chain!ToSet(pool))
    BY <1>1 DEF Linked
  <2> QED
    BY <1>0, <1>6, <1>7, <2>1, AppendProperties
<1>9. PICK is : is = Chain!Issuers(q)
  OBVIOUS
<1>10. Chain!Last(q) = Chain!Try /\ certs' = q /\ Chain!Issuers(certs') = is
  BY <1>1, <1>3, <1>7, <1>8, <1>9 DEF Chain!Last
<1>11. /\ is \in Seq(Certificates)
       /\ \A c : c \in Chain!ToSet(is) <=>
                /\ k + 1 <= MaxChain /\ Chain!Names(c, Chain!Try)
                /\ c \in Chain!ToSet(roots) \/ (c \in Chain!ToSet(pool) /\ Chain!MayIssue(q, c))
  BY <1>1, <1>8, <1>9, <1>10, IssuersAre
<1>12. /\ frames' \in Seq(Seq(Certificates)) /\ Len(frames') = k + 1
       /\ \A i \in 1..k : frames'[i] = Chain!Tried[i]
       /\ frames'[k + 1] = is
  <2>1. frames' = Append(Chain!Tried, is)
    BY <1>1, <1>10
  <2>2. /\ Append(Chain!Tried, is) \in Seq(Seq(Certificates))
        /\ Len(Append(Chain!Tried, is)) = Len(Chain!Tried) + 1
        /\ \A i \in 1..Len(Chain!Tried) : Append(Chain!Tried, is)[i] = Chain!Tried[i]
        /\ Append(Chain!Tried, is)[Len(Chain!Tried) + 1] = is
    BY <1>4, <1>11, AppendProperties
  <2> QED
    BY <1>4, <2>1, <2>2
<1>13. \A i \in 1..(k + 1) : i \in 1..k \/ i = k + 1
  BY <1>3
<1>14. \A i \in 1..k : i \in 1..(k - 1) \/ i = k
  BY <1>3
<1>15. Chain!ToSet(q) = { q[i] : i \in 1..(k + 1) }
  <2>1. DOMAIN q = 1..(k + 1)
    BY <1>8, LenProperties
  <2> QED
    BY <2>1 DEF Chain!ToSet
<1>16. Linked'
  <2>1. certs[1] = Chain!Leaf /\ \A i, j \in 1..k : certs[i] = certs[j] => i = j
    BY <1>0, <1>1 DEF Linked
  <2>2. \A i \in 1..(k - 1) : certs[i + 1].ca /\ Chain!Issued(certs[i], certs[i + 1])
    BY <1>0, <1>1 DEF Linked
  <2>3. q[1] = Chain!Leaf /\ Chain!Leaf' = Chain!Leaf
    BY <1>1, <1>3, <1>8, <2>1 DEF Chain!Leaf
  <2>4. \A i, j \in 1..(k + 1) : q[i] = q[j] => i = j
    BY <1>3, <1>6, <1>8, <1>13, <2>1
  <2>5. ASSUME NEW i \in 1..k PROVE q[i + 1].ca /\ Chain!Issued(q[i], q[i + 1])
    <3>1. CASE i \in 1..(k - 1)
      <4>1. i + 1 \in 1..k /\ q[i + 1] = certs[i + 1] /\ q[i] = certs[i]
        BY <1>3, <1>8, <3>1
      <4> QED
        BY <2>2, <3>1, <4>1
    <3>2. CASE i = k
      BY <1>1, <1>3, <1>5, <1>6, <1>8, <3>2 DEF Chain!Issued, MayFollow
    <3> QED
      BY <1>14, <3>1, <3>2
  <2>6. (k + 1) - 1 = k
    BY <1>3
  <2> QED
    BY SMTT(30), <1>1, <1>8, <1>10, <2>3, <2>4, <2>5, <2>6 DEF Linked
<1>17. Framed'
  <2>1. ASSUME NEW i \in 1..k, NEW c \in Chain!ToSet(Chain!Tried[i]) PROVE MayFollow(i, c)'
    <3>1. c \in Chain!ToSet(frames[i])
      BY Zenon, <1>4, <1>14, <2>1
    <3>2. MayFollow(i, c)
      BY <1>1, <1>3, <3>1 DEF Framed
    <3>3. \A j \in 1..i : j \in 1..k
      BY <1>3
    <3> QED
      BY <1>1, <1>8, <1>10, <3>2, <3>3 DEF MayFollow
  <2>2. ASSUME NEW c \in Chain!ToSet(is) PROVE MayFollow(k + 1, c)'
    <3>1. c \in Chain!ToSet(roots) \/ (c \in Chain!ToSet(pool) /\ c.ca /\ \A j \in 1..(k + 1) : q[j] # c)
      <4>1. Chain!MayIssue(q, c) => c.ca /\ c \notin Chain!ToSet(q)
        BY DEF Chain!MayIssue
      <4>2. c \notin Chain!ToSet(q) => \A j \in 1..(k + 1) : q[j] # c
        BY <1>15
      <4>3. c \in Chain!ToSet(roots) \/ (c \in Chain!ToSet(pool) /\ Chain!MayIssue(q, c))
        BY <1>11, <2>2
      <4> QED
        BY <4>1, <4>2, <4>3, Zenon
    <3>2. k + 1 <= MaxChain /\ Chain!Names(c, q[k + 1])
      <4>1. q[k + 1] = Chain!Try
        BY <1>8
      <4> QED
        BY <1>11, <2>2, <4>1
    <3> QED
      BY <1>1, <1>10, <3>1, <3>2 DEF MayFollow, Chain!Names
  <2>3. \A i \in 1..(k + 1) : \A c \in Chain!ToSet(frames'[i]) : MayFollow(i, c)'
    BY <1>12, <1>13, <2>1, <2>2
  <2> QED
    BY <1>2, <1>8, <1>10, <1>12, <2>3 DEF Framed
<1>18. Concluded'
  BY <1>1 DEF Concluded
<1>19. ASSUME NEW p \in Chain!Chains PROVE Ahead(p)'
  <2>1. /\ Len(p) \in Nat /\ 1 <= Len(p) /\ Len(p) <= MaxChain
        /\ \A i \in 1..Len(p) : p[i] \in Chain!ToSet(pool)
        /\ \A i, j \in 1..Len(p) : p[i] = p[j] => i = j
        /\ \A i \in 1..(Len(p) - 1) : p[i + 1].ca /\ Chain!Issued(p[i], p[i + 1])
        /\ \E r \in Chain!ToSet(roots) : Chain!Issued(p[Len(p)], r)
    BY ChainShape
  <2>2. MaxChain \in Nat
    BY ChainAssumption DEF Chain!PoolAssumption
  <2>3. Ahead(p)
    BY <1>1 DEF ChainInv, Found
  <2>4. PICK i \in 1..k : /\ i <= Len(p) /\ \A j \in 1..i : certs[j] = p[j]
                          /\ \E c \in Chain!ToSet(frames[i]) : LeadsOn(p, i, c)
    BY <1>3, <2>3 DEF Ahead
  <2>5. PICK c \in Chain!ToSet(frames[i]) : LeadsOn(p, i, c)
    BY <2>4
  <2>6. i \in 1..(k + 1) /\ \A j \in 1..i : q[j] = p[j]
    BY <1>3, <1>8, <2>4
  <2>7. CASE c \in Chain!ToSet(Chain!Tried[i])
    <3>1. c \in Chain!ToSet(frames'[i])
      BY <1>12, <2>7
    <3> QED
      BY ZenonT(40), <1>1, <1>10, <1>12, <2>4, <2>5, <2>6, <3>1 DEF Ahead, LeadsOn
  <2>8. CASE c \notin Chain!ToSet(Chain!Tried[i])
    <3>1. i = k /\ c = Chain!Try
      BY Zenon, <1>4, <1>14, <2>5, <2>8
    <3>2. k < Len(p) /\ p[k + 1] = Chain!Try
      BY <1>1, <2>5, <3>1 DEF LeadsOn, Chain!IsRoot
    <3>3. k + 1 \in 1..(k + 1) /\ k + 1 <= Len(p) /\ k + 1 <= MaxChain
      BY <1>3, <2>1, <2>2, <3>2
    <3>4. \A j \in 1..(k + 1) : q[j] = p[j]
      BY <1>8, <1>13, <2>6, <3>1, <3>2
    <3>5. \E d \in Chain!ToSet(is) : LeadsOn(p, k + 1, d)
      <4>1. CASE k + 1 = Len(p)
        <5>1. PICK r \in Chain!ToSet(roots) : Chain!Issued(Chain!Try, r)
          BY <2>1, <3>2, <4>1
        <5>2. r \in Chain!ToSet(is)
          BY <1>11, <3>3, <5>1 DEF Chain!Issued
        <5> QED
          BY <3>2, <4>1, <5>1, <5>2 DEF LeadsOn
      <4>2. CASE k + 1 < Len(p)
        <5>1. /\ k + 1 \in 1..(Len(p) - 1) /\ (k + 1) + 1 \in 1..Len(p)
              /\ \A j \in 1..(k + 1) : j \in 1..Len(p) /\ j # (k + 1) + 1
          BY <1>3, <2>1, <4>2
        <5> DEFINE d == p[(k + 1) + 1]
        <5>2. d \in Chain!ToSet(pool) /\ d.ca /\ Chain!Issued(Chain!Try, d) /\ \A j \in 1..(k + 1) : p[j] # d
          BY <2>1, <3>2, <5>1
        <5> HIDE DEF d
        <5>3. d \notin Chain!ToSet(q)
          BY <1>15, <3>4, <5>2
        <5>4. d \in Chain!ToSet(is)
          BY <1>10, <1>11, <3>3, <5>2, <5>3 DEF Chain!Issued, Chain!MayIssue
        <5> QED
          BY <4>2, <5>4 DEF LeadsOn, d
      <4> QED
        BY <2>1, <3>3, <4>1, <4>2
    <3> QED
      BY ZenonT(40), <1>1, <1>10, <1>12, <3>3, <3>4, <3>5 DEF Ahead, LeadsOn
  <2> QED
    BY <2>7, <2>8
<1> QED
  BY <1>2, <1>16, <1>17, <1>18, <1>19 DEF ChainInv, Found
(* No chain goes on by an issuer that did not sign.                         *)
LEMMA NotIssuedKeeps == ChainInv /\ Chain!NotIssued => ChainInv'
<1> SUFFICES ASSUME ChainInv, Chain!NotIssued PROVE ChainInv'
  OBVIOUS
<1>0. PICK k : k = Len(certs)
  BY Zenon
<1>1. /\ Chain!Walking /\ Chain!Last(frames) # << >> /\ budget \in Nat /\ budget > 0 /\ budget' = budget - 1
      /\ UNCHANGED << pool, roots, certs, signed_by, outcome >>
      /\ Chain!Check(Chain!Last(certs), Chain!Try) # "good" /\ frames' = Chain!Tried
      /\ FileGiven /\ Linked /\ Framed /\ Concluded /\ signed_by = Chain!None
  BY DEF Chain!NotIssued, Chain!CheckIssuer, Chain!given, ChainInv, FileGiven,
     Chain!Walking
<1>2. FileGiven' /\ Linked' /\ Chain!Chains' = Chain!Chains /\ Certificates' = Certificates
  BY <1>1 DEF FileGiven, Linked, Chain!Leaf, Certificates, Chain!Chains, Chain!IsChain
<1>3. k \in Nat /\ k >= 1 /\ Len(frames) = k /\ Chain!Last(certs) = certs[k]
  BY <1>0, <1>1, WalkingIs
<1>4. /\ Chain!Tried \in Seq(Seq(Certificates)) /\ Len(Chain!Tried) = k
      /\ \A i \in 1..(k - 1) : Chain!Tried[i] = frames[i]
      /\ \A c : c \in Chain!ToSet(frames[k]) <=> c = Chain!Try \/ c \in Chain!ToSet(Chain!Tried[k])
  BY <1>0, <1>1, TriedIs
<1>5. \A i \in 1..k : i \in 1..(k - 1) \/ i = k
  BY <1>3
<1>6. ASSUME NEW i \in 1..k, NEW c \in Chain!ToSet(Chain!Tried[i]) PROVE c \in Chain!ToSet(frames[i])
  BY Zenon, <1>4, <1>5, <1>6
<1>7. Framed'
  <2>1. ASSUME NEW i \in 1..k, NEW c \in Chain!ToSet(Chain!Tried[i]) PROVE MayFollow(i, c)'
    <3>1. MayFollow(i, c)
      BY <1>1, <1>3, <1>6, <2>1 DEF Framed
    <3> QED
      BY <1>1, <3>1 DEF MayFollow
  <2> QED
    BY <1>0, <1>1, <1>2, <1>4, <2>1 DEF Framed
<1>8. Concluded'
  BY <1>1 DEF Concluded
<1>9. ASSUME NEW p \in Chain!Chains PROVE Ahead(p)'
  <2>1. Ahead(p)
    BY <1>1 DEF ChainInv, Found
  <2>2. PICK i \in 1..k : /\ i <= Len(p) /\ \A j \in 1..i : certs[j] = p[j]
                          /\ \E c \in Chain!ToSet(frames[i]) : LeadsOn(p, i, c)
    BY <1>3, <2>1 DEF Ahead
  <2>3. PICK c \in Chain!ToSet(frames[i]) : LeadsOn(p, i, c)
    BY <2>2
  <2>4. c \in Chain!ToSet(Chain!Tried[i])
    <3> SUFFICES ASSUME c \notin Chain!ToSet(Chain!Tried[i]) PROVE FALSE
      OBVIOUS
    <3>1. i = k /\ c = Chain!Try
      BY Zenon, <1>4, <1>5, <2>3
    <3>2. /\ Len(p) \in Nat
          /\ \A j \in 1..(Len(p) - 1) : p[j + 1].ca /\ Chain!Issued(p[j], p[j + 1])
      BY ChainShape
    <3>3. p[k] = certs[k]
      BY <1>3, <2>2, <3>1
    <3>4. Chain!Issued(p[k], Chain!Try)
      <4>1. CASE k < Len(p) /\ Chain!Try = p[k + 1]
        <5>1. k \in 1..(Len(p) - 1)
          BY <1>3, <3>2, <4>1
        <5> QED
          BY <3>2, <4>1, <5>1
      <4> QED
        BY <2>3, <3>1, <4>1 DEF LeadsOn
    <3> QED
      BY <1>1, <1>3, <3>3, <3>4 DEF Chain!Issued
  <2> QED
    BY Zenon, <1>1, <1>4, <2>2, <2>3, <2>4 DEF Ahead, LeadsOn
<1> QED
  BY <1>2, <1>7, <1>8, <1>9 DEF ChainInv, Found

(* None goes on where nothing is left to try.                               *)
LEMMA ComeBackKeeps == ChainInv /\ Chain!ComeBack => ChainInv'
<1> SUFFICES ASSUME ChainInv, Chain!ComeBack PROVE ChainInv'
  OBVIOUS
<1>0. PICK k : k = Len(certs)
  BY Zenon
<1>1. /\ Chain!Walking /\ (Chain!Last(frames) = << >> \/ budget = 0)
      /\ UNCHANGED << pool, roots, signed_by, outcome, budget >>
      /\ frames' = Chain!Front(frames)
      /\ certs' = IF Len(frames) > 1 THEN Chain!Front(certs) ELSE certs
      /\ FileGiven /\ Linked /\ Framed /\ Concluded /\ signed_by = Chain!None
  BY DEF Chain!ComeBack, Chain!given, ChainInv, Chain!Walking, Chain!Leave
<1>2. FileGiven' /\ Chain!Chains' = Chain!Chains /\ Certificates' = Certificates
  BY <1>1 DEF FileGiven, Chain!Leaf, Certificates, Chain!Chains, Chain!IsChain
<1>3. /\ k \in Nat /\ k >= 1 /\ Len(frames) = k /\ Chain!Last(frames) = frames[k]
      /\ frames \in Seq(Seq(Certificates)) /\ frames # << >>
      /\ certs \in Seq(Chain!ToSet(pool)) /\ certs # << >>
  BY <1>0, <1>1, WalkingIs DEF Linked, Framed, Chain!Walking
<1>4. /\ frames' \in Seq(Seq(Certificates)) /\ Len(frames') = k - 1
      /\ \A i \in 1..(k - 1) : frames'[i] = frames[i]
  BY Zenon, <1>1, <1>3, FrontIs
<1>5. /\ certs' \in Seq(Chain!ToSet(pool)) /\ certs' # << >> /\ Len(certs') \in Nat
      /\ Len(certs') = k - 1 \/ (k = 1 /\ frames' = << >> /\ certs' = certs)
      /\ Len(certs') <= k /\ Len(certs') >= 1
      /\ \A i \in 1..Len(certs') : certs'[i] = certs[i]
  <2>1. CASE k > 1
    <3>1. /\ Chain!Front(certs) \in Seq(Chain!ToSet(pool)) /\ Len(Chain!Front(certs)) = k - 1
          /\ \A i \in 1..(k - 1) : Chain!Front(certs)[i] = certs[i]
      BY <1>0, <1>3, FrontIs
    <3>2. certs' = Chain!Front(certs) /\ k - 1 >= 1
      BY <1>1, <1>3, <2>1
    <3>3. Chain!Front(certs) # << >>
      BY <3>1, <3>2, EmptySeq
    <3> QED
      BY <1>3, <3>1, <3>2, <3>3
  <2>2. CASE k = 1
    <3>1. certs' = certs
      BY <1>1, <1>3, <2>2
    <3>2. frames' = << >>
      BY <1>4, <2>2, EmptySeq
    <3> QED
      BY Zenon, <1>0, <1>3, <2>2, <3>1, <3>2
  <2> QED
    BY <1>3, <2>1, <2>2
<1>6. Linked'
  <2>1. \A i \in 1..Len(certs') : i \in 1..k
    BY <1>3, <1>5
  <2>2. \A i \in 1..(Len(certs') - 1) : i \in 1..(k - 1) /\ i \in 1..Len(certs') /\ i + 1 \in 1..Len(certs')
    BY <1>3, <1>5
  <2>3. 1 \in 1..Len(certs') /\ Chain!Leaf' = Chain!Leaf
    BY <1>1, <1>5 DEF Chain!Leaf
  <2>4. \A i, j \in 1..Len(certs') : certs'[i] = certs'[j] => i = j
    BY <1>0, <1>1, <1>5, <2>1 DEF Linked
  <2>5. ASSUME NEW i \in 1..(Len(certs') - 1) PROVE certs'[i + 1].ca /\ Chain!Issued(certs'[i], certs'[i + 1])
    BY <1>0, <1>1, <1>5, <2>2 DEF Linked
  <2>6. certs'[1] = Chain!Leaf'
    BY <1>1, <1>5, <2>3 DEF Linked
  <2> QED
    BY <1>1, <1>5, <2>4, <2>5, <2>6 DEF Linked
<1>7. Framed'
  <2>1. ASSUME NEW i \in 1..(k - 1), NEW c \in Chain!ToSet(frames[i]) PROVE MayFollow(i, c)'
    <3>1. MayFollow(i, c) /\ i \in 1..k
      BY <1>1, <1>3, <2>1 DEF Framed
    <3>2. k > 1 /\ \A j \in 1..i : j \in 1..Len(certs')
      BY <1>3, <1>5
    <3>3. i \in 1..i
      BY <1>3
    <3> QED
      BY <1>1, <1>5, <3>1, <3>2, <3>3 DEF MayFollow
  <2>2. Len(frames') = Len(certs') \/ frames' = << >>
    BY <1>4, <1>5
  <2> QED
    BY Zenon, <1>2, <1>4, <2>1, <2>2 DEF Framed
<1>8. Concluded'
  BY <1>1 DEF Concluded
<1>9. ASSUME NEW p \in Chain!Chains, budget # 0 PROVE Ahead(p)'
  <2>1. Ahead(p) /\ Chain!Last(frames) = << >>
    BY <1>1, <1>9 DEF ChainInv, Found
  <2>2. PICK i \in 1..k : /\ i <= Len(p) /\ \A j \in 1..i : certs[j] = p[j]
                          /\ \E c \in Chain!ToSet(frames[i]) : LeadsOn(p, i, c)
    BY <1>3, <2>1 DEF Ahead
  <2>3. \A c : c \notin Chain!ToSet(<< >>)
    BY DEF Chain!ToSet
  <2>4. i # k
    BY Zenon, <1>3, <2>1, <2>2, <2>3
  <2>5. i \in 1..(k - 1) /\ \A j \in 1..i : j \in 1..Len(certs')
    BY <1>3, <1>5, <2>4
  <2> QED
    BY ZenonT(40), <1>1, <1>4, <1>5, <2>2, <2>5 DEF Ahead, LeadsOn
<1> QED
  BY <1>1, <1>2, <1>6, <1>7, <1>8, <1>9 DEF ChainInv, Found

(* With nothing left to try, nothing is ahead.                              *)
LEMMA GiveUpKeeps == ChainInv /\ Chain!GiveUp => ChainInv'
<1> SUFFICES ASSUME ChainInv, Chain!GiveUp PROVE ChainInv'
  OBVIOUS
<1> DEFINE kind == CASE Chain!Exhausted -> "Uncheckable"
                     [] ~Chain!Exhausted /\ uncheckable -> "Uncheckable"
                     [] ~Chain!Exhausted /\ ~uncheckable /\ broken -> "Broken"
                     [] OTHER -> IF Chain!SelfIssued(Chain!Last(deepest)) THEN "SelfSignedTop"
                                 ELSE "Incomplete"
<1>1. /\ UNCHANGED << pool, roots, certs, frames, budget, outcome >>
      /\ signed_by = Chain!None /\ frames = << >> /\ signed_by' = [kind |-> kind]
      /\ FileGiven /\ Linked /\ Framed /\ Concluded
  BY DEF Chain!GiveUp, Chain!given, ChainInv, Found
<1>2. /\ kind \in {"Uncheckable", "Broken", "SelfSignedTop", "Incomplete"}
      /\ Chain!Exhausted => kind = "Uncheckable"
  OBVIOUS
<1> HIDE DEF kind
<1>3. FileGiven' /\ Linked' /\ Framed' /\ Chain!Chains' = Chain!Chains
  BY <1>1 DEF FileGiven, Linked, Framed, Chain!Leaf, MayFollow, Certificates,
     Chain!Chains, Chain!IsChain
<1>4. signed_by' # Chain!None /\ signed_by'.kind = kind /\ kind # "Reached"
  BY <1>1, <1>2 DEF Chain!None
<1>5. Concluded'
  BY <1>1, <1>2, <1>4 DEF Concluded, Chain!Exhausted
<1>6. ASSUME NEW p \in Chain!Chains PROVE budget = 0
  <2>1. budget = 0 \/ Ahead(p)
    BY <1>1 DEF ChainInv, Found
  <2>2. ~Ahead(p)
    BY <1>1, EmptySeq DEF Ahead
  <2> QED
    BY <2>1, <2>2
<1> QED
  BY <1>1, <1>3, <1>5, <1>6 DEF ChainInv, Found

(* The outcome is read off what was found.                                  *)
LEMMA ConcludeKeeps == ChainInv /\ Chain!Conclude => ChainInv'
<1> SUFFICES ASSUME ChainInv, Chain!Conclude PROVE ChainInv'
  OBVIOUS
<1>1. /\ UNCHANGED << pool, roots, certs, frames, budget, signed_by >>
      /\ signed_by # Chain!None
      /\ signed_by.kind = "Uncheckable" => outcome' = "Unknown"
      /\ FileGiven /\ Linked /\ Framed /\ Concluded
  BY DEF Chain!Conclude, Chain!given, ChainInv, Found
<1>2. FileGiven' /\ Linked' /\ Framed' /\ Chain!Chains' = Chain!Chains
  BY <1>1 DEF FileGiven, Linked, Framed, Chain!Leaf, MayFollow, Certificates,
     Chain!Chains, Chain!IsChain
<1>3. Concluded'
  BY <1>1, <1>2 DEF Concluded
<1>4. \A p \in Chain!Chains : Ahead(p) => Ahead(p)'
  BY <1>1 DEF Ahead, LeadsOn
<1> QED
  BY <1>1, <1>2, <1>3, <1>4 DEF ChainInv, Found

(* And a step of something else changes nothing of it.                      *)
LEMMA UnchangedChain == ChainInv /\ UNCHANGED Chain!vars => ChainInv'
<1> SUFFICES ASSUME ChainInv, UNCHANGED Chain!vars PROVE ChainInv'
  OBVIOUS
<1>1. UNCHANGED << pool, roots, certs, frames, budget, signed_by, outcome >>
  BY DEF Chain!vars, Chain!given
<1>2. FileGiven' /\ Linked' /\ Framed' /\ Chain!Chains' = Chain!Chains
  BY <1>1 DEF ChainInv, Found, FileGiven, Linked, Framed, Chain!Leaf, MayFollow,
     Certificates, Chain!Chains, Chain!IsChain
<1>3. Concluded'
  BY <1>1, <1>2 DEF ChainInv, Concluded
<1>4. \A p \in Chain!Chains : Ahead(p) => Ahead(p)'
  BY Zenon, <1>1 DEF Ahead, LeadsOn
<1> QED
  BY <1>1, <1>2, <1>3, <1>4 DEF ChainInv, Found

(* It holds of the runs a chain is looked for in.                           *)
LEMMA ChainInvHolds == MCSpec => [](part = "chain" => ChainInv)
<1> DEFINE Inv == part = "chain" => ChainInv
<1>1. MCInit => Inv
  BY InitChainInv DEF MCInit
<1>2. Inv /\ [MCNext]_<< part, vars, grouping, stages, signer, score, journal >> => Inv'
  <2> SUFFICES ASSUME part = "chain" => ChainInv, part' = "chain",
                      [MCNext]_<< part, vars, grouping, stages, signer, score, journal >>
               PROVE  ChainInv'
    OBVIOUS
  <2>1. part = "chain" /\ (Chain!Next \/ UNCHANGED signer)
    BY DEF MCNext
  <2>2. CASE UNCHANGED signer
    BY <2>1, <2>2, UnchangedChain DEF signer, Chain!vars, Chain!given, Chain!notes
  <2>3. CASE Chain!Next
    BY <2>1, <2>3, ReachRootKeeps, ClimbKeeps, NotIssuedKeeps, ComeBackKeeps, GiveUpKeeps,
       ConcludeKeeps DEF Chain!Next
  <2> QED
    BY <2>1, <2>2, <2>3
<1> QED
  BY <1>1, <1>2, PTL DEF MCSpec

(* A signer is vouched for by a chain to a root, and every one that has a   *)
(* chain no longer than the walk goes is found, unless the work was spent,  *)
(* and then nothing is concluded.                                           *)
THEOREM ChainCorrect == MCSpec => []ChainsAreFound
<1>1. ChainInv => Chain!ChainsAreFound
  <2> SUFFICES ASSUME ChainInv, outcome # "none"
               PROVE  /\ signed_by.kind = "Reached" => signed_by.path \in Chain!Chains
                      /\ Chain!Chains # {} => signed_by.kind = "Reached" \/ budget = 0
                      /\ budget = 0 /\ signed_by.kind # "Reached" => outcome = "Unknown"
    BY DEF Chain!ChainsAreFound
  <2>1. signed_by # Chain!None /\ (signed_by.kind # "Reached" => frames = << >>) /\ Concluded
    BY DEF ChainInv, Concluded
  <2>2. ASSUME NEW p \in Chain!Chains PROVE signed_by.kind = "Reached" \/ budget = 0
    <3>1. frames = << >> => ~Ahead(p)
      BY EmptySeq DEF Ahead
    <3> QED
      BY <2>1, <3>1 DEF ChainInv, Found
  <2> QED
    BY <2>1, <2>2 DEF Concluded
<1>2. (part = "chain" => ChainInv) => ChainsAreFound
  BY <1>1 DEF ChainsAreFound
<1> QED
  BY <1>2, ChainInvHolds, PTL

-----------------------------------------------------------------------------
Behind(i) == rows[i].at + rows[i].length

(* Every record is one, and what it has of a file is a name of a file.      *)
Filed ==
    /\ mft \in [Journal!RecordNumbers -> Journal!FileRecord]
    /\ \A r \in Journal!RecordNumbers : mft[r].dir \/ mft[r].name \in Journal!FileNames

(* Rows are records one after the other, each no longer than allowed.       *)
Written ==
    /\ Len(rows) \in Nat /\ rows = [i \in 1..Len(rows) |-> rows[i]]
    /\ \A i \in 1..Len(rows) :
         /\ {"at", "length", "moved"} \subseteq DOMAIN rows[i]
         /\ rows[i] = [x \in DOMAIN rows[i] |-> rows[i][x]]
         /\ rows[i].at \in Nat /\ rows[i].length \in 1..(Overlap + 1)
    /\ \A i, j \in 1..Len(rows) : i < j => Behind(i) <= rows[j].at
    /\ first \in Nat
    /\ first = 0 \/ \E k \in 1..Len(rows) : first = rows[k].at

(* The first n of the rows that are left, those behind the first g.         *)
ReadSoFar(g, n) ==
    /\ g \in 0..Len(rows) /\ n \in 0..(Len(rows) - g)
    /\ \A i \in 1..Len(rows) : rows[i].at >= first <=> i > g
    /\ records = [j \in 1..n |-> g + j]

(* A window behind which a row ends has shown all of it, and what is kept   *)
(* of it begins before any that does not.                                   *)
InReading(g, n) ==
    /\ at \in Nat /\ from \in Nat /\ first <= at /\ at <= Journal!End /\ from <= at
    /\ cuts = {} \/ \E c \in 1..Journal!End : c < Journal!End /\ cuts = {c}
    /\ truncated = "no"
    /\ \A i \in 1..Len(rows) :
         /\ i > g /\ i <= g + n => Behind(i) <= at
         /\ i > g + n => Behind(i) > at /\ rows[i].at >= from

JournalInv ==
    /\ Filed /\ Written
    /\ phase \in {"in use", "reading", "read", "harvest", "done"}
    /\ phase = "in use" => records = << >> /\ truncated = "no"
    /\ phase # "in use" => \E g, n \in 0..Len(rows) :
         /\ ReadSoFar(g, n)
         /\ phase = "reading" => InReading(g, n)
         /\ phase # "reading" /\ truncated = "no" => n = Len(rows) - g

-----------------------------------------------------------------------------
(* A run of numbers, one longer.                                            *)
LEMMA RunGrows ==
    ASSUME NEW a \in Nat, NEW c \in Nat
    PROVE  Append([j \in 1..c |-> a + j], a + c + 1) = [j \in 1..(c + 1) |-> a + j]
<1> DEFINE s == [j \in 1..c |-> a + j]
           t == [j \in 1..(c + 1) |-> a + j]
<1>1. s \in [1..c -> Nat] /\ t \in [1..(c + 1) -> Nat]
  OBVIOUS
<1>2. s \in Seq(Nat) /\ Len(s) = c /\ t \in Seq(Nat) /\ Len(t) = c + 1
  BY <1>1
<1>3. \A j \in 1..c : s[j] = a + j
  OBVIOUS
<1>4. \A j \in 1..(c + 1) : t[j] = a + j
  OBVIOUS
<1> HIDE DEF s, t
<1>5. Append(s, a + c + 1) \in Seq(Nat) /\ Len(Append(s, a + c + 1)) = c + 1
  BY <1>2
<1>6. \A j \in 1..(c + 1) : Append(s, a + c + 1)[j] = t[j]
  BY <1>2, <1>3, <1>4
<1>7. Append(s, a + c + 1) = t
  BY <1>2, <1>5, <1>6, SeqEqual
<1> QED
  BY <1>7 DEF s, t

(* The numbers behind a and up to b, in order, are the run of them.         *)
LEMMA InOrderIs ==
    ASSUME Len(rows) \in Nat, NEW a \in Nat, NEW b \in Nat, a <= b, b <= Len(rows),
           NEW set, \A i \in 1..Len(rows) : i \in set <=> (a < i /\ i <= b)
    PROVE  Journal!InOrder(set) = [j \in 1..(b - a) |-> a + j]
<1> DEFINE N == Len(rows)
           Step(f, i) == IF i = 0 THEN << >>
                         ELSE IF i \in set THEN Append(f[i - 1], i) ELSE f[i - 1]
           Upto(f) == f = [i \in 0..N |-> Step(f, i)]
           count(i) == IF i <= a THEN 0 ELSE IF i <= b THEN i - a ELSE b - a
           run(i) == [j \in 1..count(i) |-> a + j]
           g == [i \in 0..N |-> run(i)]
<1>1. Journal!InOrder(set) = (CHOOSE f : Upto(f))[N]
  BY DEF Journal!InOrder
<1>2. run(0) = << >>
  OBVIOUS
<1>3. ASSUME NEW i \in 1..N
      PROVE  run(i) = IF i \in set THEN Append(run(i - 1), i) ELSE run(i - 1)
  <2>1. CASE i \in set
    <3>1. count(i - 1) = i - 1 - a /\ count(i) = i - a /\ i - 1 - a \in Nat
      BY <2>1
    <3>2. Append([j \in 1..(i - 1 - a) |-> a + j], a + (i - 1 - a) + 1)
            = [j \in 1..((i - 1 - a) + 1) |-> a + j]
      <4> HIDE DEF count, run, N, g, Upto, Step
      <4> QED
        BY <3>1, RunGrows
    <3>3. a + (i - 1 - a) + 1 = i /\ (i - 1 - a) + 1 = i - a
      OBVIOUS
    <3> QED
      BY <2>1, <3>1, <3>2, <3>3
  <2>2. CASE i \notin set
    <3>1. count(i) = count(i - 1)
      BY <2>2
    <3> QED
      BY <2>2, <3>1
  <2> QED
    BY <2>1, <2>2
<1>4. \A i \in 0..N : g[i] = run(i)
  OBVIOUS
<1> HIDE DEF count, run
<1>5. Upto(g)
  <2>1. ASSUME NEW i \in 0..N PROVE g[i] = Step(g, i)
    <3>1. CASE i = 0
      BY <1>2, <3>1
    <3>2. CASE i # 0
      <4>1. i \in 1..N /\ i - 1 \in 0..N
        BY <3>2
      <4>2. g[i - 1] = run(i - 1) /\ g[i] = run(i)
        BY <1>4, <4>1
      <4> HIDE DEF g
      <4> QED
        BY <1>3, <3>2, <4>1, <4>2
    <3> QED
      BY Zenon, <3>1, <3>2
  <2>2. g = [i \in 0..N |-> g[i]]
    OBVIOUS
  <2> HIDE DEF g, Step
  <2> QED
    BY <2>1, <2>2
<1> DEFINE f == CHOOSE h : Upto(h)
           Fails == { i \in 0..N : f[i] # run(i) }
<1>6. Upto(f)
  <2> HIDE DEF Upto, g
  <2> QED
    BY <1>5
<1>7. \A i \in 0..N : f[i] = Step(f, i)
  <2> HIDE DEF f, Step
  <2> QED
    BY <1>6
<1> HIDE DEF f
<1>8. Fails = {}
  <2> SUFFICES ASSUME Fails # {} PROVE FALSE
    OBVIOUS
  <2>1. PICK n \in Fails : \A m \in Fails : n <= m
    <3>1. Fails \subseteq Nat
      OBVIOUS
    <3> HIDE DEF Fails
    <3> QED
      BY Zenon, <3>1, AnyPipe!LeastFailure
  <2>2. n \in 0..N /\ f[n] # run(n)
    OBVIOUS
  <2>3. n # 0
    BY <1>2, <1>7, <2>2
  <2>4. n \in 1..N /\ n - 1 \in 0..N /\ n - 1 \notin Fails
    <3> HIDE DEF Fails
    <3> QED
      BY <2>1, <2>2, <2>3
  <2>5. f[n - 1] = run(n - 1)
    BY <2>4
  <2>6. f[n] = Step(f, n)
    BY <1>7, <2>2
  <2> QED
    BY <1>3, <2>2, <2>3, <2>4, <2>5, <2>6
<1>9. f[N] = run(N)
  BY <1>8
<1>10. count(N) = b - a
  BY DEF count
<1> QED
  BY <1>1, <1>9, <1>10 DEF f, run

-----------------------------------------------------------------------------
(* The journal ends where its last row does.                                *)
LEMMA EndIs ==
    ASSUME Written
    PROVE  /\ Journal!End \in Nat /\ first <= Journal!End
           /\ \A i \in 1..Len(rows) : Behind(i) <= Journal!End
           /\ rows = << >> => Len(rows) = 0
<1>1. rows = << >> <=> Len(rows) = 0
  BY DEF Written
<1>2. CASE rows = << >>
  BY <1>1, <1>2 DEF Written, Journal!End
<1>3. CASE rows # << >>
  <2>1. Len(rows) \in 1..Len(rows) /\ Journal!End = Behind(Len(rows))
    BY <1>1, <1>3 DEF Written, Journal!End, Behind, Journal!Last
  <2>2. \A i \in 1..Len(rows) : Behind(i) \in Nat /\ rows[i].at <= Behind(i)
    BY DEF Written, Behind
  <2>3. \A i \in 1..Len(rows) : Behind(i) <= Journal!End
    <3> SUFFICES ASSUME NEW i \in 1..Len(rows), i # Len(rows) PROVE Behind(i) <= Journal!End
      BY <2>1, <2>2
    <3>1. Behind(i) <= rows[Len(rows)].at
      BY <2>1 DEF Written
    <3> QED
      BY <2>1, <2>2, <3>1 DEF Written
  <2>4. first <= Journal!End
    BY <2>1, <2>2, <2>3 DEF Written
  <2> QED
    BY <1>1, <2>1, <2>2, <2>3, <2>4
<1> QED
  BY <1>2, <1>3

(* One more row at the end.                                                 *)
LEMMA RowWritten ==
    ASSUME Written, NEW row,
           {"at", "length", "moved"} \subseteq DOMAIN row,
           row = [x \in DOMAIN row |-> row[x]],
           row.at = Journal!End, row.length \in 1..(Overlap + 1),
           rows' = Append(rows, row), first' = first
    PROVE  Written'
<1> DEFINE S == { rows[i] : i \in 1..Len(rows) } \cup {row}
           n == Len(rows)
<1>1. n \in Nat /\ rows \in Seq(S)
  <2>1. rows = [i \in 1..n |-> rows[i]] /\ n \in Nat
    BY DEF Written
  <2>2. \A i \in 1..n : rows[i] \in S
    OBVIOUS
  <2> HIDE DEF S, n
  <2>3. rows \in [1..n -> S]
    BY <2>1, <2>2, Zenon
  <2> QED
    BY <2>1, <2>3
<1>2. /\ rows' \in Seq(S) /\ Len(rows') = n + 1 /\ rows'[n + 1] = row
      /\ \A i \in 1..n : rows'[i] = rows[i]
  <2>1. row \in S
    OBVIOUS
  <2> HIDE DEF S
  <2> QED
    BY <1>1, <2>1
<1>3. rows' = [i \in 1..Len(rows') |-> rows'[i]]
  <2> HIDE DEF S, n
  <2>1. rows' \in [1..Len(rows') -> S]
    BY Zenon, <1>2, LenProperties
  <2> QED
    BY <2>1, Zenon
<1> HIDE DEF S
<1>4. \A i \in 1..(n + 1) : i \in 1..n \/ i = n + 1
  BY <1>1
<1>5. \A i \in 1..Len(rows') :
         /\ {"at", "length", "moved"} \subseteq DOMAIN rows'[i]
         /\ rows'[i] = [x \in DOMAIN rows'[i] |-> rows'[i][x]]
         /\ rows'[i].at \in Nat /\ rows'[i].length \in 1..(Overlap + 1)
  <2>1. ASSUME NEW i \in 1..n
        PROVE  /\ {"at", "length", "moved"} \subseteq DOMAIN rows[i]
               /\ rows[i] = [x \in DOMAIN rows[i] |-> rows[i][x]]
               /\ rows[i].at \in Nat /\ rows[i].length \in 1..(Overlap + 1)
    BY DEF Written
  <2>2. Journal!End \in Nat
    BY EndIs
  <2> HIDE DEF n
  <2> QED
    BY <1>2, <1>4, <2>1, <2>2
<1>6. \A i, j \in 1..Len(rows') : i < j => rows'[i].at + rows'[i].length <= rows'[j].at
  <2>1. \A i \in 1..n : Behind(i) <= Journal!End
    BY EndIs
  <2>2. \A i, j \in 1..n : i < j => Behind(i) <= rows[j].at
    BY DEF Written
  <2> HIDE DEF n
  <2>3. ASSUME NEW i \in 1..(n + 1), NEW j \in 1..(n + 1), i < j
        PROVE  rows'[i].at + rows'[i].length <= rows'[j].at
    <3>1. i \in 1..n
      BY <1>1, <2>3
    <3> QED
      BY <1>1, <1>2, <1>4, <2>1, <2>2, <2>3, <3>1 DEF Behind
  <2> QED
    BY <1>2, <2>3
<1>7. first' \in Nat /\ (first' = 0 \/ \E k \in 1..Len(rows') : first' = rows'[k].at)
  <2>1. first \in Nat /\ (first = 0 \/ \E k \in 1..n : first = rows[k].at)
    BY DEF Written
  <2> HIDE DEF n
  <2>2. \A k \in 1..n : k \in 1..Len(rows') /\ rows'[k].at = rows[k].at
    BY <1>1, <1>2
  <2> QED
    BY <2>1, <2>2
<1>8. Len(rows') \in Nat
  BY <1>1, <1>2
<1>9. \A i, j \in 1..Len(rows') : i < j => Behind(i)' <= rows'[j].at
  BY <1>6 DEF Behind
<1> HIDE DEF n
<1> QED
  BY ONLY <1>3, <1>5, <1>7, <1>8, <1>9 DEF Written

(* The row NTFS writes is such a row.                                       *)
LEMMA RowIs ==
    ASSUME NEW reasons, NEW r, NEW seq, NEW parent, NEW leaf \in Journal!FileNames, NEW when
    PROVE  LET row == Journal!Row(reasons, r, seq, parent, leaf, when)
           IN  /\ {"at", "length", "moved"} \subseteq DOMAIN row
               /\ row = [x \in DOMAIN row |-> row[x]]
               /\ row.at = Journal!End /\ row.length \in 1..(Overlap + 1)
  BY Zenon, JournalAssumption DEF Journal!Row, Journal!OverlapAssumption, Journal!FileNames

(* In use, rows are added at the end, and the journal begins at one.        *)
LEMMA InUseKeeps ==
    ASSUME JournalInv,
           \/ \E r \in Journal!RecordNumbers, parent \in Journal!LiveDirs \cup {Journal!Root} :
                \/ \E leaf \in Journal!FileNames, when \in 1 .. MaxTime :
                     Journal!Create(r, leaf, parent, when) \/ Journal!CreateAndDelete(r, leaf, parent, when)
                \/ \E leaf \in DirectoryNames : Journal!MakeDirectory(r, leaf, parent)
           \/ \E r \in Journal!RecordNumbers :
                \/ \E when \in 1 .. MaxTime : Journal!Delete(r, when)
                \/ Journal!RemoveDirectory(r)
                \/ \E leaf \in DirectoryNames : Journal!RenameDirectory(r, leaf)
           \/ Journal!Trim
    PROVE  JournalInv'
<1>1. /\ phase = "in use" /\ phase' = phase /\ records' = records
      /\ truncated' = truncated
  BY ZenonT(40) DEF Journal!Create, Journal!CreateAndDelete, Journal!MakeDirectory,
     Journal!Delete, Journal!RemoveDirectory, Journal!RenameDirectory,
     Journal!Trim, Journal!Change, Journal!InUse, Journal!reading
<1>2. records = << >> /\ truncated = "no" /\ Filed /\ Written
  BY Zenon, <1>1 DEF JournalInv
<1> SUFFICES Filed' /\ Written'
  BY Zenon, <1>1, <1>2 DEF JournalInv
<1>3. \A p \in Journal!LiveDirs \cup {Journal!Root} : p \in Journal!RecordNumbers \cup {Journal!Root} /\ Journal!SequenceOf(p) \in Nat
  BY <1>2 DEF Journal!LiveDirs, Journal!SequenceOf, Filed, Journal!FileRecord
<1>4. ASSUME NEW r \in Journal!RecordNumbers, NEW dir \in BOOLEAN,
             NEW leaf \in Journal!FileNames \cup DirectoryNames,
             NEW p \in Journal!LiveDirs \cup {Journal!Root}, dir \/ leaf \in Journal!FileNames,
             mft' = Journal!Made(r, dir, leaf, p)
      PROVE  Filed'
  <2> DEFINE new == [mft[r] EXCEPT !.in_use = TRUE, !.dir = dir, !.name = leaf,
                                   !.parent = p, !.parent_seq = Journal!SequenceOf(p)]
  <2>1. mft[r] \in Journal!FileRecord
    BY <1>2 DEF Filed
  <2>2. new \in Journal!FileRecord /\ new.dir = dir /\ new.name = leaf
    BY Zenon, <1>3, <1>4, <2>1 DEF Journal!FileRecord
  <2>3. mft' = [mft EXCEPT ![r] = new]
    BY <1>4 DEF Journal!Made
  <2> HIDE DEF new
  <2> QED
    BY <1>2, <1>4, <2>2, <2>3 DEF Filed
<1>5. ASSUME NEW r \in Journal!RecordNumbers, mft' = Journal!Freed(r) PROVE Filed'
  <2> DEFINE new == [mft[r] EXCEPT !.seq = @ + 1]
             freed == [new EXCEPT !.in_use = FALSE]
  <2>1. mft[r] \in Journal!FileRecord
    BY <1>2 DEF Filed
  <2>2. mft' \in [Journal!RecordNumbers -> Journal!FileRecord] /\ \A q \in Journal!RecordNumbers : mft'[q].dir = mft[q].dir
           /\ mft'[q].name = mft[q].name
    BY <1>2, <1>5, <2>1 DEF Filed, Journal!Freed, Journal!FileRecord
  <2> QED
    BY <1>2, <2>2 DEF Filed
<1>6. ASSUME NEW r \in Journal!RecordNumbers, mft' = [mft EXCEPT ![r].seq = @ + 1] PROVE Filed'
  <2>1. mft[r] \in Journal!FileRecord
    BY <1>2 DEF Filed
  <2>2. mft' \in [Journal!RecordNumbers -> Journal!FileRecord] /\ \A q \in Journal!RecordNumbers : mft'[q].dir = mft[q].dir
           /\ mft'[q].name = mft[q].name
    BY SMTT(30), <1>2, <1>6, <2>1 DEF Filed, Journal!FileRecord
  <2> QED
    BY <1>2, <2>2 DEF Filed
<1>7. rows' = rows /\ first' = first => Written'
  BY <1>2 DEF Written, Behind
<1>8. ASSUME NEW reasons, NEW r, NEW seq, NEW parent, NEW leaf \in Journal!FileNames, NEW when,
             Journal!Write(Journal!Row(reasons, r, seq, parent, leaf, when))
      PROVE  Written'
  <2> DEFINE row == Journal!Row(reasons, r, seq, parent, leaf, when)
  <2>1. /\ {"at", "length", "moved"} \subseteq DOMAIN row
        /\ row = [x \in DOMAIN row |-> row[x]]
        /\ row.at = Journal!End /\ row.length \in 1..(Overlap + 1)
    BY RowIs
  <2>2. rows' = Append(rows, row) /\ first' = first
    BY <1>8 DEF Journal!Write
  <2> HIDE DEF row
  <2> QED
    BY <1>2, <2>1, <2>2, RowWritten
<1>9. ASSUME NEW r \in Journal!RecordNumbers, NEW p \in Journal!LiveDirs \cup {Journal!Root},
             NEW leaf \in Journal!FileNames, NEW when, Journal!Create(r, leaf, p, when)
      PROVE  Filed' /\ Written'
  BY Zenon, <1>4, <1>8, <1>9 DEF Journal!Create
<1>10. ASSUME NEW r \in Journal!RecordNumbers, NEW p \in Journal!LiveDirs \cup {Journal!Root},
              NEW leaf \in Journal!FileNames, NEW when, Journal!CreateAndDelete(r, leaf, p, when)
       PROVE  Filed' /\ Written'
  BY Zenon, <1>6, <1>8, <1>10 DEF Journal!CreateAndDelete
<1>11. ASSUME NEW r \in Journal!RecordNumbers, NEW p \in Journal!LiveDirs \cup {Journal!Root},
              NEW leaf \in DirectoryNames, Journal!MakeDirectory(r, leaf, p)
       PROVE  Filed' /\ Written'
  BY Zenon, <1>4, <1>7, <1>11 DEF Journal!MakeDirectory, Journal!Change
<1>12. ASSUME NEW r \in Journal!RecordNumbers, NEW when, Journal!Delete(r, when)
       PROVE  Filed' /\ Written'
  <2>1. mft[r].name \in Journal!FileNames
    BY <1>2, <1>12 DEF Filed, Journal!Delete
  <2> QED
    BY <1>5, <1>8, <1>12, <2>1 DEF Journal!Delete
<1>13. ASSUME NEW r \in Journal!RecordNumbers, Journal!RemoveDirectory(r)
       PROVE  Filed' /\ Written'
  BY <1>5, <1>7, <1>13 DEF Journal!RemoveDirectory, Journal!Change
<1>14. ASSUME NEW r \in Journal!RecordNumbers, NEW leaf \in DirectoryNames, Journal!RenameDirectory(r, leaf)
       PROVE  Filed' /\ Written'
  <2>1. mft' = [mft EXCEPT ![r].name = leaf] /\ first' = first /\ r \in Journal!LiveDirs
    BY <1>14 DEF Journal!RenameDirectory, Journal!Change
  <2>2. mft[r] \in Journal!FileRecord /\ mft[r].dir
    BY <1>2, <2>1 DEF Filed, Journal!LiveDirs
  <2>3. Filed'
    <3>1. mft' \in [Journal!RecordNumbers -> Journal!FileRecord]
      BY <1>2, <2>1, <2>2 DEF Filed, Journal!FileRecord
    <3>2. \A q \in Journal!RecordNumbers : q # r => mft'[q] = mft[q]
      BY <1>2, <2>1 DEF Filed
    <3>3. mft'[r].dir
      BY <1>2, <2>1, <2>2 DEF Filed, Journal!FileRecord
    <3> QED
      BY <1>2, <3>1, <3>2, <3>3 DEF Filed
  <2> DEFINE mark(i) == rows[i].moved \/ Journal!Below(rows[i], r)
             new(i) == [rows[i] EXCEPT !.moved = mark(i)]
  <2>4. rows' = [i \in DOMAIN rows |-> new(i)]
    BY <1>14 DEF Journal!RenameDirectory
  <2> HIDE DEF mark
  <2>5. Len(rows) \in Nat /\ DOMAIN rows = 1..Len(rows)
    BY <1>2 DEF Written
  <2>6. ASSUME NEW i \in 1..Len(rows)
        PROVE  /\ DOMAIN new(i) = DOMAIN rows[i] /\ new(i) = [x \in DOMAIN new(i) |-> new(i)[x]]
               /\ new(i).at = rows[i].at /\ new(i).length = rows[i].length
    BY <1>2 DEF Written
  <2> HIDE DEF new
  <2>7. Len(rows') = Len(rows) /\ DOMAIN rows' = 1..Len(rows)
    BY <2>4, <2>5
  <2>8. \A i \in 1..Len(rows) : rows'[i] = new(i)
    BY <2>4, <2>5
  <2>9. rows' = [i \in 1..Len(rows) |-> rows'[i]]
    BY <2>4, <2>5
  <2>10. Written'
    <3>1. \A i \in 1..Len(rows) :
            /\ {"at", "length", "moved"} \subseteq DOMAIN rows'[i]
            /\ rows'[i] = [x \in DOMAIN rows'[i] |-> rows'[i][x]]
            /\ rows'[i].at = rows[i].at /\ rows'[i].length = rows[i].length
      BY <1>2, <2>6, <2>8 DEF Written
    <3> QED
      BY <1>2, <2>1, <2>5, <2>7, <2>9, <3>1 DEF Written, Behind
  <2> QED
    BY <2>3, <2>10
<1>15. CASE Journal!Trim
  <2>1. rows' = rows /\ mft' = mft /\ \E i \in DOMAIN rows : first' = rows[i].at
    BY <1>15 DEF Journal!Trim
  <2>2. DOMAIN rows = 1..Len(rows)
    BY <1>2 DEF Written
  <2> QED
    BY <1>2, <2>1, <2>2 DEF Filed, Written, Behind
<1> QED
  BY <1>9, <1>10, <1>11, <1>12, <1>13, <1>14, <1>15

-----------------------------------------------------------------------------
Run(g, n) == [j \in 1..n |-> g + j]

(* Runs of numbers: joined, cut short, and as sets.                         *)
LEMMA RunsJoin ==
    ASSUME NEW g \in Nat, NEW n \in Nat, NEW m \in Nat
    PROVE  /\ Run(g, n) \o Run(g + n, m) = Run(g, n + m)
           /\ Len(Run(g, n)) = n
           /\ \A k \in 0..n : SubSeq(Run(g, n), 1, k) = Run(g, k)
           /\ \A i : i \in Journal!ToSet(Run(g, n)) <=> i \in (g + 1)..(g + n)
<1>1. ASSUME NEW a \in Nat, NEW k \in Nat
      PROVE  Run(a, k) \in Seq(Nat) /\ Len(Run(a, k)) = k /\ \A j \in 1..k : Run(a, k)[j] = a + j
  <2>1. Run(a, k) \in [1..k -> Nat]
    BY DEF Run
  <2> QED
    BY <2>1 DEF Run
<1>2. Run(g, n) \o Run(g + n, m) = Run(g, n + m)
  <2> DEFINE s == Run(g, n)
             t == Run(g + n, m)
             u == Run(g, n + m)
  <2>0. g + n \in Nat /\ n + m \in Nat
    OBVIOUS
  <2>1. /\ s \in Seq(Nat) /\ Len(s) = n /\ \A j \in 1..n : s[j] = g + j
        /\ t \in Seq(Nat) /\ Len(t) = m /\ \A j \in 1..m : t[j] = g + n + j
        /\ u \in Seq(Nat) /\ Len(u) = n + m /\ \A j \in 1..(n + m) : u[j] = g + j
    BY Zenon, <1>1, <2>0
  <2> HIDE DEF s, t, u
  <2>2. s \o t \in Seq(Nat) /\ Len(s \o t) = n + m
    BY Zenon, <2>1, ConcatProperties
  <2>3. \A j \in 1..(n + m) : (s \o t)[j] = u[j]
    <3>1. \A j \in 1..(n + m) : (s \o t)[j] = IF j <= n THEN s[j] ELSE t[j - n]
      BY ZenonT(40), <2>1, ConcatProperties
    <3> SUFFICES ASSUME NEW j \in 1..(n + m) PROVE (s \o t)[j] = u[j]
      BY Zenon
    <3>2. (s \o t)[j] = IF j <= n THEN s[j] ELSE t[j - n]
      BY Zenon, <3>1
    <3>3. u[j] = g + j
      BY <2>1
    <3>4. CASE j <= n
      BY <2>1, <3>2, <3>3, <3>4
    <3>5. CASE j > n
      <4>1. j - n \in 1..m /\ g + n + (j - n) = g + j
        BY <3>5
      <4>2. t[j - n] = g + n + (j - n)
        BY <2>1, <4>1
      <4> QED
        BY <3>2, <3>3, <3>5, <4>1, <4>2
    <3>6. j <= n \/ j > n
      OBVIOUS
    <3> QED
      BY <3>4, <3>5, <3>6, Zenon
  <2>4. s \o t = u
    BY Zenon, <2>1, <2>2, <2>3, SeqEqual
  <2> QED
    BY <2>4 DEF s, t, u
<1>3. ASSUME NEW k \in 0..n PROVE SubSeq(Run(g, n), 1, k) = Run(g, k)
  <2> DEFINE s == Run(g, n)
             u == Run(g, k)
  <2>0. k \in Nat /\ 1 \in Int /\ k - 1 + 1 = k /\ \A i \in 1..k : i \in 1..n
    OBVIOUS
  <2>1. /\ s \in Seq(Nat) /\ Len(s) = n /\ \A j \in 1..n : s[j] = g + j
        /\ u \in Seq(Nat) /\ Len(u) = k /\ \A j \in 1..k : u[j] = g + j
    BY Zenon, <1>1, <2>0
  <2> HIDE DEF s, u
  <2>a. \A i \in 1..k : s[i] \in Nat
    BY <2>0, <2>1
  <2>2. SubSeq(s, 1, k) \in Seq(Nat) /\ Len(SubSeq(s, 1, k)) = k
    BY <2>0, <2>1, <2>a, SubSeqProperties
  <2>3. \A j \in 1..k : SubSeq(s, 1, k)[j] = u[j]
    BY <2>0, <2>1, <2>a, SubSeqProperties
  <2>4. SubSeq(s, 1, k) = u
    BY <2>1, <2>2, <2>3, SeqEqual
  <2> QED
    BY <2>4 DEF s, u
<1>4. ASSUME NEW i PROVE i \in Journal!ToSet(Run(g, n)) <=> i \in (g + 1)..(g + n)
  <2>1. i \in (g + 1)..(g + n) => i - g \in 1..n /\ g + (i - g) = i
    OBVIOUS
  <2> QED
    BY <2>1 DEF Journal!ToSet, Run
<1> QED
  BY Zenon, <1>1, <1>2, <1>3, <1>4

(* Of the rows that are left, those read are the first of them.             *)
LEMMA StandingIs ==
    ASSUME Written, NEW g, NEW n, ReadSoFar(g, n)
    PROVE  /\ Journal!Standing = Run(g, Len(rows) - g)
           /\ records = Run(g, n) /\ records = SubSeq(Journal!Standing, 1, Len(records))
<1>1. /\ Len(rows) \in Nat /\ g \in Nat /\ n \in Nat /\ g <= Len(rows)
      /\ Len(rows) - g \in Nat /\ n \in 0..(Len(rows) - g)
  BY DEF Written, ReadSoFar
<1>2. \A i \in 1..Len(rows) : i \in Journal!Left <=> g < i /\ i <= Len(rows)
  <2>1. DOMAIN rows = 1..Len(rows)
    BY DEF Written
  <2> QED
    BY <1>1, <2>1 DEF Journal!Left, ReadSoFar
<1>3. Journal!Standing = Run(g, Len(rows) - g)
  BY <1>1, <1>2, InOrderIs DEF Journal!Standing, Run
<1>4. records = Run(g, n)
  BY DEF ReadSoFar, Run
<1>5. Len(Run(g, n)) = n /\ SubSeq(Run(g, Len(rows) - g), 1, n) = Run(g, n)
  BY Zenon, <1>1, RunsJoin
<1> QED
  BY <1>3, <1>4, <1>5

(* Where a window ends: not behind the end.                                 *)
LEMMA WantIs ==
    ASSUME Written, NEW g, NEW n, InReading(g, n)
    PROVE  at + Journal!Want \in Nat /\ at <= at + Journal!Want /\ at + Journal!Want <= Journal!End
<1>1. Journal!End \in Nat
  BY EndIs
<1>2. at \in Nat /\ at <= Journal!End
  BY DEF InReading
<1>3. Journal!RunEnd \in Nat /\ at <= Journal!RunEnd /\ Journal!RunEnd <= Journal!End
  <2> DEFINE S == { c \in cuts : c > at } \cup {Journal!End}
  <2>1. S = {Journal!End} \/ \E c \in 1..Journal!End : c > at /\ c < Journal!End /\ S = {c, Journal!End}
    BY DEF InReading
  <2>2. Journal!RunEnd = CHOOSE x \in S : \A y \in S : x <= y
    BY DEF Journal!RunEnd, Journal!Min
  <2> HIDE DEF S
  <2>3. CASE S = {Journal!End}
    BY <1>1, <1>2, <2>2, <2>3
  <2>4. ASSUME NEW c \in 1..Journal!End, c > at, c < Journal!End, S = {c, Journal!End} PROVE Journal!RunEnd = c
    BY <1>1, <2>2, <2>4
  <2> QED
    BY <1>1, <1>2, <2>1, <2>3, <2>4
<1> QED
  BY <1>1, <1>2, <1>3, JournalAssumption DEF Journal!Want, Journal!Min2,
     Journal!BoundAssumption

(* What is kept to complete a row begins no later than either says.         *)
LEMMA CarryIs ==
    ASSUME from \in Nat, NEW end \in Nat
    PROVE  /\ Journal!Carry(end) \in Nat /\ from <= Journal!Carry(end) /\ end - Overlap <= Journal!Carry(end)
           /\ Journal!Carry(end) = from \/ Journal!Carry(end) = end - Overlap
<1> DEFINE S == {from, end - Overlap}
<1>1. Overlap \in Nat
  BY JournalAssumption DEF Journal!BoundAssumption
<1>2. Journal!Carry(end) = CHOOSE x \in S : \A y \in S : x >= y
  BY DEF Journal!Carry, Journal!Max
<1>3. \E x \in S : \A y \in S : x >= y
  BY <1>1
<1>4. Journal!Carry(end) \in S /\ \A y \in S : Journal!Carry(end) >= y
  <2> HIDE DEF S
  <2> QED
    BY <1>2, <1>3
<1> QED
  BY <1>1, <1>4

(* A window that shows the first m rows and begins the next before those    *)
(* behind.                                                                  *)
Shows(g, n, end, m) ==
    /\ m \in 0..(Len(rows) - g)
    /\ n <= m /\ records \o Journal!Carved(end) = Run(g, m)
    /\ \A i \in 1..Len(rows) :
         /\ i > g /\ i <= g + m => Behind(i) <= end
         /\ i > g + m => Behind(i) > end /\ rows[i].at >= from

(* A window shows every row that ends in it and was not read.               *)
LEMMA WindowShows ==
    ASSUME Written, NEW g, NEW n, ReadSoFar(g, n), InReading(g, n),
           NEW end \in Nat, at <= end
    PROVE  \E m : Shows(g, n, end, m)
<1> DEFINE N == Len(rows)
           Late == { i \in 1..N : i > g + n /\ Behind(i) > end }
<1>1. /\ N \in Nat /\ g \in Nat /\ n \in Nat /\ g + n <= N /\ DOMAIN rows = 1..N
      /\ n \in 0..(N - g)
  BY DEF Written, ReadSoFar
<1>2. \A i \in 1..N : Behind(i) \in Nat /\ rows[i].at \in Nat /\ rows[i].at < Behind(i)
  BY JournalAssumption DEF Written, Behind, Journal!BoundAssumption
<1>3. \A i, j \in 1..N : i < j => Behind(i) <= Behind(j)
  BY <1>2 DEF Written
<1>4. /\ at \in Nat /\ from \in Nat
      /\ \A i \in 1..N : /\ i > g /\ i <= g + n => Behind(i) <= at
                         /\ i > g + n => rows[i].at >= from
  BY DEF InReading
<1>5. \E b \in (g + n)..N : \A i \in 1..N :
        /\ i > g /\ i <= b => Behind(i) <= end
        /\ i > b => Behind(i) > end
  <2>1. CASE Late = {}
    <3> N \in (g + n)..N
      BY <1>1
    <3> ASSUME NEW i \in 1..N, i > g PROVE Behind(i) <= end
      <4>1. i \notin Late
        BY <2>1
      <4>2. i > g + n => ~ (Behind(i) > end)
        BY <4>1
      <4> HIDE DEF Late, N
      <4>3. CASE i > g + n
        BY <1>2, <4>2, <4>3
      <4>4. CASE i <= g + n
        BY <1>2, <1>4, <4>4
      <4> QED
        BY <1>1, <4>3, <4>4
    <3> QED
      BY <1>1
  <2>2. CASE Late # {}
    <3>1. Late \subseteq Nat
      BY <1>1
    <3>2. PICK l \in Late : \A i \in Late : l <= i
      <4> HIDE DEF Late
      <4> QED
        BY Zenon, <2>2, <3>1, AnyPipe!LeastFailure
    <3>3. l \in 1..N /\ l > g + n /\ Behind(l) > end
      OBVIOUS
    <3>4. l - 1 \in (g + n)..N
      BY <1>1, <3>3
    <3>5. \A i \in 1..N : i > g /\ i <= l - 1 => Behind(i) <= end
      BY <1>1, <1>2, <1>4, <3>2, <3>3
    <3>6. \A i \in 1..N : i > l - 1 => Behind(i) > end
      <4> SUFFICES ASSUME NEW i \in 1..N, i > l - 1 PROVE Behind(i) > end
        OBVIOUS
      <4>1. i = l \/ l < i
        BY <3>3
      <4>2. l < i => Behind(l) <= Behind(i)
        BY <1>3, <3>3
      <4> QED
        BY <1>2, <3>3, <4>1, <4>2
    <3> QED
      BY <3>4, <3>5, <3>6
  <2> QED
    BY <2>1, <2>2
<1> HIDE DEF Late
<1>6. PICK b \in (g + n)..N : \A i \in 1..N :
        /\ i > g /\ i <= b => Behind(i) <= end
        /\ i > b => Behind(i) > end
  BY <1>5
<1>7. records = Run(g, n)
  BY DEF ReadSoFar, Run
<1> DEFINE set == { i \in Journal!Left : Journal!Whole(i, end) } \ Journal!ToSet(records)
<1>8. \A i \in 1..N : i \in set <=> g + n < i /\ i <= b
  <2>1. \A i : i \in Journal!ToSet(records) <=> i \in (g + 1)..(g + n)
    BY Zenon, <1>1, <1>7, RunsJoin
  <2>2. \A i \in 1..N : i \in Journal!Left <=> i > g
    BY <1>1 DEF Journal!Left, ReadSoFar
  <2>3. \A i \in 1..N : Journal!Whole(i, end) <=> rows[i].at >= from /\ Behind(i) <= end
    BY DEF Journal!Whole, Behind
  <2>4. \A i \in 1..N : i \in set <=> i > g /\ rows[i].at >= from /\ Behind(i) <= end
                                      /\ i \notin (g + 1)..(g + n)
    <3> HIDE DEF N
    <3> QED
      BY <2>1, <2>2, <2>3
  <2> HIDE DEF set, N
  <2>5. ASSUME NEW i \in 1..N, g + n < i, i <= b PROVE i \in set
    BY <1>1, <1>4, <1>6, <2>4, <2>5
  <2>6. ASSUME NEW i \in 1..N, i \in set PROVE g + n < i /\ i <= b
    <3>1. i > g /\ Behind(i) <= end /\ i \notin (g + 1)..(g + n)
      BY <2>4, <2>6
    <3>2. ~(i > b)
      BY <1>2, <1>6, <3>1
    <3> QED
      BY <1>1, <3>1, <3>2
  <2> QED
    BY <2>5, <2>6
<1>9. Journal!Carved(end) = Run(g + n, b - (g + n))
  <2>1. Journal!Carved(end) = Journal!InOrder(set)
    BY DEF Journal!Carved
  <2>2. g + n \in Nat /\ b \in Nat /\ g + n <= b /\ b <= Len(rows) /\ Len(rows) \in Nat
    BY <1>1
  <2> HIDE DEF set
  <2>3. Journal!InOrder(set) = [j \in 1..(b - (g + n)) |-> (g + n) + j]
    BY Zenon, <1>8, <2>2, InOrderIs
  <2> QED
    BY <2>1, <2>3 DEF Run
<1> DEFINE m == b - g
<1>10. /\ m \in 0..(N - g) /\ n <= m /\ g + m = b /\ n + (b - (g + n)) = m
       /\ b - (g + n) \in Nat
  BY <1>1
<1>11. records \o Journal!Carved(end) = Run(g, m)
  <2> DEFINE k == b - (g + n)
  <2>1. k \in Nat /\ n + k = m
    BY <1>10
  <2> HIDE DEF k, m
  <2>2. Run(g, n) \o Run(g + n, k) = Run(g, n + k)
    BY Zenon, <1>1, <2>1, RunsJoin
  <2> QED
    BY <1>7, <1>9, <2>1, <2>2 DEF k
<1>12. \A i \in 1..N : i > g + m => rows[i].at >= from
  BY <1>1, <1>4, <1>10
<1> HIDE DEF m, N
<1>13. \A i \in 1..N :
         /\ i > g /\ i <= g + m => Behind(i) <= end
         /\ i > g + m => Behind(i) > end /\ rows[i].at >= from
  BY <1>6, <1>10, <1>12
<1> QED
  BY Zenon, <1>10, <1>11, <1>13 DEF N, Shows

-----------------------------------------------------------------------------
(* There is nothing yet.                                                    *)
LEMMA InitJournalInv == Journal!Init => JournalInv
<1> SUFFICES ASSUME Journal!Init PROVE JournalInv
  OBVIOUS
<1>1. Filed
  BY Zenon, JournalAssumption DEF Journal!Init, Filed, Journal!VolumeAssumption
<1>2. Written
  <2>1. rows = << >> /\ first = 0 /\ Len(<< >>) = 0
    BY Zenon DEF Journal!Init
  <2>2. << >> = [i \in 1..0 |-> rows[i]]
    OBVIOUS
  <2>3. rows = [i \in 1..Len(rows) |-> rows[i]] /\ \A i : i \notin 1..Len(rows)
    BY <2>1, <2>2
  <2> QED
    BY <2>1, <2>3 DEF Written
<1> QED
  BY Zenon, <1>1, <1>2 DEF Journal!Init, JournalInv

(* What is left of the journal is all behind some row.                      *)
LEMMA LeftIs ==
    ASSUME Written
    PROVE  \E g \in 0..Len(rows) : \A i \in 1..Len(rows) : rows[i].at >= first <=> i > g
<1>0. /\ Len(rows) \in Nat /\ first \in Nat
      /\ \A i \in 1..Len(rows) : rows[i].at \in Nat /\ rows[i].at < Behind(i)
                                  /\ Behind(i) \in Nat
  BY JournalAssumption DEF Written, Behind, Journal!BoundAssumption
<1>1. CASE first = 0
  <2>1. \A i \in 1..Len(rows) : rows[i].at >= first <=> i > 0
    BY <1>0, <1>1
  <2> QED
    BY <1>0, <2>1
<1>2. ASSUME NEW k \in 1..Len(rows), first = rows[k].at
      PROVE  \E g \in 0..Len(rows) : \A i \in 1..Len(rows) : rows[i].at >= first <=> i > g
  <2>1. \A i, j \in 1..Len(rows) : i < j => rows[i].at < rows[j].at
    BY SMTT(30), <1>0 DEF Written
  <2>2. ASSUME NEW i \in 1..Len(rows) PROVE rows[i].at >= first <=> i > k - 1
    <3>1. i < k \/ i = k \/ k < i
      OBVIOUS
    <3>2. i < k => rows[i].at < first
      BY <1>2, <2>1
    <3>3. k < i => first < rows[i].at
      BY <1>2, <2>1
    <3> QED
      BY SMTT(30), <1>0, <1>2, <3>1, <3>2, <3>3
  <2>3. k - 1 \in 0..Len(rows)
    BY <1>0
  <2> QED
    BY Zenon, <2>2, <2>3
<1> QED
  BY <1>1, <1>2 DEF Written

(* Where the journal is opened, nothing is read, and a row is left or not.  *)
LEMMA OpenKeeps == JournalInv /\ Journal!Open => JournalInv'
<1> SUFFICES ASSUME JournalInv, Journal!Open PROVE JournalInv'
  OBVIOUS
<1>1. /\ Filed /\ Written /\ phase' = "reading" /\ records = << >> /\ truncated = "no"
      /\ UNCHANGED << mft, rows, first, records, truncated >>
      /\ at' = first /\ from' = first
      /\ cuts' = {} \/ \E c \in (first + 1)..(Journal!End - 1) : cuts' = {c}
  BY Zenon DEF JournalInv, Journal!Open, Journal!volume
<1>2. Filed' /\ Written' /\ Journal!End' = Journal!End /\ Journal!End \in Nat /\ first <= Journal!End /\ first \in Nat
  BY <1>1, EndIs DEF Filed, Written, Behind, Journal!End
<1>3. Len(rows) \in Nat /\ \A i \in 1..Len(rows) : rows[i].at \in Nat /\ rows[i].at < Behind(i)
                             /\ Behind(i) \in Nat
  BY <1>1, JournalAssumption DEF Written, Behind, Journal!BoundAssumption
<1>5. PICK g \in 0..Len(rows) : \A i \in 1..Len(rows) : rows[i].at >= first <=> i > g
  BY Zenon, <1>1, LeftIs
<1>6. ReadSoFar(g, 0)'
  <2>1. << >> = [j \in 1..0 |-> g + j]
    OBVIOUS
  <2>2. g \in 0..Len(rows) /\ 0 \in 0..(Len(rows) - g)
    BY <1>3, <1>5
  <2> QED
    BY <1>1, <1>5, <2>1, <2>2 DEF ReadSoFar
<1>7. InReading(g, 0)'
  <2>1. \A i \in 1..Len(rows) : i > g + 0 => Behind(i) > first /\ rows[i].at >= first
    BY <1>2, <1>3, <1>5
  <2>2. \A i \in 1..Len(rows) : ~(i > g /\ i <= g + 0)
    BY <1>5
  <2>3. cuts' = {} \/ \E c \in 1..Journal!End : c < Journal!End /\ cuts' = {c}
    BY <1>1, <1>2
  <2> QED
    BY <1>1, <1>2, <2>1, <2>2, <2>3 DEF InReading, Behind
<1>8. 0 \in 0..Len(rows)'
  BY <1>1, <1>3
<1> QED
  BY Zenon, <1>1, <1>2, <1>6, <1>7, <1>8 DEF JournalInv

(* A window adds the rows it shows, and keeps what a row may begin in.      *)
LEMMA ReadWindowKeeps == JournalInv /\ Journal!ReadWindow => JournalInv'
<1> SUFFICES ASSUME JournalInv, Journal!ReadWindow PROVE JournalInv'
  OBVIOUS
<1>0. PICK end : end = at + Journal!Want
  OBVIOUS
<1> DEFINE all == records \o Journal!Carved(end)
           full == Len(all) >= MaxRecords
<1>1. /\ Filed /\ Written /\ phase = "reading" /\ UNCHANGED << mft, rows, first, cuts >>
      /\ records' = IF full THEN SubSeq(all, 1, MaxRecords) ELSE all
      /\ truncated' = IF full THEN "Records" ELSE "no"
      /\ phase' = IF truncated' = "no" THEN phase ELSE "read"
      /\ from' = Journal!Carry(end)
      /\ at' = end
  BY <1>0 DEF JournalInv, Journal!ReadWindow, Journal!volume
<1>2. PICK g, n \in 0..Len(rows) : ReadSoFar(g, n) /\ InReading(g, n)
  BY <1>1 DEF JournalInv
<1>3. end \in Nat /\ at <= end /\ end <= Journal!End
  BY <1>0, <1>1, <1>2, WantIs
<1>b. PICK m : Shows(g, n, end, m)
  <2>1. Written /\ ReadSoFar(g, n) /\ InReading(g, n) /\ end \in Nat /\ at <= end
    BY <1>1, <1>2, <1>3
  <2> QED
    BY <2>1, WindowShows
<1>4. /\ m \in 0..(Len(rows) - g)
      /\ n <= m /\ records \o Journal!Carved(end) = Run(g, m)
      /\ \A i \in 1..Len(rows) :
           /\ i > g /\ i <= g + m => Behind(i) <= end
           /\ i > g + m => Behind(i) > end /\ rows[i].at >= from
  BY <1>b DEF Shows
<1>a. all = Run(g, m)
  BY <1>4
<1> HIDE DEF all
<1>5. /\ Len(rows) \in Nat /\ g \in Nat /\ m \in Nat /\ g <= Len(rows)
      /\ m \in 0..Len(rows) /\ MaxRecords \in Nat
      /\ \A i \in 1..Len(rows) : rows[i].at >= first <=> i > g
  BY <1>1, <1>2, <1>4, JournalAssumption DEF Written, ReadSoFar, Journal!BoundAssumption
<1>6. Len(all) = m /\ \A k \in 0..m : SubSeq(all, 1, k) = Run(g, k)
  BY Zenon, <1>5, <1>a, RunsJoin
<1>7. Filed' /\ Written' /\ Journal!End' = Journal!End
  BY <1>1 DEF Filed, Written, Behind, Journal!End
<1>8. ASSUME NEW k \in 0..m, records' = Run(g, k) PROVE ReadSoFar(g, k)'
  <2>1. g \in 0..Len(rows) /\ k \in 0..(Len(rows) - g)
    BY <1>4, <1>5
  <2> QED
    BY <1>1, <1>5, <1>8, <2>1 DEF ReadSoFar, Run
<1>9. CASE full
  <2>1. MaxRecords \in 0..m
    BY <1>5, <1>6, <1>9
  <2>2. records' = Run(g, MaxRecords) /\ truncated' = "Records" /\ phase' = "read"
    BY <1>1, <1>6, <1>9, <2>1
  <2>3. g \in 0..Len(rows)' /\ MaxRecords \in 0..Len(rows)'
    BY <1>1, <1>4, <1>5, <2>1
  <2> QED
    BY Zenon, <1>7, <1>8, <2>1, <2>2, <2>3 DEF JournalInv
<1>10. CASE ~full
  <2>1. records' = Run(g, m) /\ truncated' = "no" /\ phase' = "reading"
    BY <1>1, <1>a, <1>10
  <2>2. ReadSoFar(g, m)'
    BY <1>5, <1>8, <2>1
  <2>3. InReading(g, m)'
    <3>1. /\ from \in Nat /\ at \in Nat /\ from <= at /\ first <= at
          /\ cuts = {} \/ \E c \in 1..Journal!End : c < Journal!End /\ cuts = {c}
      BY <1>2 DEF InReading
    <3>2. /\ Journal!Carry(end) \in Nat /\ from <= Journal!Carry(end) /\ end - Overlap <= Journal!Carry(end)
          /\ Journal!Carry(end) = from \/ Journal!Carry(end) = end - Overlap
      BY <1>3, <3>1, CarryIs
    <3>3. Overlap \in Nat /\ first \in Nat
      BY <1>1, JournalAssumption DEF Journal!BoundAssumption, Written
    <3>4. Journal!Carry(end) <= end
      BY <1>3, <3>1, <3>2, <3>3
    <3>5. ASSUME NEW i \in 1..Len(rows), i > g + m
          PROVE  Behind(i) > end /\ rows[i].at >= Journal!Carry(end)
      <4>1. Behind(i) > end /\ rows[i].at >= from
        BY <1>4, <3>5
      <4>2. rows[i].at \in Nat /\ rows[i].length \in 1..(Overlap + 1)
        BY <1>1 DEF Written
      <4>3. rows[i].at >= end - Overlap
        BY <1>3, <3>3, <4>1, <4>2 DEF Behind
      <4> QED
        BY <3>2, <4>1, <4>3
    <3>6. first <= end
      BY <1>3, <3>1, <3>3
    <3>7. \A i \in 1..Len(rows) : i > g /\ i <= g + m => Behind(i) <= end
      BY <1>4
    <3>8. /\ at' = end /\ from' = Journal!Carry(end) /\ cuts' = cuts /\ first' = first /\ rows' = rows
          /\ truncated' = "no" /\ Journal!End' = Journal!End
      BY <1>1, <1>7, <2>1
    <3> QED
      BY <1>3, <3>1, <3>2, <3>4, <3>5, <3>6, <3>7, <3>8 DEF InReading, Behind
  <2>4. g \in 0..Len(rows)' /\ m \in 0..Len(rows)'
    BY <1>1, <1>5
  <2> QED
    BY Zenon, <1>7, <2>1, <2>2, <2>3, <2>4 DEF JournalInv
<1> QED
  BY <1>9, <1>10

(* What ends the reading: an error, a budget, or the end of the journal.    *)
LEMMA EndKeeps == JournalInv /\ (Journal!ReadFails \/ Journal!Exhausted \/ Journal!EndOfJournal) => JournalInv'
<1> SUFFICES ASSUME JournalInv, Journal!ReadFails \/ Journal!Exhausted \/ Journal!EndOfJournal PROVE JournalInv'
  OBVIOUS
<1>1. /\ Filed /\ Written /\ phase = "reading" /\ phase' = "read"
      /\ UNCHANGED << mft, rows, first, records >>
  BY Zenon DEF JournalInv, Journal!ReadFails, Journal!Exhausted, Journal!EndOfJournal,
     Journal!volume, Journal!reading
<1>2. PICK g, n \in 0..Len(rows) : ReadSoFar(g, n) /\ InReading(g, n)
  BY <1>1 DEF JournalInv
<1>3. Filed' /\ Written' /\ ReadSoFar(g, n)'
  BY <1>1, <1>2 DEF Filed, Written, Behind, ReadSoFar
<1>4. ASSUME truncated' = "no" PROVE n = Len(rows) - g
  <2>1. at = Journal!End
    BY <1>4 DEF Journal!ReadFails, Journal!Exhausted, Journal!EndOfJournal
  <2>2. \A i \in 1..Len(rows) : Behind(i) <= Journal!End /\ Behind(i) \in Nat
    BY <1>1, EndIs DEF Written, Behind
  <2>3. Journal!End \in Nat /\ Len(rows) \in Nat /\ g \in 0..Len(rows) /\ n \in 0..(Len(rows) - g)
    BY <1>1, <1>2, EndIs DEF Written, ReadSoFar
  <2>4. \A i \in 1..Len(rows) : ~(i > g + n)
    BY <1>2, <2>1, <2>2, <2>3 DEF InReading
  <2>5. CASE Len(rows) > g + n
    <3>1. Len(rows) \in 1..Len(rows)
      BY <2>3, <2>5
    <3> QED
      BY <2>4, <2>5, <3>1
  <2> QED
    BY <2>3, <2>5
<1>5. phase' # "in use" /\ phase' # "reading"
  BY <1>1
<1> QED
  BY <1>1, <1>2, <1>3, <1>4, <1>5 DEF JournalInv

(* The join leaves what was read alone.                                     *)
LEMMA JoinKeeps ==
    ASSUME JournalInv, (Journal!Begin \/ Journal!HarvestRow \/ Journal!EndHarvest) \/ UNCHANGED Journal!vars
    PROVE  JournalInv'
<1>1. CASE UNCHANGED Journal!vars
  BY ZenonT(40), <1>1 DEF JournalInv, Filed, Written, Behind, ReadSoFar, InReading, Journal!End,
     Journal!vars, Journal!volume, Journal!reading
<1>2. CASE Journal!Begin \/ Journal!HarvestRow \/ Journal!EndHarvest
  <2>1. /\ phase \in {"read", "harvest"} /\ phase' \in {"harvest", "done"}
        /\ UNCHANGED << mft, rows, first, records, truncated >>
    BY Zenon, <1>2 DEF Journal!Begin, Journal!HarvestRow, Journal!EndHarvest, Journal!volume,
       Journal!reading
  <2>2. PICK g, n \in 0..Len(rows) :
          ReadSoFar(g, n) /\ (truncated = "no" => n = Len(rows) - g)
    BY Zenon, <2>1 DEF JournalInv
  <2>3. Filed' /\ Written' /\ ReadSoFar(g, n)'
    BY Zenon, <2>1, <2>2 DEF JournalInv, Filed, Written, Behind, ReadSoFar
  <2>4. phase' # "in use" /\ phase' # "reading" /\ phase' \in {"harvest", "done"}
    BY Zenon, <2>1
  <2> QED
    BY Zenon, <2>1, <2>2, <2>3, <2>4 DEF JournalInv
<1> QED
  BY <1>1, <1>2

(* Every step keeps it.                                                     *)
LEMMA NextKeepsJournalInv == JournalInv /\ [Journal!Next]_(Journal!vars) => JournalInv'
  BY InUseKeeps, OpenKeeps, ReadWindowKeeps, EndKeeps, JoinKeeps
  DEF Journal!Next

(* It holds of the runs a journal is read in.                               *)
LEMMA JournalInvHolds == MCSpec => []JournalInv
<1>1. MCInit => JournalInv
  BY InitJournalInv DEF MCInit
<1>2. JournalInv /\ [MCNext]_<< part, vars, grouping, stages, signer, score, journal >>
        => JournalInv'
  <2>1. [MCNext]_<< part, vars, grouping, stages, signer, score, journal >>
          => Journal!Next \/ UNCHANGED journal
    BY DEF MCNext
  <2>2. UNCHANGED journal => UNCHANGED Journal!vars
    BY DEF journal, Journal!vars, Journal!volume, Journal!reading, Journal!joining
  <2> QED
    BY <2>1, <2>2, NextKeepsJournalInv
<1> QED
  BY <1>1, <1>2, PTL DEF MCSpec

(* However rows lie across windows and runs, each is read once, none in     *)
(* between is passed over, and all of them where nothing is in the way.     *)
THEOREM JournalCorrect == MCSpec => []JournalIsReadInOrder
<1>1. JournalInv => Journal!JournalIsReadInOrder
  <2> SUFFICES ASSUME JournalInv PROVE Journal!JournalIsReadInOrder
    OBVIOUS
  <2>0. Written /\ Len(rows) \in Nat
    BY Zenon DEF JournalInv, Written
  <2>1. \E g, n \in 0..Len(rows) :
           ReadSoFar(g, n) /\ (phase = "read" /\ truncated = "no" => n = Len(rows) - g)
    <3>1. CASE phase = "in use"
      <4>1. PICK g \in 0..Len(rows) : \A i \in 1..Len(rows) : rows[i].at >= first <=> i > g
        BY Zenon, <2>0, LeftIs
      <4>2. records = << >>
        BY Zenon, <3>1 DEF JournalInv
      <4>3. << >> = [j \in 1..0 |-> g + j]
        OBVIOUS
      <4>4. 0 \in 0..Len(rows) /\ 0 \in 0..(Len(rows) - g)
        BY <2>0, <4>1
      <4>5. ReadSoFar(g, 0)
        BY Zenon, <4>1, <4>2, <4>3, <4>4 DEF ReadSoFar
      <4>6. phase # "read"
        BY Zenon, <3>1
      <4> QED
        BY Zenon, <4>1, <4>4, <4>5, <4>6
    <3>2. CASE phase # "in use"
      <4>1. PICK g, n \in 0..Len(rows) :
               ReadSoFar(g, n) /\ (phase # "reading" /\ truncated = "no" => n = Len(rows) - g)
        BY Zenon, <3>2 DEF JournalInv
      <4>2. phase = "read" => phase # "reading"
        BY Zenon
      <4> QED
        BY Zenon, <4>1, <4>2
    <3> QED
      BY Zenon, <3>1, <3>2
  <2>2. PICK g, n \in 0..Len(rows) :
           ReadSoFar(g, n) /\ (phase = "read" /\ truncated = "no" => n = Len(rows) - g)
    BY Zenon, <2>1
  <2>3. /\ Journal!Standing = Run(g, Len(rows) - g)
        /\ records = Run(g, n) /\ records = SubSeq(Journal!Standing, 1, Len(records))
    BY Zenon, <2>0, <2>2, StandingIs
  <2>4. Len(records) = n /\ Len(Journal!Standing) = Len(rows) - g /\ n \in 0..(Len(rows) - g)
    <3>1. g \in 0..Len(rows) /\ n \in 0..(Len(rows) - g)
      BY Zenon, <2>2 DEF ReadSoFar
    <3>2. g \in Nat /\ n \in Nat /\ Len(rows) - g \in Nat /\ n <= Len(rows) - g
          /\ Len(rows) - g \in 0..(Len(rows) - g)
      BY <2>0, <3>1
    <3>3. Len(Run(g, n)) = n /\ Len(Run(g, Len(rows) - g)) = Len(rows) - g
      BY <3>2 DEF Run
    <3> QED
      BY Zenon, <2>3, <3>1, <3>3
  <2>5. \E m, k \in 0..Len(Journal!Standing) : records = SubSeq(Journal!Standing, m + 1, k)
    <3>1. /\ 0 \in 0..Len(Journal!Standing) /\ Len(records) \in 0..Len(Journal!Standing)
          /\ 0 + 1 = 1
      BY <2>0, <2>4
    <3>2. records = SubSeq(Journal!Standing, 0 + 1, Len(records))
      BY <2>3, <3>1
    <3> QED
      BY Zenon, <3>1, <3>2
  <2>6. (phase = "read" /\ truncated = "no") => records = Journal!Standing
    BY Zenon, <2>2, <2>3
  <2> QED
    BY Zenon, <2>5, <2>6 DEF Journal!JournalIsReadInOrder
<1>2. JournalInv => JournalIsReadInOrder
  BY <1>1 DEF JournalIsReadInOrder
<1> QED
  BY <1>2, JournalInvHolds, PTL

-----------------------------------------------------------------------------
(* The score of one candidate.                                              *)
(* Finite sets of the scoring, and of the theorems about finite sets.       *)
LEMMA SameFinite == \A S : Score!IsFiniteSet(S) = IsFiniteSet(S)
  BY DEF Score!IsFiniteSet, IsFiniteSet

(* A set of rows stands for all that were offered: of every group there is  *)
(* one of them, and none of them is stronger.                               *)
Best(set, offered) ==
    /\ DOMAIN set = { RowGroup[row] : row \in offered }
    /\ \A g \in DOMAIN set :
         /\ set[g] \in offered /\ RowGroup[set[g]] = g
         /\ \A row \in offered : RowGroup[row] = g => Score!Abs(RowWeight[row]) <= Score!Abs(RowWeight[set[g]])

(* What the loop has come to.                                               *)
Seen == UNION { Score!ToSet(Score!RowsOf(o, observed)) : o \in observed \ todo }
ScoreInv ==
    /\ observed \subseteq Statements /\ todo \subseteq observed
    /\ ~concluded => Best(by_group, Seen)
    /\ compact_os \in Score!SaidOfCompactOs(observed \ todo)
    /\ concluded => /\ todo = {} /\ census \in Censuses /\ (census.usable => Score!Possible(census))
               /\ Best(by_group, Score!Offered(observed, compact_os))

-----------------------------------------------------------------------------
(* Weights are compared by how strong they are.                             *)
LEMMA AbsIs == ASSUME NEW n \in Int PROVE Score!Abs(n) \in Nat
  BY DEF Score!Abs

LEMMA TableIsFinite == IsFiniteSet(DOMAIN RowGroup) /\ Score!Features \subseteq DOMAIN RowGroup
  BY ScoreAssumption, SameFinite DEF Score!TableAssumption

LEMMA TableIs ==
    /\ \A row \in Score!Features : RowWeight[row] \in Int /\ Score!Abs(RowWeight[row]) \in Nat
    /\ \A row, other \in Score!Features :
         RowGroup[row] = RowGroup[other] /\ Score!Abs(RowWeight[row]) = Score!Abs(RowWeight[other])
           => RowWeight[row] = RowWeight[other]
    /\ \A row \in Score!Features : RowGroup[row] = "name_frequency" => row \in Score!NameFrequency
<1>1. \A row \in Score!Features : RowWeight[row] \in Int
  BY ScoreAssumption DEF Score!TableAssumption
<1>2. \A row \in Score!Features : Score!Abs(RowWeight[row]) \in Nat
  BY <1>1, AbsIs
<1> QED
  BY <1>1, <1>2, ScoreAssumption DEF Score!TableAssumption

(* One more row offered: a group keeps the stronger.                        *)
LEMMA OfferKeepsBest ==
    ASSUME NEW offered, offered \subseteq Score!Features, NEW set, Best(set, offered),
           NEW new \in Score!Features
    PROVE  Best(Score!Offer(set, new), offered \cup {new})
<1> DEFINE G == RowGroup[new]
           W(row) == Score!Abs(RowWeight[row])
<1>1. \A row \in offered \cup {new} : W(row) \in Nat
  BY TableIs
<1>a. /\ DOMAIN set = { RowGroup[row] : row \in offered }
      /\ \A g \in DOMAIN set :
           /\ set[g] \in offered /\ RowGroup[set[g]] = g
           /\ \A row \in offered : RowGroup[row] = g => W(row) <= W(set[g])
  BY DEF Best
<1> HIDE DEF W
<1>2. CASE G \in DOMAIN set /\ W(set[G]) >= W(new)
  <2>1. Score!Offer(set, new) = set
    BY <1>2 DEF Score!Offer, W
  <2>2. DOMAIN set = { RowGroup[row] : row \in offered \cup {new} }
    BY <1>a, <1>2
  <2>3. ASSUME NEW g \in DOMAIN set, NEW row \in offered \cup {new}, RowGroup[row] = g
        PROVE  W(row) <= W(set[g])
    <3>1. CASE row \in offered
      BY <1>a, <2>3, <3>1
    <3>2. CASE row = new
      BY <1>1, <1>a, <1>2, <2>3, <3>2
    <3> QED
      BY <3>1, <3>2
  <2> QED
    BY Zenon, <1>a, <2>1, <2>2, <2>3 DEF Best, W
<1>3. CASE ~(G \in DOMAIN set /\ W(set[G]) >= W(new))
  <2> DEFINE s == Score!Stand(set, new)
  <2>1. Score!Offer(set, new) = s
    BY <1>3 DEF Score!Offer, W
  <2>2. /\ DOMAIN s = DOMAIN set \cup {G} /\ s[G] = new
        /\ \A g \in DOMAIN set : g # G => s[g] = set[g]
    BY DEF Score!Stand
  <2> HIDE DEF s
  <2>3. DOMAIN s = { RowGroup[row] : row \in offered \cup {new} }
    BY <1>a, <2>2
  <2>4. ASSUME NEW g \in DOMAIN s
        PROVE  /\ s[g] \in offered \cup {new} /\ RowGroup[s[g]] = g
               /\ \A row \in offered \cup {new} : RowGroup[row] = g => W(row) <= W(s[g])
    <3>1. CASE g # G
      BY <1>a, <2>2, <2>4, <3>1
    <3>2. CASE g = G
      <4>1. s[g] = new
        BY <2>2, <3>2
      <4>2. ASSUME NEW row \in offered, RowGroup[row] = g PROVE W(row) <= W(new)
        <5>1. G \in DOMAIN set
          BY <1>a, <3>2, <4>2
        <5>2. W(row) <= W(set[G]) /\ set[G] \in offered
          BY <1>a, <3>2, <4>2, <5>1
        <5> QED
          BY <1>1, <1>3, <5>1, <5>2
      <4>3. W(new) <= W(new)
        BY <1>1
      <4> QED
        BY <3>2, <4>1, <4>2, <4>3
    <3> QED
      BY <3>1, <3>2
  <2> QED
    BY <2>1, <2>3, <2>4 DEF Best, W
<1> QED
  BY <1>2, <1>3

(* And a run of them, in whatever order.                                    *)
LEMMA OfferAllKeepsBest ==
    ASSUME NEW offered, offered \subseteq Score!Features, NEW set, Best(set, offered),
           NEW list \in Seq(Score!Features)
    PROVE  Best(Score!OfferAll(set, list), offered \cup Score!ToSet(list))
<1> DEFINE N == Len(list)
           Step(f, i) == IF i = 0 THEN set ELSE Score!Offer(f[i - 1], list[i])
           Upto(n, f) == f = [i \in 0..n |-> Step(f, i)]
           Those(n) == offered \cup { list[i] : i \in 1..n }
           Good(n) == /\ \E f : Upto(n, f)
                      /\ \A f : Upto(n, f) => Best(f[n], Those(n))
           Fails == { n \in 0..N : ~Good(n) }
<1>a. \A n \in Nat : \A f : Upto(n, f) => \A i \in 0..n : f[i] = Step(f, i)
  OBVIOUS
<1>b. \A f : Step(f, 0) = set
  OBVIOUS
<1>c. \A n \in Nat \ {0} : \A f : Step(f, n) = Score!Offer(f[n - 1], list[n])
  OBVIOUS
<1>d. Score!OfferAll(set, list) = (CHOOSE f : Upto(N, f))[N]
  BY DEF Score!OfferAll
<1>e. N \in Nat /\ DOMAIN list = 1..N /\ \A i \in 1..N : list[i] \in Score!Features
  OBVIOUS
<1>f. Those(0) = offered
  OBVIOUS
<1> HIDE DEF Step
<1> HIDE DEF N
<1>1. Fails = {}
  <2> SUFFICES ASSUME Fails # {} PROVE FALSE
    BY Zenon
  <2>0. Fails \subseteq Nat
    BY <1>e
  <2>1. PICK n \in Fails : \A m \in Fails : n <= m
    <3> HIDE DEF Fails
    <3> QED
      BY Zenon, <2>0, AnyPipe!LeastFailure
  <2>2. n \in Nat /\ n \in 0..N /\ ~Good(n)
    BY <1>e
  <2>3. n # 0
    <3> SUFFICES Good(0)
      BY Zenon, <2>2
    <3> DEFINE zero == [i \in 0..0 |-> set]
    <3>1. Upto(0, zero)
      BY <1>b
    <3>2. \A f : Upto(0, f) => f[0] = set
      BY <1>a, <1>b
    <3> HIDE DEF Upto
    <3> HIDE DEF Those
    <3> QED
      BY <1>f, <3>1, <3>2
  <2>4. n - 1 \in Nat /\ n - 1 \in 0..N /\ n - 1 \notin Fails
    <3>1. n - 1 \in Nat /\ n - 1 \in 0..N /\ ~(n <= n - 1)
      BY <1>e, <2>2, <2>3
    <3> HIDE DEF Fails
    <3> QED
      BY <2>1, <3>1
  <2>5. Good(n - 1)
    BY <2>4
  <2>6. \E e : Upto(n, e)
    <3>1. PICK f : Upto(n - 1, f)
      BY <2>5
    <3>2. \A i \in 0..(n - 1) : f[i] = Step(f, i)
      BY Zenon, <1>a, <2>4, <3>1
    <3> DEFINE e == [i \in 0..n |-> IF i = n THEN Step(f, n) ELSE f[i]]
    <3>3. e[n] = Step(f, n) /\ \A i \in 0..(n - 1) : e[i] = f[i]
      BY <2>2
    <3>4. e = [i \in 0..n |-> e[i]]
      OBVIOUS
    <3> HIDE DEF e
    <3>5. e[0] = Step(e, 0)
      BY SMTT(30), <1>b, <2>4, <3>2, <3>3
    <3>6. ASSUME NEW i \in 1..n PROVE e[i] = Step(e, i)
      <4>1. i - 1 \in 0..(n - 1) /\ i \in Nat \ {0}
        BY <2>2
      <4>2. e[i - 1] = f[i - 1]
        BY <3>3, <4>1
      <4>3. Step(e, i) = Step(f, i)
        BY <1>c, <4>1, <4>2
      <4>4. CASE i = n
        BY <3>3, <4>3, <4>4
      <4>5. CASE i # n
        BY <2>2, <3>2, <3>3, <4>3, <4>5
      <4> QED
        BY <4>4, <4>5
    <3>7. \A i \in 0..n : e[i] = Step(e, i)
      BY <2>2, <3>5, <3>6
    <3>8. Upto(n, e)
      BY <3>4, <3>7
    <3> QED
      BY <3>8
  <2>7. ASSUME NEW f, Upto(n, f) PROVE Best(f[n], Those(n))
    <3> DEFINE below == [i \in 0..(n - 1) |-> f[i]]
    <3>1. \A i \in 0..n : f[i] = Step(f, i)
      BY Zenon, <1>a, <2>2, <2>7
    <3>2. below = [i \in 0..(n - 1) |-> below[i]] /\ \A i \in 0..(n - 1) : below[i] = f[i]
      OBVIOUS
    <3> HIDE DEF below
    <3>3. ASSUME NEW i \in 0..(n - 1) PROVE below[i] = Step(below, i)
      <4>1. CASE i = 0
        BY SMTT(30), <1>b, <2>2, <3>1, <3>2, <4>1
      <4>2. CASE i # 0
        <5>1. i - 1 \in 0..(n - 1) /\ i \in Nat \ {0} /\ i \in 0..n
          BY <2>2, <4>2
        <5>2. Step(below, i) = Step(f, i)
          BY <1>c, <3>2, <5>1
        <5> QED
          BY <3>1, <3>2, <5>1, <5>2
      <4> QED
        BY <4>1, <4>2
    <3>4. Upto(n - 1, below)
      BY <3>2, <3>3
    <3>5. Best(below[n - 1], Those(n - 1))
      BY Zenon, <2>5, <3>4
    <3>6. below[n - 1] = f[n - 1]
      BY <2>4, <3>2
    <3>7. f[n] = Score!Offer(f[n - 1], list[n])
      <4>1. n \in Nat \ {0} /\ f[n] = Step(f, n)
        BY <2>2, <2>3, <3>1
      <4> QED
        BY <1>c, <4>1
    <3>8. Those(n) = Those(n - 1) \cup {list[n]}
      BY <2>2, <2>3
    <3>9. list[n] \in Score!Features /\ Those(n - 1) \subseteq Score!Features
      BY <1>e, <2>2, <2>3
    <3> HIDE DEF Those
    <3> QED
      BY <3>5, <3>6, <3>7, <3>8, <3>9, OfferKeepsBest
  <2> QED
    BY Zenon, <2>2, <2>6, <2>7
<1>2. Good(N)
  <2>1. N \in 0..N
    BY <1>e
  <2> HIDE DEF Good
  <2> QED
    BY <1>1, <2>1
<1>3. Upto(N, CHOOSE f : Upto(N, f))
  BY Zenon, <1>2
<1>4. Those(N) = offered \cup Score!ToSet(list)
  BY <1>e DEF Score!ToSet
<1> QED
  BY Zenon, <1>2, <1>3, <1>4, <1>d
-----------------------------------------------------------------------------
(* What is offered are rows of the table; from an observation, none of      *)
(* those that say how often a name is found.                                *)
Plain == Score!Features \ Score!NameFrequency

LEMMA WhenIs ==
    ASSUME NEW S, NEW condition, NEW row \in S
    PROVE  Score!When(condition, row) \in Seq(S)
  BY DEF Score!When

LEMMA PlainlyIs == \A kind \in DOMAIN Score!Plainly : Score!Plainly[kind] \in Plain
  BY DEF Score!Plainly, Plain, Score!Features, Score!NameFrequency, Score!Range

LEMMA PersistenceIs == \A how \in DOMAIN Score!PersistenceFeature : Score!PersistenceFeature[how] \in Plain
  BY DEF Score!PersistenceFeature, Plain, Score!Features, Score!NameFrequency, Score!Range

LEMMA LocationIs == \A z \in DOMAIN Score!Location : Score!Location[z] \in Plain
  BY DEF Score!Location, Plain, Score!Features, Score!NameFrequency, Score!Range

LEMMA SignatureIs ==
    ASSUME NEW status \in Score!Statuses, NEW obs
    PROVE  Score!SignatureRows(status, obs) \in Seq(Plain)
<1>1. Score!NoTrustedSignature(obs) \in Plain
  BY DEF Score!NoTrustedSignature, Plain, Score!Features, Score!NameFrequency
<1>2. /\ "signed_microsoft_catalog" \in Plain /\ "signed_trusted_publisher" \in Plain
      /\ "signature_invalid" \in Plain /\ "signature_self_signed" \in Plain
      /\ "signature_expired" \in Plain /\ "signature_unverifiable" \in Plain
  BY DEF Plain, Score!Features, Score!NameFrequency
<1> QED
  BY <1>1, <1>2 DEF Score!SignatureRows, Score!SelfSigned, Score!Statuses

LEMMA RowsOfIs ==
    ASSUME NEW o \in Statements, NEW obs
    PROVE  Score!RowsOf(o, obs) \in Seq(Plain)
<1>1. CASE o.kind \in DOMAIN Score!Plainly
  <2>1. o.kind \notin {"Signature", "Persistence", "NoVersionResource", "ProcessRunning",
                       "RenamedCopyInAnotherZone"}
    BY <1>1 DEF Score!Plainly
  <2>2. Score!RowsOf(o, obs) = << Score!Plainly[o.kind] >>
    BY <1>1, <2>1 DEF Score!RowsOf
  <2> QED
    BY <1>1, <2>2, PlainlyIs
<1>2. CASE o.kind = "Signature"
  <2>1. "Signature" \notin DOMAIN Score!Plainly
    BY DEF Score!Plainly
  <2>2. Score!RowsOf(o, obs) = Score!SignatureRows(o.status, obs)
    BY <1>2, <2>1 DEF Score!RowsOf
  <2> QED
    BY <1>2, <2>2, SignatureIs, ScoreAssumption DEF Score!StatementAssumption
<1>3. CASE o.kind = "Persistence"
  <2>1. "Persistence" \notin DOMAIN Score!Plainly
    BY DEF Score!Plainly
  <2>2. Score!RowsOf(o, obs) = Score!PersistenceRows(o)
    BY <1>3, <2>1 DEF Score!RowsOf
  <2>3. Score!PersistenceFeature[o.how] \in Plain
    BY <1>3, PersistenceIs, ScoreAssumption DEF Score!StatementAssumption
  <2>4. /\ "persistence_deleted_entry" \in Plain
        /\ "persistence_targets_user_profile" \in Plain
        /\ "persistence_targets_scratch_space" \in Plain
    BY DEF Plain, Score!Features, Score!NameFrequency
  <2>5. << Score!PersistenceFeature[o.how] >> \in Seq(Plain)
    BY <2>3
  <2>6. Score!PersistenceRows(o) \in Seq(Plain)
    BY <2>4, <2>5, WhenIs DEF Score!PersistenceRows
  <2> QED
    BY <2>2, <2>6
<1>4. CASE o.kind = "NoVersionResource"
  <2>1. "NoVersionResource" \notin DOMAIN Score!Plainly
    BY DEF Score!Plainly
  <2>2. Score!RowsOf(o, obs) = Score!VersionResourceRows(obs)
    BY <1>4, <2>1 DEF Score!RowsOf
  <2>3. /\ "no_version_resource" \in Plain
        /\ "autostart_target_without_version_resource" \in Plain
    BY DEF Plain, Score!Features, Score!NameFrequency
  <2> QED
    BY <2>2, <2>3, WhenIs DEF Score!VersionResourceRows
<1>5. CASE o.kind = "ProcessRunning"
  <2>1. "ProcessRunning" \notin DOMAIN Score!Plainly
    BY DEF Score!Plainly
  <2>2. Score!RowsOf(o, obs) = Score!When(zone \notin Score!Conventional, "running_from_user_directory")
    BY <1>5, <2>1 DEF Score!RowsOf
  <2>3. "running_from_user_directory" \in Plain
    BY DEF Plain, Score!Features, Score!NameFrequency
  <2> QED
    BY <2>2, <2>3, WhenIs
<1>6. CASE o.kind = "RenamedCopyInAnotherZone"
  <2>1. "RenamedCopyInAnotherZone" \notin DOMAIN Score!Plainly
    BY DEF Score!Plainly
  <2>2. Score!RowsOf(o, obs) = << "shared_digest_renamed_copy" >>
    BY <1>6, <2>1 DEF Score!RowsOf
  <2>3. "shared_digest_renamed_copy" \in Plain
    BY DEF Plain, Score!Features, Score!NameFrequency
  <2> QED
    BY <2>2, <2>3
<1>7. CASE /\ o.kind \notin DOMAIN Score!Plainly
           /\ o.kind \notin {"Signature", "Persistence", "NoVersionResource", "ProcessRunning",
                             "RenamedCopyInAnotherZone"}
  BY <1>7 DEF Score!RowsOf
<1> QED
  BY <1>1, <1>2, <1>3, <1>4, <1>5, <1>6, <1>7

(* Nor is a name judged by anything but the census.                         *)
LEMMA PathRowsAre == Score!PathRows \in Seq(Plain)
<1>1. (IF executable /\ zone \in DOMAIN Score!Location THEN << Score!Location[zone] >> ELSE << >>)
        \in Seq(Plain)
  BY LocationIs
<1>2. /\ "system_binary_name_outside_system_dir" \in Plain
      /\ "double_extension" \in Plain /\ "random_looking_name" \in Plain
  BY DEF Plain, Score!Features, Score!NameFrequency
<1>3. \A condition : \A row \in Plain : Score!When(condition, row) \in Seq(Plain)
  BY WhenIs
<1> QED
  BY <1>1, <1>2, <1>3 DEF Score!PathRows

LEMMA LifecycleRowsAre == \A c, obs : Score!LifecycleRows(c, obs) \in Seq(Plain)
<1> SUFFICES ASSUME NEW c, NEW obs PROVE Score!LifecycleRows(c, obs) \in Seq(Plain)
  OBVIOUS
<1> DEFINE row == IF zone = "TempSubdirectory" THEN "executed_but_now_absent_from_scratch_space"
                  ELSE "executed_but_now_absent"
<1>1. "deleted_soon_after_execution" \in Plain /\ row \in Plain
  BY DEF Plain, Score!Features, Score!NameFrequency
<1> HIDE DEF row
<1>2. \A condition : Score!When(condition, row) \in Seq(Plain)
  BY <1>1, WhenIs
<1>3. << "deleted_soon_after_execution" >> \in Seq(Plain)
  BY <1>1
<1>4. \/ Score!LifecycleRows(c, obs) = << "deleted_soon_after_execution" >>
      \/ \E condition : Score!LifecycleRows(c, obs) = Score!When(condition, row)
  BY Zenon DEF Score!LifecycleRows, row
<1> QED
  BY Zenon, <1>2, <1>3, <1>4

LEMMA CompactOsRowsAre == \A c, obs, heard : Score!CompactOsRows(c, obs, heard) \in Seq(Plain)
<1>1. "compact_os_compressed_executable" \in Plain
  BY DEF Plain, Score!Features, Score!NameFrequency
<1> QED
  BY <1>1, WhenIs, Zenon DEF Score!CompactOsRows

LEMMA NameRowsAre == \A c, obs : Score!NameRows(c, obs) \in Seq(Score!Features)
<1> SUFFICES ASSUME NEW c, NEW obs PROVE Score!NameRows(c, obs) \in Seq(Score!Features)
  OBVIOUS
<1>1. /\ "name_unique_on_machine" \in Score!Features /\ "name_recurs_on_machine" \in Score!Features
      /\ "system_binary_name_outside_system_dir" \in Score!Features
  BY DEF Score!Features, Score!NameFrequency
<1>2. /\ << "name_unique_on_machine" >> \in Seq(Score!Features)
      /\ << "name_recurs_on_machine" >> \in Seq(Score!Features)
      /\ << "system_binary_name_outside_system_dir" >> \in Seq(Score!Features)
      /\ << >> \in Seq(Score!Features)
  BY <1>1
<1> DEFINE one == c.named \in {0, 1} /\ c.named <= Score!One(Score!Counted(obs))
           many == c.named >= 3 /\ Score!Elsewhere(c) > 0
<1>3. ~(one /\ many)
  OBVIOUS
<1> HIDE DEF one, many
<1>4. Score!NameRows(c, obs) = IF one THEN << "name_unique_on_machine" >>
                         ELSE IF many THEN << IF Score!Impersonates
                                              THEN "system_binary_name_outside_system_dir"
                                              ELSE "name_recurs_on_machine" >>
                         ELSE << >>
  BY <1>3 DEF Score!NameRows, one, many
<1> QED
  BY <1>2, <1>4

LEMMA BaselineRowsAre == \A c, obs : Score!BaselineRows(c, obs) \in Seq(Score!Features)
<1>1. /\ "lone_executable_among_documents" \in Score!Features
      /\ "executable_rare_for_zone_on_this_machine" \in Score!Features
  BY DEF Score!Features
<1>2. \A condition : \A row \in Score!Features : Score!When(condition, row) \in Seq(Score!Features)
  BY WhenIs
<1> QED
  BY <1>1, <1>2, NameRowsAre DEF Score!BaselineRows

LEMMA PlainIsAFeature == \A s \in Seq(Plain) : s \in Seq(Score!Features)
  BY DEF Plain

LEMMA ConcludedIs == \A c, obs, heard : Score!Concluded(c, obs, heard) \in Seq(Score!Features)
<1> SUFFICES ASSUME NEW c, NEW obs, NEW heard PROVE Score!Concluded(c, obs, heard) \in Seq(Score!Features)
  OBVIOUS
<1>1. /\ Score!PathRows \in Seq(Score!Features) /\ Score!LifecycleRows(c, obs) \in Seq(Score!Features)
      /\ Score!CompactOsRows(c, obs, heard) \in Seq(Score!Features) /\ Score!BaselineRows(c, obs) \in Seq(Score!Features)
  BY PathRowsAre, LifecycleRowsAre, CompactOsRowsAre, BaselineRowsAre, PlainIsAFeature
<1>2. (IF c.usable THEN Score!BaselineRows(c, obs) \o Score!CompactOsRows(c, obs, heard) ELSE << >>)
        \in Seq(Score!Features)
  BY <1>1
<1>3. Score!When(c.in_window, "created_in_incident_window") \in Seq(Score!Features)
  BY WhenIs DEF Score!Features
<1> QED
  BY <1>1, <1>2, <1>3 DEF Score!Concluded
(* Two lists of rows, one behind the other.                                 *)
LEMMA JoinedIs ==
    ASSUME NEW S, NEW a \in Seq(S), NEW b \in Seq(S)
    PROVE  a \o b \in Seq(S) /\ Score!ToSet(a \o b) = Score!ToSet(a) \cup Score!ToSet(b)
<1>1. /\ a \o b \in Seq(S) /\ Len(a \o b) = Len(a) + Len(b)
      /\ \A i \in 1..Len(a) : (a \o b)[i] = a[i]
      /\ \A i \in 1..Len(b) : (a \o b)[Len(a) + i] = b[i]
      /\ Len(a) \in Nat /\ Len(b) \in Nat
      /\ DOMAIN (a \o b) = 1..(Len(a) + Len(b)) /\ DOMAIN a = 1..Len(a) /\ DOMAIN b = 1..Len(b)
  OBVIOUS
<1> DEFINE c == a \o b
<1> HIDE DEF c
<1>2. ASSUME NEW i \in 1..(Len(a) + Len(b)) PROVE c[i] \in Score!ToSet(a) \cup Score!ToSet(b)
  <2>1. CASE i <= Len(a)
    <3>1. i \in 1..Len(a)
      BY <1>1, <2>1
    <3>2. c[i] = a[i]
      BY <1>1, <3>1 DEF c
    <3> QED
      BY <1>1, <3>1, <3>2 DEF Score!ToSet
  <2>2. CASE i > Len(a)
    <3>1. i - Len(a) \in 1..Len(b) /\ Len(a) + (i - Len(a)) = i
      BY <1>1, <2>2
    <3>2. c[i] = b[i - Len(a)]
      BY <1>1, <3>1 DEF c
    <3> QED
      BY <1>1, <3>1, <3>2 DEF Score!ToSet
  <2> QED
    BY <1>1, <2>1, <2>2
<1>3. Score!ToSet(c) \subseteq Score!ToSet(a) \cup Score!ToSet(b)
  BY <1>1, <1>2 DEF Score!ToSet, c
<1>4. Score!ToSet(a) \subseteq Score!ToSet(c)
  <2>1. ASSUME NEW i \in 1..Len(a) PROVE a[i] \in Score!ToSet(c)
    <3>1. i \in DOMAIN c /\ c[i] = a[i]
      BY <1>1 DEF c
    <3> QED
      BY <3>1 DEF Score!ToSet
  <2> QED
    BY <1>1, <2>1 DEF Score!ToSet
<1>5. Score!ToSet(b) \subseteq Score!ToSet(c)
  <2>1. ASSUME NEW i \in 1..Len(b) PROVE b[i] \in Score!ToSet(c)
    <3>1. Len(a) + i \in DOMAIN c /\ c[Len(a) + i] = b[i]
      BY <1>1 DEF c
    <3> QED
      BY <3>1 DEF Score!ToSet
  <2> QED
    BY <1>1, <2>1 DEF Score!ToSet
<1> QED
  BY <1>1, <1>3, <1>4, <1>5 DEF c

(* What is concluded of a file, part by part.                               *)
LEMMA ConcludedHas ==
    ASSUME NEW c, NEW obs, NEW heard
    PROVE  Score!ToSet(Score!Concluded(c, obs, heard)) =
             Score!ToSet(Score!PathRows)
               \cup (IF c.usable THEN Score!ToSet(Score!BaselineRows(c, obs)) \cup Score!ToSet(Score!CompactOsRows(c, obs, heard))
                     ELSE {})
               \cup Score!ToSet(Score!LifecycleRows(c, obs))
               \cup Score!ToSet(Score!When(c.in_window, "created_in_incident_window"))
<1> DEFINE usual == IF c.usable THEN Score!BaselineRows(c, obs) \o Score!CompactOsRows(c, obs, heard) ELSE << >>
           both == IF c.usable THEN Score!ToSet(Score!BaselineRows(c, obs)) \cup Score!ToSet(Score!CompactOsRows(c, obs, heard))
                   ELSE {}
           last == Score!When(c.in_window, "created_in_incident_window")
<1>1. /\ Score!PathRows \in Seq(Score!Features) /\ Score!LifecycleRows(c, obs) \in Seq(Score!Features)
      /\ Score!CompactOsRows(c, obs, heard) \in Seq(Score!Features) /\ Score!BaselineRows(c, obs) \in Seq(Score!Features)
  BY PathRowsAre, LifecycleRowsAre, CompactOsRowsAre, BaselineRowsAre, PlainIsAFeature
<1>2. last \in Seq(Score!Features)
  BY WhenIs DEF Score!Features
<1>3. usual \in Seq(Score!Features) /\ Score!ToSet(usual) = both
  <2>1. CASE c.usable
    <3>1. usual = Score!BaselineRows(c, obs) \o Score!CompactOsRows(c, obs, heard)
      BY <2>1
    <3>2. both = Score!ToSet(Score!BaselineRows(c, obs)) \cup Score!ToSet(Score!CompactOsRows(c, obs, heard))
      BY <2>1
    <3>3. /\ Score!BaselineRows(c, obs) \o Score!CompactOsRows(c, obs, heard) \in Seq(Score!Features)
          /\ Score!ToSet(Score!BaselineRows(c, obs) \o Score!CompactOsRows(c, obs, heard))
               = Score!ToSet(Score!BaselineRows(c, obs)) \cup Score!ToSet(Score!CompactOsRows(c, obs, heard))
      BY <1>1, JoinedIs
    <3> HIDE DEF usual, both
    <3> QED
      BY <3>1, <3>2, <3>3
  <2>2. CASE ~c.usable
    <3>1. usual = << >> /\ both = {}
      BY <2>2
    <3>2. << >> \in Seq(Score!Features) /\ Score!ToSet(<< >>) = {}
      BY DEF Score!ToSet
    <3> HIDE DEF usual, both
    <3> QED
      BY <3>1, <3>2
  <2> QED
    BY <2>1, <2>2
<1>4. Score!Concluded(c, obs, heard) = ((Score!PathRows \o usual) \o Score!LifecycleRows(c, obs)) \o last
  BY DEF Score!Concluded
<1> HIDE DEF usual, last, both
<1>5. PICK d : d = Score!PathRows \o usual
  BY Zenon
<1>6. d \in Seq(Score!Features) /\ Score!ToSet(d) = Score!ToSet(Score!PathRows) \cup Score!ToSet(usual)
  BY <1>1, <1>3, <1>5, JoinedIs
<1>7. PICK l : l = Score!LifecycleRows(c, obs)
  OBVIOUS
<1>8. PICK e : e = d \o l
  BY Zenon
<1>9. e \in Seq(Score!Features) /\ Score!ToSet(e) = Score!ToSet(d) \cup Score!ToSet(l)
  BY <1>1, <1>6, <1>7, <1>8, JoinedIs
<1>10. Score!ToSet(e \o last) = Score!ToSet(e) \cup Score!ToSet(last)
  BY <1>2, <1>9, JoinedIs
<1>11. Score!Concluded(c, obs, heard) = e \o last
  BY <1>4, <1>5, <1>7, <1>8
<1>12. Score!ToSet(Score!Concluded(c, obs, heard)) =
         Score!ToSet(Score!PathRows) \cup both \cup Score!ToSet(Score!LifecycleRows(c, obs)) \cup Score!ToSet(last)
  BY <1>3, <1>6, <1>7, <1>9, <1>10, <1>11
<1> QED
  BY <1>12 DEF both, last

-----------------------------------------------------------------------------
(* Whatever rows were offered, two sets that stand for them are worth the   *)
(* same: groups of equal strength are of equal weight.                      *)
LEMMA StandingIsTheStrongest ==
    ASSUME NEW offered, offered \subseteq Score!Features, NEW set, Best(set, offered)
    PROVE  Score!Each(set) = Score!Each(Score!Strongest(offered))
<1> DEFINE s == Score!Strongest(offered)
           Of(g) == { row \in offered : RowGroup[row] = g }
           W(row) == Score!Abs(RowWeight[row])
<1>1. /\ DOMAIN set = { RowGroup[row] : row \in offered }
      /\ \A g \in DOMAIN set :
           /\ set[g] \in offered /\ RowGroup[set[g]] = g
           /\ \A row \in offered : RowGroup[row] = g => W(row) <= W(set[g])
  BY DEF Best
<1>2. DOMAIN s = DOMAIN set
  BY <1>1 DEF Score!Strongest
<1>3. ASSUME NEW g \in DOMAIN set
      PROVE  RowWeight[s[g]] = RowWeight[set[g]]
  <2>1. s[g] = CHOOSE r \in Of(g) : \A q \in Of(g) : W(q) <= W(r)
    BY <1>1 DEF Score!Strongest
  <2>2. set[g] \in Of(g) /\ \A q \in Of(g) : W(q) <= W(set[g])
    BY <1>1
  <2> HIDE DEF W
  <2> HIDE DEF s
  <2>3. s[g] \in Of(g) /\ \A q \in Of(g) : W(q) <= W(s[g])
    <3> HIDE DEF Of
    <3> QED
      BY <2>1, <2>2
  <2>4. /\ W(s[g]) \in Nat /\ W(set[g]) \in Nat
        /\ s[g] \in Score!Features /\ set[g] \in Score!Features
        /\ RowGroup[s[g]] = RowGroup[set[g]]
    BY <2>2, <2>3, TableIs DEF W
  <2>5. W(s[g]) <= W(set[g]) /\ W(set[g]) <= W(s[g])
    BY <2>2, <2>3
  <2>6. W(s[g]) = W(set[g])
    BY <2>4, <2>5
  <2> QED
    BY <2>4, <2>6, TableIs DEF W
<1> HIDE DEF s
<1>4. Score!Each(set) = [g \in DOMAIN set |-> RowWeight[set[g]]]
  BY DEF Score!Each
<1>5. Score!Each(s) = [g \in DOMAIN s |-> RowWeight[s[g]]]
  BY DEF Score!Each
<1>6. [g \in DOMAIN set |-> RowWeight[set[g]]] = [g \in DOMAIN s |-> RowWeight[s[g]]]
  BY <1>2, <1>3
<1> QED
  BY <1>4, <1>5, <1>6 DEF s

-----------------------------------------------------------------------------
(* What is offered depends on the path and the observations only.           *)
LEMMA RowsStay ==
    ASSUME UNCHANGED << Score!path, observed >>
    PROVE  \A o : Score!RowsOf(o, observed)' = Score!RowsOf(o, observed)
  BY DEF Score!path, Score!RowsOf, Score!SignatureRows, Score!SelfSigned,
     Score!NoTrustedSignature, Score!Managed, Score!PersistenceRows,
         Score!VersionResourceRows, Score!Autostart

LEMMA ConcludedStay ==
    ASSUME UNCHANGED << Score!path, observed, compact_os >>
    PROVE  Score!Concluded(census, observed, compact_os)'
             = Score!Concluded(census', observed, compact_os)
  BY DEF Score!path, Score!Concluded, Score!PathRows, Score!Impersonates,
     Score!Located, Score!BaselineRows, Score!NameRows, Score!Elsewhere,
         Score!CompactOsRows, Score!LifecycleRows

LEMMA OfferedAre ==
    ASSUME UNCHANGED << Score!path, observed, compact_os >>
    PROVE  Score!Offered(observed, compact_os)' =
             (UNION { Score!ToSet(Score!RowsOf(o, observed)) : o \in observed })
               \cup Score!ToSet(Score!Concluded(census', observed, compact_os))
<1>1. Score!Offered(observed, compact_os)' =
        (UNION { Score!ToSet(Score!RowsOf(o, observed)') : o \in observed' })
          \cup Score!ToSet(Score!Concluded(census, observed, compact_os)')
  BY DEF Score!Offered, Score!ToSet
<1> QED
  BY <1>1, RowsStay, ConcludedStay

LEMMA SeenAreFeatures ==
    ASSUME observed \subseteq Statements, NEW some \in SUBSET observed
    PROVE  UNION { Score!ToSet(Score!RowsOf(o, observed)) : o \in some } \subseteq Plain
<1>1. ASSUME NEW o \in some PROVE Score!ToSet(Score!RowsOf(o, observed)) \subseteq Plain
  <2>1. Score!RowsOf(o, observed) \in Seq(Plain)
    BY RowsOfIs
  <2> QED
    BY <2>1 DEF Score!ToSet
<1> QED
  BY <1>1

LEMMA OfferedIsOfTheTable ==
    ASSUME observed \subseteq Statements
    PROVE  \A heard : Score!Offered(observed, heard) \subseteq Score!Features
<1>1. UNION { Score!ToSet(Score!RowsOf(o, observed)) : o \in observed } \subseteq Plain
  <2>1. observed \in SUBSET observed
    OBVIOUS
  <2> QED
    BY <2>1, SeenAreFeatures
<1>2. \A heard : Score!Concluded(census, observed, heard) \in Seq(Score!Features)
  BY ConcludedIs
<1>3. \A heard : Score!ToSet(Score!Concluded(census, observed, heard)) \subseteq Score!Features
  BY <1>2 DEF Score!ToSet
<1> QED
  BY <1>1, <1>3 DEF Score!Offered, Plain

LEMMA InitScoreInv == Score!Init => ScoreInv
<1> SUFFICES ASSUME Score!Init PROVE ScoreInv
  OBVIOUS
<1>1. /\ observed \subseteq Statements /\ todo = observed /\ by_group = << >> /\ ~concluded
      /\ compact_os = "none"
  BY DEF Score!Init, Score!kSubset
<1>2. Seen = {} /\ DOMAIN by_group = {}
  BY <1>1 DEF Seen
<1>3. compact_os \in Score!SaidOfCompactOs(observed \ todo)
  BY <1>1 DEF Score!SaidOfCompactOs
<1> QED
  BY <1>1, <1>2, <1>3 DEF ScoreInv, Best

(* One more statement heard: the first that was made stays.                 *)
LEMMA FirstStays ==
    ASSUME NEW obs, NEW o, compact_os \in Score!SaidOfCompactOs(obs)
    PROVE  Score!FirstCompactOs(o) \in Score!SaidOfCompactOs(obs \cup {o})
<1> DEFINE said(set) == { x.kind : x \in set } \cap Score!CompactOs
<1>1. said(obs \cup {o}) = said(obs) \cup ({o.kind} \cap Score!CompactOs)
  OBVIOUS
<1>2. \A set : Score!SaidOfCompactOs(set) = IF said(set) = {} THEN {"none"} ELSE said(set)
  BY DEF Score!SaidOfCompactOs
<1>3. \A set : "none" \notin said(set)
  BY DEF Score!CompactOs
<1>4. Score!FirstCompactOs(o) = IF compact_os = "none" /\ o.kind \in Score!CompactOs
                               THEN o.kind ELSE compact_os
  BY DEF Score!FirstCompactOs
<1> HIDE DEF said
<1>5. CASE compact_os = "none"
  <2>1. said(obs) = {}
    BY <1>2, <1>3, <1>5
  <2> QED
    BY <1>1, <1>2, <1>4, <1>5, <2>1
<1>6. CASE compact_os # "none"
  <2>1. compact_os \in said(obs)
    BY <1>2, <1>6
  <2> QED
    BY <1>1, <1>2, <1>4, <1>6, <2>1
<1> QED
  BY <1>5, <1>6

LEMMA ObserveKeeps == ASSUME ScoreInv, Score!Observe PROVE ScoreInv'
<1>1. PICK o \in todo :
        /\ by_group' = Score!OfferAll(by_group, Score!RowsOf(o, observed))
        /\ todo' = todo \ {o} /\ compact_os' = Score!FirstCompactOs(o)
  BY DEF Score!Observe
<1>2. /\ ~concluded /\ ~concluded' /\ UNCHANGED << Score!path, observed >>
      /\ observed \subseteq Statements /\ todo \subseteq observed
      /\ Best(by_group, Seen)
  BY DEF Score!Observe, ScoreInv
<1>3. Score!RowsOf(o, observed) \in Seq(Score!Features)
  BY <1>2, RowsOfIs, PlainIsAFeature
<1>4. Seen \subseteq Score!Features
  <2>1. observed \ todo \in SUBSET observed
    OBVIOUS
  <2> QED
    BY <1>2, <2>1, SeenAreFeatures DEF Seen, Plain
<1>5. Best(by_group', Seen \cup Score!ToSet(Score!RowsOf(o, observed)))
  BY <1>1, <1>2, <1>3, <1>4, OfferAllKeepsBest
<1>6. Seen' = Seen \cup Score!ToSet(Score!RowsOf(o, observed))
  <2>1. Seen' = UNION { Score!ToSet(Score!RowsOf(p, observed)') : p \in observed' \ todo' }
    BY DEF Seen, Score!ToSet
  <2>2. observed' \ todo' = (observed \ todo) \cup {o}
    BY <1>1, <1>2
  <2>3. Seen' = UNION { Score!ToSet(Score!RowsOf(p, observed)) : p \in (observed \ todo) \cup {o} }
    BY <1>2, <2>1, <2>2, RowsStay
  <2> QED
    BY <2>3 DEF Seen
<1>7. (Best(by_group, Seen))' = Best(by_group', Seen')
  BY DEF Best
<1>8. (compact_os \in Score!SaidOfCompactOs(observed \ todo))'
  <2>1. observed' \ todo' = (observed \ todo) \cup {o}
    BY <1>1, <1>2
  <2>2. compact_os \in Score!SaidOfCompactOs(observed \ todo)
    BY DEF ScoreInv
  <2>3. compact_os' \in Score!SaidOfCompactOs((observed \ todo) \cup {o})
    BY <1>1, <2>2, FirstStays
  <2> QED
    BY <2>1, <2>3 DEF Score!SaidOfCompactOs
<1> QED
  BY <1>1, <1>2, <1>5, <1>6, <1>7, <1>8 DEF ScoreInv

LEMMA ConcludeScoreKeeps == ASSUME ScoreInv, Score!Conclude PROVE ScoreInv'
<1>1. PICK c \in Censuses :
        /\ c.usable => Score!Possible(c)
        /\ census' = c
        /\ by_group' = Score!OfferAll(by_group, Score!Concluded(c, observed, compact_os))
  BY DEF Score!Conclude
<1>2. /\ ~concluded /\ concluded' = TRUE /\ todo = {}
      /\ UNCHANGED << Score!path, observed, todo, compact_os >>
      /\ observed \subseteq Statements
      /\ Best(by_group, Seen)
  BY DEF Score!Conclude, ScoreInv
<1>3. Score!Concluded(c, observed, compact_os) \in Seq(Score!Features)
  BY ConcludedIs
<1>4. Seen = UNION { Score!ToSet(Score!RowsOf(o, observed)) : o \in observed }
  BY <1>2 DEF Seen
<1>5. Seen \subseteq Score!Features
  <2>1. observed \in SUBSET observed
    OBVIOUS
  <2> QED
    BY <1>2, <1>4, <2>1, SeenAreFeatures DEF Plain
<1>6. Best(by_group', Seen \cup Score!ToSet(Score!Concluded(c, observed, compact_os)))
  BY <1>1, <1>2, <1>3, <1>5, OfferAllKeepsBest
<1>7. Score!Offered(observed, compact_os)'
        = Seen \cup Score!ToSet(Score!Concluded(c, observed, compact_os))
  BY <1>1, <1>2, <1>4, OfferedAre
<1>8. (Best(by_group, Score!Offered(observed, compact_os)))'
        = Best(by_group', Score!Offered(observed, compact_os)')
  BY DEF Best
<1>9. Score!Possible(census)' = Score!Possible(census')
  BY <1>2 DEF Score!Possible, Score!path
<1>10. (compact_os \in Score!SaidOfCompactOs(observed \ todo))'
  BY <1>2 DEF ScoreInv, Score!SaidOfCompactOs
<1> QED
  BY <1>1, <1>2, <1>6, <1>7, <1>8, <1>9, <1>10 DEF ScoreInv

LEMMA UnchangedScore == ASSUME ScoreInv, UNCHANGED Score!vars PROVE ScoreInv'
<1>1. /\ UNCHANGED << Score!path, observed, todo, by_group, compact_os, census, concluded >>
      /\ UNCHANGED << Score!path, observed >>
  BY DEF Score!vars
<1>2. Score!Offered(observed, compact_os)' = Score!Offered(observed, compact_os)
  <2>1. Score!Offered(observed, compact_os)' =
             (UNION { Score!ToSet(Score!RowsOf(o, observed)) : o \in observed })
               \cup Score!ToSet(Score!Concluded(census', observed, compact_os))
    BY <1>1, OfferedAre
  <2> QED
    BY <1>1, <2>1 DEF Score!Offered
<1>3. Seen' = Seen
  <2>1. Seen' = UNION { Score!ToSet(Score!RowsOf(p, observed)') : p \in observed' \ todo' }
    BY DEF Seen, Score!ToSet
  <2>2. Seen' = UNION { Score!ToSet(Score!RowsOf(p, observed)) : p \in observed \ todo }
    BY <1>1, <2>1, RowsStay
  <2> QED
    BY <2>2 DEF Seen
<1>4. /\ (Best(by_group, Seen))' = Best(by_group', Seen')
      /\ (Best(by_group, Score!Offered(observed, compact_os)))'
           = Best(by_group', Score!Offered(observed, compact_os)')
  BY DEF Best
<1>5. Score!Possible(census)' = Score!Possible(census)
  BY <1>1 DEF Score!Possible, Score!path
<1>6. (compact_os \in Score!SaidOfCompactOs(observed \ todo))'
  BY <1>1 DEF ScoreInv, Score!SaidOfCompactOs
<1> QED
  BY <1>1, <1>2, <1>3, <1>4, <1>5, <1>6 DEF ScoreInv

(* It holds of the runs a candidate is scored in.                           *)
LEMMA ScoreInvHolds == MCSpec => [](part = "score" => ScoreInv)
<1> DEFINE Inv == part = "score" => ScoreInv
<1>1. MCInit => Inv
  BY InitScoreInv DEF MCInit
<1>2. Inv /\ [MCNext]_<< part, vars, grouping, stages, signer, score, journal >> => Inv'
  <2> SUFFICES ASSUME part = "score" => ScoreInv, part' = "score",
                      [MCNext]_<< part, vars, grouping, stages, signer, score, journal >>
               PROVE  ScoreInv'
    OBVIOUS
  <2>1. part = "score" /\ (Score!Next \/ UNCHANGED score)
    BY DEF MCNext
  <2>2. CASE UNCHANGED score
    <3>1. UNCHANGED Score!vars
      BY <2>2 DEF score, Score!vars, Score!path
    <3> QED
      BY <2>1, <3>1, UnchangedScore
  <2>3. CASE Score!Next
    BY <2>1, <2>3, ObserveKeeps, ConcludeScoreKeeps DEF Score!Next
  <2> QED
    BY <2>1, <2>2, <2>3
<1> QED
  BY <1>1, <1>2, PTL DEF MCSpec

-----------------------------------------------------------------------------
(* In whatever order the observations of a candidate come, it scores the    *)
(* strongest row of every group once, as they are worth with one of the     *)
(* things said of its compression heard.                                    *)
THEOREM OrderCorrect == MCSpec => []ScoreIsTheSameInAnyOrder
<1>1. ScoreInv => Score!ScoreIsTheSameInAnyOrder
  <2> SUFFICES ASSUME ScoreInv, concluded PROVE Score!ScoreIsTheSameInAnyOrder
    BY DEF Score!ScoreIsTheSameInAnyOrder
  <2>1. /\ observed \subseteq Statements /\ Best(by_group, Score!Offered(observed, compact_os))
        /\ compact_os \in Score!SaidOfCompactOs(observed)
    <3>1. todo = {}
      BY DEF ScoreInv
    <3>2. observed \ todo = observed
      BY <3>1
    <3> QED
      BY <3>2 DEF ScoreInv
  <2>2. Score!Offered(observed, compact_os) \subseteq Score!Features
    BY <2>1, OfferedIsOfTheTable
  <2>3. Score!Each(by_group) = Score!Each(Score!Strongest(Score!Offered(observed, compact_os)))
    BY <2>1, <2>2, StandingIsTheStrongest
  <2>4. Score!Total(Score!Each(by_group)) = Score!Worth(Score!Offered(observed, compact_os))
    BY <2>3, Zenon DEF Score!Worth
  <2> QED
    BY Zenon, <2>1, <2>4 DEF Score!ScoreIsTheSameInAnyOrder
<1>2. (part = "score" => ScoreInv) => ScoreIsTheSameInAnyOrder
  BY <1>1 DEF ScoreIsTheSameInAnyOrder
<1> QED
  BY <1>2, ScoreInvHolds, PTL
(* What a name is judged by is among the rows of the census.                *)
LEMMA NamesAreOfTheCensus ==
    ASSUME NEW c, NEW obs, NEW heard,
           NEW row \in Score!ToSet(Score!Concluded(c, obs, heard)), row \in Score!NameFrequency
    PROVE  row \in Score!ToSet(Score!NameRows(c, obs))
<1> DEFINE a == Score!When(executable /\ c.lone, "lone_executable_among_documents")
           b == Score!When(executable /\ c.rare /\ Score!Located /\ zone \notin Score!Conventional,
                     "executable_rare_for_zone_on_this_machine")
           odd == a \o b
           named == Score!NameRows(c, obs)
           last == Score!When(c.in_window, "created_in_incident_window")
<1>1. \A s \in Seq(Plain) : s \in Seq(Score!Features) /\ row \notin Score!ToSet(s)
  BY DEF Plain, Score!ToSet
<1>2. /\ "lone_executable_among_documents" \in Plain
      /\ "executable_rare_for_zone_on_this_machine" \in Plain
      /\ "created_in_incident_window" \in Plain
  BY DEF Plain, Score!Features, Score!NameFrequency
<1>3. a \in Seq(Plain) /\ b \in Seq(Plain) /\ last \in Seq(Plain)
  BY <1>2, WhenIs, Zenon
<1>4. Score!BaselineRows(c, obs) = odd \o named
  BY DEF Score!BaselineRows
<1> HIDE DEF a, b
<1>5. odd \in Seq(Plain)
  BY <1>3
<1>6. named \in Seq(Score!Features)
  BY NameRowsAre
<1>7. /\ row \notin Score!ToSet(Score!PathRows) /\ row \notin Score!ToSet(Score!LifecycleRows(c, obs))
      /\ row \notin Score!ToSet(Score!CompactOsRows(c, obs, heard)) /\ row \notin Score!ToSet(last)
      /\ row \notin Score!ToSet(odd) /\ odd \in Seq(Score!Features)
  BY Zenon, <1>1, <1>3, <1>5, PathRowsAre, LifecycleRowsAre, CompactOsRowsAre
<1>8. Score!ToSet(Score!Concluded(c, obs, heard)) =
        Score!ToSet(Score!PathRows)
          \cup (IF c.usable THEN Score!ToSet(Score!BaselineRows(c, obs)) \cup Score!ToSet(Score!CompactOsRows(c, obs, heard))
                ELSE {})
          \cup Score!ToSet(Score!LifecycleRows(c, obs)) \cup Score!ToSet(last)
  BY ConcludedHas
<1> HIDE DEF odd, named, last
<1>9. row \in Score!ToSet(Score!BaselineRows(c, obs))
  BY <1>7, <1>8
<1>10. Score!ToSet(odd \o named) = Score!ToSet(odd) \cup Score!ToSet(named)
  BY <1>6, <1>7, JoinedIs
<1>11. row \in Score!ToSet(named)
  BY <1>4, <1>7, <1>9, <1>10
<1> QED
  BY <1>11 DEF named

(* A name is unique if no other file has it, and recurs if one elsewhere    *)
(* has it: no file vouches for itself.                                      *)
THEOREM NamesCorrect == MCSpec => []NamesAreJudgedByOtherFiles
<1>1. ScoreInv => Score!NamesAreJudgedByOtherFiles
  <2> SUFFICES ASSUME ScoreInv, concluded, census.usable, "name_frequency" \in DOMAIN by_group
               PROVE  LET here == Score!One(Score!Counted(observed))
                          verdict == by_group["name_frequency"]
                      IN /\ verdict = "name_unique_on_machine" => census.named = here
                         /\ verdict = "name_recurs_on_machine" =>
                              /\ ~Score!Impersonates
                              /\ census.conventional > Score!One(zone \in Score!Conventional /\ here = 1)
    BY DEF Score!NamesAreJudgedByOtherFiles
  <2> DEFINE here == Score!One(Score!Counted(observed))
             verdict == by_group["name_frequency"]
  <2>1. /\ observed \subseteq Statements /\ Best(by_group, Score!Offered(observed, compact_os))
        /\ census \in Censuses /\ Score!Possible(census)
    BY DEF ScoreInv
  <2>2. verdict \in Score!Offered(observed, compact_os) /\ RowGroup[verdict] = "name_frequency"
    BY <2>1 DEF Best
  <2>3. verdict \in Score!NameFrequency
    BY <2>1, <2>2, OfferedIsOfTheTable, TableIs
  <2>4. verdict \in Score!ToSet(Score!NameRows(census, observed))
    <3>1. UNION { Score!ToSet(Score!RowsOf(o, observed)) : o \in observed } \subseteq Plain
      <4>1. observed \in SUBSET observed
        OBVIOUS
      <4> QED
        BY <2>1, <4>1, SeenAreFeatures
    <3>2. verdict \in Score!ToSet(Score!Concluded(census, observed, compact_os))
      BY <2>2, <2>3, <3>1 DEF Score!Offered, Plain
    <3> QED
      BY <2>3, <3>2, NamesAreOfTheCensus
  <2>5. census.named \in Nat /\ census.conventional \in Nat
    BY <2>1, ScoreAssumption DEF Score!CensusAssumption
  <2>6. /\ Score!Counted(observed) => census.named > 0
        /\ Score!Counted(observed) /\ zone \in Score!Conventional => census.conventional > 0
    BY <2>1 DEF Score!Possible
  <2> DEFINE one == census.named \in {0, 1} /\ census.named <= here
             many == census.named >= 3 /\ Score!Elsewhere(census) > 0
  <2>7. ~(one /\ many)
    OBVIOUS
  <2>8. Score!NameRows(census, observed) =
          IF one THEN << "name_unique_on_machine" >>
          ELSE IF many THEN << IF Score!Impersonates
                               THEN "system_binary_name_outside_system_dir"
                               ELSE "name_recurs_on_machine" >>
          ELSE << >>
    <3> HIDE DEF here
    <3>1. Score!NameRows(census, observed) =
            CASE one -> << "name_unique_on_machine" >>
              [] many -> << IF Score!Impersonates
                            THEN "system_binary_name_outside_system_dir"
                            ELSE "name_recurs_on_machine" >>
              [] OTHER -> << >>
      BY Zenon DEF Score!NameRows, here
    <3> HIDE DEF one, many
    <3> QED
      BY <2>7, <3>1
  <2>9. verdict = "name_unique_on_machine" => census.named = here
    <3> SUFFICES ASSUME verdict = "name_unique_on_machine" PROVE census.named = here
      OBVIOUS
    <3>1. one
      <4> HIDE DEF one, many
      <4> QED
        BY <2>4, <2>8 DEF Score!ToSet
    <3> QED
      BY <2>5, <2>6, <3>1 DEF Score!One
  <2>10. ASSUME verdict = "name_recurs_on_machine"
         PROVE  ~Score!Impersonates /\ census.conventional > Score!One(zone \in Score!Conventional /\ here = 1)
    <3>1. many /\ ~Score!Impersonates
      <4> HIDE DEF one, many
      <4> QED
        BY <2>4, <2>8, <2>10 DEF Score!ToSet
    <3> QED
      BY <2>5, <3>1 DEF Score!One, Score!Elsewhere
  <2> QED
    BY <2>9, <2>10
<1>2. (part = "score" => ScoreInv) => NamesAreJudgedByOtherFiles
  BY <1>1 DEF NamesAreJudgedByOtherFiles
<1> QED
  BY <1>2, ScoreInvHolds, PTL
-----------------------------------------------------------------------------
(* A sum over a finite set, one element of it at a time.                    *)
Sums(worth, f) ==
    f = [s \in SUBSET DOMAIN worth |->
           IF s = {} THEN 0
           ELSE worth[CHOOSE x \in s : TRUE] + f[s \ {CHOOSE x \in s : TRUE}]]

LEMMA TotalIs == \A worth : Score!Total(worth) = (CHOOSE f : Sums(worth, f))[DOMAIN worth]
  BY DEF Score!Total, Score!MapThenSumSet, Score!MapThenFoldSet, Sums

LEMMA SumExists ==
    ASSUME NEW worth, IsFiniteSet(DOMAIN worth)
    PROVE  \E f : Sums(worth, f)
<1> DEFINE D == DOMAIN worth
           Upto(n) == { s \in SUBSET D : Cardinality(s) <= n }
           First_(s) == CHOOSE x \in s : TRUE
           Step(f, s) == IF s = {} THEN 0 ELSE worth[First_(s)] + f[s \ {First_(s)}]
           Has(n, f) == f = [s \in Upto(n) |-> Step(f, s)]
           Good(n) == \E f : Has(n, f)
           Fails == { n \in Nat : ~Good(n) }
<1>1. \A s \in SUBSET D : IsFiniteSet(s) /\ Cardinality(s) \in Nat
  BY FS_Subset, FS_CardinalityType
<1>2. \A s \in SUBSET D : s # {} =>
        /\ s \ {First_(s)} \in SUBSET D
        /\ Cardinality(s \ {First_(s)}) = Cardinality(s) - 1
  <2> SUFFICES ASSUME NEW s \in SUBSET D, s # {}
               PROVE  Cardinality(s \ {First_(s)}) = Cardinality(s) - 1
    OBVIOUS
  <2>1. First_(s) \in s
    OBVIOUS
  <2> HIDE DEF First_
  <2> QED
    BY <1>1, <2>1, FS_RemoveElement
<1>3. \A f, e : \A s \in SUBSET D :
        (s # {} => e[s \ {First_(s)}] = f[s \ {First_(s)}]) => Step(e, s) = Step(f, s)
  OBVIOUS
<1>4. \A f : Step(f, {}) = 0
  OBVIOUS
<1>5. \A s \in SUBSET D : Cardinality(s) = 0 <=> s = {}
  BY <1>1, FS_EmptySet
<1>t. \A f : Has(Cardinality(D), f) => Sums(worth, f)
  <2>1. Upto(Cardinality(D)) = SUBSET D
    BY FS_Subset
  <2> QED
    BY <2>1 DEF Sums
<1> HIDE DEF Step
<1> HIDE DEF First_
<1>6. Fails = {}
  <2> SUFFICES ASSUME Fails # {} PROVE FALSE
    OBVIOUS
  <2>1. PICK n \in Fails : \A m \in Fails : n <= m
    BY Zenon, AnyPipe!LeastFailure
  <2>2. n \in Nat /\ ~Good(n)
    BY Zenon
  <2>3. n # 0
    <3> SUFFICES Good(0)
      BY Zenon, <2>2
    <3>1. Upto(0) = {{}}
      BY <1>1, <1>5
    <3> DEFINE zero == [s \in {{}} |-> 0]
    <3>2. Has(0, zero)
      BY <1>4, <3>1
    <3> QED
      BY Zenon, <3>2
  <2>4. n - 1 \in Nat /\ n - 1 \notin Fails
    <3> HIDE DEF Fails
    <3> QED
      BY <2>1, <2>2, <2>3
  <2>5. PICK f : Has(n - 1, f)
    BY Zenon, <2>4
  <2>6. \A s \in Upto(n - 1) : f[s] = Step(f, s)
    <3>1. f = [s \in Upto(n - 1) |-> Step(f, s)]
      BY <2>5
    <3> HIDE DEF Upto
    <3> QED
      BY <3>1
  <2> DEFINE e == [s \in Upto(n) |-> Step(f, s)]
  <2>7. \A s \in Upto(n - 1) : s \in Upto(n) /\ e[s] = f[s]
    BY <1>1, <2>2, <2>6
  <2>8. ASSUME NEW s \in Upto(n) PROVE e[s] = Step(e, s)
    <3>1. e[s] = Step(f, s)
      BY <2>8
    <3>2. s # {} => s \ {First_(s)} \in Upto(n - 1)
      BY <1>1, <1>2, <2>2
    <3> QED
      BY <1>3, <2>7, <3>1, <3>2
  <2>9. e = [s \in Upto(n) |-> e[s]]
    OBVIOUS
  <2> HIDE DEF e
  <2>10. Has(n, e)
    <3> HIDE DEF Upto
    <3>1. [s \in Upto(n) |-> e[s]] = [s \in Upto(n) |-> Step(e, s)]
      BY <2>8
    <3> QED
      BY <2>9, <3>1
  <2> QED
    BY Zenon, <2>2, <2>10
<1>7. Good(Cardinality(D))
  <2>1. Cardinality(D) \in Nat
    BY <1>1
  <2> HIDE DEF Good
  <2> QED
    BY <1>6, <2>1
<1> QED
  BY <1>7, <1>t

(* Of two lists of what each group is worth, one nowhere above the other.   *)
LEMMA TotalIsMonotonic ==
    ASSUME NEW low, NEW high, DOMAIN low = DOMAIN high, IsFiniteSet(DOMAIN low),
           \A g \in DOMAIN low : low[g] \in Int /\ high[g] \in Int /\ low[g] <= high[g]
    PROVE  Score!Total(low) <= Score!Total(high)
<1> DEFINE D == DOMAIN low
           l == CHOOSE f : Sums(low, f)
           h == CHOOSE f : Sums(high, f)
           Good(s) == l[s] \in Int /\ h[s] \in Int /\ l[s] <= h[s]
           Fails == { n \in Nat : \E s \in SUBSET D : Cardinality(s) = n /\ ~Good(s) }
<1>1. Sums(low, l) /\ Sums(high, h)
  BY SumExists
<1>2. Score!Total(low) = l[D] /\ Score!Total(high) = h[D]
  BY TotalIs
<1> HIDE DEF l
<1> HIDE DEF h
<1>3. \A s \in SUBSET D :
        /\ l[s] = IF s = {} THEN 0
                  ELSE low[CHOOSE x \in s : TRUE] + l[s \ {CHOOSE x \in s : TRUE}]
        /\ h[s] = IF s = {} THEN 0
                  ELSE high[CHOOSE x \in s : TRUE] + h[s \ {CHOOSE x \in s : TRUE}]
  BY Zenon, <1>1 DEF Sums
<1>z. Good({})
  <2>1. {} \in SUBSET D
    OBVIOUS
  <2>2. l[{}] = 0 /\ h[{}] = 0
    <3> HIDE DEF D
    <3> QED
      BY Zenon, <1>3, <2>1
  <2> QED
    BY <2>2
<1>4. Fails = {}
  <2> SUFFICES ASSUME Fails # {} PROVE FALSE
    OBVIOUS
  <2>1. PICK n \in Fails : \A m \in Fails : n <= m
    BY Zenon, AnyPipe!LeastFailure
  <2>2. PICK s \in SUBSET D : Cardinality(s) = n /\ ~Good(s)
    OBVIOUS
  <2>3. s # {}
    <3> HIDE DEF Good
    <3> QED
      BY <1>z, <2>2
  <2>4. PICK x : x = CHOOSE y \in s : TRUE
    OBVIOUS
  <2>a. x \in s
    BY <2>3, <2>4
  <2>5. /\ l[s] = low[x] + l[s \ {x}] /\ h[s] = high[x] + h[s \ {x}]
    BY Zenon, <1>3, <2>3, <2>4
  <2>6. s \ {x} \in SUBSET D /\ Cardinality(s \ {x}) = n - 1 /\ n \in Nat /\ n - 1 \in Nat
    <3>1. IsFiniteSet(s) /\ IsFiniteSet(s \ {x})
      BY FS_Subset
    <3>2. Cardinality(s) \in Nat /\ Cardinality(s \ {x}) \in Nat
      BY <3>1, FS_CardinalityType
    <3>3. Cardinality(s \ {x}) = Cardinality(s) - 1
      BY <2>a, <3>1, FS_RemoveElement
    <3> QED
      BY <2>2, <3>2, <3>3
  <2>7. Good(s \ {x})
    <3> SUFFICES ASSUME ~Good(s \ {x}) PROVE FALSE
      OBVIOUS
    <3>1. n - 1 \in Fails
      BY <2>6
    <3> HIDE DEF Fails
    <3> QED
      BY <2>1, <2>6, <3>1
  <2>8. low[x] \in Int /\ high[x] \in Int /\ low[x] <= high[x]
    BY <2>a
  <2> QED
    BY <2>2, <2>5, <2>7, <2>8
<1>5. Cardinality(D) \in Nat
  BY FS_CardinalityType
<1>6. Good(D)
  BY <1>4, <1>5
<1> QED
  BY <1>2, <1>6
-----------------------------------------------------------------------------
(* One of the strongest of some rows.                                       *)
Top(row, some) == row \in some /\ \A other \in some : Score!Abs(RowWeight[other]) <= Score!Abs(RowWeight[row])

LEMMA TopExists ==
    ASSUME NEW some \in SUBSET Score!Features, some # {}
    PROVE  \E row : Top(row, some)
<1> DEFINE W(row) == Score!Abs(RowWeight[row])
           Above(row) == { other \in some : W(row) < W(other) }
           Counts == { Cardinality(Above(row)) : row \in some }
<1>1. IsFiniteSet(some)
  BY TableIsFinite, FS_Subset
<1>2. \A row \in some : IsFiniteSet(Above(row)) /\ Cardinality(Above(row)) \in Nat
  BY <1>1, FS_Subset, FS_CardinalityType
<1>3. \A row \in some : W(row) \in Nat
  BY TableIs
<1> HIDE DEF W
<1>4. Counts \subseteq Nat /\ Counts # {}
  BY Zenon, <1>2
<1>5. PICK n \in Counts : \A m \in Counts : n <= m
  <2> HIDE DEF Counts
  <2> QED
    BY Zenon, <1>4, AnyPipe!LeastFailure
<1>6. PICK row \in some : Cardinality(Above(row)) = n
  OBVIOUS
<1>7. ASSUME NEW other \in some PROVE W(other) <= W(row)
  <2> SUFFICES ASSUME W(row) < W(other) PROVE FALSE
    BY <1>3
  <2>1. Above(other) \in SUBSET Above(row) /\ other \in Above(row) /\ other \notin Above(other)
    BY <1>3
  <2>2. /\ Cardinality(Above(other)) <= Cardinality(Above(row))
        /\ Cardinality(Above(row)) = Cardinality(Above(other)) => Above(row) = Above(other)
    <3>1. IsFiniteSet(Above(row))
      BY <1>2
    <3> HIDE DEF Above
    <3> QED
      BY <2>1, <3>1, FS_Subset
  <2>3. Cardinality(Above(other)) \in Counts /\ Cardinality(Above(other)) \in Nat
    BY Zenon, <1>2
  <2>4. Cardinality(Above(row)) \in Nat /\ n <= Cardinality(Above(other))
    <3> HIDE DEF Counts
    <3> QED
      BY <1>2, <1>5, <2>3
  <2> HIDE DEF Above
  <2> QED
    BY <1>6, <2>1, <2>2, <2>3, <2>4
<1> QED
  BY <1>7 DEF Top, W

(* What one list of rows adds to others weighs no more than what another    *)
(* adds: both accuse, and there is nothing in the first that the second     *)
(* does not accuse of as strongly; or both excuse, the first more strongly. *)
Weaker(one, other) ==
    \/ /\ \A row \in one \cup other : 0 <= RowWeight[row]
       /\ \A row \in one : \E more \in other : RowWeight[row] <= RowWeight[more]
    \/ /\ \A row \in one \cup other : RowWeight[row] <= 0
       /\ \A row \in one, more \in other : RowWeight[row] <= RowWeight[more]

LEMMA WeakerWeighsLess ==
    ASSUME NEW rest \in SUBSET Score!Features, NEW one \in SUBSET Score!Features,
           NEW other \in SUBSET Score!Features,
           \A r, s \in rest \cup one \cup other : RowGroup[r] = RowGroup[s],
           one # {}, other # {}, Weaker(one, other),
           NEW a, Top(a, rest \cup one), NEW b, Top(b, rest \cup other)
    PROVE  RowWeight[a] <= RowWeight[b]
<1> DEFINE L(row) == RowWeight[row]
           W(row) == Score!Abs(RowWeight[row])
<1>1. \A row \in rest \cup one \cup other :
        /\ L(row) \in Int /\ W(row) \in Nat
        /\ W(row) = L(row) \/ W(row) = -L(row)
  BY TableIs DEF Score!Abs
<1>2. \A row \in rest \cup one \cup other :
        (0 <= L(row) => W(row) = L(row)) /\ (L(row) <= 0 => W(row) = -L(row))
  BY TableIs DEF Score!Abs
<1>3. \A r, s \in rest \cup one \cup other : W(r) = W(s) => L(r) = L(s)
  BY TableIs
<1>4. /\ a \in rest \cup one /\ \A r \in rest \cup one : W(r) <= W(a)
      /\ b \in rest \cup other /\ \A r \in rest \cup other : W(r) <= W(b)
  BY DEF Top
<1>5. \/ /\ \A row \in one \cup other : 0 <= L(row)
         /\ \A row \in one : \E more \in other : L(row) <= L(more)
      \/ /\ \A row \in one \cup other : L(row) <= 0
         /\ \A row \in one, more \in other : L(row) <= L(more)
  BY DEF Weaker
<1> HIDE DEF L
<1> HIDE DEF W
<1>6. CASE a \in rest /\ b \in rest
  <2>1. W(a) = W(b)
    BY <1>1, <1>4, <1>6
  <2> QED
    BY <1>1, <1>3, <1>6, <2>1 DEF L
<1>7. CASE a \in one /\ b \in other
  <2>1. CASE /\ \A row \in one \cup other : 0 <= L(row)
             /\ \A row \in one : \E more \in other : L(row) <= L(more)
    <3>1. PICK more \in other : L(a) <= L(more)
      BY <1>7, <2>1
    <3>2. W(more) <= W(b) /\ W(more) = L(more) /\ W(b) = L(b)
      BY <1>2, <1>4, <1>7, <2>1
    <3> QED
      BY <1>1, <1>7, <3>1, <3>2 DEF L
  <2>2. CASE \A row \in one, more \in other : L(row) <= L(more)
    BY <1>7, <2>2 DEF L
  <2> QED
    BY <1>5, <2>1, <2>2
<1>8. CASE a \in rest /\ b \in other
  <2>1. W(a) <= W(b)
    BY <1>4, <1>8
  <2>2. CASE \A row \in one \cup other : 0 <= L(row)
    BY <1>1, <1>2, <1>8, <2>1, <2>2 DEF L
  <2>3. CASE /\ \A row \in one \cup other : L(row) <= 0
             /\ \A row \in one, more \in other : L(row) <= L(more)
    <3>1. PICK c \in one : TRUE
      OBVIOUS
    <3>2. W(c) <= W(a) /\ L(c) <= L(b) /\ W(c) = -L(c) /\ W(b) = -L(b)
      BY <1>2, <1>4, <1>8, <2>3
    <3>3. W(a) = W(b)
      BY <1>1, <1>8, <2>1, <3>2
    <3> QED
      BY <1>1, <1>3, <1>8, <3>3 DEF L
  <2> QED
    BY <1>5, <2>2, <2>3
<1>9. CASE a \in one /\ b \in rest
  <2>1. W(b) <= W(a)
    BY <1>4, <1>9
  <2>2. CASE /\ \A row \in one \cup other : 0 <= L(row)
             /\ \A row \in one : \E more \in other : L(row) <= L(more)
    <3>1. PICK more \in other : L(a) <= L(more)
      BY <1>9, <2>2
    <3>2. W(more) <= W(b) /\ W(more) = L(more) /\ W(a) = L(a)
      BY <1>2, <1>4, <1>9, <2>2
    <3>3. W(a) = W(b)
      BY <1>1, <1>9, <2>1, <3>1, <3>2
    <3> QED
      BY <1>1, <1>3, <1>9, <3>3 DEF L
  <2>3. CASE \A row \in one \cup other : L(row) <= 0
    BY <1>1, <1>2, <1>9, <2>1, <2>3 DEF L
  <2> QED
    BY <1>5, <2>2, <2>3
<1> QED
  BY <1>4, <1>6, <1>7, <1>8, <1>9

(* Strongest has one of the strongest rows of every group.                  *)
OfGroup(list, g) == { row \in list : RowGroup[row] = g }
TopOf(of) == CHOOSE r \in of : \A s \in of : Score!Abs(RowWeight[s]) <= Score!Abs(RowWeight[r])

LEMMA StrongestIs ==
    ASSUME NEW list \in SUBSET Score!Features
    PROVE  /\ DOMAIN Score!Each(Score!Strongest(list)) = { RowGroup[row] : row \in list }
           /\ \A g \in { RowGroup[row] : row \in list } :
                /\ Top(TopOf(OfGroup(list, g)), OfGroup(list, g))
                /\ Score!Each(Score!Strongest(list))[g] = RowWeight[TopOf(OfGroup(list, g))]
<1> DEFINE Groups == { RowGroup[row] : row \in list }
           st == Score!Strongest(list)
<1>1. st = [g \in Groups |-> TopOf(OfGroup(list, g))]
  BY DEF Score!Strongest, TopOf, OfGroup
<1>2. Score!Each(st) = [g \in DOMAIN st |-> RowWeight[st[g]]]
  BY DEF Score!Each
<1>3. ASSUME NEW g \in Groups PROVE Top(TopOf(OfGroup(list, g)), OfGroup(list, g))
  <2>1. OfGroup(list, g) \in SUBSET Score!Features /\ OfGroup(list, g) # {}
    BY DEF OfGroup
  <2>2. \E row : Top(row, OfGroup(list, g))
    BY <2>1, TopExists
  <2> QED
    BY <2>2 DEF Top, TopOf
<1> HIDE DEF st
<1>4. DOMAIN st = Groups /\ DOMAIN Score!Each(st) = Groups
  BY <1>1, <1>2
<1>5. ASSUME NEW g \in Groups PROVE Score!Each(st)[g] = RowWeight[TopOf(OfGroup(list, g))]
  <2> HIDE DEF Groups
  <2> QED
    BY <1>1, <1>2, <1>4
<1> QED
  BY <1>3, <1>4, <1>5 DEF st

(* The rows a verdict on a signature can add.                               *)
OfSignatures ==
    Score!AccusingRows \cup {"signed_microsoft_catalog", "signed_trusted_publisher",
                       "signature_unverifiable", "signature_invalid"}

LEMMA SignatureRowsAreOfTheTable ==
    OfSignatures \subseteq Score!Features /\ \A row \in OfSignatures : RowGroup[row] = "signature"
<1>1. OfSignatures \subseteq Score!Features
  BY DEF OfSignatures, Score!AccusingRows, Score!UnsignedRows, Score!Features
<1> QED
  BY <1>1, ScoreAssumption DEF Score!SignatureAssumption, OfSignatures

(* So a weaker verdict leaves the score where it was, or lower.             *)
LEMMA WeakerIsWorthLess ==
    ASSUME NEW base \in SUBSET Score!Features, NEW one \in SUBSET OfSignatures,
           NEW other \in SUBSET OfSignatures, one # {}, other # {}, Weaker(one, other)
    PROVE  Score!Worth(base \cup one) <= Score!Worth(base \cup other)
<1> DEFINE low == Score!Each(Score!Strongest(base \cup one))
           high == Score!Each(Score!Strongest(base \cup other))
           Groups == { RowGroup[row] : row \in base \cup one }
<1>1. /\ base \cup one \in SUBSET Score!Features /\ base \cup other \in SUBSET Score!Features
      /\ one \in SUBSET Score!Features /\ other \in SUBSET Score!Features
      /\ \A row \in one \cup other : RowGroup[row] = "signature"
  BY SignatureRowsAreOfTheTable
<1>2. { RowGroup[row] : row \in base \cup other } = Groups /\ "signature" \in Groups
  BY <1>1
<1>3. DOMAIN low = Groups /\ DOMAIN high = Groups
  BY Zenon, <1>1, <1>2, StrongestIs
<1>4. IsFiniteSet(Groups)
  <2>1. IsFiniteSet(base \cup one)
    BY <1>1, TableIsFinite, FS_Subset
  <2> DEFINE f == [row \in base \cup one |-> RowGroup[row]]
  <2>2. f \in Surjection(base \cup one, Groups)
    BY DEF Surjection
  <2> QED
    BY <2>1, <2>2, FS_Surjection
<1>5. ASSUME NEW g \in Groups
      PROVE  low[g] \in Int /\ high[g] \in Int /\ low[g] <= high[g]
  <2> DEFINE ofOne == OfGroup(base \cup one, g)
             ofOther == OfGroup(base \cup other, g)
             rest == OfGroup(base, g)
             a == TopOf(ofOne)
             b == TopOf(ofOther)
  <2>1. Top(a, ofOne) /\ low[g] = RowWeight[a]
    BY Zenon, <1>1, StrongestIs
  <2>2. Top(b, ofOther) /\ high[g] = RowWeight[b]
    <3>1. g \in { RowGroup[row] : row \in base \cup other }
      BY Zenon, <1>2
    <3> QED
      BY Zenon, <1>1, <3>1, StrongestIs
  <2>3. RowWeight[a] \in Int /\ RowWeight[b] \in Int
    <3>1. a \in Score!Features /\ b \in Score!Features
      BY <1>1, <2>1, <2>2 DEF Top, OfGroup
    <3> QED
      BY <3>1, TableIs
  <2> HIDE DEF low, high
  <2>4. CASE g # "signature"
    <3>1. ofOne = ofOther
      BY <1>1, <2>4 DEF OfGroup
    <3> HIDE DEF ofOne, ofOther
    <3>2. a = b
      BY <3>1
    <3> QED
      BY <2>1, <2>2, <2>3, <3>2
  <2>5. CASE g = "signature"
    <3>1. /\ ofOne = rest \cup one /\ ofOther = rest \cup other /\ rest \in SUBSET Score!Features
          /\ \A r, s \in rest \cup one \cup other : RowGroup[r] = RowGroup[s]
      BY <1>1, <2>5 DEF OfGroup
    <3> HIDE DEF ofOne, ofOther, rest, a, b
    <3>2. Top(a, rest \cup one) /\ Top(b, rest \cup other)
      BY <2>1, <2>2, <3>1
    <3>3. RowWeight[a] <= RowWeight[b]
      BY <1>1, <3>1, <3>2, WeakerWeighsLess
    <3> QED
      BY <2>1, <2>2, <2>3, <3>3
  <2> QED
    BY <2>4, <2>5
<1> HIDE DEF low, high, Groups
<1>6. Score!Total(low) <= Score!Total(high)
  BY <1>3, <1>4, <1>5, TotalIsMonotonic
<1> QED
  BY <1>6 DEF Score!Worth, low, high
-----------------------------------------------------------------------------
(* A verdict on the signature is all that one more verdict says.            *)
Others == { o \in observed : o.kind # "Signature" }
Compressed(status) ==
    IF /\ census.usable /\ executable /\ census.compresses_little
       /\ compact_os = "CompactOsReadable" /\ status = "CompactOsUnknown"
    THEN {"compact_os_compressed_executable"} ELSE {}
Own(status) == Score!ToSet(Score!SignatureRows(status, Others)) \cup Compressed(status)

LEMMA OneMoreVerdict ==
    ASSUME NEW status
    PROVE  LET obs == Others \cup {Score!Signed(status)}
           IN /\ \A kind : kind # "Signature" => (Score!Is(kind) \in obs <=> Score!Is(kind) \in Others)
              /\ Score!Managed(obs) = Score!Managed(Others) /\ Score!Autostart(obs) = Score!Autostart(Others)
              /\ Score!Counted(obs) = Score!Counted(Others)
              /\ \A inferred : Score!Ran(obs, inferred) = Score!Ran(Others, inferred)
              /\ Score!Deletions(obs) = Score!Deletions(Others)
              /\ (\E o \in obs : o.kind = "Executed") = (\E o \in Others : o.kind = "Executed")
              /\ \A s : Score!Signed(s) \in obs <=> s = status
<1> DEFINE obs == Others \cup {Score!Signed(status)}
<1>1. Score!Signed(status).kind = "Signature" /\ Score!Signed(status).status = status
  BY DEF Score!Signed
<1>2. \A kind : Score!Is(kind).kind = kind
  BY DEF Score!Is
<1>3. \A o \in Others : o.kind # "Signature"
  BY DEF Others
<1>4. \A s : Score!Signed(s).kind = "Signature" /\ Score!Signed(s).status = s
  BY DEF Score!Signed
<1>5. \A o : o \in obs <=> o \in Others \/ o = Score!Signed(status)
  OBVIOUS
<1> HIDE DEF obs
<1>6. \A kind : kind # "Signature" => (Score!Is(kind) \in obs <=> Score!Is(kind) \in Others)
  BY <1>1, <1>2, <1>5
<1>7. Score!Managed(obs) = Score!Managed(Others) /\ Score!Counted(obs) = Score!Counted(Others)
  BY <1>6 DEF Score!Managed, Score!Counted
<1>8. Score!Autostart(obs) = Score!Autostart(Others)
  BY <1>1, <1>5 DEF Score!Autostart
<1>9. \A inferred : { e \in obs : e.kind = "Executed" /\ e.inferred = inferred }
                      = { e \in Others : e.kind = "Executed" /\ e.inferred = inferred }
  BY <1>1, <1>5
<1>10. { d \in obs : d.kind = "FileDeleted" } = { d \in Others : d.kind = "FileDeleted" }
  BY <1>1, <1>5
<1>11. (\E o \in obs : o.kind = "Executed") = (\E o \in Others : o.kind = "Executed")
  BY <1>1, <1>5
<1>12. \A s : Score!Signed(s) \in obs <=> s = status
  BY <1>1, <1>3, <1>4, <1>5
<1>13. \A inferred : Score!Ran(obs, inferred) = Score!Ran(Others, inferred)
  BY <1>9 DEF Score!Ran
<1>14. Score!Deletions(obs) = Score!Deletions(Others)
  BY <1>10 DEF Score!Deletions
<1> QED
  BY <1>6, <1>7, <1>8, <1>11, <1>12, <1>13, <1>14 DEF obs

LEMMA OfferedWith ==
    ASSUME observed \subseteq Statements, NEW status \in Score!Statuses
    PROVE  Score!Offered(Others \cup {Score!Signed(status)}, compact_os)
             = Score!Offered(Others, compact_os) \cup Own(status)
<1> DEFINE obs == Others \cup {Score!Signed(status)}
           last == Score!When(census.in_window, "created_in_incident_window")
<1>1. /\ \A kind : kind # "Signature" => (Score!Is(kind) \in obs <=> Score!Is(kind) \in Others)
      /\ Score!Managed(obs) = Score!Managed(Others) /\ Score!Autostart(obs) = Score!Autostart(Others)
      /\ Score!Counted(obs) = Score!Counted(Others)
      /\ \A inferred : Score!Ran(obs, inferred) = Score!Ran(Others, inferred)
      /\ Score!Deletions(obs) = Score!Deletions(Others)
      /\ (\E o \in obs : o.kind = "Executed") = (\E o \in Others : o.kind = "Executed")
      /\ \A s : Score!Signed(s) \in obs <=> s = status
  BY OneMoreVerdict
<1>2. \A s : Score!Signed(s) \notin Others
  BY DEF Others, Score!Signed
<1> HIDE DEF obs
<1>3. Score!NoTrustedSignature(obs) = Score!NoTrustedSignature(Others)
  BY <1>1 DEF Score!NoTrustedSignature
<1>4. \A s : Score!SignatureRows(s, obs) = Score!SignatureRows(s, Others)
  BY <1>3 DEF Score!SignatureRows, Score!SelfSigned
<1>5. Score!VersionResourceRows(obs) = Score!VersionResourceRows(Others)
  BY <1>1 DEF Score!VersionResourceRows
<1>6. \A o : Score!RowsOf(o, obs) = Score!RowsOf(o, Others)
  BY <1>4, <1>5 DEF Score!RowsOf
<1>7. Score!RowsOf(Score!Signed(status), Others) = Score!SignatureRows(status, Others)
  <2>1. "Signature" \notin DOMAIN Score!Plainly
    BY DEF Score!Plainly
  <2>2. Score!Signed(status).kind = "Signature" /\ Score!Signed(status).status = status
    BY DEF Score!Signed
  <2> QED
    BY <2>1, <2>2 DEF Score!RowsOf
<1>8. UNION { Score!ToSet(Score!RowsOf(o, obs)) : o \in obs }
        = (UNION { Score!ToSet(Score!RowsOf(o, Others)) : o \in Others })
             \cup Score!ToSet(Score!SignatureRows(status, Others))
  <2>1. UNION { Score!ToSet(Score!RowsOf(o, obs)) : o \in obs } = UNION { Score!ToSet(Score!RowsOf(o, Others)) : o \in obs }
    BY <1>6
  <2> QED
    BY Zenon, <1>7, <2>1 DEF obs
<1>9. Score!BaselineRows(census, obs) = Score!BaselineRows(census, Others)
  BY <1>1 DEF Score!BaselineRows, Score!NameRows
<1>10. Score!LifecycleRows(census, obs) = Score!LifecycleRows(census, Others)
  <2>1. Score!LastExecution(obs) = Score!LastExecution(Others)
    BY Zenon, <1>1 DEF Score!LastExecution
  <2>2. Score!Is("FileExists") \in obs <=> Score!Is("FileExists") \in Others
    BY <1>1
  <2> QED
    BY <1>1, <2>1, <2>2, Zenon DEF Score!LifecycleRows
<1>11. census.usable =>
         Score!ToSet(Score!CompactOsRows(census, obs, compact_os))
           = Score!ToSet(Score!CompactOsRows(census, Others, compact_os)) \cup Compressed(status)
  <2> DEFINE row == "compact_os_compressed_executable"
             open == executable /\ census.compresses_little
             was == open /\ compact_os = "CompactOsUnreadable"
             now == open /\ (\/ compact_os = "CompactOsUnreadable"
                             \/ compact_os = "CompactOsReadable" /\ status = "CompactOsUnknown")
  <2>1. Score!ToSet(<< row >>) = {row} /\ Score!ToSet(<< >>) = {}
    BY DEF Score!ToSet
  <2>2. Score!ToSet(Score!CompactOsRows(census, Others, compact_os)) = IF was THEN {row} ELSE {}
    BY Zenon, <1>2, <2>1 DEF Score!CompactOsRows, Score!When
  <2>3. Score!ToSet(Score!CompactOsRows(census, obs, compact_os)) = IF now THEN {row} ELSE {}
    BY Zenon, <1>1, <2>1 DEF Score!CompactOsRows, Score!When
  <2> QED
    BY <2>2, <2>3 DEF Compressed
<1>12. Score!ToSet(Score!Concluded(census, obs, compact_os)) = Score!ToSet(Score!Concluded(census, Others, compact_os)) \cup Compressed(status)
  <2>1. ~census.usable => Compressed(status) = {}
    BY DEF Compressed
  <2>2. Score!ToSet(Score!Concluded(census, obs, compact_os)) =
             Score!ToSet(Score!PathRows)
               \cup (IF census.usable
                     THEN Score!ToSet(Score!BaselineRows(census, obs)) \cup Score!ToSet(Score!CompactOsRows(census, obs, compact_os))
                     ELSE {})
               \cup Score!ToSet(Score!LifecycleRows(census, obs)) \cup Score!ToSet(last)
    BY ConcludedHas
  <2>3. Score!ToSet(Score!Concluded(census, Others, compact_os)) =
             Score!ToSet(Score!PathRows)
               \cup (IF census.usable
                     THEN Score!ToSet(Score!BaselineRows(census, Others))
                            \cup Score!ToSet(Score!CompactOsRows(census, Others, compact_os))
                     ELSE {})
               \cup Score!ToSet(Score!LifecycleRows(census, Others)) \cup Score!ToSet(last)
    BY ConcludedHas
  <2> HIDE DEF last
  <2> QED
    BY <1>9, <1>10, <1>11, <2>1, <2>2, <2>3
<1> QED
  BY Zenon, <1>8, <1>12 DEF Score!Offered, Own, obs

(* The rows of every verdict in the order.                                  *)
LEMMA OwnIs ==
    /\ Score!NoTrustedSignature(Others) \in Score!UnsignedRows
    /\ Own("CatalogMicrosoft") = {"signed_microsoft_catalog"}
    /\ Own("EmbeddedValid") = {"signed_trusted_publisher"}
    /\ Own("Unknown") = {"signature_unverifiable"}
    /\ Own("CompactOsUnknown") = {"signature_unverifiable"} \cup Compressed("CompactOsUnknown")
    /\ Compressed("CompactOsUnknown") \subseteq {"compact_os_compressed_executable"}
    /\ Own("Unsigned") = {Score!NoTrustedSignature(Others)}
    /\ Own("Untrusted") = {Score!NoTrustedSignature(Others)}
    /\ Own("SelfSigned") = {"signature_self_signed", Score!NoTrustedSignature(Others)}
    /\ Own("Invalid") = {"signature_invalid"}
<1>1. \A a, b : Score!ToSet(<< a >>) = {a} /\ Score!ToSet(<< a, b >>) = {a, b}
  BY DEF Score!ToSet
<1>2. \A s : s # "CompactOsUnknown" => Compressed(s) = {}
  BY DEF Compressed
<1>3. Score!NoTrustedSignature(Others) \in Score!UnsignedRows
  BY DEF Score!NoTrustedSignature, Score!UnsignedRows
<1>4. Compressed("CompactOsUnknown") \subseteq {"compact_os_compressed_executable"}
  BY DEF Compressed
<1> DEFINE u == Score!NoTrustedSignature(Others)
<1>5. /\ Score!SignatureRows("CatalogMicrosoft", Others) = << "signed_microsoft_catalog" >>
      /\ Score!SignatureRows("EmbeddedValid", Others) = << "signed_trusted_publisher" >>
      /\ Score!SignatureRows("Unknown", Others) = << "signature_unverifiable" >>
      /\ Score!SignatureRows("CompactOsUnknown", Others) = << "signature_unverifiable" >>
      /\ Score!SignatureRows("Unsigned", Others) = << u >>
      /\ Score!SignatureRows("Untrusted", Others) = << u >>
      /\ Score!SignatureRows("SelfSigned", Others) = << "signature_self_signed", u >>
      /\ Score!SignatureRows("Invalid", Others) = << "signature_invalid" >>
  BY DEF Score!SignatureRows, Score!SelfSigned
<1> HIDE DEF u
<1>6. /\ Own("CatalogMicrosoft") = {"signed_microsoft_catalog"}
      /\ Own("EmbeddedValid") = {"signed_trusted_publisher"}
      /\ Own("Unknown") = {"signature_unverifiable"}
      /\ Own("CompactOsUnknown") = {"signature_unverifiable"} \cup Compressed("CompactOsUnknown")
      /\ Own("Unsigned") = {u}
      /\ Own("Untrusted") = {u}
      /\ Own("SelfSigned") = {"signature_self_signed", u}
      /\ Own("Invalid") = {"signature_invalid"}
  BY <1>1, <1>2, <1>5 DEF Own
<1> QED
  BY <1>3, <1>4, <1>6 DEF u

(* Step by step, the worse verdict is nowhere the weaker one.               *)
LEMMA VerdictsAreOrdered ==
    /\ Weaker(Own("CatalogMicrosoft"), Own("EmbeddedValid"))
    /\ Weaker(Own("EmbeddedValid"), Own("Unknown"))
    /\ Weaker(Own("Unknown"), Own("CompactOsUnknown"))
    /\ Weaker(Own("CompactOsUnknown"), Own("Unsigned"))
    /\ Weaker(Own("Unsigned"), Own("SelfSigned"))
    /\ Weaker(Own("SelfSigned"), Own("Invalid"))
    /\ Weaker(Own("Untrusted"), Own("SelfSigned"))
<1> DEFINE L(row) == RowWeight[row]
           u == Score!NoTrustedSignature(Others)
           x == Compressed("CompactOsUnknown")
<1>1. /\ L("signed_microsoft_catalog") \in Int /\ L("signed_trusted_publisher") \in Int
      /\ L("signature_unverifiable") \in Int /\ L("signature_invalid") \in Int
      /\ L("signature_self_signed") \in Int /\ L("compact_os_compressed_executable") \in Int
      /\ L(u) \in Int
  <2>1. /\ "signed_microsoft_catalog" \in Score!Features /\ "signed_trusted_publisher" \in Score!Features
        /\ "signature_unverifiable" \in Score!Features /\ "signature_invalid" \in Score!Features
        /\ "signature_self_signed" \in Score!Features
        /\ "compact_os_compressed_executable" \in Score!Features
        /\ Score!UnsignedRows \subseteq Score!Features
    BY DEF Score!Features, Score!UnsignedRows
  <2> QED
    BY <2>1, OwnIs, TableIs
<1>2. /\ L("signed_microsoft_catalog") <= L("signed_trusted_publisher")
      /\ L("signed_trusted_publisher") <= 0
      /\ L("signature_unverifiable") = 0
  BY ScoreAssumption DEF Score!SignatureAssumption
<1>3. \A row \in Score!AccusingRows : 0 <= L(row) /\ L(row) <= L("signature_invalid")
  BY ScoreAssumption DEF Score!SignatureAssumption
<1>4. L("compact_os_compressed_executable") <= L(u)
  BY OwnIs, ScoreAssumption DEF Score!SignatureAssumption
<1>5. /\ u \in Score!AccusingRows /\ "signature_self_signed" \in Score!AccusingRows
      /\ "compact_os_compressed_executable" \in Score!AccusingRows
  BY OwnIs DEF Score!AccusingRows
<1>6. /\ 0 <= L(u) /\ L(u) <= L("signature_invalid")
      /\ 0 <= L("signature_self_signed") /\ L("signature_self_signed") <= L("signature_invalid")
      /\ 0 <= L("compact_os_compressed_executable")
  BY <1>3, <1>5
<1>7. 0 <= L("signature_invalid")
  BY <1>1, <1>6
<1>8. x \subseteq {"compact_os_compressed_executable"}
  BY OwnIs
<1>9. \A one, other : Weaker(one, other) <=>
        \/ /\ \A row \in one \cup other : 0 <= L(row)
           /\ \A row \in one : \E more \in other : L(row) <= L(more)
        \/ /\ \A row \in one \cup other : L(row) <= 0
           /\ \A row \in one, more \in other : L(row) <= L(more)
  BY DEF Weaker
<1> HIDE DEF L, u, x
<1>10. /\ Weaker({"signed_microsoft_catalog"}, {"signed_trusted_publisher"})
       /\ Weaker({"signed_trusted_publisher"}, {"signature_unverifiable"})
  BY <1>1, <1>2, <1>9
<1>a. PICK w : w = {"signature_unverifiable"} \cup x
  BY Zenon
<1>b. \A row \in w : L(row) \in Int /\ 0 <= L(row) /\ L(row) <= L(u)
  <2> SUFFICES ASSUME NEW row \in w PROVE L(row) \in Int /\ 0 <= L(row) /\ L(row) <= L(u)
    OBVIOUS
  <2>1. row = "signature_unverifiable" \/ row = "compact_os_compressed_executable"
    BY <1>8, <1>a
  <2> QED
    BY <1>1, <1>2, <1>4, <1>6, <2>1
<1>c. "signature_unverifiable" \in w
  BY <1>a
<1>11. Weaker({"signature_unverifiable"}, {"signature_unverifiable"} \cup x)
  <2>1. /\ \A row \in {"signature_unverifiable"} \cup w : 0 <= L(row)
        /\ \A row \in {"signature_unverifiable"} : L(row) <= L("signature_unverifiable")
    BY <1>1, <1>b, <1>c
  <2>2. Weaker({"signature_unverifiable"}, w)
    BY Zenon, <1>9, <1>c, <2>1
  <2> QED
    BY <1>a, <2>2
<1>12. Weaker({"signature_unverifiable"} \cup x, {u})
  <2>1. \A row \in w \cup {u} : 0 <= L(row)
    BY <1>6, <1>b
  <2>2. Weaker(w, {u})
    BY <1>9, <1>b, <2>1
  <2> QED
    BY <1>a, <2>2
<1>13. Weaker({u}, {"signature_self_signed", u})
  BY <1>1, <1>6, <1>9
<1>14. Weaker({"signature_self_signed", u}, {"signature_invalid"})
  BY <1>1, <1>6, <1>7, <1>9
<1> QED
  BY <1>10, <1>11, <1>12, <1>13, <1>14, OwnIs DEF u, x

(* Whatever else is known of a file, a worse verdict on its signature never *)
(* makes it score less.                                                     *)
THEOREM SignaturesCorrect == MCSpec => []SignatureVerdictsAreOrdered
<1>1. ScoreInv => Score!SignatureVerdictsAreOrdered
  <2> SUFFICES ASSUME ScoreInv, concluded PROVE Score!SignatureVerdictsAreOrdered
    BY DEF Score!SignatureVerdictsAreOrdered
  <2>1. observed \subseteq Statements
    BY DEF ScoreInv
  <2>2. \A status \in Score!Statuses : Score!With(status) = Score!Worth(Score!Offered(Others, compact_os) \cup Own(status))
    BY Zenon, <2>1, OfferedWith DEF Score!With, Others
  <2>3. Score!Offered(Others, compact_os) \in SUBSET Score!Features
    <3>1. (UNION { Score!ToSet(Score!RowsOf(o, Others)) : o \in Others }) \subseteq Score!Features
      <4>1. ASSUME NEW o \in Others PROVE Score!ToSet(Score!RowsOf(o, Others)) \subseteq Score!Features
        <5>1. Score!RowsOf(o, Others) \in Seq(Plain)
          BY <2>1, RowsOfIs DEF Others
        <5> QED
          BY <5>1 DEF Score!ToSet, Plain
      <4> QED
        BY <4>1
    <3>2. Score!ToSet(Score!Concluded(census, Others, compact_os)) \subseteq Score!Features
      <4>1. Score!Concluded(census, Others, compact_os) \in Seq(Score!Features)
        BY ConcludedIs
      <4> QED
        BY <4>1 DEF Score!ToSet
    <3> QED
      BY <3>1, <3>2 DEF Score!Offered
  <2> DEFINE Asked == {"CatalogMicrosoft", "EmbeddedValid", "Unknown", "CompactOsUnknown",
                       "Unsigned", "Untrusted", "SelfSigned", "Invalid"}
  <2>3a. \A status \in Asked : Own(status) \in SUBSET OfSignatures /\ Own(status) # {}
    BY OwnIs DEF OfSignatures, Score!AccusingRows
  <2>3b. Asked \subseteq Score!Statuses
    BY DEF Score!Statuses
  <2>4. \A s, t \in Asked : Weaker(Own(s), Own(t)) => Score!With(s) <= Score!With(t)
    <3> SUFFICES ASSUME NEW s \in Asked, NEW t \in Asked, Weaker(Own(s), Own(t))
                 PROVE  Score!With(s) <= Score!With(t)
      OBVIOUS
    <3>1. s \in Score!Statuses /\ t \in Score!Statuses
      BY <2>3b
    <3>2. /\ Own(s) \in SUBSET OfSignatures /\ Own(s) # {}
          /\ Own(t) \in SUBSET OfSignatures /\ Own(t) # {}
      BY <2>3a
    <3>3. Score!Worth(Score!Offered(Others, compact_os) \cup Own(s)) <= Score!Worth(Score!Offered(Others, compact_os) \cup Own(t))
      BY <2>3, <3>2, WeakerIsWorthLess
    <3> QED
      BY <2>2, <3>1, <3>3
  <2>5. /\ Score!With("CatalogMicrosoft") <= Score!With("EmbeddedValid")
        /\ Score!With("EmbeddedValid") <= Score!With("Unknown")
        /\ Score!With("Unknown") <= Score!With("CompactOsUnknown")
        /\ Score!With("CompactOsUnknown") <= Score!With("Unsigned")
        /\ Score!With("Unsigned") <= Score!With("SelfSigned")
        /\ Score!With("SelfSigned") <= Score!With("Invalid")
        /\ Score!With("Untrusted") <= Score!With("SelfSigned")
    BY <2>4, VerdictsAreOrdered
  <2> DEFINE worth == [i \in DOMAIN Score!Worsening |-> Score!With(Score!Worsening[i])]
  <2>6. /\ DOMAIN Score!Worsening = 1..7
        /\ Score!Worsening[1] = "CatalogMicrosoft" /\ Score!Worsening[2] = "EmbeddedValid"
        /\ Score!Worsening[3] = "Unknown" /\ Score!Worsening[4] = "CompactOsUnknown"
        /\ Score!Worsening[5] = "Unsigned" /\ Score!Worsening[6] = "SelfSigned" /\ Score!Worsening[7] = "Invalid"
    BY DEF Score!Worsening
  <2>7. worth \in [1..7 -> { Score!With(s) : s \in Asked }] /\ Len(worth) = 7
    <3>1. \A i \in 1..7 : Score!Worsening[i] \in Asked
      BY <2>6
    <3>2. worth \in [1..7 -> { Score!With(s) : s \in Asked }]
      BY <2>6, <3>1
    <3> HIDE DEF worth
    <3> QED
      BY <3>2
  <2>8. \A i \in 2..7 : worth[i - 1] <= worth[i]
    <3>1. /\ worth[1] = Score!With("CatalogMicrosoft") /\ worth[2] = Score!With("EmbeddedValid")
          /\ worth[3] = Score!With("Unknown") /\ worth[4] = Score!With("CompactOsUnknown")
          /\ worth[5] = Score!With("Unsigned") /\ worth[6] = Score!With("SelfSigned")
          /\ worth[7] = Score!With("Invalid")
      BY <2>6
    <3> HIDE DEF worth
    <3>2. \A i \in 2..7 : i = 2 \/ i = 3 \/ i = 4 \/ i = 5 \/ i = 6 \/ i = 7
      OBVIOUS
    <3> QED
      BY <2>5, <3>1, <3>2
  <2>9. \A i \in 2..Len(worth) : worth[i - 1] <= worth[i]
    <3> HIDE DEF worth
    <3> QED
      BY <2>7, <2>8
  <2> QED
    BY <2>5, <2>9 DEF Score!SignatureVerdictsAreOrdered
<1>2. (part = "score" => ScoreInv) => SignatureVerdictsAreOrdered
  BY <1>1 DEF SignatureVerdictsAreOrdered
<1> QED
  BY <1>2, ScoreInvHolds, PTL
=============================================================================
