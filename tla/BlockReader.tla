---------------------------- MODULE BlockReader ----------------------------
(***************************************************************************)
(* mm-env/reader.rs: byte-granular reads served from whole aligned blocks   *)
(* of a device, through a direct-mapped cache.  A read is a loop: each turn *)
(* finds or loads the block under the next byte and copies what it holds.   *)
(* The device may answer short, return nothing, or fail after scribbling on *)
(* the buffer it was filling.                                               *)
(***************************************************************************)
EXTENDS Integers, Sequences

CONSTANTS
    Length,         \* bytes on the device
    BlockSize,      \* BLOCK_SIZE
    BlockCount,     \* slots in the cache
    MaxOffset,      \* seeks go no further (u64 in the code)
    MaxWant,        \* longest buffer a caller passes
    Junk            \* a byte that is not the device's

ASSUME GeometryAssumption ==
    /\ BlockSize \in Nat \ {0}
    /\ BlockCount \in Nat \ {0}
    /\ Length \in Nat
    /\ MaxOffset \in Nat
    /\ MaxWant \in Nat
    /\ Length <= MaxOffset
ASSUME JunkAssumption == Junk \notin Nat

VARIABLES
    position,   \* BlockReader.position
    cache,      \* BlockReader.cache: slot -> block
    call,       \* the read in progress: bytes wanted, bytes copied so far
    got         \* the answer to the last operation

vars == << position, cache, call, got >>

Smaller(a, b) == IF a < b THEN a ELSE b
Bytes(from, count) == [i \in 1..count |-> from + i - 1]
Slots == 0..(BlockCount - 1)
EmptyBlock == [start |-> 0, data |-> << >>, valid |-> FALSE]
NoCall == [active |-> FALSE]
Nothing == [kind |-> "nothing"]
Answer(bytes) == [kind |-> "read", bytes |-> bytes]
Refused == [kind |-> "error"]

Init ==
    /\ position = 0
    /\ cache = [s \in Slots |-> EmptyBlock]
    /\ call = NoCall
    /\ got = Nothing

-----------------------------------------------------------------------------
(* The block under a byte, and the only slot that may hold it.              *)
BlockStart(p) == p - (p % BlockSize)
SlotOf(start) == (start \div BlockSize) % BlockCount
WantOf(start) == Smaller(BlockSize, Length - start)

Cursor == position + Len(call.copied)
Start == BlockStart(Cursor)
Slot == SlotOf(Start)

(* Fault: any valid block in the slot is taken for the one asked for.       *)
AnyValidBlock(start) == cache[SlotOf(start)].valid

Hit(start) ==
    /\ cache[SlotOf(start)].valid
    /\ cache[SlotOf(start)].start = start

(* Fault: a read may ask past the end of the device.                        *)
Unclamped(want) == want

Clamped(want) == Smaller(want, Length - position)

BeginRead ==
    /\ ~call.active
    /\ \E want \in 0..MaxWant :
         IF position >= Length \/ want = 0
         THEN got' = Answer(<< >>) /\ UNCHANGED call
         ELSE /\ call' = [active |-> TRUE,
                          want |-> Clamped(want),
                          copied |-> << >>]
              /\ UNCHANGED got
    /\ UNCHANGED << position, cache >>

Copying == call.active /\ Len(call.copied) < call.want

(* load: a miss fills the slot with what the device gives, however little.  *)
LoadBlock ==
    /\ Copying
    /\ ~Hit(Start)
    /\ \E count \in 1..WantOf(Start) :
         cache' = [cache EXCEPT ![Slot] =
                     [start |-> Start, data |-> Bytes(Start, count), valid |-> TRUE]]
    /\ UNCHANGED << position, call, got >>

(* Fault: the slot is left valid while the device scribbles on its buffer.  *)
Scribble(slot) ==
    cache' = [cache EXCEPT ![slot].data = [i \in 1..WantOf(Start) |-> Junk]]

(* read_at failed: the slot was marked invalid before the device saw it.    *)
Invalidate(slot) ==
    cache' = [cache EXCEPT ![slot].data = [i \in 1..WantOf(Start) |-> Junk],
                           ![slot].valid = FALSE]

LoadFails ==
    /\ Copying
    /\ ~Hit(Start)
    /\ Invalidate(Slot)
    /\ call' = NoCall
    /\ got' = Refused
    /\ UNCHANGED position

(* The device returned no bytes at all.                                     *)
LoadEmpty ==
    /\ Copying
    /\ ~Hit(Start)
    /\ cache' = [cache EXCEPT ![Slot] =
                   [start |-> Start, data |-> << >>, valid |-> FALSE]]
    /\ call' = NoCall
    /\ got' = Refused
    /\ UNCHANGED position

Offset == Cursor - Start
Available == Len(cache[Slot].data) - Offset

CopyOut ==
    /\ Copying
    /\ Hit(Start)
    /\ Available > 0
    /\ LET count == Smaller(Available, call.want - Len(call.copied))
       IN call' = [call EXCEPT !.copied =
                     @ \o SubSeq(cache[Slot].data, Offset + 1, Offset + count)]
    /\ UNCHANGED << position, cache, got >>

Advance(count) == position' = position + count

(* Fault: a read ends with the first block it touched.                      *)
FinishAtBlockEnd ==
    /\ call.active
    /\ Len(call.copied) > 0 \/ (Copying /\ Hit(Start) /\ Available <= 0)
    /\ Advance(Len(call.copied))
    /\ got' = Answer(call.copied)
    /\ call' = NoCall
    /\ UNCHANGED cache

(* The loop is over, or stopped at a block the device answered short.       *)
FinishRead ==
    /\ call.active
    /\ \/ Len(call.copied) = call.want
       \/ Copying /\ Hit(Start) /\ Available <= 0
    /\ Advance(Len(call.copied))
    /\ got' = Answer(call.copied)
    /\ call' = NoCall
    /\ UNCHANGED cache

SeekTo ==
    /\ ~call.active
    /\ \E target \in 0..MaxOffset : position' = target
    /\ got' = Nothing
    /\ UNCHANGED << cache, call >>

(* A seek before the start is refused and moves nothing.                    *)
SeekRefused ==
    /\ ~call.active
    /\ got' = Refused
    /\ UNCHANGED << position, cache, call >>

Next ==
    \/ BeginRead \/ LoadBlock \/ LoadFails \/ LoadEmpty \/ CopyOut
    \/ FinishRead \/ SeekTo \/ SeekRefused

Spec == Init /\ [][Next]_vars

-----------------------------------------------------------------------------
(* The cache, the read in progress and the answer have their types.         *)
TypeOK ==
    /\ position \in 0..MaxOffset
    /\ \A s \in Slots :
         /\ cache[s].valid \in BOOLEAN
         /\ cache[s].start \in Nat
         /\ cache[s].data \in Seq(Nat \cup {Junk})
    /\ call = NoCall \/ (call.active /\ call.want \in 1..(Length - position))
    /\ got.kind \in {"nothing", "read", "error"}

(* A valid slot holds the device's bytes from its start, whatever other     *)
(* blocks passed through it and however the loads of those ended.           *)
CacheIsTheDevice ==
    \A s \in Slots : cache[s].valid =>
        cache[s].data = Bytes(cache[s].start, Len(cache[s].data))

(* What was copied so far is the device's bytes from the position on.       *)
CopiedIsTheDevice ==
    call.active => call.copied = Bytes(position, Len(call.copied))

(* A read stops short of what it was asked for only where the device itself *)
(* did: never at a block boundary, a conflict, an eviction or because of an *)
(* earlier failure.                                                         *)
ShortOnlyWhereTheDeviceWas ==
    [][ call.active /\ ~call'.active /\ got'.kind = "read" =>
            \/ Len(got'.bytes) = call.want
            \/ Hit(Start) /\ Len(cache[Slot].data) < WantOf(Start) ]_vars

(* A position moves past bytes only by handing them to the caller: an error *)
(* half way through a read discards its bytes and stays where it was.       *)
Stream == INSTANCE ByteStream WITH
    Readers <- {"device"},
    pos <- [r \in {"device"} |-> position],
    got <- [r \in {"device"} |-> got]
ServesTheDevice == Stream!Spec
=============================================================================
