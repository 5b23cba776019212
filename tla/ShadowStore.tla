---------------------------- MODULE ShadowStore ----------------------------
(***************************************************************************)
(* mm-raw, vss.rs, and ShadowStore::open of acquire.rs: a volume shadow     *)
(* copy read from the blocks its store put aside.  The store's block list   *)
(* is a chain of list blocks; what it does not name is read from the live   *)
(* volume.                                                                  *)
(*                                                                         *)
(* The system that takes the snapshot is external: the first write to a     *)
(* block after the snapshot copies it to the store (Overwrite), a smaller   *)
(* write leaves an overlay (Patch), a stored block may be moved (Move).     *)
(* A byte is << the address it belongs to, "then" or "now" >>.  Store       *)
(* blocks lie behind the volume in the model's addresses; descriptors that  *)
(* name a file's own blocks, and forwarders, which are counted and left     *)
(* alone (vss.rs 300-303), are left out.                                    *)
(***************************************************************************)
EXTENDS Integers, Sequences, FiniteSets, FiniteSetsExt

CONSTANTS
    Blocks,             \* whole blocks of the volume
    BlockSize,          \* BLOCK_SIZE, in addresses
    Rest,               \* addresses behind the last whole block
    Slots,              \* blocks the store has room for
    PerBlock,           \* descriptors of a list block
    MaxListBlocks,      \* MAX_BLOCK_LIST_BLOCKS
    MaxDescriptors,     \* MAX_BLOCK_DESCRIPTORS
    MaxUncertain        \* bound: overlay blocks touched

VARIABLES
    live,               \* of every address of the volume: "then" or "now"
    store,              \* of every slot: the block copied into it, or none
    list,               \* the descriptors, oldest first
    damage,             \* what has happened to the chain
    phase,
    next,               \* read_block_map: the list block to read; 0 at the end
    visited,
    entries,            \* BlockMap.entries: the places in the list of those pushed
    overlays,           \* BlockMap.overlays
    refused,            \* whether a refusal was pushed for this copy
    position,           \* ShadowReader.position
    uncertain,          \* ShadowReader.uncertain
    before,             \* its value when the file now read was begun
    served              \* << address asked for, byte >> of the last read

external == << live, store, list, damage >>
walk == << next, visited, entries, overlays, refused >>
reader == << position, uncertain, before, served >>
vars == << external, phase, walk, reader >>

Size == Blocks * BlockSize + Rest
Addresses == 0 .. Size - 1
None == -1
Outside == Slots
Numbers == 0 .. (Size - 1) \div BlockSize
Descriptor == [original : Numbers, slot : 0 .. Slots, kind : {"plain", "overlay", "unused"}]
Damages == {"none", "unreadable", "loop", "outside"}

SizeAssumption ==
    /\ {Blocks, BlockSize, Slots, PerBlock, MaxListBlocks} \subseteq Nat \ {0}
    /\ {MaxDescriptors, MaxUncertain} \subseteq Nat
    /\ Rest \in 0 .. BlockSize - 1

Init ==
    /\ live = [a \in Addresses |-> "then"]
    /\ store = [s \in 0 .. Slots - 1 |-> None]
    /\ list = << >>
    /\ damage = "none"
    /\ phase = "in_use"
    /\ next = 0 /\ visited = {} /\ entries = {} /\ overlays = {} /\ refused = FALSE
    /\ position = 0 /\ uncertain = 0 /\ before = 0 /\ served = {}

-----------------------------------------------------------------------------
(* The volume after the snapshot.                                           *)
InUse == phase = "in_use" /\ damage = "none"
Within(b) == {a \in Addresses : a \div BlockSize = b}

Overwrite(b) ==
    /\ InUse
    /\ \A i \in DOMAIN list : list[i].original # b
    /\ \E s \in 0 .. Slots - 1 :
         /\ store[s] = None /\ \A i \in DOMAIN list : list[i].slot # s
         /\ store' = [store EXCEPT ![s] = b]
         /\ list' = Append(list, [original |-> b, slot |-> s, kind |-> "plain"])
    /\ live' = [a \in Addresses |-> IF a \in Within(b) THEN "now" ELSE live[a]]
    /\ UNCHANGED << damage, phase, walk, reader >>

Patch(b) ==
    /\ InUse
    /\ \A i \in DOMAIN list : list[i].original # b
    /\ list' = Append(list, [original |-> b, slot |-> 0, kind |-> "overlay"])
    /\ \E a \in Within(b) : live' = [live EXCEPT ![a] = "now"]
    /\ UNCHANGED << store, damage, phase, walk, reader >>

Move(i) ==
    /\ InUse /\ list[i].kind = "plain"
    /\ \E s \in 0 .. Slots - 1 :
         /\ store[s] = None /\ \A j \in DOMAIN list : list[j].slot # s
         /\ store' = [store EXCEPT ![s] = list[i].original, ![list[i].slot] = None]
         /\ list' = Append([list EXCEPT ![i].kind = "unused"], [list[i] EXCEPT !.slot = s])
    /\ UNCHANGED << live, damage, phase, walk, reader >>

(* A list block that cannot be read or is none, a chain led back to its     *)
(* beginning, a descriptor that points outside of the volume.               *)
Break(how) ==
    /\ InUse /\ list # << >>
    /\ damage' = how
    /\ IF how = "outside" THEN \E i \in DOMAIN list : list' = [list EXCEPT ![i].slot = Outside]
                          ELSE UNCHANGED list
    /\ UNCHANGED << live, store, phase, walk, reader >>

-----------------------------------------------------------------------------
(* read_block_map                                                           *)
ListBlocks == 1 .. (Len(list) + PerBlock - 1) \div PerBlock
LastBlock == Cardinality(ListBlocks)
InBlock(n) == {i \in DOMAIN list : (n - 1) * PerBlock < i /\ i <= n * PerBlock}
Unreadable(n) == damage = "unreadable" /\ n = LastBlock
Follow(n) == IF n < LastBlock THEN n + 1 ELSE IF damage = "loop" THEN 1 ELSE 0

Open ==
    /\ phase = "in_use"
    /\ phase' = "walk"
    /\ next' = IF list = << >> THEN 0 ELSE 1
    /\ UNCHANGED << external, visited, entries, overlays, refused, reader >>

Walking == phase = "walk" /\ next # 0 /\ Cardinality(visited) < MaxListBlocks

(* Left out: what is stored outside of the volume, and what the volume's    *)
(* last block held, if it is shorter than the others.                       *)
IsOverlay(i) == list[i].kind = "overlay"
IsMapped(i) == list[i].kind = "plain" /\ list[i].slot < Outside /\ list[i].original < Blocks
Take(n) == {i \in InBlock(n) : IsMapped(i)}

(* A block visited before, or one that cannot be read, ends the walk.       *)
StopWalk ==
    /\ Walking
    /\ next \in visited \/ Unreadable(next)
    /\ refused' = TRUE
    /\ phase' = "mapped"
    /\ visited' = visited \cup {next}
    /\ UNCHANGED << external, next, entries, overlays, reader >>

ReadListBlock ==
    /\ Walking
    /\ next \notin visited /\ ~Unreadable(next)
    /\ Cardinality(entries \cup Take(next)) <= MaxDescriptors
    /\ visited' = visited \cup {next}
    /\ entries' = entries \cup Take(next)
    /\ overlays' = overlays \cup {list[i].original : i \in {j \in InBlock(next) : IsOverlay(j)}}
    /\ next' = Follow(next)
    /\ UNCHANGED << external, phase, refused, reader >>

(* map.truncated: ShadowStore::open does not open the copy.                 *)
Truncate ==
    /\ Walking
    /\ next \notin visited /\ ~Unreadable(next)
    /\ Cardinality(entries \cup Take(next)) > MaxDescriptors
    /\ phase' = "not_opened"
    /\ refused' = TRUE
    /\ UNCHANGED << external, next, visited, entries, overlays, reader >>

EndWalk ==
    /\ phase = "walk" /\ ~Walking
    /\ phase' = "mapped"
    /\ UNCHANGED << external, walk, reader >>

-----------------------------------------------------------------------------
(* ShadowReader.  BlockMap::lookup finds the first descriptor of a block:   *)
(* the sort is stable and dedup_by_key keeps the first.                     *)
Entries(b) == {i \in entries : list[i].original = b}
Mapped(b) == Entries(b) # {}
Lookup(b) == list[Min(Entries(b))].slot

Source(p) ==
    LET b == p \div BlockSize
    IN  IF Mapped(b) THEN Size + Lookup(b) * BlockSize + (p % BlockSize) ELSE p

(* The bytes of the medium: the volume, and the store behind it.            *)
Byte(a) ==
    IF a < Size THEN << a, live[a] >>
    ELSE LET s == (a - Size) \div BlockSize
         IN  IF s \notin DOMAIN store \/ store[s] = None THEN << None, "now" >>
             ELSE << store[s] * BlockSize + ((a - Size) % BlockSize), "then" >>

(* Fault: a read that begins inside a block takes a whole one.              *)
PastTheBlock(p) == BlockSize

Remaining(p) == BlockSize - (p % BlockSize)

Read ==
    /\ phase = "mapped" /\ position < Size
    /\ uncertain < MaxUncertain
    /\ \E n \in 1 .. Size - position :
         /\ n <= Remaining(position)
         /\ served' = {<< position + i, Byte(Source(position) + i) >> : i \in 0 .. n - 1}
         /\ position' = position + n
    /\ uncertain' = IF position \div BlockSize \in overlays THEN uncertain + 1 ELSE uncertain
    /\ UNCHANGED << external, phase, walk, before >>

(* from_shadow_copy begins the next file; NTFS seeks to its next run.       *)
BeginFile ==
    /\ phase = "mapped"
    /\ before' = uncertain
    /\ served' = {}
    /\ UNCHANGED << external, phase, walk, position, uncertain >>

SeekTo ==
    /\ phase = "mapped"
    /\ position' \in 0 .. Size
    /\ served' = {}
    /\ UNCHANGED << external, phase, walk, uncertain, before >>

Next ==
    \/ \E b \in Numbers : Overwrite(b) \/ Patch(b)
    \/ \E i \in DOMAIN list : Move(i)
    \/ \E how \in Damages \ {"none"} : Break(how)
    \/ Open \/ StopWalk \/ ReadListBlock \/ Truncate \/ EndWalk
    \/ Read \/ BeginFile \/ SeekTo

Spec == Init /\ [][Next]_vars

-----------------------------------------------------------------------------
(* The store, the map and the reader keep their types. *)
TypeOK ==
    /\ live \in [Addresses -> {"then", "now"}]
    /\ store \in [0 .. Slots - 1 -> Numbers \cup {None}]
    /\ list \in Seq(Descriptor)
    /\ damage \in Damages
    /\ phase \in {"in_use", "walk", "mapped", "not_opened"}
    /\ entries \subseteq DOMAIN list /\ overlays \subseteq Numbers
    /\ position \in 0 .. Size
    /\ uncertain \in 0 .. MaxUncertain /\ before \in 0 .. uncertain

OfTheSnapshot == \A r \in served : r[1] < Blocks * BlockSize => r[2] = << r[1], "then" >>
Said == uncertain > before
WholeChain == damage = "none" /\ LastBlock <= MaxListBlocks

(* Whatever the reads of one file from a shadow copy whose block list was   *)
(* read to its end, wherever they begin and stop: every byte of a whole     *)
(* block is the snapshot's, or shadow_basis says that part of the file lay  *)
(* in a block with an overlay.                                              *)
TheSnapshotIsServed == phase = "mapped" /\ WholeChain => OfTheSnapshot \/ Said

(* acquire.rs 953-954, of a map cut short by its cap: "a partial map would  *)
(* serve today's bytes where the snapshot's belong"; 1120 says of what is   *)
(* read that "nothing was reconstructed".  For every copy that is opened.   *)
NoPartialMapIsServed == phase = "mapped" => OfTheSnapshot \/ Said

=============================================================================
