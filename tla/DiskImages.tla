----------------------------- MODULE DiskImages -----------------------------
(***************************************************************************)
(* mm-env, vmdk.rs, vdi.rs and ImageFile of image.rs: a disk read from the  *)
(* files of a virtual machine.  A VMDK is a chain of links, newest first;   *)
(* each is cut into extents, and what a link does not hold is its parent's. *)
(* A VDI is one map of blocks.                                              *)
(*                                                                         *)
(* Sizes are in sectors of SectorSize bytes, a grain is GrainSectors of     *)
(* them, and the grains of a sparse file lie in the opposite order, so that *)
(* a read past the end of one finds another.  A stored byte is << the file  *)
(* it is in, its offset on the disk >>.  A grain table that cannot be read  *)
(* and a header that is refused end the read or the opening with an error   *)
(* and change nothing; they and the cache of grain tables, whose contents   *)
(* never differ from the read-only file's, are left out.                    *)
(***************************************************************************)
EXTENDS Integers, Sequences, FiniteSets, SequencesExt, FiniteSetsExt

CONSTANTS
    Files,              \* the .vmdk files of a directory
    NoFile,
    Directories,        \* from some of Files to [cid, parent_cid, hint, readable]
    Bodies,             \* what the extents of a link may be
    Vdis,               \* [map, disk_size], the VDI images
    SectorSize, GrainSectors, BlockSize, BlockExtra,
    Base,               \* parentCID=ffffffff
    Zero, Junk,         \* bytes no link stored
    MaxChain,           \* MAX_CHAIN
    MaxParentScan,      \* MAX_PARENT_SCAN
    MaxWant             \* bound: bytes asked for at once

(* A directory holds finitely many files; a hint may name one that is gone. *)
FileAssumption ==
    /\ IsFiniteSet(Files) /\ MaxChain \in Nat /\ MaxParentScan \in Nat
    /\ \A d \in Directories : DOMAIN d \subseteq Files

VARIABLES
    dir,                \* the files beside each other, and their descriptors
    vdi,
    next,               \* Vmdk::open: the file to open
    chain,              \* Vmdk.chain: the files
    body,               \* the extents of each link
    phase,
    pos,
    got                 \* the bytes of the last read

image == << dir, vdi, next, chain, body, phase >>
vars == << image, pos, got >>

GrainBytes == GrainSectors * SectorSize
Grains(extent) == (extent.sectors + GrainSectors - 1) \div GrainSectors

(* The extents of a link lie one behind the other.                          *)
Ends(extents) ==
    LET ends[n \in 0 .. Len(extents)] == IF n = 0 THEN 0 ELSE ends[n - 1] + extents[n].sectors
    IN ends
Start(extents, i) == Ends(extents)[i - 1]
Sectors(extents) == Ends(extents)[Len(extents)]

(* What is in the files: extents of any kind and length, no size zero, and  *)
(* no block of a VDI in two places of its disk.                             *)
IsExtent(x) ==
    /\ x.sectors \in Nat /\ x.kind \in {"zero", "flat", "sparse"}
    /\ x.kind = "flat" => x.offset \in Nat /\ x.file_len \in Nat
    /\ x.kind = "sparse" =>
         x.grains \in [0 .. Grains(x) - 1 -> {"unallocated", "zeroed", "stored"}]
IsSequence(s) == Len(s) \in Nat /\ DOMAIN s = 1 .. Len(s)

ImageAssumption ==
    /\ {SectorSize, GrainSectors, BlockSize} \subseteq Nat \ {0}
    /\ BlockExtra \in Nat /\ MaxWant \in Nat
    /\ \A extents \in Bodies : IsSequence(extents) /\ \A i \in DOMAIN extents : IsExtent(extents[i])
    /\ \A v \in Vdis :
         /\ IsSequence(v.map) /\ v.disk_size \in Nat
         /\ \A b \in DOMAIN v.map : v.map[b] = NoFile \/ v.map[b] \in Nat
         /\ \A b, c \in DOMAIN v.map : v.map[b] = v.map[c] /\ v.map[b] # NoFile => b = c

Init ==
    /\ dir \in Directories
    /\ next \in DOMAIN dir
    /\ chain = << >> /\ body = << >>
    /\ vdi = NoFile /\ phase = "opening"
    /\ pos = 0
    /\ got = << >>

-----------------------------------------------------------------------------
(* Vmdk::open: the chain from a link to its base.                           *)
Claims(f, cid) == dir[f].readable /\ dir[f].cid = cid

(* Fault: of several files that claim a CID the first is taken.             *)
AnyOf(found) == found # {}

OnlyOne(found) == Cardinality(found) = 1

(* The files beside a link that are looked into: MAX_PARENT_SCAN of them,   *)
(* the first in the order the directory lists them, which may be any.       *)
Beside(f) == DOMAIN dir \ {f}
Looked(f) == {scanned \in SUBSET Beside(f) :
                 Cardinality(scanned) = Min({MaxParentScan, Cardinality(Beside(f))})}

(* find_parent: the hint if it can be read and has the CID that is wanted,  *)
(* or the only file scanned that has it.                                    *)
Found(f, scanned) ==
    LET want == dir[f].parent_cid
        hint == dir[f].hint
        matches == {g \in scanned : Claims(g, want)}
    IN  IF hint \in DOMAIN dir /\ Claims(hint, want) THEN {hint}
        ELSE IF OnlyOne(matches) THEN matches ELSE {}

Parents(f) == UNION {Found(f, scanned) : scanned \in Looked(f)}

OpenFails ==
    /\ phase = "opening"
    /\ \/ Len(chain) >= MaxChain
       \/ next \in ToSet(chain)
       \/ ~dir[next].readable
       \/ dir[next].parent_cid # Base /\ \E scanned \in Looked(next) : Found(next, scanned) = {}
    /\ phase' = "refused"
    /\ UNCHANGED << dir, vdi, next, chain, body, pos, got >>

OpenLink ==
    /\ phase = "opening"
    /\ Len(chain) < MaxChain /\ next \notin ToSet(chain) /\ dir[next].readable
    /\ chain' = Append(chain, next)
    /\ \E extents \in Bodies : body' = Append(body, extents)
    /\ \/ dir[next].parent_cid = Base /\ phase' = "vmdk" /\ UNCHANGED next
       \/ dir[next].parent_cid # Base /\ next' \in Parents(next) /\ UNCHANGED phase
    /\ UNCHANGED << dir, vdi, pos, got >>

OpenVdi ==
    /\ phase = "opening" /\ chain = << >>
    /\ phase' = "vdi" /\ vdi' \in Vdis
    /\ UNCHANGED << dir, next, chain, body, pos, got >>

-----------------------------------------------------------------------------
(* Vmdk::locate_in: what a link has at a sector, and for how many bytes.    *)
ExtentOf(extents, sector) ==
    {i \in DOMAIN extents : Start(extents, i) <= sector /\ sector < Start(extents, i) + extents[i].sectors}
GrainAt(extent, g) == (Grains(extent) - 1 - g) * GrainBytes

ToExtentEnd(extent, local) == (extent.sectors - local) * SectorSize
ToGrainEnd(local) == (GrainSectors - (local % GrainSectors)) * SectorSize

(* Fault: a run goes on to the end of the extent.                           *)
OnlyTheExtent(extent, local) == ToExtentEnd(extent, local)

SparseRun(extent, local) == Min({ToGrainEnd(local), ToExtentEnd(extent, local)})

Hole(bytes) == [found |-> "unallocated", run |-> bytes]
Zeroed(bytes) == [found |-> "zeroed", run |-> bytes]
At(address, bytes) == [found |-> "at", run |-> bytes, at |-> address]

(* A flat extent begins at an offset of its file.                           *)
BaseOf(extent) == extent.offset * SectorSize

Located(extent, local) ==
    LET address == BaseOf(extent) + local * SectorSize
    IN  CASE extent.kind = "zero" -> Zeroed(ToExtentEnd(extent, local))
          [] extent.kind = "flat" ->
                IF address >= extent.file_len THEN Hole(ToExtentEnd(extent, local))
                ELSE At(address, Min({ToExtentEnd(extent, local), extent.file_len - address}))
          [] extent.kind = "sparse" ->
                LET g == local \div GrainSectors
                    run == SparseRun(extent, local)
                IN  CASE extent.grains[g] = "unallocated" -> Hole(run)
                      [] extent.grains[g] = "zeroed" -> Zeroed(run)
                      [] extent.grains[g] = "stored" ->
                            At(GrainAt(extent, g) + (local % GrainSectors) * SectorSize, run)

(* The byte at an address of an extent's file.                              *)
FileByte(l, i, address) ==
    LET extent == body[l][i]
        local == IF extent.kind = "flat" THEN address - BaseOf(extent)
                 ELSE (Grains(extent) - 1 - address \div GrainBytes) * GrainBytes + (address % GrainBytes)
        length == IF extent.kind = "flat" THEN extent.file_len ELSE Grains(extent) * GrainBytes
    IN  IF address >= length THEN Junk
        ELSE << chain[l], Start(body[l], i) * SectorSize + local >>

-----------------------------------------------------------------------------
(* Reads.                                                                   *)
Capacity == Sectors(body[1]) * SectorSize
Sector == pos \div SectorSize
Within == pos % SectorSize

Covers(l) == ExtentOf(body[l], Sector) # {}
Index(l) == CHOOSE i \in ExtentOf(body[l], Sector) : TRUE
Answer(l) == Located(body[l][Index(l)], Sector - Start(body[l], Index(l)))

(* The links that have an extent there with something left of it.           *)
Asked == {l \in DOMAIN chain : Covers(l) /\ Answer(l).run > Within}

Stops(l) == Answer(l).found # "unallocated"

Bounding(links) == links

VmdkRead(want) ==
    LET stopping == {l \in Asked : Stops(l)}
        walked == IF stopping = {} THEN Asked ELSE {l \in Asked : l <= Min(stopping)}
        n == Min({want} \cup {Answer(l).run - Within : l \in Bounding(walked)})
        from == Min(stopping)
    IN  IF stopping # {} /\ Answer(from).found = "at"
        THEN [i \in 1 .. n |-> FileByte(from, Index(from), Answer(from).at + Within + i - 1)]
        ELSE [i \in 1 .. n |-> Zero]

ToBlockEnd(want) == Min({want, BlockSize - (pos % BlockSize)})

(* vdi.rs: blocks lie behind BlockExtra bytes each; the map is of physical  *)
(* block numbers, or of none.                                               *)
VdiByte(address) ==
    LET physical == address \div (BlockSize + BlockExtra)
        within == (address % (BlockSize + BlockExtra)) - BlockExtra
        blocks == {b \in DOMAIN vdi.map : vdi.map[b] = physical}
    IN  IF within < 0 \/ blocks = {} THEN Junk
        ELSE << "vdi", ((CHOOSE b \in blocks : TRUE) - 1) * BlockSize + within >>

VdiRead(want) ==
    LET n == ToBlockEnd(want)
        index == pos \div BlockSize + 1
    IN  IF index \notin DOMAIN vdi.map \/ vdi.map[index] = NoFile THEN [i \in 1 .. n |-> Zero]
        ELSE [i \in 1 .. n |-> VdiByte(vdi.map[index] * (BlockSize + BlockExtra) + BlockExtra
                                       + (pos % BlockSize) + i - 1)]

DiskSize == IF phase = "vdi" THEN vdi.disk_size ELSE Capacity
IsOpen == phase \in {"vmdk", "vdi"}

ReadDisk ==
    /\ IsOpen
    /\ \E asked \in 1 .. MaxWant :
         LET want == Min({asked, DiskSize - pos})
         IN  got' = IF pos >= DiskSize THEN << >>
                    ELSE IF phase = "vdi" THEN VdiRead(want) ELSE VmdkRead(want)
    /\ pos' = pos + Len(got')
    /\ UNCHANGED image

(* Seek for Vmdk and Vdi, past the end included.                            *)
SeekDisk ==
    /\ IsOpen
    /\ pos' \in 0 .. DiskSize + 1
    /\ got' = << >>
    /\ UNCHANGED image

Next == OpenFails \/ OpenLink \/ OpenVdi \/ ReadDisk \/ SeekDisk

Spec == Init /\ [][Next]_vars

-----------------------------------------------------------------------------
(* What the disk holds, byte by byte.                                       *)
Held(l, o) ==
    LET extents == body[l]
        there == ExtentOf(extents, o \div SectorSize)
        i == CHOOSE x \in there : TRUE
        local == o - Start(extents, i) * SectorSize
        extent == extents[i]
    IN  IF there = {} THEN "unallocated"
        ELSE CASE extent.kind = "zero" -> "zeroed"
               [] extent.kind = "flat" -> IF BaseOf(extent) + local < extent.file_len THEN "stored" ELSE "unallocated"
               [] extent.kind = "sparse" -> extent.grains[local \div GrainBytes]

OnDisk(o) ==
    LET holding == {l \in DOMAIN chain : Held(l, o) # "unallocated"}
        top == Min(holding)
    IN  IF phase = "vdi"
        THEN LET b == o \div BlockSize + 1
             IN  IF b \in DOMAIN vdi.map /\ vdi.map[b] # NoFile THEN << "vdi", o >> ELSE Zero
        ELSE IF holding # {} /\ Held(top, o) = "stored" THEN << chain[top], o >> ELSE Zero

(* A flat extent whose file was cut off inside a sector: Vmdk::read passes  *)
(* over the link without bounding the run (vmdk.rs 880-883), and zeroes     *)
(* the extents that follow.                                                 *)
Torn == \E l \in DOMAIN chain : \E i \in DOMAIN body[l] :
            body[l][i].kind = "flat" /\ body[l][i].file_len % SectorSize # 0

(* Whatever the chain, its extents and the place a read begins at: what is  *)
(* returned is, byte for byte, what the newest link that stored or zeroed   *)
(* it has, it ends where the disk does, and the position moves by its       *)
(* length (Read for Vmdk and Vdi).                                          *)
ReadsTheDisk ==
    got' # << >> /\ ~Torn =>
        /\ pos' = pos + Len(got') /\ pos' <= DiskSize
        /\ \A i \in DOMAIN got' : got'[i] = OnDisk(pos + i - 1)

ServesTheDisk == [][ReadsTheDisk]_vars

(* vmdk.rs 796-798: which of several files with one CID is the parent "is   *)
(* UNKNOWN and guessing would mix two points in time into one disk".  Every *)
(* parent of an opened chain has the CID its child names; the child's own   *)
(* hint names it, or no other file beside the child that can be read has    *)
(* that CID, unless there are more files than are looked into.  No link is  *)
(* there twice, and the last needs no parent.                               *)
NoParentIsGuessed ==
    phase = "vmdk" =>
        /\ IsInjective(chain) /\ Len(chain) <= MaxChain
        /\ dir[chain[Len(chain)]].parent_cid = Base
        /\ \A l \in 1 .. Len(chain) - 1 :
             /\ dir[chain[l + 1]].cid = dir[chain[l]].parent_cid
             /\ \/ dir[chain[l]].hint = chain[l + 1]
                \/ \A f \in Beside(chain[l]) \ {chain[l + 1]} : ~Claims(f, dir[chain[l]].parent_cid)
                \/ Cardinality(Beside(chain[l])) > MaxParentScan
=============================================================================
