------------------------------ MODULE MCMedium ------------------------------
(* What everything is read from, side by side: the handles that share one   *)
(* volume (the parser's, the raw one and a shadow copy's, over a medium     *)
(* whose last offset lies past its end), the files of a virtual disk, the   *)
(* walk of the $MFT and the slack of a directory.  The parts share no       *)
(* state; `part` says which of them a behaviour is of, and the others stay  *)
(* where they begin.                                                        *)
EXTENDS SharedReader, TLC

CONSTANTS
    h1, h2, h3, f1, f2, f3, f4, NoFile, Base, Zero, Junk, Records, Leaves,
    Files, DiskDirectories, Bodies, Vdis, MaxChain, MaxParentScan,
    SectorSize, GrainSectors, BlockSize, BlockExtra, MaxWant,
    Modulus, MaxReuse, MaxSlack

VARIABLES
    part,
    dir, vdi, link, chain, body, disk_phase, disk_pos, bytes,
    mft, damaged, phase, index, checked, next, cache, placed, unresolved, lost,
    record, entries, slack, wanted, named, carved

disk == << dir, vdi, link, chain, body, disk_phase, disk_pos, bytes >>
walk == << mft, damaged, phase, index, checked, next, cache, placed, unresolved, lost >>

directory == << record, entries, slack, wanted, named, carved >>

MCHandles == {h1, h2, h3}

(* A child, its parent with or without a hint, and a third file that may    *)
(* claim the parent's CID or not be readable; a parent may have the child   *)
(* for its own, and be unreadable or gone.  With a fourth file there are    *)
(* more beside the child than MaxParentScan, and the parent may not be      *)
(* looked into.                                                             *)
MCFiles == {f1, f2, f3, f4}
Descriptor(cid, parent, hint, readable) ==
    [cid |-> cid, parent_cid |-> parent, hint |-> hint, readable |-> readable]
Child(hint) == f1 :> Descriptor("a", "b", hint, TRUE)
Other(f, cid, readable) == f :> Descriptor(cid, Base, NoFile, readable)
MCDirectories ==
    {Child(hint) @@ f2 :> Descriptor("b", parent, NoFile, TRUE) @@ Other(f3, cid, TRUE) :
        hint \in {NoFile, f2, f3}, parent \in {Base, "a", "c"}, cid \in {"b", "c"}}
    \cup {Child(hint) @@ Other(f2, "b", readable) @@ Other(f3, "b", ~readable) :
            hint \in {NoFile, f2}, readable \in BOOLEAN}
    \cup {Child(f2) @@ Other(f3, cid, TRUE) : cid \in {"b", "c"}}
    \cup {Child(NoFile) @@ Other(f2, "b", TRUE) @@ Other(f3, cid, TRUE) @@ Other(f4, "b", TRUE) :
            cid \in {"b", "c"}}

Sparse(n, grains) == [kind |-> "sparse", sectors |-> n, grains |-> grains]
Flat(n, offset, len) == [kind |-> "flat", sectors |-> n, offset |-> offset, file_len |-> len]
MCBodies == {
    << Sparse(3, (0 :> "stored" @@ 1 :> "unallocated")) >>,
    << Sparse(3, (0 :> "unallocated" @@ 1 :> "stored")) >>,
    << Sparse(1, (0 :> "stored")), Sparse(2, (0 :> "zeroed")) >>,
    << Flat(2, 1, 4), Sparse(2, (0 :> "stored")) >>,
    << Flat(1, 0, 1), Flat(1, 0, 2) >> }
MCVdis == {[map |-> << 1, NoFile, 0 >>, disk_size |-> 7],
           [map |-> << 0, 1 >>, disk_size |-> 5]}

Disk == INSTANCE DiskImages WITH
    next <- link, phase <- disk_phase, pos <- disk_pos, got <- bytes,
    Directories <- DiskDirectories

(* Directories in the root only, and one in another; a record has been used *)
(* once or twice.                                                           *)
Shallow == INSTANCE MftWalk WITH
    LastRecord <- 3, MaxDepth <- 1, MaxSequence <- 2
Nested == INSTANCE MftWalk WITH
    LastRecord <- 3, MaxDepth <- 2, MaxSequence <- 2

Directory == INSTANCE IndexSlack WITH
    index <- entries, found <- named

ASSUME FileAssumption == Disk!FileAssumption
ASSUME ImageAssumption == Disk!ImageAssumption
ASSUME ReuseIsBounded == Directory!ReuseAssumption
ASSUME WalkAssumption == Shallow!BoundAssumption /\ Nested!BoundAssumption

-----------------------------------------------------------------------------
(* One name stands for the candidate's: names differ in nothing else.       *)
MCInit ==
    /\ part \in {"handles", "disk", "shallow", "nested", "directory"}
    /\ IF part = "handles" THEN TRUE ELSE cursor = 0
    /\ Init
    /\ IF part = "disk" THEN TRUE
       ELSE dir = (CHOOSE d \in DiskDirectories : TRUE) /\ link = CHOOSE f \in DOMAIN dir : TRUE
    /\ Disk!Init
    /\ Nested!Init
    /\ part \notin {"shallow", "nested"} => \A r \in DOMAIN damaged : damaged[r] = "no"
    /\ wanted = CHOOSE name \in Leaves : TRUE
    /\ Directory!Init
    /\ part # "directory" => \A r \in Records : record[r].first = 1

MCNext ==
    \/ part = "handles" /\ Next /\ UNCHANGED << part, disk, walk, directory >>
    \/ part = "disk" /\ Disk!Next /\ UNCHANGED << part, vars, walk, directory >>
    \/ part = "shallow" /\ Shallow!Next /\ UNCHANGED << part, vars, disk, directory >>
    \/ part = "nested" /\ Nested!Next /\ UNCHANGED << part, vars, disk, directory >>
    \/ part = "directory" /\ Directory!Next /\ UNCHANGED << part, vars, disk, walk >>

MCSpec == MCInit /\ [][MCNext]_<< part, vars, disk, walk, directory >>

-----------------------------------------------------------------------------
(* The properties of the parts, by the names they have in their modules.    *)
ServesTheDisk == Disk!ServesTheDisk
NoParentIsGuessed == Disk!NoParentIsGuessed
PathsAreTrue ==
    /\ part = "shallow" => Shallow!PathsAreTrue
    /\ part = "nested" => Nested!PathsAreTrue
LossesAreTold ==
    /\ part = "shallow" => Shallow!LossesAreTold
    /\ part = "nested" => Nested!LossesAreTold
CarvedIsTheNamedFile == Directory!CarvedIsTheNamedFile
FateIsTrue == Directory!FateIsTrue
=============================================================================
