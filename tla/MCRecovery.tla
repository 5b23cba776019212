----------------------------- MODULE MCRecovery -----------------------------
(* How bytes are got back, side by side: the samples a run takes, the       *)
(* sources one of them may come from, the search of free space for those it *)
(* could not get, and a shadow copy's store.                                *)
(* The parts share no state; `part` says which of them a behaviour is of,   *)
(* and the others stay where they begin.                                    *)
EXTENDS SamplePass

CONSTANTS
    c1, c2, NoContent, TornFile, NoBitmap, MaxWriteFailures, MaxRecorded,
    Blocks, BlockSize, Rest, Slots, PerBlock, MaxListBlocks, MaxDescriptors, MaxUncertain

VARIABLES
    part,
    recorded, observed, book, chain_phase, source, held, failure, outcome, sample, shown,
    steady, aside, vouched, writeFailures,
    free, bad, image, scan_phase, run, scan_at, want, offset, scanned, bytes_read,
    headers, hashed, found, stopped, compared, passed_over,
    live, store, list, damage, store_phase, next, visited, entries, overlays, refused,
    position, uncertain, before, served

chain == << recorded, observed, book, chain_phase, source, held, failure, outcome, sample, shown,
            steady, aside, vouched, writeFailures >>
search == << free, bad, image, scan_phase, run, scan_at, want, offset, scanned, bytes_read,
             headers, hashed, found, stopped, compared, passed_over >>
shadow == << live, store, list, damage, store_phase, next, visited, entries, overlays,
             refused, position, uncertain, before, served >>

-----------------------------------------------------------------------------
(* The file an artifact hashed, c1, and some other file.                    *)
MCContents == {c1, c2}

Chain == INSTANCE AcquireChain WITH
    Contents <- MCContents, phase <- chain_phase, next <- source, file <- sample

ASSUME ChainAssumption ==
    Chain!ContentsAssumption /\ Chain!ModeAssumption /\ Chain!BoundAssumption

(* An image inside any buffer, one whose headers straddle two chunks, one   *)
(* that has to be read again, and one that answers to nothing.              *)
MCTargets == 1..2
MCImages ==
    { [length |-> 1, header |-> 1, answers |-> {1}],
      [length |-> 2, header |-> 2, answers |-> {2}],
      [length |-> 4, header |-> 1, answers |-> {1, 2}],
      [length |-> 4, header |-> 1, answers |-> {}] }

Search == INSTANCE DeepScan WITH
    phase <- scan_phase, at <- scan_at, hits <- found, declined <- passed_over,
    Targets <- MCTargets, Images <- MCImages,
    Total <- 5, Chunk <- 2, Window <- 1,
    MaxRead <- 8, MaxHeaders <- 4, MaxHashed <- 2, MaxLength <- 4, MaxBad <- 1

ASSUME /\ Search!SizeAssumption
       /\ Search!BudgetAssumption
       /\ Search!TargetAssumption
       /\ Search!ImageAssumption

Shadow == INSTANCE ShadowStore WITH
    phase <- store_phase

ASSUME ShadowAssumption == Shadow!SizeAssumption

-----------------------------------------------------------------------------
MCInit ==
    /\ part \in {"samples", "chain", "search", "shadow"}
    /\ IF part = "samples" THEN TRUE ELSE above = 0 /\ matching = {} /\ searchable = {}
    /\ Init
    /\ recorded \in {<< >>, << c1 >>}
    /\ IF part = "chain" THEN TRUE ELSE recorded = << >> /\ observed = {}
    /\ Chain!Init
    /\ IF part = "search" THEN TRUE ELSE free = {}
    /\ Search!Init
    /\ Shadow!Init

MCNext ==
    \/ part = "samples" /\ Next /\ UNCHANGED << part, chain, search, shadow >>
    \/ part = "chain" /\ Chain!Next /\ UNCHANGED << part, vars, search, shadow >>
    \/ part = "search" /\ Search!Next /\ UNCHANGED << part, vars, chain, shadow >>
    \/ part = "shadow" /\ Shadow!Next /\ UNCHANGED << part, vars, chain, search >>

mcvars == << part, vars, chain, search, shadow >>

(* Of the parts, only the search is a loop that has to end.                 *)
MCSpec == MCInit /\ [][MCNext]_mcvars /\ WF_mcvars(part = "search" /\ MCNext)

-----------------------------------------------------------------------------
(* The properties of the parts, by the names they have in their modules.    *)
ChainTypeOK == Chain!TypeOK
SavedFileIsTheReportedOne == Chain!SavedFileIsTheReportedOne
IdentityIsVouchedFor == Chain!IdentityIsVouchedFor
EarliestUnprovableIsReported == Chain!EarliestUnprovableIsReported
OneDecision == Chain!OneDecision
HitsAreWholeAndFirst == Search!HitsAreWholeAndFirst
ExhaustiveMeansCompared == Search!ExhaustiveMeansCompared
Termination == part = "search" ~> scan_phase = "done"
TheSnapshotIsServed == Shadow!TheSnapshotIsServed
=============================================================================
