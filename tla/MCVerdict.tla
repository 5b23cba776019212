----------------------------- MODULE MCVerdict -----------------------------
(* From a read to the verdict, side by side: the block cache over a device, *)
(* the candidates that observations are grouped into, the stages of a run,  *)
(* the dates a change journal gives, the chain of a signer and the score of *)
(* one candidate.  The parts share no state; `part` says which of them a    *)
(* behaviour is of, and the others stay where they begin.                   *)
EXTENDS BlockReader, Weights, SequencesExt

CONSTANTS
    c1, c2, p1, p2, NoPath, NoDigest, MaxObservations, MaxHarvested, MaxDeletions, MaxAcquired,
    Pools, Stores, Unsupported, MaxChain, MaxWork,
    LastRecord, Volumes, DirectoryNames, LengthOf, Window, Overlap, MaxRecords, MaxBytes,
    MaxResolutions, MaxPath, MaxRows, MaxTime, MaxChanges,
    Zones, NameForms, Statements, MaxStatements, Censuses, RowGroup, RowWeight

VARIABLES
    part,
    seen, leader, path, by_path, by_hash, fragments,
    stage, files, spilled, junction, observations, referenced, deferred, walked,
    candidates, hash, disputed, evidence, window, harvested, withheld, dropped,
    pool, roots, time, certs, frames, budget, broken, uncheckable, deepest, signed_by,
    outcome,
    zone, name, executable, observed, todo, by_group, compact_os, census, concluded,
    mft, damaged, rows, first, changes, phase, cuts, at, from, records, truncated,
    known, present, next, resolved, dated, created, resolutions, creation_resolutions,
    overtime, left_out

grouping == << seen, leader, path, by_path, by_hash, fragments >>
stages == << stage, files, spilled, junction, observations, referenced, deferred,
             walked, candidates, hash, disputed, evidence, window, harvested, withheld,
             dropped >>
signer == << pool, roots, time, certs, frames, budget, broken, uncheckable, deepest,
             signed_by, outcome >>
score == << zone, name, executable, observed, todo, by_group, compact_os, census, concluded >>
journal == << mft, damaged, rows, first, changes, phase, cuts, at, from, records, truncated,
              known, present, next, resolved, dated, created, resolutions,
              creation_resolutions, overtime, left_out >>

-----------------------------------------------------------------------------
MCContents == {c1, c2}
MCPaths == {p1, p2}

(* The digests the harvesters record: Amcache a SHA-1, a quarantined        *)
(* payload every algorithm.                                                 *)
Graph == INSTANCE CandidateGraph WITH
    Paths <- MCPaths, Contents <- MCContents,
    Algorithms <- << "sha256", "sha1" >>,
    DigestSets <- { {"sha1"}, {"sha256", "sha1"} }

(* What the parsers can say: enough for two of them to meet at one file,    *)
(* under its own name, through a junction, or on another volume.  Stages    *)
(* that would say no more than another of these find nothing.               *)
Says(kinds, keys, digests, elsewhere) ==
    [kind : kinds, key : keys, elsewhere : elsewhere, digest : digests]
MCClaims ==
    [s \in {"SOFTWARE", "SYSTEM", "users", "startup", "Amcache", "Prefetch", "PCA", "tasks",
            "quarantine", "recycle_bin", "Defender"} |->
       CASE s = "SOFTWARE" ->
              Says({"com"}, {"user", "program"}, {NoDigest}, {FALSE})
                \cup Says({"deletedCom"}, {"program"}, {NoDigest}, {FALSE})
         [] s = "users" ->
              Says({"com"}, {"program", "alias"}, {NoDigest}, {FALSE})
                \cup Says({"value"}, {"program"}, {NoDigest}, {FALSE})
         [] s = "Amcache" ->
              Says({"executed"}, {"user", "program"}, MCContents, {FALSE})
                \cup Says({"executed"}, {"alias"}, {NoDigest}, {FALSE})
         [] s = "quarantine" -> Says({"quarantined"}, {"user"}, {NoDigest}, {TRUE})
         [] s = "Defender" -> Says({"detected"}, {"user", "alias"}, {NoDigest}, {FALSE})
         [] OTHER -> {}]

Pipe == INSTANCE Pipeline WITH Contents <- MCContents, Claims <- MCClaims

(* Two authorities, each by more than one certificate: renewed, cross       *)
(* signed, signed by a key that is not the root's or that cannot be used,   *)
(* one that may not issue and one that issued itself.                       *)
Cert(subject, issuer, key, by, ca, outside) ==
    [subject |-> subject, issuer |-> issuer, key |-> key, by |-> by, ca |-> ca,
     outside |-> outside]
MCCertificates == {
    Cert("A", "R", 2, 9, TRUE, {}), Cert("A", "R", 3, 9, TRUE, {"now"}),
    Cert("A", "B", 2, 4, TRUE, {}), Cert("A", "R", 2, 9, FALSE, {}),
    Cert("A", "A", 2, 2, TRUE, {}),
    Cert("B", "A", 4, 2, TRUE, {}), Cert("B", "R", 4, 9, TRUE, {"then"}),
    Cert("B", "R", 5, 8, TRUE, {}) }
MCSigners == {
    Cert("L", "A", 1, 2, FALSE, {}), Cert("L", "B", 1, 4, FALSE, {"now", "then"}),
    Cert("L", "L", 1, 1, FALSE, {}) }
MCPools ==
    { << leaf >> \o others :
        leaf \in MCSigners, others \in { p \in SeqOf(MCCertificates, 3) : IsInjective(p) } }
MCRoot == Cert("R", "R", 9, 9, TRUE, {})
MCStores == { << >>, << Cert("R", "R", 8, 8, TRUE, {}), MCRoot >> }

Chain == INSTANCE SignatureChain WITH
    path <- certs, chain <- signed_by, MaxDepth <- MaxChain

MCNames == {"explorer", "decoy", "plain"}
MCZones == {"SystemDir", "ProgramFiles", "WindowsRoot", "UserTemp", "UserProfile",
            "TempSubdirectory", "Unlocated"}
Stated(kind, field, values) == { [kind |-> kind] @@ (field :> v) : v \in values }
MCStatements ==
    Stated("Signature", "status", {"CatalogMicrosoft", "SelfSigned", "CompactOsUnknown"})
      \cup { [kind |-> "Persistence", how |-> "ScheduledTask", deleted |-> TRUE],
             [kind |-> "Persistence", how |-> "ComServer", deleted |-> FALSE],
             [kind |-> "Executed", when |-> 2, inferred |-> FALSE],
             [kind |-> "Executed", when |-> 1, inferred |-> TRUE],
             [kind |-> "FileDeleted", when |-> 3] }
      \cup { [kind |-> k] : k \in {"ManagedAssembly", "NoVersionResource", "NotAComponentStoreLink",
                                   "FileExists", "CompactOsReadable", "CompactOsUnreadable",
                                   "Quarantined"} }
NotAsked == [usable |-> FALSE, walked |-> FALSE, in_window |-> FALSE]
Census(files_named, conventional, odd) ==
    [usable |-> TRUE, walked |-> TRUE, in_window |-> odd, named |-> files_named,
     conventional |-> conventional, lone |-> odd, rare |-> odd, compresses_little |-> odd]
MCCensuses ==
    { NotAsked, Census(0, 0, TRUE), Census(1, 1, TRUE), Census(2, 1, FALSE),
      Census(3, 0, TRUE), Census(3, 1, FALSE), Census(4, 2, FALSE) }

Score == INSTANCE Scoring WITH
    observations <- observed, done <- concluded, Names <- NameForms,
    MaxObservations <- MaxStatements, GroupOf <- RowGroup, LogLR <- RowWeight

(* A directory with a file or a directory in it, and a row that may lie     *)
(* across two windows.                                                      *)
Record(dir, is, parent, parent_seq) ==
    [seq |-> 1, in_use |-> TRUE, dir |-> dir, name |-> is, parent |-> parent,
     parent_seq |-> parent_seq]
MCVolumes ==
    { << Record(TRUE, "d", 0, 5), inner >> :
        inner \in { Record(FALSE, "f", 1, 1), Record(TRUE, "e", 1, 1) } }

MCDirectoryNames == {"d", "e"}
MCLengthOf == [f |-> 2]

Journal == INSTANCE UsnJournal WITH
    cache <- resolved, stopped <- left_out, MaxDepth <- MaxPath

ASSUME PipeAssumption == Pipe!NoDigestAssumption /\ Pipe!BoundAssumption
ASSUME GraphAssumption ==
    /\ Graph!PathAssumption /\ Graph!AlgorithmAssumption /\ Graph!DigestAssumption
    /\ Graph!SharedAlgorithmAssumption
ASSUME ChainAssumption == Chain!PoolAssumption
ASSUME JournalAssumption ==
    Journal!OverlapAssumption /\ Journal!BoundAssumption /\ Journal!VolumeAssumption
ASSUME ScoreAssumption ==
    /\ Score!PathAssumption /\ Score!BoundAssumption /\ Score!TableAssumption
    /\ Score!SignatureAssumption /\ Score!StatementAssumption /\ Score!CensusAssumption

Symmetry == Permutations(MCContents) \cup Permutations(MCPaths)

-----------------------------------------------------------------------------
MCInit ==
    /\ part \in {"device", "grouping", "stages", "chain", "score", "journal"}
    /\ Init
    /\ Graph!Init
    /\ IF part = "stages" THEN TRUE ELSE files = {} /\ spilled = {} /\ junction = FALSE
    /\ Pipe!Init
    /\ spilled \subseteq {"program"}
    /\ IF part = "chain" THEN Chain!Init
       ELSE pool = << >> /\ roots = << >> /\ time = "now"
              /\ certs = << >> /\ frames = << >> /\ budget = 0
              /\ broken = FALSE /\ uncheckable = FALSE /\ deepest = << >>
              /\ signed_by = << >> /\ outcome = "none"
    /\ IF part = "score" THEN Score!Init
       ELSE zone = "Unlocated" /\ name = "plain" /\ executable = FALSE
              /\ observed = {} /\ todo = {} /\ by_group = << >> /\ compact_os = "none"
              /\ census = NotAsked /\ concluded = FALSE
    /\ part # "journal" => mft = CHOOSE v \in Volumes : TRUE
    /\ Journal!Init

MCNext ==
    \/ part = "device" /\ Next
       /\ UNCHANGED << part, grouping, stages, signer, score, journal >>
    \/ part = "grouping" /\ Graph!Next
       /\ UNCHANGED << part, vars, stages, signer, score, journal >>
    \/ part = "stages" /\ Pipe!Next
       /\ UNCHANGED << part, vars, grouping, signer, score, journal >>
    \/ part = "chain" /\ Chain!Next
       /\ UNCHANGED << part, vars, grouping, stages, score, journal >>
    \/ part = "score" /\ Score!Next
       /\ UNCHANGED << part, vars, grouping, stages, signer, journal >>
    \/ part = "journal" /\ Journal!Next
       /\ UNCHANGED << part, vars, grouping, stages, signer, score >>

MCSpec == MCInit /\ [][MCNext]_<< part, vars, grouping, stages, signer, score, journal >>

-----------------------------------------------------------------------------
(* The properties of the parts, by the names they have in their modules.    *)
TheSplitIsTheSameInAnyOrder == part = "grouping" => Graph!TheSplitIsTheSameInAnyOrder
NothingIsMergedOnResemblance == part = "grouping" => Graph!NothingIsMergedOnResemblance
ChainsAreFound == part = "chain" => Chain!ChainsAreFound
EveryObservationIsAccountedFor == part = "stages" => Pipe!EveryObservationIsAccountedFor
DetectionOfAFileHereIsKept == part = "stages" => Pipe!DetectionOfAFileHereIsKept
DeferredNameNoCandidateAlone == part = "stages" => Pipe!DeferredNameNoCandidateAlone
PresentFilesAreKnownPresent == part = "stages" => Pipe!PresentFilesAreKnownPresent
EvidenceIsOfTheReport == part = "stages" => Pipe!EvidenceIsOfTheReport
SharedDigestsAreMutual == part = "stages" => Pipe!SharedDigestsAreMutual
ScoreIsTheSameInAnyOrder == part = "score" => Score!ScoreIsTheSameInAnyOrder
SignatureVerdictsAreOrdered == part = "score" => Score!SignatureVerdictsAreOrdered
NamesAreJudgedByOtherFiles == part = "score" => Score!NamesAreJudgedByOtherFiles
JournalIsReadInOrder == part = "journal" => Journal!JournalIsReadInOrder
DatesAreTrue == part = "journal" => Journal!DatesAreTrue
=============================================================================
