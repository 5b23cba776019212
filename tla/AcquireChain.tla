---------------------------- MODULE AcquireChain ----------------------------
(***************************************************************************)
(* How malmathic obtains the bytes of ONE candidate (acquire.rs).  Nine     *)
(* sources are tried in a fixed order.  A trustworthy result ends the       *)
(* chain; an unprovable one is set aside when a recorded digest could still *)
(* prove another, and is produced a SECOND time if nothing better turned    *)
(* up.  Every source that yields bytes hashes them onto the candidate and   *)
(* writes them to the same file, so the loop must put both back.            *)
(*                                                                         *)
(* A file content is a member of Contents and stands for its own digests:  *)
(* FileHash::compute fills all three algorithms, so a computed digest       *)
(* shares an algorithm with every recorded one.                            *)
(***************************************************************************)
EXTENDS Integers, Sequences, FiniteSets

CONSTANTS
    Contents,           \* what the bytes of a file can be
    NoContent,          \* no digest, no file
    TornFile,           \* what a failed write leaves of C<id>.bin
    NoBitmap,           \* $Bitmap could not be read
    WriteOut,           \* SampleDir.write_out: FALSE under --no-samples
    MaxWriteFailures,   \* how many writes into sample/ may fail
    MaxRecorded         \* how many artifacts recorded a digest

ContentsAssumption ==
    /\ Contents # {}
    /\ NoContent \notin Contents
    /\ TornFile \notin Contents \cup {NoContent}
ModeAssumption == WriteOut \in BOOLEAN
BoundAssumption == MaxWriteFailures \in Nat /\ MaxRecorded \in Nat

CHAIN == << "Volume", "Quarantine", "RecycleBin", "ShadowCopy",
            "CarvedClusters", "IndexSlack", "OrphanedRecord",
            "RecordSlack", "LogFileGhost" >>
Step == { CHAIN[i] : i \in 1..9 }

Recovery == {"Intact", "UnlinkedButPresent", "Confirmed", "Unverified", "Partial"}
IsTrustworthy(recovery) == recovery \in {"Intact", "UnlinkedButPresent", "Confirmed"}

-----------------------------------------------------------------------------
(* What $Bitmap says of a runlist, as counts of clusters (0 or "some").     *)
Allocation == [free : 0..1, reused : 0..1, unknown : 0..1, sparse : 0..1]
Occupied(a) == a.free + a.reused + a.unknown + a.sparse
AnyClusters == CHOOSE a \in Allocation : Occupied(a) = 0

(* What one source holds for this candidate.  found: "absent" (nothing      *)
(* there), "refused" (there, but identity, encryption, length or a read     *)
(* error stops it), "linked" (readable), and for the volume "unlinked" (a   *)
(* live record whose name no directory lists) or for a ghost "resident".    *)
(* size: how the length read compares with the one an index recorded.       *)
Evidence(founds, sizes, clusters) ==
    [found : founds, bytes : Contents, size : sizes, clusters : clusters]
Surely == {"agrees"}
Plain == {AnyClusters}
Clusters == Allocation \cup {NoBitmap}

(* What is not read says nothing of its bytes: one record stands for all.   *)
Unread(found) == [found |-> found, bytes |-> CHOOSE c \in Contents : TRUE,
                  size |-> "agrees", clusters |-> AnyClusters]
AbsentOrRefused == {Unread("absent"), Unread("refused")}

Offers(step) ==
    CASE step = "Volume" ->
            AbsentOrRefused \cup Evidence({"linked"}, Surely, Plain)
              \cup Evidence({"unlinked"}, Surely, Clusters)
      [] step = "Quarantine" ->
            AbsentOrRefused
              \cup Evidence({"linked"}, {"agrees", "differs", "unrecorded"}, Plain)
      [] step = "RecycleBin" ->
            AbsentOrRefused \cup Evidence({"linked"}, {"agrees", "differs"}, Plain)
      [] step = "CarvedClusters" ->
            {Unread("refused")} \cup Evidence({"linked"}, Surely, Clusters)
      [] step = "IndexSlack" ->
            AbsentOrRefused
              \cup Evidence({"linked"}, {"agrees", "differs", "unrecorded"}, Clusters)
      [] step \in {"RecordSlack", "LogFileGhost"} ->
            AbsentOrRefused \cup Evidence({"linked"}, Surely, Clusters)
              \cup Evidence({"resident"}, Surely, Plain)
      [] OTHER -> AbsentOrRefused \cup Evidence({"linked"}, Surely, Plain)

-----------------------------------------------------------------------------
VARIABLES
    recorded,   \* digests artifacts recorded, in order of observation
    observed,   \* which kinds of observation the candidate carries
    book,       \* HashBookkeeping: hash, acquired_hash, hash_checks
    phase,      \* "chain", "again" or "done"
    next,       \* position in CHAIN
    held,       \* the first unprovable result: step and bookkeeping before it
    failure,    \* first_failure: the step that gave the first reason
    outcome,    \* the Acquisition returned
    file,       \* C<id>.bin in the sample directory
    shown,      \* history: what the held source offered
    steady,     \* history: the volume was the same when it was run again
    aside,      \* history: the steps whose bytes were set aside
    vouched,    \* history: contents some trustworthy read hashed
    writeFailures

vars == << recorded, observed, book, phase, next, held, failure, outcome,
           file, shown, steady, aside, vouched, writeFailures >>

NotHeld == [step |-> "none"]
NotShown == [found |-> "none"]
NotAttempted == [kind |-> "NotAttempted"]
NoReason == "fell through"

HasPath == "path" \in observed
FileExists == "FileExists" \in observed
DeletedRecord == "FileDeleted" \in observed

-----------------------------------------------------------------------------
(* One handler per source: what it makes of the evidence.                   *)
None == [as |-> "None"]
Failed == [as |-> "Failed"]
Read(bytes, recovery, adopt) ==
    [as |-> "Read", bytes |-> bytes, recovery |-> recovery, adopt |-> adopt]

(* The verdict of a recorded digest, or what the source says on its own.    *)
(* Only the FIRST observation that carries a digest is compared.            *)
CompareOr(bytes, otherwise) ==
    IF recorded = << >> THEN otherwise
    ELSE IF recorded[1] = bytes THEN "Confirmed" ELSE "Partial"

(* Free, reused and sparse clusters under a carved runlist.                 *)
CarveBasis(a) ==
    IF /\ a # NoBitmap
       /\ Occupied(a) > 0
       /\ a.reused > 0 \/ (a.unknown = 0 /\ a.free = 0)
    THEN "Partial"
    ELSE "Unverified"

(* Fault: every source adopts what it hashed.                               *)
AdoptAlways(bytes, recovery) == Read(bytes, recovery, TRUE)

(* A digest is adopted as the file's identity unless the bytes are Partial. *)
Unless(bytes, recovery) == Read(bytes, recovery, recovery # "Partial")
OnlyIfConfirmed(bytes, recovery) == Read(bytes, recovery, recovery = "Confirmed")

ByUnlinkedRecord(a) ==
    /\ FileExists
    /\ a # NoBitmap => (Occupied(a) = 0 \/ (a.free = 0 /\ a.unknown = 0))

FromVolume(e) ==
    IF e.found = "absent" \/ (e.found = "unlinked" /\ ~ByUnlinkedRecord(e.clusters))
    THEN None
    ELSE IF e.found = "refused" THEN Failed
    ELSE Read(e.bytes,
              IF e.found = "unlinked" THEN "UnlinkedButPresent" ELSE "Intact", TRUE)

FromQuarantine(e) ==
    IF e.found = "absent" THEN None
    ELSE IF e.found = "refused" \/ (recorded = << >> /\ e.size = "differs") THEN Failed
    ELSE Unless(e.bytes, CompareOr(e.bytes, "Unverified"))

FromRecycleBin(e) ==
    IF e.found = "absent" THEN None
    ELSE IF e.found = "refused" THEN Failed
    ELSE Unless(e.bytes,
            CompareOr(e.bytes, IF e.size = "differs" THEN "Partial" ELSE "Unverified"))

FromShadowCopy(e) ==
    IF e.found = "absent" THEN None
    ELSE IF e.found = "refused" THEN Failed
    ELSE OnlyIfConfirmed(e.bytes, CompareOr(e.bytes, "Unverified"))

CarveFromRecord(e) ==
    IF e.found = "refused" THEN Failed
    ELSE Unless(e.bytes, CompareOr(e.bytes, CarveBasis(e.clusters)))

FromCarvedClusters(e) ==
    IF DeletedRecord THEN CarveFromRecord(e) ELSE None

FromIndexSlack(e) ==
    IF e.found = "absent" \/ FileExists \/ DeletedRecord THEN None
    ELSE CarveFromRecord(e)

FromOrphanedRecord(e) ==
    IF e.found = "absent" \/ FileExists \/ DeletedRecord THEN None
    ELSE IF e.found = "refused" THEN Failed
    ELSE OnlyIfConfirmed(e.bytes, CompareOr(e.bytes, "Unverified"))

(* A ghost's clusters are refused as soon as one was given away.            *)
FromGhost(e) ==
    IF \/ e.found = "refused"
       \/ /\ e.found = "linked"
          /\ e.clusters # NoBitmap
          /\ e.clusters.reused > 0 \/ e.clusters.free = 0
    THEN Failed
    ELSE Unless(e.bytes, CompareOr(e.bytes, "Unverified"))

FromRecordSlack(e) ==
    IF e.found = "absent" \/ FileExists \/ ~DeletedRecord THEN None ELSE FromGhost(e)

FromLogFile(e) ==
    IF e.found = "absent" \/ FileExists THEN None ELSE FromGhost(e)

(* Every source needs a path to look for.                                   *)
Handle(step, e) ==
    IF ~HasPath THEN None ELSE
    CASE step = "Volume" -> FromVolume(e)
      [] step = "Quarantine" -> FromQuarantine(e)
      [] step = "RecycleBin" -> FromRecycleBin(e)
      [] step = "ShadowCopy" -> FromShadowCopy(e)
      [] step = "CarvedClusters" -> FromCarvedClusters(e)
      [] step = "IndexSlack" -> FromIndexSlack(e)
      [] step = "OrphanedRecord" -> FromOrphanedRecord(e)
      [] step = "RecordSlack" -> FromRecordSlack(e)
      [] step = "LogFileGhost" -> FromLogFile(e)

-----------------------------------------------------------------------------
(* Candidate::record_acquired_hash.                                         *)
RecordAcquired(b, h) ==
    [hash     |-> IF h.adopt THEN h.bytes ELSE b.hash,
     acquired |-> h.bytes,
     checks   |-> IF recorded = << >> THEN b.checks ELSE b.checks \cup {h.bytes}]

(* from_index_slack weighs the directory's length only against a SAVED      *)
(* file: a withheld result has already returned.                           *)
FinalRecovery(step, e, h, writeOut) ==
    IF step = "IndexSlack" /\ writeOut /\ e.size = "differs"
    THEN "Partial" ELSE h.recovery

(* A write either completes, cannot open the file, or stops half way.       *)
Writes == {"written", "unopened", "torn"}

(* run_step: the bookkeeping it leaves, the file it leaves, its result.     *)
RunStep(step, e, write, b) ==
    LET h == Handle(step, e)
        saving == h.as = "Read" /\ WriteOut
    IN [result |->
          CASE h.as = "None" -> [kind |-> "None"]
            [] h.as = "Failed" \/ (saving /\ write # "written") -> [kind |-> "Failed"]
            [] OTHER -> [kind     |-> IF WriteOut THEN "Bytes" ELSE "Withheld",
                         via      |-> step,
                         bytes    |-> h.bytes,
                         recovery |-> FinalRecovery(step, e, h, WriteOut),
                         \* history: the verdict in the opposite mode
                         inverse  |-> FinalRecovery(step, e, h, ~WriteOut)],
        book |-> IF h.as = "Read" THEN RecordAcquired(b, h) ELSE b,
        file |-> CASE saving /\ write = "written" -> h.bytes
                   [] saving /\ write = "torn" -> TornFile
                   [] OTHER -> file,
        vouched |-> IF h.as = "Read" /\ IsTrustworthy(h.recovery)
                    THEN vouched \cup {h.bytes} ELSE vouched,
        failures |-> writeFailures + IF saving /\ write # "written" THEN 1 ELSE 0]

Runs(step, e, b) ==
    { RunStep(step, e, w, b) : w \in IF writeFailures < MaxWriteFailures
                                     THEN Writes ELSE {"written"} }

IsBytes(result) == result.kind \in {"Bytes", "Withheld"}

-----------------------------------------------------------------------------
Init ==
    /\ recorded \in UNION { [1..n -> Contents] : n \in 0..MaxRecorded }
    /\ observed \in SUBSET {"path", "FileExists", "FileDeleted"}
    /\ book = [hash |-> IF recorded = << >> THEN NoContent ELSE recorded[1],
               acquired |-> NoContent, checks |-> {}]
    /\ phase = "chain"
    /\ next = 1
    /\ held = NotHeld
    /\ failure = NoReason
    /\ outcome = NotAttempted
    /\ file = NoContent
    /\ shown = NotShown
    /\ steady = TRUE
    /\ aside = {}
    /\ vouched = {}
    /\ writeFailures = 0

(* What every arm of the loop takes from the step that ran.                 *)
Ran(r) ==
    /\ file' = r.file
    /\ vouched' = r.vouched
    /\ writeFailures' = r.failures
    /\ UNCHANGED << recorded, observed >>

(* Fault: the loop skips a source.                                          *)
SkipOne ==
    /\ next' = next + 2
    /\ UNCHANGED << phase, outcome >>

Advance ==
    /\ next' = next + 1
    /\ UNCHANGED << phase, outcome >>

Finish(a) ==
    /\ outcome' = a
    /\ phase' = "done"

NoSource(r) ==
    /\ r.result.kind = "None"
    /\ Ran(r) /\ Advance
    /\ book' = r.book
    /\ UNCHANGED << held, failure, shown, steady, aside >>

SourceFailed(r) ==
    /\ r.result.kind = "Failed"
    /\ Ran(r) /\ Advance
    /\ book' = r.book
    /\ failure' = IF failure = NoReason THEN CHAIN[next] ELSE failure
    /\ UNCHANGED << held, shown, steady, aside >>

Accept(r) ==
    /\ IsBytes(r.result)
    /\ IsTrustworthy(r.result.recovery) \/ recorded = << >>
    /\ Ran(r) /\ Finish(r.result)
    /\ book' = r.book
    /\ UNCHANGED << next, held, failure, shown, steady, aside >>

(* Fault: the last unprovable result is held instead of the first.          *)
SetAsideLatest(r, e) ==
    /\ IsBytes(r.result)
    /\ ~IsTrustworthy(r.result.recovery)
    /\ recorded # << >>
    /\ Ran(r) /\ Advance
    /\ book' = book
    /\ aside' = aside \cup {CHAIN[next]}
    /\ held' = [step |-> CHAIN[next], before |-> book]
    /\ shown' = e
    /\ UNCHANGED << failure, steady >>

SetAside(r, e) ==
    /\ IsBytes(r.result)
    /\ ~IsTrustworthy(r.result.recovery)
    /\ recorded # << >>
    /\ Ran(r) /\ Advance
    /\ book' = book
    /\ aside' = aside \cup {CHAIN[next]}
    /\ IF held = NotHeld
       THEN held' = [step |-> CHAIN[next], before |-> book] /\ shown' = e
       ELSE UNCHANGED << held, shown >>
    /\ UNCHANGED << failure, steady >>

TryStep ==
    /\ phase = "chain"
    /\ next \in 1..9
    /\ \E e \in Offers(CHAIN[next]) : \E r \in Runs(CHAIN[next], e, book) :
         NoSource(r) \/ SourceFailed(r) \/ Accept(r) \/ SetAside(r, e)

(* Nothing better below: the held step is run again from the bookkeeping it *)
(* had, and its bytes are reported whatever they are worth now.             *)
ChainExhausted ==
    /\ phase = "chain"
    /\ next = 10
    /\ phase' = "again"
    /\ book' = IF held = NotHeld THEN book ELSE held.before
    /\ UNCHANGED << recorded, observed, next, held, failure, outcome, file,
                    shown, steady, aside, vouched, writeFailures >>

(* from_recorded_hash, else the first failure.                              *)
Fallback ==
    IF recorded = << >> THEN [kind |-> "Failed", reason |-> failure]
    ELSE [kind |-> "HashOnly"]

(* Fault: the held result is reported without being produced again.         *)
ReportHeld ==
    /\ phase = "again"
    /\ held # NotHeld
    /\ \E r \in Runs(held.step, shown, book) :
         /\ book' = r.book
         /\ Finish(IF IsBytes(r.result) THEN r.result ELSE Fallback)
    /\ UNCHANGED << recorded, observed, next, held, failure, file, shown,
                    steady, aside, vouched, writeFailures >>

RunHeldAgain ==
    /\ phase = "again"
    /\ held # NotHeld
    /\ \E e \in Offers(held.step) :
       \E r \in Runs(held.step, e, book) :
         /\ Ran(r)
         /\ book' = r.book
         /\ failure' = IF IsBytes(r.result) \/ failure # NoReason
                       THEN failure ELSE held.step
         /\ Finish(IF IsBytes(r.result) THEN r.result ELSE Fallback)
         /\ steady' = (e = shown)
    /\ UNCHANGED << next, held, shown, aside >>

FallBack ==
    /\ phase = "again"
    /\ held = NotHeld
    /\ Finish(Fallback)
    /\ UNCHANGED << recorded, observed, book, next, held, failure, file, shown,
                    steady, aside, vouched, writeFailures >>

Next == TryStep \/ ChainExhausted \/ RunHeldAgain \/ FallBack

Spec == Init /\ [][Next]_vars

-----------------------------------------------------------------------------
Digest == Contents \cup {NoContent}
Bookkeeping == [hash : Digest, acquired : Digest, checks : SUBSET Contents]

(* Types of the candidate, of the loop and of the file it writes.           *)
TypeOK ==
    /\ recorded \in Seq(Contents)
    /\ observed \subseteq {"path", "FileExists", "FileDeleted"}
    /\ book \in Bookkeeping
    /\ phase \in {"chain", "again", "done"}
    /\ next \in 1..10
    /\ held = NotHeld \/ held \in [step : Step, before : Bookkeeping]
    /\ failure \in Step \cup {NoReason}
    /\ file \in Contents \cup {NoContent, TornFile}
    /\ steady \in BOOLEAN
    /\ aside \subseteq Step
    /\ vouched \subseteq Contents
    /\ writeFailures \in Nat

Done == phase = "done"
Reported == Done /\ IsBytes(outcome)

(* The sample a report names is the file on disk, and the digest printed    *)
(* beside it is of those bytes, however many other steps wrote the same     *)
(* file and hashed the same candidate on the way (acquire.rs:337-361).      *)
SavedFileIsTheReportedOne ==
    Reported =>
        /\ book.acquired = outcome.bytes
        /\ file = IF WriteOut THEN outcome.bytes ELSE NoContent

(* The identity of a candidate an artifact hashed is only ever that digest  *)
(* or the digest of bytes some trustworthy read produced: no fragment,      *)
(* foreign cluster or unprovable copy replaces it, at any point.            *)
IdentityIsVouchedFor ==
    recorded # << >> => book.hash \in {recorded[1]} \cup vouched

(* Bytes reported as unprovable are those of the FIRST such step in chain   *)
(* order, although later ones were tried and overwrote its file.            *)
EarliestUnprovableIsReported ==
    /\ Reported
    /\ ~IsTrustworthy(outcome.recovery)
    /\ recorded # << >>
    => \A i \in 1..9 : CHAIN[i] \in aside =>
          \E j \in 1..i : CHAIN[j] = outcome.via

(* The trial and the rollback are invisible: on a volume that is the same    *)
(* when a source is run again, and a disk that takes every write, the loop   *)
(* is one decision.  Any other run has decided nothing yet.                  *)
Settled == Done /\ steady /\ writeFailures = 0
Verdict == INSTANCE SampleVerdict WITH
    identity <- IF Settled THEN book.hash
                ELSE IF recorded = << >> THEN NoContent ELSE recorded[1],
    digest   <- IF Settled THEN book.acquired ELSE NoContent,
    sample   <- IF Settled THEN file ELSE NoContent,
    verdict  <- CASE ~Settled -> "pending"
                  [] Settled /\ ~IsBytes(outcome) -> "none"
                  [] Settled /\ Reported /\ IsTrustworthy(outcome.recovery) -> "trusted"
                  [] OTHER -> "unproven"
OneDecision == Verdict!Spec

(* --no-samples is the same run without the files: the same source supplies *)
(* the bytes with the same caveat or none (recovery_states.rs:405-463).     *)
WithholdingChangesNothingButTheSamples ==
    Reported => outcome.recovery = outcome.inverse

(* A candidate known by its digest alone is reported with "NO BYTES were    *)
(* written to the case directory" (mm-report/text.rs:530): no file of it is *)
(* there, whatever was tried for it.                                        *)
NoBytesNoFile ==
    Done /\ outcome.kind = "HashOnly" => file = NoContent

(* Bytes whose recovery line says they are NOT the sample are never this    *)
(* file's identity (mm-report/text.rs:615-618).                             *)
PartialIsNotTheIdentity ==
    Reported /\ outcome.recovery = "Partial" =>
        outcome.bytes # book.hash \/ (recorded # << >> /\ recorded[1] = book.hash)
=============================================================================
