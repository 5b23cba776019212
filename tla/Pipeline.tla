------------------------------ MODULE Pipeline ------------------------------
(***************************************************************************)
(* malmathic/pipeline.rs, run: every artifact of a volume is read, what it  *)
(* says is put beside what the others say, and each file that comes out of  *)
(* it is judged.  One action is one stage, in the order run() takes them.   *)
(*                                                                         *)
(* An observation keeps who made it, what it claims, the key of the path it *)
(* names, whether that path states another volume (the key does not say),   *)
(* and the digest it carries.  Three keys stand for all paths: "user", a    *)
(* place programs are not installed in, "program", one they are, and        *)
(* "alias", "program" spelled through a junction: another path to a file of *)
(* the same name.  The COM registrations are of one class.  A parser that   *)
(* panics has found nothing, or less; what is said of it in Coverage and in *)
(* the warnings is left out.                                                *)
(***************************************************************************)
EXTENDS Naturals, Sequences, FiniteSets, SequencesExt

CONSTANTS
    Contents,       \* what a file can hold
    NoDigest,
    Claims,         \* what the parser of each stage may find: a set per stage
    MaxHarvested,   \* bound: observations harvested
    MaxDeletions,   \* bound: paths the $MFT, or the journal, knows deleted
    MaxAcquired     \* bound: candidates whose bytes are recovered

NoDigestAssumption == NoDigest \notin Contents
BoundAssumption == {MaxHarvested, MaxDeletions, MaxAcquired} \subseteq Nat

VARIABLES
    stage,          \* the stage of run() about to begin
    files,          \* keys of the files on the volume
    spilled,        \* of those, the ones facts_for_record has nothing of
    junction,       \* there is one above "alias" that translate() follows
    observations,   \* the Vec of run(), until build_and_score consumes it
    referenced,
    deferred,       \* deferred_com, deferred_av, deferred_values
    walked,         \* the $MFT could be walked
    candidates,     \* what each candidate was observed as, by key
    hash,           \* Candidate.hash
    disputed,       \* Candidate.hash_checks holds one that does not agree
    evidence,       \* Candidate.evidence: what it was extracted from
    window,         \* an incident window was found
    harvested,      \* history: how many observations artifacts gave
    withheld,       \* history: ids of those on another volume
    dropped         \* history: deferred observations that did not rejoin

volume == << files, spilled, junction >>
gathered == << observations, referenced, deferred >>
judged == << candidates, hash, disputed, evidence, window >>
past == << harvested, withheld, dropped >>
vars == << stage, volume, walked, gathered, judged, past >>

Key == {"user", "program", "alias"}
Canonical == [k \in Key |-> IF k = "alias" THEN "program" ELSE k]
Stages == << "SOFTWARE", "SYSTEM", "users", "startup", "Amcache", "Prefetch", "PCA",
             "tasks", "quarantine", "recycle_bin", "Defender", "other_volumes", "COM",
             "deferral", "$MFT", "reattach", "junctions", "USN", "scoring",
             "signatures", "window", "samples", "digests", "done" >>
ArtifactStages == {"SOFTWARE", "SYSTEM", "users", "startup", "Amcache", "Prefetch", "PCA",
                   "tasks", "quarantine", "recycle_bin", "Defender"}
Following(s) == Stages[CHOOSE i \in 2..Len(Stages) : Stages[i - 1] = s]

(* A link by digest is what this run itself concludes: no parser makes one.  *)
ClaimsAssumption ==
    \A s \in ArtifactStages : \A c \in Claims[s] :
        /\ c.kind # "shared" /\ c.key \in Key
        /\ c.elsewhere \in BOOLEAN /\ c.digest \in Contents \cup {NoDigest}

Init ==
    /\ stage = "SOFTWARE"
    /\ files \in SUBSET {"user", "program"}
    /\ spilled \in SUBSET files
    /\ junction \in BOOLEAN
    /\ observations = << >>
    /\ referenced = {}
    /\ deferred = [com |-> << >>, av |-> << >>, values |-> << >>]
    /\ walked = FALSE
    /\ candidates = << >> /\ hash = << >> /\ disputed = << >> /\ evidence = << >>
    /\ window = FALSE
    /\ harvested = 0 /\ withheld = {} /\ dropped = {}

-----------------------------------------------------------------------------
(* The elements of a sequence that satisfy P, in their order: SelectSeq, in *)
(* a form that can be reasoned about.                                       *)
Those(s, set) ==
    LET those[i \in 0..Len(s)] ==
            IF i = 0 THEN << >>
            ELSE IF s[i] \in set THEN Append(those[i - 1], s[i]) ELSE those[i - 1]
    IN those[Len(s)]
Select(s, P(_)) == Those(s, { o \in ToSet(s) : P(o) })

-----------------------------------------------------------------------------
(* Harvest: what every stage does with what its artifacts gave.             *)
At(s) == stage = s
Settle == stage' = Following(stage)

Stamped(cs) ==
    [i \in DOMAIN cs |-> [id |-> harvested + i, by |-> stage, kind |-> cs[i].kind,
                          key |-> cs[i].key, elsewhere |-> cs[i].elsewhere,
                          digest |-> cs[i].digest]]
Found == UNION { [1..n -> Claims[stage]] : n \in 0..MaxHarvested - harvested }

(* guarded(): a panic costs what that parser would have found.              *)
Parse ==
    /\ \E cs \in Found :
         /\ observations' = observations \o Stamped(cs)
         /\ harvested' = harvested + Len(cs)
    /\ Settle
    /\ UNCHANGED << volume, walked, referenced, deferred, judged, withheld, dropped >>

SoftwareHive == At("SOFTWARE") /\ Parse
SystemHive == At("SYSTEM") /\ Parse
UserHives == At("users") /\ Parse
StartupFolders == At("startup") /\ Parse
Amcache == At("Amcache") /\ Parse
Prefetch == At("Prefetch") /\ Parse
Pca == At("PCA") /\ Parse
Tasks == At("tasks") /\ Parse
Quarantine == At("quarantine") /\ Parse
RecycleBin == At("recycle_bin") /\ Parse
DefenderLog == At("Defender") /\ Parse

-----------------------------------------------------------------------------
(* Between the harvest and the walk.                                        *)
Keys(obs) == { obs[i].key : i \in DOMAIN obs }
Ids(obs) == { obs[i].id : i \in DOMAIN obs } \ {0}

(* An observation of another volume makes no candidate here; a volume whose *)
(* SOFTWARE hive did not give it its letter cannot tell.                    *)
OnAnotherVolume(o) == o.elsewhere

WithholdOtherVolumes ==
    /\ At("other_volumes")
    /\ \/ /\ observations' = Select(observations, LAMBDA o : ~OnAnotherVolume(o))
          /\ withheld' = Ids(Select(observations, OnAnotherVolume))
       \/ UNCHANGED << observations, withheld >>
    /\ Settle
    /\ UNCHANGED << volume, walked, referenced, deferred, judged, harvested, dropped >>

MachineWide(o) == o.by \in {"SOFTWARE", "SYSTEM"}
MachineTargets(obs) ==
    { obs[i].key : i \in { j \in DOMAIN obs : obs[j].kind = "com" /\ MachineWide(obs[j]) } }

(* A user's registration that names another file than the machine's.        *)
PromoteComHijacks(obs) ==
    LET machine == MachineTargets(obs)
    IN [i \in DOMAIN obs |->
          IF /\ obs[i].kind = "com" /\ ~MachineWide(obs[i])
             /\ machine # {} /\ obs[i].key \notin machine
          THEN [obs[i] EXCEPT !.kind = "hijack"] ELSE obs[i]]

(* A freed registration that a live one in a place programs are installed   *)
(* in replaced, under the same file name.                                   *)
RelabelSuperseded(obs) ==
    [i \in DOMAIN obs |->
       IF /\ obs[i].kind = "deletedCom"
          /\ Canonical[obs[i].key] \in MachineTargets(obs) \cap {"program"}
       THEN [obs[i] EXCEPT !.kind = "superseded"] ELSE obs[i]]

IsDeferrableCom(o) == o.kind \in {"com", "superseded"} /\ o.key = "program"
IsDetection(o) == o.kind = "detected"
IsDeletedValue(o) == o.kind = "value"
(* Fault: a freed value is set aside and stays as well.                     *)
KeptUnlessDetected(o) == ~IsDetection(o)

IsKept(o) == ~IsDetection(o) /\ ~IsDeletedValue(o)

ComRegistrations ==
    /\ At("COM")
    /\ LET obs == RelabelSuperseded(PromoteComHijacks(observations))
       IN /\ observations' = Select(obs, LAMBDA o : ~IsDeferrableCom(o))
          /\ deferred' = [deferred EXCEPT !.com = Select(obs, IsDeferrableCom)]
    /\ Settle
    /\ UNCHANGED << volume, walked, referenced, judged, past >>

(* Fault: the detections are set aside before the paths are collected.      *)
ReferencedByTheRest(obs) == Keys(Select(obs, IsKept))

(* The paths the walk is to look for, detections and freed values included. *)
Referenced(obs) == Keys(obs)

DeferTheRest ==
    /\ At("deferral")
    /\ referenced' = Referenced(observations)
    /\ deferred' = [deferred EXCEPT !.av = Select(observations, IsDetection),
                                    !.values = Select(observations, IsDeletedValue)]
    /\ observations' = Select(observations, IsKept)
    /\ Settle
    /\ UNCHANGED << volume, walked, judged, past >>

-----------------------------------------------------------------------------
(* The walk and what rests on it.                                           *)
About(by, kind, k) == [id |-> 0, by |-> by, kind |-> kind, key |-> k,
                       elsewhere |-> FALSE, digest |-> NoDigest]
Facts(kind, ks) == SetToSeq({ About("$MFT", kind, k) : k \in ks })

Deletions(ks) == { gone \in SUBSET ks : Cardinality(gone) <= MaxDeletions }

WorthObserving(noticed) == files \cap (referenced \cup noticed)

(* The walk reports the files here that are of interest, and records that   *)
(* were freed, of which one may have had the path a file here has now; no   *)
(* record has its path through the junction.  A walk that fails keeps what  *)
(* it had emitted, and knows no junction.                                   *)
WalkFilesystem ==
    /\ At("$MFT")
    /\ walked' \in BOOLEAN
    /\ \E noticed \in SUBSET files, freed \in Deletions(Key \ {"alias"}) :
       \E emitted \in IF walked' THEN {WorthObserving(noticed)}
                     ELSE SUBSET WorthObserving(noticed) :
         observations' = observations \o Facts("exists", emitted) \o Facts("deleted", freed)
    /\ junction' = (junction /\ walked')
    /\ Settle
    /\ referenced' = {}
    /\ UNCHANGED << files, spilled, deferred, judged, past >>

(* Fault: whatever was set aside comes back.                                *)
RejoinAll(obs, aside) == obs \o aside

(* What was set aside comes back to a path something else named.            *)
Rejoin(obs, aside) == obs \o Select(aside, LAMBDA o : o.key \in Keys(obs))

Reattach ==
    /\ At("reattach")
    /\ observations' = Rejoin(Rejoin(Rejoin(observations, deferred.com), deferred.av),
                              deferred.values)
    /\ dropped' = { o \in ToSet(deferred.com \o deferred.av \o deferred.values) :
                      o.id \notin Ids(observations') }
    /\ deferred' = [com |-> << >>, av |-> << >>, values |-> << >>]
    /\ Settle
    /\ UNCHANGED << volume, walked, referenced, judged, harvested,
                    withheld >>

(* translate(), and volume.resolve of what it gives.                        *)
Translates(o) ==
    /\ o.by # "$MFT"
    /\ o.key = "alias" /\ junction
    /\ Canonical[o.key] \in files

(* Fault: the file behind a translated path is not looked at.               *)
NothingMore(obs, crossed) == obs

(* The facts of a file of which the walk reported nothing.  Whatever it     *)
(* reported under that path counts, a freed record that had it included;    *)
(* and what stands in one record is no file's facts if its name is in       *)
(* another, or the record cannot be read.                                   *)
WithFacts(obs, crossed) ==
    LET already == Keys(Select(obs, LAMBDA o : o.by = "$MFT"))
    IN  obs \o Facts("exists", (crossed \ already) \ spilled)

CanonicalizeThroughJunctions ==
    /\ At("junctions")
    /\ LET moved == [i \in DOMAIN observations |->
                       IF Translates(observations[i])
                       THEN [observations[i] EXCEPT !.key = Canonical[@]]
                       ELSE observations[i]]
           crossed == { Canonical[k] : k \in Keys(Select(observations, Translates)) }
       IN observations' = WithFacts(moved, crossed)
    /\ Settle
    /\ UNCHANGED << volume, walked, referenced, deferred, judged, past >>

(* The journal dates the deletion of paths that are known already, and not  *)
(* known to be there.                                                       *)
KnownPresent(obs) == Keys(Select(obs, LAMBDA o : o.kind = "exists"))

HarvestUsnJournal ==
    /\ At("USN")
    /\ \E gone \in Deletions(Keys(observations) \ KnownPresent(observations)) :
         observations' = observations \o SetToSeq({ About("USN", "deleted", k) : k \in gone })
    /\ Settle
    /\ UNCHANGED << volume, walked, referenced, deferred, judged, past >>

-----------------------------------------------------------------------------
(* The candidates and what is concluded of them.                            *)
Extract(cs, k, w) == [of |-> ToSet(cs[k]), within |-> w]
ExtractAll(cs, w) == [k \in DOMAIN cs |-> Extract(cs, k, w)]

IsShared(o) == o.kind = "shared"
Shared(cs, k) == Select(cs[k], IsShared)

(* Fault: a link, once made, stays.                                         *)
KeepLinks(obs) == obs

WithoutLinks(obs) == Select(obs, LAMBDA o : ~IsShared(o))

(* link_shared_digests: the other candidates with the same bytes, unless    *)
(* what was read of one disputes what was recorded of it.                   *)
LinkSharedDigests(cs, h, d) ==
    LET linkable == { k \in DOMAIN cs : h[k] # NoDigest /\ ~d[k] }
        others == [k \in DOMAIN cs |->
                     IF k \in linkable THEN { j \in linkable \ {k} : h[j] = h[k] } ELSE {}]
    IN [k \in DOMAIN cs |->
          WithoutLinks(cs[k]) \o
            IF others[k] = {} THEN << >>
            ELSE << [About("digests", "shared", k) EXCEPT !.digest = others[k]] >>]

(* Candidate::observe keeps the first digest it is given.                   *)
RecordedHash(obs) ==
    LET hashed == Select(obs, LAMBDA o : o.digest # NoDigest)
    IN IF hashed = << >> THEN NoDigest ELSE hashed[1].digest

BuildAndScore ==
    /\ At("scoring")
    /\ LET cs == [k \in Keys(observations) |->
                    Select(observations, LAMBDA o : o.key = k)]
       IN /\ hash' = [k \in DOMAIN cs |-> RecordedHash(cs[k])]
          /\ disputed' = [k \in DOMAIN cs |-> FALSE]
          /\ candidates' = LinkSharedDigests(cs, hash', disputed')
          /\ evidence' = ExtractAll(candidates', FALSE)
    /\ observations' = << >>
    /\ Settle
    /\ UNCHANGED << volume, walked, referenced, deferred, window, past >>

(* Of the candidates that are files here, a shortlist is read: its headers  *)
(* may say something, its signature is settled one way or another, and a    *)
(* parser that panics leaves the verdict Unknown.                           *)
VerifySignatures ==
    /\ At("signatures")
    /\ \E selected \in SUBSET (DOMAIN candidates \cap files) :
         /\ candidates' = [k \in DOMAIN candidates |->
              IF k \in selected
              THEN Append(candidates[k], About("signatures", "signature", k))
              ELSE candidates[k]]
         /\ evidence' = [k \in DOMAIN candidates |->
              IF k \in selected THEN Extract(candidates', k, FALSE) ELSE evidence[k]]
    /\ Settle
    /\ UNCHANGED << volume, walked, gathered, hash, disputed, window, past >>

ApplyIncidentWindow ==
    /\ At("window")
    /\ window' \in BOOLEAN
    /\ evidence' = IF window' THEN ExtractAll(candidates, TRUE) ELSE evidence
    /\ Settle
    /\ UNCHANGED << volume, walked, gathered, candidates, hash, disputed,
                    past >>

(* acquire, for each candidate: record_acquired_hash checks the bytes       *)
(* against every digest recorded, and adopts theirs or does not.            *)
Disputes(k, c) == \E i \in DOMAIN candidates[k] :
    ~IsShared(candidates[k][i]) /\ candidates[k][i].digest \notin {NoDigest, c}

AcquireSamples ==
    /\ At("samples")
    /\ \E read \in { r \in SUBSET DOMAIN candidates : Cardinality(r) <= MaxAcquired } :
       \E bytes \in [read -> Contents], adopt \in SUBSET read :
         /\ hash' = [k \in DOMAIN hash |-> IF k \in adopt THEN bytes[k] ELSE hash[k]]
         /\ disputed' = [k \in DOMAIN disputed |->
                           disputed[k] \/ (k \in read /\ Disputes(k, bytes[k]))]
    /\ Settle
    /\ UNCHANGED << volume, walked, gathered, candidates, evidence, window,
                    past >>

(* Fault: only a candidate that gained a link is scored again.              *)
Gained(before, after) == after # << >> /\ before = << >>

Changed(before, after) == after # before

(* The bytes read may have given a candidate the digest of another.         *)
RelinkSharedDigests ==
    /\ At("digests")
    /\ candidates' = LinkSharedDigests(candidates, hash, disputed)
    /\ evidence' = [k \in DOMAIN candidates |->
         IF Changed(Shared(candidates, k), Shared(candidates', k))
         THEN Extract(candidates', k, window) ELSE evidence[k]]
    /\ Settle
    /\ UNCHANGED << volume, walked, gathered, hash, disputed, window, past >>

Harvest == SoftwareHive \/ SystemHive \/ UserHives \/ StartupFolders \/ Amcache
             \/ Prefetch \/ Pca \/ Tasks \/ Quarantine \/ RecycleBin \/ DefenderLog
Gather == WithholdOtherVolumes \/ ComRegistrations \/ DeferTheRest \/ WalkFilesystem
            \/ Reattach \/ CanonicalizeThroughJunctions \/ HarvestUsnJournal
Judge == BuildAndScore \/ VerifySignatures \/ ApplyIncidentWindow \/ AcquireSamples
           \/ RelinkSharedDigests
Next == Harvest \/ Gather \/ Judge

Spec == Init /\ [][Next]_vars

-----------------------------------------------------------------------------
Done == At("done")

(* Types of what the run gathers and concludes; every candidate is a key    *)
(* something named, with one digest, one set of checks and one evidence.    *)
TypeOK ==
    /\ stage \in ToSet(Stages)
    /\ files \subseteq Key /\ spilled \subseteq files /\ referenced \subseteq Key
    /\ Keys(observations) \subseteq Key
    /\ DOMAIN candidates \subseteq Key
    /\ \A k \in DOMAIN candidates : candidates[k] # << >> /\ Keys(candidates[k]) = {k}
    /\ DOMAIN hash = DOMAIN candidates /\ DOMAIN disputed = DOMAIN candidates
    /\ DOMAIN evidence = DOMAIN candidates
    /\ \A k \in DOMAIN hash : hash[k] \in Contents \cup {NoDigest}

(* What an artifact said is never lost and never counted twice, through     *)
(* withholding, relabelling, deferral, translation and grouping: each       *)
(* observation harvested is in exactly one place.                           *)
Places == << Ids(observations), Ids(deferred.com), Ids(deferred.av), Ids(deferred.values),
             withheld, { o.id : o \in dropped },
             UNION { Ids(candidates[k]) : k \in DOMAIN candidates } >>
Given(obs) == Len(Select(obs, LAMBDA o : o.id # 0))
EveryObservationIsAccountedFor ==
    /\ LET places == Places
       IN /\ UNION ToSet(places) = 1..harvested
          /\ \A i, j \in DOMAIN places : i # j => places[i] \cap places[j] = {}
    /\ Given(observations) = Cardinality(Ids(observations))
    /\ \A k \in DOMAIN candidates : Given(candidates[k]) = Cardinality(Ids(candidates[k]))

(* A detection that names a file the walk could see is kept, although the   *)
(* file is in no other artifact and of no interest by itself.               *)
DetectionOfAFileHereIsKept ==
    walked => \A o \in dropped : IsDetection(o) => o.key \notin files

Spelled(k) == IF junction THEN Canonical[k] ELSE k
LedTo(k) == junction /\ \E a \in Key \ {k} : Canonical[a] = k

(* An ordinary registration, a detection or a freed value alone never makes *)
(* a candidate: somebody else named the file, or it is on the volume.  Only *)
(* a registration spelled through a junction, which is not set aside, may   *)
(* stand alone for a file whose own record does not tell.                   *)
DeferredNameNoCandidateAlone ==
    \A k \in DOMAIN candidates : \E i \in DOMAIN candidates[k] :
        LET o == candidates[k][i]
        IN /\ IsKept(o) /\ o.by \notin {"digests", "signatures"}
           /\ IsDeferrableCom(o) => LedTo(k) /\ k \in spilled

(* Somebody named the file by something the walk is told to look for.       *)
NamedByAnArtifact(k) ==
    \E i \in DOMAIN candidates[k] : candidates[k][i].id # 0 /\ ~IsDeferrableCom(candidates[k][i])
RecordedFreed(k) ==
    \E i \in DOMAIN candidates[k] : candidates[k][i].by = "$MFT" /\ candidates[k][i].kind = "deleted"

(* A candidate that an artifact named and that is a file on the volume is   *)
(* known to be one, however the artifact spelled its path: nothing that ran *)
(* is "no longer on disk" while it is (mm-score/features.rs 883).  Only     *)
(* behind a junction it may not be, if a freed record had its path or its   *)
(* own record does not tell.                                                *)
PresentFilesAreKnownPresent ==
    walked =>
        \A k \in DOMAIN candidates :
            Spelled(k) \in files /\ NamedByAnArtifact(k) =>
                \/ KnownPresent(candidates[k]) # {}
                \/ LedTo(k) /\ (k \in spilled \/ RecordedFreed(k))

(* The evidence in the report is of the observations in the report: stages  *)
(* that observe, link or unlink a candidate after it was scored leave no    *)
(* conclusion behind that its observations do not support.                  *)
EvidenceIsOfTheReport ==
    Done => \A k \in DOMAIN candidates :
               evidence[k] = Extract(candidates, k, window)

(* Two candidates are shown as one file's bytes only mutually, only by the  *)
(* digest each goes by in the end, and never when bytes dispute it.         *)
SharedDigestsAreMutual ==
    Done => \A k \in DOMAIN candidates :
        \A i \in DOMAIN Shared(candidates, k) : \A j \in Shared(candidates, k)[i].digest :
            /\ hash[j] = hash[k] /\ ~disputed[j] /\ ~disputed[k]
            /\ \E n \in DOMAIN Shared(candidates, j) : k \in Shared(candidates, j)[n].digest

(* "a detection naming a file that is here rejoins it" (pipeline.rs:4066);  *)
(* the others are told of as paths "this volume does not have" (2023).      *)
DetectionOfACandidateHereRejoins ==
    Done => \A o \in dropped :
        IsDetection(o) => Spelled(o.key) \notin files \cap DOMAIN candidates

(* "the translated path must carry the filesystem's answer, not silence"    *)
(* (junctions.rs:179): it was joined to the file it names "rather than      *)
(* being reported missing" (pipeline.rs:1348-1350).                         *)
TranslatedPathsCarryTheAnswer ==
    walked =>
        \A k \in DOMAIN candidates :
            LedTo(k) /\ k \in files \ spilled /\ NamedByAnArtifact(k) =>
                KnownPresent(candidates[k]) # {}
=============================================================================
