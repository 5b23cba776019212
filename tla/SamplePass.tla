----------------------------- MODULE SamplePass -----------------------------
(***************************************************************************)
(* acquire_samples and deep_carve (malmathic/pipeline.rs): which candidates *)
(* the acquisition chain is run for, and where what it saves is put.  The   *)
(* ranked loop takes candidates above the threshold from the top; the       *)
(* second loop takes what the score did not reach but a recovery rule names,*)
(* under a cap; --deep then searches free space for the candidates that     *)
(* still have no bytes.                                                     *)
(*                                                                         *)
(* Candidates are numbered in rank order.  What acquire() returns for one   *)
(* is any outcome AcquireChain allows, including the file it may leave      *)
(* behind when the outcome has no bytes.                                    *)
(***************************************************************************)
EXTENDS Integers, FiniteSets, FiniteSetsExt

CONSTANTS
    N,                  \* candidates
    AcquireTop,         \* options.acquire_top
    MaxUnranked,        \* MAX_UNRANKED_ACQUISITIONS
    MaxUnrankedBytes,   \* MAX_UNRANKED_BYTES
    MaxSampleBytes,     \* MAX_SAMPLE_BYTES: no sample is longer
    MaxTargets,         \* deep::MAX_TARGETS
    WriteOut,           \* options.write_samples
    Deep,               \* options.deep
    DiskFails           \* directories and files may fail to be made

ASSUME CountAssumption ==
    /\ N \in Nat
    /\ AcquireTop \in Nat
    /\ MaxUnranked \in Nat
    /\ MaxTargets \in Nat
ASSUME ByteAssumption ==
    /\ MaxUnrankedBytes \in Nat \ {0}
    /\ MaxSampleBytes \in Nat
ASSUME OptionAssumption ==
    /\ WriteOut \in BOOLEAN
    /\ Deep \in BOOLEAN
    /\ DiskFails \in BOOLEAN

VARIABLES
    above,          \* the candidates at or over the threshold: 1..above
    matching,       \* those matches_an_unranked_rule accepts
    searchable,     \* no live file, and a digest or a name to know it by
    phase,          \* "begin", "ranked", "unranked", "carve", "adopt" or "done"
    at,             \* the candidate the loop is at
    acquisition,    \* Candidate.acquisition
    done,           \* the candidates the ranked loop took
    unranked,       \* attempts of the second loop
    spent,          \* bytes they brought
    declined,       \* matching candidates it did not attempt
    unranked_dir,   \* whether sample/unranked was made
    targets,        \* what --deep searches for
    hits,           \* what it found: a candidate and a length
    saved           \* the files on disk: directory, candidate, length

vars == << above, matching, searchable, phase, at, acquisition, done, unranked,
           spent, declined, unranked_dir, targets, hits, saved >>

Candidates == 1..N
Sizes == 0..MaxSampleBytes
Dirs == {"sample", "sample/unranked"}
NotAttempted == [kind |-> "NotAttempted"]
Failed == [kind |-> "Failed"]
HashOnly == [kind |-> "HashOnly"]
Bytes(dir, size) ==
    [kind |-> IF WriteOut THEN "Bytes" ELSE "Withheld", dir |-> dir, size |-> size]
HasBytes(a) == a.kind \in {"Bytes", "Withheld"}

Init ==
    /\ above \in 0..N
    /\ matching \in SUBSET Candidates
    /\ searchable \in SUBSET Candidates
    /\ phase = "begin"
    /\ at = 1
    /\ acquisition = [c \in Candidates |-> NotAttempted]
    /\ done = {}
    /\ unranked = 0
    /\ spent = 0
    /\ declined = 0
    /\ unranked_dir = FALSE
    /\ targets = {}
    /\ hits = {}
    /\ saved = {}

-----------------------------------------------------------------------------
(* create_if: nothing is made, and nothing can fail, under --no-samples.    *)
CanFail == WriteOut /\ DiskFails

(* Fault: a file that is already there is left as it is.                    *)
PutUnlessThere(dir, c, size) ==
    IF \E f \in saved : f.dir = dir /\ f.of = c THEN saved
    ELSE saved \cup { [dir |-> dir, of |-> c, size |-> size] }

(* C<id>.bin in a directory, over whatever a former attempt left there.     *)
Put(dir, c, size) ==
    { f \in saved : ~(f.dir = dir /\ f.of = c) }
      \cup { [dir |-> dir, of |-> c, size |-> size] }

(* acquire() for one candidate.  Without bytes there is no file, or one a   *)
(* source that lost, or a write that failed, has left.                      *)
Acquire(c, dir) ==
    \/ \E size \in Sizes :
         /\ acquisition' = [acquisition EXCEPT ![c] = Bytes(dir, size)]
         /\ saved' = IF WriteOut THEN Put(dir, c, size) ELSE saved
    \/ /\ acquisition' \in { [acquisition EXCEPT ![c] = a] : a \in {Failed, HashOnly} }
       /\ saved' \in {saved} \cup
            IF WriteOut THEN { Put(dir, c, size) : size \in Sizes } ELSE {}

(* The sample directory could not be made: nothing at all is attempted.     *)
NoSampleDirectory ==
    /\ phase = "begin"
    /\ CanFail
    /\ phase' = "done"
    /\ UNCHANGED << above, matching, searchable, at, acquisition, done, unranked,
                    spent, declined, unranked_dir, targets, hits, saved >>

Begin ==
    /\ phase = "begin"
    /\ phase' = "ranked"
    /\ UNCHANGED << above, matching, searchable, at, acquisition, done, unranked,
                    spent, declined, unranked_dir, targets, hits, saved >>

(* order.iter().take(acquire_top), until one is below the threshold.        *)
Reached(c) == c <= AcquireTop /\ c <= above

AcquireRanked ==
    /\ phase = "ranked"
    /\ Reached(at)
    /\ Acquire(at, "sample")
    /\ done' = done \cup {at}
    /\ at' = at + 1
    /\ UNCHANGED << above, matching, searchable, phase, unranked, spent, declined,
                    unranked_dir, targets, hits >>

EndRanked ==
    /\ phase = "ranked"
    /\ ~Reached(at)
    /\ phase' = "unranked"
    /\ at' = 1
    /\ UNCHANGED << above, matching, searchable, acquisition, done, unranked, spent,
                    declined, unranked_dir, targets, hits, saved >>

Wanted(c) == c \in matching \ done

(* Fault: the byte cap is not looked at.                                    *)
CappedByCount == unranked >= MaxUnranked

Capped == unranked >= MaxUnranked \/ spent >= MaxUnrankedBytes

Pass ==
    /\ phase = "unranked"
    /\ at <= N
    /\ ~Wanted(at)
    /\ at' = at + 1
    /\ UNCHANGED << above, matching, searchable, phase, acquisition, done, unranked,
                    spent, declined, unranked_dir, targets, hits, saved >>

Decline ==
    /\ phase = "unranked"
    /\ at <= N
    /\ Wanted(at) /\ Capped
    /\ declined' = declined + 1
    /\ at' = at + 1
    /\ UNCHANGED << above, matching, searchable, phase, acquisition, done, unranked,
                    spent, unranked_dir, targets, hits, saved >>

(* The directory is made for the first candidate that needs it; if it       *)
(* cannot be, the loop is over.                                             *)
NoUnrankedDirectory ==
    /\ phase = "unranked"
    /\ at <= N
    /\ Wanted(at) /\ ~Capped
    /\ ~unranked_dir /\ CanFail
    /\ phase' = "carve"
    /\ UNCHANGED << above, matching, searchable, at, acquisition, done, unranked,
                    spent, declined, unranked_dir, targets, hits, saved >>

AcquireUnranked ==
    /\ phase = "unranked"
    /\ at <= N
    /\ Wanted(at) /\ ~Capped
    /\ unranked_dir' = TRUE
    /\ Acquire(at, "sample/unranked")
    /\ spent' = spent + IF HasBytes(acquisition'[at]) THEN acquisition'[at].size ELSE 0
    /\ unranked' = unranked + 1
    /\ at' = at + 1
    /\ UNCHANGED << above, matching, searchable, phase, done, declined, targets, hits >>

EndUnranked ==
    /\ phase = "unranked"
    /\ at > N
    /\ phase' = "carve"
    /\ UNCHANGED << above, matching, searchable, at, acquisition, done, unranked,
                    spent, declined, unranked_dir, targets, hits, saved >>

-----------------------------------------------------------------------------
(* Fault: a candidate that has bytes is searched for as well.               *)
SearchableAtAll(c) == c \in searchable

(* deep::target_for: bytes in hand end the search.                          *)
WorthSearchingFor(c) == c \in searchable /\ ~HasBytes(acquisition[c])

(* deep::targets: the first MAX_TARGETS in rank order.                      *)
Targets ==
    { c \in Candidates :
        /\ WorthSearchingFor(c)
        /\ Cardinality({ b \in 1..c : WorthSearchingFor(b) }) <= MaxTargets }

(* Not asked for, nothing to search for, or $Bitmap unreadable.             *)
NoCarve ==
    /\ phase = "carve"
    /\ phase' = "done"
    /\ UNCHANGED << above, matching, searchable, at, acquisition, done, unranked,
                    spent, declined, unranked_dir, targets, hits, saved >>

(* deep::scan: at most one hit for each target.                             *)
Scan ==
    /\ phase = "carve"
    /\ Deep /\ Targets # {}
    /\ targets' = Targets
    /\ \E found \in SUBSET Targets : \E size \in [found -> Sizes] :
         hits' = { [of |-> c, size |-> size[c]] : c \in found }
    /\ phase' = "adopt"
    /\ UNCHANGED << above, matching, searchable, at, acquisition, done, unranked,
                    spent, declined, unranked_dir, saved >>

(* Fault: the directory is named without its parent.                        *)
CarveDirBare(c) == IF c <= above THEN "sample" ELSE "unranked"

(* Where a carved image goes: by the threshold, not by the loops above.     *)
CarveDir(c) == IF c <= above THEN "sample" ELSE "sample/unranked"

(* Targets are taken in rank order; one without a hit keeps its outcome.    *)
NextHit == { hit \in hits : /\ hit.of \in targets
                            /\ \A h \in hits : h.of \in targets => hit.of <= h.of }

(* A hit is adopted: its bytes are saved, or the failure to is the outcome. *)
Adopt ==
    /\ phase = "adopt"
    /\ \E hit \in NextHit :
         /\ targets' = targets \ {hit.of}
         /\ \/ /\ acquisition' = [acquisition EXCEPT ![hit.of] = Bytes(CarveDir(hit.of), hit.size)]
               /\ saved' = IF WriteOut THEN Put(CarveDir(hit.of), hit.of, hit.size)
                           ELSE saved
            \/ /\ CanFail
               /\ acquisition' = [acquisition EXCEPT ![hit.of] = Failed]
               /\ saved' \in {saved} \cup
                             { Put(CarveDir(hit.of), hit.of, size) : size \in 0..hit.size }
    /\ UNCHANGED << above, matching, searchable, phase, at, done, unranked, spent,
                    declined, unranked_dir, hits >>

(* sample/unranked could not be made: the hit is passed over in silence.    *)
DropHit ==
    /\ phase = "adopt"
    /\ CanFail
    /\ \E hit \in NextHit :
         /\ CarveDir(hit.of) = "sample/unranked"
         /\ targets' = targets \ {hit.of}
    /\ UNCHANGED << above, matching, searchable, phase, at, acquisition, done, unranked,
                    spent, declined, unranked_dir, hits, saved >>

EndAdopt ==
    /\ phase = "adopt"
    /\ targets \cap { h.of : h \in hits } = {}
    /\ phase' = "done"
    /\ UNCHANGED << above, matching, searchable, at, acquisition, done, unranked,
                    spent, declined, unranked_dir, targets, hits, saved >>

Next ==
    \/ NoSampleDirectory \/ Begin \/ AcquireRanked \/ EndRanked
    \/ Pass \/ Decline \/ NoUnrankedDirectory \/ AcquireUnranked \/ EndUnranked
    \/ NoCarve \/ Scan \/ Adopt \/ DropHit \/ EndAdopt

Spec == Init /\ [][Next]_vars

-----------------------------------------------------------------------------
Outcomes == {NotAttempted, Failed, HashOnly} \cup { Bytes(dir, size) : dir \in Dirs, size \in Sizes }

(* Types of the counters, the outcomes and the files.                       *)
TypeOK ==
    /\ above \in 0..N
    /\ matching \subseteq Candidates
    /\ searchable \subseteq Candidates
    /\ phase \in {"begin", "ranked", "unranked", "carve", "adopt", "done"}
    /\ at \in 1..(N + 1)
    /\ acquisition \in [Candidates -> Outcomes]
    /\ done \subseteq Candidates
    /\ unranked \in 0..N
    /\ spent \in Nat
    /\ declined \in 0..N
    /\ unranked_dir \in BOOLEAN
    /\ targets \subseteq Candidates
    /\ hits \subseteq [of : Candidates, size : Sizes]
    /\ saved \subseteq [dir : Dirs, of : Candidates, size : Sizes]

(* The second loop overruns its caps by less than one sample: the attempts  *)
(* stay within theirs, and only the last of them may carry the bytes past.  *)
OverrunIsOneSample ==
    /\ unranked <= MaxUnranked
    /\ spent < MaxUnrankedBytes + MaxSampleBytes

(* Bytes once recovered are never replaced, by a second attempt of another  *)
(* loop or by an image carved out of free space.                            *)
RecoveredBytesAreKept ==
    [][ \A c \in Candidates : HasBytes(acquisition[c]) =>
            acquisition'[c] = acquisition[c] ]_vars

(* Bytes the report says were saved are in the file it names, at their      *)
(* length, whatever earlier attempts for the same candidate left there.     *)
SavedBytesAreOnDisk ==
    \A c \in Candidates : acquisition[c].kind = "Bytes" =>
        [dir |-> acquisition[c].dir, of |-> c, size |-> acquisition[c].size] \in saved

(* README.md:84: sample/unranked is "capped at 64 files or 256 MB".         *)
Unranked == { f \in saved : f.dir = "sample/unranked" }
UnrankedIsCapped ==
    /\ Cardinality(Unranked) <= MaxUnranked
    /\ MapThenSumSet(LAMBDA f : f.size, Unranked) <= MaxUnrankedBytes
=============================================================================
