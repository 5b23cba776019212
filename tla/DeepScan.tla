------------------------------ MODULE DeepScan ------------------------------
(***************************************************************************)
(* --deep (malmathic/deep.rs): the search of free space for the bytes of    *)
(* files nothing else could reach.  Every run of free clusters is read in   *)
(* chunks that overlap by a header window; where a cluster starts with an   *)
(* image, the image is measured by its own headers, read whole and compared *)
(* with every target that has no hit yet.  Budgets, unreadable spans and    *)
(* the last hit end the search early; a report then says of each target     *)
(* that was missed whether the search was exhaustive.                       *)
(*                                                                         *)
(* The unit of length is the cluster.  A cluster either reads or does not.  *)
(***************************************************************************)
EXTENDS Integers, FiniteSets, FiniteSetsExt

CONSTANTS
    Total,          \* clusters of the volume
    Chunk,          \* CHUNK
    Window,         \* HEADER_WINDOW
    Targets,        \* what is searched for
    Images,         \* what may lie in free space: its length, the extent of
                    \* its headers, the targets its bytes answer to
    MaxRead,        \* MAX_READ_BYTES
    MaxHeaders,     \* MAX_HEADERS
    MaxHashed,      \* MAX_HASH_ATTEMPTS
    MaxLength,      \* MAX_SAMPLE_BYTES
    MaxBad          \* bound: clusters that cannot be read

SizeAssumption ==
    /\ Total \in Nat
    /\ Chunk \in Nat \ {0}
    /\ Window \in Nat
    /\ MaxBad \in Nat
BudgetAssumption ==
    /\ MaxRead \in Nat
    /\ MaxHeaders \in Nat
    /\ MaxHashed \in Nat
    /\ MaxLength \in Nat
TargetAssumption == IsFiniteSet(Targets) /\ Targets # {}
ImageAssumption ==
    \A i \in Images : /\ i.length \in 1..MaxLength
                      /\ i.header \in 1..i.length
                      /\ i.answers \subseteq Targets

VARIABLES
    free,           \* the clusters $Bitmap marks free
    bad,            \* those of them that cannot be read
    image,          \* the image that starts in a free cluster
    phase,          \* "span" (the chunk loop), "search" (inside one), "done"
    run,            \* the run being read: FreeRuns
    at,             \* offset in the run
    want,           \* length of the span in the buffer
    offset,         \* offset in that span
    scanned,        \* scanned_clusters
    bytes_read,     \* in clusters
    headers,        \* images measured
    hashed,         \* images compared
    hits,           \* a target and where its image starts
    stopped,        \* the reasons the search was not exhaustive
    compared,       \* history: where compared images start
    declined        \* history: images a budget kept from being compared

medium == << free, bad, image >>
position == << phase, run, at, want, offset >>
found == << headers, hashed, hits, compared, declined >>
vars == << medium, position, scanned, bytes_read, found, stopped >>

Clusters == 0..(Total - 1)
NoImage == [length |-> 0]
NoRun == [lcn |-> Total, length |-> 0]
MIN(a, b) == IF a < b THEN a ELSE b

(* FreeRuns::next: the maximal run of free clusters at or above from.       *)
RunFrom(from) ==
    LET ahead == { c \in free : c >= from }
    IN IF ahead = {} THEN NoRun
       ELSE LET lcn == Min(ahead)
                end == Min({ c \in lcn..Total : c \notin free })
            IN [lcn |-> lcn, length |-> end - lcn]

Span(first, length) == first..(first + length - 1)
Unreadable(first, length) == Span(first, length) \cap bad # {}

Init ==
    /\ free \in SUBSET Clusters
    /\ bad \in { b \in SUBSET free : Cardinality(b) <= MaxBad }
    /\ image \in [free -> Images \cup {NoImage}]
    /\ phase = "span"
    /\ run = RunFrom(0)
    /\ at = 0
    /\ want = 0
    /\ offset = 0
    /\ scanned = 0
    /\ bytes_read = 0
    /\ headers = 0
    /\ hashed = 0
    /\ hits = {}
    /\ stopped = {}
    /\ compared = {}
    /\ declined = {}

-----------------------------------------------------------------------------
AtSpan == phase = "span" /\ at < run.length

(* Fault: the iterator comes back to the run it just gave.                  *)
SameRun ==
    /\ phase = "span"
    /\ run # NoRun /\ at >= run.length
    /\ at' = 0
    /\ UNCHANGED << medium, phase, run, want, offset, scanned, bytes_read, found, stopped >>

NextRun ==
    /\ phase = "span"
    /\ run # NoRun /\ at >= run.length
    /\ run' = RunFrom(run.lcn + run.length)
    /\ at' = 0
    /\ UNCHANGED << medium, phase, want, offset, scanned, bytes_read, found, stopped >>

Searched ==
    /\ phase = "span"
    /\ run = NoRun
    /\ phase' = "done"
    /\ UNCHANGED << medium, run, at, want, offset, scanned, bytes_read, found, stopped >>

(* exhausted: the budgets in the order they are looked at; the clock may    *)
(* run out at any chunk.                                                    *)
OverBudget == bytes_read >= MaxRead \/ headers >= MaxHeaders \/ hashed >= MaxHashed
Exhaustion ==
    CASE bytes_read >= MaxRead -> "reads"
      [] bytes_read < MaxRead /\ headers >= MaxHeaders -> "headers"
      [] bytes_read < MaxRead /\ headers < MaxHeaders /\ hashed >= MaxHashed -> "hashes"
      [] OTHER -> "time"

Exhausted ==
    /\ AtSpan
    /\ stopped' = stopped \cup {Exhaustion}
    /\ phase' = "done"
    /\ UNCHANGED << medium, run, at, want, offset, scanned, bytes_read, found >>

(* Fault: the window past the chunk is not read.                            *)
WantChunk == MIN(run.length - at, Chunk)

Want == MIN(run.length - at, Chunk + Window)

(* The whole chunk is given up, and the first time is the reason kept.      *)
UnreadableSpan ==
    /\ AtSpan /\ ~OverBudget
    /\ Unreadable(run.lcn + at, Want)
    /\ stopped' = IF stopped = {} THEN {"span"} ELSE stopped
    /\ at' = at + Chunk
    /\ UNCHANGED << medium, phase, run, want, offset, scanned, bytes_read, found >>

Searchable == MIN(want, Chunk)

ReadSpan ==
    /\ AtSpan /\ ~OverBudget
    /\ ~Unreadable(run.lcn + at, Want)
    /\ want' = Want
    /\ bytes_read' = bytes_read + want'
    /\ scanned' = scanned + Searchable'
    /\ offset' = 0
    /\ phase' = "search"
    /\ UNCHANGED << medium, run, at, found, stopped >>

-----------------------------------------------------------------------------
InSpan == phase = "search" /\ offset < Searchable
Here == run.lcn + at + offset
Contiguous == run.length - at - offset

(* pe_image_length: the headers have to lie in what was read.               *)
Measured == image[Here] # NoImage /\ offset + image[Here].header <= want

StepOn ==
    /\ offset' = offset + 1
    /\ UNCHANGED << medium, phase, run, at, want, scanned, stopped >>

NoHeader ==
    /\ InSpan
    /\ ~Measured
    /\ StepOn
    /\ UNCHANGED << bytes_read, found >>

Follow ==
    /\ InSpan
    /\ Measured
    /\ headers' = headers + 1

TooLong == image[Here].length > Contiguous

Spent == hashed >= MaxHashed \/ bytes_read >= MaxRead

CutOff ==
    /\ Follow
    /\ TooLong
    /\ StepOn
    /\ UNCHANGED << bytes_read, hashed, hits, compared, declined >>

OverSpent ==
    /\ Follow
    /\ ~TooLong /\ Spent
    /\ declined' = declined \cup {Here}
    /\ StepOn
    /\ UNCHANGED << bytes_read, hashed, hits, compared >>

(* An image inside the buffer is taken from it, any other is read.          *)
Inside == offset + image[Here].length <= want

UnreadableImage ==
    /\ Follow
    /\ ~TooLong /\ ~Spent
    /\ ~Inside /\ Unreadable(Here, image[Here].length)
    /\ StepOn
    /\ UNCHANGED << bytes_read, hashed, hits, compared, declined >>

Answered(t) == \E hit \in hits : hit.index = t

(* Fault: a later image of the same target is a hit as well.                *)
EveryAnswer == { [index |-> t, lcn |-> Here] : t \in image[Here].answers }

NewHits == { [index |-> t, lcn |-> Here] : t \in { u \in image[Here].answers : ~Answered(u) } }

(* The comparison; the search ends with the last target's hit.              *)
Compare ==
    /\ Follow
    /\ ~TooLong /\ ~Spent
    /\ Inside \/ ~Unreadable(Here, image[Here].length)
    /\ bytes_read' = bytes_read + IF Inside THEN 0 ELSE image[Here].length
    /\ hashed' = hashed + 1
    /\ hits' = hits \cup NewHits
    /\ compared' = compared \cup {Here}
    /\ phase' = IF Cardinality(hits') >= Cardinality(Targets) THEN "done" ELSE "search"
    /\ offset' = offset + 1
    /\ UNCHANGED << medium, run, at, want, scanned, stopped, declined >>

EndSpan ==
    /\ phase = "search"
    /\ offset >= Searchable
    /\ at' = at + Chunk
    /\ phase' = "span"
    /\ UNCHANGED << medium, run, want, offset, scanned, bytes_read, found, stopped >>

Next ==
    \/ NextRun \/ Searched \/ Exhausted \/ UnreadableSpan \/ ReadSpan
    \/ NoHeader \/ CutOff \/ OverSpent \/ UnreadableImage \/ Compare \/ EndSpan

Spec == Init /\ [][Next]_vars

(* A loop that always has a next statement to run.                          *)
FairSpec == Spec /\ WF_vars(Next)

-----------------------------------------------------------------------------
(* Types of the medium, the position and the counters of the scan.          *)
TypeOK ==
    /\ free \subseteq Clusters
    /\ bad \subseteq free
    /\ image \in [free -> Images \cup {NoImage}]
    /\ phase \in {"span", "search", "done"}
    /\ run = NoRun \/ (run.length \in 1..Total /\ Span(run.lcn, run.length) \subseteq free)
    /\ at \in Nat
    /\ want \in 0..(Chunk + Window)
    /\ offset \in 0..Chunk
    /\ scanned \in Nat
    /\ bytes_read \in Nat
    /\ headers \in Nat
    /\ hashed \in Nat
    /\ hits \subseteq [index : Targets, lcn : free]
    /\ stopped \subseteq {"reads", "headers", "hashes", "time", "span"}
    /\ compared \subseteq free
    /\ declined \subseteq free

Whole(c) == Span(c, image[c].length) \subseteq free

(* A target's hit is the image of it that starts lowest among those read,   *)
(* and every cluster of it is free: nothing another file owns is in it.     *)
HitsAreWholeAndFirst ==
    \A hit \in hits :
        /\ Whole(hit.lcn)
        /\ \A c \in compared : hit.index \in image[c].answers => hit.lcn <= c

ExhaustiveAndMissed ==
    phase = "done" /\ stopped = {} /\ \E t \in Targets : ~Answered(t)

(* What a target could have been answered with: contiguous, free, and with  *)
(* headers the overlap of two chunks is long enough for.                    *)
Answers(t, c) ==
    /\ image[c] # NoImage
    /\ t \in image[c].answers
    /\ image[c].header <= Window + 1
    /\ Whole(c)

(* A search that calls itself exhaustive compared everything that could     *)
(* have answered what it missed, but for images a budget kept from it: an   *)
(* image that cannot be read lies in a span that cannot be read either.  It *)
(* says that it read every cluster marked free.                             *)
ExhaustiveMeansCompared ==
    ExhaustiveAndMissed =>
        /\ scanned = Cardinality(free)
        /\ \A t \in Targets, c \in free :
            ~Answered(t) /\ Answers(t, c) => c \in declined

(* deep.rs:464: "The search covered every free run on the volume", and can  *)
(* miss only what is fragmented or has data appended.                       *)
ExhaustiveMeansCovered ==
    ExhaustiveAndMissed =>
        \A t \in Targets, c \in free : Answers(t, c) => Answered(t)

(* The search ends, whatever lies on the disk and whatever cannot be read,  *)
(* even if the clock never runs out.                                        *)
Termination == <>(phase = "done")
=============================================================================
