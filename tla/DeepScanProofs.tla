--------------------------- MODULE DeepScanProofs ---------------------------
(***************************************************************************)
(* For any volume, chunk, header window, budgets and images: the types of   *)
(* DeepScan, that a hit is whole and the lowest compared image of its       *)
(* target, and that a search which calls itself exhaustive compared all     *)
(* that could have answered.                                                *)
(***************************************************************************)
EXTENDS DeepScan, FiniteSetTheorems, WellFoundedInduction, TLAPS

Given == SizeAssumption /\ TargetAssumption /\ ImageAssumption

(* How far the search has come: below Reached every cluster has been looked *)
(* at, below Swept every free one has been read and counted.                *)
RunEnd == run.lcn + run.length
Behind == MIN(run.lcn + at, RunEnd)
Reached == IF phase = "search" THEN run.lcn + at + offset ELSE Behind
Swept == IF phase = "search" THEN run.lcn + at + Searchable ELSE Behind

(* A run ends at a cluster in use, or with the volume.                      *)
Maximal(r) ==
    \/ r = NoRun
    \/ /\ r.lcn \in Clusters
       /\ r.length \in 1..Total
       /\ Span(r.lcn, r.length) \subseteq free
       /\ r.lcn + r.length \notin free

(* Inside a chunk, the buffer holds what was wanted of the run.             *)
SpanIsWanted ==
    phase = "search" =>
        /\ run # NoRun /\ at < run.length
        /\ want = Want /\ offset <= Searchable

(* What was compared lies behind, and is whole.                             *)
ComparedIsBehind ==
    \A c \in compared :
        /\ image[c] # NoImage
        /\ Whole(c)
        /\ phase # "done" => c < Reached

(* Every hit is of a compared image, and the lowest that answers.           *)
HitsAreOfCompared ==
    /\ \A hit \in hits :
         /\ hit.lcn \in compared
         /\ hit.index \in image[hit.lcn].answers
         /\ \A c \in compared : hit.index \in image[c].answers => hit.lcn <= c
    /\ \A c \in compared : \A t \in image[c].answers : Answered(t)
    /\ \A g, h \in hits : g.index = h.index => g = h

(* While nothing has stopped the search short: what was swept can be read,  *)
(* and an image behind that could answer was compared, declined, or lies    *)
(* over a cluster that cannot be read.                                      *)
Onward == stopped = {} /\ (phase # "done" \/ run = NoRun)

NothingIsPassedOver ==
    Onward =>
        /\ scanned = Cardinality({ c \in free : c < Swept })
        /\ \A c \in bad : c >= Swept
        /\ \A c \in free :
             /\ c < Reached
             /\ image[c] # NoImage
             /\ image[c].header <= Window + 1
             /\ Whole(c)
             => c \in compared \cup declined \/ Unreadable(c, image[c].length)

(* A search that ends inside a run was stopped, or has every hit.           *)
EndsWithEveryHit ==
    phase = "done" /\ stopped = {} /\ run # NoRun => \A t \in Targets : Answered(t)

IInv ==
    /\ TypeOK
    /\ Maximal(run)
    /\ SpanIsWanted
    /\ ComparedIsBehind
    /\ HitsAreOfCompared
    /\ NothingIsPassedOver
    /\ EndsWithEveryHit

-----------------------------------------------------------------------------
(* Min, and the runs of FreeRuns::next.                                     *)
LEMMA MinIsLeast ==
    ASSUME NEW S, S \subseteq Nat, S # {}
    PROVE  Min(S) \in S /\ \A y \in S : Min(S) <= y
<1> DEFINE Less == { ss \in Nat \X Nat : ss[1] < ss[2] }
<1>1. OpToRel(<, Nat) = Less
  BY Zenon DEF OpToRel
<1>2. IsWellFoundedOn(Less, Nat)
  BY <1>1, NatLessThanWellFounded, Zenon
<1>3. \A x, y \in Nat : y < x => << y, x >> \in Less
  BY SMT
<1> HIDE DEF Less
<1>4. PICK x \in S : \A y \in S : << y, x >> \notin Less
  BY <1>2, WFMin
<1>5. \A y \in S : ~(y < x)
  BY <1>3, <1>4
<1>6. \A y \in S : x =< y
  BY <1>4, <1>5
<1> QED
  BY <1>4, <1>6 DEF Min

LEMMA RunFromIsMaximal ==
    ASSUME SizeAssumption, free \subseteq Clusters, NEW from \in Nat
    PROVE  /\ Maximal(RunFrom(from))
           /\ RunFrom(from) # NoRun => RunFrom(from).lcn >= from
           /\ \A c \in free : c < from \/ c >= RunFrom(from).lcn
<1> DEFINE ahead == { c \in free : c >= from }
           beyond == { c \in Min(ahead)..Total : c \notin free }
<1>a. Total \in Nat /\ free \subseteq Nat /\ \A c \in free : c < Total
  BY DEF SizeAssumption, Clusters
<1>1. CASE ahead = {}
  <2>1. RunFrom(from) = NoRun
    BY <1>1 DEF RunFrom
  <2> QED
    BY <1>a, <1>1, <2>1 DEF Maximal, NoRun
<1>2. CASE ahead # {}
  <2> HIDE DEF ahead, beyond
  <2>1. Min(ahead) \in ahead /\ \A c \in ahead : Min(ahead) <= c
    <3>1. ahead \subseteq Nat
      BY <1>a DEF ahead
    <3>2. ahead # {}
      BY <1>2
    <3> QED
      BY ONLY <3>1, <3>2, MinIsLeast
  <2>2. /\ Min(ahead) \in free /\ Min(ahead) \in Nat /\ Min(ahead) >= from
        /\ Min(ahead) < Total
        /\ \A c \in free : c < from \/ c >= Min(ahead)
    <3>1. Min(ahead) \in free /\ Min(ahead) >= from
      BY <2>1 DEF ahead
    <3>2. ASSUME NEW c \in free PROVE c < from \/ c >= Min(ahead)
      BY <1>a, <2>1 DEF ahead
    <3>3. Min(ahead) \in Nat /\ Min(ahead) < Total
      BY <1>a, <3>1
    <3> QED
      BY <3>1, <3>2, <3>3
  <2>3. Min(beyond) \in beyond /\ \A c \in beyond : Min(beyond) <= c
    <3>1. Total \notin free
      BY <1>a
    <3>2. Total \in beyond
      BY <1>a, <2>2, <3>1 DEF beyond
    <3>3. beyond \subseteq Nat
      BY <1>a, <2>2 DEF beyond
    <3> QED
      BY ONLY <3>2, <3>3, MinIsLeast
  <2>4. /\ Min(beyond) \in Nat /\ Min(beyond) \notin free
        /\ Min(beyond) > Min(ahead) /\ Min(beyond) <= Total
    <3>1. Min(beyond) \in Min(ahead)..Total /\ Min(beyond) \notin free
      BY <2>3 DEF beyond
    <3>2. Min(beyond) # Min(ahead)
      BY <2>2, <3>1
    <3> QED
      BY <1>a, <2>2, <3>1, <3>2
  <2>5. ASSUME NEW c \in Min(ahead)..(Min(beyond) - 1) PROVE c \in free
    <3>1. c \in Min(ahead)..Total /\ c < Min(beyond)
      BY <1>a, <2>2, <2>4
    <3> QED
      BY <1>a, <2>2, <2>3, <2>4, <3>1 DEF beyond
  <2>6. RunFrom(from) = [lcn |-> Min(ahead), length |-> Min(beyond) - Min(ahead)]
    BY <1>2 DEF RunFrom, ahead, beyond
  <2> HIDE DEF ahead, beyond
  <2>7. Maximal(RunFrom(from))
    BY <1>a, <2>2, <2>4, <2>5, <2>6 DEF Maximal, Clusters, Span
  <2> QED
    BY <2>2, <2>6, <2>7
<1> QED
  BY <1>1, <1>2

(* Where the search is in its run.                                          *)
LEMMA PlaceInRun ==
    ASSUME Given, TypeOK, Maximal(run)
    PROVE  /\ run.lcn \in Nat /\ run.length \in Nat
           /\ RunEnd <= Total
           /\ run # NoRun => run.length >= 1
           /\ \A c \in run.lcn..(RunEnd - 1) : c \in free
           /\ RunEnd \notin free
<1> USE DEF Given, SizeAssumption, Clusters, TypeOK, Maximal, RunEnd, Span
<1>1. CASE run = NoRun
  BY <1>1 DEF NoRun
<1>2. CASE run # NoRun
  <2>1. run.lcn + run.length - 1 \in free
    BY <1>2
  <2> QED
    BY <1>2, <2>1
<1> QED
  BY <1>1, <1>2

(* A cluster the chunk loop stands on.                                      *)
LEMMA HereIsFree ==
    ASSUME Given, TypeOK, Maximal(run), SpanIsWanted, InSpan
    PROVE  /\ Here \in free /\ Here < RunEnd
           /\ Contiguous = RunEnd - Here
           /\ Here < Swept /\ Swept \in Nat
           /\ Searchable \in Nat
           /\ image[Here] # NoImage => /\ image[Here] \in Images
                                       /\ image[Here].length \in Nat \ {0}
                                       /\ image[Here].answers \subseteq Targets
<1> USE DEF Given, SizeAssumption, TypeOK
<1>1. /\ run.lcn \in Nat /\ run.length \in Nat /\ RunEnd <= Total
      /\ \A c \in run.lcn..(RunEnd - 1) : c \in free
  BY PlaceInRun
<1>2. Searchable = MIN(MIN(run.length - at, Chunk + Window), Chunk)
  BY DEF SpanIsWanted, InSpan, Searchable, Want
<1>3. /\ at < run.length /\ phase = "search" /\ offset < Searchable
      /\ Searchable \in Nat /\ Searchable <= run.length - at
  BY <1>1, <1>2 DEF SpanIsWanted, InSpan, MIN
<1>4. Here \in free /\ Here < RunEnd /\ Contiguous = RunEnd - Here
  BY <1>1, <1>3 DEF Here, RunEnd, Contiguous
<1>5. Here < Swept /\ Swept \in Nat
  BY <1>1, <1>3 DEF Here, Swept
<1> QED
  BY <1>3, <1>4, <1>5 DEF ImageAssumption

(* Counting the clusters of a span on top of those below it.                *)
LEMMA FreeBelow ==
    ASSUME SizeAssumption, free \subseteq Clusters, NEW a \in Nat, NEW b \in Nat,
           a <= b, \A c \in a..(b - 1) : c \in free
    PROVE  Cardinality({ c \in free : c < b }) = Cardinality({ c \in free : c < a }) + (b - a)
<1> DEFINE below == { c \in free : c < a }
           upto == { c \in free : c < b }
<1>1. free \subseteq Nat /\ IsFiniteSet(free)
  <2>1. 0 \in Int /\ Total - 1 \in Int
    BY DEF SizeAssumption
  <2>2. IsFiniteSet(Clusters)
    BY <2>1, FS_Interval DEF Clusters
  <2>3. Clusters \subseteq Nat
    BY DEF SizeAssumption, Clusters
  <2> QED
    BY <2>2, <2>3, FS_Subset
<1>2. IsFiniteSet(below)
  <2>1. below \subseteq free
    OBVIOUS
  <2> HIDE DEF below
  <2> QED
    BY <1>1, <2>1, FS_Subset
<1>3. IsFiniteSet(a..(b - 1)) /\ Cardinality(a..(b - 1)) = b - a
  <2>1. a \in Int /\ b - 1 \in Int
    OBVIOUS
  <2>2. /\ IsFiniteSet(a..(b - 1))
        /\ Cardinality(a..(b - 1)) = IF a > b - 1 THEN 0 ELSE b - 1 - a + 1
    BY ONLY <2>1, FS_Interval
  <2> QED
    BY <2>2
<1>4. upto = below \cup a..(b - 1)
  <2>1. ASSUME NEW c \in free PROVE c < b <=> c < a \/ c \in a..(b - 1)
    BY <1>1
  <2> QED
    BY <2>1
<1>5. below \cap a..(b - 1) = {}
  BY <1>1
<1>6. Cardinality(below) \in Nat
  BY <1>2, FS_CardinalityType
<1> HIDE DEF below, upto
<1>7. Cardinality(upto) = Cardinality(below) + (b - a) - Cardinality({})
  BY <1>2, <1>3, <1>4, <1>5, FS_Union
<1>8. Cardinality(upto) = Cardinality(below) + (b - a)
  BY <1>6, <1>7, FS_EmptySet
<1> QED
  BY <1>8 DEF below, upto

(* As many hits as targets, each of another one, are a hit of every target. *)
LEMMA AsManyHitsAsTargets ==
    ASSUME Given, NEW H, H \subseteq [index : Targets, lcn : free],
           \A g, h \in H : g.index = h.index => g = h,
           Cardinality(H) >= Cardinality(Targets)
    PROVE  \A t \in Targets : \E h \in H : h.index = t
<1> DEFINE f == [h \in H |-> h.index]
<1>1. f \in [H -> Targets] /\ \A g, h \in H : f[g] = f[h] => g = h
  OBVIOUS
<1>2. f \in Injection(H, Targets)
  BY <1>1 DEF Injection, IsInjective
<1>3. IsFiniteSet(Targets)
  BY DEF Given, TargetAssumption
<1> HIDE DEF f
<1>4. /\ IsFiniteSet(H)
      /\ Cardinality(H) <= Cardinality(Targets)
      /\ Cardinality(H) = Cardinality(Targets) => f \in Surjection(H, Targets)
  BY <1>2, <1>3, FS_Injection
<1>5. Cardinality(H) \in Nat /\ Cardinality(Targets) \in Nat
  BY <1>3, <1>4, FS_CardinalityType
<1>6. f \in Surjection(H, Targets)
  BY <1>4, <1>5
<1> QED
  BY <1>6 DEF Surjection, f

-----------------------------------------------------------------------------
(* The search begins before the first run.                                  *)
LEMMA InitIInv == Given /\ Init => IInv
<1> SUFFICES ASSUME Given, Init PROVE IInv
  OBVIOUS
<1>1. /\ free \subseteq Clusters /\ bad \subseteq free
      /\ run = RunFrom(0) /\ at = 0 /\ phase = "span"
  BY DEF Init
<1>2. Maximal(run) /\ \A c \in free : c >= run.lcn
  BY <1>1, RunFromIsMaximal DEF Given, Clusters
<1>3. TypeOK
  <2>1. run = NoRun \/ (run.length \in 1..Total /\ Span(run.lcn, run.length) \subseteq free)
    BY <1>2 DEF Maximal
  <2> QED
    BY <2>1 DEF Init, TypeOK, Given, SizeAssumption
<1>4. run.lcn \in Nat /\ run.length \in Nat
  BY <1>2, <1>3, PlaceInRun
<1>5. Swept = run.lcn /\ Reached = run.lcn
  BY <1>1, <1>4 DEF Swept, Reached, Behind, RunEnd, MIN
<1>6. NothingIsPassedOver
  <2>1. { c \in free : c < Swept } = {}
    <3>1. ASSUME NEW c \in free PROVE ~(c < Swept)
      BY <1>1, <1>2, <1>4, <1>5 DEF Clusters
    <3> QED
      BY <3>1
  <2>2. scanned = 0
    BY DEF Init
  <2> QED
    BY <1>1, <1>2, <1>4, <1>5, <2>1, <2>2, FS_EmptySet DEF NothingIsPassedOver, Clusters
<1> QED
  BY <1>2, <1>3, <1>6
  DEF IInv, Init, SpanIsWanted, ComparedIsBehind, HitsAreOfCompared, EndsWithEveryHit

(* Nothing free lies between the end of a run and the next.                 *)
LEMMA NextRunKeepsIInv == Given /\ IInv /\ NextRun => IInv'
<1> SUFFICES ASSUME Given, IInv, NextRun PROVE IInv'
  OBVIOUS
<1> USE DEF IInv
<1>1. /\ run.lcn \in Nat /\ run.length \in Nat /\ RunEnd \in Nat /\ RunEnd <= Total
      /\ RunEnd \notin free
  BY PlaceInRun DEF RunEnd, Given, SizeAssumption
<1>2. /\ phase = "span" /\ phase' = "span" /\ run # NoRun
      /\ at \in Nat /\ at >= run.length
      /\ run' = RunFrom(RunEnd) /\ at' = 0
      /\ UNCHANGED << medium, want, offset, scanned, bytes_read, found, stopped >>
  BY DEF NextRun, RunEnd, TypeOK
<1>3. Maximal(run)' /\ \A c \in free : c < RunEnd \/ c >= run'.lcn
  <2>1. /\ Maximal(RunFrom(RunEnd))
        /\ \A c \in free : c < RunEnd \/ c >= RunFrom(RunEnd).lcn
    BY <1>1, RunFromIsMaximal DEF Given, TypeOK
  <2> QED
    BY <1>2, <2>1 DEF Maximal, medium
<1>4. TypeOK'
  <2>1. run' = NoRun \/ (run'.length \in 1..Total /\ Span(run'.lcn, run'.length) \subseteq free)
    BY <1>2, <1>3 DEF Maximal, medium
  <2> QED
    BY <1>2, <2>1 DEF TypeOK, medium, found
<1>5. run'.lcn \in Nat /\ run'.length \in Nat /\ run'.lcn >= RunEnd
  <2>1. run' # NoRun => run'.lcn >= RunEnd
    BY <1>1, <1>2, RunFromIsMaximal DEF Given, TypeOK
  <2>2. run'.lcn \in Nat /\ run'.length \in Nat
    BY <1>3 DEF Maximal, NoRun, Clusters, Given, SizeAssumption
  <2> QED
    BY <1>1, <2>1, <2>2 DEF NoRun
<1>6. Swept = RunEnd /\ Reached = RunEnd
  BY <1>1, <1>2 DEF Swept, Reached, Behind, RunEnd, MIN
<1>7. Swept' = run'.lcn /\ Reached' = run'.lcn
  BY <1>2, <1>5 DEF Swept, Reached, Behind, RunEnd, MIN
<1>8. \A c \in free : c < RunEnd <=> c < run'.lcn
  BY <1>1, <1>3, <1>5 DEF TypeOK, Clusters, Given, SizeAssumption
<1>9. ComparedIsBehind'
  BY <1>1, <1>2, <1>6, <1>7, <1>8 DEF ComparedIsBehind, TypeOK, medium, found, Whole
<1>10. NothingIsPassedOver'
  <2>1. { c \in free : c < Swept } = { c \in free : c < Swept' }
    BY <1>6, <1>7, <1>8
  <2>2. Onward' => Onward
    BY <1>2 DEF Onward
  <2>3. \A c \in bad : c >= RunEnd => c >= run'.lcn
    BY <1>1, <1>3, <1>5 DEF TypeOK, Clusters
  <2>4. free' = free /\ bad' = bad /\ image' = image /\ scanned' = scanned
        /\ compared' = compared /\ declined' = declined
    BY <1>2 DEF medium, found
  <2> QED
    BY <1>6, <1>7, <1>8, <2>1, <2>2, <2>3, <2>4
    DEF NothingIsPassedOver, Whole, Unreadable
<1> QED
  BY <1>2, <1>3, <1>4, <1>9, <1>10
  DEF HitsAreOfCompared, EndsWithEveryHit, SpanIsWanted, medium, found, Answered

(* A search that stops anywhere else than after the last run says why.      *)
LEMMA StoppingKeepsIInv == Given /\ IInv /\ (Searched \/ Exhausted) => IInv'
<1> SUFFICES ASSUME Given, IInv, Searched \/ Exhausted PROVE IInv'
  OBVIOUS
<1> USE DEF IInv
<1>1. /\ phase = "span" /\ phase' = "done"
      /\ UNCHANGED << medium, run, at, want, offset, scanned, bytes_read, found >>
      /\ stopped \subseteq stopped'
      /\ stopped' = {} => stopped = {} /\ run = NoRun
  BY DEF Searched, Exhausted, AtSpan
<1>2. stopped' \subseteq {"reads", "headers", "hashes", "time", "span"}
  BY DEF Searched, Exhausted, Exhaustion, TypeOK
<1>3. TypeOK'
  BY <1>1, <1>2 DEF TypeOK, medium, found
<1>4. NothingIsPassedOver'
  <2>1. Onward' => Onward
    BY <1>1 DEF Onward
  <2>2. Swept' = Swept /\ Reached' = Reached
    BY <1>1 DEF Swept, Reached, Behind, RunEnd
  <2> QED
    BY <1>1, <2>1, <2>2 DEF NothingIsPassedOver, medium, found, Whole, Unreadable
<1> QED
  BY <1>1, <1>3, <1>4
  DEF Maximal, SpanIsWanted, ComparedIsBehind, HitsAreOfCompared, EndsWithEveryHit,
      medium, found, Answered, Whole, RunEnd

(* A span that cannot be read is a reason of its own.                       *)
LEMMA UnreadableSpanKeepsIInv == Given /\ IInv /\ UnreadableSpan => IInv'
<1> SUFFICES ASSUME Given, IInv, UnreadableSpan PROVE IInv'
  OBVIOUS
<1> USE DEF IInv
<1>1. /\ phase = "span" /\ phase' = "span" /\ at < run.length
      /\ at \in Nat /\ at' = at + Chunk /\ Chunk \in Nat \ {0}
      /\ UNCHANGED << medium, run, want, offset, scanned, bytes_read, found >>
      /\ stopped' # {}
  BY DEF UnreadableSpan, AtSpan, TypeOK, Given, SizeAssumption
<1>2. stopped' \subseteq {"reads", "headers", "hashes", "time", "span"}
  BY DEF UnreadableSpan, TypeOK
<1>3. TypeOK'
  BY <1>1, <1>2 DEF TypeOK, medium, found
<1>4. Reached <= Reached' /\ Reached \in Nat /\ Reached' \in Nat
  <2>1. run.lcn \in Nat /\ run.length \in Nat
    BY PlaceInRun
  <2> QED
    BY <1>1, <2>1 DEF Reached, Behind, RunEnd, MIN
<1>5. ComparedIsBehind'
  BY <1>1, <1>4 DEF ComparedIsBehind, TypeOK, Clusters, medium, found, Whole
<1> QED
  BY <1>1, <1>3, <1>5
  DEF Maximal, SpanIsWanted, HitsAreOfCompared, NothingIsPassedOver, Onward,
      EndsWithEveryHit, medium, found, Answered, RunEnd

(* What is read is counted, and can be read.                                *)
LEMMA ReadSpanKeepsIInv == Given /\ IInv /\ ReadSpan => IInv'
<1> SUFFICES ASSUME Given, IInv, ReadSpan PROVE IInv'
  OBVIOUS
<1> USE DEF IInv
<1>1. /\ phase = "span" /\ phase' = "search" /\ at < run.length
      /\ at \in Nat /\ Chunk \in Nat \ {0} /\ Window \in Nat
      /\ want' = Want /\ offset' = 0
      /\ bytes_read' = bytes_read + want'
      /\ scanned' = scanned + Searchable'
      /\ ~Unreadable(run.lcn + at, Want)
      /\ UNCHANGED << medium, run, at, found, stopped >>
  BY DEF ReadSpan, AtSpan, TypeOK, Given, SizeAssumption
<1>2. /\ run.lcn \in Nat /\ run.length \in Nat
      /\ \A c \in run.lcn..(RunEnd - 1) : c \in free
  BY PlaceInRun
<1>3. /\ Want \in 1..(Chunk + Window) /\ Searchable' \in 1..Want
      /\ Searchable' <= run.length - at /\ Searchable' <= Chunk
  BY <1>1, <1>2 DEF Want, Searchable, MIN
<1>4. TypeOK'
  <2>1. /\ bytes_read \in Nat /\ scanned \in Nat
        /\ want' \in 0..(Chunk + Window) /\ offset' \in 0..Chunk
    BY <1>1, <1>3 DEF TypeOK
  <2>2. want' \in Nat /\ Searchable' \in Nat
    BY <1>1, <1>3, <2>1
  <2>3. bytes_read' \in Nat /\ scanned' \in Nat
    <3>1. \A m, n \in Nat : m + n \in Nat
      OBVIOUS
    <3> QED
      BY <1>1, <2>1, <2>2, <3>1
  <2> QED
    BY <1>1, <2>1, <2>3 DEF TypeOK, medium, found
<1>5. SpanIsWanted'
  <2>1. Want' = Want /\ run # NoRun
    BY <1>1, <1>2 DEF Want, NoRun
  <2> QED
    BY <1>1, <1>3, <2>1 DEF SpanIsWanted
<1>6. /\ Reached = run.lcn + at /\ Reached' = run.lcn + at
      /\ Swept = run.lcn + at /\ Swept' = run.lcn + at + Searchable'
  BY <1>1, <1>2 DEF Reached, Swept, Behind, RunEnd, MIN
<1>7. NothingIsPassedOver'
  <2>1. Onward' => Onward
    BY <1>1 DEF Onward
  <2>2. Cardinality({ c \in free : c < Swept' }) =
        Cardinality({ c \in free : c < Swept }) + Searchable'
    <3>1. /\ Swept \in Nat /\ Swept' \in Nat /\ Swept <= Swept'
          /\ \A c \in Swept..(Swept' - 1) : c \in free
          /\ Swept' - Swept = Searchable'
      BY <1>1, <1>2, <1>3, <1>6 DEF RunEnd
    <3>2. Cardinality({ c \in free : c < Swept' }) =
          Cardinality({ c \in free : c < Swept }) + (Swept' - Swept)
      BY <3>1, FreeBelow DEF Given, TypeOK
    <3> QED
      BY <3>1, <3>2
  <2>3. ASSUME NEW c \in bad, c >= Swept PROVE c >= Swept'
    BY <1>1, <1>2, <1>3, <1>6, <2>3 DEF Unreadable, Span, TypeOK, Clusters
  <2>4. free' = free /\ bad' = bad /\ image' = image
        /\ compared' = compared /\ declined' = declined
    BY <1>1 DEF medium, found
  <2> QED
    BY <1>1, <1>6, <2>1, <2>2, <2>3, <2>4 DEF NothingIsPassedOver, Whole, Unreadable
<1>8. ComparedIsBehind'
  BY <1>1, <1>6 DEF ComparedIsBehind, medium, found, Whole
<1> QED
  BY <1>1, <1>4, <1>5, <1>7, <1>8
  DEF Maximal, HitsAreOfCompared, EndsWithEveryHit, medium, found, Answered, RunEnd

(* A chunk ends where the next begins.                                      *)
LEMMA EndSpanKeepsIInv == Given /\ IInv /\ EndSpan => IInv'
<1> SUFFICES ASSUME Given, IInv, EndSpan PROVE IInv'
  OBVIOUS
<1> USE DEF IInv
<1>1. /\ phase = "search" /\ phase' = "span" /\ at < run.length
      /\ at \in Nat /\ at' = at + Chunk /\ Chunk \in Nat \ {0} /\ Window \in Nat
      /\ want = Want /\ offset = Searchable
      /\ UNCHANGED << medium, run, want, offset, scanned, bytes_read, found, stopped >>
  <2>1. offset >= Searchable /\ offset <= Searchable /\ offset \in Nat
    BY DEF EndSpan, SpanIsWanted, TypeOK
  <2>2. Searchable \in Int
    BY DEF Searchable, MIN, TypeOK, Given, SizeAssumption
  <2> QED
    BY <2>1, <2>2 DEF EndSpan, SpanIsWanted, TypeOK, Given, SizeAssumption
<1>2. run.lcn \in Nat /\ run.length \in Nat
  BY PlaceInRun
<1>3. Searchable = MIN(run.length - at, Chunk)
  BY <1>1, <1>2 DEF Searchable, Want, MIN
<1>4. Reached' = Reached /\ Swept' = Swept
  BY <1>1, <1>2, <1>3 DEF Reached, Swept, Behind, RunEnd, MIN
<1>5. TypeOK'
  BY <1>1 DEF TypeOK, medium, found
<1>6. NothingIsPassedOver'
  <2>1. Onward' => Onward
    BY <1>1 DEF Onward
  <2> QED
    BY <1>1, <1>4, <2>1 DEF NothingIsPassedOver, medium, found, Whole, Unreadable
<1> QED
  BY <1>1, <1>4, <1>5, <1>6
  DEF Maximal, SpanIsWanted, ComparedIsBehind, HitsAreOfCompared, EndsWithEveryHit,
      medium, found, Answered, Whole, RunEnd

-----------------------------------------------------------------------------
(* One cluster on, inside a chunk.                                          *)
LEMMA SteppingOn ==
    ASSUME Given, IInv, InSpan, offset' = offset + 1,
           UNCHANGED << medium, run, at, want, scanned, stopped >>
    PROVE  /\ Maximal(run)'
           /\ offset' \in 0..Chunk
           /\ Here \in Nat /\ Reached = Here
           /\ phase' = "search" => SpanIsWanted' /\ Reached' = Here + 1 /\ Swept' = Swept
           /\ phase' # "search" => SpanIsWanted'
           /\ Whole(Here) => image[Here].length <= Contiguous
<1> USE DEF IInv
<1>1. /\ phase = "search" /\ offset < Searchable /\ offset \in Nat /\ at \in Nat
      /\ Searchable \in Nat /\ Searchable <= Chunk /\ Chunk \in Nat
      /\ free \subseteq Nat
  BY HereIsFree DEF InSpan, Searchable, MIN, TypeOK, Clusters, Given, SizeAssumption
<1>2. run.lcn \in Nat /\ run.length \in Nat /\ RunEnd \notin free
  BY PlaceInRun
<1>3. Maximal(run)'
  BY DEF Maximal, medium
<1>4. Searchable' = Searchable /\ Want' = Want
  BY DEF Searchable, Want
<1>5. /\ Here \in free /\ Here < RunEnd /\ Contiguous = RunEnd - Here
      /\ image[Here] # NoImage => image[Here].length \in Nat \ {0}
  BY HereIsFree
<1>6. ASSUME Whole(Here), image[Here].length > Contiguous PROVE FALSE
  <2>1. CASE image[Here] = NoImage
    BY <1>1, <1>2, <1>5, <1>6, <2>1 DEF NoImage, RunEnd
  <2>2. CASE image[Here] # NoImage
    <3>1. RunEnd \in Span(Here, image[Here].length)
      BY <1>1, <1>2, <1>5, <1>6, <2>2 DEF Span, RunEnd
    <3> QED
      BY <1>2, <1>6, <3>1 DEF Whole
  <2> QED
    BY <2>1, <2>2
<1>7. image[Here].length \in Nat
  BY <1>5 DEF NoImage
<1> QED
  BY <1>1, <1>2, <1>3, <1>4, <1>5, <1>6, <1>7
  DEF SpanIsWanted, Reached, Swept, Here, RunEnd, Contiguous

(* Nothing is passed over if what is here was compared, declined, cannot    *)
(* be read, or could not have answered.                                     *)
LEMMA SettlingHere ==
    ASSUME Given, IInv, InSpan, offset' = offset + 1, phase' = "search",
           UNCHANGED << medium, run, at, want, scanned, stopped >>,
           compared \subseteq compared', declined \subseteq declined',
           /\ image[Here] # NoImage
           /\ image[Here].header <= Window + 1
           /\ Whole(Here)
           => Here \in compared' \cup declined' \/ Unreadable(Here, image[Here].length)
    PROVE  NothingIsPassedOver'
<1> USE DEF IInv
<1>1. /\ Here \in Nat /\ Reached = Here
      /\ Reached' = Here + 1 /\ Swept' = Swept
  BY SteppingOn
<1>2. Onward' => Onward
  BY DEF Onward, InSpan
<1>3. ASSUME NEW c \in free, c < Reached' PROVE c < Reached \/ c = Here
  BY <1>1, <1>3 DEF TypeOK, Clusters
<1>4. free' = free /\ bad' = bad /\ image' = image
  BY DEF medium
<1> QED
  BY <1>1, <1>2, <1>3, <1>4 DEF NothingIsPassedOver, Whole, Unreadable

(* A measured image lies where its headers do; one that is not measured has *)
(* headers too long for the window, or ends behind the run.                 *)
LEMMA NoHeaderKeepsIInv == Given /\ IInv /\ NoHeader => IInv'
<1> SUFFICES ASSUME Given, IInv, NoHeader PROVE IInv'
  OBVIOUS
<1> USE DEF IInv
<1>1. /\ InSpan /\ ~Measured /\ offset' = offset + 1 /\ phase = "search" /\ phase' = "search"
      /\ UNCHANGED << medium, run, at, want, scanned, stopped, bytes_read, found >>
  BY DEF NoHeader, StepOn, InSpan
<1>2. /\ Maximal(run)' /\ SpanIsWanted' /\ offset' \in 0..Chunk
      /\ Here \in Nat /\ Reached = Here /\ Reached' = Here + 1
      /\ Whole(Here) => image[Here].length <= Contiguous
  BY <1>1, SteppingOn
<1>3. TypeOK'
  BY <1>1, <1>2 DEF TypeOK, medium, found
<1>4. ASSUME image[Here] # NoImage, image[Here].header <= Window + 1, Whole(Here)
      PROVE  FALSE
  <2>1. /\ image[Here] \in Images /\ image[Here].length <= Contiguous
        /\ image[Here].header \in Nat /\ image[Here].header <= image[Here].length
        /\ image[Here].length \in Nat
    BY <1>1, <1>2, <1>4, HereIsFree DEF Given, ImageAssumption
  <2>2. offset + image[Here].header > want
    BY <1>1, <1>4, <2>1 DEF Measured, TypeOK, Given, SizeAssumption
  <2>3. /\ want = Want /\ offset \in Nat /\ at \in Nat /\ offset < Searchable
        /\ run.length \in Nat
    BY <1>1, PlaceInRun DEF SpanIsWanted, InSpan, TypeOK
  <2> QED
    BY <1>4, <2>1, <2>2, <2>3
    DEF Want, Searchable, Contiguous, MIN, Given, SizeAssumption
<1>5. NothingIsPassedOver'
  BY <1>1, <1>4, SettlingHere DEF found
<1>6. ComparedIsBehind'
  BY <1>1, <1>2 DEF ComparedIsBehind, TypeOK, Clusters, medium, found, Whole
<1> QED
  BY <1>1, <1>2, <1>3, <1>5, <1>6
  DEF HitsAreOfCompared, EndsWithEveryHit, medium, found, Answered

(* An image that is followed and not compared.                              *)
LEMMA PassedByKeepsIInv ==
    Given /\ IInv /\ (CutOff \/ OverSpent \/ UnreadableImage) => IInv'
<1> SUFFICES ASSUME Given, IInv, CutOff \/ OverSpent \/ UnreadableImage PROVE IInv'
  OBVIOUS
<1> USE DEF IInv
<1>1. /\ InSpan /\ offset' = offset + 1 /\ phase = "search" /\ phase' = "search"
      /\ headers' = headers + 1
      /\ UNCHANGED << medium, run, at, want, scanned, stopped, bytes_read, hashed, hits,
                      compared >>
  BY DEF CutOff, OverSpent, UnreadableImage, Follow, StepOn, InSpan
<1>2. /\ Maximal(run)' /\ SpanIsWanted' /\ offset' \in 0..Chunk
      /\ Here \in Nat /\ Reached = Here /\ Reached' = Here + 1
      /\ Whole(Here) => image[Here].length <= Contiguous
  BY <1>1, SteppingOn
<1>3. Here \in free /\ image[Here] # NoImage /\ image[Here].length \in Nat /\ Contiguous \in Int
  <2>1. Measured
    BY DEF CutOff, OverSpent, UnreadableImage, Follow
  <2>2. RunEnd \in Int
    BY PlaceInRun DEF RunEnd
  <2> QED
    BY <1>1, <1>2, <2>1, <2>2, HereIsFree DEF Measured
<1>4. declined' = declined \/ declined' = declined \cup {Here}
  BY DEF CutOff, OverSpent, UnreadableImage
<1>5. TypeOK'
  <2>1. declined' \subseteq free /\ headers' \in Nat
    BY <1>1, <1>3, <1>4 DEF TypeOK
  <2> QED
    BY <1>1, <1>2, <2>1 DEF TypeOK, medium
<1>6. ASSUME Whole(Here)
      PROVE  Here \in declined' \/ Unreadable(Here, image[Here].length)
  <2>1. ~TooLong
    BY <1>2, <1>3, <1>6 DEF TooLong
  <2> QED
    BY <2>1 DEF CutOff, OverSpent, UnreadableImage
<1>7. NothingIsPassedOver'
  BY <1>1, <1>4, <1>6, SettlingHere
<1>8. ComparedIsBehind'
  BY <1>1, <1>2 DEF ComparedIsBehind, TypeOK, Clusters, medium, Whole
<1> QED
  BY <1>1, <1>2, <1>5, <1>7, <1>8
  DEF HitsAreOfCompared, EndsWithEveryHit, medium, Answered

(* A comparison: no target answered before has an image here, and none that *)
(* is answered now has one below.                                           *)
LEMMA CompareKeepsIInv == Given /\ IInv /\ Compare => IInv'
<1> SUFFICES ASSUME Given, IInv, Compare PROVE IInv'
  OBVIOUS
<1> USE DEF IInv
<1>1. /\ InSpan /\ Measured /\ ~TooLong
      /\ offset' = offset + 1 /\ phase = "search" /\ phase' \in {"search", "done"}
      /\ headers' = headers + 1 /\ hashed' = hashed + 1
      /\ bytes_read' = bytes_read + IF Inside THEN 0 ELSE image[Here].length
      /\ hits' = hits \cup NewHits /\ compared' = compared \cup {Here}
      /\ phase' = "done" => Cardinality(hits') >= Cardinality(Targets)
      /\ UNCHANGED << medium, run, at, want, scanned, stopped, declined >>
  BY DEF Compare, Follow, InSpan
<1>2. /\ Maximal(run)' /\ SpanIsWanted' /\ offset' \in 0..Chunk
      /\ Here \in Nat /\ Reached = Here
      /\ phase' = "search" => Reached' = Here + 1
  BY <1>1, SteppingOn
<1>3. /\ Here \in free /\ image[Here] # NoImage /\ image[Here] \in Images
      /\ image[Here].length \in Nat
      /\ image[Here].answers \subseteq Targets /\ Contiguous = RunEnd - Here
      /\ run.lcn \in Nat /\ run.length \in Nat
      /\ \A c \in run.lcn..(RunEnd - 1) : c \in free
      /\ run # NoRun
  BY <1>1, HereIsFree, PlaceInRun DEF Measured, SpanIsWanted
<1>4. NewHits \subseteq [index : Targets, lcn : free]
  BY <1>3 DEF NewHits
<1>5. TypeOK'
  <2>1. bytes_read' \in Nat
    BY <1>1, <1>3 DEF TypeOK
  <2> QED
    BY <1>1, <1>2, <1>3, <1>4, <2>1 DEF TypeOK, medium
<1>6. Whole(Here)
  <2>1. image[Here].length <= RunEnd - Here /\ run.lcn <= Here /\ RunEnd \in Nat
    BY <1>1, <1>2, <1>3 DEF TooLong, Here, RunEnd, InSpan, TypeOK
  <2> QED
    BY <1>2, <1>3, <2>1 DEF Whole, Span
<1>7. ComparedIsBehind'
  <2>1. \A c \in compared : c < Here
    BY <1>1, <1>2 DEF ComparedIsBehind
  <2> QED
    BY <1>1, <1>2, <1>3, <1>6, <2>1
    DEF ComparedIsBehind, TypeOK, Clusters, medium, Whole, Given, SizeAssumption
<1>8. HitsAreOfCompared'
  <2>1. image' = image /\ \A c \in compared : c < Here
    BY <1>1, <1>2 DEF ComparedIsBehind, medium
  <2>2. ASSUME NEW h \in NewHits
        PROVE  /\ h.lcn = Here /\ h.index \in image[Here].answers
               /\ ~Answered(h.index)
    BY DEF NewHits
  <2>3. ASSUME NEW h \in hits'
        PROVE  /\ h.lcn \in compared' /\ h.index \in image[h.lcn].answers
               /\ \A c \in compared' : h.index \in image[c].answers => h.lcn <= c
    <3>1. CASE h \in hits
      <4>1. h.lcn \in compared
        BY <3>1 DEF HitsAreOfCompared
      <4>2. h.lcn < Here /\ h.lcn <= Here
        <5>1. \A c \in free : c \in Nat
          BY DEF TypeOK, Clusters, Given, SizeAssumption
        <5>2. compared \subseteq free
          BY DEF TypeOK
        <5> QED
          BY <1>2, <2>1, <4>1, <5>1, <5>2
      <4>3. h.index \in image[h.lcn].answers
        BY <3>1 DEF HitsAreOfCompared
      <4>4. ASSUME NEW c \in compared', h.index \in image[c].answers PROVE h.lcn <= c
        <5>1. CASE c = Here
          BY <4>2, <5>1
        <5>2. CASE c \in compared
          BY <3>1, <4>4, <5>2 DEF HitsAreOfCompared
        <5> QED
          BY <1>1, <5>1, <5>2
      <4> QED
        BY <1>1, <4>1, <4>3, <4>4
    <3>2. CASE h \in NewHits
      BY <1>1, <1>2, <2>2, <3>2 DEF HitsAreOfCompared
    <3> QED
      BY <1>1, <3>1, <3>2
  <2>4. ASSUME NEW c \in compared', NEW t \in image[c].answers PROVE Answered(t)'
    <3>1. CASE c \in compared
      BY <1>1, <3>1 DEF HitsAreOfCompared, Answered
    <3>2. CASE c = Here /\ ~Answered(t)
      <4>1. [index |-> t, lcn |-> Here] \in NewHits
        BY <3>2 DEF NewHits
      <4> QED
        BY <1>1, <4>1 DEF Answered
    <3>3. CASE Answered(t)
      BY <1>1, <3>3 DEF Answered
    <3> QED
      BY <1>1, <3>1, <3>2, <3>3
  <2>5. ASSUME NEW g \in hits', NEW h \in hits', g.index = h.index PROVE g = h
    <3>1. CASE g \in hits /\ h \in hits
      BY <2>5, <3>1 DEF HitsAreOfCompared
    <3>2. CASE g \in NewHits /\ h \in NewHits
      BY <2>5, <3>2 DEF NewHits
    <3>3. CASE g \in hits /\ h \in NewHits
      BY <2>2, <2>5, <3>3 DEF Answered
    <3>4. CASE g \in NewHits /\ h \in hits
      BY <2>2, <2>5, <3>4 DEF Answered
    <3> QED
      BY <1>1, <3>1, <3>2, <3>3, <3>4
  <2> QED
    BY <2>1, <2>3, <2>4, <2>5 DEF HitsAreOfCompared
<1>9. NothingIsPassedOver'
  <2>1. CASE phase' = "search"
    BY <1>1, <2>1, SettlingHere
  <2>2. CASE phase' = "done"
    BY <1>1, <1>3, <2>2 DEF NothingIsPassedOver, Onward
  <2> QED
    BY <1>1, <2>1, <2>2
<1>10. EndsWithEveryHit'
  <2> SUFFICES ASSUME phase' = "done" PROVE \A t \in Targets : Answered(t)'
    BY DEF EndsWithEveryHit
  <2>1. /\ hits' \subseteq [index : Targets, lcn : free]
        /\ \A g, h \in hits' : g.index = h.index => g = h
        /\ Cardinality(hits') >= Cardinality(Targets)
    BY <1>1, <1>4, <1>8 DEF TypeOK, HitsAreOfCompared
  <2>2. \A t \in Targets : \E h \in hits' : h.index = t
    BY <2>1, AsManyHitsAsTargets
  <2> QED
    BY <2>2 DEF Answered
<1> QED
  BY <1>2, <1>5, <1>7, <1>8, <1>9, <1>10

LEMMA NextKeepsIInv == Given /\ IInv /\ [Next]_vars => IInv'
<1> SUFFICES ASSUME Given, IInv, [Next]_vars PROVE IInv'
  OBVIOUS
<1>1. CASE NextRun
  BY <1>1, NextRunKeepsIInv
<1>2. CASE Searched \/ Exhausted
  BY <1>2, StoppingKeepsIInv
<1>3. CASE UnreadableSpan
  BY <1>3, UnreadableSpanKeepsIInv
<1>4. CASE ReadSpan
  BY <1>4, ReadSpanKeepsIInv
<1>5. CASE NoHeader
  BY <1>5, NoHeaderKeepsIInv
<1>6. CASE CutOff \/ OverSpent \/ UnreadableImage
  BY <1>6, PassedByKeepsIInv
<1>7. CASE Compare
  BY <1>7, CompareKeepsIInv
<1>8. CASE EndSpan
  BY <1>8, EndSpanKeepsIInv
<1>9. CASE UNCHANGED vars
  BY <1>9
  DEF IInv, TypeOK, Maximal, SpanIsWanted, ComparedIsBehind, HitsAreOfCompared,
      NothingIsPassedOver, EndsWithEveryHit, Onward, Swept, Reached, Behind, RunEnd,
      Searchable, Want, Whole, Unreadable, Answered, vars, medium, position, found
<1> QED
  BY <1>1, <1>2, <1>3, <1>4, <1>5, <1>6, <1>7, <1>8, <1>9 DEF Next

LEMMA IInvHolds == ASSUME Given PROVE Spec => []IInv
  BY InitIInv, NextKeepsIInv, PTL DEF Spec

(* The types of the medium, the position and the counters.                  *)
THEOREM TypeCorrect ==
    ASSUME SizeAssumption, TargetAssumption, ImageAssumption PROVE Spec => []TypeOK
<1>1. Given
  BY DEF Given
<1>2. IInv => TypeOK
  BY DEF IInv
<1> QED
  BY <1>1, <1>2, IInvHolds, PTL

(* Every cluster of a hit is free, and of the images compared that answer   *)
(* to its target none starts lower.                                         *)
THEOREM HitsCorrect ==
    ASSUME SizeAssumption, TargetAssumption, ImageAssumption
    PROVE  Spec => []HitsAreWholeAndFirst
<1>1. Given
  BY DEF Given
<1>2. IInv => HitsAreWholeAndFirst
  BY DEF IInv, HitsAreOfCompared, ComparedIsBehind, HitsAreWholeAndFirst
<1> QED
  BY <1>1, <1>2, IInvHolds, PTL

(* After the last run everything free has been swept.                       *)
LEMMA ExhaustiveHasSweptAll ==
    ASSUME Given, IInv PROVE ExhaustiveMeansCompared
<1> SUFFICES ASSUME ExhaustiveAndMissed PROVE
      /\ scanned = Cardinality(free)
      /\ \A t \in Targets, c \in free :
            ~Answered(t) /\ Answers(t, c) => c \in declined
  BY DEF ExhaustiveMeansCompared
<1> USE DEF IInv
<1>1. phase = "done" /\ stopped = {} /\ run = NoRun /\ Onward
  BY DEF ExhaustiveAndMissed, EndsWithEveryHit, Onward
<1>2. Total \in Nat /\ free \subseteq Nat /\ \A c \in free : c < Total
  BY DEF TypeOK, Clusters, Given, SizeAssumption
<1>3. Swept = Total /\ Reached = Total
  BY <1>1, <1>2 DEF Swept, Reached, Behind, RunEnd, NoRun, MIN, TypeOK
<1>4. { c \in free : c < Swept } = free
  <2>1. \A c \in free : c < Swept
    BY <1>2, <1>3
  <2> QED
    BY <2>1
<1>5. bad = {}
  <2>1. \A c \in bad : c \in free /\ c >= Total
    BY <1>1, <1>3 DEF NothingIsPassedOver, TypeOK
  <2>2. ASSUME NEW c \in bad PROVE FALSE
    <3>1. c \in Nat /\ Total \in Nat /\ c < Total /\ c >= Total
      BY <1>2, <2>1
    <3> QED
      BY ONLY <3>1
  <2> QED
    BY <2>2
<1>6. ASSUME NEW t \in Targets, NEW c \in free, ~Answered(t), Answers(t, c)
      PROVE  c \in declined
  <2>1. c \notin compared
    BY <1>6 DEF HitsAreOfCompared, Answers
  <2>2. ~Unreadable(c, image[c].length)
    BY <1>5 DEF Unreadable
  <2> QED
    BY <1>1, <1>2, <1>3, <1>6, <2>1, <2>2 DEF NothingIsPassedOver, Answers
<1> QED
  BY <1>1, <1>4, <1>6 DEF NothingIsPassedOver

(* A search that stopped for no reason counted every free cluster, and what *)
(* could have answered a target it missed is an image a budget declined.    *)
THEOREM ExhaustiveCorrect ==
    ASSUME SizeAssumption, TargetAssumption, ImageAssumption
    PROVE  Spec => []ExhaustiveMeansCompared
<1>1. Given
  BY DEF Given
<1> QED
  BY <1>1, ExhaustiveHasSweptAll, IInvHolds, PTL
=============================================================================
