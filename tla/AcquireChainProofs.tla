------------------------- MODULE AcquireChainProofs -------------------------
(* Facts about the acquisition chain for every set of contents, in either   *)
(* mode, on a still or a changing volume, with any number of failed writes. *)
EXTENDS AcquireChain, TLAPS

Given == ContentsAssumption /\ ModeAssumption /\ BoundAssumption

-----------------------------------------------------------------------------
(* Every source reads the bytes it was offered and, once an artifact has    *)
(* recorded a digest, adopts them only on a trustworthy verdict.            *)
LEMMA HandlerSound ==
    ASSUME NEW step \in Step, NEW e, e.bytes \in Contents
    PROVE  /\ Handle(step, e).as \in {"None", "Failed", "Read"}
           /\ Handle(step, e).as = "Read" =>
                /\ Handle(step, e).bytes = e.bytes
                /\ Handle(step, e).recovery \in Recovery
                /\ Handle(step, e).adopt \in BOOLEAN
                /\ (recorded # << >> /\ Handle(step, e).adopt)
                     => IsTrustworthy(Handle(step, e).recovery)
<1> DEFINE Sound(h) ==
      /\ h.as \in {"None", "Failed", "Read"}
      /\ h.as = "Read" =>
           /\ h.bytes = e.bytes
           /\ h.recovery \in Recovery
           /\ h.adopt \in BOOLEAN
           /\ (recorded # << >> /\ h.adopt) => IsTrustworthy(h.recovery)
<1>1. Sound(None) /\ Sound(Failed)
  BY DEF None, Failed
<1>2. ASSUME NEW otherwise \in {"Unverified", "Partial"}
      PROVE  /\ Sound(Unless(e.bytes, CompareOr(e.bytes, otherwise)))
             /\ Sound(OnlyIfConfirmed(e.bytes, CompareOr(e.bytes, otherwise)))
  BY DEF Unless, OnlyIfConfirmed, CompareOr, Read, Recovery, IsTrustworthy
<1>3. ASSUME NEW recovery \in {"Intact", "UnlinkedButPresent"}
      PROVE  Sound(Read(e.bytes, recovery, TRUE))
  BY DEF Read, Recovery, IsTrustworthy
<1>4. CarveBasis(e.clusters) \in {"Unverified", "Partial"}
  BY DEF CarveBasis
<1> HIDE DEF Sound
<1>5. Sound(FromVolume(e))
  BY <1>1, <1>3 DEF FromVolume
<1>6. Sound(FromQuarantine(e))
  BY <1>1, <1>2 DEF FromQuarantine
<1>7. Sound(FromRecycleBin(e))
  BY <1>1, <1>2 DEF FromRecycleBin
<1>8. Sound(FromShadowCopy(e)) /\ Sound(FromOrphanedRecord(e))
  BY <1>1, <1>2 DEF FromShadowCopy, FromOrphanedRecord
<1>9. Sound(CarveFromRecord(e))
  BY <1>1, <1>2, <1>4 DEF CarveFromRecord
<1>10. Sound(FromCarvedClusters(e)) /\ Sound(FromIndexSlack(e))
  BY <1>1, <1>9 DEF FromCarvedClusters, FromIndexSlack
<1>11. Sound(FromGhost(e))
  BY <1>1, <1>2 DEF FromGhost
<1>12. Sound(FromRecordSlack(e)) /\ Sound(FromLogFile(e))
  BY <1>1, <1>11 DEF FromRecordSlack, FromLogFile
<1>13. Sound(Handle(step, e))
  <2>1. step \in {"Volume", "Quarantine", "RecycleBin", "ShadowCopy",
                  "CarvedClusters", "IndexSlack", "OrphanedRecord",
                  "RecordSlack", "LogFileGhost"}
    BY DEF Step, CHAIN
  <2> QED
    BY <1>1, <1>5, <1>6, <1>7, <1>8, <1>10, <1>12, <2>1 DEF Handle
<1> QED
  BY <1>13 DEF Sound

-----------------------------------------------------------------------------
(* Whatever a source offers carries some file content.                      *)
LEMMA OfferHasBytes ==
    ASSUME Given, NEW step \in Step, NEW e \in Offers(step)
    PROVE  e.bytes \in Contents
<1>1. step \in {"Volume", "Quarantine", "RecycleBin", "ShadowCopy",
                "CarvedClusters", "IndexSlack", "OrphanedRecord",
                "RecordSlack", "LogFileGhost"}
  BY DEF Step, CHAIN
<1>2. \A found : Unread(found).bytes \in Contents
  BY DEF Given, ContentsAssumption, Unread
<1> QED
  BY <1>1, <1>2 DEF Offers, Evidence, AbsentOrRefused

(* What one run of a step leaves: a well-typed bookkeeping, file and        *)
(* history; the file and the digest are those of the bytes it returned; an  *)
(* identity it changed was read trustworthily, if a digest was recorded.    *)
LEMMA RunSound ==
    ASSUME Given, NEW step \in Step, NEW e \in Offers(step), NEW b \in Bookkeeping,
           NEW r \in Runs(step, e, b),
           vouched \subseteq Contents, writeFailures \in Nat,
           file \in Contents \cup {NoContent, TornFile}
    PROVE  /\ r.book \in Bookkeeping
           /\ r.file \in Contents \cup {NoContent, TornFile}
           /\ r.vouched \subseteq Contents
           /\ vouched \subseteq r.vouched
           /\ r.failures \in Nat
           /\ ~WriteOut => r.file = file
           /\ IsBytes(r.result) =>
                /\ r.result.via = step
                /\ r.book.acquired = r.result.bytes
                /\ WriteOut => r.file = r.result.bytes
           /\ recorded # << >> => r.book.hash \in {b.hash} \cup r.vouched
<1> DEFINE h == Handle(step, e)
<1>1. PICK w \in Writes : r = RunStep(step, e, w, b)
  BY DEF Runs, Writes
<1>2. e.bytes \in Contents
  BY OfferHasBytes
<1>3. /\ h.as \in {"None", "Failed", "Read"}
      /\ h.as = "Read" =>
           /\ h.bytes \in Contents
           /\ h.recovery \in Recovery
           /\ h.adopt \in BOOLEAN
           /\ (recorded # << >> /\ h.adopt) => IsTrustworthy(h.recovery)
  BY <1>2, HandlerSound
<1> HIDE DEF h
<1>4. /\ r.book = IF h.as = "Read" THEN RecordAcquired(b, h) ELSE b
      /\ r.file = CASE h.as = "Read" /\ WriteOut /\ w = "written" -> h.bytes
                    [] h.as = "Read" /\ WriteOut /\ w = "torn" -> TornFile
                    [] OTHER -> file
      /\ r.vouched = IF h.as = "Read" /\ IsTrustworthy(h.recovery)
                     THEN vouched \cup {h.bytes} ELSE vouched
      /\ r.failures = writeFailures
                      + IF h.as = "Read" /\ WriteOut /\ w # "written" THEN 1 ELSE 0
  BY <1>1 DEF RunStep, h
<1>5. r.result =
        CASE h.as = "None" -> [kind |-> "None"]
          [] h.as = "Failed" \/ (h.as = "Read" /\ WriteOut /\ w # "written") ->
               [kind |-> "Failed"]
          [] OTHER -> [kind     |-> IF WriteOut THEN "Bytes" ELSE "Withheld",
                       via      |-> step,
                       bytes    |-> h.bytes,
                       recovery |-> FinalRecovery(step, e, h, WriteOut),
                       inverse  |-> FinalRecovery(step, e, h, ~WriteOut)]
  BY <1>1 DEF RunStep, h
<1>6. /\ RecordAcquired(b, h).acquired = h.bytes
      /\ RecordAcquired(b, h).hash = IF h.adopt THEN h.bytes ELSE b.hash
  BY DEF RecordAcquired
<1>7. h.as = "Read" => RecordAcquired(b, h) \in Bookkeeping
  BY <1>3 DEF RecordAcquired, Bookkeeping, Digest
<1>8. r.book \in Bookkeeping
  BY <1>4, <1>7
<1>9. r.file \in Contents \cup {NoContent, TornFile} /\ (~WriteOut => r.file = file)
  BY <1>3, <1>4 DEF Given, ModeAssumption
<1>10. /\ r.vouched \subseteq Contents
       /\ vouched \subseteq r.vouched
       /\ r.failures \in Nat
  BY <1>3, <1>4
<1>11. IsBytes(r.result) =>
         /\ r.result.via = step
         /\ r.book.acquired = r.result.bytes
         /\ WriteOut => r.file = r.result.bytes
  <2>1. IsBytes(r.result) =>
          /\ h.as = "Read"
          /\ WriteOut => w = "written"
          /\ r.result.via = step
          /\ r.result.bytes = h.bytes
    BY <1>3, <1>5 DEF IsBytes
  <2> QED
    BY <1>4, <1>6, <2>1
<1>12. recorded # << >> => r.book.hash \in {b.hash} \cup r.vouched
  BY <1>3, <1>4, <1>6
<1> QED
  BY <1>8, <1>9, <1>10, <1>11, <1>12

-----------------------------------------------------------------------------
(* The held source can be run again, and nothing on the way to the verdict  *)
(* is forgotten: the bookkeeping it would be run again from is as well      *)
(* vouched for as the current one.                                          *)
IInv ==
    /\ Given
    /\ TypeOK
    /\ held # NotHeld => shown \in Offers(held.step)
    /\ recorded # << >> /\ held # NotHeld =>
          held.before.hash \in {recorded[1]} \cup vouched
    /\ ~WriteOut => file = NoContent
    /\ IdentityIsVouchedFor
    /\ SavedFileIsTheReportedOne

(* A candidate before its first source: only an artifact has hashed it.     *)
LEMMA InitIInv == Given /\ Init => IInv
<1> SUFFICES ASSUME Given, Init PROVE IInv
  OBVIOUS
<1>1. recorded \in Seq(Contents)
  <2>1. PICK n \in 0..MaxRecorded : recorded \in [1..n -> Contents]
    BY DEF Init
  <2> QED
    BY <2>1 DEF Given, BoundAssumption
<1>2. TypeOK
  BY <1>1 DEF Init, TypeOK, Bookkeeping, Digest
<1> QED
  BY <1>2 DEF Init, IInv, IdentityIsVouchedFor, SavedFileIsTheReportedOne,
              Reported, Done

(* A source of the chain, whatever it answered.                             *)
LEMMA TryStepKeepsIInv == IInv /\ TryStep => IInv'
<1> SUFFICES ASSUME IInv, TryStep PROVE IInv'
  OBVIOUS
<1> DEFINE step == CHAIN[next]
<1>1. step \in Step /\ next \in 1..9 /\ phase = "chain"
  BY DEF TryStep, Step
<1>e. PICK e \in Offers(step) : \E r \in Runs(step, e, book) :
        NoSource(r) \/ SourceFailed(r) \/ Accept(r) \/ SetAside(r, e)
  BY DEF TryStep
<1>2. PICK r \in Runs(step, e, book) :
        NoSource(r) \/ SourceFailed(r) \/ Accept(r) \/ SetAside(r, e)
  BY <1>e
<1> HIDE DEF step
<1>3. /\ r.book \in Bookkeeping
      /\ r.file \in Contents \cup {NoContent, TornFile}
      /\ r.vouched \subseteq Contents
      /\ vouched \subseteq r.vouched
      /\ r.failures \in Nat
      /\ ~WriteOut => r.file = file
      /\ IsBytes(r.result) =>
           /\ r.book.acquired = r.result.bytes
           /\ WriteOut => r.file = r.result.bytes
      /\ recorded # << >> => r.book.hash \in {book.hash} \cup r.vouched
  BY <1>1, <1>2, RunSound DEF IInv, TypeOK
<1>4. /\ file' = r.file /\ vouched' = r.vouched /\ writeFailures' = r.failures
      /\ recorded' = recorded /\ observed' = observed
  BY <1>2 DEF NoSource, SourceFailed, Accept, SetAside, Ran
<1>5. CASE NoSource(r) \/ SourceFailed(r)
  <2>1. /\ next' = next + 1 /\ phase' = phase /\ outcome' = outcome
        /\ book' = r.book /\ held' = held /\ shown' = shown /\ steady' = steady
        /\ aside' = aside
        /\ failure' \in {failure, step}
    BY <1>5 DEF NoSource, SourceFailed, Advance, step
  <2>2. TypeOK'
    BY <1>1, <1>3, <1>4, <2>1 DEF IInv, TypeOK
  <2> QED
    BY <1>1, <1>3, <1>4, <2>1, <2>2
    DEF IInv, IdentityIsVouchedFor, SavedFileIsTheReportedOne, Reported, Done
<1>6. CASE Accept(r)
  <2>1. /\ next' = next /\ phase' = "done" /\ outcome' = r.result
        /\ book' = r.book /\ held' = held /\ shown' = shown /\ steady' = steady
        /\ aside' = aside
        /\ failure' = failure
    BY <1>6 DEF Accept, Finish
  <2>2. TypeOK'
    BY <1>1, <1>3, <1>4, <2>1 DEF IInv, TypeOK
  <2> QED
    BY <1>1, <1>3, <1>4, <2>1, <2>2
    DEF IInv, IdentityIsVouchedFor, SavedFileIsTheReportedOne, Reported, Done
<1>7. CASE SetAside(r, e)
  <2>1. /\ next' = next + 1 /\ phase' = phase /\ outcome' = outcome
        /\ book' = book /\ aside' = aside \cup {step} /\ failure' = failure
        /\ steady' = steady
    BY <1>7 DEF SetAside, Advance, step
  <2>2. \/ held' = [step |-> step, before |-> book] /\ shown' = e
        \/ held # NotHeld /\ held' = held /\ shown' = shown
    BY <1>7 DEF SetAside, step
  <2>3. TypeOK'
    BY <1>1, <1>3, <1>4, <2>1, <2>2 DEF IInv, TypeOK
  <2>4. (held # NotHeld => shown \in Offers(held.step))'
    BY <1>2, <2>2 DEF IInv
  <2>5. (recorded # << >> /\ held # NotHeld =>
            held.before.hash \in {recorded[1]} \cup vouched)'
    BY <1>3, <1>4, <2>2 DEF IInv, IdentityIsVouchedFor
  <2> QED
    BY <1>1, <1>3, <1>4, <2>1, <2>3, <2>4, <2>5
    DEF IInv, IdentityIsVouchedFor, SavedFileIsTheReportedOne, Reported, Done
<1> QED
  BY <1>2, <1>5, <1>6, <1>7

(* The held source, run again on the bookkeeping it had.                    *)
LEMMA RunHeldAgainKeepsIInv == IInv /\ RunHeldAgain => IInv'
<1> SUFFICES ASSUME IInv, RunHeldAgain PROVE IInv'
  OBVIOUS
<1>1. held.step \in Step /\ shown \in Offers(held.step)
  BY DEF RunHeldAgain, IInv, TypeOK
<1>e. PICK e \in Offers(held.step) : \E r \in Runs(held.step, e, book) :
        /\ Ran(r)
        /\ book' = r.book
        /\ failure' = IF IsBytes(r.result) \/ failure # NoReason
                      THEN failure ELSE held.step
        /\ Finish(IF IsBytes(r.result) THEN r.result ELSE Fallback)
  BY <1>1 DEF RunHeldAgain
<1>2. PICK r \in Runs(held.step, e, book) :
        /\ Ran(r)
        /\ book' = r.book
        /\ failure' = IF IsBytes(r.result) \/ failure # NoReason
                      THEN failure ELSE held.step
        /\ Finish(IF IsBytes(r.result) THEN r.result ELSE Fallback)
  BY <1>e
<1>3. /\ r.book \in Bookkeeping
      /\ r.file \in Contents \cup {NoContent, TornFile}
      /\ r.vouched \subseteq Contents
      /\ vouched \subseteq r.vouched
      /\ r.failures \in Nat
      /\ ~WriteOut => r.file = file
      /\ IsBytes(r.result) =>
           /\ r.book.acquired = r.result.bytes
           /\ WriteOut => r.file = r.result.bytes
      /\ recorded # << >> => r.book.hash \in {book.hash} \cup r.vouched
  BY <1>1, <1>2, RunSound DEF IInv, TypeOK
<1>4. /\ file' = r.file /\ vouched' = r.vouched /\ writeFailures' = r.failures
      /\ recorded' = recorded /\ observed' = observed /\ book' = r.book
      /\ phase' = "done"
      /\ outcome' = IF IsBytes(r.result) THEN r.result ELSE Fallback
      /\ next' = next /\ held' = held /\ failure' \in {failure, held.step}
      /\ shown' = shown /\ aside' = aside /\ steady' \in BOOLEAN
  BY <1>2 DEF RunHeldAgain, Ran, Finish
<1>5. ~IsBytes(Fallback)
  BY DEF IsBytes, Fallback
<1>6. TypeOK'
  BY <1>1, <1>3, <1>4 DEF IInv, TypeOK
<1> QED
  BY <1>3, <1>4, <1>5, <1>6
  DEF IInv, IdentityIsVouchedFor, SavedFileIsTheReportedOne, Reported, Done

(* Every step of the loop, and stuttering.                                  *)
LEMMA NextKeepsIInv == IInv /\ [Next]_vars => IInv'
<1> SUFFICES ASSUME IInv, [Next]_vars PROVE IInv'
  OBVIOUS
<1>1. CASE ChainExhausted
  <2>1. TypeOK'
    BY <1>1 DEF ChainExhausted, IInv, TypeOK
  <2> QED
    BY <1>1, <2>1
    DEF ChainExhausted, IInv, IdentityIsVouchedFor, SavedFileIsTheReportedOne,
        Reported, Done
<1>2. CASE FallBack
  <2>1. ~IsBytes(outcome')
    BY <1>2 DEF FallBack, Finish, Fallback, IsBytes
  <2>2. TypeOK'
    BY <1>2 DEF FallBack, Finish, IInv, TypeOK
  <2> QED
    BY <1>2, <2>1, <2>2
    DEF FallBack, Finish, IInv, IdentityIsVouchedFor, SavedFileIsTheReportedOne,
        Reported, Done
<1>3. CASE UNCHANGED vars
  BY <1>3 DEF vars, IInv, TypeOK, IdentityIsVouchedFor,
              SavedFileIsTheReportedOne, Reported, Done
<1> QED
  BY <1>1, <1>2, <1>3, TryStepKeepsIInv, RunHeldAgainKeepsIInv DEF Next

(* The strengthening is an invariant of every behaviour.                    *)
LEMMA IInvHolds == ASSUME Given PROVE Spec => []IInv
  BY InitIInv, NextKeepsIInv, PTL DEF Spec

(* The candidate, the loop and the file stay well-typed.                    *)
THEOREM TypeCorrect ==
    ASSUME ContentsAssumption, ModeAssumption, BoundAssumption PROVE Spec => []TypeOK
<1>g. Given
  BY DEF Given
<1>1. IInv => TypeOK
  BY DEF IInv
<1> QED
  BY <1>g, <1>1, IInvHolds, PTL

(* Whatever was tried, set aside and run again, and although every attempt  *)
(* wrote the same file and hashed the same candidate, the bytes the report  *)
(* names are the bytes on disk and the digest beside them is theirs.        *)
THEOREM SavedFileCorrect ==
    ASSUME ContentsAssumption, ModeAssumption, BoundAssumption PROVE Spec => []SavedFileIsTheReportedOne
<1>g. Given
  BY DEF Given
<1>1. IInv => SavedFileIsTheReportedOne
  BY DEF IInv
<1> QED
  BY <1>g, <1>1, IInvHolds, PTL

(* The identity of a candidate an artifact hashed is that digest or one of  *)
(* bytes read trustworthily, at every point of the chain.                   *)
THEOREM IdentityCorrect ==
    ASSUME ContentsAssumption, ModeAssumption, BoundAssumption PROVE Spec => []IdentityIsVouchedFor
<1>g. Given
  BY DEF Given
<1>1. IInv => IdentityIsVouchedFor
  BY DEF IInv
<1> QED
  BY <1>g, <1>1, IInvHolds, PTL

-----------------------------------------------------------------------------
(* The chain has no source twice.                                           *)
LEMMA ChainIsInjective ==
    \A i, j \in 1..9 : CHAIN[i] = CHAIN[j] => i = j
<1> DEFINE position == [step \in Step |->
      CASE step = "Volume" -> 1          [] step = "Quarantine" -> 2
        [] step = "RecycleBin" -> 3      [] step = "ShadowCopy" -> 4
        [] step = "CarvedClusters" -> 5  [] step = "IndexSlack" -> 6
        [] step = "OrphanedRecord" -> 7  [] step = "RecordSlack" -> 8
        [] step = "LogFileGhost" -> 9]
<1>1. \A i \in 1..9 : position[CHAIN[i]] = i
  <2> SUFFICES ASSUME NEW i \in 1..9 PROVE position[CHAIN[i]] = i
    OBVIOUS
  <2>1. CHAIN[i] \in Step
    BY DEF Step
  <2>2. i \in {1, 2, 3, 4, 5, 6, 7, 8, 9}
    OBVIOUS
  <2> QED
    BY <2>1, <2>2 DEF CHAIN
<1> HIDE DEF position
<1> QED
  BY <1>1

Initially == IF recorded = << >> THEN NoContent ELSE recorded[1]
Undecided == phase \in {"chain", "again"}

(* What is held is the earliest of what was set aside, and what the report  *)
(* calls unprovable is what was held.                                       *)
EarliestIsHeld ==
    /\ held = NotHeld => aside = {}
    /\ held # NotHeld =>
         /\ recorded # << >>
         /\ \E j \in 1..9 : j < next /\ CHAIN[j] = held.step
         /\ \A i \in 1..9 : CHAIN[i] \in aside => \E j \in 1..i : CHAIN[j] = held.step
    /\ Reported /\ ~IsTrustworthy(outcome.recovery) /\ recorded # << >> =>
         held # NotHeld /\ outcome.via = held.step

(* Setting one more step aside keeps the earliest one held.                 *)
LEMMA TryStepKeepsEarliest == IInv /\ EarliestIsHeld /\ TryStep => EarliestIsHeld'
<1> SUFFICES ASSUME IInv, EarliestIsHeld, TryStep PROVE EarliestIsHeld'
  OBVIOUS
<1>1. next \in 1..9 /\ phase = "chain"
  BY DEF TryStep
<1>e. PICK e \in Offers(CHAIN[next]) : \E r \in Runs(CHAIN[next], e, book) :
        NoSource(r) \/ SourceFailed(r) \/ Accept(r) \/ SetAside(r, e)
  BY DEF TryStep
<1>2. PICK r \in Runs(CHAIN[next], e, book) :
        NoSource(r) \/ SourceFailed(r) \/ Accept(r) \/ SetAside(r, e)
  BY <1>e
<1>3. CASE NoSource(r) \/ SourceFailed(r)
  <2>1. /\ next' = next + 1 /\ phase' = phase /\ recorded' = recorded
        /\ held' = held /\ aside' = aside
    BY <1>3 DEF NoSource, SourceFailed, Advance, Ran
  <2> QED
    BY <1>1, <2>1 DEF EarliestIsHeld, Reported, Done
<1>4. CASE Accept(r)
  <2>1. /\ next' = next /\ recorded' = recorded /\ held' = held /\ aside' = aside
        /\ outcome' = r.result
        /\ IsTrustworthy(r.result.recovery) \/ recorded = << >>
    BY <1>4 DEF Accept, Ran, Finish
  <2> QED
    BY <2>1 DEF EarliestIsHeld
<1>5. CASE SetAside(r, e)
  <2>1. /\ next' = next + 1 /\ phase' = phase /\ recorded' = recorded
        /\ recorded # << >>
        /\ aside' = aside \cup {CHAIN[next]}
        /\ ~Reported'
    BY <1>1, <1>5 DEF SetAside, Advance, Ran, Reported, Done
  <2>2. CASE held = NotHeld
    <3>1. held'.step = CHAIN[next] /\ held' # NotHeld
      <4>1. held' = [step |-> CHAIN[next], before |-> book]
        BY <1>5, <2>2 DEF SetAside
      <4>2. CHAIN[next] # "none"
        BY <1>1 DEF CHAIN
      <4> QED
        BY <4>1, <4>2 DEF NotHeld
    <3>2. \A i \in 1..9 : CHAIN[i] \in aside' => i = next
      BY <1>1, <2>1, <2>2, ChainIsInjective DEF EarliestIsHeld
    <3> QED
      BY <1>1, <2>1, <3>1, <3>2 DEF EarliestIsHeld
  <2>3. CASE held # NotHeld
    <3>1. held' = held
      BY <1>5, <2>3 DEF SetAside
    <3>2. PICK k \in 1..9 : k < next /\ CHAIN[k] = held.step
      BY <2>3 DEF EarliestIsHeld
    <3>3. \A i \in 1..9 : CHAIN[i] \in aside' => \E j \in 1..i : CHAIN[j] = held.step
      <4> SUFFICES ASSUME NEW i \in 1..9, CHAIN[i] \in aside'
                   PROVE  \E j \in 1..i : CHAIN[j] = held.step
        OBVIOUS
      <4>1. CASE CHAIN[i] \in aside
        BY <2>3, <4>1 DEF EarliestIsHeld
      <4>2. CASE CHAIN[i] = CHAIN[next]
        <5>1. i = next
          BY <1>1, <4>2, ChainIsInjective
        <5> QED
          BY <3>2, <5>1
      <4> QED
        BY <2>1, <4>1, <4>2
    <3>4. k < next'
      BY <1>1, <2>1, <3>2
    <3> QED
      BY <2>1, <2>3, <3>1, <3>2, <3>3, <3>4 DEF EarliestIsHeld
  <2> QED
    BY <2>2, <2>3
<1> QED
  BY <1>2, <1>3, <1>4, <1>5

(* The report of a held step names that step.                               *)
LEMMA NextKeepsEarliest == IInv /\ EarliestIsHeld /\ [Next]_vars => EarliestIsHeld'
<1> SUFFICES ASSUME IInv, EarliestIsHeld, [Next]_vars PROVE EarliestIsHeld'
  OBVIOUS
<1>1. CASE ChainExhausted
  BY <1>1 DEF ChainExhausted, EarliestIsHeld, Reported, Done
<1>2. CASE RunHeldAgain
  <2>1. held.step \in Step /\ held # NotHeld
    BY <1>2 DEF RunHeldAgain, IInv, TypeOK
  <2>2. PICK e \in Offers(held.step) : \E r \in Runs(held.step, e, book) :
          outcome' = IF IsBytes(r.result) THEN r.result ELSE Fallback
    BY <1>2 DEF RunHeldAgain, Finish
  <2>3. PICK r \in Runs(held.step, e, book) :
          outcome' = IF IsBytes(r.result) THEN r.result ELSE Fallback
    BY <2>2
  <2>4. IsBytes(outcome') => outcome'.via = held.step
    <3>1. ~IsBytes(Fallback)
      BY DEF IsBytes, Fallback
    <3>2. IsBytes(r.result) => r.result.via = held.step
      BY <2>1, RunSound DEF IInv, TypeOK
    <3> QED
      BY <2>3, <3>1, <3>2
  <2>5. /\ held' = held /\ aside' = aside /\ next' = next /\ recorded' = recorded
    BY <1>2 DEF RunHeldAgain, Ran
  <2> QED
    BY <2>1, <2>4, <2>5 DEF EarliestIsHeld, Reported
<1>3. CASE FallBack
  <2>1. ~IsBytes(outcome')
    BY <1>3 DEF FallBack, Finish, Fallback, IsBytes
  <2> QED
    BY <1>3, <2>1 DEF FallBack, EarliestIsHeld, Reported
<1>4. CASE UNCHANGED vars
  BY <1>4 DEF vars, EarliestIsHeld, Reported, Done
<1> QED
  BY <1>1, <1>2, <1>3, <1>4, TryStepKeepsEarliest DEF Next

(* Bytes reported as unprovable are those of the first such step in chain   *)
(* order, however many were tried after it and overwrote its file.          *)
THEOREM EarliestReported ==
    ASSUME ContentsAssumption, ModeAssumption, BoundAssumption PROVE Spec => []EarliestUnprovableIsReported
<1>g. Given
  BY DEF Given
<1>1. Init => EarliestIsHeld
  BY DEF Init, EarliestIsHeld, Reported, Done
<1>2. EarliestIsHeld => EarliestUnprovableIsReported
  BY DEF EarliestIsHeld, EarliestUnprovableIsReported
<1> QED
  BY <1>g, <1>1, <1>2, IInvHolds, NextKeepsEarliest, PTL DEF Spec

-----------------------------------------------------------------------------
(* A trustworthy read is always adopted; one that a digest confirmed is of  *)
(* the first digest recorded; and only the volume knows a file to be intact *)
(* without one.                                                             *)
LEMMA HandlerVerdict ==
    ASSUME NEW step \in Step, NEW e, Handle(step, e).as = "Read"
    PROVE  /\ IsTrustworthy(Handle(step, e).recovery) => Handle(step, e).adopt
           /\ Handle(step, e).recovery = "Confirmed" =>
                recorded # << >> /\ recorded[1] = e.bytes
           /\ step # "Volume" => Handle(step, e).recovery \notin
                {"Intact", "UnlinkedButPresent"}
<1> DEFINE Known(h) ==
      h.as = "Read" =>
        /\ IsTrustworthy(h.recovery) => h.adopt
        /\ h.recovery = "Confirmed" => recorded # << >> /\ recorded[1] = e.bytes
<1> DEFINE Doubted(h) ==
      Known(h) /\ (h.as = "Read" => h.recovery \notin {"Intact", "UnlinkedButPresent"})
<1>1. Doubted(None) /\ Doubted(Failed)
  BY DEF None, Failed
<1>2. ASSUME NEW otherwise \in {"Unverified", "Partial"}
      PROVE  /\ Doubted(Unless(e.bytes, CompareOr(e.bytes, otherwise)))
             /\ Doubted(OnlyIfConfirmed(e.bytes, CompareOr(e.bytes, otherwise)))
  BY DEF Unless, OnlyIfConfirmed, CompareOr, Read, IsTrustworthy
<1>3. ASSUME NEW recovery \in {"Intact", "UnlinkedButPresent"}
      PROVE  Known(Read(e.bytes, recovery, TRUE))
  BY DEF Read, IsTrustworthy
<1>4. CarveBasis(e.clusters) \in {"Unverified", "Partial"}
  BY DEF CarveBasis
<1>a. \A h : Doubted(h) => Known(h)
  OBVIOUS
<1> HIDE DEF Known, Doubted
<1>5. Known(FromVolume(e))
  BY <1>1, <1>3, <1>a DEF FromVolume
<1>6. Doubted(FromQuarantine(e))
  BY <1>1, <1>2 DEF FromQuarantine
<1>7. Doubted(FromRecycleBin(e))
  BY <1>1, <1>2 DEF FromRecycleBin
<1>8. Doubted(FromShadowCopy(e)) /\ Doubted(FromOrphanedRecord(e))
  BY <1>1, <1>2 DEF FromShadowCopy, FromOrphanedRecord
<1>9. Doubted(CarveFromRecord(e))
  BY <1>1, <1>2, <1>4 DEF CarveFromRecord
<1>10. Doubted(FromCarvedClusters(e)) /\ Doubted(FromIndexSlack(e))
  BY <1>1, <1>9 DEF FromCarvedClusters, FromIndexSlack
<1>11. Doubted(FromGhost(e))
  BY <1>1, <1>2 DEF FromGhost
<1>12. Doubted(FromRecordSlack(e)) /\ Doubted(FromLogFile(e))
  BY <1>1, <1>11 DEF FromRecordSlack, FromLogFile
<1>13. step \in {"Volume", "Quarantine", "RecycleBin", "ShadowCopy",
                 "CarvedClusters", "IndexSlack", "OrphanedRecord",
                 "RecordSlack", "LogFileGhost"}
  BY DEF Step, CHAIN
<1>14. Known(Handle(step, e)) /\ (step # "Volume" => Doubted(Handle(step, e)))
  BY <1>1, <1>5, <1>6, <1>7, <1>8, <1>10, <1>12, <1>13, <1>a DEF Handle
<1> QED
  BY <1>14 DEF Known, Doubted

(* With no failed write, a step has bytes exactly when its source was read; *)
(* they are the bytes offered, and a step without any leaves no trace.      *)
LEMMA RunWritten ==
    ASSUME Given, NEW step \in Step, NEW e \in Offers(step), NEW b \in Bookkeeping,
           NEW r \in Runs(step, e, b), writeFailures \in Nat, r.failures = 0
    PROVE  /\ writeFailures = 0
           /\ IsBytes(r.result) <=> Handle(step, e).as = "Read"
           /\ ~IsBytes(r.result) => r.book = b /\ r.file = file
           /\ IsBytes(r.result) =>
                /\ r.result.bytes = e.bytes
                /\ r.result.recovery = FinalRecovery(step, e, Handle(step, e), WriteOut)
                /\ r.book = RecordAcquired(b, Handle(step, e))
                /\ r.file = IF WriteOut THEN e.bytes ELSE file
<1> DEFINE h == Handle(step, e)
<1>1. PICK w \in Writes : r = RunStep(step, e, w, b)
  BY DEF Runs, Writes
<1>2. /\ h.as \in {"None", "Failed", "Read"}
      /\ h.as = "Read" => h.bytes = e.bytes
  BY OfferHasBytes, HandlerSound
<1> HIDE DEF h
<1>3. /\ r.book = IF h.as = "Read" THEN RecordAcquired(b, h) ELSE b
      /\ r.file = CASE h.as = "Read" /\ WriteOut /\ w = "written" -> h.bytes
                    [] h.as = "Read" /\ WriteOut /\ w = "torn" -> TornFile
                    [] OTHER -> file
      /\ r.failures = writeFailures
                      + IF h.as = "Read" /\ WriteOut /\ w # "written" THEN 1 ELSE 0
      /\ r.result =
           CASE h.as = "None" -> [kind |-> "None"]
             [] h.as = "Failed" \/ (h.as = "Read" /\ WriteOut /\ w # "written") ->
                  [kind |-> "Failed"]
             [] OTHER -> [kind     |-> IF WriteOut THEN "Bytes" ELSE "Withheld",
                          via      |-> step,
                          bytes    |-> h.bytes,
                          recovery |-> FinalRecovery(step, e, h, WriteOut),
                          inverse  |-> FinalRecovery(step, e, h, ~WriteOut)]
  BY <1>1 DEF RunStep, h
<1>4. writeFailures = 0 /\ ~(h.as = "Read" /\ WriteOut /\ w # "written")
  BY <1>3
<1>5. CASE h.as = "Read"
  <2>1. IsBytes(r.result) /\ r.result.bytes = h.bytes
        /\ r.result.recovery = FinalRecovery(step, e, h, WriteOut)
    BY <1>3, <1>4, <1>5 DEF IsBytes
  <2>2. r.file = IF WriteOut THEN e.bytes ELSE file
    BY <1>2, <1>3, <1>4, <1>5 DEF Given, ModeAssumption
  <2> QED
    BY <1>2, <1>3, <1>4, <1>5, <2>1, <2>2 DEF h
<1>6. CASE h.as # "Read"
  <2>1. ~IsBytes(r.result)
    BY <1>2, <1>3, <1>6 DEF IsBytes
  <2> QED
    BY <1>3, <1>4, <1>6, <2>1 DEF h
<1> QED
  BY <1>5, <1>6

(* What a read makes of the identity: bytes reported as the file become it, *)
(* others leave a recorded digest as it was.                                *)
LEMMA ReadDecides ==
    ASSUME Given, NEW step \in Step, NEW e \in Offers(step), NEW b \in Bookkeeping,
           Handle(step, e).as = "Read", b.hash = Initially
    PROVE  LET final == FinalRecovery(step, e, Handle(step, e), WriteOut)
               hash == RecordAcquired(b, Handle(step, e)).hash
           IN  /\ RecordAcquired(b, Handle(step, e)).acquired = e.bytes
               /\ IsTrustworthy(final) => hash = e.bytes
               /\ ~IsTrustworthy(final) /\ recorded # << >> => hash = recorded[1]
               /\ recorded = << >> => hash \in {e.bytes, NoContent}
<1> DEFINE h == Handle(step, e)
           final == FinalRecovery(step, e, h, WriteOut)
<1>1. /\ h.bytes = e.bytes
      /\ h.adopt \in BOOLEAN
      /\ h.recovery \in Recovery
      /\ (recorded # << >> /\ h.adopt) => IsTrustworthy(h.recovery)
  BY OfferHasBytes, HandlerSound
<1>2. /\ IsTrustworthy(h.recovery) => h.adopt
      /\ h.recovery = "Confirmed" => recorded # << >> /\ recorded[1] = e.bytes
      /\ step # "Volume" => h.recovery \notin {"Intact", "UnlinkedButPresent"}
  BY HandlerVerdict
<1> HIDE DEF h
<1>3. final \in {h.recovery, "Partial"} /\ (final # h.recovery => step # "Volume")
  BY DEF FinalRecovery
<1>4. /\ RecordAcquired(b, h).acquired = h.bytes
      /\ RecordAcquired(b, h).hash = IF h.adopt THEN h.bytes ELSE b.hash
  BY DEF RecordAcquired
<1>5. IsTrustworthy(final) => RecordAcquired(b, h).hash = e.bytes
  BY <1>1, <1>2, <1>3, <1>4 DEF IsTrustworthy
<1>6. ~IsTrustworthy(final) /\ recorded # << >> => RecordAcquired(b, h).hash = recorded[1]
  <2> SUFFICES ASSUME ~IsTrustworthy(final), recorded # << >>
               PROVE  RecordAcquired(b, h).hash = recorded[1]
    OBVIOUS
  <2>1. CASE h.adopt
    <3>1. IsTrustworthy(h.recovery) /\ final # h.recovery
      BY <1>1, <2>1
    <3>2. h.recovery = "Confirmed"
      BY <1>2, <1>3, <3>1 DEF IsTrustworthy
    <3> QED
      BY <1>1, <1>2, <1>4, <2>1, <3>2
  <2>2. CASE ~h.adopt
    BY <1>4, <2>2 DEF Initially
  <2> QED
    BY <2>1, <2>2
<1>7. recorded = << >> => RecordAcquired(b, h).hash \in {e.bytes, NoContent}
  BY <1>1, <1>4 DEF Initially
<1> QED
  BY <1>1, <1>4, <1>5, <1>6, <1>7 DEF h

-----------------------------------------------------------------------------
Unproven(step, e) ==
    /\ Handle(step, e).as = "Read"
    /\ ~IsTrustworthy(FinalRecovery(step, e, Handle(step, e), WriteOut))
HeldIsUnproven == Unproven(held.step, shown)

(* As long as every write succeeds, a chain that has not decided has left   *)
(* the candidate as it found it, and its file too unless a source is held;  *)
(* and what is held would be unproven again.                                *)
Untold ==
    /\ Undecided => steady /\ outcome = NotAttempted
    /\ writeFailures = 0 /\ held # NotHeld => recorded # << >> /\ HeldIsUnproven
    /\ writeFailures = 0 /\ Undecided =>
         /\ book.hash = Initially /\ book.acquired = NoContent
         /\ held = NotHeld => file = NoContent
         /\ held # NotHeld =>
              held.before.hash = Initially /\ held.before.acquired = NoContent

(* What a handler makes of its evidence depends on the candidate alone.     *)
LEMMA HandlerIsOfTheCandidate ==
    ASSUME UNCHANGED << recorded, observed >>, NEW step, NEW e,
           held'.step = step, shown' = e
    PROVE  HeldIsUnproven' <=> Unproven(step, e)
<1>1. Handle(held.step, shown)' = Handle(step, e)
  BY DEF Handle, None, Failed, HasPath, FromVolume, FromQuarantine, FromRecycleBin,
         FromShadowCopy, FromCarvedClusters, FromIndexSlack, FromOrphanedRecord,
         FromRecordSlack, FromLogFile, FromGhost, CarveFromRecord, FileExists,
         DeletedRecord, ByUnlinkedRecord, CompareOr, CarveBasis, Unless,
         OnlyIfConfirmed, Read
<1>2. FinalRecovery(held.step, shown, Handle(held.step, shown), WriteOut)'
        = FinalRecovery(step, e, Handle(step, e), WriteOut)
  BY <1>1 DEF FinalRecovery
<1> QED
  BY <1>1, <1>2 DEF HeldIsUnproven, Unproven, IsTrustworthy

(* A source of the chain tells nothing, unless its bytes are accepted.      *)
LEMMA TryStepKeepsUntold == IInv /\ Untold /\ TryStep => Untold'
<1> SUFFICES ASSUME IInv, Untold, TryStep PROVE Untold'
  OBVIOUS
<1> DEFINE step == CHAIN[next]
<1>1. step \in Step /\ next \in 1..9 /\ phase = "chain"
  BY DEF TryStep, Step
<1>e. PICK e \in Offers(step) : \E r \in Runs(step, e, book) :
        NoSource(r) \/ SourceFailed(r) \/ Accept(r) \/ SetAside(r, e)
  BY DEF TryStep
<1>2. PICK r \in Runs(step, e, book) :
        NoSource(r) \/ SourceFailed(r) \/ Accept(r) \/ SetAside(r, e)
  BY <1>e
<1>3. r.failures = 0 =>
        /\ writeFailures = 0
        /\ ~IsBytes(r.result) => r.book = book /\ r.file = file
        /\ IsBytes(r.result) =>
             /\ Handle(step, e).as = "Read"
             /\ r.result.recovery = FinalRecovery(step, e, Handle(step, e), WriteOut)
  BY <1>1, RunWritten DEF IInv, TypeOK
<1> HIDE DEF step
<1>4. /\ file' = r.file /\ writeFailures' = r.failures
      /\ recorded' = recorded /\ observed' = observed
      /\ Initially' = Initially /\ (Undecided => phase' \in {"chain", "done"})
  BY <1>1, <1>2 DEF NoSource, SourceFailed, Accept, SetAside, Ran, Advance, Finish, Initially
<1>5. held' = held /\ shown' = shown => (HeldIsUnproven' <=> HeldIsUnproven)
  BY <1>4, HandlerIsOfTheCandidate DEF HeldIsUnproven
<1>6. CASE NoSource(r) \/ SourceFailed(r)
  <2>1. /\ book' = r.book /\ held' = held /\ shown' = shown /\ steady' = steady
        /\ phase' = phase /\ outcome' = outcome /\ ~IsBytes(r.result)
    BY <1>6 DEF NoSource, SourceFailed, Advance, IsBytes
  <2> QED
    BY <1>1, <1>3, <1>4, <1>5, <2>1 DEF Untold, Undecided
<1>7. CASE Accept(r)
  <2>1. held' = held /\ shown' = shown /\ phase' = "done"
    BY <1>7 DEF Accept, Finish
  <2> QED
    BY <1>3, <1>4, <1>5, <2>1 DEF Untold, Undecided
<1>8. CASE SetAside(r, e)
  <2>1. /\ book' = book /\ steady' = steady /\ phase' = phase /\ outcome' = outcome
        /\ recorded # << >> /\ IsBytes(r.result) /\ ~IsTrustworthy(r.result.recovery)
    BY <1>8 DEF SetAside, Advance
  <2>2. CASE held = NotHeld
    <3>1. held' = [step |-> step, before |-> book] /\ shown' = e
      BY <1>8, <2>2 DEF SetAside, step
    <3>2. writeFailures' = 0 => HeldIsUnproven'
      <4>1. HeldIsUnproven' <=> Unproven(step, e)
        BY <1>4, <3>1, HandlerIsOfTheCandidate
      <4> QED
        BY <1>3, <1>4, <2>1, <4>1 DEF Unproven
    <3>3. held' # NotHeld
      BY <1>1, <3>1 DEF NotHeld, Step, CHAIN
    <3> QED
      BY <1>1, <1>3, <1>4, <2>1, <3>1, <3>2, <3>3 DEF Untold, Undecided
  <2>3. CASE held # NotHeld
    <3>1. held' = held /\ shown' = shown
      BY <1>8, <2>3 DEF SetAside
    <3> QED
      BY <1>1, <1>3, <1>4, <1>5, <2>1, <2>3, <3>1 DEF Untold, Undecided
  <2> QED
    BY <2>2, <2>3
<1> QED
  BY <1>2, <1>6, <1>7, <1>8

(* The held bookkeeping is put back before the source is run again.         *)
LEMMA NextKeepsUntold == IInv /\ Untold /\ [Next]_vars => Untold'
<1> SUFFICES ASSUME IInv, Untold, [Next]_vars PROVE Untold'
  OBVIOUS
<1>1. UNCHANGED << recorded, observed, held, shown >> =>
        (HeldIsUnproven' <=> HeldIsUnproven)
  BY HandlerIsOfTheCandidate DEF HeldIsUnproven
<1>2. UNCHANGED recorded => Initially' = Initially
  BY DEF Initially
<1>3. CASE ChainExhausted
  BY <1>1, <1>2, <1>3 DEF ChainExhausted, Untold, Undecided
<1>4. CASE RunHeldAgain
  <2>1. held.step \in Step /\ held # NotHeld
    BY <1>4 DEF RunHeldAgain, IInv, TypeOK
  <2>2. PICK e \in Offers(held.step) : \E r \in Runs(held.step, e, book) : Ran(r)
    BY <1>4 DEF RunHeldAgain
  <2>3. PICK r \in Runs(held.step, e, book) : Ran(r)
    BY <2>2
  <2>4. writeFailures' = 0 => writeFailures = 0
    BY <2>1, <2>3, RunWritten DEF Ran, IInv, TypeOK
  <2>5. UNCHANGED << recorded, observed, held, shown >> /\ phase' = "done"
    BY <1>4 DEF RunHeldAgain, Ran, Finish
  <2> QED
    BY <1>1, <2>4, <2>5 DEF Untold, Undecided
<1>5. CASE FallBack
  BY <1>1, <1>2, <1>5 DEF FallBack, Finish, Untold, Undecided
<1>6. CASE UNCHANGED vars
  BY <1>1, <1>2, <1>6 DEF vars, Untold, Undecided
<1> QED
  BY <1>3, <1>4, <1>5, <1>6, TryStepKeepsUntold DEF Next

-----------------------------------------------------------------------------
(* The four variables of SampleVerdict as the chain shows them.             *)
Identity == IF Settled THEN book.hash ELSE Initially
Digested == IF Settled THEN book.acquired ELSE NoContent
Sample == IF Settled THEN file ELSE NoContent
Decided == CASE ~Settled -> "pending"
             [] Settled /\ ~IsBytes(outcome) -> "none"
             [] Settled /\ Reported /\ IsTrustworthy(outcome.recovery) -> "trusted"
             [] OTHER -> "unproven"

(* A run that has not settled shows nothing.                                *)
LEMMA PendingShowsNothing ==
    ~Settled => /\ Identity = Initially /\ Digested = NoContent
                /\ Sample = NoContent /\ Decided = "pending"
  BY DEF Identity, Digested, Sample, Decided

(* Before a run settles, nothing of it is seen.                             *)
LEMMA PendingUnseen ==
    ASSUME ~Settled, ~Settled', UNCHANGED recorded
    PROVE  UNCHANGED Verdict!vars
  BY DEF Verdict!vars

(* The step that settles a run is one decision of the abstract machine.     *)
LEMMA SettlingDecides ==
    ASSUME IInv, ~Settled, UNCHANGED recorded, Settled',
           \/ /\ ~IsBytes(outcome')
              /\ book'.hash = Initially /\ book'.acquired = NoContent /\ file' = NoContent
           \/ /\ IsBytes(outcome')
              /\ outcome'.bytes \in Contents
              /\ book'.acquired = outcome'.bytes
              /\ file' = IF WriteOut THEN outcome'.bytes ELSE NoContent
              /\ IsTrustworthy(outcome'.recovery) => book'.hash = outcome'.bytes
              /\ ~IsTrustworthy(outcome'.recovery) /\ recorded # << >> =>
                   book'.hash = recorded[1]
              /\ recorded = << >> => book'.hash \in {outcome'.bytes, NoContent}
    PROVE  Verdict!Next
<1>1. /\ Identity = Initially /\ Digested = NoContent
      /\ Sample = NoContent /\ Decided = "pending"
  BY PendingShowsNothing
<1>2. Identity' = book'.hash /\ Digested' = book'.acquired /\ Sample' = file'
  BY DEF Identity, Digested, Sample
<1>3. CASE ~IsBytes(outcome')
  <2>1. Decided' = "none"
    BY <1>3 DEF Decided, Reported, Settled
  <2>2. Verdict!GiveUp
    BY <1>1, <1>2, <1>3, <2>1
    DEF Verdict!GiveUp, Identity, Digested, Sample, Decided, Initially
  <2> QED
    BY <2>2 DEF Verdict!Next
<1>4. CASE IsBytes(outcome') /\ IsTrustworthy(outcome'.recovery)
  <2>1. Decided' = "trusted"
    BY <1>4 DEF Decided, Reported, Settled
  <2>2. Verdict!Trust(outcome'.bytes)
    BY <1>1, <1>2, <1>4, <2>1
    DEF Verdict!Trust, Verdict!Obtain, Identity, Digested, Sample, Decided, Initially
  <2> QED
    BY <1>4, <2>2 DEF Verdict!Next
<1>5. CASE IsBytes(outcome') /\ ~IsTrustworthy(outcome'.recovery)
  <2>1. Decided' = "unproven"
    BY <1>5 DEF Decided, Reported, Settled
  <2>2. IF Identity = NoContent THEN Identity' \in {outcome'.bytes, NoContent}
                                ELSE Identity' = Identity
    <3>1. CASE recorded = << >>
      BY <1>1, <1>2, <1>5, <3>1 DEF Initially
    <3>2. CASE recorded # << >>
      <4>1. recorded[1] \in Contents
        BY <3>2 DEF IInv, TypeOK
      <4> QED
        BY <1>1, <1>2, <1>5, <3>2, <4>1 DEF IInv, Given, ContentsAssumption, Initially
    <3> QED
      BY <3>1, <3>2
  <2>3. Verdict!Caveat(outcome'.bytes)
    BY <1>1, <1>2, <1>5, <2>1, <2>2
    DEF Verdict!Caveat, Verdict!Obtain, Identity, Digested, Sample, Decided, Initially
  <2> QED
    BY <1>5, <2>3 DEF Verdict!Next
<1> QED
  BY <1>3, <1>4, <1>5

(* A source of the chain decides only where its bytes are accepted.         *)
LEMMA TryStepImplements ==
    IInv /\ Untold /\ TryStep => Verdict!Next \/ UNCHANGED Verdict!vars
<1> SUFFICES ASSUME IInv, Untold, TryStep
             PROVE  Verdict!Next \/ UNCHANGED Verdict!vars
  OBVIOUS
<1> DEFINE step == CHAIN[next]
<1>1. step \in Step /\ phase = "chain"
  BY DEF TryStep, Step
<1>e. PICK e \in Offers(step) : \E r \in Runs(step, e, book) :
        NoSource(r) \/ SourceFailed(r) \/ Accept(r) \/ SetAside(r, e)
  BY DEF TryStep
<1>2. PICK r \in Runs(step, e, book) :
        NoSource(r) \/ SourceFailed(r) \/ Accept(r) \/ SetAside(r, e)
  BY <1>e
<1>3. ~Settled
  BY <1>1 DEF Settled, Done
<1>4. recorded' = recorded
  BY <1>2 DEF NoSource, SourceFailed, Accept, SetAside, Ran
<1>5. CASE ~Settled'
  BY <1>3, <1>4, <1>5, PendingUnseen
<1>6. CASE Settled'
  <2>1. Accept(r)
    BY <1>1, <1>2, <1>6
    DEF NoSource, SourceFailed, SetAside, Advance, Settled, Done
  <2>2. /\ outcome' = r.result /\ IsBytes(r.result) /\ book' = r.book
        /\ file' = r.file /\ r.failures = 0
        /\ IsTrustworthy(r.result.recovery) \/ recorded = << >>
    BY <1>6, <2>1 DEF Accept, Ran, Finish, Settled
  <2>3. /\ Handle(step, e).as = "Read"
        /\ r.result.bytes = e.bytes
        /\ r.result.recovery = FinalRecovery(step, e, Handle(step, e), WriteOut)
        /\ r.book = RecordAcquired(book, Handle(step, e))
        /\ r.file = IF WriteOut THEN e.bytes ELSE file
        /\ writeFailures = 0
    BY <1>1, <2>2, RunWritten DEF IInv, TypeOK
  <2>4. book.hash = Initially
    BY <1>1, <2>3 DEF Untold, Undecided
  <2>5. e.bytes \in Contents
    BY <1>1, OfferHasBytes DEF IInv
  <2>6. /\ r.book.acquired = e.bytes
        /\ IsTrustworthy(r.result.recovery) => r.book.hash = e.bytes
        /\ ~IsTrustworthy(r.result.recovery) /\ recorded # << >> =>
             r.book.hash = recorded[1]
        /\ recorded = << >> => r.book.hash \in {e.bytes, NoContent}
    BY <1>1, <2>3, <2>4, ReadDecides DEF IInv, TypeOK
  <2>7. file' = IF WriteOut THEN outcome'.bytes ELSE NoContent
    BY <2>2, <2>3 DEF IInv
  <2> QED
    BY <1>3, <1>4, <1>6, <2>2, <2>3, <2>5, <2>6, <2>7, SettlingDecides
<1> QED
  BY <1>5, <1>6

(* On a volume that stayed the same, the held source gives the unproven     *)
(* bytes it gave before.                                                    *)
LEMMA RunHeldAgainImplements ==
    IInv /\ Untold /\ RunHeldAgain => Verdict!Next \/ UNCHANGED Verdict!vars
<1> SUFFICES ASSUME IInv, Untold, RunHeldAgain
             PROVE  Verdict!Next \/ UNCHANGED Verdict!vars
  OBVIOUS
<1>1. held # NotHeld /\ held.step \in Step /\ phase = "again" /\ recorded' = recorded
  BY DEF RunHeldAgain, Ran, IInv, TypeOK
<1>2. ~Settled
  BY <1>1 DEF Settled, Done
<1>3. CASE ~Settled'
  BY <1>1, <1>2, <1>3, PendingUnseen
<1>4. CASE Settled'
  <2>e. PICK e \in Offers(held.step) : \E r \in Runs(held.step, e, book) :
          /\ Ran(r) /\ book' = r.book
          /\ Finish(IF IsBytes(r.result) THEN r.result ELSE Fallback)
          /\ steady' = (e = shown)
    BY DEF RunHeldAgain
  <2>1. PICK r \in Runs(held.step, e, book) :
          /\ Ran(r) /\ book' = r.book
          /\ Finish(IF IsBytes(r.result) THEN r.result ELSE Fallback)
          /\ steady' = (e = shown)
    BY <2>e
  <2>2. e = shown /\ r.failures = 0 /\ file' = r.file
    BY <1>4, <2>1 DEF Ran, Settled
  <2>3. writeFailures = 0 /\ (IsBytes(r.result) <=> Handle(held.step, e).as = "Read")
    BY <1>1, <2>2, RunWritten DEF IInv, TypeOK
  <2>4. /\ recorded # << >>
        /\ Handle(held.step, e).as = "Read"
        /\ book.hash = Initially
    BY <1>1, <2>2, <2>3 DEF Untold, Undecided, HeldIsUnproven, Unproven
  <2>5. /\ IsBytes(r.result)
        /\ r.result.bytes = e.bytes
        /\ r.result.recovery = FinalRecovery(held.step, e, Handle(held.step, e), WriteOut)
        /\ r.book = RecordAcquired(book, Handle(held.step, e))
        /\ r.file = IF WriteOut THEN e.bytes ELSE file
    BY <1>1, <2>2, <2>3, <2>4, RunWritten DEF IInv, TypeOK
  <2>6. outcome' = r.result
    BY <2>1, <2>5 DEF Finish
  <2>7. e.bytes \in Contents
    BY <1>1, OfferHasBytes DEF IInv
  <2>8. /\ r.book.acquired = e.bytes
        /\ IsTrustworthy(r.result.recovery) => r.book.hash = e.bytes
        /\ ~IsTrustworthy(r.result.recovery) /\ recorded # << >> =>
             r.book.hash = recorded[1]
        /\ recorded = << >> => r.book.hash \in {e.bytes, NoContent}
    BY <1>1, <2>4, <2>5, ReadDecides DEF IInv, TypeOK
  <2>9. file' = IF WriteOut THEN outcome'.bytes ELSE NoContent
    BY <2>2, <2>5, <2>6 DEF IInv
  <2> QED
    BY <1>1, <1>2, <1>4, <2>1, <2>5, <2>6, <2>7, <2>8, <2>9, SettlingDecides
<1> QED
  BY <1>3, <1>4

(* A chain without bytes gives up, and leaves nothing behind.               *)
LEMMA FallBackImplements ==
    IInv /\ Untold /\ FallBack => Verdict!Next \/ UNCHANGED Verdict!vars
<1> SUFFICES ASSUME IInv, Untold, FallBack
             PROVE  Verdict!Next \/ UNCHANGED Verdict!vars
  OBVIOUS
<1>1. /\ phase = "again" /\ held = NotHeld /\ outcome' = Fallback
      /\ UNCHANGED << recorded, book, file, steady, writeFailures >>
  BY DEF FallBack, Finish
<1>2. ~Settled /\ ~IsBytes(outcome')
  BY <1>1 DEF Settled, Done, Fallback, IsBytes
<1>3. CASE ~Settled'
  BY <1>1, <1>2, <1>3, PendingUnseen
<1>4. CASE Settled'
  <2>1. book'.hash = Initially /\ book'.acquired = NoContent /\ file' = NoContent
    BY <1>1, <1>4 DEF Settled, Untold, Undecided
  <2> QED
    BY <1>1, <1>2, <1>4, <2>1, SettlingDecides
<1> QED
  BY <1>3, <1>4

(* Every step of the chain is a decision of SampleVerdict or is not seen.   *)
LEMMA NextImplements ==
    IInv /\ Untold /\ [Next]_vars => [Verdict!Next]_Verdict!vars
<1> SUFFICES ASSUME IInv, Untold, [Next]_vars
             PROVE  Verdict!Next \/ UNCHANGED Verdict!vars
  OBVIOUS
<1>1. CASE ChainExhausted
  <2>1. ~Settled /\ ~Settled' /\ recorded' = recorded
    BY <1>1 DEF ChainExhausted, Settled, Done
  <2> QED
    BY <2>1, PendingUnseen
<1>2. CASE UNCHANGED vars
  BY <1>2 DEF vars, Verdict!vars, Settled, Done, Reported, IsBytes, IsTrustworthy
<1> QED
  BY <1>1, <1>2, TryStepImplements, RunHeldAgainImplements, FallBackImplements DEF Next

(* On a volume that is the same when a source is run again, and a disk that *)
(* takes every write, the loop with its trials, rollbacks and second run is *)
(* ONE decision about the candidate, as SampleVerdict states it.            *)
THEOREM ChainIsOneDecision ==
    ASSUME ContentsAssumption, ModeAssumption, BoundAssumption PROVE Spec => OneDecision
<1>g. Given
  BY DEF Given
<1>1. Init => Untold
  BY DEF Init, Untold, Undecided, Initially
<1>2. Init => Verdict!Init
  <2> SUFFICES ASSUME Init PROVE Verdict!Init
    OBVIOUS
  <2>1. ~Settled
    BY DEF Init, Settled, Done
  <2>2. Initially \in Contents \cup {NoContent}
    <3>1. recorded \in Seq(Contents)
      BY <1>g, InitIInv DEF IInv, TypeOK
    <3> QED
      BY <3>1 DEF Initially
  <2> QED
    BY <2>1, <2>2 DEF Verdict!Init, Initially
<1> QED
  BY <1>g, <1>1, <1>2, IInvHolds, NextKeepsUntold, NextImplements, PTL
  DEF Spec, OneDecision, Verdict!Spec
=============================================================================
