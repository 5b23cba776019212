-------------------------- MODULE MCRecoveryProofs --------------------------
(***************************************************************************)
(* For any number of candidates and any caps: the types of SamplePass, the  *)
(* bound on what its second loop may overrun, that recovered bytes are      *)
(* never replaced, and that the bytes a report says were saved are on disk. *)
(* Then what AcquireChainProofs says of any chain of sources, of the one    *)
(* that MCRecovery runs beside these, and what DeepScanProofs says of any   *)
(* search, of the one it runs beside both: its targets and images are ones  *)
(* DeepScan is about, and a step of another part leaves the search where it *)
(* is. Last, for any volume and any store of a shadow copy: what is read is *)
(* the snapshot's, or counted as doubtful.                                  *)
(***************************************************************************)
EXTENDS MCRecovery, Sequences, FiniteSetTheorems, WellFoundedInduction,
        TLAPS

(* A loop writes only to candidates it has not been at, and the carve only  *)
(* to targets, none of which has bytes.                                     *)
Untouched ==
    /\ phase = "begin" => \A c \in Candidates : acquisition[c] = NotAttempted
    /\ phase = "begin" => at = 1 /\ done = {}
    /\ phase = "ranked" =>
         \A c \in Candidates : c \notin done => acquisition[c] = NotAttempted
    /\ phase = "ranked" => \A c \in done : c < at
    /\ phase = "unranked" =>
         \A c \in Candidates : c >= at /\ c \notin done => acquisition[c] = NotAttempted
    /\ phase = "adopt" => \A c \in targets : ~HasBytes(acquisition[c])

(* Each candidate of the second loop is counted at most once.               *)
Counted ==
    /\ phase \in {"begin", "ranked"} => unranked = 0 /\ declined = 0
    /\ phase \notin {"begin", "ranked"} => unranked + declined <= at - 1

IInv == TypeOK /\ Untouched /\ Counted /\ OverrunIsOneSample

-----------------------------------------------------------------------------
(* Whatever acquire() returns, it is the outcome of that one candidate, and *)
(* the files stay well formed.                                              *)
LEMMA AcquireTyped ==
    ASSUME TypeOK, NEW c \in Candidates, NEW dir \in Dirs, Acquire(c, dir)
    PROVE  /\ acquisition' \in [Candidates -> Outcomes]
           /\ saved' \subseteq [dir : Dirs, of : Candidates, size : Sizes]
           /\ \A d \in Candidates : d # c => acquisition'[d] = acquisition[d]
           /\ HasBytes(acquisition'[c]) => acquisition'[c].size \in Sizes
<1>1. \A size \in Sizes :
        Put(dir, c, size) \subseteq [dir : Dirs, of : Candidates, size : Sizes]
  BY DEF Put, TypeOK
<1>2. saved' \subseteq [dir : Dirs, of : Candidates, size : Sizes]
  BY <1>1 DEF Acquire, TypeOK
<1>3. PICK a \in Outcomes : acquisition' = [acquisition EXCEPT ![c] = a]
  BY DEF Acquire, Outcomes
<1>4. HasBytes(a) => a.size \in Sizes
  BY DEF Outcomes, HasBytes, NotAttempted, Failed, HashOnly, Bytes
<1> QED
  BY <1>2, <1>3, <1>4 DEF TypeOK

(* The loops start with nothing attempted, counted or spent.                *)
LEMMA InitIInv == Init => IInv
<1> SUFFICES ASSUME Init PROVE IInv
  OBVIOUS
<1> USE CountAssumption, ByteAssumption
<1>1. TypeOK
  <2>1. acquisition \in [Candidates -> Outcomes]
    BY DEF Init, Outcomes
  <2>2. /\ phase \in {"begin", "ranked", "unranked", "carve", "adopt", "done"}
        /\ unranked_dir \in BOOLEAN
        /\ done \subseteq Candidates /\ targets \subseteq Candidates
        /\ matching \subseteq Candidates /\ searchable \subseteq Candidates
        /\ above \in 0..N /\ hits = {} /\ saved = {}
    BY DEF Init
  <2>3. at \in 1..(N + 1) /\ unranked \in 0..N /\ declined \in 0..N /\ spent \in Nat
    BY DEF Init
  <2> QED
    BY <2>1, <2>2, <2>3 DEF TypeOK
<1>2. Untouched /\ Counted
  BY DEF Init, Untouched, Counted
<1>3. OverrunIsOneSample
  BY DEF Init, OverrunIsOneSample
<1> QED
  BY <1>1, <1>2, <1>3 DEF IInv

(* One attempt of the ranked loop.                                          *)
LEMMA RankedKeepsIInv == IInv /\ AcquireRanked => IInv'
<1> SUFFICES ASSUME IInv, AcquireRanked PROVE IInv'
  OBVIOUS
<1> USE CountAssumption DEF IInv, AcquireRanked
<1>1. at \in Candidates
  BY DEF TypeOK, Candidates, Reached
<1>2. /\ acquisition' \in [Candidates -> Outcomes]
      /\ saved' \subseteq [dir : Dirs, of : Candidates, size : Sizes]
      /\ \A d \in Candidates : d # at => acquisition'[d] = acquisition[d]
  BY <1>1, AcquireTyped DEF Dirs
<1>3. TypeOK'
  BY <1>1, <1>2 DEF TypeOK, Candidates
<1>4. Untouched'
  BY <1>1, <1>2 DEF Untouched, TypeOK, Candidates
<1>5. Counted' /\ OverrunIsOneSample'
  BY DEF Counted, OverrunIsOneSample
<1> QED
  BY <1>3, <1>4, <1>5

(* One attempt of the second loop: it is made below the caps.               *)
LEMMA UnrankedKeepsIInv == IInv /\ AcquireUnranked => IInv'
<1> SUFFICES ASSUME IInv, AcquireUnranked PROVE IInv'
  OBVIOUS
<1> USE CountAssumption, ByteAssumption DEF IInv, AcquireUnranked
<1>1. at \in Candidates
  BY DEF TypeOK, Candidates
<1>2. /\ acquisition' \in [Candidates -> Outcomes]
      /\ saved' \subseteq [dir : Dirs, of : Candidates, size : Sizes]
      /\ \A d \in Candidates : d # at => acquisition'[d] = acquisition[d]
      /\ HasBytes(acquisition'[at]) => acquisition'[at].size \in Sizes
  BY <1>1, AcquireTyped DEF Dirs
<1>3. \E size \in Sizes : spent' = spent + size
  BY <1>2 DEF Sizes
<1>4. spent' \in Nat /\ spent' < MaxUnrankedBytes + MaxSampleBytes
  BY <1>3 DEF Sizes, Capped, TypeOK
<1>5. Counted' /\ unranked' \in 0..N
  BY <1>1 DEF Counted, TypeOK, Candidates
<1>6. OverrunIsOneSample'
  BY <1>4 DEF OverrunIsOneSample, Capped, TypeOK
<1>7. TypeOK'
  BY <1>1, <1>2, <1>4, <1>5 DEF TypeOK, Candidates
<1>8. Untouched'
  BY <1>1, <1>2 DEF Untouched, TypeOK, Candidates
<1> QED
  BY <1>5, <1>6, <1>7, <1>8

(* The carve: its targets have no bytes, and a hit is a target's.           *)
LEMMA CarveKeepsIInv ==
    IInv /\ (Scan \/ Adopt \/ DropHit \/ EndAdopt \/ NoCarve) => IInv'
<1> SUFFICES ASSUME IInv, Scan \/ Adopt \/ DropHit \/ EndAdopt \/ NoCarve PROVE IInv'
  OBVIOUS
<1> USE DEF IInv
<1>1. CASE Scan
  <2>1. targets' \subseteq Candidates /\ \A c \in targets' : ~HasBytes(acquisition[c])
    BY <1>1 DEF Scan, Targets, WorthSearchingFor
  <2>2. hits' \subseteq [of : Candidates, size : Sizes]
    <3>1. PICK hit \in SUBSET Targets : \E size \in [hit -> Sizes] :
            hits' = { [of |-> c, size |-> size[c]] : c \in hit }
      BY <1>1 DEF Scan
    <3>2. PICK size \in [hit -> Sizes] :
            hits' = { [of |-> c, size |-> size[c]] : c \in hit }
      BY <3>1
    <3>3. \A c \in hit : c \in Candidates /\ size[c] \in Sizes
      BY <3>1, <3>2 DEF Targets
    <3> QED
      BY <3>2, <3>3
  <2>3. TypeOK'
    BY <1>1, <2>1, <2>2 DEF Scan, TypeOK
  <2>4. Untouched'
    BY <1>1, <2>1 DEF Scan, Untouched
  <2>5. Counted' /\ OverrunIsOneSample'
    BY <1>1 DEF Scan, Counted, OverrunIsOneSample
  <2> QED
    BY <2>3, <2>4, <2>5
<1>2. CASE Adopt
  <2>1. PICK hit \in NextHit :
          /\ targets' = targets \ {hit.of}
          /\ \/ /\ acquisition' =
                     [acquisition EXCEPT ![hit.of] = Bytes(CarveDir(hit.of), hit.size)]
                /\ saved' = IF WriteOut THEN Put(CarveDir(hit.of), hit.of, hit.size)
                            ELSE saved
             \/ /\ acquisition' = [acquisition EXCEPT ![hit.of] = Failed]
                /\ saved' \in {saved} \cup
                     { Put(CarveDir(hit.of), hit.of, size) : size \in 0..hit.size }
    BY <1>2 DEF Adopt
  <2>2. hit.of \in targets /\ hit.of \in Candidates /\ hit.size \in Sizes
    BY DEF NextHit, TypeOK
  <2>3. CarveDir(hit.of) \in Dirs
    BY DEF CarveDir, Dirs
  <2>4. \A size \in Sizes : Put(CarveDir(hit.of), hit.of, size)
                              \subseteq [dir : Dirs, of : Candidates, size : Sizes]
    BY <2>2, <2>3 DEF Put, TypeOK
  <2>5. 0..hit.size \subseteq Sizes
    BY <2>2, ByteAssumption DEF Sizes
  <2>6. saved' \subseteq [dir : Dirs, of : Candidates, size : Sizes]
    BY <2>1, <2>2, <2>4, <2>5 DEF TypeOK
  <2>7. acquisition' \in [Candidates -> Outcomes]
    BY <2>1, <2>2, <2>3 DEF TypeOK, Outcomes
  <2>8. \A c \in Candidates : c # hit.of => acquisition'[c] = acquisition[c]
    BY <2>1 DEF TypeOK
  <2>9. TypeOK'
    BY <1>2, <2>1, <2>6, <2>7 DEF Adopt, TypeOK
  <2>10. Untouched'
    BY <1>2, <2>1, <2>8 DEF Adopt, Untouched, TypeOK
  <2>11. Counted' /\ OverrunIsOneSample'
    BY <1>2 DEF Adopt, Counted, OverrunIsOneSample
  <2> QED
    BY <2>9, <2>10, <2>11
<1>3. CASE DropHit
  BY <1>3 DEF DropHit, TypeOK, Untouched, Counted, OverrunIsOneSample
<1>4. CASE EndAdopt
  BY <1>4 DEF EndAdopt, TypeOK, Untouched, Counted, OverrunIsOneSample
<1>5. CASE NoCarve
  BY <1>5 DEF NoCarve, TypeOK, Untouched, Counted, OverrunIsOneSample
<1> QED
  BY <1>1, <1>2, <1>3, <1>4, <1>5

(* Every other step only moves the loop on.                                 *)
LEMMA NextKeepsIInv == IInv /\ [Next]_vars => IInv'
<1> SUFFICES ASSUME IInv, [Next]_vars PROVE IInv'
  OBVIOUS
<1> USE CountAssumption DEF IInv
<1>1. CASE NoSampleDirectory
  BY <1>1 DEF NoSampleDirectory, TypeOK, Untouched, Counted, OverrunIsOneSample
<1>2. CASE Begin
  BY <1>2 DEF Begin, TypeOK, Untouched, Counted, OverrunIsOneSample
<1>3. CASE AcquireRanked
  BY <1>3, RankedKeepsIInv
<1>4. CASE EndRanked
  BY <1>4 DEF EndRanked, TypeOK, Untouched, Counted, OverrunIsOneSample
<1>5. CASE Pass
  <2>1. at' \in 1..(N + 1) /\ at' = at + 1 /\ at \in 1..N
    BY <1>5 DEF Pass, TypeOK
  <2>2. TypeOK'
    BY <1>5, <2>1 DEF Pass, TypeOK
  <2>3. Untouched'
    BY <1>5, <2>1 DEF Pass, Untouched, TypeOK, Candidates
  <2>4. Counted' /\ OverrunIsOneSample'
    BY <1>5, <2>1 DEF Pass, Counted, TypeOK, OverrunIsOneSample
  <2> QED
    BY <2>2, <2>3, <2>4
<1>6. CASE Decline
  <2>1. at' \in 1..(N + 1) /\ at' = at + 1 /\ at \in 1..N
    BY <1>6 DEF Decline, TypeOK
  <2>2. Counted' /\ OverrunIsOneSample' /\ declined' \in 0..N
    BY <1>6, <2>1 DEF Decline, Counted, TypeOK, OverrunIsOneSample
  <2>3. TypeOK'
    BY <1>6, <2>1, <2>2 DEF Decline, TypeOK
  <2>4. Untouched'
    BY <1>6, <2>1 DEF Decline, Untouched, TypeOK, Candidates
  <2> QED
    BY <2>2, <2>3, <2>4
<1>7. CASE NoUnrankedDirectory
  BY <1>7 DEF NoUnrankedDirectory, TypeOK, Untouched, Counted, OverrunIsOneSample
<1>8. CASE AcquireUnranked
  BY <1>8, UnrankedKeepsIInv
<1>9. CASE EndUnranked
  BY <1>9 DEF EndUnranked, TypeOK, Untouched, Counted, OverrunIsOneSample
<1>10. CASE Scan \/ Adopt \/ DropHit \/ EndAdopt \/ NoCarve
  BY <1>10, CarveKeepsIInv
<1>11. CASE UNCHANGED vars
  BY <1>11 DEF vars, TypeOK, Untouched, Counted, OverrunIsOneSample, Candidates
<1> QED
  BY <1>1, <1>2, <1>3, <1>4, <1>5, <1>6, <1>7, <1>8, <1>9, <1>10, <1>11 DEF Next

(* The strengthening is an invariant of every behaviour.                    *)
LEMMA IInvHolds == Spec => []IInv
  BY InitIInv, NextKeepsIInv, PTL DEF Spec

(* The counters, outcomes and files of the loops have their types.          *)
THEOREM TypeCorrect == Spec => []TypeOK
  BY IInvHolds, PTL DEF IInv

(* However many candidates match and whatever their sizes, the second loop  *)
(* stays within its count and overruns its bytes by less than one sample.   *)
THEOREM OverrunBounded == Spec => []OverrunIsOneSample
  BY IInvHolds, PTL DEF IInv

(* No step of any loop touches an outcome that has bytes.                   *)
LEMMA StepKeepsBytes ==
    IInv /\ [Next]_vars =>
        [\A c \in Candidates : HasBytes(acquisition[c]) =>
            acquisition'[c] = acquisition[c]]_vars
<1> SUFFICES ASSUME IInv, Next, NEW c \in Candidates, HasBytes(acquisition[c])
             PROVE  acquisition'[c] = acquisition[c]
  OBVIOUS
<1> USE DEF IInv
<1>0. acquisition[c] # NotAttempted
  BY DEF HasBytes, NotAttempted
<1>1. CASE AcquireRanked
  <2>1. at \in Candidates /\ at # c
    BY <1>0, <1>1, CountAssumption DEF AcquireRanked, Untouched, TypeOK, Reached,
       Candidates
  <2> QED
    BY <1>1, <2>1, AcquireTyped DEF AcquireRanked, Dirs
<1>2. CASE AcquireUnranked
  <2>1. at \in Candidates /\ at # c
    BY <1>0, <1>2, CountAssumption
    DEF AcquireUnranked, Untouched, TypeOK, Wanted, Candidates
  <2> QED
    BY <1>2, <2>1, AcquireTyped DEF AcquireUnranked, Dirs
<1>3. CASE Adopt
  <2>1. PICK hit \in NextHit : \E a : acquisition' = [acquisition EXCEPT ![hit.of] = a]
    BY <1>3 DEF Adopt
  <2>2. hit.of # c
    BY <1>3 DEF Adopt, NextHit, Untouched
  <2> QED
    BY <2>1, <2>2 DEF TypeOK
<1>4. CASE ~(AcquireRanked \/ AcquireUnranked \/ Adopt)
  BY <1>4 DEF Next, NoSampleDirectory, Begin, EndRanked, Pass, Decline,
              NoUnrankedDirectory, EndUnranked, NoCarve, Scan, DropHit, EndAdopt
<1> QED
  BY <1>1, <1>2, <1>3, <1>4

(* Bytes once recovered are never replaced.                                 *)
THEOREM BytesKept == Spec => RecoveredBytesAreKept
  BY IInvHolds, StepKeepsBytes, PTL DEF Spec, RecoveredBytesAreKept
-----------------------------------------------------------------------------
(* A file of one candidate is put without touching a file of another.       *)
LEMMA PutTouchesOne ==
    ASSUME NEW dir, NEW c, NEW size
    PROVE  /\ [dir |-> dir, of |-> c, size |-> size] \in Put(dir, c, size)
           /\ \A f \in saved : f.of # c => f \in Put(dir, c, size)
  BY DEF Put

(* One candidate's outcome and files are written: the others' are as they   *)
(* were, and an outcome with saved bytes has the file it names.             *)
WrittenFor(c) ==
    /\ \A d \in Candidates : d # c => acquisition'[d] = acquisition[d]
    /\ \A f \in saved : f.of # c => f \in saved'
    /\ acquisition'[c].kind = "Bytes" =>
         [dir |-> acquisition'[c].dir, of |-> c, size |-> acquisition'[c].size] \in saved'

(* What a report says was saved stays saved while another candidate is      *)
(* written, and is saved when its own is.                                   *)
LEMMA WritingKeepsSaved ==
    ASSUME TypeOK, SavedBytesAreOnDisk, NEW c \in Candidates, WrittenFor(c)
    PROVE  SavedBytesAreOnDisk'
<1> SUFFICES ASSUME NEW d \in Candidates, acquisition'[d].kind = "Bytes"
             PROVE  [dir |-> acquisition'[d].dir, of |-> d, size |-> acquisition'[d].size]
                      \in saved'
  BY DEF SavedBytesAreOnDisk
<1>1. CASE d = c
  BY <1>1 DEF WrittenFor
<1>2. CASE d # c
  <2>1. acquisition'[d] = acquisition[d]
    BY <1>2 DEF WrittenFor
  <2> DEFINE file == [dir |-> acquisition[d].dir, of |-> d, size |-> acquisition[d].size]
  <2>2. file \in saved
    BY <2>1 DEF SavedBytesAreOnDisk
  <2>3. file.of # c
    BY <1>2
  <2> QED
    BY <2>1, <2>2, <2>3 DEF WrittenFor
<1> QED
  BY <1>1, <1>2

(* The chain's outcome for a candidate, with whatever file it left behind.  *)
LEMMA AcquireWritesOne ==
    ASSUME TypeOK, NEW c \in Candidates, NEW dir \in Dirs, Acquire(c, dir)
    PROVE  WrittenFor(c)
<1>1. CASE \E size \in Sizes :
             /\ acquisition' = [acquisition EXCEPT ![c] = Bytes(dir, size)]
             /\ saved' = IF WriteOut THEN Put(dir, c, size) ELSE saved
  <2>1. PICK size \in Sizes :
             /\ acquisition' = [acquisition EXCEPT ![c] = Bytes(dir, size)]
             /\ saved' = IF WriteOut THEN Put(dir, c, size) ELSE saved
    BY <1>1
  <2>2. acquisition'[c] = Bytes(dir, size)
    BY <2>1 DEF TypeOK
  <2>3. \A f \in saved : f.of # c => f \in saved'
    BY <2>1, PutTouchesOne
  <2>4. acquisition'[c].kind = "Bytes" =>
          [dir |-> acquisition'[c].dir, of |-> c, size |-> acquisition'[c].size] \in saved'
    BY <2>1, <2>2, PutTouchesOne DEF Bytes
  <2> QED
    BY <1>1, <2>3, <2>4, AcquireTyped DEF WrittenFor
<1>2. CASE /\ acquisition' \in { [acquisition EXCEPT ![c] = a] : a \in {Failed, HashOnly} }
           /\ saved' \in {saved} \cup
                IF WriteOut THEN { Put(dir, c, size) : size \in Sizes } ELSE {}
  <2>1. acquisition'[c].kind # "Bytes"
    BY <1>2 DEF TypeOK, Failed, HashOnly
  <2>2. saved' = saved \/ \E size \in Sizes : saved' = Put(dir, c, size)
    BY <1>2
  <2>3. \A f \in saved : f.of # c => f \in saved'
    BY <2>2, PutTouchesOne
  <2> QED
    BY <1>2, <2>1, <2>3, AcquireTyped DEF WrittenFor
<1> QED
  BY <1>1, <1>2 DEF Acquire

(* A carved image is adopted for one candidate, or failed to be.            *)
LEMMA AdoptWritesOne ==
    ASSUME TypeOK, Adopt
    PROVE  \E c \in Candidates : WrittenFor(c)
<1>1. PICK hit \in NextHit :
        \/ /\ acquisition' =
                [acquisition EXCEPT ![hit.of] = Bytes(CarveDir(hit.of), hit.size)]
           /\ saved' = IF WriteOut THEN Put(CarveDir(hit.of), hit.of, hit.size)
                       ELSE saved
        \/ /\ acquisition' = [acquisition EXCEPT ![hit.of] = Failed]
           /\ saved' \in {saved} \cup
                { Put(CarveDir(hit.of), hit.of, size) : size \in 0..hit.size }
  BY DEF Adopt
<1>2. hit.of \in Candidates
  BY DEF NextHit, TypeOK
<1>3. \A d \in Candidates : d # hit.of => acquisition'[d] = acquisition[d]
  BY <1>1 DEF TypeOK
<1>4. saved' = saved \/ \E size : saved' = Put(CarveDir(hit.of), hit.of, size)
  BY <1>1
<1>5. \A f \in saved : f.of # hit.of => f \in saved'
  BY <1>4, PutTouchesOne
<1>6. acquisition'[hit.of].kind = "Bytes" =>
        [dir |-> acquisition'[hit.of].dir, of |-> hit.of,
         size |-> acquisition'[hit.of].size] \in saved'
  <2>1. CASE /\ acquisition' =
                  [acquisition EXCEPT ![hit.of] = Bytes(CarveDir(hit.of), hit.size)]
             /\ saved' = IF WriteOut THEN Put(CarveDir(hit.of), hit.of, hit.size)
                         ELSE saved
    <3>1. acquisition'[hit.of] = Bytes(CarveDir(hit.of), hit.size)
      BY <1>2, <2>1 DEF TypeOK
    <3> QED
      BY <2>1, <3>1, PutTouchesOne DEF Bytes
  <2>2. CASE acquisition' = [acquisition EXCEPT ![hit.of] = Failed]
    BY <1>2, <2>2 DEF TypeOK, Failed
  <2> QED
    BY <1>1, <2>1, <2>2
<1> QED
  BY <1>2, <1>3, <1>5, <1>6 DEF WrittenFor

(* Every other step leaves outcomes and files alone.                        *)
LEMMA NextKeepsSaved ==
    IInv /\ SavedBytesAreOnDisk /\ [Next]_vars => SavedBytesAreOnDisk'
<1> SUFFICES ASSUME IInv, SavedBytesAreOnDisk, [Next]_vars PROVE SavedBytesAreOnDisk'
  OBVIOUS
<1> USE DEF IInv
<1>1. CASE AcquireRanked
  <2>1. at \in Candidates
    BY <1>1, CountAssumption DEF AcquireRanked, TypeOK, Reached, Candidates
  <2> QED
    BY <1>1, <2>1, AcquireWritesOne, WritingKeepsSaved DEF AcquireRanked, Dirs
<1>2. CASE AcquireUnranked
  <2>1. at \in Candidates
    BY <1>2, CountAssumption DEF AcquireUnranked, TypeOK, Candidates
  <2> QED
    BY <1>2, <2>1, AcquireWritesOne, WritingKeepsSaved DEF AcquireUnranked, Dirs
<1>3. CASE Adopt
  BY <1>3, AdoptWritesOne, WritingKeepsSaved
<1>4. CASE UNCHANGED << acquisition, saved >>
  BY <1>4 DEF SavedBytesAreOnDisk
<1>5. UNCHANGED << acquisition, saved >> \/ AcquireRanked \/ AcquireUnranked \/ Adopt
  BY DEF Next, NoSampleDirectory, Begin, EndRanked, Pass, Decline, NoUnrankedDirectory,
         EndUnranked, NoCarve, Scan, DropHit, EndAdopt, vars
<1> QED
  BY <1>1, <1>2, <1>3, <1>4, <1>5

(* Whatever order the loops and the carve take the candidates in, and       *)
(* whatever failed attempts leave behind, the bytes a report says were      *)
(* saved are in the file it names at their length.                          *)
THEOREM SavedBytesOnDisk == Spec => []SavedBytesAreOnDisk
<1>1. Init => SavedBytesAreOnDisk
  BY DEF Init, SavedBytesAreOnDisk, NotAttempted
<1> QED
  BY <1>1, IInvHolds, NextKeepsSaved, PTL DEF Spec

-----------------------------------------------------------------------------
(* The sources of one sample.                                               *)
AnyChain == INSTANCE AcquireChainProofs WITH
    Contents <- MCContents, phase <- chain_phase, next <- source, file <- sample

(* Chain and AnyChain are instances of one module.                          *)
LEMMA ChainIsGiven ==
    AnyChain!ContentsAssumption /\ AnyChain!ModeAssumption /\ AnyChain!BoundAssumption
  BY ChainAssumption
  DEF Chain!ContentsAssumption, Chain!ModeAssumption, Chain!BoundAssumption,
      AnyChain!ContentsAssumption, AnyChain!ModeAssumption, AnyChain!BoundAssumption

LEMMA SameChainInit == Chain!Init <=> AnyChain!Init
  BY DEF Chain!Init, Chain!NotHeld, Chain!NotShown, Chain!NotAttempted, Chain!NoReason,
         AnyChain!Init, AnyChain!NotHeld, AnyChain!NotShown, AnyChain!NotAttempted,
         AnyChain!NoReason

LEMMA SameChainNext == Chain!Next <=> AnyChain!Next
  BY DEF
      Chain!Next, Chain!TryStep, Chain!ChainExhausted, Chain!RunHeldAgain,
      Chain!FallBack, Chain!Offers, Chain!Evidence, Chain!Surely, Chain!Plain,
      Chain!Clusters, Chain!Allocation, Chain!Occupied, Chain!AnyClusters,
      Chain!Unread, Chain!AbsentOrRefused, Chain!CHAIN, Chain!Runs, Chain!RunStep,
      Chain!Writes, Chain!IsBytes, Chain!IsTrustworthy, Chain!RecordAcquired,
      Chain!FinalRecovery, Chain!Handle, Chain!HasPath, Chain!FileExists,
      Chain!DeletedRecord, Chain!None, Chain!Failed, Chain!Read, Chain!CompareOr,
      Chain!CarveBasis, Chain!Unless, Chain!OnlyIfConfirmed, Chain!ByUnlinkedRecord,
      Chain!FromVolume, Chain!FromQuarantine, Chain!FromRecycleBin,
      Chain!FromShadowCopy, Chain!CarveFromRecord, Chain!FromCarvedClusters,
      Chain!FromIndexSlack, Chain!FromOrphanedRecord, Chain!FromGhost,
      Chain!FromRecordSlack, Chain!FromLogFile, Chain!Ran, Chain!Advance,
      Chain!Finish, Chain!NoSource, Chain!SourceFailed, Chain!Accept,
      Chain!SetAside, Chain!NotHeld, Chain!NoReason, Chain!Fallback,
      AnyChain!Next, AnyChain!TryStep, AnyChain!ChainExhausted,
      AnyChain!RunHeldAgain, AnyChain!FallBack, AnyChain!Offers, AnyChain!Evidence,
      AnyChain!Surely, AnyChain!Plain, AnyChain!Clusters, AnyChain!Allocation,
      AnyChain!Occupied, AnyChain!AnyClusters, AnyChain!Unread,
      AnyChain!AbsentOrRefused, AnyChain!CHAIN, AnyChain!Runs, AnyChain!RunStep,
      AnyChain!Writes, AnyChain!IsBytes, AnyChain!IsTrustworthy,
      AnyChain!RecordAcquired, AnyChain!FinalRecovery, AnyChain!Handle,
      AnyChain!HasPath, AnyChain!FileExists, AnyChain!DeletedRecord, AnyChain!None,
      AnyChain!Failed, AnyChain!Read, AnyChain!CompareOr, AnyChain!CarveBasis,
      AnyChain!Unless, AnyChain!OnlyIfConfirmed, AnyChain!ByUnlinkedRecord,
      AnyChain!FromVolume, AnyChain!FromQuarantine, AnyChain!FromRecycleBin,
      AnyChain!FromShadowCopy, AnyChain!CarveFromRecord,
      AnyChain!FromCarvedClusters, AnyChain!FromIndexSlack,
      AnyChain!FromOrphanedRecord, AnyChain!FromGhost, AnyChain!FromRecordSlack,
      AnyChain!FromLogFile, AnyChain!Ran, AnyChain!Advance, AnyChain!Finish,
      AnyChain!NoSource, AnyChain!SourceFailed, AnyChain!Accept, AnyChain!SetAside,
      AnyChain!NotHeld, AnyChain!NoReason, AnyChain!Fallback

(* Whatever part a behaviour is of, its chain is one of AcquireChain's.     *)
LEMMA ChainIsAny == MCSpec => AnyChain!Spec
<1>1. MCInit => AnyChain!Init
  BY SameChainInit DEF MCInit
<1>2. [MCNext]_mcvars => [AnyChain!Next]_(AnyChain!vars)
  <2> SUFFICES ASSUME [MCNext]_mcvars PROVE [AnyChain!Next]_(AnyChain!vars)
    OBVIOUS
  <2>1. Chain!Next \/ UNCHANGED chain
    BY DEF MCNext, mcvars
  <2> QED
    BY Zenon, <2>1, SameChainNext DEF chain, AnyChain!vars
<1> QED
  BY <1>1, <1>2, PTL DEF MCSpec, AnyChain!Spec

(* The candidate, the loop over its sources and its file stay well-typed.   *)
THEOREM ChainTypeCorrect == MCSpec => []ChainTypeOK
<1>1. AnyChain!Spec => []AnyChain!TypeOK
  BY ChainIsGiven, AnyChain!TypeCorrect
<1>2. AnyChain!TypeOK => ChainTypeOK
  BY DEF ChainTypeOK, Chain!TypeOK, Chain!Bookkeeping, Chain!Digest, Chain!NotHeld, Chain!Step,
         Chain!CHAIN, Chain!NoReason,
         AnyChain!TypeOK, AnyChain!Bookkeeping, AnyChain!Digest, AnyChain!NotHeld,
         AnyChain!Step, AnyChain!CHAIN, AnyChain!NoReason
<1> QED
  BY <1>1, <1>2, ChainIsAny, PTL

(* The bytes a report names are those on disk and those hashed, whatever    *)
(* else was tried and wrote the same file on the way.                       *)
THEOREM SavedFileCorrect == MCSpec => []SavedFileIsTheReportedOne
<1>1. AnyChain!Spec => []AnyChain!SavedFileIsTheReportedOne
  BY ChainIsGiven, AnyChain!SavedFileCorrect
<1>2. AnyChain!SavedFileIsTheReportedOne => SavedFileIsTheReportedOne
  BY DEF SavedFileIsTheReportedOne, Chain!SavedFileIsTheReportedOne, Chain!Reported, Chain!Done,
         Chain!IsBytes, AnyChain!SavedFileIsTheReportedOne, AnyChain!Reported, AnyChain!Done,
         AnyChain!IsBytes
<1> QED
  BY <1>1, <1>2, ChainIsAny, PTL

(* A recorded identity gives way only to bytes read trustworthily.          *)
THEOREM IdentityCorrect == MCSpec => []IdentityIsVouchedFor
<1>1. AnyChain!Spec => []AnyChain!IdentityIsVouchedFor
  BY ChainIsGiven, AnyChain!IdentityCorrect
<1>2. AnyChain!IdentityIsVouchedFor => IdentityIsVouchedFor
  BY DEF IdentityIsVouchedFor, Chain!IdentityIsVouchedFor, AnyChain!IdentityIsVouchedFor
<1> QED
  BY <1>1, <1>2, ChainIsAny, PTL

(* Of several unprovable results the first is the one reported.             *)
THEOREM EarliestReported == MCSpec => []EarliestUnprovableIsReported
<1>1. AnyChain!Spec => []AnyChain!EarliestUnprovableIsReported
  BY ChainIsGiven, AnyChain!EarliestReported
<1>2. AnyChain!EarliestUnprovableIsReported => EarliestUnprovableIsReported
  BY DEF EarliestUnprovableIsReported, Chain!EarliestUnprovableIsReported, Chain!Reported,
         Chain!Done, Chain!IsBytes, Chain!IsTrustworthy, Chain!CHAIN,
         AnyChain!EarliestUnprovableIsReported, AnyChain!Reported,
         AnyChain!Done, AnyChain!IsBytes, AnyChain!IsTrustworthy, AnyChain!CHAIN
<1> QED
  BY <1>1, <1>2, ChainIsAny, PTL

(* The loop is one decision, as SampleVerdict states it.                    *)
THEOREM ChainIsOneDecision == MCSpec => OneDecision
<1>1. AnyChain!Spec => AnyChain!OneDecision
  BY ChainIsGiven, AnyChain!ChainIsOneDecision
<1>2. AnyChain!Verdict!Init => Chain!Verdict!Init
  BY DEF
      Chain!Settled, Chain!Done, Chain!Reported, Chain!IsBytes, Chain!IsTrustworthy,
      Chain!Verdict!Init,
      AnyChain!Settled, AnyChain!Done, AnyChain!Reported, AnyChain!IsBytes,
      AnyChain!IsTrustworthy, AnyChain!Verdict!Init
<1>3. [AnyChain!Verdict!Next]_(AnyChain!Verdict!vars) => [Chain!Verdict!Next]_(Chain!Verdict!vars)
  BY DEF
      Chain!Settled, Chain!Done, Chain!Reported, Chain!IsBytes, Chain!IsTrustworthy,
      Chain!Verdict!Next, Chain!Verdict!vars, Chain!Verdict!Trust,
      Chain!Verdict!Caveat, Chain!Verdict!GiveUp, Chain!Verdict!Obtain,
      AnyChain!Settled, AnyChain!Done, AnyChain!Reported, AnyChain!IsBytes,
      AnyChain!IsTrustworthy, AnyChain!Verdict!Next, AnyChain!Verdict!vars,
      AnyChain!Verdict!Trust, AnyChain!Verdict!Caveat, AnyChain!Verdict!GiveUp,
      AnyChain!Verdict!Obtain
<1> QED
  BY <1>1, <1>2, <1>3, ChainIsAny, PTL
  DEF OneDecision, Chain!OneDecision, AnyChain!OneDecision, Chain!Verdict!Spec, AnyChain!Verdict!Spec

-----------------------------------------------------------------------------
(* The search of free space.                                                *)
General == INSTANCE DeepScanProofs WITH
    phase <- scan_phase, at <- scan_at, hits <- found, declined <- passed_over,
    Targets <- MCTargets, Images <- MCImages,
    Total <- 5, Chunk <- 2, Window <- 1,
    MaxRead <- 8, MaxHeaders <- 4, MaxHashed <- 2, MaxLength <- 4, MaxBad <- 1

(* The assumptions of the general theorems.                                 *)
LEMMA ImagesFit ==
    General!SizeAssumption /\ General!TargetAssumption /\ General!ImageAssumption
<1>1. IsFiniteSet(MCTargets)
  <2>1. 1 \in Int /\ 2 \in Int
    OBVIOUS
  <2> QED
    BY <2>1, FS_Interval DEF MCTargets
<1> QED
  BY <1>1
  DEF General!SizeAssumption, General!TargetAssumption, General!ImageAssumption,
      General!IsFiniteSet, IsFiniteSet, MCTargets, MCImages

(* Search and General are instances of one module.                          *)
LEMMA SameInit == Search!Init <=> General!Init
  BY DEF Search!Init, Search!Clusters, Search!NoImage, Search!RunFrom, Search!NoRun,
         Search!Min, Search!Cardinality,
         General!Init, General!Clusters, General!NoImage, General!RunFrom, General!NoRun,
         General!Min, General!Cardinality

LEMMA SameNext == Search!Next <=> General!Next
  BY DEF Search!Next, Search!NextRun, Search!Searched, Search!Exhausted,
         Search!UnreadableSpan, Search!ReadSpan, Search!NoHeader, Search!CutOff,
         Search!OverSpent, Search!UnreadableImage, Search!Compare, Search!EndSpan,
         Search!NoRun, Search!RunFrom, Search!medium, Search!found, Search!AtSpan,
         Search!Exhaustion, Search!OverBudget, Search!Unreadable, Search!Want,
         Search!Searchable, Search!InSpan, Search!Measured, Search!StepOn, Search!Follow,
         Search!TooLong, Search!Spent, Search!Here, Search!Inside, Search!NewHits,
         Search!Span, Search!MIN, Search!NoImage, Search!Contiguous, Search!Answered,
         Search!Min, Search!Cardinality,
         General!Next, General!NextRun, General!Searched, General!Exhausted,
         General!UnreadableSpan, General!ReadSpan, General!NoHeader, General!CutOff,
         General!OverSpent, General!UnreadableImage, General!Compare, General!EndSpan,
         General!NoRun, General!RunFrom, General!medium, General!found, General!AtSpan,
         General!Exhaustion, General!OverBudget, General!Unreadable, General!Want,
         General!Searchable, General!InSpan, General!Measured, General!StepOn,
         General!Follow,
         General!TooLong, General!Spent, General!Here, General!Inside, General!NewHits,
         General!Span, General!MIN, General!NoImage, General!Contiguous, General!Answered,
         General!Min, General!Cardinality

(* Whatever part a behaviour is of, its search is one of DeepScan's.        *)
LEMMA SearchIsGeneral == MCSpec => General!Spec
<1>1. MCInit => General!Init
  BY SameInit DEF MCInit
<1>2. [MCNext]_mcvars => [General!Next]_(General!vars)
  <2> SUFFICES ASSUME [MCNext]_mcvars PROVE [General!Next]_(General!vars)
    OBVIOUS
  <2>1. Search!Next \/ UNCHANGED search
    BY DEF MCNext, mcvars
  <2> QED
    BY <2>1, SameNext
    DEF search, General!vars, General!medium, General!position, General!found
<1> QED
  BY <1>1, <1>2, PTL DEF MCSpec, General!Spec

(* Every cluster of a hit is free, and of the images compared that answer   *)
(* to its target none starts lower.                                         *)
THEOREM HitsCorrect == MCSpec => []HitsAreWholeAndFirst
<1>1. General!Spec => []General!HitsAreWholeAndFirst
  BY ImagesFit, General!HitsCorrect
<1>2. General!HitsAreWholeAndFirst => HitsAreWholeAndFirst
  BY DEF HitsAreWholeAndFirst, Search!HitsAreWholeAndFirst, Search!Whole, Search!Span,
         General!HitsAreWholeAndFirst, General!Whole, General!Span
<1> QED
  BY <1>1, <1>2, SearchIsGeneral, PTL

(* A search that stopped for no reason counted every free cluster, and what *)
(* could have answered a target it missed is an image a budget declined.    *)
THEOREM ExhaustiveCorrect == MCSpec => []ExhaustiveMeansCompared
<1>1. General!Spec => []General!ExhaustiveMeansCompared
  BY ImagesFit, General!ExhaustiveCorrect
<1>2. General!ExhaustiveMeansCompared => ExhaustiveMeansCompared
  BY DEF ExhaustiveMeansCompared, Search!ExhaustiveMeansCompared,
         Search!ExhaustiveAndMissed, Search!Answered, Search!Answers, Search!NoImage,
         Search!Whole, Search!Span, Search!Cardinality,
         General!ExhaustiveMeansCompared,
         General!ExhaustiveAndMissed, General!Answered, General!Answers, General!NoImage,
         General!Whole, General!Span, General!Cardinality
<1> QED
  BY <1>1, <1>2, SearchIsGeneral, PTL

-----------------------------------------------------------------------------
(* The shadow copy.                                                         *)
(* FiniteSets of the store, and of the theorems about finite sets.          *)
LEMMA SameCardinality == \A S : Shadow!Cardinality(S) = Cardinality(S)
  BY DEF Shadow!Cardinality, Cardinality

(* A set of numbers that is not empty has a least one.                      *)
LEMMA LeastFailure ==
    ASSUME NEW Fails, Fails \subseteq Nat, Fails # {}
    PROVE  \E n \in Fails : \A m \in Fails : n <= m
<1> DEFINE Less == { ss \in Nat \X Nat : ss[1] < ss[2] }
<1>1. OpToRel(<, Nat) = Less
  BY Zenon DEF OpToRel
<1>2. IsWellFoundedOn(Less, Nat)
  BY <1>1, NatLessThanWellFounded, Zenon
<1>3. \A x, y \in Nat : y < x => << y, x >> \in Less
  BY SMT
<1> HIDE DEF Less
<1>4. PICK n \in Fails : \A m \in Fails : << m, n >> \notin Less
  BY <1>2, WFMin
<1>5. \A m \in Fails : ~(m < n)
  BY <1>3, <1>4
<1> QED
  BY <1>4, <1>5


(* Quotients and remainders.                                                *)
LEMMA DivisionIs ==
    ASSUME NEW K \in Nat \ {0}, NEW p \in Nat
    PROVE  /\ p \div K \in Nat /\ p % K \in 0 .. K - 1
           /\ p = K * (p \div K) + (p % K)
<1>1. p = K * (p \div K) + (p % K)
  OBVIOUS
<1>2. p \div K \in Nat /\ p % K \in 0 .. K - 1
  OBVIOUS
<1> QED
  BY <1>1, <1>2

(* A number is put together from its quotient and its remainder.            *)
LEMMA DivisionBack ==
    ASSUME NEW K \in Nat \ {0}, NEW b \in Nat, NEW r \in 0 .. K - 1
    PROVE  (b * K + r) \div K = b /\ (b * K + r) % K = r
<1> DEFINE p == b * K + r
<1>1. p \in Nat
  OBVIOUS
<1>2. PICK q, m \in Int : q = p \div K /\ m = p % K /\ m \in 0 .. K - 1 /\ p = K * q + m
  BY <1>1, DivisionIs
<1>3. K * (q - b) = r - m
  BY <1>2
<1>4. q - b >= 1 => K * (q - b) >= K
  BY <1>2
<1>5. q - b <= -1 => K * (q - b) <= -K
  BY <1>2
<1> QED
  BY <1>2, <1>3, <1>4, <1>5

(* Numbers below a multiple have the smaller quotients.                     *)
LEMMA DivisionBelow ==
    ASSUME NEW p \in Nat, NEW K \in Nat \ {0}, NEW n \in Nat
    PROVE  p < n * K <=> p \div K < n
<1>1. PICK q, m \in Int : q = p \div K /\ m = p % K /\ m \in 0 .. K - 1 /\ p = K * q + m
  BY DivisionIs
<1>2. q < n => n * K >= K * (q + 1)
  BY <1>1
<1>3. q >= n => K * q >= n * K
  BY <1>1
<1> QED
  BY <1>1, <1>2, <1>3

(* The store as its history leaves it, as long as nothing broke the chain.  *)
(* A copied block is in the slot its one descriptor names, and of every     *)
(* byte written since, a descriptor tells.                                  *)
Copied ==
    \A i \in DOMAIN list : list[i].kind = "plain" =>
        list[i].slot \in 0 .. Slots - 1 /\ store[list[i].slot] = list[i].original
Sole ==
    \A i, j \in DOMAIN list :
        /\ list[i].kind = "plain" /\ list[j].kind = "plain"
        /\ list[i].original = list[j].original
        => i = j
Noted ==
    \A a \in Shadow!Addresses : live[a] = "now" =>
        \E i \in DOMAIN list : list[i].original = a \div BlockSize /\ list[i].kind # "unused"

(* The walk along an unbroken chain has read its first k blocks: what they  *)
(* say is in the map, and nothing else.                                     *)
MapHolds(k) ==
    /\ visited = 1 .. k
    /\ next = IF k < Shadow!LastBlock THEN k + 1 ELSE 0
    /\ \A i \in DOMAIN list : i <= k * PerBlock =>
         /\ list[i].kind = "plain" /\ list[i].original < Blocks => i \in entries
         /\ list[i].kind = "overlay" => list[i].original \in overlays
    /\ \A i \in entries : list[i].kind = "plain"

ShadowInv ==
    /\ Shadow!TypeOK
    /\ damage = "none" => Copied /\ Sole /\ Noted
    /\ store_phase = "in_use" => visited = {} /\ entries = {} /\ overlays = {}
    /\ store_phase \in {"walk", "mapped"} /\ damage = "none" =>
         \E k \in 0 .. Shadow!LastBlock :
            MapHolds(k) /\ (store_phase = "mapped" => k = Shadow!LastBlock \/ k >= MaxListBlocks)


(* What the constants are.                                                  *)
LEMMA Geometry ==
    /\ Blocks \in Nat \ {0} /\ BlockSize \in Nat \ {0} /\ PerBlock \in Nat \ {0}
    /\ Slots \in Nat /\ MaxListBlocks \in Nat /\ MaxUncertain \in Nat /\ Shadow!Size \in Nat \ {0}
    /\ Blocks * BlockSize \in Nat /\ Blocks * BlockSize <= Shadow!Size
<1>1. /\ Blocks \in Nat \ {0} /\ BlockSize \in Nat \ {0} /\ PerBlock \in Nat \ {0}
      /\ Slots \in Nat /\ MaxListBlocks \in Nat /\ MaxUncertain \in Nat /\ Rest \in Nat
  BY ShadowAssumption DEF Shadow!SizeAssumption
<1>2. Blocks * BlockSize \in Nat \ {0}
  BY <1>1
<1> QED
  BY <1>1, <1>2 DEF Shadow!Size

(* A byte of the volume is in one of its blocks.                            *)
LEMMA BlockIs ==
    ASSUME NEW p \in Shadow!Addresses
    PROVE  /\ p \in Nat /\ p < Shadow!Size
           /\ p \div BlockSize \in Shadow!Numbers /\ p \div BlockSize \in Nat
           /\ p < Blocks * BlockSize => p \div BlockSize < Blocks
<1>1. p \in Nat /\ p < Shadow!Size
  BY Geometry DEF Shadow!Addresses
<1>2. p \div BlockSize \in Nat
  BY <1>1, Geometry, DivisionIs
<1>3. p < Blocks * BlockSize => p \div BlockSize < Blocks
  BY <1>1, Geometry, DivisionBelow
<1>4. p \div BlockSize <= (Shadow!Size - 1) \div BlockSize
  <2>1. PICK n \in Nat : n = (Shadow!Size - 1) \div BlockSize
    BY Geometry, DivisionIs
  <2>2. Shadow!Size - 1 \in Nat
    BY Geometry
  <2>3. Shadow!Size - 1 < (n + 1) * BlockSize
    BY <2>1, <2>2, Geometry, DivisionBelow
  <2>4. p < (n + 1) * BlockSize
    BY <1>1, <2>3, Geometry
  <2>5. p \div BlockSize < n + 1
    BY <1>1, <2>1, <2>4, Geometry, DivisionBelow
  <2> QED
    BY <1>2, <2>1, <2>5
<1>5. p \div BlockSize \in Shadow!Numbers
  BY <1>2, <1>4 DEF Shadow!Numbers
<1> QED
  BY <1>1, <1>2, <1>3, <1>5

(* The list blocks hold the whole list.                                     *)
LEMMA LastIs ==
    ASSUME Shadow!TypeOK
    PROVE  Shadow!LastBlock \in Nat /\ Len(list) <= Shadow!LastBlock * PerBlock
           /\ (list = << >> => Shadow!LastBlock = 0) /\ (Shadow!LastBlock = 0 => list = << >>)
<1>1. list \in Seq(Shadow!Descriptor) /\ Len(list) \in Nat
  BY DEF Shadow!TypeOK
<1>2. PICK last, r \in Int : 
         /\ last = (Len(list) + PerBlock - 1) \div PerBlock
         /\ last \in Nat /\ r \in 0 .. PerBlock - 1
         /\ Len(list) + PerBlock - 1 = PerBlock * last + r
  <2>0. Len(list) + PerBlock - 1 \in Nat
    BY <1>1, Geometry
  <2>1. PICK p \in Nat : p = Len(list) + PerBlock - 1
    BY <2>0, Zenon
  <2>2. /\ p \div PerBlock \in Nat /\ p % PerBlock \in 0 .. PerBlock - 1
        /\ p = PerBlock * (p \div PerBlock) + (p % PerBlock)
    BY Geometry, DivisionIs
  <2>3. PICK q, r \in Int : q = p \div PerBlock /\ r = p % PerBlock
    <3>1. p \div PerBlock \in Int /\ p % PerBlock \in Int
      BY <2>2, Geometry
    <3> QED
      BY <3>1, Zenon
  <2>4. q = (Len(list) + PerBlock - 1) \div PerBlock
    BY <2>1, <2>3, Zenon
  <2>5. q \in Nat /\ r \in 0 .. PerBlock - 1 /\ Len(list) + PerBlock - 1 = PerBlock * q + r
    BY <2>1, <2>2, <2>3, Zenon
  <2> QED
    BY <2>4, <2>5, Zenon
<1>3. Shadow!LastBlock = last
  BY <1>2, FS_Interval, SameCardinality DEF Shadow!LastBlock, Shadow!ListBlocks
<1>4. Len(list) <= last * PerBlock
  BY <1>1, <1>2, Geometry
<1>5. list = << >> => last = 0
  <2>1. SUFFICES ASSUME list = << >> PROVE last = 0
    OBVIOUS
  <2>2. Len(list) = 0
    BY <2>1
  <2>3. last >= 1 => PerBlock * last >= PerBlock
    BY <1>2, Geometry
  <2> QED
    BY <1>2, <2>2, <2>3, Geometry
<1>6. last = 0 => list = << >>
  <2>1. last = 0 => Len(list) = 0
    BY <1>1, <1>2, Geometry
  <2> QED
    BY <1>1, <2>1
<1> QED
  BY <1>2, <1>3, <1>4, <1>5, <1>6

(* What a descriptor of the list says.                                      *)
LEMMA Described ==
    ASSUME Shadow!TypeOK, NEW i \in DOMAIN list
    PROVE  /\ list[i] \in Shadow!Descriptor /\ list[i].original \in Shadow!Numbers
           /\ list[i].kind \in {"plain", "overlay", "unused"}
<1>1. list[i] \in Shadow!Descriptor
  BY DEF Shadow!TypeOK
<1> QED
  BY <1>1 DEF Shadow!Descriptor

(* The volume begins as the snapshot has it.                                *)
LEMMA InitShadowInv == Shadow!Init => ShadowInv
<1> SUFFICES ASSUME Shadow!Init PROVE ShadowInv
  OBVIOUS
<1>1. Shadow!TypeOK
  BY Geometry DEF Shadow!Init, Shadow!TypeOK, Shadow!Damages
<1> QED
  BY <1>1, Geometry DEF Shadow!Init, ShadowInv, Copied, Sole, Noted

(* One more descriptor.                                                     *)
LEMMA ListGrows ==
    ASSUME NEW l \in Seq(Shadow!Descriptor), NEW d \in Shadow!Descriptor
    PROVE  /\ Append(l, d) \in Seq(Shadow!Descriptor)
           /\ Len(l) \in Nat /\ DOMAIN l = 1 .. Len(l)
           /\ DOMAIN Append(l, d) = 1 .. Len(l) + 1
           /\ \A i \in 1 .. Len(l) : Append(l, d)[i] = l[i]
           /\ Append(l, d)[Len(l) + 1] = d
  OBVIOUS

(* Before the copy is opened, nothing is known of it.                       *)
LEMMA Unopened ==
    ASSUME ShadowInv, Shadow!InUse, Shadow!TypeOK',
           UNCHANGED << store_phase, Shadow!walk, Shadow!reader >>,
           damage' = "none" => (Copied /\ Sole /\ Noted)'
    PROVE  ShadowInv'
<1>1. store_phase = "in_use" /\ store_phase' = "in_use"
  BY DEF Shadow!InUse
<1> QED
  BY <1>1 DEF ShadowInv, Shadow!walk

(* A block is copied before it is written to.                               *)
LEMMA OverwriteKeeps ==
    ASSUME ShadowInv, NEW b \in Shadow!Numbers, Shadow!Overwrite(b)
    PROVE  ShadowInv'
<1>1. Shadow!InUse /\ Shadow!TypeOK /\ Copied /\ Sole /\ Noted
  BY DEF Shadow!Overwrite, ShadowInv, Shadow!InUse
<1>2. PICK s \in 0 .. Slots - 1 :
        /\ store[s] = Shadow!None /\ \A i \in DOMAIN list : list[i].slot # s
        /\ store' = [store EXCEPT ![s] = b]
        /\ list' = Append(list, [original |-> b, slot |-> s, kind |-> "plain"])
  BY DEF Shadow!Overwrite
<1>3. PICK n, d :
        /\ n = Len(list) + 1 /\ d = [original |-> b, slot |-> s, kind |-> "plain"]
        /\ d \in Shadow!Descriptor /\ list' = Append(list, d)
  BY <1>2, Geometry DEF Shadow!Descriptor
<1>4. /\ list' \in Seq(Shadow!Descriptor) /\ n \in Nat \ {0}
      /\ DOMAIN list = 1 .. n - 1 /\ DOMAIN list' = 1 .. n
      /\ \A i \in 1 .. n - 1 : list'[i] = list[i]
      /\ list'[n] = d
  BY <1>1, <1>3, ListGrows DEF Shadow!TypeOK
<1>5. live' = [a \in Shadow!Addresses |-> IF a \in Shadow!Within(b) THEN "now" ELSE live[a]]
      /\ UNCHANGED << damage, store_phase, Shadow!walk, Shadow!reader >>
      /\ \A i \in DOMAIN list : list[i].original # b
  BY DEF Shadow!Overwrite
<1>6. Shadow!TypeOK'
  <2>1. store' \in [0 .. Slots - 1 -> Shadow!Numbers \cup {Shadow!None}]
    BY <1>1, <1>2 DEF Shadow!TypeOK
  <2>2. live' \in [Shadow!Addresses -> {"then", "now"}]
    BY <1>1, <1>5 DEF Shadow!TypeOK
  <2>3. entries' \subseteq DOMAIN list'
    BY <1>1, <1>4, <1>5 DEF Shadow!TypeOK, Shadow!walk
  <2> QED
    BY <1>1, <1>4, <1>5, <2>1, <2>2, <2>3 DEF Shadow!TypeOK, Shadow!walk, Shadow!reader
<1>7. \A i \in 1 .. n : i = n \/ (i \in 1 .. n - 1 /\ i \in DOMAIN list /\ list'[i] = list[i])
  BY <1>4
<1>8. Copied'
  <2> SUFFICES ASSUME NEW i \in 1 .. n, list'[i].kind = "plain"
               PROVE  /\ list'[i].slot \in 0 .. Slots - 1
                      /\ store'[list'[i].slot] = list'[i].original
    BY <1>4 DEF Copied
  <2>1. CASE i = n
    BY <1>1, <1>2, <1>3, <1>4, <2>1 DEF Shadow!TypeOK
  <2>2. CASE i # n
    <3>1. /\ list[i].slot # s /\ list[i].slot \in 0 .. Slots - 1
          /\ store[list[i].slot] = list[i].original
      BY <1>1, <1>2, <1>7, <2>2 DEF Copied
    <3> QED
      BY <1>1, <1>2, <1>7, <2>2, <3>1 DEF Shadow!TypeOK
  <2> QED
    BY <2>1, <2>2
<1>9. Sole'
  <2> SUFFICES ASSUME NEW i \in 1 .. n, NEW j \in 1 .. n,
                      list'[i].kind = "plain", list'[j].kind = "plain",
                      list'[i].original = list'[j].original
               PROVE  i = j
    BY <1>4 DEF Sole
  <2>1. list'[n].original = b
    BY <1>3, <1>4
  <2>2. i # n => list'[i].original # b
    BY <1>5, <1>7
  <2>3. j # n => list'[j].original # b
    BY <1>5, <1>7
  <2>4. i # n /\ j # n => i = j
    BY <1>1, <1>7 DEF Sole
  <2> QED
    BY <2>1, <2>2, <2>3, <2>4
<1>10. Noted'
  <2> SUFFICES ASSUME NEW a \in Shadow!Addresses, live'[a] = "now"
               PROVE  \E i \in 1 .. n :
                        list'[i].original = a \div BlockSize /\ list'[i].kind # "unused"
    BY <1>4 DEF Noted
  <2>1. CASE a \in Shadow!Within(b)
    <3>1. a \div BlockSize = b
      BY <2>1 DEF Shadow!Within
    <3> QED
      BY <1>3, <1>4, <3>1
  <2>2. CASE a \notin Shadow!Within(b)
    <3>1. live[a] = "now"
      BY <1>5, <2>2
    <3>2. PICK i \in DOMAIN list : list[i].original = a \div BlockSize /\ list[i].kind # "unused"
      BY <1>1, <3>1 DEF Noted
    <3> QED
      BY <1>4, <3>2
  <2> QED
    BY <2>1, <2>2
<1> QED
  BY <1>1, <1>5, <1>6, <1>8, <1>9, <1>10, Unopened

(* A smaller write leaves a descriptor too.                                 *)
LEMMA PatchKeeps ==
    ASSUME ShadowInv, NEW b \in Shadow!Numbers, Shadow!Patch(b)
    PROVE  ShadowInv'
<1>1. Shadow!InUse /\ Shadow!TypeOK /\ Copied /\ Sole /\ Noted
  BY DEF Shadow!Patch, ShadowInv, Shadow!InUse
<1>2. PICK n, d :
        /\ n = Len(list) + 1 /\ d = [original |-> b, slot |-> 0, kind |-> "overlay"]
        /\ d \in Shadow!Descriptor /\ list' = Append(list, d)
  BY Geometry DEF Shadow!Patch, Shadow!Descriptor
<1>3. /\ list' \in Seq(Shadow!Descriptor) /\ n \in Nat \ {0}
      /\ DOMAIN list = 1 .. n - 1 /\ DOMAIN list' = 1 .. n
      /\ \A i \in 1 .. n - 1 : list'[i] = list[i]
      /\ list'[n] = d
  BY <1>1, <1>2, ListGrows DEF Shadow!TypeOK
<1>4. PICK here \in Shadow!Within(b) : live' = [live EXCEPT ![here] = "now"]
  BY DEF Shadow!Patch
<1>5. UNCHANGED << store, damage, store_phase, Shadow!walk, Shadow!reader >>
  BY DEF Shadow!Patch
<1>6. Shadow!TypeOK'
  <2>1. live' \in [Shadow!Addresses -> {"then", "now"}]
    BY <1>1, <1>4 DEF Shadow!TypeOK
  <2>2. entries' \subseteq DOMAIN list'
    BY <1>1, <1>3, <1>5 DEF Shadow!TypeOK, Shadow!walk
  <2> QED
    BY <1>1, <1>3, <1>5, <2>1, <2>2 DEF Shadow!TypeOK, Shadow!walk, Shadow!reader
<1>7. \A i \in 1 .. n : i = n \/ (i \in 1 .. n - 1 /\ i \in DOMAIN list /\ list'[i] = list[i])
  BY <1>3
<1>8. list'[n].kind = "overlay" /\ list'[n].original = b
  BY <1>2, <1>3
<1>9. Copied'
  BY <1>1, <1>3, <1>5, <1>7, <1>8 DEF Copied
<1>10. Sole'
  BY <1>1, <1>3, <1>7, <1>8 DEF Sole
<1>11. Noted'
  <2> SUFFICES ASSUME NEW a \in Shadow!Addresses, live'[a] = "now"
               PROVE  \E i \in 1 .. n :
                        list'[i].original = a \div BlockSize /\ list'[i].kind # "unused"
    BY <1>3 DEF Noted
  <2>1. CASE a = here
    <3>1. a \div BlockSize = b
      BY <2>1 DEF Shadow!Within
    <3> QED
      BY <1>3, <1>8, <3>1
  <2>2. CASE a # here
    <3>1. live[a] = "now"
      BY <1>1, <1>4, <2>2 DEF Shadow!TypeOK
    <3>2. PICK i \in DOMAIN list : list[i].original = a \div BlockSize /\ list[i].kind # "unused"
      BY <1>1, <3>1 DEF Noted
    <3> QED
      BY <1>3, <3>2
  <2> QED
    BY <2>1, <2>2
<1> QED
  BY <1>1, <1>5, <1>6, <1>9, <1>10, <1>11, Unopened

(* A stored block moves with its one descriptor.                            *)
LEMMA MoveKeeps ==
    ASSUME ShadowInv, NEW m \in DOMAIN list, Shadow!Move(m)
    PROVE  ShadowInv'
<1>1. Shadow!InUse /\ Shadow!TypeOK /\ Copied /\ Sole /\ Noted
  BY DEF Shadow!Move, ShadowInv, Shadow!InUse
<1>2. PICK s \in 0 .. Slots - 1 :
        /\ store[s] = Shadow!None /\ \A j \in DOMAIN list : list[j].slot # s
        /\ store' = [store EXCEPT ![s] = list[m].original, ![list[m].slot] = Shadow!None]
        /\ list' = Append([list EXCEPT ![m].kind = "unused"], [list[m] EXCEPT !.slot = s])
  BY DEF Shadow!Move
<1>3. /\ list[m].kind = "plain"
      /\ UNCHANGED << live, damage, store_phase, Shadow!walk, Shadow!reader >>
  BY DEF Shadow!Move
<1>4. list[m] \in Shadow!Descriptor /\ m \in 1 .. Len(list) /\ Len(list) \in Nat
  BY <1>1 DEF Shadow!TypeOK
<1>5. PICK l, n, d, b, old :
        /\ l = [list EXCEPT ![m].kind = "unused"] /\ n = Len(list) + 1
        /\ d = [list[m] EXCEPT !.slot = s] /\ b = list[m].original /\ old = list[m].slot
        /\ list' = Append(l, d)
  BY <1>2
<1>6. /\ l \in Seq(Shadow!Descriptor) /\ Len(l) = Len(list) /\ d \in Shadow!Descriptor
      /\ d.original = b /\ d.slot = s /\ d.kind = "plain"
      /\ b \in Shadow!Numbers /\ old \in 0 .. Slots - 1 /\ old # s /\ store[old] = b
  <2>1. /\ l \in Seq(Shadow!Descriptor) /\ Len(l) = Len(list)
    <3>1. list \in [1 .. Len(list) -> Shadow!Descriptor]
      BY <1>1 DEF Shadow!TypeOK
    <3>2. l = [list EXCEPT ![m] = [list[m] EXCEPT !.kind = "unused"]]
      BY <1>5
    <3>3. [list[m] EXCEPT !.kind = "unused"] \in Shadow!Descriptor
      BY <1>4 DEF Shadow!Descriptor
    <3>4. l \in [1 .. Len(list) -> Shadow!Descriptor]
      BY <3>1, <3>2, <3>3
    <3> QED
      BY <1>4, <3>4
  <2>2. /\ d \in Shadow!Descriptor /\ d.original = b /\ d.slot = s /\ d.kind = "plain"
        /\ b \in Shadow!Numbers
    <3>1. s \in 0 .. Slots
      BY Geometry
    <3>2. /\ list[m] = [original |-> list[m].original, slot |-> list[m].slot,
                        kind |-> list[m].kind]
          /\ list[m].original \in Shadow!Numbers /\ list[m].kind \in {"plain", "overlay", "unused"}
      BY <1>4 DEF Shadow!Descriptor
    <3>3. d = [original |-> list[m].original, slot |-> s, kind |-> list[m].kind]
      BY <1>5, <3>2
    <3> QED
      BY <1>3, <1>5, <3>1, <3>2, <3>3 DEF Shadow!Descriptor
  <2> QED
    BY <1>1, <1>2, <1>3, <1>5, <2>1, <2>2 DEF Copied
<1>7. /\ list' \in Seq(Shadow!Descriptor) /\ n \in Nat \ {0} /\ m \in 1 .. n - 1
      /\ DOMAIN list = 1 .. n - 1 /\ DOMAIN list' = 1 .. n
      /\ \A i \in 1 .. n - 1 : list'[i] = l[i]
      /\ list'[n] = d
  <2>1. DOMAIN list = 1 .. n - 1
    BY <1>1, <1>4, <1>5 DEF Shadow!TypeOK
  <2>2. /\ list' \in Seq(Shadow!Descriptor) /\ DOMAIN list' = 1 .. Len(l) + 1
        /\ \A i \in 1 .. Len(l) : list'[i] = l[i]
        /\ list'[Len(l) + 1] = d
    <3>1. Append(l, d) \in Seq(Shadow!Descriptor) /\ DOMAIN Append(l, d) = 1 .. Len(l) + 1
      BY <1>6, ListGrows
    <3>2. \A i \in 1 .. Len(l) : Append(l, d)[i] = l[i]
      BY <1>6, ListGrows
    <3>3. Append(l, d)[Len(l) + 1] = d
      BY <1>6, ListGrows
    <3> QED
      BY <1>5, <3>1, <3>2, <3>3
  <2>3. Len(l) = n - 1 /\ Len(l) + 1 = n /\ n \in Nat \ {0} /\ m \in 1 .. n - 1
    BY <1>4, <1>5, <1>6
  <2> QED
    BY <2>1, <2>2, <2>3
<1>8. /\ l[m].kind = "unused"
      /\ \A i \in 1 .. n - 1 : l[i].original = list[i].original /\ l[i].slot = list[i].slot
      /\ \A i \in 1 .. n - 1 : i # m => l[i].kind = list[i].kind
  <2>1. \A i \in 1 .. n - 1 : list[i] \in Shadow!Descriptor
    BY <1>1, <1>7 DEF Shadow!TypeOK
  <2> QED
    BY <1>5, <1>7, <2>1 DEF Shadow!Descriptor
<1>9. Shadow!TypeOK'
  <2>1. store' \in [0 .. Slots - 1 -> Shadow!Numbers \cup {Shadow!None}]
    BY <1>1, <1>2, <1>5, <1>6 DEF Shadow!TypeOK
  <2>2. entries' \subseteq DOMAIN list'
    BY <1>1, <1>3, <1>7 DEF Shadow!TypeOK, Shadow!walk
  <2> QED
    BY <1>1, <1>3, <1>7, <2>1, <2>2 DEF Shadow!TypeOK, Shadow!walk, Shadow!reader
<1>10. \A i \in 1 .. n : i = n \/ (i \in 1 .. n - 1 /\ i \in DOMAIN list /\ list'[i] = l[i])
  BY <1>7
<1>11. \A t \in 0 .. Slots - 1 :
          store'[t] = IF t = old THEN Shadow!None ELSE IF t = s THEN b ELSE store[t]
  BY <1>1, <1>2, <1>5, <1>6 DEF Shadow!TypeOK
<1>12. Copied'
  <2> SUFFICES ASSUME NEW i \in 1 .. n, list'[i].kind = "plain"
               PROVE  /\ list'[i].slot \in 0 .. Slots - 1
                      /\ store'[list'[i].slot] = list'[i].original
    BY <1>7 DEF Copied
  <2>1. CASE i = n
    BY <1>6, <1>7, <1>11, <2>1
  <2>2. CASE i # n
    <3>1. i # m /\ i \in DOMAIN list /\ list[i].kind = "plain"
      BY <1>8, <1>10, <2>2
    <3>2. /\ list[i].slot # s /\ list[i].slot \in 0 .. Slots - 1
          /\ store[list[i].slot] = list[i].original
      BY <1>1, <1>2, <3>1 DEF Copied
    <3>3. list[i].slot # old
      BY <1>1, <1>3, <1>5, <1>6, <3>1, <3>2 DEF Sole
    <3> QED
      BY <1>8, <1>10, <1>11, <2>2, <3>2, <3>3
  <2> QED
    BY <2>1, <2>2
<1>13. Sole'
  <2> SUFFICES ASSUME NEW i \in 1 .. n, NEW j \in 1 .. n,
                      list'[i].kind = "plain", list'[j].kind = "plain",
                      list'[i].original = list'[j].original
               PROVE  i = j
    BY <1>7 DEF Sole
  <2>1. list'[n].original = b
    BY <1>6, <1>7
  <2>2. \A k \in 1 .. n : k # n /\ list'[k].kind = "plain" =>
          /\ k # m /\ k \in DOMAIN list /\ list[k].kind = "plain"
          /\ list[k].original = list'[k].original
    BY <1>8, <1>10
  <2>3. \A k \in 1 .. n : k # n /\ list'[k].kind = "plain" => list'[k].original # b
    BY <1>1, <1>3, <1>5, <2>2 DEF Sole
  <2>4. i # n /\ j # n => i = j
    BY <1>1, <2>2 DEF Sole
  <2> QED
    BY <2>1, <2>3, <2>4
<1>14. Noted'
  <2> SUFFICES ASSUME NEW a \in Shadow!Addresses, live'[a] = "now"
               PROVE  \E i \in 1 .. n :
                        list'[i].original = a \div BlockSize /\ list'[i].kind # "unused"
    BY <1>7 DEF Noted
  <2>1. PICK i \in DOMAIN list : list[i].original = a \div BlockSize /\ list[i].kind # "unused"
    BY <1>1, <1>3 DEF Noted
  <2>2. CASE i = m
    <3>1. d.kind # "unused"
      BY <1>6
    <3> QED
      BY <1>5, <1>6, <1>7, <2>1, <2>2, <3>1
  <2>3. CASE i # m
    BY <1>7, <1>8, <2>1, <2>3
  <2> QED
    BY <2>2, <2>3
<1> QED
  BY <1>1, <1>3, <1>9, <1>12, <1>13, <1>14, Unopened

(* Of a broken chain nothing is claimed.                                    *)
LEMMA BreakKeeps ==
    ASSUME ShadowInv, NEW how \in Shadow!Damages \ {"none"}, Shadow!Break(how)
    PROVE  ShadowInv'
<1>1. /\ Shadow!InUse /\ Shadow!TypeOK /\ damage' = how /\ damage' # "none"
      /\ UNCHANGED << live, store, store_phase, Shadow!walk, Shadow!reader >>
  BY DEF Shadow!Break, ShadowInv
<1>2. list' \in Seq(Shadow!Descriptor) /\ DOMAIN list' = DOMAIN list
  <2>1. CASE UNCHANGED list
    BY <1>1, <2>1 DEF Shadow!TypeOK
  <2>2. ASSUME NEW i \in DOMAIN list, list' = [list EXCEPT ![i].slot = Shadow!Outside]
        PROVE  list' \in Seq(Shadow!Descriptor) /\ DOMAIN list' = DOMAIN list
    <3>1. list \in [1 .. Len(list) -> Shadow!Descriptor] /\ Len(list) \in Nat
      BY <1>1 DEF Shadow!TypeOK
    <3>2. [list[i] EXCEPT !.slot = Shadow!Outside] \in Shadow!Descriptor
      BY <3>1, Geometry DEF Shadow!Descriptor, Shadow!Outside
    <3>3. list' \in [1 .. Len(list) -> Shadow!Descriptor]
      BY <2>2, <3>1, <3>2
    <3> QED
      BY <3>1, <3>3
  <2> QED
    BY <2>1, <2>2 DEF Shadow!Break
<1>3. Shadow!TypeOK'
  BY <1>1, <1>2 DEF Shadow!TypeOK, Shadow!walk, Shadow!reader
<1> QED
  BY <1>1, <1>3, Unopened

(* The walk begins with nothing read.                                       *)
LEMMA OpenKeeps == ShadowInv /\ Shadow!Open => ShadowInv'
<1> SUFFICES ASSUME ShadowInv, Shadow!Open PROVE ShadowInv'
  OBVIOUS
<1>1. /\ store_phase = "in_use" /\ store_phase' = "walk" /\ Shadow!TypeOK
      /\ visited = {} /\ entries = {}
      /\ next' = IF list = << >> THEN 0 ELSE 1
      /\ UNCHANGED << live, store, list, damage, visited, entries, overlays, refused,
                      position, uncertain, before, served >>
  BY DEF ShadowInv, Shadow!Open, Shadow!external, Shadow!reader
<1>2. Shadow!TypeOK' /\ (damage' = "none" => (Copied /\ Sole /\ Noted)')
  BY <1>1 DEF ShadowInv, Shadow!TypeOK, Copied, Sole, Noted
<1>3. Shadow!LastBlock' = Shadow!LastBlock /\ Shadow!LastBlock \in Nat
      /\ (list = << >> => Shadow!LastBlock = 0) /\ (Shadow!LastBlock = 0 => list = << >>)
  BY <1>1, LastIs DEF Shadow!LastBlock, Shadow!ListBlocks
<1>4. MapHolds(0)'
  <2>1. visited' = 1 .. 0
    BY <1>1
  <2>2. next' = IF 0 < Shadow!LastBlock' THEN 0 + 1 ELSE 0
    BY <1>1, <1>3
  <2>3. \A i \in DOMAIN list : ~(i <= 0 * PerBlock)
    BY <1>1, Geometry DEF Shadow!TypeOK
  <2> QED
    BY <1>1, <2>1, <2>2, <2>3 DEF MapHolds
<1>5. \E k \in 0 .. Shadow!LastBlock' : MapHolds(k)'
  BY <1>3, <1>4
<1> QED
  BY <1>1, <1>2, <1>5 DEF ShadowInv

(* Blocks of the list behind those that were read are still ahead.          *)
LEMMA NextIs ==
    ASSUME ShadowInv, Shadow!Walking, damage = "none",
           NEW k \in 0 .. Shadow!LastBlock, MapHolds(k)
    PROVE  /\ k \in Nat /\ k < Shadow!LastBlock /\ Shadow!LastBlock \in Nat
           /\ next = k + 1 /\ next \notin visited /\ ~Shadow!Unreadable(next)
<1>1. Shadow!LastBlock \in Nat
  BY LastIs DEF ShadowInv
<1>2. k < Shadow!LastBlock /\ next = k + 1
  BY <1>1 DEF Shadow!Walking, MapHolds
<1> QED
  BY <1>1, <1>2 DEF MapHolds, Shadow!Unreadable

(* The walk is not stopped in an unbroken chain.                            *)
LEMMA StopWalkKeeps == ShadowInv /\ Shadow!StopWalk => ShadowInv'
<1> SUFFICES ASSUME ShadowInv, Shadow!StopWalk PROVE ShadowInv'
  OBVIOUS
<1>1. /\ Shadow!Walking /\ store_phase = "walk" /\ store_phase' = "mapped" /\ Shadow!TypeOK
      /\ next \in visited \/ Shadow!Unreadable(next)
      /\ UNCHANGED << live, store, list, damage, next, entries, overlays,
                      position, uncertain, before, served >>
  BY DEF ShadowInv, Shadow!StopWalk, Shadow!Walking, Shadow!external, Shadow!reader
<1>2. damage # "none"
  <2> SUFFICES ASSUME damage = "none" PROVE FALSE
    OBVIOUS
  <2>1. PICK k \in 0 .. Shadow!LastBlock : MapHolds(k)
    BY <1>1 DEF ShadowInv
  <2> QED
    BY <1>1, <2>1, NextIs
<1>3. Shadow!TypeOK'
  BY <1>1 DEF Shadow!TypeOK, Shadow!StopWalk
<1> QED
  BY <1>1, <1>2, <1>3 DEF ShadowInv

(* The walk reads one more block.                                           *)
LEMMA ReadListBlockKeeps == ShadowInv /\ Shadow!ReadListBlock => ShadowInv'
<1> SUFFICES ASSUME ShadowInv, Shadow!ReadListBlock PROVE ShadowInv'
  OBVIOUS
<1>1. /\ Shadow!Walking /\ store_phase = "walk" /\ store_phase' = "walk" /\ Shadow!TypeOK
      /\ visited' = visited \cup {next}
      /\ entries' = entries \cup Shadow!Take(next)
      /\ overlays' = overlays \cup
                       {list[i].original : i \in {j \in Shadow!InBlock(next) : Shadow!IsOverlay(j)}}
      /\ next' = Shadow!Follow(next)
      /\ UNCHANGED << live, store, list, damage, position, uncertain, before, served >>
  BY DEF ShadowInv, Shadow!ReadListBlock, Shadow!Walking, Shadow!external, Shadow!reader
<1>2. Shadow!TypeOK'
  <2>1. entries' \subseteq DOMAIN list
    BY <1>1 DEF Shadow!TypeOK, Shadow!Take, Shadow!InBlock
  <2>2. \A i \in DOMAIN list : list[i].original \in Shadow!Numbers
    BY <1>1, Described
  <2>3. overlays' \subseteq Shadow!Numbers
    BY <1>1, <2>2 DEF Shadow!TypeOK, Shadow!InBlock
  <2> QED
    BY <1>1, <2>1, <2>3 DEF Shadow!TypeOK
<1>3. damage' = "none" => (Copied /\ Sole /\ Noted)'
  BY <1>1 DEF ShadowInv, Copied, Sole, Noted
<1>4. ASSUME damage' = "none"
      PROVE  \E k \in 0 .. Shadow!LastBlock' : MapHolds(k)'
  <2>1. PICK k \in 0 .. Shadow!LastBlock : MapHolds(k)
    BY <1>1, <1>4 DEF ShadowInv
  <2>2. k \in Nat /\ k < Shadow!LastBlock /\ Shadow!LastBlock \in Nat /\ next = k + 1
    BY <1>1, <1>4, <2>1, NextIs
  <2>3. PICK n : n = k + 1
    OBVIOUS
  <2>4. n \in 0 .. Shadow!LastBlock /\ Shadow!LastBlock' = Shadow!LastBlock
    BY <1>1, <2>2, <2>3 DEF Shadow!LastBlock, Shadow!ListBlocks
  <2>5. visited' = 1 .. n
    BY <1>1, <2>1, <2>2, <2>3 DEF MapHolds
  <2>6. next' = IF n < Shadow!LastBlock' THEN n + 1 ELSE 0
    BY <1>1, <1>4, <2>2, <2>3, <2>4 DEF Shadow!Follow
  <2>7. /\ n * PerBlock \in Nat /\ k * PerBlock \in Nat /\ (n - 1) * PerBlock = k * PerBlock
        /\ DOMAIN list \subseteq Nat
    BY <1>1, <2>2, <2>3, Geometry DEF Shadow!TypeOK
  <2>8. \A i \in DOMAIN list : i <= n * PerBlock => i <= k * PerBlock \/ i \in Shadow!InBlock(next)
    BY <2>2, <2>3, <2>7 DEF Shadow!InBlock
  <2>9. ASSUME NEW i \in DOMAIN list, i <= n * PerBlock
        PROVE  /\ list[i].kind = "plain" /\ list[i].original < Blocks => i \in entries'
               /\ list[i].kind = "overlay" => list[i].original \in overlays'
    <3>1. CASE i <= k * PerBlock
      BY <1>1, <2>1, <3>1 DEF MapHolds
    <3>2. CASE i \in Shadow!InBlock(next)
      <4>1. list[i].kind = "plain" => list[i].slot < Shadow!Outside
        BY <1>1, <1>4, Geometry DEF ShadowInv, Copied, Shadow!Outside
      <4> QED
        BY <1>1, <3>2, <4>1 DEF Shadow!Take, Shadow!IsMapped, Shadow!IsOverlay
    <3> QED
      BY <2>8, <2>9, <3>1, <3>2
  <2>10. \A i \in entries' : list[i].kind = "plain"
    BY <1>1, <2>1 DEF MapHolds, Shadow!Take, Shadow!IsMapped
  <2>11. MapHolds(n)'
    BY <1>1, <2>5, <2>6, <2>9, <2>10 DEF MapHolds
  <2> QED
    BY <2>4, <2>11
<1> QED
  BY <1>1, <1>2, <1>3, <1>4 DEF ShadowInv

(* A copy with too many descriptors is not opened.                          *)
LEMMA TruncateKeeps == ShadowInv /\ Shadow!Truncate => ShadowInv'
<1> SUFFICES ASSUME ShadowInv, Shadow!Truncate PROVE ShadowInv'
  OBVIOUS
<1>1. /\ store_phase' = "not_opened" /\ Shadow!TypeOK
      /\ UNCHANGED << live, store, list, damage, next, visited, entries, overlays,
                      position, uncertain, before, served >>
  BY DEF ShadowInv, Shadow!Truncate, Shadow!external, Shadow!reader
<1>2. Shadow!TypeOK' /\ (damage' = "none" => (Copied /\ Sole /\ Noted)')
  BY <1>1 DEF ShadowInv, Shadow!TypeOK, Copied, Sole, Noted
<1> QED
  BY <1>1, <1>2 DEF ShadowInv

(* The walk ends behind the last block, or at the limit of blocks.          *)
LEMMA EndWalkKeeps == ShadowInv /\ Shadow!EndWalk => ShadowInv'
<1> SUFFICES ASSUME ShadowInv, Shadow!EndWalk PROVE ShadowInv'
  OBVIOUS
<1>1. /\ store_phase = "walk" /\ ~Shadow!Walking /\ store_phase' = "mapped" /\ Shadow!TypeOK
      /\ UNCHANGED << live, store, list, damage, next, visited, entries, overlays,
                      position, uncertain, before, served >>
  BY DEF ShadowInv, Shadow!EndWalk, Shadow!external, Shadow!walk, Shadow!reader
<1>2. Shadow!TypeOK' /\ (damage' = "none" => (Copied /\ Sole /\ Noted)')
  BY <1>1 DEF ShadowInv, Shadow!TypeOK, Copied, Sole, Noted
<1>3. ASSUME damage' = "none"
      PROVE  \E k \in 0 .. Shadow!LastBlock' :
               MapHolds(k)' /\ (k = Shadow!LastBlock' \/ k >= MaxListBlocks)
  <2>1. PICK k \in 0 .. Shadow!LastBlock : MapHolds(k)
    BY <1>1, <1>3 DEF ShadowInv
  <2>2. Shadow!LastBlock \in Nat /\ Shadow!LastBlock' = Shadow!LastBlock
    BY <1>1, LastIs DEF Shadow!LastBlock, Shadow!ListBlocks
  <2>3. k \in Nat /\ Shadow!Cardinality(visited) = k
    BY <2>1, <2>2, FS_Interval, SameCardinality DEF MapHolds
  <2>4. next = 0 \/ k >= MaxListBlocks
    BY <1>1, <2>3, Geometry DEF Shadow!Walking
  <2>5. next = 0 => k = Shadow!LastBlock
    BY <2>1, <2>2, <2>3 DEF MapHolds
  <2>6. MapHolds(k)'
    BY <1>1, <2>1, <2>2 DEF MapHolds
  <2> QED
    BY <2>1, <2>2, <2>4, <2>5, <2>6
<1> QED
  BY <1>1, <1>2, <1>3 DEF ShadowInv

(* Reading changes nothing the map was made of.                             *)
LEMMA ReaderKeeps ==
    ASSUME ShadowInv, Shadow!TypeOK', UNCHANGED << Shadow!external, store_phase, Shadow!walk >>
    PROVE  ShadowInv'
<1>1. UNCHANGED << live, store, list, damage, store_phase, next, visited, entries, overlays >>
  BY DEF Shadow!external, Shadow!walk
<1>2. damage' = "none" => (Copied /\ Sole /\ Noted)'
  BY <1>1 DEF ShadowInv, Copied, Sole, Noted
<1>3. Shadow!LastBlock' = Shadow!LastBlock
  BY <1>1 DEF Shadow!LastBlock, Shadow!ListBlocks
<1>4. \A k : MapHolds(k) => MapHolds(k)'
  BY <1>1, <1>3 DEF MapHolds
<1> QED
  BY <1>1, <1>2, <1>3, <1>4 DEF ShadowInv

(* A read, a seek and a new file move the reader only.                      *)
LEMMA ReadsKeep ==
    ASSUME ShadowInv, Shadow!Read \/ Shadow!BeginFile \/ Shadow!SeekTo
    PROVE  ShadowInv'
<1>1. Shadow!TypeOK /\ UNCHANGED << Shadow!external, store_phase, Shadow!walk >>
  BY DEF ShadowInv, Shadow!Read, Shadow!BeginFile, Shadow!SeekTo
<1>2. position' \in 0 .. Shadow!Size
  <2>1. CASE Shadow!Read
    <3>1. PICK n \in 1 .. Shadow!Size - position : position' = position + n
      BY <2>1 DEF Shadow!Read
    <3> QED
      BY <1>1, <3>1, Geometry DEF Shadow!TypeOK
  <2>2. CASE ~Shadow!Read
    BY <1>1, <2>2 DEF Shadow!TypeOK, Shadow!BeginFile, Shadow!SeekTo
  <2> QED
    BY <2>1, <2>2
<1>3. uncertain' \in 0 .. MaxUncertain /\ before' \in 0 .. uncertain'
  <2>1. CASE Shadow!Read
    <3>1. /\ uncertain' = uncertain \/ uncertain' = uncertain + 1
          /\ uncertain < MaxUncertain /\ before' = before
      BY <2>1 DEF Shadow!Read
    <3> QED
      BY <1>1, <3>1, Geometry DEF Shadow!TypeOK
  <2>2. CASE Shadow!BeginFile
    BY <1>1, <2>2, Geometry DEF Shadow!TypeOK, Shadow!BeginFile
  <2>3. CASE Shadow!SeekTo
    BY <1>1, <2>3 DEF Shadow!TypeOK, Shadow!SeekTo
  <2> QED
    BY <2>1, <2>2, <2>3
<1>4. Shadow!TypeOK'
  BY <1>1, <1>2, <1>3 DEF Shadow!TypeOK, Shadow!external, Shadow!walk
<1> QED
  BY <1>1, <1>4, ReaderKeeps

(* Every step keeps it.                                                     *)
LEMMA NextKeepsShadowInv == ShadowInv /\ [Shadow!Next]_(Shadow!vars) => ShadowInv'
<1> SUFFICES ASSUME ShadowInv, [Shadow!Next]_(Shadow!vars) PROVE ShadowInv'
  OBVIOUS
<1>1. CASE UNCHANGED Shadow!vars
  <2>1. Shadow!TypeOK'
    BY <1>1 DEF Shadow!vars, Shadow!external, Shadow!walk, Shadow!reader, ShadowInv,
       Shadow!TypeOK
  <2> QED
    BY <1>1, <2>1, ReaderKeeps DEF Shadow!vars
<1>2. CASE Shadow!Next
  BY <1>2, OverwriteKeeps, PatchKeeps, MoveKeeps, BreakKeeps, OpenKeeps, StopWalkKeeps,
     ReadListBlockKeeps, TruncateKeeps, EndWalkKeeps, ReadsKeep DEF Shadow!Next
<1> QED
  BY <1>1, <1>2

-----------------------------------------------------------------------------
(* The map of a whole chain: what is not in it was not copied.              *)
LEMMA MapIsWhole ==
    ASSUME ShadowInv, store_phase = "mapped", Shadow!WholeChain
    PROVE  /\ \A i \in DOMAIN list :
                /\ list[i].kind = "plain" /\ list[i].original < Blocks => i \in entries
                /\ list[i].kind = "overlay" => list[i].original \in overlays
           /\ \A i \in entries : list[i].kind = "plain"
<1>1. Shadow!TypeOK /\ damage = "none" /\ Shadow!LastBlock <= MaxListBlocks
  BY DEF ShadowInv, Shadow!WholeChain
<1>2. PICK k \in 0 .. Shadow!LastBlock : MapHolds(k) /\ (k = Shadow!LastBlock \/ k >= MaxListBlocks)
  BY <1>1 DEF ShadowInv
<1>3. Shadow!LastBlock \in Nat /\ Len(list) <= Shadow!LastBlock * PerBlock
  BY <1>1, LastIs
<1>4. k = Shadow!LastBlock
  BY <1>1, <1>2, <1>3, Geometry
<1>5. \A i \in DOMAIN list : i <= k * PerBlock
  <2>1. Shadow!LastBlock * PerBlock \in Nat
    BY <1>3, Geometry
  <2> QED
    BY <1>1, <1>3, <1>4, <2>1 DEF Shadow!TypeOK
<1> QED
  BY <1>2, <1>5 DEF MapHolds

(* The block the store has for a mapped one is its copy.                    *)
LEMMA LookupIs ==
    ASSUME ShadowInv, store_phase = "mapped", Shadow!WholeChain, NEW b, Shadow!Mapped(b)
    PROVE  Shadow!Lookup(b) \in 0 .. Slots - 1 /\ store[Shadow!Lookup(b)] = b
<1>1. Shadow!TypeOK /\ Copied
  BY DEF ShadowInv, Shadow!WholeChain
<1>2. Shadow!Entries(b) \subseteq Nat /\ Shadow!Entries(b) # {} /\ DOMAIN list \subseteq Nat
  BY <1>1 DEF Shadow!Mapped, Shadow!Entries, Shadow!TypeOK
<1>3. \E n \in Shadow!Entries(b) : \A m \in Shadow!Entries(b) : n <= m
  BY <1>2, LeastFailure
<1>4. Shadow!Min(Shadow!Entries(b)) \in Shadow!Entries(b)
  BY <1>3 DEF Shadow!Min
<1>5. PICK i \in DOMAIN list :
        i = Shadow!Min(Shadow!Entries(b)) /\ i \in entries /\ list[i].original = b
  BY <1>1, <1>4 DEF Shadow!Entries, Shadow!TypeOK
<1>6. list[i].kind = "plain"
  BY <1>5, MapIsWhole
<1> QED
  BY <1>1, <1>5, <1>6 DEF Shadow!Lookup, Copied

(* Bytes of one block are answered from one place.                          *)
LEMMA ByteIs ==
    ASSUME ShadowInv, store_phase = "mapped", Shadow!WholeChain, position \in Shadow!Addresses,
           NEW i \in Nat, i < Shadow!Remaining(position), position + i < Blocks * BlockSize,
           position \div BlockSize \notin overlays
    PROVE  Shadow!Byte(Shadow!Source(position) + i) = << position + i, "then" >>
<1> DEFINE a == position + i
<1>1. PICK b, r \in Nat :
        /\ b = position \div BlockSize /\ r = position % BlockSize
        /\ r < BlockSize /\ position = BlockSize * b + r
  <2>1. position \in Nat
    BY BlockIs
  <2>2. /\ position \div BlockSize \in Nat /\ position % BlockSize \in 0 .. BlockSize - 1
        /\ position = BlockSize * (position \div BlockSize) + (position % BlockSize)
    BY <2>1, Geometry, DivisionIs
  <2>3. position % BlockSize \in Nat /\ position % BlockSize < BlockSize
    BY <2>2, Geometry
  <2> QED
    BY <2>2, <2>3, Zenon
<1>2. r + i \in 0 .. BlockSize - 1 /\ i < BlockSize - r
  BY <1>1, Geometry DEF Shadow!Remaining
<1>3. a = b * BlockSize + (r + i) /\ a \in Nat /\ a < Shadow!Size /\ a \in Shadow!Addresses
  BY <1>1, Geometry DEF Shadow!Addresses
<1>4. a \div BlockSize = b
  <2>1. PICK w \in 0 .. BlockSize - 1 : w = r + i
    BY <1>2, Zenon
  <2>2. (b * BlockSize + w) \div BlockSize = b
    BY <1>1, <2>1, Geometry, DivisionBack
  <2> QED
    BY <1>3, <2>1, <2>2, Zenon
<1>5. b < Blocks
  BY <1>3, <1>4, BlockIs
<1> HIDE DEF a
<1>6. CASE Shadow!Mapped(b)
  <2>1. PICK s \in 0 .. Slots - 1 : s = Shadow!Lookup(b) /\ store[s] = b
    BY <1>6, LookupIs
  <2>2. PICK p \in Nat : p = s * BlockSize + (r + i)
    <3>1. s * BlockSize + (r + i) \in Nat
      BY <1>1, <2>1, Geometry
    <3> QED
      BY <3>1, Zenon
  <2>3. p \div BlockSize = s /\ p % BlockSize = r + i
    <3>1. PICK w \in 0 .. BlockSize - 1 : w = r + i
      BY <1>2, Zenon
    <3>2. s \in Nat
      BY Geometry
    <3>3. (s * BlockSize + w) \div BlockSize = s /\ (s * BlockSize + w) % BlockSize = w
      BY <3>1, <3>2, Geometry, DivisionBack
    <3> QED
      BY <2>2, <3>1, <3>3, Zenon
  <2>4. Shadow!Source(position) = Shadow!Size + s * BlockSize + r
    BY <1>1, <1>6, <2>1 DEF Shadow!Source
  <2>5. /\ Shadow!Source(position) + i = Shadow!Size + p /\ ~(Shadow!Size + p < Shadow!Size)
        /\ (Shadow!Size + p) - Shadow!Size = p
    BY <1>1, <2>1, <2>2, <2>4, Geometry
  <2>6. s \in DOMAIN store /\ store[s] # Shadow!None
    <3>1. DOMAIN store = 0 .. Slots - 1
      BY DEF ShadowInv, Shadow!TypeOK
    <3>2. b # Shadow!None
      BY <1>1 DEF Shadow!None
    <3> QED
      BY <2>1, <3>1, <3>2, Zenon
  <2>7. Shadow!Byte(Shadow!Size + p) = << b * BlockSize + (r + i), "then" >>
    BY <2>1, <2>3, <2>5, <2>6, Zenon DEF Shadow!Byte
  <2> QED
    BY <1>3, <2>5, <2>7 DEF a
<1>7. CASE ~Shadow!Mapped(b)
  <2>1. Shadow!Source(position) + i = a
    BY <1>1, <1>7 DEF Shadow!Source, a
  <2>2. Shadow!Byte(a) = << a, live[a] >>
    BY <1>3 DEF Shadow!Byte
  <2>3. live[a] # "now"
    <3> SUFFICES ASSUME live[a] = "now" PROVE FALSE
      OBVIOUS
    <3>1. PICK j \in DOMAIN list : list[j].original = b /\ list[j].kind # "unused"
      BY <1>3, <1>4 DEF ShadowInv, Shadow!WholeChain, Noted
    <3>2. list[j].kind \in {"plain", "overlay", "unused"}
      BY <3>1, Described DEF ShadowInv
    <3>3. CASE list[j].kind = "plain"
      BY <1>5, <1>7, <3>1, <3>3, MapIsWhole DEF Shadow!Mapped, Shadow!Entries
    <3>4. CASE list[j].kind = "overlay"
      BY <1>1, <3>1, <3>4, MapIsWhole
    <3> QED
      BY <3>1, <3>2, <3>3, <3>4
  <2>4. live[a] = "then"
    BY <1>3, <2>3 DEF ShadowInv, Shadow!TypeOK
  <2> QED
    BY <2>1, <2>2, <2>4 DEF a
<1> QED
  BY <1>6, <1>7

(* A read is answered with the snapshot's bytes, or is counted.             *)
LEMMA ReadServes ==
    ASSUME ShadowInv, Shadow!WholeChain, Shadow!Read
    PROVE  Shadow!OfTheSnapshot' \/ Shadow!Said'
<1>1. /\ Shadow!TypeOK /\ store_phase = "mapped" /\ position \in Shadow!Addresses
      /\ uncertain \in Nat /\ before \in Nat /\ before <= uncertain /\ before' = before
  BY Geometry DEF ShadowInv, Shadow!TypeOK, Shadow!Read, Shadow!Addresses
<1>2. CASE position \div BlockSize \in overlays
  BY <1>1, <1>2 DEF Shadow!Read, Shadow!Said
<1>3. CASE position \div BlockSize \notin overlays
  <2>1. PICK n \in 1 .. Shadow!Size - position :
          /\ n <= Shadow!Remaining(position)
          /\ served' = {<< position + i, Shadow!Byte(Shadow!Source(position) + i) >> :
                           i \in 0 .. n - 1}
    BY DEF Shadow!Read
  <2>2. Shadow!Remaining(position) \in Int /\ position \in Nat
    <3>1. position \in Nat
      BY <1>1, BlockIs
    <3>2. position % BlockSize \in 0 .. BlockSize - 1
      BY <3>1, Geometry, DivisionIs
    <3> QED
      BY <3>1, <3>2, Geometry DEF Shadow!Remaining
  <2>3. ASSUME NEW i \in 0 .. n - 1, position + i < Blocks * BlockSize
        PROVE  Shadow!Byte(Shadow!Source(position) + i) = << position + i, "then" >>
    <3>1. i \in Nat /\ i < Shadow!Remaining(position)
      BY <2>1, <2>2, Geometry DEF Shadow!Addresses
    <3> QED
      BY <1>1, <1>3, <2>3, <3>1, ByteIs
  <2>4. ASSUME NEW r \in served', r[1] < Blocks * BlockSize PROVE r[2] = << r[1], "then" >>
    <3>1. PICK i \in 0 .. n - 1 : r = << position + i, Shadow!Byte(Shadow!Source(position) + i) >>
      BY <2>1
    <3> QED
      BY <2>3, <2>4, <3>1
  <2> QED
    BY <2>4 DEF Shadow!OfTheSnapshot
<1> QED
  BY <1>2, <1>3

(* Of a copy whose list was read to its end, every byte of a whole block is *)
(* the snapshot's, or was counted as doubtful.                              *)
THEOREM SnapshotCorrect == MCSpec => []TheSnapshotIsServed
<1> DEFINE Unread == store_phase # "mapped" => served = {}
           Inv == ShadowInv /\ Unread /\ Shadow!TheSnapshotIsServed
<1>1. MCInit => Inv
  BY InitShadowInv DEF MCInit, Shadow!Init, Shadow!TheSnapshotIsServed
<1>2. Unread /\ [Shadow!Next]_(Shadow!vars) => Unread'
  <2> SUFFICES ASSUME Unread, [Shadow!Next]_(Shadow!vars), store_phase' # "mapped"
               PROVE  served' = {}
    OBVIOUS
  <2>1. store_phase # "mapped" /\ served' = served
    BY DEF Shadow!Next, Shadow!Overwrite, Shadow!Patch, Shadow!Move, Shadow!Break,
       Shadow!Open, Shadow!StopWalk, Shadow!ReadListBlock, Shadow!Truncate,
           Shadow!EndWalk, Shadow!Read, Shadow!BeginFile, Shadow!SeekTo, Shadow!InUse,
           Shadow!Walking, Shadow!vars, Shadow!reader
  <2> QED
    BY <2>1
<1>3. Inv /\ [Shadow!Next]_(Shadow!vars) => Shadow!TheSnapshotIsServed'
  <2> SUFFICES ASSUME ShadowInv, Unread, Shadow!TheSnapshotIsServed, [Shadow!Next]_(Shadow!vars),
                      store_phase' = "mapped", Shadow!WholeChain'
               PROVE  (Shadow!OfTheSnapshot \/ Shadow!Said)'
    BY DEF Shadow!TheSnapshotIsServed
  <2>1. CASE UNCHANGED Shadow!vars
    BY <2>1 DEF Shadow!vars, Shadow!external, Shadow!reader,
       Shadow!TheSnapshotIsServed, Shadow!WholeChain, Shadow!LastBlock, Shadow!ListBlocks,
                Shadow!OfTheSnapshot, Shadow!Said
  <2>2. CASE Shadow!Read
    <3>1. Shadow!WholeChain
      BY <2>2 DEF Shadow!Read, Shadow!external, Shadow!WholeChain, Shadow!LastBlock,
         Shadow!ListBlocks
    <3> QED
      BY <2>2, <3>1, ReadServes
  <2>3. CASE Shadow!BeginFile \/ Shadow!SeekTo
    BY <2>3 DEF Shadow!BeginFile, Shadow!SeekTo, Shadow!OfTheSnapshot
  <2>4. CASE Shadow!StopWalk \/ Shadow!EndWalk
    <3>1. store_phase # "mapped" /\ served' = served
      BY <2>4 DEF Shadow!StopWalk, Shadow!EndWalk, Shadow!Walking, Shadow!reader
    <3> QED
      BY <3>1 DEF Shadow!OfTheSnapshot
  <2>5. ASSUME Shadow!Next, ~Shadow!Read, ~Shadow!BeginFile, ~Shadow!SeekTo,
               ~Shadow!StopWalk, ~Shadow!EndWalk
        PROVE  store_phase' # "mapped"
    BY <2>5 DEF Shadow!Next, Shadow!Overwrite, Shadow!Patch, Shadow!Move, Shadow!Break,
       Shadow!Open, Shadow!ReadListBlock, Shadow!Truncate, Shadow!InUse, Shadow!Walking
  <2> QED
    BY <2>1, <2>2, <2>3, <2>4, <2>5
<1>4. Inv /\ [MCNext]_mcvars => Inv'
  <2>1. [MCNext]_mcvars => [Shadow!Next]_(Shadow!vars)
    BY DEF MCNext, mcvars, shadow, Shadow!vars, Shadow!external, Shadow!walk,
       Shadow!reader
  <2> QED
    BY <1>2, <1>3, <2>1, NextKeepsShadowInv
<1>5. Inv => TheSnapshotIsServed
  BY DEF TheSnapshotIsServed
<1> QED
  BY <1>1, <1>4, <1>5, PTL DEF MCSpec
=============================================================================
