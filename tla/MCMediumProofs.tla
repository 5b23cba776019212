--------------------------- MODULE MCMediumProofs ---------------------------
(***************************************************************************)
(* The handles that share a volume, for any number of them and any medium:  *)
(* the anchor of SharedReader is true, and its handles implement the        *)
(* independent readers of ByteStream.  For any directory of image files and *)
(* any bound on the chain: a chain of links that was opened is the one its  *)
(* descriptors name, with no guess in it.  For any records, names and       *)
(* modulus: what is said of the names a directory has lost is true of them. *)
(* Then what MftWalkProofs says of any walk, of the two MCMedium runs.      *)
(* Last, for any extents, sizes and VDIs: a read returns the bytes the disk *)
(* holds there.                                                             *)
(***************************************************************************)
EXTENDS MCMedium, Sequences, FiniteSetTheorems, TLAPS

(* A handle nobody has made is where it will be made to have been.          *)
Unmade == \A h \in Handles \ open : got[h] = Nothing

(* got is a function, besides what TypeOK says of its answers.              *)
Answers == got \in [Handles -> {Nothing, Refused} \cup
                      { Answer(Bytes(from, count)) : from \in Offsets, count \in Offsets }]

IInv == TypeOK /\ Answers /\ Unmade /\ AnchorIsTrue

-----------------------------------------------------------------------------
(* Once sought, the reader underneath is where the handle reads, and a read *)
(* that starts inside the medium ends where no offset saturates.            *)
LEMMA ReadIsInPlace ==
    ASSUME IInv, NEW h \in open,
           NEW count \in 0..(IF Landed(h) < Length THEN Length - Landed(h) ELSE 0)
    PROVE  /\ Landed(h) = pos[h]
           /\ pos[h] \in Offsets
           /\ count \in Offsets
           /\ pos[h] + count \in Offsets
           /\ SaturatingAdd(pos[h], count) = pos[h] + count
<1> USE OffsetAssumption DEF IInv, TypeOK, Offsets
<1>1. pos[h] \in 0..MaxOffset
  OBVIOUS
<1>2. Landed(h) = pos[h]
  BY <1>1 DEF Landed, AnchoredAt, AnchorIsTrue, Unknown
<1> QED
  BY <1>1, <1>2 DEF SaturatingAdd

(* A new reader knows no anchor.                                            *)
LEMMA InitIInv == Init => IInv
  BY OffsetAssumption, HandleAssumption
  DEF Init, IInv, TypeOK, Answers, Unmade, AnchorIsTrue, Offsets, Unknown, Nothing

(* A read leaves the anchor where it left the reader.                       *)
LEMMA ReadKeepsIInv ==
    ASSUME IInv, NEW h \in Handles, Read(h) PROVE IInv'
<1> USE OffsetAssumption DEF IInv
<1>1. PICK count \in 0..(IF Landed(h) < Length THEN Length - Landed(h) ELSE 0) :
        /\ got' = [got EXCEPT ![h] = Answer(Bytes(Landed(h), count))]
        /\ cursor' = Landed(h) + count
        /\ at' = SaturatingAdd(pos[h], count)
        /\ pos' = [pos EXCEPT ![h] = SaturatingAdd(@, count)]
        /\ open' = open /\ h \in open
  BY DEF Read
<1>2. /\ Landed(h) = pos[h]
      /\ pos[h] \in Offsets
      /\ count \in Offsets
      /\ pos[h] + count \in Offsets
      /\ SaturatingAdd(pos[h], count) = pos[h] + count
  BY <1>1, ReadIsInPlace
<1>3. Answers'
  BY <1>1, <1>2 DEF Answers
<1>4. \A g \in Handles : got'[g].kind \in {"nothing", "read", "error"}
  BY <1>1 DEF TypeOK, Answers, Answer
<1>5. TypeOK'
  BY <1>1, <1>2, <1>4 DEF TypeOK
<1>6. AnchorIsTrue' /\ Unmade'
  BY <1>1, <1>2 DEF AnchorIsTrue, Unmade, Answers
<1> QED
  BY <1>3, <1>5, <1>6

(* Errors and panics: either the anchor is dropped, or it is where a seek   *)
(* left it and the reader has not moved.                                    *)
LEMMA BreakKeepsIInv ==
    ASSUME IInv, NEW h \in Handles,
           ReadFails(h) \/ SeekPanics(h) \/ ReadPanics(h) \/ SeekEndFails(h)
    PROVE  IInv'
<1> USE OffsetAssumption DEF IInv
<1>1. /\ got' = [got EXCEPT ![h] = Refused]
      /\ UNCHANGED << open, pos >>
      /\ h \in open
  BY DEF ReadFails, SeekPanics, ReadPanics, SeekEndFails
<1>2. \/ cursor' \in Offsets /\ at' = Unknown
      \/ cursor' = Landed(h) /\ at' = pos[h]
  BY DEF ReadFails, SeekPanics, ReadPanics, SeekEndFails, DropAnchor
<1>3. Landed(h) = pos[h] /\ pos[h] \in Offsets
  BY <1>1 DEF Landed, AnchoredAt, AnchorIsTrue, TypeOK, Unknown, Offsets
<1>4. Answers' /\ Unmade'
  BY <1>1 DEF Answers, Unmade
<1>5. \A g \in Handles : got'[g].kind \in {"nothing", "read", "error"}
  BY <1>1 DEF TypeOK, Answers, Refused
<1>6. TypeOK' /\ AnchorIsTrue'
  BY <1>1, <1>2, <1>3, <1>5 DEF TypeOK, AnchorIsTrue
<1> QED
  BY <1>4, <1>6

(* Seeks and clones: only SeekFrom::End goes near the reader.               *)
LEMMA SeekKeepsIInv ==
    ASSUME IInv, NEW h \in Handles,
           SeekStart(h) \/ SeekCurrent(h) \/ SeekEnd(h)
    PROVE  IInv'
<1> USE OffsetAssumption DEF IInv
<1>1. /\ h \in open /\ open' = open
      /\ \E a \in {Nothing, Refused} : got' = [got EXCEPT ![h] = a]
      /\ \E target \in Offsets : pos' = [pos EXCEPT ![h] = target]
      /\ \/ UNCHANGED << cursor, at >>
         \/ cursor' \in Offsets /\ at' = cursor'
  <2>1. CASE SeekStart(h)
    BY <2>1 DEF SeekStart
  <2>2. CASE SeekCurrent(h)
    <3>1. pos = [pos EXCEPT ![h] = pos[h]] /\ pos[h] \in Offsets
      BY DEF TypeOK
    <3> QED
      BY <2>2, <3>1 DEF SeekCurrent, Fits
  <2>3. CASE SeekEnd(h)
    BY <2>3 DEF SeekEnd, Offsets
  <2> QED
    BY <2>1, <2>2, <2>3
<1>2. Answers' /\ Unmade'
  BY <1>1 DEF Answers, Unmade
<1>3. \A g \in Handles : got'[g].kind \in {"nothing", "read", "error"}
  BY <1>1 DEF TypeOK, Answers, Refused, Nothing
<1>4. TypeOK' /\ AnchorIsTrue'
  BY <1>1, <1>3 DEF TypeOK, AnchorIsTrue
<1> QED
  BY <1>2, <1>4

(* Every step keeps the strengthening.                                      *)
LEMMA NextKeepsIInv == IInv /\ [Next]_vars => IInv'
<1> SUFFICES ASSUME IInv, [Next]_vars PROVE IInv'
  OBVIOUS
<1>1. CASE Next
  <2>1. PICK h \in Handles :
          \/ Read(h) \/ ReadFails(h) \/ SeekPanics(h) \/ ReadPanics(h)
          \/ SeekStart(h) \/ SeekCurrent(h) \/ SeekEnd(h) \/ SeekEndFails(h)
          \/ \E other \in Handles : Clone(h, other)
    BY <1>1 DEF Next
  <2>2. CASE \E other \in Handles : Clone(h, other)
    BY <2>2 DEF Clone, IInv, TypeOK, Answers, Unmade, AnchorIsTrue
  <2> QED
    BY <2>1, <2>2, ReadKeepsIInv, BreakKeepsIInv, SeekKeepsIInv
<1>2. CASE UNCHANGED vars
  BY <1>2 DEF vars, IInv, TypeOK, Answers, Unmade, AnchorIsTrue
<1> QED
  BY <1>1, <1>2

(* The strengthening is an invariant of every behaviour.                    *)
LEMMA IInvHolds == Spec => []IInv
  BY InitIInv, NextKeepsIInv, PTL DEF Spec

(* Cursor, anchor, handles and answers have their types: no arithmetic on   *)
(* positions leaves the range of an offset.                                 *)
THEOREM TypeCorrect == Spec => []TypeOK
  BY IInvHolds, PTL DEF IInv

(* A remembered anchor is where the reader really is, whatever was read,    *)
(* sought, refused or interrupted by a panic through any handle.            *)
THEOREM AnchorCorrect == Spec => []AnchorIsTrue
  BY IInvHolds, PTL DEF IInv

-----------------------------------------------------------------------------
(* A step of one handle is a step of that reader of ByteStream, and making  *)
(* a handle is a seek of the reader it becomes.                             *)
LEMMA StepIsAStreamStep == IInv /\ [Next]_vars => [Streams!Next]_(Streams!vars)
<1> SUFFICES ASSUME IInv, Next PROVE Streams!Next
  BY DEF vars, Streams!vars
<1> USE OffsetAssumption DEF IInv
<1>1. PICK h \in Handles :
        \/ Read(h) \/ ReadFails(h) \/ SeekPanics(h) \/ ReadPanics(h)
        \/ SeekStart(h) \/ SeekCurrent(h) \/ SeekEnd(h) \/ SeekEndFails(h)
        \/ \E other \in Handles : Clone(h, other)
  BY DEF Next
<1>2. CASE Read(h)
  <2>1. PICK count \in 0..(IF Landed(h) < Length THEN Length - Landed(h) ELSE 0) :
          /\ got' = [got EXCEPT ![h] = Answer(Bytes(Landed(h), count))]
          /\ pos' = [pos EXCEPT ![h] = SaturatingAdd(@, count)]
          /\ h \in open
    BY <1>2 DEF Read
  <2>2. /\ Landed(h) = pos[h]
        /\ SaturatingAdd(pos[h], count) = pos[h] + count
        /\ count \in 0..(MaxOffset - pos[h])
    BY <2>1, ReadIsInPlace DEF Offsets
  <2>3. got' = [got EXCEPT ![h] = Streams!Answer(Streams!Bytes(pos[h], count))]
    BY <2>1, <2>2 DEF Answer, Bytes, Streams!Answer, Streams!Bytes
  <2>4. pos' = [pos EXCEPT ![h] = @ + count]
    BY <2>1, <2>2
  <2>5. Streams!Read(h)
    BY <2>2, <2>3, <2>4 DEF Streams!Read
  <2> QED
    BY <2>5 DEF Streams!Next
<1>3. CASE ReadFails(h) \/ SeekPanics(h) \/ ReadPanics(h) \/ SeekEndFails(h)
  <2>1. Streams!Fail(h)
    BY <1>3 DEF ReadFails, SeekPanics, ReadPanics, SeekEndFails,
                Streams!Fail, Refused, Streams!Refused
  <2> QED
    BY <2>1 DEF Streams!Next
<1>4. CASE SeekStart(h) \/ SeekCurrent(h) \/ SeekEnd(h)
  <2>1. Streams!Seek(h) \/ Streams!Fail(h)
    BY <1>4 DEF SeekStart, SeekCurrent, SeekEnd, Fits, Offsets, Streams!Seek,
                Streams!Fail, Nothing, Refused, Streams!Nothing, Streams!Refused
  <2> QED
    BY <2>1 DEF Streams!Next
<1>5. ASSUME NEW other \in Handles, Clone(h, other) PROVE Streams!Next
  <2>1. got' = [got EXCEPT ![other] = Streams!Nothing]
    BY <1>5 DEF Clone, Unmade, Answers, Nothing, Streams!Nothing
  <2>2. pos[h] \in 0..MaxOffset
    BY DEF TypeOK, Offsets
  <2>3. Streams!Seek(other)
    BY <1>5, <2>1, <2>2 DEF Clone, Streams!Seek
  <2> QED
    BY <2>3 DEF Streams!Next
<1> QED
  BY <1>1, <1>2, <1>3, <1>4, <1>5

(* Every handle is a stream of its own: the detailed reader, with its one   *)
(* cursor and its anchor, implements the independent readers.               *)
THEOREM Independence == Spec => HandlesAreIndependent
<1>1. Init => Streams!Init
  BY DEF Init, Streams!Init, Nothing, Streams!Nothing
<1> QED
  BY <1>1, IInvHolds, StepIsAStreamStep, PTL
  DEF Spec, HandlesAreIndependent, Streams!Spec

-----------------------------------------------------------------------------
(* The files of a virtual disk.                                             *)
(* A link was taken for the parent of the one before it only because it is  *)
(* the one that link means, and so is the file to open link.                *)
ChainIsMeant ==
    /\ dir \in DiskDirectories /\ link \in DOMAIN dir
    /\ chain \in Seq(DOMAIN dir) /\ Len(chain) <= MaxChain
    /\ Disk!IsInjective(chain)
    /\ \A l \in 1 .. Len(chain) - 1 : chain[l + 1] \in Disk!Parents(chain[l])
    /\ disk_phase = "opening" /\ chain # << >> => link \in Disk!Parents(chain[Len(chain)])
    /\ disk_phase = "vmdk" => chain # << >> /\ dir[chain[Len(chain)]].parent_cid = Base

-----------------------------------------------------------------------------
LEMMA FilesAre ==
    /\ IsFiniteSet(Files) /\ MaxChain \in Nat /\ MaxParentScan \in Nat
    /\ \A d \in DiskDirectories : DOMAIN d \subseteq Files
  BY FileAssumption DEF FileAssumption, Disk!FileAssumption, Disk!IsFiniteSet, IsFiniteSet

LEMMA Counting == \A S : Disk!Cardinality(S) = Cardinality(S)
  BY DEF Disk!Cardinality, Cardinality

LEMMA SmallerOfTwo ==
    ASSUME NEW a \in Nat, NEW b \in Nat, b <= a PROVE Disk!Min({a, b}) = b
<1>1. \A x \in {a, b} : (\A y \in {a, b} : x <= y) <=> x = b
  OBVIOUS
<1> QED
  BY <1>1 DEF Disk!Min

(* find_parent: a file with the CID that is wanted, named by the child's    *)
(* hint or claimed by no other file beside it, as far as they were looked   *)
(* into; and that is all of them unless there are more than the bound.      *)
LEMMA ParentIsMeant ==
    ASSUME dir \in DiskDirectories, NEW f \in DOMAIN dir, NEW p \in Disk!Parents(f)
    PROVE  /\ p \in DOMAIN dir
           /\ dir[p].cid = dir[f].parent_cid
           /\ \/ dir[f].hint = p
              \/ \A g \in Disk!Beside(f) \ {p} : ~Disk!Claims(g, dir[f].parent_cid)
              \/ Disk!Cardinality(Disk!Beside(f)) > MaxParentScan
<1>1. PICK scanned \in Disk!Looked(f) : p \in Disk!Found(f, scanned)
  BY DEF Disk!Parents
<1>2. scanned \subseteq Disk!Beside(f) /\ Disk!Beside(f) \subseteq DOMAIN dir
  BY DEF Disk!Looked, Disk!Beside
<1>3. IsFiniteSet(Disk!Beside(f))
  <2>1. Disk!Beside(f) \subseteq Files
    BY <1>2, FilesAre
  <2> QED
    BY <2>1, FilesAre, FS_Subset
<1>4. CASE dir[f].hint \in DOMAIN dir /\ Disk!Claims(dir[f].hint, dir[f].parent_cid)
  BY <1>1, <1>4 DEF Disk!Found, Disk!Claims
<1>5. CASE ~(dir[f].hint \in DOMAIN dir /\ Disk!Claims(dir[f].hint, dir[f].parent_cid))
  <2> DEFINE matches == {g \in scanned : Disk!Claims(g, dir[f].parent_cid)}
  <2>1. p \in matches /\ Disk!Cardinality(matches) = 1
    BY <1>1, <1>5 DEF Disk!Found, Disk!OnlyOne
  <2>2. IsFiniteSet(matches)
    BY <1>2, <1>3, FS_Subset
  <2>3. \E x : matches = {x}
    BY <2>1, <2>2, Counting, FS_Singleton
  <2>4. \A g \in matches : g = p
    BY <2>1, <2>3
  <2>5. p \in DOMAIN dir /\ dir[p].cid = dir[f].parent_cid
    BY <1>2, <2>1 DEF Disk!Claims
  <2>6. CASE ~(Cardinality(Disk!Beside(f)) > MaxParentScan)
    <3> DEFINE n == Cardinality(Disk!Beside(f))
    <3>1. n \in Nat /\ MaxParentScan \in Nat
      BY <1>3, FilesAre, FS_CardinalityType
    <3>2. Cardinality(scanned) = Disk!Min({MaxParentScan, n})
      BY Counting DEF Disk!Looked
    <3>3. Disk!Min({MaxParentScan, n}) = n
      BY <2>6, <3>1, SmallerOfTwo
    <3>4. scanned = Disk!Beside(f)
      BY <1>2, <1>3, <3>2, <3>3, FS_Subset
    <3> QED
      BY <2>4, <2>5, <3>4
  <2>7. CASE Cardinality(Disk!Beside(f)) > MaxParentScan
    BY <2>5, <2>7, Counting
  <2> QED
    BY <2>6, <2>7
<1> QED
  BY <1>4, <1>5

LEMMA ParentsStay ==
    ASSUME UNCHANGED dir PROVE \A f : Disk!Parents(f)' = Disk!Parents(f)
<1>1. \A f : Disk!Looked(f)' = Disk!Looked(f)
  BY DEF Disk!Looked, Disk!Beside
<1>2. \A f, scanned : Disk!Found(f, scanned)' = Disk!Found(f, scanned)
  BY DEF Disk!Found, Disk!Claims
<1> QED
  BY <1>1, <1>2 DEF Disk!Parents

(* Vmdk::open for one link: a parent that is there already ends the chain,  *)
(* and so does the bound on its length.                                     *)
LEMMA OpenLinkKeeps ==
    ASSUME ChainIsMeant, Disk!OpenLink PROVE ChainIsMeant'
<1> USE DEF ChainIsMeant
<1>1. /\ chain' = Append(chain, link) /\ link \in DOMAIN dir /\ link \notin Disk!ToSet(chain)
      /\ Len(chain) < MaxChain /\ disk_phase = "opening" /\ UNCHANGED dir
  BY DEF Disk!OpenLink
<1>2. /\ chain' \in Seq(DOMAIN dir)
      /\ Len(chain') = Len(chain) + 1 /\ Len(chain) \in Nat
      /\ chain'[Len(chain')] = link
      /\ \A l \in 1 .. Len(chain) : chain'[l] = chain[l]
  BY <1>1
<1>3. Len(chain') <= MaxChain
  BY <1>1, <1>2, FilesAre
<1>4. \A f : Disk!Parents(f)' = Disk!Parents(f)
  BY <1>1, ParentsStay
<1>5. Disk!IsInjective(chain')
  <2>1. \A l \in 1 .. Len(chain) : chain[l] # link
    BY <1>1 DEF Disk!ToSet
  <2>2. DOMAIN chain = 1 .. Len(chain) /\ DOMAIN chain' = 1 .. Len(chain) + 1
    BY <1>2
  <2> SUFFICES ASSUME NEW a \in DOMAIN chain', NEW b \in DOMAIN chain', chain'[a] = chain'[b]
               PROVE  a = b
    BY DEF Disk!IsInjective
  <2>3. \A l \in 1 .. Len(chain) + 1 : l \in 1 .. Len(chain) \/ l = Len(chain')
    BY <1>2
  <2> QED
    BY <1>2, <2>1, <2>2, <2>3 DEF Disk!IsInjective
<1>6. ASSUME NEW l \in 1 .. Len(chain') - 1 PROVE (chain[l + 1] \in Disk!Parents(chain[l]))'
  <2>1. CASE l = Len(chain)
    <3>1. chain # << >>
      BY <1>2, <2>1
    <3>2. link \in Disk!Parents(chain[Len(chain)])
      BY <1>1, <3>1
    <3> QED
      BY <1>2, <1>4, <2>1, <3>2
  <2>2. CASE l \in 1 .. Len(chain) - 1
    <3>1. chain'[l] = chain[l] /\ chain'[l + 1] = chain[l + 1]
      BY <1>2, <2>2
    <3>2. chain[l + 1] \in Disk!Parents(chain[l])
      BY <2>2
    <3> QED
      BY <1>4, <3>1, <3>2
  <2> QED
    BY <1>2, <2>1, <2>2
<1>7. link' \in DOMAIN dir' /\ (disk_phase' = "opening" => (link \in Disk!Parents(chain[Len(chain)]))')
  <2>1. CASE dir[link].parent_cid = Base /\ disk_phase' = "vmdk" /\ UNCHANGED link
    BY <1>1, <2>1
  <2>2. CASE dir[link].parent_cid # Base /\ link' \in Disk!Parents(link) /\ UNCHANGED disk_phase
    BY <1>1, <1>4, <2>2, ParentIsMeant
  <2> QED
    BY <2>1, <2>2 DEF Disk!OpenLink
<1>8. disk_phase' = "vmdk" => dir'[link].parent_cid = Base
  BY <1>1 DEF Disk!OpenLink
<1>9. chain' # << >>
  BY <1>2
<1> QED
  BY <1>1, <1>2, <1>3, <1>5, <1>6, <1>7, <1>8, <1>9

LEMMA InitMeant == Disk!Init => ChainIsMeant
  BY FilesAre DEF Disk!Init, ChainIsMeant, Disk!IsInjective

(* What becomes of the image: a read or a seek leaves it alone.             *)
Opening == Disk!OpenFails \/ Disk!OpenLink \/ Disk!OpenVdi

LEMMA NextIsOpening == [Disk!Next]_(Disk!vars) => [Opening]_(Disk!image)
  BY DEF Disk!Next, Opening, Disk!ReadDisk, Disk!SeekDisk, Disk!vars, Disk!image

(* The other steps leave the chain, or leave it for good.                   *)
LEMMA OpeningKeepsMeant ==
    ChainIsMeant /\ [Opening]_(Disk!image) => ChainIsMeant'
<1> SUFFICES ASSUME ChainIsMeant, [Opening]_(Disk!image) PROVE ChainIsMeant'
  OBVIOUS
<1>1. CASE Disk!OpenLink
  BY <1>1, OpenLinkKeeps
<1>2. CASE ~Disk!OpenLink
  <2>1. UNCHANGED << dir, link, chain >> /\ (UNCHANGED disk_phase \/ disk_phase' \notin {"opening", "vmdk"})
    BY <1>2 DEF Opening, Disk!OpenFails, Disk!OpenVdi, Disk!image
  <2>2. \A f : Disk!Parents(f)' = Disk!Parents(f)
    BY <2>1, ParentsStay
  <2> QED
    BY <2>1, <2>2 DEF ChainIsMeant
<1> QED
  BY <1>1, <1>2

LEMMA MeantIsEnough == ChainIsMeant => Disk!NoParentIsGuessed
<1> SUFFICES ASSUME ChainIsMeant, disk_phase = "vmdk" PROVE Disk!NoParentIsGuessed
  BY DEF Disk!NoParentIsGuessed
<1>1. ASSUME NEW l \in 1 .. Len(chain) - 1
      PROVE  /\ dir[chain[l + 1]].cid = dir[chain[l]].parent_cid
             /\ \/ dir[chain[l]].hint = chain[l + 1]
                \/ \A f \in Disk!Beside(chain[l]) \ {chain[l + 1]} :
                       ~Disk!Claims(f, dir[chain[l]].parent_cid)
                \/ Disk!Cardinality(Disk!Beside(chain[l])) > MaxParentScan
  <2>1. chain[l] \in DOMAIN dir /\ chain[l + 1] \in Disk!Parents(chain[l])
    BY DEF ChainIsMeant
  <2> QED
    BY <2>1, ParentIsMeant DEF ChainIsMeant
<1> QED
  BY <1>1 DEF ChainIsMeant, Disk!NoParentIsGuessed

(* No chain is opened on a guess: every parent has the CID its child names, *)
(* by the child's own hint or as the only readable file beside it with that *)
(* CID, unless there are more than are looked into, no link is there twice, *)
(* and the last needs no parent.                                            *)
THEOREM ParentsCorrect == MCSpec => []NoParentIsGuessed
<1>1. MCInit => ChainIsMeant
  BY InitMeant DEF MCInit
<1>2. [MCNext]_<< part, vars, disk, walk, directory >> => [Opening]_(Disk!image)
  <2> SUFFICES ASSUME [MCNext]_<< part, vars, disk, walk, directory >>
               PROVE  [Opening]_(Disk!image)
    OBVIOUS
  <2>1. Disk!Next \/ UNCHANGED disk
    BY DEF MCNext
  <2> QED
    BY <2>1, NextIsOpening DEF disk, Disk!image, Disk!vars
<1> QED
  BY <1>1, <1>2, OpeningKeepsMeant, MeantIsEnough, PTL DEF MCSpec, NoParentIsGuessed

-----------------------------------------------------------------------------
(* The records count their files.                                           *)
Counted ==
    /\ record \in [Records -> [in_use : BOOLEAN, nth : Nat, first : Nat \ {0},
                              name : Leaves \cup {Directory!NotAFile}]]
    /\ \A r \in Records :
         /\ record[r].first <= record[r].nth
         /\ record[r].nth <= record[r].first + MaxReuse
         /\ record[r].in_use => record[r].nth < record[r].first + MaxReuse

(* An entry, counted or not, is of a file its record has or has had.        *)
Had(file) ==
    /\ file \in Records \X Nat
    /\ record[file[1]].first <= file[2] /\ file[2] <= record[file[1]].nth
    /\ ~record[file[1]].in_use => file[2] < record[file[1]].nth

Remembered ==
    /\ IsFiniteSet(entries) /\ IsFiniteSet(slack)
    /\ \A e \in entries \cup slack : Had(e.file)

(* What harvest found is of one record, which only moves on from there.     *)
FoundIsOfARecord ==
    Directory!Located =>
        /\ named.record \in Records
        /\ named.nth \in Nat /\ named.nth <= record[named.record].nth
        /\ named.files # {}
        /\ \A f \in named.files : f \in Records \X Nat /\ f[1] = named.record

CarvedIsOfTheRecord ==
    carved # Directory!NotAFile =>
        /\ Directory!Located
        /\ {carved} = named.files \/ named.nth < record[named.record].nth

DirectoryIInv ==
    /\ Counted
    /\ Remembered
    /\ FoundIsOfARecord
    /\ Directory!FateIsTrue
    /\ CarvedIsOfTheRecord

-----------------------------------------------------------------------------
(* Numbers less than a modulus apart are equal, or one apart, when their    *)
(* remainders are.                                                          *)
LEMMA EqualRemainders ==
    ASSUME NEW k \in Nat \ {0}, NEW a \in Nat, NEW b \in Nat,
           a <= b, b - a < k, a % k = b % k
    PROVE  a = b
<1> DEFINE q == (b \div k) - (a \div k)
<1>1. a \div k \in Int /\ b \div k \in Int /\ a % k \in Int
  OBVIOUS
<1>2. a = k * (a \div k) + (a % k) /\ b = k * (b \div k) + (b % k)
  OBVIOUS
<1>3. q \in Int /\ b - a = k * q
  BY <1>1, <1>2
<1> HIDE DEF q
<1>4. q >= 1 => k * q >= k
  BY <1>3
<1>5. q <= -1 => k * q <= -k
  BY <1>3
<1> QED
  BY <1>3, <1>4, <1>5

LEMMA NextRemainder ==
    ASSUME NEW k \in Nat \ {0}, NEW a \in Nat
    PROVE  (a + 1) % k = IF a % k = k - 1 THEN 0 ELSE (a % k) + 1
<1> DEFINE q == a \div k
           m == a % k
           p == (a + 1) \div k
           n == (a + 1) % k
<1>1. q \in Int /\ m \in 0..(k - 1) /\ p \in Int /\ n \in 0..(k - 1)
  OBVIOUS
<1>2. a = k * q + m /\ a + 1 = k * p + n
  OBVIOUS
<1>3. k * (p - q) = m + 1 - n
  BY <1>1, <1>2
<1> HIDE DEF q, m, p, n
<1>4. p - q \in Int /\ m + 1 - n > -k /\ m + 1 - n <= k
  BY <1>1
<1>5. p - q >= 2 => k * (p - q) >= 2 * k
  BY <1>4
<1>6. p - q <= -1 => k * (p - q) <= -k
  BY <1>4
<1>7. p - q = 0 \/ p - q = 1
  BY <1>3, <1>4, <1>5, <1>6
<1>8. n = IF m = k - 1 THEN 0 ELSE m + 1
  <2>1. CASE p - q = 0
    BY <1>1, <1>3, <2>1
  <2>2. CASE p - q = 1
    BY <1>1, <1>3, <2>2
  <2> QED
    BY <1>7, <2>1, <2>2
<1> QED
  BY <1>8 DEF m, n

(* Sequence numbers are not 0, tell the files of a record apart, and the    *)
(* next file's is the next number, but for the last.                        *)
LEMMA SequencesDiffer ==
    ASSUME Directory!ReuseAssumption, NEW r, NEW m \in Nat \ {0}, NEW n \in Nat \ {0},
           m <= n, n - m <= MaxReuse
    PROVE  /\ Directory!Sequence(<< r, m >>) \in 1..(Modulus - 1)
           /\ Directory!Sequence(<< r, n >>) \in 1..(Modulus - 1)
           /\ Directory!Sequence(<< r, m >>) = Directory!Sequence(<< r, n >>) => m = n
           /\ Directory!Sequence(<< r, n >>) = (Directory!Sequence(<< r, m >>) + 1) % Modulus => n = m + 1
           /\ n = m + 1 =>
                \/ Directory!Sequence(<< r, m >>) = Modulus - 1
                \/ Directory!Sequence(<< r, n >>) = (Directory!Sequence(<< r, m >>) + 1) % Modulus
<1> DEFINE k == Modulus - 1
           a == m - 1
           b == n - 1
<1>1. /\ k \in Nat \ {0} /\ a \in Nat /\ b \in Nat /\ a <= b /\ b - a < k
      /\ Modulus = k + 1
  BY DEF Directory!ReuseAssumption
<1>2. Directory!Sequence(<< r, m >>) = (a % k) + 1 /\ Directory!Sequence(<< r, n >>) = (b % k) + 1
  BY DEF Directory!Sequence
<1> HIDE DEF k, a, b
<1>3. a % k \in 0..(k - 1) /\ b % k \in 0..(k - 1)
  BY <1>1
<1>4. a % k = b % k => a = b
  BY <1>1, EqualRemainders
<1>5. (a + 1) % k = IF a % k = k - 1 THEN 0 ELSE (a % k) + 1
  BY <1>1, NextRemainder
<1>6. ((a % k) + 2) % Modulus = IF a % k = k - 1 THEN 0 ELSE (a % k) + 2
  <2>1. CASE a % k = k - 1
    <3>1. (k + 1) % (k + 1) = 0
      <4>1. k + 1 \in Nat \ {0} /\ k \in Nat /\ k < k + 1
        BY <1>1
      <4>2. k % (k + 1) = k
        BY <4>1
      <4> QED
        BY <4>1, <4>2, NextRemainder
    <3> QED
      BY <1>1, <2>1, <3>1
  <2>2. CASE a % k # k - 1
    <3>1. (a % k) + 2 \in Nat /\ (a % k) + 2 < Modulus
      BY <1>1, <1>3, <2>2
    <3> QED
      BY <1>1, <2>2, <3>1
  <2> QED
    BY <2>1, <2>2
<1>7. (b % k) + 1 = ((a % k) + 2) % Modulus => b % k = (a + 1) % k /\ a % k # k - 1
  BY <1>1, <1>3, <1>5, <1>6
<1>8. (b % k) + 1 = ((a % k) + 2) % Modulus => b = a + 1
  <2> SUFFICES ASSUME (b % k) + 1 = ((a % k) + 2) % Modulus PROVE b = a + 1
    OBVIOUS
  <2>1. b # a
    BY <1>3, <1>5, <1>7, <1>1
  <2>2. a + 1 <= b /\ b - (a + 1) < k /\ a + 1 \in Nat
    BY <1>1, <2>1
  <2> QED
    BY <1>1, <1>7, <2>2, EqualRemainders
<1>9. b = a + 1 => a % k = k - 1 \/ (b % k) + 1 = ((a % k) + 2) % Modulus
  BY <1>1, <1>3, <1>5, <1>6
<1>10. (m = n <=> a = b) /\ (n = m + 1 <=> b = a + 1)
  BY DEF a, b
<1>11. ((a % k) + 1) + 1 = (a % k) + 2
  BY <1>1, <1>3
<1> QED
  BY <1>1, <1>2, <1>3, <1>4, <1>8, <1>9, <1>10, <1>11

-----------------------------------------------------------------------------
LEMMA InitDirectory == Directory!ReuseAssumption /\ Directory!Init => DirectoryIInv
<1> SUFFICES ASSUME Directory!ReuseAssumption, Directory!Init PROVE DirectoryIInv
  OBVIOUS
<1>1. PICK first \in [Records -> 1 .. Modulus - 1] :
        record = [r \in Records |-> [in_use |-> FALSE, nth |-> first[r], first |-> first[r],
                                    name |-> Directory!NotAFile]]
  BY DEF Directory!Init
<1>2. entries = {} /\ slack = {} /\ named = Directory!Nothing /\ carved = Directory!NotAFile
  BY DEF Directory!Init
<1>3. Counted
  <2>1. \A r \in Records : first[r] \in Nat \ {0}
    BY DEF Directory!ReuseAssumption
  <2>2. \A r \in Records :
          record[r] = [in_use |-> FALSE, nth |-> first[r], first |-> first[r], name |-> Directory!NotAFile]
    BY <1>1
  <2>3. \A r \in Records : first[r] <= first[r] + MaxReuse
    BY <2>1 DEF Directory!ReuseAssumption
  <2> QED
    BY <1>1, <2>1, <2>2, <2>3 DEF Counted
<1>4. Remembered
  BY <1>2, FS_EmptySet DEF Remembered
<1>5. ~Directory!Located
  BY <1>2 DEF Directory!Located
<1> QED
  BY <1>2, <1>3, <1>4, <1>5
  DEF DirectoryIInv, FoundIsOfARecord, Directory!FateIsTrue, CarvedIsOfTheRecord

(* What slack gains was in the index.                                       *)
LEMMA SlackenTyped ==
    ASSUME IsFiniteSet(slack), NEW mine, IsFiniteSet(mine), Directory!Slacken(mine)
    PROVE  slack' \subseteq slack \cup mine /\ IsFiniteSet(slack')
<1>1. slack' \subseteq slack \cup mine
  BY DEF Directory!Slacken
<1>2. IsFiniteSet(slack \cup mine)
  BY FS_Union
<1> QED
  BY <1>1, <1>2, FS_Subset

(* Records only move on, so what was found and carved stays as it was.      *)
LEMMA MovingOn ==
    ASSUME DirectoryIInv, UNCHANGED << wanted, named, carved >>,
           \A r \in Records : record'[r].nth \in Nat /\ record'[r].nth >= record[r].nth
    PROVE  FoundIsOfARecord' /\ Directory!FateIsTrue' /\ CarvedIsOfTheRecord'
<1> USE DEF DirectoryIInv
<1>1. Directory!Located' = Directory!Located
  BY DEF Directory!Located
<1>2. ASSUME Directory!Located
      PROVE  /\ named.record \in Records /\ named.nth \in Nat
             /\ record[named.record].nth \in Nat
             /\ named.nth <= record[named.record].nth
             /\ record'[named.record].nth \in Nat
             /\ record[named.record].nth <= record'[named.record].nth
  BY <1>2 DEF FoundIsOfARecord, Counted
<1>3. FoundIsOfARecord'
  BY <1>1, <1>2 DEF FoundIsOfARecord
<1>4. Directory!FateIsTrue'
  BY <1>1 DEF Directory!FateIsTrue
<1>5. CarvedIsOfTheRecord'
  BY <1>1, <1>2 DEF CarvedIsOfTheRecord
<1> QED
  BY <1>3, <1>4, <1>5

(* A file that a record has or has had stays so.                            *)
LEMMA StayingHad ==
    ASSUME DirectoryIInv, Counted', NEW r \in Records,
           \A q \in Records : q # r => record'[q] = record[q],
           record'[r].first = record[r].first,
           \/ record'[r].nth = record[r].nth /\ record'[r].in_use
           \/ record[r].in_use /\ record'[r].nth = record[r].nth + 1
    PROVE  /\ \A file : Had(file) => Had(file)'
           /\ \A q \in Records : record'[q].nth \in Nat /\ record'[q].nth >= record[q].nth
<1> USE DEF DirectoryIInv, Counted
<1>1. ASSUME NEW q \in Records
      PROVE  /\ record[q].nth \in Nat /\ record'[q].nth \in Nat
             /\ record'[q].nth >= record[q].nth
             /\ record'[q].first = record[q].first
  BY <1>1
<1>2. ASSUME NEW file, Had(file) PROVE Had(file)'
  <2>1. file[1] \in Records /\ file[2] \in Nat
    BY <1>2 DEF Had
  <2>2. CASE file[1] = r
    BY <1>1, <1>2, <2>1, <2>2 DEF Had
  <2>3. CASE file[1] # r
    BY <1>1, <1>2, <2>1, <2>3 DEF Had
  <2> QED
    BY <2>2, <2>3
<1> QED
  BY <1>1, <1>2

(* A record is put to use.                                                  *)
LEMMA CreateKeepsDirectory ==
    ASSUME Directory!ReuseAssumption, DirectoryIInv, NEW r \in Records, NEW name \in Leaves, NEW here \in BOOLEAN,
           Directory!Create(r, name, here)
    PROVE  DirectoryIInv'
<1> USE DEF DirectoryIInv
<1>1. /\ ~record[r].in_use /\ record[r].nth < record[r].first + MaxReuse
      /\ record' = [record EXCEPT ![r].in_use = TRUE, ![r].name = name]
      /\ entries' = IF here THEN entries \cup {Directory!Entry(name, Directory!File(r))} ELSE entries
      /\ Directory!Slacken({})
      /\ UNCHANGED << wanted, named, carved >>
  BY DEF Directory!Create
<1>2. /\ \A q \in Records : q # r => record'[q] = record[q]
      /\ record'[r] = [record[r] EXCEPT !.in_use = TRUE, !.name = name]
  BY <1>1 DEF Counted
<1>3. Counted'
  <2>1. record'[r].nth = record[r].nth /\ record'[r].first = record[r].first
    BY <1>2 DEF Counted
  <2>2. record' \in [Records -> [in_use : BOOLEAN, nth : Nat, first : Nat \ {0},
                                name : Leaves \cup {Directory!NotAFile}]]
    BY <1>1 DEF Counted
  <2>3. ASSUME NEW q \in Records
        PROVE  /\ record'[q].first <= record'[q].nth
               /\ record'[q].nth <= record'[q].first + MaxReuse
               /\ record'[q].in_use => record'[q].nth < record'[q].first + MaxReuse
    BY <1>1, <1>2, <2>1 DEF Counted
  <2> QED
    BY <2>2, <2>3 DEF Counted
<1>4. /\ \A file : Had(file) => Had(file)'
      /\ \A q \in Records : record'[q].nth \in Nat /\ record'[q].nth >= record[q].nth
  <2>1. /\ record'[r].first = record[r].first /\ record'[r].nth = record[r].nth
        /\ record'[r].in_use
    BY <1>2 DEF Counted
  <2> QED
    BY <1>2, <1>3, <2>1, StayingHad
<1>5. Had(Directory!File(r))'
  <2>1. /\ record'[r].in_use /\ record'[r].nth \in Nat
        /\ record'[r].first <= record'[r].nth
    BY <1>2, <1>3 DEF Counted
  <2>2. Directory!File(r)' = << r, record'[r].nth >>
    BY DEF Directory!File
  <2> QED
    BY <2>1, <2>2 DEF Had
<1>6. slack' \subseteq slack /\ IsFiniteSet(slack')
  BY <1>1, SlackenTyped, FS_EmptySet DEF Remembered
<1>7. IsFiniteSet(entries')
  BY <1>1, FS_AddElement DEF Remembered
<1>8. Directory!File(r)' = Directory!File(r)
  BY <1>2 DEF Directory!File, Counted
<1>9. Remembered'
  BY <1>1, <1>4, <1>5, <1>6, <1>7, <1>8 DEF Remembered, Directory!Entry
<1> QED
  BY <1>1, <1>3, <1>4, <1>9, MovingOn

(* A record is given up, and moves on to the next file's number.            *)
LEMMA DeleteKeepsDirectory ==
    ASSUME Directory!ReuseAssumption, DirectoryIInv, NEW r \in Records, Directory!Delete(r)
    PROVE  DirectoryIInv'
<1> USE DEF DirectoryIInv
<1>1. /\ record[r].in_use
      /\ record' = [record EXCEPT ![r].in_use = FALSE, ![r].nth = @ + 1]
      /\ entries' \subseteq entries
      /\ Directory!Slacken(entries \ entries')
      /\ UNCHANGED << wanted, named, carved >>
  BY DEF Directory!Delete
<1>2. /\ \A q \in Records : q # r => record'[q] = record[q]
      /\ record'[r] = [record[r] EXCEPT !.in_use = FALSE, !.nth = @ + 1]
  BY <1>1 DEF Counted
<1>3. /\ record'[r].first = record[r].first /\ record'[r].nth = record[r].nth + 1
      /\ record[r] \in [in_use : BOOLEAN, nth : Nat, first : Nat \ {0},
                        name : Leaves \cup {Directory!NotAFile}]
  BY <1>2 DEF Counted
<1>4. Counted'
  BY <1>1, <1>2, <1>3 DEF Counted, Directory!ReuseAssumption
<1>5. /\ \A file : Had(file) => Had(file)'
      /\ \A q \in Records : record'[q].nth \in Nat /\ record'[q].nth >= record[q].nth
  BY <1>1, <1>2, <1>3, <1>4, StayingHad
<1>6. IsFiniteSet(entries') /\ IsFiniteSet(entries \ entries')
  BY <1>1, FS_Subset DEF Remembered
<1>7. slack' \subseteq slack \cup entries /\ IsFiniteSet(slack')
  BY <1>1, <1>6, SlackenTyped DEF Remembered
<1>8. Remembered'
  BY <1>1, <1>5, <1>6, <1>7 DEF Remembered
<1> QED
  BY <1>1, <1>4, <1>5, <1>8, MovingOn

(* A new name for the file a record has.                                    *)
LEMMA RenameKeepsDirectory ==
    ASSUME Directory!ReuseAssumption, DirectoryIInv, NEW r \in Records, NEW name \in Leaves, Directory!Rename(r, name)
    PROVE  DirectoryIInv'
<1> USE DEF DirectoryIInv
<1> DEFINE Renamed == [e \in entries |-> IF e.file = Directory!File(r) THEN Directory!Entry(name, e.file) ELSE e]
<1>1. /\ record[r].in_use
      /\ record' = [record EXCEPT ![r].name = name]
      /\ entries' = {IF e.file = Directory!File(r) THEN Directory!Entry(name, e.file) ELSE e : e \in entries}
      /\ Directory!Slacken(entries \ entries')
      /\ UNCHANGED << wanted, named, carved >>
  BY DEF Directory!Rename
<1>2. /\ \A q \in Records : q # r => record'[q] = record[q]
      /\ record'[r] = [record[r] EXCEPT !.name = name]
  BY <1>1 DEF Counted
<1>3. Counted'
  <2>1. /\ record'[r].nth = record[r].nth /\ record'[r].first = record[r].first
        /\ record'[r].in_use = record[r].in_use
    BY <1>2 DEF Counted
  <2> QED
    BY <1>1, <1>2, <2>1 DEF Counted
<1>4. /\ \A file : Had(file) => Had(file)'
      /\ \A q \in Records : record'[q].nth \in Nat /\ record'[q].nth >= record[q].nth
  <2>1. /\ record'[r].first = record[r].first /\ record'[r].nth = record[r].nth
        /\ record'[r].in_use
    BY <1>1, <1>2 DEF Counted
  <2> QED
    BY <1>2, <1>3, <2>1, StayingHad
<1>5. IsFiniteSet(entries')
  <2>1. Renamed \in [entries -> entries'] /\ \A x \in entries' : \E e \in entries : Renamed[e] = x
    BY <1>1
  <2>2. Renamed \in Surjection(entries, entries')
    BY <2>1 DEF Surjection
  <2> QED
    BY <2>2, FS_Surjection DEF Remembered
<1>6. \A x \in entries' : \E e \in entries : x.file = e.file
  BY <1>1 DEF Directory!Entry
<1>7. IsFiniteSet(entries \ entries')
  BY FS_Subset DEF Remembered
<1>8. slack' \subseteq slack \cup entries /\ IsFiniteSet(slack')
  BY <1>1, <1>7, SlackenTyped DEF Remembered
<1>9. Remembered'
  BY <1>4, <1>5, <1>6, <1>8 DEF Remembered
<1> QED
  BY <1>1, <1>3, <1>4, <1>9, MovingOn

(* A copy of what is counted.                                               *)
LEMMA RebalanceKeepsDirectory == DirectoryIInv /\ Directory!Rebalance => DirectoryIInv'
<1> SUFFICES ASSUME DirectoryIInv, Directory!Rebalance PROVE DirectoryIInv'
  OBVIOUS
<1> USE DEF DirectoryIInv
<1>1. Directory!Slacken(entries) /\ UNCHANGED << record, entries, wanted, named, carved >>
  BY DEF Directory!Rebalance
<1>2. slack' \subseteq slack \cup entries /\ IsFiniteSet(slack')
  BY <1>1, SlackenTyped DEF Remembered
<1>3. Counted' /\ Remembered'
  BY <1>1, <1>2 DEF Counted, Remembered, Had
<1>4. \A r \in Records : record'[r].nth \in Nat /\ record'[r].nth >= record[r].nth
  BY <1>1 DEF Counted
<1> QED
  BY <1>1, <1>3, <1>4, MovingOn

-----------------------------------------------------------------------------
(* Sequence numbers tell what became of a file its record has had.          *)
LEMMA FateOfAFile ==
    ASSUME Directory!ReuseAssumption, Counted, NEW file, Had(file)
    PROVE  LET r == file[1]
               fate == Directory!RecordFate(r, Directory!Sequence(file))
           IN  /\ fate = "still there" => record[r].in_use /\ file[2] = record[r].nth
               /\ fate = "reallocated" => record[r].in_use /\ file[2] < record[r].nth
               /\ fate = "free" => ~record[r].in_use /\ file[2] = record[r].nth - 1
               /\ fate = "freed again" =>
                    /\ ~record[r].in_use
                    /\ file[2] < record[r].nth - 1 \/ Directory!Sequence(file) = Modulus - 1
               /\ fate \in {"still there", "reallocated", "free", "freed again"}
<1> DEFINE r == file[1]
           m == file[2]
           n == record[r].nth
<1>1. /\ r \in Records /\ m \in Nat \ {0} /\ n \in Nat \ {0} /\ m <= n /\ n - m <= MaxReuse
      /\ record[r].in_use \in BOOLEAN
      /\ ~record[r].in_use => m < n
      /\ file = << r, m >>
  BY DEF Had, Counted, Directory!ReuseAssumption
<1>2. Directory!Now(r) = Directory!Sequence(<< r, n >>)
  BY DEF Directory!Now, Directory!File
<1> HIDE DEF r, m, n
<1>3. /\ Directory!Now(r) \in 1..(Modulus - 1)
      /\ Directory!Now(r) = Directory!Sequence(file) => m = n
      /\ Directory!Now(r) = (Directory!Sequence(file) + 1) % Modulus => n = m + 1
      /\ n = m + 1 =>
           Directory!Sequence(file) = Modulus - 1 \/ Directory!Now(r) = (Directory!Sequence(file) + 1) % Modulus
  BY <1>1, <1>2, SequencesDiffer
<1>4. CASE record[r].in_use
  <2>1. Directory!RecordFate(r, Directory!Sequence(file)) =
          IF Directory!Now(r) = Directory!Sequence(file) THEN "still there" ELSE "reallocated"
    BY <1>4 DEF Directory!RecordFate
  <2>2. m = n => Directory!Now(r) = Directory!Sequence(file)
    BY <1>1, <1>2
  <2>3. Directory!RecordFate(r, Directory!Sequence(file)) = "still there" => m = n
    BY <1>3, <2>1
  <2>4. Directory!RecordFate(r, Directory!Sequence(file)) = "reallocated" => m < n
    BY <1>1, <2>1, <2>2
  <2> QED
    BY <1>4, <2>1, <2>3, <2>4 DEF r, m, n
<1>5. CASE ~record[r].in_use
  <2>1. Directory!RecordFate(r, Directory!Sequence(file)) =
          IF Directory!StillItsOwn(Directory!Now(r), Directory!Sequence(file)) THEN "free" ELSE "freed again"
    BY <1>5 DEF Directory!RecordFate
  <2>2. Directory!RecordFate(r, Directory!Sequence(file)) = "free" => m = n - 1
    BY <1>1, <1>3, <1>5, <2>1 DEF Directory!StillItsOwn
  <2>3. Directory!RecordFate(r, Directory!Sequence(file)) = "freed again" =>
          m < n - 1 \/ Directory!Sequence(file) = Modulus - 1
    <3>1. ~Directory!StillItsOwn(Directory!Now(r), Directory!Sequence(file)) =>
            n # m + 1 \/ Directory!Sequence(file) = Modulus - 1
      BY <1>3 DEF Directory!StillItsOwn
    <3>2. n # m + 1 => m < n - 1
      BY <1>1, <1>5
    <3> QED
      BY <2>1, <3>1, <3>2
  <2> QED
    BY <1>5, <2>1, <2>2, <2>3 DEF r, m, n
<1> QED
  BY <1>1, <1>4, <1>5

(* What is said of a name is true of every file it named.                   *)
LEMMA HarvestKeepsDirectory == Directory!ReuseAssumption /\ DirectoryIInv /\ Directory!Harvest => DirectoryIInv'
<1> SUFFICES ASSUME Directory!ReuseAssumption, DirectoryIInv, Directory!Harvest PROVE DirectoryIInv'
  OBVIOUS
<1> USE DEF DirectoryIInv
<1> DEFINE mine == {e \in Directory!Recovered : e.name = wanted}
           references == {Directory!Reference(e) : e \in mine}
           Told(f) == [fate |-> Directory!RecordFate(f[1], f[2]), record |-> f[1], sequence |-> f[2],
                         files |-> {e.file : e \in mine},
                         nth |-> record[f[1]].nth, in_use |-> record[f[1]].in_use]
<1>1. /\ named = Directory!Nothing /\ UNCHANGED << record, entries, slack, wanted, carved >>
      /\ \/ named' = [fate |-> "not named"]
         \/ Directory!Unambiguous(references) /\ \E f \in references : named' = Told(f)
  BY DEF Directory!Harvest, Directory!volume
<1>2. carved' = Directory!NotAFile
  BY <1>1 DEF CarvedIsOfTheRecord, Directory!Located
<1>3. Counted' /\ Remembered' /\ CarvedIsOfTheRecord'
  BY <1>1, <1>2 DEF Counted, Remembered, Had, CarvedIsOfTheRecord
<1>4. CASE named' = [fate |-> "not named"]
  <2>1. ~Directory!Located'
    BY <1>4 DEF Directory!Located
  <2> QED
    BY <1>3, <2>1 DEF FoundIsOfARecord, Directory!FateIsTrue
<1>5. ASSUME Directory!Unambiguous(references), NEW f \in references, named' = Told(f)
      PROVE  FoundIsOfARecord' /\ Directory!FateIsTrue'
  <2>1. mine \subseteq slack /\ IsFiniteSet(mine)
    <3>1. mine \subseteq slack
      BY DEF Directory!Recovered
    <3> HIDE DEF mine
    <3> QED
      BY <3>1, FS_Subset DEF Remembered
  <2>2. IsFiniteSet(references)
    <3> DEFINE g == [e \in mine |-> Directory!Reference(e)]
    <3> HIDE DEF mine
    <3>1. g \in Surjection(mine, references)
      BY DEF Surjection
    <3> QED
      BY <2>1, <3>1, FS_Surjection
  <2>3. references = {f}
    <3> HIDE DEF mine, references
    <3>1. \E x : references = {x}
      BY <1>5, <2>2, FS_Singleton
      DEF Directory!Unambiguous, Directory!Cardinality, Cardinality
    <3> QED
      BY <1>5, <3>1
  <2>4. ASSUME NEW e \in mine
        PROVE  e.file[1] = f[1] /\ Directory!Sequence(e.file) = f[2] /\ Had(e.file)
    <3>1. Directory!Reference(e) = f /\ e \in slack
      BY <2>1, <2>3
    <3> QED
      BY <3>1 DEF Directory!Reference, Remembered
  <2>5. PICK e \in mine : f = Directory!Reference(e)
    OBVIOUS
  <2> HIDE DEF mine, references
  <2>6. /\ named'.fate = Directory!RecordFate(f[1], f[2]) /\ named'.record = f[1]
        /\ named'.sequence = f[2] /\ named'.files = {x.file : x \in mine}
        /\ named'.nth = record[f[1]].nth /\ named'.in_use = record[f[1]].in_use
    BY <1>5
  <2>7. f[1] \in Records /\ record[f[1]].nth \in Nat
    BY <2>4, <2>5 DEF Had, Counted
  <2>8. FoundIsOfARecord'
    <3>1. \A x \in mine : x.file \in Records \X Nat /\ x.file[1] = f[1]
      BY <2>4 DEF Had
    <3>2. named'.files # {}
      BY <2>5, <2>6
    <3>3. named'.nth <= record[f[1]].nth
      BY <2>6, <2>7
    <3>4. \A g \in named'.files : g \in Records \X Nat /\ g[1] = f[1]
      BY <2>6, <3>1
    <3> QED
      BY <1>1, <2>6, <2>7, <3>2, <3>3, <3>4 DEF FoundIsOfARecord
  <2>9. Directory!FateIsTrue'
    <3>1. ASSUME NEW x \in mine
          PROVE  /\ named'.fate = "still there" => named'.in_use /\ x.file[2] = named'.nth
                 /\ named'.fate = "reallocated" => named'.in_use /\ x.file[2] < named'.nth
                 /\ named'.fate = "free" => ~named'.in_use /\ x.file[2] = named'.nth - 1
                 /\ named'.fate = "freed again" =>
                      /\ ~named'.in_use
                      /\ x.file[2] < named'.nth - 1 \/ named'.sequence = Modulus - 1
                 /\ named'.fate \in {"still there", "reallocated", "free", "freed again"}
      <4> DEFINE fate == Directory!RecordFate(x.file[1], Directory!Sequence(x.file))
                 r == x.file[1]
      <4>1. Had(x.file) /\ f[1] = r /\ f[2] = Directory!Sequence(x.file)
        BY <2>4
      <4>2. /\ fate = "still there" => record[r].in_use /\ x.file[2] = record[r].nth
            /\ fate = "reallocated" => record[r].in_use /\ x.file[2] < record[r].nth
            /\ fate = "free" => ~record[r].in_use /\ x.file[2] = record[r].nth - 1
            /\ fate = "freed again" =>
                 /\ ~record[r].in_use
                 /\ x.file[2] < record[r].nth - 1 \/ Directory!Sequence(x.file) = Modulus - 1
            /\ fate \in {"still there", "reallocated", "free", "freed again"}
        BY <4>1, FateOfAFile
      <4>3. /\ named'.fate = fate /\ named'.sequence = Directory!Sequence(x.file)
            /\ named'.nth = record[r].nth /\ named'.in_use = record[r].in_use
        BY <2>6, <4>1
      <4> HIDE DEF fate, r
      <4> QED
        BY <4>2, <4>3
    <3> QED
      BY <2>6, <3>1 DEF Directory!FateIsTrue
  <2> QED
    BY <2>8, <2>9
<1> QED
  BY <1>1, <1>3, <1>4, <1>5

(* The last file of a record that has not moved is the one that was named.  *)
LEMMA CarveKeepsDirectory == DirectoryIInv /\ Directory!CarveSlack => DirectoryIInv'
<1> SUFFICES ASSUME DirectoryIInv, Directory!CarveSlack PROVE DirectoryIInv'
  OBVIOUS
<1> USE DEF DirectoryIInv
<1>1. /\ Directory!Located /\ named.fate = "free"
      /\ carved' = << named.record, record[named.record].nth - 1 >>
      /\ UNCHANGED << record, entries, slack, wanted, named >>
  BY DEF Directory!CarveSlack, Directory!Located, Directory!LastFile, Directory!volume
<1>2. /\ named.files # {} /\ named.nth \in Nat /\ named.record \in Records
      /\ named.nth <= record[named.record].nth /\ record[named.record].nth \in Nat
      /\ \A f \in named.files : f \in Records \X Nat /\ f[1] = named.record
                             /\ f[2] = named.nth - 1
  BY <1>1 DEF FoundIsOfARecord, Directory!FateIsTrue, Counted
<1>3. CASE record[named.record].nth = named.nth
  <2>1. \A f \in named.files : f = carved'
    BY <1>1, <1>2, <1>3
  <2>2. {carved'} = named.files
    BY <1>2, <2>1
  <2> QED
    BY <1>1, <2>2
    DEF Counted, Remembered, Had, FoundIsOfARecord, Directory!FateIsTrue, CarvedIsOfTheRecord, Directory!Located
<1>4. CASE named.nth < record[named.record].nth
  BY <1>1, <1>4
  DEF Counted, Remembered, Had, FoundIsOfARecord, Directory!FateIsTrue, CarvedIsOfTheRecord, Directory!Located
<1> QED
  BY <1>2, <1>3, <1>4

LEMMA NextKeepsDirectory == Directory!ReuseAssumption /\ DirectoryIInv /\ [Directory!Next]_(Directory!vars) => DirectoryIInv'
<1> SUFFICES ASSUME Directory!ReuseAssumption, DirectoryIInv, [Directory!Next]_(Directory!vars) PROVE DirectoryIInv'
  OBVIOUS
<1>1. ASSUME NEW r \in Records, NEW name \in Leaves, NEW here \in BOOLEAN,
             Directory!Create(r, name, here)
      PROVE  DirectoryIInv'
  BY <1>1, CreateKeepsDirectory
<1>2. ASSUME NEW r \in Records, NEW name \in Leaves, Directory!Rename(r, name) PROVE DirectoryIInv'
  BY <1>2, RenameKeepsDirectory
<1>3. ASSUME NEW r \in Records, Directory!Delete(r) PROVE DirectoryIInv'
  BY <1>3, DeleteKeepsDirectory
<1>4. CASE Directory!Rebalance
  BY <1>4, RebalanceKeepsDirectory
<1>5. CASE Directory!Harvest
  BY <1>5, HarvestKeepsDirectory
<1>6. CASE Directory!CarveSlack
  BY <1>6, CarveKeepsDirectory
<1>7. CASE UNCHANGED Directory!vars
  BY <1>7
  DEF DirectoryIInv, Counted, Remembered, Had, FoundIsOfARecord, Directory!FateIsTrue, CarvedIsOfTheRecord,
      Directory!Located, Directory!vars, Directory!volume
<1> QED
  BY <1>1, <1>2, <1>3, <1>4, <1>5, <1>6, <1>7 DEF Directory!Next

LEMMA DirectoryKept == MCSpec => []DirectoryIInv
<1>1. MCInit => DirectoryIInv
  BY ReuseIsBounded, InitDirectory DEF MCInit
<1>2. DirectoryIInv /\ [MCNext]_<< part, vars, disk, walk, directory >> => DirectoryIInv'
  <2> SUFFICES ASSUME DirectoryIInv, [MCNext]_<< part, vars, disk, walk, directory >>
               PROVE  DirectoryIInv'
    OBVIOUS
  <2>1. Directory!Next \/ UNCHANGED directory
    BY DEF MCNext
  <2>2. [Directory!Next]_(Directory!vars)
    BY <2>1 DEF directory, Directory!vars, Directory!volume
  <2> QED
    BY <2>2, ReuseIsBounded, NextKeepsDirectory
<1> QED
  BY <1>1, <1>2, PTL DEF MCSpec

(* What harvest says became of a record, from its sequence number alone, is *)
(* what did, but for a file with the last number.                           *)
THEOREM FateCorrect == MCSpec => []FateIsTrue
<1>1. DirectoryIInv => FateIsTrue
  BY DEF DirectoryIInv, FateIsTrue
<1> QED
  BY <1>1, DirectoryKept, PTL

(* What is carved by a name is the one file that had it, unless the record  *)
(* was used again since harvest looked at it.                               *)
THEOREM CarvedCorrect == MCSpec => []CarvedIsTheNamedFile
<1>1. DirectoryIInv => CarvedIsTheNamedFile
  BY DEF DirectoryIInv, CarvedIsOfTheRecord, FoundIsOfARecord, CarvedIsTheNamedFile,
         Directory!CarvedIsTheNamedFile, Directory!Unmoved, Counted
<1> QED
  BY <1>1, DirectoryKept, PTL

-----------------------------------------------------------------------------
(* The walk of the $MFT, where directories are in the root only, and where  *)
(* one may be in another.                                                   *)
AnyShallow == INSTANCE MftWalkProofs WITH
    LastRecord <- 3, MaxDepth <- 1, MaxSequence <- 2

LEMMA SameShallowWalk ==
    /\ Nested!Init => AnyShallow!Init
    /\ Shallow!Next => AnyShallow!Next
    /\ AnyShallow!PathsAreTrue => Shallow!PathsAreTrue
    /\ AnyShallow!LossesAreTold => Shallow!LossesAreTold
<1>1. Nested!Init => AnyShallow!Init
  BY Zenon DEF Nested!Init, Nested!Unused, Nested!RecordNumbers, Nested!Cardinality,
         AnyShallow!Init, AnyShallow!Unused, AnyShallow!RecordNumbers, AnyShallow!Cardinality
<1>2. Shallow!Next => AnyShallow!Next
  BY Zenon DEF Shallow!Next, Shallow!AddLink, Shallow!MoveTo, Shallow!Create, Shallow!Delete,
         Shallow!ReadRecords, Shallow!ResolveFile, Shallow!PassRecord, Shallow!ExplainLost,
         Shallow!Use, Shallow!Above, Shallow!LiveDirs, Shallow!To, Shallow!Link,
         Shallow!SequenceOf, Shallow!Indexed, Shallow!Believable, Shallow!StaleLinks,
         Shallow!LinksSeen, Shallow!StaleIn, Shallow!WithoutSequences, Shallow!IsStale,
         Shallow!ResolveDirectory, Shallow!ResolveLink, Shallow!ResolveLinks,
         Shallow!WithoutAPath, Shallow!IsFile, Shallow!Explain, Shallow!Known, Shallow!Nowhere,
         Shallow!Learn, Shallow!Directories, Shallow!Links, Shallow!Sequences,
         Shallow!RecordNumbers, Shallow!Root, Shallow!RootSequence, Shallow!volume,
         Shallow!Cardinality, Shallow!ToSet, AnyShallow!Next, AnyShallow!AddLink,
         AnyShallow!MoveTo, AnyShallow!Create, AnyShallow!Delete, AnyShallow!ReadRecords,
         AnyShallow!ResolveFile, AnyShallow!PassRecord, AnyShallow!ExplainLost, AnyShallow!Use,
         AnyShallow!Above, AnyShallow!LiveDirs, AnyShallow!To, AnyShallow!Link,
         AnyShallow!SequenceOf, AnyShallow!Indexed, AnyShallow!Believable,
         AnyShallow!StaleLinks, AnyShallow!LinksSeen, AnyShallow!StaleIn,
         AnyShallow!WithoutSequences, AnyShallow!IsStale, AnyShallow!ResolveDirectory,
         AnyShallow!ResolveLink, AnyShallow!ResolveLinks, AnyShallow!WithoutAPath,
         AnyShallow!IsFile, AnyShallow!Explain, AnyShallow!Known, AnyShallow!Nowhere,
         AnyShallow!Learn, AnyShallow!Directories, AnyShallow!Links, AnyShallow!Sequences,
         AnyShallow!RecordNumbers, AnyShallow!Root, AnyShallow!RootSequence, AnyShallow!volume,
         AnyShallow!Cardinality, AnyShallow!ToSet
<1>3. AnyShallow!PathsAreTrue => Shallow!PathsAreTrue
  BY Zenon DEF Shallow!PathsAreTrue, Shallow!Meant, Shallow!Up, Shallow!Leads, Shallow!WhyNot,
         Shallow!LiveDirs, Shallow!Root, Shallow!Directories, Shallow!Links, Shallow!Sequences,
         Shallow!RecordNumbers, Shallow!RootSequence, Shallow!ToSet, AnyShallow!PathsAreTrue,
         AnyShallow!Meant, AnyShallow!Up, AnyShallow!Leads, AnyShallow!WhyNot,
         AnyShallow!LiveDirs, AnyShallow!Root, AnyShallow!Directories, AnyShallow!Links,
         AnyShallow!Sequences, AnyShallow!RecordNumbers, AnyShallow!RootSequence,
         AnyShallow!ToSet
<1>4. AnyShallow!LossesAreTold => Shallow!LossesAreTold
  BY Zenon DEF Shallow!LossesAreTold, Shallow!Meant, Shallow!WhyNot, Shallow!LiveDirs,
         Shallow!Root, Shallow!Directories, Shallow!Links, Shallow!Sequences,
         Shallow!RecordNumbers, Shallow!RootSequence, Shallow!ToSet, AnyShallow!LossesAreTold,
         AnyShallow!Meant, AnyShallow!WhyNot, AnyShallow!LiveDirs, AnyShallow!Root,
         AnyShallow!Directories, AnyShallow!Links, AnyShallow!Sequences,
         AnyShallow!RecordNumbers, AnyShallow!RootSequence, AnyShallow!ToSet
<1> QED
  BY Zenon, <1>1, <1>2, <1>3, <1>4

LEMMA ShallowKept == MCSpec => [](part = "shallow" => AnyShallow!IInv)
<1> DEFINE Kept == part = "shallow" => AnyShallow!IInv
<1>0. AnyShallow!BoundAssumption
  BY DEF AnyShallow!BoundAssumption
<1>1. MCInit => Kept
  <2>1. MCInit => AnyShallow!Init
    BY Zenon, SameShallowWalk DEF MCInit
  <2> QED
    BY Zenon, <1>0, <2>1, AnyShallow!InitInvariant
<1>2. Kept /\ [MCNext]_<< part, vars, disk, walk, directory >> => Kept'
  <2> SUFFICES ASSUME Kept, [MCNext]_<< part, vars, disk, walk, directory >>,
                      part' = "shallow"
               PROVE  AnyShallow!IInv'
    OBVIOUS
  <2>1. part = "shallow" /\ (Shallow!Next \/ UNCHANGED walk)
    <3>1. "shallow" \notin {"handles", "disk", "nested", "directory"}
      OBVIOUS
    <3>2. CASE MCNext
      BY Zenon, <3>1, <3>2 DEF MCNext
    <3>3. CASE UNCHANGED << part, vars, disk, walk, directory >>
      BY <3>3
    <3> QED
      BY <3>2, <3>3
  <2>2. [AnyShallow!Next]_(AnyShallow!vars)
    BY <2>1, SameShallowWalk DEF walk, AnyShallow!vars, AnyShallow!volume
  <2> QED
    BY Zenon, <1>0, <2>1, <2>2, AnyShallow!NextKeepsInvariant
<1> QED
  BY <1>1, <1>2, PTL DEF MCSpec

AnyNested == INSTANCE MftWalkProofs WITH
    LastRecord <- 3, MaxDepth <- 2, MaxSequence <- 2

LEMMA SameNestedWalk ==
    /\ Nested!Init => AnyNested!Init
    /\ Nested!Next => AnyNested!Next
    /\ AnyNested!PathsAreTrue => Nested!PathsAreTrue
    /\ AnyNested!LossesAreTold => Nested!LossesAreTold
<1>1. Nested!Init => AnyNested!Init
  BY Zenon DEF Nested!Init, Nested!Unused, Nested!RecordNumbers, Nested!Cardinality,
         AnyNested!Init, AnyNested!Unused, AnyNested!RecordNumbers, AnyNested!Cardinality
<1>2. Nested!Next => AnyNested!Next
  BY Zenon DEF Nested!Next, Nested!AddLink, Nested!MoveTo, Nested!Create, Nested!Delete,
         Nested!ReadRecords, Nested!ResolveFile, Nested!PassRecord, Nested!ExplainLost,
         Nested!Use, Nested!Above, Nested!LiveDirs, Nested!To, Nested!Link, Nested!SequenceOf,
         Nested!Indexed, Nested!Believable, Nested!StaleLinks, Nested!LinksSeen,
         Nested!StaleIn, Nested!WithoutSequences, Nested!IsStale, Nested!ResolveDirectory,
         Nested!ResolveLink, Nested!ResolveLinks, Nested!WithoutAPath, Nested!IsFile,
         Nested!Explain, Nested!Known, Nested!Nowhere, Nested!Learn, Nested!Directories,
         Nested!Links, Nested!Sequences, Nested!RecordNumbers, Nested!Root,
         Nested!RootSequence, Nested!volume, Nested!Cardinality, Nested!ToSet, AnyNested!Next,
         AnyNested!AddLink, AnyNested!MoveTo, AnyNested!Create, AnyNested!Delete,
         AnyNested!ReadRecords, AnyNested!ResolveFile, AnyNested!PassRecord,
         AnyNested!ExplainLost, AnyNested!Use, AnyNested!Above, AnyNested!LiveDirs,
         AnyNested!To, AnyNested!Link, AnyNested!SequenceOf, AnyNested!Indexed,
         AnyNested!Believable, AnyNested!StaleLinks, AnyNested!LinksSeen, AnyNested!StaleIn,
         AnyNested!WithoutSequences, AnyNested!IsStale, AnyNested!ResolveDirectory,
         AnyNested!ResolveLink, AnyNested!ResolveLinks, AnyNested!WithoutAPath,
         AnyNested!IsFile, AnyNested!Explain, AnyNested!Known, AnyNested!Nowhere,
         AnyNested!Learn, AnyNested!Directories, AnyNested!Links, AnyNested!Sequences,
         AnyNested!RecordNumbers, AnyNested!Root, AnyNested!RootSequence, AnyNested!volume,
         AnyNested!Cardinality, AnyNested!ToSet
<1>3. AnyNested!PathsAreTrue => Nested!PathsAreTrue
  BY Zenon DEF Nested!PathsAreTrue, Nested!Meant, Nested!Up, Nested!Leads, Nested!WhyNot,
         Nested!LiveDirs, Nested!Root, Nested!Directories, Nested!Links, Nested!Sequences,
         Nested!RecordNumbers, Nested!RootSequence, Nested!ToSet, AnyNested!PathsAreTrue,
         AnyNested!Meant, AnyNested!Up, AnyNested!Leads, AnyNested!WhyNot, AnyNested!LiveDirs,
         AnyNested!Root, AnyNested!Directories, AnyNested!Links, AnyNested!Sequences,
         AnyNested!RecordNumbers, AnyNested!RootSequence, AnyNested!ToSet
<1>4. AnyNested!LossesAreTold => Nested!LossesAreTold
  BY Zenon DEF Nested!LossesAreTold, Nested!Meant, Nested!WhyNot, Nested!LiveDirs, Nested!Root,
         Nested!Directories, Nested!Links, Nested!Sequences, Nested!RecordNumbers,
         Nested!RootSequence, Nested!ToSet, AnyNested!LossesAreTold, AnyNested!Meant,
         AnyNested!WhyNot, AnyNested!LiveDirs, AnyNested!Root, AnyNested!Directories,
         AnyNested!Links, AnyNested!Sequences, AnyNested!RecordNumbers, AnyNested!RootSequence,
         AnyNested!ToSet
<1> QED
  BY Zenon, <1>1, <1>2, <1>3, <1>4

LEMMA NestedKept == MCSpec => [](part = "nested" => AnyNested!IInv)
<1> DEFINE Kept == part = "nested" => AnyNested!IInv
<1>0. AnyNested!BoundAssumption
  BY DEF AnyNested!BoundAssumption
<1>1. MCInit => Kept
  <2>1. MCInit => AnyNested!Init
    BY Zenon, SameNestedWalk DEF MCInit
  <2> QED
    BY Zenon, <1>0, <2>1, AnyNested!InitInvariant
<1>2. Kept /\ [MCNext]_<< part, vars, disk, walk, directory >> => Kept'
  <2> SUFFICES ASSUME Kept, [MCNext]_<< part, vars, disk, walk, directory >>,
                      part' = "nested"
               PROVE  AnyNested!IInv'
    OBVIOUS
  <2>1. part = "nested" /\ (Nested!Next \/ UNCHANGED walk)
    <3>1. "nested" \notin {"handles", "disk", "shallow", "directory"}
      OBVIOUS
    <3>2. CASE MCNext
      BY Zenon, <3>1, <3>2 DEF MCNext
    <3>3. CASE UNCHANGED << part, vars, disk, walk, directory >>
      BY <3>3
    <3> QED
      BY <3>2, <3>3
  <2>2. [AnyNested!Next]_(AnyNested!vars)
    BY <2>1, SameNestedWalk DEF walk, AnyNested!vars, AnyNested!volume
  <2> QED
    BY Zenon, <1>0, <2>1, <2>2, AnyNested!NextKeepsInvariant
<1> QED
  BY <1>1, <1>2, PTL DEF MCSpec

(* A path the walk finds is the volume's, and a file that is not deleted    *)
(* has every one of its paths.                                              *)
THEOREM PathsCorrect == MCSpec => []PathsAreTrue
<1>1. AnyShallow!BoundAssumption /\ AnyNested!BoundAssumption
  BY DEF AnyShallow!BoundAssumption, AnyNested!BoundAssumption
<1>2. (part = "shallow" => AnyShallow!IInv) => (part = "shallow" => Shallow!PathsAreTrue)
  BY Zenon, <1>1, AnyShallow!PathsFollow, SameShallowWalk
<1>3. (part = "nested" => AnyNested!IInv) => (part = "nested" => Nested!PathsAreTrue)
  BY Zenon, <1>1, AnyNested!PathsFollow, SameNestedWalk
<1>4. (part = "shallow" => Shallow!PathsAreTrue) /\ (part = "nested" => Nested!PathsAreTrue)
        => PathsAreTrue
  BY Zenon DEF PathsAreTrue
<1> QED
  BY <1>2, <1>3, <1>4, ShallowKept, NestedKept, PTL

(* A file without a path is counted, and what is wrong with the directories *)
(* that could not be reached is told as it is.                              *)
THEOREM LossesCorrect == MCSpec => []LossesAreTold
<1>1. AnyShallow!BoundAssumption /\ AnyNested!BoundAssumption
  BY DEF AnyShallow!BoundAssumption, AnyNested!BoundAssumption
<1>2. (part = "shallow" => AnyShallow!IInv) => (part = "shallow" => Shallow!LossesAreTold)
  BY Zenon, <1>1, AnyShallow!LossesFollow, SameShallowWalk
<1>3. (part = "nested" => AnyNested!IInv) => (part = "nested" => Nested!LossesAreTold)
  BY Zenon, <1>1, AnyNested!LossesFollow, SameNestedWalk
<1>4. (part = "shallow" => Shallow!LossesAreTold) /\ (part = "nested" => Nested!LossesAreTold)
        => LossesAreTold
  BY Zenon DEF LossesAreTold
<1> QED
  BY <1>2, <1>3, <1>4, ShallowKept, NestedKept, PTL

-----------------------------------------------------------------------------
(* What is read of a virtual disk: sizes, quotients and remainders first.   *)
LEMMA SizesAre ==
    /\ SectorSize \in Nat \ {0} /\ GrainSectors \in Nat \ {0} /\ BlockSize \in Nat \ {0}
    /\ BlockExtra \in Nat
  BY ImageAssumption DEF Disk!ImageAssumption

LEMMA ExtentsAre ==
    ASSUME NEW extents \in Bodies
    PROVE  /\ Len(extents) \in Nat /\ DOMAIN extents = 1 .. Len(extents)
           /\ \A i \in 1 .. Len(extents) : Disk!IsExtent(extents[i])
           /\ \A i \in 1 .. Len(extents) : extents[i].sectors \in Nat
  BY ImageAssumption DEF Disk!ImageAssumption, Disk!IsSequence, Disk!IsExtent

LEMMA DivisionIs ==
    ASSUME NEW K \in Nat \ {0}, NEW p \in Nat
    PROVE  /\ p \div K \in Nat /\ p % K \in 0 .. K - 1
           /\ p = K * (p \div K) + (p % K)
<1>1. p = K * (p \div K) + (p % K)
  OBVIOUS
<1>2. p \div K \in Nat /\ p % K \in 0 .. K - 1
  OBVIOUS
<1> QED
  BY <1>1, <1>2

LEMMA Divided ==
    ASSUME NEW K \in Nat \ {0}, NEW p \in Nat
    PROVE  \E q \in Nat, r \in 0 .. K - 1 : q = p \div K /\ r = p % K /\ p = K * q + r
  BY DivisionIs, Zenon

LEMMA Distribute ==
    ASSUME NEW a \in Int, NEW b \in Int, NEW c \in Int, NEW d \in Int
    PROVE  (a * b + c) * d = b * (a * d) + c * d
  OBVIOUS

(* A number is put together from its quotient and its remainder.            *)
LEMMA DivisionBack ==
    ASSUME NEW K \in Nat \ {0}, NEW b \in Nat, NEW r \in 0 .. K - 1
    PROVE  (b * K + r) \div K = b /\ (b * K + r) % K = r
<1> DEFINE p == b * K + r
<1>1. p \in Nat
  OBVIOUS
<1>2. PICK q, m \in Int : q = p \div K /\ m = p % K /\ m \in 0 .. K - 1 /\ p = K * q + m
  BY <1>1, DivisionIs
<1>3. K * (q - b) = r - m
  BY <1>2
<1>4. q - b >= 1 => K * (q - b) >= K
  BY <1>2
<1>5. q - b <= -1 => K * (q - b) <= -K
  BY <1>2
<1> QED
  BY <1>2, <1>3, <1>4, <1>5

(* What is ahead of the start of a unit lies in a later one.                *)
LEMMA DivisionOn ==
    ASSUME NEW K \in Nat \ {0}, NEW b \in Nat, NEW j \in Nat
    PROVE  (b * K + j) \div K = b + j \div K /\ (b * K + j) % K = j % K
<1>1. PICK q \in Nat, r \in 0 .. K - 1 : q = j \div K /\ r = j % K /\ j = K * q + r
  BY DivisionIs, Zenon
<1>2. b * K + j = (b + q) * K + r /\ b + q \in Nat
  BY <1>1
<1>3. ((b + q) * K + r) \div K = b + q /\ ((b + q) * K + r) % K = r
  BY <1>2, DivisionBack
<1> QED
  BY <1>1, <1>2, <1>3, Zenon

(* Numbers below a multiple have the smaller quotients.                     *)
LEMMA DivisionBelow ==
    ASSUME NEW K \in Nat \ {0}, NEW p \in Nat, NEW n \in Nat
    PROVE  p < n * K <=> p \div K < n
<1>1. PICK q, m \in Int : q = p \div K /\ m = p % K /\ m \in 0 .. K - 1 /\ p = K * q + m
  BY DivisionIs
<1>2. q < n => n * K >= K * (q + 1)
  BY <1>1
<1>3. q >= n => K * q >= n * K
  BY <1>1
<1> QED
  BY <1>1, <1>2, <1>3

(* The least of a set of numbers.                                           *)
LEMMA MinIs ==
    ASSUME NEW S, S \subseteq Nat, S # {}
    PROVE  Disk!Min(S) \in S /\ \A y \in S : Disk!Min(S) <= y
<1>1. \E n \in S : \A m \in S : n <= m
  BY Zenon, AnyShallow!LeastFailure
<1> QED
  BY <1>1, Zenon DEF Disk!Min

-----------------------------------------------------------------------------
(* The ends of the extents, one behind the other.                           *)
LEMMA EndsUnfold ==
    ASSUME NEW extents \in Bodies
    PROVE  /\ Disk!Ends(extents)[0] = 0
           /\ \A n \in 1 .. Len(extents) :
                Disk!Ends(extents)[n] = Disk!Ends(extents)[n - 1] + extents[n].sectors
<1> DEFINE N == Len(extents)
           Step(i, before) == IF i = 0 THEN 0 ELSE before + extents[i].sectors
           Is(m, f) == f = [i \in 0 .. m |-> Step(i, f[i - 1])]
           Fails == { m \in Nat : ~\E f : Is(m, f) }
<1>0. N \in Nat
  BY ExtentsAre
<1>1. \A f, g : Step(0, f) = Step(0, g)
  OBVIOUS
<1>2. Disk!Ends(extents) = CHOOSE f : Is(N, f)
  BY Zenon DEF Disk!Ends
<1> HIDE DEF Step, N
<1>3. \A m \in Nat : \A f : Is(m, f) => \A i \in 0 .. m : f[i] = Step(i, f[i - 1])
  OBVIOUS
<1>4. Fails = {}
  <2> SUFFICES ASSUME Fails # {} PROVE FALSE
    BY Zenon
  <2>1. PICK n \in Fails : \A m \in Fails : n <= m
    <3> Fails \subseteq Nat
      OBVIOUS
    <3> HIDE DEF Fails
    <3> QED
      BY Zenon, AnyShallow!LeastFailure
  <2>2. n \in Nat /\ ~\E f : Is(n, f)
    BY Zenon, <2>1
  <2>3. n # 0
    <3> DEFINE zero == [i \in 0 .. 0 |-> Step(0, << >>)]
    <3>1. zero = [i \in 0 .. 0 |-> Step(i, zero[i - 1])]
      BY <1>1
    <3> QED
      BY <2>2, <3>1
  <2>4. n - 1 \in Nat /\ n - 1 \notin Fails
    <3>1. n - 1 \in Nat /\ ~(n <= n - 1)
      BY <2>2, <2>3
    <3> HIDE DEF Fails
    <3> QED
      BY <2>1, <3>1
  <2>5. PICK f : Is(n - 1, f)
    BY Zenon, <2>4
  <2> DEFINE g == [i \in 0 .. n |-> IF i = n THEN Step(n, f[n - 1]) ELSE f[i]]
  <2>6. ASSUME NEW i \in 0 .. n PROVE g[i] = Step(i, g[i - 1])
    <3>1. CASE i = n
      <4>1. g[i - 1] = f[n - 1]
        BY <2>2, <2>3, <3>1
      <4> QED
        BY <3>1, <4>1
    <3>2. CASE i # n
      <4>1. i \in 0 .. (n - 1) /\ g[i] = f[i] /\ f[i] = Step(i, f[i - 1])
        <5>1. n \in Nat
          BY Zenon, <2>2
        <5>2. i \in 0 .. (n - 1)
          BY <3>2, <5>1
        <5>3. f[i] = Step(i, f[i - 1])
          BY Zenon, <1>3, <2>4, <2>5, <5>2
        <5> QED
          BY Zenon, <3>2, <5>2, <5>3
      <4>2. CASE i = 0
        BY <1>1, <4>1, <4>2
      <4>3. CASE i # 0
        <5>1. g[i - 1] = f[i - 1]
          BY <2>2, <3>2, <4>3
        <5> QED
          BY <4>1, <5>1
      <4> QED
        BY <4>2, <4>3
    <3> QED
      BY <3>1, <3>2
  <2>7. g = [i \in 0 .. n |-> g[i]]
    OBVIOUS
  <2> HIDE DEF g
  <2>8. Is(n, g)
    BY <2>6, <2>7
  <2> QED
    BY Zenon, <2>2, <2>8
<1> DEFINE h == Disk!Ends(extents)
<1>5. Is(N, h)
  BY Zenon, <1>0, <1>2, <1>4
<1> HIDE DEF h, Is
<1>6. \A i \in 0 .. N : h[i] = Step(i, h[i - 1])
  BY Zenon, <1>0, <1>3, <1>5
<1>7. h[0] = 0
  BY <1>0, <1>6 DEF Step
<1>8. ASSUME NEW n \in 1 .. N PROVE h[n] = h[n - 1] + extents[n].sectors
  <2>1. n \in 0 .. N /\ n # 0
    BY <1>0
  <2> QED
    BY Zenon, <1>6, <2>1 DEF Step
<1> QED
  BY Zenon, <1>7, <1>8 DEF h, N

(* No extent ends before the one ahead of it.                               *)
LEMMA EndsGrow ==
    ASSUME NEW extents \in Bodies
    PROVE  /\ \A n \in 0 .. Len(extents) : Disk!Ends(extents)[n] \in Nat
           /\ \A m, n \in 0 .. Len(extents) : m <= n => Disk!Ends(extents)[m] <= Disk!Ends(extents)[n]
<1> DEFINE N == Len(extents)
           h == Disk!Ends(extents)
           Bad == { n \in 0 .. N : h[n] \notin Nat \/ \E m \in 0 .. n : ~(h[m] <= h[n]) }
<1>1. N \in Nat /\ \A n \in 1 .. N : extents[n].sectors \in Nat
  BY ExtentsAre
<1>2. h[0] = 0 /\ \A n \in 1 .. N : h[n] = h[n - 1] + extents[n].sectors
  BY EndsUnfold
<1> HIDE DEF N, h
<1>3. Bad = {}
  <2> SUFFICES ASSUME Bad # {} PROVE FALSE
    OBVIOUS
  <2>1. PICK n \in Bad : \A m \in Bad : n <= m
    <3> Bad \subseteq Nat
      OBVIOUS
    <3> HIDE DEF Bad
    <3> QED
      BY Zenon, AnyShallow!LeastFailure
  <2>2. n \in 0 .. N /\ (h[n] \notin Nat \/ \E m \in 0 .. n : ~(h[m] <= h[n]))
    OBVIOUS
  <2>3. n # 0
    <3> SUFFICES ASSUME n = 0 PROVE FALSE
      OBVIOUS
    <3>1. \A m \in 0 .. n : m = 0
      OBVIOUS
    <3> QED
      BY <1>2, <2>2, <3>1
  <2>4. n \in 1 .. N /\ n - 1 \in 0 .. N /\ n - 1 \notin Bad
    <3> HIDE DEF Bad
    <3> QED
      BY <1>1, <2>1, <2>2, <2>3
  <2>5. h[n - 1] \in Nat /\ \A m \in 0 .. n - 1 : h[m] <= h[n - 1]
    BY <2>4
  <2>6. h[n] = h[n - 1] + extents[n].sectors /\ extents[n].sectors \in Nat
    BY <1>1, <1>2, <2>4
  <2>7. \A m \in 0 .. n - 1 : h[m] \in Nat
    <3> SUFFICES ASSUME NEW m \in 0 .. n - 1 PROVE h[m] \in Nat
      OBVIOUS
    <3>1. m \in 0 .. N /\ ~(n <= m)
      BY <1>1, <2>4
    <3>2. m \notin Bad
      <4> HIDE DEF Bad
      <4> QED
        BY <2>1, <3>1
    <3> QED
      BY <3>1, <3>2
  <2>8. \A m \in 0 .. n : m \in 0 .. n - 1 \/ m = n
    BY <2>4
  <2> QED
    BY <2>2, <2>5, <2>6, <2>7, <2>8
<1> QED
  BY <1>1, <1>3 DEF N, h

(* A sector lies in one extent of a link at most, and in one at all if the  *)
(* link reaches as far.                                                     *)
LEMMA OneExtent ==
    ASSUME NEW extents \in Bodies, NEW s \in Nat, NEW i \in DOMAIN extents,
           Disk!Start(extents, i) <= s, s < Disk!Start(extents, i) + extents[i].sectors
    PROVE  Disk!ExtentOf(extents, s) = {i} /\ s < Disk!Sectors(extents)
<1> DEFINE N == Len(extents)
           h == Disk!Ends(extents)
<1>1. /\ N \in Nat /\ DOMAIN extents = 1 .. N /\ \A n \in 0 .. N : h[n] \in Nat
      /\ \A m, n \in 0 .. N : m <= n => h[m] <= h[n]
      /\ \A n \in 1 .. N : h[n] = h[n - 1] + extents[n].sectors
  BY ExtentsAre, EndsUnfold, EndsGrow
<1>2. i \in 1 .. N /\ h[i - 1] <= s /\ s < h[i]
  BY <1>1 DEF Disk!Start
<1> HIDE DEF N, h
<1>3. ASSUME NEW j \in 1 .. N, h[j - 1] <= s, s < h[j] PROVE j = i
  <2>1. i < j => h[i] <= h[j - 1]
    <3>1. i \in 0 .. N /\ j - 1 \in 0 .. N /\ (i < j => i <= j - 1)
      BY <1>1, <1>2
    <3> QED
      BY <1>1, <3>1
  <2>2. j < i => h[j] <= h[i - 1]
    <3>1. j \in 0 .. N /\ i - 1 \in 0 .. N /\ (j < i => j <= i - 1)
      BY <1>1, <1>2
    <3> QED
      BY <1>1, <3>1
  <2>3. h[i] \in Nat /\ h[j] \in Nat /\ h[i - 1] \in Nat /\ h[j - 1] \in Nat
    <3>1. {i, j, i - 1, j - 1} \subseteq 0 .. N
      BY <1>1, <1>2
    <3> QED
      BY <1>1, <3>1
  <2> QED
    BY <1>2, <1>3, <2>1, <2>2, <2>3
<1>4. ASSUME NEW j \in 1 .. N
      PROVE  (Disk!Start(extents, j) <= s /\ s < Disk!Start(extents, j) + extents[j].sectors)
               <=> (h[j - 1] <= s /\ s < h[j])
  BY <1>1 DEF Disk!Start, h
<1>5. h[i] <= h[N] /\ h[i] \in Nat /\ h[N] \in Nat
  <2>1. i \in 0 .. N /\ N \in 0 .. N /\ i <= N
    BY <1>1, <1>2
  <2> QED
    BY <1>1, <2>1
<1>6. s < h[N]
  BY <1>2, <1>5
<1> QED
  BY <1>1, <1>2, <1>3, <1>4, <1>6 DEF Disk!ExtentOf, Disk!Sectors, N, h

LEMMA SomeExtent ==
    ASSUME NEW extents \in Bodies, NEW s \in Nat, s < Disk!Sectors(extents)
    PROVE  \E i \in DOMAIN extents :
             Disk!Start(extents, i) <= s /\ s < Disk!Start(extents, i) + extents[i].sectors
<1> DEFINE N == Len(extents)
           h == Disk!Ends(extents)
           Past == { n \in 0 .. N : s < h[n] }
<1>1. /\ N \in Nat /\ DOMAIN extents = 1 .. N /\ \A n \in 0 .. N : h[n] \in Nat
      /\ h[0] = 0 /\ \A n \in 1 .. N : h[n] = h[n - 1] + extents[n].sectors
  BY ExtentsAre, EndsUnfold, EndsGrow
<1>2. s < h[N]
  BY DEF Disk!Sectors
<1> HIDE DEF N, h
<1>3. N \in Past
  BY <1>1, <1>2
<1>4. PICK n \in Past : \A m \in Past : n <= m
  <2> Past \subseteq Nat
    BY <1>1
  <2> HIDE DEF Past
  <2> QED
    BY Zenon, <1>3, AnyShallow!LeastFailure
<1>5. n \in 1 .. N /\ s < h[n]
  BY <1>1, <1>4
<1>6. n - 1 \in 0 .. N /\ n - 1 \notin Past
  <2> HIDE DEF Past
  <2> QED
    BY <1>1, <1>4, <1>5
<1>7. h[n - 1] <= s
  BY <1>1, <1>6
<1> QED
  BY <1>1, <1>5, <1>7 DEF Disk!Start, h

-----------------------------------------------------------------------------
(* A sector of an extent is in one of its grains.                           *)
LEMMA SectorsHaveGrains ==
    ASSUME NEW x, x.sectors \in Nat, NEW local \in Nat, local < x.sectors
    PROVE  /\ Disk!Grains(x) \in Nat
           /\ local \div GrainSectors \in 0 .. Disk!Grains(x) - 1
<1> DEFINE n == x.sectors + GrainSectors - 1
<1>1. n \in Nat /\ local + GrainSectors <= n
  BY SizesAre
<1>2. Disk!Grains(x) = n \div GrainSectors
  BY DEF Disk!Grains
<1> HIDE DEF n
<1>3. PICK q \in Nat, r \in 0 .. GrainSectors - 1 :
        q = n \div GrainSectors /\ r = n % GrainSectors /\ n = GrainSectors * q + r
  BY <1>1, SizesAre, Divided, Zenon
<1>4. PICK g \in Nat, m \in 0 .. GrainSectors - 1 :
        g = local \div GrainSectors /\ m = local % GrainSectors /\ local = GrainSectors * g + m
  BY SizesAre, Divided, Zenon
<1>5. q <= g => GrainSectors * q <= GrainSectors * g
  BY SizesAre
<1>6. GrainSectors * q \in Nat /\ GrainSectors * g \in Nat
  BY SizesAre
<1>7. ~(q <= g)
  BY <1>1, <1>3, <1>4, <1>5, <1>6, SizesAre
<1> QED
  BY <1>2, <1>3, <1>4, <1>7

-----------------------------------------------------------------------------
(* One extent, from a sector of it on.                                      *)
HoldsAt(x, off) ==
    CASE x.kind = "zero" -> "zeroed"
      [] x.kind = "flat" -> IF Disk!BaseOf(x) + off < x.file_len THEN "stored" ELSE "unallocated"
      [] x.kind = "sparse" -> x.grains[off \div Disk!GrainBytes]

LengthOfFile(x) ==
    IF x.kind = "flat" THEN x.file_len ELSE Disk!Grains(x) * Disk!GrainBytes
PlaceInFile(x, address) ==
    IF x.kind = "flat" THEN address - Disk!BaseOf(x)
    ELSE (Disk!Grains(x) - 1 - address \div Disk!GrainBytes) * Disk!GrainBytes
           + (address % Disk!GrainBytes)

LEMMA Times ==
    ASSUME NEW K \in Nat \ {0}, NEW a \in Nat \ {0} PROVE a * K \in Nat /\ a * K >= K
  OBVIOUS

LEMMA BaseIs ==
    ASSUME NEW x, Disk!IsExtent(x), x.kind = "flat"
    PROVE  /\ x.offset \in Nat /\ x.file_len \in Nat
           /\ Disk!BaseOf(x) \in Nat /\ Disk!BaseOf(x) = x.offset * SectorSize
  BY SizesAre DEF Disk!IsExtent, Disk!BaseOf

(* A run is no longer than the extent, and not shorter than a sector unless *)
(* the file of a flat one is cut off inside a sector.                       *)
LEMMA RunIs ==
    ASSUME NEW x, Disk!IsExtent(x), NEW local \in Nat, local < x.sectors
    PROVE  /\ Disk!Located(x, local).run \in Nat
           /\ Disk!Located(x, local).run <= (x.sectors - local) * SectorSize
           /\ (x.kind = "flat" => x.file_len % SectorSize = 0)
                => Disk!Located(x, local).run >= SectorSize
<1> DEFINE whole == (x.sectors - local) * SectorSize
           here == local * SectorSize
<1>1. x.sectors \in Nat /\ x.kind \in {"zero", "flat", "sparse"}
  BY DEF Disk!IsExtent
<1>2. whole \in Nat /\ whole >= SectorSize
  <2>1. x.sectors - local \in Nat \ {0}
    BY <1>1
  <2> QED
    BY <2>1, SizesAre, Times
<1>3. Disk!ToExtentEnd(x, local) = whole
  BY DEF Disk!ToExtentEnd
<1>4. here \in Nat
  BY SizesAre
<1> HIDE DEF whole
<1>5. CASE x.kind = "zero"
  BY <1>2, <1>3, <1>5 DEF Disk!Located, Disk!Zeroed, whole
<1>6. CASE x.kind = "flat"
  <2>1. x.file_len \in Nat /\ x.offset \in Nat
    BY <1>6, BaseIs
  <2> DEFINE a == Disk!BaseOf(x) + here
  <2>4. a \in Nat /\ a = (x.offset + local) * SectorSize
    <3>1. Disk!BaseOf(x) = x.offset * SectorSize /\ Disk!BaseOf(x) \in Nat
      BY <1>6, BaseIs
    <3>2. (x.offset + local) * SectorSize = x.offset * SectorSize + here
      BY <2>1, SizesAre
    <3> QED
      BY <1>4, <3>1, <3>2
  <2>2. CASE a >= x.file_len
    <3>1. Disk!Located(x, local) = Disk!Hole(whole)
      BY <1>3, <1>6, <2>2 DEF Disk!Located
    <3> QED
      BY <1>2, <3>1 DEF Disk!Hole, whole
  <2>3. CASE ~(a >= x.file_len)
    <3> DEFINE S == {whole, x.file_len - a}
    <3>1. S \subseteq Nat /\ S # {}
      BY <1>2, <2>1, <2>3, <2>4
    <3>2. Disk!Located(x, local) = Disk!At(a, Disk!Min(S))
      BY <1>3, <1>6, <2>3 DEF Disk!Located
    <3>3. Disk!Min(S) \in S /\ Disk!Min(S) <= whole
      BY <3>1, MinIs
    <3>4. Disk!Located(x, local).run = Disk!Min(S)
      BY <3>2 DEF Disk!At
    <3>5. ASSUME x.file_len % SectorSize = 0 PROVE x.file_len - a >= SectorSize
      <4>1. PICK q \in Nat : x.file_len = SectorSize * q
        <5>1. PICK length \in Nat : length = x.file_len
          BY <2>1
        <5>2. PICK q \in Nat, r \in 0 .. SectorSize - 1 :
                q = length \div SectorSize /\ r = length % SectorSize /\ length = SectorSize * q + r
          BY SizesAre, Divided, Zenon
        <5>3. r = 0 /\ length = SectorSize * q + r
          BY <3>5, <5>1, <5>2, Zenon
        <5>4. length = SectorSize * q
          BY <5>3, SizesAre
        <5> QED
          BY <5>1, <5>4, Zenon
      <4>2. PICK sector \in Nat : sector = x.offset + local /\ a = sector * SectorSize
        BY <2>1, <2>4
      <4>3. q - sector \in Nat \ {0}
        <5>1. q <= sector => SectorSize * q <= sector * SectorSize
          BY SizesAre
        <5> QED
          BY <2>3, <4>1, <4>2, <5>1, SizesAre
      <4>4. x.file_len - a = (q - sector) * SectorSize
        BY <4>1, <4>2, SizesAre
      <4> QED
        BY <4>3, <4>4, SizesAre, Times
    <3> QED
      BY <1>2, <1>6, <3>1, <3>3, <3>4, <3>5, SizesAre DEF whole
  <2> QED
    BY <2>2, <2>3
<1>7. CASE x.kind = "sparse"
  <2> DEFINE rest == Disk!ToGrainEnd(local)
             S == {rest, whole}
             run == Disk!Min(S)
  <2>1. rest \in Nat /\ rest >= SectorSize
    <3>1. PICK r \in 0 .. GrainSectors - 1 : r = local % GrainSectors
      BY SizesAre, DivisionIs
    <3>2. GrainSectors - r \in Nat \ {0}
      BY <3>1, SizesAre
    <3> QED
      BY <3>1, <3>2, SizesAre, Times DEF Disk!ToGrainEnd
  <2>2. Disk!SparseRun(x, local) = run
    BY <1>3 DEF Disk!SparseRun
  <2> HIDE DEF rest
  <2>3. run \in S /\ run <= whole /\ S \subseteq Nat
    BY <1>2, <2>1, MinIs
  <2> HIDE DEF run
  <2>4. x.grains[local \div GrainSectors] \in {"unallocated", "zeroed", "stored"}
    BY <1>1, <1>7, SectorsHaveGrains DEF Disk!IsExtent
  <2>5. Disk!Located(x, local).run = run
    BY <1>7, <2>2, <2>4 DEF Disk!Located, Disk!Hole, Disk!Zeroed, Disk!At
  <2> QED
    BY <1>2, <2>1, <2>3, <2>5, SizesAre DEF whole
<1> QED
  BY <1>1, <1>5, <1>6, <1>7

LEMMA PlaceIs ==
    ASSUME NEW x, x.kind = "sparse", NEW GB \in Nat \ {0}, GB = Disk!GrainBytes,
           NEW G \in Nat, G = Disk!Grains(x),
           NEW p \in Nat, NEW b \in Nat, NEW rest \in Nat, p \div GB = b, p % GB = rest
    PROVE  PlaceInFile(x, p) = (G - 1 - b) * GB + rest
  BY DEF PlaceInFile

(* What is said of a sector is true of every byte of the run behind it.     *)
LEMMA ExtentHas ==
    ASSUME NEW x, Disk!IsExtent(x), NEW local \in Nat, local < x.sectors,
           NEW j \in Nat, j < Disk!Located(x, local).run
    PROVE  LET loc == Disk!Located(x, local)
               off == local * SectorSize + j
           IN /\ off \in Nat
              /\ loc.found \in {"unallocated", "zeroed", "at"}
              /\ loc.found = "unallocated" => HoldsAt(x, off) = "unallocated"
              /\ loc.found = "zeroed" => HoldsAt(x, off) = "zeroed"
              /\ loc.found = "at" =>
                   /\ HoldsAt(x, off) = "stored"
                   /\ loc.at \in Nat /\ loc.at + j < LengthOfFile(x)
                   /\ PlaceInFile(x, loc.at + j) = off
<1> DEFINE loc == Disk!Located(x, local)
           here == local * SectorSize
           off == here + j
<1>1. x.sectors \in Nat /\ x.kind \in {"zero", "flat", "sparse"}
  BY DEF Disk!IsExtent
<1>2. here \in Nat /\ off \in Nat
  BY SizesAre
<1> HIDE DEF off
<1>3. CASE x.kind = "zero"
  BY <1>2, <1>3 DEF Disk!Located, Disk!Zeroed, HoldsAt, off
<1>4. CASE x.kind = "flat"
  <2>1. PICK base \in Nat, a \in Nat :
          /\ x.file_len \in Nat /\ base = Disk!BaseOf(x) /\ a = base + here
    BY <1>2, <1>4, BaseIs
  <2>2. CASE a >= x.file_len
    <3>1. loc = Disk!Hole(Disk!ToExtentEnd(x, local))
      BY <1>4, <2>1, <2>2 DEF Disk!Located
    <3>2. ~(base + off < x.file_len)
      BY <1>2, <2>1, <2>2 DEF off
    <3> QED
      BY <1>2, <1>4, <2>1, <3>1, <3>2 DEF Disk!Hole, HoldsAt, off
  <2>3. CASE ~(a >= x.file_len)
    <3> DEFINE S == {Disk!ToExtentEnd(x, local), x.file_len - a}
    <3>1. S \subseteq Nat /\ S # {}
      <4>1. x.sectors - local \in Nat
        BY <1>1
      <4> QED
        BY <1>2, <2>1, <2>3, <4>1, SizesAre DEF Disk!ToExtentEnd
    <3>2. loc = Disk!At(a, Disk!Min(S))
      BY <1>4, <2>1, <2>3 DEF Disk!Located
    <3>3. loc.found = "at" /\ loc.at = a /\ loc.run = Disk!Min(S)
      BY <3>2 DEF Disk!At
    <3>4. Disk!Min(S) \in S /\ Disk!Min(S) <= x.file_len - a
      BY <3>1, MinIs
    <3>5. base + off < x.file_len /\ a + j = base + off
      BY <1>2, <2>1, <3>1, <3>3, <3>4 DEF off
    <3> QED
      BY <1>2, <1>4, <2>1, <3>3, <3>5 DEF HoldsAt, LengthOfFile, PlaceInFile, off
  <2> QED
    BY <2>2, <2>3
<1>5. CASE x.kind = "sparse"
  <2>1. PICK GB \in Nat \ {0} : GB = Disk!GrainBytes
    <3>1. GrainSectors * SectorSize \in Nat \ {0}
      BY SizesAre
    <3> QED
      BY <3>1, Zenon DEF Disk!GrainBytes
  <2>2. PICK g \in Nat, r \in 0 .. GrainSectors - 1 :
          g = local \div GrainSectors /\ r = local % GrainSectors /\ local = GrainSectors * g + r
    BY SizesAre, Divided, Zenon
  <2>3. PICK G \in Nat : G = Disk!Grains(x) /\ g \in 0 .. G - 1
    BY <1>1, <2>2, SectorsHaveGrains, Zenon
  <2>4. PICK rest \in Nat : rest = r * SectorSize + j
    BY <2>2, SizesAre
  <2>5. GB = GrainSectors * SectorSize
    BY <2>1 DEF Disk!GrainBytes
  <2>6. rest < GB
    <3> DEFINE toEnd == Disk!ToGrainEnd(local)
               S == {toEnd, Disk!ToExtentEnd(x, local)}
    <3>1. toEnd = (GrainSectors - r) * SectorSize
      BY <2>2 DEF Disk!ToGrainEnd
    <3>2. toEnd \in Nat /\ Disk!ToExtentEnd(x, local) \in Nat
      <4>1. GrainSectors - r \in Nat /\ x.sectors - local \in Nat
        BY <1>1, <2>2, SizesAre
      <4> QED
        BY <3>1, <4>1, SizesAre DEF Disk!ToExtentEnd
    <3>3. loc.run = Disk!Min(S)
      <4>1. x.grains[local \div GrainSectors] \in {"unallocated", "zeroed", "stored"}
        BY <1>1, <1>5, SectorsHaveGrains DEF Disk!IsExtent
      <4> QED
        BY <1>5, <4>1 DEF Disk!Located, Disk!SparseRun, Disk!Hole, Disk!Zeroed, Disk!At
    <3> HIDE DEF toEnd
    <3>4. Disk!Min(S) \in S /\ Disk!Min(S) <= toEnd
      BY <3>2, MinIs
    <3>5. j < toEnd
      BY <3>2, <3>3, <3>4
    <3>6. toEnd = GB - r * SectorSize
      BY <2>2, <2>5, <3>1, SizesAre
    <3> QED
      BY <2>2, <2>4, <3>2, <3>5, <3>6, SizesAre
  <2>7. off = g * GB + rest
    <3>1. (GrainSectors * g + r) * SectorSize = g * (GrainSectors * SectorSize) + r * SectorSize
      <4>1. GrainSectors \in Int /\ g \in Int /\ r \in Int /\ SectorSize \in Int
        BY <2>2, SizesAre
      <4> QED
        BY <4>1, Distribute
    <3>2. off = (GrainSectors * g + r) * SectorSize + j
      BY <2>2, Zenon DEF off
    <3>3. off = (g * GB + r * SectorSize) + j
      BY <2>5, <3>1, <3>2, Zenon
    <3>4. g * GB \in Nat /\ r * SectorSize \in Nat
      BY <2>1, <2>2, SizesAre
    <3> QED
      BY <2>4, <3>3, <3>4
  <2>8. rest \in 0 .. GB - 1
    BY <2>1, <2>4, <2>6
  <2>9. off \div GB = g
    BY <2>1, <2>7, <2>8, DivisionBack
  <2>10. HoldsAt(x, off) = x.grains[g]
    BY <1>5, <2>1, <2>9 DEF HoldsAt
  <2>11. x.grains[g] \in {"unallocated", "zeroed", "stored"}
    BY <1>5, <2>3 DEF Disk!IsExtent
  <2>12. /\ x.grains[g] = "unallocated" => loc.found = "unallocated"
         /\ x.grains[g] = "zeroed" => loc.found = "zeroed"
         /\ x.grains[g] = "stored" => loc.found = "at" /\ loc.at = Disk!GrainAt(x, g) + r * SectorSize
    BY <1>5, <2>2, <2>11 DEF Disk!Located, Disk!Hole, Disk!Zeroed, Disk!At
  <2>13. PICK b \in Nat : b = G - 1 - g /\ g = G - 1 - b
    BY <2>3
  <2>14. Disk!GrainAt(x, g) = b * GB
    BY <2>1, <2>3, <2>13 DEF Disk!GrainAt
  <2>15. ASSUME x.grains[g] = "stored"
         PROVE  loc.at \in Nat /\ loc.at + j = b * GB + rest
    <3>1. loc.at = b * GB + r * SectorSize
      BY <2>12, <2>14, <2>15, Zenon
    <3>2. b * GB \in Nat /\ r * SectorSize \in Nat
      BY <2>1, <2>2, <2>13, SizesAre
    <3> HIDE DEF loc
    <3> QED
      BY <2>4, <3>1, <3>2
  <2>16. b * GB + rest < G * GB
    <3>1. (b + 1) * GB <= G * GB
      <4>1. G = (b + 1) + g
        BY <2>13
      <4> QED
        BY <2>1, <2>13, <4>1
    <3>2. b * GB + rest < (b + 1) * GB
      BY <2>1, <2>8, <2>13
    <3>3. b * GB \in Nat /\ G * GB \in Nat /\ (b + 1) * GB \in Nat
      BY <2>1, <2>13
    <3> QED
      BY <2>4, <3>1, <3>2, <3>3
  <2>17. PlaceInFile(x, b * GB + rest) = off
    <3>1. (b * GB + rest) \div GB = b /\ (b * GB + rest) % GB = rest
      BY <2>1, <2>8, <2>13, DivisionBack
    <3>2. PlaceInFile(x, b * GB + rest) = (G - 1 - b) * GB + rest
      <4>1. PICK p \in Nat : p = b * GB + rest
        <5>1. b * GB + rest \in Nat
          BY <2>1, <2>4, <2>13
        <5> QED
          BY <5>1, Zenon
      <4>2. p \div GB = b /\ p % GB = rest
        BY <3>1, <4>1, Zenon
      <4>3. PlaceInFile(x, p) = (G - 1 - b) * GB + rest
        BY <1>5, <2>1, <2>3, <4>2, PlaceIs
      <4> QED
        BY <4>1, <4>3, Zenon
    <3> QED
      BY <2>7, <2>13, <3>2
  <2>18. LengthOfFile(x) = G * GB
    BY <1>5, <2>1, <2>3 DEF LengthOfFile
  <2> HIDE DEF here, loc
  <2> QED
    BY <1>2, <2>10, <2>11, <2>12, <2>15, <2>16, <2>17, <2>18 DEF off, here, loc
<1> QED
  BY <1>1, <1>3, <1>4, <1>5

-----------------------------------------------------------------------------
(* The links of the chain have their extents, a VDI its map, and what was   *)
(* read is forgotten until the disk is open.                                *)
DiskInv ==
    /\ ChainIsMeant
    /\ body \in Seq(Bodies) /\ Len(body) = Len(chain)
    /\ disk_phase = "vdi" => vdi \in Vdis
    /\ disk_pos \in Nat
    /\ ~Disk!IsOpen => bytes = << >>

LEMMA LinkIs ==
    ASSUME DiskInv
    PROVE  /\ DOMAIN chain = 1 .. Len(chain) /\ Len(chain) \in Nat /\ DOMAIN body = DOMAIN chain
           /\ \A l \in DOMAIN chain : body[l] \in Bodies
  BY DEF DiskInv, ChainIsMeant

LEMMA PositionIs ==
    ASSUME disk_pos \in Nat
    PROVE  /\ Disk!Sector \in Nat /\ Disk!Within \in 0 .. SectorSize - 1
           /\ disk_pos = Disk!Sector * SectorSize + Disk!Within
<1>1. PICK q \in Nat, r \in 0 .. SectorSize - 1 :
        q = disk_pos \div SectorSize /\ r = disk_pos % SectorSize /\ disk_pos = SectorSize * q + r
  BY SizesAre, Divided, Zenon
<1> QED
  BY <1>1, SizesAre DEF Disk!Sector, Disk!Within

(* A byte behind the position is as far behind the start of its sector.     *)
LEMMA BehindIs ==
    ASSUME disk_pos \in Nat, NEW k \in Nat
    PROVE  /\ Disk!Within + k \in Nat
           /\ disk_pos + k = Disk!Sector * SectorSize + (Disk!Within + k)
           /\ (disk_pos + k) \div SectorSize = Disk!Sector + (Disk!Within + k) \div SectorSize
           /\ (Disk!Within + k) \div SectorSize \in Nat
<1>1. PICK s \in Nat, w \in 0 .. SectorSize - 1 :
        s = Disk!Sector /\ w = Disk!Within /\ disk_pos = s * SectorSize + w
  BY PositionIs, Zenon
<1>2. PICK j \in Nat : j = w + k
  BY <1>1, SizesAre
<1>3. s * SectorSize \in Nat
  BY <1>1, SizesAre
<1>4. disk_pos + k = s * SectorSize + j
  BY <1>1, <1>2, <1>3, SizesAre
<1>5. (s * SectorSize + j) \div SectorSize = s + j \div SectorSize
  BY <1>1, <1>2, SizesAre, DivisionOn
<1>6. j \div SectorSize \in Nat
  BY <1>2, SizesAre, DivisionIs
<1> QED
  BY <1>1, <1>2, <1>4, <1>5, <1>6, Zenon

(* Where a link does not reach it holds nothing, nor behind.                *)
LEMMA BeyondALink ==
    ASSUME DiskInv, NEW l \in DOMAIN chain, ~Disk!Covers(l), NEW k \in Nat
    PROVE  Disk!Held(l, disk_pos + k) = "unallocated"
<1>1. body[l] \in Bodies /\ disk_pos \in Nat
  BY LinkIs DEF DiskInv
<1>2. PICK e \in Bodies : e = body[l]
  BY <1>1, Zenon
<1>3. PICK s \in Nat, q \in Nat : s = Disk!Sector /\ (disk_pos + k) \div SectorSize = s + q
  BY <1>1, BehindIs, PositionIs, Zenon
<1>4. ~(s < Disk!Sectors(e))
  <2> SUFFICES ASSUME s < Disk!Sectors(e) PROVE FALSE
    OBVIOUS
  <2>1. PICK i \in DOMAIN e : Disk!Start(e, i) <= s /\ s < Disk!Start(e, i) + e[i].sectors
    BY SomeExtent
  <2> QED
    BY <1>2, <1>3, <2>1 DEF Disk!Covers, Disk!ExtentOf
<1>5. Disk!ExtentOf(e, s + q) = {}
  <2> SUFFICES ASSUME NEW i \in Disk!ExtentOf(e, s + q) PROVE FALSE
    OBVIOUS
  <2>1. /\ i \in DOMAIN e
        /\ Disk!Start(e, i) <= s + q /\ s + q < Disk!Start(e, i) + e[i].sectors
    BY DEF Disk!ExtentOf
  <2>2. s + q \in Nat
    OBVIOUS
  <2>3. s + q < Disk!Sectors(e)
    BY <2>1, <2>2, OneExtent
  <2>4. Disk!Sectors(e) \in Nat
    BY ExtentsAre, EndsGrow DEF Disk!Sectors
  <2> QED
    BY <1>4, <2>3, <2>4
<1> QED
  BY <1>2, <1>3, <1>5 DEF Disk!Held

(* Where it does, its answer is true of every byte the answer is about, and *)
(* it is about some, unless a file is cut off inside a sector.              *)
LEMMA LinkHas ==
    ASSUME DiskInv, ~Disk!Torn, NEW l \in DOMAIN chain, Disk!Covers(l)
    PROVE  LET a == Disk!Answer(l)
           IN /\ a.run \in Nat /\ a.run > Disk!Within
              /\ a.found \in {"unallocated", "zeroed", "at"}
              /\ a.found = "at" => a.at \in Nat
              /\ \A k \in Nat : Disk!Within + k < a.run =>
                   /\ a.found = "unallocated" => Disk!Held(l, disk_pos + k) = "unallocated"
                   /\ a.found = "zeroed" => Disk!Held(l, disk_pos + k) = "zeroed"
                   /\ a.found = "at" =>
                        /\ Disk!Held(l, disk_pos + k) = "stored"
                        /\ Disk!FileByte(l, Disk!Index(l), a.at + (Disk!Within + k))
                             = << chain[l], disk_pos + k >>
<1> DEFINE a == Disk!Answer(l)
<1>1. body[l] \in Bodies /\ disk_pos \in Nat
  BY LinkIs DEF DiskInv
<1>2. PICK e \in Bodies : e = body[l]
  BY <1>1, Zenon
<1>3. PICK s \in Nat, w \in 0 .. SectorSize - 1 : s = Disk!Sector /\ w = Disk!Within
  BY <1>1, PositionIs, Zenon
<1>4. PICK i \in DOMAIN e : Disk!Start(e, i) <= s /\ s < Disk!Start(e, i) + e[i].sectors
  BY <1>2, <1>3 DEF Disk!Covers, Disk!ExtentOf
<1>5. PICK x : x = e[i]
  OBVIOUS
<1>6. Disk!IsExtent(x) /\ x.sectors \in Nat
  BY <1>5, ExtentsAre
<1>7. PICK start \in Nat : start = Disk!Start(e, i)
  <2>1. i - 1 \in 0 .. Len(e)
    BY ExtentsAre
  <2> QED
    BY <2>1, EndsGrow DEF Disk!Start
<1>8. PICK local \in Nat : local = s - start /\ local < x.sectors
  BY <1>4, <1>5, <1>6, <1>7
<1>9. Disk!Index(l) = i
  <2>1. Disk!ExtentOf(e, s) = {i}
    BY <1>4, OneExtent
  <2> QED
    BY <1>2, <1>3, <2>1 DEF Disk!Index
<1>10. a = Disk!Located(x, local)
  BY <1>2, <1>3, <1>5, <1>7, <1>8, <1>9 DEF Disk!Answer
<1>11. x.kind = "flat" => x.file_len % SectorSize = 0
  <2>1. i \in DOMAIN body[l] /\ x = body[l][i]
    BY <1>2, <1>5
  <2> QED
    BY <2>1 DEF Disk!Torn
<1>12. a.run \in Nat /\ a.run <= (x.sectors - local) * SectorSize /\ a.run > w
  BY <1>3, <1>6, <1>8, <1>10, <1>11, RunIs, SizesAre
<1> HIDE DEF a
<1>13. ASSUME NEW j \in Nat, j < a.run
       PROVE  LET off == local * SectorSize + j
              IN /\ off \in Nat
                 /\ a.found \in {"unallocated", "zeroed", "at"}
                 /\ a.found = "unallocated" => HoldsAt(x, off) = "unallocated"
                 /\ a.found = "zeroed" => HoldsAt(x, off) = "zeroed"
                 /\ a.found = "at" =>
                      /\ HoldsAt(x, off) = "stored"
                      /\ a.at \in Nat /\ a.at + j < LengthOfFile(x)
                      /\ PlaceInFile(x, a.at + j) = off
  <2>1. PICK loc : loc = Disk!Located(x, local) /\ a = loc
    BY <1>10, Zenon
  <2>2. j < Disk!Located(x, local).run
    BY <1>13, <2>1
  <2> QED
    BY <1>6, <1>8, <2>1, <2>2, ExtentHas
<1>14. a.found \in {"unallocated", "zeroed", "at"} /\ (a.found = "at" => a.at \in Nat)
  <2>1. w \in Nat
    BY <1>3
  <2> QED
    BY <1>12, <1>13, <2>1, Zenon
<1>15. ASSUME NEW k \in Nat, w + k < a.run
       PROVE  /\ a.found = "unallocated" => Disk!Held(l, disk_pos + k) = "unallocated"
              /\ a.found = "zeroed" => Disk!Held(l, disk_pos + k) = "zeroed"
              /\ a.found = "at" =>
                   /\ Disk!Held(l, disk_pos + k) = "stored"
                   /\ Disk!FileByte(l, Disk!Index(l), a.at + (w + k))
                        = << chain[l], disk_pos + k >>
  <2>1. PICK j \in Nat : j = w + k /\ j < a.run
    BY <1>3, <1>15
  <2>2. PICK q \in Nat : q = j \div SectorSize /\ (disk_pos + k) \div SectorSize = s + q
    BY <1>1, <1>3, <2>1, BehindIs, Zenon
  <2>3. q < x.sectors - local
    <3>1. PICK n \in Nat : n = x.sectors - local
      BY <1>6, <1>8
    <3>2. n * SectorSize \in Nat
      BY <3>1, SizesAre
    <3>3. j < n * SectorSize
      BY <1>12, <2>1, <3>1, <3>2
    <3>4. j \div SectorSize < n
      BY <2>1, <3>1, <3>3, SizesAre, DivisionBelow
    <3> QED
      BY <2>2, <3>1, <3>4
  <2>4. Disk!ExtentOf(e, s + q) = {i}
    <3>1. s + q \in Nat /\ Disk!Start(e, i) <= s + q /\ s + q < Disk!Start(e, i) + e[i].sectors
      BY <1>4, <1>5, <1>6, <1>7, <1>8, <2>3
    <3> QED
      BY <3>1, OneExtent
  <2>5. PICK o \in Nat : o = disk_pos + k
    BY <1>1
  <2>6. start * SectorSize + (local * SectorSize + j) = o
    <3>1. disk_pos + k = s * SectorSize + (w + k)
      BY <1>1, <1>3, BehindIs, Zenon
    <3>2. o = s * SectorSize + j
      BY <2>1, <2>5, <3>1, Zenon
    <3>3. s = start + local
      BY <1>7, <1>8
    <3>4. (start + local) * SectorSize = start * SectorSize + local * SectorSize
      BY SizesAre
    <3>5. start * SectorSize \in Nat /\ local * SectorSize \in Nat
      BY SizesAre
    <3>6. o = (start * SectorSize + local * SectorSize) + j
      BY <3>2, <3>3, <3>4, Zenon
    <3> QED
      BY <2>1, <3>5, <3>6
  <2>7. PICK off \in Nat : off = local * SectorSize + j
    BY <1>13, <2>1, Zenon
  <2>8. PICK base \in Nat : base = start * SectorSize
    BY SizesAre
  <2>9. o - base = off /\ base + off = o
    BY <2>5, <2>6, <2>7, <2>8
  <2>10. Disk!Held(l, o) = HoldsAt(x, off)
    <3>1. Disk!ExtentOf(body[l], o \div SectorSize) = {i}
      BY <1>2, <2>2, <2>4, <2>5, Zenon
    <3>2. (CHOOSE y \in {i} : TRUE) = i
      OBVIOUS
    <3>3. o - Disk!Start(body[l], i) * SectorSize = off /\ body[l][i] = x
      BY <1>2, <1>5, <1>7, <2>8, <2>9, Zenon
    <3>4. {i} # {}
      OBVIOUS
    <3> QED
      BY <3>1, <3>2, <3>3, <3>4, Zenon DEF Disk!Held, HoldsAt
  <2>11. ASSUME NEW address \in Nat, address < LengthOfFile(x), PlaceInFile(x, address) = off
         PROVE  Disk!FileByte(l, i, address) = << chain[l], o >>
    <3>1. Disk!FileByte(l, i, address) = IF address >= LengthOfFile(x) THEN Junk
            ELSE << chain[l], Disk!Start(body[l], i) * SectorSize + PlaceInFile(x, address) >>
      BY <1>2, <1>5, Zenon DEF Disk!FileByte, LengthOfFile, PlaceInFile
    <3>2. LengthOfFile(x) \in Nat
      <4>1. CASE x.kind = "flat"
        BY <1>6, <4>1, BaseIs DEF LengthOfFile
      <4>2. CASE x.kind # "flat"
        <5>1. Disk!Grains(x) \in Nat
          BY <1>6, <1>8, SectorsHaveGrains
        <5> QED
          BY <4>2, <5>1, SizesAre DEF LengthOfFile, Disk!GrainBytes
      <4> QED
        BY <4>1, <4>2
    <3>3. ~(address >= LengthOfFile(x))
      BY <2>11, <3>2
    <3> QED
      BY <1>2, <1>7, <2>8, <2>9, <2>11, <3>1, <3>3, Zenon
  <2>12. ASSUME a.found = "at"
         PROVE  Disk!FileByte(l, i, a.at + j) = << chain[l], o >>
    <3>1. a.at \in Nat /\ a.at + j < LengthOfFile(x) /\ PlaceInFile(x, a.at + j) = off
      BY <1>13, <2>1, <2>7, <2>12, Zenon
    <3>2. a.at + j \in Nat
      BY <3>1
    <3> QED
      BY <2>11, <3>1, <3>2, Zenon
  <2> QED
    BY <1>9, <1>13, <2>1, <2>5, <2>7, <2>10, <2>12, Zenon
<1> QED
  BY <1>3, <1>12, <1>14, <1>15, Zenon DEF a

-----------------------------------------------------------------------------
(* Vmdk::read: no link above the one the bytes are taken from holds any of  *)
(* them, and that one holds all.                                            *)
LEMMA VmdkReadIs ==
    ASSUME DiskInv, ~Disk!Torn, disk_phase = "vmdk", NEW want \in Nat \ {0}
    PROVE  \E n \in 1 .. want :
             Disk!VmdkRead(want) = [i \in 1 .. n |-> Disk!OnDisk(disk_pos + i - 1)]
<1> DEFINE asked == Disk!Asked
           stopping == {l \in asked : Disk!Stops(l)}
           top == Disk!Min(stopping)
           walked == IF stopping = {} THEN asked ELSE {l \in asked : l <= top}
           S == {want} \cup {Disk!Answer(l).run - Disk!Within : l \in walked}
           n == Disk!Min(S)
<1>1. asked = {l \in DOMAIN chain : Disk!Covers(l)}
  BY LinkHas DEF Disk!Asked
<1>2. asked \subseteq DOMAIN chain /\ DOMAIN chain \subseteq Nat
  BY <1>1, LinkIs
<1>3. disk_pos \in Nat /\ Disk!Within \in Nat
  BY PositionIs, SizesAre DEF DiskInv
<1> HIDE DEF asked
<1>4. stopping # {} => top \in stopping /\ \A l \in stopping : top <= l
  BY <1>2, MinIs
<1>5. walked \subseteq asked
  OBVIOUS
<1> HIDE DEF walked, top
<1>6. n \in S /\ S \subseteq Nat \ {0} /\ \A y \in S : n <= y
  <2>1. \A l \in asked : Disk!Answer(l).run \in Nat /\ Disk!Answer(l).run > Disk!Within
    BY <1>1, LinkHas
  <2>2. S \subseteq Nat \ {0}
    BY <1>3, <1>5, <2>1
  <2>3. S \subseteq Nat /\ S # {}
    BY <2>2
  <2> HIDE DEF S
  <2> QED
    BY <2>2, <2>3, MinIs
<1>7. ASSUME NEW k \in 0 .. n - 1, NEW l \in walked PROVE Disk!Within + k < Disk!Answer(l).run
  <2>1. n <= Disk!Answer(l).run - Disk!Within
    BY <1>6
  <2>2. Disk!Answer(l).run \in Nat
    BY <1>1, <1>5, LinkHas
  <2>3. n \in Nat
    BY <1>6
  <2> HIDE DEF n
  <2> QED
    BY <1>3, <1>7, <2>1, <2>2, <2>3
<1>8. n \in 1 .. want
  <2>1. n <= want
    BY <1>6
  <2> HIDE DEF n
  <2> QED
    BY <1>6, <2>1
<1>9. Disk!VmdkRead(want) =
        IF stopping # {} /\ Disk!Answer(top).found = "at"
        THEN [i \in 1 .. n |-> Disk!FileByte(top, Disk!Index(top), Disk!Answer(top).at + Disk!Within + i - 1)]
        ELSE [i \in 1 .. n |-> Zero]
  BY Zenon DEF Disk!VmdkRead, Disk!Bounding, asked, walked, top
<1>10. ASSUME NEW k \in 0 .. n - 1, NEW l \in DOMAIN chain, l \notin stopping,
              stopping # {} => l <= top
       PROVE  Disk!Held(l, disk_pos + k) = "unallocated"
  <2>1. k \in Nat
    BY <1>8
  <2>2. CASE ~Disk!Covers(l)
    BY <2>1, <2>2, BeyondALink
  <2>3. CASE Disk!Covers(l)
    <3>1. l \in asked /\ l \in walked
      BY <1>1, <1>10, <2>3 DEF walked
    <3>2. Disk!Answer(l).found = "unallocated"
      BY <1>10, <3>1 DEF Disk!Stops
    <3>3. Disk!Within + k < Disk!Answer(l).run
      BY <1>7, <3>1
    <3> QED
      BY <2>1, <2>3, <3>2, <3>3, LinkHas, Zenon
  <2> QED
    BY <2>2, <2>3
<1> HIDE DEF n, S
<1>11. ASSUME NEW i \in 1 .. n, NEW value,
              \A k \in 0 .. n - 1 : i = k + 1 => value = Disk!OnDisk(disk_pos + k)
       PROVE  value = Disk!OnDisk(disk_pos + i - 1)
  <2>1. i - 1 \in 0 .. n - 1 /\ i = (i - 1) + 1 /\ disk_pos + (i - 1) = disk_pos + i - 1
    BY <1>3, <1>8
  <2>2. value = Disk!OnDisk(disk_pos + (i - 1))
    BY <1>11, <2>1, Zenon
  <2> QED
    BY <2>1, <2>2, Zenon
<1>12. CASE stopping = {}
  <2>1. ASSUME NEW k \in 0 .. n - 1 PROVE Disk!OnDisk(disk_pos + k) = Zero
    <3>1. {l \in DOMAIN chain : Disk!Held(l, disk_pos + k) # "unallocated"} = {}
      BY <1>10, <1>12, <2>1
    <3> QED
      BY <3>1 DEF Disk!OnDisk
  <2>2. Disk!VmdkRead(want) = [i \in 1 .. n |-> Zero]
    BY <1>9, <1>12, Zenon
  <2>3. \A i \in 1 .. n : Zero = Disk!OnDisk(disk_pos + i - 1)
    BY <1>11, <2>1
  <2> QED
    BY <1>8, <2>2, <2>3
<1>13. CASE stopping # {}
  <2> DEFINE a == Disk!Answer(top)
  <2>1. top \in stopping /\ top \in asked /\ top \in walked /\ top \in DOMAIN chain /\ Disk!Covers(top)
    <3>1. top \in stopping /\ top <= top
      BY <1>2, <1>4, <1>13
    <3> QED
      BY <1>1, <1>13, <3>1 DEF walked
  <2>2. a.found \in {"zeroed", "at"}
    BY <2>1, LinkHas DEF Disk!Stops
  <2>3. ASSUME NEW k \in 0 .. n - 1
        PROVE  /\ a.found = "zeroed" => Disk!Held(top, disk_pos + k) = "zeroed"
               /\ a.found = "at" =>
                    /\ Disk!Held(top, disk_pos + k) = "stored"
                    /\ Disk!FileByte(top, Disk!Index(top), a.at + (Disk!Within + k))
                         = << chain[top], disk_pos + k >>
    <3>1. k \in Nat /\ Disk!Within + k < a.run
      BY <1>7, <1>8, <2>1
    <3> QED
      BY <2>1, <3>1, LinkHas, Zenon
  <2>4. ASSUME NEW k \in 0 .. n - 1
        PROVE  Disk!OnDisk(disk_pos + k) =
                 IF a.found = "at" THEN << chain[top], disk_pos + k >> ELSE Zero
    <3> DEFINE holding == {l \in DOMAIN chain : Disk!Held(l, disk_pos + k) # "unallocated"}
    <3>1. top \in holding
      BY <2>1, <2>2, <2>3
    <3>2. \A l \in holding : top <= l
      <4> SUFFICES ASSUME NEW l \in holding, ~(top <= l) PROVE FALSE
        OBVIOUS
      <4>1. l \in Nat /\ top \in Nat /\ l \in DOMAIN chain
        BY <1>2, <2>1
      <4>2. l <= top
        BY <4>1
      <4>3. l \notin stopping
        BY <1>4, <1>13
      <4> QED
        BY <1>10, <4>1, <4>2, <4>3
    <3>3. Disk!Min(holding) = top
      <4>1. holding \subseteq Nat /\ holding # {}
        BY <1>2, <3>1
      <4> HIDE DEF holding
      <4>2. Disk!Min(holding) \in holding /\ Disk!Min(holding) <= top
        BY <3>1, <4>1, MinIs
      <4>3. Disk!Min(holding) \in Nat /\ top \in Nat /\ top <= Disk!Min(holding)
        BY <3>1, <3>2, <4>1, <4>2
      <4> QED
        BY <4>2, <4>3
    <3>4. holding # {}
      BY <3>1
    <3>5. Disk!OnDisk(disk_pos + k) =
            IF Disk!Held(top, disk_pos + k) = "stored" THEN << chain[top], disk_pos + k >> ELSE Zero
      <4> HIDE DEF top
      <4> QED
        BY <3>3, <3>4 DEF Disk!OnDisk
    <3> QED
      BY <2>2, <2>3, <3>5
  <2>5. CASE a.found = "at"
    <3> DEFINE byte(i) == Disk!FileByte(top, Disk!Index(top), a.at + Disk!Within + i - 1)
    <3>1. Disk!VmdkRead(want) = [i \in 1 .. n |-> byte(i)]
      BY <1>9, <1>13, <2>5, Zenon
    <3>2. a.at \in Nat
      BY <2>1, <2>5, LinkHas
    <3>3. ASSUME NEW i \in 1 .. n PROVE byte(i) = Disk!OnDisk(disk_pos + i - 1)
      <4>1. ASSUME NEW k \in 0 .. n - 1, i = k + 1 PROVE byte(i) = Disk!OnDisk(disk_pos + k)
        <5>1. a.at + Disk!Within + i - 1 = a.at + (Disk!Within + k)
          <6> HIDE DEF a
          <6> QED
            BY <1>3, <1>8, <3>2, <4>1
        <5>2. byte(i) = << chain[top], disk_pos + k >>
          BY <2>3, <2>5, <5>1, Zenon
        <5> QED
          BY <2>4, <2>5, <5>2, Zenon
      <4> HIDE DEF byte
      <4> QED
        BY <1>11, <4>1
    <3> HIDE DEF byte
    <3> QED
      BY <1>8, <3>1, <3>3
  <2>6. CASE a.found # "at"
    <3>1. Disk!VmdkRead(want) = [i \in 1 .. n |-> Zero]
      BY <1>9, <2>6, Zenon
    <3>2. \A i \in 1 .. n : Zero = Disk!OnDisk(disk_pos + i - 1)
      BY <1>11, <2>4, <2>6
    <3> QED
      BY <1>8, <3>1, <3>2
  <2> QED
    BY <2>5, <2>6
<1> QED
  BY <1>12, <1>13

(* Vdi::read: the bytes asked for lie in one block, and the block's place   *)
(* in the file is no other's.                                               *)
LEMMA VdiByteIs ==
    ASSUME vdi \in Vdis, NEW b \in Nat, b + 1 \in DOMAIN vdi.map, vdi.map[b + 1] # NoFile,
           NEW off \in 0 .. BlockSize - 1
    PROVE  /\ vdi.map[b + 1] \in Nat
           /\ Disk!VdiByte(vdi.map[b + 1] * (BlockSize + BlockExtra) + (BlockExtra + off))
                = << "vdi", b * BlockSize + off >>
<1>1. vdi.map[b + 1] \in Nat
  BY ImageAssumption DEF Disk!ImageAssumption
<1>2. PICK m \in Nat : m = vdi.map[b + 1]
  BY <1>1, Zenon
<1>3. PICK size \in Nat \ {0} : size = BlockSize + BlockExtra
  BY SizesAre
<1>4. PICK rest \in Nat : rest = BlockExtra + off /\ rest \in 0 .. size - 1
  BY <1>3, SizesAre
<1>5. (m * size + rest) \div size = m /\ (m * size + rest) % size = rest
  BY <1>3, <1>4, DivisionBack
<1>6. {c \in DOMAIN vdi.map : vdi.map[c] = m} = {b + 1}
  BY <1>2, ImageAssumption DEF Disk!ImageAssumption
<1>7. rest - BlockExtra = off /\ ~(off < 0) /\ (b + 1) - 1 = b
  BY <1>4, SizesAre
<1>8. (CHOOSE c \in {b + 1} : TRUE) = b + 1 /\ {b + 1} # {}
  OBVIOUS
<1>9. Disk!VdiByte(m * size + rest) = << "vdi", b * BlockSize + off >>
  BY <1>3, <1>5, <1>6, <1>7, <1>8, Zenon DEF Disk!VdiByte
<1> QED
  BY <1>1, <1>2, <1>3, <1>4, <1>9, Zenon

LEMMA VdiReadIs ==
    ASSUME DiskInv, disk_phase = "vdi", NEW want \in Nat \ {0}
    PROVE  \E n \in 1 .. want :
             Disk!VdiRead(want) = [i \in 1 .. n |-> Disk!OnDisk(disk_pos + i - 1)]
<1>1. disk_pos \in Nat /\ vdi \in Vdis
  BY DEF DiskInv
<1>2. PICK b \in Nat, r \in 0 .. BlockSize - 1 :
        b = disk_pos \div BlockSize /\ r = disk_pos % BlockSize /\ disk_pos = BlockSize * b + r
  BY <1>1, SizesAre, Divided, Zenon
<1>3. PICK n \in Nat \ {0} : n = Disk!ToBlockEnd(want) /\ n <= want /\ n <= BlockSize - r
  <2> DEFINE S == {want, BlockSize - r}
  <2>1. S \subseteq Nat \ {0}
    BY <1>2, SizesAre
  <2>2. Disk!Min(S) \in S /\ Disk!Min(S) <= want /\ Disk!Min(S) <= BlockSize - r
    <3>1. S \subseteq Nat /\ S # {}
      BY <2>1
    <3> QED
      BY <3>1, MinIs
  <2>3. Disk!ToBlockEnd(want) = Disk!Min(S)
    BY <1>2 DEF Disk!ToBlockEnd
  <2> HIDE DEF S
  <2> QED
    BY <2>1, <2>2, <2>3
<1>4. ASSUME NEW i \in 1 .. n
      PROVE  \E off \in 0 .. BlockSize - 1 :
               /\ off = r + (i - 1)
               /\ disk_pos + i - 1 = b * BlockSize + off
               /\ (disk_pos + i - 1) \div BlockSize = b
  <2>1. PICK off \in 0 .. BlockSize - 1 : off = r + (i - 1)
    BY <1>2, <1>3, SizesAre
  <2>2. BlockSize * b = b * BlockSize /\ b * BlockSize \in Nat
    BY SizesAre
  <2>3. disk_pos + i - 1 = b * BlockSize + off
    BY <1>2, <1>3, <2>1, <2>2, SizesAre
  <2>4. (b * BlockSize + off) \div BlockSize = b
    BY SizesAre, DivisionBack
  <2> QED
    BY <2>1, <2>3, <2>4, Zenon
<1>5. CASE b + 1 \notin DOMAIN vdi.map \/ vdi.map[b + 1] = NoFile
  <2>1. Disk!VdiRead(want) = [i \in 1 .. n |-> Zero]
    BY <1>2, <1>3, <1>5, Zenon DEF Disk!VdiRead
  <2>2. ASSUME NEW i \in 1 .. n PROVE Disk!OnDisk(disk_pos + i - 1) = Zero
    <3>1. (disk_pos + i - 1) \div BlockSize = b
      BY <1>4, Zenon
    <3> QED
      BY <1>5, <3>1, Zenon DEF Disk!OnDisk
  <2> QED
    BY <1>3, <2>1, <2>2
<1>6. CASE b + 1 \in DOMAIN vdi.map /\ vdi.map[b + 1] # NoFile
  <2> DEFINE m == vdi.map[b + 1]
             byte(i) == Disk!VdiByte(m * (BlockSize + BlockExtra) + BlockExtra + r + i - 1)
  <2>1. Disk!VdiRead(want) = [i \in 1 .. n |-> byte(i)]
    BY <1>2, <1>3, <1>6, Zenon DEF Disk!VdiRead
  <2>2. ASSUME NEW i \in 1 .. n PROVE byte(i) = Disk!OnDisk(disk_pos + i - 1)
    <3>1. PICK off \in 0 .. BlockSize - 1 :
            /\ off = r + (i - 1)
            /\ disk_pos + i - 1 = b * BlockSize + off
            /\ (disk_pos + i - 1) \div BlockSize = b
      BY <1>4, Zenon
    <3>2. Disk!OnDisk(disk_pos + i - 1) = << "vdi", b * BlockSize + off >>
      BY <1>6, <3>1, Zenon DEF Disk!OnDisk
    <3>3. /\ m \in Nat
          /\ Disk!VdiByte(m * (BlockSize + BlockExtra) + (BlockExtra + off))
               = << "vdi", b * BlockSize + off >>
      BY <1>1, <1>6, VdiByteIs
    <3>4. PICK start \in Nat : start = m * (BlockSize + BlockExtra)
      <4> HIDE DEF m
      <4> QED
        BY <3>3, SizesAre
    <3>5. start + BlockExtra + r + i - 1 = start + (BlockExtra + off)
      BY <1>2, <1>3, <3>1, SizesAre
    <3> QED
      BY <3>2, <3>3, <3>4, <3>5, Zenon
  <2> HIDE DEF byte
  <2> QED
    BY <1>3, <2>1, <2>2
<1> QED
  BY <1>5, <1>6

-----------------------------------------------------------------------------
(* A read has a length, of a disk with a torn file too.                     *)
LEMMA AnswerRuns ==
    ASSUME DiskInv, NEW l \in DOMAIN chain, Disk!Covers(l)
    PROVE  Disk!Answer(l).run \in Nat
<1>1. PICK e \in Bodies : e = body[l]
  BY LinkIs, Zenon
<1>2. PICK s \in Nat : s = Disk!Sector
  BY PositionIs, Zenon DEF DiskInv
<1>3. PICK i \in DOMAIN e : Disk!Start(e, i) <= s /\ s < Disk!Start(e, i) + e[i].sectors
  BY <1>1, <1>2 DEF Disk!Covers, Disk!ExtentOf
<1>4. Disk!Index(l) = i
  <2>1. Disk!ExtentOf(e, s) = {i}
    BY <1>3, OneExtent
  <2> QED
    BY <1>1, <1>2, <2>1 DEF Disk!Index
<1>5. PICK start \in Nat : start = Disk!Start(e, i)
  <2>1. i - 1 \in 0 .. Len(e)
    BY ExtentsAre
  <2> QED
    BY <2>1, EndsGrow DEF Disk!Start
<1>6. Disk!IsExtent(e[i]) /\ e[i].sectors \in Nat
  BY ExtentsAre
<1>7. PICK local \in Nat : local = s - start /\ local < e[i].sectors
  BY <1>3, <1>5, <1>6
<1>8. Disk!Answer(l) = Disk!Located(e[i], local)
  BY <1>1, <1>2, <1>4, <1>5, <1>7, Zenon DEF Disk!Answer
<1> QED
  BY <1>6, <1>7, <1>8, RunIs, Zenon

LEMMA VmdkReadEnds ==
    ASSUME DiskInv, NEW want \in Nat PROVE Len(Disk!VmdkRead(want)) \in Nat
<1> DEFINE stopping == {l \in Disk!Asked : Disk!Stops(l)}
           walked == IF stopping = {} THEN Disk!Asked ELSE {l \in Disk!Asked : l <= Disk!Min(stopping)}
           S == {want} \cup {Disk!Answer(l).run - Disk!Within : l \in walked}
           n == Disk!Min(S)
<1>1. \A l \in walked : Disk!Answer(l).run \in Nat /\ Disk!Answer(l).run > Disk!Within
  <2>1. walked \subseteq Disk!Asked
    OBVIOUS
  <2> HIDE DEF walked
  <2> QED
    BY <2>1, AnswerRuns DEF Disk!Asked
<1>2. Disk!Within \in Nat
  BY PositionIs, SizesAre DEF DiskInv
<1>3. n \in Nat
  <2> HIDE DEF walked
  <2>1. \A y \in S : y \in Nat
    BY <1>1, <1>2
  <2>2. S \subseteq Nat /\ S # {}
    BY <2>1
  <2> HIDE DEF S
  <2> QED
    BY <2>2, MinIs
<1>4. \E f : Disk!VmdkRead(want) = [i \in 1 .. n |-> f[i]]
  <2> DEFINE top == Disk!Min(stopping)
             address(i) == Disk!Answer(top).at + Disk!Within + i - 1
             stored == [i \in 1 .. n |-> Disk!FileByte(top, Disk!Index(top), address(i))]
             zeroes == [i \in 1 .. n |-> Zero]
  <2>1. Disk!VmdkRead(want) = stored \/ Disk!VmdkRead(want) = zeroes
    BY Zenon DEF Disk!VmdkRead, Disk!Bounding
  <2>2. stored = [i \in 1 .. n |-> stored[i]] /\ zeroes = [i \in 1 .. n |-> zeroes[i]]
    BY Zenon
  <2> HIDE DEF stored, zeroes
  <2> QED
    BY <2>1, <2>2, Zenon
<1> HIDE DEF n
<1> QED
  BY <1>3, <1>4

LEMMA DiskSizeIs == ASSUME DiskInv, Disk!IsOpen PROVE Disk!DiskSize \in Nat
<1>1. CASE disk_phase = "vdi"
  BY <1>1, ImageAssumption DEF DiskInv, Disk!ImageAssumption, Disk!DiskSize
<1>2. CASE disk_phase = "vmdk"
  <2>1. 1 \in DOMAIN chain
    BY <1>2 DEF DiskInv, ChainIsMeant
  <2>2. PICK e \in Bodies : e = body[1]
    BY <2>1, LinkIs, Zenon
  <2>3. Disk!Sectors(e) \in Nat
    BY ExtentsAre, EndsGrow DEF Disk!Sectors
  <2> QED
    BY <1>2, <2>2, <2>3, SizesAre DEF Disk!DiskSize, Disk!Capacity
<1> QED
  BY <1>1, <1>2 DEF Disk!IsOpen

(* Read: what is returned is the disk's, and the position moves by its      *)
(* length.                                                                  *)
LEMMA ReadServes ==
    ASSUME DiskInv, Disk!ReadDisk
    PROVE  disk_pos' \in Nat /\ Disk!ReadsTheDisk
<1>1. Disk!IsOpen /\ disk_pos' = disk_pos + Len(bytes') /\ UNCHANGED Disk!image
  BY DEF Disk!ReadDisk
<1>2. disk_pos \in Nat /\ MaxWant \in Nat
  BY ImageAssumption DEF DiskInv, Disk!ImageAssumption
<1>3. PICK size \in Nat : size = Disk!DiskSize
  BY <1>1, DiskSizeIs, Zenon
<1>4. PICK asked \in 1 .. MaxWant :
        bytes' = IF disk_pos >= Disk!DiskSize THEN << >>
                 ELSE IF disk_phase = "vdi"
                      THEN Disk!VdiRead(Disk!Min({asked, Disk!DiskSize - disk_pos}))
                      ELSE Disk!VmdkRead(Disk!Min({asked, Disk!DiskSize - disk_pos}))
  BY Zenon DEF Disk!ReadDisk
<1>5. CASE disk_pos >= size
  <2>1. bytes' = << >>
    BY <1>3, <1>4, <1>5, Zenon
  <2> QED
    BY <1>1, <1>2, <2>1 DEF Disk!ReadsTheDisk
<1>6. CASE ~(disk_pos >= size)
  <2>1. PICK want \in Nat \ {0} :
          want = Disk!Min({asked, size - disk_pos}) /\ want <= size - disk_pos
    <3> DEFINE S == {asked, size - disk_pos}
    <3>1. S \subseteq Nat \ {0}
      BY <1>2, <1>6
    <3>2. Disk!Min(S) \in S /\ Disk!Min(S) <= size - disk_pos
      <4>1. S \subseteq Nat /\ S # {}
        BY <3>1
      <4> QED
        BY <4>1, MinIs
    <3> QED
      BY <3>1, <3>2
  <2>2. bytes' = IF disk_phase = "vdi" THEN Disk!VdiRead(want) ELSE Disk!VmdkRead(want)
    BY <1>3, <1>4, <1>6, <2>1, Zenon
  <2>3. ASSUME disk_phase = "vdi" \/ ~Disk!Torn
        PROVE  \E n \in 1 .. want : bytes' = [i \in 1 .. n |-> Disk!OnDisk(disk_pos + i - 1)]
    <3>1. CASE disk_phase = "vdi"
      BY <2>2, <3>1, VdiReadIs
    <3>2. CASE disk_phase # "vdi"
      BY <1>1, <2>2, <2>3, <3>2, VmdkReadIs DEF Disk!IsOpen
    <3> QED
      BY <3>1, <3>2
  <2>4. CASE disk_phase = "vdi" \/ ~Disk!Torn
    <3>1. PICK n \in 1 .. want : bytes' = [i \in 1 .. n |-> Disk!OnDisk(disk_pos + i - 1)]
      BY <2>3, <2>4
    <3>2. Len(bytes') = n /\ DOMAIN bytes' = 1 .. n
      BY <3>1
    <3>3. disk_pos' \in Nat /\ disk_pos' <= size
      BY <1>1, <1>2, <2>1, <3>2
    <3>4. \A i \in DOMAIN bytes' : bytes'[i] = Disk!OnDisk(disk_pos + i - 1)
      BY <3>1, <3>2
    <3> QED
      BY <1>1, <1>3, <3>3, <3>4, Zenon DEF Disk!ReadsTheDisk
  <2>5. CASE ~(disk_phase = "vdi" \/ ~Disk!Torn)
    <3>1. Len(bytes') \in Nat
      BY <2>2, <2>5, VmdkReadEnds
    <3> QED
      BY <1>1, <1>2, <2>5, <3>1 DEF Disk!ReadsTheDisk
  <2> QED
    BY <2>4, <2>5
<1> QED
  BY <1>2, <1>5, <1>6

LEMMA InitDisk == Disk!Init => DiskInv
  BY InitMeant DEF Disk!Init, DiskInv, Disk!IsOpen

LEMMA DiskStep ==
    ASSUME DiskInv, [Disk!Next]_(Disk!vars)
    PROVE  DiskInv' /\ [Disk!ReadsTheDisk]_(Disk!vars)
<1>0. ChainIsMeant'
  BY NextIsOpening, OpeningKeepsMeant DEF DiskInv
<1>1. CASE Disk!ReadDisk
  <2>1. disk_pos' \in Nat /\ Disk!ReadsTheDisk
    BY <1>1, ReadServes
  <2>2. Disk!IsOpen' /\ UNCHANGED << body, chain, disk_phase, vdi >>
    BY <1>1 DEF Disk!ReadDisk, Disk!image, Disk!IsOpen
  <2> QED
    BY <1>0, <2>1, <2>2 DEF DiskInv
<1>2. CASE Disk!SeekDisk
  <2>1. bytes' = << >> /\ Disk!IsOpen' /\ UNCHANGED << body, chain, disk_phase, vdi >>
    BY <1>2 DEF Disk!SeekDisk, Disk!image, Disk!IsOpen
  <2>2. disk_pos' \in Nat
    BY <1>2, DiskSizeIs DEF Disk!SeekDisk
  <2> QED
    BY <1>0, <2>1, <2>2 DEF DiskInv, Disk!ReadsTheDisk
<1>3. CASE Opening
  <2>1. disk_phase = "opening" /\ UNCHANGED << disk_pos, bytes >>
    BY <1>3 DEF Opening, Disk!OpenFails, Disk!OpenLink, Disk!OpenVdi
  <2>2. bytes = << >>
    BY <2>1 DEF DiskInv, Disk!IsOpen
  <2>3. body' \in Seq(Bodies) /\ Len(body') = Len(chain')
    <3>1. CASE UNCHANGED << chain, body >>
      BY <3>1 DEF DiskInv
    <3>2. CASE Disk!OpenLink
      <4>1. PICK extents \in Bodies : chain' = Append(chain, link) /\ body' = Append(body, extents)
        BY <3>2 DEF Disk!OpenLink
      <4>2. body \in Seq(Bodies) /\ chain \in Seq(DOMAIN dir) /\ link \in DOMAIN dir /\ Len(body) = Len(chain)
        BY DEF DiskInv, ChainIsMeant
      <4> QED
        BY <4>1, <4>2
    <3> QED
      BY <1>3, <3>1, <3>2 DEF Opening, Disk!OpenFails, Disk!OpenVdi
  <2>4. disk_phase' = "vdi" => vdi' \in Vdis
    BY <1>3, <2>1 DEF Opening, Disk!OpenFails, Disk!OpenLink, Disk!OpenVdi
  <2> QED
    BY <1>0, <2>1, <2>2, <2>3, <2>4 DEF DiskInv, Disk!ReadsTheDisk
<1>4. CASE UNCHANGED Disk!vars
  <2>1. UNCHANGED << body, chain, disk_phase, vdi, disk_pos, bytes >>
    BY <1>4 DEF Disk!vars, Disk!image
  <2> QED
    BY <1>0, <1>4, <2>1 DEF DiskInv, Disk!IsOpen
<1> QED
  BY <1>1, <1>2, <1>3, <1>4 DEF Disk!Next, Opening

(* For any chain of links and any VDI, whatever the extents and wherever a  *)
(* read begins: it returns, byte for byte, what the newest link that stored *)
(* or zeroed each byte has, ends where the disk does at the latest, and     *)
(* moves the position by its length, unless a flat file is cut off inside a *)
(* sector.                                                                  *)
THEOREM ServesCorrect == MCSpec => ServesTheDisk
<1>1. MCInit => DiskInv
  BY InitDisk DEF MCInit
<1>2. [MCNext]_<< part, vars, disk, walk, directory >> => [Disk!Next]_(Disk!vars)
  <2> SUFFICES ASSUME [MCNext]_<< part, vars, disk, walk, directory >>
               PROVE  [Disk!Next]_(Disk!vars)
    OBVIOUS
  <2>1. Disk!Next \/ UNCHANGED disk
    BY DEF MCNext
  <2> QED
    BY <2>1 DEF disk, Disk!image, Disk!vars
<1>3. DiskInv /\ [Disk!Next]_(Disk!vars) => DiskInv' /\ [Disk!ReadsTheDisk]_(Disk!vars)
  BY DiskStep
<1> QED
  BY <1>1, <1>2, <1>3, PTL DEF MCSpec, ServesTheDisk, Disk!ServesTheDisk
=============================================================================
