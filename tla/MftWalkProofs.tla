--------------------------- MODULE MftWalkProofs ---------------------------
(***************************************************************************)
(* For any number of records, any depth and any use of the volume before:   *)
(* a path the walk finds is the volume's, a file has every path it can be   *)
(* promised, and what has none is counted and explained.                    *)
(***************************************************************************)
EXTENDS MftWalk, WellFoundedInduction, SequenceTheorems, TLAPS

MFTRecord == [seq : 1 .. RootSequence + MaxSequence, in_use : BOOLEAN, dir : BOOLEAN,
              links : Seq(Links)]

(* A name was given while its directory was there, and the record has been  *)
(* used again since if its number is another.                               *)
WasMeant(link) ==
    /\ link.seq > 0
    /\ link.parent # Root =>
         LET r == mft[link.parent]
         IN /\ link.seq <= r.seq /\ r.links # << >>
            /\ link.seq = r.seq => r.in_use /\ r.dir

Volume ==
    /\ mft \in [RecordNumbers -> MFTRecord]
    /\ damaged \in [RecordNumbers -> {"no", "unreadable", "nameless"}]
    /\ \A r \in RecordNumbers :
         /\ mft[r].in_use => mft[r].links # << >>
         /\ \A i \in DOMAIN mft[r].links :
              /\ WasMeant(mft[r].links[i])
              /\ mft[r].in_use => Meant(mft[r].links[i])

(* What the first pass keeps of a name.                                     *)
Kept(link) == IF checked THEN link ELSE Link(link.parent, 0)

IndexIsOfTheVolume ==
    /\ DOMAIN index = { r \in RecordNumbers : Indexed(r) }
    /\ \A r \in DOMAIN index :
         /\ index[r].seq = mft[r].seq /\ index[r].dir = mft[r].dir
         /\ Len(index[r].links) = Len(mft[r].links)
         /\ \A i \in DOMAIN mft[r].links : index[r].links[i] = Kept(mft[r].links[i])

(* The directories from the root down to one, none of them damaged.         *)
Dirs(path, parent) ==
    /\ path \in Seq(RecordNumbers)
    /\ parent = Up(path, Len(path) + 1)
    /\ \A i \in 1 .. Len(path) :
         /\ mft[path[i]].in_use /\ mft[path[i]].dir /\ damaged[path[i]] = "no"
         /\ mft[path[i]].links[1].parent = Up(path, i)

Found(link) == Meant(link) /\ \E path : Dirs(path, link.parent)

PathsKnown(c) == checked => \A r \in DOMAIN c : Dirs(c[r], r)

IsPlaced(p) == Meant(p[2]) /\ p[3][Len(p[3])] = p[1] /\ Leads(p[3], p[2])

IsLost(link) == link \in Links /\ WasMeant(link) /\ WhyNot(link) # "none"

(* What the second pass has come to.                                        *)
Told(r) ==
    /\ \A i \in DOMAIN mft[r].links : WhyNot(mft[r].links[i]) = "none" =>
         \E p \in placed : p[1] = r /\ p[2].parent = mft[r].links[i].parent
    /\ r \in unresolved => \A i \in DOMAIN mft[r].links : WhyNot(mft[r].links[i]) # "none"
    /\ r \notin unresolved /\ checked => \E i \in DOMAIN mft[r].links : Found(mft[r].links[i])

Walked ==
    /\ next \in 1 .. LastRecord + 1
    /\ PathsKnown(cache)
    /\ checked => \A p \in placed : IsPlaced(p)
    /\ unresolved \subseteq 1 .. next - 1
    /\ \A r \in 1 .. next - 1 : IsFile(r) => Told(r)
    /\ checked => \A link \in DOMAIN lost : IsLost(link)

IInv ==
    /\ phase \in {"in use", "resolve", "done"} /\ checked \in BOOLEAN
    /\ Volume
    /\ phase # "in use" => IndexIsOfTheVolume
    /\ Walked
    /\ phase = "in use" => next = 1 /\ cache = << >> /\ placed = {} /\ unresolved = {} /\ lost = << >>
    /\ phase = "done" => /\ next = LastRecord + 1
                         /\ checked => \A link \in DOMAIN lost : lost[link] = WhyNot(link)

-----------------------------------------------------------------------------
(* Where a statement about numbers fails, it fails for a least one.         *)
LEMMA LeastFailure ==
    ASSUME NEW Fails, Fails \subseteq Nat, Fails # {}
    PROVE  \E n \in Fails : \A m \in Fails : n <= m
<1> DEFINE Less == { ss \in Nat \X Nat : ss[1] < ss[2] }
<1>1. OpToRel(<, Nat) = Less
  BY Zenon DEF OpToRel
<1>2. IsWellFoundedOn(Less, Nat)
  BY <1>1, NatLessThanWellFounded, Zenon
<1>3. \A x, y \in Nat : y < x => << y, x >> \in Less
  BY SMT
<1> HIDE DEF Less
<1>4. PICK n \in Fails : \A m \in Fails : << m, n >> \notin Less
  BY <1>2, WFMin
<1>5. \A m \in Fails : ~(m < n)
  BY <1>3, <1>4
<1> QED
  BY <1>4, <1>5

LEMMA FirstFailure ==
    ASSUME NEW N \in Nat, NEW Fails, Fails \subseteq 0 .. N, Fails # {}
    PROVE  \E n \in Fails : n \in 0 .. N /\ (n # 0 => n - 1 \in (0 .. N) \ Fails)
<1>1. PICK n \in Fails : \A m \in Fails : n <= m
  <2> Fails \subseteq Nat
    OBVIOUS
  <2> QED
    BY Zenon, LeastFailure
<1>2. n \in 0 .. N /\ (n # 0 => n - 1 \in 0 .. N /\ ~(n <= n - 1))
  BY <1>1
<1> QED
  BY Zenon, <1>1, <1>2

LEMMA DepthIs == BoundAssumption => MaxDepth \in 0 .. MaxDepth
  BY DEF BoundAssumption

(* The records of a volume and the links that may be made in it.            *)
LEMMA TypesAre ==
    ASSUME BoundAssumption
    PROVE  /\ RecordNumbers \subseteq Nat \ {0} /\ Root \notin RecordNumbers
           /\ Directories = {Root} \cup RecordNumbers
           /\ \A parent \in Directories, seq \in Sequences : Link(parent, seq) \in Links
           /\ \A l \in Links : l.parent \in Directories /\ l.seq \in Sequences
           /\ \A l \in Links : l = Link(l.parent, l.seq)
           /\ Sequences \subseteq Nat /\ 0 \in Sequences /\ RootSequence \in Sequences
           /\ 1 .. RootSequence + MaxSequence \subseteq Sequences
  BY DEF BoundAssumption, RecordNumbers, Root, Directories, Link, Links, Sequences, RootSequence

(* The name of a directory that is there.                                   *)
LEMMA ToIsMeant ==
    ASSUME BoundAssumption, Volume, NEW d \in LiveDirs
    PROVE  To(d) \in Links /\ WasMeant(To(d)) /\ Meant(To(d)) /\ To(d).parent = d
<1>1. CASE d = Root
  <2>1. To(d) = Link(Root, RootSequence)
    BY <1>1 DEF To, SequenceOf
  <2> QED
    BY <1>1, <2>1, TypesAre DEF Link, WasMeant, Meant, RootSequence
<1>2. CASE d # Root
  <2>1. d \in RecordNumbers /\ mft[d].in_use /\ mft[d].dir
    BY <1>2 DEF LiveDirs
  <2>2. To(d) = Link(d, mft[d].seq)
    BY <1>2 DEF To, SequenceOf
  <2>3. mft[d] \in MFTRecord /\ mft[d].links # << >>
    BY <2>1 DEF Volume
  <2>4. mft[d].seq \in Sequences /\ mft[d].seq > 0
    BY <2>3, TypesAre DEF MFTRecord, BoundAssumption, RootSequence
  <2> QED
    BY <2>1, <2>2, <2>3, <2>4, TypesAre DEF Link, WasMeant, Meant
<1> QED
  BY <1>1, <1>2

LEMMA InitVolume == BoundAssumption /\ Init => Volume
<1> SUFFICES ASSUME BoundAssumption, Init PROVE Volume
  OBVIOUS
<1>1. Unused \in MFTRecord
  BY DEF Unused, MFTRecord, BoundAssumption, RootSequence
<1>2. damaged \in [RecordNumbers -> {"no", "unreadable", "nameless"}]
  BY DEF Init
<1>3. \A r \in RecordNumbers : mft[r] = Unused
  BY DEF Init
<1>4. DOMAIN Unused.links = {} /\ ~Unused.in_use
  BY DEF Unused
<1>5. mft \in [RecordNumbers -> MFTRecord]
  BY <1>1 DEF Init
<1> QED
  BY <1>2, <1>3, <1>4, <1>5 DEF Volume

(* A record used, with names that are meant: nobody else's name changes its *)
(* meaning.                                                                 *)
LEMMA UseKeepsVolume ==
    ASSUME BoundAssumption, Volume, NEW r \in RecordNumbers, NEW new \in MFTRecord,
           Use(r, new), new.seq = mft[r].seq,
           new.in_use, new.links # << >>, mft[r].in_use => new.dir = mft[r].dir,
           \A i \in DOMAIN new.links : WasMeant(new.links[i]) /\ Meant(new.links[i])
    PROVE  Volume'
<1>1. /\ mft \in [RecordNumbers -> MFTRecord]
      /\ damaged \in [RecordNumbers -> {"no", "unreadable", "nameless"}]
  BY DEF Volume
<1>2. mft' = [mft EXCEPT ![r] = new] /\ damaged' = damaged
  BY DEF Use
<1>3. /\ mft' \in [RecordNumbers -> MFTRecord]
      /\ mft'[r] = new /\ \A q \in RecordNumbers : q # r => mft'[q] = mft[q]
  BY <1>1, <1>2
<1>4. /\ \A q \in RecordNumbers : mft'[q].seq = mft[q].seq /\ (mft[q].in_use => mft'[q].in_use)
      /\ \A q \in RecordNumbers : mft[q].in_use => mft'[q].dir = mft[q].dir
      /\ \A q \in RecordNumbers : mft[q].links # << >> => mft'[q].links # << >>
  BY <1>3
<1>5. \A link \in Links : WasMeant(link) => WasMeant(link)'
  <2> SUFFICES ASSUME NEW link \in Links, WasMeant(link) PROVE WasMeant(link)'
    OBVIOUS
  <2>1. link.parent # Root => link.parent \in RecordNumbers
    BY TypesAre
  <2> QED
    BY <1>4, <2>1 DEF WasMeant
<1>6. \A link \in Links : Meant(link) => Meant(link)'
  <2> SUFFICES ASSUME NEW link \in Links, Meant(link) PROVE Meant(link)'
    OBVIOUS
  <2>1. link.parent # Root => link.parent \in RecordNumbers
    BY TypesAre
  <2> QED
    BY <1>4, <2>1 DEF Meant
<1>7. \A q \in RecordNumbers : \A i \in DOMAIN mft'[q].links : mft'[q].links[i] \in Links
  BY <1>3 DEF MFTRecord
<1>8. ASSUME NEW q \in RecordNumbers
      PROVE  (/\ mft[q].in_use => mft[q].links # << >>
              /\ \A i \in DOMAIN mft[q].links :
                   /\ WasMeant(mft[q].links[i])
                   /\ mft[q].in_use => Meant(mft[q].links[i]))'
  <2>1. CASE q = r
    BY <1>3, <1>5, <1>6, <1>7, <2>1 DEF WasMeant, Meant
  <2>2. CASE q # r
    <3>1. mft'[q] = mft[q]
      BY <1>3, <2>2
    <3>2. /\ mft[q].in_use => mft[q].links # << >>
          /\ \A i \in DOMAIN mft[q].links :
               /\ WasMeant(mft[q].links[i])
               /\ mft[q].in_use => Meant(mft[q].links[i])
      BY DEF Volume
    <3> QED
      BY <1>4, <1>5, <1>6, <1>7, <3>1, <3>2 DEF WasMeant, Meant
  <2> QED
    BY <2>1, <2>2
<1> QED
  BY <1>1, <1>2, <1>3, <1>8 DEF Volume

LEMMA CreateKeepsVolume ==
    ASSUME BoundAssumption, Volume, NEW r \in RecordNumbers, NEW d \in LiveDirs,
           NEW dir \in BOOLEAN, Create(r, dir, To(d))
    PROVE  Volume'
<1> DEFINE new == [seq |-> mft[r].seq, in_use |-> TRUE, dir |-> dir, links |-> << To(d) >>]
<1>1. To(d) \in Links /\ WasMeant(To(d)) /\ Meant(To(d))
  BY ToIsMeant
<1>2. mft[r] \in MFTRecord /\ ~mft[r].in_use
  BY DEF Volume, Create
<1>3. new \in MFTRecord
  BY <1>1, <1>2 DEF MFTRecord
<1>4. Use(r, new)
  BY DEF Create
<1>5. /\ new.seq = mft[r].seq /\ new.in_use /\ new.links = << To(d) >>
  OBVIOUS
<1>6. /\ << To(d) >> # << >> /\ \A i \in DOMAIN << To(d) >> : << To(d) >>[i] = To(d)
  OBVIOUS
<1> HIDE DEF new
<1> QED
  BY <1>1, <1>2, <1>3, <1>4, <1>5, <1>6, UseKeepsVolume

LEMMA AddLinkKeepsVolume ==
    ASSUME BoundAssumption, Volume, NEW r \in RecordNumbers, NEW d \in LiveDirs,
           AddLink(r, To(d))
    PROVE  Volume'
<1> DEFINE link == To(d)
           links == mft[r].links
<1>1. link \in Links /\ WasMeant(link) /\ Meant(link)
  BY ToIsMeant
<1>2. mft[r] \in MFTRecord /\ mft[r].in_use
  BY DEF Volume, AddLink
<1>3. \A i \in DOMAIN links : WasMeant(links[i]) /\ Meant(links[i])
  BY <1>2 DEF Volume
<1>4. ASSUME NEW more \in Seq(Links), more # << >>,
             \A i \in DOMAIN more : WasMeant(more[i]) /\ Meant(more[i]),
             Use(r, [mft[r] EXCEPT !.links = more])
      PROVE  Volume'
  <2> DEFINE new == [mft[r] EXCEPT !.links = more]
  <2>1. new \in MFTRecord /\ new.seq = mft[r].seq /\ new.in_use /\ new.dir = mft[r].dir
        /\ new.links = more
    BY <1>2, <1>4 DEF MFTRecord
  <2>2. Use(r, new)
    BY <1>4
  <2> HIDE DEF new
  <2> QED
    BY <1>4, <2>1, <2>2, UseKeepsVolume
<1>5. links \in Seq(Links)
  BY <1>2 DEF MFTRecord
<1> HIDE DEF link, links
<1>6. /\ Append(links, link) \in Seq(Links) /\ Append(links, link) # << >>
      /\ \A i \in DOMAIN Append(links, link) :
            \/ Append(links, link)[i] = link
            \/ i \in DOMAIN links /\ Append(links, link)[i] = links[i]
  BY <1>1, <1>5
<1>7. /\ << link >> \o links \in Seq(Links) /\ << link >> \o links # << >>
      /\ \A i \in DOMAIN (<< link >> \o links) :
            \/ (<< link >> \o links)[i] = link
            \/ i - 1 \in DOMAIN links /\ (<< link >> \o links)[i] = links[i - 1]
  BY <1>1, <1>5
<1>8. Use(r, [mft[r] EXCEPT !.links = Append(links, link)])
      \/ Use(r, [mft[r] EXCEPT !.links = << link >> \o links])
  BY DEF AddLink, link, links
<1> QED
  BY <1>1, <1>3, <1>4, <1>6, <1>7, <1>8

LEMMA MoveToKeepsVolume ==
    ASSUME BoundAssumption, Volume, NEW r \in RecordNumbers, NEW d \in LiveDirs,
           MoveTo(r, To(d))
    PROVE  Volume'
<1> DEFINE link == To(d)
           links == mft[r].links
<1>1. link \in Links /\ WasMeant(link) /\ Meant(link)
  BY ToIsMeant
<1>2. mft[r] \in MFTRecord /\ mft[r].in_use
  BY DEF Volume, MoveTo
<1>3. \A i \in DOMAIN links : WasMeant(links[i]) /\ Meant(links[i])
  BY <1>2 DEF Volume
<1>4. links \in Seq(Links) /\ links # << >>
  BY <1>2 DEF MFTRecord, Volume
<1>5. PICK i \in DOMAIN links : Use(r, [mft[r] EXCEPT !.links[i] = link])
  BY DEF MoveTo
<1> DEFINE new == [mft[r] EXCEPT !.links[i] = link]
           moved == [links EXCEPT ![i] = link]
<1>6. new \in MFTRecord /\ new.seq = mft[r].seq /\ new.in_use /\ new.dir = mft[r].dir
      /\ new.links = moved
  BY <1>1, <1>2, <1>4 DEF MFTRecord
<1>7. Use(r, new)
  BY <1>5
<1> HIDE DEF new, link, links
<1>8. /\ DOMAIN moved = DOMAIN links /\ moved # << >>
      /\ \A j \in DOMAIN links : moved[j] = (IF j = i THEN link ELSE links[j])
  BY <1>1, <1>4
<1> HIDE DEF moved
<1>9. \A j \in DOMAIN new.links : WasMeant(new.links[j]) /\ Meant(new.links[j])
  BY <1>1, <1>3, <1>6, <1>8
<1> QED
  BY <1>6, <1>7, <1>8, <1>9, UseKeepsVolume

(* A record given up is of no use to any name that is still meant.          *)
LEMMA DeleteKeepsVolume ==
    ASSUME BoundAssumption, Volume, NEW r \in RecordNumbers, Delete(r)
    PROVE  Volume'
<1> DEFINE new == [mft[r] EXCEPT !.in_use = FALSE, !.seq = @ + 1]
<1>1. /\ mft \in [RecordNumbers -> MFTRecord]
      /\ damaged \in [RecordNumbers -> {"no", "unreadable", "nameless"}]
  BY DEF Volume
<1>2. mft[r] \in MFTRecord /\ mft[r].in_use /\ mft[r].seq < MaxSequence /\ mft[r].links # << >>
  BY <1>1 DEF Delete, Volume
<1>3. /\ new \in MFTRecord /\ ~new.in_use /\ new.seq = mft[r].seq + 1
      /\ new.dir = mft[r].dir /\ new.links = mft[r].links
  <2>1. mft[r].seq + 1 \in 1 .. RootSequence + MaxSequence
    BY <1>2 DEF MFTRecord, BoundAssumption, RootSequence
  <2>2. PICK seq \in 1 .. RootSequence + MaxSequence, dir \in BOOLEAN, links \in Seq(Links) :
          mft[r] = [seq |-> seq, in_use |-> TRUE, dir |-> dir, links |-> links]
    BY <1>2 DEF MFTRecord
  <2>3. /\ new.seq = seq + 1 /\ ~new.in_use /\ new.dir = dir /\ new.links = links
        /\ new.in_use \in BOOLEAN /\ new.dir \in BOOLEAN
    BY <2>2
  <2>4. new = [f \in {"seq", "in_use", "dir", "links"} |-> new[f]]
    BY <2>2
  <2> HIDE DEF new
  <2>5. new \in MFTRecord
    BY <2>1, <2>2, <2>3, <2>4 DEF MFTRecord
  <2> QED
    BY <2>2, <2>3, <2>5
<1>4. mft' = [mft EXCEPT ![r] = new] /\ damaged' = damaged
  BY DEF Delete, Use
<1>5. /\ mft' \in [RecordNumbers -> MFTRecord]
      /\ mft'[r] = new /\ \A q \in RecordNumbers : q # r => mft'[q] = mft[q]
  BY <1>1, <1>3, <1>4
<1>6. \A q \in RecordNumbers : mft[q].seq \in Nat
  BY <1>1 DEF MFTRecord, BoundAssumption, RootSequence
<1>7. \A q \in RecordNumbers : mft[q].in_use =>
         \A i \in DOMAIN mft[q].links : mft[q].links[i].parent # r
  BY DEF Delete
<1>8. /\ \A q \in RecordNumbers : mft'[q].links = mft[q].links
      /\ \A q \in RecordNumbers : mft'[q].in_use => mft[q].in_use
      /\ ~mft'[r].in_use /\ mft'[r].seq = mft[r].seq + 1
  BY <1>3, <1>5
<1> HIDE DEF new
<1>9. \A link \in Links : WasMeant(link) => WasMeant(link)'
  <2> SUFFICES ASSUME NEW link \in Links, WasMeant(link) PROVE WasMeant(link)'
    OBVIOUS
  <2>1. link.parent # Root => link.parent \in RecordNumbers
    BY TypesAre
  <2>2. link.seq \in Nat
    BY TypesAre
  <2>3. CASE link.parent = r
    <3>1. link.seq <= mft[r].seq /\ link.parent # Root
      BY <2>3, TypesAre DEF WasMeant
    <3>2. link.seq <= mft'[r].seq /\ link.seq # mft'[r].seq
      BY <1>6, <1>8, <2>2, <3>1
    <3> QED
      BY <1>2, <1>8, <2>3, <3>2 DEF WasMeant
  <2>4. CASE link.parent # r
    BY <1>5, <2>1, <2>4 DEF WasMeant
  <2> QED
    BY <2>3, <2>4
<1>10. \A link \in Links : Meant(link) /\ link.parent # r => Meant(link)'
  <2> SUFFICES ASSUME NEW link \in Links, Meant(link), link.parent # r PROVE Meant(link)'
    OBVIOUS
  <2>1. link.parent # Root => link.parent \in RecordNumbers
    BY TypesAre
  <2> QED
    BY <1>5, <2>1 DEF Meant
<1>11. \A q \in RecordNumbers : \A i \in DOMAIN mft[q].links : mft[q].links[i] \in Links
  BY <1>1 DEF MFTRecord
<1>12. ASSUME NEW q \in RecordNumbers
       PROVE  (/\ mft[q].in_use => mft[q].links # << >>
               /\ \A i \in DOMAIN mft[q].links :
                    /\ WasMeant(mft[q].links[i])
                    /\ mft[q].in_use => Meant(mft[q].links[i]))'
  <2>1. /\ mft[q].in_use => mft[q].links # << >>
        /\ \A i \in DOMAIN mft[q].links :
             /\ WasMeant(mft[q].links[i])
             /\ mft[q].in_use => Meant(mft[q].links[i])
    BY DEF Volume
  <2> QED
    BY <1>7, <1>8, <1>9, <1>10, <1>11, <2>1 DEF WasMeant, Meant
<1> QED
  BY <1>1, <1>4, <1>5, <1>12 DEF Volume

-----------------------------------------------------------------------------
(* WhyNot, one directory up.                                                 *)
Whys(left, up) ==
    [l \in Links |->
       IF l.parent = Root THEN "none"
       ELSE IF left = 0 THEN "CycleOrTooDeep"
       ELSE IF damaged[l.parent] # "no" THEN damaged[l.parent]
       ELSE IF ~Meant(l) THEN "StaleParentReference"
       ELSE up[mft[l.parent].links[1]]]

LEMMA WhysUnfold ==
    ASSUME BoundAssumption
    PROVE  \E f : /\ \A link : WhyNot(link) = f[MaxDepth][link]
                  /\ \A left \in 0 .. MaxDepth : f[left] = Whys(left, f[left - 1])
<1> DEFINE Step(left, up) == Whys(left, up)
           Is(m, f) == f = [left \in 0 .. m |-> Step(left, f[left - 1])]
           Fails == { m \in Nat : ~\E f : Is(m, f) }
<1>1. \A f, g : Step(0, f) = Step(0, g)
  BY DEF Whys
<1>2. \A link : WhyNot(link) = (CHOOSE f : Is(MaxDepth, f))[MaxDepth][link]
  BY Zenon DEF WhyNot, Whys
<1> HIDE DEF Step
<1>3. \A m \in Nat : \A f : Is(m, f) => \A left \in 0 .. m : f[left] = Step(left, f[left - 1])
  OBVIOUS
<1>4. Fails = {}
  <2> SUFFICES ASSUME Fails # {} PROVE FALSE
    BY Zenon
  <2>1. PICK n \in Fails : \A m \in Fails : n <= m
    <3> Fails \subseteq Nat
      OBVIOUS
    <3> HIDE DEF Fails
    <3> QED
      BY Zenon, LeastFailure
  <2>2. n \in Nat /\ ~\E f : Is(n, f)
    BY Zenon, <2>1
  <2>3. n # 0
    <3> DEFINE zero == [left \in 0 .. 0 |-> Step(0, << >>)]
    <3>1. zero = [left \in 0 .. 0 |-> Step(left, zero[left - 1])]
      BY <1>1
    <3> QED
      BY <2>2, <3>1
  <2>4. n - 1 \in Nat /\ n - 1 \notin Fails
    <3>1. n - 1 \in Nat /\ ~(n <= n - 1)
      BY <2>2, <2>3
    <3> HIDE DEF Fails
    <3> QED
      BY <2>1, <3>1
  <2>5. PICK f : Is(n - 1, f)
    BY Zenon, <2>4
  <2> DEFINE g == [left \in 0 .. n |-> IF left = n THEN Step(n, f[n - 1]) ELSE f[left]]
  <2>6. ASSUME NEW left \in 0 .. n PROVE g[left] = Step(left, g[left - 1])
    <3>1. CASE left = n
      <4>1. g[left - 1] = f[n - 1]
        BY <2>2, <2>3, <3>1
      <4> QED
        BY <3>1, <4>1
    <3>2. CASE left # n
      <4>1. left \in 0 .. (n - 1) /\ g[left] = f[left] /\ f[left] = Step(left, f[left - 1])
        BY <1>3, <2>2, <2>4, <2>5, <3>2
      <4>2. CASE left = 0
        BY <1>1, <4>1, <4>2
      <4>3. CASE left # 0
        <5>1. g[left - 1] = f[left - 1]
          BY <2>2, <3>2, <4>3
        <5> QED
          BY <4>1, <5>1
      <4> QED
        BY <4>2, <4>3
    <3> QED
      BY <3>1, <3>2
  <2>7. g = [left \in 0 .. n |-> g[left]]
    OBVIOUS
  <2> HIDE DEF g
  <2>8. Is(n, g)
    BY <2>6, <2>7
  <2> QED
    BY Zenon, <2>2, <2>8
<1>5. \E f : Is(MaxDepth, f)
  BY Zenon, <1>4 DEF BoundAssumption
<1> DEFINE h == CHOOSE f : Is(MaxDepth, f)
<1>6. Is(MaxDepth, h)
  BY Zenon, <1>5
<1> HIDE DEF h, Is
<1>7. \A left \in 0 .. MaxDepth : h[left] = Step(left, h[left - 1])
  BY Zenon, <1>3, <1>6 DEF BoundAssumption
<1>8. \A link : WhyNot(link) = h[MaxDepth][link]
  BY Zenon, <1>2 DEF h
<1> QED
  BY Zenon, <1>7, <1>8 DEF Step

(* Explain, likewise.                                                        *)
Explains(left, up) ==
    [l \in Links |->
       IF l.parent = Root \/ left = 0 THEN "CycleOrTooDeep"
       ELSE IF l.parent \notin DOMAIN index
            THEN IF mft[l.parent].links = << >> THEN "NeverAllocated"
                 ELSE damaged[l.parent]
       ELSE IF StaleIn(index, l.seq, l.parent) THEN "StaleParentReference"
       ELSE IF l.parent \in DOMAIN cache THEN "CycleOrTooDeep"
       ELSE IF ~index[l.parent].dir THEN "NotADirectory"
       ELSE up[index[l.parent].links[1]]]

LEMMA ExplainsUnfold ==
    ASSUME BoundAssumption
    PROVE  \E f : /\ \A link : Explain(link) = f[MaxDepth][link]
                  /\ \A left \in 0 .. MaxDepth : f[left] = Explains(left, f[left - 1])
<1> DEFINE Step(left, up) == Explains(left, up)
           Is(m, f) == f = [left \in 0 .. m |-> Step(left, f[left - 1])]
           Fails == { m \in Nat : ~\E f : Is(m, f) }
<1>1. \A f, g : Step(0, f) = Step(0, g)
  BY DEF Explains
<1>2. \A link : Explain(link) = (CHOOSE f : Is(MaxDepth, f))[MaxDepth][link]
  BY Zenon DEF Explain, Explains
<1> HIDE DEF Step
<1>3. \A m \in Nat : \A f : Is(m, f) => \A left \in 0 .. m : f[left] = Step(left, f[left - 1])
  OBVIOUS
<1>4. Fails = {}
  <2> SUFFICES ASSUME Fails # {} PROVE FALSE
    BY Zenon
  <2>1. PICK n \in Fails : \A m \in Fails : n <= m
    <3> Fails \subseteq Nat
      OBVIOUS
    <3> HIDE DEF Fails
    <3> QED
      BY Zenon, LeastFailure
  <2>2. n \in Nat /\ ~\E f : Is(n, f)
    BY Zenon, <2>1
  <2>3. n # 0
    <3> DEFINE zero == [left \in 0 .. 0 |-> Step(0, << >>)]
    <3>1. zero = [left \in 0 .. 0 |-> Step(left, zero[left - 1])]
      BY <1>1
    <3> QED
      BY <2>2, <3>1
  <2>4. n - 1 \in Nat /\ n - 1 \notin Fails
    <3>1. n - 1 \in Nat /\ ~(n <= n - 1)
      BY <2>2, <2>3
    <3> HIDE DEF Fails
    <3> QED
      BY <2>1, <3>1
  <2>5. PICK f : Is(n - 1, f)
    BY Zenon, <2>4
  <2> DEFINE g == [left \in 0 .. n |-> IF left = n THEN Step(n, f[n - 1]) ELSE f[left]]
  <2>6. ASSUME NEW left \in 0 .. n PROVE g[left] = Step(left, g[left - 1])
    <3>1. CASE left = n
      <4>1. g[left - 1] = f[n - 1]
        BY <2>2, <2>3, <3>1
      <4> QED
        BY <3>1, <4>1
    <3>2. CASE left # n
      <4>1. left \in 0 .. (n - 1) /\ g[left] = f[left] /\ f[left] = Step(left, f[left - 1])
        BY <1>3, <2>2, <2>4, <2>5, <3>2
      <4>2. CASE left = 0
        BY <1>1, <4>1, <4>2
      <4>3. CASE left # 0
        <5>1. g[left - 1] = f[left - 1]
          BY <2>2, <3>2, <4>3
        <5> QED
          BY <4>1, <5>1
      <4> QED
        BY <4>2, <4>3
    <3> QED
      BY <3>1, <3>2
  <2>7. g = [left \in 0 .. n |-> g[left]]
    OBVIOUS
  <2> HIDE DEF g
  <2>8. Is(n, g)
    BY <2>6, <2>7
  <2> QED
    BY Zenon, <2>2, <2>8
<1>5. \E f : Is(MaxDepth, f)
  BY Zenon, <1>4 DEF BoundAssumption
<1> DEFINE h == CHOOSE f : Is(MaxDepth, f)
<1>6. Is(MaxDepth, h)
  BY Zenon, <1>5
<1> HIDE DEF h, Is
<1>7. \A left \in 0 .. MaxDepth : h[left] = Step(left, h[left - 1])
  BY Zenon, <1>3, <1>6 DEF BoundAssumption
<1>8. \A link : Explain(link) = h[MaxDepth][link]
  BY Zenon, <1>2 DEF h
<1> QED
  BY Zenon, <1>7, <1>8 DEF Step

(* ResolveDirectory, likewise.                                               *)
Beyond(above, r) ==
    IF above.known
    THEN Known(Append(above.path, r), Learn(above.cache, r, Append(above.path, r)))
    ELSE Nowhere

Resolved(l, left, up, c) ==
    IF l.parent = Root THEN Known(<< >>, c)
    ELSE IF left = 0 \/ IsStale(l.parent, l.seq, c) THEN Nowhere
    ELSE IF l.parent \in DOMAIN c THEN Known(c[l.parent], c)
    ELSE IF l.parent \notin DOMAIN index \/ ~index[l.parent].dir THEN Nowhere
    ELSE Beyond(up[index[l.parent].links[1]], l.parent)

Resolves(left, up, c) == [l \in Links |-> Resolved(l, left, up, c)]

LEMMA ResolvesUnfold ==
    ASSUME BoundAssumption, NEW c
    PROVE  \E f : /\ \A link : ResolveDirectory(link, c) = f[MaxDepth][link]
                  /\ \A left \in 0 .. MaxDepth : f[left] = Resolves(left, f[left - 1], c)
<1> DEFINE Step(left, up) == Resolves(left, up, c)
           Is(m, f) == f = [left \in 0 .. m |-> Step(left, f[left - 1])]
           Fails == { m \in Nat : ~\E f : Is(m, f) }
<1>1. \A f, g : Step(0, f) = Step(0, g)
  BY DEF Resolves, Resolved
<1>2. \A link : ResolveDirectory(link, c) = (CHOOSE f : Is(MaxDepth, f))[MaxDepth][link]
  BY Zenon DEF ResolveDirectory, Resolves, Resolved, Beyond
<1> HIDE DEF Step
<1>3. \A m \in Nat : \A f : Is(m, f) => \A left \in 0 .. m : f[left] = Step(left, f[left - 1])
  OBVIOUS
<1>4. Fails = {}
  <2> SUFFICES ASSUME Fails # {} PROVE FALSE
    BY Zenon
  <2>1. PICK n \in Fails : \A m \in Fails : n <= m
    <3> Fails \subseteq Nat
      OBVIOUS
    <3> HIDE DEF Fails
    <3> QED
      BY Zenon, LeastFailure
  <2>2. n \in Nat /\ ~\E f : Is(n, f)
    BY Zenon, <2>1
  <2>3. n # 0
    <3> DEFINE zero == [left \in 0 .. 0 |-> Step(0, << >>)]
    <3>1. zero = [left \in 0 .. 0 |-> Step(left, zero[left - 1])]
      BY <1>1
    <3> QED
      BY <2>2, <3>1
  <2>4. n - 1 \in Nat /\ n - 1 \notin Fails
    <3>1. n - 1 \in Nat /\ ~(n <= n - 1)
      BY <2>2, <2>3
    <3> HIDE DEF Fails
    <3> QED
      BY <2>1, <3>1
  <2>5. PICK f : Is(n - 1, f)
    BY Zenon, <2>4
  <2> DEFINE g == [left \in 0 .. n |-> IF left = n THEN Step(n, f[n - 1]) ELSE f[left]]
  <2>6. ASSUME NEW left \in 0 .. n PROVE g[left] = Step(left, g[left - 1])
    <3>1. CASE left = n
      <4>1. g[left - 1] = f[n - 1]
        BY <2>2, <2>3, <3>1
      <4> QED
        BY <3>1, <4>1
    <3>2. CASE left # n
      <4>1. left \in 0 .. (n - 1) /\ g[left] = f[left] /\ f[left] = Step(left, f[left - 1])
        BY <1>3, <2>2, <2>4, <2>5, <3>2
      <4>2. CASE left = 0
        BY <1>1, <4>1, <4>2
      <4>3. CASE left # 0
        <5>1. g[left - 1] = f[left - 1]
          BY <2>2, <3>2, <4>3
        <5> QED
          BY <4>1, <5>1
      <4> QED
        BY <4>2, <4>3
    <3> QED
      BY <3>1, <3>2
  <2>7. g = [left \in 0 .. n |-> g[left]]
    OBVIOUS
  <2> HIDE DEF g
  <2>8. Is(n, g)
    BY <2>6, <2>7
  <2> QED
    BY Zenon, <2>2, <2>8
<1>5. \E f : Is(MaxDepth, f)
  BY Zenon, <1>4 DEF BoundAssumption
<1> DEFINE h == CHOOSE f : Is(MaxDepth, f)
<1>6. Is(MaxDepth, h)
  BY Zenon, <1>5
<1> HIDE DEF h, Is
<1>7. \A left \in 0 .. MaxDepth : h[left] = Step(left, h[left - 1])
  BY Zenon, <1>3, <1>6 DEF BoundAssumption
<1>8. \A link : ResolveDirectory(link, c) = h[MaxDepth][link]
  BY Zenon, <1>2 DEF h
<1> QED
  BY Zenon, <1>7, <1>8 DEF Step

-----------------------------------------------------------------------------
(* The records a name leads to.                                             *)
LEMMA ParentIs ==
    ASSUME BoundAssumption, Volume, NEW l \in Links, l.parent # Root
    PROVE  /\ l.parent \in RecordNumbers /\ mft[l.parent] \in MFTRecord
           /\ mft[l.parent].links # << >> =>
                /\ 1 \in DOMAIN mft[l.parent].links
                /\ mft[l.parent].links[1] \in Links /\ WasMeant(mft[l.parent].links[1])
                /\ mft[l.parent].in_use => Meant(mft[l.parent].links[1])
<1>1. l.parent \in RecordNumbers
  BY TypesAre
<1>2. mft[l.parent] \in MFTRecord
  BY <1>1 DEF Volume
<1>3. mft[l.parent].links \in Seq(Links)
  BY <1>2 DEF MFTRecord
<1>4. mft[l.parent].links # << >> =>
        1 \in DOMAIN mft[l.parent].links /\ mft[l.parent].links[1] \in Links
  BY <1>3
<1> QED
  BY <1>1, <1>2, <1>4 DEF Volume

LEMMA DirsOfRoot == Dirs(<< >>, Root)
<1>1. << >> \in Seq(RecordNumbers) /\ Len(<< >>) = 0
  OBVIOUS
<1> QED
  BY <1>1 DEF Dirs, Up

LEMMA DirsAppend ==
    ASSUME BoundAssumption, NEW r \in RecordNumbers, NEW path,
           mft[r].in_use, mft[r].dir, damaged[r] = "no",
           Dirs(path, mft[r].links[1].parent)
    PROVE  Dirs(Append(path, r), r)
<1> DEFINE n == Len(path)
           more == Append(path, r)
<1>1. path \in Seq(RecordNumbers) /\ n \in Nat
  BY DEF Dirs
<1>2. /\ more \in Seq(RecordNumbers) /\ Len(more) = n + 1 /\ more[n + 1] = r
      /\ \A i \in 1 .. n : more[i] = path[i]
  BY <1>1
<1>3. \A i \in 1 .. n + 1 : Up(more, i) = Up(path, i)
  BY <1>1, <1>2 DEF Up
<1>4. Up(more, n + 2) = r
  BY <1>1, <1>2 DEF Up
<1>5. /\ mft[r].links[1].parent = Up(path, n + 1)
      /\ \A i \in 1 .. n :
           /\ mft[path[i]].in_use /\ mft[path[i]].dir /\ damaged[path[i]] = "no"
           /\ mft[path[i]].links[1].parent = Up(path, i)
  BY DEF Dirs
<1> HIDE DEF n, more
<1>6. ASSUME NEW i \in 1 .. n + 1
      PROVE  /\ mft[more[i]].in_use /\ mft[more[i]].dir /\ damaged[more[i]] = "no"
             /\ mft[more[i]].links[1].parent = Up(more, i)
  <2>1. CASE i = n + 1
    BY <1>1, <1>2, <1>3, <1>5, <2>1
  <2>2. CASE i # n + 1
    <3>1. i \in 1 .. n
      BY <1>1, <2>2
    <3> QED
      BY <1>2, <1>3, <1>5, <3>1
  <2> QED
    BY <2>1, <2>2
<1>7. Len(more) + 1 = n + 2
  BY <1>1, <1>2
<1> QED
  BY <1>2, <1>4, <1>6, <1>7 DEF Dirs, more

(* The last of the directories to one is that one.                          *)
LEMMA DirsEnd ==
    ASSUME NEW path, NEW r \in RecordNumbers, BoundAssumption, Dirs(path, r)
    PROVE  /\ Len(path) \in Nat \ {0} /\ path[Len(path)] = r
           /\ mft[r].in_use /\ mft[r].dir /\ damaged[r] = "no"
<1>1. path \in Seq(RecordNumbers) /\ r = Up(path, Len(path) + 1) /\ r # Root
  BY TypesAre DEF Dirs
<1>2. Len(path) \in Nat /\ (Len(path) = 0 => r = Root) /\ (Len(path) # 0 => r = path[Len(path)])
  BY <1>1 DEF Up
<1>3. Len(path) \in 1 .. Len(path)
  BY <1>1, <1>2
<1> QED
  BY <1>1, <1>2, <1>3 DEF Dirs

(* Along a path of the volume nothing is wrong with a name but how deep it  *)
(* is.                                                                      *)
LEMMA OnAPath ==
    ASSUME BoundAssumption, Volume, NEW f,
           \A left \in 0 .. MaxDepth : f[left] = Whys(left, f[left - 1]),
           NEW path, NEW top, Dirs(path, top)
    PROVE  \A left \in 0 .. MaxDepth, i \in 0 .. Len(path), l \in Links :
             Meant(l) /\ l.parent = Up(path, i + 1) => f[left][l] \in {"none", "CycleOrTooDeep"}
<1> DEFINE Holds(left) == \A i \in 0 .. Len(path), l \in Links :
             Meant(l) /\ l.parent = Up(path, i + 1) => f[left][l] \in {"none", "CycleOrTooDeep"}
           Fails == { left \in 0 .. MaxDepth : ~Holds(left) }
<1>0. path \in Seq(RecordNumbers) /\ Len(path) \in Nat
  BY DEF Dirs
<1>1. ASSUME NEW left \in 0 .. MaxDepth, left # 0 => Holds(left - 1),
             NEW i \in 0 .. Len(path), NEW l \in Links, Meant(l), l.parent = Up(path, i + 1)
      PROVE  f[left][l] \in {"none", "CycleOrTooDeep"}
  <2>1. f[left][l] = IF l.parent = Root THEN "none"
                     ELSE IF left = 0 THEN "CycleOrTooDeep"
                     ELSE IF damaged[l.parent] # "no" THEN damaged[l.parent]
                     ELSE IF ~Meant(l) THEN "StaleParentReference"
                     ELSE f[left - 1][mft[l.parent].links[1]]
    <3>1. f[left] = Whys(left, f[left - 1])
      BY Zenon
    <3> QED
      BY Zenon, <3>1 DEF Whys
  <2>2. CASE l.parent = Root \/ left = 0
    BY <2>1, <2>2
  <2>3. CASE l.parent # Root /\ left # 0
    <3> DEFINE up == mft[l.parent].links[1]
    <3>1. i \in 1 .. Len(path) /\ l.parent = path[i]
      BY <1>0, <1>1, <2>3 DEF Up
    <3>2. /\ mft[l.parent].in_use /\ damaged[l.parent] = "no"
          /\ up.parent = Up(path, i)
      BY <3>1 DEF Dirs
    <3>3. mft[l.parent].links # << >>
      BY <2>3, <3>2, ParentIs DEF Volume
    <3>4. up \in Links /\ Meant(up)
      BY <2>3, <3>2, <3>3, ParentIs
    <3>5. i - 1 \in 0 .. Len(path) /\ (i - 1) + 1 = i
      BY <1>0, <3>1
    <3>6. f[left][l] = f[left - 1][up]
      BY <1>1, <2>1, <2>3, <3>2
    <3> HIDE DEF up
    <3> QED
      BY <1>1, <2>3, <3>2, <3>4, <3>5, <3>6
  <2> QED
    BY <2>2, <2>3
<1>2. Fails = {}
  <2> SUFFICES ASSUME Fails # {} PROVE FALSE
    BY Zenon
  <2>1. PICK n \in Fails : n \in 0 .. MaxDepth /\ (n # 0 => n - 1 \in (0 .. MaxDepth) \ Fails)
    <3> Fails \subseteq 0 .. MaxDepth
      BY Zenon
    <3> HIDE DEF Fails
    <3> QED
      BY Zenon, FirstFailure DEF BoundAssumption
  <2>2. ~Holds(n) /\ (n # 0 => Holds(n - 1))
    BY Zenon, <2>1
  <2> QED
    BY Zenon, <1>1, <2>1, <2>2
<1> QED
  BY Zenon, <1>2

LEMMA FoundIsNotLost ==
    ASSUME BoundAssumption, Volume, NEW l \in Links, Found(l)
    PROVE  WhyNot(l) \in {"none", "CycleOrTooDeep"}
<1>1. PICK f : /\ \A link : WhyNot(link) = f[MaxDepth][link]
               /\ \A left \in 0 .. MaxDepth : f[left] = Whys(left, f[left - 1])
  BY Zenon, WhysUnfold
<1>2. PICK path : Dirs(path, l.parent)
  BY DEF Found
<1>3. Len(path) \in 0 .. Len(path) /\ MaxDepth \in 0 .. MaxDepth
  BY <1>2 DEF Dirs, BoundAssumption
<1>4. Meant(l) /\ l.parent = Up(path, Len(path) + 1)
  BY <1>2 DEF Found, Dirs
<1>5. f[MaxDepth][l] \in {"none", "CycleOrTooDeep"}
  BY <1>1, <1>2, <1>3, <1>4, OnAPath
<1> QED
  BY <1>1, <1>5

-----------------------------------------------------------------------------
(* What the index says of the record a name leads to.                       *)
LEMMA IndexIs ==
    ASSUME BoundAssumption, Volume, IndexIsOfTheVolume,
           NEW l \in Links, WasMeant(l), l.parent # Root
    PROVE  /\ mft[l.parent].links # << >>
           /\ l.parent \in DOMAIN index <=> damaged[l.parent] = "no"
           /\ Meant(l) => mft[l.parent].in_use /\ mft[l.parent].dir
           /\ l.parent \in DOMAIN index =>
                /\ index[l.parent].dir <=> mft[l.parent].dir
                /\ index[l.parent].links[1] = Kept(mft[l.parent].links[1])
                /\ StaleIn(index, l.seq, l.parent) <=> ~Meant(l)
                /\ ~StaleIn(index, 0, l.parent)
<1>1. l.parent \in RecordNumbers /\ mft[l.parent] \in MFTRecord
  BY ParentIs
<1>2. mft[l.parent].links # << >> /\ 1 \in DOMAIN mft[l.parent].links
  BY ParentIs DEF WasMeant
<1>3. l.parent \in DOMAIN index <=> damaged[l.parent] = "no"
  BY <1>1, <1>2 DEF IndexIsOfTheVolume, Indexed
<1>4. Meant(l) => mft[l.parent].in_use /\ mft[l.parent].dir
  BY DEF Meant, WasMeant
<1>5. l.parent \in DOMAIN index =>
        /\ index[l.parent].seq = mft[l.parent].seq /\ index[l.parent].dir = mft[l.parent].dir
        /\ index[l.parent].links[1] = Kept(mft[l.parent].links[1])
  BY <1>2 DEF IndexIsOfTheVolume
<1>6. l.seq # 0 /\ (l.seq = mft[l.parent].seq => mft[l.parent].in_use)
  <2>1. l.seq > 0 /\ l.seq \in Nat
    BY Zenon, TypesAre DEF WasMeant
  <2>2. l.seq # 0
    BY <2>1
  <2>3. l.seq = mft[l.parent].seq => mft[l.parent].in_use
    BY Zenon DEF WasMeant
  <2> QED
    BY Zenon, <2>2, <2>3
<1>7. ASSUME l.parent \in DOMAIN index
      PROVE  StaleIn(index, l.seq, l.parent) <=> ~Meant(l)
  <2>1. StaleIn(index, l.seq, l.parent) <=> index[l.parent].seq # l.seq
    BY Zenon, <1>6, <1>7 DEF StaleIn
  <2>2. Meant(l) <=> mft[l.parent].seq = l.seq
    BY Zenon, <1>6 DEF Meant
  <2> QED
    BY Zenon, <1>5, <1>7, <2>1, <2>2
<1>8. ~StaleIn(index, 0, l.parent)
  BY DEF StaleIn
<1> QED
  BY <1>2, <1>3, <1>4, <1>5, <1>7, <1>8

LEMMA KeptIs ==
    ASSUME BoundAssumption, NEW l \in Links
    PROVE  /\ Kept(l) \in Links /\ Kept(l).parent = l.parent
           /\ Kept(l).seq = (IF checked THEN l.seq ELSE 0)
           /\ checked => Kept(l) = l
  BY TypesAre DEF Kept, Link

LEMMA KnownIs ==
    ASSUME NEW path, NEW c, NEW found
    PROVE  /\ found = Nowhere => ~found.known
           /\ found = Known(path, c) => found.known /\ found.path = path /\ found.cache = c
  BY DEF Nowhere, Known

LEMMA BeyondIs ==
    ASSUME NEW above, NEW r, NEW found, found = Beyond(above, r)
    PROVE  /\ ~above.known => ~found.known
           /\ above.known =>
                /\ found.known /\ found.path = Append(above.path, r)
                /\ found.cache = Learn(above.cache, r, Append(above.path, r))
<1> DEFINE path == Append(above.path, r)
           c == Learn(above.cache, r, path)
<1>1. found = IF above.known THEN Known(path, c) ELSE Nowhere
  BY Zenon DEF Beyond
<1> HIDE DEF path, c
<1>2. /\ found = Nowhere => ~found.known
      /\ found = Known(path, c) => found.known /\ found.path = path /\ found.cache = c
  BY KnownIs
<1>3. /\ ~above.known => ~found.known
      /\ above.known => found.known /\ found.path = path /\ found.cache = c
  BY Zenon, <1>1, <1>2
<1> QED
  BY Zenon, <1>3 DEF path, c

(* A directory whose path can be had is found, whatever is known already.   *)
LEMMA ResolveFinds ==
    ASSUME BoundAssumption, Volume, IndexIsOfTheVolume, NEW c,
           NEW l \in Links, WasMeant(l), WhyNot(l) = "none"
    PROVE  ResolveDirectory(Kept(l), c).known
<1>0. MaxDepth \in 0 .. MaxDepth
  BY Zenon, DepthIs
<1>1. PICK f : /\ \A link : WhyNot(link) = f[MaxDepth][link]
               /\ \A left \in 0 .. MaxDepth : f[left] = Whys(left, f[left - 1])
  BY Zenon, WhysUnfold
<1>2. PICK g : /\ \A link : ResolveDirectory(link, c) = g[MaxDepth][link]
               /\ \A left \in 0 .. MaxDepth : g[left] = Resolves(left, g[left - 1], c)
  BY Zenon, ResolvesUnfold
<1> DEFINE Holds(left) == \A m \in Links : WasMeant(m) /\ f[left][m] = "none" => g[left][Kept(m)].known
           Fails == { left \in 0 .. MaxDepth : ~Holds(left) }
<1>3. ASSUME NEW left \in 0 .. MaxDepth, left # 0 => Holds(left - 1),
             NEW m \in Links, WasMeant(m), f[left][m] = "none"
      PROVE  g[left][Kept(m)].known
  <2> DEFINE k == Kept(m)
             up == mft[m.parent].links[1]
  <2>1. k \in Links /\ k.parent = m.parent /\ k.seq = (IF checked THEN m.seq ELSE 0)
    BY KeptIs
  <2>2. f[left][m] = IF m.parent = Root THEN "none"
                     ELSE IF left = 0 THEN "CycleOrTooDeep"
                     ELSE IF damaged[m.parent] # "no" THEN damaged[m.parent]
                     ELSE IF ~Meant(m) THEN "StaleParentReference"
                     ELSE f[left - 1][up]
    <3>1. f[left] = Whys(left, f[left - 1])
      BY Zenon, <1>1
    <3> QED
      BY Zenon, <3>1 DEF Whys
  <2> HIDE DEF k
  <2>3. g[left][k] = Resolved(k, left, g[left - 1], c)
    BY Zenon, <1>2, <2>1 DEF Resolves
  <2>4. CASE m.parent = Root
    <3>1. g[left][k] = Known(<< >>, c)
      BY Zenon, <2>1, <2>3, <2>4 DEF Resolved
    <3> QED
      BY Zenon, <3>1, KnownIs DEF k
  <2>5. CASE m.parent # Root
    <3>1. left # 0 /\ damaged[m.parent] \in {"no", "unreadable", "nameless"}
      BY <1>3, <2>2, <2>5, ParentIs DEF Volume
    <3>2. damaged[m.parent] = "no" /\ Meant(m) /\ f[left - 1][up] = "none"
      BY <1>3, <2>2, <2>5, <3>1
    <3>3. /\ k.parent \in DOMAIN index /\ index[k.parent].dir
          /\ index[k.parent].links[1] = Kept(up) /\ ~IsStale(k.parent, k.seq, c)
      <4>1. /\ m.parent \in DOMAIN index /\ index[m.parent].dir
            /\ index[m.parent].links[1] = Kept(up)
            /\ ~StaleIn(index, m.seq, m.parent) /\ ~StaleIn(index, 0, m.parent)
        BY Zenon, <1>3, <2>5, <3>2, IndexIs
      <4> QED
        BY Zenon, <2>1, <4>1 DEF IsStale
    <3>4. up \in Links /\ WasMeant(up)
      BY Zenon, <1>3, <2>5, IndexIs, ParentIs
    <3>5. g[left - 1][Kept(up)].known
      BY Zenon, <1>3, <3>1, <3>2, <3>4
    <3> HIDE DEF up
    <3>6. g[left][k] \in { Known(c[k.parent], c), Beyond(g[left - 1][Kept(up)], k.parent) }
      BY Zenon, <2>1, <2>3, <2>5, <3>1, <3>3 DEF Resolved
    <3>7. g[left][k].known
      <4>1. CASE g[left][k] = Known(c[k.parent], c)
        BY Zenon, <4>1, KnownIs
      <4>2. CASE g[left][k] = Beyond(g[left - 1][Kept(up)], k.parent)
        BY Zenon, <3>5, <4>2, BeyondIs
      <4> QED
        BY Zenon, <3>6, <4>1, <4>2
    <3> QED
      BY Zenon, <3>7 DEF k
  <2> QED
    BY Zenon, <2>4, <2>5
<1>4. Fails = {}
  <2> SUFFICES ASSUME Fails # {} PROVE FALSE
    BY Zenon
  <2>1. PICK n \in Fails : n \in 0 .. MaxDepth /\ (n # 0 => n - 1 \in (0 .. MaxDepth) \ Fails)
    <3> Fails \subseteq 0 .. MaxDepth
      BY Zenon
    <3> HIDE DEF Fails
    <3> QED
      BY Zenon, FirstFailure DEF BoundAssumption
  <2>2. ~Holds(n) /\ (n # 0 => Holds(n - 1))
    BY Zenon, <2>1
  <2> QED
    BY Zenon, <1>3, <2>1, <2>2
<1>5. Holds(MaxDepth)
  BY Zenon, <1>0, <1>4
<1> QED
  BY Zenon, <1>1, <1>2, <1>5

LEMMA PathsKnownGrow ==
    ASSUME NEW c, NEW r, NEW path, PathsKnown(c), Dirs(path, r)
    PROVE  PathsKnown(Learn(c, r, path))
<1>1. ASSUME checked, NEW d \in DOMAIN Learn(c, r, path)
      PROVE  Dirs(Learn(c, r, path)[d], d)
  <2>1. d \in DOMAIN c \cup {r}
    BY <1>1 DEF Learn
  <2>2. Learn(c, r, path)[d] = IF d = r THEN path ELSE c[d]
    BY <2>1 DEF Learn
  <2> QED
    BY Zenon, <1>1, <2>1, <2>2 DEF PathsKnown
<1> QED
  BY Zenon, <1>1 DEF PathsKnown

LEMMA KnownHas ==
    ASSUME NEW path, NEW c
    PROVE  /\ Known(path, c).known
           /\ Known(path, c).path = path /\ Known(path, c).cache = c
  BY DEF Known

(* A path found is the volume's, where sequence numbers are believed, and   *)
(* so is what is known after it.                                            *)
LEMMA ResolveIsTrue ==
    ASSUME BoundAssumption, Volume, IndexIsOfTheVolume, checked, NEW c, PathsKnown(c),
           NEW l \in Links, WasMeant(l), ResolveDirectory(l, c).known
    PROVE  /\ Meant(l) /\ Dirs(ResolveDirectory(l, c).path, l.parent)
           /\ PathsKnown(ResolveDirectory(l, c).cache)
<1>0. MaxDepth \in 0 .. MaxDepth
  BY Zenon, DepthIs
<1>1. PICK g : /\ \A link : ResolveDirectory(link, c) = g[MaxDepth][link]
               /\ \A left \in 0 .. MaxDepth : g[left] = Resolves(left, g[left - 1], c)
  BY Zenon, ResolvesUnfold
<1> DEFINE Good(found, m) == /\ Meant(m) /\ Dirs(found.path, m.parent)
                             /\ PathsKnown(found.cache)
           Holds(left) == \A m \in Links : WasMeant(m) /\ g[left][m].known => Good(g[left][m], m)
           Fails == { left \in 0 .. MaxDepth : ~Holds(left) }
<1>2. ASSUME NEW left \in 0 .. MaxDepth, left # 0 => Holds(left - 1),
             NEW m \in Links, WasMeant(m), g[left][m].known
      PROVE  Good(g[left][m], m)
  <2> DEFINE up == mft[m.parent].links[1]
             above == g[left - 1][up]
  <2>1. g[left][m] = Resolved(m, left, g[left - 1], c)
    BY Zenon, <1>1 DEF Resolves
  <2>2. g[left][m] # Nowhere
    BY Zenon, <1>2, KnownIs
  <2>3. CASE m.parent = Root
    <3>1. g[left][m] = Known(<< >>, c)
      BY Zenon, <2>1, <2>3 DEF Resolved
    <3>2. Known(<< >>, c).path = << >> /\ Known(<< >>, c).cache = c
      BY Zenon, KnownHas
    <3>3. g[left][m].path = << >> /\ g[left][m].cache = c
      BY Zenon, <3>1, <3>2
    <3> QED
      BY Zenon, <2>3, <3>3, DirsOfRoot DEF Meant
  <2>4. CASE m.parent # Root
    <3>1. left # 0 /\ ~IsStale(m.parent, m.seq, c)
      BY Zenon, <2>1, <2>2, <2>4 DEF Resolved
    <3>2. m.parent \in RecordNumbers
      BY Zenon, <2>4, ParentIs
    <3>3. CASE m.parent \in DOMAIN c
      <4>1. g[left][m] = Known(c[m.parent], c)
        BY Zenon, <2>1, <2>4, <3>1, <3>3 DEF Resolved
      <4>2. Known(c[m.parent], c).path = c[m.parent] /\ Known(c[m.parent], c).cache = c
        BY Zenon, KnownHas
      <4>3. Dirs(c[m.parent], m.parent)
        BY Zenon, <3>3 DEF PathsKnown
      <4>4. damaged[m.parent] = "no"
        BY Zenon, <3>2, <4>3, DirsEnd
      <4>5. Meant(m)
        BY Zenon, <1>2, <2>4, <3>1, <4>4, IndexIs DEF IsStale
      <4> QED
        BY Zenon, <4>1, <4>2, <4>3, <4>5
    <3>4. CASE m.parent \notin DOMAIN c
      <4>1. /\ m.parent \in DOMAIN index /\ index[m.parent].dir
            /\ g[left][m] = Beyond(g[left - 1][index[m.parent].links[1]], m.parent)
        BY Zenon, <2>1, <2>2, <2>4, <3>1, <3>4 DEF Resolved
      <4>2. /\ mft[m.parent].links # << >> /\ damaged[m.parent] = "no" /\ Meant(m)
            /\ mft[m.parent].in_use /\ mft[m.parent].dir
            /\ index[m.parent].links[1] = Kept(up)
        BY Zenon, <1>2, <2>4, <3>1, <4>1, IndexIs DEF IsStale
      <4>3. up \in Links /\ WasMeant(up)
        BY Zenon, <2>4, <4>2, ParentIs
      <4>4. g[left][m] = Beyond(above, m.parent)
        BY Zenon, <4>1, <4>2, <4>3, KeptIs
      <4>5. above.known
        BY Zenon, <2>2, <4>4 DEF Beyond
      <4>6. Dirs(above.path, up.parent) /\ PathsKnown(above.cache)
        BY Zenon, <1>2, <3>1, <4>3, <4>5
      <4>7. Dirs(Append(above.path, m.parent), m.parent)
        BY Zenon, <3>2, <4>2, <4>6, DirsAppend
      <4>8. PathsKnown(Learn(above.cache, m.parent, Append(above.path, m.parent)))
        BY Zenon, <4>6, <4>7, PathsKnownGrow
      <4> DEFINE path == Append(above.path, m.parent)
                 more == Learn(above.cache, m.parent, path)
      <4>9. g[left][m] = Known(path, more)
        BY Zenon, <4>4, <4>5 DEF Beyond
      <4> HIDE DEF path, more
      <4>10. Known(path, more).path = path /\ Known(path, more).cache = more
        BY Zenon, KnownHas
      <4>11. g[left][m].path = path /\ g[left][m].cache = more
        BY Zenon, <4>9, <4>10
      <4>12. Dirs(path, m.parent) /\ PathsKnown(more)
        BY Zenon, <4>7, <4>8 DEF path, more
      <4> QED
        BY Zenon, <4>2, <4>11, <4>12
    <3> QED
      BY Zenon, <3>3, <3>4
  <2> QED
    BY Zenon, <2>3, <2>4
<1>3. Fails = {}
  <2> SUFFICES ASSUME Fails # {} PROVE FALSE
    BY Zenon
  <2>1. PICK n \in Fails : n \in 0 .. MaxDepth /\ (n # 0 => n - 1 \in (0 .. MaxDepth) \ Fails)
    <3> Fails \subseteq 0 .. MaxDepth
      BY Zenon
    <3> HIDE DEF Fails
    <3> QED
      BY Zenon, FirstFailure DEF BoundAssumption
  <2>2. ~Holds(n) /\ (n # 0 => Holds(n - 1))
    BY Zenon, <2>1
  <2> QED
    BY Zenon, <1>2, <2>1, <2>2
<1>4. Holds(MaxDepth)
  BY Zenon, <1>0, <1>3
<1> QED
  BY Zenon, <1>1, <1>4

(* What cannot be had is explained as it is, whatever is known already.     *)
LEMMA ExplainIsTrue ==
    ASSUME BoundAssumption, Volume, IndexIsOfTheVolume, checked, PathsKnown(cache),
           NEW l \in Links, WasMeant(l), WhyNot(l) # "none"
    PROVE  Explain(l) = WhyNot(l)
<1>0. MaxDepth \in 0 .. MaxDepth
  BY Zenon, DepthIs
<1>1. PICK f : /\ \A link : WhyNot(link) = f[MaxDepth][link]
               /\ \A left \in 0 .. MaxDepth : f[left] = Whys(left, f[left - 1])
  BY Zenon, WhysUnfold
<1>2. PICK e : /\ \A link : Explain(link) = e[MaxDepth][link]
               /\ \A left \in 0 .. MaxDepth : e[left] = Explains(left, e[left - 1])
  BY Zenon, ExplainsUnfold
<1> DEFINE Holds(left) == \A m \in Links : WasMeant(m) /\ f[left][m] # "none" => e[left][m] = f[left][m]
           Fails == { left \in 0 .. MaxDepth : ~Holds(left) }
<1>3. ASSUME NEW left \in 0 .. MaxDepth, left # 0 => Holds(left - 1),
             NEW m \in Links, WasMeant(m), f[left][m] # "none"
      PROVE  e[left][m] = f[left][m]
  <2> DEFINE up == mft[m.parent].links[1]
  <2>1. f[left][m] = Whys(left, f[left - 1])[m] /\ e[left][m] = Explains(left, e[left - 1])[m]
    BY Zenon, <1>1, <1>2
  <2>2. f[left][m] = IF m.parent = Root THEN "none"
                     ELSE IF left = 0 THEN "CycleOrTooDeep"
                     ELSE IF damaged[m.parent] # "no" THEN damaged[m.parent]
                     ELSE IF ~Meant(m) THEN "StaleParentReference"
                     ELSE f[left - 1][up]
    BY Zenon, <2>1 DEF Whys
  <2>3. e[left][m] = IF m.parent = Root \/ left = 0 THEN "CycleOrTooDeep"
                     ELSE IF m.parent \notin DOMAIN index
                          THEN IF mft[m.parent].links = << >> THEN "NeverAllocated"
                               ELSE damaged[m.parent]
                     ELSE IF StaleIn(index, m.seq, m.parent) THEN "StaleParentReference"
                     ELSE IF m.parent \in DOMAIN cache THEN "CycleOrTooDeep"
                     ELSE IF ~index[m.parent].dir THEN "NotADirectory"
                     ELSE e[left - 1][index[m.parent].links[1]]
    BY Zenon, <2>1 DEF Explains
  <2>4. m.parent # Root
    BY Zenon, <1>3, <2>2
  <2>5. m.parent \in RecordNumbers
    BY Zenon, <2>4, ParentIs
  <2>6. CASE left = 0
    BY Zenon, <2>2, <2>3, <2>4, <2>6
  <2>7. CASE left # 0 /\ damaged[m.parent] # "no"
    <3>1. mft[m.parent].links # << >> /\ m.parent \notin DOMAIN index
      BY Zenon, <1>3, <2>4, <2>7, IndexIs
    <3> QED
      BY Zenon, <2>2, <2>3, <2>4, <2>7, <3>1
  <2>8. CASE left # 0 /\ damaged[m.parent] = "no"
    <3>1. /\ m.parent \in DOMAIN index /\ mft[m.parent].links # << >>
          /\ index[m.parent].links[1] = Kept(up)
          /\ StaleIn(index, m.seq, m.parent) <=> ~Meant(m)
          /\ Meant(m) => index[m.parent].dir
      BY Zenon, <1>3, <2>4, <2>8, IndexIs
    <3>2. CASE ~Meant(m)
      BY Zenon, <2>2, <2>3, <2>4, <2>8, <3>1, <3>2
    <3>3. CASE Meant(m) /\ m.parent \in DOMAIN cache
      <4> DEFINE path == cache[m.parent]
      <4>1. Dirs(path, m.parent)
        BY Zenon, <3>3 DEF PathsKnown
      <4>2. Len(path) \in 0 .. Len(path) /\ m.parent = Up(path, Len(path) + 1)
        BY <4>1 DEF Dirs
      <4>3. f[left][m] \in {"none", "CycleOrTooDeep"}
        BY Zenon, <1>1, <3>3, <4>1, <4>2, OnAPath
      <4> QED
        BY Zenon, <1>3, <2>3, <2>4, <2>8, <3>1, <3>3, <4>3
    <3>4. CASE Meant(m) /\ m.parent \notin DOMAIN cache
      <4>1. up \in Links /\ WasMeant(up)
        BY Zenon, <2>4, <3>1, ParentIs
      <4>2. index[m.parent].links[1] = up
        BY Zenon, <3>1, <4>1, KeptIs
      <4>3. f[left][m] = f[left - 1][up] /\ e[left][m] = e[left - 1][up]
        BY Zenon, <2>2, <2>3, <2>4, <2>8, <3>1, <3>4, <4>2
      <4> QED
        BY Zenon, <1>3, <2>8, <4>1, <4>3
    <3> QED
      BY Zenon, <3>2, <3>3, <3>4
  <2> QED
    BY Zenon, <2>6, <2>7, <2>8
<1>4. Fails = {}
  <2> SUFFICES ASSUME Fails # {} PROVE FALSE
    BY Zenon
  <2>1. PICK n \in Fails : n \in 0 .. MaxDepth /\ (n # 0 => n - 1 \in (0 .. MaxDepth) \ Fails)
    <3> Fails \subseteq 0 .. MaxDepth
      BY Zenon
    <3> HIDE DEF Fails
    <3> QED
      BY Zenon, FirstFailure DEF BoundAssumption
  <2>2. ~Holds(n) /\ (n # 0 => Holds(n - 1))
    BY Zenon, <2>1
  <2> QED
    BY Zenon, <1>3, <2>1, <2>2
<1>5. Holds(MaxDepth)
  BY Zenon, <1>0, <1>4
<1> QED
  BY Zenon, <1>1, <1>2, <1>5

-----------------------------------------------------------------------------
(* The names of a file, one more.                                           *)
NoneYet(c) == [cache |-> c, at |-> {}, lost |-> {}]

Names(i, before, r, c) ==
    IF i = 0 THEN NoneYet(c) ELSE ResolveLink(before, r, index[r].links[i])

OneByOne(f, r, c) ==
    /\ ResolveLinks(r, c) = f[Len(index[r].links)]
    /\ f[0] = NoneYet(c)
    /\ \A i \in 1 .. Len(index[r].links) :
         f[i] = ResolveLink(f[i - 1], r, index[r].links[i])

LEMMA LinksUnfold ==
    ASSUME NEW r, NEW c, Len(index[r].links) \in Nat
    PROVE  \E f : OneByOne(f, r, c)
<1> DEFINE N == Len(index[r].links)
           Step(i, before) == Names(i, before, r, c)
           Is(m, f) == f = [i \in 0 .. m |-> Step(i, f[i - 1])]
           Fails == { m \in Nat : ~\E f : Is(m, f) }
<1>0. N \in Nat
  OBVIOUS
<1>1. \A f, g : Step(0, f) = Step(0, g)
  BY DEF Names
<1>2. ResolveLinks(r, c) = (CHOOSE f : Is(N, f))[N]
  BY Zenon DEF ResolveLinks, Names, NoneYet
<1> HIDE DEF Step, N
<1>3. \A m \in Nat : \A f : Is(m, f) => \A i \in 0 .. m : f[i] = Step(i, f[i - 1])
  OBVIOUS
<1>4. Fails = {}
  <2> SUFFICES ASSUME Fails # {} PROVE FALSE
    BY Zenon
  <2>1. PICK n \in Fails : \A m \in Fails : n <= m
    <3> Fails \subseteq Nat
      OBVIOUS
    <3> HIDE DEF Fails
    <3> QED
      BY Zenon, LeastFailure
  <2>2. n \in Nat /\ ~\E f : Is(n, f)
    BY Zenon, <2>1
  <2>3. n # 0
    <3> DEFINE zero == [i \in 0 .. 0 |-> Step(0, << >>)]
    <3>1. zero = [i \in 0 .. 0 |-> Step(i, zero[i - 1])]
      BY <1>1
    <3> QED
      BY <2>2, <3>1
  <2>4. n - 1 \in Nat /\ n - 1 \notin Fails
    <3>1. n - 1 \in Nat /\ ~(n <= n - 1)
      BY <2>2, <2>3
    <3> HIDE DEF Fails
    <3> QED
      BY <2>1, <3>1
  <2>5. PICK f : Is(n - 1, f)
    BY Zenon, <2>4
  <2> DEFINE g == [i \in 0 .. n |-> IF i = n THEN Step(n, f[n - 1]) ELSE f[i]]
  <2>6. ASSUME NEW i \in 0 .. n PROVE g[i] = Step(i, g[i - 1])
    <3>1. CASE i = n
      <4>1. g[i - 1] = f[n - 1]
        BY <2>2, <2>3, <3>1
      <4> QED
        BY <3>1, <4>1
    <3>2. CASE i # n
      <4>1. i \in 0 .. (n - 1) /\ g[i] = f[i] /\ f[i] = Step(i, f[i - 1])
        <5>1. n \in Nat
          BY Zenon, <2>2
        <5>2. i \in 0 .. (n - 1)
          BY <3>2, <5>1
        <5>3. f[i] = Step(i, f[i - 1])
          BY Zenon, <1>3, <2>4, <2>5, <5>2
        <5> QED
          BY Zenon, <3>2, <5>2, <5>3
      <4>2. CASE i = 0
        BY <1>1, <4>1, <4>2
      <4>3. CASE i # 0
        <5>1. g[i - 1] = f[i - 1]
          BY <2>2, <3>2, <4>3
        <5> QED
          BY <4>1, <5>1
      <4> QED
        BY <4>2, <4>3
    <3> QED
      BY <3>1, <3>2
  <2>7. g = [i \in 0 .. n |-> g[i]]
    OBVIOUS
  <2> HIDE DEF g
  <2>8. Is(n, g)
    BY <2>6, <2>7
  <2> QED
    BY Zenon, <2>2, <2>8
<1>5. \E f : Is(N, f)
  BY Zenon, <1>0, <1>4
<1> DEFINE h == CHOOSE f : Is(N, f)
<1>6. Is(N, h)
  BY Zenon, <1>5
<1> HIDE DEF h, Is
<1>7. \A i \in 0 .. N : h[i] = Step(i, h[i - 1])
  BY Zenon, <1>0, <1>3, <1>6
<1>8. ResolveLinks(r, c) = h[N]
  BY Zenon, <1>2 DEF h
<1>9. h[0] = NoneYet(c)
  <2>1. 0 \in 0 .. N
    BY <1>0
  <2> QED
    BY Zenon, <1>7, <2>1 DEF Step, Names
<1>10. ASSUME NEW i \in 1 .. N PROVE h[i] = ResolveLink(h[i - 1], r, index[r].links[i])
  <2>1. i \in 0 .. N /\ i # 0
    BY <1>0
  <2> QED
    BY Zenon, <1>7, <2>1 DEF Step, Names
<1> QED
  BY Zenon, <1>8, <1>9, <1>10 DEF OneByOne, N

(* What the volume says stays, where the volume does.                       *)
WhyOf(table, spoilt, link) ==
    LET why[left \in 0 .. MaxDepth] ==
            [l \in Links |->
               IF l.parent = Root THEN "none"
               ELSE IF left = 0 THEN "CycleOrTooDeep"
               ELSE IF spoilt[l.parent] # "no" THEN spoilt[l.parent]
               ELSE IF ~(\/ l.parent = Root
                         \/ table[l.parent].in_use /\ table[l.parent].seq = l.seq)
                    THEN "StaleParentReference"
               ELSE why[left - 1][table[l.parent].links[1]]]
    IN why[MaxDepth][link]

LEMMA VolumeStays ==
    ASSUME mft' = mft, damaged' = damaged
    PROVE  /\ Volume => Volume'
           /\ \A l : WhyNot(l)' = WhyNot(l)
           /\ \A l : Meant(l)' <=> Meant(l)
           /\ \A l : WasMeant(l)' <=> WasMeant(l)
           /\ \A path, parent : Dirs(path, parent)' <=> Dirs(path, parent)
           /\ \A l : Found(l)' <=> Found(l)
           /\ \A p : IsPlaced(p)' <=> IsPlaced(p)
           /\ \A r : Indexed(r)' <=> Indexed(r)
<1>1. \A l : WhyNot(l)' = WhyNot(l)
  <2>1. \A l : WhyNot(l) = WhyOf(mft, damaged, l)
    BY Zenon DEF WhyNot, WhyOf, Meant
  <2>2. \A l : WhyNot(l)' = WhyOf(mft', damaged', l)
    BY Zenon DEF WhyNot, WhyOf, Meant
  <2> QED
    BY Zenon, <2>1, <2>2
<1>2. \A l : Meant(l)' <=> Meant(l)
  BY Zenon DEF Meant
<1>3. \A l : WasMeant(l)' <=> WasMeant(l)
  BY Zenon DEF WasMeant
<1>4. \A path, parent : Dirs(path, parent)' <=> Dirs(path, parent)
  BY Zenon DEF Dirs
<1>5. \A l : Found(l)' <=> Found(l)
  BY Zenon, <1>2, <1>4 DEF Found
<1>6. \A p : IsPlaced(p)' <=> IsPlaced(p)
  BY Zenon DEF IsPlaced, Meant, Leads, LiveDirs
<1>7. \A r : Indexed(r)' <=> Indexed(r)
  BY Zenon DEF Indexed
<1>8. Volume => Volume'
  BY Zenon, <1>2, <1>3 DEF Volume
<1> QED
  BY Zenon, <1>1, <1>2, <1>3, <1>4, <1>5, <1>6, <1>7, <1>8

(* A file at the end of the directories its name leads through.             *)
LEMMA PathIsPlaced ==
    ASSUME BoundAssumption, NEW r, NEW l, NEW path, Meant(l), Dirs(path, l.parent),
           r \in RecordNumbers
    PROVE  IsPlaced(<< r, l, Append(path, r) >>)
<1> DEFINE n == Len(path)
           more == Append(path, r)
<1>1. path \in Seq(RecordNumbers) /\ n \in Nat
  BY DEF Dirs
<1>2. /\ more \in Seq(RecordNumbers) /\ Len(more) = n + 1 /\ more[n + 1] = r
      /\ \A i \in 1 .. n : more[i] = path[i]
  BY <1>1
<1>3. \A i \in 1 .. n + 1 : Up(more, i) = Up(path, i)
  BY <1>1, <1>2 DEF Up
<1>4. l.parent = Up(path, n + 1) /\ n + 1 \in 1 .. n + 1
  BY <1>1 DEF Dirs
<1>5. ASSUME NEW i \in 1 .. n
      PROVE  more[i] \in LiveDirs \ {Root} /\ mft[more[i]].links[1].parent = Up(more, i)
  <2>1. /\ mft[path[i]].in_use /\ mft[path[i]].dir
        /\ mft[path[i]].links[1].parent = Up(path, i)
    BY DEF Dirs
  <2>2. i \in 1 .. n + 1 /\ path[i] \in RecordNumbers /\ Root \notin RecordNumbers
    BY <1>1, TypesAre
  <2> QED
    BY Zenon, <1>2, <1>3, <2>1, <2>2 DEF LiveDirs
<1>6. Len(more) - 1 = n
  BY <1>1, <1>2
<1> HIDE DEF n, more
<1>7. Leads(more, l)
  BY Zenon, <1>2, <1>3, <1>4, <1>5, <1>6 DEF Leads
<1>8. more[Len(more)] = r
  BY Zenon, <1>2
<1> DEFINE p == << r, l, more >>
<1>9. p[1] = r /\ p[2] = l /\ p[3] = more
  OBVIOUS
<1> HIDE DEF p
<1>10. IsPlaced(p)
  BY Zenon, <1>7, <1>8, <1>9 DEF IsPlaced
<1> QED
  BY Zenon, <1>10 DEF p, more

(* After the first n names of a file.                                       *)
SoFar(s, r, n) ==
    /\ s = [cache |-> s.cache, at |-> s.at, lost |-> s.lost]
    /\ PathsKnown(s.cache)
    /\ checked => \A p \in s.at : IsPlaced(p)
    /\ checked => \A link \in s.lost : IsLost(link)
    /\ \A j \in 1 .. n : WhyNot(mft[r].links[j]) = "none" =>
         \E p \in s.at : p[1] = r /\ p[2].parent = mft[r].links[j].parent
    /\ checked /\ s.at # {} => \E j \in 1 .. n : Found(mft[r].links[j])

(* What one more name adds.                                                 *)
Added(s, more, r, l) ==
    /\ more = [cache |-> more.cache, at |-> more.at, lost |-> more.lost]
    /\ PathsKnown(more.cache)
    /\ s.at \subseteq more.at
    /\ checked => \A p \in more.at : p \in s.at \/ IsPlaced(p)
    /\ checked => \A link \in more.lost : link \in s.lost \/ IsLost(link)
    /\ WhyNot(l) = "none" => \E p \in more.at : p[1] = r /\ p[2].parent = l.parent
    /\ checked /\ more.at # {} => s.at # {} \/ Found(l)

LEMMA ResolveAdds ==
    ASSUME BoundAssumption, Volume, IndexIsOfTheVolume,
           NEW r \in RecordNumbers, NEW l \in Links, WasMeant(l),
           NEW s, s = [cache |-> s.cache, at |-> s.at, lost |-> s.lost], PathsKnown(s.cache)
    PROVE  Added(s, ResolveLink(s, r, Kept(l)), r, l)
<1> DEFINE link == Kept(l)
           dir == ResolveDirectory(link, s.cache)
           more == ResolveLink(s, r, link)
           p == << r, link, Append(dir.path, r) >>
<1>1. link \in Links /\ link.parent = l.parent /\ (checked => link = l)
  BY Zenon, KeptIs
<1>2. WhyNot(l) = "none" => dir.known
  BY Zenon, ResolveFinds
<1>3. checked /\ dir.known =>
        Meant(l) /\ Dirs(dir.path, l.parent) /\ PathsKnown(dir.cache)
  BY Zenon, <1>1, ResolveIsTrue
<1>4. checked /\ dir.known => IsPlaced(p)
  <2>1. checked /\ dir.known => IsPlaced(<< r, l, Append(dir.path, r) >>)
    BY Zenon, <1>3, PathIsPlaced
  <2> QED
    BY Zenon, <1>1, <2>1
<1>5. p[1] = r /\ p[2] = link
  OBVIOUS
<1>6. more = IF dir.known
             THEN [s EXCEPT !.cache = dir.cache, !.at = @ \cup {p}]
             ELSE [s EXCEPT !.lost = @ \cup {link}]
  BY Zenon DEF ResolveLink
<1> HIDE DEF link, dir, more, p
<1>7. CASE dir.known
  <2>1. /\ more = [cache |-> more.cache, at |-> more.at, lost |-> more.lost]
        /\ more.cache = dir.cache /\ more.at = s.at \cup {p} /\ more.lost = s.lost
    BY <1>6, <1>7
  <2>2. PathsKnown(more.cache)
    BY Zenon, <1>3, <1>7, <2>1 DEF PathsKnown
  <2>3. checked => Found(l)
    BY Zenon, <1>3, <1>7 DEF Found
  <2> QED
    BY Zenon, <1>1, <1>4, <1>5, <1>7, <2>1, <2>2, <2>3 DEF Added, more, link
<1>8. CASE ~dir.known
  <2>1. /\ more = [cache |-> more.cache, at |-> more.at, lost |-> more.lost]
        /\ more.cache = s.cache /\ more.at = s.at /\ more.lost = s.lost \cup {link}
    BY <1>6, <1>8
  <2>2. checked => IsLost(link)
    BY Zenon, <1>1, <1>2, <1>8 DEF IsLost
  <2> QED
    BY Zenon, <1>2, <1>8, <2>1, <2>2 DEF Added, more, link
<1> QED
  BY Zenon, <1>7, <1>8

LEMMA LinksAreResolved ==
    ASSUME BoundAssumption, Volume, IndexIsOfTheVolume, PathsKnown(cache),
           NEW r \in DOMAIN index
    PROVE  SoFar(ResolveLinks(r, cache), r, Len(mft[r].links))
<1> DEFINE N == Len(index[r].links)
           names == mft[r].links
<1>1. r \in RecordNumbers
  BY DEF IndexIsOfTheVolume
<1>2. names \in Seq(Links)
  BY <1>1 DEF Volume, MFTRecord
<1>3. N = Len(names) /\ N \in Nat /\ DOMAIN names = 1 .. N
  <2>1. N = Len(names)
    BY Zenon DEF IndexIsOfTheVolume
  <2> HIDE DEF N, names
  <2> QED
    BY <1>2, <2>1
<1>4. \A i \in 1 .. N : names[i] \in Links /\ WasMeant(names[i])
                        /\ index[r].links[i] = Kept(names[i])
  <2>1. \A i \in 1 .. N : names[i] \in Links
    BY <1>2, <1>3
  <2> QED
    BY Zenon, <1>1, <1>3, <2>1 DEF Volume, IndexIsOfTheVolume
<1>5. PICK f : /\ ResolveLinks(r, cache) = f[N]
               /\ f[0] = NoneYet(cache)
               /\ \A i \in 1 .. N : f[i] = ResolveLink(f[i - 1], r, index[r].links[i])
  <2>1. \E f : OneByOne(f, r, cache)
    BY Zenon, <1>3, LinksUnfold
  <2> QED
    BY Zenon, <2>1 DEF OneByOne
<1> HIDE DEF N, names
<1> DEFINE Holds(n) == SoFar(f[n], r, n)
           Fails == { n \in 0 .. N : ~Holds(n) }
<1>6. Holds(0)
  <2>1. f[0] = [cache |-> f[0].cache, at |-> f[0].at, lost |-> f[0].lost]
        /\ f[0].cache = cache /\ f[0].at = {} /\ f[0].lost = {}
    BY <1>5 DEF NoneYet
  <2>2. 1 .. 0 = {}
    OBVIOUS
  <2> QED
    BY Zenon, <2>1, <2>2 DEF SoFar
<1>7. ASSUME NEW n \in 1 .. N, Holds(n - 1) PROVE Holds(n)
  <2> DEFINE s == f[n - 1]
             more == f[n]
             l == names[n]
  <2>1. /\ s = [cache |-> s.cache, at |-> s.at, lost |-> s.lost]
        /\ PathsKnown(s.cache)
        /\ checked => \A p \in s.at : IsPlaced(p)
        /\ checked => \A link \in s.lost : IsLost(link)
        /\ \A j \in 1 .. n - 1 : WhyNot(names[j]) = "none" =>
             \E p \in s.at : p[1] = r /\ p[2].parent = names[j].parent
        /\ checked /\ s.at # {} => \E j \in 1 .. n - 1 : Found(names[j])
    BY Zenon, <1>7 DEF SoFar, names
  <2>2. l \in Links /\ WasMeant(l) /\ more = ResolveLink(s, r, Kept(l))
    BY Zenon, <1>4, <1>5, <1>7
  <2>3. Added(s, more, r, l)
    BY Zenon, <1>1, <2>1, <2>2, ResolveAdds
  <2>4. \A j \in 1 .. n : j \in 1 .. n - 1 \/ j = n
    BY <1>3, <1>7
  <2>5. \A j \in 1 .. n - 1 : j \in 1 .. n
    BY <1>3, <1>7
  <2>6. n \in 1 .. n
    BY <1>3, <1>7
  <2> HIDE DEF s, more
  <2>7. /\ more = [cache |-> more.cache, at |-> more.at, lost |-> more.lost]
        /\ PathsKnown(more.cache)
        /\ checked => \A p \in more.at : IsPlaced(p)
        /\ checked => \A link \in more.lost : IsLost(link)
    BY Zenon, <2>1, <2>3 DEF Added
  <2>8. ASSUME NEW j \in 1 .. n, WhyNot(names[j]) = "none"
        PROVE  \E p \in more.at : p[1] = r /\ p[2].parent = names[j].parent
    BY Zenon, <2>1, <2>3, <2>4, <2>8 DEF Added
  <2>9. checked /\ more.at # {} => \E j \in 1 .. n : Found(names[j])
    BY Zenon, <2>1, <2>3, <2>5, <2>6 DEF Added
  <2>10. SoFar(more, r, n)
    BY Zenon, <2>7, <2>8, <2>9 DEF SoFar, names
  <2> QED
    BY Zenon, <2>10 DEF more
<1>8. Fails = {}
  <2> SUFFICES ASSUME Fails # {} PROVE FALSE
    BY Zenon
  <2>1. PICK n \in Fails : n \in 0 .. N /\ (n # 0 => n - 1 \in (0 .. N) \ Fails)
    <3> Fails \subseteq 0 .. N
      BY Zenon
    <3> HIDE DEF Fails
    <3> QED
      BY Zenon, <1>3, FirstFailure
  <2>2. ~Holds(n) /\ (n # 0 => Holds(n - 1))
    BY Zenon, <2>1
  <2>3. n # 0 => n \in 1 .. N
    <3>1. n \in 0 .. N
      BY Zenon, <2>1
    <3> QED
      BY <1>3, <3>1
  <2> QED
    BY Zenon, <1>6, <1>7, <2>2, <2>3
<1>9. N \in 0 .. N
  BY <1>3
<1>10. Holds(N)
  BY Zenon, <1>8, <1>9
<1> QED
  BY Zenon, <1>3, <1>5, <1>10 DEF names

-----------------------------------------------------------------------------
(* Nothing has been walked yet.                                             *)
LEMMA NotWalkedYet ==
    ASSUME BoundAssumption,
           next = 1, cache = << >>, placed = {}, unresolved = {}, lost = << >>
    PROVE  Walked
<1>1. DOMAIN cache = {} /\ DOMAIN lost = {}
  OBVIOUS
<1>2. next \in 1 .. LastRecord + 1 /\ 1 .. next - 1 = {}
  BY DEF BoundAssumption
<1> QED
  BY Zenon, <1>1, <1>2 DEF Walked, PathsKnown

LEMMA InitInvariant == BoundAssumption /\ Init => IInv
<1> SUFFICES ASSUME BoundAssumption, Init PROVE IInv
  OBVIOUS
<1>1. Volume
  BY Zenon, InitVolume
<1>2. /\ phase = "in use" /\ checked = FALSE /\ next = 1 /\ cache = << >>
      /\ placed = {} /\ unresolved = {} /\ lost = << >>
  BY Zenon DEF Init
<1>3. Walked
  BY Zenon, <1>2, NotWalkedYet
<1>4. "in use" # "done"
  OBVIOUS
<1> QED
  BY Zenon, <1>1, <1>2, <1>3, <1>4 DEF IInv

(* The volume in use, before the walk.                                      *)
LEMMA InUseKeepsInvariant ==
    ASSUME BoundAssumption, IInv, NEW r, NEW record, Use(r, record), Volume'
    PROVE  IInv'
<1>1. /\ phase' = "in use" /\ checked' = checked /\ next' = 1 /\ cache' = << >>
      /\ placed' = {} /\ unresolved' = {} /\ lost' = << >> /\ checked \in BOOLEAN
  BY Zenon DEF Use, IInv
<1>2. Walked'
  <2>1. DOMAIN << >> = {}
    OBVIOUS
  <2>2. 1 \in 1 .. LastRecord + 1 /\ 1 .. 1 - 1 = {}
    BY DEF BoundAssumption
  <2> QED
    BY Zenon, <1>1, <2>1, <2>2 DEF Walked, PathsKnown
<1>3. "in use" # "done"
  OBVIOUS
<1> QED
  BY Zenon, <1>1, <1>2, <1>3 DEF IInv

(* The index is of the volume, with its sequence numbers or without.        *)
LEMMA ReadRecordsKeepsInvariant ==
    ASSUME BoundAssumption, IInv, ReadRecords
    PROVE  IInv'
<1> DEFINE idx == [r \in { r \in RecordNumbers : Indexed(r) } |-> mft[r]]
<1>1. /\ mft' = mft /\ damaged' = damaged /\ phase' = "resolve"
      /\ checked' = Believable(idx)
      /\ index' = IF checked' THEN idx ELSE WithoutSequences(idx)
      /\ next' = 1 /\ cache' = << >> /\ placed' = {} /\ unresolved' = {} /\ lost' = << >>
  BY Zenon DEF ReadRecords, IInv, volume
<1>2. Volume /\ Volume' /\ \A r : Indexed(r)' <=> Indexed(r)
  BY Zenon, <1>1, VolumeStays DEF IInv
<1>3. checked' \in BOOLEAN
  BY <1>1 DEF Believable
<1>4. \A r \in DOMAIN idx : r \in RecordNumbers /\ idx[r] = mft[r] /\ mft[r] \in MFTRecord
  BY Zenon, <1>2 DEF Volume
<1>5. DOMAIN idx = { r \in RecordNumbers : Indexed(r) }
  OBVIOUS
<1> HIDE DEF idx
<1>6. IndexIsOfTheVolume'
  <2>1. CASE checked'
    <3>1. index' = idx
      BY Zenon, <1>1, <2>1
    <3> QED
      BY Zenon, <1>1, <1>2, <1>4, <1>5, <2>1, <3>1 DEF IndexIsOfTheVolume, Kept
  <2>2. CASE ~checked'
    <3>1. index' = WithoutSequences(idx)
      BY Zenon, <1>1, <2>2
    <3>2. DOMAIN index' = DOMAIN idx
      BY Zenon, <3>1 DEF WithoutSequences
    <3>3. ASSUME NEW r \in DOMAIN idx
          PROVE  /\ index'[r].seq = mft[r].seq /\ index'[r].dir = mft[r].dir
                 /\ Len(index'[r].links) = Len(mft[r].links)
                 /\ \A i \in DOMAIN mft[r].links :
                      index'[r].links[i] = Link(mft[r].links[i].parent, 0)
      <4> DEFINE names == mft[r].links
                 without == [i \in DOMAIN names |-> [names[i] EXCEPT !.seq = 0]]
      <4>1. mft[r] \in MFTRecord
        BY Zenon, <1>4
      <4>2. index'[r] = [mft[r] EXCEPT !.links = without]
        BY Zenon, <1>4, <3>1 DEF WithoutSequences
      <4>3. names \in Seq(Links)
        BY <4>1 DEF MFTRecord
      <4>4. /\ index'[r].seq = mft[r].seq /\ index'[r].dir = mft[r].dir
            /\ index'[r].links = without
        BY <4>1, <4>2 DEF MFTRecord
      <4> HIDE DEF names
      <4>5. /\ Len(without) = Len(names) /\ DOMAIN without = DOMAIN names
        BY <4>3
      <4>6. \A i \in DOMAIN names : without[i] = Link(names[i].parent, 0)
        <5>1. \A i \in DOMAIN names : names[i] \in Links
          BY <4>3
        <5>2. ASSUME NEW l \in Links PROVE [l EXCEPT !.seq = 0] = Link(l.parent, 0)
          <6>1. PICK parent \in Directories, seq \in Sequences :
                  l = [parent |-> parent, seq |-> seq]
            BY DEF Links
          <6> QED
            BY <6>1 DEF Link
        <5> QED
          BY Zenon, <5>1, <5>2
      <4> HIDE DEF without
      <4> QED
        BY Zenon, <4>4, <4>5, <4>6 DEF names
    <3> QED
      BY Zenon, <1>1, <1>2, <1>5, <2>2, <3>2, <3>3 DEF IndexIsOfTheVolume, Kept
  <2> QED
    BY Zenon, <1>3, <2>1, <2>2
<1>7. Walked'
  <2>1. DOMAIN << >> = {}
    OBVIOUS
  <2>2. 1 \in 1 .. LastRecord + 1 /\ 1 .. 1 - 1 = {}
    BY DEF BoundAssumption
  <2> QED
    BY Zenon, <1>1, <2>1, <2>2 DEF Walked, PathsKnown
<1>8. "resolve" # "done" /\ "resolve" # "in use"
  OBVIOUS
<1> QED
  BY Zenon, <1>1, <1>2, <1>3, <1>6, <1>7, <1>8 DEF IInv

LEMMA ToldStays ==
    ASSUME mft' = mft, damaged' = damaged, checked' = checked, placed \subseteq placed',
           NEW r, r \in unresolved' <=> r \in unresolved, Told(r)
    PROVE  Told(r)'
<1>1. (\A l : WhyNot(l)' = WhyNot(l)) /\ (\A l : Found(l)' <=> Found(l))
  BY Zenon, VolumeStays
<1> DEFINE names == mft[r].links
<1>2. mft'[r].links = names
  BY Zenon
<1>3. /\ \A i \in DOMAIN names : WhyNot(names[i]) = "none" =>
           \E p \in placed : p[1] = r /\ p[2].parent = names[i].parent
      /\ r \in unresolved => \A i \in DOMAIN names : WhyNot(names[i]) # "none"
      /\ r \notin unresolved /\ checked => \E i \in DOMAIN names : Found(names[i])
  BY Zenon DEF Told
<1> QED
  BY Zenon, <1>1, <1>2, <1>3 DEF Told

LEMMA PassRecordKeepsInvariant ==
    ASSUME BoundAssumption, IInv, PassRecord
    PROVE  IInv'
<1>1. /\ mft' = mft /\ damaged' = damaged /\ phase' = phase /\ index' = index
      /\ checked' = checked /\ cache' = cache /\ placed' = placed
      /\ unresolved' = unresolved /\ lost' = lost /\ next' = next + 1
      /\ phase = "resolve" /\ next \in RecordNumbers /\ ~IsFile(next)
  BY Zenon DEF PassRecord, volume
<1>2. /\ Volume' /\ (\A l : WhyNot(l)' = WhyNot(l)) /\ (\A l : WasMeant(l)' <=> WasMeant(l))
      /\ (\A path, parent : Dirs(path, parent)' <=> Dirs(path, parent))
      /\ (\A l : Found(l)' <=> Found(l)) /\ (\A p : IsPlaced(p)' <=> IsPlaced(p))
      /\ \A r : Indexed(r)' <=> Indexed(r)
  BY Zenon, <1>1, VolumeStays DEF IInv
<1>3. Walked /\ IndexIsOfTheVolume /\ checked \in BOOLEAN
  BY Zenon, <1>1 DEF IInv
<1>4. IndexIsOfTheVolume'
  BY Zenon, <1>1, <1>2, <1>3 DEF IndexIsOfTheVolume, Kept
<1>5. /\ next' \in 1 .. LastRecord + 1
      /\ \A r \in 1 .. next - 1 : r \in 1 .. next' - 1
      /\ \A r \in 1 .. next' - 1 : r \in 1 .. next - 1 \/ r = next
  BY <1>1 DEF BoundAssumption, RecordNumbers
<1>6. Walked'
  <2>1. PathsKnown(cache)'
    BY Zenon, <1>1, <1>2, <1>3 DEF Walked, PathsKnown
  <2>2. checked' => \A p \in placed' : IsPlaced(p)'
    BY Zenon, <1>1, <1>2, <1>3 DEF Walked
  <2>3. unresolved' \subseteq 1 .. next' - 1
    BY Zenon, <1>1, <1>3, <1>5 DEF Walked
  <2>4. ASSUME NEW r \in 1 .. next' - 1, IsFile(r)' PROVE Told(r)'
    <3>1. IsFile(r)
      BY Zenon, <1>1, <2>4 DEF IsFile
    <3>2. Told(r)
      BY Zenon, <1>1, <1>3, <1>5, <3>1 DEF Walked
    <3> QED
      BY Zenon, <1>1, <3>2, ToldStays
  <2>5. checked' => \A link \in DOMAIN lost' : IsLost(link)'
    BY Zenon, <1>1, <1>2, <1>3 DEF Walked, IsLost
  <2> QED
    BY Zenon, <1>5, <2>1, <2>2, <2>3, <2>4, <2>5 DEF Walked
<1>7. "resolve" # "done" /\ "resolve" # "in use"
  OBVIOUS
<1> QED
  BY Zenon, <1>1, <1>2, <1>3, <1>4, <1>6, <1>7 DEF IInv

(* One more file: it has every path it can be promised, or is counted and   *)
(* its directories are told of.                                             *)
LEMMA ResolveFileKeepsInvariant ==
    ASSUME BoundAssumption, IInv, ResolveFile
    PROVE  IInv'
<1> DEFINE found == ResolveLinks(next, cache)
<1>1. /\ mft' = mft /\ damaged' = damaged /\ phase' = phase /\ index' = index
      /\ checked' = checked /\ cache' = found.cache /\ placed' = placed \cup found.at
      /\ unresolved' = (IF found.at = {} THEN unresolved \cup {next} ELSE unresolved)
      /\ lost' = [link \in DOMAIN lost \cup found.lost |-> "not explained"]
      /\ next' = next + 1
      /\ phase = "resolve" /\ next \in RecordNumbers /\ next \in DOMAIN index
  BY Zenon DEF ResolveFile, volume, IsFile, WithoutAPath
<1>2. /\ Volume' /\ (\A l : WhyNot(l)' = WhyNot(l)) /\ (\A l : WasMeant(l)' <=> WasMeant(l))
      /\ (\A path, parent : Dirs(path, parent)' <=> Dirs(path, parent))
      /\ (\A l : Found(l)' <=> Found(l)) /\ (\A p : IsPlaced(p)' <=> IsPlaced(p))
      /\ \A r : Indexed(r)' <=> Indexed(r)
  BY Zenon, <1>1, VolumeStays DEF IInv
<1>3. Walked /\ Volume /\ IndexIsOfTheVolume /\ checked \in BOOLEAN /\ PathsKnown(cache)
  BY Zenon, <1>1 DEF IInv, Walked
<1>4. IndexIsOfTheVolume'
  BY Zenon, <1>1, <1>2, <1>3 DEF IndexIsOfTheVolume, Kept
<1>5. /\ next' \in 1 .. LastRecord + 1
      /\ \A r \in 1 .. next' - 1 : r \in 1 .. next - 1 \/ r = next
      /\ \A r \in 1 .. next - 1 : r # next /\ r \in 1 .. next' - 1
      /\ next \in 1 .. next' - 1
  <2>1. next \in 1 .. LastRecord /\ next' = next + 1 /\ LastRecord \in Nat
    BY Zenon, <1>1 DEF BoundAssumption, RecordNumbers
  <2> HIDE DEF found
  <2> QED
    BY <2>1
<1>6. unresolved \subseteq 1 .. next - 1
  BY Zenon, <1>3 DEF Walked
<1>7. next \notin unresolved
  BY Zenon, <1>5, <1>6
<1>8. SoFar(found, next, Len(mft[next].links))
  BY Zenon, <1>1, <1>3, LinksAreResolved
<1> HIDE DEF found
<1>9. DOMAIN mft[next].links = 1 .. Len(mft[next].links)
  <2>1. mft[next] \in MFTRecord
    BY Zenon, <1>1, <1>3 DEF Volume
  <2>2. mft[next].links \in Seq(Links)
    BY <2>1 DEF MFTRecord
  <2> QED
    BY <2>2
<1>10. /\ PathsKnown(found.cache)
       /\ checked => \A p \in found.at : IsPlaced(p)
       /\ checked => \A link \in found.lost : IsLost(link)
       /\ \A j \in DOMAIN mft[next].links : WhyNot(mft[next].links[j]) = "none" =>
            \E p \in found.at : p[1] = next /\ p[2].parent = mft[next].links[j].parent
       /\ checked /\ found.at # {} => \E j \in DOMAIN mft[next].links : Found(mft[next].links[j])
  BY Zenon, <1>8, <1>9 DEF SoFar
<1>11. ASSUME NEW r, r = next PROVE Told(r)'
  <2>1. /\ (\A l : WhyNot(l)' = WhyNot(l)) /\ (\A l : Found(l)' <=> Found(l))
        /\ mft'[r].links = mft[next].links /\ found.at \subseteq placed' /\ checked' = checked
    BY Zenon, <1>1, <1>2, <1>11
  <2>2. CASE found.at = {}
    <3>1. r \in unresolved'
      BY Zenon, <1>1, <1>11, <2>2
    <3>2. \A j \in DOMAIN mft[next].links : WhyNot(mft[next].links[j]) # "none"
      BY Zenon, <1>10, <2>2
    <3> QED
      BY Zenon, <2>1, <3>1, <3>2 DEF Told
  <2>3. CASE found.at # {}
    <3>1. r \notin unresolved'
      BY Zenon, <1>1, <1>7, <1>11, <2>3
    <3> QED
      BY Zenon, <1>10, <1>11, <2>1, <2>3, <3>1 DEF Told
  <2> QED
    BY Zenon, <2>2, <2>3
<1>12. Walked'
  <2>1. PathsKnown(cache)'
    BY Zenon, <1>1, <1>2, <1>10 DEF PathsKnown
  <2>2. checked' => \A p \in placed' : IsPlaced(p)'
    BY Zenon, <1>1, <1>2, <1>3, <1>10 DEF Walked
  <2>3. unresolved' \subseteq 1 .. next' - 1
    BY Zenon, <1>1, <1>5, <1>6
  <2>4. ASSUME NEW r \in 1 .. next - 1, IsFile(r)
        PROVE  Told(r)'
    <3>1. Told(r) /\ r # next
      BY Zenon, <1>3, <1>5, <2>4 DEF Walked
    <3>2. r \in unresolved' <=> r \in unresolved
      BY Zenon, <1>1, <3>1
    <3> QED
      BY Zenon, <1>1, <3>1, <3>2, ToldStays
  <2>5. \A r \in 1 .. next' - 1 : IsFile(r)' => Told(r)'
    BY Zenon, <1>1, <1>5, <1>11, <2>4 DEF IsFile
  <2>6. checked' => \A link \in DOMAIN lost' : IsLost(link)'
    BY Zenon, <1>1, <1>2, <1>3, <1>10 DEF Walked, IsLost
  <2> QED
    BY Zenon, <1>5, <2>1, <2>2, <2>3, <2>5, <2>6 DEF Walked
<1>13. "resolve" # "done" /\ "resolve" # "in use"
  OBVIOUS
<1> QED
  BY Zenon, <1>1, <1>2, <1>3, <1>4, <1>12, <1>13 DEF IInv

(* What is lost is explained.                                               *)
LEMMA ExplainLostKeepsInvariant ==
    ASSUME BoundAssumption, IInv, ExplainLost
    PROVE  IInv'
<1>1. /\ mft' = mft /\ damaged' = damaged /\ phase' = "done" /\ index' = index
      /\ checked' = checked /\ cache' = cache /\ placed' = placed
      /\ unresolved' = unresolved /\ next' = next
      /\ lost' = [link \in DOMAIN lost |-> Explain(link)]
      /\ phase = "resolve" /\ next \notin RecordNumbers
  BY Zenon DEF ExplainLost, volume
<1>2. /\ Volume' /\ (\A l : WhyNot(l)' = WhyNot(l)) /\ (\A l : WasMeant(l)' <=> WasMeant(l))
      /\ (\A path, parent : Dirs(path, parent)' <=> Dirs(path, parent))
      /\ (\A l : Found(l)' <=> Found(l)) /\ (\A p : IsPlaced(p)' <=> IsPlaced(p))
      /\ \A r : Indexed(r)' <=> Indexed(r)
  BY Zenon, <1>1, VolumeStays DEF IInv
<1>3. Walked /\ Volume /\ IndexIsOfTheVolume /\ checked \in BOOLEAN /\ PathsKnown(cache)
  BY Zenon, <1>1 DEF IInv, Walked
<1>4. IndexIsOfTheVolume'
  BY Zenon, <1>1, <1>2, <1>3 DEF IndexIsOfTheVolume, Kept
<1>5. next' = LastRecord + 1
  <2>1. next \in 1 .. LastRecord + 1
    BY Zenon, <1>3 DEF Walked
  <2> QED
    BY <1>1, <2>1 DEF BoundAssumption, RecordNumbers
<1>6. DOMAIN lost' = DOMAIN lost /\ \A link \in DOMAIN lost : lost'[link] = Explain(link)
  BY Zenon, <1>1
<1>7. checked => \A link \in DOMAIN lost : IsLost(link) /\ lost'[link] = WhyNot(link)
  <2> SUFFICES ASSUME checked, NEW link \in DOMAIN lost
               PROVE  IsLost(link) /\ lost'[link] = WhyNot(link)
    BY Zenon
  <2>1. IsLost(link)
    BY Zenon, <1>3 DEF Walked
  <2>2. Explain(link) = WhyNot(link)
    BY Zenon, <1>3, <2>1, ExplainIsTrue DEF IsLost
  <2> QED
    BY Zenon, <1>6, <2>1, <2>2
<1>8. Walked'
  <2>1. PathsKnown(cache)'
    BY Zenon, <1>1, <1>2, <1>3 DEF Walked, PathsKnown
  <2>2. ASSUME NEW r \in 1 .. next' - 1, IsFile(r)' PROVE Told(r)'
    <3>1. IsFile(r)
      BY Zenon, <1>1, <2>2 DEF IsFile
    <3>2. Told(r)
      BY Zenon, <1>1, <1>3, <3>1 DEF Walked
    <3> QED
      BY Zenon, <1>1, <3>2, ToldStays
  <2>3. checked' => \A link \in DOMAIN lost' : IsLost(link)'
    BY Zenon, <1>1, <1>2, <1>6, <1>7 DEF IsLost
  <2> QED
    BY Zenon, <1>1, <1>2, <1>3, <2>1, <2>2, <2>3 DEF Walked
<1>9. checked' => \A link \in DOMAIN lost' : lost'[link] = WhyNot(link)'
  BY Zenon, <1>1, <1>2, <1>6, <1>7
<1>10. "done" # "in use"
  OBVIOUS
<1> QED
  BY Zenon, <1>1, <1>2, <1>3, <1>4, <1>5, <1>8, <1>9, <1>10 DEF IInv

LEMMA NextKeepsInvariant ==
    ASSUME BoundAssumption, IInv, [Next]_vars
    PROVE  IInv'
<1>1. Volume
  BY Zenon DEF IInv
<1>2. ASSUME NEW r \in RecordNumbers, NEW d \in LiveDirs, AddLink(r, To(d)) PROVE IInv'
  <2>1. Volume'
    BY Zenon, <1>1, <1>2, AddLinkKeepsVolume
  <2> QED
    BY Zenon, <1>2, <2>1, InUseKeepsInvariant DEF AddLink
<1>3. ASSUME NEW r \in RecordNumbers, NEW d \in LiveDirs, MoveTo(r, To(d)) PROVE IInv'
  <2>1. Volume'
    BY Zenon, <1>1, <1>3, MoveToKeepsVolume
  <2> QED
    BY Zenon, <1>3, <2>1, InUseKeepsInvariant DEF MoveTo
<1>4. ASSUME NEW r \in RecordNumbers, NEW d \in LiveDirs, NEW dir \in BOOLEAN,
             Create(r, dir, To(d))
      PROVE  IInv'
  <2>1. Volume'
    BY Zenon, <1>1, <1>4, CreateKeepsVolume
  <2> QED
    BY Zenon, <1>4, <2>1, InUseKeepsInvariant DEF Create
<1>5. ASSUME NEW r \in RecordNumbers, Delete(r) PROVE IInv'
  <2>1. Volume'
    BY Zenon, <1>1, <1>5, DeleteKeepsVolume
  <2> QED
    BY Zenon, <1>5, <2>1, InUseKeepsInvariant DEF Delete
<1>6. CASE ReadRecords
  BY Zenon, <1>6, ReadRecordsKeepsInvariant
<1>7. CASE ResolveFile
  BY Zenon, <1>7, ResolveFileKeepsInvariant
<1>8. CASE PassRecord
  BY Zenon, <1>8, PassRecordKeepsInvariant
<1>9. CASE ExplainLost
  BY Zenon, <1>9, ExplainLostKeepsInvariant
<1>10. CASE UNCHANGED vars
  <2>1. /\ mft' = mft /\ damaged' = damaged /\ phase' = phase /\ index' = index
        /\ checked' = checked /\ next' = next /\ cache' = cache /\ placed' = placed
        /\ unresolved' = unresolved /\ lost' = lost
    BY <1>10 DEF vars, volume
  <2>2. /\ Volume' /\ (\A l : WhyNot(l)' = WhyNot(l)) /\ (\A l : WasMeant(l)' <=> WasMeant(l))
        /\ (\A path, parent : Dirs(path, parent)' <=> Dirs(path, parent))
        /\ (\A p : IsPlaced(p)' <=> IsPlaced(p)) /\ \A r : Indexed(r)' <=> Indexed(r)
    BY Zenon, <1>1, <2>1, VolumeStays
  <2>3. phase' # "in use" => IndexIsOfTheVolume'
    BY Zenon, <2>1, <2>2 DEF IInv, IndexIsOfTheVolume, Kept
  <2>4. Walked
    BY Zenon DEF IInv
  <2>5. PathsKnown(cache)'
    BY Zenon, <2>1, <2>2, <2>4 DEF Walked, PathsKnown
  <2>6. ASSUME NEW r \in 1 .. next' - 1, IsFile(r)' PROVE Told(r)'
    <3>1. IsFile(r)
      BY Zenon, <2>1, <2>6 DEF IsFile
    <3>2. Told(r)
      BY Zenon, <2>1, <2>4, <3>1 DEF Walked
    <3> QED
      BY Zenon, <2>1, <3>2, ToldStays
  <2>7. checked' => \A link \in DOMAIN lost' : IsLost(link)'
    BY Zenon, <2>1, <2>2, <2>4 DEF Walked, IsLost
  <2>8. Walked'
    BY Zenon, <2>1, <2>2, <2>4, <2>5, <2>6, <2>7 DEF Walked
  <2> QED
    BY Zenon, <2>1, <2>2, <2>3, <2>8 DEF IInv
<1> QED
  BY Zenon, <1>2, <1>3, <1>4, <1>5, <1>6, <1>7, <1>8, <1>9, <1>10 DEF Next

-----------------------------------------------------------------------------
(* What holds of the walk says what is promised.                            *)
LEMMA WalkedFilesAreTold ==
    ASSUME BoundAssumption, IInv, phase = "done", NEW r \in RecordNumbers,
           mft[r].links # << >>, ~mft[r].dir, damaged[r] = "no"
    PROVE  Told(r)
<1>1. Walked /\ IndexIsOfTheVolume /\ next = LastRecord + 1
  <2>1. "done" # "in use"
    OBVIOUS
  <2> QED
    BY Zenon, <2>1 DEF IInv
<1>2. r \in DOMAIN index /\ ~index[r].dir
  BY Zenon, <1>1 DEF IndexIsOfTheVolume, Indexed
<1>3. r \in 1 .. next - 1
  BY <1>1 DEF BoundAssumption, RecordNumbers
<1> QED
  BY Zenon, <1>1, <1>2, <1>3 DEF Walked, IsFile

LEMMA PathsFollow == BoundAssumption /\ IInv => PathsAreTrue
<1> SUFFICES ASSUME BoundAssumption, IInv PROVE PathsAreTrue
  OBVIOUS
<1>1. checked => \A p \in placed :
         Meant(p[2]) /\ p[3][Len(p[3])] = p[1] /\ Leads(p[3], p[2])
  BY Zenon DEF IInv, Walked, IsPlaced
<1>2. ASSUME phase = "done", NEW r \in RecordNumbers,
             mft[r].in_use, ~mft[r].dir, damaged[r] = "no",
             NEW link \in ToSet(mft[r].links), WhyNot(link) = "none"
      PROVE  << r, link.parent >> \in { << p[1], p[2].parent >> : p \in placed }
  <2>1. mft[r].links # << >>
    BY Zenon, <1>2 DEF IInv, Volume
  <2>2. Told(r)
    BY Zenon, <1>2, <2>1, WalkedFilesAreTold
  <2>3. PICK i \in DOMAIN mft[r].links : link = mft[r].links[i]
    BY Zenon DEF ToSet
  <2>4. PICK p \in placed : p[1] = r /\ p[2].parent = link.parent
    BY Zenon, <1>2, <2>2, <2>3 DEF Told
  <2> QED
    BY Zenon, <2>4
<1> QED
  BY Zenon, <1>1, <1>2 DEF PathsAreTrue

LEMMA LossesFollow == BoundAssumption /\ IInv => LossesAreTold
<1> SUFFICES ASSUME BoundAssumption, IInv, phase = "done", checked PROVE LossesAreTold
  BY Zenon DEF LossesAreTold
<1>1. ASSUME NEW r \in RecordNumbers, mft[r].links # << >>, ~mft[r].dir, damaged[r] = "no"
      PROVE  LET reasons == { WhyNot(link) : link \in ToSet(mft[r].links) }
             IN IF r \in unresolved THEN "none" \notin reasons
                ELSE reasons \cap {"none", "CycleOrTooDeep"} # {}
  <2>1. Told(r)
    BY Zenon, <1>1, WalkedFilesAreTold
  <2>2. ASSUME NEW link \in ToSet(mft[r].links)
        PROVE  \E i \in DOMAIN mft[r].links : link = mft[r].links[i]
    BY Zenon DEF ToSet
  <2>3. CASE r \in unresolved
    <3>1. \A link \in ToSet(mft[r].links) : WhyNot(link) # "none"
      BY Zenon, <2>1, <2>2, <2>3 DEF Told
    <3> QED
      BY Zenon, <2>3, <3>1
  <2>4. CASE r \notin unresolved
    <3>1. PICK i \in DOMAIN mft[r].links : Found(mft[r].links[i])
      BY Zenon, <1>1, <2>1, <2>4 DEF Told
    <3>2. Volume /\ mft[r] \in MFTRecord
      BY Zenon DEF IInv, Volume
    <3>3. mft[r].links \in Seq(Links)
      BY <3>2 DEF MFTRecord
    <3>4. mft[r].links[i] \in Links
      BY <3>3
    <3>5. WhyNot(mft[r].links[i]) \in {"none", "CycleOrTooDeep"}
      BY Zenon, <3>1, <3>2, <3>4, FoundIsNotLost
    <3>6. mft[r].links[i] \in ToSet(mft[r].links)
      BY Zenon DEF ToSet
    <3> QED
      BY Zenon, <2>4, <3>5, <3>6
  <2> QED
    BY Zenon, <2>3, <2>4
<1>2. \A link \in DOMAIN lost : lost[link] = WhyNot(link)
  BY Zenon DEF IInv
<1> QED
  BY Zenon, <1>1, <1>2 DEF LossesAreTold

(* A path is the volume's, never through a directory that took the record   *)
(* of the one meant, and a file that is not deleted has every one of its    *)
(* paths, if the records above it can be read, whatever was resolved        *)
(* before: for any number of records and any depth (resolve_path).          *)
THEOREM PathsCorrect ==
    ASSUME BoundAssumption
    PROVE  Spec => []PathsAreTrue
<1>1. Init => IInv
  BY InitInvariant
<1>2. IInv /\ [Next]_vars => IInv'
  BY NextKeepsInvariant
<1>3. IInv => PathsAreTrue
  BY PathsFollow
<1> QED
  BY <1>1, <1>2, <1>3, PTL DEF Spec

(* A file without a path is counted, one that could have a path never is,   *)
(* and the report says of every directory that could not be reached what    *)
(* is wrong with it or the ones above it (explain_lost).                    *)
THEOREM LossesCorrect ==
    ASSUME BoundAssumption
    PROVE  Spec => []LossesAreTold
<1>1. Init => IInv
  BY InitInvariant
<1>2. IInv /\ [Next]_vars => IInv'
  BY NextKeepsInvariant
<1>3. IInv => LossesAreTold
  BY LossesFollow
<1> QED
  BY <1>1, <1>2, <1>3, PTL DEF Spec
=============================================================================
