------------------------ MODULE CandidateGraphProofs ------------------------
(***************************************************************************)
(* For any paths, contents and algorithms, and observations in any number   *)
(* and order: the candidates are one for each path and one for each content *)
(* no path has, and none of them falls apart into observations that share   *)
(* nothing.                                                                 *)
(***************************************************************************)
EXTENDS CandidateGraph, FiniteSetTheorems, WellFoundedInduction, NaturalsInduction, TLAPS

(* What the harvesters are relied on for.                                   *)
Assumed ==
    /\ PathAssumption /\ AlgorithmAssumption /\ DigestAssumption
    /\ SharedAlgorithmAssumption

(* The types, and the sizes that go together.                               *)
Shape ==
    /\ seen \in Seq(Observation)
    /\ leader \in Seq(DOMAIN leader)
    /\ path \in Seq(Paths \cup {NoPath}) /\ Len(path) = Len(leader)
    /\ fragments \in Seq(SUBSET DOMAIN seen) /\ Len(fragments) = Len(leader)
    /\ by_path \in [Paths -> DOMAIN leader \cup {NotIndexed}]
    /\ by_hash \in [Digest -> DOMAIN leader \cup {NotIndexed}]

(* Every observation is in one group, and every group has one.              *)
Grouped ==
    /\ \A x \in DOMAIN leader : leader[leader[x]] = leader[x]
    /\ \A x \in DOMAIN leader : fragments[x] # {}
    /\ \A n \in DOMAIN seen : \E x \in DOMAIN leader : n \in fragments[x]
    /\ \A x, y \in DOMAIN leader : x # y => fragments[x] \cap fragments[y] = {}

(* An indexed path leads to the one group that is committed to it.          *)
PathsAreIndexed ==
    \A p \in Paths :
      /\ by_path[p] = NotIndexed => \A r \in Roots : path[r] # p
      /\ by_path[p] # NotIndexed =>
           /\ path[leader[by_path[p]]] = p
           /\ \A r \in Roots : path[r] = p => r = leader[by_path[p]]

(* An indexed digest leads to a group that has it.                          *)
DigestsAreIndexed ==
    \A d \in Digest :
      /\ by_hash[d] = NotIndexed => \A n \in DOMAIN seen : d \notin seen[n].digests
      /\ by_hash[d] # NotIndexed => d \in DigestsIn(leader[by_hash[d]])

(* A group nobody has named holds one content, and all there is of it.      *)
Holds(r, c) ==
    /\ \A n \in Members(r) : ContentOf(seen[n]) = {c}
    /\ \A n \in DOMAIN seen : c \in ContentOf(seen[n]) => n \in Members(r)
ContentsAreTogether ==
    \A r \in Roots :
      IF path[r] = NoPath THEN \E c \in Contents : Holds(r, c)
      ELSE \A n \in Members(r) : ContentOf(seen[n]) \subseteq Placed

IInv ==
    /\ Shape
    /\ Grouped
    /\ PathsAreIndexed
    /\ DigestsAreIndexed
    /\ ContentsAreTogether
    /\ DifferentPathsStayApart
    /\ NothingIsMergedOnResemblance

-----------------------------------------------------------------------------
(* What one digest set says, of the digests of one observation.             *)
LEMMA DigestsAre ==
    ASSUME Assumed, NEW o \in Observation
    PROVE  /\ o.path \in Paths \cup {NoPath} /\ o.digests \subseteq Digest
           /\ o.path = NoPath => o.digests # {}
           /\ o.digests # {} => \E c \in Contents, algs \in DigestSets :
                                  o.digests = algs \X {c} /\ ContentOf(o) = {c}
           /\ o.digests = {} => ContentOf(o) = {}
<1>1. CASE o \in Hashless
  <2>1. o.path \in Paths /\ o.digests = {}
    BY <1>1 DEF Hashless
  <2>2. ContentOf(o) = {}
    BY <2>1 DEF ContentOf
  <2>3. NoPath \notin Paths
    BY DEF Assumed, PathAssumption
  <2> QED
    BY <2>1, <2>2, <2>3
<1>2. CASE o \in Hashed
  <2>1. PICK algs \in DigestSets, c \in Contents : o.digests = algs \X {c}
    BY <1>2 DEF Hashed
  <2>2. algs \subseteq Algorithm /\ algs # {}
    BY DEF Assumed, DigestAssumption
  <2>3. ContentOf(o) = {c}
    <3>1. PICK a \in algs : TRUE
      BY <2>2
    <3>2. << a, c >> \in o.digests
      BY <2>1, <3>1
    <3>3. \A d \in o.digests : d[2] = c
      BY <2>1
    <3>4. << a, c >>[2] = c
      OBVIOUS
    <3> QED
      BY <3>2, <3>3, <3>4 DEF ContentOf
  <2>4. o.digests # {} /\ o.digests \subseteq Digest
    <3>1. PICK a \in algs : TRUE
      BY <2>2
    <3>2. << a, c >> \in o.digests
      BY <2>1, <3>1
    <3>3. \A d \in algs \X {c} : d \in Algorithm \X Contents
      BY <2>2
    <3> QED
      BY <2>1, <3>2, <3>3 DEF Digest
  <2>5. o.path \in Paths \cup {NoPath}
    BY <1>2 DEF Hashed
  <2> QED
    BY <2>1, <2>3, <2>4, <2>5
<1> QED
  BY <1>1, <1>2 DEF Observation

(* Two observations of one content have a digest in common.                 *)
LEMMA ContentIsShared ==
    ASSUME Assumed, NEW o \in Observation, NEW q \in Observation,
           ContentOf(o) \cap ContentOf(q) # {}
    PROVE  o.digests \cap q.digests # {} /\ ContentOf(o) = ContentOf(q)
<1>1. PICK c \in Contents, algs \in DigestSets : o.digests = algs \X {c} /\ ContentOf(o) = {c}
  BY DigestsAre
<1>2. PICK b \in Contents, bs \in DigestSets : q.digests = bs \X {b} /\ ContentOf(q) = {b}
  BY DigestsAre
<1>3. b = c
  BY <1>1, <1>2
<1>4. PICK a : a \in algs \cap bs
  BY DEF Assumed, SharedAlgorithmAssumption
<1>5. << a, c >> \in o.digests \cap q.digests
  BY <1>1, <1>2, <1>3, <1>4
<1> QED
  BY <1>1, <1>2, <1>3, <1>5

(* The groups: each is somebody's, and no two share an observation.          *)
LEMMA GroupsAre ==
    ASSUME Shape, Grouped
    PROVE  /\ DOMAIN leader = 1 .. Len(leader) /\ Len(leader) \in Nat
           /\ Roots \subseteq DOMAIN leader
           /\ \A x \in DOMAIN leader : leader[x] \in Roots
           /\ \A r \in Roots : leader[r] = r /\ Members(r) # {} /\ Members(r) \subseteq DOMAIN seen
           /\ \A n \in DOMAIN seen : \E r \in Roots : n \in Members(r)
           /\ \A r, x \in Roots : r # x => Members(r) \cap Members(x) = {}
<1>1. DOMAIN leader = 1 .. Len(leader) /\ Len(leader) \in Nat /\ DOMAIN fragments = DOMAIN leader
  BY DEF Shape
<1>2. \A x \in DOMAIN leader : leader[x] \in DOMAIN leader /\ leader[x] \in Roots
  BY DEF Shape, Roots
<1>3. Roots \subseteq DOMAIN leader /\ \A r \in Roots : leader[r] = r
  BY <1>2 DEF Roots, Grouped
<1>4. \A x \in DOMAIN leader : fragments[x] \subseteq Members(leader[x])
  BY DEF Members
<1>5. \A r \in Roots : Members(r) # {}
  BY <1>3, <1>4 DEF Grouped
<1>6. \A r : \A n \in Members(r) : \E x \in DOMAIN leader : leader[x] = r /\ n \in fragments[x]
  BY DEF Members
<1>7. \A x \in DOMAIN leader : fragments[x] \subseteq DOMAIN seen
  BY <1>1 DEF Shape
<1>8. \A r : Members(r) \subseteq DOMAIN seen
  BY <1>6, <1>7
<1>9. \A n \in DOMAIN seen : \E r \in Roots : n \in Members(r)
  BY <1>2, <1>4 DEF Grouped
<1>10. ASSUME NEW r \in Roots, NEW x \in Roots, r # x PROVE Members(r) \cap Members(x) = {}
  <2> SUFFICES ASSUME NEW n \in Members(r), n \in Members(x) PROVE FALSE
    OBVIOUS
  <2>1. PICK y \in DOMAIN leader : leader[y] = r /\ n \in fragments[y]
    BY <1>6
  <2>2. PICK z \in DOMAIN leader : leader[z] = x /\ n \in fragments[z]
    BY <1>6
  <2> QED
    BY <1>10, <2>1, <2>2 DEF Grouped
<1> QED
  BY <1>1, <1>2, <1>3, <1>5, <1>8, <1>9, <1>10

(* A digest of a group nobody has named leads to no other group, and nor    *)
(* does another of the same content.                                        *)
LEMMA NamelessIsOne ==
    ASSUME Assumed, IInv, NEW o \in Observation, NEW x \in Roots, path[x] = NoPath,
           NEW r \in Roots,
           o.digests \cap DigestsIn(x) # {}, o.digests \cap DigestsIn(r) # {}
    PROVE  r = x
<1>1. PICK c \in Contents : Holds(x, c)
  BY DEF IInv, ContentsAreTogether
<1>2. PICK d \in o.digests, n \in Members(x) : d \in seen[n].digests
  BY DEF DigestsIn
<1>3. PICK e \in o.digests, m \in Members(r) : e \in seen[m].digests
  BY DEF DigestsIn
<1>4. d[2] = c
  BY <1>1, <1>2 DEF Holds, ContentOf
<1>5. PICK b : ContentOf(o) = {b}
  BY <1>2, DigestsAre
<1>6. d[2] = b /\ e[2] = b
  BY <1>5 DEF ContentOf
<1>7. c \in ContentOf(seen[m])
  BY <1>3, <1>4, <1>6 DEF ContentOf
<1>8. m \in DOMAIN seen
  BY <1>3, GroupsAre DEF IInv
<1>9. m \in Members(x)
  BY <1>1, <1>7, <1>8 DEF Holds
<1> QED
  BY <1>3, <1>9, GroupsAre DEF IInv

(* Where an indexed digest of an observation leads.                         *)
LEMMA IndexIs ==
    ASSUME Assumed, IInv, NEW o \in Observation, NEW d \in o.digests, by_hash[d] # NotIndexed
    PROVE  /\ by_hash[d] \in DOMAIN leader /\ leader[by_hash[d]] \in Roots
           /\ d \in o.digests \cap DigestsIn(leader[by_hash[d]])
<1>1. d \in Digest
  BY DigestsAre
<1>2. by_hash[d] \in DOMAIN leader
  BY <1>1 DEF IInv, Shape
<1> QED
  BY <1>1, <1>2, GroupsAre DEF IInv, DigestsAreIndexed

-----------------------------------------------------------------------------
(* What the loop over the digests makes of the sets.  Three outcomes: no    *)
(* group claims the observation; one does; or the group of its path takes   *)
(* in the nameless one that has its content.                                *)
Fits(o, r) ==
    \/ o.path # NoPath /\ path[r] = o.path
    \/ o.digests \cap DigestsIn(r) # {} /\ (o.path = NoPath \/ path[r] \in {NoPath, o.path})

Unclaimed(o, done, s) ==
    /\ s = Sets
    /\ o.path # NoPath => by_path[o.path] = NotIndexed
    /\ \A d \in done : by_hash[d] # NotIndexed => Conflict(o.path, path[leader[by_hash[d]]])

Claimed(o, done, s, r) ==
    /\ r \in Roots /\ Fits(o, r)
    /\ o.path # NoPath /\ by_path[o.path] # NotIndexed => r = leader[by_path[o.path]]
    /\ s = [joined |-> r, leader |-> leader, path |-> path]
    /\ \A d \in done : /\ by_hash[d] # NotIndexed
                       /\ path[leader[by_hash[d]]] = NoPath
                       => leader[by_hash[d]] = r

Merged(o, s, r, x) ==
    /\ r \in Roots /\ path[r] = o.path /\ o.path # NoPath
    /\ x \in Roots /\ path[x] = NoPath /\ o.digests \cap DigestsIn(x) # {}
    /\ s = [joined |-> r, path |-> path,
            leader |-> [y \in DOMAIN leader |-> IF leader[y] = x THEN r ELSE leader[y]]]

LoopInv(o, done, s) ==
    \/ Unclaimed(o, done, s)
    \/ \E r : Claimed(o, done, s, r)
    \/ \E r, x : Merged(o, s, r, x)

(* Before the first digest: the group of the path, if there is one.         *)
LEMMA JoinPathIs ==
    ASSUME Assumed, IInv, NEW o \in Observation PROVE LoopInv(o, {}, JoinPath(o))
<1>1. CASE o.path # NoPath /\ by_path[o.path] # NotIndexed
  <2> DEFINE r == leader[by_path[o.path]]
  <2>1. o.path \in Paths
    BY <1>1, DigestsAre
  <2>2. by_path[o.path] \in DOMAIN leader /\ path[r] = o.path
    BY <1>1, <2>1 DEF IInv, Shape, PathsAreIndexed
  <2>3. r \in Roots
    BY <2>2, GroupsAre DEF IInv
  <2>4. JoinPath(o) = [joined |-> r, leader |-> leader, path |-> path]
    BY <1>1 DEF JoinPath, Sets
  <2> QED
    BY <1>1, <2>2, <2>3, <2>4 DEF LoopInv, Claimed, Fits
<1>2. CASE ~(o.path # NoPath /\ by_path[o.path] # NotIndexed)
  BY <1>2 DEF JoinPath, LoopInv, Unclaimed
<1> QED
  BY <1>1, <1>2

(* A group joined to itself is as it was.                                   *)
LEMMA UnionWithItself ==
    ASSUME NEW s, NEW r, s.leader \in Seq(Nat), s.path \in Seq(Paths \cup {NoPath}),
           s = [joined |-> r, leader |-> s.leader, path |-> s.path],
           r \in DOMAIN s.path, s.leader[r] = r
    PROVE  Union(s, r, r) = s
<1>1. [x \in DOMAIN s.leader |-> IF s.leader[x] = r THEN r ELSE s.leader[x]] = s.leader
  OBVIOUS
<1>2. [s.path EXCEPT ![r] = IF @ = NoPath THEN s.path[r] ELSE @] = s.path
  OBVIOUS
<1> QED
  BY <1>1, <1>2 DEF Union

(* One more digest, wherever the loop has come to.                          *)
LEMMA JoinDigestIs ==
    ASSUME Assumed, IInv, NEW o \in Observation, NEW d \in o.digests, NEW done, NEW s,
           LoopInv(o, done, s)
    PROVE  LoopInv(o, done \cup {d}, JoinDigest(o, s, d))
<1> DEFINE root == leader[by_hash[d]]
<1>1. CASE by_hash[d] = NotIndexed
  BY <1>1 DEF JoinDigest, LoopInv, Unclaimed, Claimed, Merged
<1>2. CASE by_hash[d] # NotIndexed
  <2>1. /\ by_hash[d] \in DOMAIN leader /\ root \in Roots
        /\ d \in o.digests \cap DigestsIn(root)
    BY <1>2, IndexIs
  <2>2. /\ leader \in Seq(Nat) /\ path \in Seq(Paths \cup {NoPath})
        /\ DOMAIN path = DOMAIN leader /\ Roots \subseteq DOMAIN leader
        /\ \A r \in Roots : leader[r] = r /\ path[r] \in Paths \cup {NoPath}
    BY GroupsAre DEF IInv, Shape
  <2>3. CASE Unclaimed(o, done, s)
    <3>1. s.joined = 0 /\ s.leader = leader /\ s.path = path
      BY <2>3 DEF Unclaimed, Sets, NotIndexed
    <3>2. CASE Conflict(o.path, path[root])
      <4>1. JoinDigest(o, s, d) = s
        BY <1>2, <3>1, <3>2 DEF JoinDigest, NotIndexed
      <4> QED
        BY <2>3, <3>2, <4>1 DEF LoopInv, Unclaimed
    <3>3. CASE ~Conflict(o.path, path[root])
      <4>1. JoinDigest(o, s, d) = [joined |-> root, leader |-> leader, path |-> path]
        BY <1>2, <2>3, <3>1, <3>3 DEF JoinDigest, NotIndexed, Unclaimed, Sets
      <4>2. Fits(o, root)
        BY <2>1, <3>3 DEF Fits, Conflict
      <4>3. \A e \in done : by_hash[e] # NotIndexed => path[leader[by_hash[e]]] # NoPath
        BY <2>3 DEF Unclaimed, Conflict
      <4>4. Claimed(o, done \cup {d}, JoinDigest(o, s, d), root)
        BY <2>1, <2>3, <4>1, <4>2, <4>3 DEF Claimed, Unclaimed
      <4> QED
        BY <4>4 DEF LoopInv
    <3> QED
      BY <3>2, <3>3
  <2>4. ASSUME NEW r, Claimed(o, done, s, r) PROVE LoopInv(o, done \cup {d}, JoinDigest(o, s, d))
    <3>1. /\ s.joined = r /\ s.leader = leader /\ s.path = path /\ r \in Roots
          /\ s = [joined |-> r, leader |-> leader, path |-> path]
      BY <2>4 DEF Claimed
    <3>2. r # NotIndexed /\ PathOf(s, r) = path[r] /\ s.leader[r] = r
      BY <2>2, <3>1, GroupsAre DEF PathOf, NotIndexed, IInv
    <3>3. CASE Conflict(path[r], path[root])
      <4>1. JoinDigest(o, s, d) = s
        BY <1>2, <3>1, <3>2, <3>3 DEF JoinDigest
      <4>2. path[root] # NoPath
        BY <3>3 DEF Conflict
      <4> QED
        BY <2>4, <4>1, <4>2 DEF LoopInv, Claimed
    <3>4. CASE root = r
      <4>1. JoinDigest(o, s, d) = Union(s, r, root)
        BY <1>2, <3>1, <3>2, <3>4 DEF JoinDigest, Conflict
      <4>2. s.leader[root] = r
        BY <3>2, <3>4
      <4>3. Union(s, r, r) = s
        BY <2>2, <3>1, <3>2, UnionWithItself
      <4>4. JoinDigest(o, s, d) = s
        BY <3>4, <4>1, <4>3
      <4> QED
        BY <2>4, <3>4, <4>4 DEF LoopInv, Claimed
    <3>5. CASE root # r /\ ~Conflict(path[r], path[root])
      <4>1. path[r] = NoPath \/ path[root] = NoPath
        <5> SUFFICES ASSUME path[r] # NoPath, path[root] # NoPath PROVE FALSE
          OBVIOUS
        <5>1. path[r] = path[root] /\ path[r] \in Paths
          BY <2>1, <2>2, <3>1, <3>5 DEF Conflict
        <5> QED
          BY <2>1, <3>1, <3>5, <5>1 DEF IInv, PathsAreIndexed
      <4>2. Fits(o, r)
        BY <2>4 DEF Claimed
      <4>3. path[r] # NoPath
        <5> SUFFICES ASSUME path[r] = NoPath PROVE FALSE
          OBVIOUS
        <5>1. o.digests \cap DigestsIn(r) # {}
          BY <4>2 DEF Fits
        <5>2. o.digests \cap DigestsIn(root) # {}
          BY <2>1
        <5> QED
          BY <2>1, <3>1, <3>5, <5>1, <5>2, NamelessIsOne
      <4>4. path[root] = NoPath
        BY <4>1, <4>3
      <4>5. o.digests \cap DigestsIn(r) = {}
        <5> SUFFICES ASSUME o.digests \cap DigestsIn(r) # {} PROVE FALSE
          OBVIOUS
        <5>1. o.digests \cap DigestsIn(root) # {}
          BY <2>1
        <5> QED
          BY <2>1, <3>1, <3>5, <4>4, <5>1, NamelessIsOne
      <4>6. o.path # NoPath /\ path[r] = o.path
        BY <4>2, <4>5 DEF Fits
      <4>8. Union(s, r, root) = [joined |-> r, path |-> path,
              leader |-> [y \in DOMAIN leader |-> IF leader[y] = root THEN r ELSE leader[y]]]
        <5>1. s.leader[root] = root
          BY <2>1, <2>2, <3>1
        <5>2. [path EXCEPT ![r] = IF @ = NoPath THEN path[root] ELSE @] = path
          BY <2>2, <4>3
        <5> QED
          BY <3>1, <3>2, <5>1, <5>2 DEF Union
      <4>9. JoinDigest(o, s, d) = Union(s, r, root)
        BY <1>2, <3>1, <3>2, <3>5 DEF JoinDigest
      <4>10. o.digests \cap DigestsIn(root) # {}
        BY <2>1
      <4>11. Merged(o, JoinDigest(o, s, d), r, root)
        BY <2>1, <3>1, <4>4, <4>6, <4>8, <4>9, <4>10 DEF Merged
      <4> QED
        BY <4>11 DEF LoopInv
    <3> QED
      BY <3>3, <3>4, <3>5
  <2>5. ASSUME NEW r, NEW x, Merged(o, s, r, x) PROVE LoopInv(o, done \cup {d}, JoinDigest(o, s, d))
    <3>1. /\ r \in Roots /\ x \in Roots /\ path[r] # NoPath /\ path[x] = NoPath
          /\ s.joined = r /\ s.path = path
          /\ s.leader = [y \in DOMAIN leader |-> IF leader[y] = x THEN r ELSE leader[y]]
          /\ s = [joined |-> r, leader |-> s.leader, path |-> s.path]
      BY <2>5 DEF Merged
    <3>2. root = x
      <4>1. o.digests \cap DigestsIn(x) # {} /\ o.digests \cap DigestsIn(root) # {}
        BY <2>1, <2>5 DEF Merged
      <4> QED
        BY <2>1, <3>1, <4>1, NamelessIsOne
    <3>3. s.leader[by_hash[d]] = r /\ s.leader[r] = r /\ r # NotIndexed
      BY <2>1, <2>2, <3>1, <3>2, GroupsAre DEF NotIndexed, IInv
    <3>4. PathOf(s, r) = path[r]
      BY <3>1, <3>3 DEF PathOf
    <3>5. JoinDigest(o, s, d) = Union(s, r, r)
      BY <1>2, <3>1, <3>3, <3>4 DEF JoinDigest, Conflict
    <3>6. s.leader \in Seq(Nat)
      <4>1. s.leader \in [1 .. Len(leader) -> Nat] /\ Len(leader) \in Nat
        BY <2>2, <3>1, GroupsAre DEF IInv
      <4> QED
        BY <4>1
    <3>7. Union(s, r, r) = s
      BY <2>2, <3>1, <3>3, <3>6, UnionWithItself
    <3>8. Merged(o, JoinDigest(o, s, d), r, x)
      BY <2>5, <3>5, <3>7
    <3> QED
      BY <3>8 DEF LoopInv
  <2> QED
    BY <2>3, <2>4, <2>5 DEF LoopInv
<1> QED
  BY <1>1, <1>2

(* A property of the natural numbers that fails has a least place to fail.  *)
LEMMA LeastFailure ==
    ASSUME NEW Fails, Fails \subseteq Nat, Fails # {}
    PROVE  \E n \in Fails : \A m \in Fails : n <= m
<1> DEFINE Less == { ss \in Nat \X Nat : ss[1] < ss[2] }
<1>1. OpToRel(<, Nat) = Less
  BY Zenon DEF OpToRel
<1>2. IsWellFoundedOn(Less, Nat)
  BY <1>1, NatLessThanWellFounded, Zenon
<1>3. \A x, y \in Nat : y < x => << y, x >> \in Less
  BY SMT
<1> HIDE DEF Less
<1>4. PICK n \in Fails : \A m \in Fails : << m, n >> \notin Less
  BY <1>2, WFMin
<1>5. \A m \in Fails : ~(m < n)
  BY <1>3, <1>4
<1> QED
  BY <1>4, <1>5

(* The loop is what its equation says.                                      *)
After(o, k, s) ==
    IF HashKeys(o, Algorithms[k]) = {} THEN s
    ELSE JoinDigest(o, s, CHOOSE key \in HashKeys(o, Algorithms[k]) : TRUE)

IsLoop(o, n, g) ==
    g = [k \in 0 .. n |-> IF k = 0 THEN JoinPath(o) ELSE After(o, k, g[k - 1])]

(* The recursion has a solution.                                            *)
LEMMA LoopExists == ASSUME NEW o, NEW n \in Nat PROVE \E g : IsLoop(o, n, g)
<1> DEFINE Fails == { m \in Nat : ~ \E g : IsLoop(o, m, g) }
<1> SUFFICES ASSUME Fails # {} PROVE FALSE
  OBVIOUS
<1>1. PICK m \in Fails : \A k \in Fails : m <= k
  <2> HIDE DEF Fails
  <2>1. Fails \subseteq Nat
    BY DEF Fails
  <2> QED
    BY <2>1, LeastFailure
<1>2. m \in Nat /\ ~ \E g : IsLoop(o, m, g)
  OBVIOUS
<1>3. CASE m = 0
  <2> DEFINE g == [k \in 0 .. 0 |-> JoinPath(o)]
  <2>1. g = [k \in 0 .. 0 |-> IF k = 0 THEN JoinPath(o) ELSE After(o, k, g[k - 1])]
    OBVIOUS
  <2> QED
    BY <1>2, <1>3, <2>1 DEF IsLoop
<1>4. CASE m # 0
  <2>1. m - 1 \in Nat /\ m - 1 \notin Fails
    <3> HIDE DEF Fails
    <3> QED
      BY <1>1, <1>2, <1>4
  <2>2. PICK g : IsLoop(o, m - 1, g)
    BY <2>1
  <2> DEFINE h == [k \in 0 .. m |-> IF k = m THEN After(o, m, g[m - 1]) ELSE g[k]]
  <2>3. \A k \in 0 .. m - 1 : h[k] = g[k]
    BY <1>2
  <2>4. \A k \in 0 .. m - 1 : g[k] = IF k = 0 THEN JoinPath(o) ELSE After(o, k, g[k - 1])
    BY <2>2 DEF IsLoop
  <2>5. \A k \in 0 .. m : h[k] = IF k = 0 THEN JoinPath(o) ELSE After(o, k, h[k - 1])
    <3> SUFFICES ASSUME NEW k \in 0 .. m
                 PROVE  h[k] = IF k = 0 THEN JoinPath(o) ELSE After(o, k, h[k - 1])
      OBVIOUS
    <3>1. CASE k = m
      <4>1. h[k] = After(o, m, g[m - 1]) /\ m - 1 \in 0 .. m - 1
        BY <1>2, <1>4, <3>1
      <4>2. h[m - 1] = g[m - 1]
        BY <2>3, <4>1
      <4> QED
        BY <1>4, <3>1, <4>1, <4>2
    <3>2. CASE k # m
      <4>1. k \in 0 .. m - 1 /\ (k # 0 => k - 1 \in 0 .. m - 1)
        BY <1>2, <3>2
      <4>2. h[k] = g[k] /\ (k # 0 => h[k - 1] = g[k - 1])
        BY <2>3, <4>1
      <4> QED
        BY <2>4, <4>1, <4>2
    <3> QED
      BY <3>1, <3>2
  <2>6. IsLoop(o, m, h)
    BY <2>5 DEF IsLoop
  <2> QED
    BY <1>2, <2>6
<1> QED
  BY <1>3, <1>4

(* And JoinDigests is it.                                                   *)
LEMMA LoopIs ==
    ASSUME Assumed, NEW o
    PROVE  IsLoop(o, Len(Algorithms), JoinDigests(o)) /\ Len(Algorithms) \in Nat
<1>1. Len(Algorithms) \in Nat
  BY DEF Assumed, AlgorithmAssumption
<1>2. \E g : IsLoop(o, Len(Algorithms), g)
  BY <1>1, LoopExists
<1>3. JoinDigests(o) = CHOOSE g : IsLoop(o, Len(Algorithms), g)
  BY DEF JoinDigests, IsLoop, After
<1> QED
  BY <1>1, <1>2, <1>3

(* The digests of the first algorithms.                                     *)
Done(o, k) == { d \in o.digests : \E i \in 1 .. k : d[1] = Algorithms[i] }

(* One more algorithm, whether or not the observation has a digest of it.   *)
LEMMA AfterIs ==
    ASSUME Assumed, IInv, NEW o \in Observation, NEW k \in Nat, k # 0, NEW s,
           LoopInv(o, Done(o, k - 1), s)
    PROVE  LoopInv(o, Done(o, k), After(o, k, s))
<1> DEFINE new == { d \in o.digests : d[1] = Algorithms[k] }
<1>1. Done(o, k) = Done(o, k - 1) \cup new
  <2>1. \A i \in 1 .. k : i = k \/ i \in 1 .. k - 1
    OBVIOUS
  <2>2. k \in 1 .. k /\ \A i \in 1 .. k - 1 : i \in 1 .. k
    OBVIOUS
  <2> QED
    BY <2>1, <2>2 DEF Done
<1>2. CASE new = {}
  BY <1>1, <1>2 DEF After, HashKeys
<1>3. CASE new # {}
  <2> DEFINE d == CHOOSE key \in new : TRUE
  <2>1. d \in new
    BY <1>3
  <2>2. PICK c \in Contents, algs \in DigestSets : o.digests = algs \X {c}
    BY <1>3, DigestsAre
  <2>3. \A e \in new : e = << Algorithms[k], c >>
    BY <2>2
  <2>4. new = {d}
    BY <2>1, <2>3
  <2>5. After(o, k, s) = JoinDigest(o, s, d)
    BY <1>3 DEF After, HashKeys
  <2>6. d \in o.digests
    BY <2>1
  <2> HIDE DEF d, new
  <2> QED
    BY <1>1, <2>4, <2>5, <2>6, JoinDigestIs
<1> QED
  BY <1>2, <1>3

(* So the loop ends with every digest looked at.                            *)
LEMMA JoinDigestsAre ==
    ASSUME Assumed, IInv, NEW o \in Observation
    PROVE  LoopInv(o, o.digests, JoinDigests(o)[Len(Algorithms)])
<1> DEFINE last == Len(Algorithms)
           g == JoinDigests(o)
           Fails == { k \in Nat : k <= last /\ ~ LoopInv(o, Done(o, k), g[k]) }
<1>1. /\ last \in Nat
      /\ \A k \in 0 .. last : g[k] = IF k = 0 THEN JoinPath(o) ELSE After(o, k, g[k - 1])
  BY LoopIs DEF IsLoop
<1>2. Fails = {}
  <2> SUFFICES ASSUME Fails # {} PROVE FALSE
    OBVIOUS
  <2>1. PICK k \in Fails : \A m \in Fails : k <= m
    <3>1. Fails \subseteq Nat
      OBVIOUS
    <3> HIDE DEF Fails
    <3> QED
      BY <3>1, LeastFailure
  <2>2. k \in Nat /\ k \in 0 .. last /\ ~ LoopInv(o, Done(o, k), g[k])
    BY <1>1
  <2>3. k # 0
    <3> SUFFICES ASSUME k = 0 PROVE FALSE
      OBVIOUS
    <3>1. Done(o, 0) = {}
      BY DEF Done
    <3>2. g[0] = JoinPath(o)
      BY <1>1, <2>2
    <3> QED
      BY <2>2, <3>1, <3>2, JoinPathIs
  <2>4. k - 1 \in Nat /\ k - 1 <= last /\ k - 1 \notin Fails
    <3> HIDE DEF Fails
    <3> QED
      BY <1>1, <2>1, <2>2, <2>3
  <2>5. LoopInv(o, Done(o, k - 1), g[k - 1])
    BY <2>4
  <2>6. g[k] = After(o, k, g[k - 1])
    BY <1>1, <2>2, <2>3
  <2> HIDE DEF g, last, Fails
  <2> QED
    BY <2>2, <2>3, <2>5, <2>6, AfterIs
<1>3. LoopInv(o, Done(o, last), g[last])
  BY <1>1, <1>2
<1>4. Done(o, last) = o.digests
  <2>1. \A d \in o.digests : d[1] \in Algorithm
    <3>1. \A d \in Digest : d[1] \in Algorithm
      BY DEF Digest
    <3> QED
      BY <3>1, DigestsAre
  <2>2. DOMAIN Algorithms = 1 .. last
    BY DEF Assumed, AlgorithmAssumption
  <2> QED
    BY <2>1, <2>2 DEF Done, Algorithm
<1> QED
  BY <1>3, <1>4

-----------------------------------------------------------------------------
(* Where an observation is placed: `groups` are the groups that become one  *)
(* with it, none for an observation nothing claimed.                        *)
Placement(o, groups, s) ==
    /\ groups \subseteq Roots /\ \A r \in groups : Fits(o, r)
    /\ \A r \in Roots : o.path # NoPath /\ path[r] = o.path => r \in groups
    /\ \A r \in Roots : path[r] = NoPath /\ o.digests \cap DigestsIn(r) # {} => r \in groups
    /\ \/ /\ groups = {}
          /\ s = [joined |-> Len(leader) + 1, leader |-> Append(leader, Len(leader) + 1),
                  path |-> Append(path, NoPath)]
          /\ o.path = NoPath => \A d \in o.digests : by_hash[d] = NotIndexed
       \/ \E r : groups = {r} /\ s = [joined |-> r, leader |-> leader, path |-> path]
       \/ \E r, x : groups = {r, x} /\ Merged(o, s, r, x)

(* The index of paths finds the group of a path.                            *)
LEMMA PathIsIndexed ==
    ASSUME Assumed, IInv, NEW o \in Observation, o.path # NoPath,
           NEW r \in Roots, path[r] = o.path
    PROVE  by_path[o.path] # NotIndexed /\ r = leader[by_path[o.path]]
<1>1. o.path \in Paths
  BY DigestsAre
<1> QED
  BY <1>1 DEF IInv, PathsAreIndexed

(* The index of digests finds the group nobody has named.                   *)
LEMMA NamelessIsIndexed ==
    ASSUME Assumed, IInv, NEW o \in Observation,
           NEW r \in Roots, path[r] = NoPath, o.digests \cap DigestsIn(r) # {}
    PROVE  \E d \in o.digests : by_hash[d] # NotIndexed /\ leader[by_hash[d]] = r
<1>1. PICK d \in o.digests, n \in Members(r) : d \in seen[n].digests
  BY DEF DigestsIn
<1>2. d \in Digest /\ n \in DOMAIN seen
  BY <1>1, DigestsAre, GroupsAre DEF IInv
<1>3. by_hash[d] # NotIndexed
  BY <1>1, <1>2 DEF IInv, DigestsAreIndexed
<1>4. /\ leader[by_hash[d]] \in Roots
      /\ o.digests \cap DigestsIn(leader[by_hash[d]]) # {}
  BY <1>1, <1>3, IndexIs
<1> QED
  BY <1>1, <1>3, <1>4, NamelessIsOne

(* Which groups the observation joins, and where it is put.                 *)
LEMMA PlaceIs ==
    ASSUME Assumed, IInv, NEW o \in Observation
    PROVE  \E groups : Placement(o, groups, Place(o))
<1> DEFINE s == JoinDigests(o)[Len(Algorithms)]
<1>1. LoopInv(o, o.digests, s)
  BY JoinDigestsAre
<1>2. Place(o) = IF s.joined = NotIndexed THEN Make(s) ELSE s
  BY DEF Place
<1> HIDE DEF s
<1>3. CASE Unclaimed(o, o.digests, s)
  <2>1. s.joined = NotIndexed /\ s.leader = leader /\ s.path = path
    BY <1>3 DEF Unclaimed, Sets
  <2>2. Place(o) = [joined |-> Len(leader) + 1, leader |-> Append(leader, Len(leader) + 1),
                    path |-> Append(path, NoPath)]
    BY <1>2, <2>1 DEF Make
  <2>3. \A d \in o.digests :
          by_hash[d] # NotIndexed => o.path # NoPath /\ path[leader[by_hash[d]]] # NoPath
    BY <1>3 DEF Unclaimed, Conflict
  <2>4. \A r \in Roots : ~(o.path # NoPath /\ path[r] = o.path)
    BY <1>3, PathIsIndexed DEF Unclaimed
  <2>5. \A r \in Roots : ~(path[r] = NoPath /\ o.digests \cap DigestsIn(r) # {})
    BY <2>3, NamelessIsIndexed
  <2>6. Placement(o, {}, Place(o))
    BY <2>2, <2>3, <2>4, <2>5 DEF Placement
  <2> QED
    BY <2>6
<1>4. ASSUME NEW r, Claimed(o, o.digests, s, r) PROVE \E groups : Placement(o, groups, Place(o))
  <2>1. r \in Roots /\ Fits(o, r) /\ s = [joined |-> r, leader |-> leader, path |-> path]
    BY <1>4 DEF Claimed
  <2>2. r # NotIndexed
    BY <2>1, GroupsAre DEF IInv, NotIndexed
  <2>3. Place(o) = s
    BY <1>2, <2>1, <2>2
  <2>4. \A x \in Roots : o.path # NoPath /\ path[x] = o.path => x = r
    BY <1>4, PathIsIndexed DEF Claimed
  <2>5. \A x \in Roots : path[x] = NoPath /\ o.digests \cap DigestsIn(x) # {} => x = r
    <3> SUFFICES ASSUME NEW x \in Roots, path[x] = NoPath, o.digests \cap DigestsIn(x) # {}
                 PROVE  x = r
      OBVIOUS
    <3>1. PICK d \in o.digests : by_hash[d] # NotIndexed /\ leader[by_hash[d]] = x
      BY NamelessIsIndexed
    <3> QED
      BY <1>4, <3>1 DEF Claimed
  <2>6. Placement(o, {r}, Place(o))
    BY <2>1, <2>3, <2>4, <2>5 DEF Placement
  <2> QED
    BY <2>6
<1>5. ASSUME NEW r, NEW x, Merged(o, s, r, x) PROVE \E groups : Placement(o, groups, Place(o))
  <2>1. /\ r \in Roots /\ x \in Roots /\ s.joined = r
        /\ path[r] = o.path /\ o.path # NoPath
        /\ path[x] = NoPath /\ o.digests \cap DigestsIn(x) # {}
    BY <1>5 DEF Merged
  <2>2. r # NotIndexed
    BY <2>1, GroupsAre DEF IInv, NotIndexed
  <2>3. Place(o) = s
    BY <1>2, <2>1, <2>2
  <2>4. \A y \in Roots : path[y] = o.path => y = r
    BY <2>1, PathIsIndexed
  <2>5. \A y \in Roots : path[y] = NoPath /\ o.digests \cap DigestsIn(y) # {} => y = x
    BY <2>1, NamelessIsOne
  <2>6. Fits(o, r) /\ Fits(o, x)
    BY <2>1 DEF Fits
  <2>7. Placement(o, {r, x}, Place(o))
    BY <1>5, <2>1, <2>3, <2>4, <2>5, <2>6 DEF Placement
  <2> QED
    BY <2>7
<1> QED
  BY <1>1, <1>3, <1>4, <1>5 DEF LoopInv

(* What an observation does to the groups: `groups` and it become the one   *)
(* under `root`.                                                            *)
New == Len(seen) + 1
Regroups(o, groups, root) ==
    /\ seen' = Append(seen, o)
    /\ DOMAIN leader' = DOMAIN leader \cup {root}
    /\ \/ root \in groups
       \/ groups = {} /\ root = Len(leader) + 1
    /\ \A y \in DOMAIN leader : leader'[y] = IF leader[y] \in groups THEN root ELSE leader[y]
    /\ leader'[root] = root
    /\ fragments'[root] = {New} \cup IF groups = {} THEN {} ELSE fragments[root]
    /\ \A y \in DOMAIN leader \ {root} : fragments'[y] = fragments[y]
    /\ \A r \in Roots \ groups : path'[r] = path[r]
    /\ \A r \in groups : path[r] \in {NoPath, path'[root]}
    /\ o.path # NoPath => path'[root] = o.path
    /\ o.path = NoPath => \/ groups = {} /\ path'[root] = NoPath
                          \/ groups = {root} /\ path'[root] = path[root]
    /\ by_path' = OrInsert(by_path, {o.path} \ {NoPath}, root)
    /\ by_hash' = OrInsert(by_hash, o.digests, root)

(* So Observe regroups.                                                     *)
LEMMA ObserveIs ==
    ASSUME Assumed, IInv, NEW o \in Observation, Observe(o),
           NEW groups, Placement(o, groups, Place(o))
    PROVE  Regroups(o, groups, Place(o).joined) /\ Shape'
<1> DEFINE s == Place(o)
           root == s.joined
           sets == IF Len(s.leader) > Len(fragments) THEN Append(fragments, {}) ELSE fragments
<1>1. /\ seen' = Append(seen, o) /\ leader' = s.leader
      /\ path' = CommitPath(s, o.path)
      /\ by_path' = OrInsert(by_path, {o.path} \ {NoPath}, root)
      /\ by_hash' = OrInsert(by_hash, o.digests, root)
      /\ fragments' = [sets EXCEPT ![root] = @ \cup {New}]
  BY DEF Observe, Push, New
<1>2. /\ seen \in Seq(Observation) /\ leader \in Seq(DOMAIN leader)
      /\ path \in Seq(Paths \cup {NoPath}) /\ fragments \in Seq(SUBSET DOMAIN seen)
      /\ Len(path) = Len(leader) /\ Len(fragments) = Len(leader) /\ Len(leader) \in Nat
      /\ DOMAIN leader = 1 .. Len(leader) /\ DOMAIN path = 1 .. Len(leader)
      /\ DOMAIN fragments = 1 .. Len(leader) /\ Len(seen) \in Nat
      /\ DOMAIN seen = 1 .. Len(seen)
      /\ Roots \subseteq DOMAIN leader /\ \A r \in Roots : leader[r] = r
  BY GroupsAre DEF IInv, Shape
<1>3. o.path \in Paths \cup {NoPath} /\ o.digests \subseteq Digest
  BY DigestsAre
<1>12. s.leader = leader'
  BY <1>1
<1>4. path' = [s.path EXCEPT ![root] = IF @ = NoPath THEN o.path ELSE @]
  BY <1>1 DEF CommitPath
<1>5. /\ seen' \in Seq(Observation) /\ Len(seen') = New /\ DOMAIN seen' = 1 .. New
      /\ \A n \in DOMAIN seen : seen'[n] = seen[n]
      /\ DOMAIN seen \subseteq DOMAIN seen' /\ New \in DOMAIN seen'
  BY <1>1, <1>2 DEF New
<1>6. ASSUME DOMAIN leader' = DOMAIN leader \cup {root}
      PROVE  /\ by_path' \in [Paths -> DOMAIN leader' \cup {NotIndexed}]
             /\ by_hash' \in [Digest -> DOMAIN leader' \cup {NotIndexed}]
  <2>1. /\ by_path \in [Paths -> DOMAIN leader \cup {NotIndexed}]
        /\ by_hash \in [Digest -> DOMAIN leader \cup {NotIndexed}]
    BY DEF IInv, Shape
  <2> HIDE DEF root
  <2> QED
    BY <1>1, <1>6, <2>1 DEF OrInsert
<1>7. ASSUME groups = {}, s = [joined |-> Len(leader) + 1,
                              leader |-> Append(leader, Len(leader) + 1),
                              path |-> Append(path, NoPath)]
      PROVE  Regroups(o, groups, root) /\ Shape'
  <2> HIDE DEF s
  <2>1. /\ root = Len(leader) + 1 /\ leader' = Append(leader, Len(leader) + 1)
        /\ s.path = Append(path, NoPath)
    BY <1>1, <1>7
  <2>2. /\ Len(leader') = Len(leader) + 1 /\ DOMAIN leader' = 1 .. Len(leader) + 1
        /\ DOMAIN leader' = DOMAIN leader \cup {root}
        /\ leader'[root] = root /\ \A y \in DOMAIN leader : leader'[y] = leader[y]
    BY <1>2, <2>1
  <2>3. leader' \in Seq(DOMAIN leader')
    <3>1. \A y \in 1 .. Len(leader) + 1 : y \in DOMAIN leader \/ y = Len(leader) + 1
      BY <1>2
    <3>2. \A y \in DOMAIN leader : leader[y] \in DOMAIN leader
      BY <1>2
    <3>3. \A y \in 1 .. Len(leader') : leader'[y] \in DOMAIN leader'
      BY <2>1, <2>2, <3>1, <3>2
    <3>4. leader' \in Seq(Nat)
      BY <1>2, <2>1
    <3> QED
      BY <3>3, <3>4
  <2>4. /\ path' \in Seq(Paths \cup {NoPath}) /\ Len(path') = Len(leader')
        /\ path'[root] = o.path /\ \A y \in DOMAIN leader : path'[y] = path[y]
    <3> DEFINE more == Append(path, NoPath)
    <3>1. more[Len(path) + 1] = NoPath
      BY <1>2
    <3>2. path' = [more EXCEPT ![Len(path) + 1] = o.path]
      BY <1>2, <1>4, <2>1, <3>1
    <3>3. /\ path \in Seq(Paths \cup {NoPath}) /\ NoPath \in Paths \cup {NoPath}
          /\ o.path \in Paths \cup {NoPath}
      BY <1>2, <1>3
    <3>5. /\ more \in Seq(Paths \cup {NoPath}) /\ Len(more) = Len(path) + 1
          /\ \A y \in 1 .. Len(path) : more[y] = path[y]
      BY <3>3
    <3> HIDE DEF more
    <3>4. /\ path' \in Seq(Paths \cup {NoPath}) /\ Len(path') = Len(path) + 1
          /\ path'[Len(path) + 1] = o.path /\ \A y \in 1 .. Len(path) : path'[y] = path[y]
      <4> DEFINE n == Len(path) + 1
      <4>1. n \in Nat /\ more \in [1 .. n -> Paths \cup {NoPath}] /\ n \in 1 .. n
        BY <1>2, <3>5
      <4>2. \A y \in 1 .. Len(path) : y \in 1 .. n /\ y # n
        BY <1>2
      <4> HIDE DEF n
      <4>3. /\ path' \in [1 .. n -> Paths \cup {NoPath}] /\ path'[n] = o.path
            /\ \A y \in 1 .. Len(path) : path'[y] = more[y]
        BY <3>2, <3>3, <4>1, <4>2, Zenon DEF n
      <4>4. path' \in Seq(Paths \cup {NoPath}) /\ Len(path') = n
        BY <4>1, <4>3
      <4> QED
        BY <3>5, <4>3, <4>4 DEF n
    <3> QED
      BY <1>2, <2>1, <2>2, <3>4
  <2>5. /\ fragments' \in Seq(SUBSET DOMAIN seen') /\ Len(fragments') = Len(leader')
        /\ fragments'[root] = {New} /\ \A y \in DOMAIN leader : fragments'[y] = fragments[y]
    <3>7. Len(s.leader) > Len(fragments)
      <4>1. Len(leader') > Len(fragments)
        BY <1>2, <2>2
      <4> QED
        BY <1>12, <4>1
    <3>1. sets = Append(fragments, {})
      BY <3>7
    <3> DEFINE more == Append(fragments, {})
    <3>5. more[Len(fragments) + 1] = {}
      BY <1>2
    <3>6. fragments' = [more EXCEPT ![Len(fragments) + 1] = {New}]
      BY <1>1, <1>2, <2>1, <3>1, <3>5
    <3>3. fragments \in Seq(SUBSET DOMAIN seen')
      BY <1>2, <1>5
    <3>4. {New} \in SUBSET DOMAIN seen' /\ {} \in SUBSET DOMAIN seen'
      BY <1>5
    <3>8. /\ more \in Seq(SUBSET DOMAIN seen') /\ Len(more) = Len(fragments) + 1
          /\ \A y \in 1 .. Len(fragments) : more[y] = fragments[y]
      BY <3>3, <3>4
    <3> HIDE DEF more
    <3>2. /\ fragments' \in Seq(SUBSET DOMAIN seen') /\ Len(fragments') = Len(fragments) + 1
          /\ fragments'[Len(fragments) + 1] = {New}
          /\ \A y \in 1 .. Len(fragments) : fragments'[y] = fragments[y]
      BY <1>2, <3>4, <3>6, <3>8
    <3> QED
      BY <1>2, <2>1, <2>2, <3>2
  <2>6. Shape'
    BY <1>5, <1>6, <2>2, <2>3, <2>4, <2>5 DEF Shape
  <2>7. Regroups(o, groups, root)
    <3> HIDE DEF root, sets
    <3> QED
      BY <1>1, <1>2, <1>7, <2>1, <2>2, <2>4, <2>5 DEF Regroups
  <2> QED
    BY <2>6, <2>7
<1>8. ASSUME NEW r, r \in groups, root = r,
             leader' \in [DOMAIN leader -> DOMAIN leader], s.path = path,
             \A y \in DOMAIN leader : leader'[y] = IF leader[y] \in groups THEN r ELSE leader[y],
             \/ groups = {r}
             \/ path[r] = o.path /\ o.path # NoPath
      PROVE  Regroups(o, groups, root) /\ Shape'
  <2> HIDE DEF s
  <2>1. /\ r \in Roots /\ r \in DOMAIN leader /\ leader[r] = r
        /\ groups \subseteq Roots /\ \A x \in groups : Fits(o, x)
        /\ \A x \in Roots : o.path # NoPath /\ path[x] = o.path => x \in groups
    BY <1>2, <1>8 DEF Placement
  <2>2. /\ leader' \in Seq(DOMAIN leader) /\ Len(leader') = Len(leader)
        /\ DOMAIN leader' = DOMAIN leader
    <3>1. leader' \in [1 .. Len(leader) -> DOMAIN leader]
      BY <1>2, <1>8
    <3> QED
      BY <1>2, <3>1
  <2>3. /\ path' \in Seq(Paths \cup {NoPath}) /\ Len(path') = Len(leader')
        /\ path'[r] = (IF path[r] = NoPath THEN o.path ELSE path[r])
        /\ \A y \in DOMAIN leader \ {r} : path'[y] = path[y]
    BY <1>2, <1>3, <1>4, <1>8, <2>1, <2>2
  <2>4. /\ fragments' \in Seq(SUBSET DOMAIN seen') /\ Len(fragments') = Len(leader')
        /\ fragments'[r] = fragments[r] \cup {New}
        /\ \A y \in DOMAIN leader \ {r} : fragments'[y] = fragments[y]
    <3>5. ~(Len(s.leader) > Len(fragments))
      <4>1. ~(Len(leader') > Len(fragments))
        BY <1>2, <2>2
      <4> QED
        BY <1>12, <4>1
    <3>1. sets = fragments
      BY <3>5
    <3>2. fragments' = [fragments EXCEPT ![r] = fragments[r] \cup {New}]
      BY <1>1, <1>8, <3>1
    <3>3. fragments \in Seq(SUBSET DOMAIN seen')
      BY <1>2, <1>5
    <3>4. fragments[r] \cup {New} \in SUBSET DOMAIN seen'
      BY <1>2, <1>5, <2>1
    <3> QED
      BY <1>2, <2>1, <2>2, <3>2, <3>3, <3>4
  <2>5. Shape'
    BY <1>2, <1>5, <1>6, <1>8, <2>1, <2>2, <2>3, <2>4 DEF Shape
  <2>6. \A x \in groups : path[x] \in {NoPath, path'[r]}
    <3> SUFFICES ASSUME NEW x \in groups, path[x] # NoPath PROVE path[x] = path'[r]
      OBVIOUS
    <3>1. CASE groups = {r}
      BY <2>3, <3>1
    <3>2. CASE path[r] = o.path /\ o.path # NoPath
      BY <2>1, <2>3, <3>2 DEF Fits
    <3> QED
      BY <1>8, <3>1, <3>2
  <2>7. o.path # NoPath => path'[r] = o.path
    BY <1>8, <2>1, <2>3 DEF Fits
  <2>8. o.path = NoPath => groups = {r} /\ path'[r] = path[r]
    BY <1>8, <2>3
  <2>9. Regroups(o, groups, root)
    <3> HIDE DEF root, sets
    <3>1. /\ seen' = Append(seen, o) /\ DOMAIN leader' = DOMAIN leader \cup {root}
          /\ root \in groups /\ leader'[root] = root
          /\ \A y \in DOMAIN leader : leader'[y] = IF leader[y] \in groups THEN root ELSE leader[y]
      BY <1>1, <1>8, <2>1, <2>2
    <3>2. /\ fragments'[root] = {New} \cup IF groups = {} THEN {} ELSE fragments[root]
          /\ \A y \in DOMAIN leader \ {root} : fragments'[y] = fragments[y]
      BY <1>8, <2>4
    <3>3. \A x \in Roots \ groups : path'[x] = path[x]
      BY <1>2, <1>8, <2>3
    <3> QED
      BY <1>1, <1>8, <2>6, <2>7, <2>8, <3>1, <3>2, <3>3 DEF Regroups
  <2> QED
    BY <2>5, <2>9
<1>9. CASE groups = {}
  <2>1. s = [joined |-> Len(leader) + 1, leader |-> Append(leader, Len(leader) + 1),
             path |-> Append(path, NoPath)]
    BY <1>9 DEF Placement
  <2> QED
    BY <1>7, <1>9, <2>1
<1>10. ASSUME NEW r, groups = {r}, s = [joined |-> r, leader |-> leader, path |-> path]
       PROVE  Regroups(o, groups, root) /\ Shape'
  <2> HIDE DEF s
  <2>1. root = r /\ leader' = leader /\ s.path = path
    BY <1>1, <1>10
  <2>2. leader' \in [DOMAIN leader -> DOMAIN leader]
    BY <1>2, <2>1
  <2> QED
    BY <1>8, <1>10, <2>1, <2>2
<1>11. ASSUME NEW r, NEW x, groups = {r, x}, Merged(o, s, r, x)
       PROVE  Regroups(o, groups, root) /\ Shape'
  <2> HIDE DEF s
  <2>1. /\ root = r /\ s.path = path /\ path[r] = o.path /\ o.path # NoPath /\ r \in Roots
        /\ leader' = [y \in DOMAIN leader |-> IF leader[y] = x THEN r ELSE leader[y]]
    BY <1>1, <1>11 DEF Merged
  <2>2. leader' \in [DOMAIN leader -> DOMAIN leader]
    BY <1>2, <2>1
  <2>3. \A y \in DOMAIN leader : leader'[y] = IF leader[y] \in groups THEN r ELSE leader[y]
    BY <1>11, <2>1
  <2> QED
    BY <1>8, <1>11, <2>1, <2>2, <2>3
<1> QED
  BY <1>9, <1>10, <1>11 DEF Placement

-----------------------------------------------------------------------------
(* Nothing is lost or in two groups, and nobody else has moved.             *)
LEMMA GroupsAfter ==
    ASSUME Assumed, IInv, NEW o \in Observation, NEW groups, NEW root, groups \subseteq Roots,
           Regroups(o, groups, root), Shape'
    PROVE  /\ Grouped'
           /\ DOMAIN seen' = DOMAIN seen \cup {New} /\ New \notin DOMAIN seen
           /\ seen'[New] = o /\ \A n \in DOMAIN seen : seen'[n] = seen[n]
           /\ Roots' = (Roots \ groups) \cup {root} /\ root \notin Roots \ groups
           /\ Members(root)' = {New} \cup UNION { Members(r) : r \in groups }
           /\ \A r \in Roots \ groups : Members(r)' = Members(r)
<1>1. /\ DOMAIN seen' = DOMAIN seen \cup {New} /\ New \notin DOMAIN seen
      /\ seen'[New] = o /\ \A n \in DOMAIN seen : seen'[n] = seen[n]
  <2>1. seen' = Append(seen, o) /\ seen \in Seq(Observation) /\ New = Len(seen) + 1
    BY DEF Regroups, IInv, Shape, New
  <2>2. \A n \in 1 .. Len(seen) + 1 : n \in 1 .. Len(seen) \/ n = Len(seen) + 1
    BY <2>1
  <2> QED
    BY <2>1, <2>2
<1>2. /\ DOMAIN leader' = DOMAIN leader \cup {root}
      /\ root \in groups \/ (groups = {} /\ root \notin DOMAIN leader)
      /\ \A y \in DOMAIN leader : leader'[y] = IF leader[y] \in groups THEN root ELSE leader[y]
      /\ leader'[root] = root
      /\ fragments'[root] = {New} \cup IF groups = {} THEN {} ELSE fragments[root]
      /\ \A y \in DOMAIN leader \ {root} : fragments'[y] = fragments[y]
  <2>1. Len(leader) + 1 \notin DOMAIN leader
    BY GroupsAre DEF IInv
  <2>2. root \in groups \/ (groups = {} /\ root = Len(leader) + 1)
    BY DEF Regroups
  <2>3. root \in groups \/ (groups = {} /\ root \notin DOMAIN leader)
    BY <2>1, <2>2
  <2> QED
    BY <2>3, Zenon DEF Regroups
<1>3. /\ Roots \subseteq DOMAIN leader
      /\ \A x \in DOMAIN leader : leader[x] \in Roots
      /\ \A r \in Roots : leader[r] = r
      /\ \A x \in DOMAIN leader : fragments[x] # {} /\ fragments[x] \subseteq DOMAIN seen
      /\ \A n \in DOMAIN seen : \E x \in DOMAIN leader : n \in fragments[x]
      /\ \A x, y \in DOMAIN leader : x # y => fragments[x] \cap fragments[y] = {}
  <2>1. DOMAIN fragments = DOMAIN leader /\ \A x \in DOMAIN fragments : fragments[x] \subseteq DOMAIN seen
    BY DEF IInv, Shape
  <2> QED
    BY <2>1, GroupsAre DEF IInv, Grouped
<1>4. root \notin Roots \ groups
  BY <1>2, <1>3
<1>5. Roots' = (Roots \ groups) \cup {root}
  <2>1. \A x \in DOMAIN leader' : leader'[x] \in (Roots \ groups) \cup {root}
    BY <1>2, <1>3
  <2>2. \A r \in Roots \ groups : r \in DOMAIN leader' /\ leader'[r] = r
    BY <1>2, <1>3
  <2>3. root \in DOMAIN leader' /\ leader'[root] = root
    BY <1>2
  <2>4. Roots' = { leader'[x] : x \in DOMAIN leader' }
    BY DEF Roots
  <2> QED
    BY <2>1, <2>2, <2>3, <2>4
<1>6. \A r, n : n \in Members(r) <=> \E y \in DOMAIN leader : leader[y] = r /\ n \in fragments[y]
  BY DEF Members
<1>7. \A r, n : n \in Members(r)' <=>
                \E y \in DOMAIN leader' : leader'[y] = r /\ n \in fragments'[y]
  BY DEF Members
<1>8. Members(root)' = {New} \cup UNION { Members(r) : r \in groups }
  <2>1. ASSUME NEW n \in Members(root)' PROVE n = New \/ \E r \in groups : n \in Members(r)
    <3>1. PICK y \in DOMAIN leader' : leader'[y] = root /\ n \in fragments'[y]
      BY <1>7, <2>1
    <3>2. CASE y = root
      <4>1. n = New \/ (groups # {} /\ n \in fragments[root])
        BY <1>2, <3>1, <3>2
      <4>2. CASE groups # {} /\ n \in fragments[root]
        BY <1>2, <1>3, <1>6, <4>2
      <4> QED
        BY <4>1, <4>2
    <3>3. CASE y # root
      <4>1. y \in DOMAIN leader /\ leader[y] \in groups /\ n \in fragments[y]
        BY <1>2, <1>3, <1>4, <3>1, <3>3
      <4> QED
        BY <1>6, <4>1
    <3> QED
      BY <3>2, <3>3
  <2>2. New \in Members(root)'
    BY <1>2, <1>7
  <2>3. ASSUME NEW r \in groups, NEW n \in Members(r) PROVE n \in Members(root)'
    <3>1. PICK y \in DOMAIN leader : leader[y] = r /\ n \in fragments[y]
      BY <1>6
    <3>2. leader'[y] = root /\ y \in DOMAIN leader'
      BY <1>2, <3>1
    <3>3. n \in fragments'[y]
      BY <1>2, <3>1
    <3> QED
      BY <1>7, <3>2, <3>3
  <2> QED
    BY <2>1, <2>2, <2>3
<1>9. ASSUME NEW r \in Roots \ groups PROVE Members(r)' = Members(r)
  <2>1. ASSUME NEW n \in Members(r)' PROVE n \in Members(r)
    <3>1. PICK y \in DOMAIN leader' : leader'[y] = r /\ n \in fragments'[y]
      BY <1>7
    <3>2. y # root
      BY <1>2, <1>4, <3>1
    <3>3. y \in DOMAIN leader /\ leader[y] = r /\ n \in fragments[y]
      BY <1>2, <1>4, <3>1, <3>2
    <3> QED
      BY <1>6, <3>3
  <2>2. ASSUME NEW n \in Members(r) PROVE n \in Members(r)'
    <3>1. PICK y \in DOMAIN leader : leader[y] = r /\ n \in fragments[y]
      BY <1>6
    <3>2. y # root
      BY <1>2, <1>3, <3>1
    <3>3. y \in DOMAIN leader' /\ leader'[y] = r /\ n \in fragments'[y]
      BY <1>2, <3>1, <3>2
    <3> QED
      BY <1>7, <3>3
  <2> QED
    BY <2>1, <2>2
<1>10. Grouped'
  <2>1. \A x \in DOMAIN leader' : leader'[leader'[x]] = leader'[x]
    <3> SUFFICES ASSUME NEW x \in DOMAIN leader' PROVE leader'[leader'[x]] = leader'[x]
      OBVIOUS
    <3>1. CASE leader'[x] = root
      BY <1>2, <3>1
    <3>2. CASE leader'[x] # root
      <4>1. x \in DOMAIN leader /\ leader'[x] = leader[x] /\ leader[x] \in Roots \ groups
        BY <1>2, <1>3, <3>2
      <4> QED
        BY <1>2, <1>3, <4>1
    <3> QED
      BY <3>1, <3>2
  <2>2. \A x \in DOMAIN leader' : fragments'[x] # {}
    BY <1>2, <1>3
  <2>3. \A n \in DOMAIN seen' : \E x \in DOMAIN leader' : n \in fragments'[x]
    <3> SUFFICES ASSUME NEW n \in DOMAIN seen' PROVE \E x \in DOMAIN leader' : n \in fragments'[x]
      OBVIOUS
    <3>1. CASE n = New
      BY <1>2, <3>1
    <3>2. CASE n # New
      <4>1. PICK x \in DOMAIN leader : n \in fragments[x]
        BY <1>1, <1>3, <3>2
      <4>2. n \in fragments'[x]
        BY <1>2, <4>1
      <4> QED
        BY <1>2, <4>1, <4>2
    <3> QED
      BY <3>1, <3>2
  <2>4. ASSUME NEW x \in DOMAIN leader', NEW y \in DOMAIN leader', x # y, y # root
        PROVE  fragments'[x] \cap fragments'[y] = {}
    <3>1. y \in DOMAIN leader /\ fragments'[y] = fragments[y] /\ New \notin fragments[y]
      BY <1>1, <1>2, <1>3, <2>4
    <3>2. CASE x = root
      BY <1>2, <1>3, <2>4, <3>1, <3>2
    <3>3. CASE x # root
      BY <1>2, <1>3, <2>4, <3>1, <3>3
    <3> QED
      BY <3>2, <3>3
  <2>5. \A x, y \in DOMAIN leader' : x # y => fragments'[x] \cap fragments'[y] = {}
    BY <2>4
  <2> QED
    BY <2>1, <2>2, <2>3, <2>5 DEF Grouped
<1> QED
  BY <1>1, <1>4, <1>5, <1>8, <1>9, <1>10

(* What the next lemmas are all about.                                      *)
Observed(o, groups, root) ==
    /\ \E s : Placement(o, groups, s)
    /\ Regroups(o, groups, root)

(* The paths are indexed still, and no group has two.                       *)
LEMMA PathsAfter ==
    ASSUME Assumed, IInv, NEW o \in Observation, NEW groups, NEW root,
           Observed(o, groups, root), Shape'
    PROVE  PathsAreIndexed' /\ DifferentPathsStayApart'
<1>1. /\ groups \subseteq Roots
      /\ \A r \in Roots : o.path # NoPath /\ path[r] = o.path => r \in groups
      /\ Regroups(o, groups, root)
  BY DEF Observed, Placement
<1>2. /\ \A r \in Roots \ groups : path'[r] = path[r]
      /\ \A r \in groups : path[r] \in {NoPath, path'[root]}
      /\ o.path # NoPath => path'[root] = o.path
      /\ o.path = NoPath => \/ groups = {} /\ path'[root] = NoPath
                            \/ groups = {root} /\ path'[root] = path[root]
      /\ by_path' = OrInsert(by_path, {o.path} \ {NoPath}, root)
      /\ \A y \in DOMAIN leader : leader'[y] = IF leader[y] \in groups THEN root ELSE leader[y]
      /\ leader'[root] = root
  BY <1>1 DEF Regroups
<1>3. /\ DOMAIN seen' = DOMAIN seen \cup {New} /\ New \notin DOMAIN seen
      /\ seen'[New] = o /\ \A n \in DOMAIN seen : seen'[n] = seen[n]
      /\ Roots' = (Roots \ groups) \cup {root} /\ root \notin Roots \ groups
      /\ Members(root)' = {New} \cup UNION { Members(r) : r \in groups }
      /\ \A r \in Roots \ groups : Members(r)' = Members(r)
  BY <1>1, GroupsAfter
<1>4. /\ DOMAIN leader = 1 .. Len(leader) /\ Len(leader) \in Nat /\ Roots \subseteq DOMAIN leader
      /\ \A x \in DOMAIN leader : leader[x] \in Roots
      /\ \A r \in Roots : Members(r) \subseteq DOMAIN seen
  BY GroupsAre DEF IInv
<1>5. root # NotIndexed
  BY <1>1, <1>4 DEF Regroups, NotIndexed
<1>6. NoPath \notin Paths
  BY DEF Assumed, PathAssumption
<1>7. PathsAreIndexed'
  <2> SUFFICES ASSUME NEW p \in Paths
               PROVE  /\ by_path'[p] = NotIndexed => \A r \in Roots' : path'[r] # p
                      /\ by_path'[p] # NotIndexed =>
                           /\ path'[leader'[by_path'[p]]] = p
                           /\ \A r \in Roots' : path'[r] = p => r = leader'[by_path'[p]]
    BY DEF PathsAreIndexed
  <2>1. by_path'[p] = IF p = o.path /\ by_path[p] = NotIndexed THEN root ELSE by_path[p]
    <3>1. DOMAIN by_path = Paths
      BY DEF IInv, Shape
    <3> QED
      BY <1>2, <1>6, <3>1 DEF OrInsert
  <2>2. CASE by_path[p] = NotIndexed
    <3>1. \A r \in Roots : path[r] # p
      BY <2>2 DEF IInv, PathsAreIndexed
    <3>2. \A r \in Roots' : path'[r] = p => r = root
      BY <1>2, <1>3, <3>1
    <3>3. CASE p = o.path
      BY <1>2, <1>5, <1>6, <2>1, <2>2, <3>2, <3>3
    <3>4. CASE p # o.path
      <4>1. path'[root] # p
        BY <1>1, <1>2, <1>6, <3>1, <3>4
      <4> QED
        BY <2>1, <2>2, <3>2, <3>4, <4>1
    <3> QED
      BY <3>3, <3>4
  <2>3. CASE by_path[p] # NotIndexed
    <3> DEFINE q == leader[by_path[p]]
    <3>1. path[q] = p /\ \A r \in Roots : path[r] = p => r = q
      BY <2>3 DEF IInv, PathsAreIndexed
    <3>2. by_path[p] \in DOMAIN leader /\ q \in Roots
      BY <1>4, <2>3 DEF IInv, Shape
    <3>3. by_path'[p] = by_path[p]
      BY <2>1, <2>3
    <3>4. leader'[by_path[p]] = IF q \in groups THEN root ELSE q
      BY <1>2, <3>2
    <3> HIDE DEF q
    <3>5. path'[leader'[by_path[p]]] = p
      BY <1>2, <1>6, <3>1, <3>2, <3>4
    <3>6. ASSUME NEW r \in Roots', path'[r] = p PROVE r = leader'[by_path[p]]
      <4>1. CASE r \in Roots \ groups
        BY <1>2, <3>1, <3>4, <3>6, <4>1
      <4>2. CASE r = root
        <5>1. q \in groups
          BY <1>1, <1>2, <1>6, <3>1, <3>2, <3>6, <4>2
        <5> QED
          BY <3>4, <4>2, <5>1
      <4> QED
        BY <1>3, <4>1, <4>2
    <3> QED
      BY <2>3, <3>3, <3>5, <3>6
  <2> QED
    BY <2>2, <2>3
<1>8. DifferentPathsStayApart'
  <2>1. ASSUME NEW r \in Roots \ groups PROVE PathsIn(r)' = {path'[r]} \ {NoPath}
    <3>1. \A n \in Members(r) : seen'[n] = seen[n]
      BY <1>3, <1>4
    <3>2. PathsIn(r)' = PathsIn(r)
      BY <1>3, <3>1 DEF PathsIn
    <3> QED
      BY <1>2, <3>2 DEF IInv, DifferentPathsStayApart
  <2>2. PathsIn(root)' = {path'[root]} \ {NoPath}
    <3>1. \A r \in groups : \A n \in Members(r) :
            n \in Members(root)' /\ seen'[n] = seen[n]
      BY <1>1, <1>3, <1>4
    <3>2. \A n \in Members(root)' : n = New \/ \E r \in groups : n \in Members(r)
      BY <1>3
    <3>3. \A r \in groups : PathsIn(r) = {path[r]} \ {NoPath}
      BY <1>1 DEF IInv, DifferentPathsStayApart
    <3>4. ASSUME NEW n \in Members(root)', seen'[n].path # NoPath PROVE seen'[n].path = path'[root]
      <4>1. CASE n = New
        BY <1>2, <1>3, <3>4, <4>1
      <4>2. ASSUME NEW r \in groups, n \in Members(r) PROVE seen'[n].path = path'[root]
        <5>1. seen[n].path = path[r]
          BY <3>1, <3>3, <3>4, <4>2 DEF PathsIn
        <5> QED
          BY <1>2, <3>1, <3>4, <4>2, <5>1
      <4> QED
        BY <3>2, <4>1, <4>2
    <3>5. ASSUME path'[root] # NoPath PROVE \E n \in Members(root)' : seen'[n].path = path'[root]
      <4>1. CASE o.path # NoPath
        BY <1>2, <1>3, <4>1
      <4>2. CASE o.path = NoPath
        <5>1. root \in groups /\ path'[root] = path[root]
          BY <1>2, <3>5, <4>2
        <5>2. path[root] \in PathsIn(root)
          BY <3>3, <3>5, <5>1
        <5>3. PICK n \in Members(root) : seen[n].path = path[root]
          BY <5>2 DEF PathsIn
        <5> QED
          BY <3>1, <5>1, <5>3
      <4> QED
        BY <4>1, <4>2
    <3>6. PathsIn(root)' = { seen'[n].path : n \in Members(root)' } \ {NoPath}
      BY DEF PathsIn
    <3> QED
      BY <3>4, <3>5, <3>6
  <2> QED
    BY <1>3, <2>1, <2>2 DEF DifferentPathsStayApart
<1> QED
  BY <1>7, <1>8

(* So are the digests.                                                      *)
LEMMA DigestsAfter ==
    ASSUME Assumed, IInv, NEW o \in Observation, NEW groups, NEW root,
           Observed(o, groups, root), Shape'
    PROVE  DigestsAreIndexed'
<1>1. groups \subseteq Roots /\ Regroups(o, groups, root)
  BY DEF Observed, Placement
<1>2. /\ by_hash' = OrInsert(by_hash, o.digests, root)
      /\ \A y \in DOMAIN leader : leader'[y] = IF leader[y] \in groups THEN root ELSE leader[y]
      /\ leader'[root] = root
  BY <1>1 DEF Regroups
<1>3. /\ DOMAIN seen' = DOMAIN seen \cup {New}
      /\ seen'[New] = o /\ \A n \in DOMAIN seen : seen'[n] = seen[n]
      /\ Members(root)' = {New} \cup UNION { Members(r) : r \in groups }
      /\ \A r \in Roots \ groups : Members(r)' = Members(r)
  BY <1>1, GroupsAfter
<1>4. /\ \A x \in DOMAIN leader : leader[x] \in Roots
      /\ \A r \in Roots : Members(r) \subseteq DOMAIN seen
  BY GroupsAre DEF IInv
<1>10. root # NotIndexed
  BY <1>1, GroupsAre DEF Regroups, NotIndexed, IInv
<1>5. \A d \in Digest : by_hash'[d] = IF d \in o.digests /\ by_hash[d] = NotIndexed THEN root ELSE by_hash[d]
  <2>1. DOMAIN by_hash = Digest
    BY DEF IInv, Shape
  <2> QED
    BY <1>2, <2>1 DEF OrInsert
<1>6. ASSUME NEW d \in Digest, by_hash'[d] = NotIndexed
      PROVE  \A n \in DOMAIN seen' : d \notin seen'[n].digests
  <2>1. by_hash[d] = NotIndexed /\ d \notin o.digests
    BY <1>5, <1>6, <1>10
  <2> QED
    BY <1>3, <2>1 DEF IInv, DigestsAreIndexed
<1>7. ASSUME NEW d \in Digest, NEW r, by_hash'[d] # NotIndexed, r = leader'[by_hash'[d]]
      PROVE  \E n \in Members(r)' : d \in seen'[n].digests
  <2>1. CASE by_hash[d] = NotIndexed
    <3>1. r = root /\ d \in o.digests
      BY <1>2, <1>5, <1>7, <2>1
    <3> QED
      BY <1>3, <3>1
  <2>2. CASE by_hash[d] # NotIndexed
    <3> DEFINE q == leader[by_hash[d]]
    <3>1. d \in DigestsIn(q) /\ by_hash[d] \in DOMAIN leader /\ by_hash'[d] = by_hash[d]
      BY <1>5, <2>2 DEF IInv, Shape, DigestsAreIndexed
    <3>2. PICK n \in Members(q) : d \in seen[n].digests
      BY <3>1 DEF DigestsIn
    <3>3. q \in Roots /\ seen'[n] = seen[n]
      BY <1>3, <1>4, <3>1, <3>2
    <3>4. r = IF q \in groups THEN root ELSE q
      BY <1>2, <1>7, <3>1
    <3> HIDE DEF q
    <3>5. n \in Members(r)'
      <4>1. CASE q \in groups
        BY <1>3, <3>2, <3>4, <4>1
      <4>2. CASE q \notin groups
        <5>1. r = q /\ q \in Roots \ groups
          BY <3>3, <3>4, <4>2
        <5>2. \A x \in Roots \ groups : Members(x) \subseteq Members(x)'
          BY <1>3
        <5>3. r \in Roots \ groups /\ n \in Members(r)
          BY <3>2, <5>1
        <5> QED
          BY <5>2, <5>3
      <4> QED
        BY <4>1, <4>2
    <3> QED
      BY <3>2, <3>3, <3>5
  <2> QED
    BY <2>1, <2>2
<1>8. ASSUME NEW d \in Digest, by_hash'[d] # NotIndexed
      PROVE  (d \in DigestsIn(leader[by_hash[d]]))'
  <2>1. PICK r : r = leader'[by_hash'[d]]
    OBVIOUS
  <2>2. PICK n \in Members(r)' : d \in seen'[n].digests
    BY <1>7, <1>8, <2>1
  <2>3. PICK x \in DOMAIN leader' : leader'[x] = r /\ n \in fragments'[x]
    BY <2>2 DEF Members
  <2> QED
    BY <2>1, <2>2, <2>3 DEF DigestsIn, Members
<1> QED
  BY <1>6, <1>8 DEF DigestsAreIndexed

(* An observation that a digest brings to a group is of a content there.    *)
LEMMA ContentIsThere ==
    ASSUME Assumed, IInv, NEW o \in Observation, NEW r \in Roots, o.digests \cap DigestsIn(r) # {}
    PROVE  \E n \in Members(r) : /\ n \in DOMAIN seen /\ o.digests \cap seen[n].digests # {}
                                 /\ ContentOf(seen[n]) = ContentOf(o) /\ ContentOf(o) # {}
<1>1. PICK d \in o.digests, n \in Members(r) : d \in seen[n].digests
  BY DEF DigestsIn
<1>2. n \in DOMAIN seen /\ seen[n] \in Observation
  BY GroupsAre DEF IInv, Shape
<1>3. d[2] \in ContentOf(o) /\ d[2] \in ContentOf(seen[n])
  BY <1>1 DEF ContentOf
<1> QED
  BY <1>1, <1>2, <1>3, ContentIsShared

(* A group nobody has named holds one content still, all there is of it.    *)
LEMMA ContentsAfter ==
    ASSUME Assumed, IInv, NEW o \in Observation, NEW groups, NEW root,
           Observed(o, groups, root), Shape'
    PROVE  ContentsAreTogether'
<1>1. /\ groups \subseteq Roots /\ \A r \in groups : Fits(o, r)
      /\ \A r \in Roots : path[r] = NoPath /\ o.digests \cap DigestsIn(r) # {} => r \in groups
      /\ groups = {} /\ o.path = NoPath => \A d \in o.digests : by_hash[d] = NotIndexed
      /\ Regroups(o, groups, root)
  BY DEF Observed, Placement
<1>2. /\ \A r \in Roots \ groups : path'[r] = path[r]
      /\ o.path # NoPath => path'[root] = o.path
      /\ o.path = NoPath => \/ groups = {} /\ path'[root] = NoPath
                            \/ groups = {root} /\ path'[root] = path[root]
  BY <1>1 DEF Regroups
<1>3. /\ DOMAIN seen' = DOMAIN seen \cup {New} /\ New \notin DOMAIN seen
      /\ seen'[New] = o /\ \A n \in DOMAIN seen : seen'[n] = seen[n]
      /\ Roots' = (Roots \ groups) \cup {root}
      /\ Members(root)' = {New} \cup UNION { Members(r) : r \in groups }
      /\ \A r \in Roots \ groups : Members(r)' = Members(r)
  BY <1>1, GroupsAfter
<1>4. /\ \A r \in Roots : Members(r) # {} /\ Members(r) \subseteq DOMAIN seen
      /\ \A n \in DOMAIN seen : seen[n] \in Observation
  BY GroupsAre DEF IInv, Shape
<1>5. \A c, n : n \in DOMAIN seen' => (c \in ContentOf(seen'[n]) <=> \E d \in seen'[n].digests : c = d[2])
  BY DEF ContentOf
<1>6. /\ Placed \subseteq Placed'
      /\ o.path # NoPath => ContentOf(o) \subseteq Placed'
  BY <1>3 DEF Placed
<1>7. ASSUME NEW r \in Roots \ groups
      PROVE  IF path'[r] = NoPath THEN \E c \in Contents : Holds(r, c)'
             ELSE \A n \in Members(r)' : ContentOf(seen'[n]) \subseteq Placed'
  <2>1. path'[r] = path[r] /\ Members(r)' = Members(r) /\ \A n \in Members(r) : seen'[n] = seen[n]
    BY <1>2, <1>3, <1>4
  <2>2. CASE path[r] = NoPath
    <3>1. PICK c \in Contents : Holds(r, c)
      BY <2>2 DEF IInv, ContentsAreTogether
    <3>2. c \notin ContentOf(o)
      <4> SUFFICES ASSUME c \in ContentOf(o) PROVE FALSE
        OBVIOUS
      <4>1. PICK n \in Members(r) : n \in DOMAIN seen /\ ContentOf(seen[n]) = {c}
        BY <1>4, <3>1 DEF Holds
      <4>2. o.digests \cap seen[n].digests # {}
        BY <1>4, <4>1, ContentIsShared
      <4>3. o.digests \cap DigestsIn(r) # {}
        BY <4>2 DEF DigestsIn
      <4> QED
        BY <1>1, <2>2, <4>3
    <3>3. \A n \in DOMAIN seen' : c \in ContentOf(seen'[n]) => n \in Members(r)'
      BY <1>3, <2>1, <3>1, <3>2 DEF Holds
    <3>4. \A n \in Members(r)' : ContentOf(seen'[n]) = {c}
      BY <2>1, <3>1 DEF Holds
    <3> QED
      BY <2>1, <2>2, <3>3, <3>4 DEF Holds
  <2>3. CASE path[r] # NoPath
    BY <1>6, <2>1, <2>3 DEF IInv, ContentsAreTogether
  <2> QED
    BY <2>2, <2>3
<1>8. ASSUME path'[root] = NoPath PROVE \E c \in Contents : Holds(root, c)'
  <2>1. o.path = NoPath
    BY <1>2, <1>8
  <2>2. PICK c \in Contents : ContentOf(o) = {c}
    BY <2>1, DigestsAre
  <2>3. CASE groups = {}
    <3>1. Members(root)' = {New}
      BY <1>3, <2>3
    <3>2. ASSUME NEW n \in DOMAIN seen PROVE c \notin ContentOf(seen[n])
      <4> SUFFICES ASSUME c \in ContentOf(seen[n]) PROVE FALSE
        OBVIOUS
      <4>1. PICK d \in o.digests : d \in seen[n].digests
        BY <1>4, <2>2, ContentIsShared
      <4>2. d \in Digest
        BY DigestsAre
      <4> QED
        BY <1>1, <2>1, <2>3, <4>1, <4>2 DEF IInv, DigestsAreIndexed
    <3>3. \A n \in DOMAIN seen' : c \in ContentOf(seen'[n]) => n \in Members(root)'
      BY <1>3, <3>1, <3>2
    <3>4. \A n \in Members(root)' : ContentOf(seen'[n]) = {c}
      BY <1>3, <2>2, <3>1
    <3> QED
      BY <3>3, <3>4 DEF Holds
  <2>4. CASE groups = {root}
    <3>1. root \in Roots /\ Fits(o, root)
      BY <1>1, <2>4
    <3>2. path[root] = NoPath
      BY <1>2, <1>8, <2>1, <2>4
    <3>3. o.digests \cap DigestsIn(root) # {}
      BY <2>1, <3>1 DEF Fits
    <3>4. PICK b \in Contents : Holds(root, b)
      BY <3>1, <3>2 DEF IInv, ContentsAreTogether
    <3>5. b = c
      BY <2>2, <3>1, <3>3, <3>4, ContentIsThere DEF Holds
    <3>6. Members(root)' = {New} \cup Members(root)
      BY <1>3, <2>4
    <3>7. \A n \in DOMAIN seen' : c \in ContentOf(seen'[n]) => n \in Members(root)'
      BY <1>3, <3>4, <3>5, <3>6 DEF Holds
    <3>8. \A n \in Members(root)' : ContentOf(seen'[n]) = {c}
      BY <1>3, <1>4, <2>2, <3>1, <3>4, <3>5, <3>6 DEF Holds
    <3> QED
      BY <3>7, <3>8 DEF Holds
  <2> QED
    BY <1>2, <2>1, <2>3, <2>4
<1>9. ASSUME path'[root] # NoPath, NEW n \in Members(root)'
      PROVE  ContentOf(seen'[n]) \subseteq Placed'
  <2>1. CASE n = New
    <3>1. CASE o.path # NoPath
      BY <1>3, <1>6, <2>1, <3>1
    <3>2. CASE o.path = NoPath
      <4>1. root \in groups /\ root \in Roots /\ path[root] # NoPath
        BY <1>1, <1>2, <1>9, <3>2
      <4>2. o.digests \cap DigestsIn(root) # {}
        BY <1>1, <3>2, <4>1 DEF Fits
      <4>3. PICK m \in Members(root) : ContentOf(seen[m]) = ContentOf(o)
        BY <4>1, <4>2, ContentIsThere
      <4>4. ContentOf(seen[m]) \subseteq Placed
        BY <4>1 DEF IInv, ContentsAreTogether
      <4> QED
        BY <1>3, <1>6, <2>1, <4>3, <4>4
    <3> QED
      BY <3>1, <3>2
  <2>2. ASSUME NEW r \in groups, n \in Members(r) PROVE ContentOf(seen'[n]) \subseteq Placed'
    <3>1. r \in Roots /\ Fits(o, r) /\ seen'[n] = seen[n]
      BY <1>1, <1>3, <1>4, <2>2
    <3>2. CASE path[r] # NoPath
      <4>1. ContentOf(seen[n]) \subseteq Placed
        BY <2>2, <3>1, <3>2 DEF IInv, ContentsAreTogether
      <4> QED
        BY <1>6, <3>1, <4>1
    <3>3. CASE path[r] = NoPath
      <4>1. o.path # NoPath
        BY <1>2, <1>9, <3>3
      <4>2. o.digests \cap DigestsIn(r) # {}
        BY <3>1, <3>3, <4>1 DEF Fits
      <4>3. PICK c \in Contents : Holds(r, c)
        BY <3>1, <3>3 DEF IInv, ContentsAreTogether
      <4>4. ContentOf(o) = {c}
        BY <3>1, <4>2, <4>3, ContentIsThere DEF Holds
      <4>5. ContentOf(seen[n]) = {c}
        BY <2>2, <4>3 DEF Holds
      <4> QED
        BY <1>6, <3>1, <4>1, <4>4, <4>5
    <3> QED
      BY <3>2, <3>3
  <2> QED
    BY <1>3, <2>1, <2>2
<1> QED
  BY <1>3, <1>7, <1>8, <1>9 DEF ContentsAreTogether

(* A group that grew is held together by what it was joined on.             *)
LEMMA ResemblanceAfter ==
    ASSUME Assumed, IInv, NEW o \in Observation, NEW groups, NEW root,
           Observed(o, groups, root), Shape'
    PROVE  NothingIsMergedOnResemblance'
<1>1. /\ groups \subseteq Roots /\ \A r \in groups : Fits(o, r)
      /\ Regroups(o, groups, root)
  BY DEF Observed, Placement
<1>2. /\ DOMAIN seen' = DOMAIN seen \cup {New} /\ New \notin DOMAIN seen
      /\ seen'[New] = o /\ \A n \in DOMAIN seen : seen'[n] = seen[n]
      /\ Roots' = (Roots \ groups) \cup {root}
      /\ Members(root)' = {New} \cup UNION { Members(r) : r \in groups }
      /\ \A r \in Roots \ groups : Members(r)' = Members(r)
  BY <1>1, GroupsAfter
<1>3. \A r \in Roots : Members(r) \subseteq DOMAIN seen
  BY GroupsAre DEF IInv
<1>4. ASSUME NEW r \in Roots, NEW some \in SUBSET Members(r), some # {}, some # Members(r)
      PROVE  \E n \in some, m \in Members(r) \ some : Share(seen[n], seen[m])
  BY <1>4 DEF IInv, NothingIsMergedOnResemblance
<1>5. \A q, t : Share(q, t) <=> Share(t, q)
  BY DEF Share
<1>6. ASSUME NEW r \in groups PROVE \E m \in Members(r) : Share(o, seen[m])
  <2>1. CASE o.path # NoPath /\ path[r] = o.path
    <3>1. path[r] \in PathsIn(r)
      BY <1>1, <2>1 DEF IInv, DifferentPathsStayApart
    <3> QED
      BY <2>1, <3>1 DEF PathsIn, Share
  <2>2. CASE o.digests \cap DigestsIn(r) # {}
    BY <2>2 DEF DigestsIn, Share
  <2> QED
    BY <1>1, <2>1, <2>2 DEF Fits
<1>7. ASSUME NEW r \in Roots \ groups, NEW some \in SUBSET Members(r)', some # {}, some # Members(r)'
      PROVE  \E n \in some, m \in Members(r)' \ some : Share(seen'[n], seen'[m])
  <2>1. Members(r)' = Members(r) /\ \A n \in Members(r) : seen'[n] = seen[n]
    BY <1>2, <1>3
  <2>2. PICK n \in some, m \in Members(r) \ some : Share(seen[n], seen[m])
    BY <1>4, <1>7, <2>1
  <2> QED
    BY <2>1, <2>2
<1>8. ASSUME NEW some \in SUBSET Members(root)', some # {}, some # Members(root)'
      PROVE  \E n \in some, m \in Members(root)' \ some : Share(seen'[n], seen'[m])
  <2> SUFFICES ASSUME \A n \in some, m \in Members(root)' \ some : ~ Share(seen'[n], seen'[m])
               PROVE  FALSE
    OBVIOUS
  <2>1. \A r \in groups : \A n \in Members(r) : n \in Members(root)' /\ seen'[n] = seen[n]
    BY <1>1, <1>2, <1>3
  <2>2. ASSUME NEW r \in groups PROVE some \cap Members(r) \in {{}, Members(r)}
    <3> DEFINE here == some \cap Members(r)
    <3> SUFFICES ASSUME here # {}, here # Members(r) PROVE FALSE
      OBVIOUS
    <3>1. r \in Roots /\ here \in SUBSET Members(r)
      BY <1>1
    <3> HIDE DEF here
    <3>2. PICK n \in here, m \in Members(r) \ here : Share(seen[n], seen[m])
      BY <1>4, <3>1
    <3>3. n \in some /\ n \in Members(r) /\ m \in Members(root)' \ some
      BY <2>1, <3>2 DEF here
    <3> QED
      BY <2>1, <3>2, <3>3
  <2>3. ASSUME NEW r \in groups PROVE Members(r) \subseteq some <=> New \in some
    <3>1. PICK m \in Members(r) : Share(o, seen[m])
      BY <1>6
    <3>2. Share(seen'[New], seen'[m]) /\ Share(seen'[m], seen'[New])
      BY <1>2, <1>5, <2>1, <3>1
    <3>3. New \in Members(root)' /\ m \in Members(root)'
      BY <1>2, <2>1
    <3>4. m \in some <=> New \in some
      BY <3>2, <3>3
    <3>5. m \in some <=> Members(r) \subseteq some
      BY <2>2, <3>1
    <3> QED
      BY <3>4, <3>5
  <2>4. CASE New \in some
    <3>1. Members(root)' \subseteq some
      BY <1>2, <2>3, <2>4
    <3> QED
      BY <1>8, <3>1
  <2>5. CASE New \notin some
    <3>1. \A r \in groups : some \cap Members(r) = {}
      BY <2>2, <2>3, <2>5
    <3>2. some = {}
      BY <1>2, <2>5, <3>1
    <3> QED
      BY <1>8, <3>2
  <2> QED
    BY <2>4, <2>5
<1> SUFFICES ASSUME NEW r \in Roots', NEW some \in SUBSET Members(r)', some \notin {{}, Members(r)'}
             PROVE  \E n \in some, m \in Members(r)' \ some : Share(seen'[n], seen'[m])
  BY DEF NothingIsMergedOnResemblance
<1> QED
  BY <1>2, <1>7, <1>8

(* One observation.                                                         *)
LEMMA ObserveKeeps ==
    ASSUME Assumed, IInv, NEW o \in Observation, Observe(o) PROVE IInv'
<1>1. PICK groups : Placement(o, groups, Place(o))
  BY PlaceIs
<1>2. PICK root : root = Place(o).joined
  OBVIOUS
<1>3. Regroups(o, groups, root) /\ Shape'
  BY <1>1, <1>2, ObserveIs
<1>4. Observed(o, groups, root) /\ groups \subseteq Roots
  BY <1>1, <1>3 DEF Observed, Placement
<1>5. Grouped'
  BY <1>3, <1>4, GroupsAfter
<1> QED
  BY <1>3, <1>4, <1>5, PathsAfter, DigestsAfter, ContentsAfter, ResemblanceAfter DEF IInv

(* Before the first.                                                        *)
LEMMA InitHolds == Assumed /\ Init => IInv
<1> SUFFICES ASSUME Assumed, Init PROVE IInv
  OBVIOUS
<1>1. seen = << >> /\ leader = << >> /\ path = << >> /\ fragments = << >>
  BY DEF Init
<1>2. Roots = {}
  BY <1>1 DEF Roots
<1>3. Shape
  BY <1>1 DEF Shape, Init
<1>4. Grouped
  BY <1>1 DEF Grouped
<1>5. PathsAreIndexed
  BY <1>2 DEF PathsAreIndexed, Init
<1>6. DigestsAreIndexed
  BY <1>1 DEF DigestsAreIndexed, Init
<1> QED
  BY <1>2, <1>3, <1>4, <1>5, <1>6
     DEF IInv, ContentsAreTogether, DifferentPathsStayApart, NothingIsMergedOnResemblance

(* Nothing observed.                                                        *)
LEMMA StutterKeeps == IInv /\ UNCHANGED vars => IInv'
<1> SUFFICES ASSUME IInv, UNCHANGED vars PROVE IInv'
  OBVIOUS
<1>1. UNCHANGED << seen, leader, path, by_path, by_hash, fragments >>
  BY DEF vars
<1>2. Roots' = Roots /\ Placed' = Placed /\ \A r : Members(r)' = Members(r)
  BY <1>1 DEF Roots, Placed, Members
<1>3. \A r : PathsIn(r)' = PathsIn(r) /\ DigestsIn(r)' = DigestsIn(r)
  BY <1>1, <1>2 DEF PathsIn, DigestsIn
<1>4. Shape' /\ Grouped' /\ PathsAreIndexed'
  BY <1>1, <1>2 DEF IInv, Shape, Grouped, PathsAreIndexed
<1>5. DigestsAreIndexed'
  BY <1>1 DEF IInv, DigestsAreIndexed, DigestsIn, Members
<1>6. ContentsAreTogether'
  <2>1. \A r, c : Holds(r, c)' <=> Holds(r, c)
    BY <1>1, <1>2 DEF Holds
  <2> QED
    BY <1>1, <1>2, <2>1 DEF IInv, ContentsAreTogether
<1>7. DifferentPathsStayApart' /\ NothingIsMergedOnResemblance'
  BY <1>1, <1>2, <1>3 DEF IInv, DifferentPathsStayApart, NothingIsMergedOnResemblance
<1> QED
  BY <1>4, <1>5, <1>6, <1>7 DEF IInv

(* A step of build.                                                         *)
LEMMA NextKeeps == Assumed /\ IInv /\ [Next]_vars => IInv'
<1> SUFFICES ASSUME Assumed, IInv, [Next]_vars PROVE IInv'
  OBVIOUS
<1>1. CASE Next
  BY <1>1, ObserveKeeps DEF Next
<1>2. CASE UNCHANGED vars
  BY <1>2, StutterKeeps
<1> QED
  BY <1>1, <1>2

-----------------------------------------------------------------------------
(* The groups with a path are as many as the paths, the others as contents. *)
LEMMA SplitIs == Assumed /\ IInv => TheSplitIsTheSameInAnyOrder
<1> SUFFICES ASSUME Assumed, IInv
             PROVE  Cardinality(Roots) = Cardinality(PathsSeen) + Cardinality(ContentsSeen \ Placed)
  BY DEF TheSplitIsTheSameInAnyOrder, IInv
<1> DEFINE Named == { r \in Roots : path[r] # NoPath }
           Nameless == { r \in Roots : path[r] = NoPath }
<1>1. /\ DOMAIN leader = 1 .. Len(leader) /\ Len(leader) \in Nat /\ Roots \subseteq DOMAIN leader
      /\ \A r \in Roots : Members(r) # {} /\ Members(r) \subseteq DOMAIN seen
      /\ \A n \in DOMAIN seen : \E r \in Roots : n \in Members(r)
      /\ \A r, x \in Roots : r # x => Members(r) \cap Members(x) = {}
  BY GroupsAre DEF IInv
<1>2. \A r \in Roots : path[r] \in Paths \cup {NoPath} /\ PathsIn(r) = {path[r]} \ {NoPath}
  BY <1>1 DEF IInv, Shape, DifferentPathsStayApart
<1>3. IsFiniteSet(Roots)
  <2>1. \A n \in Nat : IsFiniteSet(1 .. n)
    BY FS_Interval
  <2> QED
    BY <1>1, <2>1, FS_Subset
<1>4. IsFiniteSet(Named) /\ IsFiniteSet(Nameless)
  BY <1>3, FS_Subset
<1>5. Cardinality(Named) = Cardinality(PathsSeen)
  <2> DEFINE f == [r \in Named |-> path[r]]
  <2>1. \A r \in Named : f[r] \in PathsSeen
    <3> SUFFICES ASSUME NEW r \in Named PROVE path[r] \in PathsSeen
      OBVIOUS
    <3>1. path[r] \in PathsIn(r)
      BY <1>2
    <3> QED
      BY <1>1, <3>1 DEF PathsIn, PathsSeen
  <2>2. \A r, x \in Named : f[r] = f[x] => r = x
    BY <1>2 DEF IInv, PathsAreIndexed
  <2>3. ASSUME NEW p \in PathsSeen PROVE \E r \in Named : f[r] = p
    <3>1. PICK n \in DOMAIN seen : seen[n].path = p /\ p # NoPath
      BY DEF PathsSeen
    <3>2. PICK r \in Roots : n \in Members(r)
      BY <1>1
    <3>3. p \in PathsIn(r)
      BY <3>1, <3>2 DEF PathsIn
    <3> QED
      BY <1>2, <3>1, <3>3
  <2>4. f \in Bijection(Named, PathsSeen)
    <3> HIDE DEF Named
    <3> QED
      BY <2>1, <2>2, <2>3 DEF Bijection, Injection, Surjection, IsInjective
  <2> HIDE DEF f, Named
  <2> QED
    BY <1>4, <2>4, FS_Bijection DEF ExistsBijection
<1>6. Cardinality(Nameless) = Cardinality(ContentsSeen \ Placed)
  <2> DEFINE g == [r \in Nameless |-> CHOOSE c \in Contents : Holds(r, c)]
  <2>1. \A r \in Nameless : g[r] \in Contents /\ Holds(r, g[r])
    BY DEF IInv, ContentsAreTogether
  <2> HIDE DEF g
  <2>2. ASSUME NEW r \in Nameless PROVE g[r] \in ContentsSeen \ Placed
    <3>1. PICK n \in Members(r) : n \in DOMAIN seen
      BY <1>1
    <3>2. ContentOf(seen[n]) = {g[r]}
      BY <2>1 DEF Holds
    <3>3. g[r] \in ContentsSeen
      BY <3>1, <3>2 DEF ContentsSeen
    <3>4. ASSUME NEW m \in DOMAIN seen, seen[m].path # NoPath PROVE g[r] \notin ContentOf(seen[m])
      <4> SUFFICES ASSUME g[r] \in ContentOf(seen[m]) PROVE FALSE
        OBVIOUS
      <4>1. m \in Members(r)
        BY <2>1 DEF Holds
      <4>2. seen[m].path \in PathsIn(r)
        BY <3>4, <4>1 DEF PathsIn
      <4> QED
        BY <1>2, <4>2
    <3> QED
      BY <3>3, <3>4 DEF Placed
  <2>3. ASSUME NEW r \in Nameless, NEW x \in Nameless, g[r] = g[x] PROVE r = x
    <3>1. PICK n \in Members(r) : n \in DOMAIN seen
      BY <1>1
    <3>2. g[r] \in ContentOf(seen[n])
      BY <2>1 DEF Holds
    <3>3. n \in Members(x)
      BY <2>1, <2>3, <3>1, <3>2 DEF Holds
    <3> QED
      BY <1>1, <3>1, <3>3
  <2>4. ASSUME NEW c \in ContentsSeen \ Placed PROVE \E r \in Nameless : g[r] = c
    <3>1. PICK n \in DOMAIN seen : c \in ContentOf(seen[n])
      BY DEF ContentsSeen
    <3>2. PICK r \in Roots : n \in Members(r)
      BY <1>1
    <3>3. path[r] = NoPath
      BY <3>1, <3>2 DEF IInv, ContentsAreTogether
    <3>4. ContentOf(seen[n]) = {g[r]}
      BY <2>1, <3>2, <3>3 DEF Holds
    <3> QED
      BY <3>1, <3>2, <3>3, <3>4
  <2>5. DOMAIN g = Nameless /\ g = [r \in Nameless |-> g[r]]
    BY DEF g
  <2>6. g \in Bijection(Nameless, ContentsSeen \ Placed)
    <3> HIDE DEF Nameless
    <3> QED
      BY <2>2, <2>3, <2>4, <2>5 DEF Bijection, Injection, Surjection, IsInjective
  <2> HIDE DEF Nameless
  <2> QED
    BY <1>4, <2>6, FS_Bijection DEF ExistsBijection
<1>7. Roots = Named \cup Nameless /\ Named \cap Nameless = {}
  OBVIOUS
<1> HIDE DEF Named, Nameless
<1>8. Cardinality(Named \cup Nameless) = Cardinality(Named) + Cardinality(Nameless) - Cardinality(Named \cap Nameless)
  BY <1>4, FS_Union
<1>9. Cardinality(Named \cap Nameless) = 0
  BY <1>7, FS_EmptySet
<1>10. Cardinality(Named) \in Nat /\ Cardinality(Nameless) \in Nat
  BY <1>4, FS_CardinalityType
<1> QED
  BY <1>5, <1>6, <1>7, <1>8, <1>9, <1>10

-----------------------------------------------------------------------------
(* So it is always.                                                         *)
LEMMA IInvHolds == ASSUME Assumed PROVE Spec => []IInv
  BY InitHolds, NextKeeps, PTL DEF Spec

(* build (graph.rs): the sets and the indexes have their types, and a merge *)
(* loses no observation.                                                    *)
THEOREM TypeCorrect == ASSUME Assumed PROVE Spec => []TypeOK
<1>1. IInv => TypeOK
  BY DEF IInv, Shape, Grouped, TypeOK
<1> QED
  BY <1>1, IInvHolds, PTL

(* build: a digest joins only fragments that have it, so that a candidate   *)
(* never falls apart into observations with no path and no digest in common.*)
THEOREM ResemblanceCorrect == ASSUME Assumed PROVE Spec => []NothingIsMergedOnResemblance
<1>1. IInv => NothingIsMergedOnResemblance
  BY DEF IInv
<1> QED
  BY <1>1, IInvHolds, PTL

(* build: whatever order the artifacts were read in, there is one candidate *)
(* for each path and one for each content no path has, and no candidate     *)
(* holds two paths.                                                         *)
THEOREM SplitCorrect == ASSUME Assumed PROVE Spec => []TheSplitIsTheSameInAnyOrder
  BY IInvHolds, SplitIs, PTL
=============================================================================
