--------------------------- MODULE CandidateGraph ---------------------------
(***************************************************************************)
(* mm-score/graph.rs, build: the observations of every artifact, in the     *)
(* order they were harvested, are grouped into candidates.  A path is an    *)
(* identity; a digest is a hint that joins a fragment nobody has named to   *)
(* one that carries the digest, and must never join two files.             *)
(*                                                                         *)
(* A digest is a pair of an algorithm and the content it is of.  DigestSets *)
(* names which algorithms one artifact records together: SHA-1 alone        *)
(* (Amcache) or all of them (a quarantined payload).  `leader` is the       *)
(* DisjointSet with every find() already followed to its root, so that path *)
(* halving, which changes no root, does not show.                           *)
(***************************************************************************)
EXTENDS Naturals, Sequences, FiniteSets

CONSTANTS
    Paths,              \* normalized path keys
    NoPath,
    Contents,           \* what a file can hold
    Algorithms,         \* the order hash_keys lists them in
    DigestSets,         \* the algorithms an artifact can record together
    MaxObservations

PathAssumption == NoPath \notin Paths
Algorithm == { Algorithms[i] : i \in DOMAIN Algorithms }
AlgorithmAssumption == Algorithms \in Seq(Algorithm)
DigestAssumption == DigestSets \subseteq (SUBSET Algorithm) \ {{}}

(* Every harvester that records a digest records the SHA-1 among others:    *)
(* two artifacts that saw one content have a digest in common.              *)
SharedAlgorithmAssumption == \A a, b \in DigestSets : a \cap b # {}

VARIABLES
    seen,       \* the observations so far
    leader,     \* DisjointSet.parent, followed to the root
    path,       \* DisjointSet.path: the path a root is committed to
    by_path,
    by_hash,
    fragments   \* the observations each fragment was given

vars == << seen, leader, path, by_path, by_hash, fragments >>

Digest == Algorithm \X Contents
NotIndexed == 0

(* identifies_something: an observation names a path, a digest, or both.    *)
Hashless == [path : Paths, digests : {{}}]
Hashed == [path : Paths \cup {NoPath},
           digests : { algs \X {c} : algs \in DigestSets, c \in Contents }]
Observation == Hashless \cup Hashed

(* hash_keys: the digest of one algorithm, if the observation has one.      *)
HashKeys(o, algorithm) == { key \in o.digests : key[1] = algorithm }

Init ==
    /\ seen = << >>
    /\ leader = << >>
    /\ path = << >>
    /\ by_path = [p \in Paths |-> NotIndexed]
    /\ by_hash = [d \in Digest |-> NotIndexed]
    /\ fragments = << >>

-----------------------------------------------------------------------------
(* The sets while one observation is placed: s.joined is the fragment it    *)
(* belongs to so far, or NotIndexed.                                        *)
Sets == [joined |-> NotIndexed, leader |-> leader, path |-> path]
PathOf(s, x) == s.path[s.leader[x]]

Union(s, a, b) ==
    LET ra == s.leader[a]  rb == s.leader[b]
    IN [joined |-> ra,
        leader |-> [x \in DOMAIN s.leader |->
                      IF s.leader[x] = rb THEN ra ELSE s.leader[x]],
        path   |-> [s.path EXCEPT ![ra] = IF @ = NoPath THEN s.path[rb] ELSE @]]

(* Fault: a digest joins whatever it matches.                               *)
NoConflict(mine, theirs) == FALSE

Conflict(mine, theirs) == mine # NoPath /\ theirs # NoPath /\ mine # theirs

(* One digest of the observation: the fragment that first carried it is     *)
(* joined, unless both sides are already committed to different paths.      *)
JoinDigest(o, s, key) ==
    LET root == s.leader[by_hash[key]]
        mine == IF s.joined = NotIndexed THEN o.path ELSE PathOf(s, s.joined)
    IN IF by_hash[key] = NotIndexed THEN s
       ELSE IF Conflict(mine, s.path[root]) THEN s
       ELSE IF s.joined = NotIndexed THEN [s EXCEPT !.joined = root]
       ELSE Union(s, s.joined, root)

(* Fault: observations without a path are taken for one file.               *)
JoinNameless(o) ==
    IF \E x \in DOMAIN leader : path[leader[x]] = o.path
    THEN [Sets EXCEPT !.joined =
            leader[CHOOSE x \in DOMAIN leader : path[leader[x]] = o.path]]
    ELSE Sets

JoinPath(o) ==
    IF o.path # NoPath /\ by_path[o.path] # NotIndexed
    THEN [Sets EXCEPT !.joined = leader[by_path[o.path]]]
    ELSE Sets

(* sets.make(), for an observation nothing claimed.                         *)
Make(s) ==
    LET id == Len(s.leader) + 1
    IN [joined |-> id, leader |-> Append(s.leader, id), path |-> Append(s.path, NoPath)]

(* The loop over the digests: the sets when so many algorithms are done.    *)
JoinDigests(o) ==
    LET sets[n \in 0 .. Len(Algorithms)] ==
          IF n = 0 THEN JoinPath(o)
          ELSE IF HashKeys(o, Algorithms[n]) = {} THEN sets[n - 1]
          ELSE JoinDigest(o, sets[n - 1], CHOOSE key \in HashKeys(o, Algorithms[n]) : TRUE)
    IN sets

Place(o) ==
    LET s == JoinDigests(o)[Len(Algorithms)]
    IN IF s.joined = NotIndexed THEN Make(s) ELSE s

(* commit_path: a root is committed to the first path it is given.          *)
CommitPath(s, p) == [s.path EXCEPT ![s.joined] = IF @ = NoPath THEN p ELSE @]

(* entry(key).or_insert(root)                                               *)
OrInsert(index, keys, root) ==
    [k \in DOMAIN index |-> IF k \in keys /\ index[k] = NotIndexed THEN root ELSE index[k]]

Push(sets, root) == [sets EXCEPT ![root] = @ \cup {Len(seen) + 1}]

Observe(o) ==
    LET s == Place(o)
        sets == IF Len(s.leader) > Len(fragments) THEN Append(fragments, {}) ELSE fragments
    IN /\ seen' = Append(seen, o)
       /\ leader' = s.leader
       /\ path' = CommitPath(s, o.path)
       /\ by_path' = OrInsert(by_path, {o.path} \ {NoPath}, s.joined)
       /\ by_hash' = OrInsert(by_hash, o.digests, s.joined)
       /\ fragments' = Push(sets, s.joined)

Next == Len(seen) < MaxObservations /\ \E o \in Observation : Observe(o)

Spec == Init /\ [][Next]_vars

-----------------------------------------------------------------------------
(* The candidates build() returns if the observations end here: fragments   *)
(* under one root.                                                          *)
Roots == { leader[x] : x \in DOMAIN leader }
Members(root) == UNION { fragments[x] : x \in { y \in DOMAIN leader : leader[y] = root } }
PathsIn(root) == { seen[n].path : n \in Members(root) } \ {NoPath}
DigestsIn(root) == UNION { seen[n].digests : n \in Members(root) }

(* The sets and both indexes have their types, and every observation is in  *)
(* exactly one candidate: a merge loses none.                               *)
TypeOK ==
    /\ seen \in Seq(Observation)
    /\ leader \in Seq(DOMAIN leader)
    /\ path \in Seq(Paths \cup {NoPath})
    /\ by_path \in [Paths -> DOMAIN leader \cup {NotIndexed}]
    /\ by_hash \in [Digest -> DOMAIN leader \cup {NotIndexed}]
    /\ \A n \in DOMAIN seen : \E x \in DOMAIN fragments : n \in fragments[x]

(* Two observations share a candidate only if a chain of shared paths and   *)
(* digests inside it leads from one to the other: no group falls apart.     *)
Share(o1, o2) ==
    \/ o1.path = o2.path /\ o1.path # NoPath
    \/ o1.digests \cap o2.digests # {}
NothingIsMergedOnResemblance ==
    \A r \in Roots : \A part \in SUBSET Members(r) :
        part \notin {{}, Members(r)} =>
            \E n \in part, m \in Members(r) \ part : Share(seen[n], seen[m])

(* However digests are shared, no candidate holds observations of two       *)
(* paths, and it goes by its own.                                           *)
DifferentPathsStayApart ==
    \A r \in Roots : PathsIn(r) = {path[r]} \ {NoPath}

(* Content equality is not file identity, and what the candidates are does  *)
(* not depend on the order the artifacts were read in: one for each path,   *)
(* and one for each content no path has.                                    *)
ContentOf(o) == { d[2] : d \in o.digests }
PathsSeen == { seen[n].path : n \in DOMAIN seen } \ {NoPath}
ContentsSeen == UNION { ContentOf(seen[n]) : n \in DOMAIN seen }
Placed == UNION { ContentOf(seen[n]) : n \in { m \in DOMAIN seen : seen[m].path # NoPath } }
TheSplitIsTheSameInAnyOrder ==
    /\ DifferentPathsStayApart
    /\ Cardinality(Roots) = Cardinality(PathsSeen) + Cardinality(ContentsSeen \ Placed)
=============================================================================
