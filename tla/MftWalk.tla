------------------------------ MODULE MftWalk ------------------------------
(***************************************************************************)
(* mm-harvest/filesystem.rs, enumerate_with_progress: the $MFT is read      *)
(* record by record and every file, live or deleted, is given the path its  *)
(* names lead to.  A name states the record of its directory and that       *)
(* record's sequence number, and a record may have gone to another file     *)
(* since: a name that means a directory which is gone has to lead nowhere.  *)
(*                                                                         *)
(* NTFS is external: a file or directory takes a free record, moves, gains  *)
(* links, and leaves its record, which keeps what was in it and the next    *)
(* sequence number.  The volume does not change under the walk.  Which of a *)
(* file's names comes first is left open: namespaces are left out, and so   *)
(* are the short names they hide; the name of a record is its number.  A    *)
(* record whose names cannot be had, from itself or the records it spilled  *)
(* into, is damaged.                                                        *)
(***************************************************************************)
EXTENDS Integers, Sequences, FiniteSets, SequencesExt

CONSTANTS
    LastRecord,         \* the records are 1..LastRecord, in the order they are read
    MaxDepth,           \* MAX_PATH_DEPTH
    MaxSequence         \* bound: how often a record is used again

VARIABLES
    mft,
    damaged,            \* records that cannot be read, or whose name cannot
    phase,
    index,              \* the entry of every record that has a name
    checked,            \* stats.sequence_check_applied
    next,               \* the record to resolve
    cache,              \* resolved_dirs
    placed,             \* on_file: << record, its name, the path >>
    unresolved,         \* live and deleted files without any path
    lost                \* lost_by_parent, and what explain_lost makes of each

BoundAssumption == LastRecord \in Nat /\ MaxDepth \in Nat /\ MaxSequence \in Nat

volume == << mft, damaged >>
vars == << volume, phase, index, checked, next, cache, placed, unresolved, lost >>

Root == 0
RecordNumbers == 1 .. LastRecord
RootSequence == 5
Unused == [seq |-> 1, in_use |-> FALSE, dir |-> FALSE, links |-> << >>]
Directories == {Root} \cup RecordNumbers
Sequences == 0 .. RootSequence + MaxSequence
Links == [parent : Directories, seq : Sequences]
Link(parent, seq) == [parent |-> parent, seq |-> seq]

Init ==
    /\ mft = [r \in RecordNumbers |-> Unused]
    /\ damaged \in { d \in [RecordNumbers -> {"no", "unreadable", "nameless"}] :
                       Cardinality({ r \in RecordNumbers : d[r] # "no" }) <= 1 }
    /\ phase = "in use"
    /\ index = << >> /\ checked = FALSE /\ next = 1
    /\ cache = << >> /\ placed = {} /\ unresolved = {} /\ lost = << >>

-----------------------------------------------------------------------------
(* The volume in use.                                                       *)
LiveDirs == {Root} \cup { r \in RecordNumbers : mft[r].in_use /\ mft[r].dir }
SequenceOf(r) == IF r = Root THEN RootSequence ELSE mft[r].seq
To(r) == Link(r, SequenceOf(r))
Above(r) ==
    LET above[d \in Directories] ==
            IF d = Root THEN {} ELSE {d} \cup above[mft[d].links[1].parent]
    IN above[r]

Use(r, record) ==
    /\ phase = "in use"
    /\ mft' = [mft EXCEPT ![r] = record]
    /\ UNCHANGED << damaged, phase, index, checked, next, cache, placed, unresolved, lost >>

Create(r, dir, link) ==
    /\ ~mft[r].in_use
    /\ Use(r, [seq |-> mft[r].seq, in_use |-> TRUE, dir |-> dir, links |-> << link >>])

AddLink(r, link) ==
    /\ mft[r].in_use /\ ~mft[r].dir /\ Len(mft[r].links) < 2 /\ link \notin ToSet(mft[r].links)
    /\ \/ Use(r, [mft[r] EXCEPT !.links = Append(@, link)])
       \/ Use(r, [mft[r] EXCEPT !.links = << link >> \o @])

MoveTo(r, link) ==
    /\ mft[r].in_use /\ link \notin ToSet(mft[r].links) /\ r \notin Above(link.parent)
    /\ \E i \in DOMAIN mft[r].links : Use(r, [mft[r] EXCEPT !.links[i] = link])

Delete(r) ==
    /\ mft[r].in_use /\ mft[r].seq < MaxSequence
    /\ \A f \in RecordNumbers : mft[f].in_use =>
         \A i \in DOMAIN mft[f].links : mft[f].links[i].parent # r
    /\ Use(r, [mft[r] EXCEPT !.in_use = FALSE, !.seq = @ + 1])

-----------------------------------------------------------------------------
(* The first pass: the index, and whether its sequence numbers are to be    *)
(* believed.                                                                *)
Indexed(r) == damaged[r] = "no" /\ mft[r].links # << >>

(* is_stale                                                                 *)
StaleIn(idx, seq, r) == seq # 0 /\ r \in DOMAIN idx /\ idx[r].seq # seq

LinksSeen(idx) == { x \in (DOMAIN idx) \X (1 .. 2) : x[2] \in DOMAIN idx[x[1]].links }
StaleLinks(idx) ==
    { x \in LinksSeen(idx) :
        LET link == idx[x[1]].links[x[2]] IN StaleIn(idx, link.seq, link.parent) }

WithoutSequences(idx) ==
    [r \in DOMAIN idx |->
       [idx[r] EXCEPT !.links = [i \in DOMAIN @ |-> [@[i] EXCEPT !.seq = 0]]]]

(* STALE_LINK_SANITY_SHARE: if most are stale, it is not the links.         *)
Believable(idx) == Cardinality(StaleLinks(idx)) * 2 <= Cardinality(LinksSeen(idx))

ReadRecords ==
    /\ phase = "in use"
    /\ phase' = "resolve"
    /\ LET idx == [r \in { r \in RecordNumbers : Indexed(r) } |-> mft[r]]
       IN /\ checked' = Believable(idx)
          /\ index' = IF checked' THEN idx ELSE WithoutSequences(idx)
    /\ UNCHANGED << volume, next, cache, placed, unresolved, lost >>

-----------------------------------------------------------------------------
(* The second pass: files in the order of their records.                    *)
Nowhere == [known |-> FALSE, path |-> << >>, cache |-> << >>]
Known(path, c) == [known |-> TRUE, path |-> path, cache |-> c]

(* Fault: what is known of a record is taken before its number is looked at. *)
CacheFirst(r, seq, c) == IF r \in DOMAIN c THEN FALSE ELSE StaleIn(index, seq, r)

IsStale(r, seq, c) == StaleIn(index, seq, r)

Learn(c, r, path) == [d \in DOMAIN c \cup {r} |-> IF d = r THEN path ELSE c[d]]

(* resolve_directory, with the paths found so far, while `left` more        *)
(* directories may be passed.                                               *)
ResolveDirectory(link, c) ==
    LET resolve[left \in 0 .. MaxDepth] ==
            [l \in Links |->
               IF l.parent = Root THEN Known(<< >>, c)
               ELSE IF left = 0 \/ IsStale(l.parent, l.seq, c) THEN Nowhere
               ELSE IF l.parent \in DOMAIN c THEN Known(c[l.parent], c)
               ELSE IF l.parent \notin DOMAIN index \/ ~index[l.parent].dir THEN Nowhere
               ELSE LET above == resolve[left - 1][index[l.parent].links[1]]
                        path == Append(above.path, l.parent)
                    IN IF above.known THEN Known(path, Learn(above.cache, l.parent, path))
                       ELSE Nowhere]
    IN resolve[MaxDepth][link]

(* resolve_path and resolve_link, for the names of one file in turn.        *)
ResolveLink(s, r, link) ==
    LET dir == ResolveDirectory(link, s.cache)
    IN IF dir.known
       THEN [s EXCEPT !.cache = dir.cache,
                      !.at = @ \cup { << r, link, Append(dir.path, r) >> }]
       ELSE [s EXCEPT !.lost = @ \cup {link}]

ResolveLinks(r, c) ==
    LET links == index[r].links
        upto[i \in 0 .. Len(links)] ==
            IF i = 0 THEN [cache |-> c, at |-> {}, lost |-> {}]
            ELSE ResolveLink(upto[i - 1], r, links[i])
    IN upto[Len(links)]

(* Fault: a file is given up with the first of its names.                   *)
FirstNameOnly(found, r) == \A p \in found.at : p[2] # index[r].links[1]

WithoutAPath(found, r) == found.at = {}

IsFile(r) == r \in DOMAIN index /\ ~index[r].dir

ResolveFile ==
    /\ phase = "resolve" /\ next \in RecordNumbers /\ IsFile(next)
    /\ LET found == ResolveLinks(next, cache)
       IN /\ placed' = placed \cup found.at
          /\ cache' = found.cache
          /\ unresolved' = IF WithoutAPath(found, next) THEN unresolved \cup {next} ELSE unresolved
          /\ lost' = [link \in DOMAIN lost \cup found.lost |-> "not explained"]
    /\ next' = next + 1
    /\ UNCHANGED << volume, phase, index, checked >>

PassRecord ==
    /\ phase = "resolve" /\ next \in RecordNumbers /\ ~IsFile(next)
    /\ next' = next + 1
    /\ UNCHANGED << volume, phase, index, checked, cache, placed, unresolved, lost >>

(* explain_lost: the chain once more, up to where it breaks.                *)
Explain(link) ==
    LET explain[left \in 0 .. MaxDepth] ==
            [l \in Links |->
               IF l.parent = Root \/ left = 0 THEN "CycleOrTooDeep"
               ELSE IF l.parent \notin DOMAIN index
                    THEN IF mft[l.parent].links = << >> THEN "NeverAllocated"
                         ELSE damaged[l.parent]
               ELSE IF StaleIn(index, l.seq, l.parent) THEN "StaleParentReference"
               ELSE IF l.parent \in DOMAIN cache THEN "CycleOrTooDeep"
               ELSE IF ~index[l.parent].dir THEN "NotADirectory"
               ELSE explain[left - 1][index[l.parent].links[1]]]
    IN explain[MaxDepth][link]

ExplainLost ==
    /\ phase = "resolve" /\ next \notin RecordNumbers
    /\ lost' = [link \in DOMAIN lost |-> Explain(link)]
    /\ phase' = "done"
    /\ UNCHANGED << volume, index, checked, next, cache, placed, unresolved >>

Next ==
    \/ \E r \in RecordNumbers, parent \in LiveDirs :
         LET link == To(parent)
         IN AddLink(r, link) \/ MoveTo(r, link) \/ \E dir \in BOOLEAN : Create(r, dir, link)
    \/ \E r \in RecordNumbers : Delete(r)
    \/ ReadRecords \/ ResolveFile \/ PassRecord \/ ExplainLost

Spec == Init /\ [][Next]_vars

-----------------------------------------------------------------------------
(* What the volume itself says: the directory a name means is there, its    *)
(* record in use by it, and so are those above.                             *)
Meant(link) == link.parent = Root \/ (mft[link.parent].in_use /\ mft[link.parent].seq = link.seq)

(* The directories of a path lie each in the one before, as the volume has  *)
(* them, and the name is in the last.                                       *)
Up(path, i) == IF i = 1 THEN Root ELSE path[i - 1]

Leads(path, link) ==
    /\ link.parent = Up(path, Len(path))
    /\ \A i \in 1 .. Len(path) - 1 :
         path[i] \in LiveDirs \ {Root} /\ mft[path[i]].links[1].parent = Up(path, i)

(* The reason the path of a directory cannot be had, and "none" if it can.  *)
WhyNot(link) ==
    LET why[left \in 0 .. MaxDepth] ==
            [l \in Links |->
               IF l.parent = Root THEN "none"
               ELSE IF left = 0 THEN "CycleOrTooDeep"
               ELSE IF damaged[l.parent] # "no" THEN damaged[l.parent]
               ELSE IF ~Meant(l) THEN "StaleParentReference"
               ELSE why[left - 1][mft[l.parent].links[1]]]
    IN why[MaxDepth][link]

(* The files of the walk are those of the volume.  A path is one the volume *)
(* has, never through a directory that took the record of the one meant;    *)
(* where sequence numbers were found wanting and dropped, this is not       *)
(* promised.  A file that is not deleted has every one of its paths, if the *)
(* records above it can be read, whatever was resolved before it.           *)
PathsAreTrue ==
    /\ checked => \A p \in placed :
          Meant(p[2]) /\ p[3][Len(p[3])] = p[1] /\ Leads(p[3], p[2])
    /\ phase = "done" =>
          \A r \in RecordNumbers : mft[r].in_use /\ ~mft[r].dir /\ damaged[r] = "no" =>
            \A link \in ToSet(mft[r].links) : WhyNot(link) = "none" =>
              << r, link.parent >> \in { << p[1], p[2].parent >> : p \in placed }

(* A file is counted as lost if it has no path, and the report says of      *)
(* every directory that could not be reached what is wrong with it or the   *)
(* ones above it.  Below MaxDepth directories a path may be found that was  *)
(* not promised, from what is known of the directories in between.          *)
LossesAreTold ==
    phase = "done" /\ checked =>
        /\ \A r \in RecordNumbers : mft[r].links # << >> /\ ~mft[r].dir /\ damaged[r] = "no" =>
             LET reasons == { WhyNot(link) : link \in ToSet(mft[r].links) }
             IN IF r \in unresolved THEN "none" \notin reasons
                ELSE reasons \cap {"none", "CycleOrTooDeep"} # {}
        /\ \A link \in DOMAIN lost : lost[link] = WhyNot(link)
=============================================================================
