----------------------------- MODULE UsnJournal -----------------------------
(***************************************************************************)
(* mm-raw/usn.rs, read_journal, and mm-harvest/usn_journal.rs, harvest: the *)
(* change journal is read window by window, and a row that tells of the     *)
(* deletion or creation of a file this run knows dates it.  A row names the *)
(* record of the directory and not its path, and the directory may be gone, *)
(* or its record another directory's, by the time it is read.               *)
(*                                                                         *)
(* NTFS is external: it appends a row for every file created or deleted,    *)
(* stamps it with a clock that may be set back, and gives the oldest part   *)
(* of the journal back to the volume.  Rows of other reasons are left out,  *)
(* and so are those of directories, whose names no file here has.  The      *)
(* length of a row is that of its name; the cluster is the unit, and rows  *)
(* are not aligned to windows.  A path is the sequence of its names.  The   *)
(* volume does not change under the harvest.                                *)
(***************************************************************************)
EXTENDS Integers, Sequences, FiniteSets, SequencesExt, FiniteSetsExt, TLC

CONSTANTS
    LastRecord,         \* records 1..LastRecord; 0 is the root directory
    Volumes,            \* what the volume may hold when the journal begins
    DirectoryNames,
    LengthOf,           \* of the row for the name of a file
    Window, Overlap,    \* WINDOW, OVERLAP, in clusters
    MaxRecords,         \* MAX_RECORDS
    MaxBytes,           \* MAX_JOURNAL_BYTES, in clusters
    MaxResolutions,     \* MAX_RESOLUTIONS, MAX_CREATION_RESOLUTIONS
    MaxDepth,           \* MAX_PATH_DEPTH
    MaxRows,            \* bound: rows written
    MaxTime,            \* bound: readings of the clock
    MaxChanges          \* bound: directories made, removed and renamed

VARIABLES
    mft,                \* every record: [seq, in_use, dir, name, parent, parent_seq]
    damaged,            \* records that cannot be read
    rows,               \* all rows ever written, oldest first
    first,              \* where what is left of the journal begins
    changes,            \* of directories, so far
    phase,
    cuts,               \* where a run of $J ends and the next begins elsewhere
    at, from,           \* read_journal: what was read, where the carry begins
    records,            \* Journal.records: the numbers of rows
    truncated,          \* Journal.truncated
    known, present,     \* KnownPaths
    next,               \* harvest: the record to look at
    cache, dated, created, resolutions, creation_resolutions,
    overtime,           \* RESOLVE_BUDGET has passed
    stopped             \* history: a row was left out for a budget

volume == << mft, damaged, rows, first, changes >>
reading == << cuts, at, from, records, truncated >>
joining == << known, present, next, cache, dated, created, resolutions, creation_resolutions,
              overtime, stopped >>
vars == << volume, phase, reading, joining >>

Root == 0
(* No row is longer than what two windows share, and a cluster.             *)
OverlapAssumption == \A n \in DOMAIN LengthOf : LengthOf[n] \in 1 .. Overlap + 1
BoundAssumption ==
    Window \in Nat /\ Overlap \in Nat /\ MaxRecords \in Nat /\ MaxBytes \in Nat

RecordNumbers == 1 .. LastRecord
FileNames == DOMAIN LengthOf
FileRecord ==
    [seq : Nat, in_use : BOOLEAN, dir : BOOLEAN, name : FileNames \cup DirectoryNames,
     parent : RecordNumbers \cup {Root}, parent_seq : Nat]
VolumeAssumption ==
    \A v \in Volumes :
        /\ v \in [RecordNumbers -> FileRecord]
        /\ \A r \in RecordNumbers : v[r].dir \/ v[r].name \in FileNames
Gone == << "no path" >>

-----------------------------------------------------------------------------
(* The volume in use.                                                       *)
LiveDirs == { r \in RecordNumbers : mft[r].in_use /\ mft[r].dir }
SequenceOf(r) == IF r = Root THEN 5 ELSE mft[r].seq

Above(r) ==
    LET above[q \in RecordNumbers \cup {Root}] ==
            IF q = Root THEN << >> ELSE Append(above[mft[q].parent], q)
    IN above[r]
PathOf(r) == [i \in DOMAIN Above(r) |-> mft[Above(r)[i]].name]

Init ==
    /\ mft \in Volumes
    /\ damaged = {} /\ rows = << >> /\ first = 0 /\ changes = 0
    /\ phase = "in use"
    /\ cuts = {} /\ at = 0 /\ from = 0 /\ records = << >> /\ truncated = "no"
    /\ known = {} /\ present = {} /\ next = 1 /\ cache = << >>
    /\ dated = << >> /\ created = << >>
    /\ resolutions = 0 /\ creation_resolutions = 0
    /\ overtime = FALSE /\ stopped = FALSE

End == IF rows = << >> THEN 0 ELSE Last(rows).at + Last(rows).length

(* was, moved: history, the path of the file then, and whether a directory  *)
(* on the way to it has had another name since.                             *)
Row(reasons, r, seq, parent, name, when) ==
    [reasons |-> reasons, entry |-> r, seq |-> seq, parent |-> parent,
     parent_seq |-> SequenceOf(parent), name |-> name, when |-> when,
     at |-> End, length |-> LengthOf[name],
     was |-> Append(PathOf(parent), name), moved |-> FALSE]

InUse ==
    /\ phase = "in use"
    /\ UNCHANGED << damaged, phase, reading, joining >>

Vacant(parent, name) ==
    \A r \in RecordNumbers :
        mft[r].in_use => mft[r].parent # parent \/ mft[r].name # name

Write(row) == Len(rows) < MaxRows /\ rows' = Append(rows, row) /\ UNCHANGED << first, changes >>

Made(r, dir, name, parent) ==
    [mft EXCEPT ![r] = [@ EXCEPT !.in_use = TRUE, !.dir = dir, !.name = name,
                                 !.parent = parent, !.parent_seq = SequenceOf(parent)]]
Freed(r) == [mft EXCEPT ![r].in_use = FALSE, ![r].seq = @ + 1]

Create(r, name, parent, when) ==
    /\ InUse
    /\ ~mft[r].in_use /\ Vacant(parent, name)
    /\ Write(Row({"create"}, r, mft[r].seq, parent, name, when))
    /\ mft' = Made(r, FALSE, name, parent)

Delete(r, when) ==
    /\ InUse
    /\ mft[r].in_use /\ ~mft[r].dir
    /\ Write(Row({"delete"}, r, mft[r].seq, mft[r].parent, mft[r].name, when))
    /\ mft' = Freed(r)

(* Reasons add up until a file is closed.                                   *)
CreateAndDelete(r, name, parent, when) ==
    /\ InUse
    /\ ~mft[r].in_use /\ Vacant(parent, name)
    /\ Write(Row({"create", "delete"}, r, mft[r].seq, parent, name, when))
    /\ mft' = [mft EXCEPT ![r].seq = @ + 1]

Change ==
    /\ InUse
    /\ changes < MaxChanges /\ changes' = changes + 1
    /\ UNCHANGED first

MakeDirectory(r, name, parent) ==
    /\ Change
    /\ ~mft[r].in_use /\ Vacant(parent, name)
    /\ mft' = Made(r, TRUE, name, parent)
    /\ UNCHANGED rows

RemoveDirectory(r) ==
    /\ Change
    /\ r \in LiveDirs
    /\ \A child \in RecordNumbers : mft[child].in_use => mft[child].parent # r
    /\ mft' = Freed(r)
    /\ UNCHANGED rows

Below(row, r) ==
    /\ row.parent # Root /\ mft[row.parent].in_use /\ mft[row.parent].seq = row.parent_seq
    /\ r \in ToSet(Above(row.parent))

RenameDirectory(r, name) ==
    /\ Change
    /\ r \in LiveDirs /\ Vacant(mft[r].parent, name)
    /\ mft' = [mft EXCEPT ![r].name = name]
    /\ rows' = [i \in DOMAIN rows |-> [rows[i] EXCEPT !.moved = @ \/ Below(rows[i], r)]]

Trim ==
    /\ InUse
    /\ \E i \in DOMAIN rows : rows[i].at > first /\ first' = rows[i].at
    /\ UNCHANGED << mft, rows, changes >>

-----------------------------------------------------------------------------
(* read_journal: what is left of $J is one segment, in one or two runs.     *)
(* A row's number stands for its USN, and rows are found in the order of    *)
(* these: the sort at the end has nothing left to do.                       *)
InOrder(set) ==
    LET upto[i \in 0 .. Len(rows)] ==
            IF i = 0 THEN << >>
            ELSE IF i \in set THEN Append(upto[i - 1], i) ELSE upto[i - 1]
    IN upto[Len(rows)]

Left == { i \in DOMAIN rows : rows[i].at >= first }
Standing == InOrder(Left)

Open ==
    /\ phase = "in use"
    /\ phase' = "reading"
    /\ cuts' \in {{}} \cup { {c} : c \in first + 1 .. End - 1 }
    /\ at' = first /\ from' = first
    /\ UNCHANGED << volume, records, truncated, joining >>

Min2(a, b) == IF a < b THEN a ELSE b
RunEnd == Min({ c \in cuts : c > at } \cup {End})
Want == Min2(RunEnd - at, Window)

(* Fault: a window begins where the one before it ended.                    *)
NoCarry(end) == end

(* What is kept of the bytes scanned so far to complete a row.              *)
Carry(end) == Max({from, end - Overlap})

(* exhausted(); the clock may run out at any window.                        *)
BudgetSpent == Len(records) >= MaxRecords \/ at - first >= MaxBytes
Exhausted ==
    /\ phase = "reading" /\ at < End
    /\ truncated' = IF Len(records) >= MaxRecords THEN "Records"
                    ELSE IF at - first >= MaxBytes THEN "Bytes" ELSE "Time"
    /\ phase' = "read"
    /\ UNCHANGED << volume, cuts, at, from, records, joining >>

ReadFails ==
    /\ phase = "reading" /\ at < End /\ ~BudgetSpent
    /\ truncated' = "ReadError" /\ phase' = "read"
    /\ UNCHANGED << volume, cuts, at, from, records, joining >>

(* carve_usn_records finds the rows that lie in the scan whole; `seen`      *)
(* keeps one of each.                                                       *)
Whole(i, end) == rows[i].at >= from /\ rows[i].at + rows[i].length <= end

(* Fault: a row the overlap has shown already is taken again.               *)
AnyWhole(end) == InOrder({ i \in Left : Whole(i, end) })

Carved(end) == InOrder({ i \in Left : Whole(i, end) } \ ToSet(records))

ReadWindow ==
    /\ phase = "reading" /\ at < End /\ ~BudgetSpent
    /\ LET end == at + Want
           all == records \o Carved(end)
           full == Len(all) >= MaxRecords
       IN /\ records' = IF full THEN SubSeq(all, 1, MaxRecords) ELSE all
          /\ truncated' = IF full THEN "Records" ELSE "no"
          /\ phase' = IF truncated' = "no" THEN phase ELSE "read"
          /\ from' = Carry(end)
          /\ at' = end
    /\ UNCHANGED << volume, cuts, joining >>

EndOfJournal ==
    /\ phase = "reading" /\ at = End
    /\ phase' = "read"
    /\ UNCHANGED << volume, reading, joining >>

-----------------------------------------------------------------------------
(* harvest.                                                                 *)
LiveFiles == { r \in RecordNumbers : mft[r].in_use /\ ~mft[r].dir }
PathsInPlay == { rows[i].was : i \in DOMAIN rows } \cup { PathOf(r) : r \in LiveFiles }

(* The walk has seen which of the paths this run knows are there; what      *)
(* read_journal had for itself is gone.                                     *)
Begin ==
    /\ phase = "read"
    /\ phase' = "harvest"
    /\ known' \in { PathsInPlay } \cup { {p} : p \in PathsInPlay }
    /\ damaged' \in {{}} \cup { {r} : r \in RecordNumbers }
    /\ present' = known' \cap { PathOf(r) : r \in { s \in LiveFiles :
                                   ToSet(Above(s)) \cap damaged' = {} } }
    /\ cuts' = {} /\ at' = 0 /\ from' = 0
    /\ UNCHANGED << mft, rows, first, changes, records, truncated, next, cache, dated, created,
                    resolutions, creation_resolutions, overtime, stopped >>

Wanted(row) == \E p \in known : Last(p) = row.name

(* Fault: whatever has the record now is taken for the directory.           *)
AnyDirectory(r, seq) == r \notin damaged /\ mft[r].in_use /\ mft[r].dir

IsDirectory(r, seq) ==
    r \notin damaged /\ mft[r].in_use /\ mft[r].dir /\ seq \in {0, mft[r].seq}

(* resolve_directory: a path, or Gone, and the cache it leaves.             *)
ResolveDirectory(record, sequence, known_dirs) ==
    LET resolve[r \in RecordNumbers \cup {Root}, seq \in Nat, depth \in 0 .. MaxDepth] ==
          CASE r = Root -> [path |-> << >>, cache |-> known_dirs]
            [] r # Root /\ (depth >= MaxDepth \/ ~IsDirectory(r, seq)) ->
                 [path |-> Gone, cache |-> known_dirs]
            [] r # Root /\ depth < MaxDepth /\ IsDirectory(r, seq) ->
                 IF r \in DOMAIN known_dirs THEN [path |-> known_dirs[r], cache |-> known_dirs]
                 ELSE LET up == resolve[mft[r].parent, mft[r].parent_seq, depth + 1]
                          path == IF up.path = Gone THEN Gone ELSE Append(up.path, mft[r].name)
                      IN [path |-> path, cache |-> up.cache @@ (r :> path)]
    IN resolve[record, sequence, 0]

Place(row, known_dirs) ==
    LET dir == ResolveDirectory(row.parent, row.parent_seq, known_dirs)
    IN [dir EXCEPT !.path = IF @ = Gone THEN Gone ELSE Append(@, row.name)]

(* Fault: the row read last is taken, whatever the clock said.              *)
KeepLatest(table, path, i) == (path :> i) @@ table

(* The earliest of the rows of a path, by the clock.                        *)
KeepEarliest(table, path, i) ==
    IF path \in DOMAIN table /\ rows[table[path]].when <= rows[i].when
    THEN table ELSE (path :> i) @@ table

NoCreation ==
    [cache |-> cache, created |-> created, resolutions |-> creation_resolutions]

(* harvest_creation                                                         *)
Creation(row, i, late) ==
    IF creation_resolutions >= MaxResolutions \/ late THEN NoCreation
    ELSE LET place == Place(row, cache)
         IN [cache |-> place.cache, resolutions |-> creation_resolutions + 1,
             created |-> IF place.path \in known THEN KeepEarliest(created, place.path, i)
                         ELSE created]

(* One turn of the loop; the budget may pass before either look at it.      *)
HarvestRow ==
    /\ phase = "harvest" /\ next <= Len(records)
    /\ \E late, later \in {overtime, TRUE} :
         LET i == records[next]
             row == rows[i]
             asked(reason) == reason \in row.reasons /\ Wanted(row)
             made == IF asked("create") THEN Creation(row, i, late) ELSE NoCreation
             break == asked("delete") /\ (resolutions >= MaxResolutions \/ later)
             dates == asked("delete") /\ ~break
             place == Place(row, made.cache)
         IN /\ late => later
            /\ overtime' = later
            /\ created' = made.created
            /\ creation_resolutions' = made.resolutions
            /\ cache' = IF dates THEN place.cache ELSE made.cache
            /\ resolutions' = resolutions + IF dates THEN 1 ELSE 0
            /\ dated' = IF dates /\ place.path \in known \ present
                        THEN KeepEarliest(dated, place.path, i) ELSE dated
            /\ stopped' = (stopped \/ break
                             \/ (asked("create") /\ made.resolutions = creation_resolutions))
            /\ next' = IF break THEN Len(records) + 1 ELSE next + 1
    /\ UNCHANGED << volume, phase, reading, known, present >>

EndHarvest ==
    /\ phase = "harvest" /\ next > Len(records)
    /\ phase' = "done"
    /\ UNCHANGED << volume, reading, joining >>

Next ==
    \/ \E r \in RecordNumbers, parent \in LiveDirs \cup {Root} :
         \/ \E name \in FileNames, when \in 1 .. MaxTime :
              Create(r, name, parent, when) \/ CreateAndDelete(r, name, parent, when)
         \/ \E name \in DirectoryNames : MakeDirectory(r, name, parent)
    \/ \E r \in RecordNumbers :
         \/ \E when \in 1 .. MaxTime : Delete(r, when)
         \/ RemoveDirectory(r)
         \/ \E name \in DirectoryNames : RenameDirectory(r, name)
    \/ Trim
    \/ Open \/ ReadWindow \/ ReadFails \/ Exhausted \/ EndOfJournal
    \/ Begin \/ HarvestRow \/ EndHarvest

Spec == Init /\ [][Next]_vars

-----------------------------------------------------------------------------
(* However rows lie across windows and runs, each is read once, none in     *)
(* between is passed over, and without a budget or an error in the way all  *)
(* of them are read.                                                        *)
JournalIsReadInOrder ==
    /\ \E m, n \in 0 .. Len(Standing) : records = SubSeq(Standing, m + 1, n)
    /\ (phase = "read" /\ truncated = "no") => records = Standing

(* A journal that reached a limit is reported with "older events were not   *)
(* read" (usn.rs:81-88): no event left out was written after one that was   *)
(* read, and at a later time.                                               *)
OlderEventsWereNotRead ==
    (phase = "read" /\ truncated \in {"Records", "Bytes", "Time"}) =>
        \A i \in ToSet(records), j \in Left \ ToSet(records) :
            j < i \/ rows[j].when <= rows[i].when

(* The path a row has by definition: of its directory, if that is still a   *)
(* live one and all above it can be read.                                   *)
Stands(row) ==
    \/ row.parent = Root
    \/ /\ row.parent \in LiveDirs /\ mft[row.parent].seq = row.parent_seq
       /\ ToSet(Above(row.parent)) \cap damaged = {}
Placed(row) == IF Stands(row) THEN Append(PathOf(row.parent), row.name) ELSE Gone
Shallow == \A r \in LiveDirs : Len(Above(r)) <= MaxDepth

Earliest(reason, paths) ==
    LET of(p) == { i \in ToSet(records) : reason \in rows[i].reasons /\ Placed(rows[i]) = p }
    IN [p \in { q \in paths : of(q) # {} } |->
          CHOOSE i \in of(p) : \A j \in of(p) :
              rows[i].when < rows[j].when \/ (rows[i].when = rows[j].when /\ i <= j)]

(* A file is dated by the earliest row of its path that was read, whatever  *)
(* was resolved before it and whatever has its directory's record now, and  *)
(* a path that holds a file today is never called deleted.                  *)
DeletionsAreDated ==
    (phase = "done" /\ ~stopped /\ Shallow) =>
        dated = Earliest("delete", known \ present) /\ created = Earliest("create", known)

(* The path a date is given to is the one the file had when it was deleted, *)
(* unless a directory above it has been renamed since.                      *)
DatesAreOfThePath ==
    \A p \in DOMAIN dated : rows[dated[p]].was = p \/ rows[dated[p]].moved

DatesAreTrue == DeletionsAreDated /\ DatesAreOfThePath
=============================================================================
