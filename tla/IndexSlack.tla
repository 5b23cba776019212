----------------------------- MODULE IndexSlack -----------------------------
(***************************************************************************)
(* malmathic/index_slack.rs with deleted_index_entries and record_fate of   *)
(* mm-raw/volume.rs: the entries a directory's index no longer counts still *)
(* name the record of a deleted file.  harvest decides what became of that  *)
(* record; the acquisition stage, later in the run, carves it.              *)
(*                                                                         *)
(* NTFS is external.  A record is used by one file after another; deleting  *)
(* a file raises the record's sequence number, which is never 0 (slack.rs   *)
(* refuses a zero, 239-241).  A file is << its record, which of the         *)
(* record's files it is >>.  One directory is modelled; a file elsewhere    *)
(* uses records and leaves nothing here.                                    *)
(***************************************************************************)
EXTENDS Integers, FiniteSets

CONSTANTS
    Records,
    Leaves,             \* names of files, in lower case
    Modulus,            \* 2^16: sequence numbers are u16
    MaxReuse,           \* bound: files of one record; less than Modulus - 1
    MaxSlack            \* bound: entries outside of the index

(* No record is used so often that a sequence number comes round again.     *)
ReuseAssumption ==
    /\ Modulus \in Nat /\ MaxReuse \in Nat
    /\ MaxReuse < Modulus - 1

VARIABLES
    record,             \* the $MFT records
    index,              \* the directory's entries
    slack,              \* what is left of entries it had
    wanted,             \* the leaf of a candidate's path
    found,              \* RecoveredNames: what harvest says of it
    carved              \* the file whose clusters were saved as the sample

volume == << record, index, slack >>
vars == << volume, wanted, found, carved >>

Sequence(file) == ((file[2] - 1) % (Modulus - 1)) + 1
Entry(name, file) == [name |-> name, file |-> file]
Nothing == [fate |-> "none"]
NotAFile == << >>

(* The file that has a record, or is the next to have it.                   *)
File(r) == << r, record[r].nth >>
LastFile(r) == << r, record[r].nth - 1 >>

Init ==
    /\ \E first \in [Records -> 1 .. Modulus - 1] :
         record = [r \in Records |-> [in_use |-> FALSE, nth |-> first[r], first |-> first[r], name |-> NotAFile]]
    /\ index = {} /\ slack = {}
    /\ wanted \in Leaves
    /\ found = Nothing
    /\ carved = NotAFile

-----------------------------------------------------------------------------
(* The volume in use, before the run and, where it is live, during it.      *)
Slacken(entries) ==
    \/ slack' = slack
    \/ Cardinality(slack \cup entries) <= MaxSlack /\ slack' = slack \cup entries
    \/ \E e \in slack : slack' = slack \ {e}

Create(r, name, here) ==
    /\ ~record[r].in_use
    /\ record[r].nth < record[r].first + MaxReuse
    /\ \A e \in index : e.name # name
    /\ record' = [record EXCEPT ![r].in_use = TRUE, ![r].name = name]
    /\ index' = IF here THEN index \cup {Entry(name, File(r))} ELSE index
    /\ Slacken({})
    /\ UNCHANGED << wanted, found, carved >>

Delete(r) ==
    /\ record[r].in_use
    /\ record' = [record EXCEPT ![r].in_use = FALSE, ![r].nth = @ + 1]
    /\ index' = {e \in index : e.file # File(r)}
    /\ Slacken(index \ index')
    /\ UNCHANGED << wanted, found, carved >>

Rename(r, name) ==
    /\ record[r].in_use /\ \A e \in index : e.name # name
    /\ record' = [record EXCEPT ![r].name = name]
    /\ index' = {IF e.file = File(r) THEN Entry(name, e.file) ELSE e : e \in index}
    /\ Slacken(index \ index')
    /\ UNCHANGED << wanted, found, carved >>

(* A rebalanced tree leaves a copy of an entry it still has.                *)
Rebalance ==
    /\ Slacken(index) /\ slack' # slack
    /\ UNCHANGED << record, index, wanted, found, carved >>

-----------------------------------------------------------------------------
(* Volume::record_fate.  Of a free record the sequence is the one its last  *)
(* file had, or the next.                                                   *)
Now(r) == Sequence(File(r))

(* Fault: the number a deletion gives the record is not expected.           *)
TheSame(now, sequence) == now = sequence

StillItsOwn(now, sequence) == now = sequence \/ now = (sequence + 1) % Modulus

RecordFate(r, sequence) ==
    IF record[r].in_use
    THEN IF Now(r) = sequence THEN "still there" ELSE "reallocated"
    ELSE IF StillItsOwn(Now(r), sequence) THEN "free" ELSE "freed again"

(* Recovered::finish                                                        *)
Recovered == {e \in slack : \A l \in index : ~(l.file[1] = e.file[1] /\ l.name = e.name)}

Reference(e) == << e.file[1], Sequence(e.file) >>

(* Fault: of several records the name was bound to one is taken.            *)
SomeReference(references) == references # {}

Unambiguous(references) == Cardinality(references) = 1

(* index_slack::harvest, for one name.  `files` is who had it, and `nth`    *)
(* and `in_use` are the record's at the time.                               *)
Harvest ==
    /\ found = Nothing
    /\ LET entries == {e \in Recovered : e.name = wanted}
           references == {Reference(e) : e \in entries}
       IN  found' \in IF ~Unambiguous(references) THEN {[fate |-> "not named"]}
                      ELSE {[fate |-> RecordFate(f[1], f[2]), record |-> f[1], sequence |-> f[2],
                             files |-> {e.file : e \in entries},
                             nth |-> record[f[1]].nth, in_use |-> record[f[1]].in_use] : f \in references}
    /\ UNCHANGED << volume, wanted, carved >>

NamesIt(name) == name = wanted

(* from_index_slack and carve_from_record: the record is looked at again,   *)
(* its sequence number is not.                                              *)
CarveSlack ==
    /\ found # Nothing /\ found.fate = "free" /\ carved = NotAFile
    /\ ~record[found.record].in_use
    /\ NamesIt(record[found.record].name)
    /\ carved' = LastFile(found.record)
    /\ UNCHANGED << volume, wanted, found >>

Next ==
    \/ \E r \in Records, name \in Leaves : (\E here \in BOOLEAN : Create(r, name, here)) \/ Rename(r, name)
    \/ \E r \in Records : Delete(r)
    \/ Rebalance \/ Harvest \/ CarveSlack

Spec == Init /\ [][Next]_vars

-----------------------------------------------------------------------------
Located == found # Nothing /\ found.fate # "not named"
Unmoved == record[found.record].nth = found.nth

(* What is carved by a name the directory no longer has is the one file the *)
(* directory remembers by it, through renames, reuse of the record and      *)
(* sequence numbers that wrap; unless the record was used again between     *)
(* harvest and acquisition, and by a file of the same name.                 *)
CarvedIsTheNamedFile ==
    carved # NotAFile => {carved} = found.files \/ ~Unmoved

(* What harvest says became of the record is what did: a file still there   *)
(* has its record, a reallocated one has lost it to a later file, a free    *)
(* record was last this file's, and one freed again was another's; except   *)
(* for a file with the last sequence number, whose freed record carries 1   *)
(* and is taken for one freed again (wrapping_add gives 0, volume.rs 1089). *)
FateIsTrue ==
    Located =>
        \A f \in found.files :
            CASE found.fate = "still there" -> found.in_use /\ f[2] = found.nth
              [] found.fate = "reallocated" -> found.in_use /\ f[2] < found.nth
              [] found.fate = "free" -> ~found.in_use /\ f[2] = found.nth - 1
              [] found.fate = "freed again" ->
                    ~found.in_use /\ (f[2] < found.nth - 1 \/ found.sequence = Modulus - 1)
=============================================================================
