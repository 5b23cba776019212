---------------------------- MODULE SharedReader ----------------------------
(***************************************************************************)
(* mm-raw/shared.rs: several handles over one Read + Seek.  The NTFS parser,*)
(* the raw reads of the volume and every shadow copy each hold a handle     *)
(* with a position of its own; the reader underneath has one cursor, and    *)
(* `at` remembers where it was left so that a handle that reads on from     *)
(* there needs no seek.  The mutex makes each operation on the reader       *)
(* atomic; Start and Current seeks do not take it.                          *)
(*                                                                         *)
(* The reader underneath is the one BlockReader, Vdi and Vmdk are: a read   *)
(* that fails or panics may have left its cursor anywhere, except that a    *)
(* panic inside read leaves it where it was, since each of them moves its   *)
(* position in its last statement.                                          *)
(***************************************************************************)
EXTENDS Integers

CONSTANTS
    Handles,
    First,          \* the handle SharedReader::new makes
    Length,         \* bytes the reader underneath holds
    MaxOffset       \* where offsets saturate (u64::MAX in the code)

ASSUME HandleAssumption == First \in Handles
ASSUME OffsetAssumption ==
    /\ Length \in Nat
    /\ MaxOffset \in Nat
    /\ Length <= MaxOffset

VARIABLES
    cursor,     \* the cursor of the reader underneath
    at,         \* Anchored.at
    open,       \* the handles that exist
    pos,        \* SharedReader.position of each handle
    got         \* the answer to each handle's last operation

vars == << cursor, at, open, pos, got >>

Unknown == -1       \* Anchored.at is None
Offsets == 0..MaxOffset
Bytes(from, count) == [i \in 1..count |-> from + i - 1]
Nothing == [kind |-> "nothing"]
Answer(bytes) == [kind |-> "read", bytes |-> bytes]
Refused == [kind |-> "error"]
SaturatingAdd(a, b) == IF a + b > MaxOffset THEN MaxOffset ELSE a + b

Init ==
    /\ cursor \in Offsets
    /\ at = Unknown
    /\ open = {First}
    /\ pos = [h \in Handles |-> 0]
    /\ got = [h \in Handles |-> Nothing]

-----------------------------------------------------------------------------
(* Fault: a handle trusts whatever anchor there is.                         *)
AnchoredAnywhere(h) == at # Unknown

AnchoredAt(h) == at = pos[h]

(* Where the cursor is once read() has or has not sought.                   *)
Landed(h) == IF AnchoredAt(h) THEN cursor ELSE pos[h]

(* Fault: an error in the reader keeps the anchor.                          *)
KeepAnchor == UNCHANGED at

DropAnchor == at' = Unknown

Read(h) ==
    /\ h \in open
    /\ \E count \in 0..(IF Landed(h) < Length THEN Length - Landed(h) ELSE 0) :
         /\ got' = [got EXCEPT ![h] = Answer(Bytes(Landed(h), count))]
         /\ cursor' = Landed(h) + count
         /\ at' = SaturatingAdd(pos[h], count)
         /\ pos' = [pos EXCEPT ![h] = SaturatingAdd(@, count)]
    /\ UNCHANGED open

(* seek() or read() of the reader underneath returned an error.             *)
ReadFails(h) ==
    /\ h \in open
    /\ cursor' \in Offsets
    /\ DropAnchor
    /\ got' = [got EXCEPT ![h] = Refused]
    /\ UNCHANGED << open, pos >>

(* A panic in the middle of seek: `at` was cleared before it. The mutex is  *)
(* poisoned and the next lock() takes what is inside all the same.          *)
SeekPanics(h) ==
    /\ h \in open
    /\ ~AnchoredAt(h)
    /\ cursor' \in Offsets
    /\ DropAnchor
    /\ got' = [got EXCEPT ![h] = Refused]
    /\ UNCHANGED << open, pos >>

(* A panic in the middle of read: `at` stays as the seek left it.           *)
ReadPanics(h) ==
    /\ h \in open
    /\ cursor' = Landed(h)
    /\ at' = pos[h]
    /\ got' = [got EXCEPT ![h] = Refused]
    /\ UNCHANGED << open, pos >>

(* SeekFrom::Start: the reader underneath is not asked.                     *)
SeekStart(h) ==
    /\ h \in open
    /\ \E target \in Offsets : pos' = [pos EXCEPT ![h] = target]
    /\ got' = [got EXCEPT ![h] = Nothing]
    /\ UNCHANGED << cursor, at, open >>

(* Fault: the range of u64 is not looked at.                                *)
UncheckedOffset(target) == TRUE

(* offset_by: the sum is made in i128 and must fit u64 again.               *)
Fits(target) == target \in Offsets

SeekCurrent(h) ==
    /\ h \in open
    /\ \E delta \in -MaxOffset..MaxOffset :
         IF Fits(pos[h] + delta)
         THEN /\ pos' = [pos EXCEPT ![h] = @ + delta]
              /\ got' = [got EXCEPT ![h] = Nothing]
         ELSE /\ got' = [got EXCEPT ![h] = Refused]
              /\ UNCHANGED pos
    /\ UNCHANGED << cursor, at, open >>

(* SeekFrom::End moves the reader underneath, and anchors there.            *)
SeekEnd(h) ==
    /\ h \in open
    /\ \E end \in 0..MaxOffset :
         /\ cursor' = end
         /\ at' = end
         /\ pos' = [pos EXCEPT ![h] = end]
    /\ got' = [got EXCEPT ![h] = Nothing]
    /\ UNCHANGED open

SeekEndFails(h) ==
    /\ h \in open
    /\ cursor' \in Offsets
    /\ DropAnchor
    /\ got' = [got EXCEPT ![h] = Refused]
    /\ UNCHANGED << open, pos >>

(* A clone starts where its original is.                                    *)
Clone(h, other) ==
    /\ h \in open
    /\ other \in Handles \ open
    /\ open' = open \cup {other}
    /\ pos' = [pos EXCEPT ![other] = pos[h]]
    /\ UNCHANGED << cursor, at, got >>

Next ==
    \E h \in Handles :
        \/ Read(h) \/ ReadFails(h) \/ SeekPanics(h) \/ ReadPanics(h)
        \/ SeekStart(h) \/ SeekCurrent(h) \/ SeekEnd(h) \/ SeekEndFails(h)
        \/ \E other \in Handles : Clone(h, other)

Spec == Init /\ [][Next]_vars

-----------------------------------------------------------------------------
(* Cursor, anchor, handles and answers have their types.                    *)
TypeOK ==
    /\ cursor \in Offsets
    /\ at \in Offsets \cup {Unknown}
    /\ open \subseteq Handles
    /\ pos \in [Handles -> Offsets]
    /\ \A h \in Handles : got[h].kind \in {"nothing", "read", "error"}

(* A remembered anchor is where the reader really is, after any sequence of *)
(* reads, failures and panics through any of the handles.                   *)
AnchorIsTrue == at # Unknown => cursor = at

(* Every handle is a stream of its own: what the others read, sought or     *)
(* broke shows neither in its position nor in the bytes it is given.        *)
Streams == INSTANCE ByteStream WITH Readers <- Handles
HandlesAreIndependent == Streams!Spec
=============================================================================
