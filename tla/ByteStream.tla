----------------------------- MODULE ByteStream -----------------------------
(* What every Read + Seek of the storage stack promises the parsers above   *)
(* it: each reader has a position of its own, an answer is the run of bytes *)
(* that starts there, and a failed operation moves nothing.  A byte stands  *)
(* for its own offset on the medium.                                        *)
EXTENDS Integers

CONSTANTS Readers, MaxOffset

VARIABLES
    pos,    \* the position of each reader
    got     \* the answer to its last operation

vars == << pos, got >>

Bytes(from, count) == [i \in 1..count |-> from + i - 1]
Nothing == [kind |-> "nothing"]
Answer(bytes) == [kind |-> "read", bytes |-> bytes]
Refused == [kind |-> "error"]

Init ==
    /\ pos = [r \in Readers |-> 0]
    /\ got = [r \in Readers |-> Nothing]

Read(r) ==
    \E count \in 0..(MaxOffset - pos[r]) :
        /\ got' = [got EXCEPT ![r] = Answer(Bytes(pos[r], count))]
        /\ pos' = [pos EXCEPT ![r] = @ + count]

Fail(r) ==
    /\ got' = [got EXCEPT ![r] = Refused]
    /\ UNCHANGED pos

Seek(r) ==
    \E target \in 0..MaxOffset :
        /\ pos' = [pos EXCEPT ![r] = target]
        /\ got' = [got EXCEPT ![r] = Nothing]

Next == \E r \in Readers : Read(r) \/ Fail(r) \/ Seek(r)

Spec == Init /\ [][Next]_vars
=============================================================================
