---------------------------- MODULE SampleVerdict ----------------------------
(* What acquisition promises of one candidate, whatever it tries on the     *)
(* way: ONE decision that either obtains bytes, and then saves and hashes   *)
(* exactly those, or obtains none and leaves nothing behind.                *)
CONSTANTS Contents, NoContent, WriteOut

VARIABLES
    identity,   \* the digest this file is known by
    digest,     \* the digest of the bytes obtained
    sample,     \* what the sample directory holds for the candidate
    verdict     \* "pending", "trusted", "unproven" or "none"

vars == << identity, digest, sample, verdict >>

Init ==
    /\ identity \in Contents \cup {NoContent}
    /\ digest = NoContent
    /\ sample = NoContent
    /\ verdict = "pending"

Obtain(bytes) ==
    /\ verdict = "pending"
    /\ digest' = bytes
    /\ sample' = IF WriteOut THEN bytes ELSE NoContent

(* Bytes that are the file become its identity.                             *)
Trust(bytes) ==
    /\ Obtain(bytes)
    /\ verdict' = "trusted"
    /\ identity' = bytes

(* Bytes nothing proves never replace a digest an artifact recorded.        *)
Caveat(bytes) ==
    /\ Obtain(bytes)
    /\ verdict' = "unproven"
    /\ IF identity = NoContent
       THEN identity' \in {bytes, NoContent}
       ELSE UNCHANGED identity

GiveUp ==
    /\ verdict = "pending"
    /\ verdict' = "none"
    /\ UNCHANGED << identity, digest, sample >>

Next == (\E bytes \in Contents : Trust(bytes) \/ Caveat(bytes)) \/ GiveUp

Spec == Init /\ [][Next]_vars
=============================================================================
