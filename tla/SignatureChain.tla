--------------------------- MODULE SignatureChain ---------------------------
(***************************************************************************)
(* mm-sign/verify.rs, build_chain and what verify_signer concludes of it:   *)
(* from the signer's certificate up, through the certificates of the file,  *)
(* to a root the build embeds.  The walk is depth first and comes back from *)
(* every certificate that leads nowhere; one step of the loop in walk() is  *)
(* one action.                                                              *)
(*                                                                         *)
(* A certificate has a subject, an issuer, a key and the key it was signed  *)
(* with, and times outside its validity; the keys in Unsupported are of an  *)
(* algorithm crypto::verify does not know.  That the signer's own signature *)
(* holds, and its purpose, is settled before the walk.                      *)
(***************************************************************************)
EXTENDS Naturals, Sequences, FiniteSets, SequencesExt

CONSTANTS
    Pools,          \* the certificates of a file, in its order, the signer's first
    Stores,         \* the roots of a trust store, in its order
    Unsupported,
    MaxDepth,       \* MAX_CHAIN_DEPTH
    MaxWork         \* MAX_CHAIN_WORK

VARIABLES
    pool, roots,
    time,           \* "now", or the time of a countersignature, and its standing
    path,           \* the certificates from the signer's to the current one
    frames,         \* of each of them: the issuers walk() has still to try
    budget,         \* WalkNotes
    broken,
    uncheckable,
    deepest,
    chain,          \* ChainResult
    outcome         \* SignerOutcome.outcome

(* A file has its signer's certificate.                                     *)
PoolAssumption ==
    /\ \A p \in Pools : p # << >> /\ p \in Seq(ToSet(p))
    /\ \A s \in Stores : s \in Seq(ToSet(s))
    /\ MaxDepth \in Nat \ {0} /\ MaxWork \in Nat

given == << pool, roots, time >>
notes == << broken, uncheckable >>
vars == << given, path, frames, budget, notes, deepest, chain, outcome >>

None == << >>
Leaf == pool[1]

(* verify_issued_by                                                         *)
Check(child, issuer) ==
    CASE issuer.key \in Unsupported -> "cannot"
      [] issuer.key \notin Unsupported /\ child.by = issuer.key -> "good"
      [] OTHER -> "bad"

Names(issuer, child) == issuer.subject = child.issuer

MayIssue(p, c) == Names(c, Last(p)) /\ c \notin ToSet(p) /\ c.ca

(* The elements of a sequence that are in a set, in its order.              *)
Those(s, set) ==
    LET upto[i \in 0..Len(s)] ==
            IF i = 0 THEN << >>
            ELSE IF s[i] \in set THEN Append(upto[i - 1], s[i]) ELSE upto[i - 1]
    IN upto[Len(s)]

(* What walk() tries for the last certificate of a path, the roots first.   *)
Issuers(p) ==
    IF Len(p) > MaxDepth THEN << >>
    ELSE Those(roots, { r \in ToSet(roots) : Names(r, Last(p)) })
           \o Those(pool, { c \in ToSet(pool) : MayIssue(p, c) })

Deeper(p) == IF Len(p) <= MaxDepth /\ Len(p) > Len(deepest) THEN p ELSE deepest

Init ==
    /\ pool \in Pools /\ roots \in Stores
    /\ time \in {"now", "corroborated", "uncorroborated"}
    /\ path = << Leaf >>
    /\ frames = << Issuers(path) >>
    /\ budget = MaxWork
    /\ broken = FALSE /\ uncheckable = FALSE
    /\ deepest = << Leaf >>
    /\ chain = None /\ outcome = "none"

-----------------------------------------------------------------------------
Walking == chain = None /\ frames # << >>
Try == Head(Last(frames))
Tried == Front(frames) \o << Tail(Last(frames)) >>
IsRoot(c) == c \in ToSet(roots)

CheckIssuer ==
    /\ Walking /\ Last(frames) # << >> /\ budget > 0
    /\ budget' = budget - 1
    /\ UNCHANGED << given, outcome >>

ReachRoot ==
    /\ CheckIssuer
    /\ IsRoot(Try) /\ Check(Last(path), Try) = "good"
    /\ chain' = [kind |-> "Reached", path |-> path, root |-> Try]
    /\ UNCHANGED << path, frames, notes, deepest >>

Climb ==
    /\ CheckIssuer
    /\ ~IsRoot(Try) /\ Check(Last(path), Try) = "good"
    /\ path' = Append(path, Try)
    /\ frames' = Append(Tried, Issuers(path'))
    /\ deepest' = Deeper(path')
    /\ UNCHANGED << notes, chain >>

NotIssued ==
    /\ CheckIssuer
    /\ Check(Last(path), Try) # "good"
    /\ frames' = Tried
    /\ broken' = (broken \/ Check(Last(path), Try) = "bad")
    /\ uncheckable' = (uncheckable \/ Check(Last(path), Try) = "cannot")
    /\ UNCHANGED << path, deepest, chain >>

(* Fault: the certificate that led nowhere stays on the path.               *)
Stay(p) == p

Leave(p) == Front(p)

(* Nothing left to try, or nothing left to try it with.                     *)
ComeBack ==
    /\ Walking
    /\ Last(frames) = << >> \/ budget = 0
    /\ frames' = Front(frames)
    /\ path' = IF Len(frames) > 1 THEN Leave(path) ELSE path
    /\ UNCHANGED << given, budget, notes, deepest, chain, outcome >>

SelfIssued(c) == c.issuer = c.subject

Exhausted == budget = 0

GiveUp ==
    /\ chain = None /\ frames = << >>
    /\ chain' = [kind |-> CASE Exhausted -> "Uncheckable"
                            [] ~Exhausted /\ uncheckable -> "Uncheckable"
                            [] ~Exhausted /\ ~uncheckable /\ broken -> "Broken"
                            [] OTHER -> IF SelfIssued(Last(deepest)) THEN "SelfSignedTop"
                                        ELSE "Incomplete"]
    /\ UNCHANGED << given, path, frames, budget, notes, deepest, outcome >>

(* A corroborated time is "then", and validity is asked for at it.          *)
evaluated_at == IF time = "corroborated" THEN "then" ELSE "now"
Reached ==
    IF \A i \in DOMAIN chain.path : evaluated_at \notin chain.path[i].outside THEN "Valid"
    ELSE IF time = "uncorroborated" THEN "Unknown" ELSE "Expired"

Conclude ==
    /\ chain # None /\ outcome = "none"
    /\ outcome' = CASE chain.kind = "Reached" -> Reached
                    [] chain.kind = "SelfSignedTop" -> "Untrusted"
                    [] chain.kind = "Broken" -> "Invalid"
                    [] chain.kind \in {"Incomplete", "Uncheckable"} -> "Unknown"
    /\ UNCHANGED << given, path, frames, budget, notes, deepest, chain >>

Next == ReachRoot \/ Climb \/ NotIssued \/ ComeBack \/ GiveUp \/ Conclude

Spec == Init /\ [][Next]_vars

-----------------------------------------------------------------------------
(* A chain: the signer's certificate, each issued by the next, which may    *)
(* issue, the last by a root, and none of them twice.                       *)
Issued(child, issuer) == Names(issuer, child) /\ Check(child, issuer) = "good"
IsChain(p) ==
    /\ p[1] = Leaf /\ IsInjective(p)
    /\ \A i \in 1 .. Len(p) - 1 : p[i + 1].ca /\ Issued(p[i], p[i + 1])
    /\ \E r \in ToSet(roots) : Issued(Last(p), r)
Chains == { p \in SeqOf(ToSet(pool), MaxDepth) : p # << >> /\ IsChain(p) }

Vouched == outcome \in {"Valid", "Expired"}

(* A signer is vouched for by a chain to a root, and every one that has a   *)
(* chain no longer than the walk goes is found, past certificates of the    *)
(* same name, loops and dead ends, in whatever order the file has them;     *)
(* unless the work it may do was spent, and then nothing is concluded.      *)
ChainsAreFound ==
    outcome # "none" =>
        /\ chain.kind = "Reached" => chain.path \in Chains
        /\ Chains # {} => chain.kind = "Reached" \/ budget = 0
        /\ budget = 0 /\ chain.kind # "Reached" => outcome = "Unknown"
=============================================================================
