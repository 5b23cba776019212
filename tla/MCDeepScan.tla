----------------------------- MODULE MCDeepScan -----------------------------
EXTENDS DeepScan

MCTargets == 1..2

(* An image inside any buffer, one whose headers straddle two chunks, one   *)
(* that has to be read again, and one that answers to nothing.              *)
MCImages ==
    { [length |-> 1, header |-> 1, answers |-> {1}],
      [length |-> 2, header |-> 2, answers |-> {2}],
      [length |-> 4, header |-> 1, answers |-> {1, 2}],
      [length |-> 4, header |-> 1, answers |-> {}] }
=============================================================================
