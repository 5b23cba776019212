--------------------------- MODULE MCAcquireChain ---------------------------
(* AcquireChain with two possible contents: the file an artifact hashed and *)
(* some other file, in either role.                                         *)
EXTENDS AcquireChain, TLC

CONSTANTS c1, c2
MCContents == {c1, c2}
ContentSymmetry == Permutations(MCContents)
=============================================================================
