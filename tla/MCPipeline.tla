----------------------------- MODULE MCPipeline -----------------------------
(* What the parsers can say: enough for two of them to meet at one file,    *)
(* under its own name, through a junction, or on another volume.  Stages    *)
(* that would say no more than another of these find nothing.               *)
EXTENDS Pipeline, TLC

CONSTANTS c1, c2
MCContents == {c1, c2}

Says(kinds, keys, digests, elsewhere) ==
    [kind : kinds, key : keys, elsewhere : elsewhere, digest : digests]

MCClaims ==
    [s \in ToSet(Stages) |->
       CASE s = "SOFTWARE" ->
              Says({"com"}, {"user", "program"}, {NoDigest}, {FALSE})
                \cup Says({"deletedCom"}, {"program"}, {NoDigest}, {FALSE})
         [] s = "users" ->
              Says({"com"}, {"program"}, {NoDigest}, {FALSE})
                \cup Says({"value"}, {"program", "alias"}, {NoDigest}, {FALSE})
         [] s = "Amcache" ->
              Says({"executed"}, {"user", "program"}, MCContents, {FALSE})
                \cup Says({"executed"}, {"alias"}, {NoDigest}, {FALSE})
         [] s = "quarantine" -> Says({"quarantined"}, {"user"}, {NoDigest}, {TRUE})
         [] s = "Defender" -> Says({"detected"}, {"user", "alias"}, {NoDigest}, {FALSE})
         [] OTHER -> {}]

Symmetry == Permutations(MCContents)
=============================================================================
