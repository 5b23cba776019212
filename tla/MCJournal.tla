------------------------------ MODULE MCJournal ------------------------------
(* UsnJournal on a volume that holds one file, whose rows take two of the   *)
(* three clusters of a window.                                              *)
EXTENDS UsnJournal

MCVolumes ==
    { << [seq |-> 1, in_use |-> TRUE, dir |-> FALSE, name |-> "f", parent |-> Root,
          parent_seq |-> 5] >> }
MCDirectoryNames == {}
MCLengthOf == [f |-> 2]
=============================================================================
