---------------------------- MODULE MCConfigMerge ----------------------------
(* Every pair of lists of at most three entries; bodies tell the lists apart. *)
EXTENDS ConfigMerge, SequencesExt

MCName == {"a", "b", "c"}
MCUserFiles == BoundedSeq([name : {"a", "b"}, body : {"u1", "u2"}], 3)
MCEmbedded == BoundedSeq([name : {"a", "b", "c"}, body : {"e"}], 3)
=============================================================================
