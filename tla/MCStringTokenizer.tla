-------------------------- MODULE MCStringTokenizer --------------------------
(***************************************************************************)
(* Every string of up to five characters over a name letter, a digit and *)
(* both delimiters of the layout grammar, fed to the ',' tokenizer that  *)
(* BitFieldCoder::init builds first.                                       *)
(***************************************************************************)
EXTENDS StringTokenizer

MCInputs == BoundedSeq({"a", "1", ",", ":"}, 5)
=============================================================================
