---------------------------- MODULE MCBodyChannel ----------------------------
(* Bodies of up to three chunks of one or two bytes, of a length of three      *)
(* bytes or chunked, with u64 narrowed to 0 .. 7.                              *)
EXTENDS BodyChannel

MCLengths == {3, CHUNKED}
=============================================================================
