---------------------------- MODULE MCLmsClient ----------------------------
(* Two streams of up to four bytes in frames of two: bytes are cut in the  *)
(* middle of frames, a stream can end inside one, and a ring of four and   *)
(* an output of two frames fill up.                                        *)
EXTENDS LmsClient
=============================================================================
