------------------------------ MODULE MCPlayer ------------------------------
(* Two configurations: MCPlayer.cfg lets every call fail and the owner and *)
(* the control thread do what they like; MCPlayerLive.cfg is the loop of   *)
(* play_file.c with fairness and without failures.                         *)
EXTENDS Player
=============================================================================
