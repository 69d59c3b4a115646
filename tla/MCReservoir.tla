----------------------------- MODULE MCReservoir -----------------------------
(* A ring of four frames whose cursors wrap after two turns, and a stream  *)
(* long enough for both cursors to wrap while frames are queued.           *)
EXTENDS Reservoir
=============================================================================
