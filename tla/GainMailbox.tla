---------------------------- MODULE GainMailbox ----------------------------
(***************************************************************************)
(* The gain mailbox of platform/esp32_output/board_output.c: set_volume on *)
(* the transport thread, apply_volume once per block on the audio worker.  *)
(* The three atomics are sequentially consistent, so a step is one load or *)
(* store.  The n-th call of set_volume stores the pair (n, n); the initial *)
(* pair is (0, 0).  The 32-bit sequence number is not wrapped: a read      *)
(* spans fewer than 2^31 calls of set_volume.                              *)
(***************************************************************************)
EXTENDS Integers

CONSTANT MaxSets   \* bound: calls of set_volume

ASSUME MailboxAssumption == MaxSets \in Nat

VARIABLES
  gain_sequence, gain_left, gain_right, \* the atomics
  set,      \* set_volume calls begun
  wpc,      \* next step of set_volume
  before, left, right,  \* locals of apply_volume
  rpc,      \* next step of apply_volume
  gain0, gain1          \* volume.gain

writer == <<gain_sequence, gain_left, gain_right, set, wpc>>
reader == <<before, left, right, rpc, gain0, gain1>>
mailbox == <<writer, reader>>

MailboxInit ==
  /\ gain_sequence = 0 /\ gain_left = 0 /\ gain_right = 0 /\ set = 0 /\ wpc = "idle"
  /\ before = 0 /\ left = 0 /\ right = 0 /\ rpc = "idle" /\ gain0 = 0 /\ gain1 = 0
----------------------------------------------------------------------------
SetBegin ==
  /\ wpc = "idle" /\ set < MaxSets
  /\ gain_sequence' = gain_sequence + 1
  /\ set' = set + 1 /\ wpc' = "left"
  /\ UNCHANGED <<gain_left, gain_right, reader>>

SetLeft ==
  /\ wpc = "left"
  /\ gain_left' = set /\ wpc' = "right"
  /\ UNCHANGED <<gain_sequence, gain_right, set, reader>>

SetRight ==
  /\ wpc = "right"
  /\ gain_right' = set /\ wpc' = "end"
  /\ UNCHANGED <<gain_sequence, gain_left, set, reader>>

(* Plausible mistake: the sequence number stays odd. *)
SetEnd_Odd ==
  /\ wpc = "end"
  /\ wpc' = "idle"
  /\ UNCHANGED <<gain_sequence, gain_left, gain_right, set, reader>>

SetEnd ==
  /\ wpc = "end"
  /\ gain_sequence' = gain_sequence + 1 /\ wpc' = "idle"
  /\ UNCHANGED <<gain_left, gain_right, set, reader>>
----------------------------------------------------------------------------
(* An update under way is left to the next block. *)
ApplyBegin ==
  /\ rpc = "idle"
  /\ before' = gain_sequence
  /\ rpc' = IF gain_sequence % 2 = 1 THEN "idle" ELSE "left"
  /\ UNCHANGED <<writer, left, right, gain0, gain1>>

ApplyLeft ==
  /\ rpc = "left"
  /\ left' = gain_left /\ rpc' = "right"
  /\ UNCHANGED <<writer, before, right, gain0, gain1>>

ApplyRight ==
  /\ rpc = "right"
  /\ right' = gain_right /\ rpc' = "check"
  /\ UNCHANGED <<writer, before, left, gain0, gain1>>

(* Plausible mistake: the second look at the sequence number is missing. *)
ApplyEnd_Unchecked ==
  /\ rpc = "check"
  /\ gain0' = left /\ gain1' = right /\ rpc' = "idle"
  /\ UNCHANGED <<writer, before, left, right>>

ApplyEnd ==
  /\ rpc = "check"
  /\ IF before = gain_sequence THEN gain0' = left /\ gain1' = right
                               ELSE UNCHANGED <<gain0, gain1>>
  /\ rpc' = "idle"
  /\ UNCHANGED <<writer, before, left, right>>

SetVolume == SetBegin \/ SetLeft \/ SetRight \/ SetEnd
ApplyVolume == ApplyBegin \/ ApplyLeft \/ ApplyRight \/ ApplyEnd

MailboxNext == SetVolume \/ ApplyVolume

(* A set_volume that has begun is finished; the worker plays on. *)
MailboxSpec ==
  /\ MailboxInit /\ [][MailboxNext]_mailbox
  /\ WF_mailbox(wpc # "idle" /\ SetVolume) /\ WF_mailbox(ApplyVolume)
----------------------------------------------------------------------------
MailboxTypeOK ==
  /\ gain_sequence \in Nat /\ set \in 0..MaxSets
  /\ gain_left \in 0..MaxSets /\ gain_right \in 0..MaxSets
  /\ wpc \in {"idle", "left", "right", "end"}
  /\ before \in Nat /\ left \in 0..MaxSets /\ right \in 0..MaxSets
  /\ rpc \in {"idle", "left", "right", "check"}
  /\ gain0 \in 0..MaxSets /\ gain1 \in 0..MaxSets

(* The worker never applies the left gain of one call and the right gain   *)
(* of another, nor a pair half written.                                    *)
Coherent == gain0 = gain1

(* A read takes effect at one moment: when the applied gains change, no    *)
(* call of set_volume is under way and they are those of the last one,     *)
(* although they were loaded earlier.                                      *)
NeverStale ==
  [][gain0' # gain0 \/ gain1' # gain1 =>
       wpc = "idle" /\ gain0' = set /\ gain1' = set]_mailbox

(* Once set_volume is no longer called, the last pair is applied: an       *)
(* update seen half way is only deferred.                                  *)
LastApplied == <>[](wpc = "idle") => <>[](gain0 = set /\ gain1 = set)
----------------------------------------------------------------------------
(* Inductive invariant: the sequence number counts the calls twice; the    *)
(* stored pair is that of the last call up to the store under way; and     *)
(* what a read has loaded under an even, unchanged number is that pair.    *)
WriterInv ==
  /\ gain_sequence = IF wpc = "idle" THEN 2 * set ELSE 2 * set - 1
  /\ wpc # "idle" => set > 0
  /\ gain_left = IF wpc = "left" THEN set - 1 ELSE set
  /\ gain_right = IF wpc \in {"left", "right"} THEN set - 1 ELSE set

ReaderInv ==
  /\ before <= gain_sequence
  /\ rpc # "idle" => \E k \in 0..MaxSets : before = 2 * k
  /\ gain0 = gain1 /\ 2 * gain0 <= before
  /\ before = gain_sequence /\ rpc \in {"right", "check"} => left = set
  /\ before = gain_sequence /\ rpc = "check" => right = set

MailboxInv == MailboxTypeOK /\ WriterInv /\ ReaderInv
=============================================================================
