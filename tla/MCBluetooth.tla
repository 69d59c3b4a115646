---------------------------- MODULE MCBluetooth ----------------------------
(* The bounds come in mixes, explored one after the other in one run.  For *)
(* the sound: many packets and few changes of the stream, few packets and  *)
(* many changes, and the same behind the Zephyr binding, which can see     *)
(* losses, and behind ESP-IDF with media that the binding leaves out.  For *)
(* the control task: its events, commands and refused calls, with settings *)
(* that cannot be opened and, fewer of them, with settings that can.       *)
EXTENDS BtSpeaker

CONSTANTS p1, p2

SoundMix(b, p, e, f) ==
  [tasks |-> {"sound"}, binding |-> b, packets |-> p, events |-> e, controls |-> 0,
   faults |-> f, peers |-> {p1}, bonded |-> {}, opens |-> {TRUE}]
ControlMix(e, c, o) ==
  [tasks |-> {"control"}, binding |-> "esp_idf", packets |-> 0, events |-> e, controls |-> c,
   faults |-> 0, peers |-> {p1}, bonded |-> {p1, p2}, opens |-> o]

MCPeers == {p1, p2}
SoundBudgets ==
  {SoundMix("esp_idf", 4, 2, 0), SoundMix("esp_idf", 2, 4, 0), SoundMix("esp_idf", 2, 2, 1),
   SoundMix("zephyr", 3, 2, 0)}
ControlBudgets == {ControlMix(2, 3, {FALSE}), ControlMix(2, 2, {TRUE})}
MCBudgets == SoundBudgets \cup ControlBudgets
=============================================================================
