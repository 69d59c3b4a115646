----------------------------- MODULE BtSpeaker -----------------------------
(***************************************************************************)
(* The Bluetooth speaker of platform/esp_idf_bt: the sound's way           *)
(* (BtMedia.tla) and the control task that owns all radio policy           *)
(* (speaker.c, speaker_gap.c, speaker_avrcp.c, speaker_nvs.c).             *)
(*                                                                         *)
(* The stack's callbacks copy events into a queue; metadata text travels   *)
(* in slots beside it.  The control task handles one event at a time and   *)
(* then looks at the link, at the bonds it has still to remove, at the     *)
(* settings it has still to save and at the queue's overflow.              *)
(*                                                                         *)
(* Left out as data: volume, mute, playback state and track texts, which   *)
(* only their events set (kind INFO stands for CT_LINK, TG_LINK,           *)
(* VOLUME_SUBSCRIBE, CAPS, TRACK, PLAY_STATUS, POSITION and BOND_REMOVED); *)
(* the published copies of the status; and status.pairing, which is the    *)
(* discoverability that speaker_scan_mode set last.                        *)
(***************************************************************************)
EXTENDS BtMedia

CONSTANTS
  Peers,       \* the devices
  NoPeer,
  EventSlots,  \* length of the event queue
  TextSlots    \* SPEAKER_TEXT_SLOTS

ASSUME SpeakerAssumption ==
  /\ NoPeer \notin Peers
  /\ \A b \in Budgets : /\ b.peers \subseteq Peers /\ b.bonded \subseteq Peers
                        /\ b.opens \subseteq BOOLEAN
  /\ EventSlots \in Nat \ {0} /\ TextSlots \in Nat \ {0}

VARIABLES
  events, overflow,    \* the event queue; an event found it full
  used,                \* metadata_used: the text slots in use
  text,                \* callback task: the slot ct_cb is filling, 0 for none
  kpc,                 \* control task: "wait", "link" or "gap"
  seen_connected,      \* speaker.status.connected
  forgetting, have_peer, last_peer,
  settings_dirty,      \* something is to be saved
  save_due, remove_due, \* the times save_at and remove_at have come
  settings_open,       \* speaker_nvs_init could open the settings
  nvs, saved,          \* NVS: the peer set through the handle; the one in flash
  erased,              \* history: the last forget did remove the peer from the flash
  noticed,             \* history: peers the control task remembered since that forget
  discoverable,        \* stack: the scan mode (connectable and discoverable)
  bonds, removing,     \* stack: the bonded peers; the one being removed
  peer,                \* stack: the peer of the link
  hangup               \* stack: a disconnection was asked for

queueVars == <<events, overflow, used, text>>
speakerVars == <<seen_connected, forgetting, have_peer, last_peer>>
settingsVars == <<settings_dirty, save_due, remove_due, settings_open, nvs, saved, erased, noticed>>
stackVars == <<discoverable, bonds, removing, peer, hangup>>
controlVars == <<queueVars, kpc, speakerVars, settingsVars, stackVars>>
vars == <<mediaVars, controlVars>>

(* speaker_start and the start of control_task, with what an earlier use   *)
(* left in flash, if speaker_nvs_init can read it.                         *)
Init ==
  /\ MediaInit
  /\ events = <<>> /\ overflow = FALSE /\ used = {} /\ text = 0
  /\ kpc = "wait"
  /\ seen_connected = FALSE /\ forgetting = FALSE
  /\ bonds = budget.bonded /\ saved \in bonds \cup {NoPeer} /\ nvs = saved
  /\ settings_open \in budget.opens
  /\ have_peer = (settings_open /\ saved # NoPeer)
  /\ last_peer = IF have_peer THEN saved ELSE NoPeer
  /\ erased = FALSE /\ noticed = {}
  /\ settings_dirty = FALSE /\ save_due = FALSE /\ remove_due = TRUE
  /\ discoverable = TRUE
  /\ removing = NoPeer /\ peer = NoPeer /\ hangup = FALSE
----------------------------------------------------------------------------
(* The stack's callbacks.  All of them run on one task. *)

(* speaker_post *)
Post(e) ==
  IF Len(events) < EventSlots
  THEN events' = Append(events, e) /\ UNCHANGED overflow
  ELSE overflow' = TRUE /\ UNCHANGED events

CallbackIdle == rpc = "idle" /\ text = 0

Event(kind) == [kind |-> kind, payload |-> 0]

(* ct_cb for a metadata answer: a free slot, or the answer is dropped;     *)
(* then the text is copied.                                                *)
MetadataAcquire ==
  /\ CallbackIdle /\ connected
  /\ Spend("controls")
  /\ \E s \in (1..TextSlots) \ used :
       /\ \A t \in 1..(s - 1) : t \in used
       /\ used' = used \cup {s} /\ text' = s
  /\ UNCHANGED <<ingressVars, linkVars, woken, workerVars, decoderVars, heard,
                 reservoirVars, events, overflow, kpc, speakerVars, settingsVars, stackVars>>

(* Plausible mistake: a slot whose event found the queue full is kept. *)
MetadataPost_Leak ==
  /\ text # 0
  /\ Post([kind |-> "METADATA", payload |-> text])
  /\ text' = 0
  /\ UNCHANGED <<mediaVars, used, kpc, speakerVars, settingsVars, stackVars>>

(* The end of ct_cb: the event owns the slot from here on. *)
MetadataPost ==
  /\ text # 0
  /\ Post([kind |-> "METADATA", payload |-> text])
  /\ used' = IF Len(events) < EventSlots THEN used ELSE used \ {text}
  /\ text' = 0
  /\ UNCHANGED <<mediaVars, kpc, speakerVars, settingsVars, stackVars>>

(* The other answers and notifications of ct_cb and tg_cb; VOLUME is the   *)
(* one that makes something to save.                                       *)
Notification ==
  /\ CallbackIdle /\ connected
  /\ Spend("controls")
  /\ \E kind \in {"INFO", "VOLUME"} : Post(Event(kind))
  /\ UNCHANGED <<ingressVars, linkVars, woken, workerVars, decoderVars, heard,
                 reservoirVars, used, text, kpc, speakerVars, settingsVars, stackVars>>

(* gap_cb: authentication of the peer that connects.  Just Works pairing   *)
(* is always accepted, and a new bond made.                                *)
Authenticated(ok) ==
  /\ CallbackIdle /\ connecting
  /\ Spend("controls")
  /\ bonds' = IF ok THEN bonds \cup {peer} ELSE bonds
  /\ Post([kind |-> IF ok THEN "INFO" ELSE "REFUSED", payload |-> peer])
  /\ UNCHANGED <<ingressVars, linkVars, woken, workerVars, decoderVars, heard,
                 reservoirVars, used, text, kpc, speakerVars, settingsVars,
                 discoverable, removing, peer, hangup>>

(* The end of esp_bt_gap_remove_bond_device, which may have failed. *)
BondRemoved(ok) ==
  /\ CallbackIdle /\ removing # NoPeer
  /\ IF ok THEN bonds' = bonds \ {removing} /\ UNCHANGED budget
           ELSE Spend("controls") /\ UNCHANGED bonds
  /\ removing' = NoPeer
  /\ Post(Event("INFO"))
  /\ UNCHANGED <<ingressVars, linkVars, woken, workerVars, decoderVars, heard,
                 reservoirVars, used, text, kpc, speakerVars, settingsVars,
                 discoverable, peer, hangup>>
----------------------------------------------------------------------------
(* The link.  A peer reaches the speaker only while it is connectable. *)

Connecting ==
  /\ CallbackIdle /\ discoverable
  /\ LinkConnecting
  /\ peer' \in budget.peers
  /\ UNCHANGED <<queueVars, kpc, speakerVars, settingsVars, discoverable, bonds, removing,
                 hangup>>

Connected ==
  /\ CallbackIdle
  /\ LinkConnected \/ Configure
  /\ IF connecting THEN UNCHANGED peer ELSE discoverable /\ peer' \in budget.peers
  /\ UNCHANGED <<queueVars, kpc, speakerVars, settingsVars, discoverable, bonds, removing,
                 hangup>>

Disconnected ==
  /\ CallbackIdle
  /\ LinkDown
  /\ hangup' = FALSE
  /\ UNCHANGED <<queueVars, kpc, speakerVars, settingsVars, discoverable, bonds, removing,
                 peer>>

Sound ==
  /\ \/ text = 0 /\ (AudioPacket \/ AudioDropped \/ AudioLost \/ AudioConfig
                       \/ \E started \in BOOLEAN : AudioState(started))
     \/ AudioCopied
  /\ UNCHANGED controlVars
----------------------------------------------------------------------------
(* The control task. *)

(* speaker_scan_mode, for the values the caller has just set. *)
speaker_scan_mode(is_connected, is_forgetting) ==
  discoverable' = (~is_connected /\ ~is_forgetting)

(* speaker_disconnect and eaf_bt_esp_idf_disconnect: a link that is up or  *)
(* coming up is asked to go; the stack may refuse.                         *)
speaker_disconnect ==
  IF connected \/ connecting THEN hangup' \in {hangup, TRUE} ELSE UNCHANGED hangup

(* Whether the peer can be erased and the erasure committed is logged and  *)
(* no more.  What is set and not committed may reach the flash or not.     *)
speaker_nvs_forget_peer ==
  IF settings_open
  THEN \E erase, commit \in BOOLEAN :
         /\ nvs' = IF erase THEN NoPeer ELSE nvs
         /\ saved' \in IF commit THEN {nvs'} ELSE {saved, nvs'}
         /\ erased' = (erase /\ commit)
  ELSE erased' = FALSE /\ UNCHANGED <<nvs, saved>>

speaker_begin_forget ==
  /\ forgetting' = TRUE /\ have_peer' = FALSE
  /\ speaker_disconnect
  /\ speaker_scan_mode(seen_connected, TRUE)
  /\ speaker_nvs_forget_peer
  /\ noticed' = {}
  /\ UNCHANGED <<seen_connected, last_peer, settings_dirty, save_due, remove_due, settings_open>>

(* A peer that refuses our link key has unpaired: the stale bond goes. *)
Refused(e) == e.kind = "REFUSED" /\ have_peer /\ ~seen_connected /\ e.payload = last_peer

handle_event(e) ==
  \/ /\ e.kind = "FORGET" \/ Refused(e)
     /\ speaker_begin_forget
  \/ /\ e.kind = "DISCONNECT" \/ (e.kind = "PAIR" /\ ~forgetting)
     /\ speaker_disconnect
     /\ speaker_scan_mode(seen_connected, forgetting)
     /\ UNCHANGED <<speakerVars, settingsVars>>
  \/ /\ e.kind = "VOLUME"
     /\ settings_dirty' = TRUE /\ save_due' = FALSE
     /\ UNCHANGED <<speakerVars, remove_due, settings_open, nvs, saved, erased, noticed,
                    discoverable, hangup>>
  \/ /\ \/ e.kind \in {"INFO", "METADATA"} \/ (e.kind = "PAIR" /\ forgetting)
        \/ e.kind = "REFUSED" /\ ~Refused(e)
     /\ UNCHANGED <<speakerVars, settingsVars, discoverable, hangup>>

(* One turn of control_task: an event, or 100 ms without one; a metadata   *)
(* event gives its slot back.                                              *)
ControlEvent ==
  /\ kpc = "wait" /\ events # <<>>
  /\ LET e == Head(events)
     IN /\ handle_event(e)
        /\ used' = IF e.kind = "METADATA" THEN used \ {e.payload} ELSE used
  /\ events' = Tail(events)
  /\ kpc' = "link"
  /\ UNCHANGED <<mediaVars, overflow, text, bonds, removing, peer>>

ControlTimeout ==
  /\ kpc = "wait" /\ events = <<>>
  /\ kpc' = "link"
  /\ UNCHANGED <<mediaVars, queueVars, speakerVars, settingsVars, stackVars>>

(* tick up to speaker_gap_tick: the control task notices that the link has *)
(* gone up or down.                                                        *)
TickLink ==
  /\ kpc = "link"
  /\ kpc' = "gap"
  /\ IF connected = seen_connected
     THEN UNCHANGED <<speakerVars, settings_dirty, save_due, discoverable, noticed>>
     ELSE /\ seen_connected' = connected
          /\ IF connected
             THEN /\ last_peer' = peer /\ have_peer' = TRUE
                  /\ settings_dirty' = TRUE /\ save_due' = FALSE
                  /\ noticed' = noticed \cup {peer}
             ELSE UNCHANGED <<last_peer, have_peer, settings_dirty, save_due, noticed>>
          /\ speaker_scan_mode(connected, forgetting)
          /\ UNCHANGED forgetting
  /\ UNCHANGED <<mediaVars, queueVars, remove_due, settings_open, nvs, saved, erased, bonds,
                 removing, peer, hangup>>
----------------------------------------------------------------------------
(* The rest of tick: speaker_gap_tick, speaker_nvs_tick, the overflow. *)

(* Plausible mistake: the speaker forgets to show itself again. *)
speaker_gap_tick_Hidden ==
  IF forgetting /\ ~connected /\ ~connecting
  THEN \/ /\ bonds = {}
          /\ forgetting' = FALSE
          /\ UNCHANGED <<discoverable, removing, remove_due>>
       \/ /\ bonds # {} /\ remove_due
          /\ removing' \in bonds /\ remove_due' = FALSE
          /\ UNCHANGED <<forgetting, discoverable>>
       \/ /\ bonds # {} /\ ~remove_due
          /\ UNCHANGED <<forgetting, discoverable, removing, remove_due>>
  ELSE UNCHANGED <<forgetting, discoverable, removing, remove_due>>

(* "Remove one at a time; wait for the asynchronous list to change before  *)
(* requesting the next."  A request is repeated after two seconds.  When   *)
(* no bond is left the speaker shows itself.  (The link is down here, so   *)
(* speaker_start_pairing has nothing to disconnect.)                       *)
speaker_gap_tick ==
  IF forgetting /\ ~connected /\ ~connecting
  THEN \/ /\ bonds = {}
          /\ forgetting' = FALSE
          /\ speaker_scan_mode(seen_connected, FALSE)
          /\ UNCHANGED <<removing, remove_due>>
       \/ /\ bonds # {} /\ remove_due
          /\ removing' \in bonds /\ remove_due' = FALSE
          /\ UNCHANGED <<forgetting, discoverable>>
       \/ /\ bonds # {} /\ ~remove_due
          /\ UNCHANGED <<forgetting, discoverable, removing, remove_due>>
  ELSE UNCHANGED <<forgetting, discoverable, removing, remove_due>>

(* Plausible mistake: whatever peer is known is saved. *)
save_settings_Always(is_forgetting) ==
  /\ nvs' \in {nvs} \cup (IF have_peer THEN {last_peer} ELSE {})
  /\ saved' \in {saved, nvs'}
  /\ settings_dirty' = FALSE

(* Either call may fail; the settings count as saved all the same. *)
save_settings(is_forgetting) ==
  /\ nvs' \in {nvs} \cup (IF have_peer /\ ~is_forgetting THEN {last_peer} ELSE {})
  /\ saved' \in {saved, nvs'}
  /\ settings_dirty' = FALSE

speaker_nvs_tick ==
  IF settings_dirty /\ save_due /\ settings_open
  THEN save_settings(forgetting')
  ELSE UNCHANGED <<nvs, saved, settings_dirty>>

(* "control queue overflow; disconnecting to resynchronize" *)
TickOverflow ==
  /\ overflow' = FALSE
  /\ IF overflow THEN speaker_disconnect ELSE UNCHANGED hangup

TickRest ==
  /\ kpc = "gap"
  /\ speaker_gap_tick /\ speaker_nvs_tick /\ TickOverflow
  /\ kpc' = "wait"
  /\ UNCHANGED <<mediaVars, events, used, text, seen_connected, have_peer, last_peer,
                 save_due, settings_open, erased, noticed, bonds, peer>>

(* Two seconds pass for what waits for them. *)
Time ==
  /\ (settings_dirty /\ ~save_due) \/ (forgetting /\ ~remove_due)
  /\ save_due' = TRUE /\ remove_due' = TRUE
  /\ UNCHANGED <<mediaVars, queueVars, kpc, speakerVars, settings_dirty, settings_open, nvs,
                 saved, erased, noticed, stackVars>>

(* speaker_command: the application's call; a full queue refuses it. *)
speaker_command ==
  /\ Spend("controls")
  /\ Len(events) < EventSlots
  /\ \E c \in {"VOLUME", "PAIR", "DISCONNECT", "FORGET"} :
       events' = Append(events, Event(c))
  /\ UNCHANGED <<ingressVars, linkVars, woken, workerVars, decoderVars, heard,
                 reservoirVars, overflow, used, text, kpc, speakerVars, settingsVars,
                 stackVars>>
----------------------------------------------------------------------------
Callback ==
  \/ Sound \/ Connecting \/ Connected \/ Disconnected
  \/ MetadataAcquire \/ MetadataPost \/ Notification
  \/ \E ok \in BOOLEAN : Authenticated(ok) \/ BondRemoved(ok)

(* A budget names the tasks that run, the peers that may come, those       *)
(* bonded in an earlier use, and whether the settings can be opened.  The  *)
(* sound's way and the control task share only the state of the link, so   *)
(* each is explored with the other at rest: the sound below every order of *)
(* events of the link, and the control task beside a link that comes and   *)
(* goes as it likes.                                                       *)
Runs(task) == task \in budget.tasks

Control == Runs("control") /\ (ControlEvent \/ ControlTimeout \/ TickLink \/ TickRest)
Worker == Runs("sound") /\ Decode /\ UNCHANGED controlVars
Player == Runs("sound") /\ Output /\ UNCHANGED controlVars

Next == Callback \/ Worker \/ Player \/ Control \/ Time \/ speaker_command

(* The tasks run; the clock runs; and the stack finishes what it began: a  *)
(* callback, a connection that is coming up, a disconnection that was      *)
(* asked for, and the removal of a bond.                                   *)
Fairness ==
  /\ WF_vars(Worker) /\ WF_vars(Player) /\ WF_vars(Control) /\ WF_vars(Time)
  /\ WF_vars((AudioCopied /\ UNCHANGED controlVars) \/ MetadataPost)
  /\ WF_vars(connecting /\ (Connected \/ Disconnected))
  /\ WF_vars(hangup /\ Disconnected)
  /\ WF_vars(BondRemoved(TRUE))

Spec == Init /\ [][Next]_vars /\ Fairness
----------------------------------------------------------------------------
(* A text slot in use has one owner: the callback that fills it or one     *)
(* event in the queue.  So no slot is lost when the queue overflows, none  *)
(* is reused while its text is still to be read, and eight answers in      *)
(* flight never stop the next one for good.                                *)
SlotsOwned ==
  LET owners(s) == {i \in DOMAIN events : events[i].kind = "METADATA" /\ events[i].payload = s}
  IN \A s \in 1..TextSlots :
       Cardinality(owners(s)) + (IF text = s THEN 1 ELSE 0) = (IF s \in used THEN 1 ELSE 0)

(* The inductive invariant behind SlotsOwned, owner by owner: the callback *)
(* and the metadata events hold different slots, all of them in use, and   *)
(* every slot in use is held.                                              *)
Holds(i, s) == i \in DOMAIN events /\ events[i].kind = "METADATA" /\ events[i].payload = s

SlotsInv ==
  /\ events \in Seq({events[i] : i \in DOMAIN events})
  /\ used \subseteq 1..TextSlots
  /\ text # 0 => text \in used
  /\ \A i \in DOMAIN events : events[i].kind = "METADATA" => events[i].payload \in used
  /\ \A i \in DOMAIN events : ~Holds(i, text)
  /\ \A i, j \in DOMAIN events, s \in used : Holds(i, s) /\ Holds(j, s) => i = j
  /\ \A s \in used : s = text \/ \E i \in DOMAIN events : Holds(i, s)

(* After a forget that could erase it, the flash names no peer until the   *)
(* bonds are gone, although the control task may notice a link meanwhile   *)
(* and mark it to be saved: a restart in the middle finds nothing to       *)
(* remember.  Afterwards it names only a peer that the control task has    *)
(* remembered since the forget, never the one that was in last_peer or in  *)
(* the flash before, whatever else failed to be set or committed.          *)
ForgetIsSaved ==
  erased => /\ forgetting => saved = NoPeer
            /\ saved \in noticed \cup {NoPeer}

(* The inductive invariant behind ForgetIsSaved. *)
ForgetInv ==
  erased => /\ forgetting => nvs = NoPeer /\ saved = NoPeer
            /\ nvs \in noticed \cup {NoPeer} /\ saved \in noticed \cup {NoPeer}
            /\ have_peer => last_peer \in noticed

(* "an unpair can never leave the speaker invisible": without a link the   *)
(* speaker becomes connectable and discoverable again, also when the link  *)
(* breaks while it is being forgotten, when bonds are removed one by one,  *)
(* when a removal fails, or when an event was lost in a full queue.        *)
Reachable == ~connected ~> (discoverable \/ connected)
=============================================================================
