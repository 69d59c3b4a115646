--------------------------- MODULE MCBoardOutput ---------------------------
(* The output with two tracks of up to three frames and three pause        *)
(* requests, enough for a late answer to meet the next request, with every *)
(* call failing or not; and its gain mailbox with four updates, so that a  *)
(* read can be overtaken by one or by several.  The two share no state:    *)
(* part says which of them a behaviour is about, the other rests.          *)
EXTENDS BoardOutput, GainMailbox

VARIABLE part

board == <<vars, mailbox, part>>

BoardInit == Init /\ MailboxInit /\ part \in {"output", "mailbox"}

InOutput(A) == part = "output" /\ A /\ UNCHANGED <<mailbox, part>>
InMailbox(A) == part = "mailbox" /\ A /\ UNCHANGED <<vars, part>>

BoardNext == InOutput(Next) \/ InMailbox(MailboxNext)

(* The fairness of Spec and of MailboxSpec. *)
BoardSpec ==
  /\ BoardInit /\ [][BoardNext]_board
  /\ WF_board(InOutput(Worker)) /\ WF_board(InOutput(TransportGoesOn))
  /\ WF_board(InMailbox(wpc # "idle" /\ SetVolume)) /\ WF_board(InMailbox(ApplyVolume))
=============================================================================
