--------------------------- MODULE RendezvousSpec ---------------------------
(***************************************************************************)
(* What a rendezvous channel promises: a sender and a receiver meet and    *)
(* exchange a message in one instant, and neither returns before that.     *)
(* A message is named by its sender.                                       *)
(***************************************************************************)
CONSTANTS Senders, Receivers

VARIABLES
  send,  \* "idle", "offering" or "sent"
  recv   \* "idle", "wanting" or the message received

absvars == <<send, recv>>

Init ==
  /\ send = [s \in Senders |-> "idle"]
  /\ recv = [r \in Receivers |-> "idle"]

Offer(s) == send[s] = "idle" /\ send' = [send EXCEPT ![s] = "offering"] /\ UNCHANGED recv

Want(r) == recv[r] = "idle" /\ recv' = [recv EXCEPT ![r] = "wanting"] /\ UNCHANGED send

Meet(s, r) ==
  /\ send[s] = "offering" /\ recv[r] = "wanting"
  /\ send' = [send EXCEPT ![s] = "sent"]
  /\ recv' = [recv EXCEPT ![r] = s]

SendReturns(s) == send[s] = "sent" /\ send' = [send EXCEPT ![s] = "idle"] /\ UNCHANGED recv

ReceiveReturns(r) ==
  recv[r] \in Senders /\ recv' = [recv EXCEPT ![r] = "idle"] /\ UNCHANGED send

Next ==
  \/ \E s \in Senders : Offer(s) \/ SendReturns(s)
  \/ \E r \in Receivers : Want(r) \/ ReceiveReturns(r)
  \/ \E s \in Senders, r \in Receivers : Meet(s, r)

Spec == Init /\ [][Next]_absvars

(***************************************************************************)
(* When somebody offers and somebody wants, some exchange takes place, and *)
(* both parties of it return.                                              *)
(***************************************************************************)
Fairness ==
  /\ WF_absvars(\E s \in Senders, r \in Receivers : Meet(s, r))
  /\ \A s \in Senders : WF_absvars(SendReturns(s))
  /\ \A r \in Receivers : WF_absvars(ReceiveReturns(r))
=============================================================================
