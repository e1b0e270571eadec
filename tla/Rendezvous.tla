----------------------------- MODULE Rendezvous -----------------------------
(***************************************************************************)
(* The rendezvous channel (kernel/rendezvous).  Its two sides are mirror   *)
(* images in the code, and one set of actions here:                        *)
(*                                                                         *)
(*   ExchangeState::WaitingForReceiver(g, m)  at = "waiting", Sender side  *)
(*   ExchangeState::WaitingForSender(g)       at = "waiting", Receiver     *)
(*   ExchangeState::ReceiverFinishedFirst     at = "done", first Receiver  *)
(*   ExchangeState::SenderFinishedFirst(m)    at = "done", first Sender    *)
(*                                                                         *)
(* A message is named by its sender.                                       *)
(***************************************************************************)
EXTENDS WaitQueueOps, FiniteSets

CONSTANTS
  Senders, Receivers,  \* the tasks that call send() and receive()
  Spurious             \* tasks that others may unblock at any time

Tasks == Senders \cup Receivers
Sides == {"Sender", "Receiver"}

ASSUME RendezvousAssumption ==
  /\ IsFiniteSet(Tasks) /\ Senders \cap Receivers = {}
  /\ Spurious \subseteq Tasks

None == "none"

VARIABLES
  runstate,  \* Task.runstate
  exchange,  \* the ExchangeState: at, the side that came or finished first,
             \* the task in its WaitGuard, and the message it encloses
  slot,      \* whether ExchangeSlot.sender and .receiver hold a slot
  waiting,   \* Channel.waiting_senders and waiting_receivers
  pc,
  partner,   \* the task in the WaitGuard that the caller is about to drop
  msg,       \* the message that a receive() is about to return
  disturbed  \* history: a task was unblocked from outside

vars == <<runstate, exchange, slot, waiting, pc, partner, msg, disturbed>>

Side(t)  == IF t \in Senders THEN "Sender" ELSE "Receiver"
Other(x) == IF x = "Sender" THEN "Receiver" ELSE "Sender"
PCs == {"idle", "take", "wait", "asleep", "meet", "waiting", "finish", "unblock",
        "give_other", "notify_other", "give_own", "notify_own", "bug"}

Exchanges == [at : {"init", "waiting", "done"}, side : Sides \cup {None},
              task : Tasks \cup {None}, m : Senders \cup {None}]
InitState == [at |-> "init", side |-> None, task |-> None, m |-> None]

TypeOK ==
  /\ runstate \in [Tasks -> {Runnable, Blocked}]
  /\ exchange \in Exchanges
  /\ slot \in [Sides -> BOOLEAN]
  /\ waiting \in [Sides -> Seq(Tasks)]
  /\ pc \in [Tasks -> PCs]
  /\ partner \in [Tasks -> Tasks \cup {None}]
  /\ msg \in [Receivers -> Senders \cup {None}]
  /\ disturbed \in BOOLEAN

Init ==
  /\ runstate = [t \in Tasks |-> Runnable]
  /\ exchange = InitState
  /\ slot = [x \in Sides |-> TRUE]
  /\ waiting = [x \in Sides |-> <<>>]
  /\ pc = [t \in Tasks |-> "idle"]
  /\ partner = [t \in Tasks |-> None]
  /\ msg = [r \in Receivers |-> None]
  /\ disturbed = FALSE

Goto(t, from, to) == pc[t] = from /\ pc' = [pc EXCEPT ![t] = to]

Receives(t, m) == msg' = IF t \in Receivers THEN [msg EXCEPT ![t] = m] ELSE msg

NotifyOne(x) ==
  \E o \in NotifyOneOutcomes(waiting[x], runstate) :
    /\ waiting' = [waiting EXCEPT ![x] = o.queue]
    /\ runstate' = UnblockAll(runstate, o.woken)

Call(t) == Goto(t, "idle", "take") /\ UNCHANGED <<runstate, exchange, slot, waiting, partner, msg>>

(***************************************************************************)
(* take_sender_slot() and take_receiver_slot(): first without the wait     *)
(* queue, then as its condition.                                           *)
(***************************************************************************)
TakeSlot(t) ==
  /\ slot' = [slot EXCEPT ![Side(t)] = FALSE]
  /\ Goto(t, "take", IF slot[Side(t)] THEN "meet" ELSE "wait")
  /\ UNCHANGED <<runstate, exchange, waiting, partner, msg>>

WaitTakesSlot(t) ==
  /\ slot[Side(t)]
  /\ slot' = [slot EXCEPT ![Side(t)] = FALSE]
  /\ Goto(t, "wait", "meet")
  /\ UNCHANGED <<runstate, exchange, waiting, partner, msg>>

WaitBlocks(t) ==
  /\ ~slot[Side(t)]
  /\ Goto(t, "wait", "asleep")
  /\ waiting' = [waiting EXCEPT ![Side(t)] = Enqueue(@, t)]
  /\ runstate' = Block(runstate, t)
  /\ UNCHANGED <<exchange, slot, partner, msg>>

Resume(t) ==
  /\ runstate[t] = Runnable
  /\ Goto(t, "asleep", "wait")
  /\ UNCHANGED <<runstate, exchange, slot, waiting, partner, msg>>

(***************************************************************************)
(* The first critical section on the exchange state.  Whoever comes first  *)
(* leaves a WaitGuard (and the message, if it is the sender) and blocks;   *)
(* whoever comes second completes the exchange.                            *)
(***************************************************************************)
Message(t) == IF t \in Senders THEN t ELSE None

ArriveFirst(t) ==
  /\ exchange.at = "init"
  /\ Goto(t, "meet", "waiting")
  /\ exchange' = [at |-> "waiting", side |-> Side(t), task |-> t, m |-> Message(t)]
  /\ runstate' = Block(runstate, t)
  /\ UNCHANGED <<slot, waiting, partner, msg>>

ReadAfterWrite(t) ==  \* mutant: the message is read out of the new state
  /\ exchange.at = "waiting" /\ exchange.side = Other(Side(t))
  /\ Goto(t, "meet", "unblock")
  /\ partner' = [partner EXCEPT ![t] = exchange.task]
  /\ exchange' = [at |-> "done", side |-> Side(t), task |-> None, m |-> Message(t)]
  /\ Receives(t, exchange'.m)
  /\ UNCHANGED <<runstate, slot, waiting>>

ArriveSecond(t) ==
  /\ exchange.at # "init"
  /\ IF exchange.at = "waiting" /\ exchange.side = Other(Side(t))
     THEN /\ Goto(t, "meet", "unblock")
          /\ partner' = [partner EXCEPT ![t] = exchange.task]
          /\ exchange' = [at |-> "done", side |-> Side(t), task |-> None, m |-> Message(t)]
          /\ Receives(t, exchange.m)
     ELSE /\ Goto(t, "meet", "bug") /\ UNCHANGED <<exchange, partner, msg>>
  /\ UNCHANGED <<runstate, slot, waiting>>

(***************************************************************************)
(* Outside of the lock the guard is dropped, which unblocks the first one, *)
(* and the call returns without giving its slot back.                      *)
(***************************************************************************)
GiveSlotToo(t) ==     \* mutant: the second one gives its slot back at once
  /\ Goto(t, "unblock", "idle")
  /\ runstate' = Unblock(runstate, partner[t])
  /\ partner' = [partner EXCEPT ![t] = None]
  /\ slot' = [slot EXCEPT ![Side(t)] = TRUE]
  /\ Receives(t, None)
  /\ UNCHANGED <<exchange, waiting>>

DropGuard(t) ==
  /\ Goto(t, "unblock", "idle")
  /\ runstate' = Unblock(runstate, partner[t])
  /\ partner' = [partner EXCEPT ![t] = None]
  /\ Receives(t, None)
  /\ UNCHANGED <<exchange, slot, waiting>>

(***************************************************************************)
(* The loop of the one who waits: block again after a spurious wakeup.     *)
(***************************************************************************)
TrustWakeup(t) ==     \* mutant: any wakeup is taken for the exchange
  /\ runstate[t] = Runnable
  /\ Goto(t, "waiting", "finish")
  /\ UNCHANGED <<runstate, exchange, slot, waiting, partner, msg>>

Recheck(t) ==
  /\ runstate[t] = Runnable
  /\ IF exchange.at = "waiting" /\ exchange.side = Side(t)
     THEN IF exchange.task = t THEN runstate' = Block(runstate, t) /\ UNCHANGED pc /\ pc[t] = "waiting"
                               ELSE Goto(t, "waiting", "bug") /\ UNCHANGED runstate
     ELSE Goto(t, "waiting", "finish") /\ UNCHANGED runstate
  /\ UNCHANGED <<exchange, slot, waiting, partner, msg>>

(***************************************************************************)
(* The second critical section resets the exchange state.                  *)
(***************************************************************************)
Finish(t) ==
  /\ IF exchange.at = "done" /\ exchange.side = Other(Side(t))
     THEN Goto(t, "finish", "give_other") /\ exchange' = InitState /\ Receives(t, exchange.m)
     ELSE Goto(t, "finish", "bug") /\ UNCHANGED <<exchange, msg>>
  /\ UNCHANGED <<runstate, slot, waiting, partner>>

(***************************************************************************)
(* Restore the other side's slot, notify there; restore the own one,       *)
(* notify there.                                                           *)
(***************************************************************************)
GiveOther(t) ==
  /\ Goto(t, "give_other", "notify_other")
  /\ slot' = [slot EXCEPT ![Other(Side(t))] = TRUE]
  /\ UNCHANGED <<runstate, exchange, waiting, partner, msg>>

SkipNotify(t) ==      \* mutant: the other side's waiters are not notified
  /\ Goto(t, "notify_other", "give_own")
  /\ UNCHANGED <<runstate, waiting, exchange, slot, partner, msg>>

NotifyOther(t) ==
  /\ Goto(t, "notify_other", "give_own")
  /\ NotifyOne(Other(Side(t)))
  /\ UNCHANGED <<exchange, slot, partner, msg>>

GiveOwn(t) ==
  /\ Goto(t, "give_own", "notify_own")
  /\ slot' = [slot EXCEPT ![Side(t)] = TRUE]
  /\ UNCHANGED <<runstate, exchange, waiting, partner, msg>>

NotifyOwn(t) ==
  /\ Goto(t, "notify_own", "idle")
  /\ NotifyOne(Side(t))
  /\ Receives(t, None)
  /\ UNCHANGED <<exchange, slot, partner>>

ExternalUnblock(t) ==
  /\ t \in Spurious
  /\ runstate[t] = Blocked
  /\ runstate' = Unblock(runstate, t)
  /\ disturbed' = TRUE
  /\ UNCHANGED <<exchange, slot, waiting, pc, partner, msg>>

Inside(t) ==
  \/ TakeSlot(t) \/ WaitTakesSlot(t) \/ WaitBlocks(t) \/ Resume(t)
  \/ ArriveFirst(t) \/ ArriveSecond(t) \/ DropGuard(t) \/ Recheck(t) \/ Finish(t)
  \/ GiveOther(t) \/ NotifyOther(t) \/ GiveOwn(t) \/ NotifyOwn(t)

Step(t) == (Call(t) \/ Inside(t)) /\ UNCHANGED disturbed

Next == \E t \in Tasks : Step(t) \/ ExternalUnblock(t)

Spec == Init /\ [][Next]_vars

(***************************************************************************)
(* Fairness: a Runnable task inside send() or receive() goes on.           *)
(***************************************************************************)
FairSpec == Spec /\ \A t \in Tasks : WF_vars(Inside(t) /\ UNCHANGED disturbed)
-----------------------------------------------------------------------------
(***************************************************************************)
(* The error branches of send() and receive() that the code itself marks   *)
(* with BUG ("in invalid state", "was different than blocked") are never   *)
(* taken, whatever unblocks the tasks.                                     *)
(***************************************************************************)
NoBugBranch == \A t \in Tasks : pc[t] # "bug"

(***************************************************************************)
(* replace_sender_slot() and replace_receiver_slot() never find a slot     *)
(* that is already there: each side's reference to the exchange state is   *)
(* either in the channel or with exactly one call, also when the other     *)
(* side's call is the one that gives it back.                              *)
(***************************************************************************)
SlotNotReplaced ==
  \A t \in Tasks :
    /\ pc[t] = "give_other" => ~slot[Other(Side(t))]
    /\ pc[t] = "give_own" => ~slot[Side(t)]

(***************************************************************************)
(* The channel implements RendezvousSpec: the exchange is the step of the  *)
(* one who comes second; the one who came first has then met its partner   *)
(* although it still sleeps.                                               *)
(***************************************************************************)
After == {"unblock", "give_other", "notify_other", "give_own", "notify_own"}

Met(t) == pc[t] \in After \/ (pc[t] \in {"waiting", "finish"} /\ exchange.at = "done"
                              /\ exchange.side = Other(Side(t)))

Abs == INSTANCE RendezvousSpec WITH
  send <- [s \in Senders |-> IF pc[s] = "idle" THEN "idle"
                             ELSE IF Met(s) THEN "sent" ELSE "offering"],
  recv <- [r \in Receivers |-> IF pc[r] = "idle" THEN "idle"
                               ELSE IF ~Met(r) THEN "wanting"
                               ELSE IF pc[r] \in After THEN msg[r] ELSE exchange.m]

(***************************************************************************)
(* Every message that is sent goes to exactly one receive(), at one        *)
(* instant, and send() and receive() return only after it.                 *)
(***************************************************************************)
ExchangesOnce == Abs!Spec

(***************************************************************************)
(* And while a sender and a receiver are both in the channel, exchanges go *)
(* on, and both parties of one return.  A task that is unblocked from      *)
(* outside leaves its entry in the wait queue behind; a later notify_one() *)
(* may be spent on that entry while another task sleeps beside a free      *)
(* slot, so the promise ends there.                                        *)
(***************************************************************************)
ExchangesHappen == <>disturbed \/ Abs!Fairness
=============================================================================
