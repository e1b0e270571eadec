---------------------------- MODULE AsyncChannel ----------------------------
(***************************************************************************)
(* The asynchronous channel (kernel/async_channel): a bounded queue, a     *)
(* wait queue for senders, one for receivers, a status and two endpoint    *)
(* counts, all updated by separate atomic operations.  Every load, store,  *)
(* push, pop and notify is a step of its own.  The closures that send()    *)
(* and receive() hand to wait_until run under the lock of the wait queue,  *)
(* so that while a task is in one of them nobody can notify that queue.    *)
(***************************************************************************)
EXTENDS WaitQueueOps, FiniteSets

CONSTANTS
  Tasks,         \* the tasks that own endpoints
  FirstSender,   \* owner of the Sender that new_channel returns
  FirstReceiver, \* owner of the Receiver
  Capacity       \* capacity of the MPMC queue

ASSUME AsyncChannelAssumption ==
  /\ {FirstSender, FirstReceiver} \subseteq Tasks /\ FirstSender # FirstReceiver
  /\ Capacity \in Nat \ {0}

VARIABLES
  runstate,  \* Task.runstate
  queue,     \* how many messages are in Channel.queue
  waitS,     \* Channel.waiting_senders
  waitR,     \* Channel.waiting_receivers
  status,    \* Channel.channel_status
  senders,   \* Channel.sender_count
  receivers, \* Channel.receiver_count
  end,       \* the endpoint each task owns
  pc,        \* where each task is
  reopened   \* history: an endpoint was added to a side that had none

chan == <<queue, waitS, waitR, status, senders, receivers>>
vars == <<runstate, chan, end, pc, reopened>>

Statuses == {"Connected", "SenderDisconnected", "ReceiverDisconnected"}
PCs == {"idle", "s_status", "s_reopen", "s_push", "s_wait", "s_pushed", "s_full",
        "s_asleep", "s_notify", "r_pop", "r_status", "r_reopen", "r_wait", "r_empty",
        "r_asleep", "r_notify", "add_s", "add_r", "drop_s", "drop_r", "wake_r", "wake_s"}

TypeOK ==
  /\ runstate \in [Tasks -> {Runnable, Blocked}]
  /\ queue \in 0..Capacity
  /\ waitS \in Seq(Tasks) /\ waitR \in Seq(Tasks)
  /\ status \in Statuses
  /\ senders \in Nat /\ receivers \in Nat
  /\ end \in [Tasks -> {"none", "Sender", "Receiver"}]
  /\ pc \in [Tasks -> PCs]
  /\ reopened \in BOOLEAN

(***************************************************************************)
(* new_channel().                                                          *)
(***************************************************************************)
Init ==
  /\ runstate = [t \in Tasks |-> Runnable]
  /\ queue = 0 /\ waitS = <<>> /\ waitR = <<>>
  /\ status = "Connected"
  /\ senders = 1 /\ receivers = 1
  /\ end = [t \in Tasks |-> IF t = FirstSender THEN "Sender"
                            ELSE IF t = FirstReceiver THEN "Receiver" ELSE "none"]
  /\ pc = [t \in Tasks |-> "idle"]
  /\ reopened = FALSE

Goto(t, from, to) == pc[t] = from /\ pc' = [pc EXCEPT ![t] = to]

(***************************************************************************)
(* Notifying a wait queue needs its lock, which a task in a closure holds. *)
(***************************************************************************)
LockedS == \E t \in Tasks : pc[t] \in {"s_pushed", "s_full"}
LockedR == \E t \in Tasks : pc[t] = "r_empty"

NotifyR(outcomes) ==
  /\ ~LockedR
  /\ \E o \in outcomes : waitR' = o.queue /\ runstate' = UnblockAll(runstate, o.woken)

NotifyS(outcomes) ==
  /\ ~LockedS
  /\ \E o \in outcomes : waitS' = o.queue /\ runstate' = UnblockAll(runstate, o.woken)
-----------------------------------------------------------------------------
(***************************************************************************)
(* send() and try_send().  try_send() looks at the status: a sender that   *)
(* finds SenderDisconnected stores Connected, one that finds               *)
(* ReceiverDisconnected gives up.                                          *)
(***************************************************************************)
CallSend(t) ==
  /\ end[t] = "Sender"
  /\ Goto(t, "idle", "s_status")
  /\ UNCHANGED <<runstate, chan, end, reopened>>

SendStatus(t) ==
  /\ Goto(t, "s_status", CASE status = "Connected"            -> "s_push"
                           [] status = "SenderDisconnected"   -> "s_reopen"
                           [] status = "ReceiverDisconnected" -> "idle")
  /\ UNCHANGED <<runstate, chan, end, reopened>>

SendReopens(t) ==
  /\ Goto(t, "s_reopen", "s_push")
  /\ status' = "Connected"
  /\ UNCHANGED <<runstate, queue, waitS, waitR, senders, receivers, end, reopened>>

Push == queue < Capacity /\ queue' = queue + 1
Pop  == queue > 0 /\ queue' = queue - 1

SendPush(t) ==
  /\ Goto(t, "s_push", "s_notify")
  /\ Push
  /\ UNCHANGED <<runstate, waitS, waitR, status, senders, receivers, end, reopened>>

(***************************************************************************)
(* The queue is full: try_send() returns WouldBlock, send() goes to wait.  *)
(***************************************************************************)
SendFull(t) ==
  /\ queue = Capacity
  /\ Goto(t, "s_push", "s_wait") \/ Goto(t, "s_push", "idle")
  /\ UNCHANGED <<runstate, chan, end, reopened>>

(***************************************************************************)
(* The closure of send(), under the lock of waiting_senders: push, then    *)
(* look at the status.  A disconnected channel is an error even if the     *)
(* push succeeded (the message is then in the queue and nobody is told);   *)
(* only a full and connected one makes the task sleep.                     *)
(***************************************************************************)
SendWaitPush(t) ==
  /\ ~LockedS
  /\ \/ Push /\ Goto(t, "s_wait", "s_pushed")
     \/ queue = Capacity /\ Goto(t, "s_wait", "s_full") /\ UNCHANGED queue
  /\ UNCHANGED <<runstate, waitS, waitR, status, senders, receivers, end, reopened>>

SendWaitDisconnected(t) ==
  /\ status # "Connected"
  /\ \/ Goto(t, "s_pushed", "idle") \/ Goto(t, "s_full", "idle")
  /\ UNCHANGED <<runstate, chan, end, reopened>>

SendWaitSent(t) ==
  /\ status = "Connected"
  /\ Goto(t, "s_pushed", "s_notify")
  /\ UNCHANGED <<runstate, chan, end, reopened>>

SendWaitBlocks(t) ==
  /\ status = "Connected"
  /\ Goto(t, "s_full", "s_asleep")
  /\ waitS' = Enqueue(waitS, t)
  /\ runstate' = Block(runstate, t)
  /\ UNCHANGED <<queue, waitR, status, senders, receivers, end, reopened>>

SendResume(t) ==
  /\ runstate[t] = Runnable
  /\ Goto(t, "s_asleep", "s_wait")
  /\ UNCHANGED <<runstate, chan, end, reopened>>

NotifyNobody(t) ==           \* mutant: a successful send tells nobody
  /\ Goto(t, "s_notify", "idle")
  /\ UNCHANGED <<runstate, chan, end, reopened>>

SendNotify(t) ==
  /\ Goto(t, "s_notify", "idle")
  /\ NotifyR(NotifyOneOutcomes(waitR, runstate))
  /\ UNCHANGED <<queue, waitS, status, senders, receivers, end, reopened>>
-----------------------------------------------------------------------------
(***************************************************************************)
(* receive() and try_receive().  A receiver that finds the queue empty and *)
(* the status ReceiverDisconnected stores Connected.                       *)
(***************************************************************************)
CallReceive(t) ==
  /\ end[t] = "Receiver"
  /\ Goto(t, "idle", "r_pop")
  /\ UNCHANGED <<runstate, chan, end, reopened>>

TryPop(t) ==
  \/ /\ Pop /\ Goto(t, "r_pop", "r_notify")
     /\ UNCHANGED <<runstate, waitS, waitR, status, senders, receivers, end, reopened>>
  \/ /\ queue = 0 /\ Goto(t, "r_pop", "r_status")
     /\ UNCHANGED <<runstate, chan, end, reopened>>

(***************************************************************************)
(* Empty: ChannelDisconnected, or WouldBlock, after which try_receive()    *)
(* returns and receive() goes to wait.                                     *)
(***************************************************************************)
ReceiveStatus(t) ==
  /\ \/ status = "SenderDisconnected" /\ Goto(t, "r_status", "idle")
     \/ status = "ReceiverDisconnected" /\ Goto(t, "r_status", "r_reopen")
     \/ status = "Connected" /\ (Goto(t, "r_status", "r_wait") \/ Goto(t, "r_status", "idle"))
  /\ UNCHANGED <<runstate, chan, end, reopened>>

ReceiveReopens(t) ==
  /\ Goto(t, "r_reopen", "r_wait") \/ Goto(t, "r_reopen", "idle")
  /\ status' = "Connected"
  /\ UNCHANGED <<runstate, queue, waitS, waitR, senders, receivers, end, reopened>>

(***************************************************************************)
(* The closure of receive(), under the lock of waiting_receivers.          *)
(***************************************************************************)
ReceiveWaitPop(t) ==
  /\ ~LockedR
  /\ \/ Pop /\ Goto(t, "r_wait", "r_notify")
     \/ queue = 0 /\ Goto(t, "r_wait", "r_empty") /\ UNCHANGED queue
  /\ UNCHANGED <<runstate, waitS, waitR, status, senders, receivers, end, reopened>>

ReceiveWaitDisconnected(t) ==
  /\ status # "Connected"
  /\ Goto(t, "r_empty", "idle")
  /\ UNCHANGED <<runstate, chan, end, reopened>>

ReceiveIgnoresStatus(t) ==   \* mutant: the closure looks at the queue only
  /\ Goto(t, "r_empty", "r_asleep")
  /\ waitR' = Enqueue(waitR, t)
  /\ runstate' = Block(runstate, t)
  /\ UNCHANGED <<queue, waitS, status, senders, receivers, end, reopened>>

ReceiveWaitBlocks(t) ==
  /\ status = "Connected"
  /\ Goto(t, "r_empty", "r_asleep")
  /\ waitR' = Enqueue(waitR, t)
  /\ runstate' = Block(runstate, t)
  /\ UNCHANGED <<queue, waitS, status, senders, receivers, end, reopened>>

ReceiveResume(t) ==
  /\ runstate[t] = Runnable
  /\ Goto(t, "r_asleep", "r_wait")
  /\ UNCHANGED <<runstate, chan, end, reopened>>

ReceiveNotify(t) ==
  /\ Goto(t, "r_notify", "idle")
  /\ NotifyS(NotifyOneOutcomes(waitS, runstate))
  /\ UNCHANGED <<queue, waitR, status, senders, receivers, end, reopened>>
-----------------------------------------------------------------------------
(***************************************************************************)
(* Cloning an endpoint, Receiver::sender() and Sender::receiver(): a task  *)
(* that owns an endpoint makes one for a task that has none.  The first    *)
(* endpoint on a side also stores Connected.                               *)
(***************************************************************************)
Adding == {t \in Tasks : pc[t] \in {"add_s", "add_r"}}
Spare == {u \in Tasks : end[u] = "none"}
Room == Cardinality(Spare) > Cardinality(Adding)   \* bound: an owner for each endpoint

Give(e) == \E u \in Spare : pc[u] = "idle" /\ end' = [end EXCEPT ![u] = e]

AddSender(t) ==
  /\ end[t] # "none" /\ pc[t] = "idle" /\ Room
  /\ senders' = senders + 1
  /\ \/ senders > 0 /\ Give("Sender") /\ UNCHANGED <<pc, reopened>>
     \/ senders = 0 /\ Goto(t, "idle", "add_s") /\ reopened' = TRUE /\ UNCHANGED end
  /\ UNCHANGED <<runstate, queue, waitS, waitR, status, receivers>>

AddedSender(t) ==
  /\ Goto(t, "add_s", "idle")
  /\ status' = "Connected"
  /\ Give("Sender")
  /\ UNCHANGED <<runstate, queue, waitS, waitR, senders, receivers, reopened>>

AddReceiver(t) ==
  /\ end[t] # "none" /\ pc[t] = "idle" /\ Room
  /\ receivers' = receivers + 1
  /\ \/ receivers > 0 /\ Give("Receiver") /\ UNCHANGED <<pc, reopened>>
     \/ receivers = 0 /\ Goto(t, "idle", "add_r") /\ reopened' = TRUE /\ UNCHANGED end
  /\ UNCHANGED <<runstate, queue, waitS, waitR, status, senders>>

AddedReceiver(t) ==
  /\ Goto(t, "add_r", "idle")
  /\ status' = "Connected"
  /\ Give("Receiver")
  /\ UNCHANGED <<runstate, queue, waitS, waitR, senders, receivers, reopened>>

(***************************************************************************)
(* Dropping an endpoint.  The last one of a side stores the status and     *)
(* then wakes everybody on the other side.                                 *)
(***************************************************************************)
DropEndsAll(t) ==            \* mutant: any dropped Sender disconnects
  /\ end[t] = "Sender" /\ Goto(t, "idle", "drop_s")
  /\ senders' = senders - 1 /\ end' = [end EXCEPT ![t] = "none"]
  /\ UNCHANGED <<runstate, queue, waitS, waitR, status, receivers, reopened>>

DropSender(t) ==
  /\ end[t] = "Sender" /\ Goto(t, "idle", IF senders = 1 THEN "drop_s" ELSE "idle")
  /\ senders' = senders - 1 /\ end' = [end EXCEPT ![t] = "none"]
  /\ UNCHANGED <<runstate, queue, waitS, waitR, status, receivers, reopened>>

DropReceiver(t) ==
  /\ end[t] = "Receiver" /\ Goto(t, "idle", IF receivers = 1 THEN "drop_r" ELSE "idle")
  /\ receivers' = receivers - 1 /\ end' = [end EXCEPT ![t] = "none"]
  /\ UNCHANGED <<runstate, queue, waitS, waitR, status, senders, reopened>>

StoreDisconnected(t) ==
  /\ \/ Goto(t, "drop_s", "wake_r") /\ status' = "SenderDisconnected"
     \/ Goto(t, "drop_r", "wake_s") /\ status' = "ReceiverDisconnected"
  /\ UNCHANGED <<runstate, queue, waitS, waitR, senders, receivers, end, reopened>>

WakeReceivers(t) ==
  /\ Goto(t, "wake_r", "idle") /\ NotifyR({NotifyAllOutcome(waitR)})
  /\ UNCHANGED <<queue, waitS, status, senders, receivers, end, reopened>>

WakeOneSender(t) ==          \* mutant: notify_one where all must hear
  /\ Goto(t, "wake_s", "idle") /\ NotifyS(NotifyOneOutcomes(waitS, runstate))
  /\ UNCHANGED <<queue, waitR, status, senders, receivers, end, reopened>>

WakeSenders(t) ==
  /\ Goto(t, "wake_s", "idle") /\ NotifyS({NotifyAllOutcome(waitS)})
  /\ UNCHANGED <<queue, waitR, status, senders, receivers, end, reopened>>

Inside(t) ==
  \/ SendStatus(t) \/ SendReopens(t) \/ SendPush(t) \/ SendFull(t) \/ SendWaitPush(t)
  \/ SendWaitDisconnected(t) \/ SendWaitSent(t) \/ SendWaitBlocks(t) \/ SendResume(t)
  \/ SendNotify(t)
  \/ TryPop(t) \/ ReceiveStatus(t) \/ ReceiveReopens(t) \/ ReceiveWaitPop(t)
  \/ ReceiveWaitDisconnected(t) \/ ReceiveWaitBlocks(t) \/ ReceiveResume(t) \/ ReceiveNotify(t)
  \/ AddedSender(t) \/ AddedReceiver(t)
  \/ StoreDisconnected(t) \/ WakeReceivers(t) \/ WakeSenders(t)

Next ==
  \E t \in Tasks :
    \/ CallSend(t) \/ CallReceive(t) \/ AddSender(t) \/ AddReceiver(t)
    \/ DropSender(t) \/ DropReceiver(t) \/ Inside(t)

Spec == Init /\ [][Next]_vars

(***************************************************************************)
(* Fairness: a task inside an operation goes on while it is Runnable.      *)
(* Nobody has to call anything.                                            *)
(***************************************************************************)
FairSpec == Spec /\ \A t \in Tasks : WF_vars(Inside(t))
-----------------------------------------------------------------------------
AsleepS == {t \in Tasks : pc[t] = "s_asleep" /\ runstate[t] = Blocked}
AsleepR == {t \in Tasks : pc[t] = "r_asleep" /\ runstate[t] = Blocked}

(***************************************************************************)
(* No message is left unannounced: while a receiver sleeps, there is for   *)
(* every queued message a sender that will still notify, or a woken        *)
(* receiver that will still pop.  On a channel that was opened again a     *)
(* send() may find the wrong status after its push and return the error    *)
(* ChannelDisconnected without a notify.                                   *)
(***************************************************************************)
MessagesAnnounced ==
  ~reopened /\ AsleepR # {} =>
    queue <= Cardinality({t \in Tasks :
      \/ pc[t] \in {"s_pushed", "s_notify", "r_wait"}
      \/ pc[t] = "r_asleep" /\ runstate[t] = Runnable})

(***************************************************************************)
(* Outside of endpoint operations the status never claims that a side is   *)
(* gone that still has endpoints (the fields of struct Channel and the     *)
(* documentation of add_sender and add_receiver).  Once a side is opened   *)
(* again this is lost: the count and the status are stored one after the   *)
(* other, and the store of the last drop() may come after that of the add. *)
(***************************************************************************)
StatusTruthful ==
  ~reopened /\ (\A t \in Tasks : pc[t] \notin {"add_s", "add_r", "drop_s", "drop_r"}) =>
    /\ status = "SenderDisconnected" => senders = 0
    /\ status = "ReceiverDisconnected" => receivers = 0

(***************************************************************************)
(* However drops and re-opened endpoints interleave, nobody sleeps on a    *)
(* channel that is marked as disconnected unless the one who marked it is  *)
(* still about to wake them (store before notify in both drop() functions, *)
(* and the closures look at the status under the lock of the wait queue).  *)
(***************************************************************************)
DisconnectHeard ==
  /\ status = "SenderDisconnected" /\ AsleepR # {} => \E t \in Tasks : pc[t] = "wake_r"
  /\ status = "ReceiverDisconnected" /\ AsleepS # {} => \E t \in Tasks : pc[t] = "wake_s"

(***************************************************************************)
(* A sleeping receiver hears of a message and of the last sender's end,    *)
(* unless the channel is opened again.                                     *)
(***************************************************************************)
ReceiversServed ==
  \/ <>reopened
  \/ (AsleepR # {} /\ (queue > 0 \/ senders = 0)) ~> (AsleepR = {} \/ (queue = 0 /\ senders > 0))

(***************************************************************************)
(* A sleeping sender hears of free space and of the last receiver's end,   *)
(* unless the channel is opened again.                                     *)
(***************************************************************************)
SendersServed ==
  \/ <>reopened
  \/ (AsleepS # {} /\ (queue < Capacity \/ receivers = 0))
       ~> (AsleepS = {} \/ (queue = Capacity /\ receivers > 0))
=============================================================================
