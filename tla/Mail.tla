-------------------------------- MODULE Mail --------------------------------
(***************************************************************************)
(* Mail from one Nachos machine to another: the post office of             *)
(* network/post.cc over the network device of machine/network.cc.  On the  *)
(* sending machine threads call PostOfficeOutput::Send; on the receiving   *)
(* one the postal worker moves packets from the device to mailboxes, which *)
(* are synchronized lists, and threads call PostOfficeInput::Receive.  The *)
(* device holds one packet; the wire between the machines may lose         *)
(* packets but keeps their order.                                          *)
(***************************************************************************)
EXTENDS SynchList

CONSTANTS
  Sender, Receiver,   (* the threads that send, and those that receive     *)
  Worker,             (* the postal worker                                 *)
  NoPacket,           (* inHdr.length = 0                                  *)
  Reliable,           (* chanceToWork = 1                                  *)
  MaxSends            (* bound: messages that are sent                     *)

VARIABLES
  sends,              (* messages the senders have begun to send           *)
  mail,               (* the message each thread has in its buffer         *)
  sendPending,        (* NetworkSendInt interrupts scheduled               *)
  wire,               (* the packets in the receiver's socket              *)
  inbox,              (* NetworkInput::inHdr and inbox                     *)
  sent, received      (* history: what was put on the wire for each box,   *)
                      (* and what was taken out of it                      *)

netVars  == <<sends, mail, sendPending, wire, inbox, sent, received>>
mailVars == <<semaphoreVars, listVars, at, netVars>>

sendLock         == <<"sendLock">>
messageSent      == <<"messageSent">>
messageAvailable == <<"messageAvailable">>

Box == List
Out == <<"out">>
Packets == [n : 1 .. MaxSends, box : Box]

MTypeOK ==
  /\ sems \subseteq Sem
  /\ value \in [Sem -> Nat]
  /\ waits \in [Thread -> Sem \cup {NoSem}]
  /\ \A b \in Box : {list[b], sent[b], received[b]} \subseteq Seq(Packets)
  /\ sends \in 0 .. MaxSends
  /\ mail \in [Thread -> Packets \cup {NoPacket}]
  /\ sendPending \in 0 .. 1
  /\ wire \in Seq(Packets)
  /\ inbox \in Packets \cup {NoPacket}

(* PostOfficeInput::PostOfficeInput, PostOfficeOutput::PostOfficeOutput    *)
MInit ==
  /\ sems = Sem \ {WaiterOf(t) : t \in Thread}
  /\ value = [s \in Sem |-> IF s = sendLock \/ s \in {LockOf(b) : b \in Box}
                            THEN 1 ELSE 0]
  /\ waits = [t \in Thread |-> NoSem]
  /\ ListInit
  /\ at = [t \in Thread |-> Out]
  /\ sends = 0
  /\ mail = [t \in Thread |-> NoPacket]
  /\ sendPending = 0
  /\ wire = <<>>
  /\ inbox = NoPacket
  /\ sent = [b \in Box |-> <<>>]
  /\ received = [b \in Box |-> <<>>]

-----------------------------------------------------------------------------
(* PostOfficeOutput::Send                                                  *)

(* A thread calls Send.                                                    *)
SendCall(t, b) ==
  /\ at[t] = Out
  /\ sends < MaxSends
  /\ sends' = sends + 1
  /\ mail' = [mail EXCEPT ![t] = [n |-> sends + 1, box |-> b]]
  /\ Goto(t, <<"sendLock">>)
  /\ UNCHANGED <<semaphoreVars, listVars, sendPending, wire, inbox, sent, received>>

(* sendLock->Acquire                                                       *)
SendLock(t) ==
  /\ at[t] = <<"sendLock">>
  /\ PThen(t, sendLock, <<"send">>)
  /\ UNCHANGED <<listVars, netVars>>

(* NetworkOutput::Send, which may lose the packet, and the first test of   *)
(* messageSent->P                                                          *)
Send(t) ==
  /\ at[t] = <<"send">>
  /\ sendPending' = sendPending + 1
  /\ \/ /\ wire' = Append(wire, mail[t])
        /\ sent' = [sent EXCEPT ![mail[t].box] = Append(@, mail[t])]
     \/ ~Reliable /\ UNCHANGED <<wire, sent>>
  /\ \/ Block(t, messageSent) /\ Goto(t, <<"sending">>)
     \/ Take(t, messageSent) /\ Goto(t, <<"sendUnlock">>)
  /\ UNCHANGED <<listVars, sends, mail, inbox, received>>

(* P returns to a sender that slept.                                       *)
SendWake(t) ==
  /\ at[t] = <<"sending">>
  /\ Take(t, messageSent)
  /\ Goto(t, <<"sendUnlock">>)
  /\ UNCHANGED <<listVars, netVars>>

(* sendLock->Release and the return                                        *)
SendUnlock(t) ==
  /\ at[t] = <<"sendUnlock">>
  /\ Release(sendLock)
  /\ mail' = [mail EXCEPT ![t] = NoPacket]
  /\ Goto(t, Out)
  /\ UNCHANGED <<listVars, sends, sendPending, wire, inbox, sent, received>>

(* PostOfficeOutput::CallBack, "called even if the previous packet was     *)
(* dropped", and PostOfficeInput::CallBack                                 *)
OutputCallBack == Release(messageSent)
InputCallBack == Release(messageAvailable)

(* Mutant: the handler calls back only if the packet was not lost          *)
SendInterruptIfSent ==
  /\ sendPending > 0
  /\ sendPending' = sendPending - 1
  /\ IF \E t \in Sender : mail[t] \in {wire[i] : i \in 1 .. Len(wire)}
     THEN OutputCallBack ELSE UNCHANGED semaphoreVars
  /\ UNCHANGED <<listVars, at, sends, mail, wire, inbox, sent, received>>

(* NetworkOutput::CallBack *)
SendInterrupt ==
  /\ sendPending > 0
  /\ sendPending' = sendPending - 1
  /\ OutputCallBack
  /\ UNCHANGED <<listVars, at, sends, mail, wire, inbox, sent, received>>

-----------------------------------------------------------------------------
(* PostOfficeInput                                                         *)

(* Mutant: the poll does not look whether a packet is buffered             *)
PollInterruptOverwrites ==
  /\ wire # <<>>
  /\ inbox' = Head(wire)
  /\ wire' = Tail(wire)
  /\ InputCallBack
  /\ UNCHANGED <<listVars, at, sends, mail, sendPending, sent, received>>

(* NetworkInput::CallBack, polling.  A poll with a packet buffered, or     *)
(* none to be read, changes nothing.                                       *)
PollInterrupt ==
  /\ inbox = NoPacket
  /\ wire # <<>>
  /\ inbox' = Head(wire)
  /\ wire' = Tail(wire)
  /\ InputCallBack
  /\ UNCHANGED <<listVars, at, sends, mail, sendPending, sent, received>>

(* PostalDelivery: wait for a message                                      *)
WorkerWait ==
  /\ at[Worker] = Out
  /\ PThen(Worker, messageAvailable, <<"receive">>)
  /\ UNCHANGED <<listVars, netVars>>

(* NetworkInput::Receive, MailBox::Put, and the first test of the P of     *)
(* Lock::Acquire in SynchList::Append                                      *)
WorkerReceive ==
  /\ at[Worker] = <<"receive">>
  /\ inbox # NoPacket
  /\ mail' = [mail EXCEPT ![Worker] = inbox]
  /\ inbox' = NoPacket
  /\ \/ Block(Worker, LockOf(inbox.box)) /\ Goto(Worker, <<"put">>)
     \/ Take(Worker, LockOf(inbox.box)) /\ Goto(Worker, <<"append", inbox.box>>)
  /\ UNCHANGED <<listVars, sends, sendPending, wire, sent, received>>

(* Lock::Acquire returns to a worker that slept.                           *)
WorkerLock ==
  /\ at[Worker] = <<"put">>
  /\ Take(Worker, LockOf(mail[Worker].box))
  /\ Goto(Worker, <<"append", mail[Worker].box>>)
  /\ UNCHANGED <<listVars, netVars>>

WorkerPut(b) ==
  /\ at[Worker] = <<"append", b>>
  /\ AppendItem(Worker, b, mail[Worker], Out)
  /\ mail' = [mail EXCEPT ![Worker] = NoPacket]
  /\ UNCHANGED <<sends, sendPending, wire, inbox, sent, received>>

WorkerUnlock(b) ==
  /\ Unlock(Worker, b, Out)
  /\ UNCHANGED netVars

(* Receive: MailBox::Get of a box                                          *)
ReceiveCall(t, b) ==
  /\ at[t] = Out
  /\ Goto(t, <<"remove", b>>)
  /\ UNCHANGED <<semaphoreVars, listVars, netVars>>

ReceiveWait(t, b) ==
  /\ RemoveLock(t, b) \/ RemoveWait(t, b) \/ RemoveSleep(t, b)
  /\ UNCHANGED netVars

ReceiveTake(t, b) ==
  /\ RemoveTake(t, b, Out)
  /\ received' = [received EXCEPT ![b] = Append(@, Head(list[b]))]
  /\ UNCHANGED <<sends, mail, sendPending, wire, inbox, sent>>

-----------------------------------------------------------------------------
SenderStep(t) == SendLock(t) \/ Send(t) \/ SendWake(t) \/ SendUnlock(t)

WorkerStep ==
  \/ WorkerWait \/ WorkerReceive \/ WorkerLock
  \/ \E b \in Box : WorkerPut(b) \/ WorkerUnlock(b)

ReceiverStep(t, b) == ReceiveWait(t, b) \/ ReceiveTake(t, b)

MNext ==
  \/ \E t \in Sender, b \in Box : SendCall(t, b)
  \/ \E t \in Sender : SenderStep(t)
  \/ SendInterrupt
  \/ PollInterrupt
  \/ WorkerStep
  \/ \E t \in Receiver, b \in Box : ReceiveCall(t, b) \/ ReceiverStep(t, b)

MSpec == MInit /\ [][MNext]_mailVars

(* A thread that can run is run and a sleeper whose semaphore stays up is  *)
(* woken (Threads!UnitTaken); a scheduled interrupt fires, and the device  *)
(* always schedules its next poll (network.cc:63).  Threads need not call. *)
MFairSpec ==
  /\ MSpec
  /\ \A t \in Sender : WF_mailVars(SenderStep(t))
  /\ WF_mailVars(SendInterrupt)
  /\ WF_mailVars(PollInterrupt)
  /\ WF_mailVars(WorkerStep)
  /\ \A t \in Receiver : WF_mailVars(\E b \in Box : ReceiverStep(t, b))

-----------------------------------------------------------------------------
(* Properties                                                              *)

Sending(t) == at[t] \in {<<"send">>, <<"sending">>, <<"sendUnlock">>}

(* "only one message can be sent to the network at any one time"           *)
(* (post.cc:318): one sender has the lock, and the answer it waits for is  *)
(* owed to it once, as the device's sendBusy is never set (network.cc:164).*)
OneSend ==
  /\ \A t, u \in Sender : Sending(t) /\ Sending(u) => t = u
  /\ sendPending + value[messageSent]
       = Cardinality({t \in Sender : at[t] = <<"sending">>})

(* The worker is told of each packet once: it never calls Receive with no  *)
(* packet buffered, and the device never overwrites one it was told of     *)
(* (network.cc:66, post.cc:200-201).                                       *)
PacketAnnounced ==
  IF inbox # NoPacket
  THEN (value[messageAvailable] = 1) # (at[Worker] = <<"receive">>)
  ELSE value[messageAvailable] = 0 /\ at[Worker] # <<"receive">>

(* What the worker holds for box b                                         *)
InHand(b) == IF mail[Worker] # NoPacket /\ mail[Worker].box = b
             THEN <<mail[Worker]>> ELSE <<>>

(* Packets are delivered "in order but unreliably" (network.h:44): for     *)
(* each box, what went on the wire is what was received, what lies in the  *)
(* box, in the worker's hands, in the device and on the wire, in this      *)
(* order.  None is lost, copied or overtaken past the wire.                *)
InOrder ==
  \A b \in Box :
    LET ForBox(p) == p.box = b
        buffered  == IF inbox = NoPacket THEN <<>> ELSE <<inbox>>
    IN  sent[b] = received[b] \o list[b] \o InHand(b)
                    \o SelectSeq(buffered \o wire, ForBox)

(* A sender returns, whether or not its packet was lost: "callWhenDone is  *)
(* called whether or not the packet is dropped" (network.h:91).            *)
SenderReturns == \A t \in Sender : Sending(t) ~> at[t] = Out

(* What goes on the wire reaches its box although the device holds one     *)
(* packet only (network.cc:66).                                            *)
MailArrives ==
  \A b \in Box, n \in 1 .. MaxSends :
    Len(sent[b]) >= n ~> Len(received[b]) + Len(list[b]) >= n

(* A thread does not sleep on at a box that has mail in it.                *)
MailTaken ==
  \A b \in Box, t \in Receiver :
    list[b] # <<>> /\ at[t] = <<"sleep", b>>
      ~> list[b] = <<>> \/ at[t] # <<"sleep", b>>

(* Nothing is lost past the wire: one send at a time, one announcement per *)
(* packet, and every packet in one place and in order.                     *)
MailKept == MTypeOK /\ OneSend /\ PacketAnnounced /\ InOrder

(* Mail gets from the wire to a thread that waits for it.                  *)
MailDelivered == MailArrives /\ MailTaken
=============================================================================
