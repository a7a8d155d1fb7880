---------------------------- MODULE NetworkTest ----------------------------
(***************************************************************************)
(* The two-machine test of the network, Kernel::NetworkTest: machines 0    *)
(* and 1 each send a message, wait for the other's, acknowledge it, and    *)
(* wait for the acknowledgement.  A machine is a process of the host, and  *)
(* its socket has a name while it runs, so that a machine which is started *)
(* first has to wait for the other and one that has halted gets nothing.   *)
(* The way from the socket to a mailbox is one step here; module Mail has  *)
(* it in detail.                                                           *)
(***************************************************************************)
EXTENDS Integers, Sequences, SequencesExt
CONSTANTS
  Reliability,   (* how many packets arrive: some of "none", "some", "all" *)
  MaxTries       (* 10 in the code                                         *)
VARIABLES
  net            (* the machines, and whether a packet was lost            *)

Machine == {0, 1}
Others == [m \in Machine |-> 1 - m]

(* What NetworkTest does, and the box a message is sent to or awaited in   *)
Script == <<"send", "receive", "acknowledge", "await">>

Off == [pc |-> 0, bound |-> FALSE, socket |-> <<>>, box |-> <<<<>>, <<>>>>, tries |-> 0, got |-> <<>>]

NetInit ==
  net \in [machine : {[m \in Machine |-> Off]}, lost : {FALSE}, chanceToWork : Reliability]

At(m, what) == net.machine[m].pc \in DOMAIN Script /\ Script[net.machine[m].pc] = what

(* AssignNameToSocket, on a new socket: a name left from an earlier run is *)
(* taken away and given to it                                              *)
AssignNameToSocket == [Off EXCEPT !.bound = TRUE]

(* NetworkInput::NetworkInput                                              *)
Start(m) ==
  /\ net.machine[m].pc = 0
  /\ net' = [net EXCEPT !.machine[m] = [AssignNameToSocket EXCEPT !.pc = 1]]

(* The packet and mail headers of the message and of its acknowledgement,  *)
(* which goes where the message that came says                             *)
outHdr(m) ==
  IF At(m, "send") THEN [to |-> Others[m], from |-> m, box |-> 0, reply |-> 1, text |-> "Hello there!"]
  ELSE LET in == net.machine[m].got[1]
       IN  [to |-> in.from, from |-> m, box |-> in.reply, reply |-> 1, text |-> "Got it!"]

Sent(m) == [net.machine[m] EXCEPT !.pc = @ + 1, !.tries = 0]

(* NetworkOutput::Send, of a packet that is lost on the way                *)
Lose(m) ==
  /\ At(m, "send") \/ At(m, "acknowledge")
  /\ net.chanceToWork # "all"
  /\ net.machine[m].tries = 0
  /\ net' = [net EXCEPT !.machine[m] = Sent(m), !.lost = TRUE]

(* SendToSocket: one sendto.  Nothing else happens on the machine until    *)
(* the packet is sent or given up.                                         *)
SendToSocket(m) ==
  /\ At(m, "send") \/ At(m, "acknowledge")
  /\ net.chanceToWork # "none"
  /\ LET to == outHdr(m).to IN
     \/ /\ net.machine[to].bound
        /\ net' = [net EXCEPT !.machine = [@ EXCEPT ![m] = Sent(m), ![to].socket = Append(@, outHdr(m))]]
     \/ /\ ~ net.machine[to].bound
        /\ net.machine[m].tries + 1 < MaxTries
        /\ net' = [net EXCEPT !.machine[m].tries = @ + 1]
     \/ /\ ~ net.machine[to].bound
        /\ net.machine[m].tries + 1 = MaxTries
        /\ net' = [net EXCEPT !.machine[m] = Sent(m), !.lost = TRUE]

(* PollFile: select says that there is something to read                   *)
PollFile(m) == net.machine[m].socket # <<>>
PollSocket(m) == PollFile(m)

(* ReadFromSocket of the first packet that came, and its way into the      *)
(* mailbox                                                                 *)
ReadFromSocket(m) ==
  /\ net.machine[m].tries = 0
  /\ PollSocket(m)
  /\ LET packet == Head(net.machine[m].socket) IN
     net' = [net EXCEPT !.machine[m].socket = Tail(@), !.machine[m].box[packet.box + 1] = Append(@, packet)]

(* PostOfficeInput::Receive from box 0 and then from box 1                 *)
Receive(m) ==
  /\ At(m, "receive") \/ At(m, "await")
  /\ LET b == IF At(m, "receive") THEN 1 ELSE 2 IN
     /\ net.machine[m].box[b] # <<>>
     /\ net' = [net EXCEPT !.machine[m].box[b] = Tail(@),
                           !.machine[m].got = Append(@, Head(net.machine[m].box[b])),
                           !.machine[m].pc = @ + 1]

(* The test returns and main halts: NetworkInput::~NetworkInput, with      *)
(* CloseSocket and DeAssignNameToSocket                                    *)
Halt(m) ==
  /\ net.machine[m].pc = Len(Script) + 1
  /\ net' = [net EXCEPT !.machine[m].pc = @ + 1, !.machine[m].bound = FALSE, !.machine[m].socket = <<>>]

NetNext ==
  \E m \in Machine :
    Start(m) \/ Lose(m) \/ SendToSocket(m) \/ ReadFromSocket(m) \/ Receive(m) \/ Halt(m)

-----------------------------------------------------------------------------
Awaiting(m) ==
  LET me == net.machine[m] IN
  /\ me.socket = <<>>
  /\ \/ At(m, "receive") /\ me.box[1] = <<>>
     \/ At(m, "await") /\ me.box[2] = <<>>

(* Unless a packet was lost, a machine does not wait for mail when the     *)
(* other waits too, or has halted; and what each got is the message and    *)
(* then the acknowledgement.                                               *)
NoStandstill ==
  /\ ~ net.lost =>
       \A m \in Machine :
         Awaiting(m) => ~ Awaiting(Others[m]) /\ net.machine[Others[m]].pc <= Len(Script)
  /\ \A m \in Machine : \A i \in DOMAIN net.machine[m].got :
       net.machine[m].got[i].text = <<"Hello there!", "Got it!">>[i]
=============================================================================
