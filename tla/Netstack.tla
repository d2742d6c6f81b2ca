------------------------------ MODULE Netstack ------------------------------
(***************************************************************************)
(* The network stack of avrlib/net: netstackService, which the main loop   *)
(* calls for ever, polls the network interface and runs ARP, IP, ICMP and  *)
(* the user's UDP handler (the one of examples/netstack2) on the frame.    *)
(* Every answer is built over the frame, in NetBuffer.                     *)
(*                                                                         *)
(* Nothing here runs in an interrupt: arpTimer and ipSetConfig are called  *)
(* between two calls of netstackService, and frames arrive at any time.    *)
(* Frames are numbered as they arrive.                                     *)
(***************************************************************************)
EXTENDS IpLayer, Sequences

CONSTANTS
  Frames,       \* what the network may bring
  InitConfig,   \* the argument of netstackInit
  NewConfigs,   \* arguments of later calls of ipSetConfig
  Driver,       \* the driver behind nic.h: "w5100" or "enc28j60"
  Word,         \* values of an unsigned int: 2^16
  NicRoom,      \* bound: frames the interface holds
  MaxFrames     \* bound: frames that arrive

Kinds == {"request", "reply",                                      \* ARP
          "echo", "echoReply", "command", "loopback", "other"}     \* IP

Frame == [type : {"ARP", "IP", "other"}, kind : Kinds,
          dst : EthAddr \cup {Broadcast}, src : EthAddr, dip : IpAddr, sip : IpAddr]

ASSUME NetstackAssumption ==
  /\ Frames \subseteq Frame
  /\ NewConfigs \cup {InitConfig} \subseteq Configs
  /\ Driver \in {"w5100", "enc28j60"}
  /\ Word \in Nat /\ Word > 4
  /\ NicRoom \in Nat \ {0} /\ MaxFrames \in Nat

VARIABLES
  rx,           \* received frames, with their numbers, in the interface
  NetBuffer,    \* the frame in the buffer, and its number
  sent,         \* the frame nicSend was called with last
  arrived,      \* ghost: how many frames arrived
  handled,      \* ghost: answers and commands each frame gave rise to
  lastEth       \* ghost: where the last IP packet from an address came from

vars == <<ipvars, rx, NetBuffer, sent, arrived, handled, lastEth>>

NoFrame == [type |-> "other", kind |-> "other", dst |-> NoEth, src |-> NoEth,
            dip |-> NoIp, sip |-> NoIp]

\* netstackInit, on memory that is all zero.
Init ==
  /\ arpInit
  /\ IpMyConfig = InitConfig
  /\ ArpMyAddr = [ethaddr |-> MyEth, ipaddr |-> InitConfig.ip]
  /\ rx = <<>>
  /\ NetBuffer = [id |-> 0, frame |-> NoFrame]
  /\ sent = NoFrame
  /\ arrived = 0
  /\ handled = [id \in 0 .. MaxFrames |-> 0]
  /\ lastEth = [ip \in IpAddr |-> NoEth]

-----------------------------------------------------------------------------
\* A frame arrives; with its memory full, the interface loses it.
Arrive(f) ==
  /\ arrived < MaxFrames
  /\ arrived' = arrived + 1
  /\ rx' = IF Len(rx) < NicRoom THEN Append(rx, [id |-> arrived + 1, frame |-> f]) ELSE rx
  /\ UNCHANGED <<ipvars, NetBuffer, sent, handled, lastEth>>

\* (mutant: the ENC28J60 driver's answer)
EmptyPoll_minusCrc == (0 - 4) % Word

\* What nicPoll returns when no frame waits: the driver of the ENC28J60 takes
\* four bytes of checksum off the length 0.
EmptyPoll == IF Driver = "enc28j60" THEN (0 - 4) % Word ELSE 0

-----------------------------------------------------------------------------
\* The frame is done with, or answered in place.
Ignore(p) ==
  /\ NetBuffer' = p
  /\ UNCHANGED <<sent, handled>>

Counted(id) == [handled EXCEPT ![id] = IF @ < 2 THEN @ + 1 ELSE 2]

Answer(p, reply) ==
  /\ NetBuffer' = [p EXCEPT !.frame = reply]
  /\ sent' = reply
  /\ handled' = Counted(p.id)

arpArpIn(p) ==
  IF p.frame.dip = ArpMyAddr.ipaddr /\ p.frame.kind = "request"
    THEN Answer(p, [p.frame EXCEPT
                      !.kind = "reply", !.dst = p.frame.src, !.src = ArpMyAddr.ethaddr,
                      !.dip = p.frame.sip, !.sip = ArpMyAddr.ipaddr])
    ELSE Ignore(p)

\* (mutant: the answer is addressed before the sender is in the table)
icmpEchoRequest_early(p) ==
  Answer(p, [p.frame EXCEPT
               !.kind = "echoReply", !.src = ArpMyAddr.ethaddr,
               !.dst = arpIpOut(ArpTable, p.frame.sip, NoIp),
               !.dip = p.frame.sip, !.sip = p.frame.dip])

\* icmpIpIn and icmpEchoRequest, on the table that arpIpIn left.
icmpEchoRequest(p) ==
  Answer(p, [p.frame EXCEPT
               !.kind = "echoReply", !.src = ArpMyAddr.ethaddr,
               !.dst = arpIpOut(ArpTable', p.frame.sip, NoIp),
               !.dip = p.frame.sip, !.sip = p.frame.dip])

\* The loopback port answers the sender, the control port writes to an output
\* port of the AVR.
netstackUDPIPProcess(p) ==
  CASE p.frame.kind = "loopback" ->
         Answer(p, udpSend(ArpTable', p.frame.sip, "loopback"))
    [] p.frame.kind = "command" ->
         NetBuffer' = p /\ handled' = Counted(p.id) /\ UNCHANGED sent
    [] OTHER -> Ignore(p)

IsForMe(ip) ==
  ip \in {IpMyConfig.ip, Directed(IpMyConfig.ip, IpMyConfig.netmask), AllOnes}

netstackIPProcess(p) ==
  IF ~IsForMe(p.frame.dip) THEN Ignore(p)
  ELSE IF p.frame.kind = "echo" THEN icmpEchoRequest(p)
  ELSE netstackUDPIPProcess(p)

\* What netstackService does with the packet p in NetBuffer.
Process(p) ==
  \/ /\ p.frame.type = "IP"
     /\ arpIpIn(p.frame.sip, p.frame.src)
     /\ lastEth' = [lastEth EXCEPT ![p.frame.sip] = p.frame.src]
     /\ netstackIPProcess(p)
  \/ /\ p.frame.type = "ARP"
     /\ arpArpIn(p)
     /\ UNCHANGED <<arpvars, lastEth>>
  \/ /\ p.frame.type = "other"
     /\ Ignore(p)
     /\ UNCHANGED <<arpvars, lastEth>>

\* The packet in NetBuffer after nicPoll; with no frame waiting, still the last.
Polled == IF rx # <<>> THEN Head(rx) ELSE NetBuffer

\* (mutant: the driver does not free the frame)
netstackService_kept ==
  /\ rx # <<>> \/ EmptyPoll # 0
  /\ Process(Polled)
  /\ UNCHANGED <<rx, IpMyConfig, arrived>>

\* One turn of the main loop: a poll with a length other than 0 is looked at.
netstackService ==
  /\ rx # <<>> \/ EmptyPoll # 0
  /\ Process(Polled)
  /\ rx' = IF rx # <<>> THEN Tail(rx) ELSE rx
  /\ UNCHANGED <<IpMyConfig, arrived>>

Timer ==
  /\ arpTimer
  /\ UNCHANGED <<IpMyConfig, rx, NetBuffer, sent, arrived, handled, lastEth>>

SetConfig(config) ==
  /\ ipSetConfig(config)
  /\ UNCHANGED <<rx, NetBuffer, sent, arrived, handled, lastEth>>

\* A datagram of the program's own, to everybody, from a buffer of its own.
SendHello ==
  /\ sent' = udpSend(ArpTable, Directed(IpMyConfig.ip, IpMyConfig.netmask), "command")
  /\ UNCHANGED <<ipvars, rx, NetBuffer, arrived, handled, lastEth>>

Next ==
  \/ \E f \in Frames : Arrive(f)
  \/ netstackService
  \/ Timer
  \/ \E c \in NewConfigs : SetConfig(c)
  \/ SendHello

\* The main loop never stops calling netstackService.
Spec == Init /\ [][Next]_vars /\ WF_vars(netstackService)

-----------------------------------------------------------------------------
Packet == [id : 0 .. MaxFrames, frame : Frame]

TypeOK ==
  /\ ArpTypeOK
  /\ IpMyConfig \in Configs
  /\ rx \in Seq(Packet) /\ Len(rx) <= NicRoom
  /\ NetBuffer \in Packet
  /\ sent \in Frame
  /\ arrived \in 0 .. MaxFrames
  /\ handled \in [0 .. MaxFrames -> 0 .. 2]
  /\ lastEth \in [IpAddr -> EthAddr]

\* The look-up stops at the first match, so an address must never have two
\* slots: also not after one of them expired and the sender came back.
UniqueIp ==
  \A i, j \in Slots : ArpTable[i].ipaddr = ArpTable[j].ipaddr /\ ArpTable[i].ipaddr # NoIp
                        => i = j

\* A node that moved to another hardware address is reached there: a slot, also
\* an expired one, holds the address the node's last packet came from.
CacheIsLatest ==
  \A i \in Slots : ArpTable[i].ipaddr # NoIp =>
                     ArpTable[i].ethaddr = lastEth[ArpTable[i].ipaddr]

\* arp.h: a slot is only lost by expiring; no other sender takes a live one.
LiveEntryStays ==
  [][\A i \in Slots : ArpTable[i].time # 0 => ArpTable'[i].ipaddr = ArpTable[i].ipaddr]_vars

\* The hop an answer to the packet must take: by ICMP back where it came from.
Hop(f) == IF f.kind = "echo" \/ NextHop(f.sip) = NoIp THEN f.sip ELSE NextHop(f.sip)

\* An answer goes to where the hop's last packet came from; it is broadcast only
\* when the table has no slot for the hop, and for a sender that is its own hop
\* this means that every slot is live with another address.
AnswerReachesHop ==
  [][\A f \in Frames :
       /\ rx # <<>> /\ f = Head(rx).frame /\ rx' = Tail(rx)
       /\ f.kind \in {"echo", "loopback"} /\ handled' # handled
       => \/ sent'.dst = lastEth'[Hop(f)] /\ arpMatchIp(ArpTable', Hop(f)) # -1
          \/ /\ sent'.dst = Broadcast
             /\ \A i \in Slots : ArpTable'[i].ipaddr # Hop(f)
             /\ Hop(f) = f.sip => \A i \in Slots : ArpTable[i].time # 0]_vars

\* netstack.h: "The function will process one received network packet per
\* call": each packet is answered, or its command carried out, at most once.
HandledOnce == \A id \in 1 .. MaxFrames : handled[id] <= 1

\* Every frame the interface accepted is taken from it.
FrameTaken == \A id \in 1 .. MaxFrames :
  (\E i \in 1 .. Len(rx) : rx[i].id = id) ~> ~(\E i \in 1 .. Len(rx) : rx[i].id = id)

-----------------------------------------------------------------------------
\* The inductive invariant.  With a driver that answers 0 on an empty poll, a
\* packet that waits in the interface, or is yet to come, was never handled.
Pending ==
  /\ \A i \in 1 .. Len(rx) : rx[i].id \in 1 .. arrived
  /\ \A i, j \in 1 .. Len(rx) : i < j => rx[i].id < rx[j].id
  /\ \A i \in 1 .. Len(rx) : handled[rx[i].id] = 0
  /\ \A id \in arrived + 1 .. MaxFrames : handled[id] = 0

AddressInv == TypeOK /\ UniqueIp /\ CacheIsLatest
OnceInv == TypeOK /\ Pending /\ HandledOnce
=============================================================================
