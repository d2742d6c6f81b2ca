-------------------------------- MODULE Dhcp --------------------------------
(***************************************************************************)
(* The DHCP client of avrlib/net/dhcp.c against servers, another client    *)
(* and a network that loses, delays, reorders and duplicates messages.  A  *)
(* message is a record of the fields that somebody looks at; its options   *)
(* are those of the server it comes from.                                  *)
(***************************************************************************)
EXTENDS IpLayer, FiniteSets

CONSTANTS
  Servers,      \* the addresses of the servers
  Pool,         \* for each server, the addresses it hands out
  Options,      \* and the netmask, routers and leasetime options it sends
  Absent,       \* for an option the server leaves out
  MyXid,        \* the first four bytes of this node's hardware address
  OtherXid,     \* the transaction number of another client
  Faults,       \* a subset of {"lose", "duplicate"}
  MaxNet        \* bound: messages on their way before another is sent

\* A server has to send a lease time, and need not send the other options.
ASSUME DhcpAssumption ==
  /\ Servers \subseteq IpAddr \ {NoIp}
  /\ Pool \in [Servers -> SUBSET (IpAddr \ {NoIp})]
  /\ \A s, t \in Servers : s # t => Pool[s] \cap Pool[t] = {}
  /\ Absent \notin IpAddr
  /\ Options \in [Servers -> [netmask : IpAddr \cup {Absent},
                              routers : IpAddr \cup {Absent},
                              leasetime : Nat \ {0}]]
  /\ MyXid # OtherXid /\ MaxNet \in Nat

VARIABLES
  DhcpServerIP, DhcpLeaseTime,
  net,          \* the messages on their way
  holder,       \* who holds each address: "free", "me" or "other"
  left,         \* and for how many seconds more
  asked,        \* ghost: dhcpRequest was called, and dhcpRelease not since
  gaveUp,       \* ghost: the address of the last dhcpRelease, if nothing overtook
                \* anything, until the next dhcpRequest
  overtaken     \* ghost: messages of this node have been overtaken, by a second,
                \* a call or a restart, and it has not begun afresh since

client == <<DhcpServerIP, DhcpLeaseTime>>
servers == <<holder, left>>
vars == <<ipvars, client, net, servers, asked, gaveUp, overtaken>>

Addresses == UNION {Pool[s] : s \in Servers}
ServerOf(a) == CHOOSE s \in Servers : a \in Pool[s]

Types == {"DISCOVER", "OFFER", "REQUEST", "ACK", "RELEASE"}
Message == [type : Types, sid : Servers, addr : IpAddr, xid : {MyXid, OtherXid}]
Msg(type, s, a, xid) == [type |-> type, sid |-> s, addr |-> a, xid |-> xid]

NoConfig == [ip |-> NoIp, netmask |-> "none", gateway |-> NoIp]

\* dhcpInit, after the stack's initialisation.
Init ==
  /\ arpInit
  /\ IpMyConfig = NoConfig
  /\ ArpMyAddr = [ethaddr |-> MyEth, ipaddr |-> NoIp]
  /\ DhcpServerIP = NoIp /\ DhcpLeaseTime = 0
  /\ net = {}
  /\ holder = [a \in Addresses |-> "free"] /\ left = [a \in Addresses |-> 0]
  /\ asked = FALSE /\ gaveUp = NoIp /\ overtaken = FALSE

-----------------------------------------------------------------------------
Put(messages) == Cardinality(net) < MaxNet /\ net' = net \cup messages

\* A message is delivered, and may stay for another delivery.
Deliver(m, answers) ==
  \/ net' = (net \ {m}) \cup answers
  \/ "duplicate" \in Faults /\ Put(answers)

\* (mutant: a reply to anybody is taken)
ForMe_any(m) == m.xid \in {MyXid, OtherXid}

ForMe(m) == m.xid = MyXid

\* What dhcpGetOption may leave in val: the option, or what val held.
dhcpGetOption(option, val) == IF option = Absent THEN val ELSE {option}

\* (mutant: the request is sent before the server is noted)
dhcpIn_OFFER_early(m) ==
  /\ m \in net /\ m.type = "OFFER" /\ ForMe(m)
  /\ DhcpServerIP' = m.sid
  /\ Deliver(m, IF DhcpServerIP = NoIp THEN {}
                                       ELSE {Msg("REQUEST", DhcpServerIP, m.addr, MyXid)})
  /\ UNCHANGED <<ipvars, DhcpLeaseTime, servers, asked, gaveUp, overtaken>>

dhcpIn_OFFER(m) ==
  /\ m \in net /\ m.type = "OFFER" /\ ForMe(m)
  /\ DhcpServerIP' = m.sid
  /\ Deliver(m, {Msg("REQUEST", m.sid, m.addr, MyXid)})
  /\ UNCHANGED <<ipvars, DhcpLeaseTime, servers, asked, gaveUp, overtaken>>

Bound(m, netmask, gateway) ==
  /\ DhcpLeaseTime' = Options[m.sid].leasetime
  /\ ipSetConfig([ip |-> m.addr, gateway |-> gateway,
                  netmask |-> IF netmask = NoIp THEN "none" ELSE "network"])

\* val is not initialised, and keeps the netmask when there are no routers.
dhcpIn_ACK(m) ==
  /\ m \in net /\ m.type = "ACK" /\ ForMe(m)
  /\ \E netmask \in dhcpGetOption(Options[m.sid].netmask, IpAddr) :
       \E gateway \in dhcpGetOption(Options[m.sid].routers, {netmask}) :
         Bound(m, netmask, gateway)
  /\ Deliver(m, {})
  /\ UNCHANGED <<DhcpServerIP, servers, asked, gaveUp, overtaken>>

\* A reply to another client.
dhcpIn_ignored(m) ==
  /\ m \in net /\ m.type \in {"OFFER", "ACK"} /\ ~ForMe(m)
  /\ Deliver(m, {})
  /\ UNCHANGED <<ipvars, client, servers, asked, gaveUp, overtaken>>

\* All exchanges of a node have the same transaction number, so what is left on
\* the way of an earlier one is taken for a part of the next.
OnItsWay(types) == \E m \in net : m.xid = MyXid /\ m.type \in types
Exchange == {"DISCOVER", "OFFER", "REQUEST", "ACK"}

Afresh == ~OnItsWay(Types) /\ IpMyConfig.ip = NoIp /\ DhcpLeaseTime = 0

Overtakes(types) == overtaken' = (overtaken \/ OnItsWay(types))

\* Broadcast: every server hears it.
dhcpRequest ==
  /\ IF Afresh THEN overtaken' = FALSE ELSE Overtakes({"RELEASE"})
  /\ Put({Msg("DISCOVER", s, NoIp, MyXid) : s \in Servers})
  /\ asked' = TRUE /\ gaveUp' = NoIp
  /\ UNCHANGED <<ipvars, client, servers>>

\* A release to no server reaches nobody.
dhcpRelease ==
  /\ Overtakes(Exchange)
  /\ IF DhcpServerIP = NoIp THEN UNCHANGED net
                             ELSE Put({Msg("RELEASE", DhcpServerIP, IpMyConfig.ip, MyXid)})
  /\ ipSetConfig(NoConfig)
  /\ DhcpLeaseTime' = 0
  /\ asked' = FALSE /\ gaveUp' = IF overtaken' THEN NoIp ELSE IpMyConfig.ip
  /\ UNCHANGED <<DhcpServerIP, servers>>

\* (mutant: a lease of 0 is counted on)
CountLease_on == DhcpLeaseTime' = DhcpLeaseTime - 1

\* (mutant: the last second is not counted)
CountLease_late == DhcpLeaseTime' = IF DhcpLeaseTime > 1 THEN DhcpLeaseTime - 1 ELSE DhcpLeaseTime

CountLease == DhcpLeaseTime' = IF DhcpLeaseTime # 0 THEN DhcpLeaseTime - 1 ELSE 0

\* A second passes: dhcpTimer runs, and the servers count their leases.
dhcpTimer ==
  /\ Overtakes({"ACK"})
  /\ CountLease
  /\ left' = [a \in Addresses |-> IF left[a] # 0 THEN left[a] - 1 ELSE 0]
  /\ holder' = [a \in Addresses |-> IF left[a] <= 1 THEN "free" ELSE holder[a]]
  /\ UNCHANGED <<ipvars, DhcpServerIP, net, asked, gaveUp>>

\* The node loses its power and comes up with nothing.
Restart ==
  /\ Overtakes(Exchange)
  /\ DhcpServerIP' = NoIp /\ DhcpLeaseTime' = 0
  /\ ipSetConfig(NoConfig)
  /\ asked' = FALSE /\ gaveUp' = NoIp
  /\ UNCHANGED <<net, servers>>

-----------------------------------------------------------------------------
\* The servers, the other client and the network.

\* A server offers a client that holds an address the same one again.
Offer(s, m, a) ==
  /\ m \in net /\ m.type = "DISCOVER" /\ m.sid = s
  /\ a \in Pool[s]
  /\ \/ holder[a] = "me"
     \/ holder[a] = "free" /\ \A b \in Pool[s] : holder[b] # "me"
  /\ Deliver(m, {Msg("OFFER", s, a, m.xid)})
  /\ UNCHANGED <<ipvars, client, servers, asked, gaveUp, overtaken>>

\* It confirms what can still be had; its refusal, which the client ignores, is
\* not modelled.
Confirm(s, m) ==
  /\ m \in net /\ m.type = "REQUEST" /\ m.sid = s
  /\ m.addr \in Pool[s] /\ holder[m.addr] # "other"
  /\ holder' = [holder EXCEPT ![m.addr] = "me"]
  /\ left' = [left EXCEPT ![m.addr] = Options[s].leasetime]
  /\ Deliver(m, {Msg("ACK", s, m.addr, m.xid)})
  /\ UNCHANGED <<ipvars, client, asked, gaveUp, overtaken>>

Reclaim(s, m) ==
  /\ m \in net /\ m.type = "RELEASE" /\ m.sid = s
  /\ IF m.addr \in Pool[s] /\ holder[m.addr] = "me"
       THEN /\ holder' = [holder EXCEPT ![m.addr] = "free"]
            /\ left' = [left EXCEPT ![m.addr] = 0]
       ELSE UNCHANGED servers
  /\ Deliver(m, {})
  /\ UNCHANGED <<ipvars, client, asked, gaveUp, overtaken>>

\* Another client is given an address that is not on offer, but never the last.
OtherTakes(a) ==
  /\ holder[a] = "free"
  /\ \A m \in net : m.type \in {"OFFER", "REQUEST"} => m.addr # a
  /\ \E b \in Addresses \ {a} : holder[b] # "other"
  /\ holder' = [holder EXCEPT ![a] = "other"]
  /\ left' = [left EXCEPT ![a] = Options[ServerOf(a)].leasetime]
  /\ Put({Msg("ACK", ServerOf(a), a, OtherXid)})
  /\ UNCHANGED <<ipvars, client, asked, gaveUp, overtaken>>

\* A server with nothing to give does not answer.
Unanswered(m) ==
  \/ m.type = "DISCOVER" /\ \A a \in Pool[m.sid] : holder[a] = "other"
  \/ m.type = "REQUEST" /\ (m.addr \notin Pool[m.sid] \/ holder[m.addr] = "other")

Lose(m) ==
  /\ m \in net
  /\ "lose" \in Faults \/ Unanswered(m)
  /\ net' = net \ {m}
  /\ UNCHANGED <<ipvars, client, servers, asked, gaveUp, overtaken>>

Offers == \E m \in net, s \in Servers : \E a \in Pool[s] : Offer(s, m, a)
Confirms == \E m \in net, s \in Servers : Confirm(s, m)
TakesOffer == \E m \in net : dhcpIn_OFFER(m)
TakesAck == \E m \in net : dhcpIn_ACK(m)

Next ==
  \/ dhcpRequest \/ dhcpRelease \/ dhcpTimer \/ Restart
  \/ TakesOffer \/ TakesAck \/ \E m \in net : dhcpIn_ignored(m)
  \/ Offers \/ Confirms \/ \E m \in net, s \in Servers : Reclaim(s, m)
  \/ \E a \in Addresses : OtherTakes(a)
  \/ \E m \in net : Lose(m)

\* A program that asked asks again until it has a lease, messages that are not
\* delivered are lost in the end, and of those sent again and again not all are
\* lost.
Spec ==
  /\ Init /\ [][Next]_vars
  /\ SF_vars(asked /\ DhcpLeaseTime = 0 /\ dhcpRequest)
  /\ WF_vars(\E m \in net : Lose(m))
  /\ SF_vars(Offers) /\ SF_vars(Confirms) /\ SF_vars(TakesOffer) /\ SF_vars(TakesAck)

-----------------------------------------------------------------------------
\* Every variable has its type; a lease that is counted is for an address of some
\* server's pool and never longer than that server's leases.
TypeOK ==
  /\ ArpTypeOK /\ IpMyConfig \in Configs
  /\ DhcpServerIP \in Servers \cup {NoIp}
  /\ DhcpLeaseTime \in Nat
  /\ DhcpLeaseTime # 0 =>
       /\ IpMyConfig.ip \in Addresses
       /\ DhcpLeaseTime <= Options[ServerOf(IpMyConfig.ip)].leasetime
  /\ net \subseteq Message
  /\ holder \in [Addresses -> {"free", "me", "other"}]
  /\ left \in [Addresses -> Nat]
  /\ asked \in BOOLEAN /\ gaveUp \in IpAddr /\ overtaken \in BOOLEAN

\* While the client counts a lease, the address it is configured with is held
\* for it at the server, for at least as long as the client counts; ARP answers
\* for that address, and the gateway is the one the server named, if it did.
\* It need not be after an acknowledgement that came a second late, or one that
\* a release or a restart overtook.
LeaseHeld ==
  DhcpLeaseTime # 0 /\ ~overtaken =>
    LET a == IpMyConfig.ip
    IN  /\ a \in Addresses /\ holder[a] = "me" /\ left[a] >= DhcpLeaseTime
        /\ ArpMyAddr.ipaddr = a
        /\ Options[ServerOf(a)].routers \in {IpMyConfig.gateway, Absent}

\* A node that has given up its address, or started again, gets none before the
\* program calls dhcpRequest, whatever the servers tell other clients - when none
\* of its own messages was still on its way at that moment.
OnlyWhenAsked == IpMyConfig.ip # NoIp /\ ~overtaken => asked

\* A program that asks until it has a lease gets one, unless it gives up.
GetsConfigured == asked ~> (DhcpLeaseTime # 0 \/ ~asked)

\* After dhcpRelease, when the release has arrived, the server does not hold
\* the address any more (dhcp.h: it can be allocated again), unless
\* messages overtook each other before.
ReleaseFrees == gaveUp # NoIp /\ net = {} => holder[gaveUp] # "me"
=============================================================================
