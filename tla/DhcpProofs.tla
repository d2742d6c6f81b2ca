----------------------------- MODULE DhcpProofs -----------------------------
(***************************************************************************)
(* Proofs about the DHCP client: that a lease it counts is held for it at  *)
(* a server, and that it has no address it did not ask for, for every set  *)
(* of servers, pools, options and faults, unless messages are overtaken.   *)
(***************************************************************************)
EXTENDS Dhcp, TLAPS

\* An acknowledgement for this client stands for a lease at the server.
Granted(m) ==
  /\ m.sid \in Servers /\ m.addr \in Pool[m.sid]
  /\ holder[m.addr] = "me" /\ left[m.addr] >= Options[m.sid].leasetime

\* Other clients' requests are not modelled, only the replies to them.
FromServer(m) ==
  /\ m.xid = OtherXid => m.type = "ACK"
  /\ m.type = "ACK" => m.addr \in Pool[m.sid]

\* Until messages are overtaken, those of one kind of exchange are under way at a
\* time.
MsgOK(m) ==
  /\ m.xid = MyXid => (m.type = "RELEASE" <=> ~asked)
  /\ m.type = "ACK" /\ m.xid = MyXid => Granted(m)

InOrder ==
  /\ \A m \in net : MsgOK(m)
  /\ LeaseHeld
  /\ ~asked => IpMyConfig.ip = NoIp /\ DhcpLeaseTime = 0

\* The inductive invariant.
IInv ==
  /\ TypeOK
  /\ \A m \in net : FromServer(m)
  /\ overtaken \/ InOrder

\* No address is in two pools.
LEMMA PoolOf ==
  ASSUME NEW s \in Servers, NEW a \in Pool[s]
  PROVE  a \in Addresses /\ a \in IpAddr /\ ServerOf(a) = s
BY DhcpAssumption DEF ServerOf, Addresses

LEMMA AddressPool ==
  ASSUME NEW a \in Addresses
  PROVE  ServerOf(a) \in Servers /\ a \in Pool[ServerOf(a)] /\ a \in IpAddr
<1>1. PICK s \in Servers : a \in Pool[s]
  BY DEF Addresses
<1> QED
  BY <1>1, PoolOf

LEMMA OptionsOf ==
  ASSUME NEW s \in Servers
  PROVE  /\ Options[s].leasetime \in Nat \ {0}
         /\ Options[s].netmask \in IpAddr \cup {Absent}
         /\ Options[s].routers \in IpAddr \cup {Absent}
         /\ Absent \notin IpAddr
BY DhcpAssumption

LEMMA IsMessage ==
  ASSUME NEW type \in Types, NEW s \in Servers, NEW a \in IpAddr,
         NEW xid \in {MyXid, OtherXid}
  PROVE  /\ Msg(type, s, a, xid) \in Message
         /\ Msg(type, s, a, xid).type = type /\ Msg(type, s, a, xid).sid = s
         /\ Msg(type, s, a, xid).addr = a /\ Msg(type, s, a, xid).xid = xid
BY DEF Message, Msg

LEMMA Delivered ==
  ASSUME NEW m, NEW answers, Deliver(m, answers)
  PROVE  net' \subseteq net \cup answers
BY DEF Deliver, Put

\* ipSetConfig keeps the types.
LEMMA SetConfigType ==
  ASSUME TypeOK, NEW config \in Configs, ipSetConfig(config)
  PROVE  ArpTypeOK' /\ IpMyConfig' \in Configs
         /\ ArpMyAddr'.ipaddr = config.ip
BY IpAssumption DEF TypeOK, ArpTypeOK, ipSetConfig, Configs

LEMMA NoConfigType == NoConfig \in Configs /\ NoConfig.ip = NoIp
BY ArpAssumption DEF NoConfig, Configs, Masks

\* Before anything is sent.  The stack's addresses are those of its start.
LEMMA InitIInv == Init => IInv
<1> SUFFICES ASSUME Init PROVE IInv
  OBVIOUS
<1>1. ArpTypeOK /\ IpMyConfig \in Configs
  BY ArpAssumption, IpAssumption, NoConfigType DEF Init, arpInit, ArpTypeOK, Entry, NoConfig
<1>2. TypeOK
  BY <1>1, ArpAssumption DEF Init, TypeOK
<1> QED
  BY <1>2, NoConfigType DEF Init, IInv, InOrder, LeaseHeld

-----------------------------------------------------------------------------
\* A step that leaves the addresses, the lease and the servers alone.
LEMMA NetStep ==
  ASSUME IInv, UNCHANGED <<ipvars, DhcpLeaseTime, servers, asked, gaveUp, overtaken>>,
         DhcpServerIP' \in Servers \cup {NoIp},
         \A m \in net' : \/ m \in net
                         \/ m \in Message /\ FromServer(m) /\ (~overtaken => MsgOK(m))
  PROVE  IInv'
<1>1. TypeOK'
  BY DEF IInv, TypeOK, ArpTypeOK, ipvars, arpvars, servers
<1>2. ASSUME NEW m \in net' PROVE FromServer(m)' /\ (~overtaken => MsgOK(m)')
  <2>1. FromServer(m) /\ (~overtaken => MsgOK(m))
    BY DEF IInv, InOrder
  <2> QED
    BY <2>1 DEF FromServer, MsgOK, Granted, servers
<1>3. ~overtaken => LeaseHeld'
  BY DEF IInv, InOrder, LeaseHeld, ipvars, arpvars, servers
<1> QED
  BY <1>1, <1>2, <1>3 DEF IInv, InOrder, ipvars

LEMMA OfferInStep == IInv /\ TakesOffer => IInv'
<1> SUFFICES ASSUME IInv, NEW m \in net, dhcpIn_OFFER(m) PROVE IInv'
  BY DEF TakesOffer
<1>1. m \in Message /\ (~overtaken => MsgOK(m)) /\ m.xid = MyXid /\ m.type = "OFFER"
  BY DEF IInv, InOrder, TypeOK, dhcpIn_OFFER, ForMe
<1>2. m.sid \in Servers /\ m.addr \in IpAddr
  BY <1>1 DEF Message
<1> DEFINE request == Msg("REQUEST", m.sid, m.addr, MyXid)
<1>3. request \in Message /\ request.type = "REQUEST" /\ request.xid = MyXid
  BY <1>2, IsMessage DEF Types
<1>4. FromServer(request) /\ (~overtaken => MsgOK(request))
  <2> HIDE DEF request
  <2> QED
    BY <1>1, <1>3, DhcpAssumption DEF FromServer, MsgOK
<1>5. net' \subseteq net \cup {request}
  BY Delivered DEF dhcpIn_OFFER
<1> QED
  BY <1>2, <1>3, <1>4, <1>5, NetStep DEF dhcpIn_OFFER

LEMMA IgnoredStep == ASSUME NEW m \in net PROVE IInv /\ dhcpIn_ignored(m) => IInv'
<1> SUFFICES ASSUME IInv, dhcpIn_ignored(m) PROVE IInv'
  OBVIOUS
<1>1. net' \subseteq net
  BY Delivered DEF dhcpIn_ignored
<1>2. DhcpServerIP' \in Servers \cup {NoIp}
  BY DEF dhcpIn_ignored, client, IInv, TypeOK
<1> QED
  BY <1>1, <1>2, NetStep DEF dhcpIn_ignored, client

LEMMA LoseStep == ASSUME NEW m \in net PROVE IInv /\ Lose(m) => IInv'
<1> SUFFICES ASSUME IInv, Lose(m) PROVE IInv'
  OBVIOUS
<1>1. net' \subseteq net /\ DhcpServerIP' \in Servers \cup {NoIp}
  BY DEF Lose, client, IInv, TypeOK
<1> QED
  BY <1>1, NetStep DEF Lose, client

\* An offer answers a message of this client.
LEMMA OffersStep == IInv /\ Offers => IInv'
<1> SUFFICES ASSUME IInv, NEW m \in net, NEW s \in Servers, NEW a \in Pool[s], Offer(s, m, a)
             PROVE  IInv'
  BY DEF Offers
<1>1. m \in Message /\ FromServer(m) /\ (~overtaken => MsgOK(m)) /\ m.type = "DISCOVER"
  BY DEF IInv, InOrder, TypeOK, Offer
<1>2. m.xid = MyXid
  BY <1>1 DEF FromServer, Message
<1> DEFINE offer == Msg("OFFER", s, a, m.xid)
<1>3. offer \in Message /\ offer.type = "OFFER" /\ offer.xid = MyXid
  BY <1>2, IsMessage, PoolOf DEF Types
<1>4. FromServer(offer) /\ (~overtaken => MsgOK(offer))
  <2> HIDE DEF offer
  <2> QED
    BY <1>1, <1>2, <1>3, DhcpAssumption DEF FromServer, MsgOK
<1>5. net' \subseteq net \cup {offer}
  BY Delivered DEF Offer
<1>6. DhcpServerIP' \in Servers \cup {NoIp}
  BY DEF Offer, client, IInv, TypeOK
<1> QED
  BY <1>3, <1>4, <1>5, <1>6, NetStep DEF Offer, client

-----------------------------------------------------------------------------
\* The client's other steps.

\* The client counts a lease from no more than the server gave it.
LEMMA AckStep == IInv /\ TakesAck => IInv'
<1> SUFFICES ASSUME IInv, NEW m \in net, dhcpIn_ACK(m) PROVE IInv'
  BY DEF TakesAck
<1>1. m \in Message /\ FromServer(m) /\ m.xid = MyXid /\ m.type = "ACK"
  BY DEF IInv, TypeOK, dhcpIn_ACK, ForMe
<1>2. ~overtaken => Granted(m) /\ asked
  BY <1>1 DEF MsgOK, IInv, InOrder, TypeOK
<1>3. /\ m.sid \in Servers /\ m.addr \in Addresses /\ m.addr \in IpAddr
      /\ ServerOf(m.addr) = m.sid
  BY <1>1, PoolOf DEF FromServer, Message
<1> DEFINE option == Options[m.sid]
<1>4. /\ option.leasetime \in Nat /\ option.netmask \in IpAddr \cup {Absent}
      /\ option.routers \in IpAddr \cup {Absent} /\ Absent \notin IpAddr
  BY <1>3, OptionsOf
<1>5. PICK netmask \in IpAddr, gateway \in IpAddr :
        /\ Bound(m, netmask, gateway)
        /\ option.routers \in {gateway, Absent}
  BY <1>4 DEF dhcpIn_ACK, dhcpGetOption
<1> DEFINE config == [ip |-> m.addr, gateway |-> gateway,
                      netmask |-> IF netmask = NoIp THEN "none" ELSE "network"]
<1>6. DhcpLeaseTime' = option.leasetime /\ ipSetConfig(config)
  BY <1>5 DEF Bound
<1>7. config \in Configs /\ config.ip = m.addr /\ config.gateway = gateway
  BY <1>3 DEF Configs, Masks
<1>8. IpMyConfig' = config
  BY <1>6 DEF ipSetConfig
<1> HIDE DEF config
<1>9. ArpTypeOK' /\ IpMyConfig' \in Configs /\ ArpMyAddr'.ipaddr = m.addr
  BY <1>6, <1>7, SetConfigType DEF IInv
<1>10. net' \subseteq net
  BY Delivered DEF dhcpIn_ACK
<1>11. UNCHANGED <<DhcpServerIP, holder, left, asked, gaveUp, overtaken>>
  BY DEF dhcpIn_ACK, servers
<1>12. TypeOK'
  BY <1>3, <1>4, <1>6, <1>7, <1>8, <1>9, <1>10, <1>11 DEF IInv, TypeOK
<1>13. ASSUME NEW k \in net' PROVE FromServer(k)' /\ (~overtaken => MsgOK(k)')
  <2>1. FromServer(k) /\ (~overtaken => MsgOK(k))
    BY <1>10 DEF IInv, InOrder
  <2> QED
    BY <2>1, <1>11 DEF FromServer, MsgOK, Granted
<1>14. ~overtaken => LeaseHeld'
  BY <1>2, <1>3, <1>5, <1>6, <1>7, <1>8, <1>9, <1>11 DEF LeaseHeld, Granted
<1> QED
  BY <1>2, <1>11, <1>12, <1>13, <1>14 DEF IInv, InOrder

\* What a call or a second that overtakes nothing finds on its way.
LEMMA NotOvertaken ==
  ASSUME IInv, NEW types, Overtakes(types), ~overtaken'
  PROVE  /\ InOrder /\ \A m \in net : m.xid = MyXid => m.type \notin types
         /\ overtaken \in BOOLEAN
BY DEF IInv, TypeOK, Overtakes, OnItsWay

LEMMA GhostType ==
  ASSUME IInv, NEW types, Overtakes(types) PROVE overtaken' \in BOOLEAN
BY DEF IInv, TypeOK, Overtakes, OnItsWay

\* A request begins afresh, or overtakes no release.
LEMMA RequestStep == IInv /\ dhcpRequest => IInv'
<1> SUFFICES ASSUME IInv, dhcpRequest PROVE IInv'
  OBVIOUS
<1>1. net' = net \cup {Msg("DISCOVER", s, NoIp, MyXid) : s \in Servers}
  BY DEF dhcpRequest, Put
<1>2. UNCHANGED <<ipvars, client, servers>> /\ asked' = TRUE /\ gaveUp' = NoIp
  BY DEF dhcpRequest
<1>3. ASSUME NEW m \in net' \ net
      PROVE  m \in Message /\ m.type = "DISCOVER" /\ m.xid = MyXid
  <2>1. PICK s \in Servers : m = Msg("DISCOVER", s, NoIp, MyXid)
    BY <1>1
  <2> QED
    BY <2>1, IsMessage, ArpAssumption DEF Types
<1>4. overtaken' \in BOOLEAN
  BY GhostType DEF dhcpRequest
<1>5. TypeOK'
  BY <1>2, <1>3, <1>4, ArpAssumption
     DEF IInv, TypeOK, ArpTypeOK, ipvars, arpvars, client, servers
<1>6. ASSUME NEW m \in net' PROVE FromServer(m)'
  BY <1>3, DhcpAssumption DEF IInv, FromServer
<1>7. ASSUME ~overtaken' PROVE InOrder'
  <2>1. LeaseHeld' /\ \A m \in net : m.xid = MyXid => m.type # "RELEASE" /\ MsgOK(m)
    <3>1. CASE Afresh
      BY <1>2, <3>1 DEF Afresh, OnItsWay, LeaseHeld, client, IInv, TypeOK, Message
    <3>2. CASE ~Afresh
      <4>1. Overtakes({"RELEASE"})
        BY <3>2 DEF dhcpRequest
      <4>2. InOrder /\ ~overtaken /\ \A m \in net : m.xid = MyXid => m.type \notin {"RELEASE"}
        BY <1>7, <4>1, NotOvertaken DEF Overtakes
      <4> QED
        BY <1>2, <4>2 DEF InOrder, LeaseHeld, ipvars, arpvars, client, servers
    <3> QED
      BY <3>1, <3>2
  <2>2. ASSUME NEW m \in net' PROVE MsgOK(m)'
    <3>1. m \in net => m \in Message /\ FromServer(m)
      BY DEF IInv, TypeOK
    <3> QED
      BY <1>2, <1>3, <2>1, <3>1, DhcpAssumption
         DEF MsgOK, FromServer, Granted, servers, Message
  <2> QED
    BY <1>2, <2>1, <2>2 DEF InOrder
<1> QED
  BY <1>5, <1>6, <1>7 DEF IInv

\* A message that is left when an exchange is given up is nobody's business.
LEMMA LeftOver ==
  ASSUME NEW m \in net, IInv, m.xid = MyXid => m.type \notin Exchange, asked' = FALSE
  PROVE  MsgOK(m)'
<1>1. m \in Message /\ FromServer(m)
  BY DEF IInv, TypeOK
<1>2. CASE m.xid = MyXid
  BY <1>1, <1>2 DEF MsgOK, Exchange, Message, Types
<1>3. CASE m.xid = OtherXid
  BY <1>1, <1>3, DhcpAssumption DEF MsgOK
<1> QED
  BY <1>1, <1>2, <1>3 DEF Message

LEMMA ReleaseStep == IInv /\ dhcpRelease => IInv'
<1> SUFFICES ASSUME IInv, dhcpRelease PROVE IInv'
  OBVIOUS
<1>1. /\ asked' = FALSE /\ gaveUp' \in {NoIp, IpMyConfig.ip} /\ DhcpLeaseTime' = 0
      /\ UNCHANGED <<DhcpServerIP, holder, left>> /\ ipSetConfig(NoConfig)
      /\ Overtakes(Exchange) /\ IpMyConfig.ip \in IpAddr
  BY DEF dhcpRelease, servers, IInv, TypeOK, Configs
<1>2. ASSUME NEW m \in net' \ net
      PROVE  m \in Message /\ m.type = "RELEASE" /\ m.xid = MyXid
  <2>1. DhcpServerIP \in Servers /\ m = Msg("RELEASE", DhcpServerIP, IpMyConfig.ip, MyXid)
    BY DEF dhcpRelease, Put, IInv, TypeOK
  <2> QED
    BY <1>1, <2>1, IsMessage DEF Types
<1>3. ArpTypeOK' /\ IpMyConfig' \in Configs /\ IpMyConfig'.ip = NoIp
  BY <1>1, SetConfigType, NoConfigType DEF IInv, ipSetConfig
<1>4. TypeOK'
  BY <1>1, <1>2, <1>3, GhostType, ArpAssumption DEF IInv, TypeOK
<1>5. ASSUME NEW m \in net' PROVE FromServer(m)'
  BY <1>2, DhcpAssumption DEF IInv, FromServer
<1>6. ASSUME ~overtaken', NEW m \in net' PROVE MsgOK(m)'
  <2>1. CASE m \in net
    <3>1. m.xid = MyXid => m.type \notin Exchange
      BY <1>1, <1>6, <2>1, NotOvertaken
    <3> QED
      BY <1>1, <2>1, <3>1, LeftOver
  <2>2. CASE m \notin net
    BY <1>1, <1>2, <2>2, DhcpAssumption DEF MsgOK
  <2> QED
    BY <2>1, <2>2
<1> QED
  BY <1>1, <1>3, <1>4, <1>5, <1>6 DEF IInv, InOrder, LeaseHeld

LEMMA RestartStep == IInv /\ Restart => IInv'
<1> SUFFICES ASSUME IInv, Restart PROVE IInv'
  OBVIOUS
<1>1. /\ net' = net /\ asked' = FALSE /\ gaveUp' = NoIp /\ DhcpServerIP' = NoIp /\ DhcpLeaseTime' = 0
      /\ UNCHANGED <<holder, left>> /\ ipSetConfig(NoConfig) /\ Overtakes(Exchange)
  BY DEF Restart, servers
<1>2. ArpTypeOK' /\ IpMyConfig' \in Configs /\ IpMyConfig'.ip = NoIp
  BY <1>1, SetConfigType, NoConfigType DEF IInv, ipSetConfig
<1>3. TypeOK'
  BY <1>1, <1>2, GhostType, ArpAssumption DEF IInv, TypeOK
<1>4. ASSUME NEW m \in net' PROVE FromServer(m)'
  BY <1>1 DEF IInv, FromServer
<1>5. ASSUME ~overtaken', NEW m \in net' PROVE MsgOK(m)'
  <2>1. m.xid = MyXid => m.type \notin Exchange
    BY <1>1, <1>5, NotOvertaken
  <2> QED
    BY <1>1, <2>1, LeftOver
<1> QED
  BY <1>1, <1>2, <1>3, <1>4, <1>5 DEF IInv, InOrder, LeaseHeld

\* The client and the servers count together, with no acknowledgement on its way.
LEMMA TimerStep == IInv /\ dhcpTimer => IInv'
<1> SUFFICES ASSUME IInv, dhcpTimer PROVE IInv'
  OBVIOUS
<1>1. /\ UNCHANGED <<ipvars, DhcpServerIP, net, asked, gaveUp>>
      /\ DhcpLeaseTime' = IF DhcpLeaseTime # 0 THEN DhcpLeaseTime - 1 ELSE 0
      /\ left' = [a \in Addresses |-> IF left[a] # 0 THEN left[a] - 1 ELSE 0]
      /\ holder' = [a \in Addresses |-> IF left[a] <= 1 THEN "free" ELSE holder[a]]
      /\ Overtakes({"ACK"})
  BY DEF dhcpTimer, CountLease
<1>2. DhcpLeaseTime \in Nat /\ left \in [Addresses -> Nat]
      /\ holder \in [Addresses -> {"free", "me", "other"}]
  BY DEF IInv, TypeOK
<1>3. left' \in [Addresses -> Nat] /\ holder' \in [Addresses -> {"free", "me", "other"}]
  BY <1>1, <1>2
<1>4. DhcpLeaseTime' # 0 =>
        IpMyConfig'.ip \in Addresses /\ DhcpLeaseTime' <= Options[ServerOf(IpMyConfig'.ip)].leasetime
  <2> SUFFICES ASSUME DhcpLeaseTime' # 0
               PROVE  /\ IpMyConfig'.ip \in Addresses
                      /\ DhcpLeaseTime' <= Options[ServerOf(IpMyConfig'.ip)].leasetime
    OBVIOUS
  <2>1. DhcpLeaseTime # 0 /\ DhcpLeaseTime' = DhcpLeaseTime - 1 /\ IpMyConfig' = IpMyConfig
    BY <1>1 DEF ipvars
  <2>2. /\ IpMyConfig.ip \in Addresses
        /\ DhcpLeaseTime <= Options[ServerOf(IpMyConfig.ip)].leasetime
    BY <2>1 DEF IInv, TypeOK
  <2>3. Options[ServerOf(IpMyConfig.ip)].leasetime \in Nat
    BY <2>2, AddressPool, OptionsOf
  <2> QED
    BY <1>2, <2>1, <2>2, <2>3
<1>5. TypeOK'
  <2>1. DhcpLeaseTime' \in Nat
    BY <1>1, <1>2
  <2> QED
    BY <1>1, <1>3, <1>4, <2>1, GhostType DEF IInv, TypeOK, ArpTypeOK, ipvars, arpvars
<1>6. ASSUME NEW m \in net' PROVE FromServer(m)'
  BY <1>1 DEF IInv, FromServer
<1>7. ASSUME ~overtaken' PROVE InOrder'
  <2>1. InOrder /\ ~overtaken /\ \A m \in net : m.xid = MyXid => m.type # "ACK"
    BY <1>1, <1>7, NotOvertaken DEF Overtakes
  <2>2. ASSUME DhcpLeaseTime' # 0 PROVE LeaseHeld'
    <3> DEFINE a == IpMyConfig.ip
    <3>1. DhcpLeaseTime' = DhcpLeaseTime - 1 /\ DhcpLeaseTime >= 2
      BY <1>1, <1>2, <2>2
    <3>2. /\ a \in Addresses /\ holder[a] = "me" /\ left[a] >= DhcpLeaseTime
          /\ ArpMyAddr.ipaddr = a
          /\ Options[ServerOf(a)].routers \in {IpMyConfig.gateway, Absent}
      BY <2>1, <3>1 DEF InOrder, LeaseHeld
    <3>3. holder'[a] = "me" /\ left'[a] = left[a] - 1 /\ left[a] \in Nat
      BY <1>1, <1>2, <3>1, <3>2
    <3> QED
      BY <1>1, <1>2, <3>1, <3>2, <3>3 DEF LeaseHeld, ipvars, arpvars
  <2>3. ~asked' => IpMyConfig'.ip = NoIp /\ DhcpLeaseTime' = 0
    BY <1>1, <2>1 DEF InOrder, ipvars
  <2>4. ASSUME NEW m \in net' PROVE MsgOK(m)'
    BY <1>1, <2>1 DEF InOrder, MsgOK
  <2> QED
    BY <2>2, <2>3, <2>4 DEF InOrder, LeaseHeld
<1> QED
  BY <1>5, <1>6, <1>7 DEF IInv

-----------------------------------------------------------------------------
\* The servers' steps.  What a server does with an address it did not give this
\* client leaves the invariant alone.
LEMMA ServerStep ==
  ASSUME IInv, UNCHANGED <<ipvars, client, asked, gaveUp, overtaken>>,
         holder' \in [Addresses -> {"free", "me", "other"}], left' \in [Addresses -> Nat],
         \A m \in net' : \/ m \in net
                         \/ m \in Message /\ FromServer(m) /\ (~overtaken => MsgOK(m)'),
         asked /\ ~overtaken => \A b \in Addresses :
           holder[b] = "me" =>
             /\ holder'[b] = "me"
             /\ left'[b] >= left[b] \/ left'[b] = Options[ServerOf(b)].leasetime
  PROVE  IInv'
<1>1. TypeOK'
  BY DEF IInv, TypeOK, ArpTypeOK, ipvars, arpvars, client
<1>2. left \in [Addresses -> Nat] /\ DhcpLeaseTime \in Nat /\ net \subseteq Message /\ asked \in BOOLEAN
  BY DEF IInv, TypeOK
<1>3. ASSUME NEW m \in net, ~overtaken PROVE MsgOK(m)'
  <2>1. MsgOK(m) /\ m \in Message
    BY <1>2, <1>3 DEF IInv, InOrder
  <2>2. ASSUME m.type = "ACK", m.xid = MyXid PROVE Granted(m)'
    <3>1. Granted(m) /\ asked
      BY <1>2, <2>1, <2>2 DEF MsgOK
    <3>2. m.addr \in Addresses /\ ServerOf(m.addr) = m.sid /\ m.sid \in Servers
      BY <3>1, PoolOf DEF Granted
    <3>3. Options[m.sid].leasetime \in Nat
      BY <3>2, OptionsOf
    <3>4. holder[m.addr] = "me" /\ left[m.addr] >= Options[m.sid].leasetime /\ m.addr \in Pool[m.sid]
      BY <3>1 DEF Granted
    <3>5. left'[m.addr] \in Nat /\ left[m.addr] \in Nat
      BY <1>2, <3>2
    <3> QED
      BY <1>3, <3>1, <3>2, <3>3, <3>4, <3>5 DEF Granted
  <2> QED
    BY <2>1, <2>2 DEF MsgOK
<1>4. ~overtaken => LeaseHeld'
  <2> SUFFICES ASSUME DhcpLeaseTime # 0, ~overtaken PROVE LeaseHeld'
    BY DEF LeaseHeld, client
  <2> DEFINE a == IpMyConfig.ip
  <2>1. /\ a \in Addresses /\ holder[a] = "me" /\ left[a] >= DhcpLeaseTime /\ asked
        /\ ArpMyAddr.ipaddr = a
        /\ Options[ServerOf(a)].routers \in {IpMyConfig.gateway, Absent}
        /\ DhcpLeaseTime <= Options[ServerOf(a)].leasetime
    BY DEF IInv, InOrder, LeaseHeld, TypeOK
  <2>2. left'[a] \in Nat /\ left[a] \in Nat
    BY <1>2, <2>1
  <2>3. holder'[a] = "me" /\ left'[a] >= DhcpLeaseTime
    BY <1>2, <2>1, <2>2
  <2> QED
    BY <2>1, <2>3 DEF LeaseHeld, ipvars, arpvars, client
<1>5. ASSUME NEW m \in net' PROVE FromServer(m)'
  BY DEF IInv, FromServer
<1>6. ASSUME ~overtaken PROVE InOrder'
  BY <1>3, <1>4, <1>6 DEF IInv, InOrder, ipvars, client
<1> QED
  BY <1>1, <1>5, <1>6 DEF IInv

LEMMA ConfirmsStep == IInv /\ Confirms => IInv'
<1> SUFFICES ASSUME IInv, NEW m \in net, NEW s \in Servers, Confirm(s, m) PROVE IInv'
  BY DEF Confirms
<1>1. /\ m \in Message /\ FromServer(m) /\ (~overtaken => MsgOK(m))
      /\ m.type = "REQUEST" /\ m.addr \in Pool[s]
  BY DEF IInv, InOrder, TypeOK, Confirm
<1>2. m.xid = MyXid /\ (~overtaken => asked)
  BY <1>1 DEF FromServer, MsgOK, Message, IInv, TypeOK
<1>3. m.addr \in Addresses /\ m.addr \in IpAddr /\ ServerOf(m.addr) = s /\ Options[s].leasetime \in Nat
  BY <1>1, PoolOf, OptionsOf
<1> DEFINE ack == Msg("ACK", s, m.addr, m.xid)
<1>4. ack \in Message /\ ack.sid = s /\ ack.addr = m.addr /\ ack.type = "ACK" /\ ack.xid = MyXid
  BY <1>2, <1>3, IsMessage DEF Types
<1>5. net' \subseteq net \cup {ack}
  BY Delivered DEF Confirm
<1> HIDE DEF ack
<1>6. /\ UNCHANGED <<ipvars, client, asked, gaveUp, overtaken>>
      /\ holder' = [holder EXCEPT ![m.addr] = "me"]
      /\ left' = [left EXCEPT ![m.addr] = Options[s].leasetime]
      /\ holder \in [Addresses -> {"free", "me", "other"}] /\ left \in [Addresses -> Nat]
  BY DEF Confirm, IInv, TypeOK
<1>7. holder' \in [Addresses -> {"free", "me", "other"}] /\ left' \in [Addresses -> Nat]
  BY <1>3, <1>6
<1>8. ASSUME NEW k, k = ack PROVE FromServer(k) /\ (~overtaken => MsgOK(k)')
  <2>1. holder'[m.addr] = "me" /\ left'[m.addr] = Options[s].leasetime
    BY <1>3, <1>6
  <2>2. Granted(k)'
    BY <1>1, <1>3, <1>4, <1>8, <2>1 DEF Granted
  <2> QED
    BY <1>1, <1>2, <1>4, <1>6, <1>8, <2>2, DhcpAssumption DEF MsgOK, FromServer
<1>9. ASSUME NEW b \in Addresses, holder[b] = "me"
      PROVE  holder'[b] = "me" /\ (left'[b] >= left[b] \/ left'[b] = Options[ServerOf(b)].leasetime)
  BY <1>3, <1>6, <1>9
<1> QED
  BY <1>4, <1>5, <1>6, <1>7, <1>8, <1>9, ServerStep

\* A release is on its way only when the client gave its address up.
LEMMA ReclaimStep ==
  ASSUME NEW m \in net, NEW s \in Servers
  PROVE  IInv /\ Reclaim(s, m) => IInv'
<1> SUFFICES ASSUME IInv, Reclaim(s, m) PROVE IInv'
  OBVIOUS
<1>1. m \in Message /\ FromServer(m) /\ (~overtaken => MsgOK(m)) /\ m.type = "RELEASE"
  BY DEF IInv, InOrder, TypeOK, Reclaim
<1>2. ~overtaken => ~asked
  BY <1>1 DEF FromServer, MsgOK, Message
<1>3. net' \subseteq net
  BY Delivered DEF Reclaim
<1>4. /\ UNCHANGED <<ipvars, client, asked, gaveUp, overtaken>>
      /\ holder \in [Addresses -> {"free", "me", "other"}] /\ left \in [Addresses -> Nat]
  BY DEF Reclaim, IInv, TypeOK
<1>5. holder' \in [Addresses -> {"free", "me", "other"}] /\ left' \in [Addresses -> Nat]
  <2>1. CASE UNCHANGED servers
    BY <1>4, <2>1 DEF servers
  <2>2. CASE /\ holder' = [holder EXCEPT ![m.addr] = "free"]
             /\ left' = [left EXCEPT ![m.addr] = 0]
    BY <1>4, <2>2
  <2> QED
    BY <2>1, <2>2 DEF Reclaim
<1> QED
  BY <1>2, <1>3, <1>4, <1>5, ServerStep

\* Another client is given only what is free.
LEMMA OtherTakesStep == ASSUME NEW a \in Addresses PROVE IInv /\ OtherTakes(a) => IInv'
<1> SUFFICES ASSUME IInv, OtherTakes(a) PROVE IInv'
  OBVIOUS
<1> DEFINE s == ServerOf(a)
           ack == Msg("ACK", s, a, OtherXid)
<1>1. s \in Servers /\ a \in IpAddr /\ a \in Pool[s] /\ Options[s].leasetime \in Nat
  BY AddressPool, OptionsOf
<1>2. ack \in Message /\ ack.type = "ACK" /\ ack.xid = OtherXid /\ ack.addr = a /\ ack.sid = s
  BY <1>1, IsMessage DEF Types
<1>3. /\ UNCHANGED <<ipvars, client, asked, gaveUp, overtaken>> /\ net' = net \cup {ack}
      /\ holder[a] = "free" /\ holder' = [holder EXCEPT ![a] = "other"]
      /\ left' = [left EXCEPT ![a] = Options[s].leasetime]
      /\ holder \in [Addresses -> {"free", "me", "other"}] /\ left \in [Addresses -> Nat]
  BY DEF OtherTakes, Put, IInv, TypeOK
<1> HIDE DEF ack, s
<1>4. holder' \in [Addresses -> {"free", "me", "other"}] /\ left' \in [Addresses -> Nat]
  BY <1>1, <1>3
<1>5. ASSUME NEW k, k = ack PROVE FromServer(k) /\ MsgOK(k)'
  BY <1>1, <1>2, <1>5, DhcpAssumption DEF FromServer, MsgOK
<1>6. ASSUME NEW b \in Addresses, holder[b] = "me"
      PROVE  holder'[b] = "me" /\ left'[b] >= left[b]
  BY <1>3, <1>6
<1> QED
  BY <1>2, <1>3, <1>4, <1>5, <1>6, ServerStep

-----------------------------------------------------------------------------
LEMMA NextIInv == IInv /\ [Next]_vars => IInv'
<1> SUFFICES ASSUME IInv, [Next]_vars PROVE IInv'
  OBVIOUS
<1>1. CASE dhcpRequest
  BY <1>1, RequestStep
<1>2. CASE dhcpRelease
  BY <1>2, ReleaseStep
<1>3. CASE dhcpTimer
  BY <1>3, TimerStep
<1>4. CASE Restart
  BY <1>4, RestartStep
<1>5. CASE TakesOffer
  BY <1>5, OfferInStep
<1>6. CASE TakesAck
  BY <1>6, AckStep
<1>7. CASE \E m \in net : dhcpIn_ignored(m)
  BY <1>7, IgnoredStep
<1>8. CASE Offers
  BY <1>8, OffersStep
<1>9. CASE Confirms
  BY <1>9, ConfirmsStep
<1>10. CASE \E m \in net, s \in Servers : Reclaim(s, m)
  BY <1>10, ReclaimStep
<1>11. CASE \E a \in Addresses : OtherTakes(a)
  BY <1>11, OtherTakesStep
<1>12. CASE \E m \in net : Lose(m)
  BY <1>12, LoseStep
<1>13. CASE UNCHANGED vars
  <2>1. DhcpServerIP' \in Servers \cup {NoIp}
    BY <1>13 DEF vars, client, IInv, TypeOK
  <2> QED
    BY <1>13, <2>1, NetStep DEF vars, client
<1> QED
  BY <1>1, <1>2, <1>3, <1>4, <1>5, <1>6, <1>7, <1>8, <1>9, <1>10, <1>11, <1>12, <1>13 DEF Next

\* The inductive invariant holds.
THEOREM Invariance == Spec => []IInv
<1>1. IInv /\ [Next]_vars => IInv'
  BY NextIInv
<1> QED
  BY <1>1, InitIInv, PTL DEF Spec

\* Every variable keeps its type; a lease that is counted is for an address of
\* some server's pool and never longer than that server's leases.
THEOREM TypeCorrect == Spec => []TypeOK
<1>1. IInv => TypeOK
  BY DEF IInv
<1> QED
  BY <1>1, Invariance, PTL

\* A lease the client counts is held for it at the server, for as long at least,
\* unless messages of this node were overtaken.
THEOREM LeasesAreHeld == Spec => []LeaseHeld
<1>1. IInv => LeaseHeld
  BY DEF IInv, InOrder, LeaseHeld
<1> QED
  BY <1>1, Invariance, PTL

\* A node that gave its address up, or started again, has none until it asks,
\* unless messages of this node were overtaken.
THEOREM NoAddressUnasked == Spec => []OnlyWhenAsked
<1>1. IInv => OnlyWhenAsked
  BY DEF IInv, InOrder, OnlyWhenAsked
<1> QED
  BY <1>1, Invariance, PTL
=============================================================================
