--------------------------- MODULE NetstackProofs ---------------------------
(***************************************************************************)
(* The ARP table and the network stack: what holds for every table size,   *)
(* every time to live and every sequence of frames.                        *)
(***************************************************************************)
EXTENDS Netstack, SequenceTheorems, WellFoundedInduction, TLAPS

-----------------------------------------------------------------------------
\* The loops over the table find the first slot, when there is one.
LEMMA FirstProperties ==
  ASSUME NEW S, S \subseteq Slots, S # {}
  PROVE  First(S) \in S /\ \A j \in S : First(S) <= j
  <1>1. S \subseteq Nat
    BY ArpAssumption DEF Slots
  <1>2. PICK i \in S : \A j \in S : ~ (<<j, i>> \in OpToRel(<, Nat))
    BY <1>1, WFMin, NatLessThanWellFounded, Zenon
  <1>3. ASSUME NEW j \in S PROVE i <= j
    <2>1. i \in Nat /\ j \in Nat
      BY <1>1
    <2>2. OpToRel(<, Nat) = {ss \in Nat \X Nat : ss[1] < ss[2]}
      BY DEF OpToRel
    <2>3. j < i => <<j, i>> \in OpToRel(<, Nat)
      BY <2>1, <2>2
    <2>4. ~ (j < i)
      BY <1>2, <2>3, Zenon
    <2>5. QED
      BY <2>1, <2>4
  <1>4. QED
    BY <1>3 DEF First

\* What a look-up returns: a slot with the address, or -1 when there is none.
LEMMA MatchProperties ==
  ASSUME NEW table \in [Slots -> Entry], NEW ip \in IpAddr
  PROVE  \/ arpMatchIp(table, ip) \in Slots /\ table[arpMatchIp(table, ip)].ipaddr = ip
         \/ arpMatchIp(table, ip) = -1 /\ \A i \in Slots : table[i].ipaddr # ip
  <1> DEFINE S == {i \in Slots : table[i].ipaddr = ip}
  <1>1. arpMatchIp(table, ip) = IF S = {} THEN -1 ELSE First(S)
    BY DEF arpMatchIp, FirstOr
  <1>2. S # {} => First(S) \in S
    BY FirstProperties
  <1>3. QED
    BY <1>1, <1>2

LEMMA ConstantsOK ==
  /\ NoIp \in IpAddr /\ AllOnes \in IpAddr
  /\ NoEth \in EthAddr /\ MyEth \in EthAddr
  /\ 0 \in 0 .. ARP_CACHE_TIME_TO_LIVE
  /\ ARP_CACHE_TIME_TO_LIVE \in 0 .. ARP_CACHE_TIME_TO_LIVE
  BY ArpAssumption, IpAssumption

-----------------------------------------------------------------------------
\* arpIpIn keeps the table free of twins and up to date, and evicts nobody.
LEMMA HarvestStep ==
  ASSUME ArpTable \in [Slots -> Entry], lastEth \in [IpAddr -> EthAddr],
         UniqueIp, CacheIsLatest, NEW ip \in IpAddr, NEW eth \in EthAddr,
         ArpTable' = Harvested(ArpTable, ip, eth),
         lastEth' = [lastEth EXCEPT ![ip] = eth]
  PROVE  /\ ArpTable' \in [Slots -> Entry]
         /\ UniqueIp'
         /\ CacheIsLatest'
         /\ \A i \in Slots : ArpTable[i].time # 0 => ArpTable'[i].ipaddr = ArpTable[i].ipaddr
  <1> DEFINE m == arpMatchIp(ArpTable, ip)
             e == First(Expired(ArpTable))
             new == [ipaddr |-> ip, ethaddr |-> eth, time |-> ARP_CACHE_TIME_TO_LIVE]
  <1>1. CASE m \in Slots /\ ArpTable[m].ipaddr = ip
    <2>1. m # -1
      BY <1>1, ArpAssumption DEF Slots
    <2>2. ArpTable' = [ArpTable EXCEPT ![m].ethaddr = eth]
      BY <2>1 DEF Harvested
    <2> HIDE DEF m
    <2>3. \A i \in Slots : /\ ArpTable'[i].ipaddr = ArpTable[i].ipaddr
                           /\ ArpTable'[i].ethaddr = IF i = m THEN eth ELSE ArpTable[i].ethaddr
                           /\ ArpTable'[i].time = ArpTable[i].time
      BY <1>1, <2>2 DEF Entry
    <2>4. ArpTable' \in [Slots -> Entry]
      BY <1>1, <2>2 DEF Entry
    <2>5. UniqueIp'
      BY <2>3 DEF UniqueIp
    <2>6. CacheIsLatest'
      <3> SUFFICES ASSUME NEW i \in Slots, ArpTable'[i].ipaddr # NoIp
                   PROVE  ArpTable'[i].ethaddr = lastEth'[ArpTable'[i].ipaddr]
        BY DEF CacheIsLatest
      <3>0. ArpTable[i].ipaddr \in IpAddr
        BY DEF Entry
      <3>1. CASE i = m
        BY <1>1, <2>3, <3>1
      <3>2. CASE i # m
        <4>1. ArpTable[i].ipaddr # ip
          BY <1>1, <2>3, <3>2 DEF UniqueIp
        <4>2. QED
          BY <2>3, <3>0, <3>2, <4>1 DEF CacheIsLatest
      <3>3. QED
        BY <3>1, <3>2
    <2>7. QED
      BY <2>3, <2>4, <2>5, <2>6
  <1>2. CASE m = -1 /\ \A i \in Slots : ArpTable[i].ipaddr # ip
    <2>1. CASE Expired(ArpTable) = {}
      <3>1. ArpTable' = ArpTable
        BY <1>2, <2>1 DEF Harvested
      <3>2. \A i \in Slots : ArpTable[i].ipaddr \in IpAddr \ {ip}
        BY <1>2 DEF Entry
      <3>3. CacheIsLatest'
        BY <3>1, <3>2 DEF CacheIsLatest
      <3>4. QED
        BY <3>1, <3>3 DEF UniqueIp
    <2>2. CASE Expired(ArpTable) # {}
      <3>1. ArpTable' = [ArpTable EXCEPT ![e] = new]
        BY <1>2, <2>2 DEF Harvested
      <3>2. e \in Slots /\ ArpTable[e].time = 0
        <4>1. Expired(ArpTable) \subseteq Slots
          BY DEF Expired
        <4>2. e \in Expired(ArpTable)
          BY <2>2, <4>1, FirstProperties
        <4>3. QED
          BY <4>2 DEF Expired
      <3> HIDE DEF e
      <3>3. new \in Entry
        BY ConstantsOK DEF Entry
      <3>4. \A i \in Slots : ArpTable'[i] = IF i = e THEN new ELSE ArpTable[i]
        BY <3>1, <3>2
      <3>5. ArpTable' \in [Slots -> Entry]
        BY <3>1, <3>2, <3>3
      <3>6. UniqueIp'
        <4> SUFFICES ASSUME NEW i \in Slots, NEW j \in Slots,
                            ArpTable'[i].ipaddr = ArpTable'[j].ipaddr,
                            ArpTable'[i].ipaddr # NoIp
                     PROVE  i = j
          BY DEF UniqueIp
        <4>1. i = e <=> j = e
          BY <1>2, <3>4
        <4>2. QED
          BY <3>4, <4>1 DEF UniqueIp
      <3>7. CacheIsLatest'
        <4> SUFFICES ASSUME NEW i \in Slots, ArpTable'[i].ipaddr # NoIp
                     PROVE  ArpTable'[i].ethaddr = lastEth'[ArpTable'[i].ipaddr]
          BY DEF CacheIsLatest
        <4>1. CASE i = e
          BY <3>4, <4>1
        <4>2. CASE i # e
          <5>1. ArpTable[i].ipaddr \in IpAddr \ {ip}
            BY <1>2 DEF Entry
          <5>2. QED
            BY <3>4, <4>2, <5>1 DEF CacheIsLatest
        <4>3. QED
          BY <4>1, <4>2
      <3>8. QED
        BY <3>2, <3>4, <3>5, <3>6, <3>7
    <2>3. QED
      BY <2>1, <2>2
  <1>3. QED
    BY <1>1, <1>2, MatchProperties

-----------------------------------------------------------------------------
\* The frames the stack builds are frames.
LEMMA OutProperties ==
  ASSUME NEW table \in [Slots -> Entry], NEW ip \in IpAddr, NEW phy \in IpAddr
  PROVE  arpIpOut(table, ip, phy) \in EthAddr \cup {Broadcast}
  <1> DEFINE a == IF phy # NoIp THEN phy ELSE ip
  <1>1. a \in IpAddr
    OBVIOUS
  <1>2. \A i \in Slots : table[i].ethaddr \in EthAddr
    BY DEF Entry
  <1>3. arpMatchIp(table, a) \in Slots \/ arpMatchIp(table, a) = -1
    BY <1>1, MatchProperties
  <1>4. arpIpOut(table, ip, phy) =
          IF arpMatchIp(table, a) # -1 THEN table[arpMatchIp(table, a)].ethaddr ELSE Broadcast
    BY DEF arpIpOut
  <1>5. QED
    BY <1>2, <1>3, <1>4

LEMMA UdpProperties ==
  ASSUME TypeOK, NEW table \in [Slots -> Entry], NEW ip \in IpAddr, NEW k \in Kinds
  PROVE  udpSend(table, ip, k) \in Frame
  <1>1. NextHop(ip) \in IpAddr
    BY ConstantsOK DEF TypeOK, Configs, NextHop
  <1>2. arpIpOut(table, ip, NextHop(ip)) \in EthAddr \cup {Broadcast}
    BY <1>1, OutProperties
  <1>3. ArpMyAddr.ethaddr \in EthAddr /\ IpMyConfig.ip \in IpAddr
    BY DEF TypeOK, ArpTypeOK, Configs
  <1>4. QED
    BY <1>2, <1>3 DEF udpSend, Frame

LEMMA CountedProperties ==
  ASSUME TypeOK, NEW id \in 0 .. MaxFrames
  PROVE  Counted(id) \in [0 .. MaxFrames -> 0 .. 2]
  BY DEF TypeOK, Counted

LEMMA AnswerStep ==
  ASSUME TypeOK, NEW p \in Packet, NEW g \in Frame, Answer(p, g)
  PROVE  /\ NetBuffer' \in Packet /\ sent' \in Frame
         /\ handled' = Counted(p.id)
  <1>1. [p EXCEPT !.frame = g] \in Packet
    BY DEF Packet
  <1>2. QED
    BY <1>1 DEF Answer

\* What processing a packet leaves behind.
LEMMA ProcessStep ==
  ASSUME TypeOK, UniqueIp, CacheIsLatest, NEW p \in Packet, Process(p)
  PROVE  /\ ArpTable' \in [Slots -> Entry] /\ ArpMyAddr' = ArpMyAddr
         /\ lastEth' \in [IpAddr -> EthAddr]
         /\ UniqueIp' /\ CacheIsLatest'
         /\ \A i \in Slots : ArpTable[i].time # 0 => ArpTable'[i].ipaddr = ArpTable[i].ipaddr
         /\ NetBuffer' \in Packet /\ sent' \in Frame
         /\ handled' = handled \/ handled' = Counted(p.id)
  <1> USE DEF TypeOK, ArpTypeOK
  <1>0. p.id \in 0 .. MaxFrames /\ p.frame \in Frame
    BY DEF Packet
  <1>1. p.frame.src \in EthAddr /\ p.frame.sip \in IpAddr /\ p.frame.dip \in IpAddr
        /\ ArpMyAddr.ethaddr \in EthAddr /\ ArpMyAddr.ipaddr \in IpAddr
    BY <1>0 DEF Frame
  <1>2. ASSUME Ignore(p) PROVE NetBuffer' \in Packet /\ sent' \in Frame /\ handled' = handled
    BY <1>2 DEF Ignore
  <1>3. CASE p.frame.type = "IP" /\ arpIpIn(p.frame.sip, p.frame.src)
             /\ lastEth' = [lastEth EXCEPT ![p.frame.sip] = p.frame.src]
             /\ netstackIPProcess(p)
    <2>1. /\ ArpTable' \in [Slots -> Entry] /\ UniqueIp' /\ CacheIsLatest'
          /\ \A i \in Slots : ArpTable[i].time # 0 => ArpTable'[i].ipaddr = ArpTable[i].ipaddr
          /\ ArpMyAddr' = ArpMyAddr
      BY <1>1, <1>3, HarvestStep DEF arpIpIn
    <2>2. lastEth' \in [IpAddr -> EthAddr]
      BY <1>1, <1>3
    <2>3. NetBuffer' \in Packet /\ sent' \in Frame
          /\ (handled' = handled \/ handled' = Counted(p.id))
      <3>1. CASE Ignore(p)
        BY <1>2, <3>1
      <3>2. CASE icmpEchoRequest(p)
        <4> DEFINE g == [p.frame EXCEPT
                           !.kind = "echoReply", !.src = ArpMyAddr.ethaddr,
                           !.dst = arpIpOut(ArpTable', p.frame.sip, NoIp),
                           !.dip = p.frame.sip, !.sip = p.frame.dip]
        <4>1. arpIpOut(ArpTable', p.frame.sip, NoIp) \in EthAddr \cup {Broadcast}
          BY <1>1, <2>1, ConstantsOK, OutProperties
        <4>2. g \in Frame
          BY <1>0, <1>1, <4>1 DEF Frame, Kinds
        <4>3. Answer(p, g)
          BY <3>2 DEF icmpEchoRequest
        <4>4. QED
          BY <4>2, <4>3, AnswerStep
      <3>3. CASE netstackUDPIPProcess(p)
        <4>1. CASE p.frame.kind = "loopback"
          <5>1. udpSend(ArpTable', p.frame.sip, "loopback") \in Frame
            BY <1>1, <2>1, UdpProperties DEF Kinds
          <5>2. QED
            BY <3>3, <4>1, <5>1, AnswerStep DEF netstackUDPIPProcess
        <4>2. CASE p.frame.kind = "command"
          BY <3>3, <4>2 DEF netstackUDPIPProcess
        <4>3. CASE p.frame.kind \notin {"loopback", "command"}
          BY <1>2, <3>3, <4>3 DEF netstackUDPIPProcess
        <4>4. QED
          BY <4>1, <4>2, <4>3
      <3>4. QED
        BY <1>3, <3>1, <3>2, <3>3 DEF netstackIPProcess
    <2>4. QED
      BY <2>1, <2>2, <2>3
  <1>4. CASE arpArpIn(p) /\ UNCHANGED <<arpvars, lastEth>>
    <2> DEFINE g == [p.frame EXCEPT
                       !.kind = "reply", !.dst = p.frame.src, !.src = ArpMyAddr.ethaddr,
                       !.dip = p.frame.sip, !.sip = ArpMyAddr.ipaddr]
    <2>1. g \in Frame
      BY <1>0, <1>1 DEF Frame, Kinds
    <2>2. Answer(p, g) \/ Ignore(p)
      BY <1>4 DEF arpArpIn
    <2>3. NetBuffer' \in Packet /\ sent' \in Frame
          /\ (handled' = handled \/ handled' = Counted(p.id))
      BY <1>2, <2>1, <2>2, AnswerStep
    <2>4. QED
      BY <1>4, <2>3 DEF arpvars, UniqueIp, CacheIsLatest
  <1>5. CASE Ignore(p) /\ UNCHANGED <<arpvars, lastEth>>
    BY <1>2, <1>5 DEF arpvars, UniqueIp, CacheIsLatest
  <1>6. QED
    BY <1>3, <1>4, <1>5 DEF Process

-----------------------------------------------------------------------------
LEMMA AddressInit == Init => AddressInv
  <1> SUFFICES ASSUME Init PROVE AddressInv
    OBVIOUS
  <1>1. ArpTypeOK
    BY ConstantsOK, NetstackAssumption DEF Init, arpInit, ArpTypeOK, Entry, Configs
  <1>2. NoFrame \in Frame
    BY ConstantsOK DEF NoFrame, Frame, Kinds
  <1>3. TypeOK
    <2>1. IpMyConfig \in Configs /\ rx \in Seq(Packet) /\ Len(rx) <= NicRoom
      BY NetstackAssumption DEF Init
    <2>2. NetBuffer \in Packet /\ sent \in Frame
      BY <1>2, NetstackAssumption DEF Init, Packet
    <2>3. arrived \in 0 .. MaxFrames /\ handled \in [0 .. MaxFrames -> 0 .. 2]
          /\ lastEth \in [IpAddr -> EthAddr]
      BY ConstantsOK, NetstackAssumption DEF Init
    <2>4. QED
      BY <1>1, <2>1, <2>2, <2>3 DEF TypeOK
  <1>4. UniqueIp /\ CacheIsLatest
    BY DEF Init, arpInit, UniqueIp, CacheIsLatest
  <1>5. QED
    BY <1>3, <1>4 DEF AddressInv

\* Every step keeps the addresses right, and no step evicts a live entry.
LEMMA AddressStep ==
  ASSUME AddressInv, [Next]_vars
  PROVE  /\ AddressInv'
         /\ \A i \in Slots : ArpTable[i].time # 0 => ArpTable'[i].ipaddr = ArpTable[i].ipaddr
  <1> USE DEF AddressInv
  <1>1. ASSUME NEW f \in Frames, Arrive(f)
        PROVE  AddressInv' /\ UNCHANGED ArpTable
    <2>1. arrived' \in 0 .. MaxFrames
      BY <1>1, NetstackAssumption DEF Arrive, TypeOK
    <2>2. rx' \in Seq(Packet) /\ Len(rx') <= NicRoom
      <3> DEFINE p == [id |-> arrived + 1, frame |-> f]
      <3>1. p \in Packet
        BY <1>1, NetstackAssumption DEF Arrive, TypeOK, Packet
      <3>2. CASE Len(rx) < NicRoom
        <4>1. rx' = Append(rx, p) /\ rx \in Seq(Packet)
          BY <1>1, <3>2 DEF Arrive, TypeOK
        <4>2. QED
          BY <3>1, <3>2, <4>1, AppendProperties, NetstackAssumption
      <3>3. CASE ~(Len(rx) < NicRoom)
        BY <1>1, <3>3 DEF Arrive, TypeOK
      <3>4. QED
        BY <3>2, <3>3
    <2>3. QED
      BY <1>1, <2>1, <2>2
         DEF Arrive, ipvars, arpvars, TypeOK, ArpTypeOK, UniqueIp, CacheIsLatest
  <1>2. ASSUME netstackService
        PROVE  /\ AddressInv'
               /\ \A i \in Slots : ArpTable[i].time # 0
                                   => ArpTable'[i].ipaddr = ArpTable[i].ipaddr
    <2>1. PICK p \in Packet : Process(p)
      <3>1. rx # <<>> => Head(rx) \in Packet
        BY HeadTailProperties DEF TypeOK
      <3>2. Polled \in Packet
        BY <3>1 DEF Polled, TypeOK
      <3>3. QED
        BY <1>2, <3>2 DEF netstackService
    <2>2. rx' \in Seq(Packet) /\ Len(rx') <= NicRoom
      <3>1. CASE rx # <<>> /\ rx' = Tail(rx)
        BY <3>1, HeadTailProperties, NetstackAssumption DEF TypeOK
      <3>2. CASE rx' = rx
        BY <3>2 DEF TypeOK
      <3>3. QED
        BY <1>2, <3>1, <3>2 DEF netstackService
    <2>3. /\ ArpTable' \in [Slots -> Entry] /\ ArpMyAddr' = ArpMyAddr
          /\ lastEth' \in [IpAddr -> EthAddr] /\ UniqueIp' /\ CacheIsLatest'
          /\ \A i \in Slots : ArpTable[i].time # 0 => ArpTable'[i].ipaddr = ArpTable[i].ipaddr
          /\ NetBuffer' \in Packet /\ sent' \in Frame
          /\ handled' = handled \/ handled' = Counted(p.id)
      BY <2>1, ProcessStep
    <2>4. handled' \in [0 .. MaxFrames -> 0 .. 2]
      BY <2>3, CountedProperties DEF Packet, TypeOK
    <2>5. IpMyConfig' = IpMyConfig /\ arrived' = arrived
      BY <1>2 DEF netstackService
    <2>6. TypeOK'
      BY <2>2, <2>3, <2>4, <2>5 DEF TypeOK, ArpTypeOK
    <2>7. QED
      BY <2>3, <2>6
  <1>3. ASSUME Timer
        PROVE  /\ AddressInv'
               /\ \A i \in Slots : ArpTable'[i].ipaddr = ArpTable[i].ipaddr
    <2>1. \A i \in Slots :
            /\ ArpTable'[i] \in Entry
            /\ ArpTable'[i].ipaddr = ArpTable[i].ipaddr
            /\ ArpTable'[i].ethaddr = ArpTable[i].ethaddr
      <3> SUFFICES ASSUME NEW i \in Slots
                   PROVE  /\ ArpTable'[i] \in Entry
                          /\ ArpTable'[i].ipaddr = ArpTable[i].ipaddr
                          /\ ArpTable'[i].ethaddr = ArpTable[i].ethaddr
        OBVIOUS
      <3> DEFINE t == IF ArpTable[i].time # 0 THEN ArpTable[i].time - 1 ELSE 0
      <3>1. ArpTable[i] \in Entry
        BY DEF TypeOK, ArpTypeOK
      <3>2. t \in 0 .. ARP_CACHE_TIME_TO_LIVE
        BY <3>1, ArpAssumption DEF Entry
      <3>3. ArpTable'[i] = [ArpTable[i] EXCEPT !.time = t]
        BY <1>3 DEF Timer, arpTimer
      <3> HIDE DEF t
      <3>4. QED
        BY <3>1, <3>2, <3>3 DEF Entry
    <2>2. ArpTable' \in [Slots -> Entry]
      BY <1>3, <2>1 DEF Timer, arpTimer
    <2>3. TypeOK'
      BY <1>3, <2>2 DEF Timer, arpTimer, TypeOK, ArpTypeOK
    <2>4. UniqueIp' /\ CacheIsLatest'
      BY <1>3, <2>1, SMTT(30) DEF Timer, arpTimer, UniqueIp, CacheIsLatest
    <2>5. QED
      BY <2>1, <2>3, <2>4
  <1>4. ASSUME NEW c \in NewConfigs, SetConfig(c)
        PROVE  AddressInv' /\ UNCHANGED ArpTable
    <2>1. c \in Configs
      BY NetstackAssumption
    <2>2. TypeOK'
      BY <1>4, <2>1, ConstantsOK DEF SetConfig, ipSetConfig, TypeOK, ArpTypeOK, Configs
    <2>3. UniqueIp' /\ CacheIsLatest'
      BY <1>4 DEF SetConfig, ipSetConfig, UniqueIp, CacheIsLatest
    <2>4. QED
      BY <1>4, <2>2, <2>3 DEF SetConfig, ipSetConfig
  <1>5. ASSUME SendHello
        PROVE  AddressInv' /\ UNCHANGED ArpTable
    <2>1. Directed(IpMyConfig.ip, IpMyConfig.netmask) \in IpAddr
      BY IpAssumption DEF Directed, TypeOK, Configs
    <2>2. sent' \in Frame
      BY <1>5, <2>1, UdpProperties DEF SendHello, TypeOK, ArpTypeOK, Kinds
    <2>3. QED
      BY <1>5, <2>2
         DEF SendHello, ipvars, arpvars, TypeOK, ArpTypeOK, UniqueIp, CacheIsLatest
  <1>6. CASE UNCHANGED vars
    BY <1>6
       DEF vars, ipvars, arpvars, TypeOK, ArpTypeOK, UniqueIp, CacheIsLatest
  <1>7. QED
    BY <1>1, <1>2, <1>3, <1>4, <1>5, <1>6 DEF Next

\* The types, the uniqueness of addresses in the ARP table and its currency hold
\* for every driver, table size and network.
THEOREM AddressesHold == Spec => []AddressInv
  <1>1. AddressInv /\ [Next]_vars => AddressInv'
    BY AddressStep
  <1>2. QED
    BY <1>1, AddressInit, PTL DEF Spec

\* Every variable keeps its type.
THEOREM TypeCorrect == Spec => []TypeOK
  <1>1. AddressInv => TypeOK
    BY DEF AddressInv
  <1>2. QED
    BY <1>1, AddressesHold, PTL

\* arpMatchIp never has two slots to choose from.
THEOREM NoTwinEntries == Spec => []UniqueIp
  <1>1. AddressInv => UniqueIp
    BY DEF AddressInv
  <1>2. QED
    BY <1>1, AddressesHold, PTL

\* arpIpOut sends to the address the node's last packet came from.
THEOREM CacheAlwaysLatest == Spec => []CacheIsLatest
  <1>1. AddressInv => CacheIsLatest
    BY DEF AddressInv
  <1>2. QED
    BY <1>1, AddressesHold, PTL

\* No sender takes a slot that has not expired.
THEOREM NoEviction == Spec => LiveEntryStays
  <1>1. ASSUME AddressInv, [Next]_vars
        PROVE  [\A i \in Slots : ArpTable[i].time # 0
                                  => ArpTable'[i].ipaddr = ArpTable[i].ipaddr]_vars
    BY <1>1, AddressStep
  <1>2. QED
    BY <1>1, AddressesHold, PTL DEF Spec, LiveEntryStays

-----------------------------------------------------------------------------
\* Where an answer goes.

\* After arpIpIn the sender is in the table with its own address, unless every
\* slot was live with another one.
LEMMA SenderKnown ==
  ASSUME ArpTable \in [Slots -> Entry], NEW ip \in IpAddr, NEW eth \in EthAddr,
         ArpTable' = Harvested(ArpTable, ip, eth)
  PROVE  \/ arpMatchIp(ArpTable', ip) # -1 /\ ArpTable'[arpMatchIp(ArpTable', ip)].ethaddr = eth
         \/ /\ arpMatchIp(ArpTable', ip) = -1
            /\ \A i \in Slots : ArpTable'[i].ipaddr # ip /\ ArpTable[i].time # 0
  <1> DEFINE m == arpMatchIp(ArpTable, ip)
             e == First(Expired(ArpTable))
             new == [ipaddr |-> ip, ethaddr |-> eth, time |-> ARP_CACHE_TIME_TO_LIVE]
  <1>1. -1 \notin Slots
    BY ArpAssumption DEF Slots
  <1>2. CASE m \in Slots /\ ArpTable[m].ipaddr = ip
    <2>1. ArpTable' = [ArpTable EXCEPT ![m].ethaddr = eth]
      BY <1>1, <1>2 DEF Harvested
    <2>2. {i \in Slots : ArpTable'[i].ipaddr = ip} = {i \in Slots : ArpTable[i].ipaddr = ip}
      <3> HIDE DEF m
      <3> QED
        BY <1>2, <2>1 DEF Entry
    <2>3. arpMatchIp(ArpTable', ip) = m
      BY <2>2, Zenon DEF arpMatchIp
    <2> HIDE DEF m
    <2>4. ArpTable'[m].ethaddr = eth
      BY <1>2, <2>1 DEF Entry
    <2> QED
      BY <1>1, <1>2, <2>3, <2>4
  <1>3. CASE m = -1 /\ \A i \in Slots : ArpTable[i].ipaddr # ip
    <2>1. CASE Expired(ArpTable) = {}
      <3>1. ArpTable' = ArpTable
        BY <1>3, <2>1 DEF Harvested
      <3> QED
        BY <1>3, <2>1, <3>1 DEF Expired
    <2>2. CASE Expired(ArpTable) # {}
      <3>1. ArpTable' = [ArpTable EXCEPT ![e] = new]
        BY <1>3, <2>2 DEF Harvested
      <3>2. e \in Slots
        BY <2>2, FirstProperties DEF Expired
      <3> HIDE DEF e
      <3>3. new \in Entry
        BY ConstantsOK DEF Entry
      <3>4. \A i \in Slots : ArpTable'[i] = IF i = e THEN new ELSE ArpTable[i]
        BY <3>1, <3>2
      <3>5. ArpTable' \in [Slots -> Entry]
        BY <3>1, <3>2, <3>3
      <3>6. arpMatchIp(ArpTable', ip) = e
        <4>1. \A i \in Slots : i # e => ArpTable'[i].ipaddr # ip
          BY <1>3, <3>4
        <4>2. ArpTable'[e].ipaddr = ip
          BY <3>2, <3>4
        <4> QED
          BY <3>2, <3>5, <4>1, <4>2, MatchProperties
      <3> QED
        BY <1>1, <3>2, <3>4, <3>6
    <2> QED
      BY <2>1, <2>2
  <1> QED
    BY <1>2, <1>3, MatchProperties

\* What the answer to an echo request or a datagram is addressed to.
LEMMA AnswerStays ==
  ASSUME TypeOK, NEW p \in Packet, Process(p), p.frame.kind \in {"echo", "loopback"},
         handled' # handled
  PROVE  /\ ArpTable' = Harvested(ArpTable, p.frame.sip, p.frame.src)
         /\ lastEth' = [lastEth EXCEPT ![p.frame.sip] = p.frame.src]
         /\ sent'.dst = IF arpMatchIp(ArpTable', Hop(p.frame)) # -1
                          THEN ArpTable'[arpMatchIp(ArpTable', Hop(p.frame))].ethaddr
                          ELSE Broadcast
  <1> DEFINE f == p.frame
  <1>1. ~Ignore(p)
    BY DEF Ignore
  <1>2. /\ f.type = "IP" /\ arpIpIn(f.sip, f.src)
        /\ lastEth' = [lastEth EXCEPT ![f.sip] = f.src]
        /\ netstackIPProcess(p)
    BY <1>1 DEF Process, arpArpIn
  <1>3. CASE f.kind = "echo"
    <2>1. sent' = [f EXCEPT
                     !.kind = "echoReply", !.src = ArpMyAddr.ethaddr,
                     !.dst = arpIpOut(ArpTable', f.sip, NoIp),
                     !.dip = f.sip, !.sip = f.dip]
      BY <1>1, <1>2, <1>3 DEF netstackIPProcess, icmpEchoRequest, Answer
    <2>2. f \in Frame
      BY DEF Packet
    <2>3. sent'.dst = arpIpOut(ArpTable', f.sip, NoIp)
      BY <2>1, <2>2 DEF Frame
    <2>4. Hop(f) = f.sip
      BY <1>3 DEF Hop
    <2> QED
      BY <1>2, <2>3, <2>4 DEF arpIpIn, arpIpOut
  <1>4. CASE f.kind = "loopback"
    <2>1. sent' = udpSend(ArpTable', f.sip, "loopback")
      BY <1>1, <1>2, <1>4 DEF netstackIPProcess, netstackUDPIPProcess, Answer
    <2>2. sent'.dst = arpIpOut(ArpTable', f.sip, NextHop(f.sip))
      BY <2>1 DEF udpSend
    <2>3. Hop(f) = IF NextHop(f.sip) # NoIp THEN NextHop(f.sip) ELSE f.sip
      BY <1>4 DEF Hop
    <2> QED
      BY <1>2, <2>2, <2>3 DEF arpIpIn, arpIpOut
  <1> QED
    BY <1>3, <1>4

\* An answer goes where the hop's last packet came from; it is broadcast only
\* when the hop has no slot, and for a sender that is its own hop only when every
\* slot is live with another address.
THEOREM AnswersReachHop == Spec => AnswerReachesHop
  <1>1. ASSUME AddressInv, AddressInv', [Next]_vars, NEW f \in Frames,
               rx # <<>>, f = Head(rx).frame, rx' = Tail(rx),
               f.kind \in {"echo", "loopback"}, handled' # handled
        PROVE  \/ sent'.dst = lastEth'[Hop(f)] /\ arpMatchIp(ArpTable', Hop(f)) # -1
               \/ /\ sent'.dst = Broadcast
                  /\ \A i \in Slots : ArpTable'[i].ipaddr # Hop(f)
                  /\ Hop(f) = f.sip => \A i \in Slots : ArpTable[i].time # 0
    <2> DEFINE p == Head(rx)
               m == arpMatchIp(ArpTable', Hop(f))
    <2>1. TypeOK /\ p \in Packet
      BY <1>1, HeadTailProperties DEF AddressInv, TypeOK
    <2>2. Process(p)
      <3>1. netstackService
        BY <1>1 DEF Next, Arrive, Timer, SetConfig, SendHello, vars
      <3> QED
        BY <1>1, <3>1 DEF netstackService, Polled
    <2>3. /\ ArpTable' = Harvested(ArpTable, f.sip, f.src)
          /\ lastEth' = [lastEth EXCEPT ![f.sip] = f.src]
          /\ sent'.dst = IF m # -1 THEN ArpTable'[m].ethaddr ELSE Broadcast
      BY <1>1, <2>1, <2>2, AnswerStays
    <2>4. f.sip \in IpAddr /\ f.src \in EthAddr /\ f \in Frame
      BY NetstackAssumption DEF Frame
    <2>5. /\ ArpTable \in [Slots -> Entry] /\ ArpTable' \in [Slots -> Entry]
          /\ lastEth \in [IpAddr -> EthAddr] /\ CacheIsLatest'
      BY <1>1 DEF AddressInv, TypeOK, ArpTypeOK
    <2>6. CASE Hop(f) = f.sip
      <3>1. lastEth'[Hop(f)] = f.src
        BY <2>3, <2>4, <2>5, <2>6
      <3> QED
        BY <2>3, <2>4, <2>5, <2>6, <3>1, SenderKnown
    <2>7. CASE Hop(f) # f.sip
      <3>1. Hop(f) = NextHop(f.sip) /\ Hop(f) # NoIp
        BY <2>7 DEF Hop
      <3>2. Hop(f) \in IpAddr
        BY <2>1, <3>1, ConstantsOK DEF TypeOK, Configs, NextHop
      <3>3. \/ m \in Slots /\ ArpTable'[m].ipaddr = Hop(f)
            \/ m = -1 /\ \A i \in Slots : ArpTable'[i].ipaddr # Hop(f)
        BY <2>5, <3>2, MatchProperties
      <3>4. m \in Slots => m # -1
        BY ArpAssumption DEF Slots
      <3>5. m \in Slots /\ ArpTable'[m].ipaddr = Hop(f) => ArpTable'[m].ethaddr = lastEth'[Hop(f)]
        BY <2>5, <3>1 DEF CacheIsLatest
      <3> HIDE DEF m
      <3>6. sent'.dst = IF m # -1 THEN ArpTable'[m].ethaddr ELSE Broadcast
        BY <2>3 DEF m
      <3>7. \/ sent'.dst = lastEth'[Hop(f)] /\ m # -1
            \/ /\ sent'.dst = Broadcast
               /\ \A i \in Slots : ArpTable'[i].ipaddr # Hop(f)
        BY <3>3, <3>4, <3>5, <3>6, Zenon
      <3> QED
        BY <2>7, <3>7 DEF m
    <2> QED
      BY <2>6, <2>7
  <1>2. AddressInv /\ AddressInv' /\ [Next]_vars =>
          [\A f \in Frames :
             /\ rx # <<>> /\ f = Head(rx).frame /\ rx' = Tail(rx)
             /\ f.kind \in {"echo", "loopback"} /\ handled' # handled
             => \/ sent'.dst = lastEth'[Hop(f)] /\ arpMatchIp(ArpTable', Hop(f)) # -1
                \/ /\ sent'.dst = Broadcast
                   /\ \A i \in Slots : ArpTable'[i].ipaddr # Hop(f)
                   /\ Hop(f) = f.sip => \A i \in Slots : ArpTable[i].time # 0]_vars
    BY <1>1, Zenon
  <1>3. QED
    BY <1>2, AddressesHold, PTL DEF Spec, AnswerReachesHop

-----------------------------------------------------------------------------
\* A driver that answers 0 when no frame waits: the last packet is not looked at
\* again, so the ghost counter of a packet only moves while it is taken.
LEMMA OnceStep ==
  ASSUME Driver = "w5100", AddressInv, OnceInv, [Next]_vars
  PROVE  OnceInv'
  <1> USE DEF OnceInv, AddressInv
  <1>0. TypeOK'
    BY AddressStep
  <1>1. ASSUME NEW f \in Frames, Arrive(f) PROVE Pending' /\ HandledOnce'
    <2> DEFINE p == [id |-> arrived + 1, frame |-> f]
    <2>1. arrived \in Nat /\ arrived' = arrived + 1 /\ arrived' <= MaxFrames
          /\ handled' = handled
      BY <1>1, NetstackAssumption DEF Arrive, TypeOK
    <2>2. CASE rx' = rx
      BY <2>1, <2>2 DEF Pending, HandledOnce
    <2>3. CASE rx' = Append(rx, p)
      <3>1. /\ Len(rx') = Len(rx) + 1 /\ Len(rx) \in Nat
            /\ \A i \in 1 .. Len(rx) : rx'[i] = rx[i]
            /\ rx'[Len(rx) + 1] = p
        <4>1. rx \in Seq(Packet)
          BY DEF TypeOK
        <4>2. p \in Packet
          BY <2>1, NetstackAssumption DEF Packet
        <4>3. QED
          BY <2>3, <4>1, <4>2, AppendProperties
      <3>2. handled[arrived + 1] = 0
        BY <2>1, NetstackAssumption DEF Pending
      <3>3. \A i \in 1 .. Len(rx') : rx'[i].id \in 1 .. arrived' /\ handled'[rx'[i].id] = 0
        BY <2>1, <3>1, <3>2 DEF Pending
      <3>4. ASSUME NEW i \in 1 .. Len(rx'), NEW j \in 1 .. Len(rx'), i < j
            PROVE  rx'[i].id < rx'[j].id
        <4>1. i \in 1 .. Len(rx) /\ rx'[i] = rx[i]
          BY <3>1, <3>4
        <4>2. rx[i].id \in 1 .. arrived
          BY <4>1 DEF Pending
        <4>3. CASE j = Len(rx) + 1
          BY <2>1, <3>1, <4>1, <4>2, <4>3
        <4>4. CASE j \in 1 .. Len(rx)
          BY <3>1, <3>4, <4>1, <4>4 DEF Pending
        <4>5. QED
          BY <3>1, <4>3, <4>4
      <3>5. QED
        BY <2>1, <3>3, <3>4 DEF Pending, HandledOnce
    <2>4. QED
      BY <1>1, <2>2, <2>3 DEF Arrive
  <1>2. ASSUME netstackService PROVE Pending' /\ HandledOnce'
    <2>1. EmptyPoll = 0
      BY DEF EmptyPoll
    <2>2. /\ rx # <<>> /\ Process(Head(rx)) /\ rx' = Tail(rx) /\ arrived' = arrived
      BY <1>2, <2>1 DEF netstackService, Polled
    <2> DEFINE p == Head(rx)
    <2>3. /\ p \in Packet /\ p = rx[1] /\ Len(rx) \in Nat \ {0}
          /\ Len(rx') = Len(rx) - 1
          /\ \A i \in 1 .. Len(rx') : rx'[i] = rx[i + 1]
      BY <2>2, HeadTailProperties DEF TypeOK
    <2>4. handled' = handled \/ handled' = Counted(p.id)
      BY <2>2, <2>3, ProcessStep
    <2>5. p.id \in 1 .. arrived /\ handled[p.id] = 0 /\ arrived \in 0 .. MaxFrames
      BY <2>3 DEF Pending, TypeOK
    <2>6. \A id \in 0 .. MaxFrames : id # p.id => handled'[id] = handled[id]
      BY <2>4 DEF Counted, TypeOK
    <2>7. handled'[p.id] <= 1
      BY <2>4, <2>5, NetstackAssumption DEF Counted, TypeOK
    <2>8. \A i \in 1 .. Len(rx') :
            /\ rx'[i].id \in 1 .. arrived /\ rx'[i].id # p.id
            /\ handled[rx'[i].id] = 0
      BY <2>3, <2>5, NetstackAssumption DEF Pending
    <2>9. \A i \in 1 .. Len(rx') : handled'[rx'[i].id] = 0
      BY <2>5, <2>6, <2>8, NetstackAssumption
    <2>10. \A i, j \in 1 .. Len(rx') : i < j => rx'[i].id < rx'[j].id
      <3> SUFFICES ASSUME NEW i \in 1 .. Len(rx'), NEW j \in 1 .. Len(rx'), i < j
                   PROVE  rx'[i].id < rx'[j].id
        OBVIOUS
      <3>1. i + 1 \in 1 .. Len(rx) /\ j + 1 \in 1 .. Len(rx) /\ i + 1 < j + 1
        BY <2>3
      <3>2. rx[i + 1].id < rx[j + 1].id
        BY <3>1 DEF Pending
      <3>3. QED
        BY <2>3, <3>2
    <2>11. \A id \in arrived + 1 .. MaxFrames : handled'[id] = 0
      BY <2>5, <2>6, NetstackAssumption DEF Pending
    <2>12. HandledOnce'
      BY <2>6, <2>7, NetstackAssumption DEF HandledOnce
    <2>13. QED
      BY <2>2, <2>8, <2>9, <2>10, <2>11, <2>12 DEF Pending
  <1>3. CASE Timer
    BY <1>0, <1>3 DEF Timer, Pending, HandledOnce
  <1>4. ASSUME NEW c \in NewConfigs, SetConfig(c) PROVE Pending' /\ HandledOnce'
    BY <1>4 DEF SetConfig, Pending, HandledOnce
  <1>5. CASE SendHello
    BY <1>0, <1>5 DEF SendHello, Pending, HandledOnce
  <1>6. CASE UNCHANGED vars
    BY <1>0, <1>6 DEF vars, Pending, HandledOnce
  <1>7. QED
    BY <1>0, <1>1, <1>2, <1>3, <1>4, <1>5, <1>6 DEF Next

\* With the W5100's driver, which answers an empty poll with 0, no packet is
\* answered and no command carried out twice.
THEOREM AlwaysHandledOnce == ASSUME Driver = "w5100" PROVE Spec => []HandledOnce
  <1>1. Init => OnceInv
    <2>1. Init => TypeOK
      BY AddressInit DEF AddressInv
    <2>2. Init => Pending /\ HandledOnce
      BY NetstackAssumption DEF Init, Pending, HandledOnce
    <2>3. QED
      BY <2>1, <2>2 DEF OnceInv
  <1>2. AddressInv /\ OnceInv /\ [Next]_vars => OnceInv'
    BY OnceStep
  <1>3. OnceInv => HandledOnce
    BY DEF OnceInv
  <1>4. QED
    BY <1>1, <1>2, <1>3, AddressesHold, PTL DEF Spec
=============================================================================
