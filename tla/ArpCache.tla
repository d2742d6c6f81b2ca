------------------------------ MODULE ArpCache ------------------------------
(***************************************************************************)
(* The ARP table of avrlib/net/arp.c, which is filled from the source      *)
(* addresses of incoming IP packets, and this node's own addresses.        *)
(* A slot is unused or expired when its time is 0; an expired slot goes on *)
(* answering look-ups until another sender takes it.                       *)
(***************************************************************************)
EXTENDS Integers

CONSTANTS
  ARP_TABLE_SIZE,
  ARP_CACHE_TIME_TO_LIVE,
  IpAddr,       \* IP addresses
  NoIp,         \* 0.0.0.0: the address of an unused slot
  EthAddr,      \* unicast hardware addresses
  NoEth,        \* all zero, as in an unused slot
  Broadcast     \* FF:FF:FF:FF:FF:FF

\* The slots are walked with an int8_t, and time is a uint8_t.
ASSUME ArpAssumption ==
  /\ ARP_TABLE_SIZE \in 1 .. 127
  /\ ARP_CACHE_TIME_TO_LIVE \in 1 .. 255
  /\ NoIp \in IpAddr
  /\ NoEth \in EthAddr
  /\ Broadcast \notin EthAddr

VARIABLES ArpTable, ArpMyAddr

arpvars == <<ArpTable, ArpMyAddr>>

Slots == 0 .. ARP_TABLE_SIZE - 1
Entry == [ipaddr : IpAddr, ethaddr : EthAddr, time : 0 .. ARP_CACHE_TIME_TO_LIVE]

ArpTypeOK ==
  /\ ArpTable \in [Slots -> Entry]
  /\ ArpMyAddr \in [ethaddr : EthAddr, ipaddr : IpAddr]

arpInit ==
  ArpTable = [i \in Slots |-> [ipaddr |-> NoIp, ethaddr |-> NoEth, time |-> 0]]

\* Both loops over the table stop at the first slot that fits.
First(S) == CHOOSE i \in S : \A j \in S : i <= j
FirstOr(S, default) == IF S = {} THEN default ELSE First(S)

\* (mutant: an expired entry does not match)
arpMatchIp_live(table, ip) ==
  FirstOr({i \in Slots : table[i].ipaddr = ip /\ table[i].time # 0}, -1)

arpMatchIp(table, ip) == FirstOr({i \in Slots : table[i].ipaddr = ip}, -1)

Expired(table) == {i \in Slots : table[i].time = 0}

\* (mutant: a sender that is known keeps its old hardware address)
Harvested_once(table, ip, eth) ==
  IF arpMatchIp(table, ip) # -1 \/ Expired(table) = {}
    THEN table
    ELSE [table EXCEPT ![First(Expired(table))] =
            [ipaddr |-> ip, ethaddr |-> eth, time |-> ARP_CACHE_TIME_TO_LIVE]]

\* (mutant: with no slot free, the first one is taken)
Harvested_evict(table, ip, eth) ==
  LET i == arpMatchIp(table, ip)
  IN  IF i # -1 THEN [table EXCEPT ![i].ethaddr = eth]
      ELSE [table EXCEPT ![FirstOr(Expired(table), 0)] =
              [ipaddr |-> ip, ethaddr |-> eth, time |-> ARP_CACHE_TIME_TO_LIVE]]

\* The table once arpIpIn has seen a packet from ip and eth.
Harvested(table, ip, eth) ==
  LET i == arpMatchIp(table, ip)
  IN  IF i # -1 THEN [table EXCEPT ![i].ethaddr = eth]
      ELSE IF Expired(table) = {} THEN table
      ELSE [table EXCEPT ![First(Expired(table))] =
              [ipaddr |-> ip, ethaddr |-> eth, time |-> ARP_CACHE_TIME_TO_LIVE]]

arpIpIn(ip, eth) ==
  /\ ArpTable' = Harvested(ArpTable, ip, eth)
  /\ UNCHANGED ArpMyAddr

\* The destination arpIpOut gives a packet to ip: the physical address that
\* phy, or else ip, has in the table, or a broadcast.
arpIpOut(table, ip, phy) ==
  LET i == arpMatchIp(table, IF phy # NoIp THEN phy ELSE ip)
  IN  IF i # -1 THEN table[i].ethaddr ELSE Broadcast

\* (mutant: the time of an expired slot counts on)
arpTimer_wraps ==
  /\ ArpTable' = [i \in Slots |-> [ArpTable[i] EXCEPT !.time = (@ - 1) % 256]]
  /\ UNCHANGED ArpMyAddr

arpTimer ==
  /\ ArpTable' = [i \in Slots |->
       [ArpTable[i] EXCEPT !.time = IF @ # 0 THEN @ - 1 ELSE 0]]
  /\ UNCHANGED ArpMyAddr
=============================================================================
