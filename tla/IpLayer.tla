------------------------------ MODULE IpLayer -------------------------------
(***************************************************************************)
(* The IP configuration and the sending side of avrlib/net/ip.c.  An IP    *)
(* address is a pair <<network, host>>, and a netmask covers the network   *)
(* part or nothing; a frame is a record of the fields the stack looks at.  *)
(***************************************************************************)
EXTENDS ArpCache

CONSTANTS
  AllOnes,      \* 255.255.255.255
  MyEth         \* the hardware address of the interface

ASSUME IpAssumption ==
  /\ IpAddr \subseteq Nat \X Nat
  /\ NoIp = <<0, 0>>
  /\ AllOnes \in IpAddr
  /\ MyEth \in EthAddr
  /\ \A a \in IpAddr : <<a[1], AllOnes[2]>> \in IpAddr

VARIABLE IpMyConfig

ipvars == <<arpvars, IpMyConfig>>

Masks == {"none", "network"}
Configs == [ip : IpAddr, netmask : Masks, gateway : IpAddr]

\* addr & mask, and addr | ~mask
Masked(addr, mask) == IF mask = "none" THEN NoIp ELSE <<addr[1], 0>>
Directed(addr, mask) == IF mask = "none" THEN AllOnes ELSE <<addr[1], AllOnes[2]>>

ipSetConfig(config) ==
  /\ IpMyConfig' = config
  /\ ArpMyAddr' = [ethaddr |-> MyEth, ipaddr |-> config.ip]
  /\ UNCHANGED ArpTable

\* The hop ipSend looks up: a destination outside the network goes by way of
\* the gateway.
NextHop(dst) ==
  IF Masked(dst, IpMyConfig.netmask) = Masked(IpMyConfig.ip, IpMyConfig.netmask)
    THEN NoIp ELSE IpMyConfig.gateway

\* The frame udpSend, and ipSend below it, hands to nicSend.
udpSend(table, dst, kind) ==
  [type |-> "IP", kind |-> kind,
   dst |-> arpIpOut(table, dst, NextHop(dst)), src |-> ArpMyAddr.ethaddr,
   dip |-> dst, sip |-> IpMyConfig.ip]
=============================================================================
