----------------------------- MODULE MCNetstack -----------------------------
\* One network with three nodes besides this one, one of them the gateway, and
\* a sender from another network.  Node 2 moves from m1 to m2.
EXTENDS Netstack

CONSTANTS m0, m1, m2, me

MCIpAddr == {0, 1, 2, 9} \X {0, 1, 2, 3, 4, 9}
MCNoIp == <<0, 0>>
MCAllOnes == <<9, 9>>
MCEthAddr == {m0, m1, m2, me}

MCInitConfig == [ip |-> <<1, 1>>, netmask |-> "network", gateway |-> <<1, 2>>]
MCNewConfigs ==
  {[ip |-> <<1, 4>>, netmask |-> "network", gateway |-> <<1, 3>>],
   [ip |-> <<0, 0>>, netmask |-> "none", gateway |-> <<0, 0>>]}

Ip(kind, sip, src, dip) ==
  [type |-> "IP", kind |-> kind, dst |-> me, src |-> src, dip |-> dip, sip |-> sip]
Arp(sip, src, dip) ==
  [type |-> "ARP", kind |-> "request", dst |-> Broadcast, src |-> src, dip |-> dip, sip |-> sip]

MCFrames ==
  {Arp(<<1, 2>>, m1, <<1, 1>>), Arp(<<1, 3>>, m2, <<1, 4>>),
   Ip("echo", <<1, 2>>, m1, <<1, 1>>), Ip("echo", <<1, 2>>, m2, <<1, 1>>),
   Ip("echo", <<1, 3>>, m2, <<1, 9>>), Ip("loopback", <<2, 2>>, m1, <<1, 1>>),
   Ip("loopback", <<1, 4>>, m2, <<1, 1>>), Ip("command", <<1, 3>>, m1, <<9, 9>>),
   Ip("other", <<1, 3>>, m2, <<1, 2>>), Ip("echo", <<0, 0>>, m2, <<9, 9>>),
   [Arp(<<1, 3>>, m2, <<1, 1>>) EXCEPT !.type = "other"]}
=============================================================================
