------------------------------- MODULE MCDhcp -------------------------------
\* Two servers, one of which names no router, with an address each.
EXTENDS Dhcp

MCNoIp == <<0, 0>>
MCAllOnes == <<255, 255>>
MCMask == <<255, 0>>
MCIpAddr == {<<n, h>> : n \in {0, 1, 255}, h \in {0, 1, 2, 8, 9, 255}}
MCServers == {<<1, 8>>, <<1, 9>>}
MCPool == [s \in MCServers |-> IF s = <<1, 8>> THEN {<<1, 1>>} ELSE {<<1, 2>>}]
MCOptions == [s \in MCServers |->
  IF s = <<1, 8>> THEN [netmask |-> MCMask, routers |-> <<1, 8>>, leasetime |-> 2]
                  ELSE [netmask |-> MCMask, routers |-> Absent, leasetime |-> 3]]
=============================================================================
