-------------------------- MODULE MCServerProcess --------------------------
(***************************************************************************)
(* Two Ethernet interfaces, one of them without addresses, a loopback      *)
(* interface with the number of one of them, and a USB bus with that of    *)
(* the other.  Of the four addresses one has every part and one has none.  *)
(***************************************************************************)
EXTENDS ServerProcess

MCInstance ==
  [d \in NETDEVS \cup USBDEVS |-> IF d \in {"lo", "eth0"} THEN 0 ELSE 1]

MCSockaddrs ==
  <<{"addr", "netmask", "broadaddr", "dstaddr"}, {"addr", "netmask"},
    {}, {"broadaddr"}>>
=============================================================================
