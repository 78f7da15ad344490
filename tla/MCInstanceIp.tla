---------------------------- MODULE MCInstanceIp ----------------------------
(* Model checking of the choice of the address: two loopback addresses, two*)
(* of 172.16/12, and public and private ones among others, in every order. *)
EXTENDS InstanceIp

Ip(v, c, n) == [version |-> v, class |-> c, bits |-> n]

Interfaces ==
  { Ip(4, "loopback", 3), Ip(6, "loopback", 0),
    Ip(4, "private172", 5), Ip(4, "private172", 6),
    Ip(4, "public", 1), Ip(4, "private", 2), Ip(4, "private", 7),
    Ip(4, "linklocal", 4), Ip(6, "linklocal", 8), Ip(4, "multicast", 9) }
=============================================================================
