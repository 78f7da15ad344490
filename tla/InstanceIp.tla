------------------------------ MODULE InstanceIp ------------------------------
(***************************************************************************)
(* get_inst_default_ip (core/src/skywalking/agent/util.rs): the address in *)
(* the default instance name.  The addresses of all interfaces are filtered*)
(* and sorted, and the first is taken.  The comparator is not an order: of *)
(* two loopback addresses each is Greater than the other.  The sort of std *)
(* only asks whether it says Less, that is the relation Less below.        *)
(*                                                                         *)
(* The sort is stable; it is modelled as an insertion sort that is fed by  *)
(* the filter, one interface in each step.                                 *)
(***************************************************************************)
EXTENDS Integers, Sequences, FiniteSets

CONSTANTS
  Addresses,      \* what get_if_addrs may return
  MaxInterfaces   \* bound of the model: interfaces of the machine

(* private: 10/8, 192.168/16 and fc00::/7; private172: 172.16/12; public:   *)
(* any address of none of the other classes.                               *)
Classes == {"loopback", "multicast", "linklocal", "private", "private172", "public"}

ASSUME InstanceIpAssumption ==
  /\ Addresses \subseteq [version : {4, 6}, class : Classes, bits : Nat]
  /\ MaxInterfaces \in Nat

VARIABLES
  ifaces,   \* the addresses, in the order of get_if_addrs
  read,     \* how many of them the filter has read
  addrs     \* those it kept, sorted

ivars == <<ifaces, read, addrs>>

-----------------------------------------------------------------------------
Kept(ip) == ip.class # "multicast" /\ (ip.version = 4 => ip.class # "linklocal")

IsLoopback(ip) == ip.class = "loopback"

(* The first octet is 172 and the address is private; nothing else asks    *)
(* whether an address is private.                                          *)
IsPrivate172(ip) == ip.version = 4 /\ ip.class = "private172"

(* The order of IpAddr: every V4 before every V6, then by octets.          *)
Precedes(a, b) == a.version < b.version \/ (a.version = b.version /\ a.bits < b.bits)

(* Mutant: that a is loopback is not tested.                               *)
LessIfLoopback(a, b) ==
  \/ IsLoopback(b)
  \/ /\ ~IsPrivate172(a)
     /\ IsPrivate172(b) \/ Precedes(a, b)

(* Mutant: only the order of IpAddr is looked at.                          *)
LessIsPrecedes(a, b) == Precedes(a, b)

(* The comparator returns Less.                                            *)
Less(a, b) ==
  /\ ~IsLoopback(a)
  /\ \/ IsLoopback(b)
     \/ /\ ~IsPrivate172(a)
        /\ IsPrivate172(b) \/ Precedes(a, b)

-----------------------------------------------------------------------------
Init ==
  /\ \E n \in 0..MaxInterfaces : ifaces \in [1..n -> Addresses]
  /\ read = 0
  /\ addrs = <<>>

(* Stable insertion: p is right of every address that ip is not Less than. *)
Insert(ip) ==
  \E p \in 1..(Len(addrs) + 1) :
    /\ p > 1 => ~Less(ip, addrs[p - 1])
    /\ \A i \in p..Len(addrs) : Less(ip, addrs[i])
    /\ addrs' = [i \in 1..(Len(addrs) + 1) |->
                   IF i < p THEN addrs[i] ELSE IF i = p THEN ip ELSE addrs[i - 1]]

(* Mutant: every other interface is skipped.                               *)
ReadEveryOther ==
  /\ read < Len(ifaces)
  /\ read' = read + 2
  /\ IF Kept(ifaces[read + 1]) THEN Insert(ifaces[read + 1]) ELSE UNCHANGED addrs
  /\ UNCHANGED ifaces

ReadInterface ==
  /\ read < Len(ifaces)
  /\ read' = read + 1
  /\ IF Kept(ifaces[read + 1]) THEN Insert(ifaces[read + 1]) ELSE UNCHANGED addrs
  /\ UNCHANGED ifaces

Spec == Init /\ [][ReadInterface]_ivars

-----------------------------------------------------------------------------
(* Properties.                                                             *)

(* What is collected are addresses that were read.                         *)
ITypeOK ==
  /\ ifaces \in Seq(Addresses)
  /\ read \in 0..Len(ifaces)
  /\ addrs \in Seq({ifaces[i] : i \in 1..read})

KeptAt == {i \in 1..read : Kept(ifaces[i])}

(* Although the comparator is not an order, every insertion keeps the      *)
(* addresses sorted by it, loses none that the filter kept and repeats none*)
SortedByLess ==
  /\ \A i, j \in 1..Len(addrs) : i < j => ~Less(addrs[j], addrs[i])
  /\ {addrs[i] : i \in 1..Len(addrs)} = {ifaces[i] : i \in KeptAt}
  /\ Len(addrs) = Cardinality(KeptAt)

Rank(ip) == CASE IsLoopback(ip) -> 2 [] IsPrivate172(ip) -> 1 [] OTHER -> 0

(* Interface k comes before interface i, whatever the comparator says.     *)
IsPreferred(k, i) ==
  LET a == ifaces[k]
      b == ifaces[i]
  IN \/ Rank(a) < Rank(b)
     \/ Rank(a) = Rank(b) /\ IF Rank(a) = 0 THEN ~Precedes(b, a) ELSE k <= i

(* util.rs:43 takes addrs[0].  If the filter kept an address, it is that of*)
(* a loopback interface only if there is nothing else, of 172.16/12 only if*)
(* there is nothing but these two, in both cases of the first one listed,  *)
(* and otherwise the smallest by version and octets.  Whether it is of the *)
(* LAN is not asked: 8.8.8.8 comes before 192.168.0.1 and both, like any V6*)
(* address that is not loopback, before 172.16.0.1.                        *)
ChoosesFirstOfBest ==
  IF KeptAt = {}
  THEN addrs = <<>>
  ELSE /\ addrs # <<>>
       /\ \E k \in KeptAt : addrs[1] = ifaces[k] /\ \A i \in KeptAt : IsPreferred(k, i)
=============================================================================
