--------------------------- MODULE InstanceIpProofs ---------------------------
(***************************************************************************)
(* The comparator of get_inst_default_ip is not an order, but the relation *)
(* Less is a strict weak order, so insertion keeps the addresses sorted    *)
(* whatever and however many they are, and the first is the preferred one. *)
(***************************************************************************)
EXTENDS InstanceIp, SequenceTheorems, FiniteSetTheorems, TLAPS

IpAddrs == [version : {4, 6}, class : Classes, bits : Nat]

(* Less never holds both ways, and if it holds neither between a and b nor *)
(* between b and c, in these directions, it does not between a and c: what *)
(* a sort needs to be well defined.                                        *)
THEOREM LessIsStrictWeakOrder ==
  /\ \A a, b \in IpAddrs : Less(a, b) => ~Less(b, a)
  /\ \A a, b, c \in IpAddrs : ~Less(a, b) /\ ~Less(b, c) => ~Less(a, c)
BY DEF IpAddrs, Less, IsLoopback, IsPrivate172, Precedes

-----------------------------------------------------------------------------
(* The addresses read before or by the next step.                          *)
ReadAfter == {ifaces[i] : i \in 1..(read + 1)}

LEMMA ReadOne ==
  ASSUME ITypeOK, ReadInterface
  PROVE  /\ ifaces' = ifaces /\ read' = read + 1 /\ read \in Nat /\ read + 1 \in 1..Len(ifaces)
         /\ ifaces[read + 1] \in ReadAfter /\ ReadAfter \subseteq Addresses
         /\ addrs \in Seq(ReadAfter)
<1>1. /\ ifaces' = ifaces /\ read' = read + 1 /\ Len(ifaces) \in Nat
      /\ read \in Nat /\ read + 1 \in 1..Len(ifaces)
  BY LenProperties DEF ITypeOK, ReadInterface
<1>2. \A i \in 1..Len(ifaces) : ifaces[i] \in Addresses
  BY ElementOfSeq DEF ITypeOK
<1>3. ReadAfter \subseteq Addresses /\ ifaces[read + 1] \in ReadAfter
  BY <1>1, <1>2 DEF ReadAfter
<1>4. {ifaces[i] : i \in 1..read} \subseteq ReadAfter
  BY <1>1 DEF ReadAfter
<1>5. addrs \in Seq({ifaces[i] : i \in 1..read})
  BY DEF ITypeOK
<1>6. addrs \in Seq(ReadAfter)
  BY <1>4, <1>5, SeqMonotonic
<1> QED
  BY <1>1, <1>3, <1>6

(* What Insert does to the sequence.                                       *)
InsertedAt(p, ip) ==
  /\ p > 1 => ~Less(ip, addrs[p - 1])
  /\ \A i \in p..Len(addrs) : Less(ip, addrs[i])
  /\ Len(addrs') = Len(addrs) + 1
  /\ \A i \in 1..Len(addrs') :
       addrs'[i] = IF i < p THEN addrs[i] ELSE IF i = p THEN ip ELSE addrs[i - 1]

LEMMA Inserted ==
  ASSUME NEW S, NEW ip \in S, addrs \in Seq(S), Insert(ip)
  PROVE  addrs' \in Seq(S) /\ \E p \in 1..(Len(addrs) + 1) : InsertedAt(p, ip)
<1>1. PICK p \in 1..(Len(addrs) + 1) :
        /\ p > 1 => ~Less(ip, addrs[p - 1])
        /\ \A i \in p..Len(addrs) : Less(ip, addrs[i])
        /\ addrs' = [i \in 1..(Len(addrs) + 1) |->
                       IF i < p THEN addrs[i] ELSE IF i = p THEN ip ELSE addrs[i - 1]]
  BY DEF Insert
<1>2. Len(addrs) \in Nat /\ \A i \in 1..Len(addrs) : addrs[i] \in S
  BY ElementOfSeq
<1>3. addrs' \in [1..(Len(addrs) + 1) -> S]
  BY <1>1, <1>2
<1>4. addrs' \in Seq(S) /\ Len(addrs') = Len(addrs) + 1
  BY <1>2, <1>3, SeqDef, LenProperties
<1>5. InsertedAt(p, ip)
  BY <1>1, <1>4 DEF InsertedAt
<1> QED
  BY <1>4, <1>5

LEMMA InitTypeOK == Init => ITypeOK
<1> SUFFICES ASSUME Init PROVE ITypeOK
  OBVIOUS
<1>1. PICK n \in 0..MaxInterfaces : ifaces \in [1..n -> Addresses]
  BY DEF Init
<1>2. n \in Nat
  BY InstanceIpAssumption
<1>3. ifaces \in Seq(Addresses)
  BY <1>1, <1>2, SeqDef
<1> QED
  BY <1>3, LenProperties, EmptySeq DEF Init, ITypeOK

LEMMA NextTypeOK == ITypeOK /\ [ReadInterface]_ivars => ITypeOK'
<1> SUFFICES ASSUME ITypeOK, [ReadInterface]_ivars PROVE ITypeOK'
  OBVIOUS
<1>1. CASE ReadInterface
  <2>1. addrs' \in Seq(ReadAfter)
    BY <1>1, ReadOne, Inserted DEF ReadInterface
  <2>2. ReadAfter = {ifaces'[i] : i \in 1..read'}
    BY <1>1, ReadOne DEF ReadAfter
  <2>3. ifaces' \in Seq(Addresses) /\ read' \in 0..Len(ifaces')
    BY <1>1, ReadOne, LenProperties DEF ITypeOK
  <2> QED
    BY <2>1, <2>2, <2>3 DEF ITypeOK
<1>2. CASE UNCHANGED ivars
  BY <1>2 DEF ivars, ITypeOK
<1> QED
  BY <1>1, <1>2

-----------------------------------------------------------------------------
LEMMA InsertSorted ==
  ASSUME SortedByLess, addrs \in Seq(Addresses), NEW ip \in Addresses, Insert(ip)
  PROVE  /\ Len(addrs') = Len(addrs) + 1
         /\ \A i, j \in 1..Len(addrs') : i < j => ~Less(addrs'[j], addrs'[i])
         /\ {addrs'[i] : i \in 1..Len(addrs')} = {addrs[i] : i \in 1..Len(addrs)} \cup {ip}
<1> DEFINE old == addrs  new == addrs'  len == Len(addrs)
<1>p. PICK p \in 1..(len + 1) : InsertedAt(p, ip)
  BY Inserted
<1>1. /\ p > 1 => ~Less(ip, old[p - 1])
      /\ \A i \in p..len : Less(ip, old[i])
      /\ Len(new) = len + 1
      /\ \A i \in 1..Len(new) :
           new[i] = IF i < p THEN old[i] ELSE IF i = p THEN ip ELSE old[i - 1]
  BY <1>p DEF InsertedAt
<1>2. len \in Nat /\ \A i \in 1..len : old[i] \in IpAddrs
  BY ElementOfSeq, InstanceIpAssumption DEF IpAddrs
<1>3. ip \in IpAddrs
  BY InstanceIpAssumption DEF IpAddrs
<1>4. \A i, j \in 1..len : i < j => ~Less(old[j], old[i])
  BY DEF SortedByLess
<1> HIDE DEF old, new, len
<1>5. ASSUME NEW i \in 1..len, i < p PROVE ~Less(ip, old[i])
  <2>1. CASE i = p - 1
    BY <1>1, <1>2, <1>5, <2>1
  <2>2. CASE i < p - 1
    <3>1. p - 1 \in 1..len /\ ~Less(ip, old[p - 1]) /\ ~Less(old[p - 1], old[i])
      BY <1>1, <1>2, <1>4, <2>2
    <3> QED
      BY <1>2, <1>3, <3>1, LessIsStrictWeakOrder
  <2> QED
    BY <1>2, <1>5, <2>1, <2>2
<1>6. ASSUME NEW i \in p..len PROVE ~Less(old[i], ip)
  BY <1>1, <1>2, <1>3, LessIsStrictWeakOrder
<1>7. ASSUME NEW i \in 1..Len(new), NEW j \in 1..Len(new), i < j
      PROVE  ~Less(new[j], new[i])
  <2>1. CASE j < p
    BY <1>1, <1>2, <1>4, <1>7, <2>1
  <2>2. CASE j = p
    BY <1>1, <1>2, <1>5, <1>7, <2>2
  <2>3. CASE j > p
    <3>1. new[j] = old[j - 1] /\ j - 1 \in p..len /\ j - 1 \in 1..len
      BY <1>1, <1>2, <2>3
    <3>2. CASE i < p
      <4>1. new[i] = old[i] /\ i \in 1..len /\ i < j - 1
        BY <1>1, <1>2, <2>3, <3>2
      <4> QED
        BY <1>4, <3>1, <4>1
    <3>3. CASE i = p
      BY <1>1, <1>6, <3>1, <3>3
    <3>4. CASE i > p
      <4>1. new[i] = old[i - 1] /\ i - 1 \in 1..len /\ i - 1 < j - 1
        BY <1>1, <1>2, <1>7, <3>4
      <4> QED
        BY <1>4, <3>1, <4>1
    <3> QED
      BY <3>2, <3>3, <3>4
  <2> QED
    BY <1>2, <2>1, <2>2, <2>3
<1>8. {new[i] : i \in 1..Len(new)} = {old[i] : i \in 1..len} \cup {ip}
  <2>1. ASSUME NEW i \in 1..Len(new) PROVE new[i] \in {old[k] : k \in 1..len} \cup {ip}
    BY <1>1, <1>2
  <2>2. ASSUME NEW k \in 1..len PROVE \E i \in 1..Len(new) : new[i] = old[k]
    <3>1. CASE k < p
      BY <1>1, <1>2, <3>1
    <3>2. CASE k >= p
      <4>1. k + 1 \in 1..Len(new) /\ new[k + 1] = old[k]
        BY <1>1, <1>2, <3>2
      <4> QED
        BY <4>1
    <3> QED
      BY <1>2, <3>1, <3>2
  <2>3. p \in 1..Len(new) /\ new[p] = ip
    BY <1>1, <1>2
  <2>4. {new[i] : i \in 1..Len(new)} \subseteq {old[i] : i \in 1..len} \cup {ip}
    BY <2>1
  <2>5. {old[i] : i \in 1..len} \cup {ip} \subseteq {new[i] : i \in 1..Len(new)}
    BY <2>2, <2>3
  <2> QED
    BY <2>4, <2>5
<1> QED
  BY <1>1, <1>7, <1>8 DEF old, new, len

LEMMA KeptAtGrows ==
  ASSUME ITypeOK, ReadInterface
  PROVE  /\ KeptAt' = KeptAt \cup (IF Kept(ifaces[read + 1]) THEN {read + 1} ELSE {})
         /\ KeptAt \subseteq 1..read /\ IsFiniteSet(KeptAt) /\ read + 1 \notin KeptAt
<1>1. read \in Nat /\ read' = read + 1 /\ ifaces' = ifaces
  BY ReadOne
<1>2. 1..(read + 1) = (1..read) \cup {read + 1} /\ read + 1 \notin 1..read
  BY <1>1
<1>3. KeptAt' = KeptAt \cup (IF Kept(ifaces[read + 1]) THEN {read + 1} ELSE {})
  BY <1>1, <1>2 DEF KeptAt
<1>4. KeptAt \subseteq 1..read /\ IsFiniteSet(1..read)
  BY <1>1, FS_Interval DEF KeptAt
<1> QED
  BY <1>2, <1>3, <1>4, FS_Subset

LEMMA NextSorted == ITypeOK /\ SortedByLess /\ [ReadInterface]_ivars => SortedByLess'
<1> SUFFICES ASSUME ITypeOK, SortedByLess, [ReadInterface]_ivars PROVE SortedByLess'
  OBVIOUS
<1>1. CASE ReadInterface
  <2> DEFINE ip == ifaces[read + 1]
  <2>1. ip \in Addresses /\ addrs \in Seq(Addresses) /\ ifaces' = ifaces
    BY <1>1, ReadOne, SeqMonotonic
  <2>2. CASE Kept(ip)
    <3>1. Insert(ip)
      BY <1>1, <2>2 DEF ReadInterface
    <3>2. KeptAt' = KeptAt \cup {read + 1}
      BY <1>1, <2>2, KeptAtGrows
    <3>3. Len(addrs') = Cardinality(KeptAt')
      <4>1. Len(addrs') = Len(addrs) + 1
        BY <2>1, <3>1, InsertSorted
      <4>2. Cardinality(KeptAt \cup {read + 1}) = Cardinality(KeptAt) + 1
        BY <1>1, KeptAtGrows, FS_AddElement
      <4> QED
        BY <3>2, <4>1, <4>2 DEF SortedByLess
    <3>4. {ifaces'[i] : i \in KeptAt'} = {ifaces[i] : i \in KeptAt} \cup {ip}
      BY <2>1, <3>2
    <3>5. {addrs'[i] : i \in 1..Len(addrs')} = {ifaces'[i] : i \in KeptAt'}
      BY <2>1, <3>1, <3>4, InsertSorted DEF SortedByLess
    <3>6. \A i, j \in 1..Len(addrs') : i < j => ~Less(addrs'[j], addrs'[i])
      BY <2>1, <3>1, InsertSorted
    <3> QED
      BY <3>3, <3>5, <3>6 DEF SortedByLess
  <2>3. CASE ~Kept(ip)
    <3>1. KeptAt' = KeptAt /\ addrs' = addrs
      BY <1>1, <2>3, KeptAtGrows DEF ReadInterface
    <3> QED
      BY <2>1, <3>1 DEF SortedByLess
  <2> QED
    BY <2>2, <2>3
<1>2. CASE UNCHANGED ivars
  BY <1>2 DEF ivars, SortedByLess, KeptAt
<1> QED
  BY <1>1, <1>2

(* What is collected are addresses that were read, see ITypeOK.            *)
THEOREM TypeCorrect == Spec => []ITypeOK
BY InitTypeOK, NextTypeOK, PTL DEF Spec

LEMMA Sorted == Spec => [](ITypeOK /\ SortedByLess)
<1>1. Init => SortedByLess
  BY EmptySeq, FS_EmptySet DEF Init, SortedByLess, KeptAt
<1> QED
  BY <1>1, InitTypeOK, NextTypeOK, NextSorted, PTL DEF Spec

(* Insertion with the comparator of the code sorts, see SortedByLess.      *)
THEOREM AddressesAreSorted == Spec => []SortedByLess
BY Sorted, PTL

-----------------------------------------------------------------------------
(* The first address.                                                      *)

LEMMA FirstInserted ==
  ASSUME SortedByLess, NEW S, S \subseteq Addresses, addrs \in Seq(S), NEW ip \in S, Insert(ip)
  PROVE  /\ addrs' # <<>>
         /\ \/ addrs'[1] = ip /\ (addrs # <<>> => Less(ip, addrs[1]))
            \/ addrs # <<>> /\ addrs'[1] = addrs[1] /\ ~Less(ip, addrs[1])
<1>p. PICK p \in 1..(Len(addrs) + 1) : InsertedAt(p, ip)
  BY Inserted
<1>1. /\ p > 1 => ~Less(ip, addrs[p - 1])
      /\ \A i \in p..Len(addrs) : Less(ip, addrs[i])
      /\ Len(addrs') = Len(addrs) + 1
      /\ \A i \in 1..Len(addrs') :
           addrs'[i] = IF i < p THEN addrs[i] ELSE IF i = p THEN ip ELSE addrs[i - 1]
  BY <1>p DEF InsertedAt
<1>2. Len(addrs) \in Nat /\ \A i \in 1..Len(addrs) : addrs[i] \in IpAddrs
  BY ElementOfSeq, InstanceIpAssumption DEF IpAddrs
<1>3. ip \in IpAddrs
  BY InstanceIpAssumption DEF IpAddrs
<1>4. addrs # <<>> <=> 1 \in 1..Len(addrs)
  BY <1>2, EmptySeq
<1>5. addrs' # <<>> /\ addrs'[1] = IF 1 < p THEN addrs[1] ELSE ip
  BY <1>1, <1>2, EmptySeq
<1>6. CASE p = 1
  <2>1. addrs'[1] = ip
    BY <1>5, <1>6
  <2>2. addrs # <<>> => Less(ip, addrs[1])
    BY <1>1, <1>4, <1>6
  <2> QED
    BY <1>5, <2>1, <2>2
<1>7. CASE p > 1
  <2>1. 1 \in 1..Len(addrs) /\ p - 1 \in 1..Len(addrs) /\ ~Less(ip, addrs[p - 1])
    BY <1>1, <1>2, <1>7
  <2>2. ~Less(addrs[p - 1], addrs[1])
    <3>1. CASE p - 1 = 1
      BY <1>2, <2>1, <3>1, LessIsStrictWeakOrder
    <3>2. CASE p - 1 > 1
      BY <2>1, <3>2 DEF SortedByLess
    <3> QED
      BY <2>1, <3>1, <3>2
  <2>3. ~Less(ip, addrs[1])
    BY <1>2, <1>3, <2>1, <2>2, LessIsStrictWeakOrder
  <2> QED
    BY <1>4, <1>5, <1>7, <2>1, <2>3
<1> QED
  BY <1>6, <1>7

LEMMA LessByRank ==
  ASSUME NEW a \in IpAddrs, NEW b \in IpAddrs
  PROVE  /\ Rank(a) \in Nat
         /\ Less(a, b) <=> \/ Rank(a) < Rank(b)
                           \/ Rank(a) = 0 /\ Rank(b) = 0 /\ Precedes(a, b)
BY DEF IpAddrs, Rank, Less, IsLoopback, IsPrivate172

(* An address that is Less than the preferred one is preferred itself, one *)
(* that is not comes after it.                                             *)
LEMMA PreferredByLess ==
  ASSUME NEW k \in Nat, NEW n \in Nat, k <= n,
         ifaces[k] \in IpAddrs, ifaces[n] \in IpAddrs
  PROVE  /\ ~Less(ifaces[n], ifaces[k]) => IsPreferred(k, n)
         /\ Less(ifaces[n], ifaces[k]) =>
              \A i \in Nat : ifaces[i] \in IpAddrs /\ IsPreferred(k, i) => IsPreferred(n, i)
         /\ IsPreferred(n, n)
<1> DEFINE a == ifaces[n]  b == ifaces[k]
<1>1. /\ Rank(a) \in Nat /\ Rank(b) \in Nat
      /\ Less(a, b) <=> \/ Rank(a) < Rank(b)
                        \/ Rank(a) = 0 /\ Rank(b) = 0 /\ Precedes(a, b)
  BY LessByRank
<1>2. ~Less(a, b) => IsPreferred(k, n)
  BY <1>1 DEF IsPreferred
<1>3. ASSUME Less(a, b), NEW i \in Nat, ifaces[i] \in IpAddrs, IsPreferred(k, i)
      PROVE  IsPreferred(n, i)
  <2> DEFINE c == ifaces[i]
  <2>1. Rank(c) \in Nat
    BY <1>3, LessByRank
  <2>2. \/ Rank(b) < Rank(c)
        \/ Rank(b) = Rank(c) /\ IF Rank(b) = 0 THEN ~Precedes(c, b) ELSE k <= i
    BY <1>3 DEF IsPreferred
  <2>3. Precedes(a, b) /\ ~Precedes(c, b) => ~Precedes(c, a)
    BY <1>3 DEF Precedes, IpAddrs
  <2> HIDE DEF a, b, c
  <2>4. Rank(a) < Rank(c) \/ (Rank(a) = 0 /\ Rank(c) = 0 /\ ~Precedes(c, a))
    BY <1>1, <1>3, <2>1, <2>2, <2>3
  <2> QED
    BY <1>1, <2>1, <2>4 DEF IsPreferred, a, c
<1>4. IsPreferred(n, n)
  BY <1>1 DEF IsPreferred, Precedes, IpAddrs
<1> QED
  BY <1>2, <1>3, <1>4

LEMMA NextFirst ==
  ITypeOK /\ SortedByLess /\ ChoosesFirstOfBest /\ [ReadInterface]_ivars => ChoosesFirstOfBest'
<1> SUFFICES ASSUME ITypeOK, SortedByLess, ChoosesFirstOfBest, [ReadInterface]_ivars
             PROVE  ChoosesFirstOfBest'
  OBVIOUS
<1>1. CASE ReadInterface
  <2> DEFINE n == read + 1
             Best(k) == \A i \in KeptAt' : IsPreferred(k, i)
  <2>1. /\ n \in Nat /\ ifaces' = ifaces
        /\ KeptAt \subseteq 1..read /\ \A i \in KeptAt : i \in Nat /\ i <= n
        /\ ifaces[n] \in IpAddrs /\ \A i \in KeptAt : ifaces[i] \in IpAddrs
    <3>1. n \in Nat /\ read \in Nat /\ ifaces' = ifaces /\ n \in 1..n
      BY <1>1, ReadOne
    <3>2. \A i \in 1..n : ifaces[i] \in IpAddrs
      BY <1>1, ReadOne, InstanceIpAssumption DEF ReadAfter, IpAddrs
    <3>3. KeptAt \subseteq 1..read
      BY <1>1, KeptAtGrows
    <3> QED
      BY <3>1, <3>2, <3>3
  <2>2. \A k, i : IsPreferred(k, i)' <=> IsPreferred(k, i)
    BY <2>1 DEF IsPreferred
  <2>3. SUFFICES IF KeptAt' = {}
                 THEN addrs' = <<>>
                 ELSE addrs' # <<>> /\ \E k \in KeptAt' : addrs'[1] = ifaces[k] /\ Best(k)
    BY <2>1, <2>2 DEF ChoosesFirstOfBest
  <2>4. CASE ~Kept(ifaces[n])
    <3>1. KeptAt' = KeptAt /\ addrs' = addrs
      BY <1>1, <2>4, KeptAtGrows DEF ReadInterface
    <3> QED
      BY <3>1 DEF ChoosesFirstOfBest
  <2>5. CASE Kept(ifaces[n])
    <3>1. Insert(ifaces[n]) /\ KeptAt' = KeptAt \cup {n}
      BY <1>1, <2>5, KeptAtGrows DEF ReadInterface
    <3>2. /\ addrs' # <<>>
          /\ \/ addrs'[1] = ifaces[n] /\ (addrs # <<>> => Less(ifaces[n], addrs[1]))
             \/ addrs # <<>> /\ addrs'[1] = addrs[1] /\ ~Less(ifaces[n], addrs[1])
      <4>1. ReadAfter \subseteq Addresses /\ addrs \in Seq(ReadAfter) /\ ifaces[n] \in ReadAfter
        BY <1>1, ReadOne
      <4> HIDE DEF n
      <4> QED
        BY <3>1, <4>1, FirstInserted
    <3>3. IsPreferred(n, n)
      BY <2>1, PreferredByLess
    <3>4. CASE KeptAt = {}
      <4>1. addrs = <<>>
        BY <3>4 DEF ChoosesFirstOfBest
      <4> QED
        BY <3>1, <3>2, <3>3, <3>4, <4>1
    <3>5. CASE KeptAt # {}
      <4>1. PICK k \in KeptAt : addrs[1] = ifaces[k] /\ \A i \in KeptAt : IsPreferred(k, i)
        BY <3>5 DEF ChoosesFirstOfBest
      <4>2. addrs # <<>>
        BY <3>5 DEF ChoosesFirstOfBest
      <4>3. k \in Nat /\ k <= n /\ ifaces[k] \in IpAddrs /\ ifaces[n] \in IpAddrs
        BY <2>1
      <4>4. CASE Less(ifaces[n], ifaces[k])
        <5>1. \A i \in KeptAt : IsPreferred(n, i)
          BY <2>1, <4>1, <4>3, <4>4, PreferredByLess
        <5> QED
          BY <3>1, <3>2, <3>3, <4>1, <4>4, <5>1
      <4>5. CASE ~Less(ifaces[n], ifaces[k])
        <5>1. IsPreferred(k, n)
          BY <2>1, <4>3, <4>5, PreferredByLess
        <5> QED
          BY <3>1, <3>2, <4>1, <4>2, <4>5, <5>1
      <4> QED
        BY <4>4, <4>5
    <3> QED
      BY <3>4, <3>5
  <2> QED
    BY <2>4, <2>5
<1>2. CASE UNCHANGED ivars
  BY <1>2 DEF ivars, ChoosesFirstOfBest, KeptAt, IsPreferred
<1> QED
  BY <1>1, <1>2

(* The address taken is the first of the preferred ones, see               *)
(* ChoosesFirstOfBest.                                                     *)
THEOREM FirstOfBestIsChosen == Spec => []ChoosesFirstOfBest
<1>1. Init => ChoosesFirstOfBest
  BY DEF Init, ChoosesFirstOfBest, KeptAt
<1> QED
  BY <1>1, Sorted, NextFirst, PTL DEF Spec
=============================================================================
