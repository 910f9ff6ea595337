-------------------------- MODULE BootDriversProofs --------------------------
(***************************************************************************)
(* The list of boot drivers, for any number of services, groups and tags:  *)
(* no driver is lost when the nodes are moved, and the list ends up in the *)
(* order of the groups and, within a group, of the tags.                   *)
(***************************************************************************)
EXTENDS BootDrivers, SequenceTheorems, WellFoundedInduction, TLAPS

------------------------------------------------------------------------------
(* What is read of a hive, as functions of the hive.                          *)

ServiceIn(h, n) == h.services[IF n = FileSystemNode THEN h.fileSystem ELSE n]
GroupIn(h, n) == ServiceIn(h, n).group
TagIn(h, n) ==
    IF ServiceIn(h, n).Tag = Missing THEN LOAD_LAST
    ELSE CmpFindTagIndex(ServiceIn(h, n).Tag, GroupIn(h, n))

LEMMA ReadOfHive == \A n : GroupOf(n) = GroupIn(hive, n) /\ TagOf(n) = TagIn(hive, n)
BY DEF GroupOf, TagOf, GroupIn, TagIn, ServiceIn, ServiceOf

LEMMA LeastExists ==
    ASSUME NEW S \in SUBSET Nat, S # {}
    PROVE  \E i \in S : \A j \in S : i <= j
<1>1. PICK i \in S : \A j \in S : <<j, i>> \notin OpToRel(<, Nat)
  BY WFMin, NatLessThanWellFounded, Zenon
<1>2. \A j \in S : ~(j < i)
  BY <1>1, Zenon DEF OpToRel
<1> QED BY <1>2

\* Tags are compared as numbers.
LEMMA TagsAreNumbers == \A h, n : TagIn(h, n) \in Nat
<1> SUFFICES ASSUME NEW h, NEW n PROVE TagIn(h, n) \in Nat
  OBVIOUS
<1> DEFINE g == GroupIn(h, n)
           tag == ServiceIn(h, n).Tag
           found == IF g \in DOMAIN Vectors
                    THEN {i \in 1 .. (Vectors[g][0] - 1) : Vectors[g][i] = tag} ELSE {}
<1>1. LOAD_LAST \in Nat /\ LOAD_NEXT_TO_LAST \in Nat
  BY VectorAssumption DEF LOAD_LAST, LOAD_NEXT_TO_LAST
<1>2. found \in SUBSET Nat
  BY VectorAssumption
<1>3. CmpFindTagIndex(tag, g) =
         IF found = {} THEN LOAD_NEXT_TO_LAST
         ELSE CHOOSE i \in found : \A j \in found : i <= j
  BY Zenon DEF CmpFindTagIndex
<1> HIDE DEF found, g, tag
<1>4. found # {} => (CHOOSE i \in found : \A j \in found : i <= j) \in Nat
  BY <1>2, LeastExists
<1>5. CmpFindTagIndex(tag, g) \in Nat
  BY <1>1, <1>3, <1>4
<1> QED BY <1>1, <1>5 DEF TagIn, g, tag

------------------------------------------------------------------------------
(* Moves within the list.                                                     *)

Distinct(l) == \A i, j \in DOMAIN l : l[i] = l[j] => i = j

\* r is l with the node at place i moved to the front, to place j.
Moved(l, r, i, j) ==
    /\ r \in Seq(Nat) /\ Len(r) = Len(l) /\ DOMAIN r = DOMAIN l
    /\ r[j] = l[i]
    /\ \A k \in DOMAIN l : k < j \/ k > i => r[k] = l[k]
    /\ \A k \in DOMAIN l : k > j /\ k <= i => r[k] = l[k - 1] /\ k - 1 \in DOMAIN l

LEMMA MovedToMoves ==
    ASSUME NEW l \in Seq(Nat), NEW i \in DOMAIN l, NEW j \in 1 .. i
    PROVE  Moved(l, MovedTo(l, i, j), i, j)
<1> DEFINE r == MovedTo(l, i, j)
<1>1. /\ Len(l) \in Nat /\ DOMAIN l = 1 .. Len(l) /\ i \in 1 .. Len(l)
      /\ \A k \in 1 .. Len(l) : l[k] \in Nat
  BY LenProperties
<1>2. /\ DOMAIN r = 1 .. Len(l)
      /\ \A k \in 1 .. Len(l) :
            r[k] = IF k = j THEN l[i] ELSE IF k \in (j + 1) .. i THEN l[k - 1] ELSE l[k]
  BY <1>1 DEF MovedTo
<1>3. r = [k \in 1 .. Len(l) |-> r[k]]
  BY <1>1 DEF MovedTo
<1> HIDE DEF r
<1>4. \A k \in 1 .. Len(l) : r[k] \in Nat
  BY <1>1, <1>2
<1>5. r \in Seq(Nat) /\ Len(r) = Len(l)
  BY <1>1, <1>3, <1>4, IsASeq, LenProperties
<1>6. j \in 1 .. Len(l) /\ j \in Nat /\ j <= i /\ i \in Nat
  BY <1>1
<1>7. ASSUME NEW k \in 1 .. Len(l), k > j, k <= i PROVE r[k] = l[k - 1] /\ k - 1 \in 1 .. Len(l)
  BY <1>2, <1>6, <1>7
<1>8. ASSUME NEW k \in 1 .. Len(l), k < j \/ k > i PROVE r[k] = l[k]
  BY <1>2, <1>6, <1>8
<1>9. r[j] = l[i]
  BY <1>2, <1>6
<1>10. Moved(l, r, i, j)
  BY <1>1, <1>2, <1>5, <1>7, <1>8, <1>9 DEF Moved
<1> QED BY <1>10 DEF r

\* No node is lost and none is doubled.
LEMMA MoveKeepsNodes ==
    ASSUME NEW l \in Seq(Nat), NEW i \in DOMAIN l, NEW j \in 1 .. i, NEW r, Moved(l, r, i, j)
    PROVE  Range(r) = Range(l) /\ (Distinct(l) => Distinct(r))
<1>1. /\ Len(l) \in Nat /\ DOMAIN l = 1 .. Len(l) /\ i \in 1 .. Len(l) /\ DOMAIN r = DOMAIN l
  BY LenProperties DEF Moved
<1>2. ASSUME NEW k \in DOMAIN r PROVE r[k] \in Range(l)
  <2>1. \E m \in DOMAIN l : r[k] = l[m]
    <3>1. k \in DOMAIN l /\ (k < j \/ k = j \/ (k > j /\ k <= i) \/ k > i)
      BY <1>1
    <3> QED BY <3>1 DEF Moved
  <2> QED BY <2>1 DEF Range
<1>3. ASSUME NEW k \in DOMAIN l PROVE l[k] \in Range(r)
  <2>1. CASE k < j \/ k > i
    BY <1>1, <2>1 DEF Range, Moved
  <2>2. CASE k = i
    BY <1>1, <2>2 DEF Range, Moved
  <2>3. CASE k >= j /\ k < i
    <3>1. k + 1 \in DOMAIN l /\ k + 1 > j /\ k + 1 <= i
      BY <1>1, <2>3
    <3>2. r[k + 1] = l[k]
      BY <1>1, <3>1 DEF Moved
    <3> QED BY <1>1, <3>1, <3>2 DEF Range
  <2> QED BY <1>1, <2>1, <2>2, <2>3
<1>4. Range(r) = Range(l)
  <2>1. \A n : n \in Range(r) => n \in Range(l)
    BY <1>2 DEF Range
  <2>2. \A n : n \in Range(l) => n \in Range(r)
    BY <1>3 DEF Range
  <2> QED BY <2>1, <2>2
<1>5. ASSUME Distinct(l), NEW a \in DOMAIN r, NEW b \in DOMAIN r, r[a] = r[b] PROVE a = b
  <2> DEFINE Was(k) == IF k = j THEN i ELSE IF k > j /\ k <= i THEN k - 1 ELSE k
  <2>1. ASSUME NEW k \in DOMAIN r PROVE Was(k) \in DOMAIN l /\ r[k] = l[Was(k)]
    <3>1. k \in DOMAIN l /\ (k < j \/ k = j \/ (k > j /\ k <= i) \/ k > i)
      BY <1>1
    <3>0. k \in Nat /\ j \in Nat /\ i \in Nat /\ j <= i
      BY <1>1
    <3>2. CASE k < j \/ k > i
      <4>1. r[k] = l[k]
        BY <3>1, <3>2 DEF Moved
      <4>2. Was(k) = k
        BY <3>0, <3>2
      <4> QED BY <3>1, <4>1, <4>2
    <3>3. CASE k = j
      BY <1>1, <3>1, <3>3 DEF Moved
    <3>4. CASE k > j /\ k <= i
      <4>1. r[k] = l[k - 1] /\ k - 1 \in DOMAIN l
        BY <3>1, <3>4 DEF Moved
      <4>2. Was(k) = k - 1
        BY <3>0, <3>4
      <4> QED BY <4>1, <4>2
    <3> QED BY <3>1, <3>2, <3>3, <3>4
  <2>2. Was(a) = Was(b)
    <3> HIDE DEF Was
    <3> QED BY <1>5, <2>1 DEF Distinct
  <2> QED BY <1>1, <2>2
<1> QED BY <1>4, <1>5 DEF Distinct

\* The place of a node.
LEMMA AtItsPlace ==
    ASSUME Distinct(list), NEW i \in DOMAIN list
    PROVE  At(list[i]) = i
BY DEF At, Distinct

------------------------------------------------------------------------------
(* What the scans along the list find.                                        *)

LEMMA RunEndIsThere ==
    ASSUME list \in Seq(Nat), NEW i \in DOMAIN list
    PROVE  /\ RunEnd(i) \in i .. Len(list)
           /\ \A k \in i .. RunEnd(i) : GroupOf(list[k]) = GroupOf(list[i])
           /\ RunEnd(i) < Len(list) => GroupOf(list[RunEnd(i) + 1]) # GroupOf(list[i])
<1> DEFINE Ends(j) == j < Len(list) => GroupOf(list[j + 1]) # GroupOf(list[i])
           S == {j \in i .. Len(list) : Ends(j)}
           Run(j) == \A k \in i .. j : GroupOf(list[k]) = GroupOf(list[i])
<1>1. Len(list) \in Nat /\ DOMAIN list = 1 .. Len(list) /\ i \in 1 .. Len(list)
  BY LenProperties
<1>2. PICK j \in S : \A k \in S : j <= k
  <2>1. S \in SUBSET Nat /\ Len(list) \in S
    BY <1>1
  <2> HIDE DEF S
  <2> QED BY <2>1, LeastExists
<1>3. Run(j)
  <2> SUFFICES ASSUME NEW k \in i .. j PROVE GroupOf(list[k]) = GroupOf(list[i])
    OBVIOUS
  <2>1. CASE k = i
    BY <2>1
  <2>2. CASE k # i
    <3>1. k - 1 \in i .. Len(list) /\ k - 1 < j /\ (k - 1) + 1 = k
      BY <1>1, <2>2
    <3>2. ~Ends(k - 1)
      BY <1>1, <1>2, <3>1
    <3> QED BY <3>1, <3>2
  <2> QED BY <2>1, <2>2
<1>4. j \in i .. Len(list) /\ Run(j) /\ Ends(j)
  BY <1>2, <1>3
<1>5. RunEnd(i) = CHOOSE e \in i .. Len(list) : Run(e) /\ Ends(e)
  BY Zenon DEF RunEnd
<1> HIDE DEF Run, Ends
<1>6. RunEnd(i) \in i .. Len(list) /\ Run(RunEnd(i)) /\ Ends(RunEnd(i))
  BY <1>4, <1>5
<1> QED BY <1>6 DEF Run, Ends

LEMMA ScanBackStops ==
    ASSUME NEW i \in Nat, NEW s \in 1 .. i, At(group.start) = s, NEW n
    PROVE  /\ ScanBack(i, n) \in s .. i
           /\ \A k \in ScanBack(i, n) + 1 .. i : TagOf(list[k]) > TagOf(n)
           /\ ScanBack(i, n) = s \/ TagOf(list[ScanBack(i, n)]) <= TagOf(n)
<1> DEFINE Stops(j) == j = s \/ TagOf(list[j]) <= TagOf(n)
           Passes(j) == \A k \in j + 1 .. i : TagOf(list[k]) > TagOf(n)
           S == {d \in 0 .. i - s : Stops(i - d)}
<1>1. i \in Nat /\ s \in Nat /\ 1 <= s /\ s <= i
  OBVIOUS
<1>2. PICK d \in S : \A e \in S : d <= e
  <2>1. i - s \in 0 .. i - s /\ i - (i - s) = s
    BY <1>1
  <2>2. S \in SUBSET Nat /\ i - s \in S
    BY <1>1, <2>1
  <2> HIDE DEF S
  <2> QED BY <2>2, LeastExists
<1>3. i - d \in s .. i /\ Stops(i - d)
  BY <1>1, <1>2
<1>4. Passes(i - d)
  <2> SUFFICES ASSUME NEW k \in (i - d) + 1 .. i PROVE TagOf(list[k]) > TagOf(n)
    OBVIOUS
  <2>1. PICK e \in 0 .. i - s : e < d /\ i - e = k
    <3>1. i - k \in 0 .. i - s /\ i - k < d /\ i - (i - k) = k
      BY <1>1, <1>2
    <3> QED BY <3>1
  <2>2. ~Stops(k)
    <3>1. e \notin S
      BY <1>1, <1>2, <2>1
    <3> QED BY <2>1, <3>1
  <2>3. TagOf(list[k]) \in Nat /\ TagOf(n) \in Nat
    BY ReadOfHive, TagsAreNumbers
  <2> QED BY <2>2, <2>3
<1>5. ScanBack(i, n) = CHOOSE j \in s .. i : Passes(j) /\ Stops(j)
  BY Zenon DEF ScanBack
<1> HIDE DEF Passes, Stops
<1>6. /\ ScanBack(i, n) \in s .. i /\ Passes(ScanBack(i, n)) /\ Stops(ScanBack(i, n))
  BY <1>3, <1>4, <1>5
<1> QED BY <1>6 DEF Passes, Stops

------------------------------------------------------------------------------
(* The places of the groups in the order list.                                *)

\* i is the first place after o of a group in the order list.
IsPlace(i, g, o) ==
    /\ i \in o + 1 .. Len(OrderList) + 1
    /\ i \in DOMAIN OrderList => OrderList[i] = g
    /\ \A j \in o + 1 .. i - 1 : OrderList[j] # g

Place(g, o) == CHOOSE i : IsPlace(i, g, o)

LEMMA OrderIsAList ==
    /\ Len(OrderList) \in Nat /\ DOMAIN OrderList = 1 .. Len(OrderList)
    /\ \A i \in DOMAIN OrderList : OrderList[i] # NoGroup
BY OrderAssumption, LenProperties

LEMMA PlaceExists ==
    ASSUME NEW g, NEW o \in 0 .. Len(OrderList)
    PROVE  \E i : IsPlace(i, g, o)
<1> DEFINE S == {i \in o + 1 .. Len(OrderList) + 1 : i \in DOMAIN OrderList => OrderList[i] = g}
<1>1. S \in SUBSET Nat /\ Len(OrderList) + 1 \in S
  BY OrderIsAList
<1>2. PICK i \in S : \A j \in S : i <= j
  <2> HIDE DEF S
  <2> QED BY <1>1, LeastExists
<1>3. ASSUME NEW j \in o + 1 .. i - 1 PROVE OrderList[j] # g
  <2>1. j \in o + 1 .. Len(OrderList) + 1 /\ j < i
    BY <1>2, OrderIsAList
  <2> QED BY <1>2, <2>1
<1> QED BY <1>2, <1>3 DEF IsPlace

LEMMA OnePlace ==
    ASSUME NEW g, NEW o \in 0 .. Len(OrderList), NEW i, NEW j, IsPlace(i, g, o), IsPlace(j, g, o)
    PROVE  i = j
<1>1. i \in Nat /\ j \in Nat /\ i \in o + 1 .. Len(OrderList) + 1 /\ j \in o + 1 .. Len(OrderList) + 1
  BY OrderIsAList DEF IsPlace
<1>2. CASE i < j
  <2>1. i \in o + 1 .. j - 1 /\ i \in DOMAIN OrderList
    BY <1>1, <1>2, OrderIsAList
  <2> QED BY <2>1 DEF IsPlace
<1>3. CASE j < i
  <2>1. j \in o + 1 .. i - 1 /\ j \in DOMAIN OrderList
    BY <1>1, <1>3, OrderIsAList
  <2> QED BY <2>1 DEF IsPlace
<1> QED BY <1>1, <1>2, <1>3

LEMMA PlaceIsOne ==
    ASSUME NEW g, NEW o \in 0 .. Len(OrderList)
    PROVE  /\ IsPlace(Place(g, o), g, o)
           /\ \A i : IsPlace(i, g, o) => Place(g, o) = i
<1>1. IsPlace(Place(g, o), g, o)
  BY PlaceExists, Zenon DEF Place
<1> QED BY <1>1, OnePlace

LEMMA PlaceIsPlaceOf == \A g : PlaceOf(g) = Place(g, 0)
<1> SUFFICES ASSUME NEW g PROVE PlaceOf(g) = Place(g, 0)
  OBVIOUS
<1> DEFINE Is(i) == /\ i \in DOMAIN OrderList => OrderList[i] = g
                    /\ \A j \in 1 .. i - 1 : OrderList[j] # g
<1>1. \A i : IsPlace(i, g, 0) <=> i \in 1 .. Len(OrderList) + 1 /\ Is(i)
  BY DEF IsPlace
<1>2. PlaceOf(g) = CHOOSE i \in 1 .. Len(OrderList) + 1 : Is(i)
  BY Zenon DEF PlaceOf
<1>3. 0 \in 0 .. Len(OrderList)
  BY OrderIsAList
<1> HIDE DEF Is
<1>4. PlaceOf(g) \in 1 .. Len(OrderList) + 1 /\ Is(PlaceOf(g))
  BY <1>1, <1>2, <1>3, PlaceExists
<1> QED BY <1>1, <1>3, <1>4, PlaceIsOne

\* A turn of CmpDoSort brings one group to the front, whatever its place was.
LEMMA PlaceTurns ==
    ASSUME NEW g, NEW o \in 1 .. Len(OrderList)
    PROVE  /\ g = OrderList[o] => Place(g, o - 1) = o
           /\ g # OrderList[o] => Place(g, o - 1) = Place(g, o)
<1>1. /\ o \in 0 .. Len(OrderList) /\ o - 1 \in 0 .. Len(OrderList) /\ (o - 1) + 1 = o
      /\ o \in DOMAIN OrderList /\ o \in o .. Len(OrderList) + 1
  BY OrderIsAList
<1>2. CASE g = OrderList[o]
  <2>1. IsPlace(o, g, o - 1)
    BY <1>1, <1>2, OrderIsAList DEF IsPlace
  <2> QED BY <1>1, <1>2, <2>1, PlaceIsOne
<1>3. CASE g # OrderList[o]
  <2> DEFINE i == Place(g, o)
  <2>1. IsPlace(i, g, o)
    BY <1>1, PlaceIsOne
  <2> HIDE DEF i
  <2>2. i \in o + 1 .. Len(OrderList) + 1 /\ i \in o .. Len(OrderList) + 1
    BY <1>1, <2>1, OrderIsAList DEF IsPlace
  <2>3. \A j \in o .. i - 1 : OrderList[j] # g
    BY <1>1, <1>3, <2>1, <2>2, OrderIsAList DEF IsPlace
  <2>4. IsPlace(i, g, o - 1)
    BY <1>1, <2>1, <2>2, <2>3 DEF IsPlace
  <2>5. Place(g, o - 1) = i
    BY <1>1, <2>4, PlaceIsOne
  <2> QED BY <1>3, <2>5 DEF i
<1> QED BY <1>2, <1>3

LEMMA PlaceIsLater ==
    ASSUME NEW g, NEW o \in 0 .. Len(OrderList)
    PROVE  Place(g, o) \in Nat /\ Place(g, o) > o /\ Place(g, o) <= Len(OrderList) + 1
BY PlaceIsOne, OrderIsAList DEF IsPlace

------------------------------------------------------------------------------
(* The list while it is collected and ordered.                                *)

HiveOk(h) ==
    /\ {"Current", "services", "fileSystem"} \subseteq DOMAIN h
    /\ h.services \in Seq(Services) /\ h.fileSystem \in {Missing} \cup DOMAIN h.services

\* The boot drivers among the subkeys, and among the first of them.
Boots(h) == {n \in DOMAIN h.services : h.services[n].Start = BootLoad}
BootsBelow(h, k) == {n \in Boots(h) : n < k}

\* The list has all it should have, and marks the boot file system.
RightList(h, l, d, m) ==
    /\ Range(l) = (Boots(h) \cup (IF h.fileSystem = Missing THEN {} ELSE {FileSystemNode})) \ d
    /\ FileSystemNode \in Range(l) => m = FileSystemNode

\* Up to the subkey looked at, the list has the boot drivers the heap had room for.
ListInv ==
    /\ HiveOk(hive)
    /\ list \in Seq(Nat) /\ Distinct(list)
    /\ phase \in {"CmpFindControlSet", "CmpFindNLSData"} =>
          list = <<>> /\ dropped = {} /\ subkey = 1
    /\ phase = "CmpFindDrivers" =>
          /\ subkey \in Nat \ {0}
          /\ dropped \subseteq BootsBelow(hive, subkey)
          /\ Range(list) = BootsBelow(hive, subkey) \ dropped
    /\ Collected => RightList(hive, list, dropped, marked)

NodeIn(l, p) == IF p \in DOMAIN l THEN l[p] ELSE ListHead

\* The nodes after place m are in the order of their groups' places after o.
ByGroup(h, l, m, o) ==
    \A i, j \in DOMAIN l :
        m < i /\ i < j => Place(GroupIn(h, l[i]), o) <= Place(GroupIn(h, l[j]), o)

SameGroup(h, l, i, j) == \A k \in i .. j : GroupIn(h, l[k]) = GroupIn(h, l[i])

ByTag(h, l, i, j) == \A a, b \in i .. j : a < b => TagIn(h, l[a]) <= TagIn(h, l[b])

\* The runs of one group before place p are ordered by tag.
RunsByTag(h, l, p) ==
    \A i, j \in DOMAIN l :
        i < j /\ j < p /\ SameGroup(h, l, i, j) => TagIn(h, l[i]) <= TagIn(h, l[j])

\* A run may begin at place p.
RunStarts(h, l, p) ==
    p - 1 \in DOMAIN l /\ p \in DOMAIN l => GroupIn(h, l[p - 1]) # GroupIn(h, l[p])

\* CmpDoSort at place p: the members of the group met so far are the first m nodes.
SortingAt(h, l, o, m, p) ==
    /\ m < p
    /\ \A k \in 1 .. m : GroupIn(h, l[k]) = OrderList[o]
    /\ \A k \in m + 1 .. p - 1 : GroupIn(h, l[k]) # OrderList[o]
    /\ ByGroup(h, l, m, o)
    /\ o = 0 => m = 0 /\ p = 1

Sorting(h, l, o, e) ==
    /\ o \in 0 .. Len(OrderList)
    /\ \E m \in 0 .. Len(l), p \in 1 .. Len(l) + 1 :
          e = NodeIn(l, p) /\ SortingAt(h, l, o, m, p)

\* CmpResolveDriverDependencies between two groups.
Resolving(h, l, e) ==
    /\ ByGroup(h, l, 0, 0)
    /\ \E p \in 1 .. Len(l) + 1 : e = NodeIn(l, p) /\ RunStarts(h, l, p) /\ RunsByTag(h, l, p)

\* CmpOrderGroup at place c of the group at places s to z: up to there it is in order.
InGroup(h, l, s, c, z) ==
    /\ s <= c /\ c < z
    /\ SameGroup(h, l, s, z) /\ RunStarts(h, l, s) /\ RunStarts(h, l, z + 1)
    /\ RunsByTag(h, l, s) /\ ByTag(h, l, s, c)

Ordering(h, l, e, g) ==
    /\ ByGroup(h, l, 0, 0)
    /\ g \in [start : Nat, end : Nat, current : Nat]
    /\ \E s, c, z \in DOMAIN l :
          /\ g.start = l[s] /\ g.current = l[c] /\ g.end = l[z] /\ e = NodeIn(l, z + 1)
          /\ InGroup(h, l, s, c, z)

OrderInv ==
    /\ phase = "CmpDoSort" => Sorting(hive, list, order, entry)
    /\ phase = "CmpResolveDriverDependencies" => Resolving(hive, list, entry)
    /\ phase = "CmpOrderGroup" => Ordering(hive, list, entry, group)
    /\ phase = "done" => ByGroup(hive, list, 0, 0) /\ RunsByTag(hive, list, Len(list) + 1)

------------------------------------------------------------------------------
(* Collecting.                                                                *)

LEMMA NodesOfList ==
    ASSUME NEW l \in Seq(Nat)
    PROVE  /\ Len(l) \in Nat /\ DOMAIN l = 1 .. Len(l)
           /\ \A i \in DOMAIN l : l[i] \in Nat /\ l[i] # ListHead
BY LenProperties DEF ListHead

\* InsertHeadList of a node that is not in the list.
LEMMA AddedInFront ==
    ASSUME NEW l \in Seq(Nat), Distinct(l), NEW n \in Nat, n \notin Range(l)
    PROVE  /\ <<n>> \o l \in Seq(Nat) /\ Distinct(<<n>> \o l)
           /\ Range(<<n>> \o l) = {n} \cup Range(l)
           /\ FirstOf(<<n>> \o l) = n
<1> DEFINE r == <<n>> \o l
<1>1. /\ <<n>> \in Seq(Nat) /\ Len(<<n>>) = 1 /\ <<n>>[1] = n
      /\ Len(l) \in Nat /\ DOMAIN l = 1 .. Len(l)
  BY LenProperties
<1>2. /\ r \in Seq(Nat) /\ Len(r) = 1 + Len(l) /\ DOMAIN r = 1 .. Len(r)
      /\ \A i \in 1 .. Len(r) : r[i] = IF i <= 1 THEN <<n>>[i] ELSE l[i - 1]
  BY <1>1, ConcatProperties, LenProperties
<1>3. /\ r[1] = n /\ \A i \in 1 .. Len(l) : r[i + 1] = l[i]
      /\ 1 \in DOMAIN r
  BY <1>1, <1>2
<1> HIDE DEF r
<1>4. ASSUME NEW i \in DOMAIN r PROVE i = 1 \/ (i - 1 \in DOMAIN l /\ r[i] = l[i - 1])
  BY <1>1, <1>2
<1>5. \A i \in DOMAIN l : i + 1 \in DOMAIN r /\ r[i + 1] = l[i]
  BY <1>1, <1>2, <1>3
<1>6. Range(r) = {n} \cup Range(l)
  <2>1. ASSUME NEW x \in Range(r) PROVE x \in {n} \cup Range(l)
    BY <1>3, <1>4, <2>1 DEF Range
  <2>2. ASSUME NEW x \in {n} \cup Range(l) PROVE x \in Range(r)
    BY <1>3, <1>5, <2>2 DEF Range
  <2> QED BY <2>1, <2>2
<1>7. ASSUME NEW i \in DOMAIN r, NEW j \in DOMAIN r, r[i] = r[j] PROVE i = j
  <2>1. \A k \in DOMAIN l : l[k] # n
    BY DEF Range
  <2>2. CASE i = 1 \/ j = 1
    BY <1>3, <1>4, <1>7, <2>1, <2>2
  <2>3. CASE i # 1 /\ j # 1
    <3>1. l[i - 1] = l[j - 1] /\ i - 1 \in DOMAIN l /\ j - 1 \in DOMAIN l
      BY <1>4, <1>7, <2>3
    <3>2. i - 1 = j - 1 /\ i \in Nat /\ j \in Nat
      BY <1>2, <3>1 DEF Distinct
    <3> QED BY <3>2
  <2> QED BY <2>2, <2>3
<1>8. FirstOf(r) = n
  <2>1. r # <<>> /\ Head(r) = r[1]
    BY <1>2, <1>3
  <2> QED BY <1>3, <2>1 DEF FirstOf
<1>9. Distinct(r)
  BY <1>7 DEF Distinct
<1> QED BY <1>2, <1>6, <1>8, <1>9 DEF r

LEMMA LoadTypeIsBoot ==
    ASSUME HiveOk(hive)
    PROVE  /\ Len(hive.services) \in Nat /\ DOMAIN hive.services = 1 .. Len(hive.services)
           /\ \A n \in DOMAIN hive.services :
                 n # FileSystemNode /\ (CmpIsLoadType(n) <=> hive.services[n].Start = BootLoad)
<1>1. Len(hive.services) \in Nat /\ DOMAIN hive.services = 1 .. Len(hive.services)
  BY LenProperties DEF HiveOk
<1>2. \A n \in DOMAIN hive.services : n # FileSystemNode
  BY <1>1 DEF FileSystemNode
<1> QED BY <1>1, <1>2 DEF CmpIsLoadType, ServiceOf

LEMMA ControlSetKeepsList == ASSUME ListInv, CmpFindControlSet PROVE ListInv'
<1>1. HiveOk(hive')
  BY DEF ListInv, CmpFindControlSet, HiveOk
<1>2. /\ UNCHANGED <<list, dropped, subkey>> /\ list = <<>> /\ dropped = {} /\ subkey = 1
      /\ phase' \in {"failed", "CmpFindNLSData"}
  BY DEF ListInv, CmpFindControlSet, Fail
<1> QED BY <1>1, <1>2 DEF ListInv, Collected

LEMMA NLSDataKeepsList == ASSUME ListInv, CmpFindNLSData PROVE ListInv'
<1>1. /\ UNCHANGED <<hive, list, dropped, subkey>> /\ list = <<>> /\ dropped = {} /\ subkey = 1
      /\ phase' \in {"failed", "CmpFindDrivers"}
  BY DEF ListInv, CmpFindNLSData, Fail
<1>2. BootsBelow(hive, subkey) = {}
  BY <1>1, LoadTypeIsBoot DEF BootsBelow, Boots, ListInv
<1>3. Range(list) = {}
  BY <1>1 DEF Range
<1>4. /\ HiveOk(hive) /\ list \in Seq(Nat) /\ Distinct(list) /\ subkey \in Nat \ {0}
      /\ dropped \subseteq BootsBelow(hive, subkey)
      /\ Range(list) = BootsBelow(hive, subkey) \ dropped
  <2>1. HiveOk(hive) /\ list \in Seq(Nat) /\ Distinct(list)
    BY DEF ListInv
  <2>2. subkey \in Nat \ {0} /\ dropped = {}
    BY <1>1
  <2> QED BY <1>2, <1>3, <2>1, <2>2
<1>5. ~Collected'
  BY <1>1 DEF Collected
<1> QED BY <1>1, <1>4, <1>5 DEF ListInv

LEMMA FindDriverKeepsList == ASSUME ListInv, FindDriver PROVE ListInv'
<1> DEFINE old == BootsBelow(hive, subkey)
           new == BootsBelow(hive, subkey + 1)
<1>1. /\ HiveOk(hive) /\ list \in Seq(Nat) /\ Distinct(list)
      /\ subkey \in Nat \ {0} /\ dropped \subseteq old /\ Range(list) = old \ dropped
      /\ subkey \in DOMAIN hive.services /\ subkey' = subkey + 1 /\ phase' = "CmpFindDrivers"
      /\ hive' = hive
  BY DEF ListInv, FindDriver
<1>2. \A n \in DOMAIN hive.services : n \in Nat
  BY <1>1, LoadTypeIsBoot
<1>3. subkey \notin old
  BY <1>1 DEF BootsBelow, Boots
<1>4. \A n : n \in new <=> n \in old \/ (n = subkey /\ CmpIsLoadType(subkey))
  BY <1>1, <1>2, LoadTypeIsBoot DEF BootsBelow, Boots
<1> HIDE DEF old, new
<1>5. CASE ~CmpIsLoadType(subkey)
  <2>1. list' = list /\ dropped' = dropped
    BY <1>5 DEF FindDriver
  <2>2. new = old
    BY <1>4, <1>5
  <2> QED BY <1>1, <2>1, <2>2 DEF ListInv, Collected, old, new
<1>6. CASE CmpIsLoadType(subkey) /\ list' = Added(subkey) /\ UNCHANGED dropped
  <2>1. /\ list' \in Seq(Nat) /\ Distinct(list') /\ Range(list') = {subkey} \cup Range(list)
    BY <1>1, <1>3, <1>6, AddedInFront DEF Added
  <2>2. Range(list') = new \ dropped /\ dropped \subseteq new
    BY <1>1, <1>3, <1>4, <1>6, <2>1
  <2> QED BY <1>1, <1>6, <2>1, <2>2 DEF ListInv, Collected, new
<1>7. CASE CmpIsLoadType(subkey) /\ list' = list /\ dropped' = dropped \cup {subkey}
  <2>1. Range(list) = new \ dropped' /\ dropped' \subseteq new
    BY <1>1, <1>3, <1>4, <1>7
  <2> QED BY <1>1, <1>7, <2>1 DEF ListInv, Collected, new
<1> QED BY <1>5, <1>6, <1>7 DEF FindDriver, CmpAddDriverToList

LEMMA AddFileSystemKeepsList == ASSUME ListInv, AddBootFileSystem PROVE ListInv'
<1>1. /\ HiveOk(hive) /\ list \in Seq(Nat) /\ Distinct(list)
      /\ subkey \in Nat \ {0} /\ subkey \notin DOMAIN hive.services
      /\ dropped \subseteq BootsBelow(hive, subkey)
      /\ Range(list) = BootsBelow(hive, subkey) \ dropped
      /\ phase' = "CmpSortDriverList" /\ hive' = hive
  BY DEF ListInv, AddBootFileSystem
<1>2. BootsBelow(hive, subkey) = Boots(hive)
  <2>1. \A n \in DOMAIN hive.services : n < subkey
    BY <1>1, LoadTypeIsBoot
  <2> QED BY <2>1 DEF BootsBelow, Boots
<1>3. FileSystemNode \notin Boots(hive) /\ FileSystemNode \in Nat
  BY <1>1, LoadTypeIsBoot DEF FileSystemNode, Boots
<1>4. list' \in Seq(Nat) /\ Distinct(list') /\ RightList(hive, list', dropped', marked')
  <2>1. CASE hive.fileSystem = Missing
    <3>1. UNCHANGED <<list, dropped, marked>>
      BY <2>1 DEF AddBootFileSystem
    <3> QED BY <1>1, <1>2, <1>3, <2>1, <3>1 DEF RightList
  <2>2. CASE hive.fileSystem # Missing /\ list' = Added(FileSystemNode) /\ UNCHANGED dropped
    <3>1. marked' = FirstOf(list')
      BY <2>2 DEF AddBootFileSystem
    <3>2. /\ list' \in Seq(Nat) /\ Distinct(list')
          /\ Range(list') = {FileSystemNode} \cup Range(list) /\ FirstOf(list') = FileSystemNode
      BY <1>1, <1>2, <1>3, <2>2, AddedInFront DEF Added
    <3> QED BY <1>1, <1>2, <1>3, <2>2, <3>1, <3>2 DEF RightList
  <2>3. CASE /\ hive.fileSystem # Missing /\ list' = list
             /\ dropped' = dropped \cup {FileSystemNode}
    BY <1>1, <1>2, <1>3, <2>3 DEF RightList
  <2> QED BY <2>1, <2>2, <2>3 DEF AddBootFileSystem, CmpAddDriverToList
<1> QED BY <1>1, <1>4 DEF ListInv, Collected

\* The phases in which the list is complete.
Ordered == {"CmpSortDriverList", "CmpDoSort", "CmpResolveDriverDependencies", "CmpOrderGroup", "done"}

\* A step that only moves nodes.
LEMMA MovingKeepsList ==
    ASSUME ListInv, phase \in Ordered, phase' \in Ordered \cup {"failed"},
           UNCHANGED <<hive, dropped, marked>>,
           \/ list' = list
           \/ \E i \in DOMAIN list : \E j \in 1 .. i : list' = MovedTo(list, i, j)
    PROVE  ListInv'
<1>1. HiveOk(hive) /\ list \in Seq(Nat) /\ Distinct(list) /\ RightList(hive, list, dropped, marked)
  BY DEF ListInv, Collected, Ordered
<1>2. list' \in Seq(Nat) /\ Distinct(list') /\ Range(list') = Range(list)
  <2>1. CASE list' = list
    BY <1>1, <2>1
  <2>2. ASSUME NEW i \in DOMAIN list, NEW j \in 1 .. i, list' = MovedTo(list, i, j)
        PROVE  list' \in Seq(Nat) /\ Distinct(list') /\ Range(list') = Range(list)
    <3>1. Moved(list, list', i, j)
      BY <1>1, <2>2, MovedToMoves
    <3>2. list' \in Seq(Nat)
      BY <3>1 DEF Moved
    <3> QED BY <1>1, <3>1, <3>2, MoveKeepsNodes
  <2> QED BY <2>1, <2>2
<1>3. RightList(hive', list', dropped', marked')
  BY <1>1, <1>2 DEF RightList
<1> QED BY <1>1, <1>2, <1>3 DEF ListInv, Ordered

LEMMA NoServicesKeepsList == ASSUME ListInv, NoServices PROVE ListInv'
BY DEF ListInv, NoServices, Fail, Collected

------------------------------------------------------------------------------
(* Sorting by group.                                                          *)

LEMMA FirstIsThere == ASSUME NEW l \in Seq(Nat) PROVE FirstOf(l) = NodeIn(l, 1)
<1>1. CASE l = <<>>
  <2>1. 1 \notin DOMAIN l
    BY <1>1
  <2> QED BY <1>1, <2>1 DEF FirstOf, NodeIn
<1>2. CASE l # <<>>
  <2>1. Len(l) # 0 /\ Head(l) = l[1]
    BY <1>2, EmptySeq, HeadTailProperties
  <2>2. 1 \in DOMAIN l
    BY <2>1, NodesOfList
  <2> QED BY <1>2, <2>1, <2>2 DEF FirstOf, NodeIn
<1> QED BY <1>1, <1>2

\* A node that is in the list stands at its place; past the last one is the head.
LEMMA NodeInPlace ==
    ASSUME NEW l \in Seq(Nat), NEW p \in 1 .. Len(l) + 1
    PROVE  /\ NodeIn(l, p) # ListHead => p \in DOMAIN l /\ NodeIn(l, p) = l[p]
           /\ NodeIn(l, p) = ListHead => p = Len(l) + 1
<1>1. p \in DOMAIN l \/ p = Len(l) + 1
  BY NodesOfList
<1> QED BY <1>1, NodesOfList DEF NodeIn

LEMMA SortBegins ==
    ASSUME NEW h, NEW l \in Seq(Nat)
    PROVE  Sorting(h, l, Len(OrderList), FirstOf(l))
<1>1. /\ Len(OrderList) \in 0 .. Len(OrderList) /\ 0 \in 0 .. Len(l) /\ 1 \in 1 .. Len(l) + 1
      /\ Len(OrderList) \in Nat
  BY OrderIsAList, NodesOfList
<1>2. \A g : Place(g, Len(OrderList)) = Len(OrderList) + 1
  BY <1>1, PlaceIsLater
<1>3. ByGroup(h, l, 0, Len(OrderList))
  BY <1>1, <1>2 DEF ByGroup
<1>4. SortingAt(h, l, Len(OrderList), 0, 1)
  BY <1>1, <1>3 DEF SortingAt
<1> QED BY <1>1, <1>4, FirstIsThere DEF Sorting

LEMMA MemberIsMoved ==
    ASSUME NEW h, NEW l \in Seq(Nat), NEW o \in 1 .. Len(OrderList), NEW m \in Nat,
           NEW p \in DOMAIN l, SortingAt(h, l, o, m, p), GroupIn(h, l[p]) = OrderList[o],
           NEW r, Moved(l, r, p, 1)
    PROVE  SortingAt(h, r, o, m + 1, p + 1)
<1>1. /\ Len(l) \in Nat /\ DOMAIN l = 1 .. Len(l) /\ p \in 1 .. Len(l) /\ p \in Nat
      /\ DOMAIN r = DOMAIN l /\ 1 \in 1 .. p /\ m < p /\ o # 0
  BY NodesOfList, OrderIsAList DEF Moved, SortingAt
<1>2. r[1] = l[p]
  BY DEF Moved
<1>3. ASSUME NEW k \in DOMAIN l, k > 1, k <= p
      PROVE  r[k] = l[k - 1] /\ k - 1 \in DOMAIN l
  BY <1>1, <1>3 DEF Moved
<1>4. ASSUME NEW k \in DOMAIN l, k > p PROVE r[k] = l[k]
  BY <1>1, <1>4 DEF Moved
<1>5. ASSUME NEW k \in 1 .. m + 1 PROVE GroupIn(h, r[k]) = OrderList[o]
  <2>1. CASE k = 1
    BY <1>2, <2>1
  <2>2. CASE k # 1
    <3>1. k \in DOMAIN l /\ k > 1 /\ k <= p /\ k - 1 \in 1 .. m
      BY <1>1, <2>2
    <3>2. r[k] = l[k - 1]
      BY <1>3, <3>1
    <3> QED BY <3>1, <3>2 DEF SortingAt
  <2> QED BY <2>1, <2>2
<1>6. ASSUME NEW k \in (m + 1) + 1 .. (p + 1) - 1 PROVE GroupIn(h, r[k]) # OrderList[o]
  <2>1. k \in DOMAIN l /\ k > 1 /\ k <= p /\ k - 1 \in m + 1 .. p - 1
    BY <1>1
  <2>2. r[k] = l[k - 1]
    BY <1>3, <2>1
  <2> QED BY <2>1, <2>2 DEF SortingAt
<1>7. ASSUME NEW i \in DOMAIN r, NEW j \in DOMAIN r, m + 1 < i, i < j
      PROVE  Place(GroupIn(h, r[i]), o) <= Place(GroupIn(h, r[j]), o)
  <2>0. i \in DOMAIN l /\ j \in DOMAIN l /\ i \in Nat /\ j \in Nat
    BY <1>1
  <2>1. i \in DOMAIN l /\ j \in DOMAIN l /\ i \in Nat /\ j \in Nat /\ i > 1 /\ j > 1
    BY <1>7, <2>0
  <2>2. \A a, b \in DOMAIN l :
           m < a /\ a < b => Place(GroupIn(h, l[a]), o) <= Place(GroupIn(h, l[b]), o)
    BY DEF SortingAt, ByGroup
  <2>3. CASE j <= p
    <3>0. i <= p
      BY <1>1, <1>7, <2>1, <2>3
    <3>1. r[i] = l[i - 1] /\ i - 1 \in DOMAIN l /\ r[j] = l[j - 1] /\ j - 1 \in DOMAIN l
      BY <1>3, <2>1, <2>3, <3>0
    <3>2. m < i - 1 /\ i - 1 < j - 1
      BY <1>7, <2>1
    <3> QED BY <2>2, <3>1, <3>2
  <2>4. CASE i <= p /\ p < j
    <3>1. r[i] = l[i - 1] /\ i - 1 \in DOMAIN l /\ r[j] = l[j]
      BY <1>3, <1>4, <2>1, <2>4
    <3>2. m < i - 1 /\ i - 1 < j
      BY <1>7, <2>1
    <3> QED BY <2>1, <2>2, <3>1, <3>2
  <2>5. CASE p < i
    <3>1. r[i] = l[i] /\ r[j] = l[j] /\ m < i
      BY <1>1, <1>4, <1>7, <2>1, <2>5
    <3> QED BY <1>7, <2>1, <2>2, <3>1
  <2> QED BY <1>1, <2>1, <2>3, <2>4, <2>5
<1>8. ByGroup(h, r, m + 1, o)
  BY <1>7 DEF ByGroup
<1> QED BY <1>1, <1>5, <1>6, <1>8 DEF SortingAt

LEMMA OtherIsPassed ==
    ASSUME NEW h, NEW l \in Seq(Nat), NEW o \in 1 .. Len(OrderList), NEW m \in Nat,
           NEW p \in DOMAIN l, SortingAt(h, l, o, m, p), GroupIn(h, l[p]) # OrderList[o]
    PROVE  SortingAt(h, l, o, m, p + 1)
<1>1. p \in Nat /\ o # 0 /\ m < p
  BY NodesOfList, OrderIsAList DEF SortingAt
<1>2. \A k \in m + 1 .. (p + 1) - 1 : k \in m + 1 .. p - 1 \/ k = p
  BY <1>1
<1> QED BY <1>1, <1>2 DEF SortingAt

\* At the end of a turn the group is in front, and the next one is begun.
LEMMA GroupIsInFront ==
    ASSUME NEW h, NEW l \in Seq(Nat), NEW o \in 1 .. Len(OrderList), NEW m \in Nat,
           SortingAt(h, l, o, m, Len(l) + 1)
    PROVE  SortingAt(h, l, o - 1, 0, 1)
<1>1. /\ Len(l) \in Nat /\ DOMAIN l = 1 .. Len(l) /\ o \in Nat
      /\ o \in 0 .. Len(OrderList) /\ o - 1 \in 0 .. Len(OrderList)
  BY NodesOfList, OrderIsAList
<1>2. ASSUME NEW k \in DOMAIN l
      PROVE  /\ k <= m => GroupIn(h, l[k]) = OrderList[o]
             /\ m < k => GroupIn(h, l[k]) # OrderList[o]
  <2>1. k \in Nat /\ (k <= m => k \in 1 .. m) /\ (m < k => k \in m + 1 .. (Len(l) + 1) - 1)
    BY <1>1
  <2> QED BY <2>1 DEF SortingAt
<1>3. ASSUME NEW i \in DOMAIN l, NEW j \in DOMAIN l, i < j
      PROVE  Place(GroupIn(h, l[i]), o - 1) <= Place(GroupIn(h, l[j]), o - 1)
  <2>1. i \in Nat /\ j \in Nat
    BY <1>1
  <2>2. Place(GroupIn(h, l[j]), o) \in Nat /\ Place(GroupIn(h, l[j]), o) > o
    BY <1>1, PlaceIsLater
  <2>3. CASE j <= m
    <3>1. i <= m
      BY <1>3, <2>1, <2>3
    <3>2. Place(GroupIn(h, l[i]), o - 1) = o /\ Place(GroupIn(h, l[j]), o - 1) = o
      BY <1>2, <2>3, <3>1, PlaceTurns
    <3> QED BY <1>1, <3>2
  <2>4. CASE i <= m /\ m < j
    <3>1. Place(GroupIn(h, l[i]), o - 1) = o
      BY <1>2, <2>4, PlaceTurns
    <3>2. Place(GroupIn(h, l[j]), o - 1) = Place(GroupIn(h, l[j]), o)
      BY <1>2, <2>4, PlaceTurns
    <3> QED BY <1>1, <2>2, <3>1, <3>2
  <2>5. CASE m < i
    <3>1. m < j
      BY <1>3, <2>1, <2>5
    <3>2. /\ Place(GroupIn(h, l[i]), o - 1) = Place(GroupIn(h, l[i]), o)
          /\ Place(GroupIn(h, l[j]), o - 1) = Place(GroupIn(h, l[j]), o)
      BY <1>2, <2>5, <3>1, PlaceTurns
    <3>3. Place(GroupIn(h, l[i]), o) <= Place(GroupIn(h, l[j]), o)
      BY <1>3, <2>5 DEF SortingAt, ByGroup
    <3> QED BY <3>2, <3>3
  <2> QED BY <2>1, <2>3, <2>4, <2>5
<1>4. ByGroup(h, l, 0, o - 1)
  BY <1>3 DEF ByGroup
<1> QED BY <1>1, <1>4 DEF SortingAt

LEMMA DoSortKeepsOrder == ASSUME ListInv, OrderInv, CmpDoSort PROVE OrderInv'
<1> DEFINE l == list
           h == hive
           o == order
<1>1. /\ l \in Seq(Nat) /\ Distinct(l) /\ hive' = h /\ order' = o /\ phase' = "CmpDoSort"
      /\ o \in 1 .. Len(OrderList) /\ entry # ListHead
  BY OrderIsAList DEF ListInv, OrderInv, CmpDoSort, Sorting
<1>2. PICK m \in 0 .. Len(l), p \in 1 .. Len(l) + 1 :
         entry = NodeIn(l, p) /\ SortingAt(h, l, o, m, p)
  BY DEF OrderInv, CmpDoSort, Sorting
<1>3. p \in DOMAIN l /\ entry = l[p]
  BY <1>1, <1>2, NodeInPlace
<1>4. At(entry) = p /\ GroupOf(entry) = GroupIn(h, l[p])
  BY <1>1, <1>3, AtItsPlace, ReadOfHive
<1>5. entry' = NodeIn(l, p + 1)
  BY <1>4 DEF CmpDoSort, NodeAt, NodeIn
<1>6. /\ m \in Nat /\ m < p /\ p \in Nat /\ Len(l) \in Nat /\ DOMAIN l = 1 .. Len(l) /\ p <= Len(l)
      /\ p + 1 \in 1 .. Len(l) + 1 /\ m + 1 \in 0 .. Len(l) /\ 1 \in 1 .. p
  BY <1>1, <1>2, <1>3, NodesOfList DEF SortingAt
<1>7. CASE GroupIn(h, l[p]) = OrderList[o]
  <2>1. list' = MovedTo(l, p, 1)
    BY <1>1, <1>4, <1>7, OrderIsAList DEF CmpDoSort, CurrentGroup
  <2>2. Moved(l, list', p, 1)
    BY <1>1, <1>3, <1>6, <2>1, MovedToMoves
  <2>3. SortingAt(h, list', o, m + 1, p + 1)
    BY <1>1, <1>2, <1>3, <1>6, <1>7, <2>2, MemberIsMoved
  <2>4. entry' = NodeIn(list', p + 1) /\ Len(list') = Len(l)
    <3>1. DOMAIN list' = DOMAIN l /\ (p + 1 \in DOMAIN l => list'[p + 1] = l[p + 1]) /\ Len(list') = Len(l)
      <4>1. p + 1 > p
        BY <1>6
      <4> QED BY <2>2, <4>1 DEF Moved
    <3> QED BY <1>5, <3>1 DEF NodeIn
  <2>5. Sorting(h, list', o, entry')
    BY <1>1, <1>6, <2>3, <2>4 DEF Sorting
  <2> QED BY <1>1, <2>5 DEF OrderInv
<1>8. CASE GroupIn(h, l[p]) # OrderList[o]
  <2>1. list' = l
    BY <1>4, <1>8 DEF CmpDoSort, CurrentGroup
  <2>2. SortingAt(h, l, o, m, p + 1)
    BY <1>1, <1>2, <1>3, <1>6, <1>8, OtherIsPassed
  <2>3. Sorting(h, l, o, entry')
    BY <1>1, <1>2, <1>5, <1>6, <2>2 DEF Sorting
  <2> QED BY <1>1, <2>1, <2>3 DEF OrderInv
<1> QED BY <1>7, <1>8

LEMMA NextGroupKeepsOrder == ASSUME ListInv, OrderInv, NextGroup PROVE OrderInv'
<1>1. /\ list \in Seq(Nat) /\ UNCHANGED <<hive, list, phase>> /\ phase = "CmpDoSort"
      /\ order \in 1 .. Len(OrderList) /\ order' = order - 1
      /\ entry = ListHead /\ entry' = FirstOf(list)
  BY OrderIsAList DEF ListInv, OrderInv, NextGroup, Sorting
<1>2. PICK m \in 0 .. Len(list), p \in 1 .. Len(list) + 1 :
         entry = NodeIn(list, p) /\ SortingAt(hive, list, order, m, p)
  BY DEF OrderInv, NextGroup, Sorting
<1>3. p = Len(list) + 1 /\ m \in Nat
  <2>1. NodeIn(list, p) = ListHead
    BY <1>1, <1>2
  <2>2. m \in Nat
    BY <1>1, NodesOfList
  <2> QED BY <1>1, <2>1, <2>2, NodeInPlace
<1>4. SortingAt(hive, list, order - 1, 0, 1)
  BY <1>1, <1>2, <1>3, GroupIsInFront
<1>5. /\ order - 1 \in 0 .. Len(OrderList) /\ 0 \in 0 .. Len(list) /\ 1 \in 1 .. Len(list) + 1
  BY <1>1, OrderIsAList, NodesOfList
<1>6. entry' = NodeIn(list, 1)
  BY <1>1, FirstIsThere
<1>7. Sorting(hive, list, order - 1, entry')
  BY <1>4, <1>5, <1>6 DEF Sorting
<1> QED BY <1>1, <1>7 DEF OrderInv

LEMMA SortedKeepsOrder == ASSUME ListInv, OrderInv, Sorted PROVE OrderInv'
<1>1. /\ list \in Seq(Nat) /\ UNCHANGED <<hive, list, entry>> /\ order = 0
      /\ phase' = "CmpResolveDriverDependencies"
  BY DEF ListInv, Sorted
<1>2. PICK m \in 0 .. Len(list), p \in 1 .. Len(list) + 1 :
         entry = NodeIn(list, p) /\ SortingAt(hive, list, order, m, p)
  BY DEF OrderInv, Sorted, Sorting
<1>3. p = 1 /\ ByGroup(hive, list, 0, 0)
  BY <1>1, <1>2 DEF SortingAt
<1>4. \A i \in DOMAIN list : i \in Nat /\ ~(i < 1) /\ i # 0
  BY <1>1, NodesOfList
<1>5. RunStarts(hive, list, 1) /\ RunsByTag(hive, list, 1)
  BY <1>4 DEF RunStarts, RunsByTag
<1>6. Resolving(hive, list, entry)
  BY <1>2, <1>3, <1>5 DEF Resolving
<1> QED BY <1>1, <1>6 DEF OrderInv

------------------------------------------------------------------------------
(* Ordering each group by tag.                                                *)

\* A run of one node is in order.
LEMMA LoneNodeIsOrdered ==
    ASSUME NEW h, NEW l \in Seq(Nat), NEW p \in DOMAIN l, RunStarts(h, l, p), RunsByTag(h, l, p)
    PROVE  RunsByTag(h, l, p + 1)
<1>1. p \in Nat /\ Len(l) \in Nat /\ DOMAIN l = 1 .. Len(l)
  BY NodesOfList
<1>2. ASSUME NEW i \in DOMAIN l, NEW j \in DOMAIN l, i < j, j < p + 1, SameGroup(h, l, i, j)
      PROVE  TagIn(h, l[i]) <= TagIn(h, l[j])
  <2>1. i \in Nat /\ j \in Nat
    BY <1>1
  <2>2. CASE j < p
    BY <1>2, <2>2 DEF RunsByTag
  <2>3. CASE j = p
    <3>1. p - 1 \in DOMAIN l /\ p - 1 \in i .. j /\ p \in i .. j
      BY <1>1, <1>2, <2>1, <2>3
    <3>2. GroupIn(h, l[p - 1]) = GroupIn(h, l[p])
      BY <1>2, <3>1 DEF SameGroup
    <3> QED BY <3>1, <3>2 DEF RunStarts
  <2> QED BY <1>1, <1>2, <2>1, <2>2, <2>3
<1> QED BY <1>2 DEF RunsByTag

\* A run whose nodes are all in order is passed.
LEMMA RunIsOrdered ==
    ASSUME NEW h, NEW l \in Seq(Nat), NEW s \in DOMAIN l, NEW z \in DOMAIN l,
           SameGroup(h, l, s, z), RunStarts(h, l, s), RunsByTag(h, l, s), ByTag(h, l, s, z)
    PROVE  RunsByTag(h, l, z + 1)
<1>1. s \in Nat /\ z \in Nat /\ Len(l) \in Nat /\ DOMAIN l = 1 .. Len(l)
  BY NodesOfList
<1>2. ASSUME NEW i \in DOMAIN l, NEW j \in DOMAIN l, i < j, j < z + 1, SameGroup(h, l, i, j)
      PROVE  TagIn(h, l[i]) <= TagIn(h, l[j])
  <2>1. i \in Nat /\ j \in Nat
    BY <1>1
  <2>2. CASE j < s
    BY <1>2, <2>2 DEF RunsByTag
  <2>3. CASE i < s /\ s <= j
    <3>1. s - 1 \in DOMAIN l /\ s - 1 \in i .. j /\ s \in i .. j
      BY <1>1, <1>2, <2>1, <2>3
    <3>2. GroupIn(h, l[s - 1]) = GroupIn(h, l[s])
      BY <1>2, <3>1 DEF SameGroup
    <3> QED BY <3>1, <3>2 DEF RunStarts
  <2>4. CASE s <= i
    <3>1. i \in s .. z /\ j \in s .. z
      BY <1>1, <1>2, <2>1, <2>4
    <3> QED BY <1>2, <3>1 DEF ByTag
  <2> QED BY <1>1, <1>2, <2>1, <2>2, <2>3, <2>4
<1> QED BY <1>2 DEF RunsByTag

\* The next node has a tag that is not less than its neighbour's.
LEMMA OrderGrows ==
    ASSUME NEW h, NEW l \in Seq(Nat), NEW s \in DOMAIN l, NEW c \in DOMAIN l, s <= c,
           ByTag(h, l, s, c), TagIn(h, l[c]) <= TagIn(h, l[c + 1])
    PROVE  ByTag(h, l, s, c + 1)
<1>1. s \in Nat /\ c \in Nat
  BY NodesOfList
<1>2. \A n : TagIn(h, n) \in Nat
  BY TagsAreNumbers
<1>3. ASSUME NEW a \in s .. c + 1, NEW b \in s .. c + 1, a < b
      PROVE  TagIn(h, l[a]) <= TagIn(h, l[b])
  <2>1. a \in Nat /\ b \in Nat /\ a \in s .. c
    BY <1>1, <1>3
  <2>2. CASE b \in s .. c
    BY <1>3, <2>1, <2>2 DEF ByTag
  <2>3. CASE b = c + 1
    <3>1. TagIn(h, l[a]) <= TagIn(h, l[c])
      <4>1. c \in s .. c /\ (a < c \/ a = c)
        BY <1>1, <2>1
      <4>2. CASE a = c
        BY <1>2, <4>2
      <4>3. CASE a < c
        BY <2>1, <4>1, <4>3 DEF ByTag
      <4> QED BY <4>1, <4>2, <4>3
    <3>2. TagIn(h, l[a]) \in Nat /\ TagIn(h, l[c]) \in Nat /\ TagIn(h, l[c + 1]) \in Nat
      BY <1>2
    <3> QED BY <2>3, <3>1, <3>2
  <2> QED BY <1>1, <2>1, <2>2, <2>3
<1> QED BY <1>3 DEF ByTag

\* A node is moved inside a run: which groups stand where does not change.
LEMMA MoveInRun ==
    ASSUME NEW h, NEW l \in Seq(Nat), NEW i \in DOMAIN l, NEW j \in 1 .. i, NEW r,
           Moved(l, r, i, j), SameGroup(h, l, j, i)
    PROVE  \A k \in DOMAIN l : GroupIn(h, r[k]) = GroupIn(h, l[k])
<1>1. i \in Nat /\ j \in Nat /\ Len(l) \in Nat /\ DOMAIN l = 1 .. Len(l) /\ 1 <= j /\ j <= i
  BY NodesOfList
<1>2. \A k \in j .. i : GroupIn(h, l[k]) = GroupIn(h, l[j])
  BY DEF SameGroup
<1>3. ASSUME NEW k \in DOMAIN l PROVE GroupIn(h, r[k]) = GroupIn(h, l[k])
  <2>1. k \in Nat
    BY <1>1
  <2>2. CASE k < j \/ k > i
    <3>1. r[k] = l[k]
      BY <2>2 DEF Moved
    <3> QED BY <3>1
  <2>3. CASE k = j
    <3>1. r[k] = l[i] /\ i \in j .. i
      BY <1>1, <2>3 DEF Moved
    <3> QED BY <1>2, <2>3, <3>1
  <2>4. CASE k > j /\ k <= i
    <3>1. r[k] = l[k - 1]
      BY <2>4 DEF Moved
    <3>2. k - 1 \in j .. i /\ k \in j .. i
      BY <1>1, <2>1, <2>4
    <3> QED BY <1>2, <3>1, <3>2
  <2> QED BY <1>1, <2>1, <2>2, <2>3, <2>4
<1> QED BY <1>3

\* The node after place c is moved back to place j of its run, and the order up
\* to there is kept.
LEMMA InsertionKeepsRun ==
    ASSUME NEW h, NEW l \in Seq(Nat), NEW s \in DOMAIN l, NEW c \in DOMAIN l, NEW z \in DOMAIN l,
           ByGroup(h, l, 0, 0), InGroup(h, l, s, c, z), NEW j \in s .. c,
           j = s \/ TagIn(h, l[j]) <= TagIn(h, l[c + 1]),
           NEW r, Moved(l, r, c + 1, j)
    PROVE  ByGroup(h, r, 0, 0) /\ InGroup(h, r, s, j, z)
<1>1. /\ s \in Nat /\ c \in Nat /\ z \in Nat /\ j \in Nat /\ Len(l) \in Nat
      /\ DOMAIN l = 1 .. Len(l) /\ DOMAIN r = DOMAIN l /\ 1 <= s /\ s <= j /\ j <= c /\ c < z
      /\ z <= Len(l)
  <2>1. Len(l) \in Nat /\ DOMAIN l = 1 .. Len(l) /\ s \in 1 .. Len(l) /\ z \in 1 .. Len(l)
    BY NodesOfList
  <2>2. s <= c /\ c < z
    BY DEF InGroup
  <2>3. DOMAIN r = DOMAIN l
    BY DEF Moved
  <2>4. c \in 1 .. Len(l)
    BY <2>1
  <2> QED BY <2>1, <2>2, <2>3, <2>4
<1>0. /\ s \in Nat /\ c \in Nat /\ z \in Nat /\ j \in Nat /\ Len(l) \in Nat
      /\ 1 <= s /\ s <= j /\ j <= c /\ c < z /\ z <= Len(l)
  BY <1>1
<1>2. c + 1 \in DOMAIN l /\ j \in 1 .. c + 1
  BY <1>1
<1>3. SameGroup(h, l, s, z)
  BY DEF InGroup
<1>4. SameGroup(h, l, j, c + 1)
  <2>1. \A k \in j .. c + 1 : k \in s .. z
    BY <1>1
  <2>2. j \in s .. z
    BY <1>1
  <2> QED BY <1>3, <2>1, <2>2 DEF SameGroup
<1>5. \A k \in DOMAIN l : GroupIn(h, r[k]) = GroupIn(h, l[k])
  BY <1>2, <1>4, MoveInRun
<1>6. \A k \in DOMAIN l : k < j => r[k] = l[k]
  BY <1>2 DEF Moved
<1>7. r[j] = l[c + 1]
  BY DEF Moved
<1>8. ByGroup(h, r, 0, 0)
  BY <1>1, <1>5 DEF ByGroup
<1>9. SameGroup(h, r, s, z)
  <2>1. \A k \in s .. z : k \in DOMAIN l
    BY <1>1
  <2> QED BY <1>3, <1>5, <2>1 DEF SameGroup
<1>10. RunStarts(h, r, s) /\ RunStarts(h, r, z + 1)
  BY <1>1, <1>5 DEF RunStarts, InGroup
<1>11. RunsByTag(h, r, s)
  <2>1. ASSUME NEW a \in DOMAIN r, NEW b \in DOMAIN r, a < b, b < s, SameGroup(h, r, a, b)
        PROVE  TagIn(h, r[a]) <= TagIn(h, r[b])
    <3>0. a \in 1 .. Len(l) /\ b \in 1 .. Len(l)
      BY <1>1
    <3>1. a \in Nat /\ b \in Nat
      BY <3>0
    <3>4. a < j /\ b < j
      BY ONLY <1>0, <2>1, <3>1
    <3>2. r[a] = l[a] /\ r[b] = l[b]
      BY <1>1, <1>6, <3>4
    <3>3. SameGroup(h, l, a, b)
      <4>1. \A k \in a .. b : k \in DOMAIN l
        BY <1>1
      <4> QED BY <1>1, <1>5, <2>1, <4>1 DEF SameGroup
    <3> QED BY <1>1, <2>1, <3>2, <3>3 DEF InGroup, RunsByTag
  <2> QED BY <2>1 DEF RunsByTag
<1>12. ByTag(h, r, s, j)
  <2>0. \A n : TagIn(h, n) \in Nat
    BY TagsAreNumbers
  <2>1. \A a, b \in s .. c : a < b => TagIn(h, l[a]) <= TagIn(h, l[b])
    BY DEF InGroup, ByTag
  <2>2. ASSUME NEW a \in s .. j, NEW b \in s .. j, a < b
        PROVE  TagIn(h, r[a]) <= TagIn(h, r[b])
    <3>1. /\ a \in Nat /\ b \in Nat /\ a < j /\ a \in s .. c /\ b \in s .. c /\ j \in s .. c
          /\ a \in DOMAIN l /\ b \in DOMAIN l /\ a # b
      <4>1. a \in Nat /\ b \in Nat /\ s <= a /\ a <= j /\ s <= b /\ b <= j
        BY <1>0
      <4>2. a \in 1 .. Len(l) /\ b \in 1 .. Len(l)
        BY ONLY <1>0, <4>1
      <4>3. a < j /\ a # b
        BY ONLY <1>0, <2>2, <4>1
      <4>4. a \in s .. c /\ b \in s .. c /\ j \in s .. c
        BY ONLY <1>0, <4>1
      <4>5. a \in DOMAIN l /\ b \in DOMAIN l
        BY <1>1, <4>2
      <4> QED BY <4>1, <4>3, <4>4, <4>5
    <3>2. r[a] = l[a]
      BY <1>6, <3>1
    <3>3. CASE b < j
      <4>1. r[b] = l[b]
        BY <1>6, <3>1, <3>3
      <4> QED BY <2>1, <2>2, <3>1, <3>2, <4>1
    <3>4. CASE b = j
      <4>1. TagIn(h, l[a]) <= TagIn(h, l[j]) /\ j # s
        BY <1>1, <2>1, <2>2, <3>1, <3>4
      <4>2. TagIn(h, l[j]) <= TagIn(h, l[c + 1])
        BY <4>1
      <4>3. TagIn(h, l[a]) \in Nat /\ TagIn(h, l[j]) \in Nat /\ TagIn(h, l[c + 1]) \in Nat
        BY <2>0
      <4>4. TagIn(h, l[a]) <= TagIn(h, l[c + 1])
        BY <4>1, <4>2, <4>3
      <4> QED BY <1>7, <3>2, <3>4, <4>4
    <3> QED BY <1>1, <2>2, <3>1, <3>3, <3>4
  <2> QED BY <2>2 DEF ByTag
<1> QED BY <1>1, <1>8, <1>9, <1>10, <1>11, <1>12 DEF InGroup

LEMMA ResolveKeepsOrder == ASSUME ListInv, OrderInv, CmpResolveDriverDependencies PROVE OrderInv'
<1> DEFINE l == list
           h == hive
<1>1. /\ l \in Seq(Nat) /\ Distinct(l) /\ hive' = h /\ list' = l /\ entry # ListHead
      /\ ByGroup(h, l, 0, 0)
  BY DEF ListInv, OrderInv, CmpResolveDriverDependencies, Resolving
<1>2. PICK p \in 1 .. Len(l) + 1 :
         entry = NodeIn(l, p) /\ RunStarts(h, l, p) /\ RunsByTag(h, l, p)
  BY DEF OrderInv, CmpResolveDriverDependencies, Resolving
<1>3. p \in DOMAIN l /\ entry = l[p]
  BY <1>1, <1>2, NodeInPlace
<1>4. At(entry) = p
  BY <1>1, <1>3, AtItsPlace
<1> DEFINE z == RunEnd(p)
<1>5. /\ z \in p .. Len(l) /\ SameGroup(h, l, p, z)
      /\ z < Len(l) => GroupIn(h, l[z + 1]) # GroupIn(h, l[p])
  BY <1>1, <1>3, RunEndIsThere, ReadOfHive DEF SameGroup
<1>6. entry' = NodeIn(l, z + 1)
  BY <1>4 DEF CmpResolveDriverDependencies, NodeAt, NodeIn
<1>7. p = z => UNCHANGED <<phase, group>>
  BY <1>4 DEF CmpResolveDriverDependencies
<1>8. p # z => /\ phase' = "CmpOrderGroup"
               /\ group' = [start |-> entry, end |-> list[z], current |-> entry]
  BY <1>4 DEF CmpResolveDriverDependencies
<1>9. phase = "CmpResolveDriverDependencies"
  BY DEF CmpResolveDriverDependencies
<1> HIDE DEF z
<1>10. /\ z \in DOMAIN l /\ z \in Nat /\ p \in Nat /\ Len(l) \in Nat /\ DOMAIN l = 1 .. Len(l)
       /\ z + 1 \in 1 .. Len(l) + 1 /\ p <= z /\ z <= Len(l)
  BY <1>1, <1>3, <1>5, NodesOfList
<1>11. RunStarts(h, l, z + 1)
  <2>1. GroupIn(h, l[z]) = GroupIn(h, l[p])
    BY <1>5, <1>10 DEF SameGroup
  <2> QED BY <1>5, <1>10, <2>1 DEF RunStarts
<1>12. CASE p = z
  <2>1. RunsByTag(h, l, z + 1)
    BY <1>1, <1>2, <1>3, <1>12, LoneNodeIsOrdered
  <2>2. Resolving(h, l, entry')
    BY <1>1, <1>6, <1>10, <1>11, <2>1 DEF Resolving
  <2> QED BY <1>1, <1>7, <1>9, <1>12, <2>2 DEF OrderInv
<1>13. CASE p # z
  <2>1. ByTag(h, l, p, p)
    BY <1>10 DEF ByTag
  <2>2. InGroup(h, l, p, p, z)
    BY <1>2, <1>5, <1>10, <1>11, <1>13, <2>1 DEF InGroup
  <2>3. /\ group' \in [start : Nat, end : Nat, current : Nat]
        /\ group'.start = l[p] /\ group'.current = l[p] /\ group'.end = l[z]
    <3>1. l[p] \in Nat /\ l[z] \in Nat
      BY <1>1, <1>3, <1>10, NodesOfList
    <3> QED BY <1>3, <1>8, <1>13, <3>1
  <2>4. Ordering(h, l, entry', group')
    BY <1>1, <1>3, <1>6, <1>10, <2>2, <2>3 DEF Ordering
  <2> QED BY <1>1, <1>8, <1>13, <2>4 DEF OrderInv
<1> QED BY <1>12, <1>13

LEMMA FinishKeepsOrder == ASSUME ListInv, OrderInv, Finish PROVE OrderInv'
<1>1. /\ list \in Seq(Nat) /\ UNCHANGED <<hive, list>> /\ phase' = "done"
      /\ ByGroup(hive, list, 0, 0) /\ entry = ListHead
  BY DEF ListInv, OrderInv, Finish, Resolving
<1>2. PICK p \in 1 .. Len(list) + 1 : entry = NodeIn(list, p) /\ RunsByTag(hive, list, p)
  BY DEF OrderInv, Finish, Resolving
<1>3. p = Len(list) + 1
  BY <1>1, <1>2, NodeInPlace
<1> QED BY <1>1, <1>2, <1>3 DEF OrderInv

\* The turn that goes on: the node stays where it is.
LEMMA StayKeepsOrder ==
    ASSUME ListInv, OrderInv, CmpOrderGroup,
           NEW s \in DOMAIN list, NEW c \in DOMAIN list, NEW z \in DOMAIN list,
           group.end = list[z], group.start = list[s], entry = NodeIn(list, z + 1),
           group \in [start : Nat, end : Nat, current : Nat],
           InGroup(hive, list, s, c, z), ByGroup(hive, list, 0, 0), c + 1 \in DOMAIN list,
           group' = [group EXCEPT !.current = list[c + 1]], list' = list,
           ~Moves(list[c], list[c + 1])
    PROVE  OrderInv'
<1> DEFINE l == list
           h == hive
<1>1. /\ l \in Seq(Nat) /\ Distinct(l) /\ UNCHANGED <<hive, entry>> /\ phase = "CmpOrderGroup"
      /\ phase' = IF group'.current = group'.end THEN "CmpResolveDriverDependencies" ELSE phase
  BY DEF ListInv, CmpOrderGroup
<1>2. /\ s \in Nat /\ c \in Nat /\ z \in Nat /\ s <= c /\ c < z /\ s <= c + 1
      /\ Len(l) \in Nat /\ DOMAIN l = 1 .. Len(l) /\ z + 1 \in 1 .. Len(l) + 1
  <2>1. Len(l) \in Nat /\ DOMAIN l = 1 .. Len(l)
    BY <1>1, NodesOfList
  <2>2. s <= c /\ c < z
    BY DEF InGroup
  <2> QED BY <2>1, <2>2
<1>3. TagIn(h, l[c]) <= TagIn(h, l[c + 1])
  <2>1. ~(TagIn(h, l[c]) > TagIn(h, l[c + 1]))
    BY ReadOfHive DEF Moves
  <2>2. TagIn(h, l[c]) \in Nat /\ TagIn(h, l[c + 1]) \in Nat
    BY TagsAreNumbers
  <2> QED BY <2>1, <2>2
<1>4. ByTag(h, l, s, c + 1)
  <2>1. ByTag(h, l, s, c)
    BY DEF InGroup
  <2> QED BY <1>1, <1>2, <1>3, <2>1, OrderGrows
<1>5. /\ l[c + 1] \in Nat /\ group'.current = l[c + 1] /\ group'.end = l[z] /\ group'.start = l[s]
      /\ group' \in [start : Nat, end : Nat, current : Nat]
  <2>1. l[c + 1] \in Nat
    BY <1>1, NodesOfList
  <2> QED BY <2>1
<1>6. CASE c + 1 = z
  <2>1. RunsByTag(h, l, z + 1)
    BY <1>1, <1>4, <1>6, RunIsOrdered DEF InGroup
  <2>2. Resolving(h, l, entry)
    BY <1>1, <1>2, <2>1 DEF Resolving, InGroup
  <2> QED BY <1>1, <1>5, <1>6, <2>2 DEF OrderInv
<1>7. CASE c + 1 # z
  <2>1. InGroup(h, l, s, c + 1, z)
    BY <1>2, <1>4, <1>7 DEF InGroup
  <2>2. Ordering(h, l, entry, group')
    BY <1>5, <2>1 DEF Ordering
  <2>3. group'.current # group'.end
    BY <1>1, <1>5, <1>7 DEF Distinct
  <2> QED BY <1>1, <2>2, <2>3 DEF OrderInv
<1> QED BY <1>6, <1>7

\* The turn that puts a node further to the front, and goes on from there.
LEMMA InsertionKeepsOrder ==
    ASSUME ListInv, OrderInv, CmpOrderGroup,
           NEW s \in DOMAIN list, NEW c \in DOMAIN list, NEW z \in DOMAIN list, NEW j \in s .. c,
           group.end = list[z], group.start = list[s], entry = NodeIn(list, z + 1),
           group \in [start : Nat, end : Nat, current : Nat],
           InGroup(hive, list, s, c, z), ByGroup(hive, list, 0, 0), c + 1 \in DOMAIN list,
           j = s \/ TagOf(list[j]) <= TagOf(list[c + 1]),
           Inserted(list[c], list[c + 1], j)
    PROVE  OrderInv'
<1> DEFINE l == list
           h == hive
           r == list'
<1>1. /\ l \in Seq(Nat) /\ Distinct(l) /\ UNCHANGED <<hive, entry>> /\ phase = "CmpOrderGroup"
      /\ phase' = IF group'.current = group'.end THEN "CmpResolveDriverDependencies" ELSE phase
  BY DEF ListInv, CmpOrderGroup
<1>2. /\ s \in Nat /\ c \in Nat /\ z \in Nat /\ j \in Nat /\ s <= j /\ j <= c /\ c < z /\ 1 <= s
      /\ Len(l) \in Nat /\ DOMAIN l = 1 .. Len(l) /\ j \in 1 .. c + 1
  <2>1. Len(l) \in Nat /\ DOMAIN l = 1 .. Len(l)
    BY <1>1, NodesOfList
  <2>2. s <= c /\ c < z
    BY DEF InGroup
  <2> QED BY <2>1, <2>2
<1>3. Moved(l, r, c + 1, j)
  <2>1. r = MovedTo(l, c + 1, j)
    BY <1>1, AtItsPlace DEF Inserted
  <2> QED BY <1>1, <1>2, <2>1, MovedToMoves
<1>4. ByGroup(h, r, 0, 0) /\ InGroup(h, r, s, j, z)
  <2>1. j = s \/ TagIn(h, l[j]) <= TagIn(h, l[c + 1])
    BY ReadOfHive
  <2> QED BY <1>1, <1>3, <2>1, InsertionKeepsRun
<1>5. r \in Seq(Nat) /\ DOMAIN r = DOMAIN l /\ Distinct(r)
  BY <1>1, <1>2, <1>3, MoveKeepsNodes DEF Moved
<1>6. r[j] = l[c + 1] /\ (\A k \in DOMAIN l : k < j \/ k > c + 1 => r[k] = l[k])
  <2>1. r[j] = l[c + 1]
    BY <1>3 DEF Moved
  <2> QED BY <1>1, <1>2, <1>3, <2>1 DEF Moved
<1>7. /\ group'.start = IF l[j] = l[s] THEN l[c + 1] ELSE l[s]
      /\ group'.end = IF l[c + 1] = l[z] THEN l[c] ELSE l[z]
      /\ group'.current = l[c + 1]
      /\ group' \in [start : Nat, end : Nat, current : Nat]
  <2>1. l[c + 1] \in Nat /\ l[c] \in Nat
    BY <1>1, NodesOfList
  <2> QED BY <2>1 DEF Inserted
<1>8. group'.current = r[j]
  BY <1>6, <1>7
<1>9. group'.start = r[s]
  <2>1. CASE j = s
    BY <1>6, <1>7, <2>1
  <2>2. CASE j # s
    <3>1. j \in DOMAIN l /\ s < j
      BY <1>2, <2>2
    <3>2. l[j] # l[s]
      BY <1>1, <2>2, <3>1 DEF Distinct
    <3> QED BY <1>6, <1>7, <3>1, <3>2
  <2> QED BY <2>1, <2>2
<1>10. group'.end = r[z]
  <2>1. CASE c + 1 = z
    <3>1. j < c + 1 /\ (c + 1) - 1 = c
      BY <1>2
    <3>2. r[c + 1] = l[(c + 1) - 1]
      BY <1>1, <1>2, <1>3, <3>1 DEF Moved
    <3> QED BY <1>7, <2>1, <3>1, <3>2
  <2>2. CASE c + 1 # z
    <3>1. l[c + 1] # l[z] /\ z > c + 1
      BY <1>1, <1>2, <2>2 DEF Distinct
    <3> QED BY <1>6, <1>7, <3>1
  <2> QED BY <2>1, <2>2
<1>11. entry' = NodeIn(r, z + 1)
  <2>1. z + 1 > c + 1
    BY <1>2
  <2> QED BY <1>1, <1>5, <1>6, <2>1 DEF NodeIn
<1>12. j \in DOMAIN r /\ s \in DOMAIN r /\ z \in DOMAIN r
  BY <1>2, <1>5
<1>13. Ordering(h, r, entry', group')
  BY <1>4, <1>7, <1>8, <1>9, <1>10, <1>11, <1>12 DEF Ordering
<1>14. group'.current # group'.end
  <2>1. j # z
    BY <1>2
  <2> QED BY <1>5, <1>8, <1>10, <1>12, <2>1 DEF Distinct
<1> QED BY <1>1, <1>13, <1>14 DEF OrderInv

\* What a turn of CmpOrderGroup starts from.
LEMMA TurnOfGroup ==
    ASSUME ListInv, OrderInv, CmpOrderGroup
    PROVE  \E s, c, z \in DOMAIN list :
              /\ group.start = list[s] /\ group.current = list[c] /\ group.end = list[z]
              /\ entry = NodeIn(list, z + 1) /\ InGroup(hive, list, s, c, z)
              /\ c + 1 \in DOMAIN list /\ c \in Nat /\ s \in 1 .. c
              /\ NodeAt(At(list[c]) + 1) = list[c + 1]
              /\ At(list[c]) = c /\ At(list[c + 1]) = c + 1 /\ At(list[s]) = s
<1>1. list \in Seq(Nat) /\ Distinct(list)
  BY DEF ListInv
<1>2. PICK s, c, z \in DOMAIN list :
         /\ group.start = list[s] /\ group.current = list[c] /\ group.end = list[z]
         /\ entry = NodeIn(list, z + 1) /\ InGroup(hive, list, s, c, z)
  BY DEF OrderInv, CmpOrderGroup, Ordering
<1>3. c + 1 \in DOMAIN list /\ c \in Nat /\ s \in 1 .. c
  <2>1. Len(list) \in Nat /\ DOMAIN list = 1 .. Len(list)
    BY <1>1, NodesOfList
  <2>2. s <= c /\ c < z
    BY <1>2 DEF InGroup
  <2> QED BY <2>1, <2>2
<1>4. At(list[c]) = c /\ At(list[c + 1]) = c + 1 /\ At(list[s]) = s
  BY <1>1, <1>3, AtItsPlace
<1>5. NodeAt(At(list[c]) + 1) = list[c + 1]
  BY <1>3, <1>4 DEF NodeAt
<1> QED BY <1>2, <1>3, <1>4, <1>5

LEMMA OrderGroupKeepsOrder == ASSUME ListInv, OrderInv, CmpOrderGroup PROVE OrderInv'
<1>1. PICK s, c, z \in DOMAIN list :
         /\ group.start = list[s] /\ group.current = list[c] /\ group.end = list[z]
         /\ entry = NodeIn(list, z + 1) /\ InGroup(hive, list, s, c, z)
         /\ c + 1 \in DOMAIN list /\ c \in Nat /\ s \in 1 .. c
         /\ NodeAt(At(list[c]) + 1) = list[c + 1]
         /\ At(list[c]) = c /\ At(list[c + 1]) = c + 1 /\ At(list[s]) = s
  BY TurnOfGroup
<1>2. ByGroup(hive, list, 0, 0) /\ group \in [start : Nat, end : Nat, current : Nat]
  BY DEF OrderInv, CmpOrderGroup, Ordering
<1>3. CASE ~Moves(list[c], list[c + 1])
  <2>1. group' = [group EXCEPT !.current = list[c + 1]] /\ list' = list
    BY <1>1, <1>3 DEF CmpOrderGroup
  <2> QED BY <1>1, <1>2, <1>3, <2>1, StayKeepsOrder
<1>4. CASE Moves(list[c], list[c + 1])
  <2> DEFINE j == ScanBack(c, list[c + 1])
  <2>1. Inserted(list[c], list[c + 1], j)
    BY <1>1, <1>4 DEF CmpOrderGroup
  <2>2. j \in s .. c /\ (j = s \/ TagOf(list[j]) <= TagOf(list[c + 1]))
    BY <1>1, ScanBackStops
  <2> HIDE DEF j
  <2> QED BY <1>1, <1>2, <2>1, <2>2, InsertionKeepsOrder
<1> QED BY <1>3, <1>4

LEMMA MovesOfGroup ==
    ASSUME ListInv, OrderInv, CmpOrderGroup
    PROVE  \/ list' = list
           \/ \E i \in DOMAIN list : \E j \in 1 .. i : list' = MovedTo(list, i, j)
<1>1. PICK s, c, z \in DOMAIN list :
         /\ group.start = list[s] /\ group.current = list[c] /\ group.end = list[z]
         /\ c + 1 \in DOMAIN list /\ c \in Nat /\ s \in 1 .. c
         /\ NodeAt(At(list[c]) + 1) = list[c + 1]
         /\ At(list[c]) = c /\ At(list[c + 1]) = c + 1 /\ At(list[s]) = s
  BY TurnOfGroup
<1>2. CASE Moves(list[c], list[c + 1])
  <2> DEFINE j == ScanBack(c, list[c + 1])
  <2>1. Inserted(list[c], list[c + 1], j)
    BY <1>1, <1>2 DEF CmpOrderGroup
  <2>2. j \in s .. c
    BY <1>1, ScanBackStops
  <2> HIDE DEF j
  <2>3. j \in 1 .. c + 1
    BY <1>1, <2>2
  <2> QED BY <1>1, <2>1, <2>3 DEF Inserted
<1> QED BY <1>1, <1>2 DEF CmpOrderGroup

------------------------------------------------------------------------------
(* The theorems.                                                              *)

Inv == ListInv /\ OrderInv

LEMMA InvInit == Init => Inv
<1> SUFFICES ASSUME Init PROVE Inv
  OBVIOUS
<1>1. HiveOk(hive) /\ list = <<>> /\ dropped = {} /\ subkey = 1 /\ phase = "CmpFindControlSet"
  BY HiveAssumption DEF Init, HiveOk
<1>2. list \in Seq(Nat) /\ Distinct(list)
  BY <1>1 DEF Distinct
<1> QED BY <1>1, <1>2 DEF Inv, ListInv, OrderInv, Collected

LEMMA InvNext == Inv /\ [Next]_vars => Inv'
<1> SUFFICES ASSUME Inv, [Next]_vars PROVE Inv'
  OBVIOUS
<1> USE DEF Inv
<1>1. CASE CmpFindControlSet
  <2>1. OrderInv'
    BY <1>1 DEF CmpFindControlSet, Fail, OrderInv
  <2> QED BY <1>1, <2>1, ControlSetKeepsList
<1>2. CASE CmpFindNLSData
  <2>1. OrderInv'
    BY <1>2 DEF CmpFindNLSData, Fail, OrderInv
  <2> QED BY <1>2, <2>1, NLSDataKeepsList
<1>3. CASE FindDriver
  <2>1. OrderInv'
    BY <1>3 DEF FindDriver, OrderInv
  <2> QED BY <1>3, <2>1, FindDriverKeepsList
<1>4. CASE NoServices
  <2>1. OrderInv'
    BY <1>4 DEF NoServices, Fail, OrderInv
  <2> QED BY <1>4, <2>1, NoServicesKeepsList
<1>5. CASE AddBootFileSystem
  <2>1. OrderInv'
    BY <1>5 DEF AddBootFileSystem, OrderInv
  <2> QED BY <1>5, <2>1, AddFileSystemKeepsList
<1>6. CASE CmpSortDriverList
  <2>1. ListInv'
    BY <1>6, MovingKeepsList DEF CmpSortDriverList, Fail, Ordered
  <2>2. list \in Seq(Nat)
    BY DEF ListInv
  <2>3. OrderInv'
    BY <1>6, <2>2, SortBegins DEF CmpSortDriverList, Fail, OrderInv
  <2> QED BY <2>1, <2>3
<1>7. CASE CmpDoSort
  <2>1. list' = list \/ (\E i \in DOMAIN list : \E j \in 1 .. i : list' = MovedTo(list, i, j))
    <3>1. list \in Seq(Nat) /\ Distinct(list)
      BY DEF ListInv
    <3>2. PICK p \in 1 .. Len(list) + 1 : entry = NodeIn(list, p)
      BY <1>7 DEF OrderInv, CmpDoSort, Sorting
    <3>3. p \in DOMAIN list /\ At(entry) = p
      BY <1>7, <3>1, <3>2, NodeInPlace, AtItsPlace DEF CmpDoSort
    <3>4. 1 \in 1 .. p
      BY <3>1, <3>3, NodesOfList
    <3> QED BY <1>7, <3>3, <3>4 DEF CmpDoSort
  <2>2. ListInv'
    BY <1>7, <2>1, MovingKeepsList DEF CmpDoSort, Ordered
  <2> QED BY <1>7, <2>2, DoSortKeepsOrder
<1>8. CASE NextGroup
  <2>1. ListInv'
    BY <1>8, MovingKeepsList DEF NextGroup, Ordered
  <2> QED BY <1>8, <2>1, NextGroupKeepsOrder
<1>9. CASE Sorted
  <2>1. ListInv'
    BY <1>9, MovingKeepsList DEF Sorted, Ordered
  <2> QED BY <1>9, <2>1, SortedKeepsOrder
<1>10. CASE CmpResolveDriverDependencies
  <2>1. phase' \in Ordered
    BY <1>10 DEF CmpResolveDriverDependencies, Ordered
  <2>2. ListInv'
    BY <1>10, <2>1, MovingKeepsList DEF CmpResolveDriverDependencies, Ordered
  <2> QED BY <1>10, <2>2, ResolveKeepsOrder
<1>11. CASE CmpOrderGroup
  <2>1. phase' \in Ordered
    BY <1>11 DEF CmpOrderGroup, Ordered
  <2>2. ListInv'
    BY <1>11, <2>1, MovesOfGroup, MovingKeepsList DEF CmpOrderGroup, Ordered
  <2> QED BY <1>11, <2>2, OrderGroupKeepsOrder
<1>12. CASE Finish
  <2>1. ListInv'
    BY <1>12, MovingKeepsList DEF Finish, Ordered
  <2> QED BY <1>12, <2>1, FinishKeepsOrder
<1>13. CASE UNCHANGED vars
  BY <1>13 DEF vars, ListInv, OrderInv, Collected
<1> QED BY <1>1, <1>2, <1>3, <1>4, <1>5, <1>6, <1>7, <1>8, <1>9, <1>10, <1>11, <1>12, <1>13 DEF Next

LEMMA InvHolds == Spec => []Inv
BY InvInit, InvNext, PTL DEF Spec

\* From the end of CmpFindDrivers on, through every move of a node, the list is
\* the set of the boot drivers and the boot file system the heap had room for.
THEOREM NoDriverIsLost == Spec => []NoDriverLost
<1>1. Inv => NoDriverLost
  <2> SUFFICES ASSUME Inv, Collected PROVE NoDriverLost
    BY DEF NoDriverLost
  <2>1. {n \in DOMAIN hive.services : CmpIsLoadType(n)} = Boots(hive)
    BY LoadTypeIsBoot DEF Inv, ListInv, Boots
  <2> QED BY <2>1 DEF Inv, ListInv, NoDriverLost, RightList
<1> QED BY <1>1, InvHolds, PTL

\* CmpDoSort and CmpOrderGroup leave the list in the order of the groups, and
\* each group in the order of the tags, for any services, groups and vectors.
THEOREM ListEndsOrdered == Spec => []ListOrdered
<1>1. Inv => ListOrdered
  <2> SUFFICES ASSUME Inv, phase = "done", NEW i \in DOMAIN list, NEW j \in DOMAIN list, i < j
               PROVE  /\ PlaceOf(GroupOf(list[i])) <= PlaceOf(GroupOf(list[j]))
                      /\ (\A k \in i .. j : GroupOf(list[k]) = GroupOf(list[i]))
                            => TagOf(list[i]) <= TagOf(list[j])
    BY DEF ListOrdered
  <2>1. ByGroup(hive, list, 0, 0) /\ RunsByTag(hive, list, Len(list) + 1) /\ list \in Seq(Nat)
    BY DEF Inv, ListInv, OrderInv
  <2>2. 0 < i /\ j < Len(list) + 1
    BY <2>1, NodesOfList
  <2>3. Place(GroupIn(hive, list[i]), 0) <= Place(GroupIn(hive, list[j]), 0)
    BY <2>1, <2>2 DEF ByGroup
  <2>4. SameGroup(hive, list, i, j) => TagIn(hive, list[i]) <= TagIn(hive, list[j])
    BY <2>1, <2>2 DEF RunsByTag
  <2> QED BY <2>3, <2>4, PlaceIsPlaceOf, ReadOfHive DEF SameGroup
<1> QED BY <1>1, InvHolds, PTL

==============================================================================
