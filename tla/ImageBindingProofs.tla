-------------------------- MODULE ImageBindingProofs --------------------------
(***************************************************************************)
(* Whatever images there are and however they import each other: each is   *)
(* loaded and listed once, thunks are bound once and as named, and the     *)
(* list handed over is complete.  A step that fails keeps what was bound;  *)
(* for the others the invariant says, for every thunk, whether the scan    *)
(* is past it.                                                             *)
(***************************************************************************)
EXTENDS ImageBinding, FiniteSetTheorems, TLAPS

Frames == [image : Images, at : Nat \ {0}]
Imports(x) == disk[x].imports
DllAt(p) == Imports(p[1])[p[2]].dll

-----------------------------------------------------------------------------
(* The invariant.                                                          *)

Scanning == {"scan", "bind", "search"}

Phase ==
    /\ pc \in {"load_kernel", "load_hal", "enter_kernel"} => list = <<>>
    /\ pc = "enter_hal" => list = <<Kernel>>
    /\ pc \in {"scan_kernel", "scan_hal", "done"} \cup Scanning =>
          Len(list) >= 2 /\ list[1] = Kernel /\ list[2] = Hal
    /\ stack # <<>> <=> pc \in Scanning
    /\ pc \in {"load_kernel", "load_hal", "enter_kernel", "enter_hal", "scan_kernel",
               "scan_hal", "done"} \cup Scanning

\* An image that was loaded is on the list or about to be put there.
LoadedListed ==
    \A x \in Images :
        \/ loads[x] = 0
        \/ x \in Listed
        \/ x = Kernel /\ pc \in {"load_hal", "enter_kernel"}
        \/ x = Hal /\ pc \in {"enter_kernel", "enter_hal"}

\* The activations: each but the last stands at the descriptor for the next.
Chain ==
    /\ stack # <<>> => stack[1].image \in {Kernel, Hal}
    /\ \A k \in DOMAIN stack : stack[k].image \in Listed \ Unscanned
    /\ \A k \in DOMAIN stack :
          k < Len(stack) =>
              /\ stack[k].at <= Len(Imports(stack[k].image))
              /\ Imports(stack[k].image)[stack[k].at].dll = stack[k + 1].image

InHand ==
    pc \in {"bind", "search"} =>
        AtDescriptor /\ Descriptor.dll \in Listed /\ Descriptor.dll # Top.image

\* Where the name is, if anywhere, the search has not passed.
Narrowed ==
    pc = "search" =>
        /\ thunk <= Len(Descriptor.thunks) /\ Thunk.kind = "name" /\ Exports # NoExports
        /\ \A k \in 0 .. (Names - 1) :
              NameTable(k) = Thunk.symbol => low <= k /\ k <= high

\* The scan is past the thunk p.
Passed(p, k) ==
    \/ p[2] < stack[k].at
    \/ p[2] = stack[k].at /\ k = Len(stack) /\ pc # "scan" /\ p[3] < thunk

Behind(p) ==
    /\ p[1] \in Listed \ Unscanned
    /\ \A k \in Active(p[1]) : Passed(p, k)

BoundBehind ==
    \A p \in Places(disk) : iat[p] # Raw <=> Behind(p) /\ DllAt(p) # p[1]

\* What the scan is past imports from the list.
ImportsListed ==
    \A x \in Listed \ Unscanned : \A i \in DOMAIN Imports(x) :
        (\A k \in Active(x) : i < stack[k].at) => Imports(x)[i].dll \in Listed

Reached ==
    \A set \in SUBSET Images :
        {Kernel, Hal} \subseteq set /\ Needed(set) \subseteq set => Listed \subseteq set

\* The references to an image on the list are counted.
Own(x) == IF x \in {Kernel, Hal} THEN 1 ELSE 0

Counting ==
    \A x \in Listed :
        IsFiniteSet(References(x)) /\ count[x] = Cardinality(References(x)) + Own(x)

Working ==
    /\ Phase /\ LoadedListed /\ Chain /\ InHand /\ Narrowed
    /\ BoundBehind /\ ImportsListed /\ Reached /\ Counting

Inv == TypeOK /\ EachOnce /\ BoundAsNamed /\ (pc # "failed" => Working)

-----------------------------------------------------------------------------
(* What the disk has, and how the stack moves.                             *)

LEMMA ElementIn ==
    ASSUME NEW S, NEW s \in Seq(S), NEW i \in DOMAIN s
    PROVE  s[i] \in S /\ i \in 1 .. Len(s)
OBVIOUS

LEMMA ImportsTyped ==
    ASSUME TypeOK
    PROVE  /\ \A x \in Images : Imports(x) \in Seq([dll : Images, thunks : Seq(Thunks)])
           /\ \A x \in Images :
                 /\ Len(Imports(x)) \in Nat
                 /\ DOMAIN Imports(x) = 1 .. Len(Imports(x))
                 /\ \A i \in DOMAIN Imports(x) :
                       i \in Nat /\ 1 <= i /\ i <= Len(Imports(x))
           /\ \A x \in Images : \A i \in DOMAIN Imports(x) :
                 /\ Imports(x)[i].dll \in Images
                 /\ Imports(x)[i].thunks \in Seq(Thunks)
<1>1. \A x \in Images : Imports(x) \in Seq([dll : Images, thunks : Seq(Thunks)])
  BY DiskAssumption DEF TypeOK, Imports
<1>2. ASSUME NEW x \in Images
      PROVE  /\ Len(Imports(x)) \in Nat
             /\ DOMAIN Imports(x) = 1 .. Len(Imports(x))
             /\ \A i \in DOMAIN Imports(x) :
                   i \in Nat /\ 1 <= i /\ i <= Len(Imports(x))
  <2> DEFINE s == Imports(x)
  <2>1. s \in Seq([dll : Images, thunks : Seq(Thunks)])
    BY <1>1
  <2> HIDE DEF s
  <2>2. Len(s) \in Nat /\ DOMAIN s = 1 .. Len(s)
    BY <2>1
  <2>3. \A i \in DOMAIN s : i \in Nat /\ 1 <= i /\ i <= Len(s)
    BY <2>2
  <2> QED BY <2>2, <2>3 DEF s
<1>3. \A x \in Images : \A i \in DOMAIN Imports(x) :
         Imports(x)[i] \in [dll : Images, thunks : Seq(Thunks)]
  BY <1>1, ElementIn, Zenon
<1> QED BY <1>1, <1>2, <1>3

LEMMA ExportsTyped ==
    ASSUME TypeOK, NEW x \in Images, disk[x].exports # NoExports
    PROVE  LET exports == disk[x].exports
           IN  /\ exports \in Directories /\ Sorted(exports.names)
               /\ Len(exports.ordinals) = Len(exports.names)
               /\ exports.base + exports.functions <= Word
BY DiskAssumption, Zenon DEF TypeOK

LEMMA PlacesAre ==
    /\ \A p \in Places(disk) :
          /\ p[1] \in Images /\ p[2] \in DOMAIN Imports(p[1])
          /\ p[3] \in DOMAIN Imports(p[1])[p[2]].thunks
          /\ p = <<p[1], p[2], p[3]>>
    /\ \A x \in Images : \A i \in DOMAIN Imports(x) :
          \A t \in DOMAIN Imports(x)[i].thunks : <<x, i, t>> \in Places(disk)
<1>1. ASSUME NEW p
      PROVE  p \in Places(disk) <=>
                \E x \in Images : \E i \in DOMAIN Imports(x) :
                    \E t \in DOMAIN Imports(x)[i].thunks : p = <<x, i, t>>
  <2> DEFINE Of(x, i) == {<<x, i, t>> : t \in DOMAIN Imports(x)[i].thunks}
             From(x) == UNION {Of(x, i) : i \in DOMAIN Imports(x)}
  <2>1. Places(disk) = UNION {From(x) : x \in Images}
    BY Zenon DEF Places, Imports
  <2>2. p \in Places(disk) <=> \E x \in Images : p \in From(x)
    <3> HIDE DEF From
    <3> QED BY <2>1, Zenon
  <2>3. \A x \in Images : p \in From(x) <=> \E i \in DOMAIN Imports(x) : p \in Of(x, i)
    <3> HIDE DEF Of
    <3> QED BY Zenon
  <2>4. \A x \in Images : \A i \in DOMAIN Imports(x) :
           p \in Of(x, i) <=> \E t \in DOMAIN Imports(x)[i].thunks : p = <<x, i, t>>
    BY Zenon
  <2> HIDE DEF From, Of
  <2> QED BY <2>2, <2>3, <2>4, Zenon
<1>2. ASSUME NEW p \in Places(disk)
      PROVE  /\ p[1] \in Images /\ p[2] \in DOMAIN Imports(p[1])
             /\ p[3] \in DOMAIN Imports(p[1])[p[2]].thunks
             /\ p = <<p[1], p[2], p[3]>>
  <2>1. PICK x \in Images : \E i \in DOMAIN Imports(x) :
                \E t \in DOMAIN Imports(x)[i].thunks : p = <<x, i, t>>
    BY <1>1
  <2>2. PICK i \in DOMAIN Imports(x) :
                \E t \in DOMAIN Imports(x)[i].thunks : p = <<x, i, t>>
    BY <2>1
  <2>3. PICK t \in DOMAIN Imports(x)[i].thunks : p = <<x, i, t>>
    BY <2>2
  <2>4. p[1] = x /\ p[2] = i /\ p[3] = t
    BY <2>3
  <2> QED BY <2>3, <2>4
<1> QED BY <1>1, <1>2

LEMMA PlaceIndices ==
    ASSUME TypeOK, NEW p \in Places(disk)
    PROVE  /\ p[2] \in Nat /\ 1 <= p[2] /\ p[2] <= Len(Imports(p[1]))
           /\ p[3] \in Nat /\ 1 <= p[3] /\ p[3] <= Len(Imports(p[1])[p[2]].thunks)
<1>1. /\ p[1] \in Images /\ p[2] \in DOMAIN Imports(p[1])
      /\ p[3] \in DOMAIN Imports(p[1])[p[2]].thunks
  BY PlacesAre, Zenon
<1>2. p[2] \in Nat /\ 1 <= p[2] /\ p[2] <= Len(Imports(p[1]))
  BY <1>1, ImportsTyped, Zenon
<1>3. Imports(p[1])[p[2]].thunks \in Seq(Thunks)
  BY <1>1, ImportsTyped, Zenon
<1>4. p[3] \in 1 .. Len(Imports(p[1])[p[2]].thunks)
  BY <1>1, <1>3, ElementIn, Zenon
<1>5. Len(Imports(p[1])[p[2]].thunks) \in Nat
  <2> DEFINE s == Imports(p[1])[p[2]].thunks
  <2>1. s \in Seq(Thunks)
    BY <1>3
  <2> HIDE DEF s
  <2>2. Len(s) \in Nat
    BY <2>1
  <2> QED BY <2>2 DEF s
<1> QED BY <1>2, <1>4, <1>5

LEMMA NeededAre ==
    ASSUME NEW set, NEW y
    PROVE  y \in Needed(set) <=>
              \E x \in set : \E i \in DOMAIN Imports(x) : y = Imports(x)[i].dll
<1> DEFINE Of(x) == {Imports(x)[i].dll : i \in DOMAIN Imports(x)}
<1>1. Needed(set) = UNION {Of(x) : x \in set}
  BY Zenon DEF Needed, Imports
<1>2. y \in Needed(set) <=> \E x \in set : y \in Of(x)
  <2> HIDE DEF Of
  <2> QED BY <1>1, Zenon
<1> QED BY <1>2, Zenon

LEMMA Advanced ==
    ASSUME stack \in Seq(Frames), stack # <<>>, NextDescriptor
    PROVE  /\ stack' \in Seq(Frames) /\ Len(stack') = Len(stack) /\ stack' # <<>>
           /\ DOMAIN stack' = DOMAIN stack /\ Len(stack) \in DOMAIN stack
           /\ \A k \in DOMAIN stack : stack'[k].image = stack[k].image
           /\ \A k \in DOMAIN stack : k # Len(stack) => stack'[k] = stack[k]
           /\ stack'[Len(stack)].at = Top.at + 1
<1> DEFINE n == Len(stack)
<1>1. n \in Nat \ {0} /\ DOMAIN stack = 1 .. n /\ stack[n] \in Frames
  OBVIOUS
<1>2. stack' = [stack EXCEPT ![n] = [image |-> stack[n].image, at |-> stack[n].at + 1]]
  BY Zenon DEF NextDescriptor, Top
<1>3. [image |-> stack[n].image, at |-> stack[n].at + 1] \in Frames
  BY <1>1 DEF Frames
<1>4. stack' \in Seq(Frames) /\ Len(stack') = n
  BY <1>1, <1>2, <1>3
<1>5. \A k \in DOMAIN stack : k # n => stack'[k] = stack[k]
  BY <1>1, <1>2
<1>6. stack'[n] = [image |-> stack[n].image, at |-> stack[n].at + 1]
  BY <1>1, <1>2
<1> QED BY <1>1, <1>4, <1>5, <1>6 DEF Top

LEMMA Pushed ==
    ASSUME stack \in Seq(Frames), NEW x \in Images, stack' = Append(stack, Activation(x))
    PROVE  /\ stack' \in Seq(Frames) /\ Len(stack') = Len(stack) + 1 /\ stack' # <<>>
           /\ DOMAIN stack' = DOMAIN stack \cup {Len(stack) + 1}
           /\ \A k \in DOMAIN stack : stack'[k] = stack[k]
           /\ stack'[Len(stack) + 1] = [image |-> x, at |-> 1]
<1>1. [image |-> x, at |-> 1] \in Frames
  BY DEF Frames
<1> QED BY <1>1 DEF Activation

LEMMA Popped ==
    ASSUME stack \in Seq(Frames), stack # <<>>, stack' = Callers
    PROVE  /\ stack' \in Seq(Frames) /\ Len(stack') = Len(stack) - 1
           /\ DOMAIN stack = DOMAIN stack' \cup {Len(stack)}
           /\ Len(stack) \notin DOMAIN stack'
           /\ \A k \in DOMAIN stack' : stack'[k] = stack[k]
           /\ Callers # <<>> <=> Len(stack) > 1
<1> DEFINE n == Len(stack)
<1>1. n \in Nat \ {0} /\ DOMAIN stack = 1 .. n
  OBVIOUS
<1>2. Callers = [k \in 1 .. (n - 1) |-> stack[k]]
  BY <1>1 DEF Callers
<1>3. \A k \in 1 .. (n - 1) : stack[k] \in Frames
  BY <1>1
<1>4. Callers \in Seq(Frames) /\ Len(Callers) = n - 1
  BY <1>1, <1>2, <1>3
<1>5. DOMAIN Callers = 1 .. (n - 1) /\ \A k \in DOMAIN Callers : Callers[k] = stack[k]
  BY <1>1, <1>2
<1> QED BY <1>1, <1>4, <1>5

LEMMA Entered ==
    ASSUME list \in Seq(Images), NEW x \in Images, list' = Append(list, x)
    PROVE  /\ list' \in Seq(Images) /\ Len(list') = Len(list) + 1
           /\ DOMAIN list' = DOMAIN list \cup {Len(list) + 1}
           /\ \A k \in DOMAIN list : list'[k] = list[k]
           /\ list'[Len(list) + 1] = x
           /\ Listed' = Listed \cup {x}
<1>1. /\ list' \in Seq(Images) /\ Len(list') = Len(list) + 1
      /\ DOMAIN list' = DOMAIN list \cup {Len(list) + 1}
      /\ \A k \in DOMAIN list : list'[k] = list[k]
      /\ list'[Len(list) + 1] = x
  OBVIOUS
<1>2. ASSUME NEW y
      PROVE  y \in Listed' <=> y \in Listed \cup {x}
  BY <1>1 DEF Listed
<1>3. Listed' = Listed \cup {x}
  BY <1>2, Zenon
<1> QED BY <1>1, <1>3

LEMMA ListedAre ==
    ASSUME TypeOK
    PROVE  /\ Listed \subseteq Images
           /\ \A x \in Images : OnList(x) <=> x \in Listed
BY DEF TypeOK, Listed, OnList

LEMMA SameDisk ==
    ASSUME disk' = disk
    PROVE  /\ Places(disk)' = Places(disk)
           /\ \A p : Resolutions(p)' = Resolutions(p) /\ DllAt(p)' = DllAt(p)
           /\ \A x : Imports(x)' = Imports(x)
           /\ \A set : Needed(set)' = Needed(set)
<1>1. Places(disk)' = Places(disk)
  OBVIOUS
<1>2. ASSUME NEW p PROVE Resolutions(p)' = Resolutions(p)
  BY DEF Resolutions
<1>3. ASSUME NEW p PROVE DllAt(p)' = DllAt(p)
  BY Zenon DEF DllAt, Imports
<1>4. ASSUME NEW x PROVE Imports(x)' = Imports(x)
  BY Zenon DEF Imports
<1>5. ASSUME NEW set PROVE Needed(set)' = Needed(set)
  BY DEF Needed
<1> QED BY <1>1, <1>2, <1>3, <1>4, <1>5, Zenon

-----------------------------------------------------------------------------
(* The load counts.                                                        *)

LEMMA CountedAre ==
    ASSUME NEW y, NEW i
    PROVE  i \in Counted(y) <=>
              /\ y \notin Unscanned /\ i \in DOMAIN Imports(y)
              /\ \A k \in Active(y) : \/ i < stack[k].at
                                      \/ i = stack[k].at /\ (k < Len(stack) \/ pc # "scan")
BY Zenon DEF Counted, Imports

LEMMA CountedNext ==
    ASSUME disk' = disk, NEW y, NEW i
    PROVE  i \in Counted(y)' <=>
              /\ y \notin Unscanned' /\ i \in DOMAIN Imports(y)
              /\ \A k \in Active(y)' : \/ i < stack'[k].at
                                       \/ i = stack'[k].at /\ (k < Len(stack') \/ pc' # "scan")
<1>1. (i \in Counted(y) <=>
          /\ y \notin Unscanned /\ i \in DOMAIN Imports(y)
          /\ \A k \in Active(y) : \/ i < stack[k].at
                                  \/ i = stack[k].at /\ (k < Len(stack) \/ pc # "scan"))'
  BY CountedAre, PTL
<1> QED BY <1>1, SameDisk, Zenon

LEMMA ReferencesAre ==
    ASSUME NEW x, NEW z
    PROVE  z \in References(x) <=>
              \E y \in Listed : \E i \in Counted(y) :
                  y # x /\ Imports(y)[i].dll = x /\ z = <<y, i>>
<1> DEFINE From(y) == {<<y, i>> : i \in {n \in Counted(y) : Imports(y)[n].dll = x}}
<1>1. References(x) = UNION {From(y) : y \in Listed \ {x}}
  BY Zenon DEF References, Listed, Imports
<1>2. z \in References(x) <=> \E y \in Listed \ {x} : z \in From(y)
  <2> HIDE DEF From
  <2> QED BY <1>1, Zenon
<1>3. \A y : z \in From(y) <=>
         \E i \in Counted(y) : Imports(y)[i].dll = x /\ z = <<y, i>>
  BY Zenon
<1> HIDE DEF From
<1> QED BY <1>2, <1>3

LEMMA ReferencesNext ==
    ASSUME disk' = disk, NEW x, NEW z
    PROVE  z \in References(x)' <=>
              \E y \in Listed' : \E i \in Counted(y)' :
                  y # x /\ Imports(y)[i].dll = x /\ z = <<y, i>>
<1>1. (z \in References(x) <=>
          \E y \in Listed : \E i \in Counted(y) :
              y # x /\ Imports(y)[i].dll = x /\ z = <<y, i>>)'
  BY ReferencesAre, PTL
<1> QED BY <1>1, SameDisk, Zenon

\* Steps that count nothing: the same descriptors stay counted.
LEMMA SameCounts ==
    ASSUME Counting, UNCHANGED <<disk, count>>, Listed' = Listed,
           \A y \in Listed : \A i \in DOMAIN Imports(y) :
               Imports(y)[i].dll # y => (i \in Counted(y)' <=> i \in Counted(y))
    PROVE  Counting'
<1>1. \A y, i : /\ i \in Counted(y) => i \in DOMAIN Imports(y)
                /\ i \in Counted(y)' => i \in DOMAIN Imports(y)
  BY Zenon DEF Counted, Imports
<1>2. ASSUME NEW x PROVE References(x)' = References(x)
  <2>2. \A z : z \in References(x)' <=> z \in References(x)
    BY <1>1, ReferencesAre, ReferencesNext
  <2> QED BY <2>2, Zenon
<1> QED BY <1>2, Zenon DEF Counting

LEMMA CountedSame ==
    ASSUME UNCHANGED <<disk, stack>>, Unscanned' = Unscanned, pc # "scan" <=> pc' # "scan"
    PROVE  \A y, i : i \in Counted(y)' <=> i \in Counted(y)
<1> SUFFICES ASSUME NEW y, NEW i PROVE i \in Counted(y)' <=> i \in Counted(y)
  OBVIOUS
<1>1. Active(y)' = Active(y) /\ disk' = disk /\ stack' = stack
  BY Zenon DEF Active
<1>2. i \in Counted(y)' <=>
         /\ y \notin Unscanned' /\ i \in DOMAIN Imports(y)
         /\ \A k \in Active(y)' : \/ i < stack'[k].at
                                  \/ i = stack'[k].at /\ (k < Len(stack') \/ pc' # "scan")
  BY CountedNext
<1> QED BY <1>1, <1>2, CountedAre

\* Of an activation that waits for another it does not matter what pc is.
LEMMA CountedBelow ==
    ASSUME disk' = disk, Unscanned' = Unscanned, NEW y, Active(y)' = Active(y),
           \A k \in Active(y) : k < Len(stack) /\ stack'[k] = stack[k],
           \A k \in Active(y) : k < Len(stack') \/ pc' # "scan", NEW i
    PROVE  i \in Counted(y)' <=> i \in Counted(y)
<1> DEFINE Past == /\ y \notin Unscanned /\ i \in DOMAIN Imports(y)
                   /\ \A k \in Active(y) : i < stack[k].at \/ i = stack[k].at
<1>1. i \in Counted(y) <=> Past
  BY CountedAre, Zenon
<1>2. i \in Counted(y)' <=>
         /\ y \notin Unscanned' /\ i \in DOMAIN Imports(y)
         /\ \A k \in Active(y)' : \/ i < stack'[k].at
                                  \/ i = stack'[k].at /\ (k < Len(stack') \/ pc' # "scan")
  BY CountedNext
<1>3. i \in Counted(y)' <=> Past
  BY <1>2
<1> QED BY <1>1, <1>3

\* Steps that count the descriptor j of w.
LEMMA OneMore ==
    ASSUME Counting, disk' = disk, NEW d, NEW w \in Listed, NEW j \in DOMAIN Imports(w),
           w # d, Imports(w)[j].dll = d, j \notin Counted(w), Listed' = Listed \cup {d},
           \A y \in Listed' : \A i \in DOMAIN Imports(y) :
               Imports(y)[i].dll # y =>
                   (i \in Counted(y)' <=>
                      \/ y \in Listed /\ i \in Counted(y)
                      \/ y = w /\ i = j),
           IsFiniteSet(References(d)), count'[d] = Cardinality(References(d)) + 1 + Own(d),
           \A y \in Listed : y # d => count'[y] = count[y]
    PROVE  Counting'
<1>1. \A y, i : /\ i \in Counted(y) => i \in DOMAIN Imports(y)
                /\ i \in Counted(y)' => i \in DOMAIN Imports(y)
  BY Zenon DEF Counted, Imports
<1>2. ASSUME NEW x, NEW z
      PROVE  z \in References(x)' <=> z \in References(x) \/ (x = d /\ z = <<w, j>>)
  <2>1. ASSUME z \in References(x)' 
        PROVE  z \in References(x) \/ (x = d /\ z = <<w, j>>)
    <3>1. PICK y \in Listed' : \E i \in Counted(y)' :
                 y # x /\ Imports(y)[i].dll = x /\ z = <<y, i>>
      BY <2>1, ReferencesNext
    <3>2. PICK i \in Counted(y)' : y # x /\ Imports(y)[i].dll = x /\ z = <<y, i>>
      BY <3>1
    <3>3. (y \in Listed /\ i \in Counted(y)) \/ (y = w /\ i = j)
      BY <1>1, <3>2, Zenon
    <3> QED BY <3>2, <3>3, ReferencesAre, Zenon
  <2>2. ASSUME z \in References(x) PROVE z \in References(x)'
    <3>1. PICK y \in Listed : \E i \in Counted(y) :
                 y # x /\ Imports(y)[i].dll = x /\ z = <<y, i>>
      BY <2>2, ReferencesAre
    <3>2. PICK i \in Counted(y) : y # x /\ Imports(y)[i].dll = x /\ z = <<y, i>>
      BY <3>1
    <3>3. y \in Listed' /\ i \in Counted(y)'
      BY <1>1, <3>2
    <3> QED BY <3>2, <3>3, ReferencesNext, Zenon
  <2>3. ASSUME x = d, z = <<w, j>> PROVE z \in References(x)'
    <3>1. w \in Listed' /\ j \in Counted(w)'
      BY Zenon
    <3> QED BY <2>3, <3>1, ReferencesNext, Zenon
  <2> QED BY <2>1, <2>2, <2>3
<1>3. <<w, j>> \notin References(d)
  <2>1. ASSUME <<w, j>> \in References(d) PROVE FALSE
    <3>1. PICK y \in Listed : \E i \in Counted(y) : <<w, j>> = <<y, i>>
      BY <2>1, ReferencesAre
    <3>2. PICK i \in Counted(y) : <<w, j>> = <<y, i>>
      BY <3>1
    <3> QED BY <3>2
  <2> QED BY <2>1
<1>4. References(d)' = References(d) \cup {<<w, j>>}
  BY <1>2
<1>5. ASSUME NEW x, x # d PROVE References(x)' = References(x)
  <2>1. \A z : z \in References(x)' <=> z \in References(x)
    BY <1>2, <1>5
  <2> QED BY <2>1, Zenon
<1>6. /\ IsFiniteSet(References(d)')
      /\ Cardinality(References(d)') = Cardinality(References(d)) + 1
  <2>1. /\ IsFiniteSet(References(d) \cup {<<w, j>>})
        /\ Cardinality(References(d) \cup {<<w, j>>}) = Cardinality(References(d)) + 1
    BY <1>3, FS_AddElement
  <2> QED BY <2>1, <1>4, Zenon
<1>7. count'[d] = Cardinality(References(d)') + Own(d)
  BY <1>6
<1>8. ASSUME NEW x \in Listed', x # d
      PROVE  /\ IsFiniteSet(References(x)')
             /\ count'[x] = Cardinality(References(x)') + Own(x)
  <2>1. x \in Listed /\ References(x)' = References(x) /\ count'[x] = count[x]
    BY <1>5, <1>8
  <2>2. IsFiniteSet(References(x)) /\ count[x] = Cardinality(References(x)) + Own(x)
    BY <2>1, Zenon DEF Counting
  <2> QED BY <2>1, <2>2, Zenon
<1>9. \A x \in Listed' : /\ IsFiniteSet(References(x)')
                         /\ count'[x] = Cardinality(References(x)') + Own(x)
  BY <1>6, <1>7, <1>8, Zenon
<1> QED BY <1>9, Zenon DEF Counting

\* As long as no scan has begun, nothing is counted.
LEMMA NothingCounted ==
    ASSUME Listed \subseteq Unscanned, NEW x
    PROVE  References(x) = {}
<1>1. \A y \in Listed : \A i : i \notin Counted(y)
  BY CountedAre, Zenon
<1>2. \A z : z \notin References(x)
  BY <1>1, ReferencesAre, Zenon
<1> QED BY <1>2

-----------------------------------------------------------------------------
(* The start, the steps that fail, and those of BlOsLoader.                *)

LEMMA NothingListed ==
    /\ DOMAIN <<>> = {}
    /\ list = <<>> => Listed = {}
    /\ stack = <<>> => \A x : Active(x) = {}
<1>1. DOMAIN <<>> = {}
  OBVIOUS
<1> QED BY <1>1, Zenon DEF Listed, Active

LEMMA InitInv == Init => Inv
<1> SUFFICES ASSUME Init PROVE Inv
  OBVIOUS
<1>0. pc = "load_kernel"
  BY Zenon DEF Init
<1>1. /\ disk \in Disks /\ list = <<>> /\ stack = <<>>
      /\ loads = [x \in Images |-> 0] /\ count = [x \in Images |-> 0]
      /\ iat = [p \in Places(disk) |-> Raw]
  BY Zenon DEF Init
<1>2. Listed = {} /\ DOMAIN list = {} /\ DOMAIN stack = {}
  BY <1>1, NothingListed, Zenon
<1>3. \A x \in Images : loads[x] = 0
  BY <1>1, Zenon
<1>4. \A p \in Places(disk) : iat[p] = Raw
  BY <1>1, Zenon
<1>5. TypeOK
  <2>1. <<>> \in Seq(Images) /\ <<>> \in Seq([image : Images, at : Nat \ {0}])
    OBVIOUS
  <2>2. loads \in [Images -> Nat] /\ count \in [Images -> Nat]
    BY <1>1
  <2>3. iat \in [Places(disk) -> Targets]
    BY <1>1, Zenon DEF Targets
  <2>4. thunk \in Nat \ {0}
    <3>1. thunk = 1
      BY Zenon DEF Init
    <3> QED BY <3>1
  <2>5. pc # "search"
    BY <1>0
  <2> QED BY <1>1, <2>1, <2>2, <2>3, <2>4, <2>5, Zenon DEF TypeOK
<1>6. EachOnce
  <2>1. \A x \in Images : loads[x] <= 1
    BY <1>3
  <2> QED BY <1>2, <2>1, Zenon DEF EachOnce
<1>7. BoundAsNamed
  BY <1>4, Zenon DEF BoundAsNamed
<1>8. Phase /\ InHand /\ Narrowed
  BY <1>0, <1>1 DEF Phase, InHand, Narrowed, Scanning
<1>9. LoadedListed /\ Chain
  BY <1>1, <1>2, <1>3, Zenon DEF LoadedListed, Chain
<1>10. BoundBehind /\ ImportsListed /\ Reached
  BY <1>2, <1>4 DEF BoundBehind, Behind, ImportsListed, Reached
<1>11. Counting
  BY <1>2, Zenon DEF Counting
<1> QED BY <1>5, <1>6, <1>7, <1>8, <1>9, <1>10, <1>11 DEF Inv, Working

LEMMA BoundKept ==
    ASSUME BoundAsNamed, disk' = disk, iat' = iat
    PROVE  BoundAsNamed'
BY SameDisk, Zenon DEF BoundAsNamed, DllAt, Imports

LEMMA LoadedAgain ==
    ASSUME TypeOK, EachOnce, NEW x \in Images, loads[x] = 0, Load(x)
    PROVE  /\ loads' \in [Images -> Nat]
           /\ \A y \in Images : loads'[y] <= 1
           /\ \A y \in Images : y # x => loads'[y] = loads[y]
BY DEF TypeOK, EachOnce, Load

LEMMA FailStep ==
    ASSUME Inv, NEW why, Fail(why), UNCHANGED <<list, count, iat>>,
           loads' \in [Images -> Nat], \A x \in Images : loads'[x] <= 1
    PROVE  Inv'
<1> USE DEF Inv, Fail
<1>1. stack' \in Seq([image : Images, at : Nat \ {0}])
  OBVIOUS
<1>2. TypeOK'
  <2>1. iat' \in [Places(disk)' -> Targets]
    BY SameDisk, Zenon DEF TypeOK
  <2>2. pc' # "search"
    OBVIOUS
  <2> QED BY <1>1, <2>1, <2>2, Zenon DEF TypeOK
<1>3. EachOnce'
  BY DEF EachOnce
<1>4. BoundAsNamed'
  BY BoundKept
<1>5. ~(pc' # "failed")
  OBVIOUS
<1> QED BY <1>2, <1>3, <1>4, <1>5, Zenon

LEMMA FirstTwo ==
    /\ Append(<<>>, Kernel) = <<Kernel>>
    /\ LET both == Append(<<Kernel>>, Hal)
       IN  Len(both) = 2 /\ both[1] = Kernel /\ both[2] = Hal
    /\ list = <<Kernel>> => Listed = {Kernel}
    /\ list \in Seq(Images) /\ Len(list) >= 2 => {list[1], list[2]} \subseteq Listed
<1>1. Append(<<>>, Kernel) = <<Kernel>>
  OBVIOUS
<1> DEFINE both == Append(<<Kernel>>, Hal)
<1>4. Len(both) = 2 /\ both[1] = Kernel /\ both[2] = Hal
  OBVIOUS
<1>2. ASSUME list = <<Kernel>> PROVE Listed = {Kernel}
  <2>1. DOMAIN list = {1} /\ list[1] = Kernel
    BY <1>2
  <2> QED BY <2>1 DEF Listed
<1>3. ASSUME list \in Seq(Images), Len(list) >= 2
      PROVE  {list[1], list[2]} \subseteq Listed
  <2>1. 1 \in DOMAIN list /\ 2 \in DOMAIN list
    BY <1>3
  <2> QED BY <2>1, Zenon DEF Listed
<1> QED BY <1>1, <1>2, <1>3, <1>4, Zenon

\* Until the scans begin, the scan is past nothing.
LEMMA NothingBehind ==
    ASSUME stack = <<>>, Listed \subseteq Unscanned, NEW p
    PROVE  ~Behind(p)
BY Zenon DEF Behind

LEMMA KeptTypes ==
    ASSUME TypeOK, UNCHANGED <<disk, count, iat, thunk>>, pc' # "search",
           loads' \in [Images -> Nat], list' \in Seq(Images), stack' \in Seq(Frames)
    PROVE  TypeOK'
<1>1. iat' \in [Places(disk)' -> Targets]
  BY SameDisk, Zenon DEF TypeOK
<1> QED BY <1>1, Zenon DEF TypeOK, Frames

LEMMA LoadSystemImageInv ==
    ASSUME Inv, NEW at, NEW x, NEW next, LoadSystemImage(at, x, next),
           \/ at = "load_kernel" /\ x = Kernel /\ next = "load_hal"
           \/ at = "load_hal" /\ x = Hal /\ next = "enter_kernel"
    PROVE  Inv'
<1>1. CASE LoadFails
  <2>1. PICK why : Fail(why) /\ UNCHANGED <<loads, list, count, iat>>
    BY <1>1, Zenon DEF LoadFails
  <2>2. loads' \in [Images -> Nat] /\ \A y \in Images : loads'[y] <= 1
    BY <2>1, Zenon DEF Inv, TypeOK, EachOnce
  <2> QED BY <2>1, <2>2, FailStep, Zenon
<1>2. CASE Load(x) /\ Goto(next) /\ UNCHANGED <<list, count, iat, stack>>
  <2>1. /\ pc = at /\ pc' = next /\ Load(x)
        /\ UNCHANGED <<disk, list, count, iat, stack, thunk>>
        /\ TypeOK /\ EachOnce /\ BoundAsNamed /\ x \in Images
    BY <1>2, ImageAssumption, Zenon DEF Inv, LoadSystemImage, Goto
  <2>2. Working /\ list = <<>> /\ stack = <<>> /\ pc' # "search" /\ pc' # "scan"
    BY <2>1 DEF Inv, Working, Phase, Scanning
  <2>3. Listed = {} /\ Listed' = {} /\ DOMAIN stack = {} /\ DOMAIN list = {}
    BY <2>1, <2>2, NothingListed, Zenon DEF Listed
  <2>4. loads[x] = 0
    BY <2>1, <2>2, <2>3, ImageAssumption DEF Working, LoadedListed
  <2>5. /\ loads' \in [Images -> Nat] /\ \A y \in Images : loads'[y] <= 1
        /\ \A y \in Images : y # x => loads'[y] = loads[y]
    BY <2>1, <2>4, LoadedAgain, Zenon
  <2>6. TypeOK'
    <3>1. list' \in Seq(Images) /\ stack' \in Seq(Frames)
      BY <2>1, Zenon DEF TypeOK, Frames
    <3> QED BY <2>1, <2>2, <2>5, <3>1, KeptTypes, Zenon
  <2>7. EachOnce'
    BY <2>1, <2>5, Zenon DEF EachOnce
  <2>8. BoundAsNamed'
    BY <2>1, BoundKept
  <2>9. Phase' /\ InHand' /\ Narrowed'
    BY <2>1, <2>2 DEF Phase, InHand, Narrowed, Scanning
  <2>10. LoadedListed'
    BY <2>1, <2>2, <2>3, <2>5 DEF Working, LoadedListed
  <2>11. Chain' /\ ImportsListed' /\ Reached'
    <3>1. stack' = <<>> /\ DOMAIN stack' = {}
      BY <2>1, <2>2, NothingListed, Zenon
    <3> QED BY <2>3, <3>1, Zenon DEF Chain, ImportsListed, Reached
  <2>12. BoundBehind'
    <3>1. \A p : ~Behind(p) /\ ~Behind(p)'
      BY <2>3, Zenon DEF Behind
    <3> QED BY <2>1, <2>2, <3>1, SameDisk, Zenon DEF Working, BoundBehind
  <2>13. Counting'
    BY <2>3, Zenon DEF Counting
  <2> QED BY <2>6, <2>7, <2>8, <2>9, <2>10, <2>11, <2>12, <2>13, Zenon DEF Inv, Working
<1> QED BY <1>1, <1>2, Zenon DEF LoadSystemImage

LEMMA NoMemoryInv ==
    ASSUME Inv, NoMemory, loads' \in [Images -> Nat], \A x \in Images : loads'[x] <= 1
    PROVE  Inv'
BY FailStep, Zenon DEF NoMemory

\* An image that is not on the list goes there.
LEMMA EnteredOnce ==
    ASSUME TypeOK, EachOnce, NEW x \in Images, x \notin Listed, Enter(x)
    PROVE  /\ list' \in Seq(Images) /\ count' \in [Images -> Nat]
           /\ \A i, j \in DOMAIN list' : list'[i] = list'[j] => i = j
           /\ Listed' = Listed \cup {x}
<1>1. list \in Seq(Images) /\ list' = Append(list, x)
  BY Zenon DEF TypeOK, Enter
<1>2. count' \in [Images -> Nat]
  BY DEF TypeOK, Enter
<1>3. /\ list' \in Seq(Images) /\ Listed' = Listed \cup {x}
      /\ DOMAIN list' = DOMAIN list \cup {Len(list) + 1}
      /\ \A k \in DOMAIN list : list'[k] = list[k]
      /\ list'[Len(list) + 1] = x
  BY <1>1, Entered, Zenon
<1>4. \A k \in DOMAIN list : list[k] # x
  BY Zenon DEF Listed
<1>5. \A i, j \in DOMAIN list' : list'[i] = list'[j] => i = j
  BY <1>3, <1>4, Zenon DEF EachOnce
<1> QED BY <1>2, <1>3, <1>5

LEMMA EnterSystemImageInv ==
    ASSUME Inv, NEW at, NEW x, NEW next, EnterSystemImage(at, x, next),
           \/ at = "enter_kernel" /\ x = Kernel /\ next = "enter_hal"
           \/ at = "enter_hal" /\ x = Hal /\ next = "scan_kernel"
    PROVE  Inv'
<1>1. CASE NoMemory
  BY <1>1, NoMemoryInv, Zenon DEF EnterSystemImage, Inv, TypeOK, EachOnce
<1>2. CASE Enter(x) /\ Goto(next) /\ UNCHANGED <<iat, stack>>
  <2>1. /\ pc = at /\ pc' = next /\ Enter(x)
        /\ UNCHANGED <<disk, loads, iat, stack, thunk>>
        /\ TypeOK /\ EachOnce /\ BoundAsNamed /\ x \in Images
    BY <1>2, ImageAssumption, Zenon DEF Inv, EnterSystemImage, Goto
  <2>2. /\ Working /\ stack = <<>> /\ pc' # "search" /\ pc' # "scan"
        /\ at = "enter_kernel" => list = <<>>
        /\ at = "enter_hal" => list = <<Kernel>>
    BY <2>1 DEF Inv, Working, Phase, Scanning
  <2>3. Listed = IF at = "enter_kernel" THEN {} ELSE {Kernel}
    <3>1. CASE at = "enter_kernel"
      BY <3>1, <2>2, NothingListed, Zenon
    <3>2. CASE at # "enter_kernel"
      <4>1. list = <<Kernel>> /\ at = "enter_hal"
        BY <3>2, <2>2, Zenon
      <4> QED BY <3>2, <4>1, FirstTwo, Zenon
    <3> QED BY <3>1, <3>2, Zenon
  <2>4. x \notin Listed
    BY <2>1, <2>3, ImageAssumption
  <2>5. /\ list' \in Seq(Images) /\ count' \in [Images -> Nat]
        /\ \A i, j \in DOMAIN list' : list'[i] = list'[j] => i = j
        /\ Listed' = Listed \cup {x}
    BY <2>1, <2>4, EnteredOnce, Zenon
  <2>6. TypeOK'
    <3>1. iat' \in [Places(disk)' -> Targets]
      BY <2>1, SameDisk, Zenon DEF TypeOK
    <3> QED BY <2>1, <2>2, <2>5, <3>1, Zenon DEF TypeOK
  <2>7. EachOnce'
    BY <2>1, <2>5, Zenon DEF EachOnce
  <2>8. BoundAsNamed'
    BY <2>1, BoundKept
  <2>9. Phase' /\ InHand' /\ Narrowed'
    <3>1. InHand' /\ Narrowed'
      BY <2>1, <2>2 DEF InHand, Narrowed
    <3>2. CASE at = "enter_kernel"
      <4>1. list' = <<Kernel>> /\ pc' = "enter_hal"
        BY <2>1, <2>2, <3>2, FirstTwo DEF Enter
      <4> QED BY <2>1, <2>2, <3>1, <4>1 DEF Phase, Scanning
    <3>3. CASE at = "enter_hal"
      <4>1. list' = Append(<<Kernel>>, Hal) /\ pc' = "scan_kernel"
        BY <2>1, <2>2, <3>3, ImageAssumption DEF Enter
      <4>2. Len(list') >= 2 /\ list'[1] = Kernel /\ list'[2] = Hal
        BY <4>1, FirstTwo
      <4> QED BY <2>1, <2>2, <3>1, <4>1, <4>2 DEF Phase, Scanning
    <3> QED BY <3>2, <3>3
  <2>10. LoadedListed'
    BY <2>1, <2>2, <2>3, <2>5 DEF Working, LoadedListed
  <2>11. Chain' /\ ImportsListed' /\ Reached'
    <3>1. stack' = <<>> /\ DOMAIN stack' = {}
      BY <2>1, <2>2, NothingListed, Zenon
    <3>2. Listed' \subseteq {Kernel, Hal} /\ Listed' \subseteq Unscanned'
      BY <2>1, <2>2, <2>3, <2>5 DEF Unscanned
    <3> QED BY <3>1, <3>2, Zenon DEF Chain, ImportsListed, Reached
  <2>12. BoundBehind'
    <3>1. Listed' \subseteq Unscanned' /\ Listed \subseteq Unscanned
      BY <2>1, <2>2, <2>3, <2>5 DEF Unscanned
    <3>2. \A p : ~Behind(p) /\ ~Behind(p)'
      BY <3>1, Zenon DEF Behind
    <3> QED BY <2>1, <2>2, <3>2, SameDisk, Zenon DEF Working, BoundBehind
  <2>13. Counting'
    <3>1. Listed' \subseteq Unscanned' /\ Listed \subseteq Unscanned
      BY <2>1, <2>2, <2>3, <2>5 DEF Unscanned
    <3>2. \A y : References(y) = {}
      BY <3>1, NothingCounted, Zenon
    <3>3. \A y : References(y)' = {}
      <4>1. \A y \in Listed' : \A i : i \notin Counted(y)'
        BY <2>1, <3>1, CountedNext
      <4>2. \A y, z : z \notin References(y)'
        BY <2>1, <4>1, ReferencesNext
      <4> QED BY <4>2
    <3>4. IsFiniteSet({}) /\ Cardinality({}) = 0
      BY FS_EmptySet
    <3>5. Own(x) = 1 /\ count'[x] = 1
      BY <2>1 DEF Own, Enter, TypeOK
    <3>6. \A y \in Listed : count'[y] = count[y] /\ count[y] = 0 + Own(y)
      <4>1. \A y \in Listed : y # x /\ count[y] = 0 + Own(y)
        BY <2>2, <2>4, <3>2, <3>4, Zenon DEF Working, Counting
      <4>2. \A y \in Images : y # x => count'[y] = count[y]
        BY <2>1 DEF Enter, TypeOK
      <4>3. Listed \subseteq Images
        BY <2>1, ListedAre, Zenon
      <4> QED BY <4>1, <4>2, <4>3, Zenon
    <3>7. \A y \in Listed' : count'[y] = 0 + Own(y)
      BY <2>5, <3>5, <3>6
    <3> QED BY <3>3, <3>4, <3>7, Zenon DEF Counting
  <2> QED BY <2>6, <2>7, <2>8, <2>9, <2>10, <2>11, <2>12, <2>13, Zenon DEF Inv, Working
<1> QED BY <1>1, <1>2, Zenon DEF EnterSystemImage

LEMMA ScanSystemImageInv ==
    ASSUME Inv, NEW at, NEW x, ScanSystemImage(at, x),
           \/ at = "scan_kernel" /\ x = Kernel
           \/ at = "scan_hal" /\ x = Hal
    PROVE  Inv'
<1>1. /\ pc = at /\ pc' = "scan" /\ stack' = <<Activation(x)>>
      /\ UNCHANGED <<disk, loads, list, count, iat, thunk>>
      /\ TypeOK /\ EachOnce /\ BoundAsNamed /\ x \in Images
  BY ImageAssumption, Zenon DEF Inv, ScanSystemImage, Goto
<1>2. /\ Working /\ stack = <<>> /\ pc' # "search" /\ pc' # "bind"
      /\ Len(list) >= 2 /\ list[1] = Kernel /\ list[2] = Hal
  BY <1>1 DEF Inv, Working, Phase, Scanning
<1>3. /\ stack' \in Seq(Frames) /\ stack' # <<>> /\ Len(stack') = 1
      /\ DOMAIN stack' = {1} /\ stack'[1].image = x /\ stack'[1].at = 1
  <2>1. [image |-> x, at |-> 1] \in Frames
    BY <1>1 DEF Frames
  <2>2. stack' = <<[image |-> x, at |-> 1]>>
    BY <1>1, Zenon DEF Activation
  <2> QED BY <2>1, <2>2
<1>4. Listed' = Listed /\ {Kernel, Hal} \subseteq Listed
  <2>1. list \in Seq(Images)
    BY <1>1, Zenon DEF TypeOK
  <2>2. {Kernel, Hal} \subseteq Listed
    BY <2>1, <1>2, FirstTwo
  <2> QED BY <2>2, <1>1, Zenon DEF Listed
<1>5. TypeOK'
  <2>1. loads' \in [Images -> Nat] /\ list' \in Seq(Images)
    BY <1>1, Zenon DEF TypeOK
  <2> QED BY <1>1, <1>2, <1>3, <2>1, KeptTypes, Zenon
<1>6. EachOnce'
  BY <1>1, <1>3 DEF EachOnce
<1>7. BoundAsNamed'
  BY <1>1, BoundKept
<1>8. Phase' /\ InHand' /\ Narrowed'
  BY <1>1, <1>2, <1>3 DEF Phase, InHand, Narrowed, Scanning
<1>9. LoadedListed'
  BY <1>1, <1>2, <1>4 DEF Working, LoadedListed
<1>10. Reached'
  BY <1>1, <1>2, <1>4, SameDisk, Zenon DEF Working, Reached
<1>11. /\ Unscanned = {x} \cup Unscanned'
       /\ x \notin Unscanned'
       /\ \A y : Active(y) = {}
       /\ \A y : Active(y)' = IF y = x THEN {1} ELSE {}
  BY <1>1, <1>2, <1>3, NothingListed, ImageAssumption DEF Unscanned, Active
<1>12. Chain'
  <2>1. x \in {Kernel, Hal} /\ x \in Listed' \ Unscanned'
    BY <1>4, <1>11
  <2>2. \A k \in DOMAIN stack' : ~(k < Len(stack'))
    BY <1>3
  <2> QED BY <1>3, <2>1, <2>2, Zenon DEF Chain
<1>13. \A p \in Places(disk) : Behind(p)' <=> Behind(p)
  <2>1. ASSUME NEW p \in Places(disk), p[1] # x
        PROVE  Behind(p)' <=> Behind(p)
    BY <2>1, <1>4, <1>11, Zenon DEF Behind
  <2>2. ASSUME NEW p \in Places(disk), p[1] = x
        PROVE  ~Behind(p)' /\ ~Behind(p)
    <3>1. p[2] \in DOMAIN Imports(x)
      BY <2>2, PlacesAre, Zenon
    <3>2. p[2] \in Nat /\ 1 <= p[2]
      BY <2>2, <1>1, <3>1, ImportsTyped, Zenon
    <3>3. ~(p[2] < stack'[1].at)
      BY <1>3, <3>2
    <3>4. ~Passed(p, 1)'
      BY <1>1, <3>3, Zenon DEF Passed
    <3> QED BY <2>2, <3>4, <1>11, Zenon DEF Behind
  <2> QED BY <2>1, <2>2, Zenon
<1>14. BoundBehind'
  BY <1>1, <1>2, <1>13, SameDisk, Zenon DEF Working, BoundBehind
<1>15. ImportsListed'
  <2> SUFFICES ASSUME NEW y \in Listed', y \notin Unscanned', NEW i \in DOMAIN Imports(y)',
                      \A k \in Active(y)' : i < stack'[k].at
               PROVE  Imports(y)'[i].dll \in Listed'
    BY Zenon DEF ImportsListed
  <2>1. y \in Images /\ i \in DOMAIN Imports(y) /\ Imports(y)' = Imports(y)
    BY <1>1, <1>4, ListedAre, SameDisk, Zenon
  <2>2. CASE y = x
    <3>1. i < 1
      BY <2>2, <1>11, <1>3, Zenon
    <3>2. i \in Nat /\ 1 <= i
      BY <2>1, <1>1, ImportsTyped, Zenon
    <3> QED BY <3>1, <3>2
  <2>3. CASE y # x
    <3>1. y \in Listed \ Unscanned /\ Active(y) = {}
      BY <2>3, <1>4, <1>11, Zenon
    <3>2. Imports(y)[i].dll \in Listed
      BY <2>1, <3>1, <1>2, Zenon DEF Working, ImportsListed
    <3> QED BY <3>2, <2>1, <1>4, Zenon
  <2> QED BY <2>2, <2>3, Zenon
<1>17. Counting'
  <2>1. ASSUME NEW y \in Listed, NEW i \in DOMAIN Imports(y)
        PROVE  i \in Counted(y)' <=> i \in Counted(y)
    <3>1. CASE y # x
      BY <3>1, <1>1, <1>11, CountedAre, CountedNext, Zenon
    <3>2. CASE y = x
      <4>1. i \in Nat /\ 1 <= i
        BY <3>2, <1>1, ImportsTyped, Zenon
      <4>2. ~(i < stack'[1].at) /\ ~(1 < Len(stack'))
        BY <4>1, <1>3
      <4>3. i \notin Counted(y)'
        BY <3>2, <4>2, <1>1, <1>11, CountedNext, Zenon
      <4>4. i \notin Counted(y)
        BY <3>2, <1>11, CountedAre, Zenon
      <4> QED BY <4>3, <4>4
    <3> QED BY <3>1, <3>2
  <2> QED BY <2>1, <1>1, <1>2, <1>4, SameCounts, Zenon DEF Working
<1> QED BY <1>5, <1>6, <1>7, <1>8, <1>9, <1>10, <1>12, <1>14, <1>15, <1>17, Zenon DEF Inv, Working

-----------------------------------------------------------------------------
(* The scan of the import descriptors.                                     *)

\* What the steps of a scan find on top of the stack.
LEMMA TopIs ==
    ASSUME Inv, pc \in Scanning
    PROVE  /\ Working /\ stack \in Seq(Frames) /\ stack # <<>> /\ Len(stack) \in Nat \ {0}
           /\ DOMAIN stack = 1 .. Len(stack) /\ Top = stack[Len(stack)] /\ Top \in Frames
           /\ Top.image \in Images /\ Top.at \in Nat \ {0}
           /\ Top.image \in Listed \ Unscanned
           /\ Active(Top.image) = {Len(stack)}
           /\ Listed \subseteq Images
           /\ AtDescriptor <=> Top.at \in DOMAIN Imports(Top.image)
           /\ Descriptor = Imports(Top.image)[Top.at]
<1>1. Working /\ TypeOK /\ EachOnce /\ stack # <<>>
  BY DEF Inv, Working, Phase, Scanning
<1>2. stack \in Seq(Frames)
  BY <1>1, Zenon DEF TypeOK, Frames
<1>3. /\ Len(stack) \in Nat \ {0} /\ DOMAIN stack = 1 .. Len(stack)
      /\ Len(stack) \in DOMAIN stack /\ stack[Len(stack)] \in Frames
  BY <1>1, <1>2
<1>4. Top = stack[Len(stack)] /\ Top \in Frames
  BY <1>3, Zenon DEF Top
<1>5. Top.image \in Images /\ Top.at \in Nat \ {0}
  BY <1>4 DEF Frames
<1>6. Top.image \in Listed \ Unscanned
  BY <1>1, <1>3, <1>4, Zenon DEF Working, Chain
<1>7. Active(Top.image) = {Len(stack)}
  BY <1>1, <1>3, <1>4, Zenon DEF EachOnce, Active
<1>8. AtDescriptor <=> Top.at \in DOMAIN Imports(Top.image)
  <2>1. AtDescriptor <=> Top.at <= Len(Imports(Top.image))
    BY <1>1, Zenon DEF AtDescriptor, Imports
  <2>2. /\ Len(Imports(Top.image)) \in Nat
        /\ DOMAIN Imports(Top.image) = 1 .. Len(Imports(Top.image))
    BY <1>1, <1>5, ImportsTyped, Zenon
  <2> QED BY <1>5, <2>1, <2>2
<1>9. Descriptor = Imports(Top.image)[Top.at]
  BY Zenon DEF Descriptor, Imports
<1>10. Listed \subseteq Images
  BY <1>1, ListedAre, Zenon
<1> QED BY <1>1, <1>2, <1>3, <1>4, <1>5, <1>6, <1>7, <1>8, <1>9, <1>10, Zenon

LEMMA SameUnscanned ==
    ASSUME pc \in Scanning, pc' \in Scanning, stack # <<>>, stack' # <<>>,
           stack'[1].image = stack[1].image
    PROVE  Unscanned' = Unscanned
BY DEF Unscanned, Scanning

\* The parts of the invariant that no step of a scan changes when it loads
\* nothing.
LEMMA ScanKeeps ==
    ASSUME Inv, pc \in Scanning, pc' \in Scanning, stack' # <<>>,
           UNCHANGED <<disk, loads, list>>
    PROVE  Phase' /\ LoadedListed' /\ Reached' /\ Listed' = Listed
<1>1. Working /\ Listed' = Listed
  BY Zenon DEF Inv, Scanning, Listed
<1>2. Phase'
  BY <1>1 DEF Working, Phase, Scanning
<1>3. LoadedListed'
  BY <1>1 DEF Working, LoadedListed, Scanning
<1>4. Reached'
  BY <1>1, SameDisk, Zenon DEF Working, Reached
<1> QED BY <1>1, <1>2, <1>3, <1>4

LEMMA ChainNow ==
    ASSUME disk' = disk,
           stack' # <<>> => stack'[1].image \in {Kernel, Hal},
           \A k \in DOMAIN stack' : stack'[k].image \in Listed' \ Unscanned',
           \A k \in DOMAIN stack' :
              k < Len(stack') =>
                  /\ stack'[k].at <= Len(Imports(stack'[k].image))
                  /\ Imports(stack'[k].image)[stack'[k].at].dll = stack'[k + 1].image
    PROVE  Chain'
BY Zenon DEF Chain, Imports

\* The descriptor in hand is done with: it is the image's own, or its thunks
\* are bound.
LEMMA NextDescriptorInv ==
    ASSUME Inv, pc \in {"scan", "bind"}, AtDescriptor, NextDescriptor, Goto("scan"),
           UNCHANGED <<loads, list, count, iat>>,
           pc = "scan" => Descriptor.dll = Top.image,
           pc = "bind" => thunk > Len(Descriptor.thunks)
    PROVE  Inv'
<1> DEFINE n == Len(stack)
           x == Top.image
           i == Top.at
<1>1. /\ TypeOK /\ EachOnce /\ BoundAsNamed
      /\ pc \in Scanning /\ pc' = "scan" /\ pc' \in Scanning
      /\ UNCHANGED <<disk, loads, list, count, iat, thunk>>
  BY DEF Inv, Goto, Scanning
<1>2. /\ Working /\ stack \in Seq(Frames) /\ stack # <<>> /\ n \in Nat \ {0}
      /\ DOMAIN stack = 1 .. n /\ Top = stack[n] /\ x \in Images /\ i \in Nat \ {0}
      /\ x \in Listed \ Unscanned /\ Active(x) = {n} /\ Listed \subseteq Images
      /\ i \in DOMAIN Imports(x) /\ Descriptor = Imports(x)[i]
  BY <1>1, TopIs, Zenon
<1>3. /\ stack' \in Seq(Frames) /\ Len(stack') = n /\ stack' # <<>>
      /\ DOMAIN stack' = DOMAIN stack /\ n \in DOMAIN stack
      /\ \A k \in DOMAIN stack : stack'[k].image = stack[k].image
      /\ \A k \in DOMAIN stack : k # n => stack'[k] = stack[k]
      /\ stack'[n].at = i + 1
  BY <1>2, Advanced, Zenon
<1>4. Phase' /\ LoadedListed' /\ Reached' /\ Listed' = Listed
  BY <1>1, <1>3, ScanKeeps, Zenon
<1>5. Unscanned' = Unscanned
  <2>1. 1 \in DOMAIN stack
    BY <1>2
  <2> QED BY <2>1, <1>1, <1>2, <1>3, SameUnscanned, Zenon
<1>6. \A y : Active(y)' = Active(y)
  BY <1>3 DEF Active
<1>7. TypeOK'
  <2>1. loads' \in [Images -> Nat] /\ list' \in Seq(Images)
    BY <1>1, Zenon DEF TypeOK
  <2>2. pc' # "search"
    BY <1>1
  <2> QED BY <1>1, <1>3, <2>1, <2>2, KeptTypes, Zenon
<1>8. EachOnce' /\ BoundAsNamed'
  <2>1. EachOnce'
    BY <1>1, <1>3, Zenon DEF EachOnce
  <2> QED BY <2>1, <1>1, BoundKept
<1>9. InHand' /\ Narrowed'
  BY <1>1 DEF InHand, Narrowed
<1>10. Chain'
  <2>1. 1 \in DOMAIN stack /\ stack'[1].image \in {Kernel, Hal}
    BY <1>2, <1>3 DEF Working, Chain
  <2>2. \A k \in DOMAIN stack' : stack'[k].image \in Listed' \ Unscanned'
    BY <1>2, <1>3, <1>4, <1>5, Zenon DEF Working, Chain
  <2>3. ASSUME NEW k \in DOMAIN stack', k < Len(stack')
        PROVE  /\ stack'[k].at <= Len(Imports(stack'[k].image))
               /\ Imports(stack'[k].image)[stack'[k].at].dll = stack'[k + 1].image
    <3>1. k \in DOMAIN stack /\ k + 1 \in DOMAIN stack /\ k < n /\ k # n
      BY <2>3, <1>2, <1>3
    <3>2. stack'[k] = stack[k] /\ stack'[k + 1].image = stack[k + 1].image
      BY <3>1, <1>3, Zenon
    <3>3. /\ stack[k].at <= Len(Imports(stack[k].image))
          /\ Imports(stack[k].image)[stack[k].at].dll = stack[k + 1].image
      BY <3>1, <1>2, Zenon DEF Working, Chain
    <3> QED BY <3>2, <3>3, Zenon
  <2> QED BY <2>1, <2>2, <2>3, <1>1, ChainNow, Zenon
<1>11. BoundBehind'
  <2>1. ASSUME NEW p \in Places(disk), p[1] # x
        PROVE  Behind(p)' <=> Behind(p)
    <3>1. \A k \in Active(p[1]) : k \in DOMAIN stack /\ k # n
      BY <2>1, <1>2, Zenon DEF Active
    <3>2. \A k \in Active(p[1]) : Passed(p, k)' <=> Passed(p, k)
      BY <3>1, <1>1, <1>3, Zenon DEF Passed
    <3> QED BY <3>2, <1>4, <1>5, <1>6, Zenon DEF Behind
  <2>2. ASSUME NEW p \in Places(disk), p[1] = x, DllAt(p) # p[1]
        PROVE  Behind(p)' <=> Behind(p)
    <3>0. (Behind(p) <=> Passed(p, n)) /\ (Behind(p)' <=> Passed(p, n)')
      <4>1. /\ p[1] \in Listed \ Unscanned /\ Active(p[1]) = {n}
            /\ p[1] \in Listed' \ Unscanned' /\ Active(p[1])' = {n'} /\ n' = n
        BY <2>2, <1>2, <1>3, <1>4, <1>5, <1>6, Zenon
      <4> HIDE DEF n, x
      <4>2. Behind(p) <=> Passed(p, n)
        BY <4>1, Zenon DEF Behind
      <4>3. Behind(p)' <=> Passed(p, n)'
        BY <4>1, Zenon DEF Behind
      <4> QED BY <4>2, <4>3
    <3>1. /\ p[2] \in DOMAIN Imports(x) /\ p[3] \in DOMAIN Imports(x)[p[2]].thunks
          /\ p[2] \in Nat
      BY <2>2, PlacesAre, <1>1, <1>2, ImportsTyped, Zenon
    <3>2. Passed(p, n)' <=> p[2] < i + 1
      BY <1>1, <1>3 DEF Passed
    <3>3. CASE pc = "scan"
      <4>1. p[2] # i
        BY <2>2, <3>3, <1>2, Zenon DEF DllAt
      <4>2. Passed(p, n) <=> p[2] < i
        BY <3>3, <1>2, Zenon DEF Passed
      <4>3. Passed(p, n)' <=> Passed(p, n)
        BY <3>1, <3>2, <4>1, <4>2, <1>2
      <4> QED BY <3>0, <4>3, Zenon
    <3>4. CASE pc = "bind"
      <4>1. p[2] = i => p[3] < thunk
        <5>1. Imports(x)[i].thunks \in Seq(Thunks)
          BY <1>1, <1>2, ImportsTyped, Zenon
        <5>2. p[2] = i => p[3] \in DOMAIN Imports(x)[i].thunks
          BY <3>1
        <5>3. thunk > Len(Imports(x)[i].thunks) /\ thunk \in Nat
          BY <3>4, <1>1, <1>2 DEF TypeOK
        <5> HIDE DEF x, i
        <5>4. ASSUME NEW s \in Seq(Thunks), NEW t \in DOMAIN s, thunk > Len(s)
              PROVE  t < thunk
          BY <5>3, <5>4
        <5> QED BY <5>1, <5>2, <5>3, <5>4, Zenon
      <4>2. Passed(p, n) <=> p[2] < i \/ p[2] = i
        BY <3>4, <4>1, <1>2 DEF Passed
      <4>3. Passed(p, n)' <=> Passed(p, n)
        BY <3>1, <3>2, <4>2, <1>2
      <4> QED BY <3>0, <4>3, Zenon
    <3> QED BY <3>3, <3>4
  <2>3. \A p \in Places(disk) : DllAt(p) # p[1] => (Behind(p)' <=> Behind(p))
    BY <2>1, <2>2, Zenon
  <2> QED BY <2>3, <1>1, <1>2, SameDisk, Zenon DEF Working, BoundBehind
<1>12. ImportsListed'
  <2> SUFFICES ASSUME NEW y \in Listed \ Unscanned, NEW j \in DOMAIN Imports(y),
                      \A k \in Active(y) : j < stack'[k].at
               PROVE  Imports(y)[j].dll \in Listed
    BY <1>1, <1>4, <1>5, <1>6, SameDisk, Zenon DEF ImportsListed
  <2>1. CASE y = x /\ j = i
    <3>1. Descriptor.dll \in Listed
      BY <1>2 DEF Working, InHand
    <3> QED BY <2>1, <3>1, <1>2, Zenon
  <2>2. CASE ~(y = x /\ j = i)
    <3>1. \A k \in Active(y) : j < stack[k].at
      <4>1. SUFFICES ASSUME NEW k \in Active(y) PROVE j < stack[k].at
        OBVIOUS
      <4>2. k \in DOMAIN stack /\ stack[k].image = y
        BY Zenon DEF Active
      <4>3. CASE k # n
        BY <4>2, <4>3, <1>3, Zenon
      <4>4. CASE k = n
        <5>1. j \in Nat /\ j # i /\ j < i + 1 /\ stack[k].at = i
          BY <4>2, <4>4, <2>2, <1>1, <1>2, <1>3, ImportsTyped, Zenon
        <5> QED BY <5>1, <1>2
      <4> QED BY <4>3, <4>4
    <3> QED BY <3>1, <1>2, Zenon DEF Working, ImportsListed
  <2> QED BY <2>1, <2>2
<1>13. Counting'
  <2>1. ASSUME NEW y \in Listed, NEW j \in DOMAIN Imports(y), y # x
        PROVE  j \in Counted(y)' <=> j \in Counted(y)
    <3>1. \A k \in Active(y) : k \in DOMAIN stack /\ k # n
      BY <2>1, <1>2, Zenon DEF Active
    <3>2. \A k \in Active(y) : stack'[k] = stack[k] /\ k < Len(stack) /\ k < Len(stack')
      BY <3>1, <1>2, <1>3
    <3>3. Active(y)' = Active(y) /\ disk' = disk
      BY <1>1, <1>6
    <3> HIDE DEF n, x, i
    <3> QED BY <3>2, <3>3, <1>5, CountedBelow, Zenon
  <2>2. ASSUME NEW y \in Listed, NEW j \in DOMAIN Imports(y), Imports(y)[j].dll # y, y = x
        PROVE  j \in Counted(y)' <=> j \in Counted(y)
    <3>1. j \in Nat
      BY <2>2, <1>1, <1>2, ImportsTyped, Zenon
    <3>2. j \in Counted(y) <=> j < i \/ (j = i /\ pc # "scan")
      <4>1. stack[n].at = i /\ ~(n < Len(stack)) /\ y \notin Unscanned /\ Active(y) = {n}
        BY <2>2, <1>2
      <4> HIDE DEF n, i, x
      <4> QED BY <4>1, <2>2, CountedAre, Zenon
    <3>3. j \in Counted(y)' <=> j < i + 1
      <4>1. stack'[n].at = i + 1 /\ ~(n < Len(stack')) /\ ~(pc' # "scan")
        BY <1>1, <1>2, <1>3
      <4>2. y \notin Unscanned' /\ Active(y)' = {n}
        BY <2>2, <1>2, <1>5, <1>6, Zenon
      <4> HIDE DEF n, i, x
      <4> QED BY <4>1, <4>2, <2>2, <1>1, CountedNext
    <3>4. j = i => pc # "scan"
      BY <2>2, <1>2, Zenon
    <3> QED BY <3>1, <3>2, <3>3, <3>4, <1>2
  <2> QED BY <2>1, <2>2, <1>1, <1>2, <1>4, SameCounts, Zenon DEF Working
<1> QED BY <1>4, <1>7, <1>8, <1>9, <1>10, <1>11, <1>12, <1>13, Zenon DEF Inv, Working

LEMMA SkipSelfInv == ASSUME Inv, SkipSelf PROVE Inv'
BY NextDescriptorInv, Zenon DEF SkipSelf

LEMMA EndOfThunksInv == ASSUME Inv, EndOfThunks PROVE Inv'
<1>1. AtDescriptor
  BY DEF EndOfThunks, Inv, Working, InHand
<1> QED BY <1>1, NextDescriptorInv DEF EndOfThunks

LEMMA ImportLoadedInv == ASSUME Inv, ImportLoaded PROVE Inv'
<1>1. /\ TypeOK /\ EachOnce /\ BoundAsNamed
      /\ pc = "scan" /\ pc' = "bind" /\ pc \in Scanning /\ pc' \in Scanning /\ pc' # "search"
      /\ thunk' = 1 /\ UNCHANGED <<disk, loads, list, iat, stack>>
      /\ AtDescriptor /\ Descriptor.dll # Top.image /\ OnList(Descriptor.dll)
      /\ count' = [count EXCEPT ![Descriptor.dll] = @ + 1]
  BY DEF Inv, ImportLoaded, Found, Scanning
<1>2. /\ Working /\ stack # <<>> /\ Top.image \in Images
      /\ Top.at \in DOMAIN Imports(Top.image) /\ Descriptor = Imports(Top.image)[Top.at]
  BY <1>1, TopIs, Zenon
<1>3. Descriptor.dll \in Images /\ Descriptor.dll \in Listed
  BY <1>1, <1>2, ImportsTyped, ListedAre, Zenon
<1>4. Phase' /\ LoadedListed' /\ Reached' /\ Listed' = Listed
  BY <1>1, <1>2, ScanKeeps, Zenon
<1>5. Unscanned' = Unscanned
  BY <1>1, <1>2, SameUnscanned, Zenon
<1>6. \A y : Active(y)' = Active(y)
  BY <1>1, Zenon DEF Active
<1>7. TypeOK'
  <2>1. iat' \in [Places(disk)' -> Targets]
    BY <1>1, SameDisk, Zenon DEF TypeOK
  <2>2. count' \in [Images -> Nat]
    BY <1>1, <1>3 DEF TypeOK
  <2>3. thunk' \in Nat \ {0}
    BY <1>1
  <2> QED BY <1>1, <2>1, <2>2, <2>3, Zenon DEF TypeOK
<1>8. EachOnce' /\ BoundAsNamed'
  <2>1. EachOnce'
    BY <1>1, Zenon DEF EachOnce
  <2> QED BY <2>1, <1>1, BoundKept
<1>9. InHand' /\ Narrowed'
  <2>1. Narrowed'
    BY <1>1, Zenon DEF Narrowed
  <2>2. /\ AtDescriptor' = AtDescriptor /\ Top' = Top
        /\ Descriptor' = Descriptor
    BY <1>1, Zenon DEF AtDescriptor, Descriptor, Top
  <2> QED BY <2>1, <2>2, <1>1, <1>3, <1>4, Zenon DEF InHand
<1>10. Chain'
  BY <1>1, <1>2, <1>4, <1>5, SameDisk, Zenon DEF Working, Chain
<1>11. BoundBehind'
  <2>1. ASSUME NEW p \in Places(disk), NEW k
        PROVE  Passed(p, k)' <=> Passed(p, k)
    <3>1. ~(p[3] < thunk')
      BY <1>1, PlaceIndices
    <3> QED BY <3>1, <1>1, Zenon DEF Passed
  <2>2. \A p \in Places(disk) : Behind(p)' <=> Behind(p)
    BY <2>1, <1>4, <1>5, <1>6, Zenon DEF Behind
  <2> QED BY <2>2, <1>1, <1>2, SameDisk, Zenon DEF Working, BoundBehind
<1>12. ImportsListed'
  BY <1>1, <1>2, <1>4, <1>5, <1>6, SameDisk, Zenon DEF Working, ImportsListed
<1>13. Counting'
  <2>1. PICK d, w, j : d = Descriptor.dll /\ w = Top.image /\ j = Top.at
    OBVIOUS
  <2>2. /\ w \in Listed \ Unscanned /\ j \in DOMAIN Imports(w) /\ w # d
        /\ Imports(w)[j].dll = d /\ d \in Images /\ d \in Listed
        /\ Active(w) = {Len(stack)} /\ stack[Len(stack)].at = j
        /\ Len(stack) \in Nat /\ DOMAIN stack = 1 .. Len(stack) /\ j \in Nat
        /\ Listed \subseteq Images
    BY <2>1, <1>1, <1>2, <1>3, TopIs, Zenon
  <2>3. \A i : i \in Counted(w) <=> i \in DOMAIN Imports(w) /\ i < j
    <3>1. ~(Len(stack) < Len(stack))
      BY <2>2
    <3> QED BY <3>1, <2>2, <1>1, CountedAre, Zenon
  <2>4. \A i : i \in Counted(w)' <=> i \in DOMAIN Imports(w) /\ (i < j \/ i = j)
    BY <2>2, <1>1, <1>5, <1>6, CountedNext
  <2>5. ASSUME NEW y \in Listed, NEW i \in DOMAIN Imports(y), y # w
        PROVE  i \in Counted(y)' <=> i \in Counted(y)
    <3>1. \A k \in Active(y) : k < Len(stack)
      <4>1. \A k \in Active(y) : k \in DOMAIN stack /\ k # Len(stack)
        BY <2>1, <2>5, TopIs, <1>1, Zenon DEF Active
      <4> QED BY <4>1, <2>2
    <3> QED BY <3>1, <1>1, <1>5, <1>6, CountedBelow, Zenon
  <2>6. \A y \in Listed' : \A i \in DOMAIN Imports(y) :
         Imports(y)[i].dll # y => (i \in Counted(y)' <=>
             \/ y \in Listed /\ i \in Counted(y)
             \/ y = w /\ i = j)
    BY <2>2, <2>3, <2>4, <2>5, <1>4, Zenon
  <2>7. j \notin Counted(w)
    BY <2>2, <2>3
  <2>8. IsFiniteSet(References(d)) /\ count[d] = Cardinality(References(d)) + Own(d)
    BY <2>2, <1>2, Zenon DEF Working, Counting
  <2>9. count' = [count EXCEPT ![d] = count[d] + 1] /\ count \in [Images -> Nat]
    BY <2>1, <1>1, Zenon DEF TypeOK
  <2>10. count'[d] = Cardinality(References(d)) + 1 + Own(d)
    <3>1. Cardinality(References(d)) \in Nat
      BY <2>8, FS_CardinalityType
    <3> QED BY <2>2, <2>8, <2>9, <3>1 DEF Own
  <2>11. \A y \in Listed : y # d => count'[y] = count[y]
    BY <2>2, <2>9
  <2>12. Listed' = Listed \cup {d}
    BY <2>2, <1>4
  <2> QED BY <2>2, <2>6, <2>7, <2>8, <2>10, <2>11, <2>12, <1>1, <1>2, OneMore DEF Working
<1> QED BY <1>4, <1>7, <1>8, <1>9, <1>10, <1>11, <1>12, <1>13, Zenon DEF Inv, Working

LEMMA ReturnInv == ASSUME Inv, Return PROVE Inv'
<1> DEFINE n == Len(stack)
           x == Top.image
           to == IF x = Kernel THEN "scan_hal" ELSE "done"
<1>1. /\ TypeOK /\ EachOnce /\ BoundAsNamed
      /\ pc = "scan" /\ pc \in Scanning /\ ~AtDescriptor /\ stack' = Callers
      /\ UNCHANGED <<disk, loads, list, count, iat>>
      /\ \/ Callers # <<>> /\ pc' = "bind" /\ thunk' = 1
         \/ Callers = <<>> /\ pc' = to /\ thunk' = thunk
  BY DEF Inv, Return, Scanning
<1>2. /\ Working /\ stack \in Seq(Frames) /\ stack # <<>> /\ n \in Nat \ {0}
      /\ DOMAIN stack = 1 .. n /\ Top = stack[n] /\ x \in Images /\ Top.at \in Nat \ {0}
      /\ x \in Listed \ Unscanned /\ Active(x) = {n} /\ Listed \subseteq Images
      /\ Top.at \notin DOMAIN Imports(x)
  BY <1>1, TopIs, Zenon
<1>3. /\ stack' \in Seq(Frames) /\ Len(stack') = n - 1
      /\ DOMAIN stack = DOMAIN stack' \cup {n} /\ n \notin DOMAIN stack'
      /\ \A k \in DOMAIN stack' : stack'[k] = stack[k]
      /\ Callers # <<>> <=> n > 1
  BY <1>1, <1>2, Popped, Zenon
<1>4. Top.at > Len(Imports(x))
  BY <1>1, <1>2, ImportsTyped
<1>5. pc' # "search" /\ pc' # "scan" /\ Listed' = Listed
  BY <1>1, Zenon DEF Listed
<1>6. Unscanned' = Unscanned
  <2>1. CASE n > 1
    <3>1. 1 \in DOMAIN stack' /\ pc' \in Scanning /\ stack' # <<>>
      BY <2>1, <1>1, <1>2, <1>3 DEF Scanning
    <3> QED BY <3>1, <1>1, <1>2, <1>3, SameUnscanned, Zenon
  <2>2. CASE ~(n > 1)
    <3>1. stack' = <<>> /\ pc' = to /\ n = 1 /\ x = stack[1].image
      BY <2>2, <1>1, <1>2, <1>3
    <3>2. x \in {Kernel, Hal}
      BY <3>1, <1>2, Zenon DEF Working, Chain
    <3> QED BY <3>1, <3>2, <1>1, <1>2, ImageAssumption DEF Unscanned
  <2> QED BY <2>1, <2>2
<1>7. \A y : Active(y)' = Active(y) \ {n}
  BY <1>3 DEF Active
<1>8. TypeOK'
  <2>1. iat' \in [Places(disk)' -> Targets]
    BY <1>1, SameDisk, Zenon DEF TypeOK
  <2>2. thunk' \in Nat \ {0}
    BY <1>1 DEF TypeOK
  <2> QED BY <1>1, <1>3, <1>5, <2>1, <2>2, Zenon DEF TypeOK, Frames
<1>9. EachOnce' /\ BoundAsNamed'
  <2>1. \A i, j \in DOMAIN stack' : stack'[i].image = stack'[j].image => i = j
    <3>1. \A i \in DOMAIN stack' : i \in DOMAIN stack /\ stack'[i].image = stack[i].image
      BY <1>3
    <3> QED BY <3>1, <1>1, Zenon DEF EachOnce
  <2>2. EachOnce'
    BY <2>1, <1>1, Zenon DEF EachOnce
  <2> QED BY <2>2, <1>1, BoundKept
<1>10. Phase'
  <2>1. stack' # <<>> <=> pc' \in Scanning
    BY <1>1 DEF Scanning
  <2> QED BY <2>1, <1>1, <1>2 DEF Working, Phase, Scanning
<1>11. LoadedListed' /\ Reached' /\ Narrowed'
  <2>1. LoadedListed'
    BY <1>1, <1>2, <1>5 DEF Working, LoadedListed
  <2>2. Reached'
    BY <1>1, <1>2, <1>5, SameDisk, Zenon DEF Working, Reached
  <2> QED BY <2>1, <2>2, <1>5, Zenon DEF Narrowed
<1>12. InHand'
  <2> SUFFICES ASSUME pc' = "bind"
               PROVE  AtDescriptor' /\ Descriptor'.dll \in Listed' /\ Descriptor'.dll # Top'.image
    BY <1>5 DEF InHand
  <2>1. n > 1 /\ stack' # <<>> /\ n - 1 \in DOMAIN stack' /\ n - 1 \in DOMAIN stack /\ n - 1 < n
    BY <1>1, <1>2, <1>3
  <2>2. Top' = stack[n - 1]
    BY <2>1, <1>3, Zenon DEF Top
  <2>3. /\ stack[n - 1].at <= Len(Imports(stack[n - 1].image))
        /\ Imports(stack[n - 1].image)[stack[n - 1].at].dll = x
    <3>1. (n - 1) + 1 = n
      BY <1>2
    <3> QED BY <2>1, <3>1, <1>2, Zenon DEF Working, Chain
  <2>4. stack[n - 1].image # x
    BY <2>1, <1>1, <1>2 DEF EachOnce
  <2>5. AtDescriptor' /\ Descriptor' = Imports(stack[n - 1].image)[stack[n - 1].at]
    BY <2>1, <2>2, <2>3, <1>1, Zenon DEF AtDescriptor, Descriptor, Imports
  <2> QED BY <2>2, <2>3, <2>4, <2>5, <1>2, <1>5, Zenon
<1>13. Chain'
  <2>1. stack' # <<>> => stack'[1].image \in {Kernel, Hal}
    <3>1. stack' # <<>> => 1 \in DOMAIN stack'
      BY <1>3
    <3> QED BY <3>1, <1>2, <1>3, Zenon DEF Working, Chain
  <2>2. \A k \in DOMAIN stack' : stack'[k].image \in Listed' \ Unscanned'
    BY <1>2, <1>3, <1>5, <1>6, Zenon DEF Working, Chain
  <2>3. ASSUME NEW k \in DOMAIN stack', k < Len(stack')
        PROVE  /\ stack'[k].at <= Len(Imports(stack'[k].image))
               /\ Imports(stack'[k].image)[stack'[k].at].dll = stack'[k + 1].image
    <3>1. k \in DOMAIN stack /\ k + 1 \in DOMAIN stack' /\ k < n
      BY <2>3, <1>2, <1>3
    <3>2. stack'[k] = stack[k] /\ stack'[k + 1] = stack[k + 1]
      BY <3>1, <1>3, Zenon
    <3>3. /\ stack[k].at <= Len(Imports(stack[k].image))
          /\ Imports(stack[k].image)[stack[k].at].dll = stack[k + 1].image
      BY <3>1, <1>2, Zenon DEF Working, Chain
    <3> QED BY <3>2, <3>3, Zenon
  <2> QED BY <2>1, <2>2, <2>3, <1>1, ChainNow, Zenon
<1>14. BoundBehind'
  <2>1. ASSUME NEW p \in Places(disk), NEW k \in Active(p[1])'
        PROVE  Passed(p, k)' <=> Passed(p, k)
    <3>1. k \in DOMAIN stack' /\ k # n
      BY <1>3, Zenon DEF Active
    <3>2. stack' # <<>> => ~(p[3] < thunk')
      BY <1>1, PlaceIndices
    <3>3. stack' # <<>>
      BY <3>1, NothingListed, Zenon
    <3> QED BY <3>1, <3>2, <3>3, <1>1, <1>3, Zenon DEF Passed
  <2>2. ASSUME NEW p \in Places(disk), n \in Active(p[1])
        PROVE  Passed(p, n)
    <3>1. p[1] = x
      BY <2>2, <1>2, Zenon DEF Active
    <3>2. p[2] < stack[n].at
      BY <3>1, <1>1, <1>2, <1>4, PlaceIndices, ImportsTyped
    <3> QED BY <3>2, Zenon DEF Passed
  <2>3. ASSUME NEW p \in Places(disk)
        PROVE  Behind(p)' <=> Behind(p)
    <3>1. Behind(p)' => Behind(p)
      BY <2>1, <2>2, <1>5, <1>6, <1>7, Zenon DEF Behind
    <3>2. Behind(p) => Behind(p)'
      BY <2>1, <2>2, <1>5, <1>6, <1>7, Zenon DEF Behind
    <3> QED BY <3>1, <3>2
  <2> QED BY <2>3, <1>1, <1>2, SameDisk, Zenon DEF Working, BoundBehind
<1>15. ImportsListed'
  <2> SUFFICES ASSUME NEW y \in Listed \ Unscanned, NEW j \in DOMAIN Imports(y),
                      \A k \in Active(y)' : j < stack'[k].at
               PROVE  Imports(y)[j].dll \in Listed
    BY <1>1, <1>5, <1>6, SameDisk, Zenon DEF ImportsListed
  <2>1. ASSUME NEW k \in Active(y)
        PROVE  j < stack[k].at
    <3>1. k \in DOMAIN stack /\ stack[k].image = y
      BY Zenon DEF Active
    <3>2. CASE k # n
      <4>1. k \in DOMAIN stack' /\ k \in Active(y)'
        BY <3>1, <3>2, <1>3, <1>7, Zenon
      <4> QED BY <4>1, <1>3, Zenon
    <3>3. CASE k = n
      <4>1. y = x /\ stack[k].at = Top.at
        BY <3>1, <3>3, <1>2, Zenon
      <4> QED BY <4>1, <1>1, <1>2, <1>4, ImportsTyped
    <3> QED BY <3>2, <3>3
  <2> QED BY <2>1, <1>2, Zenon DEF Working, ImportsListed
<1>16. Counting'
  <2>1. ASSUME NEW y \in Listed, NEW j \in DOMAIN Imports(y), y # x
        PROVE  j \in Counted(y)' <=> j \in Counted(y)
    <3>1. \A k \in Active(y) : k \in DOMAIN stack' /\ k # n
      BY <2>1, <1>2, <1>3, Zenon DEF Active
    <3>2. \A k \in Active(y) : stack'[k] = stack[k] /\ k < n
      BY <3>1, <1>2, <1>3
    <3>3. Active(y)' = Active(y)
      BY <3>1, <1>7
    <3> QED BY <3>2, <3>3, <1>1, <1>5, <1>6, CountedBelow, Zenon
  <2>2. ASSUME NEW y \in Listed, NEW j \in DOMAIN Imports(y), y = x
        PROVE  j \in Counted(y)' <=> j \in Counted(y)
    <3>1. j < stack[n].at
      BY <2>2, <1>1, <1>2, <1>4, ImportsTyped
    <3>2. Active(y) = {n} /\ Active(y)' = {} /\ y \notin Unscanned
      BY <2>2, <1>2, <1>7
    <3>3. j \in Counted(y)
      BY <3>1, <3>2, CountedAre, Zenon
    <3>4. j \in Counted(y)'
      BY <3>2, <1>1, <1>6, CountedNext, Zenon
    <3> QED BY <3>3, <3>4
  <2> QED BY <2>1, <2>2, <1>1, <1>2, <1>5, SameCounts, Zenon DEF Working
<1> QED BY <1>8, <1>9, <1>10, <1>11, <1>12, <1>13, <1>14, <1>15, <1>16, Zenon DEF Inv, Working

LEMMA ImportDllInv ==
    ASSUME Inv, ImportDll, NEW n, NEW x, n = Len(stack), x = Descriptor.dll
    PROVE  Inv'
<1>1. /\ TypeOK /\ EachOnce /\ BoundAsNamed
      /\ pc = "scan" /\ pc \in Scanning /\ AtDescriptor /\ x # Top.image /\ ~OnList(x)
  BY Zenon DEF Inv, ImportDll, Scanning
<1>2. /\ Working /\ stack \in Seq(Frames) /\ stack # <<>> /\ n \in Nat \ {0}
      /\ DOMAIN stack = 1 .. n /\ Top = stack[n] /\ Top.image \in Images
      /\ Top.image \in Listed \ Unscanned /\ Listed \subseteq Images
      /\ Top.at \in DOMAIN Imports(Top.image) /\ Descriptor = Imports(Top.image)[Top.at]
  BY <1>1, TopIs, Zenon
<1>3. x \in Images /\ x \notin Listed
  BY <1>1, <1>2, ImportsTyped, ListedAre, Zenon
<1>4. loads[x] = 0
  BY <1>1, <1>2, <1>3 DEF Working, LoadedListed
<1>5. CASE LoadFails
  <2>1. PICK why : Fail(why) /\ UNCHANGED <<loads, list, count, iat>>
    BY <1>5, Zenon DEF LoadFails
  <2>2. loads' \in [Images -> Nat] /\ \A y \in Images : loads'[y] <= 1
    BY <1>1, <2>1, Zenon DEF TypeOK, EachOnce
  <2> QED BY <2>1, <2>2, FailStep, Zenon
<1>6. Load(x) => /\ loads' \in [Images -> Nat] /\ \A y \in Images : loads'[y] <= 1
                 /\ \A y \in Images : y # x => loads'[y] = loads[y]
  BY <1>1, <1>3, <1>4, LoadedAgain, Zenon
<1>7. CASE Load(x) /\ NoMemory
  BY <1>6, <1>7, NoMemoryInv, Zenon
<1>8. CASE /\ Load(x) /\ Enter(x)
           /\ stack' = Append(stack, Activation(x))
           /\ Goto("scan")
           /\ UNCHANGED iat
  <2>1. pc' = "scan" /\ pc' \in Scanning /\ UNCHANGED <<disk, iat, thunk>>
    BY <1>8 DEF Goto, Scanning
  <2>2. /\ list' \in Seq(Images) /\ count' \in [Images -> Nat]
        /\ \A i, j \in DOMAIN list' : list'[i] = list'[j] => i = j
        /\ Listed' = Listed \cup {x}
    BY <1>1, <1>3, <1>8, EnteredOnce, Zenon
  <2>3. /\ stack' \in Seq(Frames) /\ Len(stack') = n + 1 /\ stack' # <<>>
        /\ DOMAIN stack' = DOMAIN stack \cup {n + 1}
        /\ \A k \in DOMAIN stack : stack'[k] = stack[k]
        /\ stack'[n + 1].image = x /\ stack'[n + 1].at = 1
    <3>1. stack' = Append(stack, Activation(x))
      BY <1>8
    <3>2. /\ stack' \in Seq(Frames) /\ Len(stack') = n + 1 /\ stack' # <<>>
          /\ DOMAIN stack' = DOMAIN stack \cup {n + 1}
          /\ \A k \in DOMAIN stack : stack'[k] = stack[k]
          /\ stack'[n + 1] = [image |-> x, at |-> 1]
      BY <1>2, <1>3, <3>1, Pushed, Zenon
    <3> QED BY <3>2
  <2>4. n + 1 \notin DOMAIN stack /\ 1 \in DOMAIN stack
    BY <1>2
  <2>5. Unscanned' = Unscanned /\ Kernel \in Listed /\ Hal \in Listed /\ x \notin Unscanned
    <3>1. Unscanned' = Unscanned
      BY <1>1, <1>2, <2>1, <2>3, <2>4, SameUnscanned, Zenon
    <3>2. Len(list) >= 2 /\ list[1] = Kernel /\ list[2] = Hal /\ list \in Seq(Images)
      BY <1>1, <1>2 DEF Working, Phase, TypeOK
    <3>3. Kernel \in Listed /\ Hal \in Listed
      BY <3>2, FirstTwo
    <3>4. Unscanned \subseteq {Kernel, Hal}
      BY DEF Unscanned
    <3> QED BY <3>1, <3>3, <3>4, <1>3
  <2>6. /\ \A k \in DOMAIN stack : stack[k].image # x
        /\ \A y : y # x => Active(y)' = Active(y)
        /\ Active(x)' = {n + 1}
    <3>1. \A k \in DOMAIN stack : stack[k].image # x
      BY <1>2, <1>3, Zenon DEF Working, Chain
    <3> QED BY <3>1, <2>3, <2>4 DEF Active
  <2>7. TypeOK'
    <3>1. iat' \in [Places(disk)' -> Targets]
      BY <1>1, <2>1, SameDisk, Zenon DEF TypeOK
    <3>2. disk' \in Disks /\ thunk' \in Nat \ {0} /\ loads' \in [Images -> Nat]
      BY <1>1, <1>6, <1>8, <2>1, Zenon DEF TypeOK
    <3>3. pc' # "search"
      BY <2>1
    <3> QED BY <2>2, <2>3, <3>1, <3>2, <3>3, Zenon DEF TypeOK, Frames
  <2>8. EachOnce' /\ BoundAsNamed'
    <3>1. ASSUME NEW i \in DOMAIN stack', NEW j \in DOMAIN stack',
                 stack'[i].image = stack'[j].image
          PROVE  i = j
      <4>1. i \in DOMAIN stack \/ i = n + 1
        BY <2>3
      <4>2. j \in DOMAIN stack \/ j = n + 1
        BY <2>3
      <4>3. i \in DOMAIN stack => stack'[i].image = stack[i].image /\ stack[i].image # x
        BY <2>3, <2>6
      <4>4. j \in DOMAIN stack => stack'[j].image = stack[j].image /\ stack[j].image # x
        BY <2>3, <2>6
      <4>5. CASE i \in DOMAIN stack /\ j \in DOMAIN stack
        BY <3>1, <4>3, <4>4, <4>5, <1>1, Zenon DEF EachOnce
      <4> QED BY <3>1, <4>1, <4>2, <4>3, <4>4, <4>5, <2>3
    <3>2. EachOnce'
      BY <1>6, <1>8, <2>2, <3>1, Zenon DEF EachOnce
    <3> QED BY <3>2, <1>1, <2>1, BoundKept
  <2>9. Phase'
    <3>1. Len(list') >= 2 /\ list'[1] = Kernel /\ list'[2] = Hal
      <4>1. Len(list) >= 2 /\ list[1] = Kernel /\ list[2] = Hal /\ list \in Seq(Images)
        BY <1>1, <1>2 DEF Working, Phase, TypeOK
      <4>2. list' = Append(list, x)
        BY <1>8 DEF Enter
      <4> QED BY <1>3, <4>1, <4>2
    <3> QED BY <3>1, <2>1, <2>3 DEF Phase, Scanning
  <2>10. LoadedListed'
    BY <1>1, <1>2, <1>6, <1>8, <2>2 DEF Working, LoadedListed
  <2>11. InHand' /\ Narrowed'
    BY <2>1 DEF InHand, Narrowed
  <2>12. Chain'
    <3>1. stack'[1].image \in {Kernel, Hal}
      BY <1>2, <2>3, <2>4, Zenon DEF Working, Chain
    <3>2. \A k \in DOMAIN stack' : stack'[k].image \in Listed' \ Unscanned'
      BY <1>2, <2>2, <2>3, <2>5, Zenon DEF Working, Chain
    <3>3. ASSUME NEW k \in DOMAIN stack', k < Len(stack')
          PROVE  /\ stack'[k].at <= Len(Imports(stack'[k].image))
                 /\ Imports(stack'[k].image)[stack'[k].at].dll = stack'[k + 1].image
      <4>1. k \in DOMAIN stack
        BY <3>3, <2>3
      <4>2. CASE k = n
        <5>1. stack'[k] = Top /\ stack'[k + 1].image = x
          BY <4>1, <4>2, <1>2, <2>3, Zenon
        <5>2. Top.at <= Len(Imports(Top.image))
          BY <1>1, <1>2, ImportsTyped, Zenon
        <5> QED BY <5>1, <5>2, <1>2, Zenon
      <4>3. CASE k # n
        <5>1. k < n /\ k + 1 \in DOMAIN stack
          BY <4>1, <4>3, <1>2
        <5>2. stack'[k] = stack[k] /\ stack'[k + 1] = stack[k + 1]
          BY <4>1, <5>1, <2>3, Zenon
        <5>3. /\ stack[k].at <= Len(Imports(stack[k].image))
              /\ Imports(stack[k].image)[stack[k].at].dll = stack[k + 1].image
          BY <4>1, <5>1, <1>2, Zenon DEF Working, Chain
        <5> QED BY <5>2, <5>3, Zenon
      <4> QED BY <4>2, <4>3
    <3> QED BY <3>1, <3>2, <3>3, <2>1, ChainNow, Zenon
  <2>13. BoundBehind'
    <3>1. ASSUME NEW p \in Places(disk), p[1] = x
          PROVE  ~Behind(p) /\ ~Behind(p)'
      <4>1. ~(p[2] < stack'[n + 1].at)
        BY <1>1, <2>3, <3>1, PlaceIndices
      <4>2. \A k \in {n + 1} : ~Passed(p, k)'
        BY <4>1, <2>1, Zenon DEF Passed
      <4> QED BY <3>1, <4>2, <1>3, <2>6, Zenon DEF Behind
    <3>2. ASSUME NEW p \in Places(disk), p[1] # x
          PROVE  Behind(p)' <=> Behind(p)
      <4>1. \A k \in Active(p[1]) : Passed(p, k)' <=> Passed(p, k)
        BY <1>1, <2>1, <2>3, Zenon DEF Passed, Active
      <4> QED BY <3>2, <4>1, <2>2, <2>5, <2>6, Zenon DEF Behind
    <3>3. \A p \in Places(disk) : Behind(p)' <=> Behind(p)
      BY <3>1, <3>2, Zenon
    <3> QED BY <3>3, <1>2, <2>1, SameDisk, Zenon DEF Working, BoundBehind
  <2>14. ImportsListed'
    <3> SUFFICES ASSUME NEW y \in Listed', y \notin Unscanned, NEW j \in DOMAIN Imports(y),
                        \A k \in Active(y)' : j < stack'[k].at
                 PROVE  Imports(y)[j].dll \in Listed'
      BY <2>1, <2>5, SameDisk, Zenon DEF ImportsListed
    <3>1. y # x
      <4>1. ASSUME y = x PROVE FALSE
        <5>1. j < 1
          BY <4>1, <2>3, <2>6, Zenon
        <5>2. j \in Nat /\ 1 <= j
          BY <4>1, <1>1, <1>3, ImportsTyped, Zenon
        <5> QED BY <5>1, <5>2
      <4> QED BY <4>1
    <3>2. y \in Listed \ Unscanned /\ \A k \in Active(y) : j < stack[k].at
      BY <3>1, <2>2, <2>3, <2>6, Zenon DEF Active
    <3>3. Imports(y)[j].dll \in Listed
      BY <3>2, <1>2, Zenon DEF Working, ImportsListed
    <3> QED BY <3>3, <2>2, Zenon
  <2>15. Reached'
    <3> SUFFICES ASSUME NEW set \in SUBSET Images, {Kernel, Hal} \subseteq set,
                        Needed(set) \subseteq set
                 PROVE  Listed' \subseteq set
      BY <2>1, SameDisk, Zenon DEF Reached
    <3>1. Listed \subseteq set
      BY <1>2, Zenon DEF Working, Reached
    <3>2. x \in Needed(set)
      <4>1. Top.image \in set
        BY <3>1, <1>2
      <4> QED BY <4>1, <1>2, NeededAre, Zenon
    <3> QED BY <3>1, <3>2, <2>2
  <2>16. Counting'
    <3>1. PICK w, j : w = Top.image /\ j = Top.at
      OBVIOUS
    <3>2. /\ w \in Listed \ Unscanned /\ j \in DOMAIN Imports(w) /\ w # x
          /\ Imports(w)[j].dll = x /\ Active(w) = {n} /\ stack[n].at = j /\ j \in Nat
      BY <3>1, <1>1, <1>2, TopIs, Zenon
    <3>3. \A i : i \in Counted(w) <=> i \in DOMAIN Imports(w) /\ i < j
      <4>1. ~(n < Len(stack))
        BY <1>2
      <4> QED BY <4>1, <3>2, <1>1, CountedAre, Zenon
    <3>4. \A i : i \in Counted(w)' <=> i \in DOMAIN Imports(w) /\ (i < j \/ i = j)
      <4>1. n < Len(stack') /\ stack'[n].at = j
        BY <1>2, <2>3, <3>2
      <4>2. Active(w)' = {n} /\ w \notin Unscanned'
        BY <3>2, <2>5, <2>6, Zenon
      <4> QED BY <4>1, <4>2, <2>1, CountedNext, Zenon
    <3>5. \A i : i \notin Counted(x)'
      <4>1. ~(n + 1 < Len(stack')) /\ pc' = "scan"
        BY <1>2, <2>1, <2>3
      <4>2. ASSUME NEW i \in DOMAIN Imports(x) PROVE ~(i < 1)
        <5>1. i \in Nat /\ 1 <= i
          BY <1>1, <1>3, ImportsTyped, Zenon
        <5> QED BY <5>1
      <4> QED BY <4>1, <4>2, <2>1, <2>3, <2>6, CountedNext, Zenon
    <3>6. ASSUME NEW y \in Listed, NEW i \in DOMAIN Imports(y), y # w
          PROVE  i \in Counted(y)' <=> i \in Counted(y)
      <4>1. y # x /\ Active(y)' = Active(y)
        BY <1>3, <2>6, Zenon
      <4>2. \A k \in Active(y) : k < Len(stack) /\ k < Len(stack') /\ stack'[k] = stack[k]
        <5>1. \A k \in Active(y) : k \in DOMAIN stack /\ k # n
          BY <3>1, <3>6, <1>2, Zenon DEF Active
        <5> QED BY <5>1, <1>2, <2>3
      <4> QED BY <4>1, <4>2, <2>1, <2>5, CountedBelow, Zenon
    <3>7. \A y \in Listed' : \A i \in DOMAIN Imports(y) :
           Imports(y)[i].dll # y => (i \in Counted(y)' <=>
               \/ y \in Listed /\ i \in Counted(y)
               \/ y = w /\ i = j)
      BY <1>3, <2>2, <3>2, <3>3, <3>4, <3>5, <3>6, Zenon
    <3>8. References(x) = {}
      <4>1. ASSUME NEW y \in Listed, NEW i \in Counted(y)
            PROVE  Imports(y)[i].dll \in Listed
        <5>1. /\ y \notin Unscanned /\ i \in DOMAIN Imports(y)
              /\ \A k \in Active(y) : i < stack[k].at \/ (i = stack[k].at /\ k < n)
          BY <1>1, CountedAre, Zenon
        <5>2. CASE \A k \in Active(y) : i < stack[k].at
          BY <5>1, <5>2, <1>2, Zenon DEF Working, ImportsListed
        <5>3. CASE \E k \in Active(y) : i = stack[k].at /\ k < n
          <6>1. PICK k \in Active(y) : i = stack[k].at /\ k < n
            BY <5>3
          <6>2. k \in DOMAIN stack /\ stack[k].image = y
            BY Zenon DEF Active
          <6>3. k + 1 \in DOMAIN stack
            BY <6>1, <6>2, <1>2
          <6> QED BY <6>1, <6>2, <6>3, <1>2, Zenon DEF Working, Chain
        <5> QED BY <5>1, <5>2, <5>3, Zenon
      <4>2. \A z : z \notin References(x)
        BY <4>1, <1>3, ReferencesAre
      <4> QED BY <4>2
    <3>9. IsFiniteSet(References(x)) /\ Cardinality(References(x)) = 0
      BY <3>8, FS_EmptySet
    <3>10. count' = [count EXCEPT ![x] = 1] /\ count \in [Images -> Nat] /\ Own(x) = 0
      BY <1>1, <1>3, <1>8, <2>5 DEF Enter, TypeOK, Own
    <3>11. count'[x] = Cardinality(References(x)) + 1 + Own(x)
      BY <1>3, <3>9, <3>10
    <3>12. \A y \in Listed : y # x => count'[y] = count[y]
      BY <1>2, <3>10
    <3>13. j \notin Counted(w)
      BY <3>2, <3>3
    <3>14. Counting /\ disk' = disk /\ Listed' = Listed \cup {x}
      BY <1>2, <2>1, <2>2, Zenon DEF Working
    <3> QED BY <3>2, <3>7, <3>9, <3>11, <3>12, <3>13, <3>14, OneMore
  <2> QED BY <2>7, <2>8, <2>9, <2>10, <2>11, <2>12, <2>13, <2>14, <2>15, <2>16, Zenon DEF Inv, Working
<1> QED BY <1>5, <1>7, <1>8, Zenon DEF ImportDll

-----------------------------------------------------------------------------
(* What the export directory resolves the thunk in hand to.                *)

\* What the steps of binding find in hand.
LEMMA InHandIs ==
    ASSUME Inv, pc \in {"bind", "search"}, Exports # NoExports,
           thunk <= Len(Descriptor.thunks)
    PROVE  /\ Top.at \in DOMAIN Imports(Top.image)
           /\ Descriptor = Imports(Top.image)[Top.at]
           /\ Descriptor.dll \in Listed /\ Descriptor.dll # Top.image
           /\ Descriptor.dll \in Images
           /\ thunk \in DOMAIN Descriptor.thunks /\ thunk \in Nat
           /\ Thunk \in Thunks
           /\ Here \in Places(disk)
           /\ Exports \in Directories /\ Sorted(Exports.names)
           /\ Len(Exports.ordinals) = Len(Exports.names)
           /\ Exports.base + Exports.functions <= Word
<1>1. TypeOK /\ pc \in Scanning /\ thunk \in Nat \ {0}
  BY DEF Inv, TypeOK, Scanning
<1>2. /\ Working /\ Top.image \in Images /\ Listed \subseteq Images
      /\ AtDescriptor <=> Top.at \in DOMAIN Imports(Top.image)
      /\ Descriptor = Imports(Top.image)[Top.at]
  BY <1>1, TopIs, Zenon
<1>3. /\ AtDescriptor /\ Descriptor.dll \in Listed /\ Descriptor.dll # Top.image
      /\ Descriptor.dll \in Images
  BY <1>2 DEF Working, InHand
<1>4. Descriptor.thunks \in Seq(Thunks)
  BY <1>1, <1>2, <1>3, ImportsTyped, Zenon
<1>5. thunk \in DOMAIN Descriptor.thunks
  <2> DEFINE s == Descriptor.thunks
  <2>1. s \in Seq(Thunks) /\ thunk <= Len(s)
    BY <1>4
  <2> HIDE DEF s
  <2>2. thunk \in DOMAIN s
    BY <2>1, <1>1
  <2> QED BY <2>2 DEF s
<1>6. Thunk \in Thunks
  BY <1>4, <1>5, ElementIn, Zenon DEF Thunk
<1>7. Here \in Places(disk)
  BY <1>2, <1>3, <1>5, PlacesAre, Zenon DEF Here
<1>8. /\ Exports \in Directories /\ Sorted(Exports.names)
      /\ Len(Exports.ordinals) = Len(Exports.names)
      /\ Exports.base + Exports.functions <= Word
  BY <1>1, <1>3, ExportsTyped, Zenon DEF Exports
<1> QED BY <1>1, <1>2, <1>3, <1>5, <1>6, <1>7, <1>8, Zenon

LEMMA ResolutionsHere ==
    ASSUME Exports # NoExports
    PROVE  /\ Thunk.kind = "ordinal" =>
                 Resolutions(Here) = {f \in {Thunk.ordinal - Exports.base} :
                                          0 <= f /\ f < Exports.functions}
           /\ Thunk.kind # "ordinal" =>
                 Resolutions(Here) =
                     {f \in {Exports.ordinals[k] :
                                k \in {n \in DOMAIN Exports.names :
                                          Exports.names[n] = Thunk.symbol}} :
                          f < Exports.functions}
<1>1. Here[1] = Top.image /\ Here[2] = Top.at /\ Here[3] = thunk
  BY DEF Here
<1> DEFINE descriptor == disk[Here[1]].imports[Here[2]]
<1>2. descriptor = Descriptor /\ descriptor.thunks[Here[3]] = Thunk
  BY <1>1, Zenon DEF Descriptor, Thunk
<1>3. disk[descriptor.dll].exports = Exports
  BY <1>2, Zenon DEF Exports
<1> QED BY <1>2, <1>3 DEF Resolutions

LEMMA Wraps ==
    ASSUME NEW want \in Nat, NEW base \in Nat, want < Word, base <= Word
    PROVE  /\ (want - base) % Word \in Nat
           /\ want >= base => (want - base) % Word = want - base
           /\ want < base => (want - base) % Word = want - base + Word
<1>1. ASSUME NEW w \in Nat \ {0}, NEW x \in Int
      PROVE  /\ x % w \in Nat
             /\ 0 <= x /\ x < w => x % w = x
             /\ x < 0 /\ -w <= x => x % w = x + w
  OBVIOUS
<1>2. want - base \in Int /\ -Word <= want - base /\ want - base < Word
  BY ImageAssumption
<1>3. 0 <= want - base <=> want >= base
  OBVIOUS
<1> DEFINE x == want - base
<1>4. x \in Int /\ -Word <= x /\ x < Word /\ (0 <= x <=> want >= base)
  BY <1>2, <1>3
<1> HIDE DEF x
<1>5. /\ x % Word \in Nat
      /\ want >= base => x % Word = x
      /\ want < base => x % Word = x + Word
  BY <1>1, <1>4, ImageAssumption
<1> QED BY <1>5 DEF x

LEMMA OrdinalResolves ==
    ASSUME Inv, pc \in {"bind", "search"}, Exports # NoExports,
           thunk <= Len(Descriptor.thunks), Thunk.kind = "ordinal",
           NEW o, o = (Thunk.ordinal - Exports.base) % Word
    PROVE  /\ o \in Nat
           /\ o < Exports.functions => o \in Resolutions(Here)
           /\ ~(o < Exports.functions) => Resolutions(Here) = {}
<1>1. /\ Thunk \in Thunks /\ Exports \in Directories
      /\ Exports.base + Exports.functions <= Word
  BY InHandIs, Zenon
<1>2. /\ Thunk.ordinal \in Nat /\ Thunk.ordinal < Word
      /\ Exports.base \in Nat /\ Exports.functions \in Nat /\ Word \in Nat \ {0}
  BY <1>1, ImageAssumption DEF Thunks, Directories
<1> DEFINE want == Thunk.ordinal
           base == Exports.base
           functions == Exports.functions
<1>3. /\ o \in Nat
      /\ want >= base => o = want - base
      /\ want < base => o = want - base + Word
  <2> HIDE DEF want, base, functions
  <2>1. /\ want \in Nat /\ want < Word /\ base \in Nat /\ base <= Word
        /\ o = (want - base) % Word
    BY <1>1, <1>2 DEF want, base, functions
  <2> QED BY <2>1, Wraps, <1>2
<1>4. Resolutions(Here) = {f \in {want - base} : 0 <= f /\ f < functions}
  BY ResolutionsHere, Zenon
<1>5. want < base => ~(o < functions)
  BY <1>1, <1>2, <1>3
<1>6. o < functions => o = want - base
  BY <1>2, <1>3, <1>5
<1>7. ~(o < functions) => ~(0 <= want - base /\ want - base < functions)
  BY <1>2, <1>3
<1> HIDE DEF want, base, functions
<1>8. o < functions => o \in Resolutions(Here)
  BY <1>3, <1>4, <1>6
<1>9. ~(o < functions) => Resolutions(Here) = {}
  BY <1>4, <1>7
<1> QED BY <1>3, <1>8, <1>9 DEF functions

LEMMA NameResolves ==
    ASSUME Inv, pc \in {"bind", "search"}, Exports # NoExports,
           thunk <= Len(Descriptor.thunks), Thunk.kind = "name",
           NEW i \in Nat, i < Names, NameTable(i) = Thunk.symbol,
           NEW o, o = OrdinalTable(i)
    PROVE  /\ o \in Nat
           /\ o < Exports.functions => o \in Resolutions(Here)
           /\ ~(o < Exports.functions) => Resolutions(Here) = {}
<1>1. /\ Exports \in Directories /\ Sorted(Exports.names)
      /\ Len(Exports.ordinals) = Len(Exports.names)
  BY InHandIs, Zenon
<1>2. Exports.names \in Seq(Nat) /\ Exports.ordinals \in Seq(Nat)
  BY <1>1 DEF Directories
<1> DEFINE names == Exports.names
           ordinals == Exports.ordinals
<1>3. /\ names[i + 1] = Thunk.symbol /\ o = ordinals[i + 1] /\ i < Len(names)
  BY DEF NameTable, OrdinalTable, Names
<1>4. /\ \A k \in DOMAIN names : k \in Nat /\ names[k] \in Nat
      /\ \A j, k \in DOMAIN names : j < k => names[j] < names[k]
      /\ i + 1 \in DOMAIN names /\ o \in Nat
  <2> HIDE DEF names, ordinals
  <2>1. /\ names \in Seq(Nat) /\ ordinals \in Seq(Nat) /\ Len(ordinals) = Len(names)
        /\ Sorted(names)
    BY <1>1, <1>2 DEF names, ordinals
  <2>2. \A k \in DOMAIN names : k \in Nat /\ names[k] \in Nat
    BY <2>1
  <2>3. i + 1 \in DOMAIN names /\ i + 1 \in DOMAIN ordinals
    BY <2>1, <1>3
  <2>4. \A j, k \in DOMAIN names : j < k => names[j] < names[k]
    BY <2>1, Zenon DEF Sorted
  <2> QED BY <2>1, <2>2, <2>3, <2>4, <1>3
<1>5. \A k \in DOMAIN names : names[k] = Thunk.symbol => k = i + 1
  <2> SUFFICES ASSUME NEW k \in DOMAIN names, names[k] = Thunk.symbol, k # i + 1
               PROVE  FALSE
    OBVIOUS
  <2>1. k < i + 1 \/ i + 1 < k
    BY <1>4
  <2>2. ~(names[k] < names[i + 1]) /\ ~(names[i + 1] < names[k])
    BY <1>3, <1>4
  <2> QED BY <2>1, <2>2, <1>4, Zenon
<1>6. Resolutions(Here) =
         {f \in {ordinals[k] : k \in {n \in DOMAIN names : names[n] = Thunk.symbol}} :
              f < Exports.functions}
  <2>1. Thunk.kind # "ordinal"
    OBVIOUS
  <2> QED BY <2>1, ResolutionsHere, Zenon
<1>7. {n \in DOMAIN names : names[n] = Thunk.symbol} = {i + 1}
  <2> HIDE DEF names
  <2> QED BY <1>3, <1>4, <1>5
<1>8. Resolutions(Here) = {f \in {o} : f < Exports.functions}
  <2> HIDE DEF names, ordinals
  <2>1. {ordinals[k] : k \in {i + 1}} = {o}
    BY <1>3
  <2> QED BY <1>6, <1>7, <2>1, Zenon
<1> QED BY <1>4, <1>8

LEMMA NoNameResolves ==
    ASSUME Inv, pc \in {"bind", "search"}, Exports # NoExports,
           thunk <= Len(Descriptor.thunks), Thunk.kind = "name",
           \A k \in 0 .. (Names - 1) : NameTable(k) # Thunk.symbol
    PROVE  Resolutions(Here) = {}
<1>1. Exports.names \in Seq(Nat)
  BY InHandIs, Zenon DEF Directories
<1> DEFINE names == Exports.names
<1>2. \A n \in DOMAIN names : names[n] # Thunk.symbol
  <2>1. \A k \in 0 .. (Len(names) - 1) : names[k + 1] # Thunk.symbol
    BY DEF NameTable, Names
  <2> HIDE DEF names
  <2>2. ASSUME NEW n \in DOMAIN names PROVE n - 1 \in 0 .. (Len(names) - 1) /\ (n - 1) + 1 = n
    BY <1>1 DEF names
  <2> QED BY <2>1, <2>2
<1>3. Thunk.kind # "ordinal"
  OBVIOUS
<1>4. {n \in DOMAIN names : names[n] = Thunk.symbol} = {}
  BY <1>2
<1> QED BY <1>3, <1>4, ResolutionsHere

-----------------------------------------------------------------------------
(* The steps that bind.                                                    *)

\* A thunk is in hand.
AtAThunk == pc \in {"bind", "search"} /\ Exports # NoExports /\ thunk <= Len(Descriptor.thunks)

LEMMA BoundNow ==
    ASSUME Inv, AtAThunk, NEW o \in Nat, o \in Resolutions(Here), NEW dll, dll = Descriptor.dll,
           iat' = [iat EXCEPT ![Here] = IF @ = Raw THEN Function(Descriptor.dll, o) ELSE Nonsense],
           pc' = "bind", thunk' = thunk + 1,
           UNCHANGED <<disk, loads, list, count, stack>>,
           NEW here, here = Here, NEW n, n = Len(stack)
    PROVE  Inv'
<1>1. /\ TypeOK /\ EachOnce /\ BoundAsNamed /\ Working
      /\ pc \in Scanning /\ pc' \in Scanning /\ pc # "scan" /\ pc' # "scan" /\ pc' # "search"
      /\ stack # <<>> /\ Top.image \in Listed \ Unscanned
      /\ Active(Top.image) = {n} /\ Top = stack[n] /\ Top.at \in Nat \ {0}
  <2>1. pc \in Scanning /\ pc' \in Scanning /\ pc # "scan" /\ pc' # "scan" /\ pc' # "search"
    BY DEF AtAThunk, Scanning
  <2> QED BY <2>1, TopIs, Zenon DEF Inv
<1>2. /\ dll \in Images /\ dll # Top.image /\ thunk \in Nat /\ here \in Places(disk)
      /\ Descriptor = Imports(Top.image)[Top.at]
  BY InHandIs, Zenon DEF AtAThunk
<1>3. here[1] = Top.image /\ here[2] = Top.at /\ here[3] = thunk
  BY DEF Here
<1>4. DllAt(here) = dll /\ DllAt(here) # here[1]
  BY <1>2, <1>3, Zenon DEF DllAt
<1>5. iat[here] = Raw
  <2>1. ~Passed(here, n)
    <3>1. here[2] = stack[n].at /\ ~(here[2] < stack[n].at) /\ ~(here[3] < thunk)
      BY <1>1, <1>2, <1>3
    <3> QED BY <3>1, Zenon DEF Passed
  <2>2. ~Behind(here)
    BY <1>1, <1>3, <2>1, Zenon DEF Behind
  <2> QED BY <1>1, <1>2, <2>2, Zenon DEF Working, BoundBehind
<1>6. /\ iat \in [Places(disk) -> Targets] /\ iat' \in [Places(disk) -> Targets]
      /\ iat'[here] = Function(dll, o)
      /\ \A p \in Places(disk) : p # here => iat'[p] = iat[p]
  <2>1. iat \in [Places(disk) -> Targets]
    BY <1>1, Zenon DEF TypeOK
  <2>2. Function(dll, o) \in Targets
    BY <1>2 DEF Function, Targets
  <2>3. iat' = [iat EXCEPT ![here] = Function(dll, o)]
    BY <1>5, Zenon
  <2> QED BY <1>2, <2>1, <2>2, <2>3, Zenon
<1>7. Function(dll, o) # Raw /\ Function(dll, o).kind = "function"
      /\ Function(dll, o).dll = dll /\ Function(dll, o).index = o
  BY DEF Function, Raw
<1>8. TypeOK'
  <2>1. iat' \in [Places(disk)' -> Targets]
    BY <1>6, SameDisk, Zenon
  <2>2. thunk' \in Nat \ {0}
    BY <1>2
  <2> QED BY <1>1, <2>1, <2>2, Zenon DEF TypeOK
<1>9. EachOnce'
  BY <1>1, Zenon DEF EachOnce
<1>10. BoundAsNamed'
  <2>1. ASSUME NEW p \in Places(disk)
        PROVE  \/ iat'[p] = Raw
               \/ /\ iat'[p].kind = "function" /\ iat'[p].dll = DllAt(p)
                  /\ iat'[p].index \in Resolutions(p)
    <3>1. CASE p = here
      BY <3>1, <1>4, <1>6, <1>7, Zenon
    <3>2. CASE p # here
      BY <3>2, <1>1, <1>6, Zenon DEF BoundAsNamed, DllAt, Imports
    <3> QED BY <3>1, <3>2
  <2> QED BY <2>1, SameDisk, Zenon DEF BoundAsNamed, DllAt, Imports
<1>11. Phase' /\ LoadedListed' /\ Reached' /\ Listed' = Listed
  BY <1>1, ScanKeeps, Zenon
<1>12. Unscanned' = Unscanned /\ \A y : Active(y)' = Active(y)
  BY <1>1, SameUnscanned, Zenon DEF Active
<1>13. InHand' /\ Narrowed'
  <2>1. AtDescriptor' = AtDescriptor /\ Top' = Top /\ Descriptor' = Descriptor
    BY Zenon DEF AtDescriptor, Descriptor, Top
  <2>2. AtDescriptor /\ Descriptor.dll \in Listed
    BY <1>1, Zenon DEF Working, InHand, AtAThunk
  <2> QED BY <2>1, <2>2, <1>1, <1>2, <1>11, Zenon DEF InHand, Narrowed
<1>14. Chain' /\ ImportsListed'
  BY <1>1, <1>11, <1>12, SameDisk, Zenon DEF Working, Chain, ImportsListed
<1>15. BoundBehind'
  <2>1. ASSUME NEW p \in Places(disk), p # here, NEW k \in Active(p[1])
        PROVE  Passed(p, k)' <=> Passed(p, k)
    <3>1. CASE k # n
      BY <3>1, <1>1, Zenon DEF Passed
    <3>2. CASE k = n
      <4>1. p[1] = Top.image /\ p = <<p[1], p[2], p[3]>> /\ p[3] \in Nat
        BY <3>2, <1>1, PlacesAre, PlaceIndices, Zenon DEF Active
      <4>2. p[2] = stack[n].at => p[3] # thunk
        BY <4>1, <2>1, <1>1, Zenon DEF Here
      <4>3. p[2] = stack[n].at => (p[3] < thunk <=> p[3] < thunk')
        BY <4>1, <4>2, <1>2
      <4> QED BY <3>2, <4>3, <1>1, Zenon DEF Passed
    <3> QED BY <3>1, <3>2
  <2>2. Behind(here)'
    <3>1. thunk < thunk'
      BY <1>2
    <3>2. \A k \in {n} : Passed(here, k)'
      BY <3>1, <1>1, <1>3, Zenon DEF Passed
    <3> QED BY <3>2, <1>1, <1>3, <1>11, <1>12, Zenon DEF Behind
  <2>3. \A p \in Places(disk) : p # here => (Behind(p)' <=> Behind(p))
    BY <2>1, <1>11, <1>12, Zenon DEF Behind
  <2>4. ASSUME NEW p \in Places(disk)
        PROVE  iat'[p] # Raw <=> Behind(p)' /\ DllAt(p) # p[1]
    <3>1. CASE p = here
      BY <3>1, <2>2, <1>4, <1>6, <1>7, Zenon
    <3>2. CASE p # here
      BY <3>2, <2>3, <1>1, <1>6, Zenon DEF Working, BoundBehind
    <3> QED BY <3>1, <3>2
  <2> QED BY <2>4, SameDisk, Zenon DEF BoundBehind
<1>16. Counting'
  <2>1. \A y, i : i \in Counted(y)' <=> i \in Counted(y)
    BY <1>1, <1>12, CountedSame, Zenon
  <2> QED BY <2>1, <1>1, <1>11, SameCounts, Zenon DEF Working
<1> QED BY <1>8, <1>9, <1>10, <1>11, <1>13, <1>14, <1>15, <1>16, Zenon DEF Inv, Working

LEMMA BindInv ==
    ASSUME Inv, AtAThunk, NEW o \in Nat, Bind(o),
           o < Exports.functions => o \in Resolutions(Here)
    PROVE  Inv'
<1>1. CASE o < Exports.functions
  BY <1>1, BoundNow, Zenon DEF Bind
<1>2. CASE ~(o < Exports.functions)
  <2>1. Fail("EINVAL") /\ UNCHANGED <<loads, list, count, iat>>
    BY <1>2, Zenon DEF Bind
  <2>2. loads' \in [Images -> Nat] /\ \A y \in Images : loads'[y] <= 1
    BY <2>1, Zenon DEF Inv, TypeOK, EachOnce
  <2> QED BY <2>1, <2>2, FailStep, Zenon
<1> QED BY <1>1, <1>2

LEMMA BindByOrdinalInv == ASSUME Inv, BindByOrdinal PROVE Inv'
<1>1. AtAThunk /\ Thunk.kind = "ordinal" /\ Bind((Thunk.ordinal - Exports.base) % Word)
  BY DEF BindByOrdinal, AtThunk, AtAThunk
<1> QED BY <1>1, OrdinalResolves, BindInv, Zenon DEF AtAThunk

LEMMA HintIsName ==
    ASSUME Inv, AtAThunk, Thunk.kind = "name"
    PROVE  Thunk.hint \in Nat /\ Names \in Nat
<1>1. Thunk \in Thunks /\ Exports \in Directories
  BY InHandIs, Zenon DEF AtAThunk
<1>2. Thunk.hint \in Nat
  BY <1>1 DEF Thunks
<1>3. Exports.names \in Seq(Nat)
  BY <1>1 DEF Directories
<1>4. Names \in Nat
  <2> DEFINE names == Exports.names
  <2>1. names \in Seq(Nat)
    BY <1>3
  <2> HIDE DEF names
  <2>2. Len(names) \in Nat
    BY <2>1
  <2> QED BY <2>2 DEF names, Names
<1> QED BY <1>2, <1>4

LEMMA BindByHintInv == ASSUME Inv, BindByHint PROVE Inv'
<1>1. /\ AtAThunk /\ Thunk.kind = "name" /\ Bind(OrdinalTable(Thunk.hint))
      /\ Thunk.hint < Names /\ NameTable(Thunk.hint) = Thunk.symbol
  BY DEF BindByHint, AtThunk, AtAThunk, HintFits
<1>2. Thunk.hint \in Nat
  BY <1>1, HintIsName, Zenon
<1> QED BY <1>1, <1>2, NameResolves, BindInv, Zenon DEF AtAThunk

\* What the search stands on.
LEMMA SearchIs ==
    ASSUME Inv, Searching
    PROVE  /\ AtAThunk /\ Thunk.kind = "name" /\ Names \in Nat
           /\ low \in Nat /\ high \in Int /\ low <= high /\ high < Names
           /\ Middle \in Nat /\ low <= Middle /\ Middle <= high /\ Middle < Names
<1>1. TypeOK /\ pc = "search" /\ high >= low /\ Narrowed
  BY DEF Inv, Searching, Working
<1>2. AtAThunk /\ Thunk.kind = "name"
  BY <1>1 DEF Narrowed, AtAThunk
<1>3. Names \in Nat
  BY <1>2, HintIsName
<1>4. low \in 0 .. Names /\ high \in -1 .. (Names - 1)
  BY <1>1, Zenon DEF TypeOK
<1>5. low \in Nat /\ high \in Int /\ low <= high /\ high < Names
  BY <1>1, <1>3, <1>4
<1>6. Middle \in Nat /\ low <= Middle /\ Middle <= high
  BY <1>5 DEF Middle
<1> QED BY <1>2, <1>3, <1>5, <1>6

LEMMA BindByNameInv == ASSUME Inv, BindByName PROVE Inv'
<1>1. Searching /\ NameTable(Middle) = Thunk.symbol /\ Bind(OrdinalTable(Middle))
  BY DEF BindByName
<1>2. AtAThunk /\ Thunk.kind = "name" /\ Middle \in Nat /\ Middle < Names
  BY <1>1, SearchIs, Zenon
<1> QED BY <1>1, <1>2, NameResolves, BindInv, Zenon DEF AtAThunk

LEMMA SearchStep ==
    ASSUME Inv, AtAThunk, Thunk.kind = "name", pc' = "search",
           UNCHANGED <<disk, loads, list, count, iat, stack, thunk>>,
           low' \in 0 .. Names, high' \in -1 .. (Names - 1),
           \A k \in 0 .. (Names - 1) : NameTable(k) = Thunk.symbol => low' <= k /\ k <= high'
    PROVE  Inv'
<1>1. /\ TypeOK /\ EachOnce /\ BoundAsNamed /\ Working
      /\ pc \in Scanning /\ pc' \in Scanning /\ pc # "scan" /\ pc' # "scan"
      /\ stack # <<>>
  <2>1. pc \in Scanning /\ pc' \in Scanning /\ pc # "scan" /\ pc' # "scan"
    BY DEF AtAThunk, Scanning
  <2> QED BY <2>1, TopIs, Zenon DEF Inv
<1>2. /\ AtDescriptor' = AtDescriptor /\ Top' = Top /\ Descriptor' = Descriptor
      /\ Thunk' = Thunk /\ Exports' = Exports /\ Names' = Names
      /\ \A k : NameTable(k)' = NameTable(k)
  BY Zenon DEF AtDescriptor, Descriptor, Top, Thunk, Exports, Names, NameTable
<1>3. TypeOK'
  <2>1. iat' \in [Places(disk)' -> Targets]
    BY <1>1, SameDisk, Zenon DEF TypeOK
  <2> QED BY <1>1, <1>2, <2>1, Zenon DEF TypeOK
<1>4. EachOnce' /\ BoundAsNamed'
  BY <1>1, BoundKept, Zenon DEF EachOnce
<1>5. Phase' /\ LoadedListed' /\ Reached' /\ Listed' = Listed
  BY <1>1, ScanKeeps, Zenon
<1>6. Unscanned' = Unscanned /\ \A y : Active(y)' = Active(y)
  BY <1>1, SameUnscanned, Zenon DEF Active
<1>7. InHand'
  <2>1. AtDescriptor /\ Descriptor.dll \in Listed /\ Descriptor.dll # Top.image
    BY <1>1, Zenon DEF Working, InHand, AtAThunk
  <2> QED BY <2>1, <1>2, <1>5, Zenon DEF InHand
<1>8. Narrowed'
  BY <1>2, Zenon DEF Narrowed, AtAThunk
<1>9. Chain' /\ ImportsListed'
  BY <1>1, <1>5, <1>6, SameDisk, Zenon DEF Working, Chain, ImportsListed
<1>10. BoundBehind'
  <2>1. \A p, k : Passed(p, k)' <=> Passed(p, k)
    BY <1>1, Zenon DEF Passed
  <2>2. \A p \in Places(disk) : Behind(p)' <=> Behind(p)
    BY <2>1, <1>5, <1>6, Zenon DEF Behind
  <2> QED BY <2>2, <1>1, SameDisk, Zenon DEF Working, BoundBehind
<1>11. Counting'
  <2>1. \A y, i : i \in Counted(y)' <=> i \in Counted(y)
    BY <1>1, <1>6, CountedSame, Zenon
  <2> QED BY <2>1, <1>1, <1>5, SameCounts, Zenon DEF Working
<1> QED BY <1>3, <1>4, <1>5, <1>7, <1>8, <1>9, <1>10, <1>11, Zenon DEF Inv, Working

LEMMA StartSearchInv == ASSUME Inv, StartSearch PROVE Inv'
<1>1. /\ AtAThunk /\ Thunk.kind = "name" /\ pc' = "search"
      /\ UNCHANGED <<disk, loads, list, count, iat, stack, thunk>>
      /\ low' = 0 /\ high' = Names - 1
  BY DEF StartSearch, AtThunk, AtAThunk, LastName
<1>2. Names \in Nat
  BY <1>1, HintIsName
<1>3. /\ low' \in 0 .. Names /\ high' \in -1 .. (Names - 1)
      /\ \A k \in 0 .. (Names - 1) : low' <= k /\ k <= high'
  BY <1>1, <1>2
<1> QED BY <1>1, <1>3, SearchStep, Zenon

LEMMA ProbeInv == ASSUME Inv, Probe PROVE Inv'
<1>1. /\ Searching /\ NameTable(Middle) # Thunk.symbol /\ pc' = "search"
      /\ UNCHANGED <<disk, loads, list, count, iat, stack, thunk>>
      /\ \/ Thunk.symbol < NameTable(Middle) /\ low' = low /\ high' = Middle - 1
         \/ ~(Thunk.symbol < NameTable(Middle)) /\ low' = Middle + 1 /\ high' = high
  BY DEF Probe, Searching, LowerHalf, UpperHalf
<1>2. /\ AtAThunk /\ Thunk.kind = "name" /\ Names \in Nat
      /\ low \in Nat /\ high \in Int /\ low <= high /\ high < Names
      /\ Middle \in Nat /\ low <= Middle /\ Middle <= high /\ Middle < Names
  BY <1>1, SearchIs, Zenon
<1>3. low' \in 0 .. Names /\ high' \in -1 .. (Names - 1)
  BY <1>1, <1>2
<1>4. /\ \A k \in 0 .. (Names - 1) : NameTable(k) \in Nat
      /\ \A j, k \in 0 .. (Names - 1) : j < k => NameTable(j) < NameTable(k)
      /\ Thunk.symbol \in Nat
  <2>1. /\ Thunk \in Thunks /\ Exports.names \in Seq(Nat) /\ Sorted(Exports.names)
    BY <1>2, InHandIs, Zenon DEF AtAThunk, Directories
  <2>2. Thunk.symbol \in Nat
    BY <1>2, <2>1 DEF Thunks
  <2> DEFINE names == Exports.names
  <2>3. /\ names \in Seq(Nat)
        /\ \A j, k \in DOMAIN names : j < k => names[j] < names[k]
    BY <2>1, Zenon DEF Sorted
  <2>4. Names = Len(names) /\ \A k : NameTable(k) = names[k + 1]
    BY DEF Names, NameTable
  <2> HIDE DEF names
  <2>5. \A k \in 0 .. (Names - 1) : k + 1 \in DOMAIN names /\ names[k + 1] \in Nat
    BY <2>3, <2>4
  <2>6. \A j, k \in 0 .. (Names - 1) : j < k => names[j + 1] < names[k + 1]
    BY <2>3, <2>5, <1>2
  <2> QED BY <2>2, <2>4, <2>5, <2>6, Zenon
<1>5. \A k \in 0 .. (Names - 1) : NameTable(k) = Thunk.symbol => low <= k /\ k <= high
  BY <1>1, Zenon DEF Inv, Working, Narrowed, Searching
<1>6. ASSUME NEW k \in 0 .. (Names - 1), NameTable(k) = Thunk.symbol
      PROVE  low' <= k /\ k <= high'
  <2>1. low <= k /\ k <= high /\ k # Middle
    BY <1>1, <1>5, <1>6, Zenon
  <2>2. Middle \in 0 .. (Names - 1) /\ k \in Int
    BY <1>2
  <2>3. k < Middle => Thunk.symbol < NameTable(Middle)
    BY <1>4, <1>6, <2>2, Zenon
  <2>4. Middle < k => NameTable(Middle) < Thunk.symbol
    BY <1>4, <1>6, <2>2, Zenon
  <2>5. ~(NameTable(Middle) < Thunk.symbol /\ Thunk.symbol < NameTable(Middle))
    BY <1>4, <2>2
  <2> QED BY <1>1, <1>2, <2>1, <2>2, <2>3, <2>4, <2>5
<1> QED BY <1>1, <1>2, <1>3, <1>6, SearchStep, Zenon

LEMMA RefusalInv == ASSUME Inv, NoExportDirectory \/ NoSuchName PROVE Inv'
<1>1. PICK why : Fail(why) /\ UNCHANGED <<loads, list, count, iat>>
  BY Zenon DEF NoExportDirectory, NoSuchName
<1>2. loads' \in [Images -> Nat] /\ \A y \in Images : loads'[y] <= 1
  BY <1>1, Zenon DEF Inv, TypeOK, EachOnce
<1> QED BY <1>1, <1>2, FailStep, Zenon

LEMMA StutterInv == ASSUME Inv, UNCHANGED vars PROVE Inv'
<1>1. /\ UNCHANGED <<disk, loads, list, count, iat, stack, pc, thunk, low, high, status>>
      /\ TypeOK /\ EachOnce /\ BoundAsNamed
  BY DEF vars, Inv
<1>2. /\ AtDescriptor' = AtDescriptor /\ Top' = Top /\ Descriptor' = Descriptor
      /\ Thunk' = Thunk /\ Exports' = Exports /\ Names' = Names
      /\ \A k : NameTable(k)' = NameTable(k)
      /\ Listed' = Listed /\ Unscanned' = Unscanned /\ \A y : Active(y)' = Active(y)
  BY <1>1, Zenon DEF AtDescriptor, Descriptor, Top, Thunk, Exports, Names, NameTable, Listed,
     Unscanned, Active
<1>3. TypeOK'
  <2>1. iat' \in [Places(disk)' -> Targets]
    BY <1>1, SameDisk, Zenon DEF TypeOK
  <2> QED BY <1>1, <1>2, <2>1, Zenon DEF TypeOK
<1>4. EachOnce' /\ BoundAsNamed'
  BY <1>1, BoundKept, Zenon DEF EachOnce
<1>5. ASSUME Working PROVE Working'
  <2>1. Phase' /\ LoadedListed' /\ InHand' /\ Narrowed'
    BY <1>1, <1>2, <1>5, Zenon DEF Working, Phase, LoadedListed, InHand, Narrowed
  <2>2. Chain' /\ ImportsListed' /\ Reached'
    BY <1>1, <1>2, <1>5, SameDisk, Zenon DEF Working, Chain, ImportsListed, Reached
  <2>3. \A p : Behind(p)' <=> Behind(p)
    BY <1>1, <1>2, Zenon DEF Behind, Passed
  <2>4. BoundBehind'
    BY <1>1, <1>5, <2>3, SameDisk, Zenon DEF Working, BoundBehind
  <2>5. Counting'
    <3>1. \A y, i : i \in Counted(y)' <=> i \in Counted(y)
      BY <1>1, <1>2, CountedSame, Zenon
    <3> QED BY <3>1, <1>1, <1>2, <1>5, SameCounts, Zenon DEF Working
  <2> QED BY <2>1, <2>2, <2>4, <2>5 DEF Working
<1> QED BY <1>1, <1>3, <1>4, <1>5, Zenon DEF Inv

LEMMA NextInv == ASSUME Inv, [Next]_vars PROVE Inv'
<1>1. CASE LoadSystemImage("load_kernel", Kernel, "load_hal")
  BY <1>1, LoadSystemImageInv, Zenon
<1>2. CASE LoadSystemImage("load_hal", Hal, "enter_kernel")
  BY <1>2, LoadSystemImageInv, Zenon
<1>3. CASE EnterSystemImage("enter_kernel", Kernel, "enter_hal")
  BY <1>3, EnterSystemImageInv, Zenon
<1>4. CASE EnterSystemImage("enter_hal", Hal, "scan_kernel")
  BY <1>4, EnterSystemImageInv, Zenon
<1>5. CASE ScanSystemImage("scan_kernel", Kernel)
  BY <1>5, ScanSystemImageInv, Zenon
<1>6. CASE ScanSystemImage("scan_hal", Hal)
  BY <1>6, ScanSystemImageInv, Zenon
<1>7. CASE SkipSelf
  BY <1>7, SkipSelfInv
<1>8. CASE ImportLoaded
  BY <1>8, ImportLoadedInv
<1>9. CASE ImportDll
  BY <1>9, ImportDllInv, Zenon
<1>10. CASE Return
  BY <1>10, ReturnInv
<1>11. CASE EndOfThunks
  BY <1>11, EndOfThunksInv
<1>12. CASE BindByOrdinal
  BY <1>12, BindByOrdinalInv
<1>13. CASE BindByHint
  BY <1>13, BindByHintInv
<1>14. CASE StartSearch
  BY <1>14, StartSearchInv
<1>15. CASE Probe
  BY <1>15, ProbeInv
<1>16. CASE BindByName
  BY <1>16, BindByNameInv
<1>17. CASE NoExportDirectory \/ NoSuchName
  BY <1>17, RefusalInv
<1>18. CASE Finished \/ UNCHANGED vars
  BY <1>18, StutterInv DEF Finished
<1> QED BY <1>1, <1>2, <1>3, <1>4, <1>5, <1>6, <1>7, <1>8, <1>9, <1>10, <1>11, <1>12, <1>13,
           <1>14, <1>15, <1>16, <1>17, <1>18, Zenon DEF Next

-----------------------------------------------------------------------------
(* The theorems.                                                           *)

THEOREM InvHolds == Spec => []Inv
BY InitInv, NextInv, PTL DEF Spec

\* Whatever images there are, the loader's data keeps its type; the binary
\* search of BlpBindImportName stays within the names.
THEOREM LoaderTyped == Spec => []TypeOK
<1>1. Inv => TypeOK
  BY DEF Inv
<1> QED BY <1>1, InvHolds, PTL

\* However the imports refer to each other, BlScanImportDescriptorTable loads,
\* lists and scans an image at most once.
THEOREM ImagesOnce == Spec => []EachOnce
<1>1. Inv => EachOnce
  BY DEF Inv
<1> QED BY <1>1, InvHolds, PTL

\* BlpScanImportAddressTable binds a thunk once, to the function that it names.
THEOREM ThunksAsNamed == Spec => []BoundAsNamed
<1>1. Inv => BoundAsNamed
  BY DEF Inv
<1> QED BY <1>1, InvHolds, PTL

\* When BlOsLoader is through, its list has what the kernel and the HAL need
\* and nothing else, with every thunk bound.
THEOREM ListComplete == Spec => []HandedOverComplete
<1>1. ASSUME Inv, pc = "done"
      PROVE  /\ Len(list) >= 2 /\ list[1] = Kernel /\ list[2] = Hal
             /\ Needed(Listed) \subseteq Listed
             /\ \A set \in SUBSET Images :
                   {Kernel, Hal} \subseteq set /\ Needed(set) \subseteq set => Listed \subseteq set
             /\ \A p \in Places(disk) :
                   p[1] \in Listed /\ DllAt(p) # p[1] => iat[p] # Raw
  <2>1. Working /\ stack = <<>> /\ Unscanned = {}
    BY <1>1 DEF Inv, Working, Phase, Scanning, Unscanned
  <2>2. \A y : Active(y) = {}
    BY <2>1, NothingListed, Zenon
  <2>3. Len(list) >= 2 /\ list[1] = Kernel /\ list[2] = Hal
    BY <1>1, <2>1, Zenon DEF Working, Phase
  <2>4. Needed(Listed) \subseteq Listed
    <3> SUFFICES ASSUME NEW y \in Needed(Listed) PROVE y \in Listed
      OBVIOUS
    <3>0. PICK listed : listed = Listed
      OBVIOUS
    <3>1. PICK x \in listed : \E i \in DOMAIN Imports(x) : y = Imports(x)[i].dll
      <4>1. y \in Needed(listed)
        BY <3>0
      <4> QED BY <4>1, NeededAre
    <3>2. PICK i \in DOMAIN Imports(x) : y = Imports(x)[i].dll
      BY <3>1
    <3>3. x \in Listed \ Unscanned /\ \A k \in Active(x) : i < stack[k].at
      BY <2>1, <2>2, <3>0, Zenon
    <3> QED BY <3>2, <3>3, <2>1, Zenon DEF Working, ImportsListed
  <2>5. \A p \in Places(disk) : p[1] \in Listed /\ DllAt(p) # p[1] => iat[p] # Raw
    BY <2>1, <2>2, Zenon DEF Working, BoundBehind, Behind
  <2> QED BY <2>1, <2>3, <2>4, <2>5, Zenon DEF Working, Reached
<1>2. Inv => HandedOverComplete
  BY <1>1, Zenon DEF HandedOverComplete, DllAt, Imports
<1> QED BY <1>2, InvHolds, PTL

\* BlpScanImportDescriptorTable and BlAllocateDataTableEntry count every
\* reference that was taken to an image, however the imports refer to each other.
THEOREM CountsRight == Spec => []CountsReferences
<1>1. ASSUME Inv, pc # "failed", NEW k \in DOMAIN list
      PROVE  count[list[k]] =
                Cardinality(References(list[k])) + (IF list[k] \in {Kernel, Hal} THEN 1 ELSE 0)
  <2>1. list[k] \in Listed
    BY Zenon DEF Listed
  <2> QED BY <1>1, <2>1, Zenon DEF Inv, Working, Counting, Own
<1>2. Inv => CountsReferences
  BY <1>1, Zenon DEF CountsReferences
<1> QED BY <1>2, InvHolds, PTL

\* Binding fails for want of an export directory, or for a thunk that it does
\* not resolve; BlpBindImportName overlooks no name that is there.
THEOREM RefusedRightly == Spec => RefusedOnlyWhenMissing
<1>1. ASSUME Inv, [Next]_vars, BindingFails
      PROVE  Exports = NoExports \/ Resolutions(Here) = {}
  <2>1. pc \in {"bind", "search"} /\ pc' = "failed" /\ pc # pc'
    BY <1>1 DEF BindingFails
  <2>2. ASSUME NEW o, o \in Nat, Bind(o) PROVE ~(o < Exports.functions)
    <3>1. o < Exports.functions => pc' = "bind"
      BY <2>2, Zenon DEF Bind
    <3> QED BY <3>1, <2>1
  <2>3. CASE BindByOrdinal
    <3>1. AtAThunk /\ Thunk.kind = "ordinal" /\ Bind((Thunk.ordinal - Exports.base) % Word)
      BY <2>3 DEF BindByOrdinal, AtThunk, AtAThunk
    <3> QED BY <1>1, <2>2, <3>1, OrdinalResolves, Zenon DEF AtAThunk
  <2>4. CASE BindByHint
    <3>1. /\ AtAThunk /\ Thunk.kind = "name" /\ Bind(OrdinalTable(Thunk.hint))
          /\ Thunk.hint < Names /\ NameTable(Thunk.hint) = Thunk.symbol
      BY <2>4 DEF BindByHint, AtThunk, AtAThunk, HintFits
    <3>2. Thunk.hint \in Nat
      BY <1>1, <3>1, HintIsName, Zenon
    <3> QED BY <1>1, <2>2, <3>1, <3>2, NameResolves, Zenon DEF AtAThunk
  <2>5. CASE BindByName
    <3>1. Searching /\ NameTable(Middle) = Thunk.symbol /\ Bind(OrdinalTable(Middle))
      BY <2>5 DEF BindByName
    <3>2. AtAThunk /\ Thunk.kind = "name" /\ Middle \in Nat /\ Middle < Names
      BY <1>1, <3>1, SearchIs, Zenon
    <3> QED BY <1>1, <2>2, <3>1, <3>2, NameResolves, Zenon DEF AtAThunk
  <2>6. CASE NoSuchName
    <3>1. /\ pc = "search" /\ ~(high >= low) /\ Working /\ TypeOK
          /\ AtAThunk /\ Thunk.kind = "name"
      BY <1>1, <2>6 DEF NoSuchName, Searching, Inv, Working, Narrowed, AtAThunk
    <3>2. Names \in Nat
      BY <1>1, <3>1, HintIsName
    <3>3. low \in Int /\ high \in Int
      BY <3>1, <3>2 DEF TypeOK
    <3>4. \A k \in 0 .. (Names - 1) : NameTable(k) # Thunk.symbol
      <4>1. \A k \in 0 .. (Names - 1) :
               NameTable(k) = Thunk.symbol => low <= k /\ k <= high
        BY <3>1, Zenon DEF Working, Narrowed
      <4> QED BY <4>1, <3>1, <3>2, <3>3
    <3> QED BY <1>1, <3>1, <3>4, NoNameResolves, Zenon DEF AtAThunk
  <2>7. CASE NoExportDirectory
    BY <2>7 DEF NoExportDirectory
  <2>8. ~(SkipSelf \/ ImportLoaded \/ ImportDll \/ Return)
    BY <2>1 DEF SkipSelf, ImportLoaded, ImportDll, Return
  <2>9. ~(EndOfThunks \/ StartSearch \/ Probe)
    BY <2>1 DEF EndOfThunks, StartSearch, Probe, Goto
  <2>10. ~(Finished \/ UNCHANGED vars)
    BY <2>1 DEF Finished, vars, Terminated
  <2>11. /\ ~LoadSystemImage("load_kernel", Kernel, "load_hal")
         /\ ~LoadSystemImage("load_hal", Hal, "enter_kernel")
         /\ ~EnterSystemImage("enter_kernel", Kernel, "enter_hal")
         /\ ~EnterSystemImage("enter_hal", Hal, "scan_kernel")
         /\ ~ScanSystemImage("scan_kernel", Kernel) /\ ~ScanSystemImage("scan_hal", Hal)
    BY <2>1 DEF LoadSystemImage, EnterSystemImage, ScanSystemImage
  <2> QED BY <1>1, <2>3, <2>4, <2>5, <2>6, <2>7, <2>8, <2>9, <2>10, <2>11, Zenon DEF Next
<1>2. Inv /\ [Next]_vars =>
         [BindingFails => (Exports = NoExports \/ Resolutions(Here) = {})]_vars
  BY <1>1, Zenon
<1> QED BY <1>2, InvHolds, PTL DEF Spec, RefusedOnlyWhenMissing
=============================================================================
