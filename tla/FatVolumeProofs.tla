--------------------------- MODULE FatVolumeProofs ---------------------------
(***************************************************************************)
(* What the routines of fatboot.c make of a volume, for every volume,      *)
(* every path and every device that may refuse writes.                     *)
(*                                                                         *)
(* The loops of FatVolume are functions of the turn; the first part shows  *)
(* that such a function exists, is determined by its equation and stays in *)
(* a set that every turn stays in. The second part types every routine of  *)
(* fatboot.c. The third says what each of them makes of the table and the  *)
(* disk: Untouched for those that only read, Follows for those that may    *)
(* write, with FatClose and FatWrite leaving no change of the table        *)
(* unsaved.                                                                *)
(*                                                                         *)
(* The rest shows that a sound volume stays sound. Sound is not kept by a  *)
(* call alone: links must be injective and never lead to the first cluster *)
(* of an entry, "." and ".." must not be found where entries of the root   *)
(* are, and the table on the disk, which the next open may go back to,     *)
(* must not lead into the chains of the others. A volume is Whole when all *)
(* of this holds of its entries and of the chains X that no entry leads to *)
(* yet, or any more; Behind says how the saved table may differ; Fine      *)
(* allows for a refused write, after which entries share no cluster in     *)
(* either table; Settled is Fine between calls. From the change of one     *)
(* link the lemmas go to allocation, entries, directories, truncation and  *)
(* data, and from there to open, read, write, close and the listing of a   *)
(* directory.                                                              *)
(***************************************************************************)
EXTENDS FatVolume, FiniteSetTheorems, SequenceTheorems, WellFoundedInduction, TLAPS

-----------------------------------------------------------------------------
(* Loops.                                                                  *)

\* A set of numbers that is not empty has a least one.
LEMMA LeastExists ==
    ASSUME NEW S \in SUBSET Nat, S # {}
    PROVE  \E i \in S : \A j \in S : i <= j
<1>1. PICK i \in S : \A j \in S : <<j, i>> \notin OpToRel(<, Nat)
  BY WFMin, NatLessThanWellFounded, Zenon
<1>2. \A j \in S : ~(j < i)
  BY <1>1, Zenon DEF OpToRel
<1> QED BY <1>2

\* The loops of the model: f[0] = a, and a turn k takes f[k - 1] to f[k].
Iterates(a, n, move, f) ==
    /\ DOMAIN f = 0 .. n
    /\ f[0] = a
    /\ \A k \in 1 .. n : f[k] = move[k][f[k - 1]]

LEMMA IterationExists ==
    ASSUME NEW A, NEW a \in A, NEW n \in Nat, NEW move \in [1 .. n -> [A -> A]]
    PROVE  \E f \in [0 .. n -> A] : Iterates(a, n, move, f)
<1> DEFINE Bad == {k \in 0 .. n : ~ \E f \in [0 .. k -> A] : Iterates(a, k, move, f)}
<1> SUFFICES ASSUME Bad # {} PROVE FALSE
  <2>1. n \notin Bad => \E f \in [0 .. n -> A] : Iterates(a, n, move, f)
    OBVIOUS
  <2> QED BY <2>1
<1>1. PICK k \in Bad : \A j \in Bad : k <= j
  <2>1. Bad \in SUBSET Nat
    OBVIOUS
  <2> HIDE DEF Bad
  <2> QED BY <2>1, LeastExists
<1>2. CASE k = 0
  <2> DEFINE f == [i \in 0 .. 0 |-> a]
  <2>1. f \in [0 .. 0 -> A] /\ Iterates(a, 0, move, f)
    BY DEF Iterates
  <2> QED BY <1>2, <2>1
<1>3. CASE k # 0
  <2>1. k \in 1 .. n /\ k - 1 \in 0 .. n /\ k - 1 \notin Bad
    BY <1>1, <1>3
  <2>2. PICK g \in [0 .. k - 1 -> A] : Iterates(a, k - 1, move, g)
    BY <2>1
  <2> DEFINE f == [i \in 0 .. k |-> IF i = k THEN move[k][g[k - 1]] ELSE g[i]]
  <2>3. g[0] = a /\ \A i \in 1 .. k - 1 : g[i] = move[i][g[i - 1]]
    BY <2>2 DEF Iterates
  <2>4. g[k - 1] \in A /\ move[k] \in [A -> A]
    BY <2>1, <2>2
  <2>5. f \in [0 .. k -> A]
    <3>1. move[k][g[k - 1]] \in A
      BY <2>4
    <3>2. \A i \in 0 .. k : i # k => i \in 0 .. k - 1
      BY <2>1
    <3> QED BY <2>2, <3>1, <3>2
  <2>6. f[0] = a /\ \A i \in 1 .. k : f[i] = move[i][f[i - 1]]
    <3>1. f[0] = a
      BY <2>1, <2>3
    <3>2. ASSUME NEW i \in 1 .. k PROVE f[i] = move[i][f[i - 1]]
      BY <2>1, <2>3
    <3> QED BY <3>1, <3>2
  <2>7. DOMAIN f = 0 .. k
    OBVIOUS
  <2> HIDE DEF f
  <2>8. Iterates(a, k, move, f)
    BY <2>6, <2>7 DEF Iterates
  <2> QED BY <2>5, <2>8
<1> QED BY <1>2, <1>3

\* What holds at the start, and after a turn if it did before, holds at the end.
LEMMA UpTo ==
    ASSUME NEW n \in Nat, NEW B, 0 \in B, \A k \in 1 .. n : k - 1 \in B => k \in B
    PROVE  n \in B
<1> DEFINE Bad == {k \in 0 .. n : k \notin B}
<1> SUFFICES ASSUME Bad # {} PROVE FALSE
  <2>1. n \in 0 .. n
    OBVIOUS
  <2> QED BY <2>1
<1>1. PICK k \in Bad : \A j \in Bad : k <= j
  <2>1. Bad \in SUBSET Nat
    OBVIOUS
  <2> HIDE DEF Bad
  <2> QED BY <2>1, LeastExists
<1>2. k \in 1 .. n /\ k - 1 \in 0 .. n /\ k - 1 \notin Bad
  BY <1>1
<1> QED BY <1>1, <1>2

\* Two functions that go on alike are alike.
GoOnAlike(n, f, h) ==
    f[0] = h[0] /\ \A k \in 1 .. n : f[k - 1] = h[k - 1] => f[k] = h[k]

LEMMA Agree ==
    ASSUME NEW n \in Nat, NEW f, NEW h, GoOnAlike(n, f, h)
    PROVE  f[n] = h[n]
<1> DEFINE Bad == {k \in 0 .. n : f[k] # h[k]}
<1> SUFFICES ASSUME Bad # {} PROVE FALSE
  <2>1. n \in 0 .. n
    OBVIOUS
  <2> QED BY <2>1
<1>1. PICK k \in Bad : \A j \in Bad : k <= j
  <2>1. Bad \in SUBSET Nat
    OBVIOUS
  <2> HIDE DEF Bad
  <2> QED BY <2>1, LeastExists
<1>2. k \in 1 .. n /\ k - 1 \in 0 .. n /\ k - 1 \notin Bad
  BY <1>1 DEF GoOnAlike
<1> QED BY <1>1, <1>2 DEF GoOnAlike

-----------------------------------------------------------------------------
(* Chains.                                                                 *)

Turns(fat, first, n, g) ==
    g = [k \in 0 .. n |-> IF k = 0 THEN <<>> ELSE Further(fat, first, g[k - 1])]

LEMMA FurtherType ==
    ASSUME NEW fat, NEW first, NEW cs \in Seq(Clusters)
    PROVE  Further(fat, first, cs) \in Seq(Clusters)
BY AppendProperties DEF Further

LEMMA ChainTurns ==
    ASSUME NEW fat, NEW first
    PROVE  \E g \in [0 .. TotalClustersInVolume -> Seq(Clusters)] :
              /\ Turns(fat, first, TotalClustersInVolume, g)
              /\ Chain(fat, first) = g[TotalClustersInVolume]
<1> DEFINE n == TotalClustersInVolume
           A == Seq(Clusters)
           move == [k \in 1 .. n |-> [cs \in A |-> Further(fat, first, cs)]]
<1>1. n \in Nat
  BY VolumeAssumption
<1>2. move \in [1 .. n -> [A -> A]]
  BY FurtherType
<1>3. \A k \in 1 .. n, cs \in A : move[k][cs] = Further(fat, first, cs)
  OBVIOUS
<1>4. <<>> \in A
  OBVIOUS
<1> HIDE DEF n, move, A
<1>5. PICK f \in [0 .. n -> A] : Iterates(<<>>, n, move, f)
  BY <1>1, <1>2, <1>4, IterationExists
<1>6. f = [k \in 0 .. n |-> IF k = 0 THEN <<>> ELSE Further(fat, first, f[k - 1])]
  <2>1. ASSUME NEW k \in 1 .. n PROVE f[k] = Further(fat, first, f[k - 1])
    <3>1. k - 1 \in 0 .. n
      BY <1>1
    <3>2. f[k - 1] \in A
      BY <1>5, <3>1
    <3> QED BY <1>3, <1>5, <3>2 DEF Iterates
  <2>2. ASSUME NEW k \in 0 .. n
        PROVE  f[k] = IF k = 0 THEN <<>> ELSE Further(fat, first, f[k - 1])
    <3>1. k = 0 \/ k \in 1 .. n
      BY <1>1
    <3> QED BY <1>5, <2>1, <3>1 DEF Iterates
  <2> QED BY <1>5, <2>2
<1> DEFINE h == CHOOSE g : Turns(fat, first, n, g)
<1>7. Turns(fat, first, n, h)
  BY <1>6 DEF Turns
<1>8. Chain(fat, first) = h[n]
  BY DEF Chain, Turns, n
<1> HIDE DEF h
<1>9. h[n] = f[n]
  <2>1. /\ h[0] = <<>> /\ f[0] = <<>>
        /\ \A k \in 1 .. n : h[k] = Further(fat, first, h[k - 1])
        /\ \A k \in 1 .. n : f[k] = Further(fat, first, f[k - 1])
    BY <1>1, <1>6, <1>7 DEF Turns
  <2>2. ASSUME NEW k \in 1 .. n, h[k - 1] = f[k - 1] PROVE h[k] = f[k]
    BY <2>1, <2>2
  <2>3. GoOnAlike(n, h, f)
    BY <2>1, <2>2 DEF GoOnAlike
  <2> QED BY <1>1, <2>3, Agree
<1> QED BY <1>5, <1>6, <1>8, <1>9 DEF n, A, Turns

-----------------------------------------------------------------------------
(* Types.                                                                  *)

Firsts == {Available} \cup Clusters

Mappings == {<<Root>>} \cup Seq(Clusters)

AnyMcb == [owner : FileIds \cup {""}, from : Nat, map : Mappings]

LEMMA ClusterFacts ==
    /\ Clusters \subseteq Nat /\ Root \notin Clusters /\ LAST \notin Clusters
    /\ LAST \in Nat /\ Available = Root /\ Firsts \subseteq Nat
    /\ \A c \in Clusters : c >= 2 /\ c < LAST
BY VolumeAssumption DEF Clusters, Root, LAST, Available, Firsts

LEMMA ChainType ==
    ASSUME NEW fat, NEW first
    PROVE  Chain(fat, first) \in Seq(Clusters)
<1>1. TotalClustersInVolume \in 0 .. TotalClustersInVolume
  BY VolumeAssumption
<1> QED BY <1>1, ChainTurns

\* A field of a volume, set.
LEMMA DiskType ==
    ASSUME NEW m \in AnyVolume, NEW disk \in AnyDisk
    PROVE  [m EXCEPT !.disk = disk] \in AnyVolume
BY DEF AnyVolume

LEMMA FileType ==
    ASSUME NEW m \in AnyVolume, NEW file \in [FileIds -> AnyFile]
    PROVE  [m EXCEPT !.file = file] \in AnyVolume
BY DEF AnyVolume

LEMMA McbType ==
    ASSUME NEW m \in AnyVolume, NEW mcb \in AnyMcb
    PROVE  [m EXCEPT !.mcb = mcb] \in AnyVolume
BY DEF AnyVolume, AnyMcb, Mappings

LEMMA StatusType ==
    ASSUME NEW m \in AnyVolume, NEW status \in AnyStatus
    PROVE  [m EXCEPT !.status = status] \in AnyVolume
BY DEF AnyVolume

LEMMA GotType ==
    ASSUME NEW m \in AnyVolume, NEW got \in Seq(AnyUnit)
    PROVE  [m EXCEPT !.got = got] \in AnyVolume
BY DEF AnyVolume

LEMMA FieldTypes ==
    ASSUME NEW m \in AnyVolume
    PROVE  /\ m.disk \in AnyDisk /\ m.saved \in AnyTable /\ m.fat \in AnyTable
           /\ m.dirty \in BOOLEAN /\ m.mcb \in AnyMcb /\ m.file \in [FileIds -> AnyFile]
           /\ m.got \in Seq(AnyUnit) /\ m.writes \in Nat /\ m.refused \in BOOLEAN
           /\ m.full \in BOOLEAN /\ m.status \in AnyStatus
BY DEF AnyVolume, AnyMcb, Mappings

LEMMA UnitSetType ==
    ASSUME NEW disk \in AnyDisk, NEW c, NEW u, NEW unit \in AnyUnit
    PROVE  [disk EXCEPT ![c][u] = unit] \in AnyDisk
<1> DEFINE new == [disk EXCEPT ![c][u] = unit]
           R == {Root} \cup Clusters
<1>1. DOMAIN disk = R /\ \A x \in R : disk[x] \in [1 .. Size(x) -> AnyUnit]
  BY DEF AnyDisk
<1>2. \A x \in R : new[x] = IF x = c THEN [disk[x] EXCEPT ![u] = unit] ELSE disk[x]
  BY <1>1
<1>3. \A x \in R : [disk[x] EXCEPT ![u] = unit] \in [1 .. Size(x) -> AnyUnit]
  <2>1. \A n, s : s \in [1 .. n -> AnyUnit] => [s EXCEPT ![u] = unit] \in [1 .. n -> AnyUnit]
    OBVIOUS
  <2> QED BY <1>1, <2>1
<1>4. \A x \in R : new[x] \in [1 .. Size(x) -> AnyUnit]
  BY <1>2, <1>3, <1>1
<1>5. DOMAIN new = R
  BY <1>1
<1>6. new = [x \in R |-> new[x]]
  BY <1>5
<1>7. \A x : Size(x) \in {RootSlots, Units}
  BY DEF Size
<1> HIDE DEF new
<1>8. new \in [R -> [1 .. RootSlots -> AnyUnit] \cup [1 .. Units -> AnyUnit]]
  <2>1. ASSUME NEW x \in R
        PROVE  new[x] \in [1 .. RootSlots -> AnyUnit] \cup [1 .. Units -> AnyUnit]
    <3>1. new[x] \in [1 .. Size(x) -> AnyUnit]
      BY <1>4
    <3>2. CASE Size(x) = RootSlots
      BY <3>1, <3>2
    <3>3. CASE Size(x) = Units
      BY <3>1, <3>3
    <3> QED BY <1>7, <3>2, <3>3
  <2> HIDE DEF R
  <2> QED BY <1>6, <2>1
<1> QED BY <1>4, <1>8 DEF AnyDisk

LEMMA UnitAtType ==
    ASSUME NEW m \in AnyVolume, NEW c \in {Root} \cup Clusters, NEW u \in 1 .. Size(c)
    PROVE  UnitAt(m, <<c, u>>) \in AnyUnit
<1>1. m.disk[c] \in [1 .. Size(c) -> AnyUnit]
  BY FieldTypes DEF AnyDisk
<1> QED BY <1>1 DEF UnitAt

LEMMA DirentType ==
    ASSUME NEW name \in AnyName, NEW dir \in BOOLEAN, NEW first \in Firsts
    PROVE  Dirent(name, dir, first) \in AnyUnit
BY DEF Dirent, AnyUnit, Firsts

LEMMA BlankType == Blank \in AnyUnit
<1>1. 0 \in Firsts
  BY DEF Firsts, Available
<1>2. Dirent("", FALSE, 0) \in AnyUnit
  BY <1>1, DirentType DEF AnyName
<1> QED BY <1>2 DEF Blank

LEMMA NoFileType == NoFile \in AnyFile /\ RootFile \in AnyFile
<1>1. Root \in Firsts
  BY DEF Firsts, Available, Root
<1>2. Nowhere \in Nat \X Nat
  BY DEF Nowhere
<1>3. NoFile \in AnyFile
  BY <1>2, BlankType DEF NoFile, AnyFile
<1>4. Dirent("\\", TRUE, Root) \in AnyUnit
  BY <1>1, DirentType DEF AnyName
<1> QED BY <1>3, <1>4 DEF RootFile, AnyFile

LEMMA NoMcbType == NoMcb \in AnyMcb
BY DEF NoMcb, AnyMcb, Mappings

\* A field of an entry of the file table, set.
LEMMA EntrySetType ==
    ASSUME NEW file \in [FileIds -> AnyFile], NEW f \in FileIds, NEW e \in AnyFile
    PROVE  [file EXCEPT ![f] = e] \in [FileIds -> AnyFile]
OBVIOUS

-----------------------------------------------------------------------------
(* Directories and paths.                                                  *)

Places == UNION {{c} \X (1 .. Size(c)) : c \in {Root} \cup Clusters}

LEMMA Sizes ==
    /\ Units \in Nat /\ Units >= 1 /\ RootSlots \in Nat /\ RootSlots >= 1
    /\ \A c : Size(c) \in Nat /\ Size(c) >= 1
    /\ Size(Root) = RootSlots
    /\ \A c \in Clusters : Size(c) = Units
BY VolumeAssumption, ClusterFacts DEF Size

LEMMA Division ==
    ASSUME NEW n \in Nat, n >= 1, NEW i \in Nat
    PROVE  /\ i \div n \in Nat /\ i % n \in 0 .. n - 1
           /\ i = n * (i \div n) + (i % n)
BY SMT

LEMMA Quotient ==
    ASSUME NEW n \in Nat, n >= 1, NEW k \in Nat, NEW i \in Nat, i < n * k
    PROVE  i \div n \in Nat /\ i \div n < k
<1>1. i \div n \in Nat /\ n * (i \div n) <= i
  BY Division
<1> DEFINE q == i \div n
<1> HIDE DEF q
<1>2. q \in Nat /\ n * q < n * k
  BY <1>1 DEF q
<1>3. ASSUME q >= k PROVE FALSE
  <2>1. PICK d \in Nat : q = k + d
    <3>1. q - k \in Nat /\ q = k + (q - k)
      BY <1>2, <1>3
    <3> QED BY <3>1
  <2>2. n * q = n * k + n * d /\ n * d >= 0
    BY <2>1
  <2> QED BY <1>2, <2>2
<1> QED BY <1>2, <1>3 DEF q

LEMMA PlaceOf ==
    ASSUME NEW c \in {Root} \cup Clusters, NEW u \in 1 .. Size(c)
    PROVE  <<c, u>> \in Places
BY DEF Places

LEMMA PlaceFacts ==
    ASSUME NEW p \in Places
    PROVE  /\ p \in Nat \X Nat /\ p = <<p[1], p[2]>>
           /\ p[1] \in {Root} \cup Clusters /\ p[2] \in 1 .. Size(p[1])
<1>1. PICK c \in {Root} \cup Clusters : p \in {c} \X (1 .. Size(c))
  BY DEF Places
<1>2. c \in Nat /\ Size(c) \in Nat
  BY ClusterFacts, Sizes DEF Root
<1> QED BY <1>1, <1>2

LEMMA PlacedUnitType ==
    ASSUME NEW m \in AnyVolume, NEW p \in Places
    PROVE  UnitAt(m, p) \in AnyUnit
<1>1. /\ p = <<p[1], p[2]>>
      /\ p[1] \in {Root} \cup Clusters /\ p[2] \in 1 .. Size(p[1])
  BY PlaceFacts
<1>2. UnitAt(m, <<p[1], p[2]>>) \in AnyUnit
  BY <1>1, UnitAtType
<1> QED BY <1>1, <1>2

\* A chain is empty only when it starts nowhere.
LEMMA ChainStarts ==
    ASSUME NEW fat, NEW first \in Clusters
    PROVE  Chain(fat, first) \in Seq(Clusters) /\ Chain(fat, first) # <<>>
<1> DEFINE n == TotalClustersInVolume
<1>1. n \in Nat /\ n >= 1
  BY VolumeAssumption
<1>2. PICK g \in [0 .. n -> Seq(Clusters)] : /\ Turns(fat, first, n, g)
                                             /\ Chain(fat, first) = g[n]
  BY ChainTurns
<1>3. \A k \in 1 .. n : g[k] = Further(fat, first, g[k - 1])
  BY <1>2, <1>1 DEF Turns
<1> DEFINE Bad == {k \in 1 .. n : g[k] = <<>>}
<1>4. Bad = {}
  <2> SUFFICES ASSUME Bad # {} PROVE FALSE
    OBVIOUS
  <2>1. PICK k \in Bad : \A j \in Bad : k <= j
    <3>1. Bad \in SUBSET Nat
      OBVIOUS
    <3> HIDE DEF Bad
    <3> QED BY <3>1, LeastExists
  <2>2. g[k - 1] \in Seq(Clusters)
    <3>1. k - 1 \in 0 .. n
      BY <1>1
    <3> QED BY <1>2, <3>1
  <2>3. g[k] # <<>>
    <3> DEFINE cs == g[k - 1]
               c == IF cs = <<>> THEN first ELSE fat[Last(cs)]
    <3>1. g[k] = IF c \in Clusters THEN Append(cs, c) ELSE cs
      BY <1>3, <2>1 DEF Further
    <3>2. CASE c \in Clusters
      <4> HIDE DEF c
      <4>1. Append(cs, c) # <<>>
        BY <2>2, <3>2, AppendProperties
      <4> QED BY <3>1, <3>2, <4>1
    <3>3. CASE c \notin Clusters
      <4>1. cs # <<>>
        BY <3>3
      <4> QED BY <3>1, <3>3, <4>1
    <3> QED BY <3>2, <3>3
  <2> QED BY <2>1, <2>3
<1>5. n \in 1 .. n /\ n \in 0 .. n
  BY <1>1
<1> QED BY <1>2, <1>4, <1>5

LEMMA DirectoryClustersType ==
    ASSUME NEW m, NEW first \in Firsts
    PROVE  LET cs == DirectoryClusters(m, first)
           IN  /\ cs \in Seq({Root} \cup Clusters) /\ cs # <<>>
               /\ \A i \in 1 .. Len(cs) :
                     Size(cs[i]) = IF first = Root THEN RootSlots ELSE Units
<1>1. CASE first = Root
  <2>1. <<Root>> \in Seq({Root} \cup Clusters) /\ <<Root>> # <<>> /\ Len(<<Root>>) = 1
        /\ <<Root>>[1] = Root
    OBVIOUS
  <2> QED BY <1>1, <2>1, Sizes DEF DirectoryClusters
<1>2. CASE first # Root
  <2>1. first \in Clusters
    BY <1>2 DEF Firsts, Available, Root
  <2> DEFINE cs == Chain(m.fat, first)
  <2>2. cs \in Seq(Clusters) /\ cs # <<>>
    BY <2>1, ChainStarts
  <2> HIDE DEF cs
  <2>3. cs \in Seq({Root} \cup Clusters)
    BY <2>2, SeqMonotonic
  <2>4. \A i \in 1 .. Len(cs) : cs[i] \in Clusters
    BY <2>2, ElementOfSeq
  <2> QED BY <1>2, <2>2, <2>3, <2>4, Sizes DEF DirectoryClusters, cs
<1> QED BY <1>1, <1>2

LEMMA SlotsType ==
    ASSUME NEW m, NEW first \in Firsts
    PROVE  Slots(m, first) \in Seq(Places) /\ Len(Slots(m, first)) >= 1
<1> DEFINE cs == DirectoryClusters(m, first)
           n == IF first = Root THEN RootSlots ELSE Units
           place(i) == <<cs[((i - 1) \div n) + 1], ((i - 1) % n) + 1>>
<1>1. /\ cs \in Seq({Root} \cup Clusters) /\ cs # <<>>
      /\ \A i \in 1 .. Len(cs) : Size(cs[i]) = n
  BY DirectoryClustersType
<1>2. n \in Nat /\ n >= 1
  BY Sizes
<1>3. Slots(m, first) = [i \in 1 .. n * Len(cs) |-> place(i)]
  BY DEF Slots
<1> HIDE DEF cs, n
<1>4. Len(cs) \in Nat /\ Len(cs) >= 1
  BY <1>1, EmptySeq, LenProperties
<1>5. n * Len(cs) \in Nat /\ n * Len(cs) >= 1
  BY <1>2, <1>4
<1>6. ASSUME NEW i \in 1 .. n * Len(cs) PROVE place(i) \in Places
  <2> DEFINE q == (i - 1) \div n
             r == (i - 1) % n
  <2>1. i - 1 \in Nat /\ i - 1 < n * Len(cs)
    BY <1>5
  <2>2. q \in Nat /\ q < Len(cs) /\ r \in 0 .. n - 1
    BY <1>2, <1>4, <2>1, Quotient, Division
  <2> HIDE DEF q, r
  <2>3. q + 1 \in 1 .. Len(cs) /\ r + 1 \in 1 .. n
    BY <1>2, <1>4, <2>2
  <2>4. cs[q + 1] \in {Root} \cup Clusters /\ Size(cs[q + 1]) = n
    BY <1>1, <2>3, ElementOfSeq
  <2>5. <<cs[q + 1], r + 1>> \in Places
    BY <2>3, <2>4, PlaceOf
  <2> QED BY <2>5 DEF q, r
<1> HIDE DEF place
<1>7. [i \in 1 .. n * Len(cs) |-> place(i)] \in Seq(Places)
  BY <1>5, <1>6, IsASeq
<1>8. Len([i \in 1 .. n * Len(cs) |-> place(i)]) = n * Len(cs)
  BY <1>5
<1> QED BY <1>3, <1>5, <1>7, <1>8

\* The first place in a sequence of places with a property.
LEMMA FirstIndex ==
    ASSUME NEW I \in SUBSET Nat, I # {}
    PROVE  Min(I) \in I /\ \A j \in I : Min(I) <= j
BY LeastExists DEF Min

LEMMA SearchType ==
    ASSUME NEW m, NEW slots \in Seq(Places), NEW name
    PROVE  LET at == SearchAmong(m, slots, name)
           IN  at = Nowhere \/ (at \in Places /\ UnitAt(m, at).name = name)
<1> DEFINE Ends(at) == UnitAt(m, at).name \in {name, Blank.name}
           I == {k \in 1 .. Len(slots) : Ends(slots[k])}
           i == SelectInSeq(slots, Ends)
<1>1. i = IF I # {} THEN Min(I) ELSE 0
  BY DEF SelectInSeq
<1>2. i = 0 \/ i \in 1 .. Len(slots)
  <2>1. I \in SUBSET Nat /\ I \subseteq 1 .. Len(slots)
    OBVIOUS
  <2> HIDE DEF I, i
  <2> QED BY <1>1, <2>1, FirstIndex
<1>3. SearchAmong(m, slots, name) =
         IF i = 0 THEN Nowhere
         ELSE IF UnitAt(m, slots[i]).name = name THEN slots[i] ELSE Nowhere
  BY DEF SearchAmong
<1> HIDE DEF i, I
<1> QED BY <1>2, <1>3, ElementOfSeq

Walks == [dir : Firsts, where : Nat \X Nat, dirent : AnyUnit, found : BOOLEAN,
          left : BOOLEAN]

LEMMA WalkOnType ==
    ASSUME NEW m \in AnyVolume, NEW walk \in Walks, NEW name
    PROVE  WalkOn(m, walk, name) \in Walks
<1> DEFINE at == FatSearchForDirent(m, walk.dir, name)
<1>1. at = Nowhere \/ at \in Places
  <2>1. Slots(m, walk.dir) \in Seq(Places)
    BY SlotsType DEF Walks
  <2> QED BY <2>1, SearchType DEF FatSearchForDirent
<1> HIDE DEF at
<1>2. CASE at = Nowhere
  BY <1>2 DEF WalkOn, Entered, Walks, at, Nowhere
<1>3. CASE at \in Places
  <2>1. UnitAt(m, at) \in AnyUnit /\ at \in Nat \X Nat
    BY <1>3, PlacedUnitType, PlaceFacts
  <2> DEFINE unit == UnitAt(m, at)
  <2>2. unit.first \in Firsts /\ unit.dir \in BOOLEAN
    BY <2>1 DEF AnyUnit, Firsts
  <2> HIDE DEF unit
  <2>3. /\ [walk EXCEPT !.where = at, !.dirent = unit,
                        !.dir = IF unit.dir THEN unit.first ELSE @] \in Walks
        /\ [walk EXCEPT !.found = FALSE, !.where = Nowhere] \in Walks
        /\ [walk EXCEPT !.left = TRUE] \in Walks
    BY <2>1, <2>2 DEF Walks, Nowhere, unit
  <2> QED BY <2>3 DEF WalkOn, Entered, at, unit
<1> QED BY <1>1, <1>2, <1>3

Passed(m, path, g) ==
    g = [i \in 0 .. Len(path) |->
            IF i = 0 THEN [dir |-> Root, where |-> Nowhere, dirent |-> RootFile.dirent,
                           found |-> TRUE, left |-> FALSE]
            ELSE WalkOn(m, g[i - 1], path[i])]

LEMMA WalkTurns ==
    ASSUME NEW m \in AnyVolume, NEW S, NEW path \in Seq(S)
    PROVE  \E g \in [0 .. Len(path) -> Walks] :
              Passed(m, path, g) /\ Walk(m, path) = g[Len(path)]
<1> DEFINE n == Len(path)
           a == [dir |-> Root, where |-> Nowhere, dirent |-> RootFile.dirent,
                 found |-> TRUE, left |-> FALSE]
           move == [k \in 1 .. n |-> [w \in Walks |-> WalkOn(m, w, path[k])]]
<1>1. n \in Nat
  BY LenProperties
<1>2. move \in [1 .. n -> [Walks -> Walks]]
  BY WalkOnType
<1>3. \A k \in 1 .. n, w \in Walks : move[k][w] = WalkOn(m, w, path[k])
  OBVIOUS
<1>4. a \in Walks
  <2>1. RootFile.dirent \in AnyUnit
    BY NoFileType DEF AnyFile
  <2>2. Root \in Firsts /\ Nowhere \in Nat \X Nat
    BY ClusterFacts DEF Firsts, Nowhere
  <2> QED BY <2>1, <2>2 DEF Walks
<1> HIDE DEF n, move, a
<1>5. PICK f \in [0 .. n -> Walks] : Iterates(a, n, move, f)
  BY <1>1, <1>2, <1>4, IterationExists
<1>6. f = [k \in 0 .. n |-> IF k = 0 THEN a ELSE WalkOn(m, f[k - 1], path[k])]
  <2>1. ASSUME NEW k \in 1 .. n PROVE f[k] = WalkOn(m, f[k - 1], path[k])
    <3>1. k - 1 \in 0 .. n
      BY <1>1
    <3>2. f[k - 1] \in Walks
      BY <1>5, <3>1
    <3> QED BY <1>3, <1>5, <3>2 DEF Iterates
  <2>2. ASSUME NEW k \in 0 .. n
        PROVE  f[k] = IF k = 0 THEN a ELSE WalkOn(m, f[k - 1], path[k])
    <3>1. k = 0 \/ k \in 1 .. n
      BY <1>1
    <3> QED BY <1>5, <2>1, <3>1 DEF Iterates
  <2> QED BY <1>5, <2>2
<1> DEFINE h == CHOOSE g : Passed(m, path, g)
<1>7. Passed(m, path, f)
  BY <1>6 DEF Passed, n, a
<1>8. Walk(m, path) = h[n]
  BY DEF Walk, Passed, n
<1>9. Passed(m, path, h)
  BY <1>7
<1> HIDE DEF h
<1>10. h[n] = f[n]
  <2>1. /\ h[0] = a /\ f[0] = a
        /\ \A k \in 1 .. n : h[k] = WalkOn(m, h[k - 1], path[k])
        /\ \A k \in 1 .. n : f[k] = WalkOn(m, f[k - 1], path[k])
    <3>1. h = [k \in 0 .. n |-> IF k = 0 THEN a ELSE WalkOn(m, h[k - 1], path[k])]
      BY <1>9 DEF Passed, n, a
    <3>2. ASSUME NEW k \in 1 .. n
          PROVE  h[k] = WalkOn(m, h[k - 1], path[k]) /\ f[k] = WalkOn(m, f[k - 1], path[k])
      <4>1. k \in 0 .. n /\ k # 0
        BY <1>1
      <4> QED BY <1>6, <3>1, <4>1, Zenon
    <3>3. h[0] = a /\ f[0] = a
      <4>1. 0 \in 0 .. n
        BY <1>1
      <4> QED BY <1>6, <3>1, <4>1, Zenon
    <3> QED BY <3>2, <3>3, Zenon
  <2>2. ASSUME NEW k \in 1 .. n, h[k - 1] = f[k - 1] PROVE h[k] = f[k]
    BY <2>1, <2>2
  <2>3. GoOnAlike(n, h, f)
    BY <2>1, <2>2 DEF GoOnAlike
  <2> QED BY <1>1, <2>3, Agree
<1> QED BY <1>5, <1>7, <1>8, <1>10 DEF n

LEMMA WalkType ==
    ASSUME NEW m \in AnyVolume, NEW S, NEW path \in Seq(S)
    PROVE  Walk(m, path) \in Walks
<1>1. Len(path) \in 0 .. Len(path)
  BY LenProperties
<1> QED BY <1>1, WalkTurns

-----------------------------------------------------------------------------
(* The mapping.                                                            *)

LEMMA FirstRunsType ==
    ASSUME NEW S, NEW cs \in Seq(S), NEW n
    PROVE  FirstRuns(cs, n) \in Seq(S)
<1> DEFINE Breaks(k) == Cardinality({i \in 2 .. k : cs[i] # cs[i - 1] + 1})
           fit == {k \in 1 .. Len(cs) : Breaks(k) < n}
<1>1. Len(cs) \in Nat
  BY LenProperties
<1>2. IsFiniteSet(1 .. Len(cs)) /\ Cardinality(1 .. Len(cs)) = Len(cs)
  <2>1. ASSUME NEW k \in Nat
        PROVE  IsFiniteSet(1 .. k) /\ Cardinality(1 .. k) = k
    <3>1. 1 \in Int /\ k \in Int
      OBVIOUS
    <3>2. Cardinality(1 .. k) = IF 1 > k THEN 0 ELSE k - 1 + 1
      BY <3>1, FS_Interval, Zenon
    <3> QED BY <3>1, <3>2, FS_Interval
  <2> QED BY <1>1, <2>1
<1>3. fit \subseteq 1 .. Len(cs)
  OBVIOUS
<1>4. FirstRuns(cs, n) = SubSeq(cs, 1, Cardinality(fit))
  BY DEF FirstRuns
<1> HIDE DEF fit
<1>5. Cardinality(fit) \in Nat /\ Cardinality(fit) <= Len(cs)
  BY <1>2, <1>3, FS_Subset, FS_CardinalityType
<1>6. \A i \in 1 .. Cardinality(fit) : i \in 1 .. Len(cs) /\ cs[i] \in S
  BY <1>1, <1>5, ElementOfSeq
<1>7. SubSeq(cs, 1, Cardinality(fit)) \in Seq(S)
  BY <1>1, <1>5, <1>6
<1> QED BY <1>4, <1>7

LEMMA McbFromType ==
    ASSUME NEW f \in FileIds, NEW cs \in Seq(Clusters), NEW skip \in Nat
    PROVE  McbFrom(f, cs, skip) \in AnyMcb
<1>1. Len(cs) \in Nat
  BY LenProperties
<1>2. CASE skip >= Len(cs)
  <2>1. <<>> \in Seq(Clusters)
    BY EmptySeq
  <2> QED BY <1>2, <2>1 DEF McbFrom, AnyMcb, Mappings
<1>3. CASE ~(skip >= Len(cs))
  <2>1. SubSeq(cs, skip + 1, Len(cs)) \in Seq(Clusters)
    BY <1>1, <1>3
  <2> DEFINE map == FirstRuns(SubSeq(cs, skip + 1, Len(cs)), MaximumMcb - 1)
  <2>2. map \in Seq(Clusters)
    BY <2>1, FirstRunsType
  <2>3. skip * Units \in Nat
    BY Sizes
  <2> HIDE DEF map
  <2>4. [owner |-> f, from |-> skip * Units, map |-> map] \in AnyMcb
    BY <2>2, <2>3 DEF AnyMcb, Mappings
  <2> QED BY <1>3, <2>4 DEF McbFrom, map
<1> QED BY <1>2, <1>3

LEMMA LoadMcbType ==
    ASSUME NEW m \in AnyVolume, NEW f \in FileIds, NEW vbo \in Nat
    PROVE  \E mcb \in AnyMcb : FatLoadMcb(m, f, vbo) = [m EXCEPT !.mcb = mcb]
<1> DEFINE cs == Chain(m.fat, m.file[f].dirent.first)
           skip == IF vbo = 0 THEN 0 ELSE ((vbo + Units - 1) \div Units) - 1
           mcb == IF m.file[f].where = Nowhere
                  THEN [owner |-> f, from |-> 0, map |-> <<Root>>]
                  ELSE McbFrom(f, cs, skip)
<1>1. cs \in Seq(Clusters)
  BY ChainType
<1>2. skip \in Nat
  <2>1. CASE vbo = 0
    BY <2>1
  <2>2. CASE vbo # 0
    <3> DEFINE i == vbo + Units - 1
               q == i \div Units
    <3>1. i \in Nat /\ i >= Units
      BY <2>2, Sizes
    <3>2. q \in Nat /\ i % Units \in 0 .. Units - 1 /\ i = Units * q + (i % Units)
      BY <3>1, Sizes, Division
    <3>3. q # 0
      <4>1. ASSUME q = 0 PROVE FALSE
        <5>1. Units * q = 0
          BY <4>1, Sizes
        <5> QED BY <3>1, <3>2, <5>1, Sizes
      <4> QED BY <4>1
    <3> HIDE DEF q
    <3>4. q - 1 \in Nat
      BY <3>2, <3>3
    <3> QED BY <2>2, <3>4 DEF q
  <2> QED BY <2>1, <2>2
<1> HIDE DEF cs, skip
<1>3. mcb \in AnyMcb
  <2>1. [owner |-> f, from |-> 0, map |-> <<Root>>] \in AnyMcb
    BY DEF AnyMcb, Mappings
  <2> QED BY <1>1, <1>2, <2>1, McbFromType
<1>4. FatLoadMcb(m, f, vbo) = [m EXCEPT !.mcb = mcb]
  BY DEF FatLoadMcb, cs, skip
<1> QED BY <1>3, <1>4

LEMMA LboType ==
    ASSUME NEW m \in AnyVolume, NEW vbo \in Nat, Maps(m, vbo)
    PROVE  Lbo(m, vbo) \in Places
<1> DEFINE map == m.mcb.map
           n == Size(map[1])
           o == vbo - m.mcb.from
<1>1. m.mcb \in AnyMcb /\ m.mcb.from \in Nat /\ map \in Mappings
  BY FieldTypes DEF AnyMcb
<1>2. o \in Nat /\ vbo < McbEnd(m.mcb)
  <2>1. m.mcb.from <= vbo /\ vbo < McbEnd(m.mcb)
    BY DEF Maps
  <2> QED BY <1>1, <2>1
<1> DEFINE length == IF map = <<Root>> THEN RootSlots ELSE Units * Len(map)
<1>3. length \in Nat /\ o < length
  <2>1. length \in Nat
    <3>1. map # <<Root>> => Len(map) \in Nat
      BY <1>1, LenProperties DEF Mappings
    <3> QED BY <3>1, Sizes
  <2>2. McbEnd(m.mcb) = m.mcb.from + length
    BY DEF McbEnd
  <2> HIDE DEF length
  <2> QED BY <1>1, <1>2, <2>1, <2>2
<1>4. /\ map \in Seq({Root} \cup Clusters) /\ Len(map) >= 1 /\ Len(map) \in Nat
      /\ length = n * Len(map)
      /\ \A k \in 1 .. Len(map) : Size(map[k]) = n
  <2>1. CASE map = <<Root>>
    BY <2>1, Sizes
  <2>2. CASE map # <<Root>>
    <3>1. map \in Seq(Clusters)
      BY <1>1, <2>2 DEF Mappings
    <3>2. Len(map) \in Nat
      BY <3>1, LenProperties
    <3>3. Len(map) # 0
      <4>1. ASSUME Len(map) = 0 PROVE FALSE
        BY <1>3, <1>2, <2>2, <4>1, Sizes
      <4> QED BY <4>1
    <3>4. \A k \in 1 .. Len(map) : map[k] \in Clusters
      BY <3>1, ElementOfSeq
    <3>5. n = Units /\ \A k \in 1 .. Len(map) : Size(map[k]) = Units
      BY <3>2, <3>3, <3>4, Sizes
    <3>6. map \in Seq({Root} \cup Clusters)
      BY <3>1, SeqMonotonic
    <3> QED BY <2>2, <3>2, <3>3, <3>5, <3>6
  <2> QED BY <2>1, <2>2
<1>5. n \in Nat /\ n >= 1
  BY Sizes
<1> HIDE DEF o, n, map, length
<1> DEFINE q == o \div n
           r == o % n
<1>6. q \in Nat /\ q < Len(map) /\ r \in 0 .. n - 1
  BY <1>2, <1>3, <1>4, <1>5, Quotient, Division
<1> HIDE DEF q, r
<1>7. q + 1 \in 1 .. Len(map) /\ r + 1 \in 1 .. n
  BY <1>4, <1>5, <1>6
<1>8. map[q + 1] \in {Root} \cup Clusters /\ Size(map[q + 1]) = n
  BY <1>4, <1>7, ElementOfSeq
<1>9. <<map[q + 1], r + 1>> \in Places
  BY <1>7, <1>8, PlaceOf
<1> QED BY <1>9 DEF Lbo, q, r, o, n, map

-----------------------------------------------------------------------------
(* What every routine keeps of a volume.                                   *)

\* The cached table is marked dirty when it is not what the disk has.
Sane(m) == m \in AnyVolume /\ (m.dirty \/ m.saved = m.fat)

\* n is what a routine makes of m: a refusal is not taken back, and without a write to
\* spend the disk stays as it is.
Follows(m, n) ==
    /\ Sane(n)
    /\ (m.refused => n.refused) /\ (m.full => n.full)
    /\ m.writes = 0 => n.writes = 0 /\ n.disk = m.disk /\ n.saved = m.saved

\* n has another file table, mapping, status or buffer than m, and nothing else.
Untouched(m, n) ==
    /\ n \in AnyVolume
    /\ n.disk = m.disk /\ n.saved = m.saved /\ n.fat = m.fat /\ n.dirty = m.dirty
    /\ n.refused = m.refused /\ n.writes = m.writes /\ n.full = m.full

LEMMA UntouchedFollows ==
    ASSUME NEW m, Sane(m), NEW n, Untouched(m, n)
    PROVE  Follows(m, n)
BY DEF Sane, Untouched, Follows

LEMMA FollowsReflexive ==
    ASSUME NEW m, Sane(m)
    PROVE  Follows(m, m)
BY DEF Follows

LEMMA FollowsTransitive ==
    ASSUME NEW m, NEW n, NEW o, Follows(m, n), Follows(n, o)
    PROVE  Follows(m, o)
BY DEF Follows

LEMMA UntouchedTransitive ==
    ASSUME NEW m, NEW n, NEW o, Untouched(m, n), Untouched(n, o)
    PROVE  Untouched(m, o)
BY DEF Untouched

LEMMA FollowsSane ==
    ASSUME NEW m, NEW n, Follows(m, n)
    PROVE  Sane(n) /\ n \in AnyVolume
BY DEF Follows, Sane

-----------------------------------------------------------------------------
(* Writes, the table and the fields of a volume.                           *)

\* The device refuses, or takes, a write.
LEMMA RefusedFollows ==
    ASSUME NEW m, Sane(m)
    PROVE  LET n == [m EXCEPT !.status = "EACCES", !.refused = TRUE]
           IN  /\ Follows(m, n) /\ n.refused /\ n.dirty = m.dirty
               /\ n.file = m.file /\ n.fat = m.fat /\ n.mcb = m.mcb
<1> DEFINE n == [m EXCEPT !.status = "EACCES", !.refused = TRUE]
<1>1. m \in AnyVolume
  BY DEF Sane
<1>2. n \in AnyVolume
  BY <1>1 DEF AnyVolume, AnyStatus
<1>3. /\ n.refused /\ n.dirty = m.dirty /\ n.writes = m.writes /\ n.disk = m.disk
      /\ n.full = m.full
      /\ n.saved = m.saved /\ n.file = m.file /\ n.fat = m.fat /\ n.mcb = m.mcb
  BY <1>1 DEF AnyVolume
<1> HIDE DEF n
<1>4. Follows(m, n)
  BY <1>2, <1>3 DEF Sane, Follows
<1> QED BY <1>3, <1>4 DEF n

LEMMA WriteDisk ==
    ASSUME NEW m, Sane(m), NEW at, NEW unit \in AnyUnit
    PROVE  /\ Follows(m, Write(m, at, unit))
           /\ Ok(m) /\ ~Ok(Write(m, at, unit)) => Write(m, at, unit).refused
           /\ Write(m, at, unit).dirty = m.dirty /\ Write(m, at, unit).file = m.file
           /\ Write(m, at, unit).fat = m.fat /\ Write(m, at, unit).mcb = m.mcb
<1> DEFINE disk == [m.disk EXCEPT ![at[1]][at[2]] = unit]
<1>1. m \in AnyVolume /\ m.disk \in AnyDisk /\ m.writes \in Nat
  BY FieldTypes DEF Sane
<1>2. disk \in AnyDisk
  BY <1>1, UnitSetType
<1>3. Write(m, at, unit) = IF ~Ok(m) THEN m
         ELSE IF m.writes = 0 THEN [m EXCEPT !.status = "EACCES", !.refused = TRUE]
         ELSE [m EXCEPT !.disk = disk, !.writes = m.writes - 1]
  BY <1>1 DEF Write, AnyVolume
<1> HIDE DEF disk
<1>4. CASE ~Ok(m)
  BY <1>1, <1>3, <1>4, FollowsReflexive
<1>5. CASE Ok(m) /\ m.writes = 0
  <2>1. Write(m, at, unit) = [m EXCEPT !.status = "EACCES", !.refused = TRUE]
    BY <1>3, <1>5
  <2> QED BY <2>1, RefusedFollows
<1>6. CASE Ok(m) /\ m.writes # 0
  <2> DEFINE n == [m EXCEPT !.disk = disk, !.writes = m.writes - 1]
  <2>1. n \in AnyVolume
    <3>1. m.writes - 1 \in Nat
      BY <1>1, <1>6
    <3> QED BY <1>1, <1>2, <3>1 DEF AnyVolume
  <2>2. /\ n.refused = m.refused /\ n.dirty = m.dirty /\ n.status = m.status
        /\ n.full = m.full /\ n.saved = m.saved /\ n.file = m.file /\ n.fat = m.fat /\ n.mcb = m.mcb
    BY <1>1 DEF AnyVolume
  <2>3. Write(m, at, unit) = n
    BY <1>3, <1>6
  <2> HIDE DEF n
  <2>4. Follows(m, n)
    BY <1>6, <2>1, <2>2 DEF Sane, Follows
  <2> QED BY <1>6, <2>2, <2>3, <2>4 DEF Ok
<1> QED BY <1>4, <1>5, <1>6

LEMMA FlushSaves ==
    ASSUME NEW m, Sane(m)
    PROVE  /\ Follows(m, Flush(m))
           /\ Ok(m) => ~Flush(m).dirty \/ Flush(m).refused
           /\ ~m.dirty => Flush(m) = m
           /\ Ok(m) /\ ~Ok(Flush(m)) => Flush(m).refused
<1>1. m \in AnyVolume /\ m.saved \in AnyTable /\ m.fat \in AnyTable /\ m.writes \in Nat
  BY FieldTypes DEF Sane
<1>2. CASE ~Ok(m) \/ ~m.dirty
  BY <1>2, FollowsReflexive DEF Flush
<1>3. CASE Ok(m) /\ m.dirty /\ m.writes = 0
  BY <1>3, RefusedFollows DEF Flush
<1>4. CASE Ok(m) /\ m.dirty /\ m.writes # 0
  <2> DEFINE n == [m EXCEPT !.saved = m.fat, !.dirty = FALSE, !.writes = m.writes - 1]
  <2>1. n \in AnyVolume
    <3>1. m.writes - 1 \in Nat
      BY <1>1, <1>4
    <3> QED BY <1>1, <3>1 DEF AnyVolume
  <2>2. /\ n.refused = m.refused /\ ~n.dirty /\ n.status = m.status
        /\ n.saved = m.fat /\ n.fat = m.fat /\ n.full = m.full
    BY <1>1 DEF AnyVolume
  <2>3. Flush(m) = n
    BY <1>4 DEF Flush
  <2> HIDE DEF n
  <2>4. Follows(m, n)
    BY <1>4, <2>1, <2>2 DEF Sane, Follows
  <2> QED BY <1>4, <2>2, <2>3, <2>4 DEF Ok
<1> QED BY <1>2, <1>3, <1>4

LEMMA SetEntry ==
    ASSUME NEW m, Sane(m), NEW i, NEW value \in Firsts \cup {LAST}
    PROVE  /\ Follows(m, SetFatEntry(m, i, value))
           /\ Ok(m) => Ok(SetFatEntry(m, i, value))
           /\ SetFatEntry(m, i, value).file = m.file
<1> DEFINE fat == [m.fat EXCEPT ![i] = value]
<1>1. m \in AnyVolume /\ m.fat \in AnyTable
  BY FieldTypes DEF Sane
<1>2. fat \in AnyTable
  BY <1>1 DEF AnyTable, Firsts
<1>3. SetFatEntry(m, i, value) = IF Ok(m) THEN [m EXCEPT !.fat = fat, !.dirty = TRUE] ELSE m
  BY <1>1 DEF SetFatEntry, AnyVolume
<1> HIDE DEF fat
<1> DEFINE n == [m EXCEPT !.fat = fat, !.dirty = TRUE]
<1>4. n \in AnyVolume
  BY <1>1, <1>2 DEF AnyVolume
<1>5. /\ n.refused = m.refused /\ n.dirty /\ n.status = m.status /\ n.disk = m.disk
      /\ n.saved = m.saved /\ n.file = m.file /\ n.writes = m.writes /\ n.full = m.full
  BY <1>1 DEF AnyVolume
<1> HIDE DEF n
<1>6. Follows(m, n)
  BY <1>4, <1>5 DEF Sane, Follows
<1> QED BY <1>3, <1>5, <1>6, FollowsReflexive DEF n, Ok

LEMMA RecognizedFollows ==
    ASSUME NEW m, Sane(m)
    PROVE  /\ Follows(m, Recognized(m)) /\ ~Recognized(m).dirty
           /\ Recognized(m).status = m.status
<1>1. NoMcb \in AnyMcb
  BY NoMcbType
<1> QED BY <1>1 DEF Recognized, Sane, Follows, AnyVolume, AnyMcb, Mappings

LEMMA LoadedUntouched ==
    ASSUME NEW m \in AnyVolume, NEW f \in FileIds, NEW vbo \in Nat
    PROVE  /\ Untouched(m, Loaded(m, f, vbo)) /\ Loaded(m, f, vbo).file = m.file
           /\ Loaded(m, f, vbo).status = m.status /\ Loaded(m, f, vbo).got = m.got
<1>1. PICK mcb \in AnyMcb : FatLoadMcb(m, f, vbo) = [m EXCEPT !.mcb = mcb]
  BY LoadMcbType
<1>2. Loaded(m, f, vbo) \in {m, [m EXCEPT !.mcb = mcb]}
  BY <1>1 DEF Loaded
<1>3. [m EXCEPT !.mcb = mcb] \in AnyVolume
  BY McbType
<1> QED BY <1>2, <1>3 DEF Untouched, AnyVolume

LEMMA FailedUntouched ==
    ASSUME NEW m \in AnyVolume, NEW status \in AnyStatus
    PROVE  Untouched(m, Failed(m, status)) /\ Failed(m, status).status = status
BY DEF Untouched, Failed, AnyVolume

\* An entry of the file table, set.
LEMMA EntryUntouched ==
    ASSUME NEW m \in AnyVolume, NEW f \in FileIds, NEW e \in AnyFile
    PROVE  LET n == [m EXCEPT !.file[f] = e]
           IN  /\ Untouched(m, n) /\ n.status = m.status /\ n.file[f] = e
               /\ n.mcb = m.mcb /\ n.got = m.got
<1> DEFINE file == [m.file EXCEPT ![f] = e]
<1>1. m.file \in [FileIds -> AnyFile]
  BY FieldTypes
<1>2. file \in [FileIds -> AnyFile] /\ file[f] = e
  BY <1>1
<1>3. [m EXCEPT !.file[f] = e] = [m EXCEPT !.file = file]
  BY DEF AnyVolume
<1> HIDE DEF file
<1> QED BY <1>2, <1>3 DEF Untouched, AnyVolume

\* The places of a file and of its entry.
LEMMA EntryFields ==
    ASSUME NEW m \in AnyVolume, NEW f \in FileIds
    PROVE  /\ m.file[f] \in AnyFile /\ m.file[f].open \in BOOLEAN
           /\ m.file[f].dirent \in AnyUnit /\ m.file[f].dirent.first \in Firsts
           /\ m.file[f].dirent.size \in Nat /\ m.file[f].dirent.dir \in BOOLEAN
           /\ m.file[f].position \in Nat /\ m.file[f].where \in Nat \X Nat
<1>1. m.file[f] \in AnyFile
  BY FieldTypes
<1>2. m.file[f].dirent \in AnyUnit
  BY <1>1 DEF AnyFile
<1> QED BY <1>1, <1>2 DEF AnyFile, AnyUnit, Firsts

LEMMA WriteDirentDisk ==
    ASSUME NEW m, Sane(m), NEW f \in FileIds
    PROVE  /\ Follows(m, WriteDirent(m, f))
           /\ Ok(m) /\ ~Ok(WriteDirent(m, f)) => WriteDirent(m, f).refused
           /\ WriteDirent(m, f).dirty = m.dirty /\ WriteDirent(m, f).file = m.file
<1>1. m \in AnyVolume /\ m.file[f].dirent \in AnyUnit
  BY EntryFields DEF Sane
<1> QED BY <1>1, WriteDisk DEF WriteDirent

-----------------------------------------------------------------------------
(* Loops over volumes.                                                     *)

\* h starts at a and goes on as move says while it is in A.
Runs(A, a, n, move, h) ==
    h[0] = a /\ \A k \in 1 .. n : h[k - 1] \in A => h[k] = move[k][h[k - 1]]

LEMMA RunStays ==
    ASSUME NEW A, NEW a \in A, NEW n \in Nat, NEW move \in [1 .. n -> [A -> A]], NEW h,
           Runs(A, a, n, move, h)
    PROVE  h[n] \in A
<1> DEFINE Bad == {k \in 0 .. n : h[k] \notin A}
<1> SUFFICES ASSUME Bad # {} PROVE FALSE
  <2>1. n \in 0 .. n
    OBVIOUS
  <2> QED BY <2>1
<1>1. PICK k \in Bad : \A j \in Bad : k <= j
  <2>1. Bad \in SUBSET Nat
    OBVIOUS
  <2> HIDE DEF Bad
  <2> QED BY <2>1, LeastExists
<1>2. k \in 1 .. n /\ k - 1 \in 0 .. n /\ k - 1 \notin Bad
  BY <1>1 DEF Runs
<1>3. h[k - 1] \in A
  BY <1>2
<1>4. h[k] = move[k][h[k - 1]]
  BY <1>2, <1>3 DEF Runs
<1>5. move[k] \in [A -> A]
  BY <1>2
<1>6. h[k] \in A
  BY <1>3, <1>4, <1>5
<1> QED BY <1>1, <1>6

\* The volumes a routine may make of m.
Made(m) == {n \in AnyVolume : Follows(m, n)}

-----------------------------------------------------------------------------
(* Allocation.                                                             *)

Blanks(m, c, n, g) ==
    g = [u \in 0 .. n |-> IF u = 0 THEN m ELSE Write(g[u - 1], <<c, u>>, Blank)]

BlankTurns(m, c, h) ==
    h[0] = m /\ \A k \in 1 .. Units : h[k] = Write(h[k - 1], <<c, k>>, Blank)

LEMMA BlankedTurns ==
    ASSUME NEW m, Sane(m), NEW c
    PROVE  \E h : BlankTurns(m, c, h) /\ Blanked(m, c) = h[Units]
<1> DEFINE n == Units
           A == Made(m)
           move == [k \in 1 .. n |-> [x \in A |-> Write(x, <<c, k>>, Blank)]]
<1>1. n \in Nat
  BY Sizes
<1>2. m \in A
  BY FollowsReflexive, FollowsSane DEF Made
<1>3. move \in [1 .. n -> [A -> A]]
  <2>1. ASSUME NEW k \in 1 .. n, NEW x \in A PROVE Write(x, <<c, k>>, Blank) \in A
    <3>1. Sane(x) /\ Follows(m, x)
      BY FollowsSane DEF Made
    <3>2. Follows(x, Write(x, <<c, k>>, Blank))
      BY <3>1, BlankType, WriteDisk
    <3>3. Follows(m, Write(x, <<c, k>>, Blank))
      BY <3>1, <3>2, FollowsTransitive
    <3> QED BY <3>3, FollowsSane DEF Made
  <2> HIDE DEF A, n
  <2> QED BY <2>1
<1>4. \A k \in 1 .. n, x \in A : move[k][x] = Write(x, <<c, k>>, Blank)
  OBVIOUS
<1> HIDE DEF n, move, A
<1>5. PICK f \in [0 .. n -> A] : Iterates(m, n, move, f)
  BY <1>1, <1>2, <1>3, IterationExists
<1>6. Blanks(m, c, n, f)
  <2>1. f[0] = m /\ \A k \in 1 .. n : f[k] = move[k][f[k - 1]]
    BY <1>5 DEF Iterates
  <2>2. \A k \in 1 .. n : move[k][f[k - 1]] = Write(f[k - 1], <<c, k>>, Blank)
    BY <1>1, <1>4, <1>5
  <2>3. f = [k \in 0 .. n |-> IF k = 0 THEN m ELSE Write(f[k - 1], <<c, k>>, Blank)]
    <3>1. \A k \in 0 .. n : k = 0 \/ k \in 1 .. n
      BY <1>1
    <3> QED BY <1>5, <2>1, <2>2, <3>1
  <2> QED BY <2>3 DEF Blanks
<1> DEFINE h == CHOOSE g : Blanks(m, c, n, g)
<1>7. Blanks(m, c, n, h)
  BY <1>6
<1>8. Blanked(m, c) = h[n]
  BY DEF Blanked, Blanks, n
<1> HIDE DEF h
<1>9. BlankTurns(m, c, h)
  <2>1. h = [k \in 0 .. n |-> IF k = 0 THEN m ELSE Write(h[k - 1], <<c, k>>, Blank)]
    BY <1>7 DEF Blanks
  <2> QED BY <1>1, <2>1 DEF BlankTurns, n
<1> QED BY <1>8, <1>9 DEF n

LEMMA BlankedFollows ==
    ASSUME NEW m, Sane(m), NEW c
    PROVE  Follows(m, Blanked(m, c))
<1>1. PICK h : BlankTurns(m, c, h) /\ Blanked(m, c) = h[Units]
  BY BlankedTurns
<1> DEFINE B == {k \in 0 .. Units : Follows(m, h[k])}
<1>2. 0 \in B
  BY <1>1, Sizes, FollowsReflexive DEF BlankTurns
<1>3. ASSUME NEW k \in 1 .. Units, k - 1 \in B PROVE k \in B
  <2>1. Follows(m, h[k - 1]) /\ Sane(h[k - 1]) /\ h[k] = Write(h[k - 1], <<c, k>>, Blank)
    BY <1>1, <1>3, FollowsSane DEF BlankTurns
  <2> QED BY <2>1, BlankType, WriteDisk, FollowsTransitive
<1>4. Units \in B
  <2> HIDE DEF B
  <2> QED BY <1>2, <1>3, Sizes, UpTo
<1> QED BY <1>1, <1>4

LEMMA LinkedFollows ==
    ASSUME NEW m, Sane(m), NEW previous, NEW c \in Firsts
    PROVE  Follows(m, Linked(m, previous, c))
<1> DEFINE n == IF previous = 0 THEN m ELSE SetFatEntry(m, previous, c)
<1>1. Follows(m, n)
  BY SetEntry, FollowsReflexive
<1> HIDE DEF n
<1>2. Sane(n) /\ Follows(n, SetFatEntry(n, c, LAST))
  BY <1>1, SetEntry, FollowsSane
<1>3. Linked(m, previous, c) = SetFatEntry(n, c, LAST)
  BY DEF Linked, n
<1> QED BY <1>1, <1>2, <1>3, FollowsTransitive

\* The state of the allocation loop, started with the volume m.
Searches(m) ==
    [m : Made(m), taken : Nat, first : Firsts, previous : Firsts, done : BOOLEAN]

LEMMA ExamineType ==
    ASSUME NEW m, Sane(m), NEW a \in Searches(m), NEW c \in Clusters, NEW count
    PROVE  Examine(a, c, count) \in Searches(m)
<1> DEFINE n == Blanked(Linked(a.m, a.previous, c), c)
<1>1. a.m \in AnyVolume /\ Follows(m, a.m) /\ Sane(a.m)
  BY FollowsSane DEF Searches, Made
<1>2. c \in Firsts
  BY DEF Firsts
<1>3. Follows(a.m, Linked(a.m, a.previous, c)) /\ Sane(Linked(a.m, a.previous, c))
  BY <1>1, <1>2, LinkedFollows, FollowsSane
<1>4. Follows(Linked(a.m, a.previous, c), n)
  BY <1>3, BlankedFollows
<1>5. Follows(m, n)
  BY <1>1, <1>3, <1>4, FollowsTransitive
<1>6. n \in Made(m)
  BY <1>5, FollowsSane DEF Made
<1> HIDE DEF n
<1>7. [a EXCEPT !.m = n, !.taken = @ + 1, !.first = IF @ = 0 THEN c ELSE @,
                !.previous = c] \in Searches(m)
  <2>1. a.taken + 1 \in Nat /\ (IF a.first = 0 THEN c ELSE a.first) \in Firsts
    BY <1>2 DEF Searches
  <2> QED BY <1>2, <1>6, <2>1 DEF Searches
<1>8. [a EXCEPT !.done = TRUE] \in Searches(m)
  BY DEF Searches
<1> QED BY <1>7, <1>8 DEF Examine, n

LEMMA NoneLeftFollows ==
    ASSUME NEW m, Sane(m), NEW a \in Searches(m)
    PROVE  Follows(m, NoneLeft(a).m) /\ NoneLeft(a).first \in Firsts
<1>1. a.m \in AnyVolume /\ Follows(m, a.m) /\ Sane(a.m) /\ a.first \in Firsts
  BY FollowsSane DEF Searches, Made
<1>2. CASE a.done \/ ~Ok(a.m)
  BY <1>1, <1>2 DEF NoneLeft
<1>3. CASE ~(a.done \/ ~Ok(a.m))
  <2> DEFINE n == [a.m EXCEPT !.status = "ENOSPC", !.full = TRUE]
  <2>1. n \in AnyVolume
    BY <1>1 DEF AnyVolume, AnyStatus
  <2>2. /\ n.refused = a.m.refused /\ n.dirty = a.m.dirty /\ n.writes = a.m.writes
        /\ n.disk = a.m.disk /\ n.saved = a.m.saved /\ n.fat = a.m.fat /\ n.full
    BY <1>1 DEF AnyVolume
  <2>3. NoneLeft(a).m = n /\ NoneLeft(a).first = a.first
    BY <1>3 DEF NoneLeft, Searches
  <2> HIDE DEF n
  <2>4. Follows(a.m, n)
    BY <1>1, <2>1, <2>2 DEF Sane, Follows
  <2>5. Follows(m, n)
    BY <1>1, <2>4, FollowsTransitive
  <2> QED BY <1>1, <2>3, <2>5
<1> QED BY <1>2, <1>3

LEMMA OrderType ==
    ASSUME NEW hint \in Nat, NEW j \in 1 .. TotalClustersInVolume
    PROVE  Order(hint)[j] \in Clusters
<1> DEFINE n == TotalClustersInVolume
           i == j + hint - 3
<1>1. n \in Nat /\ n >= 1 /\ i \in Int
  BY VolumeAssumption
<1> HIDE DEF i
<1>2. i % n \in 0 .. n - 1
  BY <1>1
<1>3. (i % n) + 2 \in 2 .. n + 1
  BY <1>1, <1>2
<1> QED BY <1>3 DEF Order, Clusters, i

Looks(m, count, hint, n, g) ==
    g = [j \in 0 .. n |->
            IF j = 0
            THEN [m |-> m, taken |-> 0, first |-> 0, previous |-> 0, done |-> FALSE]
            ELSE Examine(g[j - 1], Order(hint)[j], count)]

\* The loop before its first turn, and its turns.
Search0(m) == [m |-> m, taken |-> 0, first |-> 0, previous |-> 0, done |-> FALSE]

SearchTurns(m, count, hint, h) ==
    /\ h[0] = Search0(m)
    /\ \A k \in 1 .. TotalClustersInVolume :
          h[k] = Examine(h[k - 1], Order(hint)[k], count)

LEMMA AllocationTurns ==
    ASSUME NEW m, Sane(m), NEW count, NEW hint \in Nat
    PROVE  \E h : /\ SearchTurns(m, count, hint, h)
                  /\ FatAllocateClusters(m, count, hint) = NoneLeft(h[TotalClustersInVolume])
                  /\ h[TotalClustersInVolume] \in Searches(m)
<1> DEFINE n == TotalClustersInVolume
           A == Searches(m)
           a0 == [m |-> m, taken |-> 0, first |-> 0, previous |-> 0, done |-> FALSE]
           move == [k \in 1 .. n |-> [x \in A |-> Examine(x, Order(hint)[k], count)]]
<1>1. n \in Nat
  BY VolumeAssumption
<1>2. a0 \in A
  BY FollowsReflexive, FollowsSane DEF Searches, Made, Firsts, Available
<1>3. move \in [1 .. n -> [A -> A]]
  <2>1. \A k \in 1 .. n, x \in A : Examine(x, Order(hint)[k], count) \in A
    BY ExamineType, OrderType
  <2> HIDE DEF A, n
  <2> QED BY <2>1
<1>4. \A k \in 1 .. n, x \in A : move[k][x] = Examine(x, Order(hint)[k], count)
  OBVIOUS
<1> HIDE DEF n, move, A, a0
<1>5. PICK f \in [0 .. n -> A] : Iterates(a0, n, move, f)
  BY <1>1, <1>2, <1>3, IterationExists
<1>6. Looks(m, count, hint, n, f)
  <2>1. f[0] = a0 /\ \A k \in 1 .. n : f[k] = move[k][f[k - 1]]
    BY <1>5 DEF Iterates
  <2>2. \A k \in 1 .. n :
           move[k][f[k - 1]] = Examine(f[k - 1], Order(hint)[k], count)
    BY <1>1, <1>4, <1>5
  <2>3. f = [k \in 0 .. n |->
                IF k = 0 THEN a0 ELSE Examine(f[k - 1], Order(hint)[k], count)]
    <3>1. \A k \in 0 .. n : k = 0 \/ k \in 1 .. n
      BY <1>1
    <3> QED BY <1>5, <2>1, <2>2, <3>1
  <2> QED BY <2>3 DEF Looks, a0
<1> DEFINE h == CHOOSE g : Looks(m, count, hint, n, g)
<1>7. Looks(m, count, hint, n, h)
  BY <1>6
<1>8. FatAllocateClusters(m, count, hint) = NoneLeft(h[n])
  BY DEF FatAllocateClusters, Looks, n
<1> HIDE DEF h
<1>9. Runs(A, a0, n, move, h)
  <2>1. h = [k \in 0 .. n |->
                IF k = 0 THEN a0 ELSE Examine(h[k - 1], Order(hint)[k], count)]
    BY <1>7 DEF Looks, a0
  <2> QED BY <1>1, <1>4, <2>1 DEF Runs
<1>10. h[n] \in A
  BY <1>1, <1>2, <1>3, <1>9, RunStays
<1>11. SearchTurns(m, count, hint, h)
  <2>1. h = [k \in 0 .. n |->
                IF k = 0 THEN a0 ELSE Examine(h[k - 1], Order(hint)[k], count)]
    BY <1>7 DEF Looks, a0
  <2>2. h[0] = a0 /\ \A k \in 1 .. n : h[k] = Examine(h[k - 1], Order(hint)[k], count)
    BY <1>1, <2>1
  <2> QED BY <2>2 DEF SearchTurns, Search0, n, a0
<1> QED BY <1>8, <1>10, <1>11 DEF A, n

LEMMA AllocationFollows ==
    ASSUME NEW m, Sane(m), NEW count, NEW hint \in Nat
    PROVE  LET a == FatAllocateClusters(m, count, hint)
           IN  Follows(m, a.m) /\ Sane(a.m) /\ a.first \in Firsts
BY AllocationTurns, NoneLeftFollows, FollowsSane

\* One field of an entry of the file table, set.
LEMMA DirentSet ==
    ASSUME NEW m \in AnyVolume, NEW f \in FileIds, NEW unit \in AnyUnit
    PROVE  LET n == [m EXCEPT !.file[f].dirent = unit]
           IN  /\ Untouched(m, n) /\ n.status = m.status
               /\ n.file[f].dirent = unit /\ n.file[f].where = m.file[f].where
<1> DEFINE e == [m.file[f] EXCEPT !.dirent = unit]
<1>1. m.file[f] \in AnyFile
  BY EntryFields
<1>2. e \in AnyFile /\ e.dirent = unit /\ e.where = m.file[f].where
  BY <1>1 DEF AnyFile
<1>3. [m EXCEPT !.file[f].dirent = unit] = [m EXCEPT !.file[f] = e]
  BY FieldTypes DEF AnyVolume
<1> HIDE DEF e
<1> QED BY <1>2, <1>3, EntryUntouched

LEMMA WhereSet ==
    ASSUME NEW m \in AnyVolume, NEW f \in FileIds, NEW at \in Nat \X Nat
    PROVE  LET n == [m EXCEPT !.file[f].where = at]
           IN  Untouched(m, n) /\ n.status = m.status
<1> DEFINE e == [m.file[f] EXCEPT !.where = at]
<1>1. m.file[f] \in AnyFile
  BY EntryFields
<1>2. e \in AnyFile
  BY <1>1 DEF AnyFile
<1>3. [m EXCEPT !.file[f].where = at] = [m EXCEPT !.file[f] = e]
  BY FieldTypes DEF AnyVolume
<1> HIDE DEF e
<1> QED BY <1>2, <1>3, EntryUntouched

LEMMA PositionSet ==
    ASSUME NEW m \in AnyVolume, NEW f \in FileIds, NEW position \in Nat
    PROVE  LET n == [m EXCEPT !.file[f].position = position]
           IN  Untouched(m, n) /\ n.status = m.status
<1> DEFINE e == [m.file[f] EXCEPT !.position = position]
<1>1. m.file[f] \in AnyFile
  BY EntryFields
<1>2. e \in AnyFile
  BY <1>1 DEF AnyFile
<1>3. [m EXCEPT !.file[f].position = position] = [m EXCEPT !.file[f] = e]
  BY FieldTypes DEF AnyVolume
<1> HIDE DEF e
<1> QED BY <1>2, <1>3, EntryUntouched

LEMMA OpenedUntouched ==
    ASSUME NEW m \in AnyVolume, NEW f \in FileIds
    PROVE  Untouched(m, Opened(m, f)) /\ Opened(m, f).status = m.status
<1> DEFINE e == [m.file[f] EXCEPT !.open = TRUE]
<1>1. m.file[f] \in AnyFile
  BY EntryFields
<1>2. e \in AnyFile
  BY <1>1 DEF AnyFile
<1>3. [m EXCEPT !.file[f].open = TRUE] = [m EXCEPT !.file[f] = e]
  BY FieldTypes DEF AnyVolume
<1> HIDE DEF e
<1>4. Untouched(m, m)
  BY DEF Untouched
<1> QED BY <1>2, <1>3, <1>4, EntryUntouched DEF Opened

LEMMA JoinedFollows ==
    ASSUME NEW a, Sane(a.m), a.first \in Firsts, NEW f \in FileIds, NEW cs
    PROVE  Follows(a.m, Joined(a, f, cs))
<1>1. CASE ~Ok(a.m)
  BY <1>1, FollowsReflexive DEF Joined
<1>2. CASE Ok(a.m) /\ cs = <<>>
  <2> DEFINE unit == [a.m.file[f].dirent EXCEPT !.first = a.first]
             n == [a.m EXCEPT !.file[f].dirent = unit]
  <2>1. a.m \in AnyVolume
    BY DEF Sane
  <2>2. unit \in AnyUnit
    BY <2>1, EntryFields DEF AnyUnit, Firsts
  <2>3. [a.m EXCEPT !.file[f].dirent.first = a.first] = n
    BY <2>1, FieldTypes DEF AnyVolume, AnyFile
  <2> HIDE DEF unit
  <2>4. Untouched(a.m, n)
    BY <2>1, <2>2, DirentSet
  <2> HIDE DEF n
  <2>5. Follows(a.m, n) /\ Sane(n)
    BY <2>4, UntouchedFollows, FollowsSane
  <2>6. Follows(a.m, WriteDirent(n, f))
    BY <2>5, WriteDirentDisk, FollowsTransitive
  <2>7. Joined(a, f, cs) = WriteDirent(n, f)
    BY <1>2, <2>3 DEF Joined
  <2> QED BY <2>6, <2>7
<1>3. CASE Ok(a.m) /\ cs # <<>>
  <2>1. Joined(a, f, cs) = SetFatEntry(a.m, Last(cs), a.first)
    BY <1>3 DEF Joined
  <2> QED BY <2>1, SetEntry
<1> QED BY <1>1, <1>2, <1>3

LEMMA GrownFollows ==
    ASSUME NEW m, Sane(m), NEW f \in FileIds, NEW size
    PROVE  Follows(m, FatIncreaseFileAllocation(m, f, size))
<1> DEFINE cs == Chain(m.fat, m.file[f].dirent.first)
           needed == (size + Units - 1) \div Units
           hint == IF cs = <<>> THEN 2 ELSE Last(cs)
           a == FatAllocateClusters(m, needed - Len(cs), hint)
<1>1. cs \in Seq(Clusters)
  BY ChainType
<1> HIDE DEF cs
<1>2. hint \in Nat
  <2>1. CASE cs = <<>>
    BY <2>1
  <2>2. CASE cs # <<>>
    <3>1. Len(cs) \in 1 .. Len(cs)
      BY <1>1, <2>2, LenProperties, EmptySeq
    <3>2. Last(cs) \in Clusters
      BY <1>1, <3>1, ElementOfSeq DEF Last
    <3> QED BY <2>2, <3>2, ClusterFacts
  <2> QED BY <2>1, <2>2
<1> HIDE DEF needed, hint
<1>3. Follows(m, a.m) /\ Sane(a.m) /\ a.first \in Firsts
  BY <1>2, AllocationFollows
<1>4. FatIncreaseFileAllocation(m, f, size) =
         IF Len(cs) >= needed THEN m ELSE Joined(a, f, cs)
  BY DEF FatIncreaseFileAllocation, GrownTo, cs, needed, hint
<1> HIDE DEF a
<1>5. Follows(m, Joined(a, f, cs))
  BY <1>3, JoinedFollows, FollowsTransitive
<1> QED BY <1>4, <1>5, FollowsReflexive

LEMMA FreedFollows ==
    ASSUME NEW m, Sane(m), NEW cs
    PROVE  Follows(m, Freed(m, cs)) /\ (Ok(m) => Ok(Freed(m, cs)))
<1> DEFINE fat == [c \in Clusters |->
                     IF \E i \in DOMAIN cs : cs[i] = c THEN Available ELSE m.fat[c]]
           n == [m EXCEPT !.fat = fat, !.dirty = TRUE]
<1>1. m \in AnyVolume /\ m.fat \in AnyTable
  BY FieldTypes DEF Sane
<1>2. fat \in AnyTable
  BY <1>1 DEF AnyTable
<1>3. Freed(m, cs) = IF ~Ok(m) \/ cs = <<>> THEN m ELSE n
  BY <1>1 DEF Freed, AnyVolume
<1> HIDE DEF fat
<1>4. n \in AnyVolume
  BY <1>1, <1>2 DEF AnyVolume
<1>5. /\ n.refused = m.refused /\ n.dirty /\ n.status = m.status /\ n.disk = m.disk
      /\ n.saved = m.saved /\ n.writes = m.writes /\ n.full = m.full
  BY <1>1 DEF AnyVolume
<1> HIDE DEF n
<1>6. Follows(m, n)
  BY <1>4, <1>5 DEF Sane, Follows
<1> QED BY <1>3, <1>5, <1>6, FollowsReflexive DEF Ok

LEMMA TruncateFollows ==
    ASSUME NEW m, Sane(m), NEW f \in FileIds
    PROVE  LET n == FatTruncateFileAllocation(m, f)
           IN  Follows(m, n) /\ (Ok(m) /\ ~Ok(n) => n.refused)
<1>1. CASE m.file[f].where = Nowhere \/ m.file[f].dirent.first = Available
  BY <1>1, FollowsReflexive DEF FatTruncateFileAllocation
<1>2. CASE ~(m.file[f].where = Nowhere \/ m.file[f].dirent.first = Available)
  <2> DEFINE unit == [m.file[f].dirent EXCEPT !.dir = FALSE, !.readOnly = FALSE,
                                              !.first = Available, !.size = 0]
             n == [m EXCEPT !.file[f].dirent = unit]
             o == WriteDirent(n, f)
             cs == Chain(m.fat, m.file[f].dirent.first)
  <2>1. m \in AnyVolume
    BY DEF Sane
  <2>2. unit \in AnyUnit
    BY <2>1, EntryFields DEF AnyUnit, Firsts
  <2>3. FatTruncateFileAllocation(m, f) = Freed(o, cs)
    BY <1>2, <2>1, FieldTypes DEF FatTruncateFileAllocation, AnyVolume, AnyFile
  <2> HIDE DEF unit, cs
  <2>4. Untouched(m, n) /\ n.status = m.status
    BY <2>1, <2>2, DirentSet
  <2> HIDE DEF n
  <2>5. Follows(m, n) /\ Sane(n)
    BY <2>4, UntouchedFollows, FollowsSane
  <2>6. Follows(n, o) /\ Sane(o) /\ (Ok(n) /\ ~Ok(o) => o.refused)
    BY <2>5, WriteDirentDisk, FollowsSane
  <2> HIDE DEF o
  <2>7. Follows(o, Freed(o, cs)) /\ (Ok(o) => Ok(Freed(o, cs)))
    BY <2>6, FreedFollows
  <2>8. Follows(m, Freed(o, cs))
    BY <2>5, <2>6, <2>7, FollowsTransitive
  <2>9. ASSUME Ok(m), ~Ok(Freed(o, cs)) PROVE Freed(o, cs).refused
    <3>1. Ok(n) /\ ~Ok(o)
      BY <2>4, <2>7, <2>9 DEF Ok
    <3> QED BY <2>6, <2>7, <3>1 DEF Follows
  <2> QED BY <2>3, <2>8, <2>9
<1> QED BY <1>1, <1>2

LEMMA ExtendedFollows ==
    ASSUME NEW a, Sane(a.m), a.first \in Firsts, NEW f \in FileIds, NEW last
    PROVE  Follows(a.m, ExtendedDirectory(a, f, last))
<1> DEFINE n == SetFatEntry(a.m, last, a.first)
           o == [n EXCEPT !.file[f].where = <<a.first, 1>>]
<1>1. Follows(a.m, n) /\ Sane(n) /\ n \in AnyVolume
  BY SetEntry, FollowsSane
<1>2. <<a.first, 1>> \in Nat \X Nat
  BY ClusterFacts
<1>3. ExtendedDirectory(a, f, last) = IF ~Ok(a.m) THEN a.m ELSE WriteDirent(o, f)
  BY DEF ExtendedDirectory
<1> HIDE DEF n
<1>4. Untouched(n, o)
  BY <1>1, <1>2, WhereSet
<1> HIDE DEF o
<1>5. Follows(n, o) /\ Sane(o)
  BY <1>1, <1>4, UntouchedFollows, FollowsSane
<1>6. Follows(o, WriteDirent(o, f))
  BY <1>5, WriteDirentDisk
<1>7. Follows(a.m, WriteDirent(o, f))
  BY <1>1, <1>5, <1>6, FollowsTransitive
<1> QED BY <1>3, <1>7, FollowsReflexive

LEMMA CreateDirentFollows ==
    ASSUME NEW m, Sane(m), NEW f \in FileIds, NEW first \in Firsts
    PROVE  Follows(m, FatCreateDirent(m, f, first))
<1> DEFINE slots == Slots(m, first)
           Free(at) == IsFree(UnitAt(m, at))
           I == {k \in 1 .. Len(slots) : Free(slots[k])}
           i == SelectInSeq(slots, Free)
           last == Last(slots)[1]
           n == [m EXCEPT !.file[f].where = slots[i]]
           a == FatAllocateClusters(m, 1, last)
<1>1. slots \in Seq(Places) /\ Len(slots) >= 1 /\ Len(slots) \in Nat
  BY SlotsType, LenProperties
<1>2. i = IF I # {} THEN Min(I) ELSE 0
  BY DEF SelectInSeq
<1>3. i = 0 \/ i \in 1 .. Len(slots)
  <2>1. I \in SUBSET Nat /\ I \subseteq 1 .. Len(slots)
    OBVIOUS
  <2> HIDE DEF I, i
  <2> QED BY <1>2, <2>1, FirstIndex
<1>4. FatCreateDirent(m, f, first) =
         IF i # 0 THEN WriteDirent(n, f)
         ELSE IF first = Root THEN Failed(m, "ENOSPC") ELSE ExtendedDirectory(a, f, last)
  BY DEF FatCreateDirent, PlacedAmong
<1> HIDE DEF slots, I, i
<1>5. m \in AnyVolume
  BY DEF Sane
<1>6. last \in Nat
  <2>1. Last(slots) \in Places
    BY <1>1, ElementOfSeq DEF Last
  <2> QED BY <2>1, PlaceFacts
<1> HIDE DEF last
<1>7. Follows(m, ExtendedDirectory(a, f, last))
  <2>1. Follows(m, a.m) /\ Sane(a.m) /\ a.first \in Firsts
    BY <1>6, AllocationFollows
  <2> HIDE DEF a
  <2> QED BY <2>1, ExtendedFollows, FollowsTransitive
<1>8. Follows(m, Failed(m, "ENOSPC"))
  BY <1>5, FailedUntouched, UntouchedFollows DEF AnyStatus
<1>9. i # 0 => Follows(m, WriteDirent(n, f))
  <2> SUFFICES ASSUME i # 0 PROVE Follows(m, WriteDirent(n, f))
    OBVIOUS
  <2>1. slots[i] \in Nat \X Nat
    BY <1>1, <1>3, ElementOfSeq, PlaceFacts
  <2>2. Untouched(m, n)
    BY <1>5, <2>1, WhereSet
  <2> HIDE DEF n
  <2>3. Follows(m, n) /\ Sane(n)
    BY <2>2, UntouchedFollows, FollowsSane
  <2> QED BY <2>3, WriteDirentDisk, FollowsTransitive
<1> QED BY <1>4, <1>7, <1>8, <1>9

-----------------------------------------------------------------------------
(* Opening and closing.                                                    *)

LEMMA CloseSaves ==
    ASSUME NEW m, Sane(m), NEW f \in FileIds
    PROVE  /\ Follows(m, FatClose(m, f))
           /\ Ok(m) => ~FatClose(m, f).dirty \/ FatClose(m, f).refused
           /\ ~m.dirty => Untouched(m, FatClose(m, f))
<1> DEFINE n == [m EXCEPT !.file[f] = NoFile]
           o == Flush(n)
           p == [o EXCEPT !.mcb = NoMcb]
<1>1. m \in AnyVolume
  BY DEF Sane
<1>2. Untouched(m, n) /\ n.status = m.status
  BY <1>1, NoFileType, EntryUntouched
<1> HIDE DEF n
<1>3. Follows(m, n) /\ Sane(n)
  BY <1>2, UntouchedFollows, FollowsSane
<1>4. /\ Follows(n, o) /\ (Ok(n) => ~o.dirty \/ o.refused) /\ (~n.dirty => o = n)
      /\ o \in AnyVolume /\ Sane(o)
  BY <1>3, FlushSaves, FollowsSane
<1>5. FatClose(m, f) = IF Ok(o) /\ o.mcb.owner = f THEN p ELSE o
  BY DEF FatClose, Unmapped, n
<1> HIDE DEF o
<1>6. p \in AnyVolume
  BY <1>4, NoMcbType, McbType
<1>7. Untouched(o, p)
  BY <1>4, <1>6 DEF Untouched, AnyVolume
<1> HIDE DEF p
<1>8. Untouched(o, FatClose(m, f))
  BY <1>4, <1>5, <1>7 DEF Untouched
<1> DEFINE q == FatClose(m, f)
<1> HIDE DEF q
<1>9. Untouched(o, q)
  BY <1>8 DEF q
<1>10. Follows(m, q)
  BY <1>3, <1>4, <1>9, UntouchedFollows, FollowsTransitive
<1>11. Ok(m) => ~q.dirty \/ q.refused
  BY <1>2, <1>4, <1>9 DEF Untouched, Ok
<1>12. ~m.dirty => Untouched(m, q)
  BY <1>2, <1>4, <1>9 DEF Untouched
<1> QED BY <1>10, <1>11, <1>12 DEF q

LEMMA PutFollows ==
    ASSUME NEW m, Sane(m), NEW f \in FileIds, NEW vbo \in Nat, NEW unit \in AnyUnit
    PROVE  Follows(m, PutAt(m, f, vbo, unit))
<1> DEFINE n == Loaded(m, f, vbo)
<1>1. Untouched(m, n)
  BY LoadedUntouched DEF Sane
<1> HIDE DEF n
<1>2. Follows(m, n) /\ Sane(n) /\ n \in AnyVolume
  BY <1>1, UntouchedFollows, FollowsSane
<1>3. Follows(n, Write(n, Lbo(n, vbo), unit))
  BY <1>2, WriteDisk
<1>4. Follows(n, Failed(n, "EINVAL"))
  BY <1>2, FailedUntouched, UntouchedFollows DEF AnyStatus
<1>5. Follows(n, WriteAt(n, vbo, unit))
  BY <1>3, <1>4 DEF WriteAt
<1>6. PutAt(m, f, vbo, unit) = IF Ok(m) THEN WriteAt(n, vbo, unit) ELSE m
  BY DEF PutAt, n
<1> QED BY <1>2, <1>5, <1>6, FollowsReflexive, FollowsTransitive

LEMMA DotsFollow ==
    ASSUME NEW m, Sane(m), NEW f \in FileIds, NEW parent \in Firsts
    PROVE  Follows(m, Dots(m, f, parent))
<1> DEFINE dot == Dirent(Dot, TRUE, m.file[f].dirent.first)
           dots == Dirent(DotDot, TRUE, parent)
           n == PutAt(m, f, 0, dot)
<1>1. m.file[f].dirent.first \in Firsts
  BY EntryFields DEF Sane
<1>2. dot \in AnyUnit /\ dots \in AnyUnit
  <2>1. Dot \in AnyName /\ DotDot \in AnyName
    BY DEF AnyName
  <2> QED BY <1>1, <2>1, DirentType
<1> HIDE DEF dot, dots
<1>3. Follows(m, n) /\ Sane(n)
  BY <1>2, PutFollows, FollowsSane
<1> HIDE DEF n
<1>4. Follows(n, PutAt(n, f, 1, dots))
  BY <1>2, <1>3, PutFollows
<1>5. Dots(m, f, parent) = PutAt(n, f, 1, dots)
  BY DEF Dots, n, dot, dots
<1> QED BY <1>3, <1>4, <1>5, FollowsTransitive

\* An entry made for what is to be created.
LEMMA NewEntry ==
    ASSUME NEW m, Sane(m), NEW f \in FileIds, NEW name \in AnyName, NEW dir \in BOOLEAN,
           NEW parent \in Firsts
    PROVE  LET n == [m EXCEPT !.file[f].dirent = Dirent(name, dir, Available)]
           IN  Follows(m, FatCreateDirent(n, f, parent))
<1> DEFINE unit == Dirent(name, dir, Available)
           n == [m EXCEPT !.file[f].dirent = unit]
<1>1. unit \in AnyUnit
  BY DirentType DEF Firsts
<1> HIDE DEF unit
<1>2. Untouched(m, n)
  BY <1>1, DirentSet DEF Sane
<1> HIDE DEF n
<1>3. Follows(m, n) /\ Sane(n)
  BY <1>2, UntouchedFollows, FollowsSane
<1>4. Follows(m, FatCreateDirent(n, f, parent))
  BY <1>3, CreateDirentFollows, FollowsTransitive
<1> QED BY <1>4 DEF n, unit

LEMMA OpenedFollows ==
    ASSUME NEW m, NEW n, Follows(m, n), NEW f \in FileIds
    PROVE  Follows(m, Opened(n, f))
<1>1. Sane(n) /\ n \in AnyVolume
  BY FollowsSane
<1>2. Follows(n, Opened(n, f))
  BY <1>1, OpenedUntouched, UntouchedFollows
<1> QED BY <1>2, FollowsTransitive

LEMMA DirectoryFollows ==
    ASSUME NEW m, Sane(m), NEW f \in FileIds, NEW name \in AnyName, NEW parent \in Firsts
    PROVE  Follows(m, CreateDirectory(m, f, name, parent))
<1> DEFINE n == [m EXCEPT !.file[f].dirent = Dirent(name, TRUE, Available)]
           o == FatCreateDirent(n, f, parent)
           p == WithCluster(o, f)
           q == WithDots(p, f, parent)
<1>1. Follows(m, o) /\ Sane(o)
  BY NewEntry, FollowsSane
<1>2. CreateDirectory(m, f, name, parent) = Opened(q, f)
  BY DEF CreateDirectory
<1> HIDE DEF o
<1>3. Follows(m, p) /\ Sane(p)
  BY <1>1, GrownFollows, FollowsTransitive, FollowsReflexive, FollowsSane DEF WithCluster
<1> HIDE DEF p
<1>4. Follows(m, q)
  BY <1>3, DotsFollow, FollowsTransitive, FollowsReflexive DEF WithDots
<1> HIDE DEF q
<1> QED BY <1>2, <1>4, OpenedFollows

\* Modes that change nothing.
ReadModes == {"OpenReadOnly", "OpenDirectory"}

NamedFor(mode, name) == mode \in ReadModes \/ name \in AnyName

NamedPath(mode, path) == mode \in ReadModes \/ path # <<>>

LEMMA FoundFollows ==
    ASSUME NEW m, Sane(m), NEW f \in FileIds, NEW e, NEW mode
    PROVE  LET n == OpenFound(m, f, e, mode)
           IN  Follows(m, n) /\ (mode \in ReadModes => n.dirty = m.dirty)
<1>1. m \in AnyVolume /\ Follows(m, m)
  BY FollowsReflexive DEF Sane
<1>2. Follows(m, Opened(m, f)) /\ Opened(m, f).dirty = m.dirty
  BY <1>1, OpenedUntouched, UntouchedFollows DEF Untouched
<1>3. \A status \in AnyStatus :
         Follows(m, Failed(m, status)) /\ Failed(m, status).dirty = m.dirty
  BY <1>1, FailedUntouched, UntouchedFollows DEF Untouched
<1>4. Follows(m, Opened(FatTruncateFileAllocation(m, f), f))
  BY TruncateFollows, OpenedFollows
<1>5. {"EACCES", "EISDIR", "EROFS", "ENOTDIR"} \subseteq AnyStatus
  BY DEF AnyStatus
<1>6. "SupersedeWriteOnly" \notin ReadModes
  BY DEF ReadModes
<1> QED BY <1>2, <1>3, <1>4, <1>5, <1>6 DEF OpenFound

LEMMA MissingFollows ==
    ASSUME NEW m, Sane(m), NEW f \in FileIds, NEW name, NEW parent \in Firsts, NEW mode,
           NamedFor(mode, name)
    PROVE  LET n == OpenMissing(m, f, name, parent, mode)
           IN  Follows(m, n) /\ (mode \in ReadModes => n.dirty = m.dirty)
<1>1. /\ Follows(m, Failed(m, "ENOENT")) /\ Failed(m, "ENOENT").dirty = m.dirty
  BY FailedUntouched, UntouchedFollows DEF AnyStatus, Untouched, Sane
<1>2. CASE mode = "SupersedeWriteOnly"
  <2>1. name \in AnyName /\ mode \notin ReadModes
    BY <1>2 DEF ReadModes, NamedFor
  <2> DEFINE n == [m EXCEPT !.file[f].dirent = Dirent(name, FALSE, Available)]
  <2>2. Follows(m, FatCreateDirent(n, f, parent))
    BY <2>1, NewEntry
  <2>3. OpenMissing(m, f, name, parent, mode) = Opened(FatCreateDirent(n, f, parent), f)
    BY <1>2 DEF OpenMissing
  <2> HIDE DEF n
  <2> QED BY <2>1, <2>2, <2>3, OpenedFollows
<1>3. CASE mode = "CreateDirectory"
  <2>1. name \in AnyName /\ mode \notin ReadModes
    BY <1>3 DEF ReadModes, NamedFor
  <2>2. OpenMissing(m, f, name, parent, mode) = CreateDirectory(m, f, name, parent)
    BY <1>3 DEF OpenMissing
  <2> QED BY <2>1, <2>2, DirectoryFollows
<1>4. CASE mode \notin {"SupersedeWriteOnly", "CreateDirectory"}
  <2>1. OpenMissing(m, f, name, parent, mode) = Failed(m, "ENOENT")
    BY <1>4 DEF OpenMissing
  <2> QED BY <1>1, <2>1
<1> QED BY <1>2, <1>3, <1>4

LEMMA OpenAtFollows ==
    ASSUME NEW m, Sane(m), NEW f \in FileIds, NEW name, NEW walk \in Walks, NEW mode,
           NamedFor(mode, name)
    PROVE  LET n == OpenAt(m, f, name, mode, walk)
           IN  Follows(m, n) /\ (mode \in ReadModes => n.dirty = m.dirty)
<1> DEFINE e == [NoFile EXCEPT !.dirent = walk.dirent, !.where = walk.where]
           held == [m EXCEPT !.file[f] = e]
<1>1. e \in AnyFile
  BY NoFileType DEF AnyFile, Walks
<1>2. OpenAt(m, f, name, mode, walk) =
         IF walk.left THEN Failed(m, "ENOTDIR")
         ELSE IF walk.found THEN OpenFound(held, f, walk.dirent, mode)
         ELSE OpenMissing(held, f, name, walk.dir, mode)
  BY DEF OpenAt
<1> HIDE DEF e
<1>3. Untouched(m, held)
  BY <1>1, EntryUntouched DEF Sane
<1> HIDE DEF held
<1>4. Follows(m, held) /\ Sane(held) /\ held.dirty = m.dirty
  BY <1>3, UntouchedFollows, FollowsSane DEF Untouched
<1>5. /\ Follows(m, Failed(m, "ENOTDIR")) /\ Failed(m, "ENOTDIR").dirty = m.dirty
  BY FailedUntouched, UntouchedFollows DEF AnyStatus, Untouched, Sane
<1> DEFINE found == OpenFound(held, f, walk.dirent, mode)
           missing == OpenMissing(held, f, name, walk.dir, mode)
<1>6. Follows(m, found) /\ (mode \in ReadModes => found.dirty = m.dirty)
  BY <1>4, FoundFollows, FollowsTransitive
<1>7. Follows(m, missing) /\ (mode \in ReadModes => missing.dirty = m.dirty)
  <2>1. walk.dir \in Firsts
    BY DEF Walks
  <2>2. Follows(held, missing) /\ (mode \in ReadModes => missing.dirty = held.dirty)
    BY <1>4, <2>1, MissingFollows
  <2> HIDE DEF missing
  <2> QED BY <1>4, <2>2, FollowsTransitive
<1> HIDE DEF found, missing
<1> QED BY <1>2, <1>5, <1>6, <1>7 DEF found, missing

LEMMA OpenFollows ==
    ASSUME NEW m, Sane(m), NEW f \in FileIds, NEW path \in Seq(AnyName), NEW mode,
           NamedPath(mode, path)
    PROVE  LET n == FatOpen(m, f, path, mode)
           IN  Follows(m, n) /\ (mode \in ReadModes => ~n.dirty)
<1> DEFINE r == Recognized(m)
           walk == Walk(r, path)
           name == Last(path)
           o == OpenAt(r, f, name, mode, walk)
           none == [o EXCEPT !.file[f] = NoFile]
<1>1. Follows(m, r) /\ Sane(r) /\ ~r.dirty /\ r \in AnyVolume
  BY RecognizedFollows, FollowsSane
<1> HIDE DEF r
<1>2. walk \in Walks
  BY <1>1, WalkType
<1>3. NamedFor(mode, name)
  <2>1. CASE path # <<>>
    <3>1. Len(path) \in 1 .. Len(path)
      BY <2>1, LenProperties, EmptySeq
    <3> QED BY <3>1, ElementOfSeq DEF Last, NamedFor
  <2> QED BY <2>1 DEF NamedFor, NamedPath
<1> HIDE DEF walk, name
<1>4. Follows(r, o) /\ (mode \in ReadModes => o.dirty = r.dirty)
  BY <1>1, <1>2, <1>3, OpenAtFollows
<1>5. FatOpen(m, f, path, mode) = IF Ok(o) THEN o ELSE none
  BY DEF FatOpen, Answered, r, walk, name
<1> HIDE DEF o
<1>6. Sane(o) /\ o \in AnyVolume /\ Follows(m, o)
  BY <1>1, <1>4, FollowsSane, FollowsTransitive
<1>7. Untouched(o, none)
  BY <1>6, NoFileType, EntryUntouched
<1> HIDE DEF none
<1>8. Follows(m, none) /\ none.dirty = o.dirty
  BY <1>6, <1>7, UntouchedFollows, FollowsTransitive DEF Untouched
<1> QED BY <1>1, <1>4, <1>5, <1>6, <1>8

-----------------------------------------------------------------------------
(* Reading, writing and the rest of the calls.                             *)

LEMMA UntouchedReflexive ==
    ASSUME NEW m \in AnyVolume
    PROVE  Untouched(m, m)
BY DEF Untouched

LEMMA GotUntouched ==
    ASSUME NEW m \in AnyVolume, NEW got \in Seq(AnyUnit)
    PROVE  Untouched(m, [m EXCEPT !.got = got])
<1>1. [m EXCEPT !.got = got] \in AnyVolume
  BY GotType
<1> QED BY <1>1 DEF Untouched, AnyVolume

LEMMA TakeUntouched ==
    ASSUME NEW m \in AnyVolume, NEW f \in FileIds
    PROVE  Untouched(m, TakeNext(m, f))
<1> DEFINE v == m.file[f].position
           n == Loaded(m, f, v)
           w == n.file[f].position
           got == Append(n.got, UnitAt(n, Lbo(n, w)))
           o == [n EXCEPT !.got = got]
           p == [o EXCEPT !.file[f].position = w + 1]
<1>1. v \in Nat
  BY EntryFields
<1>2. Untouched(m, n) /\ n \in AnyVolume
  BY <1>1, LoadedUntouched DEF Untouched
<1>3. TakeNext(m, f) = Take(n, f)
  BY DEF TakeNext
<1> HIDE DEF n
<1>4. w \in Nat
  BY <1>2, EntryFields
<1>5. CASE ~Maps(n, w) \/ w >= n.file[f].dirent.size
  BY <1>2, <1>3, <1>5 DEF Take
<1>6. CASE ~(~Maps(n, w) \/ w >= n.file[f].dirent.size)
  <2>1. Lbo(n, w) \in Places
    BY <1>2, <1>4, <1>6, LboType
  <2>2. UnitAt(n, Lbo(n, w)) \in AnyUnit
    BY <1>2, <2>1, PlacedUnitType
  <2>3. got \in Seq(AnyUnit)
    BY <1>2, <2>2, FieldTypes, AppendProperties
  <2>4. Take(n, f) = p
    <3>1. Take(n, f) = [n EXCEPT !.got = got, !.file[f].position = w + 1]
      BY <1>6 DEF Take
    <3>2. o.file = n.file
      BY <1>2 DEF AnyVolume
    <3> HIDE DEF got
    <3>3. [n EXCEPT !.got = got, !.file[f].position = w + 1] = p
      BY <1>2, <3>2 DEF AnyVolume
    <3> QED BY <3>1, <3>3
  <2> HIDE DEF got
  <2>5. Untouched(n, o) /\ o \in AnyVolume
    BY <1>2, <2>3, GotUntouched DEF Untouched
  <2> HIDE DEF o
  <2>6. Untouched(o, p)
    <3>1. w + 1 \in Nat
      BY <1>4
    <3> QED BY <2>5, <3>1, PositionSet
  <2> HIDE DEF p
  <2> QED BY <1>2, <1>3, <2>4, <2>5, <2>6, UntouchedTransitive
<1> QED BY <1>5, <1>6

\* The volumes with the same disk and table.
Same(m) == {n \in AnyVolume : Untouched(m, n)}

Takes(m, f, n, g) ==
    g = [k \in 0 .. n |-> IF k = 0 THEN [m EXCEPT !.got = <<>>] ELSE TakeNext(g[k - 1], f)]

TakeTurns(m, f, n, h) ==
    /\ h[0] = [m EXCEPT !.got = <<>>]
    /\ \A k \in 1 .. n : h[k] = TakeNext(h[k - 1], f)

LEMMA ReadTurns ==
    ASSUME NEW m \in AnyVolume, NEW f \in FileIds, NEW n \in Nat
    PROVE  \E h : TakeTurns(m, f, n, h) /\ FatRead(m, f, n) = h[n] /\ h[n] \in Same(m)
<1> DEFINE A == Same(m)
           a == [m EXCEPT !.got = <<>>]
           move == [k \in 1 .. n |-> [x \in A |-> TakeNext(x, f)]]
<1>1. a \in A
  <2>1. <<>> \in Seq(AnyUnit)
    BY EmptySeq
  <2> QED BY <2>1, GotUntouched DEF Same, Untouched
<1>2. move \in [1 .. n -> [A -> A]]
  <2>1. \A x \in A : TakeNext(x, f) \in A
    BY TakeUntouched, UntouchedTransitive DEF Same, Untouched
  <2> HIDE DEF A
  <2> QED BY <2>1
<1>3. \A k \in 1 .. n, x \in A : move[k][x] = TakeNext(x, f)
  OBVIOUS
<1> HIDE DEF move, A, a
<1>4. PICK g \in [0 .. n -> A] : Iterates(a, n, move, g)
  BY <1>1, <1>2, IterationExists
<1>5. Takes(m, f, n, g)
  <2>1. g[0] = a /\ \A k \in 1 .. n : g[k] = move[k][g[k - 1]]
    BY <1>4 DEF Iterates
  <2>2. \A k \in 1 .. n : move[k][g[k - 1]] = TakeNext(g[k - 1], f)
    BY <1>3, <1>4
  <2>3. g = [k \in 0 .. n |-> IF k = 0 THEN a ELSE TakeNext(g[k - 1], f)]
    <3>1. \A k \in 0 .. n : k = 0 \/ k \in 1 .. n
      OBVIOUS
    <3> QED BY <1>4, <2>1, <2>2, <3>1
  <2> QED BY <2>3 DEF Takes, a
<1> DEFINE h == CHOOSE g_ : Takes(m, f, n, g_)
<1>6. Takes(m, f, n, h)
  BY <1>5
<1>7. FatRead(m, f, n) = h[n]
  BY DEF FatRead, Takes
<1> HIDE DEF h
<1>8. Runs(A, a, n, move, h)
  <2>1. h = [k \in 0 .. n |-> IF k = 0 THEN a ELSE TakeNext(h[k - 1], f)]
    BY <1>6 DEF Takes, a
  <2> QED BY <1>3, <2>1 DEF Runs
<1>9. h[n] \in A
  BY <1>1, <1>2, <1>8, RunStays
<1>10. TakeTurns(m, f, n, h)
  <2>1. h = [k \in 0 .. n |-> IF k = 0 THEN a ELSE TakeNext(h[k - 1], f)]
    BY <1>6 DEF Takes, a
  <2>2. h[0] = a /\ \A k \in 1 .. n : h[k] = TakeNext(h[k - 1], f)
    BY <2>1
  <2> QED BY <2>2 DEF TakeTurns, a
<1> QED BY <1>7, <1>9, <1>10 DEF A

LEMMA ReadUntouched ==
    ASSUME NEW m \in AnyVolume, NEW f \in FileIds, NEW n \in Nat
    PROVE  Untouched(m, FatRead(m, f, n))
BY ReadTurns DEF Same

LEMMA SizedFollows ==
    ASSUME NEW m, Sane(m), NEW f \in FileIds, NEW beyond \in Nat
    PROVE  Follows(m, Sized(m, f, beyond))
<1> DEFINE n == FatIncreaseFileAllocation(m, f, beyond)
           unit == [n.file[f].dirent EXCEPT !.size = beyond]
           o == [n EXCEPT !.file[f].dirent = unit]
<1>1. Follows(m, n) /\ Sane(n) /\ n \in AnyVolume
  BY GrownFollows, FollowsSane
<1> HIDE DEF n
<1>2. unit \in AnyUnit
  BY <1>1, EntryFields DEF AnyUnit
<1>3. [n EXCEPT !.file[f].dirent.size = beyond] = o
  BY <1>1, FieldTypes DEF AnyVolume, AnyFile
<1>4. Sized(m, f, beyond) =
         IF beyond <= m.file[f].dirent.size THEN m
         ELSE IF Ok(n) THEN WriteDirent(o, f) ELSE n
  BY <1>3 DEF Sized, Extended, n
<1> HIDE DEF unit
<1>5. Untouched(n, o)
  BY <1>1, <1>2, DirentSet
<1> HIDE DEF o
<1>6. Follows(n, o) /\ Sane(o)
  BY <1>1, <1>5, UntouchedFollows, FollowsSane
<1>7. Follows(m, WriteDirent(o, f))
  BY <1>1, <1>6, WriteDirentDisk, FollowsTransitive
<1> QED BY <1>1, <1>4, <1>7, FollowsReflexive

LEMMA PutNextFollows ==
    ASSUME NEW m, Sane(m), NEW f \in FileIds, NEW unit \in AnyUnit
    PROVE  Follows(m, PutNext(m, f, unit))
<1> DEFINE n == PutAt(m, f, m.file[f].position, unit)
           w == n.file[f].position + 1
           o == [n EXCEPT !.file[f].position = w]
<1>1. Follows(m, n) /\ Sane(n) /\ n \in AnyVolume
  <2>1. m.file[f].position \in Nat
    BY EntryFields DEF Sane
  <2> QED BY <2>1, PutFollows, FollowsSane
<1> HIDE DEF n
<1>2. w \in Nat
  BY <1>1, EntryFields
<1>3. [n EXCEPT !.file[f].position = @ + 1] = o
  BY <1>1, FieldTypes DEF AnyVolume, AnyFile
<1>4. PutNext(m, f, unit) = IF Ok(n) THEN o ELSE n
  BY <1>3 DEF PutNext, Advanced, n
<1> HIDE DEF w
<1>5. Untouched(n, o)
  BY <1>1, <1>2, PositionSet
<1> HIDE DEF o
<1>6. Follows(m, o)
  BY <1>1, <1>5, UntouchedFollows, FollowsTransitive
<1> QED BY <1>1, <1>4, <1>6

Puts(a, f, units, n, g) ==
    g = [k \in 0 .. n |-> IF k = 0 THEN a ELSE PutNext(g[k - 1], f, units[k])]

PutTurns(m, f, units, h) ==
    /\ h[0] = Sized(m, f, m.file[f].position + Len(units))
    /\ \A k \in 1 .. Len(units) : h[k] = PutNext(h[k - 1], f, units[k])

LEMMA WriteTurns ==
    ASSUME NEW m, Sane(m), NEW f \in FileIds, NEW units \in Seq(AnyUnit)
    PROVE  \E h : /\ PutTurns(m, f, units, h)
                  /\ FatWrite(m, f, units) = Flush(h[Len(units)])
                  /\ Follows(m, h[Len(units)])
<1> DEFINE n == Len(units)
           a == Sized(m, f, m.file[f].position + Len(units))
           A == Made(a)
           move == [k \in 1 .. n |-> [x \in A |-> PutNext(x, f, units[k])]]
<1>1. n \in Nat
  BY LenProperties
<1>2. Follows(m, a) /\ Sane(a) /\ a \in A
  <2>1. m.file[f].position + Len(units) \in Nat
    BY <1>1, EntryFields DEF Sane
  <2> HIDE DEF A
  <2>2. Follows(m, a) /\ Sane(a)
    BY <2>1, SizedFollows, FollowsSane
  <2> HIDE DEF a
  <2> QED BY <2>2, FollowsReflexive, FollowsSane DEF Made, A
<1>3. \A k \in 1 .. n : units[k] \in AnyUnit
  BY <1>1, ElementOfSeq
<1>4. move \in [1 .. n -> [A -> A]]
  <2>1. ASSUME NEW k \in 1 .. n, NEW x \in A PROVE PutNext(x, f, units[k]) \in A
    <3>1. Sane(x) /\ Follows(a, x)
      BY FollowsSane DEF Made
    <3> HIDE DEF a, n
    <3>2. Follows(x, PutNext(x, f, units[k]))
      BY <1>3, <3>1, PutNextFollows
    <3>3. Follows(a, PutNext(x, f, units[k]))
      BY <3>1, <3>2, FollowsTransitive
    <3> QED BY <3>3, FollowsSane DEF Made
  <2> HIDE DEF A, n
  <2> QED BY <2>1
<1>5. \A k \in 1 .. n, x \in A : move[k][x] = PutNext(x, f, units[k])
  OBVIOUS
<1> HIDE DEF n, move, A, a
<1>6. PICK g \in [0 .. n -> A] : Iterates(a, n, move, g)
  BY <1>1, <1>2, <1>4, IterationExists
<1>7. Puts(a, f, units, n, g)
  <2>1. g[0] = a /\ \A k \in 1 .. n : g[k] = move[k][g[k - 1]]
    BY <1>6 DEF Iterates
  <2>2. \A k \in 1 .. n : move[k][g[k - 1]] = PutNext(g[k - 1], f, units[k])
    BY <1>1, <1>5, <1>6
  <2>3. \A k \in 0 .. n : k = 0 \/ k \in 1 .. n
    BY <1>1
  <2> QED BY <1>6, <2>1, <2>2, <2>3 DEF Puts
<1> DEFINE h == CHOOSE g_ : Puts(a, f, units, n, g_)
<1>8. Puts(a, f, units, n, h)
  BY <1>7
<1>9. FatWrite(m, f, units) = Flush(h[n])
  BY DEF FatWrite, Puts, n, a
<1> HIDE DEF h
<1>10. Runs(A, a, n, move, h)
  BY <1>1, <1>5, <1>8 DEF Runs, Puts
<1>11. h[n] \in A
  BY <1>1, <1>2, <1>4, <1>10, RunStays
<1>12. Follows(m, h[n]) /\ Sane(h[n])
  BY <1>2, <1>11, FollowsTransitive, FollowsSane DEF A, Made
<1>13. PutTurns(m, f, units, h)
  <2>1. h = [k \in 0 .. n |-> IF k = 0 THEN a ELSE PutNext(h[k - 1], f, units[k])]
    BY <1>8 DEF Puts
  <2>2. h[0] = a /\ \A k \in 1 .. n : h[k] = PutNext(h[k - 1], f, units[k])
    BY <1>1, <2>1
  <2> QED BY <2>2 DEF PutTurns, n, a
<1> QED BY <1>9, <1>12, <1>13 DEF n

LEMMA WriteFollows ==
    ASSUME NEW m, Sane(m), NEW f \in FileIds, NEW units \in Seq(AnyUnit)
    PROVE  Follows(m, FatWrite(m, f, units))
<1>1. PICK h : /\ FatWrite(m, f, units) = Flush(h[Len(units)])
               /\ Follows(m, h[Len(units)])
  BY WriteTurns
<1>2. Follows(h[Len(units)], Flush(h[Len(units)]))
  BY <1>1, FollowsSane, FlushSaves
<1> QED BY <1>1, <1>2, FollowsTransitive

\* Nothing is left to be saved by a call that fails, unless the device refused.
LEMMA DeleteFollows ==
    ASSUME NEW m, Sane(m), NEW f \in FileIds
    PROVE  LET n == DeleteFile(m, f)
           IN  Follows(m, n) /\ (Ok(m) /\ ~m.dirty /\ ~Ok(n) => n.refused \/ ~n.dirty)
<1>1. CASE m.file[f].where = Nowhere \/ m.file[f].dirent.readOnly
  <2>1. DeleteFile(m, f) = Failed(m, "EACCES")
    BY <1>1 DEF DeleteFile
  <2>2. Untouched(m, Failed(m, "EACCES"))
    BY FailedUntouched DEF Sane, AnyStatus
  <2> QED BY <2>1, <2>2, UntouchedFollows DEF Untouched
<1>2. CASE ~(m.file[f].where = Nowhere \/ m.file[f].dirent.readOnly)
  <2> DEFINE unit == [m.file[f].dirent EXCEPT !.name = Deleted]
             n == [m EXCEPT !.file[f].dirent = unit]
             o == WriteDirent(n, f)
             p == FatTruncateFileAllocation(o, f)
  <2>1. m \in AnyVolume
    BY DEF Sane
  <2>2. unit \in AnyUnit
    BY <2>1, EntryFields DEF AnyUnit, AnyName
  <2>3. DeleteFile(m, f) = IF Ok(o) THEN p ELSE o
    <3>1. [m EXCEPT !.file[f].dirent.name = Deleted] = n
      BY <2>1, FieldTypes DEF AnyVolume, AnyFile
    <3> QED BY <1>2, <3>1 DEF DeleteFile, Emptied
  <2> HIDE DEF unit
  <2>4. Untouched(m, n) /\ n.status = m.status
    BY <2>1, <2>2, DirentSet
  <2> HIDE DEF n
  <2>5. Follows(m, n) /\ Sane(n)
    BY <2>4, UntouchedFollows, FollowsSane
  <2>6. Follows(n, o) /\ Sane(o) /\ (Ok(n) /\ ~Ok(o) => o.refused)
    BY <2>5, WriteDirentDisk, FollowsSane
  <2> HIDE DEF o
  <2>7. Follows(o, p) /\ (Ok(o) /\ ~Ok(p) => p.refused)
    BY <2>6, TruncateFollows
  <2> HIDE DEF p
  <2>8. Follows(m, o) /\ Follows(m, p)
    BY <2>5, <2>6, <2>7, FollowsTransitive
  <2>9. Ok(m) /\ ~Ok(IF Ok(o) THEN p ELSE o) => (IF Ok(o) THEN p ELSE o).refused
    BY <2>4, <2>6, <2>7 DEF Ok
  <2> QED BY <2>3, <2>8, <2>9
<1> QED BY <1>1, <1>2

LEMMA ReadOnlyFollows ==
    ASSUME NEW m, Sane(m), NEW f \in FileIds, NEW on \in BOOLEAN
    PROVE  LET n == SetReadOnly(m, f, on) IN Follows(m, n) /\ n.dirty = m.dirty
<1>1. CASE m.file[f].where = Nowhere
  <2>1. SetReadOnly(m, f, on) = Failed(m, "EACCES")
    BY <1>1 DEF SetReadOnly
  <2>2. Untouched(m, Failed(m, "EACCES"))
    BY FailedUntouched DEF Sane, AnyStatus
  <2> QED BY <2>1, <2>2, UntouchedFollows DEF Untouched
<1>2. CASE m.file[f].where # Nowhere
  <2> DEFINE unit == [m.file[f].dirent EXCEPT !.readOnly = on]
             n == [m EXCEPT !.file[f].dirent = unit]
  <2>1. m \in AnyVolume
    BY DEF Sane
  <2>2. unit \in AnyUnit
    BY <2>1, EntryFields DEF AnyUnit
  <2>3. SetReadOnly(m, f, on) = WriteDirent(n, f)
    <3>1. [m EXCEPT !.file[f].dirent.readOnly = on] = n
      BY <2>1, FieldTypes DEF AnyVolume, AnyFile
    <3> QED BY <1>2, <3>1 DEF SetReadOnly
  <2> HIDE DEF unit
  <2>4. Untouched(m, n)
    BY <2>1, <2>2, DirentSet
  <2> HIDE DEF n
  <2>5. Follows(m, n) /\ Sane(n) /\ n.dirty = m.dirty
    BY <2>4, UntouchedFollows, FollowsSane DEF Untouched
  <2>6. Follows(n, WriteDirent(n, f)) /\ WriteDirent(n, f).dirty = n.dirty
    BY <2>5, WriteDirentDisk
  <2> QED BY <2>3, <2>5, <2>6, FollowsTransitive
<1> QED BY <1>1, <1>2

\* A scan that found an entry has it in the buffer.
Scans(m) == {n \in Same(m) : Ok(n) => n.got # <<>>}

LEMMA LookOnScans ==
    ASSUME NEW m \in AnyVolume, NEW n \in Scans(m), NEW f \in FileIds
    PROVE  LookOn(n, f) \in Scans(m)
<1> DEFINE v == n.file[f].position
           o == Loaded(n, f, v)
           w == o.file[f].position
           unit == UnitAt(o, Lbo(o, w))
<1>1. n \in AnyVolume /\ Untouched(m, n)
  BY DEF Scans, Same
<1>2. CASE n.status # "scan"
  BY <1>2 DEF LookOn
<1>3. CASE n.status = "scan"
  <2>1. v \in Nat
    BY <1>1, EntryFields
  <2>2. Untouched(n, o) /\ o.status = n.status
    BY <1>1, <2>1, LoadedUntouched
  <2>3. LookOn(n, f) = LookAt(o, f)
    BY <1>3 DEF LookOn
  <2> HIDE DEF o
  <2>4. Untouched(m, o) /\ o \in AnyVolume
    BY <1>1, <2>2, UntouchedTransitive DEF Untouched
  <2>5. w \in Nat
    BY <2>4, EntryFields
  <2>6. Failed(o, "ENOTDIR") \in Scans(m)
    <3>1. Untouched(o, Failed(o, "ENOTDIR")) /\ Failed(o, "ENOTDIR").status = "ENOTDIR"
      BY <2>4, FailedUntouched DEF AnyStatus
    <3>2. Untouched(m, Failed(o, "ENOTDIR"))
      BY <2>4, <3>1, UntouchedTransitive
    <3> QED BY <3>1, <3>2 DEF Scans, Same, Untouched, Ok
  <2>7. CASE ~Maps(o, w)
    BY <2>3, <2>6, <2>7 DEF LookAt
  <2>8. CASE Maps(o, w)
    <3>1. unit \in AnyUnit
      BY <2>4, <2>5, <2>8, LboType, PlacedUnitType
    <3>2. LookAt(o, f) = Listed(o, f, unit)
      BY <2>8 DEF LookAt
    <3> HIDE DEF unit
    <3> DEFINE p == [o EXCEPT !.file[f].position = w + 1]
               q == [p EXCEPT !.got = <<unit>>]
               r == [q EXCEPT !.status = "ESUCCESS"]
    <3>3. Listed(o, f, unit) = IF unit.name = Blank.name THEN Failed(o, "ENOTDIR")
                               ELSE IF unit.name = Deleted THEN p ELSE r
      <4>1. [o EXCEPT !.file[f].position = @ + 1] = p
        BY <2>4, FieldTypes DEF AnyVolume, AnyFile
      <4>2. [o EXCEPT !.file[f].position = @ + 1, !.got = <<unit>>, !.status = "ESUCCESS"]
               = r
        BY <2>4, <4>1, FieldTypes DEF AnyVolume, AnyFile
      <4> QED BY <4>1, <4>2 DEF Listed
    <3>4. Untouched(o, p) /\ p.status = "scan"
      <4>1. w + 1 \in Nat
        BY <2>5
      <4> QED BY <1>3, <2>2, <2>4, <4>1, PositionSet
    <3> HIDE DEF p
    <3>5. Untouched(m, p) /\ p \in AnyVolume
      BY <2>4, <3>4, UntouchedTransitive DEF Untouched
    <3>6. p \in Scans(m)
      BY <3>4, <3>5 DEF Scans, Same, Ok
    <3>7. Untouched(p, q) /\ q \in AnyVolume /\ q.got = <<unit>>
      <4>1. <<unit>> \in Seq(AnyUnit)
        BY <3>1
      <4>2. Untouched(p, q)
        BY <3>5, <4>1, GotUntouched
      <4>3. q.got = <<unit>>
        BY <3>5 DEF AnyVolume
      <4> QED BY <4>2, <4>3 DEF Untouched
    <3> HIDE DEF q
    <3>8. Untouched(q, r) /\ r.got = <<unit>> /\ r \in AnyVolume
      <4>1. r = Failed(q, "ESUCCESS")
        BY DEF Failed
      <4>2. Untouched(q, Failed(q, "ESUCCESS"))
        BY <3>7, FailedUntouched DEF AnyStatus
      <4>3. r.got = q.got
        BY <3>7 DEF AnyVolume
      <4> HIDE DEF r
      <4> QED BY <3>7, <4>1, <4>2, <4>3 DEF Untouched
    <3> HIDE DEF r
    <3>9. Untouched(m, r)
      BY <3>5, <3>7, <3>8, UntouchedTransitive
    <3>10. r \in Scans(m)
      <4>1. <<unit>> # <<>>
        OBVIOUS
      <4> QED BY <3>8, <3>9, <4>1 DEF Scans, Same
    <3> QED BY <2>3, <2>6, <3>2, <3>3, <3>6, <3>10
  <2> QED BY <2>7, <2>8
<1> QED BY <1>2, <1>3

Lists(m, f, n, g) ==
    g = [k \in 0 .. n |->
            IF k = 0 THEN [m EXCEPT !.got = <<>>, !.status = "scan"]
            ELSE LookOn(g[k - 1], f)]

ScanTurns == RootSlots + Units * TotalClustersInVolume

ListTurns(m, f, h) ==
    /\ h[0] = [m EXCEPT !.got = <<>>, !.status = "scan"]
    /\ \A k \in 1 .. ScanTurns : h[k] = LookOn(h[k - 1], f)

LEMMA EntryTurns ==
    ASSUME NEW m \in AnyVolume, NEW f \in FileIds
    PROVE  \E h : /\ ListTurns(m, f, h) /\ h[ScanTurns] \in Scans(m)
                  /\ FatGetDirectoryEntry(m, f) =
                        IF ~m.file[f].dirent.dir THEN Failed(m, "EBADF") ELSE h[ScanTurns]
<1> DEFINE n == ScanTurns
           A == Scans(m)
           a == [m EXCEPT !.got = <<>>, !.status = "scan"]
           move == [k \in 1 .. n |-> [x \in A |-> LookOn(x, f)]]
<1>1. n \in Nat
  BY Sizes, VolumeAssumption DEF ScanTurns
<1>2. a \in A
  <2> DEFINE b == [m EXCEPT !.got = <<>>]
  <2>1. Untouched(m, b) /\ b \in AnyVolume
    BY GotUntouched, EmptySeq DEF Untouched
  <2>2. a = Failed(b, "scan")
    BY DEF Failed, AnyVolume
  <2> HIDE DEF b, a
  <2>3. Untouched(b, a) /\ a.status = "scan"
    BY <2>1, <2>2, FailedUntouched DEF AnyStatus
  <2>4. Untouched(m, a)
    BY <2>1, <2>3, UntouchedTransitive
  <2> QED BY <2>3, <2>4 DEF Scans, Same, Untouched, Ok
<1>3. move \in [1 .. n -> [A -> A]]
  <2>1. \A x \in A : LookOn(x, f) \in A
    BY LookOnScans
  <2> HIDE DEF A, n
  <2> QED BY <2>1
<1>4. \A k \in 1 .. n, x \in A : move[k][x] = LookOn(x, f)
  OBVIOUS
<1> HIDE DEF n, move, A, a
<1>5. PICK g \in [0 .. n -> A] : Iterates(a, n, move, g)
  BY <1>1, <1>2, <1>3, IterationExists
<1>6. Lists(m, f, n, g)
  <2>1. g[0] = a /\ \A k \in 1 .. n : g[k] = move[k][g[k - 1]]
    BY <1>5 DEF Iterates
  <2>2. \A k \in 1 .. n : move[k][g[k - 1]] = LookOn(g[k - 1], f)
    BY <1>1, <1>4, <1>5
  <2>3. g = [k \in 0 .. n |-> IF k = 0 THEN a ELSE LookOn(g[k - 1], f)]
    <3>1. \A k \in 0 .. n : k = 0 \/ k \in 1 .. n
      BY <1>1
    <3> QED BY <1>5, <2>1, <2>2, <3>1
  <2> QED BY <2>3 DEF Lists, a
<1> DEFINE h == CHOOSE g_ : Lists(m, f, n, g_)
<1>7. Lists(m, f, n, h)
  BY <1>6
<1>8. FatGetDirectoryEntry(m, f) =
         IF ~m.file[f].dirent.dir THEN Failed(m, "EBADF") ELSE h[n]
  BY DEF FatGetDirectoryEntry, Lists, n, ScanTurns
<1> HIDE DEF h
<1>9. Runs(A, a, n, move, h)
  <2>1. h = [k \in 0 .. n |-> IF k = 0 THEN a ELSE LookOn(h[k - 1], f)]
    BY <1>7 DEF Lists, a
  <2> QED BY <1>1, <1>4, <2>1 DEF Runs
<1>10. h[n] \in A
  BY <1>1, <1>2, <1>3, <1>9, RunStays
<1>11. ListTurns(m, f, h)
  <2>1. h = [k \in 0 .. n |-> IF k = 0 THEN a ELSE LookOn(h[k - 1], f)]
    BY <1>7 DEF Lists, a
  <2>2. h[0] = a /\ \A k \in 1 .. n : h[k] = LookOn(h[k - 1], f)
    BY <1>1, <2>1
  <2> QED BY <2>2 DEF ListTurns, a, n
<1> QED BY <1>8, <1>10, <1>11 DEF A, n

LEMMA EntryUntouchedBy ==
    ASSUME NEW m \in AnyVolume, NEW f \in FileIds
    PROVE  LET o == FatGetDirectoryEntry(m, f)
           IN  /\ Untouched(m, o)
               /\ Ok(o) => o.got # <<>>
<1>1. Untouched(m, Failed(m, "EBADF")) /\ ~Ok(Failed(m, "EBADF"))
  BY FailedUntouched DEF AnyStatus, Ok
<1>2. PICK h : /\ h[ScanTurns] \in Scans(m)
               /\ FatGetDirectoryEntry(m, f) =
                     IF ~m.file[f].dirent.dir THEN Failed(m, "EBADF") ELSE h[ScanTurns]
  BY EntryTurns
<1> QED BY <1>1, <1>2 DEF Scans, Same

-----------------------------------------------------------------------------
(* What a chain is.                                                        *)

\* cs goes along the table from first on, and ends where the table ends.
Along(fat, first, cs) ==
    /\ cs \in Seq(Clusters)
    /\ Len(cs) >= 1 => cs[1] = first
    /\ \A i \in 1 .. Len(cs) - 1 : cs[i + 1] = fat[cs[i]]

Ended(fat, first, cs) ==
    IF Len(cs) = 0 THEN first \notin Clusters ELSE fat[cs[Len(cs)]] \notin Clusters

LEMMA FurtherAlong ==
    ASSUME NEW fat, NEW first, NEW cs, Along(fat, first, cs)
    PROVE  LET ds == Further(fat, first, cs)
           IN  /\ Along(fat, first, ds)
               /\ Ended(fat, first, cs) => ds = cs
               /\ ~Ended(fat, first, cs) => Len(ds) = Len(cs) + 1
<1> DEFINE c == IF cs = <<>> THEN first ELSE fat[Last(cs)]
           ds == Append(cs, c)
<1>1. cs \in Seq(Clusters) /\ Len(cs) \in Nat /\ (cs = <<>> <=> Len(cs) = 0)
  BY LenProperties, EmptySeq DEF Along
<1>2. Ended(fat, first, cs) <=> c \notin Clusters
  BY <1>1 DEF Ended, Last
<1>3. Further(fat, first, cs) = IF c \in Clusters THEN ds ELSE cs
  BY DEF Further
<1>4. ASSUME c \in Clusters PROVE Along(fat, first, ds) /\ Len(ds) = Len(cs) + 1
  <2>1. /\ ds \in Seq(Clusters) /\ Len(ds) = Len(cs) + 1
        /\ \A i \in 1 .. Len(cs) : ds[i] = cs[i]
        /\ ds[Len(cs) + 1] = c
    <3> HIDE DEF c
    <3> QED BY <1>1, <1>4, AppendProperties
  <2>2. /\ Len(cs) = 0 => c = first
        /\ Len(cs) # 0 => c = fat[cs[Len(cs)]]
    BY <1>1 DEF Last
  <2> HIDE DEF ds, c
  <2>3. ds[1] = first
    BY <1>1, <2>1, <2>2 DEF Along
  <2>4. ASSUME NEW i \in 1 .. Len(ds) - 1 PROVE ds[i + 1] = fat[ds[i]]
    <3>1. CASE i = Len(cs)
      <4>1. ds[i] = cs[i] /\ ds[i + 1] = c
        BY <1>1, <2>1, <3>1
      <4> QED BY <1>1, <2>2, <3>1, <4>1
    <3>2. CASE i # Len(cs)
      <4>1. i \in 1 .. Len(cs) - 1 /\ i + 1 \in 1 .. Len(cs) /\ i \in 1 .. Len(cs)
        BY <1>1, <2>1, <3>2
      <4> QED BY <2>1, <4>1 DEF Along
    <3> QED BY <3>1, <3>2
  <2> QED BY <2>1, <2>3, <2>4 DEF Along
<1> HIDE DEF c, ds
<1> QED BY <1>2, <1>3, <1>4

LEMMA ChainAlong ==
    ASSUME NEW fat, NEW first
    PROVE  LET cs == Chain(fat, first)
           IN  /\ Along(fat, first, cs)
               /\ Len(cs) \in Nat /\ Len(cs) <= TotalClustersInVolume
               /\ Len(cs) < TotalClustersInVolume => Ended(fat, first, cs)
<1> DEFINE n == TotalClustersInVolume
           Gone(k, cs) == /\ Along(fat, first, cs) /\ Len(cs) \in Nat /\ Len(cs) <= k
                          /\ Len(cs) < k => Ended(fat, first, cs)
<1>1. n \in Nat
  BY VolumeAssumption
<1>2. PICK g \in [0 .. n -> Seq(Clusters)] : /\ Turns(fat, first, n, g)
                                             /\ Chain(fat, first) = g[n]
  BY ChainTurns
<1>3. g[0] = <<>> /\ \A k \in 1 .. n : g[k] = Further(fat, first, g[k - 1])
  BY <1>2, <1>1 DEF Turns
<1> DEFINE Bad == {k \in 0 .. n : ~Gone(k, g[k])}
<1>4. Gone(0, g[0])
  BY <1>3 DEF Along
<1>5. ASSUME NEW k \in 1 .. n, Gone(k - 1, g[k - 1]) PROVE Gone(k, g[k])
  <2>1. LET ds == Further(fat, first, g[k - 1])
        IN  /\ Along(fat, first, ds)
            /\ Ended(fat, first, g[k - 1]) => ds = g[k - 1]
            /\ ~Ended(fat, first, g[k - 1]) => Len(ds) = Len(g[k - 1]) + 1
    BY <1>5, FurtherAlong
  <2>2. g[k] = Further(fat, first, g[k - 1])
    BY <1>3, <1>5
  <2> DEFINE cs == g[k - 1]
             ds == g[k]
  <2>3. /\ Along(fat, first, cs) /\ Len(cs) \in Nat /\ Len(cs) <= k - 1
        /\ Len(cs) < k - 1 => Ended(fat, first, cs)
    BY <1>5
  <2>4. /\ Along(fat, first, ds)
        /\ Ended(fat, first, cs) => ds = cs
        /\ ~Ended(fat, first, cs) => Len(ds) = Len(cs) + 1
    BY <2>1, <2>2
  <2>5. k \in Nat
    BY <1>1, <1>5
  <2> HIDE DEF cs, ds
  <2>6. CASE Ended(fat, first, cs)
    <3>1. ds = cs
      BY <2>4, <2>6
    <3>2. Len(ds) \in Nat /\ Len(ds) <= k
      BY <3>1, <2>3, <2>5
    <3>3. Gone(k, ds)
      BY <3>1, <3>2, <2>4, <2>6
    <3> QED BY <3>3 DEF ds
  <2>7. CASE ~Ended(fat, first, cs)
    <3>1. Len(ds) = Len(cs) + 1 /\ Len(cs) = k - 1
      BY <2>3, <2>4, <2>5, <2>7
    <3>2. Len(ds) = k
      BY <3>1, <2>5
    <3>3. Gone(k, ds)
      BY <3>2, <2>4, <2>5
    <3> QED BY <3>3 DEF ds
  <2> QED BY <2>6, <2>7
<1> HIDE DEF Gone
<1>6. Bad = {}
  <2> SUFFICES ASSUME Bad # {} PROVE FALSE
    OBVIOUS
  <2>1. PICK k \in Bad : \A j \in Bad : k <= j
    <3>1. Bad \in SUBSET Nat
      OBVIOUS
    <3> HIDE DEF Bad
    <3> QED BY <3>1, LeastExists
  <2>2. k # 0
    BY <1>4, <2>1
  <2>3. k \in 1 .. n /\ k - 1 \in 0 .. n /\ k - 1 \notin Bad
    BY <2>1, <2>2, <1>1
  <2> QED BY <1>5, <2>1, <2>3
<1>7. Gone(n, g[n])
  BY <1>1, <1>6
<1> QED BY <1>2, <1>7 DEF Gone

\* Nothing else goes along the table to its end.
LEMMA AlongAlike ==
    ASSUME NEW fat, NEW first, NEW cs, NEW ds, Along(fat, first, cs), Along(fat, first, ds),
           Len(cs) <= Len(ds)
    PROVE  \A i \in 1 .. Len(cs) : cs[i] = ds[i]
<1> DEFINE Bad == {i \in 1 .. Len(cs) : cs[i] # ds[i]}
<1> SUFFICES ASSUME Bad # {} PROVE FALSE
  OBVIOUS
<1>1. Len(cs) \in Nat /\ Len(ds) \in Nat
  BY LenProperties DEF Along
<1>2. PICK i \in Bad : \A j \in Bad : i <= j
  <2>1. Bad \in SUBSET Nat
    OBVIOUS
  <2> HIDE DEF Bad
  <2> QED BY <2>1, LeastExists
<1>3. i # 1
  BY <1>1, <1>2 DEF Along
<1>4. i - 1 \in 1 .. Len(cs) - 1 /\ i - 1 \in 1 .. Len(ds) - 1 /\ i - 1 \notin Bad
  BY <1>1, <1>2, <1>3
<1>5. cs[i - 1] = ds[i - 1] /\ cs[(i - 1) + 1] = fat[cs[i - 1]]
      /\ ds[(i - 1) + 1] = fat[ds[i - 1]] /\ (i - 1) + 1 = i
  BY <1>1, <1>4 DEF Along
<1> QED BY <1>2, <1>5

LEMMA ShorterEnds ==
    ASSUME NEW fat, NEW first, NEW cs, NEW ds, Along(fat, first, cs), Along(fat, first, ds),
           Ended(fat, first, cs)
    PROVE  Len(ds) <= Len(cs)
<1> SUFFICES ASSUME Len(cs) < Len(ds) PROVE FALSE
  BY LenProperties DEF Along
<1>1. Len(cs) \in Nat /\ Len(ds) \in Nat
  BY LenProperties DEF Along
<1>2. \A i \in 1 .. Len(cs) : cs[i] = ds[i]
  BY <1>1, AlongAlike
<1>3. \A i \in 1 .. Len(ds) : ds[i] \in Clusters
  BY <1>1, ElementOfSeq DEF Along
<1>4. CASE Len(cs) = 0
  BY <1>1, <1>3, <1>4 DEF Along, Ended
<1>5. CASE Len(cs) # 0
  <2>1. Len(cs) \in 1 .. Len(cs) /\ Len(cs) \in 1 .. Len(ds) - 1
        /\ Len(cs) + 1 \in 1 .. Len(ds)
    BY <1>1, <1>5
  <2>2. ds[Len(cs) + 1] = fat[cs[Len(cs)]]
    BY <1>2, <2>1 DEF Along
  <2> QED BY <1>3, <1>5, <2>1, <2>2 DEF Ended
<1> QED BY <1>4, <1>5

LEMMA OnlyChain ==
    ASSUME NEW fat, NEW first, NEW cs, Along(fat, first, cs),
           Len(cs) <= TotalClustersInVolume,
           Len(cs) < TotalClustersInVolume => Ended(fat, first, cs)
    PROVE  cs = Chain(fat, first)
<1> DEFINE ds == Chain(fat, first)
           n == TotalClustersInVolume
<1>1. /\ Along(fat, first, ds) /\ Len(ds) \in Nat /\ Len(ds) <= n
      /\ Len(ds) < n => Ended(fat, first, ds)
  BY ChainAlong
<1> HIDE DEF ds
<1>2. Len(cs) \in Nat /\ n \in Nat
  BY LenProperties, VolumeAssumption DEF Along
<1>3. Len(ds) <= Len(cs)
  BY <1>1, <1>2, ShorterEnds
<1>4. Len(cs) <= Len(ds)
  BY <1>1, <1>2, ShorterEnds
<1>5. Len(cs) = Len(ds)
  BY <1>1, <1>2, <1>3, <1>4
<1>6. \A i \in 1 .. Len(cs) : cs[i] = ds[i]
  BY <1>1, <1>5, AlongAlike, <1>2
<1>7. cs \in Seq(Clusters) /\ ds \in Seq(Clusters)
  BY <1>1 DEF Along
<1>8. cs = ds
  BY <1>5, <1>6, <1>7, SeqEqual
<1> QED BY <1>8 DEF ds

\* The clusters of a chain; a table in which no two clusters lead to one; a first
\* cluster to which none leads.
On(fat, h) == {Chain(fat, h)[i] : i \in 1 .. Len(Chain(fat, h))}

Injective(fat) == \A c, d \in Clusters : fat[c] \in Clusters /\ fat[c] = fat[d] => c = d

Orphan(fat, h) == \A c \in Clusters : fat[c] # h

Starts(fat, h) == h \in Clusters /\ Injective(fat) /\ Orphan(fat, h)

LEMMA ChainFacts ==
    ASSUME NEW fat, NEW h \in Clusters
    PROVE  LET cs == Chain(fat, h)
           IN  /\ cs \in Seq(Clusters) /\ Len(cs) \in Nat /\ Len(cs) >= 1 /\ cs[1] = h
               /\ \A i \in 1 .. Len(cs) - 1 : cs[i + 1] = fat[cs[i]]
               /\ \A i \in 1 .. Len(cs) : cs[i] \in Clusters
               /\ On(fat, h) \subseteq Clusters /\ h \in On(fat, h)
               /\ cs[Len(cs)] \in On(fat, h)
<1> DEFINE cs == Chain(fat, h)
<1>1. Along(fat, h, cs) /\ Len(cs) \in Nat
      /\ (Len(cs) < TotalClustersInVolume => Ended(fat, h, cs))
  BY ChainAlong
<1>2. cs \in Seq(Clusters) /\ \A i \in 1 .. Len(cs) - 1 : cs[i + 1] = fat[cs[i]]
  BY <1>1 DEF Along
<1>3. Len(cs) >= 1
  BY <1>1, VolumeAssumption DEF Ended
<1>4. cs[1] = h
  BY <1>1, <1>3 DEF Along
<1>5. \A i \in 1 .. Len(cs) : cs[i] \in Clusters
  BY <1>2, ElementOfSeq
<1>6. On(fat, h) \subseteq Clusters /\ h \in On(fat, h) /\ cs[Len(cs)] \in On(fat, h)
  <2>1. On(fat, h) = {cs[i] : i \in 1 .. Len(cs)}
    BY DEF On
  <2> HIDE DEF cs
  <2>2. 1 \in 1 .. Len(cs) /\ Len(cs) \in 1 .. Len(cs)
    BY <1>1, <1>3
  <2> QED BY <1>4, <1>5, <2>1, <2>2
<1> QED BY <1>1, <1>2, <1>3, <1>4, <1>5, <1>6

LEMMA OnNothing ==
    ASSUME NEW fat, NEW h, h \notin Clusters
    PROVE  Chain(fat, h) = <<>> /\ Len(Chain(fat, h)) = 0 /\ On(fat, h) = {}
<1>1. Along(fat, h, <<>>)
  BY EmptySeq DEF Along
<1>2. Ended(fat, h, <<>>)
  BY DEF Ended
<1>3. Len(<<>>) <= TotalClustersInVolume
  BY VolumeAssumption
<1>4. Chain(fat, h) = <<>>
  BY <1>1, <1>2, <1>3, OnlyChain
<1> QED BY <1>4 DEF On

\* The chain of a first cluster to which none leads has no cluster twice and ends.
LEMMA HeadDistinct ==
    ASSUME NEW fat, NEW h, Starts(fat, h)
    PROVE  LET cs == Chain(fat, h)
           IN  \A i, j \in 1 .. Len(cs) : cs[i] = cs[j] => i = j
<1> DEFINE cs == Chain(fat, h)
           Bad == {i \in 1 .. Len(cs) : \E j \in 1 .. Len(cs) : j > i /\ cs[i] = cs[j]}
<1>1. /\ Len(cs) \in Nat /\ cs[1] = h
      /\ \A i \in 1 .. Len(cs) - 1 : cs[i + 1] = fat[cs[i]]
      /\ \A i \in 1 .. Len(cs) : cs[i] \in Clusters
  BY ChainFacts DEF Starts
<1> HIDE DEF cs
<1>2. Bad = {}
  <2> SUFFICES ASSUME Bad # {} PROVE FALSE
    OBVIOUS
  <2>1. PICK i \in Bad : \A k \in Bad : i <= k
    <3>1. Bad \in SUBSET Nat
      OBVIOUS
    <3> HIDE DEF Bad
    <3> QED BY <3>1, LeastExists
  <2>2. PICK j \in 1 .. Len(cs) : j > i /\ cs[i] = cs[j]
    BY <2>1
  <2>3. j - 1 \in 1 .. Len(cs) - 1 /\ j - 1 \in 1 .. Len(cs) /\ cs[j] = fat[cs[j - 1]]
    <3>1. j - 1 \in 1 .. Len(cs) - 1 /\ (j - 1) + 1 = j
      BY <1>1, <2>1, <2>2
    <3> QED BY <1>1, <3>1
  <2>4. CASE i = 1
    BY <1>1, <2>2, <2>3, <2>4 DEF Starts, Orphan
  <2>5. CASE i # 1
    <3>1. i - 1 \in 1 .. Len(cs) - 1 /\ i - 1 \in 1 .. Len(cs) /\ (i - 1) + 1 = i
      BY <1>1, <2>1, <2>5
    <3>2. cs[i] = fat[cs[i - 1]] /\ cs[i] \in Clusters
      BY <1>1, <2>1, <3>1
    <3>3. cs[i - 1] = cs[j - 1]
      BY <1>1, <2>2, <2>3, <3>1, <3>2 DEF Starts, Injective
    <3>4. i - 1 \in Bad
      BY <2>2, <2>3, <3>1, <3>3
    <3> QED BY <2>1, <3>1, <3>4
  <2> QED BY <2>4, <2>5
<1>3. ASSUME NEW i \in 1 .. Len(cs), NEW j \in 1 .. Len(cs), cs[i] = cs[j] PROVE i = j
  <2>1. ~(j > i) /\ ~(i > j)
    BY <1>2, <1>3
  <2> QED BY <1>1, <2>1
<1> QED BY <1>3 DEF cs

LEMMA SequenceCard ==
    ASSUME NEW S, NEW cs \in Seq(S),
           \A i, j \in 1 .. Len(cs) : cs[i] = cs[j] => i = j
    PROVE  LET T == {cs[i] : i \in 1 .. Len(cs)}
           IN  IsFiniteSet(T) /\ Cardinality(T) = Len(cs)
<1> DEFINE T == {cs[i] : i \in 1 .. Len(cs)}
<1>1. Len(cs) \in Nat /\ cs \in [1 .. Len(cs) -> S]
  BY LenProperties
<1>2. cs \in [1 .. Len(cs) -> T]
  BY <1>1
<1>3. cs \in Bijection(1 .. Len(cs), T)
  BY <1>2 DEF Bijection, Injection, Surjection, IsInjective
<1>4. ExistsBijection(1 .. Len(cs), T)
  BY <1>3 DEF ExistsBijection
<1> HIDE DEF T
<1>5. IsFiniteSet(T)
  BY <1>1, <1>4, FS_NatBijection
<1>6. Cardinality(T) = Len(cs)
  BY <1>1, <1>4, FS_CountingElements
<1> QED BY <1>5, <1>6 DEF T

LEMMA HeadCard ==
    ASSUME NEW fat, NEW h, Starts(fat, h)
    PROVE  IsFiniteSet(On(fat, h)) /\ Cardinality(On(fat, h)) = Len(Chain(fat, h))
<1>1. Chain(fat, h) \in Seq(Clusters)
  BY ChainFacts DEF Starts
<1> QED BY <1>1, HeadDistinct, SequenceCard DEF On

LEMMA ClusterCard ==
    IsFiniteSet(Clusters) /\ Cardinality(Clusters) = TotalClustersInVolume
<1> DEFINE n == TotalClustersInVolume + 1
<1>1. n \in Int /\ n >= 2 /\ 2 \in Int
  BY VolumeAssumption
<1> HIDE DEF n
<1>2. IsFiniteSet(2 .. n) /\ Cardinality(2 .. n) = IF 2 > n THEN 0 ELSE n - 2 + 1
  BY <1>1, FS_Interval
<1>3. n - 2 + 1 = TotalClustersInVolume
  BY VolumeAssumption DEF n
<1> QED BY <1>1, <1>2, <1>3 DEF Clusters, n

LEMMA HeadEnds ==
    ASSUME NEW fat, NEW h, Starts(fat, h)
    PROVE  LET cs == Chain(fat, h) IN fat[cs[Len(cs)]] \notin Clusters
<1> DEFINE cs == Chain(fat, h)
<1>1. /\ cs \in Seq(Clusters) /\ Len(cs) \in Nat /\ Len(cs) >= 1 /\ cs[1] = h
      /\ \A i \in 1 .. Len(cs) - 1 : cs[i + 1] = fat[cs[i]]
      /\ \A i \in 1 .. Len(cs) : cs[i] \in Clusters
      /\ On(fat, h) \subseteq Clusters
  BY ChainFacts DEF Starts
<1>2. /\ Len(cs) <= TotalClustersInVolume
      /\ Len(cs) < TotalClustersInVolume => Ended(fat, h, cs)
  BY ChainAlong
<1>3. \A i, j \in 1 .. Len(cs) : cs[i] = cs[j] => i = j
  BY HeadDistinct
<1>4. IsFiniteSet(On(fat, h)) /\ Cardinality(On(fat, h)) = Len(cs)
  BY HeadCard
<1>5. On(fat, h) = {cs[i] : i \in 1 .. Len(cs)}
  BY DEF On
<1> HIDE DEF cs
<1> SUFFICES fat[cs[Len(cs)]] \notin Clusters
  BY DEF cs
<1>6. CASE Len(cs) < TotalClustersInVolume
  BY <1>1, <1>2, <1>6 DEF Ended
<1>7. CASE Len(cs) = TotalClustersInVolume
  <2>1. On(fat, h) = Clusters
    BY <1>1, <1>4, <1>7, ClusterCard, FS_Subset
  <2> SUFFICES ASSUME fat[cs[Len(cs)]] \in Clusters PROVE FALSE
    OBVIOUS
  <2>2. PICK j \in 1 .. Len(cs) : fat[cs[Len(cs)]] = cs[j]
    BY <1>5, <2>1
  <2>3. Len(cs) \in 1 .. Len(cs) /\ cs[Len(cs)] \in Clusters
    BY <1>1
  <2>4. j # 1
    BY <1>1, <2>2, <2>3 DEF Starts, Orphan
  <2>5. j - 1 \in 1 .. Len(cs) - 1 /\ (j - 1) + 1 = j /\ j - 1 \in 1 .. Len(cs)
    BY <1>1, <2>2, <2>4
  <2>6. cs[j] = fat[cs[j - 1]] /\ cs[j] \in Clusters
    BY <1>1, <2>2, <2>5
  <2>7. cs[j - 1] = cs[Len(cs)]
    BY <1>1, <2>2, <2>3, <2>5, <2>6 DEF Starts, Injective
  <2>8. j - 1 = Len(cs)
    BY <1>3, <2>3, <2>5, <2>7
  <2> QED BY <1>1, <2>2, <2>8
<1> QED BY <1>1, <1>2, <1>6, <1>7, VolumeAssumption

LEMMA OnNext ==
    ASSUME NEW fat, NEW h, Starts(fat, h), NEW c \in On(fat, h)
    PROVE  /\ fat[c] \in Clusters => fat[c] \in On(fat, h)
           /\ fat[c] \notin Clusters => c = Chain(fat, h)[Len(Chain(fat, h))]
<1> DEFINE cs == Chain(fat, h)
<1>1. /\ Len(cs) \in Nat
      /\ \A i \in 1 .. Len(cs) - 1 : cs[i + 1] = fat[cs[i]]
      /\ \A i \in 1 .. Len(cs) : cs[i] \in Clusters
  BY ChainFacts DEF Starts
<1>2. fat[cs[Len(cs)]] \notin Clusters
  BY HeadEnds
<1>3. On(fat, h) = {cs[i] : i \in 1 .. Len(cs)}
  BY DEF On
<1> HIDE DEF cs
<1>4. PICK i \in 1 .. Len(cs) : c = cs[i]
  BY <1>3
<1>5. CASE i = Len(cs)
  BY <1>2, <1>4, <1>5 DEF cs
<1>6. CASE i # Len(cs)
  <2>1. i \in 1 .. Len(cs) - 1 /\ i + 1 \in 1 .. Len(cs)
    BY <1>1, <1>4, <1>6
  <2> QED BY <1>1, <1>3, <1>4, <2>1
<1> QED BY <1>5, <1>6

\* What leads into a chain is part of it.
LEMMA OnBack ==
    ASSUME NEW fat, NEW h, Starts(fat, h), NEW c \in Clusters, fat[c] \in On(fat, h)
    PROVE  c \in On(fat, h)
<1> DEFINE cs == Chain(fat, h)
<1>1. /\ Len(cs) \in Nat /\ cs[1] = h
      /\ \A i \in 1 .. Len(cs) - 1 : cs[i + 1] = fat[cs[i]]
      /\ \A i \in 1 .. Len(cs) : cs[i] \in Clusters
  BY ChainFacts DEF Starts
<1>2. On(fat, h) = {cs[i] : i \in 1 .. Len(cs)}
  BY DEF On
<1> HIDE DEF cs
<1>3. PICK i \in 1 .. Len(cs) : fat[c] = cs[i]
  BY <1>2
<1>4. i # 1
  BY <1>1, <1>3 DEF Starts, Orphan
<1>5. i - 1 \in 1 .. Len(cs) - 1 /\ (i - 1) + 1 = i /\ i - 1 \in 1 .. Len(cs)
  BY <1>1, <1>3, <1>4
<1>6. cs[i] = fat[cs[i - 1]] /\ cs[i] \in Clusters
  BY <1>1, <1>3, <1>5
<1>7. c = cs[i - 1]
  BY <1>1, <1>3, <1>5, <1>6 DEF Starts, Injective
<1> QED BY <1>2, <1>5, <1>7

\* A chain is within every set that has its first cluster and is closed.
LEMMA OnLeast ==
    ASSUME NEW fat, NEW h \in Clusters, NEW S, h \in S,
           \A c \in S : fat[c] \in Clusters => fat[c] \in S
    PROVE  On(fat, h) \subseteq S
<1> DEFINE cs == Chain(fat, h)
           Bad == {i \in 1 .. Len(cs) : cs[i] \notin S}
<1>1. /\ Len(cs) \in Nat /\ cs[1] = h
      /\ \A i \in 1 .. Len(cs) - 1 : cs[i + 1] = fat[cs[i]]
      /\ \A i \in 1 .. Len(cs) : cs[i] \in Clusters
  BY ChainFacts
<1>2. On(fat, h) = {cs[i] : i \in 1 .. Len(cs)}
  BY DEF On
<1> HIDE DEF cs
<1>3. Bad = {}
  <2> SUFFICES ASSUME Bad # {} PROVE FALSE
    OBVIOUS
  <2>1. PICK i \in Bad : \A k \in Bad : i <= k
    <3>1. Bad \in SUBSET Nat
      OBVIOUS
    <3> HIDE DEF Bad
    <3> QED BY <3>1, LeastExists
  <2>2. i # 1
    BY <1>1, <2>1
  <2>3. i - 1 \in 1 .. Len(cs) - 1 /\ i - 1 \in 1 .. Len(cs) /\ (i - 1) + 1 = i
        /\ i - 1 \notin Bad
    BY <1>1, <2>1, <2>2
  <2>4. cs[i] = fat[cs[i - 1]] /\ cs[i] \in Clusters /\ cs[i - 1] \in S
    BY <1>1, <2>1, <2>3
  <2> QED BY <2>1, <2>4
<1> QED BY <1>2, <1>3

LEMMA OnApart ==
    ASSUME NEW fat, NEW h, NEW k, Starts(fat, h), Starts(fat, k), h # k
    PROVE  On(fat, h) \cap On(fat, k) = {}
<1> DEFINE S == Clusters \ On(fat, k)
<1>1. h \notin On(fat, k)
  <2> SUFFICES ASSUME h \in On(fat, k) PROVE FALSE
    OBVIOUS
  <2> DEFINE cs == Chain(fat, k)
  <2>1. /\ Len(cs) \in Nat /\ cs[1] = k
        /\ \A i \in 1 .. Len(cs) - 1 : cs[i + 1] = fat[cs[i]]
        /\ \A i \in 1 .. Len(cs) : cs[i] \in Clusters
    BY ChainFacts DEF Starts
  <2>2. PICK i \in 1 .. Len(cs) : h = cs[i]
    BY DEF On
  <2> HIDE DEF cs
  <2>3. i # 1
    BY <2>1, <2>2
  <2>4. i - 1 \in 1 .. Len(cs) - 1 /\ i - 1 \in 1 .. Len(cs) /\ (i - 1) + 1 = i
    BY <2>1, <2>2, <2>3
  <2>5. h = fat[cs[i - 1]] /\ cs[i - 1] \in Clusters
    BY <2>1, <2>2, <2>4
  <2> QED BY <2>5 DEF Starts, Orphan
<1>2. h \in Clusters /\ h \in S
  BY <1>1 DEF Starts
<1>3. \A c \in S : fat[c] \in Clusters => fat[c] \in S
  BY OnBack
<1> HIDE DEF S
<1>4. On(fat, h) \subseteq S
  BY <1>2, <1>3, OnLeast
<1> QED BY <1>4 DEF S

-----------------------------------------------------------------------------
(* Changes of the table.                                                   *)

\* One entry of two tables leads the same way.
Alike(fat, g, c) == g[c] = fat[c] \/ (g[c] \notin Clusters /\ fat[c] \notin Clusters)

LEMMA ChainSame ==
    ASSUME NEW fat, NEW g, NEW h, \A c \in On(fat, h) : Alike(fat, g, c)
    PROVE  Chain(g, h) = Chain(fat, h) /\ On(g, h) = On(fat, h)
<1> DEFINE cs == Chain(fat, h)
<1>1. CASE h \notin Clusters
  BY <1>1, OnNothing
<1>2. CASE h \in Clusters
  <2>1. /\ Along(fat, h, cs) /\ Len(cs) \in Nat /\ Len(cs) <= TotalClustersInVolume
        /\ Len(cs) < TotalClustersInVolume => Ended(fat, h, cs)
    BY ChainAlong
  <2>2. /\ Len(cs) >= 1
        /\ \A i \in 1 .. Len(cs) - 1 : cs[i + 1] = fat[cs[i]]
        /\ \A i \in 1 .. Len(cs) : cs[i] \in Clusters
    BY <1>2, ChainFacts
  <2>3. On(fat, h) = {cs[i] : i \in 1 .. Len(cs)}
    BY DEF On
  <2> HIDE DEF cs
  <2>4. \A i \in 1 .. Len(cs) : Alike(fat, g, cs[i])
    BY <2>3
  <2>5. ASSUME NEW i \in 1 .. Len(cs) - 1 PROVE cs[i + 1] = g[cs[i]]
    <3>1. i \in 1 .. Len(cs) /\ i + 1 \in 1 .. Len(cs)
      BY <2>1
    <3> QED BY <2>2, <2>4, <3>1 DEF Alike
  <2>6. Along(g, h, cs)
    BY <2>1, <2>5 DEF Along
  <2>7. Len(cs) < TotalClustersInVolume => Ended(g, h, cs)
    <3>1. Len(cs) \in 1 .. Len(cs)
      BY <2>1, <2>2
    <3> QED BY <2>1, <2>2, <2>4, <3>1 DEF Ended, Alike
  <2>8. cs = Chain(g, h)
    BY <2>1, <2>6, <2>7, OnlyChain
  <2> QED BY <2>8 DEF On, cs
<1> QED BY <1>1, <1>2

LEMMA Alone ==
    ASSUME NEW fat, NEW c \in Clusters, fat[c] \notin Clusters
    PROVE  On(fat, c) = {c}
<1>1. On(fat, c) \subseteq {c}
  <2>1. \A d \in {c} : fat[d] \in Clusters => fat[d] \in {c}
    OBVIOUS
  <2> QED BY <2>1, OnLeast
<1> QED BY <1>1, ChainFacts

\* What is in use leads to what is in use.
Links(fat) ==
    /\ Injective(fat)
    /\ \A c \in Clusters : fat[c] \in Clusters => fat[fat[c]] # Available

Shape(fat, H) ==
    /\ Links(fat) /\ H \subseteq Clusters
    /\ \A h \in H : fat[h] # Available /\ Orphan(fat, h)

LEMMA ShapeHeads ==
    ASSUME NEW fat, NEW H, Shape(fat, H), NEW h \in H
    PROVE  Starts(fat, h)
BY DEF Shape, Links, Starts

\* The clusters of a chain are in use.
LEMMA OnUsed ==
    ASSUME NEW fat, NEW H, Shape(fat, H), NEW h \in H, NEW c \in On(fat, h)
    PROVE  fat[c] # Available
<1>1. Starts(fat, h) /\ h \in Clusters
  BY ShapeHeads DEF Starts
<1> DEFINE S == {d \in Clusters : fat[d] # Available}
<1>2. h \in S /\ \A d \in S : fat[d] \in Clusters => fat[d] \in S
  BY <1>1 DEF Shape, Links
<1> HIDE DEF S
<1>3. On(fat, h) \subseteq S
  BY <1>1, <1>2, OnLeast
<1> QED BY <1>3 DEF S

\* One entry set.
Changed(fat, c, value, g) == g = [fat EXCEPT ![c] = value]

\* The chains that a change leaves alone.
Keeps(fat, g, K) ==
    \A k : Starts(fat, k) /\ k \notin K =>
        Starts(g, k) /\ Chain(g, k) = Chain(fat, k) /\ On(g, k) = On(fat, k)

\* A cluster is taken.
LEMMA TakenShape ==
    ASSUME NEW fat \in AnyTable, Links(fat), NEW c \in Clusters, fat[c] = Available, NEW g,
           Changed(fat, c, LAST, g)
    PROVE  /\ g \in AnyTable /\ Links(g) /\ Starts(g, c) /\ g[c] = LAST /\ On(g, c) = {c}
           /\ Keeps(fat, g, {}) /\ \A k : Chain(g, k) = Chain(fat, k) /\ On(g, k) = On(fat, k)
<1>1. /\ g \in AnyTable /\ g[c] = LAST /\ LAST \notin Clusters /\ Available \notin Clusters
      /\ \A d \in Clusters : d # c => g[d] = fat[d]
      /\ LAST # Available
  BY ClusterFacts DEF AnyTable, Available, Root, Changed
<1>2. \A d \in Clusters : g[d] \in Clusters => d # c /\ fat[d] = g[d] /\ fat[d] # c
  BY <1>1 DEF Links
<1>3. Injective(g)
  BY <1>2 DEF Links, Injective
<1>4. \A d \in Clusters : g[d] \in Clusters => g[g[d]] # Available
  BY <1>1, <1>2 DEF Links
<1>5. Orphan(g, c)
  BY <1>1, <1>2 DEF Orphan
<1>6. ASSUME NEW k, Orphan(fat, k), k \in Clusters PROVE Orphan(g, k)
  BY <1>2, <1>6 DEF Orphan
<1>7. ASSUME NEW k PROVE Chain(g, k) = Chain(fat, k) /\ On(g, k) = On(fat, k)
  <2>1. \A d \in On(fat, k) : Alike(fat, g, d)
    <3>1. \A d \in Clusters : Alike(fat, g, d)
      BY <1>1 DEF Alike
    <3>2. On(fat, k) \subseteq Clusters
      BY ChainFacts, OnNothing
    <3> QED BY <3>1, <3>2
  <2> QED BY <2>1, ChainSame
<1>8. Keeps(fat, g, {})
  BY <1>3, <1>6, <1>7 DEF Keeps, Starts
<1>9. On(g, c) = {c}
  BY <1>1, Alone
<1> QED BY <1>1, <1>3, <1>4, <1>5, <1>7, <1>8, <1>9 DEF Links, Starts

\* One chain is put behind another.
Joins(fat, h, c, g) ==
    /\ g \in AnyTable /\ Links(g) /\ Starts(g, h)
    /\ On(g, h) = On(fat, h) \cup On(fat, c)
    /\ Keeps(fat, g, {h, c})
    /\ \A d \in Clusters : g[d] = Available => fat[d] = Available
    /\ \A d \in Clusters : fat[d] # Available => g[d] # Available

LEMMA JoinedShape ==
    ASSUME NEW fat \in AnyTable, Links(fat), NEW h, NEW c, Starts(fat, h), Starts(fat, c), h # c,
           fat[c] # Available, NEW last \in On(fat, h), fat[last] \notin Clusters, NEW g,
           Changed(fat, last, c, g)
    PROVE  Joins(fat, h, c, g)
<1>1. h \in Clusters /\ c \in Clusters /\ last \in Clusters /\ Available \notin Clusters
  BY ChainFacts, ClusterFacts DEF Starts, Available
<1>2. /\ g \in AnyTable /\ g[last] = c
      /\ \A d \in Clusters : d # last => g[d] = fat[d]
  BY <1>1 DEF AnyTable, Changed
<1>3. \A d \in Clusters : fat[d] # c /\ fat[d] # h
  BY DEF Starts, Orphan
<1>4. Injective(g)
  BY <1>2, <1>3 DEF Links, Injective
<1>5. \A d \in Clusters : g[d] \in Clusters => g[g[d]] # Available
  <2>1. \A d \in Clusters : g[d] = Available => fat[d] = Available
    BY <1>1, <1>2
  <2>2. \A d \in Clusters : g[d] \in Clusters => fat[g[d]] # Available
    BY <1>2 DEF Links
  <2> QED BY <2>1, <2>2
<1>6. Starts(g, h)
  <2>1. Orphan(g, h)
    BY <1>1, <1>2, <1>3 DEF Orphan
  <2> QED BY <1>1, <1>4, <2>1 DEF Starts
<1>7. ASSUME NEW k, Starts(fat, k), k \notin {h, c}
      PROVE  Starts(g, k) /\ Chain(g, k) = Chain(fat, k) /\ On(g, k) = On(fat, k)
  <2>1. On(fat, k) \cap On(fat, h) = {} /\ On(fat, k) \subseteq Clusters
    BY <1>7, OnApart, ChainFacts DEF Starts
  <2>2. \A d \in On(fat, k) : Alike(fat, g, d)
    BY <1>2, <2>1 DEF Alike
  <2>3. Orphan(g, k)
    BY <1>2, <1>7 DEF Starts, Orphan
  <2> QED BY <1>4, <1>7, <2>2, <2>3, ChainSame DEF Starts
<1>8. On(g, h) \subseteq On(fat, h) \cup On(fat, c)
  <2> DEFINE S == On(fat, h) \cup On(fat, c)
  <2>1. h \in S /\ c \in S
    BY <1>1, ChainFacts
  <2>2. ASSUME NEW d \in S, g[d] \in Clusters PROVE g[d] \in S
    <3>1. d \in Clusters
      BY <1>1, ChainFacts
    <3>2. CASE d = last
      BY <1>2, <2>1, <3>2
    <3>3. CASE d # last
      <4>1. fat[d] = g[d]
        BY <1>2, <3>1, <3>3
      <4> QED BY <2>2, <4>1, OnNext
    <3> QED BY <3>2, <3>3
  <2> HIDE DEF S
  <2>3. On(g, h) \subseteq S
    BY <1>1, <2>1, <2>2, OnLeast
  <2> QED BY <2>3 DEF S
<1>9. On(fat, h) \cup On(fat, c) \subseteq On(g, h)
  <2> DEFINE S == On(g, h)
  <2>1. h \in S /\ S \subseteq Clusters
    BY <1>1, ChainFacts
  <2>2. ASSUME NEW d \in S, fat[d] \in Clusters PROVE fat[d] \in S
    <3>1. g[d] = fat[d]
      BY <1>2, <2>1, <2>2
    <3> QED BY <1>6, <2>2, <3>1, OnNext
  <2> HIDE DEF S
  <2>3. On(fat, h) \subseteq S
    BY <1>1, <2>1, <2>2, OnLeast
  <2>4. c \in S
    <3>1. last \in S /\ g[last] \in Clusters
      BY <1>1, <1>2, <2>3
    <3> QED BY <1>2, <1>6, <3>1, OnNext DEF S
  <2>5. On(fat, c) \subseteq S
    BY <1>1, <2>2, <2>4, OnLeast
  <2> QED BY <2>3, <2>5 DEF S
<1>10. \A d \in Clusters : (g[d] = Available => fat[d] = Available)
                           /\ (fat[d] # Available => g[d] # Available)
  BY <1>1, <1>2
<1> QED BY <1>2, <1>4, <1>5, <1>6, <1>7, <1>8, <1>9, <1>10 DEF Links, Keeps, Joins

\* A chain is freed.
LEMMA FreedShape ==
    ASSUME NEW fat \in AnyTable, Links(fat), NEW h, Starts(fat, h), NEW g,
           g = [c \in Clusters |-> IF c \in On(fat, h) THEN Available ELSE fat[c]]
    PROVE  /\ g \in AnyTable /\ Links(g) /\ Keeps(fat, g, {h})
           /\ \A c \in Clusters : g[c] # Available => c \notin On(fat, h) /\ fat[c] # Available
           /\ \A c \in Clusters : c \notin On(fat, h) => g[c] = fat[c]
<1>1. /\ g \in AnyTable
      /\ \A c \in Clusters : g[c] = IF c \in On(fat, h) THEN Available ELSE fat[c]
      /\ Available \notin Clusters
  BY ClusterFacts DEF AnyTable, Available
<1>2. \A c \in Clusters : g[c] \in Clusters => g[c] = fat[c] /\ c \notin On(fat, h)
  BY <1>1
<1>3. Injective(g)
  BY <1>2 DEF Links, Injective
<1>4. ASSUME NEW c \in Clusters, g[c] \in Clusters PROVE g[g[c]] # Available
  <2>1. fat[c] \notin On(fat, h) /\ fat[c] = g[c]
    BY <1>2, <1>4, OnBack
  <2> QED BY <1>1, <1>4, <2>1 DEF Links
<1>5. ASSUME NEW k, Starts(fat, k), k \notin {h}
      PROVE  Starts(g, k) /\ Chain(g, k) = Chain(fat, k) /\ On(g, k) = On(fat, k)
  <2>1. On(fat, k) \cap On(fat, h) = {} /\ On(fat, k) \subseteq Clusters
    BY <1>5, OnApart, ChainFacts DEF Starts
  <2>2. \A d \in On(fat, k) : Alike(fat, g, d)
    BY <1>1, <2>1 DEF Alike
  <2>3. Orphan(g, k)
    BY <1>1, <1>5 DEF Starts, Orphan
  <2> QED BY <1>3, <1>5, <2>2, <2>3, ChainSame DEF Starts
<1> QED BY <1>1, <1>3, <1>4, <1>5 DEF Links, Keeps

-----------------------------------------------------------------------------
(* Entries.                                                                *)

At(disk, p) == disk[p[1]][p[2]]

\* A unit that is the entry of a file or directory; one of the root directory that leads
\* to a directory; the clusters that hold entries; the places of the entries.
Entry(unit) == InUse(unit) /\ unit.name \notin {Dot, DotDot}

RootDir(disk, p) ==
    p[1] = Root /\ InUse(At(disk, p)) /\ At(disk, p).dir /\ At(disk, p).first # Root

AreaOf(disk, fat) ==
    {c \in {Root} \cup Clusters :
        c = Root \/ \E p \in Places : RootDir(disk, p) /\ c \in On(fat, At(disk, p).first)}

LiveOf(disk, fat) == {p \in Places : p[1] \in AreaOf(disk, fat) /\ Entry(At(disk, p))}

LEMMA Remainder ==
    ASSUME NEW n \in Nat, n >= 1, NEW q \in Nat, NEW r \in 0 .. n - 1, NEW i, i = n * q + r
    PROVE  i \div n = q /\ i % n = r
<1> DEFINE d == i \div n
           s == i % n
<1>1. i \in Nat
  <2>1. n * q \in Nat
    OBVIOUS
  <2> QED BY <2>1
<1>2. d \in Nat /\ s \in 0 .. n - 1 /\ i = n * d + s
  BY <1>1, Division
<1> HIDE DEF d, s
<1>3. ASSUME NEW x \in Nat, NEW y \in Nat, NEW v \in 0 .. n - 1, NEW w \in 0 .. n - 1,
             n * x + v = n * y + w, x < y
      PROVE  FALSE
  <2>1. PICK e \in Nat : y = x + 1 + e
    <3>1. y - x - 1 \in Nat /\ y = x + 1 + (y - x - 1)
      BY <1>3
    <3> QED BY <3>1
  <2>2. n * y = n * x + n + n * e /\ n * e >= 0 /\ n * e \in Nat /\ n * x \in Nat
    BY <2>1
  <2>3. v = n + n * e + w
    <3> DEFINE a == n * x
               b == n * y
               f == n * e
    <3>1. a + v = b + w /\ b = a + n + f /\ a \in Nat /\ f \in Nat
      BY <1>3, <2>2
    <3> HIDE DEF a, b, f
    <3>2. v = n + f + w
      BY <3>1
    <3> QED BY <3>2 DEF f
  <2> QED BY <2>2, <2>3
<1>4. d = q
  BY <1>2, <1>3
<1>5. s = r
  <2> DEFINE a == n * q
  <2>1. a \in Nat /\ i = a + s /\ i = a + r
    BY <1>2, <1>4
  <2> HIDE DEF a
  <2> QED BY <2>1, <1>2
<1> QED BY <1>4, <1>5 DEF d, s

\* The slots of a directory are the places in its clusters.
LEMMA SlotsInIs ==
    ASSUME NEW m, NEW first \in Firsts
    PROVE  SlotsIn(m, first) =
             {p \in Places : p[1] \in IF first = Root THEN {Root} ELSE On(m.fat, first)}
<1> DEFINE cs == DirectoryClusters(m, first)
           n == IF first = Root THEN RootSlots ELSE Units
           D == IF first = Root THEN {Root} ELSE On(m.fat, first)
           place(i) == <<cs[((i - 1) \div n) + 1], ((i - 1) % n) + 1>>
           s == Slots(m, first)
<1>1. /\ cs \in Seq({Root} \cup Clusters) /\ cs # <<>>
      /\ \A i \in 1 .. Len(cs) : Size(cs[i]) = n
  BY DirectoryClustersType
<1>2. n \in Nat /\ n >= 1
  BY Sizes
<1>3. s = [i \in 1 .. n * Len(cs) |-> place(i)]
  BY DEF Slots
<1>4. SlotsIn(m, first) = {s[i] : i \in DOMAIN s}
  BY DEF SlotsIn
<1>5. D = {cs[i] : i \in 1 .. Len(cs)}
  <2>1. CASE first = Root
    <3>1. cs = <<Root>>
      BY <2>1 DEF DirectoryClusters
    <3>2. {cs[i] : i \in 1 .. Len(cs)} = {Root}
      BY <3>1
    <3> QED BY <2>1, <3>2
  <2>2. CASE first # Root
    <3>1. cs = Chain(m.fat, first)
      BY <2>2 DEF DirectoryClusters
    <3> HIDE DEF cs
    <3> QED BY <2>2, <3>1 DEF On
  <2> QED BY <2>1, <2>2
<1> HIDE DEF cs, n, D, s
<1>6. Len(cs) \in Nat /\ Len(cs) >= 1
  BY <1>1, EmptySeq, LenProperties
<1>7. n * Len(cs) \in Nat /\ n * Len(cs) >= 1
  BY <1>2, <1>6
<1>8. ASSUME NEW i \in 1 .. n * Len(cs) PROVE place(i) \in Places /\ place(i)[1] \in D
  <2> DEFINE q == (i - 1) \div n
             r == (i - 1) % n
  <2>1. i - 1 \in Nat /\ i - 1 < n * Len(cs)
    BY <1>7
  <2>2. q \in Nat /\ q < Len(cs) /\ r \in 0 .. n - 1
    BY <1>2, <1>6, <2>1, Quotient, Division
  <2> HIDE DEF q, r
  <2>3. q + 1 \in 1 .. Len(cs) /\ r + 1 \in 1 .. n
    BY <1>2, <1>6, <2>2
  <2>4. cs[q + 1] \in {Root} \cup Clusters /\ Size(cs[q + 1]) = n /\ cs[q + 1] \in D
    BY <1>1, <1>5, <2>3, ElementOfSeq
  <2>5. <<cs[q + 1], r + 1>> \in Places
    BY <2>3, <2>4, PlaceOf
  <2> QED BY <2>4, <2>5 DEF q, r
<1>9. ASSUME NEW p \in Places, p[1] \in D PROVE \E i \in 1 .. n * Len(cs) : p = place(i)
  <2>1. PICK k \in 1 .. Len(cs) : p[1] = cs[k]
    BY <1>5, <1>9
  <2>2. p = <<p[1], p[2]>> /\ p[2] \in 1 .. n
    BY <1>1, <2>1, PlaceFacts
  <2> DEFINE w == p[2]
  <2>3. w \in 1 .. n /\ k - 1 \in Nat /\ n * (k - 1) \in Nat
    BY <1>2, <1>6, <2>1, <2>2
  <2> HIDE DEF w
  <2>4. n * (k - 1) + n <= n * Len(cs)
    <3>1. PICK e \in Nat : Len(cs) = (k - 1) + 1 + e
      <4>1. Len(cs) - k \in Nat /\ Len(cs) = (k - 1) + 1 + (Len(cs) - k)
        BY <1>6, <2>1
      <4> QED BY <4>1
    <3>2. n * Len(cs) = n * (k - 1) + n + n * e /\ n * e >= 0
      BY <1>2, <2>3, <3>1
    <3> QED BY <1>2, <2>3, <3>2
  <2>5. n * (k - 1) + w \in 1 .. n * Len(cs)
    BY <1>2, <1>7, <2>3, <2>4
  <2>6. (n * (k - 1) + w) - 1 = n * (k - 1) + (w - 1) /\ w - 1 \in 0 .. n - 1
    BY <1>2, <2>3
  <2>7. ((n * (k - 1) + w) - 1) \div n = k - 1 /\ ((n * (k - 1) + w) - 1) % n = w - 1
    <3> DEFINE x == (n * (k - 1) + w) - 1
               y == k - 1
               z == w - 1
    <3>1. y \in Nat /\ z \in 0 .. n - 1 /\ x = n * y + z
      BY <2>3, <2>6
    <3> HIDE DEF x, y, z
    <3>2. x \div n = y /\ x % n = z
      BY <1>2, <3>1, Remainder
    <3> QED BY <3>2 DEF x, y, z
  <2>8. (k - 1) + 1 = k /\ (w - 1) + 1 = w
    BY <1>2, <1>6, <2>1, <2>3
  <2>9. place(n * (k - 1) + w) = <<cs[k], w>>
    BY <2>7, <2>8
  <2> QED BY <2>1, <2>2, <2>5, <2>9 DEF w
<1> HIDE DEF place
<1>10. DOMAIN s = 1 .. n * Len(cs) /\ \A i \in DOMAIN s : s[i] = place(i)
  BY <1>3
<1>11. SlotsIn(m, first) = {p \in Places : p[1] \in D}
  BY <1>4, <1>8, <1>9, <1>10
<1> QED BY <1>11 DEF D

LEMMA AtType ==
    ASSUME NEW disk \in AnyDisk, NEW p \in Places
    PROVE  /\ At(disk, p) \in AnyUnit /\ At(disk, p).first \in Firsts
           /\ At(disk, p).dir \in BOOLEAN /\ At(disk, p).size \in Nat
<1>1. p[1] \in {Root} \cup Clusters /\ p[2] \in 1 .. Size(p[1])
  BY PlaceFacts
<1>2. disk[p[1]] \in [1 .. Size(p[1]) -> AnyUnit]
  BY <1>1 DEF AnyDisk
<1>3. At(disk, p) \in AnyUnit
  BY <1>1, <1>2 DEF At
<1> QED BY <1>3 DEF AnyUnit, Firsts

LEMMA LiveIs ==
    ASSUME NEW m, m.disk \in AnyDisk
    PROVE  Live(m) = LiveOf(m.disk, m.fat)
<1> DEFINE disk == m.disk
           D == {Root} \cup Subdirectories(m)
<1>1. ASSUME NEW d
      PROVE  d \in Subdirectories(m) <=>
                \E p \in Places : RootDir(disk, p) /\ At(disk, p).first = d
  <2>1. ASSUME d \in Subdirectories(m)
        PROVE  \E p \in Places : RootDir(disk, p) /\ At(disk, p).first = d
    <3>1. PICK i \in 1 .. RootSlots : /\ InUse(disk[Root][i]) /\ disk[Root][i].dir
                                      /\ d = disk[Root][i].first /\ d # Root
      BY <2>1 DEF Subdirectories
    <3>2. <<Root, i>> \in Places
      BY <3>1, PlaceOf, Sizes
    <3>3. At(disk, <<Root, i>>) = disk[Root][i]
      BY DEF At
    <3> QED BY <3>1, <3>2, <3>3 DEF RootDir
  <2>2. ASSUME NEW p \in Places, RootDir(disk, p), At(disk, p).first = d
        PROVE  d \in Subdirectories(m)
    <3>1. p[2] \in 1 .. RootSlots /\ At(disk, p) = disk[Root][p[2]]
      BY <2>2, PlaceFacts, Sizes DEF RootDir, At
    <3> QED BY <2>2, <3>1 DEF RootDir, Subdirectories
  <2> QED BY <2>1, <2>2
<1>2. D \subseteq Firsts
  BY <1>1, AtType DEF Firsts, Available, Root
<1>3. ASSUME NEW p
      PROVE  (\E d \in D : p \in SlotsIn(m, d)) <=> p \in Places /\ p[1] \in AreaOf(disk, m.fat)
  <2>1. \A d \in D : SlotsIn(m, d) =
           {q \in Places : q[1] \in IF d = Root THEN {Root} ELSE On(m.fat, d)}
    BY <1>2, SlotsInIs
  <2>2. Root \notin Subdirectories(m) /\ Root \in D
    BY DEF Subdirectories
  <2>3. ASSUME NEW d \in D, p \in SlotsIn(m, d)
        PROVE  p \in Places /\ p[1] \in AreaOf(disk, m.fat)
    <3>1. p \in Places /\ p[1] \in IF d = Root THEN {Root} ELSE On(m.fat, d)
      BY <2>1, <2>3
    <3>2. p[1] \in {Root} \cup Clusters
      BY <3>1, PlaceFacts
    <3> HIDE DEF disk
    <3>3. CASE d = Root
      BY <3>1, <3>3 DEF AreaOf
    <3>4. CASE d # Root
      <4>1. PICK q \in Places : RootDir(disk, q) /\ At(disk, q).first = d
        BY <1>1, <3>4
      <4> QED BY <3>1, <3>2, <3>4, <4>1 DEF AreaOf
    <3> QED BY <3>3, <3>4
  <2>4. ASSUME p \in Places, p[1] \in AreaOf(disk, m.fat)
        PROVE  \E d \in D : p \in SlotsIn(m, d)
    <3>1. CASE p[1] = Root
      BY <2>1, <2>2, <2>4, <3>1
    <3>2. CASE p[1] # Root
      <4>1. PICK q \in Places : RootDir(disk, q) /\ p[1] \in On(m.fat, At(disk, q).first)
        BY <2>4, <3>2 DEF AreaOf
      <4>2. At(disk, q).first \in D /\ At(disk, q).first # Root
        BY <1>1, <4>1 DEF RootDir
      <4> QED BY <2>1, <2>4, <4>1, <4>2
    <3> QED BY <3>1, <3>2
  <2> QED BY <2>3, <2>4
<1>4. \A p \in Places : Entry(At(disk, p)) <=>
         InUse(UnitAt(m, p)) /\ UnitAt(m, p).name \notin {Dot, DotDot}
  BY DEF Entry, At, UnitAt
<1>5. Live(m) = {p \in UNION {SlotsIn(m, d) : d \in D} :
                    InUse(UnitAt(m, p)) /\ UnitAt(m, p).name \notin {Dot, DotDot}}
  BY DEF Live
<1> HIDE DEF D, disk
<1> QED BY <1>3, <1>4, <1>5 DEF LiveOf, disk

-----------------------------------------------------------------------------
(* A whole volume.                                                         *)

\* The first clusters of entries.
HeadsOf(disk, fat) == {At(disk, p).first : p \in LiveOf(disk, fat)} \ {Available}

\* No two entries have the same first cluster.
DistinctFirsts(disk, fat) ==
    \A p, q \in LiveOf(disk, fat) :
        At(disk, p).first # Available /\ At(disk, p).first = At(disk, q).first => p = q

\* A chain is as long as the size of its file.
Sufficient(disk, fat) ==
    \A p \in LiveOf(disk, fat) : ~At(disk, p).dir =>
        Units * Cardinality(On(fat, At(disk, p).first)) >= At(disk, p).size

\* "." and ".." are entries of directories, and not in the root.
Dotted(disk, fat) ==
    \A p \in Places : p[1] \in AreaOf(disk, fat) /\ At(disk, p).name \in {Dot, DotDot} =>
        At(disk, p).dir /\ p[1] # Root

\* Every cluster in use is on the chain of one of H.
Covered(fat, H) == \A c \in Clusters : fat[c] # Available => \E h \in H : c \in On(fat, h)

\* X has first clusters of chains that no entry leads to yet, or any more.
Whole(disk, fat, full, X) ==
    /\ disk \in AnyDisk /\ fat \in AnyTable
    /\ Shape(fat, HeadsOf(disk, fat) \cup X) /\ X \cap HeadsOf(disk, fat) = {}
    /\ DistinctFirsts(disk, fat) /\ Sufficient(disk, fat) /\ Dotted(disk, fat)
    /\ full \/ Covered(fat, HeadsOf(disk, fat) \cup X)

\* What the table on the disk says of the entries but T: their chains were not longer,
\* and nothing led into them.
OldChains(disk, fat, saved, T) ==
    \A p \in LiveOf(disk, fat) :
        At(disk, p).first # Available /\ (p # T \/ At(disk, p).dir) =>
            On(saved, At(disk, p).first) \subseteq On(fat, At(disk, p).first)

OldOrphans(disk, fat, saved, T) ==
    \A p \in LiveOf(disk, fat) :
        At(disk, p).first # Available /\ p # T => Orphan(saved, At(disk, p).first)

\* The table on the disk may be older than the cached one, as long as it does not lead
\* from the chain of one entry into that of another.  T is the entry whose chain changes.
Behind(disk, fat, saved, T) ==
    /\ saved \in AnyTable /\ Injective(saved)
    /\ OldChains(disk, fat, saved, T) /\ OldOrphans(disk, fat, saved, T)

\* No two entries share a cluster.
Apart(disk, fat) ==
    \A p, q \in LiveOf(disk, fat) :
        p # q => On(fat, At(disk, p).first) \cap On(fat, At(disk, q).first) = {}

\* A file without clusters is empty, and only directories have the names "." and "..".
Tidy(disk, fat) ==
    /\ Dotted(disk, fat)
    /\ \A p \in LiveOf(disk, fat) :
          ~At(disk, p).dir /\ At(disk, p).first = Available => At(disk, p).size = 0

LEMMA FirstType ==
    ASSUME NEW disk \in AnyDisk, NEW p \in Places, At(disk, p).first # Available
    PROVE  At(disk, p).first \in Clusters
BY AtType DEF Firsts

LEMMA LivePlace ==
    ASSUME NEW disk, NEW fat, NEW p \in LiveOf(disk, fat)
    PROVE  p \in Places /\ p[1] \in AreaOf(disk, fat) /\ Entry(At(disk, p))
BY DEF LiveOf

LEMMA HeadOf ==
    ASSUME NEW disk, NEW fat, NEW full, NEW X, Whole(disk, fat, full, X),
           NEW p \in LiveOf(disk, fat), At(disk, p).first # Available
    PROVE  /\ At(disk, p).first \in HeadsOf(disk, fat) /\ At(disk, p).first \in Clusters
           /\ Starts(fat, At(disk, p).first) /\ At(disk, p).first \notin X
<1>1. At(disk, p).first \in HeadsOf(disk, fat)
  BY DEF HeadsOf
<1>2. At(disk, p).first \in HeadsOf(disk, fat) \cup X
  BY <1>1
<1>3. Shape(fat, HeadsOf(disk, fat) \cup X) /\ X \cap HeadsOf(disk, fat) = {}
  BY DEF Whole
<1>4. Starts(fat, At(disk, p).first)
  BY <1>2, <1>3, ShapeHeads
<1> QED BY <1>1, <1>3, <1>4 DEF Starts

LEMMA ExtraHead ==
    ASSUME NEW disk, NEW fat, NEW full, NEW X, Whole(disk, fat, full, X), NEW x \in X
    PROVE  Starts(fat, x) /\ x \in Clusters /\ fat[x] # Available
<1>1. Shape(fat, HeadsOf(disk, fat) \cup X) /\ x \in HeadsOf(disk, fat) \cup X
  BY DEF Whole
<1> QED BY <1>1, ShapeHeads DEF Starts, Shape

\* An entry of the root that leads to a directory is one of the live ones.
LEMMA RootDirLive ==
    ASSUME NEW disk, NEW fat, Dotted(disk, fat), NEW p \in Places, RootDir(disk, p)
    PROVE  p \in LiveOf(disk, fat) /\ At(disk, p).first # Available
<1>1. p[1] \in AreaOf(disk, fat)
  BY DEF AreaOf, RootDir
<1>2. At(disk, p).name \notin {Dot, DotDot}
  BY <1>1 DEF Dotted, RootDir
<1> QED BY <1>1, <1>2 DEF LiveOf, Entry, RootDir, Available, Root

\* A cluster of a directory other than the root is on the chain of a live entry.
LEMMA AreaLive ==
    ASSUME NEW disk, NEW fat, Dotted(disk, fat), NEW c \in AreaOf(disk, fat), c # Root
    PROVE  \E p \in LiveOf(disk, fat) :
              RootDir(disk, p) /\ At(disk, p).first # Available
              /\ c \in On(fat, At(disk, p).first)
<1>1. PICK p \in Places : RootDir(disk, p) /\ c \in On(fat, At(disk, p).first)
  BY DEF AreaOf
<1> QED BY <1>1, RootDirLive

\* The places of entries do not depend on more of the table than the chains of directories.
LEMMA AreaGrows ==
    ASSUME NEW disk, NEW fat, NEW g, NEW E,
           \A p \in Places : RootDir(disk, p) =>
              /\ On(fat, At(disk, p).first) \subseteq On(g, At(disk, p).first)
              /\ On(g, At(disk, p).first) \subseteq On(fat, At(disk, p).first) \cup E
    PROVE  /\ AreaOf(disk, fat) \subseteq AreaOf(disk, g)
           /\ AreaOf(disk, g) \subseteq AreaOf(disk, fat) \cup E
BY DEF AreaOf

BlankIn(disk, E) == \A p \in Places : p[1] \in E => At(disk, p) = Blank

LEMMA BlankEntry == ~InUse(Blank) /\ ~Entry(Blank) /\ Blank.name \notin {Dot, DotDot}
BY DEF Entry, InUse, IsFree, Blank, Dirent, Dot, DotDot

LEMMA LiveGrows ==
    ASSUME NEW disk, NEW fat, NEW g, NEW E, BlankIn(disk, E),
           AreaOf(disk, fat) \subseteq AreaOf(disk, g),
           AreaOf(disk, g) \subseteq AreaOf(disk, fat) \cup E
    PROVE  LiveOf(disk, g) = LiveOf(disk, fat)
BY BlankEntry DEF LiveOf, BlankIn

LEMMA MoreClusters ==
    ASSUME NEW fat, NEW g, NEW first \in Firsts, On(fat, first) \subseteq On(g, first)
    PROVE  Units * Cardinality(On(g, first)) >= Units * Cardinality(On(fat, first))
<1>1. On(g, first) \subseteq Clusters
  BY ChainFacts, OnNothing
<1>2. IsFiniteSet(On(g, first))
  BY <1>1, ClusterCard, FS_Subset
<1>3. IsFiniteSet(On(fat, first)) /\ Cardinality(On(fat, first)) <= Cardinality(On(g, first))
  BY <1>2, FS_Subset
<1>4. Cardinality(On(g, first)) \in Nat /\ Cardinality(On(fat, first)) \in Nat
  BY <1>2, <1>3, FS_CardinalityType
<1> DEFINE a == Cardinality(On(fat, first))
           b == Cardinality(On(g, first))
<1>5. a \in Nat /\ b \in Nat /\ a <= b
  BY <1>3, <1>4
<1> HIDE DEF a, b
<1>6. PICK d \in Nat : b = a + d
  <2>1. b - a \in Nat /\ b = a + (b - a)
    BY <1>5
  <2> QED BY <2>1
<1>7. Units * b = Units * a + Units * d /\ Units * d >= 0 /\ Units * a \in Nat
  BY <1>5, <1>6, Sizes
<1>8. Units * b >= Units * a
  BY <1>7, Sizes, <1>5, <1>6
<1> QED BY <1>8 DEF a, b

-----------------------------------------------------------------------------
(* What keeps a volume whole.                                              *)

\* The chains of the entries grow by clusters of E at most.
Grows(disk, fat, g, E) ==
    \A h \in HeadsOf(disk, fat) :
        On(fat, h) \subseteq On(g, h) /\ On(g, h) \subseteq On(fat, h) \cup E

\* The table changes, and the chains of the entries grow by blank clusters at most.
LEMMA TableGrows ==
    ASSUME NEW disk, NEW fat, NEW full, NEW X, Whole(disk, fat, full, X),
           NEW saved, NEW T, Behind(disk, fat, saved, T),
           NEW g \in AnyTable, NEW E, BlankIn(disk, E), Grows(disk, fat, g, E),
           NEW more, NEW Y, Shape(g, HeadsOf(disk, fat) \cup Y),
           Y \cap HeadsOf(disk, fat) = {}, more \/ Covered(g, HeadsOf(disk, fat) \cup Y)
    PROVE  /\ Whole(disk, g, more, Y) /\ Behind(disk, g, saved, T)
           /\ LiveOf(disk, g) = LiveOf(disk, fat) /\ HeadsOf(disk, g) = HeadsOf(disk, fat)
           /\ AreaOf(disk, fat) \subseteq AreaOf(disk, g)
<1>1. disk \in AnyDisk /\ Dotted(disk, fat) /\ DistinctFirsts(disk, fat)
      /\ Sufficient(disk, fat)
  BY DEF Whole
<1>2. \A p \in Places : RootDir(disk, p) =>
         /\ On(fat, At(disk, p).first) \subseteq On(g, At(disk, p).first)
         /\ On(g, At(disk, p).first) \subseteq On(fat, At(disk, p).first) \cup E
  <2>1. \A p \in Places : RootDir(disk, p) => At(disk, p).first \in HeadsOf(disk, fat)
    BY <1>1, RootDirLive DEF HeadsOf
  <2> QED BY <2>1 DEF Grows
<1>3. /\ AreaOf(disk, fat) \subseteq AreaOf(disk, g)
      /\ AreaOf(disk, g) \subseteq AreaOf(disk, fat) \cup E
  BY <1>2, AreaGrows
<1>4. LiveOf(disk, g) = LiveOf(disk, fat)
  BY <1>3, LiveGrows
<1>5. HeadsOf(disk, g) = HeadsOf(disk, fat)
  BY <1>4 DEF HeadsOf
<1>6. DistinctFirsts(disk, g)
  BY <1>1, <1>4 DEF DistinctFirsts
<1>7. \A p \in LiveOf(disk, fat) : On(fat, At(disk, p).first) \subseteq On(g, At(disk, p).first)
  <2>1. ASSUME NEW p \in LiveOf(disk, fat)
        PROVE  On(fat, At(disk, p).first) \subseteq On(g, At(disk, p).first)
    <3>1. CASE At(disk, p).first = Available
      BY <3>1, OnNothing, ClusterFacts DEF Available
    <3>2. CASE At(disk, p).first # Available
      BY <3>2 DEF HeadsOf, Grows
    <3> QED BY <3>1, <3>2
  <2> QED BY <2>1
<1>8. Sufficient(disk, g)
  <2>1. ASSUME NEW p \in LiveOf(disk, fat), ~At(disk, p).dir
        PROVE  Units * Cardinality(On(g, At(disk, p).first)) >= At(disk, p).size
    <3> DEFINE first == At(disk, p).first
               a == Cardinality(On(fat, first))
               b == Cardinality(On(g, first))
               s == At(disk, p).size
    <3>1. first \in Firsts /\ s \in Nat
      BY <1>1, LivePlace, AtType
    <3>2. Units * b >= Units * a
      BY <1>7, <3>1, MoreClusters
    <3>3. Units * a >= s
      BY <1>1, <2>1 DEF Sufficient
    <3>4. a \in Nat /\ b \in Nat
      <4>1. On(fat, first) \subseteq Clusters /\ On(g, first) \subseteq Clusters
        BY ChainFacts, OnNothing
      <4>2. IsFiniteSet(On(fat, first)) /\ IsFiniteSet(On(g, first))
        BY <4>1, ClusterCard, FS_Subset
      <4> QED BY <4>2, FS_CardinalityType
    <3> HIDE DEF first, a, b, s
    <3>5. Units * a \in Nat /\ Units * b \in Nat
      BY <3>4, Sizes
    <3>6. Units * b >= s
      BY <3>1, <3>2, <3>3, <3>5
    <3> QED BY <3>6 DEF b, s, first
  <2> QED BY <1>4, <2>1 DEF Sufficient
<1>9. Dotted(disk, g)
  BY <1>1, <1>3, BlankEntry DEF Dotted, BlankIn
<1>10. OldChains(disk, g, saved, T) /\ OldOrphans(disk, g, saved, T)
  <2>1. OldChains(disk, fat, saved, T) /\ OldOrphans(disk, fat, saved, T)
    BY DEF Behind
  <2> QED BY <1>4, <1>7, <2>1 DEF OldChains, OldOrphans
<1> QED BY <1>1, <1>3, <1>4, <1>5, <1>6, <1>8, <1>9, <1>10 DEF Whole, Behind

\* A unit written.
Put(disk, at, unit) == [disk EXCEPT ![at[1]][at[2]] = unit]

LEMMA PutAtPlace ==
    ASSUME NEW disk \in AnyDisk, NEW at \in Places, NEW unit \in AnyUnit
    PROVE  /\ Put(disk, at, unit) \in AnyDisk /\ At(Put(disk, at, unit), at) = unit
           /\ \A p \in Places : p # at => At(Put(disk, at, unit), p) = At(disk, p)
<1>1. at \in Nat \X Nat /\ at = <<at[1], at[2]>>
      /\ at[1] \in {Root} \cup Clusters /\ at[2] \in 1 .. Size(at[1])
  BY PlaceFacts
<1>2. \A c \in {Root} \cup Clusters : disk[c] \in [1 .. Size(c) -> AnyUnit]
  BY DEF AnyDisk
<1>3. DOMAIN disk = {Root} \cup Clusters
  BY DEF AnyDisk
<1>4. Put(disk, at, unit) \in AnyDisk
  BY <1>1, UnitSetType DEF Put
<1>5. At(Put(disk, at, unit), at) = unit
  BY <1>1, <1>2, <1>3 DEF Put, At
<1>6. ASSUME NEW p \in Places, p # at PROVE At(Put(disk, at, unit), p) = At(disk, p)
  <2>1. p = <<p[1], p[2]>> /\ p[1] \in {Root} \cup Clusters /\ p[2] \in 1 .. Size(p[1])
    BY PlaceFacts
  <2>2. p[1] # at[1] \/ p[2] # at[2]
    BY <1>1, <1>6, <2>1
  <2> QED BY <1>1, <1>2, <1>3, <2>1, <2>2 DEF Put, At
<1> QED BY <1>4, <1>5, <1>6

\* A unit that is not, and does not become, an entry.
Quiet(disk, fat, at, unit) ==
    /\ at[1] # Root
    /\ at[1] \in AreaOf(disk, fat) =>
          /\ ~Entry(At(disk, at)) /\ ~Entry(unit)
          /\ unit.name \in {Dot, DotDot} => unit.dir

LEMMA QuietWrite ==
    ASSUME NEW disk, NEW fat, NEW full, NEW X, Whole(disk, fat, full, X),
           NEW saved, NEW T, Behind(disk, fat, saved, T),
           NEW at \in Places, NEW unit \in AnyUnit, Quiet(disk, fat, at, unit)
    PROVE  LET new == Put(disk, at, unit)
           IN  /\ Whole(new, fat, full, X) /\ Behind(new, fat, saved, T)
               /\ LiveOf(new, fat) = LiveOf(disk, fat)
               /\ AreaOf(new, fat) = AreaOf(disk, fat)
               /\ \A p \in LiveOf(disk, fat) : At(new, p) = At(disk, p)
<1> DEFINE new == Put(disk, at, unit)
<1>1. disk \in AnyDisk
  BY DEF Whole
<1>2. /\ new \in AnyDisk /\ At(new, at) = unit
      /\ \A p \in Places : p # at => At(new, p) = At(disk, p)
  BY <1>1, PutAtPlace
<1> HIDE DEF new
<1>3. \A p \in Places : /\ RootDir(new, p) <=> RootDir(disk, p)
                        /\ RootDir(disk, p) => At(new, p) = At(disk, p)
  BY <1>2 DEF RootDir, Quiet
<1>4. AreaOf(new, fat) = AreaOf(disk, fat)
  BY <1>3 DEF AreaOf
<1>5. LiveOf(new, fat) = LiveOf(disk, fat)
      /\ \A p \in LiveOf(disk, fat) : At(new, p) = At(disk, p)
  BY <1>2, <1>4 DEF LiveOf, Quiet
<1>6. HeadsOf(new, fat) = HeadsOf(disk, fat)
  BY <1>5 DEF HeadsOf
<1>7. DistinctFirsts(new, fat) /\ Sufficient(new, fat)
  BY <1>5 DEF Whole, DistinctFirsts, Sufficient
<1>8. Dotted(new, fat)
  BY <1>2, <1>4 DEF Whole, Dotted, Quiet
<1>9. OldChains(new, fat, saved, T) /\ OldOrphans(new, fat, saved, T)
  BY <1>5 DEF Behind, OldChains, OldOrphans
<1>10. Whole(new, fat, full, X) /\ Behind(new, fat, saved, T)
  BY <1>2, <1>6, <1>7, <1>8, <1>9 DEF Whole, Behind
<1> QED BY <1>4, <1>5, <1>10 DEF new

\* The first cluster that an entry leads to.
Lead(unit) == IF Entry(unit) THEN {unit.first} \ {Available} ELSE {}

\* An entry made, changed or removed: a directory stays one, and the first clusters go
\* from X to Y.  A directory gets a chain of blank clusters.
NewChain(disk, fat, saved, u, v) ==
    Entry(v) /\ v.dir /\ v.first # Available =>
        /\ Entry(u) /\ u.dir
        /\ \/ v.first = u.first
           \/ /\ BlankIn(disk, On(fat, v.first))
              /\ On(saved, v.first) \subseteq On(fat, v.first)

Rewrites(disk, fat, saved, X, Y, at, v) ==
    LET u == At(disk, at)
    IN  /\ at[1] \in AreaOf(disk, fat)
        /\ u.name \notin {Dot, DotDot} /\ v.name \notin {Dot, DotDot}
        /\ Lead(v) \cup Y = Lead(u) \cup X /\ Lead(v) \cap Y = {}
        /\ Entry(u) /\ u.dir =>
              Entry(v) /\ v.dir /\ (v.first = u.first \/ u.first = Available)
        /\ NewChain(disk, fat, saved, u, v)
        /\ Entry(v) /\ ~v.dir => Units * Cardinality(On(fat, v.first)) >= v.size

LEMMA EntryWrite ==
    ASSUME NEW disk, NEW fat, NEW full, NEW X, Whole(disk, fat, full, X),
           NEW at \in Places, NEW saved, Behind(disk, fat, saved, at),
           NEW v \in AnyUnit, NEW Y, Rewrites(disk, fat, saved, X, Y, at, v)
    PROVE  LET new == Put(disk, at, v)
           IN  /\ Whole(new, fat, full, Y) /\ Behind(new, fat, saved, at)
               /\ LiveOf(new, fat) =
                    (LiveOf(disk, fat) \ {at}) \cup (IF Entry(v) THEN {at} ELSE {})
               /\ AreaOf(disk, fat) \subseteq AreaOf(new, fat)
<1> DEFINE new == Put(disk, at, v)
           u == At(disk, at)
           E == IF RootDir(new, at) /\ v.first # u.first THEN On(fat, v.first) ELSE {}
           rest == LiveOf(disk, fat) \ {at}
           H == {At(disk, p).first : p \in rest} \ {Available}
<1>1. disk \in AnyDisk /\ u \in AnyUnit /\ u.first \in Firsts /\ fat \in AnyTable
  BY AtType DEF Whole
<1>2. /\ new \in AnyDisk /\ At(new, at) = v
      /\ \A p \in Places : p # at => At(new, p) = At(disk, p)
  BY <1>1, PutAtPlace
<1>3. /\ at[1] \in AreaOf(disk, fat)
      /\ u.name \notin {Dot, DotDot} /\ v.name \notin {Dot, DotDot}
      /\ Lead(v) \cup Y = Lead(u) \cup X /\ Lead(v) \cap Y = {}
      /\ Entry(u) /\ u.dir =>
            Entry(v) /\ v.dir /\ (v.first = u.first \/ u.first = Available)
      /\ NewChain(disk, fat, saved, u, v)
      /\ Entry(v) /\ ~v.dir => Units * Cardinality(On(fat, v.first)) >= v.size
  BY DEF Rewrites
<1> HIDE DEF new
<1>4. RootDir(disk, at) => RootDir(new, at) /\ v.first = u.first
  BY <1>2, <1>3 DEF RootDir, Entry, Available, Root
<1>5. RootDir(new, at) => RootDir(disk, at) \/ v.first # u.first
  BY <1>2, <1>3 DEF RootDir, Entry, Available, Root, NewChain
<1>6. BlankIn(disk, E)
  <2>1. CASE RootDir(new, at) /\ v.first # u.first
    <3>1. Entry(v) /\ v.dir /\ v.first # Available
      BY <1>2, <1>3, <2>1 DEF RootDir, Entry, Available, Root
    <3> QED BY <1>3, <2>1, <3>1 DEF NewChain
  <2>2. CASE ~(RootDir(new, at) /\ v.first # u.first)
    BY <2>2 DEF BlankIn
  <2> QED BY <2>1, <2>2
<1>7. /\ AreaOf(disk, fat) \subseteq AreaOf(new, fat)
      /\ AreaOf(new, fat) \subseteq AreaOf(disk, fat) \cup E
  <2>1. \A p \in Places : p # at => /\ RootDir(new, p) <=> RootDir(disk, p)
                                    /\ At(new, p) = At(disk, p)
    BY <1>2 DEF RootDir
  <2>2. ASSUME NEW c \in AreaOf(disk, fat) PROVE c \in AreaOf(new, fat)
    BY <1>2, <1>4, <2>1 DEF AreaOf
  <2>3. ASSUME NEW c \in AreaOf(new, fat) PROVE c \in AreaOf(disk, fat) \cup E
    <3>1. CASE c = Root
      BY <3>1 DEF AreaOf
    <3>2. CASE c # Root
      <4>1. PICK p \in Places : RootDir(new, p) /\ c \in On(fat, At(new, p).first)
        BY <3>2 DEF AreaOf
      <4>2. CASE p # at
        BY <2>1, <2>3, <4>1, <4>2 DEF AreaOf
      <4>3. CASE p = at /\ v.first = u.first
        BY <1>2, <1>5, <2>3, <4>1, <4>3 DEF AreaOf
      <4>4. CASE p = at /\ v.first # u.first
        BY <1>2, <4>1, <4>4
      <4> QED BY <4>2, <4>3, <4>4
    <3> QED BY <3>1, <3>2
  <2> QED BY <2>2, <2>3
<1> HIDE DEF E
<1>8. LiveOf(new, fat) = rest \cup (IF Entry(v) THEN {at} ELSE {})
  BY <1>2, <1>3, <1>6, <1>7, BlankEntry DEF LiveOf, BlankIn
<1>9. /\ at \in LiveOf(disk, fat) <=> Entry(u)
      /\ \A p \in rest : p \in Places /\ p # at /\ p \in LiveOf(disk, fat)
                         /\ At(new, p) = At(disk, p)
  BY <1>2, <1>3 DEF LiveOf
<1>10. HeadsOf(disk, fat) = H \cup Lead(u)
  BY <1>9 DEF HeadsOf, Lead
<1>11. HeadsOf(new, fat) = H \cup Lead(v)
  BY <1>2, <1>8, <1>9 DEF HeadsOf, Lead
<1>12. DistinctFirsts(disk, fat) /\ X \cap HeadsOf(disk, fat) = {}
       /\ Shape(fat, HeadsOf(disk, fat) \cup X)
       /\ (full \/ Covered(fat, HeadsOf(disk, fat) \cup X))
  BY DEF Whole
<1>13. H \cap Lead(u) = {}
  <2> SUFFICES ASSUME NEW p \in rest, At(disk, p).first \in Lead(u) PROVE FALSE
    OBVIOUS
  <2>1. At(disk, p).first # Available /\ At(disk, p).first = u.first
        /\ at \in LiveOf(disk, fat) /\ p \in LiveOf(disk, fat) /\ p # at
    BY <1>9 DEF Lead
  <2> QED BY <1>12, <2>1 DEF DistinctFirsts
<1> HIDE DEF H
<1>14. HeadsOf(new, fat) \cup Y = HeadsOf(disk, fat) \cup X
  BY <1>3, <1>10, <1>11
<1>15. Y \cap HeadsOf(new, fat) = {} /\ H \cap Lead(v) = {}
  BY <1>3, <1>10, <1>11, <1>12, <1>13
<1>16. DistinctFirsts(new, fat)
  <2> SUFFICES ASSUME NEW p \in LiveOf(new, fat), NEW q \in LiveOf(new, fat),
                      At(new, p).first # Available, At(new, p).first = At(new, q).first,
                      p # q
               PROVE  FALSE
    BY DEF DistinctFirsts
  <2>1. CASE p \in rest /\ q \in rest
    BY <1>9, <1>12, <2>1 DEF DistinctFirsts
  <2>2. ASSUME NEW r \in rest, Entry(v), At(disk, r).first = v.first, v.first # Available
        PROVE  FALSE
    BY <1>15, <2>2 DEF H, Lead
  <2> QED BY <1>2, <1>8, <1>9, <2>1, <2>2
<1>17. Sufficient(new, fat)
  <2>1. Sufficient(disk, fat)
    BY DEF Whole
  <2> QED BY <1>2, <1>3, <1>8, <1>9, <2>1 DEF Sufficient
<1>18. Dotted(new, fat)
  <2>1. Dotted(disk, fat)
    BY DEF Whole
  <2> QED BY <1>2, <1>3, <1>6, <1>7, <2>1, BlankEntry DEF Dotted, BlankIn
<1>19. OldChains(disk, fat, saved, at) /\ OldOrphans(disk, fat, saved, at)
  BY DEF Behind
<1>20. OldChains(new, fat, saved, at)
  <2> SUFFICES ASSUME NEW p \in LiveOf(new, fat), At(new, p).first # Available,
                      p # at \/ At(new, p).dir
               PROVE  On(saved, At(new, p).first) \subseteq On(fat, At(new, p).first)
    BY DEF OldChains
  <2>1. CASE p # at
    BY <1>8, <1>9, <1>19, <2>1 DEF OldChains
  <2>2. CASE p = at
    <3>1. Entry(v) /\ v.dir /\ v.first # Available
      BY <1>2, <1>8, <2>2
    <3>2. CASE v.first = u.first
      BY <1>2, <1>3, <1>9, <1>19, <2>2, <3>1, <3>2 DEF OldChains, NewChain
    <3>3. CASE v.first # u.first
      BY <1>2, <1>3, <2>2, <3>1, <3>3 DEF NewChain
    <3> QED BY <3>2, <3>3
  <2> QED BY <2>1, <2>2
<1>21. OldOrphans(new, fat, saved, at)
  BY <1>8, <1>9, <1>19 DEF OldOrphans
<1>22. Whole(new, fat, full, Y) /\ Behind(new, fat, saved, at)
  BY <1>1, <1>2, <1>12, <1>14, <1>15, <1>16, <1>17, <1>18, <1>20, <1>21 DEF Whole, Behind
<1> QED BY <1>7, <1>8, <1>22 DEF new

\* A table that is on the disk.
LEMMA SavedTable ==
    ASSUME NEW disk, NEW fat, NEW full, NEW X, Whole(disk, fat, full, X), NEW T
    PROVE  Behind(disk, fat, fat, T)
<1>1. fat \in AnyTable /\ Shape(fat, HeadsOf(disk, fat) \cup X)
  BY DEF Whole
<1>2. OldOrphans(disk, fat, fat, T)
  BY HeadOf DEF OldOrphans, Starts
<1>3. OldChains(disk, fat, fat, T)
  BY DEF OldChains
<1> QED BY <1>1, <1>2, <1>3 DEF Behind, Shape, Links

\* What is not an entry need not be told apart.
LEMMA NoTarget ==
    ASSUME NEW disk, NEW fat, NEW saved, NEW T, Behind(disk, fat, saved, T),
           T \notin LiveOf(disk, fat), NEW S
    PROVE  Behind(disk, fat, saved, S)
BY DEF Behind, OldChains, OldOrphans

LEMMA WholeApart ==
    ASSUME NEW disk, NEW fat, NEW full, NEW X, Whole(disk, fat, full, X)
    PROVE  Apart(disk, fat)
<1> SUFFICES ASSUME NEW p \in LiveOf(disk, fat), NEW q \in LiveOf(disk, fat), p # q
             PROVE  On(fat, At(disk, p).first) \cap On(fat, At(disk, q).first) = {}
  BY DEF Apart
<1>1. CASE At(disk, p).first = Available \/ At(disk, q).first = Available
  BY <1>1, OnNothing, ClusterFacts DEF Available
<1>2. CASE At(disk, p).first # Available /\ At(disk, q).first # Available
  <2>1. At(disk, p).first # At(disk, q).first
    BY <1>2 DEF Whole, DistinctFirsts
  <2>2. Starts(fat, At(disk, p).first) /\ Starts(fat, At(disk, q).first)
    BY <1>2, HeadOf
  <2> QED BY <2>1, <2>2, OnApart
<1> QED BY <1>1, <1>2

\* What the table on the disk leads to, the cached one does.
LEMMA BehindLive ==
    ASSUME NEW disk, NEW fat, NEW full, NEW X, Whole(disk, fat, full, X),
           NEW saved, NEW T, Behind(disk, fat, saved, T)
    PROVE  /\ AreaOf(disk, saved) \subseteq AreaOf(disk, fat)
           /\ LiveOf(disk, saved) \subseteq LiveOf(disk, fat)
<1>1. disk \in AnyDisk /\ Dotted(disk, fat) /\ OldChains(disk, fat, saved, T)
  BY DEF Whole, Behind
<1>2. ASSUME NEW c \in AreaOf(disk, saved) PROVE c \in AreaOf(disk, fat)
  <2>1. CASE c = Root
    BY <2>1 DEF AreaOf
  <2>2. CASE c # Root
    <3>1. PICK p \in Places : RootDir(disk, p) /\ c \in On(saved, At(disk, p).first)
      BY <1>2, <2>2 DEF AreaOf
    <3>2. p \in LiveOf(disk, fat) /\ At(disk, p).first # Available /\ At(disk, p).dir
      BY <1>1, <3>1, RootDirLive DEF RootDir
    <3>3. c \in On(fat, At(disk, p).first)
      BY <1>1, <3>1, <3>2 DEF OldChains
    <3> QED BY <1>2, <3>1, <3>3 DEF AreaOf
  <2> QED BY <2>1, <2>2
<1> QED BY <1>2 DEF LiveOf

\* The chains are apart in the table on the disk too.
LEMMA BehindApart ==
    ASSUME NEW disk, NEW fat, NEW full, NEW X, Whole(disk, fat, full, X),
           NEW saved, NEW T, Behind(disk, fat, saved, T)
    PROVE  Apart(disk, saved)
<1>1. disk \in AnyDisk /\ Injective(saved)
      /\ OldChains(disk, fat, saved, T) /\ OldOrphans(disk, fat, saved, T)
  BY DEF Whole, Behind
<1>2. LiveOf(disk, saved) \subseteq LiveOf(disk, fat)
  BY BehindLive
<1>3. Apart(disk, fat)
  BY WholeApart
<1>4. ASSUME NEW p \in LiveOf(disk, fat), NEW q \in LiveOf(disk, fat), p # q, p # T
      PROVE  On(saved, At(disk, p).first) \cap On(saved, At(disk, q).first) = {}
  <2> DEFINE a == At(disk, p).first
             b == At(disk, q).first
             S == Clusters \ On(saved, a)
  <2>1. CASE a = Available \/ b = Available
    <3>1. On(saved, Available) = {}
      BY OnNothing, ClusterFacts DEF Available
    <3> QED BY <2>1, <3>1
  <2>2. CASE a # Available /\ b # Available
    <3>1. a \in Clusters /\ b \in Clusters
      BY <1>1, <2>2, LivePlace, FirstType
    <3>2. On(saved, a) \subseteq On(fat, a) /\ Orphan(saved, a)
      BY <1>1, <1>4, <2>2 DEF OldChains, OldOrphans
    <3>3. Starts(saved, a)
      BY <1>1, <3>1, <3>2 DEF Starts
    <3>4. b \notin On(saved, a)
      <4>1. b \in On(fat, b)
        BY <3>1, ChainFacts
      <4>2. On(fat, a) \cap On(fat, b) = {}
        BY <1>3, <1>4 DEF Apart
      <4> QED BY <3>2, <4>1, <4>2
    <3> HIDE DEF a, b
    <3>5. b \in S /\ \A c \in S : saved[c] \in Clusters => saved[c] \in S
      BY <3>1, <3>3, <3>4, OnBack
    <3> HIDE DEF S
    <3>6. On(saved, b) \subseteq S
      BY <3>1, <3>5, OnLeast
    <3>7. On(saved, a) \cap On(saved, b) = {}
      BY <3>6 DEF S
    <3> QED BY <3>7 DEF a, b
  <2> QED BY <2>1, <2>2
<1>5. ASSUME NEW p \in LiveOf(disk, fat), NEW q \in LiveOf(disk, fat), p # q
      PROVE  On(saved, At(disk, p).first) \cap On(saved, At(disk, q).first) = {}
  <2>1. CASE p # T
    BY <1>4, <1>5, <2>1
  <2>2. CASE q # T
    BY <1>4, <1>5, <2>2
  <2> QED BY <1>5, <2>1, <2>2
<1> QED BY <1>2, <1>5 DEF Apart

LEMMA WholeTidy ==
    ASSUME NEW disk, NEW fat, NEW full, NEW X, Whole(disk, fat, full, X)
    PROVE  Tidy(disk, fat)
<1>1. disk \in AnyDisk /\ Dotted(disk, fat) /\ Sufficient(disk, fat)
  BY DEF Whole
<1>2. ASSUME NEW p \in LiveOf(disk, fat), ~At(disk, p).dir, At(disk, p).first = Available
      PROVE  At(disk, p).size = 0
  <2>1. On(fat, Available) = {}
    BY OnNothing, ClusterFacts DEF Available
  <2>2. Cardinality(On(fat, At(disk, p).first)) = 0
    BY <1>2, <2>1, FS_EmptySet
  <2>3. Units * 0 >= At(disk, p).size
    BY <1>1, <1>2, <2>2 DEF Sufficient
  <2>4. At(disk, p).size \in Nat
    BY <1>1, LivePlace, AtType
  <2> QED BY <2>3, <2>4, Sizes
<1> QED BY <1>1, <1>2 DEF Tidy

LEMMA BehindTidy ==
    ASSUME NEW disk, NEW fat, NEW full, NEW X, Whole(disk, fat, full, X),
           NEW saved, NEW T, Behind(disk, fat, saved, T)
    PROVE  Tidy(disk, saved)
<1>1. /\ AreaOf(disk, saved) \subseteq AreaOf(disk, fat)
      /\ LiveOf(disk, saved) \subseteq LiveOf(disk, fat)
  BY BehindLive
<1>2. Tidy(disk, fat)
  BY WholeTidy
<1> QED BY <1>1, <1>2 DEF Tidy, Dotted

-----------------------------------------------------------------------------
(* Tables, again: the chain that an allocation makes.                      *)

LEMMA ShapeFewer ==
    ASSUME NEW fat, NEW H, NEW K, Shape(fat, H), K \subseteq H
    PROVE  Shape(fat, K)
BY DEF Shape

\* The first cluster of the chain.
LEMMA ChainStarted ==
    ASSUME NEW fat \in AnyTable, NEW H, Shape(fat, H), NEW c \in Clusters,
           fat[c] = Available, NEW g, Changed(fat, c, LAST, g)
    PROVE  /\ g \in AnyTable /\ Shape(g, H \cup {c}) /\ c \notin H
           /\ On(g, c) = {c} /\ g[c] = LAST
           /\ \A h \in H : On(g, h) = On(fat, h) /\ c \notin On(fat, h)
           /\ \A x \in Clusters : x # c => g[x] = fat[x]
           /\ Covered(fat, H) => Covered(g, H \cup {c})
<1>1. Links(fat) /\ H \subseteq Clusters
  BY DEF Shape
<1>2. /\ g \in AnyTable /\ Links(g) /\ Starts(g, c) /\ g[c] = LAST /\ On(g, c) = {c}
      /\ Keeps(fat, g, {}) /\ \A k : Chain(g, k) = Chain(fat, k) /\ On(g, k) = On(fat, k)
  BY <1>1, TakenShape
<1>3. c \notin H /\ \A h \in H : c \notin On(fat, h)
  BY OnUsed DEF Shape
<1>4. \A x \in Clusters : x # c => g[x] = fat[x]
  BY DEF AnyTable, Changed
<1>5. Shape(g, H \cup {c})
  <2>1. LAST # Available
    BY ClusterFacts DEF Available, Root
  <2>2. ASSUME NEW h \in H PROVE g[h] # Available /\ Orphan(g, h)
    <3>1. Starts(fat, h)
      BY ShapeHeads
    <3>2. Starts(g, h)
      BY <1>2, <3>1 DEF Keeps
    <3> QED BY <1>1, <1>3, <1>4, <3>2 DEF Starts, Shape
  <2> QED BY <1>1, <1>2, <2>1, <2>2 DEF Shape, Starts
<1>6. Covered(fat, H) => Covered(g, H \cup {c})
  BY <1>2, <1>4 DEF Covered
<1> QED BY <1>2, <1>3, <1>4, <1>5, <1>6

LEMMA OnFinite ==
    ASSUME NEW fat, NEW h
    PROVE  /\ On(fat, h) \subseteq Clusters /\ IsFiniteSet(On(fat, h))
           /\ Cardinality(On(fat, h)) \in Nat
<1>1. On(fat, h) \subseteq Clusters
  BY ChainFacts, OnNothing
<1> QED BY <1>1, ClusterCard, FS_Subset, FS_CardinalityType

LEMMA OneMore ==
    ASSUME NEW S, IsFiniteSet(S), NEW c, c \notin S
    PROVE  Cardinality(S \cup {c}) = Cardinality(S) + 1
BY FS_AddElement

\* A further cluster of it.
LEMMA ChainLonger ==
    ASSUME NEW fat \in AnyTable, NEW H, NEW first, Shape(fat, H \cup {first}), first \notin H,
           NEW last \in On(fat, first), fat[last] = LAST, NEW c \in Clusters,
           fat[c] = Available, NEW e, Changed(fat, last, c, e), NEW g, Changed(e, c, LAST, g)
    PROVE  /\ g \in AnyTable /\ Shape(g, H \cup {first})
           /\ On(g, first) = On(fat, first) \cup {c} /\ g[c] = LAST /\ c \in On(g, first)
           /\ Cardinality(On(g, first)) = Cardinality(On(fat, first)) + 1
           /\ \A h \in H : On(g, h) = On(fat, h) /\ c \notin On(fat, h)
           /\ \A x \in Clusters : x # c /\ x # last => g[x] = fat[x]
           /\ Covered(fat, H \cup {first}) => Covered(g, H \cup {first})
<1> DEFINE f == [fat EXCEPT ![c] = LAST]
           K == H \cup {first}
<1>1. K \subseteq Clusters /\ first \in Clusters /\ LAST \notin Clusters /\ LAST # Available
      /\ Available \notin Clusters
  BY ClusterFacts DEF Shape, Available, Root
<1>2. last \in Clusters /\ last # c
  BY <1>1, ChainFacts
<1>3. /\ f \in AnyTable /\ Shape(f, K \cup {c}) /\ c \notin K
      /\ On(f, c) = {c} /\ f[c] = LAST
      /\ \A h \in K : On(f, h) = On(fat, h) /\ c \notin On(fat, h)
      /\ \A x \in Clusters : x # c => f[x] = fat[x]
      /\ Covered(fat, K) => Covered(f, K \cup {c})
  <2>1. Changed(fat, c, LAST, f)
    BY DEF Changed
  <2> HIDE DEF f, K
  <2>2. Shape(fat, K)
    BY DEF K
  <2> QED BY <2>1, <2>2, ChainStarted
<1>4. Changed(f, last, c, g)
  <2>1. DOMAIN fat = Clusters
    BY DEF AnyTable
  <2> QED BY <1>2, <2>1 DEF Changed
<1> HIDE DEF f
<1>5. Starts(f, first) /\ Starts(f, c) /\ Links(f) /\ f[last] = LAST /\ f[c] # Available
      /\ last \in On(f, first) /\ first # c
  <2>1. Starts(f, first) /\ Starts(f, c)
    BY <1>3, ShapeHeads
  <2> QED BY <1>1, <1>2, <1>3, <2>1 DEF Shape
<1>6. /\ g \in AnyTable /\ Links(g) /\ Starts(g, first)
      /\ On(g, first) = On(f, first) \cup On(f, c)
      /\ Keeps(f, g, {first, c})
      /\ \A d \in Clusters : g[d] = Available => f[d] = Available
      /\ \A d \in Clusters : f[d] # Available => g[d] # Available
  <2>1. f \in AnyTable /\ f[last] \notin Clusters
    BY <1>1, <1>3, <1>5
  <2>2. Joins(f, first, c, g)
    BY <1>4, <1>5, <2>1, JoinedShape
  <2> QED BY <2>2 DEF Joins
<1>7. \A h \in H : Starts(g, h) /\ On(g, h) = On(fat, h)
  <2>1. ASSUME NEW h \in H PROVE Starts(g, h) /\ On(g, h) = On(fat, h)
    <3>1. Starts(f, h) /\ h # first /\ h # c
      BY <1>3, ShapeHeads
    <3> QED BY <1>3, <1>6, <3>1 DEF Keeps
  <2> QED BY <2>1
<1>8. Shape(g, K)
  BY <1>1, <1>3, <1>6, <1>7 DEF Shape, Starts
<1>9. \A x \in Clusters : x # c /\ x # last => g[x] = fat[x]
  BY <1>3, <1>4 DEF AnyTable, Changed
<1>10. g[c] = LAST
  BY <1>2, <1>3, <1>4 DEF AnyTable, Changed
<1>11. Covered(fat, K) => Covered(g, K)
  <2> SUFFICES ASSUME Covered(fat, K), NEW x \in Clusters, g[x] # Available
               PROVE  \E h \in K : x \in On(g, h)
    BY DEF Covered
  <2>1. f[x] # Available \/ x = last
    BY <1>3, <1>4, <1>6 DEF AnyTable, Changed
  <2>2. PICK h \in K \cup {c} : x \in On(f, h)
    BY <1>3, <1>5, <2>1 DEF Covered
  <2>3. CASE h \in {first, c}
    BY <1>6, <2>2, <2>3
  <2>4. CASE h \in H
    BY <1>3, <1>7, <2>2, <2>4
  <2> QED BY <2>3, <2>4
<1>12. Cardinality(On(g, first)) = Cardinality(On(fat, first)) + 1
  <2>1. c \notin On(fat, first) /\ On(g, first) = On(fat, first) \cup {c}
    BY <1>3, <1>6
  <2> QED BY <2>1, OnFinite, OneMore
<1> QED BY <1>3, <1>6, <1>7, <1>8, <1>9, <1>10, <1>11, <1>12

-----------------------------------------------------------------------------
(* Volumes.                                                                *)

\* A volume whose device has refused nothing.
Good(m, X, T) == Whole(m.disk, m.fat, m.full, X) /\ Behind(m.disk, m.fat, m.saved, T)

\* One that has: no two entries share a cluster, also when the next open goes back to
\* the table on the disk.
BothApart(m) ==
    /\ Apart(m.disk, m.fat) /\ Apart(m.disk, m.saved)
    /\ Tidy(m.disk, m.fat) /\ Tidy(m.disk, m.saved)

\* After a routine: the volume is whole, or the device has refused a write and the
\* chains are apart.
Fine(m, X, T) ==
    /\ Sane(m)
    /\ m.refused => BothApart(m) /\ m.writes = 0
    /\ ~m.refused => Good(m, X, T)

\* The directories of the root stay where they are, and their clusters theirs.
Directory(m, n, p) ==
    RootDir(m.disk, p) => RootDir(n.disk, p) /\ At(n.disk, p).first = At(m.disk, p).first

Dirs(m, n) ==
    /\ AreaOf(m.disk, m.fat) \subseteq AreaOf(n.disk, n.fat)
    /\ \A p \in Places : Directory(m, n, p)

\* What a routine has not to do with.
SameFiles(m, n) == n.file = m.file /\ n.mcb = m.mcb

SameTable(m, n) == n.fat = m.fat /\ n.saved = m.saved /\ n.full = m.full

LEMMA GoodApart ==
    ASSUME NEW m, NEW X, NEW T, Good(m, X, T)
    PROVE  BothApart(m)
BY WholeApart, BehindApart, WholeTidy, BehindTidy DEF Good, BothApart

\* The device takes the write, or refuses it and every later one.
LEMMA WriteIs ==
    ASSUME NEW m, NEW X, NEW T, Fine(m, X, T), Ok(m), NEW at, NEW unit \in AnyUnit
    PROVE  LET n == Write(m, at, unit)
           IN  /\ Follows(m, n) /\ Sane(n) /\ SameFiles(m, n) /\ SameTable(m, n)
               /\ \/ n.refused /\ ~Ok(n) /\ n.disk = m.disk /\ n.writes = 0
                     /\ BothApart(n)
                  \/ ~m.refused /\ ~n.refused /\ Ok(n)
                     /\ n.disk = Put(m.disk, at, unit)
<1> DEFINE n == Write(m, at, unit)
<1>1. m \in AnyVolume /\ m.disk \in AnyDisk /\ Sane(m)
  BY FieldTypes DEF Sane, Fine
<1>2. n = IF m.writes = 0 THEN [m EXCEPT !.status = "EACCES", !.refused = TRUE]
          ELSE [m EXCEPT !.disk = Put(m.disk, at, unit), !.writes = m.writes - 1]
  BY <1>1 DEF Write, AnyVolume, Put
<1>3. Follows(m, n) /\ n.fat = m.fat /\ SameFiles(m, n)
  BY <1>1, WriteDisk DEF SameFiles
<1>4. BothApart(m)
  BY GoodApart DEF Fine
<1>5. CASE m.writes = 0
  <2>1. /\ n.refused /\ ~Ok(n) /\ n.disk = m.disk /\ n.saved = m.saved /\ n.full = m.full
        /\ n.writes = 0
    BY <1>1, <1>2, <1>5 DEF AnyVolume, Ok
  <2> HIDE DEF n
  <2>2. BothApart(n)
    BY <1>3, <1>4, <2>1 DEF BothApart
  <2> QED BY <1>3, <2>1, <2>2, FollowsSane DEF SameTable, n
<1>6. CASE m.writes # 0
  <2>1. ~m.refused
    BY <1>6 DEF Fine
  <2>2. /\ ~n.refused /\ Ok(n) /\ n.disk = Put(m.disk, at, unit)
        /\ n.saved = m.saved /\ n.full = m.full
    BY <1>1, <1>2, <1>6, <2>1 DEF AnyVolume, Ok
  <2> HIDE DEF n
  <2> QED BY <1>3, <2>1, <2>2, FollowsSane DEF SameTable, n
<1> QED BY <1>5, <1>6

LEMMA QuietFine ==
    ASSUME NEW m, NEW X, NEW T, Fine(m, X, T), Ok(m), NEW at \in Places,
           NEW unit \in AnyUnit, ~m.refused => Quiet(m.disk, m.fat, at, unit)
    PROVE  LET n == Write(m, at, unit)
           IN  /\ Fine(n, X, T) /\ SameFiles(m, n) /\ SameTable(m, n)
               /\ n.refused <=> ~Ok(n)
               /\ Ok(n) =>
                     /\ ~m.refused /\ Dirs(m, n) /\ At(n.disk, at) = unit
                     /\ LiveOf(n.disk, n.fat) = LiveOf(m.disk, m.fat)
                     /\ AreaOf(n.disk, n.fat) = AreaOf(m.disk, m.fat)
                     /\ \A p \in LiveOf(m.disk, m.fat) : At(n.disk, p) = At(m.disk, p)
                     /\ \A p \in Places : p # at => At(n.disk, p) = At(m.disk, p)
<1> DEFINE n == Write(m, at, unit)
           disk == Put(m.disk, at, unit)
<1>1. m \in AnyVolume /\ m.disk \in AnyDisk /\ Sane(m)
  BY FieldTypes DEF Sane, Fine
<1>2. /\ Follows(m, n) /\ Sane(n) /\ SameFiles(m, n) /\ SameTable(m, n)
      /\ \/ n.refused /\ ~Ok(n) /\ n.disk = m.disk /\ n.writes = 0 /\ BothApart(n)
         \/ ~m.refused /\ ~n.refused /\ Ok(n) /\ n.disk = disk
  BY WriteIs
<1> HIDE DEF n
<1>3. CASE n.refused /\ ~Ok(n) /\ n.disk = m.disk /\ n.writes = 0 /\ BothApart(n)
  BY <1>2, <1>3 DEF Fine, n
<1>4. CASE ~m.refused /\ ~n.refused /\ Ok(n) /\ n.disk = disk
  <2>1. Good(m, X, T) /\ Quiet(m.disk, m.fat, at, unit)
    BY <1>4 DEF Fine
  <2>2. /\ Whole(disk, m.fat, m.full, X) /\ Behind(disk, m.fat, m.saved, T)
        /\ LiveOf(disk, m.fat) = LiveOf(m.disk, m.fat)
        /\ AreaOf(disk, m.fat) = AreaOf(m.disk, m.fat)
        /\ \A p \in LiveOf(m.disk, m.fat) : At(disk, p) = At(m.disk, p)
    BY <2>1, QuietWrite DEF Good
  <2>3. At(disk, at) = unit /\ \A p \in Places : p # at => At(disk, p) = At(m.disk, p)
    BY <1>1, PutAtPlace
  <2> HIDE DEF disk
  <2>4. Fine(n, X, T)
    BY <1>2, <1>4, <2>2 DEF Fine, Good, SameTable
  <2>5. \A p \in Places : Directory(m, n, p)
    <3> SUFFICES ASSUME NEW p \in Places, RootDir(m.disk, p)
                 PROVE  RootDir(n.disk, p) /\ At(n.disk, p).first = At(m.disk, p).first
      BY DEF Directory
    <3>1. p # at
      BY <2>1 DEF RootDir, Quiet
    <3> QED BY <1>4, <2>3, <3>1 DEF RootDir
  <2>6. Dirs(m, n)
    BY <1>2, <1>4, <2>2, <2>5 DEF Dirs, SameTable
  <2> QED BY <1>2, <1>4, <2>2, <2>3, <2>4, <2>6 DEF SameTable, n
<1> QED BY <1>2, <1>3, <1>4

LEMMA EntryFine ==
    ASSUME NEW m, NEW X, NEW at, Fine(m, X, at), Ok(m), NEW v \in AnyUnit, NEW Y,
           ~m.refused => at \in Places /\ Rewrites(m.disk, m.fat, m.saved, X, Y, at, v)
    PROVE  LET n == Write(m, at, v)
           IN  /\ Fine(n, Y, at) /\ SameFiles(m, n) /\ SameTable(m, n)
               /\ n.refused <=> ~Ok(n)
               /\ Ok(n) =>
                     /\ ~m.refused /\ Dirs(m, n) /\ At(n.disk, at) = v
                     /\ LiveOf(n.disk, n.fat) = (LiveOf(m.disk, m.fat) \ {at})
                           \cup (IF Entry(v) THEN {at} ELSE {})
                     /\ \A p \in Places : p # at => At(n.disk, p) = At(m.disk, p)
<1> DEFINE n == Write(m, at, v)
           disk == Put(m.disk, at, v)
<1>1. m \in AnyVolume /\ m.disk \in AnyDisk /\ Sane(m)
  BY FieldTypes DEF Sane, Fine
<1>2. /\ Follows(m, n) /\ Sane(n) /\ SameFiles(m, n) /\ SameTable(m, n)
      /\ \/ n.refused /\ ~Ok(n) /\ n.disk = m.disk /\ n.writes = 0 /\ BothApart(n)
         \/ ~m.refused /\ ~n.refused /\ Ok(n) /\ n.disk = disk
  BY WriteIs
<1> HIDE DEF n
<1>3. CASE n.refused /\ ~Ok(n) /\ n.disk = m.disk /\ n.writes = 0 /\ BothApart(n)
  BY <1>2, <1>3 DEF Fine, n
<1>4. CASE ~m.refused /\ ~n.refused /\ Ok(n) /\ n.disk = disk
  <2>1. Good(m, X, at) /\ at \in Places /\ Rewrites(m.disk, m.fat, m.saved, X, Y, at, v)
    BY <1>4 DEF Fine
  <2>2. /\ Whole(disk, m.fat, m.full, Y) /\ Behind(disk, m.fat, m.saved, at)
        /\ LiveOf(disk, m.fat) =
              (LiveOf(m.disk, m.fat) \ {at}) \cup (IF Entry(v) THEN {at} ELSE {})
        /\ AreaOf(m.disk, m.fat) \subseteq AreaOf(disk, m.fat)
    BY <2>1, EntryWrite DEF Good
  <2>3. At(disk, at) = v /\ \A p \in Places : p # at => At(disk, p) = At(m.disk, p)
    BY <1>1, <2>1, PutAtPlace
  <2> HIDE DEF disk
  <2>4. Fine(n, Y, at)
    BY <1>2, <1>4, <2>2 DEF Fine, Good, SameTable
  <2>5. \A p \in Places : Directory(m, n, p)
    <3> SUFFICES ASSUME NEW p \in Places, RootDir(m.disk, p)
                 PROVE  RootDir(n.disk, p) /\ At(n.disk, p).first = At(m.disk, p).first
      BY DEF Directory
    <3>1. CASE p # at
      BY <1>4, <2>3, <3>1 DEF RootDir
    <3>2. CASE p = at
      <4>1. Entry(v) /\ v.dir /\ v.first = At(m.disk, at).first
        BY <2>1, <3>2 DEF RootDir, Rewrites, Entry, Available, Root
      <4> QED BY <1>4, <2>3, <3>2, <4>1 DEF RootDir, Entry
    <3> QED BY <3>1, <3>2
  <2>6. Dirs(m, n)
    BY <1>2, <1>4, <2>2, <2>5 DEF Dirs, SameTable
  <2> QED BY <1>2, <1>4, <2>2, <2>3, <2>4, <2>6 DEF SameTable, n
<1> QED BY <1>2, <1>3, <1>4

\* What a routine that works on file f may do to the rest.
Frame(m, n, f) ==
    /\ \A g \in FileIds : g # f => n.file[g] = m.file[g]
    /\ n.mcb = m.mcb \/ n.mcb.owner \in {f, ""}

Later(m, n, f) == ~n.refused => ~m.refused /\ Dirs(m, n) /\ Frame(m, n, f)

LEMMA DirsTransitive ==
    ASSUME NEW m, NEW n, NEW o, Dirs(m, n), Dirs(n, o)
    PROVE  Dirs(m, o)
BY DEF Dirs, Directory

LEMMA DirsReflexive ==
    ASSUME NEW m
    PROVE  Dirs(m, m)
BY DEF Dirs, Directory

LEMMA LaterReflexive ==
    ASSUME NEW m, NEW f
    PROVE  Later(m, m, f)
BY DirsReflexive DEF Later, Frame

LEMMA LaterTransitive ==
    ASSUME NEW m, NEW n, NEW o, NEW f, Later(m, n, f), Later(n, o, f)
    PROVE  Later(m, o, f)
<1> SUFFICES ASSUME ~o.refused
             PROVE  ~m.refused /\ Dirs(m, o) /\ Frame(m, o, f)
  BY DEF Later
<1>1. ~n.refused /\ ~m.refused /\ Dirs(m, n) /\ Dirs(n, o)
  BY DEF Later
<1>2. Frame(m, n, f) /\ Frame(n, o, f)
  BY DEF Later
<1>3. Frame(m, o, f)
  BY <1>2 DEF Frame
<1> QED BY <1>1, <1>3, DirsTransitive

\* A write of the disk touches no file.
LEMMA WriteLater ==
    ASSUME NEW m, NEW n, SameFiles(m, n), ~n.refused => ~m.refused /\ Dirs(m, n), NEW f
    PROVE  Later(m, n, f)
BY DEF SameFiles, Later, Frame

-----------------------------------------------------------------------------
(* The writes of a new cluster.                                            *)

\* What n is after the first k units of cluster c were written.
BlankedTo(m, X, T, c, k, n) ==
    /\ Fine(n, X, T) /\ SameFiles(m, n) /\ SameTable(m, n)
    /\ m.refused => n.refused
    /\ k = 0 => Ok(n)
    /\ k # 0 => (n.refused <=> ~Ok(n))
    /\ Ok(n) =>
          /\ Dirs(m, n) /\ LiveOf(n.disk, n.fat) = LiveOf(m.disk, m.fat)
          /\ AreaOf(n.disk, n.fat) = AreaOf(m.disk, m.fat)
          /\ \A p \in Places : p[1] # c => At(n.disk, p) = At(m.disk, p)
          /\ \A u \in 1 .. k : At(n.disk, <<c, u>>) = Blank

LEMMA BlankedMore ==
    ASSUME NEW m, NEW X, NEW T, NEW c \in Clusters,
           ~m.refused => c \notin AreaOf(m.disk, m.fat), NEW k \in 1 .. Units, NEW n,
           BlankedTo(m, X, T, c, k - 1, n)
    PROVE  BlankedTo(m, X, T, c, k, Write(n, <<c, k>>, Blank))
<1> DEFINE at == <<c, k>>
           o == Write(n, at, Blank)
<1>1. /\ Fine(n, X, T) /\ SameFiles(m, n) /\ SameTable(m, n)
      /\ m.refused => n.refused
      /\ k - 1 = 0 => Ok(n)
      /\ k - 1 # 0 => (n.refused <=> ~Ok(n))
      /\ Ok(n) =>
            /\ Dirs(m, n) /\ LiveOf(n.disk, n.fat) = LiveOf(m.disk, m.fat)
            /\ AreaOf(n.disk, n.fat) = AreaOf(m.disk, m.fat)
            /\ \A p \in Places : p[1] # c => At(n.disk, p) = At(m.disk, p)
            /\ \A u \in 1 .. k - 1 : At(n.disk, <<c, u>>) = Blank
  BY DEF BlankedTo
<1>2. at \in Places /\ at[1] = c /\ c # Root /\ k # 0 /\ k \in Nat
  BY Sizes, PlaceOf, ClusterFacts
<1>3. CASE ~Ok(n)
  <2>1. k - 1 # 0 /\ n.refused
    BY <1>1, <1>3
  <2>2. o = n
    BY <1>3 DEF Write
  <2> HIDE DEF o
  <2> QED BY <1>1, <1>2, <1>3, <2>1, <2>2 DEF BlankedTo, o
<1>4. CASE Ok(n)
  <2>1. ~n.refused => Quiet(n.disk, n.fat, at, Blank)
    BY <1>1, <1>2, <1>4 DEF Quiet
  <2>2. /\ Fine(o, X, T) /\ SameFiles(n, o) /\ SameTable(n, o)
        /\ o.refused <=> ~Ok(o)
        /\ Ok(o) =>
              /\ ~n.refused /\ Dirs(n, o) /\ At(o.disk, at) = Blank
              /\ LiveOf(o.disk, o.fat) = LiveOf(n.disk, n.fat)
              /\ AreaOf(o.disk, o.fat) = AreaOf(n.disk, n.fat)
              /\ \A p \in Places : p # at => At(o.disk, p) = At(n.disk, p)
    BY <1>1, <1>2, <1>4, <2>1, BlankType, QuietFine
  <2> HIDE DEF o
  <2>3. SameFiles(m, o) /\ SameTable(m, o)
    BY <1>1, <2>2 DEF SameFiles, SameTable
  <2>4. ASSUME Ok(o)
        PROVE  /\ Dirs(m, o) /\ LiveOf(o.disk, o.fat) = LiveOf(m.disk, m.fat)
               /\ AreaOf(o.disk, o.fat) = AreaOf(m.disk, m.fat)
               /\ \A p \in Places : p[1] # c => At(o.disk, p) = At(m.disk, p)
               /\ \A u \in 1 .. k : At(o.disk, <<c, u>>) = Blank
    <3>1. Dirs(m, o)
      BY <1>1, <1>4, <2>2, <2>4, DirsTransitive
    <3>2. \A p \in Places : p[1] # c => At(o.disk, p) = At(m.disk, p)
      BY <1>1, <1>4, <2>2, <2>4
    <3>3. ASSUME NEW u \in 1 .. k PROVE At(o.disk, <<c, u>>) = Blank
      <4>1. CASE u = k
        BY <2>2, <2>4, <4>1
      <4>2. CASE u # k
        <5>1. u \in 1 .. k - 1 /\ u \in 1 .. Size(c)
          BY <1>2, <4>2, Sizes
        <5>2. <<c, u>> \in Places /\ <<c, u>> # at
          BY <4>2, <5>1, PlaceOf
        <5> QED BY <1>1, <1>4, <2>2, <2>4, <5>1, <5>2
      <4> QED BY <4>1, <4>2
    <3> QED BY <1>1, <1>4, <2>2, <2>4, <3>1, <3>2, <3>3
  <2>5. m.refused => o.refused
    BY <1>1, <2>2
  <2> QED BY <1>2, <2>2, <2>3, <2>4, <2>5 DEF BlankedTo, o
<1> QED BY <1>3, <1>4

LEMMA BlankedFine ==
    ASSUME NEW m, NEW X, NEW T, Fine(m, X, T), Ok(m), NEW c \in Clusters,
           ~m.refused => c \notin AreaOf(m.disk, m.fat)
    PROVE  LET n == Blanked(m, c)
           IN  /\ Fine(n, X, T) /\ SameFiles(m, n) /\ SameTable(m, n)
               /\ m.refused => n.refused
               /\ n.refused <=> ~Ok(n)
               /\ Ok(n) =>
                     /\ Dirs(m, n) /\ LiveOf(n.disk, n.fat) = LiveOf(m.disk, m.fat)
                     /\ AreaOf(n.disk, n.fat) = AreaOf(m.disk, m.fat)
                     /\ \A p \in Places : p[1] # c => At(n.disk, p) = At(m.disk, p)
                     /\ BlankIn(n.disk, {c})
<1>1. Sane(m)
  BY DEF Fine
<1>2. PICK h : BlankTurns(m, c, h) /\ Blanked(m, c) = h[Units]
  BY <1>1, BlankedTurns
<1> DEFINE B == {k \in 0 .. Units : BlankedTo(m, X, T, c, k, h[k])}
<1>3. 0 \in B
  <2>1. BlankedTo(m, X, T, c, 0, m)
    BY DirsReflexive DEF BlankedTo, SameFiles, SameTable
  <2> QED BY <1>2, <2>1, Sizes DEF BlankTurns
<1>4. \A k \in 1 .. Units : k - 1 \in B => k \in B
  <2> SUFFICES ASSUME NEW k \in 1 .. Units, BlankedTo(m, X, T, c, k - 1, h[k - 1])
               PROVE  BlankedTo(m, X, T, c, k, h[k])
    BY Sizes
  <2>1. BlankedTo(m, X, T, c, k, Write(h[k - 1], <<c, k>>, Blank))
    BY BlankedMore
  <2> QED BY <1>2, <2>1 DEF BlankTurns
<1>5. Units \in B
  <2> HIDE DEF B
  <2> QED BY <1>3, <1>4, Sizes, UpTo
<1>6. BlankedTo(m, X, T, c, Units, h[Units])
  BY <1>5
<1> DEFINE n == Blanked(m, c)
<1> HIDE DEF n
<1>7. BlankedTo(m, X, T, c, Units, n)
  BY <1>2, <1>6 DEF n
<1>8. Ok(n) => BlankIn(n.disk, {c})
  <2> SUFFICES ASSUME Ok(n), NEW p \in Places, p[1] = c PROVE At(n.disk, p) = Blank
    BY DEF BlankIn
  <2>1. p = <<c, p[2]>> /\ p[2] \in 1 .. Units
    BY PlaceFacts, Sizes
  <2> QED BY <1>7, <2>1 DEF BlankedTo
<1>9. Units # 0
  BY Sizes
<1> QED BY <1>7, <1>8, <1>9 DEF BlankedTo, n

-----------------------------------------------------------------------------
(* Allocation of a whole volume.                                           *)

\* n has another table than m, and nothing else.
SameDisk(m, n) ==
    /\ n.disk = m.disk /\ n.saved = m.saved /\ n.full = m.full
    /\ n.refused = m.refused /\ n.writes = m.writes /\ n.status = m.status

LEMMA SetIs ==
    ASSUME NEW m, Sane(m), Ok(m), NEW i, NEW value \in Firsts \cup {LAST}
    PROVE  LET n == SetFatEntry(m, i, value)
           IN  /\ Sane(n) /\ SameFiles(m, n) /\ SameDisk(m, n)
               /\ Changed(m.fat, i, value, n.fat)
<1> DEFINE fat == [m.fat EXCEPT ![i] = value]
           n == [m EXCEPT !.fat = fat, !.dirty = TRUE]
<1>1. SetFatEntry(m, i, value) = n
  BY DEF SetFatEntry, Sane, AnyVolume
<1> HIDE DEF fat
<1>2. n.fat = fat /\ SameFiles(m, n) /\ SameDisk(m, n)
  BY DEF SameFiles, SameDisk, Sane, AnyVolume
<1> HIDE DEF n
<1>3. Sane(n)
  BY <1>1, SetEntry, FollowsSane
<1> QED BY <1>1, <1>2, <1>3 DEF Changed, fat

\* A change of the table that leads no other way leaves the chains apart.
LEMMA AlikeApart ==
    ASSUME NEW disk, NEW fat, NEW g, \A c \in Clusters : Alike(fat, g, c),
           Apart(disk, fat), Tidy(disk, fat)
    PROVE  Apart(disk, g) /\ Tidy(disk, g)
<1>1. \A h : On(g, h) = On(fat, h)
  <2> SUFFICES ASSUME NEW h PROVE On(g, h) = On(fat, h)
    OBVIOUS
  <2>1. On(fat, h) \subseteq Clusters
    BY OnFinite
  <2> QED BY <2>1, ChainSame
<1>2. AreaOf(disk, g) = AreaOf(disk, fat) /\ LiveOf(disk, g) = LiveOf(disk, fat)
  BY <1>1 DEF LiveOf, AreaOf
<1> QED BY <1>1, <1>2 DEF Apart, Tidy, Dotted

\* What is free is in no directory.
LEMMA FreeOutside ==
    ASSUME NEW disk, NEW fat, NEW full, NEW X, Whole(disk, fat, full, X), NEW c \in Clusters,
           fat[c] = Available
    PROVE  c \notin AreaOf(disk, fat)
<1> SUFFICES ASSUME c \in AreaOf(disk, fat) PROVE FALSE
  OBVIOUS
<1>1. Dotted(disk, fat) /\ Shape(fat, HeadsOf(disk, fat) \cup X) /\ c # Root
  BY ClusterFacts DEF Whole
<1>2. PICK p \in LiveOf(disk, fat) :
         At(disk, p).first # Available /\ c \in On(fat, At(disk, p).first)
  BY <1>1, AreaLive
<1>3. At(disk, p).first \in HeadsOf(disk, fat) \cup X
  BY <1>2, HeadOf
<1> QED BY <1>1, <1>2, <1>3, OnUsed

\* The first cluster taken.
LEMMA StartFine ==
    ASSUME NEW m, NEW T, Fine(m, {}, T), Ok(m), NEW c \in Clusters, m.fat[c] = Available
    PROVE  LET n == SetFatEntry(m, c, LAST)
           IN  /\ Fine(n, {c}, T) /\ SameFiles(m, n) /\ SameDisk(m, n)
               /\ ~m.refused =>
                     /\ c \notin AreaOf(n.disk, n.fat)
                     /\ On(n.fat, c) = {c} /\ n.fat[c] = LAST
                     /\ LiveOf(n.disk, n.fat) = LiveOf(m.disk, m.fat)
                     /\ AreaOf(m.disk, m.fat) \subseteq AreaOf(n.disk, n.fat)
                     /\ \A x \in Clusters : x # c => n.fat[x] = m.fat[x]
<1> DEFINE n == SetFatEntry(m, c, LAST)
           H == HeadsOf(m.disk, m.fat)
<1> HIDE DEF n, H
<1>1. Sane(m) /\ m.fat \in AnyTable /\ m.saved \in AnyTable
  BY FieldTypes DEF Sane, Fine
<1>2. Sane(n) /\ SameFiles(m, n) /\ SameDisk(m, n) /\ Changed(m.fat, c, LAST, n.fat)
  BY <1>1, SetIs DEF n
<1>3. CASE m.refused
  <2>1. \A x \in Clusters : Alike(m.fat, n.fat, x)
    <3>1. \A x \in Clusters : n.fat[x] = m.fat[x] \/ (x = c /\ n.fat[x] = LAST)
      BY <1>1, <1>2 DEF AnyTable, Changed
    <3> QED BY <3>1, ClusterFacts DEF Alike, Available, Root
  <2>2. BothApart(n)
    BY <1>2, <1>3, <2>1, AlikeApart DEF Fine, BothApart, SameDisk
  <2> QED BY <1>2, <1>3, <2>2 DEF Fine, SameDisk, n
<1>4. CASE ~m.refused
  <2>1. Whole(m.disk, m.fat, m.full, {}) /\ Behind(m.disk, m.fat, m.saved, T)
    BY <1>4 DEF Fine, Good
  <2>2. Shape(m.fat, H) /\ (m.full \/ Covered(m.fat, H))
    BY <2>1 DEF Whole, H
  <2>3. /\ n.fat \in AnyTable /\ Shape(n.fat, H \cup {c}) /\ c \notin H
        /\ On(n.fat, c) = {c} /\ n.fat[c] = LAST
        /\ \A h \in H : On(n.fat, h) = On(m.fat, h) /\ c \notin On(m.fat, h)
        /\ \A x \in Clusters : x # c => n.fat[x] = m.fat[x]
        /\ Covered(m.fat, H) => Covered(n.fat, H \cup {c})
    BY <1>1, <1>2, <2>2, ChainStarted
  <2>4. Grows(m.disk, m.fat, n.fat, {}) /\ BlankIn(m.disk, {})
    BY <2>3 DEF Grows, BlankIn, H
  <2>5. /\ Whole(m.disk, n.fat, m.full, {c}) /\ Behind(m.disk, n.fat, m.saved, T)
        /\ LiveOf(m.disk, n.fat) = LiveOf(m.disk, m.fat)
        /\ HeadsOf(m.disk, n.fat) = HeadsOf(m.disk, m.fat)
        /\ AreaOf(m.disk, m.fat) \subseteq AreaOf(m.disk, n.fat)
    BY <2>1, <2>2, <2>3, <2>4, TableGrows DEF H
  <2>6. c \notin AreaOf(m.disk, n.fat)
    <3> SUFFICES ASSUME c \in AreaOf(m.disk, n.fat) PROVE FALSE
      OBVIOUS
    <3>1. Dotted(m.disk, n.fat) /\ c # Root
      BY <2>5, ClusterFacts DEF Whole
    <3>2. PICK p \in LiveOf(m.disk, n.fat) :
             At(m.disk, p).first # Available /\ c \in On(n.fat, At(m.disk, p).first)
      BY <3>1, AreaLive
    <3>3. At(m.disk, p).first \in H
      BY <2>5, <3>2, HeadOf DEF H
    <3> QED BY <2>3, <3>2, <3>3
  <2>7. Fine(n, {c}, T)
    BY <1>2, <1>4, <2>5 DEF Fine, Good, SameDisk
  <2>8. /\ c \notin AreaOf(n.disk, n.fat)
        /\ LiveOf(n.disk, n.fat) = LiveOf(m.disk, m.fat)
        /\ AreaOf(m.disk, m.fat) \subseteq AreaOf(n.disk, n.fat)
    BY <1>2, <2>5, <2>6 DEF SameDisk
  <2> QED BY <1>2, <2>3, <2>7, <2>8 DEF n
<1> QED BY <1>3, <1>4

\* A further one.
LEMMA LongerFine ==
    ASSUME NEW m, NEW first, NEW T, Fine(m, {first}, T), Ok(m), ~m.refused,
           NEW last \in On(m.fat, first), m.fat[last] = LAST, last # 0,
           NEW c \in Clusters, m.fat[c] = Available
    PROVE  LET n == Linked(m, last, c)
           IN  /\ Fine(n, {first}, T) /\ SameFiles(m, n) /\ SameDisk(m, n)
               /\ c \notin AreaOf(n.disk, n.fat)
               /\ On(n.fat, first) = On(m.fat, first) \cup {c} /\ n.fat[c] = LAST
               /\ Cardinality(On(n.fat, first)) = Cardinality(On(m.fat, first)) + 1
               /\ LiveOf(n.disk, n.fat) = LiveOf(m.disk, m.fat)
               /\ AreaOf(m.disk, m.fat) \subseteq AreaOf(n.disk, n.fat)
               /\ \A x \in Clusters : x # c /\ x # last => n.fat[x] = m.fat[x]
<1> DEFINE e == SetFatEntry(m, last, c)
           n == SetFatEntry(e, c, LAST)
           H == HeadsOf(m.disk, m.fat)
<1> HIDE DEF e, n, H
<1>1. Sane(m) /\ m.fat \in AnyTable
  BY FieldTypes DEF Sane, Fine
<1>2. Sane(e) /\ SameFiles(m, e) /\ SameDisk(m, e) /\ Changed(m.fat, last, c, e.fat)
  BY <1>1, SetIs DEF e, Firsts
<1>3. Ok(e)
  BY <1>2 DEF SameDisk, Ok
<1>4. Sane(n) /\ SameFiles(e, n) /\ SameDisk(e, n) /\ Changed(e.fat, c, LAST, n.fat)
  BY <1>2, <1>3, SetIs DEF n
<1>5. SameFiles(m, n) /\ SameDisk(m, n)
  BY <1>2, <1>4 DEF SameFiles, SameDisk
<1>6. Linked(m, last, c) = n
  BY DEF Linked, n, e
<1>7. Whole(m.disk, m.fat, m.full, {first}) /\ Behind(m.disk, m.fat, m.saved, T)
  BY DEF Fine, Good
<1>8. Shape(m.fat, H \cup {first}) /\ first \notin H
      /\ (m.full \/ Covered(m.fat, H \cup {first}))
  BY <1>7 DEF Whole, H
<1>9. /\ n.fat \in AnyTable /\ Shape(n.fat, H \cup {first})
      /\ On(n.fat, first) = On(m.fat, first) \cup {c} /\ n.fat[c] = LAST
      /\ Cardinality(On(n.fat, first)) = Cardinality(On(m.fat, first)) + 1
      /\ \A h \in H : On(n.fat, h) = On(m.fat, h) /\ c \notin On(m.fat, h)
      /\ \A x \in Clusters : x # c /\ x # last => n.fat[x] = m.fat[x]
      /\ Covered(m.fat, H \cup {first}) => Covered(n.fat, H \cup {first})
  BY <1>1, <1>2, <1>4, <1>8, ChainLonger
<1>10. Grows(m.disk, m.fat, n.fat, {}) /\ BlankIn(m.disk, {})
  BY <1>9 DEF Grows, BlankIn, H
<1>11. /\ Whole(m.disk, n.fat, m.full, {first}) /\ Behind(m.disk, n.fat, m.saved, T)
       /\ LiveOf(m.disk, n.fat) = LiveOf(m.disk, m.fat)
       /\ HeadsOf(m.disk, n.fat) = HeadsOf(m.disk, m.fat)
       /\ AreaOf(m.disk, m.fat) \subseteq AreaOf(m.disk, n.fat)
  BY <1>7, <1>8, <1>9, <1>10, TableGrows DEF H
<1>12. c \notin AreaOf(m.disk, n.fat)
  <2> SUFFICES ASSUME c \in AreaOf(m.disk, n.fat) PROVE FALSE
    OBVIOUS
  <2>1. Dotted(m.disk, n.fat) /\ c # Root
    BY <1>11, ClusterFacts DEF Whole
  <2>2. PICK p \in LiveOf(m.disk, n.fat) :
           At(m.disk, p).first # Available /\ c \in On(n.fat, At(m.disk, p).first)
    BY <2>1, AreaLive
  <2>3. At(m.disk, p).first \in H
    BY <1>11, <2>2, HeadOf DEF H
  <2> QED BY <1>9, <2>2, <2>3
<1>13. Fine(n, {first}, T)
  BY <1>4, <1>5, <1>11 DEF Fine, Good, SameDisk
<1>14. /\ c \notin AreaOf(n.disk, n.fat)
       /\ LiveOf(n.disk, n.fat) = LiveOf(m.disk, m.fat)
       /\ AreaOf(m.disk, m.fat) \subseteq AreaOf(n.disk, n.fat)
  BY <1>5, <1>11, <1>12 DEF SameDisk
<1> QED BY <1>5, <1>6, <1>9, <1>13, <1>14

\* Only the table changed, and no chain of a directory became shorter.
LEMMA TableDirs ==
    ASSUME NEW m, NEW n, n.disk = m.disk,
           AreaOf(m.disk, m.fat) \subseteq AreaOf(n.disk, n.fat)
    PROVE  Dirs(m, n)
BY DEF Dirs, Directory

\* A chain of k clusters that n has and m has not: they are blank, and nothing else of
\* the volume changed.
Found(m, n, first, k) ==
    /\ first \in Clusters /\ ~n.refused /\ ~m.refused
    /\ \A c \in On(n.fat, first) : m.fat[c] = Available
    /\ Cardinality(On(n.fat, first)) = k
    /\ BlankIn(n.disk, On(n.fat, first))
    /\ \A x \in Clusters : m.fat[x] # Available => n.fat[x] = m.fat[x]
    /\ n.saved = m.saved /\ n.full = m.full /\ Dirs(m, n)
    /\ LiveOf(n.disk, n.fat) = LiveOf(m.disk, m.fat)
    /\ \A p \in Places : p[1] \notin On(n.fat, first) => At(n.disk, p) = At(m.disk, p)

\* The state of the loop of an allocation that started with m.
Allocated(m, T, a, count) ==
    /\ a.taken \in Nat /\ SameFiles(m, a.m) /\ (m.refused => a.m.refused)
    /\ a.taken = 0 => a.m = m /\ a.previous = 0 /\ a.first = 0
    /\ Fine(a.m, IF a.taken = 0 THEN {} ELSE {a.first}, T)
    /\ a.taken # 0 => (a.m.refused <=> ~Ok(a.m))
    /\ Ok(a.m) /\ a.taken # 0 =>
          /\ Found(m, a.m, a.first, a.taken)
          /\ a.previous \in On(a.m.fat, a.first) /\ a.m.fat[a.previous] = LAST
    /\ a.done => a.taken >= count

LEMMA FirstTaken ==
    ASSUME NEW m, NEW T, Fine(m, {}, T), Ok(m), NEW c \in Clusters, m.fat[c] = Available
    PROVE  LET n == Blanked(SetFatEntry(m, c, LAST), c)
           IN  /\ Fine(n, {c}, T) /\ SameFiles(m, n) /\ (m.refused => n.refused)
               /\ n.refused <=> ~Ok(n)
               /\ Ok(n) => /\ Found(m, n, c, 1)
                           /\ c \in On(n.fat, c) /\ n.fat[c] = LAST
<1> DEFINE e == SetFatEntry(m, c, LAST)
           n == Blanked(e, c)
<1> HIDE DEF e, n
<1>1. /\ Fine(e, {c}, T) /\ SameFiles(m, e) /\ SameDisk(m, e)
      /\ ~m.refused =>
            /\ c \notin AreaOf(e.disk, e.fat)
            /\ On(e.fat, c) = {c} /\ e.fat[c] = LAST
            /\ LiveOf(e.disk, e.fat) = LiveOf(m.disk, m.fat)
            /\ AreaOf(m.disk, m.fat) \subseteq AreaOf(e.disk, e.fat)
            /\ \A x \in Clusters : x # c => e.fat[x] = m.fat[x]
  BY StartFine DEF e
<1>2. Ok(e) /\ e.refused = m.refused /\ e.disk = m.disk /\ e.saved = m.saved /\ e.full = m.full
  BY <1>1 DEF SameDisk, Ok
<1>3. /\ Fine(n, {c}, T) /\ SameFiles(e, n) /\ SameTable(e, n)
      /\ e.refused => n.refused
      /\ n.refused <=> ~Ok(n)
      /\ Ok(n) =>
            /\ Dirs(e, n) /\ LiveOf(n.disk, n.fat) = LiveOf(e.disk, e.fat)
            /\ AreaOf(n.disk, n.fat) = AreaOf(e.disk, e.fat)
            /\ \A p \in Places : p[1] # c => At(n.disk, p) = At(e.disk, p)
            /\ BlankIn(n.disk, {c})
  BY <1>1, <1>2, BlankedFine DEF n
<1>4. SameFiles(m, n) /\ (m.refused => n.refused)
  BY <1>1, <1>2, <1>3 DEF SameFiles
<1>5. ASSUME Ok(n)
      PROVE  Found(m, n, c, 1) /\ c \in On(n.fat, c) /\ n.fat[c] = LAST
  <2>1. ~m.refused /\ ~n.refused
    BY <1>3, <1>4, <1>5
  <2>2. On(n.fat, c) = {c} /\ n.fat[c] = LAST
    BY <1>1, <1>3, <2>1 DEF SameTable
  <2>3. Cardinality(On(n.fat, c)) = 1
    BY <2>2, FS_Singleton
  <2>4. Dirs(m, n)
    <3>1. Dirs(m, e)
      BY <1>1, <1>2, <2>1, TableDirs
    <3> QED BY <1>3, <1>5, <3>1, DirsTransitive
  <2>5. \A x \in Clusters : m.fat[x] # Available => n.fat[x] = m.fat[x]
    BY <1>1, <1>3, <2>1 DEF SameTable
  <2>6. n.saved = m.saved /\ n.full = m.full /\ LiveOf(n.disk, n.fat) = LiveOf(m.disk, m.fat)
    BY <1>1, <1>2, <1>3, <1>5, <2>1 DEF SameTable
  <2>7. \A p \in Places : p[1] \notin On(n.fat, c) => At(n.disk, p) = At(m.disk, p)
    BY <1>2, <1>3, <1>5, <2>2
  <2> QED BY <1>3, <1>5, <2>1, <2>2, <2>3, <2>4, <2>5, <2>6, <2>7 DEF Found
<1> QED BY <1>3, <1>4, <1>5 DEF n, e

LEMMA NextTaken ==
    ASSUME NEW m, NEW T, NEW a, NEW count, Allocated(m, T, a, count), Ok(a.m), a.taken # 0,
           NEW c \in Clusters, a.m.fat[c] = Available
    PROVE  LET n == Blanked(Linked(a.m, a.previous, c), c)
           IN  /\ Fine(n, {a.first}, T) /\ SameFiles(m, n) /\ (m.refused => n.refused)
               /\ n.refused <=> ~Ok(n)
               /\ Ok(n) => /\ Found(m, n, a.first, a.taken + 1)
                           /\ c \in On(n.fat, a.first) /\ n.fat[c] = LAST
<1> DEFINE o == a.m
           first == a.first
           e == Linked(o, a.previous, c)
           n == Blanked(e, c)
<1>1. /\ Fine(o, {first}, T) /\ SameFiles(m, o) /\ ~o.refused /\ ~m.refused
      /\ Found(m, o, first, a.taken) /\ a.previous \in On(o.fat, first)
      /\ o.fat[a.previous] = LAST /\ a.taken \in Nat /\ o.fat[c] = Available
  BY DEF Allocated
<1> HIDE DEF o, first
<1>2. a.previous # 0 /\ a.previous \in Clusters
  BY <1>1, OnFinite, ClusterFacts DEF Root
<1>3. /\ Fine(e, {first}, T) /\ SameFiles(o, e) /\ SameDisk(o, e)
      /\ c \notin AreaOf(e.disk, e.fat)
      /\ On(e.fat, first) = On(o.fat, first) \cup {c} /\ e.fat[c] = LAST
      /\ Cardinality(On(e.fat, first)) = Cardinality(On(o.fat, first)) + 1
      /\ LiveOf(e.disk, e.fat) = LiveOf(o.disk, o.fat)
      /\ AreaOf(o.disk, o.fat) \subseteq AreaOf(e.disk, e.fat)
      /\ \A x \in Clusters : x # c /\ x # a.previous => e.fat[x] = o.fat[x]
  BY <1>1, <1>2, LongerFine DEF o
<1> HIDE DEF e, n
<1>4. Ok(e) /\ ~e.refused /\ e.disk = o.disk /\ e.saved = o.saved /\ e.full = o.full
  BY <1>1, <1>3 DEF SameDisk, Ok, o
<1>5. /\ Fine(n, {first}, T) /\ SameFiles(e, n) /\ SameTable(e, n)
      /\ n.refused <=> ~Ok(n)
      /\ Ok(n) =>
            /\ Dirs(e, n) /\ LiveOf(n.disk, n.fat) = LiveOf(e.disk, e.fat)
            /\ AreaOf(n.disk, n.fat) = AreaOf(e.disk, e.fat)
            /\ \A p \in Places : p[1] # c => At(n.disk, p) = At(e.disk, p)
            /\ BlankIn(n.disk, {c})
  BY <1>3, <1>4, BlankedFine DEF n
<1>6. SameFiles(m, n)
  BY <1>1, <1>3, <1>5 DEF SameFiles
<1>7. ASSUME Ok(n)
      PROVE  Found(m, n, first, a.taken + 1) /\ c \in On(n.fat, first) /\ n.fat[c] = LAST
  <2>1. /\ first \in Clusters
        /\ \A x \in On(o.fat, first) : m.fat[x] = Available
        /\ Cardinality(On(o.fat, first)) = a.taken
        /\ BlankIn(o.disk, On(o.fat, first))
        /\ \A x \in Clusters : m.fat[x] # Available => o.fat[x] = m.fat[x]
        /\ o.saved = m.saved /\ o.full = m.full /\ Dirs(m, o)
        /\ LiveOf(o.disk, o.fat) = LiveOf(m.disk, m.fat)
        /\ \A p \in Places : p[1] \notin On(o.fat, first) => At(o.disk, p) = At(m.disk, p)
    BY <1>1 DEF Found
  <2>2. /\ n.fat = e.fat /\ On(n.fat, first) = On(o.fat, first) \cup {c} /\ n.fat[c] = LAST
        /\ Cardinality(On(n.fat, first)) = a.taken + 1
    BY <1>3, <1>5, <2>1 DEF SameTable
  <2>3. \A x \in On(n.fat, first) : m.fat[x] = Available
    <3>1. m.fat[c] = Available
      BY <1>1, <2>1
    <3> QED BY <2>1, <2>2, <3>1
  <2>4. BlankIn(n.disk, On(n.fat, first))
    BY <1>4, <1>5, <1>7, <2>1, <2>2 DEF BlankIn
  <2>5. \A x \in Clusters : m.fat[x] # Available => n.fat[x] = m.fat[x]
    <3> SUFFICES ASSUME NEW x \in Clusters, m.fat[x] # Available PROVE n.fat[x] = m.fat[x]
      OBVIOUS
    <3>1. x # c /\ x # a.previous
      BY <1>1, <2>2, <2>3
    <3> QED BY <1>3, <2>1, <2>2, <3>1
  <2>6. Dirs(m, n)
    <3>1. Dirs(o, e)
      BY <1>3, <1>4, TableDirs
    <3>2. Dirs(o, n)
      BY <1>5, <1>7, <3>1, DirsTransitive
    <3> QED BY <2>1, <3>2, DirsTransitive
  <2>7. /\ n.saved = m.saved /\ n.full = m.full
        /\ LiveOf(n.disk, n.fat) = LiveOf(m.disk, m.fat)
    BY <1>3, <1>4, <1>5, <1>7, <2>1 DEF SameTable
  <2>8. \A p \in Places : p[1] \notin On(n.fat, first) => At(n.disk, p) = At(m.disk, p)
    BY <1>4, <1>5, <1>7, <2>1, <2>2
  <2> QED BY <1>1, <1>5, <1>7, <2>1, <2>2, <2>3, <2>4, <2>5, <2>6, <2>7, <2>8 DEF Found
<1> QED BY <1>1, <1>5, <1>6, <1>7 DEF n, e, o, first

LEMMA ExamineAllocates ==
    ASSUME NEW m, NEW T, Fine(m, {}, T), Ok(m), NEW count \in Nat, NEW c \in Clusters,
           NEW a \in Searches(m), Allocated(m, T, a, count)
    PROVE  Allocated(m, T, Examine(a, c, count), count)
<1> DEFINE b == Examine(a, c, count)
<1>1. /\ a.taken \in Nat /\ SameFiles(m, a.m) /\ (m.refused => a.m.refused)
      /\ a.taken = 0 => a.m = m /\ a.previous = 0 /\ a.first = 0
      /\ Fine(a.m, IF a.taken = 0 THEN {} ELSE {a.first}, T)
      /\ a.taken # 0 => (a.m.refused <=> ~Ok(a.m))
      /\ Ok(a.m) /\ a.taken # 0 =>
            /\ Found(m, a.m, a.first, a.taken)
            /\ a.previous \in On(a.m.fat, a.first) /\ a.m.fat[a.previous] = LAST
      /\ a.done => a.taken >= count
  BY DEF Allocated
<1>2. CASE a.done \/ ~Ok(a.m)
  BY <1>2 DEF Examine
<1>3. CASE ~a.done /\ Ok(a.m) /\ a.taken >= count
  <2>1. b = [a EXCEPT !.done = TRUE]
    BY <1>3 DEF Examine
  <2>2. b.m = a.m /\ b.taken = a.taken /\ b.first = a.first /\ b.previous = a.previous
    BY <2>1 DEF Searches
  <2> HIDE DEF b
  <2> QED BY <1>1, <1>3, <2>2 DEF Allocated, b
<1>4. CASE ~a.done /\ Ok(a.m) /\ ~(a.taken >= count) /\ a.m.fat[c] # Available
  BY <1>4 DEF Examine
<1>5. CASE ~a.done /\ Ok(a.m) /\ ~(a.taken >= count) /\ a.m.fat[c] = Available
  <2> DEFINE n == Blanked(Linked(a.m, a.previous, c), c)
  <2>1. b = [a EXCEPT !.m = n, !.taken = @ + 1,
                      !.first = IF @ = 0 THEN c ELSE @, !.previous = c]
    BY <1>5 DEF Examine
  <2> HIDE DEF n
  <2>2. /\ b.m = n /\ b.taken = a.taken + 1 /\ b.previous = c /\ ~b.done
        /\ b.first = IF a.first = 0 THEN c ELSE a.first
    BY <1>5, <2>1 DEF Searches
  <2> HIDE DEF b
  <2>3. b.taken \in Nat /\ b.taken # 0
    BY <1>1, <2>2
  <2>4. CASE a.taken = 0
    <3>1. a.m = m /\ a.previous = 0 /\ a.first = 0
      BY <1>1, <2>4
    <3>2. n = Blanked(SetFatEntry(m, c, LAST), c)
      BY <3>1 DEF n, Linked
    <3>3. /\ Fine(n, {c}, T) /\ SameFiles(m, n) /\ (m.refused => n.refused)
          /\ n.refused <=> ~Ok(n)
          /\ Ok(n) => Found(m, n, c, 1) /\ c \in On(n.fat, c) /\ n.fat[c] = LAST
      BY <1>5, <3>1, <3>2, FirstTaken
    <3>4. b.first = c /\ b.taken = 1
      BY <2>2, <2>4, <3>1
    <3> QED BY <2>2, <2>3, <3>3, <3>4 DEF Allocated, b
  <2>5. CASE a.taken # 0
    <3>1. a.first # 0
      <4>1. a.first \in Clusters
        BY <1>1, <1>5, <2>5 DEF Found
      <4> QED BY <4>1, ClusterFacts DEF Root
    <3>2. /\ Fine(n, {a.first}, T) /\ SameFiles(m, n) /\ (m.refused => n.refused)
          /\ n.refused <=> ~Ok(n)
          /\ Ok(n) => /\ Found(m, n, a.first, a.taken + 1)
                      /\ c \in On(n.fat, a.first) /\ n.fat[c] = LAST
      BY <1>5, <2>5, NextTaken DEF n
    <3> QED BY <2>2, <2>3, <3>1, <3>2 DEF Allocated, b
  <2> QED BY <2>4, <2>5
<1> QED BY <1>2, <1>3, <1>4, <1>5

\* The chain found is dropped when the clusters do not suffice: they are lost.
LEMMA FullFine ==
    ASSUME NEW m, NEW X, NEW T, Fine(m, X, T)
    PROVE  LET n == [m EXCEPT !.status = "ENOSPC", !.full = TRUE]
           IN  /\ Fine(n, {}, T) /\ SameFiles(m, n) /\ ~Ok(n) /\ n.refused = m.refused
               /\ n.disk = m.disk /\ n.fat = m.fat
<1> DEFINE n == [m EXCEPT !.status = "ENOSPC", !.full = TRUE]
<1>1. Sane(m) /\ m \in AnyVolume
  BY DEF Sane, Fine
<1>2. n \in AnyVolume
  BY <1>1 DEF AnyVolume, AnyStatus
<1>3. /\ SameFiles(m, n) /\ ~Ok(n) /\ n.refused = m.refused /\ n.writes = m.writes
      /\ n.disk = m.disk /\ n.fat = m.fat /\ n.saved = m.saved /\ n.dirty = m.dirty
      /\ n.full = TRUE
  BY <1>1 DEF SameFiles, Ok, AnyVolume
<1> HIDE DEF n
<1>4. Sane(n)
  BY <1>1, <1>2, <1>3 DEF Sane
<1>5. m.refused => BothApart(n)
  BY <1>3 DEF Fine, BothApart
<1>6. Good(m, X, T) => Good(n, {}, T)
  <2> SUFFICES ASSUME Good(m, X, T) PROVE Good(n, {}, T)
    OBVIOUS
  <2>1. Whole(m.disk, m.fat, m.full, X) /\ Behind(m.disk, m.fat, m.saved, T)
    BY DEF Good
  <2>2. Shape(m.fat, HeadsOf(m.disk, m.fat) \cup {})
    BY <2>1, ShapeFewer DEF Whole
  <2>3. Whole(m.disk, m.fat, TRUE, {})
    BY <2>1, <2>2 DEF Whole
  <2> QED BY <1>3, <2>1, <2>3 DEF Good
<1> QED BY <1>3, <1>4, <1>5, <1>6 DEF Fine, n

\* n has a chain of count clusters or more that m has not.
FoundEnough(m, n, first, count) ==
    \E k \in Nat : k >= count /\ Found(m, n, first, k)

LEMMA AllocationFine ==
    ASSUME NEW m, NEW T, Fine(m, {}, T), Ok(m), NEW count \in Nat, count >= 1,
           NEW hint \in Nat
    PROVE  LET a == FatAllocateClusters(m, count, hint)
           IN  /\ Fine(a.m, IF Ok(a.m) THEN {a.first} ELSE {}, T) /\ SameFiles(m, a.m)
               /\ ~a.m.refused => ~m.refused /\ Dirs(m, a.m)
               /\ Ok(a.m) => FoundEnough(m, a.m, a.first, count)
<1>1. Sane(m)
  BY DEF Fine
<1> DEFINE total == TotalClustersInVolume
<1>2. PICK h : /\ SearchTurns(m, count, hint, h)
               /\ FatAllocateClusters(m, count, hint) = NoneLeft(h[total])
               /\ h[total] \in Searches(m)
  BY <1>1, AllocationTurns
<1> DEFINE B == {k \in 0 .. total : h[k] \in Searches(m) /\ Allocated(m, T, h[k], count)}
<1>3. total \in Nat
  BY VolumeAssumption
<1>4. 0 \in B
  <2>1. Allocated(m, T, Search0(m), count)
    BY DEF Allocated, Search0, SameFiles
  <2>2. Search0(m) \in Searches(m)
    BY <1>1, FollowsReflexive, FollowsSane DEF Search0, Searches, Made, Firsts, Available
  <2> QED BY <1>2, <1>3, <2>1, <2>2 DEF SearchTurns
<1>5. \A k \in 1 .. total : k - 1 \in B => k \in B
  <2> SUFFICES ASSUME NEW k \in 1 .. total, h[k - 1] \in Searches(m),
                      Allocated(m, T, h[k - 1], count)
               PROVE  h[k] \in Searches(m) /\ Allocated(m, T, h[k], count)
    BY <1>3
  <2>1. Order(hint)[k] \in Clusters
    BY OrderType
  <2>2. /\ Allocated(m, T, Examine(h[k - 1], Order(hint)[k], count), count)
        /\ Examine(h[k - 1], Order(hint)[k], count) \in Searches(m)
    BY <1>1, <2>1, ExamineAllocates, ExamineType
  <2> QED BY <1>2, <2>2 DEF SearchTurns
<1>6. Allocated(m, T, h[total], count) /\ h[total] \in Searches(m)
  <2>1. total \in B
    <3> HIDE DEF B, total
    <3> QED BY <1>3, <1>4, <1>5, UpTo
  <2> QED BY <1>2, <2>1
<1> DEFINE b == h[total]
           a == FatAllocateClusters(m, count, hint)
<1> HIDE DEF a, b
<1>7. a = NoneLeft(b) /\ b \in Searches(m)
  BY <1>2, <1>6 DEF a, b
<1>8. /\ b.taken \in Nat /\ SameFiles(m, b.m) /\ (m.refused => b.m.refused)
      /\ b.taken = 0 => b.m = m
      /\ Fine(b.m, IF b.taken = 0 THEN {} ELSE {b.first}, T)
      /\ b.taken # 0 => (b.m.refused <=> ~Ok(b.m))
      /\ Ok(b.m) /\ b.taken # 0 => Found(m, b.m, b.first, b.taken)
      /\ b.done => b.taken >= count
  BY <1>6 DEF Allocated, b
<1>9. ~b.m.refused => ~m.refused /\ Dirs(m, b.m)
  <2>1. CASE b.taken = 0
    BY <1>8, <2>1, DirsReflexive
  <2>2. CASE b.taken # 0
    BY <1>8, <2>2 DEF Found
  <2> QED BY <2>1, <2>2
<1>10. CASE ~Ok(b.m)
  <2>1. a = b
    BY <1>7, <1>10 DEF NoneLeft
  <2>2. b.m.refused
    BY <1>8, <1>10
  <2>3. Fine(b.m, {}, T)
    BY <1>8, <2>2 DEF Fine
  <2> QED BY <1>8, <1>10, <2>1, <2>2, <2>3 DEF a
<1>11. CASE Ok(b.m) /\ b.done
  <2>1. a = b
    BY <1>7, <1>11 DEF NoneLeft
  <2>2. b.taken # 0 /\ b.taken >= count
    BY <1>8, <1>11
  <2>3. Fine(b.m, {b.first}, T) /\ Found(m, b.m, b.first, b.taken)
    BY <1>8, <1>11, <2>2
  <2>4. FoundEnough(m, b.m, b.first, count)
    BY <1>8, <2>2, <2>3 DEF FoundEnough
  <2> QED BY <1>8, <1>9, <1>11, <2>1, <2>3, <2>4 DEF a
<1>12. CASE Ok(b.m) /\ ~b.done
  <2> DEFINE n == [b.m EXCEPT !.status = "ENOSPC", !.full = TRUE]
  <2>1. a.m = n
    BY <1>7, <1>12 DEF NoneLeft, Searches, Made, AnyVolume
  <2>2. /\ Fine(n, {}, T) /\ SameFiles(b.m, n) /\ ~Ok(n) /\ n.refused = b.m.refused
        /\ n.disk = b.m.disk /\ n.fat = b.m.fat
    BY <1>8, FullFine
  <2> HIDE DEF n
  <2>3. Dirs(b.m, n)
    BY <2>2, TableDirs
  <2>4. ~n.refused => ~m.refused /\ Dirs(m, n)
    BY <1>9, <2>2, <2>3, DirsTransitive
  <2>5. SameFiles(m, n)
    BY <1>8, <2>2 DEF SameFiles
  <2> QED BY <2>1, <2>2, <2>4, <2>5 DEF a
<1> QED BY <1>10, <1>11, <1>12

-----------------------------------------------------------------------------
(* The other changes of the table.                                         *)

\* A new chain behind the chain of an entry.
LEMMA JoinFine ==
    ASSUME NEW m, NEW c, NEW T, Fine(m, {c}, T), Ok(m), ~m.refused,
           NEW h \in HeadsOf(m.disk, m.fat), NEW last \in On(m.fat, h),
           m.fat[last] \notin Clusters, BlankIn(m.disk, On(m.fat, c))
    PROVE  LET n == SetFatEntry(m, last, c)
           IN  /\ Fine(n, {}, T) /\ SameFiles(m, n) /\ SameDisk(m, n) /\ Dirs(m, n)
               /\ On(n.fat, h) = On(m.fat, h) \cup On(m.fat, c)
               /\ LiveOf(n.disk, n.fat) = LiveOf(m.disk, m.fat)
<1> DEFINE n == SetFatEntry(m, last, c)
           H == HeadsOf(m.disk, m.fat)
<1> HIDE DEF n, H
<1>1. Sane(m) /\ m.fat \in AnyTable
  BY FieldTypes DEF Sane, Fine
<1>2. Whole(m.disk, m.fat, m.full, {c}) /\ Behind(m.disk, m.fat, m.saved, T)
  BY DEF Fine, Good
<1>3. /\ Shape(m.fat, H \cup {c}) /\ c \notin H /\ h \in H /\ H \subseteq Clusters
      /\ (m.full \/ Covered(m.fat, H \cup {c}))
  BY <1>2 DEF Whole, H, Shape
<1>4. /\ Links(m.fat) /\ Starts(m.fat, h) /\ Starts(m.fat, c) /\ h # c
      /\ m.fat[c] # Available /\ m.fat[last] # Available
      /\ c \in Clusters /\ last \in Clusters
  BY <1>3, ShapeHeads, OnUsed, OnFinite DEF Shape
<1>5. Sane(n) /\ SameFiles(m, n) /\ SameDisk(m, n) /\ Changed(m.fat, last, c, n.fat)
  BY <1>1, <1>4, SetIs DEF n, Firsts
<1>6. /\ n.fat \in AnyTable /\ Links(n.fat) /\ Starts(n.fat, h)
      /\ On(n.fat, h) = On(m.fat, h) \cup On(m.fat, c)
      /\ Keeps(m.fat, n.fat, {h, c})
      /\ \A d \in Clusters : m.fat[d] # Available => n.fat[d] # Available
  <2>1. Joins(m.fat, h, c, n.fat)
    BY <1>1, <1>4, <1>5, JoinedShape
  <2> QED BY <2>1 DEF Joins
<1>7. \A k \in H : k # h => Starts(n.fat, k) /\ On(n.fat, k) = On(m.fat, k)
  <2> SUFFICES ASSUME NEW k \in H, k # h
               PROVE  Starts(n.fat, k) /\ On(n.fat, k) = On(m.fat, k)
    OBVIOUS
  <2>1. Starts(m.fat, k) /\ k # c
    BY <1>3, ShapeHeads
  <2> QED BY <1>6, <2>1 DEF Keeps
<1>8. Shape(n.fat, H \cup {})
  BY <1>3, <1>6, <1>7 DEF Shape, Starts
<1>9. m.full \/ Covered(n.fat, H \cup {})
  <2> SUFFICES ASSUME Covered(m.fat, H \cup {c}), NEW x \in Clusters,
                      n.fat[x] # Available
               PROVE  \E k \in H : x \in On(n.fat, k)
    BY <1>3 DEF Covered
  <2>1. m.fat[x] # Available
    BY <1>1, <1>4, <1>5 DEF Changed, AnyTable
  <2>2. PICK k \in H \cup {c} : x \in On(m.fat, k)
    BY <2>1 DEF Covered
  <2> QED BY <1>3, <1>6, <1>7, <2>2
<1>10. Grows(m.disk, m.fat, n.fat, On(m.fat, c))
  BY <1>6, <1>7 DEF Grows, H
<1>11. /\ Whole(m.disk, n.fat, m.full, {}) /\ Behind(m.disk, n.fat, m.saved, T)
       /\ LiveOf(m.disk, n.fat) = LiveOf(m.disk, m.fat)
       /\ AreaOf(m.disk, m.fat) \subseteq AreaOf(m.disk, n.fat)
  <2>1. {} \cap H = {}
    OBVIOUS
  <2> QED BY <1>2, <1>6, <1>8, <1>9, <1>10, <2>1, TableGrows DEF H
<1>12. Fine(n, {}, T)
  BY <1>5, <1>11 DEF Fine, Good, SameDisk
<1>13. LiveOf(n.disk, n.fat) = LiveOf(m.disk, m.fat) /\ Dirs(m, n)
  BY <1>5, <1>11, TableDirs DEF SameDisk
<1> QED BY <1>5, <1>6, <1>12, <1>13 DEF n

\* The chain that an entry had is freed.
LEMMA FreedFine ==
    ASSUME NEW m, NEW h \in Clusters, NEW T, Fine(m, {h}, T), Ok(m), ~m.refused
    PROVE  LET n == Freed(m, Chain(m.fat, h))
           IN  /\ Fine(n, {}, T) /\ SameFiles(m, n) /\ SameDisk(m, n) /\ Dirs(m, n)
               /\ LiveOf(n.disk, n.fat) = LiveOf(m.disk, m.fat)
<1> DEFINE cs == Chain(m.fat, h)
           n == Freed(m, cs)
           g == [c \in Clusters |-> IF c \in On(m.fat, h) THEN Available ELSE m.fat[c]]
           H == HeadsOf(m.disk, m.fat)
<1>1. Sane(m) /\ m \in AnyVolume /\ m.fat \in AnyTable
  BY FieldTypes DEF Sane, Fine
<1>2. cs # <<>> /\ DOMAIN cs = 1 .. Len(cs)
  BY ChainStarts
<1>3. n = [m EXCEPT !.fat = g, !.dirty = TRUE]
  <2>1. \A c : (\E i \in DOMAIN cs : cs[i] = c) <=> c \in On(m.fat, h)
    BY <1>2 DEF On
  <2>2. n = [m EXCEPT !.fat = [c \in Clusters |->
                 IF \E i \in DOMAIN cs : cs[i] = c THEN Available ELSE m.fat[c]],
                      !.dirty = TRUE]
    BY <1>1, <1>2 DEF Freed, AnyVolume
  <2> HIDE DEF cs, n
  <2> QED BY <2>1, <2>2
<1> HIDE DEF g
<1>4. n.fat = g /\ SameFiles(m, n) /\ SameDisk(m, n)
  BY <1>1, <1>3 DEF SameFiles, SameDisk, AnyVolume
<1>5. Sane(n)
  BY <1>1, FreedFollows, FollowsSane
<1> HIDE DEF n, H
<1>6. Whole(m.disk, m.fat, m.full, {h}) /\ Behind(m.disk, m.fat, m.saved, T)
  BY DEF Fine, Good
<1>7. /\ Shape(m.fat, H \cup {h}) /\ h \notin H /\ H \subseteq Clusters
      /\ (m.full \/ Covered(m.fat, H \cup {h}))
  BY <1>6 DEF Whole, H, Shape
<1>8. Links(m.fat) /\ Starts(m.fat, h)
  BY <1>7, ShapeHeads DEF Shape
<1>9. /\ n.fat \in AnyTable /\ Links(n.fat) /\ Keeps(m.fat, n.fat, {h})
      /\ \A c \in Clusters : n.fat[c] # Available => c \notin On(m.fat, h) /\ m.fat[c] # Available
      /\ \A c \in Clusters : c \notin On(m.fat, h) => n.fat[c] = m.fat[c]
  <2>1. /\ g \in AnyTable /\ Links(g) /\ Keeps(m.fat, g, {h})
        /\ \A c \in Clusters : g[c] # Available =>
              c \notin On(m.fat, h) /\ m.fat[c] # Available
        /\ \A c \in Clusters : c \notin On(m.fat, h) => g[c] = m.fat[c]
    <3>1. g = [c \in Clusters |-> IF c \in On(m.fat, h) THEN Available ELSE m.fat[c]]
      BY DEF g
    <3> QED BY <1>1, <1>8, <3>1, FreedShape
  <2> QED BY <1>4, <2>1
<1>10. \A k \in H : Starts(n.fat, k) /\ On(n.fat, k) = On(m.fat, k)
  <2> SUFFICES ASSUME NEW k \in H
               PROVE  Starts(n.fat, k) /\ On(n.fat, k) = On(m.fat, k)
    OBVIOUS
  <2>1. Starts(m.fat, k) /\ k # h
    BY <1>7, ShapeHeads
  <2> QED BY <1>9, <2>1 DEF Keeps
<1>11. Shape(n.fat, H \cup {})
  <2>1. ASSUME NEW k \in H PROVE n.fat[k] # Available
    <3>1. Starts(m.fat, k) /\ k # h /\ k \in Clusters /\ m.fat[k] # Available
      BY <1>7, ShapeHeads DEF Shape
    <3>2. On(m.fat, k) \cap On(m.fat, h) = {} /\ k \in On(m.fat, k)
      BY <1>8, <3>1, OnApart, ChainFacts
    <3> QED BY <1>9, <3>1, <3>2
  <2> QED BY <1>7, <1>9, <1>10, <2>1 DEF Shape, Starts
<1>12. m.full \/ Covered(n.fat, H \cup {})
  BY <1>7, <1>9, <1>10 DEF Covered
<1>13. Grows(m.disk, m.fat, n.fat, {}) /\ BlankIn(m.disk, {}) /\ {} \cap H = {}
  BY <1>10 DEF Grows, BlankIn, H
<1>14. /\ Whole(m.disk, n.fat, m.full, {}) /\ Behind(m.disk, n.fat, m.saved, T)
       /\ LiveOf(m.disk, n.fat) = LiveOf(m.disk, m.fat)
       /\ AreaOf(m.disk, m.fat) \subseteq AreaOf(m.disk, n.fat)
  <2>1. n.fat \in AnyTable
    BY <1>9
  <2> QED BY <1>6, <2>1, <1>11, <1>12, <1>13, TableGrows DEF H
<1>15. Fine(n, {}, T)
  BY <1>4, <1>5, <1>14 DEF Fine, Good, SameDisk
<1>16. LiveOf(n.disk, n.fat) = LiveOf(m.disk, m.fat) /\ Dirs(m, n)
  BY <1>4, <1>14, TableDirs DEF SameDisk
<1> QED BY <1>4, <1>15, <1>16 DEF n, cs

\* The table is saved, or a write of it refused.
LEMMA FlushFine ==
    ASSUME NEW m, NEW T, Fine(m, {}, T)
    PROVE  LET n == Flush(m)
           IN  /\ Fine(n, {}, T) /\ SameFiles(m, n)
               /\ n.disk = m.disk /\ n.fat = m.fat /\ n.full = m.full
               /\ ~n.refused => ~m.refused /\ n.status = m.status
<1> DEFINE n == Flush(m)
<1>1. Sane(m) /\ m \in AnyVolume
  BY DEF Sane, Fine
<1>2. Sane(n)
  BY <1>1, FlushSaves, FollowsSane
<1>3. CASE ~Ok(m) \/ ~m.dirty
  BY <1>3 DEF Flush, SameFiles
<1>4. CASE Ok(m) /\ m.dirty /\ m.writes = 0
  <2>1. n = [m EXCEPT !.status = "EACCES", !.refused = TRUE]
    BY <1>4 DEF Flush
  <2>2. /\ SameFiles(m, n) /\ n.disk = m.disk /\ n.fat = m.fat /\ n.saved = m.saved
        /\ n.full = m.full /\ n.refused /\ n.writes = 0
    BY <1>1, <1>4, <2>1 DEF AnyVolume, SameFiles
  <2>3. BothApart(m)
    BY GoodApart DEF Fine
  <2> HIDE DEF n
  <2>4. Fine(n, {}, T)
    BY <1>2, <2>2, <2>3 DEF Fine, BothApart
  <2> QED BY <2>2, <2>4 DEF n
<1>5. CASE Ok(m) /\ m.dirty /\ m.writes # 0
  <2>1. n = [m EXCEPT !.saved = m.fat, !.dirty = FALSE, !.writes = m.writes - 1]
    BY <1>5 DEF Flush
  <2>2. /\ SameFiles(m, n) /\ n.disk = m.disk /\ n.fat = m.fat /\ n.saved = m.fat
        /\ n.full = m.full /\ n.refused = m.refused /\ n.status = m.status
    BY <1>1, <2>1 DEF AnyVolume, SameFiles
  <2>3. ~m.refused /\ Good(m, {}, T)
    BY <1>5 DEF Fine
  <2> HIDE DEF n
  <2>4. Good(n, {}, T)
    BY <2>2, <2>3, SavedTable DEF Good
  <2> QED BY <1>2, <2>2, <2>3, <2>4 DEF Fine, n
<1> QED BY <1>3, <1>4, <1>5

-----------------------------------------------------------------------------
(* Files.                                                                  *)

\* The entry of the file table is that of the directory.
Held(m, f) ==
    /\ m.file[f].where \in LiveOf(m.disk, m.fat)
    /\ At(m.disk, m.file[f].where) = m.file[f].dirent

\* n has e for f in its file table.
WithFile(m, n, f, e) ==
    n.mcb = m.mcb /\ \A g \in FileIds : n.file[g] = IF g = f THEN e ELSE m.file[g]

LEMMA UntouchedFine ==
    ASSUME NEW m, NEW n, NEW X, NEW T, Fine(m, X, T), Untouched(m, n)
    PROVE  /\ Fine(n, X, T) /\ SameTable(m, n) /\ n.disk = m.disk /\ n.refused = m.refused
           /\ Dirs(m, n) /\ LiveOf(n.disk, n.fat) = LiveOf(m.disk, m.fat)
<1>1. /\ Fine(n, X, T) /\ SameTable(m, n) /\ n.disk = m.disk /\ n.refused = m.refused
  BY DEF Fine, Untouched, Sane, Good, BothApart, SameTable
<1>2. LiveOf(n.disk, n.fat) = LiveOf(m.disk, m.fat)
  BY <1>1 DEF SameTable
<1>3. Dirs(m, n)
  BY <1>1, TableDirs DEF SameTable
<1> QED BY <1>1, <1>2, <1>3

LEMMA FileSet ==
    ASSUME NEW m \in AnyVolume, NEW f \in FileIds, NEW e \in AnyFile
    PROVE  LET n == [m EXCEPT !.file[f] = e]
           IN  WithFile(m, n, f, e) /\ Untouched(m, n) /\ n.status = m.status
<1> DEFINE n == [m EXCEPT !.file[f] = e]
<1>1. Untouched(m, n) /\ n.status = m.status /\ n.mcb = m.mcb
  BY EntryUntouched
<1>2. \A g \in FileIds : n.file[g] = IF g = f THEN e ELSE m.file[g]
  BY FieldTypes DEF AnyVolume
<1> HIDE DEF n
<1> QED BY <1>1, <1>2 DEF WithFile, n

LEMMA FileLater ==
    ASSUME NEW m, NEW n, NEW f, NEW e, WithFile(m, n, f, e),
           ~n.refused => ~m.refused /\ Dirs(m, n)
    PROVE  Later(m, n, f)
BY DEF WithFile, Later, Frame

\* The entry is set, and written to its place.
LEMMA WrittenFine ==
    ASSUME NEW m, NEW X, NEW f \in FileIds, NEW e \in AnyFile, Fine(m, X, e.where), Ok(m),
           NEW Y,
           ~m.refused => /\ e.where \in Places
                         /\ Rewrites(m.disk, m.fat, m.saved, X, Y, e.where, e.dirent)
    PROVE  LET n == WriteDirent([m EXCEPT !.file[f] = e], f)
           IN  /\ Fine(n, Y, e.where) /\ WithFile(m, n, f, e) /\ SameTable(m, n)
               /\ Later(m, n, f)
               /\ n.refused <=> ~Ok(n)
               /\ Ok(n) =>
                     /\ ~m.refused /\ At(n.disk, e.where) = e.dirent
                     /\ LiveOf(n.disk, n.fat) = (LiveOf(m.disk, m.fat) \ {e.where})
                           \cup (IF Entry(e.dirent) THEN {e.where} ELSE {})
                     /\ \A p \in Places : p # e.where => At(n.disk, p) = At(m.disk, p)
<1> DEFINE o == [m EXCEPT !.file[f] = e]
           n == Write(o, e.where, e.dirent)
           at == e.where
<1>1. m \in AnyVolume
  BY DEF Fine, Sane
<1>2. WithFile(m, o, f, e) /\ Untouched(m, o) /\ o.status = m.status
  BY <1>1, FileSet
<1>3. WriteDirent(o, f) = n
  <2>1. o.file[f] = e
    BY <1>2 DEF WithFile
  <2> HIDE DEF o
  <2> QED BY <2>1 DEF WriteDirent
<1> HIDE DEF o, n, at
<1>4. /\ Fine(o, X, at) /\ SameTable(m, o) /\ o.disk = m.disk /\ o.refused = m.refused
      /\ Dirs(m, o) /\ LiveOf(o.disk, o.fat) = LiveOf(m.disk, m.fat)
  BY <1>2, UntouchedFine DEF at
<1>5. Ok(o) /\ e.dirent \in AnyUnit
  BY <1>2 DEF Ok, AnyFile
<1>6. ~o.refused => at \in Places /\ Rewrites(o.disk, o.fat, o.saved, X, Y, at, e.dirent)
  BY <1>4 DEF SameTable, at
<1>7. /\ Fine(n, Y, at) /\ SameFiles(o, n) /\ SameTable(o, n)
      /\ n.refused <=> ~Ok(n)
      /\ Ok(n) =>
            /\ ~o.refused /\ Dirs(o, n) /\ At(n.disk, at) = e.dirent
            /\ LiveOf(n.disk, n.fat) = (LiveOf(o.disk, o.fat) \ {at})
                  \cup (IF Entry(e.dirent) THEN {at} ELSE {})
            /\ \A p \in Places : p # at => At(n.disk, p) = At(o.disk, p)
  BY <1>4, <1>5, <1>6, EntryFine DEF n, at
<1>8. WithFile(m, n, f, e) /\ SameTable(m, n)
  BY <1>2, <1>4, <1>7 DEF WithFile, SameFiles, SameTable
<1>9. ~n.refused => ~m.refused /\ Dirs(m, n)
  BY <1>4, <1>7, DirsTransitive
<1>10. Later(m, n, f)
  BY <1>8, <1>9, FileLater
<1>11. Ok(n) =>
          /\ ~m.refused /\ At(n.disk, at) = e.dirent
          /\ LiveOf(n.disk, n.fat) = (LiveOf(m.disk, m.fat) \ {at})
                \cup (IF Entry(e.dirent) THEN {at} ELSE {})
          /\ \A p \in Places : p # at => At(n.disk, p) = At(m.disk, p)
  BY <1>4, <1>7
<1> QED BY <1>3, <1>7, <1>8, <1>10, <1>11 DEF at, o

-----------------------------------------------------------------------------
(* After an allocation.                                                    *)

LEMMA FoundLive ==
    ASSUME NEW m, NEW T, Fine(m, {}, T), NEW n, NEW first, NEW k, Found(m, n, first, k),
           NEW p \in LiveOf(m.disk, m.fat)
    PROVE  /\ p \in LiveOf(n.disk, n.fat) /\ p \in Places
           /\ p[1] \notin On(n.fat, first) /\ At(n.disk, p) = At(m.disk, p)
<1>1. Whole(m.disk, m.fat, m.full, {})
  BY DEF Fine, Good, Found
<1>2. p \in Places /\ p[1] \in AreaOf(m.disk, m.fat)
  BY LivePlace
<1>3. p[1] \notin On(n.fat, first)
  BY <1>1, <1>2, FreeOutside, OnFinite DEF Found
<1> QED BY <1>2, <1>3 DEF Found

\* The chain from h is the same, and apart from the new one.
Aside(m, n, first, h) ==
    /\ Chain(n.fat, h) = Chain(m.fat, h) /\ On(n.fat, h) = On(m.fat, h)
    /\ On(n.fat, h) \cap On(n.fat, first) = {}
    /\ h \in HeadsOf(n.disk, n.fat)
    /\ \A c \in On(m.fat, h) : n.fat[c] = m.fat[c]

LEMMA FoundHeads ==
    ASSUME NEW m, NEW T, Fine(m, {}, T), NEW n, NEW first, NEW k, Found(m, n, first, k),
           NEW h \in HeadsOf(m.disk, m.fat)
    PROVE  Aside(m, n, first, h)
<1>1. Shape(m.fat, HeadsOf(m.disk, m.fat) \cup {})
  BY DEF Fine, Good, Found, Whole
<1>2. \A c \in On(m.fat, h) : m.fat[c] # Available /\ c \in Clusters
  BY <1>1, OnUsed, OnFinite
<1>3. \A c \in On(m.fat, h) : n.fat[c] = m.fat[c]
  BY <1>2 DEF Found
<1>4. Chain(n.fat, h) = Chain(m.fat, h) /\ On(n.fat, h) = On(m.fat, h)
  BY <1>3, ChainSame DEF Alike
<1>5. On(n.fat, h) \cap On(n.fat, first) = {}
  BY <1>2, <1>4 DEF Found
<1>6. h \in HeadsOf(n.disk, n.fat)
  <2>1. PICK p \in LiveOf(m.disk, m.fat) : h = At(m.disk, p).first /\ h # Available
    BY DEF HeadsOf
  <2>2. p \in LiveOf(n.disk, n.fat) /\ At(n.disk, p) = At(m.disk, p)
    BY FoundLive
  <2> QED BY <2>1, <2>2 DEF HeadsOf
<1> QED BY <1>3, <1>4, <1>5, <1>6 DEF Aside

LEMMA BothCard ==
    ASSUME NEW fat, NEW h, NEW k, On(fat, h) \cap On(fat, k) = {}
    PROVE  Cardinality(On(fat, h) \cup On(fat, k))
              = Cardinality(On(fat, h)) + Cardinality(On(fat, k))
<1>1. Cardinality(On(fat, h) \cap On(fat, k)) = 0
  BY FS_EmptySet
<1> DEFINE A == On(fat, h)
           B == On(fat, k)
<1>2. IsFiniteSet(A) /\ IsFiniteSet(B) /\ Cardinality(A) \in Nat /\ Cardinality(B) \in Nat
  BY OnFinite
<1> HIDE DEF A, B
<1>3. Cardinality(A \cup B) = Cardinality(A) + Cardinality(B) - Cardinality(A \cap B)
  BY <1>2, FS_Union
<1>4. Cardinality(A \cap B) = 0
  BY <1>1 DEF A, B
<1>5. Cardinality(A \cup B) = Cardinality(A) + Cardinality(B)
  BY <1>2, <1>3, <1>4
<1> QED BY <1>5 DEF A, B

\* Clusters enough for a size.
LEMMA Needed ==
    ASSUME NEW size \in Nat, NEW k \in Nat, k >= (size + Units - 1) \div Units
    PROVE  Units * k >= size
<1> DEFINE q == (size + Units - 1) \div Units
           r == (size + Units - 1) % Units
<1>1. q \in Nat /\ r \in 0 .. Units - 1 /\ size + Units - 1 = Units * q + r
  <2>1. size + Units - 1 \in Nat
    BY Sizes
  <2> QED BY <2>1, Sizes, Division
<1>2. Units * k >= Units * q
  <2>1. k - q \in Nat
    BY <1>1
  <2>2. Units * (k - q) >= 0
    BY <2>1, Sizes
  <2>3. Units * k = Units * q + Units * (k - q)
    BY <1>1, Sizes
  <2>4. Units * k \in Int /\ Units * q \in Int /\ Units * (k - q) \in Int
    BY <1>1, <2>1, Sizes
  <2> HIDE DEF q
  <2> QED BY <2>2, <2>3, <2>4
<1>3. Units * q >= size
  <2>1. Units * q \in Nat
    BY <1>1, Sizes
  <2> HIDE DEF q, r
  <2> QED BY <1>1, <2>1, Sizes
<1>4. Units * k \in Nat /\ Units * q \in Nat
  BY <1>1, Sizes
<1> HIDE DEF q
<1> QED BY <1>2, <1>3, <1>4

-----------------------------------------------------------------------------
(* A file that grows.                                                      *)

\* n has a chain for the file of m that is long enough for size.
Grown(m, n, f, size) ==
    LET e == m.file[f]
        d == n.file[f]
    IN  /\ Held(n, f) /\ n.mcb = m.mcb
        /\ d.where = e.where /\ d.open = e.open /\ d.position = e.position
        /\ d.dirent = [e.dirent EXCEPT !.first = d.dirent.first]
        /\ e.dirent.first # Available => d.dirent.first = e.dirent.first
        /\ On(m.fat, e.dirent.first) \subseteq On(n.fat, d.dirent.first)
        /\ Units * Cardinality(On(n.fat, d.dirent.first)) >= size
        /\ e.dirent.first = Available => BlankIn(n.disk, On(n.fat, d.dirent.first))

Enlarged(m, n, f, T, size) ==
    /\ Fine(n, {}, T) /\ Later(m, n, f) /\ n.file[f].where = T
    /\ Ok(n) /\ ~n.refused => Grown(m, n, f, size)

\* The entry gets its first cluster.
Attached(n, f, first) == WriteDirent([n EXCEPT !.file[f].dirent.first = first], f)

\* Room for size in the chain from h and k more clusters.
Room(fat, h, k, size) ==
    k \in Nat /\ size \in Nat /\ Units * (Len(Chain(fat, h)) + k) >= size

\* The first clusters of a file.
LEMMA AttachFine ==
    ASSUME NEW m, NEW f \in FileIds, NEW T, T = m.file[f].where, Fine(m, {}, T),
           Held(m, f), m.file[f].dirent.first = Available,
           m.file[f].dirent.dir => m.saved = m.fat,
           NEW n, NEW first, NEW k, NEW size, Room(m.fat, Available, k, size),
           Found(m, n, first, k), Fine(n, {first}, T), Ok(n), SameFiles(m, n)
    PROVE  Enlarged(m, Attached(n, f, first), f, T, size)
<1> DEFINE u == m.file[f].dirent
           v == [u EXCEPT !.first = first]
           e == [m.file[f] EXCEPT !.dirent = v]
           o == WriteDirent([n EXCEPT !.file[f] = e], f)
<1>1. m \in AnyVolume /\ n \in AnyVolume /\ m.file[f] \in AnyFile /\ u \in AnyUnit
  BY EntryFields DEF Fine, Sane
<1>2. /\ first \in Clusters /\ ~n.refused /\ ~m.refused
      /\ \A c \in On(n.fat, first) : m.fat[c] = Available
      /\ Cardinality(On(n.fat, first)) = k
      /\ BlankIn(n.disk, On(n.fat, first))
      /\ n.saved = m.saved /\ Dirs(m, n)
      /\ LiveOf(n.disk, n.fat) = LiveOf(m.disk, m.fat)
  BY DEF Found
<1>3. /\ v \in AnyUnit /\ v.first = first /\ v.name = u.name /\ v.dir = u.dir
      /\ v.size = u.size
  BY <1>1, <1>2 DEF AnyUnit
<1> HIDE DEF v, u
<1>4. /\ e \in AnyFile /\ e.dirent = v /\ e.where = T /\ e.open = m.file[f].open
      /\ e.position = m.file[f].position
  BY <1>1, <1>3 DEF AnyFile
<1>5. [n EXCEPT !.file[f].dirent.first = first] = [n EXCEPT !.file[f] = e]
  <2>1. n.file[f] = m.file[f]
    BY DEF SameFiles
  <2> QED BY <1>1, <2>1, FieldTypes DEF AnyVolume, AnyFile, v, u
<1>6. T \in LiveOf(m.disk, m.fat) /\ At(m.disk, T) = u /\ T \in Places
      /\ T[1] \in AreaOf(m.disk, m.fat) /\ Entry(u)
  BY LivePlace DEF Held, u
<1>7. At(n.disk, T) = u /\ T[1] \in AreaOf(n.disk, n.fat)
  BY <1>2, <1>6, FoundLive DEF Dirs
<1>8. On(m.fat, Available) = {} /\ Cardinality(On(m.fat, Available)) = 0
  BY OnNothing, ClusterFacts, FS_EmptySet DEF Available
<1>9. ~u.dir => u.size = 0
  <2>1. Sufficient(m.disk, m.fat)
    BY <1>2 DEF Fine, Good, Whole
  <2>2. u.first = Available
    BY DEF u
  <2>3. ~u.dir => Units * 0 >= u.size
    BY <1>6, <1>8, <2>1, <2>2 DEF Sufficient
  <2> QED BY <1>1, <2>3, Sizes DEF AnyUnit
<1>10. Rewrites(n.disk, n.fat, n.saved, {first}, {}, T, v)
  <2>1. Lead(v) = {first} /\ Lead(u) = {}
    BY <1>2, <1>3, <1>6, ClusterFacts DEF Lead, Entry, InUse, IsFree, Root, u
  <2>2. u.first = Available
    BY DEF u
  <2>3. Entry(v)
    BY <1>3, <1>6 DEF Entry, InUse, IsFree
  <2>4. NewChain(n.disk, n.fat, n.saved, u, v)
    <3> SUFFICES ASSUME v.dir
                 PROVE  /\ Entry(u) /\ u.dir /\ BlankIn(n.disk, On(n.fat, first))
                        /\ On(n.saved, first) \subseteq On(n.fat, first)
      BY <1>3 DEF NewChain
    <3>1. n.saved = m.fat
      BY <1>2, <1>3 DEF u
    <3>2. first \in On(n.fat, first)
      BY <1>2, ChainFacts
    <3>3. On(m.fat, first) = {first}
      BY <1>2, <3>2, Alone, ClusterFacts DEF Available
    <3> QED BY <1>2, <1>3, <1>6, <3>1, <3>2, <3>3
  <2>5. ~v.dir => Units * Cardinality(On(n.fat, v.first)) >= v.size
    <3> k \in Nat
      BY DEF Room
    <3>1. Units * k >= 0
      BY Sizes
    <3> QED BY <1>2, <1>3, <1>9, <3>1
  <2> QED BY <1>3, <1>6, <1>7, <2>1, <2>2, <2>3, <2>4, <2>5 DEF Rewrites, Entry
<1> HIDE DEF e, o
<1>11. /\ Fine(o, {}, T) /\ WithFile(n, o, f, e) /\ SameTable(n, o) /\ Later(n, o, f)
       /\ o.refused <=> ~Ok(o)
       /\ Ok(o) =>
             /\ At(o.disk, T) = v
             /\ LiveOf(o.disk, o.fat) = (LiveOf(n.disk, n.fat) \ {T})
                   \cup (IF Entry(v) THEN {T} ELSE {})
             /\ \A p \in Places : p # T => At(o.disk, p) = At(n.disk, p)
  <2>1. Fine(n, {first}, e.where) /\ e.where \in Places
        /\ Rewrites(n.disk, n.fat, n.saved, {first}, {}, e.where, e.dirent)
    BY <1>4, <1>6, <1>10
  <2>2. /\ Fine(o, {}, e.where) /\ WithFile(n, o, f, e) /\ SameTable(n, o) /\ Later(n, o, f)
        /\ o.refused <=> ~Ok(o)
        /\ Ok(o) =>
              /\ At(o.disk, e.where) = e.dirent
              /\ LiveOf(o.disk, o.fat) = (LiveOf(n.disk, n.fat) \ {e.where})
                    \cup (IF Entry(e.dirent) THEN {e.where} ELSE {})
              /\ \A p \in Places : p # e.where => At(o.disk, p) = At(n.disk, p)
    BY <1>4, <2>1, WrittenFine DEF o
  <2> QED BY <1>4, <2>2
<1>12. Later(m, o, f)
  <2>1. Later(m, n, f)
    BY <1>2, WriteLater
  <2> QED BY <1>11, <2>1, LaterTransitive
<1>13. o.file[f] = e /\ o.mcb = m.mcb
  BY <1>11 DEF WithFile, SameFiles
<1>14. ASSUME Ok(o)
       PROVE  Grown(m, o, f, size)
  <2>1. Entry(v)
    BY <1>3, <1>6 DEF Entry, InUse, IsFree
  <2>2. Held(o, f)
    BY <1>4, <1>11, <1>13, <1>14, <2>1 DEF Held
  <2>3. On(o.fat, first) = On(n.fat, first)
    BY <1>11 DEF SameTable
  <2>4. Units * Cardinality(On(o.fat, first)) >= size
    <3>1. k \in Nat /\ Units * (0 + k) >= size
      BY OnNothing, ClusterFacts DEF Room, Available
    <3> QED BY <1>2, <2>3, <3>1
  <2>5. BlankIn(o.disk, On(o.fat, first))
    <3>1. T[1] \notin On(n.fat, first)
      BY <1>6, FoundLive
    <3> QED BY <1>2, <1>11, <1>14, <2>3, <3>1 DEF BlankIn
  <2>6. v = [m.file[f].dirent EXCEPT !.first = first]
    BY DEF v, u
  <2> QED BY <1>3, <1>4, <1>8, <1>13, <2>2, <2>4, <2>5, <2>6 DEF Grown
<1>15. Ok(o) => ~o.refused
  BY <1>11
<1>16. Enlarged(m, o, f, T, size)
  BY <1>4, <1>5, <1>11, <1>12, <1>13, <1>14, <1>15 DEF Enlarged
<1>17. o = Attached(n, f, first)
  BY <1>5 DEF o, Attached
<1> QED BY <1>16, <1>17

\* More of them.
LEMMA AppendFine ==
    ASSUME NEW m, NEW f \in FileIds, NEW T, T = m.file[f].where, Fine(m, {}, T),
           Held(m, f), NEW h \in Clusters, m.file[f].dirent.first = h,
           NEW n, NEW first, NEW k, NEW size, Room(m.fat, h, k, size),
           Found(m, n, first, k), Fine(n, {first}, T), Ok(n), SameFiles(m, n)
    PROVE  Enlarged(m, SetFatEntry(n, Last(Chain(m.fat, h)), first), f, T, size)
<1> DEFINE cs == Chain(m.fat, h)
           last == Last(cs)
           o == SetFatEntry(n, last, first)
<1>1. m \in AnyVolume /\ n \in AnyVolume /\ m.file[f] \in AnyFile
      /\ m.file[f].dirent \in AnyUnit
  BY EntryFields DEF Fine, Sane
<1>2. /\ ~n.refused /\ ~m.refused /\ Dirs(m, n)
      /\ Cardinality(On(n.fat, first)) = k
      /\ BlankIn(n.disk, On(n.fat, first))
      /\ LiveOf(n.disk, n.fat) = LiveOf(m.disk, m.fat)
  BY DEF Found
<1>3. T \in LiveOf(m.disk, m.fat) /\ At(m.disk, T) = m.file[f].dirent
  BY DEF Held
<1>4. h # Available /\ h \in HeadsOf(m.disk, m.fat) /\ Starts(m.fat, h)
  <2>1. h # Available
    BY ClusterFacts DEF Available
  <2>2. Whole(m.disk, m.fat, m.full, {})
    BY <1>2 DEF Fine, Good
  <2> QED BY <1>3, <2>1, <2>2, HeadOf
<1>5. /\ On(n.fat, h) = On(m.fat, h) /\ h \in HeadsOf(n.disk, n.fat)
      /\ On(n.fat, h) \cap On(n.fat, first) = {}
      /\ \A c \in On(m.fat, h) : n.fat[c] = m.fat[c]
  <2> HIDE DEF cs, last, o
  <2>1. h \in HeadsOf(m.disk, m.fat)
    BY <1>4
  <2>2. Aside(m, n, first, h)
    BY <2>1, FoundHeads
  <2> QED BY <2>2 DEF Aside
<1>6. last \in On(n.fat, h) /\ n.fat[last] \notin Clusters
  <2>1. cs \in Seq(Clusters) /\ Len(cs) >= 1 /\ cs[Len(cs)] \in On(m.fat, h)
    BY ChainFacts
  <2>2. m.fat[cs[Len(cs)]] \notin Clusters
    BY <1>4, HeadEnds
  <2>3. last = cs[Len(cs)]
    BY <2>1 DEF Last
  <2> HIDE DEF last, cs
  <2> QED BY <1>5, <2>1, <2>2, <2>3
<1> HIDE DEF last, o
<1>7. /\ Fine(o, {}, T) /\ SameFiles(n, o) /\ SameDisk(n, o) /\ Dirs(n, o)
      /\ On(o.fat, h) = On(n.fat, h) \cup On(n.fat, first)
      /\ LiveOf(o.disk, o.fat) = LiveOf(n.disk, n.fat)
  <2>1. BlankIn(n.disk, On(n.fat, first)) /\ h \in HeadsOf(n.disk, n.fat) /\ ~n.refused
    BY <1>2, <1>5
  <2> QED BY <1>6, <2>1, JoinFine DEF o
<1>8. Ok(o) /\ ~o.refused /\ SameFiles(m, o) /\ o.disk = n.disk
  BY <1>2, <1>7 DEF SameDisk, SameFiles, Ok
<1>9. Later(m, o, f)
  <2>1. Dirs(m, o)
    BY <1>2, <1>7, DirsTransitive
  <2> QED BY <1>2, <1>8, <2>1, WriteLater
<1>10. Units * Cardinality(On(o.fat, h)) >= size
  <2>1. Cardinality(On(o.fat, h)) = Cardinality(On(m.fat, h)) + k
    BY <1>2, <1>5, <1>7, BothCard
  <2>2. Cardinality(On(m.fat, h)) = Len(cs)
    BY <1>4, HeadCard
  <2> QED BY <2>1, <2>2 DEF Room
<1>11. Held(o, f)
  <2>1. At(n.disk, T) = At(m.disk, T)
    <3> HIDE DEF cs
    <3>1. \A p \in LiveOf(m.disk, m.fat) : At(n.disk, p) = At(m.disk, p)
      BY FoundLive
    <3> QED BY <1>3, <3>1
  <2>2. o.file[f].where = T /\ o.file[f].dirent = m.file[f].dirent
    BY <1>8 DEF SameFiles
  <2>3. T \in LiveOf(o.disk, o.fat) /\ At(o.disk, T) = m.file[f].dirent
    <3>1. LiveOf(o.disk, o.fat) = LiveOf(m.disk, m.fat)
      BY <1>2, <1>7
    <3>2. At(o.disk, T) = At(m.disk, T)
      BY <1>8, <2>1
    <3> QED BY <1>3, <3>1, <3>2
  <2> QED BY <2>2, <2>3 DEF Held
<1>12. Grown(m, o, f, size)
  <2>1. o.file[f] = m.file[f] /\ o.mcb = m.mcb
    BY <1>8 DEF SameFiles
  <2>2. m.file[f].dirent = [m.file[f].dirent EXCEPT !.first = h]
    BY <1>1 DEF AnyUnit
  <2>3. On(m.fat, h) \subseteq On(o.fat, h)
    BY <1>5, <1>7
  <2> QED BY <1>4, <1>10, <1>11, <2>1, <2>2, <2>3 DEF Grown
<1>13. o.file[f].where = T
  BY <1>8 DEF SameFiles
<1>14. Enlarged(m, o, f, T, size)
  BY <1>7, <1>8, <1>9, <1>12, <1>13 DEF Enlarged
<1> QED BY <1>14 DEF o, last

LEMMA LongEnough ==
    ASSUME NEW m, NEW f \in FileIds, NEW T, T = m.file[f].where, Fine(m, {}, T), ~m.refused,
           Held(m, f), NEW size \in Nat,
           Len(Chain(m.fat, m.file[f].dirent.first)) >= (size + Units - 1) \div Units
    PROVE  Grown(m, m, f, size)
<1> DEFINE h == m.file[f].dirent.first
           e == m.file[f]
<1>1. m \in AnyVolume /\ e \in AnyFile /\ h \in Firsts /\ e.dirent \in AnyUnit
  BY EntryFields DEF Fine, Sane
<1>2. Cardinality(On(m.fat, h)) = Len(Chain(m.fat, h))
  <2>1. CASE h = Available
    BY <2>1, OnNothing, ClusterFacts, FS_EmptySet DEF Available
  <2>2. CASE h # Available
    <3>1. Whole(m.disk, m.fat, m.full, {})
      BY DEF Fine, Good
    <3>2. m.file[f].where \in LiveOf(m.disk, m.fat)
          /\ At(m.disk, m.file[f].where).first = h
      BY DEF Held
    <3> HIDE DEF h
    <3>3. Starts(m.fat, h)
      BY <2>2, <3>1, <3>2, HeadOf
    <3> QED BY <3>3, HeadCard
  <2> QED BY <2>1, <2>2
<1>3. Len(Chain(m.fat, h)) \in Nat
  BY ChainAlong
<1>4. Units * Cardinality(On(m.fat, h)) >= size
  BY <1>2, <1>3, Needed
<1>5. h = Available => BlankIn(m.disk, On(m.fat, h))
  BY OnNothing, ClusterFacts DEF Available, BlankIn
<1>6. e.dirent = [e.dirent EXCEPT !.first = h]
  BY <1>1 DEF AnyUnit
<1> QED BY <1>4, <1>5, <1>6 DEF Grown

\* What an allocation found becomes the file's.
Ready(m, f, T, n, first, size) ==
    /\ T = m.file[f].where /\ Fine(m, {}, T) /\ Held(m, f)
    /\ m.file[f].dirent.dir =>
          m.file[f].dirent.first = Available /\ m.saved = m.fat
    /\ Fine(n, {first}, T) /\ Ok(n) /\ SameFiles(m, n)
    /\ \E k : Found(m, n, first, k) /\ Room(m.fat, m.file[f].dirent.first, k, size)

LEMMA ReadyFacts ==
    ASSUME NEW m, NEW f, NEW T, NEW n, NEW first, NEW size, Ready(m, f, T, n, first, size)
    PROVE  /\ T = m.file[f].where /\ Fine(m, {}, T) /\ Held(m, f)
           /\ m.file[f].dirent.dir =>
                 m.file[f].dirent.first = Available /\ m.saved = m.fat
           /\ Fine(n, {first}, T) /\ Ok(n) /\ SameFiles(m, n)
BY DEF Ready

LEMMA ReadyAttach ==
    ASSUME NEW m, NEW f \in FileIds, NEW T, NEW n, NEW first, NEW size,
           Ready(m, f, T, n, first, size), m.file[f].dirent.first = Available
    PROVE  Enlarged(m, Attached(n, f, first), f, T, size)
<1>1. PICK k : Found(m, n, first, k) /\ Room(m.fat, Available, k, size)
  BY DEF Ready
<1>2. m.file[f].dirent.dir => m.saved = m.fat
  BY ReadyFacts
<1>3. /\ T = m.file[f].where /\ Fine(m, {}, T) /\ Held(m, f)
      /\ Fine(n, {first}, T) /\ Ok(n) /\ SameFiles(m, n)
  BY ReadyFacts
<1> QED BY <1>1, <1>2, <1>3, AttachFine

LEMMA ReadyAppend ==
    ASSUME NEW m, NEW f \in FileIds, NEW T, NEW n, NEW first, NEW size,
           Ready(m, f, T, n, first, size), NEW h \in Clusters, m.file[f].dirent.first = h
    PROVE  Enlarged(m, SetFatEntry(n, Last(Chain(m.fat, h)), first), f, T, size)
<1>1. PICK k : Found(m, n, first, k) /\ Room(m.fat, h, k, size)
  BY DEF Ready
<1> QED BY <1>1, ReadyFacts, AppendFine

LEMMA JoinedFine ==
    ASSUME NEW m, NEW f \in FileIds, NEW T, NEW a, NEW size,
           Ready(m, f, T, a.m, a.first, size)
    PROVE  Enlarged(m, Joined(a, f, Chain(m.fat, m.file[f].dirent.first)), f, T, size)
<1> DEFINE h == m.file[f].dirent.first
           cs == Chain(m.fat, h)
<1>1. Fine(m, {}, T) /\ Ok(a.m)
  BY ReadyFacts
<1>2. h \in Firsts
  BY <1>1, EntryFields DEF Fine, Sane
<1>3. CASE cs = <<>>
  <2>1. m.file[f].dirent.first = Available
    BY <1>2, <1>3, ChainStarts DEF Firsts
  <2>2. Joined(a, f, cs) = Attached(a.m, f, a.first)
    BY <1>1, <1>3 DEF Joined, Attached
  <2> QED BY <2>1, <2>2, ReadyAttach
<1>4. CASE cs # <<>>
  <2>1. h \in Clusters
    BY <1>4, OnNothing
  <2>2. Joined(a, f, cs) = SetFatEntry(a.m, Last(Chain(m.fat, h)), a.first)
    BY <1>1, <1>4 DEF Joined
  <2> QED BY <2>1, <2>2, ReadyAppend
<1> QED BY <1>3, <1>4

LEMMA GrowFine ==
    ASSUME NEW m, NEW f \in FileIds, NEW T, T = m.file[f].where, Fine(m, {}, T), Ok(m),
           ~m.refused => /\ Held(m, f)
                         /\ m.file[f].dirent.dir =>
                               m.file[f].dirent.first = Available /\ m.saved = m.fat,
           NEW size \in Nat
    PROVE  LET n == FatIncreaseFileAllocation(m, f, size)
           IN  /\ Fine(n, {}, T) /\ Later(m, n, f) /\ n.file[f].where = T
               /\ Ok(n) /\ ~n.refused => Grown(m, n, f, size)
<1> DEFINE h == m.file[f].dirent.first
           cs == Chain(m.fat, h)
           needed == (size + Units - 1) \div Units
           n == FatIncreaseFileAllocation(m, f, size)
           hint == IF cs = <<>> THEN 2 ELSE Last(cs)
           a == FatAllocateClusters(m, needed - Len(cs), hint)
<1>1. m \in AnyVolume /\ h \in Firsts /\ Sane(m)
  BY EntryFields DEF Fine, Sane
<1>2. needed \in Nat
  <2>1. size + Units - 1 \in Nat
    BY Sizes
  <2> QED BY <2>1, Sizes, Division
<1>3. Len(cs) \in Nat
  BY ChainAlong
<1>4. n = IF Len(cs) >= needed THEN m ELSE Joined(a, f, cs)
  BY DEF FatIncreaseFileAllocation, GrownTo
<1> HIDE DEF n, a, needed, hint
<1>5. CASE Len(cs) >= needed
  <2>1. ~m.refused => Grown(m, m, f, size)
    BY <1>5, LongEnough DEF needed
  <2> QED BY <1>4, <1>5, <2>1, LaterReflexive DEF n
<1>6. CASE ~(Len(cs) >= needed)
  <2>1. needed - Len(cs) \in Nat /\ needed - Len(cs) >= 1
    BY <1>2, <1>3, <1>6
  <2>2. hint \in Nat
    <3>1. CASE cs = <<>>
      BY <3>1 DEF hint
    <3>2. CASE cs # <<>>
      <4>1. cs \in Seq(Clusters)
        BY ChainType
      <4> HIDE DEF cs
      <4>2. Last(cs) \in Clusters
        BY <3>2, <4>1 DEF Last
      <4> QED BY <3>2, <4>2, ClusterFacts DEF hint
    <3> QED BY <3>1, <3>2
  <2>3. /\ Fine(a.m, IF Ok(a.m) THEN {a.first} ELSE {}, T) /\ SameFiles(m, a.m)
        /\ ~a.m.refused => ~m.refused /\ Dirs(m, a.m)
        /\ Ok(a.m) => FoundEnough(m, a.m, a.first, needed - Len(cs))
    BY <2>1, <2>2, AllocationFine DEF a
  <2>4. CASE ~Ok(a.m)
    <3>1. n = a.m
      BY <1>4, <1>6, <2>4 DEF Joined
    <3>2. Later(m, n, f)
      BY <2>3, <3>1, WriteLater
    <3>3. Fine(n, {}, T) /\ n.file[f].where = T /\ ~Ok(n)
      BY <2>3, <2>4, <3>1 DEF SameFiles
    <3> QED BY <3>2, <3>3 DEF n
  <2>5. CASE Ok(a.m)
    <3>1. PICK k \in Nat : k >= needed - Len(cs) /\ Found(m, a.m, a.first, k)
      BY <2>3, <2>5 DEF FoundEnough
    <3>2. Fine(a.m, {a.first}, T) /\ ~m.refused
      BY <2>3, <2>5, <3>1 DEF Found
    <3>3. Room(m.fat, h, k, size)
      <4>1. Len(cs) + k \in Nat /\ Len(cs) + k >= needed
        BY <1>2, <1>3, <3>1
      <4>2. Units * (Len(cs) + k) >= size
        BY <4>1, Needed DEF needed
      <4> QED BY <4>2 DEF Room
    <3>4. Ready(m, f, T, a.m, a.first, size)
      <4>1. Found(m, a.m, a.first, k)
        BY <3>1
      <4> QED BY <2>3, <2>5, <3>2, <3>3, <4>1 DEF Ready
    <3>5. Enlarged(m, Joined(a, f, cs), f, T, size)
      BY <3>4, JoinedFine
    <3>6. n = Joined(a, f, cs)
      BY <1>4, <1>6
    <3>7. Enlarged(m, n, f, T, size)
      BY <3>5, <3>6
    <3> QED BY <3>7 DEF n, Enlarged
  <2> QED BY <2>4, <2>5
<1> QED BY <1>5, <1>6

-----------------------------------------------------------------------------
(* A new entry.                                                            *)

\* A volume as an open finds it: the table is the one on the disk.
Clean(m) ==
    /\ Sane(m)
    /\ m.refused => BothApart(m) /\ m.writes = 0
    /\ ~m.refused => Whole(m.disk, m.fat, m.full, {}) /\ m.saved = m.fat

\* A directory of the volume, by its first cluster.
DirAt(disk, first) ==
    first = Root \/ \E p \in Places : RootDir(disk, p) /\ At(disk, p).first = first

\* An entry that has no clusters yet.
New(v) == v \in AnyUnit /\ Entry(v) /\ v.first = Available /\ v.size = 0

\* n has the entry of f in the directory.
Created(m, n, f, first) ==
    /\ Fine(n, {}, n.file[f].where) /\ Later(m, n, f) /\ n.mcb = m.mcb
    /\ Ok(n) /\ ~n.refused => Held(n, f)
    /\ n.file[f].dirent = m.file[f].dirent /\ n.file[f].open = m.file[f].open
    /\ n.file[f].position = m.file[f].position
    /\ first = Root => n.fat = m.fat /\ n.saved = m.saved

LEMMA CleanFine ==
    ASSUME NEW m, Clean(m), NEW T
    PROVE  Fine(m, {}, T)
BY SavedTable DEF Clean, Fine, Good

LEMMA NewFacts ==
    ASSUME NEW v, New(v)
    PROVE  /\ v \in AnyUnit /\ Entry(v) /\ v.first = Available /\ Lead(v) = {}
           /\ v.name \notin {Dot, DotDot}
           /\ \A fat : Units * Cardinality(On(fat, v.first)) >= v.size
<1>1. v \in AnyUnit /\ Entry(v) /\ v.first = Available /\ v.size = 0
  BY DEF New
<1>2. \A fat : On(fat, v.first) = {}
  BY <1>1, OnNothing, ClusterFacts DEF Available
<1>3. \A fat : Units * Cardinality(On(fat, v.first)) >= v.size
  <2>1. Cardinality({}) = 0
    BY FS_EmptySet
  <2> QED BY <1>1, <1>2, <2>1, Sizes
<1> QED BY <1>1, <1>3 DEF Entry, Lead

\* A new entry in a place that is free.
LEMMA FreeRewrites ==
    ASSUME NEW disk, NEW fat, NEW saved, NEW at, NEW v, New(v),
           at[1] \in AreaOf(disk, fat), IsFree(At(disk, at))
    PROVE  Rewrites(disk, fat, saved, {}, {}, at, v)
<1> DEFINE u == At(disk, at)
<1>1. ~Entry(u) /\ u.name \notin {Dot, DotDot} /\ Lead(u) = {}
  BY DEF IsFree, InUse, Entry, Lead, Deleted, Dot, DotDot
<1>2. NewChain(disk, fat, saved, u, v)
  BY NewFacts DEF NewChain
<1>3. Entry(v) /\ ~v.dir => Units * Cardinality(On(fat, v.first)) >= v.size
  BY NewFacts
<1>4. Lead(v) = {} /\ v.name \notin {Dot, DotDot}
  BY NewFacts
<1> HIDE DEF u
<1>5. at[1] \in AreaOf(disk, fat) /\ u = At(disk, at)
  BY DEF u
<1> QED BY <1>1, <1>2, <1>3, <1>4, <1>5 DEF Rewrites

\* The entry of f is written to the place.
Placed(m, n, f, at) ==
    /\ Fine(n, {}, at) /\ Later(m, n, f) /\ n.mcb = m.mcb /\ SameTable(m, n)
    /\ n.file[f] = [m.file[f] EXCEPT !.where = at]
    /\ Ok(n) => Held(n, f)

LEMMA PlacedFree ==
    ASSUME NEW m, NEW f \in FileIds, NEW at \in Places, Fine(m, {}, at), Ok(m),
           ~m.refused => /\ New(m.file[f].dirent)
                         /\ at[1] \in AreaOf(m.disk, m.fat) /\ IsFree(At(m.disk, at))
    PROVE  Placed(m, WriteDirent([m EXCEPT !.file[f].where = at], f), f, at)
<1> DEFINE e == [m.file[f] EXCEPT !.where = at]
           n == WriteDirent([m EXCEPT !.file[f] = e], f)
<1>1. m \in AnyVolume /\ m.file[f] \in AnyFile
  BY EntryFields DEF Fine, Sane
<1>2. e \in AnyFile /\ e.where = at /\ e.dirent = m.file[f].dirent
  BY <1>1, PlaceFacts DEF AnyFile
<1>3. [m EXCEPT !.file[f].where = at] = [m EXCEPT !.file[f] = e]
  BY <1>1, FieldTypes DEF AnyVolume, AnyFile
<1> HIDE DEF e
<1>4. ~m.refused => /\ e.where \in Places
                    /\ Rewrites(m.disk, m.fat, m.saved, {}, {}, e.where, e.dirent)
  <2>1. ~m.refused => Rewrites(m.disk, m.fat, m.saved, {}, {}, at, m.file[f].dirent)
    BY FreeRewrites
  <2> QED BY <1>2, <2>1
<1>5. Fine(m, {}, e.where)
  BY <1>2
<1>6. /\ Fine(n, {}, e.where) /\ WithFile(m, n, f, e) /\ SameTable(m, n)
      /\ Later(m, n, f)
      /\ Ok(n) =>
            /\ ~m.refused /\ At(n.disk, e.where) = e.dirent
            /\ LiveOf(n.disk, n.fat) = (LiveOf(m.disk, m.fat) \ {e.where})
                 \cup (IF Entry(e.dirent) THEN {e.where} ELSE {})
  BY <1>2, <1>4, <1>5, WrittenFine
<1> HIDE DEF n
<1>7. n.file[f] = e /\ n.mcb = m.mcb
  BY <1>6 DEF WithFile
<1>8. ~m.refused => Entry(e.dirent)
  BY <1>2, NewFacts
<1>9. Ok(n) => Held(n, f)
  BY <1>6, <1>7, <1>8 DEF Held
<1>10. Placed(m, n, f, at)
  BY <1>2, <1>6, <1>7, <1>9 DEF e, Placed
<1> QED BY <1>3, <1>10 DEF n

\* The last place of a directory is in its last cluster.
LEMMA LastSlot ==
    ASSUME NEW m, NEW first \in Clusters
    PROVE  LET cs == Chain(m.fat, first)
           IN  Last(Slots(m, first))[1] = cs[Len(cs)] /\ cs[Len(cs)] \in Clusters
<1> DEFINE cs == Chain(m.fat, first)
           k == Len(cs)
<1>1. k \in Nat /\ k >= 1 /\ cs[k] \in Clusters
  BY ChainFacts
<1>2. first # Root
  BY ClusterFacts
<1>3. Slots(m, first) = [i \in 1 .. Units * k |->
                            <<cs[((i - 1) \div Units) + 1], ((i - 1) % Units) + 1>>]
  BY <1>2 DEF Slots, DirectoryClusters
<1> HIDE DEF cs, k
<1>4. Units * k \in Nat /\ Units * k >= 1
  BY <1>1, Sizes
<1>5. Len(Slots(m, first)) = Units * k
  BY <1>3, <1>4
<1>6. ((Units * k - 1) \div Units) = k - 1
  <2>1. Units * k - 1 = Units * (k - 1) + (Units - 1)
    BY <1>1, Sizes
  <2>2. Units - 1 \in 0 .. Units - 1 /\ k - 1 \in Nat
    BY <1>1, Sizes
  <2> QED BY <2>1, <2>2, Sizes, Remainder
<1>7. Slots(m, first)[Units * k][1] = cs[(k - 1) + 1]
  BY <1>3, <1>4, <1>6
<1>8. (k - 1) + 1 = k
  BY <1>1
<1> QED BY <1>1, <1>5, <1>7, <1>8 DEF Last, cs, k

\* A directory of the volume has a chain, which an entry leads to.
LEMMA DirHead ==
    ASSUME NEW disk, NEW fat, NEW full, NEW X, Whole(disk, fat, full, X),
           NEW first \in Clusters, DirAt(disk, first)
    PROVE  /\ first \in HeadsOf(disk, fat) /\ Starts(fat, first)
           /\ On(fat, first) \subseteq AreaOf(disk, fat)
<1>1. PICK p \in Places : RootDir(disk, p) /\ At(disk, p).first = first
  BY ClusterFacts DEF DirAt
<1>2. Dotted(disk, fat)
  BY DEF Whole
<1>3. p \in LiveOf(disk, fat) /\ At(disk, p).first # Available
  BY <1>1, <1>2, RootDirLive
<1>4. On(fat, first) \subseteq Clusters
  BY OnFinite
<1>5. On(fat, first) \subseteq AreaOf(disk, fat)
  BY <1>1, <1>4 DEF AreaOf
<1> QED BY <1>1, <1>3, <1>5, HeadOf

\* The directory is one of n too.
LEMMA DirStays ==
    ASSUME NEW m, NEW n, Dirs(m, n), NEW first, DirAt(m.disk, first)
    PROVE  DirAt(n.disk, first)
BY DEF DirAt, Dirs, Directory

\* The directory has its new cluster.
LEMMA LinkedDirectory ==
    ASSUME NEW m, NEW T, Fine(m, {}, T), NEW first \in Clusters, DirAt(m.disk, first),
           NEW n, NEW c, NEW k, Found(m, n, c, k), Fine(n, {c}, T), Ok(n)
    PROVE  LET last == Chain(m.fat, first)[Len(Chain(m.fat, first))]
               o == SetFatEntry(n, last, c)
           IN  /\ Fine(o, {}, T) /\ SameFiles(n, o) /\ SameDisk(n, o) /\ Dirs(n, o)
               /\ <<c, 1>> \in Places /\ c \in AreaOf(o.disk, o.fat)
               /\ At(o.disk, <<c, 1>>) = Blank
<1> DEFINE cs == Chain(m.fat, first)
           last == cs[Len(cs)]
           o == SetFatEntry(n, last, c)
<1>1. /\ ~m.refused /\ ~n.refused /\ c \in Clusters /\ BlankIn(n.disk, On(n.fat, c))
      /\ Dirs(m, n)
  BY DEF Found
<1>2. Whole(m.disk, m.fat, m.full, {})
  BY <1>1 DEF Fine, Good
<1>3. first \in HeadsOf(m.disk, m.fat) /\ Starts(m.fat, first)
  BY <1>2, DirHead
<1>4. Aside(m, n, c, first)
  BY <1>3, FoundHeads
<1>5. last \in On(m.fat, first) /\ m.fat[last] \notin Clusters
  BY <1>3, ChainFacts, HeadEnds
<1>6. /\ On(n.fat, first) = On(m.fat, first) /\ first \in HeadsOf(n.disk, n.fat)
      /\ n.fat[last] = m.fat[last]
  <2> HIDE DEF last, cs
  <2> QED BY <1>4, <1>5 DEF Aside
<1>7. last \in On(n.fat, first) /\ n.fat[last] \notin Clusters
  BY <1>5, <1>6
<1> HIDE DEF last, cs, o
<1>8. /\ Fine(o, {}, T) /\ SameFiles(n, o) /\ SameDisk(n, o) /\ Dirs(n, o)
      /\ On(o.fat, first) = On(n.fat, first) \cup On(n.fat, c)
  <2>1. BlankIn(n.disk, On(n.fat, c)) /\ first \in HeadsOf(n.disk, n.fat) /\ ~n.refused
    BY <1>1, <1>6
  <2> QED BY <1>7, <2>1, JoinFine DEF o
<1>9. c \in On(n.fat, c) /\ c \in Nat
  BY <1>1, ChainFacts, ClusterFacts
<1>10. ~o.refused /\ o.disk = n.disk
  BY <1>1, <1>8 DEF SameDisk
<1>11. c \in AreaOf(o.disk, o.fat)
  <2>1. Whole(o.disk, o.fat, o.full, {})
    BY <1>8, <1>10 DEF Fine, Good
  <2>2. DirAt(o.disk, first)
    BY <1>1, <1>8, DirStays
  <2>3. On(o.fat, first) \subseteq AreaOf(o.disk, o.fat)
    BY <2>1, <2>2, DirHead
  <2> QED BY <1>8, <1>9, <2>3
<1>12. <<c, 1>> \in Places
  BY <1>1, Sizes, PlaceOf
<1>13. At(o.disk, <<c, 1>>) = Blank
  <2>1. At(n.disk, <<c, 1>>) = Blank
    BY <1>1, <1>9, <1>12 DEF BlankIn
  <2> QED BY <1>10, <2>1
<1> QED BY <1>8, <1>11, <1>12, <1>13 DEF o, last, cs

\* The file table and the mapping are those of m, but for what f has.
LEMMA CreatedIn ==
    ASSUME NEW m, NEW n, SameFiles(m, n), ~n.refused => ~m.refused /\ Dirs(m, n),
           NEW o, NEW f \in FileIds, NEW at, Placed(n, o, f, at), m \in AnyVolume,
           NEW first, first = Root => n.fat = m.fat /\ n.saved = m.saved
    PROVE  Created(m, o, f, first)
<1>1. m.file[f] \in AnyFile /\ n.file[f] = m.file[f] /\ n.mcb = m.mcb
  BY EntryFields DEF SameFiles
<1>2. /\ Fine(o, {}, at) /\ Later(n, o, f) /\ o.mcb = n.mcb /\ SameTable(n, o)
      /\ o.file[f] = [n.file[f] EXCEPT !.where = at] /\ (Ok(o) => Held(o, f))
  BY DEF Placed
<1>3. /\ o.file[f].where = at /\ o.file[f].dirent = m.file[f].dirent
      /\ o.file[f].open = m.file[f].open /\ o.file[f].position = m.file[f].position
  BY <1>1, <1>2 DEF AnyFile
<1>4. Later(m, o, f)
  <2>1. Later(m, n, f)
    BY WriteLater
  <2> QED BY <1>2, <2>1, LaterTransitive
<1>5. first = Root => o.fat = m.fat /\ o.saved = m.saved
  BY <1>2 DEF SameTable
<1> QED BY <1>1, <1>2, <1>3, <1>4, <1>5 DEF Created

LEMMA RootArea ==
    ASSUME NEW disk, NEW fat
    PROVE  Root \in AreaOf(disk, fat)
BY DEF AreaOf

\* The places of a directory of the volume.
LEMMA SlotArea ==
    ASSUME NEW m, NEW first \in Firsts, NEW full, NEW X, Whole(m.disk, m.fat, full, X),
           DirAt(m.disk, first), NEW i \in 1 .. Len(Slots(m, first))
    PROVE  Slots(m, first)[i] \in Places /\ Slots(m, first)[i][1] \in AreaOf(m.disk, m.fat)
<1> DEFINE s == Slots(m, first)
           p == s[i]
<1>1. s \in Seq(Places) /\ p \in SlotsIn(m, first)
  BY SlotsType DEF SlotsIn
<1>2. p \in Places /\ p[1] \in IF first = Root THEN {Root} ELSE On(m.fat, first)
  BY <1>1, SlotsInIs
<1> HIDE DEF s, p
<1>3. CASE first = Root
  BY <1>2, <1>3, RootArea DEF p, s
<1>4. CASE first # Root
  <2>1. first \in Clusters
    BY <1>4, ClusterFacts DEF Firsts
  <2>2. On(m.fat, first) \subseteq AreaOf(m.disk, m.fat)
    BY <2>1, DirHead
  <2> QED BY <1>2, <1>4, <2>2 DEF p, s
<1> QED BY <1>3, <1>4

\* The directory grows.
LEMMA ExtendedCreated ==
    ASSUME NEW m, NEW f \in FileIds, Clean(m), Ok(m), NEW first \in Clusters,
           ~m.refused => DirAt(m.disk, first) /\ New(m.file[f].dirent), NEW last,
           last = Chain(m.fat, first)[Len(Chain(m.fat, first))]
    PROVE  Created(m, ExtendedDirectory(FatAllocateClusters(m, 1, last), f, last), f, first)
<1> DEFINE a == FatAllocateClusters(m, 1, last)
           n == a.m
           at == <<a.first, 1>>
           o == SetFatEntry(n, last, a.first)
           w == WriteDirent([o EXCEPT !.file[f].where = at], f)
<1>1. last \in Nat /\ m \in AnyVolume
  BY ChainFacts, ClusterFacts DEF Clean, Sane
<1>2. \A T : /\ Fine(n, IF Ok(n) THEN {a.first} ELSE {}, T) /\ SameFiles(m, n)
             /\ ~n.refused => ~m.refused /\ Dirs(m, n)
             /\ Ok(n) => FoundEnough(m, n, a.first, 1)
  <2> SUFFICES ASSUME NEW T
               PROVE  /\ Fine(n, IF Ok(n) THEN {a.first} ELSE {}, T) /\ SameFiles(m, n)
                      /\ ~n.refused => ~m.refused /\ Dirs(m, n)
                      /\ Ok(n) => FoundEnough(m, n, a.first, 1)
    OBVIOUS
  <2>1. Fine(m, {}, T)
    BY CleanFine
  <2>2. 1 \in Nat /\ 1 >= 1
    OBVIOUS
  <2> QED BY <1>1, <2>1, <2>2, AllocationFine
<1>3. SameFiles(m, n) /\ (~n.refused => ~m.refused /\ Dirs(m, n))
  BY <1>2
<1>4. first # Root
  BY ClusterFacts
<1> HIDE DEF a, n, o, at
<1>5. CASE ~Ok(n)
  <2>1. Fine(n, {}, n.file[f].where)
    BY <1>2, <1>5
  <2>2. Later(m, n, f)
    BY <1>3, WriteLater
  <2>3. Created(m, n, f, first)
    BY <1>3, <1>4, <1>5, <2>1, <2>2 DEF Created, SameFiles
  <2>4. ExtendedDirectory(a, f, last) = n
    BY <1>5 DEF ExtendedDirectory, n
  <2> QED BY <2>3, <2>4 DEF a
<1>6. CASE Ok(n)
  <2>1. PICK k \in Nat : k >= 1 /\ Found(m, n, a.first, k)
    BY <1>2, <1>6 DEF FoundEnough
  <2>2. Fine(n, {a.first}, at) /\ Fine(m, {}, at)
    BY <1>2, <1>6, CleanFine
  <2>3. DirAt(m.disk, first) /\ a.first \in Clusters /\ ~n.refused
    BY <2>1 DEF Found
  <2>4. /\ Fine(o, {}, at) /\ SameFiles(n, o) /\ SameDisk(n, o) /\ Dirs(n, o)
        /\ at \in Places /\ a.first \in AreaOf(o.disk, o.fat) /\ At(o.disk, at) = Blank
    <3>1. Found(m, n, a.first, k)
      BY <2>1
    <3>2. DirAt(m.disk, first)
      BY <2>3
    <3> QED BY <1>6, <2>2, <3>1, <3>2, LinkedDirectory DEF o, at
  <2>5. Ok(o) /\ (~o.refused => New(o.file[f].dirent)) /\ SameFiles(m, o) /\ o.refused = n.refused
    BY <1>3, <1>6, <2>3, <2>4 DEF SameFiles, SameDisk, Ok
  <2>6. at[1] \in AreaOf(o.disk, o.fat) /\ IsFree(At(o.disk, at))
    <3>1. at[1] = a.first
      BY DEF at
    <3>2. IsFree(Blank)
      BY DEF IsFree, Blank, Dirent
    <3> QED BY <2>4, <3>1, <3>2
  <2>7. ~o.refused => ~m.refused /\ Dirs(m, o)
    BY <1>3, <2>3, <2>4, <2>5, DirsTransitive
  <2>8. Placed(o, w, f, at)
    <3>1. Fine(o, {}, at) /\ at \in Places
      BY <2>4
    <3>2. Ok(o) /\ (~o.refused => New(o.file[f].dirent))
      BY <2>5
    <3>3. ~o.refused => at[1] \in AreaOf(o.disk, o.fat) /\ IsFree(At(o.disk, at))
      BY <2>6
    <3> QED BY <3>1, <3>2, <3>3, PlacedFree
  <2> HIDE DEF w
  <2>9. SameFiles(m, o) /\ m \in AnyVolume
    BY <1>1, <2>5
  <2>10. Created(m, w, f, first)
    BY <1>4, <2>7, <2>8, <2>9, CreatedIn
  <2>11. ExtendedDirectory(a, f, last) = w
    BY <1>6 DEF ExtendedDirectory, n, o, w, at
  <2> QED BY <2>10, <2>11 DEF a
<1> QED BY <1>5, <1>6

LEMMA CreateDirentFine ==
    ASSUME NEW m, NEW f \in FileIds, Clean(m), Ok(m), NEW first \in Firsts,
           ~m.refused => DirAt(m.disk, first) /\ New(m.file[f].dirent)
    PROVE  Created(m, FatCreateDirent(m, f, first), f, first)
<1> DEFINE slots == Slots(m, first)
           Free(p) == IsFree(UnitAt(m, p))
           I == {k \in 1 .. Len(slots) : Free(slots[k])}
           i == SelectInSeq(slots, Free)
           last == Last(slots)[1]
           at == slots[i]
<1>1. slots \in Seq(Places) /\ Len(slots) >= 1 /\ Len(slots) \in Nat
  BY SlotsType, LenProperties
<1>2. i = IF I # {} THEN Min(I) ELSE 0
  BY DEF SelectInSeq
<1>3. i = 0 \/ (i \in 1 .. Len(slots) /\ Free(slots[i]))
  <2>1. I \in SUBSET Nat /\ I \subseteq 1 .. Len(slots)
    OBVIOUS
  <2>2. i \in I => i \in 1 .. Len(slots) /\ Free(slots[i])
    OBVIOUS
  <2> HIDE DEF I, i
  <2> QED BY <1>2, <2>1, <2>2, FirstIndex
<1>4. FatCreateDirent(m, f, first) =
         IF i # 0 THEN WriteDirent([m EXCEPT !.file[f].where = at], f)
         ELSE IF first = Root THEN Failed(m, "ENOSPC")
         ELSE ExtendedDirectory(FatAllocateClusters(m, 1, last), f, last)
  BY DEF FatCreateDirent, PlacedAmong
<1> HIDE DEF slots, I, i
<1>5. m \in AnyVolume /\ \A T : Fine(m, {}, T)
  BY CleanFine DEF Clean, Sane
<1>6. CASE i # 0
  <2> DEFINE n == WriteDirent([m EXCEPT !.file[f].where = at], f)
  <2>1. i \in 1 .. Len(slots) /\ at \in Places /\ IsFree(At(m.disk, at))
    BY <1>1, <1>3, <1>6, ElementOfSeq DEF UnitAt, At
  <2>2. ~m.refused => at[1] \in AreaOf(m.disk, m.fat)
    <3>1. ~m.refused => Whole(m.disk, m.fat, m.full, {})
      BY DEF Clean
    <3> QED BY <2>1, <3>1, SlotArea DEF slots
  <2> HIDE DEF at
  <2>3. Placed(m, n, f, at)
    <3>1. Fine(m, {}, at)
      BY <1>5
    <3>2. ~m.refused => New(m.file[f].dirent)
      OBVIOUS
    <3> QED BY <2>1, <2>2, <3>1, <3>2, PlacedFree
  <2> HIDE DEF n
  <2>4. Created(m, n, f, first)
    <3>1. SameFiles(m, m) /\ (~m.refused => Dirs(m, m))
      BY DirsReflexive DEF SameFiles
    <3> QED BY <1>5, <2>3, <3>1, CreatedIn
  <2> QED BY <1>4, <1>6, <2>4 DEF n
<1>7. CASE i = 0 /\ first = Root
  <2> DEFINE n == Failed(m, "ENOSPC")
  <2>1. Untouched(m, n) /\ n.status = "ENOSPC"
    BY <1>5, FailedUntouched DEF AnyStatus
  <2>5. SameFiles(m, n)
    BY <1>5 DEF SameFiles, Failed, AnyVolume
  <2> HIDE DEF n
  <2>2. Fine(n, {}, n.file[f].where) /\ SameTable(m, n) /\ n.refused = m.refused /\ Dirs(m, n)
    <3>1. Fine(m, {}, n.file[f].where)
      BY <1>5
    <3> QED BY <2>1, <3>1, UntouchedFine
  <2>3. Later(m, n, f) /\ ~Ok(n)
    BY <2>1, <2>2, <2>5, WriteLater DEF Ok
  <2>4. Created(m, n, f, first)
    BY <2>2, <2>3, <2>5 DEF Created, SameFiles, SameTable
  <2> QED BY <1>4, <1>7, <2>4 DEF n
<1>8. CASE i = 0 /\ first # Root
  <2>1. first \in Clusters
    BY <1>8, ClusterFacts DEF Firsts
  <2>2. last = Chain(m.fat, first)[Len(Chain(m.fat, first))]
    BY <2>1, LastSlot DEF slots
  <2> HIDE DEF last
  <2>3. Created(m, ExtendedDirectory(FatAllocateClusters(m, 1, last), f, last), f, first)
    BY <2>1, <2>2, ExtendedCreated
  <2> QED BY <1>4, <1>8, <2>3
<1> QED BY <1>6, <1>7, <1>8

-----------------------------------------------------------------------------
(* Truncation and deletion.                                                *)

\* The entry without its clusters.
Bare(d) == [d EXCEPT !.dir = FALSE, !.readOnly = FALSE, !.first = Available, !.size = 0]

BareFile(m, f) == [m.file[f] EXCEPT !.dirent = Bare(m.file[f].dirent)]

\* The chain of the entry of f is that of the entry on the disk, or of X.
Truncates(m, X, f) ==
    LET T == m.file[f].where
        u == At(m.disk, T)
    IN  /\ T \in Places /\ T[1] \in AreaOf(m.disk, m.fat)
        /\ u.name \notin {Dot, DotDot} /\ m.file[f].dirent.name \notin {Dot, DotDot}
        /\ Entry(u) => ~u.dir
        /\ Lead(u) \cup X = {m.file[f].dirent.first}

\* The entry of f is on the disk, and has no clusters.
Truncated(m, n, f) ==
    /\ Fine(n, {}, n.file[f].where) /\ Later(m, n, f) /\ n.mcb = m.mcb
    /\ n.file[f] = BareFile(m, f)
    /\ Ok(n) /\ ~n.refused /\ Entry(n.file[f].dirent) => Held(n, f)

LEMMA BareFacts ==
    ASSUME NEW d \in AnyUnit
    PROVE  /\ Bare(d) \in AnyUnit /\ Bare(d).first = Available /\ ~Bare(d).dir
           /\ Bare(d).size = 0 /\ Bare(d).name = d.name /\ Lead(Bare(d)) = {}
           /\ Entry(Bare(d)) <=> Entry(d)
<1>1. /\ Bare(d) \in AnyUnit /\ Bare(d).first = Available /\ ~Bare(d).dir
      /\ Bare(d).size = 0 /\ Bare(d).name = d.name
  BY DEF AnyUnit, Bare, Available
<1> QED BY <1>1 DEF Lead, Entry, InUse, IsFree

\* Nothing of an entry is left but, maybe, its name.
LEMMA BareRewrites ==
    ASSUME NEW disk, NEW fat, NEW saved, NEW X, NEW Y, NEW at, NEW v \in AnyUnit,
           at[1] \in AreaOf(disk, fat), At(disk, at).name \notin {Dot, DotDot},
           v.name \notin {Dot, DotDot}, Lead(v) = {}, v.first = Available, v.size = 0,
           Entry(At(disk, at)) => ~At(disk, at).dir, Lead(At(disk, at)) \cup X = Y
    PROVE  Rewrites(disk, fat, saved, X, Y, at, v)
<1> DEFINE u == At(disk, at)
<1>1. NewChain(disk, fat, saved, u, v)
  BY DEF NewChain
<1>2. Units * Cardinality(On(fat, v.first)) >= v.size
  <2>1. On(fat, v.first) = {}
    BY OnNothing, ClusterFacts DEF Available
  <2>2. Cardinality({}) = 0
    BY FS_EmptySet
  <2> QED BY <2>1, <2>2, Sizes
<1>3. Lead(v) \cup Y = Lead(u) \cup X /\ Lead(v) \cap Y = {}
  OBVIOUS
<1> QED BY <1>1, <1>2, <1>3 DEF Rewrites

LEMMA TruncateAt ==
    ASSUME NEW m, NEW f \in FileIds, NEW X, Fine(m, X, m.file[f].where), Ok(m),
           m.file[f].where # Nowhere, m.file[f].dirent.first # Available,
           ~m.refused => Truncates(m, X, f)
    PROVE  Truncated(m, FatTruncateFileAllocation(m, f), f)
<1> DEFINE T == m.file[f].where
           d == m.file[f].dirent
           h == d.first
           e == BareFile(m, f)
           w == WriteDirent([m EXCEPT !.file[f] = e], f)
           n == Freed(w, Chain(m.fat, h))
<1>1. m \in AnyVolume /\ m.file[f] \in AnyFile /\ d \in AnyUnit /\ h \in Clusters
  BY EntryFields DEF Fine, Sane, Firsts
<1>2. e \in AnyFile /\ e.where = T /\ e.dirent = Bare(d)
  BY <1>1, BareFacts DEF AnyFile, BareFile
<1>3. [m EXCEPT !.file[f].dirent = Bare(d)] = [m EXCEPT !.file[f] = e]
  BY <1>1, FieldTypes DEF AnyVolume, AnyFile, BareFile
<1>4. FatTruncateFileAllocation(m, f) = n
  <2>1. FatTruncateFileAllocation(m, f)
           = Freed(WriteDirent([m EXCEPT !.file[f].dirent = Bare(d)], f), Chain(m.fat, h))
    BY <1>1, FieldTypes DEF FatTruncateFileAllocation, AnyVolume, AnyFile, Bare
  <2> QED BY <1>3, <2>1
<1> HIDE DEF e, T, w, n
<1>5. ~m.refused => e.where \in Places
                    /\ Rewrites(m.disk, m.fat, m.saved, X, {h}, e.where, e.dirent)
  <2> SUFFICES ASSUME ~m.refused
               PROVE  T \in Places /\ Rewrites(m.disk, m.fat, m.saved, X, {h}, T, Bare(d))
    BY <1>2
  <2>1. /\ T \in Places /\ T[1] \in AreaOf(m.disk, m.fat)
        /\ At(m.disk, T).name \notin {Dot, DotDot} /\ d.name \notin {Dot, DotDot}
        /\ Entry(At(m.disk, T)) => ~At(m.disk, T).dir
        /\ Lead(At(m.disk, T)) \cup X = {h}
    BY DEF Truncates, T
  <2>2. /\ Bare(d) \in AnyUnit /\ Bare(d).name \notin {Dot, DotDot} /\ Lead(Bare(d)) = {}
        /\ Bare(d).first = Available /\ Bare(d).size = 0
    BY <1>1, <2>1, BareFacts
  <2> QED BY <2>1, <2>2, BareRewrites
<1>6. Fine(m, X, e.where)
  BY <1>2 DEF T
<1>7. /\ Fine(w, {h}, e.where) /\ WithFile(m, w, f, e) /\ SameTable(m, w)
      /\ Later(m, w, f) /\ (w.refused <=> ~Ok(w))
      /\ Ok(w) =>
            /\ ~m.refused /\ At(w.disk, e.where) = e.dirent
            /\ LiveOf(w.disk, w.fat) = (LiveOf(m.disk, m.fat) \ {e.where})
                 \cup (IF Entry(e.dirent) THEN {e.where} ELSE {})
  BY <1>2, <1>5, <1>6, WrittenFine DEF w
<1>8. w.file[f] = e /\ w.mcb = m.mcb /\ w.fat = m.fat
  BY <1>7 DEF WithFile, SameTable
<1>9. CASE ~Ok(w)
  <2>1. n = w
    BY <1>9 DEF n, Freed
  <2>2. Fine(w, {}, T)
    BY <1>2, <1>7, <1>9 DEF Fine
  <2>3. Truncated(m, n, f)
    BY <1>2, <1>7, <1>8, <1>9, <2>1, <2>2 DEF Truncated, e
  <2> QED BY <1>4, <2>3
<1>10. CASE Ok(w)
  <2>1. Fine(w, {h}, T) /\ ~w.refused
    BY <1>2, <1>7, <1>10
  <2>2. n = Freed(w, Chain(w.fat, h))
    BY <1>8 DEF n
  <2>3. /\ Fine(n, {}, T) /\ SameFiles(w, n) /\ SameDisk(w, n) /\ Dirs(w, n)
        /\ LiveOf(n.disk, n.fat) = LiveOf(w.disk, w.fat)
    BY <1>1, <1>10, <2>1, <2>2, FreedFine
  <2>4. n.file[f] = e /\ n.mcb = m.mcb /\ n.disk = w.disk
    BY <1>8, <2>3 DEF SameFiles, SameDisk
  <2>5. Later(m, n, f)
    <3>1. Later(w, n, f)
      BY <2>1, <2>3, WriteLater
    <3> QED BY <1>7, <3>1, LaterTransitive
  <2>6. Entry(e.dirent) => Held(n, f)
    BY <1>7, <1>10, <2>3, <2>4 DEF Held
  <2>7. Truncated(m, n, f)
    BY <1>2, <2>3, <2>4, <2>5, <2>6 DEF Truncated, e
  <2> QED BY <1>4, <2>7
<1> QED BY <1>9, <1>10

\* The file of f is that of the directory, after a call as before.
HeldAfter(m, n, f) ==
    /\ Fine(n, {}, n.file[f].where) /\ Later(m, n, f) /\ n.mcb = m.mcb
    /\ Ok(n) /\ ~n.refused => Held(n, f) /\ ~n.file[f].dirent.dir

\* A held file is in a place of the volume.
LEMMA HeldFacts ==
    ASSUME NEW m, NEW f, Held(m, f)
    PROVE  LET T == m.file[f].where
           IN  /\ T \in LiveOf(m.disk, m.fat) /\ T \in Places /\ T[1] \in AreaOf(m.disk, m.fat)
               /\ At(m.disk, T) = m.file[f].dirent /\ Entry(m.file[f].dirent)
               /\ m.file[f].dirent.name \notin {Dot, DotDot} /\ T # Nowhere
<1> DEFINE T == m.file[f].where
<1>1. T \in LiveOf(m.disk, m.fat) /\ At(m.disk, T) = m.file[f].dirent
  BY DEF Held
<1>2. T \in Places /\ T[1] \in AreaOf(m.disk, m.fat) /\ Entry(At(m.disk, T))
  BY <1>1, LivePlace
<1>3. T # Nowhere
  <2> HIDE DEF T
  <2>1. T[2] \in 1 .. Size(T[1])
    BY <1>2, PlaceFacts
  <2>2. T[2] # 0
    BY <2>1, Sizes
  <2> QED BY <2>2 DEF Nowhere
<1> QED BY <1>1, <1>2, <1>3 DEF Entry

LEMMA TruncateHeld ==
    ASSUME NEW m, NEW f \in FileIds, Fine(m, {}, m.file[f].where), Ok(m),
           ~m.refused => Held(m, f), ~m.file[f].dirent.dir
    PROVE  HeldAfter(m, FatTruncateFileAllocation(m, f), f)
<1> DEFINE T == m.file[f].where
           d == m.file[f].dirent
           n == FatTruncateFileAllocation(m, f)
<1>1. m \in AnyVolume /\ d \in AnyUnit /\ m.file[f] \in AnyFile
  BY EntryFields DEF Fine, Sane
<1>2. CASE T = Nowhere \/ d.first = Available
  <2>1. n = m
    BY <1>2 DEF FatTruncateFileAllocation
  <2> HIDE DEF n
  <2> QED BY <2>1, LaterReflexive DEF HeldAfter, n
<1>3. CASE T # Nowhere /\ d.first # Available
  <2>1. ~m.refused => Truncates(m, {}, f)
    <3> SUFFICES ASSUME ~m.refused PROVE Truncates(m, {}, f)
      OBVIOUS
    <3>1. /\ T \in Places /\ T[1] \in AreaOf(m.disk, m.fat) /\ At(m.disk, T) = d
          /\ Entry(d) /\ d.name \notin {Dot, DotDot}
      BY HeldFacts
    <3>2. Lead(At(m.disk, T)) = {d.first}
      BY <1>3, <3>1 DEF Lead
    <3> QED BY <3>1, <3>2 DEF Truncates
  <2>2. Truncated(m, n, f)
    BY <1>3, <2>1, TruncateAt
  <2> HIDE DEF n
  <2>3. n.file[f].dirent = Bare(d)
    BY <1>1, <2>2 DEF Truncated, BareFile, AnyFile
  <2>4. ~n.file[f].dirent.dir /\ (~m.refused => Entry(n.file[f].dirent))
    <3>1. ~m.refused => Entry(d)
      BY HeldFacts
    <3> QED BY <1>1, <2>3, <3>1, BareFacts
  <2>5. HeldAfter(m, n, f)
    BY <2>2, <2>4 DEF Truncated, HeldAfter, Later
  <2> QED BY <2>5 DEF n
<1> QED BY <1>2, <1>3

\* An entry that keeps its name and its clusters.
LEMMA SameRewrites ==
    ASSUME NEW disk, NEW fat, NEW saved, NEW at, NEW v,
           at[1] \in AreaOf(disk, fat), Entry(At(disk, at)), ~At(disk, at).dir,
           v.name = At(disk, at).name, ~v.dir, v.first = At(disk, at).first,
           Units * Cardinality(On(fat, v.first)) >= v.size
    PROVE  Rewrites(disk, fat, saved, {}, {}, at, v)
<1> DEFINE u == At(disk, at)
<1>1. Entry(v) /\ Lead(v) = Lead(u) /\ v.name \notin {Dot, DotDot}
  BY DEF Entry, InUse, IsFree, Lead
<1>2. NewChain(disk, fat, saved, u, v)
  BY DEF NewChain
<1>3. u.name \notin {Dot, DotDot}
  BY DEF Entry
<1> HIDE DEF u
<1>4. u = At(disk, at)
  BY DEF u
<1> QED BY <1>1, <1>2, <1>3, <1>4 DEF Rewrites

\* The entry of f on the disk is written anew, with another size or another attribute.
SameEntry(d, v) ==
    v \in AnyUnit /\ v.name = d.name /\ v.dir = d.dir /\ v.first = d.first

LEMMA EntryAgain ==
    ASSUME NEW m, NEW f \in FileIds, Fine(m, {}, m.file[f].where), Ok(m),
           NEW v, SameEntry(m.file[f].dirent, v),
           ~m.refused => /\ Held(m, f) /\ ~m.file[f].dirent.dir
                         /\ Units * Cardinality(On(m.fat, v.first)) >= v.size
    PROVE  LET n == WriteDirent([m EXCEPT !.file[f].dirent = v], f)
           IN  /\ HeldAfter(m, n, f) /\ SameTable(m, n)
               /\ n.file[f] = [m.file[f] EXCEPT !.dirent = v]
<1> DEFINE T == m.file[f].where
           d == m.file[f].dirent
           e == [m.file[f] EXCEPT !.dirent = v]
           n == WriteDirent([m EXCEPT !.file[f] = e], f)
<1>1. m \in AnyVolume /\ d \in AnyUnit /\ m.file[f] \in AnyFile
  BY EntryFields DEF Fine, Sane
<1>2. e \in AnyFile /\ e.where = T /\ e.dirent = v
  BY <1>1 DEF AnyFile, SameEntry
<1>3. [m EXCEPT !.file[f].dirent = v] = [m EXCEPT !.file[f] = e]
  BY <1>1, FieldTypes DEF AnyVolume, AnyFile
<1> HIDE DEF e, T
<1>4. ~m.refused => e.where \in Places
                    /\ Rewrites(m.disk, m.fat, m.saved, {}, {}, e.where, e.dirent)
  <2> SUFFICES ASSUME ~m.refused
               PROVE  T \in Places /\ Rewrites(m.disk, m.fat, m.saved, {}, {}, T, v)
    BY <1>2
  <2>1. T \in Places /\ T[1] \in AreaOf(m.disk, m.fat) /\ At(m.disk, T) = d /\ Entry(d)
    BY HeldFacts DEF T
  <2>2. v.name = d.name /\ ~v.dir /\ v.first = d.first
    BY DEF SameEntry
  <2> QED BY <2>1, <2>2, SameRewrites
<1>5. Fine(m, {}, e.where)
  BY <1>2 DEF T
<1>6. /\ Fine(n, {}, e.where) /\ WithFile(m, n, f, e) /\ SameTable(m, n) /\ Later(m, n, f)
      /\ Ok(n) =>
            /\ ~m.refused /\ At(n.disk, e.where) = e.dirent
            /\ LiveOf(n.disk, n.fat) = (LiveOf(m.disk, m.fat) \ {e.where})
                 \cup (IF Entry(e.dirent) THEN {e.where} ELSE {})
  BY <1>2, <1>4, <1>5, WrittenFine
<1> HIDE DEF n
<1>7. n.file[f] = e /\ n.mcb = m.mcb
  BY <1>6 DEF WithFile
<1>8. ~m.refused => Entry(v)
  <2>1. ~m.refused => Entry(d)
    BY HeldFacts
  <2> QED BY <2>1 DEF SameEntry, Entry, InUse, IsFree
<1>9. Ok(n) => Held(n, f)
  BY <1>2, <1>6, <1>7, <1>8 DEF Held
<1>10. ~n.refused => ~d.dir
  BY <1>6 DEF Later
<1>11. HeldAfter(m, n, f)
  BY <1>2, <1>6, <1>7, <1>9, <1>10 DEF HeldAfter, SameEntry
<1> QED BY <1>3, <1>6, <1>7, <1>11 DEF n, e

\* The volume is whole, whatever the entries are whose old chains may differ.
Settled(m) == \E T : Fine(m, {}, T)

LEMMA FailedFine ==
    ASSUME NEW m, NEW X, NEW T, Fine(m, X, T), NEW f, NEW status \in AnyStatus
    PROVE  LET n == Failed(m, status)
           IN  /\ Fine(n, X, T) /\ Later(m, n, f) /\ SameFiles(m, n) /\ SameTable(m, n)
               /\ n.disk = m.disk /\ n.refused = m.refused /\ n.status = status
<1> DEFINE n == Failed(m, status)
<1>1. m \in AnyVolume
  BY DEF Fine, Sane
<1>2. Untouched(m, n) /\ n.status = status
  BY <1>1, FailedUntouched
<1>3. SameFiles(m, n)
  BY <1>1 DEF SameFiles, Failed, AnyVolume
<1> HIDE DEF n
<1>4. Fine(n, X, T) /\ SameTable(m, n) /\ n.disk = m.disk /\ n.refused = m.refused /\ Dirs(m, n)
  BY <1>2, UntouchedFine
<1>5. Later(m, n, f)
  BY <1>3, <1>4, WriteLater
<1> QED BY <1>2, <1>3, <1>4, <1>5 DEF n

\* The entry is marked deleted.
LEMMA MarkedDeleted ==
    ASSUME NEW m, NEW f \in FileIds, Fine(m, {}, m.file[f].where), Ok(m),
           ~m.refused => Held(m, f), ~m.file[f].dirent.dir, m.file[f].where # Nowhere, NEW X,
           X = {m.file[f].dirent.first} \ {Available}
    PROVE  LET n == WriteDirent([m EXCEPT !.file[f].dirent.name = Deleted], f)
           IN  /\ Fine(n, X, n.file[f].where) /\ Later(m, n, f) /\ n.mcb = m.mcb
               /\ n.file[f].where # Nowhere
               /\ n.file[f].dirent.first = m.file[f].dirent.first
               /\ ~Ok(n) => n.refused
               /\ Ok(n) /\ n.file[f].dirent.first # Available => Truncates(n, X, f)
<1> DEFINE T == m.file[f].where
           d == m.file[f].dirent
           v == [d EXCEPT !.name = Deleted]
           e == [m.file[f] EXCEPT !.dirent = v]
           n == WriteDirent([m EXCEPT !.file[f] = e], f)
<1>1. m \in AnyVolume /\ d \in AnyUnit /\ m.file[f] \in AnyFile
  BY EntryFields DEF Fine, Sane
<1>2. v \in AnyUnit /\ v.name = Deleted /\ v.first = d.first /\ ~Entry(v) /\ Lead(v) = {}
      /\ v.name \notin {Dot, DotDot}
  BY <1>1 DEF AnyUnit, AnyName, Entry, InUse, IsFree, Lead, Dot, DotDot, Deleted
<1>3. e \in AnyFile /\ e.where = T /\ e.dirent = v
  BY <1>1, <1>2 DEF AnyFile
<1>4. [m EXCEPT !.file[f].dirent.name = Deleted] = [m EXCEPT !.file[f] = e]
  BY <1>1, FieldTypes DEF AnyVolume, AnyFile
<1> HIDE DEF e, T, v
<1>5. ~m.refused => e.where \in Places
                    /\ Rewrites(m.disk, m.fat, m.saved, {}, X, e.where, e.dirent)
  <2> SUFFICES ASSUME ~m.refused
               PROVE  T \in Places /\ Rewrites(m.disk, m.fat, m.saved, {}, X, T, v)
    BY <1>3
  <2>1. /\ T \in Places /\ T[1] \in AreaOf(m.disk, m.fat) /\ At(m.disk, T) = d /\ Entry(d)
        /\ d.name \notin {Dot, DotDot}
    BY HeldFacts DEF T
  <2>2. Lead(d) = X
    BY <2>1 DEF Lead
  <2>3. NewChain(m.disk, m.fat, m.saved, d, v)
    BY <1>2 DEF NewChain
  <2> HIDE DEF d
  <2> QED BY <1>2, <2>1, <2>2, <2>3 DEF Rewrites, d
<1>6. Fine(m, {}, e.where)
  BY <1>3 DEF T
<1>7. /\ Fine(n, X, e.where) /\ WithFile(m, n, f, e) /\ Later(m, n, f)
      /\ n.refused <=> ~Ok(n)
      /\ Ok(n) => ~m.refused /\ At(n.disk, e.where) = e.dirent
  BY <1>3, <1>5, <1>6, WrittenFine
<1> HIDE DEF n
<1>8. n.file[f] = e /\ n.mcb = m.mcb
  BY <1>7 DEF WithFile
<1>9. n.file[f].where = T /\ n.file[f].dirent = v
  BY <1>3, <1>8
<1>10. Ok(n) /\ d.first # Available => Truncates(n, X, f)
  <2> SUFFICES ASSUME Ok(n), d.first # Available PROVE Truncates(n, X, f)
    OBVIOUS
  <2>1. T \in Places /\ T[1] \in AreaOf(m.disk, m.fat)
    BY <1>7, HeldFacts DEF T
  <2>2. T[1] \in AreaOf(n.disk, n.fat) /\ At(n.disk, T) = v
    BY <1>3, <1>7, <2>1 DEF Later, Dirs
  <2>3. X = {v.first}
    BY <1>2
  <2> QED BY <1>2, <1>9, <2>1, <2>2, <2>3 DEF Truncates
<1> QED BY <1>2, <1>3, <1>4, <1>7, <1>8, <1>9, <1>10 DEF n, T

LEMMA DeleteFine ==
    ASSUME NEW m, NEW f \in FileIds, Fine(m, {}, m.file[f].where), Ok(m),
           ~m.refused => Held(m, f), ~m.file[f].dirent.dir
    PROVE  LET n == DeleteFile(m, f)
           IN  Settled(n) /\ Later(m, n, f) /\ n.mcb = m.mcb
<1> DEFINE X == {m.file[f].dirent.first} \ {Available}
           w == WriteDirent([m EXCEPT !.file[f].dirent.name = Deleted], f)
           n == DeleteFile(m, f)
<1>1. CASE m.file[f].where = Nowhere \/ m.file[f].dirent.readOnly
  <2>1. n = Failed(m, "EACCES")
    BY <1>1 DEF DeleteFile
  <2>2. "EACCES" \in AnyStatus
    BY DEF AnyStatus
  <2> HIDE DEF n
  <2>3. Fine(n, {}, m.file[f].where) /\ Later(m, n, f) /\ SameFiles(m, n)
    BY <2>1, <2>2, FailedFine
  <2> QED BY <2>3 DEF Settled, SameFiles, n
<1>2. CASE m.file[f].where # Nowhere /\ ~m.file[f].dirent.readOnly
  <2>1. /\ Fine(w, X, w.file[f].where) /\ Later(m, w, f) /\ w.mcb = m.mcb
        /\ w.file[f].where # Nowhere /\ w.file[f].dirent.first = m.file[f].dirent.first
        /\ ~Ok(w) => w.refused
        /\ Ok(w) /\ w.file[f].dirent.first # Available => Truncates(w, X, f)
    BY <1>2, MarkedDeleted
  <2>2. n = Emptied(w, f)
    BY <1>2, EntryFields DEF DeleteFile, Fine, Sane
  <2> HIDE DEF w, n
  <2>3. CASE ~Ok(w)
    <3>1. n = w
      BY <2>2, <2>3 DEF Emptied
    <3>2. w.refused => Fine(w, {}, w.file[f].where)
      BY <2>1 DEF Fine
    <3>3. w.refused
      BY <2>1, <2>3
    <3> QED BY <2>1, <3>1, <3>2, <3>3 DEF Settled, n
  <2>4. CASE Ok(w) /\ w.file[f].dirent.first = Available
    <3>1. n = w
      BY <2>2, <2>4 DEF Emptied, FatTruncateFileAllocation
    <3>2. X = {}
      BY <2>1, <2>4
    <3> QED BY <2>1, <3>1, <3>2 DEF Settled, n
  <2>5. CASE Ok(w) /\ w.file[f].dirent.first # Available
    <3>1. n = FatTruncateFileAllocation(w, f)
      BY <2>2, <2>5 DEF Emptied
    <3>2. Truncated(w, n, f)
      <4>1. Truncates(w, X, f)
        BY <2>1, <2>5
      <4>2. Fine(w, X, w.file[f].where) /\ w.file[f].where # Nowhere
        BY <2>1
      <4> HIDE DEF X
      <4> QED BY <2>5, <3>1, <4>1, <4>2, TruncateAt
    <3>3. Later(w, n, f) /\ n.mcb = w.mcb /\ Fine(n, {}, n.file[f].where)
      BY <3>2 DEF Truncated
    <3>4. Later(m, n, f)
      BY <2>1, <3>3, LaterTransitive
    <3> QED BY <2>1, <3>3, <3>4 DEF Settled, n
  <2> QED BY <2>3, <2>4, <2>5
<1> QED BY <1>1, <1>2

LEMMA ReadOnlyFine ==
    ASSUME NEW m, NEW f \in FileIds, Fine(m, {}, m.file[f].where), Ok(m),
           ~m.refused => Held(m, f), ~m.file[f].dirent.dir, NEW on \in BOOLEAN
    PROVE  LET n == SetReadOnly(m, f, on)
           IN  Settled(n) /\ Later(m, n, f) /\ n.mcb = m.mcb
<1> DEFINE d == m.file[f].dirent
           v == [d EXCEPT !.readOnly = on]
           n == SetReadOnly(m, f, on)
<1>1. m \in AnyVolume /\ d \in AnyUnit /\ m.file[f] \in AnyFile
  BY EntryFields DEF Fine, Sane
<1>2. SameEntry(d, v) /\ v.first = d.first /\ v.size = d.size
  BY <1>1 DEF AnyUnit, SameEntry
<1>3. CASE m.file[f].where = Nowhere
  <2>1. n = Failed(m, "EACCES")
    BY <1>3 DEF SetReadOnly
  <2>2. "EACCES" \in AnyStatus
    BY DEF AnyStatus
  <2> HIDE DEF n
  <2>3. Fine(n, {}, m.file[f].where) /\ Later(m, n, f) /\ SameFiles(m, n)
    BY <2>1, <2>2, FailedFine
  <2> QED BY <2>3 DEF Settled, SameFiles, n
<1>4. CASE m.file[f].where # Nowhere
  <2>1. n = WriteDirent([m EXCEPT !.file[f].dirent = v], f)
    BY <1>1, <1>4, FieldTypes DEF SetReadOnly, AnyVolume, AnyFile
  <2>2. ~m.refused => Held(m, f) /\ Units * Cardinality(On(m.fat, v.first)) >= v.size
    <3> SUFFICES ASSUME ~m.refused
                 PROVE  Units * Cardinality(On(m.fat, v.first)) >= v.size
      OBVIOUS
    <3>1. Sufficient(m.disk, m.fat)
      BY DEF Fine, Good, Whole
    <3>2. m.file[f].where \in LiveOf(m.disk, m.fat) /\ At(m.disk, m.file[f].where) = d
      BY DEF Held
    <3> HIDE DEF d
    <3>3. ~d.dir
      BY DEF d
    <3>4. Units * Cardinality(On(m.fat, d.first)) >= d.size
      BY <3>1, <3>2, <3>3 DEF Sufficient
    <3> QED BY <1>2, <3>4
  <2> HIDE DEF v, n
  <2>3. SameEntry(m.file[f].dirent, v)
    BY <1>2
  <2>4. HeldAfter(m, n, f)
    BY <2>1, <2>2, <2>3, EntryAgain
  <2> QED BY <2>4 DEF HeldAfter, Settled, n
<1> QED BY <1>3, <1>4

-----------------------------------------------------------------------------
(* Reading and writing through the mapping.                                *)

\* The mapping, when it is that of f, has clusters of f.
McbHeld(m, f) ==
    m.mcb.owner = f => m.mcb.map \in Seq(On(m.fat, m.file[f].dirent.first))

LEMMA McbFromOn ==
    ASSUME NEW f, NEW fat, NEW h, NEW skip \in Nat
    PROVE  /\ McbFrom(f, Chain(fat, h), skip).owner = f
           /\ McbFrom(f, Chain(fat, h), skip).map \in Seq(On(fat, h))
<1> DEFINE cs == Chain(fat, h)
           S == On(fat, h)
<1>1. cs \in Seq(S) /\ Len(cs) \in Nat
  <2>1. cs \in Seq(Clusters) /\ Len(cs) \in Nat
    BY ChainType
  <2>2. \A i \in 1 .. Len(cs) : cs[i] \in S
    BY DEF On
  <2> HIDE DEF cs, S
  <2> QED BY <2>1, <2>2
<1> HIDE DEF cs, S
<1>2. CASE skip >= Len(cs)
  <2>1. <<>> \in Seq(S)
    BY EmptySeq
  <2> QED BY <1>2, <2>1 DEF McbFrom, cs, S
<1>3. CASE ~(skip >= Len(cs))
  <2>1. SubSeq(cs, skip + 1, Len(cs)) \in Seq(S)
    BY <1>1, <1>3
  <2> DEFINE map == FirstRuns(SubSeq(cs, skip + 1, Len(cs)), MaximumMcb - 1)
  <2>2. map \in Seq(S)
    BY <2>1, FirstRunsType
  <2> HIDE DEF map
  <2> QED BY <1>3, <2>2 DEF McbFrom, map, cs, S
<1> QED BY <1>2, <1>3

\* A mapping of f is in the clusters C when the chain of f is.
LEMMA LoadedWithin ==
    ASSUME NEW m \in AnyVolume, NEW f \in FileIds, NEW vbo \in Nat,
           m.file[f].where # Nowhere, NEW C, On(m.fat, m.file[f].dirent.first) \subseteq C,
           m.mcb.owner = f => m.mcb.map \in Seq(C)
    PROVE  LET n == Loaded(m, f, vbo) IN n.mcb.owner = f /\ n.mcb.map \in Seq(C)
<1> DEFINE n == Loaded(m, f, vbo)
           h == m.file[f].dirent.first
           skip == IF vbo = 0 THEN 0 ELSE ((vbo + Units - 1) \div Units) - 1
           mcb == McbFrom(f, Chain(m.fat, h), skip)
<1>2. skip \in Nat
  <2>1. CASE vbo = 0
    BY <2>1
  <2>2. CASE vbo # 0
    <3>1. vbo + Units - 1 \in Nat /\ vbo + Units - 1 >= Units
      BY <2>2, Sizes
    <3> DEFINE i == vbo + Units - 1
               q == i \div Units
    <3>2. q \in Nat /\ q # 0
      <4>1. q \in Nat /\ i % Units \in 0 .. Units - 1 /\ i = Units * q + (i % Units)
        BY <3>1, Sizes, Division
      <4> HIDE DEF q
      <4>2. ASSUME q = 0 PROVE FALSE
        <5>1. Units * q = 0
          BY <4>2, Sizes
        <5> QED BY <3>1, <4>1, <5>1, Sizes
      <4> QED BY <4>1, <4>2
    <3> HIDE DEF q
    <3> QED BY <2>2, <3>2 DEF q
  <2> QED BY <2>1, <2>2
<1> HIDE DEF skip
<1>3. FatLoadMcb(m, f, vbo) = [m EXCEPT !.mcb = mcb]
  BY DEF FatLoadMcb, skip
<1>4. mcb.owner = f /\ mcb.map \in Seq(C)
  <2>1. mcb.owner = f /\ mcb.map \in Seq(On(m.fat, h))
    BY <1>2, McbFromOn
  <2> HIDE DEF mcb
  <2>2. \A i \in 1 .. Len(mcb.map) : mcb.map[i] \in C
    BY <2>1, ElementOfSeq
  <2> QED BY <2>1, <2>2
<1> HIDE DEF mcb
<1>5. [m EXCEPT !.mcb = mcb].mcb = mcb
  BY DEF AnyVolume
<1>6. CASE n = m /\ m.mcb.owner = f
  BY <1>6
<1>7. CASE n = [m EXCEPT !.mcb = mcb]
  BY <1>4, <1>5, <1>7
<1>8. (n = m /\ m.mcb.owner = f) \/ n = [m EXCEPT !.mcb = mcb]
  BY <1>3 DEF Loaded
<1> QED BY <1>6, <1>7, <1>8

LEMMA LoadedHeld ==
    ASSUME NEW m \in AnyVolume, NEW f \in FileIds, NEW vbo \in Nat,
           m.file[f].where # Nowhere, McbHeld(m, f)
    PROVE  LET n == Loaded(m, f, vbo)
           IN  /\ Untouched(m, n) /\ n.file = m.file /\ n.status = m.status
               /\ n.mcb.owner = f
               /\ n.mcb.map \in Seq(On(n.fat, n.file[f].dirent.first))
<1> DEFINE n == Loaded(m, f, vbo)
           C == On(m.fat, m.file[f].dirent.first)
<1>1. Untouched(m, n) /\ n.file = m.file /\ n.status = m.status
  BY LoadedUntouched
<1>2. m.mcb.owner = f => m.mcb.map \in Seq(C)
  BY DEF McbHeld
<1>3. n.mcb.owner = f /\ n.mcb.map \in Seq(C)
  <2>1. C \subseteq C
    OBVIOUS
  <2> HIDE DEF C
  <2> QED BY <1>2, <2>1, LoadedWithin DEF C
<1> HIDE DEF n
<1>4. n.fat = m.fat /\ n.file[f].dirent.first = m.file[f].dirent.first
  BY <1>1 DEF Untouched
<1> QED BY <1>1, <1>3, <1>4 DEF n

\* An offset that the mapping has is in one of its clusters.
LEMMA LboOn ==
    ASSUME NEW m \in AnyVolume, NEW vbo \in Nat, Maps(m, vbo), NEW C, C \subseteq Clusters,
           m.mcb.map \in Seq(C)
    PROVE  Lbo(m, vbo) \in Places /\ Lbo(m, vbo)[1] \in C
<1> DEFINE map == m.mcb.map
           o == vbo - m.mcb.from
           n == Size(map[1])
<1>1. m.mcb.from \in Nat /\ map \in Seq(C) /\ Len(map) \in Nat
  <2>1. m.mcb \in AnyMcb
    BY FieldTypes
  <2>2. Len(map) \in Nat
    BY LenProperties
  <2> QED BY <2>1, <2>2 DEF AnyMcb
<1>2. map # <<Root>>
  <2> SUFFICES ASSUME map = <<Root>> PROVE FALSE
    OBVIOUS
  <2>1. Len(map) = 1 /\ map[1] = Root
    OBVIOUS
  <2> HIDE DEF map
  <2>2. map[1] \in C
    BY <1>1, <2>1, ElementOfSeq
  <2> QED BY <2>1, <2>2, ClusterFacts
<1>3. o \in Nat /\ o < Units * Len(map)
  <2>1. m.mcb.from <= vbo /\ vbo < m.mcb.from + Units * Len(map)
    BY <1>2 DEF Maps, McbEnd
  <2>2. Units * Len(map) \in Nat
    BY <1>1, Sizes
  <2> QED BY <1>1, <2>1, <2>2
<1>4. Lbo(m, vbo)[1] = map[(o \div n) + 1]
  BY DEF Lbo
<1> HIDE DEF o, map
<1>5. o \div Units \in Nat /\ o \div Units < Len(map)
  BY <1>1, <1>3, Sizes, Quotient
<1>6. (o \div Units) + 1 \in 1 .. Len(map)
  BY <1>1, <1>5
<1>7. map[1] \in C
  BY <1>1, <1>5, ElementOfSeq
<1>8. n = Units
  BY <1>7, Sizes
<1>9. map[(o \div Units) + 1] \in C
  BY <1>1, <1>6, ElementOfSeq
<1> QED BY <1>4, <1>8, <1>9, LboType

\* The unit may be put anywhere in the file of f.
PutReady(m, f, unit) ==
    /\ m.file[f].where # Nowhere /\ McbHeld(m, f)
    /\ \A p \in Places : p[1] \in On(m.fat, m.file[f].dirent.first) =>
           Quiet(m.disk, m.fat, p, unit)

\* The entries are the same, and units of the file alone have changed.
PutKept(m, n, f, unit) ==
    /\ SameTable(m, n) /\ McbHeld(n, f)
    /\ LiveOf(n.disk, n.fat) = LiveOf(m.disk, m.fat)
    /\ AreaOf(n.disk, n.fat) = AreaOf(m.disk, m.fat)
    /\ \A p \in LiveOf(m.disk, m.fat) : At(n.disk, p) = At(m.disk, p)
    /\ \A p \in Places : \/ At(n.disk, p) = At(m.disk, p)
                         \/ p[1] \in On(m.fat, m.file[f].dirent.first) /\ At(n.disk, p) = unit

PutDone(m, n, f, unit, T) ==
    /\ Fine(n, {}, T) /\ n.file = m.file /\ Later(m, n, f)
    /\ ~n.refused => PutKept(m, n, f, unit)

\* The mapping is loaded.
LEMMA LoadedFine ==
    ASSUME NEW m, NEW T, Fine(m, {}, T), NEW f \in FileIds, NEW vbo \in Nat,
           ~m.refused => m.file[f].where # Nowhere /\ McbHeld(m, f)
    PROVE  LET n == Loaded(m, f, vbo)
           IN  /\ Fine(n, {}, T) /\ n.file = m.file /\ Later(m, n, f) /\ n.disk = m.disk
               /\ n.refused = m.refused /\ n.status = m.status /\ SameTable(m, n)
               /\ ~m.refused =>
                     n.mcb.owner = f /\ n.mcb.map \in Seq(On(n.fat, n.file[f].dirent.first))
<1> DEFINE n == Loaded(m, f, vbo)
<1>1. m \in AnyVolume
  BY DEF Fine, Sane
<1>2. Untouched(m, n) /\ n.file = m.file /\ n.status = m.status
  BY <1>1, LoadedUntouched
<1>3. ~m.refused =>
         n.mcb.owner = f /\ n.mcb.map \in Seq(On(n.fat, n.file[f].dirent.first))
  BY <1>1, LoadedHeld
<1> HIDE DEF n
<1>4. /\ Fine(n, {}, T) /\ SameTable(m, n) /\ n.disk = m.disk /\ n.refused = m.refused
      /\ Dirs(m, n)
  BY <1>2, UntouchedFine
<1>5. Later(m, n, f)
  BY <1>2, <1>3, <1>4 DEF Later, Frame
<1> QED BY <1>2, <1>3, <1>4, <1>5 DEF n

LEMMA KeptNothing ==
    ASSUME NEW m, NEW n, NEW f, NEW unit, SameTable(m, n), n.disk = m.disk, McbHeld(n, f)
    PROVE  PutKept(m, n, f, unit)
BY DEF PutKept, SameTable

LEMMA PutFine ==
    ASSUME NEW m, NEW T, Fine(m, {}, T), NEW f \in FileIds, NEW vbo \in Nat,
           NEW unit \in AnyUnit, ~m.refused => PutReady(m, f, unit)
    PROVE  PutDone(m, PutAt(m, f, vbo, unit), f, unit, T)
<1> DEFINE h == m.file[f].dirent.first
           l == Loaded(m, f, vbo)
           at == Lbo(l, vbo)
           n == PutAt(m, f, vbo, unit)
<1>1. CASE ~Ok(m)
  <2>1. n = m
    BY <1>1 DEF PutAt
  <2> HIDE DEF n
  <2>2. ~m.refused => McbHeld(m, f)
    BY DEF PutReady
  <2>3. ~n.refused => PutKept(m, n, f, unit)
    BY <2>1, <2>2, KeptNothing DEF SameTable
  <2>4. PutDone(m, n, f, unit, T)
    BY <2>1, <2>3, LaterReflexive DEF PutDone
  <2> QED BY <2>4 DEF n
<1>2. CASE Ok(m)
  <2>1. n = IF Maps(l, vbo) THEN Write(l, at, unit) ELSE Failed(l, "EINVAL")
    BY <1>2 DEF PutAt, WriteAt
  <2>2. ~m.refused => m.file[f].where # Nowhere /\ McbHeld(m, f)
    BY DEF PutReady
  <2>3. /\ Fine(l, {}, T) /\ l.file = m.file /\ Later(m, l, f) /\ l.disk = m.disk
        /\ l.refused = m.refused /\ l.status = m.status /\ SameTable(m, l)
        /\ ~m.refused =>
              l.mcb.owner = f /\ l.mcb.map \in Seq(On(l.fat, l.file[f].dirent.first))
    BY <2>2, LoadedFine
  <2> HIDE DEF l, at, n
  <2>4. l \in AnyVolume /\ Ok(l) /\ l.fat = m.fat /\ l.file[f].dirent.first = h
    BY <1>2, <2>3 DEF Fine, Sane, Ok, SameTable
  <2>5. On(m.fat, h) \subseteq Clusters
    BY OnFinite
  <2>6. ~m.refused => l.mcb.owner = f /\ l.mcb.map \in Seq(On(m.fat, h))
    BY <2>3, <2>4
  <2>7. CASE ~Maps(l, vbo)
    <3>1. n = Failed(l, "EINVAL") /\ "EINVAL" \in AnyStatus
      BY <2>1, <2>7 DEF AnyStatus
    <3>2. /\ Fine(n, {}, T) /\ Later(l, n, f) /\ SameFiles(l, n) /\ SameTable(l, n)
          /\ n.disk = l.disk /\ n.refused = l.refused
      BY <2>3, <3>1, FailedFine
    <3>3. Later(m, n, f)
      BY <2>3, <3>2, LaterTransitive
    <3>4. n.file = m.file /\ SameTable(m, n) /\ n.disk = m.disk
      BY <2>3, <3>2 DEF SameFiles, SameTable
    <3>5. ~n.refused => McbHeld(n, f)
      BY <2>3, <2>4, <2>6, <3>2, <3>4 DEF McbHeld, SameFiles, SameTable
    <3>6. ~n.refused => PutKept(m, n, f, unit)
      BY <3>4, <3>5, KeptNothing
    <3>7. PutDone(m, n, f, unit, T)
      BY <3>2, <3>3, <3>4, <3>6 DEF PutDone
    <3> QED BY <3>7 DEF n
  <2>8. CASE Maps(l, vbo)
    <3>1. at \in Places
      BY <2>4, <2>8, LboType DEF at
    <3>2. ~m.refused => at[1] \in On(m.fat, h)
      BY <2>4, <2>5, <2>6, <2>8, LboOn DEF at
    <3>3. ~l.refused => Quiet(l.disk, l.fat, at, unit)
      BY <2>3, <2>4, <3>1, <3>2 DEF PutReady
    <3>4. n = Write(l, at, unit)
      BY <2>1, <2>8
    <3>5. /\ Fine(n, {}, T) /\ SameFiles(l, n) /\ SameTable(l, n)
          /\ n.refused <=> ~Ok(n)
          /\ Ok(n) =>
                /\ ~l.refused /\ Dirs(l, n) /\ At(n.disk, at) = unit
                /\ LiveOf(n.disk, n.fat) = LiveOf(l.disk, l.fat)
                /\ AreaOf(n.disk, n.fat) = AreaOf(l.disk, l.fat)
                /\ \A p \in LiveOf(l.disk, l.fat) : At(n.disk, p) = At(l.disk, p)
                /\ \A p \in Places : p # at => At(n.disk, p) = At(l.disk, p)
      BY <2>3, <2>4, <3>1, <3>3, <3>4, QuietFine
    <3>6. Later(l, n, f)
      BY <3>5, WriteLater
    <3>7. Later(m, n, f) /\ n.file = m.file
      BY <2>3, <3>5, <3>6, LaterTransitive DEF SameFiles
    <3>8. SameTable(m, n)
      BY <2>3, <3>5 DEF SameTable
    <3>9. ~n.refused => McbHeld(n, f)
      BY <2>3, <2>4, <2>6, <3>5, <3>7, <3>8 DEF McbHeld, SameFiles, SameTable
    <3>10. ~n.refused => PutKept(m, n, f, unit)
      BY <2>3, <2>4, <3>2, <3>5, <3>8, <3>9 DEF PutKept
    <3>11. PutDone(m, n, f, unit, T)
      BY <3>5, <3>7, <3>10 DEF PutDone
    <3> QED BY <3>11 DEF n
  <2> QED BY <2>7, <2>8
<1> QED BY <1>1, <1>2

-----------------------------------------------------------------------------
(* A new directory.                                                        *)

\* The clusters hold no entry of a file or directory.
NoEntries(disk, C) == \A p \in Places : p[1] \in C => ~Entry(At(disk, p))

\* One of the first two entries of a directory.
DotUnit(unit) == unit \in AnyUnit /\ ~Entry(unit) /\ unit.dir

LEMMA DotUnits ==
    ASSUME NEW first \in Firsts
    PROVE  DotUnit(Dirent(Dot, TRUE, first)) /\ DotUnit(Dirent(DotDot, TRUE, first))
<1>1. Dot \in AnyName /\ DotDot \in AnyName
  BY DEF AnyName
<1>2. Dirent(Dot, TRUE, first) \in AnyUnit /\ Dirent(DotDot, TRUE, first) \in AnyUnit
  BY <1>1, DirentType
<1> QED BY <1>2 DEF DotUnit, Dirent, Entry

LEMMA DotsReady ==
    ASSUME NEW m, NEW f \in FileIds, NEW unit, DotUnit(unit), McbHeld(m, f),
           m.file[f].where # Nowhere,
           NoEntries(m.disk, On(m.fat, m.file[f].dirent.first))
    PROVE  PutReady(m, f, unit)
<1> DEFINE C == On(m.fat, m.file[f].dirent.first)
<1>1. C \subseteq Clusters
  BY OnFinite
<1> HIDE DEF C
<1>2. ASSUME NEW p \in Places, p[1] \in C PROVE Quiet(m.disk, m.fat, p, unit)
  <2>1. p[1] # Root
    BY <1>1, <1>2, ClusterFacts
  <2>2. ~Entry(At(m.disk, p))
    BY <1>2 DEF NoEntries, C
  <2> QED BY <2>1, <2>2 DEF Quiet, DotUnit
<1> QED BY <1>2 DEF PutReady, C

LEMMA DotPut ==
    ASSUME NEW m, NEW T, Fine(m, {}, T), NEW f \in FileIds, NEW vbo \in Nat, NEW unit,
           DotUnit(unit),
           ~m.refused => /\ McbHeld(m, f) /\ m.file[f].where # Nowhere
                         /\ NoEntries(m.disk, On(m.fat, m.file[f].dirent.first))
    PROVE  LET n == PutAt(m, f, vbo, unit)
           IN  /\ Fine(n, {}, T) /\ n.file = m.file /\ Later(m, n, f)
               /\ ~n.refused => /\ McbHeld(n, f) /\ n.file[f].where # Nowhere
                                /\ NoEntries(n.disk, On(n.fat, n.file[f].dirent.first))
<1> DEFINE n == PutAt(m, f, vbo, unit)
           C == On(m.fat, m.file[f].dirent.first)
<1>1. ~m.refused => PutReady(m, f, unit)
  BY DotsReady
<1>2. PutDone(m, n, f, unit, T)
  BY <1>1, PutFine DEF DotUnit
<1> HIDE DEF n
<1>3. /\ Fine(n, {}, T) /\ n.file = m.file /\ Later(m, n, f)
      /\ ~n.refused => PutKept(m, n, f, unit)
  BY <1>2 DEF PutDone
<1>4. ASSUME ~n.refused
      PROVE  /\ McbHeld(n, f) /\ n.file[f].where # Nowhere
             /\ NoEntries(n.disk, On(n.fat, n.file[f].dirent.first))
  <2>1. ~m.refused
    BY <1>3, <1>4 DEF Later
  <2>2. SameTable(m, n) /\ McbHeld(n, f)
    BY <1>3, <1>4 DEF PutKept
  <2>3. \A p \in Places : At(n.disk, p) = At(m.disk, p) \/ At(n.disk, p) = unit
    BY <1>3, <1>4 DEF PutKept
  <2>4. NoEntries(n.disk, C)
    BY <2>1, <2>3 DEF NoEntries, DotUnit
  <2> QED BY <1>3, <2>1, <2>2, <2>4 DEF SameTable
<1> QED BY <1>3, <1>4 DEF n

\* The directory that was made has a cluster, and no mapping yet.
Furnished(m, f) ==
    /\ Fine(m, {}, m.file[f].where)
    /\ Ok(m) /\ ~m.refused =>
          /\ McbHeld(m, f) /\ m.file[f].where # Nowhere
          /\ NoEntries(m.disk, On(m.fat, m.file[f].dirent.first))

LEMMA DotsFine ==
    ASSUME NEW m, NEW f \in FileIds, Furnished(m, f), NEW parent \in Firsts
    PROVE  LET n == WithDots(m, f, parent)
           IN  Fine(n, {}, n.file[f].where) /\ Later(m, n, f)
<1> DEFINE T == m.file[f].where
           dot == Dirent(Dot, TRUE, m.file[f].dirent.first)
           dots == Dirent(DotDot, TRUE, parent)
           o == PutAt(m, f, 0, dot)
           n == PutAt(o, f, 1, dots)
<1>1. m.file[f].dirent.first \in Firsts
  BY EntryFields DEF Furnished, Fine, Sane
<1>2. DotUnit(dot) /\ DotUnit(dots)
  BY <1>1, DotUnits
<1>3. CASE ~Ok(m)
  BY <1>3, LaterReflexive DEF WithDots, Furnished
<1>4. CASE Ok(m)
  <2>1. WithDots(m, f, parent) = n
    BY <1>4 DEF WithDots, Dots
  <2>2. Fine(m, {}, T)
    BY DEF Furnished
  <2>3. ~m.refused => /\ McbHeld(m, f) /\ m.file[f].where # Nowhere
                      /\ NoEntries(m.disk, On(m.fat, m.file[f].dirent.first))
    BY <1>4 DEF Furnished
  <2> HIDE DEF dot, dots, T
  <2>4. 0 \in Nat /\ 1 \in Nat
    OBVIOUS
  <2>5. /\ Fine(o, {}, T) /\ o.file = m.file /\ Later(m, o, f)
        /\ ~o.refused => /\ McbHeld(o, f) /\ o.file[f].where # Nowhere
                         /\ NoEntries(o.disk, On(o.fat, o.file[f].dirent.first))
    BY <1>2, <2>2, <2>3, <2>4, DotPut
  <2> HIDE DEF o
  <2>6. Fine(n, {}, T) /\ n.file = o.file /\ Later(o, n, f)
    BY <1>2, <2>4, <2>5, DotPut
  <2> HIDE DEF n
  <2>7. Later(m, n, f)
    BY <2>5, <2>6, LaterTransitive
  <2> QED BY <2>1, <2>5, <2>6, <2>7 DEF T
<1> QED BY <1>3, <1>4

LEMMA GrowEnlarges ==
    ASSUME NEW m, NEW f \in FileIds, Fine(m, {}, m.file[f].where), Ok(m),
           ~m.refused => Held(m, f),
           ~m.refused /\ m.file[f].dirent.dir =>
               m.file[f].dirent.first = Available /\ m.saved = m.fat,
           NEW size \in Nat
    PROVE  Enlarged(m, FatIncreaseFileAllocation(m, f, size), f, m.file[f].where, size)
BY GrowFine DEF Enlarged

LEMMA FileOpened ==
    ASSUME NEW m, NEW T, Fine(m, {}, T), NEW f \in FileIds
    PROVE  LET n == Opened(m, f)
           IN  /\ Fine(n, {}, T) /\ Later(m, n, f) /\ n.mcb = m.mcb /\ n.status = m.status
               /\ n.refused = m.refused /\ n.disk = m.disk /\ SameTable(m, n)
               /\ n.file[f].where = m.file[f].where /\ n.file[f].dirent = m.file[f].dirent
               /\ Held(m, f) => Held(n, f)
<1> DEFINE e == [m.file[f] EXCEPT !.open = TRUE]
           n == Opened(m, f)
<1>1. m \in AnyVolume /\ m.file[f] \in AnyFile
  BY EntryFields DEF Fine, Sane
<1>2. CASE ~Ok(m)
  BY <1>2, LaterReflexive DEF Opened, SameTable
<1>3. CASE Ok(m)
  <2>1. n = [m EXCEPT !.file[f] = e]
    BY <1>1, <1>3, FieldTypes DEF Opened, AnyVolume, AnyFile
  <2>2. e \in AnyFile /\ e.where = m.file[f].where /\ e.dirent = m.file[f].dirent
    BY <1>1 DEF AnyFile
  <2> HIDE DEF n, e
  <2>3. WithFile(m, n, f, e) /\ Untouched(m, n) /\ n.status = m.status
    BY <1>1, <2>1, <2>2, FileSet
  <2>4. /\ Fine(n, {}, T) /\ SameTable(m, n) /\ n.disk = m.disk /\ n.refused = m.refused
        /\ Dirs(m, n) /\ LiveOf(n.disk, n.fat) = LiveOf(m.disk, m.fat)
    BY <2>3, UntouchedFine
  <2>5. Later(m, n, f)
    BY <2>3, <2>4, FileLater
  <2>6. n.file[f] = e /\ n.mcb = m.mcb
    BY <2>3 DEF WithFile
  <2>7. Held(m, f) => Held(n, f)
    BY <2>2, <2>4, <2>6 DEF Held
  <2> QED BY <2>2, <2>3, <2>4, <2>5, <2>6, <2>7 DEF n
<1> QED BY <1>2, <1>3

\* The new directory gets its cluster.
LEMMA ClusterFurnishes ==
    ASSUME NEW m, NEW f \in FileIds, Fine(m, {}, m.file[f].where),
           m.file[f].dirent.dir, m.file[f].dirent.first = Available, m.mcb.owner # f,
           Ok(m) /\ ~m.refused => Held(m, f) /\ m.saved = m.fat
    PROVE  LET n == WithCluster(m, f) IN Furnished(n, f) /\ Later(m, n, f)
<1> DEFINE T == m.file[f].where
           n == WithCluster(m, f)
<1>1. CASE ~Ok(m)
  <2>1. n = m
    BY <1>1 DEF WithCluster
  <2> HIDE DEF n
  <2> QED BY <1>1, <2>1, LaterReflexive DEF Furnished, n
<1>2. CASE Ok(m)
  <2>1. n = FatIncreaseFileAllocation(m, f, 2)
    BY <1>2 DEF WithCluster
  <2>2. ~m.refused => Held(m, f)
    BY <1>2
  <2>3. ~m.refused /\ m.file[f].dirent.dir =>
            m.file[f].dirent.first = Available /\ m.saved = m.fat
    BY <1>2
  <2>4. 2 \in Nat
    OBVIOUS
  <2> HIDE DEF n
  <2>5. Enlarged(m, n, f, m.file[f].where, 2)
    BY <1>2, <2>1, <2>2, <2>3, <2>4, GrowEnlarges
  <2>6. /\ Fine(n, {}, n.file[f].where) /\ Later(m, n, f)
        /\ Ok(n) /\ ~n.refused => Grown(m, n, f, 2)
    BY <2>5 DEF Enlarged
  <2>7. ASSUME Ok(n), ~n.refused
        PROVE  /\ McbHeld(n, f) /\ n.file[f].where # Nowhere
               /\ NoEntries(n.disk, On(n.fat, n.file[f].dirent.first))
    <3>1. /\ Held(n, f) /\ n.mcb = m.mcb
          /\ BlankIn(n.disk, On(n.fat, n.file[f].dirent.first))
      BY <2>6, <2>7 DEF Grown
    <3>2. n.file[f].where # Nowhere
      BY <3>1, HeldFacts
    <3>3. NoEntries(n.disk, On(n.fat, n.file[f].dirent.first))
      BY <3>1, BlankEntry DEF NoEntries, BlankIn
    <3> QED BY <3>1, <3>2, <3>3 DEF McbHeld
  <2> QED BY <2>6, <2>7 DEF Furnished, n
<1> QED BY <1>1, <1>2

\* A name that an entry may have.
Ordinary(name) == name \in AnyName /\ name \notin {"", Deleted, Dot, DotDot}

LEMMA NewDirent ==
    ASSUME NEW name, Ordinary(name), NEW dir \in BOOLEAN
    PROVE  LET v == Dirent(name, dir, Available)
           IN  New(v) /\ v.dir = dir /\ v.first = Available /\ v.name = name
<1>1. Dirent(name, dir, Available) \in AnyUnit
  BY DirentType DEF Ordinary, Firsts
<1> QED BY <1>1 DEF New, Ordinary, Dirent, Entry, InUse, IsFree

\* An open or a creation starts with a dirent in the file table.
LEMMA DirentClean ==
    ASSUME NEW m, Clean(m), NEW f \in FileIds, NEW v \in AnyUnit
    PROVE  LET n == [m EXCEPT !.file[f].dirent = v]
           IN  /\ Clean(n) /\ n.file[f] = [m.file[f] EXCEPT !.dirent = v] /\ n.mcb = m.mcb
               /\ Later(m, n, f) /\ n.status = m.status /\ n.disk = m.disk
               /\ n.refused = m.refused /\ n.fat = m.fat
<1> DEFINE e == [m.file[f] EXCEPT !.dirent = v]
           n == [m EXCEPT !.file[f].dirent = v]
<1>1. m \in AnyVolume /\ m.file[f] \in AnyFile
  BY EntryFields DEF Clean, Sane
<1>2. n = [m EXCEPT !.file[f] = e] /\ e \in AnyFile
  BY <1>1, FieldTypes DEF AnyVolume, AnyFile
<1> HIDE DEF n, e
<1>3. WithFile(m, n, f, e) /\ Untouched(m, n) /\ n.status = m.status
  BY <1>1, <1>2, FileSet
<1>4. n.disk = m.disk /\ n.refused = m.refused /\ n.fat = m.fat /\ n.saved = m.saved
      /\ n.full = m.full /\ n.dirty = m.dirty /\ n.writes = m.writes /\ n \in AnyVolume
  BY <1>3 DEF Untouched
<1>5. Clean(n)
  BY <1>4 DEF Clean, Sane, BothApart
<1>6. Dirs(m, n)
  BY <1>4, DirsReflexive DEF Dirs, Directory
<1>7. Later(m, n, f)
  BY <1>3, <1>4, <1>6, FileLater
<1> QED BY <1>3, <1>4, <1>5, <1>7 DEF WithFile, n, e

\* A directory in the root.
LEMMA CreateDirectoryFine ==
    ASSUME NEW m, NEW f \in FileIds, Clean(m), Ok(m), m.mcb.owner # f, NEW name,
           Ordinary(name)
    PROVE  LET n == CreateDirectory(m, f, name, Root)
           IN  Fine(n, {}, n.file[f].where) /\ Later(m, n, f)
<1> DEFINE v == Dirent(name, TRUE, Available)
           a == [m EXCEPT !.file[f].dirent = v]
           b == FatCreateDirent(a, f, Root)
           c == WithCluster(b, f)
           d == WithDots(c, f, Root)
           n == Opened(d, f)
<1>1. CreateDirectory(m, f, name, Root) = n
  BY DEF CreateDirectory
<1>2. New(v) /\ v.dir /\ v.first = Available
  BY NewDirent
<1>3. v \in AnyUnit
  BY <1>2 DEF New
<1>4. m.file[f] \in AnyFile
  BY EntryFields DEF Clean, Sane
<1> HIDE DEF v
<1>5. /\ Clean(a) /\ a.file[f] = [m.file[f] EXCEPT !.dirent = v] /\ a.mcb = m.mcb
      /\ Later(m, a, f) /\ a.status = m.status
  BY <1>3, DirentClean
<1>6. a.file[f].dirent = v /\ Ok(a)
  BY <1>4, <1>5 DEF AnyFile, Ok
<1> HIDE DEF a
<1>7. Root \in Firsts /\ DirAt(a.disk, Root)
  BY DEF Firsts, DirAt, Root, Available
<1>8. Created(a, b, f, Root)
  BY <1>2, <1>5, <1>6, <1>7, CreateDirentFine
<1> HIDE DEF b
<1>9. /\ Fine(b, {}, b.file[f].where) /\ Later(a, b, f) /\ b.mcb = a.mcb
      /\ b.file[f].dirent = v /\ b.fat = a.fat /\ b.saved = a.saved
      /\ Ok(b) /\ ~b.refused => Held(b, f)
  BY <1>6, <1>8 DEF Created
<1>10. ASSUME ~b.refused PROVE b.saved = b.fat
  BY <1>5, <1>9, <1>10 DEF Later, Clean
<1>11. Furnished(c, f) /\ Later(b, c, f)
  BY <1>2, <1>5, <1>9, <1>10, ClusterFurnishes
<1> HIDE DEF c
<1>12. Fine(d, {}, d.file[f].where) /\ Later(c, d, f)
  BY <1>7, <1>11, DotsFine
<1> HIDE DEF d
<1>13. Fine(n, {}, d.file[f].where) /\ Later(d, n, f) /\ n.file[f].where = d.file[f].where
  BY <1>12, FileOpened
<1> HIDE DEF n
<1>14. Later(m, b, f)
  BY <1>5, <1>9, LaterTransitive
<1>15. Later(m, d, f)
  BY <1>11, <1>12, <1>14, LaterTransitive
<1>16. Later(m, n, f)
  BY <1>13, <1>15, LaterTransitive
<1> QED BY <1>1, <1>13, <1>16

-----------------------------------------------------------------------------
(* Data.                                                                   *)

\* The clusters of a file hold no entries.
LEMMA FileOutside ==
    ASSUME NEW disk, NEW fat, NEW full, NEW X, Whole(disk, fat, full, X),
           NEW p \in LiveOf(disk, fat), ~At(disk, p).dir,
           NEW c \in On(fat, At(disk, p).first)
    PROVE  c \notin AreaOf(disk, fat) /\ c # Root
<1>1. c \in Clusters
  BY OnFinite
<1>2. c # Root
  BY <1>1, ClusterFacts
<1>3. ASSUME c \in AreaOf(disk, fat) PROVE FALSE
  <2>1. Dotted(disk, fat) /\ Apart(disk, fat)
    BY WholeApart DEF Whole
  <2>2. PICK q \in LiveOf(disk, fat) :
            RootDir(disk, q) /\ c \in On(fat, At(disk, q).first)
    BY <1>2, <1>3, <2>1, AreaLive
  <2>3. At(disk, q).dir
    BY <2>2 DEF RootDir
  <2>4. On(fat, At(disk, p).first) \cap On(fat, At(disk, q).first) = {}
    BY <2>1, <2>3 DEF Apart
  <2> QED BY <2>2, <2>4
<1> QED BY <1>2, <1>3

LEMMA DataReady ==
    ASSUME NEW m, NEW T, Fine(m, {}, T), ~m.refused, NEW f, Held(m, f),
           ~m.file[f].dirent.dir, McbHeld(m, f), NEW unit
    PROVE  PutReady(m, f, unit)
<1>1. /\ m.file[f].where \in LiveOf(m.disk, m.fat) /\ m.file[f].where # Nowhere
      /\ At(m.disk, m.file[f].where) = m.file[f].dirent
  BY HeldFacts
<1>2. Whole(m.disk, m.fat, m.full, {})
  BY DEF Fine, Good
<1>3. ASSUME NEW p \in Places, p[1] \in On(m.fat, m.file[f].dirent.first)
      PROVE  Quiet(m.disk, m.fat, p, unit)
  <2>1. p[1] \notin AreaOf(m.disk, m.fat) /\ p[1] # Root
    BY <1>1, <1>2, <1>3, FileOutside
  <2> QED BY <2>1 DEF Quiet
<1> QED BY <1>1, <1>3 DEF PutReady

\* A file that is written: the entry of the file table is that of the directory, and a
\* mapping that is its own has its clusters.
Writable(m, f) == Held(m, f) /\ ~m.file[f].dirent.dir /\ McbHeld(m, f)

Writing(m, f, T) ==
    /\ Fine(m, {}, T) /\ m.file[f].where = T
    /\ Ok(m) /\ ~m.refused => Writable(m, f)

\* ... and n is made of m by a step of the write.
Writes(m, n, f, T) == Writing(n, f, T) /\ Later(m, n, f)

LEMMA ExtendedWrites ==
    ASSUME NEW m, NEW f \in FileIds, NEW T, Writing(m, f, T), NEW beyond \in Nat,
           Ok(m) /\ ~m.refused =>
               Units * Cardinality(On(m.fat, m.file[f].dirent.first)) >= beyond
    PROVE  Writes(m, Extended(m, f, beyond), f, T)
<1> DEFINE d == m.file[f].dirent
           v == [d EXCEPT !.size = beyond]
           n == WriteDirent([m EXCEPT !.file[f].dirent = v], f)
<1>1. CASE ~Ok(m)
  BY <1>1, LaterReflexive DEF Extended, Writes
<1>2. CASE Ok(m)
  <2>1. m \in AnyVolume /\ d \in AnyUnit /\ m.file[f] \in AnyFile
    BY EntryFields DEF Writing, Fine, Sane
  <2>2. [m EXCEPT !.file[f].dirent.size = beyond] = [m EXCEPT !.file[f].dirent = v]
    BY <2>1, FieldTypes DEF AnyVolume, AnyFile
  <2>3. SameEntry(d, v) /\ v.size = beyond
    BY <2>1 DEF SameEntry, AnyUnit
  <2>4. v.first = d.first
    BY <2>3 DEF SameEntry
  <2>5. Extended(m, f, beyond) = n
    BY <1>2, <2>2 DEF Extended
  <2>6. ~m.refused => Held(m, f) /\ ~d.dir /\ McbHeld(m, f)
    BY <1>2 DEF Writing, Writable
  <2>7. Fine(m, {}, m.file[f].where) /\ m.file[f].where = T
    BY DEF Writing
  <2> HIDE DEF v
  <2>8. /\ HeldAfter(m, n, f) /\ SameTable(m, n)
        /\ n.file[f] = [m.file[f] EXCEPT !.dirent = v]
    BY <1>2, <2>3, <2>4, <2>6, <2>7, EntryAgain
  <2> HIDE DEF n
  <2>9. n.file[f].where = T /\ n.file[f].dirent = v
    BY <2>1, <2>7, <2>8 DEF AnyFile
  <2>10. /\ Fine(n, {}, T) /\ Later(m, n, f) /\ n.mcb = m.mcb
         /\ Ok(n) /\ ~n.refused => Held(n, f) /\ ~n.file[f].dirent.dir
    BY <2>8, <2>9 DEF HeldAfter
  <2>11. ASSUME ~n.refused PROVE McbHeld(n, f)
    <3>1. McbHeld(m, f)
      BY <2>6, <2>10, <2>11 DEF Later
    <3> QED BY <2>4, <2>8, <2>9, <2>10, <3>1 DEF McbHeld, SameTable
  <2>12. Writing(n, f, T)
    BY <2>9, <2>10, <2>11 DEF Writing, Writable
  <2> QED BY <2>5, <2>10, <2>12 DEF Writes
<1> QED BY <1>1, <1>2

LEMMA SizedWrites ==
    ASSUME NEW m, NEW f \in FileIds, NEW T, Writing(m, f, T), Ok(m), NEW beyond \in Nat
    PROVE  Writes(m, Sized(m, f, beyond), f, T)
<1> DEFINE a == FatIncreaseFileAllocation(m, f, beyond)
           n == Extended(a, f, beyond)
<1>1. CASE beyond <= m.file[f].dirent.size
  BY <1>1, LaterReflexive DEF Sized, Writes
<1>2. CASE ~(beyond <= m.file[f].dirent.size)
  <2>1. Sized(m, f, beyond) = n
    BY <1>2 DEF Sized
  <2>2. Fine(m, {}, m.file[f].where) /\ m.file[f].where = T
    BY DEF Writing
  <2>3. ~m.refused => Held(m, f) /\ ~m.file[f].dirent.dir /\ McbHeld(m, f)
    BY DEF Writing, Writable
  <2>4. Enlarged(m, a, f, T, beyond)
    BY <2>2, <2>3, GrowEnlarges
  <2> HIDE DEF a
  <2>5. /\ Fine(a, {}, T) /\ Later(m, a, f) /\ a.file[f].where = T
        /\ Ok(a) /\ ~a.refused => Grown(m, a, f, beyond)
    BY <2>4 DEF Enlarged
  <2>6. ASSUME Ok(a), ~a.refused
        PROVE  /\ Writable(a, f)
               /\ Units * Cardinality(On(a.fat, a.file[f].dirent.first)) >= beyond
    <3>1. /\ Held(a, f) /\ a.mcb = m.mcb
          /\ a.file[f].dirent = [m.file[f].dirent EXCEPT !.first = a.file[f].dirent.first]
          /\ On(m.fat, m.file[f].dirent.first) \subseteq On(a.fat, a.file[f].dirent.first)
          /\ Units * Cardinality(On(a.fat, a.file[f].dirent.first)) >= beyond
      BY <2>5, <2>6 DEF Grown
    <3>2. ~m.refused
      BY <2>5, <2>6 DEF Later
    <3>3. m.file[f].dirent \in AnyUnit
      BY EntryFields DEF Writing, Fine, Sane
    <3>4. ~a.file[f].dirent.dir
      BY <2>3, <3>1, <3>2, <3>3 DEF AnyUnit
    <3>5. McbHeld(a, f)
      <4>1. McbHeld(m, f)
        BY <2>3, <3>2
      <4>2. ASSUME a.mcb.owner = f
            PROVE  a.mcb.map \in Seq(On(a.fat, a.file[f].dirent.first))
        <5>1. m.mcb.map \in Seq(On(m.fat, m.file[f].dirent.first))
          BY <3>1, <4>1, <4>2 DEF McbHeld
        <5> QED BY <3>1, <5>1
      <4> QED BY <4>2 DEF McbHeld
    <3> QED BY <3>1, <3>4, <3>5 DEF Writable
  <2>7. Writing(a, f, T)
    BY <2>5, <2>6 DEF Writing
  <2>8. Writes(a, n, f, T)
    BY <2>6, <2>7, ExtendedWrites
  <2> HIDE DEF n
  <2>9. Later(m, n, f)
    BY <2>5, <2>8, LaterTransitive DEF Writes
  <2> QED BY <2>1, <2>8, <2>9 DEF Writes
<1> QED BY <1>1, <1>2

\* The position of an open file, set.
LEMMA MovedWrites ==
    ASSUME NEW m, NEW f \in FileIds, NEW T, Writing(m, f, T)
    PROVE  Writes(m, Advanced(m, f), f, T)
<1> DEFINE e == [m.file[f] EXCEPT !.position = @ + 1]
           n == Advanced(m, f)
<1>1. m \in AnyVolume /\ m.file[f] \in AnyFile /\ m.file[f].position \in Nat
  BY EntryFields DEF Writing, Fine, Sane
<1>2. CASE ~Ok(m)
  BY <1>2, LaterReflexive DEF Advanced, Writes
<1>3. CASE Ok(m)
  <2>1. n = [m EXCEPT !.file[f] = e]
    BY <1>1, <1>3, FieldTypes DEF Advanced, AnyVolume, AnyFile
  <2>2. m.file[f].position + 1 \in Nat
    BY <1>1
  <2>3. e \in AnyFile /\ e.where = m.file[f].where /\ e.dirent = m.file[f].dirent
    BY <1>1, <2>2 DEF AnyFile
  <2> HIDE DEF n, e
  <2>4. WithFile(m, n, f, e) /\ Untouched(m, n) /\ n.status = m.status
    BY <1>1, <2>1, <2>3, FileSet
  <2>5. Fine(m, {}, T) /\ m.file[f].where = T
    BY DEF Writing
  <2>6. /\ Fine(n, {}, T) /\ SameTable(m, n) /\ n.disk = m.disk /\ n.refused = m.refused
        /\ Dirs(m, n) /\ LiveOf(n.disk, n.fat) = LiveOf(m.disk, m.fat)
    BY <2>4, <2>5, UntouchedFine
  <2>7. Later(m, n, f)
    BY <2>4, <2>6, FileLater
  <2>8. n.file[f] = e /\ n.mcb = m.mcb
    BY <2>4 DEF WithFile
  <2>9. Writable(m, f) => Writable(n, f)
    BY <2>3, <2>6, <2>8 DEF Writable, Held, McbHeld, SameTable
  <2>10. Writing(n, f, T)
    BY <2>3, <2>4, <2>5, <2>6, <2>8, <2>9 DEF Writing, Ok
  <2> QED BY <2>7, <2>10 DEF Writes, n
<1> QED BY <1>2, <1>3

LEMMA PutWrites ==
    ASSUME NEW m, NEW f \in FileIds, NEW T, Writing(m, f, T), NEW vbo \in Nat,
           NEW unit \in AnyUnit
    PROVE  Writes(m, PutAt(m, f, vbo, unit), f, T)
<1> DEFINE n == PutAt(m, f, vbo, unit)
<1>1. CASE ~Ok(m)
  BY <1>1, LaterReflexive DEF PutAt, Writes
<1>2. CASE Ok(m)
  <2>1. Fine(m, {}, T) /\ m.file[f].where = T
    BY DEF Writing
  <2>2. ~m.refused => Held(m, f) /\ ~m.file[f].dirent.dir /\ McbHeld(m, f)
    BY <1>2 DEF Writing, Writable
  <2>3. ~m.refused => PutReady(m, f, unit)
    BY <2>1, <2>2, DataReady
  <2>4. PutDone(m, n, f, unit, T)
    BY <2>1, <2>3, PutFine
  <2> HIDE DEF n
  <2>5. /\ Fine(n, {}, T) /\ n.file = m.file /\ Later(m, n, f)
        /\ ~n.refused => PutKept(m, n, f, unit)
    BY <2>4 DEF PutDone
  <2>6. ASSUME ~n.refused PROVE Writable(n, f)
    <3>1. ~m.refused
      BY <2>5, <2>6 DEF Later
    <3>2. /\ McbHeld(n, f) /\ LiveOf(n.disk, n.fat) = LiveOf(m.disk, m.fat)
          /\ \A p \in LiveOf(m.disk, m.fat) : At(n.disk, p) = At(m.disk, p)
      BY <2>5, <2>6 DEF PutKept
    <3>3. Held(n, f)
      BY <2>2, <2>5, <3>1, <3>2 DEF Held
    <3> QED BY <2>2, <2>5, <3>1, <3>2, <3>3 DEF Writable
  <2>7. Writing(n, f, T)
    BY <2>1, <2>5, <2>6 DEF Writing
  <2> QED BY <2>5, <2>7 DEF Writes, n
<1> QED BY <1>1, <1>2

LEMMA WritesTransitive ==
    ASSUME NEW m, NEW n, NEW o, NEW f, NEW T, Writes(m, n, f, T), Writes(n, o, f, T)
    PROVE  Writes(m, o, f, T)
BY LaterTransitive DEF Writes

LEMMA PutNextWrites ==
    ASSUME NEW m, NEW f \in FileIds, NEW T, Writing(m, f, T), NEW unit \in AnyUnit
    PROVE  Writes(m, PutNext(m, f, unit), f, T)
<1> DEFINE n == PutAt(m, f, m.file[f].position, unit)
           o == Advanced(n, f)
<1>1. m.file[f].position \in Nat
  BY EntryFields DEF Writing, Fine, Sane
<1>2. Writes(m, n, f, T)
  BY <1>1, PutWrites
<1> HIDE DEF n
<1>3. Writes(n, o, f, T)
  BY <1>2, MovedWrites DEF Writes
<1>4. PutNext(m, f, unit) = o
  BY DEF PutNext, n
<1> HIDE DEF o
<1> QED BY <1>2, <1>3, <1>4, WritesTransitive

\* The table is saved at the end of a write, of a close.
LEMMA FlushWrites ==
    ASSUME NEW m, NEW f, NEW T, Writing(m, f, T)
    PROVE  Writes(m, Flush(m), f, T)
<1> DEFINE n == Flush(m)
<1>1. Fine(m, {}, T)
  BY DEF Writing
<1>2. /\ Fine(n, {}, T) /\ SameFiles(m, n)
      /\ n.disk = m.disk /\ n.fat = m.fat /\ n.full = m.full
      /\ ~n.refused => ~m.refused /\ n.status = m.status
  BY <1>1, FlushFine
<1> HIDE DEF n
<1>3. Dirs(m, n)
  BY <1>2, DirsReflexive DEF Dirs, Directory
<1>4. Later(m, n, f)
  BY <1>2, <1>3, WriteLater
<1>5. n.file[f] = m.file[f]
  BY <1>2 DEF SameFiles
<1>6. Writable(m, f) => Writable(n, f)
  BY <1>2 DEF Writable, Held, McbHeld, SameFiles
<1>7. Writing(n, f, T)
  BY <1>2, <1>5, <1>6 DEF Writing, Ok
<1> QED BY <1>4, <1>7 DEF Writes, n

LEMMA WriteWrites ==
    ASSUME NEW m, NEW f \in FileIds, NEW T, Writing(m, f, T), Ok(m),
           NEW units \in Seq(AnyUnit)
    PROVE  Writes(m, FatWrite(m, f, units), f, T)
<1>1. Sane(m)
  BY DEF Writing, Fine
<1>2. PICK h : /\ PutTurns(m, f, units, h)
               /\ FatWrite(m, f, units) = Flush(h[Len(units)])
  BY <1>1, WriteTurns
<1> DEFINE K == {k \in 0 .. Len(units) : Writes(m, h[k], f, T)}
<1>3. Len(units) \in Nat /\ m.file[f].position + Len(units) \in Nat
  <2>1. m.file[f].position \in Nat
    BY EntryFields DEF Writing, Fine, Sane
  <2> QED BY <2>1
<1>4. 0 \in K
  <2>1. h[0] = Sized(m, f, m.file[f].position + Len(units))
    BY <1>2 DEF PutTurns
  <2>2. Writes(m, h[0], f, T)
    BY <1>3, <2>1, SizedWrites
  <2> QED BY <1>3, <2>2
<1>5. ASSUME NEW k \in 1 .. Len(units), k - 1 \in K PROVE k \in K
  <2>1. Writes(m, h[k - 1], f, T)
    BY <1>5
  <2>2. units[k] \in AnyUnit
    BY <1>3
  <2>3. h[k] = PutNext(h[k - 1], f, units[k])
    BY <1>2 DEF PutTurns
  <2>4. Writing(h[k - 1], f, T)
    BY <2>1 DEF Writes
  <2>5. Writes(h[k - 1], h[k], f, T)
    BY <2>2, <2>3, <2>4, PutNextWrites
  <2>6. Writes(m, h[k], f, T)
    BY <2>1, <2>5, WritesTransitive
  <2> QED BY <1>3, <2>6
<1> HIDE DEF K
<1>6. Len(units) \in K
  BY <1>3, <1>4, <1>5, UpTo
<1>7. Writes(m, h[Len(units)], f, T)
  BY <1>6 DEF K
<1>8. Writes(h[Len(units)], Flush(h[Len(units)]), f, T)
  BY <1>7, FlushWrites DEF Writes
<1> QED BY <1>2, <1>7, <1>8, WritesTransitive

-----------------------------------------------------------------------------
(* Closing, and looking for what a path names.                             *)

\* The file table and the mapping change, and nothing else.
LEMMA OnlyFiles ==
    ASSUME NEW m, NEW n, NEW T, Fine(m, {}, T), Untouched(m, n), NEW f, Frame(m, n, f)
    PROVE  Fine(n, {}, T) /\ Later(m, n, f)
<1>1. Fine(n, {}, T) /\ n.refused = m.refused /\ Dirs(m, n)
  BY UntouchedFine
<1> QED BY <1>1 DEF Later

LEMMA CloseFine ==
    ASSUME NEW m, NEW T, Fine(m, {}, T), NEW f \in FileIds
    PROVE  LET n == FatClose(m, f) IN Fine(n, {}, T) /\ Later(m, n, f)
<1> DEFINE a == [m EXCEPT !.file[f] = NoFile]
           b == Flush(a)
           n == Unmapped(b, f)
<1>1. FatClose(m, f) = n
  BY DEF FatClose
<1>2. m \in AnyVolume /\ NoFile \in AnyFile
  BY NoFileType DEF Fine, Sane
<1>3. WithFile(m, a, f, NoFile) /\ Untouched(m, a)
  BY <1>2, FileSet
<1> HIDE DEF a
<1>4. Frame(m, a, f)
  BY <1>3 DEF WithFile, Frame
<1>5. Fine(a, {}, T) /\ Later(m, a, f)
  BY <1>3, <1>4, OnlyFiles
<1>6. /\ Fine(b, {}, T) /\ SameFiles(a, b) /\ b.disk = a.disk /\ b.fat = a.fat
      /\ ~b.refused => ~a.refused
  BY <1>5, FlushFine
<1> HIDE DEF b
<1>7. Dirs(a, b)
  BY <1>6, DirsReflexive DEF Dirs, Directory
<1>8. Later(a, b, f)
  BY <1>6, <1>7, WriteLater
<1>9. b \in AnyVolume
  BY <1>6 DEF Fine, Sane
<1>10. Untouched(b, n) /\ n.file = b.file /\ (n.mcb = b.mcb \/ n.mcb.owner = "")
  <2> DEFINE c == [b EXCEPT !.mcb = NoMcb]
  <2>1. c \in AnyVolume
    BY <1>9, NoMcbType, McbType
  <2>2. Untouched(b, c) /\ c.file = b.file /\ c.mcb.owner = ""
    BY <1>9, <2>1 DEF Untouched, AnyVolume, NoMcb
  <2>3. n = b \/ n = c
    BY DEF Unmapped
  <2> HIDE DEF c, n
  <2> QED BY <1>9, <2>2, <2>3, UntouchedReflexive
<1> HIDE DEF n
<1>11. Frame(b, n, f)
  BY <1>10 DEF Frame
<1>12. Fine(n, {}, T) /\ Later(b, n, f)
  BY <1>6, <1>10, <1>11, OnlyFiles
<1> QED BY <1>1, <1>5, <1>8, <1>12, LaterTransitive

\* A volume with nothing that waits to be saved.
Rested(m) == Settled(m) /\ (~m.refused => ~m.dirty)

LEMMA RestedFine ==
    ASSUME NEW m, Rested(m), NEW T
    PROVE  Fine(m, {}, T)
<1>1. PICK S : Fine(m, {}, S)
  BY DEF Rested, Settled
<1>2. ~m.refused => m.saved = m.fat
  BY <1>1 DEF Rested, Fine, Sane
<1>3. ~m.refused => Good(m, {}, T)
  BY <1>1, <1>2, SavedTable DEF Fine, Good
<1> QED BY <1>1, <1>3 DEF Fine

LEMMA RecognizedFine ==
    ASSUME NEW m, Rested(m), NEW f
    PROVE  LET n == Recognized(m)
           IN  /\ Clean(n) /\ Later(m, n, f) /\ n.mcb = NoMcb /\ n.status = m.status
               /\ n.refused = m.refused
<1> DEFINE n == Recognized(m)
<1>1. Fine(m, {}, Nowhere)
  BY RestedFine
<1>2. Sane(m) /\ m \in AnyVolume
  BY <1>1 DEF Fine, Sane
<1>3. Sane(n)
  BY <1>2, RecognizedFollows, FollowsSane
<1>4. /\ n.disk = m.disk /\ n.saved = m.saved /\ n.fat = m.saved /\ n.full = m.full
      /\ n.refused = m.refused /\ n.writes = m.writes /\ n.status = m.status
      /\ n.mcb = NoMcb /\ n.file = m.file
  BY <1>2 DEF Recognized, AnyVolume
<1> HIDE DEF n
<1>5. ~m.refused => m.saved = m.fat
  BY <1>2 DEF Rested, Sane
<1>6. m.refused => BothApart(n) /\ n.writes = 0
  BY <1>1, <1>4 DEF Fine, BothApart
<1>7. ~m.refused => Whole(n.disk, n.fat, n.full, {}) /\ n.saved = n.fat
  BY <1>1, <1>4, <1>5 DEF Fine, Good
<1>8. Clean(n)
  BY <1>3, <1>4, <1>6, <1>7 DEF Clean
<1>9. ~m.refused => Dirs(m, n)
  BY <1>4, <1>5, DirsReflexive DEF Dirs, Directory
<1>10. Frame(m, n, f)
  <2>1. NoMcb.owner = ""
    BY DEF NoMcb
  <2> QED BY <1>4, <2>1 DEF Frame
<1>11. Later(m, n, f)
  BY <1>4, <1>9, <1>10 DEF Later
<1> QED BY <1>4, <1>8, <1>11 DEF n

LEMMA SearchIn ==
    ASSUME NEW m, NEW slots \in Seq(Places), NEW name
    PROVE  LET at == SearchAmong(m, slots, name)
           IN  \/ at = Nowhere
               \/ At(m.disk, at).name = name /\ \E i \in 1 .. Len(slots) : at = slots[i]
<1> DEFINE Ends(at) == UnitAt(m, at).name \in {name, Blank.name}
           I == {k \in 1 .. Len(slots) : Ends(slots[k])}
           i == SelectInSeq(slots, Ends)
<1>1. i = IF I # {} THEN Min(I) ELSE 0
  BY DEF SelectInSeq
<1>2. i = 0 \/ i \in 1 .. Len(slots)
  <2>1. I \in SUBSET Nat /\ I \subseteq 1 .. Len(slots)
    OBVIOUS
  <2> HIDE DEF I, i
  <2> QED BY <1>1, <2>1, FirstIndex
<1>3. SearchAmong(m, slots, name) =
         IF i = 0 THEN Nowhere
         ELSE IF UnitAt(m, slots[i]).name = name THEN slots[i] ELSE Nowhere
  BY DEF SearchAmong
<1> HIDE DEF i, I
<1> QED BY <1>2, <1>3 DEF UnitAt, At

\* An entry of an ordinary name that a search of a directory finds is a live one.
LEMMA SearchLive ==
    ASSUME NEW m, NEW full, NEW X, Whole(m.disk, m.fat, full, X), NEW first \in Firsts,
           DirAt(m.disk, first), NEW name, Ordinary(name)
    PROVE  LET at == FatSearchForDirent(m, first, name)
           IN  at = Nowhere \/ at \in LiveOf(m.disk, m.fat)
<1> DEFINE slots == Slots(m, first)
           at == FatSearchForDirent(m, first, name)
<1>1. slots \in Seq(Places)
  BY SlotsType
<1>2. \/ at = Nowhere
      \/ At(m.disk, at).name = name /\ \E i \in 1 .. Len(slots) : at = slots[i]
  BY <1>1, SearchIn DEF FatSearchForDirent
<1> HIDE DEF slots, at
<1>3. ASSUME NEW i \in 1 .. Len(slots), at = slots[i], At(m.disk, at).name = name
      PROVE  at \in LiveOf(m.disk, m.fat)
  <2>1. at \in Places /\ at[1] \in AreaOf(m.disk, m.fat)
    BY <1>3, SlotArea DEF slots
  <2>2. Entry(At(m.disk, at))
    BY <1>3 DEF Ordinary, Entry, InUse, IsFree
  <2> QED BY <2>1, <2>2 DEF LiveOf
<1> QED BY <1>2, <1>3 DEF at

\* A path to an entry of the root, or of a directory in the root.
GoodPath(path) ==
    /\ path \in Seq(AnyName) /\ Len(path) \in {1, 2}
    /\ \A i \in 1 .. Len(path) : Ordinary(path[i])

\* What a walk ended with: an entry, or the directory that has none of the name.
Finds(m, w) ==
    /\ w \in Walks /\ ~w.left
    /\ w.found => w.where \in LiveOf(m.disk, m.fat) /\ w.dirent = At(m.disk, w.where)
    /\ ~w.found => w.where = Nowhere /\ DirAt(m.disk, w.dir)

\* ... and it looked in the root.
InRoot(w) ==
    /\ w.found => w.where[1] = Root /\ (w.dirent.dir => w.dir = w.dirent.first)
    /\ ~w.found => w.dir = Root

LEMMA SearchRoot ==
    ASSUME NEW m, NEW name
    PROVE  LET at == FatSearchForDirent(m, Root, name)
           IN  at = Nowhere \/ at[1] = Root
<1> DEFINE slots == Slots(m, Root)
           at == FatSearchForDirent(m, Root, name)
<1>1. Root \in Firsts
  BY DEF Firsts, Root, Available
<1>2. slots \in Seq(Places)
  BY <1>1, SlotsType
<1>3. SlotsIn(m, Root) = {p \in Places : p[1] \in {Root}}
  BY <1>1, SlotsInIs
<1>4. \A i \in 1 .. Len(slots) : slots[i][1] = Root
  BY <1>2, <1>3 DEF SlotsIn
<1>5. at = Nowhere \/ \E i \in 1 .. Len(slots) : at = slots[i]
  BY <1>2, SearchIn DEF FatSearchForDirent
<1> HIDE DEF slots, at
<1> QED BY <1>4, <1>5 DEF at

LEMMA EnteredFinds ==
    ASSUME NEW m \in AnyVolume, NEW full, NEW X, Whole(m.disk, m.fat, full, X),
           NEW walk \in Walks, walk.found, ~walk.left, walk.dirent.dir,
           DirAt(m.disk, walk.dir), NEW name, Ordinary(name)
    PROVE  Finds(m, WalkOn(m, walk, name))
<1> DEFINE at == FatSearchForDirent(m, walk.dir, name)
           w == WalkOn(m, walk, name)
<1>1. w \in Walks
  BY WalkOnType
<1>2. at = Nowhere \/ at \in LiveOf(m.disk, m.fat)
  BY SearchLive DEF Walks
<1>3. w = Entered(m, walk, at)
  BY DEF WalkOn
<1> HIDE DEF at, w
<1>4. CASE at = Nowhere
  <2>1. w = [walk EXCEPT !.found = FALSE, !.where = Nowhere]
    BY <1>3, <1>4 DEF Entered
  <2>2. w.found = FALSE /\ w.where = Nowhere /\ w.dir = walk.dir /\ w.left = walk.left
    BY <2>1 DEF Walks
  <2> QED BY <1>1, <2>2 DEF Finds, w
<1>5. CASE at # Nowhere /\ at \in LiveOf(m.disk, m.fat)
  <2>1. w = [walk EXCEPT !.where = at, !.dirent = UnitAt(m, at),
                         !.dir = IF UnitAt(m, at).dir THEN UnitAt(m, at).first ELSE @]
    BY <1>3, <1>5 DEF Entered
  <2>2. w.found = TRUE /\ w.where = at /\ w.dirent = UnitAt(m, at) /\ w.left = walk.left
    BY <2>1 DEF Walks
  <2> QED BY <1>1, <1>5, <2>2 DEF Finds, w, UnitAt, At
<1> QED BY <1>2, <1>4, <1>5

\* The first component is looked for in the root.
Begun == [dir |-> Root, where |-> Nowhere, dirent |-> RootFile.dirent, found |-> TRUE,
          left |-> FALSE]

LEMMA BegunFacts ==
    /\ Begun \in Walks /\ Begun.found /\ ~Begun.left /\ Begun.dirent.dir
    /\ Begun.dir = Root
<1>1. RootFile.dirent \in AnyUnit
  BY NoFileType DEF AnyFile
<1>2. Root \in Firsts /\ Nowhere \in Nat \X Nat
  BY ClusterFacts DEF Firsts, Nowhere
<1>3. Begun \in Walks
  BY <1>1, <1>2 DEF Walks, Begun
<1>4. RootFile.dirent.dir
  BY DEF RootFile, NoFile, Dirent
<1> QED BY <1>3, <1>4 DEF Begun

LEMMA FirstInRoot ==
    ASSUME NEW m \in AnyVolume, NEW name
    PROVE  InRoot(WalkOn(m, Begun, name))
<1> DEFINE at == FatSearchForDirent(m, Root, name)
           w == WalkOn(m, Begun, name)
<1>1. at = Nowhere \/ at[1] = Root
  BY SearchRoot
<1>2. w = Entered(m, Begun, at)
  BY BegunFacts DEF WalkOn
<1> HIDE DEF at, w
<1>3. CASE at = Nowhere
  <2>1. w = [Begun EXCEPT !.found = FALSE, !.where = Nowhere]
    BY <1>2, <1>3 DEF Entered
  <2>2. w.found = FALSE /\ w.dir = Root
    BY <2>1, BegunFacts DEF Walks
  <2> QED BY <2>2 DEF InRoot, w
<1>4. CASE at # Nowhere
  <2>1. w = [Begun EXCEPT !.where = at, !.dirent = UnitAt(m, at),
                          !.dir = IF UnitAt(m, at).dir THEN UnitAt(m, at).first ELSE @]
    BY <1>2, <1>4 DEF Entered
  <2>2. w.found = TRUE /\ w.where = at /\ w.dirent = UnitAt(m, at)
    BY <2>1, BegunFacts DEF Walks
  <2>3. UnitAt(m, at).dir => w.dir = UnitAt(m, at).first
    BY <2>1, BegunFacts DEF Walks
  <2> QED BY <1>1, <1>4, <2>2, <2>3 DEF InRoot, w
<1> QED BY <1>3, <1>4

LEMMA FirstFinds ==
    ASSUME NEW m \in AnyVolume, NEW full, NEW X, Whole(m.disk, m.fat, full, X),
           NEW name, Ordinary(name)
    PROVE  Finds(m, WalkOn(m, Begun, name))
<1>1. DirAt(m.disk, Root)
  BY DEF DirAt
<1> QED BY <1>1, BegunFacts, EnteredFinds

\* A directory found in the root is one of the volume.
LEMMA RootDirectory ==
    ASSUME NEW m, NEW w, Finds(m, w), InRoot(w), w.found, w.dirent.dir
    PROVE  DirAt(m.disk, w.dirent.first) /\ w.dir = w.dirent.first
<1>1. /\ w.where \in LiveOf(m.disk, m.fat) /\ w.dirent = At(m.disk, w.where)
      /\ w.where[1] = Root /\ w.dir = w.dirent.first
  BY DEF Finds, InRoot
<1>2. w.where \in Places /\ Entry(At(m.disk, w.where))
  BY <1>1, LivePlace
<1>3. w.dirent.first = Root \/ RootDir(m.disk, w.where)
  BY <1>1, <1>2 DEF RootDir, Entry
<1> QED BY <1>1, <1>2, <1>3 DEF DirAt

\* A path has a step for each component.
LEMMA WalkSteps ==
    ASSUME NEW m \in AnyVolume, NEW path, GoodPath(path)
    PROVE  LET w == WalkOn(m, Begun, path[1])
           IN  /\ Len(path) = 1 => Walk(m, path) = w
               /\ Len(path) = 2 => Walk(m, path) = WalkOn(m, w, path[2])
<1>1. path \in Seq(AnyName) /\ Len(path) \in {1, 2}
  BY DEF GoodPath
<1>2. PICK g \in [0 .. Len(path) -> Walks] :
          Passed(m, path, g) /\ Walk(m, path) = g[Len(path)]
  BY <1>1, WalkTurns
<1>3. g[0] = Begun
  BY <1>1, <1>2 DEF Passed, Begun
<1>4. ASSUME NEW i \in 1 .. Len(path) PROVE g[i] = WalkOn(m, g[i - 1], path[i])
  <2>1. i \in 0 .. Len(path) /\ i # 0
    BY <1>1
  <2> QED BY <1>2, <2>1 DEF Passed
<1>5. g[1] = WalkOn(m, Begun, path[1])
  <2>1. 1 \in 1 .. Len(path) /\ 1 - 1 = 0
    BY <1>1
  <2> QED BY <1>3, <1>4, <2>1
<1>6. Len(path) = 2 => g[2] = WalkOn(m, g[1], path[2])
  <2>1. Len(path) = 2 => 2 \in 1 .. Len(path)
    OBVIOUS
  <2>2. 2 - 1 = 1
    OBVIOUS
  <2> QED BY <1>4, <2>1, <2>2
<1>7. Walk(m, path) = g[Len(path)]
  BY <1>2
<1> QED BY <1>5, <1>6, <1>7

LEMMA WalkInRoot ==
    ASSUME NEW m \in AnyVolume, NEW path, GoodPath(path), Len(path) = 1
    PROVE  InRoot(Walk(m, path))
BY WalkSteps, FirstInRoot

LEMMA WalkFinds ==
    ASSUME NEW m \in AnyVolume, NEW full, NEW X, Whole(m.disk, m.fat, full, X),
           NEW path, GoodPath(path)
    PROVE  LET w == Walk(m, path)
           IN  (w.left \/ Finds(m, w)) /\ (Len(path) = 1 => Finds(m, w))
<1> DEFINE w == WalkOn(m, Begun, path[1])
<1>1. Len(path) = 1 \/ Len(path) = 2
  BY DEF GoodPath
<1>2. Ordinary(path[1]) /\ (Len(path) = 2 => Ordinary(path[2]))
  <2>1. \A i \in 1 .. Len(path) : Ordinary(path[i])
    BY DEF GoodPath
  <2>2. 1 \in 1 .. Len(path) /\ (Len(path) = 2 => 2 \in 1 .. Len(path))
    BY <1>1
  <2> QED BY <2>1, <2>2
<1>3. Finds(m, w) /\ InRoot(w)
  BY <1>2, FirstFinds, FirstInRoot
<1>4. /\ Len(path) = 1 => Walk(m, path) = w
      /\ Len(path) = 2 => Walk(m, path) = WalkOn(m, w, path[2])
  BY WalkSteps
<1> HIDE DEF w
<1>5. CASE Len(path) = 1
  BY <1>3, <1>4, <1>5
<1>6. CASE Len(path) = 2
  <2>1. Ordinary(path[2])
    BY <1>2, <1>6
  <2>2. w \in Walks /\ ~w.left
    BY <1>3 DEF Finds
  <2>3. CASE ~w.found \/ ~w.dirent.dir
    <3>1. Walk(m, path) = [w EXCEPT !.left = TRUE]
      BY <1>4, <1>6, <2>3 DEF WalkOn
    <3>2. Walk(m, path).left
      BY <2>2, <3>1 DEF Walks
    <3> QED BY <1>6, <3>2
  <2>4. CASE w.found /\ w.dirent.dir
    <3>1. DirAt(m.disk, w.dir)
      BY <1>3, <2>4, RootDirectory
    <3>2. Finds(m, WalkOn(m, w, path[2]))
      BY <2>1, <2>2, <2>4, <3>1, EnteredFinds
    <3> QED BY <1>4, <1>6, <3>2
  <2> QED BY <2>3, <2>4
<1> QED BY <1>1, <1>5, <1>6

-----------------------------------------------------------------------------
(* Opening.                                                                *)

\* A directory that is open: its first cluster is one of a directory of the volume, and
\* a mapping that is its own is in the clusters of directories.
DirOpen(n, f) ==
    /\ DirAt(n.disk, n.file[f].dirent.first)
    /\ n.file[f].where # Nowhere
    /\ n.mcb.owner = f => n.mcb.map \in Seq(AreaOf(n.disk, n.fat) \ {Root})

\* What an open leaves.
OpenedFor(m, n, f, mode) ==
    /\ Settled(n) /\ Later(m, n, f)
    /\ mode = "SupersedeWriteOnly" /\ Ok(n) /\ ~n.refused =>
          Fine(n, {}, n.file[f].where) /\ Writable(n, f)
    /\ mode = "OpenReadOnly" /\ Ok(n) =>
          ~n.file[f].dirent.dir /\ (~n.refused => Held(n, f))
    /\ mode = "OpenDirectory" /\ Ok(n) /\ ~n.refused => DirOpen(n, f)

\* The state in which an open starts.
Begins(m, f) == Clean(m) /\ Ok(m) /\ m.mcb.owner # f

LEMMA FailedOpens ==
    ASSUME NEW m, NEW f, Begins(m, f), NEW status \in AnyStatus, status # "ESUCCESS",
           NEW mode
    PROVE  OpenedFor(m, Failed(m, status), f, mode)
<1> DEFINE n == Failed(m, status)
<1>1. Fine(m, {}, Nowhere)
  BY CleanFine DEF Begins
<1>2. Fine(n, {}, Nowhere) /\ Later(m, n, f) /\ n.status = status
  BY <1>1, FailedFine
<1> HIDE DEF n
<1> QED BY <1>2 DEF OpenedFor, Settled, Ok, n

\* The file that was found is opened as it is.
LEMMA PlainOpens ==
    ASSUME NEW m, NEW f \in FileIds, NEW T, Fine(m, {}, T), NEW mode,
           mode = "SupersedeWriteOnly" /\ Ok(m) /\ ~m.refused =>
               T = m.file[f].where /\ Writable(m, f),
           mode = "OpenReadOnly" /\ Ok(m) =>
               ~m.file[f].dirent.dir /\ (~m.refused => Held(m, f)),
           mode = "OpenDirectory" /\ Ok(m) /\ ~m.refused => DirOpen(m, f)
    PROVE  OpenedFor(m, Opened(m, f), f, mode)
<1> DEFINE n == Opened(m, f)
<1>1. /\ Fine(n, {}, T) /\ Later(m, n, f) /\ n.mcb = m.mcb /\ n.status = m.status
      /\ n.refused = m.refused /\ n.disk = m.disk /\ SameTable(m, n)
      /\ n.file[f].where = m.file[f].where /\ n.file[f].dirent = m.file[f].dirent
      /\ Held(m, f) => Held(n, f)
  BY FileOpened
<1> HIDE DEF n
<1>2. Writable(m, f) => Writable(n, f)
  BY <1>1 DEF Writable, McbHeld, SameTable
<1>3. DirOpen(m, f) => DirOpen(n, f)
  BY <1>1 DEF DirOpen, SameTable
<1>4. Ok(n) <=> Ok(m)
  BY <1>1 DEF Ok
<1> QED BY <1>1, <1>2, <1>3, <1>4 DEF OpenedFor, Settled, n

LEMMA OpenedLater ==
    ASSUME NEW m, NEW n, NEW o, NEW f, NEW mode, Later(m, n, f), OpenedFor(n, o, f, mode)
    PROVE  OpenedFor(m, o, f, mode)
BY LaterTransitive DEF OpenedFor

Modes == {"OpenReadOnly", "OpenDirectory", "SupersedeWriteOnly", "CreateDirectory"}

LEMMA FoundOpens ==
    ASSUME NEW m, NEW f \in FileIds, Begins(m, f), NEW mode \in Modes,
           ~m.refused => Held(m, f),
           mode = "OpenDirectory" /\ ~m.refused /\ m.file[f].dirent.dir =>
               DirAt(m.disk, m.file[f].dirent.first)
    PROVE  OpenedFor(m, OpenFound(m, f, m.file[f].dirent, mode), f, mode)
<1> DEFINE e == m.file[f].dirent
           T == m.file[f].where
           n == OpenFound(m, f, e, mode)
           o == FatTruncateFileAllocation(m, f)
<1>1. Clean(m) /\ Ok(m) /\ m.mcb.owner # f
  BY DEF Begins
<1>2. Fine(m, {}, T)
  BY <1>1, CleanFine
<1>3. ~m.refused => T # Nowhere
  BY HeldFacts
<1>4. /\ "EACCES" \in AnyStatus /\ "EISDIR" \in AnyStatus
      /\ "EROFS" \in AnyStatus /\ "ENOTDIR" \in AnyStatus
  BY DEF AnyStatus
<1>5. CASE e.dir /\ mode = "OpenDirectory"
  <2>1. ~m.refused => DirOpen(m, f)
    BY <1>1, <1>3, <1>5 DEF DirOpen
  <2>2. OpenedFor(m, Opened(m, f), f, mode)
    BY <1>2, <1>5, <2>1, PlainOpens
  <2>3. n = Opened(m, f)
    BY <1>5 DEF OpenFound
  <2> QED BY <2>2, <2>3
<1>6. CASE e.dir /\ mode # "OpenDirectory"
  <2>1. n = Failed(m, "EACCES") \/ n = Failed(m, "EISDIR")
    BY <1>6 DEF OpenFound
  <2> HIDE DEF n
  <2> QED BY <1>4, <2>1, FailedOpens DEF n
<1>7. CASE ~e.dir /\ mode = "OpenReadOnly"
  <2>1. OpenedFor(m, Opened(m, f), f, mode)
    BY <1>2, <1>7, PlainOpens
  <2>2. n = Opened(m, f)
    BY <1>7 DEF OpenFound
  <2> QED BY <2>1, <2>2
<1>8. CASE ~e.dir /\ mode = "SupersedeWriteOnly" /\ e.readOnly
  <2>1. n = Failed(m, "EROFS")
    BY <1>8 DEF OpenFound
  <2> HIDE DEF n
  <2> QED BY <1>4, <2>1, FailedOpens DEF n
<1>9. CASE ~e.dir /\ mode = "SupersedeWriteOnly" /\ ~e.readOnly
  <2>1. n = Opened(o, f)
    BY <1>9 DEF OpenFound
  <2>2. HeldAfter(m, o, f)
    BY <1>1, <1>2, <1>9, TruncateHeld
  <2> HIDE DEF o
  <2>3. /\ Fine(o, {}, o.file[f].where) /\ Later(m, o, f) /\ o.mcb = m.mcb
        /\ Ok(o) /\ ~o.refused => Held(o, f) /\ ~o.file[f].dirent.dir
    BY <2>2 DEF HeldAfter
  <2>4. Ok(o) /\ ~o.refused => Writable(o, f)
    BY <1>1, <2>3 DEF Writable, McbHeld
  <2>5. OpenedFor(o, Opened(o, f), f, mode)
    BY <1>9, <2>3, <2>4, PlainOpens
  <2> HIDE DEF n
  <2> QED BY <2>1, <2>3, <2>5, OpenedLater DEF n
<1>10. CASE ~e.dir /\ mode \notin {"OpenReadOnly", "SupersedeWriteOnly"}
  <2>1. n = Failed(m, "ENOTDIR")
    BY <1>10 DEF OpenFound
  <2> HIDE DEF n
  <2> QED BY <1>4, <2>1, FailedOpens DEF n
<1> QED BY <1>5, <1>6, <1>7, <1>8, <1>9, <1>10

LEMMA MissingOpens ==
    ASSUME NEW m, NEW f \in FileIds, Begins(m, f), NEW mode \in Modes,
           NEW name \in AnyName, NEW parent \in Firsts,
           ~m.refused => Ordinary(name) /\ DirAt(m.disk, parent),
           mode = "CreateDirectory" => Ordinary(name) /\ parent = Root
    PROVE  OpenedFor(m, OpenMissing(m, f, name, parent, mode), f, mode)
<1> DEFINE n == OpenMissing(m, f, name, parent, mode)
           v == Dirent(name, FALSE, Available)
           a == [m EXCEPT !.file[f].dirent = v]
           b == FatCreateDirent(a, f, parent)
<1>1. Clean(m) /\ Ok(m) /\ m.mcb.owner # f
  BY DEF Begins
<1>2. "ENOENT" \in AnyStatus
  BY DEF AnyStatus
<1>3. CASE mode = "SupersedeWriteOnly"
  <2>1. n = Opened(b, f)
    BY <1>3 DEF OpenMissing
  <2>2. (~m.refused => New(v)) /\ ~v.dir
    <3>1. ~v.dir
      BY DEF Dirent
    <3>2. ~m.refused => New(v)
      BY NewDirent
    <3> QED BY <3>1, <3>2
  <2>3. v \in AnyUnit
    BY DirentType DEF Firsts
  <2>4. m.file[f] \in AnyFile
    BY <1>1, EntryFields DEF Clean, Sane
  <2> HIDE DEF v
  <2>5. /\ Clean(a) /\ a.file[f] = [m.file[f] EXCEPT !.dirent = v] /\ a.mcb = m.mcb
        /\ Later(m, a, f) /\ a.status = m.status /\ a.disk = m.disk /\ a.refused = m.refused
    BY <1>1, <2>3, DirentClean
  <2>6. a.file[f].dirent = v /\ Ok(a)
    BY <1>1, <2>4, <2>5 DEF AnyFile, Ok
  <2> HIDE DEF a
  <2>7. Created(a, b, f, parent)
    BY <2>2, <2>5, <2>6, CreateDirentFine
  <2> HIDE DEF b
  <2>8. /\ Fine(b, {}, b.file[f].where) /\ Later(a, b, f) /\ b.mcb = a.mcb
        /\ b.file[f].dirent = v
        /\ Ok(b) /\ ~b.refused => Held(b, f)
    BY <2>6, <2>7 DEF Created
  <2>9. Ok(b) /\ ~b.refused => Writable(b, f)
    BY <1>1, <2>2, <2>5, <2>8 DEF Writable, McbHeld
  <2>10. OpenedFor(b, Opened(b, f), f, mode)
    BY <1>3, <2>8, <2>9, PlainOpens
  <2>11. Later(m, b, f)
    BY <2>5, <2>8, LaterTransitive
  <2> HIDE DEF n
  <2> QED BY <2>1, <2>10, <2>11, OpenedLater DEF n
<1>4. CASE mode = "CreateDirectory"
  <2>1. n = CreateDirectory(m, f, name, Root)
    BY <1>4 DEF OpenMissing
  <2> HIDE DEF n
  <2>2. Fine(n, {}, n.file[f].where) /\ Later(m, n, f)
    BY <1>1, <1>4, <2>1, CreateDirectoryFine
  <2> QED BY <1>4, <2>2 DEF OpenedFor, Settled, n
<1>5. CASE mode \notin {"SupersedeWriteOnly", "CreateDirectory"}
  <2>1. n = Failed(m, "ENOENT")
    BY <1>5 DEF OpenMissing
  <2> HIDE DEF n
  <2> QED BY <1>2, <2>1, FailedOpens DEF n
<1> QED BY <1>3, <1>4, <1>5

\* An open starts with what the walk found in the entry of the file table.
LEMMA HeldBegins ==
    ASSUME NEW m, NEW f \in FileIds, Begins(m, f), NEW e \in AnyFile
    PROVE  LET n == [m EXCEPT !.file[f] = e]
           IN  /\ Begins(n, f) /\ Later(m, n, f) /\ n.file[f] = e
               /\ n.disk = m.disk /\ n.fat = m.fat /\ n.refused = m.refused
<1> DEFINE n == [m EXCEPT !.file[f] = e]
<1>1. Clean(m) /\ Ok(m) /\ m.mcb.owner # f
  BY DEF Begins
<1>2. m \in AnyVolume
  BY <1>1 DEF Clean, Sane
<1>3. WithFile(m, n, f, e) /\ Untouched(m, n) /\ n.status = m.status
  BY <1>2, FileSet
<1> HIDE DEF n
<1>4. n.file[f] = e /\ n.mcb = m.mcb
  BY <1>3 DEF WithFile
<1>5. n.disk = m.disk /\ n.refused = m.refused /\ n.fat = m.fat /\ n.saved = m.saved
      /\ n.full = m.full /\ n.dirty = m.dirty /\ n.writes = m.writes /\ n \in AnyVolume
  BY <1>3 DEF Untouched
<1>6. Clean(n)
  BY <1>1, <1>5 DEF Clean, Sane, BothApart
<1>7. Dirs(m, n)
  BY <1>5, DirsReflexive DEF Dirs, Directory
<1>8. Later(m, n, f)
  BY <1>3, <1>5, <1>7, FileLater
<1>9. Begins(n, f)
  BY <1>1, <1>3, <1>4, <1>6 DEF Begins, Ok
<1> QED BY <1>4, <1>5, <1>8, <1>9 DEF n

LEMMA OpenAtOpens ==
    ASSUME NEW m, NEW f \in FileIds, Begins(m, f), NEW mode \in Modes,
           NEW name \in AnyName, NEW walk \in Walks,
           ~m.refused => Ordinary(name) /\ (walk.left \/ Finds(m, walk)),
           mode \in {"OpenDirectory", "CreateDirectory"} => Ordinary(name) /\ InRoot(walk)
    PROVE  OpenedFor(m, OpenAt(m, f, name, mode, walk), f, mode)
<1> DEFINE e == [NoFile EXCEPT !.dirent = walk.dirent, !.where = walk.where]
           held == [m EXCEPT !.file[f] = e]
           n == OpenAt(m, f, name, mode, walk)
<1>1. e \in AnyFile /\ e.dirent = walk.dirent /\ e.where = walk.where
  BY NoFileType DEF AnyFile, Walks
<1>2. n = IF walk.left THEN Failed(m, "ENOTDIR")
          ELSE IF walk.found THEN OpenFound(held, f, walk.dirent, mode)
          ELSE OpenMissing(held, f, name, walk.dir, mode)
  BY DEF OpenAt
<1> HIDE DEF e
<1>3. /\ Begins(held, f) /\ Later(m, held, f) /\ held.file[f] = e
      /\ held.disk = m.disk /\ held.fat = m.fat /\ held.refused = m.refused
  BY <1>1, HeldBegins
<1> HIDE DEF held, n
<1>4. CASE walk.left
  <2>1. "ENOTDIR" \in AnyStatus
    BY DEF AnyStatus
  <2> QED BY <1>2, <1>4, <2>1, FailedOpens DEF n
<1>5. CASE ~walk.left /\ walk.found
  <2>1. n = OpenFound(held, f, held.file[f].dirent, mode)
    BY <1>1, <1>2, <1>3, <1>5
  <2>2. ~held.refused => Held(held, f)
    <3>1. ~m.refused => walk.where \in LiveOf(m.disk, m.fat)
                        /\ walk.dirent = At(m.disk, walk.where)
      BY <1>5 DEF Finds
    <3> QED BY <1>1, <1>3, <3>1 DEF Held
  <2>3. mode = "OpenDirectory" /\ ~held.refused /\ held.file[f].dirent.dir =>
            DirAt(held.disk, held.file[f].dirent.first)
    BY <1>1, <1>3, <1>5, RootDirectory
  <2>4. OpenedFor(held, n, f, mode)
    BY <1>3, <2>1, <2>2, <2>3, FoundOpens
  <2> QED BY <1>3, <2>4, OpenedLater DEF n
<1>6. CASE ~walk.left /\ ~walk.found
  <2>1. n = OpenMissing(held, f, name, walk.dir, mode)
    BY <1>2, <1>6
  <2>2. walk.dir \in Firsts
    BY DEF Walks
  <2>3. ~held.refused => Ordinary(name) /\ DirAt(held.disk, walk.dir)
    BY <1>3, <1>6 DEF Finds
  <2>4. mode = "CreateDirectory" => Ordinary(name) /\ walk.dir = Root
    BY <1>6 DEF InRoot
  <2>5. OpenedFor(held, n, f, mode)
    BY <1>3, <2>1, <2>2, <2>3, <2>4, MissingOpens
  <2> QED BY <1>3, <2>5, OpenedLater DEF n
<1> QED BY <1>4, <1>5, <1>6

\* A failed open is answered with an empty entry of the file table.
LEMMA AnsweredOpens ==
    ASSUME NEW m, NEW n, NEW f \in FileIds, NEW mode, OpenedFor(m, n, f, mode)
    PROVE  OpenedFor(m, Answered(n, f), f, mode)
<1> DEFINE o == [n EXCEPT !.file[f] = NoFile]
<1>1. CASE Ok(n)
  BY <1>1 DEF Answered
<1>2. CASE ~Ok(n)
  <2>1. Answered(n, f) = o
    BY <1>2 DEF Answered
  <2>2. Settled(n) /\ Later(m, n, f)
    BY DEF OpenedFor
  <2>3. PICK T : Fine(n, {}, T)
    BY <2>2 DEF Settled
  <2>4. n \in AnyVolume /\ NoFile \in AnyFile
    BY <2>3, NoFileType DEF Fine, Sane
  <2>5. WithFile(n, o, f, NoFile) /\ Untouched(n, o) /\ o.status = n.status
    BY <2>4, FileSet
  <2> HIDE DEF o
  <2>6. Frame(n, o, f)
    BY <2>5 DEF WithFile, Frame
  <2>7. Fine(o, {}, T) /\ Later(n, o, f)
    BY <2>3, <2>5, <2>6, OnlyFiles
  <2>8. Later(m, o, f)
    BY <2>2, <2>7, LaterTransitive
  <2> QED BY <1>2, <2>1, <2>5, <2>7, <2>8 DEF OpenedFor, Settled, Ok
<1> QED BY <1>1, <1>2

-----------------------------------------------------------------------------
(* Reading.                                                                *)

LEMMA FrameTransitive ==
    ASSUME NEW m, NEW n, NEW o, NEW f, Frame(m, n, f), Frame(n, o, f)
    PROVE  Frame(m, o, f)
BY DEF Frame

LEMMA FrameReflexive ==
    ASSUME NEW m, NEW f
    PROVE  Frame(m, m, f)
BY DEF Frame

LEMMA LoadedFrame ==
    ASSUME NEW m \in AnyVolume, NEW f \in FileIds, NEW vbo \in Nat
    PROVE  Frame(m, Loaded(m, f, vbo), f)
<1> DEFINE n == Loaded(m, f, vbo)
           skip == IF vbo = 0 THEN 0 ELSE ((vbo + Units - 1) \div Units) - 1
           mcb == IF m.file[f].where = Nowhere THEN [owner |-> f, from |-> 0, map |-> <<Root>>]
                  ELSE McbFrom(f, Chain(m.fat, m.file[f].dirent.first), skip)
<1>1. n.file = m.file
  BY LoadedUntouched
<1>2. n = m \/ n = [m EXCEPT !.mcb = mcb]
  BY DEF Loaded, FatLoadMcb
<1>3. mcb.owner = f
  <2> HIDE DEF skip
  <2>1. McbFrom(f, Chain(m.fat, m.file[f].dirent.first), skip).owner = f
    BY DEF McbFrom
  <2>2. [owner |-> f, from |-> 0, map |-> <<Root>>].owner = f
    OBVIOUS
  <2> QED BY <2>1, <2>2
<1> HIDE DEF mcb
<1>4. [m EXCEPT !.mcb = mcb].mcb = mcb
  BY DEF AnyVolume
<1> HIDE DEF n
<1>5. n.mcb = m.mcb \/ n.mcb.owner = f
  BY <1>2, <1>3, <1>4
<1> QED BY <1>1, <1>5 DEF Frame, n

LEMMA TakeFrame ==
    ASSUME NEW m \in AnyVolume, NEW f \in FileIds
    PROVE  Frame(m, TakeNext(m, f), f)
<1> DEFINE v == m.file[f].position
           n == Loaded(m, f, v)
           w == n.file[f].position
           got == Append(n.got, UnitAt(n, Lbo(n, w)))
           o == [n EXCEPT !.got = got, !.file[f].position = w + 1]
<1>1. v \in Nat
  BY EntryFields
<1>2. Untouched(m, n) /\ n \in AnyVolume
  BY <1>1, LoadedUntouched DEF Untouched
<1>3. Frame(m, n, f)
  BY <1>1, LoadedFrame
<1>4. TakeNext(m, f) = n \/ TakeNext(m, f) = o
  BY DEF TakeNext, Take
<1> HIDE DEF n, got
<1>5. Frame(n, o, f)
  <2>1. o.mcb = n.mcb
    BY <1>2 DEF AnyVolume
  <2>2. \A g \in FileIds : g # f => o.file[g] = n.file[g]
    BY <1>2 DEF AnyVolume
  <2> QED BY <2>1, <2>2 DEF Frame
<1> QED BY <1>3, <1>4, <1>5, FrameTransitive

\* What a read leaves.
LEMMA ReadFrame ==
    ASSUME NEW m \in AnyVolume, NEW f \in FileIds, NEW n \in Nat
    PROVE  Frame(m, FatRead(m, f, n), f)
<1> DEFINE Reads == {x \in Same(m) : Frame(m, x, f)}
           a == [m EXCEPT !.got = <<>>]
           move == [k \in 1 .. n |-> [x \in Reads |-> TakeNext(x, f)]]
<1>1. PICK h : TakeTurns(m, f, n, h) /\ FatRead(m, f, n) = h[n]
  BY ReadTurns
<1>2. a \in Reads
  <2>1. Untouched(m, a)
    BY EmptySeq, GotUntouched
  <2>2. Frame(m, a, f)
    BY DEF AnyVolume, Frame
  <2> HIDE DEF a
  <2> QED BY <2>1, <2>2 DEF Same, Untouched
<1>3. \A x \in Reads : TakeNext(x, f) \in Reads
  <2> TAKE x \in Reads
  <2>1. x \in AnyVolume /\ Untouched(m, x) /\ Frame(m, x, f)
    BY DEF Same
  <2>2. Untouched(x, TakeNext(x, f)) /\ Frame(x, TakeNext(x, f), f)
    BY <2>1, TakeUntouched, TakeFrame
  <2>3. Untouched(m, TakeNext(x, f)) /\ Frame(m, TakeNext(x, f), f)
    BY <2>1, <2>2, UntouchedTransitive, FrameTransitive
  <2> QED BY <2>3 DEF Same, Untouched
<1> HIDE DEF Reads, a
<1>4. h[0] = a /\ \A k \in 1 .. n : h[k] = TakeNext(h[k - 1], f)
  BY <1>1 DEF TakeTurns, a
<1> DEFINE B == {k \in 0 .. n : h[k] \in Reads}
<1>5. 0 \in B /\ \A k \in 1 .. n : k - 1 \in B => k \in B
  <2>1. 0 \in 0 .. n /\ \A k \in 1 .. n : k \in 0 .. n
    OBVIOUS
  <2> QED BY <1>2, <1>3, <1>4, <2>1
<1>6. h[n] \in Reads
  <2> HIDE DEF B
  <2>1. n \in B
    BY <1>5, UpTo
  <2> QED BY <2>1 DEF B
<1> QED BY <1>1, <1>6 DEF Reads

\* A scan of the directory of f in the clusters C: m at its start, n on its way.
Scanned(m, f, C, n) ==
    /\ Untouched(m, n) /\ Frame(m, n, f)
    /\ n.file[f].dirent = m.file[f].dirent /\ n.file[f].where = m.file[f].where
    /\ n.mcb.owner = f => n.mcb.map \in Seq(C)
    /\ Ok(n) => \E p \in Places : /\ p[1] \in C /\ InUse(At(m.disk, p))
                                  /\ n.got = <<At(m.disk, p)>>

\* n has another position, buffer or status than o.
LooksAs(o, n, f) ==
    /\ Untouched(o, n) /\ n.mcb = o.mcb
    /\ \A g \in FileIds : g # f => n.file[g] = o.file[g]
    /\ n.file[f].dirent = o.file[f].dirent /\ n.file[f].where = o.file[f].where

LEMMA LooksTransitive ==
    ASSUME NEW m, NEW n, NEW o, NEW f, LooksAs(m, n, f), LooksAs(n, o, f)
    PROVE  LooksAs(m, o, f)
BY DEF LooksAs, Untouched

LEMMA FailedLooks ==
    ASSUME NEW m \in AnyVolume, NEW f \in FileIds, NEW status \in AnyStatus
    PROVE  LooksAs(m, Failed(m, status), f) /\ Failed(m, status).status = status
           /\ Failed(m, status).got = m.got
<1> DEFINE n == Failed(m, status)
<1>1. Untouched(m, n) /\ n.status = status
  BY FailedUntouched
<1>2. n.mcb = m.mcb /\ n.file = m.file /\ n.got = m.got
  BY DEF Failed, AnyVolume
<1> HIDE DEF n
<1> QED BY <1>1, <1>2 DEF LooksAs, n

LEMMA GotLooks ==
    ASSUME NEW m \in AnyVolume, NEW f \in FileIds, NEW got \in Seq(AnyUnit)
    PROVE  LET n == [m EXCEPT !.got = got]
           IN  LooksAs(m, n, f) /\ n.got = got /\ n.status = m.status
<1> DEFINE n == [m EXCEPT !.got = got]
<1>1. Untouched(m, n)
  BY GotUntouched
<1>2. n.mcb = m.mcb /\ n.file = m.file /\ n.got = got /\ n.status = m.status
  BY DEF AnyVolume
<1> HIDE DEF n
<1> QED BY <1>1, <1>2 DEF LooksAs, n

LEMMA PositionLooks ==
    ASSUME NEW m \in AnyVolume, NEW f \in FileIds, NEW i \in Nat
    PROVE  LET n == [m EXCEPT !.file[f].position = i]
           IN  LooksAs(m, n, f) /\ n.got = m.got /\ n.status = m.status
<1> DEFINE n == [m EXCEPT !.file[f].position = i]
<1>1. Untouched(m, n) /\ n.status = m.status
  BY PositionSet
<1>2. n.mcb = m.mcb /\ n.got = m.got /\ \A g \in FileIds : g # f => n.file[g] = m.file[g]
  BY DEF AnyVolume
<1>3. n.file[f].dirent = m.file[f].dirent /\ n.file[f].where = m.file[f].where
  <2>1. n.file[f] = [m.file[f] EXCEPT !.position = i]
    BY DEF AnyVolume
  <2>2. m.file[f] \in AnyFile
    BY EntryFields
  <2> HIDE DEF n
  <2> QED BY <2>1, <2>2 DEF AnyFile
<1> HIDE DEF n
<1> QED BY <1>1, <1>2, <1>3 DEF LooksAs, n

\* One entry looked at.
LEMMA ListedLooks ==
    ASSUME NEW o \in AnyVolume, NEW f \in FileIds, o.status = "scan", NEW unit \in AnyUnit
    PROVE  LET n == Listed(o, f, unit)
           IN  LooksAs(o, n, f) /\ (Ok(n) => InUse(unit) /\ n.got = <<unit>>)
<1> DEFINE w == o.file[f].position
           p == [o EXCEPT !.file[f].position = w + 1]
           q == [p EXCEPT !.got = <<unit>>]
           r == Failed(q, "ESUCCESS")
<1>1. w + 1 \in Nat
  BY EntryFields
<1>2. Listed(o, f, unit) = IF unit.name = Blank.name THEN Failed(o, "ENOTDIR")
                           ELSE IF unit.name = Deleted THEN p ELSE r
  <2>1. [o EXCEPT !.file[f].position = @ + 1] = p
    BY FieldTypes DEF AnyVolume, AnyFile
  <2>2. [o EXCEPT !.file[f].position = @ + 1, !.got = <<unit>>, !.status = "ESUCCESS"]
           = r
    BY <2>1, FieldTypes DEF AnyVolume, AnyFile, Failed
  <2> QED BY <2>1, <2>2 DEF Listed
<1>3. LooksAs(o, p, f) /\ p.status = "scan"
  BY <1>1, PositionLooks
<1> HIDE DEF p, w
<1>4. p \in AnyVolume
  BY <1>3 DEF LooksAs, Untouched
<1>5. LooksAs(p, q, f) /\ q.got = <<unit>>
  <2>1. <<unit>> \in Seq(AnyUnit)
    OBVIOUS
  <2> QED BY <1>4, <2>1, GotLooks
<1> HIDE DEF q
<1>6. q \in AnyVolume
  BY <1>5 DEF LooksAs, Untouched
<1>7. LooksAs(q, r, f) /\ r.got = q.got
  BY <1>6, FailedLooks DEF AnyStatus
<1>8. LooksAs(o, Failed(o, "ENOTDIR"), f) /\ ~Ok(Failed(o, "ENOTDIR"))
  <2>1. "ENOTDIR" \in AnyStatus /\ "ENOTDIR" # "ESUCCESS"
    BY DEF AnyStatus
  <2> QED BY <2>1, FailedLooks DEF Ok
<1> HIDE DEF r
<1>9. LooksAs(o, r, f) /\ r.got = <<unit>>
  BY <1>3, <1>5, <1>7, LooksTransitive
<1>10. ~Ok(p)
  BY <1>3 DEF Ok
<1>11. unit.name # Blank.name /\ unit.name # Deleted => InUse(unit)
  <2>1. Blank.name = ""
    BY DEF Blank, Dirent
  <2> QED BY <2>1 DEF InUse, IsFree
<1> QED BY <1>2, <1>3, <1>8, <1>9, <1>10, <1>11

\* A place at which the mapping has the next entry.
LEMMA LookAtLooks ==
    ASSUME NEW o \in AnyVolume, NEW f \in FileIds, o.status = "scan",
           NEW C, C \subseteq Clusters, o.mcb.map \in Seq(C)
    PROVE  LET n == LookAt(o, f)
           IN  /\ LooksAs(o, n, f)
               /\ Ok(n) => \E p \in Places : /\ p[1] \in C /\ InUse(At(o.disk, p))
                                             /\ n.got = <<At(o.disk, p)>>
<1> DEFINE w == o.file[f].position
           p == Lbo(o, w)
<1>1. w \in Nat
  BY EntryFields
<1>2. CASE ~Maps(o, w)
  <2>1. LookAt(o, f) = Failed(o, "ENOTDIR")
    BY <1>2 DEF LookAt
  <2>2. "ENOTDIR" \in AnyStatus /\ "ENOTDIR" # "ESUCCESS"
    BY DEF AnyStatus
  <2>3. LooksAs(o, Failed(o, "ENOTDIR"), f) /\ ~Ok(Failed(o, "ENOTDIR"))
    BY <2>2, FailedLooks DEF Ok
  <2> QED BY <2>1, <2>3
<1>3. CASE Maps(o, w)
  <2>1. p \in Places /\ p[1] \in C
    BY <1>1, <1>3, LboOn
  <2>2. LookAt(o, f) = Listed(o, f, UnitAt(o, p))
    BY <1>3 DEF LookAt
  <2>3. UnitAt(o, p) = At(o.disk, p)
    BY DEF UnitAt, At
  <2> HIDE DEF p
  <2>4. At(o.disk, p) \in AnyUnit
    BY <2>1, <2>3, PlacedUnitType
  <2>5. LET n == Listed(o, f, At(o.disk, p))
        IN  LooksAs(o, n, f) /\ (Ok(n) => InUse(At(o.disk, p)) /\ n.got = <<At(o.disk, p)>>)
    BY <2>4, ListedLooks
  <2> QED BY <2>1, <2>2, <2>3, <2>5
<1> QED BY <1>2, <1>3

LEMMA LooksScanned ==
    ASSUME NEW m, NEW f, NEW C, NEW o, NEW n, Untouched(m, o), Frame(m, o, f),
           o.file[f].dirent = m.file[f].dirent, o.file[f].where = m.file[f].where,
           o.mcb.owner = f, o.mcb.map \in Seq(C), LooksAs(o, n, f),
           Ok(n) => \E p \in Places : /\ p[1] \in C /\ InUse(At(o.disk, p))
                                      /\ n.got = <<At(o.disk, p)>>
    PROVE  Scanned(m, f, C, n)
<1>1. Untouched(m, n)
  BY DEF LooksAs, Untouched
<1>2. Frame(m, n, f)
  BY DEF LooksAs, Frame
<1>3. n.file[f].dirent = m.file[f].dirent /\ n.file[f].where = m.file[f].where
  BY DEF LooksAs
<1>4. n.mcb.map \in Seq(C)
  BY DEF LooksAs
<1>5. o.disk = m.disk
  BY DEF Untouched
<1> QED BY <1>1, <1>2, <1>3, <1>4, <1>5 DEF Scanned

LEMMA LookOnScanned ==
    ASSUME NEW m \in AnyVolume, NEW f \in FileIds, NEW C, C \subseteq Clusters,
           m.file[f].where # Nowhere, On(m.fat, m.file[f].dirent.first) \subseteq C,
           NEW n, Scanned(m, f, C, n)
    PROVE  Scanned(m, f, C, LookOn(n, f))
<1> DEFINE v == n.file[f].position
           o == Loaded(n, f, v)
<1>1. CASE n.status # "scan"
  BY <1>1 DEF LookOn
<1>2. CASE n.status = "scan"
  <2>1. n \in AnyVolume /\ Untouched(m, n) /\ Frame(m, n, f)
    BY DEF Scanned, Untouched
  <2>2. v \in Nat
    BY <2>1, EntryFields
  <2>3. n.fat = m.fat /\ n.file[f].dirent = m.file[f].dirent
        /\ n.file[f].where = m.file[f].where
    BY <2>1 DEF Scanned, Untouched
  <2>4. n.mcb.owner = f => n.mcb.map \in Seq(C)
    BY DEF Scanned
  <2>5. LookOn(n, f) = LookAt(o, f)
    BY <1>2 DEF LookOn
  <2>6. Untouched(n, o) /\ o.status = n.status /\ o.file = n.file
    BY <2>1, <2>2, LoadedUntouched
  <2>7. Frame(n, o, f)
    BY <2>1, <2>2, LoadedFrame
  <2>8. o.mcb.owner = f /\ o.mcb.map \in Seq(C)
    BY <2>1, <2>2, <2>3, <2>4, LoadedWithin
  <2> HIDE DEF o, v
  <2>9. o \in AnyVolume /\ Untouched(m, o) /\ Frame(m, o, f)
    BY <2>1, <2>6, <2>7, UntouchedTransitive, FrameTransitive DEF Untouched
  <2>10. o.file[f].dirent = m.file[f].dirent /\ o.file[f].where = m.file[f].where
    BY <2>3, <2>6
  <2> DEFINE q == LookAt(o, f)
  <2>11. /\ LooksAs(o, q, f)
         /\ Ok(q) => \E p \in Places : /\ p[1] \in C /\ InUse(At(o.disk, p))
                                       /\ q.got = <<At(o.disk, p)>>
    BY <1>2, <2>6, <2>8, <2>9, LookAtLooks
  <2> HIDE DEF q
  <2>12. Scanned(m, f, C, q)
    BY <2>8, <2>9, <2>10, <2>11, LooksScanned
  <2> QED BY <2>5, <2>12 DEF q
<1> QED BY <1>1, <1>2

\* The entry that a program gets from a directory it has opened.
LEMMA EntryScanned ==
    ASSUME NEW m \in AnyVolume, NEW f \in FileIds, NEW C, C \subseteq Clusters,
           m.file[f].where # Nowhere, On(m.fat, m.file[f].dirent.first) \subseteq C,
           m.mcb.owner = f => m.mcb.map \in Seq(C)
    PROVE  Scanned(m, f, C, FatGetDirectoryEntry(m, f))
<1> DEFINE a == [m EXCEPT !.got = <<>>, !.status = "scan"]
           e == FatGetDirectoryEntry(m, f)
<1>1. PICK h : /\ ListTurns(m, f, h)
               /\ e = IF ~m.file[f].dirent.dir THEN Failed(m, "EBADF") ELSE h[ScanTurns]
  BY EntryTurns
<1> HIDE DEF e
<1>2. ScanTurns \in Nat
  BY Sizes, VolumeAssumption DEF ScanTurns
<1>3. Scanned(m, f, C, a)
  <2> DEFINE b == [m EXCEPT !.got = <<>>]
  <2>1. LooksAs(m, b, f) /\ b \in AnyVolume
    <3>1. <<>> \in Seq(AnyUnit)
      BY EmptySeq
    <3>2. LooksAs(m, b, f)
      BY <3>1, GotLooks
    <3> QED BY <3>2 DEF LooksAs, Untouched
  <2>2. a = Failed(b, "scan")
    BY DEF Failed, AnyVolume
  <2> HIDE DEF a, b
  <2>3. LooksAs(b, a, f) /\ a.status = "scan"
    <3>1. "scan" \in AnyStatus
      BY DEF AnyStatus
    <3> QED BY <2>1, <2>2, <3>1, FailedLooks
  <2>4. LooksAs(m, a, f)
    BY <2>1, <2>3, LooksTransitive
  <2>5. Frame(m, a, f)
    BY <2>4 DEF LooksAs, Frame
  <2> QED BY <2>3, <2>4, <2>5 DEF Scanned, LooksAs, Ok
<1>4. h[0] = a /\ \A k \in 1 .. ScanTurns : h[k] = LookOn(h[k - 1], f)
  BY <1>1 DEF ListTurns
<1> HIDE DEF a
<1> DEFINE B == {k \in 0 .. ScanTurns : Scanned(m, f, C, h[k])}
<1>5. 0 \in B /\ \A k \in 1 .. ScanTurns : k - 1 \in B => k \in B
  <2>1. 0 \in 0 .. ScanTurns /\ \A k \in 1 .. ScanTurns : k \in 0 .. ScanTurns
    BY <1>2
  <2>2. \A k \in 1 .. ScanTurns : Scanned(m, f, C, h[k - 1]) => Scanned(m, f, C, h[k])
    BY <1>4, LookOnScanned
  <2> QED BY <1>3, <1>4, <2>1, <2>2
<1>6. Scanned(m, f, C, h[ScanTurns])
  <2> HIDE DEF B
  <2>1. ScanTurns \in B
    BY <1>2, <1>5, UpTo
  <2> QED BY <2>1 DEF B
<1>7. Scanned(m, f, C, Failed(m, "EBADF"))
  <2>1. "EBADF" \in AnyStatus /\ "EBADF" # "ESUCCESS"
    BY DEF AnyStatus
  <2>2. LooksAs(m, Failed(m, "EBADF"), f) /\ ~Ok(Failed(m, "EBADF"))
    BY <2>1, FailedLooks DEF Ok
  <2> QED BY <2>2 DEF LooksAs, Scanned, Frame
<1> QED BY <1>1, <1>6, <1>7 DEF e

\* The chain of a directory of the volume is in the clusters of directories.
LEMMA DirWithin ==
    ASSUME NEW m, NEW full, NEW X, Whole(m.disk, m.fat, full, X), NEW f, DirOpen(m, f),
           NEW first \in Firsts, first = m.file[f].dirent.first
    PROVE  On(m.fat, first) \subseteq AreaOf(m.disk, m.fat) \ {Root}
<1>1. On(m.fat, first) \subseteq Clusters /\ Root \notin Clusters
  BY OnFinite, ClusterFacts
<1>2. CASE first \in Clusters
  <2>1. DirAt(m.disk, first)
    BY DEF DirOpen
  <2>2. On(m.fat, first) \subseteq AreaOf(m.disk, m.fat)
    BY <1>2, <2>1, DirHead
  <2> QED BY <1>1, <2>2
<1>3. CASE first \notin Clusters
  BY <1>3, OnNothing
<1> QED BY <1>2, <1>3

LEMMA AreaClusters ==
    ASSUME NEW disk, NEW fat
    PROVE  AreaOf(disk, fat) \ {Root} \subseteq Clusters
BY DEF AreaOf

\* The mapping changes, but stays in clusters of directories when it is that of f.
LEMMA DirScanned ==
    ASSUME NEW m, NEW n, NEW f, DirOpen(m, f),
           Scanned(m, f, AreaOf(m.disk, m.fat) \ {Root}, n)
    PROVE  DirOpen(n, f)
<1> DEFINE C == AreaOf(m.disk, m.fat) \ {Root}
<1>1. /\ Untouched(m, n) /\ n.file[f].dirent = m.file[f].dirent
      /\ n.file[f].where = m.file[f].where /\ (n.mcb.owner = f => n.mcb.map \in Seq(C))
  BY DEF Scanned
<1>2. n.disk = m.disk /\ AreaOf(n.disk, n.fat) \ {Root} = C
  BY <1>1 DEF Untouched
<1> HIDE DEF C
<1> QED BY <1>1, <1>2 DEF DirOpen

\* An entry that a directory lists and that is no directory has an ordinary name.
LEMMA ListedOrdinary ==
    ASSUME NEW disk \in AnyDisk, NEW fat, Dotted(disk, fat), NEW p \in Places,
           p[1] \in AreaOf(disk, fat), InUse(At(disk, p)), ~At(disk, p).dir
    PROVE  Ordinary(At(disk, p).name)
<1>1. At(disk, p).name \in AnyName
  <2>1. At(disk, p) \in AnyUnit
    BY AtType
  <2> QED BY <2>1 DEF AnyUnit
<1>2. At(disk, p).name \notin {Dot, DotDot}
  BY DEF Dotted
<1>3. At(disk, p).name \notin {"", Deleted}
  BY DEF InUse, IsFree
<1> QED BY <1>1, <1>2, <1>3 DEF Ordinary

\* A program reads the next entry of a directory it has opened.
LEMMA EntryListed ==
    ASSUME NEW m, NEW T, Fine(m, {}, T), ~m.refused, NEW f \in FileIds, DirOpen(m, f)
    PROVE  LET n == FatGetDirectoryEntry(m, f)
           IN  /\ Fine(n, {}, T) /\ Later(m, n, f) /\ DirOpen(n, f)
               /\ Ok(n) /\ ~n.got[1].dir => Ordinary(n.got[1].name)
<1> DEFINE n == FatGetDirectoryEntry(m, f)
           C == AreaOf(m.disk, m.fat) \ {Root}
<1>1. m \in AnyVolume /\ Whole(m.disk, m.fat, m.full, {})
  BY DEF Fine, Sane, Good
<1>2. m.file[f].dirent.first \in Firsts
  BY <1>1, EntryFields DEF AnyUnit, Firsts
<1>3. On(m.fat, m.file[f].dirent.first) \subseteq C
  BY <1>1, <1>2, DirWithin
<1>4. C \subseteq Clusters
  BY AreaClusters
<1>5. m.file[f].where # Nowhere /\ (m.mcb.owner = f => m.mcb.map \in Seq(C))
  BY DEF DirOpen
<1> HIDE DEF C
<1>6. Scanned(m, f, C, n)
  BY <1>1, <1>3, <1>4, <1>5, EntryScanned
<1> HIDE DEF n
<1>7. Fine(n, {}, T) /\ Later(m, n, f)
  <2>1. Untouched(m, n) /\ Frame(m, n, f)
    BY <1>6 DEF Scanned
  <2> QED BY <2>1, OnlyFiles
<1>8. DirOpen(n, f)
  BY <1>6, DirScanned DEF C
<1>9. Ok(n) /\ ~n.got[1].dir => Ordinary(n.got[1].name)
  <2> SUFFICES ASSUME Ok(n), ~n.got[1].dir
               PROVE  Ordinary(n.got[1].name)
    OBVIOUS
  <2>1. PICK p \in Places : p[1] \in C /\ InUse(At(m.disk, p)) /\ n.got = <<At(m.disk, p)>>
    BY <1>6 DEF Scanned
  <2>2. n.got[1] = At(m.disk, p)
    BY <2>1
  <2>3. p[1] \in AreaOf(m.disk, m.fat)
    BY <2>1 DEF C
  <2>4. m.disk \in AnyDisk /\ Dotted(m.disk, m.fat)
    BY <1>1 DEF Whole
  <2> QED BY <2>1, <2>2, <2>3, <2>4, ListedOrdinary
<1> QED BY <1>7, <1>8, <1>9 DEF n

\* The calls on another file leave an open directory as it is.
LEMMA DirOpenKept ==
    ASSUME NEW m, NEW n, NEW f, Later(m, n, f), ~n.refused, NEW g \in FileIds, g # f, g # "",
           DirOpen(m, g)
    PROVE  DirOpen(n, g)
<1>1. Dirs(m, n) /\ Frame(m, n, f)
  BY DEF Later
<1>2. n.file[g] = m.file[g]
  BY <1>1 DEF Frame
<1>3. DirAt(n.disk, n.file[g].dirent.first) /\ n.file[g].where # Nowhere
  <2> DEFINE first == m.file[g].dirent.first
  <2>1. DirAt(m.disk, first) /\ m.file[g].where # Nowhere
    BY DEF DirOpen
  <2> HIDE DEF first
  <2>2. DirAt(n.disk, first)
    BY <1>1, <2>1, DirStays
  <2> QED BY <1>2, <2>1, <2>2 DEF first
<1>4. ASSUME n.mcb.owner = g
      PROVE  n.mcb.map \in Seq(AreaOf(n.disk, n.fat) \ {Root})
  <2>1. n.mcb = m.mcb
    BY <1>1, <1>4 DEF Frame
  <2> DEFINE A == AreaOf(m.disk, m.fat) \ {Root}
             B == AreaOf(n.disk, n.fat) \ {Root}
  <2>2. m.mcb.map \in Seq(A)
    BY <1>4, <2>1 DEF DirOpen
  <2>3. A \subseteq B
    BY <1>1 DEF Dirs
  <2> HIDE DEF A, B
  <2>4. m.mcb.map \in Seq(B)
    BY <2>2, <2>3, SeqMonotonic
  <2> QED BY <2>1, <2>4 DEF B
<1> QED BY <1>3, <1>4 DEF DirOpen

\* ... and a read of another file the target of a copy.
LEMMA WritableKept ==
    ASSUME NEW m, NEW n, NEW f, Untouched(m, n), Frame(m, n, f), NEW g \in FileIds, g # f,
           g # "", Writable(m, g)
    PROVE  Writable(n, g)
<1>1. n.file[g] = m.file[g] /\ n.disk = m.disk /\ n.fat = m.fat
  BY DEF Frame, Untouched
<1>2. n.mcb.owner = g => n.mcb = m.mcb
  BY DEF Frame
<1> QED BY <1>1, <1>2 DEF Writable, Held, McbHeld

-----------------------------------------------------------------------------
(* Calls on a whole volume.                                                *)

\* n has another budget, status or buffer than m.
Like(m, n) ==
    /\ n \in AnyVolume /\ n.disk = m.disk /\ n.saved = m.saved /\ n.fat = m.fat
    /\ n.dirty = m.dirty /\ n.refused = m.refused /\ n.full = m.full
    /\ n.file = m.file /\ n.mcb = m.mcb
    /\ n.refused => n.writes = 0

LEMMA LikeFine ==
    ASSUME NEW m, NEW n, Like(m, n), NEW T, Fine(m, {}, T)
    PROVE  Fine(n, {}, T)
<1>1. Sane(n)
  BY DEF Like, Fine, Sane
<1>2. n.refused => BothApart(n) /\ n.writes = 0
  BY DEF Like, Fine, BothApart
<1>3. ~n.refused => Good(n, {}, T)
  BY DEF Like, Fine, Good
<1> QED BY <1>1, <1>2, <1>3 DEF Fine

LEMMA LikeSettled ==
    ASSUME NEW m, NEW n, Like(m, n)
    PROVE  /\ Settled(m) => Settled(n)
           /\ Rested(m) => Rested(n)
<1>1. Settled(m) => Settled(n)
  BY LikeFine DEF Settled
<1> QED BY <1>1 DEF Rested, Like

LEMMA LikeFiles ==
    ASSUME NEW m, NEW n, Like(m, n), NEW f
    PROVE  /\ Held(m, f) => Held(n, f)
           /\ Writable(m, f) => Writable(n, f)
           /\ DirOpen(m, f) => DirOpen(n, f)
           /\ n.file[f] = m.file[f] /\ n.refused = m.refused
<1>1. /\ n.disk = m.disk /\ n.fat = m.fat /\ n.file = m.file /\ n.mcb = m.mcb
      /\ n.refused = m.refused
  BY DEF Like
<1>2. Held(m, f) => Held(n, f)
  BY <1>1 DEF Held
<1>3. McbHeld(m, f) => McbHeld(n, f)
  BY <1>1 DEF McbHeld
<1>4. Writable(m, f) => Writable(n, f)
  BY <1>1, <1>2, <1>3 DEF Writable
<1>5. DirOpen(m, f) => DirOpen(n, f)
  BY <1>1 DEF DirOpen
<1> QED BY <1>1, <1>2, <1>4, <1>5

LEMMA SettledType ==
    ASSUME NEW m, Settled(m)
    PROVE  m \in AnyVolume /\ Sane(m)
BY DEF Settled, Fine, Sane

-----------------------------------------------------------------------------
(* Sound volumes.                                                          *)

LEMMA ClustersOfOn ==
    ASSUME NEW m, NEW at
    PROVE  ClustersOf(m, at) = On(m.fat, At(m.disk, at).first)
<1> DEFINE cs == Chain(m.fat, UnitAt(m, at).first)
<1>1. DOMAIN cs = 1 .. Len(cs)
  <2>1. cs \in Seq(Clusters)
    BY ChainType
  <2> HIDE DEF cs
  <2> QED BY <2>1
<1>2. UnitAt(m, at) = At(m.disk, at)
  BY DEF UnitAt, At
<1> QED BY <1>1, <1>2 DEF ClustersOf, On

\* The chains of the entries end, and have all the clusters in use.
Ending(disk, fat) ==
    \A p \in LiveOf(disk, fat) : At(disk, p).first # Available =>
        fat[Chain(fat, At(disk, p).first)[Len(Chain(fat, At(disk, p).first))]] = LAST

UsedBy(disk, fat) ==
    \A c \in Clusters : fat[c] # Available <=>
        \E p \in LiveOf(disk, fat) : c \in On(fat, At(disk, p).first)

SoundAs(disk, fat, refused, full) ==
    /\ Apart(disk, fat)
    /\ ~refused => Ending(disk, fat) /\ Sufficient(disk, fat)
    /\ ~refused /\ ~full => UsedBy(disk, fat)

LEMMA OnClusters ==
    ASSUME NEW fat, NEW h
    PROVE  On(fat, h) \subseteq Clusters
BY OnFinite

LEMMA UsedIs ==
    ASSUME NEW m, m.disk \in AnyDisk
    PROVE  {c \in Clusters : m.fat[c] # Available} = UNION {ClustersOf(m, p) : p \in Live(m)}
              <=> UsedBy(m.disk, m.fat)
<1> DEFINE L == LiveOf(m.disk, m.fat)
           O(p) == On(m.fat, At(m.disk, p).first)
<1>1. Live(m) = L
  BY LiveIs
<1>2. \A p : ClustersOf(m, p) = O(p)
  BY ClustersOfOn
<1>3. UNION {ClustersOf(m, p) : p \in Live(m)} = UNION {O(p) : p \in L}
  <2> HIDE DEF L, O
  <2> QED BY <1>1, <1>2
<1>4. \A p : O(p) \subseteq Clusters
  BY OnClusters
<1>5. UsedBy(m.disk, m.fat) <=>
         \A c \in Clusters : m.fat[c] # Available <=> \E p \in L : c \in O(p)
  BY DEF UsedBy
<1> HIDE DEF L, O
<1>6. \A c : c \in UNION {O(p) : p \in L} <=> \E p \in L : c \in O(p)
  OBVIOUS
<1> QED BY <1>3, <1>4, <1>5, <1>6

LEMMA SoundIs ==
    ASSUME NEW m, m.disk \in AnyDisk
    PROVE  Sound(m) <=> SoundAs(m.disk, m.fat, m.refused, m.full)
<1> DEFINE L == LiveOf(m.disk, m.fat)
           A == \A p, q \in Live(m) : p # q => ClustersOf(m, p) \cap ClustersOf(m, q) = {}
           E(p) == UnitAt(m, p).first # Available =>
                      m.fat[Chain(m.fat, UnitAt(m, p).first)
                              [Len(Chain(m.fat, UnitAt(m, p).first))]] = LAST
           S(p) == ~UnitAt(m, p).dir =>
                      Units * Cardinality(ClustersOf(m, p)) >= UnitAt(m, p).size
           U == {c \in Clusters : m.fat[c] # Available}
                   = UNION {ClustersOf(m, p) : p \in Live(m)}
<1>1. Live(m) = L /\ \A p : UnitAt(m, p) = At(m.disk, p)
  BY LiveIs DEF UnitAt, At
<1>2. A <=> Apart(m.disk, m.fat)
  BY <1>1, ClustersOfOn DEF Apart
<1>3. (\A p \in Live(m) : E(p)) <=> Ending(m.disk, m.fat)
  BY <1>1 DEF Ending
<1>4. (\A p \in Live(m) : S(p)) <=> Sufficient(m.disk, m.fat)
  BY <1>1, ClustersOfOn DEF Sufficient
<1>5. U <=> UsedBy(m.disk, m.fat)
  BY UsedIs
<1>6. Sound(m) <=> /\ A
                   /\ ~m.refused => \A p \in Live(m) : E(p) /\ S(p)
                   /\ ~m.refused /\ ~m.full => U
  BY DEF Sound
<1> HIDE DEF A, E, S, U
<1> QED BY <1>2, <1>3, <1>4, <1>5, <1>6 DEF SoundAs

\* A whole volume is a sound one.
LEMMA WholeSound ==
    ASSUME NEW disk, NEW fat, NEW full, Whole(disk, fat, full, {})
    PROVE  SoundAs(disk, fat, FALSE, full)
<1>1. Apart(disk, fat)
  BY WholeApart
<1>2. Shape(fat, HeadsOf(disk, fat)) /\ fat \in AnyTable /\ Sufficient(disk, fat)
      /\ (full \/ Covered(fat, HeadsOf(disk, fat)))
  <2>1. HeadsOf(disk, fat) \cup {} = HeadsOf(disk, fat)
    OBVIOUS
  <2> QED BY <2>1 DEF Whole
<1>3. Ending(disk, fat)
  <2> SUFFICES ASSUME NEW p \in LiveOf(disk, fat), At(disk, p).first # Available
               PROVE  LET cs == Chain(fat, At(disk, p).first) IN fat[cs[Len(cs)]] = LAST
    BY DEF Ending
  <2> DEFINE h == At(disk, p).first
             last == Chain(fat, h)[Len(Chain(fat, h))]
  <2>1. h \in HeadsOf(disk, fat) /\ h \in Clusters /\ Starts(fat, h)
    BY HeadOf
  <2>2. last \in On(fat, h) /\ last \in Clusters
    BY <2>1, ChainFacts
  <2>3. fat[last] \notin Clusters
    BY <2>1, HeadEnds
  <2>4. fat[last] # Available
    BY <1>2, <2>1, <2>2, OnUsed
  <2> HIDE DEF last
  <2>5. fat[last] = LAST
    BY <1>2, <2>2, <2>3, <2>4 DEF AnyTable
  <2> QED BY <2>5 DEF last
<1>4. ASSUME ~full PROVE UsedBy(disk, fat)
  <2> SUFFICES ASSUME NEW c \in Clusters
               PROVE  fat[c] # Available <=>
                         \E p \in LiveOf(disk, fat) : c \in On(fat, At(disk, p).first)
    BY DEF UsedBy
  <2>1. ASSUME fat[c] # Available
        PROVE  \E p \in LiveOf(disk, fat) : c \in On(fat, At(disk, p).first)
    BY <1>2, <1>4, <2>1 DEF Covered, HeadsOf
  <2>2. ASSUME NEW p \in LiveOf(disk, fat), c \in On(fat, At(disk, p).first)
        PROVE  fat[c] # Available
    <3>1. At(disk, p).first # Available
      BY <2>2, OnNothing, ClusterFacts
    <3>2. At(disk, p).first \in HeadsOf(disk, fat)
      BY <3>1, HeadOf
    <3> QED BY <1>2, <2>2, <3>2, OnUsed
  <2> QED BY <2>1, <2>2
<1> QED BY <1>1, <1>2, <1>3, <1>4 DEF SoundAs

\* A chain that ends has no cluster twice.
LEMMA EndingDistinct ==
    ASSUME NEW fat, NEW h \in Clusters,
           fat[Chain(fat, h)[Len(Chain(fat, h))]] = LAST
    PROVE  LET cs == Chain(fat, h)
           IN  \A i, j \in 1 .. Len(cs) : cs[i] = cs[j] => i = j
<1> DEFINE cs == Chain(fat, h)
<1>1. /\ Len(cs) \in Nat /\ Len(cs) >= 1
      /\ \A i \in 1 .. Len(cs) - 1 : cs[i + 1] = fat[cs[i]]
      /\ \A i \in 1 .. Len(cs) : cs[i] \in Clusters
  BY ChainFacts
<1>2. fat[cs[Len(cs)]] \notin Clusters
  BY ClusterFacts
<1> HIDE DEF cs
<1>3. ASSUME NEW i \in 1 .. Len(cs), NEW j \in 1 .. Len(cs), i < j, cs[i] = cs[j] PROVE FALSE
  <2> DEFINE n == Len(cs) - j
             B == {k \in 0 .. n : cs[i + k] = cs[j + k]}
  <2>1. n \in Nat /\ 0 \in B
    BY <1>1, <1>3
  <2>2. \A k \in 1 .. n : k - 1 \in B => k \in B
    <3> SUFFICES ASSUME NEW k \in 1 .. n, k - 1 \in B PROVE cs[i + k] = cs[j + k]
      BY <2>1
    <3>1. cs[i + (k - 1)] = cs[j + (k - 1)]
      OBVIOUS
    <3>2. /\ i + (k - 1) \in 1 .. Len(cs) - 1 /\ j + (k - 1) \in 1 .. Len(cs) - 1
          /\ i + (k - 1) + 1 = i + k /\ j + (k - 1) + 1 = j + k
      BY <1>1, <1>3
    <3> QED BY <1>1, <3>1, <3>2
  <2>3. n \in B
    <3> HIDE DEF n, B
    <3> QED BY <2>1, <2>2, UpTo
  <2>4. cs[i + n] = cs[Len(cs)]
    <3>1. cs[i + n] = cs[j + n]
      BY <2>3
    <3>2. j + n = Len(cs)
      BY <1>1
    <3> QED BY <3>1, <3>2
  <2>5. i + n \in 1 .. Len(cs) - 1 /\ i + n + 1 \in 1 .. Len(cs)
    BY <1>1, <1>3
  <2> HIDE DEF n
  <2> QED BY <1>1, <1>2, <2>4, <2>5
<1>4. ASSUME NEW i \in 1 .. Len(cs), NEW j \in 1 .. Len(cs), cs[i] = cs[j] PROVE i = j
  BY <1>1, <1>3, <1>4
<1> QED BY <1>4 DEF cs

SoundTable(disk, fat) ==
    disk \in AnyDisk /\ fat \in AnyTable /\ SoundAs(disk, fat, FALSE, FALSE)

LEMMA SoundFacts ==
    ASSUME NEW disk, NEW fat, SoundTable(disk, fat)
    PROVE  /\ Apart(disk, fat) /\ Ending(disk, fat) /\ Sufficient(disk, fat)
           /\ UsedBy(disk, fat)
BY DEF SoundTable, SoundAs

\* What leads to a cluster is on the same chain, before it.
LeadsAt(fat, h, i, c) ==
    /\ i + 1 \in 1 .. Len(Chain(fat, h))
    /\ c = Chain(fat, h)[i] /\ fat[c] = Chain(fat, h)[i + 1]

LEMMA LeadsWithin ==
    ASSUME NEW disk, NEW fat, SoundTable(disk, fat), NEW c \in Clusters, fat[c] \in Clusters
    PROVE  \E p \in LiveOf(disk, fat), i \in Nat \ {0} : LeadsAt(fat, At(disk, p).first, i, c)
<1>1. fat[c] # Available
  BY ClusterFacts
<1>2. PICK p \in LiveOf(disk, fat) : c \in On(fat, At(disk, p).first)
  BY <1>1, SoundFacts DEF UsedBy
<1> DEFINE h == At(disk, p).first
           cs == Chain(fat, h)
<1>3. h \in Clusters /\ h # Available
  <2>1. h \in Clusters
    BY <1>2, OnNothing
  <2> QED BY <2>1, ClusterFacts
<1>4. fat[cs[Len(cs)]] = LAST
  BY <1>3, SoundFacts DEF Ending
<1>5. Len(cs) \in Nat /\ \A i \in 1 .. Len(cs) - 1 : cs[i + 1] = fat[cs[i]]
  BY <1>3, ChainFacts
<1>6. PICK i \in 1 .. Len(cs) : c = cs[i]
  BY <1>2 DEF On
<1> HIDE DEF cs
<1>7. i # Len(cs)
  BY <1>4, <1>6, ClusterFacts
<1>8. i \in 1 .. Len(cs) - 1
  BY <1>5, <1>7
<1> QED BY <1>5, <1>6, <1>8 DEF cs, LeadsAt

\* Two entries with a cluster in common are one.
LEMMA OneEntry ==
    ASSUME NEW disk, NEW fat, SoundTable(disk, fat), NEW p \in LiveOf(disk, fat),
           NEW q \in LiveOf(disk, fat),
           NEW i \in 1 .. Len(Chain(fat, At(disk, p).first)),
           NEW j \in 1 .. Len(Chain(fat, At(disk, q).first)),
           Chain(fat, At(disk, p).first)[i] = Chain(fat, At(disk, q).first)[j]
    PROVE  p = q /\ i = j
<1> DEFINE cs == Chain(fat, At(disk, p).first)
<1>1. p = q
  <2>1. cs[i] \in On(fat, At(disk, p).first) /\ cs[i] \in On(fat, At(disk, q).first)
    BY DEF On
  <2> HIDE DEF cs
  <2> QED BY <2>1, SoundFacts DEF Apart
<1>2. At(disk, p).first \in Clusters
  <2>1. ~(1 .. Len(cs) = {})
    OBVIOUS
  <2>2. Len(cs) # 0
    BY <2>1
  <2> HIDE DEF cs
  <2> QED BY <2>2, OnNothing DEF cs
<1>3. fat[cs[Len(cs)]] = LAST
  <2>1. At(disk, p).first # Available
    BY <1>2, ClusterFacts
  <2> QED BY <2>1, SoundFacts DEF Ending
<1>4. \A k, l \in 1 .. Len(cs) : cs[k] = cs[l] => k = l
  BY <1>2, <1>3, EndingDistinct
<1> QED BY <1>1, <1>4

LEMMA SoundLinks ==
    ASSUME NEW disk, NEW fat, SoundTable(disk, fat)
    PROVE  Links(fat)
<1>1. ASSUME NEW c \in Clusters, NEW d \in Clusters, fat[c] \in Clusters, fat[c] = fat[d]
      PROVE  c = d
  <2>1. PICK p \in LiveOf(disk, fat), i \in Nat \ {0} :
           LeadsAt(fat, At(disk, p).first, i, c)
    BY <1>1, LeadsWithin
  <2>2. PICK q \in LiveOf(disk, fat), j \in Nat \ {0} :
           LeadsAt(fat, At(disk, q).first, j, d)
    BY <1>1, LeadsWithin
  <2>3. p = q /\ i + 1 = j + 1
    BY <1>1, <2>1, <2>2, OneEntry DEF LeadsAt
  <2>4. i = j
    BY <2>3
  <2> QED BY <2>1, <2>2, <2>3, <2>4 DEF LeadsAt
<1>2. ASSUME NEW c \in Clusters, fat[c] \in Clusters PROVE fat[fat[c]] # Available
  <2>1. PICK p \in LiveOf(disk, fat), i \in Nat \ {0} :
           LeadsAt(fat, At(disk, p).first, i, c)
    BY <1>2, LeadsWithin
  <2>2. fat[c] \in On(fat, At(disk, p).first)
    BY <2>1 DEF On, LeadsAt
  <2> QED BY <1>2, <2>2, SoundFacts DEF UsedBy
<1> QED BY <1>1, <1>2 DEF Links, Injective

LEMMA SoundWhole ==
    ASSUME NEW disk, NEW fat, SoundTable(disk, fat), Dotted(disk, fat)
    PROVE  Whole(disk, fat, FALSE, {})
<1> DEFINE H == HeadsOf(disk, fat)
<1>1. disk \in AnyDisk /\ fat \in AnyTable
  BY DEF SoundTable
<1>2. ASSUME NEW p \in LiveOf(disk, fat), At(disk, p).first # Available
      PROVE  LET cs == Chain(fat, At(disk, p).first)
             IN  /\ At(disk, p).first \in Clusters
                 /\ At(disk, p).first \in On(fat, At(disk, p).first)
                 /\ Len(cs) \in Nat /\ Len(cs) >= 1 /\ cs[1] = At(disk, p).first
  <2>1. At(disk, p).first \in Clusters
    BY <1>1, <1>2, LivePlace, FirstType
  <2> QED BY <2>1, ChainFacts
<1>3. \A h \in H : h \in Clusters /\ fat[h] # Available /\ Orphan(fat, h)
  <2> SUFFICES ASSUME NEW p \in LiveOf(disk, fat), At(disk, p).first # Available
               PROVE  /\ At(disk, p).first \in Clusters /\ fat[At(disk, p).first] # Available
                      /\ Orphan(fat, At(disk, p).first)
    BY DEF HeadsOf
  <2>1. fat[At(disk, p).first] # Available /\ At(disk, p).first \in Clusters
    BY <1>2, SoundFacts DEF UsedBy
  <2>2. ASSUME NEW c \in Clusters, fat[c] = At(disk, p).first PROVE FALSE
    <3>1. PICK q \in LiveOf(disk, fat), j \in Nat \ {0} :
           LeadsAt(fat, At(disk, q).first, j, c)
      BY <2>1, <2>2, LeadsWithin
    <3>2. /\ 1 \in 1 .. Len(Chain(fat, At(disk, p).first))
          /\ Chain(fat, At(disk, p).first)[1] = At(disk, p).first
      BY <1>2
    <3>3. 1 = j + 1
      BY <2>2, <3>1, <3>2, OneEntry DEF LeadsAt
    <3> QED BY <3>3
  <2> QED BY <2>1, <2>2 DEF Orphan
<1>4. Shape(fat, H)
  BY <1>3, SoundLinks DEF Shape
<1>5. DistinctFirsts(disk, fat)
  <2> SUFFICES ASSUME NEW p \in LiveOf(disk, fat), NEW q \in LiveOf(disk, fat),
                      At(disk, p).first # Available, At(disk, p).first = At(disk, q).first
               PROVE  p = q
    BY DEF DistinctFirsts
  <2>1. At(disk, p).first \in On(fat, At(disk, p).first)
    BY <1>2
  <2> QED BY <2>1, SoundFacts DEF Apart
<1>6. Covered(fat, H)
  <2> SUFFICES ASSUME NEW c \in Clusters, fat[c] # Available
               PROVE  \E h \in H : c \in On(fat, h)
    BY DEF Covered
  <2>1. PICK p \in LiveOf(disk, fat) : c \in On(fat, At(disk, p).first)
    BY SoundFacts DEF UsedBy
  <2>2. At(disk, p).first # Available
    BY <2>1, OnNothing, ClusterFacts
  <2>3. At(disk, p).first \in H
    BY <2>2 DEF HeadsOf
  <2> QED BY <2>1, <2>3
<1>7. H \cup {} = H /\ {} \cap H = {}
  OBVIOUS
<1>8. Sufficient(disk, fat)
  BY SoundFacts
<1> HIDE DEF H
<1> QED BY <1>1, <1>4, <1>5, <1>6, <1>7, <1>8 DEF Whole, H

\* What a volume is that a command works on.
LEMMA SettledSound ==
    ASSUME NEW m, Settled(m)
    PROVE  Sound(m)
<1>1. PICK T : Fine(m, {}, T)
  BY DEF Settled
<1>2. m.disk \in AnyDisk /\ m.refused \in BOOLEAN
  BY SettledType, FieldTypes
<1>3. CASE m.refused
  BY <1>1, <1>2, <1>3, SoundIs DEF Fine, BothApart, SoundAs
<1>4. CASE ~m.refused
  <2>1. Whole(m.disk, m.fat, m.full, {}) /\ m.refused = FALSE
    BY <1>1, <1>2, <1>4 DEF Fine, Good
  <2>2. SoundAs(m.disk, m.fat, FALSE, m.full)
    BY <2>1, WholeSound
  <2> QED BY <1>2, <2>1, <2>2, SoundIs
<1> QED BY <1>3, <1>4
=============================================================================
