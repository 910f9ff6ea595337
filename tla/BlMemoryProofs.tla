--------------------------- MODULE BlMemoryProofs ---------------------------
(***************************************************************************)
(* Machine-checked theorems about BlMemory, for every size of memory, of   *)
(* pages, of the heap and of the requests: the types hold; and, as long as *)
(* requests are Roomy, the descriptor list keeps its pages disjoint, none  *)
(* is lost, the boot heap never reaches "never get here", and the objects  *)
(* in it lie apart.                                                        *)
(*                                                                         *)
(* A call may split one descriptor in three and take a new heap from       *)
(* another, or from the same one.  Its effect on the list is summed up by  *)
(* an origin map: every descriptor of the new list lies inside one of the  *)
(* old list, and those of the same origin lie apart.                       *)
(***************************************************************************)
EXTENDS BlMemory, SequenceTheorems, WellFoundedInduction, TLAPS

-----------------------------------------------------------------------------
(* Scans of the list: a non-empty set of indices has a first element.      *)

LEMMA LeastExists ==
    ASSUME NEW S \in SUBSET Nat, S # {}
    PROVE  \E i \in S : \A j \in S : i <= j
<1>1. PICK i \in S : \A j \in S : <<j, i>> \notin OpToRel(<, Nat)
    BY WFMin, NatLessThanWellFounded, Zenon
<1>2. \A j \in S : ~(j < i)
    BY <1>1, Zenon DEF OpToRel
<1>3. QED
    BY <1>2

LEMMA FirstIsLeast ==
    ASSUME NEW S \in SUBSET Nat, S # {}
    PROVE  First(S) \in S /\ \A j \in S : First(S) <= j
BY LeastExists, Zenon DEF First

-----------------------------------------------------------------------------
(* ULONG arithmetic.                                                       *)

LEMMA WrapIsULong ==
    ASSUME NEW n \in Int
    PROVE  Wrap(n) \in ULongs
<1>1. Word \in Nat \ {0}
    BY SizesAssumption
<1>2. n % Word \in 0 .. (Word - 1)
    BY <1>1
<1>3. QED
    BY <1>2 DEF Wrap, ULongs

LEMMA WrapOfULong ==
    ASSUME NEW n \in ULongs
    PROVE  Wrap(n) = n
BY DEF Wrap

\* Sums and differences of ULONGs are computed modulo 2^32.
LEMMA WrapOfSums ==
    ASSUME NEW a \in ULongs, NEW b \in ULongs, NEW c \in ULongs
    PROVE  /\ Wrap(a + b) \in ULongs
           /\ Wrap(a - b) \in ULongs
           /\ Wrap(a - (b + c)) \in ULongs
<1>1. a + b \in Int /\ a - b \in Int /\ a - (b + c) \in Int
    BY SizesAssumption DEF ULongs
<1>2. QED
    BY <1>1, WrapIsULong

LEMMA RoundBounds ==
    ASSUME NEW n \in Nat
    PROVE  Round(n) \in Nat /\ Round(n) >= n
<1>1. Granularity \in Nat \ {0}
    BY SizesAssumption
<1> DEFINE q == (n + Granularity - 1) \div Granularity
           r == (n + Granularity - 1) % Granularity
<1>2. q \in Nat /\ r \in 0 .. (Granularity - 1)
    BY <1>1
<1>3. n + Granularity - 1 = q * Granularity + r
    BY <1>1
<1>4. q * Granularity \in Nat
    BY <1>1, <1>2
<1>5. QED
    BY <1>1, <1>2, <1>3, <1>4 DEF Round

LEMMA ULongsAreNaturals == ULongs \subseteq Nat /\ 0 \in ULongs
BY SizesAssumption DEF ULongs

-----------------------------------------------------------------------------
(* The boot heap.                                                          *)

LEMMA NewHeapPagesBounds ==
    ASSUME NEW size \in Nat
    PROVE  /\ NewHeapPages(size) \in Nat
           /\ NewHeapPages(size) >= HeapPages
           /\ size + DescBytes < NewHeapPages(size) * PageBytes
<1>1. PageBytes \in Nat \ {0} /\ DescBytes \in Nat /\ HeapPages \in Nat
    BY SizesAssumption
<1> DEFINE q == (size + DescBytes) \div PageBytes
           r == (size + DescBytes) % PageBytes
<1>2. q \in Nat /\ r \in 0 .. (PageBytes - 1)
    BY <1>1
<1>3. size + DescBytes = q * PageBytes + r
    BY <1>1
<1>4. size + DescBytes < (q + 1) * PageBytes
    BY <1>1, <1>2, <1>3
<1>5. q + 1 < HeapPages => (q + 1) * PageBytes <= HeapPages * PageBytes
    BY <1>1, <1>2
<1>6. q * PageBytes \in Nat /\ HeapPages * PageBytes \in Nat /\ (q + 1) * PageBytes \in Nat
    BY <1>1, <1>2
<1>7. CASE q + 1 < HeapPages
    <2>1. NewHeapPages(size) = HeapPages
        BY <1>7 DEF NewHeapPages
    <2>2. QED
        BY <2>1, <1>1, <1>4, <1>5, <1>6, <1>7
<1>8. CASE ~(q + 1 < HeapPages)
    <2>1. NewHeapPages(size) = q + 1
        BY <1>8 DEF NewHeapPages
    <2>2. QED
        BY <2>1, <1>1, <1>2, <1>4, <1>8
<1>9. QED
    BY <1>7, <1>8

LEMMA DonorsAreIndices ==
    ASSUME NEW m \in Memories, NEW pages
    PROVE  HeapDonors(m, pages) \in SUBSET Nat
BY LenProperties DEF HeapDonors, Memories

LEMMA GrowHeapType ==
    ASSUME NEW m \in Memories, NEW pages \in Nat, HeapDonors(m, pages) # {}
    PROVE  /\ GrowHeap(m, pages) \in Memories
           /\ Len(GrowHeap(m, pages).descs) = Len(m.descs) + 1
<1> DEFINE donor == First(HeapDonors(m, pages))
           d == m.descs[donor]
           left == d.count - pages
           page == Wrap(d.base + left)
           start == Wrap(page * PageBytes)
           shrunk == [m.descs EXCEPT ![donor].count = left]
           heap == [type |-> "OsloaderHeap", base |-> page, count |-> pages, at |-> m.limit]
<1>1. donor \in DOMAIN m.descs /\ d.count >= pages
    BY FirstIsLeast, DonorsAreIndices DEF HeapDonors
<1>2. m.descs \in Seq(Descriptors) /\ m.limit \in Nat
    BY DEF Memories
<1>3. donor \in 1 .. Len(m.descs) /\ d \in Descriptors
    BY <1>1, <1>2, LenProperties, ElementOfSeq
<1>4. left \in ULongs /\ left \in Nat /\ pages \in ULongs /\ d.base \in Nat
    BY <1>1, <1>3, SizesAssumption DEF Descriptors, ULongs
<1>5. d.base + left \in Int
    <2> HIDE DEF left, d
    <2>1. QED
        BY <1>4
<1>6. page \in ULongs /\ page \in Nat
    BY <1>5, ULongsAreNaturals, WrapIsULong
<1>7. page * PageBytes \in Int /\ pages * PageBytes \in Int
    <2> HIDE DEF page
    <2>1. QED
        BY <1>6, SizesAssumption
<1>8. start \in ULongs /\ start \in Nat
    BY <1>7, WrapIsULong, ULongsAreNaturals
<1>16. Wrap(start + pages * PageBytes - DescBytes) \in Nat
    <2> HIDE DEF start
    <2>1. start + pages * PageBytes - DescBytes \in Int
        BY <1>7, <1>8, SizesAssumption
    <2>2. QED
        BY <2>1, WrapIsULong, ULongsAreNaturals
<1>9. [d EXCEPT !.count = left] \in Descriptors
    BY <1>3, <1>4 DEF Descriptors
<1>10. shrunk = [m.descs EXCEPT ![donor] = [d EXCEPT !.count = left]]
    OBVIOUS
<1>11. shrunk \in Seq(Descriptors) /\ Len(shrunk) = Len(m.descs)
    BY <1>2, <1>3, <1>9, <1>10, ExceptSeq
<1>12. heap \in Descriptors
    BY <1>2, <1>4, <1>6 DEF Descriptors, PageTypes
<1>13. Append(shrunk, heap) \in Seq(Descriptors)
       /\ Len(Append(shrunk, heap)) = Len(m.descs) + 1
    BY <1>2, <1>11, <1>12, AppendProperties
<1>14. GrowHeap(m, pages) =
         [descs |-> Append(shrunk, heap), free |-> start,
          limit |-> Wrap(start + pages * PageBytes - DescBytes)]
    BY DEF GrowHeap
<1>15. QED
    <2> HIDE DEF start, shrunk, heap
    <2>1. QED
        BY <1>8, <1>16, <1>13, <1>14 DEF Memories

LEMMA BumpProperties ==
    ASSUME NEW m \in Memories, NEW size \in Nat
    PROVE  LET bumped == [m EXCEPT !.free = @ + size]
           IN  /\ bumped \in Memories
               /\ bumped.descs = m.descs
               /\ bumped.limit = m.limit
               /\ bumped.free = m.free + size
<1>1. m = [descs |-> m.descs, free |-> m.free, limit |-> m.limit]
    BY DEF Memories
<1>2. [m EXCEPT !.free = @ + size] =
        [descs |-> m.descs, free |-> m.free + size, limit |-> m.limit]
    BY <1>1
<1>3. m.free + size \in Nat
    BY DEF Memories
<1>4. QED
    BY <1>2, <1>3 DEF Memories

LEMMA AllocateHeapType ==
    ASSUME NEW m \in Memories, NEW bytes \in Nat
    PROVE  LET heap == BlAllocateHeap(m, bytes)
           IN  /\ heap.mem \in Memories
               /\ heap.block \in Nat
               /\ heap.ok \in BOOLEAN
               /\ Len(heap.mem.descs) \in {Len(m.descs), Len(m.descs) + 1}
<1> DEFINE size == Round(bytes)
           pages == NewHeapPages(size)
           grown == GrowHeap(m, pages)
<1>1. size \in Nat
    BY RoundBounds
<1>2. pages \in Nat
    <2> HIDE DEF size
    <2>1. QED
        BY <1>1, NewHeapPagesBounds
<1>3. CASE m.free + size <= m.limit
    <2> HIDE DEF size
    <2>1. [m EXCEPT !.free = @ + size] \in Memories
        BY <1>1 DEF Memories
    <2>2. BlAllocateHeap(m, bytes) = [ok |-> TRUE, block |-> m.free,
                                      mem |-> [m EXCEPT !.free = @ + size]]
        BY <1>3 DEF BlAllocateHeap, size
    <2>3. QED
        BY <2>1, <2>2 DEF Memories
<1>4. CASE ~(m.free + size <= m.limit) /\ HeapDonors(m, pages) = {}
    <2>1. BlAllocateHeap(m, bytes) = [ok |-> FALSE, block |-> 0, mem |-> m]
        BY <1>4 DEF BlAllocateHeap
    <2>2. QED
        BY <2>1
<1>5. CASE ~(m.free + size <= m.limit) /\ HeapDonors(m, pages) # {}
    <2> HIDE DEF size, pages
    <2>1. grown \in Memories /\ Len(grown.descs) = Len(m.descs) + 1
        BY <1>2, <1>5, GrowHeapType
    <2> HIDE DEF grown
    <2> DEFINE bumped == [grown EXCEPT !.free = @ + size]
    <2>2. bumped \in Memories /\ Len(bumped.descs) = Len(m.descs) + 1
        BY <1>1, <2>1, BumpProperties
    <2>3. grown.free \in Nat
        BY <2>1 DEF Memories
    <2>4. \/ BlAllocateHeap(m, bytes) = [ok |-> TRUE, block |-> grown.free, mem |-> bumped]
          \/ BlAllocateHeap(m, bytes) = [ok |-> FALSE, block |-> 0, mem |-> grown]
        BY <1>5 DEF BlAllocateHeap, size, pages, grown
    <2> HIDE DEF bumped
    <2>5. CASE BlAllocateHeap(m, bytes) = [ok |-> TRUE, block |-> grown.free, mem |-> bumped]
        BY <2>2, <2>3, <2>5
    <2>6. CASE BlAllocateHeap(m, bytes) = [ok |-> FALSE, block |-> 0, mem |-> grown]
        BY <2>1, <2>6
    <2>7. QED
        BY <2>4, <2>5, <2>6
<1>6. QED
    BY <1>3, <1>4, <1>5

-----------------------------------------------------------------------------
(* Descriptors.                                                            *)

\* A change of one descriptor's fields, and an insertion, stay in Memories.
LEMMA AddDescriptorShape ==
    ASSUME NEW m \in Memories, NEW type, NEW base, NEW count, NEW at
    PROVE  AddDescriptor(m, type, base, count, at) =
             [descs |-> Append(m.descs, [type |-> type, base |-> base,
                                         count |-> count, at |-> at]),
              free |-> m.free, limit |-> m.limit]
<1>1. m = [descs |-> m.descs, free |-> m.free, limit |-> m.limit]
    BY DEF Memories
<1>2. QED
    BY <1>1, SMTT(40) DEF AddDescriptor

LEMMA AddDescriptorType ==
    ASSUME NEW m \in Memories, NEW type \in PageTypes, NEW base \in ULongs,
           NEW count \in ULongs, NEW at \in Nat,
           NEW added, added = AddDescriptor(m, type, base, count, at)
    PROVE  added \in Memories /\ Len(added.descs) = Len(m.descs) + 1
<1> DEFINE new == [type |-> type, base |-> base, count |-> count, at |-> at]
<1>1. new \in Descriptors /\ m.descs \in Seq(Descriptors)
    BY DEF Descriptors, Memories
<1>2. added = [descs |-> Append(m.descs, new), free |-> m.free, limit |-> m.limit]
    BY AddDescriptorShape
<1> HIDE DEF new
<1>3. /\ Append(m.descs, new) \in Seq(Descriptors)
      /\ Len(Append(m.descs, new)) = Len(m.descs) + 1
    BY <1>1, AppendProperties
<1>4. QED
    BY <1>2, <1>3 DEF Memories

LEMMA ReplaceShape ==
    ASSUME NEW m \in Memories, NEW i, NEW d
    PROVE  [m EXCEPT !.descs[i] = d] =
             [descs |-> [m.descs EXCEPT ![i] = d], free |-> m.free, limit |-> m.limit]
<1>1. m = [descs |-> m.descs, free |-> m.free, limit |-> m.limit]
    BY DEF Memories
<1>2. QED
    BY <1>1

LEMMA ReplaceType ==
    ASSUME NEW m \in Memories, NEW i \in DOMAIN m.descs, NEW d \in Descriptors
    PROVE  [m EXCEPT !.descs[i] = d] \in Memories
<1>1. m.descs \in Seq(Descriptors)
    BY DEF Memories
<1>2. i \in 1 .. Len(m.descs)
    BY <1>1, LenProperties
<1>3. [m.descs EXCEPT ![i] = d] \in Seq(Descriptors)
    BY <1>1, <1>2, ExceptSeq
<1>4. QED
    BY <1>3, ReplaceShape DEF Memories

LEMMA DescriptorFields ==
    ASSUME NEW m \in Memories, NEW i \in DOMAIN m.descs
    PROVE  /\ i \in 1 .. Len(m.descs)
           /\ m.descs[i] \in Descriptors
           /\ m.descs[i] = [type |-> m.descs[i].type, base |-> m.descs[i].base,
                            count |-> m.descs[i].count, at |-> m.descs[i].at]
           /\ m.descs[i].base \in ULongs /\ m.descs[i].count \in ULongs
           /\ m.descs[i].type \in PageTypes /\ m.descs[i].at \in Nat
<1>1. m.descs \in Seq(Descriptors)
    BY DEF Memories
<1>2. i \in 1 .. Len(m.descs) /\ m.descs[i] \in Descriptors
    BY <1>1, LenProperties, ElementOfSeq
<1>3. QED
    BY <1>2 DEF Descriptors

\* The two ways BlGenerateDescriptor writes a descriptor in place.
LEMMA ResizeType ==
    ASSUME NEW m \in Memories, NEW i \in DOMAIN m.descs, NEW base \in ULongs,
           NEW count \in ULongs
    PROVE  Resize(m, i, base, count) \in Memories
<1> DEFINE d == [m.descs[i] EXCEPT !.base = base, !.count = count]
<1>1. d \in Descriptors
    BY DescriptorFields DEF Descriptors
<1>2. Resize(m, i, base, count) = [m EXCEPT !.descs[i] = d]
    BY DEF Resize
<1> HIDE DEF d
<1>3. QED
    BY <1>1, <1>2, ReplaceType

LEMMA SetType ==
    ASSUME NEW m \in Memories, NEW i \in DOMAIN m.descs, NEW type \in PageTypes
    PROVE  [m EXCEPT !.descs[i].type = type] \in Memories
<1> DEFINE d == [m.descs[i] EXCEPT !.type = type]
<1>1. d \in Descriptors
    BY DescriptorFields DEF Descriptors
<1>2. [m EXCEPT !.descs[i].type = type] = [m EXCEPT !.descs[i] = d]
    OBVIOUS
<1> HIDE DEF d
<1>3. QED
    BY <1>1, <1>2, ReplaceType

Results == [status : {"ESUCCESS", "ENOMEM"}, mem : Memories]

\* Indices of the list stay indices of the list while the heap grows.
LEMMA IndexAfterHeap ==
    ASSUME NEW m \in Memories, NEW i \in DOMAIN m.descs
    PROVE  LET heap == BlAllocateHeap(m, DescBytes)
           IN  i \in DOMAIN heap.mem.descs
<1>1. DescBytes \in Nat
    BY SizesAssumption
<1> DEFINE grown == BlAllocateHeap(m, DescBytes).mem
<1>2. grown \in Memories /\ Len(grown.descs) \in {Len(m.descs), Len(m.descs) + 1}
    BY <1>1, AllocateHeapType
<1> HIDE DEF grown
<1>3. DOMAIN grown.descs = 1 .. Len(grown.descs)
      /\ DOMAIN m.descs = 1 .. Len(m.descs) /\ Len(m.descs) \in Nat
    BY <1>2, LenProperties DEF Memories
<1>4. i \in DOMAIN grown.descs
    BY <1>2, <1>3
<1>5. QED
    BY <1>4 DEF grown

LEMMA SplitMiddleType ==
    ASSUME NEW m \in Memories, NEW i \in DOMAIN m.descs, NEW base \in ULongs,
           NEW count \in ULongs, NEW offset \in ULongs
    PROVE  SplitMiddle(m, i, base, count, offset) \in Results
<1> DEFINE heap  == BlAllocateHeap(m, DescBytes)
           grown == heap.mem
           tail  == Wrap(grown.descs[i].count - (count + offset))
           added == AddDescriptor(grown, "Free", Wrap(base + count), tail, heap.block)
<1>1. grown \in Memories /\ heap.block \in Nat /\ heap.ok \in BOOLEAN
    BY SizesAssumption, AllocateHeapType
<1>2. i \in DOMAIN grown.descs
    BY IndexAfterHeap
<1> HIDE DEF heap, grown
<1>3. grown.descs[i].count \in ULongs
    BY <1>1, <1>2, DescriptorFields
<1>5. tail \in ULongs /\ Wrap(base + count) \in ULongs
    BY <1>3, WrapOfSums
<1> HIDE DEF tail
<1>6. "Free" \in PageTypes
    BY DEF PageTypes, FirmwareTypes
<1>7. added \in Memories /\ Len(added.descs) = Len(grown.descs) + 1
    BY <1>1, <1>5, <1>6, AddDescriptorType
<1> HIDE DEF added
<1>8. i \in DOMAIN added.descs
    BY <1>1, <1>2, <1>7, LenProperties DEF Memories
<1> DEFINE cut == Resize(added, i, added.descs[i].base, offset)
<1>9. cut \in Memories
    BY <1>7, <1>8, DescriptorFields, ResizeType
<1>10. SplitMiddle(m, i, base, count, offset) =
         IF ~heap.ok THEN [status |-> "ENOMEM", mem |-> grown]
         ELSE [status |-> "ESUCCESS", mem |-> cut]
    BY DEF SplitMiddle, heap, grown, tail, added
<1> HIDE DEF cut
<1>11. QED
    BY <1>1, <1>9, <1>10 DEF Results

LEMMA GenerateType ==
    ASSUME NEW m \in Memories, NEW i \in DOMAIN m.descs, NEW type \in PageTypes,
           NEW base \in ULongs, NEW count \in ULongs
    PROVE  BlGenerateDescriptor(m, i, type, base, count) \in Results
<1> DEFINE offset == Wrap(base - m.descs[i].base)
           heap   == BlAllocateHeap(m, DescBytes)
           grown  == heap.mem
           added  == AddDescriptor(grown, type, base, count, heap.block)
           d      == added.descs[i]
           result == BlGenerateDescriptor(m, i, type, base, count)
           front  == Resize(added, i, Wrap(d.base + count), Wrap(d.count - count))
           back   == Resize(added, i, d.base, Wrap(d.count - count))
<1>1. offset \in ULongs
    BY DescriptorFields, WrapOfSums
<1>2. grown \in Memories /\ heap.block \in Nat /\ heap.ok \in BOOLEAN
    BY SizesAssumption, AllocateHeapType
<1>3. i \in DOMAIN grown.descs
    BY IndexAfterHeap
<1> HIDE DEF offset, heap, grown
<1>4. added \in Memories /\ Len(added.descs) = Len(grown.descs) + 1
    BY <1>2, AddDescriptorType
<1> HIDE DEF added
<1>5. i \in DOMAIN added.descs
    BY <1>2, <1>3, <1>4, LenProperties DEF Memories
<1>6. d.base \in ULongs /\ d.count \in ULongs
    BY <1>4, <1>5, DescriptorFields
<1>8. Wrap(d.base + count) \in ULongs /\ Wrap(d.count - count) \in ULongs
    BY <1>6, WrapOfSums
<1>9. front \in Memories /\ back \in Memories
    BY <1>4, <1>5, <1>6, <1>8, ResizeType
<1>11. [m EXCEPT !.descs[i].type = type] \in Memories
    BY SetType
<1>12. SplitMiddle(added, i, base, count, offset) \in Results
    BY <1>1, <1>4, <1>5, SplitMiddleType
<1>13. result =
         IF offset = 0 /\ count = m.descs[i].count
         THEN [status |-> "ESUCCESS", mem |-> [m EXCEPT !.descs[i].type = type]]
         ELSE IF ~heap.ok THEN [status |-> "ENOMEM", mem |-> grown]
         ELSE IF base = d.base THEN [status |-> "ESUCCESS", mem |-> front]
         ELSE IF Wrap(offset + count) = d.count THEN [status |-> "ESUCCESS", mem |-> back]
         ELSE SplitMiddle(added, i, base, count, offset)
    BY DEF BlGenerateDescriptor, offset, heap, grown, added
<1> HIDE DEF front, back, d, result
<1>14. result \in Results
    BY <1>2, <1>9, <1>11, <1>12, <1>13 DEF Results
<1>15. QED
    BY <1>14 DEF result

-----------------------------------------------------------------------------
(* The firmware's map and the first list.                                  *)

FirmwareDescriptors == [type : FirmwareTypes, base : Nat, count : Nat]

\* Three descriptors that follow each other from page 0 to the end of RAM.
FirmwareOK ==
    /\ firmware \in Seq(FirmwareDescriptors)
    /\ Len(firmware) = 3
    /\ firmware[1].type = "FirmwarePermanent"
    /\ firmware[2].type = "LoadedProgram"
    /\ firmware[3].type = "Free"
    /\ firmware[1].base = 0 /\ firmware[1].count = LowPages
    /\ firmware[2].base = LowPages /\ firmware[2].count > 0
    /\ firmware[3].base = LowPages + firmware[2].count
    /\ firmware[3].base + firmware[3].count = RamTop

LEMMA InitFirmware == Init => FirmwareOK
<1> SUFFICES ASSUME firmware = MDArray PROVE FirmwareOK
    BY DEF Init
<1>1. /\ LowPages \in Nat /\ RamTop \in Nat /\ NominalEnd \in Nat
      /\ NominalEnd - LowPages \in Nat \ {0} /\ RamTop - NominalEnd \in Nat
    BY SizesAssumption
<1>2. QED
    BY <1>1 DEF MDArray, FirmwareOK, FirmwareDescriptors, FirmwareTypes

LEMMA FirmwareShape ==
    ASSUME FirmwareOK, NEW i \in 1 .. 3
    PROVE  /\ DOMAIN firmware = 1 .. 3
           /\ firmware \in [1 .. 3 -> FirmwareDescriptors]
           /\ firmware[i] = [type |-> firmware[i].type, base |-> firmware[i].base,
                             count |-> firmware[i].count]
           /\ firmware[i].base \in Nat /\ firmware[i].count \in Nat
<1>1. firmware \in Seq(FirmwareDescriptors) /\ Len(firmware) = 3
    BY DEF FirmwareOK
<1>2. DOMAIN firmware = 1 .. 3 /\ firmware \in [1 .. 3 -> FirmwareDescriptors]
    BY <1>1, LenProperties
<1>3. firmware[i] \in FirmwareDescriptors
    BY <1>2
<1>4. QED
    BY <1>2, <1>3 DEF FirmwareDescriptors

LEMMA FixupFirmware ==
    ASSUME FirmwareOK, NEW endPage \in EndPages, BlArmFixupMemoryMap(endPage)
    PROVE  FirmwareOK'
<1> DEFINE program == [firmware[2] EXCEPT !.count = endPage - LowPages]
           free    == [firmware[3] EXCEPT !.base = endPage, !.count = RamTop - endPage]
<1>1. /\ LowPages \in Nat /\ RamTop \in Nat
      /\ endPage - LowPages \in Nat \ {0} /\ RamTop - endPage \in Nat /\ endPage \in Nat
    BY SizesAssumption
<1>2. firmware' = [firmware EXCEPT ![2] = program, ![3] = free]
    BY DEF BlArmFixupMemoryMap, FirmwareOK
<1>3. /\ firmware \in [1 .. 3 -> FirmwareDescriptors]
      /\ firmware[2].base = LowPages
      /\ firmware[2].type = "LoadedProgram" /\ firmware[3].type = "Free"
    BY FirmwareShape DEF FirmwareOK
<1>4. firmware[2] \in FirmwareDescriptors /\ firmware[3] \in FirmwareDescriptors
    BY <1>3
<1>5. /\ program \in FirmwareDescriptors /\ program.type = "LoadedProgram"
      /\ program.base = LowPages /\ program.count = endPage - LowPages
    BY <1>1, <1>3, <1>4 DEF FirmwareDescriptors, FirmwareTypes, FirmwareOK
<1>10. /\ free \in FirmwareDescriptors /\ free.type = "Free"
      /\ free.base = endPage /\ free.count = RamTop - endPage
    BY <1>1, <1>3, <1>4 DEF FirmwareDescriptors, FirmwareTypes, FirmwareOK
<1> HIDE DEF program, free
<1>6. /\ firmware' \in [1 .. 3 -> FirmwareDescriptors]
      /\ firmware'[1] = firmware[1]
      /\ firmware'[2] = program
      /\ firmware'[3] = free
    BY <1>2, <1>3, <1>5, <1>10
<1>7. firmware' \in Seq(FirmwareDescriptors) /\ Len(firmware') = 3
    <2>1. firmware' \in Seq(FirmwareDescriptors)
        BY <1>6, SeqDef
    <2>2. QED
        BY <2>1, <1>6, LenProperties
<1>8. /\ endPage - LowPages > 0 /\ endPage + (RamTop - endPage) = RamTop
      /\ endPage = LowPages + (endPage - LowPages)
    BY <1>1
<1>9. QED
    BY <1>5, <1>10, <1>6, <1>7, <1>8 DEF FirmwareOK

LEMMA CarveFromTop ==
    ASSUME FirmwareOK, NEW carved \in CarveFrom(firmware)
    PROVE  carved = 3 /\ firmware[3].count >= CarvePages
<1>1. DOMAIN firmware = 1 .. 3
    BY FirmwareShape
<1> DEFINE programs == {i \in DOMAIN firmware : firmware[i].type = "LoadedProgram"}
           frees == {i \in DOMAIN firmware : firmware[i].type = "Free"}
           below == {i \in frees : firmware[i].base + firmware[i].count
                                     = firmware[First(programs)].base}
           large == {i \in frees : firmware[i].count >= CarvePages}
<1>2. programs = {2} /\ frees = {3}
    BY <1>1 DEF FirmwareOK
<1>3. First(programs) = 2
    BY <1>2, FirstIsLeast
<1>4. firmware[3].base + firmware[3].count = RamTop /\ firmware[2].base = LowPages
      /\ RamTop # LowPages
    BY SizesAssumption DEF FirmwareOK
<1>5. below = {}
    <2> HIDE DEF programs, frees
    <2>1. QED
        BY <1>2, <1>3, <1>4
<1>6. large \subseteq {3}
    BY <1>2
<1>7. CarveFrom(firmware) = IF large # {} THEN {First(large)} ELSE {}
    BY <1>5 DEF CarveFrom
<1>8. large # {} => large = {3} /\ First(large) = 3
    BY <1>6, FirstIsLeast
<1>9. QED
    <2> HIDE DEF programs, frees, below
    <2>1. 3 \in large => firmware[3].count >= CarvePages
        OBVIOUS
    <2> HIDE DEF large
    <2>2. QED
        BY <1>7, <1>8, <2>1

\* Every page number of the firmware's list is below RamTop, so a ULONG.
LEMMA FirmwareInRam ==
    ASSUME FirmwareOK, NEW i \in 1 .. 3
    PROVE  /\ firmware[i].base \in Nat /\ firmware[i].count \in Nat
           /\ firmware[i].base + firmware[i].count <= RamTop
<1>1. firmware[i].base \in Nat /\ firmware[i].count \in Nat
    BY FirmwareShape
<1>2. /\ firmware[1].base \in Nat /\ firmware[1].count \in Nat
      /\ firmware[2].base \in Nat /\ firmware[2].count \in Nat
      /\ firmware[3].base \in Nat /\ firmware[3].count \in Nat
    BY FirmwareShape
<1>3. LowPages \in Nat /\ RamTop \in Nat /\ LowPages <= RamTop
    BY SizesAssumption
<1>4. CASE i = 1
    BY <1>1, <1>3, <1>4 DEF FirmwareOK
<1>5. CASE i = 2
    BY <1>2, <1>3, <1>5 DEF FirmwareOK
<1>6. CASE i = 3
    BY <1>2, <1>3, <1>6 DEF FirmwareOK
<1>7. QED
    BY <1>1, <1>4, <1>5, <1>6

LEMMA RamIsULong == \A n \in 0 .. RamTop : n \in ULongs
BY SizesAssumption DEF ULongs

LEMMA SlotIsNatural ==
    ASSUME NEW start \in Nat, NEW n \in Nat \ {0}
    PROVE  InitialSlot(start, n) \in Nat
<1>1. Round(LoaderBlockBytes) \in Nat /\ Round(DescBytes) \in Nat
    BY RoundBounds, SizesAssumption
<1>2. n - 1 \in Nat
    OBVIOUS
<1>3. (n - 1) * Round(DescBytes) \in Nat
    BY <1>1, <1>2
<1>4. QED
    BY <1>1, <1>3 DEF InitialSlot

LEMMA InitialMemoryType ==
    ASSUME FirmwareOK, NEW carved \in CarveFrom(firmware)
    PROVE  /\ InitialMemory(firmware, carved) \in Memories
           /\ FirstHeap(firmware, carved) \in Nat
<1> DEFINE top == firmware[carved].base + firmware[carved].count
           n == Len(firmware)
           bottom == FirstHeap(firmware, carved)
           left == firmware[carved].count - CarvePages
           copy == [i \in DOMAIN firmware |->
                      [type  |-> firmware[i].type,
                       base  |-> firmware[i].base,
                       count |-> IF i = carved THEN left ELSE firmware[i].count,
                       at    |-> InitialSlot(bottom, i)]]
           stack == [type |-> "OsloaderStack", base |-> top - StackPages,
                     count |-> StackPages, at |-> InitialSlot(bottom, n + 1)]
           heap == [type |-> "OsloaderHeap", base |-> top - CarvePages,
                    count |-> HeapPages, at |-> InitialSlot(bottom, n + 2)]
<1>1. carved = 3 /\ firmware[3].count >= CarvePages
    BY CarveFromTop
<1>2. /\ HeapPages \in Nat /\ StackPages \in Nat /\ PageBytes \in Nat /\ RamTop \in Nat
      /\ firmware[3].base \in Nat /\ firmware[3].count \in Nat /\ top <= RamTop
    BY <1>1, SizesAssumption, FirmwareInRam
<1>3. /\ left \in 0 .. RamTop
      /\ top - StackPages \in 0 .. RamTop /\ top - CarvePages \in 0 .. RamTop
      /\ StackPages \in 0 .. RamTop /\ HeapPages \in 0 .. RamTop
    BY <1>1, <1>2 DEF CarvePages
<1>4. bottom = (top - CarvePages) * PageBytes
    <2>1. firmware[carved].base + firmware[carved].count - CarvePages = top - CarvePages
        BY <1>1, <1>2 DEF CarvePages
    <2> HIDE DEF top
    <2>2. QED
        BY <2>1 DEF FirstHeap
<1>5. bottom \in Nat
    BY <1>2, <1>3, <1>4
<1> HIDE DEF bottom, left
<1>6. /\ DOMAIN firmware = 1 .. 3 /\ n = 3
      /\ \A i \in 1 .. 3 : firmware[i].type \in FirmwareTypes
    <2>1. firmware \in [1 .. 3 -> FirmwareDescriptors]
        BY FirmwareShape
    <2>2. QED
        BY <2>1 DEF FirmwareDescriptors, FirmwareOK
<1>7. ASSUME NEW i \in 1 .. 3 PROVE copy[i] \in Descriptors
    <2>1. firmware[i].base \in 0 .. RamTop /\ firmware[i].count \in 0 .. RamTop
        BY <1>2, FirmwareInRam
    <2>2. InitialSlot(bottom, i) \in Nat
        BY <1>5, SlotIsNatural
    <2>3. /\ firmware[i].base \in ULongs /\ firmware[i].count \in ULongs /\ left \in ULongs
        BY <1>3, <2>1, RamIsULong
    <2>4. QED
        BY <1>6, <2>2, <2>3 DEF Descriptors, PageTypes
<1>8. copy \in Seq(Descriptors) /\ Len(copy) = 3
    <2>1. copy \in [1 .. 3 -> Descriptors]
        BY <1>6, <1>7
    <2> HIDE DEF copy
    <2>2. copy \in Seq(Descriptors)
        <3>1. Seq(Descriptors) = UNION {[1 .. k -> Descriptors] : k \in Nat}
            BY SeqDef
        <3>2. QED
            BY <2>1, <3>1
    <2>3. QED
        BY <2>1, <2>2, LenProperties
<1>9. stack \in Descriptors /\ heap \in Descriptors
    <2>1. InitialSlot(bottom, n + 1) \in Nat /\ InitialSlot(bottom, n + 2) \in Nat
        BY <1>5, <1>6, SlotIsNatural
    <2>2. QED
        BY <1>3, <2>1, RamIsULong DEF Descriptors, PageTypes
<1> HIDE DEF copy, stack, heap, top
<1>10. <<stack, heap>> \in Seq(Descriptors)
    BY <1>9
<1>11. copy \o <<stack, heap>> \in Seq(Descriptors)
    BY <1>8, <1>10, ConcatProperties
<1>12. InitialMemory(firmware, carved) =
          [descs |-> copy \o <<stack, heap>>,
           free  |-> InitialSlot(bottom, n + 3),
           limit |-> bottom + HeapPages * PageBytes - DescBytes]
    BY Zenon DEF InitialMemory, copy, stack, heap, bottom, top, left
<1>13. InitialSlot(bottom, n + 3) \in Nat
    BY <1>5, <1>6, SlotIsNatural
<1>14. bottom + HeapPages * PageBytes - DescBytes \in Nat
    <2>1. /\ Round(LoaderBlockBytes) \in Nat /\ Round(DescBytes) \in Nat
          /\ DescBytes \in Nat /\ HeapPages * PageBytes \in Nat
        BY <1>2, RoundBounds, SizesAssumption
    <2>2. DescBytes <= HeapPages * PageBytes
        BY <2>1, FirstHeapAssumption
    <2>3. QED
        BY <1>5, <2>1, <2>2
<1>15. QED
    BY <1>5, <1>11, <1>12, <1>13, <1>14 DEF Memories, bottom

-----------------------------------------------------------------------------
(* Which descriptor serves a request.                                      *)

LEMMA SmallestExists ==
    ASSUME NEW m \in Memories, NEW count, HeapDonors(m, count) # {}
    PROVE  /\ Smallest(m, count) # {}
           /\ Smallest(m, count) \in SUBSET Nat
<1> DEFINE donors == HeapDonors(m, count)
           sizes == {m.descs[i].count : i \in donors}
<1>1. donors \in SUBSET Nat /\ donors \subseteq DOMAIN m.descs
    BY DonorsAreIndices DEF HeapDonors
<1>2. \A i \in donors : m.descs[i].count \in Nat
    BY <1>1, DescriptorFields, ULongsAreNaturals
<1> HIDE DEF donors
<1>3. sizes \in SUBSET Nat /\ sizes # {}
    BY <1>2 DEF donors
<1>4. PICK least \in sizes : \A size \in sizes : least <= size
    BY <1>3, LeastExists
<1>5. PICK i \in donors : m.descs[i].count = least
    BY <1>4
<1>6. i \in Smallest(m, count)
    BY <1>4, <1>5 DEF Smallest, donors
<1>7. QED
    BY <1>1, <1>6 DEF Smallest, donors

LEMMA HoldersAreIndices ==
    ASSUME NEW m \in Memories, NEW base, NEW count
    PROVE  Holders(m, base, count) \in SUBSET Nat
BY LenProperties DEF Holders, Memories

LEMMA ServerType ==
    ASSUME NEW m \in Memories, NEW base \in ULongs, NEW count, Servable(m, base, count),
           NEW server, server = Server(m, base, count)
    PROVE  /\ server.index \in DOMAIN m.descs /\ m.descs[server.index].type = "Free"
           /\ server.base \in ULongs
           /\ \/ server.base = base /\ server.index \in Holders(m, base, count)
              \/ /\ server.base = m.descs[server.index].base
                 /\ server.index \in HeapDonors(m, count)
<1>1. CASE Holders(m, base, count) # {}
    <2>1. First(Holders(m, base, count)) \in Holders(m, base, count)
        BY <1>1, HoldersAreIndices, FirstIsLeast
    <2>2. server = [index |-> First(Holders(m, base, count)), base |-> base]
        BY <1>1 DEF Server
    <2>3. server.index = First(Holders(m, base, count)) /\ server.base = base
        BY <2>2
    <2>4. QED
        BY <2>1, <2>3 DEF Holders
<1>2. CASE Holders(m, base, count) = {}
    <2> DEFINE i == First(Smallest(m, count))
    <2>1. HeapDonors(m, count) # {}
        BY <1>2 DEF Servable
    <2>2. i \in HeapDonors(m, count)
        BY <2>1, SmallestExists, FirstIsLeast DEF Smallest
    <2>3. server = [index |-> i, base |-> m.descs[i].base]
        BY <1>2 DEF Server
    <2>4. server.index = i /\ server.base = m.descs[i].base
        BY <2>3
    <2>5. QED
        BY <2>2, <2>4, DescriptorFields DEF HeapDonors
<1>3. QED
    BY <1>1, <1>2

-----------------------------------------------------------------------------
(* Type correctness.                                                       *)

TypeInv == TypeOK /\ FirmwareOK

LEMMA AlignIsNatural ==
    ASSUME NEW at \in Nat
    PROVE  Align(at) \in Nat /\ Align(at) >= at /\ Align(at) < at + FillSize
<1> DEFINE q == (at + FillSize - 1) \div FillSize
           r == (at + FillSize - 1) % FillSize
<1>1. FillSize \in Nat \ {0}
    BY SizesAssumption
<1>2. q \in Nat /\ r \in 0 .. (FillSize - 1)
    BY <1>1
<1>3. at + FillSize - 1 = q * FillSize + r
    BY <1>1
<1>4. q * FillSize \in Nat
    BY <1>1, <1>2
<1>5. QED
    BY <1>1, <1>2, <1>3, <1>4 DEF Align

LEMMA StatusType ==
    ASSUME NEW s \in {"none", "ESUCCESS", "ENOMEM", "NULL"}
    PROVE  Status(s) \in [op : {"none", "ESUCCESS", "ENOMEM", "NULL"},
                          type : PageTypes, base : Nat, count : Nat]
BY DEF Status, PageTypes, FirmwareTypes

LEMMA InitTypeInv == Init => TypeInv
<1> SUFFICES ASSUME Init PROVE TypeInv
    OBVIOUS
<1>1. NoMemory \in Memories
    BY DEF NoMemory, Memories
<1>2. QED
    BY <1>1, InitFirmware, StatusType DEF TypeInv, TypeOK, Init, FirmwareOK, FirmwareDescriptors

LEMMA SetupTypeInv ==
    ASSUME TypeInv, Setup
    PROVE  TypeInv'
<1>1. ASSUME NEW endPage \in EndPages, BlArmFixupMemoryMap(endPage)
      PROVE  TypeInv'
    <2>1. FirmwareOK'
        BY <1>1, FixupFirmware DEF TypeInv
    <2>2. firmware' \in Seq([type : FirmwareTypes, base : Nat, count : Nat])
        BY <2>1, Zenon DEF FirmwareOK, FirmwareDescriptors
    <2>3. phase' = "mapped" /\ UNCHANGED <<mem, blocks, answer>>
        BY <1>1 DEF BlArmFixupMemoryMap
    <2> HIDE DEF FirmwareOK
    <2>4. QED
        BY <2>1, <2>2, <2>3 DEF TypeInv, TypeOK
<1>2. ASSUME BlMemoryInitialize
      PROVE  TypeInv'
    <2>1. FirmwareOK' /\ firmware' = firmware
        BY <1>2 DEF TypeInv, BlMemoryInitialize, FirmwareOK
    <2>2. CASE CarveFrom(firmware) = {} /\ answer' = Status("ENOMEM") /\ phase' = "failed"
               /\ UNCHANGED <<mem, blocks>>
        BY <2>1, <2>2, StatusType DEF TypeInv, TypeOK
    <2>3. ASSUME NEW carved \in CarveFrom(firmware),
                 phase' = "up", mem' = InitialMemory(firmware, carved),
                 blocks' = <<[at |-> FirstHeap(firmware, carved),
                              bytes |-> LoaderBlockBytes]>>,
                 answer' = Status("ESUCCESS")
          PROVE  TypeInv'
        <3>1. mem' \in Memories /\ FirstHeap(firmware, carved) \in Nat
            BY <2>3, InitialMemoryType DEF TypeInv
        <3>2. blocks' \in Seq([at : Nat, bytes : Nat])
            BY <2>3, <3>1, SizesAssumption
        <3>3. QED
            BY <2>1, <2>3, <3>1, <3>2, StatusType DEF TypeInv, TypeOK
    <2>4. QED
        BY <1>2, <2>2, <2>3 DEF BlMemoryInitialize
<1>3. QED
    BY <1>1, <1>2 DEF Setup

\* Both heap calls: what the caller gets, and NULL with the bytes asked for.
LEMMA HeapTypeInv ==
    ASSUME TypeInv, NEW bytes \in Nat, HeapCall(bytes),
           \/ /\ \E at, size \in Nat : blocks' = Append(blocks, [at |-> at, bytes |-> size])
              /\ answer' = Status("ESUCCESS")
           \/ /\ blocks' = blocks
              /\ answer' = [Status("NULL") EXCEPT !.count = bytes]
    PROVE  TypeInv'
<1>1. mem' \in Memories
    BY AllocateHeapType DEF TypeInv, TypeOK, HeapCall
<1>2. FirmwareOK' /\ firmware' = firmware /\ phase' = phase
    BY DEF TypeInv, HeapCall, FirmwareOK
<1>3. [Status("NULL") EXCEPT !.count = bytes]
        \in [op : {"none", "ESUCCESS", "ENOMEM", "NULL"},
            type : PageTypes, base : Nat, count : Nat]
    BY DEF Status, PageTypes, FirmwareTypes
<1>4. blocks' \in Seq([at : Nat, bytes : Nat])
    <2>1. blocks \in Seq([at : Nat, bytes : Nat])
        BY DEF TypeInv, TypeOK
    <2>2. CASE blocks' = blocks
        BY <2>1, <2>2
    <2>3. ASSUME NEW at \in Nat, NEW size \in Nat,
                 blocks' = Append(blocks, [at |-> at, bytes |-> size])
          PROVE  blocks' \in Seq([at : Nat, bytes : Nat])
        BY <2>1, <2>3, AppendProperties
    <2>4. QED
        BY <2>2, <2>3
<1>5. QED
    BY <1>1, <1>2, <1>3, <1>4, StatusType DEF TypeInv, TypeOK

LEMMA HeapCallsTypeInv ==
    ASSUME TypeInv, NEW bytes \in HeapSizes,
           AllocateHeap(bytes) \/ BlAllocateHeapAligned(bytes)
    PROVE  TypeInv'
<1> DEFINE asked == bytes + FillSize - 1
<1>1. bytes \in Nat /\ asked \in Nat
    BY SizesAssumption
<1> HIDE DEF asked
<1>2. mem \in Memories
    BY DEF TypeInv, TypeOK
<1>3. BlAllocateHeap(mem, bytes).block \in Nat /\ BlAllocateHeap(mem, asked).block \in Nat
    BY <1>1, <1>2, AllocateHeapType
<1>4. Align(BlAllocateHeap(mem, asked).block) \in Nat
    BY <1>3, AlignIsNatural
<1>5. CASE AllocateHeap(bytes)
    BY <1>1, <1>3, <1>5, HeapTypeInv DEF AllocateHeap
<1>6. CASE BlAllocateHeapAligned(bytes)
    BY <1>1, <1>4, <1>6, HeapTypeInv DEF BlAllocateHeapAligned, asked
<1>7. QED
    BY <1>5, <1>6

LEMMA AllocateDescriptorTypeInv ==
    ASSUME TypeInv, NEW type \in ImageTypes \cup DataTypes, NEW base \in Bases,
           NEW count \in Counts, BlAllocateDescriptor(type, base, count)
    PROVE  TypeInv'
<1>1. mem \in Memories
    BY DEF TypeInv, TypeOK
<1>2. base \in ULongs /\ count \in ULongs /\ type \in PageTypes
    BY SizesAssumption DEF ULongs, PageTypes
<1>3. FirmwareOK' /\ firmware' = firmware /\ phase' = phase /\ blocks' = blocks
    BY DEF TypeInv, BlAllocateDescriptor, FirmwareOK
<1>4. CASE Servable(mem, base, count)
    <2> DEFINE server == Server(mem, base, count)
               result == BlGenerateDescriptor(mem, server.index, type, server.base, count)
    <2>1. server.index \in DOMAIN mem.descs /\ server.base \in ULongs
        BY <1>1, <1>2, <1>4, ServerType
    <2> HIDE DEF server
    <2>2. result \in Results
        BY <1>1, <1>2, <2>1, GenerateType
    <2>3. mem' = result.mem /\ answer' = [op |-> result.status, type |-> type,
                                          base |-> server.base, count |-> count]
        BY <1>4 DEF BlAllocateDescriptor, server
    <2> HIDE DEF result
    <2>4. mem' \in Memories
        BY <2>2, <2>3 DEF Results
    <2>5. answer' \in [op : {"none", "ESUCCESS", "ENOMEM", "NULL"},
                       type : PageTypes, base : Nat, count : Nat]
        BY <1>2, <2>1, <2>2, <2>3, ULongsAreNaturals DEF Results
    <2>6. QED
        BY <1>3, <2>4, <2>5 DEF TypeInv, TypeOK
<1>5. CASE ~Servable(mem, base, count)
    BY <1>1, <1>3, <1>5, StatusType DEF TypeInv, TypeOK, BlAllocateDescriptor
<1>6. QED
    BY <1>4, <1>5

LEMMA FoundIsIndex ==
    ASSUME NEW m \in Memories, NEW page, BlFindMemoryDescriptor(m, page) # {},
           NEW i, i = First(BlFindMemoryDescriptor(m, page))
    PROVE  i \in DOMAIN m.descs /\ page \in Pages(m.descs[i])
<1>1. BlFindMemoryDescriptor(m, page) \in SUBSET Nat
    BY LenProperties DEF BlFindMemoryDescriptor, Memories
<1>2. QED
    BY <1>1, FirstIsLeast DEF BlFindMemoryDescriptor

LEMMA FreeImageTailTypeInv ==
    ASSUME TypeInv, NEW page \in 0 .. RamTop, FreeImageTail(page)
    PROVE  TypeInv'
<1> DEFINE found == BlFindMemoryDescriptor(mem, page)
           i == First(found)
           d == mem.descs[i]
           rest == Wrap(d.count + d.base - page)
           result == BlGenerateDescriptor(mem, i, "Free", page, rest)
<1>1. mem \in Memories /\ page \in ULongs /\ "Free" \in PageTypes
    BY RamIsULong DEF TypeInv, TypeOK, PageTypes, FirmwareTypes
<1>2. found # {} /\ mem' = result.mem /\ answer' = Status("none")
    BY DEF FreeImageTail
<1>3. i \in DOMAIN mem.descs
    BY <1>1, <1>2, FoundIsIndex
<1> HIDE DEF found, i
<1>4. d.base \in ULongs /\ d.count \in ULongs
    BY <1>1, <1>3, DescriptorFields
<1> HIDE DEF d
<1>5. d.count + d.base - page \in Int
    <2>1. d.base \in Nat /\ d.count \in Nat
        BY <1>4, ULongsAreNaturals
    <2>3. page \in Nat
        BY SizesAssumption
    <2>2. QED
        BY <2>1, <2>3
<1>6. rest \in ULongs
    BY <1>5, WrapIsULong
<1> HIDE DEF rest
<1>7. result \in Results
    BY <1>1, <1>3, <1>6, GenerateType
<1> HIDE DEF result
<1>8. mem' \in Memories
    BY <1>2, <1>7 DEF Results
<1>9. FirmwareOK' /\ firmware' = firmware /\ phase' = phase /\ blocks' = blocks
    BY DEF TypeInv, FreeImageTail, FirmwareOK
<1>10. QED
    BY <1>2, <1>8, <1>9, StatusType DEF TypeInv, TypeOK

LEMMA NextTypeInv == TypeInv /\ [Next]_vars => TypeInv'
<1> SUFFICES ASSUME TypeInv, [Next]_vars PROVE TypeInv'
    OBVIOUS
<1>1. CASE UNCHANGED vars
    BY <1>1 DEF vars, TypeInv, TypeOK, FirmwareOK
<1>2. CASE Next
    BY <1>2, SetupTypeInv, HeapCallsTypeInv, AllocateDescriptorTypeInv,
       FreeImageTailTypeInv, Zenon DEF Next, HeapCalls
<1>3. QED
    BY <1>1, <1>2

LEMMA RoomyIsNext == [RoomyNext]_vars => [Next]_vars
BY Zenon DEF RoomyNext, Next, RoomyAllocate

\* Whatever is asked of the heap and of the list, roomy or not, every
\* descriptor the kernel gets keeps ULONG pages and a type of the ARC list,
\* and the scans and the in-place updates stay inside the list.
THEOREM TypeCorrect == Spec => []TypeOK
<1>1. Init => TypeInv
    BY InitTypeInv
<1>2. TypeInv /\ [Next]_vars => TypeInv'
    BY NextTypeInv
<1>3. TypeInv => TypeOK
    BY DEF TypeInv
<1>4. QED
    BY <1>1, <1>2, <1>3, PTL DEF Spec

-----------------------------------------------------------------------------
(* Descriptors that lie apart.                                             *)

InRam(d) == d.base + d.count <= RamTop

Apart(d, e) == d.base + d.count <= e.base \/ e.base + e.count <= d.base

Inside(d, e) == e.base <= d.base /\ d.base + d.count <= e.base + e.count

RamList(s) == s \in Seq(Descriptors) /\ \A i \in DOMAIN s : InRam(s[i])

GoodList(s) == RamList(s) /\ \A i, j \in DOMAIN s : i # j => Apart(s[i], s[j])

-----------------------------------------------------------------------------
(* Lists of descriptors.                                                   *)

LEMMA ListFields ==
    ASSUME NEW s \in Seq(Descriptors), NEW i \in DOMAIN s
    PROVE  /\ i \in 1 .. Len(s) /\ Len(s) \in Nat /\ s[i] \in Descriptors
           /\ s[i].base \in Nat /\ s[i].count \in Nat
           /\ s[i].base \in ULongs /\ s[i].count \in ULongs
<1>1. i \in 1 .. Len(s) /\ Len(s) \in Nat /\ s[i] \in Descriptors
    BY LenProperties, ElementOfSeq
<1>2. s[i].base \in ULongs /\ s[i].count \in ULongs
    BY <1>1 DEF Descriptors
<1>3. QED
    BY <1>1, <1>2, ULongsAreNaturals

\* What lies inside intervals that lie apart lies apart.
LEMMA InsideApart ==
    ASSUME NEW a \in Nat, NEW x \in Nat, NEW b \in Nat, NEW y \in Nat,
           NEW c \in Nat, NEW u \in Nat, NEW d \in Nat, NEW v \in Nat,
           c <= a, a + x <= c + u, d <= b, b + y <= d + v,
           c + u <= d \/ d + v <= c
    PROVE  a + x <= b \/ b + y <= a
BY SMT

\* Carving a good list along its origins gives a good list.
LEMMA RefineList ==
    ASSUME NEW s, GoodList(s), NEW t \in Seq(Descriptors),
           NEW origin \in [DOMAIN t -> DOMAIN s],
           \A i \in DOMAIN t : Inside(t[i], s[origin[i]]),
           \A i, j \in DOMAIN t :
               (i # j /\ origin[i] = origin[j]) => Apart(t[i], t[j])
    PROVE  GoodList(t)
<1>1. s \in Seq(Descriptors)
    BY DEF GoodList, RamList
<1>2. ASSUME NEW i \in DOMAIN t
      PROVE  /\ t[i].base \in Nat /\ t[i].count \in Nat
             /\ s[origin[i]].base \in Nat /\ s[origin[i]].count \in Nat
             /\ Inside(t[i], s[origin[i]])
    BY <1>1, ListFields
<1>3. ASSUME NEW i \in DOMAIN t PROVE InRam(t[i])
    <2>1. InRam(s[origin[i]])
        BY DEF GoodList, RamList
    <2>2. QED
        BY <1>2, <2>1, SizesAssumption DEF InRam, Inside
<1>4. ASSUME NEW i \in DOMAIN t, NEW j \in DOMAIN t, i # j PROVE Apart(t[i], t[j])
    <2>1. CASE origin[i] = origin[j]
        BY <1>4, <2>1
    <2>2. CASE origin[i] # origin[j]
        <3>1. Apart(s[origin[i]], s[origin[j]])
            BY <2>2 DEF GoodList
        <3>2. /\ t[i].base \in Nat /\ t[i].count \in Nat
              /\ s[origin[i]].base \in Nat /\ s[origin[i]].count \in Nat
              /\ Inside(t[i], s[origin[i]])
            BY <1>2
        <3>3. /\ t[j].base \in Nat /\ t[j].count \in Nat
              /\ s[origin[j]].base \in Nat /\ s[origin[j]].count \in Nat
              /\ Inside(t[j], s[origin[j]])
            BY <1>2
        <3>4. QED
            BY <3>1, <3>2, <3>3, InsideApart, Zenon DEF Apart, Inside
    <2>3. QED
        BY <2>1, <2>2
<1>5. QED
    BY <1>3, <1>4 DEF GoodList, RamList

\* One descriptor gives part of its pages to a new one.
LEMMA CarveList ==
    ASSUME NEW s, GoodList(s), NEW i \in DOMAIN s,
           NEW d \in Descriptors, NEW e \in Descriptors,
           Inside(d, s[i]), Inside(e, s[i]), Apart(d, e),
           NEW t, t = Append([s EXCEPT ![i] = d], e)
    PROVE  GoodList(t)
<1> DEFINE r == [s EXCEPT ![i] = d]
           origin == [j \in DOMAIN t |-> IF j = Len(s) + 1 THEN i ELSE j]
<1>1. s \in Seq(Descriptors) /\ i \in 1 .. Len(s) /\ Len(s) \in Nat
    BY ListFields DEF GoodList, RamList
<1>2. /\ r \in Seq(Descriptors) /\ Len(r) = Len(s)
      /\ \A j \in 1 .. Len(s) : r[j] = IF j = i THEN d ELSE s[j]
    BY <1>1, ExceptSeq
<1> HIDE DEF r
<1>3. /\ t \in Seq(Descriptors) /\ Len(t) = Len(s) + 1
      /\ \A j \in 1 .. Len(s) : t[j] = r[j]
      /\ t[Len(s) + 1] = e
    BY <1>2, AppendProperties DEF r
<1>4. DOMAIN t = 1 .. (Len(s) + 1) /\ DOMAIN s = 1 .. Len(s)
    BY <1>1, <1>3, LenProperties
<1>5. origin \in [DOMAIN t -> DOMAIN s]
    BY <1>1, <1>4
<1>6. ASSUME NEW j \in DOMAIN t PROVE Inside(t[j], s[origin[j]])
    <2>1. CASE j = Len(s) + 1
        BY <1>3, <2>1
    <2>2. CASE j = i
        BY <1>1, <1>2, <1>3, <2>2
    <2>3. CASE j # i /\ j # Len(s) + 1
        <3>1. j \in 1 .. Len(s)
            BY <1>1, <1>4, <2>3
        <3>2. t[j] = s[j] /\ origin[j] = j
            BY <1>2, <1>3, <2>3, <3>1
        <3>3. s[j].base \in Nat /\ s[j].count \in Nat
            BY <1>1, <1>4, <3>1, ListFields
        <3>4. QED
            BY <3>2, <3>3 DEF Inside
    <2>4. QED
        BY <2>1, <2>2, <2>3
<1>7. ASSUME NEW j \in DOMAIN t, NEW k \in DOMAIN t, j # k, origin[j] = origin[k]
      PROVE  Apart(t[j], t[k])
    <2>1. t[i] = d /\ t[Len(s) + 1] = e
        BY <1>1, <1>2, <1>3
    <2>2. \/ j = i /\ k = Len(s) + 1
          \/ k = i /\ j = Len(s) + 1
        BY <1>7
    <2>3. Apart(e, d)
        BY DEF Apart
    <2>4. QED
        BY <2>1, <2>2, <2>3
<1> HIDE DEF origin
<1>8. QED
    BY <1>3, <1>5, <1>6, <1>7, RefineList

-----------------------------------------------------------------------------
(* Heap growth, without wrapping.                                          *)

GrownList(s, donor, pages, at) ==
    Append([s EXCEPT ![donor] = [@ EXCEPT !.count = s[donor].count - pages]],
           [type |-> "OsloaderHeap", base |-> s[donor].base + (s[donor].count - pages),
            count |-> pages, at |-> at])

LEMMA BytesInRam ==
    ASSUME NEW n \in 0 .. RamTop
    PROVE  n * PageBytes \in Nat /\ n * PageBytes \in ULongs
<1>1. /\ PageBytes \in Nat \ {0} /\ RamTop \in Nat /\ Word \in Nat
      /\ n \in Nat /\ RamTop - n \in Nat
    BY SizesAssumption
<1>2. n * PageBytes \in Nat /\ (RamTop - n) * PageBytes \in Nat
    BY <1>1
<1>3. (RamTop + 1) * PageBytes = n * PageBytes + (RamTop - n) * PageBytes + PageBytes
    BY <1>1
<1>4. n * PageBytes < Word
    BY <1>1, <1>2, <1>3, SizesAssumption
<1>5. QED
    BY <1>1, <1>2, <1>4 DEF ULongs

LEMMA FirstHeapHolds ==
    ASSUME NEW pages \in Nat, pages >= HeapPages
    PROVE  /\ pages * PageBytes \in Nat /\ Round(DescBytes) \in Nat
           /\ 2 * Round(DescBytes) + DescBytes <= pages * PageBytes
<1>1. /\ HeapPages \in Nat /\ PageBytes \in Nat /\ DescBytes \in Nat
      /\ pages - HeapPages \in Nat
    BY SizesAssumption
<1>2. Round(DescBytes) \in Nat /\ Round(LoaderBlockBytes) \in Nat
    BY RoundBounds, SizesAssumption
<1>3. HeapPages * PageBytes \in Nat /\ (pages - HeapPages) * PageBytes \in Nat
    BY <1>1
<1>4. pages * PageBytes = HeapPages * PageBytes + (pages - HeapPages) * PageBytes
    BY <1>1
<1>5. QED
    BY <1>1, <1>2, <1>3, <1>4, FirstHeapAssumption

\* The heap grows by taking pages off the end of one free descriptor.
LEMMA GrowStep ==
    ASSUME NEW m \in Memories, RamList(m.descs), NEW size \in Nat,
           NEW pages, pages = NewHeapPages(size), HeapDonors(m, pages) # {},
           NEW grown, grown = GrowHeap(m, pages),
           NEW donor, donor = First(HeapDonors(m, pages))
    PROVE  /\ donor \in HeapDonors(m, pages)
           /\ grown.descs = GrownList(m.descs, donor, pages, m.limit)
           /\ grown.free \in Nat /\ grown.limit \in Nat
           /\ grown.free + size < grown.limit
           /\ grown.free + 2 * Round(DescBytes) <= grown.limit
           /\ grown.free = (m.descs[donor].base + (m.descs[donor].count - pages)) * PageBytes
           /\ grown.limit = grown.free + pages * PageBytes - DescBytes
<1> DEFINE d == m.descs[donor]
           left == d.count - pages
           page == d.base + left
<1>1. donor \in HeapDonors(m, pages)
    BY DonorsAreIndices, FirstIsLeast
<1>2. donor \in DOMAIN m.descs /\ d.count >= pages
    BY <1>1 DEF HeapDonors
<1>3. m.descs \in Seq(Descriptors) /\ d.base \in Nat /\ d.count \in Nat
    BY <1>2, ListFields DEF RamList
<1>4. d.base + d.count <= RamTop
    BY <1>2 DEF RamList, InRam
<1>5. /\ pages \in Nat /\ pages >= HeapPages
      /\ size + DescBytes < pages * PageBytes
    BY NewHeapPagesBounds
<1> HIDE DEF d
<1>6. left \in Nat /\ page \in 0 .. RamTop /\ page + pages \in 0 .. RamTop
    <2>1. RamTop \in Nat
        BY SizesAssumption
    <2>2. QED
        BY <1>2, <1>3, <1>4, <1>5, <2>1, SMTT(40)
<1> HIDE DEF left
<1>7. Wrap(d.base + left) = page
    BY <1>6, RamIsULong, WrapOfULong
<1> HIDE DEF page
<1>8. Wrap(page * PageBytes) = page * PageBytes /\ page * PageBytes \in Nat
    BY <1>6, BytesInRam, WrapOfULong
<1> DEFINE start == page * PageBytes
           limit == start + pages * PageBytes - DescBytes
<1>9. /\ pages * PageBytes \in Nat /\ Round(DescBytes) \in Nat /\ DescBytes \in Nat
      /\ 2 * Round(DescBytes) + DescBytes <= pages * PageBytes
    BY <1>5, FirstHeapHolds, SizesAssumption
<1>10. (page + pages) * PageBytes = start + pages * PageBytes
    BY <1>5, <1>6, SizesAssumption
<1>11. start + pages * PageBytes \in ULongs
    BY <1>6, <1>10, BytesInRam
<1> HIDE DEF start
<1>12. limit \in ULongs /\ limit \in Nat
    <2>1. start \in Nat
        BY <1>8 DEF start
    <2>2. limit \in Nat /\ limit <= start + pages * PageBytes
        BY <2>1, <1>9
    <2>3. QED
        BY <2>1, <2>2, <1>9, <1>11, SizesAssumption DEF ULongs
<1>13. Wrap(limit) = limit
    BY <1>12, WrapOfULong
<1>14. grown = [descs |-> GrownList(m.descs, donor, pages, m.limit),
                free |-> start, limit |-> limit]
    <2>1. grown = [descs |-> Append([m.descs EXCEPT ![donor].count = left],
                                    [type |-> "OsloaderHeap", base |-> Wrap(d.base + left),
                                     count |-> pages, at |-> m.limit]),
                   free |-> Wrap(Wrap(d.base + left) * PageBytes),
                   limit |-> Wrap(Wrap(Wrap(d.base + left) * PageBytes)
                                      + pages * PageBytes - DescBytes)]
        BY Zenon DEF GrowHeap, d, left
    <2>2. [m.descs EXCEPT ![donor].count = left]
            = [m.descs EXCEPT ![donor] = [@ EXCEPT !.count = m.descs[donor].count - pages]]
        BY DEF left, d
    <2>3. page = m.descs[donor].base + (m.descs[donor].count - pages)
        BY DEF page, left, d
    <2>4. grown = [descs |-> Append([m.descs EXCEPT ![donor].count = left],
                                    [type |-> "OsloaderHeap", base |-> page,
                                     count |-> pages, at |-> m.limit]),
                   free |-> start, limit |-> limit]
        BY <2>1, <1>7, <1>8, <1>13, Zenon DEF start
    <2>5. QED
        BY <2>2, <2>3, <2>4, Zenon DEF GrownList
<1>15. start \in Nat
    BY <1>8 DEF start
<1>16. start + size < limit /\ start + 2 * Round(DescBytes) <= limit
    BY <1>5, <1>9, <1>15
<1>17. grown.free = start /\ grown.limit = grown.free + pages * PageBytes - DescBytes
    BY <1>14
<1> HIDE DEF limit
<1>18. start = (m.descs[donor].base + (m.descs[donor].count - pages)) * PageBytes
    BY Zenon DEF start, page, left, d
<1>19. QED
    BY <1>1, <1>12, <1>14, <1>15, <1>16, <1>17, <1>18

LEMMA GrownListGood ==
    ASSUME NEW s, GoodList(s), NEW donor \in DOMAIN s, NEW pages \in Nat,
           pages <= s[donor].count, NEW at \in Nat
    PROVE  GoodList(GrownList(s, donor, pages, at))
<1> DEFINE left == s[donor].count - pages
           d == [s[donor] EXCEPT !.count = left]
           heap == [type |-> "OsloaderHeap", base |-> s[donor].base + left,
                    count |-> pages, at |-> at]
<1>1. s \in Seq(Descriptors)
    BY DEF GoodList, RamList
<1>2. /\ s[donor] \in Descriptors /\ s[donor].base \in Nat /\ s[donor].count \in Nat
      /\ s[donor].base + s[donor].count <= RamTop
    BY <1>1, ListFields DEF GoodList, RamList, InRam
<1>3. left \in 0 .. RamTop /\ pages \in 0 .. RamTop /\ s[donor].base + left \in 0 .. RamTop
    BY <1>2, SizesAssumption
<1> HIDE DEF left
<1>4. left \in ULongs /\ pages \in ULongs /\ s[donor].base + left \in ULongs
    BY <1>3, RamIsULong
<1>5. d \in Descriptors /\ d.base = s[donor].base /\ d.count = left
    BY <1>2, <1>4 DEF Descriptors
<1>6. heap \in Descriptors
    BY <1>4 DEF Descriptors, PageTypes
<1>7. heap.base = s[donor].base + left /\ heap.count = pages
    OBVIOUS
<1> HIDE DEF d, heap
<1>8. Inside(d, s[donor]) /\ Inside(heap, s[donor]) /\ Apart(d, heap)
    BY <1>2, <1>3, <1>5, <1>7 DEF Inside, Apart, left
<1>9. GrownList(s, donor, pages, at) = Append([s EXCEPT ![donor] = d], heap)
    BY DEF GrownList, d, heap, left
<1>10. QED
    BY <1>5, <1>6, <1>8, <1>9, CarveList

\* What a call of BlAllocateHeap does to the list and to the heap's room: it
\* fits, or there is no donor, or the heap grows and then has room to spare.
LEMMA HeapStep ==
    ASSUME NEW m \in Memories, RamList(m.descs), NEW bytes \in Nat,
           NEW heap, heap = BlAllocateHeap(m, bytes),
           NEW pages, pages = NewHeapPages(Round(bytes)),
           NEW donor, donor = First(HeapDonors(m, pages))
    PROVE  \/ /\ m.free + Round(bytes) <= m.limit
              /\ heap.ok
              /\ heap.mem.descs = m.descs
              /\ heap.mem.free = m.free + Round(bytes) /\ heap.mem.limit = m.limit
           \/ /\ ~(m.free + Round(bytes) <= m.limit)
              /\ HeapDonors(m, pages) = {}
              /\ ~heap.ok
              /\ heap.mem = m
           \/ /\ ~(m.free + Round(bytes) <= m.limit)
              /\ donor \in HeapDonors(m, pages)
              /\ heap.ok
              /\ heap.mem.descs = GrownList(m.descs, donor, pages, m.limit)
              /\ heap.mem.free + 2 * Round(DescBytes) <= heap.mem.limit + Round(bytes)
<1> DEFINE size == Round(bytes)
           grown == GrowHeap(m, pages)
           room == m.free + size <= m.limit
<1>1. size \in Nat /\ Round(DescBytes) \in Nat /\ m.free \in Nat /\ m.limit \in Nat
    BY RoundBounds, SizesAssumption DEF Memories
<1>2. heap = IF room
             THEN [ok |-> TRUE, block |-> m.free, mem |-> [m EXCEPT !.free = @ + size]]
             ELSE IF HeapDonors(m, pages) = {}
             THEN [ok |-> FALSE, block |-> 0, mem |-> m]
             ELSE IF grown.free + size < grown.limit
             THEN [ok |-> TRUE, block |-> grown.free,
                   mem |-> [grown EXCEPT !.free = @ + size]]
             ELSE [ok |-> FALSE, block |-> 0, mem |-> grown]
    BY DEF BlAllocateHeap
<1> HIDE DEF size
<1>3. CASE room
    <2>1. heap = [ok |-> TRUE, block |-> m.free, mem |-> [m EXCEPT !.free = @ + size]]
        BY <1>2, <1>3
    <2>2. heap.ok /\ heap.mem = [m EXCEPT !.free = @ + size]
        BY <2>1
    <2>3. heap.mem.descs = m.descs /\ heap.mem.limit = m.limit /\ heap.mem.free = m.free + size
        BY <1>1, <2>2, BumpProperties
    <2>4. QED
        BY <1>3, <2>2, <2>3 DEF size
<1>4. CASE ~room /\ HeapDonors(m, pages) = {}
    <2>1. heap = [ok |-> FALSE, block |-> 0, mem |-> m]
        BY <1>2, <1>4
    <2>2. QED
        BY <1>4, <2>1 DEF size
<1>5. CASE ~room /\ HeapDonors(m, pages) # {}
    <2>1. /\ donor \in HeapDonors(m, pages)
          /\ grown.descs = GrownList(m.descs, donor, pages, m.limit)
          /\ grown.free \in Nat /\ grown.limit \in Nat
          /\ grown.free + size < grown.limit
          /\ grown.free + 2 * Round(DescBytes) <= grown.limit
        BY <1>1, <1>5, GrowStep DEF size
    <2>2. grown \in Memories
        <3>1. pages \in Nat
            BY <1>1, NewHeapPagesBounds DEF size
        <3>2. QED
            BY <1>5, <3>1, GrowHeapType
    <2> HIDE DEF grown
    <2>3. heap = [ok |-> TRUE, block |-> grown.free,
                  mem |-> [grown EXCEPT !.free = @ + size]]
        BY <1>2, <1>5, <2>1, Zenon
    <2>4. heap.ok /\ heap.mem = [grown EXCEPT !.free = @ + size]
        BY <2>3
    <2>5. /\ heap.mem.descs = grown.descs /\ heap.mem.limit = grown.limit
          /\ heap.mem.free = grown.free + size
        BY <1>1, <2>2, <2>4, BumpProperties
    <2>6. heap.mem.free + 2 * Round(DescBytes) <= heap.mem.limit + size
        BY <1>1, <2>1, <2>5
    <2>7. QED
        BY <1>5, <2>1, <2>4, <2>5, <2>6, Zenon DEF size
<1>6. QED
    BY <1>3, <1>4, <1>5

\* A heap call, however the heap grows, leaves a good list good.
LEMMA HeapGood ==
    ASSUME NEW m \in Memories, GoodList(m.descs), NEW bytes \in Nat,
           NEW heap, heap = BlAllocateHeap(m, bytes)
    PROVE  /\ GoodList(heap.mem.descs)
           /\ ~heap.ok => /\ HeapDonors(m, NewHeapPages(Round(bytes))) = {}
                          /\ heap.mem = m
<1> DEFINE pages == NewHeapPages(Round(bytes))
           donor == First(HeapDonors(m, pages))
<1>1. RamList(m.descs)
    BY DEF GoodList
<1>2. pages \in Nat /\ m.limit \in Nat
    BY RoundBounds, NewHeapPagesBounds DEF Memories
<1> HIDE DEF pages
<1>3. \/ heap.ok /\ heap.mem.descs = m.descs
      \/ ~heap.ok /\ heap.mem = m /\ HeapDonors(m, pages) = {}
      \/ /\ heap.ok /\ donor \in HeapDonors(m, pages)
         /\ heap.mem.descs = GrownList(m.descs, donor, pages, m.limit)
    BY <1>1, HeapStep DEF pages, donor
<1> HIDE DEF donor
<1>4. CASE heap.ok /\ heap.mem.descs = m.descs
    BY <1>4
<1>5. CASE ~heap.ok /\ heap.mem = m /\ HeapDonors(m, pages) = {}
    BY <1>5 DEF pages
<1>6. CASE /\ heap.ok /\ donor \in HeapDonors(m, pages)
           /\ heap.mem.descs = GrownList(m.descs, donor, pages, m.limit)
    <2>1. donor \in DOMAIN m.descs /\ m.descs[donor].count >= pages
        BY <1>6 DEF HeapDonors
    <2>2. m.descs[donor].count \in Nat
        BY <1>1, <2>1, ListFields DEF RamList
    <2>3. pages <= m.descs[donor].count
        BY <1>2, <2>1, <2>2
    <2>4. QED
        BY <1>2, <1>6, <2>1, <2>3, GrownListGood
<1>7. QED
    BY <1>3, <1>4, <1>5, <1>6

-----------------------------------------------------------------------------
(* Splitting one descriptor in three.                                      *)

LEMMA ReorderList ==
    ASSUME NEW s, GoodList(s), NEW t \in Seq(Descriptors),
           NEW origin \in [DOMAIN t -> DOMAIN s],
           \A i \in DOMAIN t : t[i] = s[origin[i]],
           \A i, j \in DOMAIN t : i # j => origin[i] # origin[j]
    PROVE  GoodList(t)
<1>1. s \in Seq(Descriptors)
    BY DEF GoodList, RamList
<1>2. ASSUME NEW i \in DOMAIN t PROVE Inside(t[i], s[origin[i]])
    <2>1. s[origin[i]].base \in Nat /\ s[origin[i]].count \in Nat
        BY <1>1, ListFields
    <2>2. QED
        BY <2>1 DEF Inside
<1>3. QED
    BY <1>2, RefineList

LEMMA AppendExcept ==
    ASSUME NEW s \in Seq(Descriptors), NEW i \in 1 .. Len(s),
           NEW d \in Descriptors, NEW e \in Descriptors
    PROVE  [Append(s, e) EXCEPT ![i] = d] = Append([s EXCEPT ![i] = d], e)
<1> DEFINE a == Append(s, e)
           r == [s EXCEPT ![i] = d]
<1>1. /\ Len(s) \in Nat
      /\ a \in Seq(Descriptors) /\ Len(a) = Len(s) + 1
      /\ \A j \in 1 .. Len(s) : a[j] = s[j]
      /\ a[Len(s) + 1] = e
    BY AppendProperties, LenProperties
<1>2. /\ r \in Seq(Descriptors) /\ Len(r) = Len(s)
      /\ \A j \in 1 .. Len(s) : r[j] = IF j = i THEN d ELSE s[j]
    BY ExceptSeq
<1> HIDE DEF a, r
<1> DEFINE x == [a EXCEPT ![i] = d]
           y == Append(r, e)
<1>3. i \in 1 .. Len(a)
    BY <1>1
<1>4. /\ x \in Seq(Descriptors) /\ Len(x) = Len(a)
      /\ \A j \in 1 .. Len(a) : x[j] = IF j = i THEN d ELSE a[j]
    BY <1>1, <1>3, ExceptSeq
<1>5. /\ y \in Seq(Descriptors) /\ Len(y) = Len(r) + 1
      /\ \A j \in 1 .. Len(r) : y[j] = r[j]
      /\ y[Len(r) + 1] = e
    BY <1>2, AppendProperties
<1> HIDE DEF x, y
<1>6. ASSUME NEW j \in 1 .. Len(x) PROVE x[j] = y[j]
    BY <1>1, <1>2, <1>4, <1>5, SMTT(40)
<1>7. x = y
    BY <1>1, <1>2, <1>4, <1>5, <1>6, SeqEqual
<1>8. QED
    BY <1>7 DEF x, y, a, r

LEMMA SplitList ==
    ASSUME NEW u, GoodList(u), NEW i \in DOMAIN u,
           NEW head \in Descriptors, NEW e \in Descriptors, NEW tail \in Descriptors,
           head.base = u[i].base,
           e.base = head.base + head.count,
           tail.base = e.base + e.count,
           tail.base + tail.count = u[i].base + u[i].count
    PROVE  GoodList(Append(Append([u EXCEPT ![i] = head], tail), e))
<1> DEFINE kept == [head EXCEPT !.count = head.count + e.count]
           r == [u EXCEPT ![i] = kept]
           w == Append(r, tail)
<1>1. /\ u \in Seq(Descriptors) /\ i \in 1 .. Len(u) /\ Len(u) \in Nat
      /\ u[i].base \in Nat /\ u[i].count \in Nat
      /\ u[i].base + u[i].count <= RamTop
    BY ListFields DEF GoodList, RamList, InRam
<1>2. /\ head.base \in Nat /\ head.count \in Nat /\ e.base \in Nat /\ e.count \in Nat
      /\ tail.base \in Nat /\ tail.count \in Nat
    BY ULongsAreNaturals DEF Descriptors
<1>3. head.count + e.count \in 0 .. RamTop
    <2>1. RamTop \in Nat
        BY SizesAssumption
    <2>2. tail.base = head.base + head.count + e.count
        BY <1>2
    <2>3. tail.base <= RamTop
        BY <1>1, <1>2, <2>1
    <2>4. QED
        BY <1>2, <2>1, <2>2, <2>3
<1>4. head.count + e.count \in ULongs
    BY <1>3, RamIsULong
<1>5. kept \in Descriptors /\ kept.base = head.base /\ kept.count = head.count + e.count
    BY <1>4 DEF Descriptors
<1> HIDE DEF kept
<1>6. Inside(kept, u[i]) /\ Inside(tail, u[i]) /\ Apart(kept, tail)
    BY <1>1, <1>2, <1>5, SMTT(40) DEF Inside, Apart
<1>7. GoodList(w)
    BY <1>5, <1>6, CarveList
<1>8. /\ r \in Seq(Descriptors) /\ Len(r) = Len(u) /\ r[i] = kept
    BY <1>1, <1>5, ExceptSeq
<1>9. [r EXCEPT ![i] = head] = [u EXCEPT ![i] = head]
    BY <1>1
<1> HIDE DEF r
<1>10. w \in Seq(Descriptors) /\ Len(w) = Len(u) + 1 /\ w[i] = kept
    BY <1>1, <1>8, AppendProperties
<1>11. [w EXCEPT ![i] = head] = Append([u EXCEPT ![i] = head], tail)
    <2>1. i \in 1 .. Len(r)
        BY <1>1, <1>8
    <2>2. [Append(r, tail) EXCEPT ![i] = head] = Append([r EXCEPT ![i] = head], tail)
        BY <1>8, <2>1, AppendExcept
    <2>3. QED
        BY <1>9, <2>2 DEF w
<1> HIDE DEF w
<1>12. i \in DOMAIN w
    BY <1>1, <1>10, LenProperties
<1>13. Inside(head, w[i]) /\ Inside(e, w[i]) /\ Apart(head, e)
    BY <1>1, <1>2, <1>5, <1>10, SMTT(40) DEF Inside, Apart
<1>14. GoodList(Append([w EXCEPT ![i] = head], e))
    BY <1>7, <1>12, <1>13, CarveList
<1>15. QED
    BY <1>11, <1>14

\* `longer' is u with e inserted after its first n elements.
InsertedAfter(longer, u, n, e) ==
    /\ longer \in Seq(Descriptors) /\ Len(longer) = Len(u) + 1
    /\ \A j \in 1 .. n : longer[j] = u[j]
    /\ longer[n + 1] = e
    /\ \A j \in (n + 2) .. (Len(u) + 1) : longer[j] = u[j - 1]

\* The list when the middle of descriptor i was inserted before a heap that
\* may have been taken in between.
LEMMA InsertSplit ==
    ASSUME NEW u, GoodList(u), NEW i \in DOMAIN u, NEW n \in 1 .. Len(u), i <= n,
           NEW head \in Descriptors, NEW e \in Descriptors, NEW tail \in Descriptors,
           head.base = u[i].base,
           e.base = head.base + head.count,
           tail.base = e.base + e.count,
           tail.base + tail.count = u[i].base + u[i].count,
           NEW longer, InsertedAfter(longer, u, n, e)
    PROVE  LET final == [Append(longer, tail) EXCEPT ![i] = head]
           IN  /\ GoodList(final)
               /\ n + 1 \in DOMAIN final /\ final[n + 1] = e
<1> DEFINE L == Len(u)
           N == L + 2
           r == [u EXCEPT ![i] = head]
           w == Append(r, tail)
           v == Append(w, e)
           f == Append(longer, tail)
           final == [f EXCEPT ![i] = head]
           origin == [j \in 1 .. N |->
                        IF j = n + 1 THEN N ELSE IF j > n + 1 THEN j - 1 ELSE j]
<1>1. u \in Seq(Descriptors) /\ i \in 1 .. L /\ L \in Nat /\ n \in 1 .. L
    BY ListFields DEF GoodList, RamList
<1>2. GoodList(v)
    BY SplitList
<1>3. /\ r \in Seq(Descriptors) /\ Len(r) = L
      /\ \A j \in 1 .. L : r[j] = IF j = i THEN head ELSE u[j]
    BY <1>1, ExceptSeq
<1>5. /\ longer \in Seq(Descriptors) /\ Len(longer) = L + 1
      /\ \A j \in 1 .. n : longer[j] = u[j]
      /\ longer[n + 1] = e
      /\ \A j \in (n + 2) .. (L + 1) : longer[j] = u[j - 1]
    BY DEF InsertedAfter
<1> HIDE DEF r, L
<1>4. /\ v \in Seq(Descriptors) /\ Len(v) = N
      /\ \A j \in 1 .. L : v[j] = r[j]
      /\ v[L + 1] = tail /\ v[N] = e
    <2>1. /\ w \in Seq(Descriptors) /\ Len(w) = Len(r) + 1
          /\ \A j \in 1 .. Len(r) : w[j] = r[j]
          /\ w[Len(r) + 1] = tail
        BY <1>3, AppendProperties
    <2> HIDE DEF w
    <2>2. /\ v \in Seq(Descriptors) /\ Len(v) = Len(w) + 1
          /\ \A j \in 1 .. Len(w) : v[j] = w[j]
          /\ v[Len(w) + 1] = e
        BY <2>1, AppendProperties
    <2> HIDE DEF v
    <2>3. Len(r) = L /\ Len(w) = L + 1 /\ Len(w) + 1 = N
        BY <1>1, <1>3, <2>1
    <2>4. QED
        BY <1>1, <2>1, <2>2, <2>3
<1>6. /\ f \in Seq(Descriptors) /\ Len(f) = N
      /\ \A j \in 1 .. (L + 1) : f[j] = longer[j]
      /\ f[N] = tail
    <2>1. /\ f \in Seq(Descriptors) /\ Len(f) = Len(longer) + 1
          /\ \A j \in 1 .. Len(longer) : f[j] = longer[j]
          /\ f[Len(longer) + 1] = tail
        BY <1>5, AppendProperties
    <2> HIDE DEF f
    <2>2. Len(longer) = L + 1 /\ Len(longer) + 1 = N
        BY <1>1, <1>5
    <2>3. QED
        BY <2>1, <2>2
<1> HIDE DEF v, f, w
<1>7. N \in Nat /\ N = L + 2
    BY <1>1
<1>8. /\ final \in Seq(Descriptors) /\ Len(final) = N /\ DOMAIN final = 1 .. N
      /\ \A j \in 1 .. N : final[j] = IF j = i THEN head ELSE f[j]
    <2>1. i \in 1 .. Len(f)
        BY <1>1, <1>6
    <2>3. /\ final \in Seq(Descriptors) /\ Len(final) = Len(f)
          /\ \A j \in 1 .. Len(f) : final[j] = IF j = i THEN head ELSE f[j]
        BY <1>6, <2>1, ExceptSeq
    <2> HIDE DEF final
    <2>4. DOMAIN final = 1 .. Len(final)
        BY <2>3, LenProperties
    <2>5. QED
        BY <1>6, <2>3, <2>4
<1> HIDE DEF final
<1>9. DOMAIN v = 1 .. N
    BY <1>4, LenProperties
<1> HIDE DEF N
<1>10. ASSUME NEW j \in 1 .. N
       PROVE  origin[j] \in 1 .. N /\ final[j] = v[origin[j]]
    <2>1. CASE j <= n
        <3>1. origin[j] = j /\ j \in 1 .. L /\ j \in 1 .. (L + 1)
            BY <1>1, <1>7, <2>1
        <3>2. final[j] = (IF j = i THEN head ELSE u[j]) /\ v[j] = r[j]
            BY <1>4, <1>5, <1>6, <1>8, <2>1, <3>1, SMTT(40)
        <3>3. QED
            BY <1>3, <3>1, <3>2
    <2>2. CASE j = n + 1
        <3>1. origin[j] = N /\ j # i /\ j \in 1 .. (L + 1) /\ N \in 1 .. N
            BY <1>1, <1>7, <2>2
        <3>2. final[j] = e
            BY <1>5, <1>6, <1>8, <2>2, <3>1
        <3>3. QED
            BY <1>4, <3>1, <3>2
    <2>3. CASE j > n + 1 /\ j <= L + 1
        <3>1. /\ origin[j] = j - 1 /\ j # i /\ j - 1 # i /\ j - 1 \in 1 .. L
              /\ j \in 1 .. (L + 1) /\ j \in (n + 2) .. (L + 1) /\ j - 1 \in 1 .. N
            BY <1>1, <1>7, <2>3
        <3>2. final[j] = u[j - 1]
            BY <1>5, <1>6, <1>8, <3>1
        <3>3. v[j - 1] = u[j - 1]
            BY <1>3, <1>4, <3>1
        <3>4. QED
            BY <3>1, <3>2, <3>3
    <2>4. CASE j = N
        <3>1. origin[j] = L + 1 /\ j # i /\ L + 1 \in 1 .. N
            BY <1>1, <1>7, <2>4
        <3>2. QED
            BY <1>4, <1>6, <1>8, <2>4, <3>1
    <2>5. QED
        BY <1>1, <1>7, <2>1, <2>2, <2>3, <2>4
<1>11. ASSUME NEW j \in 1 .. N, NEW k \in 1 .. N, j # k
       PROVE  origin[j] # origin[k]
    BY <1>1, <1>7, <1>11
<1>12. origin \in [DOMAIN final -> DOMAIN v]
    BY <1>8, <1>9, <1>10
<1> HIDE DEF origin
<1>13. GoodList(final)
    <2>1. \A j \in DOMAIN final : final[j] = v[origin[j]]
        BY <1>8, <1>10
    <2>2. \A j, k \in DOMAIN final : j # k => origin[j] # origin[k]
        BY <1>8, <1>11
    <2>3. final \in Seq(Descriptors)
        BY <1>8
    <2>4. QED
        BY <1>2, <1>12, <2>1, <2>2, <2>3, ReorderList
<1>14. n + 1 \in 1 .. N /\ n + 1 # i /\ n + 1 \in 1 .. (L + 1)
    BY <1>1, <1>7
<1>15. f[n + 1] = e
    BY <1>5, <1>6, <1>14
<1>16. QED
    BY <1>8, <1>13, <1>14, <1>15 DEF final, f

LEMMA InsertPlain ==
    ASSUME NEW s \in Seq(Descriptors), NEW e \in Descriptors
    PROVE  InsertedAfter(Append(s, e), s, Len(s), e)
<1>1. Len(s) \in Nat
    BY LenProperties
<1>2. (Len(s) + 2) .. (Len(s) + 1) = {}
    BY <1>1
<1>3. QED
    BY <1>2, AppendProperties DEF InsertedAfter

\* A heap taken from an old descriptor comes after the one just inserted.
LEMMA InsertGrown ==
    ASSUME NEW s, RamList(s), NEW e \in Descriptors, NEW k \in DOMAIN s,
           NEW pages \in Nat, pages <= s[k].count, NEW at \in Nat
    PROVE  InsertedAfter(GrownList(Append(s, e), k, pages, at),
                         GrownList(s, k, pages, at), Len(s), e)
<1> DEFINE L == Len(s)
           a == Append(s, e)
           left == s[k].count - pages
           d == [s[k] EXCEPT !.count = left]
           heap == [type |-> "OsloaderHeap", base |-> s[k].base + left,
                    count |-> pages, at |-> at]
           r == [s EXCEPT ![k] = d]
           ra == [a EXCEPT ![k] = d]
           u == Append(r, heap)
           ua == Append(ra, heap)
<1>1. /\ s \in Seq(Descriptors) /\ k \in 1 .. L /\ L \in Nat
      /\ s[k] \in Descriptors /\ s[k].base \in Nat /\ s[k].count \in Nat
      /\ s[k].base + s[k].count <= RamTop
    BY ListFields DEF RamList, InRam
<1>2. left \in 0 .. RamTop /\ pages \in 0 .. RamTop /\ s[k].base + left \in 0 .. RamTop
    <2>1. RamTop \in Nat
        BY SizesAssumption
    <2>2. QED
        BY <1>1, <2>1, SMTT(40)
<1>3. left \in ULongs /\ pages \in ULongs /\ s[k].base + left \in ULongs
    BY <1>2, RamIsULong
<1> HIDE DEF left
<1>4. d \in Descriptors /\ heap \in Descriptors
    BY <1>1, <1>3 DEF Descriptors, PageTypes
<1>5. /\ a \in Seq(Descriptors) /\ Len(a) = L + 1
      /\ \A j \in 1 .. L : a[j] = s[j]
      /\ a[L + 1] = e
    BY <1>1, AppendProperties
<1>6. /\ GrownList(s, k, pages, at) = u
      /\ GrownList(a, k, pages, at) = ua
    <2>1. a[k] = s[k]
        BY <1>1, <1>5
    <2>2. /\ [s EXCEPT ![k] = [@ EXCEPT !.count = s[k].count - pages]] = r
          /\ [a EXCEPT ![k] = [@ EXCEPT !.count = a[k].count - pages]] = ra
        BY <2>1 DEF left
    <2> HIDE DEF a, r, ra
    <2>3. GrownList(a, k, pages, at)
            = Append(ra, [type |-> "OsloaderHeap", base |-> a[k].base + (a[k].count - pages),
                          count |-> pages, at |-> at])
        BY <2>2 DEF GrownList
    <2>4. QED
        BY <2>1, <2>2, <2>3 DEF GrownList, left
<1> HIDE DEF d, heap, a
<1>7. /\ r \in Seq(Descriptors) /\ Len(r) = L
      /\ \A j \in 1 .. L : r[j] = IF j = k THEN d ELSE s[j]
    BY <1>1, <1>4, ExceptSeq
<1>8. /\ ra \in Seq(Descriptors) /\ Len(ra) = Len(a)
      /\ \A j \in 1 .. Len(a) : ra[j] = IF j = k THEN d ELSE a[j]
    <2>1. k \in 1 .. Len(a)
        BY <1>1, <1>5
    <2>2. QED
        BY <1>4, <1>5, <2>1, ExceptSeq
<1> HIDE DEF r, ra
<1>9. /\ u \in Seq(Descriptors) /\ Len(u) = Len(r) + 1
      /\ \A j \in 1 .. Len(r) : u[j] = r[j]
      /\ u[Len(r) + 1] = heap
    BY <1>4, <1>7, AppendProperties
<1>10. /\ ua \in Seq(Descriptors) /\ Len(ua) = Len(ra) + 1
       /\ \A j \in 1 .. Len(ra) : ua[j] = ra[j]
       /\ ua[Len(ra) + 1] = heap
    BY <1>4, <1>8, AppendProperties
<1> HIDE DEF u, ua
<1>11. Len(u) = L + 1 /\ Len(ua) = L + 2 /\ Len(ra) = L + 1 /\ Len(u) \in Nat
    BY <1>1, <1>5, <1>7, <1>8, <1>9, <1>10
<1> HIDE DEF L
<1>12. ASSUME NEW j \in 1 .. L PROVE ua[j] = u[j]
    <2>1. j \in 1 .. (L + 1)
        BY <1>1
    <2>2. QED
        BY <1>5, <1>7, <1>8, <1>9, <1>10, <1>11, <2>1
<1>13. ua[L + 1] = e
    <2>1. L + 1 \in 1 .. (L + 1) /\ L + 1 # k
        BY <1>1
    <2>2. QED
        BY <1>5, <1>8, <1>10, <1>11, <2>1
<1>14. ASSUME NEW j \in (L + 2) .. (Len(u) + 1) PROVE ua[j] = u[j - 1]
    <2>1. j = L + 2 /\ j - 1 = L + 1 /\ j = Len(ra) + 1
        BY <1>1, <1>11
    <2>2. QED
        BY <1>7, <1>9, <1>10, <1>11, <2>1
<1>15. InsertedAfter(ua, u, L, e)
    BY <1>1, <1>10, <1>11, <1>12, <1>13, <1>14 DEF InsertedAfter
<1>16. QED
    BY <1>6, <1>15 DEF L, a

Granted(s, type, base, count) ==
    \E k \in DOMAIN s : s[k].type = type /\ s[k].base = base /\ s[k].count = count

\* The list SplitMiddle leaves when it gets memory for the tail.
TailOf(s, block, i, base, count, offset) ==
    [type |-> "Free", base |-> Wrap(base + count),
     count |-> Wrap(s[i].count - (count + offset)), at |-> block]

SplitDescs(s, block, i, base, count, offset) ==
    LET list == Append(s, TailOf(s, block, i, base, count, offset))
    IN  [list EXCEPT ![i] = [list[i] EXCEPT !.base = list[i].base, !.count = offset]]

LEMMA SplitMiddleShape ==
    ASSUME NEW m \in Memories, NEW i \in DOMAIN m.descs, NEW base \in ULongs,
           NEW count \in ULongs, NEW offset \in ULongs,
           BlAllocateHeap(m, DescBytes).ok
    PROVE  LET heap == BlAllocateHeap(m, DescBytes)
           IN  SplitMiddle(m, i, base, count, offset).mem.descs
                   = SplitDescs(heap.mem.descs, heap.block, i, base, count, offset)
<1> DEFINE heap == BlAllocateHeap(m, DescBytes)
           grown == heap.mem
           block == heap.block
           from == Wrap(base + count)
           rest == Wrap(grown.descs[i].count - (count + offset))
           split == AddDescriptor(grown, "Free", from, rest, block)
           tail == [type |-> "Free", base |-> from, count |-> rest, at |-> block]
           list == Append(grown.descs, tail)
           head == [list[i] EXCEPT !.base = list[i].base, !.count = offset]
<1>1. grown \in Memories /\ heap.ok /\ block \in Nat
    BY AllocateHeapType, SizesAssumption
<1>2. i \in DOMAIN grown.descs
    BY IndexAfterHeap
<1> HIDE DEF heap, grown, block
<1>3. from \in ULongs /\ rest \in ULongs
    BY <1>1, <1>2, DescriptorFields, WrapOfSums
<1> HIDE DEF from, rest
<1>4. split = [descs |-> list, free |-> grown.free, limit |-> grown.limit]
    BY <1>1, AddDescriptorShape
<1>5. split \in Memories
    BY <1>1, <1>3, AddDescriptorType DEF PageTypes, FirmwareTypes
<1>6. SplitMiddle(m, i, base, count, offset)
        = [status |-> "ESUCCESS", mem |-> Resize(split, i, split.descs[i].base, offset)]
    BY <1>1, Zenon DEF SplitMiddle, heap, grown, block, from, rest
<1> HIDE DEF list, split
<1>7. Resize(split, i, split.descs[i].base, offset) = [split EXCEPT !.descs[i] = head]
    BY <1>4 DEF Resize
<1> HIDE DEF head
<1>8. [split EXCEPT !.descs[i] = head]
        = [descs |-> [split.descs EXCEPT ![i] = head],
           free |-> split.free, limit |-> split.limit]
    BY <1>5, ReplaceShape
<1>9. SplitMiddle(m, i, base, count, offset).mem.descs = [list EXCEPT ![i] = head]
    <2>1. SplitMiddle(m, i, base, count, offset).mem = [split EXCEPT !.descs[i] = head]
        BY <1>6, <1>7
    <2>2. split.descs = list
        BY <1>4
    <2>3. QED
        BY <1>8, <2>1, <2>2
<1>10. QED
    BY <1>9 DEF SplitDescs, TailOf, head, list, tail, from, rest, grown, block, heap

\* The tail goes in, and descriptor i keeps its head.
LEMMA SplitMiddleEnd ==
    ASSUME NEW i, NEW type, NEW base \in ULongs, NEW count \in ULongs,
           NEW offset \in ULongs, NEW n \in Nat, i \in 1 .. n,
           NEW u, GoodList(u), i \in DOMAIN u, n <= Len(u),
           base = u[i].base + offset,
           base + count <= u[i].base + u[i].count,
           NEW e \in Descriptors, e.type = type, e.base = base, e.count = count,
           NEW added \in Memories, i \in DOMAIN added.descs,
           BlAllocateHeap(added, DescBytes).ok,
           InsertedAfter(BlAllocateHeap(added, DescBytes).mem.descs, u, n, e)
    PROVE  LET list == SplitMiddle(added, i, base, count, offset).mem.descs
           IN  GoodList(list) /\ Granted(list, type, base, count)
<1> DEFINE heap == BlAllocateHeap(added, DescBytes)
           ua == heap.mem.descs
           whole == ua[i].count
           tail == TailOf(ua, heap.block, i, base, count, offset)
           list == Append(ua, tail)
           head == [list[i] EXCEPT !.base = list[i].base, !.count = offset]
           final == [list EXCEPT ![i] = head]
<1>1. heap.block \in Nat
    BY AllocateHeapType, SizesAssumption
<1>2. SplitMiddle(added, i, base, count, offset).mem.descs = final
    <2>1. SplitMiddle(added, i, base, count, offset).mem.descs
            = SplitDescs(heap.mem.descs, heap.block, i, base, count, offset)
        BY SplitMiddleShape
    <2>2. SplitDescs(heap.mem.descs, heap.block, i, base, count, offset) = final
        BY Zenon DEF SplitDescs
    <2>3. QED
        BY <2>1, <2>2
<1>3. u \in Seq(Descriptors) /\ i \in 1 .. Len(u) /\ Len(u) \in Nat
      /\ u[i] \in Descriptors /\ u[i].base \in Nat /\ u[i].count \in Nat
      /\ u[i].base + u[i].count <= RamTop
    BY ListFields DEF GoodList, RamList, InRam
<1>4. ua \in Seq(Descriptors) /\ Len(ua) = Len(u) + 1 /\ ua[i] = u[i]
    BY DEF InsertedAfter
<1>5. InsertedAfter(ua, u, n, e) /\ n \in 1 .. Len(u) /\ i <= n
    BY <1>3
<1> HIDE DEF heap, ua
<1>6. base \in Nat /\ count \in Nat /\ offset \in Nat /\ RamTop \in Nat
    BY ULongsAreNaturals, SizesAssumption
<1>7. base + count \in 0 .. RamTop
    <2>1. base + count \in Nat
        BY <1>6
    <2>2. base + count <= u[i].base + u[i].count
        OBVIOUS
    <2>3. u[i].base + u[i].count \in Nat /\ u[i].base + u[i].count <= RamTop
        BY <1>3
    <2>4. QED
        BY <1>6, <2>1, <2>2, <2>3
<1>8. whole - (count + offset) \in 0 .. RamTop
    <2>1. whole = u[i].count
        BY <1>4
    <2> HIDE DEF whole
    <2>2. count + offset <= u[i].count /\ count + offset \in Nat
        BY <1>3, <1>6, SMTT(40)
    <2>3. u[i].count \in Nat /\ u[i].count <= RamTop
        BY <1>3, <1>6, SMTT(40)
    <2>4. QED
        BY <1>6, <2>1, <2>2, <2>3
<1>9. /\ Wrap(base + count) = base + count /\ base + count \in ULongs
      /\ Wrap(whole - (count + offset)) = whole - (count + offset)
      /\ whole - (count + offset) \in ULongs
    BY <1>7, <1>8, RamIsULong, WrapOfULong
<1>10. tail \in Descriptors /\ tail.base = base + count
       /\ tail.count = whole - (count + offset)
    BY <1>1, <1>9 DEF TailOf, Descriptors, PageTypes, FirmwareTypes
<1> HIDE DEF tail
<1>11. list[i] = u[i]
    <2>1. \A j \in 1 .. Len(ua) : list[j] = ua[j]
        BY <1>4, <1>10, AppendProperties
    <2>2. i \in 1 .. Len(ua)
        BY <1>3, <1>4
    <2>3. QED
        BY <1>4, <2>1, <2>2
<1> HIDE DEF list
<1>12. head \in Descriptors /\ head.base = u[i].base /\ head.count = offset
    BY <1>3, <1>11 DEF Descriptors
<1> HIDE DEF head
<1>13. /\ e.base = head.base + head.count
       /\ tail.base = e.base + e.count
    BY <1>10, <1>12
<1>14. tail.base + tail.count = u[i].base + u[i].count
    <2>1. tail.base + tail.count = (base + count) + (u[i].count - (count + offset))
        BY <1>4, <1>10
    <2>2. (base + count) + (u[i].count - (count + offset)) = base - offset + u[i].count
        BY <1>3, <1>6, SMTT(40)
    <2>3. base - offset = u[i].base
        BY <1>3, <1>6
    <2>4. QED
        BY <1>3, <1>6, <2>1, <2>2, <2>3
<1>15. GoodList(final) /\ n + 1 \in DOMAIN final /\ final[n + 1] = e
    BY <1>5, <1>10, <1>12, <1>13, <1>14, InsertSplit DEF list
<1>16. Granted(final, type, base, count)
    BY <1>15 DEF Granted
<1>17. QED
    BY <1>2, <1>15, <1>16 DEF list, head, tail, ua, heap

\* Growth shrinks the donor and leaves the other descriptors alone.
LEMMA GrownFields ==
    ASSUME NEW s, RamList(s), NEW donor \in DOMAIN s, NEW pages \in Nat,
           pages <= s[donor].count, NEW at \in Nat, NEW j \in DOMAIN s
    PROVE  LET u == GrownList(s, donor, pages, at)
           IN  /\ Len(u) = Len(s) + 1 /\ j \in DOMAIN u
               /\ u[j].type = s[j].type /\ u[j].base = s[j].base
               /\ u[j].count = IF j = donor THEN s[j].count - pages ELSE s[j].count
<1> DEFINE left == s[donor].count - pages
           d == [s[donor] EXCEPT !.count = left]
           heap == [type |-> "OsloaderHeap", base |-> s[donor].base + left,
                    count |-> pages, at |-> at]
           r == [s EXCEPT ![donor] = d]
           u == Append(r, heap)
<1>1. /\ s \in Seq(Descriptors) /\ donor \in 1 .. Len(s) /\ Len(s) \in Nat
      /\ j \in 1 .. Len(s)
      /\ s[donor] \in Descriptors /\ s[donor].base \in Nat /\ s[donor].count \in Nat
      /\ s[donor].base + s[donor].count <= RamTop
    BY ListFields DEF RamList, InRam
<1>2. left \in 0 .. RamTop /\ pages \in 0 .. RamTop /\ s[donor].base + left \in 0 .. RamTop
    <2>1. RamTop \in Nat
        BY SizesAssumption
    <2> HIDE DEF d, heap, r, u
    <2>2. left \in Nat /\ left <= s[donor].count /\ pages <= s[donor].count
        BY <1>1
    <2>3. s[donor].base + left \in Nat /\ s[donor].base + left <= s[donor].base + s[donor].count
        BY <1>1, <2>2
    <2>4. s[donor].count <= RamTop
        BY <1>1, <2>1
    <2>5. QED
        BY <1>1, <2>1, <2>2, <2>3, <2>4
<1>3. left \in ULongs /\ pages \in ULongs /\ s[donor].base + left \in ULongs
    BY <1>2, RamIsULong
<1> HIDE DEF left
<1>4. d \in Descriptors /\ heap \in Descriptors
    BY <1>1, <1>3 DEF Descriptors, PageTypes
<1>5. d.type = s[donor].type /\ d.base = s[donor].base /\ d.count = left
    BY <1>1 DEF Descriptors
<1>6. GrownList(s, donor, pages, at) = u
    BY DEF GrownList, left
<1> HIDE DEF d, heap
<1>7. /\ r \in Seq(Descriptors) /\ Len(r) = Len(s)
      /\ r[j] = IF j = donor THEN d ELSE s[j]
    BY <1>1, <1>4, ExceptSeq
<1> HIDE DEF r
<1>8. /\ u \in Seq(Descriptors) /\ Len(u) = Len(r) + 1
      /\ \A k \in 1 .. Len(r) : u[k] = r[k]
    BY <1>4, <1>7, AppendProperties
<1> HIDE DEF u
<1>9. u[j] = (IF j = donor THEN d ELSE s[j]) /\ Len(u) = Len(s) + 1
    BY <1>1, <1>7, <1>8
<1>10. j \in DOMAIN u
    BY <1>1, <1>8, <1>9, LenProperties
<1>11. /\ u[j].type = s[j].type /\ u[j].base = s[j].base
       /\ u[j].count = IF j = donor THEN s[j].count - pages ELSE s[j].count
    BY <1>5, <1>9 DEF left
<1>12. QED
    BY <1>6, <1>9, <1>10, <1>11

\* The tail's descriptor fits in the heap, or the descriptor being split is
\* free and keeps enough pages behind the ones asked for.
TailRoom(m, i, type, offset, count) ==
    \/ m.free + Round(DescBytes) <= m.limit
    \/ /\ type # "Free" /\ m.descs[i].type = "Free"
       /\ offset + count + NewHeapPages(Round(DescBytes)) <= m.descs[i].count

LEMMA HeapOutcome ==
    ASSUME NEW m \in Memories, RamList(m.descs), NEW bytes \in Nat
    PROVE  LET heap  == BlAllocateHeap(m, bytes)
               pages == NewHeapPages(Round(bytes))
               donor == First(HeapDonors(m, pages))
               full  == ~(m.free + Round(bytes) <= m.limit)
           IN  \/ ~full /\ heap.ok /\ heap.mem.descs = m.descs
               \/ full /\ HeapDonors(m, pages) = {}
               \/ /\ full /\ donor \in HeapDonors(m, pages) /\ heap.ok
                  /\ heap.mem.descs = GrownList(m.descs, donor, pages, m.limit)
BY HeapStep

LEMMA SplitMiddleGood ==
    ASSUME NEW m \in Memories, GoodList(m.descs), NEW i \in DOMAIN m.descs,
           NEW type \in PageTypes, NEW base \in ULongs, NEW count \in ULongs,
           NEW offset \in ULongs,
           base = m.descs[i].base + offset,
           base + count <= m.descs[i].base + m.descs[i].count,
           NEW e \in Descriptors, e.type = type, e.base = base, e.count = count,
           NEW added \in Memories, added.descs = Append(m.descs, e),
           added.free = m.free, added.limit = m.limit,
           TailRoom(m, i, type, offset, count)
    PROVE  LET list == SplitMiddle(added, i, base, count, offset).mem.descs
           IN  GoodList(list) /\ Granted(list, type, base, count)
<1> DEFINE s == m.descs
           a == added.descs
           n == Len(s)
           heap == BlAllocateHeap(added, DescBytes)
           list == SplitMiddle(added, i, base, count, offset).mem.descs
           pages == NewHeapPages(Round(DescBytes))
           donor == First(HeapDonors(added, pages))
<1>1. /\ s \in Seq(Descriptors) /\ n \in Nat /\ i \in 1 .. n /\ DOMAIN s = 1 .. n
      /\ s[i].base \in Nat /\ s[i].count \in Nat /\ InRam(s[i]) /\ RamList(s)
    BY ListFields, LenProperties DEF GoodList, RamList
<1>2. /\ a \in Seq(Descriptors) /\ Len(a) = n + 1 /\ a[n + 1] = e
      /\ \A j \in 1 .. n : a[j] = s[j]
    BY <1>1, AppendProperties
<1>3. DOMAIN a = 1 .. (n + 1)
    BY <1>2, LenProperties
<1>4. pages \in Nat /\ Round(DescBytes) \in Nat /\ m.limit \in Nat /\ DescBytes \in Nat
    BY RoundBounds, NewHeapPagesBounds, SizesAssumption DEF Memories
<1>5. base \in Nat /\ count \in Nat /\ offset \in Nat /\ RamTop \in Nat
    BY ULongsAreNaturals, SizesAssumption
<1>6. base + count <= RamTop
    <2>1. base + count <= s[i].base + s[i].count
        OBVIOUS
    <2>2. QED
        BY <1>1, <1>5, <2>1, SMTT(40) DEF InRam
<1> HIDE DEF pages, a
<1>7. RamList(a)
    <2>1. InRam(e)
        BY <1>6 DEF InRam
    <2>2. ASSUME NEW j \in DOMAIN a PROVE InRam(a[j])
        <3>1. CASE j = n + 1
            BY <1>2, <2>1, <3>1
        <3>2. CASE j \in 1 .. n
            BY <1>1, <1>2, <3>2 DEF RamList
        <3>3. QED
            BY <1>1, <1>3, <3>1, <3>2
    <2>3. QED
        BY <1>2, <2>2 DEF RamList
<1>8. i \in DOMAIN a /\ i \in DOMAIN added.descs
    BY <1>1, <1>3 DEF a
<1>9. \/ /\ m.free + Round(DescBytes) <= m.limit
         /\ heap.ok /\ heap.mem.descs = a
      \/ /\ ~(m.free + Round(DescBytes) <= m.limit)
         /\ HeapDonors(added, pages) = {}
      \/ /\ ~(m.free + Round(DescBytes) <= m.limit)
         /\ donor \in HeapDonors(added, pages)
         /\ heap.ok /\ heap.mem.descs = GrownList(a, donor, pages, m.limit)
    <2> DEFINE full == ~(added.free + Round(DescBytes) <= added.limit)
    <2>1. RamList(added.descs)
        BY <1>7 DEF a
    <2>2. \/ ~full /\ heap.ok /\ heap.mem.descs = added.descs
          \/ full /\ HeapDonors(added, pages) = {}
          \/ /\ full /\ donor \in HeapDonors(added, pages) /\ heap.ok
             /\ heap.mem.descs = GrownList(added.descs, donor, pages, added.limit)
        <3>1. DescBytes \in Nat
            BY <1>4
        <3>2. QED
            BY <2>1, <3>1, HeapOutcome, Zenon DEF pages
    <2> HIDE DEF heap, donor
    <2>3. QED
        BY <2>2 DEF a
<1> HIDE DEF donor, n, s, list
<1>10. CASE heap.ok /\ heap.mem.descs = a
    <2>1. InsertedAfter(heap.mem.descs, s, n, e)
        BY <1>1, <1>10, InsertPlain DEF a, s, n
    <2>2. GoodList(s) /\ n <= Len(s) /\ i \in DOMAIN s
        BY <1>1 DEF s, n
    <2>3. base = s[i].base + offset /\ base + count <= s[i].base + s[i].count
        BY DEF s
    <2>4. QED
        BY <1>1, <1>8, <1>10, <2>1, <2>2, <2>3, SplitMiddleEnd DEF list
<1>11. CASE /\ ~(m.free + Round(DescBytes) <= m.limit)
            /\ HeapDonors(added, pages) = {}
    <2>1. a[i].type = "Free" /\ a[i].count >= pages
        <3>1. a[i] = s[i]
            BY <1>1, <1>2
        <3>2. s[i].type = "Free" /\ offset + count + pages <= s[i].count
            BY <1>11 DEF TailRoom, s, pages
        <3>3. QED
            BY <1>1, <1>4, <1>5, <3>1, <3>2
    <2>2. i \in HeapDonors(added, pages)
        BY <1>8, <2>1 DEF HeapDonors, a
    <2>3. QED
        BY <1>11, <2>2
<1>12. CASE /\ ~(m.free + Round(DescBytes) <= m.limit)
            /\ donor \in HeapDonors(added, pages)
            /\ heap.ok /\ heap.mem.descs = GrownList(a, donor, pages, m.limit)
    <2> DEFINE u == GrownList(s, donor, pages, m.limit)
    <2>1. donor \in DOMAIN a /\ a[donor].type = "Free" /\ a[donor].count >= pages
        BY <1>12 DEF HeapDonors, a
    <2>2. type # "Free" /\ offset + count + pages <= s[i].count
        BY <1>12 DEF TailRoom, s, pages
    <2>3. donor # n + 1
        BY <1>2, <2>1, <2>2
    <2>4. donor \in DOMAIN s /\ a[donor] = s[donor]
        BY <1>1, <1>2, <1>3, <2>1, <2>3
    <2>5. s[donor].count \in Nat
        BY <1>1, <2>4, ListFields
    <2>6. pages <= s[donor].count
        BY <1>4, <2>1, <2>4, <2>5
    <2>7. GoodList(u)
        BY <1>4, <2>4, <2>6, GrownListGood DEF s
    <2>8. i \in DOMAIN s
        BY <1>1
    <2>9. /\ Len(u) = n + 1 /\ i \in DOMAIN u /\ u[i].base = s[i].base
          /\ u[i].count = IF i = donor THEN s[i].count - pages ELSE s[i].count
        <3>1. RamList(s) /\ m.limit \in Nat /\ pages \in Nat
            BY <1>1, <1>4
        <3>2. QED
            BY <2>4, <2>6, <2>8, <3>1, GrownFields DEF n
    <2>10. InsertedAfter(GrownList(a, donor, pages, m.limit), u, n, e)
        BY <1>1, <1>4, <2>4, <2>6, InsertGrown DEF a, n, s
    <2> HIDE DEF u
    <2>11. base = u[i].base + offset
        BY <2>9 DEF s
    <2>12. base + count <= u[i].base + u[i].count
        <3>1. CASE i # donor
            BY <2>9, <3>1 DEF s
        <3>2. CASE i = donor
            <4>1. u[i].count = s[i].count - pages
                BY <2>9, <3>2
            <4>2. offset + count <= u[i].count
                BY <1>1, <1>4, <1>5, <2>2, <4>1
            <4>3. base = s[i].base + offset
                BY DEF s
            <4>4. u[i].count \in Int
                BY <1>1, <1>4, <4>1
            <4>5. QED
                BY <1>1, <1>5, <2>9, <4>2, <4>3, <4>4, SMTT(40)
        <3>3. QED
            BY <3>1, <3>2
    <2>13. InsertedAfter(heap.mem.descs, u, n, e)
        BY <1>12, <2>10
    <2>14. n <= Len(u)
        BY <1>1, <2>9
    <2>15. QED
        BY <1>1, <1>8, <1>12, <2>7, <2>9, <2>11, <2>12, <2>13, <2>14, SplitMiddleEnd DEF list
<1>13. QED
    BY <1>9, <1>10, <1>11, <1>12 DEF list

-----------------------------------------------------------------------------
(* BlGenerateDescriptor.                                                   *)

Resized(d, base, count) == [d EXCEPT !.base = base, !.count = count]

ResizedList(s, i, base, count) == [s EXCEPT ![i] = Resized(s[i], base, count)]

LEMMA ResizedFields ==
    ASSUME NEW d \in Descriptors, NEW base \in ULongs, NEW count \in ULongs
    PROVE  /\ Resized(d, base, count) \in Descriptors
           /\ Resized(d, base, count).base = base
           /\ Resized(d, base, count).count = count
BY DEF Resized, Descriptors

LEMMA ResizeShape ==
    ASSUME NEW m \in Memories, NEW i, NEW base, NEW count
    PROVE  Resize(m, i, base, count).descs = ResizedList(m.descs, i, base, count)
<1> DEFINE d == Resized(m.descs[i], base, count)
<1>1. Resize(m, i, base, count) = [m EXCEPT !.descs[i] = d]
    BY DEF Resize, Resized
<1> HIDE DEF d
<1>2. [m EXCEPT !.descs[i] = d]
        = [descs |-> [m.descs EXCEPT ![i] = d], free |-> m.free, limit |-> m.limit]
    BY ReplaceShape
<1>3. Resize(m, i, base, count).descs = [m.descs EXCEPT ![i] = d]
    BY <1>1, <1>2
<1>4. QED
    BY <1>3 DEF d, ResizedList

\* The pages asked for are at one end of descriptor i.
LEMMA CarveAdded ==
    ASSUME NEW m \in Memories, GoodList(m.descs), NEW i \in DOMAIN m.descs,
           NEW e \in Descriptors, Inside(e, m.descs[i]),
           NEW added \in Memories, added.descs = Append(m.descs, e),
           NEW base \in ULongs, NEW count \in ULongs,
           base >= m.descs[i].base,
           base + count <= m.descs[i].base + m.descs[i].count,
           base + count <= e.base \/ e.base + e.count <= base
    PROVE  LET list == Resize(added, i, base, count).descs
           IN  GoodList(list) /\ Granted(list, e.type, e.base, e.count)
<1> DEFINE s == m.descs
           n == Len(s)
           a == Append(s, e)
           d == Resized(a[i], base, count)
           r == [s EXCEPT ![i] = d]
           t == Append(r, e)
<1>1. /\ s \in Seq(Descriptors) /\ n \in Nat /\ i \in 1 .. n /\ s[i] \in Descriptors
      /\ s[i].base \in Nat /\ s[i].count \in Nat
    BY ListFields DEF GoodList, RamList
<1>2. a[i] = s[i]
    BY <1>1, AppendProperties
<1>3. Resize(added, i, base, count).descs = [a EXCEPT ![i] = d]
    <2>1. Resize(added, i, base, count).descs = ResizedList(added.descs, i, base, count)
        BY ResizeShape, ZenonT(30)
    <2>2. added.descs = a
        OBVIOUS
    <2> HIDE DEF a
    <2>3. QED
        BY <2>1, <2>2 DEF ResizedList
<1> HIDE DEF a
<1>4. d \in Descriptors /\ d.base = base /\ d.count = count
    BY <1>1, <1>2, ResizedFields, SMTT(40)
<1> HIDE DEF d
<1>5. [a EXCEPT ![i] = d] = t
    BY <1>1, <1>4, AppendExcept, SMTT(40) DEF a
<1>6. Inside(d, s[i]) /\ Apart(d, e)
    BY <1>4 DEF Inside, Apart
<1>7. GoodList(t)
    BY <1>4, <1>6, CarveList
<1>8. r \in Seq(Descriptors) /\ Len(r) = n
    BY <1>1, <1>4, ExceptSeq
<1> HIDE DEF r
<1>9. t \in Seq(Descriptors) /\ Len(t) = n + 1 /\ t[n + 1] = e
    BY <1>8, AppendProperties
<1> HIDE DEF t
<1>10. n + 1 \in DOMAIN t
    BY <1>1, <1>9, LenProperties
<1>11. Granted(t, e.type, e.base, e.count)
    BY <1>9, <1>10 DEF Granted
<1>12. QED
    BY <1>3, <1>5, <1>7, <1>11

\* What BlGenerateDescriptor does once it has memory for the new descriptor.
Rest(m, i, type, base, count, offset, block) ==
    LET added == AddDescriptor(m, type, base, count, block)
        d     == added.descs[i]
    IN  IF base = d.base
        THEN [status |-> "ESUCCESS",
              mem |-> Resize(added, i, Wrap(d.base + count), Wrap(d.count - count))]
        ELSE IF Wrap(offset + count) = d.count
        THEN [status |-> "ESUCCESS",
              mem |-> Resize(added, i, d.base, Wrap(d.count - count))]
        ELSE SplitMiddle(added, i, base, count, offset)

\* The pages asked for lie in descriptor d, offset pages from its base.
Covers(d, base, count, offset) ==
    base = d.base + offset /\ base + count <= d.base + d.count

LEMMA CoverArithmetic ==
    ASSUME NEW B \in Nat, NEW C \in Nat, NEW b \in Nat, NEW c \in Nat, NEW o \in Nat,
           NEW R \in Nat, b = B + o, b + c <= B + C, B + C <= R
    PROVE  /\ o + c <= C /\ o + c \in 0 .. R /\ C - c \in 0 .. R /\ B + c \in 0 .. R
           /\ B <= b /\ B >= B /\ B + c >= B
           /\ (B + c) + (C - c) <= B + C
           /\ b = B => b + c <= B + c
           /\ o + c = C <=> b + c = B + C
           /\ o + c = C => B + (C - c) <= b
           /\ B + (C - c) <= B + C
OBVIOUS

LEMMA RestGood ==
    ASSUME NEW m \in Memories, GoodList(m.descs), NEW i \in DOMAIN m.descs,
           NEW type \in PageTypes, NEW base \in ULongs, NEW count \in ULongs,
           NEW offset \in ULongs, NEW block \in Nat,
           Covers(m.descs[i], base, count, offset),
           \/ base + count = m.descs[i].base + m.descs[i].count
           \/ TailRoom(m, i, type, offset, count)
    PROVE  LET list == Rest(m, i, type, base, count, offset, block).mem.descs
           IN  GoodList(list) /\ Granted(list, type, base, count)
<1> DEFINE s == m.descs
           e == [type |-> type, base |-> base, count |-> count, at |-> block]
           added == AddDescriptor(m, type, base, count, block)
           d == added.descs[i]
           front == Resize(added, i, Wrap(d.base + count), Wrap(d.count - count))
           back == Resize(added, i, d.base, Wrap(d.count - count))
           middle == SplitMiddle(added, i, base, count, offset)
           list == Rest(m, i, type, base, count, offset, block).mem.descs
<1>1. /\ s \in Seq(Descriptors) /\ i \in 1 .. Len(s) /\ Len(s) \in Nat
      /\ s[i].base \in Nat /\ s[i].count \in Nat /\ s[i].count \in ULongs
      /\ s[i].base \in ULongs /\ InRam(s[i])
    BY ListFields DEF GoodList, RamList
<1>2. e \in Descriptors /\ e.type = type /\ e.base = base /\ e.count = count
    BY DEF Descriptors
<1>3. added = [descs |-> Append(s, e), free |-> m.free, limit |-> m.limit]
    BY AddDescriptorShape
<1>4. added \in Memories
    BY AddDescriptorType
<1> HIDE DEF e, added
<1>5. added.descs = Append(s, e) /\ added.free = m.free /\ added.limit = m.limit
    BY <1>3
<1>6. d = s[i]
    BY <1>1, <1>2, <1>5, AppendProperties
<1>7. base \in Nat /\ count \in Nat /\ offset \in Nat /\ RamTop \in Nat
    BY ULongsAreNaturals, SizesAssumption
<1>17. /\ base = s[i].base + offset /\ base + count <= s[i].base + s[i].count
       /\ s[i].base + s[i].count <= RamTop
    BY <1>1 DEF Covers, InRam
<1> DEFINE B == s[i].base
           C == s[i].count
<1>8. /\ offset + count <= C /\ offset + count \in 0 .. RamTop
      /\ C - count \in 0 .. RamTop /\ B + count \in 0 .. RamTop
      /\ B <= base /\ B >= B /\ B + count >= B
      /\ (B + count) + (C - count) <= B + C
      /\ base = B => base + count <= B + count
      /\ offset + count = C <=> base + count = B + C
      /\ offset + count = C => B + (C - count) <= base
      /\ B + (C - count) <= B + C
    <2>1. /\ B \in Nat /\ C \in Nat
          /\ base = B + offset /\ base + count <= B + C /\ B + C <= RamTop
        BY <1>1, <1>17
    <2> HIDE DEF B, C
    <2>2. QED
        BY <1>7, <2>1, CoverArithmetic, SMTT(40)
<1>9. Wrap(offset + count) = offset + count
    BY <1>8, RamIsULong, WrapOfULong
<1>10. Wrap(s[i].count - count) = s[i].count - count /\ s[i].count - count \in ULongs
    BY <1>8, RamIsULong, WrapOfULong
<1>11. Inside(e, s[i])
    BY <1>2, <1>8, <1>17 DEF Inside
<1>12. Rest(m, i, type, base, count, offset, block)
         = IF base = d.base THEN [status |-> "ESUCCESS", mem |-> front]
           ELSE IF Wrap(offset + count) = d.count THEN [status |-> "ESUCCESS", mem |-> back]
           ELSE middle
    BY Zenon DEF Rest, added
<1> HIDE DEF d
<1>13. CASE base = d.base
    <2>2. Wrap(s[i].base + count) = s[i].base + count /\ s[i].base + count \in ULongs
        BY <1>8, RamIsULong, WrapOfULong
    <2>3. front = Resize(added, i, s[i].base + count, s[i].count - count)
        BY <1>6, <1>10, <2>2
    <2>4. /\ s[i].base + count >= s[i].base
          /\ (s[i].base + count) + (s[i].count - count) <= s[i].base + s[i].count
          /\ e.base + e.count <= s[i].base + count
        BY <1>2, <1>6, <1>8, <1>13
    <2> HIDE DEF front
    <2>5. list = front.descs
        BY <1>12, <1>13
    <2>6. GoodList(list) /\ Granted(list, e.type, e.base, e.count)
        BY <1>2, <1>4, <1>5, <1>10, <1>11, <2>2, <2>3, <2>4, <2>5, CarveAdded
    <2>7. QED
        BY <1>2, <2>6
<1>14. CASE base # d.base /\ offset + count = d.count
    <2>1. back = Resize(added, i, s[i].base, s[i].count - count)
        BY <1>6, <1>10
    <2>2. /\ s[i].base >= s[i].base
          /\ s[i].base + (s[i].count - count) <= s[i].base + s[i].count
          /\ s[i].base + (s[i].count - count) <= e.base
        BY <1>2, <1>6, <1>8, <1>14
    <2> HIDE DEF back
    <2>3. list = back.descs
        BY <1>9, <1>12, <1>14
    <2> DEFINE b == s[i].base
               c == s[i].count - count
    <2>4. b \in ULongs /\ c \in ULongs /\ b >= s[i].base /\ b + c <= s[i].base + s[i].count
          /\ b + c <= e.base /\ back = Resize(added, i, b, c)
        BY <1>1, <1>10, <2>1, <2>2
    <2> HIDE DEF b, c, list
    <2>6. GoodList(Resize(added, i, b, c).descs)
          /\ Granted(Resize(added, i, b, c).descs, e.type, e.base, e.count)
        BY <1>2, <1>4, <1>5, <1>11, <2>4, CarveAdded
    <2>7. GoodList(list) /\ Granted(list, e.type, e.base, e.count)
        BY <2>3, <2>4, <2>6
    <2>5. QED
        BY <1>2, <2>7 DEF list
<1>15. CASE base # d.base /\ offset + count # d.count
    <2>1. list = middle.mem.descs
        BY <1>9, <1>12, <1>15
    <2>2. base + count # s[i].base + s[i].count
        BY <1>6, <1>8, <1>15
    <2>3. TailRoom(m, i, type, offset, count)
        BY <2>2
    <2> HIDE DEF middle
    <2>4. GoodList(middle.mem.descs) /\ Granted(middle.mem.descs, type, base, count)
        BY <1>2, <1>4, <1>5, <1>17, <2>3, SplitMiddleGood DEF middle
    <2>5. QED
        BY <2>1, <2>4
<1>16. QED
    BY <1>13, <1>14, <1>15

\* What keeps a call of BlGenerateDescriptor from being disturbed by the heap
\* growths it causes: no split is needed, the heap has room for both
\* descriptors, the free descriptor also holds the pages the heap would take,
\* or the pages asked for end one that is in use.
Undisturbed(m, i, type, base, count) ==
    LET d == m.descs[i]
        tailless == base + count = d.base + d.count
    IN  \/ base = d.base /\ count = d.count
        \/ type # "Free" /\ d.type = "Free"
           /\ \/ m.free + 2 * Round(DescBytes) <= m.limit
              \/ base - d.base + count + NewHeapPages(Round(DescBytes)) <= d.count
        \/ tailless /\ d.type # "Free"

\* What is left of descriptor i, and of the heap's room, once the first of
\* the two descriptors has been allocated.
LEMMA FirstAllocation ==
    ASSUME NEW m \in Memories, GoodList(m.descs), NEW i \in DOMAIN m.descs,
           NEW type \in PageTypes, NEW base \in ULongs, NEW count \in ULongs,
           NEW offset \in ULongs,
           Covers(m.descs[i], base, count, offset),
           Undisturbed(m, i, type, base, count),
           ~(base = m.descs[i].base /\ count = m.descs[i].count),
           NEW heap, heap = BlAllocateHeap(m, DescBytes), heap.ok
    PROVE  /\ GoodList(heap.mem.descs) /\ i \in DOMAIN heap.mem.descs
           /\ Covers(heap.mem.descs[i], base, count, offset)
           /\ LET d == heap.mem.descs[i]
              IN  \/ base + count = d.base + d.count
                  \/ TailRoom(heap.mem, i, type, offset, count)
<1> DEFINE s == m.descs
           pages == NewHeapPages(Round(DescBytes))
           donor == First(HeapDonors(m, pages))
           full == ~(m.free + Round(DescBytes) <= m.limit)
           d == heap.mem.descs[i]
<1>1. /\ s \in Seq(Descriptors) /\ s[i].base \in Nat /\ s[i].count \in Nat /\ RamList(s)
    BY ListFields DEF GoodList, RamList
<1>2. /\ pages \in Nat /\ Round(DescBytes) \in Nat /\ DescBytes \in Nat
      /\ m.limit \in Nat /\ m.free \in Nat
    BY RoundBounds, NewHeapPagesBounds, SizesAssumption DEF Memories
<1>3. base \in Nat /\ count \in Nat /\ offset \in Nat
    BY ULongsAreNaturals
<1>4. heap.mem \in Memories /\ heap.mem.free \in Nat /\ heap.mem.limit \in Nat
    <2>1. heap.mem \in Memories
        BY <1>2, AllocateHeapType
    <2>2. QED
        BY <2>1 DEF Memories
<1>5. GoodList(heap.mem.descs)
    BY <1>2, HeapGood
<1>6. base = s[i].base + offset /\ base + count <= s[i].base + s[i].count
    BY DEF Covers
<1>7. \/ s[i].type # "Free" /\ base + count = s[i].base + s[i].count
      \/ type # "Free" /\ s[i].type = "Free" /\ m.free + 2 * Round(DescBytes) <= m.limit
      \/ type # "Free" /\ s[i].type = "Free" /\ offset + count + pages <= s[i].count
    <2>1. base - s[i].base = offset
        BY <1>1, <1>3, <1>6
    <2>2. QED
        BY <2>1 DEF Undisturbed
<1>8. \/ /\ ~full /\ heap.mem.descs = s
         /\ heap.mem.free = m.free + Round(DescBytes) /\ heap.mem.limit = m.limit
      \/ /\ full /\ donor \in HeapDonors(m, pages)
         /\ heap.mem.descs = GrownList(s, donor, pages, m.limit)
         /\ heap.mem.free + 2 * Round(DescBytes) <= heap.mem.limit + Round(DescBytes)
    BY <1>1, <1>2, HeapStep, Zenon
<1> HIDE DEF s, pages, donor, d
<1>9. CASE /\ ~full /\ heap.mem.descs = s
           /\ heap.mem.free = m.free + Round(DescBytes) /\ heap.mem.limit = m.limit
    <2>1. d = s[i] /\ i \in DOMAIN heap.mem.descs
        BY <1>9 DEF d, s
    <2>2. Covers(d, base, count, offset)
        BY <2>1 DEF s
    <2>3. base + count = d.base + d.count \/ TailRoom(heap.mem, i, type, offset, count)
        <3>1. CASE s[i].type # "Free" /\ base + count = s[i].base + s[i].count
            BY <2>1, <3>1
        <3>2. CASE type # "Free" /\ s[i].type = "Free"
                   /\ m.free + 2 * Round(DescBytes) <= m.limit
            <4>1. heap.mem.free + Round(DescBytes) <= heap.mem.limit
                BY <1>2, <1>9, <3>2
            <4>2. QED
                BY <4>1 DEF TailRoom
        <3>3. CASE type # "Free" /\ s[i].type = "Free" /\ offset + count + pages <= s[i].count
            BY <1>9, <3>3 DEF TailRoom, pages
        <3>4. QED
            BY <1>7, <3>1, <3>2, <3>3
    <2>4. QED
        BY <1>5, <2>1, <2>2, <2>3 DEF d
<1>10. CASE /\ full /\ donor \in HeapDonors(m, pages)
            /\ heap.mem.descs = GrownList(s, donor, pages, m.limit)
            /\ heap.mem.free + 2 * Round(DescBytes) <= heap.mem.limit + Round(DescBytes)
    <2>1. donor \in DOMAIN s /\ s[donor].type = "Free" /\ s[donor].count >= pages
        BY <1>10 DEF HeapDonors, s
    <2>2. s[donor].count \in Nat
        BY <1>1, <2>1, ListFields
    <2>3. pages <= s[donor].count
        BY <1>2, <2>1, <2>2
    <2>4. /\ i \in DOMAIN heap.mem.descs
          /\ d.type = s[i].type /\ d.base = s[i].base
          /\ d.count = IF i = donor THEN s[i].count - pages ELSE s[i].count
        <3>1. i \in DOMAIN s
            BY DEF s
        <3> DEFINE u == GrownList(s, donor, pages, m.limit)
        <3>2. /\ i \in DOMAIN u /\ u[i].type = s[i].type /\ u[i].base = s[i].base
              /\ u[i].count = IF i = donor THEN s[i].count - pages ELSE s[i].count
            BY <1>1, <1>2, <2>1, <2>3, <3>1, GrownFields, SMTT(40)
        <3>3. heap.mem.descs = u
            BY <1>10
        <3> HIDE DEF u
        <3>4. QED
            BY <3>2, <3>3 DEF d
    <2>5. TailRoom(heap.mem, i, type, offset, count)
        <3>1. heap.mem.free + Round(DescBytes) <= heap.mem.limit
            BY <1>2, <1>4, <1>10
        <3>2. QED
            BY <3>1 DEF TailRoom
    <2>6. base = d.base + offset
        BY <1>6, <2>4
    <2>7. base + count <= d.base + d.count
        <3>1. CASE i # donor
            BY <1>6, <2>4, <3>1
        <3>2. CASE i = donor
            <4>1. offset + count + pages <= s[i].count
                <5>1. s[i].type = "Free"
                    BY <2>1, <3>2
                <5>2. ~(m.free + 2 * Round(DescBytes) <= m.limit)
                    BY <1>2, <1>10
                <5>3. QED
                    BY <1>7, <5>1, <5>2
            <4>2. d.count = s[i].count - pages /\ d.count \in Int
                BY <1>1, <1>2, <2>4, <3>2
            <4>3. offset + count <= d.count
                BY <1>1, <1>2, <1>3, <4>1, <4>2
            <4>4. d.base \in Nat
                BY <1>1, <2>4
            <4>5. QED
                BY <1>3, <2>6, <4>2, <4>3, <4>4
        <3>3. QED
            BY <3>1, <3>2
    <2>8. QED
        BY <1>5, <2>4, <2>5, <2>6, <2>7 DEF Covers, d
<1>11. QED
    BY <1>8, <1>9, <1>10 DEF d

\* The whole descriptor changes hands.
LEMMA WholeGood ==
    ASSUME NEW m \in Memories, GoodList(m.descs), NEW i \in DOMAIN m.descs,
           NEW type \in PageTypes
    PROVE  LET list == [m EXCEPT !.descs[i].type = type].descs
           IN  /\ GoodList(list)
               /\ Granted(list, type, m.descs[i].base, m.descs[i].count)
<1> DEFINE s == m.descs
           d == [s[i] EXCEPT !.type = type]
           t == [s EXCEPT ![i] = d]
           list == [m EXCEPT !.descs[i].type = type].descs
           origin == [j \in DOMAIN t |-> j]
<1>1. /\ s \in Seq(Descriptors) /\ i \in 1 .. Len(s) /\ Len(s) \in Nat
      /\ s[i] \in Descriptors /\ DOMAIN s = 1 .. Len(s)
    BY ListFields, LenProperties DEF GoodList, RamList
<1>2. d \in Descriptors /\ d.type = type /\ d.base = s[i].base /\ d.count = s[i].count
    BY <1>1 DEF Descriptors
<1>3. list = t
    <2>1. [m EXCEPT !.descs[i].type = type] = [m EXCEPT !.descs[i] = d]
        OBVIOUS
    <2> HIDE DEF d
    <2>2. [m EXCEPT !.descs[i] = d] = [descs |-> t, free |-> m.free, limit |-> m.limit]
        BY ReplaceShape
    <2> HIDE DEF t
    <2>3. QED
        BY <2>1, <2>2
<1> HIDE DEF d, list
<1>4. /\ t \in Seq(Descriptors) /\ Len(t) = Len(s)
      /\ \A j \in 1 .. Len(s) : t[j] = IF j = i THEN d ELSE s[j]
    BY <1>1, <1>2, ExceptSeq
<1>5. DOMAIN t = DOMAIN s
    BY <1>1, <1>4, LenProperties
<1> HIDE DEF t
<1>6. ASSUME NEW j \in DOMAIN t PROVE Inside(t[j], s[j])
    <2>1. s[j].base \in Nat /\ s[j].count \in Nat
        BY <1>1, <1>5, ListFields
    <2>2. t[j].base = s[j].base /\ t[j].count = s[j].count
        BY <1>1, <1>2, <1>4, <1>5
    <2>3. QED
        BY <2>1, <2>2 DEF Inside
<1>7. origin \in [DOMAIN t -> DOMAIN s]
    BY <1>5
<1>8. \A j \in DOMAIN t : Inside(t[j], s[origin[j]])
    BY <1>6
<1>9. \A j, k \in DOMAIN t : (j # k /\ origin[j] = origin[k]) => Apart(t[j], t[k])
    OBVIOUS
<1> HIDE DEF origin, s
<1>10. GoodList(t)
    <2>1. GoodList(s)
        BY DEF s
    <2>2. QED
        BY <2>1, <1>4, <1>7, <1>8, <1>9, RefineList
<1>11. Granted(t, type, s[i].base, s[i].count)
    BY <1>1, <1>2, <1>4, <1>5 DEF Granted
<1>12. QED
    BY <1>3, <1>10, <1>11 DEF list, s

LEMMA GenerateGood ==
    ASSUME NEW m \in Memories, GoodList(m.descs), NEW i \in DOMAIN m.descs,
           NEW type \in PageTypes, NEW base \in ULongs, NEW count \in ULongs,
           Covers(m.descs[i], base, count, base - m.descs[i].base),
           base >= m.descs[i].base,
           Undisturbed(m, i, type, base, count)
    PROVE  LET result == BlGenerateDescriptor(m, i, type, base, count)
           IN  /\ GoodList(result.mem.descs)
               /\ result.status = "ESUCCESS"
                      => Granted(result.mem.descs, type, base, count)
<1> DEFINE d      == m.descs[i]
           offset == base - d.base
           heap   == BlAllocateHeap(m, DescBytes)
           m1     == heap.mem
           block  == heap.block
           result == BlGenerateDescriptor(m, i, type, base, count)
           whole  == base = d.base /\ count = d.count
<1>1. /\ d.base \in Nat /\ d.count \in Nat /\ InRam(d) /\ RamTop \in Nat
    BY ListFields, SizesAssumption DEF GoodList, RamList
<1>2. base \in Nat /\ count \in Nat
    BY ULongsAreNaturals
<1>3. base + count <= d.base + d.count
    BY DEF Covers
<1>4. offset \in 0 .. RamTop
    BY <1>1, <1>2, <1>3 DEF InRam
<1>5. offset \in ULongs /\ Wrap(base - d.base) = offset
    BY <1>4, RamIsULong, WrapOfULong
<1>6. m1 \in Memories /\ block \in Nat
    BY AllocateHeapType, SizesAssumption
<1>7. result =
        IF offset = 0 /\ count = d.count
        THEN [status |-> "ESUCCESS", mem |-> [m EXCEPT !.descs[i].type = type]]
        ELSE IF ~heap.ok
        THEN [status |-> "ENOMEM", mem |-> m1]
        ELSE Rest(m1, i, type, base, count, offset, block)
    <2>1. result =
            IF Wrap(base - d.base) = 0 /\ count = d.count
            THEN [status |-> "ESUCCESS", mem |-> [m EXCEPT !.descs[i].type = type]]
            ELSE IF ~heap.ok
            THEN [status |-> "ENOMEM", mem |-> m1]
            ELSE Rest(m1, i, type, base, count, Wrap(base - d.base), block)
        BY Zenon DEF BlGenerateDescriptor, Rest
    <2>2. QED
        BY <1>5, <2>1, Zenon
<1>8. whole <=> offset = 0 /\ count = d.count
    BY <1>1, <1>2
<1> HIDE DEF result
<1>9. CASE whole
    <2>1. result = [status |-> "ESUCCESS", mem |-> [m EXCEPT !.descs[i].type = type]]
        BY <1>7, <1>8, <1>9
    <2> DEFINE list == [m EXCEPT !.descs[i].type = type].descs
    <2>2. GoodList(list) /\ Granted(list, type, d.base, d.count)
        BY WholeGood
    <2>3. result.mem.descs = list
        BY <2>1
    <2> HIDE DEF list
    <2>4. QED
        BY <1>9, <2>2, <2>3 DEF result
<1>10. CASE ~whole /\ ~heap.ok
    <2>1. heap.mem = m
        BY HeapGood, SizesAssumption, <1>10
    <2>2. result.status = "ENOMEM" /\ result.mem = m1
        BY <1>7, <1>8, <1>10
    <2>3. result.mem = m
        BY <2>1, <2>2
    <2>4. QED
        BY <2>2, <2>3 DEF result
<1>11. CASE ~whole /\ heap.ok
    <2> HIDE DEF offset
    <2>1. Covers(d, base, count, offset)
        BY DEF offset
    <2>2. /\ GoodList(m1.descs) /\ i \in DOMAIN m1.descs
          /\ Covers(m1.descs[i], base, count, offset)
          /\ \/ base + count = m1.descs[i].base + m1.descs[i].count
             \/ TailRoom(m1, i, type, offset, count)
        BY <1>5, <1>11, <2>1, FirstAllocation
    <2> DEFINE rest == Rest(m1, i, type, base, count, offset, block)
    <2> HIDE DEF m1, block, heap
    <2>3. GoodList(rest.mem.descs) /\ Granted(rest.mem.descs, type, base, count)
        BY <1>5, <1>6, <2>2, RestGood
    <2>4. result = rest
        BY <1>7, <1>8, <1>11
    <2> HIDE DEF rest
    <2>5. QED
        BY <2>3, <2>4 DEF result
<1>12. QED
    BY <1>9, <1>10, <1>11

-----------------------------------------------------------------------------
(* The calls.                                                              *)

\* A difference of pages that wraps looks negative: Offset is a LONG.
LEMMA WrapOfNegative ==
    ASSUME NEW n \in Int, n < 0, -n <= RamTop
    PROVE  ~(Wrap(n) < Word \div 2)
<1> DEFINE q == n \div Word
           r == n % Word
           half == Word \div 2
<1>1. /\ Word \in Nat \ {0} /\ RamTop \in Nat /\ half \in Nat
      /\ RamTop + 1 < half /\ 2 * half <= Word
    BY SizesAssumption
<1>2. q \in Int /\ r \in 0 .. (Word - 1) /\ n = Word * q + r
    BY <1>1
<1>3. Wrap(n) = r
    BY <1>1 DEF Wrap, ULongs
<1> HIDE DEF q, r, half
<1>4. q = -1
    <2>1. CASE q >= 0
        <3>1. Word * q >= 0
            BY <1>1, <1>2, <2>1
        <3>2. QED
            BY <1>1, <1>2, <3>1
    <2>2. CASE q <= -2
        <3>1. Word * q <= Word * (-2)
            BY <1>1, <1>2, <2>2
        <3>2. QED
            BY <1>1, <1>2, <3>1
    <2>3. QED
        BY <1>2, <2>1, <2>2
<1>5. r = n + Word
    BY <1>1, <1>2, <1>4
<1>6. ~(r < half)
    BY <1>1, <1>2, <1>5
<1>7. QED
    BY <1>3, <1>6 DEF half

\* The descriptor that serves a request holds the pages it is served with.
LEMMA ServerCovers ==
    ASSUME NEW m \in Memories, GoodList(m.descs), NEW base \in ULongs,
           NEW count \in 1 .. (Word \div 2), Servable(m, base, count),
           NEW server, server = Server(m, base, count)
    PROVE  LET d == m.descs[server.index]
           IN  /\ server.base \in ULongs /\ server.base >= d.base
               /\ Covers(d, server.base, count, server.base - d.base)
<1> DEFINE i == server.index
           d == m.descs[i]
           b == server.base
           half == Word \div 2
<1>1. /\ i \in DOMAIN m.descs /\ b \in ULongs
      /\ \/ b = base /\ i \in Holders(m, base, count)
         \/ b = d.base /\ i \in HeapDonors(m, count)
    BY ServerType
<1> HIDE DEF i, b
<1>2. d.base \in Nat /\ d.count \in Nat /\ d.base + d.count <= RamTop
    BY <1>1, ListFields DEF GoodList, RamList, InRam
<1>3. b \in Nat /\ base \in Nat
    BY <1>1, ULongsAreNaturals
<1>4. /\ count \in Nat /\ count <= half /\ half \in Nat /\ Word \in Nat \ {0}
      /\ 2 * half <= Word /\ RamTop \in Nat
    BY SizesAssumption
<1> HIDE DEF d, half
<1>5. CASE b = d.base /\ i \in HeapDonors(m, count)
    <2>1. d.count >= count
        BY <1>5 DEF HeapDonors, d
    <2>2. b - d.base \in Nat /\ b = d.base + (b - d.base) /\ b + count <= d.base + d.count
        BY <1>2, <1>3, <1>4, <1>5, <2>1
    <2>3. QED
        BY <1>1, <1>2, <1>3, <2>2 DEF Covers, d, b, i
<1>6. CASE b = base /\ i \in Holders(m, base, count)
    <2> DEFINE n == b - d.base
    <2>1. Wrap(n) < half /\ d.count >= Wrap(Wrap(n) + count)
        BY <1>6 DEF Holders, d, half
    <2>2. n \in Int
        BY <1>2, <1>3
    <2>3. n >= 0
        <3>1. CASE n < 0
            <4>1. -n <= RamTop
                BY <1>2, <1>3, <1>4
            <4>2. ~(Wrap(n) < half)
                BY <2>2, <3>1, <4>1, WrapOfNegative DEF half
            <4>3. QED
                BY <2>1, <4>2
        <3>2. QED
            BY <2>2, <3>1
    <2>4. Wrap(n) = n
        <3>1. n \in 0 .. (Word - 1)
            <4>1. b \in 0 .. (Word - 1)
                BY <1>1 DEF ULongs
            <4>2. QED
                BY <1>2, <1>3, <1>4, <2>3, <4>1
        <3> HIDE DEF n
        <3>2. QED
            BY <3>1, WrapOfULong DEF ULongs
    <2>5. Wrap(n + count) = n + count
        <3> HIDE DEF n
        <3>1. n + count \in 0 .. (Word - 1)
            BY <1>4, <2>1, <2>2, <2>3, <2>4
        <3>2. QED
            BY <3>1, WrapOfULong DEF ULongs
    <2>6. n + count <= d.count
        <3> HIDE DEF n
        <3>1. d.count >= n + count
            BY <2>1, <2>4, <2>5
        <3>2. QED
            BY <1>2, <1>4, <2>2, <3>1
    <2>7. b = d.base + n /\ b + count <= d.base + d.count /\ b >= d.base
        BY <1>2, <1>3, <1>4, <2>3, <2>6
    <2>8. QED
        BY <1>1, <2>7 DEF Covers, d, b, i
<1>7. QED
    BY <1>1, <1>5, <1>6

LEMMA FreeIsNotAsked == "Free" \notin ImageTypes \cup DataTypes
BY TypesAssumption DEF FirmwareTypes

\* No page of a good list belongs to two descriptors.
LEMMA GoodIsDisjoint ==
    ASSUME NEW s, GoodList(s), NEW i \in DOMAIN s, NEW j \in DOMAIN s, i # j
    PROVE  Pages(s[i]) \cap Pages(s[j]) = {}
<1>1. /\ s[i].base \in Nat /\ s[i].count \in Nat
      /\ s[j].base \in Nat /\ s[j].count \in Nat
    BY ListFields DEF GoodList, RamList
<1>2. Apart(s[i], s[j])
    BY DEF GoodList
<1>3. QED
    BY <1>1, <1>2 DEF Apart, Pages

\* BlMemoryInitialize copies the firmware's descriptors and carves the stack
\* and the heap off the top of RAM; the heap stores all five.
LEMMA InitialFields ==
    ASSUME FirmwareOK, NEW carved \in CarveFrom(firmware), NEW list,
           list = InitialMemory(firmware, carved).descs
    PROVE  /\ DOMAIN list = 1 .. 5 /\ carved = 3 /\ firmware[3].count >= CarvePages
           /\ list[1].base = 0 /\ list[1].count = LowPages
           /\ list[1].type = "FirmwarePermanent"
           /\ list[2].base = LowPages /\ list[2].count = firmware[2].count
           /\ list[2].type = "LoadedProgram"
           /\ list[3].base = firmware[3].base
           /\ list[3].count = firmware[3].count - CarvePages
           /\ list[3].type = "Free"
           /\ list[4].base = RamTop - StackPages /\ list[4].count = StackPages
           /\ list[4].type = "OsloaderStack"
           /\ list[5].base = RamTop - CarvePages /\ list[5].count = HeapPages
           /\ list[5].type = "OsloaderHeap"
           /\ \A i \in 1 .. 5 :
                 list[i].at = InitialSlot(FirstHeap(firmware, carved), i)
<1> DEFINE top == firmware[3].base + firmware[3].count
           n == Len(firmware)
           start == FirstHeap(firmware, carved)
           copy == [i \in DOMAIN firmware |->
                      [type  |-> firmware[i].type,
                       base  |-> firmware[i].base,
                       count |-> IF i = carved THEN firmware[i].count - CarvePages
                                 ELSE firmware[i].count,
                       at    |-> InitialSlot(start, i)]]
           stack == [type |-> "OsloaderStack", base |-> top - StackPages,
                     count |-> StackPages, at |-> InitialSlot(start, n + 1)]
           heap == [type |-> "OsloaderHeap", base |-> top - CarvePages,
                    count |-> HeapPages, at |-> InitialSlot(start, n + 2)]
<1>1. carved = 3 /\ firmware[3].count >= CarvePages
    BY CarveFromTop
<1>2. list = copy \o <<stack, heap>>
    BY <1>1 DEF InitialMemory
<1>3. list \in Seq(Descriptors)
    BY InitialMemoryType DEF Memories
<1>4. /\ DOMAIN firmware = 1 .. 3
      /\ firmware[1].base \in Nat /\ firmware[1].count \in Nat
      /\ firmware[2].base \in Nat /\ firmware[2].count \in Nat
      /\ firmware[3].base \in Nat /\ firmware[3].count \in Nat
    BY FirmwareShape
<1>5. /\ firmware[1].base = 0 /\ firmware[1].count = LowPages
      /\ firmware[2].base = LowPages
      /\ firmware[3].base = LowPages + firmware[2].count
      /\ firmware[3].base + firmware[3].count = RamTop
    BY DEF FirmwareOK
<1>6. DOMAIN copy = 1 .. 3 /\ copy \in [1 .. 3 -> {copy[i] : i \in 1 .. 3}]
    BY <1>4
<1>7. /\ copy[1].base = firmware[1].base /\ copy[1].count = firmware[1].count
      /\ copy[2].base = firmware[2].base /\ copy[2].count = firmware[2].count
      /\ copy[3].base = firmware[3].base
      /\ copy[3].count = firmware[3].count - CarvePages
      /\ copy[1].type = firmware[1].type /\ copy[2].type = firmware[2].type
      /\ copy[3].type = firmware[3].type
      /\ \A i \in 1 .. 3 : copy[i].at = InitialSlot(start, i)
    BY <1>1, <1>4
<1>8. /\ stack.base = top - StackPages /\ stack.count = StackPages
      /\ heap.base = top - CarvePages /\ heap.count = HeapPages
      /\ stack.type = "OsloaderStack" /\ heap.type = "OsloaderHeap"
      /\ stack.at = InitialSlot(start, n + 1) /\ heap.at = InitialSlot(start, n + 2)
    OBVIOUS
<1> HIDE DEF copy, stack, heap
<1>9. /\ DOMAIN list = 1 .. 5
      /\ list[1] = copy[1] /\ list[2] = copy[2] /\ list[3] = copy[3]
      /\ list[4] = stack /\ list[5] = heap
    <2> DEFINE Some == {copy[i] : i \in 1 .. 3} \cup {stack, heap}
               pair == <<stack, heap>>
    <2>1. copy \in Seq(Some) /\ Len(copy) = 3
        <3>1. copy \in [1 .. 3 -> Some]
            BY <1>6
        <3> HIDE DEF Some
        <3>2. copy \in Seq(Some)
            <4>1. Seq(Some) = UNION {[1 .. k -> Some] : k \in Nat}
                BY SeqDef
            <4>2. QED
                BY <3>1, <4>1
        <3>3. QED
            BY <1>6, <3>2, LenProperties
    <2>2. pair \in Seq(Some) /\ Len(pair) = 2 /\ pair[1] = stack /\ pair[2] = heap
        OBVIOUS
    <2> HIDE DEF Some, pair
    <2>3. Len(copy \o pair) = 5
        <3>1. Len(copy \o pair) = Len(copy) + Len(pair)
            BY <2>1, <2>2, ConcatProperties, Zenon
        <3>2. QED
            BY <2>1, <2>2, <3>1
    <2>4. \A i \in 1 .. 5 :
             (copy \o pair)[i] = IF i <= 3 THEN copy[i] ELSE pair[i - 3]
        BY <2>1, <2>2, <2>3, ConcatProperties
    <2>5. list = copy \o pair
        BY <1>2 DEF pair
    <2>6. Len(list) = 5 /\ DOMAIN list = 1 .. 5
        BY <1>3, <2>3, <2>5, LenProperties
    <2>7. QED
        BY <2>2, <2>4, <2>5, <2>6
<1>10. n = 3 /\ top = RamTop
    BY <1>5 DEF FirmwareOK
<1>11. \A i \in 1 .. 5 : list[i].at = InitialSlot(start, i)
    <2>1. /\ list[1].at = InitialSlot(start, 1) /\ list[2].at = InitialSlot(start, 2)
          /\ list[3].at = InitialSlot(start, 3)
        BY <1>7, <1>9
    <2>2. list[4].at = InitialSlot(start, 4) /\ list[5].at = InitialSlot(start, 5)
        BY <1>8, <1>9, <1>10
    <2>3. QED
        BY <2>1, <2>2
<1>12. QED
    BY <1>1, <1>5, <1>7, <1>8, <1>9, <1>10, <1>11 DEF FirmwareOK

LEMMA InitialListGood ==
    ASSUME FirmwareOK, NEW carved \in CarveFrom(firmware)
    PROVE  GoodList(InitialMemory(firmware, carved).descs)
<1> DEFINE list == InitialMemory(firmware, carved).descs
<1>1. list \in Seq(Descriptors)
    BY InitialMemoryType DEF Memories
<1>2. /\ firmware[2].count \in Nat /\ firmware[3].base \in Nat
      /\ firmware[3].count \in Nat
    BY FirmwareShape
<1>3. /\ firmware[3].base = LowPages + firmware[2].count
      /\ firmware[3].base + firmware[3].count = RamTop
    BY DEF FirmwareOK
<1>4. /\ LowPages \in Nat /\ RamTop \in Nat /\ StackPages \in Nat
      /\ HeapPages \in Nat /\ CarvePages = HeapPages + StackPages
    BY SizesAssumption DEF CarvePages
<1>5. /\ DOMAIN list = 1 .. 5 /\ firmware[3].count >= CarvePages
      /\ list[1].base = 0 /\ list[1].count = LowPages
      /\ list[2].base = LowPages /\ list[2].count = firmware[2].count
      /\ list[3].base = firmware[3].base
      /\ list[3].count = firmware[3].count - CarvePages
      /\ list[4].base = RamTop - StackPages /\ list[4].count = StackPages
      /\ list[5].base = RamTop - CarvePages /\ list[5].count = HeapPages
    BY InitialFields
<1> HIDE DEF list
<1>6. \A i \in DOMAIN list : InRam(list[i])
    BY <1>2, <1>3, <1>4, <1>5 DEF InRam
<1>7. \A i, j \in DOMAIN list : i # j => Apart(list[i], list[j])
    BY <1>2, <1>3, <1>4, <1>5 DEF Apart
<1>8. QED
    BY <1>1, <1>6, <1>7 DEF GoodList, RamList, list

-----------------------------------------------------------------------------
(* The inductive invariant of the loader's calls: the list is good, and    *)
(* what the last call answered still describes it.                         *)

AnswerHolds ==
    (answer.op = "ESUCCESS" /\ answer.type # "Free") =>
        Granted(mem.descs, answer.type, answer.base, answer.count)

ListInv == TypeInv /\ GoodList(mem.descs) /\ AnswerHolds /\ HeapFailsOnlyWhenFull

ListGuarantees == GoodList(mem.descs) /\ AnswerHolds /\ HeapFailsOnlyWhenFull

LEMMA StatusAnswer ==
    ASSUME NEW s \in {"none", "ESUCCESS", "ENOMEM"}
    PROVE  Status(s).type = "Free" /\ Status(s).op # "NULL"
BY DEF Status

LEMMA InitListInv == Init => ListInv
<1> SUFFICES ASSUME Init PROVE ListInv
    OBVIOUS
<1>1. GoodList(mem.descs)
    BY DEF Init, NoMemory, GoodList, RamList
<1>2. answer = Status("none")
    BY DEF Init
<1>3. QED
    BY <1>1, <1>2, InitTypeInv, StatusAnswer
       DEF ListInv, AnswerHolds, HeapFailsOnlyWhenFull

LEMMA SetupListInv ==
    ASSUME ListInv, Setup
    PROVE  ListGuarantees'
<1>1. ASSUME NEW endPage \in EndPages, BlArmFixupMemoryMap(endPage)
      PROVE  ListGuarantees'
    BY <1>1 DEF BlArmFixupMemoryMap, ListInv, ListGuarantees, AnswerHolds,
                HeapFailsOnlyWhenFull
<1>2. ASSUME BlMemoryInitialize
      PROVE  ListGuarantees'
    <2>1. CASE answer' = Status("ENOMEM") /\ UNCHANGED <<mem, blocks>>
        BY <2>1, StatusAnswer
           DEF ListInv, ListGuarantees, AnswerHolds, HeapFailsOnlyWhenFull
    <2>2. ASSUME NEW carved \in CarveFrom(firmware),
                 mem' = InitialMemory(firmware, carved),
                 answer' = Status("ESUCCESS")
          PROVE  ListGuarantees'
        <3>1. GoodList(mem'.descs)
            BY <2>2, InitialListGood DEF ListInv, TypeInv
        <3>2. QED
            BY <2>2, <3>1, StatusAnswer
               DEF ListGuarantees, AnswerHolds, HeapFailsOnlyWhenFull
    <2>3. QED
        BY <1>2, <2>1, <2>2, Zenon DEF BlMemoryInitialize
<1>3. QED
    BY <1>1, <1>2 DEF Setup

\* Both heap calls: `asked' is what BlAllocateHeap was called with.
LEMMA HeapCallListInv ==
    ASSUME ListInv, NEW asked \in Nat, HeapCall(asked),
           IF BlAllocateHeap(mem, asked).ok
           THEN answer' = Status("ESUCCESS")
           ELSE answer' = [Status("NULL") EXCEPT !.count = asked]
    PROVE  ListGuarantees'
<1> DEFINE heap == BlAllocateHeap(mem, asked)
<1>1. mem \in Memories /\ GoodList(mem.descs)
    BY DEF ListInv, TypeInv, TypeOK
<1>2. mem' = heap.mem
    BY DEF HeapCall
<1>3. /\ GoodList(heap.mem.descs)
      /\ ~heap.ok => /\ HeapDonors(mem, NewHeapPages(Round(asked))) = {}
                     /\ heap.mem = mem
    BY <1>1, HeapGood
<1>4. CASE heap.ok
    <2>1. answer' = Status("ESUCCESS")
        BY <1>4
    <2> HIDE DEF heap
    <2>2. QED
        BY <1>2, <1>3, <2>1, StatusAnswer
           DEF ListGuarantees, AnswerHolds, HeapFailsOnlyWhenFull
<1>5. CASE ~heap.ok
    <2>1. answer' = [Status("NULL") EXCEPT !.count = asked]
        BY <1>5
    <2>2. answer'.type = "Free" /\ answer'.count = asked
        BY <2>1 DEF Status
    <2> HIDE DEF heap
    <2>3. mem' = mem /\ HeapDonors(mem, NewHeapPages(Round(asked))) = {}
        BY <1>2, <1>3, <1>5
    <2>4. QED
        BY <1>1, <2>2, <2>3
           DEF ListGuarantees, AnswerHolds, HeapFailsOnlyWhenFull
<1>6. QED
    BY <1>4, <1>5

\* What BlGenerateDescriptor is called with: descriptor i holds the pages, and
\* the heap cannot disturb the split.
Served(m, i, type, base, count) ==
    /\ m \in Memories /\ GoodList(m.descs) /\ i \in DOMAIN m.descs
    /\ type \in PageTypes /\ base \in ULongs /\ count \in ULongs
    /\ Covers(m.descs[i], base, count, base - m.descs[i].base)
    /\ base >= m.descs[i].base
    /\ Undisturbed(m, i, type, base, count)

\* A roomy request is served undisturbed.
LEMMA RequestServed ==
    ASSUME ListInv, NEW type \in ImageTypes \cup DataTypes, NEW base \in Bases,
           NEW count \in Counts, RoomyAllocate(type, base, count),
           Servable(mem, base, count)
    PROVE  \E i, at :
              LET result == BlGenerateDescriptor(mem, i, type, at, count)
              IN  /\ Served(mem, i, type, at, count) /\ mem.descs[i].type = "Free"
                  /\ mem' = result.mem
                  /\ answer' = [op |-> result.status, type |-> type,
                                base |-> at, count |-> count]
<1> DEFINE server == Server(mem, base, count)
           d == mem.descs[server.index]
<1>1. mem \in Memories /\ GoodList(mem.descs)
    BY DEF ListInv, TypeInv, TypeOK
<1>2. /\ base \in ULongs /\ count \in ULongs /\ count \in 1 .. (Word \div 2)
      /\ type \in PageTypes /\ type # "Free"
    BY SizesAssumption, FreeIsNotAsked DEF ULongs, PageTypes
<1>3. server.index \in DOMAIN mem.descs /\ d.type = "Free"
    BY <1>1, <1>2, ServerType
<1>4. /\ server.base \in ULongs /\ server.base >= d.base
      /\ Covers(d, server.base, count, server.base - d.base)
    BY <1>1, <1>2, <1>3, ServerCovers
<1>5. Undisturbed(mem, server.index, type, server.base, count)
    <2>1. \/ server.base = d.base /\ count = d.count
          \/ mem.free + 2 * Round(DescBytes) <= mem.limit
          \/ server.base - d.base + count + NewHeapPages(Round(DescBytes))
                 <= d.count
        BY DEF RoomyAllocate, Roomy
    <2> HIDE DEF server
    <2>2. QED
        BY <1>2, <1>3, <2>1, Zenon DEF Undisturbed
<1> DEFINE result == BlGenerateDescriptor(mem, server.index, type, server.base, count)
<1>6. mem' = result.mem /\ answer' = [op |-> result.status, type |-> type,
                                      base |-> server.base, count |-> count]
    BY DEF RoomyAllocate, BlAllocateDescriptor
<1> HIDE DEF server
<1>7. Served(mem, server.index, type, server.base, count)
    BY <1>1, <1>2, <1>3, <1>4, <1>5 DEF Served
<1>8. QED
    BY <1>3, <1>6, <1>7

LEMMA AllocateDescriptorListInv ==
    ASSUME ListInv, NEW type \in ImageTypes \cup DataTypes, NEW base \in Bases,
           NEW count \in Counts, RoomyAllocate(type, base, count)
    PROVE  ListGuarantees'
<1>1. mem \in Memories /\ GoodList(mem.descs)
    BY DEF ListInv, TypeInv, TypeOK
<1>2. CASE Servable(mem, base, count)
    <2>1. PICK i, at :
             LET result == BlGenerateDescriptor(mem, i, type, at, count)
             IN  /\ Served(mem, i, type, at, count)
                 /\ mem' = result.mem
                 /\ answer' = [op |-> result.status, type |-> type,
                               base |-> at, count |-> count]
        BY <1>2, RequestServed
    <2> DEFINE result == BlGenerateDescriptor(mem, i, type, at, count)
    <2>2. /\ GoodList(result.mem.descs)
          /\ result.status = "ESUCCESS" => Granted(result.mem.descs, type, at, count)
        BY <2>1, GenerateGood DEF Served
    <2>3. result.status # "NULL"
        BY <2>1, GenerateType DEF Results, Served
    <2> HIDE DEF result
    <2>4. mem' = result.mem /\ answer' = [op |-> result.status, type |-> type,
                                          base |-> at, count |-> count]
        BY <2>1 DEF result
    <2>5. QED
        BY <2>2, <2>3, <2>4 DEF ListGuarantees, AnswerHolds, HeapFailsOnlyWhenFull
<1>3. CASE ~Servable(mem, base, count)
    <2>1. mem' = mem /\ answer' = Status("ENOMEM")
        BY <1>3 DEF RoomyAllocate, BlAllocateDescriptor
    <2>2. QED
        BY <1>1, <2>1, StatusAnswer
           DEF ListGuarantees, AnswerHolds, HeapFailsOnlyWhenFull
<1>4. QED
    BY <1>2, <1>3

\* The image's pages are in use, so giving the end of them back needs one
\* descriptor and no tail: however the heap grows for it, nothing is disturbed.
LEMMA TailServed ==
    ASSUME ListInv, NEW page \in 0 .. RamTop, FreeImageTail(page)
    PROVE  /\ answer' = Status("none")
           /\ \E i, count :
                 /\ Served(mem, i, "Free", page, count)
                 /\ mem.descs[i].type \in ImageTypes
                 /\ mem' = BlGenerateDescriptor(mem, i, "Free", page, count).mem
<1> DEFINE s == mem.descs
           found == BlFindMemoryDescriptor(mem, page)
           i == First(found)
           d == s[i]
           rest == Wrap(d.count + d.base - page)
<1>1. mem \in Memories /\ GoodList(s) /\ s \in Seq(Descriptors)
    BY DEF ListInv, TypeInv, TypeOK, Memories
<1>2. /\ found # {} /\ answer' = Status("none")
      /\ mem' = BlGenerateDescriptor(mem, i, "Free", page, rest).mem
    BY DEF FreeImageTail
<1>3. i \in DOMAIN s /\ page \in Pages(d)
    BY <1>1, <1>2, FoundIsIndex
<1>4. /\ answer.op = "ESUCCESS" /\ answer.type \in ImageTypes
      /\ page \in (answer.base + 1) .. (answer.base + answer.count - 1)
    BY DEF FreeImageTail
<1>5. answer.type # "Free"
    BY <1>4, FreeIsNotAsked
<1>6. PICK k \in DOMAIN s : /\ s[k].type = answer.type
                            /\ s[k].base = answer.base /\ s[k].count = answer.count
    BY <1>4, <1>5, Zenon DEF ListInv, AnswerHolds, Granted
<1>7. i = k
    <2>1. s[k].base \in Nat /\ s[k].count \in Nat
        BY <1>1, <1>6, ListFields
    <2>2. page \in Pages(s[k])
        BY <1>4, <1>6, <2>1 DEF Pages
    <2> HIDE DEF i
    <2>3. QED
        BY <1>1, <1>3, <1>6, <2>2, GoodIsDisjoint
<1> HIDE DEF i, found
<1>8. /\ d.base \in Nat /\ d.count \in Nat /\ d.base + d.count <= RamTop
      /\ d.type # "Free" /\ d.type \in ImageTypes
      /\ page \in Nat /\ RamTop \in Nat
    BY <1>1, <1>3, <1>4, <1>5, <1>6, <1>7, ListFields, SizesAssumption
       DEF GoodList, RamList, InRam
<1> HIDE DEF d, s
<1>9. d.base <= page /\ page < d.base + d.count
    BY <1>3, <1>8 DEF Pages
<1>10. d.count + d.base - page \in 0 .. RamTop
    BY <1>8, <1>9
<1>11. rest = d.count + d.base - page /\ rest \in ULongs
    BY <1>10, RamIsULong, WrapOfULong
<1> HIDE DEF rest
<1>12. /\ page \in ULongs /\ page >= d.base /\ "Free" \in PageTypes
       /\ page + rest = d.base + d.count /\ page = d.base + (page - d.base)
    BY <1>8, <1>9, <1>11, RamIsULong DEF PageTypes, FirmwareTypes
<1>13. page + rest <= d.base + d.count
    BY <1>8, <1>12
<1>14. Covers(d, page, rest, page - d.base)
    BY <1>12, <1>13 DEF Covers
<1>15. Undisturbed(mem, i, "Free", page, rest)
    BY <1>8, <1>12, Zenon DEF Undisturbed, d, s
<1>16. Served(mem, i, "Free", page, rest)
    BY <1>1, <1>3, <1>11, <1>12, <1>14, <1>15 DEF Served, d, s
<1>17. mem.descs[i].type \in ImageTypes
    BY <1>8 DEF d, s
<1>18. QED
    BY <1>2, <1>16, <1>17

LEMMA FreeImageTailListInv ==
    ASSUME ListInv, NEW page \in 0 .. RamTop, FreeImageTail(page)
    PROVE  ListGuarantees'
<1>1. answer' = Status("none")
    BY TailServed
<1>2. PICK i, count :
         /\ Served(mem, i, "Free", page, count)
         /\ mem' = BlGenerateDescriptor(mem, i, "Free", page, count).mem
    BY TailServed
<1> DEFINE result == BlGenerateDescriptor(mem, i, "Free", page, count)
<1>3. GoodList(result.mem.descs)
    BY <1>2, GenerateGood DEF Served
<1>4. mem' = result.mem
    BY <1>2
<1> HIDE DEF result
<1>5. QED
    BY <1>1, <1>3, <1>4, StatusAnswer
       DEF ListGuarantees, AnswerHolds, HeapFailsOnlyWhenFull

LEMMA HeapCallsListInv ==
    ASSUME ListInv, NEW bytes \in HeapSizes,
           AllocateHeap(bytes) \/ BlAllocateHeapAligned(bytes)
    PROVE  ListGuarantees'
<1> DEFINE asked == bytes + FillSize - 1
<1>1. bytes \in Nat /\ asked \in Nat
    BY SizesAssumption
<1>2. CASE AllocateHeap(bytes)
    BY <1>1, <1>2, HeapCallListInv DEF AllocateHeap
<1>3. CASE BlAllocateHeapAligned(bytes)
    <2> HIDE DEF asked
    <2>1. /\ HeapCall(asked)
          /\ IF BlAllocateHeap(mem, asked).ok
             THEN answer' = Status("ESUCCESS")
             ELSE answer' = [Status("NULL") EXCEPT !.count = asked]
        BY <1>3 DEF BlAllocateHeapAligned, asked
    <2>2. QED
        BY <1>1, <2>1, HeapCallListInv
<1>4. QED
    BY <1>2, <1>3

LEMMA NextListInv == ListInv /\ [RoomyNext]_vars => ListInv'
<1> SUFFICES ASSUME ListInv, [RoomyNext]_vars PROVE ListInv'
    OBVIOUS
<1>1. TypeInv'
    BY NextTypeInv, RoomyIsNext DEF ListInv
<1>2. CASE UNCHANGED vars
    BY <1>1, <1>2 DEF vars, ListInv, AnswerHolds, HeapFailsOnlyWhenFull
<1>3. CASE RoomyNext
    <2>1. ListGuarantees'
        BY <1>3, SetupListInv, HeapCallsListInv, AllocateDescriptorListInv,
           FreeImageTailListInv, Zenon DEF RoomyNext, HeapCalls
    <2>2. QED
        BY <1>1, <2>1 DEF ListInv, ListGuarantees
<1>4. QED
    BY <1>2, <1>3

LEMMA AlwaysListInv == RoomySpec => []ListInv
BY InitListInv, NextListInv, PTL DEF RoomySpec

\* What the kernel is handed: no page of RAM is in two descriptors, however
\* the loader's requests, heap growths, splits and failures interleave.
THEOREM ListStaysDisjoint == RoomySpec => []DescriptorsDisjoint
<1>1. ListInv => DescriptorsDisjoint
    BY GoodIsDisjoint DEF ListInv, DescriptorsDisjoint
<1>2. QED
    BY <1>1, AlwaysListInv, PTL

\* An answer of ESUCCESS is true: the pages at *ActualBase are typed as asked,
\* in one descriptor, and no other descriptor has any of them.
THEOREM AnswersAreTrue == RoomySpec => []GrantedAsAsked
<1>1. ASSUME ListInv PROVE GrantedAsAsked
    <2> DEFINE s == mem.descs
    <2>1. GoodList(s)
        BY <1>1 DEF ListInv
    <2>2. ASSUME answer.op = "ESUCCESS", answer.type # "Free"
          PROVE  \E i \in DOMAIN s :
                    /\ s[i].type = answer.type
                    /\ s[i].base = answer.base
                    /\ s[i].count = answer.count
                    /\ \A j \in DOMAIN s \ {i} : Pages(s[i]) \cap Pages(s[j]) = {}
        <3>1. PICK k \in DOMAIN s : /\ s[k].type = answer.type
                                    /\ s[k].base = answer.base
                                    /\ s[k].count = answer.count
            BY <1>1, <2>2, Zenon DEF ListInv, AnswerHolds, Granted
        <3> HIDE DEF s
        <3>2. \A j \in DOMAIN s \ {k} : Pages(s[k]) \cap Pages(s[j]) = {}
            BY <2>1, GoodIsDisjoint
        <3>3. QED
            BY <3>1, <3>2
    <2>3. QED
        BY <2>2 DEF GrantedAsAsked
<1>2. QED
    BY <1>1, AlwaysListInv, PTL

\* The branch of BlAllocateHeap marked "we should never get here" is dead: a
\* caller that gets NULL met a list without a large enough free descriptor.
THEOREM HeapNeverGetsThere == RoomySpec => []HeapFailsOnlyWhenFull
<1>1. ListInv => HeapFailsOnlyWhenFull
    BY DEF ListInv
<1>2. QED
    BY <1>1, AlwaysListInv, PTL

-----------------------------------------------------------------------------
(***************************************************************************)
(* Pages and the bytes of the boot heap: no page is lost, pages change     *)
(* hands only as PageOwnership allows, and no two things that live in the  *)
(* heap share a byte.                                                      *)
(*                                                                         *)
(* The argument follows the order of the code: an insertion keeps every    *)
(* page with its owner, a resize lets some pages of one descriptor go, and *)
(* what was let go is found again in the descriptors that were inserted.   *)
(***************************************************************************)

Owns(s, p, type) == \E j \in DOMAIN s : s[j].type = type /\ p \in Pages(s[j])

Run(base, count) == base .. (base + count - 1)

\* The pages outside S stay with their owners.
Keeps(s, t, S) ==
    \A p, type : (Owns(s, p, type) /\ p \notin S) => Owns(t, p, type)

\* Every page of RAM is in the list.
FullList(s) == \A p \in 0 .. (RamTop - 1) : \E j \in DOMAIN s : p \in Pages(s[j])

-----------------------------------------------------------------------------
(* Insertions and resizes.                                                 *)

LEMMA KeepsTrans ==
    ASSUME NEW s, NEW t, NEW u, NEW S, NEW T, Keeps(s, t, S), Keeps(t, u, T)
    PROVE  Keeps(s, u, S \cup T)
BY DEF Keeps

LEMMA KeepsLess ==
    ASSUME NEW s, NEW t, NEW S, NEW T, Keeps(s, t, S), S \subseteq T
    PROVE  Keeps(s, t, T)
BY DEF Keeps

LEMMA GrantedOwns ==
    ASSUME NEW s, NEW type, NEW base, NEW count, Granted(s, type, base, count),
           NEW p \in Run(base, count)
    PROVE  Owns(s, p, type)
BY DEF Granted, Owns, Run, Pages

LEMMA AppendKeeps ==
    ASSUME NEW s \in Seq(Descriptors), NEW e \in Descriptors
    PROVE  LET t == Append(s, e)
           IN  /\ Keeps(s, t, {})
               /\ Granted(t, e.type, e.base, e.count)
               /\ \A type, base, count :
                     Granted(s, type, base, count) => Granted(t, type, base, count)
<1> DEFINE t == Append(s, e)
<1>1. /\ t \in Seq(Descriptors) /\ Len(t) = Len(s) + 1 /\ Len(s) \in Nat
      /\ \A j \in 1 .. Len(s) : t[j] = s[j]
      /\ t[Len(s) + 1] = e
    BY AppendProperties, LenProperties
<1>2. DOMAIN s = 1 .. Len(s) /\ DOMAIN t = 1 .. (Len(s) + 1)
    BY <1>1, LenProperties
<1> HIDE DEF t
<1>3. \A j \in DOMAIN s : j \in DOMAIN t /\ t[j] = s[j]
    BY <1>1, <1>2
<1>4. Keeps(s, t, {})
    BY <1>3 DEF Keeps, Owns
<1>5. Len(s) + 1 \in DOMAIN t
    BY <1>1, <1>2
<1>6. Granted(t, e.type, e.base, e.count)
    BY <1>1, <1>5 DEF Granted
<1>7. \A type, base, count :
         Granted(s, type, base, count) => Granted(t, type, base, count)
    BY <1>3 DEF Granted
<1>8. QED
    BY <1>4, <1>6, <1>7 DEF t

\* Pages of S may be let go, by an owner of the given type.
LetsGo(s, t, S, type) ==
    \A p, owner : Owns(s, p, owner) => Owns(t, p, owner) \/ (p \in S /\ owner = type)

LEMMA ExceptKeeps ==
    ASSUME NEW s \in Seq(Descriptors), NEW i \in DOMAIN s,
           NEW d \in Descriptors, d.type = s[i].type
    PROVE  LET t == [s EXCEPT ![i] = d]
           IN  /\ LetsGo(s, t, Pages(s[i]) \ Pages(d), s[i].type)
               /\ \A type, base, count :
                     (Granted(s, type, base, count) /\ type # s[i].type)
                         => Granted(t, type, base, count)
<1> DEFINE t == [s EXCEPT ![i] = d]
<1>1. DOMAIN t = DOMAIN s /\ t[i] = d /\ \A j \in DOMAIN s \ {i} : t[j] = s[j]
    OBVIOUS
<1> HIDE DEF t
<1>2. LetsGo(s, t, Pages(s[i]) \ Pages(d), s[i].type)
    <2> SUFFICES ASSUME NEW p, NEW type, NEW j \in DOMAIN s,
                        s[j].type = type, p \in Pages(s[j]),
                        ~(p \in Pages(s[i]) \ Pages(d) /\ type = s[i].type)
                 PROVE  \E k \in DOMAIN t : t[k].type = type /\ p \in Pages(t[k])
        BY DEF LetsGo, Owns
    <2>1. CASE j = i
        BY <1>1, <2>1
    <2>2. CASE j # i
        BY <1>1, <2>2
    <2>3. QED
        BY <2>1, <2>2
<1>3. \A type, base, count :
         (Granted(s, type, base, count) /\ type # s[i].type)
             => Granted(t, type, base, count)
    BY <1>1 DEF Granted
<1>4. QED
    BY <1>2, <1>3 DEF t

\* The heap's new pages leave the donor, a free descriptor.
HeapTakes(s, t, base, count) ==
    /\ base \in Nat /\ count \in Nat
    /\ Keeps(s, t, Run(base, count))
    /\ \A p \in Run(base, count) : Owns(s, p, "Free")
    /\ count > 0 => Granted(t, "OsloaderHeap", base, count)

LEMMA EndOfRun ==
    ASSUME NEW B \in Nat, NEW C \in Nat, NEW n \in Nat, n <= C
    PROVE  /\ Run(B, C) \ Run(B, C - n) \subseteq Run(B + (C - n), n)
           /\ Run(B + (C - n), n) \subseteq Run(B, C)
BY DEF Run

LEMMA GrownKeeps ==
    ASSUME NEW s, RamList(s), NEW donor \in DOMAIN s, NEW pages \in Nat,
           pages <= s[donor].count, s[donor].type = "Free", NEW at \in Nat
    PROVE  HeapTakes(s, GrownList(s, donor, pages, at),
                     s[donor].base + (s[donor].count - pages), pages)
<1> DEFINE left == s[donor].count - pages
           from == s[donor].base + left
           d == [s[donor] EXCEPT !.count = left]
           heap == [type |-> "OsloaderHeap", base |-> from, count |-> pages, at |-> at]
           r == [s EXCEPT ![donor] = d]
           t == Append(r, heap)
<1>1. /\ s \in Seq(Descriptors) /\ donor \in 1 .. Len(s)
      /\ s[donor] \in Descriptors /\ s[donor].base \in Nat /\ s[donor].count \in Nat
      /\ s[donor].base + s[donor].count <= RamTop
    BY ListFields DEF RamList, InRam
<1>2. left \in 0 .. RamTop /\ pages \in 0 .. RamTop /\ from \in 0 .. RamTop
    BY <1>1, SizesAssumption
<1>3. GrownList(s, donor, pages, at) = t
    BY DEF GrownList
<1>4. left \in ULongs /\ pages \in ULongs /\ from \in ULongs
    BY <1>2, RamIsULong
<1>5. Pages(s[donor]) \ Pages(d) \subseteq Run(from, pages)
      /\ Run(from, pages) \subseteq Pages(s[donor])
    <2>1. d.base = s[donor].base /\ d.count = left
        BY <1>1 DEF Descriptors
    <2> HIDE DEF d
    <2>2. /\ Pages(s[donor]) = Run(s[donor].base, s[donor].count)
          /\ Pages(d) = Run(s[donor].base, s[donor].count - pages)
        BY <2>1 DEF Pages, Run
    <2>3. /\ Run(s[donor].base, s[donor].count) \ Run(s[donor].base, s[donor].count - pages)
                \subseteq Run(s[donor].base + (s[donor].count - pages), pages)
          /\ Run(s[donor].base + (s[donor].count - pages), pages)
                \subseteq Run(s[donor].base, s[donor].count)
        BY <1>1, EndOfRun
    <2>4. QED
        BY <2>2, <2>3, Zenon
<1>6. d \in Descriptors /\ d.type = s[donor].type
    BY <1>1, <1>4 DEF Descriptors
<1>7. heap \in Descriptors /\ heap.type = "OsloaderHeap" /\ heap.base = from
      /\ heap.count = pages
    BY <1>4 DEF Descriptors, PageTypes
<1> HIDE DEF left, from, d, heap
<1>8. r \in Seq(Descriptors)
    BY <1>1, <1>6, ExceptSeq
<1>9. Keeps(s, r, Run(from, pages))
    BY <1>1, <1>5, <1>6, ExceptKeeps DEF LetsGo, Keeps
<1> HIDE DEF r
<1>10. Keeps(r, t, {}) /\ Granted(t, "OsloaderHeap", from, pages)
    BY <1>7, <1>8, AppendKeeps
<1> HIDE DEF t
<1>11. Keeps(s, t, Run(from, pages))
    BY <1>9, <1>10, KeepsTrans, KeepsLess
<1>12. \A p \in Run(from, pages) : Owns(s, p, "Free")
    BY <1>5 DEF Owns
<1>13. from \in Nat
    BY <1>2 DEF from
<1>14. HeapTakes(s, t, from, pages)
    BY <1>10, <1>11, <1>12, <1>13 DEF HeapTakes
<1>15. QED
    BY <1>3, <1>14 DEF from, left

LEMMA GrowArithmetic ==
    ASSUME NEW B \in Nat, NEW C \in Nat, NEW R \in Nat, B + C <= R, NEW n \in Nat, n <= C
    PROVE  /\ C - n \in 0 .. R /\ n \in 0 .. R /\ B + (C - n) \in 0 .. R
           /\ B + (C - n) + n <= R
OBVIOUS

LEMMA GrownRam ==
    ASSUME NEW s, RamList(s), NEW donor \in DOMAIN s, NEW pages \in Nat,
           pages <= s[donor].count, NEW at \in Nat
    PROVE  RamList(GrownList(s, donor, pages, at))
<1> DEFINE left == s[donor].count - pages
           from == s[donor].base + left
           d == [s[donor] EXCEPT !.count = left]
           heap == [type |-> "OsloaderHeap", base |-> from, count |-> pages, at |-> at]
           r == [s EXCEPT ![donor] = d]
           t == Append(r, heap)
<1>1. /\ s \in Seq(Descriptors) /\ donor \in 1 .. Len(s)
      /\ s[donor] \in Descriptors /\ s[donor].base \in Nat /\ s[donor].count \in Nat
      /\ s[donor].base + s[donor].count <= RamTop
    BY ListFields DEF RamList, InRam
<1>2. left \in 0 .. RamTop /\ pages \in 0 .. RamTop /\ from \in 0 .. RamTop
      /\ from + pages <= RamTop
    <2>1. RamTop \in Nat
        BY SizesAssumption
    <2>2. QED
        BY <1>1, <2>1, GrowArithmetic
<1>3. GrownList(s, donor, pages, at) = t
    BY DEF GrownList
<1>4. left \in ULongs /\ pages \in ULongs /\ from \in ULongs
    BY <1>2, RamIsULong
<1> HIDE DEF left, from
<1>5. d \in Descriptors /\ d.base = s[donor].base /\ d.count = left
    BY <1>1, <1>4 DEF Descriptors
<1>6. heap \in Descriptors /\ heap.base = from /\ heap.count = pages
    BY <1>4 DEF Descriptors, PageTypes
<1>7. InRam(d) /\ InRam(heap)
    BY <1>2, <1>5, <1>6 DEF InRam, from
<1> HIDE DEF d, heap
<1>8. /\ r \in Seq(Descriptors) /\ Len(r) = Len(s)
      /\ \A j \in 1 .. Len(s) : r[j] = IF j = donor THEN d ELSE s[j]
    BY <1>1, <1>5, ExceptSeq
<1> HIDE DEF r
<1>9. /\ t \in Seq(Descriptors) /\ Len(t) = Len(r) + 1
      /\ \A j \in 1 .. Len(r) : t[j] = r[j]
      /\ t[Len(r) + 1] = heap
    BY <1>6, <1>8, AppendProperties
<1> HIDE DEF t
<1>10. DOMAIN t = 1 .. (Len(s) + 1) /\ DOMAIN s = 1 .. Len(s) /\ Len(s) \in Nat
    BY <1>1, <1>8, <1>9, LenProperties
<1>11. ASSUME NEW j \in DOMAIN t PROVE InRam(t[j])
    <2>1. CASE j = Len(s) + 1
        BY <1>7, <1>8, <1>9, <2>1
    <2>2. CASE j \in 1 .. Len(s)
        <3>1. t[j] = IF j = donor THEN d ELSE s[j]
            BY <1>8, <1>9, <2>2
        <3>2. QED
            BY <1>7, <1>10, <2>2, <3>1 DEF RamList
    <2>3. QED
        BY <1>10, <2>1, <2>2
<1>12. QED
    BY <1>3, <1>9, <1>11 DEF RamList

LEMMA TakesNothing ==
    ASSUME NEW s
    PROVE  HeapTakes(s, s, 0, 0)
<1>1. Run(0, 0) = {}
    BY DEF Run
<1>2. QED
    BY <1>1 DEF HeapTakes, Keeps

\* What a call of the heap does to the pages.
LEMMA HeapPagesTaken ==
    ASSUME NEW m \in Memories, RamList(m.descs), NEW bytes \in Nat,
           NEW heap, heap = BlAllocateHeap(m, bytes)
    PROVE  \E base, count : /\ HeapTakes(m.descs, heap.mem.descs, base, count)
                            /\ m.free + Round(bytes) <= m.limit => count = 0
<1> DEFINE pages == NewHeapPages(Round(bytes))
           donor == First(HeapDonors(m, pages))
           s == m.descs
<1>1. pages \in Nat /\ m.limit \in Nat
    BY RoundBounds, NewHeapPagesBounds DEF Memories
<1> HIDE DEF pages
<1>2. \/ heap.mem.descs = s
      \/ /\ donor \in HeapDonors(m, pages)
         /\ ~(m.free + Round(bytes) <= m.limit)
         /\ heap.mem.descs = GrownList(s, donor, pages, m.limit)
    BY HeapStep DEF pages, donor
<1> HIDE DEF donor
<1>3. CASE heap.mem.descs = s
    BY <1>3, TakesNothing
<1>4. CASE /\ donor \in HeapDonors(m, pages)
           /\ ~(m.free + Round(bytes) <= m.limit)
           /\ heap.mem.descs = GrownList(s, donor, pages, m.limit)
    <2>1. donor \in DOMAIN s /\ s[donor].count >= pages /\ s[donor].type = "Free"
        BY <1>4 DEF HeapDonors
    <2>2. s[donor].count \in Nat
        BY <2>1, ListFields DEF RamList
    <2>3. pages <= s[donor].count
        BY <1>1, <2>1, <2>2
    <2> HIDE DEF s
    <2>4. RamList(s)
        BY DEF s
    <2>5. HeapTakes(s, GrownList(s, donor, pages, m.limit),
                    s[donor].base + (s[donor].count - pages), pages)
        BY <1>1, <2>1, <2>3, <2>4, GrownKeeps
    <2>6. QED
        BY <1>4, <2>5 DEF s
<1>5. QED
    BY <1>2, <1>3, <1>4

-----------------------------------------------------------------------------
(* Splitting one descriptor in three.                                      *)

LEMMA AppendOwns ==
    ASSUME NEW s \in Seq(Descriptors), NEW e \in Descriptors, NEW p, NEW type,
           Owns(Append(s, e), p, type), type # e.type
    PROVE  Owns(s, p, type)
<1> DEFINE t == Append(s, e)
<1>1. /\ Len(t) = Len(s) + 1 /\ Len(s) \in Nat /\ t \in Seq(Descriptors)
      /\ \A j \in 1 .. Len(s) : t[j] = s[j]
      /\ t[Len(s) + 1] = e
    BY AppendProperties, LenProperties
<1>2. DOMAIN s = 1 .. Len(s) /\ DOMAIN t = 1 .. (Len(s) + 1)
    BY <1>1, LenProperties
<1> HIDE DEF t
<1>3. PICK j \in DOMAIN t : t[j].type = type /\ p \in Pages(t[j])
    BY DEF Owns, t
<1>4. j # Len(s) + 1
    BY <1>1, <1>3
<1>5. j \in DOMAIN s /\ t[j] = s[j]
    BY <1>1, <1>2, <1>4
<1>6. QED
    BY <1>3, <1>5 DEF Owns

\* Growth keeps a list inside RAM, also one that is being split.
LEMMA HeapRam ==
    ASSUME NEW m \in Memories, RamList(m.descs), NEW bytes \in Nat
    PROVE  RamList(BlAllocateHeap(m, bytes).mem.descs)
<1> DEFINE heap == BlAllocateHeap(m, bytes)
           pages == NewHeapPages(Round(bytes))
           donor == First(HeapDonors(m, pages))
           s == m.descs
<1>1. pages \in Nat /\ m.limit \in Nat
    BY RoundBounds, NewHeapPagesBounds DEF Memories
<1> HIDE DEF pages
<1>2. \/ heap.mem.descs = s
      \/ /\ donor \in HeapDonors(m, pages)
         /\ heap.mem.descs = GrownList(s, donor, pages, m.limit)
    BY HeapStep DEF pages, donor
<1> HIDE DEF donor, heap
<1>3. CASE heap.mem.descs = s
    BY <1>3 DEF heap
<1>4. CASE /\ donor \in HeapDonors(m, pages)
           /\ heap.mem.descs = GrownList(s, donor, pages, m.limit)
    <2>1. donor \in DOMAIN s /\ s[donor].count >= pages
        BY <1>4 DEF HeapDonors
    <2>2. s[donor].count \in Nat
        BY <2>1, ListFields DEF RamList
    <2>3. pages <= s[donor].count
        BY <1>1, <2>1, <2>2
    <2>4. QED
        BY <1>1, <1>4, <2>1, <2>3, GrownRam DEF heap
<1>5. QED
    BY <1>2, <1>3, <1>4

\* The pages lie in the middle of the free descriptor i, there will be memory for
\* the tail, and their own descriptor, e, was inserted.
MiddleOf(m, i, type, base, count, offset, e, added) ==
    /\ m \in Memories /\ GoodList(m.descs) /\ i \in DOMAIN m.descs
    /\ type \in PageTypes /\ base \in ULongs /\ count \in ULongs /\ offset \in ULongs
    /\ Covers(m.descs[i], base, count, offset)
    /\ type # "Free" /\ m.descs[i].type = "Free"
    /\ TailRoom(m, i, type, offset, count)
    /\ e \in Descriptors /\ e.type = type /\ e.base = base /\ e.count = count
    /\ added \in Memories /\ added.descs = Append(m.descs, e)
    /\ added.free = m.free /\ added.limit = m.limit

\* The free descriptor i still holds the pages asked for, and there is memory
\* for the tail, when SplitMiddle writes to it.
LEMMA TailArithmetic ==
    ASSUME NEW B \in Nat, NEW C \in Nat, NEW o \in Nat, NEW c \in Nat, NEW R \in Nat,
           NEW b, b = B + o, o + c <= C, B + C <= R
    PROVE  b + c \in 0 .. R /\ C - (c + o) \in 0 .. R
OBVIOUS

LEMMA ShrinkArithmetic ==
    ASSUME NEW B \in Nat, NEW C \in Nat, NEW o \in Nat, NEW c \in Nat, NEW n \in Nat,
           NEW b, b = B + o, o + c + n <= C, NEW K, K = C \/ K = C - n
    PROVE  K \in Int /\ o + c <= K /\ b = B + o /\ b + c <= B + K /\ C >= n
OBVIOUS

LEMMA SplitRoom ==
    ASSUME NEW m, NEW i, NEW type, NEW base, NEW count, NEW offset, NEW e, NEW added,
           MiddleOf(m, i, type, base, count, offset, e, added)
    PROVE  LET heap == BlAllocateHeap(added, DescBytes)
           IN
           /\ RamList(added.descs) /\ i \in DOMAIN added.descs /\ added.descs[i] = m.descs[i]
           /\ heap.ok
           /\ i \in DOMAIN heap.mem.descs /\ heap.mem.descs[i].type = "Free"
           /\ Covers(heap.mem.descs[i], base, count, offset)
<1> DEFINE s == m.descs
           a == added.descs
           heap == BlAllocateHeap(added, DescBytes)
           n == Len(s)
           u == heap.mem.descs
           pages == NewHeapPages(Round(DescBytes))
           donor == First(HeapDonors(added, pages))
           full == ~(m.free + Round(DescBytes) <= m.limit)
<1>0. /\ m \in Memories /\ GoodList(m.descs) /\ i \in DOMAIN m.descs
      /\ type \in PageTypes /\ base \in ULongs /\ count \in ULongs /\ offset \in ULongs
      /\ Covers(m.descs[i], base, count, offset)
      /\ type # "Free" /\ m.descs[i].type = "Free"
      /\ TailRoom(m, i, type, offset, count)
      /\ e \in Descriptors /\ e.type = type /\ e.base = base /\ e.count = count
      /\ added \in Memories /\ added.descs = Append(m.descs, e)
      /\ added.free = m.free /\ added.limit = m.limit
    BY DEF MiddleOf
<1> USE <1>0
<1>1. /\ s \in Seq(Descriptors) /\ n \in Nat /\ i \in 1 .. n /\ DOMAIN s = 1 .. n
      /\ s[i].base \in Nat /\ s[i].count \in Nat /\ InRam(s[i]) /\ RamList(s)
    BY ListFields, LenProperties DEF GoodList, RamList
<1>2. /\ a \in Seq(Descriptors) /\ Len(a) = n + 1 /\ a[n + 1] = e
      /\ \A j \in 1 .. n : a[j] = s[j]
    BY <1>1, AppendProperties
<1>3. DOMAIN a = 1 .. (n + 1)
    BY <1>2, LenProperties
<1>4. pages \in Nat /\ Round(DescBytes) \in Nat /\ m.limit \in Nat /\ DescBytes \in Nat
    BY RoundBounds, NewHeapPagesBounds, SizesAssumption DEF Memories
<1>5. base \in Nat /\ count \in Nat /\ offset \in Nat /\ RamTop \in Nat
    BY ULongsAreNaturals, SizesAssumption
<1>6. base = s[i].base + offset /\ base + count <= s[i].base + s[i].count
    BY DEF Covers
<1> HIDE DEF pages, a, n, s
<1>7. RamList(a)
    <2>1. InRam(e)
        BY <1>1, <1>5, <1>6, SMTT(40) DEF InRam
    <2>2. ASSUME NEW j \in DOMAIN a PROVE InRam(a[j])
        <3>1. CASE j = n + 1
            BY <1>2, <2>1, <3>1
        <3>2. CASE j \in 1 .. n
            BY <1>1, <1>2, <3>2 DEF RamList
        <3>3. QED
            BY <1>1, <1>3, <3>1, <3>2
    <2>3. QED
        BY <1>2, <2>2 DEF RamList
<1>8. i \in DOMAIN a /\ a[i] = s[i]
    BY <1>1, <1>2, <1>3
<1>9. \/ ~full /\ heap.ok /\ u = a
      \/ full /\ HeapDonors(added, pages) = {}
      \/ /\ full /\ donor \in HeapDonors(added, pages) /\ heap.ok
         /\ u = GrownList(a, donor, pages, m.limit)
    <2>1. RamList(added.descs) /\ DescBytes \in Nat
        BY <1>4, <1>7 DEF a
    <2>2. LET room == ~(added.free + Round(DescBytes) <= added.limit)
          IN  \/ ~room /\ heap.ok /\ heap.mem.descs = added.descs
              \/ room /\ HeapDonors(added, pages) = {}
              \/ /\ room /\ donor \in HeapDonors(added, pages) /\ heap.ok
                 /\ heap.mem.descs = GrownList(added.descs, donor, pages, added.limit)
        BY <2>1, HeapOutcome, Zenon DEF pages
    <2> HIDE DEF donor
    <2>3. QED
        BY <2>2 DEF a
<1> HIDE DEF donor, u, heap
<1>10. CASE ~full /\ heap.ok /\ u = a
    <2>1. i \in DOMAIN u /\ u[i].type = "Free" /\ Covers(u[i], base, count, offset)
        BY <1>8, <1>10 DEF s
    <2>2. QED
        BY <1>7, <1>8, <1>10, <2>1 DEF u, a, s, heap
<1>11. CASE full
    <2>1. offset + count + pages <= s[i].count
        BY <1>11 DEF TailRoom, pages, s
    <2>2. i \in HeapDonors(added, pages)
        <3>1. a[i].type = "Free" /\ a[i].count >= pages
            <4>1. a[i].type = "Free" /\ a[i].count = s[i].count
                BY <1>8 DEF s
            <4>2. s[i].count >= pages
                BY ONLY <1>1, <1>4, <1>5, <2>1, SMTT(20)
            <4>3. QED
                BY <4>1, <4>2
        <3>2. QED
            BY <1>8, <3>1 DEF HeapDonors, a
    <2>3. donor \in HeapDonors(added, pages) /\ heap.ok /\ u = GrownList(a, donor, pages, m.limit)
        BY <1>9, <1>11, <2>2
    <2>4. donor \in DOMAIN a /\ a[donor].count >= pages
        BY <2>3 DEF HeapDonors, a
    <2>5. a[donor].count \in Nat
        BY <1>2, <2>4, ListFields
    <2>6. pages <= a[donor].count
        BY <1>4, <2>4, <2>5
    <2>7. /\ i \in DOMAIN u /\ u[i].type = a[i].type /\ u[i].base = a[i].base
          /\ u[i].count = IF i = donor THEN a[donor].count - pages ELSE a[i].count
        <3> DEFINE w == GrownList(a, donor, pages, m.limit)
        <3>1. /\ i \in DOMAIN w /\ w[i].type = a[i].type /\ w[i].base = a[i].base
              /\ w[i].count = IF i = donor THEN a[i].count - pages ELSE a[i].count
            BY <1>4, <1>7, <1>8, <2>4, <2>6, GrownFields
        <3> HIDE DEF w
        <3>2. QED
            BY <2>3, <3>1 DEF w
    <2>8. u[i].type = "Free" /\ u[i].base = s[i].base
        BY <1>8, <2>7 DEF s
    <2>9. u[i].count = s[i].count \/ u[i].count = s[i].count - pages
        BY <1>8, <2>7
    <2>10. /\ offset + count <= u[i].count /\ base = u[i].base + offset
           /\ base + count <= u[i].base + u[i].count
        <3> DEFINE B == s[i].base
                   C == s[i].count
                   K == u[i].count
        <3>1. /\ B \in Nat /\ C \in Nat /\ base = B + offset /\ offset + count + pages <= C
              /\ K = C \/ K = C - pages
            BY <1>1, <1>6, <2>1, <2>9
        <3> HIDE DEF B, C, K
        <3>2. offset + count <= K /\ base = B + offset /\ base + count <= B + K
            BY <1>4, <1>5, <3>1, ShrinkArithmetic
        <3>3. QED
            BY <2>8, <3>2 DEF B, K
    <2>11. Covers(u[i], base, count, offset)
        BY <2>10 DEF Covers
    <2>12. heap.ok /\ i \in DOMAIN u /\ u[i].type = "Free"
        BY <2>3, <2>7, <2>8
    <2>13. QED
        BY <1>7, <1>8, <2>11, <2>12 DEF u, a, s, heap
<1>12. QED
    BY <1>9, <1>10, <1>11

\* What one call does to the pages, beside what it grants: unless there was
\* room for what it asked of the heap, the heap may have taken a run of free
\* pages.
PagesMoved(s, t, base, count, room) ==
    \E hb, hn \in Nat :
        /\ Keeps(s, t, Run(base, count) \cup Run(hb, hn))
        /\ \A p \in Run(hb, hn) : Owns(s, p, "Free") /\ Owns(t, p, "OsloaderHeap")
        /\ room => hn = 0

HasRoom(m) == m.free + Round(DescBytes) <= m.limit

LEMMA TailPages ==
    ASSUME NEW B \in Nat, NEW C \in Nat, NEW o \in Nat, NEW c \in Nat, o + c <= C
    PROVE  Run(B, C) \ Run(B, o) \subseteq Run(B + o, c) \cup Run((B + o) + c, C - (c + o))
BY DEF Run

LEMMA SplitMiddleMoves ==
    ASSUME NEW m, NEW i, NEW type, NEW base, NEW count, NEW offset, NEW e, NEW added,
           MiddleOf(m, i, type, base, count, offset, e, added)
    PROVE  PagesMoved(m.descs, SplitMiddle(added, i, base, count, offset).mem.descs,
                      base, count, HasRoom(m))
<1> DEFINE s == m.descs
           a == added.descs
           heap == BlAllocateHeap(added, DescBytes)
           u == heap.mem.descs
           tail == TailOf(u, heap.block, i, base, count, offset)
           w == Append(u, tail)
           head == [w[i] EXCEPT !.base = w[i].base, !.count = offset]
           t == [w EXCEPT ![i] = head]
<1>1. /\ RamList(a) /\ i \in DOMAIN a /\ a[i] = s[i] /\ heap.ok
      /\ i \in DOMAIN u /\ u[i].type = "Free" /\ Covers(u[i], base, count, offset)
    <2>1. /\ RamList(added.descs) /\ i \in DOMAIN added.descs /\ added.descs[i] = m.descs[i]
          /\ heap.ok
          /\ i \in DOMAIN heap.mem.descs /\ heap.mem.descs[i].type = "Free"
          /\ Covers(heap.mem.descs[i], base, count, offset)
        BY SplitRoom, Zenon
    <2>2. QED
        BY <2>1
<1>0. /\ m \in Memories /\ GoodList(m.descs) /\ i \in DOMAIN m.descs
      /\ type \in PageTypes /\ base \in ULongs /\ count \in ULongs /\ offset \in ULongs
      /\ Covers(m.descs[i], base, count, offset)
      /\ type # "Free" /\ m.descs[i].type = "Free"
      /\ TailRoom(m, i, type, offset, count)
      /\ e \in Descriptors /\ e.type = type /\ e.base = base /\ e.count = count
      /\ added \in Memories /\ added.descs = Append(m.descs, e)
      /\ added.free = m.free /\ added.limit = m.limit
    BY DEF MiddleOf
<1> USE <1>0
<1>2. heap.block \in Nat /\ heap.mem \in Memories /\ DescBytes \in Nat
    BY AllocateHeapType, SizesAssumption
<1>3. PICK hb, hn : HeapTakes(a, u, hb, hn) /\ (HasRoom(added) => hn = 0)
    BY <1>1, <1>2, HeapPagesTaken DEF HasRoom
<1>4. SplitMiddle(added, i, base, count, offset).mem.descs = t
    <2>1. SplitMiddle(added, i, base, count, offset).mem.descs
            = SplitDescs(heap.mem.descs, heap.block, i, base, count, offset)
        BY <1>1, SplitMiddleShape
    <2>2. SplitDescs(heap.mem.descs, heap.block, i, base, count, offset) = t
        BY Zenon DEF SplitDescs
    <2>3. QED
        BY <2>1, <2>2
<1>5. /\ s \in Seq(Descriptors) /\ a = Append(s, e)
    BY DEF Memories
<1>6. /\ u \in Seq(Descriptors) /\ i \in 1 .. Len(u) /\ Len(u) \in Nat /\ u[i] \in Descriptors
      /\ u[i].base \in Nat /\ u[i].count \in Nat /\ u[i].count \in ULongs
    BY <1>1, <1>2, ListFields DEF Memories
<1> HIDE DEF u, a
<1>7. base \in Nat /\ count \in Nat /\ offset \in Nat
    BY ULongsAreNaturals
<1>8. base = u[i].base + offset /\ offset + count <= u[i].count
    <2>1. base = u[i].base + offset /\ base + count <= u[i].base + u[i].count
        BY <1>1 DEF Covers
    <2>2. QED
        BY <1>6, <1>7, <2>1
<1>9. u[i].base + u[i].count <= RamTop
    <2>1. RamList(u)
        BY <1>1, <1>2, HeapRam DEF u, a
    <2>2. QED
        BY <1>1, <2>1 DEF RamList, InRam
<1>10. /\ Wrap(base + count) = base + count /\ base + count \in ULongs
       /\ Wrap(u[i].count - (count + offset)) = u[i].count - (count + offset)
       /\ u[i].count - (count + offset) \in ULongs
    <2>1. base + count \in 0 .. RamTop /\ u[i].count - (count + offset) \in 0 .. RamTop
        <3>1. RamTop \in Nat /\ base = u[i].base + offset
            BY <1>8, SizesAssumption
        <3>2. QED
            BY <1>6, <1>7, <1>8, <1>9, <3>1, TailArithmetic
    <2>2. QED
        BY <2>1, RamIsULong, WrapOfULong
<1>11. tail \in Descriptors /\ tail.type = "Free" /\ tail.base = base + count
       /\ tail.count = u[i].count - (count + offset)
    BY <1>2, <1>10 DEF TailOf, Descriptors, PageTypes, FirmwareTypes
<1> HIDE DEF tail
<1>12. /\ w \in Seq(Descriptors) /\ Len(w) = Len(u) + 1 /\ w[i] = u[i]
       /\ w[Len(u) + 1] = tail
    BY <1>6, <1>11, AppendProperties
<1>13. /\ Keeps(u, w, {})
       /\ \A ty, b, c : Granted(u, ty, b, c) => Granted(w, ty, b, c)
    BY <1>6, <1>11, AppendKeeps
<1> HIDE DEF w
<1>14. head \in Descriptors /\ head.type = w[i].type /\ head.base = u[i].base
       /\ head.count = offset
    BY <1>6, <1>12 DEF Descriptors
<1>15. i \in DOMAIN w /\ Len(u) + 1 \in DOMAIN w /\ Len(u) + 1 # i
    BY <1>6, <1>12, LenProperties
<1> HIDE DEF head
<1>16. /\ LetsGo(w, t, Pages(w[i]) \ Pages(head), "Free")
       /\ \A ty, b, c : (Granted(w, ty, b, c) /\ ty # "Free") => Granted(t, ty, b, c)
    BY <1>1, <1>12, <1>14, <1>15, ExceptKeeps
<1>17. Pages(w[i]) \ Pages(head) \subseteq Run(base, count) \cup Pages(tail)
    <2>1. /\ Pages(w[i]) = Run(u[i].base, u[i].count) /\ Pages(head) = Run(u[i].base, offset)
          /\ Pages(tail) = Run((u[i].base + offset) + count, u[i].count - (count + offset))
          /\ Run(base, count) = Run(u[i].base + offset, count)
        BY <1>8, <1>11, <1>12, <1>14 DEF Pages, Run
    <2>2. Run(u[i].base, u[i].count) \ Run(u[i].base, offset)
            \subseteq Run(u[i].base + offset, count)
                \cup Run((u[i].base + offset) + count, u[i].count - (count + offset))
        BY <1>6, <1>7, <1>8, TailPages
    <2>3. QED
        BY <2>1, <2>2
<1>18. \A p \in Pages(tail) : Owns(t, p, "Free")
    <2>1. Len(u) + 1 \in DOMAIN t /\ t[Len(u) + 1] = tail
        BY <1>12, <1>15
    <2>2. QED
        BY <1>11, <2>1 DEF Owns
<1> HIDE DEF t
<1>19. Keeps(a, u, Run(hb, hn)) /\ Keeps(s, a, {})
       /\ \A p \in Run(hb, hn) : Owns(a, p, "Free")
    BY <1>3, <1>5, AppendKeeps DEF HeapTakes
<1>20. Keeps(s, t, Run(base, count) \cup Run(hb, hn))
    <2> SUFFICES ASSUME NEW p, NEW ty, Owns(s, p, ty),
                        p \notin Run(base, count), p \notin Run(hb, hn)
                 PROVE  Owns(t, p, ty)
        BY DEF Keeps
    <2>1. Owns(w, p, ty)
        BY <1>13, <1>19 DEF Keeps
    <2>2. Owns(t, p, ty) \/ (p \in Pages(tail) /\ ty = "Free")
        BY <1>16, <1>17, <2>1 DEF LetsGo
    <2>3. QED
        BY <1>18, <2>2
<1>21. \A p \in Run(hb, hn) : Owns(s, p, "Free")
    BY <1>5, <1>19, AppendOwns
<1>22. hb \in Nat /\ hn \in Nat /\ (hn > 0 => Granted(t, "OsloaderHeap", hb, hn))
    BY <1>3, <1>13, <1>16 DEF HeapTakes
<1>25. \A p \in Run(hb, hn) : Owns(t, p, "OsloaderHeap")
    <2>1. Run(hb, hn) # {} => hn > 0
        BY <1>22 DEF Run
    <2>2. QED
        BY <1>22, <2>1, GrantedOwns
<1>26. HasRoom(m) => hn = 0
    BY <1>3 DEF HasRoom
<1>23. PagesMoved(s, t, base, count, HasRoom(m))
    BY <1>20, <1>21, <1>22, <1>25, <1>26 DEF PagesMoved
<1>24. QED
    BY <1>4, <1>23

-----------------------------------------------------------------------------
(* BlGenerateDescriptor.                                                   *)

\* The pages asked for leave one end of descriptor i.
LEMMA CarveMoves ==
    ASSUME NEW m \in Memories, NEW i \in DOMAIN m.descs,
           NEW e \in Descriptors,
           NEW added \in Memories, added.descs = Append(m.descs, e),
           NEW base \in ULongs, NEW count \in ULongs, NEW room,
           Pages(m.descs[i]) \ Run(base, count) \subseteq Run(e.base, e.count)
    PROVE  PagesMoved(m.descs, Resize(added, i, base, count).descs, e.base, e.count, room)
<1> DEFINE s == m.descs
           n == Len(s)
           a == Append(s, e)
           d == Resized(a[i], base, count)
           t == [a EXCEPT ![i] = d]
<1>1. /\ s \in Seq(Descriptors) /\ n \in Nat /\ i \in 1 .. n /\ s[i] \in Descriptors
    BY ListFields DEF Memories
<1>2. a \in Seq(Descriptors) /\ a[i] = s[i] /\ Len(a) = n + 1
    BY <1>1, AppendProperties
<1>3. Resize(added, i, base, count).descs = t
    <2>1. Resize(added, i, base, count).descs = ResizedList(added.descs, i, base, count)
        BY ResizeShape, ZenonT(30)
    <2>2. added.descs = a
        OBVIOUS
    <2> HIDE DEF a
    <2>3. QED
        BY <2>1, <2>2 DEF ResizedList
<1>4. Keeps(s, a, {})
    BY <1>1, AppendKeeps
<1> HIDE DEF a
<1>5. d \in Descriptors /\ d.base = base /\ d.count = count /\ d.type = a[i].type
    <2>1. d.type = a[i].type
        BY <1>1, <1>2 DEF Resized, Descriptors
    <2>2. QED
        BY <1>1, <1>2, <2>1, ResizedFields, SMTT(40)
<1> HIDE DEF d
<1>6. i \in DOMAIN a
    BY <1>1, <1>2, LenProperties
<1>7. LetsGo(a, t, Pages(a[i]) \ Pages(d), a[i].type)
    BY <1>2, <1>5, <1>6, ExceptKeeps
<1>8. Pages(d) = Run(base, count)
    BY <1>5 DEF Pages, Run
<1> HIDE DEF t
<1>9. Keeps(s, t, Run(e.base, e.count) \cup Run(0, 0))
    BY <1>2, <1>4, <1>7, <1>8 DEF LetsGo, Keeps
<1>10. Run(0, 0) = {}
    BY DEF Run
<1>11. PagesMoved(s, t, e.base, e.count, room)
    <2>1. 0 \in Nat /\ ~(0 > 0)
        OBVIOUS
    <2>2. QED
        BY <1>9, <1>10, <2>1 DEF PagesMoved
<1>12. QED
    BY <1>3, <1>11

LEMMA RestMoves ==
    ASSUME NEW m \in Memories, GoodList(m.descs), NEW i \in DOMAIN m.descs,
           NEW type \in PageTypes, NEW base \in ULongs, NEW count \in ULongs,
           NEW offset \in ULongs, NEW block \in Nat,
           Covers(m.descs[i], base, count, offset),
           \/ base + count = m.descs[i].base + m.descs[i].count
           \/ /\ TailRoom(m, i, type, offset, count)
              /\ type # "Free" /\ m.descs[i].type = "Free"
    PROVE  PagesMoved(m.descs, Rest(m, i, type, base, count, offset, block).mem.descs,
                      base, count, HasRoom(m))
<1> DEFINE s == m.descs
           e == [type |-> type, base |-> base, count |-> count, at |-> block]
           added == AddDescriptor(m, type, base, count, block)
           d == added.descs[i]
           front == Resize(added, i, Wrap(d.base + count), Wrap(d.count - count))
           back == Resize(added, i, d.base, Wrap(d.count - count))
           middle == SplitMiddle(added, i, base, count, offset)
           list == Rest(m, i, type, base, count, offset, block).mem.descs
           B == s[i].base
           C == s[i].count
<1>1. /\ s \in Seq(Descriptors) /\ i \in 1 .. Len(s) /\ Len(s) \in Nat
      /\ s[i].base \in Nat /\ s[i].count \in Nat /\ s[i].count \in ULongs
      /\ s[i].base \in ULongs /\ InRam(s[i])
    BY ListFields DEF GoodList, RamList
<1>2. e \in Descriptors /\ e.type = type /\ e.base = base /\ e.count = count
    BY DEF Descriptors
<1>3. added = [descs |-> Append(s, e), free |-> m.free, limit |-> m.limit]
    BY AddDescriptorShape
<1>4. added \in Memories
    BY AddDescriptorType
<1> HIDE DEF e, added
<1>5. added.descs = Append(s, e) /\ added.free = m.free /\ added.limit = m.limit
    BY <1>3
<1>6. d = s[i]
    BY <1>1, <1>2, <1>5, AppendProperties
<1>7. base \in Nat /\ count \in Nat /\ offset \in Nat /\ RamTop \in Nat
    BY ULongsAreNaturals, SizesAssumption
<1>8. /\ B \in Nat /\ C \in Nat
      /\ base = B + offset /\ base + count <= B + C /\ B + C <= RamTop
    BY <1>1 DEF Covers, InRam
<1> HIDE DEF B, C
<1>9. /\ offset + count \in 0 .. RamTop /\ C - count \in 0 .. RamTop
      /\ B + count \in 0 .. RamTop
      /\ offset + count = C <=> base + count = B + C
    BY <1>7, <1>8, CoverArithmetic, SMTT(40)
<1>10. /\ Wrap(offset + count) = offset + count
       /\ Wrap(C - count) = C - count /\ C - count \in ULongs
       /\ Wrap(B + count) = B + count /\ B + count \in ULongs
    BY <1>9, RamIsULong, WrapOfULong
<1>11. Rest(m, i, type, base, count, offset, block)
         = IF base = d.base THEN [status |-> "ESUCCESS", mem |-> front]
           ELSE IF Wrap(offset + count) = d.count THEN [status |-> "ESUCCESS", mem |-> back]
           ELSE middle
    BY Zenon DEF Rest, added
<1> HIDE DEF d
<1>12. Pages(s[i]) = Run(B, C)
    BY DEF Pages, Run, B, C
<1>13. CASE base = d.base
    <2>1. front = Resize(added, i, B + count, C - count)
        BY <1>6, <1>10 DEF B, C
    <2>2. base = B
        BY <1>6, <1>13 DEF B
    <2>3. Run(B, C) \ Run(B + count, C - count) \subseteq Run(B, count)
        BY <1>7, <1>8 DEF Run
    <2>4. Pages(s[i]) \ Run(B + count, C - count) \subseteq Run(e.base, e.count)
        BY <1>2, <1>12, <2>2, <2>3
    <2>5. PagesMoved(s, Resize(added, i, B + count, C - count).descs, e.base, e.count, HasRoom(m))
        BY <1>2, <1>4, <1>5, <1>10, <2>4, CarveMoves
    <2> HIDE DEF front
    <2>6. list = front.descs
        BY <1>11, <1>13
    <2>7. QED
        BY <1>2, <2>1, <2>5, <2>6 DEF list
<1>14. CASE base # d.base /\ offset + count = d.count
    <2>1. back = Resize(added, i, B, C - count)
        BY <1>6, <1>10 DEF B, C
    <2>2. offset + count = C
        BY <1>6, <1>14 DEF C
    <2>3. Run(B, C) \ Run(B, C - count) \subseteq Run(B + offset, count)
        BY <1>7, <1>8, <2>2 DEF Run
    <2>4. Pages(s[i]) \ Run(B, C - count) \subseteq Run(e.base, e.count)
        BY <1>2, <1>8, <1>12, <2>3
    <2>8. B \in ULongs
        BY <1>1 DEF B
    <2>5. PagesMoved(s, Resize(added, i, B, C - count).descs, e.base, e.count, HasRoom(m))
        BY <1>2, <1>4, <1>5, <1>10, <2>4, <2>8, CarveMoves
    <2> HIDE DEF back
    <2>6. list = back.descs
        BY <1>10, <1>11, <1>14
    <2>7. QED
        BY <1>2, <2>1, <2>5, <2>6 DEF list
<1>15. CASE base # d.base /\ offset + count # d.count
    <2>1. list = middle.mem.descs
        BY <1>10, <1>11, <1>15
    <2>2. base + count # B + C
        BY <1>6, <1>9, <1>15 DEF C
    <2>3. TailRoom(m, i, type, offset, count) /\ type # "Free" /\ m.descs[i].type = "Free"
        BY <2>2 DEF B, C
    <2>4. MiddleOf(m, i, type, base, count, offset, e, added)
        BY <1>2, <1>4, <1>5, <2>3, Zenon DEF MiddleOf
    <2> HIDE DEF middle
    <2>5. PagesMoved(m.descs, middle.mem.descs, base, count, HasRoom(m))
        BY <2>4, SplitMiddleMoves DEF middle
    <2>6. QED
        BY <2>1, <2>5
<1>16. QED
    BY <1>13, <1>14, <1>15

\* The first of the two descriptors leaves the one being split what it is.
LEMMA FirstKeepsType ==
    ASSUME NEW m \in Memories, GoodList(m.descs), NEW i \in DOMAIN m.descs,
           NEW heap, heap = BlAllocateHeap(m, DescBytes)
    PROVE  /\ i \in DOMAIN heap.mem.descs
           /\ heap.mem.descs[i].type = m.descs[i].type
           /\ heap.mem.descs[i].base = m.descs[i].base
           /\ m.descs[i].type # "Free" => heap.mem.descs[i].count = m.descs[i].count
           /\ heap.mem.descs = m.descs \/ HasRoom(heap.mem)
<1> DEFINE s == m.descs
           pages == NewHeapPages(Round(DescBytes))
           donor == First(HeapDonors(m, pages))
<1>1. s \in Seq(Descriptors) /\ RamList(s)
    BY DEF GoodList, RamList
<1>2. /\ pages \in Nat /\ Round(DescBytes) \in Nat /\ DescBytes \in Nat /\ m.limit \in Nat
    BY RoundBounds, NewHeapPagesBounds, SizesAssumption DEF Memories
<1>3. heap.mem \in Memories
    BY <1>2, AllocateHeapType
<1>4. \/ heap.mem.descs = s
      \/ /\ donor \in HeapDonors(m, pages)
         /\ heap.mem.descs = GrownList(s, donor, pages, m.limit)
         /\ heap.mem.free + 2 * Round(DescBytes) <= heap.mem.limit + Round(DescBytes)
    BY <1>1, <1>2, HeapStep
<1> HIDE DEF pages, donor
<1>5. CASE heap.mem.descs = s
    BY <1>5
<1>6. CASE /\ donor \in HeapDonors(m, pages)
           /\ heap.mem.descs = GrownList(s, donor, pages, m.limit)
           /\ heap.mem.free + 2 * Round(DescBytes) <= heap.mem.limit + Round(DescBytes)
    <2>1. donor \in DOMAIN s /\ s[donor].type = "Free" /\ s[donor].count >= pages
        BY <1>6 DEF HeapDonors
    <2>2. s[donor].count \in Nat
        BY <1>1, <2>1, ListFields
    <2>3. pages <= s[donor].count
        BY <1>2, <2>1, <2>2
    <2>4. HasRoom(heap.mem)
        <3>1. heap.mem.free \in Nat /\ heap.mem.limit \in Nat
            BY <1>3 DEF Memories
        <3>2. heap.mem.free + Round(DescBytes) <= heap.mem.limit
            BY <1>2, <1>6, <3>1
        <3>3. QED
            BY <3>2 DEF HasRoom
    <2> DEFINE u == GrownList(s, donor, pages, m.limit)
    <2>5. /\ i \in DOMAIN u /\ u[i].type = s[i].type /\ u[i].base = s[i].base
          /\ u[i].count = IF i = donor THEN s[i].count - pages ELSE s[i].count
        <3>1. RamList(s) /\ donor \in DOMAIN s /\ pages \in Nat /\ m.limit \in Nat
            BY <1>1, <1>2, <2>1
        <3>2. i \in DOMAIN s
            OBVIOUS
        <3>3. QED
            BY ONLY <3>1, <3>2, <2>3, GrownFields
    <2>6. heap.mem.descs = u
        BY <1>6
    <2> HIDE DEF u
    <2>7. QED
        BY <2>1, <2>4, <2>5, <2>6
<1>7. QED
    BY <1>4, <1>5, <1>6

\* Two descriptors of a good list do not share a page: it has one owner.
LEMMA OneOwner ==
    ASSUME NEW s, GoodList(s), NEW p, NEW type, NEW other,
           Owns(s, p, type), Owns(s, p, other)
    PROVE  type = other
<1>1. PICK i \in DOMAIN s : s[i].type = type /\ p \in Pages(s[i])
    BY DEF Owns
<1>2. PICK j \in DOMAIN s : s[j].type = other /\ p \in Pages(s[j])
    BY DEF Owns
<1>3. i = j
    BY <1>1, <1>2, GoodIsDisjoint
<1>4. QED
    BY <1>1, <1>2, <1>3

\* First the heap, perhaps, then the rest of the call.
LEMMA ComposeMoves ==
    ASSUME NEW s, NEW u, NEW t, NEW hb, NEW hn, HeapTakes(s, u, hb, hn), GoodList(u),
           NEW i \in DOMAIN u, u[i].type # "OsloaderHeap",
           NEW base, NEW count, Run(base, count) \subseteq Pages(u[i]),
           NEW room, PagesMoved(u, t, base, count, room),
           u = s \/ room
    PROVE  PagesMoved(s, t, base, count, FALSE)
<1>1. CASE u = s
    BY <1>1 DEF PagesMoved
<1>2. CASE room
    <2>2. Keeps(u, t, Run(base, count))
        <3>1. PICK b, n \in Nat : /\ Keeps(u, t, Run(base, count) \cup Run(b, n))
                                  /\ room => n = 0
            BY DEF PagesMoved
        <3>2. Run(b, n) = {}
            BY <1>2, <3>1 DEF Run
        <3>3. QED
            BY <3>1, <3>2
    <2>3. /\ hb \in Nat /\ hn \in Nat /\ Keeps(s, u, Run(hb, hn))
          /\ \A p \in Run(hb, hn) : Owns(s, p, "Free")
          /\ hn > 0 => Granted(u, "OsloaderHeap", hb, hn)
        BY DEF HeapTakes
    <2>4. ASSUME NEW p \in Run(hb, hn) PROVE Owns(t, p, "OsloaderHeap")
        <3>1. hn > 0
            BY <2>3 DEF Run
        <3>2. Owns(u, p, "OsloaderHeap")
            BY <2>3, <3>1, GrantedOwns
        <3>3. p \notin Run(base, count)
            <4>1. p \in Pages(u[i]) => Owns(u, p, u[i].type)
                BY DEF Owns
            <4>2. QED
                BY <3>2, <4>1, OneOwner
        <3>4. QED
            BY <2>2, <3>2, <3>3 DEF Keeps
    <2>5. Keeps(s, t, Run(base, count) \cup Run(hb, hn))
        BY <2>2, <2>3 DEF Keeps
    <2>6. QED
        BY <2>3, <2>4, <2>5 DEF PagesMoved
<1>3. QED
    BY <1>1, <1>2

LEMMA WholeMoves ==
    ASSUME NEW m \in Memories, NEW i \in DOMAIN m.descs, NEW type \in PageTypes
    PROVE  PagesMoved(m.descs, [m EXCEPT !.descs[i].type = type].descs,
                      m.descs[i].base, m.descs[i].count, FALSE)
<1> DEFINE s == m.descs
           d == [s[i] EXCEPT !.type = type]
           t == [s EXCEPT ![i] = d]
           list == [m EXCEPT !.descs[i].type = type].descs
<1>1. list = t
    <2>1. [m EXCEPT !.descs[i].type = type] = [m EXCEPT !.descs[i] = d]
        OBVIOUS
    <2> HIDE DEF d
    <2>2. [m EXCEPT !.descs[i] = d] = [descs |-> t, free |-> m.free, limit |-> m.limit]
        BY ReplaceShape
    <2> HIDE DEF t
    <2>3. QED
        BY <2>1, <2>2
<1> HIDE DEF d, list
<1>2. DOMAIN t = DOMAIN s /\ \A j \in DOMAIN s \ {i} : t[j] = s[j]
    OBVIOUS
<1>3. Run(s[i].base, s[i].count) = Pages(s[i]) /\ Run(0, 0) = {}
    BY DEF Run, Pages
<1> HIDE DEF t
<1>4. Keeps(s, t, Run(s[i].base, s[i].count) \cup Run(0, 0))
    BY <1>2, <1>3 DEF Keeps, Owns
<1>5. PagesMoved(s, t, s[i].base, s[i].count, FALSE)
    BY <1>3, <1>4 DEF PagesMoved
<1>6. QED
    BY <1>1, <1>5 DEF list

LEMMA GenerateMoves ==
    ASSUME NEW m \in Memories, GoodList(m.descs), NEW i \in DOMAIN m.descs,
           NEW type \in PageTypes, NEW base \in ULongs, NEW count \in ULongs,
           Covers(m.descs[i], base, count, base - m.descs[i].base),
           base >= m.descs[i].base,
           Undisturbed(m, i, type, base, count),
           m.descs[i].type # "OsloaderHeap"
    PROVE  LET t == BlGenerateDescriptor(m, i, type, base, count).mem.descs
           IN  \/ t = m.descs
               \/ /\ PagesMoved(m.descs, t, base, count, FALSE)
                  /\ Granted(t, type, base, count)
<1> DEFINE d      == m.descs[i]
           offset == base - d.base
           heap   == BlAllocateHeap(m, DescBytes)
           m1     == heap.mem
           block  == heap.block
           result == BlGenerateDescriptor(m, i, type, base, count)
           whole  == base = d.base /\ count = d.count
<1>1. /\ d.base \in Nat /\ d.count \in Nat /\ InRam(d) /\ RamTop \in Nat
    BY ListFields, SizesAssumption DEF GoodList, RamList
<1>2. base \in Nat /\ count \in Nat
    BY ULongsAreNaturals
<1>3. base + count <= d.base + d.count
    BY DEF Covers
<1>4. offset \in 0 .. RamTop
    BY <1>1, <1>2, <1>3 DEF InRam
<1>5. offset \in ULongs /\ Wrap(base - d.base) = offset
    BY <1>4, RamIsULong, WrapOfULong
<1>6. m1 \in Memories /\ block \in Nat /\ DescBytes \in Nat
    BY AllocateHeapType, SizesAssumption
<1>7. result =
        IF offset = 0 /\ count = d.count
        THEN [status |-> "ESUCCESS", mem |-> [m EXCEPT !.descs[i].type = type]]
        ELSE IF ~heap.ok
        THEN [status |-> "ENOMEM", mem |-> m1]
        ELSE Rest(m1, i, type, base, count, offset, block)
    <2>1. result =
            IF Wrap(base - d.base) = 0 /\ count = d.count
            THEN [status |-> "ESUCCESS", mem |-> [m EXCEPT !.descs[i].type = type]]
            ELSE IF ~heap.ok
            THEN [status |-> "ENOMEM", mem |-> m1]
            ELSE Rest(m1, i, type, base, count, Wrap(base - d.base), block)
        BY Zenon DEF BlGenerateDescriptor, Rest
    <2>2. QED
        BY <1>5, <2>1, Zenon
<1>8. whole <=> offset = 0 /\ count = d.count
    BY <1>1, <1>2
<1>15. Covers(d, base, count, offset)
    OBVIOUS
<1> HIDE DEF result, offset
<1>9. CASE whole
    <2>1. result = [status |-> "ESUCCESS", mem |-> [m EXCEPT !.descs[i].type = type]]
        BY <1>7, <1>8, <1>9
    <2> DEFINE list == [m EXCEPT !.descs[i].type = type].descs
    <2>2. Granted(list, type, d.base, d.count)
        BY WholeGood
    <2>3. PagesMoved(m.descs, list, d.base, d.count, FALSE)
        BY WholeMoves
    <2>4. result.mem.descs = list
        BY <2>1
    <2> HIDE DEF list
    <2>5. QED
        BY <1>9, <2>2, <2>3, <2>4 DEF result
<1>10. CASE ~whole /\ ~heap.ok
    <2>1. heap.mem = m
        BY HeapGood, SizesAssumption, <1>10
    <2>2. result.mem = m
        BY <1>7, <1>8, <1>10, <2>1
    <2>3. QED
        BY <2>2 DEF result
<1>11. CASE ~whole /\ heap.ok
    <2>1. /\ GoodList(m1.descs) /\ i \in DOMAIN m1.descs
          /\ Covers(m1.descs[i], base, count, offset)
          /\ \/ base + count = m1.descs[i].base + m1.descs[i].count
             \/ TailRoom(m1, i, type, offset, count)
        BY <1>5, <1>11, <1>15, FirstAllocation
    <2>2. /\ m1.descs[i].type = d.type /\ m1.descs[i].base = d.base
          /\ d.type # "Free" => m1.descs[i].count = d.count
          /\ m1.descs = m.descs \/ HasRoom(m1)
        BY FirstKeepsType
    <2>3. \/ base + count = m1.descs[i].base + m1.descs[i].count
          \/ /\ TailRoom(m1, i, type, offset, count)
             /\ type # "Free" /\ m1.descs[i].type = "Free"
        <3>1. \/ type # "Free" /\ d.type = "Free"
              \/ base + count = d.base + d.count /\ d.type # "Free"
            BY <1>11, Zenon DEF Undisturbed
        <3>2. QED
            BY <2>1, <2>2, <3>1
    <2>4. PICK hb, hn : HeapTakes(m.descs, m1.descs, hb, hn)
        <3>1. RamList(m.descs)
            BY DEF GoodList
        <3>2. QED
            BY <1>6, <3>1, HeapPagesTaken
    <2>5. Run(base, count) \subseteq Pages(m1.descs[i])
        <3>1. /\ m1.descs[i].base \in Nat /\ m1.descs[i].count \in Nat
              /\ base = m1.descs[i].base + offset
              /\ base + count <= m1.descs[i].base + m1.descs[i].count
            BY <2>1, ListFields DEF GoodList, RamList, Covers
        <3>2. offset \in Nat
            BY <1>5, ULongsAreNaturals
        <3>3. QED
            BY ONLY <1>2, <3>1, <3>2, SMTT(20) DEF Run, Pages
    <2> DEFINE rest == Rest(m1, i, type, base, count, offset, block)
    <2> HIDE DEF m1, block, heap, d
    <2>6. /\ GoodList(rest.mem.descs) /\ Granted(rest.mem.descs, type, base, count)
        BY <1>5, <1>6, <2>1, RestGood
    <2>7. PagesMoved(m1.descs, rest.mem.descs, base, count, HasRoom(m1))
        BY <1>5, <1>6, <2>1, <2>3, RestMoves
    <2>8. result = rest
        BY <1>7, <1>8, <1>11
    <2> HIDE DEF rest
    <2>9. PagesMoved(m.descs, rest.mem.descs, base, count, FALSE)
        <3>1. m1.descs[i].type # "OsloaderHeap"
            BY <2>2 DEF d
        <3>2. m1.descs = m.descs \/ HasRoom(m1)
            BY <2>2
        <3>3. QED
            BY <2>1, <2>4, <2>5, <2>7, <3>1, <3>2, ComposeMoves
    <2>10. QED
        BY <2>6, <2>8, <2>9 DEF result
<1>12. QED
    BY <1>9, <1>10, <1>11

-----------------------------------------------------------------------------
(* What a step does to the list.                                           *)

\* A run of pages leaves `from', all of them, for `to'; the heap may grow.
Handed(s, t, from, to) ==
    \E base, count \in Nat :
        /\ PagesMoved(s, t, base, count, FALSE)
        /\ Granted(t, to, base, count)
        /\ \A p \in Run(base, count) : Owns(s, p, from)

LEMMA PagesOfOwner ==
    ASSUME NEW s, NEW i \in DOMAIN s, NEW base \in ULongs, NEW count \in ULongs,
           s[i].base \in Nat, s[i].count \in Nat,
           Covers(s[i], base, count, base - s[i].base), base >= s[i].base
    PROVE  \A p \in Run(base, count) : Owns(s, p, s[i].type)
<1>1. base \in Nat /\ count \in Nat /\ base + count <= s[i].base + s[i].count
    BY ULongsAreNaturals DEF Covers
<1>2. Run(base, count) \subseteq Pages(s[i])
    BY <1>1 DEF Run, Pages
<1>3. QED
    BY <1>2 DEF Owns

LEMMA ServedMoves ==
    ASSUME NEW m, NEW i, NEW type, NEW base, NEW count, Served(m, i, type, base, count),
           m.descs[i].type # "OsloaderHeap"
    PROVE  LET t == BlGenerateDescriptor(m, i, type, base, count).mem.descs
           IN  t = m.descs \/ Handed(m.descs, t, m.descs[i].type, type)
<1> DEFINE t == BlGenerateDescriptor(m, i, type, base, count).mem.descs
<1>1. \/ t = m.descs
      \/ PagesMoved(m.descs, t, base, count, FALSE) /\ Granted(t, type, base, count)
    BY GenerateMoves DEF Served
<1> HIDE DEF t
<1>2. m.descs[i].base \in Nat /\ m.descs[i].count \in Nat
    BY ListFields DEF Served, GoodList, RamList
<1>3. \A p \in Run(base, count) : Owns(m.descs, p, m.descs[i].type)
    BY <1>2, PagesOfOwner DEF Served
<1>4. base \in Nat /\ count \in Nat
    BY ULongsAreNaturals DEF Served
<1>5. QED
    BY <1>1, <1>3, <1>4 DEF t, Handed

\* Both calls allocate from the heap, one with bytes to spare for alignment:
\* the caller's block lies in what was allocated.
InBlock(at, bytes, heap, asked) ==
    at \in Nat /\ heap.block <= at /\ at + bytes <= heap.block + asked

LEMMA HeapIsCalled ==
    ASSUME mem \in Memories, NEW bytes \in HeapSizes,
           AllocateHeap(bytes) \/ BlAllocateHeapAligned(bytes)
    PROVE  \E asked \in Nat : \E at :
              LET heap == BlAllocateHeap(mem, asked)
              IN  /\ HeapCall(asked)
                  /\ heap.ok => /\ InBlock(at, bytes, heap, asked)
                                /\ blocks' = Append(blocks, [at |-> at, bytes |-> bytes])
                  /\ ~heap.ok => blocks' = blocks
<1>1. bytes \in Nat /\ bytes + FillSize - 1 \in Nat /\ FillSize \in Nat
    BY SizesAssumption
<1>2. \A asked \in Nat : BlAllocateHeap(mem, asked).block \in Nat
    BY AllocateHeapType
<1>3. CASE AllocateHeap(bytes)
    <2> DEFINE heap == BlAllocateHeap(mem, bytes)
    <2>1. /\ HeapCall(bytes)
          /\ heap.ok => blocks' = Append(blocks, [at |-> heap.block, bytes |-> bytes])
          /\ ~heap.ok => blocks' = blocks
        BY <1>3, Zenon DEF AllocateHeap
    <2>2. InBlock(heap.block, bytes, heap, bytes)
        BY <1>1, <1>2 DEF InBlock
    <2>3. QED
        BY <1>1, <2>1, <2>2, Zenon
<1>4. CASE BlAllocateHeapAligned(bytes)
    <2> DEFINE asked == bytes + FillSize - 1
               heap == BlAllocateHeap(mem, asked)
               at == Align(heap.block)
    <2>1. /\ HeapCall(asked)
          /\ heap.ok => blocks' = Append(blocks, [at |-> at, bytes |-> bytes])
          /\ ~heap.ok => blocks' = blocks
        BY <1>4, Zenon DEF BlAllocateHeapAligned
    <2>2. heap.block \in Nat
        BY <1>1, <1>2
    <2> HIDE DEF heap
    <2>3. InBlock(at, bytes, heap, asked)
        BY <1>1, <2>2, AlignIsNatural DEF InBlock
    <2>4. asked \in Nat
        BY <1>1
    <2> HIDE DEF at, asked
    <2>5. QED
        BY <2>1, <2>3, <2>4, Zenon DEF heap
<1>5. QED
    BY <1>3, <1>4

\* What a heap call does.
LEMMA HeapCallMoves ==
    ASSUME ListInv, NEW asked \in Nat, HeapCall(asked)
    PROVE  \E base, count : HeapTakes(mem.descs, mem'.descs, base, count)
<1>1. mem \in Memories /\ RamList(mem.descs)
    BY DEF ListInv, TypeInv, TypeOK, GoodList
<1>2. mem' = BlAllocateHeap(mem, asked).mem
    BY DEF HeapCall
<1>3. QED
    BY <1>1, <1>2, HeapPagesTaken

\* What a roomy request does.
LEMMA AllocateDescriptorMoves ==
    ASSUME ListInv, NEW type \in ImageTypes \cup DataTypes, NEW base \in Bases,
           NEW count \in Counts, RoomyAllocate(type, base, count)
    PROVE  mem'.descs = mem.descs \/ Handed(mem.descs, mem'.descs, "Free", type)
<1>1. CASE Servable(mem, base, count)
    <2>1. PICK i, at :
             /\ Served(mem, i, type, at, count) /\ mem.descs[i].type = "Free"
             /\ mem' = BlGenerateDescriptor(mem, i, type, at, count).mem
        BY <1>1, RequestServed
    <2>2. QED
        BY <2>1, ServedMoves
<1>2. CASE ~Servable(mem, base, count)
    BY <1>2 DEF RoomyAllocate, BlAllocateDescriptor
<1>3. QED
    BY <1>1, <1>2

\* What BlLoadImage does when it gives the end of an image back.
LEMMA FreeImageTailMoves ==
    ASSUME ListInv, NEW page \in 0 .. RamTop, FreeImageTail(page)
    PROVE  \/ mem'.descs = mem.descs
           \/ \E type \in ImageTypes : Handed(mem.descs, mem'.descs, type, "Free")
<1>1. PICK i, count :
         /\ Served(mem, i, "Free", page, count)
         /\ mem.descs[i].type \in ImageTypes
         /\ mem' = BlGenerateDescriptor(mem, i, "Free", page, count).mem
    BY TailServed
<1>2. mem.descs[i].type # "OsloaderHeap"
    BY <1>1, TypesAssumption
<1>3. QED
    BY <1>1, <1>2, ServedMoves

-----------------------------------------------------------------------------
(* No page is lost.                                                        *)

LEMMA TakesFull ==
    ASSUME NEW s, NEW t, NEW base, NEW count, HeapTakes(s, t, base, count), FullList(s)
    PROVE  FullList(t)
<1> SUFFICES ASSUME NEW p \in 0 .. (RamTop - 1)
             PROVE  \E j \in DOMAIN t : p \in Pages(t[j])
    BY DEF FullList
<1>1. PICK j \in DOMAIN s : p \in Pages(s[j])
    BY DEF FullList
<1>2. Owns(s, p, s[j].type)
    BY <1>1 DEF Owns
<1>3. CASE p \in Run(base, count)
    <2>1. count > 0
        BY <1>3 DEF Run, HeapTakes
    <2>2. Owns(t, p, "OsloaderHeap")
        BY <1>3, <2>1, GrantedOwns DEF HeapTakes
    <2>3. QED
        BY <2>2 DEF Owns
<1>4. CASE p \notin Run(base, count)
    BY <1>2, <1>4 DEF HeapTakes, Keeps, Owns
<1>5. QED
    BY <1>3, <1>4

LEMMA HandedFull ==
    ASSUME NEW s, NEW t, NEW from, NEW to, Handed(s, t, from, to), FullList(s)
    PROVE  FullList(t)
<1> SUFFICES ASSUME NEW p \in 0 .. (RamTop - 1)
             PROVE  \E j \in DOMAIN t : p \in Pages(t[j])
    BY DEF FullList
<1>1. PICK base \in Nat, count \in Nat :
         PagesMoved(s, t, base, count, FALSE) /\ Granted(t, to, base, count)
    BY DEF Handed
<1>2. PICK hb \in Nat, hn \in Nat :
         /\ Keeps(s, t, Run(base, count) \cup Run(hb, hn))
         /\ \A q \in Run(hb, hn) : Owns(t, q, "OsloaderHeap")
    BY <1>1 DEF PagesMoved
<1>3. PICK j \in DOMAIN s : p \in Pages(s[j])
    BY DEF FullList
<1>4. Owns(s, p, s[j].type)
    BY <1>3 DEF Owns
<1>5. \E type : Owns(t, p, type)
    BY <1>1, <1>2, <1>4, GrantedOwns DEF Keeps
<1>6. QED
    BY <1>5 DEF Owns

\* The first list covers RAM: what the stack and the heap get left the free
\* descriptor.
LEMMA InitialFull ==
    ASSUME FirmwareOK, NEW carved \in CarveFrom(firmware)
    PROVE  FullList(InitialMemory(firmware, carved).descs)
<1> DEFINE list == InitialMemory(firmware, carved).descs
<1>1. /\ firmware[2].count \in Nat /\ firmware[3].base \in Nat
      /\ firmware[3].count \in Nat
    BY FirmwareShape
<1>2. /\ firmware[3].base = LowPages + firmware[2].count
      /\ firmware[3].base + firmware[3].count = RamTop
    BY DEF FirmwareOK
<1>3. /\ LowPages \in Nat /\ RamTop \in Nat /\ StackPages \in Nat
      /\ HeapPages \in Nat /\ CarvePages = HeapPages + StackPages
    BY SizesAssumption DEF CarvePages
<1>4. /\ DOMAIN list = 1 .. 5 /\ firmware[3].count >= CarvePages
      /\ list[1].base = 0 /\ list[1].count = LowPages
      /\ list[2].base = LowPages /\ list[2].count = firmware[2].count
      /\ list[3].base = firmware[3].base
      /\ list[3].count = firmware[3].count - CarvePages
      /\ list[4].base = RamTop - StackPages /\ list[4].count = StackPages
      /\ list[5].base = RamTop - CarvePages /\ list[5].count = HeapPages
    BY InitialFields
<1> HIDE DEF list
<1>5. ASSUME NEW p \in 0 .. (RamTop - 1)
      PROVE  \E j \in DOMAIN list : p \in Pages(list[j])
    <2>1. \/ p \in Pages(list[1]) \/ p \in Pages(list[2]) \/ p \in Pages(list[3])
          \/ p \in Pages(list[4]) \/ p \in Pages(list[5])
        BY <1>1, <1>2, <1>3, <1>4 DEF Pages
    <2>2. QED
        BY <1>4, <2>1
<1>6. QED
    BY <1>5 DEF FullList, list

\* The pages of the firmware's list are those of RAM.
LEMMA FirmwarePages ==
    ASSUME FirmwareOK
    PROVE  UNION {Pages(firmware[i]) : i \in DOMAIN firmware} = 0 .. (RamTop - 1)
<1>1. /\ DOMAIN firmware = 1 .. 3
      /\ firmware[1].base \in Nat /\ firmware[1].count \in Nat
      /\ firmware[2].base \in Nat /\ firmware[2].count \in Nat
      /\ firmware[3].base \in Nat /\ firmware[3].count \in Nat
    BY FirmwareShape
<1>2. LowPages \in Nat /\ RamTop \in Nat
    BY SizesAssumption
<1>3. ASSUME NEW i \in DOMAIN firmware PROVE Pages(firmware[i]) \subseteq 0 .. (RamTop - 1)
    <2>1. /\ firmware[i].base \in Nat /\ firmware[i].count \in Nat
          /\ firmware[i].base + firmware[i].count <= RamTop
        BY <1>1, FirmwareInRam
    <2>2. QED
        BY <1>2, <2>1 DEF Pages
<1>4. ASSUME NEW p \in 0 .. (RamTop - 1)
      PROVE  \E i \in DOMAIN firmware : p \in Pages(firmware[i])
    <2>1. /\ firmware[1].base = 0 /\ firmware[1].count = LowPages
          /\ firmware[2].base = LowPages
          /\ firmware[3].base = LowPages + firmware[2].count
          /\ firmware[3].base + firmware[3].count = RamTop
        BY DEF FirmwareOK
    <2>2. \/ p \in Pages(firmware[1]) \/ p \in Pages(firmware[2])
          \/ p \in Pages(firmware[3])
        BY <1>1, <1>2, <2>1 DEF Pages
    <2>3. QED
        BY <1>1, <2>2
<1>5. QED
    BY <1>3, <1>4

LEMMA FullPages ==
    ASSUME NEW s, GoodList(s), FullList(s)
    PROVE  UNION {Pages(s[i]) : i \in DOMAIN s} = 0 .. (RamTop - 1)
<1>1. ASSUME NEW i \in DOMAIN s PROVE Pages(s[i]) \subseteq 0 .. (RamTop - 1)
    <2>1. s[i].base \in Nat /\ s[i].count \in Nat /\ s[i].base + s[i].count <= RamTop
        BY ListFields DEF GoodList, RamList, InRam
    <2>2. RamTop \in Nat
        BY SizesAssumption
    <2>3. QED
        BY <2>1, <2>2 DEF Pages
<1>2. QED
    BY <1>1 DEF FullList

\* The inductive invariant: once memory is up, the list also covers RAM.
FullInv == ListInv /\ (phase = "up" => FullList(mem.descs))

LEMMA InitFullInv == Init => FullInv
BY InitListInv DEF FullInv, Init

LEMMA NextFullInv == FullInv /\ [RoomyNext]_vars => FullInv'
<1> SUFFICES ASSUME FullInv, [RoomyNext]_vars PROVE FullInv'
    OBVIOUS
<1>1. ListInv /\ ListInv'
    BY NextListInv DEF FullInv
<1>2. phase' = "up" => FullList(mem'.descs)
    <2>1. CASE UNCHANGED vars
        BY <2>1 DEF vars, FullInv
    <2>2. ASSUME NEW endPage \in EndPages, BlArmFixupMemoryMap(endPage)
          PROVE  phase' # "up"
        BY <2>2 DEF BlArmFixupMemoryMap
    <2>3. ASSUME BlMemoryInitialize, phase' = "up"
          PROVE  FullList(mem'.descs)
        <3>1. PICK carved \in CarveFrom(firmware) : mem' = InitialMemory(firmware, carved)
            BY <2>3 DEF BlMemoryInitialize
        <3>2. QED
            BY <1>1, <3>1, InitialFull DEF ListInv, TypeInv
    <2>4. ASSUME NEW bytes \in HeapSizes,
                 AllocateHeap(bytes) \/ BlAllocateHeapAligned(bytes)
          PROVE  FullList(mem'.descs)
        <3>1. PICK asked \in Nat : HeapCall(asked)
            BY <1>1, <2>4, HeapIsCalled DEF ListInv, TypeInv, TypeOK
        <3>2. FullList(mem.descs)
            BY <3>1 DEF FullInv, HeapCall
        <3>3. QED
            BY <1>1, <3>1, <3>2, HeapCallMoves, TakesFull
    <2>5. ASSUME NEW type \in ImageTypes \cup DataTypes, NEW base \in Bases,
                 NEW count \in Counts, RoomyAllocate(type, base, count)
          PROVE  FullList(mem'.descs)
        <3>1. FullList(mem.descs)
            BY <2>5 DEF FullInv, RoomyAllocate, BlAllocateDescriptor
        <3>2. QED
            BY <1>1, <2>5, <3>1, AllocateDescriptorMoves, HandedFull
    <2>6. ASSUME NEW page \in 0 .. RamTop, FreeImageTail(page)
          PROVE  FullList(mem'.descs)
        <3>1. FullList(mem.descs)
            BY <2>6 DEF FullInv, FreeImageTail
        <3>2. QED
            BY <1>1, <2>6, <3>1, FreeImageTailMoves, HandedFull
    <2>7. QED
        BY <2>1, <2>2, <2>3, <2>4, <2>5, <2>6 DEF RoomyNext, Setup, HeapCalls
<1>3. QED
    BY <1>1, <1>2 DEF FullInv

LEMMA AlwaysFullInv == RoomySpec => []FullInv
BY InitFullInv, NextFullInv, PTL DEF RoomySpec

\* No page is lost: whatever the loader's roomy requests, heap growths and failures,
\* the list covers what the firmware reported, also when there was no descriptor
\* for the tail of an image.
THEOREM NoPageIsLost == RoomySpec => []PagesConserved
<1>1. ASSUME FullInv PROVE PagesConserved
    <2>1. FirmwareOK /\ GoodList(mem.descs)
        BY <1>1 DEF FullInv, ListInv, TypeInv
    <2>2. QED
        BY <1>1, <2>1, FirmwarePages, FullPages DEF FullInv, PagesConserved
<1>2. QED
    BY <1>1, AlwaysFullInv, PTL

-----------------------------------------------------------------------------
(* The owner of a page.                                                    *)

\* Owner, of a list.
TypeAt(s, page) ==
    LET holders == {i \in DOMAIN s : page \in Pages(s[i])}
    IN  IF holders = {} THEN "nobody" ELSE s[First(holders)].type

LEMMA OwnerIsTypeAt ==
    \A page : Owner(page) = TypeAt(IF phase = "up" THEN mem.descs ELSE firmware, page)
BY DEF Owner, TypeAt

LEMMA TypeAtOwns ==
    ASSUME NEW s, DOMAIN s \subseteq Nat, NEW page,
           \E i \in DOMAIN s : page \in Pages(s[i])
    PROVE  Owns(s, page, TypeAt(s, page))
<1> DEFINE holders == {i \in DOMAIN s : page \in Pages(s[i])}
<1>1. holders # {} /\ holders \subseteq Nat
    OBVIOUS
<1>2. First(holders) \in holders
    <2> HIDE DEF holders
    <2>1. QED
        BY <1>1, FirstIsLeast
<1>3. QED
    BY <1>1, <1>2 DEF TypeAt, Owns

\* In the loader's list, the owner is the type of the descriptor that has the
\* page.
LEMMA ListOwner ==
    ASSUME NEW s, GoodList(s), FullList(s), NEW page \in 0 .. (RamTop - 1)
    PROVE  /\ TypeAt(s, page) \in PageTypes
           /\ \A type : Owns(s, page, type) <=> TypeAt(s, page) = type
<1>1. s \in Seq(Descriptors) /\ DOMAIN s \subseteq Nat
    BY LenProperties DEF GoodList, RamList
<1>2. Owns(s, page, TypeAt(s, page))
    BY <1>1, TypeAtOwns DEF FullList
<1>3. TypeAt(s, page) \in PageTypes
    <2>1. PICK i \in DOMAIN s : s[i].type = TypeAt(s, page)
        BY <1>2 DEF Owns
    <2>2. s[i] \in Descriptors
        BY <1>1, ListFields
    <2>3. s[i].type \in PageTypes
        BY <2>2 DEF Descriptors
    <2>4. QED
        BY <2>1, <2>3
<1>4. QED
    BY <1>2, <1>3, OneOwner

\* In the firmware's list, the image lies between the low pages and the free ones.
LEMMA FirmwareOwner ==
    ASSUME FirmwareOK, NEW page \in 0 .. (RamTop - 1)
    PROVE  TypeAt(firmware, page) =
             IF page < LowPages THEN "FirmwarePermanent"
             ELSE IF page < firmware[3].base THEN "LoadedProgram" ELSE "Free"
<1>1. /\ DOMAIN firmware = 1 .. 3
      /\ firmware[1].base \in Nat /\ firmware[1].count \in Nat
      /\ firmware[2].base \in Nat /\ firmware[2].count \in Nat
      /\ firmware[3].base \in Nat /\ firmware[3].count \in Nat
    BY FirmwareShape
<1>2. LowPages \in Nat /\ RamTop \in Nat
    BY SizesAssumption
<1>3. /\ firmware[1].base = 0 /\ firmware[1].count = LowPages
      /\ firmware[2].base = LowPages
      /\ firmware[3].base = LowPages + firmware[2].count
      /\ firmware[3].base + firmware[3].count = RamTop
      /\ firmware[1].type = "FirmwarePermanent" /\ firmware[2].type = "LoadedProgram"
      /\ firmware[3].type = "Free"
    BY DEF FirmwareOK
<1>4. /\ page \in Pages(firmware[1]) <=> page < LowPages
      /\ page \in Pages(firmware[2]) <=> ~(page < LowPages) /\ page < firmware[3].base
      /\ page \in Pages(firmware[3]) <=> ~(page < firmware[3].base)
    BY <1>1, <1>2, <1>3 DEF Pages
<1>5. LowPages <= firmware[3].base
    BY <1>1, <1>2, <1>3
<1>6. \E i \in DOMAIN firmware : page \in Pages(firmware[i])
    BY <1>1, <1>4
<1>7. Owns(firmware, page, TypeAt(firmware, page))
    BY <1>1, <1>6, TypeAtOwns
<1>8. PICK i \in 1 .. 3 : /\ firmware[i].type = TypeAt(firmware, page)
                          /\ page \in Pages(firmware[i])
    BY <1>1, <1>7 DEF Owns
<1>9. CASE i = 1
    BY <1>3, <1>4, <1>8, <1>9
<1>10. CASE i = 2
    BY <1>3, <1>4, <1>8, <1>10
<1>11. CASE i = 3
    BY <1>2, <1>1, <1>3, <1>4, <1>5, <1>8, <1>11
<1>12. QED
    BY <1>8, <1>9, <1>10, <1>11

\* Outside two runs every page keeps its owner.
Moved(before, after, from, to, base, count, hb, hn) ==
    \A p \in 0 .. (RamTop - 1) :
        /\ p \in Run(base, count) => before[p] = from /\ after[p] = to
        /\ p \in Run(hb, hn) => before[p] = "Free" /\ after[p] = "OsloaderHeap"
        /\ p \notin Run(base, count) \cup Run(hb, hn) => after[p] = before[p]

Owned(s) == [page \in 0 .. (RamTop - 1) |-> TypeAt(s, page)]

LEMMA TakesOwners ==
    ASSUME NEW s, NEW t, GoodList(s), FullList(s), GoodList(t), FullList(t),
           NEW hb, NEW hn, HeapTakes(s, t, hb, hn)
    PROVE  /\ hb \in Nat /\ hn \in Nat
           /\ Moved(Owned(s), Owned(t), "Free", "OsloaderHeap", hb, hn, hb, hn)
<1>1. ASSUME NEW p \in 0 .. (RamTop - 1)
      PROVE  /\ p \in Run(hb, hn) => TypeAt(s, p) = "Free" /\ TypeAt(t, p) = "OsloaderHeap"
             /\ p \notin Run(hb, hn) => TypeAt(t, p) = TypeAt(s, p)
    <2>1. p \in Run(hb, hn) => hn > 0
        BY DEF Run, HeapTakes
    <2>2. p \in Run(hb, hn) => Owns(s, p, "Free") /\ Owns(t, p, "OsloaderHeap")
        BY <2>1, GrantedOwns DEF HeapTakes
    <2>3. p \notin Run(hb, hn) => Owns(t, p, TypeAt(s, p))
        BY ListOwner DEF HeapTakes, Keeps
    <2>4. QED
        BY <2>2, <2>3, ListOwner
<1>2. QED
    BY <1>1 DEF HeapTakes, Moved, Owned

LEMMA HandedOwners ==
    ASSUME NEW s, NEW t, GoodList(s), FullList(s), GoodList(t), FullList(t),
           NEW from, NEW to, Handed(s, t, from, to)
    PROVE  \E base, count, hb, hn \in Nat :
              Moved(Owned(s), Owned(t), from, to, base, count, hb, hn)
<1>1. PICK base \in Nat, count \in Nat :
         /\ PagesMoved(s, t, base, count, FALSE)
         /\ Granted(t, to, base, count)
         /\ \A p \in Run(base, count) : Owns(s, p, from)
    BY DEF Handed
<1>2. PICK hb \in Nat, hn \in Nat :
         /\ Keeps(s, t, Run(base, count) \cup Run(hb, hn))
         /\ \A p \in Run(hb, hn) : Owns(s, p, "Free") /\ Owns(t, p, "OsloaderHeap")
    BY <1>1 DEF PagesMoved
<1>3. ASSUME NEW p \in 0 .. (RamTop - 1)
      PROVE  /\ p \in Run(base, count) => TypeAt(s, p) = from /\ TypeAt(t, p) = to
             /\ p \in Run(hb, hn) => TypeAt(s, p) = "Free" /\ TypeAt(t, p) = "OsloaderHeap"
             /\ p \notin Run(base, count) \cup Run(hb, hn) => TypeAt(t, p) = TypeAt(s, p)
    <2>1. p \in Run(base, count) => Owns(s, p, from) /\ Owns(t, p, to)
        BY <1>1, GrantedOwns
    <2>2. p \notin Run(base, count) \cup Run(hb, hn) => Owns(t, p, TypeAt(s, p))
        BY <1>2, ListOwner DEF Keeps
    <2>3. QED
        BY <1>2, <2>1, <2>2, ListOwner
<1>4. Moved(Owned(s), Owned(t), from, to, base, count, hb, hn)
    BY <1>3 DEF Moved, Owned
<1>5. QED
    BY <1>4

-----------------------------------------------------------------------------
(* The steps of PageOwnership.                                             *)

LEMMA RunIsRun ==
    ASSUME NEW base \in Nat, NEW count \in Nat, NEW S,
           \A p \in 0 .. (RamTop - 1) : p \in S <=> p \in Run(base, count),
           S \subseteq 0 .. (RamTop - 1)
    PROVE  Ownership!IsRun(S)
<1>1. RamTop \in Nat
    BY SizesAssumption
<1>2. QED
    BY <1>1 DEF Ownership!IsRun, Run

\* The heap alone, a grant, and an image's tail.
LEMMA MovedIsGrowth ==
    ASSUME NEW before, NEW after, NEW hb \in Nat, NEW hn \in Nat,
           Moved(before, after, "Free", "OsloaderHeap", hb, hn, hb, hn)
    PROVE  /\ Ownership!OnlyFreeGoesTo(before, after, {"OsloaderHeap"})
           /\ Ownership!IsRun(Ownership!Taken(before, after, "OsloaderHeap"))
<1> DEFINE taken == Ownership!Taken(before, after, "OsloaderHeap")
<1>1. taken \subseteq 0 .. (RamTop - 1)
      /\ \A p \in 0 .. (RamTop - 1) : p \in taken <=> p \in Run(hb, hn)
    BY DEF Moved, Ownership!Taken, Ownership!RamPages
<1> HIDE DEF taken
<1>2. Ownership!IsRun(taken)
    BY <1>1, RunIsRun
<1>3. Ownership!OnlyFreeGoesTo(before, after, {"OsloaderHeap"})
    BY DEF Moved, Ownership!OnlyFreeGoesTo, Ownership!RamPages
<1>4. QED
    BY <1>2, <1>3 DEF taken

LEMMA MovedIsGrant ==
    ASSUME NEW before, NEW after, NEW type, type # "OsloaderHeap", type # "Free",
           NEW base \in Nat, NEW count \in Nat, NEW hb \in Nat, NEW hn \in Nat,
           Moved(before, after, "Free", type, base, count, hb, hn)
    PROVE  /\ Ownership!OnlyFreeGoesTo(before, after, {type, "OsloaderHeap"})
           /\ Ownership!IsRun(Ownership!Taken(before, after, type))
           /\ Ownership!IsRun(Ownership!Taken(before, after, "OsloaderHeap"))
<1> DEFINE granted == Ownership!Taken(before, after, type)
           taken == Ownership!Taken(before, after, "OsloaderHeap")
<1>1. granted \subseteq 0 .. (RamTop - 1)
      /\ \A p \in 0 .. (RamTop - 1) : p \in granted <=> p \in Run(base, count)
    BY DEF Moved, Ownership!Taken, Ownership!RamPages
<1>2. taken \subseteq 0 .. (RamTop - 1)
      /\ \A p \in 0 .. (RamTop - 1) : p \in taken <=> p \in Run(hb, hn)
    BY DEF Moved, Ownership!Taken, Ownership!RamPages
<1> HIDE DEF granted, taken
<1>3. Ownership!IsRun(granted) /\ Ownership!IsRun(taken)
    BY <1>1, <1>2, RunIsRun
<1>4. Ownership!OnlyFreeGoesTo(before, after, {type, "OsloaderHeap"})
    BY DEF Moved, Ownership!OnlyFreeGoesTo, Ownership!RamPages
<1>5. QED
    BY <1>3, <1>4 DEF granted, taken

LEMMA MovedIsReclaim ==
    ASSUME NEW before, NEW after, NEW type, type # "OsloaderHeap", type # "Free",
           NEW base \in Nat, NEW count \in Nat, NEW hb \in Nat, NEW hn \in Nat,
           Moved(before, after, type, "Free", base, count, hb, hn),
           Ownership!Running
    PROVE  Ownership!Reclaim(before, after, type)
<1> DEFINE returned == {p \in Ownership!RamPages : before[p] = type /\ after[p] = "Free"}
           taken == Ownership!Taken(before, after, "OsloaderHeap")
<1>1. returned \subseteq 0 .. (RamTop - 1)
      /\ \A p \in 0 .. (RamTop - 1) : p \in returned <=> p \in Run(base, count)
    BY DEF Moved, Ownership!RamPages
<1>2. taken \subseteq 0 .. (RamTop - 1)
      /\ \A p \in 0 .. (RamTop - 1) : p \in taken <=> p \in Run(hb, hn)
    BY DEF Moved, Ownership!Taken, Ownership!RamPages
<1>3. Ownership!IsRun(returned) /\ Ownership!IsRun(taken)
    <2> HIDE DEF returned, taken
    <2>1. QED
        BY <1>1, <1>2, RunIsRun
<1>4. \A p \in Ownership!RamPages : after[p] # before[p] => p \in returned \/ p \in taken
    <2> HIDE DEF returned, taken
    <2>1. QED
        BY <1>1, <1>2 DEF Moved, Ownership!RamPages
<1>5. QED
    BY <1>3, <1>4 DEF Ownership!Reclaim

-----------------------------------------------------------------------------
(* The refinement.                                                         *)

Stage == IF phase = "failed" THEN "mapped" ELSE phase

Own == [page \in 0 .. (RamTop - 1) |-> Owner(page)]

LEMMA OwnOfList ==
    /\ phase = "up" => Own = Owned(mem.descs)
    /\ phase # "up" => Own = Owned(firmware)
    /\ phase' = "up" => Own' = Owned(mem'.descs)
    /\ phase' # "up" => Own' = Owned(firmware')
BY DEF Own, Owned, Owner, TypeAt

LEMMA OwnersArePageTypes == Ownership!Owners = PageTypes
BY DEF Ownership!Owners, PageTypes, FirmwareTypes

\* Every page of RAM has an owner.
LEMMA OwnType == FullInv => Own \in [0 .. (RamTop - 1) -> PageTypes]
<1> SUFFICES ASSUME FullInv, NEW page \in 0 .. (RamTop - 1)
             PROVE  Owner(page) \in PageTypes
    BY DEF Own
<1>1. CASE phase = "up"
    <2>1. GoodList(mem.descs) /\ FullList(mem.descs)
        BY <1>1 DEF FullInv, ListInv
    <2>2. Owner(page) = TypeAt(mem.descs, page)
        BY <1>1, OwnerIsTypeAt
    <2>3. QED
        BY <2>1, <2>2, ListOwner
<1>2. CASE phase # "up"
    <2>1. FirmwareOK
        BY DEF FullInv, ListInv, TypeInv
    <2>2. Owner(page) = TypeAt(firmware, page)
        BY <1>2, OwnerIsTypeAt
    <2>3. Owner(page) \in {"FirmwarePermanent", "LoadedProgram", "Free"}
        BY <2>1, <2>2, FirmwareOwner
    <2>4. QED
        BY <2>3 DEF PageTypes, FirmwareTypes
<1>3. QED
    BY <1>1, <1>2

LEMMA OwnTypeNext == FullInv' => (Own \in [0 .. (RamTop - 1) -> PageTypes])'
BY OwnType, PTL

\* The owners at the start are those of MDArray.
LEMMA InitOwnership == Init => Ownership!Init
<1> SUFFICES ASSUME Init PROVE Ownership!Init
    OBVIOUS
<1>1. FirmwareOK /\ phase = "reset"
    BY InitFirmware DEF Init
<1>2. firmware[3].base = NominalEnd
    BY DEF Init, MDArray
<1>3. ASSUME NEW page \in 0 .. (RamTop - 1)
      PROVE  Owner(page) = IF page < LowPages THEN "FirmwarePermanent"
                           ELSE IF page < NominalEnd THEN "LoadedProgram" ELSE "Free"
    <2>1. Owner(page) = TypeAt(firmware, page)
        BY <1>1, OwnerIsTypeAt
    <2>2. QED
        BY <1>1, <1>2, <2>1, FirmwareOwner
<1>4. QED
    BY <1>1, <1>3 DEF Ownership!Init, Ownership!RamPages

\* Where the image ends, before a step and after it.
ImageEnds(end) ==
    /\ end \in Nat
    /\ \A page \in 0 .. (RamTop - 1) :
          Owned(firmware)[page] = IF page < LowPages THEN "FirmwarePermanent"
                                  ELSE IF page < end THEN "LoadedProgram" ELSE "Free"

LEMMA ImageEnd == FirmwareOK => ImageEnds(firmware[3].base)
<1> SUFFICES ASSUME FirmwareOK PROVE ImageEnds(firmware[3].base)
    OBVIOUS
<1>1. firmware[3].base \in Nat
    BY FirmwareShape
<1>2. QED
    BY <1>1, FirmwareOwner DEF ImageEnds, Owned

LEMMA ImageEndNext == FirmwareOK' => ImageEnds(firmware[3].base)'
BY ImageEnd, PTL

\* Measuring the image moves the border between it and the free pages.
LEMMA FixupRefines ==
    ASSUME FullInv, FullInv', NEW endPage \in EndPages, BlArmFixupMemoryMap(endPage)
    PROVE  Ownership!MeasureImage(Own, Own')
<1>1. phase = "reset" /\ phase' = "mapped" /\ FirmwareOK /\ FirmwareOK'
    BY DEF BlArmFixupMemoryMap, FullInv, ListInv, TypeInv
<1> DEFINE from == firmware[3].base
           to == firmware'[3].base
           Border(map, end) ==
              \A page \in 0 .. (RamTop - 1) :
                 map[page] = IF page < LowPages THEN "FirmwarePermanent"
                             ELSE IF page < end THEN "LoadedProgram" ELSE "Free"
<1>2. Own = Owned(firmware) /\ Own' = Owned(firmware')
    BY <1>1, OwnOfList
<1>3. from \in Nat /\ to \in Nat /\ LowPages \in Nat /\ RamTop \in Nat
    BY <1>1, ImageEnd, ImageEndNext, SizesAssumption DEF ImageEnds
<1>4. Border(Own, from) /\ Border(Own', to)
    BY <1>1, <1>2, ImageEnd, ImageEndNext DEF ImageEnds, Owned
<1> HIDE DEF from, to
<1>5. ASSUME NEW p \in 0 .. (RamTop - 1), Own'[p] # Own[p]
      PROVE  {Own[p], Own'[p]} = {"LoadedProgram", "Free"}
    BY <1>3, <1>4, <1>5
<1> DEFINE image == {p \in 0 .. (RamTop - 1) : Own'[p] = "LoadedProgram"}
<1>6. image = LowPages .. (to - 1) \cap 0 .. (RamTop - 1)
    BY <1>3, <1>4
<1> HIDE DEF image, Border
<1>7. Ownership!IsRun(image)
    BY <1>3, <1>6 DEF Ownership!IsRun
<1>8. QED
    BY <1>1, <1>5, <1>7 DEF Ownership!MeasureImage, Ownership!RamPages, image

\* The stack's and the heap's pages come off the end of the free ones.
LEMMA InitializeRefines ==
    ASSUME FullInv, FullInv', BlMemoryInitialize, phase' = "up"
    PROVE  Ownership!TakeHeapAndStack(Own, Own')
<1>1. phase = "mapped" /\ FirmwareOK
    BY DEF BlMemoryInitialize, FullInv, ListInv, TypeInv
<1>2. PICK carved \in CarveFrom(firmware) : mem' = InitialMemory(firmware, carved)
    BY DEF BlMemoryInitialize
<1>3. GoodList(mem'.descs) /\ FullList(mem'.descs)
    BY <1>1, <1>2, InitialListGood, InitialFull
<1>4. Own = Owned(firmware) /\ Own' = Owned(mem'.descs)
    BY <1>1, OwnOfList
<1> DEFINE list == mem'.descs
           end == firmware[3].base
           heap == RamTop - CarvePages
           stack == RamTop - StackPages
<1>5. /\ DOMAIN list = 1 .. 5 /\ firmware[3].count >= CarvePages
      /\ list[1].base = 0 /\ list[1].count = LowPages
      /\ list[1].type = "FirmwarePermanent"
      /\ list[2].base = LowPages /\ list[2].count = firmware[2].count
      /\ list[2].type = "LoadedProgram"
      /\ list[3].base = end /\ list[3].count = firmware[3].count - CarvePages
      /\ list[3].type = "Free"
      /\ list[4].base = stack /\ list[4].count = StackPages
      /\ list[4].type = "OsloaderStack"
      /\ list[5].base = heap /\ list[5].count = HeapPages
      /\ list[5].type = "OsloaderHeap"
    BY <1>1, <1>2, InitialFields
<1> HIDE DEF list
<1>6. /\ LowPages \in Nat /\ RamTop \in Nat /\ StackPages \in Nat /\ HeapPages \in Nat
      /\ CarvePages = HeapPages + StackPages
      /\ firmware[2].count \in Nat /\ firmware[3].base \in Nat /\ firmware[3].count \in Nat
    BY <1>1, SizesAssumption, FirmwareShape DEF CarvePages
<1>7. firmware[3].base = LowPages + firmware[2].count
      /\ firmware[3].base + firmware[3].count = RamTop
    BY <1>1 DEF FirmwareOK
<1>8. /\ LowPages <= end /\ end <= heap /\ heap <= stack /\ stack <= RamTop
      /\ end \in Int /\ heap \in Int /\ stack \in Int
      /\ end + (firmware[3].count - CarvePages) = heap
      /\ LowPages + firmware[2].count = end /\ heap + HeapPages = stack
      /\ stack + StackPages = RamTop
    BY <1>5, <1>6, <1>7
<1>9. ASSUME NEW p \in 0 .. (RamTop - 1)
      PROVE  Own'[p] = IF p < LowPages THEN "FirmwarePermanent"
                       ELSE IF p < end THEN "LoadedProgram"
                       ELSE IF p < heap THEN "Free"
                       ELSE IF p < stack THEN "OsloaderHeap" ELSE "OsloaderStack"
    <2>1. Own'[p] = TypeAt(list, p)
        BY <1>4 DEF Owned, list
    <2>2. \A type : Owns(list, p, type) => TypeAt(list, p) = type
        BY <1>3, ListOwner DEF list
    <2> HIDE DEF end, heap, stack
    <2>3. /\ p \in Pages(list[1]) <=> p < LowPages
          /\ p \in Pages(list[2]) <=> LowPages <= p /\ p < end
          /\ p \in Pages(list[3]) <=> end <= p /\ p < heap
          /\ p \in Pages(list[5]) <=> heap <= p /\ p < stack
          /\ p \in Pages(list[4]) <=> stack <= p
        BY <1>5, <1>6, <1>8 DEF Pages
    <2>4. /\ p < LowPages => Owns(list, p, "FirmwarePermanent")
          /\ LowPages <= p /\ p < end => Owns(list, p, "LoadedProgram")
          /\ end <= p /\ p < heap => Owns(list, p, "Free")
          /\ heap <= p /\ p < stack => Owns(list, p, "OsloaderHeap")
          /\ stack <= p => Owns(list, p, "OsloaderStack")
        BY <1>5, <2>3 DEF Owns
    <2>5. QED
        BY <1>6, <1>8, <2>1, <2>2, <2>4
<1> HIDE DEF heap, stack
<1>10. \A p \in 0 .. (RamTop - 1) :
          Own[p] = IF p < LowPages THEN "FirmwarePermanent"
                   ELSE IF p < end THEN "LoadedProgram" ELSE "Free"
    BY <1>1, <1>4, ImageEnd DEF ImageEnds
<1> HIDE DEF end
<1>11. Ownership!OnlyFreeGoesTo(Own, Own', {"OsloaderHeap", "OsloaderStack"})
    BY <1>6, <1>8, <1>9, <1>10 DEF Ownership!OnlyFreeGoesTo, Ownership!RamPages
<1> DEFINE heaps == Ownership!Taken(Own, Own', "OsloaderHeap")
           stacks == Ownership!Taken(Own, Own', "OsloaderStack")
<1>12. /\ heaps = (heap .. (stack - 1)) \cap (0 .. (RamTop - 1))
       /\ stacks = (stack .. (RamTop - 1)) \cap (0 .. (RamTop - 1))
    BY <1>6, <1>8, <1>9, <1>10 DEF Ownership!Taken, Ownership!RamPages
<1> HIDE DEF heaps, stacks
<1>13. Ownership!IsRun(heaps) /\ Ownership!IsRun(stacks)
    BY <1>6, <1>8, <1>12 DEF Ownership!IsRun
<1>14. QED
    BY <1>1, <1>11, <1>13 DEF Ownership!TakeHeapAndStack, heaps, stacks

Running == phase = "up" /\ phase' = "up" /\ FullInv /\ FullInv'

LEMMA RunningLists ==
    ASSUME Running
    PROVE  /\ GoodList(mem.descs) /\ FullList(mem.descs)
           /\ GoodList(mem'.descs) /\ FullList(mem'.descs)
           /\ Own = Owned(mem.descs) /\ Own' = Owned(mem'.descs)
           /\ Ownership!Running
BY OwnOfList DEF Running, FullInv, ListInv, Ownership!Running

LEMMA HeapCallRefines ==
    ASSUME Running, NEW asked \in Nat, HeapCall(asked)
    PROVE  Ownership!GrowHeap(Own, Own')
<1>1. PICK hb, hn : HeapTakes(mem.descs, mem'.descs, hb, hn)
    BY HeapCallMoves DEF Running, FullInv
<1>2. /\ hb \in Nat /\ hn \in Nat
      /\ Moved(Own, Own', "Free", "OsloaderHeap", hb, hn, hb, hn)
    BY <1>1, RunningLists, TakesOwners
<1>3. QED
    BY <1>2, RunningLists, MovedIsGrowth DEF Ownership!GrowHeap

LEMMA AllocateDescriptorRefines ==
    ASSUME Running, NEW type \in ImageTypes \cup DataTypes, NEW base \in Bases,
           NEW count \in Counts, RoomyAllocate(type, base, count)
    PROVE  Own' = Own \/ Ownership!Grant(Own, Own', type)
<1>1. type # "OsloaderHeap" /\ type # "Free"
    BY TypesAssumption, FreeIsNotAsked
<1>2. CASE mem'.descs = mem.descs
    BY <1>2, RunningLists
<1>3. CASE Handed(mem.descs, mem'.descs, "Free", type)
    <2>1. PICK b \in Nat, n \in Nat, hb \in Nat, hn \in Nat :
             Moved(Own, Own', "Free", type, b, n, hb, hn)
        BY <1>3, RunningLists, HandedOwners
    <2>2. QED
        BY <1>1, <2>1, RunningLists, MovedIsGrant DEF Ownership!Grant
<1>4. QED
    BY <1>2, <1>3, AllocateDescriptorMoves DEF Running, FullInv

LEMMA FreeImageTailRefines ==
    ASSUME Running, NEW page \in 0 .. RamTop, FreeImageTail(page)
    PROVE  Own' = Own \/ \E type \in ImageTypes : Ownership!Reclaim(Own, Own', type)
<1>1. CASE mem'.descs = mem.descs
    BY <1>1, RunningLists
<1>2. ASSUME NEW type \in ImageTypes, Handed(mem.descs, mem'.descs, type, "Free")
      PROVE  Ownership!Reclaim(Own, Own', type)
    <2>1. type # "OsloaderHeap" /\ type # "Free"
        BY TypesAssumption, FreeIsNotAsked
    <2>2. PICK b \in Nat, n \in Nat, hb \in Nat, hn \in Nat :
             Moved(Own, Own', type, "Free", b, n, hb, hn)
        BY <1>2, RunningLists, HandedOwners
    <2>3. QED
        BY <2>1, <2>2, RunningLists, MovedIsReclaim
<1>3. QED
    BY <1>1, <1>2, FreeImageTailMoves DEF Running, FullInv

\* A step of the loader is a step of PageOwnership, or leaves it alone.
LEMMA StepRefines ==
    FullInv /\ FullInv' /\ [RoomyNext]_vars
        => Ownership!Next \/ (Stage' = Stage /\ Own' = Own)
<1> SUFFICES ASSUME FullInv, FullInv', [RoomyNext]_vars
             PROVE  Ownership!Next \/ (Stage' = Stage /\ Own' = Own)
    OBVIOUS
<1>1. CASE UNCHANGED vars
    BY <1>1 DEF vars, Stage, Own, Owner
<1>2. {Own, Own'} \subseteq [Ownership!RamPages -> Ownership!Owners]
    <2>1. Own \in [0 .. (RamTop - 1) -> PageTypes] /\ Own' \in [0 .. (RamTop - 1) -> PageTypes]
        BY OwnType, OwnTypeNext
    <2>2. QED
        BY <2>1, OwnersArePageTypes DEF Ownership!RamPages
<1>3. Ownership!Next <=> Ownership!Step(Own, Own')
    BY DEF Ownership!Next, Own
<1>4. ASSUME NEW endPage \in EndPages, BlArmFixupMemoryMap(endPage)
      PROVE  Ownership!Next
    BY <1>2, <1>3, <1>4, FixupRefines DEF Ownership!Step
<1>5. ASSUME BlMemoryInitialize
      PROVE  Ownership!Next \/ (Stage' = Stage /\ Own' = Own)
    <2>1. CASE phase' = "up"
        BY <1>2, <1>3, <1>5, <2>1, InitializeRefines DEF Ownership!Step
    <2>2. CASE phase' # "up"
        <3>1. phase = "mapped" /\ phase' = "failed" /\ firmware' = firmware
            BY <1>5, <2>2 DEF BlMemoryInitialize
        <3>2. QED
            BY <3>1, OwnOfList DEF Stage
    <2>3. QED
        BY <2>1, <2>2
<1>6. ASSUME NEW bytes \in HeapSizes, AllocateHeap(bytes) \/ BlAllocateHeapAligned(bytes)
      PROVE  Ownership!Next
    <2>1. PICK asked \in Nat : HeapCall(asked)
        BY <1>6, HeapIsCalled DEF FullInv, ListInv, TypeInv, TypeOK
    <2>2. Running
        BY <2>1 DEF HeapCall, Running
    <2>3. QED
        BY <1>2, <1>3, <2>1, <2>2, HeapCallRefines DEF Ownership!Step
<1>7. ASSUME NEW type \in ImageTypes \cup DataTypes, NEW base \in Bases,
             NEW count \in Counts, RoomyAllocate(type, base, count)
      PROVE  Ownership!Next \/ (Stage' = Stage /\ Own' = Own)
    <2>1. Running
        BY <1>7 DEF RoomyAllocate, BlAllocateDescriptor, Running
    <2>2. QED
        BY <1>2, <1>3, <1>7, <2>1, AllocateDescriptorRefines
           DEF Ownership!Step, Running, Stage
<1>8. ASSUME NEW page \in 0 .. RamTop, FreeImageTail(page)
      PROVE  Ownership!Next \/ (Stage' = Stage /\ Own' = Own)
    <2>1. Running
        BY <1>8 DEF FreeImageTail, Running
    <2>2. QED
        BY <1>2, <1>3, <1>8, <2>1, FreeImageTailRefines
           DEF Ownership!Step, Running, Stage
<1>9. QED
    BY <1>1, <1>4, <1>5, <1>6, <1>7, <1>8, Zenon DEF RoomyNext, Setup, HeapCalls

\* The descriptor list and the boot heap implement exclusive page ownership,
\* whatever the size of memory and the order of the requests: pages in use
\* change hands only when an image gives its tail back.
THEOREM PagesHaveOneOwner == RoomySpec => ImplementsPageOwnership
<1>1. FullInv /\ FullInv' /\ [RoomyNext]_vars => [Ownership!Next]_(Ownership!vars)
    BY StepRefines DEF Ownership!vars, Stage, Own
<1>2. QED
    BY <1>1, InitOwnership, AlwaysFullInv, PTL
       DEF RoomySpec, ImplementsPageOwnership, Ownership!Spec

-----------------------------------------------------------------------------
(* The heap as an arena of bytes: objects and heaps are [at, bytes].       *)

Clear(a, b) == a.at + a.bytes <= b.at \/ b.at + b.bytes <= a.at

Within(a, h) == h.at <= a.at /\ a.at + a.bytes <= h.at + h.bytes

IsBytes(a) == a.at \in Nat /\ a.bytes \in Nat

Reserved(limit) == [of |-> "next", nth |-> 0, at |-> limit, bytes |-> DescBytes]

\* The objects share no byte and lie in the heaps, none in the open part of the
\* newest heap, from free to the end of the slot reserved at its limit.
Arena(O, H, free, limit) ==
    /\ free \in Nat /\ limit \in Nat /\ free <= limit
    /\ \A a \in O \cup H : IsBytes(a)
    /\ \A a, b \in O : a # b => Clear(a, b)
    /\ \A a \in O : a.at + a.bytes <= free \/ limit + DescBytes <= a.at
    /\ \A a \in O : \E h \in H : Within(a, h)
    /\ \E h \in H : h.at <= free /\ limit + DescBytes <= h.at + h.bytes

LEMMA DescBytesNat == DescBytes \in Nat
BY SizesAssumption

\* An allocation that fits, with or without an object in it.
LEMMA ArenaBump ==
    ASSUME NEW O, NEW H, NEW free, NEW limit, Arena(O, H, free, limit),
           NEW size \in Nat, free + size <= limit
    PROVE  Arena(O, H, free + size, limit)
<1>1. ASSUME NEW a \in O
      PROVE  a.at + a.bytes <= free + size \/ limit + DescBytes <= a.at
    BY DescBytesNat DEF Arena, IsBytes
<1>2. \E h \in H : h.at <= free + size /\ limit + DescBytes <= h.at + h.bytes
    BY DescBytesNat DEF Arena, IsBytes
<1>3. free \in Nat /\ limit \in Nat /\ free + size \in Nat
    BY DEF Arena
<1>4. QED
    BY <1>1, <1>2, <1>3, Zenon DEF Arena

LEMMA ArenaFits ==
    ASSUME NEW O, NEW H, NEW free, NEW limit, Arena(O, H, free, limit),
           NEW size \in Nat, free + size <= limit,
           NEW o, IsBytes(o), free <= o.at, o.at + o.bytes <= free + size
    PROVE  Arena(O \cup {o}, H, free + size, limit)
<1>1. Arena(O, H, free + size, limit)
    BY ArenaBump
<1>2. free \in Nat /\ limit \in Nat /\ DescBytes \in Nat
      /\ o.at \in Nat /\ o.bytes \in Nat
    BY DescBytesNat DEF Arena, IsBytes
<1>3. ASSUME NEW a \in O
      PROVE  Clear(a, o) /\ Clear(o, a)
    BY <1>2 DEF Arena, IsBytes, Clear
<1>4. o.at + o.bytes <= free + size
    OBVIOUS
<1>5. \E h \in H : Within(o, h)
    <2>1. PICK h \in H : h.at <= free /\ limit + DescBytes <= h.at + h.bytes
        BY DEF Arena
    <2>2. h.at \in Nat /\ h.bytes \in Nat
        BY DEF Arena, IsBytes
    <2>3. Within(o, h)
        BY <1>2, <2>1, <2>2 DEF Within
    <2>4. QED
        BY <2>3
<1>6. QED
    BY <1>1, <1>3, <1>4, <1>5, Zenon DEF Arena

\* Growth: a heap clear of the others, whose descriptor goes in the old heap's
\* reserved slot.
LEMMA ArenaGrows ==
    ASSUME NEW O, NEW H, NEW free, NEW limit, Arena(O, H, free, limit),
           NEW h, IsBytes(h), DescBytes <= h.bytes, \A g \in H : Clear(g, h),
           NEW o, o.at = limit, o.bytes = DescBytes
    PROVE  Arena(O \cup {o}, H \cup {h}, h.at, h.at + h.bytes - DescBytes)
<1>1. /\ free \in Nat /\ limit \in Nat /\ free <= limit /\ DescBytes \in Nat
      /\ h.at \in Nat /\ h.bytes \in Nat /\ IsBytes(o)
      /\ o.at \in Nat /\ o.bytes \in Nat
    BY DescBytesNat DEF Arena, IsBytes
<1> DEFINE last == h.at + h.bytes - DescBytes
<1>2. last \in Nat /\ h.at <= last /\ last + DescBytes = h.at + h.bytes
    BY <1>1
<1> HIDE DEF last
<1>3. ASSUME NEW a \in O PROVE Clear(a, o) /\ Clear(o, a)
    BY <1>1 DEF Arena, IsBytes, Clear
<1>4. \E g \in H : Within(o, g)
    <2>1. PICK g \in H : g.at <= free /\ limit + DescBytes <= g.at + g.bytes
        BY DEF Arena
    <2>2. g.at \in Nat /\ g.bytes \in Nat
        BY DEF Arena, IsBytes
    <2>3. Within(o, g)
        BY <1>1, <2>1, <2>2 DEF Within
    <2>4. QED
        BY <2>3
<1>5. ASSUME NEW a \in O \cup {o}
      PROVE  /\ \E g \in H : Within(a, g)
             /\ a.at + a.bytes <= h.at \/ last + DescBytes <= a.at
    <2>1. PICK g \in H : Within(a, g)
        BY <1>4 DEF Arena
    <2>2. Clear(g, h)
        OBVIOUS
    <2>3. IsBytes(a) /\ IsBytes(g)
        BY <1>1 DEF Arena
    <2>4. a.at + a.bytes <= h.at \/ h.at + h.bytes <= a.at
        BY <1>1, <2>1, <2>2, <2>3 DEF Within, Clear, IsBytes
    <2>5. QED
        BY <1>2, <2>1, <2>4
<1>6. /\ \A a \in (O \cup {o}) \cup (H \cup {h}) : IsBytes(a)
      /\ \A a, b \in O \cup {o} : a # b => Clear(a, b)
    BY <1>1, <1>3, Zenon DEF Arena
<1>7. h.at <= h.at /\ last + DescBytes <= h.at + h.bytes
    BY <1>1, <1>2
<1>8. Arena(O \cup {o}, H \cup {h}, h.at, last)
    BY <1>1, <1>2, <1>5, <1>6, <1>7, Zenon DEF Arena
<1>9. QED
    BY <1>8 DEF last

-----------------------------------------------------------------------------
(* The arena of a descriptor list.                                         *)

Slot(s, i) == [of |-> "list", nth |-> i, at |-> s[i].at, bytes |-> DescBytes]

Slots(s) == {Slot(s, i) : i \in DOMAIN s}

Block(B, i) == [of |-> "caller", nth |-> i, at |-> B[i].at, bytes |-> B[i].bytes]

BlocksOf(B) == {Block(B, i) : i \in DOMAIN B}

HeapOf(d) == [at |-> d.base * PageBytes, bytes |-> d.count * PageBytes]

Heaps(s) == {HeapOf(s[i]) : i \in {j \in DOMAIN s : s[j].type = "OsloaderHeap"}}

Sound(O, m) == Arena(O \cup Slots(m.descs), Heaps(m.descs), m.free, m.limit)

\* The heaps lie apart from the other descriptors.
HeapsApart(s) ==
    \A i, j \in DOMAIN s : (i # j /\ s[i].type = "OsloaderHeap") => Apart(s[i], s[j])

LEMMA GoodHeapsApart == \A s : GoodList(s) => HeapsApart(s)
BY DEF GoodList, HeapsApart

LEMMA AppendSlots ==
    ASSUME NEW s \in Seq(Descriptors), NEW e \in Descriptors
    PROVE  LET t == Append(s, e)
           IN  /\ Slots(t) = Slots(s) \cup {[of |-> "list", nth |-> Len(s) + 1,
                                             at |-> e.at, bytes |-> DescBytes]}
               /\ e.type # "OsloaderHeap" => Heaps(t) = Heaps(s)
               /\ e.type = "OsloaderHeap" => Heaps(t) = Heaps(s) \cup {HeapOf(e)}
<1> DEFINE t == Append(s, e)
<1>1. /\ Len(t) = Len(s) + 1 /\ Len(s) \in Nat /\ t \in Seq(Descriptors)
      /\ \A j \in 1 .. Len(s) : t[j] = s[j]
      /\ t[Len(s) + 1] = e
    BY AppendProperties, LenProperties
<1>2. DOMAIN s = 1 .. Len(s) /\ DOMAIN t = 1 .. (Len(s) + 1)
    BY <1>1, LenProperties
<1> HIDE DEF t
<1> DEFINE n == Len(s) + 1
<1>3. DOMAIN t = DOMAIN s \cup {n} /\ n \notin DOMAIN s
    BY <1>1, <1>2
<1>4. \A j \in DOMAIN s : t[j] = s[j]
    BY <1>1, <1>2
<1>5. t[n] = e
    BY <1>1
<1> HIDE DEF n
<1>6. Slots(t) = Slots(s) \cup {[of |-> "list", nth |-> n, at |-> e.at, bytes |-> DescBytes]}
    BY <1>3, <1>4, <1>5 DEF Slots, Slot
<1>7. e.type # "OsloaderHeap" => Heaps(t) = Heaps(s)
    BY <1>3, <1>4, <1>5 DEF Heaps
<1>8. e.type = "OsloaderHeap" => Heaps(t) = Heaps(s) \cup {HeapOf(e)}
    BY <1>3, <1>4, <1>5 DEF Heaps
<1>9. QED
    BY <1>6, <1>7, <1>8 DEF t, n

\* A change of a descriptor that is not a heap.
LEMMA ExceptSlots ==
    ASSUME NEW s, NEW i \in DOMAIN s, NEW d, s[i].type # "OsloaderHeap",
           d.type # "OsloaderHeap", d.at = s[i].at
    PROVE  Slots([s EXCEPT ![i] = d]) = Slots(s) /\ Heaps([s EXCEPT ![i] = d]) = Heaps(s)
<1> DEFINE t == [s EXCEPT ![i] = d]
<1>1. DOMAIN t = DOMAIN s /\ t[i] = d /\ \A j \in DOMAIN s \ {i} : t[j] = s[j]
    OBVIOUS
<1> HIDE DEF t
<1>2. \A j \in DOMAIN s : t[j].at = s[j].at
    BY <1>1
<1>3. Slots(t) = Slots(s)
    BY <1>1, <1>2 DEF Slots, Slot
<1>4. \A j \in DOMAIN s : /\ t[j].type = "OsloaderHeap" <=> s[j].type = "OsloaderHeap"
                          /\ t[j].type = "OsloaderHeap" => t[j] = s[j]
    BY <1>1
<1>5. Heaps(t) = Heaps(s)
    BY <1>1, <1>4 DEF Heaps
<1>6. QED
    BY <1>3, <1>5 DEF t

-----------------------------------------------------------------------------
(* The heap.                                                               *)

\* Pages apart are bytes apart.
LEMMA ApartIsClear ==
    ASSUME NEW d, NEW e, d.base \in Nat, d.count \in Nat, e.base \in Nat, e.count \in Nat,
           Apart(d, e)
    PROVE  Clear(HeapOf(d), HeapOf(e)) /\ Clear(HeapOf(e), HeapOf(d))
<1>1. PageBytes \in Nat
    BY SizesAssumption
<1>2. ASSUME NEW a \in Nat, NEW b \in Nat, NEW c \in Nat, a + b <= c
      PROVE  a * PageBytes + b * PageBytes <= c * PageBytes
    <2>1. c - (a + b) \in Nat
        BY <1>2
    <2>2. (c - (a + b)) * PageBytes \in Nat
        BY <1>1, <2>1
    <2>3. c * PageBytes = a * PageBytes + b * PageBytes + (c - (a + b)) * PageBytes
        BY <1>1
    <2>4. a * PageBytes \in Nat /\ b * PageBytes \in Nat
        BY <1>1
    <2>5. QED
        BY <2>2, <2>3, <2>4
<1>3. \/ HeapOf(d).at + HeapOf(d).bytes <= HeapOf(e).at
      \/ HeapOf(e).at + HeapOf(e).bytes <= HeapOf(d).at
    BY <1>2 DEF Apart, HeapOf
<1>4. QED
    BY <1>3 DEF Clear

\* What BlAllocateHeap hands out, and where it leaves free and limit.
LEMMA HeapHands ==
    ASSUME NEW m \in Memories, RamList(m.descs), NEW bytes \in Nat,
           NEW heap, heap = BlAllocateHeap(m, bytes),
           NEW pages, pages = NewHeapPages(Round(bytes)),
           NEW donor, donor = First(HeapDonors(m, pages)),
           NEW start, start = (m.descs[donor].base + (m.descs[donor].count - pages))
                                  * PageBytes
    PROVE  \/ /\ m.free + Round(bytes) <= m.limit
              /\ heap.ok /\ heap.block = m.free
              /\ heap.mem.descs = m.descs
              /\ heap.mem.free = m.free + Round(bytes) /\ heap.mem.limit = m.limit
           \/ ~heap.ok /\ heap.mem = m
           \/ /\ donor \in HeapDonors(m, pages)
              /\ heap.ok /\ heap.block = start
              /\ heap.mem.descs = GrownList(m.descs, donor, pages, m.limit)
              /\ heap.mem.free = start + Round(bytes)
              /\ heap.mem.limit = start + pages * PageBytes - DescBytes
              /\ start + Round(bytes) < heap.mem.limit
<1> DEFINE size == Round(bytes)
           grown == GrowHeap(m, pages)
           room == m.free + size <= m.limit
<1>1. size \in Nat
    BY RoundBounds
<1>2. heap = IF room
             THEN [ok |-> TRUE, block |-> m.free, mem |-> [m EXCEPT !.free = @ + size]]
             ELSE IF HeapDonors(m, pages) = {}
             THEN [ok |-> FALSE, block |-> 0, mem |-> m]
             ELSE IF grown.free + size < grown.limit
             THEN [ok |-> TRUE, block |-> grown.free,
                   mem |-> [grown EXCEPT !.free = @ + size]]
             ELSE [ok |-> FALSE, block |-> 0, mem |-> grown]
    BY DEF BlAllocateHeap
<1> HIDE DEF size
<1>3. CASE room
    <2>1. heap = [ok |-> TRUE, block |-> m.free, mem |-> [m EXCEPT !.free = @ + size]]
        BY <1>2, <1>3
    <2>2. heap.ok /\ heap.block = m.free /\ heap.mem = [m EXCEPT !.free = @ + size]
        BY <2>1
    <2>3. heap.mem.descs = m.descs /\ heap.mem.limit = m.limit /\ heap.mem.free = m.free + size
        BY <1>1, <2>2, BumpProperties
    <2>4. QED
        BY <1>3, <2>2, <2>3 DEF size
<1>4. CASE ~room /\ HeapDonors(m, pages) = {}
    <2>1. heap = [ok |-> FALSE, block |-> 0, mem |-> m]
        BY <1>2, <1>4
    <2>2. QED
        BY <2>1
<1>5. CASE ~room /\ HeapDonors(m, pages) # {}
    <2>1. /\ donor \in HeapDonors(m, pages)
          /\ grown.descs = GrownList(m.descs, donor, pages, m.limit)
          /\ grown.free \in Nat /\ grown.limit \in Nat
          /\ grown.free + size < grown.limit
          /\ grown.free = start
          /\ grown.limit = grown.free + pages * PageBytes - DescBytes
        BY <1>1, <1>5, GrowStep DEF size
    <2>2. grown \in Memories
        <3>1. pages \in Nat
            BY <1>1, NewHeapPagesBounds DEF size
        <3>2. QED
            BY <1>5, <3>1, GrowHeapType
    <2> HIDE DEF grown
    <2>3. heap = [ok |-> TRUE, block |-> grown.free,
                  mem |-> [grown EXCEPT !.free = @ + size]]
        BY <1>2, <1>5, <2>1, Zenon
    <2>4. heap.ok /\ heap.block = grown.free /\ heap.mem = [grown EXCEPT !.free = @ + size]
        BY <2>3
    <2>5. /\ heap.mem.descs = grown.descs /\ heap.mem.limit = grown.limit
          /\ heap.mem.free = grown.free + size
        BY <1>1, <2>2, <2>4, BumpProperties
    <2>6. heap.mem.free = start + size
        BY <2>1, <2>5
    <2>7. heap.mem.limit = start + pages * PageBytes - DescBytes
        BY <2>1, <2>5
    <2>8. start + size < heap.mem.limit
        BY <2>1, <2>5
    <2>9. QED
        BY <2>1, <2>4, <2>5, <2>6, <2>7, <2>8, Zenon DEF size
<1>6. QED
    BY <1>3, <1>4, <1>5

\* The list's arena after growth, before anything is allocated from it.
LEMMA GrownSound ==
    ASSUME NEW O, NEW s, RamList(s), HeapsApart(s), NEW free, NEW limit \in Nat,
           Arena(O \cup Slots(s), Heaps(s), free, limit), NEW donor \in DOMAIN s,
           s[donor].type = "Free", NEW pages \in Nat, pages >= HeapPages,
           pages <= s[donor].count
    PROVE  LET t == GrownList(s, donor, pages, limit)
               start == (s[donor].base + (s[donor].count - pages)) * PageBytes
           IN  Arena(O \cup Slots(t), Heaps(t), start, start + pages * PageBytes - DescBytes)
<1> DEFINE left == s[donor].count - pages
           from == s[donor].base + left
           d == [s[donor] EXCEPT !.count = left]
           e == [type |-> "OsloaderHeap", base |-> from, count |-> pages, at |-> limit]
           r == [s EXCEPT ![donor] = d]
           t == Append(r, e)
<1>1. /\ s \in Seq(Descriptors) /\ donor \in 1 .. Len(s) /\ Len(s) \in Nat
      /\ s[donor] \in Descriptors /\ s[donor].base \in Nat /\ s[donor].count \in Nat
      /\ s[donor].base + s[donor].count <= RamTop
    <2>1. s \in Seq(Descriptors) /\ InRam(s[donor])
        BY DEF RamList
    <2>2. QED
        BY <2>1, ListFields DEF InRam
<1>2. left \in 0 .. RamTop /\ pages \in 0 .. RamTop /\ from \in 0 .. RamTop
    <2>1. RamTop \in Nat
        BY SizesAssumption
    <2>2. QED
        BY <1>1, <2>1, GrowArithmetic
<1>3. left \in ULongs /\ pages \in ULongs /\ from \in ULongs
    BY <1>2, RamIsULong
<1>5. /\ d \in Descriptors /\ d.type = s[donor].type /\ d.at = s[donor].at
    BY <1>1, <1>3 DEF Descriptors
<1>6. /\ e \in Descriptors /\ e.type = "OsloaderHeap" /\ e.base = from
      /\ e.count = pages /\ e.at = limit
    BY <1>1, <1>3 DEF Descriptors, PageTypes
<1>7. from + pages = s[donor].base + s[donor].count /\ from >= s[donor].base /\ from \in Nat
    BY <1>1, <1>2
<1>4. GrownList(s, donor, pages, limit) = t
    BY Zenon DEF GrownList
<1> HIDE DEF left, from, d, e
<1>8. Slots(r) = Slots(s) /\ Heaps(r) = Heaps(s)
    BY <1>5, ExceptSlots
<1>9. r \in Seq(Descriptors) /\ Len(r) = Len(s)
    BY <1>1, <1>5, ExceptSeq
<1> HIDE DEF r
<1> DEFINE o == [of |-> "list", nth |-> Len(s) + 1, at |-> e.at, bytes |-> DescBytes]
<1>10. Slots(t) = Slots(s) \cup {o} /\ Heaps(t) = Heaps(s) \cup {HeapOf(e)}
    <2>1. Slots(t) = Slots(r) \cup {[of |-> "list", nth |-> Len(r) + 1, at |-> e.at,
                                     bytes |-> DescBytes]}
        BY <1>6, <1>9, AppendSlots
    <2>2. Heaps(t) = Heaps(r) \cup {HeapOf(e)}
        BY <1>6, <1>9, AppendSlots
    <2>3. QED
        BY ONLY <1>8, <1>9, <2>1, <2>2 DEF o
<1> HIDE DEF t
<1>11. \A g \in Heaps(s) : Clear(g, HeapOf(e))
    <2>1. ASSUME NEW i \in DOMAIN s, s[i].type = "OsloaderHeap"
          PROVE  Clear(HeapOf(s[i]), HeapOf(e))
        <3>1. i # donor
            BY <2>1
        <3>2. Apart(s[i], s[donor])
            BY <2>1, <3>1 DEF HeapsApart
        <3>3. s[i].base \in Nat /\ s[i].count \in Nat
            BY <1>1, ListFields
        <3>4. Apart(s[i], e)
            BY <1>1, <1>6, <1>7, <3>2, <3>3 DEF Apart
        <3>5. QED
            BY <1>6, <1>7, <3>3, <3>4, ApartIsClear
    <2>2. QED
        BY <2>1 DEF Heaps
<1>12. /\ pages * PageBytes \in Nat /\ DescBytes <= pages * PageBytes
       /\ from * PageBytes \in Nat
    <2>1. pages * PageBytes \in Nat /\ from * PageBytes \in Nat
        BY <1>2, BytesInRam
    <2>2. /\ 2 * Round(DescBytes) + DescBytes <= pages * PageBytes
          /\ Round(DescBytes) \in Nat
        BY FirstHeapHolds
    <2>3. QED
        BY <2>1, <2>2, DescBytesNat
<1>13. HeapOf(e).at = from * PageBytes /\ HeapOf(e).bytes = pages * PageBytes
    BY <1>6 DEF HeapOf
<1>14. IsBytes(HeapOf(e)) /\ DescBytes <= HeapOf(e).bytes
    BY <1>12, <1>13 DEF IsBytes
<1>15. Arena((O \cup Slots(s)) \cup {o}, Heaps(s) \cup {HeapOf(e)}, HeapOf(e).at,
             HeapOf(e).at + HeapOf(e).bytes - DescBytes)
    <2>1. o.at = limit /\ o.bytes = DescBytes
        BY <1>6
    <2> HIDE DEF o
    <2>2. QED
        BY <1>11, <1>14, <2>1, ArenaGrows
<1>16. (O \cup Slots(s)) \cup {o} = O \cup Slots(t)
    BY <1>10
<1>17. Arena(O \cup Slots(t), Heaps(t), from * PageBytes,
             from * PageBytes + pages * PageBytes - DescBytes)
    BY <1>10, <1>13, <1>15, <1>16
<1>18. QED
    BY <1>4, <1>17 DEF from, left

\* An object that lies in what BlAllocateHeap handed out.
Placed(x, at, bytes) == IsBytes(x) /\ at <= x.at /\ x.at + x.bytes <= at + bytes

\* However the heap grows for it, an allocation can hold an object.
LEMMA HeapSafe ==
    ASSUME NEW O, NEW m \in Memories, RamList(m.descs), HeapsApart(m.descs), Sound(O, m),
           NEW bytes \in Nat, NEW heap, heap = BlAllocateHeap(m, bytes), heap.ok,
           NEW x, Placed(x, heap.block, Round(bytes))
    PROVE  Sound(O \cup {x}, heap.mem)
<1> DEFINE s == m.descs
           size == Round(bytes)
           pages == NewHeapPages(size)
           donor == First(HeapDonors(m, pages))
           start == (s[donor].base + (s[donor].count - pages)) * PageBytes
<1>1. size \in Nat /\ m.limit \in Nat
    BY RoundBounds DEF Memories
<1>2. pages \in Nat /\ pages >= HeapPages
    <2> HIDE DEF size
    <2>1. QED
        BY <1>1, NewHeapPagesBounds
<1>3. \/ /\ m.free + size <= m.limit
         /\ heap.block = m.free
         /\ heap.mem.descs = s
         /\ heap.mem.free = m.free + size /\ heap.mem.limit = m.limit
      \/ /\ donor \in HeapDonors(m, pages)
         /\ heap.block = start
         /\ heap.mem.descs = GrownList(s, donor, pages, m.limit)
         /\ heap.mem.free = start + size
         /\ heap.mem.limit = start + pages * PageBytes - DescBytes
         /\ start + size < heap.mem.limit
    BY HeapHands
<1>4. IsBytes(x) /\ heap.block <= x.at /\ x.at + x.bytes <= heap.block + size
    BY DEF Placed
<1> HIDE DEF size, pages, donor, start
<1>5. \A S : (O \cup S) \cup {x} = (O \cup {x}) \cup S
    OBVIOUS
<1>6. CASE /\ m.free + size <= m.limit
           /\ heap.block = m.free
           /\ heap.mem.descs = s
           /\ heap.mem.free = m.free + size /\ heap.mem.limit = m.limit
    <2>1. Arena(O \cup Slots(s), Heaps(s), m.free, m.limit)
        BY DEF Sound
    <2>2. Arena((O \cup Slots(s)) \cup {x}, Heaps(s), m.free + size, m.limit)
        BY <1>1, <1>4, <1>6, <2>1, ArenaFits
    <2>3. QED
        BY <1>5, <1>6, <2>2 DEF Sound
<1>7. CASE /\ donor \in HeapDonors(m, pages)
           /\ heap.block = start
           /\ heap.mem.descs = GrownList(s, donor, pages, m.limit)
           /\ heap.mem.free = start + size
           /\ heap.mem.limit = start + pages * PageBytes - DescBytes
           /\ start + size < heap.mem.limit
    <2> DEFINE t == GrownList(s, donor, pages, m.limit)
               last == start + pages * PageBytes - DescBytes
    <2>1. donor \in DOMAIN s /\ s[donor].type = "Free" /\ s[donor].count >= pages
        BY <1>7 DEF HeapDonors
    <2>2. s[donor].count \in Nat
        BY <2>1, ListFields DEF RamList
    <2>3. pages <= s[donor].count
        BY <1>2, <2>1, <2>2
    <2>4. Arena(O \cup Slots(s), Heaps(s), m.free, m.limit)
        BY DEF Sound
    <2>5. RamList(s) /\ HeapsApart(s)
        OBVIOUS
    <2> HIDE DEF s
    <2>6. Arena(O \cup Slots(t), Heaps(t), start, last)
        BY <1>1, <1>2, <2>1, <2>3, <2>4, <2>5, GrownSound DEF start
    <2>7. heap.mem.descs = t /\ heap.mem.limit = last /\ heap.mem.free = start + size
        BY <1>7
    <2> HIDE DEF t, last
    <2>8. start \in Nat /\ last \in Nat /\ heap.block = start
        BY <1>7, <2>6 DEF Arena
    <2>9. start + size <= last
        BY <1>1, <1>7, <2>7, <2>8
    <2>10. Arena((O \cup Slots(t)) \cup {x}, Heaps(t), start + size, last)
        BY <1>1, <1>4, <2>6, <2>8, <2>9, ArenaFits
    <2>11. QED
        BY <1>5, <2>7, <2>10 DEF Sound
<1>8. QED
    BY <1>3, <1>6, <1>7

\* Growth leaves a descriptor's type alone.
LEMMA HeapKeepsType ==
    ASSUME NEW m \in Memories, RamList(m.descs), NEW bytes \in Nat, NEW i \in DOMAIN m.descs
    PROVE  LET t == BlAllocateHeap(m, bytes).mem.descs
           IN  i \in DOMAIN t /\ t[i].type = m.descs[i].type
<1> DEFINE heap == BlAllocateHeap(m, bytes)
           pages == NewHeapPages(Round(bytes))
           donor == First(HeapDonors(m, pages))
           s == m.descs
<1>1. pages \in Nat /\ m.limit \in Nat
    BY RoundBounds, NewHeapPagesBounds DEF Memories
<1> HIDE DEF pages
<1>2. \/ heap.mem.descs = s
      \/ /\ donor \in HeapDonors(m, pages)
         /\ heap.mem.descs = GrownList(s, donor, pages, m.limit)
    BY HeapStep DEF pages, donor
<1> HIDE DEF donor, heap
<1>3. CASE heap.mem.descs = s
    BY <1>3 DEF heap
<1>4. CASE /\ donor \in HeapDonors(m, pages)
           /\ heap.mem.descs = GrownList(s, donor, pages, m.limit)
    <2>1. donor \in DOMAIN s /\ s[donor].count >= pages
        BY <1>4 DEF HeapDonors
    <2>2. s[donor].count \in Nat
        BY <2>1, ListFields DEF RamList
    <2>3. pages <= s[donor].count
        BY <1>1, <2>1, <2>2
    <2>4. QED
        BY <1>1, <1>4, <2>1, <2>3, GrownFields DEF heap
<1>5. QED
    BY <1>2, <1>3, <1>4

\* The allocation becomes the descriptor's slot.
LEMMA AddSound ==
    ASSUME NEW O, NEW m \in Memories, NEW type \in PageTypes, type # "OsloaderHeap",
           NEW base \in ULongs, NEW count \in ULongs, NEW at \in Nat,
           \A x : Placed(x, at, Round(DescBytes)) => Sound(O \cup {x}, m)
    PROVE  Sound(O, AddDescriptor(m, type, base, count, at))
<1> DEFINE e == [type |-> type, base |-> base, count |-> count, at |-> at]
           x == [of |-> "list", nth |-> Len(m.descs) + 1, at |-> at, bytes |-> DescBytes]
           t == Append(m.descs, e)
           added == AddDescriptor(m, type, base, count, at)
<1>1. e \in Descriptors /\ e.type = type /\ e.at = at
    BY DEF Descriptors
<1>2. m.descs \in Seq(Descriptors)
    BY DEF Memories
<1>3. added = [descs |-> t, free |-> m.free, limit |-> m.limit]
    BY AddDescriptorShape
<1>4. Round(DescBytes) \in Nat /\ DescBytes <= Round(DescBytes) /\ DescBytes \in Nat
    BY DescBytesNat, RoundBounds
<1>5. Placed(x, at, Round(DescBytes))
    BY <1>4 DEF Placed, IsBytes
<1>6. Sound(O \cup {x}, m)
    BY <1>5
<1> HIDE DEF e, added
<1>7. Slots(t) = Slots(m.descs) \cup {x} /\ Heaps(t) = Heaps(m.descs)
    BY <1>1, <1>2, AppendSlots
<1> HIDE DEF t, x
<1>8. (O \cup {x}) \cup Slots(m.descs) = O \cup Slots(t)
    BY <1>7
<1>9. Arena(O \cup Slots(t), Heaps(t), m.free, m.limit)
    BY <1>6, <1>7, <1>8 DEF Sound
<1>10. QED
    BY <1>3, <1>9 DEF Sound, added

LEMMA ReplaceSound ==
    ASSUME NEW O, NEW m \in Memories, Sound(O, m), NEW i \in DOMAIN m.descs, NEW d,
           m.descs[i].type # "OsloaderHeap", d.type # "OsloaderHeap",
           d.at = m.descs[i].at
    PROVE  Sound(O, [m EXCEPT !.descs[i] = d])
<1> DEFINE t == [m.descs EXCEPT ![i] = d]
<1>1. [m EXCEPT !.descs[i] = d] = [descs |-> t, free |-> m.free, limit |-> m.limit]
    BY ReplaceShape
<1>2. Slots(t) = Slots(m.descs) /\ Heaps(t) = Heaps(m.descs)
    BY ExceptSlots
<1> HIDE DEF t
<1>3. QED
    BY <1>1, <1>2 DEF Sound

LEMMA ResizeSound ==
    ASSUME NEW O, NEW m \in Memories, Sound(O, m), NEW i \in DOMAIN m.descs,
           m.descs[i].type # "OsloaderHeap", NEW base, NEW count
    PROVE  Sound(O, Resize(m, i, base, count))
<1> DEFINE d == Resized(m.descs[i], base, count)
<1>1. Resize(m, i, base, count) = [m EXCEPT !.descs[i] = d]
    BY DEF Resize, Resized
<1>2. m.descs[i] \in Descriptors
    BY ListFields DEF Memories
<1>3. d.type = m.descs[i].type /\ d.at = m.descs[i].at
    BY <1>2 DEF Resized, Descriptors
<1> HIDE DEF d
<1>4. QED
    BY <1>1, <1>3, ReplaceSound

LEMMA SetTypeSound ==
    ASSUME NEW O, NEW m \in Memories, Sound(O, m), NEW i \in DOMAIN m.descs,
           m.descs[i].type # "OsloaderHeap", NEW type, type # "OsloaderHeap"
    PROVE  Sound(O, [m EXCEPT !.descs[i].type = type])
<1> DEFINE d == [m.descs[i] EXCEPT !.type = type]
<1>1. [m EXCEPT !.descs[i].type = type] = [m EXCEPT !.descs[i] = d]
    OBVIOUS
<1>2. m.descs[i] \in Descriptors
    BY ListFields DEF Memories
<1>3. d.type = type /\ d.at = m.descs[i].at
    BY <1>2 DEF Descriptors
<1> HIDE DEF d
<1>4. QED
    BY <1>1, <1>3, ReplaceSound

\* Splitting a free descriptor: its tail's slot comes from a second allocation.
LEMMA SplitMiddleSound ==
    ASSUME NEW O, NEW m \in Memories, RamList(m.descs), HeapsApart(m.descs), Sound(O, m),
           NEW i \in DOMAIN m.descs, m.descs[i].type # "OsloaderHeap",
           NEW base \in ULongs, NEW count \in ULongs, NEW offset \in ULongs
    PROVE  Sound(O, SplitMiddle(m, i, base, count, offset).mem)
<1> DEFINE heap == BlAllocateHeap(m, DescBytes)
           grown == heap.mem
           from == Wrap(base + count)
           rest == Wrap(grown.descs[i].count - (count + offset))
           added == AddDescriptor(grown, "Free", from, rest, heap.block)
           result == SplitMiddle(m, i, base, count, offset)
<1>1. result = IF ~heap.ok
               THEN [status |-> "ENOMEM", mem |-> grown]
               ELSE [status |-> "ESUCCESS",
                     mem |-> Resize(added, i, added.descs[i].base, offset)]
    BY Zenon DEF SplitMiddle
<1>2. grown \in Memories /\ heap.block \in Nat
    BY AllocateHeapType, DescBytesNat
<1>3. i \in DOMAIN grown.descs /\ grown.descs[i].type # "OsloaderHeap"
    BY HeapKeepsType, DescBytesNat
<1>4. ~heap.ok => grown = m
    BY HeapHands, DescBytesNat
<1>5. heap.ok => \A x : Placed(x, heap.block, Round(DescBytes)) => Sound(O \cup {x}, grown)
    BY HeapSafe, DescBytesNat
<1> HIDE DEF heap, grown
<1>6. from \in ULongs /\ rest \in ULongs
    BY <1>2, <1>3, DescriptorFields, WrapOfSums
<1> HIDE DEF from, rest, result
<1>7. "Free" \in PageTypes /\ "Free" # "OsloaderHeap"
    BY DEF PageTypes, FirmwareTypes
<1>8. CASE ~heap.ok
    BY <1>1, <1>4, <1>8 DEF result
<1>9. CASE heap.ok
    <2>1. Sound(O, added)
        BY <1>2, <1>5, <1>6, <1>7, <1>9, AddSound
    <2>2. added \in Memories
        BY <1>2, <1>6, <1>7, AddDescriptorType
    <2>3. i \in DOMAIN added.descs /\ added.descs[i] = grown.descs[i]
        <3>1. added.descs = Append(grown.descs, [type |-> "Free", base |-> from,
                                                 count |-> rest, at |-> heap.block])
            BY <1>2, AddDescriptorShape
        <3>2. grown.descs \in Seq(Descriptors)
            BY <1>2 DEF Memories
        <3> HIDE DEF added
        <3>3. QED
            BY <1>3, <3>1, <3>2
    <2> HIDE DEF added
    <2>4. Sound(O, Resize(added, i, added.descs[i].base, offset))
        BY <1>3, <2>1, <2>2, <2>3, ResizeSound
    <2>5. QED
        BY <1>1, <1>9, <2>4 DEF result
<1>10. QED
    BY <1>8, <1>9

\* Once there is memory for the new descriptor.
LEMMA RestSound ==
    ASSUME NEW O, NEW m \in Memories, GoodList(m.descs), NEW i \in DOMAIN m.descs,
           m.descs[i].type # "OsloaderHeap",
           NEW type \in PageTypes, type # "OsloaderHeap",
           NEW base \in ULongs, NEW count \in ULongs, NEW offset \in ULongs,
           Covers(m.descs[i], base, count, offset), NEW block \in Nat,
           \A x : Placed(x, block, Round(DescBytes)) => Sound(O \cup {x}, m)
    PROVE  Sound(O, Rest(m, i, type, base, count, offset, block).mem)
<1> DEFINE added == AddDescriptor(m, type, base, count, block)
           e == [type |-> type, base |-> base, count |-> count, at |-> block]
<1>1. Sound(O, added) /\ added \in Memories
    BY AddSound, AddDescriptorType
<1>2. added.descs = Append(m.descs, e)
    BY AddDescriptorShape
<1>3. m.descs \in Seq(Descriptors) /\ RamList(m.descs)
    BY DEF Memories, GoodList
<1> HIDE DEF added
<1>4. /\ i \in DOMAIN added.descs /\ added.descs[i] = m.descs[i]
      /\ \A j \in DOMAIN m.descs : added.descs[j] = m.descs[j]
      /\ \A j \in DOMAIN added.descs : j \in DOMAIN m.descs \/ added.descs[j] = e
    <2>1. e \in Descriptors
        BY DEF Descriptors
    <2> HIDE DEF e
    <2>2. QED
        BY <1>2, <1>3, <2>1
<1>5. RamList(added.descs) /\ HeapsApart(added.descs)
    <2>1. /\ m.descs[i].base \in Nat /\ m.descs[i].count \in Nat
          /\ InRam(m.descs[i]) /\ base \in Nat /\ count \in Nat /\ offset \in Nat
          /\ RamTop \in Nat
        BY <1>3, ListFields, ULongsAreNaturals, SizesAssumption DEF RamList
    <2>2. base >= m.descs[i].base /\ base + count <= m.descs[i].base + m.descs[i].count
        BY <2>1 DEF Covers
    <2>3. e.base = base /\ e.count = count /\ e.type = type
        OBVIOUS
    <2> HIDE DEF e
    <2>4. InRam(e)
        BY <2>1, <2>2, <2>3 DEF InRam
    <2>5. RamList(added.descs)
        <3>1. added.descs \in Seq(Descriptors)
            BY <1>1 DEF Memories
        <3>2. \A j \in DOMAIN added.descs : InRam(added.descs[j])
            BY <1>3, <1>4, <2>4 DEF RamList
        <3>3. QED
            BY <3>1, <3>2 DEF RamList
    <2>6. ASSUME NEW j \in DOMAIN m.descs, m.descs[j].type = "OsloaderHeap"
          PROVE  Apart(m.descs[j], e)
        <3>1. Apart(m.descs[j], m.descs[i])
            BY <2>6 DEF GoodList
        <3>2. m.descs[j].base \in Nat /\ m.descs[j].count \in Nat
            BY <1>3, ListFields
        <3>3. QED
            BY <2>1, <2>2, <2>3, <3>1, <3>2 DEF Apart
    <2>7. ASSUME NEW j \in DOMAIN added.descs, NEW k \in DOMAIN added.descs, j # k,
                 added.descs[j].type = "OsloaderHeap"
          PROVE  Apart(added.descs[j], added.descs[k])
        <3>1. j \in DOMAIN m.descs
            BY <1>4, <2>3, <2>7
        <3>2. CASE k \in DOMAIN m.descs
            BY <1>4, <2>7, <3>1, <3>2 DEF GoodList
        <3>3. CASE added.descs[k] = e
            BY <1>4, <2>6, <2>7, <3>1, <3>3
        <3>4. QED
            BY <1>4, <3>2, <3>3
    <2>8. QED
        BY <2>5, <2>7 DEF HeapsApart
<1> DEFINE d == added.descs[i]
           rest == Rest(m, i, type, base, count, offset, block)
<1>6. \/ rest.mem = Resize(added, i, Wrap(d.base + count), Wrap(d.count - count))
      \/ rest.mem = Resize(added, i, d.base, Wrap(d.count - count))
      \/ rest.mem = SplitMiddle(added, i, base, count, offset).mem
    BY DEF Rest, added
<1> HIDE DEF rest, d
<1>7. \A b, c : Sound(O, Resize(added, i, b, c))
    BY <1>1, <1>4, ResizeSound
<1>8. Sound(O, SplitMiddle(added, i, base, count, offset).mem)
    BY <1>1, <1>4, <1>5, SplitMiddleSound
<1>9. QED
    BY <1>6, <1>7, <1>8 DEF rest

\* A request, whatever it splits and however far it gets.
LEMMA GenerateSound ==
    ASSUME NEW O, NEW m, NEW i, NEW type, NEW base, NEW count,
           Served(m, i, type, base, count), Sound(O, m),
           m.descs[i].type # "OsloaderHeap", type # "OsloaderHeap"
    PROVE  Sound(O, BlGenerateDescriptor(m, i, type, base, count).mem)
<1> DEFINE d      == m.descs[i]
           offset == base - d.base
           heap   == BlAllocateHeap(m, DescBytes)
           m1     == heap.mem
           block  == heap.block
           result == BlGenerateDescriptor(m, i, type, base, count)
<1>1. /\ m \in Memories /\ GoodList(m.descs) /\ i \in DOMAIN m.descs
      /\ type \in PageTypes /\ base \in ULongs /\ count \in ULongs
      /\ Covers(d, base, count, offset) /\ base >= d.base
      /\ Undisturbed(m, i, type, base, count)
    BY DEF Served
<1>2. d.base \in Nat /\ d.count \in Nat /\ InRam(d) /\ RamTop \in Nat
    BY <1>1, ListFields, SizesAssumption DEF GoodList, RamList
<1>3. base \in Nat /\ count \in Nat
    BY <1>1, ULongsAreNaturals
<1>4. offset \in 0 .. RamTop
    BY <1>1, <1>2, <1>3 DEF InRam, Covers
<1>5. offset \in ULongs /\ Wrap(base - d.base) = offset
    BY <1>4, RamIsULong, WrapOfULong
<1>6. result =
        IF offset = 0 /\ count = d.count
        THEN [status |-> "ESUCCESS", mem |-> [m EXCEPT !.descs[i].type = type]]
        ELSE IF ~heap.ok
        THEN [status |-> "ENOMEM", mem |-> m1]
        ELSE Rest(m1, i, type, base, count, offset, block)
    <2>1. result =
            IF Wrap(base - d.base) = 0 /\ count = d.count
            THEN [status |-> "ESUCCESS", mem |-> [m EXCEPT !.descs[i].type = type]]
            ELSE IF ~heap.ok
            THEN [status |-> "ENOMEM", mem |-> m1]
            ELSE Rest(m1, i, type, base, count, Wrap(base - d.base), block)
        BY Zenon DEF BlGenerateDescriptor, Rest
    <2>2. QED
        BY <1>5, <2>1, Zenon
<1>7. offset = 0 /\ count = d.count <=> base = d.base /\ count = d.count
    BY <1>2, <1>3
<1> HIDE DEF offset, result
<1>8. CASE offset = 0 /\ count = d.count
    <2>1. result.mem = [m EXCEPT !.descs[i].type = type]
        BY <1>6, <1>8
    <2>2. Sound(O, [m EXCEPT !.descs[i].type = type])
        BY <1>1, SetTypeSound
    <2>3. QED
        BY ONLY <2>1, <2>2 DEF result
<1>9. CASE ~(offset = 0 /\ count = d.count) /\ ~heap.ok
    <2>1. m1 = m
        BY <1>1, <1>9, HeapGood, DescBytesNat
    <2>2. result.mem = m
        BY <1>6, <1>9, <2>1
    <2>3. QED
        BY <2>2 DEF result
<1>10. CASE ~(offset = 0 /\ count = d.count) /\ heap.ok
    <2>1. /\ GoodList(m1.descs) /\ i \in DOMAIN m1.descs
          /\ Covers(m1.descs[i], base, count, offset)
        BY <1>1, <1>5, <1>7, <1>10, FirstAllocation
    <2>2. m1 \in Memories /\ block \in Nat
        BY <1>1, AllocateHeapType, DescBytesNat
    <2>3. RamList(m.descs) /\ HeapsApart(m.descs)
        BY <1>1, GoodHeapsApart DEF GoodList
    <2>4. m1.descs[i].type # "OsloaderHeap"
        BY <1>1, <2>3, HeapKeepsType, DescBytesNat
    <2>5. \A x : Placed(x, block, Round(DescBytes)) => Sound(O \cup {x}, m1)
        BY <1>1, <1>10, <2>3, HeapSafe, DescBytesNat
    <2> HIDE DEF m1, block, heap
    <2>6. Sound(O, Rest(m1, i, type, base, count, offset, block).mem)
        BY <1>1, <1>5, <2>1, <2>2, <2>4, <2>5, RestSound
    <2>7. QED
        BY <1>6, <1>10, <2>6 DEF result
<1>11. QED
    BY <1>8, <1>9, <1>10

-----------------------------------------------------------------------------
(* What BlMemoryInitialize lays out.                                       *)

LEMMA InitialSlots ==
    ASSUME NEW start \in Nat
    PROVE  /\ InitialSlot(start, 1) = start + Round(LoaderBlockBytes)
           /\ InitialSlot(start, 1) \in Nat
           /\ \A n \in 1 .. 5 :
                 InitialSlot(start, n + 1) = InitialSlot(start, n) + Round(DescBytes)
           /\ InitialSlot(start, 6)
                 = start + Round(LoaderBlockBytes) + 5 * Round(DescBytes)
<1> DEFINE r == Round(LoaderBlockBytes)
           q == Round(DescBytes)
<1>1. r \in Nat /\ q \in Nat
    BY SizesAssumption, RoundBounds
<1>2. \A n : InitialSlot(start, n) = start + r + (n - 1) * q
    BY DEF InitialSlot
<1> HIDE DEF r, q
<1>3. InitialSlot(start, 1) = start + r /\ InitialSlot(start, 6) = start + r + 5 * q
    BY <1>1, <1>2
<1>4. ASSUME NEW n \in 1 .. 5
      PROVE  InitialSlot(start, n + 1) = InitialSlot(start, n) + q
    <2>1. InitialSlot(start, n + 1) = start + r + n * q
        BY <1>1, <1>2
    <2>2. InitialSlot(start, n) = start + r + (n - 1) * q
        BY <1>1, <1>2
    <2>3. n * q = (n - 1) * q + q /\ (n - 1) * q \in Nat
        BY <1>1
    <2>4. QED
        BY <1>1, <2>1, <2>2, <2>3
<1>5. QED
    BY <1>1, <1>3, <1>4 DEF r, q

\* One object more, at the start of the open part.
LEMMA ArenaNext ==
    ASSUME NEW O, NEW H, NEW free, NEW limit, Arena(O, H, free, limit),
           NEW size \in Nat, free + size <= limit,
           NEW o, o.at = free, o.bytes \in Nat, o.bytes <= size
    PROVE  Arena(O \cup {o}, H, free + size, limit)
<1>1. free \in Nat
    BY DEF Arena
<1>2. IsBytes(o) /\ free <= o.at /\ o.at + o.bytes <= free + size
    BY <1>1 DEF IsBytes
<1>3. QED
    BY <1>2, ArenaFits

\* BlMemoryInitialize lays the loader block and the five descriptors out one
\* after the other, and the reserved slot fits behind them.
LEMMA InitialSound ==
    ASSUME FirmwareOK, NEW carved \in CarveFrom(firmware)
    PROVE  Sound(BlocksOf(<<[at |-> FirstHeap(firmware, carved),
                             bytes |-> LoaderBlockBytes]>>),
                 InitialMemory(firmware, carved))
<1> DEFINE start == FirstHeap(firmware, carved)
           m     == InitialMemory(firmware, carved)
           s     == m.descs
           B     == <<[at |-> start, bytes |-> LoaderBlockBytes]>>
           at(n) == InitialSlot(start, n)
           r     == Round(LoaderBlockBytes)
           q     == Round(DescBytes)
           h     == [at |-> start, bytes |-> HeapPages * PageBytes]
           last  == start + HeapPages * PageBytes - DescBytes
<1>1. /\ firmware[3].base \in Nat /\ firmware[3].count \in Nat
      /\ firmware[3].base + firmware[3].count = RamTop /\ Len(firmware) = 3
    <2>1. firmware[3].base \in Nat /\ firmware[3].count \in Nat
        BY FirmwareShape
    <2>2. firmware[3].base + firmware[3].count = RamTop /\ Len(firmware) = 3
        BY Zenon DEF FirmwareOK
    <2>3. QED
        BY <2>1, <2>2
<1>2. /\ RamTop \in Nat /\ HeapPages \in Nat /\ StackPages \in Nat /\ PageBytes \in Nat
      /\ LoaderBlockBytes \in Nat /\ CarvePages = HeapPages + StackPages
    BY SizesAssumption DEF CarvePages
<1>3. /\ DOMAIN s = 1 .. 5 /\ carved = 3 /\ firmware[3].count >= CarvePages
      /\ s[1].type = "FirmwarePermanent" /\ s[2].type = "LoadedProgram"
      /\ s[3].type = "Free" /\ s[4].type = "OsloaderStack" /\ s[5].type = "OsloaderHeap"
      /\ s[5].base = RamTop - CarvePages /\ s[5].count = HeapPages
      /\ \A i \in 1 .. 5 : s[i].at = at(i)
    BY InitialFields
<1>4. m.free = at(6) /\ m.limit = last
    BY <1>1 DEF InitialMemory
<1>5. start = (RamTop - CarvePages) * PageBytes /\ RamTop - CarvePages \in Nat
    <2>1. firmware[carved].base + firmware[carved].count - CarvePages = RamTop - CarvePages
        BY <1>1, <1>2, <1>3
    <2>2. start = (firmware[carved].base + firmware[carved].count - CarvePages) * PageBytes
        BY Zenon DEF FirstHeap
    <2>3. RamTop - CarvePages \in Nat
        BY <1>1, <1>2, <1>3
    <2>4. QED
        BY <2>1, <2>2, <2>3
<1>6. start \in Nat /\ HeapPages * PageBytes \in Nat
    BY <1>2, <1>5
<1>7. /\ r \in Nat /\ q \in Nat /\ LoaderBlockBytes <= r /\ DescBytes <= q
      /\ DescBytes \in Nat
    BY <1>2, RoundBounds, DescBytesNat
<1>8. r + 5 * q + DescBytes <= HeapPages * PageBytes
    BY FirstHeapAssumption
<1>9. /\ at(1) = start + r /\ at(6) = start + r + 5 * q
      /\ at(2) = at(1) + q /\ at(3) = at(2) + q /\ at(4) = at(3) + q
      /\ at(5) = at(4) + q /\ at(6) = at(5) + q
    BY <1>6, InitialSlots
<1>10. Heaps(s) = {h}
    <2>1. Heaps(s) = {HeapOf(s[5])}
        BY <1>3 DEF Heaps
    <2>2. HeapOf(s[5]) = h
        BY <1>3, <1>5 DEF HeapOf
    <2>3. QED
        BY <2>1, <2>2
<1> DEFINE O0 == BlocksOf(B)
           O1 == O0 \cup {Slot(s, 1)}
           O2 == O1 \cup {Slot(s, 2)}
           O3 == O2 \cup {Slot(s, 3)}
           O4 == O3 \cup {Slot(s, 4)}
           O5 == O4 \cup {Slot(s, 5)}
<1>11. BlocksOf(B) = {Block(B, 1)} /\ Block(B, 1).at = start
       /\ Block(B, 1).bytes = LoaderBlockBytes
    BY DEF BlocksOf, Block
<1>12. Slots(s) = {Slot(s, 1), Slot(s, 2), Slot(s, 3), Slot(s, 4), Slot(s, 5)}
    BY <1>3 DEF Slots
<1>13. \A i \in 1 .. 5 : Slot(s, i).at = at(i) /\ Slot(s, i).bytes = DescBytes
    BY <1>3 DEF Slot
<1>14. O5 = BlocksOf(B) \cup Slots(s)
    BY <1>12
<1> HIDE DEF start, m, s, B, at, r, q
<1>15. Arena({}, {h}, start, last)
    <2>1. IsBytes(h) /\ h.at <= start /\ last + DescBytes <= h.at + h.bytes
        BY <1>6, <1>7 DEF IsBytes
    <2>2. last \in Nat /\ start <= last
        BY <1>6, <1>7, <1>8
    <2> HIDE DEF h, last
    <2>3. QED
        BY <1>6, <2>1, <2>2 DEF Arena
<1>16. last \in Nat /\ at(6) <= last
    BY <1>6, <1>7, <1>8, <1>9
<1>17. /\ at(1) \in Nat /\ at(2) \in Nat /\ at(3) \in Nat /\ at(4) \in Nat /\ at(5) \in Nat
       /\ at(1) <= last /\ at(2) <= last /\ at(3) <= last /\ at(4) <= last /\ at(5) <= last
    BY <1>6, <1>7, <1>9, <1>16
<1> HIDE DEF h, last
<1>18. Arena({} \cup {Block(B, 1)}, {h}, at(1), last)
    BY <1>2, <1>7, <1>9, <1>11, <1>15, <1>17, ArenaNext
<1>19. Arena(O0, {h}, at(1), last)
    BY <1>11, <1>18
<1> HIDE DEF O0
<1>20. Arena(O1, {h}, at(2), last)
    BY <1>7, <1>9, <1>13, <1>17, <1>19, ArenaNext
<1> HIDE DEF O1
<1>21. Arena(O2, {h}, at(3), last)
    BY <1>7, <1>9, <1>13, <1>17, <1>20, ArenaNext
<1> HIDE DEF O2
<1>22. Arena(O3, {h}, at(4), last)
    BY <1>7, <1>9, <1>13, <1>17, <1>21, ArenaNext
<1> HIDE DEF O3
<1>23. Arena(O4, {h}, at(5), last)
    BY <1>7, <1>9, <1>13, <1>17, <1>22, ArenaNext
<1> HIDE DEF O4
<1>24. Arena(O5, {h}, at(6), last)
    BY <1>7, <1>9, <1>13, <1>16, <1>23, ArenaNext
<1> HIDE DEF O5
<1>25. Sound(BlocksOf(B), m)
    BY <1>4, <1>10, <1>14, <1>24 DEF Sound, s
<1>26. QED
    BY <1>25 DEF B, m, start
-----------------------------------------------------------------------------
(* The heap's objects stay apart.                                          *)

\* ListInv knows the descriptors; the arena has to be carried along with it,
\* because a heap block that is handed out tells nothing about the blocks that
\* were handed out before it unless they lie outside the open part.
HeapInv == ListInv /\ (phase = "up" => Sound(BlocksOf(blocks), mem))

LEMMA AppendBlocks ==
    ASSUME NEW B \in Seq([at : Nat, bytes : Nat]), NEW b \in [at : Nat, bytes : Nat]
    PROVE  BlocksOf(Append(B, b)) = BlocksOf(B) \cup {Block(Append(B, b), Len(B) + 1)}
<1> DEFINE t == Append(B, b)
           n == Len(B) + 1
<1>1. /\ \A j \in 1 .. Len(B) : t[j] = B[j]
      /\ Len(t) = n /\ t \in Seq([at : Nat, bytes : Nat]) /\ Len(B) \in Nat
    BY AppendProperties, LenProperties
<1>2. DOMAIN B = 1 .. Len(B) /\ DOMAIN t = 1 .. n
    BY <1>1, LenProperties
<1>3. DOMAIN t = DOMAIN B \cup {n} /\ \A j \in DOMAIN B : t[j] = B[j]
    BY <1>1, <1>2
<1> HIDE DEF t, n
<1>4. BlocksOf(t) = BlocksOf(B) \cup {Block(t, n)}
    BY <1>3 DEF BlocksOf, Block
<1>5. QED
    BY <1>4 DEF t, n

LEMMA HeapCallsHeapInv ==
    ASSUME HeapInv, phase = "up", NEW bytes \in HeapSizes,
           AllocateHeap(bytes) \/ BlAllocateHeapAligned(bytes)
    PROVE  Sound(BlocksOf(blocks'), mem')
<1>1. /\ mem \in Memories /\ RamList(mem.descs) /\ HeapsApart(mem.descs)
      /\ blocks \in Seq([at : Nat, bytes : Nat]) /\ Sound(BlocksOf(blocks), mem)
    BY GoodHeapsApart DEF HeapInv, ListInv, TypeInv, TypeOK, GoodList
<1>7. PICK asked \in Nat : \E at :
         LET heap == BlAllocateHeap(mem, asked)
         IN  /\ HeapCall(asked)
             /\ heap.ok => /\ InBlock(at, bytes, heap, asked)
                           /\ blocks' = Append(blocks, [at |-> at, bytes |-> bytes])
             /\ ~heap.ok => blocks' = blocks
    BY <1>1, HeapIsCalled
<1>2. PICK at :
         LET heap == BlAllocateHeap(mem, asked)
         IN  /\ HeapCall(asked)
             /\ heap.ok => /\ InBlock(at, bytes, heap, asked)
                           /\ blocks' = Append(blocks, [at |-> at, bytes |-> bytes])
             /\ ~heap.ok => blocks' = blocks
    BY <1>7
<1> DEFINE heap == BlAllocateHeap(mem, asked)
           b    == [at |-> at, bytes |-> bytes]
           x    == Block(Append(blocks, b), Len(blocks) + 1)
<1>3. mem' = heap.mem
    BY <1>2 DEF HeapCall
<1>4. CASE ~heap.ok
    <2>1. heap.mem = mem
        BY <1>1, <1>4, HeapHands
    <2>2. QED
        BY <1>1, <1>2, <1>3, <1>4, <2>1
<1>5. CASE heap.ok
    <2>1. InBlock(at, bytes, heap, asked) /\ blocks' = Append(blocks, b)
        BY <1>2, <1>5
    <2>2. at \in Nat /\ heap.block <= at /\ at + bytes <= heap.block + asked
        BY <2>1 DEF InBlock
    <2>3. bytes \in Nat /\ heap.block \in Nat
        BY <1>1, SizesAssumption, AllocateHeapType
    <2>4. Round(asked) \in Nat /\ asked <= Round(asked)
        BY RoundBounds
    <2>5. x.at = at /\ x.bytes = bytes
        BY <1>1, AppendProperties DEF Block
    <2> HIDE DEF heap, x
    <2>6. Placed(x, heap.block, Round(asked))
        BY <2>2, <2>3, <2>4, <2>5 DEF Placed, IsBytes
    <2>7. Sound(BlocksOf(blocks) \cup {x}, heap.mem)
        BY <1>1, <1>5, <2>6, HeapSafe DEF heap
    <2>8. b \in [at : Nat, bytes : Nat]
        BY <2>2, <2>3
    <2>9. BlocksOf(Append(blocks, b)) = BlocksOf(blocks) \cup {x}
        BY <1>1, <2>8, AppendBlocks DEF x
    <2> HIDE DEF b
    <2>10. QED
        BY <1>3, <2>1, <2>7, <2>9
<1>6. QED
    BY <1>4, <1>5

LEMMA AllocateDescriptorHeapInv ==
    ASSUME HeapInv, phase = "up", NEW type \in ImageTypes \cup DataTypes,
           NEW base \in Bases, NEW count \in Counts, RoomyAllocate(type, base, count)
    PROVE  Sound(BlocksOf(blocks'), mem')
<1>1. ListInv /\ Sound(BlocksOf(blocks), mem) /\ blocks' = blocks
    BY Zenon DEF HeapInv, RoomyAllocate, BlAllocateDescriptor
<1>2. CASE Servable(mem, base, count)
    <2>1. PICK i, at :
             /\ Served(mem, i, type, at, count) /\ mem.descs[i].type = "Free"
             /\ mem' = BlGenerateDescriptor(mem, i, type, at, count).mem
        BY <1>1, <1>2, RequestServed
    <2>2. type # "OsloaderHeap" /\ mem.descs[i].type # "OsloaderHeap"
        BY <2>1, TypesAssumption
    <2>3. QED
        BY <1>1, <2>1, <2>2, GenerateSound
<1>3. CASE ~Servable(mem, base, count)
    BY <1>1, <1>3 DEF RoomyAllocate, BlAllocateDescriptor
<1>4. QED
    BY <1>2, <1>3

LEMMA FreeImageTailHeapInv ==
    ASSUME HeapInv, phase = "up", NEW page \in 0 .. RamTop, FreeImageTail(page)
    PROVE  Sound(BlocksOf(blocks'), mem')
<1>1. ListInv /\ Sound(BlocksOf(blocks), mem) /\ blocks' = blocks
    BY DEF HeapInv, FreeImageTail
<1>2. PICK i, count :
         /\ Served(mem, i, "Free", page, count)
         /\ mem.descs[i].type \in ImageTypes
         /\ mem' = BlGenerateDescriptor(mem, i, "Free", page, count).mem
    BY <1>1, TailServed
<1>3. "Free" # "OsloaderHeap" /\ mem.descs[i].type # "OsloaderHeap"
    BY <1>2, TypesAssumption
<1>4. QED
    BY <1>1, <1>2, <1>3, GenerateSound

LEMMA NextHeapInv == HeapInv /\ [RoomyNext]_vars => HeapInv'
<1> SUFFICES ASSUME HeapInv, [RoomyNext]_vars PROVE HeapInv'
    OBVIOUS
<1>1. ListInv /\ ListInv'
    BY NextListInv DEF HeapInv
<1>2. phase' = "up" => Sound(BlocksOf(blocks'), mem')
    <2>1. CASE UNCHANGED vars
        BY <2>1 DEF vars, HeapInv
    <2>2. ASSUME NEW endPage \in EndPages, BlArmFixupMemoryMap(endPage)
          PROVE  phase' # "up"
        BY <2>2 DEF BlArmFixupMemoryMap
    <2>3. ASSUME BlMemoryInitialize, phase' = "up"
          PROVE  Sound(BlocksOf(blocks'), mem')
        <3>1. PICK carved \in CarveFrom(firmware) :
                 /\ mem' = InitialMemory(firmware, carved)
                 /\ blocks' = <<[at |-> FirstHeap(firmware, carved),
                                 bytes |-> LoaderBlockBytes]>>
            BY <2>3 DEF BlMemoryInitialize
        <3>2. QED
            BY <1>1, <3>1, InitialSound DEF ListInv, TypeInv
    <2>4. ASSUME NEW bytes \in HeapSizes,
                 AllocateHeap(bytes) \/ BlAllocateHeapAligned(bytes)
          PROVE  Sound(BlocksOf(blocks'), mem')
        <3>1. phase = "up"
            BY <2>4, Zenon DEF AllocateHeap, BlAllocateHeapAligned, HeapCall
        <3>2. QED
            BY <2>4, <3>1, HeapCallsHeapInv
    <2>5. ASSUME NEW type \in ImageTypes \cup DataTypes, NEW base \in Bases,
                 NEW count \in Counts, RoomyAllocate(type, base, count)
          PROVE  Sound(BlocksOf(blocks'), mem')
        <3>1. phase = "up"
            BY <2>5, Zenon DEF RoomyAllocate, BlAllocateDescriptor
        <3>2. QED
            BY <2>5, <3>1, AllocateDescriptorHeapInv
    <2>6. ASSUME NEW page \in 0 .. RamTop, FreeImageTail(page)
          PROVE  Sound(BlocksOf(blocks'), mem')
        <3>1. phase = "up"
            BY <2>6, Zenon DEF FreeImageTail
        <3>2. QED
            BY <2>6, <3>1, FreeImageTailHeapInv
    <2>7. QED
        BY <2>1, <2>2, <2>3, <2>4, <2>5, <2>6, Zenon DEF RoomyNext, Setup, HeapCalls
<1>3. QED
    BY <1>1, <1>2 DEF HeapInv

LEMMA InitHeapInv == Init => HeapInv
BY InitListInv DEF HeapInv, Init

LEMMA AlwaysHeapInv == RoomySpec => []HeapInv
BY InitHeapInv, NextHeapInv, PTL DEF RoomySpec

\* Objects that are clear of each other share no byte.
LEMMA ClearRanges ==
    ASSUME NEW a, NEW b, IsBytes(a), IsBytes(b), Clear(a, b)
    PROVE  ByteRange(a.at, a.bytes) \cap ByteRange(b.at, b.bytes) = {}
BY DEF IsBytes, Clear, ByteRange

LEMMA WithinRange ==
    ASSUME NEW a, NEW d, d.base * PageBytes \in Nat, d.count * PageBytes \in Nat,
           IsBytes(a), Within(a, HeapOf(d))
    PROVE  ByteRange(a.at, a.bytes) \subseteq HeapBytes(d)
BY DEF IsBytes, Within, HeapOf, HeapBytes, ByteRange

\* Nothing in the boot heap is handed out twice: the blocks callers hold, the
\* descriptors of the list and the slot reserved for the next heap share no
\* byte, and each lies in the pages of one heap, however the heap has grown.
THEOREM HeapBlocksStayApart == RoomySpec => []HeapObjectsDisjoint
<1>1. ASSUME HeapInv PROVE HeapObjectsDisjoint
    <2> SUFFICES ASSUME phase = "up"
                 PROVE  /\ \A a, b \in HeapObjects : a # b =>
                              ByteRange(a.at, a.bytes) \cap ByteRange(b.at, b.bytes) = {}
                        /\ \A a \in HeapObjects : \E i \in DOMAIN mem.descs :
                              /\ mem.descs[i].type = "OsloaderHeap"
                              /\ ByteRange(a.at, a.bytes) \subseteq HeapBytes(mem.descs[i])
        BY Zenon DEF HeapObjectsDisjoint
    <2> DEFINE O == BlocksOf(blocks) \cup Slots(mem.descs)
               r == Reserved(mem.limit)
    <2>1. Arena(O, Heaps(mem.descs), mem.free, mem.limit) /\ mem.descs \in Seq(Descriptors)
        BY <1>1 DEF HeapInv, Sound, ListInv, GoodList, RamList
    <2>2. HeapObjects = O \cup {r}
        BY DEF HeapObjects, BlocksOf, Block, Slots, Slot, Reserved
    <2>3. r.at = mem.limit /\ r.bytes = DescBytes /\ IsBytes(r)
        BY <2>1, DescBytesNat DEF Reserved, IsBytes, Arena
    <2> HIDE DEF O, r
    <2>4. ASSUME NEW a \in O PROVE IsBytes(a) /\ Clear(a, r) /\ Clear(r, a)
        BY <2>1, <2>3 DEF Arena, Clear, IsBytes
    <2>5. ASSUME NEW a \in HeapObjects, NEW b \in HeapObjects, a # b
          PROVE  ByteRange(a.at, a.bytes) \cap ByteRange(b.at, b.bytes) = {}
        <3>1. IsBytes(a) /\ IsBytes(b)
            BY <2>2, <2>3, <2>4
        <3>2. Clear(a, b)
            BY <2>1, <2>2, <2>4, <2>5 DEF Arena
        <3>3. QED
            BY <3>1, <3>2, ClearRanges
    <2>6. ASSUME NEW a \in HeapObjects
          PROVE  \E i \in DOMAIN mem.descs :
                    /\ mem.descs[i].type = "OsloaderHeap"
                    /\ ByteRange(a.at, a.bytes) \subseteq HeapBytes(mem.descs[i])
        <3>1. PICK h \in Heaps(mem.descs) : Within(a, h)
            <4>1. CASE a \in O
                BY <2>1, <4>1 DEF Arena
            <4>2. CASE a = r
                <5>1. PICK h \in Heaps(mem.descs) :
                         h.at <= mem.free /\ mem.limit + DescBytes <= h.at + h.bytes
                    BY <2>1 DEF Arena
                <5>2. /\ h.at \in Nat /\ h.bytes \in Nat /\ DescBytes \in Nat
                      /\ mem.free \in Nat /\ mem.limit \in Nat /\ mem.free <= mem.limit
                    BY <2>1, DescBytesNat DEF Arena, IsBytes
                <5>3. Within(r, h)
                    BY <2>3, <5>1, <5>2 DEF Within
                <5>4. QED
                    BY <4>2, <5>3
            <4>3. QED
                BY <2>2, <4>1, <4>2
        <3>2. PICK i \in DOMAIN mem.descs :
                 mem.descs[i].type = "OsloaderHeap" /\ h = HeapOf(mem.descs[i])
            BY DEF Heaps
        <3>3. IsBytes(a) /\ IsBytes(h)
            BY <2>1, <2>2, <2>3, <2>4 DEF Arena
        <3>4. /\ mem.descs[i].base * PageBytes \in Nat
              /\ mem.descs[i].count * PageBytes \in Nat
            BY <3>2, <3>3 DEF IsBytes, HeapOf
        <3>5. QED
            BY <3>1, <3>2, <3>3, <3>4, WithinRange
    <2>7. QED
        BY <2>5, <2>6
<1>2. QED
    BY <1>1, AlwaysHeapInv, PTL
=============================================================================
