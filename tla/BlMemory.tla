------------------------------ MODULE BlMemory ------------------------------
(***************************************************************************)
(* The OS loader's physical memory: the list of page descriptors that      *)
(* ported/blmemory.c hands to the kernel, and the boot heap carved out of  *)
(* it.  The heap stores the descriptors themselves, so splitting a         *)
(* descriptor may grow the heap, and growing the heap shrinks a            *)
(* descriptor - possibly the one being split.                              *)
(***************************************************************************)
EXTENDS Integers, Sequences

CONSTANTS
    LowPages,         \* pages below the loader image (0x10 on the board)
    RamTop,           \* first page past RAM (RAM_TOP >> PAGE_SHIFT)
    NominalEnd,       \* where MDArray's initializer ends the image (0x100)
    EndPages,         \* pages at which the loader image may end
    PageBytes,        \* 1 << PAGE_SHIFT
    HeapPages,        \* BL_HEAP_PAGES
    StackPages,       \* BL_STACK_PAGES
    Granularity,      \* BL_GRANULARITY
    DescBytes,        \* sizeof(MEMORY_ALLOCATION_DESCRIPTOR)
    LoaderBlockBytes, \* sizeof(LOADER_PARAMETER_BLOCK)
    FillSize,         \* BlDcacheFillSize
    Word,             \* 2^32, the modulus of a ULONG
    HeapSizes,        \* byte counts asked of BlAllocateHeap
    ImageTypes,       \* types BlLoadImage asks for: it may free an image's tail
    DataTypes,        \* types of the other requests (hive, NLS, kernel stack)
    Bases,            \* pages asked for
    Counts,           \* page counts asked for
    MaxDescs          \* bound of the model: the longest descriptor list

\* The sizes are those of a ULONG machine and the image leaves room in RAM.
ASSUME SizesAssumption ==
    /\ LowPages \in Nat /\ RamTop \in Nat /\ StackPages \in Nat
    /\ LoaderBlockBytes \in Nat /\ MaxDescs \in Nat
    /\ PageBytes \in Nat \ {0} /\ HeapPages \in Nat \ {0}
    /\ Granularity \in Nat \ {0} /\ FillSize \in Nat \ {0}
    /\ DescBytes \in Nat \ {0} /\ Word \in Nat \ {0}
    /\ NominalEnd \in (LowPages + 1) .. RamTop
    /\ EndPages \subseteq (LowPages + 1) .. RamTop
    /\ HeapSizes \subseteq Nat
    /\ Bases \subseteq 0 .. (Word - 1)
    /\ Counts \subseteq 1 .. (Word \div 2)
    /\ (RamTop + 1) * PageBytes < Word \div 2
    /\ RamTop + 1 < Word \div 2

\* The first heap holds the loader block, the copy of the firmware's three
\* descriptors, the stack's and the heap's, and one reserved descriptor.
Round(n) == ((n + Granularity - 1) \div Granularity) * Granularity

ASSUME FirstHeapAssumption ==
    Round(LoaderBlockBytes) + 5 * Round(DescBytes) + DescBytes
        <= HeapPages * PageBytes

FirmwareTypes == {"FirmwarePermanent", "LoadedProgram", "Free"}
PageTypes == FirmwareTypes \cup {"OsloaderHeap", "OsloaderStack"}
                 \cup ImageTypes \cup DataTypes

ASSUME TypesAssumption ==
    (ImageTypes \cup DataTypes) \cap
        (FirmwareTypes \cup {"OsloaderHeap", "OsloaderStack"}) = {}

ULongs == 0 .. (Word - 1)

\* A descriptor of the list, and the heap address its own bytes are at.
Descriptors == [type : PageTypes, base : ULongs, count : ULongs, at : Nat]

\* The list, BlHeapFree and BlHeapLimit.
Memories == [descs : Seq(Descriptors), free : Nat, limit : Nat]

VARIABLES
    phase,    \* "reset", "mapped", "up" or "failed" (BlMemoryInitialize's ENOMEM)
    firmware, \* MDArray: the firmware's own descriptors
    mem,      \* the descriptor list, BlHeapFree and BlHeapLimit
    blocks,   \* history: the [at, bytes] handed to callers, in order
    answer    \* what the last call returned to its caller

vars == <<phase, firmware, mem, blocks, answer>>

-----------------------------------------------------------------------------
(* ULONG arithmetic, and the choices a scan of the list makes.             *)

Wrap(n) == IF n \in ULongs THEN n ELSE n % Word

First(S) == CHOOSE i \in S : \A j \in S : i <= j

Pages(d) == d.base .. (d.base + d.count - 1)

Status(s) == [op |-> s, type |-> "Free", base |-> 0, count |-> 0]

-----------------------------------------------------------------------------
(* The boot heap.                                                          *)

\* Mutant: the slot reserved for the next descriptor is forgotten.
NewHeapPagesNoSlot(size) ==
    LET needed == size \div PageBytes + 1
    IN  IF needed < HeapPages THEN HeapPages ELSE needed

NewHeapPages(size) ==
    LET needed == (size + DescBytes) \div PageBytes + 1
    IN  IF needed < HeapPages THEN HeapPages ELSE needed

\* Mutant: the page count of the free descriptor is not compared.
HeapDonorsAnySize(m, pages) == {i \in DOMAIN m.descs : m.descs[i].type = "Free"}

\* Mutant: the type of the descriptor is not compared.
HeapDonorsAnyType(m, pages) == {i \in DOMAIN m.descs : m.descs[i].count >= pages}

HeapDonors(m, pages) ==
    {i \in DOMAIN m.descs : m.descs[i].type = "Free" /\ m.descs[i].count >= pages}

\* Mutant: the donor keeps the pages the heap takes.
GrowHeapKeepDonor(m, pages) ==
    LET donor == First(HeapDonors(m, pages))
        page  == Wrap(m.descs[donor].base + m.descs[donor].count - pages)
        start == Wrap(page * PageBytes)
    IN  [descs |-> Append(m.descs, [type |-> "OsloaderHeap", base |-> page,
                                    count |-> pages, at |-> m.limit]),
         free  |-> start,
         limit |-> Wrap(start + pages * PageBytes - DescBytes)]

\* Pages come off the end of the first free descriptor that has them; the new
\* heap's own descriptor goes in the slot the old heap reserved at its limit.
GrowHeap(m, pages) ==
    LET donor == First(HeapDonors(m, pages))
        left  == m.descs[donor].count - pages
        page  == Wrap(m.descs[donor].base + left)
        start == Wrap(page * PageBytes)
    IN  [descs |-> Append([m.descs EXCEPT ![donor].count = left],
                          [type |-> "OsloaderHeap", base |-> page,
                           count |-> pages, at |-> m.limit]),
         free  |-> start,
         limit |-> Wrap(start + pages * PageBytes - DescBytes)]

BlAllocateHeap(m, bytes) ==
    LET size  == Round(bytes)
        pages == NewHeapPages(size)
        grown == GrowHeap(m, pages)
    IN  IF m.free + size <= m.limit
        THEN [ok |-> TRUE, block |-> m.free, mem |-> [m EXCEPT !.free = @ + size]]
        ELSE IF HeapDonors(m, pages) = {}
        THEN [ok |-> FALSE, block |-> 0, mem |-> m]
        ELSE IF grown.free + size < grown.limit
        THEN [ok |-> TRUE, block |-> grown.free,
              mem |-> [grown EXCEPT !.free = @ + size]]
        ELSE [ok |-> FALSE, block |-> 0, mem |-> grown]   \* "never get here"

-----------------------------------------------------------------------------
(* Descriptors.  BlGenerateDescriptor works through a pointer into the     *)
(* list: `i' names the descriptor, whose fields are read again after every *)
(* heap allocation, except Offset, which is computed once.                 *)

AddDescriptor(m, type, base, count, at) ==
    [m EXCEPT !.descs = Append(@, [type |-> type, base |-> base,
                                   count |-> count, at |-> at])]

Resize(m, i, base, count) ==
    [m EXCEPT !.descs[i] = [@ EXCEPT !.base = base, !.count = count]]

\* Mutant: the free tail is one page short.
SplitMiddleShortTail(m, i, base, count, offset) ==
    LET heap  == BlAllocateHeap(m, DescBytes)
        whole == heap.mem.descs[i].count
        added == AddDescriptor(heap.mem, "Free", Wrap(base + count),
                               Wrap(whole - (count + offset) - 1), heap.block)
    IN  IF ~heap.ok
        THEN [status |-> "ENOMEM", mem |-> heap.mem]
        ELSE [status |-> "ESUCCESS",
              mem |-> Resize(added, i, added.descs[i].base, offset)]

\* The pages lie inside the descriptor: its head keeps the descriptor, its
\* tail becomes a free descriptor of its own.
SplitMiddle(m, i, base, count, offset) ==
    LET heap  == BlAllocateHeap(m, DescBytes)
        whole == heap.mem.descs[i].count
        added == AddDescriptor(heap.mem, "Free", Wrap(base + count),
                               Wrap(whole - (count + offset)), heap.block)
    IN  IF ~heap.ok
        THEN [status |-> "ENOMEM", mem |-> heap.mem]
        ELSE [status |-> "ESUCCESS",
              mem |-> Resize(added, i, added.descs[i].base, offset)]

BlGenerateDescriptor(m, i, type, base, count) ==
    LET offset == Wrap(base - m.descs[i].base)
        heap   == BlAllocateHeap(m, DescBytes)
        added  == AddDescriptor(heap.mem, type, base, count, heap.block)
        d      == added.descs[i]
    IN  IF offset = 0 /\ count = m.descs[i].count
        THEN [status |-> "ESUCCESS", mem |-> [m EXCEPT !.descs[i].type = type]]
        ELSE IF ~heap.ok
        THEN [status |-> "ENOMEM", mem |-> heap.mem]
        ELSE IF base = d.base
        THEN [status |-> "ESUCCESS",
              mem |-> Resize(added, i, Wrap(d.base + count), Wrap(d.count - count))]
        ELSE IF Wrap(offset + count) = d.count
        THEN [status |-> "ESUCCESS",
              mem |-> Resize(added, i, d.base, Wrap(d.count - count))]
        ELSE SplitMiddle(added, i, base, count, offset)

\* The descriptors that hold the very pages asked for (Offset is a LONG) ...
Holders(m, base, count) ==
    {i \in DOMAIN m.descs :
        LET offset == Wrap(base - m.descs[i].base)
        IN  /\ m.descs[i].type = "Free"
            /\ offset < Word \div 2
            /\ m.descs[i].count >= Wrap(offset + count)}

\* ... and, when there is none, the smallest that are large enough.
Smallest(m, count) ==
    {i \in HeapDonors(m, count) :
        \A j \in HeapDonors(m, count) : m.descs[i].count <= m.descs[j].count}

\* Mutant: the page asked for is used whichever descriptor serves it.
ServerAsAsked(m, base, count) ==
    IF Holders(m, base, count) # {}
    THEN [index |-> First(Holders(m, base, count)), base |-> base]
    ELSE [index |-> First(Smallest(m, count)), base |-> base]

\* Which descriptor serves a request, and from which page.
Server(m, base, count) ==
    IF Holders(m, base, count) # {}
    THEN [index |-> First(Holders(m, base, count)), base |-> base]
    ELSE LET i == First(Smallest(m, count))
         IN  [index |-> i, base |-> m.descs[i].base]

Servable(m, base, count) ==
    Holders(m, base, count) # {} \/ HeapDonors(m, count) # {}

BlFindMemoryDescriptor(m, page) ==
    {i \in DOMAIN m.descs : page \in Pages(m.descs[i])}

-----------------------------------------------------------------------------
(* The firmware's map and BlMemoryInitialize.                              *)

MDArray ==
    <<[type |-> "FirmwarePermanent", base |-> 0, count |-> LowPages],
      [type |-> "LoadedProgram", base |-> LowPages, count |-> NominalEnd - LowPages],
      [type |-> "Free", base |-> NominalEnd, count |-> RamTop - NominalEnd]>>

\* The free descriptor that ends where the program begins, if it is large
\* enough, else the first that is.
CarvePages == HeapPages + StackPages

CarveFrom(map) ==
    LET program == First({i \in DOMAIN map : map[i].type = "LoadedProgram"})
        frees   == {i \in DOMAIN map : map[i].type = "Free"}
        below   == {i \in frees : map[i].base + map[i].count = map[program].base}
        large   == {i \in frees : map[i].count >= CarvePages}
    IN  IF below # {} /\ First(below) \in large THEN {First(below)}
        ELSE IF large # {} THEN {First(large)} ELSE {}

\* Where the heap stores the nth descriptor BlMemoryInitialize inserts.
InitialSlot(start, n) == start + Round(LoaderBlockBytes) + (n - 1) * Round(DescBytes)

FirstHeap(map, carved) ==
    (map[carved].base + map[carved].count - CarvePages) * PageBytes

InitialMemory(map, carved) ==
    LET end   == map[carved].base + map[carved].count
        start == FirstHeap(map, carved)
        n     == Len(map)
        copy  == [i \in DOMAIN map |->
                    [type  |-> map[i].type,
                     base  |-> map[i].base,
                     count |-> IF i = carved THEN map[i].count - CarvePages
                               ELSE map[i].count,
                     at    |-> InitialSlot(start, i)]]
    IN  [descs |-> copy \o
             <<[type |-> "OsloaderStack", base |-> end - StackPages,
                count |-> StackPages, at |-> InitialSlot(start, n + 1)],
               [type |-> "OsloaderHeap", base |-> end - CarvePages,
                count |-> HeapPages, at |-> InitialSlot(start, n + 2)]>>,
         free  |-> InitialSlot(start, n + 3),
         limit |-> start + HeapPages * PageBytes - DescBytes]

NoMemory == [descs |-> <<>>, free |-> 0, limit |-> 0]

Init ==
    /\ phase = "reset"
    /\ firmware = MDArray
    /\ mem = NoMemory
    /\ blocks = <<>>
    /\ answer = Status("none")

BlArmFixupMemoryMap(endPage) ==
    /\ phase = "reset"
    /\ phase' = "mapped"
    /\ firmware' = [firmware EXCEPT ![2].count = endPage - firmware[2].base,
                                    ![3].base = endPage,
                                    ![3].count = RamTop - endPage]
    /\ UNCHANGED <<mem, blocks, answer>>

BlMemoryInitialize ==
    /\ phase = "mapped"
    /\ \/ /\ CarveFrom(firmware) = {}
          /\ phase' = "failed"
          /\ answer' = Status("ENOMEM")
          /\ UNCHANGED <<mem, blocks>>
       \/ \E carved \in CarveFrom(firmware) :
            /\ phase' = "up"
            /\ mem' = InitialMemory(firmware, carved)
            /\ blocks' = <<[at |-> FirstHeap(firmware, carved),
                            bytes |-> LoaderBlockBytes]>>
            /\ answer' = Status("ESUCCESS")
    /\ UNCHANGED firmware

-----------------------------------------------------------------------------
(* The calls the loader makes once memory is up.                           *)

Room == Len(mem.descs) + 3 <= MaxDescs

HeapCall(bytes) ==
    /\ phase = "up"
    /\ Room
    /\ mem' = BlAllocateHeap(mem, bytes).mem
    /\ UNCHANGED <<phase, firmware>>

AllocateHeap(bytes) ==
    LET heap == BlAllocateHeap(mem, bytes)
    IN  /\ HeapCall(bytes)
        /\ IF heap.ok
           THEN /\ blocks' = Append(blocks, [at |-> heap.block, bytes |-> bytes])
                /\ answer' = Status("ESUCCESS")
           ELSE /\ blocks' = blocks
                /\ answer' = [Status("NULL") EXCEPT !.count = bytes]

Align(at) == ((at + FillSize - 1) \div FillSize) * FillSize

\* Mutant: no spare bytes are asked for.
AllocateHeapUnpadded(bytes) ==
    LET heap == BlAllocateHeap(mem, bytes)
    IN  /\ HeapCall(bytes)
        /\ IF heap.ok
           THEN /\ blocks' = Append(blocks, [at |-> Align(heap.block), bytes |-> bytes])
                /\ answer' = Status("ESUCCESS")
           ELSE /\ blocks' = blocks
                /\ answer' = [Status("NULL") EXCEPT !.count = bytes]

BlAllocateHeapAligned(bytes) ==
    LET asked == bytes + FillSize - 1
        heap  == BlAllocateHeap(mem, asked)
    IN  /\ HeapCall(asked)
        /\ IF heap.ok
           THEN /\ blocks' = Append(blocks, [at |-> Align(heap.block), bytes |-> bytes])
                /\ answer' = Status("ESUCCESS")
           ELSE /\ blocks' = blocks
                /\ answer' = [Status("NULL") EXCEPT !.count = asked]

BlAllocateDescriptor(type, base, count) ==
    /\ phase = "up"
    /\ Room
    /\ IF Servable(mem, base, count)
       THEN LET server == Server(mem, base, count)
                result == BlGenerateDescriptor(mem, server.index, type,
                                               server.base, count)
            IN  /\ mem' = result.mem
                /\ answer' = [op |-> result.status, type |-> type,
                              base |-> server.base, count |-> count]
       ELSE /\ mem' = mem
            /\ answer' = Status("ENOMEM")
    /\ UNCHANGED <<phase, firmware, blocks>>

\* BlLoadImage gives the pages from the relocation table to the end of the
\* descriptor back, right after it got the image's pages; it looks the
\* descriptor up by page and ignores BlGenerateDescriptor's status.
FreeImageTail(page) ==
    LET found == BlFindMemoryDescriptor(mem, page)
        i     == First(found)
        d     == mem.descs[i]
    IN  /\ phase = "up"
        /\ Room
        /\ answer.op = "ESUCCESS"
        /\ answer.type \in ImageTypes
        /\ page \in (answer.base + 1) .. (answer.base + answer.count - 1)
        /\ found # {}
        /\ mem' = BlGenerateDescriptor(mem, i, "Free", page,
                                       Wrap(d.count + d.base - page)).mem
        /\ answer' = Status("none")
        /\ UNCHANGED <<phase, firmware, blocks>>

Setup == (\E endPage \in EndPages : BlArmFixupMemoryMap(endPage)) \/ BlMemoryInitialize

HeapCalls == \E bytes \in HeapSizes : AllocateHeap(bytes) \/ BlAllocateHeapAligned(bytes)

Next ==
    \/ Setup
    \/ HeapCalls
    \/ \E type \in ImageTypes \cup DataTypes, base \in Bases, count \in Counts :
          BlAllocateDescriptor(type, base, count)
    \/ \E page \in 0 .. RamTop : FreeImageTail(page)

Spec == Init /\ [][Next]_vars

\* A request is roomy when splitting the descriptor that serves it cannot be
\* disturbed by the heap: no split is needed, or the heap has room for the two
\* descriptors, or the descriptor also holds the pages the heap would take.
\* On the board one free region of hundreds of megabytes serves every request.
Roomy(base, count) ==
    LET server == Server(mem, base, count)
        d      == mem.descs[server.index]
    IN  Servable(mem, base, count) =>
            \/ server.base = d.base /\ count = d.count
            \/ mem.free + 2 * Round(DescBytes) <= mem.limit
            \/ server.base - d.base + count + NewHeapPages(Round(DescBytes)) <= d.count

RoomyAllocate(type, base, count) ==
    Roomy(base, count) /\ BlAllocateDescriptor(type, base, count)

RoomyNext ==
    \/ Setup
    \/ HeapCalls
    \/ \E type \in ImageTypes \cup DataTypes, base \in Bases, count \in Counts :
          RoomyAllocate(type, base, count)
    \/ \E page \in 0 .. RamTop : FreeImageTail(page)

RoomySpec == Init /\ [][RoomyNext]_vars

-----------------------------------------------------------------------------
(* Properties.                                                             *)

ByteRange(at, bytes) == at .. (at + bytes - 1)

\* Every variable keeps its type, and the descriptors' fields stay ULONGs.
TypeOK ==
    /\ phase \in {"reset", "mapped", "up", "failed"}
    /\ firmware \in Seq([type : FirmwareTypes, base : Nat, count : Nat])
    /\ mem \in Memories
    /\ blocks \in Seq([at : Nat, bytes : Nat])
    /\ answer \in [op : {"none", "ESUCCESS", "ENOMEM", "NULL"},
                   type : PageTypes, base : Nat, count : Nat]

\* No page of RAM belongs to two descriptors of the list the kernel gets:
\* BlGenerateDescriptor's caller vouches that the region "is free", and what
\* it splits off must leave the rest of the list alone.
DescriptorsDisjoint ==
    \A i, j \in DOMAIN mem.descs :
        i # j => Pages(mem.descs[i]) \cap Pages(mem.descs[j]) = {}

\* No page is lost either: the list covers what the firmware reported, also
\* when there was no descriptor for the tail of an image.
PagesConserved ==
    phase = "up" =>
        UNION {Pages(mem.descs[i]) : i \in DOMAIN mem.descs}
            = UNION {Pages(firmware[i]) : i \in DOMAIN firmware}

\* A request answered ESUCCESS has the pages at *ActualBase to itself: they
\* are typed as asked, in one descriptor.
GrantedAsAsked ==
    (answer.op = "ESUCCESS" /\ answer.type # "Free") =>
        \E i \in DOMAIN mem.descs :
            /\ mem.descs[i].type = answer.type
            /\ mem.descs[i].base = answer.base
            /\ mem.descs[i].count = answer.count
            /\ \A j \in DOMAIN mem.descs \ {i} :
                  Pages(mem.descs[i]) \cap Pages(mem.descs[j]) = {}

\* Everything that lives in the heap: the blocks callers hold, the
\* descriptors in the list and the slot reserved for the next heap's own.
HeapObjects ==
    {[of |-> "caller", nth |-> i, at |-> blocks[i].at, bytes |-> blocks[i].bytes] :
        i \in DOMAIN blocks}
    \cup {[of |-> "list", nth |-> i, at |-> mem.descs[i].at, bytes |-> DescBytes] :
            i \in DOMAIN mem.descs}
    \cup {[of |-> "next", nth |-> 0, at |-> mem.limit, bytes |-> DescBytes]}

HeapBytes(d) == ByteRange(d.base * PageBytes, d.count * PageBytes)

\* No two of them share a byte, and each lies in the pages of one heap: growth
\* uses the reserved slot, alignment stays inside what was allocated, and
\* nothing that was handed out is ever handed out again.
HeapObjectsDisjoint ==
    phase = "up" =>
        /\ \A a, b \in HeapObjects :
              a # b => ByteRange(a.at, a.bytes) \cap ByteRange(b.at, b.bytes) = {}
        /\ \A a \in HeapObjects : \E i \in DOMAIN mem.descs :
              /\ mem.descs[i].type = "OsloaderHeap"
              /\ ByteRange(a.at, a.bytes) \subseteq HeapBytes(mem.descs[i])

\* BlAllocateHeap answers NULL only when no free descriptor has the pages:
\* the branch marked "we should never get here" is not reached.
HeapFailsOnlyWhenFull ==
    answer.op = "NULL" =>
        HeapDonors(mem, NewHeapPages(Round(answer.count))) = {}

-----------------------------------------------------------------------------
(* The promise: a page belongs to the descriptor that covers it, of the    *)
(* firmware's list until the loader has its own.                           *)

Owner(page) ==
    LET list    == IF phase = "up" THEN mem.descs ELSE firmware
        holders == {i \in DOMAIN list : page \in Pages(list[i])}
    IN  IF holders = {} THEN "nobody" ELSE list[First(holders)].type

Ownership == INSTANCE PageOwnership
                 WITH stage <- IF phase = "failed" THEN "mapped" ELSE phase,
                      own <- [page \in 0 .. (RamTop - 1) |-> Owner(page)]

\* The descriptor list and the boot heap implement exclusive page ownership:
\* pages in use never change hands behind their owner's back, whatever splits
\* and heap growths a call makes.
ImplementsPageOwnership == Ownership!Spec
=============================================================================
