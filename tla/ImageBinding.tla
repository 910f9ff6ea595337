----------------------------- MODULE ImageBinding -----------------------------
(***************************************************************************)
(* The list of loaded images and the binding of their imports: BlOsLoader  *)
(* loads the kernel and the HAL, puts both on the list, and scans the      *)
(* import descriptors of one, then of the other.  BlScanImportDescriptor-  *)
(* Table loads what is not on the list yet, and scans that first, so it    *)
(* recurses along imports that may form cycles; then it binds the thunks   *)
(* of its descriptor, each by ordinal, by hint or by binary search.        *)
(***************************************************************************)
EXTENDS Integers, Sequences, FiniteSets

CONSTANTS
    Images,      \* base names, equal when BlpCompareDllName says so
    Kernel, Hal, \* ntoskrnl.exe and hal.dll
    Disks,       \* what the image files may contain
    Word         \* a ULONG counts modulo this

NoExports == [absent |-> TRUE]

\* strcmp orders the names of an export directory, and a linker sorts them.
Sorted(names) == \A i, j \in DOMAIN names : i < j => names[i] < names[j]

\* A disk gives each image its import descriptors, [dll, thunks], and its
\* export directory.  A thunk names a symbol, with a hint, or an ordinal;
\* symbols are numbers in the order of strcmp.
Thunks ==
    [kind : {"name"}, symbol : Nat, hint : Nat]
        \cup [kind : {"ordinal"}, ordinal : {n \in Nat : n < Word}]

Directories == [base : Nat, names : Seq(Nat), ordinals : Seq(Nat), functions : Nat]

ASSUME ImageAssumption ==
    /\ Kernel \in Images /\ Hal \in Images /\ Kernel # Hal
    /\ Word \in Nat \ {0}
    /\ \A disk \in Disks : DOMAIN disk = Images

ASSUME DiskAssumption ==
    \A disk \in Disks, x \in Images :
        LET imports == disk[x].imports
            exports == disk[x].exports
        IN  /\ imports \in Seq([dll : Images, thunks : Seq(Thunks)])
            /\ exports \in Directories \cup {NoExports}
            /\ exports # NoExports =>
                  /\ Sorted(exports.names)
                  /\ Len(exports.ordinals) = Len(exports.names)
                  /\ exports.base + exports.functions <= Word

VARIABLES
    disk,    \* the files
    loads,   \* how often BlLoadImage loaded each image
    list,    \* LoadOrderListHead
    count,   \* LoadCount of the entries
    iat,     \* the thunks in memory
    stack,   \* activations of BlScanImportDescriptorTable, innermost last
    pc,      \* where the loader is
    thunk,   \* ThunkTable, as an index
    low, high,  \* Low and High of the binary search
    status   \* what BlOsLoader ends with

vars == <<disk, loads, list, count, iat, stack, pc, thunk, low, high, status>>

Terminated == {"done", "failed"}

\* The thunks of a disk: the image, the descriptor, the position in its table.
Places(d) ==
    UNION {UNION {{<<x, i, t>> : t \in DOMAIN d[x].imports[i].thunks} :
                      i \in DOMAIN d[x].imports} : x \in Images}

\* What a thunk holds: what the linker put there, the address of a function,
\* or nonsense once it was bound a second time.
Raw == [kind |-> "raw"]
Function(dll, f) == [kind |-> "function", dll |-> dll, index |-> f]
Nonsense == [kind |-> "nonsense"]

Init ==
    /\ disk \in Disks
    /\ loads = [x \in Images |-> 0]
    /\ list = <<>>
    /\ count = [x \in Images |-> 0]
    /\ iat = [p \in Places(disk) |-> Raw]
    /\ stack = <<>>
    /\ pc = "load_kernel"
    /\ thunk = 1
    /\ low = 0 /\ high = 0
    /\ status = "ESUCCESS"

-----------------------------------------------------------------------------
(* Loading.  Every unsuccessful status goes up through all activations to  *)
(* BlOsLoader, which gives up.                                             *)

Fail(why) ==
    /\ pc' = "failed" /\ status' = why /\ stack' = <<>>
    /\ UNCHANGED <<disk, thunk, low, high>>

Goto(next) == pc' = next /\ UNCHANGED <<disk, thunk, low, high, status>>

\* Mutant: BlCheckForLoadedDll stops before the tail of the list.
OnListButLast(x) == \E i \in DOMAIN list : i < Len(list) /\ list[i] = x

OnList(x) == \E i \in DOMAIN list : list[i] = x

Load(x) == loads' = [loads EXCEPT ![x] = @ + 1]

\* The file is missing, no executable image, or does not fit into memory.
LoadFails ==
    /\ \E why \in {"ENOENT", "EBADF"} : Fail(why)
    /\ UNCHANGED <<loads, list, count, iat>>

Enter(x) ==
    /\ list' = Append(list, x)
    /\ count' = [count EXCEPT ![x] = 1]

NoMemory == Fail("ENOMEM") /\ UNCHANGED <<list, count, iat>>

\* BlOsLoader: both images, then both entries, then both scans.
LoadSystemImage(at, x, next) ==
    /\ pc = at
    /\ \/ Load(x) /\ Goto(next) /\ UNCHANGED <<list, count, iat, stack>>
       \/ LoadFails

EnterSystemImage(at, x, next) ==
    /\ pc = at
    /\ UNCHANGED loads
    /\ \/ Enter(x) /\ Goto(next) /\ UNCHANGED <<iat, stack>>
       \/ NoMemory

Activation(x) == [image |-> x, at |-> 1]

ScanSystemImage(at, x) ==
    /\ pc = at
    /\ stack' = <<Activation(x)>>
    /\ Goto("scan")
    /\ UNCHANGED <<loads, list, count, iat>>

-----------------------------------------------------------------------------
(* BlScanImportDescriptorTable.                                            *)

Top == stack[Len(stack)]
Callers == SubSeq(stack, 1, Len(stack) - 1)
Descriptor == disk[Top.image].imports[Top.at]
AtDescriptor == stack # <<>> /\ Top.at <= Len(disk[Top.image].imports)
NextDescriptor ==
    stack' = [stack EXCEPT ![Len(stack)] = [image |-> Top.image, at |-> Top.at + 1]]

\* Mutants: the reference count is left alone; only a DLL that has just been
\* loaded is bound to.
FoundUncounted(x) ==
    /\ pc' = "bind" /\ thunk' = 1
    /\ UNCHANGED <<count, disk, stack, low, high, status>>
FoundNotBound(x) ==
    /\ count' = [count EXCEPT ![x] = @ + 1]
    /\ NextDescriptor /\ Goto("scan")

\* BlCheckForLoadedDll found the DLL: its thunks are bound without a scan.
Found(x) ==
    /\ count' = [count EXCEPT ![x] = @ + 1]
    /\ pc' = "bind" /\ thunk' = 1
    /\ UNCHANGED <<disk, stack, low, high, status>>

\* A descriptor that names the image itself is skipped.
SkipSelf ==
    /\ pc = "scan" /\ AtDescriptor
    /\ Descriptor.dll = Top.image
    /\ NextDescriptor /\ Goto("scan")
    /\ UNCHANGED <<loads, list, count, iat>>

ImportLoaded ==
    /\ pc = "scan" /\ AtDescriptor
    /\ Descriptor.dll # Top.image /\ OnList(Descriptor.dll)
    /\ Found(Descriptor.dll)
    /\ UNCHANGED <<loads, list, iat>>

\* Not on the list: load it, put it on the list, then scan it.  An image whose
\* entry finds no memory stays loaded.
ImportDll ==
    LET x == Descriptor.dll
    IN  /\ pc = "scan" /\ AtDescriptor
        /\ x # Top.image /\ ~OnList(x)
        /\ \/ LoadFails
           \/ Load(x) /\ NoMemory
           \/ /\ Load(x) /\ Enter(x)
              /\ stack' = Append(stack, Activation(x))
              /\ Goto("scan")
              /\ UNCHANGED iat

\* No descriptor left: back to the activation that loaded this image, which
\* binds its thunks, or to BlOsLoader.
Return ==
    /\ pc = "scan" /\ stack # <<>> /\ ~AtDescriptor
    /\ stack' = Callers
    /\ IF Callers # <<>> THEN pc' = "bind" /\ thunk' = 1
       ELSE pc' = (IF Top.image = Kernel THEN "scan_hal" ELSE "done") /\ thunk' = thunk
    /\ UNCHANGED <<disk, loads, list, count, iat, low, high, status>>

-----------------------------------------------------------------------------
(* BlpScanImportAddressTable and BlpBindImportName, for the thunks of the  *)
(* descriptor on top of the stack.                                         *)

Exports == disk[Descriptor.dll].exports
Here == <<Top.image, Top.at, thunk>>
Thunk == Descriptor.thunks[thunk]
Names == Len(Exports.names)

\* Tables of C count from 0.
NameTable(i) == Exports.names[i + 1]

\* Mutant: the position of the name is taken for its ordinal.
OrdinalTableSame(i) == i
OrdinalTable(i) == Exports.ordinals[i + 1]

NoExportDirectory ==
    /\ pc = "bind" /\ Exports = NoExports
    /\ Fail("EBADF")
    /\ UNCHANGED <<loads, list, count, iat>>

EndOfThunks ==
    /\ pc = "bind" /\ Exports # NoExports
    /\ thunk > Len(Descriptor.thunks)
    /\ NextDescriptor /\ Goto("scan")
    /\ UNCHANGED <<loads, list, count, iat>>

\* The thunk becomes the address of the function, and the next one is due.
Bind(ordinal) ==
    IF ordinal < Exports.functions
    THEN /\ iat' = [iat EXCEPT ![Here] =
                       IF @ = Raw THEN Function(Descriptor.dll, ordinal) ELSE Nonsense]
         /\ pc' = "bind" /\ thunk' = thunk + 1
         /\ UNCHANGED <<disk, loads, list, count, stack, low, high, status>>
    ELSE Fail("EINVAL") /\ UNCHANGED <<loads, list, count, iat>>

AtThunk(kind) ==
    /\ pc = "bind" /\ Exports # NoExports
    /\ thunk <= Len(Descriptor.thunks) /\ Thunk.kind = kind

\* An ordinal below the base of the directory wraps to a large one.
BindByOrdinal == AtThunk("ordinal") /\ Bind((Thunk.ordinal - Exports.base) % Word)

HintFits == Thunk.hint < Names /\ NameTable(Thunk.hint) = Thunk.symbol

BindByHint == AtThunk("name") /\ HintFits /\ Bind(OrdinalTable(Thunk.hint))

\* Mutant: High starts one beyond the last name.
LastNameBeyond == Names
LastName == Names - 1

StartSearch ==
    /\ AtThunk("name") /\ ~HintFits
    /\ pc' = "search" /\ low' = 0 /\ high' = LastName
    /\ UNCHANGED <<disk, loads, list, count, iat, stack, thunk, status>>

Middle == (low + high) \div 2

\* Mutants: the search ends when one name is left; it does not leave the middle.
SearchingTwo == pc = "search" /\ high > low
LowerHalf == high' = Middle - 1 /\ UNCHANGED low
UpperHalfSame == low' = Middle /\ UNCHANGED high
UpperHalf == low' = Middle + 1 /\ UNCHANGED high

Searching == pc = "search" /\ high >= low

Probe ==
    /\ Searching /\ NameTable(Middle) # Thunk.symbol
    /\ IF Thunk.symbol < NameTable(Middle) THEN LowerHalf ELSE UpperHalf
    /\ UNCHANGED <<disk, loads, list, count, iat, stack, pc, thunk, status>>

BindByName ==
    /\ Searching /\ NameTable(Middle) = Thunk.symbol
    /\ Bind(OrdinalTable(Middle))

NoSuchName ==
    /\ pc = "search" /\ ~Searching
    /\ Fail("EINVAL")
    /\ UNCHANGED <<loads, list, count, iat>>

Finished == pc \in Terminated /\ UNCHANGED vars

Next ==
    \/ LoadSystemImage("load_kernel", Kernel, "load_hal")
    \/ LoadSystemImage("load_hal", Hal, "enter_kernel")
    \/ EnterSystemImage("enter_kernel", Kernel, "enter_hal")
    \/ EnterSystemImage("enter_hal", Hal, "scan_kernel")
    \/ ScanSystemImage("scan_kernel", Kernel)
    \/ ScanSystemImage("scan_hal", Hal)
    \/ SkipSelf \/ ImportLoaded \/ ImportDll \/ Return
    \/ NoExportDirectory \/ EndOfThunks
    \/ BindByOrdinal \/ BindByHint \/ StartSearch
    \/ Probe \/ BindByName \/ NoSuchName
    \/ Finished

Spec == Init /\ [][Next]_vars

\* One thread runs the loader, with interrupts off and nothing to wait for.
FairSpec == Spec /\ WF_vars(Next)

-----------------------------------------------------------------------------
(* Properties.                                                             *)

Targets ==
    {Raw, Nonsense} \cup [kind : {"function"}, dll : Images, index : Nat]

\* The loader's data keeps its type; in particular the search stays within the
\* names of the directory, whatever its size.
TypeOK ==
    /\ disk \in Disks
    /\ loads \in [Images -> Nat]
    /\ list \in Seq(Images)
    /\ count \in [Images -> Nat]
    /\ iat \in [Places(disk) -> Targets]
    /\ stack \in Seq([image : Images, at : Nat \ {0}])
    /\ thunk \in Nat \ {0}
    /\ pc = "search" => low \in 0 .. Names /\ high \in -1 .. (Names - 1)

\* However the imports refer to each other, an image is loaded once, has one
\* entry on the list and at most one activation that scans it.
EachOnce ==
    /\ \A i, j \in DOMAIN list : list[i] = list[j] => i = j
    /\ \A i, j \in DOMAIN stack : stack[i].image = stack[j].image => i = j
    /\ \A x \in Images : loads[x] <= 1

\* What the export directory of the imported image says of a thunk.
Resolutions(p) ==
    LET descriptor == disk[p[1]].imports[p[2]]
        wanted == descriptor.thunks[p[3]]
        exports == disk[descriptor.dll].exports
    IN  IF exports = NoExports THEN {}
        ELSE IF wanted.kind = "ordinal"
        THEN {f \in {wanted.ordinal - exports.base} : 0 <= f /\ f < exports.functions}
        ELSE {f \in {exports.ordinals[k] : k \in {n \in DOMAIN exports.names :
                                                   exports.names[n] = wanted.symbol}} :
                 f < exports.functions}

\* A thunk holds what the linker put there or the function that it names, in
\* the image that its descriptor names; none is bound a second time.
BoundAsNamed ==
    \A p \in Places(disk) :
        \/ iat[p] = Raw
        \/ /\ iat[p].kind = "function"
           /\ iat[p].dll = disk[p[1]].imports[p[2]].dll
           /\ iat[p].index \in Resolutions(p)

BindingFails == pc \in {"bind", "search"} /\ pc' = "failed"

\* Binding fails only for a thunk that the export directory cannot resolve,
\* or for want of a directory: the hint and the search miss nothing.
RefusedOnlyWhenMissing ==
    [][BindingFails => (Exports = NoExports \/ Resolutions(Here) = {})]_vars

\* The scan of x has begun, it is at descriptor At(x), and has it in hand.
Unscanned ==
    (IF pc \in {"enter_hal", "scan_kernel"} THEN {Kernel} ELSE {})
    \cup IF \/ pc \in {"scan_kernel", "scan_hal"}
            \/ stack # <<>> /\ stack[1].image = Kernel
         THEN {Hal} ELSE {}

Active(x) == {i \in DOMAIN stack : stack[i].image = x}

\* The descriptors of x whose reference was counted.
Counted(x) ==
    IF x \in Unscanned THEN {}
    ELSE {i \in DOMAIN disk[x].imports :
            \A k \in Active(x) :
                \/ i < stack[k].at
                \/ i = stack[k].at /\ (k < Len(stack) \/ pc # "scan")}

References(x) ==
    UNION {{<<y, i>> : i \in {n \in Counted(y) : disk[y].imports[n].dll = x}} :
              y \in {list[k] : k \in DOMAIN list} \ {x}}

\* The load count of an image is the number of references that were taken to
\* it, and one more for the two that BlOsLoader refers to.
CountsReferences ==
    pc # "failed" =>
        \A k \in DOMAIN list :
            count[list[k]] =
                Cardinality(References(list[k])) + (IF list[k] \in {Kernel, Hal} THEN 1 ELSE 0)

Listed == {list[k] : k \in DOMAIN list}

\* The images that an image of the set imports.
Needed(set) ==
    UNION {{disk[x].imports[i].dll : i \in DOMAIN disk[x].imports} : x \in set}

\* The list handed to the kernel is headed by the kernel and the HAL, has
\* what they need, directly or not, and nothing else, with every thunk bound.
HandedOverComplete ==
    pc = "done" =>
        /\ Len(list) >= 2 /\ list[1] = Kernel /\ list[2] = Hal
        /\ Needed(Listed) \subseteq Listed
        /\ \A set \in SUBSET Images :
              {Kernel, Hal} \subseteq set /\ Needed(set) \subseteq set => Listed \subseteq set
        /\ \A p \in Places(disk) :
              p[1] \in Listed /\ disk[p[1]].imports[p[2]].dll # p[1] => iat[p] # Raw

\* Whatever cycles the imports form and wherever it fails, the loader comes
\* to an end.
ComesToAnEnd == <>(pc \in Terminated)
=============================================================================
