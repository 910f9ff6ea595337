# A TLA+ model of arcpi

arcpi (`src/arcfw`) is an ARC firmware environment and Windows NT 3.5-era OS loader for
the Raspberry Pi 2. A short start-up in `arm/` brings the board up, emulates the ARC
firmware vector over a RAM disk, and offers two programs: the ARC DOS shell
(`ported/arcdos.c`) and the OS loader (`ported/osloader.c`), which reads the registry
hive, loads the kernel, HAL and boot drivers, binds their imports and hands a loader
parameter block to the kernel.

Everything runs on one core with interrupts off: drivers poll, there are no threads and
no callbacks into running code. What makes the program hard is not concurrency of
processors but state that is shared by calls made far apart: one file table and one FAT
context under every open file, a heap that grows out of the list it stores, a cached
window over the FAT, a registry hive that is trusted once it was checked, a keyboard that
is heard only while somebody waits for a key, and devices that may fail between two calls.

The modules here translate that code; comments name routines as the source does. The
models are checked with TLC on small instances and the main results are proved with
TLAPS for all values of the constants.

## 1. Inventory

| Component | Source (`src/arcfw/`) | State it keeps | Operations | Modules |
|---|---|---|---|---|
| Physical memory and boot heap | `ported/blmemory.c`, `arm/memory.c` | descriptor list, `BlHeapFree`, `BlHeapLimit`, `MDArray` | initialize, allocate heap (aligned), allocate and generate descriptors | `BlMemory`, `PageOwnership` |
| ARC vector and file table | `arm/arcemul.c`, `ported/blio.c`, `arm/ramdisk.c` | `BlFileTable`, `FatStructureTemp`, RAM disk image | open, close, read, seek, write, directory and file information, `BlIoInitialize` | `FileTable`, `FileHandles` (partly) |
| FAT file system | `ported/fatboot.c` | `FAT_STRUCTURE_CONTEXT` (geometry, cached mapping, cached FAT), the volume, dirent copies in entries | FAT entries, chains, lookup, create, read, write, truncate, delete, flush | `FatEntries`, `FatPacking`, `FatTable`, `FatVolume` (partly) |
| ARC DOS shell | `ported/arcdos.c` | line, current directory, two file ids | type, dir, copy, xcopy, md, del, attrib as clients of the file system | `DosShell` (partly) |
| OS loader sequence | `ported/osloader.c`, `blload.c`, `arm/blsvc.c`, `ntsetup.c` | the loader block, open devices and files | load, scan, name, hand over | `OsLoader` (partly) |
| Image loading and binding | `ported/peldr.c`, `blbind.c`, `arm/imageldr.c` | list of loaded images, load counts, import tables | load an image, scan imports recursively, bind | `ImageBinding` (partly) |
| Hive engine | `ported/config/hive*.c`, `cmchek.c` | the hive in place, its map | initialize, build the map, check | `HiveCheck` (partly) |
| Registry keys | `ported/config/cmindex.c` and kin | none of its own | look a subkey up by number and by name | `HiveCheck` (partly) |
| Boot drivers | `ported/config/cmboot.c`, `cmtree.c`, `ported/regboot.c` | the driver list | choose the control set, collect, sort by group, order by tag | `BootDrivers` (partly) |
| USB keyboard | `arm/usb.c` | ring of keys, previous report, the device found | search the ports, control transfers, poll, take a key | `UsbKeyboard` (partly) |
| Start-up and boot menu | `arm/init.c` | choice, countdown | initialize in order, count down, run a program | `BootMenu` (partly) |
| ARC configuration tree | `arm/config.c`, `ported/blconfig.c`, `keconfig.c` | static tree and the copy in the loader block | copy, path names, device names | `OsLoader` (partly) |
| ARC disk table | `ported/arcdisk.c` | disk names and signatures in the loader block | enumerate disks | `OsLoader` (partly) |
| Framebuffer console | `arm/fbcon.c` | cursor, pending wrap, escape parser, attributes | put a character, scroll, report the cursor | not modelled |
| Serial, mailbox, timer | `arm/uart.c`, `mailbox.c`, `timer.c` | none | busy loops on one register | not modelled |
| C library, stubs | `arm/clib.c`, `ntrtlcm.c`, `stubs.c` | none | string helpers | not modelled |
| Demonstration kernel | `kernel/` | its own display | prints the loader block | not modelled |

**How they interact.** `BlStartup` initializes the console, USB, the ARC emulator and the
RAM disk, corrects the firmware's memory map for the size of the image
(`BlArmFixupMemoryMap`) and shows the menu. ARC DOS calls the vector. `BlOsLoader` first
opens the console through the vector, then calls `BlMemoryInitialize` and
`BlIoInitialize`, and from then on opens partitions through the vector and files with
`BlOpen`, whose FAT driver reads its partition through the vector again. Every file of
every program shares `FatStructureTemp`. `BlLoadImage`, the hive and the NLS loader ask
`BlAllocateDescriptor` for pages, everything else asks the heap; both end in the list the
kernel receives.

**What is hard, and what correctness means.**

* *Memory*: a call that splits a descriptor may grow the heap, which shrinks a descriptor.
  Pages must have one owner, none may be lost, heap objects must not overlap, and a
  failure part way must leave a list the kernel can use.
* *File table*: entries are reused without being cleared, partitions are shared without
  counts, all files share one context. A file id must stand for what it was opened as.
* *FAT*: a window is evicted and saved in several copies by writes that may fail; two
  12-bit entries share a byte; chains, directories and dirents are written one after the
  other, so a refused write or a full volume comes in between. Callers must see an array,
  and files must not share clusters.
* *ARC DOS*: commands open several files on one context with one cached mapping; one copies
  onto itself, or into the directory it reads. A copy must be exact and change no other file.
* *Loader, binding*: recursion over imports with cycles; each image once, bound after its
  imports are in the list.
* *Loader sequence*: thirty steps, each of which may fail, with files open meanwhile; what
  the kernel gets must be complete, and a failure must be told with the right name.
* *Hive, registry*: an image that may be damaged anywhere and is walked without tests once
  accepted; recursion by jumps; binary searches; ordering of drivers on a linked list.
* *Keyboard*: retries of transfers, devices that share address 0, a ring that overflows;
  keys neither lost nor doubled.
* *Menu*: a countdown racing a key on either of two lines.

`PROJECT.json` lists each of these hazards at the line where it bites.

## 2. Modules

| Module | Contents |
|---|---|
| `BlMemory` | the descriptor list and the heap in it |
| `PageOwnership` | abstract: each page has one owner, only free pages change hands |
| `BlMemoryProofs` | proofs about `BlMemory`: types and disjoint lists; pages, their owners and the objects in the heap |
| `FatEntries` | the FAT through its cached window, over several copies, with failing writes |
| `FatPacking` | 12- and 16-bit entries in bytes |
| `FatTable` | abstract: `x = Fat[i]`, `Fat[i] = v`; refined by both modules above |
| `FatCalls` | what both are called with and answer |
| `FatTableProofs` | proofs about `FatEntries` and `FatPacking` |
| `FileTable` | `BlFileTable`, the vector and the Bl I/O layer, the one FAT context |
| `FileHandles` | abstract: what a caller counts on of a handle; refined by `FileTable` |
| `FatVolume` | directories, chains, allocation, truncation, the cached mapping: each routine of `fatboot.c` as an operator from volume to volume |
| `DosShell` | composes `FatVolume`: the commands of ARC DOS, one call of the vector a step |
| `FatVolumeProofs` | what every routine of `FatVolume` makes of a volume: its type, its table, its chains |
| `DosShellProofs` | extends it: proofs about the commands, from call to call |
| `ImageBinding` | the list of loaded images, the recursive scan of imports, the binding of thunks |
| `ImageBindingProofs` | proofs about `ImageBinding` |
| `HiveCheck` | a hive opened, mapped, checked, refused or looked up in |
| `HiveCheckProofs` | proofs about the walk, about undamaged images and about the look-ups |
| `BootDrivers` | `BlScanRegistry`: control set, code pages, the list of boot drivers |
| `BootDriversProofs` | proofs about the list while it is collected, sorted and ordered |
| `UsbKeyboard` | search of the ports, control transfers, reports, the ring |
| `BootMenu` | composes `UsbKeyboard`: the countdown, the serial line, the vector's console input |
| `OsLoader` | composes `BootMenu`: `BlOsLoader` from the menu to the kernel |
| `LoaderProofs` | proofs about `FileTable`; about the search for the keyboard, its keys, the menu and the loader |
| `MC*` | what TLC is run on; they say how small the instance is |

### BlMemory

`mem` is the descriptor list with `BlHeapFree` and `BlHeapLimit`; each descriptor carries
the heap address (`at`) its own bytes live at, because the list is stored in the heap it
describes. `firmware` is `MDArray`. `phase` follows start-up; `answer` is what the last
call returned; `blocks` is the history, in order, of what the heap handed out. Page counts
and offsets wrap modulo `Word`, as `ULONG`s do. `BlAllocateHeap` and `BlGenerateDescriptor` are
operators from memory to memory because the code calls one from the other;
`BlGenerateDescriptor` computes its offset before it allocates, as the code does, and the
allocation may shrink descriptor `i` underneath it. The actions are
`BlArmFixupMemoryMap`, `BlMemoryInitialize`, `AllocateHeap`, `BlAllocateHeapAligned`,
`BlAllocateDescriptor` and `FreeImageTail` (the end of `BlLoadImage`, which ignores the
status).

`RoomySpec` restricts `BlAllocateDescriptor` to *roomy* requests: the descriptor served
from need not be split, or the heap has room for two descriptors, or the descriptor also
holds the pages the heap would take. On the board one free region of hundreds of megabytes
serves every request, so requests are roomy; the code does not check it, and the run
`any` shows what happens otherwise.

### FatEntries and FatPacking

`FatEntries` models `FatLookupFatEntry`, `FatSetFatEntry` and `FatFlushFatEntries` on a
record that holds the copies on disk (`fat`), the window (`loaded`, `base`, `window`,
`dirty`), and the mood of the device during one call: how many more writes it carries out
and whether it reads. The macros `DiskRead`, `DiskWrite` and so on return from their
caller when they fail; `status` plays that part. `Mount` is `IsFatFileStructure`, which
zeroes the context. `ReadsMayFail` and `MountsWhenDirty` name the two conditions under
which the promise breaks. The RAM disk of this port
has no write routine (`arm/ramdisk.c`), so on the board every write is refused; the module
covers a device that accepts any number of writes before it refuses one, none included.

`FatEntries` counts entries; `FatPacking` justifies that. It lays entries out in bytes,
with `CopyUchar2`, shifts and masks as arithmetic, and shows that a window whose size is a
multiple of 6 bytes always holds whole entries. Both implement `FatTable`, the sentence in
the comments of the two routines.

### FileTable

An entry has its flags, its driver (`DeviceEntryTable`), and the fields that belong to the
RAM disk (`start`) or to FAT (`device`, `file`, `position`). `handle` is what callers hold:
the file id and, for the properties only, what it was opened as. `program` is `"firmware"`
until `BlIoInitialize`. `AEOpenFile` is one action: open the partition or share its entry,
then `BlOpen` in the first free entry, which mounts into the one `context`, whatever volume
was there, and opens the file or finds no volume. A read of a file uses whatever geometry is
in the context: it yields what the file holds when that is its own volume, something else
(`Garbled`) when it is another's. It may also fail (`DiskRead`), or answer success with
fewer bytes than there are (`FatVboToLbo` failing). `FileHandles` therefore has the
partition that is mounted beside the handles: reads are promised of its files only, and a
read that yields nothing is no sign of the end.

Left out of the data: contents, names below a partition, directories. `FatOpen` fails or
not by choice. Failures that happen before any state changes (no such device, a console
opened read-write) are no steps. Callers are as disciplined as those in the repository:
`BlOsLoader` runs `BlIoInitialize` with only the console open, and a partition is closed
only by a caller that knows of no other use of it (`AloneOn`); `LeaveDevice` is the caller
that forgets, as `BlpEnumerateDisks` does. Writing to files is in `FatVolume`.

### FatVolume and DosShell

The unit of space is what one directory entry takes; a cluster has `Units` of them. A
volume is a record: the units of every cluster, the table on the disk and in the cache,
the mapping of one file (`mcb`), the entries of the file table, and what the device does
during this call: `writes` says how many more it carries out, and once it refused one it
refuses all. The routines are operators on such records, in the order the code calls them,
and stop where a macro would return; `FatOpen`, `FatRead`, `FatWrite`, `FatClose`,
`FatSetFileInformation` and `FatGetDirectoryEntry` are built from `FatAllocateClusters`,
`FatCreateDirent`, `FatLoadMcb` and so on. Sizes and positions count units; contents are
tags, one for each unit, so that a unit read from the wrong cluster shows; any unit can be
read as a directory entry, as the bytes of a disk can. `Names` is what paths are made of.
The loops of the code are functions of the turn (`Turn`, `Put`, `Past`). The table is
seen whole: `FatEntries` is about its windows and copies. `Sound` says what a sound volume
is: of the live entries (`Live`) of the root and of the directories in it.

`DosShell` keeps one `job`: the command, the next call, the buffer, and for the properties
what the operand held when it was opened. A step is one call of the vector, made with any
number of writes the device still accepts. Several commands leave without closing what
they opened; so do theirs here. `PathsAssumption` keeps to the tree that `Sound` is about:
files are typed by at most two names and directories by one, and none of them is `.`, `..`
or a mark of `fatboot.c` (empty, deleted). `SoundAssumption` says that the volume the
program finds is sound and has `.` and `..` where a FAT volume has them, in directories
other than the root. Reads do not fail here (`FatEntries` has those of the table). `xcopy`
calls itself for subdirectories (`arcdos.c:957-970`); that is left out, as a directory that
is typed is one of the root's and has none.

### ImageBinding

The part of `BlOsLoader` that loads the kernel and the HAL, puts both on
`LoadOrderListHead` and scans the imports of one, then of the other, with
`BlScanImportDescriptorTable` and everything below it in `blbind.c`. `stack` holds the
activations of the recursive routine, each at a descriptor; `pc` tells the scan from the
binding of a descriptor's thunks (`thunk`) and from the binary search (`low`, `high`).
`disk` is what the image files contain: it is chosen at the start and read by every step.
`loads` and `count` count the loads of an image and its `LoadCount`; `iat` is what the
thunks hold, with a value of its own for a thunk that was bound twice, since
`BlpBindImportName` rewrites it in place. A failure goes up through all activations, so
`Fail` empties the stack.

Data: an image is a base name, equal when `BlpCompareDllName` says so; symbols are numbers
in the order of `strcmp`, which is how a linker sorts an export directory
(`DiskAssumption` says so; the search relies on it). `BlLoadImage` succeeds or fails
(missing, not executable, no memory for it), and `BlAllocateDataTableEntry` may find no
memory after it. Of the order of steps, only the look at a missing import directory is
left out: an image without one has no descriptors. `BlLoadDeviceDriver` and
`BlScanOsloaderBoundImportTable` have no caller on this port.

### HiveCheck

An image is its base block and its words; an address is a multiple of `HCELL_PAD`, and at
each address a record holds every field that may be read there, so that an index into the
middle of a cell, or past the end, reads something. Files are given as what damage changed
in one sound image. `phase` names the routine: `HvInitializeHive` (base block, check sum,
sequence numbers), `HvpBuildMap` (one bin a step), `HvCheckHive` and `HvCheckBin` (one
cell a step), then `CmpCheckRegistry2` with its jumps: `NewKey`, `Descend`, `ResumeKey`. `WorkVar` is the field of the key that
keeps the index during a descent. A refusal goes on with `system.alt`, on what the first
try left. In an accepted hive `Find` starts a look-up of a name in a checked key; the
binary searches of `cmindex.c` go on a turn a step (`CmpFindSubKeyInRoot`, `LastLeaves`,
`CmpFindSubKeyInLeaf`, `LastEntries`), with `Low`, `High` and the list in `lookup`.

What undamaged means is said by what the writer of the image left, not by the tests of the
loader: `SoundBins`, `SoundCells` and `SoundKeys` name where things are, and
`SoundAssumption` that bins are whole blocks and fill the image, cells fill the bins, every
subkey names its parent and counts are those of the lists.

The check sum is the tuple of the fields it sums. Version 1 cells, hives of more than one
map table and `CmpCheckClean` are left out; the hive is opened read-only, so the routines
that allocate and free cells are refused or never called.

### BootDrivers

`hive` holds what the scan reads: the `Select` values, which keys there are, code pages,
services with `Start`, group and tag. `CmpFindDrivers` adds a service at the head of the
list, unless the heap has no room; the results are ignored, as in the code.
`CmpDoSort` moves groups to the front from the last to the first: `order` is the place of
its `CurrentGroup` in the order list, `entry` its `Next`, and a step passes or moves one
node (`MovedTo` is a removal and an insertion further to the front).
`CmpOrderGroup` is one turn of its loop a step, with its two bounds moving. Nodes are
named by their subkey; the one added by name as the boot file system is node 0. The paths
put in a node and the last-known-good branches are left out.

### UsbKeyboard, BootMenu, OsLoader

One module on top of the other, because the keyboard serves the menu and the menu starts
the loader.

`UsbKeyboard`: `usb` is the routine of the search that runs, `probe` its locals, `address`
what each device answers at. A request fails when nobody answers, when two devices answer
at once, or by a fault (`OneMore`, which counts with the keys against `MaxEvents`). A data
stage is packets; a keyboard behind a high-speed hub may put one off, after which
`usb_ctrl_stage` starts over at the head of the buffer while the device goes on. `queue` is
the ring with `prev_keys`. A poll finds no report, a report, or loses one. `Decoded` gives
the bytes of a key, more than one for an arrow. The user holds no more keys than a report
has room for (`REPORT_KEYS`); what a keyboard reports beyond them is not modelled. The
loops over keys and bytes are recursive functions (`Emitted`, `Pushed`).

`BootMenu`: `AEReadStatus` and `AERead` look at the serial line first. `over` says that the
second that is waited for has passed; the clock sets it at any moment. The user types at
any moment the menu is up.

`OsLoader`: `step` is what `BlOsLoader` does next; `opened`, `block`, `tree`, `disks` are
the files in use, the fields filled, the components copied and the disks entered. Each
step succeeds or fails. A checked failure is told by `BlFatalError` or, in
`BlLoadAndScanSystemHive`, by `BlBadFileMessage` with `badFile`; an unchecked one sets
`ignored` and goes on. The arguments are those of `BlArmArgv`, so that none is missing and
both devices are one partition; there is no environment, so the last known good control
set is never asked for. `BlCheckBreakInKey` takes a byte, if one waits, and never stops
the loader. After the kernel is loaded `BlGetFsInfo` mounts its partition once more and may
not recognise it (`UnknownFileSystem`): the loader then gives up with `ESUCCESS`. `BlSetupForNt` and the routines with modules of their own are one step.

## 3. Runs

| Run | Instance | Shows |
|---|---|---|
| `roomy` | 16 pages of 64 bytes, heaps of 3 pages, lists of up to 10 descriptors | with roomy requests, no sequence of heap and descriptor calls corrupts list or heap, and the list implements `PageOwnership` |
| `any` (violation) | 20 pages, any request | a heap growth inside a split makes two descriptors overlap |
| `saved` | 5 entries, windows of 2, 2 copies | the window is invisible whatever writes fail; only a dirty window is unsaved |
| `readfail` (violation) | the same, reads may fail | after a look-up that failed, the next one answers a value the FAT never held |
| `packing` | 6 entries of 12 bits, a window of 6 bytes | entries do not disturb each other; windows hold whole entries |
| `files` | 5 entries, 2 handles, 2 FAT volumes (the disk and its partition), a file on each | handles keep standing for what they were opened as, with a position of their own; what is read is what was opened, or nothing, while its volume is the one mounted; entries do not leak |
| `volume` | 7 clusters of 2 entries, a fragmented and a small file, 4 commands, writes refused from any on | entries never share a cluster; chains end, are as long as their files and none is lost while no write was refused (and no allocation failed); other files stay; listings and copies are exact; no command leaves changes of the table unsaved unless a write was refused |
| `binding` | 4 images, 2,048 graphs of imports and every lookup in directories of up to 6 names | each image is loaded, listed and counted once, thunks are bound once and as named, the loader ends |
| `walk` | 2 bins, 5 keys, a root of two leaves; every single damaged field, bins of size 0 and beyond the end, circles of keys, torn writes, a short file, a good or bad alternate | what is accepted is wholly checked, look-ups in it are right, the right file is booted, the verdict comes but in three cases |
| `drivers` | 4 services, every mix of groups and tags; every key missing | the list holds exactly the boot drivers, in order; the ordering ends |
| `drivers_tags` (violation) | the same | the last tag of a vector counts as not listed |
| `boot` | 3 hubs of two ports, a ring of 4, 2 seconds, any two faults, keys or serial bytes | keys come once and in order, the keyboard is found, the menu obeys, the kernel gets a complete block or the failure is told, the boot ends |

**Why the bounds are enough.** In `roomy`, a heap of three pages grows after one split,
and an image end of 14 leaves too few pages for the first heap: the lists go through every
split (at the start, at the end, in the middle, exact), growth from the descriptor being
split and from another, the tail of an image for which there is no descriptor, and exhaustion. A
split in the middle that finds no second descriptor is modelled, but roomy requests never
come there. The list bound `MaxDescs` stops only calls on longer lists. In `saved`, three windows with a
last partial one make every eviction happen, and two copies make a flush fail before,
between and after. In `packing`, six entries are one window and a half, with odd and even
neighbours in and across windows. In `files`, three free entries for two files,
the partition and the disk fill the table, so that refusals, sharing and reuse all happen, and
a second volume is mounted under the files of the first. The handles are symmetric.
`FileSize` of one unit distinguishes the start from the end of a file. In `volume`, the
fragmented file has one cluster more than the mapping takes, so that mappings are
reloaded; one copy of it fills the volume; directories are made and copied into, which
takes clusters from files; `WriteBound` is no less than the writes of one call. In
`binding`, four images are the two that are loaded first and two that are found through
imports, enough for cycles through the kernel, the HAL and themselves, for images found
twice and for chains of three activations; directories of up to six names take the search
through every length of up to three probes, names between and beyond those of the table
included. The graphs are all those in which `A` alone imports itself and `B` does not
import the kernel. In `walk`, the keys make a root of two leaves, a single leaf and a
second level; values, classes and free cells are there to be damaged, with indices of
cells, of their middles, of bins and of nothing, sizes of bins from 0 to past the end, and
keys in circles, through the root and beside it. Four of the five names are of
keys, one of them beyond the last subkey of the root, and one lies between two keys. In `drivers`, four drivers of one group
with five kinds of tags reach every turn of `CmpOrderGroup`, an ordering that stops early
included. In `boot`, two events are enough for a fault under a key, two keys between two
polls, and a ring that overflows (an arrow is three bytes); a failure ends the loader or
selects the other hive, so that two of them reach every path.

`CHECK_DEADLOCK FALSE`: in the memory runs `BlMemoryInitialize` may fail, after which
nothing else happens, and the list bound stops calls; `drivers`, `walk` and `boot` come to
an end.

**Fairness.** `FairSpec` of `ImageBinding` and of `BootDrivers`: weak fairness of the next
step; of `HiveCheck`: of the loading, not of the look-ups. The loader is one thread with
interrupts off, and none of its steps waits. `BootSpec`: weak fairness of the processor
(`Main`), which never stops, and of the timer (`Clock`), which counts by itself; none of
the user or of the devices, so that `BootEnds` holds of a board where nobody types and
nothing answers. In `boot` the check of the hive is one step that ends; that it does, and the
three kinds of damage with which it does not, is `CheckEnds`. `PacketPutOff` is bounded by `CTRL_AGAIN_MAX`, as in the code. The other
modules assume none: their calls are made by a program that may stop making them, and
their properties are safety properties.

## 4. Findings and deviations

Runs that expect a violation:

* `any`: `BlGenerateDescriptor` works with an offset computed before a heap growth that may
  shrink the same descriptor.
* `readfail`: `CachedFatVbo` moves before the read that fills the window succeeds, so that
  after the failure the next look-up is answered from what the window held before.
* `drivers_tags`: `CmpFindTagIndex` stops before the last tag of a vector.

Each is quoted with its lines in `PROJECT.json`.

**Deviations** are what was met while modelling and has no run of its own, either because a
property above is stated around it or because no comment says otherwise.

* *File table.* `BlIoInitialize` frees the entries of the console after `BlOsLoader` opened
  it, and the next file takes its file id (`blio.c:92`, against the comments in
  `arcemul.c`). There is one FAT context, not one "for every mounted volume": opening a
  file on another partition spoils reads of the open ones (`blio.c:478`); `FileHandles`
  promises reads of the volume mounted last only, and `files` has two. `HandlesKept` speaks
  of partitions and files, not of the console's ids. `FatRead` answers `ESUCCESS` with fewer
  bytes than asked when a chain cannot be followed (`fatboot.c:1371`), which its caller
  cannot tell from the end of the file, against "ESUCCESS is returned if the read operation
  is successful" (`fatboot.c:1320`). Every open zeroes the context, a dirty window with it (`fatboot.c:393`);
  `MountsWhenDirty` names the condition, and `SavedAtPrompt` shows that the programs never
  get there.
* *FAT, ARC DOS.* A failed `md` leaves an entry with cluster 0; a full volume leaks the
  clusters already linked; a device that refuses writes half way leaves chain and entry
  different (of a volume that has refused a write `SoundVolume` asks only that entries share no
  cluster, and `Exact` nothing of a command that failed). A copy of a file to itself empties
  the target before it reads the source: the source's entry of the file table still leads to
  the freed chain, and as long as a cluster is not larger than the buffer
  (`BUFFER_MOVE_AMOUNT`, 4 KB, `arcdos.c:62`) the copy fails or comes out whole. With larger
  clusters the first write takes the source's cluster anew and blanks it, the next read
  returns zeros, and the copy reports success; `Exact` excuses that case (`OntoItself`).
  `del` and `attrib` return without closing when a call fails. `md` and `xcopy` onto an
  existing directory leave its entry open. `Create_Dir_Routine` closes a file id it
  never set when the open failed. `Copy_Routine` has no return value at its end. The RAM disk
  of this build has no `Write`, so that on the board the first write of every command is
  refused.
* *Hive.* A bin of size 0 makes `HvpBuildMap` loop for ever, and a last bin larger than what
  is left is written through a NULL map entry behind an `ASSERT` (`hivemap.c:424`). A root
  that is below itself or below one of its descendants, which it names as its parent, is
  walked for ever (`cmchek.c:273`); other circles of keys are refused. `CheckEnds` states
  these three cases as those in which no verdict comes, and `walk` has files with each.
  Nothing checks the order of names or that a leaf is not empty; `LookupFinds` excuses the
  former.
* *USB.* `usb_ctrl_stage` starts a data stage over at the head of the buffer after a packet
  was put off, while the device goes on (`usb.c:451`; u-boot, of which the engine is "a
  faithful port", moves on in the buffer). `FoundIfThere` excuses it (`trouble.restarted`):
  the descriptors are mangled, and the search ends without the keyboard or with a wrong
  endpoint. A probe that fails before `SET_ADDRESS` leaves its device at address 0, where the
  next one answers too (`trouble.clash`), although the comment says that devices "never clash
  at address 0". A failing `GET_STATUS` of one port ends the search of all. The ring drops
  the newest byte and may cut an escape sequence. A report of more than six keys replaces
  `prev_keys`, so that held keys are emitted again.
* *Boot drivers.* The results of `CmpAddDriverToList` are ignored (`cmboot.c:494`): when
  there was no memory for the boot file system another node, or the head of the list, is
  marked critical. `NoDriverLost` asks for the right mark only if it was added.
* *Loader.* When `BlGetFsInfo` does not recognise the partition the kernel came from, the
  failure is told, and `BlOsLoader` returns the `ESUCCESS` of `BlLoadImage`
  (`osloader.c:494-501`), against "EBADF is returned if the specified OS image cannot be
  loaded" (`osloader.c:159`); `NamesTheBadFile` states it as the exception. Answers of `BlAllocateHeap` are not looked at (`osloader.c:344`, 762, 768, 785,
  790, and the disk table); `ReadyForKernel` excuses such boots by `ignored`. The cache line
  size is looked for before the configuration tree is there (`osloader.c:275`), so
  `BlDcacheFillSize` is always its default. `BlLoadNLSData` leaves its file open when a read
  fails; `BlLoadOemHalFont` closes a `FileId` that was never set when the open fails
  (`OpenFont` closes any entry). The message names the language file when there was no
  memory for all three. `BlGetArcDiskInformation` never closes the disk.
* *Menu.* A digit inside an escape sequence of a serial terminal chooses; the break-in check
  of the loader eats one byte.

## 5. Proofs

All hold for every value of the constants that satisfies the named assumptions of the
modules; TLC evaluates these assumptions on every run.

* **`TypeCorrect`** (`BlMemoryProofs`): `Spec => []TypeOK`, also for requests that are not
  roomy. The invariant adds what `BlMemoryInitialize` needs of the firmware's list. Lists
  are rebuilt field by field; arithmetic wraps by a lemma on `%`.
* **`ListStaysDisjoint`, `AnswersAreTrue`, `HeapNeverGetsThere`** (`BlMemoryProofs`),
  of `RoomySpec`. Disjointness alone is not inductive: the split needs that the descriptors
  lie in RAM and do not wrap (`GoodList`), and the answer needs to be remembered as a
  descriptor of the list (`AnswerHolds`). The effect of a call, which may split a
  descriptor in three and take a new heap from the same or another one, is summed up by an
  *origin map*: each new descriptor lies inside an old one and those of one origin lie
  apart; such a list is good again (`RefineList`).
* **`NoPageIsLost`, `PagesHaveOneOwner`, `HeapBlocksStayApart`** (`BlMemoryProofs`), of
  `RoomySpec`. `FullInv` adds to the good list that the pages listed are those of the
  firmware's list, and who owns each. The lemmas say which pages change hands: none in a
  split, the heap's in a growth, the pages asked for in a request, both when a growth falls
  within a split; a descriptor that cannot be had loses no page either. `PagesHaveOneOwner` is the step
  simulation of `PageOwnership` from there. For the heap, `Sound` orders the blocks handed
  out: each begins where an earlier one of the same heap ends or in a new heap, the last
  heap ends at `BlHeapLimit` and nothing is handed out beyond `BlHeapFree`; the boxes of
  the descriptors are blocks too. That each object lies in one heap is part of the property.
* **`TableKeepsType`** (`FatTableProofs`): no condition on the device.
* **`RestIsSaved`, `WindowIsInvisible`**: assume `ReadsMayFail = FALSE` and
  `MountsWhenDirty = FALSE`, without which they do not hold (run `readfail`; and a mount
  over a dirty window).
  `Sound` says of a volume, also within a call, that a dirty window is loaded and that
  outside it all copies agree. Flush and load keep `Sound` and the table callers see;
  a set changes it in one place. `WindowIsInvisible` is the step simulation from there.
* **`BytesStayBytes`, `WindowsAreWhole`, `PackingIsInvisible`** (`FatTableProofs`): byte
  and nibble lemmas, then: a `Put` reads back as the masked value and leaves every other
  entry as it was, neighbours in the shared byte included. `WindowsAreWhole` uses that
  `CachedFatVbo` is always a multiple of the window, which is a multiple of 6.
* **`TableTyped`, `HandlesStayKept`, `OneEntryPerDevice`** (`LoaderProofs`): no
  condition on the partitions. `Good` relates a table to the handles held; lemmas say
  which changes of one entry or one handle keep it: an entry nobody depends on, a
  position, a handle dropped or gained. Two facts have to be added to the properties:
  partitions never take the entries 0 and 1, and these are the console's until
  `BlIoInitialize`.
* **`NoEntryLeaks`** (`LoaderProofs`): a table is full only when callers hold that much.
  The inductive part is `Accounted`: each open entry is the console's, a partition's or some
  handle's. Counting goes by an injection of the open entries into what holds them.
* **`CallersSeeTheirFiles`** (`LoaderProofs`): `FileTable` implements `FileHandles` for any
  number of handles, partitions, volumes and files, with the one context as the volume that
  is mounted (`blio.c:478`, see section 4). There is a lemma for each call; that an open
  shares or reuses entries behind the back of the others is `Good` again.
* **`NoKeyLeftOut`** (`HiveCheckProofs`): any image, with keys listed twice or in cycles,
  damaged or not. The routine keeps no stack: a jump back finds the parent in the key and
  the index in `WorkVar`, both of which lie in the image that is being checked. The
  invariant (`KeyInv`) therefore says that there is a path of distinct keys from the root,
  since the walk was last there, on which every key names the one before as its parent and
  has its index in `WorkVar`, that all keys come to since then and not on the path have all
  their subkeys among them, and that the subkeys before the index do (`Walked`, `Coming`,
  `AtKey`); keys come to lie in every closed set (`Reached`). It needs of the words of an
  image that counts are natural numbers (`WordAssumption`).
* **`LoaderTyped`, `ImagesOnce`, `ThunksAsNamed`, `CountsRight`, `ListComplete`,
  `RefusedRightly`** (`ImageBindingProofs`): any number of images, any imports, any
  directories that are sorted. The invariant `Inv` keeps `Working` as long as nothing has
  failed: the activations form a chain, each but the last at the descriptor that names the
  image of the next (`Chain`); a thunk is bound exactly if the scan is past it
  (`BoundBehind`); what the scan is past is on the list (`ImportsListed`), and the list is
  within every set that is closed under imports (`Reached`); the search has not passed the
  name (`Narrowed`); counts are the cardinalities of sets of descriptors (`Counting`).
  `EachOnce` needs `LoadedListed` and that activations scan listed images only. There is
  one lemma per action; `BoundNow` is the step where a thunk must still be raw.
* **`KeyboardFound`, `FailuresTold`, `KernelIsReady`** (`LoaderProofs`): of `BootSpec`, any
  hub, any number of faults and keystrokes (`KeyboardFound` assumes of `Hubs` only that a
  hub is a sequence of ports). `SearchGood` says which ports still
  have no address, that addresses given are below the next one, that as long as no port
  was reset over a device left at address 0 the device asked is alone at its address, and
  that the buffer holds the packets in order unless a stage was started over.
  `BlockReady` says for each field of the loader block at which steps it is filled
  (`NlsPlaced`, `HiveRead`, …, sets of steps that hold each other), what may be open at
  each step, and that the copy of the tree grows along the firmware's; that the boot device
  lies on the one disk of that tree is computed from the tokens. `FailuresTold` carries to
  each step after a failure what it was (`Told`), with the one failure that leaves `Status`
  at `ESUCCESS`.
* **`KeysComeOnce`** (`LoaderProofs`): of `BootSpec`, a ring of any size, any number of
  keys with any bytes, any number of reports held back. `KeysInv` gives the report the host
  knows, each report that waits and the keys now down a mark, how much had been typed when
  it was made (`Ordering`). The keys that are new from any of them to any later one typed
  bytes that lie between their marks, in the order of the report (`Later`); it is said of
  any two because reports between may be lost. What was read and what is in the ring lies
  before the first mark (`Within`), and as long as nothing was lost each report adds one key
  at the most (`Unbroken`), so that lengths decide that nothing is missing. The ring is a
  sequence that grows at its end and shrinks at its head (`PushAdds`, `RemoveTakesFirst`),
  and the greedy search of the property finds whatever can be found (`MetFinds`).
* **`MenuChoosesRight`** (`LoaderProofs`): of `BootSpec`, any number of keys, bytes and
  seconds. What is read is followed up to the choice (`MenuInv`): no byte that names a choice
  is in `seen` while the menu still reads, so the first is the last.
* **`NoDriverIsLost`, `ListEndsOrdered`** (`BootDriversProofs`): any number of services,
  groups and tags. A move of a node keeps the nodes of the list and where they differ
  (`MoveKeepsNodes`). `CmpDoSort` works through the order list from its end, so the
  invariant orders nodes by the first place of their group *after* the current one
  (`Place(g, o)`), the members of the current group met so far being in front
  (`SortingAt`); a turn shifts that place by one (`PlaceTurns`). In `CmpOrderGroup`
  (`InGroup`) the run up to `Current` is in order and the three bounds name its ends. A
  node may be put in front of one with a lower tag, but then `Current` goes back to it, and
  what is in order is shorter; that is why the order holds at the end, and why
  the end takes a liveness property (`ScanEnds`). That the scans find a place at all is
  the least number principle (`LeastExists`).
* **`WholeHiveBooted`** (`HiveCheckProofs`): an undamaged image of any size passes every
  test, from `SoundAssumption` alone; so a boot is refused, or the alternate taken, only
  after damage or for want of memory. `SoundSteps` says where the check of such an image
  has got to: the map leads each address to the bin that holds it (`Mapped`), `at` is a bin
  or the end, a cell or the end of its bin, and the walk is at a key whose parent is the
  one it came from (`RightParent`). The other half (`BaseInv`) holds for every image.
* **`NamesAreFound`** (`HiveCheckProofs`): any accepted image, any number of leaves and
  entries. `LookInv` says that the part of the list still searched holds every entry with the
  name (`InRoot`, `InLeaf`): a turn of either loop never gives such an entry up, and what
  follows the loops looks at all that is left. Names are numbered through the leaves by
  `Before`; `NumbersAreEntries` shows that the subkeys by number are the entries of the
  leaves, whatever their lengths. That the answer is a subkey or none needs no order.
* **`SavedWhenPrompted`, `TableOnDisk`, `ReadersWriteNothing`, `VolumeStaysTyped`**
  (`DosShellProofs`): any volume that a program may find (`VolumesAssumption`: of its type,
  with nothing cached), any files and directories, any number of writes carried out by any
  call. A loop of `FatVolume` is a function that its equation determines
  (`IterationExists`, `Agree`), so that it stays in a set that no turn leaves (`RunStays`).
  Of each routine it is then shown what it makes of a volume: a routine that only reads has
  another mapping, position or status and nothing else (`Untouched`); the others keep
  `Sane`, that a table that is not the disk's is marked dirty, and leave the disk alone
  once they have no write left (`Follows`). `FatClose` and `FatWrite` return with success
  only when nothing is dirty. The invariant `Inv` says where a change may wait between two
  calls (`Waiting`): in a copy until its source is closed, behind a deletion, and in a new
  directory until it is closed; that what is to be created has a name (`Named`), without
  which `FatOpen` would have no last component; and that `type` and `dir` find no change
  and leave none (`Reading`).

* **`VolumeStaysSound`** (`DosShellProofs`, from the lemmas of `FatVolumeProofs`): any table,
  any number of clusters and of entries a cluster, any volume that satisfies
  `SoundAssumption`, any paths of `PathsAssumption`, any number of writes carried out by any
  call, and any allocation that may find the volume full. `Sound` is far from inductive.
  1. Within the table, chains stay apart because no two clusters have the same successor
     and none leads to the first cluster of an entry (`Shape`: `Injective`, `Orphan`); for a
     table of that shape, what is on a chain (`On`) is known without following it, and a
     change of one link says what it does to every chain.
  2. In the middle of a call, a chain may have no entry yet (an allocation, a new
     directory) or no longer (a truncation, a deletion). `Whole` has these in a set `X`
     beside those of the entries, and adds that first clusters are distinct, that chains
     have room for their files, that all of the table in use is covered, and that `.` and
     `..` are not in the root (`Dotted`; a search of the root would find the directory
     itself).
  3. Once a write is refused, changes of the table do not reach the disk and the next open
     forgets them. Entries then share no cluster in the cached table *and* in the saved one
     (`BothApart`); to get there, `Behind` says, before any refusal, that the saved
     chain of an entry lies within the cached one and that nothing in the saved table
     leads to its first cluster, the one entry `T` that is being changed excepted. `Fine`
     is `Whole` and `Behind`, or after a refusal `BothApart`. Each routine, with its writes
     in the order of the code, has a lemma from `Fine` to `Fine`.
  4. Handles hold copies of entries: `Held` says that the copy is what is on the disk at
     its place, `McbHeld` that the cached mapping is of its chain, `DirOpen` that a
     directory is still there. Opening gives these (`FoundOpens`, `MissingOpens`), and a
     call on one handle keeps those of the others.
  5. Between calls the volume is `Settled`, and `Safe` says for each command and each call
     it has left which of these its handles have: the target of a copy until it is closed
     (`Copying`), the operand of `del` and `attrib` (`Changing`), the directory that is
     listed or copied from (`Listing`).

  `Live` is what makes `PathsAssumption` necessary: a file made three levels deep has no
  place among the entries that the property looks at.

* **`OtherFilesStay`** (`DosShellProofs`), under the same assumptions, from the invariant of
  `VolumeStaysSound`. `Stays` says of two volumes that each entry but `T` is where it was
  and is the same, with the same chain and the same units on it. Chains that share no
  cluster make it so for one change at a time: a link set behind `T` or on a free cluster
  (`LinkStays`), a chain freed that is no entry's (`FreedStays`), a cluster blanked that was
  available (`SpareStays`), a unit written on the chain of `T` (`PutStays`), an entry
  rewritten (`EntryStays`), a directory that grows by a cluster (`GrowStays`). It is
  transitive, so the routines follow in the order of their calls, and a call that is refused
  stops part way with what has stayed so far. An open that mounts the volume again starts
  from the table that was saved; hence the property speaks of the entries that are on the
  disk too (`OnDisk`). It compares what files hold; a directory is to keep its entry, for
  what it holds are entries that are looked at one by one.

**Only model-checked.** Of `DosShell`, `Exact`: it needs that what a copy wrote is what it
read, unit by unit, for each way the position, the mapping and the buffer may fall.
All liveness: `ComesToAnEnd`, `CheckEnds`, `ScanEnds`, `BootEnds`. Liveness, `ENABLED`, induction over
data and recursive operators are out of the prover's reach; no module with a proof has a
recursive operator. Where a recursive function is followed (`Before`, `Emitted`, `Pushed`,
`Met`), the least number principle stands for induction (`LeastExists`, `SumsExist`,
`IterationExists`).

## 6. Plan

What is left to prove is `Exact`: that what is read was written, unit by unit. The lemmas of
`OtherFilesStay` say that a copy leaves its source alone while it writes; what is missing is
what a read returns and what a write leaves in the target.

## 7. Not modelled, and why

The serial, mailbox and timer drivers and the C library have no state beyond a device
register or their arguments; the line and the timer are the environment of `BootMenu`. The
framebuffer console consumes bytes one after the other into a cursor and pixels no other
component reads. Wording and the parsing of command lines carry no property. The
compressed-volume half of `fatboot.c` is never compiled (`DBLSPACE_LEGAL` is not defined).
The cells of the hive that are allocated, freed, split and marked dirty (`hivecell.c`,
`cmindex.c` from line 740) need a hive opened for writing, which no caller does.
`BlLoadDeviceDriver`, `BlScanOsloaderBoundImportTable`, `BlGetDriveSignature` and the
resumed search of `keconfig.c` have no caller. The demonstration kernel is a payload for
tests.
