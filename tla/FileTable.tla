------------------------------ MODULE FileTable ------------------------------
(***************************************************************************)
(* BlFileTable and the two layers over it: the emulated firmware vector    *)
(* (AEOpen and its kin) and the Bl I/O routines, with the RAM disk and FAT *)
(* as the drivers of its entries.  The firmware programs, the boot menu    *)
(* and the ARC DOS shell, use the vector; BlOsLoader opens the console     *)
(* through it, runs BlIoInitialize, and from then on opens partitions      *)
(* through the vector and files with BlOpen.                               *)
(***************************************************************************)
EXTENDS Naturals, FiniteSets

CONSTANTS
    TableSize,   \* BL_FILE_TABLE_SIZE
    Handles,     \* the callers' variables that hold a file id
    Sectors,     \* where the partitions of the disk start; the disk itself at 0
    FatSectors,  \* those of them that hold a FAT volume
    FileSectors, \* those of them callers name files on
    Files,       \* names of files, which any FAT volume may have
    FileSize     \* units in every file

ASSUME TableAssumption ==
    /\ TableSize \in Nat /\ TableSize > 2
    /\ Sectors \subseteq Nat /\ 0 \in Sectors
    /\ FatSectors \subseteq Sectors /\ FileSectors \subseteq Sectors
    /\ IsFiniteSet(Sectors) /\ IsFiniteSet(Handles)
    /\ FileSize \in Nat

BOOT_FILEID == 2
Slots == 0 .. (TableSize - 1)
NoSlot == TableSize
ConsoleModes == {"ArcOpenReadOnly", "ArcOpenWriteOnly"}
FileModes == ConsoleModes \cup {"ArcOpenReadWrite"}

\* ARC_CONSOLE_INPUT and ARC_CONSOLE_OUTPUT.
ConsoleFid(mode) == IF mode = "ArcOpenWriteOnly" THEN 1 ELSE 0

\* What a caller knows of its handle: the file id, and what it was opened as.
None == [kind |-> "none"]
Console(mode) == [kind |-> "console", fid |-> ConsoleFid(mode), mode |-> mode]
Device(fid, start) == [kind |-> "device", fid |-> fid, start |-> start]
File(fid, start, file) == [kind |-> "file", fid |-> fid, start |-> start, file |-> file]

HandleTypes ==
    {None} \cup {Console(mode) : mode \in ConsoleModes}
           \cup [kind : {"device"}, fid : Slots, start : Sectors]
           \cup [kind : {"file"}, fid : Slots, start : Sectors, file : Files]

\* The name of no file.
NoName == ""

\* A BL_FILE_TABLE entry: the driver is the DeviceEntryTable, the rest belongs
\* to the RAM disk (start) or to FAT.
Entries ==
    [open : BOOLEAN, read : BOOLEAN, write : BOOLEAN,
     driver : {"none", "ramdisk", "fat"},
     start : Sectors, device : Slots, file : Files \cup {NoName}, position : 0 .. FileSize]

NoVolume == [mounted |-> FALSE]
Volume(start) == [mounted |-> TRUE, start |-> start]

VARIABLES
    table,    \* BlFileTable
    context,  \* FatStructureTemp: the volume whose geometry it holds
    program,  \* "firmware", or "loader" once BlOsLoader ran BlIoInitialize
    handle,   \* what the callers hold
    reply     \* what the last call returned

tablevars == <<table, context, program, handle, reply>>

Done == [status |-> "done"]
Failed(why) == [status |-> "failed", why |-> why]
Data(name, p) == [status |-> "data", name |-> name, at |-> p]
End == [status |-> "end"]
Garbled == [status |-> "garbled"]

-----------------------------------------------------------------------------
(* Allocation of entries.                                                  *)

First(set) == IF set = {} THEN NoSlot ELSE CHOOSE s \in set : \A r \in set : s <= r

Free(t, from) == First({s \in Slots : s >= from /\ ~t[s].open})

\* Mutant: any open entry of the RAM disk will do.
SharedDeviceAny(t, start) ==
    First({s \in Slots : s >= BOOT_FILEID /\ t[s].open /\ t[s].driver = "ramdisk"})

\* The open entry of the partition, which all its opens share.
SharedDevice(t, start) ==
    First({s \in Slots : /\ s >= BOOT_FILEID
                         /\ t[s].open /\ t[s].driver = "ramdisk" /\ t[s].start = start})

ZeroEntry ==
    [open |-> FALSE, read |-> FALSE, write |-> FALSE, driver |-> "none",
     start |-> 0, device |-> 0, file |-> NoName, position |-> 0]

RamdiskEntry(start) ==
    [ZeroEntry EXCEPT !.open = TRUE, !.read = TRUE, !.driver = "ramdisk", !.start = start]

\* The table after AEDeviceOpen, and the file id it answers.
AEDeviceOpen(t, start) ==
    LET shared == SharedDevice(t, start)
        fid == Free(t, BOOT_FILEID)
    IN  IF shared # NoSlot THEN [table |-> t, fid |-> shared]
        ELSE IF fid = NoSlot THEN [table |-> t, fid |-> NoSlot]
        ELSE [table |-> [t EXCEPT ![fid] = RamdiskEntry(start)], fid |-> fid]

\* Mutants of FatOpen: the position of the entry's last file stays; the entry
\* is left open when the file is not found.
FatOpenedThere(entry, file, mode) ==
    [entry EXCEPT !.open = TRUE, !.read = TRUE, !.write = @ \/ mode # "ArcOpenReadOnly",
                  !.file = file]
FatNotOpenedLeak(entry, file) ==
    [entry EXCEPT !.open = TRUE, !.file = file, !.position = 0]

\* FatOpen sets the flags of the mode and clears none.
FatOpened(entry, file, mode) ==
    [entry EXCEPT !.open = TRUE,
                  !.read = @ \/ mode # "ArcOpenWriteOnly",
                  !.write = @ \/ mode # "ArcOpenReadOnly",
                  !.file = file, !.position = 0]

\* What a FatOpen that fails leaves in its entry.
FatNotOpened(entry, file) == [entry EXCEPT !.file = file, !.position = 0]

\* BlOpen takes the first free entry, mounts the device into the one context,
\* and opens the file.  A volume whose boot sector cannot be read is not
\* recognised, as a partition that holds none.
BlOpen(t, fid, h, file, mode) ==
    LET index == Free(t, 0)
        start == t[fid].start
        mounted == [t[index] EXCEPT !.driver = "fat", !.device = fid]
    IN  \/ /\ index = NoSlot
           /\ table' = t
           /\ reply' = Failed("full")
           /\ UNCHANGED <<context, handle>>
        \/ /\ index # NoSlot
           /\ table' = [t EXCEPT ![index].driver = "none"]
           /\ context' = NoVolume
           /\ reply' = Failed("error")
           /\ UNCHANGED handle
        \/ /\ index # NoSlot /\ start \in FatSectors
           /\ context' = Volume(start)
           /\ \/ /\ table' = [t EXCEPT ![index] = FatOpened(mounted, file, mode)]
                 /\ handle' = [handle EXCEPT ![h] = File(index, start, file)]
                 /\ reply' = Done
              \/ /\ table' = [t EXCEPT ![index] = FatNotOpened(mounted, file)]
                 /\ reply' = Failed("error")
                 /\ UNCHANGED handle

-----------------------------------------------------------------------------
(* The calls.                                                              *)

\* BlArmInitializeArcEmulator reserves the console's entries.
Init ==
    /\ table = [s \in Slots |->
                  [ZeroEntry EXCEPT !.open = s \in {0, 1}, !.read = s = 0, !.write = s = 1]]
    /\ context = NoVolume
    /\ program = "firmware"
    /\ handle = [h \in Handles |-> None]
    /\ reply = Done

AEOpenConsole(h, mode) ==
    /\ program = "firmware" /\ handle[h] = None
    /\ table' = [table EXCEPT ![ConsoleFid(mode)] =
                    [@ EXCEPT !.open = TRUE, !.driver = "none",
                              !.read = mode = "ArcOpenReadOnly",
                              !.write = mode = "ArcOpenWriteOnly"]]
    /\ handle' = [handle EXCEPT ![h] = Console(mode)]
    /\ reply' = Done
    /\ UNCHANGED <<context, program>>

AEOpenDevice(h, start) ==
    LET opened == AEDeviceOpen(table, start)
    IN  /\ handle[h] = None
        /\ table' = opened.table
        /\ IF opened.fid = NoSlot
           THEN reply' = Failed("full") /\ UNCHANGED handle
           ELSE reply' = Done /\ handle' = [handle EXCEPT ![h] = Device(opened.fid, start)]
        /\ UNCHANGED <<context, program>>

AEOpenFile(h, start, file, mode) ==
    LET opened == AEDeviceOpen(table, start)
    IN  /\ program = "firmware" /\ handle[h] = None
        /\ \/ /\ opened.fid = NoSlot
              /\ reply' = Failed("full")
              /\ UNCHANGED <<table, context, handle>>
           \/ /\ opened.fid # NoSlot
              /\ BlOpen(opened.table, opened.fid, h, file, mode)
        /\ UNCHANGED program

\* The loader reads its files through a partition it opened before.
BlOpenFile(h, g, file) ==
    /\ program = "loader" /\ handle[h] = None
    /\ handle[g].kind = "device" /\ handle[g].start \in FileSectors
    /\ BlOpen(table, handle[g].fid, h, file, "ArcOpenReadOnly")
    /\ UNCHANGED program

FreeHandle(h) == handle' = [handle EXCEPT ![h] = None]
CloseEntry(s) == table' = [table EXCEPT ![s].open = FALSE]

AECloseConsole(h) ==
    /\ handle[h].kind = "console"
    /\ FreeHandle(h) /\ reply' = Done
    /\ UNCHANGED <<table, context, program>>

\* A file id of a partition has no count of its users: the callers close one
\* only when they know of no other use of it.
AloneOn(h) ==
    /\ \A g \in Handles \ {h} : handle[g].kind = "device" => handle[g].fid # handle[h].fid
    /\ \A s \in Slots : table[s].open /\ table[s].driver = "fat"
                          => table[s].device # handle[h].fid

AECloseDevice(h) ==
    /\ handle[h].kind = "device" /\ AloneOn(h)
    /\ CloseEntry(handle[h].fid)
    /\ FreeHandle(h) /\ reply' = Done
    /\ UNCHANGED <<context, program>>

\* The caller is done with the partition and leaves it open.
LeaveDevice(h) ==
    /\ handle[h].kind = "device"
    /\ FreeHandle(h) /\ reply' = Done
    /\ UNCHANGED <<table, context, program>>

\* AEClose or BlClose, then FatClose, which closes before it saves the FAT.
CloseFile(h) ==
    /\ handle[h].kind = "file"
    /\ CloseEntry(handle[h].fid)
    /\ FreeHandle(h) /\ reply' \in {Done, Failed("error")}
    /\ UNCHANGED <<context, program>>

\* Readers of a raw partition seek, then read.
ReadDevice(h, p) ==
    /\ handle[h].kind = "device"
    /\ reply' = Data([start |-> table[handle[h].fid].start], p)
    /\ UNCHANGED <<table, context, program, handle>>

\* AERead asks nothing of the entry's flags; BlRead wants it open for reading.
MayRead(s) == program = "firmware" \/ (table[s].open /\ table[s].read)

\* FatRead of one unit, with the geometry of whatever is in the context; a read
\* of several is as many of these, the last of which may yield nothing.  It
\* answers ESUCCESS and no bytes when the cluster of the position is not found:
\* the table cannot be read, or it is that of another volume.  Bytes that cannot
\* be read are an error.
ReadFile(h) ==
    LET s == handle[h].fid
        entry == table[s]
        start == table[entry.device].start
        advance == table' = [table EXCEPT ![s].position = @ + 1]
    IN  /\ handle[h].kind = "file"
        /\ \/ ~MayRead(s) /\ reply' = Failed("error") /\ UNCHANGED table
           \/ MayRead(s) /\ entry.position = FileSize /\ reply' = End /\ UNCHANGED table
           \/ /\ MayRead(s) /\ entry.position < FileSize
              /\ \/ /\ context = Volume(start) /\ advance
                    /\ reply' = Data([start |-> start, file |-> entry.file], entry.position)
                 \/ context # Volume(start) /\ advance /\ reply' = Garbled
                 \/ reply' \in {End, Failed("error")} /\ UNCHANGED table
        /\ UNCHANGED <<context, program, handle>>

\* Mutant: seeking beyond the end is not refused.
FatSeekUnchecked(h, p) ==
    /\ handle[h].kind = "file"
    /\ reply' = Done /\ table' = [table EXCEPT ![handle[h].fid].position = p]
    /\ UNCHANGED <<context, program, handle>>

FatSeek(h, p) ==
    /\ handle[h].kind = "file"
    /\ IF p > FileSize
       THEN reply' = Failed("error") /\ UNCHANGED table
       ELSE reply' = Done /\ table' = [table EXCEPT ![handle[h].fid].position = p]
    /\ UNCHANGED <<context, program, handle>>

\* BlOsLoader runs it with nothing but the console open, and marks every entry
\* as free, the console's too.
BlIoInitialize ==
    /\ program = "firmware"
    /\ \A h \in Handles : handle[h].kind \in {"none", "console"}
    /\ table' = [s \in Slots |-> [table[s] EXCEPT !.open = FALSE]]
    /\ program' = "loader"
    /\ reply' = Done
    /\ UNCHANGED <<context, handle>>

Next ==
    \/ BlIoInitialize
    \/ \E h \in Handles :
          \/ \E mode \in ConsoleModes : AEOpenConsole(h, mode)
          \/ \E start \in Sectors : AEOpenDevice(h, start)
          \/ \E start \in FileSectors, file \in Files, mode \in FileModes :
                AEOpenFile(h, start, file, mode)
          \/ \E g \in Handles, file \in Files : BlOpenFile(h, g, file)
          \/ AECloseConsole(h)
          \/ AECloseDevice(h)
          \/ LeaveDevice(h)
          \/ CloseFile(h)
          \/ \E p \in 0 .. FileSize : ReadDevice(h, p)
          \/ ReadFile(h)
          \/ \E p \in 0 .. (FileSize + 1) : FatSeek(h, p)

Spec == Init /\ [][Next]_tablevars

-----------------------------------------------------------------------------
(* Properties.                                                             *)

\* Entries, handles and the context hold what they should.
TypeOK ==
    /\ table \in [Slots -> Entries]
    /\ context \in {NoVolume} \cup {Volume(start) : start \in FatSectors}
    /\ program \in {"firmware", "loader"}
    /\ handle \in [Handles -> HandleTypes]

\* A handle stands for what it was opened as, whatever others open and close
\* meanwhile: its entry is open with its driver and its file, on a partition
\* that is still open, and no two files share an entry.
HandlesKept ==
    \A h \in Handles :
        LET is == handle[h] IN
        /\ is.kind = "device" =>
              /\ is.fid >= BOOT_FILEID
              /\ table[is.fid].open /\ table[is.fid].driver = "ramdisk"
              /\ table[is.fid].start = is.start
        /\ is.kind = "file" =>
              /\ table[is.fid].open /\ table[is.fid].driver = "fat"
              /\ table[is.fid].file = is.file
              /\ LET device == table[table[is.fid].device]
                 IN  device.open /\ device.driver = "ramdisk" /\ device.start = is.start
              /\ \A g \in Handles : handle[g].kind = "file" /\ handle[g].fid = is.fid => g = h

\* However often a partition is opened and left open, it has one entry.
DevicesDistinct ==
    \A r, s \in Slots :
        /\ table[r].open /\ table[r].driver = "ramdisk"
        /\ table[s].open /\ table[s].driver = "ramdisk"
        /\ table[r].start = table[s].start
        => r = s

FilesHeld == {h \in Handles : handle[h].kind = "file"}

\* No call leaks an entry: an open is refused for want of one only when the
\* files held and the partitions of the disk fill the table.
FullOnlyWhenFull ==
    reply = Failed("full") =>
        Cardinality(FilesHeld) + Cardinality(Sectors) >= TableSize - 2

Opened(h) ==
    IF handle[h].kind = "console" THEN [kind |-> "console", name |-> [mode |-> handle[h].mode]]
    ELSE IF handle[h].kind = "device" THEN [kind |-> "device", name |-> [start |-> handle[h].start]]
    ELSE IF handle[h].kind = "file"
    THEN [kind |-> "file",
          name |-> [start |-> handle[h].start, file |-> handle[h].file],
          position |-> table[handle[h].fid].position]
    ELSE None

CallersView == INSTANCE FileHandles
    WITH Consoles <- [mode : ConsoleModes], Devices <- [start : Sectors],
         FilesAt <- [start : FileSectors, file : Files],
         opened <- [h \in Handles |-> Opened(h)], mounted <- context

\* The calls keep what FileHandles promises: whatever others open, close and
\* read, a handle stands for what it was opened as and its position moves by
\* its own calls only; and what is read through it is what was opened, at that
\* position, or nothing, as long as no file was opened on another partition
\* since.  "There is one" context "for every mounted volume", says fatboot.h:
\* there is one for all of them, which FileHandles has as mounted.
ImplementsFileHandles == CallersView!Spec
=============================================================================
