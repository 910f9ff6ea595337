------------------------------ MODULE OsLoader ------------------------------
(***************************************************************************)
(* The OS loader, from the choice in the boot menu to the entry of the     *)
(* kernel: one step for each routine BlOsLoader calls, in its order, with  *)
(* the files each has open, the fields of the loader block it fills, and   *)
(* what it does when something fails.  The routines that have modules of   *)
(* their own (memory, images, the hive, the boot drivers) only succeed or  *)
(* fail here.                                                              *)
(*                                                                         *)
(* The arguments are those of BlArmArgv, so that none is missing and the   *)
(* load device and the system device are one partition; there is no        *)
(* environment, so that the last known good control set is never chosen.   *)
(***************************************************************************)
EXTENDS BootMenu

VARIABLES
    step,       \* what BlOsLoader does next
    Status,
    opened,     \* the files and devices with an entry in use, without the console
    block,      \* the fields of the loader block that are filled
    tree,       \* the components copied into ConfigurationRoot, from the root down
    hive,       \* which file: tried, at RegistryBase, made into the hive
    badFile,    \* BadFileName
    disks,      \* the path names in ArcDiskInformation
    culprit,    \* history: the file that failed last, "none" if it was no file, "file
                \* system" if it was that, whose failure leaves no status,
    ignored     \* history: and whether nobody looked at some failure

loadervars == <<step, Status, opened, block, tree, hive, badFile, disks, culprit,
                ignored>>

LoaderInit ==
    /\ step = "consoles" /\ Status = "ESUCCESS" /\ opened = {} /\ block = {} /\ tree = <<>>
    /\ hive = [tried |-> "system", base |-> "none", accepted |-> "none"]
    /\ badFile = "unset" /\ disks = {} /\ culprit = "nothing" /\ ignored = FALSE

At(s) == at = "loader" /\ step = s

SomethingFails(file) == OneMore /\ culprit' = file

AllWell == UNCHANGED <<events, culprit, ignored>>

\* A checked failure, told with BlFatalError, ends the loader.
Fatal(status) ==
    /\ SomethingFails("none") /\ Status' = status /\ step' = "LoadFailed"
    /\ UNCHANGED <<opened, block, tree, hive, badFile, disks, ignored>>

Filled(fields) == block' = block \union fields
Proceed(next) == step' = next /\ Status' = "ESUCCESS"

\* A heap allocation whose answer is not looked at: the field stays empty, and the string
\* is copied to address 0.
FilledUnchecked(field) ==
    \/ Filled({field}) /\ AllWell
    \/ SomethingFails("none") /\ ignored' = TRUE /\ UNCHANGED block

------------------------------------------------------------------------------
(* Memory, files, configuration.                                             *)

OpenConsoles ==
    /\ At("consoles") /\ Proceed("memory") /\ AllWell
    /\ UNCHANGED <<opened, block, tree, hive, badFile, disks>>

\* The search for a cache finds none: ConfigurationRoot of the new block is still empty.
InitializeMemory ==
    /\ At("memory")
    /\ \/ Proceed("files") /\ AllWell
          /\ block' = {} /\ UNCHANGED <<opened, tree, hive, badFile, disks>>
       \/ Fatal("ENOMEM")

InitializeFiles ==
    /\ At("files") /\ Proceed("configuration") /\ AllWell
    /\ opened' = {}
    /\ UNCHANGED <<block, tree, hive, badFile, disks>>

\* BlArmInitializeArcConfigTree: each component is the only child of the one before.
FirmwareTree == <<"arc", "multi", "disk", "rdisk">>

\* BlConfigurationInitialize, one component: an entry from the heap, filled and linked
\* below its parent.
CopyComponent ==
    /\ At("configuration") /\ Len(tree) < Len(FirmwareTree)
    /\ \/ /\ tree' = Append(tree, FirmwareTree[Len(tree) + 1]) /\ AllWell
          /\ Filled({"ConfigurationRoot"})
          /\ UNCHANGED <<step, Status, opened, hive, badFile, disks>>
       \/ Fatal("ENOMEM")

ConfigurationCopied ==
    /\ At("configuration") /\ Len(tree) = Len(FirmwareTree)
    /\ Proceed("options") /\ AllWell
    /\ UNCHANGED <<opened, block, tree, hive, badFile, disks>>

CopyLoadOptions ==
    /\ At("options") /\ Proceed("devices")
    /\ FilledUnchecked("LoadOptions")
    /\ UNCHANGED <<opened, tree, hive, badFile, disks>>

\* The load device and the system device: the second open finds the entry of the first.
OpenDevices ==
    /\ At("devices")
    /\ \/ Proceed("break-in") /\ AllWell /\ opened' = opened \union {"partition"}
          /\ UNCHANGED <<block, tree, hive, badFile, disks>>
       \/ Fatal("ENODEV")

------------------------------------------------------------------------------
(* Images.                                                                   *)

\* BlLoadImage opens the file and closes it whatever becomes of it.
LoadImage(s, next) ==
    /\ At(s)
    /\ \/ Proceed(next) /\ AllWell
          /\ UNCHANGED <<opened, block, tree, hive, badFile, disks>>
       \/ \E status \in {"ENOENT", "EBADF"} : Fatal(status)

\* Which file system the image came from is asked of the partition, whose boot sector
\* is read again; that it is none is told, and returned as success.
UnknownFileSystem ==
    /\ At("kernel image") /\ SomethingFails("file system")
    /\ Status' = "ESUCCESS" /\ step' = "LoadFailed"
    /\ UNCHANGED <<opened, block, tree, hive, badFile, disks, ignored>>

LoadKernel == LoadImage("kernel image", "hal image") \/ UnknownFileSystem
LoadHal == LoadImage("hal image", "entries")

\* The entries of both in the load order list, then the scan of the imports of both.
MakeEntries ==
    /\ At("entries")
    /\ \/ Proceed("imports") /\ AllWell /\ Filled({"LoadOrderList"})
          /\ UNCHANGED <<opened, tree, hive, badFile, disks>>
       \/ Fatal("ENOMEM")

ScanImports == LoadImage("imports", "nls block")

AllocateNlsBlock ==
    /\ At("nls block")
    /\ \/ Proceed("open hive") /\ AllWell /\ Filled({"NlsData"})
          /\ UNCHANGED <<opened, tree, hive, badFile, disks>>
       \/ Fatal("ENOMEM")

------------------------------------------------------------------------------
(* BlLoadAndScanSystemHive.  Its failures name a file, told by               *)
(* BlBadFileMessage.                                                         *)

\* A file is bad: BadFileName gets a name, and the loader ends.
BadFile(file, named, status) ==
    /\ SomethingFails(file) /\ badFile' = named /\ Status' = status /\ step' = "BadFile"

\* BlLoadAndInitSystemHive fails: "system.alt" after "system", else the name of "system".
HiveRejected(status, base) ==
    \/ /\ hive.tried = "system" /\ SomethingFails("system")
       /\ hive' = [hive EXCEPT !.tried = "system.alt", !.base = base]
       /\ step' = "open hive" /\ Status' = status /\ UNCHANGED badFile
    \/ /\ hive.tried = "system.alt" /\ BadFile("system", "system", status)
       /\ hive' = [hive EXCEPT !.base = base]

OpenHive ==
    /\ At("open hive")
    /\ \/ Proceed("read hive") /\ AllWell /\ opened' = opened \union {hive.tried}
          /\ UNCHANGED <<hive, badFile>>
       \/ HiveRejected("ENOENT", hive.base) /\ UNCHANGED <<opened, ignored>>
    /\ UNCHANGED <<block, tree, disks>>

\* BlLoadSystemHive closes the file on every path; the base is set before the read,
\* which may fail.
ReadHive ==
    /\ At("read hive") /\ opened' = opened \ {hive.tried}
    /\ \/ /\ Proceed("check hive") /\ AllWell /\ hive' = [hive EXCEPT !.base = hive.tried]
          /\ Filled({"RegistryBase"}) /\ UNCHANGED badFile
       \/ HiveRejected("EINVAL", hive.base) /\ UNCHANGED <<ignored, block>>
       \/ /\ HiveRejected("EINVAL", hive.tried) /\ Filled({"RegistryBase"})
          /\ UNCHANGED ignored
    /\ UNCHANGED <<tree, disks>>

\* BlInitializeHive, on what is at RegistryBase.
CheckHive ==
    /\ At("check hive")
    /\ \/ Proceed("scan hive") /\ AllWell /\ hive' = [hive EXCEPT !.accepted = hive.base]
          /\ UNCHANGED badFile
       \/ HiveRejected("EINVAL", hive.base) /\ UNCHANGED ignored
    /\ UNCHANGED <<opened, block, tree, disks>>

\* BlScanRegistry: the boot drivers, the names of the NLS files and of the font.
ScanHive ==
    /\ At("scan hive")
    /\ \/ Proceed("size ansi") /\ AllWell /\ Filled({"BootDriverList"}) /\ UNCHANGED badFile
       \/ BadFile("system", "system", "EBADF") /\ UNCHANGED <<block, ignored>>
    /\ UNCHANGED <<opened, tree, hive, disks>>

------------------------------------------------------------------------------
(* BlLoadNLSData: each of three files is opened for its size and closed, then *)
(* one block of memory holds all, then each is opened again and read.         *)

NlsFiles == {"ansi", "oem", "language"}

\* The step at which each file is opened for its size, opened again, and read.
Size == [ansi |-> "size ansi", oem |-> "size oem", language |-> "size language"]
Open == [ansi |-> "open ansi", oem |-> "open oem", language |-> "open language"]
Read == [ansi |-> "read ansi", oem |-> "read oem", language |-> "read language"]

AfterSize == [ansi |-> Size.oem, oem |-> Size.language, language |-> "nls memory"]
AfterRead == [ansi |-> Open.oem, oem |-> Open.language, language |-> "open font"]

SizeNlsFile(f) ==
    /\ At(Size[f])
    /\ \/ Proceed(AfterSize[f]) /\ AllWell /\ UNCHANGED badFile
       \/ BadFile(f, f, "ENOENT") /\ UNCHANGED ignored
    /\ UNCHANGED <<opened, block, tree, hive, disks>>

\* When the memory is not there the message names the last file.
AllocateNls ==
    /\ At("nls memory")
    /\ \/ Proceed("open ansi") /\ AllWell /\ Filled({"NlsTables"}) /\ UNCHANGED badFile
       \/ BadFile("memory", "language", "ENOMEM") /\ UNCHANGED <<ignored, block>>
    /\ UNCHANGED <<opened, tree, hive, disks>>

\* Mutant: the name that was built for the sizes is told when the second open fails.
StaleName(f) == "language"
FileName(f) == f

OpenNlsFile(f) ==
    /\ At(Open[f])
    /\ \/ Proceed(Read[f]) /\ AllWell /\ opened' = opened \union {f}
          /\ UNCHANGED badFile
       \/ BadFile(f, FileName(f), "ENOENT") /\ UNCHANGED <<opened, ignored>>
    /\ UNCHANGED <<block, tree, hive, disks>>

\* Mutant: the file that was read is not closed.
LeftOpen(f) == opened
Closed(f) == opened \ {f}

\* A file that cannot be read stays open.
ReadNlsFile(f) ==
    /\ At(Read[f])
    /\ \/ Proceed(AfterRead[f]) /\ AllWell /\ opened' = Closed(f)
          /\ UNCHANGED badFile
       \/ BadFile(f, f, "EIO") /\ UNCHANGED <<opened, ignored>>
    /\ UNCHANGED <<block, tree, hive, disks>>

LoadNls == \E f \in NlsFiles : SizeNlsFile(f) \/ OpenNlsFile(f) \/ ReadNlsFile(f)

\* BlLoadOemHalFont closes its file at the end of every path, also when it could not be
\* opened and FileId was never set: that closes any entry or none.
OpenFont ==
    /\ At("open font")
    /\ \/ Proceed("read font") /\ AllWell /\ opened' = opened \union {"font"}
          /\ UNCHANGED badFile
       \/ /\ BadFile("font", "font", "ENOENT") /\ UNCHANGED ignored
          /\ \E any \in opened \union {"none"} : opened' = opened \ {any}
    /\ UNCHANGED <<block, tree, hive, disks>>

\* The names made last, in this order.
NameFields == <<"ArcBootDeviceName", "NtBootPathName", "ArcHalDeviceName", "NtHalPathName">>

\* BadFileName is set even when all is well.  LOAD_BOOT_DRIVERS is 0: the drivers on the
\* list are not loaded.
ReadFont ==
    /\ At("read font") /\ opened' = Closed("font")
    /\ \/ Proceed(NameFields[1]) /\ AllWell /\ Filled({"OemFontFile"}) /\ badFile' = "font"
       \/ BadFile("font", "font", "EBADF") /\ UNCHANGED <<block, ignored>>
    /\ UNCHANGED <<tree, hive, disks>>

------------------------------------------------------------------------------
(* Names, disks, set-up.                                                     *)

AdapterTypes == {"eisa", "scsi", "multi"}

\* BlGenerateDeviceNames, on the tokens of a device name: adapters, a controller, and for
\* a disk its peripheral and partition, of which 1 is the default; <<>> for EINVAL.
GenerateDeviceName(tokens) ==
    LET controller == CHOOSE i \in 1 .. Len(tokens) + 1 :
                         /\ i > Len(tokens) \/ tokens[i] \notin AdapterTypes
                         /\ \A j \in 1 .. i - 1 : tokens[j] \in AdapterTypes
        rest == SubSeq(tokens, controller, Len(tokens))
    IN IF controller = 1 THEN <<>>
       ELSE IF rest \in {<<"disk", "fdisk">>, <<"cdrom", "fdisk">>,
                         <<"disk", "rdisk", "partition(1)">>} THEN tokens
       ELSE IF rest = <<"disk", "rdisk">> THEN Append(tokens, "partition(1)")
       ELSE <<>>

LoadPartition == <<"multi", "disk", "rdisk", "partition(1)">>   \* BlArmArgv
BootDeviceName == GenerateDeviceName(LoadPartition)

\* The device names and the paths of the load device, then of the system device.
MakeName(i) ==
    /\ At(NameFields[i]) /\ BootDeviceName # <<>>
    /\ FilledUnchecked(NameFields[i])
    /\ Proceed(IF i = Len(NameFields) THEN "disks" ELSE NameFields[i + 1])
    /\ UNCHANGED <<opened, tree, hive, badFile, disks>>

\* Mutant: the name of the root is part of the path.
FromRoot(n) == SubSeq(tree, 1, n)

\* BlGetPathnameFromComponent: the component without a parent adds nothing.
PathName(n) == SubSeq(tree, 2, n)

\* BlGetArcDiskInformation: for every disk of the tree, its signature is read from its
\* partition 0, which stays open.  That a disk could not be read, or that the heap is
\* used up, is not looked at.
ReadDisk ==
    /\ At("disks") /\ Proceed("set-up")
    /\ \E n \in {m \in DOMAIN tree : tree[m] = "rdisk"} :
          \/ /\ disks' = disks \union {PathName(n)} /\ AllWell
             /\ opened' = opened \union {"disk"} /\ Filled({"ArcDiskInformation"})
          \/ /\ SomethingFails("none") /\ ignored' = TRUE /\ UNCHANGED disks
             /\ \/ UNCHANGED <<opened, block>>
                \/ Filled({"ArcDiskInformation"})
                   /\ \E disk \in SUBSET {"disk"} : opened' = opened \union disk
    /\ UNCHANGED <<tree, hive, badFile>>

\* BlSetupForNt: a stack for the kernel, and what it needs for its display.
SetupForNt ==
    /\ At("set-up")
    /\ \/ Proceed("transfer") /\ AllWell
          /\ Filled({"KernelStack", "OemFontFile", "FrameBuffer"})
          /\ UNCHANGED <<opened, tree, hive, badFile, disks>>
       \/ Fatal("ENOMEM")

LoadNt ==
    \/ OpenConsoles \/ InitializeMemory \/ InitializeFiles \/ CopyComponent
    \/ ConfigurationCopied \/ CopyLoadOptions \/ OpenDevices
    \/ LoadKernel \/ LoadHal \/ MakeEntries \/ ScanImports \/ AllocateNlsBlock
    \/ OpenHive \/ ReadHive \/ CheckHive \/ ScanHive \/ LoadNls \/ AllocateNls
    \/ OpenFont \/ ReadFont \/ ReadDisk \/ SetupForNt
    \/ \E i \in DOMAIN NameFields : MakeName(i)

\* BlCheckBreakInKey takes one byte if one waits, and never stops the loader.
BreakInStatus ==
    /\ At("break-in") /\ step' \in {"break-in key", "kernel image"}
    /\ ReadStatus("loader", "loader")
    /\ step' = "break-in key" <=> (uart # <<>> \/ SomethingWaits(queue'))
    /\ UNCHANGED <<remaining, over, choice, seen>>
BreakInKey ==
    /\ At("break-in key") /\ step' = "kernel image"
    /\ FromSerial \/ FromKeyboard
    /\ UNCHANGED <<at, remaining, over, choice, seen>>

\* BlBadFileMessage, the transfer to the kernel, and the return to the menu, which halts.
EndLoader ==
    \/ At("BadFile") /\ step' = "LoadFailed" /\ UNCHANGED at
    \/ At("transfer") /\ step' = "kernel" /\ at' = "kernel"
    \/ At("LoadFailed") /\ step' = "returned" /\ at' = "halted"

------------------------------------------------------------------------------
Spare == <<Status, opened, block, tree, hive, badFile, disks, culprit, ignored>>

Main ==
    \/ Search /\ UNCHANGED <<menuvars, loadervars>>
    \/ MenuSteps /\ UNCHANGED loadervars
    \/ LoadNt /\ UNCHANGED <<search, typing, trouble, menuvars>>
    \/ (BreakInStatus \/ BreakInKey) /\ UNCHANGED Spare
    \/ EndLoader /\ UNCHANGED <<usbvars, remaining, over, choice, uart, seen, Spare>>

Clock == SecondPasses /\ UNCHANGED loadervars
User == UserTypes /\ UNCHANGED loadervars

BootInit == UsbInit /\ MenuInit /\ LoaderInit
vars == <<usbvars, menuvars, loadervars>>

\* The processor does not stop, and the timer runs.
BootSpec == BootInit /\ [][Main \/ Clock \/ User]_vars /\ WF_vars(Main) /\ WF_vars(Clock)

------------------------------------------------------------------------------
Needed == {"LoadOptions", "ConfigurationRoot", "LoadOrderList", "NlsData", "RegistryBase",
           "BootDriverList", "NlsTables", "OemFontFile", "KernelStack", "FrameBuffer",
           "ArcDiskInformation"} \union Range(NameFields)

\* When the kernel is entered no file of the loader is open any more; the hive is the one
\* at RegistryBase, and accepted, whichever of the two files it came from; and unless a
\* failure was ignored the loader block is complete, and the boot device it names lies on
\* a disk of its disk table, so that the kernel can find the one in the other.
ReadyForKernel ==
    at = "kernel" =>
        /\ opened \subseteq {"partition", "disk"} /\ Status = "ESUCCESS"
        /\ hive.accepted = hive.base /\ hive.base = hive.tried
        /\ \/ ignored
           \/ Needed \subseteq block /\ \E disk \in disks : IsPrefix(disk, BootDeviceName)

\* When the loader names a bad file it is the file that was bad, unless there was no
\* memory for it.  It gives up only after a failure, and with a status that is not
\* success, unless the failure was that the partition of the kernel is not recognised
\* any more: then success is returned, though "EBADF is returned if the specified OS
\* image cannot be loaded" (osloader.c).
NamesTheBadFile ==
    /\ At("BadFile") /\ culprit # "memory" => badFile = culprit
    /\ at = "halted" => /\ culprit # "nothing"
                        /\ Status = "ESUCCESS" <=> culprit = "file system"

\* The boot ends in the kernel, in the shell or with a failure told, whatever is typed,
\* whether there is a keyboard or not, and whatever fails on the way.  The parts with
\* modules of their own are one step here and end as those say: the check of the hive
\* unless it has one of the three kinds of damage that CheckEnds names.
BootEnds == <>(at \in {"kernel", "shell", "halted"})
==============================================================================
