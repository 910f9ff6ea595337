---------------------------- MODULE LoaderProofs ----------------------------
(***************************************************************************)
(* The table of open files, and the OS loader that opens the files of the  *)
(* kernel through it.                                                      *)
(*                                                                         *)
(* Whatever is opened, shared and closed, handles keep their entries. A    *)
(* step changes at most one entry after the other and one handle; the      *)
(* lemmas say which of these changes leave a table good for the handles    *)
(* that are held, and the steps are put together from them. Two further    *)
(* parts build on that invariant: no entry is leaked, and callers see what *)
(* FileHandles promises them.                                              *)
(*                                                                         *)
(* Then what the loader promises, after any number of faults and           *)
(* keystrokes and with any hub: its failures are told with the right name, *)
(* and the kernel is entered only with its loader block in order. And what *)
(* it rests on: the search finds the keyboard, its keys come once and in   *)
(* their order, and the menu starts what was chosen.                       *)
(***************************************************************************)
EXTENDS FileTable, OsLoader, FiniteSetTheorems, SequenceTheorems, WellFoundedInduction, TLAPS

-----------------------------------------------------------------------------
(* Handles keep their entries.                                             *)

\* HandlesKept and DevicesDistinct, of any table and any handles.
DeviceKept(t, is) ==
    /\ is.fid >= BOOT_FILEID
    /\ t[is.fid].open /\ t[is.fid].driver = "ramdisk" /\ t[is.fid].start = is.start

FileKept(t, is) ==
    /\ t[is.fid].open /\ t[is.fid].driver = "fat" /\ t[is.fid].file = is.file
    /\ t[t[is.fid].device].open
    /\ t[t[is.fid].device].driver = "ramdisk"
    /\ t[t[is.fid].device].start = is.start

OpenDevice(t, s) == t[s].open /\ t[s].driver = "ramdisk"

\* Partitions never take the entries of the console.
Good(t, hs) ==
    /\ t \in [Slots -> Entries] /\ hs \in [Handles -> HandleTypes]
    /\ \A h \in Handles : hs[h].kind = "device" => DeviceKept(t, hs[h])
    /\ \A h \in Handles : hs[h].kind = "file" => FileKept(t, hs[h])
    /\ \A g, h \in Handles :
          hs[g].kind = "file" /\ hs[h].kind = "file" /\ hs[g].fid = hs[h].fid => g = h
    /\ \A r, s \in Slots :
          OpenDevice(t, r) /\ OpenDevice(t, s) /\ t[r].start = t[s].start => r = s
    /\ \A s \in Slots : OpenDevice(t, s) => s >= BOOT_FILEID

\* Until BlIoInitialize, the console has its two entries.
Reserved(t) ==
    /\ t[0].open /\ t[0].driver = "none"
    /\ t[1].open /\ t[1].driver = "none"

Inv ==
    /\ TypeOK
    /\ Good(table, handle)
    /\ program = "firmware" => Reserved(table)

-----------------------------------------------------------------------------
(* The searches, and what handles are.                                     *)

LEMMA FirstIsIn ==
    ASSUME NEW S \in SUBSET Slots, S # {}
    PROVE  First(S) \in S
<1>1. S \subseteq Nat
  BY DEF Slots
<1>2. PICK i \in S : \A j \in S : <<j, i>> \notin OpToRel(<, Nat)
  BY <1>1, WFMin, NatLessThanWellFounded, Zenon
<1>3. \A j \in S : ~(j < i)
  BY <1>1, <1>2, Zenon DEF OpToRel
<1>4. \A j \in S : i <= j
  BY <1>1, <1>3
<1> QED BY <1>4, Zenon DEF First

LEMMA FoundIsIn ==
    ASSUME NEW S \in SUBSET Slots
    PROVE  /\ First(S) # NoSlot => First(S) \in S /\ First(S) \in Slots
           /\ First(S) = NoSlot => S = {}
<1>1. NoSlot \notin Slots
  BY TableAssumption DEF NoSlot, Slots
<1>2. First({}) = NoSlot
  BY DEF First
<1> QED BY <1>1, <1>2, FirstIsIn

LEMMA FreeIsFree ==
    ASSUME NEW t, NEW from \in Nat, Free(t, from) # NoSlot
    PROVE  /\ Free(t, from) \in Slots
           /\ Free(t, from) >= from
           /\ ~t[Free(t, from)].open
<1> DEFINE S == {s \in Slots : s >= from /\ ~t[s].open}
<1>1. S \in SUBSET Slots
  OBVIOUS
<1>2. First(S) \in S
  BY <1>1, FoundIsIn DEF Free
<1> QED BY <1>2 DEF Free

LEMMA HandleFields ==
    ASSUME NEW is \in HandleTypes
    PROVE  /\ is.kind = "device" => is.fid \in Slots /\ is.start \in Sectors
           /\ is.kind = "file" => is.fid \in Slots /\ is.start \in Sectors /\ is.file \in Files
BY DEF HandleTypes, None, Console

-----------------------------------------------------------------------------
(* Changes that keep a table good.                                         *)

\* A handle that is given up.
LEMMA Drop ==
    ASSUME NEW t, NEW hs, Good(t, hs), NEW h \in Handles
    PROVE  Good(t, [hs EXCEPT ![h] = None])
<1> DEFINE hs2 == [hs EXCEPT ![h] = None]
<1>1. hs \in [Handles -> HandleTypes] /\ None \in HandleTypes
  BY DEF Good, HandleTypes
<1>2. hs2 \in [Handles -> HandleTypes]
  BY <1>1
<1>3. \A g \in Handles : hs2[g].kind # "none" => hs2[g] = hs[g] /\ g # h
  BY <1>1 DEF None
<1> HIDE DEF hs2
<1>4. \A g \in Handles : hs2[g].kind = "device" => DeviceKept(t, hs2[g])
  BY <1>3 DEF Good
<1>5. \A g \in Handles : hs2[g].kind = "file" => FileKept(t, hs2[g])
  BY <1>3 DEF Good
<1>6. \A f, g \in Handles :
         hs2[f].kind = "file" /\ hs2[g].kind = "file" /\ hs2[f].fid = hs2[g].fid => f = g
  BY <1>3 DEF Good
<1> QED BY <1>2, <1>4, <1>5, <1>6 DEF Good, hs2

\* A position that moves.
LEMMA Move ==
    ASSUME NEW t, NEW hs, Good(t, hs), NEW s \in Slots, NEW p \in 0 .. FileSize
    PROVE  /\ Good([t EXCEPT ![s].position = p], hs)
           /\ Reserved(t) => Reserved([t EXCEPT ![s].position = p])
<1> DEFINE t2 == [t EXCEPT ![s].position = p]
<1>1. t \in [Slots -> Entries]
  BY DEF Good
<1>2. t2 \in [Slots -> Entries]
  BY <1>1 DEF Entries
<1>3. \A r \in Slots :
         /\ t2[r].open = t[r].open /\ t2[r].driver = t[r].driver
         /\ t2[r].start = t[r].start /\ t2[r].device = t[r].device
         /\ t2[r].file = t[r].file
  BY <1>1 DEF Entries
<1>4. 0 \in Slots /\ 1 \in Slots
  BY TableAssumption DEF Slots
<1>5. \A r \in Slots : t[r].device \in Slots
  BY <1>1 DEF Entries
<1>6. \A h \in Handles : hs[h] \in HandleTypes
  BY DEF Good
<1> HIDE DEF t2
<1>7. \A h \in Handles : hs[h].kind = "device" => DeviceKept(t2, hs[h])
  BY <1>3, <1>6, HandleFields DEF Good, DeviceKept
<1>8. \A h \in Handles : hs[h].kind = "file" => FileKept(t2, hs[h])
  BY <1>3, <1>5, <1>6, HandleFields DEF Good, FileKept
<1>9. Good(t2, hs)
  BY <1>2, <1>3, <1>7, <1>8 DEF Good, OpenDevice
<1>10. Reserved(t) => Reserved(t2)
  BY <1>3, <1>4 DEF Reserved
<1> QED BY <1>9, <1>10 DEF t2

\* An entry no handle depends on.
Unused(t, hs, s) ==
    /\ \A h \in Handles : hs[h].kind = "device" => hs[h].fid # s
    /\ \A h \in Handles :
          hs[h].kind = "file" => hs[h].fid # s /\ t[hs[h].fid].device # s

LEMMA Write ==
    ASSUME NEW t, NEW hs, Good(t, hs), NEW s \in Slots, NEW e \in Entries,
           Unused(t, hs, s),
           e.open /\ e.driver = "ramdisk" =>
              /\ s >= BOOT_FILEID
              /\ \A r \in Slots \ {s} : ~(OpenDevice(t, r) /\ t[r].start = e.start)
    PROVE  Good([t EXCEPT ![s] = e], hs)
<1> DEFINE t2 == [t EXCEPT ![s] = e]
<1>1. t \in [Slots -> Entries]
  BY DEF Good
<1>2. t2 \in [Slots -> Entries]
  BY <1>1
<1>3. t2[s] = e /\ \A r \in Slots \ {s} : t2[r] = t[r]
  BY <1>1
<1>4. \A r \in Slots : t[r].device \in Slots
  BY <1>1 DEF Entries
<1>5. \A h \in Handles : hs[h] \in HandleTypes
  BY DEF Good
<1> HIDE DEF t2
<1>6. \A h \in Handles : hs[h].kind = "device" => DeviceKept(t2, hs[h])
  BY <1>3, <1>5, HandleFields DEF Good, DeviceKept, Unused
<1>7. \A h \in Handles : hs[h].kind = "file" => FileKept(t2, hs[h])
  BY <1>3, <1>4, <1>5, HandleFields DEF Good, FileKept, Unused
<1>8. \A q, r \in Slots :
         OpenDevice(t2, q) /\ OpenDevice(t2, r) /\ t2[q].start = t2[r].start => q = r
  BY <1>3 DEF Good, OpenDevice
<1>9. \A r \in Slots : OpenDevice(t2, r) => r >= BOOT_FILEID
  BY <1>3 DEF Good, OpenDevice
<1> QED BY <1>2, <1>6, <1>7, <1>8, <1>9 DEF Good, t2

\* An entry that is free is unused, and none of the console's.
LEMMA FreeIsUnused ==
    ASSUME NEW t, NEW hs, Good(t, hs), NEW s \in Slots, ~t[s].open
    PROVE  Unused(t, hs, s)
BY DEF Good, Unused, DeviceKept, FileKept

LEMMA WriteFree ==
    ASSUME NEW t, Reserved(t), t \in [Slots -> Entries],
           NEW s \in Slots, NEW e, ~t[s].open \/ t[s].driver # "none"
    PROVE  Reserved([t EXCEPT ![s] = e])
<1>1. s # 0 /\ s # 1 /\ 0 \in Slots /\ 1 \in Slots
  BY TableAssumption DEF Reserved, Slots
<1> QED BY <1>1 DEF Reserved

\* A handle that comes to hold a partition or a file.
LEMMA HoldDevice ==
    ASSUME NEW t, NEW hs, Good(t, hs), NEW h \in Handles,
           NEW s \in Slots, NEW start \in Sectors, DeviceKept(t, Device(s, start))
    PROVE  Good(t, [hs EXCEPT ![h] = Device(s, start)])
<1> DEFINE hs2 == [hs EXCEPT ![h] = Device(s, start)]
<1>1. hs \in [Handles -> HandleTypes] /\ Device(s, start) \in HandleTypes
  BY DEF Good, HandleTypes, Device
<1>2. hs2 \in [Handles -> HandleTypes]
  BY <1>1
<1>3. hs2[h] = Device(s, start) /\ \A g \in Handles \ {h} : hs2[g] = hs[g]
  BY <1>1
<1>4. Device(s, start).kind = "device"
  BY DEF Device
<1> HIDE DEF hs2
<1> QED BY <1>2, <1>3, <1>4 DEF Good, hs2

LEMMA HoldFile ==
    ASSUME NEW t, NEW hs, Good(t, hs), NEW h \in Handles,
           NEW s \in Slots, NEW start \in Sectors, NEW file \in Files,
           FileKept(t, File(s, start, file)),
           \A g \in Handles : hs[g].kind = "file" => hs[g].fid # s
    PROVE  Good(t, [hs EXCEPT ![h] = File(s, start, file)])
<1> DEFINE hs2 == [hs EXCEPT ![h] = File(s, start, file)]
<1>1. hs \in [Handles -> HandleTypes] /\ File(s, start, file) \in HandleTypes
  BY DEF Good, HandleTypes, File
<1>2. hs2 \in [Handles -> HandleTypes]
  BY <1>1
<1>3. hs2[h] = File(s, start, file) /\ \A g \in Handles \ {h} : hs2[g] = hs[g]
  BY <1>1
<1>4. File(s, start, file).kind = "file" /\ File(s, start, file).fid = s
  BY DEF File
<1> HIDE DEF hs2
<1> QED BY <1>2, <1>3, <1>4 DEF Good, hs2

-----------------------------------------------------------------------------
(* The two ways of opening.                                                *)

LEMMA EntryTypes ==
    /\ ZeroEntry \in Entries
    /\ \A start \in Sectors : RamdiskEntry(start) \in Entries
<1>1. 0 \in Slots /\ 0 \in Sectors /\ 0 \in 0 .. FileSize
  BY TableAssumption DEF Slots
<1> QED BY <1>1 DEF ZeroEntry, RamdiskEntry, Entries

LEMMA DeviceOpens ==
    ASSUME NEW t, NEW hs, Good(t, hs), NEW start \in Sectors,
           NEW entered, entered = AEDeviceOpen(t, start)
    PROVE  /\ Good(entered.table, hs)
           /\ Reserved(t) => Reserved(entered.table)
           /\ entered.fid # NoSlot => /\ entered.fid \in Slots
                                     /\ DeviceKept(entered.table, Device(entered.fid, start))
           /\ entered.fid = NoSlot => entered.table = t
<1> DEFINE shared == SharedDevice(t, start)
           fid == Free(t, BOOT_FILEID)
           S == {s \in Slots : /\ s >= BOOT_FILEID
                               /\ t[s].open /\ t[s].driver = "ramdisk" /\ t[s].start = start}
<1>1. S \in SUBSET Slots /\ shared = First(S)
  BY DEF SharedDevice
<1>2. t \in [Slots -> Entries]
  BY DEF Good
<1>3. CASE shared # NoSlot
  <2>1. entered = [table |-> t, fid |-> shared]
    BY <1>3 DEF AEDeviceOpen
  <2>2. shared \in S
    BY <1>1, <1>3, FoundIsIn
  <2> QED BY <2>1, <2>2, <1>3 DEF DeviceKept, Device
<1>4. CASE shared = NoSlot /\ fid = NoSlot
  BY <1>4 DEF AEDeviceOpen
<1>5. CASE shared = NoSlot /\ fid # NoSlot
  <2> DEFINE t2 == [t EXCEPT ![fid] = RamdiskEntry(start)]
  <2>1. entered = [table |-> t2, fid |-> fid]
    BY <1>5 DEF AEDeviceOpen
  <2>2. fid \in Slots /\ fid >= BOOT_FILEID /\ ~t[fid].open
    BY <1>5, FreeIsFree DEF BOOT_FILEID
  <2>3. S = {}
    BY <1>1, <1>5, FoundIsIn
  <2>4. \A r \in Slots : ~(OpenDevice(t, r) /\ t[r].start = start)
    BY <2>3 DEF Good, OpenDevice
  <2>5. /\ RamdiskEntry(start) \in Entries
        /\ RamdiskEntry(start).start = start
        /\ RamdiskEntry(start).open /\ RamdiskEntry(start).driver = "ramdisk"
    BY EntryTypes DEF RamdiskEntry, ZeroEntry
  <2> HIDE DEF fid
  <2>6. Good(t2, hs)
    BY <2>2, <2>4, <2>5, FreeIsUnused, Write
  <2>7. Reserved(t) => Reserved(t2)
    BY <1>2, <2>2, WriteFree
  <2>8. t2[fid] = RamdiskEntry(start)
    BY <1>2, <2>2
  <2>9. DeviceKept(t2, Device(fid, start))
    BY <2>2, <2>5, <2>8 DEF DeviceKept, Device
  <2> HIDE DEF t2
  <2> QED BY <1>5, <2>1, <2>2, <2>6, <2>7, <2>9 DEF fid
<1> QED BY <1>3, <1>4, <1>5

LEMMA FileOpens ==
    ASSUME TypeOK, NEW t, Good(t, handle), NEW fid \in Slots, OpenDevice(t, fid),
           NEW h \in Handles, NEW file \in Files, NEW mode,
           BlOpen(t, fid, h, file, mode)
    PROVE  /\ Good(table', handle')
           /\ Reserved(t) => Reserved(table')
           /\ context' \in {NoVolume} \cup {Volume(start) : start \in FatSectors}
<1> DEFINE index == Free(t, 0)
           start == t[fid].start
           mounted == [t[index] EXCEPT !.driver = "fat", !.device = fid]
<1>1. t \in [Slots -> Entries] /\ start \in Sectors
  BY DEF Good, Entries
<1>2. CASE index = NoSlot /\ table' = t /\ UNCHANGED <<context, handle>>
  BY <1>2 DEF TypeOK
<1>3. ASSUME index # NoSlot
      PROVE  /\ index \in Slots /\ ~t[index].open /\ t[index] \in Entries
             /\ Unused(t, handle, index)
  <2>1. index \in Slots /\ ~t[index].open
    BY <1>3, FreeIsFree
  <2> QED BY <2>1, <1>1, FreeIsUnused
<1>4. ASSUME index # NoSlot, NEW e \in Entries, e.driver # "ramdisk"
      PROVE  /\ Good([t EXCEPT ![index] = e], handle)
             /\ Reserved(t) => Reserved([t EXCEPT ![index] = e])
  <2> HIDE DEF index
  <2>1. Good([t EXCEPT ![index] = e], handle)
    BY <1>3, <1>4, Write
  <2>2. Reserved(t) => Reserved([t EXCEPT ![index] = e])
    BY <1>1, <1>3, <1>4, WriteFree
  <2> QED BY <2>1, <2>2
<1>5. CASE /\ index # NoSlot
           /\ table' = [t EXCEPT ![index].driver = "none"]
           /\ context' = NoVolume /\ UNCHANGED handle
  <2> DEFINE e == [t[index] EXCEPT !.driver = "none"]
  <2> HIDE DEF index
  <2>1. e \in Entries /\ e.driver # "ramdisk"
    BY <1>3, <1>5 DEF Entries
  <2>2. table' = [t EXCEPT ![index] = e]
    BY <1>1, <1>3, <1>5
  <2> HIDE DEF e
  <2> QED BY <1>4, <1>5, <2>1, <2>2
<1>6. ASSUME index # NoSlot
      PROVE  /\ FatOpened(mounted, file, mode) \in Entries
             /\ FatNotOpened(mounted, file) \in Entries
             /\ FatOpened(mounted, file, mode).driver = "fat"
             /\ FatOpened(mounted, file, mode).file = file
             /\ FatOpened(mounted, file, mode).device = fid
             /\ FatOpened(mounted, file, mode).open
             /\ FatNotOpened(mounted, file).driver = "fat"
  <2>1. 0 \in 0 .. FileSize
    BY TableAssumption
  <2> HIDE DEF index
  <2>2. mounted \in Entries /\ mounted.driver = "fat" /\ mounted.device = fid
    BY <1>3, <1>6 DEF Entries
  <2> HIDE DEF mounted
  <2> QED BY <2>1, <2>2 DEF FatOpened, FatNotOpened, Entries
<1>7. CASE /\ index # NoSlot /\ start \in FatSectors /\ context' = Volume(start)
           /\ table' = [t EXCEPT ![index] = FatNotOpened(mounted, file)]
           /\ UNCHANGED handle
  <2>1. FatNotOpened(mounted, file) \in Entries /\ FatNotOpened(mounted, file).driver # "ramdisk"
    BY <1>6, <1>7
  <2> HIDE DEF index, mounted
  <2> QED BY <1>4, <1>7, <2>1
<1>8. CASE /\ index # NoSlot /\ start \in FatSectors /\ context' = Volume(start)
           /\ table' = [t EXCEPT ![index] = FatOpened(mounted, file, mode)]
           /\ handle' = [handle EXCEPT ![h] = File(index, start, file)]
  <2> DEFINE e == FatOpened(mounted, file, mode)
  <2>1. /\ e \in Entries /\ e.driver = "fat" /\ e.file = file /\ e.device = fid /\ e.open
        /\ e.driver # "ramdisk"
    BY <1>6, <1>8
  <2>2. index \in Slots /\ index # fid
    BY <1>3, <1>8 DEF OpenDevice
  <2>3. table' = [t EXCEPT ![index] = e]
    BY <1>8
  <2> HIDE DEF e, index
  <2>4. Good(table', handle) /\ (Reserved(t) => Reserved(table'))
    BY <1>4, <1>8, <2>1, <2>3
  <2>5. table'[index] = e /\ table'[fid] = t[fid]
    BY <1>1, <2>2, <2>3
  <2>6. FileKept(table', File(index, start, file))
    BY <2>1, <2>5 DEF FileKept, File, OpenDevice
  <2>7. \A g \in Handles : handle[g].kind = "file" => handle[g].fid # index
    BY <1>3, <1>8 DEF Unused
  <2> HIDE DEF start
  <2>8. Good(table', handle')
    BY <1>1, <1>8, <2>2, <2>4, <2>6, <2>7, HoldFile
  <2> QED BY <1>8, <2>4, <2>8
<1> QED BY <1>2, <1>5, <1>7, <1>8 DEF BlOpen

-----------------------------------------------------------------------------
(* The invariant.                                                          *)

LEMMA InvMeans ==
    ASSUME Inv
    PROVE  /\ table \in [Slots -> Entries] /\ handle \in [Handles -> HandleTypes]
           /\ \A h \in Handles : handle[h].kind = "device" =>
                 handle[h].fid \in Slots /\ OpenDevice(table, handle[h].fid)
           /\ \A h \in Handles : handle[h].kind = "file" =>
                 /\ handle[h].fid \in Slots
                 /\ table[handle[h].fid].open /\ table[handle[h].fid].driver = "fat"
                 /\ table[handle[h].fid].position \in 0 .. FileSize
<1>1. \A h \in Handles : handle[h] \in HandleTypes
  BY DEF Inv, Good
<1>2. \A s \in Slots : table[s].position \in 0 .. FileSize
  BY DEF Inv, Good, Entries
<1> QED BY <1>1, <1>2, HandleFields DEF Inv, Good, OpenDevice, DeviceKept, FileKept

LEMMA InitInv == Init => Inv
<1> SUFFICES ASSUME Init PROVE Inv
  OBVIOUS
<1>1. ZeroEntry \in Entries /\ 0 \in Slots /\ 1 \in Slots
  BY EntryTypes, TableAssumption DEF Slots
<1>2. /\ table \in [Slots -> Entries]
      /\ \A s \in Slots : table[s].driver = "none" /\ (s \in {0, 1} => table[s].open)
  <2> DEFINE e(s) == [ZeroEntry EXCEPT !.open = s \in {0, 1}, !.read = s = 0, !.write = s = 1]
  <2>1. table = [s \in Slots |-> e(s)]
    BY DEF Init
  <2>2. ASSUME NEW s \in Slots
        PROVE  e(s) \in Entries /\ e(s).driver = "none" /\ e(s).open = (s \in {0, 1})
    <3>1. (s \in {0, 1}) \in BOOLEAN /\ (s = 0) \in BOOLEAN /\ (s = 1) \in BOOLEAN
      OBVIOUS
    <3> QED BY <1>1, <3>1 DEF Entries, ZeroEntry
  <2> HIDE DEF e
  <2> QED BY <2>1, <2>2
<1>3. handle \in [Handles -> HandleTypes] /\ \A h \in Handles : handle[h].kind = "none"
  BY DEF Init, HandleTypes, None
<1>4. TypeOK
  BY <1>2, <1>3 DEF Init, TypeOK
<1>5. Good(table, handle)
  BY <1>2, <1>3 DEF Good, OpenDevice
<1>6. Reserved(table)
  BY <1>1, <1>2 DEF Reserved
<1> QED BY <1>4, <1>5, <1>6 DEF Inv

\* What is left to show of a step that keeps the program and the context.
LEMMA Keep ==
    ASSUME Inv, Good(table', handle'), Reserved(table) => Reserved(table'),
           UNCHANGED <<context, program>>
    PROVE  Inv'
BY DEF Inv, TypeOK, Good

LEMMA OpensKeepInv ==
    ASSUME Inv, NEW h \in Handles
    PROVE  /\ \A mode \in ConsoleModes : AEOpenConsole(h, mode) => Inv'
           /\ \A start \in Sectors : AEOpenDevice(h, start) => Inv'
           /\ \A start \in FileSectors, file \in Files, mode \in FileModes :
                 AEOpenFile(h, start, file, mode) => Inv'
           /\ \A g \in Handles, file \in Files : BlOpenFile(h, g, file) => Inv'
<1>0. Good(table, handle) /\ TypeOK /\ table \in [Slots -> Entries]
  BY InvMeans DEF Inv
<1>1. ASSUME NEW mode \in ConsoleModes, AEOpenConsole(h, mode)
      PROVE  Inv'
  <2> DEFINE s == ConsoleFid(mode)
             e == [table[s] EXCEPT !.open = TRUE, !.driver = "none",
                                   !.read = mode = "ArcOpenReadOnly",
                                   !.write = mode = "ArcOpenWriteOnly"]
  <2>1. s \in {0, 1} /\ s \in Slots /\ Reserved(table)
    BY <1>1, TableAssumption DEF ConsoleFid, Slots, Inv, AEOpenConsole
  <2>2. e \in Entries /\ e.open /\ e.driver = "none"
    <3>1. table[s] \in Entries
      BY <1>0, <2>1
    <3>2. (mode = "ArcOpenReadOnly") \in BOOLEAN /\ (mode = "ArcOpenWriteOnly") \in BOOLEAN
      OBVIOUS
    <3> HIDE DEF s
    <3> QED BY <3>1, <3>2 DEF Entries
  <2>3. table' = [table EXCEPT ![s] = e]
    BY <1>1 DEF AEOpenConsole
  <2>4. handle' = [handle EXCEPT ![h] = Console(mode)] /\ UNCHANGED <<context, program>>
    BY <1>1 DEF AEOpenConsole
  <2> HIDE DEF s, e
  <2>5. Unused(table, handle, s)
    BY <1>0, <2>1 DEF Unused, Good, Reserved, DeviceKept, FileKept
  <2>6. Good(table', handle)
    BY <1>0, <2>1, <2>2, <2>3, <2>5, Write
  <2>7. Good(table', handle')
    <3>1. Console(mode) \in HandleTypes /\ Console(mode).kind = "console"
      BY DEF HandleTypes, Console
    <3>2. handle' \in [Handles -> HandleTypes]
      BY <3>1, <2>4, <1>0 DEF Good
    <3>3. \A g \in Handles : handle'[g].kind \in {"device", "file"} => handle'[g] = handle[g]
      BY <3>1, <2>4, <1>0 DEF Good
    <3>4. \A g \in Handles : handle'[g].kind = "device" => DeviceKept(table', handle'[g])
      BY <3>3, <2>6 DEF Good
    <3>5. \A g \in Handles : handle'[g].kind = "file" => FileKept(table', handle'[g])
      BY <3>3, <2>6 DEF Good
    <3>6. \A f, g \in Handles :
             handle'[f].kind = "file" /\ handle'[g].kind = "file"
             /\ handle'[f].fid = handle'[g].fid => f = g
      BY <3>3, <2>6 DEF Good
    <3> QED BY <2>6, <3>2, <3>4, <3>5, <3>6 DEF Good
  <2>8. Reserved(table')
    <3>1. 0 \in Slots /\ 1 \in Slots
      BY TableAssumption DEF Slots
    <3> QED BY <1>0, <2>1, <2>2, <2>3, <3>1 DEF Reserved
  <2> QED BY <2>4, <2>7, <2>8, Keep
<1>2. ASSUME NEW start \in Sectors, AEOpenDevice(h, start)
      PROVE  Inv'
  <2> DEFINE entered == AEDeviceOpen(table, start)
  <2>1. /\ table' = entered.table /\ UNCHANGED <<context, program>>
        /\ \/ entered.fid = NoSlot /\ handle' = handle
           \/ /\ entered.fid # NoSlot
              /\ handle' = [handle EXCEPT ![h] = Device(entered.fid, start)]
    BY <1>2 DEF AEOpenDevice
  <2>2. /\ Good(entered.table, handle)
        /\ Reserved(table) => Reserved(entered.table)
        /\ entered.fid # NoSlot => /\ entered.fid \in Slots
                                  /\ DeviceKept(entered.table, Device(entered.fid, start))
    BY <1>0, DeviceOpens
  <2> HIDE DEF entered
  <2>3. Good(table', handle')
    BY <2>1, <2>2, HoldDevice
  <2> QED BY <2>1, <2>2, <2>3, Keep
<1>3. ASSUME NEW start \in FileSectors, NEW file \in Files, NEW mode \in FileModes,
             AEOpenFile(h, start, file, mode)
      PROVE  Inv'
  <2> DEFINE entered == AEDeviceOpen(table, start)
  <2>1. /\ Good(entered.table, handle)
        /\ Reserved(table) => Reserved(entered.table)
        /\ entered.fid # NoSlot => /\ entered.fid \in Slots
                                  /\ DeviceKept(entered.table, Device(entered.fid, start))
    BY <1>0, DeviceOpens, TableAssumption
  <2>2. /\ UNCHANGED program
        /\ \/ UNCHANGED <<table, context, handle>>
           \/ entered.fid # NoSlot /\ BlOpen(entered.table, entered.fid, h, file, mode)
    BY <1>3 DEF AEOpenFile
  <2> HIDE DEF entered
  <2>3. CASE UNCHANGED <<table, context, handle>>
    BY <1>0, <2>2, <2>3, Keep
  <2>4. CASE entered.fid # NoSlot /\ BlOpen(entered.table, entered.fid, h, file, mode)
    <3>1. entered.fid \in Slots /\ OpenDevice(entered.table, entered.fid)
      BY <2>1, <2>4 DEF OpenDevice, DeviceKept, Device
    <3>2. /\ Good(table', handle')
          /\ Reserved(entered.table) => Reserved(table')
          /\ context' \in {NoVolume} \cup {Volume(st) : st \in FatSectors}
      BY <1>0, <2>1, <2>4, <3>1, FileOpens
    <3> QED BY <2>1, <2>2, <3>2 DEF Inv, TypeOK, Good
  <2> QED BY <2>2, <2>3, <2>4
<1>4. ASSUME NEW g \in Handles, NEW file \in Files, BlOpenFile(h, g, file)
      PROVE  Inv'
  <2>1. /\ handle[g].fid \in Slots /\ OpenDevice(table, handle[g].fid)
        /\ BlOpen(table, handle[g].fid, h, file, "ArcOpenReadOnly") /\ UNCHANGED program
    BY <1>4, InvMeans DEF BlOpenFile
  <2>2. /\ Good(table', handle')
        /\ Reserved(table) => Reserved(table')
        /\ context' \in {NoVolume} \cup {Volume(st) : st \in FatSectors}
    BY <1>0, <2>1, FileOpens
  <2> QED BY <2>1, <2>2 DEF Inv, TypeOK, Good
<1> QED BY <1>1, <1>2, <1>3, <1>4

LEMMA ClosesKeepInv ==
    ASSUME Inv, NEW h \in Handles
    PROVE  /\ AECloseConsole(h) \/ LeaveDevice(h) => Inv'
           /\ AECloseDevice(h) => Inv'
           /\ CloseFile(h) => Inv'
<1>0. Good(table, handle) /\ table \in [Slots -> Entries] /\ handle \in [Handles -> HandleTypes]
  BY InvMeans DEF Inv
<1>1. Good(table, [handle EXCEPT ![h] = None])
  BY <1>0, Drop
<1>2. ASSUME AECloseConsole(h) \/ LeaveDevice(h) PROVE Inv'
  <2>1. /\ handle' = [handle EXCEPT ![h] = None]
        /\ UNCHANGED <<table, context, program>>
    BY <1>2 DEF AECloseConsole, LeaveDevice, FreeHandle
  <2> QED BY <1>1, <2>1, Keep
<1>3. ASSUME NEW s \in Slots, table[s].driver # "none",
             Unused(table, [handle EXCEPT ![h] = None], s),
             CloseEntry(s), FreeHandle(h), UNCHANGED <<context, program>>
      PROVE  Inv'
  <2> DEFINE e == [table[s] EXCEPT !.open = FALSE]
  <2>1. e \in Entries /\ ~e.open
    <3>1. table[s] \in Entries
      BY <1>0
    <3> QED BY <3>1 DEF Entries
  <2>2. table' = [table EXCEPT ![s] = e] /\ handle' = [handle EXCEPT ![h] = None]
    BY <1>3 DEF CloseEntry, FreeHandle
  <2> HIDE DEF e
  <2>3. Good(table', handle')
    BY <1>1, <1>3, <2>1, <2>2, Write
  <2>4. Reserved(table) => Reserved(table')
    BY <1>0, <1>3, <2>2, WriteFree
  <2> QED BY <1>3, <2>3, <2>4, Keep
<1>4. \A g \in Handles :
         [handle EXCEPT ![h] = None][g].kind # "none"
            => g # h /\ [handle EXCEPT ![h] = None][g] = handle[g]
  BY <1>0 DEF None
<1>5. ASSUME AECloseDevice(h) PROVE Inv'
  <2> DEFINE s == handle[h].fid
  <2>1. s \in Slots /\ OpenDevice(table, s) /\ AloneOn(h)
    BY <1>5, InvMeans DEF AECloseDevice
  <2>2. Unused(table, [handle EXCEPT ![h] = None], s)
    <3>1. ASSUME NEW g \in Handles \ {h}, handle[g].kind = "device" PROVE handle[g].fid # s
      BY <2>1, <3>1 DEF AloneOn
    <3>2. ASSUME NEW g \in Handles, handle[g].kind = "file"
          PROVE  handle[g].fid # s /\ table[handle[g].fid].device # s
      BY <2>1, <3>2, InvMeans DEF AloneOn, OpenDevice
    <3> QED BY <1>4, <3>1, <3>2 DEF Unused
  <2> QED BY <1>3, <1>5, <2>1, <2>2 DEF AECloseDevice, OpenDevice
<1>6. ASSUME CloseFile(h) PROVE Inv'
  <2> DEFINE s == handle[h].fid
  <2>1. s \in Slots /\ table[s].driver = "fat" /\ handle[h].kind = "file"
    BY <1>6, InvMeans DEF CloseFile
  <2>2. Unused(table, [handle EXCEPT ![h] = None], s)
    <3>1. ASSUME NEW g \in Handles, handle[g].kind = "device" PROVE handle[g].fid # s
      BY <2>1, <3>1, InvMeans DEF OpenDevice
    <3>2. ASSUME NEW g \in Handles \ {h}, handle[g].kind = "file"
          PROVE  handle[g].fid # s /\ table[handle[g].fid].device # s
      BY <1>0, <2>1, <3>2 DEF Good, FileKept
    <3> QED BY <1>4, <3>1, <3>2 DEF Unused
  <2> QED BY <1>3, <1>6, <2>1, <2>2 DEF CloseFile
<1> QED BY <1>2, <1>5, <1>6

LEMMA UsesKeepInv ==
    ASSUME Inv, NEW h \in Handles
    PROVE  /\ \A p \in 0 .. FileSize : ReadDevice(h, p) => Inv'
           /\ ReadFile(h) => Inv'
           /\ \A p \in 0 .. (FileSize + 1) : FatSeek(h, p) => Inv'
<1>0. Good(table, handle)
  BY DEF Inv
<1>1. ASSUME UNCHANGED <<table, context, program, handle>> PROVE Inv'
  BY <1>0, <1>1, Keep
<1>2. ASSUME handle[h].kind = "file", NEW p \in 0 .. FileSize,
             table' = [table EXCEPT ![handle[h].fid].position = p],
             UNCHANGED <<context, program, handle>>
      PROVE  Inv'
  <2>1. handle[h].fid \in Slots
    BY <1>2, InvMeans
  <2>2. Good(table', handle) /\ (Reserved(table) => Reserved(table'))
    BY <1>0, <1>2, <2>1, Move
  <2> QED BY <1>2, <2>2, Keep
<1>3. ASSUME NEW p \in 0 .. FileSize, ReadDevice(h, p) PROVE Inv'
  BY <1>1, <1>3 DEF ReadDevice
<1>4. ASSUME ReadFile(h) PROVE Inv'
  <2> DEFINE s == handle[h].fid
             position == table[s].position
  <2>1. handle[h].kind = "file" /\ s \in Slots /\ position \in 0 .. FileSize
    BY <1>4, InvMeans DEF ReadFile
  <2>2. /\ UNCHANGED <<context, program, handle>>
        /\ \/ UNCHANGED table
           \/ position < FileSize /\ table' = [table EXCEPT ![s].position = @ + 1]
    BY <1>4 DEF ReadFile
  <2>3. [table EXCEPT ![s].position = @ + 1] = [table EXCEPT ![s].position = position + 1]
    OBVIOUS
  <2>4. position < FileSize => position + 1 \in 0 .. FileSize
    BY <2>1, TableAssumption
  <2> HIDE DEF position
  <2> QED BY <1>1, <1>2, <2>1, <2>2, <2>3, <2>4
<1>5. ASSUME NEW p \in 0 .. (FileSize + 1), FatSeek(h, p) PROVE Inv'
  <2>1. CASE p > FileSize
    BY <1>1, <1>5, <2>1 DEF FatSeek
  <2>2. CASE ~(p > FileSize)
    <3>1. p \in 0 .. FileSize
      BY <2>2, TableAssumption
    <3> QED BY <1>2, <1>5, <2>2, <3>1 DEF FatSeek
  <2> QED BY <2>1, <2>2
<1> QED BY <1>3, <1>4, <1>5

LEMMA InitializeKeepsInv == Inv /\ BlIoInitialize => Inv'
<1> SUFFICES ASSUME Inv, BlIoInitialize PROVE Inv'
  OBVIOUS
<1>0. table \in [Slots -> Entries] /\ handle \in [Handles -> HandleTypes]
  BY InvMeans
<1>1. table' \in [Slots -> Entries] /\ \A s \in Slots : ~table'[s].open
  <2> DEFINE e(s) == [table[s] EXCEPT !.open = FALSE]
  <2>1. table' = [s \in Slots |-> e(s)]
    BY DEF BlIoInitialize
  <2>2. ASSUME NEW s \in Slots PROVE e(s) \in Entries /\ ~e(s).open
    <3>1. table[s] \in Entries
      BY <1>0
    <3> QED BY <3>1 DEF Entries
  <2> HIDE DEF e
  <2> QED BY <2>1, <2>2
<1>2. \A h \in Handles : handle'[h].kind # "device" /\ handle'[h].kind # "file"
  BY DEF BlIoInitialize
<1>3. handle' = handle /\ context' = context /\ program' = "loader"
  BY DEF BlIoInitialize
<1>4. Good(table', handle')
  BY <1>0, <1>1, <1>2, <1>3 DEF Good, OpenDevice
<1> QED BY <1>3, <1>4 DEF Inv, TypeOK, Good

LEMMA NextInv == Inv /\ [Next]_tablevars => Inv'
<1> SUFFICES ASSUME Inv, [Next]_tablevars PROVE Inv'
  OBVIOUS
<1>1. CASE UNCHANGED tablevars
  BY <1>1 DEF tablevars, Inv, TypeOK, Good, Reserved, DeviceKept, FileKept, OpenDevice
<1>2. CASE Next
  BY <1>2, InitializeKeepsInv, OpensKeepInv, ClosesKeepInv, UsesKeepInv DEF Next
<1> QED BY <1>1, <1>2

LEMMA AlwaysInv == Spec => []Inv
BY InitInv, NextInv, PTL DEF Spec

-----------------------------------------------------------------------------
(* The results.                                                            *)

\* Entries, handles and the context hold what they should, however many of
\* them there are.
THEOREM TableTyped == Spec => []TypeOK
<1>1. Inv => TypeOK
  BY DEF Inv
<1> QED BY <1>1, AlwaysInv, PTL

\* Whatever is opened, shared, refused and closed meanwhile, a file id that a
\* caller holds keeps its entry, its file and its partition, and no two files
\* have one entry.
THEOREM HandlesStayKept == Spec => []HandlesKept
<1>1. Inv => HandlesKept
  BY DEF Inv, Good, HandlesKept, DeviceKept, FileKept
<1> QED BY <1>1, AlwaysInv, PTL

\* A partition that is opened again gets the entry it has.
THEOREM OneEntryPerDevice == Spec => []DevicesDistinct
<1>1. Inv => DevicesDistinct
  BY DEF Inv, Good, DevicesDistinct, OpenDevice
<1> QED BY <1>1, AlwaysInv, PTL

-----------------------------------------------------------------------------
(* No entry is leaked.                                                     *)

\* An open entry behind the console's is a partition's or of a file some caller holds.
Accounted(t, hs) ==
    \A s \in Slots : s >= BOOT_FILEID /\ t[s].open =>
        \/ t[s].driver = "ramdisk"
        \/ \E h \in Handles : hs[h].kind = "file" /\ hs[h].fid = s

\* Mapping the open entries to the partitions and to the handles counts them.
LEMMA FullTable ==
    ASSUME NEW t, NEW hs, Good(t, hs), Accounted(t, hs),
           \A s \in Slots : s >= BOOT_FILEID => t[s].open
    PROVE  Cardinality({h \in Handles : hs[h].kind = "file"}) + Cardinality(Sectors)
               >= TableSize - 2
<1> DEFINE A == {s \in Slots : s >= BOOT_FILEID /\ t[s].driver = "ramdisk"}
           B == {s \in Slots : \E h \in Handles : hs[h].kind = "file" /\ hs[h].fid = s}
           F == {h \in Handles : hs[h].kind = "file"}
           f == [s \in A |-> t[s].start]
           g == [s \in B |-> CHOOSE h \in Handles : hs[h].kind = "file" /\ hs[h].fid = s]
<1>1. TableSize \in Nat /\ TableSize > 2 /\ IsFiniteSet(Sectors) /\ IsFiniteSet(Handles)
  BY TableAssumption
<1>2. IsFiniteSet(F)
  BY <1>1, FS_Subset
<1>3. f \in Injection(A, Sectors)
  <2>1. \A s \in A : t[s].start \in Sectors
    BY DEF Good, Entries
  <2>2. \A r, s \in A : t[r].start = t[s].start => r = s
    BY DEF Good, OpenDevice
  <2> HIDE DEF A
  <2> QED BY <2>1, <2>2 DEF Injection, IsInjective
<1>4. g \in Injection(B, F)
  <2>1. ASSUME NEW s \in B
        PROVE  g[s] \in F /\ hs[g[s]].fid = s
    OBVIOUS
  <2>2. g \in [B -> F]
    <3> HIDE DEF B, F
    <3> QED BY <2>1
  <2>3. \A r, s \in B : g[r] = g[s] => r = s
    <3> HIDE DEF B, F, g
    <3> QED BY <2>1
  <2> HIDE DEF g, B, F
  <2> QED BY <2>2, <2>3 DEF Injection, IsInjective
<1>5. BOOT_FILEID .. (TableSize - 1) \subseteq A \cup B
  BY <1>1 DEF Accounted, Slots, BOOT_FILEID
<1> HIDE DEF A, B, F, f, g
<1>6. /\ IsFiniteSet(A) /\ IsFiniteSet(B)
      /\ Cardinality(A) <= Cardinality(Sectors) /\ Cardinality(B) <= Cardinality(F)
  BY <1>1, <1>2, <1>3, <1>4, FS_Injection
<1>7. /\ IsFiniteSet(A \cup B)
      /\ Cardinality(A \cup B) = Cardinality(A) + Cardinality(B) - Cardinality(A \cap B)
  BY <1>6, FS_Union
<1>8. Cardinality(BOOT_FILEID .. (TableSize - 1)) = TableSize - 2
  BY <1>1, FS_Interval DEF BOOT_FILEID
<1>9. TableSize - 2 <= Cardinality(A \cup B)
  BY <1>5, <1>7, <1>8, FS_Subset
<1>10. IsFiniteSet(A \cap B)
  BY <1>6, FS_Subset
<1>11. /\ Cardinality(A) \in Nat /\ Cardinality(B) \in Nat /\ Cardinality(A \cap B) \in Nat
       /\ Cardinality(F) \in Nat /\ Cardinality(Sectors) \in Nat
  BY <1>1, <1>2, <1>6, <1>10, FS_CardinalityType
<1>12. Cardinality(F) + Cardinality(Sectors) >= TableSize - 2
  BY <1>1, <1>6, <1>7, <1>9, <1>11
<1> QED BY <1>12 DEF F

\* A table that has no free entry is full.
LEMMA NoneFree ==
    ASSUME NEW t, NEW from \in Nat, from <= BOOT_FILEID, Free(t, from) = NoSlot
    PROVE  \A s \in Slots : s >= BOOT_FILEID => t[s].open
<1> DEFINE S == {s \in Slots : s >= from /\ ~t[s].open}
<1>1. S = {}
  BY FoundIsIn DEF Free
<1> QED BY <1>1 DEF BOOT_FILEID, Slots

LEMMA DeviceOpenAccounts ==
    ASSUME NEW t, NEW hs, Good(t, hs), Accounted(t, hs), NEW start \in Sectors,
           NEW entered, entered = AEDeviceOpen(t, start)
    PROVE  /\ Accounted(entered.table, hs)
           /\ entered.fid = NoSlot => \A s \in Slots : s >= BOOT_FILEID => t[s].open
<1> DEFINE shared == SharedDevice(t, start)
           fid == Free(t, BOOT_FILEID)
<1>1. t \in [Slots -> Entries] /\ BOOT_FILEID \in Nat /\ BOOT_FILEID <= BOOT_FILEID
  BY DEF Good, BOOT_FILEID
<1>2. CASE shared # NoSlot
  BY <1>2 DEF AEDeviceOpen
<1>3. CASE shared = NoSlot /\ fid = NoSlot
  BY <1>1, <1>3, NoneFree DEF AEDeviceOpen
<1>4. CASE shared = NoSlot /\ fid # NoSlot
  <2> DEFINE t2 == [t EXCEPT ![fid] = RamdiskEntry(start)]
  <2>1. entered = [table |-> t2, fid |-> fid]
    BY <1>4 DEF AEDeviceOpen
  <2>2. RamdiskEntry(start).driver = "ramdisk"
    BY DEF RamdiskEntry, ZeroEntry
  <2> HIDE DEF fid
  <2>3. \A s \in Slots : t2[s] = t[s] \/ t2[s].driver = "ramdisk"
    BY <1>1, <2>2
  <2> HIDE DEF t2
  <2>4. Accounted(t2, hs)
    BY <2>3 DEF Accounted
  <2> QED BY <1>4, <2>1, <2>4
<1> QED BY <1>2, <1>3, <1>4

\* What an open of a file makes of the table it found.
LEMMA FileOpenAccounts ==
    ASSUME NEW t, Good(t, handle), Accounted(t, handle), NEW fid \in Slots,
           NEW h \in Handles, handle[h] = None, NEW file \in Files, NEW mode,
           BlOpen(t, fid, h, file, mode)
    PROVE  /\ Accounted(table', handle')
           /\ reply' = Failed("full") => \A s \in Slots : s >= BOOT_FILEID => t[s].open
<1> DEFINE index == Free(t, 0)
           start == t[fid].start
           mounted == [t[index] EXCEPT !.driver = "fat", !.device = fid]
<1>1. t \in [Slots -> Entries] /\ handle \in [Handles -> HandleTypes] /\ 0 <= BOOT_FILEID
  BY DEF Good, BOOT_FILEID
<1>2. Failed("full") # Done /\ Failed("full") # Failed("error")
  BY DEF Failed, Done
<1>3. CASE index = NoSlot /\ table' = t /\ reply' = Failed("full") /\ UNCHANGED handle
  BY <1>1, <1>3, NoneFree
<1>4. index # NoSlot => index \in Slots /\ ~t[index].open /\ t[index] \in Entries
  BY <1>1, FreeIsFree
<1>5. ASSUME NEW e, ~e.open, index # NoSlot, table' = [t EXCEPT ![index] = e],
             UNCHANGED handle, reply' = Failed("error")
      PROVE  Accounted(table', handle')
  <2> HIDE DEF index
  <2>1. \A s \in Slots : table'[s] = t[s] \/ ~table'[s].open
    BY <1>1, <1>5
  <2> QED BY <1>5, <2>1 DEF Accounted
<1>6. CASE /\ index # NoSlot /\ table' = [t EXCEPT ![index].driver = "none"]
           /\ reply' = Failed("error") /\ UNCHANGED handle
  <2> DEFINE e == [t[index] EXCEPT !.driver = "none"]
  <2> HIDE DEF index
  <2>1. ~e.open
    BY <1>4, <1>6 DEF Entries
  <2>2. table' = [t EXCEPT ![index] = e]
    BY <1>6
  <2> HIDE DEF e
  <2> QED BY <1>2, <1>5, <1>6, <2>1, <2>2 DEF index
<1>7. CASE /\ index # NoSlot /\ table' = [t EXCEPT ![index] = FatNotOpened(mounted, file)]
           /\ reply' = Failed("error") /\ UNCHANGED handle
  <2>1. ~FatNotOpened(mounted, file).open
    <3> HIDE DEF index
    <3>1. mounted \in Entries \/ ~mounted.open
      BY <1>4, <1>7 DEF Entries
    <3>2. mounted.open = t[index].open /\ t[index] \in Entries /\ ~t[index].open
      BY <1>4, <1>7 DEF Entries
    <3> QED BY <1>4, <1>7, <3>2 DEF FatNotOpened, Entries
  <2> HIDE DEF index, mounted
  <2> QED BY <1>2, <1>5, <1>7, <2>1 DEF index
<1>8. CASE /\ index # NoSlot /\ reply' = Done
           /\ table' = [t EXCEPT ![index] = FatOpened(mounted, file, mode)]
           /\ handle' = [handle EXCEPT ![h] = File(index, start, file)]
  <2> HIDE DEF index, mounted, start
  <2>1. \A s \in Slots : s = index \/ table'[s] = t[s]
    BY <1>1, <1>8
  <2>2. handle'[h].kind = "file" /\ handle'[h].fid = index
    BY <1>1, <1>8 DEF File
  <2>3. \A g \in Handles : handle[g].kind = "file" => handle'[g] = handle[g]
    BY <1>1, <1>8 DEF None
  <2>4. ASSUME NEW s \in Slots, s >= BOOT_FILEID, table'[s].open
        PROVE  \/ table'[s].driver = "ramdisk"
               \/ \E g \in Handles : handle'[g].kind = "file" /\ handle'[g].fid = s
    BY <2>1, <2>2, <2>3, <2>4 DEF Accounted
  <2>5. Accounted(table', handle')
    BY <2>4 DEF Accounted
  <2> QED BY <1>2, <1>8, <2>5
<1> QED BY <1>3, <1>6, <1>7, <1>8 DEF BlOpen

CountInv == Inv /\ Accounted(table, handle) /\ FullOnlyWhenFull

\* A call that opens nothing.
LEMMA Frees ==
    ASSUME Accounted(table, handle), reply' # Failed("full"),
           \A s \in Slots : table'[s].open =>
              table[s].open /\ table'[s].driver = table[s].driver,
           \A h \in Handles : handle[h].kind = "file" =>
              handle'[h] = handle[h] \/ ~table'[handle[h].fid].open
    PROVE  Accounted(table', handle') /\ FullOnlyWhenFull'
<1>1. FullOnlyWhenFull'
  BY DEF FullOnlyWhenFull
<1>2. Accounted(table', handle')
  BY DEF Accounted
<1> QED BY <1>1, <1>2

LEMMA CountOpens ==
    ASSUME CountInv, Inv', NEW h \in Handles,
           \/ \E start \in Sectors : AEOpenDevice(h, start)
           \/ \E start \in FileSectors, file \in Files, mode \in FileModes :
                 AEOpenFile(h, start, file, mode)
           \/ \E g \in Handles, file \in Files : BlOpenFile(h, g, file)
    PROVE  Accounted(table', handle') /\ FullOnlyWhenFull'
<1>1. /\ Good(table, handle) /\ Accounted(table, handle)
      /\ handle \in [Handles -> HandleTypes]
  BY DEF CountInv, Inv, Good
<1>2. Failed("full") # Done
  BY DEF Failed, Done
<1>3. ASSUME NEW t, Good(t, handle), Accounted(t, handle),
             \A s \in Slots : s >= BOOT_FILEID => t[s].open
      PROVE  Cardinality(FilesHeld) + Cardinality(Sectors) >= TableSize - 2
  BY <1>3, FullTable DEF FilesHeld
<1>4. ASSUME NEW start \in Sectors, AEOpenDevice(h, start)
      PROVE  Accounted(table', handle') /\ FullOnlyWhenFull'
  <2> DEFINE entered == AEDeviceOpen(table, start)
  <2>1. /\ table' = entered.table /\ handle[h] = None
        /\ \/ entered.fid = NoSlot /\ handle' = handle /\ reply' = Failed("full")
           \/ /\ entered.fid # NoSlot /\ reply' = Done
              /\ handle' = [handle EXCEPT ![h] = Device(entered.fid, start)]
    BY <1>4 DEF AEOpenDevice
  <2>2. /\ Accounted(entered.table, handle)
        /\ entered.fid = NoSlot => \A s \in Slots : s >= BOOT_FILEID => table[s].open
    BY <1>1, DeviceOpenAccounts
  <2> HIDE DEF entered
  <2>3. \A g \in Handles : handle[g].kind = "file" => handle'[g] = handle[g]
    BY <1>1, <2>1 DEF None
  <2>4. Accounted(table', handle')
    BY <2>1, <2>2, <2>3 DEF Accounted
  <2>5. FullOnlyWhenFull'
    <3>1. CASE entered.fid = NoSlot /\ handle' = handle /\ reply' = Failed("full")
      <4>1. Cardinality(FilesHeld) + Cardinality(Sectors) >= TableSize - 2
        BY <1>1, <1>3, <2>2, <3>1
      <4>2. FilesHeld' = FilesHeld
        BY <3>1 DEF FilesHeld
      <4> QED BY <4>1, <4>2 DEF FullOnlyWhenFull
    <3>2. CASE reply' = Done
      BY <1>2, <3>2 DEF FullOnlyWhenFull
    <3> QED BY <2>1, <3>1, <3>2
  <2> QED BY <2>4, <2>5
<1>5. ASSUME NEW t, Good(t, handle), Accounted(t, handle), NEW fid \in Slots,
             NEW file \in Files, NEW mode, handle[h] = None, BlOpen(t, fid, h, file, mode)
      PROVE  Accounted(table', handle') /\ FullOnlyWhenFull'
  <2>1. /\ Accounted(table', handle')
        /\ reply' = Failed("full") => \A s \in Slots : s >= BOOT_FILEID => t[s].open
    BY <1>5, FileOpenAccounts
  <2>2. reply' = Failed("full") => handle' = handle
    BY <1>2, <1>5 DEF BlOpen, Failed
  <2>3. ASSUME reply' = Failed("full")
        PROVE  Cardinality(FilesHeld') + Cardinality(Sectors) >= TableSize - 2
    <3>1. Cardinality(FilesHeld) + Cardinality(Sectors) >= TableSize - 2
      BY <1>3, <1>5, <2>1, <2>3
    <3>2. FilesHeld' = FilesHeld
      BY <2>2, <2>3 DEF FilesHeld
    <3> QED BY <3>1, <3>2
  <2> QED BY <2>1, <2>3 DEF FullOnlyWhenFull
<1>6. ASSUME NEW start \in FileSectors, NEW file \in Files, NEW mode \in FileModes,
             AEOpenFile(h, start, file, mode)
      PROVE  Accounted(table', handle') /\ FullOnlyWhenFull'
  <2> DEFINE entered == AEDeviceOpen(table, start)
  <2>1. /\ Good(entered.table, handle)
        /\ entered.fid # NoSlot => entered.fid \in Slots
    BY <1>1, DeviceOpens, TableAssumption
  <2>2. /\ Accounted(entered.table, handle)
        /\ entered.fid = NoSlot => \A s \in Slots : s >= BOOT_FILEID => table[s].open
    BY <1>1, DeviceOpenAccounts, TableAssumption
  <2>3. /\ handle[h] = None
        /\ \/ entered.fid = NoSlot /\ UNCHANGED <<table, context, handle>>
           \/ entered.fid # NoSlot /\ BlOpen(entered.table, entered.fid, h, file, mode)
    BY <1>6 DEF AEOpenFile
  <2> HIDE DEF entered
  <2>4. CASE entered.fid = NoSlot /\ UNCHANGED <<table, context, handle>>
    <3>1. Cardinality(FilesHeld) + Cardinality(Sectors) >= TableSize - 2
      BY <1>1, <1>3, <2>2, <2>4
    <3>2. FilesHeld' = FilesHeld
      BY <2>4 DEF FilesHeld
    <3> QED BY <1>1, <2>4, <3>1, <3>2 DEF FullOnlyWhenFull
  <2>5. CASE entered.fid # NoSlot /\ BlOpen(entered.table, entered.fid, h, file, mode)
    BY <1>5, <2>1, <2>2, <2>3, <2>5
  <2> QED BY <2>3, <2>4, <2>5
<1>7. ASSUME NEW g \in Handles, NEW file \in Files, BlOpenFile(h, g, file)
      PROVE  Accounted(table', handle') /\ FullOnlyWhenFull'
  <2>1. /\ handle[g].fid \in Slots /\ handle[h] = None
        /\ BlOpen(table, handle[g].fid, h, file, "ArcOpenReadOnly")
    BY <1>7, InvMeans DEF BlOpenFile, CountInv
  <2> QED BY <1>1, <1>5, <2>1
<1> QED BY <1>4, <1>5, <1>6, <1>7

LEMMA CountOthers ==
    ASSUME CountInv, NEW h \in Handles,
           \/ \E mode \in ConsoleModes : AEOpenConsole(h, mode)
           \/ AECloseConsole(h) \/ AECloseDevice(h) \/ LeaveDevice(h) \/ CloseFile(h)
           \/ \E p \in 0 .. FileSize : ReadDevice(h, p)
           \/ ReadFile(h)
           \/ \E p \in 0 .. (FileSize + 1) : FatSeek(h, p)
    PROVE  Accounted(table', handle') /\ FullOnlyWhenFull'
<1>1. /\ Accounted(table, handle) /\ table \in [Slots -> Entries]
      /\ handle \in [Handles -> HandleTypes] /\ Inv
      /\ \A g \in Handles : handle[g].kind = "file" => handle[g].fid \in Slots
  BY InvMeans DEF CountInv
<1>2. /\ Failed("full") # Done /\ Failed("full") # Failed("error") /\ Failed("full") # End
      /\ Failed("full") # Garbled /\ \A name, p : Failed("full") # Data(name, p)
  BY DEF Failed, Done, End, Garbled, Data
<1>3. ASSUME NEW mode \in ConsoleModes, AEOpenConsole(h, mode)
      PROVE  Accounted(table', handle') /\ FullOnlyWhenFull'
  <2>1. /\ \A s \in Slots : s >= BOOT_FILEID => table'[s] = table[s]
        /\ \A g \in Handles : handle[g].kind = "file" => handle'[g] = handle[g]
        /\ reply' = Done
    <3>1. /\ ConsoleFid(mode) \in {0, 1} /\ handle[h].kind = "none"
          /\ handle' = [handle EXCEPT ![h] = Console(mode)] /\ reply' = Done
      <4>1. /\ handle[h] = None /\ handle' = [handle EXCEPT ![h] = Console(mode)]
            /\ reply' = Done
        BY <1>3, Zenon DEF AEOpenConsole
      <4> QED BY <4>1 DEF ConsoleFid, None
    <3>2. \E e : table' = [table EXCEPT ![ConsoleFid(mode)] = e]
      <4> DEFINE e == [table[ConsoleFid(mode)] EXCEPT !.open = TRUE, !.driver = "none",
                                                      !.read = mode = "ArcOpenReadOnly",
                                                      !.write = mode = "ArcOpenWriteOnly"]
      <4>1. table' = [table EXCEPT ![ConsoleFid(mode)] = e]
        BY <1>3 DEF AEOpenConsole
      <4> HIDE DEF e
      <4> QED BY <4>1
    <3>3. \A s \in Slots : s >= BOOT_FILEID => table'[s] = table[s]
      BY <1>1, <3>1, <3>2 DEF BOOT_FILEID, Slots
    <3>4. \A g \in Handles : handle[g].kind = "file" => handle'[g] = handle[g]
      BY <1>1, <3>1
    <3> QED BY <3>1, <3>3, <3>4
  <2> QED BY <1>1, <1>2, <2>1 DEF Accounted, FullOnlyWhenFull
<1>4. ASSUME NEW s \in Slots, CloseEntry(s), FreeHandle(h), reply' # Failed("full"),
             handle[h].kind = "file" => handle[h].fid = s
      PROVE  Accounted(table', handle') /\ FullOnlyWhenFull'
  <2>1. /\ ~table'[s].open /\ \A r \in Slots \ {s} : table'[r] = table[r]
        /\ \A g \in Handles \ {h} : handle'[g] = handle[g]
    <3>1. table[s] \in Entries
      BY <1>1
    <3> QED BY <1>1, <1>4, <3>1 DEF CloseEntry, FreeHandle, Entries
  <2> QED BY <1>1, <1>4, <2>1, Frees
<1>5. ASSUME AECloseDevice(h) PROVE Accounted(table', handle') /\ FullOnlyWhenFull'
  <2>1. handle[h].fid \in Slots /\ handle[h].kind = "device"
    BY <1>1, <1>5, InvMeans DEF AECloseDevice
  <2> QED BY <1>2, <1>4, <1>5, <2>1 DEF AECloseDevice
<1>6. ASSUME CloseFile(h) PROVE Accounted(table', handle') /\ FullOnlyWhenFull'
  BY <1>1, <1>2, <1>4, <1>6 DEF CloseFile
<1>7. ASSUME AECloseConsole(h) \/ LeaveDevice(h)
      PROVE  Accounted(table', handle') /\ FullOnlyWhenFull'
  <2>1. /\ table' = table /\ reply' = Done
        /\ \A g \in Handles : handle[g].kind = "file" => handle'[g] = handle[g]
    BY <1>1, <1>7 DEF AECloseConsole, LeaveDevice, FreeHandle
  <2> QED BY <1>1, <1>2, <2>1, Frees
<1>8. ASSUME NEW s \in Slots, NEW p, UNCHANGED handle, reply' # Failed("full"),
             table' = table \/ table' = [table EXCEPT ![s].position = p]
      PROVE  Accounted(table', handle') /\ FullOnlyWhenFull'
  <2>1. table[s] \in Entries
    BY <1>1
  <2>2. \A r \in Slots :
           table'[r].open = table[r].open /\ table'[r].driver = table[r].driver
    BY <1>1, <1>8, <2>1 DEF Entries
  <2> QED BY <1>1, <1>8, <2>2, Frees
<1>9. ASSUME NEW p \in 0 .. FileSize, ReadDevice(h, p)
      PROVE  Accounted(table', handle') /\ FullOnlyWhenFull'
  BY <1>1, <1>2, <1>9, Frees DEF ReadDevice
<1>10. ASSUME ReadFile(h) PROVE Accounted(table', handle') /\ FullOnlyWhenFull'
  <2> DEFINE s == handle[h].fid
  <2>1. s \in Slots
    BY <1>1, <1>10 DEF ReadFile
  <2>2. /\ UNCHANGED handle /\ reply' # Failed("full")
        /\ table' = table \/ table' = [table EXCEPT ![s].position = @ + 1]
    BY <1>2, <1>10 DEF ReadFile
  <2>3. [table EXCEPT ![s].position = @ + 1] = [table EXCEPT ![s].position = table[s].position + 1]
    OBVIOUS
  <2> HIDE DEF s
  <2> QED BY <1>8, <2>1, <2>2, <2>3
<1>11. ASSUME NEW p \in 0 .. (FileSize + 1), FatSeek(h, p)
       PROVE  Accounted(table', handle') /\ FullOnlyWhenFull'
  <2> DEFINE s == handle[h].fid
  <2>1. s \in Slots
    BY <1>1, <1>11 DEF FatSeek
  <2>2. /\ UNCHANGED handle /\ reply' # Failed("full")
        /\ table' = table \/ table' = [table EXCEPT ![s].position = p]
    BY <1>2, <1>11 DEF FatSeek
  <2> HIDE DEF s
  <2> QED BY <1>8, <2>1, <2>2
<1> QED BY <1>3, <1>5, <1>6, <1>7, <1>9, <1>10, <1>11

LEMMA NextCountInv == CountInv /\ [Next]_tablevars => CountInv'
<1> SUFFICES ASSUME CountInv, [Next]_tablevars PROVE CountInv'
  OBVIOUS
<1>1. Inv'
  BY NextInv DEF CountInv
<1>2. CASE UNCHANGED tablevars
  BY <1>1, <1>2 DEF tablevars, CountInv, Accounted, FullOnlyWhenFull, FilesHeld
<1>3. CASE BlIoInitialize
  <2>1. \A s \in Slots : ~table'[s].open
    <3>1. table \in [Slots -> Entries]
      BY InvMeans DEF CountInv
    <3>2. \A s \in Slots : table[s] \in Entries
      BY <3>1
    <3> QED BY <1>3, <3>2 DEF BlIoInitialize, Entries
  <2>2. reply' # Failed("full")
    BY <1>3 DEF BlIoInitialize, Done, Failed
  <2> QED BY <1>1, <2>1, <2>2 DEF CountInv, Accounted, FullOnlyWhenFull
<1>4. ASSUME NEW h \in Handles,
             \/ \E start \in Sectors : AEOpenDevice(h, start)
             \/ \E start \in FileSectors, file \in Files, mode \in FileModes :
                   AEOpenFile(h, start, file, mode)
             \/ \E g \in Handles, file \in Files : BlOpenFile(h, g, file)
      PROVE  CountInv'
  BY <1>1, <1>4, CountOpens DEF CountInv
<1>5. ASSUME NEW h \in Handles,
             \/ \E mode \in ConsoleModes : AEOpenConsole(h, mode)
             \/ AECloseConsole(h) \/ AECloseDevice(h) \/ LeaveDevice(h) \/ CloseFile(h)
             \/ \E p \in 0 .. FileSize : ReadDevice(h, p)
             \/ ReadFile(h)
             \/ \E p \in 0 .. (FileSize + 1) : FatSeek(h, p)
      PROVE  CountInv'
  BY <1>1, <1>5, CountOthers DEF CountInv
<1> QED BY <1>2, <1>3, <1>4, <1>5, Zenon DEF Next

LEMMA InitCountInv == Init => CountInv
<1> SUFFICES ASSUME Init PROVE CountInv
  OBVIOUS
<1>1. Inv
  BY InitInv
<1>2. Accounted(table, handle)
  <2>1. \A s \in Slots : table[s].open => s \in {0, 1}
    BY DEF Init, ZeroEntry
  <2> QED BY <2>1 DEF Accounted, BOOT_FILEID
<1>3. FullOnlyWhenFull
  BY DEF Init, Done, Failed, FullOnlyWhenFull
<1> QED BY <1>1, <1>2, <1>3 DEF CountInv

\* No call leaks an entry: an open is refused for want of one only when files
\* that are held and partitions of the disk fill the table, whatever was opened,
\* failed to open and was closed before.
THEOREM NoEntryLeaks == Spec => []FullOnlyWhenFull
<1>1. CountInv => FullOnlyWhenFull
  BY DEF CountInv
<1> QED BY <1>1, InitCountInv, NextCountInv, PTL DEF Spec

-----------------------------------------------------------------------------
(* The callers' view.                                                      *)

\* Opened, of any table and handle.
Seen(t, is) ==
    IF is.kind = "console" THEN [kind |-> "console", name |-> [mode |-> is.mode]]
    ELSE IF is.kind = "device" THEN [kind |-> "device", name |-> [start |-> is.start]]
    ELSE IF is.kind = "file"
    THEN [kind |-> "file", name |-> [start |-> is.start, file |-> is.file],
          position |-> t[is.fid].position]
    ELSE None

View(t, hs) == [h \in Handles |-> Seen(t, hs[h])]

LEMMA ViewIsOpened ==
    /\ [h \in Handles |-> Opened(h)] = View(table, handle)
    /\ ([h \in Handles |-> Opened(h)])' = View(table', handle')
BY DEF Opened, View, Seen

\* The handles' views with that of h replaced.
With(entered, h, shown) == [entered EXCEPT ![h] = shown]

\* No other handle than h, and no position of a file held in another, changes.
OthersKept(t, t2, hs, hs2, h) ==
    \A g \in Handles \ {h} :
       /\ hs2[g] = hs[g]
       /\ hs[g].kind = "file" => t2[hs[g].fid].position = t[hs[g].fid].position

\* The handle that is opened, given up or used is the only one whose view changes.
LEMMA ViewChanges ==
    ASSUME NEW t, NEW t2, NEW hs, NEW hs2, NEW h \in Handles,
           OthersKept(t, t2, hs, hs2, h)
    PROVE  View(t2, hs2) = With(View(t, hs), h, Seen(t2, hs2[h]))
<1>1. ASSUME NEW g \in Handles \ {h}
      PROVE  Seen(t2, hs2[g]) = Seen(t, hs[g])
  BY Zenon DEF OthersKept, Seen
<1>2. \A g \in Handles : View(t2, hs2)[g] = [View(t, hs) EXCEPT ![h] = Seen(t2, hs2[h])][g]
  BY <1>1 DEF View
<1> QED BY <1>2 DEF View, With

LEMMA SameView ==
    ASSUME NEW t, NEW t2, NEW hs,
           \A h \in Handles :
              hs[h].kind = "file" => t2[hs[h].fid].position = t[hs[h].fid].position
    PROVE  View(t2, hs) = View(t, hs)
<1>1. ASSUME NEW h \in Handles PROVE Seen(t2, hs[h]) = Seen(t, hs[h])
  BY Zenon DEF Seen
<1> QED BY <1>1 DEF View

LEMMA NoneSeen == \A t, is : Seen(t, is) = None <=> is.kind \notin {"console", "device", "file"}
BY DEF Seen, None

LEMMA FileSeen ==
    ASSUME NEW t, NEW hs, NEW h \in Handles, hs[h].kind = "file"
    PROVE  /\ View(t, hs)[h].kind = "file"
           /\ View(t, hs)[h].name = [start |-> hs[h].start, file |-> hs[h].file]
           /\ View(t, hs)[h].position = t[hs[h].fid].position
BY DEF View, Seen

\* What is seen of a file held in h, with its position set to p.
LEMMA FileMoved ==
    ASSUME NEW h \in Handles, handle[h].kind = "file", NEW p
    PROVE  [View(table, handle) EXCEPT ![h].position = p]
              = With(View(table, handle), h,
                     [kind |-> "file",
                      name |-> [start |-> handle[h].start, file |-> handle[h].file],
                      position |-> p])
<1> DEFINE shown == [kind |-> "file",
                    name |-> [start |-> handle[h].start, file |-> handle[h].file],
                    position |-> table[handle[h].fid].position]
<1>1. View(table, handle)[h] = shown
  BY DEF View, Seen
<1>2. [shown EXCEPT !.position = p]
         = [kind |-> "file", name |-> [start |-> handle[h].start, file |-> handle[h].file],
            position |-> p]
  OBVIOUS
<1>3. [View(table, handle) EXCEPT ![h].position = p]
         = [View(table, handle) EXCEPT ![h] = [shown EXCEPT !.position = p]]
  BY <1>1
<1> QED BY <1>2, <1>3 DEF With

-----------------------------------------------------------------------------
(* What a call does to the handles' entries, and to the context.           *)

\* AEDeviceOpen disturbs no file that is held.
LEMMA DeviceOpenView ==
    ASSUME NEW t, NEW hs, Good(t, hs), NEW start \in Sectors,
           NEW entered, entered = AEDeviceOpen(t, start)
    PROVE  \A h \in Handles : hs[h].kind = "file" =>
              entered.table[hs[h].fid].position = t[hs[h].fid].position
<1> DEFINE fid == Free(t, BOOT_FILEID)
           t2 == [t EXCEPT ![fid] = RamdiskEntry(start)]
<1>1. entered.table = t \/ (fid # NoSlot /\ entered.table = t2)
  <2>1. entered = IF SharedDevice(t, start) # NoSlot
                 THEN [table |-> t, fid |-> SharedDevice(t, start)]
                 ELSE IF fid = NoSlot THEN [table |-> t, fid |-> NoSlot]
                 ELSE [table |-> t2, fid |-> fid]
    BY Zenon DEF AEDeviceOpen
  <2> HIDE DEF t2, fid
  <2> QED BY <2>1
<1>2. BOOT_FILEID \in Nat
  BY DEF BOOT_FILEID
<1>3. fid # NoSlot => fid \in Slots /\ ~t[fid].open
  BY <1>2, FreeIsFree
<1>4. t \in [Slots -> Entries] /\ \A h \in Handles : hs[h] \in HandleTypes
  BY DEF Good
<1>5. \A h \in Handles : hs[h].kind = "file" => t[hs[h].fid].open /\ hs[h].fid \in Slots
  BY <1>4, HandleFields DEF Good, FileKept
<1>6. CASE entered.table = t2 /\ fid # NoSlot
  <2> HIDE DEF fid
  <2>1. \A s \in Slots : s # fid => t2[s] = t[s]
    BY <1>4
  <2> HIDE DEF t2
  <2> QED BY <1>3, <1>5, <1>6, <2>1
<1> QED BY <1>1, <1>6

\* An open of a file: it failed, whatever is mounted now, or the handle is the
\* file's, at position 0, and its volume is mounted.
LEMMA FileOpenView ==
    ASSUME NEW t, Good(t, handle), NEW fid \in Slots,
           NEW h \in Handles, handle[h] = None, NEW file \in Files, NEW mode,
           BlOpen(t, fid, h, file, mode)
    PROVE  \/ /\ View(table', handle') = View(t, handle)
              /\ reply' \in {Failed("error"), Failed("full")}
              /\ context' \in {context, Volume(t[fid].start), NoVolume}
           \/ /\ View(table', handle') =
                    [View(t, handle) EXCEPT ![h] =
                        [kind |-> "file", name |-> [start |-> t[fid].start, file |-> file],
                         position |-> 0]]
              /\ reply' = Done /\ context' = Volume(t[fid].start)
<1> DEFINE index == Free(t, 0)
           start == t[fid].start
           mounted == [t[index] EXCEPT !.driver = "fat", !.device = fid]
<1>1. /\ t \in [Slots -> Entries] /\ handle \in [Handles -> HandleTypes]
      /\ \A g \in Handles : handle[g].kind = "file" => t[handle[g].fid].open
  BY DEF Good, FileKept
<1>2. index # NoSlot => index \in Slots /\ ~t[index].open
  BY FreeIsFree
<1>3. CASE /\ index # NoSlot /\ table' = [t EXCEPT ![index].driver = "none"]
           /\ context' = NoVolume /\ reply' = Failed("error") /\ UNCHANGED handle
  <2> HIDE DEF index
  <2>1. \A g \in Handles :
           handle[g].kind = "file" => table'[handle[g].fid] = t[handle[g].fid]
    BY <1>1, <1>2, <1>3
  <2>2. View(table', handle) = View(t, handle)
    BY <2>1, SameView
  <2> QED BY <1>3, <2>2
<1>4. CASE index = NoSlot /\ table' = t /\ reply' = Failed("full") /\ UNCHANGED <<context, handle>>
  BY <1>4
<1>5. CASE /\ index # NoSlot /\ context' = Volume(start)
           /\ table' = [t EXCEPT ![index] = FatNotOpened(mounted, file)]
           /\ reply' = Failed("error") /\ UNCHANGED handle
  <2> HIDE DEF index, mounted
  <2>1. \A g \in Handles :
           handle[g].kind = "file" => table'[handle[g].fid] = t[handle[g].fid]
    BY <1>1, <1>2, <1>5
  <2>2. View(table', handle) = View(t, handle)
    BY <2>1, SameView
  <2> QED BY <1>5, <2>2
<1>6. CASE /\ index # NoSlot /\ context' = Volume(start)
           /\ table' = [t EXCEPT ![index] = FatOpened(mounted, file, mode)]
           /\ handle' = [handle EXCEPT ![h] = File(index, start, file)]
           /\ reply' = Done
  <2> DEFINE e == FatOpened(mounted, file, mode)
  <2>1. e.position = 0
    <3> HIDE DEF index
    <3>1. t[index] \in Entries
      BY <1>1, <1>2, <1>6
    <3>2. mounted \in Entries
      BY <3>1 DEF Entries
    <3> HIDE DEF mounted
    <3> QED BY <3>2 DEF FatOpened, Entries
  <2> HIDE DEF index, e, start
  <2>2. /\ table'[index] = e
        /\ \A g \in Handles : handle[g].kind = "file" => table'[handle[g].fid] = t[handle[g].fid]
    BY <1>1, <1>2, <1>6 DEF e
  <2>3. handle'[h] = File(index, start, file) /\ \A g \in Handles \ {h} : handle'[g] = handle[g]
    BY <1>1, <1>6
  <2>4. View(table', handle') = [View(t, handle) EXCEPT ![h] = Seen(table', handle'[h])]
    <3>1. OthersKept(t, table', handle, handle', h)
      BY <2>2, <2>3 DEF OthersKept
    <3>2. View(table', handle') = With(View(t, handle), h, Seen(table', handle'[h]))
      BY ONLY <3>1, h \in Handles, ViewChanges
    <3> QED BY <3>2 DEF With
  <2>5. Seen(table', handle'[h]) =
           [kind |-> "file", name |-> [start |-> start, file |-> file], position |-> 0]
    BY <2>1, <2>2, <2>3 DEF Seen, File
  <2> QED BY <1>6, <2>4, <2>5 DEF start
<1> QED BY <1>3, <1>4, <1>5, <1>6 DEF BlOpen

-----------------------------------------------------------------------------
(* The steps.                                                              *)

LEMMA StartsTheSame == Init => CallersView!Init
<1> SUFFICES ASSUME Init PROVE CallersView!Init
  OBVIOUS
<1>1. handle = [h \in Handles |-> None] /\ reply = Done /\ context = NoVolume
  BY DEF Init
<1>2. [h \in Handles |-> Opened(h)] = [h \in Handles |-> None]
  BY <1>1 DEF Opened, None
<1> QED BY <1>1, <1>2 DEF CallersView!Init, CallersView!None, CallersView!Done,
                         CallersView!NoVolume, None, Done, NoVolume

\* The view before and after a step, and what a failed call is.
LEMMA AbstractReplies ==
    /\ CallersView!None = None /\ CallersView!Done = Done /\ CallersView!End = End
    /\ CallersView!Failures = {Failed("error"), Failed("full")}
    /\ \A name, p : CallersView!Data(name, p) = Data(name, p)
    /\ \A c : CallersView!AsConsole(c) = [kind |-> "console", name |-> c]
    /\ \A d : CallersView!AsDevice(d) = [kind |-> "device", name |-> d]
    /\ \A f, p : CallersView!AsFile(f, p) = [kind |-> "file", name |-> f, position |-> p]
    /\ CallersView!NoVolume = NoVolume /\ CallersView!Garbled = Garbled
    /\ \A start, file :
          CallersView!VolumeOf([start |-> start, file |-> file]) = Volume(start)
BY DEF CallersView!None, CallersView!Done, CallersView!End, CallersView!Failures,
       CallersView!Failed, CallersView!Data, CallersView!AsConsole, CallersView!AsDevice,
       CallersView!AsFile, CallersView!NoVolume, CallersView!VolumeOf, CallersView!Garbled,
       None, Done, End, Failed, Data, NoVolume, Volume, Garbled

\* The abstract calls, with the view for what is opened.
LEMMA OpenRefines ==
    ASSUME NEW h \in Handles, NEW what, handle[h] = None,
           \/ /\ View(table', handle') = [View(table, handle) EXCEPT ![h] = what]
              /\ reply' = Done
           \/ /\ View(table', handle') = View(table, handle)
              /\ reply' \in {Failed("error"), Failed("full")}
    PROVE  CallersView!Open(h, what)
<1>1. View(table, handle)[h] = None
  BY DEF View, Seen, None
<1> QED BY <1>1, ViewIsOpened, AbstractReplies, Zenon DEF CallersView!Open

LEMMA OpensAreSteps ==
    ASSUME NEW h \in Handles
    PROVE  /\ \A mode \in ConsoleModes :
                 CallersView!Open(h, [kind |-> "console", name |-> [mode |-> mode]])
                     /\ context' = context => CallersView!Next
           /\ \A start \in Sectors :
                 CallersView!Open(h, [kind |-> "device", name |-> [start |-> start]])
                     /\ context' = context => CallersView!Next
           /\ \A start \in FileSectors, file \in Files :
                 /\ CallersView!Open(h, [kind |-> "file",
                                         name |-> [start |-> start, file |-> file],
                                         position |-> 0])
                 /\ reply' = Done => context' = Volume(start)
                 /\ reply' # Done => context' \in {context, Volume(start), NoVolume}
                 => CallersView!Next
<1>1. ASSUME NEW mode \in ConsoleModes,
             CallersView!Open(h, [kind |-> "console", name |-> [mode |-> mode]]),
             context' = context
      PROVE  CallersView!Next
  <2>1. [mode |-> mode] \in [mode : ConsoleModes]
    OBVIOUS
  <2>2. CallersView!Open(h, CallersView!AsConsole([mode |-> mode]))
    BY <1>1, AbstractReplies, Zenon
  <2> QED BY <1>1, <2>1, <2>2, Zenon DEF CallersView!Next
<1>2. ASSUME NEW start \in Sectors,
             CallersView!Open(h, [kind |-> "device", name |-> [start |-> start]]),
             context' = context
      PROVE  CallersView!Next
  <2>1. [start |-> start] \in [start : Sectors]
    OBVIOUS
  <2>2. CallersView!Open(h, CallersView!AsDevice([start |-> start]))
    BY <1>2, AbstractReplies, Zenon
  <2> QED BY <1>2, <2>1, <2>2, Zenon DEF CallersView!Next
<1>3. ASSUME NEW start \in FileSectors, NEW file \in Files,
             CallersView!Open(h, [kind |-> "file", name |-> [start |-> start, file |-> file],
                                  position |-> 0]),
             reply' = Done => context' = Volume(start),
             reply' # Done => context' \in {context, Volume(start), NoVolume}
      PROVE  CallersView!Next
  <2>1. [start |-> start, file |-> file] \in [start : FileSectors, file : Files]
    OBVIOUS
  <2> DEFINE f == [start |-> start, file |-> file]
  <2>2. CallersView!Open(h, CallersView!AsFile(f, 0))
    BY <1>3, AbstractReplies, Zenon
  <2>3. CallersView!VolumeOf(f) = Volume(start)
    BY AbstractReplies, Zenon
  <2>4. context' \in IF reply' = Done THEN {Volume(start)}
                     ELSE {context, Volume(start), NoVolume}
    BY <1>3
  <2> HIDE DEF f
  <2>5. CallersView!OpenFile(h, f)
    BY <2>2, <2>3, <2>4, AbstractReplies, Zenon DEF CallersView!OpenFile
  <2> QED BY <2>1, <2>5, Zenon DEF CallersView!Next, f
<1> QED BY <1>1, <1>2, <1>3

LEMMA CloseRefines ==
    ASSUME NEW h \in Handles, handle[h].kind \in {"console", "device", "file"},
           View(table', handle') = [View(table, handle) EXCEPT ![h] = None],
           reply' \in {Done, Failed("error"), Failed("full")}, context' = context
    PROVE  CallersView!Next
<1>1. View(table, handle)[h] # None
  <2>1. View(table, handle)[h] = Seen(table, handle[h])
    BY DEF View
  <2> QED BY <2>1, NoneSeen
<1>2. reply' \in {Done} \cup {Failed("error"), Failed("full")}
  OBVIOUS
<1>3. CallersView!Close(h)
  BY <1>1, <1>2, ViewIsOpened, AbstractReplies, Zenon DEF CallersView!Close
<1> QED BY <1>3, Zenon DEF CallersView!Next

LEMMA OpenConsoleRefines ==
    ASSUME Inv, NEW h \in Handles, NEW mode \in ConsoleModes, AEOpenConsole(h, mode)
    PROVE  CallersView!Next
<1> DEFINE s == ConsoleFid(mode)
           what == [kind |-> "console", name |-> [mode |-> mode]]
           e == [table[s] EXCEPT !.open = TRUE, !.driver = "none",
                                 !.read = mode = "ArcOpenReadOnly",
                                 !.write = mode = "ArcOpenWriteOnly"]
<1>1. /\ table \in [Slots -> Entries] /\ handle \in [Handles -> HandleTypes]
      /\ \A g \in Handles : handle[g].kind = "file" => handle[g].fid \in Slots
  BY InvMeans
<1>2. /\ handle[h] = None /\ table' = [table EXCEPT ![s] = e]
      /\ handle' = [handle EXCEPT ![h] = Console(mode)] /\ reply' = Done /\ context' = context
  BY DEF AEOpenConsole
<1>3. s \in Slots
  BY TableAssumption DEF ConsoleFid, Slots
<1> HIDE DEF s
<1>4. e.position = table[s].position
  <2>1. table[s] \in Entries
    BY <1>1, <1>3
  <2> QED BY <2>1 DEF Entries
<1> HIDE DEF e
<1>5. \A r \in Slots : table'[r].position = table[r].position
  BY <1>1, <1>2, <1>3, <1>4
<1>6. handle'[h] = Console(mode) /\ \A g \in Handles \ {h} : handle'[g] = handle[g]
  BY <1>1, <1>2
<1>7. View(table', handle') = [View(table, handle) EXCEPT ![h] = Seen(table', handle'[h])]
  <2>1. OthersKept(table, table', handle, handle', h)
    BY <1>1, <1>5, <1>6 DEF OthersKept
  <2>2. View(table', handle') = With(View(table, handle), h, Seen(table', handle'[h]))
    BY ONLY <2>1, h \in Handles, ViewChanges
  <2> QED BY <2>2 DEF With
<1>8. Seen(table', handle'[h]) = what
  BY <1>6 DEF Seen, Console
<1>9. CallersView!Open(h, what)
  BY <1>2, <1>7, <1>8, OpenRefines
<1> QED BY <1>2, <1>9, OpensAreSteps

LEMMA OpenDeviceRefines ==
    ASSUME Inv, NEW h \in Handles, NEW start \in Sectors, AEOpenDevice(h, start)
    PROVE  CallersView!Next
<1> DEFINE entered == AEDeviceOpen(table, start)
           what == [kind |-> "device", name |-> [start |-> start]]
<1>1. /\ Good(table, handle) /\ handle \in [Handles -> HandleTypes]
  BY InvMeans DEF Inv
<1>2. /\ table' = entered.table /\ handle[h] = None /\ context' = context
      /\ \/ entered.fid = NoSlot /\ handle' = handle /\ reply' = Failed("full")
         \/ /\ entered.fid # NoSlot /\ reply' = Done
            /\ handle' = [handle EXCEPT ![h] = Device(entered.fid, start)]
  BY DEF AEOpenDevice
<1>3. \A g \in Handles : handle[g].kind = "file" =>
         entered.table[handle[g].fid].position = table[handle[g].fid].position
  BY <1>1, DeviceOpenView
<1> HIDE DEF entered
<1>4. CASE handle' = handle /\ reply' = Failed("full")
  <2>1. View(table', handle') = View(table, handle)
    BY <1>2, <1>3, <1>4, SameView
  <2>2. CallersView!Open(h, what)
    BY <1>2, <1>4, <2>1, OpenRefines
  <2> QED BY <1>2, <2>2, OpensAreSteps
<1>5. CASE reply' = Done /\ handle' = [handle EXCEPT ![h] = Device(entered.fid, start)]
  <2>1. /\ handle'[h] = Device(entered.fid, start)
        /\ \A g \in Handles \ {h} : handle'[g] = handle[g]
    BY <1>1, <1>5
  <2>2. View(table', handle') = [View(table, handle) EXCEPT ![h] = Seen(table', handle'[h])]
    <3>1. OthersKept(table, table', handle, handle', h)
      BY <1>2, <1>3, <2>1 DEF OthersKept
    <3>2. View(table', handle') = With(View(table, handle), h, Seen(table', handle'[h]))
      BY ONLY <3>1, h \in Handles, ViewChanges
    <3> QED BY <3>2 DEF With
  <2>3. Seen(table', handle'[h]) = what
    BY <2>1 DEF Seen, Device
  <2>4. CallersView!Open(h, what)
    BY <1>2, <1>5, <2>2, <2>3, OpenRefines
  <2> QED BY <1>2, <2>4, OpensAreSteps
<1> QED BY <1>2, <1>4, <1>5

\* A file opened through a table that shows what the present one shows.
LEMMA FileOpenRefines ==
    ASSUME NEW t, Good(t, handle), View(t, handle) = View(table, handle),
           NEW fid \in Slots, t[fid].start \in FileSectors,
           NEW h \in Handles, handle[h] = None, NEW file \in Files, NEW mode,
           BlOpen(t, fid, h, file, mode)
    PROVE  CallersView!Next
<1> DEFINE start == t[fid].start
           what == [kind |-> "file", name |-> [start |-> start, file |-> file], position |-> 0]
<1>1. \/ /\ View(table', handle') = View(table, handle)
         /\ reply' \in {Failed("error"), Failed("full")}
         /\ context' \in {context, Volume(start), NoVolume}
      \/ /\ View(table', handle') = [View(table, handle) EXCEPT ![h] = what]
         /\ reply' = Done /\ context' = Volume(start)
  BY FileOpenView
<1> HIDE DEF what
<1>2. CallersView!Open(h, what)
  BY <1>1, OpenRefines
<1>3. /\ reply' = Done => context' = Volume(start)
      /\ reply' # Done => context' \in {context, Volume(start), NoVolume}
  BY <1>1 DEF Done, Failed
<1> HIDE DEF start
<1> QED BY <1>2, <1>3, OpensAreSteps DEF what, start

LEMMA OpenFileRefines ==
    ASSUME Inv, NEW h \in Handles, NEW start \in FileSectors, NEW file \in Files,
           NEW mode \in FileModes, AEOpenFile(h, start, file, mode)
    PROVE  CallersView!Next
<1> DEFINE entered == AEDeviceOpen(table, start)
           what == [kind |-> "file", name |-> [start |-> start, file |-> file], position |-> 0]
<1>1. Good(table, handle) /\ start \in Sectors
  BY TableAssumption DEF Inv
<1>2. /\ handle[h] = None
      /\ \/ entered.fid = NoSlot /\ reply' = Failed("full") /\ UNCHANGED <<table, context, handle>>
         \/ entered.fid # NoSlot /\ BlOpen(entered.table, entered.fid, h, file, mode)
  BY DEF AEOpenFile
<1>3. /\ Good(entered.table, handle)
      /\ entered.fid # NoSlot => /\ entered.fid \in Slots
                                /\ DeviceKept(entered.table, Device(entered.fid, start))
  BY <1>1, DeviceOpens
<1>4. View(entered.table, handle) = View(table, handle)
  BY <1>1, DeviceOpenView, SameView
<1> HIDE DEF entered
<1>5. CASE reply' = Failed("full") /\ UNCHANGED <<table, context, handle>>
  <2>1. CallersView!Open(h, what)
    BY <1>2, <1>5, OpenRefines
  <2>2. reply' # Done
    BY <1>5 DEF Done, Failed
  <2> QED BY <1>5, <2>1, <2>2, OpensAreSteps
<1>6. CASE entered.fid # NoSlot /\ BlOpen(entered.table, entered.fid, h, file, mode)
  <2>1. entered.table[entered.fid].start \in FileSectors
    BY <1>3, <1>6 DEF DeviceKept, Device
  <2> QED BY <1>1, <1>2, <1>3, <1>4, <1>6, <2>1, FileOpenRefines
<1> QED BY <1>2, <1>5, <1>6

LEMMA BlOpenFileRefines ==
    ASSUME Inv, NEW h \in Handles, NEW g \in Handles, NEW file \in Files,
           BlOpenFile(h, g, file)
    PROVE  CallersView!Next
<1>1. /\ Good(table, handle)
      /\ handle[h] = None /\ handle[g].kind = "device" /\ handle[g].start \in FileSectors
      /\ BlOpen(table, handle[g].fid, h, file, "ArcOpenReadOnly")
  BY DEF BlOpenFile, Inv
<1>2. handle[g].fid \in Slots /\ table[handle[g].fid].start = handle[g].start
  BY <1>1, InvMeans DEF Good, DeviceKept
<1> QED BY <1>1, <1>2, FileOpenRefines

-----------------------------------------------------------------------------

LEMMA ClosesRefine ==
    ASSUME Inv, NEW h \in Handles,
           AECloseConsole(h) \/ AECloseDevice(h) \/ LeaveDevice(h) \/ CloseFile(h)
    PROVE  CallersView!Next
<1>1. /\ table \in [Slots -> Entries] /\ handle \in [Handles -> HandleTypes]
      /\ \A g \in Handles : handle[g].kind = "file" => handle[g].fid \in Slots
      /\ \A g \in Handles : handle[g].kind = "device" => handle[g].fid \in Slots
  BY InvMeans
<1>2. /\ handle' = [handle EXCEPT ![h] = None] /\ context' = context
      /\ reply' \in {Done, Failed("error"), Failed("full")}
      /\ handle[h].kind \in {"console", "device", "file"}
      /\ table' = table \/ (handle[h].fid \in Slots /\ CloseEntry(handle[h].fid))
  BY <1>1 DEF AECloseConsole, AECloseDevice, LeaveDevice, CloseFile, FreeHandle
<1>3. \A s \in Slots : table'[s].position = table[s].position
  <2>1. CASE table' = table
    BY <2>1
  <2>2. CASE handle[h].fid \in Slots /\ CloseEntry(handle[h].fid)
    <3> DEFINE s == handle[h].fid
    <3>1. table[s] \in Entries
      BY <1>1, <2>2
    <3>2. [table[s] EXCEPT !.open = FALSE].position = table[s].position
      BY <3>1 DEF Entries
    <3>3. table' = [table EXCEPT ![s] = [table[s] EXCEPT !.open = FALSE]]
      BY <2>2 DEF CloseEntry
    <3> HIDE DEF s
    <3> QED BY <1>1, <3>2, <3>3
  <2> QED BY <1>2, <2>1, <2>2
<1>4. handle'[h] = None /\ \A g \in Handles \ {h} : handle'[g] = handle[g]
  BY <1>1, <1>2
<1>5. View(table', handle') = [View(table, handle) EXCEPT ![h] = Seen(table', handle'[h])]
  <2>1. OthersKept(table, table', handle, handle', h)
    BY <1>1, <1>3, <1>4 DEF OthersKept
  <2>2. View(table', handle') = With(View(table, handle), h, Seen(table', handle'[h]))
    BY ONLY <2>1, h \in Handles, ViewChanges
  <2> QED BY <2>2 DEF With
<1>6. Seen(table', handle'[h]) = None
  BY <1>4 DEF Seen, None
<1> QED BY <1>2, <1>5, <1>6, CloseRefines

LEMMA ReadDeviceRefines ==
    ASSUME Inv, NEW h \in Handles, NEW p \in 0 .. FileSize, ReadDevice(h, p)
    PROVE  CallersView!Next
<1>1. /\ handle[h].kind = "device" /\ reply' = Data([start |-> table[handle[h].fid].start], p)
      /\ UNCHANGED <<table, context, program, handle>>
  BY DEF ReadDevice
<1>2. table[handle[h].fid].start = handle[h].start
  BY <1>1 DEF Inv, Good, DeviceKept
<1>3. View(table, handle)[h].kind = "device" /\ View(table, handle)[h].name = [start |-> handle[h].start]
  BY <1>1 DEF View, Seen
<1>4. CallersView!ReadDevice(h, p)
  BY <1>1, <1>2, <1>3, ViewIsOpened, AbstractReplies, Zenon DEF CallersView!ReadDevice
<1> QED BY <1>4, Zenon DEF CallersView!Next

\* A position that moves is seen to move, by its holder and by nobody else.
LEMMA PositionMoves ==
    ASSUME Inv, NEW h \in Handles, handle[h].kind = "file", NEW p,
           table' = [table EXCEPT ![handle[h].fid].position = p], UNCHANGED handle
    PROVE  View(table', handle') = [View(table, handle) EXCEPT ![h].position = p]
<1> DEFINE s == handle[h].fid
<1>1. /\ table \in [Slots -> Entries] /\ s \in Slots
      /\ \A g \in Handles : handle[g].kind = "file" => handle[g].fid \in Slots
      /\ \A g \in Handles \ {h} : handle[g].kind = "file" => handle[g].fid # s
  BY InvMeans DEF Inv, Good
<1>2. table'[s].position = p /\ \A r \in Slots \ {s} : table'[r] = table[r]
  <2>1. table[s] \in Entries
    BY <1>1
  <2>2. [table[s] EXCEPT !.position = p].position = p
    BY <2>1 DEF Entries
  <2>3. table' = [table EXCEPT ![s] = [table[s] EXCEPT !.position = p]]
    OBVIOUS
  <2> HIDE DEF s
  <2> QED BY <1>1, <2>2, <2>3
<1>3. View(table', handle') = [View(table, handle) EXCEPT ![h] = Seen(table', handle'[h])]
  <2>1. OthersKept(table, table', handle, handle', h)
    BY <1>1, <1>2 DEF OthersKept
  <2>2. View(table', handle') = With(View(table, handle), h, Seen(table', handle'[h]))
    BY ONLY <2>1, h \in Handles, ViewChanges
  <2> QED BY <2>2 DEF With
<1> DEFINE what == [kind |-> "file",
                    name |-> [start |-> handle[h].start, file |-> handle[h].file],
                    position |-> p]
<1>4. Seen(table', handle'[h]) = what
  <2>1. handle'[h] = handle[h] /\ table'[handle[h].fid].position = p
    BY <1>2
  <2> QED BY ONLY handle[h].kind = "file", <2>1 DEF Seen
<1>5. [View(table, handle) EXCEPT ![h].position = p] = [View(table, handle) EXCEPT ![h] = what]
  BY ONLY handle[h].kind = "file", h \in Handles, FileMoved DEF With
<1> QED BY ONLY <1>3, <1>4, <1>5

LEMMA ReadFileRefines ==
    ASSUME Inv, NEW h \in Handles, ReadFile(h)
    PROVE  CallersView!Next
<1> DEFINE s == handle[h].fid
           entry == table[s]
           start == table[entry.device].start
           entered == View(table, handle)
<1>1. /\ handle[h].kind = "file" /\ UNCHANGED <<context, program, handle>>
      /\ \/ reply' = Failed("error") /\ UNCHANGED table
         \/ reply' = End /\ UNCHANGED table
         \/ /\ entry.position < FileSize
            /\ table' = [table EXCEPT ![s].position = @ + 1]
            /\ \/ reply' = Data([start |-> start, file |-> entry.file], entry.position)
               \/ context # Volume(start) /\ reply' = Garbled
  BY DEF ReadFile
<1>2. start = handle[h].start /\ entry.file = handle[h].file
  BY <1>1 DEF Inv, Good, FileKept
<1>3. /\ entered[h].kind = "file" /\ entered[h].position = entry.position
      /\ entered[h].name = [start |-> start, file |-> entry.file]
  <2>1. handle[h].kind = "file"
    BY <1>1
  <2>2. /\ View(table, handle)[h].kind = "file"
        /\ View(table, handle)[h].name = [start |-> handle[h].start, file |-> handle[h].file]
        /\ View(table, handle)[h].position = table[handle[h].fid].position
    BY ONLY <2>1, h \in Handles, FileSeen
  <2> QED BY ONLY <1>2, <2>2
<1>4. CallersView!VolumeOf(entered[h].name) = Volume(start)
  BY ONLY <1>3, AbstractReplies
<1>5. CASE reply' = Failed("error") /\ UNCHANGED table
  <2>1. CallersView!ReadFile(h)
    BY <1>1, <1>3, <1>5, ViewIsOpened, AbstractReplies DEF CallersView!ReadFile
  <2> QED BY <2>1, Zenon DEF CallersView!Next
<1>6. CASE reply' = End /\ UNCHANGED table
  <2>1. CallersView!ReadFile(h)
    BY <1>1, <1>3, <1>6, ViewIsOpened, AbstractReplies DEF CallersView!ReadFile
  <2> QED BY <2>1, Zenon DEF CallersView!Next
<1>7. CASE /\ entry.position < FileSize
           /\ table' = [table EXCEPT ![s].position = @ + 1]
           /\ \/ reply' = Data([start |-> start, file |-> entry.file], entry.position)
              \/ context # Volume(start) /\ reply' = Garbled
  <2>1. table' = [table EXCEPT ![s].position = entry.position + 1]
    BY <1>7
  <2>2. View(table', handle') = [entered EXCEPT ![h].position = entry.position + 1]
    BY <1>1, <2>1, PositionMoves
  <2>3. [entered EXCEPT ![h].position = entry.position + 1] = [entered EXCEPT ![h].position = @ + 1]
    BY <1>3
  <2> HIDE DEF entered
  <2>4. CallersView!ReadFile(h)
    <3>1. /\ \/ reply' = CallersView!Data(entered[h].name, entered[h].position)
             \/ /\ context # CallersView!VolumeOf(entered[h].name)
                /\ reply' = CallersView!Garbled
          /\ entered[h].position < FileSize /\ context' = context
      BY <1>1, <1>3, <1>4, <1>7, AbstractReplies
    <3> QED BY <1>3, <2>2, <2>3, <3>1, ViewIsOpened, Zenon DEF CallersView!ReadFile, entered
  <2> QED BY <2>4, Zenon DEF CallersView!Next
<1> QED BY <1>1, <1>5, <1>6, <1>7

LEMMA SeekRefines ==
    ASSUME Inv, NEW h \in Handles, NEW p \in 0 .. (FileSize + 1), FatSeek(h, p)
    PROVE  CallersView!Next
<1> DEFINE entered == View(table, handle)
<1>1. /\ handle[h].kind = "file" /\ UNCHANGED <<context, program, handle>>
      /\ \/ reply' = Failed("error") /\ UNCHANGED table
         \/ /\ ~(p > FileSize) /\ reply' = Done
            /\ table' = [table EXCEPT ![handle[h].fid].position = p]
  BY DEF FatSeek
<1>2. entered[h].kind = "file"
  <2>1. handle[h].kind = "file"
    BY <1>1
  <2>2. View(table, handle)[h].kind = "file"
    BY ONLY <2>1, h \in Handles DEF View, Seen
  <2> QED BY <2>2
<1>4. CASE reply' = Failed("error") /\ UNCHANGED table
  <2>1. CallersView!Seek(h, p)
    BY <1>1, <1>2, <1>4, ViewIsOpened, AbstractReplies DEF CallersView!Seek
  <2> QED BY <2>1, Zenon DEF CallersView!Next
<1>5. CASE /\ ~(p > FileSize) /\ reply' = Done
           /\ table' = [table EXCEPT ![handle[h].fid].position = p]
  <2>1. View(table', handle') = [entered EXCEPT ![h].position = p]
    BY <1>1, <1>5, PositionMoves
  <2>2. p <= FileSize
    BY <1>5, TableAssumption
  <2> HIDE DEF entered
  <2>3. CallersView!Seek(h, p)
    BY <1>1, <1>2, <1>5, <2>1, <2>2, ViewIsOpened, AbstractReplies, Zenon
      DEF CallersView!Seek, entered
  <2> QED BY <2>3, Zenon DEF CallersView!Next
<1> QED BY <1>1, <1>4, <1>5

LEMMA InitializeRefines ==
    ASSUME Inv, BlIoInitialize
    PROVE  CallersView!Next
<1>1. /\ \A h \in Handles : handle[h].kind # "file"
      /\ reply' = Done /\ UNCHANGED <<context, handle>>
  BY DEF BlIoInitialize
<1>2. View(table', handle') = View(table, handle)
  BY <1>1, SameView
<1>3. CallersView!Initialize
  BY <1>1, <1>2, ViewIsOpened, AbstractReplies DEF CallersView!Initialize
<1> QED BY <1>3, Zenon DEF CallersView!Next

LEMMA StepRefines ==
    ASSUME Inv, [Next]_tablevars
    PROVE  Inv' /\ [CallersView!Next]_(CallersView!vars)
<1>1. Inv'
  BY NextInv
<1>2. CASE UNCHANGED tablevars
  <2>1. View(table', handle') = View(table, handle) /\ reply' = reply /\ context' = context
    BY <1>2 DEF tablevars
  <2>2. UNCHANGED CallersView!vars
    BY <2>1, ViewIsOpened DEF CallersView!vars
  <2> QED BY <1>1, <2>2
<1>3. CASE Next
  <2>1. CallersView!Next
    BY <1>3, InitializeRefines, OpenConsoleRefines, OpenDeviceRefines, OpenFileRefines,
       BlOpenFileRefines, ClosesRefine, ReadDeviceRefines, ReadFileRefines, SeekRefines, Zenon
       DEF Next
  <2> QED BY <1>1, <2>1
<1> QED BY <1>2, <1>3

\* The firmware vector and the Bl I/O routines keep what FileHandles promises
\* their callers, for any number of handles, entries, partitions, volumes and
\* files: a handle stands for what it was opened as and its position moves by
\* its own calls only, whatever the others open, read and close meanwhile; and
\* while no file was opened on another partition since, what is read through it
\* is what was opened, at that position, or nothing.
THEOREM CallersSeeTheirFiles == Spec => ImplementsFileHandles
<1>1. Init => Inv /\ CallersView!Init
  BY InitInv, StartsTheSame
<1>2. Inv /\ [Next]_tablevars => Inv' /\ [CallersView!Next]_(CallersView!vars)
  BY StepRefines
<1> QED BY <1>1, <1>2, PTL DEF Spec, ImplementsFileHandles, CallersView!Spec


-----------------------------------------------------------------------------
(* The search for the keyboard, on a hub with any number of ports and with *)
(* any number of failing requests.                                         *)

Early == {"usb_init", "status"}
Reset == {"mps", "address"}
Named == {"header", "config", "select"}
Devices == {"none", "keyboard", "other"}

SearchTyped ==
    /\ hub \in Seq(Devices) /\ address \in [DOMAIN hub -> Int]
    /\ usb \in Early \union Reset \union Named \union {"done"}
    /\ probe \in [port : Nat \ {0}, addr : Nat \ {0}, buf : Seq(Int), sent : Nat, tries : Nat,
                  whole : BOOLEAN]
    /\ kbd \in [present : BOOLEAN, addr : Nat, hub_port : Nat, epRead : BOOLEAN]
    /\ trouble \in [failed : BOOLEAN, clash : BOOLEAN, restarted : BOOLEAN, dropped : BOOLEAN,
                    late : BOOLEAN]

\* No device has an address that is still to be given, and ports that were not reached
\* have none.
AddressesFresh ==
    \A p \in DOMAIN hub :
        /\ address[p] < probe.addr \/ (usb \in Named /\ address[p] = probe.addr)
        /\ p > probe.port => address[p] = Disabled
        /\ p = probe.port /\ usb \in Early => address[p] = Disabled

\* Without a failure the ports behind the search have no keyboard and nobody is left at
\* address 0.
NothingMissed ==
    /\ trouble.clash => trouble.failed
    /\ ~trouble.failed =>
          /\ usb \in Early => Answering(0) = {}
          /\ usb \in Reset => Answering(0) = {probe.port}
          /\ ~trouble.restarted =>
                \A p \in DOMAIN hub : p < probe.port => hub[p] # "keyboard"

\* The device that is asked is the one on the port of the search, alone at its address.
AskedAlone ==
    /\ usb \in Reset \union Named => probe.port \in DOMAIN hub
    /\ ~trouble.clash =>
          /\ usb \in Reset => Answering(0) \subseteq {probe.port}
          /\ usb \in Named => /\ Answering(0) = {} /\ Answering(probe.addr) = {probe.port}
                              /\ ~trouble.restarted => probe.whole
                              /\ usb = "select" /\ probe.whole => hub[probe.port] = "keyboard"

\* What has arrived are the packets in order, unless a stage was started over.
BufferInOrder ==
    ~trouble.restarted =>
        /\ Len(probe.buf) = probe.sent
        /\ \A i \in 1 .. probe.sent : probe.buf[i] = i

Searching == ~kbd.present /\ AddressesFresh /\ NothingMissed /\ AskedAlone /\ BufferInOrder

SearchGood == /\ SearchTyped
              /\ usb # "done" => Searching
              /\ usb = "done" => FoundIfThere

\* A probe that has not begun.
LEMMA NoProbeTyped ==
    NoProbe \in [port : Nat \ {0}, addr : Nat \ {0}, buf : Seq(Int), sent : Nat, tries : Nat,
                 whole : BOOLEAN]
<1>1. <<>> \in Seq(Int)
  OBVIOUS
<1> QED BY <1>1 DEF NoProbe, ADDR_KBD

\* The search starts with nobody at an address.
LEMMA SearchStartsGood == UsbInit => SearchGood
<1> SUFFICES ASSUME UsbInit PROVE SearchGood
  OBVIOUS
<1>1. hub \in Seq(Devices)
  BY KeyboardAssumption DEF UsbInit, Devices
<1>2. SearchTyped
  BY <1>1 DEF UsbInit, SearchTyped, NoProbe, NoTrouble, Disabled, ADDR_KBD, Early
<1>3. Answering(0) = {}
  BY DEF UsbInit, Answering, Disabled
<1>4. \A p \in DOMAIN hub : p \in Nat \ {0}
  BY <1>1
<1>5. AddressesFresh
  <2>1. \A p \in DOMAIN hub : address[p] = -1
    BY DEF UsbInit, Disabled
  <2>2. probe.addr = 2
    BY DEF UsbInit, NoProbe, ADDR_KBD
  <2> QED BY <2>1, <2>2 DEF AddressesFresh, Disabled
<1>6. NothingMissed
  BY <1>3, <1>4 DEF UsbInit, NothingMissed, NoProbe, NoTrouble, Early, Reset
<1>7. BufferInOrder
  BY DEF UsbInit, BufferInOrder, NoProbe
<1>8. Searching
  BY <1>3, <1>5, <1>6, <1>7 DEF UsbInit, Searching, AskedAlone, Reset, Named
<1> QED BY <1>2, <1>8 DEF UsbInit, SearchGood

\* Ports are numbers from 1.
LEMMA Ports == ASSUME SearchTyped PROVE \A p \in DOMAIN hub : p \in Nat \ {0}
BY DEF SearchTyped

\* One device at an address is one.
LEMMA OneAnswers == ASSUME NEW a, NEW p, Answering(a) = {p} PROVE Cardinality(Answering(a)) = 1
BY FS_Singleton

TroubleType == [failed : BOOLEAN, clash : BOOLEAN, restarted : BOOLEAN, dropped : BOOLEAN,
                late : BOOLEAN]

\* A fault is remembered, and changes nothing else of the history.
LEMMA FaultIsTrouble ==
    ASSUME SearchTyped, Fault
    PROVE /\ trouble' \in TroubleType /\ trouble'.failed
          /\ trouble'.clash = trouble.clash /\ trouble'.restarted = trouble.restarted
BY DEF SearchTyped, Fault, TroubleType

\* The search gives a port up and goes on with the next one and a fresh address; unless
\* something failed, there was no keyboard on it, and nobody is left at address 0.
LEMMA PortGivenUp ==
    ASSUME SearchGood, usb \in Reset \union Named, GiveUp, UNCHANGED <<hub, address, kbd>>,
           trouble' \in TroubleType, trouble.failed => trouble'.failed,
           trouble'.clash = trouble.clash, trouble'.restarted = trouble.restarted,
           ~trouble'.failed => Answering(0) = {},
           ~trouble'.failed /\ ~trouble.restarted => hub[probe.port] # "keyboard"
    PROVE SearchGood'
<1>1. SearchTyped /\ Searching /\ usb' = "status"
  BY DEF SearchGood, Reset, Named, GiveUp
<1>2. /\ probe' \in [port : Nat \ {0}, addr : Nat \ {0}, buf : Seq(Int), sent : Nat,
                     tries : Nat, whole : BOOLEAN]
      /\ probe'.port = probe.port + 1 /\ probe'.addr = probe.addr + 1
      /\ probe'.buf = <<>> /\ probe'.sent = 0
  <2>1. probe.port + 1 \in Nat \ {0} /\ probe.addr + 1 \in Nat \ {0}
    BY <1>1 DEF SearchTyped
  <2>2. probe' = [NoProbe EXCEPT !.port = probe.port + 1, !.addr = probe.addr + 1]
    BY DEF GiveUp, NextPort, NextAddress
  <2>3. NoProbe.buf = <<>> /\ NoProbe.sent = 0
    BY DEF NoProbe
  <2> QED BY <2>1, <2>2, <2>3, NoProbeTyped
<1>3. SearchTyped'
  BY <1>1, <1>2 DEF SearchTyped, TroubleType, Early
<1>4. \A p \in DOMAIN hub : p \in Nat \ {0}
  BY <1>1, Ports
<1>5. AddressesFresh'
  <2> SUFFICES ASSUME NEW p \in DOMAIN hub
               PROVE /\ address[p] < probe.addr + 1
                     /\ p > probe.port + 1 \/ p = probe.port + 1 => address[p] = Disabled
    BY <1>1, <1>2 DEF AddressesFresh
  <2>1. p \in Nat /\ address[p] \in Int /\ probe.addr \in Nat /\ probe.port \in Nat
    BY <1>1, <1>4 DEF SearchTyped
  <2>2. address[p] < probe.addr \/ address[p] = probe.addr
    BY <1>1 DEF Searching, AddressesFresh
  <2>3. p > probe.port => address[p] = Disabled
    BY <1>1 DEF Searching, AddressesFresh
  <2> QED BY <2>1, <2>2, <2>3
<1>6. NothingMissed'
  <2>1. trouble'.clash => trouble'.failed
    BY <1>1 DEF Searching, NothingMissed
  <2>2. Answering(0)' = Answering(0)
    BY DEF Answering
  <2>3. ASSUME ~trouble'.failed, ~trouble'.restarted, NEW p \in DOMAIN hub, p < probe.port + 1
        PROVE hub[p] # "keyboard"
    <3>1. p < probe.port \/ p = probe.port
      BY <1>1, <1>4, <2>3 DEF SearchTyped
    <3> QED BY <1>1, <2>3, <3>1 DEF Searching, NothingMissed
  <2> QED BY <1>1, <1>2, <2>1, <2>2, <2>3 DEF NothingMissed, Early, Reset
<1>7. BufferInOrder'
  BY <1>2 DEF BufferInOrder
<1>8. Searching'
  BY <1>1, <1>5, <1>6, <1>7 DEF Searching, AskedAlone, Reset, Named
<1> QED BY <1>1, <1>3, <1>8 DEF SearchGood

\* A request that fails leads to the next port.  When it failed because nobody or several
\* answered, something had failed before.
LEMMA FailureGivesUp ==
    ASSUME SearchGood, NEW a, Fails(a), GiveUp, UNCHANGED <<hub, address, kbd>>,
           \/ usb \in Reset /\ a = 0
           \/ usb \in Named /\ a = probe.addr
    PROVE SearchGood'
<1>1. SearchTyped /\ Searching
  BY DEF SearchGood, Reset, Named
<1>2. CASE Fault
  BY <1>1, <1>2, FaultIsTrouble, PortGivenUp
<1>3. CASE Cardinality(Answering(a)) # 1 /\ UNCHANGED <<trouble, events>>
  <2>1. trouble.failed
    <3>1. ASSUME ~trouble.failed PROVE Answering(a) = {probe.port}
      BY <1>1, <3>1 DEF Searching, NothingMissed, AskedAlone
    <3> QED BY <1>3, <3>1, OneAnswers
  <2> QED BY <1>1, <1>3, <2>1, PortGivenUp DEF SearchTyped, TroubleType
<1> QED BY <1>2, <1>3 DEF Fails, Fault

\* The search ends because of a fault: there is no keyboard.
LEMMA FaultEnds ==
    ASSUME SearchGood, usb # "done", NoMore, Fault, UNCHANGED <<hub, address, kbd>>
    PROVE SearchGood'
<1>1. SearchTyped /\ ~kbd.present
  BY DEF SearchGood, Searching
<1>2. SearchTyped'
  BY <1>1, FaultIsTrouble, NoProbeTyped DEF SearchTyped, NoMore, TroubleType
<1>3. FoundIfThere'
  BY <1>1, FaultIsTrouble DEF FoundIfThere
<1> QED BY <1>2, <1>3 DEF SearchGood, NoMore

\* The controller and the hub come up.
LEMMA BringUpGood == ASSUME SearchGood, BringUp PROVE SearchGood'
<1>1. CASE NoMore /\ Fault
  BY <1>1, FaultEnds DEF BringUp
<1>2. CASE usb' = "status" /\ UNCHANGED <<probe, trouble, events>>
  BY <1>2 DEF BringUp, SearchGood, SearchTyped, Searching, AddressesFresh, NothingMissed,
     AskedAlone, BufferInOrder, Answering, Early, Reset, Named
<1> QED BY <1>1, <1>2 DEF BringUp

\* A port is looked at, and reset when there is something on it.
LEMMA ProbePortGood == ASSUME SearchGood, ProbePort PROVE SearchGood'
<1>1. /\ SearchTyped /\ Searching /\ usb = "status" /\ UNCHANGED <<hub, kbd>>
      /\ \A p \in DOMAIN hub : p \in Nat \ {0}
  BY Ports DEF ProbePort, SearchGood
<1>2. CASE probe.port \notin DOMAIN hub /\ NoMore /\ UNCHANGED <<address, trouble, events>>
  <2>1. \A p \in DOMAIN hub : p < probe.port
    BY <1>1, <1>2 DEF SearchTyped
  <2>2. FoundIfThere'
    BY <1>1, <1>2, <2>1 DEF Searching, NothingMissed, FoundIfThere
  <2> QED BY <1>1, <1>2, <2>2, NoProbeTyped DEF SearchGood, SearchTyped, NoMore
<1>3. CASE NoMore /\ Fault /\ UNCHANGED address
  BY <1>1, <1>3, FaultEnds
<1>4. CASE /\ hub[probe.port] = "none" /\ probe' = [probe EXCEPT !.port = @ + 1]
           /\ UNCHANGED <<usb, address, trouble, events>>
  <2>1. /\ probe.port \in Nat \ {0} /\ probe'.port = probe.port + 1
        /\ probe'.addr = probe.addr /\ probe' \in [port : Nat \ {0}, addr : Nat \ {0},
              buf : Seq(Int), sent : Nat, tries : Nat, whole : BOOLEAN]
    <3>1. probe.port \in Nat \ {0} /\ probe.port + 1 \in Nat \ {0}
      BY <1>1 DEF SearchTyped
    <3> QED BY <1>1, <1>4, <3>1 DEF SearchTyped
  <2>2. SearchTyped'
    BY <1>1, <1>4, <2>1 DEF SearchTyped
  <2>3. AddressesFresh'
    BY <1>1, <1>4, <2>1 DEF Searching, AddressesFresh, Early
  <2>4. \A p \in DOMAIN hub : p < probe.port + 1 => p < probe.port \/ hub[p] = "none"
    BY <1>1, <1>4, <2>1
  <2>5. NothingMissed'
    BY <1>1, <1>4, <2>1, <2>4 DEF Searching, NothingMissed, Answering, Early, Reset
  <2> QED BY <1>1, <1>4, <2>2, <2>3, <2>5
          DEF SearchGood, Searching, AskedAlone, BufferInOrder, Reset, Named
<1>5. CASE /\ hub[probe.port] # "none" /\ usb' = "mps" /\ UNCHANGED probe
           /\ probe.port \in DOMAIN hub
           /\ \/ OneMore /\ UNCHANGED address
              \/ UNCHANGED events /\ address' = [address EXCEPT ![probe.port] = 0]
           /\ trouble' = [trouble EXCEPT !.clash = @ \/ Answering(0) # {},
                                         !.failed = @ \/ address' = address]
  <2>1. /\ trouble'.clash = (trouble.clash \/ Answering(0) # {})
        /\ trouble'.failed = (trouble.failed \/ address' = address)
        /\ trouble'.restarted = trouble.restarted /\ trouble' \in TroubleType
    BY <1>1, <1>5 DEF SearchTyped, TroubleType
  <2>2. /\ address' \in [DOMAIN hub -> Int]
        /\ \A p \in DOMAIN hub : p # probe.port => address'[p] = address[p]
        /\ address'[probe.port] = 0 \/ address' = address
        /\ address[probe.port] = -1
    BY <1>1, <1>5 DEF SearchTyped, Searching, AddressesFresh, Early, Disabled
  <2>3. SearchTyped'
    BY <1>1, <1>5, <2>1, <2>2 DEF SearchTyped, TroubleType, Reset
  <2>4. AddressesFresh'
    <3> SUFFICES ASSUME NEW p \in DOMAIN hub
                 PROVE /\ address'[p] < probe.addr
                       /\ p > probe.port => address'[p] = Disabled
      BY <1>1, <1>5 DEF AddressesFresh, Early
    <3>1. address[p] < probe.addr /\ 0 < probe.addr /\ p \in Nat /\ probe.port \in Nat
      BY <1>1 DEF SearchTyped, Searching, AddressesFresh, Named
    <3>2. p > probe.port => address[p] = Disabled
      BY <1>1 DEF Searching, AddressesFresh
    <3>3. p # probe.port => address'[p] = address[p]
      BY <2>2
    <3>4. address'[probe.port] < probe.addr
      BY <1>5, <2>2, <1>1, <3>1 DEF SearchTyped, Searching, AddressesFresh, Named
    <3> QED BY <3>1, <3>2, <3>3, <3>4
  <2>5. /\ Answering(0)' \subseteq Answering(0) \union {probe.port}
        /\ address' # address => probe.port \in Answering(0)'
    BY <1>1, <1>5, <2>2 DEF Answering
  <2>6. ~trouble'.failed => Answering(0)' = {probe.port}
    BY <1>1, <2>1, <2>5 DEF Searching, NothingMissed, Early
  <2>7. NothingMissed'
    <3>1. trouble'.clash => trouble'.failed
      BY <1>1, <2>1 DEF Searching, NothingMissed, Early, SearchTyped
    <3>2. ~trouble'.failed /\ ~trouble'.restarted =>
             \A p \in DOMAIN hub : p < probe.port => hub[p] # "keyboard"
      BY <1>1, <2>1 DEF Searching, NothingMissed, SearchTyped
    <3> QED BY <1>1, <1>5, <2>6, <3>1, <3>2 DEF NothingMissed, Early
  <2>8. AskedAlone'
    BY <1>1, <1>5, <2>1, <2>5 DEF AskedAlone, Reset, Named, SearchTyped
  <2> QED BY <1>1, <1>5, <2>3, <2>4, <2>7, <2>8 DEF SearchGood, Searching, BufferInOrder
<1> QED BY <1>2, <1>3, <1>4, <1>5 DEF ProbePort

\* The first question at address 0.
LEMMA GetMpsGood == ASSUME SearchGood, GetMps PROVE SearchGood'
<1>1. CASE Answering(0) # {} /\ usb' = "address" /\ UNCHANGED <<probe, trouble, events>>
  BY <1>1 DEF GetMps, SearchGood, SearchTyped, Searching, AddressesFresh, NothingMissed,
     AskedAlone, BufferInOrder, Answering, Early, Reset, Named
<1>2. CASE Fails(0) /\ GiveUp
  BY <1>2, FailureGivesUp DEF GetMps, Reset
<1> QED BY <1>1, <1>2 DEF GetMps

\* A new address, for whoever answers at 0.
LEMMA SetAddressGood == ASSUME SearchGood, SetAddress PROVE SearchGood'
<1>1. CASE Fails(0) /\ GiveUp /\ UNCHANGED address
  BY <1>1, FailureGivesUp DEF SetAddress, Reset
<1>2. CASE /\ Answering(0) # {} /\ usb' = "header"
           /\ address' = [p \in DOMAIN hub |-> IF address[p] = 0 THEN probe.addr ELSE address[p]]
           /\ probe' = [probe EXCEPT !.whole = Cardinality(Answering(0)) = 1]
           /\ UNCHANGED <<trouble, events>>
  <2>1. /\ SearchTyped /\ Searching /\ usb = "address" /\ UNCHANGED <<hub, kbd>>
        /\ probe.addr \in Nat \ {0}
    BY <1>2 DEF SetAddress, SearchGood, SearchTyped
  <2>2. /\ probe' \in [port : Nat \ {0}, addr : Nat \ {0}, buf : Seq(Int), sent : Nat,
                       tries : Nat, whole : BOOLEAN]
        /\ probe'.port = probe.port /\ probe'.addr = probe.addr
        /\ probe'.buf = probe.buf /\ probe'.sent = probe.sent
        /\ probe'.whole = (Cardinality(Answering(0)) = 1)
    BY <1>2, <2>1 DEF SearchTyped
  <2>3. SearchTyped'
    BY <1>2, <2>1, <2>2 DEF SearchTyped, Named
  <2>4. AddressesFresh'
    BY <1>2, <2>1, <2>2 DEF SearchTyped, Searching, AddressesFresh, Early, Named, Disabled
  <2>5. Answering(0)' = {}
    BY <1>2, <2>1 DEF Answering
  <2>6. Answering(probe.addr)' = Answering(0)
    BY <1>2, <2>1 DEF Searching, AddressesFresh, SearchTyped, Answering, Named
  <2>7. ~trouble.clash => Answering(0) = {probe.port}
    BY <1>2, <2>1 DEF Searching, AskedAlone, Reset
  <2>8. NothingMissed'
    BY <1>2, <2>1, <2>2 DEF Searching, NothingMissed, Early, Reset
  <2>9. AskedAlone'
    <3>1. ~trouble.clash => probe'.whole
      BY <2>2, <2>7, OneAnswers
    <3> QED BY <1>2, <2>1, <2>2, <2>5, <2>6, <2>7, <3>1
            DEF Searching, AskedAlone, Reset, Named
  <2>10. BufferInOrder'
    BY <1>2, <2>1, <2>2 DEF Searching, BufferInOrder
  <2> QED BY <1>2, <2>1, <2>3, <2>4, <2>8, <2>9, <2>10 DEF SearchGood, Searching
<1> QED BY <1>1, <1>2 DEF SetAddress

\* A step of the data stage changes the buffer only.
LEMMA StageGoesOn ==
    ASSUME SearchGood, InDataStage, UNCHANGED <<hub, usb, address, kbd>>,
           probe' \in [port : Nat \ {0}, addr : Nat \ {0}, buf : Seq(Int), sent : Nat,
                       tries : Nat, whole : BOOLEAN],
           probe'.port = probe.port, probe'.addr = probe.addr, probe'.whole = probe.whole,
           trouble' \in TroubleType, trouble'.failed = trouble.failed,
           trouble'.clash = trouble.clash, trouble.restarted => trouble'.restarted,
           BufferInOrder'
    PROVE SearchGood'
<1>1. SearchTyped /\ Searching /\ usb \in {"header", "config"}
  BY DEF SearchGood, InDataStage
<1>2. SearchTyped'
  BY <1>1 DEF SearchTyped, TroubleType
<1>3. AddressesFresh'
  BY <1>1 DEF Searching, AddressesFresh
<1>4. NothingMissed'
  BY <1>1 DEF Searching, NothingMissed, Early, Reset
<1>5. AskedAlone'
  <2>1. Answering(probe.addr)' = Answering(probe.addr) /\ Answering(0)' = Answering(0)
    BY DEF Answering
  <2> QED BY <1>1, <2>1 DEF Searching, AskedAlone, Reset, Named
<1> QED BY <1>1, <1>2, <1>3, <1>4, <1>5 DEF SearchGood, Searching

\* The next packet.
LEMMA PacketArrivesGood == ASSUME SearchGood, PacketArrives PROVE SearchGood'
<1>1. SearchTyped /\ Searching
  BY DEF SearchGood, PacketArrives, InDataStage
<1>2. probe.sent \in Nat /\ probe.sent + 1 \in Nat /\ probe.buf \in Seq(Int)
  BY <1>1 DEF SearchTyped
<1> DEFINE more == Append(probe.buf, probe.sent + 1)
<1>3. /\ more \in Seq(Int) /\ Len(more) = Len(probe.buf) + 1
      /\ \A i \in 1 .. Len(probe.buf) : more[i] = probe.buf[i]
      /\ more[Len(probe.buf) + 1] = probe.sent + 1
  BY <1>2
<1> HIDE DEF more
<1>4. /\ probe' \in [port : Nat \ {0}, addr : Nat \ {0}, buf : Seq(Int), sent : Nat,
                     tries : Nat, whole : BOOLEAN]
      /\ probe'.port = probe.port /\ probe'.addr = probe.addr /\ probe'.whole = probe.whole
      /\ probe'.buf = more /\ probe'.sent = probe.sent + 1
  <2>1. probe' = [probe EXCEPT !.sent = probe.sent + 1, !.buf = more]
    BY <1>1 DEF PacketArrives, SearchTyped, more
  <2> QED BY <1>1, <1>2, <1>3, <2>1 DEF SearchTyped
<1>5. BufferInOrder'
  BY <1>1, <1>2, <1>3, <1>4 DEF PacketArrives, Searching, BufferInOrder
<1> QED BY <1>1, <1>4, <1>5, StageGoesOn DEF PacketArrives, SearchTyped, TroubleType

\* The stage is started over.
LEMMA PacketPutOffGood == ASSUME SearchGood, PacketPutOff PROVE SearchGood'
<1>1. SearchTyped /\ Searching
  BY DEF SearchGood, PacketPutOff, InDataStage
<1>2. probe.tries + 1 \in Nat /\ <<>> \in Seq(Int)
  BY <1>1 DEF SearchTyped
<1>3. /\ probe' \in [port : Nat \ {0}, addr : Nat \ {0}, buf : Seq(Int), sent : Nat,
                     tries : Nat, whole : BOOLEAN]
      /\ probe'.port = probe.port /\ probe'.addr = probe.addr /\ probe'.whole = probe.whole
      /\ probe'.buf = <<>> /\ probe'.sent = probe.sent
  <2>1. probe' = [probe EXCEPT !.buf = <<>>, !.tries = probe.tries + 1]
    BY <1>1 DEF PacketPutOff, SearchTyped
  <2> QED BY <1>1, <1>2, <2>1 DEF SearchTyped
<1>4. /\ trouble' \in TroubleType /\ trouble'.failed = trouble.failed
      /\ trouble'.clash = trouble.clash
      /\ trouble'.restarted = (trouble.restarted \/ probe.buf # <<>>)
  BY <1>1 DEF PacketPutOff, SearchTyped, TroubleType
<1>5. BufferInOrder'
  BY <1>1, <1>3, <1>4 DEF Searching, BufferInOrder
<1> QED BY <1>1, <1>3, <1>4, <1>5, StageGoesOn DEF PacketPutOff

\* The answer is there: the descriptors are read, whole unless a stage was started over.
LEMMA StageDoneGood == ASSUME SearchGood, StageDone PROVE SearchGood'
<1> DEFINE whole == probe.whole /\ InOrder(probe.buf)
<1>1. /\ SearchTyped /\ Searching /\ usb \in {"header", "config"} /\ probe.sent = Packets
      /\ UNCHANGED <<hub, address, kbd, trouble>>
  BY DEF SearchGood, StageDone, InDataStage
<1>2. ~trouble.clash /\ ~trouble.restarted => whole
  <2>1. ASSUME ~trouble.restarted PROVE InOrder(probe.buf)
    <3>1. /\ probe.buf \in Seq(Int) /\ Len(probe.buf) = Packets
          /\ \A i \in 1 .. Packets : probe.buf[i] = i
      BY <1>1, <2>1 DEF SearchTyped, Searching, BufferInOrder
    <3>2. DOMAIN probe.buf = 1 .. Packets /\ probe.buf = [i \in 1 .. Packets |-> probe.buf[i]]
      BY <3>1
    <3> QED BY <3>1, <3>2 DEF InOrder
  <2> QED BY <1>1, <2>1 DEF Searching, AskedAlone, Named
<1>3. ~trouble.clash => Answering(probe.addr) = {probe.port} /\ Answering(0) = {}
  BY <1>1 DEF Searching, AskedAlone, Named
<1> HIDE DEF whole
<1>4. whole \in BOOLEAN
  BY <1>1 DEF whole, SearchTyped, InOrder
<1>5. PICK p \in Answering(probe.addr) :
          IF usb = "header"
          THEN usb' = "config" /\ probe' = [NoProbe EXCEPT !.port = probe.port,
                                                  !.addr = probe.addr, !.whole = whole]
          ELSE \/ /\ whole => hub[p] = "keyboard"
                  /\ usb' = "select" /\ probe' = [probe EXCEPT !.whole = whole]
               \/ (whole => hub[p] # "keyboard") /\ GiveUp
  BY DEF StageDone, whole
<1>6. ~trouble.clash => p = probe.port
  BY <1>3
<1>7. CASE (whole => hub[p] # "keyboard") /\ GiveUp
  <2>1. ~trouble.failed => ~trouble.clash
    BY <1>1 DEF Searching, NothingMissed
  <2> QED BY <1>1, <1>2, <1>3, <1>6, <1>7, <2>1, PortGivenUp DEF SearchTyped, TroubleType, Named
<1>8. ASSUME usb' \in {"config", "select"},
             probe' \in [port : Nat \ {0}, addr : Nat \ {0}, buf : Seq(Int), sent : Nat,
                         tries : Nat, whole : BOOLEAN],
             probe'.port = probe.port, probe'.addr = probe.addr, probe'.whole = whole,
             usb' = "select" /\ whole => hub[p] = "keyboard", BufferInOrder'
      PROVE SearchGood'
  <2>1. SearchTyped'
    BY <1>1, <1>8 DEF SearchTyped, Named
  <2>2. AddressesFresh'
    BY <1>1, <1>8 DEF Searching, AddressesFresh, Named, Early
  <2>3. NothingMissed'
    BY <1>1, <1>8 DEF Searching, NothingMissed, Early, Reset
  <2>4. Answering(probe.addr)' = Answering(probe.addr) /\ Answering(0)' = Answering(0)
    BY <1>1, <1>8 DEF Answering
  <2>5. AskedAlone'
    BY <1>1, <1>2, <1>3, <1>6, <1>8, <2>4 DEF Searching, AskedAlone, Reset, Named
  <2> QED BY <1>1, <1>8, <2>1, <2>2, <2>3, <2>5 DEF SearchGood, Searching
<1>9. CASE usb' = "config" /\ probe' = [NoProbe EXCEPT !.port = probe.port,
                                              !.addr = probe.addr, !.whole = whole]
  <2>1. probe.port \in Nat \ {0} /\ probe.addr \in Nat \ {0}
    BY <1>1 DEF SearchTyped
  <2>2. NoProbe.buf = <<>> /\ NoProbe.sent = 0
    BY DEF NoProbe
  <2>3. /\ probe' \in [port : Nat \ {0}, addr : Nat \ {0}, buf : Seq(Int), sent : Nat,
                       tries : Nat, whole : BOOLEAN]
        /\ probe'.port = probe.port /\ probe'.addr = probe.addr /\ probe'.whole = whole
        /\ probe'.buf = <<>> /\ probe'.sent = 0
    BY <1>4, <1>9, <2>1, <2>2, NoProbeTyped
  <2>4. BufferInOrder'
    BY <2>3 DEF BufferInOrder
  <2> QED BY <1>8, <1>9, <2>3, <2>4
<1>10. CASE /\ whole => hub[p] = "keyboard"
            /\ usb' = "select" /\ probe' = [probe EXCEPT !.whole = whole]
  <2>1. /\ probe' \in [port : Nat \ {0}, addr : Nat \ {0}, buf : Seq(Int), sent : Nat,
                       tries : Nat, whole : BOOLEAN]
        /\ probe'.port = probe.port /\ probe'.addr = probe.addr /\ probe'.whole = whole
        /\ probe'.buf = probe.buf /\ probe'.sent = probe.sent
    BY <1>1, <1>4, <1>10 DEF SearchTyped
  <2>2. BufferInOrder'
    BY <1>1, <2>1 DEF Searching, BufferInOrder
  <2> QED BY <1>8, <1>10, <2>1, <2>2
<1> QED BY <1>5, <1>7, <1>9, <1>10

\* The keyboard is taken.
LEMMA SelectGood == ASSUME SearchGood, SelectConfiguration PROVE SearchGood'
<1>1. /\ SearchTyped /\ Searching /\ usb = "select" /\ UNCHANGED <<hub, address>>
      /\ probe.addr \in Nat /\ probe.port \in Nat /\ probe.whole \in BOOLEAN
  BY DEF SearchGood, SelectConfiguration, SearchTyped
<1>2. CASE /\ NoMore /\ UNCHANGED <<trouble, events>>
           /\ kbd' = [present |-> TRUE, addr |-> probe.addr, hub_port |-> probe.port,
                      epRead |-> probe.whole]
  <2>1. SearchTyped'
    BY <1>1, <1>2, NoProbeTyped DEF SearchTyped, NoMore
  <2>2. Answering(kbd.addr)' = Answering(probe.addr)
    BY <1>1, <1>2 DEF Answering
  <2>3. ASSUME ~trouble.restarted, ~trouble.clash PROVE TheKeyboard'
    BY <1>1, <1>2, <2>2, <2>3 DEF Searching, AskedAlone, Named, TheKeyboard
  <2>4. FoundIfThere'
    BY <1>2, <2>3 DEF FoundIfThere
  <2> QED BY <1>2, <2>1, <2>4 DEF SearchGood, NoMore
<1>3. CASE Fails(probe.addr) /\ GiveUp /\ UNCHANGED kbd
  BY <1>1, <1>3, FailureGivesUp DEF Named
<1>4. CASE ~probe.whole /\ GiveUp /\ UNCHANGED <<kbd, trouble, events>>
  <2>1. trouble.failed \/ trouble.restarted
    BY <1>1, <1>4 DEF Searching, NothingMissed, AskedAlone, Named
  <2>2. ~trouble.failed => Answering(0) = {}
    BY <1>1 DEF Searching, NothingMissed, AskedAlone, Named
  <2> QED BY <1>1, <1>4, <2>1, <2>2, PortGivenUp DEF SearchTyped, TroubleType, Named
<1> QED BY <1>2, <1>3, <1>4 DEF SelectConfiguration

\* Every step of the search keeps the invariant.
LEMMA SearchStaysGood == ASSUME SearchGood, Search PROVE SearchGood'
<1>1. CASE RequestFails
  BY <1>1, FailureGivesUp DEF RequestFails, Named
<1> QED BY <1>1, BringUpGood, ProbePortGood, GetMpsGood, SetAddressGood, PacketArrivesGood,
        PacketPutOffGood, StageDoneGood, SelectGood DEF Search

\* What is typed, polled and read does not touch the search.
LEMMA ElsewhereStaysGood ==
    ASSUME SearchGood, UNCHANGED search, trouble' = trouble \/ trouble' \in TroubleType,
           trouble'.failed = trouble.failed, trouble'.clash = trouble.clash,
           trouble'.restarted = trouble.restarted
    PROVE SearchGood'
<1>1. UNCHANGED <<hub, usb, probe, address, kbd>>
  BY DEF search
<1>2. SearchTyped'
  BY <1>1 DEF SearchGood, SearchTyped, TroubleType
<1>3. \A a : Answering(a)' = Answering(a)
  BY <1>1 DEF Answering
<1>4. Searching => Searching'
  BY <1>1, <1>3 DEF Searching, AddressesFresh, NothingMissed, AskedAlone, BufferInOrder
<1>5. FoundIfThere => FoundIfThere'
  BY <1>1, <1>3 DEF FoundIfThere, TheKeyboard
<1> QED BY <1>1, <1>2, <1>4, <1>5 DEF SearchGood

-----------------------------------------------------------------------------
(* The loader.                                                             *)

\* The places of the names that are made last.
LEMMA FourNames == DOMAIN NameFields = {1, 2, 3, 4}
<1>1. DOMAIN NameFields = 1 .. 4
  BY DEF NameFields
<1>2. 1 .. 4 = {1, 2, 3, 4}
  OBVIOUS
<1> QED BY <1>1, <1>2

\* None of the steps that make the names is one of giving up.
LEMMA NamesAreNoFailures ==
    ASSUME NEW i \in DOMAIN NameFields
    PROVE  (IF i = Len(NameFields) THEN "disks" ELSE NameFields[i + 1])
              \notin {"BadFile", "LoadFailed"}
<1>1. CASE i = 1
  BY <1>1 DEF NameFields
<1>2. CASE i = 2
  BY <1>2 DEF NameFields
<1>3. CASE i = 3
  BY <1>3 DEF NameFields
<1>4. CASE i = 4
  BY <1>4 DEF NameFields
<1> QED BY <1>1, <1>2, <1>3, <1>4, FourNames

\* While a bad file is told and after, the loader has a failure, which is the last one.
Told ==
    /\ step = "BadFile" => /\ Status # "ESUCCESS" /\ culprit \notin {"nothing", "file system"}
                           /\ culprit # "memory" => badFile = culprit
    /\ step = "LoadFailed" => /\ culprit # "nothing"
                              /\ Status = "ESUCCESS" <=> culprit = "file system"
    /\ at = "halted" => /\ culprit # "nothing"
                        /\ Status = "ESUCCESS" <=> culprit = "file system"

\* The loader gives up only after a failure, and with one, unless the partition of the
\* kernel was not recognised any more, for which it returns success; and when it names a
\* file it is the file that was bad, unless there was no memory for it.
THEOREM FailuresTold == BootSpec => []NamesTheBadFile
<1>1. BootInit => Told
  BY DEF BootInit, UsbInit, MenuInit, LoaderInit, Told
<1>2. Told /\ [Main \/ Clock \/ User]_vars => Told'
  <2> SUFFICES ASSUME Told, Main \/ Clock \/ User \/ UNCHANGED vars PROVE Told'
    OBVIOUS
  <2>1. CASE UNCHANGED vars
    BY <2>1 DEF vars, usbvars, menuvars, loadervars, Told
  <2>2. CASE Clock
    BY <2>2 DEF Clock, SecondPasses, loadervars, Told
  <2>3. CASE User
    BY <2>3 DEF User, UserTypes, loadervars, Told
  <2>4. CASE Search /\ UNCHANGED <<menuvars, loadervars>>
    BY <2>4 DEF menuvars, loadervars, Told
  <2>5. CASE MenuSteps /\ UNCHANGED loadervars
    BY <2>5 DEF MenuSteps, MenuStatus, ReadStatus, MenuRead, NextSecond, LeaveMenu, StartMenu,
       loadervars, Told
  <2>6. CASE LoadNt /\ UNCHANGED <<search, typing, trouble, menuvars>>
    <3> USE DEF Told, At, Proceed, Fatal, SomethingFails, AllWell, menuvars
    <3>0. at' = at
      BY <2>6
    <3>1. CASE OpenConsoles \/ InitializeMemory \/ InitializeFiles
      BY <3>0, <3>1 DEF OpenConsoles, InitializeMemory, InitializeFiles
    <3>2. CASE CopyComponent \/ ConfigurationCopied \/ CopyLoadOptions \/ OpenDevices
      BY <3>0, <3>2 DEF CopyComponent, ConfigurationCopied, CopyLoadOptions, OpenDevices
    <3>3. CASE LoadKernel \/ LoadHal \/ MakeEntries \/ ScanImports \/ AllocateNlsBlock
      BY <3>0, <3>3 DEF LoadKernel, UnknownFileSystem, LoadHal, LoadImage, MakeEntries,
         ScanImports, AllocateNlsBlock
    <3>4. CASE OpenHive \/ ReadHive \/ CheckHive \/ ScanHive
      BY <3>0, <3>4 DEF OpenHive, ReadHive, CheckHive, ScanHive, HiveRejected, BadFile
    <3>5. CASE LoadNls
      <4>1. PICK f \in NlsFiles : SizeNlsFile(f) \/ OpenNlsFile(f) \/ ReadNlsFile(f)
        BY <3>5 DEF LoadNls
      <4>2. /\ f \in {"ansi", "oem", "language"}
            /\ AfterSize[f] \notin {"BadFile", "LoadFailed"}
            /\ Read[f] \notin {"BadFile", "LoadFailed"}
            /\ AfterRead[f] \notin {"BadFile", "LoadFailed"}
        <5>1. CASE f = "ansi"
          BY <5>1 DEF AfterSize, AfterRead, Size, Open, Read
        <5>2. CASE f = "oem"
          BY <5>2 DEF AfterSize, AfterRead, Size, Open, Read
        <5>3. CASE f = "language"
          BY <5>3 DEF AfterSize, AfterRead, Size, Open, Read
        <5> QED BY <5>1, <5>2, <5>3 DEF NlsFiles
      <4>3. CASE SizeNlsFile(f)
        BY <3>0, <4>2, <4>3 DEF SizeNlsFile, BadFile
      <4>4. CASE OpenNlsFile(f)
        BY <3>0, <4>2, <4>4 DEF OpenNlsFile, BadFile, FileName
      <4>5. CASE ReadNlsFile(f)
        BY <3>0, <4>2, <4>5 DEF ReadNlsFile, BadFile
      <4> QED BY <4>1, <4>3, <4>4, <4>5
    <3>9. CASE AllocateNls
      BY <3>0, <3>9 DEF AllocateNls, BadFile
    <3>6. CASE OpenFont \/ ReadFont
      BY <3>0, <3>6 DEF OpenFont, ReadFont, BadFile, NameFields
    <3>7. CASE ReadDisk \/ SetupForNt
      BY <3>0, <3>7 DEF ReadDisk, SetupForNt
    <3>8. CASE \E i \in DOMAIN NameFields : MakeName(i)
      <4>1. PICK i \in DOMAIN NameFields : MakeName(i)
        BY <3>8
      <4>2. /\ step' = IF i = Len(NameFields) THEN "disks" ELSE NameFields[i + 1]
            /\ at = "loader"
        BY <4>1 DEF MakeName
      <4>3. step' \notin {"BadFile", "LoadFailed"}
        BY ONLY <4>2, i \in DOMAIN NameFields, NamesAreNoFailures
      <4> QED BY <3>0, <4>2, <4>3
    <3> QED BY <2>6, <3>1, <3>2, <3>3, <3>4, <3>5, <3>6, <3>7, <3>8, <3>9 DEF LoadNt
  <2>7. CASE (BreakInStatus \/ BreakInKey) /\ UNCHANGED Spare
    BY <2>7 DEF BreakInStatus, BreakInKey, ReadStatus, At, Spare, Told
  <2>8. CASE EndLoader /\ UNCHANGED <<usbvars, remaining, over, choice, uart, seen, Spare>>
    BY <2>8 DEF EndLoader, At, Spare, Told
  <2> QED BY <2>1, <2>2, <2>3, <2>4, <2>5, <2>6, <2>7, <2>8 DEF Main
<1>3. Told => NamesTheBadFile
  BY DEF Told, NamesTheBadFile, At
<1> QED BY <1>1, <1>2, <1>3, PTL DEF BootSpec

------------------------------------------------------------------------------
(* The loader block when the kernel is entered.  The invariant says for each  *)
(* thing the kernel finds at which steps it is there: these sets of steps,    *)
(* from the last back, each holding the one before.                           *)

SetUpDone == {"transfer", "kernel"}
DisksRead == {"set-up"} \union SetUpDone
HalPathMade == {"disks"} \union DisksRead
HalDeviceMade == {"NtHalPathName"} \union HalPathMade
BootPathMade == {"ArcHalDeviceName"} \union HalDeviceMade
BootDeviceMade == {"NtBootPathName"} \union BootPathMade
FontLoaded == {"ArcBootDeviceName"} \union BootDeviceMade
NlsPlaced == {"open ansi", "read ansi", "open oem", "read oem", "open language",
              "read language", "open font", "read font"} \union FontLoaded
HiveScanned == {"size ansi", "size oem", "size language", "nls memory"} \union NlsPlaced
HiveAccepted == {"scan hive"} \union HiveScanned
HiveRead == {"check hive"} \union HiveAccepted
NlsBlockThere == {"open hive", "read hive"} \union HiveRead
EntriesMade == {"imports", "nls block"} \union NlsBlockThere
OptionsCopied == {"devices", "break-in", "break-in key", "kernel image", "hal image",
                  "entries"} \union EntriesMade
TreeCopied == {"options"} \union OptionsCopied
BeforeTree == {"consoles", "memory", "files"}

Steps == BeforeTree \union {"configuration"} \union TreeCopied

\* What may be open at a step.
MayBeOpen ==
    CASE step = "read hive" -> {"partition", hive.tried}
      [] step = "read ansi" -> {"partition", "ansi"}
      [] step = "read oem" -> {"partition", "oem"}
      [] step = "read language" -> {"partition", "language"}
      [] step = "read font" -> {"partition", "font"}
      [] step \in DisksRead -> {"partition", "disk"}
      [] OTHER -> {"partition"}
OpenInv == step \in Steps => opened \subseteq MayBeOpen

\* The hive is the file tried last, once that is read.
HiveInv ==
    /\ hive \in [tried : {"system", "system.alt"}, base : {"none", "system", "system.alt"},
                 accepted : {"none", "system", "system.alt"}]
    /\ step \in HiveRead => hive.base = hive.tried
    /\ step \in HiveAccepted => hive.accepted = hive.base

\* The copy of the tree grows along the firmware's, and is whole from "options" on.
Components == {"arc", "multi", "disk", "rdisk"}
TreeInv ==
    /\ step \in BeforeTree => tree = <<>>
    /\ step = "configuration" =>
          /\ tree \in Seq(Components) /\ Len(tree) <= 4
          /\ \A i \in 1 .. Len(tree) : tree[i] = FirmwareTree[i]
          /\ Len(tree) = 0 \/ "ConfigurationRoot" \in block
    /\ step \in TreeCopied => tree = FirmwareTree /\ "ConfigurationRoot" \in block

\* The fields that are filled whatever is ignored.
BlockInv ==
    /\ step \in EntriesMade => "LoadOrderList" \in block
    /\ step \in NlsBlockThere => "NlsData" \in block
    /\ step \in HiveRead => "RegistryBase" \in block
    /\ step \in HiveScanned => "BootDriverList" \in block
    /\ step \in NlsPlaced => "NlsTables" \in block
    /\ step \in FontLoaded => "OemFontFile" \in block
    /\ step \in SetUpDone => {"KernelStack", "FrameBuffer"} \subseteq block

\* Those that may be missing when a failure was ignored.
UncheckedInv ==
    \/ ignored
    \/ /\ step \in OptionsCopied => "LoadOptions" \in block
       /\ step \in BootDeviceMade => "ArcBootDeviceName" \in block
       /\ step \in BootPathMade => "NtBootPathName" \in block
       /\ step \in HalDeviceMade => "ArcHalDeviceName" \in block
       /\ step \in HalPathMade => "NtHalPathName" \in block
       /\ step \in DisksRead => /\ "ArcDiskInformation" \in block
                                /\ <<"multi", "disk", "rdisk">> \in disks

\* The kernel is entered by the last step, without a failure.
EntryInv ==
    /\ at = "kernel" => step = "kernel"
    /\ step \in SetUpDone => Status = "ESUCCESS"

BlockReady == OpenInv /\ HiveInv /\ TreeInv /\ BlockInv /\ UncheckedInv /\ EntryInv

\* Three elements of a sequence, from the first or the second.
LEMMA ThreeOf ==
    ASSUME NEW S, NEW s \in Seq(S), NEW m \in {1, 2}, m + 2 <= Len(s)
    PROVE SubSeq(s, m, m + 2) = <<s[m], s[m + 1], s[m + 2]>>
<1> DEFINE part == SubSeq(s, m, m + 2)  a == s[m]  b == s[m + 1]  c == s[m + 2]
<1>1. part \in Seq(S) /\ Len(part) = 3 /\ part[1] = a /\ part[2] = b /\ part[3] = c
  OBVIOUS
<1>2. a \in S /\ b \in S /\ c \in S
  OBVIOUS
<1> HIDE DEF part, a, b, c
<1>3. <<a, b, c>> \in Seq(S) /\ Len(<<a, b, c>>) = 3
  BY <1>2
<1>4. \A i \in 1 .. 3 : part[i] = <<a, b, c>>[i]
  BY <1>1
<1>5. part = <<a, b, c>>
  BY <1>1, <1>3, <1>4
<1> QED BY <1>5 DEF part, a, b, c

\* The four components of the firmware's tree.
LEMMA TreeOfFour == FirmwareTree \in Seq(Components) /\ Len(FirmwareTree) = 4
<1>1. FirmwareTree \in Seq(Components)
  BY DEF FirmwareTree, Components
<1>2. Len(FirmwareTree) = 4
  BY DEF FirmwareTree
<1> QED BY <1>1, <1>2

\* The next element of a sequence, at the end of a shorter one that begins like it.
LEMMA AppendNext ==
    ASSUME NEW S, NEW s \in Seq(S), NEW t \in Seq(S), Len(s) < Len(t),
           \A i \in 1 .. Len(s) : s[i] = t[i]
    PROVE LET u == Append(s, t[Len(s) + 1])
          IN /\ u \in Seq(S) /\ Len(s) \in Nat /\ Len(u) = Len(s) + 1
             /\ \A i \in 1 .. Len(u) : u[i] = t[i]
<1>1. t[Len(s) + 1] \in S
  OBVIOUS
<1> QED BY <1>1

\* Sequences of the same elements are the same.
LEMMA SameSequence ==
    ASSUME NEW S, NEW s \in Seq(S), NEW t \in Seq(S), Len(s) = Len(t),
           \A i \in 1 .. Len(s) : s[i] = t[i]
    PROVE s = t
OBVIOUS

\* A copy of four components is the whole tree.
LEMMA WholeTree ==
    ASSUME tree \in Seq(Components), Len(tree) = 4,
           \A i \in 1 .. Len(tree) : tree[i] = FirmwareTree[i]
    PROVE tree = FirmwareTree
BY TreeOfFour, SameSequence

\* The only disk of the firmware's tree is named without the root.
LEMMA OneDisk ==
    ASSUME tree = FirmwareTree, NEW n \in DOMAIN tree, tree[n] = "rdisk"
    PROVE PathName(n) = <<"multi", "disk", "rdisk">>
<1>1. n = 4
  BY DEF FirmwareTree
<1>2. tree \in Seq({"arc", "multi", "disk", "rdisk"})
  BY DEF FirmwareTree
<1>3. Len(tree) = 4 /\ tree[2] = "multi" /\ tree[3] = "disk" /\ tree[4] = "rdisk"
  BY DEF FirmwareTree
<1>4. SubSeq(tree, 2, 2 + 2) = <<tree[2], tree[2 + 1], tree[2 + 2]>>
  BY <1>2, <1>3, ThreeOf
<1> QED BY <1>1, <1>3, <1>4 DEF PathName

\* The tokens of the load partition.
LEMMA Tokens ==
    /\ LoadPartition \in Seq({"multi", "disk", "rdisk", "partition(1)"})
    /\ Len(LoadPartition) = 4
    /\ LoadPartition[1] = "multi" /\ LoadPartition[2] = "disk"
    /\ LoadPartition[3] = "rdisk" /\ LoadPartition[4] = "partition(1)"
BY DEF LoadPartition

\* The boot device is a partition of that disk.
LEMMA BootDeviceIsOnIt == IsPrefix(<<"multi", "disk", "rdisk">>, BootDeviceName)
<1> DEFINE controller == CHOOSE i \in 1 .. Len(LoadPartition) + 1 :
              /\ i > Len(LoadPartition) \/ LoadPartition[i] \notin AdapterTypes
              /\ \A j \in 1 .. i - 1 : LoadPartition[j] \in AdapterTypes
<1>1. controller = 2
  <2>1. \A i \in 1 .. Len(LoadPartition) + 1 :
            (/\ i > Len(LoadPartition) \/ LoadPartition[i] \notin AdapterTypes
             /\ \A j \in 1 .. i - 1 : LoadPartition[j] \in AdapterTypes) <=> i = 2
    BY Tokens DEF AdapterTypes
  <2>2. 2 \in 1 .. Len(LoadPartition) + 1
    BY Tokens
  <2> QED BY <2>1, <2>2
<1>2. SubSeq(LoadPartition, 2, Len(LoadPartition)) = <<"disk", "rdisk", "partition(1)">>
  <2>1. SubSeq(LoadPartition, 2, 2 + 2)
           = <<LoadPartition[2], LoadPartition[2 + 1], LoadPartition[2 + 2]>>
    BY Tokens, ThreeOf
  <2> QED BY <2>1, Tokens
<1>3. BootDeviceName = LoadPartition
  <2> DEFINE rest == SubSeq(LoadPartition, controller, Len(LoadPartition))
             whole == {<<"disk", "fdisk">>, <<"cdrom", "fdisk">>,
                       <<"disk", "rdisk", "partition(1)">>}
  <2>1. BootDeviceName = IF controller = 1 THEN <<>>
                         ELSE IF rest \in whole THEN LoadPartition
                         ELSE IF rest = <<"disk", "rdisk">>
                              THEN Append(LoadPartition, "partition(1)")
                         ELSE <<>>
    BY Zenon DEF BootDeviceName, GenerateDeviceName
  <2>2. rest \in whole
    BY <1>1, <1>2, Zenon
  <2> HIDE DEF controller, rest, whole
  <2> QED BY <1>1, <2>1, <2>2
<1>4. SubSeq(LoadPartition, 1, 1 + 2)
         = <<LoadPartition[1], LoadPartition[1 + 1], LoadPartition[1 + 2]>>
  BY Tokens, ThreeOf
<1> DEFINE disk == <<"multi", "disk", "rdisk">>
<1>5. /\ disk \in Seq({"multi", "disk", "rdisk"}) /\ Len(disk) = 3
      /\ disk[1] = "multi" /\ disk[2] = "disk" /\ disk[3] = "rdisk"
  OBVIOUS
<1> HIDE DEF disk
<1>6. SubSeq(disk, 1, 1 + 2) = <<disk[1], disk[1 + 1], disk[1 + 2]>>
  BY <1>5, ThreeOf
<1> QED BY <1>3, <1>4, <1>5, <1>6, Tokens DEF IsPrefix, disk

\* Every step of the loader keeps the invariant, action by action.
LEMMA LoaderKeepsBlock ==
    ASSUME BlockReady, LoadNt, at' = at
    PROVE BlockReady'
<1> USE DEF At, Proceed, Fatal, SomethingFails, AllWell, Filled, FilledUnchecked, BadFile,
      BlockReady, OpenInv, HiveInv, TreeInv, BlockInv, UncheckedInv, EntryInv, MayBeOpen,
      Steps, BeforeTree, TreeCopied, OptionsCopied, EntriesMade, NlsBlockThere, HiveRead,
      HiveAccepted, HiveScanned, NlsPlaced, FontLoaded, BootDeviceMade, BootPathMade,
      HalDeviceMade, HalPathMade, DisksRead, SetUpDone
<1>1. CASE OpenConsoles
  BY <1>1 DEF OpenConsoles
<1>2. CASE InitializeMemory
  BY <1>2 DEF InitializeMemory
<1>3. CASE InitializeFiles
  BY <1>3 DEF InitializeFiles
<1>4. CASE CopyComponent
  <2>1. CASE /\ step = "configuration" /\ step' = "LoadFailed"
             /\ UNCHANGED <<tree, block, disks, opened, hive>>
    BY <2>1
  <2>2. CASE /\ tree' = Append(tree, FirmwareTree[Len(tree) + 1])
             /\ step = "configuration" /\ step' = step /\ Len(tree) < 4
             /\ "ConfigurationRoot" \in block' /\ UNCHANGED <<opened, hive, disks>>
    <3>1. /\ tree \in Seq(Components) /\ Len(tree) < Len(FirmwareTree)
          /\ \A i \in 1 .. Len(tree) : tree[i] = FirmwareTree[i]
      BY <2>2, TreeOfFour
    <3>2. /\ tree' \in Seq(Components) /\ Len(tree') = Len(tree) + 1 /\ Len(tree) \in Nat
          /\ \A i \in 1 .. Len(tree') : tree'[i] = FirmwareTree[i]
      BY <2>2, <3>1, TreeOfFour, AppendNext
    <3> QED BY <2>2, <3>2
  <2> QED BY <1>4, <2>1, <2>2, TreeOfFour DEF CopyComponent
<1>5. CASE ConfigurationCopied
  <2>1. /\ tree \in Seq(Components) /\ Len(tree) = 4
        /\ \A i \in 1 .. Len(tree) : tree[i] = FirmwareTree[i]
    BY <1>5, TreeOfFour DEF ConfigurationCopied
  <2>2. tree = FirmwareTree
    BY <2>1, WholeTree
  <2> QED BY <1>5, <2>1, <2>2 DEF ConfigurationCopied
<1>6. CASE CopyLoadOptions
  BY <1>6 DEF CopyLoadOptions
<1>7. CASE OpenDevices
  BY <1>7 DEF OpenDevices
<1>8. CASE LoadKernel \/ LoadHal \/ ScanImports
  BY <1>8 DEF LoadKernel, UnknownFileSystem, LoadHal, ScanImports, LoadImage
<1>9. CASE MakeEntries
  BY <1>9 DEF MakeEntries
<1>10. CASE AllocateNlsBlock
  BY <1>10 DEF AllocateNlsBlock
<1>11. CASE OpenHive
  BY <1>11 DEF OpenHive, HiveRejected
<1>12. CASE ReadHive
  <2>1. CASE step' = "check hive"
    BY <1>12, <2>1 DEF ReadHive, HiveRejected
  <2>2. CASE step' = "open hive"
    <3>1. /\ step = "read hive" /\ block \subseteq block' /\ opened' = opened \ {hive.tried}
          /\ UNCHANGED <<tree, disks, ignored>>
      BY <1>12, <2>2 DEF ReadHive, HiveRejected
    <3>2. HiveInv'
      BY <1>12, <2>2 DEF ReadHive, HiveRejected
    <3> QED BY <2>2, <3>1, <3>2
  <2>3. CASE step' = "BadFile"
    BY <1>12, <2>3 DEF ReadHive, HiveRejected
  <2> QED BY <1>12, <2>1, <2>2, <2>3 DEF ReadHive, HiveRejected
<1>13. CASE CheckHive
  BY <1>13 DEF CheckHive, HiveRejected
<1>14. CASE ScanHive
  BY <1>14 DEF ScanHive
<1>15. CASE LoadNls
  <2>1. CASE \E f \in NlsFiles : SizeNlsFile(f)
    <3>1. PICK f \in NlsFiles : SizeNlsFile(f)
      BY <2>1
    <3>2. CASE f = "ansi"
      BY <3>1, <3>2 DEF SizeNlsFile, Size, AfterSize
    <3>3. CASE f = "oem"
      BY <3>1, <3>3 DEF SizeNlsFile, Size, AfterSize
    <3>4. CASE f = "language"
      BY <3>1, <3>4 DEF SizeNlsFile, Size, AfterSize
    <3> QED BY <3>2, <3>3, <3>4 DEF NlsFiles
  <2>2. CASE \E f \in NlsFiles : OpenNlsFile(f)
    <3>1. PICK f \in NlsFiles : OpenNlsFile(f)
      BY <2>2
    <3>2. CASE f = "ansi"
      BY <3>1, <3>2 DEF OpenNlsFile, Open, Read
    <3>3. CASE f = "oem"
      BY <3>1, <3>3 DEF OpenNlsFile, Open, Read
    <3>4. CASE f = "language"
      BY <3>1, <3>4 DEF OpenNlsFile, Open, Read
    <3> QED BY <3>2, <3>3, <3>4 DEF NlsFiles
  <2>3. CASE \E f \in NlsFiles : ReadNlsFile(f)
    <3>1. PICK f \in NlsFiles : ReadNlsFile(f)
      BY <2>3
    <3>2. CASE f = "ansi"
      BY <3>1, <3>2 DEF ReadNlsFile, Open, Read, AfterRead, Closed
    <3>3. CASE f = "oem"
      BY <3>1, <3>3 DEF ReadNlsFile, Open, Read, AfterRead, Closed
    <3>4. CASE f = "language"
      BY <3>1, <3>4 DEF ReadNlsFile, Open, Read, AfterRead, Closed
    <3> QED BY <3>2, <3>3, <3>4 DEF NlsFiles
  <2> QED BY <1>15, <2>1, <2>2, <2>3 DEF LoadNls
<1>16. CASE AllocateNls
  BY <1>16 DEF AllocateNls
<1>17. CASE OpenFont
  BY <1>17 DEF OpenFont
<1>18. CASE ReadFont
  BY <1>18 DEF ReadFont, NameFields, Closed
<1>19. CASE ReadDisk
  BY <1>19, OneDisk DEF ReadDisk
<1>20. CASE SetupForNt
  BY <1>20 DEF SetupForNt
<1>21. CASE \E i \in DOMAIN NameFields : MakeName(i)
  <2>1. PICK i \in {1, 2, 3, 4} : MakeName(i)
    BY <1>21, FourNames
  <2>2. CASE i = 1
    BY <2>1, <2>2 DEF MakeName, NameFields
  <2>3. CASE i = 2
    BY <2>1, <2>3 DEF MakeName, NameFields
  <2>4. CASE i = 3
    BY <2>1, <2>4 DEF MakeName, NameFields
  <2>5. CASE i = 4
    BY <2>1, <2>5 DEF MakeName, NameFields
  <2> QED BY <2>1, <2>2, <2>3, <2>4, <2>5
<1> QED BY <1>1, <1>2, <1>3, <1>4, <1>5, <1>6, <1>7, <1>8, <1>9, <1>10, <1>11, <1>12, <1>13,
      <1>14, <1>15, <1>16, <1>17, <1>18, <1>19, <1>20, <1>21 DEF LoadNt

\* When the kernel is entered no file of the loader is open, the hive is the accepted one
\* at RegistryBase, and unless a failure was ignored the loader block is complete and its
\* disk table holds the boot device.
THEOREM KernelIsReady == BootSpec => []ReadyForKernel
<1> USE DEF Steps, BeforeTree, TreeCopied,
     OptionsCopied, EntriesMade, NlsBlockThere, HiveRead, HiveAccepted, HiveScanned,
     NlsPlaced, FontLoaded, BootDeviceMade, BootPathMade, HalDeviceMade, HalPathMade,
     DisksRead, SetUpDone
<1>1. BootInit => BlockReady
  BY DEF BootInit, MenuInit, LoaderInit, BlockReady, OpenInv, HiveInv, TreeInv, BlockInv,
     UncheckedInv, EntryInv, MayBeOpen
<1>2. BlockReady /\ [Main \/ Clock \/ User]_vars => BlockReady'
  <2> SUFFICES ASSUME BlockReady, Main \/ Clock \/ User \/ UNCHANGED vars PROVE BlockReady'
    OBVIOUS
  <2>1. ASSUME UNCHANGED loadervars, at' = at \/ at' # "kernel" PROVE BlockReady'
    <3>1. UNCHANGED <<step, Status, opened, block, tree, hive, disks, ignored>>
      BY <2>1 DEF loadervars
    <3>2. OpenInv'
      BY <3>1 DEF BlockReady, OpenInv, MayBeOpen
    <3>3. HiveInv'
      BY <3>1 DEF BlockReady, HiveInv
    <3>6. TreeInv'
      BY <3>1 DEF BlockReady, TreeInv
    <3>4. BlockInv' /\ UncheckedInv'
      BY <3>1 DEF BlockReady, BlockInv, UncheckedInv
    <3>5. EntryInv'
      BY <2>1, <3>1 DEF BlockReady, EntryInv
    <3> QED BY <3>2, <3>3, <3>4, <3>5, <3>6 DEF BlockReady
  <2>2. CASE UNCHANGED vars
    BY <2>1, <2>2 DEF vars, menuvars
  <2>3. CASE Clock
    BY <2>1, <2>3 DEF Clock, SecondPasses
  <2>4. CASE User
    BY <2>1, <2>4 DEF User, UserTypes
  <2>5. CASE Search /\ UNCHANGED <<menuvars, loadervars>>
    BY <2>1, <2>5 DEF menuvars
  <2>6. CASE MenuSteps /\ UNCHANGED loadervars
    BY <2>1, <2>6 DEF MenuSteps, MenuStatus, ReadStatus, MenuRead, NextSecond, LeaveMenu,
       StartMenu
  <2>7. CASE LoadNt /\ UNCHANGED <<search, typing, trouble, menuvars>>
    BY <2>7, LoaderKeepsBlock DEF menuvars
  <2>8. CASE (BreakInStatus \/ BreakInKey) /\ UNCHANGED Spare
    <3>1. /\ step \in {"break-in", "break-in key"} /\ step' \in {"break-in key", "kernel image"}
          /\ UNCHANGED <<Status, opened, block, tree, hive, disks, ignored>>
      BY <2>8 DEF BreakInStatus, BreakInKey, At, Spare
    <3>2. at' # "kernel"
      BY <2>8 DEF BreakInStatus, BreakInKey, ReadStatus, At
    <3>3. OpenInv' /\ HiveInv'
      BY <3>1 DEF BlockReady, OpenInv, MayBeOpen, HiveInv
    <3>4. TreeInv'
      BY <3>1 DEF BlockReady, TreeInv
    <3>5. BlockInv' /\ UncheckedInv' /\ EntryInv'
      BY <3>1, <3>2 DEF BlockReady, BlockInv, UncheckedInv, EntryInv
    <3> QED BY <3>3, <3>4, <3>5 DEF BlockReady
  <2>9. CASE EndLoader /\ UNCHANGED <<usbvars, remaining, over, choice, uart, seen, Spare>>
    BY <2>9 DEF EndLoader, At, Spare, BlockReady, OpenInv,
       HiveInv, TreeInv, BlockInv, UncheckedInv, EntryInv, MayBeOpen
  <2> QED BY <2>2, <2>3, <2>4, <2>5, <2>6, <2>7, <2>8, <2>9 DEF Main
<1>3. BlockReady => ReadyForKernel
  <2> SUFFICES ASSUME BlockReady, at = "kernel" PROVE ReadyForKernel
    BY DEF ReadyForKernel
  <2>1. step = "kernel"
    BY DEF BlockReady, EntryInv
  <2> USE DEF BlockReady, MayBeOpen
  <2>2. opened \subseteq {"partition", "disk"} /\ Status = "ESUCCESS"
    BY <2>1 DEF OpenInv, EntryInv
  <2>3. hive.accepted = hive.base /\ hive.base = hive.tried
    BY <2>1 DEF HiveInv
  <2>4. CASE ~ignored
    <3>1. Range(NameFields) \subseteq {NameFields[1], NameFields[2], NameFields[3],
                                       NameFields[4]}
      BY DEF Range, NameFields
    <3>2. Needed \subseteq block
      BY <2>1, <2>4, <3>1 DEF Needed, NameFields, TreeInv, BlockInv, UncheckedInv
    <3>3. \E disk \in disks : IsPrefix(disk, BootDeviceName)
      BY <2>1, <2>4, BootDeviceIsOnIt DEF UncheckedInv
    <3> QED BY <2>2, <2>3, <3>2, <3>3 DEF ReadyForKernel
  <2> QED BY <2>2, <2>3, <2>4 DEF ReadyForKernel
<1> QED BY <1>1, <1>2, <1>3, PTL DEF BootSpec

------------------------------------------------------------------------------
(* The keyboard, while the rest of the boot goes on.                          *)

\* A poll changes no more of the history of the search than that a report came late or
\* that bytes were dropped.
LEMMA PollTellsNothing ==
    ASSUME SearchTyped, NEW p \in usb_kbd_poll, trouble' = p.trouble
    PROVE /\ trouble' \in TroubleType /\ trouble'.failed = trouble.failed
          /\ trouble'.clash = trouble.clash /\ trouble'.restarted = trouble.restarted
<1>1. trouble \in TroubleType
  BY DEF SearchTyped, TroubleType
<1>2. CASE p = NoReport
  BY <1>1, <1>2 DEF NoReport
<1>3. CASE p = ReportLost
  <2>1. trouble' = [trouble EXCEPT !.late = TRUE]
    BY <1>3 DEF ReportLost, NoReport
  <2> QED BY <1>1, <2>1 DEF TroubleType
<1>4. CASE p = ReportTaken
  <2>1. PICK full \in BOOLEAN : trouble' = [trouble EXCEPT !.dropped = full]
    <3> DEFINE bytes == Emitted(reports[1], queue.prev_keys)
               after == Pushed([queue EXCEPT !.prev_keys = reports[1]], bytes)
               full == trouble.dropped \/ InRing(after) # InRing(queue) + Len(bytes)
    <3>1. p = [queue |-> after, reports |-> Tail(reports),
               trouble |-> [trouble EXCEPT !.dropped = full]]
      BY <1>1, <1>4 DEF ReportTaken, TroubleType
    <3>2. full \in BOOLEAN
      BY <1>1 DEF TroubleType
    <3> HIDE DEF full, after, bytes
    <3> QED BY <3>1, <3>2
  <2> QED BY <1>1, <2>1 DEF TroubleType
<1> QED BY <1>2, <1>3, <1>4 DEF usb_kbd_poll

\* However many requests fail and wherever, the search ends with the keyboard alone at its
\* address, or with none; and with one if one is there and nothing failed.
THEOREM KeyboardFound == BootSpec => []FoundIfThere
<1>1. BootInit => SearchGood
  BY SearchStartsGood DEF BootInit
<1>2. SearchGood /\ [Main \/ Clock \/ User]_vars => SearchGood'
  <2> SUFFICES ASSUME SearchGood, Main \/ Clock \/ User \/ UNCHANGED vars PROVE SearchGood'
    OBVIOUS
  <2>1. ASSUME UNCHANGED search, trouble' = trouble \/ \E p \in usb_kbd_poll : trouble' = p.trouble
        PROVE SearchGood'
    <3>1. CASE trouble' = trouble
      BY <2>1, <3>1, ElsewhereStaysGood
    <3>2. CASE \E p \in usb_kbd_poll : trouble' = p.trouble
      BY <2>1, <3>2, PollTellsNothing, ElsewhereStaysGood DEF SearchGood
    <3> QED BY <2>1, <3>1, <3>2
  <2>2. CASE UNCHANGED vars
    BY <2>1, <2>2 DEF vars, usbvars
  <2>3. CASE Clock
    BY <2>1, <2>3 DEF Clock, SecondPasses, usbvars
  <2>4. CASE User
    BY <2>1, <2>4 DEF User, UserTypes, Press, Release, KeysChange
  <2>5. CASE Search
    BY <2>5, SearchStaysGood
  <2>6. CASE MenuSteps
    BY <2>1, <2>6 DEF MenuSteps, MenuStatus, ReadStatus, MenuRead, FromSerial, FromKeyboard,
       NextSecond, LeaveMenu, StartMenu, usbvars
  <2>7. CASE LoadNt /\ UNCHANGED <<search, typing, trouble, menuvars>>
    BY <2>1, <2>7
  <2>8. CASE BreakInStatus \/ BreakInKey
    BY <2>1, <2>8 DEF BreakInStatus, ReadStatus, BreakInKey, FromSerial, FromKeyboard, usbvars
  <2>9. CASE UNCHANGED usbvars
    BY <2>1, <2>9 DEF usbvars
  <2> QED BY <2>2, <2>3, <2>4, <2>5, <2>6, <2>7, <2>8, <2>9 DEF Main
<1>3. SearchGood => FoundIfThere
  BY DEF SearchGood, FoundIfThere
<1> QED BY <1>1, <1>2, <1>3, PTL DEF BootSpec

-----------------------------------------------------------------------------
(* The keys: what was typed and what is handed over.                       *)

LEMMA LeastExists ==
    ASSUME NEW S \in SUBSET Nat, S # {}
    PROVE  \E i \in S : \A j \in S : i <= j
<1>1. PICK i \in S : \A j \in S : <<j, i>> \notin OpToRel(<, Nat)
  BY WFMin, NatLessThanWellFounded, Zenon
<1>2. \A j \in S : ~(j < i)
  BY <1>1, Zenon DEF OpToRel
<1> QED BY <1>2

\* A function f with f[0] = a and f[i] = move[i][f[i - 1]].
Iterates(a, n, move, f) ==
    f = [i \in 0 .. n |-> IF i = 0 THEN a ELSE move[i][f[i - 1]]]

LEMMA IterationExists ==
    ASSUME NEW A, NEW a \in A, NEW n \in Nat, NEW move \in [1 .. n -> [A -> A]]
    PROVE  \E f \in [0 .. n -> A] : Iterates(a, n, move, f)
<1> DEFINE Bad == {k \in 0 .. n : ~ \E f \in [0 .. k -> A] : Iterates(a, k, move, f)}
<1> SUFFICES ASSUME Bad # {} PROVE FALSE
  <2>1. n \notin Bad => \E f \in [0 .. n -> A] : Iterates(a, n, move, f)
    OBVIOUS
  <2> QED BY <2>1
<1>1. PICK k \in Bad : \A j \in Bad : k <= j
  <2>1. Bad \in SUBSET Nat
    OBVIOUS
  <2> HIDE DEF Bad
  <2> QED BY <2>1, LeastExists
<1>2. CASE k = 0
  <2> DEFINE f == [i \in 0 .. 0 |-> a]
  <2>1. f \in [0 .. 0 -> A] /\ f = [i \in 0 .. 0 |-> IF i = 0 THEN a ELSE move[i][f[i - 1]]]
    OBVIOUS
  <2> QED BY <1>2, <2>1 DEF Iterates
<1>3. CASE k # 0
  <2>1. k \in 1 .. n /\ k - 1 \in 0 .. n /\ k - 1 \notin Bad
    BY <1>1, <1>3
  <2>2. PICK g \in [0 .. k - 1 -> A] : Iterates(a, k - 1, move, g)
    BY <2>1
  <2> DEFINE f == [i \in 0 .. k |-> IF i = k THEN move[k][g[k - 1]] ELSE g[i]]
  <2>3. \A i \in 0 .. k - 1 : g[i] = IF i = 0 THEN a ELSE move[i][g[i - 1]]
    BY <2>2 DEF Iterates
  <2>4. g[k - 1] \in A /\ move[k] \in [A -> A]
    BY <2>1, <2>2
  <2>5. f \in [0 .. k -> A]
    <3>1. move[k][g[k - 1]] \in A
      BY <2>4
    <3>2. \A i \in 0 .. k : i # k => i \in 0 .. k - 1
      BY <2>1
    <3> QED BY <2>2, <3>1, <3>2
  <2>6. \A i \in 0 .. k : f[i] = IF i = 0 THEN a ELSE move[i][f[i - 1]]
    BY <1>3, <2>1, <2>3
  <2>7. f = [i \in 0 .. k |-> f[i]]
    OBVIOUS
  <2> HIDE DEF f
  <2>8. Iterates(a, k, move, f)
    BY <2>6, <2>7 DEF Iterates
  <2> QED BY <2>5, <2>8
<1> QED BY <1>2, <1>3

------------------------------------------------------------------------------
(* Met finds a sequence that can be found in its order.                       *)

\* The places f of the elements of some in all, between lo and hi.
FoundAt(some, all, lo, hi, f) ==
    /\ f \in [1 .. Len(some) -> lo + 1 .. hi]
    /\ \A x, y \in 1 .. Len(some) : x < y => f[x] < f[y]
    /\ \A x \in 1 .. Len(some) : some[x] = all[f[x]]

Within(some, all, lo, hi) == \E f : FoundAt(some, all, lo, hi, f)

Counts(some, all, c) ==
    c = [n \in 0 .. Len(all) |->
            IF n = 0 THEN 0
            ELSE IF c[n - 1] < Len(some) /\ some[c[n - 1] + 1] = all[n]
                 THEN c[n - 1] + 1
            ELSE c[n - 1]]

LEMMA MetCounts ==
    ASSUME NEW S, NEW some \in Seq(S), NEW all \in Seq(S)
    PROVE  \E c : Counts(some, all, c) /\ Met(some, all) = c[Len(all)]
<1> DEFINE n == Len(all)
           move == [i \in 1 .. n |-> [a \in Nat |->
                       IF a < Len(some) /\ some[a + 1] = all[i] THEN a + 1 ELSE a]]
<1>1. n \in Nat /\ move \in [1 .. n -> [Nat -> Nat]]
  BY LenProperties
<1>2. PICK f \in [0 .. n -> Nat] : Iterates(0, n, move, f)
  BY <1>1, IterationExists
<1>3. \A i \in 0 .. n : f[i] = IF i = 0 THEN 0
                               ELSE IF f[i - 1] < Len(some) /\ some[f[i - 1] + 1] = all[i]
                                    THEN f[i - 1] + 1 ELSE f[i - 1]
  <2>1. \A i \in 0 .. n : f[i] = IF i = 0 THEN 0 ELSE move[i][f[i - 1]]
    BY <1>2 DEF Iterates
  <2>2. \A i \in 1 .. n, a \in Nat :
           move[i][a] = IF a < Len(some) /\ some[a + 1] = all[i] THEN a + 1 ELSE a
    OBVIOUS
  <2> HIDE DEF n, move
  <2>3. ASSUME NEW i \in 0 .. n, i # 0 PROVE i \in 1 .. n /\ f[i - 1] \in Nat
    <3>1. n \in Nat /\ f \in [0 .. n -> Nat]
      BY <1>1, <1>2
    <3>2. i \in 1 .. n /\ i - 1 \in 0 .. n
      BY <2>3, <3>1
    <3> QED BY <3>1, <3>2
  <2>4. ASSUME NEW i \in 0 .. n
        PROVE  f[i] = IF i = 0 THEN 0
                      ELSE IF f[i - 1] < Len(some) /\ some[f[i - 1] + 1] = all[i]
                           THEN f[i - 1] + 1 ELSE f[i - 1]
    <3>1. CASE i = 0
      BY <2>1, <3>1
    <3>2. CASE i # 0
      <4>1. f[i] = move[i][f[i - 1]]
        BY <2>1, <3>2
      <4> QED BY <2>2, <2>3, <3>2, <4>1
    <3> QED BY <3>1, <3>2
  <2> QED BY <2>4
<1>4. Counts(some, all, f)
  <2>1. f = [i \in 0 .. n |-> f[i]]
    OBVIOUS
  <2> HIDE DEF n, move
  <2>2. f = [i \in 0 .. n |-> IF i = 0 THEN 0
                               ELSE IF f[i - 1] < Len(some) /\ some[f[i - 1] + 1] = all[i]
                                    THEN f[i - 1] + 1 ELSE f[i - 1]]
    BY <1>3, <2>1
  <2> QED BY <2>2 DEF Counts, n
<1>5. Met(some, all) = (CHOOSE c : Counts(some, all, c))[Len(all)]
  BY DEF Met, Counts
<1> QED BY <1>4, <1>5

\* The least place at which something that held at 0 no longer holds.
LEMMA FirstBad ==
    ASSUME NEW n \in Nat, NEW Bad \in SUBSET (0 .. n), Bad # {}, 0 \notin Bad
    PROVE  \E k \in 1 .. n : k \in Bad /\ k - 1 \in 0 .. n /\ k - 1 \notin Bad
<1>1. PICK k \in Bad : \A j \in Bad : k <= j
  BY LeastExists
<1> QED BY <1>1

LEMMA MetFinds ==
    ASSUME NEW S, NEW some \in Seq(S), NEW all \in Seq(S), Within(some, all, 0, Len(all))
    PROVE  InSameOrder(some, all)
<1>1. PICK c : Counts(some, all, c) /\ Met(some, all) = c[Len(all)]
  BY MetCounts
<1>2. PICK f : FoundAt(some, all, 0, Len(all), f)
  BY DEF Within
<1> DEFINE n == Len(all)
           m == Len(some)
<1>3. n \in Nat /\ m \in Nat
  BY LenProperties
<1>4. /\ f \in [1 .. m -> 1 .. n] /\ \A x, y \in 1 .. m : x < y => f[x] < f[y]
      /\ \A x \in 1 .. m : some[x] = all[f[x]]
  BY <1>2 DEF FoundAt
<1>5. \A i \in 0 .. n : c[i] = IF i = 0 THEN 0
                               ELSE IF c[i - 1] < m /\ some[c[i - 1] + 1] = all[i]
                                    THEN c[i - 1] + 1 ELSE c[i - 1]
  BY <1>1 DEF Counts
<1> HIDE DEF n, m
<1>6. \A i \in 0 .. n : c[i] \in 0 .. m
  <2> DEFINE Bad == {i \in 0 .. n : c[i] \notin 0 .. m}
  <2> SUFFICES ASSUME Bad # {} PROVE FALSE
    OBVIOUS
  <2>1. 0 \notin Bad
    BY <1>3, <1>5
  <2>2. PICK k \in 1 .. n : k \in Bad /\ k - 1 \in 0 .. n /\ k - 1 \notin Bad
    <3> HIDE DEF Bad
    <3>1. Bad \in SUBSET (0 .. n)
      BY DEF Bad
    <3> QED BY <1>3, <2>1, <3>1, FirstBad
  <2>3. c[k - 1] \in 0 .. m /\ c[k] \in {c[k - 1]} \cup (IF c[k - 1] < m THEN {c[k - 1] + 1} ELSE {})
    BY <1>3, <1>5, <2>2
  <2> QED BY <1>3, <2>2, <2>3
<1>7. \A i \in 0 .. n : \A x \in 1 .. m : f[x] <= i => x <= c[i]
  <2> DEFINE Bad == {i \in 0 .. n : ~ \A x \in 1 .. m : f[x] <= i => x <= c[i]}
  <2> SUFFICES ASSUME Bad # {} PROVE FALSE
    OBVIOUS
  <2>1. 0 \notin Bad
    BY <1>3, <1>4
  <2>2. PICK k \in 1 .. n : k \in Bad /\ k - 1 \in 0 .. n /\ k - 1 \notin Bad
    <3> HIDE DEF Bad
    <3>1. Bad \in SUBSET (0 .. n)
      BY DEF Bad
    <3> QED BY <1>3, <2>1, <3>1, FirstBad
  <2>3. PICK x \in 1 .. m : f[x] <= k /\ ~(x <= c[k])
    BY <2>2
  <2>4. f[x] \in 1 .. n /\ c[k - 1] \in 0 .. m /\ c[k] \in 0 .. m /\ k \in 0 .. n
    BY <1>3, <1>4, <1>6, <2>2
  <2>5. c[k - 1] <= c[k]
    BY <1>3, <1>5, <2>4
  <2>6. f[x] = k
    <3>1. CASE f[x] <= k - 1
      BY <1>3, <2>2, <2>3, <2>4, <2>5, <3>1
    <3> QED BY <1>3, <2>3, <2>4, <3>1
  <2>7. x - 1 <= c[k - 1]
    <3>1. CASE x = 1
      BY <2>4, <3>1
    <3>2. CASE x # 1
      <4>1. x - 1 \in 1 .. m /\ x - 1 < x
        BY <1>3, <3>2
      <4>2. f[x - 1] < f[x] /\ f[x - 1] \in 1 .. n
        BY <1>4, <4>1
      <4>3. f[x - 1] <= k - 1
        BY <1>3, <2>6, <4>2
      <4> QED BY <2>2, <4>1, <4>3
    <3> QED BY <3>1, <3>2
  <2>8. c[k - 1] = x - 1
    BY <1>3, <2>3, <2>4, <2>5, <2>7
  <2>9. c[k - 1] < m /\ some[c[k - 1] + 1] = all[k]
    <3>1. c[k - 1] + 1 = x
      BY <1>3, <2>8
    <3> QED BY <1>3, <1>4, <2>6, <2>8, <3>1
  <2>10. c[k] = x /\ x \in Nat
    <3>1. k \in 0 .. n /\ k # 0
      BY <1>3, <2>2
    <3>2. c[k] = IF c[k - 1] < m /\ some[c[k - 1] + 1] = all[k] THEN c[k - 1] + 1 ELSE c[k - 1]
      BY <1>5, <3>1
    <3>3. c[k] = c[k - 1] + 1
      BY <2>9, <3>2
    <3> QED BY <1>3, <2>8, <3>3
  <2>11. x <= c[k]
    BY <2>10
  <2> QED BY <2>3, <2>11
<1>8. c[n] = m
  <2>1. CASE m = 0
    BY <1>3, <1>6, <2>1
  <2>2. CASE m # 0
    <3>1. m \in 1 .. m /\ f[m] \in 1 .. n /\ n \in 0 .. n
      BY <1>3, <1>4, <2>2
    <3>2. m <= c[n]
      BY <1>3, <1>7, <3>1
    <3> QED BY <1>3, <1>6, <3>1, <3>2
  <2> QED BY <2>1, <2>2
<1> QED BY <1>1, <1>8 DEF InSameOrder, n, m

\* A sequence that has as many elements as there are places is the whole.
LEMMA AllPlaces ==
    ASSUME NEW S, NEW some \in Seq(S), NEW all \in Seq(S), Within(some, all, 0, Len(all)),
           Len(some) = Len(all)
    PROVE  some = all
<1>1. PICK f : FoundAt(some, all, 0, Len(all), f)
  BY DEF Within
<1> DEFINE n == Len(all)
<1>2. n \in Nat
  BY LenProperties
<1>3. /\ f \in [1 .. n -> 1 .. n] /\ \A x, y \in 1 .. n : x < y => f[x] < f[y]
      /\ \A x \in 1 .. n : some[x] = all[f[x]]
  BY <1>1 DEF FoundAt
<1> HIDE DEF n
<1>4. \A x \in 1 .. n : x <= f[x]
  <2> DEFINE Bad == {i \in 0 .. n : i # 0 /\ ~(i <= f[i])}
  <2> SUFFICES ASSUME Bad # {} PROVE FALSE
    BY <1>2
  <2>2. PICK k \in 1 .. n : k \in Bad /\ k - 1 \in 0 .. n /\ k - 1 \notin Bad
    <3> HIDE DEF Bad
    <3>1. Bad \in SUBSET (0 .. n) /\ 0 \notin Bad
      BY DEF Bad
    <3> QED BY <1>2, <3>1, FirstBad
  <2>3. CASE k = 1
    BY <1>2, <1>3, <2>2, <2>3
  <2>4. CASE k # 1
    <3>1. k - 1 \in 1 .. n /\ f[k - 1] < f[k] /\ f[k] \in 1 .. n /\ f[k - 1] \in 1 .. n
      BY <1>2, <1>3, <2>4
    <3>2. k - 1 <= f[k - 1]
      BY <1>2, <2>2, <3>1
    <3> QED BY <1>2, <2>2, <3>1, <3>2
  <2> QED BY <2>3, <2>4
<1>5. \A x \in 1 .. n : f[x] <= x
  <2> DEFINE Bad == {i \in 0 .. n : i # 0 /\ ~(f[n + 1 - i] <= n + 1 - i)}
  <2>1. SUFFICES ASSUME Bad # {} PROVE FALSE
    <3>1. \A x \in 1 .. n : n + 1 - x \in 0 .. n /\ n + 1 - x # 0 /\ n + 1 - (n + 1 - x) = x
      BY <1>2
    <3> QED BY <3>1
  <2>2. PICK k \in 1 .. n : k \in Bad /\ k - 1 \in 0 .. n /\ k - 1 \notin Bad
    <3> HIDE DEF Bad
    <3>1. Bad \in SUBSET (0 .. n) /\ 0 \notin Bad
      BY DEF Bad
    <3> QED BY <1>2, <2>1, <3>1, FirstBad
  <2>5. PICK x \in 1 .. n : x = n + 1 - k /\ ~(f[x] <= x)
    BY <1>2, <2>2
  <2>3. CASE k = 1
    BY <1>2, <1>3, <2>5, <2>3
  <2>4. CASE k # 1
    <3>1. x + 1 \in 1 .. n /\ f[x] < f[x + 1] /\ f[x] \in 1 .. n /\ f[x + 1] \in 1 .. n
      BY <1>2, <1>3, <2>4, <2>5
    <3>2. n + 1 - (k - 1) = x + 1
      BY <1>2, <2>5
    <3>3. f[x + 1] <= x + 1
      BY <1>2, <2>2, <2>4, <3>2
    <3> QED BY <1>2, <2>5, <3>1, <3>3
  <2> QED BY <2>3, <2>4
<1>6. \A x \in 1 .. n : some[x] = all[x]
  <2>1. \A x \in 1 .. n : f[x] = x
    BY <1>2, <1>3, <1>4, <1>5
  <2> QED BY <1>3, <2>1
<1> QED BY <1>6, SeqEqual DEF n

------------------------------------------------------------------------------
(* One sequence found after another.                                          *)

LEMMA WithinWider ==
    ASSUME NEW some, NEW all, NEW lo \in Nat, NEW hi \in Nat, NEW low \in Nat, NEW high \in Nat,
           Within(some, all, lo, hi), low <= lo, hi <= high
    PROVE  Within(some, all, low, high)
<1>1. PICK f : FoundAt(some, all, lo, hi, f)
  BY DEF Within
<1>2. lo + 1 .. hi \subseteq low + 1 .. high
  OBVIOUS
<1>3. FoundAt(some, all, low, high, f)
  BY <1>1, <1>2 DEF FoundAt
<1> QED BY <1>3 DEF Within

\* More typed after what was looked at.
LEMMA WithinMore ==
    ASSUME NEW S, NEW all \in Seq(S), NEW more \in Seq(S), NEW some,
           NEW lo \in Nat, NEW hi \in 0 .. Len(all), Within(some, all, lo, hi)
    PROVE  Within(some, all \o more, lo, hi)
<1>1. PICK f : FoundAt(some, all, lo, hi, f)
  BY DEF Within
<1>2. \A i \in lo + 1 .. hi : (all \o more)[i] = all[i]
  BY ConcatProperties, LenProperties
<1>3. FoundAt(some, all \o more, lo, hi, f)
  BY <1>1, <1>2 DEF FoundAt
<1> QED BY <1>3 DEF Within

LEMMA WithinPrefix ==
    ASSUME NEW S, NEW some \in Seq(S), NEW n \in 0 .. Len(some), NEW all,
           NEW lo \in Nat, NEW hi \in Nat, Within(some, all, lo, hi)
    PROVE  Within(SubSeq(some, 1, n), all, lo, hi)
<1>1. PICK f : FoundAt(some, all, lo, hi, f)
  BY DEF Within
<1> DEFINE start == SubSeq(some, 1, n)
           g == [x \in 1 .. n |-> f[x]]
<1>2. Len(some) \in Nat /\ n \in Nat /\ \A i \in 1 .. n : i \in 1 .. Len(some)
  BY LenProperties
<1>3. Len(start) = n /\ \A x \in 1 .. n : start[x] = some[x]
  <2>1. \A i \in 1 .. n : some[i] \in S
    BY <1>2, ElementOfSeq
  <2>2. /\ Len(start) = IF 1 <= n THEN n - 1 + 1 ELSE 0
        /\ \A i \in 1 .. n - 1 + 1 : start[i] = some[1 + i - 1]
    BY <1>2, <2>1, SubSeqProperties
  <2> QED BY <1>2, <2>2
<1> HIDE DEF start
<1>4. FoundAt(start, all, lo, hi, g)
  BY <1>1, <1>2, <1>3 DEF FoundAt
<1> QED BY <1>4 DEF Within, start

LEMMA WithinConcat ==
    ASSUME NEW S, NEW first \in Seq(S), NEW second \in Seq(S), NEW all,
           NEW lo \in Nat, NEW mid \in Nat, NEW hi \in Nat,
           Within(first, all, lo, mid), Within(second, all, mid, hi), lo <= mid, mid <= hi
    PROVE  Within(first \o second, all, lo, hi)
<1>1. PICK f : FoundAt(first, all, lo, mid, f)
  BY DEF Within
<1>2. PICK g : FoundAt(second, all, mid, hi, g)
  BY DEF Within
<1> DEFINE m == Len(first)
           n == Len(second)
           both == first \o second
           h == [x \in 1 .. m + n |-> IF x <= m THEN f[x] ELSE g[x - m]]
<1>3. m \in Nat /\ n \in Nat
  BY LenProperties
<1>4. Len(both) = m + n /\ \A i \in 1 .. m + n : both[i] = IF i <= m THEN first[i] ELSE second[i - m]
  BY ConcatProperties
<1>5. /\ f \in [1 .. m -> lo + 1 .. mid] /\ \A x, y \in 1 .. m : x < y => f[x] < f[y]
      /\ \A x \in 1 .. m : first[x] = all[f[x]]
  BY <1>1 DEF FoundAt
<1>6. /\ g \in [1 .. n -> mid + 1 .. hi] /\ \A x, y \in 1 .. n : x < y => g[x] < g[y]
      /\ \A x \in 1 .. n : second[x] = all[g[x]]
  BY <1>2 DEF FoundAt
<1> HIDE DEF m, n, both
<1>7. \A x \in 1 .. m + n : /\ x <= m => x \in 1 .. m /\ h[x] = f[x]
                            /\ ~(x <= m) => x - m \in 1 .. n /\ h[x] = g[x - m]
  BY <1>3
<1>8. h \in [1 .. m + n -> lo + 1 .. hi]
  <2>1. \A x \in 1 .. m + n : h[x] \in lo + 1 .. hi
    BY <1>3, <1>5, <1>6, <1>7
  <2> QED BY <2>1
<1>9. DOMAIN h = 1 .. m + n
  OBVIOUS
<1> HIDE DEF h
<1>10. ASSUME NEW x \in 1 .. m + n, NEW y \in 1 .. m + n, x < y PROVE h[x] < h[y]
  <2>1. CASE y <= m
    <3>1. x <= m
      BY <1>3, <1>10, <2>1
    <3> QED BY <1>5, <1>7, <1>10, <2>1, <3>1
  <2>2. CASE ~(y <= m) /\ x <= m
    <3>1. f[x] \in lo + 1 .. mid /\ g[y - m] \in mid + 1 .. hi
      BY <1>5, <1>6, <1>7, <2>2
    <3> QED BY <1>7, <2>2, <3>1
  <2>3. CASE ~(y <= m) /\ ~(x <= m)
    <3>1. x - m \in 1 .. n /\ y - m \in 1 .. n /\ x - m < y - m
      BY <1>3, <1>7, <1>10, <2>3
    <3> QED BY <1>6, <1>7, <2>3, <3>1
  <2> QED BY <2>1, <2>2, <2>3
<1>11. ASSUME NEW x \in 1 .. m + n PROVE both[x] = all[h[x]]
  <2>1. CASE x <= m
    BY ONLY <1>4, <1>5, <1>7, <2>1, x \in 1 .. m + n
  <2>2. CASE ~(x <= m)
    BY ONLY <1>4, <1>6, <1>7, <2>2, x \in 1 .. m + n
  <2> QED BY <2>1, <2>2
<1>12. FoundAt(both, all, lo, hi, h)
  BY <1>4, <1>8, <1>10, <1>11 DEF FoundAt
<1> QED BY <1>12 DEF Within, both

LEMMA NothingIsWithin ==
    ASSUME NEW all, NEW lo \in Nat, NEW hi \in Nat
    PROVE  Within(<<>>, all, lo, hi)
<1> DEFINE f == [x \in 1 .. 0 |-> x]
<1>1. Len(<<>>) = 0 /\ 1 .. 0 = {}
  OBVIOUS
<1>2. f \in [1 .. 0 -> lo + 1 .. hi]
  BY <1>1
<1>3. FoundAt(<<>>, all, lo, hi, f)
  BY <1>1, <1>2 DEF FoundAt
<1> QED BY <1>3 DEF Within

\* The bytes of a key lie together.
LEMMA TogetherIsWithin ==
    ASSUME NEW S, NEW some \in Seq(S), NEW all, NEW lo \in Nat,
           \A j \in 1 .. Len(some) : all[lo + j] = some[j]
    PROVE  Within(some, all, lo, lo + Len(some))
<1> DEFINE n == Len(some)
           f == [x \in 1 .. n |-> lo + x]
<1>1. n \in Nat
  BY LenProperties
<1> HIDE DEF n
<1>2. f \in [1 .. n -> lo + 1 .. lo + n] /\ \A x, y \in 1 .. n : x < y => f[x] < f[y]
  BY <1>1
<1>3. \A x \in 1 .. n : some[x] = all[f[x]]
  BY DEF n
<1>4. FoundAt(some, all, lo, lo + n, f)
  BY <1>2, <1>3 DEF FoundAt, n
<1> QED BY <1>4 DEF Within, n

------------------------------------------------------------------------------
(* The keys of a report.                                                      *)

Width(k) == Len(Decoded[k])

LEMMA DecodedBytes ==
    ASSUME NEW k \in Keys
    PROVE  Decoded[k] \in Seq(Bytes) /\ Width(k) \in Nat
<1>1. Decoded[k] \in Seq(Bytes)
  BY KeyboardAssumption
<1> QED BY <1>1, LenProperties DEF Width

Emits(report, prev, c) ==
    c = [n \in 0 .. Len(report) |->
            IF n = 0 THEN <<>>
            ELSE IF JustPressed(report[n], prev) THEN c[n - 1] \o Decoded[report[n]]
            ELSE c[n - 1]]

LEMMA EmittedStepwise ==
    ASSUME NEW report \in Seq(Keys), NEW prev
    PROVE  \E c \in [0 .. Len(report) -> Seq(Bytes)] :
              Emits(report, prev, c) /\ Emitted(report, prev) = c[Len(report)]
<1> DEFINE n == Len(report)
           move == [i \in 1 .. n |-> [w \in Seq(Bytes) |->
                       IF JustPressed(report[i], prev) THEN w \o Decoded[report[i]] ELSE w]]
<1>0. n \in Nat /\ \A i \in 1 .. n : report[i] \in Keys
  BY LenProperties
<1>1. move \in [1 .. n -> [Seq(Bytes) -> Seq(Bytes)]]
  <2>1. \A i \in 1 .. n, w \in Seq(Bytes) : w \o Decoded[report[i]] \in Seq(Bytes)
    BY <1>0, DecodedBytes, ConcatProperties
  <2> QED BY <2>1
<1>a. \A i \in 1 .. n, w \in Seq(Bytes) :
         move[i][w] = IF JustPressed(report[i], prev) THEN w \o Decoded[report[i]] ELSE w
  OBVIOUS
<1>b. <<>> \in Seq(Bytes)
  OBVIOUS
<1> HIDE DEF n, move
<1>2. PICK f \in [0 .. n -> Seq(Bytes)] : Iterates(<<>>, n, move, f)
  BY <1>0, <1>1, <1>b, IterationExists
<1>3. ASSUME NEW i \in 0 .. n
      PROVE  f[i] = IF i = 0 THEN <<>>
                    ELSE IF JustPressed(report[i], prev) THEN f[i - 1] \o Decoded[report[i]]
                    ELSE f[i - 1]
  <2>1. f[i] = IF i = 0 THEN <<>> ELSE move[i][f[i - 1]]
    BY <1>2 DEF Iterates
  <2>2. CASE i = 0
    BY <2>1, <2>2
  <2>3. CASE i # 0
    <3>1. i \in 1 .. n /\ i - 1 \in 0 .. n
      BY <1>0, <2>3
    <3>2. f[i - 1] \in Seq(Bytes)
      BY <1>2, <3>1
    <3> QED BY <1>a, <2>1, <2>3, <3>1, <3>2
  <2> QED BY <2>2, <2>3
<1>4. Emits(report, prev, f)
  <2>1. f = [i \in 0 .. n |-> f[i]]
    BY <1>2
  <2>2. f = [i \in 0 .. n |-> IF i = 0 THEN <<>>
                    ELSE IF JustPressed(report[i], prev) THEN f[i - 1] \o Decoded[report[i]]
                    ELSE f[i - 1]]
    BY <1>3, <2>1
  <2> QED BY <2>2 DEF Emits, n
<1> DEFINE g == CHOOSE c : Emits(report, prev, c)
<1>5. Emitted(report, prev) = g[Len(report)]
  BY DEF Emitted, Emits
<1>6. Emits(report, prev, g)
  BY <1>4
<1> HIDE DEF g
<1>7. \A i \in 0 .. n : g[i] = IF i = 0 THEN <<>>
                    ELSE IF JustPressed(report[i], prev) THEN g[i - 1] \o Decoded[report[i]]
                    ELSE g[i - 1]
  BY <1>6 DEF Emits, n
<1>8. \A i \in 0 .. n : g[i] \in Seq(Bytes)
  <2> DEFINE Bad == {i \in 0 .. n : g[i] \notin Seq(Bytes)}
  <2> SUFFICES ASSUME Bad # {} PROVE FALSE
    OBVIOUS
  <2>1. PICK k \in 1 .. n : k \in Bad /\ k - 1 \in 0 .. n /\ k - 1 \notin Bad
    <3>1. 0 \notin Bad
      BY <1>0, <1>7, <1>b
    <3>2. Bad \in SUBSET (0 .. n)
      OBVIOUS
    <3> HIDE DEF Bad
    <3> QED BY <1>0, <3>1, <3>2, FirstBad
  <2>2. g[k - 1] \in Seq(Bytes) /\ report[k] \in Keys
    BY <1>0, <2>1
  <2>3. g[k - 1] \o Decoded[report[k]] \in Seq(Bytes)
    BY <2>2, DecodedBytes, ConcatProperties
  <2>4. k \in 0 .. n /\ k # 0
    BY <1>0, <2>1
  <2>5. g[k] \in Seq(Bytes)
    BY <1>7, <2>2, <2>3, <2>4
  <2> QED BY <2>1, <2>5
<1>9. g \in [0 .. n -> Seq(Bytes)]
  <2>1. g = [i \in 0 .. n |-> g[i]]
    <3>1. DOMAIN g = 0 .. n /\ g = [i \in DOMAIN g |-> g[i]]
      BY <1>6 DEF Emits, n
    <3> QED BY <3>1
  <2> QED BY <1>8, <2>1
<1> QED BY <1>5, <1>6, <1>9 DEF n

\* The keys of the report that were just pressed, since the one before, gave bytes that
\* are among those typed between the two, in their order.
Placed(all, report, prev, lo, hi, place) ==
    /\ place \in [1 .. Len(report) -> Nat]
    /\ \A x \in 1 .. Len(report) : JustPressed(report[x], prev) =>
          /\ lo <= place[x] /\ place[x] + Width(report[x]) <= hi
          /\ \A j \in 1 .. Width(report[x]) : all[place[x] + j] = Decoded[report[x]][j]
    /\ \A x, y \in 1 .. Len(report) :
          x < y /\ JustPressed(report[x], prev) /\ JustPressed(report[y], prev) =>
              place[x] + Width(report[x]) <= place[y]

Later(all, report, prev, lo, hi) == \E place : Placed(all, report, prev, lo, hi, place)

LEMMA EmittedIsTyped ==
    ASSUME NEW report \in Seq(Keys), NEW prev, NEW all, NEW lo \in Nat, NEW hi \in Nat,
           lo <= hi, Later(all, report, prev, lo, hi)
    PROVE  Emitted(report, prev) \in Seq(Bytes) /\ Within(Emitted(report, prev), all, lo, hi)
<1>1. PICK c \in [0 .. Len(report) -> Seq(Bytes)] :
              Emits(report, prev, c) /\ Emitted(report, prev) = c[Len(report)]
  BY EmittedStepwise
<1>2. PICK place : Placed(all, report, prev, lo, hi, place)
  BY DEF Later
<1> DEFINE n == Len(report)
           Pressed(x) == JustPressed(report[x], prev)
           Behind(i, e) == /\ e \in lo .. hi /\ Within(c[i], all, lo, e)
                           /\ \A y \in 1 .. n : i < y /\ Pressed(y) => e <= place[y]
           Bad == {i \in 0 .. n : ~ \E e \in Nat : Behind(i, e)}
<1>3. n \in Nat /\ \A x \in 1 .. n : report[x] \in Keys
  BY LenProperties
<1>4. \A i \in 0 .. n : c[i] = IF i = 0 THEN <<>>
                               ELSE IF Pressed(i) THEN c[i - 1] \o Decoded[report[i]]
                               ELSE c[i - 1]
  BY <1>1 DEF Emits
<1>5. /\ place \in [1 .. n -> Nat]
      /\ \A x \in 1 .. n : Pressed(x) =>
            /\ lo <= place[x] /\ place[x] + Width(report[x]) <= hi
            /\ \A j \in 1 .. Width(report[x]) : all[place[x] + j] = Decoded[report[x]][j]
      /\ \A x, y \in 1 .. n : x < y /\ Pressed(x) /\ Pressed(y) =>
            place[x] + Width(report[x]) <= place[y]
  BY <1>2 DEF Placed
<1>6. c \in [0 .. n -> Seq(Bytes)]
  BY <1>1
<1> HIDE DEF n, Pressed
<1>7. 0 \notin Bad
  <2>1. c[0] = <<>>
    BY <1>3, <1>4
  <2>2. Behind(0, lo)
    BY <1>3, <1>5, <2>1, NothingIsWithin
  <2> QED BY <2>2
<1>8. Bad = {}
  <2> SUFFICES ASSUME Bad # {} PROVE FALSE
    OBVIOUS
  <2>1. PICK k \in 1 .. n : k \in Bad /\ k - 1 \in 0 .. n /\ k - 1 \notin Bad
    <3>1. Bad \in SUBSET (0 .. n)
      OBVIOUS
    <3> HIDE DEF Bad
    <3> QED BY <1>3, <1>7, <3>1, FirstBad
  <2>2. PICK e \in Nat : Behind(k - 1, e)
    BY <2>1
  <2>3. k \in 0 .. n /\ k # 0 /\ \A y \in 1 .. n : k < y => k - 1 < y
    BY <1>3, <2>1
  <2>4. CASE ~Pressed(k)
    <3>1. c[k] = c[k - 1]
      BY <1>4, <2>3, <2>4
    <3>2. Behind(k, e)
      BY <2>2, <2>3, <3>1
    <3> QED BY <2>1, <3>2
  <2>5. CASE Pressed(k)
    <3> DEFINE end == place[k] + Width(report[k])
    <3>1. c[k] = c[k - 1] \o Decoded[report[k]] /\ c[k - 1] \in Seq(Bytes)
      BY <1>4, <1>6, <2>1, <2>3, <2>5
    <3>2. report[k] \in Keys /\ place[k] \in Nat /\ Width(report[k]) \in Nat
          /\ Decoded[report[k]] \in Seq(Bytes)
      BY <1>3, <1>5, DecodedBytes
    <3>3. lo <= place[k] /\ end <= hi /\ end \in Nat
      BY <1>5, <2>5, <3>2
    <3>4. e <= place[k] /\ e \in Nat /\ Within(c[k - 1], all, lo, e) /\ lo <= e
      <4>1. k - 1 < k
        BY <2>1
      <4> QED BY <2>2, <2>5, <4>1
    <3>5. Within(Decoded[report[k]], all, place[k], end)
      <4>1. \A j \in 1 .. Len(Decoded[report[k]]) : all[place[k] + j] = Decoded[report[k]][j]
        BY <1>5, <2>5 DEF Width
      <4>2. Within(Decoded[report[k]], all, place[k], place[k] + Len(Decoded[report[k]]))
        BY <3>2, <4>1, TogetherIsWithin
      <4> QED BY <4>2 DEF Width
    <3>6. Within(c[k - 1], all, lo, place[k])
      <4>1. \A w : Within(w, all, lo, e) => Within(w, all, lo, place[k])
        <5>1. lo \in Nat /\ place[k] \in Nat /\ e \in Nat /\ lo <= lo /\ e <= place[k]
          BY <3>2, <3>4
        <5> HIDE DEF end, Behind, Bad
        <5> QED BY <5>1, WithinWider
      <4> QED BY <3>4, <4>1
    <3>7. Within(c[k], all, lo, end)
      <4>1. end \in Nat /\ place[k] <= end /\ lo \in Nat
        BY <3>2, <3>3
      <4> HIDE DEF end
      <4>2. Within(c[k - 1] \o Decoded[report[k]], all, lo, end)
        BY ONLY <3>1, <3>2, <3>3, <3>5, <3>6, <4>1, WithinConcat
      <4> QED BY <3>1, <4>2
    <3>8. \A y \in 1 .. n : k < y /\ Pressed(y) => end <= place[y]
      BY <1>5, <2>5
    <3>9. end \in lo .. hi
      BY <3>2, <3>3
    <3> HIDE DEF end
    <3>10. Behind(k, end)
      BY <3>7, <3>8, <3>9
    <3> QED BY <2>1, <3>3, <3>10
  <2> QED BY <2>4, <2>5
<1>9. PICK e \in Nat : Behind(n, e)
  BY <1>3, <1>8
<1>10. Within(c[n], all, lo, hi) /\ c[n] \in Seq(Bytes)
  BY <1>3, <1>6, <1>9, WithinWider
<1> QED BY <1>1, <1>10 DEF n

\* Nothing was pressed between the two reports, or one key, which comes last.
OneStep(report, prev, lo, hi) ==
    \/ hi = lo /\ \A x \in 1 .. Len(report) : ~JustPressed(report[x], prev)
    \/ /\ report # <<>> /\ JustPressed(report[Len(report)], prev)
       /\ \A x \in 1 .. Len(report) - 1 : ~JustPressed(report[x], prev)
       /\ hi = lo + Width(report[Len(report)])

LEMMA EmittedIsAll ==
    ASSUME NEW report \in Seq(Keys), NEW prev, NEW lo \in Nat, NEW hi \in Nat,
           OneStep(report, prev, lo, hi)
    PROVE  lo + Len(Emitted(report, prev)) = hi
<1>1. PICK c \in [0 .. Len(report) -> Seq(Bytes)] :
              Emits(report, prev, c) /\ Emitted(report, prev) = c[Len(report)]
  BY EmittedStepwise
<1> DEFINE n == Len(report)
           Pressed(x) == JustPressed(report[x], prev)
<1>2. n \in Nat /\ (\A x \in 1 .. n : report[x] \in Keys) /\ (report # <<>> => n # 0)
  BY LenProperties, EmptySeq
<1>3. \A i \in 0 .. n : c[i] = IF i = 0 THEN <<>>
                               ELSE IF Pressed(i) THEN c[i - 1] \o Decoded[report[i]]
                               ELSE c[i - 1]
  BY <1>1 DEF Emits
<1>4. \/ hi = lo /\ \A x \in 1 .. n : ~Pressed(x)
      \/ /\ n # 0 /\ Pressed(n) /\ (\A x \in 1 .. n - 1 : ~Pressed(x))
         /\ hi = lo + Width(report[n])
  BY <1>2 DEF OneStep
<1> HIDE DEF n, Pressed
<1>5. ASSUME NEW m \in 0 .. n, \A x \in 1 .. m : ~Pressed(x) PROVE c[m] = <<>>
  <2> DEFINE Bad == {i \in 0 .. m : c[i] # <<>>}
  <2> SUFFICES ASSUME Bad # {} PROVE FALSE
    BY <1>2
  <2>1. 0 \notin Bad /\ m \in Nat
    BY <1>2, <1>3
  <2>2. PICK k \in 1 .. m : k \in Bad /\ k - 1 \in 0 .. m /\ k - 1 \notin Bad
    <3>1. Bad \in SUBSET (0 .. m)
      OBVIOUS
    <3> HIDE DEF Bad
    <3> QED BY <2>1, <3>1, FirstBad
  <2>3. k \in 0 .. n /\ k # 0 /\ ~Pressed(k) /\ c[k - 1] = <<>>
    BY <1>2, <1>5, <2>1, <2>2
  <2> QED BY <1>3, <2>2, <2>3
<1>6. CASE hi = lo /\ \A x \in 1 .. n : ~Pressed(x)
  <2>1. c[n] = <<>>
    BY <1>2, <1>5, <1>6
  <2> QED BY <1>1, <1>6, <2>1 DEF n
<1>7. CASE /\ n # 0 /\ Pressed(n) /\ (\A x \in 1 .. n - 1 : ~Pressed(x))
           /\ hi = lo + Width(report[n])
  <2>1. n - 1 \in 0 .. n /\ n \in 1 .. n /\ n \in 0 .. n /\ c[n - 1] = <<>>
    <3>1. n - 1 \in 0 .. n /\ n \in 1 .. n /\ n \in 0 .. n
      BY ONLY <1>2, <1>7
    <3>2. c[n - 1] = <<>>
      BY ONLY <1>5, <1>7, <3>1
    <3> QED BY <3>1, <3>2
  <2>2. c[n] = <<>> \o Decoded[report[n]]
    BY <1>3, <1>7, <2>1
  <2>3. Decoded[report[n]] \in Seq(Bytes)
    BY <1>2, <2>1, DecodedBytes
  <2>4. c[n] = Decoded[report[n]]
    BY <2>2, <2>3, ConcatEmptySeq
  <2> QED BY <1>1, <1>7, <2>4 DEF n, Width
<1> QED BY <1>4, <1>6, <1>7

------------------------------------------------------------------------------
(* The ring.                                                                  *)

LEMMA RingRemainder ==
    ASSUME NEW x \in Int, -KBD_RING_SIZE < x, x < 2 * KBD_RING_SIZE
    PROVE  x % KBD_RING_SIZE = IF x < 0 THEN x + KBD_RING_SIZE
                               ELSE IF x < KBD_RING_SIZE THEN x ELSE x - KBD_RING_SIZE
<1>1. KBD_RING_SIZE \in Nat /\ KBD_RING_SIZE > 1
  BY KeyboardAssumption
<1>2. CASE x < 0
  BY <1>1, <1>2, SMTT(20)
<1>3. CASE x >= 0 /\ x < KBD_RING_SIZE
  BY <1>1, <1>3, SMTT(20)
<1>4. CASE x >= KBD_RING_SIZE
  BY <1>1, <1>4, SMTT(20)
<1> QED BY <1>1, <1>2, <1>3, <1>4

Indices == 0 .. KBD_RING_SIZE - 1

Wrapped(x) == IF x < KBD_RING_SIZE THEN x ELSE x - KBD_RING_SIZE

LEMMA RingWraps ==
    ASSUME NEW x \in Nat, x < 2 * KBD_RING_SIZE
    PROVE  x % KBD_RING_SIZE = Wrapped(x)
<1>1. KBD_RING_SIZE \in Nat /\ KBD_RING_SIZE > 1
  BY KeyboardAssumption
<1>2. -KBD_RING_SIZE < x /\ x \in Int /\ ~(x < 0)
  BY <1>1
<1> QED BY <1>2, RingRemainder DEF Wrapped

QueueType == [ring : [Indices -> Bytes \cup {"none"}], head : Indices, tail : Indices,
              prev_keys : Seq(Keys)]

\* A queue whose waiting bytes are bytes of keys.
GoodQueue(q) == q \in QueueType /\ Content(q) \in Seq(Bytes)

LEMMA RingCounts ==
    ASSUME NEW q \in QueueType
    PROVE  /\ InRing(q) = IF q.tail <= q.head THEN q.head - q.tail
                          ELSE q.head - q.tail + KBD_RING_SIZE
           /\ InRing(q) \in Indices
           /\ DOMAIN Content(q) = 1 .. InRing(q)
           /\ \A i \in 1 .. InRing(q) :
                 Content(q)[i] = q.ring[Wrapped(q.tail + i - 1)]
           /\ Content(q) = [i \in 1 .. InRing(q) |-> Content(q)[i]]
<1>1. /\ KBD_RING_SIZE \in Nat /\ KBD_RING_SIZE > 1
      /\ q.head \in Indices /\ q.tail \in Indices
  BY KeyboardAssumption DEF QueueType
<1>2. InRing(q) = IF q.tail <= q.head THEN q.head - q.tail
                  ELSE q.head - q.tail + KBD_RING_SIZE
  BY <1>1, RingRemainder DEF InRing, Indices
<1>3. InRing(q) \in Indices
  BY <1>1, <1>2 DEF Indices
<1>4. ASSUME NEW i \in 1 .. InRing(q)
      PROVE  Content(q)[i] = q.ring[Wrapped(q.tail + i - 1)]
  <2>1. q.tail + i - 1 \in Nat /\ q.tail + i - 1 < 2 * KBD_RING_SIZE
    BY <1>1, <1>3 DEF Indices
  <2>2. (q.tail + i - 1) % KBD_RING_SIZE = Wrapped(q.tail + i - 1)
    BY <2>1, RingWraps
  <2> QED BY <2>2 DEF Content
<1> QED BY <1>2, <1>3, <1>4 DEF Content

LEMMA PushAdds ==
    ASSUME NEW q, GoodQueue(q), NEW c \in Bytes
    PROVE  /\ GoodQueue(kbd_push(q, c)) /\ kbd_push(q, c).prev_keys = q.prev_keys
           /\ IsFull(q) => kbd_push(q, c) = q
           /\ ~IsFull(q) => Content(kbd_push(q, c)) = Append(Content(q), c)
<1>1. q \in QueueType /\ Content(q) \in Seq(Bytes)
  BY DEF GoodQueue
<1>2. CASE IsFull(q)
  BY <1>2 DEF kbd_push
<1>3. CASE ~IsFull(q)
  <2> DEFINE N == KBD_RING_SIZE
             next == (q.head + 1) % N
             r == kbd_push(q, c)
             n == InRing(q)
  <2>1. N \in Nat /\ N > 1 /\ q.head \in 0 .. N - 1 /\ q.tail \in 0 .. N - 1
        /\ q.ring \in [0 .. N - 1 -> Bytes \cup {"none"}]
    BY <1>1, KeyboardAssumption DEF QueueType, Indices
  <2>2. next = Wrapped(q.head + 1)
    <3>1. q.head + 1 \in Nat /\ q.head + 1 < 2 * N
      BY <2>1
    <3> QED BY <3>1, RingWraps
  <2>3. next # q.tail /\ next \in 0 .. N - 1
    BY <1>3, <2>1, <2>2 DEF IsFull, Wrapped
  <2>4. r = [q EXCEPT !.ring[q.head] = c, !.head = next]
    BY <1>3 DEF kbd_push
  <2>5. /\ r \in QueueType /\ r.head = next /\ r.tail = q.tail /\ r.prev_keys = q.prev_keys
        /\ r.ring = [q.ring EXCEPT ![q.head] = c]
    <3> DEFINE ring == [q.ring EXCEPT ![q.head] = c]
    <3>1. ring \in [Indices -> Bytes \cup {"none"}] /\ next \in Indices
      BY <2>1, <2>3 DEF Indices
    <3>2. r = [q EXCEPT !.ring = ring, !.head = next]
      BY <2>4
    <3> HIDE DEF ring, r, next
    <3>3. r \in QueueType /\ r.head = next /\ r.tail = q.tail /\ r.prev_keys = q.prev_keys
          /\ r.ring = ring
      BY ONLY <1>1, <3>1, <3>2 DEF QueueType
    <3> QED BY <3>3 DEF ring
  <2>6. /\ n = IF q.tail <= q.head THEN q.head - q.tail ELSE q.head - q.tail + N
        /\ n \in 0 .. N - 1
        /\ \A i \in 1 .. n : Content(q)[i] = q.ring[Wrapped(q.tail + i - 1)]
        /\ Content(q) = [i \in 1 .. n |-> Content(q)[i]]
    BY <1>1, RingCounts DEF Indices
  <2>7. /\ InRing(r) = IF r.tail <= r.head THEN r.head - r.tail ELSE r.head - r.tail + N
        /\ DOMAIN Content(r) = 1 .. InRing(r)
        /\ \A i \in 1 .. InRing(r) :
              Content(r)[i] = r.ring[Wrapped(r.tail + i - 1)]
        /\ Content(r) = [i \in 1 .. InRing(r) |-> Content(r)[i]]
    BY <2>5, RingCounts
  <2> HIDE DEF N, next, r, n
  <2>8. InRing(r) = n + 1
    <3>1. next = IF q.head + 1 < N THEN q.head + 1 ELSE q.head + 1 - N
      BY <2>1, <2>2 DEF Wrapped, N
    <3>2. InRing(r) = IF q.tail <= next THEN next - q.tail ELSE next - q.tail + N
      BY <2>5, <2>7
    <3>3. n = IF q.tail <= q.head THEN q.head - q.tail ELSE q.head - q.tail + N
      BY <2>6
    <3>4. N \in Nat /\ N > 1 /\ q.head \in 0 .. N - 1 /\ q.tail \in 0 .. N - 1 /\ next # q.tail
      BY <2>1, <2>3
    <3> QED BY <3>1, <3>2, <3>3, <3>4
  <2>9. ASSUME NEW i \in 1 .. n PROVE Content(r)[i] = Content(q)[i]
    <3> DEFINE j == Wrapped(q.tail + i - 1)
    <3>1. j # q.head /\ j \in 0 .. N - 1
      <4>1. j = IF q.tail + i - 1 < N THEN q.tail + i - 1 ELSE q.tail + i - 1 - N
        BY <2>1, <2>6 DEF Wrapped, N
      <4>2. i \in 1 .. n
        OBVIOUS
      <4> HIDE DEF j
      <4>3. CASE q.tail <= q.head
        BY ONLY <2>1, <2>6, <4>1, <4>2, <4>3
      <4>4. CASE ~(q.tail <= q.head)
        BY ONLY <2>1, <2>6, <4>1, <4>2, <4>4
      <4> QED BY <4>3, <4>4
    <3>2. r.ring[j] = q.ring[j]
      BY <2>1, <2>5, <3>1
    <3>3. i \in 1 .. InRing(r)
      BY <2>6, <2>8
    <3> QED BY <2>5, <2>6, <2>7, <3>2, <3>3
  <2>10. Content(r)[n + 1] = c
    <3> DEFINE j == Wrapped(q.tail + n)
    <3>1. j = q.head
      BY <2>1, <2>6 DEF Wrapped, N
    <3>2. r.ring[j] = c
      BY <2>1, <2>5, <3>1
    <3>3. n + 1 \in 1 .. InRing(r) /\ q.tail + (n + 1) - 1 = q.tail + n
      BY <2>1, <2>6, <2>8
    <3>4. Content(r)[n + 1] = r.ring[Wrapped(r.tail + (n + 1) - 1)]
      BY <2>7, <3>3
    <3>5. r.tail + (n + 1) - 1 = q.tail + n
      BY <2>5, <3>3
    <3> QED BY <3>2, <3>4, <3>5
  <2>11. Len(Content(q)) = n
    <3>1. Content(q) = [i \in 1 .. n |-> Content(q)[i]] /\ n \in Nat
      BY <2>6
    <3> QED BY <1>1, <3>1, LenProperties
  <2>13. n \in Nat
    BY <2>6
  <2>12. /\ Append(Content(q), c) \in Seq(Bytes) /\ Len(Append(Content(q), c)) = n + 1
         /\ \A i \in 1 .. n + 1 : Append(Content(q), c)[i] = IF i <= n THEN Content(q)[i] ELSE c
    BY <1>1, <2>11, <2>13, AppendProperties
  <2>14. Content(r) = Append(Content(q), c)
    <3>1. \A i \in 1 .. n + 1 : Content(r)[i] = IF i <= n THEN Content(q)[i] ELSE c
      BY <2>9, <2>10, <2>13
    <3>2. Content(r) = [i \in 1 .. n + 1 |-> Content(r)[i]]
      BY <2>7, <2>8
    <3>3. DOMAIN Append(Content(q), c) = 1 .. n + 1
      BY <2>12, LenProperties
    <3>4. Append(Content(q), c) = [i \in 1 .. n + 1 |-> Append(Content(q), c)[i]]
      <4>1. Append(Content(q), c) \in [1 .. n + 1 -> Bytes]
        BY <2>12, LenProperties
      <4> QED BY <4>1
    <3>5. \A i \in 1 .. n + 1 : Content(r)[i] = Append(Content(q), c)[i]
      BY <2>12, <3>1
    <3> QED BY <3>2, <3>4, <3>5
  <2>15. Append(Content(q), c) \in Seq(Bytes)
    BY <1>1
  <2> QED BY <1>3, <2>5, <2>14, <2>15 DEF GoodQueue, r
<1> QED BY <1>1, <1>2, <1>3 DEF GoodQueue

LEMMA RemoveTakesFirst ==
    ASSUME NEW q, GoodQueue(q), SomethingWaits(q)
    PROVE  /\ GoodQueue(Removed(q)) /\ Removed(q).prev_keys = q.prev_keys
           /\ usb_kbd_getc(q) \in Bytes
           /\ Content(q) = <<usb_kbd_getc(q)>> \o Content(Removed(q))
<1> DEFINE N == KBD_RING_SIZE
           next == (q.tail + 1) % N
           r == Removed(q)
           n == InRing(q)
           c == usb_kbd_getc(q)
<1>1. q \in QueueType /\ Content(q) \in Seq(Bytes)
  BY DEF GoodQueue
<1>2. N \in Nat /\ N > 1 /\ q.head \in 0 .. N - 1 /\ q.tail \in 0 .. N - 1 /\ q.head # q.tail
  BY <1>1, KeyboardAssumption DEF QueueType, Indices, SomethingWaits
<1>3. next = Wrapped(q.tail + 1)
  <2>1. q.tail + 1 \in Nat /\ q.tail + 1 < 2 * N
    BY <1>2
  <2> QED BY <2>1, RingWraps
<1>4. r = [q EXCEPT !.tail = next] /\ next \in 0 .. N - 1
  BY <1>2, <1>3 DEF Removed, Wrapped
<1>5. /\ r \in QueueType /\ r.head = q.head /\ r.tail = next /\ r.prev_keys = q.prev_keys
      /\ r.ring = q.ring
  BY <1>1, <1>4 DEF QueueType, Indices
<1>6. /\ n = IF q.tail <= q.head THEN q.head - q.tail ELSE q.head - q.tail + N
      /\ n \in 0 .. N - 1
      /\ \A i \in 1 .. n : Content(q)[i] = q.ring[Wrapped(q.tail + i - 1)]
      /\ Content(q) = [i \in 1 .. n |-> Content(q)[i]]
  BY <1>1, RingCounts DEF Indices
<1>7. /\ InRing(r) = IF r.tail <= r.head THEN r.head - r.tail ELSE r.head - r.tail + N
      /\ \A i \in 1 .. InRing(r) :
            Content(r)[i] = r.ring[Wrapped(r.tail + i - 1)]
      /\ Content(r) = [i \in 1 .. InRing(r) |-> Content(r)[i]]
  BY <1>5, RingCounts
<1>8. c = q.ring[q.tail]
  BY DEF usb_kbd_getc
<1> HIDE DEF N, next, r, n, c
<1>9. InRing(r) = n - 1 /\ n \in Nat /\ n # 0
  <2>1. next = IF q.tail + 1 < N THEN q.tail + 1 ELSE q.tail + 1 - N
    BY <1>2, <1>3 DEF Wrapped, N
  <2>2. InRing(r) = IF next <= q.head THEN q.head - next ELSE q.head - next + N
    BY ONLY <1>5, <1>7
  <2>3. n = IF q.tail <= q.head THEN q.head - q.tail ELSE q.head - q.tail + N
    BY ONLY <1>6
  <2> QED BY ONLY <1>2, <2>1, <2>2, <2>3
<1>10. Content(q)[1] = c
  <2>1. 1 \in 1 .. n /\ q.tail + 1 - 1 = q.tail /\ q.tail < N
    BY <1>2, <1>9
  <2>2. Content(q)[1] = q.ring[Wrapped(q.tail + 1 - 1)]
    BY <1>6, <2>1
  <2>3. Wrapped(q.tail + 1 - 1) = q.tail
    BY <1>2, <2>1 DEF Wrapped, N
  <2> QED BY <1>8, <2>2, <2>3
<1>11. Len(Content(q)) = n
  BY <1>1, <1>6, <1>9, LenProperties
<1>12. c \in Bytes
  <2>1. 1 \in 1 .. Len(Content(q))
    BY <1>9, <1>11
  <2> QED BY <1>1, <1>10, <2>1, ElementOfSeq
<1>13. ASSUME NEW i \in 1 .. n - 1 PROVE Content(r)[i] = Content(q)[i + 1]
  <2>1. i \in 1 .. InRing(r) /\ i + 1 \in 1 .. n
    BY <1>9
  <2>2. Content(r)[i] = q.ring[Wrapped(next + i - 1)]
    BY <1>5, <1>7, <2>1
  <2>3. Content(q)[i + 1] = q.ring[Wrapped(q.tail + (i + 1) - 1)]
    BY <1>6, <2>1
  <2>4. Wrapped(next + i - 1) = Wrapped(q.tail + (i + 1) - 1)
    <3>1. next = IF q.tail + 1 < N THEN q.tail + 1 ELSE q.tail + 1 - N
      BY <1>2, <1>3 DEF Wrapped, N
    <3>2. i \in Nat /\ 1 <= i /\ i + 1 < N
      BY <1>2, <1>6, <1>9
    <3>3. CASE q.tail + 1 < N
      <4>1. next + i - 1 = q.tail + (i + 1) - 1
        BY ONLY <1>2, <3>1, <3>2, <3>3
      <4> QED BY <4>1
    <3>4. CASE ~(q.tail + 1 < N)
      <4>1. next + i - 1 < N /\ ~(q.tail + (i + 1) - 1 < N)
            /\ next + i - 1 = q.tail + (i + 1) - 1 - N
        BY ONLY <1>2, <3>1, <3>2, <3>4
      <4>2. next \in Int
        BY ONLY <1>2, <3>1
      <4> QED BY <1>2, <3>2, <4>1, <4>2 DEF Wrapped, N
    <3> QED BY <3>3, <3>4
  <2> QED BY <2>2, <2>3, <2>4
<1>14. Content(q) # <<>>
  BY <1>9, <1>11
<1>15. /\ Tail(Content(q)) \in Seq(Bytes) /\ Len(Tail(Content(q))) = n - 1
       /\ \A i \in 1 .. n - 1 : Tail(Content(q))[i] = Content(q)[i + 1]
  BY <1>1, <1>9, <1>11, <1>14, HeadTailProperties
<1>16. Content(r) = Tail(Content(q))
  <2>1. Tail(Content(q)) \in [1 .. n - 1 -> Bytes]
    BY <1>15, LenProperties
  <2>2. Tail(Content(q)) = [i \in 1 .. n - 1 |-> Tail(Content(q))[i]]
    BY <2>1
  <2>3. Content(r) = [i \in 1 .. n - 1 |-> Content(r)[i]]
    BY <1>7, <1>9
  <2>4. \A i \in 1 .. n - 1 : Content(r)[i] = Tail(Content(q))[i]
    BY <1>13, <1>15
  <2> QED BY <2>2, <2>3, <2>4
<1>17. Content(q) = <<c>> \o Tail(Content(q))
  <2>2. <<c>> \in Seq(Bytes) /\ Len(<<c>>) = 1 /\ <<c>>[1] = c
    BY <1>12
  <2>3. /\ <<c>> \o Tail(Content(q)) \in Seq(Bytes) /\ Len(<<c>> \o Tail(Content(q))) = 1 + (n - 1)
        /\ \A i \in 1 .. 1 + (n - 1) : (<<c>> \o Tail(Content(q)))[i] =
                                IF i <= 1 THEN <<c>>[i] ELSE Tail(Content(q))[i - 1]
    BY <1>15, <2>2, ConcatProperties
  <2>4. ASSUME NEW i \in 1 .. n PROVE Content(q)[i] = (<<c>> \o Tail(Content(q)))[i]
    <3>1. CASE i = 1
      BY <1>9, <1>10, <2>2, <2>3, <3>1
    <3>2. CASE i # 1
      <4>1. i - 1 \in 1 .. n - 1 /\ (i - 1) + 1 = i /\ ~(i <= 1) /\ i \in 1 .. 1 + (n - 1)
        BY <1>9, <3>2
      <4>2. Tail(Content(q))[i - 1] = Content(q)[i]
        BY <1>15, <4>1
      <4> QED BY <2>3, <4>1, <4>2
    <3> QED BY <3>1, <3>2
  <2>5. 1 + (n - 1) = n
    BY <1>9
  <2> QED BY <1>1, <1>11, <2>3, <2>4, <2>5, SeqEqual
<1> QED BY <1>5, <1>12, <1>15, <1>16, <1>17 DEF GoodQueue, r, c

LEMMA ContentLength ==
    ASSUME NEW q, GoodQueue(q)
    PROVE  Len(Content(q)) = InRing(q)
<1>1. InRing(q) \in Nat /\ Content(q) = [i \in 1 .. InRing(q) |-> Content(q)[i]]
  BY RingCounts DEF GoodQueue, Indices
<1> QED BY <1>1, LenProperties DEF GoodQueue

GoodQueues == {q \in QueueType : Content(q) \in Seq(Bytes)}

Pushes(q, bytes, c) ==
    c = [n \in 0 .. Len(bytes) |-> IF n = 0 THEN q ELSE kbd_push(c[n - 1], bytes[n])]

LEMMA PushedStepwise ==
    ASSUME NEW q, GoodQueue(q), NEW bytes \in Seq(Bytes)
    PROVE  \E c : Pushes(q, bytes, c) /\ Pushed(q, bytes) = c[Len(bytes)]
<1> DEFINE n == Len(bytes)
           move == [i \in 1 .. n |-> [r \in GoodQueues |-> kbd_push(r, bytes[i])]]
<1>1. n \in Nat /\ \A i \in 1 .. n : bytes[i] \in Bytes
  BY LenProperties
<1>2. move \in [1 .. n -> [GoodQueues -> GoodQueues]]
  <2>1. \A i \in 1 .. n, r \in GoodQueues : kbd_push(r, bytes[i]) \in GoodQueues
    BY <1>1, PushAdds DEF GoodQueue, GoodQueues
  <2> QED BY <2>1
<1>3. \A i \in 1 .. n, r \in GoodQueues : move[i][r] = kbd_push(r, bytes[i])
  OBVIOUS
<1>4. q \in GoodQueues
  BY DEF GoodQueue, GoodQueues
<1> HIDE DEF n, move
<1>5. PICK f \in [0 .. n -> GoodQueues] : Iterates(q, n, move, f)
  BY <1>1, <1>2, <1>4, IterationExists
<1>6. ASSUME NEW i \in 0 .. n
      PROVE  f[i] = IF i = 0 THEN q ELSE kbd_push(f[i - 1], bytes[i])
  <2>1. f[i] = IF i = 0 THEN q ELSE move[i][f[i - 1]]
    BY <1>5 DEF Iterates
  <2>2. CASE i = 0
    BY <2>1, <2>2
  <2>3. CASE i # 0
    <3>1. i \in 1 .. n /\ i - 1 \in 0 .. n
      BY <1>1, <2>3
    <3>2. f[i - 1] \in GoodQueues
      BY <1>5, <3>1
    <3> QED BY <1>3, <2>1, <2>3, <3>1, <3>2
  <2> QED BY <2>2, <2>3
<1>7. Pushes(q, bytes, f)
  <2>1. f = [i \in 0 .. n |-> f[i]]
    BY <1>5
  <2>2. f = [i \in 0 .. n |-> IF i = 0 THEN q ELSE kbd_push(f[i - 1], bytes[i])]
    BY <1>6, <2>1
  <2> QED BY <2>2 DEF Pushes, n
<1>8. Pushed(q, bytes) = (CHOOSE c : Pushes(q, bytes, c))[Len(bytes)]
  BY DEF Pushed, Pushes
<1> QED BY <1>7, <1>8

\* The bytes put behind the others are a beginning of those pushed, all unless the ring
\* was full.
LEMMA PushedIsBeginning ==
    ASSUME NEW q, GoodQueue(q), NEW bytes \in Seq(Bytes)
    PROVE  /\ GoodQueue(Pushed(q, bytes)) /\ Pushed(q, bytes).prev_keys = q.prev_keys
           /\ \E k \in 0 .. Len(bytes) :
                 /\ Content(Pushed(q, bytes)) = Content(q) \o SubSeq(bytes, 1, k)
                 /\ InRing(Pushed(q, bytes)) = InRing(q) + k
<1>1. PICK c : Pushes(q, bytes, c) /\ Pushed(q, bytes) = c[Len(bytes)]
  BY PushedStepwise
<1> DEFINE n == Len(bytes)
           Held(i, k) == /\ GoodQueue(c[i]) /\ c[i].prev_keys = q.prev_keys
                         /\ k \in 0 .. i /\ Content(c[i]) = Content(q) \o SubSeq(bytes, 1, k)
                         /\ k # i => IsFull(c[i])
           Bad == {i \in 0 .. n : ~ \E k \in Nat : Held(i, k)}
<1>2. n \in Nat /\ (\A i \in 1 .. n : bytes[i] \in Bytes) /\ Content(q) \in Seq(Bytes)
  BY LenProperties DEF GoodQueue
<1>3. \A i \in 0 .. n : c[i] = IF i = 0 THEN q ELSE kbd_push(c[i - 1], bytes[i])
  BY <1>1 DEF Pushes
<1> HIDE DEF n
<1>4. 0 \notin Bad
  <2>1. c[0] = q
    BY <1>2, <1>3
  <2>2. SubSeq(bytes, 1, 0) = <<>>
    BY SubSeqEmpty
  <2>3. Content(q) \o <<>> = Content(q)
    BY <1>2, ConcatEmptySeq
  <2>4. Content(c[0]) = Content(q) \o SubSeq(bytes, 1, 0)
    BY <2>1, <2>2, <2>3, Zenon
  <2>5. GoodQueue(c[0]) /\ c[0].prev_keys = q.prev_keys
    BY <2>1
  <2>6. 0 \in 0 .. 0
    OBVIOUS
  <2>7. Held(0, 0)
    BY <2>4, <2>5, <2>6
  <2> HIDE DEF Held
  <2> QED BY <2>7
<1>5. ASSUME NEW k \in Nat, k + 1 \in 1 .. n
      PROVE  Append(Content(q) \o SubSeq(bytes, 1, k), bytes[k + 1])
                = Content(q) \o SubSeq(bytes, 1, k + 1)
  <2> DEFINE a == Content(q)
             b == SubSeq(bytes, 1, k)
             d == SubSeq(bytes, 1, k + 1)
             e == bytes[k + 1]
             m == Len(a)
  <2>1. m \in Nat /\ a \in Seq(Bytes) /\ e \in Bytes /\ k \in Nat
    BY <1>2, <1>5, LenProperties
  <2>2. b \in Seq(Bytes) /\ Len(b) = k /\ \A i \in 1 .. k : b[i] = bytes[i]
    <3>1. \A i \in 1 .. k : bytes[i] \in Bytes
      BY <1>2, <1>5
    <3>2. /\ b \in Seq(Bytes) /\ Len(b) = IF 1 <= k THEN k - 1 + 1 ELSE 0
          /\ \A i \in 1 .. k - 1 + 1 : b[i] = bytes[1 + i - 1]
      BY <3>1, SubSeqProperties
    <3> HIDE DEF b
    <3> QED BY <1>5, <3>2
  <2>3. d \in Seq(Bytes) /\ Len(d) = k + 1 /\ \A i \in 1 .. k + 1 : d[i] = bytes[i]
    <3>1. \A i \in 1 .. k + 1 : bytes[i] \in Bytes
      BY <1>2, <1>5
    <3>2. /\ d \in Seq(Bytes) /\ Len(d) = IF 1 <= k + 1 THEN k + 1 - 1 + 1 ELSE 0
          /\ \A i \in 1 .. k + 1 - 1 + 1 : d[i] = bytes[1 + i - 1]
      BY <3>1, SubSeqProperties
    <3> HIDE DEF d
    <3> QED BY <1>5, <3>2
  <2> HIDE DEF a, b, d, m
  <2>4. /\ a \o b \in Seq(Bytes) /\ Len(a \o b) = m + k
        /\ \A i \in 1 .. m + k : (a \o b)[i] = IF i <= m THEN a[i] ELSE b[i - m]
    BY <2>1, <2>2, ConcatProperties DEF m
  <2>5. /\ Append(a \o b, e) \in Seq(Bytes) /\ Len(Append(a \o b, e)) = m + k + 1
        /\ \A i \in 1 .. m + k : Append(a \o b, e)[i] = (a \o b)[i]
        /\ Append(a \o b, e)[m + k + 1] = e
    BY <2>1, <2>4, AppendProperties
  <2>6. /\ a \o d \in Seq(Bytes) /\ Len(a \o d) = m + (k + 1)
        /\ \A i \in 1 .. m + (k + 1) : (a \o d)[i] = IF i <= m THEN a[i] ELSE d[i - m]
    BY <2>1, <2>3, ConcatProperties DEF m
  <2>7. ASSUME NEW i \in 1 .. m + k + 1 PROVE Append(a \o b, e)[i] = (a \o d)[i]
    <3>1. CASE i = m + k + 1
      <4>1. /\ i \in 1 .. m + (k + 1) /\ ~(i <= m) /\ i - m = k + 1
            /\ k + 1 \in 1 .. k + 1
        BY <2>1, <3>1
      <4>2. (a \o d)[i] = d[i - m]
        BY <2>6, <4>1
      <4>3. d[k + 1] = e
        BY <2>3, <4>1 DEF e
      <4>4. Append(a \o b, e)[i] = e
        BY <2>5, <3>1
      <4> QED BY <4>1, <4>2, <4>3, <4>4
    <3>2. CASE i # m + k + 1 /\ i <= m
      BY <2>1, <2>4, <2>5, <2>6, <3>2
    <3>3. CASE i # m + k + 1 /\ ~(i <= m)
      <4>1. i \in 1 .. m + k /\ i - m \in 1 .. k /\ i - m \in 1 .. k + 1
        BY <2>1, <3>3
      <4>2. Append(a \o b, e)[i] = b[i - m]
        BY <2>4, <2>5, <3>3, <4>1
      <4>3. i \in 1 .. m + (k + 1)
        BY <2>1, <3>3
      <4>4. (a \o d)[i] = d[i - m]
        BY <2>6, <3>3, <4>3
      <4> QED BY <2>2, <2>3, <4>1, <4>2, <4>4
    <3> QED BY <3>1, <3>2, <3>3
  <2>8. m + k + 1 = m + (k + 1)
    BY <2>1
  <2>9. Append(a \o b, e) = a \o d
    BY <2>5, <2>6, <2>7, <2>8, SeqEqual
  <2> QED BY <2>9 DEF a, b, d
<1>6. Bad = {}
  <2> SUFFICES ASSUME Bad # {} PROVE FALSE
    OBVIOUS
  <2>1. PICK i \in 1 .. n : i \in Bad /\ i - 1 \in 0 .. n /\ i - 1 \notin Bad
    <3>1. Bad \in SUBSET (0 .. n)
      OBVIOUS
    <3> HIDE DEF Bad
    <3> QED BY <1>2, <1>4, <3>1, FirstBad
  <2>2. PICK k \in Nat : Held(i - 1, k)
    BY <2>1
  <2>3. i \in Nat /\ i # 0 /\ c[i] = kbd_push(c[i - 1], bytes[i]) /\ bytes[i] \in Bytes
    BY <1>2, <1>3, <2>1
  <2>4. CASE IsFull(c[i - 1])
    <3>1. c[i] = c[i - 1]
      BY <2>2, <2>3, <2>4, PushAdds
    <3>2. k \in 0 .. i
      BY <2>2, <2>3
    <3>3. Held(i, k)
      BY <2>2, <2>4, <3>1, <3>2
    <3> QED BY <2>1, <3>3
  <2>5. CASE ~IsFull(c[i - 1])
    <3>1. k = i - 1 /\ k + 1 = i
      BY <2>2, <2>3, <2>5
    <3>2. /\ GoodQueue(c[i]) /\ c[i].prev_keys = q.prev_keys
          /\ Content(c[i]) = Append(Content(c[i - 1]), bytes[i])
      BY <2>2, <2>3, <2>5, PushAdds
    <3>3. Content(c[i]) = Content(q) \o SubSeq(bytes, 1, i)
      BY <1>5, <2>1, <2>2, <3>1, <3>2
    <3>4. Held(i, i)
      BY <2>3, <3>2, <3>3
    <3> QED BY <2>1, <2>3, <3>4
  <2> QED BY <2>4, <2>5
<1>7. PICK k \in Nat : Held(n, k)
  <2>1. n \in 0 .. n
    BY <1>2
  <2> HIDE DEF Held
  <2> QED BY <1>6, <2>1
<1>8. InRing(c[n]) = InRing(q) + k
  <2>1. k \in 0 .. n /\ \A i \in 1 .. k : bytes[i] \in Bytes
    BY <1>2, <1>7
  <2>2. SubSeq(bytes, 1, k) \in Seq(Bytes) /\ Len(SubSeq(bytes, 1, k)) = IF 1 <= k THEN k - 1 + 1 ELSE 0
    BY <2>1, SubSeqProperties
  <2>3. Len(SubSeq(bytes, 1, k)) = k
    BY <1>2, <2>1, <2>2
  <2>4. Len(Content(q) \o SubSeq(bytes, 1, k)) = Len(Content(q)) + Len(SubSeq(bytes, 1, k))
    BY <1>2, <2>2, ConcatProperties
  <2>5. Len(Content(c[n])) = Len(Content(q)) + k
    BY <1>7, <2>3, <2>4
  <2>6. Len(Content(c[n])) = InRing(c[n]) /\ Len(Content(q)) = InRing(q)
    BY <1>7, ContentLength
  <2> QED BY <2>5, <2>6
<1> QED BY <1>1, <1>7, <1>8 DEF n

------------------------------------------------------------------------------
(* What is between the keyboard and the ring: the report the host knows, those that   *)
(* wait, and the keys that are down, each made when so much had been typed (marks).   *)

Snap(prev, reps, down, i) ==
    IF i = 0 THEN prev ELSE IF i <= Len(reps) THEN reps[i] ELSE down

Ordering(all, prev, reps, down, marks) ==
    /\ marks \in [0 .. Len(reps) + 1 -> 0 .. Len(all)]
    /\ marks[Len(reps) + 1] = Len(all)
    /\ \A i, j \in 0 .. Len(reps) + 1 : i < j =>
          /\ marks[i] <= marks[j]
          /\ Later(all, Snap(prev, reps, down, j), Snap(prev, reps, down, i), marks[i], marks[j])

\* As long as no report was lost.
Unbroken(prev, reps, down, marks) ==
    /\ down = Snap(prev, reps, down, Len(reps)) /\ marks[Len(reps) + 1] = marks[Len(reps)]
    /\ \A i \in 1 .. Len(reps) :
          OneStep(Snap(prev, reps, down, i), Snap(prev, reps, down, i - 1), marks[i - 1], marks[i])

LEMMA LaterSame ==
    ASSUME NEW report \in Seq(Keys), NEW all, NEW m \in Nat
    PROVE  Later(all, report, report, m, m)
<1>1. \A x \in 1 .. Len(report) : ~JustPressed(report[x], report)
  BY DEF JustPressed, Contains
<1> DEFINE place == [x \in 1 .. Len(report) |-> 0]
<1>2. Placed(all, report, report, m, m, place)
  BY <1>1 DEF Placed
<1> QED BY <1>2 DEF Later

LEMMA LaterTyped ==
    ASSUME NEW all \in Seq(Bytes), NEW more \in Seq(Bytes), NEW report \in Seq(Keys), NEW prev,
           NEW lo \in Nat, NEW hi \in 0 .. Len(all), Later(all, report, prev, lo, hi)
    PROVE  Later(all \o more, report, prev, lo, hi)
<1>1. PICK place : Placed(all, report, prev, lo, hi, place)
  BY DEF Later
<1>2. Len(all) \in Nat /\ \A i \in 1 .. Len(all) : (all \o more)[i] = all[i]
  <2>1. /\ Len(all) \in Nat /\ Len(more) \in Nat
        /\ \A i \in 1 .. Len(all) + Len(more) :
              (all \o more)[i] = IF i <= Len(all) THEN all[i] ELSE more[i - Len(all)]
    BY ConcatProperties, LenProperties
  <2> QED BY <2>1
<1>3. ASSUME NEW x \in 1 .. Len(report), JustPressed(report[x], prev),
             NEW j \in 1 .. Width(report[x])
      PROVE  (all \o more)[place[x] + j] = Decoded[report[x]][j]
  <2>1. /\ place[x] \in Nat /\ place[x] + Width(report[x]) <= hi
        /\ all[place[x] + j] = Decoded[report[x]][j]
    BY <1>1, <1>3 DEF Placed
  <2>2. Width(report[x]) \in Nat
    BY DecodedBytes, ElementOfSeq
  <2>3. place[x] + j \in 1 .. Len(all)
    BY <1>2, <2>1, <2>2
  <2> QED BY <1>2, <2>1, <2>3
<1>4. Placed(all \o more, report, prev, lo, hi, place)
  BY <1>1, <1>3 DEF Placed
<1> QED BY <1>4 DEF Later

\* A key is pressed.
LEMMA LaterPressed ==
    ASSUME NEW all \in Seq(Bytes), NEW down \in Seq(Keys), NEW k \in Keys, NEW prev,
           NEW lo \in 0 .. Len(all), Later(all, down, prev, lo, Len(all))
    PROVE  Later(all \o Decoded[k], Append(down, k), prev, lo, Len(all) + Width(k))
<1> DEFINE n == Len(down)
           L == Len(all)
           keys == Append(down, k)
           text == all \o Decoded[k]
<1>1. PICK place : Placed(all, down, prev, lo, L, place)
  BY DEF Later
<1>2. n \in Nat /\ L \in Nat /\ Width(k) \in Nat /\ Decoded[k] \in Seq(Bytes)
      /\ \A x \in 1 .. n : Width(down[x]) \in Nat
  BY DecodedBytes, LenProperties, ElementOfSeq
<1>3. Len(keys) = n + 1 /\ (\A x \in 1 .. n : keys[x] = down[x]) /\ keys[n + 1] = k
  BY AppendProperties
<1>4. \A i \in 1 .. L + Width(k) : text[i] = IF i <= L THEN all[i] ELSE Decoded[k][i - L]
  BY <1>2, ConcatProperties DEF Width
<1>5. /\ place \in [1 .. n -> Nat]
      /\ \A x \in 1 .. n : JustPressed(down[x], prev) =>
            /\ lo <= place[x] /\ place[x] + Width(down[x]) <= L
            /\ \A j \in 1 .. Width(down[x]) : all[place[x] + j] = Decoded[down[x]][j]
      /\ \A x, y \in 1 .. n : x < y /\ JustPressed(down[x], prev) /\ JustPressed(down[y], prev) =>
            place[x] + Width(down[x]) <= place[y]
  BY <1>1 DEF Placed
<1> DEFINE where == [x \in 1 .. n + 1 |-> IF x = n + 1 THEN L ELSE place[x]]
<1> HIDE DEF n, L, keys, text
<1>6. where \in [1 .. n + 1 -> Nat]
  BY <1>2, <1>5
<1>7. where[n + 1] = L /\ \A x \in 1 .. n : where[x] = place[x] /\ place[x] \in Nat
  BY <1>2, <1>5
<1>8. \A x \in 1 .. n + 1 : x = n + 1 \/ x \in 1 .. n
  BY <1>2
<1> HIDE DEF where
<1>9. ASSUME NEW x \in 1 .. n + 1, JustPressed(keys[x], prev)
      PROVE  /\ lo <= where[x] /\ where[x] + Width(keys[x]) <= L + Width(k)
             /\ \A j \in 1 .. Width(keys[x]) : text[where[x] + j] = Decoded[keys[x]][j]
  <2>1. CASE x = n + 1
    <3>1. keys[x] = k /\ where[x] = L /\ lo <= L
      BY <1>2, <1>3, <1>7, <2>1 DEF L
    <3>2. ASSUME NEW j \in 1 .. Width(k) PROVE text[L + j] = Decoded[k][j]
      <4>1. L + j \in 1 .. L + Width(k) /\ ~(L + j <= L) /\ (L + j) - L = j
        BY <1>2
      <4> QED BY <1>4, <4>1
    <3> QED BY <1>2, <3>1, <3>2
  <2>2. CASE x \in 1 .. n
    <3>1. keys[x] = down[x] /\ where[x] = place[x] /\ place[x] \in Nat /\ Width(down[x]) \in Nat
      BY <1>2, <1>3, <1>7, <2>2
    <3>2. /\ lo <= place[x] /\ place[x] + Width(down[x]) <= L
          /\ \A j \in 1 .. Width(down[x]) : all[place[x] + j] = Decoded[down[x]][j]
      BY <1>5, <1>9, <2>2, <3>1
    <3>3. ASSUME NEW j \in 1 .. Width(down[x]) PROVE text[place[x] + j] = Decoded[down[x]][j]
      <4>1. place[x] \in Nat /\ Width(down[x]) \in Nat /\ place[x] + Width(down[x]) <= L
            /\ L \in Nat /\ Width(k) \in Nat /\ j \in 1 .. Width(down[x])
        BY <1>2, <3>1, <3>2
      <4>2. place[x] + j \in 1 .. L + Width(k) /\ place[x] + j <= L
        BY ONLY <4>1
      <4> QED BY <1>4, <3>2, <4>2
    <3> QED BY <1>2, <3>1, <3>2, <3>3
  <2> QED BY <1>8, <2>1, <2>2
<1>10. ASSUME NEW x \in 1 .. n + 1, NEW y \in 1 .. n + 1, x < y,
              JustPressed(keys[x], prev), JustPressed(keys[y], prev)
       PROVE  where[x] + Width(keys[x]) <= where[y]
  <2>1. x \in 1 .. n /\ keys[x] = down[x] /\ where[x] = place[x] /\ Width(down[x]) \in Nat
    BY <1>2, <1>3, <1>7, <1>10
  <2>2. CASE y = n + 1
    BY <1>5, <1>7, <1>10, <2>1, <2>2
  <2>3. CASE y \in 1 .. n
    <3>1. keys[y] = down[y] /\ where[y] = place[y]
      BY <1>3, <1>7, <2>3
    <3> QED BY <1>5, <1>10, <2>1, <2>3, <3>1
  <2> QED BY <1>8, <2>2, <2>3
<1>11. Placed(text, keys, prev, lo, L + Width(k), where)
  BY <1>3, <1>6, <1>9, <1>10 DEF Placed
<1> QED BY <1>11 DEF Later, text, keys, L

LEMMA RemovedKeys ==
    ASSUME NEW down \in Seq(Keys), NEW i \in 1 .. Len(down)
    PROVE  /\ RemoveAt(down, i) \in Seq(Keys) /\ Len(RemoveAt(down, i)) = Len(down) - 1
           /\ \A x \in 1 .. Len(down) - 1 :
                 RemoveAt(down, i)[x] = down[IF x < i THEN x ELSE x + 1]
<1> DEFINE n == Len(down)
           a == SubSeq(down, 1, i - 1)
           b == SubSeq(down, i + 1, n)
<1>1. n \in Nat /\ i \in 1 .. n /\ \A x \in 1 .. n : down[x] \in Keys
  BY LenProperties
<1>2. a \in Seq(Keys) /\ Len(a) = i - 1 /\ \A x \in 1 .. i - 1 : a[x] = down[x]
  <2>1. i - 1 \in Int /\ \A x \in 1 .. i - 1 : down[x] \in Keys
    BY <1>1
  <2>2. /\ a \in Seq(Keys) /\ Len(a) = IF 1 <= i - 1 THEN i - 1 - 1 + 1 ELSE 0
        /\ \A x \in 1 .. i - 1 - 1 + 1 : a[x] = down[1 + x - 1]
    BY <2>1, SubSeqProperties
  <2> HIDE DEF a
  <2> QED BY <1>1, <2>2
<1>3. b \in Seq(Keys) /\ Len(b) = n - i /\ \A x \in 1 .. n - i : b[x] = down[x + i]
  <2>1. i + 1 \in Int /\ n \in Int /\ \A x \in i + 1 .. n : down[x] \in Keys
    BY <1>1
  <2>2. /\ b \in Seq(Keys) /\ Len(b) = IF i + 1 <= n THEN n - (i + 1) + 1 ELSE 0
        /\ \A x \in 1 .. n - (i + 1) + 1 : b[x] = down[i + 1 + x - 1]
    BY <2>1, SubSeqProperties
  <2> HIDE DEF b, n
  <2>3. Len(b) = n - i
    BY <1>1, <2>2
  <2>4. ASSUME NEW x \in 1 .. n - i PROVE b[x] = down[x + i]
    <3>1. x \in 1 .. n - (i + 1) + 1 /\ i + 1 + x - 1 = x + i
      BY <1>1
    <3> QED BY <2>2, <3>1
  <2> QED BY <2>2, <2>3, <2>4
<1> HIDE DEF n, a, b
<1>4. /\ a \o b \in Seq(Keys) /\ Len(a \o b) = (i - 1) + (n - i)
      /\ \A x \in 1 .. (i - 1) + (n - i) : (a \o b)[x] = IF x <= i - 1 THEN a[x] ELSE b[x - (i - 1)]
  <2>1. /\ a \o b \in Seq(Keys) /\ Len(a \o b) = Len(a) + Len(b)
        /\ \A x \in 1 .. Len(a) + Len(b) : (a \o b)[x] = IF x <= Len(a) THEN a[x] ELSE b[x - Len(a)]
    BY <1>2, <1>3, ConcatProperties
  <2> QED BY <1>2, <1>3, <2>1
<1>5. ASSUME NEW x \in 1 .. n - 1 PROVE (a \o b)[x] = down[IF x < i THEN x ELSE x + 1]
  <2>1. x \in 1 .. (i - 1) + (n - i)
    BY <1>1
  <2>2. CASE x < i
    <3>1. x <= i - 1 /\ x \in 1 .. i - 1
      BY <1>1, <2>2
    <3> QED BY <1>2, <1>4, <2>1, <2>2, <3>1
  <2>3. CASE ~(x < i)
    <3>1. ~(x <= i - 1) /\ x - (i - 1) \in 1 .. n - i /\ x - (i - 1) + i = x + 1
      BY <1>1, <2>3
    <3> QED BY <1>3, <1>4, <2>1, <2>3, <3>1
  <2> QED BY <2>2, <2>3
<1>6. (i - 1) + (n - i) = n - 1
  BY <1>1
<1> QED BY <1>4, <1>5, <1>6 DEF RemoveAt, n, a, b

\* A key is released.
LEMMA LaterReleased ==
    ASSUME NEW all, NEW down \in Seq(Keys), NEW i \in 1 .. Len(down), NEW prev,
           NEW lo, NEW hi, Later(all, down, prev, lo, hi)
    PROVE  Later(all, RemoveAt(down, i), prev, lo, hi)
<1> DEFINE n == Len(down)
           keys == RemoveAt(down, i)
           old(x) == IF x < i THEN x ELSE x + 1
<1>1. PICK place : Placed(all, down, prev, lo, hi, place)
  BY DEF Later
<1>2. n \in Nat
  BY LenProperties
<1>3. Len(keys) = n - 1 /\ \A x \in 1 .. n - 1 : keys[x] = down[old(x)]
  BY RemovedKeys
<1>4. (\A x \in 1 .. n - 1 : old(x) \in 1 .. n) /\ \A x, y \in 1 .. n - 1 : x < y => old(x) < old(y)
  BY <1>2
<1>5. /\ place \in [1 .. n -> Nat]
      /\ \A x \in 1 .. n : JustPressed(down[x], prev) =>
            /\ lo <= place[x] /\ place[x] + Width(down[x]) <= hi
            /\ \A j \in 1 .. Width(down[x]) : all[place[x] + j] = Decoded[down[x]][j]
      /\ \A x, y \in 1 .. n : x < y /\ JustPressed(down[x], prev) /\ JustPressed(down[y], prev) =>
            place[x] + Width(down[x]) <= place[y]
  BY <1>1 DEF Placed
<1> HIDE DEF n, keys, old
<1> DEFINE where == [x \in 1 .. n - 1 |-> place[old(x)]]
<1>6. where \in [1 .. n - 1 -> Nat] /\ \A x \in 1 .. n - 1 : where[x] = place[old(x)]
  BY <1>4, <1>5
<1> HIDE DEF where
<1>7. ASSUME NEW x \in 1 .. n - 1, JustPressed(keys[x], prev)
      PROVE  /\ lo <= where[x] /\ where[x] + Width(keys[x]) <= hi
             /\ \A j \in 1 .. Width(keys[x]) : all[where[x] + j] = Decoded[keys[x]][j]
  <2>1. keys[x] = down[old(x)] /\ where[x] = place[old(x)] /\ old(x) \in 1 .. n
    BY <1>3, <1>4, <1>6
  <2> QED BY <1>5, <1>7, <2>1
<1>8. ASSUME NEW x \in 1 .. n - 1, NEW y \in 1 .. n - 1, x < y,
             JustPressed(keys[x], prev), JustPressed(keys[y], prev)
      PROVE  where[x] + Width(keys[x]) <= where[y]
  <2>1. keys[x] = down[old(x)] /\ where[x] = place[old(x)] /\ old(x) \in 1 .. n
    BY <1>3, <1>4, <1>6
  <2>2. keys[y] = down[old(y)] /\ where[y] = place[old(y)] /\ old(y) \in 1 .. n
    BY <1>3, <1>4, <1>6
  <2>3. old(x) < old(y)
    BY <1>4, <1>8
  <2> QED BY <1>5, <1>8, <2>1, <2>2, <2>3
<1>9. Placed(all, keys, prev, lo, hi, where)
  BY <1>3, <1>6, <1>7, <1>8 DEF Placed
<1> QED BY <1>9 DEF Later, keys

LEMMA SnapIsKeys ==
    ASSUME NEW prev \in Seq(Keys), NEW reps \in Seq(Seq(Keys)), NEW down \in Seq(Keys)
    PROVE  /\ \A i \in 0 .. Len(reps) + 1 : Snap(prev, reps, down, i) \in Seq(Keys)
           /\ Snap(prev, reps, down, Len(reps) + 1) = down
           /\ Snap(prev, reps, down, 0) = prev
<1>1. Len(reps) \in Nat /\ \A i \in 1 .. Len(reps) : reps[i] \in Seq(Keys)
  BY LenProperties
<1> QED BY <1>1 DEF Snap

\* What lay between two reports lies there still.
Lasting(all, text) ==
    \A report, s \in Seq(Keys), lo \in Nat, hi \in 0 .. Len(all) :
        Later(all, report, s, lo, hi) => Later(text, report, s, lo, hi)

\* And the keys that are down now, with what they typed, come after it.
Following(all, down, text, now) ==
    \A s \in Seq(Keys), lo \in 0 .. Len(all) :
        Later(all, down, s, lo, Len(all)) => Later(text, now, s, lo, Len(text))

\* The keyboard makes a report.
LEMMA NewReport ==
    ASSUME NEW all \in Seq(Bytes), NEW text \in Seq(Bytes), NEW prev \in Seq(Keys),
           NEW reps \in Seq(Seq(Keys)), NEW down \in Seq(Keys), NEW now \in Seq(Keys),
           NEW marks, Ordering(all, prev, reps, down, marks), Len(all) <= Len(text),
           Lasting(all, text), Following(all, down, text, now),
           OneStep(now, down, Len(all), Len(text))
    PROVE  \E new : /\ Ordering(text, prev, Append(reps, now), now, new) /\ new[0] = marks[0]
                    /\ Unbroken(prev, reps, down, marks) =>
                          Unbroken(prev, Append(reps, now), now, new)
<1> DEFINE n == Len(reps)
           S(i) == Snap(prev, reps, down, i)
           T(i) == Snap(prev, Append(reps, now), now, i)
           new == [i \in 0 .. n + 2 |-> IF i <= n THEN marks[i] ELSE Len(text)]
<1>a. \A report, s \in Seq(Keys), lo \in Nat, hi \in 0 .. Len(all) :
          Later(all, report, s, lo, hi) => Later(text, report, s, lo, hi)
  BY DEF Lasting
<1>b. \A s \in Seq(Keys), lo \in 0 .. Len(all) :
          Later(all, down, s, lo, Len(all)) => Later(text, now, s, lo, Len(text))
  BY DEF Following
<1>1. n \in Nat /\ Len(all) \in Nat /\ Len(text) \in Nat
      /\ Len(Append(reps, now)) = n + 1 /\ Append(reps, now)[n + 1] = now
      /\ \A i \in 1 .. n : Append(reps, now)[i] = reps[i]
  BY AppendProperties, LenProperties
<1>2. \A i \in 0 .. n + 2 : T(i) = IF i <= n THEN S(i) ELSE now
  BY <1>1 DEF Snap
<1>3. S(n + 1) = down /\ \A i \in 0 .. n + 1 : S(i) \in Seq(Keys)
  BY SnapIsKeys
<1>4. /\ marks \in [0 .. n + 1 -> 0 .. Len(all)] /\ marks[n + 1] = Len(all)
      /\ \A i, j \in 0 .. n + 1 : i < j =>
            marks[i] <= marks[j] /\ Later(all, S(j), S(i), marks[i], marks[j])
  BY DEF Ordering
<1>5. \A i \in 0 .. n + 2 : new[i] = IF i <= n THEN marks[i] ELSE Len(text)
  OBVIOUS
<1>6. new \in [0 .. n + 2 -> 0 .. Len(text)]
  <2> HIDE DEF n, S, T
  <2>1. Len(all) <= Len(text)
    OBVIOUS
  <2>2. \A m \in 0 .. Len(all) : m \in 0 .. Len(text)
    BY ONLY <1>1, <2>1
  <2>3. \A i \in 0 .. n : marks[i] \in 0 .. Len(text)
    <3>1. \A i \in 0 .. n : i \in 0 .. n + 1
      BY ONLY <1>1
    <3> QED BY ONLY <1>4, <2>2, <3>1
  <2>4. \A i \in 0 .. n + 2 : i <= n => i \in 0 .. n
    BY ONLY <1>1
  <2>5. Len(text) \in 0 .. Len(text)
    BY ONLY <1>1
  <2> QED BY ONLY <2>3, <2>4, <2>5 DEF new
<1> HIDE DEF n, S, T, new
<1>7. ASSUME NEW i \in 0 .. n + 2, NEW j \in 0 .. n + 2, i < j
      PROVE  new[i] <= new[j] /\ Later(text, T(j), T(i), new[i], new[j])
  <2>1. CASE j <= n
    <3>1. i \in 0 .. n + 1 /\ j \in 0 .. n + 1 /\ i <= n
      BY ONLY <1>1, <1>7, <2>1, i \in 0 .. n + 2, j \in 0 .. n + 2
    <3>2. new[i] = marks[i] /\ new[j] = marks[j] /\ T(i) = S(i) /\ T(j) = S(j)
      BY ONLY <1>2, <1>5, <2>1, <3>1, i \in 0 .. n + 2, j \in 0 .. n + 2
    <3>3. marks[i] <= marks[j] /\ Later(all, S(j), S(i), marks[i], marks[j])
      BY ONLY <1>4, <1>7, <3>1
    <3>4. marks[i] \in 0 .. Len(all) /\ marks[j] \in 0 .. Len(all)
      BY ONLY <1>4, <3>1
    <3>5. S(i) \in Seq(Keys) /\ S(j) \in Seq(Keys) /\ marks[i] \in Nat
      BY ONLY <1>1, <1>3, <3>1, <3>4
    <3>6. Later(text, S(j), S(i), marks[i], marks[j])
      BY ONLY <1>a, <3>3, <3>4, <3>5
    <3> QED BY ONLY <3>2, <3>3, <3>6
  <2>2. CASE ~(j <= n) /\ i <= n
    <3>1. i \in 0 .. n + 1 /\ n + 1 \in 0 .. n + 1 /\ i < n + 1
      BY <1>1, <2>2
    <3>2. new[i] = marks[i] /\ new[j] = Len(text) /\ T(i) = S(i) /\ T(j) = now
      BY <1>2, <1>5, <2>2
    <3>3. /\ Later(all, down, S(i), marks[i], Len(all)) /\ marks[i] \in 0 .. Len(all)
          /\ S(i) \in Seq(Keys)
      BY ONLY <1>3, <1>4, <3>1
    <3>4. Later(text, now, S(i), marks[i], Len(text))
      BY ONLY <1>b, <3>3
    <3>5. Len(all) <= Len(text)
      OBVIOUS
    <3> QED BY ONLY <1>1, <3>2, <3>3, <3>4, <3>5
  <2>3. CASE ~(j <= n) /\ ~(i <= n)
    <3>1. new[i] = Len(text) /\ new[j] = Len(text) /\ T(i) = now /\ T(j) = now
      BY <1>2, <1>5, <2>3
    <3> QED BY <1>1, <3>1, LaterSame
  <2>4. i <= n \/ ~(j <= n)
    BY <1>1, <1>7
  <2> QED BY <2>1, <2>2, <2>3, <2>4
<1>8. new[n + 2] = Len(text) /\ new[n + 1] = Len(text) /\ new[0] = marks[0]
  <2>1. n + 2 \in 0 .. n + 2 /\ n + 1 \in 0 .. n + 2 /\ 0 \in 0 .. n + 2 /\ 0 <= n
        /\ ~(n + 2 <= n) /\ ~(n + 1 <= n)
    BY <1>1
  <2> QED BY <1>5, <2>1
<1>9. (n + 1) + 1 = n + 2
  BY <1>1
<1>10. Ordering(text, prev, Append(reps, now), now, new)
  BY <1>1, <1>6, <1>7, <1>8, <1>9 DEF Ordering, T
<1>11. ASSUME Unbroken(prev, reps, down, marks)
       PROVE  Unbroken(prev, Append(reps, now), now, new)
  <2>1. /\ down = S(n) /\ marks[n + 1] = marks[n]
        /\ \A i \in 1 .. n : OneStep(S(i), S(i - 1), marks[i - 1], marks[i])
    BY <1>11 DEF Unbroken, S, n
  <2>2. n \in 0 .. n + 2 /\ n <= n /\ n + 1 \in 0 .. n + 2 /\ ~(n + 1 <= n) /\ (n + 1) - 1 = n
    BY <1>1
  <2>3. T(n) = down /\ new[n] = Len(all) /\ T(n + 1) = now
    BY <1>2, <1>4, <1>5, <2>1, <2>2
  <2>4. ASSUME NEW i \in 1 .. n + 1 PROVE OneStep(T(i), T(i - 1), new[i - 1], new[i])
    <3>1. CASE i = n + 1
      BY <1>8, <2>2, <2>3, <3>1
    <3>2. CASE i # n + 1
      <4>1. i \in 1 .. n /\ i \in 0 .. n + 2 /\ i <= n /\ i - 1 \in 0 .. n + 2 /\ i - 1 <= n
        BY <1>1, <3>2
      <4> QED BY <1>2, <1>5, <2>1, <4>1
    <3> QED BY <3>1, <3>2
  <2> QED BY <1>1, <1>8, <1>9, <2>3, <2>4 DEF Unbroken, T
<1> QED BY <1>8, <1>10, <1>11

\* The oldest report is gone: taken, and then it is the one the host knows, or lost.
LEMMA ReportGone ==
    ASSUME NEW all \in Seq(Bytes), NEW prev \in Seq(Keys), NEW reps \in Seq(Seq(Keys)),
           reps # <<>>, NEW down \in Seq(Keys), NEW marks,
           Ordering(all, prev, reps, down, marks)
    PROVE  /\ \E new : /\ Ordering(all, reps[1], Tail(reps), down, new) /\ new[0] = marks[1]
                       /\ Unbroken(prev, reps, down, marks) =>
                             Unbroken(reps[1], Tail(reps), down, new)
           /\ \E new : Ordering(all, prev, Tail(reps), down, new) /\ new[0] = marks[0]
           /\ marks[0] \in Nat /\ marks[1] \in Nat /\ marks[0] <= marks[1]
           /\ Later(all, reps[1], prev, marks[0], marks[1])
           /\ Unbroken(prev, reps, down, marks) => OneStep(reps[1], prev, marks[0], marks[1])
<1> DEFINE n == Len(reps)
           S(i) == Snap(prev, reps, down, i)
           T(i) == Snap(reps[1], Tail(reps), down, i)
           U(i) == Snap(prev, Tail(reps), down, i)
           taken == [i \in 0 .. n |-> marks[i + 1]]
           lost == [i \in 0 .. n |-> IF i = 0 THEN marks[0] ELSE marks[i + 1]]
<1>1. /\ n \in Nat /\ n # 0 /\ Len(all) \in Nat /\ Len(Tail(reps)) = n - 1
      /\ \A i \in 1 .. n - 1 : Tail(reps)[i] = reps[i + 1]
  BY HeadTailProperties, LenProperties, EmptySeq
<1>2. /\ \A i \in 0 .. n : T(i) = S(i + 1)
      /\ \A i \in 0 .. n : U(i) = IF i = 0 THEN S(0) ELSE S(i + 1)
      /\ S(0) = prev /\ S(1) = reps[1]
  <2>1. ASSUME NEW i \in 0 .. n PROVE T(i) = S(i + 1) /\ U(i) = IF i = 0 THEN S(0) ELSE S(i + 1)
    <3>1. i + 1 # 0 /\ (i # 0 => i \in 1 .. n)
          /\ (i <= n - 1 <=> i + 1 <= n) /\ (i # 0 /\ i <= n - 1 => i \in 1 .. n - 1)
      BY ONLY <1>1, i \in 0 .. n
    <3>2. CASE i = 0
      BY <1>1, <3>1, <3>2 DEF Snap
    <3>3. CASE i # 0 /\ i <= n - 1
      BY <1>1, <3>1, <3>3 DEF Snap
    <3>4. CASE i # 0 /\ ~(i <= n - 1)
      BY <1>1, <3>1, <3>4 DEF Snap
    <3> QED BY <3>2, <3>3, <3>4
  <2>2. S(0) = prev /\ S(1) = reps[1]
    BY <1>1 DEF Snap
  <2> QED BY <2>1, <2>2
<1>4. /\ marks \in [0 .. n + 1 -> 0 .. Len(all)] /\ marks[n + 1] = Len(all)
      /\ \A i, j \in 0 .. n + 1 : i < j =>
            marks[i] <= marks[j] /\ Later(all, S(j), S(i), marks[i], marks[j])
  BY DEF Ordering
<1>5. /\ taken \in [0 .. n -> 0 .. Len(all)] /\ lost \in [0 .. n -> 0 .. Len(all)]
      /\ \A i \in 0 .. n : taken[i] = marks[i + 1]
      /\ \A i \in 0 .. n : lost[i] = IF i = 0 THEN marks[0] ELSE marks[i + 1]
  <2>1. \A i \in 0 .. n : i + 1 \in 0 .. n + 1
    BY ONLY <1>1
  <2>2. 0 \in 0 .. n + 1
    BY ONLY <1>1
  <2> HIDE DEF n, S, T, U
  <2>3. \A i \in 0 .. n + 1 : marks[i] \in 0 .. Len(all)
    BY ONLY <1>4
  <2>4. \A i \in 0 .. n : marks[i + 1] \in 0 .. Len(all)
    BY ONLY <2>1, <2>3
  <2> QED BY ONLY <2>2, <2>3, <2>4 DEF taken, lost
<1> HIDE DEF n, S, T, U, taken, lost
<1>6. ASSUME NEW i \in 0 .. n, NEW j \in 0 .. n, i < j
      PROVE  /\ taken[i] <= taken[j] /\ Later(all, T(j), T(i), taken[i], taken[j])
             /\ lost[i] <= lost[j] /\ Later(all, U(j), U(i), lost[i], lost[j])
  <2>1. /\ i + 1 \in 0 .. n + 1 /\ j + 1 \in 0 .. n + 1 /\ i + 1 < j + 1 /\ j # 0
        /\ 0 \in 0 .. n + 1 /\ 0 < j + 1
    BY <1>1, <1>6
  <2>2. CASE i = 0
    BY <1>2, <1>4, <1>5, <2>1, <2>2
  <2>3. CASE i # 0
    BY <1>2, <1>4, <1>5, <2>1, <2>3
  <2> QED BY <2>2, <2>3
<1>7. /\ (n - 1) + 1 = n /\ n \in 0 .. n /\ 0 \in 0 .. n /\ 0 + 1 = 1
      /\ n - 1 \in 0 .. n
  BY <1>1
<1>8. taken[n] = Len(all) /\ lost[n] = Len(all) /\ taken[0] = marks[1] /\ lost[0] = marks[0]
  BY <1>1, <1>4, <1>5, <1>7
<1>9. Ordering(all, reps[1], Tail(reps), down, taken)
  BY <1>1, <1>5, <1>6, <1>7, <1>8 DEF Ordering, T
<1>10. Ordering(all, prev, Tail(reps), down, lost)
  BY <1>1, <1>5, <1>6, <1>7, <1>8 DEF Ordering, U
<1>11. ASSUME Unbroken(prev, reps, down, marks)
       PROVE  /\ Unbroken(reps[1], Tail(reps), down, taken)
              /\ OneStep(reps[1], prev, marks[0], marks[1])
  <2>1. /\ down = S(n) /\ marks[n + 1] = marks[n]
        /\ \A i \in 1 .. n : OneStep(S(i), S(i - 1), marks[i - 1], marks[i])
    BY <1>11 DEF Unbroken, S, n
  <2>2. OneStep(reps[1], prev, marks[0], marks[1])
    <3>1. 1 \in 1 .. n /\ 1 - 1 = 0
      BY <1>1
    <3> QED BY <1>2, <2>1, <3>1
  <2>3. down = T(n - 1) /\ taken[n] = taken[n - 1]
    BY <1>2, <1>5, <1>7, <2>1
  <2>4. ASSUME NEW i \in 1 .. n - 1 PROVE OneStep(T(i), T(i - 1), taken[i - 1], taken[i])
    <3>1. i \in 0 .. n /\ i - 1 \in 0 .. n /\ (i - 1) + 1 = i /\ i + 1 \in 1 .. n /\ (i + 1) - 1 = i
      BY <1>1
    <3> QED BY <1>2, <1>5, <2>1, <3>1
  <2> QED BY <1>1, <1>7, <2>2, <2>3, <2>4 DEF Unbroken, T
<1>12. /\ marks[0] \in Nat /\ marks[1] \in Nat /\ marks[0] <= marks[1]
       /\ Later(all, reps[1], prev, marks[0], marks[1])
  <2>1. 0 \in 0 .. n + 1 /\ 1 \in 0 .. n + 1 /\ 0 < 1
    BY <1>1
  <2> QED BY <1>1, <1>2, <1>4, <2>1
<1> QED BY <1>8, <1>9, <1>10, <1>11, <1>12

------------------------------------------------------------------------------
(* The invariant of the keyboard.                                             *)

\* What was typed before the report the host knows was made has been handed over, or
\* waits in the ring, in its order; and all of it, unless something was lost.
InStep(out, q, reps, lost) ==
    \E marks :
        /\ Ordering(typed, q.prev_keys, reps, held, marks)
        /\ Within(out, typed, 0, marks[0])
        /\ ~lost.late => Unbroken(q.prev_keys, reps, held, marks)
        /\ ~lost.late /\ ~lost.dropped => Len(out) = marks[0]

KeysTyped == typed \in Seq(Bytes) /\ held \in Seq(Keys)

QueueGood(q, reps, lost) ==
    /\ GoodQueue(q) /\ reps \in Seq(Seq(Keys)) /\ lost \in TroubleType
    /\ InStep(given \o Content(q), q, reps, lost)

KeysInv == KeysTyped /\ given \in Seq(Bytes) /\ QueueGood(queue, reports, trouble)

LEMMA KeysBegin == UsbInit => KeysInv
<1> SUFFICES ASSUME UsbInit PROVE KeysInv
  OBVIOUS
<1>1. /\ typed = <<>> /\ given = <<>> /\ held = <<>> /\ reports = <<>>
      /\ trouble \in TroubleType
      /\ queue = [ring |-> [i \in 0 .. KBD_RING_SIZE - 1 |-> "none"], head |-> 0, tail |-> 0,
                  prev_keys |-> <<>>]
  BY DEF UsbInit, NoTrouble, TroubleType
<1>2. queue \in QueueType /\ queue.prev_keys = <<>> /\ queue.head = 0 /\ queue.tail = 0
  <2>1. 0 \in Indices
    BY KeyboardAssumption DEF Indices
  <2> QED BY <1>1, <2>1 DEF QueueType, Indices
<1>3. Content(queue) = <<>>
  <2>1. InRing(queue) = 0
    BY <1>2, RingCounts
  <2>2. Content(queue) = [i \in 1 .. 0 |-> queue.ring[(queue.tail + i - 1) % KBD_RING_SIZE]]
    BY <2>1 DEF Content
  <2> QED BY <2>2
<1>4. given \o Content(queue) = <<>> /\ GoodQueue(queue)
  BY <1>1, <1>2, <1>3, EmptySeq, ConcatEmptySeq DEF GoodQueue
<1> DEFINE marks == [i \in 0 .. 1 |-> 0]
<1>5. marks \in [0 .. 1 -> 0 .. 0] /\ marks[0] = 0 /\ marks[1] = 0
  OBVIOUS
<1> HIDE DEF marks
<1>6. \A i \in 0 .. 1 : Snap(<<>>, <<>>, <<>>, i) = <<>>
  BY DEF Snap
<1>7. Len(<<>>) = 0
  OBVIOUS
<1>8. Ordering(<<>>, <<>>, <<>>, <<>>, marks)
  <2>1. Later(<<>>, <<>>, <<>>, 0, 0)
    BY LaterSame, EmptySeq
  <2>2. \A i, j \in 0 .. 1 : i < j => i = 0 /\ j = 1
    OBVIOUS
  <2> QED BY <1>5, <1>6, <1>7, <2>1, <2>2 DEF Ordering
<1>9. Unbroken(<<>>, <<>>, <<>>, marks)
  BY <1>5, <1>6, <1>7 DEF Unbroken
<1>10. InStep(given \o Content(queue), queue, reports, trouble)
  BY <1>1, <1>2, <1>4, <1>5, <1>7, <1>8, <1>9, NothingIsWithin DEF InStep
<1> QED BY <1>1, <1>4, <1>10, EmptySeq DEF KeysInv, KeysTyped, QueueGood

\* Whatever a poll finds.
LEMMA PollKeepsOrder ==
    ASSUME KeysInv, NEW p \in usb_kbd_poll
    PROVE  QueueGood(p.queue, p.reports, p.trouble)
<1> DEFINE all == typed
           out == given \o Content(queue)
<1>1. /\ all \in Seq(Bytes) /\ held \in Seq(Keys) /\ given \in Seq(Bytes)
      /\ GoodQueue(queue) /\ reports \in Seq(Seq(Keys)) /\ trouble \in TroubleType
      /\ queue.prev_keys \in Seq(Keys) /\ Content(queue) \in Seq(Bytes)
  BY DEF KeysInv, KeysTyped, QueueGood, GoodQueue, QueueType
<1>2. PICK marks :
          /\ Ordering(typed, queue.prev_keys, reports, held, marks)
          /\ Within(out, typed, 0, marks[0])
          /\ ~trouble.late => Unbroken(queue.prev_keys, reports, held, marks)
          /\ ~trouble.late /\ ~trouble.dropped => Len(out) = marks[0]
  BY DEF KeysInv, QueueGood, InStep
<1>3. CASE p = NoReport
  <2>1. p.queue = queue /\ p.reports = reports /\ p.trouble = trouble
    BY <1>3 DEF NoReport
  <2> QED BY <2>1 DEF KeysInv
<1>4. ASSUME p # NoReport
      PROVE  reports # <<>> /\ p \in {ReportTaken, ReportLost}
  BY <1>4 DEF usb_kbd_poll
<1>5. CASE p # NoReport /\ p = ReportLost
  <2>1. /\ p.queue = queue /\ p.reports = Tail(reports)
        /\ p.trouble = [trouble EXCEPT !.late = TRUE]
    BY <1>5 DEF ReportLost, NoReport
  <2>2. p.trouble \in TroubleType /\ p.trouble.late
    BY <1>1, <2>1 DEF TroubleType
  <2>3. PICK new : /\ Ordering(typed, queue.prev_keys, Tail(reports), held, new)
                   /\ new[0] = marks[0]
    BY <1>1, <1>2, <1>4, <1>5, ReportGone
  <2>4. InStep(out, p.queue, p.reports, p.trouble)
    BY <1>2, <2>1, <2>2, <2>3 DEF InStep
  <2>5. Tail(reports) \in Seq(Seq(Keys))
    BY <1>1, <1>4, <1>5, HeadTailProperties
  <2> QED BY <1>1, <2>1, <2>2, <2>4, <2>5 DEF QueueGood
<1>6. CASE p # NoReport /\ p = ReportTaken
  <2> DEFINE report == reports[1]
             bytes == Emitted(report, queue.prev_keys)
             known == [queue EXCEPT !.prev_keys = report]
             after == Pushed(known, bytes)
             full == trouble.dropped \/ InRing(after) # InRing(queue) + Len(bytes)
  <2>1. /\ p.queue = after /\ p.reports = Tail(reports)
        /\ p.trouble = [trouble EXCEPT !.dropped = full]
    <3>1. [trouble EXCEPT !.dropped = @ \/ InRing(after) # InRing(queue) + Len(bytes)]
          = [trouble EXCEPT !.dropped = full]
      BY <1>1 DEF TroubleType
    <3> QED BY <1>6, <3>1 DEF ReportTaken
  <2>2. p.trouble \in TroubleType /\ p.trouble.late = trouble.late /\ p.trouble.dropped = full
    <3>1. full \in BOOLEAN
      BY <1>1 DEF TroubleType
    <3> HIDE DEF full
    <3> QED BY <1>1, <2>1, <3>1 DEF TroubleType
  <2>3. report \in Seq(Keys) /\ Tail(reports) \in Seq(Seq(Keys))
    BY <1>1, <1>4, <1>6, HeadTailProperties, ElementOfSeq, LenProperties, EmptySeq
  <2>4. GoodQueue(known) /\ known.prev_keys = report
        /\ Content(known) = Content(queue) /\ InRing(known) = InRing(queue)
    <3>1. queue \in QueueType
      BY <1>1 DEF GoodQueue
    <3>2. known \in QueueType /\ known.prev_keys = report /\ known.ring = queue.ring
          /\ known.head = queue.head /\ known.tail = queue.tail
      BY <2>3, <3>1 DEF QueueType
    <3> HIDE DEF known, report
    <3>3. InRing(known) = InRing(queue)
      BY <3>2 DEF InRing
    <3>4. Content(known) = Content(queue)
      BY <3>2, <3>3, Zenon DEF Content
    <3> QED BY <1>1, <3>2, <3>3, <3>4 DEF GoodQueue
  <2>5. /\ marks[0] \in Nat /\ marks[1] \in Nat /\ marks[0] <= marks[1]
        /\ Later(all, report, queue.prev_keys, marks[0], marks[1])
        /\ Unbroken(queue.prev_keys, reports, held, marks) =>
              OneStep(report, queue.prev_keys, marks[0], marks[1])
    BY <1>1, <1>2, <1>4, <1>6, ReportGone
  <2>6. PICK new : /\ Ordering(typed, report, Tail(reports), held, new) /\ new[0] = marks[1]
                   /\ Unbroken(queue.prev_keys, reports, held, marks) =>
                         Unbroken(report, Tail(reports), held, new)
    BY <1>1, <1>2, <1>4, <1>6, ReportGone
  <2>7. bytes \in Seq(Bytes) /\ Within(bytes, all, marks[0], marks[1])
    BY <2>3, <2>5, EmittedIsTyped
  <2>8. Unbroken(queue.prev_keys, reports, held, marks) => marks[0] + Len(bytes) = marks[1]
    BY <2>3, <2>5, EmittedIsAll
  <2> HIDE DEF report, bytes, known
  <2>9. PICK k \in 0 .. Len(bytes) :
            /\ Content(after) = Content(known) \o SubSeq(bytes, 1, k)
            /\ InRing(after) = InRing(known) + k
    BY <2>4, <2>7, PushedIsBeginning
  <2>10. GoodQueue(after) /\ after.prev_keys = report
    BY <2>4, <2>7, PushedIsBeginning
  <2> HIDE DEF after
  <2> DEFINE part == SubSeq(bytes, 1, k)
  <2>11. part \in Seq(Bytes) /\ Within(part, all, marks[0], marks[1])
    <3>1. Within(part, all, marks[0], marks[1])
      BY <2>5, <2>7, <2>9, WithinPrefix
    <3>2. part \in Seq(Bytes)
      <4>1. Len(bytes) \in Nat /\ k \in 0 .. Len(bytes)
        BY <2>7, <2>9, LenProperties
      <4>2. \A i \in 1 .. k : bytes[i] \in Bytes
        BY <2>7, <4>1, ElementOfSeq
      <4>3. k \in Int /\ 1 \in Int
        BY <4>1
      <4> QED BY <2>7, <4>2, <4>3, SubSeqProperties
    <3> QED BY <3>1, <3>2
  <2>12. out \in Seq(Bytes) /\ given \o Content(after) = out \o part
    <3>1. Content(after) = Content(queue) \o part
      BY <2>4, <2>9
    <3>2. given \in Seq(Bytes) /\ Content(queue) \in Seq(Bytes) /\ part \in Seq(Bytes)
      BY <1>1, <2>11
    <3> HIDE DEF part
    <3>3. (given \o Content(queue)) \o part = given \o (Content(queue) \o part)
      BY ONLY <3>2, ConcatAssociative
    <3>4. given \o Content(queue) \in Seq(Bytes)
      BY ONLY <3>2, ConcatProperties
    <3> QED BY <3>1, <3>3, <3>4
  <2> HIDE DEF out, part, all
  <2>13. Within(out \o part, all, 0, marks[1])
    <3>1. 0 \in Nat /\ 0 <= marks[0]
      BY <2>5
    <3>2. Within(out, all, 0, marks[0])
      BY <1>2 DEF all
    <3> QED BY <2>5, <2>11, <2>12, <3>1, <3>2, WithinConcat
  <2>14. ASSUME ~trouble.late, ~full PROVE Len(out \o part) = marks[1]
    <3>1. Len(out) = marks[0] /\ Unbroken(queue.prev_keys, reports, held, marks)
      BY <1>2, <2>14
    <3>2. InRing(after) = InRing(queue) + Len(bytes)
      BY <2>14
    <3>3. InRing(queue) \in Nat /\ Len(bytes) \in Nat /\ k \in Nat
      <4>1. InRing(queue) \in Indices
        BY <1>1, RingCounts DEF GoodQueue
      <4> QED BY <2>7, <2>9, <4>1, LenProperties, KeyboardAssumption DEF Indices
    <3>4. k = Len(bytes)
      BY <2>4, <2>9, <3>2, <3>3
    <3>5. part = bytes
      BY <2>7, <3>4, SubSeqFull DEF part
    <3>6. Len(out \o part) = Len(out) + Len(part)
      BY <2>11, <2>12, ConcatProperties
    <3> QED BY <2>8, <3>1, <3>5, <3>6
  <2>15. InStep(given \o Content(after), after, Tail(reports), p.trouble)
    <3>1. ~p.trouble.late => Unbroken(report, Tail(reports), held, new)
      BY <1>2, <2>2, <2>6
    <3>2. ~p.trouble.late /\ ~p.trouble.dropped => Len(out \o part) = new[0]
      BY <2>2, <2>6, <2>14
    <3>3. Within(out \o part, typed, 0, new[0])
      BY <2>6, <2>13 DEF all
    <3> QED BY <2>6, <2>10, <2>12, <3>1, <3>2, <3>3, Zenon DEF InStep
  <2> QED BY <2>1, <2>2, <2>3, <2>10, <2>15 DEF QueueGood
<1> QED BY <1>3, <1>4, <1>5, <1>6

\* A byte is taken from the ring.
LEMMA KeyTaken ==
    ASSUME KeysInv, NEW p \in usb_kbd_poll, SomethingWaits(p.queue),
           given' = Append(given, usb_kbd_getc(p.queue)), queue' = Removed(p.queue),
           reports' = p.reports, trouble' = p.trouble, UNCHANGED <<typed, held>>
    PROVE  KeysInv'
<1> DEFINE q == p.queue
           c == usb_kbd_getc(q)
           rest == Content(Removed(q))
<1>1. QueueGood(q, p.reports, p.trouble) /\ given \in Seq(Bytes) /\ KeysTyped
  BY PollKeepsOrder DEF KeysInv
<1>2. /\ GoodQueue(Removed(q)) /\ Removed(q).prev_keys = q.prev_keys /\ c \in Bytes
      /\ Content(q) = <<c>> \o rest
  BY <1>1, RemoveTakesFirst DEF QueueGood
<1>3. rest \in Seq(Bytes)
  BY <1>2 DEF GoodQueue
<1> HIDE DEF c, rest
<1>4. Append(given, c) \in Seq(Bytes) /\ Append(given, c) \o rest = given \o Content(q)
  <2>1. Append(given, c) = given \o <<c>> /\ <<c>> \in Seq(Bytes)
    BY <1>1, <1>2, AppendIsConcat
  <2>2. (given \o <<c>>) \o rest = given \o (<<c>> \o rest)
    BY <1>1, <1>3, <2>1, ConcatAssociative
  <2>3. given \o <<c>> \in Seq(Bytes)
    BY <1>1, <2>1, ConcatProperties
  <2> QED BY <1>2, <2>1, <2>2, <2>3
<1>5. /\ given' = Append(given, c) /\ queue' = Removed(q) /\ reports' = p.reports
      /\ trouble' = p.trouble /\ typed' = typed /\ held' = held
  BY DEF c
<1>6. given' \o Content(queue') = given \o Content(q)
  BY <1>4, <1>5, Zenon DEF rest
<1>7. InStep(given \o Content(q), q, p.reports, p.trouble)
  BY <1>1 DEF QueueGood
<1> HIDE DEF q
<1>8. InStep(given \o Content(queue), queue, reports, trouble)'
  BY <1>2, <1>5, <1>6, <1>7 DEF InStep
<1>9. QueueGood(queue, reports, trouble)'
  BY <1>1, <1>2, <1>5, <1>8 DEF QueueGood
<1> QED BY <1>1, <1>4, <1>5, <1>9 DEF KeysInv, KeysTyped

\* Nothing of the keyboard changes but what is known of the search.
LEMMA KeysKept ==
    ASSUME KeysInv, UNCHANGED typing, trouble' \in TroubleType,
           trouble'.late = trouble.late, trouble'.dropped = trouble.dropped
    PROVE  KeysInv'
<1>1. UNCHANGED <<queue, held, reports, typed, given>>
  BY DEF typing
<1>2. InStep(given \o Content(queue), queue, reports, trouble)'
  BY <1>1 DEF KeysInv, QueueGood, InStep
<1> QED BY <1>1, <1>2 DEF KeysInv, KeysTyped, QueueGood

\* A new report, of the keys that are down now.
LEMMA KeyboardReports ==
    ASSUME KeysInv, NEW now \in Seq(Keys), NEW more \in Seq(Bytes), KeysChange(now),
           typed' = typed \o more, OneStep(now, held, Len(typed), Len(typed \o more)),
           Following(typed, held, typed \o more, now)
    PROVE  KeysInv'
<1> DEFINE text == typed \o more
           out == given \o Content(queue)
<1>1. /\ typed \in Seq(Bytes) /\ held \in Seq(Keys) /\ given \in Seq(Bytes)
      /\ GoodQueue(queue) /\ reports \in Seq(Seq(Keys)) /\ trouble \in TroubleType
      /\ queue.prev_keys \in Seq(Keys)
  BY DEF KeysInv, KeysTyped, QueueGood, GoodQueue, QueueType
<1>2. /\ held' = now /\ reports' = Append(reports, now) /\ queue' = queue /\ given' = given
      /\ trouble' = trouble /\ typed' = text
  BY DEF KeysChange
<1>3. text \in Seq(Bytes) /\ Len(text) \in Nat /\ Len(typed) \in Nat /\ Len(typed) <= Len(text)
  <2>1. text \in Seq(Bytes) /\ Len(text) = Len(typed) + Len(more)
    BY <1>1, ConcatProperties
  <2>2. Len(typed) \in Nat /\ Len(more) \in Nat
    BY <1>1, LenProperties
  <2> HIDE DEF text
  <2> QED BY <2>1, <2>2
<1>4. PICK marks :
          /\ Ordering(typed, queue.prev_keys, reports, held, marks)
          /\ Within(out, typed, 0, marks[0])
          /\ ~trouble.late => Unbroken(queue.prev_keys, reports, held, marks)
          /\ ~trouble.late /\ ~trouble.dropped => Len(out) = marks[0]
  BY DEF KeysInv, QueueGood, InStep
<1>5. Lasting(typed, text)
  BY <1>1, LaterTyped DEF Lasting
<1>6. OneStep(now, held, Len(typed), Len(text)) /\ Following(typed, held, text, now)
  OBVIOUS
<1>7. now \in Seq(Keys)
  OBVIOUS
<1>8. marks[0] \in 0 .. Len(typed)
  <2>1. Len(reports) \in Nat /\ marks \in [0 .. Len(reports) + 1 -> 0 .. Len(typed)]
    BY <1>1, <1>4, LenProperties DEF Ordering
  <2>2. 0 \in 0 .. Len(reports) + 1
    BY <2>1
  <2> QED BY <2>1, <2>2
<1>9. Within(out, text, 0, marks[0])
  BY <1>1, <1>4, <1>8, WithinMore
<1> HIDE DEF text, out
<1>10. PICK new :
          /\ Ordering(text, queue.prev_keys, Append(reports, now), now, new) /\ new[0] = marks[0]
          /\ Unbroken(queue.prev_keys, reports, held, marks) =>
                Unbroken(queue.prev_keys, Append(reports, now), now, new)
  BY ONLY <1>1, <1>3, <1>4, <1>5, <1>6, <1>7, NewReport
<1>11. (given \o Content(queue))' = out
  BY <1>2 DEF out, Content, InRing
<1>12. InStep(given \o Content(queue), queue, reports, trouble)'
  BY <1>2, <1>4, <1>9, <1>10, <1>11 DEF InStep
<1>13. Append(reports, now) \in Seq(Seq(Keys))
  BY <1>1, AppendProperties
<1>14. QueueGood(queue, reports, trouble)'
  BY <1>1, <1>2, <1>12, <1>13 DEF QueueGood
<1> QED BY <1>1, <1>2, <1>3, <1>14 DEF KeysInv, KeysTyped

LEMMA KeyPressed ==
    ASSUME KeysInv, NEW k \in Keys, Press(k)
    PROVE  KeysInv'
<1> DEFINE now == Append(held, k)
           n == Len(held)
<1>1. /\ ~Contains(held, k) /\ typed' = typed \o Decoded[k] /\ KeysChange(now)
      /\ typed \in Seq(Bytes) /\ held \in Seq(Keys)
  BY DEF Press, KeysInv, KeysTyped
<1>2. Decoded[k] \in Seq(Bytes) /\ Width(k) \in Nat
  BY DecodedBytes
<1>3. Len(typed \o Decoded[k]) = Len(typed) + Width(k) /\ Len(typed) \in Nat /\ n \in Nat
  BY <1>1, <1>2, ConcatProperties, LenProperties DEF Width
<1>4. /\ now \in Seq(Keys) /\ Len(now) = n + 1 /\ now[n + 1] = k
      /\ \A x \in 1 .. n : now[x] = held[x]
  BY <1>1, AppendProperties
<1> HIDE DEF now
<1>5. OneStep(now, held, Len(typed), Len(typed \o Decoded[k]))
  <2>1. now # <<>>
    BY <1>3, <1>4, EmptySeq
  <2>2. JustPressed(now[Len(now)], held)
    BY <1>1, <1>4 DEF JustPressed
  <2>3. \A x \in 1 .. Len(now) - 1 : ~JustPressed(now[x], held)
    <3> SUFFICES ASSUME NEW x \in 1 .. n PROVE ~JustPressed(now[x], held)
      BY <1>3, <1>4
    <3> QED BY <1>1, <1>4 DEF JustPressed, Contains
  <2> QED BY <1>3, <1>4, <2>1, <2>2, <2>3 DEF OneStep
<1>6. Following(typed, held, typed \o Decoded[k], now)
  BY <1>1, <1>3, LaterPressed DEF now, Following
<1> QED BY <1>1, <1>2, <1>4, <1>5, <1>6, KeyboardReports

LEMMA KeyReleased ==
    ASSUME KeysInv, NEW k \in Keys, Release(k)
    PROVE  KeysInv'
<1>1. typed' = typed /\ typed \in Seq(Bytes) /\ held \in Seq(Keys)
  BY DEF Release, KeysInv, KeysTyped
<1>2. PICK i \in DOMAIN held : KeysChange(RemoveAt(held, i))
  BY DEF Release
<1> DEFINE now == RemoveAt(held, i)
<1>3. i \in 1 .. Len(held) /\ Len(held) \in Nat
  BY <1>1, <1>2, LenProperties
<1>4. /\ now \in Seq(Keys) /\ Len(now) = Len(held) - 1
      /\ \A x \in 1 .. Len(held) - 1 : now[x] = held[IF x < i THEN x ELSE x + 1]
  BY <1>1, <1>3, RemovedKeys
<1>5. typed \o <<>> = typed /\ <<>> \in Seq(Bytes)
  BY <1>1, ConcatEmptySeq, EmptySeq
<1> HIDE DEF now
<1>6. OneStep(now, held, Len(typed), Len(typed \o <<>>))
  <2>1. ASSUME NEW x \in 1 .. Len(now) PROVE ~JustPressed(now[x], held)
    <3>1. x \in 1 .. Len(held) - 1 /\ (IF x < i THEN x ELSE x + 1) \in 1 .. Len(held)
      BY <1>3, <1>4
    <3> QED BY <1>1, <1>4, <3>1 DEF JustPressed, Contains
  <2> QED BY <1>5, <2>1 DEF OneStep
<1>7. Following(typed, held, typed \o <<>>, now)
  <2>1. ASSUME NEW s \in Seq(Keys), NEW lo \in 0 .. Len(typed),
               Later(typed, held, s, lo, Len(typed))
        PROVE  Later(typed, now, s, lo, Len(typed))
    BY <1>1, <1>3, <2>1, LaterReleased DEF now
  <2> QED BY <1>5, <2>1 DEF Following
<1>8. KeysChange(now) /\ typed' = typed \o <<>>
  BY <1>1, <1>2, <1>5 DEF now
<1> QED BY <1>4, <1>5, <1>6, <1>7, <1>8, KeyboardReports

LEMMA KeysInOrder == KeysInv => TypedOnceInOrder
<1> SUFFICES ASSUME KeysInv PROVE TypedOnceInOrder
  OBVIOUS
<1> DEFINE out == given \o Content(queue)
<1>1. /\ typed \in Seq(Bytes) /\ given \in Seq(Bytes) /\ Content(queue) \in Seq(Bytes)
      /\ reports \in Seq(Seq(Keys))
  BY DEF KeysInv, KeysTyped, QueueGood, GoodQueue
<1>2. out \in Seq(Bytes)
  BY <1>1, ConcatProperties
<1>3. PICK marks :
          /\ Ordering(typed, queue.prev_keys, reports, held, marks)
          /\ Within(out, typed, 0, marks[0])
          /\ ~trouble.late => Unbroken(queue.prev_keys, reports, held, marks)
          /\ ~trouble.late /\ ~trouble.dropped => Len(out) = marks[0]
  BY DEF KeysInv, QueueGood, InStep
<1>4. Len(reports) \in Nat /\ marks \in [0 .. Len(reports) + 1 -> 0 .. Len(typed)]
      /\ marks[Len(reports) + 1] = Len(typed) /\ Len(typed) \in Nat
  BY <1>1, <1>3, LenProperties DEF Ordering
<1>5. marks[0] \in Nat /\ marks[0] <= Len(typed)
  BY <1>4
<1> HIDE DEF out
<1>6. Within(out, typed, 0, Len(typed))
  <2>1. 0 \in Nat /\ 0 <= 0
    OBVIOUS
  <2> QED BY <1>3, <1>4, <1>5, <2>1, WithinWider
<1>7. InSameOrder(out, typed)
  BY <1>1, <1>2, <1>6, MetFinds
<1>8. ASSUME reports = <<>>, ~trouble.late, ~trouble.dropped PROVE out = typed
  <2>1. Unbroken(queue.prev_keys, reports, held, marks) /\ Len(reports) = 0 /\ Len(out) = marks[0]
    BY <1>3, <1>8
  <2>2. marks[1] = marks[0] /\ marks[1] = Len(typed)
    BY <1>4, <2>1 DEF Unbroken
  <2> QED BY <1>1, <1>2, <1>6, <2>1, <2>2, AllPlaces
<1> QED BY <1>7, <1>8 DEF TypedOnceInOrder, Buffered, out

LEMMA StatusKeepsKeys ==
    ASSUME KeysInv, NEW p \in usb_kbd_poll, queue' = p.queue, reports' = p.reports,
           trouble' = p.trouble, UNCHANGED <<typed, held, given>>
    PROVE  KeysInv'
<1>1. QueueGood(p.queue, p.reports, p.trouble)
  BY PollKeepsOrder
<1>2. QueueGood(queue, reports, trouble)'
  BY <1>1 DEF QueueGood, InStep
<1> QED BY <1>2 DEF KeysInv, KeysTyped

\* The search neither loses a report nor drops a byte.
LEMMA SearchLosesNothing ==
    ASSUME trouble \in TroubleType, Search
    PROVE  /\ UNCHANGED typing /\ trouble' \in TroubleType
           /\ trouble'.late = trouble.late /\ trouble'.dropped = trouble.dropped
<1>1. Fault => /\ trouble' \in TroubleType
               /\ trouble'.late = trouble.late /\ trouble'.dropped = trouble.dropped
  BY DEF Fault, TroubleType
<1>2. \A a : Fails(a) => Fault \/ trouble' = trouble
  BY DEF Fails
<1>3. CASE BringUp \/ GetMps \/ SetAddress \/ PacketArrives \/ StageDone \/ SelectConfiguration
           \/ RequestFails
  BY <1>1, <1>2, <1>3 DEF BringUp, GetMps, SetAddress, PacketArrives, StageDone,
     SelectConfiguration, RequestFails
<1>4. CASE ProbePort
  <2>1. UNCHANGED typing
    BY <1>4 DEF ProbePort
  <2>2. \/ trouble' = trouble \/ Fault
        \/ \E clash, failed \in BOOLEAN :
              trouble' = [trouble EXCEPT !.clash = clash, !.failed = failed]
    <3>1. CASE trouble' = [trouble EXCEPT !.clash = @ \/ Answering(0) # {},
                                          !.failed = @ \/ address' = address]
      <4> DEFINE clash == trouble.clash \/ Answering(0) # {}
                 failed == trouble.failed \/ address' = address
      <4>1. clash \in BOOLEAN /\ failed \in BOOLEAN
        BY DEF TroubleType
      <4>2. trouble' = [trouble EXCEPT !.clash = clash, !.failed = failed]
        BY <3>1 DEF TroubleType
      <4> HIDE DEF clash, failed
      <4> QED BY <4>1, <4>2
    <3> QED BY <1>4, <3>1 DEF ProbePort
  <2> QED BY <1>1, <2>1, <2>2 DEF TroubleType
<1>5. CASE PacketPutOff
  <2> DEFINE restarted == trouble.restarted \/ probe.buf # <<>>
  <2>1. trouble' = [trouble EXCEPT !.restarted = restarted] /\ restarted \in BOOLEAN
    BY <1>5 DEF PacketPutOff, TroubleType
  <2> HIDE DEF restarted
  <2> QED BY <1>5, <2>1 DEF PacketPutOff, TroubleType
<1> QED BY <1>3, <1>4, <1>5 DEF Search

\* However the keys, the polls, the reads and the failures fall, what is read is what was
\* typed, each byte once and in its order; nothing is missing unless a report was lost or
\* the ring was full.
THEOREM KeysComeOnce == BootSpec => []TypedOnceInOrder
<1>1. BootInit => KeysInv
  BY KeysBegin DEF BootInit
<1>2. KeysInv /\ [Main \/ Clock \/ User]_vars => KeysInv'
  <2> SUFFICES ASSUME KeysInv, Main \/ Clock \/ User \/ UNCHANGED vars PROVE KeysInv'
    OBVIOUS
  <2>1. trouble \in TroubleType
    BY DEF KeysInv, QueueGood
  <2>2. ASSUME UNCHANGED typing, trouble' = trouble PROVE KeysInv'
    BY <2>1, <2>2, KeysKept
  <2>3. CASE UNCHANGED usbvars
    BY <2>2, <2>3 DEF usbvars
  <2>4. CASE Clock \/ UNCHANGED vars
    BY <2>3, <2>4 DEF Clock, SecondPasses, vars
  <2>5. CASE User
    BY <2>2, <2>5, KeyPressed, KeyReleased DEF User, UserTypes
  <2>6. CASE Search
    BY <2>1, <2>6, SearchLosesNothing, KeysKept
  <2>7. ASSUME NEW Waits, NEW Again, ReadStatus(Waits, Again) PROVE KeysInv'
    <3>1. CASE UNCHANGED <<queue, reports, trouble>>
      BY <2>2, <2>7, <3>1 DEF ReadStatus, typing
    <3> QED BY <2>7, <3>1, StatusKeepsKeys DEF ReadStatus
  <2>8. CASE FromSerial \/ FromKeyboard
    BY <2>3, <2>8, KeyTaken DEF FromSerial, FromKeyboard
  <2>9. CASE MenuSteps
    BY <2>3, <2>7, <2>8, <2>9 DEF MenuSteps, MenuStatus, MenuRead, NextSecond, LeaveMenu, StartMenu
  <2>10. CASE LoadNt /\ UNCHANGED <<search, typing, trouble, menuvars>>
    BY <2>2, <2>10
  <2>11. CASE BreakInStatus \/ BreakInKey
    BY <2>7, <2>8, <2>11 DEF BreakInStatus, BreakInKey
  <2> QED BY <2>3, <2>4, <2>5, <2>6, <2>9, <2>10, <2>11 DEF Main
<1> QED BY <1>1, <1>2, KeysInOrder, PTL DEF BootSpec

------------------------------------------------------------------------------
(* The menu.                                                                  *)

\* What the last byte read has chosen.
Voted == IF seen = <<>> THEN 0 ELSE Chosen(Last(seen))

\* While the menu is up the choice is what the last byte says, and one that was made is
\* not read past.
MenuInv ==
    /\ remaining \in Nat /\ \E S : seen \in Seq(S)
    /\ at \in {"start", "menu", "read"} => choice = Voted
    /\ at \in {"start", "read"} => choice = 0
    /\ MenuObeys

LEMMA ChoicesAreChosen == \A c : Chosen(c) = 0 <=> c \notin ChoiceKeys
BY DEF Chosen, ChoiceKeys, BOOT_MENU_DEFAULT

\* A byte is read while nothing was chosen yet, and the menu goes on with it.
LEMMA MenuReadObeys ==
    ASSUME MenuInv, at = "read", NEW c, seen' = Append(seen, c), choice' = Chosen(c),
           at' = "menu", UNCHANGED remaining
    PROVE  MenuInv'
<1>1. PICK S : seen \in Seq(S)
  BY DEF MenuInv
<1>2. /\ seen' \in Seq(S \cup {c}) /\ seen' # <<>> /\ Len(seen) \in Nat
      /\ Len(seen') = Len(seen) + 1 /\ seen'[Len(seen')] = c
      /\ \A i \in 1 .. Len(seen) : seen'[i] = seen[i]
      /\ DOMAIN seen = 1 .. Len(seen) /\ DOMAIN seen' = 1 .. Len(seen')
  <2>1. seen \in Seq(S \cup {c})
    BY <1>1
  <2> QED BY <2>1, AppendProperties, LenProperties
<1>3. ASSUME NEW i \in DOMAIN seen PROVE seen[i] \notin ChoiceKeys
  <2>1. seen # <<>> /\ Chosen(Last(seen)) = 0
    BY <1>2 DEF MenuInv, Voted
  <2>2. seen[Len(seen)] \notin ChoiceKeys
    BY <2>1, ChoicesAreChosen DEF Last
  <2> QED BY <2>2 DEF MenuInv, MenuObeys
<1>4. Last(seen') = c
  BY <1>2 DEF Last
<1> QED BY <1>2, <1>3, <1>4 DEF MenuInv, MenuObeys, Voted

LEMMA MenuStepsObey ==
    ASSUME MenuInv, MenuSteps
    PROVE  MenuInv'
<1>1. CASE MenuStatus
  BY <1>1 DEF MenuStatus, ReadStatus, Waiting, MenuInv, MenuObeys, Voted
<1>2. CASE MenuRead
  <2>1. PICK c : c = ByteRead
    OBVIOUS
  <2> QED BY <1>2, <2>1, MenuReadObeys DEF MenuRead
<1>3. CASE NextSecond
  BY <1>3 DEF NextSecond, CountDown, Waiting, MenuInv, MenuObeys, Voted
<1>4. CASE LeaveMenu
  <2>1. at = "menu" /\ (choice # 0 \/ remaining = 0) /\ choice = Voted
        /\ UNCHANGED <<remaining, seen>> /\ at' \in {"shell", "loader"}
        /\ choice' = IF choice = 0 THEN BOOT_MENU_DEFAULT ELSE choice
    BY <1>4 DEF LeaveMenu, Waiting, MenuInv
  <2>2. CASE seen # <<>> /\ Last(seen) \in ChoiceKeys
    BY <2>1, <2>2 DEF MenuInv, MenuObeys, Voted, Chosen, ChoiceKeys, BOOT_MENU_DEFAULT
  <2>3. CASE ~(seen # <<>> /\ Last(seen) \in ChoiceKeys)
    BY <2>1, <2>3, ChoicesAreChosen DEF MenuInv, MenuObeys, Voted
  <2> QED BY <2>2, <2>3
<1>5. CASE StartMenu
  BY <1>5 DEF StartMenu, MenuInv, MenuObeys, Voted
<1> QED BY <1>1, <1>2, <1>3, <1>4, <1>5 DEF MenuSteps

\* Whichever of the two lines a byte comes by and however the seconds and the keys fall,
\* the menu starts what was chosen first, and the default when nothing was.
THEOREM MenuChoosesRight == BootSpec => []MenuObeys
<1>1. BootInit => MenuInv
  <2> SUFFICES ASSUME BootInit PROVE MenuInv
    OBVIOUS
  <2>1. seen = <<>> /\ at = "start" /\ choice = 0 /\ remaining \in Nat
    BY MenuAssumption DEF BootInit, MenuInit
  <2>2. seen \in Seq({}) /\ DOMAIN seen = {}
    BY <2>1
  <2> QED BY <2>1, <2>2 DEF MenuInv, MenuObeys, Voted
<1>2. MenuInv /\ [Main \/ Clock \/ User]_vars => MenuInv'
  <2> SUFFICES ASSUME MenuInv, [Main \/ Clock \/ User]_vars PROVE MenuInv'
    OBVIOUS
  <2>1. CASE UNCHANGED menuvars
    BY <2>1 DEF menuvars, MenuInv, MenuObeys, Voted
  <2>2. CASE MenuSteps
    BY <2>2, MenuStepsObey
  <2>3. CASE Clock
    BY <2>3 DEF Clock, SecondPasses, MenuInv, MenuObeys, Voted
  <2>4. CASE User
    BY <2>4 DEF User, UserTypes, MenuInv, MenuObeys, Voted
  <2>5. CASE BreakInStatus \/ BreakInKey
    BY <2>5 DEF BreakInStatus, ReadStatus, BreakInKey, At, MenuInv, MenuObeys, Voted
  <2>6. CASE EndLoader /\ UNCHANGED <<usbvars, remaining, over, choice, uart, seen, Spare>>
    BY <2>6 DEF EndLoader, At, MenuInv, MenuObeys, Voted
  <2> QED BY <2>1, <2>2, <2>3, <2>4, <2>5, <2>6 DEF Main, vars
<1>3. MenuInv => MenuObeys
  BY DEF MenuInv
<1> QED BY <1>1, <1>2, <1>3, PTL DEF BootSpec
=============================================================================
