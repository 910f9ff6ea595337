----------------------------- MODULE FatVolume -----------------------------
(***************************************************************************)
(* A FAT volume as ported/fatboot.c works on it: cluster chains, entries   *)
(* of directories, the cached mapping of one file (the mcb), and the calls *)
(* of the device entry table.  Each routine is an operator from volume to  *)
(* volume; DosShell makes them the steps of the commands of ARC DOS.       *)
(*                                                                         *)
(* The unit of space is what one directory entry takes, and a cluster has  *)
(* Units of them; data is counted in the same unit.  The table is seen     *)
(* through its cache, one window that covers it (FatEntries is about       *)
(* several windows and copies).                                            *)
(***************************************************************************)
EXTENDS Naturals, FiniteSets, SequencesExt

CONSTANTS
    TotalClustersInVolume,  \* FatNumberOfClusters
    Units,                  \* directory entries in a cluster
    RootSlots,              \* directory entries of the root directory
    MaximumMcb,             \* FAT_MAXIMUM_MCB
    FileIds,                \* entries of the file table that may hold a file
    Names                   \* the names that paths are made of

ASSUME VolumeAssumption ==
    /\ TotalClustersInVolume \in Nat \ {0} /\ Units \in Nat \ {0}
    /\ RootSlots \in Nat \ {0} /\ MaximumMcb \in Nat \ (0 .. 2)

Available == 0                       \* FAT_CLUSTER_AVAILABLE
Root == 0                            \* the root directory, as a first cluster
Clusters == 2 .. (TotalClustersInVolume + 1)
LAST == TotalClustersInVolume + 2    \* FAT_CLUSTER_LAST

-----------------------------------------------------------------------------
(* What a unit of the disk holds: zeros, data, or a directory entry.  A    *)
(* unit can always be read as an entry, as the bytes of the disk can.      *)

Dirent(name, dir, first) ==
    [name |-> name, dir |-> dir, readOnly |-> FALSE, first |-> first, size |-> 0]
Blank == Dirent("", FALSE, 0)
Data(tag) == [Blank EXCEPT !.name = "data", !.size = tag]

Deleted == "deleted"                 \* FAT_DIRENT_DELETED as the first byte
Dot == "."
DotDot == ".."
AnyName == Names \cup {"\\", "", "data", Deleted, Dot, DotDot}

IsFree(unit) == unit.name \in {"", Deleted}

Nowhere == <<0, 0>>                  \* DirentLbo = 0
NoFile == [open |-> FALSE, dirent |-> Blank, where |-> Nowhere, position |-> 0]
RootFile == [NoFile EXCEPT !.dirent = Dirent("\\", TRUE, Root)]
NoMcb == [owner |-> "", from |-> 0, map |-> <<>>]

(* A volume m has the fields                                               *)
(*   disk     units by cluster, the root directory as cluster Root         *)
(*   saved    the table on the disk     fat      the table in the cache    *)
(*   dirty    CachedFatDirty            mcb      the mapping, as clusters  *)
(*   file     entries of BlFileTable    got      the units a read returned *)
(*   writes   how many more writes the device carries out in this call     *)
(*   refused  whether it refused one: it refuses all from then on          *)
(*   status   of the call; the macros return once it is not ESUCCESS       *)
(*   full     whether an allocation ever failed for want of clusters       *)

AnyUnit == [name : AnyName, dir : BOOLEAN, readOnly : BOOLEAN,
            first : {Available} \cup Clusters, size : Nat]
AnyTable == [Clusters -> {Available} \cup Clusters \cup {LAST}]
AnyFile == [open : BOOLEAN, dirent : AnyUnit, where : Nat \X Nat, position : Nat]

Size(cluster) == IF cluster = Root THEN RootSlots ELSE Units
AnyDisk ==
    {disk \in [{Root} \cup Clusters ->
                   [1 .. RootSlots -> AnyUnit] \cup [1 .. Units -> AnyUnit]] :
        \A c \in {Root} \cup Clusters : disk[c] \in [1 .. Size(c) -> AnyUnit]}

AnyStatus == {"ESUCCESS", "EACCES", "EBADF", "EINVAL", "EISDIR", "ENOENT", "ENOSPC",
              "ENOTDIR", "EROFS", "scan"}

AnyVolume ==
    [disk : AnyDisk, saved : AnyTable, fat : AnyTable, dirty : BOOLEAN,
     mcb : [owner : FileIds \cup {""}, from : Nat,
            map : {<<Root>>} \cup Seq(Clusters)],
     file : [FileIds -> AnyFile], got : Seq(AnyUnit), writes : Nat,
     refused : BOOLEAN, full : BOOLEAN, status : AnyStatus]

Ok(m) == m.status = "ESUCCESS"
Failed(m, status) == [m EXCEPT !.status = status]

\* FatDiskWrite of one unit.
Write(m, at, unit) ==
    IF ~Ok(m) THEN m
    ELSE IF m.writes = 0 THEN [m EXCEPT !.status = "EACCES", !.refused = TRUE]
    ELSE [m EXCEPT !.disk[at[1]][at[2]] = unit, !.writes = m.writes - 1]

UnitAt(m, at) == m.disk[at[1]][at[2]]

\* FatFlushFatEntries.
Flush(m) ==
    IF ~Ok(m) \/ ~m.dirty THEN m
    ELSE IF m.writes = 0 THEN [m EXCEPT !.status = "EACCES", !.refused = TRUE]
    ELSE [m EXCEPT !.saved = m.fat, !.dirty = FALSE, !.writes = m.writes - 1]

\* FatSetFatEntry.
SetFatEntry(m, i, value) ==
    IF Ok(m) THEN [m EXCEPT !.fat[i] = value, !.dirty = TRUE] ELSE m

\* BlOpen recognizes the volume anew, and IsFatFileStructure zeroes the context.
Recognized(m) ==
    [m EXCEPT !.fat = m.saved, !.dirty = FALSE, !.mcb = NoMcb]

-----------------------------------------------------------------------------
(* Chains and directories.                                                 *)

\* One more cluster of the chain, while FatInterpretClusterType says FatClusterNext.
Further(fat, first, cs) ==
    LET c == IF cs = <<>> THEN first ELSE fat[Last(cs)]
    IN  IF c \in Clusters THEN Append(cs, c) ELSE cs

\* The clusters from first on.
Chain(fat, first) ==
    LET From[n \in 0 .. TotalClustersInVolume] ==
            IF n = 0 THEN <<>> ELSE Further(fat, first, From[n - 1])
    IN  From[TotalClustersInVolume]

DirectoryClusters(m, first) ==
    IF first = Root THEN <<Root>> ELSE Chain(m.fat, first)

\* The places of a directory's entries, in order.
Slots(m, first) ==
    LET cs == DirectoryClusters(m, first)
        n == IF first = Root THEN RootSlots ELSE Units
    IN  [i \in 1 .. n * Len(cs) |-> <<cs[((i - 1) \div n) + 1], ((i - 1) % n) + 1>>]

\* The search ends at the name or at the first entry never used.
SearchAmong(m, slots, name) ==
    LET Ends(at) == UnitAt(m, at).name \in {name, Blank.name}
        i == SelectInSeq(slots, Ends)
    IN  IF i = 0 THEN Nowhere
        ELSE IF UnitAt(m, slots[i]).name = name THEN slots[i] ELSE Nowhere

FatSearchForDirent(m, first, name) == SearchAmong(m, Slots(m, first), name)

\* FatOpen's walk along the components of a path.  "dir" is the directory the
\* last search was made in, or the one found.  A component that is missing, or a
\* file with components behind it, ends the walk with "left" more to go.
Entered(m, walk, at) ==
    IF at = Nowhere THEN [walk EXCEPT !.found = FALSE, !.where = Nowhere]
    ELSE [walk EXCEPT !.where = at, !.dirent = UnitAt(m, at),
                      !.dir = IF UnitAt(m, at).dir THEN UnitAt(m, at).first ELSE @]

WalkOn(m, walk, name) ==
    IF ~walk.found \/ ~walk.dirent.dir THEN [walk EXCEPT !.left = TRUE]
    ELSE Entered(m, walk, FatSearchForDirent(m, walk.dir, name))

Walk(m, path) ==
    LET Past[i \in 0 .. Len(path)] ==
            IF i = 0 THEN [dir |-> Root, where |-> Nowhere, dirent |-> RootFile.dirent,
                           found |-> TRUE, left |-> FALSE]
            ELSE WalkOn(m, Past[i - 1], path[i])
    IN  Past[Len(path)]

-----------------------------------------------------------------------------
(* The mapping from offsets of a file to clusters.                         *)

\* The longest beginning of cs that is at most n runs of adjacent clusters.
FirstRuns(cs, n) ==
    LET Breaks(k) == Cardinality({i \in 2 .. k : cs[i] # cs[i - 1] + 1})
        fit == {k \in 1 .. Len(cs) : Breaks(k) < n}
    IN  SubSeq(cs, 1, Cardinality(fit))

\* The mapping that starts with cluster number skip of the chain cs.
McbFrom(f, cs, skip) ==
    IF skip >= Len(cs) THEN [owner |-> f, from |-> 0, map |-> <<>>]
    ELSE [owner |-> f, from |-> skip * Units,
          map |-> FirstRuns(SubSeq(cs, skip + 1, Len(cs)), MaximumMcb - 1)]

\* The clusters skipped are the ones that end before the offset, so one that ends
\* exactly there is still loaded.
FatLoadMcb(m, f, vbo) ==
    [m EXCEPT !.mcb =
        IF m.file[f].where = Nowhere THEN [owner |-> f, from |-> 0, map |-> <<Root>>]
        ELSE McbFrom(f, Chain(m.fat, m.file[f].dirent.first),
                     IF vbo = 0 THEN 0 ELSE ((vbo + Units - 1) \div Units) - 1)]

McbEnd(mcb) ==
    mcb.from + (IF mcb.map = <<Root>> THEN RootSlots ELSE Units * Len(mcb.map))

\* Mutant: a mapping that starts and ends around the offset will do, whose ever it is.
LoadedOfAny(m, f, vbo) ==
    IF vbo < m.mcb.from \/ vbo >= McbEnd(m.mcb) THEN FatLoadMcb(m, f, vbo) ELSE m

\* FatVboToLbo loads the mapping unless it is this file's and has the offset.
Loaded(m, f, vbo) ==
    IF m.mcb.owner # f \/ vbo < m.mcb.from \/ vbo >= McbEnd(m.mcb)
    THEN FatLoadMcb(m, f, vbo)
    ELSE m

Maps(m, vbo) == m.mcb.from <= vbo /\ vbo < McbEnd(m.mcb)

\* The place of offset vbo; FatVboToLbo returns EINVAL when Maps is false.
Lbo(m, vbo) ==
    LET o == vbo - m.mcb.from
        n == Size(m.mcb.map[1])
    IN  <<m.mcb.map[(o \div n) + 1], (o % n) + 1>>

-----------------------------------------------------------------------------
(* Allocation.                                                             *)

Blanked(m, c) ==
    LET Upto[u \in 0 .. Units] ==
            IF u = 0 THEN m ELSE Write(Upto[u - 1], <<c, u>>, Blank)
    IN  Upto[Units]

\* The clusters in the order in which they are looked at, from the hint on.
Order(hint) ==
    [j \in 1 .. TotalClustersInVolume |-> ((j + hint - 3) % TotalClustersInVolume) + 2]

Linked(m, previous, c) ==
    SetFatEntry(IF previous = 0 THEN m ELSE SetFatEntry(m, previous, c), c, LAST)

\* Mutant: clusters are taken without looking whether they are in use.
ExamineAny(a, c, count) ==
    IF a.done \/ ~Ok(a.m) THEN a
    ELSE IF a.taken >= count THEN [a EXCEPT !.done = TRUE]
    ELSE [a EXCEPT !.m = Blanked(Linked(a.m, a.previous, c), c), !.taken = @ + 1,
                   !.first = IF @ = 0 THEN c ELSE @, !.previous = c]

\* One turn of the loop: enough clusters are noticed before the next is looked at.
Examine(a, c, count) ==
    IF a.done \/ ~Ok(a.m) THEN a
    ELSE IF a.taken >= count THEN [a EXCEPT !.done = TRUE]
    ELSE IF a.m.fat[c] # Available THEN a
    ELSE [a EXCEPT !.m = Blanked(Linked(a.m, a.previous, c), c), !.taken = @ + 1,
                   !.first = IF @ = 0 THEN c ELSE @, !.previous = c]

NoneLeft(a) ==
    IF a.done \/ ~Ok(a.m) THEN a
    ELSE [a EXCEPT !.m.status = "ENOSPC", !.m.full = TRUE]

\* Every cluster is looked at once: the cluster found in the last place comes too late.
FatAllocateClusters(m, count, hint) ==
    LET Turn[j \in 0 .. TotalClustersInVolume] ==
            IF j = 0
            THEN [m |-> m, taken |-> 0, first |-> 0, previous |-> 0, done |-> FALSE]
            ELSE Examine(Turn[j - 1], Order(hint)[j], count)
    IN  NoneLeft(Turn[TotalClustersInVolume])

WriteDirent(m, f) == Write(m, m.file[f].where, m.file[f].dirent)

\* The clusters allocated become the file's: its first, or linked to its last.
Joined(a, f, cs) ==
    IF ~Ok(a.m) THEN a.m
    ELSE IF cs = <<>>
         THEN WriteDirent([a.m EXCEPT !.file[f].dirent.first = a.first], f)
         ELSE SetFatEntry(a.m, Last(cs), a.first)

GrownTo(m, f, cs, needed) ==
    IF Len(cs) >= needed THEN m
    ELSE Joined(FatAllocateClusters(m, needed - Len(cs), IF cs = <<>> THEN 2 ELSE Last(cs)),
                f, cs)

FatIncreaseFileAllocation(m, f, size) ==
    GrownTo(m, f, Chain(m.fat, m.file[f].dirent.first), (size + Units - 1) \div Units)

Freed(m, cs) ==
    IF ~Ok(m) \/ cs = <<>> THEN m
    ELSE [m EXCEPT !.fat = [c \in Clusters |->
                               IF \E i \in DOMAIN cs : cs[i] = c THEN Available ELSE @[c]],
                   !.dirty = TRUE]

\* FatTruncateFileAllocation to size 0, the one size it is called with.  The entry is
\* written first, then the chain is freed.
FatTruncateFileAllocation(m, f) ==
    IF m.file[f].where = Nowhere \/ m.file[f].dirent.first = Available THEN m
    ELSE Freed(WriteDirent([m EXCEPT !.file[f].dirent =
                               [@ EXCEPT !.dir = FALSE, !.readOnly = FALSE,
                                         !.first = Available, !.size = 0]], f),
               Chain(m.fat, m.file[f].dirent.first))

\* The new cluster is linked to the directory's last and takes the entry first.
ExtendedDirectory(a, f, last) ==
    IF ~Ok(a.m) THEN a.m
    ELSE WriteDirent([SetFatEntry(a.m, last, a.first)
                         EXCEPT !.file[f].where = <<a.first, 1>>], f)

PlacedAmong(m, f, first, slots) ==
    LET Free(at) == IsFree(UnitAt(m, at))
        i == SelectInSeq(slots, Free)
        last == Last(slots)[1]
    IN  IF i # 0 THEN WriteDirent([m EXCEPT !.file[f].where = slots[i]], f)
        ELSE IF first = Root THEN Failed(m, "ENOSPC")
        ELSE ExtendedDirectory(FatAllocateClusters(m, 1, last), f, last)

\* FatCreateDirent: the first free place of the directory, which grows by a cluster
\* when it has none.  The root directory cannot grow.
FatCreateDirent(m, f, first) == PlacedAmong(m, f, first, Slots(m, first))

-----------------------------------------------------------------------------
(* The calls of FatDeviceEntryTable.                                       *)

\* The mapping of the entry is reset once the table is saved.
Unmapped(m, f) == IF Ok(m) /\ m.mcb.owner = f THEN [m EXCEPT !.mcb = NoMcb] ELSE m

\* Mutant: closing leaves the table to be written later.
CloseNoFlush(m, f) == Unmapped([m EXCEPT !.file[f] = NoFile], f)

\* The entry is closed, a dirty table flushed, and only then the mapping reset.
FatClose(m, f) == Unmapped(Flush([m EXCEPT !.file[f] = NoFile]), f)

Opened(m, f) == IF Ok(m) THEN [m EXCEPT !.file[f].open = TRUE] ELSE m

\* VboToLbo, and the write there.
WriteAt(m, vbo, unit) ==
    IF Maps(m, vbo) THEN Write(m, Lbo(m, vbo), unit) ELSE Failed(m, "EINVAL")
PutAt(m, f, vbo, unit) == IF Ok(m) THEN WriteAt(Loaded(m, f, vbo), vbo, unit) ELSE m

\* The first two entries of a new directory.
Dots(m, f, parent) ==
    PutAt(PutAt(m, f, 0, Dirent(Dot, TRUE, m.file[f].dirent.first)),
          f, 1, Dirent(DotDot, TRUE, parent))

WithCluster(m, f) == IF Ok(m) THEN FatIncreaseFileAllocation(m, f, 2) ELSE m
WithDots(m, f, parent) == IF Ok(m) THEN Dots(m, f, parent) ELSE m

\* ArcCreateDirectory of what does not exist: entry, cluster, "." and "..".
CreateDirectory(m, f, name, parent) ==
    Opened(WithDots(WithCluster(
               FatCreateDirent([m EXCEPT !.file[f].dirent = Dirent(name, TRUE, Available)],
                               f, parent), f), f, parent), f)

\* What an open of what exists does, by kind and mode.
OpenFound(m, f, e, mode) ==
    IF e.dir
    THEN CASE mode = "OpenDirectory" -> Opened(m, f)
           [] mode = "CreateDirectory" -> Failed(m, "EACCES")
           [] OTHER -> Failed(m, "EISDIR")
    ELSE CASE mode = "OpenReadOnly" -> Opened(m, f)
           [] mode = "SupersedeWriteOnly" ->
                IF e.readOnly THEN Failed(m, "EROFS")
                ELSE Opened(FatTruncateFileAllocation(m, f), f)
           [] OTHER -> Failed(m, "ENOTDIR")

\* ... and of what does not.
OpenMissing(m, f, name, parent, mode) ==
    CASE mode = "SupersedeWriteOnly" ->
           Opened(FatCreateDirent([m EXCEPT !.file[f].dirent =
                                      Dirent(name, FALSE, Available)], f, parent), f)
      [] mode = "CreateDirectory" -> CreateDirectory(m, f, name, parent)
      [] OTHER -> Failed(m, "ENOENT")

\* A failed open leaves something in the entry of the file table that is not looked at
\* again.
Answered(m, f) == IF Ok(m) THEN m ELSE [m EXCEPT !.file[f] = NoFile]

OpenAt(m, f, name, mode, walk) ==
    LET held == [m EXCEPT !.file[f] =
                    [NoFile EXCEPT !.dirent = walk.dirent, !.where = walk.where]]
    IN  IF walk.left THEN Failed(m, "ENOTDIR")
        ELSE IF walk.found THEN OpenFound(held, f, walk.dirent, mode)
        ELSE OpenMissing(held, f, name, walk.dir, mode)

\* BlOpen and FatOpen.
FatOpen(m, f, path, mode) ==
    Answered(OpenAt(Recognized(m), f, Last(path), mode, Walk(Recognized(m), path)), f)

Take(m, f) ==
    LET v == m.file[f].position
    IN  IF ~Maps(m, v) \/ v >= m.file[f].dirent.size THEN m
        ELSE [m EXCEPT !.got = Append(@, UnitAt(m, Lbo(m, v))), !.file[f].position = v + 1]

TakeNext(m, f) == Take(Loaded(m, f, m.file[f].position), f)

\* FatRead stops short, and succeeds, at the end of the file or of its chain.
FatRead(m, f, length) ==
    LET Turn[k \in 0 .. length] ==
            IF k = 0 THEN [m EXCEPT !.got = <<>>] ELSE TakeNext(Turn[k - 1], f)
    IN  Turn[length]

\* Room for a write that ends at "beyond", and the entry with its new size.
Extended(m, f, beyond) ==
    IF Ok(m) THEN WriteDirent([m EXCEPT !.file[f].dirent.size = beyond], f) ELSE m
Sized(m, f, beyond) ==
    IF beyond <= m.file[f].dirent.size THEN m
    ELSE Extended(FatIncreaseFileAllocation(m, f, beyond), f, beyond)

Advanced(m, f) == IF Ok(m) THEN [m EXCEPT !.file[f].position = @ + 1] ELSE m

PutNext(m, f, unit) == Advanced(PutAt(m, f, m.file[f].position, unit), f)

\* FatWrite: allocation, then the entry with its new size, then the data, then the
\* table.
FatWrite(m, f, units) ==
    LET Put[k \in 0 .. Len(units)] ==
            IF k = 0 THEN Sized(m, f, m.file[f].position + Len(units))
            ELSE PutNext(Put[k - 1], f, units[k])
    IN  Flush(Put[Len(units)])

\* Mutant: the entry is marked deleted and its clusters stay.
DeleteEntryOnly(m, f) ==
    IF m.file[f].where = Nowhere \/ m.file[f].dirent.readOnly THEN Failed(m, "EACCES")
    ELSE WriteDirent([m EXCEPT !.file[f].dirent.name = Deleted], f)

Emptied(m, f) == IF Ok(m) THEN FatTruncateFileAllocation(m, f) ELSE m

\* FatSetFileInformation with ArcDeleteFile.  Programs delete what they opened with
\* OpenReadOnly, which is never a directory.
DeleteFile(m, f) ==
    IF m.file[f].where = Nowhere \/ m.file[f].dirent.readOnly THEN Failed(m, "EACCES")
    ELSE Emptied(WriteDirent([m EXCEPT !.file[f].dirent.name = Deleted], f), f)

\* FatGetFileInformation: the end of the file, as of the entry's copy of its dirent.
FatGetFileInformation(m, f) == m.file[f].dirent.size

SetReadOnly(m, f, on) ==
    IF m.file[f].where = Nowhere THEN Failed(m, "EACCES")
    ELSE WriteDirent([m EXCEPT !.file[f].dirent.readOnly = on], f)

\* One turn of the loop: the entry at the position, if there is one and it is in use.
Listed(m, f, unit) ==
    IF unit.name = Blank.name THEN Failed(m, "ENOTDIR")
    ELSE IF unit.name = Deleted THEN [m EXCEPT !.file[f].position = @ + 1]
    ELSE [m EXCEPT !.file[f].position = @ + 1, !.got = <<unit>>, !.status = "ESUCCESS"]

LookAt(m, f) ==
    IF ~Maps(m, m.file[f].position) THEN Failed(m, "ENOTDIR")
    ELSE Listed(m, f, UnitAt(m, Lbo(m, m.file[f].position)))

LookOn(m, f) ==
    IF m.status # "scan" THEN m ELSE LookAt(Loaded(m, f, m.file[f].position), f)

\* FatGetDirectoryEntry of one entry: the next that is in use, from the position on.
FatGetDirectoryEntry(m, f) ==
    IF ~m.file[f].dirent.dir THEN Failed(m, "EBADF")
    ELSE LET Turn[k \in 0 .. RootSlots + Units * TotalClustersInVolume] ==
                 IF k = 0 THEN [m EXCEPT !.got = <<>>, !.status = "scan"]
                 ELSE LookOn(Turn[k - 1], f)
         IN  Turn[RootSlots + Units * TotalClustersInVolume]

-----------------------------------------------------------------------------
(* What a sound volume is.                                                 *)

InUse(unit) == ~IsFree(unit)

\* The places of directory entries: the root's, and those of the directories in it.
Subdirectories(m) ==
    {m.disk[Root][i].first : i \in {k \in 1 .. RootSlots :
        InUse(m.disk[Root][k]) /\ m.disk[Root][k].dir}} \ {Root}
SlotsIn(m, first) == LET s == Slots(m, first) IN {s[i] : i \in DOMAIN s}
Live(m) ==
    {at \in UNION {SlotsIn(m, d) : d \in {Root} \cup Subdirectories(m)} :
        InUse(UnitAt(m, at)) /\ UnitAt(m, at).name \notin {Dot, DotDot}}

ClustersOf(m, at) == LET cs == Chain(m.fat, UnitAt(m, at).first) IN {cs[i] : i \in DOMAIN cs}

\* Chains of live entries share no cluster; as long as no write was refused they end,
\* are as long as the sizes of files need and, unless an allocation failed, lead to
\* every cluster that is in use.
Sound(m) ==
    /\ \A p, q \in Live(m) : p # q => ClustersOf(m, p) \cap ClustersOf(m, q) = {}
    /\ ~m.refused => \A p \in Live(m) :
          /\ UnitAt(m, p).first # Available =>
                m.fat[Chain(m.fat, UnitAt(m, p).first)
                          [Len(Chain(m.fat, UnitAt(m, p).first))]] = LAST
          /\ ~UnitAt(m, p).dir =>
                Units * Cardinality(ClustersOf(m, p)) >= UnitAt(m, p).size
    /\ ~m.refused /\ ~m.full =>
          {c \in Clusters : m.fat[c] # Available} = UNION {ClustersOf(m, p) : p \in Live(m)}
=============================================================================
