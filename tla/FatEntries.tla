----------------------------- MODULE FatEntries -----------------------------
(***************************************************************************)
(* The file allocation table as ported/fatboot.c reads and writes it:      *)
(* through one window of FAT_CACHE_SIZE bytes that belongs to the volume   *)
(* context, over a table that the disk keeps in several copies.  Entries   *)
(* never straddle two windows (FatPacking), so the window counts entries.  *)
(* The operators work on any record with the fields below; FatVolume uses  *)
(* them on the whole volume.                                               *)
(***************************************************************************)
EXTENDS FatCalls

CONSTANTS
    WindowSize,    \* entries that FAT_CACHE_SIZE bytes hold
    Fats,          \* copies of the table (Bpb.Fats)
    Values,        \* what an entry may hold
    Zero,          \* the value of a zeroed entry
    ReadsMayFail,  \* does the device ever fail to read?
    MountsWhenDirty  \* is the volume ever recognized again while a change
                     \* of the table is unsaved?

ASSUME FatAssumption ==
    /\ FatSize \in Nat \ {0} /\ WindowSize \in Nat \ {0} /\ Fats \in Nat \ {0}
    /\ Zero \in Values
    /\ ReadsMayFail \in BOOLEAN /\ MountsWhenDirty \in BOOLEAN

Copies == 1 .. Fats

-----------------------------------------------------------------------------
(* A volume m has the fields                                               *)
(*   fat       the copies of the table on the disk                         *)
(*   loaded    CachedFat # NULL          base    CachedFatVbo, in entries  *)
(*   window    CachedFatBuffer           dirty   CachedFatDirty            *)
(*   writes    how many more writes the device will carry out              *)
(*   readable  whether it will carry out a read                            *)
(*   status    of the call in progress; once it is not ESUCCESS the        *)
(*             macros DiskRead, DiskWrite, ... return from their caller    *)

Ok(m) == m.status = "ESUCCESS"

Cached(m, i) == m.loaded /\ i \in m.base .. (m.base + WindowSize - 1)

\* Mutant: the last window is written in full, past the end of the table.
SavedUnclamped(m, c) ==
    [i \in Entries \cup m.base .. (m.base + WindowSize - 1) |->
        IF Cached(m, i) THEN m.window[i - m.base] ELSE m.fat[c][i]]

\* The copy c once the window is on it.
Saved(m, c) ==
    [i \in Entries |-> IF Cached(m, i) THEN m.window[i - m.base] ELSE m.fat[c][i]]

\* Mutant: only the first copy of the table is written.
FlushFirstCopy(m) ==
    IF m.writes = 0
    THEN [m EXCEPT !.status = "EIO"]
    ELSE [m EXCEPT !.fat = [c \in Copies |-> IF c = 1 THEN Saved(m, c) ELSE m.fat[c]],
                   !.writes = m.writes - 1,
                   !.dirty = FALSE]

\* The copies are written in turn; a write that fails returns at once.
FatFlushFatEntries(m) ==
    LET done == IF m.writes < Fats THEN m.writes ELSE Fats
    IN  [m EXCEPT !.fat = [c \in Copies |->
                              IF c <= done THEN Saved(m, c) ELSE m.fat[c]],
                  !.writes = m.writes - done,
                  !.dirty = done < Fats,
                  !.status = IF done < Fats THEN "EIO" ELSE m.status]

\* CachedFatVbo moves before the read, and stays there when the read fails.
\* What the window holds past the end of the table is never looked up.
ReadWindow(m, i) ==
    LET base == (i \div WindowSize) * WindowSize
    IN  IF m.readable
        THEN [m EXCEPT !.base = base,
                       !.window = [o \in 0 .. (WindowSize - 1) |->
                                      IF base + o \in Entries THEN m.fat[1][base + o]
                                      ELSE Zero]]
        ELSE [m EXCEPT !.base = base, !.status = "EIO"]

\* Mutant: a dirty window is not flushed before it is replaced.
LoadWindowNoFlush(m, i) ==
    IF Cached(m, i) THEN m ELSE ReadWindow([m EXCEPT !.loaded = TRUE], i)

\* What both routines do first: have the entry in the window.
LoadWindow(m, i) ==
    LET open    == [m EXCEPT !.loaded = TRUE]
        flushed == IF m.dirty THEN FatFlushFatEntries(open) ELSE open
    IN  IF Cached(m, i) THEN m
        ELSE IF Ok(flushed) THEN ReadWindow(flushed, i)
        ELSE flushed

\* After a successful lookup the entry is Fat(m, i).
FatLookupFatEntry(m, i) == IF Ok(m) THEN LoadWindow(m, i) ELSE m

Fat(m, i) == m.window[i - m.base]

FatSetFatEntry(m, i, v) ==
    LET at == FatLookupFatEntry(m, i)
    IN  IF Ok(at)
        THEN [at EXCEPT !.window[i - at.base] = v, !.dirty = TRUE]
        ELSE at

\* IsFatFileStructure zeroes the context, and the window with it.
ZeroContext(m) ==
    [m EXCEPT !.loaded = FALSE, !.base = 0, !.dirty = FALSE,
              !.window = [o \in 0 .. (WindowSize - 1) |-> Zero]]

-----------------------------------------------------------------------------
(* The calls of the rest of fatboot.c, one at a time, on a device that may *)
(* refuse a write at any point.                                            *)

VARIABLES
    vol   \* the volume

vars == <<vol, reply>>

\* A call begins on a device in any mood; between calls the fields that
\* describe the call have their idle values.
Devices == [writes : 0 .. Fats, readable : {TRUE, ~ReadsMayFail}]

Calls ==
    {[vol EXCEPT !.writes = d.writes, !.readable = d.readable] : d \in Devices}

Returned(m) == [m EXCEPT !.writes = 0, !.readable = TRUE, !.status = "ESUCCESS"]

Init ==
    /\ vol \in [fat      : {[c \in Copies |-> t] : t \in [Entries -> Values]},
                loaded   : {FALSE},
                base     : {0},
                window   : {[o \in 0 .. (WindowSize - 1) |-> Zero]},
                dirty    : {FALSE},
                writes   : {0},
                readable : {TRUE},
                status   : {"ESUCCESS"}]
    /\ reply = Done

Lookup(i) ==
    \E call \in Calls :
        LET m == FatLookupFatEntry(call, i)
        IN  /\ vol' = Returned(m)
            /\ reply' = IF Ok(m) THEN Holds(i, Fat(m, i)) ELSE Failed

Set(i, v) ==
    \E call \in Calls :
        LET m == FatSetFatEntry(call, i, v)
        IN  /\ vol' = Returned(m)
            /\ reply' = IF Ok(m) THEN Done ELSE Failed

\* FatClose and FatWrite flush what is dirty.
Flush ==
    /\ vol.dirty
    /\ \E call \in Calls :
          LET m == FatFlushFatEntries(call)
          IN  /\ vol' = Returned(m)
              /\ reply' = IF Ok(m) THEN Done ELSE Failed

\* BlOpen recognizes the volume again for every file it opens.
Mount ==
    /\ vol.dirty => MountsWhenDirty
    /\ vol' = ZeroContext(vol)
    /\ reply' = Done

Next ==
    \/ \E i \in Entries : Lookup(i)
    \/ \E i \in Entries, v \in Values : Set(i, v)
    \/ Flush
    \/ Mount

Spec == Init /\ [][Next]_vars

-----------------------------------------------------------------------------
(* Properties.                                                             *)

Tables == [Entries -> Values]

Volumes ==
    [fat : [Copies -> Tables], loaded : BOOLEAN, base : Nat,
     window : [0 .. (WindowSize - 1) -> Values], dirty : BOOLEAN,
     writes : 0 .. Fats, readable : BOOLEAN, status : {"ESUCCESS", "EIO"}]

\* The volume keeps its type; in particular every copy on the disk stays a
\* table, though the last window reaches past its end.
TypeOK ==
    /\ vol \in Volumes
    /\ reply \in {Done, Failed} \cup {Holds(i, v) : i \in Entries, v \in Values}

\* The table the callers see: the window where it is, the first copy elsewhere.
Seen == Saved(vol, 1)

\* The only changes a power failure can take away are in a dirty window:
\* every other entry is the same in every copy on the disk, whatever writes
\* have failed in between.
OnlyWindowUnsaved ==
    \A c \in Copies, i \in Entries :
        (vol.dirty /\ Cached(vol, i)) \/ vol.fat[c][i] = Seen[i]

Table == INSTANCE FatTable WITH table <- Seen

\* A lookup "is semantically equivalent to doing x = Fat[FatIndex]": while no
\* change is unsaved, the value it answers is one that a copy on the disk holds.
LookupTells ==
    ~vol.dirty => \A i \in Entries, v \in Values :
                     reply = Holds(i, v) => \E c \in Copies : vol.fat[c][i] = v

\* The window, its evictions, the copies and the writes that fail halfway
\* through them are invisible: callers see one array.
ImplementsFatTable == Table!Spec
=============================================================================
