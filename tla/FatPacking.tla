----------------------------- MODULE FatPacking -----------------------------
(***************************************************************************)
(* How FatLookupFatEntry and FatSetFatEntry lay entries out in bytes: two  *)
(* bytes for an entry of 16 bits, three for a pair of entries of 12, the   *)
(* middle one shared.  An entry is read and written as the USHORT at its   *)
(* first byte, so setting one rewrites half of its neighbour.              *)
(***************************************************************************)
EXTENDS FatCalls

CONSTANTS
    FatBits,     \* FatIndexBitSize: 12 or 16
    WindowBytes, \* FAT_CACHE_SIZE
    Stored,      \* what callers pass as FatEntry
    Formats      \* the tables a volume may be formatted with

UCHAR == {x \in Nat : x < 256}
USHORT == {x \in Nat : x < 65536}

\* "It must be a multiple of 6 bytes" (inc/fatboot.h).
ASSUME PackingAssumption ==
    /\ FatSize \in Nat \ {0}
    /\ FatBits \in {12, 16}
    /\ WindowBytes \in Nat \ {0} /\ WindowBytes % 6 = 0
    /\ Stored \subseteq USHORT

\* The first byte of an entry; a FAT_ENTRY holds 16 bits.
Vbo(i) == IF FatBits = 12 THEN (3 * i) \div 2 ELSE 2 * i

FatBytes == 0 .. (Vbo(FatSize - 1) + 1)
ByteTables == [FatBytes -> UCHAR]

ASSUME FormatAssumption == Formats # {} /\ Formats \subseteq ByteTables

-----------------------------------------------------------------------------
(* CopyUchar2 and the shifts and masks, as arithmetic.                     *)

Word(low, high) == low + 256 * high
Low(u) == u % 256
High(u) == u \div 256

\* The entry in the lower and the one in the upper twelve bits.
LowerTwelve(u) == u % 4096
UpperTwelve(u) == u \div 16

\* Mutant: the neighbour's four bits are not kept.
WithLowerBare(u, v) == LowerTwelve(v)

\* u with the entry v there, and its other four bits.
WithLowerTwelve(u, v) == (u \div 4096) * 4096 + LowerTwelve(v)
WithUpperTwelve(u, v) == (u % 16) + 16 * LowerTwelve(v)

-----------------------------------------------------------------------------

\* What is left of a FAT_ENTRY once it is stored.
Masked(v) == IF FatBits = 12 THEN LowerTwelve(v) ELSE v

UShortAt(b, o) == Word(b[o], b[o + 1])

PutUShort(b, o, u) == [b EXCEPT ![o] = Low(u), ![o + 1] = High(u)]

Get(b, i) ==
    LET u == UShortAt(b, Vbo(i))
    IN  IF FatBits = 16 THEN u
        ELSE IF i % 2 = 1 THEN UpperTwelve(u)
        ELSE LowerTwelve(u)

\* The USHORT to store: the entry, and the four bits next to it.
Merged(b, i, v) ==
    LET u == UShortAt(b, Vbo(i))
    IN  IF FatBits = 16 THEN v
        ELSE IF i % 2 = 0 THEN WithLowerTwelve(u, v)
        ELSE WithUpperTwelve(u, v)

Put(b, i, v) == PutUShort(b, Vbo(i), Merged(b, i, v))

\* Mutant: the byte right after the window counts as cached.
MissesLate(from, i) == Vbo(i) < from \/ Vbo(i) > from + WindowBytes

\* The window at base does not hold the entry.
Misses(from, i) == Vbo(i) < from \/ Vbo(i) + 1 > from + WindowBytes

WindowOf(i) == (Vbo(i) \div WindowBytes) * WindowBytes

-----------------------------------------------------------------------------

VARIABLES
    bytes,     \* the table, in bytes
    cachedVbo  \* CachedFatVbo

packedVars == <<bytes, cachedVbo, reply>>

PackedInit ==
    /\ bytes \in Formats
    /\ cachedVbo = 0
    /\ reply = Done

MoveWindow(i) == cachedVbo' = IF Misses(cachedVbo, i) THEN WindowOf(i) ELSE cachedVbo

LookupPacked(i) ==
    /\ MoveWindow(i)
    /\ reply' = Holds(i, Get(bytes, i))
    /\ UNCHANGED bytes

SetPacked(i, v) ==
    /\ MoveWindow(i)
    /\ bytes' = Put(bytes, i, v)
    /\ reply' = Done

PackedNext ==
    \/ \E i \in Entries : LookupPacked(i)
    \/ \E i \in Entries, v \in Stored : SetPacked(i, v)

PackedSpec == PackedInit /\ [][PackedNext]_packedVars

-----------------------------------------------------------------------------
(* Properties.                                                             *)

\* What a stored USHORT is split into are bytes.
BytesOK ==
    /\ bytes \in ByteTables
    /\ cachedVbo \in Nat
    /\ reply \in {Done} \cup [status : {"done"}, index : Entries, value : USHORT]

\* How many whole entries FAT_CACHE_SIZE bytes hold.
EntriesInWindow ==
    IF FatBits = 12 THEN 4 * (WindowBytes \div 6) ELSE 3 * (WindowBytes \div 6)

\* The window holds whole entries: it starts with one, and the test that
\* looks at two bytes finds exactly the entries both of whose bytes are there.
WindowHoldsWholeEntries ==
    \E first \in 0 .. cachedVbo :
        /\ cachedVbo = Vbo(first)
        /\ \A i \in Entries :
              ~Misses(cachedVbo, i) <=> i \in first .. (first + EntriesInWindow - 1)

\* What the table starts with and what is stored in it.
EntryValues ==
    {Masked(v) : v \in Stored}
        \cup UNION {{Get(format, i) : i \in Entries} : format \in Formats}

PackedTable == INSTANCE FatTable
            WITH Values <- EntryValues,
                 table  <- [i \in Entries |-> Get(bytes, i)]

\* Entries do not disturb each other: the bytes are an array of entries, and
\* setting one sets it to its low bits and leaves every other alone.
PackingImplementsFatTable == PackedTable!Spec
=============================================================================
