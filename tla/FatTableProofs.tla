--------------------------- MODULE FatTableProofs ---------------------------
(***************************************************************************)
(* The file allocation table, in two layers.                               *)
(*                                                                         *)
(* The cached table is one array for its callers, whatever writes fail, as *)
(* long as the device reads and the volume is not recognized again over    *)
(* unsaved changes.  The proof goes from the routines, as lemmas about the *)
(* record they work on, to the actions.                                    *)
(*                                                                         *)
(* Packed entries are an array of entries, for tables of any size and      *)
(* either width, and no entry straddles two windows.  The proof goes from  *)
(* arithmetic on bytes to Put and Get, and from there to the actions.      *)
(***************************************************************************)
EXTENDS FatEntries, FatPacking, TLAPS

View(m) == Saved(m, 1)

\* What a volume satisfies during a call, for every call that reads.
Sound(m) ==
    /\ m \in Volumes
    /\ m.dirty => m.loaded
    /\ \A c \in Copies, i \in Entries :
          (m.dirty /\ Cached(m, i)) \/ m.fat[c][i] = View(m)[i]

\* The two tables the routines write are tables.
LEMMA SavedType ==
    ASSUME NEW m \in Volumes, NEW c \in Copies
    PROVE  Saved(m, c) \in Tables
<1> SUFFICES ASSUME NEW i \in Entries, Cached(m, i)
             PROVE  m.window[i - m.base] \in Values
  BY DEF Saved, Tables, Volumes
<1> i - m.base \in 0 .. (WindowSize - 1)
  BY FatAssumption DEF Cached, Entries, Volumes
<1> QED BY DEF Volumes

\* A flush keeps the type, the window and what callers see.
LEMMA FlushType ==
    ASSUME NEW m \in Volumes
    PROVE  /\ FatFlushFatEntries(m) \in Volumes
           /\ FatFlushFatEntries(m).loaded = m.loaded
           /\ FatFlushFatEntries(m).base = m.base
           /\ FatFlushFatEntries(m).window = m.window
           /\ FatFlushFatEntries(m).readable = m.readable
<1> DEFINE done == IF m.writes < Fats THEN m.writes ELSE Fats
           copies == [c \in Copies |-> IF c <= done THEN Saved(m, c) ELSE m.fat[c]]
<1>1. done \in 0 .. Fats /\ m.writes - done \in 0 .. Fats
  BY FatAssumption DEF Volumes
<1>2. copies \in [Copies -> Tables]
  BY SavedType DEF Volumes
<1>3. (done < Fats) \in BOOLEAN
  OBVIOUS
<1> HIDE DEF done, copies
<1> QED BY <1>1, <1>2, <1>3 DEF Volumes, FatFlushFatEntries, done, copies

LEMMA FlushSound ==
    ASSUME NEW m, Sound(m), m.loaded
    PROVE  /\ Sound(FatFlushFatEntries(m))
           /\ View(FatFlushFatEntries(m)) = View(m)
           /\ Ok(FatFlushFatEntries(m)) => ~FatFlushFatEntries(m).dirty
<1> DEFINE f == FatFlushFatEntries(m)
           done == IF m.writes < Fats THEN m.writes ELSE Fats
<1>1. m \in Volumes /\ 1 \in Copies
  BY FatAssumption DEF Sound, Copies
<1>2. /\ f \in Volumes /\ f.loaded = m.loaded /\ f.base = m.base
      /\ f.window = m.window
  BY <1>1, FlushType
<1>3. \A i : Cached(f, i) <=> Cached(m, i)
  BY <1>2 DEF Cached
<1>4. \A c \in Copies : f.fat[c] = IF c <= done THEN Saved(m, c) ELSE m.fat[c]
  BY <1>1 DEF FatFlushFatEntries, Volumes
<1>5. f.dirty = (done < Fats) /\ (Ok(f) => ~(done < Fats))
  BY <1>1 DEF FatFlushFatEntries, Volumes, Ok
<1> HIDE DEF f
<1>6. \A c \in Copies, i \in Entries :
          f.fat[c][i] = IF c <= done /\ Cached(m, i) THEN m.window[i - m.base]
                        ELSE m.fat[c][i]
  BY <1>4 DEF Saved
<1>7. View(f) = View(m)
  <2> SUFFICES ASSUME NEW i \in Entries PROVE View(f)[i] = View(m)[i]
    BY DEF View, Saved
  <2> QED BY <1>1, <1>2, <1>3, <1>6 DEF View, Saved
<1>8. \A c \in Copies, i \in Entries :
          (f.dirty /\ Cached(f, i)) \/ f.fat[c][i] = View(m)[i]
  <2> SUFFICES ASSUME NEW c \in Copies, NEW i \in Entries,
                      ~(f.dirty /\ Cached(f, i))
               PROVE  f.fat[c][i] = View(m)[i]
    OBVIOUS
  <2>1. CASE Cached(m, i)
    <3> c <= done
      BY <1>1, <1>3, <1>5, <2>1, FatAssumption DEF Copies, Volumes
    <3> QED BY <1>6, <2>1 DEF View, Saved
  <2>2. CASE ~Cached(m, i)
    BY <1>1, <1>6, <2>2 DEF Sound, View, Saved
  <2> QED BY <2>1, <2>2
<1>9. Sound(f)
  BY <1>2, <1>7, <1>8 DEF Sound
<1> QED BY <1>5, <1>7, <1>9 DEF f

\* Every index lies in the window that ReadWindow computes for it.
LEMMA WindowHolds ==
    ASSUME NEW i \in Nat, NEW w \in Nat \ {0}
    PROVE  /\ (i \div w) * w \in Nat
           /\ i \in (i \div w) * w .. ((i \div w) * w + w - 1)
<1> DEFINE q == i \div w
           r == i % w
<1>1. q \in Nat /\ r \in 0 .. (w - 1)
  OBVIOUS
<1>2. i = q * w + r
  OBVIOUS
<1>3. q * w \in Nat
  BY <1>1
<1> QED BY <1>1, <1>2, <1>3

LEMMA ReadType ==
    ASSUME NEW m \in Volumes, NEW i \in Entries
    PROVE  /\ ReadWindow(m, i) \in Volumes
           /\ ReadWindow(m, i).fat = m.fat
           /\ ReadWindow(m, i).loaded = m.loaded
           /\ ReadWindow(m, i).dirty = m.dirty
           /\ ReadWindow(m, i).readable = m.readable
           /\ m.loaded => Cached(ReadWindow(m, i), i)
<1> DEFINE base == (i \div WindowSize) * WindowSize
           window == [o \in 0 .. (WindowSize - 1) |->
                        IF base + o \in Entries THEN m.fat[1][base + o] ELSE Zero]
<1>1. i \in Nat /\ 1 \in Copies
  BY FatAssumption DEF Entries, Copies
<1>2. base \in Nat /\ i \in base .. (base + WindowSize - 1)
  BY <1>1, WindowHolds, FatAssumption
<1>3. window \in [0 .. (WindowSize - 1) -> Values]
  BY <1>1, FatAssumption DEF Volumes, Tables
<1> HIDE DEF base, window
<1> QED BY <1>2, <1>3 DEF ReadWindow, Volumes, Cached, base, window

LEMMA ReadSound ==
    ASSUME NEW m \in Volumes, ~m.dirty, m.readable, NEW i \in Entries,
           \A c \in Copies, j \in Entries : m.fat[c][j] = m.fat[1][j]
    PROVE  /\ Sound(ReadWindow(m, i))
           /\ \A j \in Entries : View(ReadWindow(m, i))[j] = m.fat[1][j]
<1> DEFINE r == ReadWindow(m, i)
           base == (i \div WindowSize) * WindowSize
<1>2. /\ r \in Volumes /\ r.fat = m.fat /\ r.loaded = m.loaded /\ r.dirty = m.dirty
  BY ReadType
<1>3. /\ r.base = base
      /\ r.window = [o \in 0 .. (WindowSize - 1) |->
                        IF base + o \in Entries THEN m.fat[1][base + o] ELSE Zero]
  BY DEF ReadWindow, Volumes
<1>4. base \in Nat
  BY WindowHolds, FatAssumption DEF Entries
<1> HIDE DEF r, base
<1>6. ASSUME NEW j \in Entries PROVE View(r)[j] = m.fat[1][j]
  <2>1. CASE Cached(r, j)
    <3>1. j - base \in 0 .. (WindowSize - 1) /\ base + (j - base) = j
      BY <1>3, <1>4, <2>1, FatAssumption DEF Cached, Entries
    <3>2. r.window[j - base] = m.fat[1][j]
      BY <1>3, <3>1
    <3> QED BY <1>3, <2>1, <3>2 DEF View, Saved
  <2>2. CASE ~Cached(r, j)
    BY <1>2, <2>2 DEF View, Saved
  <2> QED BY <2>1, <2>2
<1>7. Sound(r)
  BY <1>2, <1>6 DEF Sound
<1> QED BY <1>6, <1>7 DEF r

\* Having an entry in the window changes nothing a caller sees.
LEMMA LoadType ==
    ASSUME NEW m \in Volumes, NEW i \in Entries
    PROVE  /\ LoadWindow(m, i) \in Volumes
           /\ (m.dirty => m.loaded)
                 => (LoadWindow(m, i).dirty => LoadWindow(m, i).loaded)
<1> DEFINE open    == [m EXCEPT !.loaded = TRUE]
           flushed == IF m.dirty THEN FatFlushFatEntries(open) ELSE open
<1>1. open \in Volumes /\ open.loaded
  BY DEF Volumes
<1>2. flushed \in Volumes /\ flushed.loaded
  BY <1>1, FlushType
<1> HIDE DEF open, flushed
<1>3. ReadWindow(flushed, i) \in Volumes /\ ReadWindow(flushed, i).loaded
  BY <1>2, ReadType
<1> QED BY <1>2, <1>3 DEF LoadWindow, open, flushed

LEMMA LoadReaches ==
    ASSUME NEW m \in Volumes, NEW i \in Entries, Ok(LoadWindow(m, i))
    PROVE  Cached(LoadWindow(m, i), i)
<1> DEFINE open    == [m EXCEPT !.loaded = TRUE]
           flushed == IF m.dirty THEN FatFlushFatEntries(open) ELSE open
<1>1. open \in Volumes /\ open.loaded
  BY DEF Volumes
<1>2. flushed \in Volumes /\ flushed.loaded
  BY <1>1, FlushType
<1> HIDE DEF open, flushed
<1>3. Cached(ReadWindow(flushed, i), i)
  BY <1>2, ReadType
<1> QED BY <1>3 DEF LoadWindow, open, flushed

LEMMA LoadSound ==
    ASSUME NEW m, Sound(m), Ok(m), m.readable, NEW i \in Entries
    PROVE  /\ Sound(LoadWindow(m, i))
           /\ View(LoadWindow(m, i)) = View(m)
           /\ Ok(LoadWindow(m, i)) => Cached(LoadWindow(m, i), i)
<1> DEFINE open    == [m EXCEPT !.loaded = TRUE]
           flushed == IF m.dirty THEN FatFlushFatEntries(open) ELSE open
           r       == ReadWindow(flushed, i)
<1>1. m \in Volumes /\ 1 \in Copies
  BY FatAssumption DEF Sound, Copies
<1>2. CASE Cached(m, i)
  BY <1>2 DEF LoadWindow
<1>3. ASSUME ~Cached(m, i),
             flushed \in Volumes, ~flushed.dirty, flushed.readable, flushed.loaded,
             Ok(flushed),
             \A c \in Copies, j \in Entries : flushed.fat[c][j] = View(m)[j]
      PROVE  /\ Sound(LoadWindow(m, i))
             /\ View(LoadWindow(m, i)) = View(m)
             /\ Ok(LoadWindow(m, i)) => Cached(LoadWindow(m, i), i)
  <2>1. LoadWindow(m, i) = r
    BY <1>3 DEF LoadWindow
  <2> HIDE DEF flushed
  <2>2. \A c \in Copies, j \in Entries : flushed.fat[c][j] = flushed.fat[1][j]
    BY <1>1, <1>3
  <2>3. Sound(r) /\ \A j \in Entries : View(r)[j] = flushed.fat[1][j]
    BY <1>3, <2>2, ReadSound
  <2>4. Cached(r, i)
    BY <1>3, ReadType
  <2> HIDE DEF r
  <2>5. \A j \in Entries : View(r)[j] = View(m)[j]
    BY <1>1, <1>3, <2>3
  <2>6. View(r) = View(m)
    BY <2>5 DEF View, Saved
  <2> QED BY <2>1, <2>3, <2>4, <2>6
<1>4. CASE ~Cached(m, i) /\ m.dirty
  <2>1. open = m /\ m.loaded
    BY <1>1, <1>4 DEF Sound, Volumes
  <2>2. flushed = FatFlushFatEntries(m)
    BY <1>4, <2>1
  <2>3. /\ Sound(flushed) /\ View(flushed) = View(m)
        /\ Ok(flushed) => ~flushed.dirty
    BY <2>1, <2>2, FlushSound
  <2>4. flushed.loaded /\ flushed.readable
    BY <1>1, <2>1, <2>2, FlushType
  <2>5. CASE Ok(flushed)
    <3>1. flushed \in Volumes /\ ~flushed.dirty
      BY <2>3, <2>5 DEF Sound
    <3>2. \A c \in Copies, j \in Entries : flushed.fat[c][j] = View(m)[j]
      BY <2>3, <3>1 DEF Sound
    <3> QED BY <1>3, <1>4, <2>4, <2>5, <3>1, <3>2
  <2>6. CASE ~Ok(flushed)
    BY <1>4, <2>3, <2>6 DEF LoadWindow
  <2> QED BY <2>5, <2>6
<1>5. CASE ~Cached(m, i) /\ ~m.dirty
  <2>1. flushed = open
    BY <1>5
  <2>2. /\ open \in Volumes /\ open.loaded /\ ~open.dirty /\ open.readable
        /\ open.fat = m.fat /\ Ok(open)
    BY <1>1, <1>5 DEF Volumes, Ok
  <2>3. \A c \in Copies, j \in Entries : m.fat[c][j] = View(m)[j]
    BY <1>5 DEF Sound
  <2> QED BY <1>3, <1>5, <2>1, <2>2, <2>3
<1> QED BY <1>2, <1>4, <1>5

\* Setting an entry changes what callers see at that entry and nowhere else.
LEMMA SetType ==
    ASSUME NEW m \in Volumes, NEW i \in Entries, NEW v \in Values
    PROVE  /\ FatLookupFatEntry(m, i) \in Volumes
           /\ FatSetFatEntry(m, i, v) \in Volumes
<1> DEFINE at == FatLookupFatEntry(m, i)
<1>1. at \in Volumes
  BY LoadType DEF FatLookupFatEntry
<1> HIDE DEF at
<1>2. [at EXCEPT !.window[i - at.base] = v, !.dirty = TRUE] \in Volumes
  <2>1. [at.window EXCEPT ![i - at.base] = v] \in [0 .. (WindowSize - 1) -> Values]
    BY <1>1 DEF Volumes
  <2> QED BY <1>1, <2>1 DEF Volumes
<1> QED BY <1>1, <1>2 DEF FatSetFatEntry, at

LEMMA SetSound ==
    ASSUME NEW m, Sound(m), Ok(m), m.readable, NEW i \in Entries, NEW v \in Values
    PROVE  LET s == FatSetFatEntry(m, i, v)
           IN  /\ Sound(s)
               /\ Ok(s) => View(s) = [View(m) EXCEPT ![i] = v]
               /\ ~Ok(s) => View(s) = View(m)
<1> DEFINE at == FatLookupFatEntry(m, i)
           s  == FatSetFatEntry(m, i, v)
<1>1. /\ Sound(at) /\ View(at) = View(m)
      /\ Ok(at) => Cached(at, i)
  BY LoadSound DEF FatLookupFatEntry
<1>2. s \in Volumes
  BY SetType DEF Sound
<1> HIDE DEF at
<1>3. CASE ~Ok(at)
  BY <1>1, <1>3 DEF FatSetFatEntry, at
<1>4. CASE Ok(at)
  <2>1. s = [at EXCEPT !.window[i - at.base] = v, !.dirty = TRUE]
    BY <1>4 DEF FatSetFatEntry, at
  <2>2. /\ at \in Volumes /\ at.loaded
        /\ i - at.base \in 0 .. (WindowSize - 1)
    BY <1>1, <1>4, FatAssumption DEF Sound, Cached, Volumes, Entries
  <2>3. /\ s.fat = at.fat /\ s.loaded /\ s.base = at.base /\ s.dirty
        /\ s.status = at.status
        /\ s.window = [at.window EXCEPT ![i - at.base] = v]
    BY <2>1, <2>2 DEF Volumes
  <2>4. Ok(s)
    BY <1>4, <2>3 DEF Ok
  <2> HIDE DEF s
  <2>5. \A j : Cached(s, j) <=> Cached(at, j)
    BY <2>2, <2>3 DEF Cached
  <2>6. ASSUME NEW j \in Entries
        PROVE  View(s)[j] = IF j = i THEN v ELSE View(at)[j]
    <3>1. CASE Cached(at, j)
      <4>1. j - at.base \in 0 .. (WindowSize - 1)
        BY <2>2, <3>1, FatAssumption DEF Cached, Volumes, Entries
      <4>2. j - at.base = i - at.base <=> j = i
        BY <2>2 DEF Volumes, Entries
      <4>3. at.window \in [0 .. (WindowSize - 1) -> Values]
        BY <2>2 DEF Volumes
      <4>4. s.window[j - at.base] = IF j - at.base = i - at.base THEN v
                                    ELSE at.window[j - at.base]
        BY <2>2, <2>3, <4>1, <4>3, ZenonT(30)
      <4>5. s.window[j - s.base] = IF j = i THEN v ELSE at.window[j - at.base]
        BY <2>3, <4>2, <4>4, ZenonT(30)
      <4> QED BY <2>5, <3>1, <4>5 DEF View, Saved
    <3>2. CASE ~Cached(at, j)
      BY <1>1, <1>4, <2>3, <2>5, <3>2 DEF View, Saved
    <3> QED BY <3>1, <3>2
  <2>7. View(s) = [View(m) EXCEPT ![i] = v]
    BY <1>1, <2>6 DEF View, Saved
  <2>8. Sound(s)
    <3> SUFFICES ASSUME NEW c \in Copies, NEW j \in Entries, ~Cached(s, j)
                 PROVE  s.fat[c][j] = View(s)[j]
      BY <1>2, <2>3 DEF Sound
    <3>1. at.fat[c][j] = View(at)[j] /\ j # i
      BY <1>1, <1>4, <2>5 DEF Sound
    <3> QED BY <2>3, <2>6, <3>1
  <2> QED BY <2>4, <2>7, <2>8 DEF s
<1> QED BY <1>3, <1>4

-----------------------------------------------------------------------------
(* From the routines to the actions.                                       *)

LEMMA CallsType ==
    ASSUME vol \in Volumes, NEW call \in Calls
    PROVE  call \in Volumes
<1> PICK d \in Devices :
        call = [vol EXCEPT !.writes = d.writes, !.readable = d.readable]
  BY DEF Calls
<1>1. d.writes \in 0 .. Fats /\ d.readable \in BOOLEAN
  BY FatAssumption DEF Devices
<1> QED BY <1>1 DEF Volumes

LEMMA ReturnedType ==
    ASSUME NEW m \in Volumes
    PROVE  Returned(m) \in Volumes
<1>1. 0 \in 0 .. Fats
  BY FatAssumption
<1> QED BY <1>1 DEF Returned, Volumes

LEMMA ZeroContextType ==
    ASSUME NEW m \in Volumes
    PROVE  ZeroContext(m) \in Volumes
BY FatAssumption DEF ZeroContext, Volumes

LEMMA InitType ==
    ASSUME Init
    PROVE  /\ vol \in Volumes
           /\ ~vol.dirty /\ ~vol.loaded /\ vol.status = "ESUCCESS"
           /\ \A c \in Copies : vol.fat[c] = vol.fat[1]
<1>1. PICK t \in Tables : vol.fat = [c \in Copies |-> t]
  BY DEF Init, Tables
<1>2. /\ vol.loaded = FALSE /\ vol.base = 0 /\ vol.dirty = FALSE
      /\ vol.window = [o \in 0 .. (WindowSize - 1) |-> Zero]
      /\ vol.writes = 0 /\ vol.readable = TRUE /\ vol.status = "ESUCCESS"
      /\ vol = [fat |-> vol.fat, loaded |-> vol.loaded, base |-> vol.base,
                window |-> vol.window, dirty |-> vol.dirty, writes |-> vol.writes,
                readable |-> vol.readable, status |-> vol.status]
  BY DEF Init
<1>3. 0 \in 0 .. Fats /\ 0 \in Nat /\ 1 \in Copies
  BY FatAssumption DEF Copies
<1>4. vol.fat \in [Copies -> Tables]
  BY <1>1
<1>5. vol.window \in [0 .. (WindowSize - 1) -> Values]
  BY <1>2, FatAssumption
<1>6. vol \in Volumes
  BY <1>2, <1>3, <1>4, <1>5 DEF Volumes
<1> QED BY <1>1, <1>2, <1>3, <1>6

\* The volume keeps its type in every behaviour, whatever the device fails to
\* do and whenever the volume is recognized again: the flush of the last,
\* partial window never leaves anything but a table on the disk.
THEOREM TableKeepsType == Spec => []TypeOK
<1>1. Init => TypeOK
  <2> SUFFICES ASSUME Init PROVE TypeOK
    OBVIOUS
  <2>1. vol \in Volumes
    BY InitType
  <2> QED BY <2>1 DEF Init, TypeOK
<1>2. TypeOK /\ [Next]_vars => TypeOK'
  <2> SUFFICES ASSUME TypeOK, [Next]_vars PROVE TypeOK'
    OBVIOUS
  <2> USE DEF TypeOK
  <2>1. ASSUME NEW i \in Entries, Lookup(i) PROVE TypeOK'
    <3> PICK call \in Calls :
            /\ vol' = Returned(FatLookupFatEntry(call, i))
            /\ reply' = IF Ok(FatLookupFatEntry(call, i))
                        THEN Holds(i, Fat(FatLookupFatEntry(call, i), i)) ELSE Failed
      BY <2>1 DEF Lookup
    <3> DEFINE m == FatLookupFatEntry(call, i)
    <3>1. call \in Volumes /\ m \in Volumes
      BY CallsType, LoadType DEF FatLookupFatEntry
    <3>2. vol' \in Volumes
      BY <3>1, ReturnedType
    <3>3. Ok(m) => Fat(m, i) \in Values
      <4> SUFFICES ASSUME Ok(m) PROVE Fat(m, i) \in Values
        OBVIOUS
      <4>1. Ok(call) /\ m = LoadWindow(call, i)
        BY DEF FatLookupFatEntry
      <4>2. Cached(m, i)
        BY <3>1, <4>1, LoadReaches
      <4>3. i - m.base \in 0 .. (WindowSize - 1)
        BY <3>1, <4>2, FatAssumption, SMTT(40) DEF Cached, Volumes, Entries
      <4> HIDE DEF m
      <4> QED BY <3>1, <4>3 DEF Fat, Volumes
    <3> QED BY <3>2, <3>3
  <2>2. ASSUME NEW i \in Entries, NEW v \in Values, Set(i, v) PROVE TypeOK'
    BY <2>2, CallsType, SetType, ReturnedType DEF Set
  <2>3. CASE Flush
    BY <2>3, CallsType, FlushType, ReturnedType DEF Flush
  <2>4. CASE Mount
    BY <2>4, ZeroContextType DEF Mount
  <2>5. CASE UNCHANGED vars
    BY <2>5 DEF vars
  <2> QED BY <2>1, <2>2, <2>3, <2>4, <2>5 DEF Next
<1> QED BY <1>1, <1>2, PTL DEF Spec

\* Between calls the volume is sound and idle.
Inv == Sound(vol) /\ Ok(vol)

LEMMA CallsSound ==
    ASSUME Inv, NEW call \in Calls, ReadsMayFail = FALSE
    PROVE  /\ Sound(call) /\ Ok(call) /\ call.readable
           /\ View(call) = View(vol)
           /\ call.loaded = vol.loaded /\ call.dirty = vol.dirty
<1>1. vol \in Volumes
  BY DEF Inv, Sound
<1>2. /\ call \in Volumes /\ call.readable
      /\ call.fat = vol.fat /\ call.loaded = vol.loaded /\ call.base = vol.base
      /\ call.window = vol.window /\ call.dirty = vol.dirty
      /\ call.status = vol.status
  <2> PICK d \in Devices :
          call = [vol EXCEPT !.writes = d.writes, !.readable = d.readable]
    BY DEF Calls
  <2>1. d.readable = TRUE
    BY DEF Devices
  <2>2. call \in Volumes
    BY <1>1, CallsType
  <2> QED BY <1>1, <2>1, <2>2 DEF Volumes
<1>3. \A i : Cached(call, i) <=> Cached(vol, i)
  BY <1>2 DEF Cached
<1>4. View(call) = View(vol)
  BY <1>2, <1>3 DEF View, Saved
<1> QED BY <1>2, <1>3, <1>4 DEF Inv, Sound, Ok

LEMMA ReturnedSound ==
    ASSUME NEW m, Sound(m)
    PROVE  Sound(Returned(m)) /\ Ok(Returned(m)) /\ View(Returned(m)) = View(m)
<1> DEFINE r == Returned(m)
<1>1. m \in Volumes
  BY DEF Sound
<1>2. /\ r \in Volumes /\ Ok(r)
      /\ r.fat = m.fat /\ r.loaded = m.loaded /\ r.base = m.base
      /\ r.window = m.window /\ r.dirty = m.dirty
  BY <1>1, ReturnedType DEF Returned, Volumes, Ok
<1> HIDE DEF r
<1>3. \A i : Cached(r, i) <=> Cached(m, i)
  BY <1>2 DEF Cached
<1>4. View(r) = View(m)
  BY <1>2, <1>3 DEF View, Saved
<1>5. Sound(r)
  BY <1>2, <1>3, <1>4 DEF Sound
<1> QED BY <1>2, <1>4, <1>5 DEF r

\* A clean volume that is recognized again shows the same table.
LEMMA ZeroContextSound ==
    ASSUME NEW m, Sound(m), ~m.dirty, Ok(m)
    PROVE  /\ Sound(ZeroContext(m)) /\ Ok(ZeroContext(m))
           /\ View(ZeroContext(m)) = View(m)
<1> DEFINE z == ZeroContext(m)
<1>1. m \in Volumes /\ 1 \in Copies
  BY FatAssumption DEF Sound, Copies
<1>2. z \in Volumes /\ z.fat = m.fat /\ ~z.loaded /\ ~z.dirty /\ Ok(z)
  BY <1>1, ZeroContextType DEF ZeroContext, Volumes, Ok
<1> HIDE DEF z
<1>3. \A c \in Copies, i \in Entries : m.fat[c][i] = View(m)[i]
  BY DEF Sound
<1>4. \A i : ~Cached(z, i)
  BY <1>2 DEF Cached
<1>5. \A i \in Entries : View(z)[i] = View(m)[i]
  BY <1>1, <1>2, <1>3, <1>4 DEF View, Saved
<1>6. View(z) = View(m)
  BY <1>5 DEF View, Saved
<1>7. Sound(z)
  BY <1>2, <1>3, <1>6 DEF Sound
<1> QED BY <1>2, <1>6, <1>7 DEF z

LEMMA InvInit == Init => Inv
<1> SUFFICES ASSUME Init PROVE Inv
  OBVIOUS
<1>1. vol \in Volumes /\ ~vol.dirty /\ ~vol.loaded /\ Ok(vol)
  BY InitType DEF Ok
<1>2. \A c \in Copies : vol.fat[c] = vol.fat[1]
  BY InitType
<1>3. \A i : ~Cached(vol, i)
  BY <1>1 DEF Cached
<1> QED BY <1>1, <1>2, <1>3 DEF Inv, Sound, View, Saved

\* Each step keeps the invariant and is a step of the array: one lemma gives
\* both, since they look at the same calls.
LEMMA StepIsTableStep ==
    ASSUME ReadsMayFail = FALSE, MountsWhenDirty = FALSE, Inv, [Next]_vars
    PROVE  Inv' /\ [Table!Next]_<<Seen, reply>>
<1> USE DEF View, Seen
<1>1. Seen \in Tables
  BY SavedType, FatAssumption DEF Inv, Sound, Copies
<1>2. ASSUME NEW i \in Entries, Lookup(i) PROVE Inv' /\ Table!Lookup(i)
  <2> PICK call \in Calls :
          /\ vol' = Returned(FatLookupFatEntry(call, i))
          /\ reply' = IF Ok(FatLookupFatEntry(call, i))
                      THEN Holds(i, Fat(FatLookupFatEntry(call, i), i)) ELSE Failed
    BY <1>2 DEF Lookup
  <2> DEFINE m == FatLookupFatEntry(call, i)
  <2>1. Sound(m) /\ View(m) = Seen /\ (Ok(m) => Cached(m, i))
    BY CallsSound, LoadSound DEF FatLookupFatEntry
  <2> HIDE DEF m
  <2>2. Inv' /\ Seen' = Seen
    BY <2>1, ReturnedSound DEF Inv, m
  <2>3. Ok(m) => Fat(m, i) = Seen[i]
    BY <2>1 DEF Fat, Saved
  <2> QED BY <2>2, <2>3 DEF Table!Lookup, Table!Holds, Table!Failed, Holds, Failed, m
<1>3. ASSUME NEW i \in Entries, NEW v \in Values, Set(i, v)
      PROVE  Inv' /\ Table!Set(i, v)
  <2> PICK call \in Calls :
          /\ vol' = Returned(FatSetFatEntry(call, i, v))
          /\ reply' = IF Ok(FatSetFatEntry(call, i, v)) THEN Done ELSE Failed
    BY <1>3 DEF Set
  <2> DEFINE m == FatSetFatEntry(call, i, v)
  <2>1. /\ Sound(m)
        /\ Ok(m) => View(m) = [Seen EXCEPT ![i] = v]
        /\ ~Ok(m) => View(m) = Seen
    <3>1. /\ Sound(call) /\ Ok(call) /\ call.readable /\ View(call) = Seen
      BY CallsSound
    <3> QED BY <3>1, SetSound
  <2> HIDE DEF m
  <2>2. Inv' /\ Seen' = View(m)
    BY <2>1, ReturnedSound DEF Inv, m
  <2> QED BY <2>1, <2>2 DEF Table!Set, Table!Done, Table!Failed, Done, Failed, m
<1>4. ASSUME Flush PROVE Inv' /\ Table!Save
  <2> PICK call \in Calls :
          /\ vol' = Returned(FatFlushFatEntries(call))
          /\ reply' = IF Ok(FatFlushFatEntries(call)) THEN Done ELSE Failed
    BY <1>4 DEF Flush
  <2>1. Sound(call) /\ call.loaded /\ View(call) = Seen
    BY <1>4, CallsSound DEF Flush, Inv, Sound
  <2>2. Sound(FatFlushFatEntries(call)) /\ View(FatFlushFatEntries(call)) = Seen
    BY <2>1, FlushSound
  <2>3. Inv' /\ Seen' = Seen
    BY <2>2, ReturnedSound DEF Inv
  <2> QED BY <2>3 DEF Table!Save, Table!Done, Table!Failed, Done, Failed
<1>5. ASSUME Mount PROVE Inv' /\ Table!Save
  <2>1. Inv' /\ Seen' = Seen
    BY <1>5, ZeroContextSound DEF Mount, Inv
  <2> QED BY <1>5, <2>1 DEF Mount, Table!Save, Table!Done, Done
<1>6. ASSUME UNCHANGED vars PROVE Inv' /\ UNCHANGED <<Seen, reply>>
  BY <1>6 DEF vars, Inv, Sound, Ok, Cached, Saved
<1> QED BY <1>2, <1>3, <1>4, <1>5, <1>6 DEF Next, Table!Next

\* On a device that reads, and when changes are saved before the volume is
\* recognized again, only a dirty window is ever unsaved: every other entry
\* is the same in every copy, whatever writes failed halfway.
THEOREM RestIsSaved ==
    ASSUME ReadsMayFail = FALSE, MountsWhenDirty = FALSE
    PROVE  Spec => []OnlyWindowUnsaved
<1>1. Inv => OnlyWindowUnsaved
  BY DEF Inv, Sound, OnlyWindowUnsaved, View, Seen
<1>2. Inv /\ [Next]_vars => Inv'
  BY StepIsTableStep
<1> QED BY <1>1, <1>2, InvInit, PTL DEF Spec

\* Under the same conditions the window and the copies are invisible: each
\* call behaves as on the single array its comment speaks of.
THEOREM WindowIsInvisible ==
    ASSUME ReadsMayFail = FALSE, MountsWhenDirty = FALSE
    PROVE  Spec => ImplementsFatTable
<1>1. Init => Table!Init
  <2> SUFFICES ASSUME Init PROVE Table!Init
    OBVIOUS
  <2>1. Seen \in [Entries -> Values]
    BY InvInit, SavedType, FatAssumption DEF Inv, Sound, Copies, Seen, Tables
  <2> QED BY <2>1 DEF Init, Table!Init, Table!Done, Done
<1>2. Inv /\ [Next]_vars => Inv' /\ [Table!Next]_<<Seen, reply>>
  BY StepIsTableStep
<1> QED BY <1>1, <1>2, InvInit, PTL DEF Spec, ImplementsFatTable, Table!Spec
-----------------------------------------------------------------------------
(* Packed entries: FatPacking.                                             *)

-----------------------------------------------------------------------------
(* Arithmetic.                                                             *)

\* A USHORT and the two bytes it is stored in.
LEMMA Words ==
    ASSUME NEW x \in UCHAR, NEW y \in UCHAR
    PROVE  Word(x, y) \in USHORT
BY DEF Word, UCHAR, USHORT

LEMMA Halves ==
    ASSUME NEW u \in USHORT
    PROVE  Low(u) \in UCHAR /\ High(u) \in UCHAR /\ Word(Low(u), High(u)) = u
BY DEF Low, High, Word, UCHAR, USHORT

LEMMA Within ==
    ASSUME NEW u \in Nat
    PROVE  u < 65536 <=> u \in USHORT
BY DEF USHORT

LEMMA Twelve ==
    ASSUME NEW u \in USHORT
    PROVE  LowerTwelve(u) \in USHORT /\ UpperTwelve(u) \in USHORT
<1>1. u \in Nat /\ u < 65536
  BY DEF USHORT
<1>2. /\ LowerTwelve(u) \in Nat /\ LowerTwelve(u) < 65536
      /\ UpperTwelve(u) \in Nat /\ UpperTwelve(u) < 65536
  BY <1>1, SMT DEF LowerTwelve, UpperTwelve
<1> QED BY <1>2, Within

\* An even entry: bytes x and y, of which y is shared with the entry y, z.
LEMMA EvenMerge ==
    ASSUME NEW x \in UCHAR, NEW y \in UCHAR, NEW z \in UCHAR, NEW v \in USHORT
    PROVE  /\ WithLowerTwelve(Word(x, y), v) \in USHORT
           /\ LowerTwelve(WithLowerTwelve(Word(x, y), v)) = LowerTwelve(v)
           /\ UpperTwelve(Word(High(WithLowerTwelve(Word(x, y), v)), z))
                = UpperTwelve(Word(y, z))
<1>1. /\ x \in Nat /\ x < 256 /\ y \in Nat /\ y < 256 /\ z \in Nat /\ z < 256
      /\ v \in Nat /\ v < 65536
  BY DEF UCHAR, USHORT
<1>2. WithLowerTwelve(Word(x, y), v) \in Nat /\ WithLowerTwelve(Word(x, y), v) < 65536
  BY <1>1, SMT DEF WithLowerTwelve, LowerTwelve, Word
<1>3. WithLowerTwelve(Word(x, y), v) \in USHORT
  BY <1>2, Within
<1>4. LowerTwelve(WithLowerTwelve(Word(x, y), v)) = LowerTwelve(v)
  BY <1>1, SMT DEF WithLowerTwelve, LowerTwelve, Word
<1>5. UpperTwelve(Word(High(WithLowerTwelve(Word(x, y), v)), z)) = UpperTwelve(Word(y, z))
  BY <1>1, SMT DEF WithLowerTwelve, LowerTwelve, UpperTwelve, Word, High
<1> QED BY <1>3, <1>4, <1>5

\* An odd entry: bytes y and z, of which y is shared with the entry x, y.
LEMMA OddMerge ==
    ASSUME NEW x \in UCHAR, NEW y \in UCHAR, NEW z \in UCHAR, NEW v \in USHORT
    PROVE  /\ WithUpperTwelve(Word(y, z), v) \in USHORT
           /\ UpperTwelve(WithUpperTwelve(Word(y, z), v)) = LowerTwelve(v)
           /\ LowerTwelve(Word(x, Low(WithUpperTwelve(Word(y, z), v))))
                = LowerTwelve(Word(x, y))
<1>1. /\ x \in Nat /\ x < 256 /\ y \in Nat /\ y < 256 /\ z \in Nat /\ z < 256
      /\ v \in Nat /\ v < 65536
  BY DEF UCHAR, USHORT
<1>2. WithUpperTwelve(Word(y, z), v) \in Nat /\ WithUpperTwelve(Word(y, z), v) < 65536
  BY <1>1, SMT DEF WithUpperTwelve, LowerTwelve, Word
<1>3. WithUpperTwelve(Word(y, z), v) \in USHORT
  BY <1>2, Within
<1>4. UpperTwelve(WithUpperTwelve(Word(y, z), v)) = LowerTwelve(v)
  BY <1>1, SMT DEF WithUpperTwelve, LowerTwelve, UpperTwelve, Word
<1>5. LowerTwelve(Word(x, Low(WithUpperTwelve(Word(y, z), v)))) = LowerTwelve(Word(x, y))
  BY <1>1, SMT DEF WithUpperTwelve, LowerTwelve, Word, Low
<1> QED BY <1>3, <1>4, <1>5

\* Where entries are: consecutive pairs take three bytes.
LEMMA VboOf ==
    ASSUME NEW i \in Nat
    PROVE  /\ Vbo(i) \in Nat
           /\ FatBits = 16 => Vbo(i) = 2 * i
           /\ FatBits = 12 /\ i % 2 = 0 => 2 * Vbo(i) = 3 * i
           /\ FatBits = 12 /\ i % 2 # 0 => 2 * Vbo(i) = 3 * i - 1
           /\ i % 2 \in {0, 1}
<1> DEFINE k == i \div 2
<1>1. k \in Nat /\ i % 2 \in {0, 1} /\ i = 2 * k + (i % 2)
  OBVIOUS
<1> HIDE DEF k
<1>2. CASE i % 2 = 0
  <2>1. 3 * k \in Nat /\ 3 * i = 2 * (3 * k) + 0
    BY <1>1, <1>2
  <2>2. (3 * i) \div 2 = 3 * k
    BY <1>1, <2>1
  <2>3. Vbo(i) = IF FatBits = 12 THEN 3 * k ELSE 2 * i
    BY <2>1, <2>2 DEF Vbo
  <2>4. i % 2 = 0 /\ 2 * (3 * k) = 3 * i /\ 2 * i \in Nat
    BY <1>2, <2>1
  <2> QED BY <2>1, <2>3, <2>4, PackingAssumption
<1>3. CASE i % 2 = 1
  <2>1. 3 * k + 1 \in Nat /\ 3 * i = 2 * (3 * k + 1) + 1
    BY <1>1, <1>3
  <2>2. (3 * i) \div 2 = 3 * k + 1
    BY <1>1, <2>1
  <2>3. Vbo(i) = IF FatBits = 12 THEN 3 * k + 1 ELSE 2 * i
    BY <2>1, <2>2 DEF Vbo
  <2>4. i % 2 # 0 /\ 2 * (3 * k + 1) = 3 * i - 1 /\ 2 * i \in Nat
    BY <1>3, <2>1
  <2> QED BY <1>3, <2>1, <2>3, <2>4, PackingAssumption
<1> QED BY <1>1, <1>2, <1>3

LEMMA VboInTable ==
    ASSUME NEW i \in Entries
    PROVE  i \in Nat /\ Vbo(i) \in FatBytes /\ Vbo(i) + 1 \in FatBytes
<1>1. i \in Nat /\ FatSize - 1 \in Nat /\ i <= FatSize - 1
  <2>1. FatSize \in Nat /\ FatSize > 0
    BY PackingAssumption
  <2> QED BY <2>1 DEF Entries
<1>2. Vbo(i) \in Nat /\ Vbo(FatSize - 1) \in Nat /\ Vbo(i) <= Vbo(FatSize - 1)
  <2> DEFINE n == FatSize - 1
  <2> HIDE DEF n
  <2>1. n \in Nat /\ i <= n
    BY <1>1 DEF n
  <2>2. CASE FatBits = 16
    BY <1>1, <2>1, <2>2, VboOf DEF n
  <2>3. CASE FatBits = 12
    <3>1. /\ Vbo(i) \in Nat /\ Vbo(n) \in Nat
          /\ 2 * Vbo(i) = 3 * i \/ 2 * Vbo(i) = 3 * i - 1
          /\ 2 * Vbo(n) = 3 * n \/ 2 * Vbo(n) = 3 * n - 1
      BY <1>1, <2>1, <2>3, VboOf
    <3>2. Vbo(i) <= Vbo(n)
      BY <1>1, <2>1, <3>1
    <3> QED BY <3>1, <3>2 DEF n
  <2> QED BY <2>2, <2>3, PackingAssumption
<1> QED BY <1>1, <1>2 DEF FatBytes

-----------------------------------------------------------------------------
(* Put and Get.                                                            *)

LEMMA PutUShortIs ==
    ASSUME NEW b \in ByteTables, NEW o \in FatBytes, o + 1 \in FatBytes, NEW u \in USHORT
    PROVE  /\ PutUShort(b, o, u) \in ByteTables
           /\ PutUShort(b, o, u)[o] = Low(u)
           /\ PutUShort(b, o, u)[o + 1] = High(u)
           /\ UShortAt(PutUShort(b, o, u), o) = u
           /\ \A p \in FatBytes : p # o /\ p # o + 1 => PutUShort(b, o, u)[p] = b[p]
<1>1. o # o + 1
  BY DEF FatBytes
<1>2. Low(u) \in UCHAR /\ High(u) \in UCHAR /\ Word(Low(u), High(u)) = u
  BY Halves
<1>3. /\ PutUShort(b, o, u) \in ByteTables
      /\ PutUShort(b, o, u)[o] = Low(u)
      /\ PutUShort(b, o, u)[o + 1] = High(u)
      /\ \A p \in FatBytes : p # o /\ p # o + 1 => PutUShort(b, o, u)[p] = b[p]
  BY <1>1, <1>2 DEF PutUShort, ByteTables
<1> QED BY <1>2, <1>3 DEF UShortAt

LEMMA ByteIs ==
    ASSUME NEW b \in ByteTables, NEW i \in Entries
    PROVE  b[Vbo(i)] \in UCHAR /\ b[Vbo(i) + 1] \in UCHAR
BY VboInTable DEF ByteTables

\* What is read is a FAT_ENTRY.
LEMMA GetIs ==
    ASSUME NEW b \in ByteTables, NEW i \in Entries
    PROVE  Get(b, i) \in USHORT
<1>1. UShortAt(b, Vbo(i)) \in USHORT
  BY ByteIs, Words DEF UShortAt
<1> QED BY <1>1, Twelve DEF Get

\* What Merged stores reads back as the entry.
LEMMA MergedReadsBack ==
    ASSUME NEW b \in ByteTables, NEW i \in Entries, NEW v \in USHORT
    PROVE  /\ Merged(b, i, v) \in USHORT
           /\ Put(b, i, v) \in ByteTables
           /\ Get(Put(b, i, v), i) = Masked(v)
<1>1. /\ Vbo(i) \in FatBytes /\ Vbo(i) + 1 \in FatBytes
      /\ i % 2 = 0 \/ i % 2 = 1
      /\ FatBits = 16 \/ FatBits = 12
  BY VboInTable, VboOf, PackingAssumption
<1>2. b[Vbo(i)] \in UCHAR /\ b[Vbo(i) + 1] \in UCHAR
  BY ByteIs
<1>3. /\ Merged(b, i, v) \in USHORT
      /\ FatBits = 16 => Merged(b, i, v) = v
      /\ FatBits = 12 /\ i % 2 = 0 => LowerTwelve(Merged(b, i, v)) = LowerTwelve(v)
      /\ FatBits = 12 /\ i % 2 = 1 => UpperTwelve(Merged(b, i, v)) = LowerTwelve(v)
  BY <1>1, <1>2, EvenMerge, OddMerge DEF Merged, UShortAt
<1>4. /\ Put(b, i, v) \in ByteTables
      /\ UShortAt(Put(b, i, v), Vbo(i)) = Merged(b, i, v)
  BY <1>1, <1>3, PutUShortIs DEF Put
<1> QED BY <1>1, <1>3, <1>4 DEF Get, Masked

\* Setting an entry leaves the others as they are: they share no byte with
\* it, or the one next to it whose four bits Merged keeps.
LEMMA NeighbourKept ==
    ASSUME NEW b \in ByteTables, NEW i \in Entries, NEW j \in Entries, i # j,
           NEW v \in USHORT
    PROVE  Get(Put(b, i, v), j) = Get(b, j)
<1> DEFINE c == Put(b, i, v)
           w == Merged(b, i, v)
           o == Vbo(i)
           p == Vbo(j)
<1>1. /\ o \in FatBytes /\ o + 1 \in FatBytes /\ i \in Nat
      /\ p \in FatBytes /\ p + 1 \in FatBytes /\ j \in Nat
      /\ o \in Nat /\ p \in Nat
  BY VboInTable, VboOf
<1>2. w \in USHORT
  BY MergedReadsBack
<1>3. /\ c[o] = Low(w) /\ c[o + 1] = High(w)
      /\ \A q \in FatBytes : q # o /\ q # o + 1 => c[q] = b[q]
  BY <1>1, <1>2, PutUShortIs DEF Put
<1>4. /\ b[o] \in UCHAR /\ b[o + 1] \in UCHAR
      /\ b[p] \in UCHAR /\ b[p + 1] \in UCHAR
  BY ByteIs
<1>5. CASE p # o /\ p # o + 1 /\ p + 1 # o
  <2>1. p + 1 # o + 1
    BY <1>1, <1>5
  <2>2. c[p] = b[p] /\ c[p + 1] = b[p + 1]
    BY <1>1, <1>3, <1>5, <2>1
  <2> QED BY <2>2 DEF Get, UShortAt
<1>6. CASE FatBits = 12 /\ i % 2 = 0 /\ j = i + 1
  <2>1. j % 2 = 1
    BY <1>1, <1>6
  <2>2. p = o + 1
    <3>1. 2 * o = 3 * i
      BY <1>1, <1>6, VboOf
    <3>2. 2 * p = 3 * j - 1
      <4>1. j % 2 # 0
        BY <2>1
      <4> QED BY <1>1, <1>6, <4>1, VboOf
    <3> HIDE DEF o, p
    <3> QED BY <1>1, <1>6, <3>1, <3>2
  <2>3. c[p] = High(w) /\ c[p + 1] = b[p + 1]
    BY <1>1, <1>3, <2>2
  <2>4. w = WithLowerTwelve(Word(b[o], b[p]), v)
    BY <1>6, <2>2 DEF Merged, UShortAt
  <2>5. UpperTwelve(Word(c[p], c[p + 1])) = UpperTwelve(Word(b[p], b[p + 1]))
    BY <1>4, <2>3, <2>4, EvenMerge
  <2> QED BY <1>6, <2>1, <2>5 DEF Get, UShortAt
<1>7. CASE FatBits = 12 /\ i % 2 = 1 /\ i = j + 1
  <2>1. j % 2 = 0
    BY <1>1, <1>7
  <2>2. o = p + 1
    <3>1. 2 * o = 3 * i - 1
      <4>1. i % 2 # 0
        BY <1>7
      <4> QED BY <1>1, <1>7, <4>1, VboOf
    <3>2. 2 * p = 3 * j
      BY <1>1, <1>7, <2>1, VboOf
    <3> HIDE DEF o, p
    <3> QED BY <1>1, <1>7, <3>1, <3>2
  <2>3. c[p] = b[p] /\ c[p + 1] = Low(w)
    BY <1>1, <1>3, <2>2
  <2>4. w = WithUpperTwelve(Word(b[p + 1], b[o + 1]), v)
    BY <1>7, <2>2 DEF Merged, UShortAt
  <2>5. LowerTwelve(Word(c[p], c[p + 1])) = LowerTwelve(Word(b[p], b[p + 1]))
    BY <1>4, <2>2, <2>3, <2>4, OddMerge
  <2> QED BY <1>7, <2>1, <2>5 DEF Get, UShortAt
<1>8. \/ p # o /\ p # o + 1 /\ p + 1 # o
      \/ FatBits = 12 /\ i % 2 = 0 /\ j = i + 1
      \/ FatBits = 12 /\ i % 2 = 1 /\ i = j + 1
  <2>1. CASE FatBits = 16
    BY <1>1, <2>1, VboOf
  <2>2. CASE FatBits = 12
    <3>1. /\ i % 2 = 0 => 2 * o = 3 * i
          /\ i % 2 # 0 => 2 * o = 3 * i - 1
          /\ j % 2 = 0 => 2 * p = 3 * j
          /\ j % 2 # 0 => 2 * p = 3 * j - 1
      BY <1>1, <2>2, VboOf
    <3> HIDE DEF o, p
    <3> QED BY <1>1, <2>2, <3>1
  <2> QED BY <2>1, <2>2, PackingAssumption
<1> QED BY <1>5, <1>6, <1>7, <1>8

-----------------------------------------------------------------------------
(* Windows.                                                                *)

LEMMA WindowIs ==
    \E m \in Nat \ {0} : WindowBytes = 6 * m /\ WindowBytes \div 6 = m
<1>1. WindowBytes \in Nat \ {0} /\ WindowBytes % 6 = 0
  BY PackingAssumption
<1> DEFINE m == WindowBytes \div 6
<1>2. m \in Nat \ {0} /\ WindowBytes = 6 * m
  BY <1>1
<1> QED BY <1>2

\* Windows start at multiples of six bytes.
Aligned == \E n \in Nat : cachedVbo = 6 * n

LEMMA WindowOfIsAligned ==
    ASSUME NEW i \in Entries
    PROVE  \E n \in Nat : WindowOf(i) = 6 * n
<1>1. PICK m \in Nat \ {0} : WindowBytes = 6 * m
  BY WindowIs
<1>2. Vbo(i) \in Nat
  BY VboInTable, VboOf
<1> DEFINE q == Vbo(i) \div WindowBytes
<1>3. q \in Nat
  <2>1. WindowBytes \in Nat \ {0}
    BY PackingAssumption
  <2> QED BY <1>2, <2>1
<1>4. WindowOf(i) = q * (6 * m)
  BY <1>1 DEF WindowOf
<1> HIDE DEF q
<1>5. q * m \in Nat /\ q * (6 * m) = 6 * (q * m)
  BY <1>3
<1> QED BY <1>4, <1>5

\* In a table of twelve-bit entries, which of them the window 6n .. 6(n+m)-1
\* holds: no entry starts on its last byte.
LEMMA HitsOfTwelve ==
    ASSUME FatBits = 12, NEW n \in Nat, NEW m \in Nat, NEW i \in Nat
    PROVE  /\ Vbo(i) >= 6 * n <=> i >= 4 * n
           /\ Vbo(i) + 1 <= 6 * n + 6 * m <=> i <= 4 * n + 4 * m - 1
<1> DEFINE o == Vbo(i)
           k == i \div 2
<1>1. o \in Nat /\ k \in Nat
  BY VboOf
<1>2. CASE i % 2 = 0
  <2>1. 2 * o = 3 * i
    BY <1>2, VboOf
  <2>2. i = 2 * k
    BY <1>2
  <2> HIDE DEF o, k
  <2> QED BY <1>1, <2>1, <2>2 DEF o
<1>3. CASE i % 2 # 0
  <2>1. 2 * o = 3 * i - 1
    BY <1>3, VboOf
  <2>2. i = 2 * k + 1
    BY <1>3
  <2> HIDE DEF o, k
  <2> QED BY <1>1, <2>1, <2>2 DEF o
<1> QED BY <1>2, <1>3

LEMMA HitsOfSixteen ==
    ASSUME FatBits = 16, NEW n \in Nat, NEW m \in Nat, NEW i \in Nat
    PROVE  /\ Vbo(i) >= 6 * n <=> i >= 3 * n
           /\ Vbo(i) + 1 <= 6 * n + 6 * m <=> i <= 3 * n + 3 * m - 1
<1>1. Vbo(i) = 2 * i
  BY VboOf
<1> QED BY <1>1

LEMMA AlignedHoldsWhole == Aligned => WindowHoldsWholeEntries
<1> SUFFICES ASSUME NEW n \in Nat, cachedVbo = 6 * n
             PROVE  WindowHoldsWholeEntries
  BY DEF Aligned
<1>1. PICK m \in Nat \ {0} : WindowBytes = 6 * m /\ WindowBytes \div 6 = m
  BY WindowIs
<1>2. \A i \in Entries : i \in Nat /\ Vbo(i) \in Nat
  BY VboInTable, VboOf
<1>3. CASE FatBits = 12
  <2> DEFINE first == 4 * n
  <2>1. first \in 0 .. cachedVbo /\ EntriesInWindow = 4 * m
    BY <1>1, <1>3 DEF EntriesInWindow
  <2>2. cachedVbo = Vbo(first)
    <3>1. first \in Nat /\ first % 2 = 0
      OBVIOUS
    <3>2. 2 * Vbo(first) = 3 * first /\ Vbo(first) \in Nat
      BY <1>3, <3>1, VboOf
    <3> QED BY <3>2
  <2>3. ASSUME NEW i \in Entries
        PROVE  ~Misses(cachedVbo, i) <=> i \in first .. (first + EntriesInWindow - 1)
    <3>1. /\ Vbo(i) >= 6 * n <=> i >= 4 * n
          /\ Vbo(i) + 1 <= 6 * n + 6 * m <=> i <= 4 * n + 4 * m - 1
      BY <1>1, <1>2, <1>3, HitsOfTwelve
    <3> QED BY <1>1, <1>2, <2>1, <3>1 DEF Misses
  <2> QED BY <2>1, <2>2, <2>3 DEF WindowHoldsWholeEntries
<1>4. CASE FatBits = 16
  <2> DEFINE first == 3 * n
  <2>1. first \in 0 .. cachedVbo /\ EntriesInWindow = 3 * m
    BY <1>1, <1>4 DEF EntriesInWindow
  <2>2. cachedVbo = Vbo(first)
    BY <1>4, VboOf
  <2>3. ASSUME NEW i \in Entries
        PROVE  ~Misses(cachedVbo, i) <=> i \in first .. (first + EntriesInWindow - 1)
    <3>1. /\ Vbo(i) >= 6 * n <=> i >= 3 * n
          /\ Vbo(i) + 1 <= 6 * n + 6 * m <=> i <= 3 * n + 3 * m - 1
      BY <1>1, <1>2, <1>4, HitsOfSixteen
    <3> QED BY <1>1, <1>2, <2>1, <3>1 DEF Misses
  <2> QED BY <2>1, <2>2, <2>3 DEF WindowHoldsWholeEntries
<1> QED BY <1>3, <1>4, PackingAssumption

-----------------------------------------------------------------------------
(* The actions.                                                            *)

LEMMA StoredIs == \A v \in Stored : v \in USHORT
BY PackingAssumption

LEMMA WindowMoves ==
    ASSUME NEW i \in Entries, cachedVbo \in Nat, Aligned, MoveWindow(i)
    PROVE  cachedVbo' \in Nat /\ Aligned'
<1>1. PICK n \in Nat : WindowOf(i) = 6 * n
  BY WindowOfIsAligned
<1>2. CASE Misses(cachedVbo, i)
  BY <1>1, <1>2 DEF MoveWindow, Aligned
<1>3. CASE ~Misses(cachedVbo, i)
  BY <1>3 DEF MoveWindow, Aligned
<1> QED BY <1>2, <1>3

LEMMA TypeAndWindow == PackedSpec => [](BytesOK /\ Aligned)
<1>1. PackedInit => BytesOK /\ Aligned
  BY FormatAssumption DEF PackedInit, BytesOK, Aligned
<1>2. BytesOK /\ Aligned /\ [PackedNext]_packedVars => (BytesOK /\ Aligned)'
  <2> SUFFICES ASSUME BytesOK, Aligned, [PackedNext]_packedVars
               PROVE  (BytesOK /\ Aligned)'
    OBVIOUS
  <2>1. ASSUME NEW i \in Entries, LookupPacked(i)
        PROVE  (BytesOK /\ Aligned)'
    <3>1. cachedVbo' \in Nat /\ Aligned'
      BY <2>1, WindowMoves DEF LookupPacked, BytesOK
    <3>2. Get(bytes, i) \in USHORT
      BY GetIs DEF BytesOK
    <3> QED BY <2>1, <3>1, <3>2 DEF LookupPacked, BytesOK, Holds
  <2>2. ASSUME NEW i \in Entries, NEW v \in Stored, SetPacked(i, v)
        PROVE  (BytesOK /\ Aligned)'
    <3>1. cachedVbo' \in Nat /\ Aligned'
      BY <2>2, WindowMoves DEF SetPacked, BytesOK
    <3>2. Put(bytes, i, v) \in ByteTables
      BY StoredIs, MergedReadsBack DEF BytesOK
    <3> QED BY <2>2, <3>1, <3>2 DEF SetPacked, BytesOK, Done
  <2>3. CASE UNCHANGED packedVars
    BY <2>3 DEF packedVars, BytesOK, Aligned
  <2> QED BY <2>1, <2>2, <2>3 DEF PackedNext
<1> QED BY <1>1, <1>2, PTL DEF PackedSpec

-----------------------------------------------------------------------------
(* The results.                                                            *)

\* FatSetFatEntry stores bytes and nothing else, whatever callers pass.
THEOREM BytesStayBytes == PackedSpec => []BytesOK
BY TypeAndWindow, PTL

\* CachedFat always holds whole entries, as the comment on FAT_CACHE_SIZE
\* wants: no entry straddles two windows.
THEOREM WindowsAreWhole == PackedSpec => []WindowHoldsWholeEntries
BY TypeAndWindow, AlignedHoldsWhole, PTL

\* The packed bytes are an array of entries to FatLookupFatEntry and
\* FatSetFatEntry: setting one entry never disturbs another.
THEOREM PackingIsInvisible == PackedSpec => PackingImplementsFatTable
<1> DEFINE seen(b) == [i \in Entries |-> Get(b, i)]
<1>1. PackedInit => PackedTable!Init
  <2> SUFFICES ASSUME PackedInit PROVE PackedTable!Init
    OBVIOUS
  <2>1. \A i \in Entries : Get(bytes, i) \in EntryValues
    BY DEF PackedInit, EntryValues
  <2> QED BY <2>1 DEF PackedInit, PackedTable!Init, PackedTable!Done, Done
<1>2. BytesOK /\ [PackedNext]_packedVars => [PackedTable!Next]_<<seen(bytes), reply>>
  <2> SUFFICES ASSUME BytesOK, [PackedNext]_packedVars
               PROVE  [PackedTable!Next]_<<seen(bytes), reply>>
    OBVIOUS
  <2>1. ASSUME NEW i \in Entries, LookupPacked(i)
        PROVE  PackedTable!Next
    <3>1. reply' = PackedTable!Holds(i, seen(bytes)[i]) /\ seen(bytes)' = seen(bytes)
      BY <2>1 DEF LookupPacked, Holds, PackedTable!Holds
    <3>2. PackedTable!Lookup(i)
      BY <3>1 DEF PackedTable!Lookup
    <3> QED BY <3>2 DEF PackedTable!Next
  <2>2. ASSUME NEW i \in Entries, NEW v \in Stored, SetPacked(i, v)
        PROVE  PackedTable!Next
    <3>1. Masked(v) \in EntryValues
      BY DEF EntryValues
    <3>2. \A j \in Entries :
             Get(bytes', j) = IF j = i THEN Masked(v) ELSE Get(bytes, j)
      BY <2>2, StoredIs, MergedReadsBack, NeighbourKept DEF SetPacked, BytesOK
    <3>3. seen(bytes)' = [seen(bytes) EXCEPT ![i] = Masked(v)]
      BY <3>2
    <3>4. reply' = PackedTable!Done
      BY <2>2 DEF SetPacked, Done, PackedTable!Done
    <3>5. PackedTable!Set(i, Masked(v))
      BY <3>3, <3>4 DEF PackedTable!Set
    <3> QED BY <3>1, <3>5 DEF PackedTable!Next
  <2>3. CASE UNCHANGED packedVars
    BY <2>3 DEF packedVars
  <2> QED BY <2>1, <2>2, <2>3 DEF PackedNext
<1> QED BY <1>1, <1>2, BytesStayBytes, PTL
          DEF PackedSpec, PackingImplementsFatTable, PackedTable!Spec
=============================================================================
