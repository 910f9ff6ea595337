--------------------------- MODULE PageOwnership ---------------------------
(***************************************************************************)
(* What the loader's memory manager promises, without descriptors: every   *)
(* page of RAM has one owner, only free pages are handed out, and a page   *)
(* in use changes hands only when its image gives the tail of its pages    *)
(* back.  BlMemory implements it as long as requests leave the heap room.  *)
(***************************************************************************)
EXTENDS Integers

CONSTANTS
    LowPages, NominalEnd,  \* the firmware's pages, and its image before measuring
    RamTop,                \* the end of RAM
    ImageTypes, DataTypes  \* what pages may be asked for

VARIABLES
    stage,  \* "reset", "mapped" or "up"
    own     \* the owner of each page

vars == <<stage, own>>

RamPages == 0 .. (RamTop - 1)

Owners == {"FirmwarePermanent", "LoadedProgram", "Free", "OsloaderHeap",
           "OsloaderStack"} \cup ImageTypes \cup DataTypes

\* A run is a set of consecutive pages.
IsRun(S) == \A p, q \in S : p .. q \subseteq S

Init ==
    /\ stage = "reset"
    /\ own = [p \in RamPages |-> IF p < LowPages THEN "FirmwarePermanent"
                                ELSE IF p < NominalEnd THEN "LoadedProgram"
                                ELSE "Free"]

(* The steps, as relations between the owners before and after.            *)

\* Free pages that leave the pool for the given owner.
Taken(before, after, owner) ==
    {p \in RamPages : before[p] = "Free" /\ after[p] = owner}

\* Only free pages change hands, and only to the given owners.
OnlyFreeGoesTo(before, after, owners) ==
    \A p \in RamPages :
        after[p] # before[p] => before[p] = "Free" /\ after[p] \in owners

\* The firmware measures its own image: where it ends was only a guess.
MeasureImage(before, after) ==
    /\ stage = "reset" /\ stage' = "mapped"
    /\ \A p \in RamPages :
          after[p] # before[p] => {before[p], after[p]} = {"LoadedProgram", "Free"}
    /\ IsRun({p \in RamPages : after[p] = "LoadedProgram"})

\* The loader takes its first heap and its stack.
TakeHeapAndStack(before, after) ==
    /\ stage = "mapped" /\ stage' = "up"
    /\ OnlyFreeGoesTo(before, after, {"OsloaderHeap", "OsloaderStack"})
    /\ IsRun(Taken(before, after, "OsloaderHeap"))
    /\ IsRun(Taken(before, after, "OsloaderStack"))

Running == stage = "up" /\ UNCHANGED stage

\* The heap takes a run of free pages.
GrowHeap(before, after) ==
    /\ Running
    /\ OnlyFreeGoesTo(before, after, {"OsloaderHeap"})
    /\ IsRun(Taken(before, after, "OsloaderHeap"))

\* A request gets a run of free pages; keeping the books may grow the heap.
Grant(before, after, type) ==
    /\ Running
    /\ OnlyFreeGoesTo(before, after, {type, "OsloaderHeap"})
    /\ IsRun(Taken(before, after, type))
    /\ IsRun(Taken(before, after, "OsloaderHeap"))

\* An image gives the last pages of its run back; this too may grow the heap.
Reclaim(before, after, type) ==
    LET returned == {p \in RamPages : before[p] = type /\ after[p] = "Free"}
    IN  /\ Running
        /\ \A p \in RamPages : after[p] # before[p] =>
              p \in returned \/ p \in Taken(before, after, "OsloaderHeap")
        /\ IsRun(returned)
        /\ IsRun(Taken(before, after, "OsloaderHeap"))

Step(before, after) ==
    /\ {before, after} \subseteq [RamPages -> Owners]
    /\ \/ MeasureImage(before, after)
       \/ TakeHeapAndStack(before, after)
       \/ GrowHeap(before, after)
       \/ \E type \in ImageTypes \cup DataTypes : Grant(before, after, type)
       \/ \E type \in ImageTypes : Reclaim(before, after, type)

Next == Step(own, own')

Spec == Init /\ [][Next]_vars
=============================================================================
