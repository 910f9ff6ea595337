----------------------------- MODULE BootDrivers -----------------------------
(***************************************************************************)
(* BlScanRegistry: which control set of the SYSTEM hive is booted, the     *)
(* names of its code pages, and the list of its boot drivers, which is     *)
(* collected from the subkeys of Services, sorted by group, and ordered by *)
(* tag inside each group.  CmpDoSort and CmpOrderGroup work on the doubly  *)
(* linked list itself, one node at a time; here too a step is one turn of  *)
(* their loops.                                                            *)
(***************************************************************************)
EXTENDS Integers, Sequences, FiniteSets, SequencesExt

CONSTANTS
    Hives,     \* the SYSTEM hives the scan may meet
    OrderList, \* ServiceGroupOrder\List, the groups in their order
    Vectors,   \* the values of GroupOrderList: group |-> OrderVector
    TagLimit   \* more than any index into an OrderVector

\* A number and a name that are not there, or not of the type wanted.
Missing == -1
NoName == ""
NoGroup == NoName

\* The keys the scan passes through, and the value List, a REG_MULTI_SZ.
KeyNames == {"Services", "Control", "GroupOrderList", "ServiceGroupOrder", "List",
             "NLS", "CodePage", "Language"}

\* What is read of a subkey of Services.
Services == [Start : Int, group : STRING, Tag : Int]

\* No string of a REG_MULTI_SZ is empty.
ASSUME OrderAssumption == OrderList \in Seq(STRING \ {NoGroup})

ASSUME VectorAssumption ==
    /\ TagLimit \in Nat
    /\ \A group \in DOMAIN Vectors :
          /\ DOMAIN Vectors[group] = 0 .. Vectors[group][0]
          /\ Vectors[group][0] \in 0 .. (TagLimit - 1)

ASSUME HiveAssumption ==
    \A h \in Hives :
        /\ {"Current", "services", "fileSystem"} \subseteq DOMAIN h
        /\ h.keys \subseteq KeyNames
        /\ h.services \in Seq(Services)
        /\ h.fileSystem \in {Missing} \cup DOMAIN h.services

VARIABLES
    hive,    \* the boot hive: the Select values, keys, code pages and services
    names,   \* the NLS file names found
    phase,   \* which routine is running
    subkey,  \* CmpFindDrivers' i, the subkey of Services looked at next
    list,    \* DriverListHead: nodes from Flink on
    dropped, \* the nodes CmpAddDriverToList had no memory for
    marked,  \* whose ErrorControl was set to SERVICE_ERROR_CRITICAL
    order,   \* the place in OrderList of CmpDoSort's CurrentGroup, 0 at its end
    entry,   \* CmpDoSort's Next, CmpResolveDriverDependencies' CurrentEntry
    group    \* CmpOrderGroup's GroupStart, GroupEnd and Current

vars ==
    <<hive, names, phase, subkey, list, dropped, marked, order, entry, group>>

\* A node is named after its subkey of Services; the one added by name as the
\* boot file system, which may have been found before, is node 0.
FileSystemNode == 0
ListHead == -1
Nobody == -2
ServiceOf(n) == hive.services[IF n = FileSystemNode THEN hive.fileSystem ELSE n]
Nodes == 0 .. Len(hive.services)

BootLoad == 0
LOAD_NEXT_TO_LAST == TagLimit
LOAD_LAST == TagLimit + 1
NoOrder == [start |-> Nobody, end |-> Nobody, current |-> Nobody]

Init ==
    /\ hive \in Hives
    /\ names = <<>>
    /\ phase = "CmpFindControlSet"
    /\ subkey = 1
    /\ list = <<>> /\ dropped = {} /\ marked = Nobody
    /\ order = 0 /\ entry = ListHead /\ group = NoOrder

Has(keys) == keys \subseteq hive.keys
Fail == phase' = "failed"

-----------------------------------------------------------------------------
(* The control set and the NLS names.                                      *)

\* UseLastKnownGood is FALSE on this boot path, so the set is Default's and
\* AutoSelect is not looked at; the hive in memory gets it as Current.
CmpFindControlSet ==
    /\ phase = "CmpFindControlSet"
    /\ IF hive.Default = Missing \/ hive.Default \notin hive.controlSets
       THEN Fail /\ UNCHANGED hive
       ELSE /\ phase' = "CmpFindNLSData"
            /\ hive' = IF hive.Current = Missing THEN hive
                       ELSE [hive EXCEPT !.Current = hive.Default]
    /\ UNCHANGED <<names, subkey, list, dropped, marked, order, entry, group>>

ValueOf(values, name) == IF name \in DOMAIN values THEN values[name] ELSE NoName

\* The value whose name is the data of another.
NamedBy(values, name) == ValueOf(values, ValueOf(values, name))

NLSNames ==
    <<NamedBy(hive.codePage, "ACP"), NamedBy(hive.codePage, "OEMCP"),
      NamedBy(hive.language, "Default"), ValueOf(hive.codePage, "OEMHAL")>>

CmpFindNLSData ==
    /\ phase = "CmpFindNLSData"
    /\ IF Has({"Control", "NLS", "CodePage", "Language"}) /\ ~Contains(NLSNames, NoName)
       THEN names' = NLSNames /\ phase' = "CmpFindDrivers"
       ELSE Fail /\ UNCHANGED names
    /\ UNCHANGED <<hive, subkey, list, dropped, marked, order, entry, group>>

-----------------------------------------------------------------------------
(* Collecting the drivers.                                                 *)

CmpIsLoadType(n) == ServiceOf(n).Start = BootLoad

\* Mutant: the driver is appended.
AddedLast(n) == Append(list, n)

Added(n) == <<n>> \o list

\* Every allocation of CmpAddDriverToList comes before the insertion: without
\* memory for one of them the node is not in the list, and nobody is told.
CmpAddDriverToList(n) ==
    \/ list' = Added(n) /\ UNCHANGED dropped
    \/ list' = list /\ dropped' = dropped \cup {n}

FindDriver ==
    /\ phase = "CmpFindDrivers" /\ Has({"Services", "Control", "GroupOrderList"})
    /\ subkey \in DOMAIN hive.services
    /\ IF CmpIsLoadType(subkey) THEN CmpAddDriverToList(subkey)
                                ELSE UNCHANGED <<list, dropped>>
    /\ subkey' = subkey + 1
    /\ UNCHANGED <<hive, names, phase, marked, order, entry, group>>

NoServices ==
    /\ phase = "CmpFindDrivers" /\ ~Has({"Services", "Control", "GroupOrderList"})
    /\ Fail
    /\ UNCHANGED <<hive, names, subkey, list, dropped, marked, order, entry, group>>

FirstOf(l) == IF l = <<>> THEN ListHead ELSE Head(l)

\* The first node of the list is marked, whichever it is.
AddBootFileSystem ==
    /\ phase = "CmpFindDrivers" /\ Has({"Services", "Control", "GroupOrderList"})
    /\ subkey \notin DOMAIN hive.services
    /\ IF hive.fileSystem = Missing THEN UNCHANGED <<list, dropped, marked>>
       ELSE CmpAddDriverToList(FileSystemNode) /\ marked' = FirstOf(list')
    /\ phase' = "CmpSortDriverList"
    /\ UNCHANGED <<hive, names, subkey, order, entry, group>>

-----------------------------------------------------------------------------
(* Sorting by group.                                                       *)

GroupOf(n) == ServiceOf(n).group

At(n) == CHOOSE i \in DOMAIN list : list[i] = n
NodeAt(i) == IF i \in DOMAIN list THEN list[i] ELSE ListHead

\* RemoveEntryList, and the node put in again further to the front.
MovedTo(l, i, j) ==
    [k \in DOMAIN l |-> IF k = j THEN l[i] ELSE IF k \in (j + 1) .. i THEN l[k - 1] ELSE l[k]]

CmpSortDriverList ==
    /\ phase = "CmpSortDriverList"
    /\ IF Has({"Control", "ServiceGroupOrder", "List"})
       THEN phase' = "CmpDoSort" /\ order' = Len(OrderList) /\ entry' = FirstOf(list)
       ELSE Fail /\ UNCHANGED <<order, entry>>
    /\ UNCHANGED <<hive, names, subkey, list, dropped, marked, group>>

\* Mutant: the order list is walked from its first group.
FromTheFirst == OrderList[Len(OrderList) + 1 - order]

\* From the last group of the list to the first.
CurrentGroup == OrderList[order]

\* Each member of the group, met from the front, is moved to the front.
CmpDoSort ==
    /\ phase = "CmpDoSort" /\ order # 0 /\ entry # ListHead
    /\ entry' = NodeAt(At(entry) + 1)
    /\ list' = IF GroupOf(entry) # NoGroup /\ GroupOf(entry) = CurrentGroup
               THEN MovedTo(list, At(entry), 1) ELSE list
    /\ UNCHANGED <<hive, names, phase, subkey, dropped, marked, order, group>>

NextGroup ==
    /\ phase = "CmpDoSort" /\ order # 0 /\ entry = ListHead
    /\ order' = order - 1 /\ entry' = FirstOf(list)
    /\ UNCHANGED <<hive, names, phase, subkey, list, dropped, marked, group>>

Sorted ==
    /\ phase = "CmpDoSort" /\ order = 0
    /\ phase' = "CmpResolveDriverDependencies"
    /\ UNCHANGED <<hive, names, subkey, list, dropped, marked, order, entry, group>>

-----------------------------------------------------------------------------
(* Ordering each group by tag.                                             *)

\* The least index of the tag, OrderVector[0] itself left out.
CmpFindTagIndex(tag, g) ==
    LET at == IF g \in DOMAIN Vectors
              THEN {i \in 1 .. (Vectors[g][0] - 1) : Vectors[g][i] = tag} ELSE {}
    IN  IF at = {} THEN LOAD_NEXT_TO_LAST ELSE CHOOSE i \in at : \A j \in at : i <= j

TagOf(n) ==
    IF ServiceOf(n).Tag = Missing THEN LOAD_LAST
    ELSE CmpFindTagIndex(ServiceOf(n).Tag, GroupOf(n))

\* The end of the run of drivers of one group that starts at place i.
RunEnd(i) ==
    CHOOSE j \in i .. Len(list) :
        /\ \A k \in i .. j : GroupOf(list[k]) = GroupOf(list[i])
        /\ j < Len(list) => GroupOf(list[j + 1]) # GroupOf(list[i])

CmpResolveDriverDependencies ==
    /\ phase = "CmpResolveDriverDependencies" /\ entry # ListHead
    /\ LET first == At(entry)
           last == RunEnd(first)
       IN  /\ entry' = NodeAt(last + 1)
           /\ IF first = last THEN UNCHANGED <<phase, group>>
              ELSE /\ phase' = "CmpOrderGroup"
                   /\ group' = [start |-> entry, end |-> list[last], current |-> entry]
    /\ UNCHANGED <<hive, names, subkey, list, dropped, marked, order>>

\* Mutant: a node with the same tag as the one before it is moved as well.
MovesEqual(previous, current) == TagOf(previous) >= TagOf(current)

Moves(previous, current) == TagOf(previous) > TagOf(current)

\* Where the scan back from place i stops, the tag sought being current's.
ScanBack(i, current) ==
    CHOOSE j \in At(group.start) .. i :
        /\ \A k \in (j + 1) .. i : TagOf(list[k]) > TagOf(current)
        /\ j = At(group.start) \/ TagOf(list[j]) <= TagOf(current)

\* The node goes before the one the scan stopped at, also when that one has a
\* lower tag; the turns that follow set it right.
Inserted(previous, current, stop) ==
    /\ list' = MovedTo(list, At(current), stop)
    /\ group' = [start |-> IF list[stop] = group.start THEN current ELSE group.start,
                 end |-> IF current = group.end THEN previous ELSE group.end,
                 current |-> current]

\* One turn of the loop, which ends with its condition.
CmpOrderGroup ==
    /\ phase = "CmpOrderGroup"
    /\ LET previous == group.current
           current == NodeAt(At(previous) + 1)
       IN  IF Moves(previous, current)
           THEN Inserted(previous, current, ScanBack(At(previous), current))
           ELSE group' = [group EXCEPT !.current = current] /\ UNCHANGED list
    /\ phase' = IF group'.current = group'.end THEN "CmpResolveDriverDependencies" ELSE phase
    /\ UNCHANGED <<hive, names, subkey, dropped, marked, order, entry>>

Finish ==
    /\ phase = "CmpResolveDriverDependencies" /\ entry = ListHead
    /\ phase' = "done"
    /\ UNCHANGED <<hive, names, subkey, list, dropped, marked, order, entry, group>>

Next ==
    \/ CmpFindControlSet
    \/ CmpFindNLSData
    \/ FindDriver \/ NoServices \/ AddBootFileSystem
    \/ CmpSortDriverList \/ CmpDoSort \/ NextGroup \/ Sorted
    \/ CmpResolveDriverDependencies \/ CmpOrderGroup \/ Finish

Spec == Init /\ [][Next]_vars

\* The loader runs BlScanRegistry to its end; nothing interrupts it.
FairSpec == Spec /\ WF_vars(Next)

-----------------------------------------------------------------------------
(* Properties.                                                             *)

Collected == phase \notin {"CmpFindControlSet", "CmpFindNLSData", "CmpFindDrivers", "failed"}

\* Through every move, the list holds exactly the drivers to be loaded at boot
\* and the boot file system, but those the heap had no room for; the file
\* system's own node is the critical one if it was added.
NoDriverLost ==
    Collected =>
        LET boot == {n \in DOMAIN hive.services : CmpIsLoadType(n)}
            fs == IF hive.fileSystem = Missing THEN {} ELSE {FileSystemNode}
        IN  /\ Range(list) = (boot \cup fs) \ dropped
            /\ FileSystemNode \in Range(list) => marked = FileSystemNode

\* The first place of a group in the order list, or the place after the last.
PlaceOf(g) ==
    CHOOSE i \in 1 .. Len(OrderList) + 1 :
        /\ i \in DOMAIN OrderList => OrderList[i] = g
        /\ \A j \in 1 .. i - 1 : OrderList[j] # g

\* "This list is ordered by group, and by tag in each group": a group of the
\* order list comes as a whole before later ones and before groups not on it,
\* and in a run of one group no tag index goes down.
ListOrdered ==
    phase = "done" =>
        \A i, j \in DOMAIN list :
            i < j =>
                /\ PlaceOf(GroupOf(list[i])) <= PlaceOf(GroupOf(list[j]))
                /\ (\A k \in i .. j : GroupOf(list[k]) = GroupOf(list[i]))
                      => TagOf(list[i]) <= TagOf(list[j])

\* The scan ends, whatever the tags: a node CmpOrderGroup puts in a wrong place
\* is not put there again for ever.
ScanEnds == <>(phase \in {"done", "failed"})

\* "If the tag is not in the tag list, then it defaults to 0xfffffffe, so it is
\* loaded after all the drivers in the tag list" (cmboot.c): of two drivers of
\* a group, one whose tag its vector lists precedes one whose tag it does not.
Listed(n) ==
    \E i \in 1 .. Vectors[GroupOf(n)][0] : Vectors[GroupOf(n)][i] = ServiceOf(n).Tag

ListedTagsFirst ==
    phase = "done" =>
        \A i, j \in DOMAIN list :
            /\ GroupOf(list[i]) = GroupOf(list[j])
            /\ Contains(OrderList, GroupOf(list[i])) /\ GroupOf(list[i]) \in DOMAIN Vectors
            /\ Listed(list[i]) /\ ~Listed(list[j])
            => i < j
=============================================================================
