----------------------------- MODULE MCDosShell -----------------------------
EXTENDS DosShell

MCNames == {"A", "B", "D", "E"}
MCFileIds == {"src", "dst", "dir"}
MCFiles == {<<"A">>, <<"B">>, <<"D", "A">>}
MCDirectories == {<<"D">>, <<"E">>}

\* A file of five units in three clusters of which no two are adjacent, one more than
\* the mapping takes, and a file of one unit between them.
File(name, first, size) == [Dirent(name, FALSE, first) EXCEPT !.size = size]
Table == [c \in Clusters |->
             CASE c = 2 -> 4 [] c = 4 -> 6 [] c \in {3, 6} -> LAST [] OTHER -> Available]
Disk == [c \in {Root} \cup Clusters |->
    CASE c = Root -> [i \in 1 .. RootSlots |->
             IF i = 1 THEN File("A", 2, 5) ELSE IF i = 2 THEN File("B", 3, 1) ELSE Blank]
      [] c = 2 -> <<Data(1), Data(2)>>
      [] c = 4 -> <<Data(3), Data(4)>>
      [] c = 6 -> <<Data(5), Blank>>
      [] c = 3 -> <<Data(6), Blank>>
      [] OTHER -> <<Blank, Blank>>]
MCVolumes ==
    {[disk |-> Disk, fat |-> Table, saved |-> Table, dirty |-> FALSE, mcb |-> NoMcb,
      file |-> [f \in FileIds |-> NoFile], got |-> <<>>, writes |-> 0,
      refused |-> FALSE, full |-> FALSE, status |-> "ESUCCESS"]}
=============================================================================
