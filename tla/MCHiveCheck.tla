----------------------------- MODULE MCHiveCheck -----------------------------
(* A hive of two bins of one block each: a root key with the subkeys 10, 20  *)
(* and 30 in an index of two leaves, 40 below 20 in a single leaf, a value   *)
(* with data; and every image that differs from it in one field, or has a    *)
(* circle of keys.                                                           *)
EXTENDS HiveCheck, TLC

Blank == [word |-> 100, sig |-> "none", size |-> 0, offset |-> 0, parent |-> HCELL_NIL,
          count |-> 0, list |-> HCELL_NIL, classLength |-> 0, class |-> HCELL_NIL,
          security |-> HCELL_NIL, values |-> 0, valueList |-> HCELL_NIL,
          name |-> 0, length |-> 0, data |-> HCELL_NIL]

Bin(offset) == [Blank EXCEPT !.sig = "hbin", !.size = 24, !.offset = offset]
Key(name, parent, count, list) ==
    [Blank EXCEPT !.word = -2, !.sig = "key", !.name = name, !.parent = parent,
                  !.count = count, !.list = list]
Cell(size) == [Blank EXCEPT !.word = -size]
Free(size) == [Blank EXCEPT !.word = size]
List(sig, count) == [Blank EXCEPT !.word = -(count + 1), !.sig = sig, !.count = count]
EntryWord(c) == [Blank EXCEPT !.word = c]

\* The cells: root 1, its index 3, leaves 6 and 9, value list 11, keys 13, 15, 17,
\* value 19, its data 21; in the second bin the key 27 with its leaf 25.
Cells ==
    (0 :> Bin(0))
    @@ (1 :> [Key(0, HCELL_NIL, 3, 3) EXCEPT !.values = 1, !.valueList = 11,
                                             !.classLength = 1, !.class = 21])
    @@ (3 :> List("root", 2)) @@ (4 :> EntryWord(6)) @@ (5 :> EntryWord(9))
    @@ (6 :> List("leaf", 2)) @@ (7 :> EntryWord(13)) @@ (8 :> EntryWord(15))
    @@ (9 :> List("leaf", 1)) @@ (10 :> EntryWord(17))
    @@ (11 :> Cell(2)) @@ (12 :> EntryWord(19))
    @@ (13 :> Key(10, 1, 0, HCELL_NIL)) @@ (15 :> Key(20, 1, 1, 25))
    @@ (17 :> Key(30, 1, 0, HCELL_NIL))
    @@ (19 :> [Cell(2) EXCEPT !.sig = "value", !.length = 1, !.data = 21])
    @@ (21 :> Cell(1)) @@ (22 :> Free(2))
    @@ (24 :> Bin(24))
    @@ (25 :> List("leaf", 1)) @@ (26 :> EntryWord(27)) @@ (27 :> Key(40, 15, 0, HCELL_NIL))
    @@ (29 :> Free(19))

InstanceBase ==
    LET b == [Signature |-> "regf", Sequence1 |-> 7, Sequence2 |-> 7, Type |-> "primary",
              RootCell |-> 1, Length |-> 48, CheckSum |-> <<>>]
    IN [b EXCEPT !.CheckSum = HvpHeaderCheckSum(b)]

\* Between the cells lie the names and the data, and past the end anything: text.
InstanceWords == Cells @@ [a \in HCELL_NIL .. 47 |-> Blank]

Image(base, changed) == [base |-> base, changed |-> changed]
Good == Image(InstanceBase, <<>>)
Damaged(a, field, value) ==
    Image(InstanceBase, a :> [InstanceWords[a] EXCEPT ![field] = value])

InstanceBins == {0, 24}
InstanceCells == DOMAIN Cells \ (InstanceBins \cup {4, 5, 7, 8, 10, 12, 26})
InstanceKeys == {1, 13, 15, 17, 27}

\* Indices of cells, of the middle of cells, of bins, and of nothing.
Indices == {HCELL_NIL, 0, 1, 3, 6, 9, 12, 13, 19, 22, 27, 48}
KeyFields == [parent |-> Indices, list |-> Indices, class |-> Indices,
              security |-> Indices, valueList |-> Indices, count |-> 0 .. 3,
              values |-> 0 .. 2, classLength |-> {0, 1}, name |-> {0, 15, 45}]
ValueFields == [data |-> Indices, length |-> 0 .. 2]
ListFields == [count |-> 0 .. 3]
AnyField == [word |-> Indices \cup {2, -3, -4, -6}, sig |-> {"key", "leaf", "root", "none"}]

FieldsOf(sig) ==
    CASE sig = "key" -> KeyFields @@ AnyField
      [] sig = "value" -> ValueFields @@ AnyField
      [] sig \in {"leaf", "root"} -> ListFields @@ AnyField
      [] sig = "hbin" -> [offset |-> {0, 12, 24}, size |-> {0, 12, 36, 48, 72},
                           sig |-> {"none"}]
      [] OTHER -> AnyField

DamagedCells ==
    UNION {UNION {{Damaged(a, f, v) : v \in FieldsOf(Cells[a].sig)[f]} :
                      f \in DOMAIN FieldsOf(Cells[a].sig)} : a \in DOMAIN Cells}

\* A write of the hive that was cut short: Sequence1 is one ahead, and what was to be
\* written may be there, in part or not at all.
TornBase ==
    LET b == [InstanceBase EXCEPT !.Sequence1 = 8]
    IN [b EXCEPT !.CheckSum = HvpHeaderCheckSum(b)]
Torn == {Image(TornBase, <<>>),
         Image(TornBase, 25 :> [InstanceWords[25] EXCEPT !.count = 0, !.sig = "key"])}
Longer == Image([InstanceBase EXCEPT !.Length = 72], <<>>)

\* A key that is listed below itself or below a descendant, and names it as its parent:
\* the root, twice, and the key 20, which is also in the list of the root.
Below(key, entry, parent) ==
    Image(InstanceBase, key :> [InstanceWords[key] EXCEPT !.parent = parent]
                        @@ entry :> EntryWord(key))
Circles == {Below(1, 7, 1), Below(1, 26, 15), Below(15, 26, 15)}

InstanceFiles ==
    [system : DamagedCells \cup Torn \cup Circles \cup {Good, Longer},
     alternate : {Good, Damaged(13, "sig", "none")}]
==============================================================================
