------------------------------ MODULE HiveCheck ------------------------------
(***************************************************************************)
(* What stands between a file called "system" and the scan of the          *)
(* registry: HvInitializeHive builds the map of the image in memory,       *)
(* CmCheckRegistry checks its bins, its cells and its tree of keys, and    *)
(* when the image is refused the same is tried with "system.alt".  The     *)
(* look-ups of the loader then walk the accepted image without any test.   *)
(*                                                                         *)
(* An image is its base block and its words.  An address is a multiple of  *)
(* the alignment of cells, HCELL_PAD; at each one there is a record with   *)
(* all the fields that may be read there: word, the first one, is the size *)
(* of a cell (negative when allocated) or an entry of a list.  Images are  *)
(* given as what damage has changed in one sound image.                    *)
(***************************************************************************)
EXTENDS Integers

CONSTANTS
    SoundBase, SoundWords, \* the sound image
    SoundBins, SoundCells, SoundKeys, \* where its bins, its cells and its keys are
    Files,      \* what the two files may hold: [system, alternate : images]
    HBLOCK_SIZE,    \* addresses in a block
    KeySize, ValueSize, \* the addresses a key takes with its name, and a value
    LargestKey, \* REG_MAX_PLAUSIBLE_KEY_SIZE
    Names       \* the names looked up

HCELL_NIL == -1
HBIN == 1         \* sizeof(HBIN), in addresses
CM_KEY_VALUE_SPECIAL_SIZE == 2    \* the data are in the value itself

ASSUME ImageAssumption ==
    /\ HBLOCK_SIZE \in Nat \ {0} /\ KeySize \in Nat \ {0}
    /\ \A f \in Files : \A name \in {"system", "alternate"} :
          /\ f[name].base.Length \in Nat
          /\ DOMAIN f[name].changed \subseteq DOMAIN SoundWords

\* Sizes are signed, and the numbers of subkeys and of values are not.  Names are numbers
\* in the order of the names.
Numbers(word) ==
    word.word \in Int /\ word.count \in Nat /\ word.values \in Nat /\ word.name \in Int

ASSUME WordAssumption ==
    /\ HCELL_NIL \in DOMAIN SoundWords /\ Names \subseteq Int
    /\ \A a \in DOMAIN SoundWords : Numbers(SoundWords[a])
    /\ \A f \in Files : \A name \in {"system", "alternate"} :
          \A a \in DOMAIN f[name].changed : Numbers(f[name].changed[a])

VARIABLES
    files,    \* the images in the files "system" and "system.alt"
    current,  \* the file whose image BlLoaderBlock->RegistryBase points to
    phase,    \* the routine that runs
    type,     \* BaseBlock->Type in memory
    map,      \* Hive->Storage[Stable].Map: block |-> address of its bin
    at,       \* Bin and Offset of HvpBuildMap; p of HvCheckHive and of HvCheckBin
    walk,     \* CmpCheckRegistry2's Cell, ParentCell and Index
    WorkVar,  \* the field of each key that keeps Index during a descent
    checked,  \* the keys CmpCheckKey has passed
    starved,  \* an allocation for the map has failed
    lookup    \* the look-up: key and name; Index, Low and High; Child

vars == <<files, current, phase, type, map, at, walk, WorkVar, checked, starved, lookup>>

Base == files[current].base
Length == Base.Length
WordOf(image, a) == IF a \in DOMAIN image.changed THEN image.changed[a]
                    ELSE IF a \in DOMAIN SoundWords THEN SoundWords[a]
                    ELSE SoundWords[HCELL_NIL]
Word(a) == WordOf(files[current], a)
SoundImage == [base |-> SoundBase, changed |-> <<>>]
Sound(image) == image = SoundImage

NoLookup == [key |-> HCELL_NIL, name |-> 0, index |-> HCELL_NIL, low |-> 0, high |-> 0,
             child |-> HCELL_NIL]
NoWalk == [cell |-> HCELL_NIL, parent |-> HCELL_NIL, index |-> 0]
Start == [bin |-> 0, offset |-> 0]

Init ==
    /\ files \in Files /\ current = "system" /\ phase = "HvInitializeHive"
    /\ type = "primary" /\ map = <<>> /\ at = Start /\ walk = NoWalk
    /\ WorkVar = <<>> /\ checked = {} /\ starved = FALSE /\ lookup = NoLookup

\* The image is refused: BlLoadAndScanSystemHive goes on to the other file, or fails.
Refuse ==
    /\ IF current = "system"
       THEN current' = "alternate" /\ phase' = "HvInitializeHive"
       ELSE phase' = "refused" /\ UNCHANGED current
    /\ UNCHANGED <<files, lookup>>

------------------------------------------------------------------------------
(* HvInitializeHive, HINIT_MEMORY_INPLACE.  HvpHeaderCheckSum is the        *)
(* exclusive or of the words of the base block: any change of one of them   *)
(* changes it, and so it is stood for by the tuple of these words.          *)

HvpHeaderCheckSum(b) == <<b.Signature, b.Sequence1, b.Sequence2, b.Type, b.RootCell, b.Length>>

\* Mutant: the sequence numbers are not compared.
AnySequence(b) == b.Signature = "regf" /\ b.CheckSum = HvpHeaderCheckSum(b)

GoodBaseBlock(b) ==
    /\ b.Signature = "regf" /\ b.Type = "primary" /\ b.Sequence1 = b.Sequence2
    /\ b.CheckSum = HvpHeaderCheckSum(b)


\* All of the hive is set anew, whatever an earlier image left in it.
HvInitializeHive ==
    /\ phase = "HvInitializeHive"
    /\ map' = <<>> /\ at' = Start /\ walk' = NoWalk /\ WorkVar' = <<>> /\ checked' = {}
    /\ IF GoodBaseBlock(Base)
       THEN /\ type' = IF current = "alternate" THEN "alternate" ELSE Base.Type
            /\ \/ /\ Length % HBLOCK_SIZE = 0 /\ phase' = "HvpBuildMap"
                  /\ UNCHANGED <<files, current, starved, lookup>>
               \/ Length % HBLOCK_SIZE # 0 /\ Refuse /\ UNCHANGED starved
               \/ Refuse /\ starved' = TRUE    \* no memory for the map
       ELSE Refuse /\ UNCHANGED <<type, starved>>

\* A bin is where it says it is.
BinAt(b, p) == Word(b).sig = "hbin" /\ Word(b).size <= Length /\ Word(b).offset = p

Blocks(size) == (size + HBLOCK_SIZE - 1) \div HBLOCK_SIZE

\* One turn of HvpBuildMap's loop: the blocks of a bin are entered in the map.  Past
\* its end HvpGetCellMap returns NULL, and the entry is written through it.
HvpBuildMap ==
    /\ phase = "HvpBuildMap"
    /\ UNCHANGED <<type, walk, WorkVar, checked, starved>>
    /\ \/ /\ at.bin >= Length
          /\ phase' = "HvCheckHive" /\ at' = Start
          /\ UNCHANGED <<files, current, map, lookup>>
       \/ /\ at.bin < Length /\ ~BinAt(at.bin, at.offset)
          /\ Refuse /\ UNCHANGED <<map, at>>
       \/ /\ at.bin < Length /\ BinAt(at.bin, at.offset)
          /\ \E end \in {at.offset + Blocks(Word(at.bin).size) * HBLOCK_SIZE} :
                IF end > Length
                THEN phase' = "through NULL" /\ UNCHANGED <<map, at>>
                ELSE /\ map' = [k \in 0 .. end \div HBLOCK_SIZE - 1 |->
                                   IF k \in DOMAIN map THEN map[k] ELSE at.bin]
                     /\ at' = [bin |-> at.bin + Word(at.bin).size, offset |-> end]
                     /\ UNCHANGED phase
          /\ UNCHANGED <<files, current, lookup>>

------------------------------------------------------------------------------
(* HvCheckHive and HvCheckBin: the cells of a bin, allocated or free, lie    *)
(* one after the other and fill it.                                          *)

SizeOf(c) == IF Word(c).word < 0 THEN -Word(c).word ELSE Word(c).word

BinChecked == map[at.bin \div HBLOCK_SIZE]
EndOfBin == BinChecked + Word(BinChecked).size

HvCheckHive ==
    /\ phase = "HvCheckHive"
    /\ UNCHANGED <<type, map, WorkVar, checked, starved>>
    /\ \/ /\ at.bin >= Length
          /\ phase' = "NewKey" /\ walk' = [NoWalk EXCEPT !.cell = Base.RootCell]
          /\ UNCHANGED <<files, current, at, lookup>>
       \/ /\ at.bin < Length /\ BinAt(BinChecked, at.bin)
          /\ phase' = "HvCheckBin" /\ at' = [at EXCEPT !.offset = BinChecked + HBIN]
          /\ UNCHANGED <<files, current, walk, lookup>>
       \/ at.bin < Length /\ ~BinAt(BinChecked, at.bin) /\ Refuse /\ UNCHANGED <<at, walk>>

\* One turn of its loop: a cell.  At the end the sizes of the cells and of the header
\* add up to the bin's.
HvCheckBin ==
    /\ phase = "HvCheckBin"
    /\ UNCHANGED <<type, map, walk, WorkVar, checked, starved>>
    /\ \/ /\ at.offset < EndOfBin
          /\ SizeOf(at.offset) # 0 /\ at.offset + SizeOf(at.offset) <= EndOfBin
          /\ at' = [at EXCEPT !.offset = @ + SizeOf(at.offset)]
          /\ UNCHANGED <<files, current, phase, lookup>>
       \/ /\ at.offset = EndOfBin
          /\ phase' = "HvCheckHive" /\ at' = [at EXCEPT !.bin = @ + Word(BinChecked).size]
          /\ UNCHANGED <<files, current, lookup>>
       \/ /\ \/ at.offset > EndOfBin
             \/ /\ at.offset < EndOfBin
                /\ SizeOf(at.offset) = 0 \/ at.offset + SizeOf(at.offset) > EndOfBin
          /\ Refuse /\ UNCHANGED at

------------------------------------------------------------------------------
(* CmpCheckKey and CmpCheckValueList.                                        *)

\* Mutant: free cells count as allocated.
FreeToo(c) ==
    /\ c \in 0 .. Length - 1
    /\ \E b \in {map[c \div HBLOCK_SIZE]} : c - b >= HBIN /\ c - b + SizeOf(c) <= Word(b).size

\* No volatile storage: an index with the type bit, NIL too, is off its end.
HvIsCellAllocated(c) ==
    /\ c \in 0 .. Length - 1
    /\ \E b \in {map[c \div HBLOCK_SIZE]} :
          /\ Word(c).word <= 0
          /\ c - b >= HBIN
          /\ c - b + SizeOf(c) <= Word(b).size


\* An entry of a list, which is read also where the cell of the list has ended.
ListEntry(c, i) == Word(c + i).word

KeyBody(c, parent) ==
    /\ HvIsCellAllocated(c)
    /\ SizeOf(c) <= LargestKey /\ KeySize <= SizeOf(c)
    /\ Word(c).sig = "key"
    /\ parent # HCELL_NIL => Word(c).parent = parent

ClassAndSecurity(c) ==
    /\ Word(c).classLength > 0 => HvIsCellAllocated(Word(c).class)
    /\ Word(c).security # HCELL_NIL => HvIsCellAllocated(Word(c).security)

\* A size of 0, less the size of itself, is a huge number without sign.
HoldsValue(v) == Word(v).word = 0 \/ ValueSize <= SizeOf(v)

CmpCheckValueList(list, count) ==
    \A i \in 1 .. count :
        \E v \in {ListEntry(list, i)} :
            /\ v # HCELL_NIL /\ HvIsCellAllocated(v)
            /\ Word(v).sig = "value" /\ HoldsValue(v)
            /\ CASE Word(v).length = 0 -> Word(v).data = HCELL_NIL
                 [] Word(v).length = CM_KEY_VALUE_SPECIAL_SIZE -> TRUE
                 [] OTHER -> HvIsCellAllocated(Word(v).data)

ValueList(c) ==
    Word(c).values > 0 =>
        /\ HvIsCellAllocated(Word(c).valueList)
        /\ CmpCheckValueList(Word(c).valueList, Word(c).values)

\* Entry i of a list in any image, from 1, and the number of entries in the first i
\* leaves of a root.
EntryOf(image, list, i) == WordOf(image, list + i).word
Before(image, root) ==
    LET Sum[i \in 0 .. WordOf(image, root).count] ==
            IF i = 0 THEN 0
            ELSE Sum[i - 1] + WordOf(image, EntryOf(image, root, i)).count
    IN Sum

IsLeaf(c) == HvIsCellAllocated(c) /\ Word(c).sig = "leaf"

\* Mutant: the counts of the leaves are not added up.
UncountedIndex(list, count) ==
    /\ HvIsCellAllocated(list)
    /\ \/ Word(list).sig = "leaf" /\ Word(list).count = count
       \/ /\ Word(list).sig = "root"
          /\ \A i \in 1 .. Word(list).count : IsLeaf(ListEntry(list, i))

Index(list, count) ==
    /\ HvIsCellAllocated(list)
    /\ \/ Word(list).sig = "leaf" /\ Word(list).count = count
       \/ /\ Word(list).sig = "root"
          /\ \A i \in 1 .. Word(list).count : IsLeaf(ListEntry(list, i))
          /\ count = Before(files[current], list)[Word(list).count]

CmpCheckKey(c, parent) ==
    /\ KeyBody(c, parent) /\ ClassAndSecurity(c) /\ ValueList(c)
    /\ Word(c).count > 0 => Index(Word(c).list, Word(c).count)

------------------------------------------------------------------------------
(* The index of the subkeys of a key: a sorted leaf, or a root of leaves.    *)

\* The leaf the number-th entry is in is stepped to by the counts of those before it.
CmpDoFindSubKeyByNumber(image, list, number) ==
    LET leaves == {i \in 1 .. WordOf(image, list).count :
                      Before(image, list)[i - 1] <= number /\ number < Before(image, list)[i]}
    IN IF WordOf(image, list).sig # "root" \/ leaves = {}
       THEN EntryOf(image, list, number + 1)
       ELSE CHOOSE e \in {EntryOf(image, EntryOf(image, list, i),
                                number - Before(image, list)[i - 1] + 1) : i \in leaves} : TRUE

CmpFindSubKeyByNumber(key, number) ==
    IF number < Word(key).count
    THEN CmpDoFindSubKeyByNumber(files[current], Word(key).list, number)
    ELSE HCELL_NIL

------------------------------------------------------------------------------
(* CmpCheckRegistry2: a recursion kept in the cells of the keys themselves. *)

Keep == UNCHANGED <<files, current, type, map, at, starved, lookup>>

NewKey ==
    /\ phase = "NewKey"
    /\ IF CmpCheckKey(walk.cell, walk.parent)
       THEN /\ WorkVar' = [c \in DOMAIN WorkVar \cup {walk.cell} |->
                              IF c = walk.cell THEN walk.index ELSE WorkVar[c]]
            /\ checked' = checked \cup {walk.cell}
            /\ walk' = [walk EXCEPT !.index = 0]
            /\ phase' = "Children" /\ Keep
       ELSE /\ Refuse
            /\ UNCHANGED <<type, map, at, walk, WorkVar, checked, starved>>

Descend ==
    /\ phase = "Children" /\ walk.index < Word(walk.cell).count
    /\ walk' = [cell |-> CmpFindSubKeyByNumber(walk.cell, walk.index),
                parent |-> walk.cell, index |-> walk.index]
    /\ phase' = "NewKey" /\ Keep /\ UNCHANGED <<WorkVar, checked>>

\* Mutant: the caller goes on with the Index of its child.
ResumedAtChild(w) == [cell |-> w.parent, parent |-> Word(w.parent).parent,
                      index |-> w.index + 1]

\* Where the caller goes on: at the child after this one.
Resumed(w) == [cell |-> w.parent, parent |-> Word(w.parent).parent,
               index |-> WorkVar[w.cell] + 1]


ResumeKey ==
    /\ phase = "Children" /\ walk.index >= Word(walk.cell).count
    /\ walk.cell # Base.RootCell
    /\ walk' = Resumed(walk)
    /\ Keep /\ UNCHANGED <<phase, WorkVar, checked>>

\* CmpValidateHiveSecurityDescriptors always agrees.
Accept ==
    /\ phase = "Children" /\ walk.index >= Word(walk.cell).count
    /\ walk.cell = Base.RootCell
    /\ phase' = "accepted"
    /\ Keep /\ UNCHANGED <<walk, WorkVar, checked>>

-----------------------------------------------------------------------------
(* CmpFindSubKeyByName: a binary search for the leaf, and one in the leaf.   *)
(* Entries are numbered from 0.  A step is a turn of a loop, or what comes   *)
(* after the loop, when two entries or one are left.                         *)

Looking == {"CmpFindSubKeyInRoot", "LastLeaves", "CmpFindSubKeyInLeaf", "LastEntries"}
InUse == {"accepted", "answered"} \cup Looking

KeepHive == UNCHANGED <<files, current, type, map, at, walk, WorkVar, checked, starved>>

Answer(child) ==
    phase' = "answered" /\ lookup' = [lookup EXCEPT !.child = child]

SearchIn(list) ==
    lookup' = [lookup EXCEPT !.index = list, !.low = 0, !.high = Word(list).count - 1]

\* The scan of the registry looks up names in the keys it has come to.
Find(key, name) ==
    /\ phase \in {"accepted", "answered"}
    /\ IF Word(key).count = 0
       THEN phase' = "answered" /\ lookup' = [NoLookup EXCEPT !.key = key, !.name = name]
       ELSE /\ phase' = IF Word(Word(key).list).sig = "root"
                        THEN "CmpFindSubKeyInRoot" ELSE "CmpFindSubKeyInLeaf"
            /\ lookup' = [key |-> key, name |-> name, index |-> Word(key).list, low |-> 0,
                          high |-> Word(Word(key).list).count - 1, child |-> HCELL_NIL]
    /\ KeepHive

Entry(i) == ListEntry(lookup.index, i + 1)
CmpDoCompareKeyName(c) == lookup.name - Word(c).name
ToEntry(i) == CmpDoCompareKeyName(Entry(i))

Middle == (lookup.high - lookup.low) \div 2 + lookup.low

\* The bounds after a turn that did not find it, and where the loop ends.
Narrow(result, after) ==
    \E low \in {IF result < 0 THEN lookup.low ELSE Middle},
       high \in {IF result < 0 THEN Middle ELSE lookup.high} :
        /\ lookup' = [lookup EXCEPT !.low = low, !.high = high]
        /\ phase' = IF high - low <= 1 THEN after ELSE phase

CmpFindSubKeyInLeaf ==
    /\ phase = "CmpFindSubKeyInLeaf"
    /\ \/ Word(lookup.index).count = 0 /\ Answer(HCELL_NIL)
       \/ Word(lookup.index).count # 0 /\ ToEntry(Middle) = 0 /\ Answer(Entry(Middle))
       \/ /\ Word(lookup.index).count # 0 /\ ToEntry(Middle) # 0
          /\ Narrow(ToEntry(Middle), "LastEntries")
    /\ KeepHive

LastEntries ==
    /\ phase = "LastEntries"
    /\ Answer(IF ToEntry(lookup.low) = 0 THEN Entry(lookup.low)
              ELSE IF ToEntry(lookup.low) > 0 /\ ToEntry(lookup.high) = 0
                   THEN Entry(lookup.high) ELSE HCELL_NIL)
    /\ KeepHive

\* Mutant: the entry after the last one.
AfterLast(leaf) == ListEntry(leaf, Word(leaf).count + 1)

LastOf(leaf) == ListEntry(leaf, Word(leaf).count)

\* Of leaf i of a root.
ToLast(i) == CmpDoCompareKeyName(LastOf(Entry(i)))
ToFirst(i) == CmpDoCompareKeyName(ListEntry(Entry(i), 1))
Within(i) == ToLast(i) = 0 \/ (ToLast(i) < 0 /\ ToFirst(i) >= 0)

TakeLeaf(leaf) == SearchIn(leaf) /\ phase' = "CmpFindSubKeyInLeaf"

CmpFindSubKeyInRoot ==
    /\ phase = "CmpFindSubKeyInRoot"
    /\ \/ Within(Middle) /\ TakeLeaf(Entry(Middle))
       \/ ~Within(Middle) /\ Narrow(ToLast(Middle), "LastLeaves")
    /\ KeepHive

LastLeaves ==
    /\ phase = "LastLeaves"
    /\ IF Within(lookup.low) THEN TakeLeaf(Entry(lookup.low))
       ELSE IF ToLast(lookup.low) > 0 /\ ToLast(lookup.high) <= 0
            THEN TakeLeaf(Entry(lookup.high)) ELSE Answer(HCELL_NIL)
    /\ KeepHive

LookUp == CmpFindSubKeyInRoot \/ LastLeaves \/ CmpFindSubKeyInLeaf \/ LastEntries

-----------------------------------------------------------------------------
(* The sound image: where the code that wrote it left its bins, its cells    *)
(* and its keys.                                                              *)

SoundWord(c) == WordOf(SoundImage, c)
SoundSize(c) == IF SoundWord(c).word < 0 THEN -SoundWord(c).word ELSE SoundWord(c).word
SoundEnd(b) == b + SoundWord(b).size
Taken(c) == c \in SoundCells /\ SoundWord(c).word < 0

\* The bins are whole blocks and fill the image.
SoundBin(b) ==
    /\ b \in 0 .. SoundBase.Length - 1 /\ b % HBLOCK_SIZE = 0
    /\ SoundWord(b).sig = "hbin" /\ SoundWord(b).offset = b
    /\ SoundWord(b).size \in Nat \ {0} /\ SoundWord(b).size % HBLOCK_SIZE = 0
    /\ SoundEnd(b) \in SoundBins \cup {SoundBase.Length}
    /\ \A a \in SoundBins : a < b => SoundEnd(a) <= b

\* The cells fill the bins.
SoundCell(c) ==
    \E b \in SoundBins :
        /\ b + HBIN <= c /\ c + SoundSize(c) <= SoundEnd(b) /\ SoundSize(c) # 0
        /\ c + SoundSize(c) \in SoundCells \cup {SoundEnd(b)}

SoundValue(v) ==
    /\ Taken(v) /\ SoundWord(v).sig = "value" /\ ValueSize <= SoundSize(v)
    /\ CASE SoundWord(v).length = 0 -> SoundWord(v).data = HCELL_NIL
         [] SoundWord(v).length = CM_KEY_VALUE_SPECIAL_SIZE -> TRUE
         [] OTHER -> Taken(SoundWord(v).data)

SoundIndex(list, count) ==
    /\ Taken(list)
    /\ \/ SoundWord(list).sig = "leaf" /\ SoundWord(list).count = count
       \/ /\ SoundWord(list).sig = "root"
          /\ \A i \in 1 .. SoundWord(list).count :
                Taken(EntryOf(SoundImage, list, i))
                /\ SoundWord(EntryOf(SoundImage, list, i)).sig = "leaf"
          /\ count = Before(SoundImage, list)[SoundWord(list).count]

\* Every key but the root is a subkey of its parent's.
SoundKey(k) ==
    /\ Taken(k) /\ SoundWord(k).sig = "key"
    /\ KeySize <= SoundSize(k) /\ SoundSize(k) <= LargestKey
    /\ SoundWord(k).classLength > 0 => Taken(SoundWord(k).class)
    /\ SoundWord(k).security # HCELL_NIL => Taken(SoundWord(k).security)
    /\ SoundWord(k).values > 0 =>
          /\ Taken(SoundWord(k).valueList)
          /\ \A i \in 1 .. SoundWord(k).values :
                SoundValue(EntryOf(SoundImage, SoundWord(k).valueList, i))
    /\ SoundWord(k).count > 0 => SoundIndex(SoundWord(k).list, SoundWord(k).count)
    /\ \A i \in 0 .. SoundWord(k).count - 1 :
          \E sub \in SoundKeys :
              /\ sub = CmpDoFindSubKeyByNumber(SoundImage, SoundWord(k).list, i)
              /\ SoundWord(sub).parent = k
    /\ k # SoundBase.RootCell => SoundWord(k).parent \in SoundKeys

ASSUME SoundAssumption ==
    /\ GoodBaseBlock(SoundBase)
    /\ SoundBase.Length \in Nat /\ SoundBase.Length % HBLOCK_SIZE = 0
    /\ 0 \in SoundBins /\ SoundBins \subseteq Nat /\ \A b \in SoundBins : SoundBin(b)
    /\ \A b \in SoundBins : b + HBIN \in SoundCells
    /\ SoundCells \subseteq Nat /\ \A c \in SoundCells : SoundCell(c)
    /\ SoundBase.RootCell \in SoundKeys /\ \A k \in SoundKeys : SoundKey(k)

-----------------------------------------------------------------------------

LoadAndInit ==
    \/ HvInitializeHive \/ HvpBuildMap \/ HvCheckHive \/ HvCheckBin
    \/ NewKey \/ Descend \/ ResumeKey \/ Accept

Next ==
    \/ LoadAndInit
    \/ \E key \in checked, name \in Names : Find(key, name)
    \/ LookUp

Spec == Init /\ [][Next]_vars

\* One thread, which never waits.
FairSpec == Spec /\ WF_vars(LoadAndInit)

------------------------------------------------------------------------------
Subkeys(key) == {CmpFindSubKeyByNumber(key, i) : i \in 0 .. Word(key).count - 1}

\* In an accepted hive whatever the loader can reach was checked: each subkey of a
\* checked key is a checked key that names it as its parent, none is left out because
\* a descent came back to the wrong place, and each entry of a list of values has the
\* signature of a value.  The look-ups rely on it: HvGetCell tests nothing.
AllKeysChecked ==
    phase \in InUse =>
        /\ Base.RootCell \in checked
        /\ \A key \in checked :
              /\ HvIsCellAllocated(key) /\ Word(key).sig = "key"
              /\ Word(key).word < 0
              /\ \A sub \in Subkeys(key) : sub \in checked /\ Word(sub).parent = key
              /\ \A i \in 1 .. Word(key).values :
                    Word(ListEntry(Word(key).valueList, i)).sig = "value"

\* The lists of a key: its leaf, or the leaves of its root.
LeafLists(key) ==
    IF Word(Word(key).list).sig = "root"
    THEN [i \in 1 .. Word(Word(key).list).count |-> ListEntry(Word(key).list, i)]
    ELSE [i \in {1} |-> Word(key).list]

\* The names go up, within a leaf and from leaf to leaf, and no leaf is empty.
Ordered(key) ==
    \A l, m \in DOMAIN LeafLists(key) :
        /\ Word(LeafLists(key)[l]).count > 0
        /\ \A i \in 1 .. Word(LeafLists(key)[l]).count, j \in 1 .. Word(LeafLists(key)[m]).count :
              l < m \/ (l = m /\ i < j) =>
                  Word(ListEntry(LeafLists(key)[l], i)).name
                      < Word(ListEntry(LeafLists(key)[m], j)).name

\* A look-up answers with a subkey of the key or with none; and, unless the index is out
\* of order or has an empty leaf, which nothing checks, with the one of that name exactly
\* when there is one, through a root of several leaves as well.
LookupFinds ==
    phase = "answered" =>
        /\ lookup.child \in Subkeys(lookup.key) \cup {HCELL_NIL}
        /\ Ordered(lookup.key) =>
              IF \E sub \in Subkeys(lookup.key) : Word(sub).name = lookup.name
              THEN lookup.child # HCELL_NIL /\ Word(lookup.child).name = lookup.name
              ELSE lookup.child = HCELL_NIL

\* What is booted is a hive whose last write was finished.  The alternate is used only
\* when the primary is damaged (or memory was short), it is not refused for anything the
\* primary left behind, and the kernel is told to write the primary anew exactly then.
RightHiveBooted ==
    /\ phase \in InUse => /\ files[current].base.Sequence1 = files[current].base.Sequence2
                          /\ (type = "alternate") = (current = "alternate")
    /\ (current = "alternate" /\ ~starved) => ~Sound(files.system)
    /\ (phase = "refused" /\ ~starved) => ~Sound(files.alternate)

\* HvpBuildMap has come to a bin of size 0, which it comes to again and again, or has
\* written past the map for a bin that reports more than is left of the image.
BadBin ==
    \/ phase = "through NULL"
    \/ phase = "HvpBuildMap" /\ at.bin < Length /\ Word(at.bin).size = 0

\* A key that was checked has the root among its subkeys, and the root names it as its
\* parent: the recursion goes down from one to the other for ever.  Any other circle of
\* keys is refused, since it can only be entered at a key that names another parent.
RootReentered ==
    /\ phase \in {"NewKey", "Children"}
    /\ \E key \in checked :
          Base.RootCell \in Subkeys(key) /\ Word(Base.RootCell).parent = key

\* Whatever is in the two files the check comes to a verdict, except in the three cases
\* that no test in it meets: a bin of size 0, a bin that ends past the end of the image,
\* and a root below one of its own descendants or below itself.
CheckEnds == <>(phase \in InUse \cup {"refused"} \/ BadBin \/ RootReentered)
==============================================================================
