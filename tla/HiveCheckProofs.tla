--------------------------- MODULE HiveCheckProofs ---------------------------
(***************************************************************************)
(* Three results about the hive the loader comes to use, whatever the      *)
(* image holds.                                                            *)
(*                                                                         *)
(* The walk of CmpCheckRegistry2 leaves out no key: keys may be listed     *)
(* twice, be listed by several, or list a key the walk comes from.  It has *)
(* no stack: it goes back along the keys' Parent fields, and finds in      *)
(* WorkVar where it was in each of them.  The invariant gives the stack    *)
(* back, as a path from the root.  A walk that comes upon the root again   *)
(* forgets where it was and starts over; so the invariant counts what was  *)
(* done since the root was last come to.                                   *)
(*                                                                         *)
(* An undamaged image passes every test, so that no alternate is taken and *)
(* no boot refused without damage.  And the binary searches come to the    *)
(* key of a name exactly if there is one.                                  *)
(***************************************************************************)
EXTENDS HiveCheck, WellFoundedInduction, TLAPS

\* CmpFindSubKeyByNumber, of any image.
Sub(image, key, i) ==
    IF i < WordOf(image, key).count
    THEN CmpDoFindSubKeyByNumber(image, WordOf(image, key).list, i)
    ELSE HCELL_NIL

Count(image, key) == WordOf(image, key).count
Parent(image, key) == WordOf(image, key).parent

\* Subkey i of the key is among the keys V, and names it as its parent.
Came(image, V, key, i) ==
    Sub(image, key, i) \in V /\ Parent(image, Sub(image, key, i)) = key

CameBefore(image, V, key, n) == \A i \in 0 .. n - 1 : Came(image, V, key, i)

Done(image, V, key) == CameBefore(image, V, key, Count(image, key))

\* From the root, each key on the path is a subkey of the one before it, at the
\* index that WorkVar (W) holds for it, and the subkeys up to that one are in V.
OnPath(image, W, V, path, i) ==
    /\ path[i] # image.base.RootCell
    /\ Parent(image, path[i]) = path[i - 1]
    /\ path[i] \in DOMAIN W
    /\ W[path[i]] \in 0 .. Count(image, path[i - 1]) - 1
    /\ CameBefore(image, V, path[i - 1], W[path[i]] + 1)

\* V are the keys come to since the walk was last at the root.  Those that are not
\* on the path have all their subkeys in V.
Walked(image, W, V, n, path) ==
    /\ n \in Nat \ {0} /\ path \in [1 .. n -> V]
    /\ path[1] = image.base.RootCell
    /\ \A i \in 2 .. n : OnPath(image, W, V, path, i)
    /\ \A i, j \in 1 .. n : path[i] = path[j] => i = j
    /\ \A c \in V : (\E i \in 1 .. n : path[i] = c) \/ Done(image, V, c)

\* NewKey: the key to be checked is a subkey of the last on the path.
Coming(image, W, V, n, path, w) ==
    /\ Walked(image, W, V, n, path)
    /\ w.parent = path[n] /\ w.index \in 0 .. Count(image, path[n]) - 1
    /\ w.cell = Sub(image, path[n], w.index)
    /\ CameBefore(image, V, path[n], w.index)

\* Children: the walk is at the last key on the path.
AtKey(image, W, V, n, path, w) ==
    /\ Walked(image, W, V, n, path)
    /\ w.cell = path[n]
    /\ n > 1 => w.parent = path[n - 1]
    /\ w.index \in 0 .. Count(image, path[n])
    /\ CameBefore(image, V, path[n], w.index)

Start0(image, w) ==
    w.cell = image.base.RootCell /\ w.parent = HCELL_NIL /\ w.index = 0

\* S has the root and with every key its subkeys.
Closed(image, S) ==
    /\ image.base.RootCell \in S
    /\ \A key \in S : \A i \in 0 .. Count(image, key) - 1 : Sub(image, key, i) \in S

Reached(image, keys) == \A S : Closed(image, S) => keys \subseteq S

\* What CmpCheckKey makes sure of in a key.
Checked(key) ==
    /\ HvIsCellAllocated(key) /\ Word(key).sig = "key" /\ Word(key).word < 0
    /\ \A i \in 1 .. Word(key).values :
          Word(ListEntry(Word(key).valueList, i)).sig = "value"
    /\ Word(key).count > 0 => Index(Word(key).list, Word(key).count)

Image == files[current]

KeyInv ==
    /\ phase \in {"HvpBuildMap", "HvCheckHive", "HvCheckBin"} => checked = {}
    /\ phase \in {"NewKey", "Children"} \cup InUse =>
          Reached(Image, checked) /\ \A key \in checked : Checked(key)
    /\ phase = "NewKey" =>
          \/ Start0(Image, walk) /\ checked = {}
          \/ \E V \in SUBSET checked, n \in Nat \ {0} :
                \E path \in [1 .. n -> V] : Coming(Image, WorkVar, V, n, path, walk)
    /\ phase = "Children" =>
          \E V \in SUBSET checked, n \in Nat \ {0} :
             \E path \in [1 .. n -> V] : AtKey(Image, WorkVar, V, n, path, walk)
    /\ phase \in InUse =>
          \E V \in SUBSET checked :
             Image.base.RootCell \in V /\ \A key \in V : Done(Image, V, key)

TypeInv == files \in Files /\ current \in {"system", "alternate"}

HiveInv == TypeInv /\ KeyInv

-----------------------------------------------------------------------------
(* What a walk is, apart from any state.                                   *)

LEMMA CameMore ==
    ASSUME NEW image, NEW V, NEW U, V \subseteq U, NEW key, NEW n, CameBefore(image, V, key, n)
    PROVE  CameBefore(image, U, key, n)
BY DEF CameBefore, Came

LEMMA DoneMore ==
    ASSUME NEW image, NEW V, NEW U, V \subseteq U, NEW key, Done(image, V, key)
    PROVE  Done(image, U, key)
BY CameMore DEF Done

\* One more subkey has come.
LEMMA CameNext ==
    ASSUME NEW image, NEW V, NEW key, NEW n \in Nat, CameBefore(image, V, key, n),
           Came(image, V, key, n)
    PROVE  CameBefore(image, V, key, n + 1)
<1>1. \A i \in 0 .. (n + 1) - 1 : i = n \/ i \in 0 .. n - 1
  OBVIOUS
<1> QED BY <1>1 DEF CameBefore

LEMMA WalkedPath ==
    ASSUME NEW image, NEW W, NEW V, NEW n, NEW path, Walked(image, W, V, n, path)
    PROVE  /\ n \in Nat \ {0} /\ path \in [1 .. n -> V] /\ path[1] = image.base.RootCell
           /\ \A i \in 1 .. n : path[i] \in V
           /\ path[n] \in V /\ 1 \in 1 .. n
BY DEF Walked

\* The walk starts, or starts over, at the root.
LEMMA AtRoot ==
    ASSUME NEW image, NEW W, NEW root, root = image.base.RootCell
    PROVE  \A path : path = [i \in 1 .. 1 |-> root] => Walked(image, W, {root}, 1, path)
<1> DEFINE path == [i \in 1 .. 1 |-> root]
<1>1. path \in [1 .. 1 -> {root}] /\ path[1] = root
  OBVIOUS
<1>2. \A i \in 2 .. 1 : FALSE
  OBVIOUS
<1>3. \A i, j \in 1 .. 1 : i = j
  OBVIOUS
<1>4. Walked(image, W, {root}, 1, path)
  <2> HIDE DEF path
  <2> QED BY <1>1, <1>2, <1>3 DEF Walked
<1> QED BY <1>4

Longer(path, n, c) == [i \in 1 .. n + 1 |-> IF i = n + 1 THEN c ELSE path[i]]
Shorter(path, n) == [i \in 1 .. n - 1 |-> path[i]]

And(V, c) == V \cup {c}

\* WorkVar of a key is set.
Kept(W, c, index) == [k \in DOMAIN W \cup {c} |-> IF k = c THEN index ELSE W[k]]

\* A subkey that is not the root lengthens the path, though the key itself may have
\* been come to before.
LEMMA Lengthened ==
    ASSUME NEW image, NEW W, NEW V, NEW n, NEW path, NEW w, Coming(image, W, V, n, path, w),
           w.cell # image.base.RootCell, Parent(image, w.cell) = w.parent
    PROVE  \E m, longer : /\ Walked(image, Kept(W, w.cell, w.index), And(V, w.cell), m, longer)
                          /\ longer[m] = w.cell /\ longer[m - 1] = w.parent
<1> DEFINE U == V \cup {w.cell}
           W2 == Kept(W, w.cell, w.index)
           longer == Longer(path, n, w.cell)
<1>1. /\ n \in Nat \ {0} /\ path \in [1 .. n -> V] /\ path[1] = image.base.RootCell
      /\ w.parent = path[n] /\ w.index \in 0 .. Count(image, path[n]) - 1
      /\ w.cell = Sub(image, path[n], w.index)
      /\ CameBefore(image, V, path[n], w.index)
  BY DEF Coming, Walked
<1>2. /\ longer \in [1 .. n + 1 -> U] /\ longer[n + 1] = w.cell
      /\ \A i \in 1 .. n : longer[i] = path[i]
  BY <1>1 DEF Longer
<1>12. /\ w.cell \in DOMAIN W2 /\ W2[w.cell] = w.index
       /\ \A k \in DOMAIN W : k \in DOMAIN W2 /\ (k # w.cell => W2[k] = W[k])
  BY DEF Kept
<1> HIDE DEF longer, W2
<1>3. \A i \in 1 .. n : path[i] # w.cell
  <2> SUFFICES ASSUME NEW i \in 1 .. n, path[i] = w.cell PROVE FALSE
    OBVIOUS
  <2>1. i \in 2 .. n
    BY <1>1
  <2>2. path[i - 1] = path[n]
    BY <1>1, <2>1 DEF Coming, Walked, OnPath
  <2>3. i - 1 = n
    <3>1. i - 1 \in 1 .. n /\ n \in 1 .. n
      BY <1>1, <2>1
    <3> QED BY <2>2, <3>1 DEF Coming, Walked
  <2> QED BY <1>1, <2>3
<1>4. ASSUME NEW i \in 2 .. n + 1
      PROVE  OnPath(image, W2, U, longer, i)
  <2>1. CASE i = n + 1
    <3>1. longer[i] = w.cell /\ longer[i - 1] = path[n]
      BY <1>1, <1>2, <2>1
    <3>2. w.cell \in DOMAIN W2 /\ W2[w.cell] = w.index
      BY <1>12
    <3>3. Came(image, U, path[n], w.index)
      BY <1>1 DEF Came
    <3>4. CameBefore(image, U, path[n], w.index)
      BY <1>1, CameMore
    <3>5. CameBefore(image, U, path[n], w.index + 1)
      BY <1>1, <3>3, <3>4, CameNext
    <3> QED BY <1>1, <3>1, <3>2, <3>5 DEF OnPath
  <2>2. CASE i # n + 1
    <3>1. i \in 2 .. n /\ i \in 1 .. n /\ i - 1 \in 1 .. n
      BY <1>1, <2>2
    <3>2. OnPath(image, W, V, path, i)
      BY <3>1 DEF Coming, Walked
    <3>3. longer[i] = path[i] /\ longer[i - 1] = path[i - 1] /\ path[i] # w.cell
      BY <1>2, <1>3, <3>1
    <3>4. path[i] \in DOMAIN W2 /\ W2[path[i]] = W[path[i]]
      BY <1>12, <3>2, <3>3 DEF OnPath
    <3>5. CameBefore(image, U, path[i - 1], W[path[i]] + 1)
      BY <3>2, CameMore DEF OnPath
    <3> QED BY <3>2, <3>3, <3>4, <3>5 DEF OnPath
  <2> QED BY <2>1, <2>2
<1>5. \A i, j \in 1 .. n + 1 : longer[i] = longer[j] => i = j
  <2>1. \A i, j \in 1 .. n : path[i] = path[j] => i = j
    BY DEF Coming, Walked
  <2>2. \A i \in 1 .. n + 1 : i = n + 1 \/ i \in 1 .. n
    BY <1>1
  <2> QED BY <1>2, <1>3, <2>1, <2>2
<1>6. ASSUME NEW c \in U
      PROVE  (\E i \in 1 .. n + 1 : longer[i] = c) \/ Done(image, U, c)
  <2>1. CASE c = w.cell
    BY <1>1, <1>2, <2>1
  <2>2. CASE c \in V
    <3>1. (\E i \in 1 .. n : path[i] = c) \/ Done(image, V, c)
      BY <2>2 DEF Coming, Walked
    <3>2. \A i \in 1 .. n : i \in 1 .. n + 1
      BY <1>1
    <3> QED BY <1>2, <3>1, <3>2, DoneMore
  <2> QED BY <2>1, <2>2
<1>7. n + 1 \in Nat \ {0} /\ 1 \in 1 .. n /\ n \in 1 .. n
  BY <1>1
<1> HIDE DEF U
<1>8. Walked(image, W2, U, n + 1, longer)
  BY <1>1, <1>2, <1>4, <1>5, <1>6, <1>7 DEF Walked
<1>9. longer[n + 1] = w.cell /\ longer[(n + 1) - 1] = w.parent
  BY <1>1, <1>2, <1>7
<1> QED BY <1>8, <1>9 DEF U, W2, And

\* A key that has no more subkeys shortens it.
LEMMA Shortened ==
    ASSUME NEW image, NEW W, NEW V, NEW n, NEW path, NEW w, AtKey(image, W, V, n, path, w),
           w.cell # image.base.RootCell, w.index >= Count(image, w.cell),
           NEW w2, w2.cell = w.parent, w2.parent = Parent(image, w.parent),
           w2.index = W[w.cell] + 1,
           Count(image, w.cell) \in Nat, Count(image, w.parent) \in Nat
    PROVE  /\ n - 1 \in Nat \ {0} /\ Shorter(path, n) \in [1 .. n - 1 -> V]
           /\ AtKey(image, W, V, n - 1, Shorter(path, n), w2)
<1> DEFINE shorter == Shorter(path, n)
<1>1. /\ n \in Nat \ {0} /\ path \in [1 .. n -> V] /\ path[1] = image.base.RootCell
      /\ w.cell = path[n] /\ w.index \in 0 .. Count(image, path[n])
      /\ n > 1 => w.parent = path[n - 1]
      /\ CameBefore(image, V, path[n], w.index)
  BY DEF AtKey, Walked
<1>2. n > 1 /\ n - 1 \in Nat \ {0} /\ w.parent = path[n - 1]
  BY <1>1
<1>3. shorter \in [1 .. n - 1 -> V] /\ \A i \in 1 .. n - 1 : shorter[i] = path[i]
  BY <1>1, <1>2 DEF Shorter
<1> HIDE DEF shorter
<1>4. Done(image, V, path[n])
  <2>1. w.index = Count(image, path[n])
    BY <1>1
  <2> QED BY <1>1, <2>1 DEF Done
<1>5. ASSUME NEW i \in 2 .. n - 1 PROVE OnPath(image, W, V, shorter, i)
  <2>1. i \in 2 .. n /\ i \in 1 .. n - 1 /\ i - 1 \in 1 .. n - 1
    BY <1>1, <1>2
  <2>2. OnPath(image, W, V, path, i)
    BY <2>1 DEF AtKey, Walked
  <2> QED BY <1>3, <2>1, <2>2 DEF OnPath
<1>6. \A i, j \in 1 .. n - 1 : shorter[i] = shorter[j] => i = j
  <2>1. \A i \in 1 .. n - 1 : i \in 1 .. n
    BY <1>1
  <2> QED BY <1>3, <2>1 DEF AtKey, Walked
<1>7. ASSUME NEW c \in V
      PROVE  (\E i \in 1 .. n - 1 : shorter[i] = c) \/ Done(image, V, c)
  <2>1. (\E i \in 1 .. n : path[i] = c) \/ Done(image, V, c)
    BY DEF AtKey, Walked
  <2>2. \A i \in 1 .. n : i = n \/ i \in 1 .. n - 1
    BY <1>1
  <2> QED BY <1>3, <1>4, <2>1, <2>2
<1>8. shorter[1] = image.base.RootCell /\ shorter[n - 1] = path[n - 1]
  BY <1>1, <1>2, <1>3
<1>9. Walked(image, W, V, n - 1, shorter)
  BY <1>2, <1>3, <1>5, <1>6, <1>7, <1>8 DEF Walked
<1>10. OnPath(image, W, V, path, n)
  BY <1>1, <1>2 DEF AtKey, Walked
<1>11. n - 1 > 1 => w2.parent = shorter[(n - 1) - 1]
  <2> SUFFICES ASSUME n - 1 > 1 PROVE w2.parent = shorter[(n - 1) - 1]
    OBVIOUS
  <2>1. n - 1 \in 2 .. n /\ (n - 1) - 1 \in 1 .. n - 1
    BY <1>1
  <2>2. OnPath(image, W, V, path, n - 1)
    BY <2>1 DEF AtKey, Walked
  <2> QED BY <1>2, <1>3, <2>1, <2>2 DEF OnPath
<1>12. w2.index \in 0 .. Count(image, shorter[n - 1])
  BY <1>1, <1>2, <1>8, <1>10 DEF OnPath
<1>13. CameBefore(image, V, shorter[n - 1], w2.index)
  BY <1>1, <1>8, <1>10 DEF OnPath
<1>14. w2.cell = shorter[n - 1]
  BY <1>2, <1>8
<1>15. AtKey(image, W, V, n - 1, shorter, w2)
  BY ONLY <1>9, <1>11, <1>12, <1>13, <1>14 DEF AtKey
<1> QED BY <1>2, <1>3, <1>15 DEF shorter

\* When the root has no more subkeys, every key come to since has all of them.
LEMMA AllDone ==
    ASSUME NEW image, NEW W, NEW V, NEW n, NEW path, NEW w, AtKey(image, W, V, n, path, w),
           w.cell = image.base.RootCell, w.index >= Count(image, w.cell),
           Count(image, w.cell) \in Nat
    PROVE  image.base.RootCell \in V /\ \A key \in V : Done(image, V, key)
<1>1. /\ n \in Nat \ {0} /\ path \in [1 .. n -> V] /\ path[1] = image.base.RootCell
      /\ w.cell = path[n] /\ w.index \in 0 .. Count(image, path[n])
      /\ CameBefore(image, V, path[n], w.index)
  BY DEF AtKey, Walked
<1>2. n = 1
  <2>1. 1 \in 1 .. n /\ n \in 1 .. n /\ path[1] = path[n]
    BY <1>1
  <2> QED BY <2>1 DEF AtKey, Walked
<1>3. Done(image, V, path[1])
  <2>1. w.index = Count(image, path[n])
    BY <1>1
  <2> QED BY <1>1, <1>2, <2>1 DEF Done
<1>4. ASSUME NEW c \in V PROVE Done(image, V, c)
  <2>1. (\E i \in 1 .. n : path[i] = c) \/ Done(image, V, c)
    BY DEF AtKey, Walked
  <2>2. \A i \in 1 .. n : i = 1
    BY <1>2
  <2> QED BY <1>3, <2>1, <2>2
<1> QED BY <1>1, <1>2, <1>4

\* Whatever is closed has all the keys the walk has come to.
LEMMA ReachesSub ==
    ASSUME NEW image, NEW keys, Reached(image, keys), NEW key \in keys,
           NEW i \in 0 .. Count(image, key) - 1, NEW c, c = Sub(image, key, i)
    PROVE  Reached(image, keys \cup {c})
BY DEF Reached, Closed

\* So what is closed among them has all of them.
LEMMA DoneHasAll ==
    ASSUME NEW image, NEW keys, Reached(image, keys), NEW V \in SUBSET keys,
           image.base.RootCell \in V, \A key \in V : Done(image, V, key)
    PROVE  V = keys
<1>1. Closed(image, V)
  <2>1. \A key \in V : \A i \in 0 .. Count(image, key) - 1 : Sub(image, key, i) \in V
    BY DEF Done, CameBefore, Came
  <2> QED BY <2>1 DEF Closed
<1> QED BY <1>1 DEF Reached

-----------------------------------------------------------------------------
(* The steps.                                                              *)

LEMMA SubOf ==
    /\ \A key, i : CmpFindSubKeyByNumber(key, i) = Sub(Image, key, i)
    /\ \A a : Word(a) = WordOf(Image, a)
BY DEF CmpFindSubKeyByNumber, Sub, Word, Image

LEMMA WordNumbers ==
    ASSUME TypeInv, NEW a PROVE Numbers(WordOf(Image, a)) /\ Numbers(Word(a))
BY WordAssumption DEF TypeInv, Image, WordOf, Word

LEMMA CountsAreNaturals ==
    ASSUME TypeInv, NEW key PROVE Count(Image, key) \in Nat
BY WordNumbers DEF Count, Numbers

\* The image and its map are not touched any more once the walk has begun.
LEMMA CheckedStays ==
    ASSUME UNCHANGED <<files, current, map>>, NEW key, Checked(key)
    PROVE  Checked(key)'
<1>1. \A a : Word(a)' = Word(a) /\ SizeOf(a)' = SizeOf(a)
  BY DEF Word, SizeOf
<1>2. \A c : HvIsCellAllocated(c)' <=> HvIsCellAllocated(c)
  BY <1>1 DEF HvIsCellAllocated, Length, Base
<1>3. \A c, i : ListEntry(c, i)' = ListEntry(c, i)
  BY <1>1 DEF ListEntry
<1>4. \A list, count : Index(list, count)' <=> Index(list, count)
  BY <1>1, <1>2, <1>3 DEF Index, IsLeaf
<1> QED BY <1>1, <1>2, <1>3, <1>4 DEF Checked

\* CmpCheckKey makes sure of it.
LEMMA PassedIsChecked ==
    ASSUME TypeInv, NEW key, NEW parent, CmpCheckKey(key, parent)
    PROVE  /\ Checked(key) /\ key # HCELL_NIL
           /\ parent # HCELL_NIL => Word(key).parent = parent
<1>1. /\ HvIsCellAllocated(key) /\ Word(key).sig = "key" /\ KeySize <= SizeOf(key)
      /\ parent # HCELL_NIL => Word(key).parent = parent
      /\ Word(key).values > 0 => CmpCheckValueList(Word(key).valueList, Word(key).values)
  BY DEF CmpCheckKey, KeyBody, ValueList
<1>2. Word(key).word \in Int /\ Word(key).values \in Nat
  BY WordNumbers DEF Numbers
<1>3. Word(key).word < 0
  <2>1. Word(key).word <= 0 /\ KeySize \in Nat \ {0}
    BY <1>1, ImageAssumption DEF HvIsCellAllocated
  <2> QED BY <1>1, <1>2, <2>1 DEF SizeOf
<1>4. ASSUME NEW i \in 1 .. Word(key).values
      PROVE  Word(ListEntry(Word(key).valueList, i)).sig = "value"
  <2>1. CmpCheckValueList(Word(key).valueList, Word(key).values)
    BY <1>1, <1>2
  <2> QED BY <2>1 DEF CmpCheckValueList
<1>5. key # HCELL_NIL
  BY <1>1 DEF HvIsCellAllocated, HCELL_NIL
<1>6. Word(key).count > 0 => Index(Word(key).list, Word(key).count)
  BY DEF CmpCheckKey
<1> QED BY <1>1, <1>3, <1>4, <1>5, <1>6 DEF Checked

LEMMA CheckedIsNoNil == ASSUME NEW key, Checked(key) PROVE key # HCELL_NIL
BY DEF Checked, HvIsCellAllocated, HCELL_NIL

LEMMA InitInv == Init => HiveInv
BY DEF Init, HiveInv, TypeInv, KeyInv, InUse, Looking

\* A refused image leaves nothing to keep.
LEMMA RefuseKeepsInv ==
    ASSUME TypeInv, Refuse PROVE HiveInv'
BY DEF Refuse, HiveInv, TypeInv, KeyInv, InUse, Looking

LEMMA FirstStepsKeepInv ==
    ASSUME HiveInv, HvInitializeHive \/ HvpBuildMap PROVE HiveInv'
<1>1. CASE Refuse
  BY <1>1, RefuseKeepsInv DEF HiveInv
<1>2. CASE HvInitializeHive /\ ~Refuse
  <2>1. phase' = "HvpBuildMap" /\ checked' = {} /\ UNCHANGED <<files, current>>
    BY <1>2 DEF HvInitializeHive
  <2> QED BY <2>1 DEF HiveInv, TypeInv, KeyInv, InUse, Looking
<1>3. CASE HvpBuildMap /\ ~Refuse
  <2>1. /\ phase' \in {"HvpBuildMap", "HvCheckHive", "through NULL"}
        /\ checked = {} /\ UNCHANGED <<files, current, checked>>
    BY <1>3 DEF HvpBuildMap, HiveInv, KeyInv
  <2> QED BY <2>1 DEF HiveInv, TypeInv, KeyInv, InUse, Looking
<1> QED BY <1>1, <1>2, <1>3

LEMMA CheckHiveKeepsInv == ASSUME HiveInv, HvCheckHive PROVE HiveInv'
<1>1. CASE Refuse
  BY <1>1, RefuseKeepsInv DEF HiveInv
<1>2. CASE ~Refuse
  <2>1. checked = {} /\ UNCHANGED <<files, current, checked>>
    BY <1>2 DEF HvCheckHive, HiveInv, KeyInv
  <2>2. \/ phase' \in {"HvCheckHive", "HvCheckBin"}
        \/ phase' = "NewKey" /\ walk' = [NoWalk EXCEPT !.cell = Base.RootCell]
    BY <1>2 DEF HvCheckHive
  <2>3. CASE phase' \in {"HvCheckHive", "HvCheckBin"}
    BY <2>1, <2>3 DEF HiveInv, TypeInv, KeyInv, InUse, Looking
  <2>4. CASE phase' = "NewKey" /\ walk' = [NoWalk EXCEPT !.cell = Base.RootCell]
    <3>1. Start0(Image', walk')
      BY <2>1, <2>4 DEF NoWalk, Start0, Image, Base
    <3>2. Reached(Image', {})
      BY DEF Reached
    <3> QED BY <2>1, <2>4, <3>1, <3>2 DEF HiveInv, TypeInv, KeyInv, InUse, Looking
  <2> QED BY <2>2, <2>3, <2>4
<1> QED BY <1>1, <1>2

LEMMA CheckBinKeepsInv == ASSUME HiveInv, HvCheckBin PROVE HiveInv'
<1>1. CASE Refuse
  BY <1>1, RefuseKeepsInv DEF HiveInv
<1>2. CASE ~Refuse
  <2>1. /\ checked = {} /\ UNCHANGED <<files, current, checked>>
        /\ phase' \in {"HvCheckHive", "HvCheckBin"}
    BY <1>2 DEF HvCheckBin, HiveInv, KeyInv
  <2> QED BY <2>1 DEF HiveInv, TypeInv, KeyInv, InUse, Looking
<1> QED BY <1>1, <1>2

WalkTyped == walk = [cell |-> walk.cell, parent |-> walk.parent, index |-> walk.index]

LEMMA WalkStaysTyped == ASSUME WalkTyped, LoadAndInit PROVE WalkTyped'
<1>1. CASE UNCHANGED walk
  BY <1>1 DEF WalkTyped
<1>2. CASE walk' = NoWalk
  BY <1>2 DEF NoWalk, WalkTyped
<1>3. CASE walk' = [NoWalk EXCEPT !.cell = Base.RootCell]
  BY <1>3 DEF NoWalk, WalkTyped
<1>4. CASE walk' = [walk EXCEPT !.index = 0]
  BY <1>4 DEF WalkTyped
<1>5. CASE Descend
  BY <1>5 DEF Descend, WalkTyped
<1>6. CASE ResumeKey
  BY <1>6 DEF ResumeKey, Resumed, WalkTyped
<1>7. HvInitializeHive => walk' = NoWalk
  BY DEF HvInitializeHive
<1>8. HvpBuildMap => UNCHANGED walk
  BY DEF HvpBuildMap
<1>9. HvCheckHive => UNCHANGED walk \/ walk' = [NoWalk EXCEPT !.cell = Base.RootCell]
  BY DEF HvCheckHive
<1>12. HvCheckBin => UNCHANGED walk
  BY DEF HvCheckBin
<1>10. NewKey => UNCHANGED walk \/ walk' = [walk EXCEPT !.index = 0]
  BY DEF NewKey
<1>11. Accept => UNCHANGED walk
  BY DEF Accept
<1> QED
  BY <1>1, <1>2, <1>3, <1>4, <1>5, <1>6, <1>7, <1>8, <1>9, <1>10, <1>11, <1>12
     DEF LoadAndInit

\* A key that has passed is come to, at its first subkey: the walk starts over
\* when it is the root.
LEMMA Arrives ==
    ASSUME NEW image, NEW W, NEW keys, NEW w, Count(image, w.cell) \in Nat,
           \/ Start0(image, w) /\ keys = {}
           \/ /\ w.parent \in keys => Parent(image, w.cell) = w.parent
              /\ \E V \in SUBSET keys, n \in Nat \ {0} :
                    \E path \in [1 .. n -> V] : Coming(image, W, V, n, path, w),
           NEW w2, w2.cell = w.cell, w2.parent = w.parent, w2.index = 0
    PROVE  \E V \in SUBSET (keys \cup {w.cell}), n \in Nat \ {0} :
              \E path \in [1 .. n -> V] :
                 AtKey(image, Kept(W, w.cell, w.index), V, n, path, w2)
<1> DEFINE W2 == Kept(W, w.cell, w.index)
<1>1. \A V, key : CameBefore(image, V, key, 0)
  BY DEF CameBefore
<1>2. CASE w.cell = image.base.RootCell
  <2> DEFINE path == [i \in 1 .. 1 |-> w.cell]
  <2>1. Walked(image, W2, {w.cell}, 1, path)
    BY <1>2, AtRoot
  <2>2. path[1] = w.cell /\ path \in [1 .. 1 -> {w.cell}]
    OBVIOUS
  <2> HIDE DEF path
  <2>3. AtKey(image, W2, {w.cell}, 1, path, w2)
    BY <1>1, <2>1, <2>2 DEF AtKey
  <2>4. {w.cell} \in SUBSET (keys \cup {w.cell}) /\ 1 \in Nat \ {0}
    OBVIOUS
  <2> QED BY <2>2, <2>3, <2>4
<1>3. CASE w.cell # image.base.RootCell
  <2>1. PICK V \in SUBSET keys, n \in Nat \ {0} :
           \E path \in [1 .. n -> V] : Coming(image, W, V, n, path, w)
    BY <1>3 DEF Start0
  <2>2. PICK path \in [1 .. n -> V] : Coming(image, W, V, n, path, w)
    BY <2>1
  <2>3. w.parent \in V
    BY <2>2, n \in 1 .. n DEF Coming
  <2>4. Parent(image, w.cell) = w.parent
    BY <1>3, <2>3 DEF Start0
  <2>5. PICK m, longer : /\ Walked(image, W2, And(V, w.cell), m, longer)
                         /\ longer[m] = w.cell /\ longer[m - 1] = w.parent
    BY ONLY <1>3, <2>2, <2>4, Lengthened
  <2> DEFINE U == And(V, w.cell)
  <2>6. m \in Nat \ {0} /\ longer \in [1 .. m -> U]
    BY <2>5 DEF Walked
  <2>7. AtKey(image, W2, U, m, longer, w2)
    BY <1>1, <2>5 DEF AtKey
  <2>8. U \in SUBSET (keys \cup {w.cell})
    BY DEF And
  <2> HIDE DEF U
  <2> QED BY <2>6, <2>7, <2>8
<1> QED BY <1>2, <1>3

LEMMA NewKeyKeepsInv == ASSUME HiveInv, WalkTyped, NewKey PROVE HiveInv'
<1>1. CASE Refuse
  BY <1>1, RefuseKeepsInv DEF HiveInv
<1>2. CASE ~Refuse
  <2> DEFINE c == walk.cell
             w2 == [walk EXCEPT !.index = 0]
             W2 == Kept(WorkVar, c, walk.index)
  <2>1. /\ phase = "NewKey" /\ CmpCheckKey(c, walk.parent)
        /\ WorkVar' = W2 /\ checked' = checked \cup {c} /\ walk' = w2
        /\ phase' = "Children" /\ UNCHANGED <<files, current, map>>
    BY <1>2 DEF NewKey, Keep, Kept
  <2>2. TypeInv /\ TypeInv' /\ Image' = Image
    BY <2>1 DEF HiveInv, TypeInv, Image
  <2>3. /\ Checked(c)
        /\ walk.parent # HCELL_NIL => Parent(Image, c) = walk.parent
    BY <2>1, <2>2, PassedIsChecked, SubOf DEF Parent
  <2>4. \A key \in checked : Checked(key)
    BY <2>1 DEF HiveInv, KeyInv, InUse, Looking
  <2>5. \A key \in checked' : Checked(key)'
    BY <2>1, <2>3, <2>4, CheckedStays
  <2>6. /\ Reached(Image, checked)
        /\ \/ Start0(Image, walk) /\ checked = {}
           \/ \E V \in SUBSET checked, n \in Nat \ {0} :
                 \E path \in [1 .. n -> V] : Coming(Image, WorkVar, V, n, path, walk)
    BY <2>1 DEF HiveInv, KeyInv, InUse, Looking
  <2>7. Count(Image, c) \in Nat
    BY <2>2, CountsAreNaturals
  <2>8. w2.cell = walk.cell /\ w2.parent = walk.parent /\ w2.index = 0
    BY DEF WalkTyped
  <2>9. walk.parent \in checked => Parent(Image, c) = walk.parent
    BY <2>3, <2>4, CheckedIsNoNil
  <2> HIDE DEF w2
  <2>10. \E V \in SUBSET (checked \cup {c}), n \in Nat \ {0} :
            \E path \in [1 .. n -> V] : AtKey(Image, W2, V, n, path, w2)
    BY <2>6, <2>7, <2>8, <2>9, Arrives
  <2>11. Reached(Image, checked \cup {c})
    <3>1. CASE Start0(Image, walk) /\ checked = {}
      BY <3>1 DEF Start0, Reached, Closed
    <3>2. CASE \E V \in SUBSET checked, n \in Nat \ {0} :
                  \E path \in [1 .. n -> V] : Coming(Image, WorkVar, V, n, path, walk)
      <4>1. PICK V \in SUBSET checked, n \in Nat \ {0} :
               \E path \in [1 .. n -> V] : Coming(Image, WorkVar, V, n, path, walk)
        BY <3>2
      <4>2. PICK path \in [1 .. n -> V] : Coming(Image, WorkVar, V, n, path, walk)
        BY <4>1
      <4>3. /\ path[n] \in checked /\ walk.index \in 0 .. Count(Image, path[n]) - 1
            /\ c = Sub(Image, path[n], walk.index)
        BY <4>2, n \in 1 .. n DEF Coming
      <4> HIDE DEF c
      <4> QED BY <2>6, <4>3, ReachesSub
    <3> QED BY <2>6, <3>1, <3>2
  <2> HIDE DEF c, W2
  <2> QED BY <2>1, <2>2, <2>5, <2>10, <2>11 DEF HiveInv, KeyInv, InUse, Looking
<1> QED BY <1>1, <1>2

\* The walk goes on to a subkey, back to the key it came from, or to its end.
LEMMA AtSomeKey ==
    ASSUME HiveInv, phase = "Children"
    PROVE  /\ TypeInv /\ Reached(Image, checked) /\ \A key \in checked : Checked(key)
           /\ \E V \in SUBSET checked, n \in Nat \ {0} :
                 \E path \in [1 .. n -> V] : AtKey(Image, WorkVar, V, n, path, walk)
BY DEF HiveInv, KeyInv, InUse, Looking

LEMMA DescendKeepsInv == ASSUME HiveInv, Descend PROVE HiveInv'
<1> DEFINE w2 == [cell |-> CmpFindSubKeyByNumber(walk.cell, walk.index),
                  parent |-> walk.cell, index |-> walk.index]
<1>1. /\ phase = "Children" /\ walk.index < Word(walk.cell).count
      /\ walk' = w2 /\ phase' = "NewKey"
      /\ UNCHANGED <<files, current, map, WorkVar, checked>>
  BY DEF Descend, Keep
<1>2. TypeInv' /\ Image' = Image /\ \A key \in checked' : Checked(key)'
  BY <1>1, AtSomeKey, CheckedStays DEF TypeInv, Image
<1>3. PICK V \in SUBSET checked, n \in Nat \ {0} :
         \E path \in [1 .. n -> V] : AtKey(Image, WorkVar, V, n, path, walk)
  BY <1>1, AtSomeKey
<1>4. PICK path \in [1 .. n -> V] : AtKey(Image, WorkVar, V, n, path, walk)
  BY <1>3
<1>5. /\ w2.parent = walk.cell /\ w2.index = walk.index
      /\ w2.cell = Sub(Image, walk.cell, walk.index)
      /\ walk.index < Count(Image, walk.cell)
  BY <1>1, SubOf DEF Count
<1>6. Count(Image, walk.cell) \in Nat
  BY <1>1, AtSomeKey, CountsAreNaturals
<1> HIDE DEF w2
<1>7. Coming(Image, WorkVar, V, n, path, w2)
  BY <1>4, <1>5, <1>6 DEF AtKey, Coming
<1> QED BY <1>1, <1>2, <1>3, <1>4, <1>7, AtSomeKey DEF HiveInv, KeyInv, InUse, Looking

LEMMA ResumeKeepsInv == ASSUME HiveInv, ResumeKey PROVE HiveInv'
<1> DEFINE w2 == Resumed(walk)
<1>1. /\ phase = "Children" /\ walk.index >= Word(walk.cell).count
      /\ walk.cell # Base.RootCell
      /\ walk' = w2 /\ phase' = "Children"
      /\ UNCHANGED <<files, current, map, WorkVar, checked>>
  BY DEF ResumeKey, Keep
<1>2. TypeInv' /\ Image' = Image /\ \A key \in checked' : Checked(key)'
  BY <1>1, AtSomeKey, CheckedStays DEF TypeInv, Image
<1>3. PICK V \in SUBSET checked, n \in Nat \ {0} :
         \E path \in [1 .. n -> V] : AtKey(Image, WorkVar, V, n, path, walk)
  BY <1>1, AtSomeKey
<1>4. PICK path \in [1 .. n -> V] : AtKey(Image, WorkVar, V, n, path, walk)
  BY <1>3
<1>5. /\ w2.cell = walk.parent /\ w2.parent = Parent(Image, walk.parent)
      /\ w2.index = WorkVar[walk.cell] + 1
      /\ walk.index >= Count(Image, walk.cell) /\ walk.cell # Image.base.RootCell
  BY <1>1, SubOf DEF Count, Parent, Resumed, Image, Base
<1>6. Count(Image, walk.cell) \in Nat /\ Count(Image, walk.parent) \in Nat
  BY <1>1, AtSomeKey, CountsAreNaturals
<1> DEFINE shorter == Shorter(path, n)
<1> HIDE DEF w2
<1>7. n - 1 \in Nat \ {0} /\ shorter \in [1 .. n - 1 -> V]
      /\ AtKey(Image, WorkVar, V, n - 1, shorter, w2)
  BY <1>4, <1>5, <1>6, Shortened
<1> HIDE DEF shorter
<1>8. \E U \in SUBSET checked, m \in Nat \ {0} :
         \E p \in [1 .. m -> U] : AtKey(Image, WorkVar, U, m, p, w2)
  BY <1>3, <1>7
<1> QED BY <1>1, <1>2, <1>8, AtSomeKey DEF HiveInv, KeyInv, InUse, Looking

LEMMA AcceptKeepsInv == ASSUME HiveInv, Accept PROVE HiveInv'
<1>1. /\ phase = "Children" /\ walk.index >= Word(walk.cell).count
      /\ walk.cell = Base.RootCell /\ phase' = "accepted"
      /\ UNCHANGED <<files, current, map, WorkVar, checked>>
  BY DEF Accept, Keep
<1>2. TypeInv' /\ Image' = Image /\ \A key \in checked' : Checked(key)'
  BY <1>1, AtSomeKey, CheckedStays DEF TypeInv, Image
<1>3. PICK V \in SUBSET checked, n \in Nat \ {0} :
         \E path \in [1 .. n -> V] : AtKey(Image, WorkVar, V, n, path, walk)
  BY <1>1, AtSomeKey
<1>4. PICK path \in [1 .. n -> V] : AtKey(Image, WorkVar, V, n, path, walk)
  BY <1>3
<1>5. walk.index >= Count(Image, walk.cell) /\ walk.cell = Image.base.RootCell
      /\ Count(Image, walk.cell) \in Nat
  BY <1>1, AtSomeKey, CountsAreNaturals, SubOf DEF Count, Image, Base
<1>6. Image.base.RootCell \in V /\ \A key \in V : Done(Image, V, key)
  BY <1>4, <1>5, AllDone
<1> QED BY <1>1, <1>2, <1>3, <1>6, AtSomeKey DEF HiveInv, KeyInv, InUse, Looking

\* Look-ups leave the hive as it is.
LEMMA UnchangedKeepsInv ==
    ASSUME HiveInv, UNCHANGED <<files, current, map, walk, WorkVar, checked>>,
           UNCHANGED phase \/ (phase \in InUse /\ phase' \in InUse)
    PROVE  HiveInv'
<1>1. Image' = Image
  BY DEF Image
<1>2. (\A key \in checked : Checked(key)) => \A key \in checked' : Checked(key)'
  BY CheckedStays
<1> QED BY <1>1, <1>2 DEF HiveInv, TypeInv, KeyInv, InUse, Looking

LEMMA LookUpStays ==
    ASSUME LookUp \/ (\E key \in checked, name \in Names : Find(key, name))
    PROVE  phase \in InUse /\ phase' \in InUse /\ KeepHive
<1>1. CASE LookUp
  BY <1>1 DEF LookUp, CmpFindSubKeyInRoot, LastLeaves, CmpFindSubKeyInLeaf, LastEntries,
       TakeLeaf, Answer, Narrow, InUse, Looking
<1>2. CASE \E key \in checked, name \in Names : Find(key, name)
  BY <1>2 DEF Find, InUse, Looking
<1> QED BY <1>1, <1>2

LEMMA NextInv == HiveInv /\ WalkTyped /\ [Next]_vars => HiveInv' /\ WalkTyped'
<1> SUFFICES ASSUME HiveInv, WalkTyped, [Next]_vars PROVE HiveInv' /\ WalkTyped'
  OBVIOUS
<1>1. CASE LoadAndInit
  BY <1>1, FirstStepsKeepInv, CheckHiveKeepsInv, CheckBinKeepsInv, NewKeyKeepsInv,
     DescendKeepsInv, ResumeKeepsInv, AcceptKeepsInv, WalkStaysTyped DEF LoadAndInit
<1>2. CASE LookUp \/ (\E key \in checked, name \in Names : Find(key, name))
  BY <1>2, LookUpStays, UnchangedKeepsInv DEF KeepHive, WalkTyped
<1>3. CASE UNCHANGED vars
  <2>1. UNCHANGED <<files, current, phase, map, walk, WorkVar, checked>>
    BY <1>3 DEF vars
  <2> QED BY <2>1, UnchangedKeepsInv DEF WalkTyped
<1> QED BY <1>1, <1>2, <1>3 DEF Next

\* What the walk keeps is enough.
LEMMA AllChecked == HiveInv => AllKeysChecked
<1> SUFFICES ASSUME HiveInv, phase \in InUse PROVE AllKeysChecked
  BY DEF AllKeysChecked
<1>1. /\ TypeInv /\ Reached(Image, checked) /\ \A key \in checked : Checked(key)
      /\ \E V \in SUBSET checked :
            Image.base.RootCell \in V /\ \A key \in V : Done(Image, V, key)
  BY DEF HiveInv, KeyInv, InUse, Looking
<1>2. Base.RootCell \in checked /\ \A key \in checked : Done(Image, checked, key)
  BY <1>1, DoneHasAll DEF Image, Base
<1>3. ASSUME NEW key \in checked, NEW sub \in Subkeys(key)
      PROVE  sub \in checked /\ Word(sub).parent = key
  <2>1. PICK i \in 0 .. Count(Image, key) - 1 : sub = Sub(Image, key, i)
    BY <1>3, SubOf DEF Subkeys, Count
  <2>2. Came(Image, checked, key, i)
    BY <1>2 DEF Done, CameBefore
  <2> QED BY <2>1, <2>2, SubOf DEF Came, Parent
<1> QED BY <1>1, <1>2, <1>3 DEF AllKeysChecked, Checked

\* In a hive that CmpCheckRegistry2 accepts, whatever the image, all that the
\* look-ups can reach was checked: the walk, which has only the Parent fields and
\* WorkVar to find its way back by, has left out no subkey of any key.
THEOREM NoKeyLeftOut == Spec => []AllKeysChecked
<1>1. Init => HiveInv /\ WalkTyped
  BY InitInv DEF Init, NoWalk, WalkTyped
<1> QED BY <1>1, AllChecked, NextInv, PTL DEF Spec

-----------------------------------------------------------------------------
(* An undamaged image is not refused, unless there is no memory for its     *)
(* map; and what is in use has a good base block.                           *)

LEMMA Division ==
    ASSUME NEW x \in Nat
    PROVE  /\ x \div HBLOCK_SIZE \in Nat /\ x % HBLOCK_SIZE \in 0 .. HBLOCK_SIZE - 1
           /\ x = HBLOCK_SIZE * (x \div HBLOCK_SIZE) + (x % HBLOCK_SIZE)
BY ImageAssumption, SMTT(20)

LEMMA BlocksApart ==
    ASSUME NEW p \in Nat, NEW q \in Nat, p < q
    PROVE  HBLOCK_SIZE * p + HBLOCK_SIZE <= HBLOCK_SIZE * q
BY ImageAssumption, SMTT(20)

LEMMA WholeBlocks ==
    ASSUME NEW e \in Nat, e % HBLOCK_SIZE = 0
    PROVE  e \div HBLOCK_SIZE \in Nat /\ e = HBLOCK_SIZE * (e \div HBLOCK_SIZE)
<1>1. e = HBLOCK_SIZE * (e \div HBLOCK_SIZE) + 0 /\ e \div HBLOCK_SIZE \in Nat
  BY Division
<1>2. HBLOCK_SIZE * (e \div HBLOCK_SIZE) \in Int
  BY <1>1, ImageAssumption
<1> QED BY <1>1, <1>2

\* What lies before a boundary of blocks is in the blocks before it.
LEMMA BlockBefore ==
    ASSUME NEW e \in Nat, e % HBLOCK_SIZE = 0, NEW x \in Nat
    PROVE  (x < e) <=> (x \div HBLOCK_SIZE \in 0 .. e \div HBLOCK_SIZE - 1)
<1> DEFINE p == x \div HBLOCK_SIZE
           q == e \div HBLOCK_SIZE
           r == x % HBLOCK_SIZE
<1>1. /\ p \in Nat /\ r \in 0 .. HBLOCK_SIZE - 1 /\ x = HBLOCK_SIZE * p + r
      /\ q \in Nat /\ e = HBLOCK_SIZE * q
  BY Division, WholeBlocks
<1>2. HBLOCK_SIZE \in Nat \ {0}
  BY ImageAssumption
<1> HIDE DEF p, q, r
<1> DEFINE u == HBLOCK_SIZE * p
           v == HBLOCK_SIZE * q
<1>3. u \in Int /\ v \in Int
  BY <1>1, <1>2
<1>4. p < q => u + HBLOCK_SIZE <= v
  BY <1>1, BlocksApart
<1>5. q <= p => v <= u
  BY <1>1, <1>2, BlocksApart
<1> HIDE DEF u, v
<1>6. x = u + r /\ e = v
  BY <1>1 DEF u, v
<1>7. (x < e) <=> (p < q)
  BY <1>1, <1>2, <1>3, <1>4, <1>5, <1>6
<1> QED BY <1>1, <1>7 DEF p, q

\* The blocks of a bin of whole blocks are its size.
LEMMA BlocksOfWhole ==
    ASSUME NEW e \in Nat, e % HBLOCK_SIZE = 0
    PROVE  Blocks(e) * HBLOCK_SIZE = e
<1> DEFINE q == e \div HBLOCK_SIZE
           p == (e + HBLOCK_SIZE - 1) \div HBLOCK_SIZE
           r == (e + HBLOCK_SIZE - 1) % HBLOCK_SIZE
<1>1. q \in Nat /\ e = HBLOCK_SIZE * q /\ HBLOCK_SIZE \in Nat \ {0}
  BY WholeBlocks, ImageAssumption
<1>2. /\ p \in Nat /\ r \in 0 .. HBLOCK_SIZE - 1
      /\ e + HBLOCK_SIZE - 1 = HBLOCK_SIZE * p + r
  BY <1>1, e + HBLOCK_SIZE - 1 \in Nat, Division
<1>3. Blocks(e) = p
  BY DEF Blocks
<1> HIDE DEF p, q, r
<1>4. p = q
  <2> DEFINE u == HBLOCK_SIZE * p
             v == HBLOCK_SIZE * q
  <2>1. u \in Int /\ v \in Int
    BY <1>1, <1>2
  <2>2. (p < q => u + HBLOCK_SIZE <= v) /\ (q < p => v + HBLOCK_SIZE <= u)
    BY <1>1, <1>2, BlocksApart
  <2> HIDE DEF u, v
  <2>3. v + HBLOCK_SIZE - 1 = u + r
    BY <1>1, <1>2 DEF u, v
  <2> QED BY <1>1, <1>2, <2>1, <2>2, <2>3
<1> QED BY <1>1, <1>3, <1>4

\* Address x lies in bin b.
Holds(b, x) == b \in SoundBins /\ b <= x /\ x < SoundEnd(b)

\* The map leads every address below n to its bin.
Mapped(m, n) == \A x \in 0 .. n - 1 : Holds(m[x \div HBLOCK_SIZE], x)

LEMMA BinFacts ==
    ASSUME NEW b \in SoundBins
    PROVE  /\ b \in Nat /\ b % HBLOCK_SIZE = 0 /\ b < SoundBase.Length
           /\ SoundWord(b).size \in Nat \ {0} /\ SoundWord(b).size % HBLOCK_SIZE = 0
           /\ SoundWord(b).size <= SoundBase.Length
           /\ SoundEnd(b) = b + SoundWord(b).size /\ SoundEnd(b) \in Nat
           /\ SoundEnd(b) % HBLOCK_SIZE = 0 /\ SoundEnd(b) <= SoundBase.Length
           /\ SoundEnd(b) \in SoundBins \cup {SoundBase.Length}
<1>1. SoundBin(b) /\ SoundBase.Length \in Nat /\ SoundBase.Length % HBLOCK_SIZE = 0
  BY SoundAssumption
<1>2. /\ b \in Nat /\ b % HBLOCK_SIZE = 0 /\ b < SoundBase.Length
      /\ SoundWord(b).size \in Nat \ {0} /\ SoundWord(b).size % HBLOCK_SIZE = 0
      /\ SoundEnd(b) \in SoundBins \cup {SoundBase.Length}
  BY <1>1 DEF SoundBin
<1>3. SoundEnd(b) \in Nat /\ SoundEnd(b) = b + SoundWord(b).size
  BY <1>2 DEF SoundEnd
<1>4. SoundEnd(b) <= SoundBase.Length /\ SoundEnd(b) % HBLOCK_SIZE = 0
  <2>1. CASE SoundEnd(b) \in SoundBins
    <3>1. SoundBin(SoundEnd(b))
      BY <2>1, SoundAssumption
    <3> QED BY <1>1, <1>3, <3>1 DEF SoundBin
  <2>2. CASE SoundEnd(b) = SoundBase.Length
    BY <1>1, <2>2
  <2> QED BY <1>2, <2>1, <2>2
<1> QED BY <1>1, <1>2, <1>3, <1>4

LEMMA OneBin == ASSUME NEW a, NEW b, NEW x \in Nat, Holds(a, x), Holds(b, x) PROVE a = b
<1>1. a \in SoundBins /\ b \in SoundBins /\ a <= x /\ b <= x /\ x < SoundEnd(a) /\ x < SoundEnd(b)
  BY DEF Holds
<1>2. a \in Nat /\ b \in Nat /\ SoundEnd(a) \in Nat /\ SoundEnd(b) \in Nat
  BY <1>1, BinFacts
<1>3. (a < b => SoundEnd(a) <= b) /\ (b < a => SoundEnd(b) <= a)
  BY <1>1, SoundAssumption DEF SoundBin
<1> QED BY <1>1, <1>2, <1>3

LEMMA MapGrows ==
    ASSUME NEW m, NEW b \in SoundBins, Mapped(m, b),
           DOMAIN m = 0 .. b \div HBLOCK_SIZE - 1,
           NEW m2, m2 = [k \in 0 .. SoundEnd(b) \div HBLOCK_SIZE - 1 |->
                            IF k \in DOMAIN m THEN m[k] ELSE b]
    PROVE  Mapped(m2, SoundEnd(b))
<1>1. b \in Nat /\ b % HBLOCK_SIZE = 0 /\ SoundEnd(b) \in Nat /\ SoundEnd(b) % HBLOCK_SIZE = 0
  BY BinFacts
<1> SUFFICES ASSUME NEW x \in 0 .. SoundEnd(b) - 1
             PROVE  Holds(m2[x \div HBLOCK_SIZE], x)
  BY DEF Mapped
<1>2. x \in Nat /\ x < SoundEnd(b)
  BY <1>1
<1>3. x \div HBLOCK_SIZE \in 0 .. SoundEnd(b) \div HBLOCK_SIZE - 1
  BY <1>1, <1>2, BlockBefore
<1>4. (x < b) <=> (x \div HBLOCK_SIZE \in DOMAIN m)
  BY <1>1, <1>2, BlockBefore
<1> DEFINE k == x \div HBLOCK_SIZE
<1> HIDE DEF k
<1>5. m2[k] = IF x < b THEN m[k] ELSE b
  BY <1>3, <1>4 DEF k
<1>6. CASE x < b
  BY <1>1, <1>2, <1>5, <1>6 DEF Mapped, k
<1>7. CASE ~(x < b)
  BY <1>1, <1>2, <1>5, <1>7 DEF Holds, k
<1> QED BY <1>6, <1>7

AtTyped == at = [bin |-> at.bin, offset |-> at.offset]

LEMMA AtStaysTyped == ASSUME AtTyped, LoadAndInit PROVE AtTyped'
<1>1. CASE UNCHANGED at \/ at' = Start
  BY <1>1 DEF AtTyped, Start
<1>2. HvInitializeHive => at' = Start
  BY DEF HvInitializeHive
<1>3. CASE HvpBuildMap /\ ~(UNCHANGED at \/ at' = Start)
  <2>1. PICK end : at' = [bin |-> at.bin + Word(at.bin).size, offset |-> end]
    BY <1>3 DEF HvpBuildMap
  <2> QED BY <2>1 DEF AtTyped
<1>4. CASE HvCheckHive /\ ~UNCHANGED at
  BY <1>4 DEF HvCheckHive, AtTyped
<1>5. CASE HvCheckBin /\ ~UNCHANGED at
  BY <1>5 DEF HvCheckBin, AtTyped
<1>6. NewKey \/ Descend \/ ResumeKey \/ Accept => UNCHANGED at
  BY DEF NewKey, Descend, ResumeKey, Accept, Keep
<1> QED BY <1>1, <1>2, <1>3, <1>4, <1>5, <1>6 DEF LoadAndInit

\* The key the walk comes to is one of the sound image, and its parent the key's own.
RightParent(key, parent) ==
    /\ key \in SoundKeys /\ parent \in {HCELL_NIL, SoundWord(key).parent}
    /\ key # SoundBase.RootCell => parent = SoundWord(key).parent

\* Where the check of a sound image has got to.
SoundSteps ==
    /\ phase = "HvpBuildMap" =>
          /\ at.bin = at.offset /\ at.bin \in SoundBins \cup {SoundBase.Length}
          /\ DOMAIN map = 0 .. at.bin \div HBLOCK_SIZE - 1 /\ Mapped(map, at.bin)
    /\ phase \in {"HvCheckHive", "HvCheckBin", "NewKey", "Children"} =>
          Mapped(map, SoundBase.Length)
    /\ phase = "HvCheckHive" => at.bin \in SoundBins \cup {SoundBase.Length}
    /\ phase = "HvCheckBin" =>
          /\ at.bin \in SoundBins /\ at.bin + HBIN <= at.offset
          /\ at.offset <= SoundEnd(at.bin)
          /\ at.offset \in SoundCells \cup {SoundEnd(at.bin)}
    /\ phase \in {"NewKey", "Children"} => RightParent(walk.cell, walk.parent)

LEMMA SoundIs ==
    ASSUME Sound(Image)
    PROVE  /\ \A a : Word(a) = SoundWord(a) /\ SizeOf(a) = SoundSize(a)
           /\ Base = SoundBase /\ Length = SoundBase.Length
           /\ \A c, i : ListEntry(c, i) = EntryOf(SoundImage, c, i)
<1>1. files[current] = SoundImage
  BY DEF Sound, Image
<1>2. \A a : Word(a) = SoundWord(a)
  BY <1>1 DEF Word, SoundWord
<1>3. Base = SoundBase
  BY <1>1 DEF Base, SoundImage
<1> QED BY <1>2, <1>3 DEF SizeOf, SoundSize, Length, ListEntry, EntryOf, SoundWord

LEMMA SoundNumbers ==
    ASSUME NEW a
    PROVE  /\ SoundWord(a).word \in Int /\ SoundWord(a).count \in Nat
           /\ SoundWord(a).values \in Nat /\ SoundSize(a) \in Nat
           /\ SoundWord(a).word < 0 => SoundSize(a) = -SoundWord(a).word
<1>1. SoundWord(a) = SoundWords[IF a \in DOMAIN SoundWords THEN a ELSE HCELL_NIL]
  <2>1. DOMAIN SoundImage.changed = {}
    BY DEF SoundImage
  <2> QED BY <2>1 DEF SoundWord, WordOf
<1>2. Numbers(SoundWord(a))
  BY <1>1, WordAssumption
<1> QED BY <1>2 DEF Numbers, SoundSize

LEMMA CellFacts ==
    ASSUME NEW c \in SoundCells
    PROVE  /\ c \in Nat /\ SoundSize(c) \in Nat \ {0}
           /\ \E b \in SoundBins :
                 /\ Holds(b, c) /\ b + HBIN <= c /\ c + SoundSize(c) <= SoundEnd(b)
                 /\ c + SoundSize(c) \in SoundCells \cup {SoundEnd(b)}
<1>1. SoundCell(c) /\ c \in Nat
  BY SoundAssumption
<1>2. PICK b \in SoundBins :
         /\ b + HBIN <= c /\ c + SoundSize(c) <= SoundEnd(b) /\ SoundSize(c) # 0
         /\ c + SoundSize(c) \in SoundCells \cup {SoundEnd(b)}
  BY <1>1 DEF SoundCell
<1>3. SoundSize(c) \in Nat /\ b \in Nat /\ SoundEnd(b) \in Nat
  BY SoundNumbers, BinFacts
<1>4. b <= c /\ c < SoundEnd(b)
  BY <1>1, <1>2, <1>3 DEF HBIN
<1> QED BY <1>1, <1>2, <1>3, <1>4 DEF Holds

LEMMA TakenIsAllocated ==
    ASSUME Sound(Image), Mapped(map, SoundBase.Length), NEW c, Taken(c)
    PROVE  HvIsCellAllocated(c) /\ c # HCELL_NIL
<1>1. c \in SoundCells /\ SoundWord(c).word < 0 /\ c \in Nat
  BY CellFacts DEF Taken
<1>2. PICK b \in SoundBins :
         Holds(b, c) /\ b + HBIN <= c /\ c + SoundSize(c) <= SoundEnd(b)
  BY <1>1, CellFacts
<1>3. /\ b \in Nat /\ SoundEnd(b) = b + SoundWord(b).size /\ SoundWord(b).size \in Nat
      /\ SoundEnd(b) <= SoundBase.Length /\ SoundEnd(b) \in Nat /\ SoundBase.Length \in Nat
  BY BinFacts, SoundAssumption
<1>4. c \in 0 .. SoundBase.Length - 1
  BY <1>1, <1>2, <1>3 DEF Holds
<1>5. map[c \div HBLOCK_SIZE] = b
  BY <1>1, <1>2, <1>4, OneBin DEF Mapped
<1>6. /\ SoundWord(c).word <= 0 /\ c - b >= HBIN /\ c - b + SoundSize(c) <= SoundWord(b).size
      /\ SoundWord(c).word \in Int /\ SoundSize(c) \in Nat
  BY <1>1, <1>2, <1>3, SoundNumbers DEF HBIN
<1>7. c # HCELL_NIL
  BY <1>1 DEF HCELL_NIL
<1> QED BY <1>4, <1>5, <1>6, <1>7, SoundIs DEF HvIsCellAllocated

LEMMA SoundKeyPasses ==
    ASSUME Sound(Image), Mapped(map, SoundBase.Length), NEW key, NEW parent,
           RightParent(key, parent)
    PROVE  CmpCheckKey(key, parent)
<1>1. SoundKey(key) /\ parent \in {HCELL_NIL, SoundWord(key).parent}
  BY SoundAssumption DEF RightParent
<1>2. KeyBody(key, parent)
  BY <1>1, TakenIsAllocated, SoundIs DEF SoundKey, KeyBody
<1>3. ClassAndSecurity(key)
  BY <1>1, TakenIsAllocated, SoundIs DEF SoundKey, ClassAndSecurity
<1>4. ValueList(key)
  <2>1. ASSUME NEW v, SoundValue(v)
        PROVE  /\ v # HCELL_NIL /\ HvIsCellAllocated(v)
               /\ Word(v).sig = "value" /\ HoldsValue(v)
               /\ CASE Word(v).length = 0 -> Word(v).data = HCELL_NIL
                    [] Word(v).length = CM_KEY_VALUE_SPECIAL_SIZE -> TRUE
                    [] OTHER -> HvIsCellAllocated(Word(v).data)
    <3>1. Taken(v) /\ SoundWord(v).sig = "value" /\ ValueSize <= SoundSize(v)
      BY <2>1 DEF SoundValue
    <3>2. CASE SoundWord(v).length = 0
      BY <2>1, <3>1, <3>2, TakenIsAllocated, SoundIs
         DEF SoundValue, CM_KEY_VALUE_SPECIAL_SIZE, HoldsValue
    <3>3. CASE SoundWord(v).length = CM_KEY_VALUE_SPECIAL_SIZE
      BY <3>1, <3>3, TakenIsAllocated, SoundIs DEF CM_KEY_VALUE_SPECIAL_SIZE, HoldsValue
    <3>4. CASE SoundWord(v).length \notin {0, CM_KEY_VALUE_SPECIAL_SIZE}
      <4>1. Taken(SoundWord(v).data)
        BY <2>1, <3>4 DEF SoundValue
      <4> QED BY <3>1, <3>4, <4>1, TakenIsAllocated, SoundIs DEF HoldsValue
    <3> QED BY <3>2, <3>3, <3>4
  <2>2. ASSUME SoundWord(key).values > 0
        PROVE  /\ HvIsCellAllocated(SoundWord(key).valueList)
               /\ CmpCheckValueList(SoundWord(key).valueList, SoundWord(key).values)
    <3>1. /\ Taken(SoundWord(key).valueList)
          /\ \A i \in 1 .. SoundWord(key).values :
                SoundValue(EntryOf(SoundImage, SoundWord(key).valueList, i))
      BY <1>1, <2>2 DEF SoundKey
    <3>2. \A i \in 1 .. SoundWord(key).values :
             SoundValue(ListEntry(SoundWord(key).valueList, i))
      BY <3>1, SoundIs
    <3>3. CmpCheckValueList(SoundWord(key).valueList, SoundWord(key).values)
      BY <2>1, <3>2 DEF CmpCheckValueList
    <3> QED BY <3>1, <3>3, TakenIsAllocated
  <2> QED BY <2>2, SoundIs DEF ValueList
<1>5. Word(key).count > 0 => Index(Word(key).list, Word(key).count)
  <2> SUFFICES ASSUME SoundWord(key).count > 0
               PROVE  Index(SoundWord(key).list, SoundWord(key).count)
    BY SoundIs
  <2> DEFINE list == SoundWord(key).list
  <2>1. SoundIndex(list, SoundWord(key).count)
    BY <1>1 DEF SoundKey
  <2> HIDE DEF list
  <2>2. HvIsCellAllocated(list)
    BY <2>1, TakenIsAllocated DEF SoundIndex
  <2>3. CASE SoundWord(list).sig = "leaf" /\ SoundWord(list).count = SoundWord(key).count
    BY <2>2, <2>3, SoundIs DEF Index, list
  <2>4. CASE ~(SoundWord(list).sig = "leaf" /\ SoundWord(list).count = SoundWord(key).count)
    <3>1. /\ SoundWord(list).sig = "root"
          /\ \A i \in 1 .. SoundWord(list).count :
                /\ Taken(EntryOf(SoundImage, list, i))
                /\ SoundWord(EntryOf(SoundImage, list, i)).sig = "leaf"
          /\ SoundWord(key).count = Before(SoundImage, list)[SoundWord(list).count]
      BY <2>1, <2>4 DEF SoundIndex
    <3>2. \A i \in 1 .. SoundWord(list).count : IsLeaf(ListEntry(list, i))
      BY <3>1, TakenIsAllocated, SoundIs DEF IsLeaf
    <3>3. SoundImage = files[current]
      BY DEF Sound, Image
    <3> QED BY <2>2, <3>1, <3>2, <3>3, SoundIs DEF Index, list
  <2> QED BY <2>3, <2>4
<1> QED BY <1>2, <1>3, <1>4, <1>5 DEF CmpCheckKey

LEMMA BinOrEnd ==
    ASSUME NEW b \in SoundBins \cup {SoundBase.Length}
    PROVE  /\ b \in Nat /\ SoundBase.Length \in Nat
           /\ b >= SoundBase.Length => b = SoundBase.Length /\ ~(b < SoundBase.Length)
           /\ ~(b >= SoundBase.Length) => b \in SoundBins /\ b < SoundBase.Length
<1>1. SoundBase.Length \in Nat
  BY SoundAssumption
<1>2. b \in SoundBins => b \in Nat /\ b < SoundBase.Length
  BY BinFacts
<1> QED BY ONLY <1>1, <1>2, b \in SoundBins \cup {SoundBase.Length}

LEMMA SoundBinAt ==
    ASSUME Sound(Image), NEW b \in SoundBins PROVE BinAt(b, b)
<1>1. SoundBin(b)
  BY SoundAssumption
<1>2. SoundWord(b).size <= SoundBase.Length
  BY BinFacts
<1> QED BY <1>1, <1>2, SoundIs DEF BinAt, SoundBin

LEMMA SoundStarts ==
    ASSUME Sound(Image), HvInitializeHive
    PROVE  \/ UNCHANGED <<files, current>> /\ phase' # "refused" /\ SoundSteps'
           \/ Refuse /\ starved'
<1>1. GoodBaseBlock(Base) /\ Length % HBLOCK_SIZE = 0
  BY SoundIs, SoundAssumption
<1>2. CASE Refuse /\ starved'
  BY <1>2
<1>3. CASE ~(Refuse /\ starved')
  <2>1. /\ phase' = "HvpBuildMap" /\ UNCHANGED <<files, current>> /\ map' = <<>> /\ at' = Start
    BY <1>1, <1>3 DEF HvInitializeHive
  <2>2. 0 \in SoundBins
    BY SoundAssumption
  <2>3. DOMAIN map' = 0 .. 0 \div HBLOCK_SIZE - 1
    <3>1. \A x \in Nat : ~(x \div HBLOCK_SIZE \in 0 .. 0 \div HBLOCK_SIZE - 1)
      BY <2>2, BinFacts, BlockBefore
    <3>2. 0 \div HBLOCK_SIZE = 0
      BY ImageAssumption
    <3>3. DOMAIN map' = {}
      BY <2>1
    <3> QED BY <3>2, <3>3
  <2>4. Mapped(map', 0)
    BY DEF Mapped
  <2> QED BY <2>1, <2>2, <2>3, <2>4 DEF SoundSteps, Start
<1> QED BY <1>2, <1>3

LEMMA SoundIsMapped ==
    ASSUME Sound(Image), SoundSteps, HvpBuildMap
    PROVE  UNCHANGED <<files, current>> /\ phase' # "refused" /\ SoundSteps'
<1>1. /\ at.bin = at.offset /\ at.bin \in SoundBins \cup {SoundBase.Length}
      /\ DOMAIN map = 0 .. at.bin \div HBLOCK_SIZE - 1 /\ Mapped(map, at.bin)
  BY DEF HvpBuildMap, SoundSteps
<1>2. SoundBase.Length \in Nat /\ Length = SoundBase.Length
  BY SoundAssumption, SoundIs
<1>3. CASE at.bin >= Length
  <2>1. at.bin = SoundBase.Length /\ ~(at.bin < Length)
    BY <1>1, <1>2, <1>3, BinOrEnd
  <2>2. phase' = "HvCheckHive" /\ at' = Start /\ UNCHANGED <<files, current, map>>
    BY <1>1, <1>2, <1>3, <2>1 DEF HvpBuildMap
  <2> QED BY <1>1, <2>1, <2>2, SoundAssumption DEF SoundSteps, Start
<1>4. CASE ~(at.bin >= Length)
  <2> DEFINE b == at.bin
             m == [k \in 0 .. SoundEnd(b) \div HBLOCK_SIZE - 1 |->
                      IF k \in DOMAIN map THEN map[k] ELSE b]
  <2>1. b \in SoundBins /\ b < Length
    BY <1>1, <1>2, <1>4, BinOrEnd
  <2>2. BinAt(at.bin, at.offset)
    BY <1>1, <2>1, SoundBinAt
  <2>3. /\ at.offset + Blocks(Word(at.bin).size) * HBLOCK_SIZE = SoundEnd(b)
        /\ at.bin + Word(at.bin).size = SoundEnd(b) /\ SoundEnd(b) <= Length
        /\ SoundEnd(b) \in Nat
    BY <1>1, <1>2, <2>1, BinFacts, BlocksOfWhole, SoundIs
  <2>4. /\ map' = m /\ at' = [bin |-> SoundEnd(b), offset |-> SoundEnd(b)]
        /\ UNCHANGED <<files, current, phase>>
    <3>1. PICK end \in {at.offset + Blocks(Word(at.bin).size) * HBLOCK_SIZE} :
             /\ IF end > Length
                THEN phase' = "through NULL" /\ UNCHANGED <<map, at>>
                ELSE /\ map' = [k \in 0 .. end \div HBLOCK_SIZE - 1 |->
                                   IF k \in DOMAIN map THEN map[k] ELSE at.bin]
                     /\ at' = [bin |-> at.bin + Word(at.bin).size, offset |-> end]
                     /\ UNCHANGED phase
             /\ UNCHANGED <<files, current>>
      BY <1>4, <2>2 DEF HvpBuildMap
    <3>2. end = SoundEnd(b) /\ ~(end > Length)
      BY <1>2, <2>3
    <3> QED BY <2>3, <3>1, <3>2
  <2>5. Mapped(m, SoundEnd(b)) /\ DOMAIN m = 0 .. SoundEnd(b) \div HBLOCK_SIZE - 1
    BY <1>1, <2>1, MapGrows
  <2>6. SoundEnd(b) \in SoundBins \cup {SoundBase.Length}
    BY <2>1, BinFacts
  <2>7. phase = "HvpBuildMap"
    BY DEF HvpBuildMap
  <2> HIDE DEF b, m
  <2> QED BY <2>4, <2>5, <2>6, <2>7 DEF SoundSteps
<1> QED BY <1>3, <1>4

LEMMA SoundBinChecked ==
    ASSUME Sound(Image), Mapped(map, SoundBase.Length), at.bin \in SoundBins
    PROVE  BinChecked = at.bin /\ EndOfBin = SoundEnd(at.bin)
<1>1. /\ at.bin \in Nat /\ at.bin < SoundBase.Length /\ SoundBase.Length \in Nat
      /\ SoundEnd(at.bin) = at.bin + SoundWord(at.bin).size
      /\ SoundWord(at.bin).size \in Nat \ {0}
  BY BinFacts, SoundAssumption
<1>2. Holds(at.bin, at.bin)
  BY <1>1 DEF Holds
<1>3. Holds(map[at.bin \div HBLOCK_SIZE], at.bin)
  BY <1>1 DEF Mapped
<1>4. BinChecked = at.bin
  BY <1>1, <1>2, <1>3, OneBin DEF BinChecked
<1> QED BY <1>1, <1>4, SoundIs DEF EndOfBin

LEMMA SoundBinsPass ==
    ASSUME Sound(Image), SoundSteps, AtTyped, HvCheckHive
    PROVE  UNCHANGED <<files, current>> /\ phase' # "refused" /\ SoundSteps'
<1>1. Mapped(map, SoundBase.Length) /\ at.bin \in SoundBins \cup {SoundBase.Length}
  BY DEF HvCheckHive, SoundSteps
<1>2. SoundBase.Length \in Nat /\ Length = SoundBase.Length /\ Base = SoundBase
  BY SoundAssumption, SoundIs
<1>3. UNCHANGED map /\ phase = "HvCheckHive"
  BY DEF HvCheckHive
<1>4. CASE at.bin >= Length
  <2>1. ~(at.bin < Length)
    BY <1>1, <1>2, <1>4, BinOrEnd
  <2>2. /\ phase' = "NewKey" /\ UNCHANGED <<files, current>>
        /\ walk' = [NoWalk EXCEPT !.cell = SoundBase.RootCell]
    BY <1>2, <2>1 DEF HvCheckHive
  <2>3. walk'.cell = SoundBase.RootCell /\ walk'.parent = HCELL_NIL
    BY <2>2 DEF NoWalk
  <2>4. RightParent(walk'.cell, walk'.parent)
    BY <2>3, SoundAssumption DEF RightParent
  <2> QED BY <1>1, <1>3, <2>2, <2>4 DEF SoundSteps
<1>5. CASE ~(at.bin >= Length)
  <2>1. at.bin \in SoundBins /\ at.bin < Length
    BY <1>1, <1>2, <1>5, BinOrEnd
  <2>2. BinChecked = at.bin
    BY <1>1, <2>1, SoundBinChecked
  <2>3. BinAt(BinChecked, at.bin)
    BY <2>1, <2>2, SoundBinAt
  <2>4. /\ phase' = "HvCheckBin" /\ at' = [at EXCEPT !.offset = at.bin + HBIN]
        /\ UNCHANGED <<files, current>>
    BY <1>5, <2>1, <2>2, <2>3 DEF HvCheckHive
  <2>5. at' = [bin |-> at.bin, offset |-> at.bin + HBIN]
    BY <2>4 DEF AtTyped
  <2>6. at.bin + HBIN \in SoundCells /\ at.bin + HBIN <= SoundEnd(at.bin)
        /\ at.bin + HBIN <= at.bin + HBIN
    <3>1. at.bin \in Nat /\ SoundEnd(at.bin) = at.bin + SoundWord(at.bin).size
          /\ SoundWord(at.bin).size \in Nat \ {0}
      BY <2>1, BinFacts
    <3> QED BY <2>1, <3>1, SoundAssumption DEF HBIN
  <2> QED BY <1>1, <1>3, <2>1, <2>4, <2>5, <2>6 DEF SoundSteps
<1> QED BY <1>4, <1>5

LEMMA SoundCellsPass ==
    ASSUME Sound(Image), SoundSteps, AtTyped, HvCheckBin
    PROVE  UNCHANGED <<files, current>> /\ phase' # "refused" /\ SoundSteps'
<1> DEFINE b == at.bin
           c == at.offset
<1>1. /\ Mapped(map, SoundBase.Length) /\ b \in SoundBins /\ b + HBIN <= c /\ c <= SoundEnd(b)
      /\ c \in SoundCells \cup {SoundEnd(b)}
  BY DEF HvCheckBin, SoundSteps
<1>2. BinChecked = b /\ EndOfBin = SoundEnd(b)
  BY <1>1, SoundBinChecked
<1>3. /\ b \in Nat /\ SoundEnd(b) = b + SoundWord(b).size /\ SoundWord(b).size \in Nat
      /\ SoundEnd(b) \in Nat /\ SoundEnd(b) \in SoundBins \cup {SoundBase.Length}
  BY <1>1, BinFacts
<1>4. c \in Nat
  BY <1>1, <1>3, CellFacts
<1>5. UNCHANGED map /\ phase = "HvCheckBin"
  BY DEF HvCheckBin
<1>6. CASE c = SoundEnd(b)
  <2>1. c = EndOfBin /\ ~(c < EndOfBin) /\ ~(c > EndOfBin)
    BY <1>2, <1>3, <1>6
  <2>2. /\ phase' = "HvCheckHive" /\ UNCHANGED <<files, current>>
        /\ at' = [at EXCEPT !.bin = @ + Word(BinChecked).size]
    BY <2>1 DEF HvCheckBin
  <2>3. at'.bin = SoundEnd(b)
    <3>1. Word(BinChecked).size = SoundWord(b).size
      BY <1>2, SoundIs
    <3> QED BY <1>3, <2>2, <3>1 DEF AtTyped
  <2> QED BY <1>1, <1>3, <1>5, <2>2, <2>3 DEF SoundSteps
<1>7. CASE c # SoundEnd(b)
  <2>1. c \in SoundCells /\ c < SoundEnd(b) /\ b <= c
    BY <1>1, <1>3, <1>4, <1>7 DEF HBIN
  <2>2. PICK a \in SoundBins :
           /\ Holds(a, c) /\ c + SoundSize(c) <= SoundEnd(a)
           /\ c + SoundSize(c) \in SoundCells \cup {SoundEnd(a)}
    BY <2>1, CellFacts
  <2>3. a = b
    BY <1>1, <1>4, <2>1, <2>2, OneBin DEF Holds
  <2>4. SoundSize(c) \in Nat \ {0} /\ SizeOf(c) = SoundSize(c)
    BY <2>1, CellFacts, SoundIs
  <2>5. c < EndOfBin /\ SizeOf(c) # 0 /\ c + SizeOf(c) <= EndOfBin
    BY <1>2, <2>1, <2>2, <2>3, <2>4
  <2>6. /\ ~(c = EndOfBin) /\ ~(c > EndOfBin) /\ ~(c + SizeOf(c) > EndOfBin)
    BY <1>2, <1>3, <1>4, <2>4, <2>5
  <2>7. /\ at' = [at EXCEPT !.offset = @ + SizeOf(at.offset)]
        /\ UNCHANGED <<files, current, phase>>
    BY <2>5, <2>6 DEF HvCheckBin
  <2>8. at' = [bin |-> b, offset |-> c + SoundSize(c)]
    BY <2>4, <2>7 DEF AtTyped
  <2>9. b + HBIN <= c + SoundSize(c)
    BY <1>1, <1>3, <1>4, <2>4 DEF HBIN
  <2>10. /\ c + SoundSize(c) <= SoundEnd(b)
         /\ c + SoundSize(c) \in SoundCells \cup {SoundEnd(b)}
    BY <2>2, <2>3
  <2> HIDE DEF b, c
  <2> QED BY <1>1, <1>5, <2>7, <2>8, <2>9, <2>10 DEF SoundSteps
<1> QED BY <1>6, <1>7

LEMMA SoundKeysPass ==
    ASSUME Sound(Image), SoundSteps, WalkTyped, NewKey
    PROVE  UNCHANGED <<files, current>> /\ phase' # "refused" /\ SoundSteps'
<1>1. Mapped(map, SoundBase.Length) /\ RightParent(walk.cell, walk.parent)
  BY DEF NewKey, SoundSteps
<1>2. CmpCheckKey(walk.cell, walk.parent)
  BY <1>1, SoundKeyPasses
<1>3. /\ walk' = [walk EXCEPT !.index = 0] /\ phase' = "Children"
      /\ UNCHANGED <<files, current, map>>
  BY <1>2 DEF NewKey, Keep
<1>4. walk'.cell = walk.cell /\ walk'.parent = walk.parent
  BY <1>3 DEF WalkTyped
<1> QED BY <1>1, <1>3, <1>4 DEF SoundSteps

LEMMA SoundWalkGoesOn ==
    ASSUME HiveInv, Sound(Image), SoundSteps, Descend \/ ResumeKey \/ Accept
    PROVE  UNCHANGED <<files, current>> /\ phase' # "refused" /\ SoundSteps'
<1>1. /\ phase = "Children" /\ Mapped(map, SoundBase.Length)
      /\ RightParent(walk.cell, walk.parent) /\ UNCHANGED <<files, current, map>>
  BY DEF Descend, ResumeKey, Accept, Keep, SoundSteps
<1>2. SoundKey(walk.cell)
  BY <1>1, SoundAssumption DEF RightParent
<1>3. CASE Descend
  <2>1. /\ walk.index < SoundWord(walk.cell).count /\ phase' = "NewKey"
        /\ walk' = [cell |-> CmpFindSubKeyByNumber(walk.cell, walk.index),
                    parent |-> walk.cell, index |-> walk.index]
    BY <1>3, SoundIs DEF Descend
  <2>2. walk.index \in 0 .. SoundWord(walk.cell).count - 1
    <3>1. PICK V \in SUBSET checked, n \in Nat \ {0} :
             \E path \in [1 .. n -> V] : AtKey(Image, WorkVar, V, n, path, walk)
      BY <1>1, AtSomeKey
    <3>2. walk.index \in 0 .. Count(Image, walk.cell)
      BY <3>1 DEF AtKey
    <3>3. Count(Image, walk.cell) = SoundWord(walk.cell).count
      BY SoundIs, SubOf DEF Count
    <3> QED BY <2>1, <3>2, <3>3, SoundNumbers
  <2>3. PICK sub \in SoundKeys :
           /\ sub = CmpDoFindSubKeyByNumber(SoundImage, SoundWord(walk.cell).list, walk.index)
           /\ SoundWord(sub).parent = walk.cell
    BY <1>2, <2>2 DEF SoundKey
  <2>4. CmpFindSubKeyByNumber(walk.cell, walk.index) = sub
    BY <2>1, <2>3, SoundIs DEF CmpFindSubKeyByNumber, Sound, Image
  <2>5. walk'.cell = sub /\ walk'.parent = walk.cell
    BY <2>1, <2>4
  <2>6. RightParent(walk'.cell, walk'.parent)
    BY <2>3, <2>5 DEF RightParent
  <2> QED BY <1>1, <2>1, <2>6 DEF SoundSteps
<1>4. CASE ResumeKey
  <2>1. /\ walk.cell # SoundBase.RootCell /\ walk' = Resumed(walk) /\ UNCHANGED phase
    BY <1>4, SoundIs DEF ResumeKey
  <2>2. walk'.cell = walk.parent /\ walk'.parent = SoundWord(walk.parent).parent
    BY <2>1, SoundIs DEF Resumed
  <2>3. walk.parent \in SoundKeys
    BY <1>1, <1>2, <2>1 DEF RightParent, SoundKey
  <2>4. RightParent(walk'.cell, walk'.parent)
    BY <2>2, <2>3 DEF RightParent
  <2> QED BY <1>1, <2>1, <2>4 DEF SoundSteps
<1>5. CASE Accept
  BY <1>1, <1>5 DEF Accept, SoundSteps
<1> QED BY <1>3, <1>4, <1>5

BaseInv ==
    phase \notin {"HvInitializeHive", "refused"} =>
        /\ GoodBaseBlock(Base)
        /\ type = IF current = "alternate" THEN "alternate" ELSE "primary"

RefusedInv ==
    /\ current = "alternate" /\ ~starved => ~Sound(files.system)
    /\ phase = "refused" /\ ~starved => ~Sound(files.alternate)

BootInv == BaseInv /\ (Sound(Image) => SoundSteps) /\ RefusedInv

LEMMA SoundGoesOn ==
    ASSUME HiveInv, WalkTyped, AtTyped, Sound(Image), SoundSteps, LoadAndInit
    PROVE  \/ UNCHANGED <<files, current>> /\ phase' # "refused" /\ SoundSteps'
           \/ Refuse /\ starved'
BY SoundStarts, SoundIsMapped, SoundBinsPass, SoundCellsPass, SoundKeysPass, SoundWalkGoesOn
   DEF LoadAndInit

\* Each step refuses the image or goes on with it.
LEMMA RefusesOrNot ==
    ASSUME LoadAndInit
    PROVE  /\ phase \in {"HvInitializeHive", "HvpBuildMap", "HvCheckHive", "HvCheckBin",
                         "NewKey", "Children"}
           /\ (starved' = starved) \/ (starved' = TRUE)
           /\ \/ Refuse
              \/ /\ UNCHANGED <<files, current>> /\ phase' \notin {"HvInitializeHive", "refused"}
                 /\ IF phase = "HvInitializeHive"
                    THEN /\ GoodBaseBlock(Base)
                         /\ type' = IF current = "alternate" THEN "alternate" ELSE Base.Type
                    ELSE UNCHANGED type
<1>1. CASE HvInitializeHive
  BY <1>1 DEF HvInitializeHive
<1>2. CASE HvpBuildMap
  BY <1>2 DEF HvpBuildMap
<1>3. CASE HvCheckHive
  BY <1>3 DEF HvCheckHive
<1>4. CASE HvCheckBin
  BY <1>4 DEF HvCheckBin
<1>5. CASE NewKey
  BY <1>5 DEF NewKey, Keep
<1>6. CASE Descend \/ ResumeKey \/ Accept
  BY <1>6 DEF Descend, ResumeKey, Accept, Keep
<1> QED BY <1>1, <1>2, <1>3, <1>4, <1>5, <1>6 DEF LoadAndInit

LEMMA LoadKeepsBoot ==
    ASSUME HiveInv, WalkTyped, AtTyped, BootInv, LoadAndInit PROVE BootInv'
<1>1. TypeInv
  BY DEF HiveInv
<1>2. CASE Refuse
  <2>1. UNCHANGED files /\ (~starved' => ~Sound(files[current]))
    <3>1. ASSUME Sound(Image)
          PROVE  starved' \/ (phase' # "refused" /\ current' = current)
      <4>1. SoundSteps
        BY <3>1 DEF BootInv
      <4>2. \/ UNCHANGED <<files, current>> /\ phase' # "refused"
            \/ starved'
        BY <3>1, <4>1, SoundGoesOn
      <4> QED BY <4>2
    <3>2. UNCHANGED files /\ (phase' = "refused" \/ current' # current)
      BY <1>2 DEF Refuse
    <3> QED BY <3>1, <3>2 DEF Image
  <2>2. ~starved' => ~starved
    BY RefusesOrNot
  <2>3. CASE current = "system"
    <3>1. current' = "alternate" /\ phase' = "HvInitializeHive"
      BY <1>2, <2>3 DEF Refuse
    <3> QED BY <2>1, <2>2, <2>3, <3>1 DEF BootInv, BaseInv, RefusedInv, SoundSteps
  <2>4. CASE current = "alternate"
    <3>1. current' = "alternate" /\ phase' = "refused"
      BY <1>2, <2>4 DEF Refuse
    <3> QED BY <2>1, <2>2, <2>4, <3>1 DEF BootInv, BaseInv, RefusedInv, SoundSteps
  <2> QED BY <1>1, <2>3, <2>4 DEF TypeInv
<1>3. CASE ~Refuse
  <2>1. /\ UNCHANGED <<files, current>> /\ phase' \notin {"HvInitializeHive", "refused"}
        /\ phase \notin {"refused"}
        /\ IF phase = "HvInitializeHive"
           THEN /\ GoodBaseBlock(Base)
                /\ type' = IF current = "alternate" THEN "alternate" ELSE Base.Type
           ELSE UNCHANGED type
    BY <1>3, RefusesOrNot
  <2>6. ~starved' => ~starved
    BY RefusesOrNot
  <2>2. Image' = Image /\ Base' = Base
    BY <2>1 DEF Image, Base
  <2>3. Sound(Image') => SoundSteps'
    BY <1>3, <2>2, SoundGoesOn DEF BootInv
  <2>4. BaseInv'
    <3>1. GoodBaseBlock(Base) => Base.Type = "primary"
      BY DEF GoodBaseBlock
    <3> QED BY <2>1, <2>2, <3>1 DEF BootInv, BaseInv
  <2>5. RefusedInv'
    BY <2>1, <2>6 DEF BootInv, RefusedInv
  <2> QED BY <2>2, <2>3, <2>4, <2>5 DEF BootInv
<1> QED BY <1>2, <1>3

LEMMA LookUpKeepsBoot ==
    ASSUME BootInv, UNCHANGED <<files, current, type, map, at, walk, starved>>,
           UNCHANGED phase \/ (phase \in InUse /\ phase' \in InUse)
    PROVE  BootInv'
<1>1. Image' = Image /\ Base' = Base
  BY DEF Image, Base
<1>2. BaseInv'
  BY <1>1 DEF BootInv, BaseInv, InUse, Looking
<1>3. Sound(Image') => SoundSteps'
  BY <1>1 DEF BootInv, SoundSteps, InUse, Looking
<1>4. RefusedInv'
  BY DEF BootInv, RefusedInv, InUse, Looking
<1> QED BY <1>1, <1>2, <1>3, <1>4 DEF BootInv

LEMMA NextBoot ==
    HiveInv /\ WalkTyped /\ AtTyped /\ BootInv /\ [Next]_vars => AtTyped' /\ BootInv'
<1> SUFFICES ASSUME HiveInv, WalkTyped, AtTyped, BootInv, [Next]_vars
             PROVE  AtTyped' /\ BootInv'
  OBVIOUS
<1>1. CASE LoadAndInit
  BY <1>1, LoadKeepsBoot, AtStaysTyped
<1>2. CASE LookUp \/ (\E key \in checked, name \in Names : Find(key, name))
  BY <1>2, LookUpStays, LookUpKeepsBoot DEF KeepHive, AtTyped
<1>3. CASE UNCHANGED vars
  BY <1>3, LookUpKeepsBoot DEF vars, AtTyped
<1> QED BY <1>1, <1>2, <1>3 DEF Next

\* What is booted has a finished last write, and the alternate is gone to only for a
\* damaged primary: an undamaged image passes every check, cell by cell and key by key,
\* whatever was tried before it.
THEOREM WholeHiveBooted == Spec => []RightHiveBooted
<1>1. Init => HiveInv /\ WalkTyped /\ AtTyped /\ BootInv
  <2> SUFFICES ASSUME Init PROVE AtTyped /\ BootInv /\ WalkTyped
    BY InitInv
  <2>1. AtTyped /\ WalkTyped
    BY DEF Init, AtTyped, Start, NoWalk, WalkTyped
  <2>2. BootInv
    BY DEF Init, BootInv, BaseInv, SoundSteps, RefusedInv
  <2> QED BY <2>1, <2>2
<1>2. HiveInv /\ BootInv => RightHiveBooted
  <2> SUFFICES ASSUME HiveInv, BootInv PROVE RightHiveBooted
    OBVIOUS
  <2>1. phase \in InUse => GoodBaseBlock(Base)
                           /\ type = IF current = "alternate" THEN "alternate" ELSE "primary"
    BY DEF BootInv, BaseInv, InUse, Looking
  <2>2. phase \in InUse => files[current].base.Sequence1 = files[current].base.Sequence2
                           /\ (type = "alternate") = (current = "alternate")
    BY <2>1 DEF GoodBaseBlock, Base
  <2> QED BY <2>2 DEF RightHiveBooted, BootInv, RefusedInv
<1> QED BY <1>1, <1>2, NextInv, NextBoot, PTL DEF Spec

-----------------------------------------------------------------------------
(* The entries of an index, by number and by leaf.                         *)

LEMMA LeastExists ==
    ASSUME NEW S \in SUBSET Nat, S # {}
    PROVE  \E i \in S : \A j \in S : i <= j
<1>1. PICK i \in S : \A j \in S : <<j, i>> \notin OpToRel(<, Nat)
  BY WFMin, NatLessThanWellFounded, Zenon
<1>2. \A j \in S : ~(j < i)
  BY <1>1, Zenon DEF OpToRel
<1> QED BY <1>2

LeafCount(image, root, i) == WordOf(image, EntryOf(image, root, i)).count

AddsUp(image, root, n, f) ==
    f = [i \in 0 .. n |-> IF i = 0 THEN 0 ELSE f[i - 1] + LeafCount(image, root, i)]

LEMMA SumsExist ==
    ASSUME NEW image, NEW root, NEW n \in Nat
    PROVE  \E f : AddsUp(image, root, n, f)
<1> DEFINE Bad == {k \in Nat : ~ \E f : AddsUp(image, root, k, f)}
<1> SUFFICES ASSUME Bad # {} PROVE FALSE
  OBVIOUS
<1>1. PICK k \in Bad : \A j \in Bad : k <= j
  BY LeastExists
<1>2. CASE k = 0
  <2> DEFINE f == [i \in 0 .. 0 |-> 0]
  <2>1. f = [i \in 0 .. 0 |-> IF i = 0 THEN 0 ELSE f[i - 1] + LeafCount(image, root, i)]
    OBVIOUS
  <2>2. AddsUp(image, root, 0, f)
    BY <2>1 DEF AddsUp
  <2> QED BY <1>2, <2>2
<1>3. CASE k # 0
  <2>1. k \in Nat /\ k - 1 \in Nat /\ k - 1 \notin Bad
    BY <1>1, <1>3
  <2>2. PICK g : AddsUp(image, root, k - 1, g)
    BY <2>1
  <2> DEFINE f == [i \in 0 .. k |-> IF i = k THEN g[k - 1] + LeafCount(image, root, k)
                                   ELSE g[i]]
  <2>3. \A i \in 0 .. k - 1 :
           g[i] = IF i = 0 THEN 0 ELSE g[i - 1] + LeafCount(image, root, i)
    BY <2>2 DEF AddsUp
  <2>4. \A i \in 0 .. k : f[i] = IF i = 0 THEN 0 ELSE f[i - 1] + LeafCount(image, root, i)
    BY <1>3, <2>1, <2>3
  <2>5. f = [i \in 0 .. k |-> f[i]]
    OBVIOUS
  <2> HIDE DEF f
  <2>6. AddsUp(image, root, k, f)
    BY <2>4, <2>5 DEF AddsUp
  <2> QED BY <2>6
<1> QED BY <1>2, <1>3

\* The entries before each leaf of a root.
LEMMA BeforeAdds ==
    ASSUME NEW image, NEW root, WordOf(image, root).count \in Nat
    PROVE  AddsUp(image, root, WordOf(image, root).count, Before(image, root))
<1>1. PICK f : AddsUp(image, root, WordOf(image, root).count, f)
  BY SumsExist
<1>2. Before(image, root) =
         CHOOSE Sum : Sum = [i \in 0 .. WordOf(image, root).count |->
                                IF i = 0 THEN 0
                                ELSE Sum[i - 1] + WordOf(image, EntryOf(image, root, i)).count]
  BY DEF Before
<1>3. \A g : AddsUp(image, root, WordOf(image, root).count, g) <=>
               g = [i \in 0 .. WordOf(image, root).count |->
                                IF i = 0 THEN 0
                                ELSE g[i - 1] + WordOf(image, EntryOf(image, root, i)).count]
  BY DEF AddsUp, LeafCount
<1> QED BY <1>1, <1>2, <1>3, Zenon

LEMMA BeforeFacts ==
    ASSUME NEW image, NEW root, WordOf(image, root).count \in Nat,
           \A a : WordOf(image, a).count \in Nat
    PROVE  /\ Before(image, root)[0] = 0
           /\ \A i \in 1 .. WordOf(image, root).count :
                 Before(image, root)[i] = Before(image, root)[i - 1] + LeafCount(image, root, i)
           /\ \A i \in 0 .. WordOf(image, root).count : Before(image, root)[i] \in Nat
           /\ \A i, j \in 0 .. WordOf(image, root).count :
                 i <= j => Before(image, root)[i] <= Before(image, root)[j]
<1> DEFINE n == WordOf(image, root).count
           B == Before(image, root)
           C(i) == LeafCount(image, root, i)
<1>1. AddsUp(image, root, n, B)
  BY BeforeAdds
<1>2. n \in Nat /\ \A i : C(i) \in Nat
  BY DEF LeafCount
<1> HIDE DEF n, B, C
<1>3. \A i \in 0 .. n : B[i] = IF i = 0 THEN 0 ELSE B[i - 1] + C(i)
  BY <1>1 DEF AddsUp, C
<1>4. B[0] = 0 /\ \A i \in 1 .. n : B[i] = B[i - 1] + C(i)
  BY <1>2, <1>3
<1>5. \A i \in 0 .. n : B[i] \in Nat
  <2> DEFINE Bad == {i \in 0 .. n : B[i] \notin Nat}
  <2> SUFFICES ASSUME Bad # {} PROVE FALSE
    OBVIOUS
  <2>1. Bad \in SUBSET Nat
    OBVIOUS
  <2>2. PICK k \in Bad : \A j \in Bad : k <= j
    BY <2>1, LeastExists
  <2>3. k # 0 /\ k \in 1 .. n /\ k - 1 \in 0 .. n /\ k - 1 \notin Bad
    BY <1>2, <1>4, <2>2
  <2> QED BY <1>2, <1>4, <2>2, <2>3
<1>6. ASSUME NEW i \in 0 .. n, NEW j \in 0 .. n, i <= j PROVE B[i] <= B[j]
  <2> DEFINE Bad == {m \in 0 .. n : i <= m /\ ~(B[i] <= B[m])}
  <2> SUFFICES ASSUME Bad # {} PROVE FALSE
    BY <1>6
  <2>1. Bad \in SUBSET Nat
    OBVIOUS
  <2>2. PICK k \in Bad : \A m \in Bad : k <= m
    BY <2>1, LeastExists
  <2>3. B[i] \in Nat /\ k # i /\ k \in 1 .. n /\ k - 1 \in 0 .. n /\ i <= k - 1
    BY <1>2, <1>5, <2>2
  <2>4. k - 1 \notin Bad
    BY <2>2, <2>3
  <2>5. B[i] <= B[k - 1] /\ B[k] = B[k - 1] + C(k) /\ C(k) \in Nat /\ B[k - 1] \in Nat
    BY <1>2, <1>4, <1>5, <2>3, <2>4
  <2> QED BY <2>2, <2>3, <2>5
<1> QED BY <1>4, <1>5, <1>6 DEF n, B, C

\* Leaf l of a key, the number of its entries, and entry i of it.
LeafAt(key, l) == LeafLists(key)[l]
Entries(key, l) == Word(LeafAt(key, l)).count
EntryIn(key, l, i) == ListEntry(LeafAt(key, l), i)

IsEntry(key, e) ==
    \E l \in DOMAIN LeafLists(key) : \E i \in 1 .. Entries(key, l) : e = EntryIn(key, l, i)

LEMMA RootLeaves ==
    ASSUME TypeInv, NEW key, Word(Word(key).list).sig = "root"
    PROVE  /\ DOMAIN LeafLists(key) = 1 .. Word(Word(key).list).count
           /\ Word(Word(key).list).count \in Nat
           /\ \A l \in DOMAIN LeafLists(key) : LeafAt(key, l) = ListEntry(Word(key).list, l)
<1>1. LeafLists(key) = [i \in 1 .. Word(Word(key).list).count |-> ListEntry(Word(key).list, i)]
  BY DEF LeafLists
<1>2. Word(Word(key).list).count \in Nat
  BY WordNumbers DEF Numbers
<1> QED BY <1>1, <1>2 DEF LeafAt

LEMMA SingleLeaf ==
    ASSUME TypeInv, NEW key, Word(Word(key).list).sig # "root"
    PROVE  /\ DOMAIN LeafLists(key) = {1} /\ LeafAt(key, 1) = Word(key).list
           /\ Word(Word(key).list).count \in Nat
<1>1. LeafLists(key) = [i \in {1} |-> Word(key).list]
  BY DEF LeafLists
<1>2. Word(Word(key).list).count \in Nat
  BY WordNumbers DEF Numbers
<1> QED BY <1>1, <1>2 DEF LeafAt

\* The numbers of the subkeys run through the entries of the leaves.
LEMMA NumbersAreEntries ==
    ASSUME TypeInv, NEW key, Word(key).count > 0, Index(Word(key).list, Word(key).count),
           NEW e
    PROVE  e \in Subkeys(key) <=> IsEntry(key, e)
<1> DEFINE list == Word(key).list
           count == Word(key).count
           Nth(k) == CmpDoFindSubKeyByNumber(Image, list, k)
<1>1. count \in Nat \ {0}
  BY WordNumbers DEF Numbers
<1>2. e \in Subkeys(key) <=> \E k \in 0 .. count - 1 : e = Nth(k)
  BY <1>1 DEF Subkeys, CmpFindSubKeyByNumber, Image
<1>3. \A c, i : EntryOf(Image, c, i) = ListEntry(c, i)
  BY DEF EntryOf, ListEntry, Word, Image
<1> HIDE DEF list, count
<1>4. CASE Word(list).sig # "root"
  <2>1. Word(list).count = count
    BY <1>4 DEF Index, list, count
  <2>2. \A k : Nth(k) = ListEntry(list, k + 1)
    BY <1>3, <1>4, SubOf DEF CmpDoFindSubKeyByNumber
  <2>3. IsEntry(key, e) <=> \E i \in 1 .. count : e = ListEntry(list, i)
    <3>1. DOMAIN LeafLists(key) = {1} /\ LeafAt(key, 1) = list
      BY <1>4, SingleLeaf DEF list
    <3> QED BY <2>1, <3>1 DEF IsEntry, Entries, EntryIn
  <2>4. ASSUME NEW k \in 0 .. count - 1, e = Nth(k)
        PROVE  \E i \in 1 .. count : e = ListEntry(list, i)
    <3>1. k + 1 \in 1 .. count
      BY <1>1
    <3> HIDE DEF Nth
    <3> QED BY <2>2, <2>4, <3>1
  <2>5. ASSUME NEW i \in 1 .. count, e = ListEntry(list, i)
        PROVE  \E k \in 0 .. count - 1 : e = Nth(k)
    <3>1. i - 1 \in 0 .. count - 1 /\ (i - 1) + 1 = i
      BY <1>1
    <3> HIDE DEF Nth
    <3>2. Nth(i - 1) = ListEntry(list, (i - 1) + 1)
      BY <2>2
    <3> QED BY <2>5, <3>1, <3>2
  <2> QED BY <1>2, <2>3, <2>4, <2>5
<1>5. CASE Word(list).sig = "root"
  <2> DEFINE n == Word(list).count
             B == Before(Image, list)
  <2>1. /\ DOMAIN LeafLists(key) = 1 .. n /\ n \in Nat
        /\ \A l \in 1 .. n : LeafAt(key, l) = ListEntry(list, l)
    BY <1>5, RootLeaves DEF list
  <2>2. count = B[n]
    BY <1>5 DEF Index, list, count, Image
  <2>3. /\ B[0] = 0 /\ \A i \in 0 .. n : B[i] \in Nat
        /\ \A i \in 1 .. n : B[i] = B[i - 1] + Entries(key, i)
        /\ \A i, j \in 0 .. n : i <= j => B[i] <= B[j]
    <3>1. \A a : WordOf(Image, a).count \in Nat /\ Word(a) = WordOf(Image, a)
      BY WordNumbers, SubOf DEF Numbers
    <3>2. \A i \in 1 .. n : LeafCount(Image, list, i) = Entries(key, i)
      BY <1>3, <2>1, <3>1 DEF LeafCount, Entries
    <3> QED BY <3>1, <3>2, BeforeFacts
  <2>4. \A i : Entries(key, i) \in Nat
    BY WordNumbers DEF Entries, Numbers
  <2> DEFINE In(k) == {i \in 1 .. n : B[i - 1] <= k /\ k < B[i]}
  <2>20. \A k, i : i \in In(k) <=> i \in 1 .. n /\ B[i - 1] <= k /\ k < B[i]
    OBVIOUS
  <2>21. \A k : Word(list).sig = "root" /\ In(k) # {} =>
            Nth(k) = CHOOSE x \in {EntryOf(Image, EntryOf(Image, list, i), k - B[i - 1] + 1) :
                                      i \in In(k)} : TRUE
    BY SubOf, Zenon DEF CmpDoFindSubKeyByNumber
  <2> HIDE DEF n, B, In, Nth
  <2>5. ASSUME NEW k \in 0 .. count - 1, NEW l \in In(k), NEW m \in In(k)
        PROVE  m = l
    <3>1. /\ l \in 1 .. n /\ B[l - 1] <= k /\ k < B[l]
          /\ m \in 1 .. n /\ B[m - 1] <= k /\ k < B[m]
      BY <2>20
    <3>2. /\ l - 1 \in 0 .. n /\ m - 1 \in 0 .. n /\ l \in 0 .. n /\ m \in 0 .. n
          /\ l \in Nat /\ m \in Nat /\ k \in Nat
      BY <1>1, <2>1, <3>1
    <3>3. B[l] \in Nat /\ B[m] \in Nat /\ B[l - 1] \in Nat /\ B[m - 1] \in Nat
      BY <2>3, <3>2
    <3>4. (l <= m - 1 => B[l] <= B[m - 1]) /\ (m <= l - 1 => B[m] <= B[l - 1])
      BY <2>3, <3>2
    <3> QED BY ONLY <3>1, <3>2, <3>3, <3>4
  <2>6. ASSUME NEW k \in 0 .. count - 1
        PROVE  \E i : i \in In(k)
    <3> DEFINE S == {i \in 0 .. n : k < B[i]}
    <3>1. k \in Nat /\ k < count /\ n \in 0 .. n
      BY <1>1, <2>1
    <3>2. n \in S /\ S \in SUBSET Nat
      BY <2>2, <3>1
    <3>3. PICK i \in S : \A j \in S : i <= j
      BY <3>2, LeastExists
    <3>4. i \in Nat /\ i # 0 /\ i \in 1 .. n /\ i - 1 \in 0 .. n /\ ~(i <= i - 1)
      BY <2>1, <2>3, <3>1, <3>3
    <3>5. i - 1 \notin S
      BY <3>3, <3>4
    <3>6. B[i - 1] <= k /\ k < B[i]
      BY <2>3, <3>1, <3>3, <3>4, <3>5
    <3> QED BY <2>20, <3>4, <3>6
  <2>7. ASSUME NEW k \in 0 .. count - 1, NEW l \in In(k)
        PROVE  Nth(k) = EntryIn(key, l, k - B[l - 1] + 1) /\ k - B[l - 1] + 1 \in 1 .. Entries(key, l)
    <3>1. l \in 1 .. n /\ B[l - 1] <= k /\ k < B[l]
      BY <2>20
    <3>2. l - 1 \in 0 .. n /\ B[l - 1] \in Nat /\ B[l] = B[l - 1] + Entries(key, l) /\ k \in Nat
      BY <1>1, <2>1, <2>3, <3>1
    <3>3. k - B[l - 1] + 1 \in 1 .. Entries(key, l)
      <4> DEFINE b == B[l - 1]
      <4>1. b \in Nat /\ b <= k /\ k < b + Entries(key, l) /\ k \in Nat /\ Entries(key, l) \in Nat
        BY <2>4, <3>1, <3>2
      <4> HIDE DEF b
      <4>2. k - b + 1 \in 1 .. Entries(key, l)
        BY ONLY <4>1
      <4> QED BY <4>2 DEF b
    <3>4. In(k) = {l}
      BY <2>5
    <3>5. {EntryOf(Image, EntryOf(Image, list, i), k - B[i - 1] + 1) : i \in In(k)}
             = {EntryIn(key, l, k - B[l - 1] + 1)}
      BY <1>3, <2>1, <3>1, <3>4 DEF EntryIn
    <3>6. Nth(k) = CHOOSE x \in {EntryIn(key, l, k - B[l - 1] + 1)} : TRUE
      BY <1>5, <2>21, <3>4, <3>5
    <3> QED BY <3>3, <3>6
  <2>8. ASSUME NEW k \in 0 .. count - 1, e = Nth(k)
        PROVE  IsEntry(key, e)
    <3>1. PICK l : l \in In(k)
      BY <2>6
    <3>2. l \in 1 .. n
      BY <2>20, <3>1
    <3>3. e = EntryIn(key, l, k - B[l - 1] + 1) /\ k - B[l - 1] + 1 \in 1 .. Entries(key, l)
      BY <2>7, <2>8, <3>1
    <3> QED BY <2>1, <3>2, <3>3 DEF IsEntry
  <2>9. ASSUME NEW l \in 1 .. n, NEW i \in 1 .. Entries(key, l), e = EntryIn(key, l, i)
        PROVE  \E k \in 0 .. count - 1 : e = Nth(k)
    <3> DEFINE b == B[l - 1]
               k == b + i - 1
    <3>1. /\ l - 1 \in 0 .. n /\ l \in 0 .. n /\ n \in 0 .. n /\ l <= n
          /\ b \in Nat /\ B[l] = b + Entries(key, l)
      BY <2>1, <2>3
    <3>2. B[l] <= B[n] /\ B[l] \in Nat /\ Entries(key, l) \in Nat /\ i \in Nat
      BY <2>3, <2>4, <3>1
    <3> HIDE DEF b
    <3>3. k \in Nat /\ b <= k /\ k < B[l] /\ k < count /\ k - b + 1 = i
      BY <1>1, <2>2, <2>4, <3>1, <3>2
    <3>4. k \in 0 .. count - 1
      BY <1>1, <3>3
    <3> HIDE DEF k
    <3>5. l \in In(k)
      BY <2>20, <3>3 DEF b
    <3>6. Nth(k) = EntryIn(key, l, i)
      BY <2>7, <3>3, <3>4, <3>5 DEF b
    <3> QED BY <2>9, <3>4, <3>6
  <2> QED BY <1>2, <2>1, <2>8, <2>9 DEF IsEntry
<1> QED BY <1>4, <1>5

-----------------------------------------------------------------------------
(* The binary searches: where the name can be gets no wider than what is    *)
(* left to look at.                                                         *)

NameIn(key, l, i) == Word(EntryIn(key, l, i)).name

\* Entry i of leaf l has the name.
Named(key, name, l, i) ==
    /\ l \in DOMAIN LeafLists(key) /\ i \in 1 .. Entries(key, l)
    /\ NameIn(key, l, i) = name

Answered(key, name, child) ==
    /\ child \in Subkeys(key) \cup {HCELL_NIL}
    /\ Ordered(key) =>
          IF \E sub \in Subkeys(key) : Word(sub).name = name
          THEN child # HCELL_NIL /\ Word(child).name = name
          ELSE child = HCELL_NIL

InRoot(key, name, low, high) ==
    /\ Word(Word(key).list).sig = "root"
    /\ low \in Nat /\ high \in Nat /\ low <= high
    /\ low + 1 \in DOMAIN LeafLists(key) /\ high + 1 \in DOMAIN LeafLists(key)
    /\ Ordered(key) => \A l, i : Named(key, name, l, i) => low + 1 <= l /\ l <= high + 1

InLeaf(key, name, leaf, low, high) ==
    \E l \in DOMAIN LeafLists(key) :
        /\ leaf = LeafAt(key, l)
        /\ Entries(key, l) > 0 =>
              low \in Nat /\ high \in Nat /\ low <= high /\ high < Entries(key, l)
        /\ Ordered(key) => \A m, i : Named(key, name, m, i) =>
                              m = l /\ low + 1 <= i /\ i <= high + 1

\* A key whose index was checked.
Listed(key) == Word(key).count > 0 /\ Index(Word(key).list, Word(key).count)

LookInv ==
    /\ phase \in Looking =>
          lookup.key \in checked /\ Listed(lookup.key) /\ lookup.name \in Int
    /\ phase \in {"CmpFindSubKeyInRoot", "LastLeaves"} =>
          /\ lookup.index = Word(lookup.key).list
          /\ InRoot(lookup.key, lookup.name, lookup.low, lookup.high)
    /\ phase \in {"CmpFindSubKeyInLeaf", "LastEntries"} =>
          InLeaf(lookup.key, lookup.name, lookup.index, lookup.low, lookup.high)
    /\ phase \in {"LastLeaves", "LastEntries"} => lookup.high - lookup.low <= 1
    /\ phase = "LastEntries" => Word(lookup.index).count > 0
    /\ phase = "answered" => Answered(lookup.key, lookup.name, lookup.child)

LookTyped ==
    lookup = [key |-> lookup.key, name |-> lookup.name, index |-> lookup.index,
              low |-> lookup.low, high |-> lookup.high, child |-> lookup.child]

LEMMA NamesAreNumbers ==
    ASSUME TypeInv
    PROVE  \A key, l, i : NameIn(key, l, i) \in Int /\ Entries(key, l) \in Nat
BY WordNumbers DEF NameIn, Entries, Numbers

LEMMA OrderedNames ==
    ASSUME TypeInv, NEW key, Ordered(key),
           NEW l \in DOMAIN LeafLists(key), NEW m \in DOMAIN LeafLists(key)
    PROVE  /\ Entries(key, l) > 0
           /\ \A i \in 1 .. Entries(key, l), j \in 1 .. Entries(key, m) :
                 l < m \/ (l = m /\ i < j) => NameIn(key, l, i) < NameIn(key, m, j)
BY DEF Ordered, NameIn, EntryIn, LeafAt, Entries

LEMMA LeavesAreNumbered ==
    ASSUME TypeInv, NEW key PROVE DOMAIN LeafLists(key) \subseteq Nat \ {0}
<1>1. CASE Word(Word(key).list).sig = "root"
  BY <1>1, RootLeaves
<1>2. CASE Word(Word(key).list).sig # "root"
  BY <1>2, SingleLeaf
<1> QED BY <1>1, <1>2

\* What the first and the last name of a leaf say of the leaf the name is in.
LEMMA LeafOfName ==
    ASSUME TypeInv, NEW key, Ordered(key), NEW name \in Int,
           NEW l \in DOMAIN LeafLists(key),
           NEW m, NEW i, Named(key, name, m, i),
           NEW last, NEW first,
           last = NameIn(key, l, Entries(key, l)), first = NameIn(key, l, 1)
    PROVE  /\ name > last => m > l
           /\ name < first => m < l
           /\ name = last \/ (name < last /\ name >= first) => m = l
           /\ l \in Nat /\ m \in Nat
<1>1. m \in DOMAIN LeafLists(key) /\ i \in 1 .. Entries(key, m) /\ NameIn(key, m, i) = name
  BY DEF Named
<1>2. l \in Nat /\ m \in Nat
  BY <1>1, LeavesAreNumbered
<1>3. /\ Entries(key, l) \in Nat /\ Entries(key, m) \in Nat
      /\ last \in Int /\ first \in Int
  BY NamesAreNumbers
<1>4. Entries(key, l) > 0
  BY OrderedNames
<1>5. 1 \in 1 .. Entries(key, l) /\ Entries(key, l) \in 1 .. Entries(key, l)
  BY <1>3, <1>4
<1>6. /\ m < l => name < first /\ name < last
      /\ l < m => last < name /\ first < name
  BY <1>1, <1>5, OrderedNames
<1>7. m = l => name <= last /\ first <= name
  <2> SUFFICES ASSUME m = l PROVE name <= last /\ first <= name
    OBVIOUS
  <2>1. i \in Nat /\ 1 <= i /\ i <= Entries(key, l)
    BY <1>1, <1>3
  <2>2. i < Entries(key, l) => name < last
    BY <1>1, <1>5, OrderedNames
  <2>3. 1 < i => first < name
    BY <1>1, <1>5, OrderedNames
  <2>4. i = Entries(key, l) => name = last
    BY <1>1
  <2>5. i = 1 => name = first
    BY <1>1
  <2> QED BY <1>3, <2>1, <2>2, <2>3, <2>4, <2>5
<1> QED BY <1>2, <1>3, <1>6, <1>7

\* What an entry's name says of the place of the name in its leaf.
LEMMA PlaceOfName ==
    ASSUME TypeInv, NEW key, Ordered(key), NEW name \in Int,
           NEW l \in DOMAIN LeafLists(key), NEW i, Named(key, name, l, i),
           NEW j \in 1 .. Entries(key, l)
    PROVE  /\ name > NameIn(key, l, j) => i > j
           /\ name < NameIn(key, l, j) => i < j
           /\ i \in Nat
<1>1. i \in 1 .. Entries(key, l) /\ NameIn(key, l, i) = name
  BY DEF Named
<1>2. i \in Nat /\ j \in Nat /\ NameIn(key, l, j) \in Int
  BY <1>1, NamesAreNumbers
<1>3. /\ i < j => name < NameIn(key, l, j)
      /\ j < i => NameIn(key, l, j) < name
      /\ i = j => NameIn(key, l, j) = name
  BY <1>1, OrderedNames
<1> QED BY <1>2, <1>3

LEMMA Halving ==
    ASSUME NEW low \in Nat, NEW high \in Nat, low <= high
    PROVE  /\ (high - low) \div 2 + low \in Nat
           /\ low <= (high - low) \div 2 + low /\ (high - low) \div 2 + low <= high
OBVIOUS

\* Answers.
LEMMA FoundIsRight ==
    ASSUME HiveInv, phase \in InUse, NEW key \in checked, Listed(key), NEW name \in Int,
           NEW l, NEW i, Named(key, name, l, i)
    PROVE  Answered(key, name, EntryIn(key, l, i))
<1>1. TypeInv /\ \A c \in checked : Checked(c)
  BY DEF HiveInv, KeyInv
<1>2. EntryIn(key, l, i) \in Subkeys(key) /\ Word(EntryIn(key, l, i)).name = name
  BY <1>1, NumbersAreEntries DEF Named, NameIn, IsEntry, Listed
<1>3. EntryIn(key, l, i) \in checked
  BY <1>2, AllChecked DEF AllKeysChecked
<1>4. EntryIn(key, l, i) # HCELL_NIL
  BY <1>1, <1>3, CheckedIsNoNil
<1> QED BY <1>2, <1>4 DEF Answered

LEMMA NoneIsRight ==
    ASSUME TypeInv, NEW key, Listed(key), NEW name,
           Ordered(key) => \A l, i : ~Named(key, name, l, i)
    PROVE  Answered(key, name, HCELL_NIL)
<1>1. ASSUME Ordered(key), NEW sub \in Subkeys(key), Word(sub).name = name PROVE FALSE
  <2>1. PICK l \in DOMAIN LeafLists(key) : \E i \in 1 .. Entries(key, l) : sub = EntryIn(key, l, i)
    BY NumbersAreEntries DEF IsEntry, Listed
  <2>2. PICK i \in 1 .. Entries(key, l) : sub = EntryIn(key, l, i)
    BY <2>1
  <2> QED BY <1>1, <2>2 DEF Named, NameIn
<1> QED BY <1>1 DEF Answered

\* The look-ups leave all this as it is.
LEMMA HiveSame ==
    ASSUME KeepHive
    PROVE  /\ \A a : Word(a)' = Word(a)
           /\ checked' = checked
           /\ \A key : Listed(key)' <=> Listed(key)
           /\ \A key, name, child : Answered(key, name, child)' <=> Answered(key, name, child)
           /\ \A key, name, low, high : InRoot(key, name, low, high)' <=> InRoot(key, name, low, high)
           /\ \A key, name, leaf, low, high :
                 InLeaf(key, name, leaf, low, high)' <=> InLeaf(key, name, leaf, low, high)
<1>1. UNCHANGED <<files, current, map, checked>>
  BY DEF KeepHive
<1>2. \A a : Word(a)' = Word(a)
  BY <1>1 DEF Word
<1>3. \A c, i : ListEntry(c, i)' = ListEntry(c, i)
  BY <1>2 DEF ListEntry
<1>4. \A key : LeafLists(key)' = LeafLists(key)
  BY <1>2, <1>3 DEF LeafLists
<1>5. \A key, l : LeafAt(key, l)' = LeafAt(key, l) /\ Entries(key, l)' = Entries(key, l)
  BY <1>2, <1>4 DEF LeafAt, Entries
<1>6. \A key, l, i : EntryIn(key, l, i)' = EntryIn(key, l, i)
  BY <1>3, <1>5 DEF EntryIn
<1>7. \A key, name, l, i : Named(key, name, l, i)' <=> Named(key, name, l, i)
  BY <1>2, <1>4, <1>5, <1>6 DEF Named, NameIn
<1>8. \A key : Ordered(key)' <=> Ordered(key)
  BY <1>2, <1>3, <1>4 DEF Ordered
<1>9. \A key : Subkeys(key)' = Subkeys(key)
  BY <1>1, <1>2 DEF Subkeys, CmpFindSubKeyByNumber
<1>10. \A c : HvIsCellAllocated(c)' <=> HvIsCellAllocated(c)
  BY <1>1 DEF HvIsCellAllocated, SizeOf, Word, Length, Base
<1>11. \A list, count : Index(list, count)' <=> Index(list, count)
  BY <1>1, <1>2, <1>3, <1>10 DEF Index, IsLeaf
<1>12. \A key : Listed(key)' <=> Listed(key)
  BY <1>2, <1>11 DEF Listed
<1>13. \A key, name, child : Answered(key, name, child)' <=> Answered(key, name, child)
  BY <1>2, <1>8, <1>9 DEF Answered
<1>14. \A key, name, low, high : InRoot(key, name, low, high)' <=> InRoot(key, name, low, high)
  BY <1>2, <1>4, <1>7, <1>8 DEF InRoot
<1>15. \A key, name, leaf, low, high :
          InLeaf(key, name, leaf, low, high)' <=> InLeaf(key, name, leaf, low, high)
  BY <1>4, <1>5, <1>7, <1>8 DEF InLeaf
<1> QED BY <1>1, <1>2, <1>12, <1>13, <1>14, <1>15

LEMMA AnswerKeepsLook ==
    ASSUME KeepHive, LookTyped, NEW child, Answer(child),
           Answered(lookup.key, lookup.name, child)
    PROVE  LookTyped' /\ LookInv'
<1>1. /\ phase' = "answered" /\ LookTyped'
      /\ lookup'.key = lookup.key /\ lookup'.name = lookup.name /\ lookup'.child = child
  BY DEF Answer, LookTyped
<1>2. Answered(lookup'.key, lookup'.name, lookup'.child)
  BY <1>1
<1> QED BY <1>1, <1>2, HiveSame DEF LookInv, Looking

LEMMA RootReads ==
    ASSUME TypeInv, lookup.index = Word(lookup.key).list,
           Word(Word(lookup.key).list).sig = "root",
           NEW j, j + 1 \in DOMAIN LeafLists(lookup.key)
    PROVE  /\ Entry(j) = LeafAt(lookup.key, j + 1)
           /\ ToLast(j) = lookup.name
                             - NameIn(lookup.key, j + 1, Entries(lookup.key, j + 1))
           /\ ToFirst(j) = lookup.name - NameIn(lookup.key, j + 1, 1)
<1>1. Entry(j) = LeafAt(lookup.key, j + 1)
  BY RootLeaves DEF Entry
<1> QED BY <1>1 DEF ToLast, ToFirst, LastOf, CmpDoCompareKeyName, NameIn, EntryIn, Entries

LEMMA LeafReads ==
    ASSUME NEW l, lookup.index = LeafAt(lookup.key, l), NEW j
    PROVE  /\ Entry(j) = EntryIn(lookup.key, l, j + 1)
           /\ ToEntry(j) = lookup.name - NameIn(lookup.key, l, j + 1)
BY DEF Entry, ToEntry, CmpDoCompareKeyName, NameIn, EntryIn

\* The name can only be in the leaf that is taken.
LEMMA TakeKeepsLook ==
    ASSUME HiveInv, KeepHive, LookTyped, lookup.key \in checked, Listed(lookup.key),
           lookup.name \in Int, NEW l \in DOMAIN LeafLists(lookup.key),
           TakeLeaf(LeafAt(lookup.key, l)),
           Ordered(lookup.key) => \A m, i : Named(lookup.key, lookup.name, m, i) => m = l
    PROVE  LookTyped' /\ LookInv'
<1> DEFINE leaf == LeafAt(lookup.key, l)
<1>1. /\ phase' = "CmpFindSubKeyInLeaf" /\ LookTyped'
      /\ lookup'.key = lookup.key /\ lookup'.name = lookup.name /\ lookup'.index = leaf
      /\ lookup'.low = 0 /\ lookup'.high = Entries(lookup.key, l) - 1
  BY DEF TakeLeaf, SearchIn, LookTyped, Entries
<1>2. Entries(lookup.key, l) \in Nat /\ \A m : Entries(lookup.key, m) \in Nat
  BY NamesAreNumbers DEF HiveInv
<1>3. InLeaf(lookup.key, lookup.name, leaf, 0, Entries(lookup.key, l) - 1)
  <2>1. Entries(lookup.key, l) > 0 =>
           /\ 0 \in Nat /\ Entries(lookup.key, l) - 1 \in Nat
           /\ 0 <= Entries(lookup.key, l) - 1
           /\ Entries(lookup.key, l) - 1 < Entries(lookup.key, l)
    BY <1>2
  <2>2. ASSUME Ordered(lookup.key), NEW m, NEW i, Named(lookup.key, lookup.name, m, i)
        PROVE  m = l /\ 0 + 1 <= i /\ i <= (Entries(lookup.key, l) - 1) + 1
    <3>1. m = l
      BY <2>2
    <3>2. i \in 1 .. Entries(lookup.key, l)
      BY <2>2, <3>1 DEF Named
    <3> QED BY <1>2, <3>1, <3>2
  <2> QED BY <2>1, <2>2 DEF InLeaf
<1> HIDE DEF leaf
<1>4. InLeaf(lookup'.key, lookup'.name, lookup'.index, lookup'.low, lookup'.high)
  BY <1>1, <1>3
<1>5. lookup'.key \in checked' /\ Listed(lookup'.key) /\ lookup'.name \in Int
  BY <1>1, HiveSame
<1> QED BY <1>1, <1>4, <1>5, HiveSame DEF LookInv, Looking

LEMMA RootKeepsLook ==
    ASSUME HiveInv, LookInv, LookTyped, CmpFindSubKeyInRoot
    PROVE  LookTyped' /\ LookInv'
<1> DEFINE key == lookup.key
           name == lookup.name
           low == lookup.low
           high == lookup.high
           l == Middle + 1
<1>1. /\ phase = "CmpFindSubKeyInRoot" /\ KeepHive /\ TypeInv
      /\ key \in checked /\ Listed(key) /\ name \in Int /\ lookup.index = Word(key).list
      /\ InRoot(key, name, low, high)
  BY DEF CmpFindSubKeyInRoot, LookInv, Looking, HiveInv
<1>2. /\ low \in Nat /\ high \in Nat /\ low <= high /\ Word(Word(key).list).sig = "root"
      /\ low + 1 \in DOMAIN LeafLists(key) /\ high + 1 \in DOMAIN LeafLists(key)
      /\ Ordered(key) => \A m, i : Named(key, name, m, i) => low + 1 <= m /\ m <= high + 1
  BY <1>1 DEF InRoot
<1>3. Middle \in Nat /\ low <= Middle /\ Middle <= high
  BY <1>2, Halving DEF Middle
<1>4. l \in DOMAIN LeafLists(key)
  BY <1>1, <1>2, <1>3, RootLeaves
<1> DEFINE last == NameIn(key, l, Entries(key, l))
           first == NameIn(key, l, 1)
<1>5. /\ Entry(Middle) = LeafAt(key, l)
      /\ ToLast(Middle) = name - last /\ ToFirst(Middle) = name - first
      /\ last \in Int /\ first \in Int
  BY <1>1, <1>2, <1>4, RootReads, NamesAreNumbers
<1>6. ASSUME Ordered(key), NEW m, NEW i, Named(key, name, m, i)
      PROVE  /\ name > last => m > l
             /\ name < first => m < l
             /\ name = last \/ (name < last /\ name >= first) => m = l
             /\ l \in Nat /\ m \in Nat
  BY <1>1, <1>4, <1>6, LeafOfName
<1> HIDE DEF last, first
<1>7. CASE Within(Middle)
  <2>1. name = last \/ (name < last /\ name >= first)
    BY <1>1, <1>5, <1>7 DEF Within
  <2>2. TakeLeaf(LeafAt(key, l))
    BY <1>5, <1>7 DEF CmpFindSubKeyInRoot
  <2>3. Ordered(key) => \A m, i : Named(key, name, m, i) => m = l
    BY <1>6, <2>1
  <2> HIDE DEF l
  <2> QED BY <1>1, <1>4, <2>2, <2>3, TakeKeepsLook
<1>8. CASE ~Within(Middle)
  <2>1. name > last \/ (name < last /\ name < first)
    BY <1>1, <1>5, <1>8 DEF Within
  <2>2. Narrow(ToLast(Middle), "LastLeaves")
    BY <1>8 DEF CmpFindSubKeyInRoot
  <2> DEFINE low2 == IF ToLast(Middle) < 0 THEN low ELSE Middle
             high2 == IF ToLast(Middle) < 0 THEN Middle ELSE high
  <2>3. /\ lookup' = [lookup EXCEPT !.low = low2, !.high = high2]
        /\ phase' = IF high2 - low2 <= 1 THEN "LastLeaves" ELSE phase
    BY <2>2, Zenon DEF Narrow
  <2>4. InRoot(key, name, low2, high2)
    <3>1. low2 \in Nat /\ high2 \in Nat /\ low2 <= high2
      BY <1>2, <1>3
    <3>2. low2 + 1 \in DOMAIN LeafLists(key) /\ high2 + 1 \in DOMAIN LeafLists(key)
      BY <1>2, <1>4
    <3>3. ASSUME Ordered(key), NEW m, NEW i, Named(key, name, m, i)
          PROVE  low2 + 1 <= m /\ m <= high2 + 1
      <4>1. low + 1 <= m /\ m <= high + 1
        BY <1>2, <3>3
      <4>2. /\ name > last => m > Middle + 1
            /\ name < first => m < Middle + 1
            /\ m \in Nat
        BY <1>6, <3>3
      <4>3. ToLast(Middle) < 0 <=> name < last
        BY <1>1, <1>5
      <4> QED BY <1>1, <1>2, <1>3, <1>5, <2>1, <4>1, <4>2, <4>3
    <3> HIDE DEF low2, high2
    <3> QED BY <1>2, <3>1, <3>2, <3>3 DEF InRoot
  <2> HIDE DEF low2, high2
  <2>5. /\ LookTyped' /\ lookup'.key = key /\ lookup'.name = name
        /\ lookup'.index = lookup.index /\ lookup'.low = low2 /\ lookup'.high = high2
    BY <2>3 DEF LookTyped
  <2>6. InRoot(lookup'.key, lookup'.name, lookup'.low, lookup'.high)
    BY <2>4, <2>5
  <2>7. lookup'.key \in checked' /\ Listed(lookup'.key) /\ lookup'.name \in Int
        /\ lookup'.index = Word(lookup'.key).list
    BY <1>1, <2>5, HiveSame
  <2>8. phase' \in {"LastLeaves", "CmpFindSubKeyInRoot"}
        /\ (phase' = "LastLeaves" => lookup'.high - lookup'.low <= 1)
    BY <1>1, <2>3, <2>5
  <2> QED BY <1>1, <2>5, <2>6, <2>7, <2>8, HiveSame DEF LookInv, Looking
<1> QED BY <1>7, <1>8

LEMMA LastLeavesKeepsLook ==
    ASSUME HiveInv, LookInv, LookTyped, LastLeaves
    PROVE  LookTyped' /\ LookInv'
<1> DEFINE key == lookup.key
           name == lookup.name
           low == lookup.low
           high == lookup.high
           Last(j) == NameIn(key, j + 1, Entries(key, j + 1))
           First(j) == NameIn(key, j + 1, 1)
<1>1. /\ phase = "LastLeaves" /\ KeepHive /\ TypeInv
      /\ key \in checked /\ Listed(key) /\ name \in Int /\ lookup.index = Word(key).list
      /\ InRoot(key, name, low, high) /\ high - low <= 1
  BY DEF LastLeaves, LookInv, Looking, HiveInv
<1>2. /\ low \in Nat /\ high \in Nat /\ low <= high /\ Word(Word(key).list).sig = "root"
      /\ low + 1 \in DOMAIN LeafLists(key) /\ high + 1 \in DOMAIN LeafLists(key)
      /\ Ordered(key) => \A m, i : Named(key, name, m, i) => low + 1 <= m /\ m <= high + 1
  BY <1>1 DEF InRoot
<1>3. \A j \in {low, high} :
         /\ Entry(j) = LeafAt(key, j + 1) /\ Last(j) \in Int /\ First(j) \in Int
         /\ ToLast(j) = name - Last(j) /\ ToFirst(j) = name - First(j)
  BY <1>1, <1>2, RootReads, NamesAreNumbers
<1>4. ASSUME Ordered(key), NEW m, NEW i, Named(key, name, m, i)
      PROVE  /\ m \in Nat /\ low + 1 <= m /\ m <= high + 1
             /\ \A j \in {low, high} :
                   /\ name > Last(j) => m > j + 1
                   /\ name < First(j) => m < j + 1
                   /\ name = Last(j) \/ (name < Last(j) /\ name >= First(j)) => m = j + 1
  <2>1. low + 1 <= m /\ m <= high + 1
    BY <1>2, <1>4
  <2>2. ASSUME NEW j \in {low, high}
        PROVE  /\ m \in Nat
               /\ name > Last(j) => m > j + 1
               /\ name < First(j) => m < j + 1
               /\ name = Last(j) \/ (name < Last(j) /\ name >= First(j)) => m = j + 1
    <3>1. j + 1 \in DOMAIN LeafLists(key)
      BY <1>2
    <3> QED BY <1>1, <1>4, <3>1, LeafOfName
  <2> QED BY <2>1, <2>2
<1> HIDE DEF Last, First
<1>5. CASE Within(low)
  <2>1. name = Last(low) \/ (name < Last(low) /\ name >= First(low))
    BY <1>1, <1>3, <1>5 DEF Within
  <2>2. TakeLeaf(LeafAt(key, low + 1))
    BY <1>3, <1>5 DEF LastLeaves
  <2>3. Ordered(key) => \A m, i : Named(key, name, m, i) => m = low + 1
    BY <1>4, <2>1
  <2> QED BY <1>1, <1>2, <2>2, <2>3, TakeKeepsLook
<1>6. CASE ~Within(low) /\ ToLast(low) > 0 /\ ToLast(high) <= 0
  <2>1. name > Last(low)
    BY <1>1, <1>3, <1>6
  <2>2. TakeLeaf(LeafAt(key, high + 1))
    BY <1>3, <1>6 DEF LastLeaves
  <2>3. ASSUME Ordered(key), NEW m, NEW i, Named(key, name, m, i) PROVE m = high + 1
    <3>1. m \in Nat /\ m <= high + 1 /\ m > low + 1
      BY <1>4, <2>1, <2>3
    <3> QED BY <1>1, <1>2, <3>1
  <2> QED BY <1>1, <1>2, <2>2, <2>3, TakeKeepsLook
<1>7. CASE ~Within(low) /\ ~(ToLast(low) > 0 /\ ToLast(high) <= 0)
  <2>1. Answer(HCELL_NIL)
    BY <1>7 DEF LastLeaves
  <2>2. ASSUME Ordered(key), NEW m, NEW i, Named(key, name, m, i) PROVE FALSE
    <3>1. \/ name < First(low)
          \/ name > Last(high)
      BY <1>1, <1>3, <1>7 DEF Within
    <3>2. /\ m \in Nat /\ low + 1 <= m /\ m <= high + 1
          /\ name < First(low) => m < low + 1
          /\ name > Last(high) => m > high + 1
      BY <1>4, <2>2
    <3> QED BY <1>2, <3>1, <3>2
  <2>3. Answered(key, name, HCELL_NIL)
    BY <1>1, <2>2, NoneIsRight
  <2> QED BY <1>1, <2>1, <2>3, AnswerKeepsLook
<1> QED BY <1>5, <1>6, <1>7

\* In a leaf.
LEMMA LeafKeepsLook ==
    ASSUME HiveInv, LookInv, LookTyped, CmpFindSubKeyInLeaf
    PROVE  LookTyped' /\ LookInv'
<1> DEFINE key == lookup.key
           name == lookup.name
           low == lookup.low
           high == lookup.high
<1>1. /\ phase = "CmpFindSubKeyInLeaf" /\ KeepHive /\ TypeInv /\ phase \in InUse
      /\ key \in checked /\ Listed(key) /\ name \in Int
      /\ InLeaf(key, name, lookup.index, low, high)
  BY DEF CmpFindSubKeyInLeaf, LookInv, Looking, InUse, HiveInv
<1>2. PICK l \in DOMAIN LeafLists(key) :
         /\ lookup.index = LeafAt(key, l)
         /\ Entries(key, l) > 0 =>
               low \in Nat /\ high \in Nat /\ low <= high /\ high < Entries(key, l)
         /\ Ordered(key) => \A m, i : Named(key, name, m, i) =>
                               m = l /\ low + 1 <= i /\ i <= high + 1
  BY <1>1 DEF InLeaf
<1>3. Entries(key, l) \in Nat /\ Word(lookup.index).count = Entries(key, l)
  BY <1>1, <1>2, NamesAreNumbers DEF Entries
<1>4. CASE Entries(key, l) = 0
  <2>1. Answer(HCELL_NIL)
    BY <1>3, <1>4 DEF CmpFindSubKeyInLeaf
  <2>2. ~Ordered(key)
    BY <1>1, <1>3, <1>4, OrderedNames
  <2>3. Answered(key, name, HCELL_NIL)
    BY <1>1, <2>2, NoneIsRight
  <2> QED BY <1>1, <2>1, <2>3, AnswerKeepsLook
<1>5. CASE Entries(key, l) # 0
  <2> DEFINE p == Middle + 1
             here == NameIn(key, l, p)
  <2>1. low \in Nat /\ high \in Nat /\ low <= high /\ high < Entries(key, l)
    BY <1>2, <1>3, <1>5
  <2>2. Middle \in Nat /\ low <= Middle /\ Middle <= high
    BY <2>1, Halving DEF Middle
  <2>3. p \in 1 .. Entries(key, l)
    BY <1>3, <2>1, <2>2
  <2>4. Entry(Middle) = EntryIn(key, l, p) /\ ToEntry(Middle) = name - here /\ here \in Int
    BY <1>1, <1>2, LeafReads, NamesAreNumbers
  <2>5. ASSUME Ordered(key), NEW m, NEW i, Named(key, name, m, i)
        PROVE  /\ m = l /\ low + 1 <= i /\ i <= high + 1 /\ i \in Nat
               /\ name > here => i > p
               /\ name < here => i < p
    <3>1. m = l /\ low + 1 <= i /\ i <= high + 1
      BY <1>2, <2>5
    <3> QED BY <1>1, <2>3, <2>5, <3>1, PlaceOfName
  <2> HIDE DEF here
  <2>6. CASE ToEntry(Middle) = 0
    <3>1. Answer(EntryIn(key, l, p))
      BY <1>3, <1>5, <2>4, <2>6 DEF CmpFindSubKeyInLeaf
    <3>2. here = name
      BY <1>1, <2>4, <2>6
    <3>3. Named(key, name, l, p)
      BY <1>2, <2>3, <3>2 DEF Named, here
    <3> HIDE DEF p
    <3>4. Answered(key, name, EntryIn(key, l, p))
      BY <1>1, <3>3, FoundIsRight
    <3> QED BY <1>1, <3>1, <3>4, AnswerKeepsLook
  <2>7. CASE ToEntry(Middle) # 0
    <3> DEFINE low2 == IF ToEntry(Middle) < 0 THEN low ELSE Middle
               high2 == IF ToEntry(Middle) < 0 THEN Middle ELSE high
    <3>1. Narrow(ToEntry(Middle), "LastEntries")
      BY <1>3, <1>5, <2>7 DEF CmpFindSubKeyInLeaf
    <3>2. /\ lookup' = [lookup EXCEPT !.low = low2, !.high = high2]
          /\ phase' = IF high2 - low2 <= 1 THEN "LastEntries" ELSE phase
      BY <3>1, Zenon DEF Narrow
    <3>3. InLeaf(key, name, lookup.index, low2, high2)
      <4>1. low2 \in Nat /\ high2 \in Nat /\ low2 <= high2 /\ high2 < Entries(key, l)
        BY <1>3, <2>1, <2>2
      <4>2. ASSUME Ordered(key), NEW m, NEW i, Named(key, name, m, i)
            PROVE  m = l /\ low2 + 1 <= i /\ i <= high2 + 1
        <5>1. (ToEntry(Middle) < 0 <=> name < here) /\ (name < here \/ name > here)
          BY <1>1, <2>4, <2>7
        <5>2. /\ m = l /\ low + 1 <= i /\ i <= high + 1 /\ i \in Nat
              /\ name > here => i > Middle + 1
              /\ name < here => i < Middle + 1
          BY <2>5, <4>2
        <5> QED BY <2>1, <2>2, <5>1, <5>2
      <4> HIDE DEF low2, high2
      <4> QED BY <1>2, <4>1, <4>2 DEF InLeaf
    <3> HIDE DEF low2, high2
    <3>4. /\ LookTyped' /\ lookup'.key = key /\ lookup'.name = name
          /\ lookup'.index = lookup.index /\ lookup'.low = low2 /\ lookup'.high = high2
      BY <3>2 DEF LookTyped
    <3>5. InLeaf(lookup'.key, lookup'.name, lookup'.index, lookup'.low, lookup'.high)
      BY <3>3, <3>4
    <3>6. /\ lookup'.key \in checked' /\ Listed(lookup'.key) /\ lookup'.name \in Int
          /\ Word(lookup'.index).count > 0
      BY <1>1, <1>3, <1>5, <3>4, HiveSame
    <3>7. phase' \in {"LastEntries", "CmpFindSubKeyInLeaf"}
          /\ (phase' = "LastEntries" => lookup'.high - lookup'.low <= 1)
      BY <1>1, <3>2, <3>4
    <3> QED BY <1>1, <3>4, <3>5, <3>6, <3>7, HiveSame DEF LookInv, Looking
  <2> QED BY <2>6, <2>7
<1> QED BY <1>4, <1>5

LEMMA LastEntriesKeepsLook ==
    ASSUME HiveInv, LookInv, LookTyped, LastEntries
    PROVE  LookTyped' /\ LookInv'
<1> DEFINE key == lookup.key
           name == lookup.name
           low == lookup.low
           high == lookup.high
<1>1. /\ phase = "LastEntries" /\ KeepHive /\ TypeInv /\ phase \in InUse
      /\ key \in checked /\ Listed(key) /\ name \in Int /\ high - low <= 1
      /\ InLeaf(key, name, lookup.index, low, high) /\ Word(lookup.index).count > 0
  BY DEF LastEntries, LookInv, Looking, InUse, HiveInv
<1>2. PICK l \in DOMAIN LeafLists(key) :
         /\ lookup.index = LeafAt(key, l)
         /\ Entries(key, l) > 0 =>
               low \in Nat /\ high \in Nat /\ low <= high /\ high < Entries(key, l)
         /\ Ordered(key) => \A m, i : Named(key, name, m, i) =>
                               m = l /\ low + 1 <= i /\ i <= high + 1
  BY <1>1 DEF InLeaf
<1>3. Entries(key, l) \in Nat /\ Entries(key, l) > 0
  BY <1>1, <1>2, NamesAreNumbers DEF Entries
<1>4. low \in Nat /\ high \in Nat /\ low <= high /\ high < Entries(key, l)
  BY <1>2, <1>3
<1>5. \A j \in {low, high} :
         /\ Entry(j) = EntryIn(key, l, j + 1) /\ j + 1 \in 1 .. Entries(key, l)
         /\ ToEntry(j) = name - NameIn(key, l, j + 1) /\ NameIn(key, l, j + 1) \in Int
  BY <1>1, <1>2, <1>3, <1>4, LeafReads, NamesAreNumbers
<1>6. ASSUME NEW j \in {low, high}, ToEntry(j) = 0, Answer(Entry(j))
      PROVE  LookTyped' /\ LookInv'
  <2>1. Answer(EntryIn(key, l, j + 1))
    BY <1>5, <1>6
  <2>2. Named(key, name, l, j + 1)
    BY <1>1, <1>2, <1>5, <1>6 DEF Named
  <2>3. Answered(key, name, EntryIn(key, l, j + 1))
    BY <1>1, <2>2, FoundIsRight
  <2> QED BY <1>1, <2>1, <2>3, AnswerKeepsLook
<1>7. CASE ToEntry(low) = 0
  <2>1. Answer(Entry(low))
    BY <1>7 DEF LastEntries
  <2> QED BY <1>6, <1>7, <2>1
<1>8. CASE ToEntry(low) # 0 /\ ToEntry(low) > 0 /\ ToEntry(high) = 0
  <2>1. Answer(Entry(high))
    BY <1>8 DEF LastEntries
  <2> QED BY <1>6, <1>8, <2>1
<1>9. CASE ToEntry(low) # 0 /\ ~(ToEntry(low) > 0 /\ ToEntry(high) = 0)
  <2>1. Answer(HCELL_NIL)
    BY <1>9 DEF LastEntries
  <2>2. ASSUME Ordered(key), NEW m, NEW i, Named(key, name, m, i) PROVE FALSE
    <3>1. m = l /\ low + 1 <= i /\ i <= high + 1 /\ NameIn(key, m, i) = name
      BY <1>2, <2>2 DEF Named
    <3>2. i \in Nat /\ (name < NameIn(key, l, low + 1) => i < low + 1)
      BY <1>1, <1>5, <2>2, <3>1, PlaceOfName
    <3>3. name > NameIn(key, l, low + 1)
      BY <1>1, <1>4, <1>5, <1>9, <3>1, <3>2
    <3>4. i = low + 1 \/ i = high + 1
      BY <1>1, <1>4, <3>1, <3>2
    <3>5. ToEntry(high) # 0 /\ NameIn(key, l, high + 1) # name
      BY <1>1, <1>5, <1>9, <3>3
    <3> QED BY <1>1, <1>5, <3>1, <3>3, <3>4, <3>5
  <2>3. Answered(key, name, HCELL_NIL)
    BY <1>1, <2>2, NoneIsRight
  <2> QED BY <1>1, <2>1, <2>3, AnswerKeepsLook
<1> QED BY <1>7, <1>8, <1>9

LEMMA FindKeepsLook ==
    ASSUME HiveInv, LookInv, LookTyped, NEW key \in checked, NEW name \in Names, Find(key, name)
    PROVE  LookTyped' /\ LookInv'
<1>1. /\ phase \in InUse /\ KeepHive /\ TypeInv /\ name \in Int
      /\ \A c \in checked : Checked(c)
  BY WordAssumption DEF Find, InUse, Looking, HiveInv, KeyInv
<1>2. Word(key).count \in Nat
  BY <1>1, WordNumbers DEF Numbers
<1>3. CASE Word(key).count = 0
  <2>1. /\ phase' = "answered"
        /\ lookup' = [NoLookup EXCEPT !.key = key, !.name = name]
    BY <1>3 DEF Find
  <2>2. /\ LookTyped' /\ lookup'.key = key /\ lookup'.name = name
        /\ lookup'.child = HCELL_NIL
    BY <2>1 DEF NoLookup, LookTyped
  <2>3. Subkeys(key) = {}
    BY <1>3 DEF Subkeys
  <2>4. Answered(lookup'.key, lookup'.name, lookup'.child)
    BY <2>2, <2>3 DEF Answered
  <2> QED BY <1>1, <2>1, <2>2, <2>4, HiveSame DEF LookInv, Looking
<1>4. CASE Word(key).count # 0
  <2> DEFINE list == Word(key).list
             n == Word(list).count
  <2>1. /\ phase' = IF Word(list).sig = "root"
                    THEN "CmpFindSubKeyInRoot" ELSE "CmpFindSubKeyInLeaf"
        /\ lookup' = [key |-> key, name |-> name, index |-> list, low |-> 0,
                      high |-> n - 1, child |-> HCELL_NIL]
    BY <1>4 DEF Find
  <2>2. /\ LookTyped' /\ lookup'.key = key /\ lookup'.name = name /\ lookup'.index = list
        /\ lookup'.low = 0 /\ lookup'.high = n - 1
    BY <2>1 DEF LookTyped
  <2>3. Listed(key) /\ n \in Nat
    BY <1>1, <1>2, <1>4, WordNumbers DEF Listed, Checked, Numbers
  <2>4. /\ lookup'.key \in checked' /\ Listed(lookup'.key) /\ lookup'.name \in Int
        /\ lookup'.index = Word(lookup'.key).list
    BY <1>1, <2>2, <2>3, HiveSame
  <2>5. CASE Word(list).sig = "root"
    <3>1. DOMAIN LeafLists(key) = 1 .. n
      BY <1>1, <2>5, RootLeaves
    <3>2. n # 0
      <4>1. Word(key).count = Before(Image, list)[n]
        BY <2>3, <2>5 DEF Listed, Index, Image
      <4>2. Before(Image, list)[0] = 0
        <5>1. \A a : WordOf(Image, a).count \in Nat
          BY <1>1, WordNumbers DEF Numbers
        <5> QED BY <5>1, BeforeFacts
      <4> QED BY <1>4, <4>1, <4>2
    <3> HIDE DEF n, list
    <3>3. /\ 0 \in Nat /\ n - 1 \in Nat /\ 0 <= n - 1
          /\ 0 + 1 \in DOMAIN LeafLists(key) /\ (n - 1) + 1 \in DOMAIN LeafLists(key)
      BY <2>3, <3>1, <3>2
    <3>4. ASSUME NEW l, NEW i, Named(key, name, l, i) PROVE 0 + 1 <= l /\ l <= (n - 1) + 1
      <4>1. l \in 1 .. n
        BY <3>1, <3>4 DEF Named
      <4> QED BY <2>3, <4>1
    <3>5. InRoot(key, name, 0, n - 1)
      BY <2>5, <3>3, <3>4 DEF InRoot, list
    <3>6. InRoot(lookup'.key, lookup'.name, lookup'.low, lookup'.high)
      BY <2>2, <3>5
    <3>7. phase' = "CmpFindSubKeyInRoot"
      BY <2>1, <2>5
    <3> QED BY <1>1, <2>2, <2>4, <3>6, <3>7, HiveSame DEF LookInv, Looking
  <2>6. CASE Word(list).sig # "root"
    <3>1. DOMAIN LeafLists(key) = {1} /\ LeafAt(key, 1) = list
      BY <1>1, <2>6, SingleLeaf
    <3>2. Entries(key, 1) = n
      BY <3>1 DEF Entries
    <3> HIDE DEF n, list
    <3>3. Entries(key, 1) > 0 =>
             0 \in Nat /\ n - 1 \in Nat /\ 0 <= n - 1 /\ n - 1 < Entries(key, 1)
      BY <2>3, <3>2
    <3>4. ASSUME NEW m, NEW i, Named(key, name, m, i)
          PROVE  m = 1 /\ 0 + 1 <= i /\ i <= (n - 1) + 1
      <4>1. m = 1 /\ i \in 1 .. n
        BY <3>1, <3>2, <3>4 DEF Named
      <4> QED BY <2>3, <4>1
    <3>5. InLeaf(key, name, list, 0, n - 1)
      BY <3>1, <3>3, <3>4 DEF InLeaf
    <3>6. InLeaf(lookup'.key, lookup'.name, lookup'.index, lookup'.low, lookup'.high)
      BY <2>2, <3>5
    <3>7. phase' = "CmpFindSubKeyInLeaf"
      BY <2>1, <2>6
    <3> QED BY <1>1, <2>2, <2>4, <3>6, <3>7, HiveSame DEF LookInv, Looking
  <2> QED BY <2>5, <2>6
<1> QED BY <1>3, <1>4

\* Before a hive is in use nothing is looked up.
LEMMA LoadKeepsLook ==
    ASSUME LookTyped, LoadAndInit PROVE LookTyped' /\ LookInv'
<1>1. UNCHANGED lookup /\ phase' \notin Looking \cup {"answered"}
  <2>1. CASE Refuse
    BY <2>1 DEF Refuse, Looking
  <2>2. CASE HvInitializeHive /\ ~Refuse
    BY <2>2 DEF HvInitializeHive, Looking
  <2>3. CASE HvpBuildMap /\ ~Refuse
    BY <2>3 DEF HvpBuildMap, Looking
  <2>4. CASE HvCheckHive /\ ~Refuse
    BY <2>4 DEF HvCheckHive, Looking
  <2>5. CASE HvCheckBin /\ ~Refuse
    BY <2>5 DEF HvCheckBin, Looking
  <2>6. CASE NewKey /\ ~Refuse
    BY <2>6 DEF NewKey, Keep, Looking
  <2>7. CASE Descend \/ ResumeKey \/ Accept
    BY <2>7 DEF Descend, ResumeKey, Accept, Keep, Looking
  <2> QED BY <2>1, <2>2, <2>3, <2>4, <2>5, <2>6, <2>7 DEF LoadAndInit
<1> QED BY <1>1 DEF LookTyped, LookInv, Looking

LEMMA NextLook ==
    HiveInv /\ LookInv /\ LookTyped /\ [Next]_vars => LookInv' /\ LookTyped'
<1> SUFFICES ASSUME HiveInv, LookInv, LookTyped, [Next]_vars PROVE LookInv' /\ LookTyped'
  OBVIOUS
<1>1. CASE LoadAndInit
  BY <1>1, LoadKeepsLook
<1>2. CASE \E key \in checked, name \in Names : Find(key, name)
  BY <1>2, FindKeepsLook
<1>3. CASE LookUp
  BY <1>3, RootKeepsLook, LastLeavesKeepsLook, LeafKeepsLook, LastEntriesKeepsLook DEF LookUp
<1>4. CASE UNCHANGED vars
  <2>1. KeepHive /\ UNCHANGED <<lookup, phase>>
    BY <1>4 DEF vars, KeepHive
  <2> QED BY <2>1, HiveSame DEF LookInv, LookTyped
<1> QED BY <1>1, <1>2, <1>3, <1>4 DEF Next

\* A look-up in an accepted hive comes to an answer that is a subkey of the key or none,
\* and when the index is in order to the subkey of that name exactly if there is one:
\* through a root of any number of leaves of any lengths.
THEOREM NamesAreFound == Spec => []LookupFinds
<1>1. Init => HiveInv /\ WalkTyped /\ LookInv /\ LookTyped
  <2> SUFFICES ASSUME Init PROVE WalkTyped /\ LookInv /\ LookTyped
    BY InitInv
  <2> QED BY DEF Init, NoWalk, WalkTyped, NoLookup, LookTyped, LookInv, Looking
<1>2. LookInv => LookupFinds
  BY DEF LookInv, LookupFinds, Answered
<1> QED BY <1>1, <1>2, NextInv, NextLook, PTL DEF Spec

=============================================================================
