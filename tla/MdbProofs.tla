------------------------------ MODULE MdbProofs ------------------------------
(***************************************************************************)
(* Proofs about the cache of module information, for any modules, texts    *)
(* and growth of the array, and through any number of sessions.            *)
(***************************************************************************)
EXTENDS Mdb, FiniteSetTheorems, WellFoundedInduction, SequenceTheorems, TLAPS
-----------------------------------------------------------------------------
(* What the operators of SlotFile do, for any contents of the slots: taking *)
(* a free slot, releasing slots, writing the dirty ones over the file and   *)
(* loading it again.  (The same lemmas as in AdbProofs.)                    *)

(* n slots, whose contents are in S; a db of them.                          *)
Array(data, n, S) == n \in Nat /\ data \in [0 .. n - 1 -> S]
IsDb(d, n, S) == Array(d.data, n, S) /\ d.dirty \subseteq 0 .. n - 1

(* d of n slots has become e of m: the slot s, which was free or not there, *)
(* holds content, the others are as they were, or new and free, and what    *)
(* changed is dirty.                                                        *)
Taken(d, n, s, content, e, m) ==
  /\ n <= m /\ s \in 0 .. m - 1
  /\ s < n => d.data[s] = Free
  /\ e.data[s] = content /\ s \in e.dirty
  /\ \A i \in 0 .. m - 1 : i # s => e.data[i] = IF i < n THEN d.data[i] ELSE Free
  /\ \A i \in 0 .. m - 1 : i \notin e.dirty => i < n /\ i \notin d.dirty

(* Slots that are not dirty are what they were.                             *)
Kept(d, n, e, m) ==
  \A i \in 0 .. m - 1 : i \notin e.dirty => i < n /\ i \notin d.dirty /\ e.data[i] = d.data[i]
-----------------------------------------------------------------------------
(* The order of the naturals, for inductions.                              *)
LEMMA NatWellFounded == IsWellFoundedOn({xy \in Nat \X Nat : xy[1] < xy[2]}, Nat)
BY NatLessThanWellFounded DEF OpToRel

(* A set of naturals has a least member.                                   *)
LEMMA HasLeast ==
  ASSUME NEW S \in SUBSET Nat, S # {}
  PROVE  \E x \in S : \A y \in S : x <= y
<1> DEFINE R == {xy \in Nat \X Nat : xy[1] < xy[2]}
<1>0. IsWellFoundedOn(R, Nat)
  BY NatWellFounded
<1> HIDE DEF R
<1>1. PICK x \in S : \A y \in S : ~(<<y, x>> \in R)
  BY <1>0, WFMin
<1>2. ASSUME NEW y \in S PROVE x <= y
  <2>1. <<y, x>> \notin R
    BY <1>1
  <2>2. QED BY <2>1 DEF R
<1>3. QED BY <1>2

(* The least of some numbers, and the greatest below a bound.               *)
LEMMA MinIs ==
  ASSUME NEW S \in SUBSET Nat, S # {}
  PROVE  Min(S) \in S /\ \A y \in S : Min(S) <= y
BY HasLeast DEF Min

LEMMA MaxIs ==
  ASSUME NEW n \in Nat, NEW S \in SUBSET (-1 .. n), S # {}
  PROVE  Max(S) \in S /\ \A y \in S : Max(S) >= y
<1> DEFINE T == {n - x : x \in S}
<1>1. T \in SUBSET Nat /\ T # {}
  <2>1. \A x \in S : x \in -1 .. n
    OBVIOUS
  <2>2. \A x \in S : n - x \in Nat
    BY <2>1
  <2>3. QED BY <2>2
<1> HIDE DEF T
<1>2. PICK t \in T : \A u \in T : t <= u
  BY <1>1, HasLeast
<1>3. PICK x \in S : t = n - x
  BY DEF T
<1>4. ASSUME NEW y \in S PROVE x >= y
  <2>1. n - y \in T
    BY DEF T
  <2>2. t <= n - y
    BY <1>2, <2>1
  <2>3. QED BY <1>3, <2>2
<1>5. \E z \in S : \A y \in S : z >= y
  BY <1>4
<1>6. QED BY <1>5 DEF Max

LEMMA NumberIs ==
  ASSUME NEW n, NEW S, NEW data, Array(data, n, S)
  PROVE  Number(data) = n /\ DOMAIN data = 0 .. n - 1
<1>1. n \in Nat /\ DOMAIN data = 0 .. n - 1
  BY DEF Array
<1>2. Cardinality(0 .. n - 1) = n
  <2>1. 0 \in Int /\ n - 1 \in Int
    BY <1>1
  <2>2. Cardinality(0 .. n - 1) = IF 0 > n - 1 THEN 0 ELSE (n - 1) - 0 + 1
    BY <2>1, FS_Interval
  <2>3. QED BY <1>1, <2>2
<1>3. QED BY <1>1, <1>2 DEF Number

(* Add slots to the end, if none is free.                                   *)
LEMMA RoomIs ==
  ASSUME NEW S, Free \in S, NEW n, NEW d, IsDb(d, n, S)
  PROVE  \E m \in Nat :
           /\ n <= m /\ IsDb(Room(d), m, S)
           /\ \A i \in 0 .. m - 1 :
                Room(d).data[i] = IF i < n THEN d.data[i] ELSE Free
           /\ \A i \in 0 .. m - 1 :
                i \notin Room(d).dirty => i < n /\ i \notin d.dirty
           /\ \E i \in 0 .. m - 1 : Room(d).data[i] = Free
<1>1. /\ n \in Nat /\ d.data \in [0 .. n - 1 -> S] /\ d.dirty \subseteq 0 .. n - 1
      /\ Number(d.data) = n /\ DOMAIN d.data = 0 .. n - 1
  BY NumberIs DEF IsDb, Array
<1>2. CASE \E i \in DOMAIN d.data : d.data[i] = Free
  <2>1. Room(d) = d
    BY <1>2 DEF Room
  <2>2. \A i \in 0 .. n - 1 : i < n
    BY <1>1
  <2>3. \E i \in 0 .. n - 1 : Room(d).data[i] = Free
    BY <1>1, <1>2, <2>1
  <2>4. n <= n
    BY <1>1
  <2>5. QED BY <1>1, <2>1, <2>2, <2>3, <2>4
<1>3. CASE ~ \E i \in DOMAIN d.data : d.data[i] = Free
  <2> DEFINE m == n + Growth
  <2>1. m \in Nat /\ n < m /\ n \in 0 .. m - 1 /\ n + Growth - 1 = m - 1
    BY <1>1, GrowthAssumption
  <2>2. /\ Room(d).data = [i \in 0 .. m - 1 |-> IF i < n THEN d.data[i] ELSE Free]
        /\ Room(d).dirty = d.dirty \cup n .. m - 1
    <3>1. Room(d) = Grow(d)
      BY <1>3 DEF Room
    <3>2. Room(d) = [data |-> [i \in 0 .. n + Growth - 1 |-> IF i < n THEN d.data[i] ELSE Free],
                     dirty |-> d.dirty \cup n .. n + Growth - 1]
      BY <3>1, <1>1 DEF Grow
    <3>3. QED BY <3>2, <2>1
  <2> HIDE DEF m
  <2>3. \A i \in 0 .. m - 1 : i < n => i \in 0 .. n - 1
    BY <1>1, <2>1
  <2>4. Room(d).data \in [0 .. m - 1 -> S]
    BY <1>1, <2>2, <2>3
  <2>5. \A i \in 0 .. m - 1 : i \notin Room(d).dirty => i < n /\ i \notin d.dirty
    BY <1>1, <2>1, <2>2
  <2>6. Room(d).dirty \subseteq 0 .. m - 1
    BY <1>1, <2>1, <2>2
  <2>7. Room(d).data[n] = Free
    BY <1>1, <2>1, <2>2
  <2>8. IsDb(Room(d), m, S)
    BY <2>1, <2>4, <2>6 DEF IsDb, Array
  <2>9. \A i \in 0 .. m - 1 : Room(d).data[i] = IF i < n THEN d.data[i] ELSE Free
    BY <2>2
  <2>10. QED BY <2>1, <2>5, <2>7, <2>8, <2>9, <1>1
<1>4. QED BY <1>2, <1>3

LEMMA TakeIs ==
  ASSUME NEW S, Free \in S, NEW n, NEW d, IsDb(d, n, S), NEW content \in S
  PROVE  \E m \in Nat : /\ IsDb(Take(d, content), m, S)
                         /\ Taken(d, n, FirstFree(d), content, Take(d, content), m)
<1> DEFINE room == Room(d)
           frees == {i \in DOMAIN room.data : room.data[i] = Free}
           s == FirstFree(d)
<1>0. n \in Nat
  BY DEF IsDb, Array
<1>1. PICK m \in Nat :
           /\ n <= m /\ IsDb(room, m, S)
           /\ \A i \in 0 .. m - 1 : room.data[i] = IF i < n THEN d.data[i] ELSE Free
           /\ \A i \in 0 .. m - 1 : i \notin room.dirty => i < n /\ i \notin d.dirty
           /\ \E i \in 0 .. m - 1 : room.data[i] = Free
  BY RoomIs
<1>2. /\ room.data \in [0 .. m - 1 -> S] /\ room.dirty \subseteq 0 .. m - 1
      /\ DOMAIN room.data = 0 .. m - 1
  BY <1>1 DEF IsDb, Array
<1>3. /\ Take(d, content).data = [room.data EXCEPT ![s] = content]
      /\ Take(d, content).dirty = room.dirty \cup {s}
  BY DEF Take
<1>4. s = Min(frees)
  BY DEF FirstFree
<1>5. frees \in SUBSET Nat /\ frees # {}
  BY <1>1, <1>2
<1>6. s \in 0 .. m - 1 /\ room.data[s] = Free
  <2>1. s \in frees
    BY <1>4, <1>5, MinIs
  <2>2. QED BY <2>1, <1>2
<1> HIDE DEF room, frees, s
<1>7. IsDb(Take(d, content), m, S)
  <2>1. Take(d, content).data \in [0 .. m - 1 -> S]
    BY <1>2, <1>3, <1>6
  <2>2. Take(d, content).dirty \subseteq 0 .. m - 1
    BY <1>2, <1>3, <1>6
  <2>3. QED BY <2>1, <2>2 DEF IsDb, Array
<1>8. Taken(d, n, s, content, Take(d, content), m)
  <2>1. s < n => d.data[s] = Free
    BY <1>1, <1>6
  <2>2. Take(d, content).data[s] = content /\ s \in Take(d, content).dirty
    BY <1>2, <1>3, <1>6
  <2>3. \A i \in 0 .. m - 1 : i # s =>
          Take(d, content).data[i] = IF i < n THEN d.data[i] ELSE Free
    BY <1>1, <1>2, <1>3
  <2>4. \A i \in 0 .. m - 1 : i \notin Take(d, content).dirty => i < n /\ i \notin d.dirty
    BY <1>1, <1>3
  <2>5. QED BY <1>1, <1>6, <2>1, <2>2, <2>3, <2>4 DEF Taken
<1>9. QED BY <1>7, <1>8 DEF s

LEMMA ReleaseIs ==
  ASSUME NEW S, Free \in S, NEW n, NEW d, IsDb(d, n, S), NEW slots,
         slots \subseteq 0 .. n - 1
  PROVE  /\ IsDb(Release(d, slots), n, S)
         /\ \A i \in 0 .. n - 1 :
              Release(d, slots).data[i] = IF i \in slots THEN Free ELSE d.data[i]
         /\ Release(d, slots).dirty = d.dirty \cup slots
<1>1. n \in Nat /\ d.data \in [0 .. n - 1 -> S] /\ d.dirty \subseteq 0 .. n - 1
  BY DEF IsDb, Array
<1>2. /\ Release(d, slots).data = [i \in 0 .. n - 1 |-> IF i \in slots THEN Free ELSE d.data[i]]
      /\ Release(d, slots).dirty = d.dirty \cup slots
  BY <1>1 DEF Release
<1>3. Release(d, slots).data \in [0 .. n - 1 -> S]
  BY <1>1, <1>2
<1>4. QED BY <1>1, <1>2, <1>3 DEF IsDb, Array
-----------------------------------------------------------------------------
(* The slots of a file, and what can be read of it.                         *)
IsFile(old, S) ==
  old.entries \in Nat /\ \E k \in Nat : Array(old.slots, k, S)

(* Memory and file agree on the slots that are not dirty.                   *)
Agree(d, old) ==
  \A i \in DOMAIN d.data \ d.dirty : i \in DOMAIN old.slots /\ old.slots[i] = d.data[i]

LEMMA LoadIs ==
  ASSUME NEW S, NEW old, IsFile(old, S)
  PROVE  /\ \E n \in Nat : Array(Load(old), n, S)
         /\ \A i \in DOMAIN Load(old) :
              i \in DOMAIN old.slots /\ Load(old)[i] = old.slots[i]
<1>1. PICK k \in Nat : old.slots \in [0 .. k - 1 -> S]
  BY DEF IsFile, Array
<1>2. old.entries \in Nat
  BY DEF IsFile
<1>3. CASE old.entries - 1 \in DOMAIN old.slots
  <2>1. Load(old) = [i \in 0 .. old.entries - 1 |-> old.slots[i]]
    BY <1>3 DEF Load
  <2>2. \A i \in 0 .. old.entries - 1 : i \in 0 .. k - 1
    BY <1>1, <1>2, <1>3
  <2>3. Load(old) \in [0 .. old.entries - 1 -> S]
    BY <1>1, <2>1, <2>2
  <2>4. QED BY <1>1, <1>2, <2>1, <2>2, <2>3 DEF Array
<1>4. CASE ~ (old.entries - 1 \in DOMAIN old.slots)
  <2>1. Load(old) = NoSlots
    BY <1>4 DEF Load
  <2>2. NoSlots \in [0 .. 0 - 1 -> S] /\ DOMAIN NoSlots = {}
    BY DEF NoSlots
  <2>3. QED BY <2>1, <2>2 DEF Array
<1>5. QED BY <1>3, <1>4

(* w is the old file with the dirty slots below `end' written over it.      *)
Written(d, n, old, end, S, w) ==
  /\ w.entries = n
  /\ \E k \in Nat :
       /\ Array(w.slots, k, S)
       /\ DOMAIN old.slots \subseteq 0 .. k - 1
       /\ \A i \in d.dirty : i < end => i \in 0 .. k - 1
       /\ \A i \in 0 .. k - 1 : w.slots[i] =
            IF i \in d.dirty /\ i < end THEN d.data[i]
            ELSE IF i \in DOMAIN old.slots THEN old.slots[i] ELSE Free

LEMMA WrittenIs ==
  ASSUME NEW S, Free \in S, NEW n, NEW d, IsDb(d, n, S), NEW old, IsFile(old, S),
         NEW end \in Nat
  PROVE  Written(d, n, old, end, S, WriteSlots(d, old, end))
<1> DEFINE new == {i \in d.dirty : i < end}
           all == {-1} \cup new \cup DOMAIN old.slots
           last == Max(all)
           w == WriteSlots(d, old, end)
<1>1. /\ n \in Nat /\ d.data \in [0 .. n - 1 -> S] /\ d.dirty \subseteq 0 .. n - 1
      /\ Number(d.data) = n
  BY NumberIs DEF IsDb, Array
<1>2. PICK k \in Nat : old.slots \in [0 .. k - 1 -> S]
  BY DEF IsFile, Array
<1>3. last \in all /\ \A y \in all : last >= y
  <2>1. all \in SUBSET (-1 .. n + k) /\ all # {} /\ n + k \in Nat
    BY <1>1, <1>2
  <2> HIDE DEF all
  <2>2. QED BY <2>1, MaxIs
<1>4. /\ w.entries = n
      /\ w.slots = [i \in 0 .. last |->
                      CASE i \in new -> d.data[i]
                        [] i \notin new /\ i \in DOMAIN old.slots -> old.slots[i]
                        [] OTHER -> Free]
  BY <1>1 DEF WriteSlots
<1>5. \A i \in new : i \in 0 .. n - 1
  BY <1>1
<1>6. last \in -1 .. n + k
  BY <1>1, <1>2, <1>3
<1> DEFINE m == last + 1
<1>7. m \in Nat /\ 0 .. last = 0 .. m - 1
  BY <1>1, <1>2, <1>6
<1>8. /\ \A i \in d.dirty : i < end => i \in 0 .. last
      /\ DOMAIN old.slots \subseteq 0 .. last
  BY <1>1, <1>2, <1>3, <1>6
<1> HIDE DEF last, w
<1>9. \A i \in 0 .. last : w.slots[i] = IF i \in d.dirty /\ i < end THEN d.data[i]
                   ELSE IF i \in DOMAIN old.slots THEN old.slots[i] ELSE Free
  BY <1>4
<1>10. DOMAIN w.slots = 0 .. last /\ w.slots = [i \in DOMAIN w.slots |-> w.slots[i]]
  BY <1>4
<1>11. \A i \in 0 .. last : w.slots[i] \in S
  <2> SUFFICES ASSUME NEW i \in 0 .. last PROVE w.slots[i] \in S
    OBVIOUS
  <2>1. CASE i \in d.dirty /\ i < end
    BY <2>1, <1>1, <1>9
  <2>2. CASE ~(i \in d.dirty /\ i < end) /\ i \in DOMAIN old.slots
    BY <2>2, <1>2, <1>9
  <2>3. CASE ~(i \in d.dirty /\ i < end) /\ ~(i \in DOMAIN old.slots)
    BY <2>3, <1>9
  <2>4. QED BY <2>1, <2>2, <2>3
<1>12. w.slots \in [0 .. last -> S]
  BY <1>10, <1>11
<1> HIDE DEF m
<1>13. Array(w.slots, m, S)
  BY <1>7, <1>12 DEF Array
<1>14. QED BY <1>4, <1>7, <1>8, <1>9, <1>13 DEF w, Written

(* All dirty slots are written: the next session reads the slots as they    *)
(* are, if those that are not dirty agreed with the file.                   *)
LEMMA WholeIsRead ==
  ASSUME NEW S, Free \in S, NEW n, NEW d, IsDb(d, n, S), NEW old, IsFile(old, S),
         Agree(d, old)
  PROVE  Load(WriteSlots(d, old, Number(d.data))) = d.data
<1> DEFINE w == WriteSlots(d, old, n)
<1>1. /\ n \in Nat /\ d.data \in [0 .. n - 1 -> S] /\ d.dirty \subseteq 0 .. n - 1
      /\ Number(d.data) = n /\ DOMAIN d.data = 0 .. n - 1
  BY NumberIs DEF IsDb, Array
<1>0. n \in Nat
  BY <1>1
<1>2. Written(d, n, old, n, S, w)
  BY <1>0, WrittenIs
<1> HIDE DEF w
<1>3. PICK k \in Nat :
              /\ Array(w.slots, k, S)
              /\ DOMAIN old.slots \subseteq 0 .. k - 1
              /\ \A i \in d.dirty : i < n => i \in 0 .. k - 1
              /\ \A i \in 0 .. k - 1 : w.slots[i] =
                   IF i \in d.dirty /\ i < n THEN d.data[i]
                   ELSE IF i \in DOMAIN old.slots THEN old.slots[i] ELSE Free
  BY <1>2 DEF Written
<1>4. w.entries = n /\ DOMAIN w.slots = 0 .. k - 1
  BY <1>2, <1>3 DEF Array, Written
<1>5. \A i \in 0 .. n - 1 : i \in 0 .. k - 1 /\ w.slots[i] = d.data[i]
  <2> SUFFICES ASSUME NEW i \in 0 .. n - 1
               PROVE  i \in 0 .. k - 1 /\ w.slots[i] = d.data[i]
    OBVIOUS
  <2>1. CASE i \in d.dirty
    BY <2>1, <1>1, <1>3
  <2>2. CASE i \notin d.dirty
    <3>1. i \in DOMAIN old.slots /\ old.slots[i] = d.data[i]
      BY <2>2, <1>1 DEF Agree
    <3>2. QED BY <2>2, <3>1, <1>3
  <2>3. QED BY <2>1, <2>2
<1>6. CASE n = 0
  <2>1. w.entries - 1 \notin DOMAIN w.slots
    BY <1>4, <1>6
  <2>2. Load(w) = NoSlots
    BY <2>1 DEF Load
  <2>3. DOMAIN d.data = {} /\ d.data = [i \in {} |-> d.data[i]]
    BY <1>1, <1>6
  <2>4. NoSlots = [i \in {} |-> d.data[i]]
    BY DEF NoSlots
  <2>5. QED BY <1>1, <2>2, <2>3, <2>4 DEF w
<1>7. CASE n # 0
  <2>1. n - 1 \in 0 .. n - 1
    BY <1>1, <1>7
  <2>2. w.entries - 1 \in DOMAIN w.slots
    BY <2>1, <1>4, <1>5
  <2>3. Load(w) = [i \in 0 .. n - 1 |-> w.slots[i]]
    BY <2>2, <1>4 DEF Load
  <2>4. Load(w) = [i \in 0 .. n - 1 |-> d.data[i]]
    BY <2>3, <1>5
  <2>5. QED BY <1>1, <2>4 DEF w
<1>8. QED BY <1>6, <1>7

(* The file that a failed write leaves.                                     *)
LEMMA TornIs ==
  ASSUME NEW S, Free \in S, NEW n, NEW d, IsDb(d, n, S), NEW old, IsFile(old, S),
         NEW f \in TornFiles(d, old)
  PROVE  IsFile(f, S) /\ Load(f) \in {Load(old), d.data, NoSlots}
<1>1. n \in Nat /\ DOMAIN d.data \subseteq Nat
  BY DEF IsDb, Array
<1>2. PICK end \in DOMAIN d.data : f = WriteSlots(d, old, end)
  BY DEF TornFiles
<1>3. Written(d, n, old, end, S, f)
  BY <1>1, <1>2, WrittenIs
<1>4. IsFile(f, S)
  BY <1>1, <1>3 DEF Written, IsFile
<1>5. QED BY <1>4 DEF TornFiles
-----------------------------------------------------------------------------
Kinds == {"composer", "comment"}

(* The block of kind k that the general part g refers to, or none.         *)
Ref(data, g, k) == IF k = "composer" THEN data[g].comp ELSE data[g].com

(* References are to blocks of their kind, a block has an owner, and no    *)
(* two general parts refer to the same one.                                *)
OwnedBy(data, k) ==
  /\ \A g \in Generals(data) : Ref(data, g, k) # NoRef =>
       Ref(data, g, k) \in DOMAIN data /\ data[Ref(data, g, k)].kind = k
  /\ \A b \in DOMAIN data : data[b].kind = k =>
       \E g \in Generals(data) : Ref(data, g, k) = b
  /\ \A g, h \in Generals(data) :
       Ref(data, g, k) # NoRef /\ Ref(data, g, k) = Ref(data, h, k) => g = h
Owned(data) == OwnedBy(data, "composer") /\ OwnedBy(data, "comment")

(* The slots in memory and in the file; in a session they differ in the    *)
(* dirty ones alone, and not at all before something changed.              *)
SlotsInv == IsFile(file, Slots) /\ \E n \in Nat : IsDb(db, n, Slots)
OwnedInv == Owned(mdbData) /\ Owned(Load(file))
DiskInv == running => Agree(db, file) /\ (~mdbDirty => mdbData = Load(file))

IInv == SlotsInv /\ OwnedInv /\ DiskInv
-----------------------------------------------------------------------------
LEMMA FreeSlot == Free \in Slots /\ Free.kind = "free"
BY DEF Free, Slots

LEMMA GeneralSlot ==
  ASSUME NEW s \in Slots, s.kind = "general"
  PROVE  s.key \in Keys /\ s.read \in BOOLEAN /\ s.comp \in Int /\ s.com \in Int
BY DEF Slots, Free

LEMMA NewGeneral ==
  ASSUME NEW key \in Keys, NEW read \in BOOLEAN, NEW comp \in Int, NEW com \in Int
  PROVE  /\ General(key, read, comp, com) \in Slots
         /\ General(key, read, comp, com).kind = "general"
         /\ General(key, read, comp, com).comp = comp
         /\ General(key, read, comp, com).com = com
BY DEF General, Slots

LEMMA NewBlock ==
  ASSUME NEW kind \in Kinds, NEW text \in Texts
  PROVE  Block(kind, text) \in Slots /\ Block(kind, text).kind = kind
BY DEF Block, Slots, Kinds
-----------------------------------------------------------------------------
(* What a change of the slots does to the blocks of one kind.              *)

(* d of n slots becomes e of m: the general part g, which referred to the  *)
(* block o of kind k, refers to r, which is new; o is gone.                *)
Rewrites(d, n, g, k, e, m) ==
  LET o == Ref(d, g, k)
      r == Ref(e, g, k)
  IN  /\ n \in Nat /\ m \in Nat /\ n <= m /\ DOMAIN d = 0 .. n - 1 /\ DOMAIN e = 0 .. m - 1
      /\ g \in Generals(d)
      /\ Generals(e) = Generals(d)
      /\ \A h \in Generals(d) : h # g => Ref(e, h, k) = Ref(d, h, k)
      /\ \A i \in 0 .. m - 1 :
           e[i].kind = k <=> i = r \/ (i < n /\ d[i].kind = k /\ i # o)
      /\ r # NoRef => r \in 0 .. m - 1 /\ (r < n => d[r].kind # k \/ r = o)

LEMMA RewriteOwned ==
  ASSUME NEW d, NEW n, NEW e, NEW m, NEW g, NEW k \in Kinds,
         Rewrites(d, n, g, k, e, m), OwnedBy(d, k)
  PROVE  OwnedBy(e, k)
<1> DEFINE o == Ref(d, g, k)
           r == Ref(e, g, k)
<1>1. /\ n \in Nat /\ m \in Nat /\ n <= m /\ DOMAIN d = 0 .. n - 1 /\ DOMAIN e = 0 .. m - 1
      /\ g \in Generals(d)
      /\ Generals(e) = Generals(d)
      /\ \A h \in Generals(d) : h # g => Ref(e, h, k) = Ref(d, h, k)
      /\ \A i \in 0 .. m - 1 :
           e[i].kind = k <=> i = r \/ (i < n /\ d[i].kind = k /\ i # o)
      /\ r # NoRef => r \in 0 .. m - 1 /\ (r < n => d[r].kind # k \/ r = o)
  BY DEF Rewrites
<1>2. /\ \A h \in Generals(d) : Ref(d, h, k) # NoRef =>
           Ref(d, h, k) \in DOMAIN d /\ d[Ref(d, h, k)].kind = k
      /\ \A b \in DOMAIN d : d[b].kind = k => \E h \in Generals(d) : Ref(d, h, k) = b
      /\ \A h, j \in Generals(d) :
           Ref(d, h, k) # NoRef /\ Ref(d, h, k) = Ref(d, j, k) => h = j
  BY DEF OwnedBy
<1> HIDE DEF o, r
<1>3. ASSUME NEW h \in Generals(d), h # g, Ref(d, h, k) # NoRef
      PROVE  /\ Ref(d, h, k) \in 0 .. n - 1 /\ d[Ref(d, h, k)].kind = k
             /\ Ref(d, h, k) # o
  BY <1>1, <1>2, <1>3 DEF o
<1>4. \A i \in 0 .. n - 1 : i \in 0 .. m - 1 /\ i < n
  BY <1>1
<1>5. ASSUME NEW h \in Generals(e), Ref(e, h, k) # NoRef
      PROVE  Ref(e, h, k) \in DOMAIN e /\ e[Ref(e, h, k)].kind = k
  <2>1. CASE h = g
    BY <2>1, <1>1, <1>5 DEF r
  <2>2. CASE h # g
    <3>1. Ref(e, h, k) = Ref(d, h, k) /\ h \in Generals(d)
      BY <2>2, <1>1
    <3>2. /\ Ref(d, h, k) \in 0 .. n - 1 /\ d[Ref(d, h, k)].kind = k /\ Ref(d, h, k) # o
      BY <2>2, <3>1, <1>3, <1>5
    <3>3. QED BY <3>1, <3>2, <1>1, <1>4
  <2>3. QED BY <2>1, <2>2
<1>6. ASSUME NEW b \in DOMAIN e, e[b].kind = k
      PROVE  \E h \in Generals(e) : Ref(e, h, k) = b
  <2>1. CASE b = r
    BY <2>1, <1>1 DEF r
  <2>2. CASE b # r
    <3>1. b \in 0 .. n - 1 /\ d[b].kind = k /\ b # o
      BY <2>2, <1>1, <1>6
    <3>2. PICK h \in Generals(d) : Ref(d, h, k) = b
      BY <3>1, <1>1, <1>2
    <3>3. h # g
      BY <3>1, <3>2 DEF o
    <3>4. QED BY <3>2, <3>3, <1>1
  <2>3. QED BY <2>1, <2>2
<1>7. ASSUME NEW h \in Generals(d), h # g, Ref(d, h, k) # NoRef
      PROVE  Ref(d, h, k) # r
  BY <1>1, <1>3, <1>7
<1>8. ASSUME NEW h \in Generals(e), NEW j \in Generals(e),
             Ref(e, h, k) # NoRef, Ref(e, h, k) = Ref(e, j, k)
      PROVE  h = j
  <2>1. CASE h = g /\ j # g
    BY <2>1, <1>1, <1>7, <1>8 DEF r
  <2>2. CASE h # g /\ j = g
    BY <2>2, <1>1, <1>7, <1>8 DEF r
  <2>3. CASE h # g /\ j # g
    BY <2>3, <1>1, <1>2, <1>8
  <2>4. QED BY <2>1, <2>2, <2>3
<1>9. QED BY <1>5, <1>6, <1>8 DEF OwnedBy

(* d becomes e: there is one more general part, without blocks.            *)
Adds(d, n, s, k, e, m) ==
  /\ n \in Nat /\ m \in Nat /\ n <= m /\ DOMAIN d = 0 .. n - 1 /\ DOMAIN e = 0 .. m - 1
  /\ Generals(e) = Generals(d) \cup {s}
  /\ Ref(e, s, k) = NoRef
  /\ \A h \in Generals(d) : Ref(e, h, k) = Ref(d, h, k)
  /\ \A i \in 0 .. m - 1 : e[i].kind = k <=> i < n /\ d[i].kind = k

LEMMA AddOwned ==
  ASSUME NEW d, NEW n, NEW e, NEW m, NEW s, NEW k \in Kinds,
         Adds(d, n, s, k, e, m), OwnedBy(d, k)
  PROVE  OwnedBy(e, k)
<1>1. /\ n \in Nat /\ m \in Nat /\ n <= m /\ DOMAIN d = 0 .. n - 1 /\ DOMAIN e = 0 .. m - 1
      /\ Generals(e) = Generals(d) \cup {s}
      /\ Ref(e, s, k) = NoRef
      /\ \A h \in Generals(d) : Ref(e, h, k) = Ref(d, h, k)
      /\ \A i \in 0 .. m - 1 : e[i].kind = k <=> i < n /\ d[i].kind = k
  BY DEF Adds
<1>2. /\ \A h \in Generals(d) : Ref(d, h, k) # NoRef =>
           Ref(d, h, k) \in DOMAIN d /\ d[Ref(d, h, k)].kind = k
      /\ \A b \in DOMAIN d : d[b].kind = k => \E h \in Generals(d) : Ref(d, h, k) = b
      /\ \A h, j \in Generals(d) :
           Ref(d, h, k) # NoRef /\ Ref(d, h, k) = Ref(d, j, k) => h = j
  BY DEF OwnedBy
<1>3. \A i \in 0 .. n - 1 : i \in 0 .. m - 1 /\ i < n
  BY <1>1
<1>4. ASSUME NEW h \in Generals(e), Ref(e, h, k) # NoRef
      PROVE  Ref(e, h, k) \in DOMAIN e /\ e[Ref(e, h, k)].kind = k
  <2>1. h \in Generals(d) /\ Ref(e, h, k) = Ref(d, h, k)
    BY <1>1, <1>4
  <2>2. Ref(d, h, k) \in 0 .. n - 1 /\ d[Ref(d, h, k)].kind = k
    BY <2>1, <1>1, <1>2, <1>4
  <2>3. QED BY <2>1, <2>2, <1>1, <1>3
<1>5. ASSUME NEW b \in DOMAIN e, e[b].kind = k
      PROVE  \E h \in Generals(e) : Ref(e, h, k) = b
  <2>1. b \in 0 .. n - 1 /\ d[b].kind = k
    BY <1>1, <1>5
  <2>2. QED BY <2>1, <1>1, <1>2
<1>6. ASSUME NEW h \in Generals(e), NEW j \in Generals(e),
             Ref(e, h, k) # NoRef, Ref(e, h, k) = Ref(e, j, k)
      PROVE  h = j
  <2>1. h \in Generals(d) /\ j \in Generals(d)
    BY <1>1, <1>6
  <2>2. QED BY <2>1, <1>1, <1>2, <1>6
<1>7. QED BY <1>4, <1>5, <1>6 DEF OwnedBy
-----------------------------------------------------------------------------
(* The changes.                                                            *)

(* A text gets the block r, or none if it is empty.                        *)
Put(d, n, kind, text, r, e, m) ==
  /\ n <= m
  /\ r = NoRef <=> text = NoText
  /\ r # NoRef => /\ r \in 0 .. m - 1
                  /\ r < n => d.data[r] = Free
                  /\ e.data[r] = Block(kind, text)
  /\ \A i \in 0 .. m - 1 : i # r => e.data[i] = IF i < n THEN d.data[i] ELSE Free
  /\ \A i \in 0 .. m - 1 : i \notin e.dirty => i < n /\ i \notin d.dirty /\ i # r

LEMMA PutIs ==
  ASSUME NEW n, NEW d, IsDb(d, n, Slots), NEW kind \in Kinds, NEW text \in Texts \cup {NoText}
  PROVE  /\ RefOf(d, text) \in Int
         /\ \E m \in Nat : /\ IsDb(PutText(d, kind, text), m, Slots)
                           /\ Put(d, n, kind, text, RefOf(d, text), PutText(d, kind, text), m)
<1>1. n \in Nat /\ DOMAIN d.data = 0 .. n - 1 /\ d.dirty \subseteq 0 .. n - 1
  BY DEF IsDb, Array
<1>2. CASE text = NoText
  <2>1. PutText(d, kind, text) = d /\ RefOf(d, text) = NoRef
    BY <1>2 DEF PutText, RefOf
  <2>2. n <= n /\ \A i \in 0 .. n - 1 : i < n /\ i # NoRef
    BY <1>1 DEF NoRef
  <2>3. Put(d, n, kind, text, NoRef, d, n)
    BY <1>1, <1>2, <2>2 DEF Put
  <2>4. NoRef \in Int
    BY DEF NoRef
  <2>5. QED BY <1>1, <2>1, <2>3, <2>4
<1>3. CASE text # NoText
  <2> DEFINE s == FirstFree(d)
             c == Block(kind, text)
             e == Take(d, c)
  <2>1. PutText(d, kind, text) = e /\ RefOf(d, text) = s
    BY <1>3 DEF PutText, RefOf
  <2>2. c \in Slots
    BY <1>3, NewBlock
  <2>3. PICK m \in Nat : IsDb(e, m, Slots) /\ Taken(d, n, s, c, e, m)
    BY <2>2, FreeSlot, TakeIs
  <2> HIDE DEF s, c, e
  <2>4. s \in Int /\ s # NoRef
    BY <2>3 DEF Taken, NoRef
  <2>5. Put(d, n, kind, text, s, e, m)
    BY <1>3, <2>2, <2>3, <2>4 DEF Taken, Put, c
  <2>6. QED BY Zenon, <2>1, <2>3, <2>4, <2>5
<1>4. QED BY <1>2, <1>3

(* The slots of e are those of d, but what the write changes: the blocks   *)
(* of general part g are gone, u and v are new and g refers to these.      *)
Wrote(d, n, g, info, u, v, e, m) ==
  LET p == d[g].comp
      q == d[g].com
  IN  /\ n \in Nat /\ m \in Nat /\ n <= m
      /\ p = NoRef \/ (p \in 0 .. n - 1 /\ d[p].kind = "composer")
      /\ q = NoRef \/ (q \in 0 .. n - 1 /\ d[q].kind = "comment")
      /\ u = NoRef <=> info.comp = NoText
      /\ v = NoRef <=> info.com = NoText
      /\ u # NoRef => u \in 0 .. m - 1 /\ (u < n => d[u] = Free \/ u \in {p, q})
      /\ v # NoRef => v \in 0 .. m - 1 /\ (v < n => d[v] = Free \/ v \in {p, q})
      /\ u # NoRef => u # v /\ e[u] = Block("composer", info.comp)
      /\ v # NoRef => e[v] = Block("comment", info.com)
      /\ g \in 0 .. n - 1 /\ d[g].kind = "general"
      /\ e[g] = General(d[g].key, info.read, u, v)
      /\ \A i \in 0 .. m - 1 : i \notin {g, u, v} =>
           e[i] = IF i < n /\ i \notin {p, q} THEN d[i] ELSE Free

LEMMA WroteRewrites ==
  ASSUME NEW d, NEW n, NEW e, NEW m, Array(d, n, Slots), Array(e, m, Slots),
         NEW g, NEW info, NEW u, NEW v,
         Wrote(d, n, g, info, u, v, e, m), NEW k \in Kinds
  PROVE  Rewrites(d, n, g, k, e, m)
<1> DEFINE p == d[g].comp
           q == d[g].com
           s == e[g]
<1>0. /\ n \in Nat /\ m \in Nat /\ n <= m
      /\ p = NoRef \/ (p \in 0 .. n - 1 /\ d[p].kind = "composer")
      /\ q = NoRef \/ (q \in 0 .. n - 1 /\ d[q].kind = "comment")
      /\ u # NoRef => u \in 0 .. m - 1 /\ (u < n => d[u] = Free \/ u \in {p, q})
      /\ v # NoRef => v \in 0 .. m - 1 /\ (v < n => d[v] = Free \/ v \in {p, q})
      /\ u # NoRef => u # v /\ e[u] = Block("composer", info.comp)
      /\ v # NoRef => e[v] = Block("comment", info.com)
      /\ g \in 0 .. n - 1 /\ d[g].kind = "general" /\ s = General(d[g].key, info.read, u, v)
      /\ \A i \in 0 .. m - 1 : i \notin {g, u, v} =>
           e[i] = IF i < n /\ i \notin {p, q} THEN d[i] ELSE Free
  BY DEF Wrote
<1> HIDE DEF p, q, s
<1>00. /\ s.kind = "general" /\ s.comp = u /\ s.com = v
       /\ u # NoRef => e[u].kind = "composer"
       /\ v # NoRef => e[v].kind = "comment"
  BY <1>0 DEF General, Block
<1>1. /\ n \in Nat /\ m \in Nat /\ n <= m
      /\ p = NoRef \/ (p \in 0 .. n - 1 /\ d[p].kind = "composer")
      /\ q = NoRef \/ (q \in 0 .. n - 1 /\ d[q].kind = "comment")
      /\ u # NoRef => u \in 0 .. m - 1 /\ (u < n => d[u] = Free \/ u \in {p, q})
      /\ v # NoRef => v \in 0 .. m - 1 /\ (v < n => d[v] = Free \/ v \in {p, q})
      /\ u # NoRef => u # v /\ e[u].kind = "composer"
      /\ v # NoRef => e[v].kind = "comment"
      /\ g \in 0 .. n - 1 /\ d[g].kind = "general" /\ e[g] = s
      /\ s.kind = "general" /\ s.comp = u /\ s.com = v
      /\ \A i \in 0 .. m - 1 : i \notin {g, u, v} =>
           e[i] = IF i < n /\ i \notin {p, q} THEN d[i] ELSE Free
  BY <1>0, <1>00 DEF s
<1>2. DOMAIN d = 0 .. n - 1 /\ DOMAIN e = 0 .. m - 1
  BY DEF Array
<1>3. Free.kind = "free" /\ \A i \in 0 .. n - 1 : i \in 0 .. m - 1 /\ i < n
  BY <1>1, FreeSlot
<1>4. g # u /\ g # v /\ g # p /\ g # q
  BY <1>1, <1>3 DEF NoRef
<1>5. \A i \in 0 .. m - 1 : e[i].kind =
        IF i = g THEN "general"
        ELSE IF i = u THEN "composer"
        ELSE IF i = v THEN "comment"
        ELSE IF i < n /\ i # p /\ i # q THEN d[i].kind ELSE "free"
  <2> SUFFICES ASSUME NEW i \in 0 .. m - 1
               PROVE  e[i].kind =
                        IF i = g THEN "general"
                        ELSE IF i = u THEN "composer"
                        ELSE IF i = v THEN "comment"
                        ELSE IF i < n /\ i # p /\ i # q THEN d[i].kind ELSE "free"
    OBVIOUS
  <2>0. i # NoRef
    BY <1>1 DEF NoRef
  <2>1. CASE i \in {g, u, v}
    BY <2>0, <2>1, <1>1, <1>4
  <2>2. CASE i \notin {g, u, v}
    BY <2>2, <1>1, <1>3
  <2>3. QED BY <2>1, <2>2
<1>6. ASSUME NEW i \in 0 .. m - 1, i < n, i \in {u, v}
      PROVE  d[i].kind = "free" \/ i \in {p, q}
  <2>1. i # NoRef
    BY <1>1 DEF NoRef
  <2>2. QED BY <2>1, <1>1, <1>3, <1>6
<1>7. ASSUME NEW i \in 0 .. m - 1, i < n
      PROVE  /\ i = p => d[i].kind = "composer"
             /\ i = q => d[i].kind = "comment"
  <2>1. i # NoRef
    BY <1>1 DEF NoRef
  <2>2. QED BY <2>1, <1>1
<1>8. Generals(e) = Generals(d)
  <2>1. ASSUME NEW i \in 0 .. m - 1
        PROVE  e[i].kind = "general" <=> i < n /\ d[i].kind = "general"
    <3>1. CASE i = g
      BY <3>1, <1>1, <1>3, <1>5
    <3>2. CASE i # g /\ i < n
      BY <3>2, <1>5, <1>6, <1>7
    <3>3. CASE i # g /\ ~(i < n)
      BY <3>3, <1>5
    <3>4. QED BY <3>1, <3>2, <3>3
  <2>2. \A i \in 0 .. m - 1 : i < n <=> i \in 0 .. n - 1
    BY <1>1
  <2>3. QED BY <2>1, <2>2, <1>2, <1>3 DEF Generals
<1>9. ASSUME NEW h \in Generals(d), h # g PROVE e[h] = d[h]
  <2>1. h \in 0 .. n - 1 /\ d[h].kind = "general"
    BY <1>2 DEF Generals
  <2>2. h \in 0 .. m - 1 /\ h < n
    BY <2>1, <1>3
  <2>3. h \notin {p, q, u, v}
    BY <2>1, <2>2, <1>6, <1>7
  <2>4. QED BY <2>2, <2>3, <1>1, <1>9
<1>10. \A h \in Generals(d) : h # g => Ref(e, h, k) = Ref(d, h, k)
  BY <1>9 DEF Ref
<1>11. g \in Generals(d)
  BY <1>1, <1>2 DEF Generals
<1>12. CASE k = "composer"
  <2>1. Ref(d, g, k) = p /\ Ref(e, g, k) = u
    BY <1>1, <1>12 DEF Ref, p
  <2>2. ASSUME NEW i \in 0 .. m - 1
        PROVE  e[i].kind = k <=> i = u \/ (i < n /\ d[i].kind = k /\ i # p)
    <3>1. CASE i = g \/ i = u
      BY <3>1, <1>1, <1>4, <1>5, <1>12
    <3>2. CASE i # g /\ i # u /\ i < n
      BY <3>2, <1>5, <1>6, <1>7, <1>12
    <3>3. CASE i # g /\ i # u /\ ~(i < n)
      BY <3>3, <1>5, <1>12
    <3>4. QED BY <3>1, <3>2, <3>3
  <2>3. u # NoRef => u \in 0 .. m - 1 /\ (u < n => d[u].kind # k \/ u = p)
    BY <1>1, <1>3, <1>7, <1>12
  <2>4. QED BY <2>1, <2>2, <2>3, <1>1, <1>2, <1>8, <1>10, <1>11 DEF Rewrites
<1>13. CASE k = "comment"
  <2>1. Ref(d, g, k) = q /\ Ref(e, g, k) = v
    BY <1>1, <1>13 DEF Ref, q
  <2>2. ASSUME NEW i \in 0 .. m - 1
        PROVE  e[i].kind = k <=> i = v \/ (i < n /\ d[i].kind = k /\ i # q)
    <3>0. u # v \/ u = NoRef
      BY <1>1
    <3>1. CASE i = g \/ i = u \/ i = v
      <4>1. i # NoRef
        BY <1>1 DEF NoRef
      <4>2. QED BY <4>1, <3>0, <3>1, <1>1, <1>4, <1>5, <1>6, <1>7, <1>13
    <3>2. CASE i # g /\ i # u /\ i # v /\ i < n
      BY <3>2, <1>5, <1>6, <1>7, <1>13
    <3>3. CASE i # g /\ i # u /\ i # v /\ ~(i < n)
      BY <3>3, <1>5, <1>13
    <3>4. QED BY <3>1, <3>2, <3>3
  <2>3. v # NoRef => v \in 0 .. m - 1 /\ (v < n => d[v].kind # k \/ v = q)
    BY <1>1, <1>3, <1>7, <1>13
  <2>4. QED BY <2>1, <2>2, <2>3, <1>1, <1>2, <1>8, <1>10, <1>11 DEF Rewrites
<1>14. QED BY <1>12, <1>13 DEF Kinds

LEMMA WriteDoes ==
  ASSUME NEW n, IsDb(db, n, Slots), Owned(mdbData),
         NEW ref \in Generals(mdbData), NEW info \in Infos, mdbWriteModuleInfo(ref, info)
  PROVE  \E m \in Nat :
           /\ IsDb(db', m, Slots) /\ Kept(db, n, db', m)
           /\ \E u, v : Wrote(mdbData, n, ref, info, u, v, mdbData', m)
<1> DEFINE p == mdbData[ref].comp
           q == mdbData[ref].com
           F == FreeBlocks(ref)
           A == PutText(F, "composer", info.comp)
           B == PutText(A, "comment", info.com)
           u == RefOf(F, info.comp)
           v == RefOf(A, info.com)
           s == General(mdbData[ref].key, info.read, u, v)
<1>1. /\ n \in Nat /\ mdbData \in [0 .. n - 1 -> Slots] /\ dirty \subseteq 0 .. n - 1
      /\ db.data = mdbData /\ db.dirty = dirty
  BY DEF IsDb, Array, db
<1>2. ref \in 0 .. n - 1 /\ mdbData[ref] \in Slots /\ mdbData[ref].kind = "general"
  BY <1>1 DEF Generals
<1>3. mdbData[ref].key \in Keys /\ p \in Int /\ q \in Int
  BY <1>2, GeneralSlot
<1>4. /\ info.read \in BOOLEAN /\ info.comp \in Texts \cup {NoText}
      /\ info.com \in Texts \cup {NoText}
  BY DEF Infos
<1>5. /\ p = NoRef \/ (p \in 0 .. n - 1 /\ mdbData[p].kind = "composer")
      /\ q = NoRef \/ (q \in 0 .. n - 1 /\ mdbData[q].kind = "comment")
  BY <1>1, <1>2 DEF Owned, OwnedBy, Ref
<1>6. Blocks(ref) = {p, q} \ {NoRef} /\ {p, q} \ {NoRef} \subseteq 0 .. n - 1
  BY <1>5 DEF Blocks
<1>7. /\ IsDb(F, n, Slots)
      /\ \A i \in 0 .. n - 1 : F.data[i] = IF i \in Blocks(ref) THEN Free ELSE mdbData[i]
      /\ F.dirty = dirty \cup Blocks(ref)
  BY <1>1, <1>6, FreeSlot, ReleaseIs DEF FreeBlocks
<1>8. /\ mdbData' = [B.data EXCEPT ![ref] = s] /\ dirty' = B.dirty \cup {ref}
      /\ db'.data = mdbData' /\ db'.dirty = dirty'
  BY DEF mdbWriteModuleInfo, db
<1> HIDE DEF F
<1>9. PICK a \in Nat : IsDb(A, a, Slots) /\ Put(F, n, "composer", info.comp, u, A, a)
  BY <1>4, <1>7, PutIs DEF Kinds
<1>10. u \in Int
  BY <1>4, <1>7, PutIs DEF Kinds
<1> HIDE DEF A, u
<1>11. PICK m \in Nat : IsDb(B, m, Slots) /\ Put(A, a, "comment", info.com, v, B, m)
  BY <1>4, <1>9, PutIs DEF Kinds
<1>12. v \in Int
  BY <1>4, <1>9, PutIs DEF Kinds
<1> HIDE DEF B, v
<1>13. s \in Slots
  BY <1>3, <1>4, <1>10, <1>12, NewGeneral
<1> HIDE DEF s, p, q
<1>14. /\ n <= a /\ a <= m
       /\ B.data \in [0 .. m - 1 -> Slots] /\ B.dirty \subseteq 0 .. m - 1
  BY <1>9, <1>11 DEF Put, IsDb, Array
<1>15. ref \in 0 .. m - 1 /\ ref \notin Blocks(ref) /\ ref < n /\ ref < a
  BY <1>1, <1>2, <1>5, <1>6, <1>14
<1>16. /\ u # NoRef => /\ u \in 0 .. a - 1
                       /\ u < n => F.data[u] = Free
                       /\ A.data[u] = Block("composer", info.comp)
       /\ \A i \in 0 .. a - 1 : i # u => A.data[i] = IF i < n THEN F.data[i] ELSE Free
       /\ \A i \in 0 .. a - 1 : i \notin A.dirty => i < n /\ i \notin F.dirty /\ i # u
  BY <1>9 DEF Put
<1>17. /\ v # NoRef => /\ v \in 0 .. m - 1
                       /\ v < a => A.data[v] = Free
                       /\ B.data[v] = Block("comment", info.com)
       /\ \A i \in 0 .. m - 1 : i # v => B.data[i] = IF i < a THEN A.data[i] ELSE Free
       /\ \A i \in 0 .. m - 1 : i \notin B.dirty => i < a /\ i \notin A.dirty /\ i # v
  BY <1>11 DEF Put
<1>18. /\ Free.kind = "free" /\ Block("composer", info.comp).kind = "composer"
       /\ Block("comment", info.com).kind = "comment"
  BY FreeSlot DEF Block
<1>19. \A i \in 0 .. m - 1 : mdbData'[i] = IF i = ref THEN s ELSE B.data[i]
  BY <1>8, <1>14
<1>20. IsDb(db', m, Slots)
  <2>1. mdbData' \in [0 .. m - 1 -> Slots]
    BY <1>8, <1>13, <1>14
  <2>2. dirty' \subseteq 0 .. m - 1
    BY <1>8, <1>14, <1>15
  <2>3. QED BY <2>1, <2>2, <1>8 DEF IsDb, Array
<1>21. F.data[ref] = mdbData[ref]
  BY <1>2, <1>7, <1>15
<1>22. ref # u /\ A.data[ref] = mdbData[ref]
  <2>1. u # ref
    BY <1>2, <1>15, <1>16, <1>18, <1>21 DEF NoRef
  <2>2. ref \in 0 .. a - 1
    BY <1>1, <1>2, <1>14, <1>15
  <2>3. QED BY <2>1, <2>2, <1>15, <1>16, <1>21
<1>23. ref # v
  BY <1>2, <1>15, <1>17, <1>18, <1>22 DEF NoRef
<1>24. u # NoRef => /\ u \in 0 .. m - 1 /\ u # v /\ mdbData'[u] = Block("composer", info.comp)
                    /\ u < n => mdbData[u] = Free \/ u \in {p, q}
  <2> SUFFICES ASSUME u # NoRef
               PROVE  /\ u \in 0 .. m - 1 /\ u # v /\ mdbData'[u] = Block("composer", info.comp)
                      /\ u < n => mdbData[u] = Free \/ u \in {p, q}
    OBVIOUS
  <2>1. u \in 0 .. m - 1 /\ u \in 0 .. a - 1 /\ u < a
    BY <1>14, <1>16
  <2>2. u # v
    BY <2>1, <1>16, <1>17, <1>18
  <2>3. B.data[u] = A.data[u]
    BY <2>1, <2>2, <1>17
  <2>4. mdbData'[u] = Block("composer", info.comp)
    BY <2>1, <2>3, <1>16, <1>19, <1>22
  <2>5. u < n => mdbData[u] = Free \/ u \in {p, q}
    <3>1. u < n => u \in 0 .. n - 1
      BY <2>1, <1>1
    <3>2. QED BY <3>1, <1>6, <1>7, <1>16
  <2>6. QED BY <2>1, <2>2, <2>4, <2>5
<1>25. v # NoRef => /\ v \in 0 .. m - 1 /\ mdbData'[v] = Block("comment", info.com)
                    /\ v < n => mdbData[v] = Free \/ v \in {p, q}
  <2> SUFFICES ASSUME v # NoRef
               PROVE  /\ v \in 0 .. m - 1 /\ mdbData'[v] = Block("comment", info.com)
                      /\ v < n => mdbData[v] = Free \/ v \in {p, q}
    OBVIOUS
  <2>1. v \in 0 .. m - 1 /\ mdbData'[v] = Block("comment", info.com)
    BY <1>17, <1>19, <1>23
  <2>2. ASSUME v < n PROVE mdbData[v] = Free \/ v \in {p, q}
    <3>1. v \in 0 .. n - 1 /\ v \in 0 .. a - 1 /\ v < a
      BY <2>1, <2>2, <1>1, <1>14
    <3>2. A.data[v] = Free
      BY <3>1, <1>17
    <3>3. v # u
      BY <3>2, <1>16, <1>18
    <3>4. F.data[v] = Free
      BY <2>2, <3>1, <3>2, <3>3, <1>16
    <3>5. QED BY <3>1, <3>4, <1>6, <1>7
  <2>3. QED BY <2>1, <2>2
<1>26. \A i \in 0 .. m - 1 : i \notin {ref, u, v} =>
         mdbData'[i] = IF i < n /\ i \notin {p, q} THEN mdbData[i] ELSE Free
  <2> SUFFICES ASSUME NEW i \in 0 .. m - 1, i \notin {ref, u, v}
               PROVE  mdbData'[i] = IF i < n /\ i \notin {p, q} THEN mdbData[i] ELSE Free
    OBVIOUS
  <2>1. mdbData'[i] = IF i < a THEN A.data[i] ELSE Free
    BY <1>17, <1>19
  <2>2. mdbData'[i] = IF i < n THEN F.data[i] ELSE Free
    <3>1. i < a => i \in 0 .. a - 1
      OBVIOUS
    <3>2. i < n => i < a
      BY <1>1, <1>14
    <3>3. i < a => A.data[i] = IF i < n THEN F.data[i] ELSE Free
      BY <3>1, <1>16
    <3>4. QED BY <2>1, <3>2, <3>3
  <2>3. i < n => i \in 0 .. n - 1
    BY <1>1
  <2>4. i \in Blocks(ref) <=> i \in {p, q}
    BY <1>6 DEF NoRef
  <2>5. QED BY <2>2, <2>3, <2>4, <1>7
<1>27. Wrote(mdbData, n, ref, info, u, v, mdbData', m)
  <2>1. mdbData'[ref] = s /\ n <= m
    BY <1>1, <1>14, <1>15, <1>19
  <2>2. QED
    BY <2>1, <1>1, <1>2, <1>5, <1>9, <1>11, <1>24, <1>25, <1>26 DEF Wrote, Put, s, p, q
<1>28. Kept(db, n, db', m)
  <2> SUFFICES ASSUME NEW i \in 0 .. m - 1, i \notin dirty'
               PROVE  i < n /\ i \notin dirty /\ mdbData'[i] = mdbData[i]
    BY <1>1, <1>8 DEF Kept
  <2>1. i < a /\ i \notin A.dirty /\ i # v /\ i # ref
    BY <1>8, <1>17
  <2>2. i < n /\ i \notin F.dirty /\ i # u
    BY <2>1, <1>9, <1>16
  <2>3. i \notin dirty /\ i \notin Blocks(ref)
    BY <2>2, <1>7
  <2>4. i \notin {p, q}
    BY <2>3, <1>6 DEF NoRef
  <2>5. QED BY <2>1, <2>2, <2>3, <2>4, <1>26
<1>29. QED BY <1>20, <1>27, <1>28

(* The slots of e are those of d, but for the new general part s.          *)
Added(d, n, s, key, e, m) ==
  /\ n \in Nat /\ m \in Nat /\ n <= m
  /\ s \in 0 .. m - 1 /\ (s < n => d[s] = Free)
  /\ e[s] = General(key, FALSE, NoRef, NoRef)
  /\ \A i \in 0 .. m - 1 : i # s => e[i] = IF i < n THEN d[i] ELSE Free

LEMMA AddDoes ==
  ASSUME NEW n, IsDb(db, n, Slots), NEW key \in Keys, mdbGetModuleReference(key)
  PROVE  \E m \in Nat :
           /\ IsDb(db', m, Slots) /\ Kept(db, n, db', m)
           /\ Added(mdbData, n, FirstFree(db), key, mdbData', m)
<1> DEFINE c == General(key, FALSE, NoRef, NoRef)
           s == FirstFree(db)
           e == Take(db, c)
<1>1. /\ n \in Nat /\ db.data = mdbData /\ db.dirty = dirty
  BY DEF IsDb, Array, db
<1>2. c \in Slots
  <2>1. NoRef \in Int /\ FALSE \in BOOLEAN
    BY DEF NoRef
  <2>2. QED BY <2>1, NewGeneral
<1>3. PICK m \in Nat : IsDb(e, m, Slots) /\ Taken(db, n, s, c, e, m)
  BY <1>2, FreeSlot, TakeIs
<1>4. mdbData' = e.data /\ dirty' = e.dirty /\ db'.data = e.data /\ db'.dirty = e.dirty
  BY DEF mdbGetModuleReference, db
<1> HIDE DEF c, s, e
<1>5. /\ n <= m /\ s \in 0 .. m - 1
      /\ s < n => mdbData[s] = Free
      /\ mdbData'[s] = c /\ s \in dirty'
      /\ \A i \in 0 .. m - 1 : i # s => mdbData'[i] = IF i < n THEN mdbData[i] ELSE Free
      /\ \A i \in 0 .. m - 1 : i \notin dirty' => i < n /\ i \notin dirty
  BY <1>1, <1>3, <1>4 DEF Taken
<1>6. IsDb(db', m, Slots)
  BY <1>3, <1>4 DEF IsDb, Array
<1>7. Kept(db, n, db', m)
  BY <1>1, <1>4, <1>5 DEF Kept
<1>8. Added(mdbData, n, s, key, mdbData', m)
  BY <1>1, <1>5 DEF Added, c
<1>9. QED BY <1>6, <1>7, <1>8 DEF s

LEMMA AddedIs ==
  ASSUME NEW d, NEW n, NEW e, NEW m, Array(d, n, Slots), Array(e, m, Slots),
         NEW s, NEW key, Added(d, n, s, key, e, m)
  PROVE  /\ Generals(e) = Generals(d) \cup {s} /\ s \notin Generals(d)
         /\ \A h \in Generals(d) : e[h] = d[h]
         /\ \A i \in 0 .. m - 1 :
              e[i].kind = IF i = s THEN "general" ELSE IF i < n THEN d[i].kind ELSE "free"
         /\ \A i \in 0 .. m - 1 : i = s /\ i < n => d[i].kind = "free"
<1>1. /\ n \in Nat /\ m \in Nat /\ n <= m /\ s \in 0 .. m - 1
      /\ DOMAIN d = 0 .. n - 1 /\ DOMAIN e = 0 .. m - 1
      /\ s < n => d[s] = Free
      /\ e[s] = General(key, FALSE, NoRef, NoRef)
      /\ \A i \in 0 .. m - 1 : i # s => e[i] = IF i < n THEN d[i] ELSE Free
  BY DEF Added, Array
<1>2. Free.kind = "free" /\ e[s].kind = "general" /\ \A i \in 0 .. n - 1 : i \in 0 .. m - 1 /\ i < n
  BY <1>1, FreeSlot DEF General
<1>3. \A i \in 0 .. m - 1 :
         e[i].kind = IF i = s THEN "general" ELSE IF i < n THEN d[i].kind ELSE "free"
  BY <1>1, <1>2
<1>4. \A i \in 0 .. m - 1 : i = s /\ i < n => d[i].kind = "free"
  BY <1>1, <1>2
<1>5. Generals(e) = Generals(d) \cup {s}
  <2>1. \A i \in 0 .. m - 1 :
          e[i].kind = "general" <=> i = s \/ (i < n /\ d[i].kind = "general")
    BY <1>3, <1>4
  <2>2. \A i \in 0 .. m - 1 : i < n <=> i \in 0 .. n - 1
    BY <1>1
  <2>3. QED BY <2>1, <2>2, <1>1, <1>2 DEF Generals
<1>6. ASSUME NEW h \in Generals(d) PROVE h # s /\ e[h] = d[h]
  <2>1. h \in 0 .. m - 1 /\ h < n /\ d[h].kind = "general"
    BY <1>1, <1>2 DEF Generals
  <2>2. h # s
    BY <2>1, <1>4
  <2>3. QED BY <2>1, <2>2, <1>1
<1>7. QED BY <1>3, <1>4, <1>5, <1>6

LEMMA AddedAdds ==
  ASSUME NEW d, NEW n, NEW e, NEW m, Array(d, n, Slots), Array(e, m, Slots),
         NEW s, NEW key, Added(d, n, s, key, e, m), NEW k \in Kinds
  PROVE  Adds(d, n, s, k, e, m)
<1>1. /\ n \in Nat /\ m \in Nat /\ n <= m
      /\ DOMAIN d = 0 .. n - 1 /\ DOMAIN e = 0 .. m - 1
      /\ e[s] = General(key, FALSE, NoRef, NoRef)
  BY DEF Added, Array
<1>2. Ref(e, s, k) = NoRef
  BY <1>1 DEF Ref, General
<1>3. \A h \in Generals(d) : Ref(e, h, k) = Ref(d, h, k)
  BY AddedIs DEF Ref
<1>4. ASSUME NEW i \in 0 .. m - 1
      PROVE  e[i].kind = k <=> i < n /\ d[i].kind = k
  <2>1. /\ e[i].kind = IF i = s THEN "general" ELSE IF i < n THEN d[i].kind ELSE "free"
        /\ i = s /\ i < n => d[i].kind = "free"
    BY AddedIs
  <2>2. QED BY <2>1 DEF Kinds
<1>5. Generals(e) = Generals(d) \cup {s}
  BY AddedIs
<1>6. QED BY <1>1, <1>2, <1>3, <1>4, <1>5 DEF Adds
-----------------------------------------------------------------------------
LEMMA NothingOwned == Owned(NoSlots)
<1>1. DOMAIN NoSlots = {}
  BY DEF NoSlots
<1>2. QED BY <1>1 DEF Owned, OwnedBy, Generals

LEMMA InitInv == Init => IInv
<1> SUFFICES ASSUME Init PROVE IInv
  OBVIOUS
<1>1. DOMAIN NoSlots = {} /\ NoSlots \in [0 .. 0 - 1 -> Slots]
  BY DEF NoSlots
<1>2. /\ mdbData = NoSlots /\ dirty = {} /\ file.entries = 0 /\ file.slots = NoSlots
      /\ db.data = NoSlots /\ db.dirty = {}
  BY DEF Init, db, NoFile
<1>3. IsDb(db, 0, Slots) /\ IsFile(file, Slots)
  BY <1>1, <1>2 DEF IsDb, Array, IsFile
<1>4. Load(file) = NoSlots
  BY <1>1, <1>2 DEF Load
<1>5. QED
  BY <1>1, <1>2, <1>3, <1>4, NothingOwned DEF IInv, SlotsInv, OwnedInv, DiskInv, Agree

(* A change keeps the invariant if it keeps the slots and their owners.    *)
LEMMA ChangeKeeps ==
  ASSUME IInv, NEW n \in Nat, IsDb(db, n, Slots), NEW m \in Nat, IsDb(db', m, Slots),
         Kept(db, n, db', m), Owned(mdbData'), mdbDirty', UNCHANGED <<file, running>>
  PROVE  IInv'
<1>1. /\ DOMAIN mdbData = 0 .. n - 1 /\ DOMAIN mdbData' = 0 .. m - 1
      /\ db.data = mdbData /\ db.dirty = dirty /\ db'.data = mdbData' /\ db'.dirty = dirty'
  BY DEF IsDb, Array, db
<1>2. SlotsInv'
  BY DEF IInv, SlotsInv
<1>3. OwnedInv'
  BY DEF IInv, OwnedInv
<1>4. DiskInv'
  <2> SUFFICES ASSUME running, NEW i \in DOMAIN mdbData' \ dirty'
               PROVE  i \in DOMAIN file.slots /\ file.slots[i] = mdbData'[i]
    BY <1>1 DEF DiskInv, Agree
  <2>1. i < n /\ i \notin dirty /\ mdbData'[i] = mdbData[i]
    BY <1>1 DEF Kept
  <2>2. i \in 0 .. n - 1
    BY <2>1, <1>1
  <2>3. QED BY <2>1, <2>2, <1>1 DEF IInv, DiskInv, Agree
<1>5. QED BY <1>2, <1>3, <1>4 DEF IInv

LEMMA StepAdd ==
  ASSUME IInv, NEW key \in Keys, mdbGetModuleReference(key)
  PROVE  IInv'
<1>1. PICK n \in Nat : IsDb(db, n, Slots)
  BY DEF IInv, SlotsInv
<1>2. PICK m \in Nat :
           /\ IsDb(db', m, Slots) /\ Kept(db, n, db', m)
           /\ Added(mdbData, n, FirstFree(db), key, mdbData', m)
  BY <1>1, AddDoes
<1> DEFINE s == FirstFree(db)
<1> HIDE DEF s
<1>a. Array(mdbData, n, Slots) /\ Array(mdbData', m, Slots)
  BY <1>1, <1>2 DEF IsDb, db
<1>b. \A k \in Kinds : Adds(mdbData, n, s, k, mdbData', m)
  BY <1>2, <1>a, AddedAdds DEF s
<1>3. \A k \in Kinds : OwnedBy(mdbData, k)
  BY DEF IInv, OwnedInv, Owned, Kinds
<1>4. \A k \in Kinds : OwnedBy(mdbData', k)
  BY <1>b, <1>3, AddOwned
<1>5. mdbDirty' /\ UNCHANGED <<file, running>>
  BY DEF mdbGetModuleReference, Change
<1>6. Owned(mdbData')
  BY <1>4 DEF Owned, Kinds
<1>7. QED BY <1>1, <1>2, <1>5, <1>6, ChangeKeeps

LEMMA StepWrite ==
  ASSUME IInv, NEW ref \in Generals(mdbData), NEW info \in Infos,
         mdbWriteModuleInfo(ref, info), UNCHANGED <<file, running>>
  PROVE  IInv'
<1>1. PICK n \in Nat : IsDb(db, n, Slots)
  BY DEF IInv, SlotsInv
<1>2. Owned(mdbData)
  BY DEF IInv, OwnedInv
<1>3. PICK m \in Nat :
           /\ IsDb(db', m, Slots) /\ Kept(db, n, db', m)
           /\ \E u, v : Wrote(mdbData, n, ref, info, u, v, mdbData', m)
  BY <1>1, <1>2, WriteDoes
<1>4. Array(mdbData, n, Slots) /\ Array(mdbData', m, Slots)
  BY <1>1, <1>3 DEF IsDb, db
<1>5. \A k \in Kinds : Rewrites(mdbData, n, ref, k, mdbData', m)
  BY <1>3, <1>4, WroteRewrites
<1>6. \A k \in Kinds : OwnedBy(mdbData', k)
  BY <1>2, <1>5, RewriteOwned DEF Owned, Kinds
<1>7. Owned(mdbData') /\ mdbDirty'
  BY <1>6 DEF Owned, Kinds, mdbWriteModuleInfo
<1>8. QED BY <1>1, <1>3, <1>7, ChangeKeeps

(* A session ends: memory is empty, the file one that can be read.         *)
LEMMA StepHalt ==
  ASSUME IInv, Halt, IsFile(file, Slots)', Owned(Load(file))'
  PROVE  IInv'
<1>1. /\ mdbData' = NoSlots /\ dirty' = {} /\ ~running'
      /\ db'.data = NoSlots /\ db'.dirty = {}
  BY DEF Halt, db
<1>2. NoSlots \in [0 .. 0 - 1 -> Slots]
  BY DEF NoSlots
<1>3. IsDb(db', 0, Slots)
  BY <1>1, <1>2 DEF IsDb, Array
<1>4. QED
  BY <1>1, <1>3, NothingOwned DEF IInv, SlotsInv, OwnedInv, DiskInv

(* What a session saves is what it had.                                    *)
LEMMA CloseSaves ==
  ASSUME IInv, mdbClose
  PROVE  Load(file') = mdbData /\ IsFile(file', Slots)
<1>1. PICK n \in Nat : IsDb(db, n, Slots)
  BY DEF IInv, SlotsInv
<1>2. db.data = mdbData /\ running /\ IsFile(file, Slots)
  BY DEF db, mdbClose, Halt, IInv, SlotsInv
<1>3. CASE mdbDirty
  <2>1. file' = WriteSlots(db, file, Number(db.data))
    BY <1>2, <1>3 DEF mdbClose
  <2>2. Agree(db, file)
    BY <1>2 DEF IInv, DiskInv
  <2>3. Load(file') = mdbData
    BY <2>1, <2>2, <1>1, <1>2, FreeSlot, WholeIsRead
  <2>4. Number(db.data) \in Nat
    BY <1>1, NumberIs DEF IsDb
  <2>5. Written(db, n, file, Number(db.data), Slots, file')
    BY <2>1, <2>4, <1>1, <1>2, FreeSlot, WrittenIs
  <2>6. IsFile(file', Slots)
    BY <2>5 DEF Written, IsFile
  <2>7. QED BY <2>3, <2>6
<1>4. CASE ~mdbDirty
  <2>1. file' = file
    BY <1>4 DEF mdbClose
  <2>2. QED BY <2>1, <1>2, <1>4 DEF IInv, DiskInv
<1>5. QED BY <1>3, <1>4

LEMMA StepLoad ==
  ASSUME IInv, mdbInit
  PROVE  IInv'
<1>1. /\ mdbData' = Load(file) /\ dirty' = {} /\ file' = file
      /\ db'.data = Load(file) /\ db'.dirty = {}
  BY DEF mdbInit, db
<1>2. IsFile(file, Slots) /\ Owned(Load(file))
  BY DEF IInv, SlotsInv, OwnedInv
<1>3. PICK n \in Nat : Array(Load(file), n, Slots)
  BY <1>2, LoadIs
<1>4. IsDb(db', n, Slots)
  BY <1>1, <1>3 DEF IsDb
<1>5. Agree(db', file)
  BY <1>1, <1>2, LoadIs DEF Agree
<1>6. QED BY <1>1, <1>2, <1>4, <1>5 DEF IInv, SlotsInv, OwnedInv, DiskInv

(* What is read of an entry is an information.                             *)
LEMMA BlockOf ==
  ASSUME NEW d, NEW n, Array(d, n, Slots), Owned(d), NEW g \in Generals(d), NEW k \in Kinds,
         Ref(d, g, k) # NoRef
  PROVE  /\ Ref(d, g, k) \in 0 .. n - 1 /\ d[Ref(d, g, k)].kind = k
         /\ d[Ref(d, g, k)].text \in Texts
         /\ \A h \in Generals(d) : Ref(d, h, k) = Ref(d, g, k) => h = g
<1>1. OwnedBy(d, k) /\ DOMAIN d = 0 .. n - 1 /\ \A i \in 0 .. n - 1 : d[i] \in Slots
  BY DEF Owned, Kinds, Array
<1>2. Ref(d, g, k) \in 0 .. n - 1 /\ d[Ref(d, g, k)].kind = k
  BY <1>1 DEF OwnedBy
<1>3. \A h \in Generals(d) : Ref(d, h, k) = Ref(d, g, k) => h = g
  BY <1>1 DEF OwnedBy
<1>4. d[Ref(d, g, k)] \in Slots
  BY <1>1, <1>2
<1>5. d[Ref(d, g, k)].text \in Texts
  BY <1>2, <1>4 DEF Slots, Free, Kinds
<1>6. QED BY <1>2, <1>3, <1>5

LEMMA InfoIs ==
  ASSUME NEW d, NEW g
  PROVE  Info(d, g) = [read |-> d[g].read, comp |-> Text(d, Ref(d, g, "composer")),
                       com |-> Text(d, Ref(d, g, "comment"))]
BY DEF Info, Ref

LEMMA InfoInInfos ==
  ASSUME NEW d, NEW n, Array(d, n, Slots), Owned(d), NEW g \in Generals(d)
  PROVE  Info(d, g) \in Infos
<1>1. \A k \in Kinds : Text(d, Ref(d, g, k)) \in Texts \cup {NoText}
  BY BlockOf DEF Text
<1>2. d[g] \in Slots /\ d[g].kind = "general"
  BY DEF Array, Generals
<1>3. d[g].read \in BOOLEAN
  BY <1>2, GeneralSlot
<1>4. /\ Text(d, Ref(d, g, "composer")) \in Texts \cup {NoText}
      /\ Text(d, Ref(d, g, "comment")) \in Texts \cup {NoText}
  BY <1>1 DEF Kinds
<1>5. QED BY <1>3, <1>4, InfoIs DEF Infos

LEMMA InfoType ==
  ASSUME IInv, NEW ref \in Generals(mdbData)
  PROVE  [Info(mdbData, ref) EXCEPT !.read = FALSE] \in Infos
<1>1. PICK n \in Nat : Array(mdbData, n, Slots)
  BY DEF IInv, SlotsInv, IsDb, db
<1>2. Info(mdbData, ref) \in Infos
  BY <1>1, InfoInInfos DEF IInv, OwnedInv
<1>3. QED BY <1>2 DEF Infos

LEMMA StepInv == IInv /\ [Next]_vars => IInv'
<1> SUFFICES ASSUME IInv, [Next]_vars PROVE IInv'
  OBVIOUS
<1>1. ASSUME NEW key \in Keys, mdbGetModuleReference(key) PROVE IInv'
  BY <1>1, StepAdd
<1>2. ASSUME NEW ref \in DOMAIN mdbData, NEW info \in Infos,
             mdbScan(ref, info) \/ fsEditFileInfo(ref, info)
      PROVE  IInv'
  BY <1>2, StepWrite DEF mdbScan, fsEditFileInfo, Change
<1>3. ASSUME NEW ref \in DOMAIN mdbData, Forget(ref) PROVE IInv'
  <2>1. [Info(mdbData, ref) EXCEPT !.read = FALSE] \in Infos
    BY <1>3, InfoType DEF Forget
  <2>2. QED BY <1>3, <2>1, StepWrite DEF Forget, Change
<1>4. CASE mdbClose
  <2>1. Halt /\ Load(file') = mdbData /\ IsFile(file', Slots)
    BY <1>4, CloseSaves DEF mdbClose
  <2>2. Owned(mdbData)
    BY DEF IInv, OwnedInv
  <2>3. QED BY <2>1, <2>2, StepHalt
<1>5. CASE NotWritten
  BY <1>5, StepHalt DEF NotWritten, IInv, SlotsInv, OwnedInv
<1>6. CASE Torn
  <2>1. PICK n \in Nat : IsDb(db, n, Slots)
    BY DEF IInv, SlotsInv
  <2>2. IsFile(file, Slots) /\ db.data = mdbData
    BY DEF IInv, SlotsInv, db
  <2>3. IsFile(file', Slots) /\ Load(file') \in {Load(file), mdbData, NoSlots}
    BY <1>6, <2>1, <2>2, FreeSlot, TornIs DEF Torn
  <2>4. Owned(Load(file'))
    BY <2>3, NothingOwned DEF IInv, OwnedInv
  <2>5. QED BY <1>6, <2>3, <2>4, StepHalt DEF Torn
<1>7. CASE mdbInit
  BY <1>7, StepLoad
<1>8. CASE UNCHANGED vars
  BY <1>8 DEF vars, memory, IInv, SlotsInv, OwnedInv, DiskInv, db
<1>9. QED BY <1>1, <1>2, <1>3, <1>4, <1>5, <1>6, <1>7, <1>8 DEF Next

LEMMA InvAlways == Spec => []IInv
BY InitInv, StepInv, PTL DEF Spec
-----------------------------------------------------------------------------
(* No block of text is lost and none is shared, however entries are        *)
(* rewritten, saved, saved in part and read again                          *)
(* (filesel/mdb.c: mdbWriteModuleInfo, mdbClose, mdbInit).                 *)
THEOREM NoneLostNoneShared == Spec => []BlocksOwned
<1>1. IInv => BlocksOwned
  <2> SUFFICES ASSUME IInv PROVE BlocksOwned
    OBVIOUS
  <2>1. /\ \A k \in Kinds : OwnedBy(mdbData, k)
        /\ "composer" \in Kinds /\ "comment" \in Kinds
    BY DEF IInv, OwnedInv, Owned, Kinds
  <2>2. ASSUME NEW b \in DOMAIN mdbData, mdbData[b].kind \in Kinds
        PROVE  Cardinality({g \in Generals(mdbData) : Uses(g, b)}) = 1
    <3> DEFINE k == mdbData[b].kind
    <3>0. b # NoRef
      BY DEF IInv, SlotsInv, IsDb, Array, db, NoRef
    <3>1. PICK g \in Generals(mdbData) : Ref(mdbData, g, k) = b
      BY <2>1, <2>2 DEF OwnedBy
    <3>2. \A h \in Generals(mdbData) : Ref(mdbData, h, k) = b => h = g
      BY <2>1, <2>2, <3>0, <3>1 DEF OwnedBy
    <3>3. \A h \in Generals(mdbData) : Uses(h, b) <=> Ref(mdbData, h, k) = b
      BY <2>2 DEF Uses, Ref, Kinds
    <3>4. {h \in Generals(mdbData) : Uses(h, b)} = {g}
      BY <3>1, <3>2, <3>3
    <3>5. QED BY <3>4, FS_Singleton
  <2>3. ASSUME NEW g \in Generals(mdbData)
        PROVE  /\ mdbData[g].comp # NoRef => mdbData[mdbData[g].comp].kind = "composer"
               /\ mdbData[g].com # NoRef => mdbData[mdbData[g].com].kind = "comment"
    <3>1. mdbData[g].comp # NoRef => mdbData[mdbData[g].comp].kind = "composer"
      BY <2>1 DEF OwnedBy, Ref
    <3>2. mdbData[g].com # NoRef => mdbData[mdbData[g].com].kind = "comment"
      BY <2>1 DEF OwnedBy, Ref
    <3>3. QED BY <3>1, <3>2
  <2>4. QED BY <2>2, <2>3 DEF BlocksOwned, Kinds
<1>2. QED BY <1>1, InvAlways, PTL

(* A session that saves leaves a file from which the next one reads what   *)
(* it had, though only the slots marked dirty are written and the file is  *)
(* never cut: no change forgets its mark (filesel/mdb.c: mdbClose).        *)
THEOREM SavesEverything == Spec => [][mdbClose => Load(file') = mdbData]_vars
<1>1. IInv /\ [Next]_vars => [mdbClose => Load(file') = mdbData]_vars
  BY CloseSaves
<1>2. QED BY <1>1, InvAlways, PTL DEF Spec
-----------------------------------------------------------------------------
(* s is the index of the slots d: all general parts, by key.               *)
IsIndex(s, d) ==
  /\ s \in Seq(Generals(d)) /\ Len(s) < Width
  /\ \A i, j \in 1 .. Len(s) : i < j => d[s[i]].key < d[s[j]].key
  /\ \A g \in Generals(d) : \E i \in 1 .. Len(s) : s[i] = g

LEMMA KeyIs ==
  ASSUME NEW d, NEW n, Array(d, n, Slots), NEW g \in Generals(d)
  PROVE  g \in Nat /\ g # NoRef /\ d[g].key \in Keys /\ d[g].key \in Nat
<1>1. g \in 0 .. n - 1 /\ n \in Nat /\ d[g] \in Slots /\ d[g].kind = "general"
  BY DEF Array, Generals
<1>2. d[g].key \in Keys
  BY <1>1, GeneralSlot
<1>3. g \in Nat /\ g # NoRef
  BY <1>1 DEF NoRef
<1>4. QED BY <1>2, <1>3, SlotsAssumption

(* The keys of the index are numbers, and no two are equal.                *)
LEMMA IndexKeys ==
  ASSUME NEW d, NEW n, Array(d, n, Slots), NEW s, IsIndex(s, d)
  PROVE  /\ Len(s) \in Nat /\ DOMAIN s = 1 .. Len(s)
         /\ \A i \in 1 .. Len(s) : /\ s[i] \in Generals(d) /\ s[i] # NoRef
                                   /\ d[s[i]].key \in Nat
         /\ \A i, j \in 1 .. Len(s) : i < j => d[s[i]].key < d[s[j]].key
         /\ \A g, h \in Generals(d) : d[g].key = d[h].key => g = h
<1>1. /\ s \in Seq(Generals(d)) /\ Len(s) \in Nat /\ DOMAIN s = 1 .. Len(s)
      /\ \A i \in 1 .. Len(s) : s[i] \in Generals(d)
  BY LenProperties, ElementOfSeq DEF IsIndex
<1>2. \A i \in 1 .. Len(s) : s[i] # NoRef /\ d[s[i]].key \in Nat
  BY <1>1, KeyIs
<1>3. \A i, j \in 1 .. Len(s) : i < j => d[s[i]].key < d[s[j]].key
  BY DEF IsIndex
<1>4. ASSUME NEW g \in Generals(d), NEW h \in Generals(d), d[g].key = d[h].key
      PROVE  g = h
  <2>1. PICK i \in 1 .. Len(s) : s[i] = g
    BY DEF IsIndex
  <2>2. PICK j \in 1 .. Len(s) : s[j] = h
    BY DEF IsIndex
  <2>3. ~(i < j) /\ ~(j < i)
    BY <2>1, <2>2, <1>2, <1>3, <1>4
  <2>4. i = j
    BY <2>3, <1>1
  <2>5. QED BY <2>1, <2>2, <2>4
<1>5. QED BY <1>1, <1>2, <1>3, <1>4
-----------------------------------------------------------------------------
(* The binary search.                                                      *)

(* What the search finds in num entries from min, f being the searches of  *)
(* fewer entries.                                                          *)
Searched(key, f, num) ==
  [min \in 0 .. Len(mdbReloc) - num |->
     LET mid == min + num \div 2
         k   == mdbData[mdbReloc[mid + 1]].key
     IN  IF num = 0 THEN [ref |-> NoRef, place |-> min]
         ELSE IF key = k THEN [ref |-> mdbReloc[mid + 1], place |-> mid]
         ELSE IF key < k THEN f[num \div 2][min]
         ELSE f[(num - 1) \div 2][mid + 1]]
IsSearch(key, f, n) == f = [num \in 0 .. n |-> Searched(key, f, num)]

LEMMA Halves ==
  ASSUME NEW num \in Nat, num > 0
  PROVE  /\ num \div 2 \in Nat /\ num \div 2 < num
         /\ (num - 1) \div 2 \in Nat /\ (num - 1) \div 2 < num
         /\ num \div 2 + (num - 1) \div 2 = num - 1
OBVIOUS

LEMMA SearchedFewer ==
  ASSUME NEW key, NEW num \in Nat, NEW f, NEW g, \A i \in 0 .. num - 1 : f[i] = g[i]
  PROVE  Searched(key, f, num) = Searched(key, g, num)
<1>1. CASE num = 0
  BY <1>1 DEF Searched
<1>2. CASE num # 0
  <2>1. num > 0
    BY <1>2
  <2>2. f[num \div 2] = g[num \div 2] /\ f[(num - 1) \div 2] = g[(num - 1) \div 2]
    <3>1. num \div 2 \in 0 .. num - 1 /\ (num - 1) \div 2 \in 0 .. num - 1
      BY <2>1, Halves
    <3>2. QED BY <3>1
  <2>3. QED BY <2>2 DEF Searched
<1>3. QED BY <1>1, <1>2

LEMMA SearchExists == \A key : \A n \in Nat : \E f : IsSearch(key, f, n)
<1> SUFFICES ASSUME NEW key, NEW any \in Nat, ~ \E f : IsSearch(key, f, any)
             PROVE  FALSE
  OBVIOUS
<1> DEFINE Bad == {n \in Nat : ~ \E f : IsSearch(key, f, n)}
<1>1. PICK n \in Bad : \A y \in Bad : n <= y
  BY HasLeast
<1>2. \E f : \A i \in 0 .. n - 1 : f[i] = Searched(key, f, i)
  <2>1. CASE n = 0
    BY <2>1
  <2>2. CASE n # 0
    <3>1. n - 1 \in Nat /\ n - 1 \notin Bad
      BY <1>1, <2>2
    <3>2. PICK f : IsSearch(key, f, n - 1)
      BY <3>1
    <3>3. QED BY <3>2 DEF IsSearch
  <2>3. QED BY <2>1, <2>2
<1>3. PICK f : \A i \in 0 .. n - 1 : f[i] = Searched(key, f, i)
  BY <1>2
<1> DEFINE g == [i \in 0 .. n |-> IF i = n THEN Searched(key, f, n) ELSE f[i]]
<1>4. \A i \in 0 .. n - 1 : g[i] = f[i]
  OBVIOUS
<1>5. g[n] = Searched(key, f, n) /\ g = [i \in 0 .. n |-> g[i]]
  OBVIOUS
<1> HIDE DEF g
<1>6. ASSUME NEW i \in 0 .. n PROVE g[i] = Searched(key, g, i)
  <2>1. i \in Nat /\ \A j \in 0 .. i - 1 : f[j] = g[j]
    BY <1>4, <1>1
  <2>2. Searched(key, f, i) = Searched(key, g, i)
    BY <2>1, SearchedFewer
  <2>3. g[i] = Searched(key, f, i)
    BY <1>1, <1>3, <1>4, <1>5
  <2>4. QED BY <2>2, <2>3
<1>7. IsSearch(key, g, n)
  BY <1>5, <1>6 DEF IsSearch
<1>8. QED BY <1>1, <1>7

(* The key is found, or the place of the index where it belongs.           *)
Found(key, r) ==
  \/ r.ref \in Generals(mdbData) /\ mdbData[r.ref].key = key
  \/ /\ r.ref = NoRef /\ r.place \in 0 .. Len(mdbReloc)
     /\ \A i \in 1 .. Len(mdbReloc) :
          /\ i <= r.place => mdbData[mdbReloc[i]].key < key
          /\ i > r.place => key < mdbData[mdbReloc[i]].key

(* All entries but the num from min are on their side of the key.          *)
Within(key, min, num) ==
  \A i \in 1 .. Len(mdbReloc) :
    /\ i <= min => mdbData[mdbReloc[i]].key < key
    /\ i > min + num => key < mdbData[mdbReloc[i]].key

LEMMA SearchFinds ==
  ASSUME NEW n, Array(mdbData, n, Slots), IsIndex(mdbReloc, mdbData), NEW key \in Keys,
         NEW f, IsSearch(key, f, Len(mdbReloc))
  PROVE  \A num \in 0 .. Len(mdbReloc) : \A min \in 0 .. Len(mdbReloc) - num :
           Within(key, min, num) => Found(key, f[num][min])
<1> DEFINE len == Len(mdbReloc)
           K(i) == mdbData[mdbReloc[i]].key
           Good(num) == \A min \in 0 .. len - num :
                          Within(key, min, num) => Found(key, f[num][min])
<1>1. /\ len \in Nat /\ key \in Nat
      /\ \A i \in 1 .. len : mdbReloc[i] \in Generals(mdbData) /\ K(i) \in Nat
      /\ \A i, j \in 1 .. len : i < j => K(i) < K(j)
  BY IndexKeys, SlotsAssumption
<1>2. \A num \in 0 .. len : f[num] = Searched(key, f, num)
  BY DEF IsSearch
<1> HIDE DEF len
<1>3. ASSUME NEW num \in 0 .. len, \A i \in 0 .. num - 1 : Good(i) PROVE Good(num)
  <2> SUFFICES ASSUME NEW min \in 0 .. len - num, Within(key, min, num)
               PROVE  Found(key, f[num][min])
    OBVIOUS
  <2> DEFINE mid == min + num \div 2
             k == K(mid + 1)
  <2>1. f[num][min] = IF num = 0 THEN [ref |-> NoRef, place |-> min]
                      ELSE IF key = k THEN [ref |-> mdbReloc[mid + 1], place |-> mid]
                      ELSE IF key < k THEN f[num \div 2][min]
                      ELSE f[(num - 1) \div 2][mid + 1]
    <3>1. f[num] = Searched(key, f, num)
      BY <1>2
    <3>2. min \in 0 .. Len(mdbReloc) - num
      BY DEF len
    <3>3. Searched(key, f, num)[min] =
            IF num = 0 THEN [ref |-> NoRef, place |-> min]
            ELSE IF key = k THEN [ref |-> mdbReloc[mid + 1], place |-> mid]
            ELSE IF key < k THEN f[num \div 2][min]
            ELSE f[(num - 1) \div 2][mid + 1]
      BY <3>2 DEF Searched
    <3>4. QED BY <3>1, <3>3
  <2>2. \A i \in 1 .. len : (i <= min => K(i) < key) /\ (i > min + num => key < K(i))
    BY DEF Within, len
  <2>3. min \in Nat /\ num \in Nat
    BY <1>1
  <2> HIDE DEF mid, k
  <2>4. CASE num = 0
    <3>1. f[num][min] = [ref |-> NoRef, place |-> min]
      BY <2>1, <2>4
    <3>2. /\ min \in 0 .. len
          /\ \A i \in 1 .. len : (i <= min => K(i) < key) /\ (i > min => key < K(i))
      BY <1>1, <2>2, <2>3, <2>4
    <3>3. QED BY <3>1, <3>2 DEF Found, len
  <2>5. CASE num > 0
    <3>1. /\ num \div 2 \in 0 .. num - 1 /\ (num - 1) \div 2 \in 0 .. num - 1
          /\ num \div 2 + (num - 1) \div 2 = num - 1
      BY <2>3, <2>5, Halves
    <3> DEFINE lo == num \div 2
               hi == (num - 1) \div 2
    <3> HIDE DEF lo, hi
    <3>2. /\ lo \in 0 .. num - 1 /\ hi \in 0 .. num - 1 /\ lo + hi = num - 1
          /\ mid = min + lo
      BY <3>1 DEF lo, hi, mid
    <3>3. /\ mid + 1 \in 1 .. len /\ mid \in Nat
          /\ min \in 0 .. len - lo /\ mid + 1 \in 0 .. len - hi
          /\ (mid + 1) + hi = min + num
      BY <3>2, <1>1, <2>3
    <3>4. k \in Nat /\ mdbReloc[mid + 1] \in Generals(mdbData)
      BY <3>3, <1>1 DEF k
    <3>5. CASE key = k
      <4>1. f[num][min] = [ref |-> mdbReloc[mid + 1], place |-> mid]
        BY <2>1, <2>3, <2>5, <3>5
      <4>2. QED BY <4>1, <3>4, <3>5 DEF Found, k
    <3>6. CASE key < k
      <4>1. f[num][min] = f[lo][min]
        BY <2>1, <2>3, <2>5, <3>4, <3>6, <1>1 DEF lo
      <4>2. ASSUME NEW i \in 1 .. len, i > min + lo PROVE key < K(i)
        <5>1. i = mid + 1 \/ mid + 1 < i
          BY <4>2, <3>2, <3>3
        <5>2. mid + 1 < i => K(mid + 1) < K(i)
          BY <3>3, <1>1
        <5>3. K(i) \in Nat /\ (i = mid + 1 => K(i) = k) /\ K(mid + 1) = k
          BY <1>1 DEF k
        <5>4. QED BY <5>1, <5>2, <5>3, <3>4, <3>6, <1>1
      <4>3. Within(key, min, lo)
        BY <4>2, <2>2 DEF Within, len
      <4>4. Good(lo)
        BY <3>2, <1>3
      <4>5. QED BY <4>1, <4>3, <4>4, <3>3
    <3>7. CASE key > k
      <4>1. f[num][min] = f[hi][mid + 1]
        BY <2>1, <2>3, <2>5, <3>4, <3>7, <1>1 DEF hi
      <4>2. ASSUME NEW i \in 1 .. len, i <= mid + 1 PROVE K(i) < key
        <5>1. i = mid + 1 \/ i < mid + 1
          BY <4>2, <3>3
        <5>2. i < mid + 1 => K(i) < K(mid + 1)
          BY <3>3, <1>1
        <5>3. K(i) \in Nat /\ (i = mid + 1 => K(i) = k) /\ K(mid + 1) = k
          BY <1>1 DEF k
        <5>4. QED BY <5>1, <5>2, <5>3, <3>4, <3>7, <1>1
      <4>3. Within(key, mid + 1, hi)
        BY <4>2, <2>2, <3>3 DEF Within, len
      <4>4. Good(hi)
        BY <3>2, <1>3
      <4>5. QED BY <4>1, <4>3, <4>4, <3>3
    <3>8. QED BY <3>4, <3>5, <3>6, <3>7, <1>1
  <2>6. QED BY <2>3, <2>4, <2>5
<1> HIDE DEF Good
<1>4. SUFFICES ASSUME NEW any \in 0 .. len, ~ Good(any) PROVE FALSE
  BY DEF Good, len
<1> DEFINE Bad == {num \in 0 .. len : ~ Good(num)}
<1>5. Bad \in SUBSET Nat /\ Bad # {}
  BY <1>1, <1>4
<1>6. PICK num \in Bad : \A y \in Bad : num <= y
  BY <1>5, HasLeast
<1>7. \A i \in 0 .. num - 1 : Good(i)
  <2> SUFFICES ASSUME NEW i \in 0 .. num - 1, ~ Good(i) PROVE FALSE
    OBVIOUS
  <2>1. i \in Bad /\ num \in 0 .. len
    BY <1>1, <1>6
  <2>2. QED BY <2>1, <1>1, <1>6
<1>8. QED BY <1>3, <1>6, <1>7

LEMMA SearchIs ==
  ASSUME NEW n, Array(mdbData, n, Slots), IsIndex(mdbReloc, mdbData), NEW key \in Keys
  PROVE  Found(key, Search(key))
<1> DEFINE len == Len(mdbReloc)
           f == CHOOSE f : IsSearch(key, f, len)
<1>1. len \in Nat /\ len < Width
  BY IndexKeys DEF IsIndex
<1>2. IsSearch(key, f, len)
  BY <1>1, SearchExists
<1>3. Search(key) = f[len % Width][0]
  BY DEF Search, IsSearch, Searched
<1>4. len % Width = len
  BY <1>1, SlotsAssumption
<1>5. Within(key, 0, len)
  BY <1>1 DEF Within
<1>6. 0 \in 0 .. len - len /\ len \in 0 .. len
  BY <1>1
<1> HIDE DEF f
<1>7. Found(key, f[len][0])
  BY <1>2, <1>5, <1>6, SearchFinds
<1>8. QED BY <1>3, <1>4, <1>7
-----------------------------------------------------------------------------
(* The index after a change of the slots.                                  *)

LEMMA InsertIs ==
  ASSUME NEW S, NEW s \in Seq(S), NEW p \in 0 .. Len(s), NEW e \in S
  PROVE  /\ InsertAt(s, p + 1, e) \in Seq(S)
         /\ Len(InsertAt(s, p + 1, e)) = Len(s) + 1
         /\ \A i \in 1 .. Len(s) + 1 :
              InsertAt(s, p + 1, e)[i] =
                IF i <= p THEN s[i] ELSE IF i = p + 1 THEN e ELSE s[i - 1]
<1> DEFINE len == Len(s)
           a == SubSeq(s, 1, (p + 1) - 1)
           b == <<e>>
           c == SubSeq(s, p + 1, len)
<1>1. len \in Nat /\ p \in Nat /\ p <= len /\ \A i \in 1 .. len : s[i] \in S
  BY LenProperties, ElementOfSeq
<1> HIDE DEF len
<1>2. a \in Seq(S) /\ Len(a) = p /\ \A i \in 1 .. p : a[i] = s[i]
  <2>1. (p + 1) - 1 = p /\ p \in Int /\ 1 \in Int /\ \A i \in 1 .. p : s[i] \in S
    BY <1>1
  <2>2. /\ SubSeq(s, 1, p) \in Seq(S)
        /\ Len(SubSeq(s, 1, p)) = IF 1 <= p THEN p - 1 + 1 ELSE 0
        /\ \A i \in 1 .. p - 1 + 1 : SubSeq(s, 1, p)[i] = s[1 + i - 1]
    BY <2>1, SubSeqProperties
  <2>3. QED BY <2>1, <2>2, <1>1
<1>3. /\ c \in Seq(S) /\ Len(c) = len - p
      /\ \A i \in 1 .. len - p : c[i] = s[p + i]
  <2>1. p + 1 \in Int /\ len \in Int /\ \A i \in p + 1 .. len : s[i] \in S
    BY <1>1
  <2>2. /\ SubSeq(s, p + 1, len) \in Seq(S)
        /\ Len(SubSeq(s, p + 1, len)) = IF p + 1 <= len THEN len - (p + 1) + 1 ELSE 0
        /\ \A i \in 1 .. len - (p + 1) + 1 : SubSeq(s, p + 1, len)[i] = s[(p + 1) + i - 1]
    BY <2>1, SubSeqProperties
  <2>3. QED BY <2>2, <1>1
<1>4. b \in Seq(S) /\ Len(b) = 1 /\ b[1] = e
  OBVIOUS
<1> HIDE DEF a, b, c
<1>5. /\ a \o b \in Seq(S) /\ Len(a \o b) = p + 1
      /\ \A i \in 1 .. p + 1 : (a \o b)[i] = IF i <= p THEN s[i] ELSE e
  <2>1. /\ a \o b \in Seq(S) /\ Len(a \o b) = Len(a) + Len(b)
        /\ \A i \in 1 .. Len(a) + Len(b) : (a \o b)[i] = IF i <= Len(a) THEN a[i] ELSE b[i - Len(a)]
    BY <1>2, <1>4, ConcatProperties
  <2>2. \A i \in 1 .. p + 1 : ~(i <= p) => i - p = 1
    BY <1>1
  <2>3. \A i \in 1 .. p + 1 : (a \o b)[i] = IF i <= p THEN a[i] ELSE b[i - p]
    BY <2>1, <1>2, <1>4
  <2>4. \A i \in 1 .. p + 1 : i <= p => i \in 1 .. p
    BY <1>1
  <2>5. QED BY <2>1, <2>2, <2>3, <2>4, <1>2, <1>4
<1>6. /\ (a \o b) \o c \in Seq(S) /\ Len((a \o b) \o c) = len + 1
      /\ \A i \in 1 .. len + 1 :
           ((a \o b) \o c)[i] = IF i <= p + 1 THEN (a \o b)[i] ELSE c[i - (p + 1)]
  <2>1. /\ (a \o b) \o c \in Seq(S) /\ Len((a \o b) \o c) = Len(a \o b) + Len(c)
        /\ \A i \in 1 .. Len(a \o b) + Len(c) :
             ((a \o b) \o c)[i] = IF i <= Len(a \o b) THEN (a \o b)[i] ELSE c[i - Len(a \o b)]
    BY <1>3, <1>5, ConcatProperties
  <2>2. (p + 1) + (len - p) = len + 1
    BY <1>1
  <2>3. QED BY <2>1, <2>2, <1>3, <1>5
<1> DEFINE y == (a \o b) \o c
<1>60. /\ y \in Seq(S) /\ Len(y) = len + 1
      /\ \A i \in 1 .. len + 1 :
           y[i] = IF i <= p + 1 THEN (a \o b)[i] ELSE c[i - (p + 1)]
  BY <1>6
<1> HIDE DEF y
<1>7. \A i \in 1 .. len + 1 :
        y[i] = IF i <= p THEN s[i] ELSE IF i = p + 1 THEN e ELSE s[i - 1]
  <2> SUFFICES ASSUME NEW i \in 1 .. len + 1
               PROVE  y[i] = IF i <= p THEN s[i] ELSE IF i = p + 1 THEN e ELSE s[i - 1]
    OBVIOUS
  <2>1. CASE i <= p + 1
    <3>1. i \in 1 .. p + 1 /\ (i <= p \/ i = p + 1)
      BY <2>1, <1>1
    <3>2. QED BY <3>1, <2>1, <1>5, <1>60
  <2>2. CASE i > p + 1
    <3>1. /\ i - (p + 1) \in 1 .. len - p /\ p + (i - (p + 1)) = i - 1
          /\ ~(i <= p + 1) /\ ~(i <= p) /\ i # p + 1
      BY <2>2, <1>1
    <3>2. y[i] = c[i - (p + 1)]
      BY <3>1, <1>60
    <3>3. c[i - (p + 1)] = s[i - 1]
      BY <3>1, <1>3
    <3>4. QED BY <3>1, <3>2, <3>3
  <2>3. i <= p + 1 \/ i > p + 1
    BY <1>1
  <2>4. QED BY Zenon, <2>1, <2>2, <2>3
<1>8. InsertAt(s, p + 1, e) = y
  BY Zenon DEF InsertAt, a, b, c, len, y
<1>9. QED BY <1>60, <1>7, <1>8 DEF len

(* The index with the new entry where the search had looked last.          *)
LEMMA IndexAdded ==
  ASSUME NEW d, NEW n, NEW e, NEW m, Array(d, n, Slots), Array(e, m, Slots),
         NEW slot, NEW key \in Keys, Added(d, n, slot, key, e, m),
         NEW s, IsIndex(s, d), Len(s) + 1 < Width, NEW p \in 0 .. Len(s),
         \A i \in 1 .. Len(s) :
           (i <= p => d[s[i]].key < key) /\ (i > p => key < d[s[i]].key)
  PROVE  IsIndex(InsertAt(s, p + 1, slot), e)
<1> DEFINE t == InsertAt(s, p + 1, slot)
           len == Len(s)
<1>1. /\ len \in Nat /\ p \in Nat /\ p <= len
      /\ \A i \in 1 .. len : s[i] \in Generals(d) /\ d[s[i]].key \in Nat
      /\ \A i, j \in 1 .. len : i < j => d[s[i]].key < d[s[j]].key
  BY IndexKeys
<1>2. /\ Generals(e) = Generals(d) \cup {slot}
      /\ \A h \in Generals(d) : e[h] = d[h]
      /\ e[slot].key = key
  <2>1. e[slot] = General(key, FALSE, NoRef, NoRef)
    BY DEF Added
  <2>2. QED BY <2>1, AddedIs DEF General
<1>3. /\ t \in Seq(Generals(e)) /\ Len(t) = len + 1
      /\ \A i \in 1 .. len + 1 :
           t[i] = IF i <= p THEN s[i] ELSE IF i = p + 1 THEN slot ELSE s[i - 1]
  <2>1. s \in Seq(Generals(e)) /\ slot \in Generals(e)
    BY <1>2, SeqMonotonic DEF IsIndex
  <2>2. QED BY <2>1, InsertIs
<1> HIDE DEF t, len
<1>4. \A i \in 1 .. len : /\ e[s[i]].key \in Nat
                          /\ (i <= p => e[s[i]].key < key) /\ (i > p => key < e[s[i]].key)
  BY <1>1, <1>2 DEF len
<1>5. \A i, j \in 1 .. len : i < j => e[s[i]].key < e[s[j]].key
  BY <1>1, <1>2
<1>6. key \in Nat
  BY SlotsAssumption
<1>7. ASSUME NEW i \in 1 .. len + 1, NEW j \in 1 .. len + 1, i < j
      PROVE  e[t[i]].key < e[t[j]].key
  <2>1. CASE i <= p /\ j <= p
    <3>1. i \in 1 .. len /\ j \in 1 .. len /\ t[i] = s[i] /\ t[j] = s[j]
      BY <2>1, <1>1, <1>3
    <3>2. QED BY <3>1, <1>5, <1>7
  <2>2. CASE i <= p /\ j = p + 1
    <3>1. i \in 1 .. len /\ t[i] = s[i] /\ t[j] = slot
      BY <2>2, <1>1, <1>3
    <3>2. QED BY <3>1, <2>2, <1>2, <1>4
  <2>3. CASE i <= p /\ j > p + 1
    <3>1. i \in 1 .. len /\ j - 1 \in 1 .. len /\ i < j - 1 /\ t[i] = s[i] /\ t[j] = s[j - 1]
      BY <2>3, <1>1, <1>3
    <3>2. QED BY <3>1, <1>5
  <2>4. CASE i = p + 1
    <3>1. j - 1 \in 1 .. len /\ j - 1 > p /\ t[i] = slot /\ t[j] = s[j - 1]
      BY <2>4, <1>1, <1>3, <1>7
    <3>2. QED BY <3>1, <1>2, <1>4
  <2>5. CASE i > p + 1
    <3>1. /\ i - 1 \in 1 .. len /\ j - 1 \in 1 .. len /\ i - 1 < j - 1
          /\ t[i] = s[i - 1] /\ t[j] = s[j - 1]
      BY <2>5, <1>1, <1>3, <1>7
    <3>2. QED BY <3>1, <1>5
  <2>6. QED BY <2>1, <2>2, <2>3, <2>4, <2>5, <1>1
<1>8. ASSUME NEW g \in Generals(e) PROVE \E i \in 1 .. len + 1 : t[i] = g
  <2>1. CASE g = slot
    <3>1. p + 1 \in 1 .. len + 1 /\ t[p + 1] = slot
      BY <1>1, <1>3
    <3>2. QED BY <2>1, <3>1
  <2>2. CASE g # slot
    <3>1. PICK i \in 1 .. len : s[i] = g
      BY <2>2, <1>2 DEF IsIndex, len
    <3>2. CASE i <= p
      <4>1. i \in 1 .. len + 1 /\ t[i] = s[i]
        BY <3>2, <1>1, <1>3
      <4>2. QED BY <3>1, <4>1
    <3>3. CASE i > p
      <4>1. i + 1 \in 1 .. len + 1 /\ t[i + 1] = s[i]
        BY <3>3, <1>1, <1>3
      <4>2. QED BY <3>1, <4>1
    <3>4. QED BY <3>2, <3>3, <1>1
  <2>3. QED BY <2>1, <2>2
<1>9. len + 1 < Width
  BY DEF len
<1>10. QED BY <1>3, <1>7, <1>8, <1>9 DEF IsIndex, t

LEMMA IndexKept ==
  ASSUME NEW d, NEW e, NEW s, IsIndex(s, d),
         Generals(e) = Generals(d), \A g \in Generals(d) : e[g].key = d[g].key
  PROVE  IsIndex(s, e)
<1>1. \A i \in 1 .. Len(s) : s[i] \in Generals(d)
  BY ElementOfSeq DEF IsIndex
<1>2. QED BY <1>1 DEF IsIndex

LEMMA NoIndex == IsIndex(<<>>, NoSlots)
<1>1. Generals(NoSlots) = {}
  BY DEF Generals, NoSlots
<1>2. <<>> \in Seq({}) /\ Len(<<>>) = 0
  BY EmptySeq
<1>3. QED BY <1>1, <1>2, SlotsAssumption DEF IsIndex

(* qsort of what was loaded gives the index, when there is one.            *)
LEMMA SortedIs ==
  ASSUME NEW d, NEW n, Array(d, n, Slots), NEW s, IsIndex(s, d)
  PROVE  IsIndex(Sorted(d), d)
<1> DEFINE those == Generals(d)
           len == Len(s)
           P(t) == \A i, j \in DOMAIN t : i < j => d[t[i]].key < d[t[j]].key
           t == Sorted(d)
<1>1. /\ len \in Nat /\ DOMAIN s = 1 .. len /\ s \in [1 .. len -> those]
      /\ \A i, j \in 1 .. len : i < j => d[s[i]].key < d[s[j]].key
      /\ \A g \in those : \E i \in 1 .. len : s[i] = g
      /\ \A i \in 1 .. len : d[s[i]].key \in Nat
      /\ len < Width
  BY IndexKeys, LenProperties DEF IsIndex
<1>2. IsFiniteSet(1 .. len) /\ Cardinality(1 .. len) = len
  <2>1. 1 \in Int /\ len \in Int
    BY <1>1
  <2>2. IsFiniteSet(1 .. len) /\ Cardinality(1 .. len) = IF 1 > len THEN 0 ELSE len - 1 + 1
    BY <2>1, FS_Interval
  <2>3. QED BY <1>1, <2>2
<1>3. IsFiniteSet(those) /\ Cardinality(those) = len
  <2>1. \A i, j \in 1 .. len : s[i] = s[j] => i = j
    BY <1>1
  <2>2. s \in Injection(1 .. len, those) /\ s \in Surjection(1 .. len, those)
    BY <2>1, <1>1 DEF Injection, IsInjective, Surjection
  <2>3. QED BY <2>2, <1>2, FS_Surjection
<1> HIDE DEF those
<1>4. t = CHOOSE x \in [1 .. len -> those] : P(x)
  BY <1>3 DEF Sorted, those
<1>5. t \in [1 .. len -> those] /\ P(t)
  <2>1. P(s)
    BY <1>1
  <2> HIDE DEF P, t, len
  <2>2. \E x \in [1 .. len -> those] : P(x)
    BY <2>1, <1>1
  <2>3. QED BY <2>2, <1>4
<1>6. \A i \in 1 .. len : d[t[i]].key \in Nat
  BY <1>5, KeyIs DEF those
<1>7. \A i, j \in 1 .. len : i < j => d[t[i]].key < d[t[j]].key
  BY <1>5
<1> HIDE DEF t, P, len
<1>8. \A i, j \in 1 .. len : t[i] = t[j] => i = j
  <2> SUFFICES ASSUME NEW i \in 1 .. len, NEW j \in 1 .. len, t[i] = t[j] PROVE i = j
    OBVIOUS
  <2>1. ~(i < j) /\ ~(j < i)
    BY <1>6, <1>7
  <2>2. QED BY <2>1, <1>1
<1>9. t \in Injection(1 .. len, those)
  BY <1>5, <1>8 DEF Injection, IsInjective
<1>10. t \in Surjection(1 .. len, those)
  BY <1>2, <1>3, <1>9, FS_Injection
<1>11. t \in Seq(those) /\ Len(t) = len
  BY <1>1, <1>5
<1>12. \A g \in those : \E i \in 1 .. len : t[i] = g
  BY <1>10 DEF Surjection
<1>13. QED BY <1>1, <1>7, <1>11, <1>12 DEF IsIndex, t, those
-----------------------------------------------------------------------------
(* What the entries read as after a change of the slots.                   *)

(* An information stays if the entry does and its blocks do.               *)
LEMMA InfoKept ==
  ASSUME NEW d, NEW e, NEW g, e[g] = d[g],
         \A k \in Kinds : Ref(d, g, k) # NoRef => e[Ref(d, g, k)] = d[Ref(d, g, k)]
  PROVE  Info(e, g) = Info(d, g)
<1>1. \A k \in Kinds : Ref(e, g, k) = Ref(d, g, k)
  BY DEF Ref
<1>2. \A k \in Kinds : Text(e, Ref(e, g, k)) = Text(d, Ref(d, g, k))
  BY <1>1 DEF Text
<1>3. /\ Text(e, Ref(e, g, "composer")) = Text(d, Ref(d, g, "composer"))
      /\ Text(e, Ref(e, g, "comment")) = Text(d, Ref(d, g, "comment"))
  BY <1>2 DEF Kinds
<1>4. QED BY <1>3, InfoIs

LEMMA AddedInfos ==
  ASSUME NEW d, NEW n, NEW e, NEW m, Array(d, n, Slots), Array(e, m, Slots), Owned(d),
         NEW s, NEW key, Added(d, n, s, key, e, m)
  PROVE  /\ e[s].key = key /\ Info(e, s) = Unread
         /\ \A g \in Generals(d) : e[g].key = d[g].key /\ Info(e, g) = Info(d, g)
<1>1. e[s] = General(key, FALSE, NoRef, NoRef)
  BY DEF Added
<1>2. e[s].key = key /\ Info(e, s) = Unread
  BY <1>1 DEF General, Info, Text, Unread
<1>3. ASSUME NEW g \in Generals(d) PROVE e[g] = d[g] /\ Info(e, g) = Info(d, g)
  <2>1. e[g] = d[g]
    BY AddedIs
  <2>2. ASSUME NEW k \in Kinds, Ref(d, g, k) # NoRef
        PROVE  e[Ref(d, g, k)] = d[Ref(d, g, k)]
    <3> DEFINE b == Ref(d, g, k)
    <3>1. b \in 0 .. n - 1 /\ d[b].kind = k
      BY <2>2, BlockOf
    <3> HIDE DEF b
    <3>2. n \in Nat /\ m \in Nat /\ n <= m /\ (s < n => d[s] = Free)
          /\ \A i \in 0 .. m - 1 : i # s => e[i] = IF i < n THEN d[i] ELSE Free
      BY DEF Added, Array
    <3>3. b < n /\ b \in 0 .. m - 1 /\ b # s
      BY <3>1, <3>2, FreeSlot DEF Kinds
    <3>4. QED BY <3>2, <3>3 DEF b
  <2>3. QED BY <2>1, <2>2, InfoKept
<1>4. QED BY <1>2, <1>3

LEMMA WroteInfos ==
  ASSUME NEW d, NEW n, NEW e, NEW m, Array(d, n, Slots), Array(e, m, Slots), Owned(d),
         NEW ref \in Generals(d), NEW info \in Infos, NEW u, NEW v,
         Wrote(d, n, ref, info, u, v, e, m)
  PROVE  /\ Generals(e) = Generals(d)
         /\ e[ref].key = d[ref].key /\ Info(e, ref) = info
         /\ \A g \in Generals(d) :
              g # ref => e[g].key = d[g].key /\ Info(e, g) = Info(d, g)
<1> DEFINE p == d[ref].comp
           q == d[ref].com
<1>1. /\ n \in Nat /\ m \in Nat /\ n <= m
      /\ u = NoRef <=> info.comp = NoText
      /\ v = NoRef <=> info.com = NoText
      /\ u # NoRef => u \in 0 .. m - 1 /\ (u < n => d[u] = Free \/ u \in {p, q})
      /\ v # NoRef => v \in 0 .. m - 1 /\ (v < n => d[v] = Free \/ v \in {p, q})
      /\ u # NoRef => e[u] = Block("composer", info.comp)
      /\ v # NoRef => e[v] = Block("comment", info.com)
      /\ e[ref] = General(d[ref].key, info.read, u, v)
      /\ \A i \in 0 .. m - 1 : i \notin {ref, u, v} =>
           e[i] = IF i < n /\ i \notin {p, q} THEN d[i] ELSE Free
  BY DEF Wrote
<1>2. p = Ref(d, ref, "composer") /\ q = Ref(d, ref, "comment")
  BY DEF Ref
<1>3. DOMAIN d = 0 .. n - 1 /\ d[ref].kind = "general" /\ Free.kind = "free"
  BY FreeSlot DEF Array, Generals
<1> HIDE DEF p, q
<1>4. Generals(e) = Generals(d)
  <2>1. "composer" \in Kinds
    BY DEF Kinds
  <2>2. Rewrites(d, n, ref, "composer", e, m)
    BY <2>1, WroteRewrites
  <2>3. QED BY <2>2 DEF Rewrites
<1>5. e[ref].key = d[ref].key /\ Info(e, ref) = info
  <2>1. /\ e[ref].key = d[ref].key /\ e[ref].read = info.read
        /\ Ref(e, ref, "composer") = u /\ Ref(e, ref, "comment") = v
    BY <1>1 DEF General, Ref
  <2>2. Text(e, u) = info.comp /\ Text(e, v) = info.com
    BY <1>1 DEF Text, Block
  <2>3. Info(e, ref) = [read |-> info.read, comp |-> info.comp, com |-> info.com]
    BY <2>1, <2>2, InfoIs
  <2>4. QED BY <2>1, <2>3 DEF Infos
<1>6. ASSUME NEW i \in 0 .. n - 1, i # ref, i # p, i # q, d[i] # Free
      PROVE  e[i] = d[i]
  <2>1. i \in 0 .. m - 1 /\ i < n /\ i # NoRef
    BY <1>1 DEF NoRef
  <2>2. i # u /\ i # v
    BY <2>1, <1>1, <1>6
  <2>3. QED BY <2>1, <2>2, <1>1, <1>6
<1>7. ASSUME NEW k \in Kinds, Ref(d, ref, k) # NoRef
      PROVE  d[Ref(d, ref, k)].kind = k
  BY <1>7, BlockOf
<1>8. ASSUME NEW g \in Generals(d), g # ref
      PROVE  e[g] = d[g] /\ Info(e, g) = Info(d, g)
  <2>0. \A k \in Kinds : k # "general" /\ k # "free"
    BY DEF Kinds
  <2>1. e[g] = d[g]
    <3>1. g \in 0 .. n - 1 /\ d[g].kind = "general" /\ g # NoRef
      BY <1>3 DEF Generals, NoRef
    <3>2. g # p /\ g # q
      BY <3>1, <1>2, <1>7, <2>0 DEF Kinds
    <3>3. QED BY <3>1, <3>2, <1>3, <1>6, <1>8
  <2>2. ASSUME NEW k \in Kinds, Ref(d, g, k) # NoRef
        PROVE  e[Ref(d, g, k)] = d[Ref(d, g, k)]
    <3> DEFINE b == Ref(d, g, k)
    <3>1. /\ b \in 0 .. n - 1 /\ d[b].kind = k /\ b # NoRef
          /\ b # Ref(d, ref, k)
      BY <2>2, <1>8, BlockOf
    <3> HIDE DEF b
    <3>2. \A j \in Kinds : b # Ref(d, ref, j)
      BY <3>1, <1>7
    <3>3. b # p /\ b # q /\ b # ref /\ d[b] # Free
      BY <3>1, <3>2, <1>2, <1>3, <2>0 DEF Kinds
    <3>4. QED BY <3>1, <3>3, <1>6 DEF b
  <2>3. QED BY <2>1, <2>2, InfoKept
<1>9. QED BY <1>4, <1>5, <1>8
-----------------------------------------------------------------------------
(* The index is that of the slots, and the file's slots have one.          *)
Indexed(d) == \E s : IsIndex(s, d)
IndexInv == IsIndex(mdbReloc, mdbData) /\ Indexed(Load(file))

CacheInv == IInv /\ IndexInv

LEMMA InvArrays ==
  IInv => /\ \E n \in Nat : Array(mdbData, n, Slots)
          /\ \E n \in Nat : Array(Load(file), n, Slots)
          /\ Owned(mdbData) /\ Owned(Load(file))
BY LoadIs DEF IInv, SlotsInv, OwnedInv, IsDb, db

LEMMA InitIndex == Init => IndexInv
<1> SUFFICES ASSUME Init PROVE IndexInv
  OBVIOUS
<1>1. mdbData = NoSlots /\ mdbReloc = <<>> /\ file.entries = 0 /\ file.slots = NoSlots
  BY DEF Init, NoFile
<1>2. Load(file) = NoSlots
  BY <1>1 DEF Load, NoSlots
<1>3. QED BY <1>1, <1>2, NoIndex DEF IndexInv, Indexed

(* The two changes, and what they do to the entries.                       *)
AddsEntry(key) ==
  LET s == FirstFree(db)
  IN  /\ Generals(mdbData') = Generals(mdbData) \cup {s}
      /\ mdbData'[s].key = key /\ Info(mdbData', s) = Unread
      /\ \A g \in Generals(mdbData) :
           mdbData'[g].key = mdbData[g].key /\ Info(mdbData', g) = Info(mdbData, g)

LEMMA AddIndex ==
  ASSUME CacheInv, NEW key \in Keys, mdbGetModuleReference(key)
  PROVE  IndexInv' /\ AddsEntry(key)
<1> DEFINE s == FirstFree(db)
           r == Search(key)
<1>1. PICK n \in Nat : IsDb(db, n, Slots)
  BY DEF CacheInv, IInv, SlotsInv
<1>2. PICK m \in Nat : IsDb(db', m, Slots) /\ Added(mdbData, n, s, key, mdbData', m)
  BY <1>1, AddDoes
<1>3. Array(mdbData, n, Slots) /\ Array(mdbData', m, Slots)
  BY <1>1, <1>2 DEF IsDb, db
<1>4. /\ IsIndex(mdbReloc, mdbData) /\ Len(mdbReloc) + 1 < Width
      /\ mdbReloc' = InsertAt(mdbReloc, r.place + 1, s) /\ r.ref = NoRef
      /\ file' = file /\ Indexed(Load(file))
  BY DEF CacheInv, IndexInv, mdbGetModuleReference, Insert, Change
<1>5. Found(key, r)
  BY <1>3, <1>4, SearchIs
<1> HIDE DEF s, r
<1>6. /\ r.place \in 0 .. Len(mdbReloc)
      /\ \A i \in 1 .. Len(mdbReloc) :
           /\ i <= r.place => mdbData[mdbReloc[i]].key < key
           /\ i > r.place => key < mdbData[mdbReloc[i]].key
  <2>1. ~(NoRef \in Generals(mdbData))
    BY <1>3, KeyIs
  <2>2. QED BY <2>1, <1>4, <1>5 DEF Found
<1>7. IsIndex(mdbReloc', mdbData')
  BY <1>2, <1>3, <1>4, <1>6, IndexAdded
<1>8. AddsEntry(key)
  <2>1. Owned(mdbData)
    BY DEF CacheInv, IInv, OwnedInv
  <2>2. Generals(mdbData') = Generals(mdbData) \cup {s}
    BY <1>2, <1>3, AddedIs
  <2>3. /\ mdbData'[s].key = key /\ Info(mdbData', s) = Unread
        /\ \A g \in Generals(mdbData) :
             mdbData'[g].key = mdbData[g].key /\ Info(mdbData', g) = Info(mdbData, g)
    BY <2>1, <1>2, <1>3, AddedInfos
  <2>4. QED BY <2>2, <2>3 DEF AddsEntry, s
<1>9. QED BY <1>4, <1>7, <1>8 DEF IndexInv

Writes(ref, info) ==
  /\ Generals(mdbData') = Generals(mdbData) /\ ref \in Generals(mdbData)
  /\ \A g \in Generals(mdbData) : mdbData'[g].key = mdbData[g].key
  /\ Info(mdbData', ref) = info
  /\ \A g \in Generals(mdbData) : g # ref => Info(mdbData', g) = Info(mdbData, g)

LEMMA WriteWrites ==
  ASSUME IInv, NEW ref \in Generals(mdbData), NEW info \in Infos, mdbWriteModuleInfo(ref, info)
  PROVE  Writes(ref, info)
<1>1. PICK n \in Nat : IsDb(db, n, Slots)
  BY DEF IInv, SlotsInv
<1>2. Owned(mdbData)
  BY DEF IInv, OwnedInv
<1>3. PICK m \in Nat :
           /\ IsDb(db', m, Slots)
           /\ \E u, v : Wrote(mdbData, n, ref, info, u, v, mdbData', m)
  BY <1>1, <1>2, WriteDoes
<1>4. Array(mdbData, n, Slots) /\ Array(mdbData', m, Slots)
  BY <1>1, <1>3 DEF IsDb, db
<1>5. PICK u, v : Wrote(mdbData, n, ref, info, u, v, mdbData', m)
  BY <1>3
<1>6. /\ Generals(mdbData') = Generals(mdbData)
      /\ mdbData'[ref].key = mdbData[ref].key /\ Info(mdbData', ref) = info
      /\ \A g \in Generals(mdbData) :
           g # ref => mdbData'[g].key = mdbData[g].key /\ Info(mdbData', g) = Info(mdbData, g)
  BY <1>2, <1>4, <1>5, WroteInfos
<1>7. QED BY <1>6 DEF Writes

LEMMA WriteIndex ==
  ASSUME CacheInv, NEW ref \in Generals(mdbData), NEW info \in Infos,
         mdbWriteModuleInfo(ref, info), file' = file
  PROVE  IndexInv'
<1>1. IInv /\ IsIndex(mdbReloc, mdbData) /\ Indexed(Load(file))
  BY DEF CacheInv, IndexInv
<1>2. Writes(ref, info)
  BY <1>1, WriteWrites
<1>3. mdbReloc' = mdbReloc
  BY DEF mdbWriteModuleInfo
<1>4. IsIndex(mdbReloc', mdbData')
  BY <1>1, <1>2, <1>3, IndexKept DEF Writes
<1>5. QED BY <1>1, <1>4 DEF IndexInv

(* All ends of a session.                                                  *)
Ends ==
  /\ running /\ ~running' /\ mdbData' = NoSlots /\ mdbReloc' = <<>>
  /\ Load(file') \in {Load(file), mdbData, NoSlots}

LEMMA HaltEnds ==
  ASSUME IInv, mdbClose \/ NotWritten \/ Torn
  PROVE  Ends
<1>1. /\ Halt => running /\ ~running' /\ mdbData' = NoSlots /\ mdbReloc' = <<>>
      /\ Halt
  BY DEF Halt, mdbClose, NotWritten, Torn
<1>2. CASE mdbClose
  BY <1>1, <1>2, CloseSaves DEF Ends
<1>3. CASE NotWritten
  BY <1>1, <1>3 DEF Ends, NotWritten
<1>4. CASE Torn
  <2>1. Load(file') \in {Load(file), mdbData, NoSlots}
    BY <1>4 DEF Torn, TornFiles, db
  <2>2. QED BY <2>1, <1>1 DEF Ends
<1>5. QED BY <1>2, <1>3, <1>4

LEMMA EndIndex ==
  ASSUME IndexInv, Ends
  PROVE  IndexInv'
BY NoIndex DEF IndexInv, Indexed, Ends

LEMMA LoadIndex ==
  ASSUME CacheInv, mdbInit
  PROVE  IndexInv'
<1>1. PICK n \in Nat : Array(Load(file), n, Slots)
  BY InvArrays DEF CacheInv
<1>2. IsIndex(Sorted(Load(file)), Load(file))
  BY <1>1, SortedIs DEF CacheInv, IndexInv, Indexed
<1>3. mdbData' = Load(file) /\ mdbReloc' = Sorted(Load(file)) /\ file' = file
  BY DEF mdbInit
<1>4. QED BY <1>2, <1>3 DEF IndexInv, Indexed

(* What a step writes, if it does.                                         *)
LEMMA WriteCases ==
  ASSUME IInv, NEW ref,
         \/ \E info \in Infos : mdbScan(ref, info) \/ fsEditFileInfo(ref, info)
         \/ Forget(ref)
  PROVE  \E info \in Infos :
           /\ ref \in Generals(mdbData) /\ mdbWriteModuleInfo(ref, info)
           /\ running /\ UNCHANGED <<file, running>>
<1>1. CASE \E info \in Infos : mdbScan(ref, info) \/ fsEditFileInfo(ref, info)
  BY <1>1 DEF mdbScan, fsEditFileInfo, Change
<1>2. CASE Forget(ref)
  <2>1. ref \in Generals(mdbData)
    BY <1>2 DEF Forget
  <2>2. [Info(mdbData, ref) EXCEPT !.read = FALSE] \in Infos
    BY <2>1, InfoType
  <2>3. QED BY <1>2, <2>1, <2>2 DEF Forget, Change
<1>3. QED BY <1>1, <1>2

LEMMA StepIndex == CacheInv /\ [Next]_vars => IndexInv'
<1> SUFFICES ASSUME CacheInv, [Next]_vars PROVE IndexInv'
  OBVIOUS
<1>0. IInv /\ IndexInv
  BY DEF CacheInv
<1>1. ASSUME NEW key \in Keys, mdbGetModuleReference(key) PROVE IndexInv'
  BY <1>1, AddIndex
<1>2. ASSUME NEW ref \in DOMAIN mdbData,
             \/ \E info \in Infos : mdbScan(ref, info) \/ fsEditFileInfo(ref, info)
             \/ Forget(ref)
      PROVE  IndexInv'
  <2>1. PICK info \in Infos :
           /\ ref \in Generals(mdbData) /\ mdbWriteModuleInfo(ref, info)
           /\ running /\ UNCHANGED <<file, running>>
    BY <1>0, <1>2, WriteCases
  <2>2. QED BY <2>1, WriteIndex
<1>3. CASE mdbClose \/ NotWritten \/ Torn
  BY <1>0, <1>3, HaltEnds, EndIndex
<1>4. CASE mdbInit
  BY <1>4, LoadIndex
<1>5. CASE UNCHANGED vars
  BY <1>0, <1>5 DEF vars, memory, IndexInv, Indexed
<1>6. QED BY <1>1, <1>2, <1>3, <1>4, <1>5 DEF Next

LEMMA CacheInvAlways == Spec => []CacheInv
<1>1. Init => CacheInv
  BY InitInv, InitIndex DEF CacheInv
<1>2. CacheInv /\ [Next]_vars => CacheInv'
  BY StepInv, StepIndex DEF CacheInv
<1>3. QED BY <1>1, <1>2, PTL DEF Spec
-----------------------------------------------------------------------------
KeysOf(d) == {d[g].key : g \in Generals(d)}

LEMMA InfosAre ==
  ASSUME NEW d, NEW n, Array(d, n, Slots), Indexed(d)
  PROVE  /\ DOMAIN InfosOf(d) = KeysOf(d)
         /\ InfosOf(d) = [k \in KeysOf(d) |-> InfosOf(d)[k]]
         /\ \A g \in Generals(d) : InfosOf(d)[d[g].key] = Info(d, g)
<1>1. PICK s : IsIndex(s, d)
  BY DEF Indexed
<1>2. \A g, h \in Generals(d) : d[g].key = d[h].key => g = h
  BY <1>1, IndexKeys
<1>3. InfosOf(d) = [k \in KeysOf(d) |->
                      Info(d, CHOOSE g \in Generals(d) : d[g].key = k)]
  BY DEF InfosOf, KeysOf
<1>4. ASSUME NEW g \in Generals(d) PROVE InfosOf(d)[d[g].key] = Info(d, g)
  <2>1. (CHOOSE h \in Generals(d) : d[h].key = d[g].key) = g
    BY <1>2
  <2>2. d[g].key \in KeysOf(d)
    BY DEF KeysOf
  <2>3. QED BY <1>3, <2>1, <2>2
<1>5. QED BY <1>3, <1>4

(* What the search finds for every key.                                    *)
Known ==
  LET ref == [key \in Keys |-> Search(key).ref]
  IN  [key \in {k \in Keys : ref[k] # NoRef} |-> Info(mdbData, ref[key])]

LEMMA KnownIs == CacheInv => Known = InfosOf(mdbData)
<1> SUFFICES ASSUME CacheInv PROVE Known = InfosOf(mdbData)
  OBVIOUS
<1>1. PICK n \in Nat : Array(mdbData, n, Slots)
  BY InvArrays DEF CacheInv
<1>2. IsIndex(mdbReloc, mdbData) /\ Indexed(mdbData)
  BY DEF CacheInv, IndexInv, Indexed
<1>3. ASSUME NEW key \in Keys
      PROVE  /\ Search(key).ref # NoRef =>
                  Search(key).ref \in Generals(mdbData) /\ mdbData[Search(key).ref].key = key
             /\ Search(key).ref = NoRef => key \notin KeysOf(mdbData)
  <2> DEFINE r == Search(key)
  <2>1. Found(key, r)
    BY <1>1, <1>2, SearchIs
  <2> HIDE DEF r
  <2>2. CASE r.ref \in Generals(mdbData) /\ mdbData[r.ref].key = key
    <3>1. r.ref # NoRef
      BY <2>2, <1>1, KeyIs
    <3>2. QED BY <2>2, <3>1 DEF r
  <2>3. CASE r.ref \notin Generals(mdbData) \/ mdbData[r.ref].key # key
    <3>1. /\ r.ref = NoRef /\ r.place \in 0 .. Len(mdbReloc)
          /\ \A i \in 1 .. Len(mdbReloc) :
               /\ i <= r.place => mdbData[mdbReloc[i]].key < key
               /\ i > r.place => key < mdbData[mdbReloc[i]].key
      BY <2>1, <2>3 DEF Found
    <3>2. /\ Len(mdbReloc) \in Nat /\ key \in Nat
          /\ \A i \in 1 .. Len(mdbReloc) : mdbData[mdbReloc[i]].key \in Nat
      BY <1>1, <1>2, IndexKeys, SlotsAssumption
    <3>3. \A i \in 1 .. Len(mdbReloc) : mdbData[mdbReloc[i]].key # key
      BY <3>1, <3>2
    <3>4. key \notin KeysOf(mdbData)
      BY <3>3, <1>2 DEF KeysOf, IsIndex
    <3>5. QED BY <3>1, <3>4 DEF r
  <2>4. QED BY <2>2, <2>3
<1> DEFINE ref == [key \in Keys |-> Search(key).ref]
<1>4. KeysOf(mdbData) \subseteq Keys
  BY <1>1, KeyIs DEF KeysOf
<1>5. {k \in Keys : ref[k] # NoRef} = KeysOf(mdbData)
  BY <1>3, <1>4 DEF KeysOf
<1>6. ASSUME NEW key \in KeysOf(mdbData)
      PROVE  Info(mdbData, ref[key]) = InfosOf(mdbData)[key]
  <2>1. ref[key] \in Generals(mdbData) /\ mdbData[ref[key]].key = key
    BY <1>3, <1>4, <1>6
  <2>2. QED BY <2>1, <1>1, <1>2, InfosAre
<1>7. Known = [key \in KeysOf(mdbData) |-> Info(mdbData, ref[key])]
  BY <1>5 DEF Known
<1>8. Known = [key \in KeysOf(mdbData) |-> InfosOf(mdbData)[key]]
  BY <1>6, <1>7
<1>9. QED BY <1>1, <1>2, <1>8, InfosAre

LEMMA NothingKnown == InfosOf(NoSlots) = <<>>
<1>1. Generals(NoSlots) = {}
  BY DEF Generals, NoSlots
<1>2. {NoSlots[g].key : g \in Generals(NoSlots)} = {}
  BY <1>1
<1> DEFINE known == InfosOf(NoSlots)
<1>3. DOMAIN known = {} /\ known = [k \in DOMAIN known |-> known[k]]
  BY <1>2 DEF InfosOf
<1> HIDE DEF known
<1>4. <<>> = [k \in {} |-> known[k]]
  OBVIOUS
<1>5. QED BY <1>3, <1>4 DEF known

(* The promise, of what is known and what is stored.                       *)
InMemory == InfosOf(mdbData)
OnFile == InfosOf(Load(file))

LEMMA AddPromises ==
  ASSUME CacheInv, CacheInv', NEW key \in Keys, mdbGetModuleReference(key)
  PROVE  /\ running /\ running' = running /\ OnFile' = OnFile
         /\ key \notin DOMAIN InMemory
         /\ InMemory' = [k \in DOMAIN InMemory \cup {key} |->
                           IF k = key THEN Unread ELSE InMemory[k]]
<1> DEFINE d == mdbData
           e == mdbData'
           s == FirstFree(db)
<1>1. running /\ running' = running /\ file' = file /\ Search(key).ref = NoRef
  BY DEF mdbGetModuleReference, Change
<1>2. /\ DOMAIN InfosOf(d) = KeysOf(d)
      /\ \A g \in Generals(d) : InfosOf(d)[d[g].key] = Info(d, g)
  BY InvArrays, InfosAre DEF CacheInv, IndexInv, Indexed
<1>3. /\ DOMAIN InfosOf(e) = KeysOf(e) /\ InfosOf(e) = [k \in KeysOf(e) |-> InfosOf(e)[k]]
      /\ \A g \in Generals(e) : InfosOf(e)[e[g].key] = Info(e, g)
  <2>1. PICK n \in Nat : Array(mdbData', n, Slots)
    BY DEF CacheInv, IInv, SlotsInv, IsDb, db
  <2>2. Indexed(mdbData')
    BY DEF CacheInv, IndexInv, Indexed
  <2>3. QED BY <2>1, <2>2, InfosAre
<1>4. /\ Generals(e) = Generals(d) \cup {s}
      /\ e[s].key = key /\ Info(e, s) = Unread
      /\ \A g \in Generals(d) : e[g].key = d[g].key /\ Info(e, g) = Info(d, g)
  BY AddIndex DEF AddsEntry
<1> HIDE DEF d, e, s
<1>5. KeysOf(e) = KeysOf(d) \cup {key}
  BY <1>4 DEF KeysOf
<1>6. key \notin KeysOf(d)
  <2>1. Known = InfosOf(d)
    BY KnownIs DEF d
  <2>2. key \notin DOMAIN Known
    BY <1>1 DEF Known
  <2>3. QED BY <2>1, <2>2, <1>2
<1>7. ASSUME NEW k \in KeysOf(e)
      PROVE  InfosOf(e)[k] = IF k = key THEN Unread ELSE InfosOf(d)[k]
  <2>1. CASE k = key
    <3>1. InfosOf(e)[e[s].key] = Info(e, s)
      BY <1>3, <1>4
    <3>2. QED BY <3>1, <2>1, <1>4
  <2>2. CASE k # key
    <3>1. PICK g \in Generals(d) : d[g].key = k
      BY <2>2, <1>5 DEF KeysOf
    <3>2. InfosOf(e)[e[g].key] = Info(e, g) /\ InfosOf(d)[d[g].key] = Info(d, g)
      BY <1>2, <1>3, <1>4
    <3>3. QED BY <3>1, <3>2, <2>2, <1>4
  <2>3. QED BY <2>1, <2>2
<1>8. InfosOf(e) = [k \in KeysOf(d) \cup {key} |-> IF k = key THEN Unread ELSE InfosOf(d)[k]]
  BY <1>3, <1>5, <1>7
<1>9. QED BY <1>1, <1>2, <1>6, <1>8 DEF InMemory, OnFile, d, e

LEMMA WritePromises ==
  ASSUME CacheInv, CacheInv', NEW ref \in Generals(mdbData), NEW info \in Infos,
         mdbWriteModuleInfo(ref, info), running, UNCHANGED <<file, running>>
  PROVE  \E key \in Keys :
           /\ running /\ running' = running /\ OnFile' = OnFile
           /\ key \in DOMAIN InMemory /\ InMemory' \in [DOMAIN InMemory -> Infos]
           /\ \A other \in DOMAIN InMemory \ {key} : InMemory'[other] = InMemory[other]
<1> DEFINE d == mdbData
           e == mdbData'
           key == d[ref].key
<1>1. PICK n \in Nat : Array(d, n, Slots)
  BY InvArrays DEF CacheInv
<1>2. /\ DOMAIN InfosOf(d) = KeysOf(d)
      /\ \A g \in Generals(d) : InfosOf(d)[d[g].key] = Info(d, g)
  BY <1>1, InfosAre DEF CacheInv, IndexInv, Indexed
<1>3. PICK m \in Nat : Array(e, m, Slots) /\ Owned(e)
  BY DEF CacheInv, IInv, SlotsInv, OwnedInv, IsDb, db
<1>4. /\ DOMAIN InfosOf(e) = KeysOf(e) /\ InfosOf(e) = [k \in KeysOf(e) |-> InfosOf(e)[k]]
      /\ \A g \in Generals(e) : InfosOf(e)[e[g].key] = Info(e, g)
  <2>1. Indexed(mdbData')
    BY DEF CacheInv, IndexInv, Indexed
  <2>2. QED BY <1>3, <2>1, InfosAre
<1>5. /\ Generals(e) = Generals(d)
      /\ \A g \in Generals(d) : e[g].key = d[g].key
      /\ \A g \in Generals(d) : g # ref => Info(e, g) = Info(d, g)
  BY WriteWrites DEF CacheInv, Writes
<1>6. key \in Keys
  BY <1>1, KeyIs
<1> HIDE DEF d, e
<1>7. KeysOf(e) = KeysOf(d) /\ key \in KeysOf(d)
  BY <1>5 DEF KeysOf, d
<1>8. \A g \in Generals(e) : Info(e, g) \in Infos
  BY <1>3, InfoInInfos
<1>9. ASSUME NEW k \in KeysOf(d)
      PROVE  InfosOf(e)[k] \in Infos /\ (k # key => InfosOf(e)[k] = InfosOf(d)[k])
  <2>1. PICK g \in Generals(d) : d[g].key = k
    BY DEF KeysOf
  <2>2. InfosOf(e)[k] = Info(e, g) /\ InfosOf(d)[k] = Info(d, g)
    BY <2>1, <1>2, <1>4, <1>5
  <2>3. k # key => Info(e, g) = Info(d, g)
    BY <2>1, <1>5
  <2>4. QED BY <2>2, <2>3, <1>5, <1>8
<1> HIDE DEF key
<1>10. InfosOf(e) \in [DOMAIN InfosOf(d) -> Infos]
  BY <1>2, <1>4, <1>7, <1>9
<1>11. \A other \in DOMAIN InfosOf(d) \ {key} : InfosOf(e)[other] = InfosOf(d)[other]
  BY <1>2, <1>9
<1>12. OnFile' = OnFile
  BY DEF OnFile
<1>13. QED BY <1>2, <1>6, <1>7, <1>10, <1>11, <1>12 DEF InMemory, d, e

LEMMA InitPromises == Init => Promise!Init
<1> SUFFICES ASSUME Init PROVE Promise!Init
  OBVIOUS
<1>1. Known = InfosOf(mdbData)
  BY InitInv, InitIndex, KnownIs DEF CacheInv
<1>2. mdbData = NoSlots /\ Load(file) = NoSlots /\ running = TRUE
  BY DEF Init, NoFile, Load, NoSlots
<1>3. Known = <<>> /\ InfosOf(Load(file)) = <<>> /\ running = TRUE
  BY <1>1, <1>2, NothingKnown
<1>4. QED BY <1>3 DEF Promise!Init, Promise!Nothing, Known

LEMMA StepPromises == CacheInv /\ CacheInv' /\ [Next]_vars => [Promise!Next]_Promise!vars
<1> SUFFICES ASSUME CacheInv, CacheInv', [Next]_vars PROVE [Promise!Next]_Promise!vars
  OBVIOUS
<1>1. Known = InMemory
  BY KnownIs DEF InMemory
<1>2. Known' = InMemory'
  <2>1. (CacheInv => Known = InMemory)'
    BY KnownIs, PTL DEF InMemory
  <2>2. QED BY <2>1
<1>3. ASSUME NEW key \in Keys, mdbGetModuleReference(key)
      PROVE  Promise!Next
  <2>1. /\ running /\ running' = running /\ OnFile' = OnFile
        /\ key \notin DOMAIN Known
        /\ Known' = [k \in DOMAIN Known \cup {key} |-> IF k = key THEN Unread ELSE Known[k]]
    BY <1>1, <1>2, <1>3, AddPromises
  <2>2. Promise!Reference(key)
    BY <2>1 DEF Promise!Reference, Known, OnFile
  <2>3. QED BY <2>2 DEF Promise!Next
<1>4. ASSUME NEW ref \in DOMAIN mdbData,
             \/ \E info \in Infos : mdbScan(ref, info) \/ fsEditFileInfo(ref, info)
             \/ Forget(ref)
      PROVE  Promise!Next
  <2>1. PICK info \in Infos :
           /\ ref \in Generals(mdbData) /\ mdbWriteModuleInfo(ref, info)
           /\ running /\ UNCHANGED <<file, running>>
    BY <1>4, WriteCases DEF CacheInv
  <2>2. PICK key \in Keys :
           /\ running /\ running' = running /\ OnFile' = OnFile
           /\ key \in DOMAIN Known /\ Known' \in [DOMAIN Known -> Infos]
           /\ \A other \in DOMAIN Known \ {key} : Known'[other] = Known[other]
    BY <2>1, <1>1, <1>2, WritePromises
  <2>3. Promise!Write(key)
    BY <2>2 DEF Promise!Write, Known, OnFile
  <2>4. QED BY <2>3 DEF Promise!Next
<1>5. CASE mdbClose \/ NotWritten \/ Torn
  <2>1. Ends
    BY <1>5, HaltEnds DEF CacheInv
  <2>2. InMemory' = <<>> /\ OnFile' \in {InMemory, OnFile, <<>>}
    BY <2>1, NothingKnown DEF Ends, InMemory, OnFile
  <2>3. /\ running /\ running' = FALSE
        /\ OnFile' \in {Known, OnFile, <<>>} /\ Known' = <<>>
    <3>1. running' = FALSE
      BY <1>5 DEF mdbClose, NotWritten, Torn, Halt
    <3>2. QED BY <2>1, <2>2, <3>1, <1>1, <1>2 DEF Ends
  <2>4. Promise!Close
    BY <2>3 DEF Promise!Close, Promise!Nothing, Known, OnFile
  <2>5. QED BY <2>4 DEF Promise!Next
<1>6. CASE mdbInit
  <2>1. /\ ~running /\ running' = TRUE /\ InMemory' = OnFile /\ OnFile' = OnFile
    BY <1>6 DEF mdbInit, InMemory, OnFile
  <2>2. Promise!Start
    BY <2>1, <1>2 DEF Promise!Start, Known, OnFile
  <2>3. QED BY <2>2 DEF Promise!Next
<1>7. CASE UNCHANGED vars
  <2>1. InMemory' = InMemory /\ OnFile' = OnFile /\ running' = running
    BY <1>7 DEF vars, memory, InMemory, OnFile
  <2>2. Known' = Known
    BY <2>1, <1>1, <1>2
  <2>3. QED BY <2>1, <2>2 DEF Promise!vars, Known, OnFile
<1>8. QED BY <1>3, <1>4, <1>5, <1>6, <1>7 DEF Next

THEOREM PromiseKept == Spec => KeepsPromise
<1>1. Init => Promise!Init
  BY InitPromises
<1>2. CacheInv /\ CacheInv' /\ [Next]_vars => [Promise!Next]_Promise!vars
  BY StepPromises
<1>3. QED BY <1>1, <1>2, CacheInvAlways, PTL DEF Spec, KeepsPromise, Promise!Spec
-----------------------------------------------------------------------------
Flags == mdbDirty \in BOOLEAN /\ running \in BOOLEAN /\ left \in 0 .. Changes

LEMMA FlagsAlways == Spec => []Flags
<1>1. Init => Flags
  <2>1. Init => mdbDirty \in BOOLEAN /\ running \in BOOLEAN
    BY DEF Init
  <2>2. Init => left \in 0 .. Changes
    BY ChangesAssumption DEF Init
  <2>3. QED BY <2>1, <2>2 DEF Flags
<1>2. Flags /\ [Next]_vars => Flags'
  <2> SUFFICES ASSUME Flags, [Next]_vars PROVE Flags'
    OBVIOUS
  <2>0. Change => left' \in 0 .. Changes /\ running' = running
    BY ChangesAssumption DEF Change, Flags
  <2>1. ASSUME NEW key \in Keys, mdbGetModuleReference(key) PROVE Flags'
    BY <2>0, <2>1 DEF mdbGetModuleReference, Flags
  <2>2. ASSUME NEW ref,
               \/ \E info \in Infos : mdbScan(ref, info) \/ fsEditFileInfo(ref, info)
               \/ Forget(ref)
        PROVE  Flags'
    BY <2>0, <2>2 DEF mdbScan, fsEditFileInfo, Forget, mdbWriteModuleInfo, Flags
  <2>3. CASE mdbClose \/ NotWritten \/ Torn
    BY <2>3 DEF mdbClose, NotWritten, Torn, Halt, Flags
  <2>4. CASE mdbInit
    BY <2>4 DEF mdbInit, Flags
  <2>5. CASE UNCHANGED vars
    BY <2>5 DEF vars, memory, Flags
  <2>6. QED BY <2>1, <2>2, <2>3, <2>4, <2>5 DEF Next
<1>3. QED BY <1>1, <1>2, PTL DEF Spec

THEOREM TypeCorrect == Spec => []TypeOK
<1>1. CacheInv /\ Flags => TypeOK
  <2> SUFFICES ASSUME CacheInv, Flags PROVE TypeOK
    OBVIOUS
  <2>1. PICK n \in Nat : IsDb(db, n, Slots)
    BY DEF CacheInv, IInv, SlotsInv
  <2>2. DOMAIN mdbData = 0 .. n - 1 /\ \A i \in 0 .. n - 1 : i \in Nat /\ mdbData[i] \in Slots
    BY <2>1 DEF IsDb, Array, db
  <2>3. dirty \subseteq DOMAIN mdbData
    BY <2>1, <2>2 DEF IsDb, db
  <2>4. \A i \in DOMAIN file.slots : i \in Nat /\ file.slots[i] \in Slots
    BY DEF CacheInv, IInv, SlotsInv, IsFile, Array
  <2>5. Array(mdbData, n, Slots)
    BY <2>1 DEF IsDb, db
  <2>6. \A i \in DOMAIN mdbReloc : mdbReloc[i] \in Generals(mdbData)
    BY <2>5, IndexKeys DEF CacheInv, IndexInv
  <2>7. \A i \in DOMAIN mdbReloc : mdbReloc[i] \in DOMAIN mdbData
    BY <2>6 DEF Generals
  <2>8. QED BY <2>2, <2>3, <2>4, <2>7 DEF TypeOK, Flags
<1>2. QED BY <1>1, CacheInvAlways, FlagsAlways, PTL

(* What is written of an entry is what is read of it.                      *)
THEOREM ReadsWhatIsWritten ==
  Spec => [][\A ref \in Generals(mdbData), info \in Infos :
               mdbWriteModuleInfo(ref, info) => Info(mdbData', ref) = info]_vars
<1>1. IInv /\ [Next]_vars =>
        [\A ref \in Generals(mdbData), info \in Infos :
           mdbWriteModuleInfo(ref, info) => Info(mdbData', ref) = info]_vars
  BY WriteWrites DEF Writes
<1>2. QED BY <1>1, InvAlways, PTL DEF Spec
=============================================================================
