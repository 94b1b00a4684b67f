------------------------------ MODULE AdbProofs ------------------------------
(***************************************************************************)
(* Proofs about the cache of archives, for any archives, contents and      *)
(* growth of the array, and through any number of sessions.                *)
(***************************************************************************)
EXTENDS Adb, FiniteSetTheorems, WellFoundedInduction, SequenceTheorems, TLAPS
-----------------------------------------------------------------------------
(* What the operators of SlotFile do, for any contents of the slots: taking *)
(* a free slot, releasing slots, writing the dirty ones over the file and   *)
(* loading it again.  (The same lemmas as in MdbProofs.)                    *)

(* n slots, whose contents are in S; a db of them.                          *)
Array(data, n, S) == n \in Nat /\ data \in [0 .. n - 1 -> S]
IsDb(d, n, S) == Array(d.data, n, S) /\ d.dirty \subseteq 0 .. n - 1

(* d of n slots has become e of m: the slot s, which was free or not there, *)
(* holds content, the others are as they were, or new and free, and what    *)
(* changed is dirty.                                                        *)
Taken(d, n, s, content, e, m) ==
  /\ n <= m /\ s \in 0 .. m - 1
  /\ s < n => d.data[s] = Free
  /\ e.data[s] = content /\ s \in e.dirty
  /\ \A i \in 0 .. m - 1 : i # s => e.data[i] = IF i < n THEN d.data[i] ELSE Free
  /\ \A i \in 0 .. m - 1 : i \notin e.dirty => i < n /\ i \notin d.dirty

(* Slots that are not dirty are what they were.                             *)
Kept(d, n, e, m) ==
  \A i \in 0 .. m - 1 : i \notin e.dirty => i < n /\ i \notin d.dirty /\ e.data[i] = d.data[i]
-----------------------------------------------------------------------------
(* The order of the naturals, for inductions.                              *)
LEMMA NatWellFounded == IsWellFoundedOn({xy \in Nat \X Nat : xy[1] < xy[2]}, Nat)
BY NatLessThanWellFounded DEF OpToRel

(* A set of naturals has a least member.                                   *)
LEMMA HasLeast ==
  ASSUME NEW S \in SUBSET Nat, S # {}
  PROVE  \E x \in S : \A y \in S : x <= y
<1> DEFINE R == {xy \in Nat \X Nat : xy[1] < xy[2]}
<1>0. IsWellFoundedOn(R, Nat)
  BY NatWellFounded
<1> HIDE DEF R
<1>1. PICK x \in S : \A y \in S : ~(<<y, x>> \in R)
  BY <1>0, WFMin
<1>2. ASSUME NEW y \in S PROVE x <= y
  <2>1. <<y, x>> \notin R
    BY <1>1
  <2>2. QED BY <2>1 DEF R
<1>3. QED BY <1>2

(* The least of some numbers, and the greatest below a bound.               *)
LEMMA MinIs ==
  ASSUME NEW S \in SUBSET Nat, S # {}
  PROVE  Min(S) \in S /\ \A y \in S : Min(S) <= y
BY HasLeast DEF Min

LEMMA MaxIs ==
  ASSUME NEW n \in Nat, NEW S \in SUBSET (-1 .. n), S # {}
  PROVE  Max(S) \in S /\ \A y \in S : Max(S) >= y
<1> DEFINE T == {n - x : x \in S}
<1>1. T \in SUBSET Nat /\ T # {}
  <2>1. \A x \in S : x \in -1 .. n
    OBVIOUS
  <2>2. \A x \in S : n - x \in Nat
    BY <2>1
  <2>3. QED BY <2>2
<1> HIDE DEF T
<1>2. PICK t \in T : \A u \in T : t <= u
  BY <1>1, HasLeast
<1>3. PICK x \in S : t = n - x
  BY DEF T
<1>4. ASSUME NEW y \in S PROVE x >= y
  <2>1. n - y \in T
    BY DEF T
  <2>2. t <= n - y
    BY <1>2, <2>1
  <2>3. QED BY <1>3, <2>2
<1>5. \E z \in S : \A y \in S : z >= y
  BY <1>4
<1>6. QED BY <1>5 DEF Max

LEMMA NumberIs ==
  ASSUME NEW n, NEW S, NEW data, Array(data, n, S)
  PROVE  Number(data) = n /\ DOMAIN data = 0 .. n - 1
<1>1. n \in Nat /\ DOMAIN data = 0 .. n - 1
  BY DEF Array
<1>2. Cardinality(0 .. n - 1) = n
  <2>1. 0 \in Int /\ n - 1 \in Int
    BY <1>1
  <2>2. Cardinality(0 .. n - 1) = IF 0 > n - 1 THEN 0 ELSE (n - 1) - 0 + 1
    BY <2>1, FS_Interval
  <2>3. QED BY <1>1, <2>2
<1>3. QED BY <1>1, <1>2 DEF Number

(* Add slots to the end, if none is free.                                   *)
LEMMA RoomIs ==
  ASSUME NEW S, Free \in S, NEW n, NEW d, IsDb(d, n, S)
  PROVE  \E m \in Nat :
           /\ n <= m /\ IsDb(Room(d), m, S)
           /\ \A i \in 0 .. m - 1 :
                Room(d).data[i] = IF i < n THEN d.data[i] ELSE Free
           /\ \A i \in 0 .. m - 1 :
                i \notin Room(d).dirty => i < n /\ i \notin d.dirty
           /\ \E i \in 0 .. m - 1 : Room(d).data[i] = Free
<1>1. /\ n \in Nat /\ d.data \in [0 .. n - 1 -> S] /\ d.dirty \subseteq 0 .. n - 1
      /\ Number(d.data) = n /\ DOMAIN d.data = 0 .. n - 1
  BY NumberIs DEF IsDb, Array
<1>2. CASE \E i \in DOMAIN d.data : d.data[i] = Free
  <2>1. Room(d) = d
    BY <1>2 DEF Room
  <2>2. \A i \in 0 .. n - 1 : i < n
    BY <1>1
  <2>3. \E i \in 0 .. n - 1 : Room(d).data[i] = Free
    BY <1>1, <1>2, <2>1
  <2>4. n <= n
    BY <1>1
  <2>5. QED BY <1>1, <2>1, <2>2, <2>3, <2>4
<1>3. CASE ~ \E i \in DOMAIN d.data : d.data[i] = Free
  <2> DEFINE m == n + Growth
  <2>1. m \in Nat /\ n < m /\ n \in 0 .. m - 1 /\ n + Growth - 1 = m - 1
    BY <1>1, GrowthAssumption
  <2>2. /\ Room(d).data = [i \in 0 .. m - 1 |-> IF i < n THEN d.data[i] ELSE Free]
        /\ Room(d).dirty = d.dirty \cup n .. m - 1
    <3>1. Room(d) = Grow(d)
      BY <1>3 DEF Room
    <3>2. Room(d) = [data |-> [i \in 0 .. n + Growth - 1 |-> IF i < n THEN d.data[i] ELSE Free],
                     dirty |-> d.dirty \cup n .. n + Growth - 1]
      BY <3>1, <1>1 DEF Grow
    <3>3. QED BY <3>2, <2>1
  <2> HIDE DEF m
  <2>3. \A i \in 0 .. m - 1 : i < n => i \in 0 .. n - 1
    BY <1>1, <2>1
  <2>4. Room(d).data \in [0 .. m - 1 -> S]
    BY <1>1, <2>2, <2>3
  <2>5. \A i \in 0 .. m - 1 : i \notin Room(d).dirty => i < n /\ i \notin d.dirty
    BY <1>1, <2>1, <2>2
  <2>6. Room(d).dirty \subseteq 0 .. m - 1
    BY <1>1, <2>1, <2>2
  <2>7. Room(d).data[n] = Free
    BY <1>1, <2>1, <2>2
  <2>8. IsDb(Room(d), m, S)
    BY <2>1, <2>4, <2>6 DEF IsDb, Array
  <2>9. \A i \in 0 .. m - 1 : Room(d).data[i] = IF i < n THEN d.data[i] ELSE Free
    BY <2>2
  <2>10. QED BY <2>1, <2>5, <2>7, <2>8, <2>9, <1>1
<1>4. QED BY <1>2, <1>3

LEMMA TakeIs ==
  ASSUME NEW S, Free \in S, NEW n, NEW d, IsDb(d, n, S), NEW content \in S
  PROVE  \E m \in Nat : /\ IsDb(Take(d, content), m, S)
                         /\ Taken(d, n, FirstFree(d), content, Take(d, content), m)
<1> DEFINE room == Room(d)
           frees == {i \in DOMAIN room.data : room.data[i] = Free}
           s == FirstFree(d)
<1>0. n \in Nat
  BY DEF IsDb, Array
<1>1. PICK m \in Nat :
           /\ n <= m /\ IsDb(room, m, S)
           /\ \A i \in 0 .. m - 1 : room.data[i] = IF i < n THEN d.data[i] ELSE Free
           /\ \A i \in 0 .. m - 1 : i \notin room.dirty => i < n /\ i \notin d.dirty
           /\ \E i \in 0 .. m - 1 : room.data[i] = Free
  BY RoomIs
<1>2. /\ room.data \in [0 .. m - 1 -> S] /\ room.dirty \subseteq 0 .. m - 1
      /\ DOMAIN room.data = 0 .. m - 1
  BY <1>1 DEF IsDb, Array
<1>3. /\ Take(d, content).data = [room.data EXCEPT ![s] = content]
      /\ Take(d, content).dirty = room.dirty \cup {s}
  BY DEF Take
<1>4. s = Min(frees)
  BY DEF FirstFree
<1>5. frees \in SUBSET Nat /\ frees # {}
  BY <1>1, <1>2
<1>6. s \in 0 .. m - 1 /\ room.data[s] = Free
  <2>1. s \in frees
    BY <1>4, <1>5, MinIs
  <2>2. QED BY <2>1, <1>2
<1> HIDE DEF room, frees, s
<1>7. IsDb(Take(d, content), m, S)
  <2>1. Take(d, content).data \in [0 .. m - 1 -> S]
    BY <1>2, <1>3, <1>6
  <2>2. Take(d, content).dirty \subseteq 0 .. m - 1
    BY <1>2, <1>3, <1>6
  <2>3. QED BY <2>1, <2>2 DEF IsDb, Array
<1>8. Taken(d, n, s, content, Take(d, content), m)
  <2>1. s < n => d.data[s] = Free
    BY <1>1, <1>6
  <2>2. Take(d, content).data[s] = content /\ s \in Take(d, content).dirty
    BY <1>2, <1>3, <1>6
  <2>3. \A i \in 0 .. m - 1 : i # s =>
          Take(d, content).data[i] = IF i < n THEN d.data[i] ELSE Free
    BY <1>1, <1>2, <1>3
  <2>4. \A i \in 0 .. m - 1 : i \notin Take(d, content).dirty => i < n /\ i \notin d.dirty
    BY <1>1, <1>3
  <2>5. QED BY <1>1, <1>6, <2>1, <2>2, <2>3, <2>4 DEF Taken
<1>9. QED BY <1>7, <1>8 DEF s

LEMMA ReleaseIs ==
  ASSUME NEW S, Free \in S, NEW n, NEW d, IsDb(d, n, S), NEW slots,
         slots \subseteq 0 .. n - 1
  PROVE  /\ IsDb(Release(d, slots), n, S)
         /\ \A i \in 0 .. n - 1 :
              Release(d, slots).data[i] = IF i \in slots THEN Free ELSE d.data[i]
         /\ Release(d, slots).dirty = d.dirty \cup slots
<1>1. n \in Nat /\ d.data \in [0 .. n - 1 -> S] /\ d.dirty \subseteq 0 .. n - 1
  BY DEF IsDb, Array
<1>2. /\ Release(d, slots).data = [i \in 0 .. n - 1 |-> IF i \in slots THEN Free ELSE d.data[i]]
      /\ Release(d, slots).dirty = d.dirty \cup slots
  BY <1>1 DEF Release
<1>3. Release(d, slots).data \in [0 .. n - 1 -> S]
  BY <1>1, <1>2
<1>4. QED BY <1>1, <1>2, <1>3 DEF IsDb, Array
-----------------------------------------------------------------------------
(* The slots of a file, and what can be read of it.                         *)
IsFile(old, S) ==
  old.entries \in Nat /\ \E k \in Nat : Array(old.slots, k, S)

(* Memory and file agree on the slots that are not dirty.                   *)
Agree(d, old) ==
  \A i \in DOMAIN d.data \ d.dirty : i \in DOMAIN old.slots /\ old.slots[i] = d.data[i]

LEMMA LoadIs ==
  ASSUME NEW S, NEW old, IsFile(old, S)
  PROVE  /\ \E n \in Nat : Array(Load(old), n, S)
         /\ \A i \in DOMAIN Load(old) :
              i \in DOMAIN old.slots /\ Load(old)[i] = old.slots[i]
<1>1. PICK k \in Nat : old.slots \in [0 .. k - 1 -> S]
  BY DEF IsFile, Array
<1>2. old.entries \in Nat
  BY DEF IsFile
<1>3. CASE old.entries - 1 \in DOMAIN old.slots
  <2>1. Load(old) = [i \in 0 .. old.entries - 1 |-> old.slots[i]]
    BY <1>3 DEF Load
  <2>2. \A i \in 0 .. old.entries - 1 : i \in 0 .. k - 1
    BY <1>1, <1>2, <1>3
  <2>3. Load(old) \in [0 .. old.entries - 1 -> S]
    BY <1>1, <2>1, <2>2
  <2>4. QED BY <1>1, <1>2, <2>1, <2>2, <2>3 DEF Array
<1>4. CASE ~ (old.entries - 1 \in DOMAIN old.slots)
  <2>1. Load(old) = NoSlots
    BY <1>4 DEF Load
  <2>2. NoSlots \in [0 .. 0 - 1 -> S] /\ DOMAIN NoSlots = {}
    BY DEF NoSlots
  <2>3. QED BY <2>1, <2>2 DEF Array
<1>5. QED BY <1>3, <1>4

LEMMA KeptTaken ==
  ASSUME NEW d, NEW n, NEW s, NEW content, NEW e, NEW m, Taken(d, n, s, content, e, m)
  PROVE  Kept(d, n, e, m)
BY DEF Taken, Kept

LEMMA KeptTwice ==
  ASSUME NEW d, NEW n \in Nat, NEW e, NEW m \in Nat, NEW f, NEW k,
         Kept(d, n, e, m), Kept(e, m, f, k)
  PROVE  Kept(d, n, f, k)
<1> SUFFICES ASSUME NEW i \in 0 .. k - 1, i \notin f.dirty
             PROVE  i < n /\ i \notin d.dirty /\ f.data[i] = d.data[i]
  BY DEF Kept
<1>1. i < m /\ i \notin e.dirty /\ f.data[i] = e.data[i]
  BY DEF Kept
<1>2. i \in 0 .. m - 1
  BY <1>1
<1>3. QED BY <1>1, <1>2 DEF Kept

LEMMA KeptAgrees ==
  ASSUME NEW S, NEW d, NEW n, NEW e, NEW m, IsDb(d, n, S), IsDb(e, m, S),
         Kept(d, n, e, m), NEW old, Agree(d, old)
  PROVE  Agree(e, old)
<1>1. n \in Nat /\ DOMAIN d.data = 0 .. n - 1 /\ DOMAIN e.data = 0 .. m - 1
  BY DEF IsDb, Array
<1> SUFFICES ASSUME NEW i \in DOMAIN e.data \ e.dirty
             PROVE  i \in DOMAIN old.slots /\ old.slots[i] = e.data[i]
  BY DEF Agree
<1>2. i \in 0 .. n - 1 /\ i \notin d.dirty /\ e.data[i] = d.data[i]
  BY <1>1 DEF Kept
<1>3. QED BY <1>1, <1>2 DEF Agree

(* w is the old file with the dirty slots below `end' written over it.      *)
Written(d, n, old, end, S, w) ==
  /\ w.entries = n
  /\ \E k \in Nat :
       /\ Array(w.slots, k, S)
       /\ DOMAIN old.slots \subseteq 0 .. k - 1
       /\ \A i \in d.dirty : i < end => i \in 0 .. k - 1
       /\ \A i \in 0 .. k - 1 : w.slots[i] =
            IF i \in d.dirty /\ i < end THEN d.data[i]
            ELSE IF i \in DOMAIN old.slots THEN old.slots[i] ELSE Free

LEMMA WrittenIs ==
  ASSUME NEW S, Free \in S, NEW n, NEW d, IsDb(d, n, S), NEW old, IsFile(old, S),
         NEW end \in Nat
  PROVE  Written(d, n, old, end, S, WriteSlots(d, old, end))
<1> DEFINE new == {i \in d.dirty : i < end}
           all == {-1} \cup new \cup DOMAIN old.slots
           last == Max(all)
           w == WriteSlots(d, old, end)
<1>1. /\ n \in Nat /\ d.data \in [0 .. n - 1 -> S] /\ d.dirty \subseteq 0 .. n - 1
      /\ Number(d.data) = n
  BY NumberIs DEF IsDb, Array
<1>2. PICK k \in Nat : old.slots \in [0 .. k - 1 -> S]
  BY DEF IsFile, Array
<1>3. last \in all /\ \A y \in all : last >= y
  <2>1. all \in SUBSET (-1 .. n + k) /\ all # {} /\ n + k \in Nat
    BY <1>1, <1>2
  <2> HIDE DEF all
  <2>2. QED BY <2>1, MaxIs
<1>4. /\ w.entries = n
      /\ w.slots = [i \in 0 .. last |->
                      CASE i \in new -> d.data[i]
                        [] i \notin new /\ i \in DOMAIN old.slots -> old.slots[i]
                        [] OTHER -> Free]
  BY <1>1 DEF WriteSlots
<1>5. \A i \in new : i \in 0 .. n - 1
  BY <1>1
<1>6. last \in -1 .. n + k
  BY <1>1, <1>2, <1>3
<1> DEFINE m == last + 1
<1>7. m \in Nat /\ 0 .. last = 0 .. m - 1
  BY <1>1, <1>2, <1>6
<1>8. /\ \A i \in d.dirty : i < end => i \in 0 .. last
      /\ DOMAIN old.slots \subseteq 0 .. last
  BY <1>1, <1>2, <1>3, <1>6
<1> HIDE DEF last, w
<1>9. \A i \in 0 .. last : w.slots[i] = IF i \in d.dirty /\ i < end THEN d.data[i]
                   ELSE IF i \in DOMAIN old.slots THEN old.slots[i] ELSE Free
  BY <1>4
<1>10. DOMAIN w.slots = 0 .. last /\ w.slots = [i \in DOMAIN w.slots |-> w.slots[i]]
  BY <1>4
<1>11. \A i \in 0 .. last : w.slots[i] \in S
  <2> SUFFICES ASSUME NEW i \in 0 .. last PROVE w.slots[i] \in S
    OBVIOUS
  <2>1. CASE i \in d.dirty /\ i < end
    BY <2>1, <1>1, <1>9
  <2>2. CASE ~(i \in d.dirty /\ i < end) /\ i \in DOMAIN old.slots
    BY <2>2, <1>2, <1>9
  <2>3. CASE ~(i \in d.dirty /\ i < end) /\ ~(i \in DOMAIN old.slots)
    BY <2>3, <1>9
  <2>4. QED BY <2>1, <2>2, <2>3
<1>12. w.slots \in [0 .. last -> S]
  BY <1>10, <1>11
<1> HIDE DEF m
<1>13. Array(w.slots, m, S)
  BY <1>7, <1>12 DEF Array
<1>14. QED BY <1>4, <1>7, <1>8, <1>9, <1>13 DEF w, Written

(* All dirty slots are written: the next session reads the slots as they    *)
(* are, if those that are not dirty agreed with the file.                   *)
LEMMA WholeIsRead ==
  ASSUME NEW S, Free \in S, NEW n, NEW d, IsDb(d, n, S), NEW old, IsFile(old, S),
         Agree(d, old)
  PROVE  Load(WriteSlots(d, old, Number(d.data))) = d.data
<1> DEFINE w == WriteSlots(d, old, n)
<1>1. /\ n \in Nat /\ d.data \in [0 .. n - 1 -> S] /\ d.dirty \subseteq 0 .. n - 1
      /\ Number(d.data) = n /\ DOMAIN d.data = 0 .. n - 1
  BY NumberIs DEF IsDb, Array
<1>0. n \in Nat
  BY <1>1
<1>2. Written(d, n, old, n, S, w)
  BY <1>0, WrittenIs
<1> HIDE DEF w
<1>3. PICK k \in Nat :
              /\ Array(w.slots, k, S)
              /\ DOMAIN old.slots \subseteq 0 .. k - 1
              /\ \A i \in d.dirty : i < n => i \in 0 .. k - 1
              /\ \A i \in 0 .. k - 1 : w.slots[i] =
                   IF i \in d.dirty /\ i < n THEN d.data[i]
                   ELSE IF i \in DOMAIN old.slots THEN old.slots[i] ELSE Free
  BY <1>2 DEF Written
<1>4. w.entries = n /\ DOMAIN w.slots = 0 .. k - 1
  BY <1>2, <1>3 DEF Array, Written
<1>5. \A i \in 0 .. n - 1 : i \in 0 .. k - 1 /\ w.slots[i] = d.data[i]
  <2> SUFFICES ASSUME NEW i \in 0 .. n - 1
               PROVE  i \in 0 .. k - 1 /\ w.slots[i] = d.data[i]
    OBVIOUS
  <2>1. CASE i \in d.dirty
    BY <2>1, <1>1, <1>3
  <2>2. CASE i \notin d.dirty
    <3>1. i \in DOMAIN old.slots /\ old.slots[i] = d.data[i]
      BY <2>2, <1>1 DEF Agree
    <3>2. QED BY <2>2, <3>1, <1>3
  <2>3. QED BY <2>1, <2>2
<1>6. CASE n = 0
  <2>1. w.entries - 1 \notin DOMAIN w.slots
    BY <1>4, <1>6
  <2>2. Load(w) = NoSlots
    BY <2>1 DEF Load
  <2>3. DOMAIN d.data = {} /\ d.data = [i \in {} |-> d.data[i]]
    BY <1>1, <1>6
  <2>4. NoSlots = [i \in {} |-> d.data[i]]
    BY DEF NoSlots
  <2>5. QED BY <1>1, <2>2, <2>3, <2>4 DEF w
<1>7. CASE n # 0
  <2>1. n - 1 \in 0 .. n - 1
    BY <1>1, <1>7
  <2>2. w.entries - 1 \in DOMAIN w.slots
    BY <2>1, <1>4, <1>5
  <2>3. Load(w) = [i \in 0 .. n - 1 |-> w.slots[i]]
    BY <2>2, <1>4 DEF Load
  <2>4. Load(w) = [i \in 0 .. n - 1 |-> d.data[i]]
    BY <2>3, <1>5
  <2>5. QED BY <1>1, <2>4 DEF w
<1>8. QED BY <1>6, <1>7

(* The file that a failed write leaves.                                     *)
LEMMA TornIs ==
  ASSUME NEW S, Free \in S, NEW n, NEW d, IsDb(d, n, S), NEW old, IsFile(old, S),
         NEW f \in TornFiles(d, old)
  PROVE  IsFile(f, S) /\ Load(f) \in {Load(old), d.data, NoSlots}
<1>1. n \in Nat /\ DOMAIN d.data \subseteq Nat
  BY DEF IsDb, Array
<1>2. PICK end \in DOMAIN d.data : f = WriteSlots(d, old, end)
  BY DEF TornFiles
<1>3. Written(d, n, old, end, S, f)
  BY <1>1, <1>2, WrittenIs
<1>4. IsFile(f, S)
  BY <1>1, <1>3 DEF Written, IsFile
<1>5. QED BY <1>4 DEF TornFiles
-----------------------------------------------------------------------------
(* The members of the archive a are the first k of content, each once.     *)
Lists(data, a, content, k) ==
  \E b \in [1 .. k -> DOMAIN data] :
    /\ \A i, j \in 1 .. k : b[i] = b[j] => i = j
    /\ Members(data, a) = {b[i] : i \in 1 .. k}
    /\ \A i \in 1 .. k : data[b[i]].name = content[i]

OneEntry(data) == \A a, b \in Arcs(data) : data[a].name = data[b].name => a = b
NoOrphan(data) ==
  \A m \in DOMAIN data : data[m].kind = "member" => data[m].parent \in Arcs(data)
ArcRight(data, a) ==
  LET content == ContentOf(data[a].name, data[a].size)
  IN  \E k \in 0 .. Len(content) :
        Lists(data, a, content, k) /\ (data[a].whole => k = Len(content))

(* What Catalogue says, of the slots in memory or in the file.             *)
Catalogued(data) ==
  OneEntry(data) /\ NoOrphan(data) /\ \A a \in Arcs(data) : ArcRight(data, a)

(* In a session, slots that are not dirty are those of the file.           *)
SlotsInv == IsFile(file, Slots) /\ \E n \in Nat : IsDb(db, n, Slots)
CatalogueInv == Catalogued(adbData) /\ Catalogued(Load(file))
DiskInv == running => Agree(db, file)
RefRight(data, r) ==
  /\ r.arc \in Names /\ r.name \in Modules /\ r.ref \in DOMAIN data
  /\ data[r.ref] = Member(r.name, adbFind(data, r.arc))
RefsInv == (\A r \in refs : RefRight(adbData, r)) /\ (~running => refs = {})
FlagsInv == adbDirty \in BOOLEAN /\ running \in BOOLEAN /\ left \in 0 .. Scans

IInv == SlotsInv /\ CatalogueInv /\ DiskInv /\ RefsInv
-----------------------------------------------------------------------------
LEMMA FreeSlot == Free \in Slots /\ Free.kind = "free"
BY DEF Free, Slots

LEMMA ContentIs ==
  ASSUME NEW name \in Names, NEW size \in Sizes
  PROVE  ContentOf(name, size) \in Seq(Modules)
<1>1. Content \in [Names \X Sizes -> Seq(Modules)]
  BY ContentAssumption
<1>2. <<name, size>> \in Names \X Sizes
  OBVIOUS
<1>3. Content[<<name, size>>] \in Seq(Modules)
  BY <1>1, <1>2
<1>4. QED BY Zenon, <1>3 DEF ContentOf

LEMMA ArcSlot ==
  ASSUME NEW s \in Slots, s.kind = "arc"
  PROVE  /\ s.name \in Names /\ s.size \in Sizes /\ s.whole \in BOOLEAN
         /\ ContentOf(s.name, s.size) \in Seq(Modules)
<1>1. s.name \in Names /\ s.size \in Sizes /\ s.whole \in BOOLEAN
  BY DEF Slots, Free
<1>2. QED BY <1>1, ContentIs

LEMMA MemberSlot ==
  ASSUME NEW s \in Slots, s.kind = "member"
  PROVE  s.name \in Modules /\ s.parent \in Nat /\ s = Member(s.name, s.parent)
BY DEF Slots, Free, Member

LEMMA NewArc ==
  ASSUME NEW name \in Names, NEW size \in Sizes, NEW whole \in BOOLEAN
  PROVE  /\ Arc(name, size, whole) \in Slots /\ Arc(name, size, whole).kind = "arc"
         /\ Arc(name, size, whole).name = name /\ Arc(name, size, whole).size = size
         /\ Arc(name, size, whole).whole = whole
BY DEF Arc, Slots

LEMMA NewMember ==
  ASSUME NEW name \in Modules, NEW parent \in Nat
  PROVE  /\ Member(name, parent) \in Slots /\ Member(name, parent).kind = "member"
         /\ Member(name, parent).name = name /\ Member(name, parent).parent = parent
BY DEF Member, Slots

LEMMA SlotIs ==
  ASSUME NEW data, NEW n, Array(data, n, Slots)
  PROVE  /\ n \in Nat /\ DOMAIN data = 0 .. n - 1 /\ \A i \in 0 .. n - 1 : data[i] \in Slots
         /\ \A a \in Arcs(data) : a \in 0 .. n - 1 /\ a \in Nat /\ data[a].kind = "arc"
BY DEF Array, Arcs

(* The archive of a name is found by it.                                   *)
LEMMA FindIs ==
  ASSUME NEW data, NEW n, Array(data, n, Slots), OneEntry(data), NEW name
  PROVE  \/ /\ adbFind(data, name) \in Arcs(data)
            /\ data[adbFind(data, name)].name = name
         \/ /\ adbFind(data, name) = NotFound
            /\ \A a \in Arcs(data) : data[a].name # name
<1> DEFINE those == {i \in Arcs(data) : data[i].name = name}
<1>1. CASE those = {}
  BY <1>1 DEF adbFind
<1>2. CASE those # {}
  <2>1. those \in SUBSET Nat
    BY SlotIs
  <2>2. \E i \in those : \A j \in those : i <= j
    BY <2>1, <1>2, HasLeast
  <2>3. adbFind(data, name) = CHOOSE i \in those : \A j \in those : i <= j
    BY <1>2 DEF adbFind
  <2>4. adbFind(data, name) \in those
    BY <2>2, <2>3
  <2>5. QED BY <2>4
<1>3. QED BY <1>1, <1>2

LEMMA FindThis ==
  ASSUME NEW data, NEW n, Array(data, n, Slots), OneEntry(data), NEW a \in Arcs(data)
  PROVE  adbFind(data, data[a].name) = a
<1> DEFINE f == adbFind(data, data[a].name)
<1>1. \/ f \in Arcs(data) /\ data[f].name = data[a].name
      \/ f = NotFound /\ \A b \in Arcs(data) : data[b].name # data[a].name
  BY FindIs
<1>2. QED BY <1>1 DEF OneEntry
-----------------------------------------------------------------------------
(* The archives of d but that of the name are in e, with their members.    *)
Keeps(d, e, name) ==
  \A a \in Arcs(d) : d[a].name # name =>
    /\ a \in Arcs(e) /\ e[a] = d[a] /\ Members(e, a) = Members(d, a)
    /\ \A i \in Members(d, a) : e[i] = d[i]

LEMMA KeepsRight ==
  ASSUME NEW d, NEW e, NEW name, Keeps(d, e, name),
         NEW a \in Arcs(d), d[a].name # name, ArcRight(d, a)
  PROVE  ArcRight(e, a)
<1> DEFINE content == ContentOf(d[a].name, d[a].size)
<1>1. /\ e[a] = d[a] /\ Members(e, a) = Members(d, a)
      /\ \A i \in Members(d, a) : e[i] = d[i]
  BY DEF Keeps
<1>2. PICK k \in 0 .. Len(content) :
        Lists(d, a, content, k) /\ (d[a].whole => k = Len(content))
  BY DEF ArcRight
<1> HIDE DEF content
<1>3. PICK b \in [1 .. k -> DOMAIN d] :
        /\ \A i, j \in 1 .. k : b[i] = b[j] => i = j
        /\ Members(d, a) = {b[i] : i \in 1 .. k}
        /\ \A i \in 1 .. k : d[b[i]].name = content[i]
  BY <1>2 DEF Lists
<1>4. Members(e, a) \subseteq DOMAIN e
  BY DEF Members
<1>5. \A i \in 1 .. k : b[i] \in Members(e, a) /\ e[b[i]] = d[b[i]]
  BY <1>1, <1>3
<1>6. b \in [1 .. k -> DOMAIN e]
  BY <1>3, <1>4, <1>5
<1>7. \A i \in 1 .. k : e[b[i]].name = content[i]
  BY <1>3, <1>5
<1>8. Members(e, a) = {b[i] : i \in 1 .. k}
  BY <1>1, <1>3
<1>9. Lists(e, a, content, k)
  BY <1>3, <1>6, <1>7, <1>8 DEF Lists
<1>10. QED BY <1>1, <1>2, <1>9 DEF ArcRight, content
-----------------------------------------------------------------------------
(* The archive of the name is gone from d, with its members.               *)
Gone(d, n, ar, e) ==
  \A i \in 0 .. n - 1 :
    e[i] = IF i = ar \/ (d[i].kind = "member" /\ d[i].parent = ar) THEN Free ELSE d[i]

LEMMA GoneIs ==
  ASSUME NEW d, NEW n, Array(d, n, Slots), Catalogued(d), NEW name,
         NEW e, Array(e, n, Slots), Gone(d, n, adbFind(d, name), e)
  PROVE  Catalogued(e) /\ Keeps(d, e, name) /\ \A a \in Arcs(e) : e[a].name # name
<1> DEFINE ar == adbFind(d, name)
<1>1. /\ n \in Nat /\ DOMAIN d = 0 .. n - 1 /\ DOMAIN e = 0 .. n - 1
      /\ \A a \in Arcs(d) : a \in 0 .. n - 1
  BY SlotIs
<1>2. \A i \in 0 .. n - 1 :
        e[i] = IF i = ar \/ (d[i].kind = "member" /\ d[i].parent = ar) THEN Free ELSE d[i]
  BY DEF Gone
<1>3. /\ OneEntry(d) /\ NoOrphan(d) /\ \A a \in Arcs(d) : ArcRight(d, a)
  BY DEF Catalogued
<1>4. \/ ar \in Arcs(d) /\ d[ar].name = name
      \/ ar = NotFound /\ \A a \in Arcs(d) : d[a].name # name
  BY <1>3, FindIs
<1> HIDE DEF ar
<1>5. Free.kind = "free" /\ \A i \in 0 .. n - 1 : i # NotFound
  BY <1>1, FreeSlot DEF NotFound
<1>6. \A a \in Arcs(d) : d[a].kind = "arc" /\ (d[a].name # name <=> a # ar)
  BY <1>1, <1>3, <1>4, <1>5 DEF Arcs, OneEntry
<1>7. Arcs(e) = Arcs(d) \ {ar} /\ \A a \in Arcs(e) : e[a] = d[a]
  <2>1. \A i \in 0 .. n - 1 : e[i].kind = "arc" <=> d[i].kind = "arc" /\ i # ar
    BY <1>2, <1>5
  <2>2. \A i \in 0 .. n - 1 : e[i].kind = "arc" => e[i] = d[i]
    BY <1>2, <1>5
  <2>3. QED BY <2>1, <2>2, <1>1 DEF Arcs
<1>8. ASSUME NEW a \in Arcs(d), a # ar
      PROVE  Members(e, a) = Members(d, a) /\ \A i \in Members(d, a) : e[i] = d[i]
  <2>1. ar \notin 0 .. n - 1 \/ d[ar].kind = "arc"
    BY <1>4, <1>5, <1>6
  <2>2. ASSUME NEW i \in 0 .. n - 1, d[i].kind = "member", d[i].parent = a
        PROVE  e[i] = d[i]
    <3>1. i # ar
      BY <2>1, <2>2
    <3>2. QED BY <3>1, <2>2, <1>2, <1>8
  <2>3. ASSUME NEW i \in 0 .. n - 1, e[i].kind = "member"
        PROVE  e[i] = d[i]
    BY <2>3, <1>2, <1>5
  <2>4. QED BY <2>2, <2>3, <1>1 DEF Members
<1>9. Keeps(d, e, name)
  BY <1>6, <1>7, <1>8 DEF Keeps
<1>10. \A a \in Arcs(e) : e[a].name # name
  BY <1>6, <1>7
<1>11. OneEntry(e)
  BY <1>3, <1>7 DEF OneEntry
<1>12. NoOrphan(e)
  <2> SUFFICES ASSUME NEW i \in 0 .. n - 1, e[i].kind = "member"
               PROVE  e[i].parent \in Arcs(e)
    BY <1>1 DEF NoOrphan
  <2>1. e[i] = d[i] /\ d[i].kind = "member" /\ d[i].parent # ar
    BY <1>2, <1>5
  <2>2. d[i].parent \in Arcs(d)
    BY <2>1, <1>1, <1>3 DEF NoOrphan
  <2>3. QED BY <2>1, <2>2, <1>7
<1>13. ASSUME NEW a \in Arcs(e) PROVE ArcRight(e, a)
  <2>1. a \in Arcs(d) /\ d[a].name # name
    BY <1>6, <1>7
  <2>2. QED BY <2>1, <1>3, <1>9, KeepsRight
<1>14. QED BY <1>9, <1>10, <1>11, <1>12, <1>13 DEF Catalogued
-----------------------------------------------------------------------------
(* To d, which has no archive of the name, that archive was added at s,    *)
(* and the first k modules in it.                                          *)
Adds(d, e, s, name, size, whole, k) ==
  /\ s \in Arcs(e) /\ e[s] = Arc(name, size, whole)
  /\ Arcs(e) = Arcs(d) \cup {s} /\ s \notin Arcs(d)
  /\ Keeps(d, e, name) /\ NoOrphan(e)
  /\ Lists(e, s, ContentOf(name, size), k)

(* A slot that is taken was free, and of the others those that are not     *)
(* free are as before.                                                     *)
Takes(d, n, s, content, e, m) ==
  /\ s \in 0 .. m - 1 /\ e[s] = content /\ (s < n => d[s] = Free)
  /\ \A i \in 0 .. n - 1 : i \in 0 .. m - 1 /\ (d[i] # Free => i # s /\ e[i] = d[i])
  /\ \A i \in 0 .. m - 1 : i # s /\ e[i] # Free => i \in 0 .. n - 1 /\ d[i] = e[i]

LEMMA TakesIs ==
  ASSUME NEW d, NEW n, IsDb(d, n, Slots), NEW content \in Slots
  PROVE  \E m \in Nat :
           /\ IsDb(Take(d, content), m, Slots) /\ Kept(d, n, Take(d, content), m)
           /\ Takes(d.data, n, FirstFree(d), content, Take(d, content).data, m)
<1> DEFINE e == Take(d, content)
           s == FirstFree(d)
<1>1. PICK m \in Nat : IsDb(e, m, Slots) /\ Taken(d, n, s, content, e, m)
  BY FreeSlot, TakeIs
<1>2. Kept(d, n, e, m)
  BY <1>1, KeptTaken
<1>3. n \in Nat
  BY DEF IsDb, Array
<1> HIDE DEF e, s
<1>4. /\ n <= m /\ s \in 0 .. m - 1
      /\ s < n => d.data[s] = Free
      /\ e.data[s] = content
      /\ \A i \in 0 .. m - 1 : i # s => e.data[i] = IF i < n THEN d.data[i] ELSE Free
  BY <1>1 DEF Taken
<1>5. \A i \in 0 .. n - 1 : i \in 0 .. m - 1 /\ i < n
  BY <1>3, <1>4
<1>6. \A i \in 0 .. m - 1 : i < n => i \in 0 .. n - 1
  BY <1>3
<1>7. Takes(d.data, n, s, content, e.data, m)
  BY <1>4, <1>5, <1>6 DEF Takes
<1>8. QED BY <1>1, <1>2, <1>7 DEF e, s

LEMMA AddsArc ==
  ASSUME NEW d, NEW n, Array(d, n, Slots), NoOrphan(d),
         NEW name \in Names, NEW size \in Sizes, NEW whole \in BOOLEAN,
         NEW e, NEW m, Array(e, m, Slots), NEW s,
         Takes(d, n, s, Arc(name, size, whole), e, m)
  PROVE  Adds(d, e, s, name, size, whole, 0)
<1> DEFINE arc == Arc(name, size, whole)
<1>1. /\ n \in Nat /\ DOMAIN d = 0 .. n - 1 /\ DOMAIN e = 0 .. m - 1
      /\ \A a \in Arcs(d) : a \in 0 .. n - 1 /\ d[a].kind = "arc"
  BY SlotIs
<1>2. arc.kind = "arc" /\ arc.name = name /\ Free.kind = "free"
  BY NewArc, FreeSlot
<1>3. /\ s \in 0 .. m - 1 /\ e[s] = arc /\ (s < n => d[s] = Free)
      /\ \A i \in 0 .. n - 1 : i \in 0 .. m - 1 /\ (d[i] # Free => i # s /\ e[i] = d[i])
      /\ \A i \in 0 .. m - 1 : i # s /\ e[i] # Free => i \in 0 .. n - 1 /\ d[i] = e[i]
  BY DEF Takes
<1> HIDE DEF arc
<1>4. s \notin Arcs(d)
  BY <1>1, <1>2, <1>3
<1>5. Arcs(e) = Arcs(d) \cup {s}
  <2>1. \A i \in 0 .. m - 1 : i # s /\ e[i].kind = "arc" => i \in 0 .. n - 1 /\ d[i].kind = "arc"
    BY <1>2, <1>3
  <2>2. \A i \in 0 .. n - 1 : d[i].kind = "arc" => i \in 0 .. m - 1 /\ e[i].kind = "arc"
    BY <1>2, <1>3
  <2>3. QED BY <2>1, <2>2, <1>1, <1>2, <1>3 DEF Arcs
<1>6. ASSUME NEW i \in 0 .. m - 1, e[i].kind = "member"
      PROVE  i \in 0 .. n - 1 /\ d[i] = e[i]
  BY <1>2, <1>3, <1>6
<1>7. ASSUME NEW i \in 0 .. n - 1, d[i].kind # "free"
      PROVE  i \in 0 .. m - 1 /\ e[i] = d[i]
  BY <1>2, <1>3, <1>7
<1>8. \A a : Members(e, a) = Members(d, a) /\ \A i \in Members(d, a) : e[i] = d[i]
  BY <1>1, <1>6, <1>7 DEF Members
<1>9. Keeps(d, e, name)
  BY <1>1, <1>5, <1>7, <1>8 DEF Keeps
<1>10. NoOrphan(e)
  BY <1>1, <1>5, <1>6 DEF NoOrphan
<1>11. Members(e, s) = {}
  BY <1>4, <1>8 DEF Members, NoOrphan
<1>12. Lists(e, s, ContentOf(name, size), 0)
  <2> DEFINE b == [i \in 1 .. 0 |-> s]
  <2>1. b \in [1 .. 0 -> DOMAIN e]
    OBVIOUS
  <2>2. {b[i] : i \in 1 .. 0} = {} /\ \A i \in 1 .. 0 : FALSE
    OBVIOUS
  <2>3. QED BY <2>1, <2>2, <1>11 DEF Lists
<1>13. QED BY <1>3, <1>4, <1>5, <1>9, <1>10, <1>12 DEF Adds, arc
-----------------------------------------------------------------------------
LEMMA KeepsMore ==
  ASSUME NEW d, NEW e, NEW f, NEW name, Keeps(d, e, name),
         Arcs(e) \subseteq Arcs(f),
         \A i \in DOMAIN e : e[i].kind # "free" => i \in DOMAIN f /\ f[i] = e[i],
         \A a \in Arcs(d) : Members(f, a) = Members(e, a)
  PROVE  Keeps(d, f, name)
<1> SUFFICES ASSUME NEW a \in Arcs(d), d[a].name # name
             PROVE  /\ a \in Arcs(f) /\ f[a] = d[a] /\ Members(f, a) = Members(d, a)
                    /\ \A i \in Members(d, a) : f[i] = d[i]
  BY DEF Keeps
<1>1. /\ a \in Arcs(e) /\ e[a] = d[a] /\ Members(e, a) = Members(d, a)
      /\ \A i \in Members(d, a) : e[i] = d[i]
  BY DEF Keeps
<1>2. a \in Arcs(f) /\ f[a] = e[a]
  BY <1>1 DEF Arcs
<1>3. \A i \in Members(d, a) : f[i] = e[i]
  BY <1>1 DEF Members
<1>4. QED BY <1>1, <1>2, <1>3

(* The next module of the archive is added.                                *)
LEMMA AddsMember ==
  ASSUME NEW d, NEW e, NEW m, Array(e, m, Slots), NEW s,
         NEW name \in Names, NEW size \in Sizes, NEW whole, NEW k \in Nat,
         Adds(d, e, s, name, size, whole, k), k + 1 \in 1 .. Len(ContentOf(name, size)),
         NEW f, NEW l, Array(f, l, Slots), NEW t,
         Takes(e, m, t, Member(ContentOf(name, size)[k + 1], s), f, l)
  PROVE  Adds(d, f, s, name, size, whole, k + 1)
<1> DEFINE content == ContentOf(name, size)
           new == Member(content[k + 1], s)
<1>1. /\ m \in Nat /\ DOMAIN e = 0 .. m - 1 /\ DOMAIN f = 0 .. l - 1
      /\ \A a \in Arcs(e) : a \in 0 .. m - 1 /\ a \in Nat /\ e[a].kind = "arc"
  BY SlotIs
<1>2. /\ s \in Arcs(e) /\ e[s] = Arc(name, size, whole)
      /\ Arcs(e) = Arcs(d) \cup {s} /\ s \notin Arcs(d)
      /\ Keeps(d, e, name) /\ NoOrphan(e) /\ Lists(e, s, content, k)
  BY DEF Adds
<1>3. content[k + 1] \in Modules
  BY ContentIs, ElementOfSeq
<1> HIDE DEF content
<1>4. /\ new.kind = "member" /\ new.name = content[k + 1] /\ new.parent = s
      /\ Free.kind = "free"
  BY <1>1, <1>2, <1>3, NewMember, FreeSlot
<1>5. /\ t \in 0 .. l - 1 /\ f[t] = new /\ (t < m => e[t] = Free)
      /\ \A i \in 0 .. m - 1 : i \in 0 .. l - 1 /\ (e[i] # Free => i # t /\ f[i] = e[i])
      /\ \A i \in 0 .. l - 1 : i # t /\ f[i] # Free => i \in 0 .. m - 1 /\ e[i] = f[i]
  BY DEF Takes, content
<1> HIDE DEF new
<1>6. ASSUME NEW i \in 0 .. m - 1, e[i].kind # "free"
      PROVE  i \in 0 .. l - 1 /\ i # t /\ f[i] = e[i]
  BY <1>4, <1>5, <1>6
<1>7. ASSUME NEW i \in 0 .. l - 1, i # t, f[i].kind # "free"
      PROVE  i \in 0 .. m - 1 /\ e[i] = f[i]
  BY <1>4, <1>5, <1>7
<1>8. Arcs(f) = Arcs(e)
  BY <1>1, <1>4, <1>5, <1>6, <1>7 DEF Arcs
<1>9. ASSUME NEW a PROVE Members(f, a) = IF a = s THEN Members(e, a) \cup {t} ELSE Members(e, a)
  BY <1>1, <1>4, <1>5, <1>6, <1>7 DEF Members
<1>10. t \notin DOMAIN e \/ e[t] = Free
  BY <1>1, <1>5
<1>11. Keeps(d, f, name)
  <2>1. \A a \in Arcs(d) : Members(f, a) = Members(e, a)
    BY <1>2, <1>9
  <2>2. \A i \in DOMAIN e : e[i].kind # "free" => i \in DOMAIN f /\ f[i] = e[i]
    BY <1>1, <1>6
  <2>3. QED BY <2>1, <2>2, <1>2, <1>8, KeepsMore
<1>12. NoOrphan(f)
  <2> SUFFICES ASSUME NEW i \in 0 .. l - 1, f[i].kind = "member"
               PROVE  f[i].parent \in Arcs(f)
    BY <1>1 DEF NoOrphan
  <2>1. CASE i = t
    BY <2>1, <1>2, <1>4, <1>5, <1>8
  <2>2. CASE i # t
    BY <2>2, <1>1, <1>2, <1>7, <1>8 DEF NoOrphan
  <2>3. QED BY <2>1, <2>2
<1>13. s \in Arcs(f) /\ f[s] = Arc(name, size, whole)
  BY <1>1, <1>2, <1>6, <1>8
<1>14. Lists(f, s, content, k + 1)
  <2>1. PICK b \in [1 .. k -> DOMAIN e] :
          /\ \A i, j \in 1 .. k : b[i] = b[j] => i = j
          /\ Members(e, s) = {b[i] : i \in 1 .. k}
          /\ \A i \in 1 .. k : e[b[i]].name = content[i]
    BY <1>2 DEF Lists
  <2> DEFINE c == [i \in 1 .. k + 1 |-> IF i = k + 1 THEN t ELSE b[i]]
  <2>2. \A i \in 1 .. k + 1 : c[i] = IF i = k + 1 THEN t ELSE b[i]
    OBVIOUS
  <2>3. \A i \in 1 .. k : c[i] = b[i] /\ i \in 1 .. k + 1 /\ i # k + 1
    OBVIOUS
  <2>4. \A i \in 1 .. k + 1 : i = k + 1 \/ i \in 1 .. k
    OBVIOUS
  <2>5. k + 1 \in 1 .. k + 1 /\ c[k + 1] = t
    OBVIOUS
  <2>6. \A i \in 1 .. k : b[i] \in DOMAIN e /\ b[i] \in Members(e, s) /\ b[i] # t /\ f[b[i]] = e[b[i]]
    BY <2>1, <1>1, <1>6 DEF Members
  <2>7. c \in [1 .. k + 1 -> DOMAIN f]
    BY <2>4, <2>6, <1>1, <1>5
  <2> HIDE DEF c
  <2>8. \A i, j \in 1 .. k + 1 : c[i] = c[j] => i = j
    BY <2>1, <2>2, <2>4, <2>6
  <2>9. Members(f, s) = {c[i] : i \in 1 .. k + 1}
    <3>1. Members(f, s) = Members(e, s) \cup {t}
      BY <1>9
    <3>2. QED BY <3>1, <2>1, <2>3, <2>4, <2>5
  <2>10. \A i \in 1 .. k + 1 : f[c[i]].name = content[i]
    BY <2>1, <2>2, <2>4, <2>6, <1>4, <1>5
  <2>11. QED BY <2>7, <2>8, <2>9, <2>10 DEF Lists
<1>15. QED BY <1>2, <1>8, <1>11, <1>12, <1>13, <1>14 DEF Adds, content

(* Together: the archive is in the catalogue.                              *)
LEMMA AddsRight ==
  ASSUME NEW d, Catalogued(d), NEW n, Array(d, n, Slots),
         NEW name \in Names, NEW size \in Sizes, NEW whole \in BOOLEAN,
         \A a \in Arcs(d) : d[a].name # name,
         NEW e, NEW s, NEW k \in 0 .. Len(ContentOf(name, size)),
         Adds(d, e, s, name, size, whole, k), whole => k = Len(ContentOf(name, size))
  PROVE  Catalogued(e)
<1>1. /\ s \in Arcs(e) /\ e[s] = Arc(name, size, whole)
      /\ Arcs(e) = Arcs(d) \cup {s} /\ s \notin Arcs(d)
      /\ Keeps(d, e, name) /\ NoOrphan(e) /\ Lists(e, s, ContentOf(name, size), k)
  BY DEF Adds
<1>2. e[s].name = name /\ e[s].size = size /\ e[s].whole = whole
  BY <1>1, NewArc
<1>3. \A a \in Arcs(d) : e[a] = d[a]
  BY <1>1 DEF Keeps
<1>4. OneEntry(e)
  BY <1>1, <1>2, <1>3 DEF OneEntry, Catalogued
<1>5. ArcRight(e, s)
  BY <1>1, <1>2 DEF ArcRight
<1>6. \A a \in Arcs(d) : ArcRight(e, a)
  BY <1>1, KeepsRight DEF Catalogued
<1>7. QED BY <1>1, <1>4, <1>5, <1>6 DEF Catalogued
-----------------------------------------------------------------------------
(* What is in memory after the archive and k modules were added.           *)
After(f, k, withArc, content, arcref) ==
  IF k = 0 THEN withArc ELSE Take(f[k - 1], Member(content[k], arcref))
IsScan(f, n, withArc, content, arcref) ==
  f = [k \in 0 .. n |-> After(f, k, withArc, content, arcref)]

LEMMA ScanExists ==
  \A withArc, content, arcref : \A n \in Nat : \E f : IsScan(f, n, withArc, content, arcref)
<1> SUFFICES ASSUME NEW withArc, NEW content, NEW arcref, NEW any \in Nat,
                    ~ \E f : IsScan(f, any, withArc, content, arcref)
             PROVE  FALSE
  OBVIOUS
<1> DEFINE Bad == {n \in Nat : ~ \E f : IsScan(f, n, withArc, content, arcref)}
<1>1. PICK n \in Bad : \A y \in Bad : n <= y
  BY HasLeast
<1>2. CASE n = 0
  <2> DEFINE f == [k \in 0 .. 0 |-> withArc]
  <2>1. \A k \in 0 .. 0 : After(f, k, withArc, content, arcref) = withArc
    BY DEF After
  <2>2. IsScan(f, 0, withArc, content, arcref)
    BY <2>1 DEF IsScan
  <2>3. QED BY <1>1, <1>2, <2>2
<1>3. CASE n # 0
  <2>1. n \in Nat /\ n - 1 \in Nat /\ n - 1 \notin Bad
    BY <1>1, <1>3
  <2>2. PICK f : IsScan(f, n - 1, withArc, content, arcref)
    BY <2>1
  <2> DEFINE g == [k \in 0 .. n |->
                     IF k = n THEN Take(f[n - 1], Member(content[n], arcref)) ELSE f[k]]
  <2>3. \A k \in 0 .. n - 1 : g[k] = f[k] /\ k \in 0 .. n
    BY <2>1
  <2>4. g[n] = Take(f[n - 1], Member(content[n], arcref)) /\ g = [k \in 0 .. n |-> g[k]]
    BY <2>1
  <2> HIDE DEF g
  <2>5. ASSUME NEW k \in 0 .. n PROVE g[k] = After(g, k, withArc, content, arcref)
    <3>1. CASE k = n
      <4>1. n - 1 \in 0 .. n - 1
        BY <2>1
      <4>2. g[n - 1] = f[n - 1]
        BY <4>1, <2>3
      <4>3. QED BY <3>1, <4>2, <2>4, <1>3 DEF After
    <3>2. CASE k # n
      <4>1. k \in 0 .. n - 1 /\ (k # 0 => k - 1 \in 0 .. n - 1)
        BY <3>2, <2>1
      <4>2. f[k] = After(f, k, withArc, content, arcref)
        BY <4>1, <2>2 DEF IsScan
      <4>3. g[k] = f[k] /\ (k # 0 => g[k - 1] = f[k - 1])
        BY <4>1, <2>3
      <4>4. QED BY <4>2, <4>3 DEF After
    <3>3. QED BY <3>1, <3>2
  <2>6. IsScan(g, n, withArc, content, arcref)
    BY <2>4, <2>5 DEF IsScan
  <2>7. QED BY <1>1, <2>6
<1>4. QED BY <1>2, <1>3

LEMMA ScannedEnds ==
  ASSUME NEW d, NEW name, NEW size, NEW n \in Nat, NEW whole
  PROVE  LET withArc == Take(d, Arc(name, size, whole))
             arcref  == adbFind(withArc.data, name)
         IN  \E f : /\ IsScan(f, n, withArc, ContentOf(name, size), arcref)
                    /\ Scanned(d, name, size, n, whole) = f[n]
<1> DEFINE withArc == Take(d, Arc(name, size, whole))
           arcref == adbFind(withArc.data, name)
           content == ContentOf(name, size)
           F == CHOOSE f : IsScan(f, n, withArc, content, arcref)
<1>1. \E f : IsScan(f, n, withArc, content, arcref)
  BY ScanExists
<1>2. IsScan(F, n, withArc, content, arcref)
  BY <1>1
<1>3. Scanned(d, name, size, n, whole) = F[n]
  BY DEF Scanned, IsScan, After
<1>4. QED BY <1>2, <1>3
-----------------------------------------------------------------------------
(* e is d with the archive at s, which it had not, and k modules in it.    *)
HasScanned(d, n, s, name, size, whole, e, k) ==
  \E m \in Nat : /\ IsDb(e, m, Slots) /\ Kept(d, n, e, m)
                 /\ Adds(d.data, e.data, s, name, size, whole, k)

LEMMA ScanBegins ==
  ASSUME NEW n, NEW d, IsDb(d, n, Slots), NoOrphan(d.data), OneEntry(d.data),
         NEW name \in Names, NEW size \in Sizes, NEW whole \in BOOLEAN,
         \A a \in Arcs(d.data) : d.data[a].name # name
  PROVE  LET withArc == Take(d, Arc(name, size, whole))
             arcref  == adbFind(withArc.data, name)
         IN  HasScanned(d, n, arcref, name, size, whole, withArc, 0)
<1> DEFINE arc == Arc(name, size, whole)
           e == Take(d, arc)
           s == FirstFree(d)
<1>1. arc \in Slots /\ arc.name = name
  BY NewArc
<1>2. PICK m \in Nat : IsDb(e, m, Slots) /\ Kept(d, n, e, m) /\ Takes(d.data, n, s, arc, e.data, m)
  BY <1>1, TakesIs
<1> HIDE DEF e, s
<1>3. Array(d.data, n, Slots) /\ Array(e.data, m, Slots)
  BY <1>2 DEF IsDb
<1>4. Adds(d.data, e.data, s, name, size, whole, 0)
  BY <1>2, <1>3, AddsArc
<1>5. /\ s \in Arcs(e.data) /\ e.data[s] = arc /\ Arcs(e.data) = Arcs(d.data) \cup {s}
      /\ \A a \in Arcs(d.data) : e.data[a] = d.data[a]
  BY <1>4 DEF Adds, Keeps
<1>6. OneEntry(e.data)
  BY <1>1, <1>5 DEF OneEntry
<1>7. adbFind(e.data, name) = s
  BY <1>1, <1>3, <1>5, <1>6, FindThis
<1>8. HasScanned(d, n, s, name, size, whole, e, 0)
  BY <1>2, <1>4 DEF HasScanned
<1>9. QED BY <1>7, <1>8 DEF e

LEMMA ScanGoesOn ==
  ASSUME NEW n, NEW d, IsDb(d, n, Slots), NEW s, NEW e,
         NEW name \in Names, NEW size \in Sizes, NEW whole,
         NEW k \in Nat, k + 1 \in 1 .. Len(ContentOf(name, size)),
         HasScanned(d, n, s, name, size, whole, e, k)
  PROVE  HasScanned(d, n, s, name, size, whole,
                    Take(e, Member(ContentOf(name, size)[k + 1], s)), k + 1)
<1> DEFINE new == Member(ContentOf(name, size)[k + 1], s)
           f == Take(e, new)
<1>1. PICK m \in Nat : /\ IsDb(e, m, Slots) /\ Kept(d, n, e, m)
                       /\ Adds(d.data, e.data, s, name, size, whole, k)
  BY DEF HasScanned
<1>2. Array(e.data, m, Slots) /\ n \in Nat
  BY <1>1 DEF IsDb, Array
<1>3. s \in Nat
  BY <1>1, <1>2, SlotIs DEF Adds
<1>4. ContentOf(name, size)[k + 1] \in Modules
  BY ContentIs, ElementOfSeq
<1>5. new \in Slots
  BY <1>3, <1>4, NewMember
<1>6. PICK l \in Nat : /\ IsDb(f, l, Slots) /\ Kept(e, m, f, l)
                       /\ Takes(e.data, m, FirstFree(e), new, f.data, l)
  BY <1>1, <1>5, TakesIs
<1> HIDE DEF f
<1>7. Array(f.data, l, Slots)
  BY <1>6 DEF IsDb
<1>8. Adds(d.data, f.data, s, name, size, whole, k + 1)
  BY <1>1, <1>2, <1>6, <1>7, AddsMember
<1>9. Kept(d, n, f, l)
  BY <1>1, <1>2, <1>6, KeptTwice
<1>10. QED BY <1>6, <1>8, <1>9 DEF HasScanned, f

LEMMA ScannedIs ==
  ASSUME NEW n, NEW d, IsDb(d, n, Slots), NoOrphan(d.data), OneEntry(d.data),
         NEW name \in Names, NEW size \in Sizes, NEW whole \in BOOLEAN,
         \A a \in Arcs(d.data) : d.data[a].name # name,
         NEW all \in 0 .. Len(ContentOf(name, size))
  PROVE  \E s : HasScanned(d, n, s, name, size, whole, Scanned(d, name, size, all, whole), all)
<1> DEFINE withArc == Take(d, Arc(name, size, whole))
           arcref == adbFind(withArc.data, name)
           content == ContentOf(name, size)
<1>1. HasScanned(d, n, arcref, name, size, whole, withArc, 0)
  BY ScanBegins
<1>2. all \in Nat /\ all <= Len(content) /\ Len(content) \in Nat
  BY ContentIs, LenProperties
<1>3. PICK f : /\ IsScan(f, all, withArc, content, arcref)
               /\ Scanned(d, name, size, all, whole) = f[all]
  BY <1>2, ScannedEnds
<1> HIDE DEF withArc, arcref
<1> DEFINE Bad == {k \in 0 .. all : ~ HasScanned(d, n, arcref, name, size, whole, f[k], k)}
<1>4. Bad = {}
  <2> SUFFICES ASSUME Bad # {} PROVE FALSE
    OBVIOUS
  <2>1. Bad \in SUBSET Nat
    BY <1>2
  <2>2. PICK k \in Bad : \A y \in Bad : k <= y
    BY <2>1, HasLeast
  <2>3. k \in 0 .. all /\ k \in Nat
    BY <2>1, <2>2
  <2>4. f[k] = After(f, k, withArc, content, arcref)
    BY <2>3, <1>3 DEF IsScan
  <2>5. k # 0
    BY <1>1, <2>2, <2>4 DEF After
  <2> DEFINE j == k - 1
  <2>6. j \in Nat /\ j \in 0 .. all /\ j < k /\ j + 1 = k /\ k \in 1 .. Len(content)
    BY <2>3, <2>5, <1>2
  <2>7. f[k] = Take(f[j], Member(content[k], arcref))
    BY <2>4, <2>5 DEF After
  <2>8. HasScanned(d, n, arcref, name, size, whole, f[j], j)
    BY <2>2, <2>3, <2>6
  <2> HIDE DEF j
  <2>9. HasScanned(d, n, arcref, name, size, whole, f[k], k)
    BY <2>6, <2>7, <2>8, ScanGoesOn
  <2>10. QED BY <2>2, <2>9
<1>5. all \in 0 .. all
  BY <1>2
<1>6. HasScanned(d, n, arcref, name, size, whole, f[all], all)
  BY <1>4, <1>5
<1>7. QED BY <1>3, <1>6
-----------------------------------------------------------------------------
LEMMA KeepsTwice ==
  ASSUME NEW d, NEW e, NEW f, NEW name, Keeps(d, e, name), Keeps(e, f, name)
  PROVE  Keeps(d, f, name)
<1> SUFFICES ASSUME NEW a \in Arcs(d), d[a].name # name
             PROVE  /\ a \in Arcs(f) /\ f[a] = d[a] /\ Members(f, a) = Members(d, a)
                    /\ \A i \in Members(d, a) : f[i] = d[i]
  BY DEF Keeps
<1>1. /\ a \in Arcs(e) /\ e[a] = d[a] /\ Members(e, a) = Members(d, a)
      /\ \A i \in Members(d, a) : e[i] = d[i]
  BY DEF Keeps
<1>2. /\ a \in Arcs(f) /\ f[a] = e[a] /\ Members(f, a) = Members(e, a)
      /\ \A i \in Members(e, a) : f[i] = e[i]
  BY <1>1 DEF Keeps
<1>3. QED BY <1>1, <1>2

(* What the scan of an archive of the name does to what is in memory.      *)
Rescanned(name, e) ==
  /\ \E m \in Nat : IsDb(e, m, Slots)
  /\ Agree(db, file) => Agree(e, file)
  /\ Catalogued(e.data) /\ Keeps(adbData, e.data, name)

LEMMA FreedIs ==
  ASSUME IInv, NEW name,
         NEW n \in Nat, IsDb(db, n, Slots),
         NEW e, e = Release(db, Outdated(adbFind(adbData, name)))
  PROVE  /\ IsDb(e, n, Slots) /\ Kept(db, n, e, n) /\ Catalogued(e.data)
         /\ Keeps(adbData, e.data, name) /\ \A a \in Arcs(e.data) : e.data[a].name # name
<1> DEFINE ar == adbFind(adbData, name)
<1>1. db.data = adbData /\ Array(adbData, n, Slots) /\ Catalogued(adbData)
  BY DEF db, IsDb, IInv, CatalogueInv
<1>2. OneEntry(adbData) /\ DOMAIN adbData = 0 .. n - 1
  BY <1>1, SlotIs DEF Catalogued
<1>3. ar \in 0 .. n - 1 \/ ar = NotFound
  BY <1>1, <1>2, FindIs, SlotIs
<1> HIDE DEF ar
<1>4. Outdated(ar) \subseteq 0 .. n - 1
  BY <1>2, <1>3 DEF Outdated, Members
<1>5. /\ IsDb(e, n, Slots)
      /\ \A i \in 0 .. n - 1 : e.data[i] = IF i \in Outdated(ar) THEN Free ELSE adbData[i]
      /\ e.dirty = db.dirty \cup Outdated(ar)
  BY <1>1, <1>4, FreeSlot, ReleaseIs DEF ar
<1>6. Kept(db, n, e, n)
  BY <1>1, <1>5 DEF Kept
<1>7. ASSUME NEW i \in 0 .. n - 1
      PROVE  i \in Outdated(ar) <=> i = ar \/ (adbData[i].kind = "member" /\ adbData[i].parent = ar)
  <2>1. i # NotFound
    BY DEF NotFound
  <2>2. QED BY <2>1, <1>2 DEF Outdated, Members
<1>8. Gone(adbData, n, ar, e.data)
  BY <1>5, <1>7 DEF Gone
<1>9. Array(e.data, n, Slots)
  BY <1>5 DEF IsDb
<1>10. QED BY <1>1, <1>5, <1>6, <1>8, <1>9, GoneIs DEF ar

LEMMA FreedRescanned ==
  ASSUME IInv, NEW name
  PROVE  Rescanned(name, Release(db, Outdated(adbFind(adbData, name))))
<1> DEFINE e == Release(db, Outdated(adbFind(adbData, name)))
<1>1. PICK n \in Nat : IsDb(db, n, Slots)
  BY DEF IInv, SlotsInv
<1>2. /\ IsDb(e, n, Slots) /\ Kept(db, n, e, n) /\ Catalogued(e.data)
      /\ Keeps(adbData, e.data, name)
  BY <1>1, FreedIs
<1> HIDE DEF e
<1>3. Agree(db, file) => Agree(e, file)
  BY <1>1, <1>2, KeptAgrees
<1>4. Rescanned(name, e)
  BY <1>2, <1>3 DEF Rescanned
<1>5. QED BY <1>4 DEF e

LEMMA ScanRescanned ==
  ASSUME IInv, NEW name \in Names, NEW size \in Sizes, NEW whole \in BOOLEAN,
         NEW k \in 0 .. Len(ContentOf(name, size)), whole => k = Len(ContentOf(name, size)),
         NEW freed, freed = Release(db, Outdated(adbFind(adbData, name)))
  PROVE  Rescanned(name, Scanned(freed, name, size, k, whole))
<1> DEFINE e == Scanned(freed, name, size, k, whole)
<1>1. PICK n \in Nat : IsDb(db, n, Slots)
  BY DEF IInv, SlotsInv
<1>2. /\ IsDb(freed, n, Slots) /\ Kept(db, n, freed, n) /\ Catalogued(freed.data)
      /\ Keeps(adbData, freed.data, name)
      /\ \A a \in Arcs(freed.data) : freed.data[a].name # name
  BY <1>1, FreedIs
<1>3. NoOrphan(freed.data) /\ OneEntry(freed.data) /\ Array(freed.data, n, Slots)
  BY <1>2 DEF Catalogued, IsDb
<1>4. PICK s : HasScanned(freed, n, s, name, size, whole, e, k)
  BY <1>2, <1>3, ScannedIs
<1> HIDE DEF e
<1>5. PICK m \in Nat : /\ IsDb(e, m, Slots) /\ Kept(freed, n, e, m)
                       /\ Adds(freed.data, e.data, s, name, size, whole, k)
  BY <1>4 DEF HasScanned
<1>6. Catalogued(e.data)
  BY <1>2, <1>3, <1>5, AddsRight
<1>7. Keeps(adbData, e.data, name)
  <2>1. Keeps(freed.data, e.data, name)
    BY <1>5 DEF Adds
  <2>2. QED BY <2>1, <1>2, KeepsTwice
<1>8. Kept(db, n, e, m)
  BY <1>2, <1>5, KeptTwice
<1>9. Agree(db, file) => Agree(e, file)
  BY <1>1, <1>5, <1>8, KeptAgrees
<1>10. Rescanned(name, e)
  BY <1>5, <1>6, <1>7, <1>9 DEF Rescanned
<1>11. QED BY <1>10 DEF e

(* What a scan is: memory is as Rescanned says, and the lists keep the     *)
(* entries of other archives and get those of this one, or none.           *)
LEMMA RescanIs ==
  ASSUME IInv, NEW name \in Names, NEW size \in Sizes, Rescan(name, size)
  PROVE  \E e : /\ Rescanned(name, e) /\ adbData' = e.data /\ dirty' = e.dirty
                /\ \A r \in refs' : \/ r \in refs /\ r.arc # name
                                    \/ r \in Listed(e.data, name)
<1> DEFINE freed == Release(db, Outdated(adbFind(adbData, name)))
           others == {r \in refs : r.arc # name}
           all == Len(ContentOf(name, size))
<1>1. all \in 0 .. all
  BY ContentIs, LenProperties
<1>2. \/ adbData' = freed.data /\ dirty' = freed.dirty /\ refs' = others
      \/ \E k \in 0 .. all :
           LET cut == Scanned(freed, name, size, k, FALSE)
           IN  /\ adbData' = cut.data /\ dirty' = cut.dirty
               /\ refs' \in {others, others \cup Listed(cut.data, name)}
      \/ LET new == Scanned(freed, name, size, all, TRUE)
         IN  /\ adbData' = new.data /\ dirty' = new.dirty
             /\ refs' = others \cup Listed(new.data, name)
  BY Zenon DEF Rescan
<1> HIDE DEF freed, all
<1>3. CASE adbData' = freed.data /\ dirty' = freed.dirty /\ refs' = others
  BY <1>3, FreedRescanned DEF freed
<1>4. CASE \E k \in 0 .. all :
             LET cut == Scanned(freed, name, size, k, FALSE)
             IN  /\ adbData' = cut.data /\ dirty' = cut.dirty
                 /\ refs' \in {others, others \cup Listed(cut.data, name)}
  <2>1. PICK k \in 0 .. all : LET cut == Scanned(freed, name, size, k, FALSE)
                              IN  /\ adbData' = cut.data /\ dirty' = cut.dirty
                                  /\ refs' \in {others, others \cup Listed(cut.data, name)}
    BY <1>4
  <2>2. Rescanned(name, Scanned(freed, name, size, k, FALSE))
    BY ScanRescanned DEF freed, all
  <2>3. QED BY <2>1, <2>2
<1>5. CASE LET new == Scanned(freed, name, size, all, TRUE)
           IN  /\ adbData' = new.data /\ dirty' = new.dirty
               /\ refs' = others \cup Listed(new.data, name)
  <2>1. Rescanned(name, Scanned(freed, name, size, all, TRUE))
    BY <1>1, ScanRescanned DEF freed, all
  <2>2. QED BY <2>1, <1>5
<1>6. QED BY <1>2, <1>3, <1>4, <1>5
-----------------------------------------------------------------------------
(* An entry of a list is right for its archive as long as that is kept.    *)
LEMMA RefKept ==
  ASSUME NEW d, NEW n, Array(d, n, Slots), OneEntry(d), NEW r, RefRight(d, r),
         NEW e, NEW m, Array(e, m, Slots), OneEntry(e),
         NEW name, Keeps(d, e, name), r.arc # name
  PROVE  RefRight(e, r)
<1> DEFINE a == adbFind(d, r.arc)
<1>1. /\ r.arc \in Names /\ r.name \in Modules /\ r.ref \in DOMAIN d
      /\ d[r.ref] = Member(r.name, a)
  BY DEF RefRight
<1>2. a \in Arcs(d) /\ d[a].name = r.arc
  <2>1. d[r.ref].kind = "member" /\ d[r.ref].parent = a /\ d[r.ref] \in Slots
    BY <1>1, SlotIs DEF Member
  <2>2. a \in Nat
    BY <2>1, MemberSlot
  <2>3. \/ a \in Arcs(d) /\ d[a].name = r.arc
        \/ a = NotFound
    BY FindIs
  <2>4. QED BY <2>2, <2>3 DEF NotFound
<1> HIDE DEF a
<1>3. r.ref \in Members(d, a)
  BY <1>1 DEF Members, Member
<1>4. /\ a \in Arcs(e) /\ e[a] = d[a] /\ Members(e, a) = Members(d, a)
      /\ e[r.ref] = d[r.ref]
  BY <1>2, <1>3 DEF Keeps
<1>5. adbFind(e, r.arc) = a
  BY <1>2, <1>4, FindThis
<1>6. r.ref \in DOMAIN e
  BY <1>3, <1>4 DEF Members
<1>7. QED BY <1>1, <1>4, <1>5, <1>6 DEF RefRight

LEMMA ListedRight ==
  ASSUME NEW d, NEW n, Array(d, n, Slots), NEW name \in Names, NEW r \in Listed(d, name)
  PROVE  RefRight(d, r)
<1> DEFINE a == adbFind(d, name)
<1>1. PICK i \in Members(d, a) : r = [arc |-> name, name |-> d[i].name, ref |-> i]
  BY DEF Listed
<1> HIDE DEF a
<1>2. r.arc = name /\ r.name = d[i].name /\ r.ref = i
  BY <1>1
<1>3. i \in DOMAIN d /\ d[i].kind = "member" /\ d[i].parent = a /\ d[i] \in Slots
  BY <1>1, SlotIs DEF Members
<1>4. d[i].name \in Modules /\ d[i] = Member(d[i].name, a)
  BY <1>3, MemberSlot
<1>5. QED BY <1>2, <1>3, <1>4 DEF RefRight, a

LEMMA StepRescan ==
  ASSUME IInv, NEW name \in Names, NEW size \in Sizes, Rescan(name, size)
  PROVE  IInv'
<1>1. PICK e : /\ Rescanned(name, e) /\ adbData' = e.data /\ dirty' = e.dirty
               /\ \A r \in refs' : \/ r \in refs /\ r.arc # name
                                   \/ r \in Listed(e.data, name)
  BY RescanIs
<1>2. running /\ running' = running /\ file' = file
  BY DEF Rescan
<1>3. PICK m \in Nat : IsDb(e, m, Slots)
  BY <1>1 DEF Rescanned
<1>4. Catalogued(e.data) /\ Keeps(adbData, e.data, name) /\ Agree(e, file)
  BY <1>1, <1>2 DEF Rescanned, IInv, DiskInv
<1>5. db'.data = e.data /\ db'.dirty = e.dirty
  BY <1>1 DEF db
<1>6. PICK n \in Nat : Array(adbData, n, Slots)
  BY DEF IInv, SlotsInv, IsDb, db
<1>7. OneEntry(adbData) /\ OneEntry(e.data) /\ Array(e.data, m, Slots)
  BY <1>3, <1>4 DEF IInv, CatalogueInv, Catalogued, IsDb
<1>8. ASSUME NEW r \in refs' PROVE RefRight(e.data, r)
  <2>1. CASE r \in refs /\ r.arc # name
    <3>1. RefRight(adbData, r)
      BY <2>1 DEF IInv, RefsInv
    <3>2. QED BY <2>1, <3>1, <1>4, <1>6, <1>7, RefKept
  <2>2. CASE r \in Listed(e.data, name)
    BY <2>2, <1>7, ListedRight
  <2>3. QED BY <1>1, <2>1, <2>2
<1>9. SlotsInv'
  <2>1. IsDb(db', m, Slots)
    BY <1>3, <1>5 DEF IsDb
  <2>2. QED BY <2>1, <1>2 DEF IInv, SlotsInv
<1>10. CatalogueInv'
  BY <1>1, <1>2, <1>4 DEF IInv, CatalogueInv
<1>11. DiskInv'
  BY <1>2, <1>4, <1>5 DEF DiskInv, Agree
<1>12. RefsInv'
  BY <1>1, <1>2, <1>8 DEF RefsInv
<1>13. QED BY <1>9, <1>10, <1>11, <1>12 DEF IInv
-----------------------------------------------------------------------------
LEMMA NothingCatalogued == Catalogued(NoSlots)
<1>1. DOMAIN NoSlots = {}
  BY DEF NoSlots
<1>2. QED BY <1>1 DEF Catalogued, OneEntry, NoOrphan, Arcs

LEMMA InvInit == Init => IInv
<1> SUFFICES ASSUME Init PROVE IInv
  OBVIOUS
<1>1. DOMAIN NoSlots = {} /\ NoSlots \in [0 .. 0 - 1 -> Slots]
  BY DEF NoSlots
<1>2. /\ adbData = NoSlots /\ dirty = {} /\ file.entries = 0 /\ file.slots = NoSlots
      /\ db.data = NoSlots /\ db.dirty = {} /\ refs = {}
  BY DEF Init, NoFile, db
<1>3. IsDb(db, 0, Slots) /\ IsFile(file, Slots)
  BY <1>1, <1>2 DEF IsDb, Array, IsFile
<1>4. Load(file) = NoSlots
  BY <1>1, <1>2 DEF Load
<1>5. Agree(db, file)
  BY <1>1, <1>2 DEF Agree
<1>6. SlotsInv
  BY <1>3 DEF SlotsInv
<1>7. CatalogueInv
  BY <1>2, <1>4, NothingCatalogued DEF CatalogueInv
<1>8. DiskInv /\ RefsInv
  BY <1>2, <1>5 DEF DiskInv, RefsInv
<1>9. QED BY <1>6, <1>7, <1>8 DEF IInv

LEMMA StepList ==
  ASSUME IInv, NEW name \in Names, NEW size \in Sizes, ListKnown(name, size)
  PROVE  IInv'
<1>1. /\ running /\ refs' = refs \cup Listed(adbData, name)
      /\ adbData' = adbData /\ dirty' = dirty /\ file' = file /\ running' = running
  BY DEF ListKnown, memory
<1>2. PICK n \in Nat : Array(adbData, n, Slots)
  BY DEF IInv, SlotsInv, IsDb, db
<1>3. \A r \in refs' : RefRight(adbData, r)
  BY <1>1, <1>2, ListedRight DEF IInv, RefsInv
<1>4. RefsInv'
  BY <1>1, <1>3 DEF RefsInv
<1>5. db' = db
  BY <1>1 DEF db
<1>6. QED BY <1>1, <1>4, <1>5 DEF IInv, SlotsInv, CatalogueInv, DiskInv

(* What is written whole is what is in memory.                             *)
LEMMA SavedIs ==
  ASSUME IInv, running, NEW f, f = WriteSlots(db, file, Number(adbData))
  PROVE  Load(f) = adbData /\ IsFile(f, Slots)
<1>1. PICK n \in Nat : IsDb(db, n, Slots)
  BY DEF IInv, SlotsInv
<1>2. db.data = adbData /\ IsFile(file, Slots) /\ Agree(db, file)
  BY DEF db, IInv, SlotsInv, DiskInv
<1>3. Load(f) = adbData
  BY <1>1, <1>2, FreeSlot, WholeIsRead
<1>4. Number(db.data) \in Nat
  BY <1>1, NumberIs DEF IsDb
<1>5. Written(db, n, file, Number(db.data), Slots, f)
  BY <1>1, <1>2, <1>4, FreeSlot, WrittenIs
<1>6. IsFile(f, Slots)
  BY <1>5 DEF Written, IsFile
<1>7. QED BY <1>3, <1>6

LEMMA StepUpdate ==
  ASSUME IInv, adbUpdate
  PROVE  IInv'
<1>1. /\ running /\ file' = WriteSlots(db, file, Number(adbData)) /\ dirty' = {}
      /\ adbData' = adbData /\ running' = running /\ refs' = refs
      /\ db'.data = adbData /\ db'.dirty = {}
  BY DEF adbUpdate, db
<1>2. Load(file') = adbData /\ IsFile(file', Slots)
  BY <1>1, SavedIs
<1>3. PICK n \in Nat : Array(adbData, n, Slots)
  BY DEF IInv, SlotsInv, IsDb, db
<1>4. IsDb(db', n, Slots)
  BY <1>1, <1>3 DEF IsDb
<1>5. Agree(db', file')
  BY <1>1, <1>2, LoadIs DEF Agree
<1>6. SlotsInv'
  BY <1>2, <1>4 DEF SlotsInv
<1>7. CatalogueInv'
  BY <1>1, <1>2 DEF IInv, CatalogueInv
<1>8. DiskInv' /\ RefsInv'
  BY <1>1, <1>5 DEF IInv, DiskInv, RefsInv
<1>9. QED BY <1>6, <1>7, <1>8 DEF IInv

LEMMA StepSame ==
  ASSUME IInv, UNCHANGED <<adbData, dirty, file, running, refs>>
  PROVE  IInv'
<1>1. db' = db /\ adbData' = adbData /\ file' = file /\ running' = running /\ refs' = refs
  BY DEF db
<1>2. QED BY <1>1 DEF IInv, SlotsInv, CatalogueInv, DiskInv, RefsInv

LEMMA StepHalt ==
  ASSUME IInv, Halt, IsFile(file, Slots)', Catalogued(Load(file))'
  PROVE  IInv'
<1>1. /\ adbData' = NoSlots /\ dirty' = {} /\ ~running' /\ refs' = {}
      /\ db'.data = NoSlots /\ db'.dirty = {}
  BY DEF Halt, db
<1>2. NoSlots \in [0 .. 0 - 1 -> Slots]
  BY DEF NoSlots
<1>3. IsDb(db', 0, Slots)
  BY <1>1, <1>2 DEF IsDb, Array
<1>4. QED
  BY <1>1, <1>3, NothingCatalogued DEF IInv, SlotsInv, CatalogueInv, DiskInv, RefsInv

LEMMA StepEnd ==
  ASSUME IInv, adbClose \/ NotWritten \/ Torn
  PROVE  IInv'
<1>1. Halt /\ running /\ IsFile(file, Slots) /\ Catalogued(adbData) /\ Catalogued(Load(file))
  BY DEF adbClose, NotWritten, Torn, Halt, IInv, SlotsInv, CatalogueInv
<1>2. IsFile(file', Slots) /\ Catalogued(Load(file'))
  <2>1. CASE file' = file
    BY <2>1, <1>1
  <2>2. CASE file' = WriteSlots(db, file, Number(adbData))
    BY <2>2, <1>1, SavedIs
  <2>3. CASE file' \in TornFiles(db, file)
    <3>1. PICK n \in Nat : IsDb(db, n, Slots)
      BY DEF IInv, SlotsInv
    <3>2. IsFile(file', Slots) /\ Load(file') \in {Load(file), db.data, NoSlots}
      BY <3>1, <2>3, <1>1, FreeSlot, TornIs
    <3>3. QED BY <3>2, <1>1, NothingCatalogued DEF db
  <2>4. QED BY <2>1, <2>2, <2>3 DEF adbClose, NotWritten, Torn
<1>3. QED BY <1>1, <1>2, StepHalt

LEMMA StepLoad ==
  ASSUME IInv, adbInit
  PROVE  IInv'
<1>1. /\ ~running /\ adbData' = Load(file) /\ dirty' = {} /\ file' = file /\ refs' = refs
      /\ running' /\ db'.data = Load(file) /\ db'.dirty = {}
  BY DEF adbInit, db
<1>2. IsFile(file, Slots) /\ Catalogued(Load(file)) /\ refs = {}
  BY <1>1 DEF IInv, SlotsInv, CatalogueInv, RefsInv
<1>3. PICK n \in Nat : Array(Load(file), n, Slots)
  BY <1>2, LoadIs
<1>4. IsDb(db', n, Slots)
  BY <1>1, <1>3 DEF IsDb
<1>5. Agree(db', file)
  BY <1>1, <1>2, LoadIs DEF Agree
<1>6. QED
  BY <1>1, <1>2, <1>4, <1>5 DEF IInv, SlotsInv, CatalogueInv, DiskInv, RefsInv

LEMMA InvStep == IInv /\ [Next]_vars => IInv'
<1> SUFFICES ASSUME IInv, [Next]_vars PROVE IInv'
  OBVIOUS
<1>1. ASSUME NEW name \in Names, NEW size \in Sizes, ListKnown(name, size) PROVE IInv'
  BY <1>1, StepList
<1>2. ASSUME NEW name \in Names, NEW size \in Sizes, Rescan(name, size) PROVE IInv'
  BY <1>2, StepRescan
<1>3. CASE adbUpdate
  BY <1>3, StepUpdate
<1>4. CASE UpdateNotOpened
  BY <1>4, StepSame DEF UpdateNotOpened, StayMarked
<1>5. CASE adbClose \/ NotWritten \/ Torn
  BY <1>5, StepEnd
<1>6. CASE adbInit
  BY <1>6, StepLoad
<1>7. CASE UNCHANGED vars
  BY <1>7, StepSame DEF vars, memory
<1>8. QED BY <1>1, <1>2, <1>3, <1>4, <1>5, <1>6, <1>7 DEF Next

(* In every state, of a session or between two, memory and file hold a     *)
(* right catalogue each and agree where nothing is marked dirty.           *)
THEOREM Always == Spec => []IInv
BY InvInit, InvStep, PTL DEF Spec
-----------------------------------------------------------------------------
LEMMA FlagsStep == FlagsInv /\ [Next]_vars => FlagsInv'
<1> SUFFICES ASSUME FlagsInv, [Next]_vars PROVE FlagsInv'
  OBVIOUS
<1>1. adbDirty' \in BOOLEAN
  BY Zenon DEF FlagsInv, Next, ListKnown, Rescan, adbUpdate, UpdateNotOpened, adbClose,
     NotWritten, Torn, Halt, adbInit, vars, memory
<1>2. running' \in BOOLEAN
  BY Zenon DEF FlagsInv, Next, ListKnown, Rescan, adbUpdate, UpdateNotOpened, adbClose,
     NotWritten, Torn, Halt, adbInit, vars, memory
<1>3. left' = left \/ (left > 0 /\ left' = left - 1)
  BY Zenon DEF Next, ListKnown, Rescan, adbUpdate, UpdateNotOpened, adbClose,
     NotWritten, Torn, Halt, adbInit, vars, memory
<1>4. left' \in 0 .. Scans
  BY <1>3, ContentAssumption DEF FlagsInv
<1>5. QED BY <1>1, <1>2, <1>4 DEF FlagsInv

LEMMA FlagsAlways == Spec => []FlagsInv
<1>1. ASSUME Init PROVE FlagsInv
  <2>1. adbDirty \in BOOLEAN /\ running \in BOOLEAN
    BY Zenon, <1>1 DEF Init
  <2>2. left \in 0 .. Scans
    BY <1>1, ContentAssumption DEF Init
  <2>3. QED BY <2>1, <2>2 DEF FlagsInv
<1>2. QED BY <1>1, FlagsStep, PTL DEF Spec

(* Every slot, in memory and in CPARCS.DAT, is free, an archive or a       *)
(* module, at an index the array has; lists refer to slots there are.      *)
THEOREM Typed == Spec => []TypeOK
<1>1. IInv /\ FlagsInv => TypeOK
  <2> SUFFICES ASSUME IInv, FlagsInv PROVE TypeOK
    OBVIOUS
  <2>1. PICK n \in Nat : Array(adbData, n, Slots) /\ dirty \subseteq 0 .. n - 1
    BY DEF IInv, SlotsInv, IsDb, db
  <2>2. PICK k \in Nat : Array(file.slots, k, Slots)
    BY DEF IInv, SlotsInv, IsFile
  <2>3. /\ \A i \in DOMAIN adbData : i \in Nat /\ adbData[i] \in Slots
        /\ dirty \subseteq DOMAIN adbData
    BY <2>1, SlotIs
  <2>4. \A i \in DOMAIN file.slots : i \in Nat /\ file.slots[i] \in Slots
    BY <2>2, SlotIs
  <2>5. \A r \in refs : r.arc \in Names /\ r.name \in Modules /\ r.ref \in DOMAIN adbData
    BY DEF IInv, RefsInv, RefRight
  <2>6. adbDirty \in BOOLEAN /\ running \in BOOLEAN /\ left \in 0 .. Scans
    BY DEF FlagsInv
  <2>7. QED BY <2>3, <2>4, <2>5, <2>6 DEF TypeOK
<1>2. QED BY <1>1, Always, FlagsAlways, PTL

(* The adb_ref that adbFindFirst and adbFindNext give a list's entry is    *)
(* the slot of that module in that archive until the archive is scanned    *)
(* again, however the scans of others free, take and add slots.            *)
THEOREM ListsNameModules == Spec => []RefsRight
<1>1. IInv => RefsRight
  BY DEF IInv, RefsInv, RefRight, RefsRight
<1>2. QED BY <1>1, Always, PTL

(* Counting what Lists says.                                               *)
LEMMA MembersAre ==
  ASSUME NEW data, NEW a, NEW content, content \in Seq(Modules), NEW k \in 0 .. Len(content),
         Lists(data, a, content, k)
  PROVE  /\ Cardinality(Members(data, a)) = k
         /\ {data[m].name : m \in Members(data, a)} = ToSet(SubSeq(content, 1, k))
<1>1. PICK b \in [1 .. k -> DOMAIN data] :
        /\ \A i, j \in 1 .. k : b[i] = b[j] => i = j
        /\ Members(data, a) = {b[i] : i \in 1 .. k}
        /\ \A i \in 1 .. k : data[b[i]].name = content[i]
  BY DEF Lists
<1>0. k \in Nat /\ Len(content) \in Nat /\ k <= Len(content)
  BY LenProperties
<1>2. Cardinality(Members(data, a)) = k
  <2>1. b \in Bijection(1 .. k, Members(data, a))
    BY <1>1 DEF Bijection, Injection, Surjection, IsInjective
  <2>2. IsFiniteSet(1 .. k) /\ Cardinality(1 .. k) = IF 1 > k THEN 0 ELSE k - 1 + 1
    BY <1>0, FS_Interval
  <2>3. Cardinality(1 .. k) = k
    BY <1>0, <2>2
  <2>4. ExistsBijection(1 .. k, Members(data, a))
    BY <2>1 DEF ExistsBijection
  <2>5. Cardinality(Members(data, a)) = Cardinality(1 .. k)
    BY <2>2, <2>4, FS_Bijection
  <2>6. QED BY <2>3, <2>5
<1>3. {data[m].name : m \in Members(data, a)} = {content[i] : i \in 1 .. k}
  BY <1>1
<1>4. ToSet(SubSeq(content, 1, k)) = {content[i] : i \in 1 .. k}
  <2> DEFINE s == SubSeq(content, 1, k)
  <2>1. Len(s) = k /\ DOMAIN s = 1 .. k /\ \A i \in 1 .. k : s[i] = content[i]
    BY <1>0
  <2> HIDE DEF s
  <2>2. QED BY <2>1 DEF ToSet, s
<1>5. QED BY <1>2, <1>3, <1>4

(* Whatever is scanned, saved, torn and read again, an archive has one     *)
(* entry, a module's parent is an archive, and the modules of an archive   *)
(* are the first ones of what an archive of that size holds, each once,    *)
(* all of them when it was scanned to its end.                             *)
THEOREM CatalogueRight == Spec => []Catalogue
<1>1. IInv => Catalogue
  <2> SUFFICES ASSUME IInv PROVE Catalogue
    OBVIOUS
  <2>1. /\ OneEntry(adbData) /\ NoOrphan(adbData)
        /\ \A a \in Arcs(adbData) : ArcRight(adbData, a)
    BY DEF IInv, CatalogueInv, Catalogued
  <2>2. PICK n \in Nat : Array(adbData, n, Slots)
    BY DEF IInv, SlotsInv, IsDb, db
  <2>3. ASSUME NEW a \in Arcs(adbData)
        PROVE  LET content == ContentOf(adbData[a].name, adbData[a].size)
                   k       == Cardinality(Members(adbData, a))
               IN  /\ {adbData[m].name : m \in Members(adbData, a)} = ToSet(SubSeq(content, 1, k))
                   /\ k <= Len(content)
                   /\ adbData[a].whole => k = Len(content)
    <3> DEFINE content == ContentOf(adbData[a].name, adbData[a].size)
    <3>1. adbData[a] \in Slots /\ adbData[a].kind = "arc"
      BY <2>2, SlotIs DEF Arcs
    <3>2. content \in Seq(Modules)
      BY <3>1, ArcSlot
    <3>3. PICK k \in 0 .. Len(content) :
            Lists(adbData, a, content, k) /\ (adbData[a].whole => k = Len(content))
      BY <2>1 DEF ArcRight
    <3> HIDE DEF content
    <3>4. /\ Cardinality(Members(adbData, a)) = k
          /\ {adbData[m].name : m \in Members(adbData, a)} = ToSet(SubSeq(content, 1, k))
      BY <3>2, <3>3, MembersAre
    <3>5. k <= Len(content)
      BY <3>2, <3>3, LenProperties
    <3>6. QED BY <3>3, <3>4, <3>5 DEF content
  <2>4. QED BY <2>1, <2>3 DEF Catalogue, OneEntry, NoOrphan
<1>2. QED BY <1>1, Always, PTL
-----------------------------------------------------------------------------
(* What adbUpdate writes, and adbClose if something changed since, is what *)
(* the next session reads, although only dirty slots are written, over the *)
(* file of earlier sessions.                                               *)
THEOREM WritesEverything ==
  Spec => [][adbUpdate \/ (adbClose /\ adbDirty) => Load(file') = adbData]_vars
<1>1. IInv /\ [Next]_vars => [adbUpdate \/ (adbClose /\ adbDirty) => Load(file') = adbData]_vars
  <2> SUFFICES ASSUME IInv, adbUpdate \/ (adbClose /\ adbDirty)
               PROVE  Load(file') = adbData
    OBVIOUS
  <2>1. running /\ file' = WriteSlots(db, file, Number(adbData))
    BY DEF adbUpdate, adbClose, Halt
  <2>2. QED BY <2>1, SavedIs
<1>2. QED BY <1>1, Always, PTL DEF Spec

(* An archive that was scanned to its end and has its size still is listed *)
(* as a new scan would list it.                                            *)
THEOREM ListsTheArchive ==
  Spec => [](\A name \in Names, size \in Sizes :
               Known(name, size) /\ adbData[adbFind(adbData, name)].whole =>
                 {r.name : r \in Listed(adbData, name)} = ToSet(ContentOf(name, size)))
<1>1. ASSUME IInv, Catalogue, NEW name \in Names, NEW size \in Sizes, Known(name, size),
             adbData[adbFind(adbData, name)].whole
      PROVE  {r.name : r \in Listed(adbData, name)} = ToSet(ContentOf(name, size))
  <2> DEFINE a == adbFind(adbData, name)
             content == ContentOf(name, size)
  <2>1. PICK n \in Nat : Array(adbData, n, Slots) /\ OneEntry(adbData)
    BY <1>1 DEF IInv, SlotsInv, IsDb, db, CatalogueInv, Catalogued
  <2>2. a \in Arcs(adbData) /\ adbData[a].name = name /\ adbData[a].size = size /\ adbData[a].whole
    BY <1>1, <2>1, FindIs DEF Known
  <2> HIDE DEF a
  <2>3. /\ {adbData[m].name : m \in Members(adbData, a)} =
             ToSet(SubSeq(content, 1, Cardinality(Members(adbData, a))))
        /\ Cardinality(Members(adbData, a)) = Len(content)
    BY <1>1, <2>2 DEF Catalogue
  <2>4. SubSeq(content, 1, Len(content)) = content
    BY ContentIs, SubSeqFull
  <2>5. {r.name : r \in Listed(adbData, name)} = {adbData[m].name : m \in Members(adbData, a)}
    <3> DEFINE listed == Listed(adbData, name)
               those == Members(adbData, a)
    <3>1. ASSUME NEW r \in listed PROVE \E m \in those : r.name = adbData[m].name
      BY DEF Listed, a
    <3>2. ASSUME NEW m \in those PROVE \E r \in listed : r.name = adbData[m].name
      <4>1. [arc |-> name, name |-> adbData[m].name, ref |-> m] \in listed
        BY DEF Listed, a
      <4>2. QED BY <4>1
    <3> HIDE DEF listed, those
    <3>3. {r.name : r \in listed} = {adbData[m].name : m \in those}
      BY <3>1, <3>2
    <3>4. QED BY <3>3 DEF listed, those
  <2>6. QED BY <2>3, <2>4, <2>5
<1> DEFINE Promise == \A name \in Names, size \in Sizes :
             Known(name, size) /\ adbData[adbFind(adbData, name)].whole =>
               {r.name : r \in Listed(adbData, name)} = ToSet(ContentOf(name, size))
<1>2. IInv /\ Catalogue => Promise
  BY <1>1
<1> HIDE DEF Promise
<1>3. Spec => []Promise
  BY <1>2, Always, CatalogueRight, PTL
<1>4. QED BY <1>3 DEF Promise
=============================================================================
