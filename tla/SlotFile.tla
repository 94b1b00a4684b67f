------------------------------- MODULE SlotFile -------------------------------
(***************************************************************************)
(* What the two caches of the file selector have in common: numbered slots *)
(* of one size in memory, those changed since marked dirty, and a file of  *)
(* a header with their number and the slots.  Module information keeps     *)
(* CPMODNFO.DAT this way (filesel/mdb.c), the archives CPARCS.DAT          *)
(* (filesel/adb.c).  A db is the slots and the set of the dirty ones.      *)
(***************************************************************************)
EXTENDS Integers, FiniteSets, FiniteSetsExt

CONSTANT Growth     \* 64 and 256: how many slots are added when none is free

ASSUME GrowthAssumption == Growth \in Nat \ {0}

Free == [kind |-> "free"]
NoSlots == <<>>
NoFile == [entries |-> 0, slots |-> NoSlots]

Number(data) == Cardinality(DOMAIN data)

(* All the new slots will have to be written.                              *)
Grow(db) ==
  LET n == Number(db.data)
  IN  [data |-> [i \in 0 .. n + Growth - 1 |-> IF i < n THEN db.data[i] ELSE Free],
       dirty |-> db.dirty \cup n .. n + Growth - 1]

Room(db) == IF \E i \in DOMAIN db.data : db.data[i] = Free THEN db ELSE Grow(db)

(* The first free slot is taken.                                           *)
FirstFree(db) ==
  LET data == Room(db).data IN Min({i \in DOMAIN data : data[i] = Free})

Take(db, content) ==
  LET room == Room(db)
      slot == FirstFree(db)
  IN  [data |-> [room.data EXCEPT ![slot] = content],
       dirty |-> room.dirty \cup {slot}]

Release(db, slots) ==
  [data |-> [i \in DOMAIN db.data |-> IF i \in slots THEN Free ELSE db.data[i]],
   dirty |-> db.dirty \cup slots]

(* The file after the header and the runs of dirty slots below `end' were  *)
(* written over it; `end' is the number of slots when no write fails.  The *)
(* file is never cut: what it had beyond stays; a gap is read as zeros,    *)
(* which is a free slot.                                                   *)
WriteSlots(db, file, end) ==
  LET new  == {i \in db.dirty : i < end}
      last == Max({-1} \cup new \cup DOMAIN file.slots)
  IN  [entries |-> Number(db.data),
       slots |-> [i \in 0 .. last |->
                    CASE i \in new -> db.data[i]
                      [] i \notin new /\ i \in DOMAIN file.slots -> file.slots[i]
                      [] OTHER -> Free]]

(* What the next session reads: all the slots the header claims, or none.  *)
Load(file) ==
  IF file.entries - 1 \in DOMAIN file.slots
    THEN [i \in 0 .. file.entries - 1 |-> file.slots[i]]
    ELSE NoSlots

(* The files a failed write may leave.  A file whose slots would be of two *)
(* sessions is not among them: the mixture is not followed further.        *)
TornFiles(db, file) ==
  LET whole == {Load(file), db.data, NoSlots}
  IN  {f \in {WriteSlots(db, file, end) : end \in DOMAIN db.data} : Load(f) \in whole}
=============================================================================
