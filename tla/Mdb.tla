--------------------------------- MODULE Mdb ---------------------------------
(***************************************************************************)
(* The cache of module information (filesel/mdb.c): numbered slots of one  *)
(* size, each free, the general part of a module or a block of text that   *)
(* general parts refer to; an index of the general parts sorted by key;    *)
(* and CPMODNFO.DAT, to which the end of a session writes the slots that   *)
(* changed.                                                                *)
(*                                                                         *)
(* A key is the size and the twelve characters of the name, a number here. *)
(* Every caller reads an information and writes it back in one go, so the  *)
(* copy mdbWriteModuleInfo is given names the blocks of the entry.  The    *)
(* third block (futref) is never made: flags4 is never MDB_USED.           *)
(***************************************************************************)
EXTENDS SlotFile, SequencesExt

CONSTANTS
  Keys,       \* the modules, numbers in the order of miecmp
  Texts,      \* composers and comments, but the empty one
  Width,      \* 65536: the index's length is cut to an unsigned short
  Changes     \* how many entries are made or written, a bound

ASSUME SlotsAssumption == Keys \subseteq Nat /\ Width \in Nat \ {0}
ASSUME ChangesAssumption == Changes \in Nat

VARIABLES
  mdbData,    \* 0..mdbNum-1, the slots
  dirty,      \* the slots with MDB_DIRTY
  mdbReloc,   \* the index
  mdbDirty,
  file,       \* CPMODNFO.DAT: the number of slots it claims, the slots it has
  running,
  left        \* changes left

memory == <<mdbData, dirty, mdbReloc, mdbDirty>>
vars == <<memory, file, running, left>>

NoRef == -1
NoText == "none"
Infos == [read : BOOLEAN, comp : Texts \cup {NoText}, com : Texts \cup {NoText}]
Unread == [read |-> FALSE, comp |-> NoText, com |-> NoText]

General(key, read, compref, comref) ==
  [kind |-> "general", key |-> key, read |-> read, comp |-> compref, com |-> comref]
Block(kind, text) == [kind |-> kind, text |-> text]

Generals(data) == {i \in DOMAIN data : data[i].kind = "general"}

(* mdbGetModuleInfo                                                        *)
Text(data, ref) == IF ref = NoRef THEN NoText ELSE data[ref].text
Info(data, ref) ==
  [read |-> data[ref].read,
   comp |-> Text(data, data[ref].comp), com |-> Text(data, data[ref].com)]
-----------------------------------------------------------------------------
db == [data |-> mdbData, dirty |-> dirty]

(* A block for a text, and the slot it gets.                               *)
PutText(d, kind, text) == IF text = NoText THEN d ELSE Take(d, Block(kind, text))
RefOf(d, text) == IF text = NoText THEN NoRef ELSE FirstFree(d)

(* The blocks of the entry are freed.                                      *)
Blocks(ref) == {mdbData[ref].comp, mdbData[ref].com} \ {NoRef}

KeptBlocks(ref) == db                                             \* mutant
FreeBlocks(ref) == Release(db, Blocks(ref))

Change == left > 0 /\ left' = left - 1 /\ UNCHANGED <<file, running>>

(* mdbWriteModuleInfo                                                      *)
mdbWriteModuleInfo(ref, info) ==
  LET freed   == FreeBlocks(ref)
      withCmp == PutText(freed, "composer", info.comp)
      withCom == PutText(withCmp, "comment", info.com)
  IN  /\ mdbData' = [withCom.data EXCEPT ![ref] =
                       General(mdbData[ref].key, info.read,
                               RefOf(freed, info.comp), RefOf(withCmp, info.com))]
      /\ dirty' = withCom.dirty \cup {ref}
      /\ mdbDirty' = TRUE
      /\ UNCHANGED mdbReloc
-----------------------------------------------------------------------------
(* The binary search of mdbGetModuleReference over num entries from min:   *)
(* the slot, or the place where the index gets it.                         *)
Search(key) ==
  LET len == Len(mdbReloc)
      f[num \in 0 .. len] ==
        [min \in 0 .. len - num |->
          LET mid == min + num \div 2
              k   == mdbData[mdbReloc[mid + 1]].key
          IN  IF num = 0 THEN [ref |-> NoRef, place |-> min]
              ELSE IF key = k THEN [ref |-> mdbReloc[mid + 1], place |-> mid]
              ELSE IF key < k THEN f[num \div 2][min]
              ELSE f[(num - 1) \div 2][mid + 1]]
  IN  f[len % Width][0]

AtMdbNum(key, ref) ==                                             \* mutant
  mdbReloc' = InsertAt(mdbReloc, Search(key).place + 1, Number(mdbData))
AtTheEnd(key, ref) == mdbReloc' = Append(mdbReloc, ref)           \* mutant
Insert(key, ref) == mdbReloc' = InsertAt(mdbReloc, Search(key).place + 1, ref)

(* A module the cache does not have gets an entry.  With Width entries the *)
(* search would look at none of them: the model stops one short of that.   *)
mdbGetModuleReference(key) ==
  /\ Change
  /\ running /\ Len(mdbReloc) + 1 < Width
  /\ Search(key).ref = NoRef
  /\ mdbData' = Take(db, General(key, FALSE, NoRef, NoRef)).data
  /\ dirty' = Take(db, General(key, FALSE, NoRef, NoRef)).dirty
  /\ Insert(key, FirstFree(db))
  /\ mdbDirty' = TRUE

(* An entry whose file has not been read is filled in when the file is     *)
(* listed or played.  A file nothing recognises leaves it as it is.        *)
mdbScan(ref, info) ==
  /\ Change
  /\ running /\ ref \in Generals(mdbData) /\ ~mdbData[ref].read
  /\ info.read \/ info = Info(mdbData, ref)
  /\ mdbWriteModuleInfo(ref, info)

(* The user edits the composer or the comment of an entry.                 *)
fsEditFileInfo(ref, info) ==
  /\ Change
  /\ running /\ ref \in Generals(mdbData)
  /\ info.read = mdbData[ref].read /\ info # Info(mdbData, ref)
  /\ mdbWriteModuleInfo(ref, info)

(* Alt-R: the file is to be read again.                                    *)
Forget(ref) ==
  /\ Change
  /\ running /\ ref \in Generals(mdbData) /\ mdbData[ref].read
  /\ mdbWriteModuleInfo(ref, [Info(mdbData, ref) EXCEPT !.read = FALSE])
-----------------------------------------------------------------------------
Halt ==
  /\ running /\ running' = FALSE
  /\ mdbData' = NoSlots /\ dirty' = {} /\ mdbReloc' = <<>> /\ mdbDirty' = FALSE
  /\ UNCHANGED left

(* mdbClose, at the end of the session.  Nothing is written when nothing   *)
(* changed, when the user does not want it or when the file does not open. *)
mdbClose ==
  /\ Halt
  /\ file' = IF mdbDirty THEN WriteSlots(db, file, Number(mdbData)) ELSE file

NotWritten == Halt /\ UNCHANGED file

(* A write fails and the player exits.                                     *)
Torn == Halt /\ mdbDirty /\ file' \in TornFiles(db, file)

Sorted(data) ==
  LET those == Generals(data)
  IN  CHOOSE s \in [1 .. Cardinality(those) -> those] :
        \A i, j \in DOMAIN s : i < j => data[s[i]].key < data[s[j]].key

(* mdbInit                                                                 *)
mdbInit ==
  /\ ~running /\ running' = TRUE
  /\ mdbData' = Load(file)
  /\ mdbReloc' = Sorted(Load(file))
  /\ dirty' = {} /\ mdbDirty' = FALSE
  /\ UNCHANGED <<file, left>>
-----------------------------------------------------------------------------
Init ==
  /\ mdbData = NoSlots /\ dirty = {} /\ mdbReloc = <<>> /\ mdbDirty = FALSE
  /\ file = NoFile
  /\ running = TRUE /\ left = Changes

Next ==
  \/ \E key \in Keys : mdbGetModuleReference(key)
  \/ \E ref \in DOMAIN mdbData :
       \/ \E info \in Infos : mdbScan(ref, info) \/ fsEditFileInfo(ref, info)
       \/ Forget(ref)
  \/ mdbClose \/ NotWritten \/ Torn \/ mdbInit

Spec == Init /\ [][Next]_vars
-----------------------------------------------------------------------------
Slots ==
  {Free} \cup [kind : {"composer", "comment"}, text : Texts]
  \cup [kind : {"general"}, key : Keys, read : BOOLEAN, comp : Int, com : Int]

TypeOK ==
  /\ \A i \in DOMAIN mdbData : i \in Nat /\ mdbData[i] \in Slots
  /\ \A i \in DOMAIN file.slots : i \in Nat /\ file.slots[i] \in Slots
  /\ dirty \subseteq DOMAIN mdbData
  /\ \A n \in DOMAIN mdbReloc : mdbReloc[n] \in DOMAIN mdbData
  /\ mdbDirty \in BOOLEAN /\ running \in BOOLEAN /\ left \in 0 .. Changes

(* No block is lost and none is shared: every block of text in use belongs *)
(* to exactly one general part, which refers to it as what it is, however  *)
(* entries were rewritten, saved and read again.                           *)
Uses(ref, block) ==
  \/ mdbData[ref].comp = block /\ mdbData[block].kind = "composer"
  \/ mdbData[ref].com = block /\ mdbData[block].kind = "comment"

BlocksOwned ==
  /\ \A b \in DOMAIN mdbData :
       mdbData[b].kind \in {"composer", "comment"} =>
         Cardinality({g \in Generals(mdbData) : Uses(g, b)}) = 1
  /\ \A g \in Generals(mdbData) :
       /\ mdbData[g].comp # NoRef => mdbData[mdbData[g].comp].kind = "composer"
       /\ mdbData[g].com # NoRef => mdbData[mdbData[g].com].kind = "comment"

(* The cache keeps the promise of ModInfo: what the search finds for a key *)
(* is the last information written for it, of this session or of the last  *)
(* that saved, or a session starts with nothing known.                     *)
InfosOf(data) ==
  LET those == Generals(data)
  IN  [key \in {data[g].key : g \in those} |->
         Info(data, CHOOSE g \in those : data[g].key = key)]

Promise == INSTANCE ModInfo WITH
  known <- LET ref == [key \in Keys |-> Search(key).ref]
           IN  [key \in {k \in Keys : ref[k] # NoRef} |-> Info(mdbData, ref[key])],
  stored <- InfosOf(Load(file))

KeepsPromise == Promise!Spec
=============================================================================
