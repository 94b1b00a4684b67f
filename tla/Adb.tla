--------------------------------- MODULE Adb ---------------------------------
(***************************************************************************)
(* The cache of archives (filesel/adb.c, with the scanners of arctar.c and *)
(* arczip.c): for each archive an entry with its base name and its size,   *)
(* for each module in it an entry whose parent is the archive's, and       *)
(* CPARCS.DAT, to which what changed is written after a directory was      *)
(* scanned and at the end of the session.                                  *)
(*                                                                         *)
(* An archive is known by its base name, so that archives of one name in   *)
(* two directories are one archive here that changes its size.  A freed    *)
(* slot keeps its parent in the code, and one never used has parent 0:     *)
(* such slots are marked dirty once more when the archive of that slot is  *)
(* rescanned, which only writes them again and is left out.                *)
(***************************************************************************)
EXTENDS SlotFile, SequencesExt

CONSTANTS
  Names, Sizes,   \* base names of archives, the sizes they may have
  Modules,        \* names of modules
  Content,        \* what an archive of that name and size holds
  Scans           \* how many archives are scanned, a bound

ASSUME ContentAssumption ==
  Scans \in Nat /\ Content \in [Names \X Sizes -> Seq(Modules)]

VARIABLES
  adbData,    \* 0..adbNum-1
  dirty,      \* the slots with ADB_DIRTY
  adbDirty,
  file,       \* CPARCS.DAT
  running,
  refs,       \* entries of lists of files: their archive, name and adb_ref
  left        \* scans left

memory == <<adbData, dirty, adbDirty>>
vars == <<memory, file, running, refs, left>>

(* whole: history, the scanner reached the end of the archive.             *)
Arc(name, size, whole) == [kind |-> "arc", name |-> name, size |-> size, whole |-> whole]
Member(name, parent) == [kind |-> "member", name |-> name, parent |-> parent]

NotFound == -1
db == [data |-> adbData, dirty |-> dirty]

Arcs(data) == {i \in DOMAIN data : data[i].kind = "arc"}
Members(data, ar) ==
  {i \in DOMAIN data : data[i].kind = "member" /\ data[i].parent = ar}

adbFind(data, name) ==
  LET those == {i \in Arcs(data) : data[i].name = name}
  IN  IF those = {} THEN NotFound ELSE CHOOSE i \in those : \A j \in those : i <= j
-----------------------------------------------------------------------------
ContentOf(name, size) == Content[<<name, size>>]

(* A scanner adds the archive and the first n modules in it.               *)
Scanned(d, name, size, n, whole) ==
  LET withArc == Take(d, Arc(name, size, whole))
      arcref  == adbFind(withArc.data, name)
      f[k \in 0 .. n] ==
        IF k = 0 THEN withArc ELSE Take(f[k - 1], Member(ContentOf(name, size)[k], arcref))
  IN  f[n]

(* What belongs to an archive is freed before it is scanned again.         *)
ArcOnly(ar) == {ar} \ {NotFound}                                  \* mutant
EveryMember(ar) ==                                                \* mutant
  ({ar} \ {NotFound}) \cup (IF ar = NotFound THEN {} ELSE DOMAIN adbData \ Arcs(adbData))
Outdated(ar) == ({ar} \ {NotFound}) \cup Members(adbData, ar)

(* The entries adbFindFirst and adbFindNext list.                          *)
FindPos(data, name) ==                                            \* mutant
  {[arc |-> name, name |-> data[i].name, ref |-> i + 1] :
     i \in Members(data, adbFind(data, name))}
Listed(data, name) ==
  {[arc |-> name, name |-> data[i].name, ref |-> i] :
     i \in Members(data, adbFind(data, name))}

Known(name, size) ==
  LET ar == adbFind(adbData, name)
  IN  ar # NotFound /\ adbData[ar].size = size

(* An archive the cache has, with the size it has now, is listed from the  *)
(* cache.                                                                  *)
ListKnown(name, size) ==
  /\ running /\ Known(name, size)
  /\ refs' = refs \cup Listed(adbData, name)
  /\ UNCHANGED <<memory, file, running, left>>

(* Any other is scanned: to its end, or the scanner fails before or after  *)
(* it has added entries, and nothing is listed, or the stream ends early,  *)
(* which arctar.c and arczip.c take for the end, and what was added is.    *)
(* Entries of lists from before keep their adb_ref, of no use from here on.*)
Rescan(name, size) ==
  /\ running /\ ~Known(name, size) /\ left > 0
  /\ LET freed  == Release(db, Outdated(adbFind(adbData, name)))
         others == {r \in refs : r.arc # name}
         all    == Len(ContentOf(name, size))
     IN  \/ /\ adbData' = freed.data /\ dirty' = freed.dirty
            /\ refs' = others
         \/ \E n \in 0 .. all :
              LET cut == Scanned(freed, name, size, n, FALSE)
              IN  /\ adbData' = cut.data /\ dirty' = cut.dirty
                  /\ refs' \in {others, others \cup Listed(cut.data, name)}
         \/ LET new == Scanned(freed, name, size, all, TRUE)
            IN  /\ adbData' = new.data /\ dirty' = new.dirty
                /\ refs' = others \cup Listed(new.data, name)
  /\ adbDirty' = TRUE /\ left' = left - 1
  /\ UNCHANGED <<file, running>>
-----------------------------------------------------------------------------
(* adbUpdate, after fsScanDir has read a directory.                        *)
adbUpdate ==
  /\ running /\ adbDirty /\ adbDirty' = FALSE
  /\ file' = WriteSlots(db, file, Number(adbData))
  /\ dirty' = {}
  /\ UNCHANGED <<adbData, running, refs, left>>

(* The file does not open: what was to be written stays marked.            *)
StayMarked == UNCHANGED dirty

UpdateNotOpened ==
  /\ running /\ adbDirty /\ adbDirty' = FALSE
  /\ StayMarked
  /\ UNCHANGED <<adbData, file, running, refs, left>>

Halt ==
  /\ running /\ running' = FALSE
  /\ adbData' = NoSlots /\ dirty' = {} /\ adbDirty' = FALSE /\ refs' = {}
  /\ UNCHANGED left

(* The session ends with adbClose, or without it, or a write fails and the *)
(* player exits.                                                           *)
adbClose ==
  /\ Halt
  /\ file' = IF adbDirty THEN WriteSlots(db, file, Number(adbData)) ELSE file

NotWritten == Halt /\ UNCHANGED file

Torn == Halt /\ adbDirty /\ file' \in TornFiles(db, file)

adbInit ==
  /\ ~running /\ running' = TRUE
  /\ adbData' = Load(file)
  /\ dirty' = {} /\ adbDirty' = FALSE
  /\ UNCHANGED <<file, refs, left>>
-----------------------------------------------------------------------------
Init ==
  /\ adbData = NoSlots /\ dirty = {} /\ adbDirty = FALSE /\ file = NoFile
  /\ running = TRUE /\ refs = {} /\ left = Scans

Next ==
  \/ \E name \in Names, size \in Sizes : ListKnown(name, size) \/ Rescan(name, size)
  \/ adbUpdate \/ UpdateNotOpened
  \/ adbClose \/ NotWritten \/ Torn \/ adbInit

Spec == Init /\ [][Next]_vars
-----------------------------------------------------------------------------
Slots ==
  {Free} \cup [kind : {"arc"}, name : Names, size : Sizes, whole : BOOLEAN]
  \cup [kind : {"member"}, name : Modules, parent : Nat]

TypeOK ==
  /\ \A i \in DOMAIN adbData : i \in Nat /\ adbData[i] \in Slots
  /\ \A i \in DOMAIN file.slots : i \in Nat /\ file.slots[i] \in Slots
  /\ dirty \subseteq DOMAIN adbData
  /\ \A r \in refs : r.arc \in Names /\ r.name \in Modules /\ r.ref \in DOMAIN adbData
  /\ adbDirty \in BOOLEAN /\ running \in BOOLEAN /\ left \in 0 .. Scans

(* However archives changed and scans failed, were saved, could not be     *)
(* saved for the file did not open, and were read again:                   *)
(* an archive has one entry, no module is without its archive, and what is *)
(* listed of an archive that was scanned to its end is what an archive of  *)
(* that size holds, and no more; of another, the beginning of it.          *)
Catalogue ==
  /\ \A a, b \in Arcs(adbData) : adbData[a].name = adbData[b].name => a = b
  /\ \A m \in DOMAIN adbData :
       adbData[m].kind = "member" => adbData[m].parent \in Arcs(adbData)
  /\ \A a \in Arcs(adbData) :
       LET content == ContentOf(adbData[a].name, adbData[a].size)
           n       == Cardinality(Members(adbData, a))
       IN  /\ {adbData[m].name : m \in Members(adbData, a)} = ToSet(SubSeq(content, 1, n))
           /\ n <= Len(content)
           /\ adbData[a].whole => n = Len(content)

(* A list's entry names the right module of the right archive until that   *)
(* archive is scanned again, whatever happens to the others.               *)
RefsRight ==
  \A r \in refs : adbData[r.ref] = Member(r.name, adbFind(adbData, r.arc))
=============================================================================
