-------------------------------- MODULE DirDb --------------------------------
(***************************************************************************)
(* The tree of file names (filesel/dirdb.c) as functions of its table.     *)
(* The table dirdbData is a function from 0..dirdbNum-1 to entries; an     *)
(* entry without a name is a hole.  An entry lives as long as it is        *)
(* counted: once for every entry below it, once for its mdbref, once for   *)
(* every handle.  A count below zero stands for abort(): dirdbUnref has    *)
(* met an entry nobody refers to, or dirdbInit has freed a name twice.     *)
(*                                                                         *)
(* An mdbref stands for the pair of mdbref and adbref, which are tagged,   *)
(* submitted and saved together.                                           *)
(***************************************************************************)
EXTENDS Integers, Sequences, FiniteSets, SequencesExt

CONSTANT Growth      \* entries the table grows by (16)

ASSUME GrowthAssumption == Growth \in Nat \ {0}

NoParent == -1       \* DIRDB_NOPARENT
NoRef == -1          \* DIRDB_NO_MDBREF
NoName == ""         \* a null pointer

Lowest(S) == CHOOSE i \in S : \A j \in S : i <= j

Zeroed == [name |-> NoName, parent |-> 0, mdbref |-> 0, newmdbref |-> 0, refcount |-> 0]
Hole == [name |-> NoName, parent |-> 0, mdbref |-> NoRef, newmdbref |-> NoRef, refcount |-> 0]

Named(t) == {i \in DOMAIN t : t[i].name # NoName}
Holes(t) == DOMAIN t \ Named(t)
Children(t, n) == {i \in Named(t) : t[i].parent = n}
Aborted(t) == \E i \in DOMAIN t : t[i].refcount < 0

(* dirdbGetFullName, of an entry that has a name. *)
FullName(t, n) ==
  LET full[i \in Named(t)] ==
        IF t[i].parent \in Named(t) THEN Append(full[t[i].parent], t[i].name)
                                    ELSE <<t[i].name>>
  IN full[n]

(* The files the table knows, as dirdbGetMdbAdb lists them. *)
Library(t) == {<<FullName(t, i), t[i].mdbref>> : i \in {j \in Named(t) : t[j].mdbref # NoRef}}
-----------------------------------------------------------------------------
Ref(t, n) == [t EXCEPT ![n].refcount = @ + 1]

(* dirdbUnref: entries that nobody refers to any longer go, from n upwards *)
(* to the first that is still wanted.                                      *)
UnrefLeaf(t, n) == IF t[n].refcount = 1                           \* mutant
                     THEN [t EXCEPT ![n] = Hole] ELSE [t EXCEPT ![n].refcount = @ - 1]
UnrefStep(at) ==
  LET t == at.table  n == at.node IN
  IF n = NoParent THEN at
  ELSE IF t[n].refcount = 1
    THEN [table |-> [t EXCEPT ![n] = Hole], node |-> t[n].parent]
    ELSE [table |-> [t EXCEPT ![n].refcount = @ - 1], node |-> NoParent]
Unref(t, n) ==
  LET up[k \in 0..Cardinality(DOMAIN t)] ==
        IF k = 0 THEN [table |-> t, node |-> n] ELSE UnrefStep(up[k-1])
  IN up[Cardinality(DOMAIN t)].table

(* modlist_free, of a list of the entries S. *)
UnrefAll(t, S) ==
  LET done[k \in 0..Cardinality(DOMAIN t)] ==
        IF k = 0 THEN t
        ELSE IF k - 1 \in S THEN Unref(done[k-1], k - 1) ELSE done[k-1]
  IN done[Cardinality(DOMAIN t)]

(* dirdbFindAndRef: the entry of that name, or the first hole, or the      *)
(* first entry of a larger table.                                          *)
Grown(t) == [i \in 0..Cardinality(DOMAIN t) + Growth - 1 |->
               IF i \in DOMAIN t THEN t[i] ELSE Hole]

NodeOf(t, parent, name) ==
  Lowest({i \in Named(t) : t[i].parent = parent /\ t[i].name = name})

Called(e, parent, name) ==
  [e EXCEPT !.name = name, !.parent = parent, !.mdbref = NoRef, !.refcount = @ + 1]

FindAndRefLoose(t, parent, name) ==                               \* mutant
  IF \E i \in Named(t) : t[i].parent = parent /\ t[i].name = name
    THEN Ref(t, NodeOf(t, parent, name))
    ELSE LET u == IF Holes(t) = {} THEN Grown(t) ELSE t IN
         [u EXCEPT ![Lowest(Holes(u))] = Called(@, parent, name)]
FindAndRef(t, parent, name) ==
  IF \E i \in Named(t) : t[i].parent = parent /\ t[i].name = name
    THEN Ref(t, NodeOf(t, parent, name))
    ELSE LET u == IF Holes(t) = {} THEN Grown(t) ELSE t
             v == [u EXCEPT ![Lowest(Holes(u))] = Called(@, parent, name)]
         IN IF parent = NoParent THEN v ELSE Ref(v, parent)

(* dirdbResolvePathAndRef: the handle moves down the path. *)
Descend(at, name) ==
  LET t == FindAndRef(at.table, at.node, name) IN
  [table |-> IF at.node = NoParent THEN t ELSE Unref(t, at.node),
   node |-> NodeOf(t, at.node, name)]
Resolve(t, path) ==
  LET down[k \in 0..Len(path)] ==
        IF k = 0 THEN [table |-> t, node |-> NoParent] ELSE Descend(down[k-1], path[k])
  IN down[Len(path)]
-----------------------------------------------------------------------------
(* dirdbTagSetParent, with no node set. *)
TagSetParent(t, n) == Ref([i \in DOMAIN t |-> [t[i] EXCEPT !.newmdbref = NoRef]], n)

(* dirdbMakeMdbAdbRef, with an mdbref. *)
MakeMdbAdbRef(t, n, ref) ==
  LET u == [t EXCEPT ![n].newmdbref = ref] IN
  IF t[n].mdbref = NoRef THEN Ref(u, n) ELSE u

(* dirdbTagCancel *)
Untag(t, i) ==
  IF t[i].newmdbref = NoRef THEN t ELSE Unref([t EXCEPT ![i].newmdbref = NoRef], i)
TagCancel(t, tagparentnode) ==
  LET done[k \in 0..Cardinality(DOMAIN t)] ==
        IF k = 0 THEN t ELSE Untag(done[k-1], k - 1)
  IN Unref(done[Cardinality(DOMAIN t)], tagparentnode)

(* _dirdbTagRemoveUntaggedAndSubmit: what it does with one entry, and      *)
(* whether it looks below that entry.                                      *)
SubmitEntryTagged(t, i) ==                                        \* mutant
  LET u == [t EXCEPT ![i].mdbref = t[i].newmdbref] IN
  IF t[i].mdbref = NoRef THEN u ELSE Unref(u, i)
SubmitEntry(t, i) ==
  LET u == [t EXCEPT ![i].mdbref = t[i].newmdbref, ![i].newmdbref = NoRef] IN
  IF t[i].mdbref = NoRef THEN u ELSE Unref(u, i)

LooksBelowDirs(t, i) == t[i].mdbref = t[i].newmdbref              \* mutant
LooksBelow(t, i) == NoRef \in {t[i].mdbref, t[i].newmdbref}
-----------------------------------------------------------------------------
(* dirdbFlush: entries that nothing refers to go, and the table is         *)
(* written up to its last name, hole by hole.                              *)
PurgeEntry(t, i) ==
  IF i \in Named(t) /\ t[i].refcount = 0 THEN Unref(Ref(t, i), i) ELSE t
Purged(t) ==
  LET done[k \in 0..Cardinality(DOMAIN t)] ==
        IF k = 0 THEN t ELSE PurgeEntry(done[k-1], k - 1)
  IN done[Cardinality(DOMAIN t)]

EntryCount(t) ==
  IF Named(t) = {} THEN 0 ELSE 1 + CHOOSE i \in Named(t) : \A j \in Named(t) : j <= i
Written(t, n) == [i \in 0..n-1 |->
  [name |-> t[i].name, parent |-> t[i].parent, mdbref |-> t[i].mdbref]]

(* CPDIRDB.DAT: the count in its header, the entries behind it, and where  *)
(* one more has been cut off, if any.  As the file was truncated when it   *)
(* was opened, a write that fails leaves it empty, or cut between two      *)
(* entries (or in the length of the next), or behind the length of one     *)
(* that has a name: inside its fields of fixed size or inside the name.    *)
FileOfNames(t) == LET n == Cardinality(Named(t)) IN               \* mutant
                  [entries |-> n, nodes |-> Written(t, n), torn |-> "no"]
FileOf(t) == [entries |-> EntryCount(t), nodes |-> Written(t, EntryCount(t)), torn |-> "no"]
NoFile == [entries |-> 0, nodes |-> [i \in {} |-> Zeroed], torn |-> "no"]
Cut(t, n, where) == [FileOf(t) EXCEPT !.nodes = Written(t, n), !.torn = where]
CutFiles(t, errors) ==
  {NoFile : e \in errors \cap {"header"}} \cup
  {Cut(t, n, "no") : n \in 0..EntryCount(t)-1, e \in errors \cap {"between"}} \cup
  {Cut(t, n, e) : n \in Named(t), e \in errors \cap {"fields", "name"}}

(* dirdbInit.  A hole has no fields in the file, so that its fields stay   *)
(* zero, which is a parent.  A file that ends between two entries is used  *)
(* as it is; one that ends inside the fields of an entry leaves holes (the *)
(* mdbref that entry may have by then is left out: it is set anew before   *)
(* the hole is used).  One that ends inside a name is never read: that     *)
(* name is freed where the read fails and again with all the others, and   *)
(* free() ends the process, now and whenever it begins again.  (Should     *)
(* free() not notice, names would share memory: that is left out.)         *)
ReadEntries(file) == [i \in 0..file.entries-1 |->
  IF i \in DOMAIN file.nodes /\ file.nodes[i].name # NoName
    THEN [name |-> file.nodes[i].name, parent |-> file.nodes[i].parent,
          mdbref |-> file.nodes[i].mdbref, newmdbref |-> 0,
          refcount |-> IF file.nodes[i].mdbref = NoRef THEN 0 ELSE 1]
    ELSE Zeroed]

LoadUncounted(file) == ReadEntries(file)                          \* mutant
Load(file) ==
  LET t == ReadEntries(file) IN
  CASE DOMAIN file.nodes = DOMAIN t ->
         [i \in DOMAIN t |-> [t[i] EXCEPT
            !.refcount = @ + Cardinality({j \in DOMAIN t : t[j].parent = i})]]
    [] file.torn = "fields" ->
         [i \in DOMAIN t |-> [t[i] EXCEPT !.name = NoName, !.parent = 0]]
    [] file.torn = "name" ->
         [i \in DOMAIN t |-> [Zeroed EXCEPT !.refcount = -1]]
    [] OTHER -> t
=============================================================================
