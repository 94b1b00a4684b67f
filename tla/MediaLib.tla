------------------------------- MODULE MediaLib -------------------------------
(***************************************************************************)
(* The media library (medialib/medialib.c) on top of the tree of file      *)
(* names: the user names a directory, mlScan walks it with fsReadDir, tags *)
(* every module file it finds and then makes the tags the library's        *)
(* content below that directory, or drops them when escape is pressed.     *)
(* The playlist and the drive hold handles of their own.  The process may  *)
(* end at any step; it begins again with the file the last flush wrote.    *)
(*                                                                         *)
(* The disk changes only while no scan is running.  Only module files are  *)
(* on it: archives, symbolic links and other files are left out.  A path   *)
(* is a sequence of names below the drive "file:".                         *)
(***************************************************************************)
EXTENDS DirDb

CONSTANTS
  Names,                \* what directories and files are called
  DirPaths, FilePaths,  \* where directories and files may be
  Mdbrefs,              \* what mdbGetModuleReference says of a file
  Targets,              \* the directories the user scans
  Known,                \* TRUE: files the library has are scanned again
  Restarts,             \* TRUE: the process may end and begin again
  WriteErrors,          \* where the writing of CPDIRDB.DAT may fail
  Escapes,              \* TRUE: a scan may be aborted (a bound: one that leaks)
  MaxPlaylist           \* a bound

ASSUME FlagsAssumption == {Known, Restarts, Escapes} \subseteq BOOLEAN
ASSUME ErrorsAssumption == WriteErrors \subseteq {"open", "header", "fields", "name", "between"}
ASSUME NumbersAssumption == Mdbrefs \subseteq Nat /\ MaxPlaylist \in Nat
ASSUME PathsAssumption ==
  NoName \notin Names /\ DirPaths \cup FilePaths \cup Targets \subseteq Seq(Names)

Drive == <<"file:">>
Below(path, p) == IsStrictPrefix(path, p)

VARIABLES
  dirdbData, tagparentnode,
  saved,          \* CPDIRDB.DAT
  playlist,       \* nodes in the playlist
  handle,         \* node, in mlSourcesAdd
  stack,          \* the calls of mlSubScan
  calls,          \* the calls of _dirdbTagRemoveUntaggedAndSubmit
  pc,
  dirs, files,    \* the disk
  before,         \* history: the library when the scan began
  leaky           \* history: an aborted scan or holes of a file left counts

disk == <<dirs, files>>
scan == <<tagparentnode, handle, stack, calls>>
vars == <<dirdbData, saved, playlist, scan, pc, disk, before, leaky>>

basepath == NodeOf(dirdbData, NoParent, Drive[1])   \* and currentpath

Entries(path) == {p \in dirs \cup {f[1] : f \in files} : Below(path, p) /\ Len(p) = Len(path) + 1}
(* A call of mlSubScan, with the names opendir finds under its full name. *)
Call(t, node) == [node |-> node, toRead |-> Entries(Tail(FullName(t, node))),
                  ml |-> {}, left |-> {}]
Top == stack[Len(stack)]

(* Nothing happens behind abort(), nor behind dirdbInit's double free. *)
At(step) == pc = step /\ ~Aborted(dirdbData)
-----------------------------------------------------------------------------
(* fsPreInit: dirdbInit, and if the process survives that, RegisterDrive   *)
(* with two handles of its own.                                            *)
Started(file) ==
  LET l == Load(file)
      t == FindAndRef(l, NoParent, Drive[1])
  IN  IF Aborted(l) THEN l ELSE Ref(t, NodeOf(t, NoParent, Drive[1]))

Forgotten ==
  /\ tagparentnode' = NoParent /\ handle' = NoParent
  /\ stack' = <<>> /\ calls' = <<>> /\ pc' = "idle" /\ before' = {}

Init ==
  /\ saved = NoFile /\ dirdbData = Started(NoFile)
  /\ tagparentnode = NoParent /\ handle = NoParent
  /\ stack = <<>> /\ calls = <<>> /\ pc = "idle"
  /\ playlist = {} /\ before = {} /\ leaky = FALSE
  /\ dirs \in SUBSET DirPaths /\ files = {}
  /\ \A p \in dirs : Len(p) > 1 => Front(p) \in dirs

(* The process ends, on its own accord or not; dirdb is not flushed then.  *)
Restart ==
  /\ Restarts
  /\ dirdbData' = Started(saved)
  /\ Forgotten
  /\ playlist' = {}
  /\ leaky' = (Holes(Load(saved)) # {})
  /\ UNCHANGED <<saved, disk>>

(* The user's other programs. *)
DiskChange ==
  /\ At("idle")
  /\ \/ \E f \in files : files' = files \ {f} /\ UNCHANGED dirs
     \/ \E d \in dirs : Entries(d) = {} /\ dirs' = dirs \ {d} /\ UNCHANGED files
     \/ \E p \in DirPaths \cup FilePaths :
          /\ p \notin dirs \cup {f[1] : f \in files}
          /\ Len(p) > 1 => Front(p) \in dirs
          /\ \/ p \in DirPaths /\ dirs' = dirs \cup {p} /\ UNCHANGED files
             \/ p \in FilePaths /\ \E r \in Mdbrefs : files' = files \cup {<<p, r>>}
                                /\ UNCHANGED dirs
  /\ UNCHANGED <<dirdbData, saved, playlist, scan, pc, before, leaky>>

(* modlist_append and modlist_remove on the playlist, from the listing of  *)
(* the library.                                                            *)
Append1 ==
  /\ At("idle") /\ Cardinality(playlist) < MaxPlaylist
  /\ \E n \in Named(dirdbData) \ playlist :
       /\ dirdbData[n].mdbref # NoRef
       /\ dirdbData' = Ref(dirdbData, n)
       /\ playlist' = playlist \cup {n}
  /\ UNCHANGED <<saved, scan, pc, disk, before, leaky>>

Remove1 ==
  /\ At("idle")
  /\ \E n \in playlist :
       /\ dirdbData' = Unref(dirdbData, n)
       /\ playlist' = playlist \ {n}
  /\ UNCHANGED <<saved, scan, pc, disk, before, leaky>>
-----------------------------------------------------------------------------
(* mlSourcesAdd and the beginning of mlScan. *)
StartScan(target) ==
  /\ At("idle")
  /\ Known \/ \A f \in files : Below(target, f[1]) =>
                \A e \in Library(dirdbData) : e[1] # Drive \o f[1]
  /\ LET at == Resolve(dirdbData, Drive \o target) IN
       /\ dirdbData' = TagSetParent(at.table, at.node)
       /\ handle' = at.node
       /\ tagparentnode' = at.node
       /\ stack' = <<Call(at.table, at.node)>>
  /\ before' = Library(dirdbData)
  /\ pc' = "read"
  /\ UNCHANGED <<calls, saved, playlist, disk, leaky>>

(* dosReadDirChild: an entry of the directory comes into the list, which   *)
(* keeps a handle of it.                                                   *)
Listed(call, p, node) ==
  [call EXCEPT !.toRead = @ \ {p}, !.ml = @ \cup {node}, !.left = @ \cup {<<p, node>>}]
ReadDirChild ==
  /\ At("read")
  /\ \E p \in Top.toRead :
       LET at == Resolve(dirdbData, Drive \o p) IN
       /\ dirdbData' = at.table
       /\ stack' = [stack EXCEPT ![Len(stack)] = Listed(@, p, at.node)]
  /\ UNCHANGED <<tagparentnode, handle, calls, pc, saved, playlist, disk, before, leaky>>

(* The keyboard is asked once for every directory, behind fsReadDir; on    *)
(* escape every call returns at once and leaves its list where it is.      *)
ReadDone ==
  /\ At("read") /\ Top.toRead = {}
  /\ \/ pc' = "files" /\ UNCHANGED <<stack, leaky>>
     \/ /\ Escapes /\ ~leaky
        /\ pc' = "cancel" /\ stack' = <<>>
        /\ leaky' = (leaky \/ \E k \in DOMAIN stack : stack[k].ml # {})
  /\ UNCHANGED <<dirdbData, tagparentnode, handle, calls, saved, playlist, disk, before>>

SubScan ==
  /\ At("files")
  /\ \E e \in Top.left :
       /\ e[1] \in dirs
       /\ stack' = Append([stack EXCEPT ![Len(stack)].left = @ \ {e}], Call(dirdbData, e[2]))
  /\ pc' = "read"
  /\ UNCHANGED <<dirdbData, tagparentnode, handle, calls, saved, playlist, disk, before, leaky>>

TagFile ==
  /\ At("files")
  /\ \E e \in Top.left, f \in files :
       /\ e[1] = f[1]
       /\ stack' = [stack EXCEPT ![Len(stack)].left = @ \ {e}]
       /\ dirdbData' = MakeMdbAdbRef(dirdbData, e[2], f[2])
  /\ UNCHANGED <<tagparentnode, handle, calls, pc, saved, playlist, disk, before, leaky>>

(* modlist_free; back to the calling mlSubScan or mlScan. *)
SubScanDone ==
  /\ At("files") /\ Top.left = {}
  /\ dirdbData' = UnrefAll(dirdbData, Top.ml)
  /\ stack' = Front(stack)
  /\ IF Len(stack) > 1
       THEN pc' = "files" /\ UNCHANGED calls
       ELSE pc' = "submit" /\ calls' = <<[node |-> tagparentnode, next |-> 0]>>
  /\ UNCHANGED <<tagparentnode, handle, saved, playlist, disk, before, leaky>>

(* dirdbTagCancel, and the last line of mlSourcesAdd. *)
Cancel ==
  /\ At("cancel")
  /\ dirdbData' = Unref(TagCancel(dirdbData, tagparentnode), handle)
  /\ Forgotten
  /\ UNCHANGED <<saved, playlist, disk, leaky>>

(* dirdbTagRemoveUntaggedAndSubmit, one entry at a time. *)
Submit ==
  /\ At("submit")
  /\ LET call == calls[Len(calls)]
         below == {i \in DOMAIN dirdbData : i >= call.next /\ dirdbData[i].parent = call.node}
         i == Lowest(below)
         resumed == [calls EXCEPT ![Len(calls)].next = i + 1]
     IN \/ /\ below # {}
           /\ dirdbData' = SubmitEntry(dirdbData, i)
           /\ calls' = IF LooksBelow(dirdbData, i)
                         THEN Append(resumed, [node |-> i, next |-> 0]) ELSE resumed
           /\ UNCHANGED <<tagparentnode, pc>>
        \/ /\ below = {} /\ Len(calls) > 1
           /\ calls' = Front(calls)
           /\ UNCHANGED <<dirdbData, tagparentnode, pc>>
        \/ /\ below = {} /\ Len(calls) = 1
           /\ calls' = <<>> /\ pc' = "flush"
           /\ dirdbData' = Unref(dirdbData, tagparentnode) /\ tagparentnode' = NoParent
  /\ UNCHANGED <<handle, stack, saved, playlist, disk, before, leaky>>

(* dirdbFlush, and the last line of mlSourcesAdd.  (dirdbDirty has been    *)
(* set by the submit.)                                                     *)
Flush ==
  /\ At("flush")
  /\ LET t == Purged(dirdbData) IN
       /\ dirdbData' = Unref(t, handle)
       /\ saved' \in {FileOf(t)} \cup CutFiles(t, WriteErrors)
                     \cup {saved : e \in WriteErrors \cap {"open"}}
  /\ Forgotten
  /\ UNCHANGED <<playlist, disk, leaky>>
-----------------------------------------------------------------------------
Scans ==
  \/ \E target \in Targets : StartScan(target)
  \/ ReadDirChild \/ ReadDone \/ SubScan \/ TagFile \/ SubScanDone
  \/ Cancel \/ Submit \/ Flush

Next ==
  \/ Restart \/ DiskChange \/ Append1 \/ Remove1 \/ Scans

Spec == Init /\ [][Next]_vars
-----------------------------------------------------------------------------
(* The variables keep to their types; tags are set only during a scan,     *)
(* except for the zeros dirdbInit leaves.                                  *)
TypeOK ==
  /\ DOMAIN dirdbData = 0..Cardinality(DOMAIN dirdbData)-1
  /\ \A i \in DOMAIN dirdbData :
       /\ dirdbData[i].parent \in DOMAIN dirdbData \cup {NoParent}
       /\ dirdbData[i].mdbref \in Mdbrefs \cup {NoRef, 0}
       /\ dirdbData[i].newmdbref \in {NoRef, 0} \cup IF tagparentnode = NoParent THEN {} ELSE Mdbrefs
       /\ dirdbData[i].refcount \in Nat \cup {-1}
  /\ {tagparentnode, handle} \cup playlist \subseteq DOMAIN dirdbData \cup {NoParent}
  /\ pc \in {"idle", "read", "files", "cancel", "submit", "flush"}
  /\ saved.torn \in {"no", "fields", "name"} /\ saved.entries \in Nat

(* Who refers to entry n. *)
Owners(n) ==
  LET e == dirdbData[n]
      one(b) == IF b THEN 1 ELSE 0
  IN Cardinality(Children(dirdbData, n))
       + one(e.mdbref # NoRef \/ (tagparentnode # NoParent /\ e.newmdbref # NoRef))
       + one(tagparentnode = n) + one(handle = n) + one(n \in playlist)
       + (IF n = basepath THEN 2 ELSE 0)
       + Cardinality({k \in DOMAIN stack : n \in stack[k].ml})

(* No entry is counted less often than it is referred to, and, unless a    *)
(* scan was aborted or a file with holes was read, none more often: nothing*)
(* goes too early, nothing stays for ever, and neither dirdbUnref nor the  *)
(* reading of the file ends the process.                                   *)
RefCounts ==
  /\ ~Aborted(dirdbData)
  /\ \A n \in Named(dirdbData) :
       /\ dirdbData[n].refcount >= Owners(n)
       /\ leaky \/ dirdbData[n].refcount = Owners(n)

(* Every name hangs in the tree of the drive, once, and who has a handle   *)
(* has a name.                                                             *)
Tree ==
  /\ \A n \in Named(dirdbData) : FullName(dirdbData, n)[1] = Drive[1]
  /\ \A m, n \in Named(dirdbData) :
       FullName(dirdbData, m) = FullName(dirdbData, n) => m = n
  /\ {tagparentnode, handle} \cup playlist \cup UNION {stack[k].ml : k \in DOMAIN stack}
       \subseteq Named(dirdbData) \cup {NoParent}

(* A scan that is not aborted leaves in the library, below the directory   *)
(* scanned, exactly the files that are on the disk, and what was there     *)
(* before elsewhere.                                                       *)
ScanExact ==
  [][pc = "submit" /\ pc' = "flush" =>
       LET scanned == FullName(dirdbData, tagparentnode) IN
       Library(dirdbData') =
            {e \in before : ~Below(scanned, e[1])}
              \cup {<<Drive \o f[1], f[2]>> : f \in {g \in files : Below(scanned, Drive \o g[1])}}]_vars

(* Nothing but the submit of a scan changes the library, a restart brings  *)
(* back what the last flush left in the file, and a flush whose writes succeed writes *)
(* the library.                                                            *)
Durable ==
  [][/\ \/ Library(dirdbData') \in {Library(dirdbData), Library(Load(saved))}
        \/ pc = "submit"
     /\ pc = "flush" /\ pc' = "idle" /\ saved' = FileOf(Purged(dirdbData)) =>
          Library(Load(saved')) = Library(dirdbData)]_vars
=============================================================================
