------------------------------- MODULE FsMain -------------------------------
(***************************************************************************)
(* The main loop of the player (filesel/pfsmain.c: _fsMain, callselector)  *)
(* with the playlist and the choice of the next file (filesel/pfilesel.c,  *)
(* filesel/modlist.c).  One thread: an action is what runs between two     *)
(* points where the user, the song or the file decides.                    *)
(*                                                                         *)
(* A file may not open, may be virtual (it has no FILE), may have no       *)
(* interface registered for its type, or be refused by its interface.      *)
(* Nothing but callselector reads isnextplay after fsFileSelect set it.    *)
(***************************************************************************)
EXTENDS Integers, FiniteSets, Sequences, SequencesExt

CONSTANTS
  Files, NoFile,
  Unreadable, Virtual, NoInterface, NoInit,  \* which files are what
  MaxList                                    \* length of the playlist, a bound

ASSUME FilesAssumption ==
  /\ NoFile \notin Files /\ MaxList \in Nat
  /\ Unreadable \cup Virtual \cup NoInterface \cup NoInit \subseteq Files
  /\ Unreadable \cap Virtual = {}

VARIABLES
  playlist, pos,                    \* pos as in the code, from 0
  isnextplay, nextplay,             \* what was chosen; then, the file fetched
  fsListRemove, fsListScramble, fsPlaylistOnly,
  pc,                               \* where the main loop is
  call,                             \* the arguments of callselector, who called it
  ret,                              \* whether fsFileSelect chose a file
  stop, callfs, firstfile,
  plintr, nextintr,                 \* the file an interface was found for
  tf, nextf, thisf,                 \* the FILE of
  open, inits                       \* FILEs not closed, interfaces not closed

list == <<playlist, pos, isnextplay, nextplay>>
options == <<fsListRemove, fsListScramble, fsPlaylistOnly>>
selector == <<call, ret>>
flags == <<stop, callfs, firstfile>>
interfaces == <<plintr, nextintr, inits>>
handles == <<tf, nextf, thisf, open>>
vars == <<list, options, pc, selector, flags, interfaces, handles>>

Calls == [callfs : BOOLEAN, force : BOOLEAN, next : {"no", "next", "prev"},
          from : {"main", "auto", "autonext", "user"}]
HandleOf(file) == IF file \in Virtual THEN NoFile ELSE file
FilesLeft == isnextplay # "none" \/ playlist # <<>>
Closed(handle) == IF handle = NoFile THEN 0 ELSE 1
-----------------------------------------------------------------------------
(* modlist_remove of one entry; the cursor stays in the list.              *)
Unclamped(cursor, len) == cursor                                  \* mutant
Clamped(cursor, len) ==
  IF len = 0 THEN 0 ELSE IF cursor >= len THEN len - 1 ELSE cursor

modlist_remove(index) ==
  /\ playlist' = RemoveAt(playlist, index + 1)
  /\ pos' = Clamped(pos, Len(playlist) - 1)

(* fsForceRemove: all the entries of that path.                            *)
Without(file) ==
  LET rest[n \in 0 .. Len(playlist)] ==
        IF n = 0 THEN <<>>
        ELSE IF playlist[n] = file THEN rest[n - 1] ELSE Append(rest[n - 1], playlist[n])
  IN  rest[Len(playlist)]

fsForceRemove(file) ==
  playlist' = Without(file) /\ pos' = Clamped(pos, Len(Without(file)))

(* callselector is called, and forgets what it chose before.               *)
Call(autocall, force, next, from) ==
  /\ pc' = "select" /\ ret' = FALSE
  /\ call' = [callfs |-> autocall, force |-> force, next |-> next, from |-> from]
  /\ nextintr' = NoFile /\ nextf' = NoFile /\ tf' = NoFile
-----------------------------------------------------------------------------
(* The top of _fsMain's loop.                                              *)
Main ==
  /\ pc = "main"
  /\ \/ /\ stop = "quit"
        /\ pc' = "quit" /\ UNCHANGED <<selector, nextintr, nextf, tf>>
     \/ /\ stop # "quit" /\ plintr = NoFile
        /\ Call(callfs \/ firstfile, stop = "callfs", "next", "main")
     \/ /\ stop # "quit" /\ plintr # NoFile
        /\ pc' = "consume" /\ UNCHANGED <<selector, nextintr, nextf, tf>>
  /\ UNCHANGED <<list, options, flags, plintr, inits, thisf, open>>

(* callselector returns 0: to _fsMain without a song to play, at the end   *)
(* of a song (which then asks again, for the next file), or after a key.   *)
ReturnNone ==
  \/ /\ call.from = "main"
     /\ pc' = "quit" /\ UNCHANGED <<selector, flags, nextintr, nextf, tf>>
  \/ /\ call.from = "auto" /\ FilesLeft
     /\ Call(FALSE, FALSE, "next", "autonext") /\ UNCHANGED flags
  \/ /\ call.from = "auto" /\ ~FilesLeft
     /\ pc' = "main" /\ stop' = "quit" /\ firstfile' = FALSE
     /\ UNCHANGED <<selector, callfs, nextintr, nextf, tf>>
  \/ /\ call.from = "autonext"
     /\ pc' = "main" /\ stop' = "auto" /\ firstfile' = FALSE
     /\ UNCHANGED <<selector, callfs, nextintr, nextf, tf>>
  \/ /\ call.from = "user"
     /\ pc' = "run" /\ stop' = "continue"
     /\ UNCHANGED <<selector, callfs, firstfile, nextintr, nextf, tf>>

(* callselector returns with the file it has read.                         *)
Undelivered == UNCHANGED nextf                                    \* mutant
Deliver == nextf' = tf

ReturnFile(file) ==
  /\ nextintr' = file /\ Deliver /\ tf' = NoFile
  /\ \/ /\ call.from = "main"
        /\ pc' = "consume" /\ callfs' = (callfs \/ ret)
        /\ UNCHANGED <<stop, firstfile>>
     \/ /\ call.from # "main"
        /\ pc' = "main" /\ stop' = "auto" /\ firstfile' = FALSE
        /\ UNCHANGED callfs
  /\ UNCHANGED selector

(* The top of callselector's loop: the user is asked, or not.              *)
Ask ==
  /\ pc = "select"
  /\ IF (call.callfs /\ ~FilesLeft) \/ call.force
       THEN pc' = "browse" /\ isnextplay' = "none"
       ELSE pc' = "fetch" /\ UNCHANGED isnextplay
  /\ UNCHANGED <<playlist, pos, nextplay, options, selector, flags, interfaces, handles>>
-----------------------------------------------------------------------------
(* fsFileSelect.  With fsPlaylistOnly it returns at once, as after ESC.    *)
Browsing == pc = "browse" /\ ~fsPlaylistOnly

Escape ==
  /\ pc = "browse" /\ pc' = "fetch" /\ ret' = FALSE
  /\ UNCHANGED <<list, options, call, flags, interfaces, handles>>

Choose ==
  /\ Browsing /\ pc' = "fetch" /\ ret' = TRUE
  /\ \/ /\ isnextplay' = "browser" /\ nextplay' \in Files
     \/ /\ isnextplay' = "playlist" /\ playlist # <<>> /\ UNCHANGED nextplay
  /\ UNCHANGED <<playlist, pos, options, call, flags, interfaces, handles>>

(* A directory to append does not read (an archive in it is broken), or    *)
(* the cache of module information refuses: -1, which callselector takes   *)
(* for a choice, unless there is nothing to play at all.                   *)
Fails ==
  /\ Browsing /\ pc' = "fetch" /\ ret' = FilesLeft
  /\ UNCHANGED <<list, options, call, flags, interfaces, handles>>

(* The list is edited: a file appended, the one under the cursor or one of *)
(* the directory removed, all removed, or the cursor moved.                *)
EditList ==
  /\ Browsing
  /\ \/ /\ Len(playlist) < MaxList
        /\ \E file \in Files : playlist' = Append(playlist, file)
        /\ UNCHANGED pos
     \/ \E i \in DOMAIN playlist : modlist_remove(i - 1)
     \/ playlist' = <<>> /\ pos' = 0
     \/ playlist # <<>> /\ pos' \in 0 .. Len(playlist) - 1 /\ UNCHANGED playlist
  /\ UNCHANGED <<isnextplay, nextplay, options, pc, selector, flags, interfaces, handles>>

fsSetup ==
  /\ Browsing
  /\ fsListRemove' \in BOOLEAN /\ fsListScramble' \in BOOLEAN
  /\ UNCHANGED <<list, fsPlaylistOnly, pc, selector, flags, interfaces, handles>>
-----------------------------------------------------------------------------
(* fsGetNextFile, fsGetPrevFile: which entry, and what becomes of the list *)
(* whether the file opens or not.                                          *)
SkipsLast(index) == IF index + 2 >= Len(playlist) THEN 0 ELSE index + 1 \* mutant
After(index) == IF index + 1 >= Len(playlist) THEN 0 ELSE index + 1
Before(index) == IF index = 0 THEN Len(playlist) - 1 ELSE index - 1

Stuck(index) == UNCHANGED <<playlist, pos>>                       \* mutant
Consumed(index) ==
  IF fsListRemove
    THEN modlist_remove(index)
    ELSE /\ pos' = IF fsListScramble THEN index ELSE After(index)
         /\ UNCHANGED playlist

TakeChosen(file) ==
  /\ isnextplay = "browser" /\ file = nextplay
  /\ UNCHANGED <<playlist, pos>>

TakeNext(file) ==
  /\ \/ isnextplay = "playlist"
     \/ isnextplay = "none" /\ (call.next # "prev" \/ fsListScramble)
  /\ \E index \in 0 .. Len(playlist) - 1 :
       /\ isnextplay = "playlist" \/ ~fsListScramble => index = pos
       /\ file = playlist[index + 1]
       /\ Consumed(index)

TakePrev(file) ==
  /\ isnextplay = "none" /\ call.next = "prev" /\ ~fsListScramble
  /\ LET index == Before(Before(pos))
     IN  /\ file = playlist[index + 1]
         /\ IF fsListRemove
              THEN /\ playlist' = RemoveAt(playlist, index + 1)
                   /\ pos' = Clamped(Before(pos), Len(playlist) - 1)
              ELSE pos' = Before(pos) /\ UNCHANGED playlist

(* One turn of callselector's inner loop: a file that does not open is     *)
(* passed over; one without an interface is closed and removed.            *)
Wanted == FilesLeft /\ (ret \/ call.next # "no")

Fetch(file) ==
  /\ pc = "fetch" /\ Wanted
  /\ TakeChosen(file) \/ TakeNext(file) \/ TakePrev(file)
  /\ isnextplay' = "none"
  /\ IF file \in Unreadable
       THEN UNCHANGED <<pc, tf, open>>
       ELSE /\ pc' = "handle" /\ tf' = HandleOf(file)
            /\ open' = open + Closed(HandleOf(file))
  /\ nextplay' = file
  /\ UNCHANGED <<options, selector, flags, interfaces, nextf, thisf>>

Unclosed == UNCHANGED open                                        \* mutant
Reject == open' = open - Closed(tf)

Handle ==
  /\ pc = "handle"
  /\ IF nextplay \in NoInterface
       THEN /\ Reject /\ tf' = NoFile
            /\ fsForceRemove(nextplay)
            /\ pc' = "fetch"
            /\ UNCHANGED <<selector, flags, nextintr, nextf>>
       ELSE /\ ReturnFile(nextplay)
            /\ UNCHANGED <<playlist, pos, open>>
  /\ UNCHANGED <<isnextplay, nextplay, options, plintr, inits, thisf>>

(* Nothing more to fetch: the user who chose is asked again, or            *)
(* callselector returns 0.                                                 *)
GiveUp ==
  /\ pc = "fetch" /\ ~Wanted
  /\ IF ret THEN /\ pc' = "select" /\ ret' = FALSE
                 /\ UNCHANGED <<call, flags, nextintr, nextf, tf>>
            ELSE ReturnNone
  /\ UNCHANGED <<list, options, plintr, inits, thisf, open>>
-----------------------------------------------------------------------------
(* The rest of _fsMain's loop: a file that was chosen replaces the one     *)
(* that plays, and its interface takes it or not.                          *)
Replace ==
  inits' = inits - Closed(plintr) + (IF nextintr \in NoInit THEN 0 ELSE 1)

Consume ==
  /\ pc = "consume"
  /\ firstfile' = (firstfile /\ ~callfs)
  /\ \/ /\ nextintr = NoFile
        /\ stop' = "continue" /\ pc' = IF plintr = NoFile THEN "main" ELSE "run"
        /\ UNCHANGED <<interfaces, thisf, nextf, open>>
     \/ /\ nextintr # NoFile
        /\ open' = open - Closed(thisf)
        /\ thisf' = nextf /\ nextf' = NoFile /\ nextintr' = NoFile
        /\ Replace
        /\ IF nextintr \in NoInit
             THEN plintr' = NoFile /\ stop' = "callfs" /\ pc' = "main"
             ELSE plintr' = nextintr /\ stop' = "continue" /\ pc' = "run"
  /\ UNCHANGED <<list, options, selector, callfs, tf>>

(* plintr->Run returns: the song ended, or a key.                          *)
SongEnds ==
  /\ pc = "run"
  /\ Call(TRUE, FALSE, "no", "auto")
  /\ stop' = "auto"
  /\ UNCHANGED <<list, options, callfs, firstfile, plintr, inits, thisf, open>>

KeyNext(next) ==
  /\ pc = "run" /\ next \in {"next", "prev"}
  /\ Call(~FilesLeft, FALSE, IF FilesLeft THEN next ELSE "no", "user")
  /\ UNCHANGED <<list, options, flags, plintr, inits, thisf, open>>

KeyCallFs ==
  /\ pc = "run"
  /\ Call(TRUE, TRUE, "no", "user")
  /\ UNCHANGED <<list, options, flags, plintr, inits, thisf, open>>

(* Quit, or a shell that the console does not allow: the inner loop ends.  *)
KeyLeave ==
  /\ pc = "run" /\ pc' = "main"
  /\ stop' \in {"quit", "shell"} /\ firstfile' = FALSE
  /\ UNCHANGED <<list, options, selector, callfs, interfaces, handles>>

Quit ==
  /\ pc = "quit" /\ pc' = "done"
  /\ inits' = inits - Closed(plintr) /\ plintr' = NoFile
  /\ open' = open - Closed(thisf) /\ thisf' = NoFile
  /\ UNCHANGED <<list, options, selector, flags, nextintr, tf, nextf>>

Done == pc = "done" /\ UNCHANGED vars
-----------------------------------------------------------------------------
Init ==
  /\ playlist \in SeqOf(Files, MaxList) /\ pos = 0
  /\ isnextplay = "none" /\ nextplay = NoFile
  /\ fsListRemove \in BOOLEAN /\ fsListScramble \in BOOLEAN /\ fsPlaylistOnly \in BOOLEAN
  /\ pc = "main" /\ ret = FALSE
  /\ call = [callfs |-> FALSE, force |-> FALSE, next |-> "no", from |-> "main"]
  /\ stop = "continue" /\ callfs = FALSE /\ firstfile = TRUE
  /\ plintr = NoFile /\ nextintr = NoFile
  /\ tf = NoFile /\ nextf = NoFile /\ thisf = NoFile
  /\ open = 0 /\ inits = 0

Loop ==
  Main \/ Ask \/ (\E file \in Files : Fetch(file)) \/ Handle \/ GiveUp \/ Consume \/ Quit

Next ==
  \/ Loop
  \/ Escape \/ Choose \/ Fails \/ EditList \/ fsSetup
  \/ SongEnds \/ (\E next \in {"next", "prev"} : KeyNext(next)) \/ KeyCallFs \/ KeyLeave
  \/ Done

Spec == Init /\ [][Next]_vars

(* The loop runs on; a song comes to its end (fsLoopMods is off); without  *)
(* a file selector its escape is not the user's.                           *)
FairSpec ==
  Spec /\ WF_vars(Loop) /\ WF_vars(SongEnds) /\ WF_vars(fsPlaylistOnly /\ Escape)
-----------------------------------------------------------------------------
TypeOK ==
  /\ playlist \in Seq(Files) /\ Len(playlist) <= MaxList
  /\ IF playlist = <<>> THEN pos = 0 ELSE pos \in 0 .. Len(playlist) - 1
  /\ isnextplay \in {"none", "browser", "playlist"} /\ nextplay \in Files \cup {NoFile}
  /\ fsListRemove \in BOOLEAN /\ fsListScramble \in BOOLEAN /\ fsPlaylistOnly \in BOOLEAN
  /\ pc \in {"main", "select", "browse", "fetch", "handle", "consume", "run", "quit", "done"}
  /\ call \in Calls /\ ret \in BOOLEAN
  /\ stop \in {"continue", "auto", "callfs", "shell", "quit"}
  /\ callfs \in BOOLEAN /\ firstfile \in BOOLEAN
  /\ {plintr, nextintr, tf, nextf, thisf} \subseteq Files \cup {NoFile}
  /\ open \in Int /\ inits \in Int

(* Whatever files fail at whatever point, every FILE that is open is held  *)
(* by exactly one of the three variables and every interface that was      *)
(* initialised and not closed is plintr: nothing leaks and nothing is      *)
(* closed twice, and the player leaves with all of them closed.            *)
NothingLeaks ==
  /\ open = Closed(tf) + Closed(nextf) + Closed(thisf)
  /\ inits = Closed(plintr)
  /\ pc = "done" => open = 0 /\ inits = 0

(* The interface that runs was given the file that was chosen for it.      *)
RunsItsFile ==
  /\ pc = "run" => plintr \in Files \ NoInit /\ thisf = HandleOf(plintr)
  /\ pc = "consume" /\ nextintr # NoFile => nextf = HandleOf(nextintr)

(* Files that are passed over without the user being asked.                *)
Passed == IF fsPlaylistOnly THEN Unreadable \cup NoInit ELSE Unreadable

Endless ==
  /\ ~fsListRemove /\ playlist # <<>>
  /\ IF fsListScramble THEN ToSet(playlist) \cap Passed # {}
                       ELSE ToSet(playlist) \subseteq Passed

(* The loop comes back to the user, again and again, but for a list from   *)
(* which nothing is removed and nothing (or, in random order, not every    *)
(* file) opens: that one callselector goes round for ever.                 *)
Answers == pc = "run" \/ pc = "done" \/ Browsing
ComesBack == []<>Answers \/ <>[]Endless

(* A user who keeps off hears every file of the list, over and over.       *)
HandsOff(file) ==
  /\ call.from # "user" /\ stop # "shell" /\ ~Browsing /\ pc # "done"
  /\ ~fsListRemove /\ ~fsListScramble /\ file \in ToSet(playlist)

EveryFilePlayed ==
  \A file \in Files \ (Unreadable \cup NoInterface \cup NoInit) :
    <>[]HandsOff(file) => []<>(plintr = file)
=============================================================================
