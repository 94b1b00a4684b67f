------------------------------- MODULE DevDisk -------------------------------
(***************************************************************************)
(* The disk writer (devp/devpdisk.c), a player device whose buffer is      *)
(* copied into a cache by advance() and written to a .WAV file by Flush(), *)
(* together with what drives it (see DevOss: the fillers, plrIdle, SIGALRM *)
(* handlers that nest).  Its busy is a flag, not a counter.  One unit is   *)
(* one sample frame, and frames are numbered in the order in which they    *)
(* are mixed.                                                              *)
(***************************************************************************)
EXTENDS Integers, Sequences

CONSTANTS
  BufLen,       \* buflen
  CacheLen,     \* cachelen, which is at least len+1024 bytes
  Levels,       \* how deep SIGALRM handlers nest; 0: DISABLE_SIGALRM
  IoErrors,     \* TRUE: write() may fail or come short
  MaxFrames     \* a bound: frames mixed for one file

ASSUME LengthsAssumption ==
  {BufLen, CacheLen, MaxFrames} \subseteq Nat \ {0} /\ 1 < BufLen /\ BufLen < CacheLen
ASSUME LevelsAssumption == Levels \in Nat /\ IoErrors \in BOOLEAN

BufRate == BufLen \div 2
Ctx == 0..Levels
Main == 0

VARIABLES
  open, bufpos, cachepos, filepos, busy, writeerr,
  cells,        \* playbuf
  diskcache,
  file,         \* the frames in the file
  next,         \* frames mixed so far
  failed,       \* history: a write failed or came short
  clipbusy, pc, loc

device == <<bufpos, cachepos, filepos, busy, writeerr, diskcache, file, failed>>
vars == <<open, device, cells, next, clipbusy, pc, loc>>

NoLocals == [n |-> 0, pos |-> 0, release |-> FALSE]
Runs(c) == \A d \in Ctx : d > c => pc[d] = "idle"
MayStart(c) ==
  /\ open /\ pc[c] = "idle" /\ Runs(c)
  /\ c > 1 => pc[c - 1] # "idle"
At(c, step) == pc[c] = step /\ Runs(c)
Goto(c, step) == pc' = [pc EXCEPT ![c] = step]

Cached(n) == [i \in 1..n |-> diskcache[i - 1]]
-----------------------------------------------------------------------------
Init ==
  /\ open = FALSE
  /\ bufpos = 0 /\ cachepos = 0 /\ filepos = 0 /\ busy = 0 /\ writeerr = 0
  /\ cells = [i \in 0..BufLen-1 |-> 0] /\ diskcache = [i \in 0..CacheLen-1 |-> 0]
  /\ file = <<>> /\ next = 0 /\ failed = FALSE
  /\ clipbusy = 0 /\ pc = [c \in Ctx |-> "idle"] /\ loc = [c \in Ctx |-> NoLocals]

Idle == \A c \in Ctx : pc[c] = "idle"

DwPlay ==
  /\ ~open /\ Idle
  /\ open' = TRUE
  /\ bufpos' = 0 /\ cachepos' = 0 /\ filepos' = 0 /\ busy' = 0 /\ writeerr' = 0
  /\ file' = <<>> /\ next' = 0 /\ failed' = FALSE
  /\ UNCHANGED <<cells, diskcache, clipbusy, pc, loc>>

(* dwStop: what the cache still holds is written unless a write has failed.*)
StopDropsCache == 0                                               \* mutant
StopWrites == IF writeerr = 0 THEN cachepos ELSE 0

DwStop ==
  /\ open /\ Idle
  /\ open' = FALSE
  /\ \E n \in IF IoErrors THEN 0..StopWrites ELSE {StopWrites} :
       /\ file' = file \o Cached(n)
       /\ failed' = (failed \/ n < StopWrites)
  /\ UNCHANGED <<bufpos, cachepos, filepos, busy, writeerr, diskcache, cells, next,
                 clipbusy, pc, loc>>

(* getpos: nothing while busy is set or when the cache might run over.     *)
NoRoom == busy # 0 \/ cachepos + BufRate > CacheLen
GetPos == IF NoRoom THEN bufpos ELSE (bufpos + BufRate) % BufLen

(* Where a filler that mixed d frames ends.                                *)
EndOfMixNoWrap(d) == bufpos + d                                   \* mutant
EndOfMix(d) == (bufpos + d) % BufLen
-----------------------------------------------------------------------------
(* A filler: with no space it goes to plrIdle, otherwise it mixes some     *)
(* frames behind bufpos and calls advance().                               *)
TimerProc(c) ==
  /\ MayStart(c) /\ clipbusy = 0
  /\ \/ /\ GetPos = bufpos
        /\ Goto(c, "flush")
        /\ UNCHANGED <<cells, next, clipbusy, loc>>
     \/ /\ GetPos # bufpos
        /\ \E d \in 1..BufRate :
             /\ next + d <= MaxFrames
             /\ cells' = [i \in 0..BufLen-1 |->
                            LET k == (i - bufpos) % BufLen IN
                            IF k < d THEN next + k ELSE cells[i]]
             /\ next' = next + d
             /\ loc' = [loc EXCEPT ![c] = [n |-> d, pos |-> EndOfMix(d), release |-> FALSE]]
        /\ clipbusy' = 1
        /\ Goto(c, "advance")
  /\ UNCHANGED <<open, device>>

Advance(c) ==
  /\ At(c, "advance")
  /\ busy' = 1
  /\ Goto(c, "copy")
  /\ UNCHANGED <<open, bufpos, cachepos, filepos, writeerr, diskcache, file, failed,
                 cells, next, clipbusy, loc>>

AdvanceCopy(c) ==
  /\ At(c, "copy")
  /\ diskcache' = [i \in 0..CacheLen-1 |->
                     IF i \in cachepos..cachepos + loc[c].n - 1
                       THEN cells[(bufpos + i - cachepos) % BufLen] ELSE diskcache[i]]
  /\ Goto(c, "cachepos")
  /\ UNCHANGED <<open, bufpos, cachepos, filepos, busy, writeerr, file, failed,
                 cells, next, clipbusy, loc>>

AdvanceCachePos(c) ==
  /\ At(c, "cachepos")
  /\ cachepos' = cachepos + loc[c].n
  /\ Goto(c, "bufpos")
  /\ UNCHANGED <<open, bufpos, filepos, busy, writeerr, diskcache, file, failed,
                 cells, next, clipbusy, loc>>

(* Its end, and on to plrIdle, with clipbusy (playwav) or without it       *)
(* (devwmix).                                                              *)
AdvanceDone(c) ==
  /\ At(c, "bufpos")
  /\ bufpos' = loc[c].pos
  /\ busy' = 0
  /\ \E release \in BOOLEAN :
       /\ loc' = [loc EXCEPT ![c] = [NoLocals EXCEPT !.release = release]]
       /\ clipbusy' = IF release THEN clipbusy ELSE 0
  /\ Goto(c, "flush")
  /\ UNCHANGED <<open, cachepos, filepos, writeerr, diskcache, file, failed, cells, next>>

(* plrIdle on its own: from wavLooped and its siblings, and from a handler *)
(* of devwmix that finds clipbusy set.                                     *)
CallIdle(c) ==
  /\ MayStart(c)
  /\ Goto(c, "flush")
  /\ UNCHANGED <<open, device, cells, next, clipbusy, loc>>
-----------------------------------------------------------------------------
(* Flush *)
HalfFullOnlyBrimful == cachepos = CacheLen                        \* mutant
HalfFull == cachepos > CacheLen \div 2

FlushEnter(c) ==
  /\ At(c, "flush")
  /\ busy' = 1
  /\ Goto(c, IF ~HalfFull THEN "done" ELSE IF writeerr = 0 THEN "write" ELSE "filepos")
  /\ UNCHANGED <<open, bufpos, cachepos, filepos, writeerr, diskcache, file, failed,
                 cells, next, clipbusy, loc>>

FlushWrite(c) ==
  /\ At(c, "write")
  /\ \/ /\ file' = file \o Cached(cachepos)
        /\ UNCHANGED <<writeerr, failed>>
     \/ /\ IoErrors
        /\ \E n \in 0..cachepos-1 : file' = file \o Cached(n)
        /\ writeerr' = 1 /\ failed' = TRUE
  /\ Goto(c, "filepos")
  /\ UNCHANGED <<open, bufpos, cachepos, filepos, busy, diskcache, cells, next,
                 clipbusy, loc>>

FlushFilePos(c) ==
  /\ At(c, "filepos")
  /\ filepos' = filepos + cachepos
  /\ Goto(c, "reset")
  /\ UNCHANGED <<open, bufpos, cachepos, busy, writeerr, diskcache, file, failed,
                 cells, next, clipbusy, loc>>

ResetKeepsCache == cachepos' = cachepos                           \* mutant
ResetCache == cachepos' = 0

FlushReset(c) ==
  /\ At(c, "reset")
  /\ ResetCache
  /\ Goto(c, "done")
  /\ UNCHANGED <<open, bufpos, filepos, busy, writeerr, diskcache, file, failed,
                 cells, next, clipbusy, loc>>

FlushDone(c) ==
  /\ At(c, "done")
  /\ busy' = 0
  /\ Goto(c, "idle")
  /\ clipbusy' = IF loc[c].release THEN 0 ELSE clipbusy
  /\ loc' = [loc EXCEPT ![c] = NoLocals]
  /\ UNCHANGED <<open, bufpos, cachepos, filepos, writeerr, diskcache, file, failed,
                 cells, next>>
-----------------------------------------------------------------------------
Goes(c) ==
  \/ Advance(c) \/ AdvanceCopy(c) \/ AdvanceCachePos(c) \/ AdvanceDone(c)
  \/ FlushEnter(c) \/ FlushWrite(c) \/ FlushFilePos(c) \/ FlushReset(c) \/ FlushDone(c)

Next ==
  \/ DwPlay \/ DwStop
  \/ \E c \in Ctx : TimerProc(c) \/ CallIdle(c) \/ Goes(c)

Spec == Init /\ [][Next]_vars

(* The main loop comes back to plrIdle for ever, and every routine ends.   *)
FairSpec ==
  /\ Spec
  /\ \A c \in Ctx : WF_vars(Goes(c))
  /\ SF_vars(CallIdle(Main))
-----------------------------------------------------------------------------
(* The variables keep to their types; the cache never runs over, so that   *)
(* advance() never ends the program.                                       *)
TypeOK ==
  /\ {open, failed} \subseteq BOOLEAN
  /\ {busy, writeerr, clipbusy} \subseteq 0..1
  /\ bufpos \in 0..BufLen-1 /\ cachepos \in 0..CacheLen /\ filepos \in 0..MaxFrames
  /\ cells \in [0..BufLen-1 -> Nat] /\ diskcache \in [0..CacheLen-1 -> Nat]
  /\ file \in Seq(Nat) /\ next \in 0..MaxFrames
  /\ \A c \in Ctx : loc[c].n \in 0..BufRate /\ loc[c].pos \in 0..BufLen-1

(* The file is a beginning of what was mixed: no frame is left out, none   *)
(* is written twice.                                                       *)
WritesInOrder == \A i \in 1..Len(file) : file[i] = i - 1

(* A file that is closed holds everything that was mixed, unless a write   *)
(* failed.                                                                 *)
WritesAll == [][open /\ ~open' => failed' \/ Len(file') = next]_vars

(* plrGetTimer counts the frames that were mixed, whether or not they      *)
(* could be written.                                                       *)
ClockCounts == Idle => filepos + cachepos = next

(* The device never refuses frames for ever.                               *)
Takes == []<>(~open \/ ~NoRoom)
=============================================================================
