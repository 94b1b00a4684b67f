------------------------------- MODULE WavPlay -------------------------------
(***************************************************************************)
(* The wave player (playwav/wavplay.c) and the calls its interface makes   *)
(* (wavpplay.c).  A ring of wavebuflen frames is filled from the file by   *)
(* wpIdle and emptied by timerproc, which mixes into the device's buffer.  *)
(* timerproc is run by SIGALRM handlers in the normal build and by the     *)
(* main program in the build with DISABLE_SIGALRM; it is guarded by        *)
(* clipbusy, the rest of wpIdle and wpSetPos are not.                      *)
(*                                                                         *)
(* One unit is one frame of a mono 8 bit file played at its own rate.  A   *)
(* frame is its position in the file.  The device takes frames as long as  *)
(* its queue is shorter than its buffer by more than one (see PlayRing).   *)
(***************************************************************************)
EXTENDS Integers, Sequences

CONSTANTS
  WaveLen,    \* wavelen
  RingMax,    \* the ring a long file gets (1024*1024)
  ReadMax,    \* the most fread is asked for at a time (0x10000)
  BufLen,     \* buflen, of the device
  Sigalrm,    \* TRUE: handlers run timerproc; FALSE: DISABLE_SIGALRM
  IoErrors    \* TRUE: fread may fail or come short

ASSUME LengthsAssumption ==
  {WaveLen, ReadMax} \subseteq Nat \ {0} /\ {RingMax, BufLen} \subseteq Nat \ {0, 1}
ASSUME FlagsAssumption == {Sigalrm, IoErrors} \subseteq BOOLEAN

Least(a, b) == IF a < b THEN a ELSE b

WaveBufLen == Least(WaveLen, RingMax)
Streamed == WaveLen # WaveBufLen   \* the file does not fit into the ring
Far == WaveLen + RingMax + BufLen  \* 0x40000000 and what wraps below zero
Quiet == WaveLen                   \* a silent frame
Main == 0
Ctx == IF Sigalrm THEN {Main, 1} ELSE {Main}

VARIABLES
  wavepos, wavebufpos, wavebufread, bufloopat,
  cells,                           \* wavebuf
  looped, donotloop, pause, active,
  fsLoopMods,                      \* the user's choice, in pfilesel.c
  clipbusy,
  polling,                         \* pollInit .. pollClose
  fpos,                            \* where the FILE is
  queued,                          \* frames the device has not played yet
  mixed,                           \* the frames it was given in this step
  ended,                           \* history: the last frame has been mixed
  valid,                           \* history: frames read since a far seek
  pc, loc

ring == <<wavepos, wavebufpos, wavebufread, bufloopat, cells, fpos, valid>>
flags == <<looped, donotloop, pause, active, fsLoopMods, polling>>
vars == <<ring, flags, clipbusy, queued, mixed, ended, pc, loc>>

NoLocals == [space |-> 0, clean |-> 0, read |-> 0, back |-> "idle", next |-> "idle"]

Runs(c) == \A d \in Ctx : d > c => pc[d] = "idle"
Goto(c, step) == pc' = [pc EXCEPT ![c] = step]
Space == BufLen - 1 - queued       \* (buflen+plrGetBufPos()-bufpos)%buflen
-----------------------------------------------------------------------------
Init ==
  /\ wavepos = 0 /\ wavebufpos = 0 /\ wavebufread = 0 /\ bufloopat = Far
  /\ cells = [i \in 0..WaveBufLen-1 |-> 0]
  /\ fpos = 0 /\ valid = 0
  /\ looped = FALSE /\ donotloop = FALSE /\ pause = FALSE /\ active = FALSE
  /\ fsLoopMods = TRUE /\ polling = FALSE /\ clipbusy = 0
  /\ queued = 0 /\ mixed = <<>> /\ ended = FALSE
  /\ pc = [c \in Ctx |-> "idle"] /\ loc = [c \in Ctx |-> NoLocals]

(* wpOpenPlayer: the ring is read full, then pollInit, then active=1.      *)
OpenPlayer ==
  /\ ~polling /\ pc[Main] = "idle"
  /\ wavepos' = WaveBufLen /\ wavebufpos' = 0 /\ wavebufread' = 0
  /\ bufloopat' = IF RingMax > WaveLen THEN WaveBufLen ELSE Far
  /\ cells' = [i \in 0..WaveBufLen-1 |-> i]
  /\ fpos' = WaveBufLen /\ valid' = WaveBufLen
  /\ looped' = FALSE /\ pause' = FALSE /\ polling' = TRUE
  /\ queued' = 0 /\ ended' = FALSE
  /\ Goto(Main, "opened")
  /\ UNCHANGED <<donotloop, active, fsLoopMods, clipbusy, loc>>

Activate ==
  /\ pc[Main] = "opened" /\ Runs(Main)
  /\ active' = TRUE
  /\ Goto(Main, "idle")
  /\ UNCHANGED <<ring, looped, donotloop, pause, fsLoopMods, polling, clipbusy,
                 queued, ended, loc>>

(* wpClosePlayer: active=0, then pollClose and plrClosePlayer.             *)
ClosePlayer ==
  /\ pc[Main] \in {"idle", "next"} /\ active /\ Runs(Main)
  /\ active' = FALSE
  /\ Goto(Main, "closing")
  /\ UNCHANGED <<ring, looped, donotloop, pause, fsLoopMods, polling, clipbusy,
                 queued, ended, loc>>

PollClose ==
  /\ pc[Main] = "closing" /\ Runs(Main)
  /\ polling' = FALSE /\ queued' = 0
  /\ Goto(Main, "idle")
  /\ UNCHANGED <<ring, looped, donotloop, pause, active, fsLoopMods, clipbusy,
                 ended, loc>>
-----------------------------------------------------------------------------
(* timerproc, up to the call of wpIdle.  Refused, or with no space, it     *)
(* changes nothing here.                                                   *)
Unguarded == TRUE                                                 \* mutant
Guard == clipbusy = 0

BeginTimerProc(c, next) ==
  /\ Guard /\ Space > 0
  /\ clipbusy' = clipbusy + 1
  /\ Goto(c, "fill")
  /\ loc' = [loc EXCEPT ![c] = [NoLocals EXCEPT !.space = Space, !.back = "mix",
                                                !.next = next]]

(* A handler, or framelock() in the build without handlers.                *)
TimerProc(c) ==
  /\ polling /\ pc[c] = "idle" /\ Runs(c)
  /\ Sigalrm <=> c # Main
  /\ BeginTimerProc(c, "idle")
  /\ UNCHANGED <<ring, flags, queued, ended>>

(* wavLooped, which the interface calls once for every frame it draws:     *)
(* wpSetLoop, wpIdle, and on to the next file when the answer is yes.      *)
WavLooped ==
  /\ active /\ pc[Main] = "idle" /\ Runs(Main)
  /\ donotloop' = ~fsLoopMods
  /\ Goto(Main, "wpIdle")
  /\ UNCHANGED <<ring, looped, pause, active, fsLoopMods, polling, clipbusy, queued,
                 ended, loc>>

WpIdle ==
  /\ pc[Main] = "wpIdle" /\ Runs(Main)
  /\ \/ /\ Space > BufLen \div 8
        /\ BeginTimerProc(Main, "fill")
     \/ /\ ~(Space > BufLen \div 8 /\ Guard)
        /\ Goto(Main, "fill")
        /\ loc' = [loc EXCEPT ![Main] = [NoLocals EXCEPT !.back = "looped?"]]
        /\ UNCHANGED clipbusy
  /\ UNCHANGED <<ring, flags, queued, ended>>

IsEnd ==
  /\ pc[Main] = "looped?" /\ Runs(Main)
  /\ Goto(Main, IF ~fsLoopMods /\ looped THEN "next" ELSE "idle")
  /\ loc' = [loc EXCEPT ![Main] = NoLocals]
  /\ UNCHANGED <<ring, flags, clipbusy, queued, ended>>
-----------------------------------------------------------------------------
(* The rest of wpIdle.                                                     *)
Clean == (wavebufpos + WaveBufLen - wavebufread) % WaveBufLen

Fill(c) ==
  /\ pc[c] = "fill" /\ Runs(c)
  /\ LET wanted == Streamed /\ active /\ Clean * 8 > WaveBufLen IN
       /\ Goto(c, IF wanted THEN "fseek" ELSE loc[c].back)
       /\ loc' = [loc EXCEPT ![c].clean = IF wanted THEN Clean ELSE 0]
  /\ UNCHANGED <<ring, flags, clipbusy, queued, ended>>

FillSeek(c) ==
  /\ pc[c] = "fseek" /\ Runs(c)
  /\ fpos' = wavepos
  /\ Goto(c, "size")
  /\ UNCHANGED <<wavepos, wavebufpos, wavebufread, bufloopat, cells, valid, flags,
                 clipbusy, queued, ended, loc>>

(* A read ends at the end of the ring and at the end of the file.          *)
ToRingEndAny(n) == n                                              \* mutant
ToRingEnd(n) == Least(n, WaveBufLen - wavebufread)

FillSize(c) ==
  /\ pc[c] = "size" /\ Runs(c)
  /\ LET n == ToRingEnd(loc[c].clean)
         last == wavepos + n >= WaveLen
         read == IF last THEN WaveLen - wavepos ELSE n
     IN /\ bufloopat' = IF last THEN wavebufread + read ELSE bufloopat
        /\ loc' = [loc EXCEPT ![c].read = Least(read, ReadMax)]
  /\ Goto(c, "fread")
  /\ UNCHANGED <<wavepos, wavebufpos, wavebufread, cells, fpos, valid, flags,
                 clipbusy, queued, ended>>

FillRead(c) ==
  /\ pc[c] = "fread" /\ Runs(c)
  /\ \E result \in IF IoErrors THEN 0..loc[c].read ELSE {loc[c].read} :
       /\ cells' = [i \in 0..WaveBufLen-1 |->
                      IF i \in wavebufread..(wavebufread + result - 1)
                        THEN (fpos + i - wavebufread) % WaveLen ELSE cells[i]]
       /\ fpos' = fpos + result
       /\ loc' = [loc EXCEPT ![c].read = result,
                             ![c].clean = IF result = 0 THEN 0 ELSE @]
       /\ Goto(c, IF result = 0 THEN loc[c].back ELSE "wavebufread")
  /\ UNCHANGED <<wavepos, wavebufpos, wavebufread, bufloopat, valid, flags,
                 clipbusy, queued, ended>>

FillBufRead(c) ==
  /\ pc[c] = "wavebufread" /\ Runs(c)
  /\ wavebufread' = (wavebufread + loc[c].read) % WaveBufLen
  /\ Goto(c, "wavepos")
  /\ UNCHANGED <<wavepos, wavebufpos, bufloopat, cells, fpos, valid, flags,
                 clipbusy, queued, ended, loc>>

FillPos(c) ==
  /\ pc[c] = "wavepos" /\ Runs(c)
  /\ wavepos' = (wavepos + loc[c].read) % WaveLen
  /\ valid' = Least(valid + loc[c].read, WaveBufLen)
  /\ LET left == loc[c].clean - loc[c].read IN
       /\ loc' = [loc EXCEPT ![c].clean = left]
       /\ Goto(c, IF left = 0 THEN loc[c].back ELSE "fseek")
  /\ UNCHANGED <<wavebufpos, wavebufread, bufloopat, cells, fpos, flags,
                 clipbusy, queued, ended>>
-----------------------------------------------------------------------------
(* The rest of timerproc, which nothing disturbs while clipbusy is held:   *)
(* what may be mixed ends one frame before wavebufread; a paused player    *)
(* and one that has come to the end of its only turn are silent.           *)
ToWrapOneMore == (WaveBufLen + wavebufread - wavebufpos) % WaveBufLen  \* mutant
ToWrap == (WaveBufLen + wavebufread - wavebufpos - 1) % WaveBufLen

ToLoopUnseen == Far                                               \* mutant
ToLoopEarly == IF looped \/ bufloopat <= wavebufpos THEN 0        \* mutant
                                               ELSE bufloopat - wavebufpos - 1
ToLoop == IF looped THEN 0
          ELSE IF bufloopat < wavebufpos THEN Far ELSE bufloopat - wavebufpos

Mix(c) ==
  /\ pc[c] = "mix" /\ Runs(c)
  /\ LET delta == IF Streamed THEN Least(loc[c].space, ToWrap) ELSE loc[c].space
         paused == IF pause THEN delta ELSE 0
         atend == delta - paused >= ToLoop
         play == IF atend /\ donotloop THEN ToLoop ELSE delta - paused
         frames == [i \in 1..delta |->
                      IF i > play THEN Quiet
                                  ELSE cells[(wavebufpos + i - 1) % WaveBufLen]]
     IN /\ looped' = (looped \/ atend)
        /\ wavebufpos' = (wavebufpos + play) % WaveBufLen
        /\ queued' = queued + delta
        /\ mixed' = frames
        /\ ended' = (ended \/ \E i \in 1..play : frames[i] = WaveLen - 1)
  /\ clipbusy' = clipbusy - 1
  /\ Goto(c, loc[c].next)
  /\ loc' = [loc EXCEPT ![c] = IF loc[c].next = "fill"
                                 THEN [NoLocals EXCEPT !.back = "looped?"]
                                 ELSE NoLocals]
  /\ UNCHANGED <<wavepos, wavebufread, bufloopat, cells, fpos, valid, donotloop,
                 pause, active, fsLoopMods, polling>>
-----------------------------------------------------------------------------
(* wpSetPos: inside what the ring should hold only wavebufpos moves;       *)
(* elsewhere the ring starts again at pos, in three stores.                *)
InRing(pos) == pos + WaveBufLen > wavepos /\ pos < wavepos

SetPosNear ==
  /\ active /\ pc[Main] = "idle" /\ Runs(Main)
  /\ \E pos \in 0..WaveLen-1 :
       /\ Streamed => InRing(pos)
       /\ wavebufpos' = IF Streamed
                          THEN (wavebufread - (wavepos - pos) + WaveBufLen) % WaveBufLen
                          ELSE pos
  /\ UNCHANGED <<wavepos, wavebufread, bufloopat, cells, fpos, valid, flags,
                 clipbusy, queued, ended, pc, loc>>

SetPosFar ==
  /\ active /\ pc[Main] = "idle" /\ Runs(Main)
  /\ Streamed
  /\ \E pos \in 0..WaveLen-1 : ~InRing(pos) /\ wavepos' = pos
  /\ valid' = 0
  /\ Goto(Main, "setpos")
  /\ UNCHANGED <<wavebufpos, wavebufread, bufloopat, cells, fpos, flags,
                 clipbusy, queued, ended, loc>>

SetPosFar2 ==
  /\ pc[Main] = "setpos" /\ Runs(Main)
  /\ wavebufpos' = 0
  /\ Goto(Main, "setpos2")
  /\ UNCHANGED <<wavepos, wavebufread, bufloopat, cells, fpos, valid, flags,
                 clipbusy, queued, ended, loc>>

SetPosFar3 ==
  /\ pc[Main] = "setpos2" /\ Runs(Main)
  /\ wavebufread' = 1
  /\ Goto(Main, "idle")
  /\ UNCHANGED <<wavepos, wavebufpos, bufloopat, cells, fpos, valid, flags,
                 clipbusy, queued, ended, loc>>

(* The keys for pause and for looping.                                     *)
Pause ==
  /\ active /\ pc[Main] = "idle" /\ Runs(Main)
  /\ pause' = ~pause
  /\ UNCHANGED <<ring, looped, donotloop, active, fsLoopMods, polling, clipbusy,
                 queued, ended, pc, loc>>

ToggleLoop ==
  /\ pc[Main] = "idle" /\ Runs(Main)
  /\ fsLoopMods' = ~fsLoopMods
  /\ UNCHANGED <<ring, looped, donotloop, pause, active, polling, clipbusy, queued,
                 ended, pc, loc>>

(* The device plays a frame.                                               *)
Hear ==
  /\ queued > 0
  /\ queued' = queued - 1
  /\ UNCHANGED <<ring, flags, clipbusy, ended, pc, loc>>
-----------------------------------------------------------------------------
FillStep(c) ==
  Fill(c) \/ FillSeek(c) \/ FillSize(c) \/ FillRead(c) \/ FillBufRead(c) \/ FillPos(c)

(* What a context does once it has begun.                                  *)
Goes(c) ==
  \/ Mix(c)
  \/ /\ mixed' = <<>>
     /\ \/ FillStep(c)
        \/ c = Main /\ (\/ Activate \/ PollClose \/ WpIdle \/ IsEnd
                        \/ SetPosFar2 \/ SetPosFar3)

(* What begins something, and what takes one step.                         *)
Begins ==
  /\ mixed' = <<>>
  /\ \/ OpenPlayer \/ ClosePlayer \/ WavLooped
     \/ \E c \in Ctx : TimerProc(c)
     \/ SetPosNear \/ SetPosFar \/ Pause \/ ToggleLoop
     \/ Hear

Next == Begins \/ \E c \in Ctx : Goes(c)

Spec == Init /\ [][Next]_vars

(* The interface keeps drawing, moves on when wavLooped says so, every     *)
(* routine returns and the device plays.                                   *)
FairSpec ==
  /\ Spec
  /\ \A c \in Ctx : SF_vars(Goes(c))
  /\ SF_vars(Begins /\ WavLooped)
  /\ SF_vars(Begins /\ ClosePlayer /\ pc[Main] = "next")
  /\ WF_vars(Begins /\ Hear)
-----------------------------------------------------------------------------
Cells == 0..WaveBufLen-1
Places == {"idle", "opened", "closing", "next", "wpIdle", "looped?", "fill", "fseek",
           "size", "fread", "wavebufread", "wavepos", "mix", "setpos", "setpos2"}

(* Every variable keeps to its type: the cursors stay inside the ring and  *)
(* the file, at most one routine holds clipbusy, no read is asked for more *)
(* than the ring has room for.                                             *)
TypeOK ==
  /\ wavepos \in IF Streamed THEN 0..WaveLen-1 ELSE {0, WaveLen}
  /\ wavebufpos \in Cells /\ wavebufread \in Cells
  /\ bufloopat \in 0..WaveBufLen \cup {Far}
  /\ cells \in [Cells -> 0..WaveLen-1]
  /\ fpos \in 0..WaveLen /\ valid \in 0..WaveBufLen
  /\ {looped, donotloop, pause, active, fsLoopMods, polling, ended} \subseteq BOOLEAN
  /\ clipbusy \in 0..1
  /\ queued \in 0..BufLen-1 /\ mixed \in Seq(0..Quiet)
  /\ pc \in [Ctx -> Places]
  /\ \A c \in Ctx : /\ loc[c].space \in 0..BufLen-1 /\ loc[c].clean \in Cells
                    /\ loc[c].read \in 0..(WaveBufLen - wavebufread) \/ pc[c] # "fread"

(* wpGetPos: the position of the frame at wavebufpos.                      *)
GetPos ==
  IF Streamed
    THEN (wavepos + WaveLen - WaveBufLen
            + ((wavebufpos - wavebufread + WaveBufLen) % WaveBufLen)) % WaveLen
    ELSE wavebufpos

(* While no read is being booked, the valid frames behind wavebufread are  *)
(* those before wavepos in the file.                                       *)
RingHolds ==
  (\A c \in Ctx : pc[c] \notin {"wavebufread", "wavepos", "setpos", "setpos2"}) =>
    \A d \in 1..valid :
      cells[(wavebufread - d) % WaveBufLen] = (wavepos - d) % WaveLen

(* Everything from wavebufpos to wavebufread has been read since the last  *)
(* far seek.                                                               *)
Sound == ((wavebufread - wavebufpos - 1) % WaveBufLen) < valid

(* What is mixed is the file, from the position wpGetPos shows on, frame   *)
(* after frame, with silence only behind it, and the position moves by the *)
(* frames that are not silent.                                             *)
PlaysFile ==
  [][Sound /\ mixed' # <<>> =>
       \E played \in 0..Len(mixed') :
         /\ \A i \in 1..Len(mixed') :
              mixed'[i] = IF i <= played THEN (GetPos + i - 1) % WaveLen ELSE Quiet
         /\ GetPos' = (GetPos + played) % WaveLen]_vars

(* "looped" is said of a file when its last frame has been mixed, neither  *)
(* before nor never: the interface moves on to the next file for no other  *)
(* reason.                                                                 *)
LoopRight == looped <=> ended

(* With looping off a file comes to its end, and the next one is loaded,   *)
(* unless the user seeks, pauses or turns looping on for ever.             *)
Ends ==
  \/ []<><<SetPosNear \/ SetPosFar>>_vars
  \/ []<>pause
  \/ []<>fsLoopMods
  \/ active ~> ~active
=============================================================================
