------------------------------- MODULE DevOss -------------------------------
(***************************************************************************)
(* The OSS player device (devp/devposs.c) together with what drives it:    *)
(* the buffer fillers (timerproc of playwav and its siblings, mixer and    *)
(* timerproc of devwmix: plrGetBufPos, mix, plrAdvanceTo, plrIdle) and the *)
(* direct calls of plrIdle, plrGetPlayPos and plrGetTimer.  The program is *)
(* one thread, but SIGALRM may interrupt it between any two statements,    *)
(* and as the handler is installed with SA_NODEFER it may interrupt itself.*)
(* A context is the nesting depth: 0 is the main program.  One unit is one *)
(* sample frame (the shifts by stereo+bit16 are 0).                        *)
(*                                                                         *)
(*    playbuf     kernpos   cachepos   bufpos                              *)
(*     |             | kernlen | cachelen |                                *)
(***************************************************************************)
EXTENDS Integers, Sequences

CONSTANTS
  BufLen,       \* buflen, in frames
  KernCap,      \* frames the kernel's own queue holds
  Labels,       \* sample numbers; playpos wraps at it as uint32_t at 2^32
  Levels,       \* how deep SIGALRM handlers nest; 0: DISABLE_SIGALRM is set
                \* (configure --with-debug) and the main program polls
  SplitUpdate,  \* TRUE: "cachelen-=result" is a load and a store
  IoErrors      \* TRUE: the ioctls and write() may fail

ASSUME BufLenAssumption == BufLen \in Nat /\ BufLen > 1
ASSUME KernCapAssumption == KernCap \in Nat \ {0}
ASSUME LabelsAssumption == Labels \in Nat /\ Labels > BufLen
ASSUME LevelsAssumption == Levels \in Nat
ASSUME FlagsAssumption == {SplitUpdate, IoErrors} \subseteq BOOLEAN

Ctx == 0..Levels
Main == 0
Silence == Labels                 \* what an unwritten cell holds

VARIABLES
  open,                           \* between plrPlay and plrStop
  kernpos, cachepos, bufpos,      \* indices into playbuf
  cachelen, kernlen,
  playpos,
  busy,                           \* devposs.c's counter
  clipbusy,                       \* the filler's counter
  cells,                          \* playbuf
  next,                           \* number of the next sample to be mixed
  queue,                          \* what the kernel holds and has not played
  clock,                          \* the last answer of gettimer
  pc, loc                         \* where each context is, and its locals

positions == <<kernpos, cachepos, bufpos, cachelen, kernlen, playpos>>
vars == <<open, positions, busy, clipbusy, cells, next, queue, clock, pc, loc>>

NoLocals == [odelay |-> 0, n |-> 0, result |-> 0, tmp |-> 0,
             release |-> FALSE, timer |-> FALSE]

FlushSteps == {"odelay", "kernlen", "kernpos", "cache?", "space", "len",
               "len2", "write", "cachepos", "playpos", "cachelen",
               "cachelen2", "kernlen+"}
QuerySteps == {"getpos", "getpos2"}
Steps == {"idle", "mix", "flush", "timer"} \cup FlushSteps \cup QuerySteps

(* A context may take a step when no handler has interrupted it; a handler *)
(* starts above whatever is at work.                                       *)
Runs(c) == \A d \in Ctx : d > c => pc[d] = "idle"
MayStart(c) ==
  /\ open /\ pc[c] = "idle" /\ Runs(c)
  /\ c > 1 => pc[c - 1] # "idle"

Goto(c, step) == pc' = [pc EXCEPT ![c] = step]
Set(c, field, v) == loc' = [loc EXCEPT ![c][field] = v]

(* (a - b + buflen) % buflen                                               *)
BehindNoWrap(a, b) == a - b                                       \* mutant
Behind(a, b) == (a - b + BufLen) % BufLen
-----------------------------------------------------------------------------
Init ==
  /\ open = FALSE
  /\ kernpos = 0 /\ cachepos = 0 /\ bufpos = 0
  /\ cachelen = 0 /\ kernlen = 0 /\ playpos = 0
  /\ busy = 0 /\ clipbusy = 0
  /\ cells = [i \in 0..BufLen-1 |-> Silence]
  /\ next = 0
  /\ queue = <<>>
  /\ clock = 0
  /\ pc = [c \in Ctx |-> "idle"]
  /\ loc = [c \in Ctx |-> NoLocals]

Idle == \A c \in Ctx : pc[c] = "idle"

(* ossPlay: a fresh, silent buffer and an empty device, if it can be       *)
(* opened.                                                                 *)
OssPlay ==
  /\ ~open /\ Idle
  /\ open' \in IF IoErrors THEN BOOLEAN ELSE {TRUE}
  /\ kernpos' = 0 /\ cachepos' = 0 /\ bufpos' = 0
  /\ cachelen' = 0 /\ kernlen' = 0 /\ playpos' = 0
  /\ cells' = [i \in 0..BufLen-1 |-> Silence]
  /\ next' = 0 /\ clock' = 0
  /\ UNCHANGED <<busy, clipbusy, queue, pc, loc>>

(* ossStop closes the descriptor; the players call pollClose first, so no  *)
(* handler is at work and none will be until the next ossPlay.             *)
OssStop ==
  /\ open /\ Idle
  /\ open' = FALSE
  /\ queue' = <<>>
  /\ UNCHANGED <<positions, busy, clipbusy, cells, next, clock, pc, loc>>

(* getbufpos: the space it reports ends one frame before kernpos.          *)
UnreachableBranch == kernpos = bufpos /\ (cachelen # 0 \/ kernlen # 0)
GetBufPosToCache == (cachepos + BufLen - 1) % BufLen               \* mutant
GetBufPos == IF UnreachableBranch THEN kernpos
                                  ELSE (kernpos + BufLen - 1) % BufLen
-----------------------------------------------------------------------------
(* The filler asks for the space left.  One that finds clipbusy set goes   *)
(* straight to plrIdle (devwmix) or returns (playwav).                     *)
TimerProc(c) ==
  /\ MayStart(c)
  /\ clipbusy = 0
  /\ clipbusy' = 1
  /\ Goto(c, "mix")
  /\ loc' = [loc EXCEPT ![c].n = Behind(GetBufPos, bufpos), ![c].release = TRUE]
  /\ UNCHANGED <<open, positions, busy, cells, next, queue, clock>>

(* Mixing writes d frames behind bufpos; advance() then publishes them,    *)
(* whether or not busy is set.  As it holds busy itself, no flush can come *)
(* between its two assignments.                                            *)
MixAndAdvance(c) ==
  /\ pc[c] = "mix" /\ Runs(c)
  /\ \E d \in 1..loc[c].n :
       /\ cells' = [i \in 0..BufLen-1 |->
                      LET k == Behind(i, bufpos)
                      IN IF k < d THEN (next + k) % Labels ELSE cells[i]]
       /\ next' = (next + d) % Labels
       /\ LET pos == (bufpos + d) % BufLen IN
            /\ cachelen' = cachelen + Behind(pos, bufpos)
            /\ bufpos' = pos
       /\ Set(c, "n", loc[c].n - d)
  /\ UNCHANGED <<open, kernpos, cachepos, kernlen, playpos, busy, clipbusy,
                 queue, clock, pc>>

(* The filler goes on to plrIdle, with clipbusy (playwav) or without it    *)
(* (devwmix).                                                              *)
MixDone(c) ==
  /\ pc[c] = "mix" /\ Runs(c)
  /\ Goto(c, "flush")
  /\ \E release \in BOOLEAN :
       /\ loc' = [loc EXCEPT ![c].n = 0, ![c].release = release]
       /\ clipbusy' = IF release THEN clipbusy ELSE 0
  /\ UNCHANGED <<open, positions, busy, cells, next, queue, clock>>

(* plrIdle called on its own: by wavLooped and its siblings, and by a      *)
(* handler that may not mix because clipbusy is set or the player paused.  *)
CallIdle(c) ==
  /\ MayStart(c)
  /\ Goto(c, "flush")
  /\ UNCHANGED <<open, positions, busy, clipbusy, cells, next, queue, clock, loc>>
-----------------------------------------------------------------------------
(* flush(), one action per access to state a handler may change.           *)

(* Every way out of the routine of c.  playwav's timerproc flushes last    *)
(* and releases clipbusy then.                                             *)
Return(c) ==
  /\ Goto(c, "idle")
  /\ loc' = [loc EXCEPT ![c] = NoLocals]
  /\ clipbusy' = IF loc[c].release THEN 0 ELSE clipbusy

LeaveFlushBusy(c) ==                                              \* mutant
  /\ Return(c)
  /\ UNCHANGED <<open, positions, busy, cells, next, queue, clock>>
LeaveFlush(c) ==
  /\ Return(c)
  /\ busy' = busy - 1
  /\ UNCHANGED <<open, positions, cells, next, queue, clock>>

(* "if (busy++)": somebody is at work on the positions.                    *)
LockedNever == FALSE                                              \* mutant
Locked == busy # 0

FlushEnter(c) ==
  /\ pc[c] = "flush" /\ Runs(c)
  /\ \/ /\ Locked
        /\ Return(c)
        /\ UNCHANGED busy
     \/ /\ ~Locked
        /\ busy' = 1
        /\ Goto(c, "odelay")
        /\ UNCHANGED <<clipbusy, loc>>
  /\ UNCHANGED <<open, positions, cells, next, queue, clock>>

FlushOdelay(c) ==
  /\ pc[c] = "odelay" /\ Runs(c)
  /\ \/ /\ Goto(c, "kernlen")
        /\ Set(c, "odelay", Len(queue))
        /\ UNCHANGED <<open, positions, busy, clipbusy, cells, next, queue, clock>>
     \/ IoErrors /\ LeaveFlush(c)

FlushKernLen(c) ==
  /\ pc[c] = "kernlen" /\ Runs(c)
  /\ kernlen' = IF loc[c].odelay < kernlen THEN loc[c].odelay ELSE kernlen
  /\ Goto(c, IF loc[c].odelay < kernlen THEN "kernpos" ELSE "cache?")
  /\ UNCHANGED <<open, kernpos, cachepos, bufpos, cachelen, playpos,
                 busy, clipbusy, cells, next, queue, clock, loc>>

FlushKernPos(c) ==
  /\ pc[c] = "kernpos" /\ Runs(c)
  /\ kernpos' = Behind(cachepos, kernlen)
  /\ Goto(c, "cache?")
  /\ UNCHANGED <<open, cachepos, bufpos, cachelen, kernlen, playpos,
                 busy, clipbusy, cells, next, queue, clock, loc>>

FlushCache(c) ==
  /\ pc[c] = "cache?" /\ Runs(c)
  /\ \/ cachelen = 0 /\ LeaveFlush(c)
     \/ /\ cachelen # 0
        /\ Goto(c, "space")
        /\ UNCHANGED <<open, positions, busy, clipbusy, cells, next, queue, clock, loc>>

FlushSpace(c) ==
  /\ pc[c] = "space" /\ Runs(c)
  /\ LET space == KernCap - Len(queue) IN
       \/ (space = 0 \/ IoErrors) /\ LeaveFlush(c)
       \/ /\ space # 0
          /\ Goto(c, "len")
          /\ Set(c, "n", space)
          /\ UNCHANGED <<open, positions, busy, clipbusy, cells, next, queue, clock>>

(* bufpos is volatile and read a second time when it lies beyond cachepos. *)
Capped(c, n) == IF n > loc[c].n THEN loc[c].n ELSE n

FlushLen(c) ==
  /\ pc[c] = "len" /\ Runs(c)
  /\ \/ /\ bufpos <= cachepos
        /\ Goto(c, "write")
        /\ Set(c, "n", Capped(c, BufLen - cachepos))
     \/ /\ bufpos > cachepos
        /\ Goto(c, "len2")
        /\ UNCHANGED loc
  /\ UNCHANGED <<open, positions, busy, clipbusy, cells, next, queue, clock>>

FlushLen2(c) ==
  /\ pc[c] = "len2" /\ Runs(c)
  /\ LET n == Capped(c, bufpos - cachepos) IN
       \/ n <= 0 /\ LeaveFlush(c)
       \/ /\ n > 0
          /\ Goto(c, "write")
          /\ Set(c, "n", n)
          /\ UNCHANGED <<open, positions, busy, clipbusy, cells, next, queue, clock>>

(* write() takes a prefix of what it is offered.                           *)
FlushWrite(c) ==
  /\ pc[c] = "write" /\ Runs(c)
  /\ \/ \E result \in 1..loc[c].n :
          /\ queue' = queue \o [i \in 1..result |-> cells[cachepos + i - 1]]
          /\ Set(c, "result", result)
          /\ Goto(c, "cachepos")
          /\ UNCHANGED <<open, positions, busy, clipbusy, cells, next, clock>>
     \/ IoErrors /\ LeaveFlush(c)

FlushCachePos(c) ==
  /\ pc[c] = "cachepos" /\ Runs(c)
  /\ cachepos' = (cachepos + loc[c].result + BufLen) % BufLen
  /\ Goto(c, "playpos")
  /\ UNCHANGED <<open, kernpos, bufpos, cachelen, kernlen, playpos,
                 busy, clipbusy, cells, next, queue, clock, loc>>

FlushPlayPos(c) ==
  /\ pc[c] = "playpos" /\ Runs(c)
  /\ playpos' = (playpos + loc[c].result) % Labels
  /\ Goto(c, "cachelen")
  /\ UNCHANGED <<open, kernpos, cachepos, bufpos, cachelen, kernlen,
                 busy, clipbusy, cells, next, queue, clock, loc>>

(* "cachelen-=result" on a volatile int: one instruction, or a load here   *)
(* and a store in FlushCacheStore.                                         *)
FlushCacheLen(c) ==
  /\ pc[c] = "cachelen" /\ Runs(c)
  /\ \/ /\ ~SplitUpdate
        /\ cachelen' = cachelen - loc[c].result
        /\ Goto(c, "kernlen+")
        /\ UNCHANGED loc
     \/ /\ SplitUpdate
        /\ Set(c, "tmp", cachelen)
        /\ Goto(c, "cachelen2")
        /\ UNCHANGED cachelen
  /\ UNCHANGED <<open, kernpos, cachepos, bufpos, kernlen, playpos,
                 busy, clipbusy, cells, next, queue, clock>>

FlushCacheStore(c) ==
  /\ pc[c] = "cachelen2" /\ Runs(c)
  /\ cachelen' = loc[c].tmp - loc[c].result
  /\ Goto(c, "kernlen+")
  /\ UNCHANGED <<open, kernpos, cachepos, bufpos, kernlen, playpos,
                 busy, clipbusy, cells, next, queue, clock, loc>>

FlushDone(c) ==
  /\ pc[c] = "kernlen+" /\ Runs(c)
  /\ kernlen' = kernlen + loc[c].result
  /\ Return(c)
  /\ busy' = busy - 1
  /\ UNCHANGED <<open, kernpos, cachepos, bufpos, cachelen, playpos,
                 cells, next, queue, clock>>

FlushStep(c) ==
  \/ FlushEnter(c)    \/ FlushOdelay(c)   \/ FlushKernLen(c)
  \/ FlushKernPos(c)  \/ FlushCache(c)    \/ FlushSpace(c)
  \/ FlushLen(c)      \/ FlushLen2(c)     \/ FlushWrite(c)
  \/ FlushCachePos(c) \/ FlushPlayPos(c)  \/ FlushCacheLen(c)
  \/ FlushCacheStore(c) \/ FlushDone(c)
-----------------------------------------------------------------------------
(* getplaypos and gettimer, which only the main program calls: ask the     *)
(* kernel how much is left and move kernpos up.  When the ioctl fails,     *)
(* getplaypos changes nothing and gettimer goes on with kernlen.           *)
Played == (playpos - Len(queue)) % Labels       \* samples heard so far

GetPlayPos ==
  /\ MayStart(Main)
  /\ busy = 0
  /\ busy' = 1
  /\ Set(Main, "odelay", Len(queue))
  /\ Goto(Main, "getpos")
  /\ UNCHANGED <<open, positions, clipbusy, cells, next, queue, clock>>

(* gettimer reads playpos before it takes busy.  (loc.n only remembers     *)
(* what had been heard at this moment.)                                    *)
GetTimer ==
  /\ MayStart(Main)
  /\ loc' = [loc EXCEPT ![Main].tmp = playpos, ![Main].n = Played,
                        ![Main].timer = TRUE]
  /\ Goto(Main, "timer")
  /\ UNCHANGED <<open, positions, busy, clipbusy, cells, next, queue, clock>>

GetTimerDelay ==
  /\ pc[Main] = "timer" /\ Runs(Main)
  /\ busy' = busy + 1
  /\ \/ Set(Main, "odelay", Len(queue))
     \/ IoErrors /\ Set(Main, "odelay", kernlen)
  /\ Goto(Main, "getpos")
  /\ UNCHANGED <<open, positions, clipbusy, cells, next, queue, clock>>

QueryKernLen ==
  /\ pc[Main] = "getpos" /\ Runs(Main)
  /\ kernlen' = IF loc[Main].odelay > kernlen THEN kernlen ELSE loc[Main].odelay
  /\ Goto(Main, "getpos2")
  /\ UNCHANGED <<open, kernpos, cachepos, bufpos, cachelen, playpos, busy,
                 clipbusy, cells, next, queue, clock, loc>>

(* gettimer: tmp-=odelay.                                                  *)
ElapsedWritten == loc[Main].tmp                                   \* mutant
Elapsed == (loc[Main].tmp - kernlen) % Labels

QueryKernPos ==
  /\ pc[Main] = "getpos2" /\ Runs(Main)
  /\ kernpos' = Behind(cachepos, kernlen)
  /\ busy' = busy - 1
  /\ clock' = IF loc[Main].timer THEN Elapsed ELSE clock
  /\ Return(Main)
  /\ UNCHANGED <<open, cachepos, bufpos, cachelen, kernlen, playpos, cells,
                 next, queue>>

(* The sound card plays a sample.                                          *)
DevicePlay ==
  /\ queue # <<>>
  /\ queue' = Tail(queue)
  /\ UNCHANGED <<open, positions, busy, clipbusy, cells, next, clock, pc, loc>>
-----------------------------------------------------------------------------
Work(c) ==
  \/ TimerProc(c) \/ MixAndAdvance(c) \/ MixDone(c) \/ CallIdle(c) \/ FlushStep(c)

Query == GetPlayPos \/ GetTimer \/ GetTimerDelay \/ QueryKernLen \/ QueryKernPos

Next ==
  \/ OssPlay \/ OssStop
  \/ \E c \in Ctx : Work(c)
  \/ Query
  \/ DevicePlay

Spec == Init /\ [][Next]_vars

(* The main loop comes back to plrIdle for ever, every routine runs to its *)
(* end, and the sound card plays what it holds.                            *)
FairSpec ==
  /\ Spec
  /\ \A c \in Ctx : WF_vars(Work(c) /\ pc[c] # "idle")
  /\ WF_vars(Query /\ pc[Main] # "idle")
  /\ SF_vars(CallIdle(Main))
  /\ WF_vars(DevicePlay)
-----------------------------------------------------------------------------
Frames == 0..BufLen-1
AfterWrite == {"cachepos", "playpos", "cachelen", "cachelen2", "kernlen+"}

(* Every variable keeps to its type; neither length goes negative or       *)
(* reaches the size of the buffer.                                         *)
TypeOK ==
  /\ open \in BOOLEAN
  /\ kernpos \in Frames /\ cachepos \in Frames /\ bufpos \in Frames
  /\ cachelen \in Frames /\ kernlen \in Frames
  /\ playpos \in 0..Labels-1 /\ clock \in 0..Labels-1 /\ next \in 0..Labels-1
  /\ busy \in 0..1 /\ clipbusy \in 0..1
  /\ cells \in [Frames -> 0..Silence]
  /\ queue \in Seq(0..Silence) /\ Len(queue) <= KernCap
  /\ pc \in [Ctx -> Steps]
  /\ loc \in [Ctx -> [odelay : Nat, n : Nat, result : Frames, tmp : Nat,
                      release : BOOLEAN, timer : BOOLEAN]]

(* Frames write() has taken that cachepos (cachelen, kernlen) do not show  *)
(* yet, because a flush has been interrupted among its last assignments.   *)
Pending(steps) == LET at == {c \in Ctx : pc[c] \in steps} IN
                    IF at = {} THEN 0 ELSE loc[CHOOSE c \in at : TRUE].result
Unmoved == Pending({"cachepos"})
Uncounted == Pending({"cachepos", "playpos", "cachelen", "cachelen2"})
Unkerneled == Pending(AfterWrite)

(* kernlen has been lowered and kernpos not yet moved up.                  *)
KernPosStale == \E c \in Ctx : pc[c] \in {"kernpos", "getpos2"}

(* The picture at the top of devposs.c: cachelen frames lie between        *)
(* cachepos and bufpos, kernlen between kernpos and cachepos, and together *)
(* they never fill the buffer, whatever interrupts what.                   *)
RingInv ==
  LET cached == cachelen - Uncounted
      kernel == kernlen + Unkerneled
  IN /\ cached >= 0
     /\ kernel + cached < BufLen
     /\ bufpos = (cachepos + Unmoved + cached) % BufLen
     /\ KernPosStale \/ bufpos = (kernpos + kernel + cached) % BufLen

(* getbufpos never reaches the branch marked "unreachable code".           *)
Unreachable == ~UnreachableBranch

(* The kernel never reports more than the driver thinks it gave it:        *)
(* "kernelbug found!" is never printed.                                    *)
NoKernelBug ==
  \A c \in Ctx : pc[c] \in {"kernlen", "getpos"} => loc[c].odelay <= kernlen

(* What has been mixed and not yet heard, oldest first: the device is a    *)
(* first-in first-out queue one frame smaller than its buffer.             *)
Fifo == LET first == cachepos + Unmoved IN
          IF open THEN queue \o [i \in 1..((bufpos - first) % BufLen) |->
                                   cells[(first + i - 1) % BufLen]]
                  ELSE <<>>

Ring == INSTANCE PlayRing WITH Capacity <- BufLen - 1, fifo <- Fifo

(* The device implements the player device contract: the frames are heard  *)
(* in the order in which they were mixed, none is overwritten before it is *)
(* handed to the kernel, none is handed over twice.                        *)
PlaysInOrder == Ring!Spec

(* What gettimer answers lies between what had been heard when it was      *)
(* called and what has been heard when it returns.                         *)
ClockAccurate ==
  [][pc[Main] = "getpos2" /\ pc'[Main] = "idle" /\ loc[Main].timer
       => (clock' - loc[Main].n) % Labels <= (Played - loc[Main].n) % Labels]_vars

(* A frame that has been mixed is heard unless the device is closed.       *)
Heard ==
  \A s \in 0..Labels-1 :
    (open /\ Fifo # <<>> /\ Fifo[1] = s)
      ~> (~open \/ Fifo = <<>> \/ Fifo[1] # s)
=============================================================================
