-------------------------------- MODULE Timer --------------------------------
(***************************************************************************)
(* The system timer (stuff/timer.c on stuff/irq.c) in the build with       *)
(* SIGALRM, and the songs that use it: a player polls with pollInit, the   *)
(* quiet player device and the silent wavetable bring a routine of their   *)
(* own with tmInit, and a song may have both.                              *)
(*                                                                         *)
(* SIGALRM is not blocked in its handler (SA_NODEFER): tmTimerHandler may  *)
(* interrupt itself, up to Levels deep.  Calls nest, so only the topmost   *)
(* moves, and the main program only when there is none.  A handler loads a *)
(* counter in one step and stores it in another, as the compiler does.     *)
(* tmSetSecure has no caller; the clock (tmTicker) is left out.            *)
(***************************************************************************)
EXTENDS Integers, Sequences

CONSTANTS
  Levels,      \* how deep handlers nest, a bound
  Mask,        \* 0x4000: the slave is called when tmIntCount reaches it
  PollRate,    \* 17100, of pollInit
  QuietRates   \* plrRate of the quiet device, TIMERRATE of the wavetable

ASSUME LevelsAssumption == Levels \in Nat \ {0}
ASSUME RatesAssumption ==
  Mask \in Nat \ {0} /\ PollRate \in Nat \ {0} /\ QuietRates \subseteq Nat \ {0}

VARIABLES
  tmTimerRoutine, tmTimerRoutineSlave,   \* TRUE: installed
  tmTimerRate, tmIntCount, stackused, overload,
  armed,       \* setitimer: SIGALRM keeps coming
  action,      \* what SIGALRM does: "default" (ends the process) or "handler"
  orgstate,    \* what irqInit saved
  killed,
  depth,       \* how many handlers run
  at,          \* where each is
  reg,         \* what it has loaded
  todo,        \* steps the main program has yet to take
  song,        \* what the song being played uses
  late         \* history: alarms that interrupted the main program since the
               \* slave was called or installed

routines == <<tmTimerRoutine, tmTimerRoutineSlave, tmTimerRate>>
signal == <<armed, action, orgstate>>
handlers == <<depth, at, reg, stackused, overload, killed>>
main == <<todo, song>>
vars == <<routines, tmIntCount, signal, handlers, main, late>>

Songs == [rout : BOOLEAN, poll : BOOLEAN] \ {[rout |-> FALSE, poll |-> FALSE]}
NoSong == [rout |-> FALSE, poll |-> FALSE]
Steps == {"store", "slave", "guard", "enter", "routine", "meter"}
-----------------------------------------------------------------------------
Init ==
  /\ tmTimerRoutine = FALSE /\ tmTimerRoutineSlave = FALSE
  /\ tmTimerRate = 0 /\ tmIntCount = 0 /\ stackused = 0 /\ overload = FALSE
  /\ armed = FALSE /\ action = "default" /\ orgstate = "default" /\ killed = FALSE
  /\ depth = 0 /\ at = [c \in 1..Levels |-> "meter"] /\ reg = [c \in 1..Levels |-> 0]
  /\ todo = <<>> /\ song = NoSong /\ late = 0

(* The timer expires.  The handler begins: it loads tmIntCount.            *)
Alarm ==
  /\ armed /\ depth < Levels /\ ~killed
  /\ \/ /\ action = "handler"
        /\ depth' = depth + 1
        /\ at' = [at EXCEPT ![depth + 1] = "store"]
        /\ reg' = [reg EXCEPT ![depth + 1] = tmIntCount + tmTimerRate]
        /\ late' = IF tmTimerRoutineSlave /\ depth = 0 THEN late + 1 ELSE late
        /\ UNCHANGED killed
     \/ /\ action = "default"
        /\ killed' = TRUE
        /\ UNCHANGED <<depth, at, reg, late>>
  /\ UNCHANGED <<routines, tmIntCount, stackused, overload, signal, main>>

Goto(step) == at' = [at EXCEPT ![depth] = step]
Return == depth' = depth - 1 /\ UNCHANGED at

(* tmIntCount is stored; behind the mask the slave is called.              *)
Unmasked(count) == count                                          \* mutant
Masked(count) == count % Mask
BehindMask(count) == count > Mask /\ tmTimerRoutineSlave          \* mutant
Calls(count) == count >= Mask /\ tmTimerRoutineSlave

StoreCount ==
  /\ depth > 0 /\ at[depth] = "store"
  /\ tmIntCount' = Masked(reg[depth])
  /\ IF Calls(reg[depth])
       THEN Goto("slave") /\ late' = 0
       ELSE Goto("guard") /\ UNCHANGED late
  /\ UNCHANGED <<routines, signal, depth, reg, stackused, overload, killed, main>>

SlaveReturns ==
  /\ depth > 0 /\ at[depth] = "slave"
  /\ Goto("guard")
  /\ UNCHANGED <<routines, tmIntCount, signal, depth, reg, stackused, overload,
                 killed, main, late>>

(* if (stackused++): loaded, then stored.                                  *)
LoadGuard ==
  /\ depth > 0 /\ at[depth] = "guard"
  /\ reg' = [reg EXCEPT ![depth] = stackused]
  /\ Goto("enter")
  /\ UNCHANGED <<routines, tmIntCount, signal, depth, stackused, overload, killed,
                 main, late>>

(* Refused: counted up and down again, and the handler is left.            *)
Unguarded(c) == TRUE                                              \* mutant
Free(c) == reg[c] = 0

Refused ==
  /\ depth > 0 /\ at[depth] = "enter" /\ ~Free(depth)
  /\ stackused' = reg[depth]
  /\ overload' = TRUE
  /\ Return
  /\ UNCHANGED <<routines, tmIntCount, signal, reg, killed, main, late>>

Enter ==
  /\ depth > 0 /\ at[depth] = "enter" /\ Free(depth)
  /\ IF tmTimerRoutine
       THEN stackused' = reg[depth] + 1 /\ Goto("routine")
       ELSE stackused' = reg[depth] /\ Goto("meter")
  /\ UNCHANGED <<routines, tmIntCount, signal, depth, reg, overload, killed, main, late>>

LeftBusy ==                                                       \* mutant
  /\ depth > 0 /\ at[depth] = "routine"
  /\ Goto("meter")
  /\ UNCHANGED <<routines, tmIntCount, signal, depth, reg, stackused, overload,
                 killed, main, late>>
RoutineReturns ==
  /\ depth > 0 /\ at[depth] = "routine"
  /\ stackused' = stackused - 1
  /\ Goto("meter")
  /\ UNCHANGED <<routines, tmIntCount, signal, depth, reg, overload, killed, main, late>>

(* The load is measured (or said to be full), and the handler is left.     *)
Meter ==
  /\ depth > 0 /\ at[depth] = "meter"
  /\ overload' = FALSE
  /\ Return
  /\ UNCHANGED <<routines, tmIntCount, signal, reg, stackused, killed, main, late>>

Handler == StoreCount \/ SlaveReturns \/ LoadGuard \/ Refused \/ Enter
             \/ RoutineReturns \/ Meter
-----------------------------------------------------------------------------
(* The functions of timer.c, as the steps the main program takes.          *)
tmInit(rout, rate) ==
  <<[op |-> "set", rout |-> rout, rate |-> rate], [op |-> "irqInit"], [op |-> "start"]>>
DoneFirst == <<[op |-> "irqDone"], [op |-> "stop"]>>              \* mutant
tmResetTimer == <<[op |-> "stop"], [op |-> "irqDone"]>>
tmClose == <<[op |-> "unset"]>>
pollInit == <<[op |-> "poll"]>>
pollClose == <<[op |-> "unpoll"]>>

Operations ==
  [op : {"set"}, rout : BOOLEAN, rate : QuietRates \cup {PollRate}]
    \cup [op : {"irqInit", "start", "stop", "irqDone", "poll", "unpoll", "unset"}]

Idle == depth = 0 /\ ~killed

(* A song is opened: first the device, then the poll.                      *)
OpenSong ==
  /\ Idle /\ todo = <<>> /\ song = NoSong
  /\ \E s \in Songs, rate \in QuietRates :
       /\ song' = s
       /\ todo' = (IF s.rout THEN tmInit(TRUE, rate) ELSE <<>>)
                    \o (IF s.poll THEN pollInit ELSE <<>>)
  /\ UNCHANGED <<routines, tmIntCount, signal, handlers, late>>

(* It is closed the other way round. *)
CloseSong ==
  /\ Idle /\ todo = <<>> /\ song # NoSong
  /\ song' = NoSong
  /\ todo' = (IF song.poll THEN pollClose ELSE <<>>)
               \o (IF song.rout THEN tmClose ELSE <<>>)
  /\ UNCHANGED <<routines, tmIntCount, signal, handlers, late>>

Doing(op) == Idle /\ todo # <<>> /\ Head(todo).op = op

(* tmInit *)
SetRoutine ==
  /\ Doing("set")
  /\ tmTimerRate' = Head(todo).rate
  /\ tmTimerRoutine' = Head(todo).rout
  /\ tmIntCount' = 0
  /\ todo' = Tail(todo)
  /\ UNCHANGED <<tmTimerRoutineSlave, signal, handlers, song, late>>

IrqInit ==
  /\ Doing("irqInit")
  /\ orgstate' = action
  /\ action' = "handler"
  /\ todo' = Tail(todo)
  /\ UNCHANGED <<routines, tmIntCount, armed, handlers, song, late>>

StartTimer ==
  /\ Doing("start")
  /\ armed' = TRUE
  /\ todo' = Tail(todo)
  /\ UNCHANGED <<routines, tmIntCount, action, orgstate, handlers, song, late>>

(* pollInit *)
NeverInit == FALSE                                                \* mutant
NeedsTimer == ~tmTimerRoutine

InstallSlave ==
  /\ Doing("poll")
  /\ tmTimerRoutineSlave' = TRUE
  /\ late' = 0
  /\ todo' = (IF NeedsTimer THEN tmInit(FALSE, PollRate) ELSE <<>>) \o Tail(todo)
  /\ UNCHANGED <<tmTimerRoutine, tmTimerRate, tmIntCount, signal, handlers, song>>

(* pollClose, tmClose and what tmResetTimer does when not both are there.  *)
ClearSlave ==
  /\ Doing("unpoll")
  /\ tmTimerRoutineSlave' = FALSE
  /\ todo' = tmResetTimer \o Tail(todo)
  /\ UNCHANGED <<tmTimerRoutine, tmTimerRate, tmIntCount, signal, handlers, song, late>>

ClearRoutine ==
  /\ Doing("unset")
  /\ tmTimerRoutine' = FALSE
  /\ todo' = tmResetTimer \o Tail(todo)
  /\ UNCHANGED <<tmTimerRoutineSlave, tmTimerRate, tmIntCount, signal, handlers, song, late>>

StopTimer ==
  /\ Doing("stop")
  /\ armed' = FALSE
  /\ todo' = Tail(todo)
  /\ UNCHANGED <<routines, tmIntCount, action, orgstate, handlers, song, late>>

IrqDone ==
  /\ Doing("irqDone")
  /\ action' = orgstate
  /\ todo' = Tail(todo)
  /\ UNCHANGED <<routines, tmIntCount, armed, orgstate, handlers, song, late>>

Call == SetRoutine \/ IrqInit \/ StartTimer \/ InstallSlave \/ ClearSlave
          \/ ClearRoutine \/ StopTimer \/ IrqDone

Next == Alarm \/ Handler \/ OpenSong \/ CloseSong \/ Call

Spec == Init /\ [][Next]_vars

(* Alarms come, the main program takes the steps of a call, and a handler, *)
(* however often it is interrupted, gets on: the processor is not so slow  *)
(* that handlers leave no time at all.                                     *)
FairSpec ==
  /\ Spec
  /\ WF_vars(Alarm /\ depth = 0)
  /\ \A c \in 1..Levels : SF_vars(Handler /\ depth = c)
  /\ SF_vars(Call)
-----------------------------------------------------------------------------
TypeOK ==
  /\ tmTimerRoutine \in BOOLEAN /\ tmTimerRoutineSlave \in BOOLEAN
  /\ overload \in BOOLEAN /\ armed \in BOOLEAN /\ killed \in BOOLEAN
  /\ action \in {"default", "handler"} /\ orgstate \in {"default", "handler"}
  /\ tmTimerRate \in QuietRates \cup {0, PollRate} /\ tmIntCount \in 0..Mask-1
  /\ stackused \in Int /\ late \in Nat
  /\ depth \in 0..Levels
  /\ at \in [1..Levels -> Steps] /\ reg \in [1..Levels -> Int]
  /\ song \in Songs \cup {NoSong} /\ todo \in Seq(Operations)

(* The device's routine is never interrupted by itself, although a handler *)
(* counts stackused up in more than one step.                              *)
Inside(c) == c <= depth /\ at[c] = "routine"
RoutineAlone == \A c, d \in 1..Levels : Inside(c) /\ Inside(d) => c = d

(* The guard is left as it was found: once no handler runs it is free and  *)
(* no overload is pending, whatever interrupted whatever.                  *)
GuardLeft == depth = 0 => stackused = 0 /\ ~overload

(* SIGALRM never meets its default action, which would end the process,    *)
(* and between two songs no alarm is due and that action is back.          *)
Disposition ==
  /\ ~killed
  /\ song = NoSong /\ todo = <<>> => ~armed /\ action = "default"

(* A handler that is interrupted while it counts forgets what the nested   *)
(* ones have counted, but never what it counts itself: however they nest,  *)
(* the slave waits no longer than one of its periods, measured by the      *)
(* alarms that interrupt the main program.                                 *)
Period == (Mask + tmTimerRate - 1) \div tmTimerRate
SlaveSoon == tmTimerRoutineSlave /\ armed => late <= Period

(* While a song with a routine plays, the routine is called again and      *)
(* again; while one that polls plays, the slave is.                        *)
Served ==
  /\ song.rout ~> song = NoSong \/ \E c \in 1..Levels : Inside(c)
  /\ song.poll ~> song = NoSong \/ \E c \in 1..depth : at[c] = "slave"
=============================================================================
