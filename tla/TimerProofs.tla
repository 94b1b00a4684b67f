------------------------------ MODULE TimerProofs ------------------------------
(***************************************************************************)
(* The system timer, proved for any depth of nesting and any rates: that   *)
(* the device's routine is never run twice at a time, that the guard is    *)
(* found free again when the last handler has returned, that SIGALRM is    *)
(* never left to its default action, and how long the slave may wait.      *)
(***************************************************************************)
EXTENDS Timer, SequenceTheorems, TLAPS

USE LevelsAssumption, RatesAssumption

(* The functions the main program calls are sequences of operations.       *)
LEMMA CallsType ==
  /\ \A r \in BOOLEAN, n \in QuietRates \cup {PollRate} : tmInit(r, n) \in Seq(Operations)
  /\ {tmResetTimer, tmClose, pollInit, pollClose, <<>>} \subseteq Seq(Operations)
  BY DEF tmInit, tmResetTimer, tmClose, pollInit, pollClose, Operations

LEMMA InitType == Init => TypeOK
<1> SUFFICES ASSUME Init PROVE TypeOK
  OBVIOUS
<1>1. todo \in Seq(Operations)
  BY CallsType DEF Init
<1>2. at \in [1..Levels -> Steps] /\ reg \in [1..Levels -> Int]
  BY DEF Init, Steps
<1>3. tmIntCount \in 0..Mask-1
  BY DEF Init
<1>4. tmTimerRate \in QuietRates \cup {0, PollRate} /\ depth \in 0..Levels
  BY DEF Init
<1>5. song \in Songs \cup {NoSong}
  BY DEF Init
<1>6. /\ tmTimerRoutine \in BOOLEAN /\ tmTimerRoutineSlave \in BOOLEAN
      /\ overload \in BOOLEAN /\ armed \in BOOLEAN /\ killed \in BOOLEAN
  BY DEF Init
<1>7. /\ action \in {"default", "handler"} /\ orgstate \in {"default", "handler"}
      /\ stackused \in Int /\ late \in Nat
  BY DEF Init
<1>8. QED
  BY <1>1, <1>2, <1>3, <1>4, <1>5, <1>6, <1>7 DEF TypeOK

LEMMA StepType == TypeOK /\ [Next]_vars => TypeOK'
<1> SUFFICES ASSUME TypeOK, [Next]_vars PROVE TypeOK'
  OBVIOUS
<1> USE DEF TypeOK
<1>1. CASE Alarm
  <2>1. CASE action = "handler"
    <3>1. tmIntCount + tmTimerRate \in Int
      OBVIOUS
    <3>2. at' \in [1..Levels -> Steps] /\ reg' \in [1..Levels -> Int]
      BY <1>1, <2>1, <3>1 DEF Alarm, Steps
    <3>3. depth' \in 0..Levels /\ late' \in Nat
      BY <1>1, <2>1 DEF Alarm
    <3>4. QED  BY <1>1, <2>1, <3>2, <3>3 DEF Alarm, routines, signal, main
  <2>2. CASE action = "default"
    BY <1>1, <2>2 DEF Alarm, routines, signal, main, Steps
  <2>3. QED  BY <2>1, <2>2
<1>2. CASE Handler
  <2> USE DEF routines, signal, main, Steps, Goto, Return
  <2>1. CASE StoreCount
    <3>1. depth \in 1..Levels /\ reg[depth] \in Int
      BY <2>1 DEF StoreCount
    <3>2. tmIntCount' \in 0..Mask-1
      BY <2>1, <3>1 DEF StoreCount, Masked
    <3>3. at' \in [1..Levels -> Steps] /\ late' \in Nat
      BY <2>1 DEF StoreCount
    <3>4. QED  BY <2>1, <3>2, <3>3 DEF StoreCount
  <2>2. CASE SlaveReturns  BY <2>2 DEF SlaveReturns
  <2>3. CASE LoadGuard  BY <2>3 DEF LoadGuard
  <2>4. CASE Refused
    <3>1. depth' \in 0..Levels /\ depth \in 1..Levels
      BY <2>4 DEF Refused
    <3>2. stackused' \in Int
      BY <2>4, <3>1 DEF Refused
    <3>3. QED  BY <2>4, <3>1, <3>2 DEF Refused
  <2>5. CASE Enter  BY <2>5 DEF Enter
  <2>6. CASE RoutineReturns  BY <2>6 DEF RoutineReturns
  <2>7. CASE Meter
    <3>1. depth' \in 0..Levels
      BY <2>7 DEF Meter
    <3>2. QED  BY <2>7, <3>1 DEF Meter
  <2>8. QED  BY <1>2, <2>1, <2>2, <2>3, <2>4, <2>5, <2>6, <2>7 DEF Handler
<1>3. CASE OpenSong
  <2>1. todo' \in Seq(Operations)
    <3>1. PICK s \in Songs, rate \in QuietRates :
             todo' = (IF s.rout THEN tmInit(TRUE, rate) ELSE <<>>)
                       \o (IF s.poll THEN pollInit ELSE <<>>)
      BY <1>3 DEF OpenSong
    <3>2. (IF s.rout THEN tmInit(TRUE, rate) ELSE <<>>) \in Seq(Operations)
      BY CallsType
    <3>3. (IF s.poll THEN pollInit ELSE <<>>) \in Seq(Operations)
      BY CallsType
    <3>4. QED  BY <3>1, <3>2, <3>3, ConcatProperties
  <2>2. QED  BY <1>3, <2>1 DEF OpenSong, routines, signal, handlers
<1>4. CASE CloseSong
  <2>1. todo' \in Seq(Operations)
    BY <1>4, CallsType, ConcatProperties DEF CloseSong
  <2>2. QED  BY <1>4, <2>1 DEF CloseSong, routines, signal, handlers
<1>5. CASE Call
  <2>1. ASSUME todo # <<>> PROVE Head(todo) \in Operations /\ Tail(todo) \in Seq(Operations)
    BY <2>1, HeadTailProperties
  <2> USE DEF routines, signal, handlers, Doing
  <2>2. CASE SetRoutine
    <3>1. Head(todo).rate \in QuietRates \cup {PollRate} /\ Head(todo).rout \in BOOLEAN
      BY <2>1, <2>2 DEF SetRoutine, Operations
    <3>2. QED  BY <2>1, <2>2, <3>1 DEF SetRoutine
  <2>3. CASE IrqInit  BY <2>1, <2>3 DEF IrqInit
  <2>4. CASE StartTimer  BY <2>1, <2>4 DEF StartTimer
  <2>5. CASE InstallSlave
    <3>1. todo' \in Seq(Operations)
      BY <2>1, <2>5, CallsType, ConcatProperties DEF InstallSlave
    <3>2. QED  BY <2>5, <3>1 DEF InstallSlave
  <2>6. CASE ClearSlave
    <3>1. todo' \in Seq(Operations)
      BY <2>1, <2>6, CallsType, ConcatProperties DEF ClearSlave
    <3>2. QED  BY <2>6, <3>1 DEF ClearSlave
  <2>7. CASE ClearRoutine
    <3>1. todo' \in Seq(Operations)
      BY <2>1, <2>7, CallsType, ConcatProperties DEF ClearRoutine
    <3>2. QED  BY <2>7, <3>1 DEF ClearRoutine
  <2>8. CASE StopTimer  BY <2>1, <2>8 DEF StopTimer
  <2>9. CASE IrqDone  BY <2>1, <2>9 DEF IrqDone
  <2>10. QED
    BY <1>5, <2>2, <2>3, <2>4, <2>5, <2>6, <2>7, <2>8, <2>9 DEF Call
<1>6. CASE UNCHANGED vars
  BY <1>6 DEF vars, routines, signal, handlers, main
<1>7. QED
  BY <1>1, <1>2, <1>3, <1>4, <1>5, <1>6 DEF Next

-----------------------------------------------------------------------------
(* The guard counts the one handler in the routine; what a handler has     *)
(* loaded of it still holds of the handlers below, which alone can be in   *)
(* the routine when it moves again; an overload is reported to somebody.   *)
Occupied(n) == \E c \in 1..n : at[c] = "routine"
Counted(n) == IF Occupied(n) THEN 1 ELSE 0

GuardInv ==
  /\ stackused = Counted(depth)
  /\ \A c \in 1..depth : at[c] = "enter" => reg[c] = Counted(c - 1)
  /\ RoutineAlone
  /\ overload => \E c \in 1..depth : at[c] \in {"routine", "meter"}

LEMMA InitGuard == Init => GuardInv
  BY DEF Init, GuardInv, Counted, Occupied, RoutineAlone, Inside

LEMMA StepGuard == TypeOK /\ GuardInv /\ [Next]_vars => GuardInv'
<1> SUFFICES ASSUME TypeOK, GuardInv, [Next]_vars PROVE GuardInv'
  OBVIOUS
<1> USE DEF GuardInv, Counted, Occupied, RoutineAlone, Inside
<1>1. ASSUME UNCHANGED <<depth, at, reg, stackused, overload>> PROVE GuardInv'
  BY <1>1
<1>2. CASE Alarm
  <2>1. CASE action = "handler"
    <3>1. depth' = depth + 1 /\ depth \in 0..Levels-1 /\ at'[depth + 1] = "store"
      BY <1>2, <2>1 DEF Alarm, TypeOK
    <3>2. \A c \in 1..depth : at'[c] = at[c] /\ reg'[c] = reg[c]
      BY <1>2, <2>1 DEF Alarm, TypeOK
    <3>3. stackused' = stackused /\ overload' = overload
      BY <1>2 DEF Alarm
    <3>4. QED
      BY <3>1, <3>2, <3>3
  <2>2. CASE action = "default"
    BY <1>1, <1>2, <2>2 DEF Alarm
  <2>3. QED
    BY <2>1, <2>2 DEF TypeOK
<1>3. CASE Handler
  <2>1. depth \in 1..Levels /\ depth' \in {depth, depth - 1}
    BY <1>3 DEF Handler, StoreCount, SlaveReturns, LoadGuard, Refused, Enter,
                RoutineReturns, Meter, Return, TypeOK
  <2>2. \A c \in 1..depth-1 : at'[c] = at[c] /\ reg'[c] = reg[c]
    BY <1>3, <2>1 DEF Handler, StoreCount, SlaveReturns, LoadGuard, Refused, Enter,
                RoutineReturns, Meter, Return, Goto, TypeOK
  <2>3. CASE StoreCount \/ SlaveReturns
    <3>1. at'[depth] \in {"slave", "guard"} /\ at[depth] \in {"store", "slave"}
      BY <2>1, <2>3 DEF StoreCount, SlaveReturns, Goto, TypeOK
    <3>2. UNCHANGED <<depth, reg, stackused, overload>>
      BY <2>3 DEF StoreCount, SlaveReturns
    <3>3. QED
      BY <2>1, <2>2, <3>1, <3>2
  <2>4. CASE LoadGuard
    <3>1. at'[depth] = "enter" /\ at[depth] = "guard" /\ reg'[depth] = stackused
      BY <2>1, <2>4 DEF LoadGuard, Goto, TypeOK
    <3>2. UNCHANGED <<depth, stackused, overload>>
      BY <2>4 DEF LoadGuard
    <3>3. QED
      BY <2>1, <2>2, <3>1, <3>2
  <2>5. CASE Refused
    <3>1. /\ at[depth] = "enter" /\ reg[depth] # 0 /\ stackused' = reg[depth]
          /\ depth' = depth - 1 /\ UNCHANGED <<at, reg>>
      BY <2>1, <2>5 DEF Refused, Free, Return
    <3>2. Occupied(depth - 1)
      BY <2>1, <3>1
    <3>3. QED
      BY <2>1, <2>2, <3>1, <3>2
  <2>6. CASE Enter
    <3>1. at[depth] = "enter" /\ reg[depth] = 0 /\ UNCHANGED <<depth, reg, overload>>
      BY <2>1, <2>6 DEF Enter, Free
    <3>2. ~Occupied(depth - 1)
      BY <2>1, <3>1
    <3>3. \/ at'[depth] = "routine" /\ stackused' = 1
          \/ at'[depth] = "meter" /\ stackused' = 0
      BY <2>1, <2>6, <3>1 DEF Enter, Goto, TypeOK
    <3>4. QED
      BY <2>1, <2>2, <3>1, <3>2, <3>3
  <2>7. CASE RoutineReturns
    <3>1. /\ at[depth] = "routine" /\ at'[depth] = "meter"
          /\ stackused' = stackused - 1 /\ UNCHANGED <<depth, reg, overload>>
      BY <2>1, <2>7 DEF RoutineReturns, Goto, TypeOK
    <3>2. ~Occupied(depth - 1)
      BY <2>1, <3>1 DEF TypeOK
    <3>3. QED
      BY <2>1, <2>2, <3>1, <3>2
  <2>8. CASE Meter
    <3>1. /\ at[depth] = "meter" /\ ~overload' /\ depth' = depth - 1
          /\ UNCHANGED <<at, reg, stackused>>
      BY <2>1, <2>8 DEF Meter, Return
    <3>2. QED
      BY <2>1, <2>2, <3>1
  <2>9. QED
    BY <1>3, <2>3, <2>4, <2>5, <2>6, <2>7, <2>8 DEF Handler
<1>4. CASE OpenSong \/ CloseSong \/ Call \/ UNCHANGED vars
  <2>1. UNCHANGED <<depth, at, reg, stackused, overload>>
    BY <1>4 DEF OpenSong, CloseSong, Call, SetRoutine, IrqInit, StartTimer, InstallSlave,
       ClearSlave, ClearRoutine, StopTimer, IrqDone, handlers, vars
  <2>2. QED
    BY <1>1, <2>1
<1>5. QED
  BY <1>2, <1>3, <1>4 DEF Next

-----------------------------------------------------------------------------
(* The variables of the timer keep their types.                            *)
THEOREM Typed == Spec => []TypeOK
<1>1. QED
  BY InitType, StepType, PTL DEF Spec

LEMMA Guarded == Spec => []GuardInv
<1>1. QED
  BY InitGuard, StepGuard, Typed, PTL DEF Spec

(* However deep tmTimerHandler interrupts itself, the device's routine is  *)
(* run once at a time.                                                     *)
THEOREM RoutineNeverNests == Spec => []RoutineAlone
<1>1. GuardInv => RoutineAlone
  BY DEF GuardInv
<1>2. QED
  BY <1>1, Guarded, PTL

(* stackused and overload are left as they were found, so that a routine   *)
(* that was refused is run at the next alarm.                              *)
THEOREM GuardIsLeft == Spec => []GuardLeft
<1>1. TypeOK /\ GuardInv => GuardLeft
  BY DEF TypeOK, GuardInv, GuardLeft, Counted, Occupied
<1>2. QED
  BY <1>1, Typed, Guarded, PTL
-----------------------------------------------------------------------------
(* Where the main program stands in opening and closing a song.  At(op):   *)
(* it is about to take the step op; the steps behind that are those of the *)
(* same call, and perhaps one more call.                                   *)
At(op) == todo # <<>> /\ todo[1].op = op
Then(k, op) == Len(todo) = k + 1 => todo[k + 1].op = op

Stopped == ~armed /\ action = "default"
Running == armed /\ action = "handler" /\ orgstate = "default"
Opening == At("set") \/ At("irqInit") \/ At("start") \/ At("poll")
Closing == At("unpoll") \/ At("stop") \/ At("irqDone") \/ At("unset")

(* Nothing is left to do: a song plays, or none.                           *)
RestInv ==
  todo = <<>> =>
    /\ song = NoSong => Stopped /\ ~tmTimerRoutine /\ ~tmTimerRoutineSlave
    /\ song # NoSong => Running

(* tmInit, and pollInit behind it if the song has a routine and polls.     *)
SetInv ==
  At("set") =>
    /\ Len(todo) \in {3, 4} /\ todo[2].op = "irqInit" /\ todo[3].op = "start"
    /\ Then(3, "poll") /\ (Len(todo) = 4 => todo[1].rout /\ song.poll)
    /\ todo[1].rout => song.rout
    /\ Stopped /\ (tmTimerRoutineSlave => late = 0)
IrqInitInv ==
  At("irqInit") =>
    /\ Len(todo) \in {2, 3} /\ todo[2].op = "start"
    /\ Then(2, "poll") /\ (Len(todo) = 3 => tmTimerRoutine /\ song.poll)
    /\ Stopped /\ tmTimerRate > 0
StartInv ==
  At("start") =>
    /\ Len(todo) \in {1, 2}
    /\ Then(1, "poll") /\ (Len(todo) = 2 => tmTimerRoutine /\ song.poll)
    /\ ~armed /\ action = "handler" /\ orgstate = "default" /\ tmTimerRate > 0
PollInv ==
  At("poll") =>
    /\ Len(todo) = 1 /\ song.poll
    /\ IF tmTimerRoutine THEN Running ELSE Stopped

(* pollClose, and tmClose behind it if the song has a routine.             *)
UnpollInv ==
  At("unpoll") =>
    /\ Len(todo) \in {1, 2} /\ Then(1, "unset")
    /\ Len(todo) = 1 => ~tmTimerRoutine
    /\ Running
StopInv ==
  At("stop") =>
    /\ Len(todo) \in {2, 3} /\ todo[2].op = "irqDone" /\ Then(2, "unset")
    /\ Len(todo) = 2 => ~tmTimerRoutine
    /\ orgstate = "default"
IrqDoneInv ==
  At("irqDone") =>
    /\ Len(todo) \in {1, 2} /\ Then(1, "unset")
    /\ Len(todo) = 1 => ~tmTimerRoutine
    /\ ~armed /\ orgstate = "default"
UnsetInv ==
  At("unset") => Len(todo) = 1 /\ orgstate = "default" /\ (Stopped \/ Running)

(* What the routines have to do with the song.                             *)
SongInv ==
  /\ Opening => song # NoSong
  /\ Closing => song = NoSong
  /\ Opening \/ todo = <<>> => /\ tmTimerRoutineSlave => song.poll
                               /\ ~At("set") /\ tmTimerRoutine => song.rout
  /\ At("stop") \/ At("irqDone") \/ At("unset") => ~tmTimerRoutineSlave

TimerInv ==
  /\ RestInv
  /\ SetInv /\ IrqInitInv /\ StartInv /\ PollInv
  /\ UnpollInv /\ StopInv /\ IrqDoneInv /\ UnsetInv
  /\ SongInv
  /\ armed => action = "handler" /\ tmTimerRate > 0
  /\ ~killed

(* The count never falls behind what the alarms that interrupted the main  *)
(* program have added since the slave was called; a handler that has yet   *)
(* to store the count has loaded it.                                       *)
Due == late * tmTimerRate
CountInv ==
  tmTimerRoutineSlave =>
    /\ Due <= tmIntCount + tmTimerRate
    /\ (depth = 0 \/ at[1] # "store") => Due <= tmIntCount
    /\ \A c \in 1..depth : at[c] = "store" => Due <= reg[c] /\ reg[c] >= 0

IsFront(t, a, s, k) ==
  /\ Len(t) = k + Len(s)
  /\ \A i \in 1..(k + Len(s)) : t[i] = IF i <= k THEN a[i] ELSE s[i - k]

LEMMA Front ==
  ASSUME NEW a \in Seq(Operations), NEW s \in Seq(Operations), NEW k \in Nat, Len(a) = k
  PROVE  IsFront(a \o s, a, s, k)
  BY ConcatProperties DEF IsFront

(* What the functions put in front of what is left to do.                  *)
LEMMA InitFirst ==
  ASSUME NEW a \in Seq(Operations), Len(a) = 3, NEW s \in Seq(Operations)
  PROVE  /\ Len(a \o s) = 3 + Len(s)
         /\ (a \o s)[1] = a[1] /\ (a \o s)[2] = a[2] /\ (a \o s)[3] = a[3]
         /\ \A i \in 1..Len(s) : (a \o s)[3 + i] = s[i]
<1>1. 3 \in Nat /\ Len(s) \in Nat
  OBVIOUS
<1>2. IsFront(a \o s, a, s, 3)
  BY <1>1, Front
<1>3. QED
  BY <1>1, <1>2 DEF IsFront

LEMMA InitOps ==
  ASSUME NEW n \in QuietRates \cup {PollRate}
  PROVE  /\ tmInit(TRUE, n) \in Seq(Operations) /\ Len(tmInit(TRUE, n)) = 3
         /\ tmInit(FALSE, n) \in Seq(Operations) /\ Len(tmInit(FALSE, n)) = 3
         /\ tmInit(TRUE, n)[1].op = "set" /\ tmInit(FALSE, n)[1].op = "set"
         /\ tmInit(TRUE, n)[2].op = "irqInit" /\ tmInit(FALSE, n)[2].op = "irqInit"
         /\ tmInit(TRUE, n)[3].op = "start" /\ tmInit(FALSE, n)[3].op = "start"
         /\ ~tmInit(FALSE, n)[1].rout /\ tmInit(TRUE, n)[1].rout
<1>1. tmInit(TRUE, n) \in Seq(Operations) /\ tmInit(FALSE, n) \in Seq(Operations)
  BY DEF tmInit, Operations
<1>2. QED
  BY <1>1 DEF tmInit

LEMMA ResetFirst ==
  ASSUME NEW s \in Seq(Operations)
  PROVE  LET t == tmResetTimer \o s IN
           /\ Len(t) = 2 + Len(s) /\ t[1].op = "stop" /\ t[2].op = "irqDone"
           /\ \A i \in 1..Len(s) : t[2 + i] = s[i]
<1> DEFINE a == tmResetTimer
<1>1. a \in Seq(Operations) /\ Len(a) = 2 /\ a[1].op = "stop" /\ a[2].op = "irqDone"
  BY CallsType DEF tmResetTimer
<1> HIDE DEF a
<1>2. Len(s) \in Nat
  OBVIOUS
<1>3. /\ Len(a \o s) = 2 + Len(s)
      /\ \A i \in 1..(2 + Len(s)) : (a \o s)[i] = IF i <= 2 THEN a[i] ELSE s[i - 2]
  <2>1. 2 \in Nat /\ a \in Seq(Operations) /\ Len(a) = 2
    BY <1>1
  <2>2. IsFront(a \o s, a, s, 2)
    BY <2>1, Front
  <2>3. QED
    BY <2>2 DEF IsFront
<1>4. \A i \in 1..Len(s) : (a \o s)[2 + i] = s[i]
  BY <1>2, <1>3
<1>5. (a \o s)[1] = a[1] /\ (a \o s)[2] = a[2]
  BY <1>2, <1>3
<1>6. QED
  BY <1>1, <1>3, <1>4, <1>5 DEF a

(* One step of what is left to do is taken.                                *)
LEMMA OneLess ==
  ASSUME TypeOK, todo # <<>>
  PROVE  /\ Len(Tail(todo)) = Len(todo) - 1 /\ Tail(todo) \in Seq(Operations)
         /\ Len(todo) \in Nat /\ Len(todo) > 0 /\ Head(todo) = todo[1]
         /\ Tail(todo) = <<>> <=> Len(todo) = 1
         /\ \A i \in 1..Len(todo)-1 : Tail(todo)[i] = todo[i + 1]
<1>1. todo \in Seq(Operations)
  BY DEF TypeOK
<1>2. Len(todo) \in Nat /\ Len(todo) > 0
  BY <1>1, EmptySeq
<1>3. Tail(todo) \in Seq(Operations) /\ Len(Tail(todo)) = Len(todo) - 1
      /\ \A i \in 1..Len(todo)-1 : Tail(todo)[i] = todo[i + 1]
  BY <1>1, HeadTailProperties
<1>4. Tail(todo) = <<>> <=> Len(todo) = 1
  <2>1. ASSUME Tail(todo) = <<>> PROVE Len(todo) = 1
    <3>1. Len(Tail(todo)) = 0
      BY <2>1, EmptySeq
    <3>2. Len(todo) - 1 = 0
      BY <1>3, <3>1
    <3>3. QED
      BY <1>2, <3>2
  <2>2. ASSUME Len(todo) = 1 PROVE Tail(todo) = <<>>
    <3>1. Len(Tail(todo)) = 0
      BY <1>3, <2>2
    <3>2. QED
      BY <1>3, <3>1, EmptySeq
  <2>3. QED
    BY <2>1, <2>2
<1>5. QED
  BY <1>1, <1>2, <1>3, <1>4, HeadTailProperties

LEMMA InitTimer == Init => TimerInv
  BY DEF Init, TimerInv, RestInv, SetInv, IrqInitInv, StartInv, PollInv, UnpollInv,
     StopInv, IrqDoneInv, UnsetInv, SongInv, Opening, Closing, At, Stopped, NoSong

LEMMA SetTimer ==
  ASSUME TypeOK, TimerInv, SetRoutine
  PROVE  TimerInv'
<1> DEFINE t == Tail(todo)
<1>1. /\ todo # <<>> /\ At("set") /\ todo' = t /\ Len(todo) \in {3, 4} /\ t # <<>>
      /\ Len(t) = Len(todo) - 1 /\ t[1] = todo[2] /\ t[2] = todo[3]
      /\ Len(todo) = 4 => t[3] = todo[4]
  BY OneLess DEF SetRoutine, Doing, At, TimerInv, SetInv
<1> HIDE DEF t
<1>2. /\ todo[1] \in Operations /\ todo[1].op = "set"
      /\ tmTimerRate' = todo[1].rate /\ tmTimerRoutine' = todo[1].rout
      /\ UNCHANGED <<tmTimerRoutineSlave, armed, action, orgstate, killed, song, late>>
  BY <1>1, OneLess, HeadTailProperties DEF SetRoutine, signal, handlers, At, TypeOK
<1>3. tmTimerRate' > 0
  <2>1. todo[1].rate \in QuietRates \cup {PollRate}
    BY <1>2 DEF Operations
  <2>2. \A n \in QuietRates \cup {PollRate} : n > 0
    OBVIOUS
  <2>3. QED
    BY <1>2, <2>1, <2>2
<1>4. QED
  BY <1>1, <1>2, <1>3 DEF TimerInv, RestInv, SetInv, IrqInitInv, StartInv, PollInv,
     UnpollInv, StopInv, IrqDoneInv, UnsetInv, SongInv, Opening, Closing, At, Then, Stopped

LEMMA IrqInitTimer ==
  ASSUME TypeOK, TimerInv, IrqInit
  PROVE  TimerInv'
<1> DEFINE t == Tail(todo)
<1>1. /\ todo # <<>> /\ At("irqInit") /\ todo' = t /\ Len(todo) \in {2, 3} /\ t # <<>>
      /\ Len(t) = Len(todo) - 1 /\ t[1] = todo[2] /\ (Len(todo) = 3 => t[2] = todo[3])
  BY OneLess DEF IrqInit, Doing, At, TimerInv, IrqInitInv
<1> HIDE DEF t
<1>2. /\ orgstate' = action /\ action' = "handler"
      /\ UNCHANGED <<tmTimerRoutine, tmTimerRoutineSlave, tmTimerRate, armed, killed, song, late>>
  BY DEF IrqInit, routines, handlers
<1>3. QED
  BY <1>1, <1>2 DEF TimerInv, RestInv, SetInv, IrqInitInv, StartInv, PollInv,
     UnpollInv, StopInv, IrqDoneInv, UnsetInv, SongInv, Opening, Closing, At, Then, Stopped

LEMMA StartTimerInv ==
  ASSUME TypeOK, TimerInv, StartTimer
  PROVE  TimerInv'
<1> DEFINE t == Tail(todo)
<1>1. /\ todo # <<>> /\ At("start") /\ todo' = t /\ Len(todo) \in {1, 2}
      /\ Len(t) = Len(todo) - 1 /\ (t = <<>> <=> Len(todo) = 1)
      /\ Len(todo) = 2 => t[1] = todo[2]
  BY OneLess DEF StartTimer, Doing, At, TimerInv, StartInv
<1> HIDE DEF t
<1>2. /\ armed'
      /\ UNCHANGED <<tmTimerRoutine, tmTimerRoutineSlave, tmTimerRate, action, orgstate,
                     killed, song, late>>
  BY DEF StartTimer, routines, handlers
<1>3. QED
  BY <1>1, <1>2 DEF TimerInv, RestInv, SetInv, IrqInitInv, StartInv, PollInv,
     UnpollInv, StopInv, IrqDoneInv, UnsetInv, SongInv, Opening, Closing, At, Then, Running

LEMMA PollTimer ==
  ASSUME TypeOK, TimerInv, InstallSlave
  PROVE  TimerInv'
<1>1. /\ todo # <<>> /\ At("poll") /\ Len(todo) = 1 /\ Tail(todo) = <<>>
      /\ <<>> \in Seq(Operations) /\ Len(<<>>) = 0 /\ song.poll /\ song # NoSong
  BY OneLess, EmptySeq DEF InstallSlave, Doing, At, TimerInv, PollInv, SongInv, Opening
<1>2. /\ tmTimerRoutineSlave' /\ late' = 0
      /\ UNCHANGED <<tmTimerRoutine, tmTimerRate, armed, action, orgstate, killed, song>>
  BY DEF InstallSlave, handlers, signal
<1>3. CASE tmTimerRoutine
  <2>1. todo' = <<>>
    BY <1>1, <1>3 DEF InstallSlave, NeedsTimer
  <2>2. Running
    BY <1>1, <1>3 DEF TimerInv, PollInv
  <2>3. QED
    BY <1>1, <1>2, <1>3, <2>1, <2>2 DEF TimerInv, RestInv, SetInv, IrqInitInv, StartInv, PollInv,
       UnpollInv, StopInv, IrqDoneInv, UnsetInv, SongInv, Opening, Closing, At, Running
<1>4. CASE ~tmTimerRoutine
  <2> DEFINE t == tmInit(FALSE, PollRate) \o <<>>
  <2>1. todo' = t
    BY <1>1, <1>4 DEF InstallSlave, NeedsTimer
  <2>2. /\ Len(t) = 3 /\ t[1].op = "set" /\ ~t[1].rout /\ t[2].op = "irqInit"
        /\ t[3].op = "start"
    <3> DEFINE a == tmInit(FALSE, PollRate)
    <3>1. /\ a \in Seq(Operations) /\ Len(a) = 3 /\ a[1].op = "set" /\ ~a[1].rout
          /\ a[2].op = "irqInit" /\ a[3].op = "start"
      BY InitOps
    <3> HIDE DEF a
    <3>2. Len(a \o <<>>) = 3 /\ (a \o <<>>)[1] = a[1] /\ (a \o <<>>)[2] = a[2]
          /\ (a \o <<>>)[3] = a[3]
      BY <1>1, <3>1, InitFirst
    <3>3. QED
      BY <3>1, <3>2 DEF a
  <2> HIDE DEF t
  <2>3. t # <<>>
    BY <1>1, <2>2
  <2>4. Stopped
    BY <1>1, <1>4 DEF TimerInv, PollInv
  <2>5. QED
    BY <1>1, <1>2, <1>4, <2>1, <2>2, <2>3, <2>4 DEF TimerInv, RestInv, SetInv, IrqInitInv, StartInv,
       PollInv, UnpollInv, StopInv, IrqDoneInv, UnsetInv, SongInv, Opening, Closing, At, Then, Stopped
<1>5. QED
  BY <1>3, <1>4

LEMMA UnpollTimer ==
  ASSUME TypeOK, TimerInv, ClearSlave
  PROVE  TimerInv'
<1> DEFINE s == Tail(todo)
           t == tmResetTimer \o s
<1>1. /\ At("unpoll") /\ Len(todo) \in {1, 2} /\ s \in Seq(Operations) /\ todo' = t
      /\ Len(s) = Len(todo) - 1 /\ (Len(todo) = 2 => s[1] = todo[2])
  BY OneLess DEF ClearSlave, Doing, At, TimerInv, UnpollInv
<1>2. /\ Len(t) = 2 + Len(s) /\ t[1].op = "stop" /\ t[2].op = "irqDone"
      /\ (Len(todo) = 2 => t[3] = s[1])
  <2>1. /\ Len(t) = 2 + Len(s) /\ t[1].op = "stop" /\ t[2].op = "irqDone"
        /\ \A i \in 1..Len(s) : t[2 + i] = s[i]
    BY Zenon, <1>1, ResetFirst
  <2> HIDE DEF s, t
  <2>2. Len(todo) = 2 => Len(s) = 1
    BY <1>1
  <2>3. QED
    BY <2>1, <2>2
<1>3. t # <<>>
  BY <1>1, <1>2, EmptySeq
<1> HIDE DEF s, t
<1>4. /\ ~tmTimerRoutineSlave'
      /\ UNCHANGED <<tmTimerRoutine, tmTimerRate, armed, action, orgstate, killed, song>>
  BY DEF ClearSlave, handlers, signal
<1>5. QED
  BY <1>1, <1>2, <1>3, <1>4 DEF TimerInv, RestInv, SetInv, IrqInitInv, StartInv, PollInv,
     UnpollInv, StopInv, IrqDoneInv, UnsetInv, SongInv, Opening, Closing, At, Then, Running

LEMMA UnsetTimer ==
  ASSUME TypeOK, TimerInv, ClearRoutine
  PROVE  TimerInv'
<1> DEFINE t == tmResetTimer \o Tail(todo)
<1>1. /\ At("unset") /\ Len(todo) = 1 /\ Tail(todo) = <<>> /\ todo' = t
      /\ <<>> \in Seq(Operations) /\ Len(<<>>) = 0
  BY OneLess, EmptySeq DEF ClearRoutine, Doing, At, TimerInv, UnsetInv
<1>2. Len(t) = 2 /\ t[1].op = "stop" /\ t[2].op = "irqDone"
  <2>1. Len(t) = 2 + Len(<<>>) /\ t[1].op = "stop" /\ t[2].op = "irqDone"
    BY Zenon, <1>1, ResetFirst
  <2>2. QED
    BY <1>1, <2>1
<1>3. t # <<>>
  BY <1>1, <1>2
<1> HIDE DEF t
<1>4. /\ ~tmTimerRoutine'
      /\ UNCHANGED <<tmTimerRoutineSlave, tmTimerRate, armed, action, orgstate, killed, song>>
  BY DEF ClearRoutine, handlers, signal
<1>5. QED
  BY <1>1, <1>2, <1>3, <1>4 DEF TimerInv, RestInv, SetInv, IrqInitInv, StartInv, PollInv,
     UnpollInv, StopInv, IrqDoneInv, UnsetInv, SongInv, Opening, Closing, At, Then, Running

LEMMA StopTimerInv ==
  ASSUME TypeOK, TimerInv, StopTimer
  PROVE  TimerInv'
<1> DEFINE t == Tail(todo)
<1>1. /\ todo # <<>> /\ At("stop") /\ todo' = t /\ Len(todo) \in {2, 3} /\ t # <<>>
      /\ Len(t) = Len(todo) - 1 /\ t[1] = todo[2] /\ (Len(todo) = 3 => t[2] = todo[3])
  BY OneLess DEF StopTimer, Doing, At, TimerInv, StopInv
<1> HIDE DEF t
<1>2. /\ ~armed'
      /\ UNCHANGED <<tmTimerRoutine, tmTimerRoutineSlave, tmTimerRate, action, orgstate,
                     killed, song>>
  BY DEF StopTimer, routines, handlers
<1>3. QED
  BY <1>1, <1>2 DEF TimerInv, RestInv, SetInv, IrqInitInv, StartInv, PollInv,
     UnpollInv, StopInv, IrqDoneInv, UnsetInv, SongInv, Opening, Closing, At, Then

LEMMA IrqDoneTimer ==
  ASSUME TypeOK, TimerInv, IrqDone
  PROVE  TimerInv'
<1> DEFINE t == Tail(todo)
<1>1. /\ todo # <<>> /\ At("irqDone") /\ todo' = t /\ Len(todo) \in {1, 2}
      /\ Len(t) = Len(todo) - 1 /\ (t = <<>> <=> Len(todo) = 1)
      /\ Len(todo) = 2 => t[1] = todo[2]
  BY OneLess DEF IrqDone, Doing, At, TimerInv, IrqDoneInv
<1> HIDE DEF t
<1>2. /\ action' = orgstate
      /\ UNCHANGED <<tmTimerRoutine, tmTimerRoutineSlave, tmTimerRate, armed, orgstate,
                     killed, song>>
  BY DEF IrqDone, routines, handlers
<1>3. QED
  BY <1>1, <1>2 DEF TimerInv, RestInv, SetInv, IrqInitInv, StartInv, PollInv,
     UnpollInv, StopInv, IrqDoneInv, UnsetInv, SongInv, Opening, Closing, At, Then, Stopped

LEMMA OpenTimer ==
  ASSUME TypeOK, TimerInv, OpenSong
  PROVE  TimerInv'
<1>1. PICK s \in Songs, rate \in QuietRates :
        /\ song' = s
        /\ todo' = (IF s.rout THEN tmInit(TRUE, rate) ELSE <<>>)
                     \o (IF s.poll THEN pollInit ELSE <<>>)
  BY DEF OpenSong
<1>2. /\ Stopped /\ ~tmTimerRoutine /\ ~tmTimerRoutineSlave /\ ~killed
      /\ UNCHANGED <<tmTimerRoutine, tmTimerRoutineSlave, tmTimerRate, armed, action,
                     orgstate, killed, late>>
  BY DEF OpenSong, TimerInv, RestInv, routines, signal, handlers
<1>3. s # NoSong /\ (s.rout \/ s.poll)
  BY DEF Songs, NoSong
<1> DEFINE a == tmInit(TRUE, rate)
<1>4. /\ a \in Seq(Operations) /\ Len(a) = 3 /\ a[1].op = "set" /\ a[1].rout
      /\ a[2].op = "irqInit" /\ a[3].op = "start"
  BY InitOps
<1>5. /\ pollInit \in Seq(Operations) /\ Len(pollInit) = 1 /\ pollInit[1].op = "poll"
      /\ <<>> \in Seq(Operations) /\ Len(<<>>) = 0
  BY CallsType, EmptySeq DEF pollInit
<1> HIDE DEF a
<1>6. CASE s.rout
  <2> DEFINE p == IF s.poll THEN pollInit ELSE <<>>
             t == a \o p
  <2>1. /\ p \in Seq(Operations)
        /\ \/ s.poll /\ Len(p) = 1 /\ p[1].op = "poll"
           \/ ~s.poll /\ Len(p) = 0
    <3>1. CASE s.poll
      BY <1>5, <3>1
    <3>2. CASE ~s.poll
      BY <1>5, <3>2
    <3>3. QED
      BY <3>1, <3>2
  <2>2. todo' = t
    BY <1>1, <1>6 DEF a
  <2> HIDE DEF p
  <2>3. /\ Len(t) = 3 + Len(p) /\ t[1] = a[1] /\ t[2] = a[2] /\ t[3] = a[3]
        /\ \A i \in 1..Len(p) : t[3 + i] = p[i]
    BY <1>4, <2>1, InitFirst
  <2> HIDE DEF t
  <2>4. \/ s.poll /\ Len(t) = 4 /\ t[4].op = "poll"
        \/ ~s.poll /\ Len(t) = 3
    BY <2>1, <2>3
  <2>5. t # <<>> /\ t[1].op = "set" /\ t[1].rout /\ t[2].op = "irqInit" /\ t[3].op = "start"
    BY <1>4, <1>5, <2>3, <2>4
  <2>6. At("set")' /\ todo' # <<>> /\ todo'[1].op = "set"
    BY <2>2, <2>5 DEF At
  <2>7. song'.rout /\ song' # NoSong /\ Stopped' /\ ~tmTimerRoutine' /\ ~tmTimerRoutineSlave'
    BY <1>1, <1>2, <1>3, <1>6 DEF Stopped
  <2>8. \/ song'.poll /\ Len(todo') = 4 /\ todo'[4].op = "poll"
        \/ ~song'.poll /\ Len(todo') = 3
    BY <1>1, <2>2, <2>4
  <2>9. SetInv'
    BY <2>2, <2>5, <2>7, <2>8 DEF SetInv, Then
  <2>10. SongInv'
    BY <2>6, <2>7 DEF SongInv, Opening, Closing, At
  <2>11. /\ RestInv' /\ IrqInitInv' /\ StartInv' /\ PollInv' /\ UnpollInv'
         /\ StopInv' /\ IrqDoneInv' /\ UnsetInv'
    BY <2>6 DEF RestInv, IrqInitInv, StartInv, PollInv, UnpollInv, StopInv, IrqDoneInv,
       UnsetInv, At
  <2>12. QED
    BY <1>2, <2>7, <2>9, <2>10, <2>11 DEF TimerInv, Stopped
<1>7. CASE ~s.rout
  <2>1. todo' = pollInit
    <3>1. todo' = <<>> \o pollInit
      BY <1>1, <1>3, <1>7
    <3>2. QED
      BY <1>5, <3>1
  <2>2. pollInit # <<>>
    BY <1>5
  <2>3. QED
    BY <1>1, <1>2, <1>3, <1>5, <1>7, <2>1, <2>2 DEF TimerInv, RestInv, SetInv, IrqInitInv,
       StartInv, PollInv, UnpollInv, StopInv, IrqDoneInv, UnsetInv, SongInv, Opening,
       Closing, At, Then, Stopped
<1>8. QED
  BY <1>6, <1>7

LEMMA CloseTimer ==
  ASSUME TypeOK, TimerInv, CloseSong
  PROVE  TimerInv'
<1>1. /\ song' = NoSong /\ song # NoSong /\ song \in Songs /\ todo = <<>>
      /\ todo' = (IF song.poll THEN pollClose ELSE <<>>)
                   \o (IF song.rout THEN tmClose ELSE <<>>)
  BY DEF CloseSong, TypeOK
<1>2. /\ Running /\ (tmTimerRoutineSlave => song.poll) /\ (tmTimerRoutine => song.rout)
      /\ ~killed /\ tmTimerRate > 0
      /\ UNCHANGED <<tmTimerRoutine, tmTimerRoutineSlave, tmTimerRate, armed, action,
                     orgstate, killed, late>>
  BY <1>1 DEF CloseSong, TimerInv, RestInv, SongInv, At, Running, routines, signal, handlers
<1>3. song.rout \/ song.poll
  BY <1>1 DEF Songs, NoSong
<1>4. /\ pollClose \in Seq(Operations) /\ Len(pollClose) = 1 /\ pollClose[1].op = "unpoll"
      /\ tmClose \in Seq(Operations) /\ Len(tmClose) = 1 /\ tmClose[1].op = "unset"
      /\ <<>> \in Seq(Operations) /\ Len(<<>>) = 0
  BY CallsType, EmptySeq DEF pollClose, tmClose
<1>5. CASE song.poll
  <2> DEFINE p == IF song.rout THEN tmClose ELSE <<>>
             t == pollClose \o p
  <2>1. /\ p \in Seq(Operations)
        /\ \/ song.rout /\ Len(p) = 1 /\ p[1].op = "unset"
           \/ ~song.rout /\ Len(p) = 0
    <3>1. CASE song.rout
      BY <1>4, <3>1
    <3>2. CASE ~song.rout
      BY <1>4, <3>2
    <3>3. QED
      BY <3>1, <3>2
  <2>2. todo' = t
    BY <1>1, <1>5
  <2> HIDE DEF p
  <2>3. IsFront(t, pollClose, p, 1)
    <3>1. 1 \in Nat
      OBVIOUS
    <3>2. QED
      BY <1>4, <2>1, <3>1, Front
  <2> HIDE DEF t
  <2>4. Len(t) = 1 + Len(p) /\ t[1] = pollClose[1] /\ (song.rout => t[2] = p[1])
    BY <2>1, <2>3 DEF IsFront
  <2>5. t # <<>>
    BY <1>4, <2>1, <2>4
  <2>6. QED
    BY <1>1, <1>2, <1>4, <1>5, <2>1, <2>2, <2>4, <2>5 DEF TimerInv, RestInv, SetInv,
       IrqInitInv, StartInv, PollInv, UnpollInv, StopInv, IrqDoneInv, UnsetInv, SongInv,
       Opening, Closing, At, Then, Running
<1>6. CASE ~song.poll
  <2>1. todo' = tmClose
    <3>1. todo' = <<>> \o tmClose
      BY <1>1, <1>3, <1>6
    <3>2. QED
      BY <1>4, <3>1
  <2>2. tmClose # <<>>
    BY <1>4
  <2>3. QED
    BY <1>1, <1>2, <1>4, <1>6, <2>1, <2>2 DEF TimerInv, RestInv, SetInv, IrqInitInv,
       StartInv, PollInv, UnpollInv, StopInv, IrqDoneInv, UnsetInv, SongInv, Opening,
       Closing, At, Then, Running
<1>7. QED
  BY <1>5, <1>6

LEMMA StepTimer == TypeOK /\ TimerInv /\ [Next]_vars => TimerInv'
<1> SUFFICES ASSUME TypeOK, TimerInv, [Next]_vars PROVE TimerInv'
  OBVIOUS
<1>1. CASE Alarm
  <2>1. /\ armed /\ ~killed'
        /\ UNCHANGED <<tmTimerRoutine, tmTimerRoutineSlave, tmTimerRate, armed, action,
                       orgstate, todo, song>>
    BY <1>1 DEF Alarm, routines, signal, main, TimerInv
  <2>2. QED
    BY <2>1 DEF TimerInv, RestInv, SetInv, IrqInitInv, StartInv, PollInv, UnpollInv,
       StopInv, IrqDoneInv, UnsetInv, SongInv, Opening, Closing, At, Then, Stopped, Running
<1>2. CASE Handler \/ UNCHANGED vars
  <2>1. /\ late' = late \/ late' = 0
        /\ UNCHANGED <<tmTimerRoutine, tmTimerRoutineSlave, tmTimerRate, armed, action,
                       orgstate, todo, song, killed>>
    BY <1>2 DEF Handler, StoreCount, SlaveReturns, LoadGuard, Refused, Enter,
       RoutineReturns, Meter, routines, signal, main, vars, handlers
  <2>2. QED
    BY <2>1 DEF TimerInv, RestInv, SetInv, IrqInitInv, StartInv, PollInv, UnpollInv,
       StopInv, IrqDoneInv, UnsetInv, SongInv, Opening, Closing, At, Then, Stopped, Running
<1>3. CASE Call
  BY <1>3, SetTimer, IrqInitTimer, StartTimerInv, PollTimer, UnpollTimer, UnsetTimer,
     StopTimerInv, IrqDoneTimer DEF Call
<1>4. QED
  BY <1>1, <1>2, <1>3, OpenTimer, CloseTimer DEF Next

-----------------------------------------------------------------------------
LEMMA Numbers ==
  ASSUME TypeOK
  PROVE  /\ tmTimerRate \in Nat /\ tmIntCount \in Nat /\ tmIntCount < Mask
         /\ late \in Nat /\ Due \in Nat /\ depth \in Nat /\ Mask \in Nat /\ Mask > 0
<1>1. \A n \in QuietRates \cup {0, PollRate} : n \in Nat
  OBVIOUS
<1>2. tmTimerRate \in Nat /\ late \in Nat
  BY <1>1 DEF TypeOK
<1>3. \A a, b \in Nat : a * b \in Nat
  OBVIOUS
<1>4. Due \in Nat
  BY <1>2, <1>3 DEF Due
<1>5. QED
  BY <1>2, <1>4 DEF TypeOK

LEMMA InitCount == Init => CountInv
  BY DEF Init, CountInv

LEMMA AlarmCount ==
  ASSUME TypeOK, CountInv, Alarm
  PROVE  CountInv'
<1>1. /\ UNCHANGED <<tmTimerRoutineSlave, tmTimerRate, tmIntCount>>
  BY DEF Alarm, routines
<1>2. /\ tmTimerRate \in Nat /\ tmIntCount \in Nat /\ late \in Nat /\ Due \in Nat /\ depth \in Nat
  BY Numbers
<1>3. CASE action = "default"
  BY <1>1, <1>3 DEF Alarm, CountInv, Due
<1>4. CASE action = "handler" /\ tmTimerRoutineSlave
  <2>1. /\ depth' = depth + 1 /\ at'[depth + 1] = "store"
        /\ reg'[depth + 1] = tmIntCount + tmTimerRate
        /\ \A c \in 1..depth : at'[c] = at[c] /\ reg'[c] = reg[c]
        /\ late' = IF depth = 0 THEN late + 1 ELSE late
    BY <1>4 DEF Alarm, TypeOK
  <2>2. Due' = IF depth = 0 THEN Due + tmTimerRate ELSE Due
    <3>1. (late + 1) * tmTimerRate = late * tmTimerRate + tmTimerRate
      BY <1>2
    <3>2. CASE depth = 0
      BY <1>1, <2>1, <3>1, <3>2 DEF Due
    <3>3. CASE depth # 0
      BY <1>1, <2>1, <3>3 DEF Due
    <3>4. QED
      BY <3>2, <3>3
  <2>3. Due <= tmIntCount + tmTimerRate /\ (depth = 0 \/ at[1] # "store" => Due <= tmIntCount)
        /\ \A c \in 1..depth : at[c] = "store" => Due <= reg[c] /\ reg[c] >= 0
    BY <1>4 DEF CountInv
  <2>4. depth # 0 => at'[1] = at[1]
    BY <1>2, <2>1
  <2>5. Due' <= tmIntCount + tmTimerRate /\ Due' \in Nat
    BY <1>2, <2>2, <2>3
  <2>6. (depth' = 0 \/ at'[1] # "store") => Due' <= tmIntCount
    BY <1>2, <2>1, <2>2, <2>3, <2>4
  <2>7. ASSUME NEW c \in 1..depth', at'[c] = "store" PROVE Due' <= reg'[c] /\ reg'[c] >= 0
    <3>1. CASE c = depth + 1
      BY <1>2, <2>1, <2>5, <3>1
    <3>2. CASE c \in 1..depth
      BY <1>2, <2>1, <2>2, <2>3, <2>7, <3>2
    <3>3. QED
      BY <1>2, <2>1, <3>1, <3>2
  <2>8. QED
    BY <1>1, <2>5, <2>6, <2>7 DEF CountInv
<1>5. CASE ~tmTimerRoutineSlave
  BY <1>1, <1>5 DEF CountInv
<1>6. QED
  BY <1>3, <1>4, <1>5 DEF Alarm

LEMMA StoreCounts ==
  ASSUME TypeOK, CountInv, StoreCount
  PROVE  CountInv'
<1>1. /\ UNCHANGED <<tmTimerRoutineSlave, tmTimerRate, depth, reg>>
      /\ depth \in 1..Levels /\ at[depth] = "store" /\ tmIntCount' = reg[depth] % Mask
      /\ at'[depth] \in {"slave", "guard"} /\ \A c \in 1..depth-1 : at'[c] = at[c]
  BY DEF StoreCount, routines, Masked, Goto, TypeOK
<1>2. /\ tmTimerRate \in Nat /\ late \in Nat /\ Due \in Nat /\ Mask \in Nat /\ Mask > 0
      /\ reg[depth] \in Int
  BY <1>1, Numbers DEF TypeOK
<1>3. CASE ~tmTimerRoutineSlave
  BY <1>1, <1>3 DEF CountInv
<1>4. CASE tmTimerRoutineSlave
  <2>1. /\ Due <= reg[depth] /\ reg[depth] >= 0
        /\ \A c \in 1..depth : at[c] = "store" => Due <= reg[c] /\ reg[c] >= 0
    BY <1>1, <1>4 DEF CountInv
  <2>2. Due' <= tmIntCount' /\ Due' <= Due /\ Due' \in Nat /\ tmIntCount' \in Nat
    <3>1. CASE reg[depth] >= Mask
      <4>1. late' = 0
        BY <1>4, <3>1 DEF StoreCount, Calls
      <4>2. Due' = 0
        BY <1>1, <1>2, <4>1 DEF Due
      <4>3. tmIntCount' \in Nat
        BY <1>1, <1>2
      <4>4. QED
        BY <1>2, <4>2, <4>3
    <3>2. CASE reg[depth] < Mask
      <4>1. late' = late
        BY <1>2, <3>2 DEF StoreCount, Calls
      <4>2. Due' = Due
        BY <1>1, <4>1 DEF Due
      <4>3. tmIntCount' = reg[depth]
        BY <1>1, <1>2, <2>1, <3>2
      <4>4. QED
        BY <1>2, <2>1, <4>2, <4>3
    <3>3. QED
      BY <1>2, <3>1, <3>2
  <2>3. ASSUME NEW c \in 1..depth, at'[c] = "store" PROVE Due' <= reg[c] /\ reg[c] >= 0
    <3>1. c # depth /\ c \in 1..depth-1 /\ at[c] = "store" /\ reg[c] \in Int
      BY <1>1, <2>3 DEF TypeOK
    <3>2. QED
      BY <1>2, <2>1, <2>2, <3>1
  <2>4. Due' <= tmIntCount' + tmTimerRate
    <3>1. \A a, b, c \in Nat : a <= b => a <= b + c
      OBVIOUS
    <3>2. QED
      BY Zenon, <1>2, <2>2, <3>1
  <2>5. QED
    BY <1>1, <2>2, <2>3, <2>4 DEF CountInv
<1>5. QED
  BY <1>3, <1>4

LEMMA StepCounts == TypeOK /\ TimerInv /\ CountInv /\ [Next]_vars => CountInv'
<1> SUFFICES ASSUME TypeOK, TimerInv, CountInv, [Next]_vars PROVE CountInv'
  OBVIOUS
<1>1. CASE SlaveReturns \/ LoadGuard \/ Refused \/ Enter \/ RoutineReturns \/ Meter
  <2>1. /\ UNCHANGED <<tmTimerRoutineSlave, tmTimerRate, tmIntCount, late>>
        /\ depth \in 1..Levels /\ at[depth] # "store" /\ depth' \in {depth, depth - 1}
        /\ depth' = depth => at'[depth] # "store"
        /\ \A c \in 1..depth-1 : at'[c] = at[c] /\ reg'[c] = reg[c]
    BY <1>1 DEF SlaveReturns, LoadGuard, Refused, Enter, RoutineReturns, Meter, Goto,
       Return, routines, TypeOK
  <2>2. Due' = Due
    BY <2>1 DEF Due
  <2>3. QED
    BY <2>1, <2>2 DEF CountInv
<1>2. CASE OpenSong \/ CloseSong \/ IrqInit \/ StartTimer \/ StopTimer \/ IrqDone
             \/ ClearRoutine \/ UNCHANGED vars
  <2>1. UNCHANGED <<tmTimerRoutineSlave, tmTimerRate, tmIntCount, late, depth, at, reg>>
    BY <1>2 DEF OpenSong, CloseSong, IrqInit, StartTimer, StopTimer, IrqDone, ClearRoutine,
       routines, handlers, vars
  <2>2. QED
    BY <2>1 DEF CountInv, Due
<1>3. CASE ClearSlave
  BY <1>3 DEF ClearSlave, CountInv
<1>4. CASE SetRoutine \/ InstallSlave
  <2>1. depth' = 0 /\ tmIntCount' \in Nat /\ tmTimerRate' \in Nat
    <3>1. TypeOK'
      BY StepType
    <3>2. QED
      BY <1>4, <3>1, Numbers DEF SetRoutine, InstallSlave, Doing, Idle, handlers, TypeOK
  <2>2. tmTimerRoutineSlave' => late' = 0
    <3>1. ASSUME SetRoutine PROVE tmTimerRoutineSlave => late = 0
      BY <3>1, OneLess DEF SetRoutine, Doing, TimerInv, SetInv, At
    <3>2. QED
      BY <1>4, <3>1 DEF SetRoutine, InstallSlave
  <2>3. CASE tmTimerRoutineSlave'
    <3>1. Due' = 0
      <4>1. \A r \in Nat : 0 * r = 0
        OBVIOUS
      <4>2. QED
        BY Zenon, <2>1, <2>2, <2>3, <4>1 DEF Due
    <3>2. \A a, b \in Nat : 0 <= a /\ 0 <= a + b
      OBVIOUS
    <3>3. Due' <= tmIntCount' /\ Due' <= tmIntCount' + tmTimerRate'
      BY Zenon, <2>1, <3>1, <3>2
    <3>4. QED
      BY <2>1, <3>3 DEF CountInv
  <2>4. QED
    BY <2>3 DEF CountInv
<1>5. QED
  BY <1>1, <1>2, <1>3, <1>4, AlarmCount, StoreCounts DEF Next, Handler, Call

LEMMA TimerRight == Spec => [](TimerInv /\ CountInv)
<1>1. QED
  BY InitTimer, StepTimer, InitCount, StepCounts, Typed, PTL DEF Spec

(* SIGALRM never meets the default action that would end the process,      *)
(* through every order of tmInit, pollInit, pollClose and tmClose that     *)
(* opening and closing songs leads to, and between songs that action is    *)
(* back and no alarm due (stuff/timer.c, stuff/irq.c).                     *)
THEOREM NoStrayAlarm == Spec => []Disposition
<1>1. TimerInv => Disposition
  BY DEF TimerInv, RestInv, Stopped, Disposition
<1>2. QED
  BY <1>1, TimerRight, PTL

(* The slave waits no longer than the alarms its period takes, however     *)
(* deep handlers interrupt each other while they count (stuff/timer.c:     *)
(* tmIntCount).                                                            *)
THEOREM SlaveInTime == Spec => []SlaveSoon
<1>1. TypeOK /\ TimerInv /\ CountInv => SlaveSoon
  <2> SUFFICES ASSUME TypeOK, TimerInv, CountInv, tmTimerRoutineSlave, armed
               PROVE  late <= Period
    BY DEF SlaveSoon
  <2>1. /\ tmTimerRate \in Nat /\ tmTimerRate > 0 /\ tmIntCount \in Nat /\ tmIntCount < Mask
        /\ late \in Nat /\ Due \in Nat /\ Mask \in Nat
    BY Numbers DEF TimerInv
  <2>2. Due <= Mask + tmTimerRate - 1
    BY <2>1 DEF CountInv
  <2>3. \A l, r, a \in Nat : r > 0 /\ l * r <= a => l <= a \div r
    OBVIOUS
  <2>4. Mask + tmTimerRate - 1 \in Nat
    BY <2>1
  <2>5. late <= (Mask + tmTimerRate - 1) \div tmTimerRate
    BY <2>1, <2>2, <2>3, <2>4 DEF Due
  <2>6. QED
    BY <2>5 DEF Period
<1>2. QED
  BY <1>1, Typed, TimerRight, PTL
=============================================================================
