---------------------------- MODULE DevOssProofs ----------------------------
(***************************************************************************)
(* The ring of the OSS device keeps its shape for every buffer length,     *)
(* every kernel queue and every depth of nested handlers, provided that    *)
(* "cachelen-=result" cannot be interrupted half-way: because it is one    *)
(* instruction, or because no handler runs.  What the card plays is then   *)
(* what was mixed, in order (DevOss implements PlayRing), and without      *)
(* handlers the clock is right.                                            *)
(***************************************************************************)
EXTENDS DevOss, SequenceTheorems, TLAPS

AtWork(c) == pc[c] \in FlushSteps \cup QuerySteps

(* How far b lies ahead of a in the ring.                                  *)
Dist(a, b) == IF b >= a THEN b - a ELSE b - a + BufLen

(* At most one context is between busy++ and busy-- of flush, getplaypos   *)
(* or gettimer.                                                            *)
LockInv ==
  /\ \A c \in Ctx : AtWork(c) => busy = 1
  /\ (\A c \in Ctx : ~AtWork(c)) => busy = 0
  /\ \A c, d \in Ctx : AtWork(c) /\ AtWork(d) => c = d

(* At most one context mixes, and what it was told of is still free.       *)
ClipInv ==
  /\ \A c \in Ctx : pc[c] = "idle" => ~loc[c].release
  /\ \A c \in Ctx : pc[c] = "mix" => loc[c].release
  /\ \A c \in Ctx : loc[c].release => clipbusy = 1
  /\ \A c, d \in Ctx : loc[c].release /\ loc[d].release => c = d
  /\ \A c \in Ctx : pc[c] = "mix" => loc[c].n + Dist(kernpos, bufpos) < BufLen

(* The ring, when moved frames are missing from cachepos, counted from     *)
(* cachelen and kerneled from kernlen.                                     *)
RingShape(moved, counted, kerneled, stale) ==
  LET cached == cachelen - counted
      kernel == kernlen + kerneled
      first == IF cachepos + moved >= BufLen THEN cachepos + moved - BufLen
                                             ELSE cachepos + moved
  IN /\ cached >= 0
     /\ kernel >= 0
     /\ Len(queue) <= kernel
     /\ cached = Dist(first, bufpos)
     /\ kernel + cached <= Dist(kernpos, bufpos)
     /\ stale \/ kernel + cached = Dist(kernpos, bufpos)

RestInv == (\A c \in Ctx : ~AtWork(c)) => RingShape(0, 0, 0, FALSE)

(* What holds of a context at work, step by step.                          *)
Settled == {"odelay", "kernlen", "cache?", "space", "len", "len2", "write",
            "getpos"}
WorkAt(c) ==
  LET at(steps) == pc[c] \in steps
      r == loc[c].result
  IN /\ at(Settled) => RingShape(0, 0, 0, FALSE)
     /\ at({"kernpos", "getpos2"}) => RingShape(0, 0, 0, TRUE)
     /\ at({"cachepos"}) => RingShape(r, r, r, FALSE)
     /\ at({"playpos", "cachelen", "cachelen2"}) => RingShape(0, r, r, FALSE)
     /\ at({"kernlen+"}) => RingShape(0, 0, r, FALSE)
     /\ at({"kernlen", "getpos"}) =>
          loc[c].odelay <= kernlen /\ Len(queue) <= loc[c].odelay
     /\ at({"space", "len", "len2"}) => cachelen > 0
     /\ at({"len", "len2", "write"}) =>
          loc[c].n > 0 /\ loc[c].n + Len(queue) <= KernCap
     /\ at({"write"}) => loc[c].n <= cachelen /\ cachepos + loc[c].n <= BufLen
     /\ at({"cachepos", "playpos", "cachelen", "cachelen2", "kernlen+"}) => r > 0
     /\ at({"cachelen2"}) => Levels = 0 /\ loc[c].tmp = cachelen

WorkInv == \A c \in Ctx : WorkAt(c)

Locals == [odelay : Nat, n : Nat, result : Frames, tmp : Nat,
           release : BOOLEAN, timer : BOOLEAN]

(* Every variable has its type (the part of TypeOK the steps need).        *)
TypeInv ==
  /\ open \in BOOLEAN
  /\ kernpos \in Frames /\ cachepos \in Frames /\ bufpos \in Frames
  /\ cachelen \in Int /\ kernlen \in Nat
  /\ playpos \in 0..Labels-1 /\ clock \in 0..Labels-1 /\ next \in 0..Labels-1
  /\ busy \in 0..1 /\ clipbusy \in 0..1
  /\ cells \in [Frames -> 0..Silence]
  /\ queue \in Seq(0..Silence) /\ Len(queue) <= KernCap
  /\ pc \in [Ctx -> Steps]
  /\ loc \in [Ctx -> Locals]

(* A closed device has no work left and nothing to play.                   *)
OpenInv == ~open => queue = <<>> /\ Idle

IInv == TypeInv /\ OpenInv /\ LockInv /\ ClipInv /\ RestInv /\ WorkInv
-----------------------------------------------------------------------------
USE BufLenAssumption, KernCapAssumption, LabelsAssumption, LevelsAssumption,
    FlagsAssumption DEF Frames, Ctx, Main, Silence

(* The remainder of a number below twice the buffer length.                *)
LEMMA ModBufLen ==
  \A a \in 0..(2 * BufLen - 1) :
    a % BufLen = IF a < BufLen THEN a ELSE a - BufLen
OBVIOUS

LEMMA ModTwice ==
  \A a \in 0..(2 * BufLen - 1) :
    (a + BufLen) % BufLen = IF a < BufLen THEN a ELSE a - BufLen
OBVIOUS

LEMMA ModLabels == \A a \in Int : a % Labels \in 0..Labels-1
OBVIOUS

(* Behind is the distance, and stays inside the buffer.                    *)
LEMMA BehindDist ==
  \A a, b \in Frames : Behind(a, b) = Dist(b, a) /\ Dist(b, a) \in Frames
BY ModBufLen DEF Behind, Dist

(* Moving kernpos to kernlen frames before cachepos.                       *)
LEMMA KernPosMath ==
  ASSUME NEW p \in Frames, NEW c \in Frames, NEW b \in Frames,
         NEW n \in Frames, n + Dist(c, b) <= Dist(p, b)
  PROVE  n + Dist(c, b) = Dist(Dist(n, c), b)
BY DEF Dist

LEMMA InitInv == Init => IInv
<1> SUFFICES ASSUME Init PROVE IInv
  OBVIOUS
<1>1. \A c \in Ctx : ~AtWork(c) /\ pc[c] = "idle" /\ ~loc[c].release
  BY DEF Init, AtWork, FlushSteps, QuerySteps, NoLocals
<1>2. NoLocals \in Locals
  BY DEF NoLocals, Locals
<1>a. TypeInv
  <2>1. loc \in [Ctx -> Locals] /\ pc \in [Ctx -> Steps]
    BY <1>2 DEF Init, Steps
  <2>2. cells \in [Frames -> 0..Silence]
    BY DEF Init
  <2>3. queue \in Seq(0..Silence) /\ Len(queue) <= KernCap
    BY DEF Init
  <2>o. open = FALSE /\ busy = 0 /\ clipbusy = 0
    BY DEF Init
  <2>4. open \in BOOLEAN /\ busy \in 0..1 /\ clipbusy \in 0..1
    <3>1. open \in BOOLEAN
      BY <2>o, Zenon
    <3>2. busy \in 0..1 /\ clipbusy \in 0..1
      BY <2>o
    <3>3. QED BY <3>1, <3>2
  <2>n. 0 \in Frames /\ 0 \in Int /\ 0 \in Nat /\ 0 \in 0..Labels-1
    OBVIOUS
  <2>f. /\ kernpos \in Frames /\ cachepos \in Frames /\ bufpos \in Frames
        /\ cachelen \in Int /\ kernlen \in Nat
    BY <2>n DEF Init
  <2>5. playpos \in 0..Labels-1 /\ clock \in 0..Labels-1 /\ next \in 0..Labels-1
    BY DEF Init
  <2>6. QED BY <2>1, <2>2, <2>3, <2>4, <2>5, <2>f DEF TypeInv
<1>3. OpenInv /\ LockInv /\ ClipInv
  BY <1>1 DEF Init, OpenInv, Idle, LockInv, ClipInv
<1>4. RestInv
  <2>1. /\ cachelen = 0 /\ kernlen = 0 /\ cachepos = 0 /\ bufpos = 0 /\ kernpos = 0
        /\ Len(queue) = 0
    BY DEF Init
  <2>2. Dist(0, 0) = 0 /\ ~(0 + 0 >= BufLen) /\ 0 + 0 = 0 /\ 0 - 0 = 0
    BY DEF Dist
  <2>3. RingShape(0, 0, 0, FALSE)
    BY <2>1, <2>2 DEF RingShape
  <2>4. QED BY <2>3 DEF RestInv
<1>5. WorkInv
  BY <1>1 DEF WorkInv, WorkAt, Settled
<1>6. QED BY <1>a, <1>3, <1>4, <1>5 DEF IInv

-----------------------------------------------------------------------------
(* Facts about the moves of one context that every step below shares.      *)
Moves(c) == /\ pc' \in [Ctx -> Steps]
            /\ \A d \in Ctx \ {c} : pc'[d] = pc[d] /\ loc'[d] = loc[d]

LEMMA GotoMoves ==
  ASSUME TypeInv, NEW c \in Ctx, NEW s \in Steps, Goto(c, s)
  PROVE  /\ pc' \in [Ctx -> Steps] /\ pc'[c] = s
         /\ \A d \in Ctx \ {c} : pc'[d] = pc[d]
BY DEF TypeInv, Goto

(* A context at work that stays at work: it alone matters.                 *)
LEMMA WorkGoesOn ==
  ASSUME IInv, NEW c \in Ctx, AtWork(c), AtWork(c)', Moves(c), busy' = busy,
         WorkAt(c)'
  PROVE  LockInv' /\ RestInv' /\ WorkInv'
<1>1. \A d \in Ctx \ {c} : ~AtWork(d) /\ ~AtWork(d)'
  BY DEF IInv, LockInv, AtWork, Moves
<1>2. LockInv' /\ RestInv'
  BY <1>1 DEF IInv, LockInv, RestInv, AtWork
<1>3. \A d \in Ctx \ {c} : WorkAt(d)'
  BY <1>1 DEF AtWork, WorkAt, Settled, FlushSteps, QuerySteps
<1>4. QED BY <1>2, <1>3 DEF WorkInv

(* A context at work that ends: the ring is whole again.                   *)
LEMMA WorkEnds ==
  ASSUME IInv, NEW c \in Ctx, AtWork(c), ~AtWork(c)', Moves(c),
         busy' = busy - 1, RingShape(0, 0, 0, FALSE)'
  PROVE  LockInv' /\ RestInv' /\ WorkInv'
<1>1. \A d \in Ctx : ~AtWork(d)'
  BY DEF IInv, LockInv, AtWork, Moves
<1>2. busy' = 0
  BY DEF IInv, LockInv, TypeInv
<1>3. LockInv' /\ RestInv'
  BY <1>1, <1>2 DEF LockInv, RestInv, AtWork
<1>4. WorkInv'
  BY <1>1 DEF WorkInv, AtWork, WorkAt, Settled, FlushSteps, QuerySteps
<1>5. QED BY <1>3, <1>4

(* Nothing that a mixing filler relies on changes.                         *)
LEMMA ClipKept ==
  ASSUME IInv, NEW c \in Ctx, Moves(c), pc'[c] \notin {"idle", "mix"},
         loc'[c].release = loc[c].release, clipbusy' = clipbusy,
         kernpos' \in Frames, bufpos' \in Frames,
         Dist(kernpos', bufpos') <= Dist(kernpos, bufpos)
  PROVE  ClipInv'
<1>1. \A d \in Ctx : loc'[d].release = loc[d].release
  BY DEF Moves
<1>2. \A d \in Ctx : pc'[d] \in {"idle", "mix"} => d # c /\ pc'[d] = pc[d] /\ loc'[d] = loc[d]
  BY DEF Moves
<1>3. \A d \in Ctx : pc[d] = "mix" =>
        loc[d].n \in Nat /\ loc[d].n + Dist(kernpos', bufpos') < BufLen
  <2>1. Dist(kernpos, bufpos) \in Frames /\ Dist(kernpos', bufpos') \in Frames
    BY BehindDist DEF IInv, TypeInv
  <2>2. \A d \in Ctx : loc[d].n \in Nat
    BY DEF IInv, TypeInv, Locals
  <2>3. QED BY <2>1, <2>2 DEF IInv, ClipInv
<1>4. QED BY <1>1, <1>2, <1>3 DEF IInv, ClipInv

(* A context at work takes a step and stays at work.                       *)
LEMMA WorkStep ==
  ASSUME IInv, NEW c \in Ctx, AtWork(c), AtWork(c)', Moves(c), TypeInv',
         loc'[c].release = loc[c].release,
         UNCHANGED <<open, busy, clipbusy, bufpos>>,
         Dist(kernpos', bufpos') <= Dist(kernpos, bufpos),
         WorkAt(c)'
  PROVE  IInv'
<1>1. kernpos' \in Frames /\ bufpos' \in Frames
  BY DEF TypeInv
<1>2. pc'[c] \notin {"idle", "mix"} /\ pc[c] # "idle"
  BY DEF AtWork, FlushSteps, QuerySteps
<1>3. ClipInv'
  BY <1>1, <1>2, ClipKept
<1>4. open'
  BY <1>2 DEF IInv, OpenInv, Idle
<1>5. LockInv' /\ RestInv' /\ WorkInv'
  BY WorkGoesOn
<1>6. QED BY <1>3, <1>4, <1>5 DEF IInv, OpenInv

(* Leaving the routine.                                                    *)
LEMMA ReturnMoves ==
  ASSUME TypeInv, NEW c \in Ctx, Return(c)
  PROVE  /\ pc' \in [Ctx -> Steps] /\ pc'[c] = "idle" /\ Moves(c)
         /\ loc' \in [Ctx -> Locals]
         /\ ~loc'[c].release /\ clipbusy' \in 0..1
<1>1. NoLocals \in Locals
  BY DEF NoLocals, Locals
<1>2. "idle" \in Steps
  BY DEF Steps
<1>3. ~NoLocals.release
  BY DEF NoLocals, Locals
<1>4. pc' \in [Ctx -> Steps] /\ pc'[c] = "idle" /\ \A d \in Ctx \ {c} : pc'[d] = pc[d]
  BY <1>2, GotoMoves DEF Return
<1>5. \A d \in Ctx \ {c} : loc'[d] = loc[d]
  BY DEF Return, TypeInv
<1>6. loc'[c] = NoLocals
  BY DEF Return, TypeInv
<1>7. loc' \in [Ctx -> Locals]
  BY <1>1 DEF Return, TypeInv
<1>8. clipbusy' \in 0..1
  BY DEF Return, TypeInv
<1>9. QED BY <1>3, <1>4, <1>5, <1>6, <1>7, <1>8 DEF Moves

LEMMA ReturnClip ==
  ASSUME IInv, NEW c \in Ctx, Return(c), pc[c] \notin {"idle", "mix"},
         kernpos' \in Frames, bufpos' \in Frames,
         Dist(kernpos', bufpos') <= Dist(kernpos, bufpos)
  PROVE  ClipInv'
<1>1. pc'[c] = "idle" /\ Moves(c) /\ ~loc'[c].release
  BY ReturnMoves DEF IInv
<1>2. \A d \in Ctx : loc'[d].release => d # c /\ loc[d].release /\ loc'[d] = loc[d]
  BY <1>1 DEF Moves
<1>3. \A d \in Ctx : pc'[d] = "mix" => d # c /\ pc[d] = "mix" /\ loc'[d] = loc[d]
  BY <1>1 DEF Moves
<1>4. \A d \in Ctx : pc'[d] = "idle" => ~loc'[d].release
  BY <1>1 DEF Moves, IInv, ClipInv
<1>5. \A d \in Ctx : loc'[d].release => clipbusy' = 1
  BY <1>2 DEF Return, IInv, ClipInv
<1>6. \A d, e \in Ctx : loc'[d].release /\ loc'[e].release => d = e
  BY <1>2 DEF IInv, ClipInv
<1>7. \A d \in Ctx : pc'[d] = "mix" => loc'[d].n + Dist(kernpos', bufpos') < BufLen
  <2>1. Dist(kernpos, bufpos) \in Frames /\ Dist(kernpos', bufpos') \in Frames
    BY BehindDist DEF IInv, TypeInv
  <2>2. \A d \in Ctx : loc[d].n \in Nat
    BY DEF IInv, TypeInv, Locals
  <2>3. QED BY <1>3, <2>1, <2>2 DEF IInv, ClipInv
<1>8. \A d \in Ctx : pc'[d] = "mix" => loc'[d].release
  BY <1>3 DEF IInv, ClipInv
<1>9. QED BY <1>4, <1>5, <1>6, <1>7, <1>8 DEF ClipInv

(* A context at work returns, and the ring is whole.                       *)
LEMMA WorkReturn ==
  ASSUME IInv, NEW c \in Ctx, AtWork(c), Return(c), busy' = busy - 1, TypeInv',
         UNCHANGED <<open, bufpos>>,
         Dist(kernpos', bufpos') <= Dist(kernpos, bufpos),
         RingShape(0, 0, 0, FALSE)'
  PROVE  IInv'
<1>1. pc[c] \notin {"idle", "mix"}
  BY DEF AtWork, FlushSteps, QuerySteps
<1>2. ClipInv'
  BY <1>1, ReturnClip DEF TypeInv
<1>3. open'
  BY <1>1 DEF IInv, OpenInv, Idle
<1>4. ~AtWork(c)' /\ Moves(c)
  BY ReturnMoves DEF IInv, AtWork, FlushSteps, QuerySteps
<1>5. LockInv' /\ RestInv' /\ WorkInv'
  BY <1>4, WorkEnds
<1>6. QED BY <1>2, <1>3, <1>5 DEF IInv, OpenInv

(* The numbers the steps below calculate with.                             *)
LEMMA Numbers ==
  ASSUME TypeInv
  PROVE  /\ kernpos \in Frames /\ cachepos \in Frames /\ bufpos \in Frames
         /\ cachelen \in Int /\ kernlen \in Nat /\ kernlen \in Int /\ Len(queue) \in Nat
         /\ Dist(kernpos, bufpos) \in Frames /\ Dist(cachepos, bufpos) \in Frames
         /\ \A c \in Ctx : /\ loc[c].n \in Nat /\ loc[c].odelay \in Nat
                          /\ loc[c].result \in Frames /\ loc[c].tmp \in Nat
<1>1. kernpos \in Frames /\ cachepos \in Frames /\ bufpos \in Frames
  BY DEF TypeInv
<1>2. cachelen \in Int /\ kernlen \in Nat /\ kernlen \in Int /\ Len(queue) \in Nat
  BY DEF TypeInv
<1>3. Dist(kernpos, bufpos) \in Frames /\ Dist(cachepos, bufpos) \in Frames
  BY <1>1, BehindDist
<1>4. \A c \in Ctx : /\ loc[c].n \in Nat /\ loc[c].odelay \in Nat
                    /\ loc[c].result \in Frames /\ loc[c].tmp \in Nat
  BY DEF TypeInv, Locals
<1>5. QED BY <1>1, <1>2, <1>3, <1>4

(* A step that changes the two lengths, a place and locals.                *)
LEMMA TypeCounts ==
  ASSUME TypeInv, cachelen' \in Int, kernlen' \in Nat,
         pc' \in [Ctx -> Steps], loc' \in [Ctx -> Locals],
         UNCHANGED <<open, kernpos, cachepos, bufpos, playpos, busy, clipbusy,
                     cells, next, queue, clock>>
  PROVE  TypeInv'
<1>1. /\ open' = open /\ kernpos' = kernpos /\ cachepos' = cachepos
      /\ bufpos' = bufpos /\ playpos' = playpos /\ busy' = busy
      /\ clipbusy' = clipbusy /\ cells' = cells /\ next' = next
      /\ queue' = queue /\ clock' = clock
  OBVIOUS
<1>2. open' \in BOOLEAN /\ kernpos' \in Frames /\ cachepos' \in Frames /\ bufpos' \in Frames
  BY <1>1 DEF TypeInv
<1>3. playpos' \in 0..Labels-1 /\ clock' \in 0..Labels-1 /\ next' \in 0..Labels-1
  BY <1>1 DEF TypeInv
<1>4. busy' \in 0..1 /\ clipbusy' \in 0..1 /\ cells' \in [Frames -> 0..Silence]
  BY <1>1 DEF TypeInv
<1>5. queue' \in Seq(0..Silence) /\ Len(queue') <= KernCap
  BY <1>1 DEF TypeInv
<1>6. QED BY <1>2, <1>3, <1>4, <1>5 DEF TypeInv

(* When nothing is pending the lengths are the distances.                  *)
LEMMA ShapeCache ==
  ASSUME TypeInv, RingShape(0, 0, 0, FALSE)
  PROVE  cachelen = Dist(cachepos, bufpos)
<1>1. cachelen \in Int /\ cachepos \in Frames
  BY DEF TypeInv
<1>2. cachelen - 0 = cachelen /\ cachepos + 0 = cachepos /\ ~(cachepos >= BufLen)
  BY <1>1
<1>3. QED BY <1>2 DEF RingShape

(* A lower kernlen leaves kernpos behind.                                  *)
LEMMA LowerKernLen ==
  ASSUME TypeInv, RingShape(0, 0, 0, FALSE),
         kernlen' \in Nat, kernlen' <= kernlen, Len(queue) <= kernlen',
         UNCHANGED <<kernpos, cachepos, bufpos, cachelen, queue>>
  PROVE  RingShape(0, 0, 0, TRUE)'
<1>1. /\ kernpos' = kernpos /\ cachepos' = cachepos /\ bufpos' = bufpos
      /\ cachelen' = cachelen /\ queue' = queue
  OBVIOUS
<1>2. /\ cachelen \in Int /\ kernlen \in Nat /\ cachepos \in Frames
      /\ Dist(kernpos, bufpos) \in Frames
  BY Numbers
<1>3. /\ cachelen - 0 = cachelen /\ kernlen + 0 = kernlen /\ kernlen' + 0 = kernlen'
      /\ cachepos + 0 = cachepos /\ ~(cachepos >= BufLen)
  <2>1. \A i \in Int : i - 0 = i /\ i + 0 = i
    OBVIOUS
  <2>2. cachelen \in Int /\ kernlen \in Int /\ kernlen' \in Int /\ cachepos \in Int
    BY <1>2
  <2>3. ~(cachepos >= BufLen)
    BY <1>2
  <2>4. QED BY <2>1, <2>2, <2>3
<1>4. cachelen >= 0 /\ kernlen + cachelen = Dist(kernpos, bufpos)
  BY <1>2, <1>3 DEF RingShape
<1>5. kernlen' >= 0 /\ kernlen' + cachelen <= Dist(kernpos, bufpos)
  BY <1>2, <1>4
<1>6. cachelen = Dist(cachepos, bufpos)
  BY ShapeCache
<1>7. Dist(kernpos', bufpos') = Dist(kernpos, bufpos)
      /\ Dist(cachepos', bufpos') = Dist(cachepos, bufpos) /\ Len(queue') = Len(queue)
  BY <1>1
<1>8. QED BY <1>1, <1>3, <1>4, <1>5, <1>6, <1>7 DEF RingShape

(* Less than n fits where n fits.                                          *)
LEMMA LessFits ==
  ASSUME NEW r \in Int, NEW n \in Int, NEW q \in Int, NEW k \in Int,
         r <= n, n + q <= k
  PROVE  r + q <= k /\ q + r <= k
OBVIOUS

(* A cap keeps below both of its bounds.                                   *)
LEMMA CapBounds ==
  ASSUME NEW c \in Ctx, loc[c].n \in Nat, loc[c].n > 0, NEW m \in Int
  PROVE  /\ Capped(c, m) \in Int /\ Capped(c, m) <= loc[c].n /\ Capped(c, m) <= m
         /\ m > 0 => Capped(c, m) \in Nat /\ Capped(c, m) > 0
BY DEF Capped

(* Storing locals.                                                         *)
LEMMA SetRoom ==
  ASSUME TypeInv, NEW c \in Ctx, NEW v \in Nat, NEW b \in BOOLEAN,
         loc' = [loc EXCEPT ![c].n = v, ![c].release = b]
  PROVE  /\ loc' \in [Ctx -> Locals] /\ loc'[c].n = v /\ loc'[c].release = b
         /\ \A d \in Ctx \ {c} : loc'[d] = loc[d]
<1>1. loc \in [Ctx -> Locals]
  BY DEF TypeInv
<1>2. \A r \in Locals :
        LET t == [[r EXCEPT !.n = v] EXCEPT !.release = b]
        IN t \in Locals /\ t.n = v /\ t.release = b
  BY DEF Locals
<1> DEFINE t == [[loc[c] EXCEPT !.n = v] EXCEPT !.release = b]
<1>3. t \in Locals /\ t.n = v /\ t.release = b
  BY <1>1, <1>2
<1>4. loc' = [loc EXCEPT ![c] = t]
  BY <1>1
<1> HIDE DEF t
<1>5. loc' \in [Ctx -> Locals]
  BY <1>1, <1>3, <1>4
<1>6. loc'[c] = t /\ \A d \in Ctx \ {c} : loc'[d] = loc[d]
  BY <1>1, <1>4
<1>7. QED BY <1>3, <1>5, <1>6

LEMMA SetClock ==
  ASSUME TypeInv, NEW c \in Ctx, NEW v \in Nat, NEW w \in Nat,
         loc' = [loc EXCEPT ![c].tmp = v, ![c].n = w, ![c].timer = TRUE]
  PROVE  /\ loc' \in [Ctx -> Locals] /\ loc'[c].release = loc[c].release
         /\ \A d \in Ctx \ {c} : loc'[d] = loc[d]
<1>1. loc \in [Ctx -> Locals]
  BY DEF TypeInv
<1>2. \A r \in Locals :
        LET t == [[[r EXCEPT !.tmp = v] EXCEPT !.n = w] EXCEPT !.timer = TRUE]
        IN t \in Locals /\ t.release = r.release
  BY DEF Locals
<1> DEFINE t == [[[loc[c] EXCEPT !.tmp = v] EXCEPT !.n = w] EXCEPT !.timer = TRUE]
<1>3. t \in Locals /\ t.release = loc[c].release
  BY <1>1, <1>2
<1>4. loc' = [loc EXCEPT ![c] = t]
  BY <1>1
<1> HIDE DEF t
<1>5. loc' \in [Ctx -> Locals]
  BY <1>1, <1>3, <1>4
<1>6. loc'[c] = t /\ \A d \in Ctx \ {c} : loc'[d] = loc[d]
  BY <1>1, <1>4
<1>7. QED BY <1>3, <1>5, <1>6

LEMMA SetN ==
  ASSUME TypeInv, NEW c \in Ctx, NEW v \in Nat, Set(c, "n", v)
  PROVE  /\ loc' \in [Ctx -> Locals] /\ loc'[c].n = v
         /\ loc'[c].release = loc[c].release
         /\ \A d \in Ctx \ {c} : loc'[d] = loc[d]
BY DEF TypeInv, Set, Locals

LEMMA SetOdelay ==
  ASSUME TypeInv, NEW c \in Ctx, NEW v \in Nat, Set(c, "odelay", v)
  PROVE  /\ loc' \in [Ctx -> Locals] /\ loc'[c].odelay = v
         /\ loc'[c].release = loc[c].release
         /\ \A d \in Ctx \ {c} : loc'[d] = loc[d]
BY DEF TypeInv, Set, Locals

LEMMA SetTmp ==
  ASSUME TypeInv, NEW c \in Ctx, NEW v \in Nat, Set(c, "tmp", v)
  PROVE  /\ loc' \in [Ctx -> Locals] /\ loc'[c].tmp = v
         /\ loc'[c].result = loc[c].result /\ loc'[c].n = loc[c].n
         /\ loc'[c].release = loc[c].release
         /\ \A d \in Ctx \ {c} : loc'[d] = loc[d]
BY DEF TypeInv, Set, Locals

LEMMA SetResult ==
  ASSUME TypeInv, NEW c \in Ctx, NEW v \in Frames, Set(c, "result", v)
  PROVE  /\ loc' \in [Ctx -> Locals] /\ loc'[c].result = v
         /\ loc'[c].release = loc[c].release
         /\ \A d \in Ctx \ {c} : loc'[d] = loc[d]
BY DEF TypeInv, Set, Locals

-----------------------------------------------------------------------------
(* One lemma for each step of flush and of the queries.                    *)
LEMMA LeaveInv ==
  ASSUME IInv, NEW c \in Ctx, AtWork(c), LeaveFlush(c), RingShape(0, 0, 0, FALSE)
  PROVE  IInv'
<1>1. busy' = busy - 1 /\ Return(c)
      /\ UNCHANGED <<open, kernpos, cachepos, bufpos, cachelen, kernlen, playpos,
                     cells, next, queue, clock>>
  BY DEF LeaveFlush, positions
<1>2. busy' = 0
  BY <1>1 DEF IInv, LockInv
<1>a. /\ pc' \in [Ctx -> Steps] /\ clipbusy' \in 0..1
      /\ loc' \in [Ctx -> Locals]
  BY <1>1, ReturnMoves DEF IInv
<1>3. TypeInv'
  BY <1>1, <1>2, <1>a DEF IInv, TypeInv
<1>4. RingShape(0, 0, 0, FALSE)'
  BY <1>1 DEF RingShape, Dist
<1>5. Dist(kernpos', bufpos') <= Dist(kernpos, bufpos)
  BY <1>1, Numbers DEF IInv
<1>6. QED BY <1>1, <1>3, <1>4, <1>5, WorkReturn

LEMMA KernPosInv ==
  ASSUME IInv, NEW c \in Ctx, FlushKernPos(c)
  PROVE  IInv'
<1>1. AtWork(c) /\ AtWork(c)' /\ Moves(c) /\ pc'[c] = "cache?"
  BY GotoMoves DEF FlushKernPos, IInv, TypeInv, AtWork, Moves, Steps, FlushSteps
<1>2. RingShape(0, 0, 0, TRUE)
  BY DEF FlushKernPos, IInv, WorkInv, WorkAt
<1>3. /\ kernlen \in Frames /\ kernlen >= 0 /\ cachelen >= 0
      /\ kernlen + cachelen <= Dist(kernpos, bufpos)
      /\ cachelen = Dist(cachepos, bufpos) /\ Len(queue) <= kernlen
  BY <1>2, Numbers DEF IInv, RingShape
<1>4. kernpos' = Dist(kernlen, cachepos) /\ kernpos' \in Frames
  BY <1>3, BehindDist DEF FlushKernPos, IInv, TypeInv
<1>5. kernlen + cachelen = Dist(kernpos', bufpos)
  BY <1>3, <1>4, Numbers, KernPosMath DEF IInv
<1>6. UNCHANGED <<open, cachepos, bufpos, cachelen, kernlen, playpos,
                 busy, clipbusy, cells, next, queue, clock, loc>>
  BY DEF FlushKernPos
<1>7. TypeInv'
  BY <1>1, <1>4, <1>6 DEF IInv, TypeInv, Moves
<1>8. RingShape(0, 0, 0, FALSE)'
  BY <1>3, <1>5, <1>6, Numbers DEF IInv, RingShape
<1>9. WorkAt(c)'
  BY <1>1, <1>8 DEF WorkAt, Settled
<1>10. Dist(kernpos', bufpos') <= Dist(kernpos, bufpos)
  BY <1>3, <1>5, <1>6
<1>11. QED BY <1>1, <1>6, <1>7, <1>9, <1>10, WorkStep

LEMMA OdelayInv ==
  ASSUME IInv, NEW c \in Ctx, FlushOdelay(c)
  PROVE  IInv'
<1>1. AtWork(c) /\ RingShape(0, 0, 0, FALSE)
  BY DEF FlushOdelay, AtWork, FlushSteps, IInv, WorkInv, WorkAt, Settled
<1>2. CASE LeaveFlush(c)
  BY <1>1, <1>2, LeaveInv
<1>3. CASE /\ Goto(c, "kernlen")
           /\ Set(c, "odelay", Len(queue))
           /\ UNCHANGED <<open, positions, busy, clipbusy, cells, next, queue, clock>>
  <2>1. UNCHANGED <<open, kernpos, cachepos, bufpos, cachelen, kernlen, playpos,
                   busy, clipbusy, cells, next, queue, clock>>
    BY <1>3 DEF positions
  <2>2. /\ loc' \in [Ctx -> Locals] /\ loc'[c].odelay = Len(queue)
        /\ loc'[c].release = loc[c].release /\ \A d \in Ctx \ {c} : loc'[d] = loc[d]
    BY <1>3, SetOdelay, Numbers DEF IInv
  <2>3. pc' \in [Ctx -> Steps] /\ pc'[c] = "kernlen" /\ \A d \in Ctx \ {c} : pc'[d] = pc[d]
    BY <1>3, GotoMoves DEF IInv, Steps, FlushSteps
  <2>4. TypeInv'
    BY <2>1, <2>2, <2>3 DEF IInv, TypeInv
  <2>5. RingShape(0, 0, 0, FALSE)' /\ Len(queue) <= kernlen
    BY <1>1, <2>1, Numbers DEF IInv, RingShape, Dist
  <2>a. loc'[c].odelay <= kernlen' /\ Len(queue') <= loc'[c].odelay
    BY <2>1, <2>2, <2>5, Numbers DEF IInv
  <2>6. WorkAt(c)'
    BY <2>3, <2>5, <2>a DEF WorkAt, Settled
  <2>7. Dist(kernpos', bufpos') <= Dist(kernpos, bufpos)
    BY <2>1, Numbers DEF IInv
  <2>8. AtWork(c)' /\ Moves(c)
    BY <2>2, <2>3 DEF AtWork, FlushSteps, Moves
  <2>9. QED BY <1>1, <2>1, <2>2, <2>4, <2>6, <2>7, <2>8, WorkStep
<1>4. QED BY <1>2, <1>3 DEF FlushOdelay

LEMMA KernLenInv ==
  ASSUME IInv, NEW c \in Ctx, FlushKernLen(c)
  PROVE  IInv'
<1>1. /\ AtWork(c) /\ RingShape(0, 0, 0, FALSE)
      /\ loc[c].odelay <= kernlen /\ Len(queue) <= loc[c].odelay
  BY DEF FlushKernLen, AtWork, FlushSteps, IInv, WorkInv, WorkAt, Settled
<1>2. UNCHANGED <<open, kernpos, cachepos, bufpos, cachelen, playpos,
                 busy, clipbusy, cells, next, queue, clock, loc>>
  BY DEF FlushKernLen
<1>3. kernlen' = loc[c].odelay /\ kernlen' \in Nat
  BY <1>1, Numbers DEF FlushKernLen, IInv
<1>4. /\ loc[c].odelay < kernlen => Goto(c, "kernpos")
      /\ ~(loc[c].odelay < kernlen) => Goto(c, "cache?") /\ kernlen' = kernlen
  BY DEF FlushKernLen
<1>5. /\ pc' \in [Ctx -> Steps] /\ \A d \in Ctx \ {c} : pc'[d] = pc[d]
      /\ \/ pc'[c] = "kernpos"
         \/ pc'[c] = "cache?" /\ kernlen' = kernlen
  BY <1>4, GotoMoves DEF IInv, Steps, FlushSteps
<1>6. TypeInv'
  <2>1. cachelen' \in Int /\ loc' \in [Ctx -> Locals]
    BY <1>2 DEF IInv, TypeInv
  <2>2. QED BY <1>2, <1>3, <1>5, <2>1, TypeCounts DEF IInv
<1>7. /\ RingShape(0, 0, 0, TRUE)'
      /\ kernlen' = kernlen => RingShape(0, 0, 0, FALSE)'
  <2>1. RingShape(0, 0, 0, TRUE)'
    BY <1>1, <1>2, <1>3, LowerKernLen DEF IInv
  <2>2. ASSUME kernlen' = kernlen PROVE RingShape(0, 0, 0, FALSE)'
    BY <1>1, <1>2, <2>2 DEF RingShape, Dist
  <2>3. QED BY <2>1, <2>2
<1>8. WorkAt(c)'
  BY <1>5, <1>7 DEF WorkAt, Settled
<1>9. AtWork(c)' /\ Moves(c)
  BY <1>2, <1>5 DEF AtWork, FlushSteps, Moves
<1>10. Dist(kernpos', bufpos') <= Dist(kernpos, bufpos)
  BY <1>2, Numbers DEF IInv
<1>11. QED BY <1>1, <1>2, <1>6, <1>8, <1>9, <1>10, WorkStep

LEMMA CacheInv ==
  ASSUME IInv, NEW c \in Ctx, FlushCache(c)
  PROVE  IInv'
<1>1. AtWork(c) /\ RingShape(0, 0, 0, FALSE)
  BY DEF FlushCache, AtWork, FlushSteps, IInv, WorkInv, WorkAt, Settled
<1>2. CASE LeaveFlush(c)
  BY <1>1, <1>2, LeaveInv
<1>3. CASE /\ cachelen # 0
           /\ Goto(c, "space")
           /\ UNCHANGED <<open, positions, busy, clipbusy, cells, next, queue, clock, loc>>
  <2>1. UNCHANGED <<open, kernpos, cachepos, bufpos, cachelen, kernlen, playpos,
                   busy, clipbusy, cells, next, queue, clock, loc>>
    BY <1>3 DEF positions
  <2>2. pc' \in [Ctx -> Steps] /\ pc'[c] = "space" /\ \A d \in Ctx \ {c} : pc'[d] = pc[d]
    BY <1>3, GotoMoves DEF IInv, Steps, FlushSteps
  <2>3. TypeInv'
    BY <2>1, <2>2 DEF IInv, TypeInv
  <2>4. RingShape(0, 0, 0, FALSE)' /\ cachelen' > 0
    BY <1>1, <1>3, <2>1, Numbers DEF IInv, RingShape, Dist
  <2>5. WorkAt(c)'
    BY <2>2, <2>4 DEF WorkAt, Settled
  <2>6. Dist(kernpos', bufpos') <= Dist(kernpos, bufpos)
    BY <2>1, Numbers DEF IInv
  <2>7. AtWork(c)' /\ Moves(c)
    BY <2>1, <2>2 DEF AtWork, FlushSteps, Moves
  <2>8. QED BY <1>1, <2>1, <2>3, <2>5, <2>6, <2>7, WorkStep
<1>4. QED BY <1>2, <1>3 DEF FlushCache

(* The steps that only store n: everything else stays as it is.            *)
LEMMA StoreN ==
  ASSUME IInv, NEW c \in Ctx, AtWork(c), RingShape(0, 0, 0, FALSE), cachelen > 0,
         NEW v \in Nat, Set(c, "n", v) \/ (UNCHANGED loc /\ v = loc[c].n),
         NEW s \in {"len", "len2", "write"}, Goto(c, s),
         v > 0, v + Len(queue) <= KernCap,
         s = "write" => v <= cachelen /\ cachepos + v <= BufLen,
         UNCHANGED <<open, positions, busy, clipbusy, cells, next, queue, clock>>
  PROVE  IInv'
<1>1. UNCHANGED <<open, kernpos, cachepos, bufpos, cachelen, kernlen, playpos,
                 busy, clipbusy, cells, next, queue, clock>>
  BY DEF positions
<1>2. /\ loc' \in [Ctx -> Locals] /\ loc'[c].n = v
      /\ loc'[c].release = loc[c].release /\ \A d \in Ctx \ {c} : loc'[d] = loc[d]
  BY SetN DEF IInv, TypeInv
<1>3. pc' \in [Ctx -> Steps] /\ pc'[c] = s /\ \A d \in Ctx \ {c} : pc'[d] = pc[d]
  BY GotoMoves DEF IInv, Steps, FlushSteps
<1>4. TypeInv'
  BY <1>1, <1>2, <1>3 DEF IInv, TypeInv
<1>5. RingShape(0, 0, 0, FALSE)' /\ cachelen' > 0
  BY <1>1 DEF RingShape, Dist
<1>6. /\ loc'[c].n > 0 /\ loc'[c].n + Len(queue') <= KernCap
      /\ s = "write" => loc'[c].n <= cachelen' /\ cachepos' + loc'[c].n <= BufLen
  BY <1>1, <1>2
<1>7. WorkAt(c)'
  BY <1>3, <1>5, <1>6 DEF WorkAt, Settled
<1>8. AtWork(c)' /\ Moves(c)
  BY <1>2, <1>3 DEF AtWork, FlushSteps, Moves
<1>9. Dist(kernpos', bufpos') <= Dist(kernpos, bufpos)
  BY <1>1, Numbers DEF IInv
<1>10. QED BY <1>1, <1>2, <1>4, <1>7, <1>8, <1>9, WorkStep

LEMMA SpaceInv ==
  ASSUME IInv, NEW c \in Ctx, FlushSpace(c)
  PROVE  IInv'
<1>1. AtWork(c) /\ RingShape(0, 0, 0, FALSE) /\ cachelen > 0
  BY DEF FlushSpace, AtWork, FlushSteps, IInv, WorkInv, WorkAt, Settled
<1> DEFINE space == KernCap - Len(queue)
<1>2. CASE LeaveFlush(c)
  BY <1>1, <1>2, LeaveInv
<1>3. CASE /\ space # 0
           /\ Goto(c, "len")
           /\ Set(c, "n", space)
           /\ UNCHANGED <<open, positions, busy, clipbusy, cells, next, queue, clock>>
  <2>1. space \in Nat /\ space > 0 /\ space + Len(queue) <= KernCap
    BY <1>3, Numbers DEF IInv, TypeInv
  <2> HIDE DEF space
  <2>2. QED BY <1>1, <1>3, <2>1, StoreN
<1>4. QED BY <1>2, <1>3 DEF FlushSpace

LEMMA LenInv ==
  ASSUME IInv, NEW c \in Ctx, FlushLen(c)
  PROVE  IInv'
<1>a. /\ loc[c].n \in Nat /\ Len(queue) \in Nat /\ cachelen \in Int
      /\ cachepos \in Frames /\ bufpos \in Frames /\ KernCap \in Nat
  BY Numbers DEF IInv
<1>1. /\ AtWork(c) /\ RingShape(0, 0, 0, FALSE) /\ cachelen > 0
      /\ loc[c].n > 0 /\ loc[c].n + Len(queue) <= KernCap
  BY DEF FlushLen, AtWork, FlushSteps, IInv, WorkInv, WorkAt, Settled
<1>2. cachelen = Dist(cachepos, bufpos)
  BY <1>1, ShapeCache DEF IInv
<1>3. UNCHANGED <<open, positions, busy, clipbusy, cells, next, queue, clock>>
  BY DEF FlushLen
<1>4. CASE bufpos <= cachepos /\ Goto(c, "write") /\ Set(c, "n", Capped(c, BufLen - cachepos))
  <2> DEFINE n == Capped(c, BufLen - cachepos)
  <2>1. n \in Nat /\ n > 0 /\ n <= loc[c].n /\ n <= BufLen - cachepos
    <3>1. BufLen - cachepos \in Int /\ BufLen - cachepos > 0
      BY <1>a
    <3>2. QED BY <1>1, <1>a, <3>1, CapBounds
  <2>2. BufLen - cachepos <= cachelen
    BY <1>1, <1>2, <1>4, <1>a DEF Dist
  <2> HIDE DEF n
  <2>3. n + Len(queue) <= KernCap /\ n <= cachelen /\ cachepos + n <= BufLen
    <3>1. n + Len(queue) <= KernCap
      <4>1. n \in Int /\ loc[c].n \in Int /\ Len(queue) \in Int /\ KernCap \in Int
        BY <1>a, <2>1
      <4>2. n <= loc[c].n /\ loc[c].n + Len(queue) <= KernCap
        BY <1>1, <2>1
      <4>3. QED BY <4>1, <4>2, LessFits
    <3>2. n <= cachelen
      BY <1>a, <2>1, <2>2
    <3>3. cachepos + n <= BufLen
      BY <1>a, <2>1
    <3>4. QED BY <3>1, <3>2, <3>3
  <2>4. Set(c, "n", n)
    BY <1>4 DEF n
  <2>5. QED BY <1>1, <1>3, <1>4, <2>1, <2>3, <2>4, StoreN
<1>5. CASE bufpos > cachepos /\ Goto(c, "len2") /\ UNCHANGED loc
  BY <1>1, <1>3, <1>5, Numbers, StoreN DEF IInv
<1>6. QED BY <1>4, <1>5 DEF FlushLen

LEMMA Len2Inv ==
  ASSUME IInv, NEW c \in Ctx, FlushLen2(c)
  PROVE  IInv'
<1>a. /\ loc[c].n \in Nat /\ Len(queue) \in Nat /\ cachelen \in Int
      /\ cachepos \in Frames /\ bufpos \in Frames /\ KernCap \in Nat
  BY Numbers DEF IInv
<1>1. /\ AtWork(c) /\ RingShape(0, 0, 0, FALSE) /\ cachelen > 0
      /\ loc[c].n > 0 /\ loc[c].n + Len(queue) <= KernCap
  BY DEF FlushLen2, AtWork, FlushSteps, IInv, WorkInv, WorkAt, Settled
<1> DEFINE n == Capped(c, bufpos - cachepos)
<1>2. CASE LeaveFlush(c)
  BY <1>1, <1>2, LeaveInv
<1>3. CASE /\ n > 0
           /\ Goto(c, "write")
           /\ Set(c, "n", n)
           /\ UNCHANGED <<open, positions, busy, clipbusy, cells, next, queue, clock>>
  <2>1. n \in Nat /\ n > 0 /\ n <= loc[c].n /\ n <= bufpos - cachepos
    <3>1. bufpos - cachepos \in Int
      BY <1>a
    <3>2. n \in Int /\ n <= loc[c].n /\ n <= bufpos - cachepos
      BY <1>1, <1>a, <3>1, CapBounds
    <3>3. QED BY <1>3, <3>2
  <2>2. cachelen = Dist(cachepos, bufpos)
    BY <1>1, ShapeCache DEF IInv
  <2> HIDE DEF n
  <2>3. n <= cachelen /\ cachepos + n <= BufLen /\ n + Len(queue) <= KernCap
    <3>1. n + Len(queue) <= KernCap
      <4>1. n \in Int /\ loc[c].n \in Int /\ Len(queue) \in Int /\ KernCap \in Int
        BY <1>a, <2>1
      <4>2. n <= loc[c].n /\ loc[c].n + Len(queue) <= KernCap
        BY <1>1, <2>1
      <4>3. QED BY <4>1, <4>2, LessFits
    <3>2. n <= cachelen
      BY <1>a, <2>1, <2>2 DEF Dist
    <3>3. cachepos + n <= BufLen
      BY <1>a, <2>1
    <3>4. QED BY <3>1, <3>2, <3>3
  <2>4. QED BY <1>1, <1>3, <2>1, <2>3, StoreN
<1>4. QED BY <1>2, <1>3 DEF FlushLen2

(* write() hands frames over that cachepos, cachelen and kernlen do not    *)
(* show yet.                                                               *)
LEMMA WriteInv ==
  ASSUME IInv, NEW c \in Ctx, FlushWrite(c)
  PROVE  IInv'
<1>a. /\ loc[c].n \in Nat /\ Len(queue) \in Nat /\ cachelen \in Int /\ kernlen \in Int
      /\ cachepos \in Frames /\ bufpos \in Frames /\ KernCap \in Nat
      /\ Dist(cachepos, bufpos) \in Frames
  BY Numbers DEF IInv
<1>1. /\ AtWork(c) /\ RingShape(0, 0, 0, FALSE) /\ loc[c].n <= cachelen
      /\ loc[c].n + Len(queue) <= KernCap /\ cachepos + loc[c].n <= BufLen
  BY DEF FlushWrite, AtWork, FlushSteps, IInv, WorkInv, WorkAt, Settled
<1>2. CASE LeaveFlush(c)
  BY <1>1, <1>2, LeaveInv
<1>3. ASSUME NEW result \in 1..loc[c].n,
             queue' = queue \o [i \in 1..result |-> cells[cachepos + i - 1]],
             Set(c, "result", result), Goto(c, "cachepos"),
             UNCHANGED <<open, positions, busy, clipbusy, cells, next, clock>>
      PROVE  IInv'
  <2>1. UNCHANGED <<open, kernpos, cachepos, bufpos, cachelen, kernlen, playpos,
                   busy, clipbusy, cells, next, clock>>
    BY <1>3 DEF positions
  <2>2. cachelen = Dist(cachepos, bufpos)
    BY <1>1, ShapeCache DEF IInv
  <2>r. result \in Nat /\ result > 0 /\ result <= loc[c].n
    BY <1>a
  <2>3. result \in Frames /\ result > 0
    BY <1>1, <1>a, <2>2, <2>r
  <2>4. /\ loc' \in [Ctx -> Locals] /\ loc'[c].result = result
        /\ loc'[c].release = loc[c].release /\ \A d \in Ctx \ {c} : loc'[d] = loc[d]
    BY <1>3, <2>3, SetResult DEF IInv
  <2>5. pc' \in [Ctx -> Steps] /\ pc'[c] = "cachepos" /\ \A d \in Ctx \ {c} : pc'[d] = pc[d]
    BY <1>3, GotoMoves DEF IInv, Steps, FlushSteps
  <2>6. [i \in 1..result |-> cells[cachepos + i - 1]] \in Seq(0..Silence)
    <3>0. cachepos + result <= BufLen /\ cachepos \in Nat
      <4>1. cachepos \in Nat /\ loc[c].n + cachepos <= BufLen
        BY <1>1, <1>a
      <4>2. result \in Int /\ loc[c].n \in Int /\ cachepos \in Int /\ BufLen \in Int
        BY <1>a, <2>r
      <4>3. QED BY <2>r, <4>1, <4>2, LessFits
    <3>1. \A i \in 1..result : cachepos + i - 1 \in Frames
      BY <2>r, <3>0
    <3>2. \A i \in 1..result : cells[cachepos + i - 1] \in 0..Silence
      BY <3>1 DEF IInv, TypeInv
    <3>3. QED BY <2>3, <3>2
  <2>7. queue' \in Seq(0..Silence)
    BY <1>3, <2>6 DEF IInv, TypeInv
  <2>b. Len(queue') = Len(queue) + result
    <3>1. Len([i \in 1..result |-> cells[cachepos + i - 1]]) = result
      BY <2>3
    <3>2. QED BY <1>3, <2>6, <3>1 DEF IInv, TypeInv
  <2>8. Len(queue') <= KernCap
    <3>1. Len(queue) + result <= KernCap
      <4>1. result \in Int /\ loc[c].n \in Int /\ Len(queue) \in Int /\ KernCap \in Int
        BY <1>a, <2>r
      <4>2. loc[c].n + Len(queue) <= KernCap
        BY <1>1
      <4>3. QED BY <2>r, <4>1, <4>2, LessFits
    <3>2. QED BY <2>b, <3>1
  <2>9. TypeInv'
    BY <2>1, <2>4, <2>5, <2>7, <2>8 DEF IInv, TypeInv
  <2>10. RingShape(result, result, result, FALSE)'
    <3>1. /\ cachelen >= 0 /\ kernlen >= 0 /\ Len(queue) <= kernlen
          /\ kernlen + cachelen = Dist(kernpos, bufpos)
      BY <1>1, <1>a DEF RingShape
    <3>2. /\ cachelen - result >= 0 /\ kernlen + result >= 0
          /\ Len(queue') <= kernlen + result
      <4>1. cachelen - result >= 0
        BY <1>1, <1>a, <2>3
      <4>2. kernlen + result >= 0
        BY <1>a, <2>3, <3>1
      <4>3. Len(queue') <= kernlen + result
        BY <1>a, <2>3, <2>b, <3>1
      <4>4. QED BY <4>1, <4>2, <4>3
    <3>3. (kernlen + result) + (cachelen - result) = Dist(kernpos, bufpos)
      BY <1>a, <2>3, <3>1
    <3>4. cachepos + result >= BufLen =>
            cachelen - result = Dist(cachepos + result - BufLen, bufpos)
      BY <1>1, <1>a, <2>2, <2>3 DEF Dist
    <3>5. ~(cachepos + result >= BufLen) =>
            cachelen - result = Dist(cachepos + result, bufpos)
      BY <1>1, <1>a, <2>2, <2>3 DEF Dist
    <3>6. kernlen + result + (cachelen - result) <= Dist(kernpos, bufpos)
      BY <1>a, <2>3, <3>3
    <3>7. QED BY <2>1, <3>2, <3>3, <3>4, <3>5, <3>6 DEF RingShape
  <2>11. WorkAt(c)'
    BY <2>3, <2>4, <2>5, <2>10 DEF WorkAt, Settled
  <2>12. AtWork(c)' /\ Moves(c)
    BY <2>4, <2>5 DEF AtWork, FlushSteps, Moves
  <2>13. Dist(kernpos', bufpos') <= Dist(kernpos, bufpos)
    BY <2>1, Numbers DEF IInv
  <2>14. QED BY <1>1, <2>1, <2>4, <2>9, <2>11, <2>12, <2>13, WorkStep
<1>4. QED BY <1>2, <1>3 DEF FlushWrite

LEMMA CachePosInv ==
  ASSUME IInv, NEW c \in Ctx, FlushCachePos(c)
  PROVE  IInv'
<1> DEFINE r == loc[c].result
<1>a. /\ r \in Frames /\ cachelen \in Int /\ kernlen \in Int /\ cachepos \in Frames
      /\ bufpos \in Frames
  BY Numbers DEF IInv
<1>1. AtWork(c) /\ RingShape(r, r, r, FALSE) /\ r > 0
  BY DEF FlushCachePos, AtWork, FlushSteps, IInv, WorkInv, WorkAt
<1>2. UNCHANGED <<open, kernpos, bufpos, cachelen, kernlen, playpos,
                 busy, clipbusy, cells, next, queue, clock, loc>>
  BY DEF FlushCachePos
<1>3. pc' \in [Ctx -> Steps] /\ pc'[c] = "playpos" /\ \A d \in Ctx \ {c} : pc'[d] = pc[d]
  BY GotoMoves DEF FlushCachePos, IInv, Steps, FlushSteps
<1>4. cachepos' = IF cachepos + r >= BufLen THEN cachepos + r - BufLen ELSE cachepos + r
  <2>1. cachepos' = (cachepos + r + BufLen) % BufLen
    BY DEF FlushCachePos
  <2>2. cachepos + r \in 0..(2 * BufLen - 1)
    BY <1>a
  <2>3. QED BY <1>a, <2>1, <2>2, ModTwice
<1>5. cachepos' \in Frames
  BY <1>4, <1>a
<1>6. TypeInv'
  BY <1>2, <1>3, <1>5 DEF IInv, TypeInv
<1>7. RingShape(0, r, r, FALSE)'
  <2>1. cachelen - r = Dist(cachepos', bufpos)
    BY <1>1, <1>4, <1>a DEF RingShape
  <2>2. cachepos' + 0 = cachepos' /\ ~(cachepos' + 0 >= BufLen)
    <3>1. \A a \in Frames : a + 0 = a /\ ~(a + 0 >= BufLen)
      OBVIOUS
    <3>2. QED BY <1>5, <3>1
  <2>3. QED BY <1>1, <1>2, <2>1, <2>2 DEF RingShape
<1>8. WorkAt(c)'
  BY <1>1, <1>2, <1>3, <1>7 DEF WorkAt, Settled
<1>9. AtWork(c)' /\ Moves(c)
  BY <1>2, <1>3 DEF AtWork, FlushSteps, Moves
<1>10. Dist(kernpos', bufpos') <= Dist(kernpos, bufpos)
  BY <1>2, Numbers DEF IInv
<1>11. QED BY <1>1, <1>2, <1>6, <1>8, <1>9, <1>10, WorkStep

LEMMA PlayPosInv ==
  ASSUME IInv, NEW c \in Ctx, FlushPlayPos(c)
  PROVE  IInv'
<1> DEFINE r == loc[c].result
<1>1. AtWork(c) /\ RingShape(0, r, r, FALSE) /\ r > 0
  BY DEF FlushPlayPos, AtWork, FlushSteps, IInv, WorkInv, WorkAt
<1>2. UNCHANGED <<open, kernpos, cachepos, bufpos, cachelen, kernlen,
                 busy, clipbusy, cells, next, queue, clock, loc>>
  BY DEF FlushPlayPos
<1>3. pc' \in [Ctx -> Steps] /\ pc'[c] = "cachelen" /\ \A d \in Ctx \ {c} : pc'[d] = pc[d]
  BY GotoMoves DEF FlushPlayPos, IInv, Steps, FlushSteps
<1>a. playpos + r \in Int
  <2>1. playpos \in 0..Labels-1
    BY DEF IInv, TypeInv
  <2>2. r \in Frames
    BY Numbers DEF IInv
  <2>3. QED BY <2>1, <2>2
<1>4. playpos' \in 0..Labels-1
  BY <1>a, ModLabels DEF FlushPlayPos
<1>6. TypeInv'
  BY <1>2, <1>3, <1>4 DEF IInv, TypeInv
<1>7. RingShape(0, r, r, FALSE)'
  BY <1>1, <1>2 DEF RingShape, Dist
<1>8. WorkAt(c)'
  BY <1>1, <1>2, <1>3, <1>7 DEF WorkAt, Settled
<1>9. AtWork(c)' /\ Moves(c)
  BY <1>2, <1>3 DEF AtWork, FlushSteps, Moves
<1>10. Dist(kernpos', bufpos') <= Dist(kernpos, bufpos)
  BY <1>2, Numbers DEF IInv
<1>11. QED BY <1>1, <1>2, <1>6, <1>8, <1>9, <1>10, WorkStep

(* The end of "cachelen-=result", in one instruction or in two.            *)
LEMMA CacheLess ==
  ASSUME IInv, NEW c \in Ctx, pc[c] \in {"cachelen", "cachelen2"},
         Goto(c, "kernlen+"), cachelen' = cachelen - loc[c].result,
         UNCHANGED <<open, kernpos, cachepos, bufpos, kernlen, playpos,
                     busy, clipbusy, cells, next, queue, clock, loc>>
  PROVE  IInv'
<1> DEFINE r == loc[c].result
<1>a. /\ r \in Frames /\ cachelen \in Int /\ kernlen \in Int
  BY Numbers DEF IInv
<1>1. AtWork(c) /\ RingShape(0, r, r, FALSE) /\ r > 0
  BY DEF AtWork, FlushSteps, IInv, WorkInv, WorkAt
<1>2. UNCHANGED <<open, kernpos, cachepos, bufpos, kernlen, playpos,
                 busy, clipbusy, cells, next, queue, clock, loc>>
      /\ cachelen' = cachelen - r
  OBVIOUS
<1>3. pc' \in [Ctx -> Steps] /\ pc'[c] = "kernlen+" /\ \A d \in Ctx \ {c} : pc'[d] = pc[d]
  BY GotoMoves DEF IInv, Steps, FlushSteps
<1>6. TypeInv'
  <2>1. cachelen' \in Int
    BY <1>2, <1>a
  <2>2. kernlen' \in Nat /\ loc' \in [Ctx -> Locals]
    BY <1>2 DEF IInv, TypeInv
  <2>3. QED BY <1>2, <1>3, <2>1, <2>2, TypeCounts DEF IInv
<1>7. RingShape(0, 0, r, FALSE)'
  BY <1>1, <1>2, <1>a DEF RingShape
<1>8. WorkAt(c)'
  BY <1>1, <1>2, <1>3, <1>7 DEF WorkAt, Settled
<1>9. AtWork(c)' /\ Moves(c)
  BY <1>2, <1>3 DEF AtWork, FlushSteps, Moves
<1>10. Dist(kernpos', bufpos') <= Dist(kernpos, bufpos)
  BY <1>2, Numbers DEF IInv
<1>11. QED BY <1>1, <1>2, <1>6, <1>8, <1>9, <1>10, WorkStep

(* A handler between the load and the store would lose what it counted:    *)
(* this is the one step that needs "cachelen-=result" to be indivisible,   *)
(* or no handler to run.                                                   *)
LEMMA CacheLoad ==
  ASSUME Levels = 0, IInv, NEW c \in Ctx, pc[c] = "cachelen",
         Goto(c, "cachelen2"), Set(c, "tmp", cachelen),
         UNCHANGED <<open, positions, busy, clipbusy, cells, next, queue, clock>>
  PROVE  IInv'
<1> DEFINE r == loc[c].result
<1>a. /\ r \in Frames /\ cachelen \in Nat /\ kernlen \in Nat
  <2>1. RingShape(0, r, r, FALSE) /\ r \in Frames /\ cachelen \in Int /\ kernlen \in Nat
    BY Numbers DEF IInv, WorkInv, WorkAt
  <2>2. QED BY <2>1 DEF RingShape
<1>1. AtWork(c) /\ RingShape(0, r, r, FALSE) /\ r > 0
  BY DEF AtWork, FlushSteps, IInv, WorkInv, WorkAt
<1>2. UNCHANGED <<open, kernpos, cachepos, bufpos, cachelen, kernlen, playpos,
                 busy, clipbusy, cells, next, queue, clock>>
  BY DEF positions
<1>3. pc' \in [Ctx -> Steps] /\ pc'[c] = "cachelen2" /\ \A d \in Ctx \ {c} : pc'[d] = pc[d]
  BY GotoMoves DEF IInv, Steps, FlushSteps
<1>4. /\ loc' \in [Ctx -> Locals] /\ loc'[c].tmp = cachelen /\ loc'[c].result = r
      /\ loc'[c].n = loc[c].n /\ loc'[c].release = loc[c].release
      /\ \A d \in Ctx \ {c} : loc'[d] = loc[d]
  BY <1>a, SetTmp DEF IInv
<1>6. TypeInv'
  BY <1>2, <1>3, <1>4 DEF IInv, TypeInv
<1>7. RingShape(0, r, r, FALSE)'
  BY <1>1, <1>2, <1>4 DEF RingShape, Dist
<1>8. WorkAt(c)'
  BY <1>1, <1>2, <1>3, <1>4, <1>7 DEF WorkAt, Settled
<1>9. AtWork(c)' /\ Moves(c)
  BY <1>2, <1>3, <1>4 DEF AtWork, FlushSteps, Moves
<1>10. Dist(kernpos', bufpos') <= Dist(kernpos, bufpos)
  BY <1>2, Numbers DEF IInv
<1>11. QED BY <1>1, <1>2, <1>4, <1>6, <1>8, <1>9, <1>10, WorkStep

LEMMA CacheLenInv ==
  ASSUME ~SplitUpdate \/ Levels = 0, IInv, NEW c \in Ctx, FlushCacheLen(c)
  PROVE  IInv'
<1>1. CASE Goto(c, "kernlen+") /\ cachelen' = cachelen - loc[c].result /\ UNCHANGED loc
  BY <1>1, CacheLess DEF FlushCacheLen
<1>2. CASE SplitUpdate /\ Goto(c, "cachelen2") /\ Set(c, "tmp", cachelen) /\ UNCHANGED cachelen
  BY <1>2, CacheLoad DEF FlushCacheLen, positions
<1>3. QED BY <1>1, <1>2 DEF FlushCacheLen

LEMMA CacheStoreInv ==
  ASSUME IInv, NEW c \in Ctx, FlushCacheStore(c)
  PROVE  IInv'
<1>1. loc[c].tmp = cachelen
  BY DEF FlushCacheStore, IInv, WorkInv, WorkAt
<1>2. QED BY <1>1, CacheLess DEF FlushCacheStore

LEMMA DoneInv ==
  ASSUME IInv, NEW c \in Ctx, FlushDone(c)
  PROVE  IInv'
<1> DEFINE r == loc[c].result
<1>a. /\ r \in Frames /\ cachelen \in Int /\ kernlen \in Nat
  BY Numbers DEF IInv
<1>1. AtWork(c) /\ RingShape(0, 0, r, FALSE)
  BY DEF FlushDone, AtWork, FlushSteps, IInv, WorkInv, WorkAt
<1>2. /\ UNCHANGED <<open, kernpos, cachepos, bufpos, cachelen, playpos,
                     cells, next, queue, clock>>
      /\ kernlen' = kernlen + r /\ busy' = busy - 1 /\ Return(c)
  BY DEF FlushDone
<1>3. busy' = 0
  BY <1>1, <1>2 DEF IInv, LockInv
<1>4. pc' \in [Ctx -> Steps] /\ clipbusy' \in 0..1 /\ loc' \in [Ctx -> Locals]
  BY <1>2, ReturnMoves DEF IInv
<1>5. kernlen' \in Nat
  BY <1>a, <1>2
<1>6. TypeInv'
  BY <1>2, <1>3, <1>4, <1>5 DEF IInv, TypeInv
<1>7. RingShape(0, 0, 0, FALSE)'
  BY <1>1, <1>2, <1>a DEF RingShape
<1>8. Dist(kernpos', bufpos') <= Dist(kernpos, bufpos)
  BY <1>2, Numbers DEF IInv
<1>9. QED BY <1>1, <1>2, <1>6, <1>7, <1>8, WorkReturn
-----------------------------------------------------------------------------
(* Steps of a context that is not at work.                                 *)
LEMMA OutsideStep ==
  ASSUME IInv, NEW c \in Ctx, ~AtWork(c), ~AtWork(c)', Moves(c),
         UNCHANGED <<busy, kernpos, cachepos, bufpos, cachelen, kernlen, queue>>
  PROVE  LockInv' /\ RestInv' /\ WorkInv'
<1>1. \A d \in Ctx : AtWork(d)' <=> AtWork(d)
  BY DEF AtWork, Moves
<1>2. LockInv'
  BY <1>1 DEF IInv, LockInv
<1>3. RestInv'
  BY <1>1 DEF IInv, RestInv, RingShape, Dist
<1>4. WorkAt(c)'
  BY DEF AtWork, WorkAt, Settled, FlushSteps, QuerySteps
<1>5. ASSUME NEW d \in Ctx \ {c} PROVE WorkAt(d)'
  <2>1. pc'[d] = pc[d] /\ loc'[d] = loc[d]
    BY DEF Moves
  <2>2. WorkAt(d)
    BY DEF IInv, WorkInv
  <2>3. QED BY <2>1, <2>2 DEF WorkAt, RingShape, Dist
<1>6. QED BY <1>2, <1>3, <1>4, <1>5 DEF WorkInv

LEMMA WorkBegins ==
  ASSUME IInv, NEW c \in Ctx, \A d \in Ctx : ~AtWork(d), AtWork(c)', Moves(c),
         busy' = 1, WorkAt(c)'
  PROVE  LockInv' /\ RestInv' /\ WorkInv'
<1>1. \A d \in Ctx \ {c} : ~AtWork(d)'
  BY DEF AtWork, Moves
<1>2. LockInv' /\ RestInv'
  BY <1>1 DEF LockInv, RestInv
<1>3. \A d \in Ctx \ {c} : WorkAt(d)'
  BY <1>1 DEF AtWork, WorkAt, Settled, FlushSteps, QuerySteps
<1>4. QED BY <1>2, <1>3 DEF WorkInv

LEMMA NobodyAtWork ==
  ASSUME IInv, busy = 0
  PROVE  (\A d \in Ctx : ~AtWork(d)) /\ RingShape(0, 0, 0, FALSE)
<1>1. \A d \in Ctx : ~AtWork(d)
  BY DEF IInv, LockInv
<1>2. QED BY <1>1 DEF IInv, RestInv

LEMMA EnterInv ==
  ASSUME IInv, NEW c \in Ctx, FlushEnter(c)
  PROVE  IInv'
<1>a. /\ pc[c] = "flush" /\ ~AtWork(c)
      /\ UNCHANGED <<open, kernpos, cachepos, bufpos, cachelen, kernlen, playpos,
                     cells, next, queue, clock>>
  BY DEF FlushEnter, AtWork, FlushSteps, QuerySteps, positions
<1>b. open'
  BY <1>a DEF IInv, OpenInv, Idle
<1>c. kernpos' \in Frames /\ bufpos' \in Frames
      /\ Dist(kernpos', bufpos') <= Dist(kernpos, bufpos)
  BY <1>a, Numbers DEF IInv
<1>1. CASE Return(c) /\ UNCHANGED busy
  <2>1. /\ pc' \in [Ctx -> Steps] /\ clipbusy' \in 0..1 /\ loc' \in [Ctx -> Locals]
        /\ pc'[c] = "idle" /\ Moves(c)
    BY <1>1, ReturnMoves DEF IInv
  <2>2. TypeInv'
    BY <1>a, <1>1, <2>1 DEF IInv, TypeInv
  <2>3. ClipInv'
    BY <1>a, <1>1, <1>c, ReturnClip
  <2>4. ~AtWork(c)'
    BY <2>1 DEF AtWork, FlushSteps, QuerySteps
  <2>5. LockInv' /\ RestInv' /\ WorkInv'
    BY <1>a, <1>1, <2>1, <2>4, OutsideStep
  <2>6. QED BY <1>b, <2>2, <2>3, <2>5 DEF IInv, OpenInv
<1>2. CASE /\ ~Locked
           /\ busy' = 1
           /\ Goto(c, "odelay")
           /\ UNCHANGED <<clipbusy, loc>>
  <2>1. (\A d \in Ctx : ~AtWork(d)) /\ RingShape(0, 0, 0, FALSE)
    BY <1>2, NobodyAtWork DEF Locked
  <2>2. pc' \in [Ctx -> Steps] /\ pc'[c] = "odelay" /\ \A d \in Ctx \ {c} : pc'[d] = pc[d]
    BY <1>2, GotoMoves DEF IInv, Steps, FlushSteps
  <2>3. Moves(c) /\ AtWork(c)'
    BY <1>2, <2>2 DEF Moves, AtWork, FlushSteps
  <2>4. TypeInv'
    BY <1>a, <1>2, <2>2 DEF IInv, TypeInv
  <2>5. RingShape(0, 0, 0, FALSE)'
    BY <1>a, <2>1 DEF RingShape, Dist
  <2>6. WorkAt(c)'
    BY <2>2, <2>5 DEF WorkAt, Settled
  <2>7. LockInv' /\ RestInv' /\ WorkInv'
    BY <1>2, <2>1, <2>3, <2>6, WorkBegins
  <2>8. ClipInv'
    BY <1>2, <1>c, <2>2, <2>3, ClipKept
  <2>9. QED BY <1>b, <2>4, <2>7, <2>8 DEF IInv, OpenInv
<1>3. QED BY <1>1, <1>2 DEF FlushEnter

LEMMA FlushInv ==
  ASSUME ~SplitUpdate \/ Levels = 0, IInv, NEW c \in Ctx, FlushStep(c)
  PROVE  IInv'
BY EnterInv, OdelayInv, KernLenInv, KernPosInv, CacheInv, SpaceInv, LenInv, Len2Inv,
   WriteInv, CachePosInv, PlayPosInv, CacheLenInv, CacheStoreInv, DoneInv
   DEF FlushStep
-----------------------------------------------------------------------------
(* The filler.                                                             *)
(* In every state the ring has its shape, up to the assignments that an    *)
(* interrupted flush still has to make.                                    *)
LEMMA SomeShape ==
  ASSUME IInv
  PROVE  \E m, w, k \in Frames, s \in BOOLEAN : w <= k /\ RingShape(m, w, k, s)
<1>1. 0 \in Frames /\ 0 <= 0
  OBVIOUS
<1>2. CASE \A c \in Ctx : ~AtWork(c)
  <2>1. RingShape(0, 0, 0, FALSE)
    BY <1>2 DEF IInv, RestInv
  <2>2. QED BY <1>1, <2>1
<1>3. ASSUME NEW c \in Ctx, AtWork(c) PROVE \E m, w, k \in Frames, s \in BOOLEAN :
                                            w <= k /\ RingShape(m, w, k, s)
  <2> DEFINE r == loc[c].result
  <2>1. r \in Frames /\ 0 <= r /\ r <= r
    BY Numbers DEF IInv
  <2>2. \/ RingShape(0, 0, 0, FALSE) \/ RingShape(0, 0, 0, TRUE)
        \/ RingShape(r, r, r, FALSE) \/ RingShape(0, r, r, FALSE)
        \/ RingShape(0, 0, r, FALSE)
    BY <1>3 DEF IInv, WorkInv, WorkAt, AtWork, Settled, FlushSteps, QuerySteps
  <2> HIDE DEF r
  <2>3. QED BY <1>1, <2>1, <2>2
<1>4. QED BY <1>2, <1>3

(* getbufpos never takes the branch its author marked unreachable.         *)
LEMMA RingSpan ==
  ASSUME IInv
  PROVE  ~UnreachableBranch
<1>1. PICK m, w, k \in Frames, s \in BOOLEAN : w <= k /\ RingShape(m, w, k, s)
  BY SomeShape
<1>2. cachelen \in Int /\ kernlen \in Nat
  BY Numbers DEF IInv
<1>3. SUFFICES ASSUME kernpos = bufpos PROVE cachelen = 0 /\ kernlen = 0
  BY DEF UnreachableBranch
<1>4. Dist(kernpos, bufpos) = 0
  BY <1>3, Numbers DEF IInv, Dist
<1>5. /\ cachelen - w >= 0 /\ kernlen + k >= 0
      /\ (kernlen + k) + (cachelen - w) <= 0
  BY <1>1, <1>4 DEF RingShape
<1>6. kernlen = 0
  BY <1>2, <1>5
<1>7. cachelen = 0
  BY <1>1, <1>2, <1>5
<1>8. QED BY <1>6, <1>7

(* From bufpos to one frame before kernpos, and from kernpos to bufpos.    *)
LEMMA RoomMath ==
  ASSUME NEW k \in Frames, NEW b \in Frames
  PROVE  /\ (k + BufLen - 1) % BufLen \in Frames
         /\ Dist(b, (k + BufLen - 1) % BufLen) + Dist(k, b) = BufLen - 1
<1>1. k + BufLen - 1 \in 0..(2 * BufLen - 1)
  OBVIOUS
<1>2. (k + BufLen - 1) % BufLen = IF k = 0 THEN BufLen - 1 ELSE k - 1
  BY <1>1, ModBufLen
<1>3. QED BY <1>2 DEF Dist

LEMMA TimerProcInv ==
  ASSUME IInv, NEW c \in Ctx, TimerProc(c)
  PROVE  IInv'
<1> DEFINE n == Behind(GetBufPos, bufpos)
<1>1. /\ open /\ pc[c] = "idle" /\ clipbusy = 0 /\ clipbusy' = 1 /\ Goto(c, "mix")
      /\ loc' = [loc EXCEPT ![c].n = n, ![c].release = TRUE]
      /\ UNCHANGED <<open, kernpos, cachepos, bufpos, cachelen, kernlen, playpos,
                     busy, cells, next, queue, clock>>
  BY DEF TimerProc, MayStart, positions
<1>2. n = Dist(bufpos, (kernpos + BufLen - 1) % BufLen)
  <2>1. GetBufPos = (kernpos + BufLen - 1) % BufLen
    BY RingSpan DEF GetBufPos
  <2>2. QED BY <2>1, RoomMath, BehindDist, Numbers DEF IInv
<1>3. n \in Nat /\ n + Dist(kernpos, bufpos) < BufLen
  <2>1. n + Dist(kernpos, bufpos) = BufLen - 1
    BY <1>2, RoomMath, Numbers DEF IInv
  <2>2. n \in Frames
    BY <1>2, RoomMath, BehindDist, Numbers DEF IInv
  <2> HIDE DEF n
  <2>3. QED BY <2>1, <2>2
<1> HIDE DEF n
<1>4. /\ loc' \in [Ctx -> Locals] /\ loc'[c].n = n /\ loc'[c].release
      /\ \A d \in Ctx \ {c} : loc'[d] = loc[d]
  BY <1>1, <1>3, SetRoom DEF IInv
<1>5. pc' \in [Ctx -> Steps] /\ pc'[c] = "mix" /\ \A d \in Ctx \ {c} : pc'[d] = pc[d]
  BY <1>1, GotoMoves DEF IInv, Steps
<1>a. clipbusy' \in 0..1
      /\ UNCHANGED <<open, kernpos, cachepos, bufpos, cachelen, kernlen, playpos,
                     busy, cells, next, queue, clock>>
  BY <1>1
<1>6. TypeInv'
  BY <1>a, <1>4, <1>5 DEF IInv, TypeInv
<1>7. \A d \in Ctx : ~loc[d].release
  BY <1>1 DEF IInv, ClipInv
<1>8. Dist(kernpos', bufpos') = Dist(kernpos, bufpos)
  BY <1>1
<1>9. \A d \in Ctx : pc[d] # "mix"
  BY <1>7 DEF IInv, ClipInv
<1>10. ClipInv'
  <2>1. \A d \in Ctx : loc'[d].release => d = c
    BY <1>4, <1>7
  <2>2. \A d \in Ctx : pc'[d] = "mix" => d = c
    BY <1>5, <1>9
  <2>3. loc'[c].n + Dist(kernpos', bufpos') < BufLen
    BY <1>3, <1>4, <1>8
  <2>4. clipbusy' = 1 /\ loc'[c].release /\ pc'[c] = "mix"
    BY <1>1, <1>4, <1>5
  <2>5. QED BY <2>1, <2>2, <2>3, <2>4 DEF ClipInv
<1>11. ~AtWork(c) /\ ~AtWork(c)' /\ Moves(c)
  BY <1>1, <1>4, <1>5 DEF AtWork, Moves, FlushSteps, QuerySteps
<1>12. LockInv' /\ RestInv' /\ WorkInv'
  BY <1>1, <1>11, OutsideStep
<1>13. QED BY <1>1, <1>6, <1>10, <1>12 DEF IInv, OpenInv

(* Mixing d frames into the room there is.                                 *)
LEMMA MixMath ==
  ASSUME NEW a \in Frames, NEW b \in Frames, NEW d \in Nat, Dist(a, b) + d < BufLen
  PROVE  /\ (b + d) % BufLen \in Frames
         /\ Dist(a, (b + d) % BufLen) = Dist(a, b) + d
<1>1. d < BufLen
  BY DEF Dist
<1>2. b + d \in 0..(2 * BufLen - 1)
  BY <1>1
<1>3. (b + d) % BufLen = IF b + d < BufLen THEN b + d ELSE b + d - BufLen
  BY <1>2, ModBufLen
<1>4. QED BY <1>1, <1>3 DEF Dist

(* The ring keeps its shape when d more frames are cached.                 *)
LEMMA ShapeMix ==
  ASSUME TypeInv, NEW d \in Nat, Dist(kernpos, bufpos) + d < BufLen,
         bufpos' = (bufpos + d) % BufLen, cachelen' = cachelen + d,
         UNCHANGED <<kernpos, cachepos, kernlen, queue>>,
         NEW m \in Frames, NEW w \in Frames, NEW k \in Frames, NEW s \in BOOLEAN,
         RingShape(m, w, k, s)
  PROVE  RingShape(m, w, k, s)'
<1> DEFINE first == IF cachepos + m >= BufLen THEN cachepos + m - BufLen
                                              ELSE cachepos + m
<1>a. /\ kernpos \in Frames /\ cachepos \in Frames /\ bufpos \in Frames
      /\ cachelen \in Int /\ kernlen \in Nat
      /\ Dist(kernpos, bufpos) \in Frames
  BY Numbers
<1>1. /\ cachelen - w >= 0 /\ kernlen + k >= 0 /\ Len(queue) <= kernlen + k
      /\ cachelen - w = Dist(first, bufpos)
      /\ (kernlen + k) + (cachelen - w) <= Dist(kernpos, bufpos)
      /\ s \/ (kernlen + k) + (cachelen - w) = Dist(kernpos, bufpos)
  BY DEF RingShape
<1>2. first \in Frames
  BY <1>a
<1>3. first' = first
  OBVIOUS
<1> HIDE DEF first
<1>4. Dist(kernpos, bufpos') = Dist(kernpos, bufpos) + d
  BY <1>a, MixMath
<1>5. Dist(first, bufpos) <= Dist(kernpos, bufpos)
  <2>1. Dist(first, bufpos) \in Frames
    BY <1>a, <1>2, BehindDist
  <2>2. QED BY <1>1, <1>a, <2>1
<1>6. Dist(first, bufpos) + d < BufLen
  <2>1. Dist(first, bufpos) \in Frames
    BY <1>a, <1>2, BehindDist
  <2>2. QED BY <1>5, <1>a, <2>1
<1>7. Dist(first, bufpos') = Dist(first, bufpos) + d
  BY <1>2, <1>6, <1>a, MixMath
<1>8. cachelen' - w >= 0
  BY <1>1, <1>a
<1>9. cachelen' - w = Dist(first, bufpos')
  BY <1>1, <1>7, <1>a
<1>10. (kernlen + k) + (cachelen' - w) <= Dist(kernpos, bufpos')
  BY <1>1, <1>4, <1>a
<1>11. s \/ (kernlen + k) + (cachelen' - w) = Dist(kernpos, bufpos')
  BY <1>1, <1>4, <1>a
<1>12. QED BY <1>1, <1>8, <1>9, <1>10, <1>11 DEF RingShape, first

LEMMA MixAndAdvanceInv ==
  ASSUME IInv, NEW c \in Ctx, MixAndAdvance(c)
  PROVE  IInv'
<1>1. PICK d \in 1..loc[c].n :
        /\ cells' = [i \in 0..BufLen-1 |->
                      LET k == Behind(i, bufpos)
                      IN IF k < d THEN (next + k) % Labels ELSE cells[i]]
        /\ next' = (next + d) % Labels
        /\ LET pos == (bufpos + d) % BufLen IN
             /\ cachelen' = cachelen + Behind(pos, bufpos)
             /\ bufpos' = pos
        /\ Set(c, "n", loc[c].n - d)
  BY DEF MixAndAdvance
<1>2. /\ pc[c] = "mix"
      /\ UNCHANGED <<open, kernpos, cachepos, kernlen, playpos, busy, clipbusy,
                     queue, clock, pc>>
  BY DEF MixAndAdvance
<1>a. /\ kernpos \in Frames /\ cachepos \in Frames /\ bufpos \in Frames
      /\ cachelen \in Int /\ loc[c].n \in Nat
      /\ Dist(kernpos, bufpos) \in Frames
  BY Numbers DEF IInv
<1>3. d \in Nat /\ d > 0 /\ d <= loc[c].n /\ loc[c].n - d \in Nat
  BY <1>a
<1>4. loc[c].n + Dist(kernpos, bufpos) < BufLen
  BY <1>2 DEF IInv, ClipInv
<1>5. Dist(kernpos, bufpos) + d < BufLen
  BY <1>3, <1>4, <1>a
<1>6. /\ bufpos' = (bufpos + d) % BufLen /\ bufpos' \in Frames
      /\ Dist(kernpos, bufpos') = Dist(kernpos, bufpos) + d
  BY <1>1, <1>3, <1>5, <1>a, MixMath
<1>7. cachelen' = cachelen + d
  <2>1. cachelen' = cachelen + Dist(bufpos, bufpos')
    BY <1>1, <1>6, <1>a, BehindDist
  <2>2. Dist(bufpos, bufpos) = 0
    BY <1>a DEF Dist
  <2>3. Dist(bufpos, bufpos) + d < BufLen
    BY <1>3, <1>5, <1>a, <2>2
  <2>4. Dist(bufpos, bufpos') = d
    BY <1>3, <1>6, <1>a, <2>2, <2>3, MixMath
  <2>5. QED BY <2>1, <2>4
<1>b. next \in Int
  BY DEF IInv, TypeInv
<1>8. cells' \in [Frames -> 0..Silence]
  <2>1. \A k \in Int : (next + k) % Labels \in 0..Silence
    <3>1. \A k \in Int : next + k \in Int
      BY <1>b
    <3>2. \A k \in Int : (next + k) % Labels \in 0..Labels-1
      BY <3>1, ModLabels
    <3>3. QED BY <3>2
  <2>2. \A i \in Frames : Behind(i, bufpos) \in Int
    BY <1>a, BehindDist
  <2>3. \A i \in Frames : (IF Behind(i, bufpos) < d THEN (next + Behind(i, bufpos)) % Labels
                                              ELSE cells[i]) \in 0..Silence
    BY <2>1, <2>2 DEF IInv, TypeInv
  <2>4. cells' = [i \in Frames |->
                    IF Behind(i, bufpos) < d THEN (next + Behind(i, bufpos)) % Labels
                                             ELSE cells[i]]
    BY <1>1
  <2>5. QED BY <2>3, <2>4
<1>9. next' \in 0..Labels-1
  <2>1. next + d \in Int
    BY <1>3, <1>b
  <2>2. QED BY <1>1, <2>1, ModLabels
<1>10. /\ loc' \in [Ctx -> Locals] /\ loc'[c].n = loc[c].n - d
       /\ loc'[c].release = loc[c].release /\ \A e \in Ctx \ {c} : loc'[e] = loc[e]
  BY <1>1, <1>3, SetN DEF IInv
<1>11. cachelen' \in Int
  BY <1>3, <1>7, <1>a
<1>12. TypeInv'
  BY <1>2, <1>6, <1>8, <1>9, <1>10, <1>11 DEF IInv, TypeInv
<1>13. open'
  BY <1>2 DEF IInv, OpenInv, Idle
<1>14. ClipInv'
  <2>1. \A e \in Ctx : loc'[e].release = loc[e].release
    BY <1>10
  <2>2. \A e \in Ctx : pc[e] = "mix" => e = c
    BY <1>2 DEF IInv, ClipInv
  <2>3. loc'[c].n + Dist(kernpos', bufpos') < BufLen
    BY <1>2, <1>3, <1>4, <1>6, <1>10, <1>a
  <2>4. QED BY <1>2, <2>1, <2>2, <2>3 DEF IInv, ClipInv
<1>15. \A e \in Ctx : AtWork(e)' <=> AtWork(e)
  BY <1>2 DEF AtWork
<1>16. LockInv'
  BY <1>2, <1>15 DEF IInv, LockInv
<1>17. \A m, w, k \in Frames, s \in BOOLEAN : RingShape(m, w, k, s) => RingShape(m, w, k, s)'
  BY <1>2, <1>3, <1>5, <1>6, <1>7, ShapeMix DEF IInv
<1>18. RestInv'
  <2>1. 0 \in Frames
    OBVIOUS
  <2>2. QED BY <1>15, <1>17, <2>1 DEF IInv, RestInv
<1>19. ASSUME NEW e \in Ctx PROVE WorkAt(e)'
  <2>1. CASE e = c
    BY <1>2, <2>1 DEF WorkAt, Settled
  <2>2. CASE e # c
    <3>1. loc'[e] = loc[e] /\ pc'[e] = pc[e] /\ loc[e].result \in Frames /\ loc[e].n \in Nat
      BY <1>2, <1>10, <2>2, Numbers DEF IInv
    <3>2. 0 \in Frames
      OBVIOUS
    <3>3. WorkAt(e)
      BY DEF IInv, WorkInv
    <3>4. cachelen' > cachelen
      BY <1>3, <1>7, <1>a
    <3>5. cachelen > 0 => cachelen' > 0
      BY <1>11, <1>a, <3>4
    <3>6. loc[e].n <= cachelen => loc[e].n <= cachelen'
      BY <1>11, <1>a, <3>1, <3>4
    <3>7. pc[e] # "cachelen2"
      BY <2>2, <3>3 DEF WorkAt
    <3>8. QED BY <1>2, <1>17, <3>1, <3>2, <3>3, <3>5, <3>6, <3>7 DEF WorkAt
  <2>3. QED BY <2>1, <2>2
<1>20. QED BY <1>12, <1>13, <1>14, <1>16, <1>18, <1>19 DEF IInv, OpenInv, WorkInv

LEMMA MixDoneInv ==
  ASSUME IInv, NEW c \in Ctx, MixDone(c)
  PROVE  IInv'
<1>1. PICK release \in BOOLEAN :
        /\ loc' = [loc EXCEPT ![c].n = 0, ![c].release = release]
        /\ clipbusy' = IF release THEN clipbusy ELSE 0
  BY DEF MixDone
<1>2. /\ pc[c] = "mix" /\ Goto(c, "flush")
      /\ UNCHANGED <<open, kernpos, cachepos, bufpos, cachelen, kernlen, playpos,
                     busy, cells, next, queue, clock>>
  BY DEF MixDone, positions
<1>3. /\ loc' \in [Ctx -> Locals] /\ loc'[c].release = release
      /\ \A d \in Ctx \ {c} : loc'[d] = loc[d]
  BY <1>1, SetRoom DEF IInv
<1>4. pc' \in [Ctx -> Steps] /\ pc'[c] = "flush" /\ \A d \in Ctx \ {c} : pc'[d] = pc[d]
  BY <1>2, GotoMoves DEF IInv, Steps
<1>5. clipbusy' \in 0..1
  BY <1>1 DEF IInv, TypeInv
<1>6. TypeInv'
  BY <1>2, <1>3, <1>4, <1>5 DEF IInv, TypeInv
<1>7. loc[c].release /\ \A d \in Ctx \ {c} : ~loc[d].release
  BY <1>2 DEF IInv, ClipInv
<1>8. \A d \in Ctx \ {c} : ~loc'[d].release /\ pc'[d] # "mix"
  BY <1>3, <1>4, <1>7 DEF IInv, ClipInv
<1>9. loc'[c].release => clipbusy' = 1
  BY <1>1, <1>3, <1>7 DEF IInv, ClipInv
<1>10. ClipInv'
  BY <1>4, <1>8, <1>9 DEF ClipInv
<1>11. ~AtWork(c) /\ ~AtWork(c)' /\ Moves(c)
  BY <1>2, <1>3, <1>4 DEF AtWork, Moves, FlushSteps, QuerySteps
<1>12. LockInv' /\ RestInv' /\ WorkInv'
  BY <1>2, <1>11, OutsideStep
<1>13. open'
  BY <1>2 DEF IInv, OpenInv, Idle
<1>14. QED BY <1>6, <1>10, <1>12, <1>13 DEF IInv, OpenInv

LEMMA CallIdleInv ==
  ASSUME IInv, NEW c \in Ctx, CallIdle(c)
  PROVE  IInv'
<1>1. /\ open /\ pc[c] = "idle" /\ Goto(c, "flush")
      /\ UNCHANGED <<open, kernpos, cachepos, bufpos, cachelen, kernlen, playpos,
                     busy, clipbusy, cells, next, queue, clock, loc>>
  BY DEF CallIdle, MayStart, positions
<1>2. pc' \in [Ctx -> Steps] /\ pc'[c] = "flush" /\ \A d \in Ctx \ {c} : pc'[d] = pc[d]
  BY <1>1, GotoMoves DEF IInv, Steps
<1>3. TypeInv'
  BY <1>1, <1>2 DEF IInv, TypeInv
<1>4. ~AtWork(c) /\ ~AtWork(c)' /\ Moves(c)
  BY <1>1, <1>2 DEF AtWork, Moves, FlushSteps, QuerySteps
<1>5. LockInv' /\ RestInv' /\ WorkInv'
  BY <1>1, <1>4, OutsideStep
<1>6. Dist(kernpos', bufpos') <= Dist(kernpos, bufpos) /\ kernpos' \in Frames /\ bufpos' \in Frames
  BY <1>1, Numbers DEF IInv
<1>7. ClipInv'
  BY <1>1, <1>2, <1>4, <1>6, ClipKept
<1>8. QED BY <1>1, <1>3, <1>5, <1>7 DEF IInv, OpenInv
-----------------------------------------------------------------------------
(* getplaypos and gettimer.                                                *)
LEMMA MainInCtx == Main \in Ctx /\ \A c \in Ctx : c # Main => c > Main
OBVIOUS

LEMMA QueryBegins ==
  ASSUME IInv, busy = 0, busy' = 1, Goto(Main, "getpos"), open,
         NEW v \in Nat, Set(Main, "odelay", v), Len(queue) <= v, v <= kernlen,
         UNCHANGED <<open, positions, clipbusy, cells, next, queue, clock>>
  PROVE  IInv'
<1> DEFINE c == Main
<1>1. UNCHANGED <<open, kernpos, cachepos, bufpos, cachelen, kernlen, playpos,
                 clipbusy, cells, next, queue, clock>>
  BY DEF positions
<1>2. /\ loc' \in [Ctx -> Locals] /\ loc'[c].odelay = v
      /\ loc'[c].release = loc[c].release /\ \A d \in Ctx \ {c} : loc'[d] = loc[d]
  BY SetOdelay, MainInCtx DEF IInv
<1>3. pc' \in [Ctx -> Steps] /\ pc'[c] = "getpos" /\ \A d \in Ctx \ {c} : pc'[d] = pc[d]
  BY GotoMoves, MainInCtx DEF IInv, Steps, QuerySteps
<1>4. (\A d \in Ctx : ~AtWork(d)) /\ RingShape(0, 0, 0, FALSE)
  BY NobodyAtWork
<1>5. TypeInv'
  BY <1>1, <1>2, <1>3 DEF IInv, TypeInv
<1>6. RingShape(0, 0, 0, FALSE)'
  BY <1>1, <1>4 DEF RingShape, Dist
<1>7. loc'[c].odelay <= kernlen' /\ Len(queue') <= loc'[c].odelay
  BY <1>1, <1>2
<1>8. WorkAt(c)'
  BY <1>3, <1>6, <1>7 DEF WorkAt, Settled
<1>9. Moves(c) /\ AtWork(c)'
  BY <1>2, <1>3 DEF Moves, AtWork, QuerySteps
<1>10. LockInv' /\ RestInv' /\ WorkInv'
  BY <1>4, <1>8, <1>9, MainInCtx, WorkBegins
<1>11. Dist(kernpos', bufpos') <= Dist(kernpos, bufpos) /\ kernpos' \in Frames /\ bufpos' \in Frames
  BY <1>1, Numbers DEF IInv
<1>12. ClipInv'
  BY <1>1, <1>2, <1>3, <1>9, <1>11, MainInCtx, ClipKept
<1>13. QED BY <1>1, <1>5, <1>10, <1>12 DEF IInv, OpenInv

LEMMA GetPlayPosInv ==
  ASSUME IInv, GetPlayPos
  PROVE  IInv'
<1>1. Len(queue) \in Nat /\ kernlen \in Nat /\ cachelen \in Int
  BY Numbers DEF IInv
<1>2. RingShape(0, 0, 0, FALSE)
  BY NobodyAtWork DEF GetPlayPos
<1>3. Len(queue) <= kernlen
  BY <1>1, <1>2 DEF RingShape
<1>4. QED BY <1>1, <1>3, QueryBegins DEF GetPlayPos, MayStart

LEMMA GetTimerInv ==
  ASSUME IInv, GetTimer
  PROVE  IInv'
<1> DEFINE c == Main
<1>1. /\ open /\ pc[c] = "idle" /\ Goto(c, "timer")
      /\ loc' = [loc EXCEPT ![c].tmp = playpos, ![c].n = Played, ![c].timer = TRUE]
      /\ UNCHANGED <<open, kernpos, cachepos, bufpos, cachelen, kernlen, playpos,
                     busy, clipbusy, cells, next, queue, clock>>
  BY DEF GetTimer, MayStart, positions
<1>2. pc' \in [Ctx -> Steps] /\ pc'[c] = "timer" /\ \A d \in Ctx \ {c} : pc'[d] = pc[d]
  BY <1>1, GotoMoves, MainInCtx DEF IInv, Steps
<1>3. playpos \in Nat /\ Played \in Nat
  <2>1. playpos \in Int /\ Len(queue) \in Int
    BY Numbers DEF IInv, TypeInv
  <2>2. playpos - Len(queue) \in Int
    BY <2>1
  <2>3. Played \in 0..Labels-1
    BY <2>2, ModLabels DEF Played
  <2>4. playpos \in Nat
    BY DEF IInv, TypeInv
  <2>5. QED BY <2>3, <2>4
<1>4. /\ loc' \in [Ctx -> Locals] /\ loc'[c].release = loc[c].release
      /\ \A d \in Ctx \ {c} : loc'[d] = loc[d]
  BY <1>1, <1>3, MainInCtx, SetClock DEF IInv
<1>a. UNCHANGED <<open, kernpos, cachepos, bufpos, cachelen, kernlen, playpos,
                     busy, clipbusy, cells, next, queue, clock>>
  BY <1>1
<1>5. TypeInv'
  BY <1>a, <1>2, <1>4 DEF IInv, TypeInv
<1>6. ~AtWork(c) /\ ~AtWork(c)' /\ Moves(c)
  BY <1>1, <1>2, <1>4 DEF AtWork, Moves, FlushSteps, QuerySteps
<1>7. LockInv' /\ RestInv' /\ WorkInv'
  BY <1>a, <1>6, MainInCtx, OutsideStep
<1>8. Dist(kernpos', bufpos') <= Dist(kernpos, bufpos) /\ kernpos' \in Frames /\ bufpos' \in Frames
  BY <1>a, Numbers DEF IInv
<1>9. ClipInv'
  BY <1>a, <1>2, <1>4, <1>6, <1>8, MainInCtx, ClipKept
<1>10. QED BY <1>1, <1>5, <1>7, <1>9 DEF IInv, OpenInv

LEMMA GetTimerDelayInv ==
  ASSUME IInv, GetTimerDelay
  PROVE  IInv'
<1>1. pc[Main] = "timer" /\ \A d \in Ctx : d # Main => pc[d] = "idle"
  BY MainInCtx DEF GetTimerDelay, Runs
<1>2. \A d \in Ctx : ~AtWork(d)
  BY <1>1 DEF AtWork, FlushSteps, QuerySteps
<1>3. busy = 0 /\ RingShape(0, 0, 0, FALSE)
  BY <1>2 DEF IInv, LockInv, RestInv
<1>4. Len(queue) \in Nat /\ kernlen \in Nat /\ cachelen \in Int
  BY Numbers DEF IInv
<1>5. Len(queue) <= kernlen
  BY <1>3, <1>4 DEF RingShape
<1>6. busy' = 1
  BY <1>3 DEF GetTimerDelay
<1>7. open
  BY <1>1, MainInCtx DEF IInv, OpenInv, Idle
<1>8. \E v \in Nat : Set(Main, "odelay", v) /\ Len(queue) <= v /\ v <= kernlen
  BY <1>4, <1>5 DEF GetTimerDelay
<1>9. QED BY <1>3, <1>6, <1>7, <1>8, QueryBegins DEF GetTimerDelay

LEMMA QueryKernLenInv ==
  ASSUME IInv, QueryKernLen
  PROVE  IInv'
<1> DEFINE c == Main
<1>1. /\ AtWork(c) /\ RingShape(0, 0, 0, FALSE)
      /\ loc[c].odelay <= kernlen /\ Len(queue) <= loc[c].odelay
  BY MainInCtx DEF QueryKernLen, AtWork, QuerySteps, IInv, WorkInv, WorkAt, Settled
<1>2. UNCHANGED <<open, kernpos, cachepos, bufpos, cachelen, playpos,
                 busy, clipbusy, cells, next, queue, clock, loc>>
  BY DEF QueryKernLen
<1>a. loc[c].odelay \in Nat /\ kernlen \in Nat
  BY Numbers, MainInCtx DEF IInv
<1>3. kernlen' = loc[c].odelay /\ kernlen' \in Nat
  BY <1>1, <1>a DEF QueryKernLen
<1>4. pc' \in [Ctx -> Steps] /\ pc'[c] = "getpos2" /\ \A d \in Ctx \ {c} : pc'[d] = pc[d]
  BY GotoMoves, MainInCtx DEF QueryKernLen, IInv, Steps, QuerySteps
<1>5. TypeInv'
  <2>1. cachelen' \in Int /\ loc' \in [Ctx -> Locals]
    BY <1>2 DEF IInv, TypeInv
  <2>2. QED BY <1>2, <1>3, <1>4, <2>1, TypeCounts DEF IInv
<1>6. RingShape(0, 0, 0, TRUE)'
  BY <1>1, <1>2, <1>3, LowerKernLen DEF IInv
<1>7. WorkAt(c)'
  BY <1>4, <1>6 DEF WorkAt, Settled
<1>8. AtWork(c)' /\ Moves(c)
  BY <1>2, <1>4 DEF AtWork, QuerySteps, Moves
<1>9. Dist(kernpos', bufpos') <= Dist(kernpos, bufpos)
  BY <1>2, Numbers DEF IInv
<1>10. QED BY <1>1, <1>2, <1>5, <1>7, <1>8, <1>9, MainInCtx, WorkStep

LEMMA QueryKernPosInv ==
  ASSUME IInv, QueryKernPos
  PROVE  IInv'
<1> DEFINE c == Main
<1>1. AtWork(c) /\ RingShape(0, 0, 0, TRUE)
  BY MainInCtx DEF QueryKernPos, AtWork, QuerySteps, IInv, WorkInv, WorkAt, Settled
<1>2. /\ busy' = busy - 1 /\ Return(c)
      /\ UNCHANGED <<open, cachepos, bufpos, cachelen, kernlen, playpos, cells,
                     next, queue>>
  BY DEF QueryKernPos
<1>3. /\ kernlen \in Frames /\ kernlen >= 0 /\ cachelen >= 0
      /\ kernlen + cachelen <= Dist(kernpos, bufpos)
      /\ cachelen = Dist(cachepos, bufpos) /\ Len(queue) <= kernlen
  BY <1>1, Numbers DEF IInv, RingShape
<1>4. kernpos' = Dist(kernlen, cachepos) /\ kernpos' \in Frames
  BY <1>3, BehindDist DEF QueryKernPos, IInv, TypeInv
<1>5. kernlen + cachelen = Dist(kernpos', bufpos)
  BY <1>3, <1>4, Numbers, KernPosMath DEF IInv
<1>6. clock' \in 0..Labels-1
  <2>1. loc[Main].tmp - kernlen \in Int
    BY Numbers, MainInCtx DEF IInv
  <2>2. Elapsed \in 0..Labels-1
    BY <2>1, ModLabels DEF Elapsed
  <2>3. clock \in 0..Labels-1
    BY DEF IInv, TypeInv
  <2>4. QED BY <2>2, <2>3 DEF QueryKernPos
<1>7. busy' = 0
  BY <1>1, <1>2, MainInCtx DEF IInv, LockInv
<1>8. pc' \in [Ctx -> Steps] /\ clipbusy' \in 0..1 /\ loc' \in [Ctx -> Locals]
  BY <1>2, ReturnMoves, MainInCtx DEF IInv
<1>a. UNCHANGED <<open, cachepos, bufpos, cachelen, kernlen, playpos, cells,
                     next, queue>>
  BY <1>2
<1>9. TypeInv'
  <2>1. open' \in BOOLEAN /\ cells' \in [Frames -> 0..Silence]
    BY <1>a DEF IInv, TypeInv
  <2>2. queue' \in Seq(0..Silence) /\ Len(queue') <= KernCap
    BY <1>a DEF IInv, TypeInv
  <2>3. /\ cachepos' \in Frames /\ bufpos' \in Frames
        /\ cachelen' \in Int /\ kernlen' \in Nat
        /\ playpos' \in 0..Labels-1 /\ next' \in 0..Labels-1
    BY <1>a DEF IInv, TypeInv
  <2>4. busy' \in 0..1
    BY <1>7
  <2>5. QED BY <1>4, <1>6, <1>8, <2>1, <2>2, <2>3, <2>4 DEF TypeInv
<1>10. RingShape(0, 0, 0, FALSE)'
  BY <1>3, <1>5, <1>a, Numbers DEF IInv, RingShape
<1>11. Dist(kernpos', bufpos') <= Dist(kernpos, bufpos)
  BY <1>3, <1>5, <1>a
<1>12. QED BY <1>1, <1>2, <1>9, <1>10, <1>11, MainInCtx, WorkReturn
-----------------------------------------------------------------------------
(* The sound card, plrPlay and plrStop.                                    *)
LEMMA DevicePlayInv ==
  ASSUME IInv, DevicePlay
  PROVE  IInv'
<1>1. /\ queue # <<>> /\ queue' = Tail(queue)
      /\ UNCHANGED <<open, kernpos, cachepos, bufpos, cachelen, kernlen, playpos,
                     busy, clipbusy, cells, next, clock, pc, loc>>
  BY DEF DevicePlay, positions
<1>2. queue' \in Seq(0..Silence)
  BY <1>1 DEF IInv, TypeInv
<1>3. Len(queue') = Len(queue) - 1
  BY <1>1 DEF IInv, TypeInv
<1>4. Len(queue') <= Len(queue) /\ Len(queue') \in Nat /\ Len(queue) \in Nat
  <2>1. Len(queue) \in Nat
    BY Numbers DEF IInv
  <2>2. Len(queue') \in Nat
    BY <1>2
  <2>3. QED BY <1>3, <2>1, <2>2
<1>5. Len(queue') <= KernCap
  BY <1>4 DEF IInv, TypeInv
<1>6. TypeInv'
  BY <1>1, <1>2, <1>5 DEF IInv, TypeInv
<1>7. open'
  BY <1>1 DEF IInv, OpenInv
<1>8. \A c \in Ctx : AtWork(c)' <=> AtWork(c)
  BY <1>1 DEF AtWork
<1>9. LockInv' /\ ClipInv'
  BY <1>1, <1>8 DEF IInv, LockInv, ClipInv, Dist
<1>10. \A m, w, k \in Frames, s \in BOOLEAN : RingShape(m, w, k, s) => RingShape(m, w, k, s)'
  <2> TAKE m, w, k \in Frames, s \in BOOLEAN
  <2>1. kernlen \in Nat
    BY Numbers DEF IInv
  <2>2. Len(queue) <= kernlen + k => Len(queue') <= kernlen' + k
    BY <1>1, <1>4, <2>1
  <2>3. QED BY <1>1, <2>2 DEF RingShape, Dist
<1>11. 0 \in Frames
  OBVIOUS
<1>12. RestInv'
  BY <1>8, <1>10, <1>11 DEF IInv, RestInv
<1>13. ASSUME NEW c \in Ctx PROVE WorkAt(c)'
  <2>1. loc[c].result \in Frames /\ loc[c].odelay \in Nat /\ loc[c].n \in Nat
    BY Numbers DEF IInv
  <2>2. Len(queue) <= loc[c].odelay => Len(queue') <= loc[c].odelay
    BY <1>4, <2>1
  <2>3. loc[c].n + Len(queue) <= KernCap => loc[c].n + Len(queue') <= KernCap
    BY <1>4, <2>1
  <2>4. WorkAt(c)
    BY DEF IInv, WorkInv
  <2>5. QED BY <1>1, <1>10, <1>11, <2>1, <2>2, <2>3, <2>4 DEF WorkAt
<1>14. QED BY <1>6, <1>7, <1>9, <1>12, <1>13 DEF IInv, OpenInv, WorkInv

LEMMA IdleFacts ==
  ASSUME IInv, Idle, UNCHANGED <<busy, clipbusy, pc, loc>>
  PROVE  /\ \A c \in Ctx : ~AtWork(c) /\ ~AtWork(c)'
         /\ LockInv' /\ ClipInv' /\ WorkInv' /\ Idle'
         /\ RingShape(0, 0, 0, FALSE)
<1>1. \A c \in Ctx : ~AtWork(c) /\ ~AtWork(c)' /\ pc[c] = "idle" /\ pc'[c] = "idle"
  BY DEF Idle, AtWork, FlushSteps, QuerySteps
<1>2. LockInv'
  BY <1>1 DEF IInv, LockInv
<1>3. ClipInv'
  BY <1>1 DEF IInv, ClipInv
<1>4. WorkInv'
  BY <1>1 DEF WorkInv, WorkAt, Settled
<1>5. QED BY <1>1, <1>2, <1>3, <1>4 DEF IInv, RestInv, Idle

LEMMA OssPlayInv ==
  ASSUME IInv, OssPlay
  PROVE  IInv'
<1>1. Idle /\ ~open /\ open' \in BOOLEAN /\ UNCHANGED <<busy, clipbusy, queue, pc, loc>>
  BY DEF OssPlay
<1>2. queue = <<>> /\ queue' = <<>> /\ Len(queue') = 0
  BY <1>1 DEF IInv, OpenInv
<1>3. /\ kernpos' = 0 /\ cachepos' = 0 /\ bufpos' = 0 /\ cachelen' = 0 /\ kernlen' = 0
      /\ playpos' = 0 /\ next' = 0 /\ clock' = 0
      /\ cells' = [i \in 0..BufLen-1 |-> Silence]
  BY DEF OssPlay
<1>4. /\ \A c \in Ctx : ~AtWork(c)'
      /\ LockInv' /\ ClipInv' /\ WorkInv' /\ Idle'
  BY <1>1, IdleFacts
<1>5. TypeInv'
  BY <1>1, <1>3 DEF IInv, TypeInv
<1>6. RingShape(0, 0, 0, FALSE)'
  BY <1>2, <1>3 DEF RingShape, Dist
<1>7. QED BY <1>2, <1>4, <1>5, <1>6 DEF IInv, OpenInv, RestInv

LEMMA OssStopInv ==
  ASSUME IInv, OssStop
  PROVE  IInv'
<1>1. /\ Idle /\ open' = FALSE /\ queue' = <<>>
      /\ UNCHANGED <<kernpos, cachepos, bufpos, cachelen, kernlen, playpos,
                     busy, clipbusy, cells, next, clock, pc, loc>>
  BY DEF OssStop, positions
<1>2. /\ LockInv' /\ ClipInv' /\ WorkInv' /\ Idle' /\ RingShape(0, 0, 0, FALSE)
  BY <1>1, IdleFacts
<1>3. /\ queue' \in Seq(0..Silence) /\ Len(queue') = 0 /\ Len(queue') <= KernCap
      /\ open' \in BOOLEAN
  <2>1. <<>> \in Seq(0..Silence) /\ Len(<<>>) = 0
    OBVIOUS
  <2>2. open' \in BOOLEAN
    BY <1>1
  <2>3. queue' \in Seq(0..Silence) /\ Len(queue') = 0
    BY <1>1, <2>1
  <2>4. QED BY <2>2, <2>3
<1>a. UNCHANGED <<kernpos, cachepos, bufpos, cachelen, kernlen, playpos,
                     busy, clipbusy, cells, next, clock, pc, loc>>
  BY <1>1
<1>4. TypeInv'
  BY <1>3, <1>a DEF IInv, TypeInv
<1>5. kernlen >= 0 /\ kernlen + 0 >= 0
  BY Numbers DEF IInv
<1>6. RingShape(0, 0, 0, FALSE)'
  <2>1. Len(queue') <= kernlen + 0
    BY <1>1, <1>3, <1>5
  <2>2. QED BY <1>1, <1>2, <2>1 DEF RingShape, Dist
<1>7. QED BY <1>1, <1>2, <1>4, <1>6 DEF IInv, OpenInv, RestInv
-----------------------------------------------------------------------------
LEMMA NextInv ==
  ASSUME ~SplitUpdate \/ Levels = 0, IInv, [Next]_vars
  PROVE  IInv'
<1>1. CASE OssPlay
  BY <1>1, OssPlayInv
<1>2. CASE OssStop
  BY <1>2, OssStopInv
<1>3. ASSUME NEW c \in Ctx, Work(c) PROVE IInv'
  BY <1>3, TimerProcInv, MixAndAdvanceInv, MixDoneInv, CallIdleInv, FlushInv DEF Work
<1>4. CASE Query
  BY <1>4, GetPlayPosInv, GetTimerInv, GetTimerDelayInv, QueryKernLenInv, QueryKernPosInv
     DEF Query
<1>5. CASE DevicePlay
  BY <1>5, DevicePlayInv
<1>6. CASE UNCHANGED vars
  <2>1. UNCHANGED <<open, kernpos, cachepos, bufpos, cachelen, kernlen, playpos,
                     busy, clipbusy, cells, next, queue, clock, pc, loc>>
    BY <1>6 DEF vars, positions
  <2>2. TypeInv' /\ OpenInv'
    BY <2>1 DEF IInv, TypeInv, OpenInv, Idle
  <2>3. LockInv' /\ ClipInv'
    BY <2>1 DEF IInv, LockInv, ClipInv, AtWork, Dist
  <2>4. RestInv' /\ WorkInv'
    BY <2>1 DEF IInv, RestInv, WorkInv, WorkAt, RingShape, AtWork, Dist
  <2>5. QED BY <2>2, <2>3, <2>4 DEF IInv
<1>7. QED BY <1>1, <1>2, <1>3, <1>4, <1>5, <1>6 DEF Next

LEMMA InvAlways ==
  ASSUME ~SplitUpdate \/ Levels = 0
  PROVE  Spec => []IInv
<1>1. Init => IInv
  BY InitInv
<1>2. IInv /\ [Next]_vars => IInv'
  BY NextInv
<1>3. QED BY <1>1, <1>2, PTL DEF Spec
-----------------------------------------------------------------------------
(* Every variable of the device keeps to its type; in particular cachelen  *)
(* and kernlen stay within the buffer at every interruption point of       *)
(* flush(), advance() and the queries.                                     *)
THEOREM TypeCorrect ==
  ASSUME ~SplitUpdate \/ Levels = 0
  PROVE  Spec => []TypeOK
<1>1. IInv => TypeOK
  <2> SUFFICES ASSUME IInv PROVE TypeOK
    OBVIOUS
  <2>1. PICK m, w, k \in Frames, s \in BOOLEAN : w <= k /\ RingShape(m, w, k, s)
    BY SomeShape
  <2>2. /\ cachelen \in Int /\ kernlen \in Nat /\ Dist(kernpos, bufpos) \in Frames
    BY Numbers DEF IInv
  <2>3. cachelen - w >= 0 /\ (kernlen + k) + (cachelen - w) <= Dist(kernpos, bufpos)
    BY <2>1 DEF RingShape
  <2>4. cachelen \in Frames
    BY <2>1, <2>2, <2>3
  <2>5. kernlen \in Frames
    BY <2>1, <2>2, <2>3
  <2>6. QED BY <2>4, <2>5 DEF IInv, TypeInv, TypeOK, Locals
<1>2. QED BY <1>1, InvAlways, PTL

(* The branch of getbufpos that its author marked "unreachable code" is    *)
(* never taken.                                                            *)
THEOREM NeverUnreachable ==
  ASSUME ~SplitUpdate \/ Levels = 0
  PROVE  Spec => []Unreachable
<1>1. IInv => Unreachable
  BY RingSpan DEF Unreachable
<1>2. QED BY <1>1, InvAlways, PTL

(* flush(), getplaypos() and gettimer() never print "kernelbug found!": no *)
(* interleaving makes the driver believe the kernel holds less than it     *)
(* does.                                                                   *)
THEOREM KernelHonest ==
  ASSUME ~SplitUpdate \/ Levels = 0
  PROVE  Spec => []NoKernelBug
<1>1. IInv => NoKernelBug
  BY DEF IInv, WorkInv, WorkAt, NoKernelBug
<1>2. QED BY <1>1, InvAlways, PTL

(* The frames an interrupted flush has handed over and not yet accounted   *)
(* for are those of the one context at work.                               *)
LEMMA PendingAt ==
  ASSUME IInv, NEW steps, steps \subseteq FlushSteps \cup QuerySteps, NEW c \in Ctx, AtWork(c)
  PROVE  Pending(steps) = IF pc[c] \in steps THEN loc[c].result ELSE 0
<1> DEFINE at == {d \in Ctx : pc[d] \in steps}
<1>1. \A d \in at : d = c
  BY DEF IInv, LockInv, AtWork
<1>2. CASE pc[c] \in steps
  <2>1. at = {c}
    BY <1>1, <1>2
  <2>2. (CHOOSE d \in at : TRUE) = c
    BY <2>1
  <2>3. QED BY <1>2, <2>1, <2>2 DEF Pending
<1>3. CASE pc[c] \notin steps
  <2>1. at = {}
    BY <1>1, <1>3
  <2>2. QED BY <1>3, <2>1 DEF Pending
<1>4. QED BY <1>2, <1>3

(* The picture at the top of devposs.c holds in every state: cachelen      *)
(* frames from cachepos to bufpos, kernlen from kernpos to cachepos, and   *)
(* never so many that bufpos could meet kernpos.                           *)
THEOREM RingCorrect ==
  ASSUME ~SplitUpdate \/ Levels = 0
  PROVE  Spec => []RingInv
<1>1. ASSUME IInv, NEW m \in Frames, NEW w \in Frames, NEW k \in Frames, NEW s \in BOOLEAN,
             RingShape(m, w, k, s), Unmoved = m, Uncounted = w, Unkerneled = k,
             s => KernPosStale
      PROVE  RingInv
  <2> DEFINE first == IF cachepos + m >= BufLen THEN cachepos + m - BufLen
                                                ELSE cachepos + m
             cached == cachelen - w
             kernel == kernlen + k
  <2>1. /\ kernpos \in Frames /\ cachepos \in Frames /\ bufpos \in Frames
        /\ cachelen \in Int /\ kernlen \in Nat /\ Dist(kernpos, bufpos) \in Frames
    BY <1>1, Numbers DEF IInv
  <2>2. /\ cached >= 0 /\ kernel >= 0 /\ cached = Dist(first, bufpos)
        /\ kernel + cached <= Dist(kernpos, bufpos)
        /\ s \/ kernel + cached = Dist(kernpos, bufpos)
    BY <1>1 DEF RingShape
  <2>3. cached \in Int /\ kernel \in Int /\ first \in Frames
    BY <2>1
  <2>4. \A a, b \in Frames : (a + Dist(a, b)) % BufLen = b
    <3> TAKE a, b \in Frames
    <3>1. a + Dist(a, b) \in 0..(2 * BufLen - 1)
      BY DEF Dist
    <3>2. QED BY <3>1, ModBufLen DEF Dist
  <2>5. bufpos = (cachepos + m + cached) % BufLen
    <3>1. (first + cached) % BufLen = bufpos
      BY <2>1, <2>2, <2>3, <2>4
    <3>2. CASE cachepos + m >= BufLen
      <4> HIDE DEF cached
      <4>1. first + cached \in 0..(2 * BufLen - 1) /\ cachepos + m + cached = first + cached + BufLen
        BY <2>1, <2>2, <2>3, <3>2, BehindDist DEF Dist
      <4>2. (first + cached + BufLen) % BufLen = (first + cached) % BufLen
        BY <4>1, ModTwice, ModBufLen
      <4>3. QED BY <3>1, <4>1, <4>2
    <3>3. CASE ~(cachepos + m >= BufLen)
      BY <3>1, <3>3
    <3>4. QED BY <3>2, <3>3
  <2>6. s \/ bufpos = (kernpos + kernel + cached) % BufLen
    <3>1. SUFFICES ASSUME kernel + cached = Dist(kernpos, bufpos)
                   PROVE  bufpos = (kernpos + kernel + cached) % BufLen
      BY <2>2
    <3>2. kernpos + kernel + cached = kernpos + Dist(kernpos, bufpos)
      BY <2>1, <2>3, <3>1
    <3>3. QED BY <2>1, <2>4, <3>2
  <2>7. kernel + cached < BufLen
    BY <2>1, <2>2, <2>3
  <2>8. QED BY <1>1, <2>2, <2>5, <2>6, <2>7 DEF RingInv
<1>2. IInv => RingInv
  <2> SUFFICES ASSUME IInv PROVE RingInv
    OBVIOUS
  <2>1. 0 \in Frames
    OBVIOUS
  <2>2. CASE \A c \in Ctx : ~AtWork(c)
    <3>1. Unmoved = 0 /\ Uncounted = 0 /\ Unkerneled = 0
      BY <2>2 DEF Unmoved, Uncounted, Unkerneled, Pending, AfterWrite, AtWork, FlushSteps
    <3>2. RingShape(0, 0, 0, FALSE)
      BY <2>2 DEF IInv, RestInv
    <3>3. QED BY <1>1, <2>1, <3>1, <3>2
  <2>3. ASSUME NEW c \in Ctx, AtWork(c) PROVE RingInv
    <3> DEFINE r == loc[c].result
    <3>1. /\ Unmoved = IF pc[c] = "cachepos" THEN r ELSE 0
          /\ Uncounted = IF pc[c] \in {"cachepos", "playpos", "cachelen", "cachelen2"} THEN r ELSE 0
          /\ Unkerneled = IF pc[c] \in AfterWrite THEN r ELSE 0
      BY <2>3, PendingAt DEF Unmoved, Uncounted, Unkerneled, AfterWrite, FlushSteps
    <3>2. WorkAt(c) /\ r \in Frames
      BY Numbers DEF IInv, WorkInv
    <3>3. CASE pc[c] \in Settled
      BY <1>1, <2>1, <3>1, <3>2, <3>3 DEF WorkAt, Settled, AfterWrite
    <3>4. CASE pc[c] \in {"kernpos", "getpos2"}
      BY <1>1, <2>1, <3>1, <3>2, <3>4 DEF WorkAt, AfterWrite, KernPosStale
    <3>5. CASE pc[c] = "cachepos"
      BY <1>1, <2>1, <3>1, <3>2, <3>5 DEF WorkAt, AfterWrite
    <3>6. CASE pc[c] \in {"playpos", "cachelen", "cachelen2"}
      BY <1>1, <2>1, <3>1, <3>2, <3>6 DEF WorkAt, AfterWrite
    <3>7. CASE pc[c] = "kernlen+"
      BY <1>1, <2>1, <3>1, <3>2, <3>7 DEF WorkAt, AfterWrite
    <3>8. QED
      BY <2>3, <3>2, <3>3, <3>4, <3>5, <3>6, <3>7 DEF AtWork, WorkAt, Settled, FlushSteps, QuerySteps
  <2>4. QED BY <2>2, <2>3
<1>3. QED BY <1>2, InvAlways, PTL
-----------------------------------------------------------------------------
(* The cell n places after the beginning of the buffer, n < 2*BufLen.      *)
Wrap(n) == IF n >= BufLen THEN n - BufLen ELSE n

LEMMA WrapFrames == \A n \in 0..(2 * BufLen - 1) : Wrap(n) \in Frames /\ n % BufLen = Wrap(n)
BY ModBufLen DEF Wrap

(* What lies between the place p + m and bufpos, in the arithmetic of Fifo *)
(* and in that of the distances.                                           *)
LEMMA SpanMath ==
  ASSUME NEW p \in Frames, NEW m \in Frames, NEW b \in Frames
  PROVE  /\ Wrap(p + m) \in Frames
         /\ (b - (p + m)) % BufLen = Dist(Wrap(p + m), b)
         /\ \A i \in 1..BufLen : (p + m + i - 1) % BufLen = Wrap(Wrap(p + m) + i - 1)
<1>1. p + m \in 0..(2 * BufLen - 1) /\ Wrap(p + m) \in Frames
  BY WrapFrames
<1>2. \A a \in (-(2 * BufLen))..(BufLen - 1) :
        a % BufLen = IF a >= 0 THEN a ELSE IF a + BufLen >= 0 THEN a + BufLen ELSE a + 2 * BufLen
  OBVIOUS
<1>3. (b - (p + m)) % BufLen = Dist(Wrap(p + m), b)
  <2>1. b - (p + m) \in (-(2 * BufLen))..(BufLen - 1)
    OBVIOUS
  <2>2. QED BY <1>2, <2>1 DEF Wrap, Dist
<1>4. ASSUME NEW i \in 1..BufLen PROVE (p + m + i - 1) % BufLen = Wrap(Wrap(p + m) + i - 1)
  <2>1. \A a \in 0..(3 * BufLen - 1) :
          a % BufLen = IF a < BufLen THEN a ELSE IF a < 2 * BufLen THEN a - BufLen ELSE a - 2 * BufLen
    OBVIOUS
  <2>2. p + m + i - 1 \in 0..(3 * BufLen - 1)
    OBVIOUS
  <2>3. QED BY <2>1, <2>2 DEF Wrap
<1>5. QED BY <1>1, <1>3, <1>4

(* A queue followed by n cells of the ring from f on.                      *)
Stretch(cs, f, n) == [i \in 1..n |-> cs[Wrap(f + i - 1)]]
Content(q, cs, f, n) == q \o Stretch(cs, f, n)

LEMMA StretchIs ==
  ASSUME NEW cs \in [Frames -> 0..Silence], NEW f \in Frames, NEW n \in Frames
  PROVE  /\ Stretch(cs, f, n) \in Seq(0..Silence) /\ Len(Stretch(cs, f, n)) = n
         /\ \A i \in 1..n : Stretch(cs, f, n)[i] = cs[Wrap(f + i - 1)]
<1>1. \A i \in 1..n : Wrap(f + i - 1) \in Frames
  BY DEF Wrap
<1>2. \A i \in 1..n : cs[Wrap(f + i - 1)] \in 0..Silence
  BY <1>1
<1>3. n \in Nat
  OBVIOUS
<1>4. QED BY <1>2, <1>3 DEF Stretch

IsContent(s, q, cs, f, n) ==
  /\ s \in Seq(0..Silence)
  /\ Len(s) = Len(q) + n
  /\ \A i \in 1..(Len(q) + n) :
       s[i] = IF i <= Len(q) THEN q[i] ELSE cs[Wrap(f + (i - Len(q)) - 1)]

LEMMA ContentIs ==
  ASSUME NEW q \in Seq(0..Silence), NEW cs \in [Frames -> 0..Silence],
         NEW f \in Frames, NEW n \in Frames
  PROVE  IsContent(Content(q, cs, f, n), q, cs, f, n)
<1> DEFINE tail == Stretch(cs, f, n)
<1>1. /\ tail \in Seq(0..Silence) /\ Len(tail) = n
      /\ \A i \in 1..n : tail[i] = cs[Wrap(f + i - 1)]
  BY StretchIs
<1>2. Len(q) \in Nat /\ n \in Nat
  OBVIOUS
<1> HIDE DEF tail
<1>3. /\ q \o tail \in Seq(0..Silence)
      /\ Len(q \o tail) = Len(q) + n
      /\ \A i \in 1..Len(q) + n : (q \o tail)[i] = IF i <= Len(q) THEN q[i] ELSE tail[i - Len(q)]
  BY <1>1, ConcatProperties
<1>4. \A i \in 1..Len(q) + n : ~(i <= Len(q)) => i - Len(q) \in 1..n
  BY <1>2
<1>5. \A i \in 1..(Len(q) + n) :
         (q \o tail)[i] = IF i <= Len(q) THEN q[i] ELSE cs[Wrap(f + (i - Len(q)) - 1)]
  BY <1>1, <1>3, <1>4
<1>6. QED BY <1>3, <1>5 DEF IsContent, Content, tail

(* Fifo, without remainders.                                               *)
Slice(cs, a, b) == [i \in 1..((b - a) % BufLen) |-> cs[(a + i - 1) % BufLen]]

LEMMA SpanEq ==
  ASSUME NEW cs, NEW p \in Frames, NEW m \in Frames, NEW b \in Frames
  PROVE  Slice(cs, p + m, b) = Stretch(cs, Wrap(p + m), Dist(Wrap(p + m), b))
<1>1. /\ Wrap(p + m) \in Frames
      /\ (b - (p + m)) % BufLen = Dist(Wrap(p + m), b)
      /\ \A i \in 1..BufLen : (p + m + i - 1) % BufLen = Wrap(Wrap(p + m) + i - 1)
  BY SpanMath
<1>2. Dist(Wrap(p + m), b) \in Frames
  BY <1>1, BehindDist
<1>3. \A i \in 1..Dist(Wrap(p + m), b) : i \in 1..BufLen
  BY <1>2
<1>4. QED BY <1>1, <1>3, Zenon DEF Slice, Stretch

(* Where the ring's part of Fifo begins.                                   *)
First == Wrap(cachepos + Unmoved)

LEMMA FifoIs ==
  ASSUME open, cachepos \in Frames, bufpos \in Frames, Unmoved \in Frames
  PROVE  Fifo = Content(queue, cells, First, Dist(First, bufpos))
<1>1. Fifo = queue \o Slice(cells, cachepos + Unmoved, bufpos)
  BY Zenon DEF Fifo, Slice
<1>2. Slice(cells, cachepos + Unmoved, bufpos)
        = Stretch(cells, Wrap(cachepos + Unmoved), Dist(Wrap(cachepos + Unmoved), bufpos))
  BY SpanEq
<1>3. QED BY <1>1, <1>2, Zenon DEF Content, First

LEMMA FifoIsNext ==
  ASSUME open', cachepos' \in Frames, bufpos' \in Frames, Unmoved' \in Frames
  PROVE  Fifo' = Content(queue', cells', First', Dist(First', bufpos'))
<1>1. Wrap(cachepos' + Unmoved') = First'
  BY DEF First, Wrap
<1>2. Fifo' = queue' \o Slice(cells', cachepos' + Unmoved', bufpos')
  BY Zenon DEF Fifo, Slice
<1>3. Slice(cells', cachepos' + Unmoved', bufpos')
        = Stretch(cells', Wrap(cachepos' + Unmoved'), Dist(Wrap(cachepos' + Unmoved'), bufpos'))
  BY SpanEq
<1>4. QED BY <1>1, <1>2, <1>3, Zenon DEF Content

LEMMA UnmovedFrames ==
  ASSUME TypeInv
  PROVE  Unmoved \in Frames
<1>1. 0 \in Frames /\ \A c \in Ctx : loc[c].result \in Frames
  <2>1. 0 \in Frames
    BY BufLenAssumption DEF Frames
  <2>2. loc \in [Ctx -> Locals] /\ \A l \in Locals : l.result \in Frames
    BY Zenon DEF TypeInv, Locals
  <2>3. QED BY <2>1, <2>2
<1>2. \A S \in SUBSET Ctx : S # {} => (CHOOSE c \in S : TRUE) \in Ctx
  OBVIOUS
<1>3. {c \in Ctx : pc[c] \in {"cachepos"}} \in SUBSET Ctx
  OBVIOUS
<1>4. QED BY <1>1, <1>2, <1>3 DEF Unmoved, Pending

(* The window of the ring is no longer than what separates kernpos from    *)
(* bufpos, and the kernel's part comes on top of it.                       *)
LEMMA Window ==
  ASSUME IInv
  PROVE  /\ First \in Frames /\ Dist(First, bufpos) \in Frames
         /\ Len(queue) + Dist(First, bufpos) <= Dist(kernpos, bufpos)
<1>1. 0 \in Frames
  OBVIOUS
<1> DEFINE Shape(w, k) == RingShape(Unmoved, w, k, FALSE) \/ RingShape(Unmoved, w, k, TRUE)
<1>2. \E w, k \in Frames : Shape(w, k)
  <2>1. CASE \A c \in Ctx : ~AtWork(c)
    <3>1. Unmoved = 0
      BY <2>1 DEF Unmoved, Pending, AtWork, FlushSteps
    <3>2. RingShape(0, 0, 0, FALSE)
      BY <2>1 DEF IInv, RestInv
    <3>3. RingShape(Unmoved, 0, 0, FALSE)
      BY <3>1, <3>2, Zenon
    <3>4. Shape(0, 0)
      BY <3>3
    <3> HIDE DEF Shape
    <3>5. QED BY <1>1, <3>4
  <2>2. ASSUME NEW c \in Ctx, AtWork(c)
        PROVE  \E w, k \in Frames : Shape(w, k)
    <3> DEFINE r == loc[c].result
    <3>1. Unmoved = IF pc[c] = "cachepos" THEN r ELSE 0
      BY <2>2, PendingAt DEF Unmoved, FlushSteps
    <3>2. r \in Frames /\ 0 <= r /\ r <= r
      BY Numbers DEF IInv
    <3>3. CASE pc[c] = "cachepos"
      <4>1. RingShape(r, r, r, FALSE)
        BY <3>3 DEF IInv, WorkInv, WorkAt
      <4> HIDE DEF r
      <4>2. RingShape(Unmoved, r, r, FALSE)
        BY <3>1, <3>3, <4>1, Zenon
      <4>3. Shape(r, r)
        BY <4>2
      <4> HIDE DEF Shape
      <4>4. QED BY <3>2, <4>3
    <3>4. CASE pc[c] # "cachepos"
      <4>1. \/ RingShape(0, 0, 0, FALSE) \/ RingShape(0, 0, 0, TRUE)
            \/ RingShape(0, r, r, FALSE) \/ RingShape(0, 0, r, FALSE)
        BY <2>2, <3>4 DEF IInv, WorkInv, WorkAt, AtWork, Settled, FlushSteps, QuerySteps
      <4> HIDE DEF r
      <4>2. \/ RingShape(Unmoved, 0, 0, FALSE) \/ RingShape(Unmoved, 0, 0, TRUE)
            \/ RingShape(Unmoved, r, r, FALSE) \/ RingShape(Unmoved, 0, r, FALSE)
        BY <3>1, <3>4, <4>1, Zenon
      <4>3. Shape(0, 0) \/ Shape(r, r) \/ Shape(0, r)
        BY <4>2
      <4> HIDE DEF Shape
      <4>4. QED BY <1>1, <3>2, <4>3
    <3>5. QED BY <3>3, <3>4
  <2>3. QED BY <2>1, <2>2
<1>3. PICK w \in Frames, k \in Frames : Shape(w, k)
  BY <1>2
<1>4. /\ cachelen \in Int /\ kernlen \in Nat /\ Len(queue) \in Nat
      /\ cachepos \in Frames /\ bufpos \in Frames /\ Unmoved \in Frames
      /\ Dist(kernpos, bufpos) \in Frames
  BY Numbers, UnmovedFrames DEF IInv
<1>5. First \in Frames
  BY <1>4 DEF First, Wrap
<1>6. Dist(First, bufpos) \in Frames
  BY <1>4, <1>5, BehindDist
<1>7. /\ Len(queue) <= kernlen + k /\ cachelen - w = Dist(First, bufpos)
      /\ (kernlen + k) + (cachelen - w) <= Dist(kernpos, bufpos)
  <2>1. First = IF cachepos + Unmoved >= BufLen THEN cachepos + Unmoved - BufLen
                                                ELSE cachepos + Unmoved
    BY <1>4 DEF First, Wrap
  <2>2. QED BY <1>3, <2>1, Zenon DEF RingShape
<1>8. Len(queue) + Dist(First, bufpos) <= Dist(kernpos, bufpos)
  BY <1>4, <1>6, <1>7
<1>9. QED BY <1>5, <1>6, <1>8

(* A step of a context that is not about to move cachepos.                 *)
LEMMA UnmovedKept ==
  ASSUME NEW c \in Ctx, Moves(c), pc[c] # "cachepos", pc'[c] # "cachepos"
  PROVE  Unmoved' = Unmoved
<1> DEFINE at == {d \in Ctx : pc[d] \in {"cachepos"}}
<1> DEFINE then == {d \in Ctx : pc'[d] \in {"cachepos"}}
<1>1. then = at
  BY DEF Moves
<1>2. \A d \in at : loc'[d].result = loc[d].result
  BY DEF Moves
<1>3. Unmoved = IF at = {} THEN 0 ELSE loc[CHOOSE d \in at : TRUE].result
  BY DEF Unmoved, Pending
<1>4. Unmoved' = IF then = {} THEN 0 ELSE loc'[CHOOSE d \in then : TRUE].result
  BY Zenon DEF Unmoved, Pending
<1> HIDE DEF at, then
<1>5. at # {} => (CHOOSE d \in at : TRUE) \in at
  OBVIOUS
<1>6. QED BY <1>1, <1>2, <1>3, <1>4, <1>5

LEMMA Quiet ==
  ASSUME NEW c \in Ctx, Moves(c), pc[c] # "cachepos", pc'[c] # "cachepos",
         UNCHANGED <<open, cachepos, bufpos, cells, next, queue>>
  PROVE  UNCHANGED <<open, Fifo, next>>
<1>1. Unmoved' = Unmoved
  BY UnmovedKept
<1>2. open' = open /\ cachepos' = cachepos /\ bufpos' = bufpos /\ cells' = cells
      /\ next' = next /\ queue' = queue
  OBVIOUS
<1>3. Fifo' = Fifo
  BY <1>1, <1>2 DEF Fifo
<1>4. QED BY <1>2, <1>3

(* ... written with what the actions say.                                  *)
LEMMA QuietStep ==
  ASSUME TypeInv, NEW c \in Ctx, pc[c] # "cachepos",
         NEW s \in Steps, s # "cachepos", Goto(c, s),
         \A d \in Ctx \ {c} : loc'[d] = loc[d],
         UNCHANGED <<open, cachepos, bufpos, cells, next, queue>>
  PROVE  UNCHANGED <<open, Fifo, next>>
<1>1. pc' \in [Ctx -> Steps] /\ pc'[c] = s /\ \A d \in Ctx \ {c} : pc'[d] = pc[d]
  BY GotoMoves
<1>2. Moves(c)
  BY <1>1 DEF Moves
<1>3. QED BY <1>1, <1>2, Quiet

LEMMA SetOthers ==
  ASSUME TypeInv, NEW c \in Ctx, NEW field, NEW v, Set(c, field, v)
  PROVE  \A d \in Ctx \ {c} : loc'[d] = loc[d]
BY DEF TypeInv, Set

LEMMA QuietLeave ==
  ASSUME TypeInv, NEW c \in Ctx, pc[c] # "cachepos", Return(c),
         UNCHANGED <<open, cachepos, bufpos, cells, next, queue>>
  PROVE  UNCHANGED <<open, Fifo, next>>
<1>1. Goto(c, "idle") /\ "idle" \in Steps /\ \A d \in Ctx \ {c} : loc'[d] = loc[d]
  BY DEF Return, Steps, TypeInv
<1>2. QED BY <1>1, QuietStep

-----------------------------------------------------------------------------
(* The steps of flush and of the queries that the contract does not see.   *)
LEMMA FlushQuiet ==
  ASSUME IInv, NEW c \in Ctx, FlushStep(c), ~FlushWrite(c), ~FlushCachePos(c)
  PROVE  UNCHANGED <<open, Fifo, next>>
<1> USE DEF IInv
<1>1. CASE FlushEnter(c)
  <2>1. UNCHANGED <<open, cachepos, bufpos, cells, next, queue>> /\ pc[c] = "flush"
    BY <1>1 DEF FlushEnter, positions
  <2>2. CASE Return(c)
    BY <2>1, <2>2, QuietLeave
  <2>3. CASE Goto(c, "odelay") /\ UNCHANGED loc
    BY <2>1, <2>3, QuietStep DEF Steps, FlushSteps
  <2>4. QED BY <1>1, <2>2, <2>3 DEF FlushEnter
<1>2. ASSUME LeaveFlush(c), pc[c] # "cachepos" PROVE UNCHANGED <<open, Fifo, next>>
  BY <1>2, QuietLeave DEF LeaveFlush, positions
<1>3. CASE FlushOdelay(c)
  <2>1. CASE Goto(c, "kernlen") /\ Set(c, "odelay", Len(queue))
             /\ UNCHANGED <<open, positions, busy, clipbusy, cells, next, queue, clock>>
    BY <1>3, <2>1, QuietStep, SetOthers DEF FlushOdelay, Steps, FlushSteps, positions
  <2>2. QED BY <1>2, <1>3, <2>1 DEF FlushOdelay
<1>4. CASE FlushKernLen(c)
  <2>1. Goto(c, "kernpos") \/ Goto(c, "cache?")
    BY <1>4 DEF FlushKernLen
  <2>2. UNCHANGED <<open, cachepos, bufpos, cells, next, queue, loc>> /\ pc[c] = "kernlen"
    BY <1>4 DEF FlushKernLen
  <2>3. QED BY <2>1, <2>2, QuietStep DEF Steps, FlushSteps
<1>5. CASE FlushKernPos(c)
  BY <1>5, QuietStep DEF FlushKernPos, Steps, FlushSteps
<1>6. CASE FlushCache(c)
  <2>1. CASE Goto(c, "space") /\ UNCHANGED <<open, positions, cells, next, queue, loc>>
    BY <1>6, <2>1, QuietStep DEF FlushCache, Steps, FlushSteps, positions
  <2>2. QED BY <1>2, <1>6, <2>1 DEF FlushCache
<1>7. CASE FlushSpace(c)
  <2>1. CASE Goto(c, "len") /\ Set(c, "n", KernCap - Len(queue))
             /\ UNCHANGED <<open, positions, cells, next, queue>>
    BY <1>7, <2>1, QuietStep, SetOthers DEF FlushSpace, Steps, FlushSteps, positions
  <2>2. QED BY <1>2, <1>7, <2>1 DEF FlushSpace
<1>8. CASE FlushLen(c)
  <2>1. UNCHANGED <<open, cachepos, bufpos, cells, next, queue>> /\ pc[c] = "len"
    BY <1>8 DEF FlushLen, positions
  <2>2. CASE Goto(c, "write") /\ Set(c, "n", Capped(c, BufLen - cachepos))
    BY <2>1, <2>2, QuietStep, SetOthers DEF Steps, FlushSteps
  <2>3. CASE Goto(c, "len2") /\ UNCHANGED loc
    BY <2>1, <2>3, QuietStep DEF Steps, FlushSteps
  <2>4. QED BY <1>8, <2>2, <2>3 DEF FlushLen
<1>9. CASE FlushLen2(c)
  <2>1. CASE Goto(c, "write") /\ Set(c, "n", Capped(c, bufpos - cachepos))
             /\ UNCHANGED <<open, positions, cells, next, queue>>
    BY <1>9, <2>1, QuietStep, SetOthers DEF FlushLen2, Steps, FlushSteps, positions
  <2>2. QED BY <1>2, <1>9, <2>1 DEF FlushLen2
<1>10. CASE FlushPlayPos(c)
  BY <1>10, QuietStep DEF FlushPlayPos, Steps, FlushSteps
<1>11. CASE FlushCacheLen(c)
  <2>1. UNCHANGED <<open, cachepos, bufpos, cells, next, queue>> /\ pc[c] = "cachelen"
    BY <1>11 DEF FlushCacheLen
  <2>2. CASE Goto(c, "kernlen+") /\ UNCHANGED loc
    BY <2>1, <2>2, QuietStep DEF Steps, FlushSteps
  <2>3. CASE Goto(c, "cachelen2") /\ Set(c, "tmp", cachelen)
    BY <2>1, <2>3, QuietStep, SetOthers DEF Steps, FlushSteps
  <2>4. QED BY <1>11, <2>2, <2>3 DEF FlushCacheLen
<1>12. CASE FlushCacheStore(c)
  BY <1>12, QuietStep DEF FlushCacheStore, Steps, FlushSteps
<1>13. CASE FlushDone(c)
  BY <1>13, QuietLeave DEF FlushDone
<1>14. QED
  BY <1>1, <1>3, <1>4, <1>5, <1>6, <1>7, <1>8, <1>9, <1>10, <1>11, <1>12, <1>13
     DEF FlushStep

LEMMA QueryQuiet ==
  ASSUME IInv, Query
  PROVE  UNCHANGED <<open, Fifo, next>>
<1> USE MainInCtx DEF IInv
<1>1. CASE GetPlayPos
  BY <1>1, QuietStep, SetOthers DEF GetPlayPos, MayStart, Steps, QuerySteps, positions
<1>2. CASE GetTimer
  <2>1. \A d \in Ctx \ {Main} : loc'[d] = loc[d]
    BY <1>2 DEF GetTimer, TypeInv
  <2>2. QED BY <1>2, <2>1, QuietStep DEF GetTimer, MayStart, Steps, positions
<1>3. CASE GetTimerDelay
  BY <1>3, QuietStep, SetOthers DEF GetTimerDelay, Steps, QuerySteps, positions
<1>4. CASE QueryKernLen
  BY <1>4, QuietStep DEF QueryKernLen, Steps, QuerySteps
<1>5. CASE QueryKernPos
  BY <1>5, QuietLeave DEF QueryKernPos
<1>6. QED BY <1>1, <1>2, <1>3, <1>4, <1>5 DEF Query

LEMMA FillerQuiet ==
  ASSUME IInv, NEW c \in Ctx, TimerProc(c) \/ MixDone(c) \/ CallIdle(c)
  PROVE  UNCHANGED <<open, Fifo, next>>
<1> USE DEF IInv
<1>1. CASE TimerProc(c)
  <2>1. \A d \in Ctx \ {c} : loc'[d] = loc[d]
    BY <1>1 DEF TimerProc, TypeInv
  <2>2. QED BY <1>1, <2>1, QuietStep DEF TimerProc, MayStart, Steps, positions
<1>2. CASE MixDone(c)
  <2>1. \A d \in Ctx \ {c} : loc'[d] = loc[d]
    BY <1>2 DEF MixDone, TypeInv
  <2>2. QED BY <1>2, <2>1, QuietStep DEF MixDone, Steps, positions
<1>3. CASE CallIdle(c)
  BY <1>3, QuietStep DEF CallIdle, MayStart, Steps, positions
<1>4. QED BY <1>1, <1>2, <1>3

(* The places of a concatenation.                                          *)
IsConcat(s, s1, s2) ==
  /\ s \in Seq(0..Silence) /\ Len(s) = Len(s1) + Len(s2)
  /\ \A i \in 1..(Len(s1) + Len(s2)) :
       s[i] = IF i <= Len(s1) THEN s1[i] ELSE s2[i - Len(s1)]

LEMMA ConcatIs ==
  ASSUME NEW s1 \in Seq(0..Silence), NEW s2 \in Seq(0..Silence)
  PROVE  IsConcat(s1 \o s2, s1, s2)
BY ConcatProperties DEF IsConcat

(* The three parts of l + n + d places.                                    *)
LEMMA Places ==
  ASSUME NEW l \in Nat, NEW n \in Nat, NEW d \in Nat, NEW i \in 1..(l + (n + d))
  PROVE  /\ i <= l => i \in 1..(l + n)
         /\ i > l /\ i <= l + n => i \in 1..(l + n) /\ ~(i <= l) /\ i - l \in 1..n
         /\ i > l + n => /\ ~(i <= l) /\ ~(i <= l + n) /\ i - (l + n) \in 1..d
                         /\ i - l = n + (i - (l + n))
         /\ i <= l \/ (i > l /\ i <= l + n) \/ i > l + n
OBVIOUS

LEMMA WrapTwice ==
  ASSUME NEW p \in Frames, NEW r \in Nat, NEW k \in 1..BufLen, p + r <= BufLen,
         r + k <= BufLen
  PROVE  Wrap(Wrap(p + r) + k - 1) = Wrap(p + (r + k) - 1)
BY DEF Wrap

(* What is moved from the front of the stretch to the end of the queue     *)
(* stays where it was in the whole.                                        *)
HandsOver(q, cs, p, r, m) ==
  r > 0 /\ r + m < BufLen /\ p + r <= BufLen =>
    Content(q \o [i \in 1..r |-> cs[p + i - 1]], cs, Wrap(p + r), m)
      = Content(q, cs, p, r + m)

LEMMA Handover ==
  ASSUME NEW q \in Seq(0..Silence), NEW cs \in [Frames -> 0..Silence],
         NEW p \in Frames, NEW r \in Nat, NEW m \in Frames
  PROVE  HandsOver(q, cs, p, r, m)
<1> DEFINE w == [i \in 1..r |-> cs[p + i - 1]]
           q2 == q \o w
           f2 == Wrap(p + r)
           n == r + m
           l == Len(q)
           a == Content(q2, cs, f2, m)
           b == Content(q, cs, p, n)
<1>0. SUFFICES ASSUME r > 0, r + m < BufLen, p + r <= BufLen
               PROVE  a = b
  BY DEF HandsOver
<1>1. l \in Nat /\ m \in Nat /\ n \in Frames
  BY <1>0
<1>2. \A i \in 1..r : p + i - 1 \in Frames
  BY <1>0
<1>3. w \in Seq(0..Silence) /\ Len(w) = r
  <2>1. \A i \in 1..r : cs[p + i - 1] \in 0..Silence
    BY <1>2
  <2>2. QED BY <2>1
<1>4. \A i \in 1..r : w[i] = cs[p + i - 1] /\ Wrap(p + i - 1) = p + i - 1
  BY <1>0 DEF Wrap
<1>5. f2 \in Frames
  BY <1>0 DEF Wrap
<1>a. ASSUME NEW k \in 1..m PROVE Wrap(f2 + k - 1) = Wrap(p + (r + k) - 1)
  <2>1. k \in 1..BufLen /\ r + k <= BufLen
    BY <1>0
  <2>2. QED BY <1>0, <2>1, WrapTwice
<1> HIDE DEF w, f2
<1>b. IsConcat(q2, q, w)
  BY <1>3, ConcatIs
<1>6. /\ q2 \in Seq(0..Silence) /\ Len(q2) = l + r
      /\ \A i \in 1..(l + r) : q2[i] = IF i <= l THEN q[i] ELSE w[i - l]
  BY <1>3, <1>b DEF IsConcat
<1> HIDE DEF q2
<1>7. /\ a \in Seq(0..Silence) /\ Len(a) = Len(q2) + m
      /\ \A i \in 1..(Len(q2) + m) :
           a[i] = IF i <= Len(q2) THEN q2[i] ELSE cs[Wrap(f2 + (i - Len(q2)) - 1)]
  <2>1. IsContent(a, q2, cs, f2, m)
    BY <1>5, <1>6, ContentIs
  <2> HIDE DEF a
  <2>2. QED BY <2>1 DEF IsContent
<1> HIDE DEF n
<1>8. /\ b \in Seq(0..Silence) /\ Len(b) = l + n
      /\ \A i \in 1..(l + n) :
           b[i] = IF i <= l THEN q[i] ELSE cs[Wrap(p + (i - l) - 1)]
  <2>1. IsContent(b, q, cs, p, n)
    BY <1>1, ContentIs
  <2> HIDE DEF b
  <2>2. QED BY <2>1 DEF IsContent
<1> HIDE DEF a, b, l
<1>9. l + n = l + (r + m) /\ (l + r) + m = l + (r + m)
  BY <1>1 DEF n
<1>10. ASSUME NEW i \in 1..(l + (r + m)) PROVE a[i] = b[i]
  <2>p. /\ i <= l => i \in 1..(l + r)
        /\ i > l /\ i <= l + r => i \in 1..(l + r) /\ ~(i <= l) /\ i - l \in 1..r
        /\ i > l + r => /\ ~(i <= l) /\ ~(i <= l + r) /\ i - (l + r) \in 1..m
                        /\ i - l = r + (i - (l + r))
        /\ i <= l \/ (i > l /\ i <= l + r) \/ i > l + r
    BY <1>1, Places
  <2>a. /\ a[i] = IF i <= l + r THEN q2[i] ELSE cs[Wrap(f2 + (i - (l + r)) - 1)]
        /\ b[i] = IF i <= l THEN q[i] ELSE cs[Wrap(p + (i - l) - 1)]
    BY <1>6, <1>7, <1>8, <1>9
  <2>2. CASE i <= l
    <3>1. i \in 1..(l + r) /\ i <= l + r
      BY <2>2, <2>p
    <3>2. QED BY <1>6, <2>a, <2>2, <3>1
  <2>3. CASE i > l /\ i <= l + r
    <3> DEFINE k == i - l
    <3>1. i \in 1..(l + r) /\ ~(i <= l) /\ k \in 1..r
      BY <2>3, <2>p
    <3>2. q2[i] = w[k]
      BY <1>6, <3>1
    <3>3. a[i] = w[k] /\ b[i] = cs[Wrap(p + k - 1)]
      BY <2>a, <2>3, <3>1, <3>2
    <3> HIDE DEF k
    <3>4. QED BY <1>4, <3>1, <3>3
  <2>4. CASE i > l + r
    <3> DEFINE k == i - (l + r)
    <3>1. ~(i <= l) /\ ~(i <= l + r) /\ k \in 1..m /\ i - l = r + k
      BY <2>4, <2>p
    <3>2. a[i] = cs[Wrap(f2 + k - 1)] /\ b[i] = cs[Wrap(p + (r + k) - 1)]
      BY <2>a, <3>1
    <3> HIDE DEF k
    <3>3. QED BY <1>a, <3>1, <3>2
  <2>5. QED BY <2>p, <2>2, <2>3, <2>4
<1>11. Len(a) = l + (r + m) /\ Len(b) = l + (r + m)
  BY <1>6, <1>7, <1>8, <1>9
<1>12. a = b
  <2>1. a \in Seq(0..Silence) /\ b \in Seq(0..Silence)
    BY <1>7, <1>8
  <2>2. QED BY <1>10, <1>11, <2>1, SeqEqual
<1>13. QED BY <1>12

(* The buffer after d samples from x on have been mixed behind b.          *)
Mixed(cs, b, d, x) ==
  [i \in Frames |-> IF Dist(b, i) < d THEN (x + Dist(b, i)) % Labels ELSE cs[i]]

IsMixed(cs2, cs, b, d, x) ==
  /\ cs2 \in [Frames -> 0..Silence]
  /\ \A i \in Frames :
       /\ Dist(b, i) \in Frames
       /\ Dist(b, i) >= d => cs2[i] = cs[i]
       /\ Dist(b, i) < d => cs2[i] = (x + Dist(b, i)) % Labels

LEMMA MixedIs ==
  ASSUME NEW cs \in [Frames -> 0..Silence], NEW b \in Frames, NEW d \in Nat,
         NEW x \in 0..Labels-1
  PROVE  IsMixed(Mixed(cs, b, d, x), cs, b, d, x)
<1>1. \A i \in Frames : Dist(b, i) \in Frames
  BY BehindDist
<1>2. \A i \in Frames : (x + Dist(b, i)) % Labels \in 0..Silence
  <2>1. \A i \in Frames : x + Dist(b, i) \in Int
    BY <1>1
  <2>2. \A i \in Frames : (x + Dist(b, i)) % Labels \in 0..Labels-1
    BY <2>1, ModLabels
  <2>3. QED BY <2>2
<1>3. Mixed(cs, b, d, x) \in [Frames -> 0..Silence]
  BY <1>1, <1>2 DEF Mixed
<1>4. \A i \in Frames :
              /\ Dist(b, i) >= d => Mixed(cs, b, d, x)[i] = cs[i]
              /\ Dist(b, i) < d => Mixed(cs, b, d, x)[i] = (x + Dist(b, i)) % Labels
  BY <1>1 DEF Mixed
<1>5. QED BY <1>1, <1>3, <1>4 DEF IsMixed

(* Cells before b are out of reach of the mixer, cells from b on are not.  *)
Reaches(f, b, n, d) ==
  /\ \A i \in 1..n : Wrap(f + i - 1) \in Frames /\ Dist(b, Wrap(f + i - 1)) >= d
  /\ \A i \in 1..d : /\ Wrap(f + (n + i) - 1) \in Frames
                     /\ Dist(b, Wrap(f + (n + i) - 1)) = i - 1

LEMMA Reach ==
  ASSUME NEW f \in Frames, NEW b \in Frames, NEW d \in Nat, Dist(f, b) + d < BufLen
  PROVE  Reaches(f, b, Dist(f, b), d)
<1>1. \A i \in 1..Dist(f, b) : Wrap(f + i - 1) \in Frames
  BY DEF Wrap, Dist
<1>2. \A i \in 1..Dist(f, b) : Dist(b, Wrap(f + i - 1)) >= d
  BY DEF Wrap, Dist
<1>3. \A i \in 1..d : Wrap(f + (Dist(f, b) + i) - 1) \in Frames
  BY DEF Wrap, Dist
<1>4. \A i \in 1..d : Dist(b, Wrap(f + (Dist(f, b) + i) - 1)) = i - 1
  BY DEF Wrap, Dist
<1>5. QED BY <1>1, <1>2, <1>3, <1>4 DEF Reaches

(* Mixing behind b appends to what the stretch from f to b holds.          *)
Appends(q, cs, f, b, d, n, x) ==
  n = Dist(f, b) /\ n + d < BufLen =>
    Content(q, Mixed(cs, b, d, x), f, n + d)
      = Content(q, cs, f, n) \o [i \in 1..d |-> (x + i - 1) % Labels]

LEMMA MixAppends ==
  ASSUME NEW q \in Seq(0..Silence), NEW cs \in [Frames -> 0..Silence],
         NEW f \in Frames, NEW b \in Frames, NEW d \in Nat,
         NEW n \in Frames, NEW x \in 0..Labels-1
  PROVE  Appends(q, cs, f, b, d, n, x)
<1> DEFINE l == Len(q)
           e == n + d
           cs2 == Mixed(cs, b, d, x)
           new == [i \in 1..d |-> (x + i - 1) % Labels]
           a == Content(q, cs2, f, e)
           c == Content(q, cs, f, n)
<1>0. SUFFICES ASSUME n = Dist(f, b), n + d < BufLen
               PROVE  Content(q, cs2, f, n + d) = c \o new
  BY DEF Appends
<1>1. l \in Nat /\ n \in Nat /\ e \in Frames
  BY <1>0
<1>2. new \in Seq(0..Silence) /\ Len(new) = d
  <2>1. \A i \in 1..d : x + i - 1 \in Int
    OBVIOUS
  <2>2. \A i \in 1..d : (x + i - 1) % Labels \in 0..Labels-1
    BY <2>1, ModLabels
  <2>3. \A i \in 1..d : (x + i - 1) % Labels \in 0..Silence
    BY <2>2
  <2>4. QED BY <2>3
<1>3. \A i \in 1..d : new[i] = (x + i - 1) % Labels
  OBVIOUS
<1>4. /\ cs2 \in [Frames -> 0..Silence]
      /\ \A i \in Frames :
           /\ Dist(b, i) >= d => cs2[i] = cs[i]
           /\ Dist(b, i) < d => cs2[i] = (x + Dist(b, i)) % Labels
  <2>1. IsMixed(cs2, cs, b, d, x)
    BY MixedIs
  <2> HIDE DEF cs2
  <2>2. QED BY <2>1 DEF IsMixed
<1>5. /\ \A i \in 1..n : Wrap(f + i - 1) \in Frames /\ Dist(b, Wrap(f + i - 1)) >= d
      /\ \A i \in 1..d : /\ Wrap(f + (n + i) - 1) \in Frames
                         /\ Dist(b, Wrap(f + (n + i) - 1)) = i - 1
  <2>1. Reaches(f, b, n, d)
    BY <1>0, Reach
  <2>2. QED BY <2>1 DEF Reaches
<1> HIDE DEF e, cs2, new
<1>6. /\ a \in Seq(0..Silence) /\ Len(a) = l + e
      /\ \A i \in 1..(l + e) :
           a[i] = IF i <= l THEN q[i] ELSE cs2[Wrap(f + (i - l) - 1)]
  <2>1. IsContent(a, q, cs2, f, e)
    BY <1>1, <1>4, ContentIs
  <2> HIDE DEF a
  <2>2. QED BY <2>1 DEF IsContent
<1>7. /\ c \in Seq(0..Silence) /\ Len(c) = l + n
      /\ \A i \in 1..(l + n) :
           c[i] = IF i <= l THEN q[i] ELSE cs[Wrap(f + (i - l) - 1)]
  <2>1. IsContent(c, q, cs, f, n)
    BY ContentIs
  <2> HIDE DEF c
  <2>2. QED BY <2>1 DEF IsContent
<1> HIDE DEF a, c, l
<1>8. /\ c \o new \in Seq(0..Silence) /\ Len(c \o new) = (l + n) + d
      /\ \A i \in 1..((l + n) + d) :
           (c \o new)[i] = IF i <= l + n THEN c[i] ELSE new[i - (l + n)]
  <2>1. IsConcat(c \o new, c, new)
    BY <1>2, <1>7, ConcatIs
  <2>2. QED BY <1>2, <1>7, <2>1 DEF IsConcat
<1>9. l + e = l + (n + d) /\ (l + n) + d = l + (n + d)
  BY <1>1 DEF e
<1>10. ASSUME NEW i \in 1..(l + (n + d)) PROVE a[i] = (c \o new)[i]
  <2>p. /\ i <= l => i \in 1..(l + n)
        /\ i > l /\ i <= l + n => i \in 1..(l + n) /\ ~(i <= l) /\ i - l \in 1..n
        /\ i > l + n => /\ ~(i <= l) /\ ~(i <= l + n) /\ i - (l + n) \in 1..d
                        /\ i - l = n + (i - (l + n))
        /\ i <= l \/ (i > l /\ i <= l + n) \/ i > l + n
    BY <1>1, Places
  <2>a. /\ a[i] = IF i <= l THEN q[i] ELSE cs2[Wrap(f + (i - l) - 1)]
        /\ (c \o new)[i] = IF i <= l + n THEN c[i] ELSE new[i - (l + n)]
    BY <1>6, <1>8, <1>9
  <2>2. CASE i <= l
    <3>1. i \in 1..(l + n) /\ i <= l + n
      BY <2>2, <2>p
    <3>2. QED BY <1>7, <2>a, <2>2, <3>1
  <2>3. CASE i > l /\ i <= l + n
    <3> DEFINE k == i - l
               j == Wrap(f + k - 1)
    <3>1. i \in 1..(l + n) /\ ~(i <= l) /\ k \in 1..n
      BY <2>3, <2>p
    <3>2. a[i] = cs2[j] /\ (c \o new)[i] = c[i] /\ c[i] = cs[j]
      BY <1>7, <2>a, <2>3, <3>1
    <3> HIDE DEF k
    <3>3. j \in Frames /\ Dist(b, j) >= d
      BY <1>5, <3>1
    <3> HIDE DEF j
    <3>4. QED BY <1>4, <3>2, <3>3
  <2>4. CASE i > l + n
    <3> DEFINE k == i - (l + n)
               j == Wrap(f + (n + k) - 1)
    <3>1. ~(i <= l) /\ ~(i <= l + n) /\ k \in 1..d /\ i - l = n + k
      BY <2>4, <2>p
    <3>2. a[i] = cs2[j] /\ (c \o new)[i] = new[k]
      BY <2>a, <3>1
    <3> HIDE DEF k
    <3>3. j \in Frames /\ Dist(b, j) = k - 1
      BY <1>5, <3>1
    <3> HIDE DEF j
    <3>4. k - 1 < d /\ x + (k - 1) = x + k - 1
      BY <3>1
    <3>5. cs2[j] = (x + (k - 1)) % Labels
      BY <1>4, <3>3, <3>4
    <3>6. new[k] = (x + k - 1) % Labels
      BY <1>3, <3>1
    <3>7. QED BY <3>2, <3>4, <3>5, <3>6
  <2>5. QED BY <2>p, <2>2, <2>3, <2>4
<1>11. Len(a) = l + (n + d) /\ Len(c \o new) = l + (n + d)
  BY <1>6, <1>8, <1>9
<1>12. a = c \o new
  <2>1. a \in Seq(0..Silence) /\ c \o new \in Seq(0..Silence)
    BY <1>6, <1>8
  <2>2. QED BY <1>10, <1>11, <2>1, SeqEqual
<1>13. QED BY <1>12 DEF a, e

(* Playing from the queue is playing from the whole.                       *)
LEMMA TailOfConcat ==
  ASSUME NEW s \in Seq(0..Silence), NEW t \in Seq(0..Silence), s # <<>>
  PROVE  Tail(s) \o t = Tail(s \o t) /\ s \o t # <<>>
<1>1. /\ Tail(s) \in Seq(0..Silence) /\ Len(Tail(s)) = Len(s) - 1 /\ Len(s) > 0
      /\ \A i \in 1..Len(Tail(s)) : Tail(s)[i] = s[i + 1]
  BY HeadTailProperties
<1>2. /\ s \o t \in Seq(0..Silence) /\ Len(s \o t) = Len(s) + Len(t)
      /\ \A i \in 1..(Len(s) + Len(t)) :
           (s \o t)[i] = IF i <= Len(s) THEN s[i] ELSE t[i - Len(s)]
  BY ConcatProperties
<1>3. /\ Tail(s) \o t \in Seq(0..Silence) /\ Len(Tail(s) \o t) = Len(Tail(s)) + Len(t)
      /\ \A i \in 1..(Len(Tail(s)) + Len(t)) :
           (Tail(s) \o t)[i] = IF i <= Len(Tail(s)) THEN Tail(s)[i] ELSE t[i - Len(Tail(s))]
  BY <1>1, ConcatProperties
<1>4. s \o t # <<>>
  BY <1>1, <1>2
<1>5. /\ Tail(s \o t) \in Seq(0..Silence) /\ Len(Tail(s \o t)) = Len(s \o t) - 1
      /\ \A i \in 1..Len(Tail(s \o t)) : Tail(s \o t)[i] = (s \o t)[i + 1]
  BY <1>2, <1>4, HeadTailProperties
<1>6. Len(s) \in Nat /\ Len(t) \in Nat
  OBVIOUS
<1>7. Len(Tail(s) \o t) = Len(Tail(s \o t))
  BY <1>1, <1>2, <1>3, <1>5, <1>6
<1>8. ASSUME NEW i \in 1..Len(Tail(s) \o t) PROVE (Tail(s) \o t)[i] = Tail(s \o t)[i]
  <2>1. i + 1 \in 1..(Len(s) + Len(t)) /\ i \in 1..(Len(Tail(s)) + Len(t)) /\ i \in 1..Len(Tail(s \o t))
    BY <1>1, <1>3, <1>6, <1>7
  <2>2. CASE i <= Len(Tail(s))
    <3>1. i + 1 <= Len(s) /\ i \in 1..Len(Tail(s))
      BY <1>1, <1>6, <2>1, <2>2
    <3>2. QED BY <1>1, <1>2, <1>3, <1>5, <2>1, <2>2, <3>1
  <2>3. CASE ~(i <= Len(Tail(s)))
    <3>1. ~(i + 1 <= Len(s)) /\ i - Len(Tail(s)) = (i + 1) - Len(s)
      BY <1>1, <1>6, <2>1, <2>3
    <3>2. QED BY <1>2, <1>3, <1>5, <2>1, <2>3, <3>1
  <2>4. QED BY <2>2, <2>3
<1>9. Tail(s) \o t = Tail(s \o t)
  BY <1>3, <1>5, <1>7, <1>8, SeqEqual
<1>10. QED BY <1>4, <1>9

-----------------------------------------------------------------------------
(* What the steps do that the contract sees.                               *)
LEMMA WriteMaps ==
  ASSUME IInv, NEW c \in Ctx, FlushWrite(c)
  PROVE  UNCHANGED <<open, Fifo, next>>
<1>1. /\ AtWork(c) /\ RingShape(0, 0, 0, FALSE) /\ loc[c].n <= cachelen
      /\ cachepos + loc[c].n <= BufLen /\ pc[c] = "write"
  BY DEF FlushWrite, AtWork, FlushSteps, IInv, WorkInv, WorkAt, Settled
<1>2. CASE LeaveFlush(c)
  BY <1>1, <1>2, QuietLeave DEF LeaveFlush, positions, IInv
<1>3. ASSUME NEW result \in 1..loc[c].n,
             queue' = queue \o [i \in 1..result |-> cells[cachepos + i - 1]],
             Set(c, "result", result), Goto(c, "cachepos"),
             UNCHANGED <<open, positions, busy, clipbusy, cells, next, clock>>
      PROVE  UNCHANGED <<open, Fifo, next>>
  <2>1. /\ open' = open /\ next' = next /\ cells' = cells
        /\ cachepos' = cachepos /\ bufpos' = bufpos
    BY <1>3 DEF positions
  <2>2. /\ loc[c].n \in Nat /\ cachelen \in Int /\ cachepos \in Frames /\ bufpos \in Frames
        /\ Dist(cachepos, bufpos) \in Frames
    BY Numbers DEF IInv
  <2>3. cachelen = Dist(cachepos, bufpos)
    BY <1>1, ShapeCache DEF IInv
  <2>r. result \in Nat /\ result > 0 /\ result <= loc[c].n
    BY <2>2
  <2>4. result \in Frames /\ result <= cachelen /\ cachepos + result <= BufLen
    BY <1>1, <2>2, <2>3, <2>r
  <2>5. Unmoved = 0
    BY <1>1, PendingAt DEF Unmoved, FlushSteps
  <2>6. Unmoved' = result
    <3>1. \A d \in Ctx \ {c} : pc[d] # "cachepos"
      BY <1>1 DEF IInv, LockInv, AtWork, FlushSteps
    <3>2. pc'[c] = "cachepos" /\ \A d \in Ctx \ {c} : pc'[d] = pc[d]
      BY <1>3, GotoMoves DEF IInv, Steps, FlushSteps
    <3>3. loc'[c].result = result
      BY <1>3, <2>4, SetResult DEF IInv
    <3>4. {d \in Ctx : pc'[d] \in {"cachepos"}} = {c}
      BY <3>1, <3>2
    <3>5. (CHOOSE d \in {c} : TRUE) = c
      OBVIOUS
    <3>6. {c} # {}
      OBVIOUS
    <3> DEFINE at == {d \in Ctx : pc'[d] \in {"cachepos"}}
    <3>7. Unmoved' = IF at = {} THEN 0 ELSE loc'[CHOOSE d \in at : TRUE].result
      BY Zenon DEF Unmoved, Pending
    <3>8. at = {c}
      BY <3>4
    <3> HIDE DEF at
    <3>9. QED BY <3>3, <3>5, <3>6, <3>7, <3>8
  <2>7. open
    BY <1>1 DEF IInv, OpenInv, Idle
  <2>8. First = cachepos /\ First' = Wrap(cachepos + result)
    BY <2>1, <2>2, <2>5, <2>6 DEF First, Wrap
  <2> DEFINE m == cachelen - result
  <2>9. Dist(First', bufpos) = m /\ m \in Frames /\ Dist(First, bufpos) = result + m
        /\ result + m < BufLen
    <3>1. Wrap(cachepos + result) \in Frames
      BY <2>2, <2>4 DEF Wrap
    <3>2. Dist(Wrap(cachepos + result), bufpos) = m
      BY <2>2, <2>3, <2>4 DEF Wrap, Dist
    <3>3. m \in Frames /\ cachelen = result + m /\ result + m < BufLen
      BY <2>2, <2>3, <2>4
    <3>4. QED BY <2>3, <2>8, <3>2, <3>3
  <2> HIDE DEF m
  <2>10. Fifo = Content(queue, cells, cachepos, result + m)
    <3>1. 0 \in Frames
      OBVIOUS
    <3>2. QED BY <2>2, <2>5, <2>7, <2>8, <2>9, <3>1, FifoIs
  <2>11. Fifo' = Content(queue', cells, Wrap(cachepos + result), m)
    BY <2>1, <2>2, <2>4, <2>6, <2>7, <2>8, <2>9, FifoIsNext
  <2>12. Content(queue', cells, Wrap(cachepos + result), m)
           = Content(queue, cells, cachepos, result + m)
    <3>1. queue \in Seq(0..Silence) /\ cells \in [Frames -> 0..Silence]
      BY DEF IInv, TypeInv
    <3>2. HandsOver(queue, cells, cachepos, result, m)
      BY <2>2, <2>r, <2>9, <3>1, Handover
    <3>3. result + m < BufLen /\ cachepos + result <= BufLen
      BY <2>4, <2>9
    <3>4. Content(queue \o [i \in 1..result |-> cells[cachepos + i - 1]], cells,
                  Wrap(cachepos + result), m)
            = Content(queue, cells, cachepos, result + m)
      BY <2>r, <3>2, <3>3 DEF HandsOver
    <3>5. QED BY Zenon, <1>3, <3>4
  <2>13. QED BY <2>1, <2>10, <2>11, <2>12
<1>4. QED BY <1>2, <1>3 DEF FlushWrite

LEMMA CachePosMaps ==
  ASSUME IInv, NEW c \in Ctx, FlushCachePos(c)
  PROVE  UNCHANGED <<open, Fifo, next>>
<1> DEFINE r == loc[c].result
<1>1. AtWork(c) /\ pc[c] = "cachepos"
  BY DEF FlushCachePos, AtWork, FlushSteps
<1>2. UNCHANGED <<open, bufpos, cells, next, queue, loc>>
  BY DEF FlushCachePos
<1>3. /\ r \in Frames /\ cachepos \in Frames /\ bufpos \in Frames
  BY Numbers DEF IInv
<1>4. Unmoved = r
  BY <1>1, PendingAt DEF Unmoved, FlushSteps
<1>5. Unmoved' = 0
  <2>1. \A d \in Ctx \ {c} : pc[d] # "cachepos"
    BY <1>1 DEF IInv, LockInv, AtWork, FlushSteps
  <2>2. pc'[c] = "playpos" /\ \A d \in Ctx \ {c} : pc'[d] = pc[d]
    BY GotoMoves DEF FlushCachePos, IInv, Steps, FlushSteps
  <2> DEFINE at == {d \in Ctx : pc'[d] \in {"cachepos"}}
  <2>3. at = {}
    BY <2>1, <2>2
  <2>4. Unmoved' = IF at = {} THEN 0 ELSE loc'[CHOOSE d \in at : TRUE].result
    BY Zenon DEF Unmoved, Pending
  <2> HIDE DEF at
  <2>5. QED BY <2>3, <2>4
<1>6. cachepos' = Wrap(cachepos + r) /\ cachepos' \in Frames
  <2>1. cachepos' = (cachepos + r + BufLen) % BufLen
    BY DEF FlushCachePos
  <2>2. cachepos + r \in 0..(2 * BufLen - 1)
    BY <1>3
  <2>3. cachepos' = IF cachepos + r < BufLen THEN cachepos + r ELSE (cachepos + r) - BufLen
    BY <1>3, <2>1, <2>2, ModTwice
  <2>4. QED BY <1>3, <2>3 DEF Wrap
<1>7. First' = First
  <2>1. First = Wrap(cachepos + r)
    BY <1>4 DEF First
  <2>2. First' = Wrap(cachepos' + 0)
    BY <1>5 DEF First, Wrap
  <2>3. Wrap(cachepos' + 0) = cachepos'
    BY <1>6 DEF Wrap
  <2>4. QED BY <1>6, <2>1, <2>2, <2>3
<1>8. open /\ 0 \in Frames
  BY <1>1 DEF IInv, OpenInv, Idle
<1> HIDE DEF r
<1>9. Fifo = Content(queue, cells, First, Dist(First, bufpos))
  BY <1>3, <1>4, <1>8, FifoIs
<1>10. Fifo' = Content(queue', cells', First', Dist(First', bufpos'))
  <2>1. open' /\ bufpos' \in Frames
    BY <1>2, <1>3, <1>8
  <2>2. QED BY <1>5, <1>6, <1>8, <2>1, FifoIsNext
<1>11. QED BY <1>2, <1>7, <1>9, <1>10

LEMMA MixMaps ==
  ASSUME IInv, NEW c \in Ctx, MixAndAdvance(c)
  PROVE  \E n \in 1..BufLen-1 : Ring!Produce(n)
<1>1. PICK d \in 1..loc[c].n :
        /\ cells' = [i \in 0..BufLen-1 |->
                      LET k == Behind(i, bufpos)
                      IN IF k < d THEN (next + k) % Labels ELSE cells[i]]
        /\ next' = (next + d) % Labels
        /\ LET pos == (bufpos + d) % BufLen IN
             /\ cachelen' = cachelen + Behind(pos, bufpos)
             /\ bufpos' = pos
        /\ Set(c, "n", loc[c].n - d)
  BY DEF MixAndAdvance
<1>2. /\ pc[c] = "mix"
      /\ UNCHANGED <<open, kernpos, cachepos, queue, pc>>
  BY DEF MixAndAdvance
<1>3. /\ kernpos \in Frames /\ cachepos \in Frames /\ bufpos \in Frames
      /\ loc[c].n \in Nat /\ Dist(kernpos, bufpos) \in Frames /\ Len(queue) \in Nat
      /\ next \in 0..Labels-1
  BY Numbers DEF IInv, TypeInv
<1>4. d \in Nat /\ d > 0 /\ d <= loc[c].n
  BY <1>3
<1>5. loc[c].n + Dist(kernpos, bufpos) < BufLen
  BY <1>2 DEF IInv, ClipInv
<1>6. Dist(kernpos, bufpos) + d < BufLen
  BY <1>3, <1>4, <1>5
<1> DEFINE n == Dist(First, bufpos)
<1>7. /\ First \in Frames /\ n \in Frames
      /\ Len(queue) + n <= Dist(kernpos, bufpos)
  BY Window
<1>8. n + d < BufLen /\ (Len(queue) + n) + d <= BufLen - 1
  BY <1>3, <1>4, <1>6, <1>7
<1>9. /\ bufpos' = (bufpos + d) % BufLen /\ bufpos' \in Frames
      /\ Dist(First, bufpos') = n + d
  BY <1>1, <1>3, <1>4, <1>7, <1>8, MixMath
<1>10. cells' = Mixed(cells, bufpos, d, next)
  <2>1. \A i \in Frames : Behind(i, bufpos) = Dist(bufpos, i)
    BY <1>3, BehindDist
  <2>2. cells' = [i \in Frames |-> IF Behind(i, bufpos) < d THEN (next + Behind(i, bufpos)) % Labels
                                                          ELSE cells[i]]
    BY <1>1
  <2>3. QED BY <2>1, <2>2 DEF Mixed
<1>11. Unmoved' = Unmoved /\ Unmoved \in Frames
  <2>1. \A e \in Ctx \ {c} : loc'[e] = loc[e]
    BY <1>1, SetOthers DEF IInv
  <2>2. pc' \in [Ctx -> Steps] /\ pc' = pc
    BY <1>2 DEF IInv, TypeInv
  <2>3. Moves(c) /\ pc[c] # "cachepos" /\ pc'[c] # "cachepos"
    BY <1>2, <2>1, <2>2 DEF Moves
  <2>4. QED BY <2>3, UnmovedKept, UnmovedFrames DEF IInv
<1>12. First' = First
  BY <1>2, <1>11 DEF First
<1>13. open /\ open'
  BY <1>2 DEF IInv, OpenInv, Idle
<1>14. Fifo = Content(queue, cells, First, n)
  BY <1>3, <1>11, <1>13, FifoIs
<1>15. Fifo' = Content(queue, Mixed(cells, bufpos, d, next), First, n + d)
  <2>1. Fifo' = Content(queue', cells', First', Dist(First', bufpos'))
    <3>1. cachepos' \in Frames /\ Unmoved' \in Frames
      BY <1>2, <1>3, <1>11
    <3>2. QED BY <1>9, <1>13, <3>1, FifoIsNext
  <2>2. queue' = queue
    BY <1>2
  <2> HIDE DEF n
  <2>3. Dist(First', bufpos') = n + d
    BY <1>9, <1>12
  <2>4. QED BY <1>10, <1>12, <2>1, <2>2, <2>3
<1>16. queue \in Seq(0..Silence) /\ cells \in [Frames -> 0..Silence]
  BY DEF IInv, TypeInv
<1>17. Fifo' = Fifo \o [i \in 1..d |-> (next + i - 1) % Labels]
  <2>1. n = Dist(First, bufpos)
    OBVIOUS
  <2> HIDE DEF n
  <2>2. Appends(queue, cells, First, bufpos, d, n, next)
    BY <1>3, <1>4, <1>7, <1>16, MixAppends
  <2>3. Content(queue, Mixed(cells, bufpos, d, next), First, n + d)
          = Content(queue, cells, First, n) \o [i \in 1..d |-> (next + i - 1) % Labels]
    BY <1>8, <2>1, <2>2 DEF Appends
  <2>4. QED BY Zenon, <1>14, <1>15, <2>3
<1>18. Len(Fifo) = Len(queue) + n
  <2>1. IsContent(Fifo, queue, cells, First, n)
    BY <1>7, <1>14, <1>16, ContentIs
  <2>2. QED BY <2>1 DEF IsContent
<1>19. next' = (next + d) % Labels /\ open' = open
  BY <1>1, <1>2
<1>20. d \in 1..BufLen-1
  BY <1>4, <1>7, <1>8
<1>21. Len(Fifo) + d <= BufLen - 1
  BY <1>8, <1>18
<1>22. Ring!Produce(d)
  BY <1>13, <1>17, <1>19, <1>21 DEF Ring!Produce
<1>23. QED BY <1>20, <1>22

LEMMA PlayMaps ==
  ASSUME IInv, DevicePlay
  PROVE  Ring!Hear
<1>1. /\ queue # <<>> /\ queue' = Tail(queue)
      /\ UNCHANGED <<open, cachepos, bufpos, cells, next, pc, loc>>
  BY DEF DevicePlay, positions
<1>2. open
  BY <1>1 DEF IInv, OpenInv
<1>3. cachepos \in Frames /\ bufpos \in Frames /\ Unmoved \in Frames
  BY Numbers, UnmovedFrames DEF IInv
<1>4. Unmoved' = Unmoved
  BY <1>1 DEF Unmoved, Pending
<1>5. First' = First
  BY <1>1, <1>4 DEF First
<1> DEFINE t == Stretch(cells, First, Dist(First, bufpos))
<1>6. Fifo = queue \o t
  BY <1>2, <1>3, FifoIs DEF Content
<1>7. Fifo' = Tail(queue) \o t
  <2>1. Fifo' = Content(queue', cells', First', Dist(First', bufpos'))
    BY <1>1, <1>2, <1>3, <1>4, FifoIsNext
  <2>2. QED BY <1>1, <1>5, <2>1 DEF Content
<1>8. queue \in Seq(0..Silence) /\ t \in Seq(0..Silence)
  BY Window, StretchIs DEF IInv, TypeInv
<1> HIDE DEF t
<1>9. Fifo # <<>> /\ Fifo' = Tail(Fifo)
  BY <1>1, <1>6, <1>7, <1>8, TailOfConcat
<1>10. QED BY <1>1, <1>2, <1>9 DEF Ring!Hear

LEMMA OpenMaps ==
  ASSUME IInv, OssPlay
  PROVE  Ring!Play
<1>1. /\ ~open /\ open' \in BOOLEAN /\ Idle
      /\ cachepos' = 0 /\ bufpos' = 0 /\ next' = 0
      /\ cells' = [i \in 0..BufLen-1 |-> Silence]
      /\ UNCHANGED <<queue, pc, loc>>
  BY DEF OssPlay
<1>2. queue' = <<>>
  BY <1>1 DEF IInv, OpenInv
<1>3. Unmoved' = 0
  BY <1>1 DEF Unmoved, Pending, Idle
<1>4. Fifo' = <<>>
  <2>1. CASE ~open'
    BY <2>1 DEF Fifo
  <2>2. CASE open'
    <3>1. 0 \in Frames /\ cells' \in [Frames -> 0..Silence]
      BY <1>1
    <3>2. First' = 0
      BY <1>1, <1>3 DEF First, Wrap
    <3>3. Dist(0, 0) = 0
      BY DEF Dist
    <3>4. Fifo' = Content(<<>>, cells', 0, 0)
      BY <1>1, <1>2, <1>3, <2>2, <3>1, <3>2, <3>3, FifoIsNext
    <3>5. <<>> \in Seq(0..Silence) /\ Len(<<>>) = 0
      OBVIOUS
    <3>6. IsContent(Fifo', <<>>, cells', 0, 0)
      BY <3>1, <3>4, <3>5, ContentIs
    <3>7. Fifo' \in Seq(0..Silence) /\ Len(Fifo') = 0
      BY <3>5, <3>6 DEF IsContent
    <3>8. QED BY <3>7, EmptySeq
  <2>3. QED BY <2>1, <2>2
<1>5. QED BY <1>1, <1>4 DEF Ring!Play

LEMMA CloseMaps ==
  ASSUME IInv, OssStop
  PROVE  Ring!Stop
BY DEF OssStop, Ring!Stop, Fifo

LEMMA StepMaps ==
  ASSUME IInv, [Next]_vars
  PROVE  [Ring!Next]_<<open, Fifo, next>>
<1>1. CASE OssPlay
  BY <1>1, OpenMaps DEF Ring!Next
<1>2. CASE OssStop
  BY <1>2, CloseMaps DEF Ring!Next
<1>3. ASSUME NEW c \in Ctx, Work(c) PROVE [Ring!Next]_<<open, Fifo, next>>
  <2>1. CASE TimerProc(c) \/ MixDone(c) \/ CallIdle(c)
    BY <2>1, FillerQuiet
  <2>2. CASE MixAndAdvance(c)
    BY <2>2, MixMaps DEF Ring!Next
  <2>3. CASE FlushStep(c)
    <3>1. UNCHANGED <<open, Fifo, next>>
      BY <2>3, FlushQuiet, WriteMaps, CachePosMaps
    <3>2. QED BY <3>1
  <2>4. QED BY <1>3, <2>1, <2>2, <2>3 DEF Work
<1>4. CASE Query
  BY <1>4, QueryQuiet
<1>5. CASE DevicePlay
  BY <1>5, PlayMaps DEF Ring!Next
<1>6. CASE UNCHANGED vars
  BY <1>6 DEF vars, positions, Fifo, Unmoved, Pending
<1>7. QED BY <1>1, <1>2, <1>3, <1>4, <1>5, <1>6 DEF Next

(* Through every interleaving of the fillers, flush() and the nested       *)
(* signal handlers the device is the first-in first-out queue the players  *)
(* rely on: what plrAdvanceTo published is heard once, in order, and       *)
(* nothing mixed later overwrites it (devp/devposs.c: flush, advance).     *)
THEOREM Implements ==
  ASSUME ~SplitUpdate \/ Levels = 0
  PROVE  Spec => PlaysInOrder
<1>1. Init => Ring!Init
  BY DEF Init, Ring!Init, Fifo
<1>2. IInv /\ [Next]_vars => [Ring!Next]_<<open, Fifo, next>>
  BY StepMaps
<1>3. QED BY <1>1, <1>2, InvAlways, PTL DEF Spec, PlaysInOrder, Ring!Spec, Ring!ringvars

-----------------------------------------------------------------------------
(* The clock, where no handler runs and no ioctl fails.                    *)

(* Since gettimer was called the card has only played on: playpos is what  *)
(* it was, and what the kernel was asked for lies between what was left    *)
(* then (q) and what is left now.                                          *)
AskedAt(q) ==
  /\ loc[Main].n = (playpos - q) % Labels
  /\ Len(queue) <= q
  /\ pc[Main] = "getpos" => loc[Main].odelay <= q
  /\ pc[Main] = "getpos2" => kernlen <= q

ClockInv ==
  loc[Main].timer =>
    /\ pc[Main] \in {"timer", "getpos", "getpos2"}
    /\ loc[Main].tmp = playpos
    /\ \E q \in Frames : AskedAt(q)

LEMMA ModNear ==
  \A a \in (1-Labels)..(Labels-1) : a % Labels = IF a < 0 THEN a + Labels ELSE a
OBVIOUS

(* Two positions behind the same one, compared.                            *)
LEMMA ModDiff ==
  ASSUME NEW p \in 0..Labels-1, NEW a \in Nat, NEW b \in Frames, a <= b
  PROVE  (((p - a) % Labels) - ((p - b) % Labels)) % Labels = b - a
<1> DEFINE s == (p - a) % Labels
           t == (p - b) % Labels
<1>1. s = IF p - a < 0 THEN (p - a) + Labels ELSE p - a
  <2>1. p - a \in (1-Labels)..(Labels-1)
    OBVIOUS
  <2>2. QED BY <2>1, ModNear
<1>2. t = IF p - b < 0 THEN (p - b) + Labels ELSE p - b
  <2>1. p - b \in (1-Labels)..(Labels-1)
    OBVIOUS
  <2>2. QED BY <2>1, ModNear
<1> HIDE DEF s, t
<1>3. s - t \in (1-Labels)..(Labels-1) /\ (s - t = b - a \/ s - t = (b - a) - Labels)
  BY <1>1, <1>2
<1>4. (s - t) % Labels = IF s - t < 0 THEN (s - t) + Labels ELSE s - t
  BY <1>3, ModNear
<1>5. (s - t) % Labels = b - a
  BY <1>3, <1>4
<1>6. QED BY <1>5 DEF s, t

Since(p, a, b) == (((p - a) % Labels) - ((p - b) % Labels)) % Labels

LEMMA SinceIs ==
  ASSUME NEW p \in 0..Labels-1, NEW a \in Nat, NEW b \in Frames, a <= b
  PROVE  Since(p, a, b) = b - a
BY ModDiff DEF Since

(* A filler's or a flush's step leaves the main program's query alone.     *)
LEMMA WorkNoTimer ==
  ASSUME Levels = 0, IInv, ClockInv, NEW c \in Ctx, Work(c)
  PROVE  ClockInv'
<1>1. c = Main /\ ~loc[Main].timer
  BY DEF ClockInv, Work, TimerProc, MixAndAdvance, MixDone, CallIdle, MayStart,
     FlushStep, FlushEnter, FlushOdelay, FlushKernLen, FlushKernPos, FlushCache,
     FlushSpace, FlushLen, FlushLen2, FlushWrite, FlushCachePos, FlushPlayPos,
     FlushCacheLen, FlushCacheStore, FlushDone
<1>2. loc \in [Ctx -> Locals]
  BY DEF IInv, TypeInv
<1>3. ~loc'[Main].timer
  <2>1. CASE Return(c)
    BY <1>1, <1>2, <2>1 DEF Return, NoLocals
  <2>2. ASSUME NEW f \in {"n", "odelay", "result", "tmp"}, NEW v, Set(c, f, v)
        PROVE  ~loc'[Main].timer
    BY <1>1, <1>2, <2>2 DEF Set, Locals
  <2>3. CASE UNCHANGED loc
    BY <1>1, <2>3
  <2>4. ASSUME NEW v, NEW b, loc' = [loc EXCEPT ![c].n = v, ![c].release = b]
        PROVE  ~loc'[Main].timer
    BY <1>1, <1>2, <2>4 DEF Locals
  <2>5. CASE TimerProc(c) \/ MixDone(c)
    BY <2>4, <2>5 DEF TimerProc, MixDone
  <2>6. CASE MixAndAdvance(c)
    BY <2>2, <2>6 DEF MixAndAdvance
  <2>7. CASE CallIdle(c)
    BY <2>3, <2>7 DEF CallIdle
  <2>8. CASE FlushStep(c)
    BY <2>1, <2>2, <2>3, <2>8 DEF FlushStep, LeaveFlush, FlushEnter, FlushOdelay,
       FlushKernLen, FlushKernPos, FlushCache, FlushSpace, FlushLen, FlushLen2,
       FlushWrite, FlushCachePos, FlushPlayPos, FlushCacheLen, FlushCacheStore, FlushDone
  <2>9. QED BY <2>5, <2>6, <2>7, <2>8 DEF Work
<1>4. QED BY <1>3 DEF ClockInv

LEMMA ClockStep ==
  ASSUME Levels = 0, ~IoErrors, IInv, ClockInv, [Next]_vars
  PROVE  ClockInv'
<1>t. /\ loc \in [Ctx -> Locals] /\ pc \in [Ctx -> Steps] /\ Main \in Ctx
      /\ playpos \in 0..Labels-1 /\ queue \in Seq(0..Silence) /\ kernlen \in Nat
  BY DEF IInv, TypeInv
<1>1. ASSUME NEW c \in Ctx, Work(c) PROVE ClockInv'
  BY <1>1, WorkNoTimer
<1>2. CASE OssPlay \/ OssStop
  <2>1. ~loc[Main].timer /\ loc' = loc
    BY <1>2, <1>t DEF OssPlay, OssStop, Idle, ClockInv
  <2>2. QED BY <2>1 DEF ClockInv
<1>3. CASE GetPlayPos
  <2>1. ~loc[Main].timer
    BY <1>3 DEF GetPlayPos, MayStart, ClockInv
  <2>2. ~loc'[Main].timer
    BY <1>3, <1>t, <2>1 DEF GetPlayPos, Set, Locals
  <2>3. QED BY <2>2 DEF ClockInv
<1>4. CASE GetTimer
  <2>1. /\ loc'[Main].tmp = playpos /\ loc'[Main].n = Played
        /\ pc'[Main] = "timer" /\ playpos' = playpos /\ queue' = queue
    BY <1>4, <1>t DEF GetTimer, Goto, positions, Locals
  <2>2. Len(queue) \in Frames
    <3>1. \E m, w, k \in Frames, s \in BOOLEAN : w <= k /\ RingShape(m, w, k, s)
      BY SomeShape
    <3>2. PICK m, w, k \in Frames, s \in BOOLEAN : w <= k /\ RingShape(m, w, k, s)
      BY <3>1
    <3>3. Dist(kernpos, bufpos) \in Frames /\ cachelen \in Int
      BY Numbers DEF IInv
    <3>4. QED BY <1>t, <3>2, <3>3 DEF RingShape
  <2>3. AskedAt(Len(queue))'
    BY <1>t, <2>1 DEF AskedAt, Played
  <2>4. QED BY <2>1, <2>2, <2>3 DEF ClockInv, AskedAt
<1>5. CASE GetTimerDelay
  <2>1. /\ pc[Main] = "timer" /\ pc'[Main] = "getpos" /\ loc'[Main].odelay = Len(queue)
        /\ UNCHANGED <<playpos, queue, kernlen>>
        /\ loc'[Main].tmp = loc[Main].tmp /\ loc'[Main].n = loc[Main].n
        /\ loc'[Main].timer = loc[Main].timer
    BY <1>5, <1>t DEF GetTimerDelay, Goto, Set, positions, Locals
  <2>2. QED BY <2>1 DEF ClockInv, AskedAt
<1>6. CASE QueryKernLen
  <2>1. /\ pc[Main] = "getpos" /\ pc'[Main] = "getpos2"
        /\ UNCHANGED <<playpos, queue, loc>>
        /\ kernlen' = IF loc[Main].odelay > kernlen THEN kernlen ELSE loc[Main].odelay
    BY <1>6, <1>t DEF QueryKernLen, Goto
  <2>2. loc[Main].odelay <= kernlen /\ loc[Main].odelay \in Nat
    BY <1>t, <2>1 DEF IInv, WorkInv, WorkAt, Locals
  <2>3. kernlen' = loc[Main].odelay
    BY <1>t, <2>1, <2>2
  <2>4. QED BY <2>1, <2>3 DEF ClockInv, AskedAt
<1>7. CASE QueryKernPos
  <2>1. ~loc'[Main].timer
    BY <1>7, <1>t DEF QueryKernPos, Return, NoLocals
  <2>2. QED BY <2>1 DEF ClockInv
<1>8. CASE DevicePlay
  <2>1. /\ UNCHANGED <<playpos, kernlen, pc, loc>>
        /\ Len(queue') <= Len(queue)
        /\ Len(queue) \in Nat /\ Len(queue') \in Nat
    BY <1>8, <1>t DEF DevicePlay, positions
  <2>2. ASSUME NEW q \in Frames, AskedAt(q) PROVE AskedAt(q)'
    BY <2>1, <2>2 DEF AskedAt
  <2>3. QED BY <2>1, <2>2 DEF ClockInv
<1>9. CASE UNCHANGED vars
  BY <1>9 DEF vars, positions, ClockInv, AskedAt
<1>10. QED BY <1>1, <1>2, <1>3, <1>4, <1>5, <1>6, <1>7, <1>8, <1>9 DEF Next, Query

(* Where no handler runs and no ioctl fails, what gettimer answers lies    *)
(* between what had been heard when it was called and what has been heard  *)
(* when it returns (devp/devposs.c: gettimer).                             *)
THEOREM ClockIsRight ==
  ASSUME Levels = 0, ~IoErrors
  PROVE  Spec => ClockAccurate
<1> DEFINE A == pc[Main] = "getpos2" /\ pc'[Main] = "idle" /\ loc[Main].timer
                  => (clock' - loc[Main].n) % Labels <= (Played - loc[Main].n) % Labels
<1>1. Init => ClockInv
  BY DEF Init, ClockInv, NoLocals
<1>2. IInv /\ ClockInv /\ [Next]_vars => ClockInv'
  BY ClockStep
<1>3. IInv /\ ClockInv /\ [Next]_vars => [A]_vars
  <2> SUFFICES ASSUME IInv, ClockInv, [Next]_vars, pc[Main] = "getpos2",
                      pc'[Main] = "idle", loc[Main].timer
               PROVE  (clock' - loc[Main].n) % Labels <= (Played - loc[Main].n) % Labels
    OBVIOUS
  <2>1. /\ loc \in [Ctx -> Locals] /\ pc \in [Ctx -> Steps] /\ Main \in Ctx
        /\ playpos \in 0..Labels-1 /\ queue \in Seq(0..Silence) /\ kernlen \in Nat
    BY DEF IInv, TypeInv
  <2>2. QueryKernPos
    <3>1. ASSUME NEW c \in Ctx, Work(c) PROVE FALSE
      BY <3>1, WorkNoTimer DEF Work, TimerProc, MixAndAdvance, MixDone, CallIdle, MayStart,
         FlushStep, FlushEnter, FlushOdelay, FlushKernLen, FlushKernPos, FlushCache,
         FlushSpace, FlushLen, FlushLen2, FlushWrite, FlushCachePos, FlushPlayPos,
         FlushCacheLen, FlushCacheStore, FlushDone
    <3>2. pc' # pc
      OBVIOUS
    <3>3. QED BY <3>1, <3>2 DEF Next, Query, OssPlay, OssStop, Idle, GetPlayPos,
             MayStart, GetTimer, GetTimerDelay, QueryKernLen, DevicePlay, vars
  <2>3. clock' = (playpos - kernlen) % Labels
    BY <2>2 DEF QueryKernPos, Elapsed, ClockInv
  <2>4. PICK q \in Frames : AskedAt(q)
    BY DEF ClockInv
  <2>5. loc[Main].n = (playpos - q) % Labels /\ kernlen <= q /\ Len(queue) <= q
    BY <2>4 DEF AskedAt
  <2>6. Len(queue) <= kernlen /\ Len(queue) \in Nat
    BY <2>1 DEF IInv, WorkInv, WorkAt, RingShape
  <2>7. (clock' - loc[Main].n) % Labels = q - kernlen
    <3>1. playpos \in 0..Labels-1 /\ kernlen \in Nat /\ kernlen <= q
      BY <2>1, <2>5
    <3>2. Since(playpos, kernlen, q) = q - kernlen
      BY <3>1, SinceIs
    <3>3. QED BY Zenon, <2>3, <2>5, <3>2 DEF Since
  <2>8. (Played - loc[Main].n) % Labels = q - Len(queue)
    <3>1. playpos \in 0..Labels-1 /\ Len(queue) \in Nat /\ Len(queue) <= q
      BY <2>1, <2>5, <2>6
    <3>2. Since(playpos, Len(queue), q) = q - Len(queue)
      BY <3>1, SinceIs
    <3>3. QED BY Zenon, <2>5, <3>2 DEF Played, Since
  <2>9. QED BY <2>1, <2>6, <2>7, <2>8
<1>4. QED BY <1>1, <1>2, <1>3, InvAlways, PTL DEF Spec, ClockAccurate
=============================================================================
