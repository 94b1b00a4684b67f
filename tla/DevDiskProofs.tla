---------------------------- MODULE DevDiskProofs ----------------------------
(***************************************************************************)
(* The disk writer in the build without SIGALRM (Levels = 0): whatever its *)
(* buffer and its cache measure and whichever writes fail, the file is a   *)
(* beginning of what was mixed, the clock counts what was mixed, and a     *)
(* file that is closed is complete unless a write failed.                  *)
(***************************************************************************)
EXTENDS DevDisk, TLAPS

Steps == {"idle", "flush", "advance", "copy", "cachepos", "bufpos",
          "write", "filepos", "reset", "done"}
Buffer == 0 .. BufLen - 1
Locals == [n : 0 .. BufRate, pos : Buffer, release : BOOLEAN]

(* TypeOK, and the types of pc and loc.                                    *)
TypeInv ==
  /\ open \in BOOLEAN /\ failed \in BOOLEAN
  /\ busy \in 0..1 /\ writeerr \in 0..1 /\ clipbusy \in 0..1
  /\ bufpos \in Buffer /\ cachepos \in 0..CacheLen /\ filepos \in Nat
  /\ cells \in [Buffer -> Nat] /\ diskcache \in [0..CacheLen-1 -> Nat]
  /\ file \in Seq(Nat) /\ next \in 0..MaxFrames
  /\ pc \in [Ctx -> Steps] /\ loc \in [Ctx -> Locals]

at == pc[Main]
frames == loc[Main].n

Mixing == at \in {"advance", "copy", "cachepos"}

(* Nothing runs while no file is open.                                     *)
OpenInv == ~open => at = "idle"

(* What was mixed is booked, in the cache, or about to be copied there.    *)
CountInv ==
  /\ Mixing => filepos + cachepos + frames = next /\ cachepos + frames <= CacheLen
  /\ ~Mixing /\ at # "reset" => filepos + cachepos = next
  /\ at = "reset" => filepos = next

(* The frames about to be copied are those mixed last.                     *)
CellsInv ==
  at \in {"advance", "copy"} =>
    \A k \in 0 .. frames - 1 : cells[(bufpos + k) % BufLen] = next - frames + k

(* The cache holds the frames behind filepos.                              *)
CacheInv ==
  at # "reset" =>
    \A i \in 0 .. CacheLen - 1 :
      i < (IF at = "cachepos" THEN cachepos + frames ELSE cachepos) => diskcache[i] = filepos + i

(* The file is a beginning of what was mixed, and all that was booked      *)
(* while no write failed.                                                  *)
FileInv ==
  /\ WritesInOrder
  /\ writeerr = 1 => failed
  /\ open /\ writeerr = 0 =>
       Len(file) = IF at = "filepos" THEN filepos + cachepos ELSE filepos
  /\ at = "write" => writeerr = 0

IInv == TypeInv /\ OpenInv /\ CountInv /\ CellsInv /\ CacheInv /\ FileInv
-----------------------------------------------------------------------------
LEMMA Lengths ==
  /\ BufLen \in Nat /\ BufLen > 1 /\ CacheLen \in Nat /\ CacheLen > BufLen
  /\ MaxFrames \in Nat
  /\ BufRate \in Nat /\ BufRate > 0 /\ 2 * BufRate <= BufLen
<1>1. BufLen \in Nat /\ BufLen > 1
  BY LengthsAssumption DEF LengthsAssumption
<1>2. CacheLen \in Nat /\ CacheLen > BufLen /\ MaxFrames \in Nat
  BY LengthsAssumption DEF LengthsAssumption
<1>3. BufRate \in Nat /\ BufRate > 0 /\ 2 * BufRate <= BufLen
  BY <1>1 DEF BufRate
<1> QED BY <1>1, <1>2, <1>3

(* A remainder, once and less than once around the buffer.                 *)
LEMMA ModBufLen ==
  \A a \in Int :
    /\ a \in Buffer => a % BufLen = a
    /\ a \in BufLen .. 2 * BufLen - 1 => a % BufLen = a - BufLen
    /\ a \in -BufLen .. -1 => a % BufLen = a + BufLen
    /\ a % BufLen \in Buffer
BY Lengths DEF Buffer

(* How far behind bufpos the k-th cell from bufpos lies.                   *)
LEMMA CellBehind ==
  ASSUME NEW b \in Buffer, NEW k \in Buffer
  PROVE  /\ (b + k) % BufLen \in Buffer
         /\ (((b + k) % BufLen) - b) % BufLen = k
<1>1. CASE b + k < BufLen
  <2>1. (b + k) % BufLen = b + k
    BY <1>1, Lengths, ModBufLen DEF Buffer
  <2>2. QED BY <2>1, Lengths, ModBufLen DEF Buffer
<1>2. CASE b + k >= BufLen
  <2>1. (b + k) % BufLen = b + k - BufLen
    BY <1>2, Lengths, ModBufLen DEF Buffer
  <2>2. ((b + k) % BufLen) - b = k - BufLen /\ k - BufLen \in -BufLen .. -1
    BY <2>1, Lengths DEF Buffer
  <2>3. (k - BufLen) % BufLen = k - BufLen + BufLen
    BY <2>2, Lengths, ModBufLen DEF Buffer
  <2>4. QED BY <1>2, <2>1, <2>2, <2>3, Lengths DEF Buffer
<1> QED BY <1>1, <1>2, Lengths DEF Buffer

LEMMA CachedType ==
  ASSUME NEW m \in 0 .. CacheLen, diskcache \in [0..CacheLen-1 -> Nat]
  PROVE  Cached(m) \in Seq(Nat) /\ Len(Cached(m)) = m
<1>1. Cached(m) \in [1..m -> Nat]
  BY Lengths DEF Cached
<1> QED BY <1>1, Lengths

LEMMA AppendType ==
  ASSUME file \in Seq(Nat), diskcache \in [0..CacheLen-1 -> Nat], NEW m \in 0 .. CacheLen
  PROVE  file \o Cached(m) \in Seq(Nat)
BY CachedType

LEMMA AppendNothing ==
  ASSUME file \in Seq(Nat), diskcache \in [0..CacheLen-1 -> Nat]
  PROVE  file \o Cached(0) = file
<1>1. Cached(0) \in Seq(Nat) /\ Len(Cached(0)) = 0
  BY Lengths, CachedType
<1>2. Cached(0) = <<>>
  BY <1>1
<1> QED BY <1>2

(* The file goes on in order when the frames that follow are appended.     *)
LEMMA AppendInOrder ==
  ASSUME NEW m \in 0 .. CacheLen,
         file \in Seq(Nat), diskcache \in [0..CacheLen-1 -> Nat],
         WritesInOrder,
         \A i \in 0 .. CacheLen - 1 : i < m => diskcache[i] = Len(file) + i
  PROVE  /\ file \o Cached(m) \in Seq(Nat)
         /\ Len(file \o Cached(m)) = Len(file) + m
         /\ \A i \in 1 .. Len(file \o Cached(m)) : (file \o Cached(m))[i] = i - 1
<1>1. Cached(m) \in Seq(Nat) /\ Len(Cached(m)) = m
  BY CachedType
<1>2. \A i \in 1 .. m : Cached(m)[i] = Len(file) + i - 1
  BY Lengths DEF Cached
<1>3. Len(file) \in Nat
  OBVIOUS
<1> DEFINE more == file \o Cached(m)
<1>4. ASSUME NEW i \in 1 .. Len(file) + m
      PROVE  more[i] = i - 1
  <2>1. CASE i <= Len(file)
    <3>1. more[i] = file[i]
      BY <1>1, <1>3, <2>1, Lengths
    <3> HIDE DEF more
    <3>2. QED BY <1>3, <2>1, <3>1, Lengths DEF WritesInOrder
  <2>2. CASE i > Len(file)
    <3>1. i - Len(file) \in 1 .. m /\ Len(file) + (i - Len(file)) - 1 = i - 1
      BY <1>3, <2>2, Lengths
    <3>2. more[i] = Cached(m)[i - Len(file)]
      BY <1>1, <1>3, <2>2, Lengths
    <3> HIDE DEF more
    <3>3. QED BY <1>2, <3>1, <3>2
  <2>3. i <= Len(file) \/ i > Len(file)
    BY <1>3, Lengths
  <2>4. QED BY <2>1, <2>2, <2>3
<1>5. file \o Cached(m) \in Seq(Nat) /\ Len(file \o Cached(m)) = Len(file) + m
  BY <1>1
<1> QED BY <1>4, <1>5
-----------------------------------------------------------------------------
(* Without SIGALRM there is one context, the main program.                 *)
LEMMA OneContext ==
  ASSUME Levels = 0, TypeInv
  PROVE  /\ Ctx = {0} /\ Main = 0
         /\ at \in Steps /\ frames \in 0 .. BufRate
         /\ loc[0].pos \in Buffer /\ loc[0].release \in BOOLEAN
<1>1. Ctx = {0} /\ Main = 0
  BY DEF Ctx, Main
<1>2. pc[0] \in Steps /\ loc[0] \in Locals
  BY <1>1 DEF TypeInv
<1> QED BY <1>1, <1>2 DEF at, frames, Locals

(* Where main goes, and the locals it takes along.                         *)
LEMMA GotoStep ==
  ASSUME Levels = 0, TypeInv, NEW step \in Steps, Goto(0, step)
  PROVE  pc' \in [Ctx -> Steps] /\ at' = step
BY OneContext DEF TypeInv, Goto, at

LEMMA NewLocals ==
  ASSUME Levels = 0, TypeInv, NEW new \in Locals, loc' = [loc EXCEPT ![0] = new]
  PROVE  loc' \in [Ctx -> Locals] /\ frames' = new.n
BY OneContext DEF TypeInv, frames

LEMMA NoLocalsType == NoLocals \in Locals /\ NoLocals.n = 0
BY Lengths DEF NoLocals, Locals, Buffer

LEMMA InitHolds ==
  ASSUME Levels = 0, Init
  PROVE  IInv
<1>1. Ctx = {0} /\ Main = 0
  BY DEF Ctx, Main
<1>2. pc \in [Ctx -> Steps] /\ loc \in [Ctx -> Locals]
  BY NoLocalsType DEF Init, Steps
<1>3. at = "idle"
  BY <1>1 DEF Init, at
<1>4. TypeInv
  <2>1. 0 \in Buffer /\ 0 \in 0 .. CacheLen /\ 0 \in 0 .. MaxFrames
    BY Lengths DEF Buffer
  <2>2. cells \in [Buffer -> Nat] /\ diskcache \in [0 .. CacheLen - 1 -> Nat]
    BY DEF Init, Buffer
  <2>3. file \in Seq(Nat)
    BY DEF Init
  <2> QED BY <1>2, <2>1, <2>2, <2>3 DEF Init, TypeInv
<1>5. OpenInv /\ CountInv /\ CellsInv
  BY <1>3 DEF Init, OpenInv, CountInv, CellsInv, Mixing
<1>6. CacheInv
  BY <1>3, Lengths DEF Init, CacheInv
<1>7. FileInv
  BY <1>3 DEF Init, FileInv, WritesInOrder
<1> QED BY <1>4, <1>5, <1>6, <1>7 DEF IInv

(* What dwStop writes, and when it fails.                                  *)
LEMMA StopStep ==
  ASSUME Levels = 0, TypeInv, DwStop
  PROVE  /\ failed' \in BOOLEAN
         /\ \E n \in 0 .. StopWrites : file' = file \o Cached(n)
         /\ failed' \/ file' = file \o Cached(StopWrites)
<1>1. StopWrites \in Nat /\ IoErrors \in BOOLEAN
  BY Lengths, LevelsAssumption DEF TypeInv, StopWrites
<1>2. PICK n \in IF IoErrors THEN 0 .. StopWrites ELSE {StopWrites} :
        file' = file \o Cached(n) /\ failed' = (failed \/ n < StopWrites)
  BY DEF DwStop
<1>3. n \in 0 .. StopWrites
  BY <1>1
<1>4. failed' \in BOOLEAN
  BY <1>2, Zenon
<1>5. CASE n < StopWrites
  <2>1. failed'
    BY <1>2, <1>5, Zenon
  <2> QED BY <1>2, <1>3, <2>1
<1>6. CASE n = StopWrites
  BY <1>2, <1>3, <1>4, <1>6
<1> QED BY <1>1, <1>3, <1>5, <1>6

LEMMA DwPlayKeeps ==
  ASSUME Levels = 0, IInv, DwPlay
  PROVE  IInv'
<1> USE Lengths DEF IInv
<1>0. Ctx = {0} /\ Main = 0 /\ at \in Steps /\ frames \in 0 .. BufRate
  BY OneContext
<1>1. /\ at = "idle" /\ at' = at /\ frames' = frames
      /\ pc' \in [Ctx -> Steps] /\ loc' \in [Ctx -> Locals]
  BY <1>0 DEF TypeInv, at, frames, Idle, DwPlay
<1>2. TypeInv'
  <2>1. file' \in Seq(Nat) /\ 0 \in Buffer /\ 0 \in 0 .. CacheLen /\ 0 \in 0 .. MaxFrames
    BY DEF DwPlay, Buffer
  <2>2. /\ open' \in BOOLEAN /\ failed' \in BOOLEAN
        /\ cells' = cells /\ diskcache' = diskcache /\ clipbusy' = clipbusy
    BY DEF DwPlay
  <2>3. bufpos' = 0 /\ cachepos' = 0 /\ filepos' = 0 /\ busy' = 0 /\ writeerr' = 0 /\ next' = 0
    BY DEF DwPlay
  <2> QED BY <1>1, <2>1, <2>2, <2>3 DEF TypeInv
<1>3. OpenInv'
  BY <1>1 DEF OpenInv, device, DwPlay
<1>4. CountInv'
  BY <1>0, <1>1 DEF TypeInv, CountInv, Mixing, device, DwPlay
<1>5. CellsInv'
  BY <1>0, <1>1 DEF TypeInv, CellsInv, device, DwPlay
<1>6. CacheInv'
  BY <1>0, <1>1 DEF TypeInv, CacheInv, device, DwPlay
<1>7. FileInv'
  BY <1>0, <1>1 DEF TypeInv, FileInv, WritesInOrder, device, DwPlay
<1> QED BY <1>2, <1>3, <1>4, <1>5, <1>6, <1>7

LEMMA DwStopKeeps ==
  ASSUME Levels = 0, IInv, DwStop
  PROVE  IInv'
<1> USE Lengths DEF IInv
<1>0. Ctx = {0} /\ Main = 0 /\ at \in Steps /\ frames \in 0 .. BufRate
  BY OneContext
<1>1. /\ at = "idle" /\ at' = at /\ frames' = frames
      /\ pc' \in [Ctx -> Steps] /\ loc' \in [Ctx -> Locals]
  BY <1>0 DEF TypeInv, at, frames, Idle, DwStop
<1>2. TypeInv'
  <2>1. PICK n \in 0 .. StopWrites : file' = file \o Cached(n)
    BY StopStep
  <2>2. n \in 0 .. CacheLen
    BY DEF TypeInv, StopWrites
  <2>3. file' \in Seq(Nat) /\ failed' \in BOOLEAN
    BY <2>1, <2>2, AppendType, StopStep DEF TypeInv
  <2> QED BY <1>0, <1>1, <2>3 DEF TypeInv, device, DwStop
<1>3. OpenInv'
  BY <1>1 DEF OpenInv, device, DwStop
<1>4. CountInv'
  BY <1>0, <1>1 DEF TypeInv, CountInv, Mixing, device, DwStop
<1>5. CellsInv'
  BY <1>0, <1>1 DEF TypeInv, CellsInv, device, DwStop
<1>6. CacheInv'
  BY <1>0, <1>1 DEF TypeInv, CacheInv, device, DwStop
<1>7. FileInv'
  <2>1. PICK n \in 0 .. StopWrites : file' = file \o Cached(n)
    BY StopStep
  <2>0. n \in 0 .. CacheLen /\ StopWrites \in 0 .. CacheLen
    BY DEF TypeInv, StopWrites
  <2>2. CASE n = 0
    <3>1. file' = file
      BY <2>0, <2>1, <2>2, AppendNothing DEF TypeInv
    <3> QED BY <1>1, <3>1 DEF TypeInv, FileInv, WritesInOrder, DwStop
  <2>3. CASE n > 0
    <3>1. writeerr = 0 /\ Len(file) = filepos /\ n <= cachepos
      BY <1>1, <2>0, <2>1, <2>3 DEF TypeInv, FileInv, StopWrites, DwStop
    <3>2. \A i \in 0 .. CacheLen - 1 : i < n => diskcache[i] = Len(file) + i
      BY <1>1, <3>1 DEF TypeInv, CacheInv
    <3>3. WritesInOrder'
      BY <2>0, <2>1, <3>2, AppendInOrder DEF TypeInv, FileInv, WritesInOrder
    <3> QED BY <1>1, <3>1, <3>3 DEF TypeInv, FileInv, DwStop
  <2> QED BY <2>0, <2>2, <2>3
<1> QED BY <1>2, <1>3, <1>4, <1>5, <1>6, <1>7

LEMMA MixKeeps ==
  ASSUME Levels = 0, IInv, TimerProc(0), GetPos # bufpos
  PROVE  IInv'
<1> USE Lengths DEF IInv
<1>0. Ctx = {0} /\ Main = 0 /\ at \in Steps /\ frames \in 0 .. BufRate
  BY OneContext
<1>1. PICK d \in 1 .. BufRate :
        /\ next + d <= MaxFrames /\ next' = next + d
        /\ cells' = [i \in 0 .. BufLen - 1 |->
                       LET k == (i - bufpos) % BufLen IN
                       IF k < d THEN next + k ELSE cells[i]]
        /\ loc' = [loc EXCEPT ![0] = [n |-> d, pos |-> EndOfMix(d), release |-> FALSE]]
  BY DEF TimerProc
<1>2. /\ clipbusy' = 1 /\ Goto(0, "advance") /\ at = "idle" /\ open
      /\ UNCHANGED <<open, device>>
  BY DEF TimerProc, MayStart, at, Main
<1>3. pc' \in [Ctx -> Steps] /\ at' = "advance"
  BY <1>2, GotoStep DEF Steps
<1>4. d \in Nat /\ d <= BufRate /\ d < BufLen
  BY <1>1
<1>5. loc' \in [Ctx -> Locals] /\ frames' = d
  <2>1. bufpos + d \in Int
    BY <1>4 DEF TypeInv, Buffer
  <2>2. EndOfMix(d) \in Buffer
    BY <2>1, ModBufLen DEF EndOfMix
  <2>3. [n |-> d, pos |-> EndOfMix(d), release |-> FALSE] \in Locals
    <3>1. d \in 0 .. BufRate
      BY <1>4
    <3> QED BY <2>2, <3>1 DEF Locals
  <2>4. [n |-> d, pos |-> EndOfMix(d), release |-> FALSE].n = d
    BY DEF NoLocals
  <2> QED BY <1>1, <2>3, <2>4, NewLocals
<1>6. TypeInv'
  <2>1. cells' \in [Buffer -> Nat]
    <3>1. \A i \in Buffer : (i - bufpos) % BufLen \in Nat
      BY ModBufLen DEF TypeInv, Buffer
    <3>2. (\A i \in Buffer : cells[i] \in Nat) /\ next \in Nat
      BY DEF TypeInv
    <3> QED BY <1>1, <3>1, <3>2 DEF Buffer
  <2>2. next' \in 0 .. MaxFrames
    BY <1>1, <1>4 DEF TypeInv
  <2> QED BY <1>2, <1>3, <1>5, <2>1, <2>2 DEF TypeInv, device
<1>7. OpenInv'
  BY <1>2 DEF OpenInv
<1>8. CountInv'
  <2>1. filepos + cachepos = next
    BY <1>2 DEF CountInv, Mixing
  <2>2. cachepos + BufRate <= CacheLen
    BY DEF GetPos, NoRoom, TypeInv
  <2>3. filepos' = filepos /\ cachepos' = cachepos /\ next' = next + d
    BY <1>1, <1>2 DEF device
  <2> QED BY <1>3, <1>4, <1>5, <2>1, <2>2, <2>3 DEF TypeInv, CountInv, Mixing
<1>9. CellsInv'
  <2> SUFFICES ASSUME NEW k \in 0 .. d - 1
               PROVE  cells'[(bufpos + k) % BufLen] = next + k
    <3>1. next' - frames' = next /\ bufpos' = bufpos
      BY <1>1, <1>2, <1>4, <1>5 DEF TypeInv, device
    <3> QED BY <1>5, <3>1 DEF CellsInv
  <2>1. k \in Buffer /\ k < d
    BY <1>4 DEF Buffer
  <2>2. (bufpos + k) % BufLen \in Buffer /\ (((bufpos + k) % BufLen) - bufpos) % BufLen = k
    BY <2>1, CellBehind DEF TypeInv
  <2> QED BY <1>1, <2>1, <2>2 DEF Buffer
<1>10. CacheInv'
  BY <1>2, <1>3 DEF CacheInv, device
<1>11. FileInv'
  BY <1>2, <1>3 DEF FileInv, WritesInOrder, device
<1> QED BY <1>6, <1>7, <1>8, <1>9, <1>10, <1>11

(* A filler with no space, and plrIdle called on its own.                  *)
LEMMA ToFlushKeeps ==
  ASSUME Levels = 0, IInv, at = "idle", open, Goto(0, "flush"),
         UNCHANGED <<open, device, cells, next, clipbusy, loc>>
  PROVE  IInv'
<1> USE DEF IInv
<1>1. at' = "flush" /\ pc' \in [Ctx -> Steps] /\ frames' = frames
  BY GotoStep DEF Steps, frames
<1>2. TypeInv' /\ OpenInv'
  BY <1>1 DEF TypeInv, OpenInv, device
<1>3. CountInv' /\ CellsInv' /\ CacheInv'
  BY <1>1 DEF CountInv, Mixing, CellsInv, CacheInv, device
<1>4. FileInv'
  BY <1>1 DEF FileInv, WritesInOrder, device
<1> QED BY <1>2, <1>3, <1>4

LEMMA TimerProcKeeps ==
  ASSUME Levels = 0, IInv, TimerProc(0)
  PROVE  IInv'
<1>1. CASE GetPos # bufpos
  BY <1>1, MixKeeps
<1>2. CASE GetPos = bufpos
  BY <1>2, ToFlushKeeps DEF TimerProc, MayStart, at, Main
<1> QED BY <1>1, <1>2

LEMMA CallIdleKeeps ==
  ASSUME Levels = 0, IInv, CallIdle(0)
  PROVE  IInv'
BY ToFlushKeeps DEF CallIdle, MayStart, at, Main

LEMMA AdvanceKeeps ==
  ASSUME Levels = 0, IInv, Advance(0)
  PROVE  IInv'
<1> USE Lengths DEF IInv
<1>0. Ctx = {0} /\ Main = 0 /\ at \in Steps /\ frames \in 0 .. BufRate
  BY OneContext
<1>a. at = "advance" /\ pc' \in [Ctx -> Steps] /\ at' = "copy"
  BY <1>0, GotoStep DEF Steps, at, At, Advance
<1>b. loc' \in [Ctx -> Locals] /\ frames' = frames
  BY DEF TypeInv, frames, Advance
<1>2. TypeInv'
  BY <1>0, <1>a, <1>b DEF TypeInv, device, Advance
<1>3. OpenInv'
  BY <1>a, <1>b DEF OpenInv, device, Advance
<1>4. CountInv'
  BY <1>0, <1>a, <1>b DEF TypeInv, CountInv, Mixing, device, Advance
<1>5. CellsInv'
  BY <1>0, <1>a, <1>b DEF TypeInv, CellsInv, device, Advance
<1>6. CacheInv'
  BY <1>0, <1>a, <1>b DEF TypeInv, CacheInv, device, Advance
<1>7. FileInv'
  BY <1>0, <1>a, <1>b DEF TypeInv, FileInv, WritesInOrder, device, Advance
<1> QED BY <1>2, <1>3, <1>4, <1>5, <1>6, <1>7

LEMMA AdvanceCopyKeeps ==
  ASSUME Levels = 0, IInv, AdvanceCopy(0)
  PROVE  IInv'
<1> USE Lengths DEF IInv
<1>0. Ctx = {0} /\ Main = 0 /\ at \in Steps /\ frames \in 0 .. BufRate
  BY OneContext
<1>a. at = "copy" /\ pc' \in [Ctx -> Steps] /\ at' = "cachepos"
  BY <1>0, GotoStep DEF Steps, at, At, AdvanceCopy
<1>b. loc' \in [Ctx -> Locals] /\ frames' = frames
  BY DEF TypeInv, frames, AdvanceCopy
<1>2. TypeInv'
  <2>1. diskcache' \in [0 .. CacheLen - 1 -> Nat]
    <3>1. \A i \in Nat : i >= cachepos => (bufpos + i - cachepos) % BufLen \in Buffer
      <4>1. bufpos \in Int /\ cachepos \in Int
        BY DEF TypeInv, Buffer
      <4>2. \A i \in Nat : bufpos + i - cachepos \in Int
        BY <4>1
      <4> QED BY <4>2, ModBufLen
    <3>2. \A j \in Buffer : cells[j] \in Nat
      BY DEF TypeInv
    <3>3. /\ cachepos \in Nat /\ loc[0].n \in Nat
          /\ \A i \in 0 .. CacheLen - 1 : diskcache[i] \in Nat
      BY <1>0 DEF TypeInv, frames
    <3>4. ASSUME NEW i \in 0 .. CacheLen - 1
          PROVE  (IF i \in cachepos .. cachepos + loc[0].n - 1
                    THEN cells[(bufpos + i - cachepos) % BufLen] ELSE diskcache[i]) \in Nat
      <4>1. CASE i >= cachepos
        <5>1. cells[(bufpos + i - cachepos) % BufLen] \in Nat
          BY <3>1, <3>2, <4>1
        <5> QED BY <3>3, <5>1
      <4>2. CASE ~(i >= cachepos)
        BY <3>3, <4>2
      <4> QED BY <4>1, <4>2
    <3> QED BY <3>4 DEF AdvanceCopy
  <2> QED BY <1>0, <1>a, <1>b, <2>1 DEF TypeInv, AdvanceCopy
<1>3. OpenInv'
  BY <1>a, <1>b DEF OpenInv, device, AdvanceCopy
<1>4. CountInv'
  BY <1>0, <1>a, <1>b DEF TypeInv, CountInv, Mixing, device, AdvanceCopy
<1>5. CellsInv'
  BY <1>0, <1>a, <1>b DEF TypeInv, CellsInv, device, AdvanceCopy
<1>6. CacheInv'
  <2> SUFFICES ASSUME NEW i \in 0 .. CacheLen - 1, i < cachepos + frames
               PROVE  diskcache'[i] = filepos + i
    BY <1>a, <1>b DEF CacheInv, AdvanceCopy
  <2>1. CASE i < cachepos
    BY <1>0, <1>a, <2>1 DEF TypeInv, CacheInv, AdvanceCopy, frames
  <2>2. CASE i >= cachepos
    <3>1. i - cachepos \in 0 .. frames - 1 /\ bufpos + i - cachepos = bufpos + (i - cachepos)
      BY <1>0, <2>2 DEF TypeInv
    <3>2. cells[(bufpos + (i - cachepos)) % BufLen] = next - frames + (i - cachepos)
      BY <1>a, <3>1 DEF CellsInv
    <3>3. diskcache'[i] = cells[(bufpos + (i - cachepos)) % BufLen]
      BY <1>0, <2>2, <3>1 DEF TypeInv, AdvanceCopy, frames
    <3>4. filepos + cachepos + frames = next
      BY <1>a DEF CountInv, Mixing
    <3> QED BY <1>0, <3>2, <3>3, <3>4 DEF TypeInv
  <2> QED BY <2>1, <2>2 DEF TypeInv
<1>7. FileInv'
  BY <1>0, <1>a, <1>b DEF TypeInv, FileInv, WritesInOrder, device, AdvanceCopy
<1> QED BY <1>2, <1>3, <1>4, <1>5, <1>6, <1>7

LEMMA AdvanceCachePosKeeps ==
  ASSUME Levels = 0, IInv, AdvanceCachePos(0)
  PROVE  IInv'
<1> USE Lengths DEF IInv
<1>0. Ctx = {0} /\ Main = 0 /\ at \in Steps /\ frames \in 0 .. BufRate
  BY OneContext
<1>a. at = "cachepos" /\ pc' \in [Ctx -> Steps] /\ at' = "bufpos"
  BY <1>0, GotoStep DEF Steps, at, At, AdvanceCachePos
<1>b. loc' \in [Ctx -> Locals] /\ frames' = frames
  BY DEF TypeInv, frames, AdvanceCachePos
<1>c. /\ cachepos' = cachepos + frames
      /\ filepos + cachepos + frames = next /\ cachepos + frames <= CacheLen
  BY <1>0, <1>a DEF AdvanceCachePos, frames, CountInv, Mixing
<1>2. TypeInv'
  BY <1>0, <1>a, <1>b, <1>c DEF TypeInv, device, AdvanceCachePos
<1>3. OpenInv'
  BY <1>a, <1>b, <1>c DEF OpenInv, device, AdvanceCachePos
<1>4. CountInv'
  <2>1. filepos' = filepos /\ next' = next
    BY DEF AdvanceCachePos
  <2>2. filepos \in Nat /\ cachepos \in Nat /\ next \in Nat /\ frames \in Nat
    BY <1>0 DEF TypeInv
  <2> QED BY <1>a, <1>c, <2>1, <2>2 DEF CountInv, Mixing
<1>5. CellsInv'
  BY <1>0, <1>a, <1>b, <1>c DEF TypeInv, CellsInv, device, AdvanceCachePos
<1>6. CacheInv'
  BY <1>0, <1>a, <1>b, <1>c DEF TypeInv, CacheInv, device, AdvanceCachePos
<1>7. FileInv'
  BY <1>0, <1>a, <1>b, <1>c DEF TypeInv, FileInv, WritesInOrder, device, AdvanceCachePos
<1> QED BY <1>2, <1>3, <1>4, <1>5, <1>6, <1>7

LEMMA AdvanceDoneKeeps ==
  ASSUME Levels = 0, IInv, AdvanceDone(0)
  PROVE  IInv'
<1> USE Lengths DEF IInv
<1>0. Ctx = {0} /\ Main = 0 /\ at \in Steps /\ frames \in 0 .. BufRate
  BY OneContext
<1>a. at = "bufpos" /\ pc' \in [Ctx -> Steps] /\ at' = "flush"
  BY <1>0, GotoStep DEF Steps, at, At, AdvanceDone
<1>b. loc' \in [Ctx -> Locals]
  BY <1>0, NewLocals, NoLocalsType DEF Locals, Buffer, NoLocals, TypeInv, AdvanceDone
<1>2. TypeInv'
  <2>1. bufpos' \in Buffer /\ clipbusy' \in 0 .. 1
    BY OneContext DEF TypeInv, AdvanceDone
  <2> QED BY <1>0, <1>a, <1>b, <2>1 DEF TypeInv, AdvanceDone
<1>3. OpenInv'
  BY <1>a, <1>b DEF OpenInv, device, AdvanceDone
<1>4. CountInv'
  BY <1>0, <1>a, <1>b DEF TypeInv, CountInv, Mixing, device, AdvanceDone
<1>5. CellsInv'
  BY <1>0, <1>a, <1>b DEF TypeInv, CellsInv, device, AdvanceDone
<1>6. CacheInv'
  BY <1>0, <1>a, <1>b DEF TypeInv, CacheInv, device, AdvanceDone
<1>7. FileInv'
  BY <1>0, <1>a, <1>b DEF TypeInv, FileInv, WritesInOrder, device, AdvanceDone
<1> QED BY <1>2, <1>3, <1>4, <1>5, <1>6, <1>7

LEMMA FlushEnterKeeps ==
  ASSUME Levels = 0, IInv, FlushEnter(0)
  PROVE  IInv'
<1> USE Lengths DEF IInv
<1>0. Ctx = {0} /\ Main = 0 /\ at \in Steps /\ frames \in 0 .. BufRate
  BY OneContext
<1>a. /\ at = "flush" /\ pc' \in [Ctx -> Steps]
      /\ at' \in {"done", "write", "filepos"} /\ (at' = "write" => writeerr = 0)
      /\ (at' = "filepos" => writeerr # 0)
  BY <1>0, GotoStep DEF Steps, at, At, FlushEnter
<1>b. loc' \in [Ctx -> Locals] /\ frames' = frames
  BY DEF TypeInv, frames, FlushEnter
<1>2. TypeInv'
  BY <1>0, <1>a, <1>b DEF TypeInv, device, FlushEnter
<1>3. OpenInv'
  BY <1>a, <1>b DEF OpenInv, device, FlushEnter
<1>4. CountInv'
  BY <1>0, <1>a, <1>b DEF TypeInv, CountInv, Mixing, device, FlushEnter
<1>5. CellsInv'
  BY <1>0, <1>a, <1>b DEF TypeInv, CellsInv, device, FlushEnter
<1>6. CacheInv'
  BY <1>0, <1>a, <1>b DEF TypeInv, CacheInv, device, FlushEnter
<1>7. FileInv'
  BY <1>0, <1>a, <1>b DEF TypeInv, FileInv, WritesInOrder, device, FlushEnter
<1> QED BY <1>2, <1>3, <1>4, <1>5, <1>6, <1>7

(* What Flush writes, and what it records.                                 *)
LEMMA WriteStep ==
  ASSUME Levels = 0, TypeInv, FlushWrite(0)
  PROVE  /\ failed' \in BOOLEAN /\ writeerr' \in 0 .. 1
         /\ writeerr = 0 /\ writeerr' = 1 => failed'
         /\ \E n \in 0 .. CacheLen :
              /\ n <= cachepos /\ file' = file \o Cached(n)
              /\ writeerr' = 0 => n = cachepos
<1> USE Lengths
<1>0. cachepos \in 0 .. CacheLen /\ writeerr \in 0 .. 1 /\ failed \in BOOLEAN
  BY DEF TypeInv
<1>1. CASE file' = file \o Cached(cachepos) /\ UNCHANGED <<writeerr, failed>>
  BY <1>0, <1>1
<1>2. CASE /\ \E n \in 0 .. cachepos - 1 : file' = file \o Cached(n)
           /\ writeerr' = 1 /\ failed' = TRUE
  <2>1. PICK n \in 0 .. cachepos - 1 : file' = file \o Cached(n)
    BY <1>2
  <2>2. n \in 0 .. CacheLen /\ n <= cachepos
    BY <1>0
  <2> QED BY <1>2, <2>1, <2>2
<1> QED BY <1>1, <1>2 DEF FlushWrite

LEMMA FlushWriteKeeps ==
  ASSUME Levels = 0, IInv, FlushWrite(0)
  PROVE  IInv'
<1> USE Lengths DEF IInv
<1>0. Ctx = {0} /\ Main = 0 /\ at \in Steps /\ frames \in 0 .. BufRate
  BY OneContext
<1>a. at = "write" /\ pc' \in [Ctx -> Steps] /\ at' = "filepos"
  BY <1>0, GotoStep DEF Steps, at, At, FlushWrite
<1>b. loc' \in [Ctx -> Locals] /\ frames' = frames
  BY DEF TypeInv, frames, FlushWrite
<1>2. TypeInv'
  <2>1. PICK n \in 0 .. CacheLen : file' = file \o Cached(n)
    BY WriteStep
  <2>2. file' \in Seq(Nat) /\ writeerr' \in 0 .. 1 /\ failed' \in BOOLEAN
    BY <2>1, WriteStep, AppendType DEF TypeInv
  <2> QED BY <1>0, <1>a, <1>b, <2>2 DEF TypeInv, FlushWrite
<1>3. OpenInv'
  BY <1>a, <1>b DEF OpenInv, device, FlushWrite
<1>4. CountInv'
  BY <1>0, <1>a, <1>b DEF TypeInv, CountInv, Mixing, device, FlushWrite
<1>5. CellsInv'
  BY <1>0, <1>a, <1>b DEF TypeInv, CellsInv, device, FlushWrite
<1>6. CacheInv'
  BY <1>0, <1>a, <1>b DEF TypeInv, CacheInv, device, FlushWrite
<1>7. FileInv'
  <2>1. PICK n \in 0 .. CacheLen :
          n <= cachepos /\ file' = file \o Cached(n) /\ (writeerr' = 0 => n = cachepos)
    BY WriteStep
  <2>2. writeerr = 0 /\ open /\ Len(file) = filepos
    BY <1>a DEF OpenInv, FileInv
  <2>3. \A i \in 0 .. CacheLen - 1 : i < n => diskcache[i] = Len(file) + i
    BY <1>a, <2>1, <2>2 DEF TypeInv, CacheInv
  <2>4. WritesInOrder' /\ Len(file') = Len(file) + n
    BY <2>1, <2>3, AppendInOrder DEF TypeInv, FileInv, WritesInOrder
  <2>5. writeerr' = 1 => failed'
    BY <2>2, WriteStep
  <2>6. open' = open /\ filepos' = filepos /\ cachepos' = cachepos
    BY DEF FlushWrite
  <2>7. writeerr' = 0 => Len(file') = filepos' + cachepos'
    BY <2>1, <2>2, <2>4, <2>6
  <2> QED BY <1>a, <2>4, <2>5, <2>7 DEF FileInv
<1> QED BY <1>2, <1>3, <1>4, <1>5, <1>6, <1>7

LEMMA FlushFilePosKeeps ==
  ASSUME Levels = 0, IInv, FlushFilePos(0)
  PROVE  IInv'
<1> USE Lengths DEF IInv
<1>0. Ctx = {0} /\ Main = 0 /\ at \in Steps /\ frames \in 0 .. BufRate
  BY OneContext
<1>a. at = "filepos" /\ pc' \in [Ctx -> Steps] /\ at' = "reset"
  BY <1>0, GotoStep DEF Steps, at, At, FlushFilePos
<1>b. loc' \in [Ctx -> Locals] /\ frames' = frames
  BY DEF TypeInv, frames, FlushFilePos
<1>2. TypeInv'
  BY <1>0, <1>a, <1>b DEF TypeInv, device, FlushFilePos
<1>3. OpenInv'
  BY <1>a, <1>b DEF OpenInv, device, FlushFilePos
<1>4. CountInv'
  BY <1>0, <1>a, <1>b DEF TypeInv, CountInv, Mixing, device, FlushFilePos
<1>5. CellsInv'
  BY <1>0, <1>a, <1>b DEF TypeInv, CellsInv, device, FlushFilePos
<1>6. CacheInv'
  BY <1>0, <1>a, <1>b DEF TypeInv, CacheInv, device, FlushFilePos
<1>7. FileInv'
  BY <1>0, <1>a, <1>b DEF TypeInv, FileInv, WritesInOrder, device, FlushFilePos
<1> QED BY <1>2, <1>3, <1>4, <1>5, <1>6, <1>7

LEMMA FlushResetKeeps ==
  ASSUME Levels = 0, IInv, FlushReset(0)
  PROVE  IInv'
<1> USE Lengths DEF IInv
<1>0. Ctx = {0} /\ Main = 0 /\ at \in Steps /\ frames \in 0 .. BufRate
  BY OneContext
<1>a. at = "reset" /\ pc' \in [Ctx -> Steps] /\ at' = "done"
  BY <1>0, GotoStep DEF Steps, at, At, FlushReset
<1>b. loc' \in [Ctx -> Locals] /\ frames' = frames
  BY DEF TypeInv, frames, FlushReset
<1>2. TypeInv'
  BY <1>0, <1>a, <1>b DEF TypeInv, ResetCache, FlushReset
<1>3. OpenInv'
  BY <1>a, <1>b DEF OpenInv, device, FlushReset
<1>4. CountInv'
  BY <1>0, <1>a, <1>b DEF TypeInv, CountInv, Mixing, ResetCache, FlushReset
<1>5. CellsInv'
  BY <1>0, <1>a, <1>b DEF TypeInv, CellsInv, device, FlushReset
<1>6. CacheInv'
  BY <1>0, <1>a, <1>b DEF TypeInv, CacheInv, ResetCache, FlushReset
<1>7. FileInv'
  BY <1>0, <1>a, <1>b DEF TypeInv, FileInv, WritesInOrder, device, FlushReset
<1> QED BY <1>2, <1>3, <1>4, <1>5, <1>6, <1>7

LEMMA FlushDoneKeeps ==
  ASSUME Levels = 0, IInv, FlushDone(0)
  PROVE  IInv'
<1> USE Lengths DEF IInv
<1>0. Ctx = {0} /\ Main = 0 /\ at \in Steps /\ frames \in 0 .. BufRate
  BY OneContext
<1>a. at = "done" /\ pc' \in [Ctx -> Steps] /\ at' = "idle"
  BY <1>0, GotoStep DEF Steps, at, At, FlushDone
<1>b. loc' \in [Ctx -> Locals]
  BY <1>0, NewLocals, NoLocalsType DEF FlushDone
<1>2. TypeInv'
  BY <1>0, <1>a, <1>b DEF TypeInv, device, FlushDone
<1>3. OpenInv'
  BY <1>a, <1>b DEF OpenInv, device, FlushDone
<1>4. CountInv'
  BY <1>0, <1>a, <1>b DEF TypeInv, CountInv, Mixing, device, FlushDone
<1>5. CellsInv'
  BY <1>0, <1>a, <1>b DEF TypeInv, CellsInv, device, FlushDone
<1>6. CacheInv'
  BY <1>0, <1>a, <1>b DEF TypeInv, CacheInv, device, FlushDone
<1>7. FileInv'
  BY <1>0, <1>a, <1>b DEF TypeInv, FileInv, WritesInOrder, device, FlushDone
<1> QED BY <1>2, <1>3, <1>4, <1>5, <1>6, <1>7

(* Every step, one action after the other.                                 *)
LEMMA NextKeeps ==
  ASSUME Levels = 0, IInv, [Next]_vars
  PROVE  IInv'
<1>1. Ctx = {0}
  BY OneContext DEF IInv
<1>2. CASE DwPlay
  BY <1>2, DwPlayKeeps
<1>3. CASE DwStop
  BY <1>3, DwStopKeeps
<1>4. CASE TimerProc(0)
  BY <1>4, TimerProcKeeps
<1>5. CASE CallIdle(0)
  BY <1>5, CallIdleKeeps
<1>6. CASE Goes(0)
  BY <1>6, AdvanceKeeps, AdvanceCopyKeeps, AdvanceCachePosKeeps, AdvanceDoneKeeps,
     FlushEnterKeeps, FlushWriteKeeps, FlushFilePosKeeps, FlushResetKeeps, FlushDoneKeeps
     DEF Goes
<1>7. CASE UNCHANGED vars
  BY <1>7 DEF vars, device, IInv, TypeInv, OpenInv, CountInv, CellsInv, CacheInv, FileInv,
     WritesInOrder, at, frames, Mixing
<1> QED BY <1>1, <1>2, <1>3, <1>4, <1>5, <1>6, <1>7 DEF Next

LEMMA InvAlways ==
  ASSUME Levels = 0
  PROVE  Spec => []IInv
<1>1. Init => IInv
  BY InitHolds
<1>2. IInv /\ [Next]_vars => IInv'
  BY NextKeeps
<1> QED BY <1>1, <1>2, PTL DEF Spec
-----------------------------------------------------------------------------
(* The cache never runs over, whatever the lengths: advance() never ends   *)
(* the program (devp/devpdisk.c:175).                                      *)
THEOREM Typed == Levels = 0 => (Spec => []TypeOK)
<1> SUFFICES ASSUME Levels = 0 PROVE Spec => []TypeOK
  OBVIOUS
<1>1. IInv => TypeOK
  <2> SUFFICES ASSUME IInv PROVE TypeOK
    OBVIOUS
  <2>1. loc[0].n \in 0 .. BufRate /\ loc[0].pos \in 0 .. BufLen - 1 /\ Ctx = {0}
    BY OneContext DEF IInv, frames, Main, Buffer
  <2>2. filepos \in 0 .. MaxFrames
    BY Lengths, OneContext DEF IInv, TypeInv, CountInv, Mixing
  <2> QED BY <2>1, <2>2 DEF IInv, TypeInv, TypeOK, Buffer
<1> QED BY <1>1, InvAlways, PTL

(* The file is a beginning of what was mixed, whatever the lengths of the  *)
(* buffer and of the cache and whichever writes fail.                      *)
THEOREM FileInOrder == Levels = 0 => (Spec => []WritesInOrder)
<1> SUFFICES ASSUME Levels = 0 PROVE Spec => []WritesInOrder
  OBVIOUS
<1>1. IInv => WritesInOrder
  BY DEF IInv, FileInv
<1> QED BY <1>1, InvAlways, PTL

(* The clock of the device counts the frames mixed, written or not.        *)
THEOREM ClockRight == Levels = 0 => (Spec => []ClockCounts)
<1> SUFFICES ASSUME Levels = 0 PROVE Spec => []ClockCounts
  OBVIOUS
<1>1. IInv => ClockCounts
  BY OneContext DEF IInv, CountInv, Mixing, ClockCounts, Idle, at
<1> QED BY <1>1, InvAlways, PTL

(* A file that is closed holds everything that was mixed, unless a write   *)
(* failed.                                                                 *)
THEOREM FileComplete == Levels = 0 => (Spec => WritesAll)
<1> SUFFICES ASSUME Levels = 0 PROVE Spec => WritesAll
  OBVIOUS
<1>1. IInv /\ [Next]_vars => [open /\ ~open' => failed' \/ Len(file') = next]_vars
  <2> SUFFICES ASSUME IInv, Next, open, ~open', ~failed'
               PROVE  Len(file') = next
    OBVIOUS
  <2>1. DwStop
    BY DEF Next, Goes, DwPlay, TimerProc, CallIdle, Advance, AdvanceCopy, AdvanceCachePos,
       AdvanceDone, FlushEnter, FlushWrite, FlushFilePos, FlushReset, FlushDone
  <2>2. at = "idle" /\ filepos + cachepos = next
    BY <2>1, OneContext DEF IInv, DwStop, Idle, at, CountInv, Mixing
  <2>3. writeerr = 0 /\ Len(file) = filepos
    BY <2>1, <2>2 DEF IInv, TypeInv, FileInv, DwStop
  <2>4. file' = file \o Cached(cachepos)
    BY <2>1, <2>3, StopStep DEF IInv, StopWrites
  <2>5. \A i \in 0 .. CacheLen - 1 : i < cachepos => diskcache[i] = Len(file) + i
    BY <2>2, <2>3 DEF IInv, CacheInv
  <2>6. Len(file') = Len(file) + cachepos
    BY <2>4, <2>5, AppendInOrder DEF IInv, TypeInv, FileInv
  <2> QED BY <2>2, <2>3, <2>6
<1> QED BY <1>1, InvAlways, PTL DEF Spec, WritesAll
=============================================================================
