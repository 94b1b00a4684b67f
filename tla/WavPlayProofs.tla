--------------------------- MODULE WavPlayProofs ---------------------------
(***************************************************************************)
(* Proofs about the wave player, for any length of file, ring, read and    *)
(* device buffer, and whatever fread returns.                              *)
(*                                                                         *)
(* TypeCorrect, HoldsTheFile and PlaysTheFile are proved where no handler  *)
(* can interrupt the filling of the ring: in the build with                *)
(* DISABLE_SIGALRM, and in the normal build for a file that fits into the  *)
(* ring (NoRace).  For a longer file in the normal build all three are     *)
(* false of the code: a handler fills the ring between two stores of the   *)
(* main program's own fill, or of its seek.  LoopsAtTheEnd is proved for   *)
(* both builds.                                                            *)
(*                                                                         *)
(* The inductive invariant says for every point inside a fill how much of  *)
(* it has been booked (FillInv) and what the cells hold then (CellInv).    *)
(***************************************************************************)
EXTENDS WavPlay, SequenceTheorems, TLAPS

(* Where a context is inside a fill, and inside a seek out of the ring.    *)
Deep == {"fseek", "size", "fread", "wavebufread", "wavepos"}
Filling == Deep \cup {"fill"}
Booking == {"wavebufread", "wavepos"}
Seeking == {"setpos", "setpos2"}

Locals == [space : 0..BufLen-1, clean : Cells, read : Nat,
           back : {"idle", "mix", "looped?"}, next : {"idle", "fill"}]

(* Nothing interrupts a fill.                                              *)
NoRace == ~Sigalrm \/ ~Streamed

(* Every variable has its type.                                            *)
RingType ==
  /\ wavepos \in 0..WaveLen /\ wavebufpos \in Cells /\ wavebufread \in Cells
  /\ bufloopat \in 0..WaveBufLen \cup {Far}
  /\ cells \in [Cells -> 0..WaveLen-1]
  /\ fpos \in 0..WaveLen /\ valid \in 0..WaveBufLen
FlagType ==
  /\ looped \in BOOLEAN /\ donotloop \in BOOLEAN /\ pause \in BOOLEAN
  /\ active \in BOOLEAN /\ fsLoopMods \in BOOLEAN /\ polling \in BOOLEAN
  /\ ended \in BOOLEAN
DeviceType ==
  clipbusy \in 0..1 /\ queued \in 0..BufLen-1 /\ mixed \in Seq(0..Quiet)
PlaceType == pc \in [Ctx -> Places] /\ loc \in [Ctx -> Locals]

(* timerproc holds clipbusy, alone, and the space it saw is still free.     *)
Holds(c) == pc[c] = "mix" \/ (pc[c] \in Filling /\ loc[c].back = "mix")
BusyInv ==
  /\ \A c \in Ctx : Holds(c) => clipbusy = 1 /\ loc[c].space + queued <= BufLen - 1
  /\ (\A c \in Ctx : ~Holds(c)) => clipbusy = 0
  /\ \A c, d \in Ctx : Holds(c) /\ Holds(d) => c = d
  /\ \A c \in Ctx : pc[c] \in Filling => loc[c].back \in {"mix", "looped?"}

(* Nothing runs but while the player is polled.                            *)
PollInv ==
  /\ ~polling => \A c \in Ctx : pc[c] = "idle"
  /\ active => polling
  /\ pc[Main] \in {"opened", "closing"} => ~active

(* Only a long file is filled or sought in.                                *)
DeepInv == \A c \in Ctx : pc[c] \in Deep \cup Seeking => Streamed

(* The v frames before position p of the file lie in the cells before r.   *)
Shows(r, p, v) ==
  \A d \in 1..v : cells[(r - d) % WaveBufLen] = (p - d) % WaveLen

(* How many frames are valid once n more have been booked; what a fill has *)
(* still to book at each of its steps; and what lies in the ring then.      *)
Held(n) == Least(valid + n, WaveBufLen)
FillInv ==
  LET n == loc[Main].read IN
    /\ wavepos < WaveLen
    /\ pc[Main] \in Deep => loc[Main].clean > 0
    /\ pc[Main] \in {"size", "fread"} => fpos = wavepos
    /\ pc[Main] \in {"fread", "wavebufread", "wavepos"} =>
         n <= loc[Main].clean /\ wavepos + n <= WaveLen
    /\ pc[Main] \in {"fread", "wavebufread"} => wavebufread + n <= WaveBufLen
    /\ pc[Main] \in Booking => n > 0
    /\ pc[Main] \in Seeking => valid = 0
CellInv ==
  LET n == loc[Main].read IN
    /\ pc[Main] = "wavebufread" => Shows(wavebufread + n, wavepos + n, Held(n))
    /\ pc[Main] = "wavepos" => Shows(wavebufread, wavepos + n, Held(n))
    /\ pc[Main] \notin Booking => Shows(wavebufread, wavepos, valid)

(* A file that fits lies in the ring as it is, once it has been opened.    *)
ShortInv ==
  /\ wavebufread = 0
  /\ \/ wavepos = 0 /\ valid = 0 /\ ~polling
     \/ wavepos = WaveLen /\ valid = WaveLen /\ \A i \in Cells : cells[i] = i

FileInv == (Streamed => FillInv /\ CellInv) /\ (~Streamed => ShortInv)

TypeInv == RingType /\ FlagType /\ DeviceType /\ PlaceType
IInv == TypeInv /\ BusyInv /\ PollInv /\ DeepInv /\ FileInv
-----------------------------------------------------------------------------
(* The constants, and the remainders the cursors are computed with.        *)
LEMMA Lengths ==
  /\ WaveLen \in Nat \ {0} /\ WaveBufLen \in Nat \ {0} /\ BufLen \in Nat
  /\ ReadMax \in Nat \ {0} /\ BufLen > 1
  /\ WaveBufLen <= WaveLen /\ (Streamed <=> WaveBufLen < WaveLen)
  /\ Streamed => WaveBufLen > 1
  /\ Far \in Nat
<1>1. /\ WaveLen \in Nat \ {0} /\ RingMax \in Nat \ {0, 1}
      /\ ReadMax \in Nat \ {0} /\ BufLen \in Nat \ {0, 1}
  BY LengthsAssumption
<1>2. QED BY <1>1 DEF WaveBufLen, Streamed, Least, Far

LEMMA Contexts ==
  /\ Ctx \subseteq {0, 1} /\ Main \in Ctx
  /\ NoRace /\ Streamed => Ctx = {Main}
  BY FlagsAssumption DEF Ctx, Main, NoRace

LEMMA Wraps ==
  ASSUME NEW n \in Nat \ {0}, NEW a \in Int, -n <= a, a < 2 * n
  PROVE  a % n = IF a < 0 THEN a + n ELSE IF a < n THEN a ELSE a - n
  OBVIOUS

LEMMA RingWraps ==
  ASSUME NEW a \in Int, -WaveBufLen <= a, a < WaveBufLen + WaveBufLen
  PROVE  a % WaveBufLen = IF a < 0 THEN a + WaveBufLen
                          ELSE IF a < WaveBufLen THEN a ELSE a - WaveBufLen
<1>1. WaveBufLen \in Nat \ {0} /\ a < 2 * WaveBufLen
  BY Lengths
<1>2. QED BY <1>1, Wraps

LEMMA FileWraps ==
  ASSUME NEW a \in Int, -WaveLen <= a, a < WaveLen + WaveLen
  PROVE  a % WaveLen = IF a < 0 THEN a + WaveLen
                       ELSE IF a < WaveLen THEN a ELSE a - WaveLen
<1>1. WaveLen \in Nat \ {0} /\ a < 2 * WaveLen
  BY Lengths
<1>2. QED BY <1>1, Wraps

LEMMA AtEnd ==
  ASSUME NEW n \in Nat \ {0}, NEW e \in 0..n
  PROVE  e % n = IF e = n THEN 0 ELSE e
<1>1. e \in Int /\ -n <= e /\ e < 2 * n /\ n \in Nat \ {0}
  OBVIOUS
<1>2. e % n = IF e < 0 THEN e + n ELSE IF e < n THEN e ELSE e - n
  BY <1>1, Wraps
<1>3. QED BY <1>2

LEMMA BeforeStart ==
  ASSUME NEW n \in Nat \ {0}, NEW d \in 1..n
  PROVE  (0 - d) % n = n - d /\ (n - d) % n = n - d
<1> DEFINE a == 0 - d
           b == n - d
<1>1. /\ n \in Nat \ {0} /\ a \in Int /\ -n <= a /\ a < 2 * n /\ a < 0
      /\ b \in Int /\ -n <= b /\ b < 2 * n /\ 0 <= b /\ b < n /\ a + n = b
  OBVIOUS
<1> HIDE DEF a, b
<1>2. a % n = a + n
  BY <1>1, Wraps
<1>3. b % n = b
  BY <1>1, Wraps
<1>4. (a % n) = b
  BY <1>1, <1>2
<1>5. QED BY <1>3, <1>4 DEF a, b

LEMMA Remainder ==
  ASSUME NEW n \in Nat \ {0}, NEW a \in Int
  PROVE  a % n \in 0..n-1
  OBVIOUS

LEMMA IsSequence ==
  ASSUME NEW S, NEW n \in Nat, NEW f \in [1..n -> S]
  PROVE  f \in Seq(S)
  OBVIOUS

(* Context c goes on to s with the locals l; what such a step keeps.       *)
Moves(c, s, l) ==
  /\ pc' \in [Ctx -> Places] /\ loc' \in [Ctx -> Locals]
  /\ pc'[c] = s /\ loc'[c] = l
  /\ \A d \in Ctx : d # c => pc'[d] = pc[d] /\ loc'[d] = loc[d]

LEMMA Moved ==
  ASSUME PlaceType, NEW c \in Ctx, NEW s \in Places, NEW l \in Locals,
         Goto(c, s), loc' = [loc EXCEPT ![c] = l]
  PROVE  Moves(c, s, l)
  BY DEF PlaceType, Goto, Moves

LEMMA Went ==
  ASSUME PlaceType, NEW c \in Ctx, NEW s \in Places, Goto(c, s), loc' = loc
  PROVE  Moves(c, s, loc[c])
  BY DEF PlaceType, Goto, Moves

LEMMA BusyKept ==
  ASSUME PlaceType, DeviceType, DeviceType', BusyInv,
         NEW c \in Ctx, NEW s \in Places, NEW l \in Locals, Moves(c, s, l),
         clipbusy' = clipbusy, queued' <= queued,
         Holds(c) <=> (s = "mix" \/ (s \in Filling /\ l.back = "mix")),
         l.space = loc[c].space,
         s \in Filling => l.back \in {"mix", "looped?"}
  PROVE  BusyInv'
<1> USE Lengths
<1>1. \A d \in Ctx : Holds(d)' <=> Holds(d)
  BY DEF Moves, Holds
<1>2. \A d \in Ctx : loc'[d].space = loc[d].space /\ loc[d].space \in Nat
  BY DEF Moves, PlaceType, Locals
<1>3. \A d \in Ctx : Holds(d)' =>
        clipbusy' = 1 /\ loc'[d].space + queued' <= BufLen - 1
  BY <1>1, <1>2 DEF BusyInv, DeviceType
<1>4. (\A d \in Ctx : ~Holds(d)') => clipbusy' = 0
  BY <1>1 DEF BusyInv
<1>5. \A d, e \in Ctx : Holds(d)' /\ Holds(e)' => d = e
  BY <1>1 DEF BusyInv
<1>6. \A d \in Ctx : pc'[d] \in Filling => loc'[d].back \in {"mix", "looped?"}
  BY DEF Moves, BusyInv
<1>7. QED BY <1>3, <1>4, <1>5, <1>6 DEF BusyInv

LEMMA BusyStill ==
  ASSUME PlaceType, DeviceType, DeviceType', BusyInv, UNCHANGED <<pc, loc, clipbusy>>,
         queued' <= queued
  PROVE  BusyInv'
<1>1. \A d \in Ctx : Holds(d)' <=> Holds(d)
  BY DEF Holds
<1>2. \A d \in Ctx : loc[d].space \in Nat
  BY Lengths DEF PlaceType, Locals
<1>3. \A d \in Ctx : Holds(d)' =>
        clipbusy' = 1 /\ loc'[d].space + queued' <= BufLen - 1
  BY <1>1, <1>2, Lengths DEF BusyInv, DeviceType
<1>4. (\A d \in Ctx : ~Holds(d)') => clipbusy' = 0
  BY <1>1 DEF BusyInv
<1>5. QED BY <1>1, <1>3, <1>4 DEF BusyInv

LEMMA PollKept ==
  ASSUME PollInv, polling, UNCHANGED <<polling, active>>,
         NEW c \in Ctx, NEW s, NEW l, Moves(c, s, l),
         s \notin {"opened", "closing"}
  PROVE  PollInv'
  BY Contexts DEF PollInv, Moves

LEMMA DeepKept ==
  ASSUME DeepInv, NEW c \in Ctx, NEW s, NEW l, Moves(c, s, l),
         s \in Deep \cup Seeking => Streamed
  PROVE  DeepInv'
  BY DEF DeepInv, Moves

LEMMA FileKept ==
  ASSUME NoRace, FileInv, UNCHANGED <<wavepos, wavebufread, cells, fpos, valid, polling>>,
         NEW c \in Ctx, NEW s, NEW l, Moves(c, s, l),
         s \notin Deep \cup Seeking, pc[c] \notin Booking
  PROVE  FileInv'
<1>1. ASSUME ~Streamed PROVE ShortInv'
  BY <1>1 DEF FileInv, ShortInv
<1>2. ASSUME Streamed PROVE FillInv' /\ CellInv'
  <2>1. c = Main /\ pc'[Main] = s
    BY <1>2, Contexts DEF Moves
  <2>2. FillInv'
    BY <1>2, <2>1 DEF FileInv, FillInv, Deep, Seeking, Booking
  <2>3. CellInv'
    BY <1>2, <2>1 DEF FileInv, CellInv, Deep, Seeking, Booking, Shows
  <2>4. QED BY <2>2, <2>3
<1>3. QED BY <1>1, <1>2 DEF FileInv

LEMMA FileStill ==
  ASSUME FileInv, UNCHANGED <<wavepos, wavebufread, cells, fpos, valid, polling, pc, loc>>
  PROVE  FileInv'
<1>1. ASSUME ~Streamed PROVE ShortInv'
  BY <1>1 DEF FileInv, ShortInv
<1>2. ASSUME Streamed PROVE FillInv'
  BY <1>2 DEF FileInv, FillInv
<1>3. ASSUME Streamed PROVE CellInv'
  BY <1>3 DEF FileInv, CellInv, Shows, Held
<1>4. QED BY <1>1, <1>2, <1>3 DEF FileInv
-----------------------------------------------------------------------------
(* Every step keeps the invariant.                                         *)
LEMMA OpenPlayerStep ==
  ASSUME NoRace, IInv, OpenPlayer, mixed' = <<>>
  PROVE  IInv'
<1> USE Lengths
<1>1. PlaceType /\ DeviceType /\ FlagType /\ RingType
  BY DEF IInv, TypeInv
<1>2. Moves(Main, "opened", loc[Main])
  BY <1>1, Contexts, Went DEF OpenPlayer, Places
<1>3. RingType'
  BY <1>1 DEF OpenPlayer, RingType, Cells
<1>4. FlagType'
  BY <1>1 DEF OpenPlayer, FlagType
<1>5. DeviceType' /\ PlaceType'
  BY <1>1, <1>2 DEF OpenPlayer, DeviceType, PlaceType, Moves
<1>6. BusyInv'
  <2>1. queued' <= queued
    BY <1>1 DEF OpenPlayer, DeviceType
  <2>2. ~Holds(Main)
    BY DEF OpenPlayer, Holds, Filling, Deep
  <2>3. QED
    BY <1>1, <1>2, <1>5, <2>1, <2>2, Contexts, BusyKept
       DEF IInv, OpenPlayer, PlaceType, Places, Filling, Deep
<1>7. PollInv'
  BY DEF IInv, OpenPlayer, PollInv
<1>8. DeepInv'
  BY <1>2, Contexts, DeepKept DEF IInv, Deep, Seeking
<1>9. ASSUME ~Streamed PROVE ShortInv'
  <2>1. WaveBufLen = WaveLen
    BY <1>9
  <2>2. QED BY <2>1 DEF OpenPlayer, ShortInv, Cells
<1>10. ASSUME Streamed PROVE FillInv'
  BY <1>2, <1>10 DEF OpenPlayer, FillInv, Moves, Deep, Booking, Seeking
<1>11. ASSUME Streamed PROVE CellInv'
  <2>1. ASSUME NEW d \in 1..WaveBufLen
        PROVE  cells'[(0 - d) % WaveBufLen] = (WaveBufLen - d) % WaveLen
    <3>1. (0 - d) % WaveBufLen = WaveBufLen - d /\ WaveBufLen - d \in Cells
      <4>1. 0 - d \in Int /\ -WaveBufLen <= 0 - d /\ 0 - d < WaveBufLen + WaveBufLen /\ 0 - d < 0
        OBVIOUS
      <4>2. (0 - d) % WaveBufLen = (0 - d) + WaveBufLen
        BY <4>1, RingWraps
      <4>3. QED BY <4>2 DEF Cells
    <3>2. (WaveBufLen - d) % WaveLen = WaveBufLen - d
      <4> DEFINE a == WaveBufLen - d
      <4>1. a \in Int /\ -WaveLen <= a /\ a < WaveLen + WaveLen /\ 0 <= a /\ a < WaveLen
        OBVIOUS
      <4> HIDE DEF a
      <4>2. a % WaveLen = a
        BY <4>1, FileWraps
      <4>3. QED BY <4>2 DEF a
    <3>3. cells'[WaveBufLen - d] = WaveBufLen - d
      BY <3>1 DEF OpenPlayer, Cells
    <3>4. QED BY Zenon, <3>1, <3>2, <3>3
  <2>2. Shows(wavebufread, wavepos, valid)'
    BY <2>1 DEF Shows, OpenPlayer
  <2>3. QED BY <1>2, <2>2 DEF CellInv, Moves, Booking
<1>12. QED
  BY <1>3, <1>4, <1>5, <1>6, <1>7, <1>8, <1>9, <1>10, <1>11
     DEF IInv, TypeInv, FileInv

LEMMA ActivateStep ==
  ASSUME NoRace, IInv, Activate, mixed' = <<>>
  PROVE  IInv'
<1> USE Lengths
<1>1. PlaceType /\ DeviceType /\ FlagType /\ RingType
  BY DEF IInv, TypeInv
<1>2. Moves(Main, "idle", loc[Main])
  BY <1>1, Contexts, Went DEF Activate, Places
<1>3. RingType' /\ FlagType' /\ DeviceType' /\ PlaceType'
  BY <1>1, <1>2 DEF Activate, ring, RingType, FlagType, DeviceType, PlaceType, Moves
<1>4. BusyInv'
  BY <1>1, <1>2, <1>3, Contexts, BusyKept
     DEF IInv, Activate, PlaceType, DeviceType, Places, Filling, Deep, Holds
<1>5. PollInv'
  BY <1>2, Contexts DEF IInv, Activate, PollInv, Moves
<1>6. DeepInv'
  BY <1>2, Contexts, DeepKept DEF IInv, Deep, Seeking
<1>7. FileInv'
  BY <1>2, Contexts, FileKept DEF IInv, Activate, ring, Deep, Seeking, Booking
<1>8. QED BY <1>3, <1>4, <1>5, <1>6, <1>7 DEF IInv, TypeInv

LEMMA ClosePlayerStep ==
  ASSUME NoRace, IInv, ClosePlayer, mixed' = <<>>
  PROVE  IInv'
<1> USE Lengths
<1>1. PlaceType /\ DeviceType /\ FlagType /\ RingType
  BY DEF IInv, TypeInv
<1>2. Moves(Main, "closing", loc[Main])
  BY <1>1, Contexts, Went DEF ClosePlayer, Places
<1>3. RingType' /\ FlagType' /\ DeviceType' /\ PlaceType'
  <2>1. RingType'
    BY <1>1 DEF ClosePlayer, ring, RingType
  <2>2. FlagType'
    BY <1>1 DEF ClosePlayer, FlagType
  <2>3. DeviceType' /\ PlaceType'
    BY <1>1, <1>2 DEF ClosePlayer, DeviceType, PlaceType, Moves
  <2>4. QED BY <2>1, <2>2, <2>3
<1>4. BusyInv'
  BY <1>1, <1>2, <1>3, Contexts, BusyKept
     DEF IInv, ClosePlayer, PlaceType, DeviceType, Places, Filling, Deep, Holds
<1>5. PollInv'
  BY <1>2, Contexts DEF IInv, ClosePlayer, PollInv, Moves
<1>6. DeepInv'
  BY <1>2, Contexts, DeepKept DEF IInv, Deep, Seeking
<1>7. FileInv'
  BY <1>2, Contexts, FileKept DEF IInv, ClosePlayer, ring, Deep, Seeking, Booking
<1>8. QED BY <1>3, <1>4, <1>5, <1>6, <1>7 DEF IInv, TypeInv

LEMMA PollCloseStep ==
  ASSUME NoRace, IInv, PollClose, mixed' = <<>>
  PROVE  IInv'
<1> USE Lengths
<1>1. PlaceType /\ DeviceType /\ FlagType /\ RingType
  BY DEF IInv, TypeInv
<1>2. Moves(Main, "idle", loc[Main])
  BY <1>1, Contexts, Went DEF PollClose, Places
<1>3. RingType' /\ FlagType' /\ DeviceType' /\ PlaceType'
  <2>1. RingType'
    BY <1>1 DEF PollClose, ring, RingType
  <2>2. FlagType'
    BY <1>1 DEF PollClose, FlagType
  <2>3. DeviceType' /\ PlaceType'
    BY <1>1, <1>2 DEF PollClose, DeviceType, PlaceType, Moves
  <2>4. QED BY <2>1, <2>2, <2>3
<1>4. BusyInv'
  <2>1. queued' <= queued
    BY <1>1 DEF PollClose, DeviceType
  <2>2. QED
    BY <1>1, <1>2, <1>3, <2>1, Contexts, BusyKept
       DEF IInv, PollClose, PlaceType, Places, Filling, Deep, Holds
<1>5. PollInv'
  <2>1. \A d \in Ctx : pc'[d] = "idle"
    BY <1>2, Contexts DEF PollClose, Moves, Runs, Main
  <2>2. QED BY <1>2, <2>1, Contexts DEF IInv, PollClose, PollInv
<1>6. DeepInv'
  BY <1>2, Contexts, DeepKept DEF IInv, Deep, Seeking
<1>7. FileInv'
  <2>1. ASSUME ~Streamed PROVE ShortInv'
    BY <2>1 DEF IInv, FileInv, ShortInv, PollClose, ring
  <2>2. ASSUME Streamed PROVE FillInv'
    BY <1>2, <2>2
       DEF IInv, FileInv, FillInv, PollClose, ring, Moves, Deep, Seeking, Booking
  <2>3. ASSUME Streamed PROVE CellInv'
    BY <1>2, <2>3
       DEF IInv, FileInv, CellInv, Shows, PollClose, ring, Moves, Booking
  <2>4. QED BY <2>1, <2>2, <2>3 DEF FileInv
<1>8. QED BY <1>3, <1>4, <1>5, <1>6, <1>7 DEF IInv, TypeInv

LEMMA BeginStep ==
  ASSUME NoRace, IInv, polling, NEW c \in Ctx, NEW next \in {"idle", "fill"},
         pc[c] \in {"idle", "wpIdle"}, BeginTimerProc(c, next),
         mixed' = <<>>, UNCHANGED <<ring, flags, queued, ended>>
  PROVE  IInv'
<1> USE Lengths
<1>1. PlaceType /\ DeviceType /\ FlagType /\ RingType
  BY DEF IInv, TypeInv
<1> DEFINE l == [NoLocals EXCEPT !.space = Space, !.back = "mix", !.next = next]
<1>2. Space \in 0..BufLen-1 /\ Space + queued <= BufLen - 1
  BY <1>1 DEF BeginTimerProc, DeviceType, Space
<1>3. l \in Locals /\ l.space = Space /\ l.back = "mix"
  <2>1. NoLocals \in Locals
    BY DEF Locals, NoLocals, Cells
  <2>2. QED BY <1>2, <2>1 DEF Locals
<1>4. Moves(c, "fill", l)
  BY <1>1, <1>3, Moved DEF BeginTimerProc, Places
<1> HIDE DEF l
<1>5. clipbusy = 0 /\ clipbusy' = 1 /\ queued' = queued
  BY DEF BeginTimerProc, Guard
<1>6. RingType' /\ FlagType' /\ DeviceType' /\ PlaceType'
  BY <1>1, <1>4, <1>5 DEF ring, flags, RingType, FlagType, DeviceType, PlaceType, Moves
<1>7. BusyInv'
  <2>1. \A d \in Ctx : ~Holds(d)
    BY <1>5 DEF IInv, BusyInv
  <2>2. \A d \in Ctx : Holds(d)' <=> d = c
    BY <1>3, <1>4, <2>1 DEF Holds, Moves, Filling
  <2>3. loc'[c].space + queued' <= BufLen - 1
    BY <1>2, <1>3, <1>4, <1>5 DEF Moves
  <2>4. \A d \in Ctx : pc'[d] \in Filling => loc'[d].back \in {"mix", "looped?"}
    BY <1>3, <1>4 DEF IInv, BusyInv, Moves
  <2>5. QED BY <1>5, <2>2, <2>3, <2>4 DEF BusyInv
<1>8. PollInv'
  BY <1>4, PollKept DEF IInv, flags
<1>9. DeepInv'
  BY <1>4, DeepKept DEF IInv, Deep, Seeking
<1>10. FileInv'
  BY <1>4, FileKept DEF IInv, ring, flags, Deep, Seeking, Booking
<1>11. QED BY <1>6, <1>7, <1>8, <1>9, <1>10 DEF IInv, TypeInv

LEMMA TimerProcStep ==
  ASSUME NoRace, IInv, NEW c \in Ctx, TimerProc(c), mixed' = <<>>
  PROVE  IInv'
  BY BeginStep DEF TimerProc

LEMMA WavLoopedStep ==
  ASSUME NoRace, IInv, WavLooped, mixed' = <<>>
  PROVE  IInv'
<1> USE Lengths
<1>1. PlaceType /\ DeviceType /\ FlagType /\ RingType
  BY DEF IInv, TypeInv
<1>2. Moves(Main, "wpIdle", loc[Main])
  BY <1>1, Contexts, Went DEF WavLooped, Places
<1>3. RingType' /\ FlagType' /\ DeviceType' /\ PlaceType'
  BY <1>1, <1>2 DEF WavLooped, ring, RingType, FlagType, DeviceType, PlaceType, Moves
<1>4. BusyInv'
  BY <1>1, <1>2, <1>3, Contexts, BusyKept
     DEF IInv, WavLooped, PlaceType, DeviceType, Places, Filling, Deep, Holds
<1>5. PollInv'
  BY <1>2, Contexts DEF IInv, WavLooped, PollInv, Moves
<1>6. DeepInv'
  BY <1>2, Contexts, DeepKept DEF IInv, Deep, Seeking
<1>7. FileInv'
  BY <1>2, Contexts, FileKept DEF IInv, WavLooped, ring, Deep, Seeking, Booking
<1>8. QED BY <1>3, <1>4, <1>5, <1>6, <1>7 DEF IInv, TypeInv

LEMMA WpIdleStep ==
  ASSUME NoRace, IInv, WpIdle, mixed' = <<>>
  PROVE  IInv'
<1> USE Lengths
<1>1. PlaceType /\ DeviceType /\ FlagType /\ RingType
  BY DEF IInv, TypeInv
<1>2. polling
  BY Contexts DEF IInv, PollInv, WpIdle
<1>3. CASE BeginTimerProc(Main, "fill")
  BY <1>2, <1>3, Contexts, BeginStep DEF WpIdle
<1>4. CASE /\ Goto(Main, "fill") /\ UNCHANGED clipbusy
           /\ loc' = [loc EXCEPT ![Main] = [NoLocals EXCEPT !.back = "looped?"]]
  <2> DEFINE l == [NoLocals EXCEPT !.back = "looped?"]
  <2>1. l \in Locals /\ l.back = "looped?" /\ l.space = 0
    BY DEF Locals, NoLocals, Cells
  <2>2. Moves(Main, "fill", l)
    BY <1>1, <1>4, <2>1, Contexts, Moved DEF Places
  <2> HIDE DEF l
  <2>3. RingType' /\ FlagType' /\ DeviceType' /\ PlaceType'
    BY <1>1, <1>4, <2>2
       DEF WpIdle, ring, flags, RingType, FlagType, DeviceType, PlaceType, Moves
  <2>4. BusyInv'
    <3>1. ~Holds(Main)
      BY DEF WpIdle, Holds, Filling, Deep
    <3>2. \A d \in Ctx : Holds(d)' <=> Holds(d)
      BY <2>1, <2>2, <3>1 DEF Holds, Moves, Filling
    <3>3. \A d \in Ctx : Holds(d)' => clipbusy' = 1 /\ loc'[d].space + queued' <= BufLen - 1
      BY <1>4, <2>2, <3>1, <3>2 DEF IInv, BusyInv, WpIdle, Moves
    <3>4. (\A d \in Ctx : ~Holds(d)') => clipbusy' = 0
      BY <1>4, <3>2 DEF IInv, BusyInv
    <3>5. \A d \in Ctx : pc'[d] \in Filling => loc'[d].back \in {"mix", "looped?"}
      BY <2>1, <2>2 DEF IInv, BusyInv, Moves
    <3>6. QED BY <3>2, <3>3, <3>4, <3>5 DEF IInv, BusyInv
  <2>5. PollInv'
    BY <1>2, <2>2, Contexts, PollKept DEF IInv, WpIdle, flags
  <2>6. DeepInv'
    BY <2>2, Contexts, DeepKept DEF IInv, Deep, Seeking
  <2>7. FileInv'
    BY <2>2, Contexts, FileKept DEF IInv, WpIdle, ring, flags, Deep, Seeking, Booking
  <2>8. QED BY <2>3, <2>4, <2>5, <2>6, <2>7 DEF IInv, TypeInv
<1>5. QED BY <1>3, <1>4 DEF WpIdle

LEMMA IsEndStep ==
  ASSUME NoRace, IInv, IsEnd, mixed' = <<>>
  PROVE  IInv'
<1> USE Lengths
<1>1. PlaceType /\ DeviceType /\ FlagType /\ RingType
  BY DEF IInv, TypeInv
<1>2. NoLocals \in Locals /\ NoLocals.space = 0
  BY DEF Locals, NoLocals, Cells
<1>3. PICK s \in {"next", "idle"} : Moves(Main, s, NoLocals)
  <2>1. CASE ~fsLoopMods /\ looped
    <3>1. Goto(Main, "next")  BY <2>1 DEF IsEnd
    <3>2. QED BY <1>1, <1>2, <3>1, Contexts, Moved DEF IsEnd, Places
  <2>2. CASE ~(~fsLoopMods /\ looped)
    <3>1. Goto(Main, "idle")  BY <2>2 DEF IsEnd
    <3>2. QED BY <1>1, <1>2, <3>1, Contexts, Moved DEF IsEnd, Places
  <2>3. QED BY <2>1, <2>2
<1>4. RingType' /\ FlagType' /\ DeviceType' /\ PlaceType'
  BY <1>1, <1>3 DEF IsEnd, ring, flags, RingType, FlagType, DeviceType, PlaceType, Moves
<1>5. BusyInv'
  <2>1. ~Holds(Main)
    BY DEF IsEnd, Holds, Filling, Deep
  <2>2. \A d \in Ctx : Holds(d)' <=> Holds(d)
    BY <1>3, <2>1 DEF Holds, Moves, Filling, Deep
  <2>3. \A d \in Ctx : Holds(d)' => clipbusy' = 1 /\ loc'[d].space + queued' <= BufLen - 1
    BY <1>3, <2>1, <2>2 DEF IInv, BusyInv, IsEnd, Moves
  <2>4. (\A d \in Ctx : ~Holds(d)') => clipbusy' = 0
    BY <2>2 DEF IInv, BusyInv, IsEnd
  <2>5. \A d \in Ctx : pc'[d] \in Filling => loc'[d].back \in {"mix", "looped?"}
    BY <1>3 DEF IInv, BusyInv, Moves, Filling, Deep
  <2>6. QED BY <2>2, <2>3, <2>4, <2>5 DEF IInv, BusyInv
<1>6. PollInv'
  <2>1. polling
    BY Contexts DEF IInv, PollInv, IsEnd
  <2>2. QED BY <1>3, <2>1, Contexts, PollKept DEF IInv, IsEnd, flags
<1>7. DeepInv'
  BY <1>3, Contexts, DeepKept DEF IInv, Deep, Seeking
<1>8. FileInv'
  BY <1>3, Contexts, FileKept DEF IInv, IsEnd, ring, flags, Deep, Seeking, Booking
<1>9. QED BY <1>4, <1>5, <1>6, <1>7, <1>8 DEF IInv, TypeInv
-----------------------------------------------------------------------------
LEMMA FillStart ==
  ASSUME NoRace, IInv, NEW c \in Ctx, Fill(c), mixed' = <<>>
  PROVE  IInv'
<1> USE Lengths
<1>1. PlaceType /\ DeviceType /\ FlagType /\ RingType
  BY DEF IInv, TypeInv
<1>2. loc[c] \in Locals /\ loc[c].back \in {"mix", "looped?"} /\ pc[c] = "fill"
  BY <1>1 DEF IInv, PlaceType, BusyInv, Fill, Filling
<1>3. polling
  BY <1>2 DEF IInv, PollInv
<1>4. Clean \in Cells
  <2>1. (wavebufpos + WaveBufLen) - wavebufread \in Int
    BY <1>1 DEF RingType, Cells
  <2>2. Clean = ((wavebufpos + WaveBufLen) - wavebufread) % WaveBufLen
    BY <1>1 DEF RingType, Cells, Clean
  <2>3. QED BY <2>1, <2>2, Remainder DEF Cells
<1> DEFINE wanted == Streamed /\ active /\ Clean * 8 > WaveBufLen
<1>5. RingType' /\ FlagType' /\ DeviceType'
  BY <1>1 DEF Fill, ring, flags, RingType, FlagType, DeviceType
<1>6. CASE wanted
  <2> DEFINE l == [loc[c] EXCEPT !.clean = Clean]
  <2>1. l \in Locals /\ l.clean = Clean /\ l.back = loc[c].back /\ l.space = loc[c].space
    BY <1>2, <1>4 DEF Locals
  <2>2. loc' = [loc EXCEPT ![c] = l] /\ Goto(c, "fseek")
    BY <1>6 DEF Fill
  <2>3. Moves(c, "fseek", l)
    BY <1>1, <2>1, <2>2, Moved DEF Places
  <2> HIDE DEF l
  <2>4. BusyInv'
    BY <1>1, <1>2, <1>5, <2>1, <2>3, BusyKept
       DEF IInv, Fill, DeviceType, Places, Filling, Deep, Holds
  <2>5. PollInv'
    BY <1>3, <2>3, PollKept DEF IInv, Fill, flags
  <2>6. DeepInv'
    BY <1>6, <2>3, DeepKept DEF IInv
  <2>7. c = Main /\ Streamed
    BY <1>6, Contexts
  <2>8. FillInv'
    <3>1. Clean > 0
      BY <1>4, <1>6 DEF Cells
    <3>2. QED
      BY <2>1, <2>3, <2>7, <3>1
         DEF IInv, FileInv, FillInv, Fill, ring, Moves, Deep, Booking, Seeking
  <2>9. CellInv'
    BY <1>2, <2>3, <2>7 DEF IInv, FileInv, CellInv, Shows, Fill, ring, Moves, Booking
  <2>10. QED
    BY <1>5, <2>3, <2>4, <2>5, <2>6, <2>7, <2>8, <2>9
       DEF IInv, TypeInv, FileInv, PlaceType, Moves
<1>7. CASE ~wanted
  <2> DEFINE l == [loc[c] EXCEPT !.clean = 0]
  <2>1. l \in Locals /\ l.back = loc[c].back /\ l.space = loc[c].space
    BY <1>2 DEF Locals, Cells
  <2>2. loc' = [loc EXCEPT ![c] = l] /\ Goto(c, loc[c].back)
    BY <1>7 DEF Fill
  <2>3. Moves(c, loc[c].back, l)
    BY <1>1, <1>2, <2>1, <2>2, Moved DEF Places
  <2> HIDE DEF l
  <2>4. BusyInv'
    BY <1>1, <1>2, <1>5, <2>1, <2>3, BusyKept
       DEF IInv, Fill, DeviceType, Places, Filling, Deep, Holds
  <2>5. PollInv'
    BY <1>2, <1>3, <2>3, PollKept DEF IInv, Fill, flags
  <2>6. DeepInv'
    BY <1>2, <2>3, DeepKept DEF IInv, Deep, Seeking
  <2>7. FileInv'
    BY <1>2, <2>3, FileKept DEF IInv, Fill, ring, flags, Deep, Booking, Seeking
  <2>8. QED
    BY <1>5, <2>3, <2>4, <2>5, <2>6, <2>7 DEF IInv, TypeInv, PlaceType, Moves
<1>8. QED BY <1>6, <1>7

(* A step of a fill, which only the main program takes, on a long file.    *)
LEMMA DeepStep ==
  ASSUME NoRace, IInv, NEW c \in Ctx, pc[c] \in Deep,
         NEW s \in Deep \cup {"mix", "looped?"}, s \in Deep \/ s = loc[c].back,
         NEW l \in Locals, l.back = loc[c].back, l.space = loc[c].space,
         Moves(c, s, l), mixed' = <<>>, UNCHANGED <<flags, clipbusy, queued, ended>>
  PROVE  /\ FlagType' /\ DeviceType' /\ PlaceType'
         /\ BusyInv' /\ PollInv' /\ DeepInv'
<1> USE Lengths
<1>1. PlaceType /\ DeviceType /\ FlagType
  BY DEF IInv, TypeInv
<1>2. loc[c].back \in {"mix", "looped?"} /\ polling /\ Streamed
  BY DEF IInv, PlaceType, BusyInv, PollInv, DeepInv, Filling, Deep
<1>3. FlagType' /\ DeviceType' /\ PlaceType'
  BY <1>1 DEF flags, FlagType, DeviceType, PlaceType, Moves
<1>4. BusyInv'
  <2>1. s \in Places
    BY DEF Places, Deep
  <2>2. Holds(c) <=> (s = "mix" \/ (s \in Filling /\ l.back = "mix"))
    BY <1>2 DEF Holds, Filling, Deep
  <2>3. QED BY <1>1, <1>2, <1>3, <2>1, <2>2, BusyKept DEF IInv, DeviceType
<1>5. PollInv'
  BY <1>2, PollKept DEF IInv, flags, Deep
<1>6. DeepInv'
  BY <1>2, DeepKept DEF IInv
<1>7. QED BY <1>3, <1>4, <1>5, <1>6

LEMMA DeepMain ==
  ASSUME NoRace, IInv, NEW c \in Ctx, pc[c] \in Deep
  PROVE  c = Main /\ Streamed /\ FillInv /\ CellInv /\ loc[c] \in Locals
  BY Contexts DEF IInv, DeepInv, FileInv, TypeInv, PlaceType

LEMMA FillSeekStep ==
  ASSUME NoRace, IInv, NEW c \in Ctx, FillSeek(c), mixed' = <<>>
  PROVE  IInv'
<1> USE Lengths
<1>1. PlaceType /\ RingType /\ loc[c] \in Locals /\ pc[c] = "fseek" /\ pc[c] \in Deep
  BY DEF IInv, TypeInv, PlaceType, FillSeek, Deep
<1>2. Moves(c, "size", loc[c])
  BY <1>1, Went DEF FillSeek, Places
<1>3. FlagType' /\ DeviceType' /\ PlaceType' /\ BusyInv' /\ PollInv' /\ DeepInv'
  BY <1>1, <1>2, DeepStep DEF FillSeek, Deep
<1>4. RingType'
  BY <1>1 DEF RingType, FillSeek
<1>5. FillInv'
  BY <1>1, <1>2, DeepMain
     DEF FillInv, FillSeek, Moves, Deep, Booking, Seeking
<1>6. CellInv'
  BY <1>1, <1>2, DeepMain DEF CellInv, Shows, FillSeek, Moves, Booking
<1>7. QED BY <1>1, <1>3, <1>4, <1>5, <1>6, DeepMain DEF IInv, TypeInv, FileInv

LEMMA FillSizeStep ==
  ASSUME NoRace, IInv, NEW c \in Ctx, FillSize(c), mixed' = <<>>
  PROVE  IInv'
<1> USE Lengths
<1>1. PlaceType /\ RingType /\ loc[c] \in Locals /\ pc[c] = "size" /\ pc[c] \in Deep
  BY DEF IInv, TypeInv, PlaceType, FillSize, Deep
<1>2. c = Main /\ Streamed /\ FillInv /\ CellInv
  BY <1>1, DeepMain
<1> DEFINE n == ToRingEnd(loc[c].clean)
           last == wavepos + n >= WaveLen
           read == IF last THEN WaveLen - wavepos ELSE n
           r == Least(read, ReadMax)
           l == [loc[c] EXCEPT !.read = r]
<1>3. /\ loc[c].clean \in Cells /\ loc[c].clean > 0 /\ wavepos < WaveLen
      /\ wavepos \in Nat /\ wavebufread \in Cells
  BY <1>1, <1>2 DEF FillInv, Locals, RingType, Deep
<1>4. n \in Nat /\ n > 0 /\ n <= loc[c].clean /\ wavebufread + n <= WaveBufLen
  BY <1>3 DEF ToRingEnd, Least, Cells
<1> HIDE DEF n
<1>5. read \in Nat /\ read > 0 /\ read <= n /\ wavepos + read <= WaveLen
  BY <1>3, <1>4
<1>6. bufloopat' = IF last THEN wavebufread + read ELSE bufloopat
  BY DEF FillSize, n
<1>7. loc' = [loc EXCEPT ![c] = l]
  BY DEF FillSize, n
<1>8. RingType'
  <2>1. wavebufread + read \in 0..WaveBufLen
    BY <1>3, <1>4, <1>5 DEF Cells
  <2>2. bufloopat' \in 0..WaveBufLen \cup {Far}
    BY <1>1, <1>6, <2>1 DEF RingType
  <2>3. QED BY <1>1, <2>2 DEF RingType, FillSize
<1> HIDE DEF read
<1>9. r \in Nat /\ r > 0 /\ r <= read
  BY <1>5 DEF Least
<1> HIDE DEF r
<1>10. l \in Locals /\ l.read = r /\ l.clean = loc[c].clean /\ l.back = loc[c].back
       /\ l.space = loc[c].space
  BY <1>1, <1>9 DEF Locals
<1>11. Moves(c, "fread", l)
  BY <1>1, <1>7, <1>10, Moved DEF FillSize, Places
<1> HIDE DEF l
<1>12. FlagType' /\ DeviceType' /\ PlaceType' /\ BusyInv' /\ PollInv' /\ DeepInv'
  BY <1>1, <1>10, <1>11, DeepStep DEF FillSize, Deep
<1>13. FillInv'
  <2>1. r <= loc[c].clean /\ wavepos + r <= WaveLen /\ wavebufread + r <= WaveBufLen
    BY <1>3, <1>4, <1>5, <1>9 DEF Cells
  <2>2. QED
    BY <1>1, <1>2, <1>10, <1>11, <2>1
       DEF FillInv, FillSize, Moves, Deep, Booking, Seeking
<1>14. CellInv'
  BY <1>1, <1>2, <1>11 DEF CellInv, Shows, FillSize, Moves, Booking
<1>15. QED BY <1>2, <1>8, <1>12, <1>13, <1>14 DEF IInv, TypeInv, FileInv

LEMMA FillBufReadStep ==
  ASSUME NoRace, IInv, NEW c \in Ctx, FillBufRead(c), mixed' = <<>>
  PROVE  IInv'
<1> USE Lengths
<1>1. /\ PlaceType /\ RingType /\ loc[c] \in Locals
      /\ pc[c] = "wavebufread" /\ pc[c] \in Deep
  BY DEF IInv, TypeInv, PlaceType, FillBufRead, Deep
<1>2. c = Main /\ Streamed /\ FillInv /\ CellInv
  BY <1>1, DeepMain
<1>3. Moves(c, "wavepos", loc[c])
  BY <1>1, Went DEF FillBufRead, Places
<1>4. FlagType' /\ DeviceType' /\ PlaceType' /\ BusyInv' /\ PollInv' /\ DeepInv'
  BY <1>1, <1>3, DeepStep DEF FillBufRead, Deep
<1>5. /\ loc[Main].read \in Nat /\ loc[Main].read > 0
      /\ wavebufread + loc[Main].read <= WaveBufLen
      /\ wavebufread + loc[Main].read \in Nat
  <2>1. loc[Main].read \in Nat /\ wavebufread \in Nat
    BY <1>1, <1>2 DEF Locals, RingType, Cells
  <2>2. loc[Main].read > 0 /\ wavebufread + loc[Main].read <= WaveBufLen
    BY <1>1, <1>2 DEF FillInv, Booking
  <2>3. QED BY <2>1, <2>2
<1> DEFINE n == loc[Main].read
           end == wavebufread + n
<1>6. wavebufread' = (wavebufread + n) % WaveBufLen
  BY <1>2 DEF FillBufRead
<1> HIDE DEF n
<1>7. wavebufread' = end % WaveBufLen
  BY <1>6
<1> HIDE DEF end
<1>8. end % WaveBufLen = IF end = WaveBufLen THEN 0 ELSE end
  <2>1. end \in 0..WaveBufLen /\ WaveBufLen \in Nat \ {0}
    BY <1>5 DEF n, end
  <2>2. QED BY <2>1, AtEnd
<1>9. wavebufread' \in Cells
  BY <1>5, <1>7, <1>8 DEF Cells
<1>10. RingType'
  BY <1>1, <1>9 DEF RingType, FillBufRead
<1>11. FillInv'
  BY <1>1, <1>2, <1>3 DEF FillInv, FillBufRead, Moves, Deep, Booking, Seeking
<1>12. CellInv'
  <2>1. Held(n) \in Nat /\ Held(n) <= WaveBufLen
    BY <1>1, <1>5 DEF Held, Least, RingType, n
  <2>2. Shows(end, wavepos + n, Held(n))
    BY <1>1, <1>2 DEF CellInv, n, end
  <2>3. ASSUME NEW d \in 1..Held(n)
        PROVE  (wavebufread' - d) % WaveBufLen = (end - d) % WaveBufLen
    <3>1. d \in Nat /\ d >= 1 /\ d <= WaveBufLen
      BY <2>1
    <3>2. CASE end # WaveBufLen
      BY <1>7, <1>8, <3>2
    <3>3. CASE end = WaveBufLen
      <4>1. d \in 1..WaveBufLen /\ WaveBufLen \in Nat \ {0}
        BY <3>1
      <4>2. (0 - d) % WaveBufLen = (WaveBufLen - d) % WaveBufLen
        BY <4>1, BeforeStart
      <4>3. QED BY <1>7, <1>8, <3>3, <4>2
    <3>4. QED BY <3>2, <3>3
  <2>4. ASSUME NEW d \in 1..Held(n)
        PROVE  cells[(wavebufread' - d) % WaveBufLen] = ((wavepos + n) - d) % WaveLen
    BY Zenon, <2>2, <2>3 DEF Shows
  <2>5. loc'[Main].read = n /\ valid' = valid /\ wavepos' = wavepos /\ cells' = cells
    BY <1>2, <1>3 DEF FillBufRead, Moves, n
  <2>6. Shows(wavebufread, wavepos + loc[Main].read, Held(loc[Main].read))'
    BY <2>4, <2>5 DEF Shows, Held
  <2>7. QED
    BY <1>2, <1>3, <2>6 DEF CellInv, Moves, Booking
<1>13. QED BY <1>2, <1>4, <1>10, <1>11, <1>12 DEF IInv, TypeInv, FileInv
-----------------------------------------------------------------------------
LEMMA FillReadStep ==
  ASSUME NoRace, IInv, NEW c \in Ctx, FillRead(c), mixed' = <<>>
  PROVE  IInv'
<1> USE Lengths
<1>1. /\ PlaceType /\ RingType /\ loc[c] \in Locals
      /\ pc[c] = "fread" /\ pc[c] \in Deep /\ loc[c].back \in {"mix", "looped?"}
  BY DEF IInv, TypeInv, PlaceType, FillRead, Deep, BusyInv, Filling
<1>2. c = Main /\ Streamed /\ FillInv /\ CellInv
  BY <1>1, DeepMain
<1>3. /\ loc[c].read \in Nat /\ loc[c].read <= loc[c].clean /\ fpos = wavepos
      /\ wavepos + loc[c].read <= WaveLen /\ wavebufread + loc[c].read <= WaveBufLen
      /\ loc[c].clean > 0 /\ loc[c].clean \in Cells
      /\ wavepos \in Nat /\ wavepos < WaveLen /\ wavebufread \in Cells
      /\ cells \in [Cells -> 0..WaveLen-1] /\ valid \in 0..WaveBufLen
  BY <1>1, <1>2 DEF FillInv, Locals, RingType, Deep
<1> DEFINE Reads(result) ==
             /\ cells' = [i \in 0..WaveBufLen-1 |->
                            IF i \in wavebufread..(wavebufread + result - 1)
                              THEN (fpos + i - wavebufread) % WaveLen ELSE cells[i]]
             /\ fpos' = fpos + result
             /\ loc' = [loc EXCEPT ![c].read = result,
                                   ![c].clean = IF result = 0 THEN 0 ELSE @]
             /\ Goto(c, IF result = 0 THEN loc[c].back ELSE "wavebufread")
<1>4. PICK result \in Nat : result <= loc[c].read /\ Reads(result)
  <2>1. (IF IoErrors THEN 0..loc[c].read ELSE {loc[c].read}) \subseteq 0..loc[c].read
    BY <1>3
  <2>2. PICK r \in IF IoErrors THEN 0..loc[c].read ELSE {loc[c].read} : Reads(r)
    BY DEF FillRead
  <2>3. r \in Nat /\ r <= loc[c].read
    BY <1>3, <2>1
  <2> HIDE DEF Reads
  <2>4. QED BY Zenon, <2>2, <2>3
<1>17. result <= loc[c].read /\ fpos' = fpos + result
  BY <1>4
<1>18. /\ cells' = [i \in Cells |->
                    IF i \in wavebufread..(wavebufread + result - 1)
                      THEN (fpos + i - wavebufread) % WaveLen ELSE cells[i]]
       /\ loc' = [loc EXCEPT ![c].read = result,
                             ![c].clean = IF result = 0 THEN 0 ELSE @]
       /\ Goto(c, IF result = 0 THEN loc[c].back ELSE "wavebufread")
  BY <1>4 DEF Cells
<1> HIDE DEF Reads
<1>19. /\ result <= loc[c].clean
       /\ wavepos + result <= WaveLen /\ wavebufread + result <= WaveBufLen
       /\ wavebufread \in Nat /\ wavebufread < WaveBufLen /\ fpos' \in 0..WaveLen
  <2>1. /\ loc[c].read \in Nat /\ loc[c].clean \in Nat /\ wavepos \in Nat
        /\ wavebufread \in Nat /\ wavebufread < WaveBufLen
    BY <1>3 DEF Cells
  <2>2. /\ result <= loc[c].read /\ loc[c].read <= loc[c].clean
        /\ wavepos + loc[c].read <= WaveLen /\ wavebufread + loc[c].read <= WaveBufLen
        /\ fpos' = wavepos + result
    BY <1>3, <1>17
  <2>3. QED BY <2>1, <2>2
<1> DEFINE clean == IF result = 0 THEN 0 ELSE loc[c].clean
           s == IF result = 0 THEN loc[c].back ELSE "wavebufread"
           l == [[loc[c] EXCEPT !.read = result] EXCEPT !.clean = clean]
<1>5. clean \in Cells
  BY <1>3 DEF Cells
<1>6. loc' = [loc EXCEPT ![c] = l]
  BY <1>1, <1>18 DEF PlaceType, Locals
<1>7. l \in Locals /\ l.read = result /\ l.clean = clean /\ l.back = loc[c].back
      /\ l.space = loc[c].space
  BY <1>1, <1>4, <1>5 DEF Locals
<1> HIDE DEF l
<1>8. Moves(c, s, l)
  <2>1. s \in Places
    BY <1>1 DEF Places
  <2>2. Goto(c, s)
    BY <1>18
  <2> HIDE DEF s
  <2>3. QED BY <1>1, <1>6, <1>7, <2>1, <2>2, Moved
<1>9. FlagType' /\ DeviceType' /\ PlaceType' /\ BusyInv' /\ PollInv' /\ DeepInv'
  BY <1>1, <1>7, <1>8, DeepStep DEF FillRead, Deep
<1>10. ASSUME NEW i \in Cells
       PROVE  cells'[i] = IF wavebufread <= i /\ i < wavebufread + result
                            THEN (wavepos + (i - wavebufread)) % WaveLen ELSE cells[i]
  <2>1. i \in Int /\ wavebufread \in Int /\ result \in Int
    BY <1>3 DEF Cells
  <2>2. i \in wavebufread..(wavebufread + result - 1) <=>
          wavebufread <= i /\ i < wavebufread + result
    BY <2>1
  <2>3. cells'[i] = IF i \in wavebufread..(wavebufread + result - 1)
                      THEN (fpos + i - wavebufread) % WaveLen ELSE cells[i]
    BY <1>18
  <2>4. fpos + i - wavebufread = wavepos + (i - wavebufread)
    BY <1>3, <2>1
  <2>5. QED BY Zenon, <2>2, <2>3, <2>4
<1>11. cells' \in [Cells -> 0..WaveLen-1]
  <2>1. \A i \in Cells : cells'[i] \in 0..WaveLen-1
    <3>1. ASSUME NEW i \in Cells PROVE (wavepos + (i - wavebufread)) % WaveLen \in 0..WaveLen-1
      <4>1. wavepos + (i - wavebufread) \in Int
        BY <1>3 DEF Cells
      <4>2. QED BY <4>1, Remainder
    <3>2. QED BY <1>3, <1>10, <3>1
  <2>2. \E f : cells' = [i \in Cells |-> f[i]]
    <3>1. cells' = [i \in Cells |-> cells'[i]]
      BY <1>18 DEF Cells
    <3>2. QED BY <3>1
  <2>3. QED BY <2>1, <2>2
<1>12. RingType'
  BY <1>1, <1>11, <1>19 DEF RingType, FillRead
<1>13. FillInv'
  <2>1. pc'[Main] = s /\ loc'[Main].read = result /\ loc'[Main].clean = clean
    BY <1>2, <1>7, <1>8 DEF Moves
  <2>2. wavepos' = wavepos /\ wavebufread' = wavebufread
    BY DEF FillRead
  <2>3. CASE result = 0
    <3>1. pc'[Main] \in {"mix", "looped?"}
      BY <1>1, <2>1, <2>3
    <3>2. QED BY <1>3, <2>2, <3>1 DEF FillInv, Deep, Booking, Seeking
  <2>4. CASE result # 0
    <3>1. pc'[Main] = "wavebufread" /\ loc'[Main].clean = loc[c].clean
      BY <2>1, <2>4
    <3>2. result > 0
      BY <2>4
    <3>3. QED
      BY <1>3, <1>19, <2>1, <2>2, <3>1, <3>2 DEF FillInv, Deep, Booking, Seeking
  <2>5. QED BY <2>3, <2>4
<1>14. CASE result = 0
  <2>1. \A i \in Cells : cells'[i] = cells[i]
    <3>1. \A i \in Cells : i \in Nat /\ ~(wavebufread <= i /\ i < wavebufread + result)
      BY <1>14, <1>19 DEF Cells
    <3>2. QED BY Zenon, <1>10, <3>1
  <2>2. \A d \in Nat : (wavebufread - d) % WaveBufLen \in Cells
    <3>1. \A d \in Nat : wavebufread - d \in Int
      BY <1>3 DEF Cells
    <3>2. QED BY <3>1, Remainder DEF Cells
  <2>3. Shows(wavebufread, wavepos, valid)
    BY <1>1, <1>2 DEF CellInv, Booking
  <2>4. Shows(wavebufread, wavepos, valid)'
    <3>1. ASSUME NEW d \in 1..valid
          PROVE  cells'[(wavebufread - d) % WaveBufLen] = (wavepos - d) % WaveLen
      <4>1. cells[(wavebufread - d) % WaveBufLen] = (wavepos - d) % WaveLen
        BY <2>3 DEF Shows
      <4>2. (wavebufread - d) % WaveBufLen \in Cells
        BY <1>3, <2>2
      <4>3. QED BY Zenon, <2>1, <4>1, <4>2
    <3>2. wavebufread' = wavebufread /\ wavepos' = wavepos /\ valid' = valid
      BY DEF FillRead
    <3>3. QED BY <3>1, <3>2 DEF Shows
  <2>5. pc'[Main] \notin Booking
    BY <1>1, <1>2, <1>8, <1>14 DEF Moves, Booking
  <2>6. QED BY <1>2, <1>9, <1>12, <1>13, <2>4, <2>5
               DEF IInv, TypeInv, FileInv, CellInv, Booking
<1>15. CASE result # 0
  <2>1. loc'[Main].read = result /\ pc'[Main] = "wavebufread"
    BY <1>2, <1>7, <1>8, <1>15 DEF Moves
  <2> DEFINE v == Held(result)
             r == wavebufread
             p == wavepos
  <2>2. v \in Nat /\ v <= WaveBufLen /\ v <= valid + result
    BY <1>3 DEF Held, Least
  <2> HIDE DEF v, r, p
  <2>3. ASSUME NEW d \in 1..v
        PROVE  cells'[((r + result) - d) % WaveBufLen] = ((p + result) - d) % WaveLen
    <3>1. d \in Nat /\ 1 <= d /\ d <= WaveBufLen /\ d <= valid + result
      BY <1>3, <2>2
    <3>2. r \in Nat /\ r < WaveBufLen /\ r + result <= WaveBufLen /\ result \in Nat
      BY <1>19 DEF r
    <3>6. p \in Nat
      BY <1>3 DEF p
    <3>7. valid \in Nat
      BY <1>3
    <3>3. CASE d <= result
      <4> DEFINE i == (r + result) - d
      <4>1. /\ i \in Int /\ -WaveBufLen <= i /\ i < WaveBufLen + WaveBufLen
            /\ 0 <= i /\ i < WaveBufLen /\ r <= i /\ i < r + result
            /\ p + (i - r) = (p + result) - d
        BY <3>1, <3>2, <3>3, <3>6
      <4> HIDE DEF i
      <4>2. i % WaveBufLen = i
        BY <4>1, RingWraps
      <4>3. i \in Cells
        BY <4>1 DEF Cells
      <4>4. cells'[i] = (p + (i - r)) % WaveLen
        BY <1>10, <4>1, <4>3 DEF p, r
      <4>5. cells'[i % WaveBufLen] = ((p + result) - d) % WaveLen
        BY Zenon, <4>1, <4>2, <4>4
      <4>6. QED BY <4>5 DEF i
    <3>4. CASE d > result
      <4> DEFINE e == d - result
                 i == (r + result) - d
                 m == i % WaveBufLen
      <4>1. /\ i \in Int /\ -WaveBufLen <= i /\ i < WaveBufLen + WaveBufLen
            /\ i < r /\ i + WaveBufLen >= r + result /\ i = r - e
            /\ e \in 1..valid /\ (p + result) - d = p - e
        BY <3>1, <3>2, <3>4, <3>6, <3>7
      <4> HIDE DEF i, e
      <4>2. m = IF i < 0 THEN i + WaveBufLen ELSE IF i < WaveBufLen THEN i ELSE i - WaveBufLen
        BY <4>1, RingWraps
      <4>3. m \in Cells /\ ~(r <= m /\ m < r + result)
        BY <3>2, <4>1, <4>2 DEF Cells
      <4> HIDE DEF m
      <4>4. cells'[m] = cells[m]
        BY <1>10, <4>3 DEF r
      <4>5. cells[(r - e) % WaveBufLen] = (p - e) % WaveLen
        BY <1>1, <1>2, <4>1 DEF CellInv, Booking, Shows, p, r
      <4>6. cells[m] = (p - e) % WaveLen
        BY Zenon, <4>1, <4>5 DEF m
      <4>7. cells'[i % WaveBufLen] = ((p + result) - d) % WaveLen
        BY Zenon, <4>1, <4>4, <4>6 DEF m
      <4>8. QED BY <4>7 DEF i
    <3>5. QED BY <3>1, <3>2, <3>3, <3>4
  <2>4. wavebufread' = r /\ wavepos' = p /\ valid' = valid
    BY DEF FillRead, r, p
  <2>5. Shows(wavebufread + loc[Main].read, wavepos + loc[Main].read, Held(loc[Main].read))'
    BY <2>1, <2>3, <2>4 DEF Shows, Held, v
  <2>6. QED BY <1>2, <1>9, <1>12, <1>13, <2>1, <2>5
               DEF IInv, TypeInv, FileInv, CellInv, Booking
<1>16. QED BY <1>14, <1>15

LEMMA FillPosStep ==
  ASSUME NoRace, IInv, NEW c \in Ctx, FillPos(c), mixed' = <<>>
  PROVE  IInv'
<1> USE Lengths
<1>1. /\ PlaceType /\ RingType /\ loc[c] \in Locals
      /\ pc[c] = "wavepos" /\ pc[c] \in Deep /\ loc[c].back \in {"mix", "looped?"}
  BY DEF IInv, TypeInv, PlaceType, FillPos, Deep, BusyInv, Filling
<1>2. c = Main /\ Streamed /\ FillInv /\ CellInv
  BY <1>1, DeepMain
<1> DEFINE n == loc[c].read
           left == loc[c].clean - n
           s == IF left = 0 THEN loc[c].back ELSE "fseek"
           l == [loc[c] EXCEPT !.clean = left]
<1>3. /\ n \in Nat /\ n > 0 /\ n <= loc[c].clean /\ loc[c].clean \in Cells
      /\ wavepos + n <= WaveLen /\ wavepos \in Nat /\ wavebufread \in Cells
      /\ valid \in 0..WaveBufLen
  BY <1>1, <1>2 DEF FillInv, Locals, RingType, Deep, Booking
<1> HIDE DEF n
<1>4. left \in Cells
  BY <1>3 DEF Cells
<1>5. loc' = [loc EXCEPT ![c] = l] /\ Goto(c, s)
  BY DEF FillPos, n
<1> HIDE DEF left
<1>6. l \in Locals /\ l.clean = left /\ l.back = loc[c].back /\ l.space = loc[c].space
  BY <1>1, <1>4 DEF Locals
<1>7. Moves(c, s, l)
  BY <1>1, <1>5, <1>6, Moved DEF Places
<1> HIDE DEF l
<1>8. FlagType' /\ DeviceType' /\ PlaceType' /\ BusyInv' /\ PollInv' /\ DeepInv'
  BY <1>1, <1>6, <1>7, DeepStep DEF FillPos, Deep
<1> DEFINE end == wavepos + n
<1>9. wavepos' = end % WaveLen /\ valid' = Held(n) /\ n = loc[Main].read
  BY <1>2 DEF FillPos, Held, n
<1>10. end \in Nat /\ end <= WaveLen
  BY <1>3
<1> HIDE DEF end
<1>11. end % WaveLen = IF end = WaveLen THEN 0 ELSE end
  <2>1. end \in 0..WaveLen /\ WaveLen \in Nat \ {0}
    BY <1>10
  <2>2. QED BY <2>1, AtEnd
<1>12. Held(n) \in 0..WaveBufLen
  BY <1>3 DEF Held, Least
<1>13. wavepos' \in Nat /\ wavepos' < WaveLen
  BY <1>9, <1>10, <1>11
<1>14. RingType'
  BY <1>1, <1>9, <1>12, <1>13 DEF RingType, FillPos
<1>15. FillInv'
  <2>1. s # "fseek" \/ left > 0
    BY <1>1, <1>4 DEF Cells
  <2>2. QED
    BY <1>1, <1>2, <1>6, <1>7, <1>13, <2>1
       DEF FillInv, Moves, Deep, Booking, Seeking
<1>16. CellInv'
  <2>1. Shows(wavebufread, end, Held(n))
    BY <1>1, <1>2, <1>9 DEF CellInv, end
  <2>2. ASSUME NEW d \in 1..Held(n)
        PROVE  (wavepos' - d) % WaveLen = (end - d) % WaveLen
    <3>1. d \in Nat /\ d >= 1 /\ d <= WaveLen
      BY <1>12
    <3>2. CASE end # WaveLen
      BY <1>9, <1>11, <3>2
    <3>3. CASE end = WaveLen
      <4>1. d \in 1..WaveLen /\ WaveLen \in Nat \ {0}
        BY <3>1
      <4>2. (0 - d) % WaveLen = (WaveLen - d) % WaveLen
        BY <4>1, BeforeStart
      <4>3. QED BY <1>9, <1>11, <3>3, <4>2
    <3>4. QED BY <3>2, <3>3
  <2>3. ASSUME NEW d \in 1..Held(n)
        PROVE  cells[(wavebufread - d) % WaveBufLen] = (wavepos' - d) % WaveLen
    BY Zenon, <2>1, <2>2 DEF Shows
  <2>4. wavebufread' = wavebufread /\ cells' = cells
    BY DEF FillPos
  <2>5. Shows(wavebufread, wavepos, valid)'
    BY <1>9, <2>3, <2>4 DEF Shows
  <2>6. pc'[Main] \notin Booking
    BY <1>1, <1>2, <1>7 DEF Moves, Booking
  <2>7. QED BY <2>5, <2>6 DEF CellInv, Booking
<1>17. QED BY <1>2, <1>8, <1>14, <1>15, <1>16 DEF IInv, TypeInv, FileInv
-----------------------------------------------------------------------------
(* The quantities of timerproc, by name.                                   *)
Delta(c) == IF Streamed THEN Least(loc[c].space, ToWrap) ELSE loc[c].space
Wanted(c) == Delta(c) - (IF pause THEN Delta(c) ELSE 0)
AtLoop(c) == Wanted(c) >= ToLoop
Played(c) == IF AtLoop(c) /\ donotloop THEN ToLoop ELSE Wanted(c)
Frame(c, i) ==
  IF i > Played(c) THEN Quiet ELSE cells[(wavebufpos + i - 1) % WaveBufLen]

LEMMA MixDoes ==
  ASSUME NEW c \in Ctx, Mix(c)
  PROVE  /\ looped' = (looped \/ AtLoop(c))
         /\ wavebufpos' = (wavebufpos + Played(c)) % WaveBufLen
         /\ queued' = queued + Delta(c)
         /\ mixed' = [i \in 1..Delta(c) |-> Frame(c, i)]
         /\ ended' = (ended \/ \E i \in 1..Played(c) : mixed'[i] = WaveLen - 1)
  BY Zenon DEF Mix, Delta, Wanted, AtLoop, Played, Frame

LEMMA MixSizes ==
  ASSUME IInv, NEW c \in Ctx, pc[c] = "mix"
  PROVE  /\ Delta(c) \in Nat /\ Delta(c) <= loc[c].space
         /\ Streamed => Delta(c) <= ToWrap
         /\ ToWrap \in 0..WaveBufLen-1 /\ ToLoop \in Nat
         /\ Wanted(c) \in Nat /\ Wanted(c) <= Delta(c)
         /\ Played(c) \in Nat /\ Played(c) <= Wanted(c)
<1> USE Lengths
<1>1. loc[c].space \in Nat
  BY DEF IInv, TypeInv, PlaceType, Locals
<1>2. RingType
  BY DEF IInv, TypeInv
<1>3. ToWrap \in 0..WaveBufLen-1
  <2> DEFINE a == WaveBufLen + wavebufread - wavebufpos - 1
  <2>1. a \in Int /\ WaveBufLen \in Nat \ {0}
    BY <1>2 DEF RingType, Cells
  <2>2. ToWrap = a % WaveBufLen
    BY DEF ToWrap
  <2> HIDE DEF a
  <2>3. QED BY <2>1, <2>2, Remainder
<1>4. ToLoop \in Nat
  BY <1>2 DEF ToLoop, RingType, Cells
<1>5. Delta(c) \in Nat /\ Delta(c) <= loc[c].space /\ (Streamed => Delta(c) <= ToWrap)
  BY <1>1, <1>3 DEF Delta, Least
<1>6. Wanted(c) \in Nat /\ Wanted(c) <= Delta(c)
  BY <1>5 DEF Wanted
<1>7. Played(c) \in Nat /\ Played(c) <= Wanted(c)
  <2>1. CASE AtLoop(c) /\ donotloop
    BY <1>4, <1>6, <2>1 DEF Played, AtLoop
  <2>2. CASE ~(AtLoop(c) /\ donotloop)
    BY <1>6, <2>2 DEF Played
  <2>3. QED BY <2>1, <2>2
<1>8. QED BY <1>3, <1>4, <1>5, <1>6, <1>7

LEMMA MixStep ==
  ASSUME NoRace, IInv, NEW c \in Ctx, Mix(c)
  PROVE  IInv'
<1> USE Lengths
<1>1. /\ PlaceType /\ DeviceType /\ FlagType /\ RingType
      /\ loc[c] \in Locals /\ pc[c] = "mix" /\ polling
  BY DEF IInv, TypeInv, PlaceType, PollInv, Mix
<1> DEFINE s == loc[c].next
           l == IF s = "fill" THEN [NoLocals EXCEPT !.back = "looped?"] ELSE NoLocals
<1>2. NoLocals \in Locals
  BY DEF NoLocals, Locals, Cells
<1>3. l \in Locals /\ s \in {"idle", "fill"} /\ (s = "fill" => l.back = "looped?")
  <2>1. s \in {"idle", "fill"}
    BY <1>1 DEF Locals
  <2>2. [NoLocals EXCEPT !.back = "looped?"] \in Locals
        /\ [NoLocals EXCEPT !.back = "looped?"].back = "looped?"
    BY <1>2 DEF Locals
  <2>3. QED BY <1>2, <2>1, <2>2
<1>4. loc' = [loc EXCEPT ![c] = l] /\ Goto(c, s)
  BY DEF Mix
<1> HIDE DEF s, l
<1>5. Moves(c, s, l)
  BY <1>1, <1>3, <1>4, Moved DEF Places
<1>6. Holds(c) /\ clipbusy = 1 /\ queued + loc[c].space <= BufLen - 1
  BY <1>1 DEF IInv, BusyInv, Holds, PlaceType, DeviceType, Locals
<1>7. clipbusy' = 0
  BY <1>6 DEF Mix
<1>8. queued' \in 0..BufLen-1
  <2>1. queued \in Nat /\ loc[c].space \in Nat
    BY <1>1 DEF DeviceType, Locals
  <2>2. Delta(c) \in Nat /\ Delta(c) <= loc[c].space
    BY <1>1, MixSizes
  <2>3. queued' = queued + Delta(c)
    BY MixDoes
  <2>4. queued + loc[c].space <= BufLen - 1
    BY <1>6
  <2>5. QED BY <2>1, <2>2, <2>3, <2>4
<1>9. wavebufpos' \in Cells
  <2>1. wavebufpos + Played(c) \in Int /\ WaveBufLen \in Nat \ {0}
    BY <1>1, MixSizes DEF RingType, Cells
  <2>2. wavebufpos' = (wavebufpos + Played(c)) % WaveBufLen
    BY MixDoes
  <2>3. QED BY <2>1, <2>2, Remainder DEF Cells
<1>10. mixed' \in Seq(0..Quiet)
  <2>1. mixed' = [i \in 1..Delta(c) |-> Frame(c, i)]
    BY MixDoes
  <2>2. ASSUME NEW i \in 1..Delta(c) PROVE Frame(c, i) \in 0..Quiet
    <3>1. i \in Nat /\ wavebufpos \in Nat /\ Delta(c) \in Nat
      BY <1>1, MixSizes DEF RingType, Cells
    <3>2. wavebufpos + i - 1 \in Int /\ WaveBufLen \in Nat \ {0}
      BY <3>1
    <3>3. (wavebufpos + i - 1) % WaveBufLen \in Cells
      BY <3>2, Remainder DEF Cells
    <3> DEFINE k == (wavebufpos + i - 1) % WaveBufLen
    <3>4. cells[k] \in 0..WaveLen-1
      BY <1>1, <3>3 DEF RingType
    <3>5. Frame(c, i) = Quiet \/ Frame(c, i) = cells[k]
      BY DEF Frame
    <3> HIDE DEF k
    <3>6. QED BY <3>4, <3>5 DEF Quiet
  <2>3. mixed' \in [1..Delta(c) -> 0..Quiet]
    BY <2>1, <2>2
  <2>4. QED BY <1>1, <2>3, MixSizes, IsSequence
<1>11. RingType'
  BY <1>1, <1>9 DEF RingType, Mix
<1>12. FlagType'
  <2>1. looped' \in BOOLEAN /\ ended' \in BOOLEAN
    <3>1. looped' = (looped \/ AtLoop(c))
      BY MixDoes
    <3>2. ended' = (ended \/ \E i \in 1..Played(c) : mixed'[i] = WaveLen - 1)
      BY MixDoes
    <3>3. QED BY Zenon, <3>1, <3>2
  <2>2. QED BY <1>1, <2>1 DEF FlagType, Mix
<1>13. DeviceType' /\ PlaceType'
  BY <1>5, <1>7, <1>8, <1>10 DEF DeviceType, PlaceType, Moves
<1>14. BusyInv'
  <2>1. \A d \in Ctx : d # c => ~Holds(d)
    BY <1>6 DEF IInv, BusyInv
  <2>2. \A d \in Ctx : ~Holds(d)'
    BY <1>3, <1>5, <2>1 DEF Holds, Moves, Filling, Deep
  <2>3. \A d \in Ctx : pc'[d] \in Filling => loc'[d].back \in {"mix", "looped?"}
    BY <1>3, <1>5 DEF IInv, BusyInv, Moves, Filling, Deep
  <2>4. QED BY <1>7, <2>2, <2>3 DEF BusyInv
<1>15. PollInv'
  BY <1>1, <1>3, <1>5, PollKept DEF IInv, Mix
<1>16. DeepInv'
  BY <1>3, <1>5, DeepKept DEF IInv, Deep, Seeking
<1>17. FileInv'
  BY <1>1, <1>3, <1>5, FileKept DEF IInv, Mix, Deep, Booking, Seeking
<1>18. QED
  BY <1>11, <1>12, <1>13, <1>14, <1>15, <1>16, <1>17 DEF IInv, TypeInv

LEMMA SetPosNearStep ==
  ASSUME NoRace, IInv, SetPosNear, mixed' = <<>>
  PROVE  IInv'
<1> USE Lengths
<1>1. PlaceType /\ DeviceType /\ FlagType /\ RingType
  BY DEF IInv, TypeInv
<1>2. wavebufpos' \in Cells
  <2>1. PICK pos \in 0..WaveLen-1 :
          wavebufpos' = IF Streamed
                          THEN (wavebufread - (wavepos - pos) + WaveBufLen) % WaveBufLen
                          ELSE pos
    BY DEF SetPosNear
  <2>2. CASE Streamed
    <3>1. /\ wavebufread - (wavepos - pos) + WaveBufLen \in Int
          /\ WaveBufLen \in Nat \ {0}
      BY <1>1 DEF RingType, Cells
    <3>2. QED BY <2>1, <2>2, <3>1, Remainder DEF Cells
  <2>3. CASE ~Streamed
    BY <2>1, <2>3 DEF Cells
  <2>4. QED BY <2>2, <2>3
<1>3. RingType'
  BY <1>1, <1>2 DEF RingType, SetPosNear
<1>4. FlagType' /\ DeviceType' /\ PlaceType'
  BY <1>1 DEF SetPosNear, flags, FlagType, DeviceType, PlaceType
<1>5. BusyInv'
  BY <1>1, <1>4, BusyStill DEF IInv, SetPosNear, DeviceType
<1>6. PollInv' /\ DeepInv'
  BY DEF IInv, PollInv, DeepInv, SetPosNear, flags
<1>7. FileInv'
  BY FileStill DEF IInv, SetPosNear, flags
<1>8. QED BY <1>3, <1>4, <1>5, <1>6, <1>7 DEF IInv, TypeInv

(* The three stores of a seek out of the ring.                             *)
LEMMA SetPosFarStep ==
  ASSUME NoRace, IInv, SetPosFar \/ SetPosFar2 \/ SetPosFar3, mixed' = <<>>
  PROVE  IInv'
<1> USE Lengths
<1>1. PlaceType /\ DeviceType /\ FlagType /\ RingType
  BY DEF IInv, TypeInv
<1>2. Streamed /\ polling /\ pc[Main] \in {"idle", "setpos", "setpos2"}
  BY Contexts DEF IInv, PollInv, DeepInv, Seeking, SetPosFar, SetPosFar2, SetPosFar3
<1>3. PICK s \in {"setpos", "setpos2", "idle"} : Goto(Main, s)
  BY DEF SetPosFar, SetPosFar2, SetPosFar3
<1>4. /\ UNCHANGED <<flags, clipbusy, queued, ended, loc, cells, fpos, bufloopat>>
      /\ \/ pc[Main] \in Seeking /\ valid' = valid
         \/ valid' = 0
  BY DEF SetPosFar, SetPosFar2, SetPosFar3, Seeking
<1>5. Moves(Main, s, loc[Main])
  BY <1>1, <1>3, <1>4, Contexts, Went DEF Places
<1>6. wavepos' \in 0..WaveLen-1 /\ wavebufpos' \in Cells /\ wavebufread' \in Cells
  <2>1. wavepos \in 0..WaveLen-1
    BY <1>1, <1>2 DEF IInv, FileInv, FillInv, RingType
  <2>2. 0 \in Cells /\ 1 \in Cells
    BY <1>2 DEF Cells
  <2>3. QED BY <1>1, <2>1, <2>2 DEF RingType, SetPosFar, SetPosFar2, SetPosFar3
<1>7. valid' = 0
  BY <1>2, <1>4 DEF IInv, FileInv, FillInv
<1>8. RingType'
  <2>1. wavepos' \in 0..WaveLen
    BY <1>6
  <2>2. QED BY <1>1, <1>4, <1>6, <1>7, <2>1 DEF RingType
<1>9. FlagType' /\ DeviceType' /\ PlaceType'
  BY <1>1, <1>4, <1>5 DEF flags, FlagType, DeviceType, PlaceType, Moves
<1>10. BusyInv'
  <2>1. ~Holds(Main)
    BY <1>2 DEF Holds, Filling, Deep
  <2>2. s \in Places /\ s # "mix" /\ s \notin Filling /\ loc[Main] \in Locals
    BY <1>1, Contexts DEF Places, Filling, Deep, PlaceType
  <2>3. clipbusy' = clipbusy /\ queued' <= queued
    BY <1>1, <1>4 DEF DeviceType
  <2>4. QED BY <1>1, <1>5, <1>9, <2>1, <2>2, <2>3, Contexts, BusyKept DEF IInv
<1>11. PollInv'
  BY <1>2, <1>4, <1>5, Contexts, PollKept DEF IInv, flags
<1>12. DeepInv'
  BY <1>2, <1>5, Contexts, DeepKept DEF IInv
<1>13. FillInv'
  BY <1>5, <1>6, <1>7 DEF FillInv, Moves, Deep, Booking, Seeking
<1>14. CellInv'
  BY <1>5, <1>7 DEF CellInv, Moves, Booking, Shows
<1>15. QED
  BY <1>2, <1>8, <1>9, <1>10, <1>11, <1>12, <1>13, <1>14 DEF IInv, TypeInv, FileInv

(* The keys, the device and a step of something else.                      *)
LEMMA OtherStep ==
  ASSUME NoRace, IInv,
         \/ mixed' = <<>> /\ (Pause \/ ToggleLoop \/ Hear)
         \/ UNCHANGED vars
  PROVE  IInv'
<1> USE Lengths
<1>1. PlaceType /\ DeviceType /\ FlagType /\ RingType
  BY DEF IInv, TypeInv
<1>2. /\ UNCHANGED <<ring, clipbusy, pc, loc, polling, active>>
      /\ mixed' = <<>> \/ mixed' = mixed
      /\ queued' = queued \/ (queued > 0 /\ queued' = queued - 1)
  BY DEF Pause, ToggleLoop, Hear, vars, flags
<1>3. RingType'
  BY <1>1, <1>2 DEF ring, RingType
<1>4. FlagType'
  BY <1>1 DEF Pause, ToggleLoop, Hear, vars, flags, FlagType
<1>5. DeviceType' /\ PlaceType'
  <2>1. queued' \in 0..BufLen-1
    BY <1>1, <1>2 DEF DeviceType
  <2>2. mixed' \in Seq(0..Quiet)
    <3>1. <<>> \in Seq(0..Quiet)
      OBVIOUS
    <3>2. mixed \in Seq(0..Quiet)
      BY <1>1 DEF DeviceType
    <3>3. QED BY Zenon, <1>2, <3>1, <3>2
  <2>3. QED BY <1>1, <1>2, <2>1, <2>2 DEF DeviceType, PlaceType
<1>6. BusyInv'
  <2>1. queued' <= queued
    BY <1>1, <1>2 DEF DeviceType
  <2>2. QED BY <1>1, <1>2, <1>5, <2>1, BusyStill DEF IInv
<1>7. PollInv' /\ DeepInv'
  BY <1>2 DEF IInv, PollInv, DeepInv
<1>8. FileInv'
  BY <1>2, FileStill DEF IInv, ring
<1>9. QED BY <1>3, <1>4, <1>5, <1>6, <1>7, <1>8 DEF IInv, TypeInv

LEMMA InitInv == Init => IInv
<1> SUFFICES ASSUME Init PROVE IInv
  OBVIOUS
<1> USE Lengths DEF Init
<1>1. RingType
  BY DEF RingType, Cells
<1>2. FlagType /\ DeviceType
  BY DEF FlagType, DeviceType
<1>3. PlaceType
  <2>1. NoLocals \in Locals
    BY DEF NoLocals, Locals, Cells
  <2>2. QED BY <2>1 DEF PlaceType, Places
<1>4. \A c \in Ctx : pc[c] = "idle"
  OBVIOUS
<1>5. BusyInv
  BY <1>4 DEF BusyInv, Holds, Filling, Deep
<1>6. PollInv /\ DeepInv
  BY <1>4, Contexts DEF PollInv, DeepInv, Deep, Seeking
<1>7. FillInv
  BY <1>4, Contexts DEF FillInv, Deep, Booking, Seeking
<1>8. CellInv
  BY <1>4, Contexts DEF CellInv, Booking, Shows
<1>9. ShortInv
  BY DEF ShortInv
<1>10. QED BY <1>1, <1>2, <1>3, <1>5, <1>6, <1>7, <1>8, <1>9 DEF IInv, TypeInv, FileInv

LEMMA StepInv == NoRace /\ IInv /\ [Next]_vars => IInv'
<1> SUFFICES ASSUME NoRace, IInv, [Next]_vars PROVE IInv'
  OBVIOUS
<1>1. CASE Begins
  <2>1. CASE OpenPlayer
    BY <1>1, <2>1, OpenPlayerStep DEF Begins
  <2>2. CASE ClosePlayer \/ WavLooped
    BY <1>1, <2>2, ClosePlayerStep, WavLoopedStep DEF Begins
  <2>3. ASSUME NEW c \in Ctx, TimerProc(c) PROVE IInv'
    BY <1>1, <2>3, TimerProcStep DEF Begins
  <2>4. CASE SetPosNear \/ SetPosFar
    BY <1>1, <2>4, SetPosNearStep, SetPosFarStep DEF Begins
  <2>5. CASE Pause \/ ToggleLoop \/ Hear
    BY <1>1, <2>5, OtherStep DEF Begins
  <2>6. QED BY <1>1, <2>1, <2>2, <2>3, <2>4, <2>5 DEF Begins
<1>2. ASSUME NEW c \in Ctx, Goes(c) PROVE IInv'
  <2>1. CASE Mix(c)
    BY <2>1, MixStep
  <2>2. CASE mixed' = <<>> /\ FillStep(c)
    BY <2>2, FillStart, FillSeekStep, FillSizeStep, FillReadStep, FillBufReadStep,
       FillPosStep DEF FillStep
  <2>3. CASE mixed' = <<>> /\ (Activate \/ PollClose \/ WpIdle \/ IsEnd)
    BY <2>3, ActivateStep, PollCloseStep, WpIdleStep, IsEndStep
  <2>4. CASE mixed' = <<>> /\ (SetPosFar2 \/ SetPosFar3)
    BY <2>4, SetPosFarStep
  <2>5. QED BY <1>2, <2>1, <2>2, <2>3, <2>4 DEF Goes
<1>3. CASE UNCHANGED vars
  BY <1>3, OtherStep
<1>4. QED BY <1>1, <1>2, <1>3 DEF Next

LEMMA InvAlways == ASSUME NoRace PROVE Spec => []IInv
<1>1. IInv /\ [Next]_vars => IInv'
  BY StepInv
<1>2. QED BY <1>1, InitInv, PTL DEF Spec

(* Every variable keeps to its type, and no read is asked for more than    *)
(* the ring has room for (wpIdle, timerproc, wpSetPos).                    *)
THEOREM TypeCorrect == ASSUME NoRace PROVE Spec => []TypeOK
<1>1. IInv => TypeOK
  <2> SUFFICES ASSUME IInv PROVE TypeOK
    OBVIOUS
  <2> USE Lengths
  <2>1. PlaceType /\ DeviceType /\ FlagType /\ RingType
    BY DEF IInv, TypeInv
  <2>2. wavepos \in IF Streamed THEN 0..WaveLen-1 ELSE {0, WaveLen}
    BY <2>1 DEF IInv, FileInv, FillInv, ShortInv, RingType
  <2>3. {looped, donotloop, pause, active, fsLoopMods, polling, ended} \subseteq BOOLEAN
    BY <2>1 DEF FlagType
  <2>4. ASSUME NEW c \in Ctx
        PROVE  /\ loc[c].space \in 0..BufLen-1 /\ loc[c].clean \in Cells
               /\ loc[c].read \in 0..(WaveBufLen - wavebufread) \/ pc[c] # "fread"
    <3>1. loc[c].space \in 0..BufLen-1 /\ loc[c].clean \in Cells /\ loc[c].read \in Nat
      BY <2>1 DEF PlaceType, Locals
    <3>2. CASE pc[c] = "fread"
      <4>1. c = Main /\ wavebufread + loc[Main].read <= WaveBufLen
        BY <3>2, DeepMain DEF FillInv, Deep
      <4>2. QED BY <2>1, <3>1, <4>1 DEF RingType, Cells
    <3>3. QED BY <3>1, <3>2
  <2>5. QED BY <2>1, <2>2, <2>3, <2>4 DEF TypeOK, RingType, DeviceType, PlaceType
<1>2. QED BY <1>1, InvAlways, PTL
-----------------------------------------------------------------------------
(* A file in the ring as a whole: cell i is frame i.                       *)
LEMMA ShortCells ==
  ASSUME IInv, ~Streamed, polling \/ valid # 0
  PROVE  /\ WaveBufLen = WaveLen /\ wavebufread = 0 /\ wavepos = WaveLen
         /\ valid = WaveLen /\ \A i \in Cells : cells[i] = i
  BY Lengths DEF IInv, FileInv, ShortInv

LEMMA LongCells ==
  ASSUME NoRace, IInv, Streamed, pc[Main] \notin Booking
  PROVE  \A d \in 1..valid :
           cells[(wavebufread - d) % WaveBufLen] = (wavepos - d) % WaveLen
  BY DEF IInv, FileInv, CellInv, Shows

(* While no read is being booked the ring holds the frames before wavepos  *)
(* (wpIdle and wpSetPos, whatever fread returns).                          *)
THEOREM HoldsTheFile == ASSUME NoRace PROVE Spec => []RingHolds
<1>1. IInv => RingHolds
  <2> SUFFICES ASSUME IInv,
                      \A c \in Ctx : pc[c] \notin {"wavebufread", "wavepos", "setpos", "setpos2"},
                      NEW d \in 1..valid
               PROVE  cells[(wavebufread - d) % WaveBufLen] = (wavepos - d) % WaveLen
    BY DEF RingHolds
  <2>1. CASE Streamed
    <3>1. pc[Main] \notin Booking
      BY Contexts DEF Booking
    <3>2. QED BY <2>1, <3>1, LongCells
  <2>2. CASE ~Streamed
    <3>1. valid \in Nat
      BY Lengths DEF IInv, TypeInv, RingType
    <3>2. valid # 0
      BY <3>1
    <3>3. /\ WaveBufLen = WaveLen /\ wavebufread = 0 /\ wavepos = WaveLen
          /\ valid = WaveLen /\ \A i \in Cells : cells[i] = i
      BY <2>2, <3>2, ShortCells
    <3>4. d \in 1..WaveLen /\ WaveLen \in Nat \ {0}
      BY <3>3, Lengths
    <3>5. (0 - d) % WaveLen = WaveLen - d /\ (WaveLen - d) % WaveLen = WaveLen - d
      BY <3>4, BeforeStart
    <3>6. WaveLen - d \in Cells
      BY <3>3, <3>4 DEF Cells
    <3>7. cells[WaveLen - d] = WaveLen - d
      BY <3>3, <3>6
    <3>8. cells[(0 - d) % WaveLen] = (WaveLen - d) % WaveLen
      BY Zenon, <3>5, <3>7
    <3>9. QED BY <3>3, <3>8
  <2>3. QED BY <2>1, <2>2
<1>2. QED BY <1>1, InvAlways, PTL

(* What is mixed on a file in the ring as a whole.                         *)
LEMMA ShortMix ==
  ASSUME NoRace, IInv, NEW c \in Ctx, Mix(c), ~Streamed
  PROVE  /\ \A i \in 1..Delta(c) :
              mixed'[i] = IF i <= Played(c) THEN (GetPos + i - 1) % WaveLen ELSE Quiet
         /\ GetPos' = (GetPos + Played(c)) % WaveLen
<1>1. pc[c] = "mix" /\ polling
  BY DEF Mix, IInv, PollInv
<1>2. WaveBufLen = WaveLen /\ \A i \in Cells : cells[i] = i
  BY <1>1, ShortCells
<1>3. wavebufpos \in Nat /\ Delta(c) \in Nat /\ Played(c) \in Nat /\ WaveLen \in Nat \ {0}
  BY <1>1, MixSizes, Lengths DEF IInv, TypeInv, RingType, Cells
<1>4. GetPos = wavebufpos /\ GetPos' = wavebufpos'
  BY DEF GetPos
<1>5. wavebufpos' = (wavebufpos + Played(c)) % WaveBufLen
  BY MixDoes
<1>6. mixed' = [i \in 1..Delta(c) |-> Frame(c, i)]
  BY MixDoes
<1>7. ASSUME NEW i \in 1..Delta(c)
      PROVE  mixed'[i] = IF i <= Played(c) THEN (GetPos + i - 1) % WaveLen ELSE Quiet
  <2>1. i \in Nat /\ 1 <= i
    BY <1>3
  <2> DEFINE k == (wavebufpos + i - 1) % WaveBufLen
  <2>2. k \in Cells
    <3>1. wavebufpos + i - 1 \in Int /\ WaveBufLen \in Nat \ {0}
      BY <1>3, <2>1, Lengths
    <3>2. QED BY <3>1, Remainder DEF Cells
  <2>3. mixed'[i] = IF i > Played(c) THEN Quiet ELSE cells[k]
    BY <1>6 DEF Frame
  <2>4. cells[k] = k
    BY <1>2, <2>2
  <2>5. k = (GetPos + i - 1) % WaveLen
    BY <1>2, <1>4
  <2> HIDE DEF k
  <2>6. mixed'[i] = IF i > Played(c) THEN Quiet ELSE (GetPos + i - 1) % WaveLen
    BY Zenon, <2>3, <2>4, <2>5
  <2>7. i > Played(c) <=> ~(i <= Played(c))
    BY <1>3, <2>1
  <2>8. QED BY Zenon, <2>6, <2>7
<1>8. QED BY <1>2, <1>4, <1>5, <1>7

(* What is mixed on a file that is streamed.                               *)
LEMMA LongMix ==
  ASSUME NoRace, IInv, NEW c \in Ctx, Mix(c), Streamed, Sound
  PROVE  /\ \A i \in 1..Delta(c) :
              mixed'[i] = IF i <= Played(c) THEN (GetPos + i - 1) % WaveLen ELSE Quiet
         /\ GetPos' = (GetPos + Played(c)) % WaveLen
<1> DEFINE W == WaveBufLen
           L == WaveLen
           r == wavebufread
           b == wavebufpos
           p == wavepos
           t == ToWrap
           P == Played(c)
<1>1. pc[c] = "mix" /\ c = Main /\ RingType
  BY Contexts DEF Mix, IInv, TypeInv
<1>2. /\ W \in Nat \ {0} /\ L \in Nat \ {0} /\ W < L
      /\ r \in Nat /\ r < W /\ b \in Nat /\ b < W /\ p \in Nat /\ p < L
  BY <1>1, Lengths DEF RingType, Cells, IInv, FileInv, FillInv
<1>3. /\ Delta(c) \in Nat /\ P \in Nat /\ Delta(c) <= t /\ P <= Delta(c)
      /\ t \in Nat /\ t < W
  <2>1. /\ Delta(c) \in Nat /\ Delta(c) <= ToWrap /\ ToWrap \in 0..WaveBufLen-1
        /\ Wanted(c) \in Nat /\ Wanted(c) <= Delta(c)
        /\ Played(c) \in Nat /\ Played(c) <= Wanted(c)
    BY <1>1, MixSizes
  <2>2. QED BY <1>2, <2>1
<1>4. t = IF r > b THEN (r - b) - 1 ELSE ((r - b) - 1) + W
  <2> DEFINE a == W + r - b - 1
  <2>1. a \in Int /\ -W <= a /\ a < W + W /\ a = ((r - b) - 1) + W
    BY <1>2
  <2>2. t = a % W
    BY DEF ToWrap
  <2> HIDE DEF a
  <2>3. a % W = IF a < 0 THEN a + W ELSE IF a < W THEN a ELSE a - W
    BY <2>1, RingWraps
  <2>4. QED BY <1>2, <2>1, <2>2, <2>3
<1>5. t < valid
  <2> DEFINE a == r - b - 1
  <2>1. a \in Int /\ -W <= a /\ a < W + W /\ a = (r - b) - 1
    BY <1>2
  <2>2. a % W < valid
    BY DEF Sound
  <2> HIDE DEF a
  <2>3. a % W = IF a < 0 THEN a + W ELSE IF a < W THEN a ELSE a - W
    BY <2>1, RingWraps
  <2>4. t = a % W
    BY <1>2, <1>4, <2>1, <2>3
  <2>5. QED BY <2>2, <2>4
<1>6. mixed' = [i \in 1..Delta(c) |-> Frame(c, i)] /\ b' = (b + P) % W
  BY MixDoes
<1>7. r' = r /\ p' = p
  BY DEF Mix
<1>8. valid \in Nat
  BY <1>1, <1>2 DEF RingType
<1>9. \A d \in 1..valid : cells[(r - d) % W] = (p - d) % L
  BY <1>1, LongCells DEF Booking
(* How far b is behind r, as wpGetPos sees it.                             *)
<1> DEFINE Behind(x) == (x - r + W) % W
<1>10. GetPos = (p + L - W + Behind(b)) % L
  BY DEF GetPos
<1>11. GetPos' = (p + L - W + Behind(b')) % L
  BY <1>7 DEF GetPos
<1>12. Behind(b) = W - (t + 1)
  <2> DEFINE a == b - r + W
  <2>1. a \in Int /\ -W <= a /\ a < W + W /\ a = (b - r) + W
    BY <1>2
  <2>2. Behind(b) = a % W
    OBVIOUS
  <2> HIDE DEF a, Behind
  <2>3. a % W = IF a < 0 THEN a + W ELSE IF a < W THEN a ELSE a - W
    BY <2>1, RingWraps
  <2>4. QED BY <1>2, <1>4, <2>1, <2>2, <2>3
<1>13. b' = (IF b + P < W THEN b + P ELSE (b + P) - W)
  <2> DEFINE a == b + P
  <2>1. a \in Int /\ -W <= a /\ a < W + W /\ a >= 0
    BY <1>2, <1>3
  <2>2. b' = a % W
    BY <1>6
  <2> HIDE DEF a
  <2>3. a % W = IF a < 0 THEN a + W ELSE IF a < W THEN a ELSE a - W
    BY <2>1, RingWraps
  <2>4. b' = IF a < W THEN a ELSE a - W
    BY <2>1, <2>2, <2>3
  <2>5. QED BY <2>4 DEF a
<1>14. Behind(b') = (W - (t + 1)) + P
  <2> DEFINE a == b' - r + W
  <2>1. b' \in Nat /\ b' < W
    BY <1>2, <1>3, <1>13
  <2>2. a \in Int /\ -W <= a /\ a < W + W /\ a = (b' - r) + W
    <3>1. \A x \in Nat : x < W =>
            /\ x - r + W \in Int /\ -W <= x - r + W
            /\ x - r + W < W + W /\ x - r + W = (x - r) + W
      BY <1>2
    <3>2. QED BY Zenon, <2>1, <3>1
  <2>3. Behind(b') = a % W
    OBVIOUS
  <2> HIDE DEF a, Behind
  <2>4. a % W = IF a < 0 THEN a + W ELSE IF a < W THEN a ELSE a - W
    BY <2>2, RingWraps
  <2>5. QED BY <1>2, <1>3, <1>4, <1>13, <2>1, <2>2, <2>3, <2>4
<1> HIDE DEF Behind
<1> DEFINE g == p - (t + 1)
<1>15. GetPos = IF g < 0 THEN g + L ELSE g
  <2> DEFINE a == g + L
  <2>1. p + L - W + Behind(b) = a
    BY <1>2, <1>3, <1>12
  <2>2. a \in Int /\ -L <= a /\ a < L + L /\ a >= 0 /\ a = g + L /\ g \in Int
    BY <1>2, <1>3
  <2>3. GetPos = a % L
    BY <1>10, <2>1
  <2> HIDE DEF a, g
  <2>4. a % L = IF a < 0 THEN a + L ELSE IF a < L THEN a ELSE a - L
    BY <2>2, FileWraps
  <2>5. QED BY <1>2, <2>2, <2>3, <2>4
<1>16. g \in Int /\ g >= -L /\ g + t < L /\ GetPos \in Nat /\ GetPos < L
  BY <1>2, <1>3, <1>15
<1>17. \A n \in 0..t : (g + n) % L = (GetPos + n) % L
  <2> SUFFICES ASSUME NEW n \in 0..t PROVE (g + n) % L = (GetPos + n) % L
    OBVIOUS
  <2> DEFINE x == g + n
             y == GetPos + n
  <2>1. /\ x \in Int /\ -L <= x /\ x < L
        /\ y \in Int /\ 0 <= y /\ y < L + L /\ (y = x \/ y = x + L) /\ (x < 0 => y = x + L)
        /\ (x >= 0 => y >= x)
    BY <1>2, <1>3, <1>15, <1>16
  <2> HIDE DEF x, y, g
  <2>2. x % L = IF x < 0 THEN x + L ELSE x
    BY <1>2, <2>1, FileWraps
  <2>3. y % L = IF y < L THEN y ELSE y - L
    BY <1>2, <2>1, FileWraps
  <2>4. x % L = y % L
    BY <1>2, <2>1, <2>2, <2>3
  <2>5. QED BY <2>4 DEF x, y
<1>18. GetPos' = (GetPos + P) % L
  <2>1. p + L - W + Behind(b') = (g + P) + L
    BY <1>2, <1>3, <1>14
  <2> DEFINE x == g + P
             y == (g + P) + L
  <2>2. /\ x \in Int /\ -L <= x /\ x < L /\ y \in Int /\ 0 <= y /\ y < L + L /\ y = x + L
    BY <1>2, <1>3, <1>16
  <2>3. GetPos' = y % L
    BY <1>11, <2>1
  <2> HIDE DEF x, y, g
  <2>4. x % L = IF x < 0 THEN x + L ELSE x
    BY <1>2, <2>2, FileWraps
  <2>5. y % L = IF y < L THEN y ELSE y - L
    BY <1>2, <2>2, FileWraps
  <2>6. y % L = x % L
    BY <1>2, <2>2, <2>4, <2>5
  <2>7. P \in 0..t
    BY <1>3
  <2>8. x % L = (GetPos + P) % L
    BY <1>17, <2>7 DEF x
  <2>9. QED BY Zenon, <2>3, <2>6, <2>8
<1>19. ASSUME NEW i \in 1..Delta(c)
       PROVE  mixed'[i] = IF i <= P THEN (GetPos + i - 1) % L ELSE Quiet
  <2>1. i \in Nat /\ 1 <= i /\ i <= Delta(c) /\ i <= t
    BY <1>3
  <2>2. mixed'[i] = IF i > P THEN Quiet ELSE cells[(b + i - 1) % W]
    BY <1>6 DEF Frame
  <2> DEFINE d == (t + 2) - i
             x == r - d
             y == b + i - 1
  <2>3. d \in 1..valid /\ d <= W + 1 /\ d >= 2
    BY <1>2, <1>3, <1>5, <1>8, <2>1
  <2>4. /\ x \in Int /\ -(W + W) <= x /\ x < W
        /\ y \in Int /\ 0 <= y /\ y < W + W /\ (x = y \/ x = y - W)
    BY <1>2, <1>3, <1>4, <2>1, <2>3
  <2>5. x % W = y % W
    <3> HIDE DEF x, y, d
    <3>1. CASE x = y
      BY <3>1
    <3>2. CASE x = y - W
      <4>1. -W <= x
        BY <1>2, <2>4, <3>2
      <4>2. x % W = IF x < 0 THEN x + W ELSE x
        BY <1>2, <2>4, <4>1, RingWraps
      <4>3. y % W = IF y < W THEN y ELSE y - W
        BY <1>2, <2>4, RingWraps
      <4>4. QED BY <1>2, <2>4, <3>2, <4>2, <4>3
    <3>3. QED BY <2>4, <3>1, <3>2
  <2>6. cells[x % W] = (p - d) % L
    BY <1>9, <2>3
  <2>7. cells[y % W] = (p - d) % L
    BY Zenon, <2>5, <2>6
  <2>8. p - d = g + (i - 1) /\ i - 1 \in 0..t /\ GetPos + i - 1 = GetPos + (i - 1)
    BY <1>2, <1>3, <1>16, <2>1
  <2>9. (p - d) % L = (GetPos + i - 1) % L
    <3> HIDE DEF g, d
    <3>1. (g + (i - 1)) % L = (GetPos + (i - 1)) % L
      BY <1>17, <2>8
    <3>2. QED BY Zenon, <2>8, <3>1
  <2>10. i > P <=> ~(i <= P)
    BY <1>3, <2>1
  <2>11. QED BY Zenon, <2>2, <2>7, <2>9, <2>10
<1>20. QED BY <1>18, <1>19

(* What is mixed is the file from the position wpGetPos shows, and the     *)
(* position moves by what was mixed (timerproc, wpGetPos).                 *)
THEOREM PlaysTheFile == ASSUME NoRace PROVE Spec => PlaysFile
<1> DEFINE Right ==
      Sound /\ mixed' # <<>> =>
        \E played \in 0..Len(mixed') :
          /\ \A i \in 1..Len(mixed') :
               mixed'[i] = IF i <= played THEN (GetPos + i - 1) % WaveLen ELSE Quiet
          /\ GetPos' = (GetPos + played) % WaveLen
<1>1. IInv /\ [Next]_vars => [Right]_vars
  <2> SUFFICES ASSUME IInv, Next, Sound, mixed' # <<>> PROVE Right
    OBVIOUS
  <2>1. PICK c \in Ctx : Mix(c)
    BY DEF Next, Begins, Goes
  <2>2. pc[c] = "mix"
    BY <2>1 DEF Mix
  <2>3. mixed' = [i \in 1..Delta(c) |-> Frame(c, i)]
    BY <2>1, MixDoes
  <2>4. Delta(c) \in Nat /\ Played(c) \in Nat /\ Played(c) <= Delta(c)
    BY <2>2, MixSizes
  <2>5. Len(mixed') = Delta(c)
    BY <2>3, <2>4
  <2>6. /\ \A i \in 1..Delta(c) :
             mixed'[i] = IF i <= Played(c) THEN (GetPos + i - 1) % WaveLen ELSE Quiet
        /\ GetPos' = (GetPos + Played(c)) % WaveLen
    <3>1. CASE Streamed
      BY <2>1, <3>1, LongMix
    <3>2. CASE ~Streamed
      BY <2>1, <3>2, ShortMix
    <3>3. QED BY <3>1, <3>2
  <2>7. Played(c) \in 0..Len(mixed')
    BY <2>4, <2>5
  <2>8. QED BY Zenon, <2>5, <2>6, <2>7
<1>2. QED BY <1>1, InvAlways, PTL DEF Spec, PlaysFile
-----------------------------------------------------------------------------
(* On a file shorter than the ring, the end of the file is known from the  *)
(* opening on, and "looped" has been said if it has been mixed.            *)
LoopInv == (polling => bufloopat = WaveBufLen) /\ (looped <=> ended)

LEMMA MixLoops ==
  ASSUME NoRace, ~Streamed, IInv, LoopInv, NEW c \in Ctx, Mix(c)
  PROVE  LoopInv'
<1> DEFINE E == \E i \in 1..Played(c) : mixed'[i] = WaveLen - 1
<1>1. pc[c] = "mix" /\ polling
  BY DEF Mix, IInv, PollInv
<1>2. looped' = (looped \/ AtLoop(c)) /\ ended' = (ended \/ E)
  BY MixDoes
<1>3. UNCHANGED <<polling, bufloopat>>
  BY DEF Mix
<1>4. CASE looped
  BY <1>2, <1>3, <1>4 DEF LoopInv
<1>5. CASE ~looped
  <2>1. WaveBufLen = WaveLen /\ bufloopat = WaveLen
    BY <1>1, ShortCells DEF LoopInv
  <2>2. /\ WaveLen \in Nat \ {0} /\ wavebufpos \in Nat /\ wavebufpos < WaveLen
    BY <2>1, Lengths DEF IInv, TypeInv, RingType, Cells
  <2>3. ToLoop = WaveLen - wavebufpos
    BY <1>5, <2>1, <2>2 DEF ToLoop
  <2>4. /\ Delta(c) \in Nat /\ Wanted(c) \in Nat /\ Wanted(c) <= Delta(c)
        /\ Played(c) \in Nat /\ Played(c) <= Wanted(c)
    BY <1>1, MixSizes
  <2>5. ASSUME NEW i \in 1..Played(c)
        PROVE  mixed'[i] = (wavebufpos + i - 1) % WaveLen
    <3>1. i \in 1..Delta(c) /\ i <= Played(c)
      BY <2>4
    <3>2. GetPos = wavebufpos
      BY DEF GetPos
    <3>3. mixed'[i] = IF i <= Played(c) THEN (GetPos + i - 1) % WaveLen ELSE Quiet
      BY <3>1, ShortMix
    <3>4. QED BY Zenon, <3>1, <3>2, <3>3
  <2>6. CASE AtLoop(c)
    <3> DEFINE last == WaveLen - wavebufpos
    <3>1. last \in 1..Played(c)
      BY <2>2, <2>3, <2>4, <2>6 DEF AtLoop, Played
    <3>2. (wavebufpos + last - 1) % WaveLen = WaveLen - 1
      <4> DEFINE a == wavebufpos + last - 1
      <4>1. a \in Int /\ -WaveLen <= a /\ a < WaveLen + WaveLen /\ a = WaveLen - 1
        BY <2>2
      <4> HIDE DEF a
      <4>2. a % WaveLen = IF a < 0 THEN a + WaveLen ELSE IF a < WaveLen THEN a ELSE a - WaveLen
        BY <4>1, FileWraps
      <4>3. a % WaveLen = WaveLen - 1
        BY <2>2, <4>1, <4>2
      <4>4. QED BY <4>3 DEF a
    <3> HIDE DEF last
    <3>3. mixed'[last] = WaveLen - 1
      BY Zenon, <2>5, <3>1, <3>2
    <3>4. E
      BY <3>1, <3>3
    <3>5. looped' /\ ended'
      BY Zenon, <1>2, <2>6, <3>4
    <3>6. QED BY <1>3, <3>5 DEF LoopInv
  <2>7. CASE ~AtLoop(c)
    <3>1. ASSUME NEW i \in 1..Played(c) PROVE mixed'[i] # WaveLen - 1
      <4> DEFINE a == wavebufpos + i - 1
      <4>1. i \in Nat /\ 1 <= i /\ i <= Played(c)
        BY <2>4
      <4>2. Played(c) < WaveLen - wavebufpos
        BY <2>2, <2>3, <2>4, <2>7 DEF AtLoop
      <4>3. a \in Int /\ -WaveLen <= a /\ a < WaveLen + WaveLen /\ 0 <= a /\ a < WaveLen - 1
        BY <2>2, <2>4, <4>1, <4>2
      <4>4. mixed'[i] = a % WaveLen
        BY <2>5
      <4> HIDE DEF a
      <4>5. a % WaveLen = IF a < 0 THEN a + WaveLen ELSE IF a < WaveLen THEN a ELSE a - WaveLen
        BY <4>3, FileWraps
      <4>6. mixed'[i] = a
        BY <2>2, <4>3, <4>4, <4>5
      <4>7. QED BY <2>2, <4>3, <4>6
    <3>2. ~E
      BY <3>1
    <3> HIDE DEF E
    <3>3. ~ended
      BY <1>5 DEF LoopInv
    <3>4. ~looped' /\ ~ended'
      BY Zenon, <1>2, <1>5, <2>7, <3>2, <3>3
    <3>5. QED BY <1>3, <3>4 DEF LoopInv
  <2>8. QED BY <2>6, <2>7
<1>6. QED BY <1>4, <1>5

LEMMA LoopStep ==
  ASSUME WaveLen < RingMax, ~Streamed, NoRace
  PROVE  IInv /\ LoopInv /\ [Next]_vars => LoopInv'
<1> SUFFICES ASSUME IInv, LoopInv, [Next]_vars PROVE LoopInv'
  OBVIOUS
<1>1. CASE OpenPlayer
  <2>1. RingMax > WaveLen
    BY LengthsAssumption
  <2>2. bufloopat' = WaveBufLen /\ looped' = FALSE /\ ended' = FALSE
    BY <1>1, <2>1 DEF OpenPlayer
  <2>3. QED BY <2>2 DEF LoopInv
<1>2. ASSUME NEW c \in Ctx, Mix(c) PROVE LoopInv'
  BY <1>2, MixLoops
<1>3. ASSUME NEW c \in Ctx, FillSize(c) PROVE LoopInv'
  BY <1>3 DEF FillSize, IInv, DeepInv, Deep
<1>4. ASSUME NEW c \in Ctx,
             Fill(c) \/ FillSeek(c) \/ FillRead(c) \/ FillBufRead(c) \/ FillPos(c)
      PROVE  LoopInv'
  BY <1>4 DEF LoopInv, Fill, FillSeek, FillRead, FillBufRead, FillPos, ring, flags
<1>5. CASE PollClose
  BY <1>5 DEF LoopInv, PollClose, ring
<1>6. CASE Activate \/ WpIdle \/ IsEnd \/ ClosePlayer \/ WavLooped
  BY <1>6 DEF LoopInv, Activate, WpIdle, IsEnd, ClosePlayer, WavLooped, ring, flags
<1>7. ASSUME NEW c \in Ctx, TimerProc(c) PROVE LoopInv'
  BY <1>7 DEF LoopInv, TimerProc, ring, flags
<1>8. CASE SetPosNear \/ SetPosFar \/ SetPosFar2 \/ SetPosFar3
  BY <1>8 DEF LoopInv, SetPosNear, SetPosFar, SetPosFar2, SetPosFar3, flags
<1>9. CASE Pause \/ ToggleLoop \/ Hear \/ UNCHANGED vars
  BY <1>9 DEF LoopInv, Pause, ToggleLoop, Hear, vars, ring, flags
<1>10. QED
  BY <1>1, <1>2, <1>3, <1>4, <1>5, <1>6, <1>7, <1>8, <1>9
     DEF Next, Begins, Goes, FillStep

(* "looped" is said of a file that fits into the ring with a frame to      *)
(* spare when its last frame has been mixed, neither before nor never,     *)
(* whatever interrupts what (timerproc).                                   *)
THEOREM LoopsAtTheEnd == ASSUME WaveLen < RingMax PROVE Spec => []LoopRight
<1>1. ~Streamed /\ NoRace
  BY LengthsAssumption DEF Streamed, WaveBufLen, Least, NoRace
<1>2. Init => LoopInv
  BY DEF Init, LoopInv
<1>3. IInv /\ LoopInv /\ [Next]_vars => LoopInv'
  BY <1>1, LoopStep
<1>4. LoopInv => LoopRight
  BY DEF LoopInv, LoopRight
<1>5. Spec => []IInv
  BY <1>1, InvAlways
<1>6. QED BY <1>2, <1>3, <1>4, <1>5, PTL DEF Spec
=============================================================================
