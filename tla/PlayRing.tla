------------------------------ MODULE PlayRing ------------------------------
(***************************************************************************)
(* What a player device promises to the code that fills its buffer         *)
(* (plrGetBufPos, plrAdvanceTo and plrIdle of dev/player.h): a first-in    *)
(* first-out queue of samples.  The player appends no more than the space  *)
(* it was told of, the sound hardware takes the samples out in the order   *)
(* in which they were produced, and none is lost, repeated or overwritten. *)
(* Samples are told apart by a number; numbers are reused after Labels     *)
(* samples.                                                                *)
(***************************************************************************)
EXTENDS Naturals, Sequences

CONSTANTS
  Capacity,   \* samples that may be waiting to be heard at any time
  Labels      \* how many sample numbers there are

VARIABLES
  open,       \* between plrPlay and plrStop
  fifo,       \* the samples produced and not yet heard, oldest first
  next        \* the number of the next sample to be produced

ringvars == <<open, fifo, next>>

Init == open = FALSE /\ fifo = <<>> /\ next = 0

(* plrPlay, which may fail, and plrStop, which drops what was not heard.   *)
Play == ~open /\ open' \in BOOLEAN /\ fifo' = <<>> /\ next' = 0
Stop == open /\ open' = FALSE /\ fifo' = <<>> /\ UNCHANGED next

(* plrAdvanceTo: n fresh samples become available to the device.           *)
Produce(n) ==
  /\ open
  /\ Len(fifo) + n <= Capacity
  /\ fifo' = fifo \o [i \in 1..n |-> (next + i - 1) % Labels]
  /\ next' = (next + n) % Labels
  /\ UNCHANGED open

(* The hardware plays the oldest sample.                                   *)
Hear ==
  /\ open
  /\ fifo # <<>>
  /\ fifo' = Tail(fifo)
  /\ UNCHANGED <<open, next>>

Next == Play \/ Stop \/ (\E n \in 1..Capacity : Produce(n)) \/ Hear

Spec == Init /\ [][Next]_ringvars
=============================================================================
