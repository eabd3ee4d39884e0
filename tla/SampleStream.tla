---------------------------- MODULE SampleStream ----------------------------
(***************************************************************************)
(* What the input path of the driver promises to its users, whatever       *)
(* contexts run it: pulses are queued in order and handed out in order.    *)
(* Samples are lost in two ways only: a new one when the hardware has no   *)
(* room for it, and the oldest half of a fifo that is full.                *)
(***************************************************************************)
EXTENDS Integers, Sequences

CONSTANTS
  Capacity,     \* samples the driver queues
  HwCapacity    \* samples the hardware queues for it

VARIABLES
  stamped,      \* pulses so far
  queue,        \* samples queued, oldest first
  out           \* samples handed out

streamVars == <<stamped, queue, out>>

Init == stamped = 0 /\ queue = <<>> /\ out = <<>>

\* A pulse is queued.
Stamp ==
  /\ stamped' = stamped + 1
  /\ queue' = Append(queue, stamped + 1)
  /\ UNCHANGED out

\* A pulse is not queued: the hardware is full.
Miss ==
  /\ Len(queue) >= HwCapacity
  /\ stamped' = stamped + 1
  /\ UNCHANGED <<queue, out>>

\* The fifo is full and one more sample waits: the oldest half is dropped.
DropHalf ==
  /\ Len(queue) > Capacity
  /\ queue' = SubSeq(queue, Capacity \div 2 + 1, Len(queue))
  /\ UNCHANGED <<stamped, out>>

\* The oldest sample is handed out.
HandOut ==
  /\ queue # <<>>
  /\ out' = Append(out, Head(queue))
  /\ queue' = Tail(queue)
  /\ UNCHANGED stamped

Next == Stamp \/ Miss \/ DropHalf \/ HandOut

Spec == Init /\ [][Next]_streamVars
============================================================================
