--------------------------- MODULE SensorChannel ---------------------------
(***************************************************************************)
(* What the event path of the anti-ransomware sensor promises, without its *)
(* ring buffer, lock, flag or dispatch queues: a bounded FIFO channel of   *)
(* retained Endpoint Security messages with one consumer.                  *)
(*                                                                         *)
(* native/anti_ransomware_sensor/README.md: "submits ownership to a fixed  *)
(* 4,096-entry queue.  Rejection releases immediately.  One serial         *)
(* processing queue drains and releases accepted messages exactly once.    *)
(* Shutdown releases remaining queued ownership."                          *)
(***************************************************************************)
EXTENDS Naturals, Sequences

CONSTANTS Capacity,   \* number of slots of the channel
          Message,    \* Endpoint Security messages
          NoMessage   \* the null pointer

VARIABLES pending,    \* accepted messages not yet taken, oldest first
          taken,      \* the message the consumer is working on
          closed      \* the sensor released its queue

vars == <<pending, taken, closed>>

Init ==
    /\ pending = <<>>
    /\ taken = NoMessage
    /\ closed = FALSE

\* The callback hands a message over while there is room.
Accept(m) ==
    /\ ~closed
    /\ Len(pending) < Capacity
    /\ pending' = Append(pending, m)
    /\ UNCHANGED <<taken, closed>>

\* The consumer takes the oldest message, one at a time.
Take ==
    /\ pending # <<>>
    /\ taken = NoMessage
    /\ taken' = Head(pending)
    /\ pending' = Tail(pending)
    /\ UNCHANGED closed

\* The consumer has delivered and released its message.
Finish ==
    /\ taken # NoMessage
    /\ taken' = NoMessage
    /\ UNCHANGED <<pending, closed>>

\* Shutdown releases whatever is still queued; nothing is accepted afterwards.
Close ==
    /\ ~closed
    /\ closed' = TRUE
    /\ pending' = <<>>
    /\ UNCHANGED taken

Next == (\E m \in Message : Accept(m)) \/ Take \/ Finish \/ Close

Spec == Init /\ [][Next]_vars
=============================================================================
