-------------------------- MODULE SensorRingProofs --------------------------
(***************************************************************************)
(* What SensorQueueProofs leaves open: that the ring buffer is a queue, who *)
(* owns a message, how sequence numbers add up, and that the event path    *)
(* implements SensorChannel; for every Capacity and MaxSeq.                *)
(***************************************************************************)
EXTENDS SensorQueueProofs, SequenceTheorems

-----------------------------------------------------------------------------
(* The inductive invariant: messages are ordered along their way from the  *)
(* drain through the ring to the callback.                                 *)

\* The ring holds messages in the order of their numbers.
RingOrdered ==
    /\ \A i \in 0..count-1 : RingAt(i) \in Message /\ RingAt(i) <= esSeq
    /\ \A i, j \in 0..count-1 : i < j => RingAt(i) < RingAt(j)

\* The message the callback is about to push is newer than all others.
CallbackNewest ==
    hpc = "retained" =>
        /\ hmsg \in Message /\ hmsg = esSeq
        /\ wmsg < hmsg /\ last_global_sequence < hmsg
        /\ \A i \in 0..count-1 : RingAt(i) < hmsg

\* The drain works on a message exactly between its pop and its release, one that
\* is older than what is queued and newer than what has been observed.
DrainOldest ==
    /\ wpc \in {"idle", "pop"} <=> wmsg = NoMessage
    /\ wmsg <= esSeq /\ last_global_sequence <= esSeq
    /\ \A i \in 0..count-1 : wmsg < RingAt(i) /\ last_global_sequence < RingAt(i)
    /\ wpc = "observe" => last_global_sequence < wmsg

OrderInv == RingOrdered /\ CallbackNewest /\ DrainOldest

-----------------------------------------------------------------------------
(* Ring arithmetic.                                                        *)

\* Indices wrap once.
LEMMA Wrap ==
  \A a \in Slot, i \in 0..Capacity :
      (a + i) % Capacity = IF a + i < Capacity THEN a + i ELSE a + i - Capacity
  <1>. DEFINE Mod(x) == x % Capacity
  <1>1. \A x \in Nat : x < 2 * Capacity =>
            Mod(x) = IF x < Capacity THEN x ELSE x - Capacity
    BY CapacityAssumption
  <1>2. ASSUME NEW a \in Slot, NEW i \in 0..Capacity
        PROVE  a + i \in Nat /\ a + i < 2 * Capacity
    BY CapacityAssumption DEF Slot
  <1>. HIDE DEF Mod
  <1>3. \A a \in Slot, i \in 0..Capacity :
            Mod(a + i) = IF a + i < Capacity THEN a + i ELSE a + i - Capacity
    BY <1>1, <1>2, CapacityAssumption DEF Slot
  <1>. QED BY <1>3 DEF Mod

\* The positions of a ring are different slots.
LEMMA WrapInjective ==
  ASSUME NEW a \in Slot, NEW i \in 0..Capacity-1, NEW j \in 0..Capacity-1, i # j
  PROVE  (a + i) % Capacity # (a + j) % Capacity
  <1>1. /\ (a + i) % Capacity = IF a + i < Capacity THEN a + i ELSE a + i - Capacity
        /\ (a + j) % Capacity = IF a + j < Capacity THEN a + j ELSE a + j - Capacity
    BY CapacityAssumption, Wrap
  <1>. QED BY <1>1, CapacityAssumption DEF Slot

\* Moving the head by one renumbers the positions by one.
LEMMA WrapShift ==
  ASSUME NEW a \in Slot, NEW i \in 0..Capacity-1
  PROVE  (((a + 1) % Capacity) + i) % Capacity = (a + (i + 1)) % Capacity
  <1>1. 1 \in 0..Capacity /\ i \in 0..Capacity /\ i + 1 \in 0..Capacity
    BY CapacityAssumption
  <1>2. (a + 1) % Capacity = IF a + 1 < Capacity THEN a + 1 ELSE a + 1 - Capacity
    BY <1>1, Wrap
  <1>3. (a + 1) % Capacity \in Slot
    BY <1>2, CapacityAssumption DEF Slot
  <1>4. (a + (i + 1)) % Capacity = IF a + (i + 1) < Capacity THEN a + (i + 1) ELSE a + (i + 1) - Capacity
    BY <1>1, Wrap
  <1>5. (((a + 1) % Capacity) + i) % Capacity
            = IF ((a + 1) % Capacity) + i < Capacity THEN ((a + 1) % Capacity) + i
              ELSE ((a + 1) % Capacity) + i - Capacity
    BY <1>1, <1>3, Wrap
  <1>. QED BY <1>2, <1>4, <1>5, CapacityAssumption DEF Slot

\* A position of the ring after the step.
NextAt(i) == items'[(head' + i) % Capacity]

\* msaa_ar_queue_push adds m behind the others.
LEMMA PushRing ==
  ASSUME TypeOK, NEW m, PushAccepts, msaa_ar_queue_push(m)
  PROVE  /\ count' = count + 1 /\ count < Capacity
         /\ \A i \in 0..count-1 : NextAt(i) = RingAt(i)
         /\ NextAt(count) = m
  <1>0. /\ head \in Slot /\ count \in 0..Capacity-1 /\ items \in [Slot -> Message \cup {NoMessage}]
        /\ head' = head /\ count' = count + 1
        /\ items' = [items EXCEPT ![(head + count) % Capacity] = m]
    BY CapacityAssumption DEF TypeOK, PushAccepts, msaa_ar_queue_push
  <1>1. ASSUME NEW i \in 0..count PROVE (head + i) % Capacity \in Slot
    <2>1. head + i \in Nat
      BY <1>0, CapacityAssumption DEF Slot
    <2>. QED BY <2>1, RingIndex
  <1>2. ASSUME NEW i \in 0..count-1 PROVE NextAt(i) = RingAt(i)
    <2>1. i \in 0..Capacity-1 /\ i # count /\ i \in 0..count
      BY <1>0, CapacityAssumption
    <2>2. (head + i) % Capacity # (head + count) % Capacity
      BY <1>0, <2>1, WrapInjective
    <2>. QED BY <1>0, <1>1, <2>1, <2>2 DEF NextAt, RingAt
  <1>3. NextAt(count) = m
    <2>1. (head + count) % Capacity \in Slot
      BY <1>0, <1>1, CapacityAssumption
    <2>. QED BY <1>0, <2>1 DEF NextAt
  <1>. QED BY <1>0, <1>2, <1>3, CapacityAssumption

\* msaa_ar_queue_pop removes the first position.
LEMMA PopRing ==
  ASSUME TypeOK, count # 0, msaa_ar_queue_pop
  PROVE  /\ count' = count - 1 /\ count - 1 \in Nat
         /\ items[head] = RingAt(0)
         /\ \A i \in 0..count-2 : NextAt(i) = RingAt(i + 1)
  <1>0. /\ head \in Slot /\ count \in 1..Capacity /\ items \in [Slot -> Message \cup {NoMessage}]
        /\ head' = (head + 1) % Capacity /\ count' = count - 1
        /\ items' = [items EXCEPT ![head] = NoMessage]
    BY CapacityAssumption DEF TypeOK, msaa_ar_queue_pop
  <1>1. (head + 0) % Capacity = head
    <2>1. 0 \in 0..Capacity /\ head + 0 = head /\ head < Capacity
      BY <1>0, CapacityAssumption DEF Slot
    <2>. QED BY <1>0, <2>1, Wrap
  <1>2. ASSUME NEW i \in 0..count-2 PROVE NextAt(i) = RingAt(i + 1)
    <2>1. i \in 0..Capacity-1 /\ i + 1 \in 0..Capacity-1 /\ 0 \in 0..Capacity-1 /\ i + 1 # 0
      BY <1>0, CapacityAssumption
    <2>2. (head' + i) % Capacity = (head + (i + 1)) % Capacity
      BY <1>0, <2>1, WrapShift
    <2>3. (head + (i + 1)) % Capacity # head
      BY <1>0, <1>1, <2>1, WrapInjective
    <2>4. (head + (i + 1)) % Capacity \in Slot
      <3>1. head + (i + 1) \in Nat
        BY <1>0, <2>1, CapacityAssumption DEF Slot
      <3>. QED BY <3>1, RingIndex
    <2>. QED BY <1>0, <2>2, <2>3, <2>4 DEF NextAt, RingAt
  <1>. QED BY <1>0, <1>1, <1>2, CapacityAssumption DEF RingAt

-----------------------------------------------------------------------------
(* Order.                                                                  *)

\* The invariant after a step, in terms of NextAt.
LEMMA OrderNext ==
  OrderInv' <=>
    /\ \A i \in 0..count'-1 : NextAt(i) \in Message /\ NextAt(i) <= esSeq'
    /\ \A i, j \in 0..count'-1 : i < j => NextAt(i) < NextAt(j)
    /\ hpc' = "retained" =>
        /\ hmsg' \in Message /\ hmsg' = esSeq'
        /\ wmsg' < hmsg' /\ last_global_sequence' < hmsg'
        /\ \A i \in 0..count'-1 : NextAt(i) < hmsg'
    /\ wpc' \in {"idle", "pop"} <=> wmsg' = NoMessage
    /\ wmsg' <= esSeq' /\ last_global_sequence' <= esSeq'
    /\ \A i \in 0..count'-1 : wmsg' < NextAt(i) /\ last_global_sequence' < NextAt(i)
    /\ wpc' = "observe" => last_global_sequence' < wmsg'
  BY DEF OrderInv, RingOrdered, CallbackNewest, DrainOldest, NextAt, RingAt, Message

\* A step that leaves the ring alone leaves its positions alone.
LEMMA SameRing ==
  ASSUME UNCHANGED <<items, head, count>>
  PROVE  count' = count /\ \A i : NextAt(i) = RingAt(i)
  BY DEF NextAt, RingAt

\* Numbers are numbers.
LEMMA OrderTypes ==
  ASSUME TypeOK
  PROVE  /\ esSeq \in Nat /\ wmsg \in Nat /\ hmsg \in Nat /\ last_global_sequence \in Nat
         /\ count \in Nat /\ count <= Capacity /\ Capacity \in Nat
         /\ Message \subseteq Nat /\ \A m \in Message : m \in Nat /\ m > 0
  BY CapacityAssumption, MaxSeqAssumption DEF TypeOK, Message, NoMessage

\* The callback numbers its messages upwards, and push, pop and wrap keep the ring
\* in that order.
LEMMA OrderInductive ==
  ASSUME TypeOK, OrderInv, [Next]_vars PROVE OrderInv'
  <1>. USE OrderTypes DEF Running, queueVars, metricVars, countVars, esVars, handlerVars, workerVars,
              mainVars, healthVars, probeVars, otherThanMain, NoMessage
  <1>0. /\ \A i \in 0..count-1 : RingAt(i) \in Message /\ RingAt(i) \in Nat /\ RingAt(i) <= esSeq
        /\ \A i, j \in 0..count-1 : i < j => RingAt(i) < RingAt(j)
        /\ hpc = "retained" =>
            /\ hmsg \in Message /\ hmsg = esSeq
            /\ wmsg < hmsg /\ last_global_sequence < hmsg
            /\ \A i \in 0..count-1 : RingAt(i) < hmsg
        /\ wpc \in {"idle", "pop"} <=> wmsg = NoMessage
        /\ wmsg <= esSeq /\ last_global_sequence <= esSeq
        /\ \A i \in 0..count-1 : wmsg < RingAt(i) /\ last_global_sequence < RingAt(i)
        /\ wpc = "observe" => last_global_sequence < wmsg
    BY DEF OrderInv, RingOrdered, CallbackNewest, DrainOldest
  <1>1. ASSUME NEW m \in Message, handle_message_Receive(m) PROVE OrderInv'
    <2>1. /\ count' = count /\ \A i : NextAt(i) = RingAt(i)
          /\ esSeq' = m /\ m > esSeq /\ hmsg' = m /\ m \in Nat
          /\ wmsg' = wmsg /\ wpc' = wpc /\ last_global_sequence' = last_global_sequence
      BY <1>1, SameRing DEF handle_message_Receive
    <2>. QED BY <1>0, <2>1, OrderNext
  <1>2. CASE handle_message_Push
    <2>0. /\ msaa_ar_queue_push(hmsg) /\ hpc = "retained" /\ esSeq' = esSeq
          /\ wmsg' = wmsg /\ wpc' = wpc /\ last_global_sequence' = last_global_sequence
          /\ hpc' # "retained"
      BY <1>2 DEF handle_message_Push
    <2>1. CASE PushAccepts
      <3>1. /\ count' = count + 1
            /\ \A i \in 0..count-1 : NextAt(i) = RingAt(i)
            /\ NextAt(count) = hmsg
        BY <2>0, <2>1, PushRing
      <3>2. \A i \in 0..count'-1 : i \in 0..count-1 \/ i = count
        BY <3>1
      <3>3. /\ \A i \in 0..count'-1 : NextAt(i) \in Message /\ NextAt(i) <= esSeq'
            /\ \A i \in 0..count'-1 : wmsg < NextAt(i) /\ last_global_sequence < NextAt(i)
        BY <1>0, <2>0, <3>1, <3>2
      <3>4. ASSUME NEW i \in 0..count'-1, NEW j \in 0..count'-1, i < j PROVE NextAt(i) < NextAt(j)
        <4>1. i \in 0..count-1
          BY <3>1, <3>4
        <4>2. CASE j = count
          BY <1>0, <2>0, <3>1, <4>1, <4>2
        <4>3. CASE j \in 0..count-1
          BY <1>0, <3>1, <3>4, <4>1, <4>3
        <4>. QED BY <3>2, <4>2, <4>3
      <3>. QED BY <1>0, <2>0, <3>3, <3>4, OrderNext
    <2>2. CASE ~PushAccepts
      <3>1. count' = count /\ \A i : NextAt(i) = RingAt(i)
        BY <2>0, <2>2, SameRing DEF msaa_ar_queue_push
      <3>. QED BY <1>0, <2>0, <3>1, OrderNext
    <2>. QED BY <2>1, <2>2
  <1>3. CASE drain_messages_Pop
    <2>0. /\ msaa_ar_queue_pop /\ count # 0 /\ wmsg' = items[head] /\ wpc' = "observe"
          /\ esSeq' = esSeq /\ hpc' = hpc /\ hmsg' = hmsg
          /\ last_global_sequence' = last_global_sequence
      BY <1>3 DEF drain_messages_Pop
    <2>1. /\ count' = count - 1 /\ wmsg' = RingAt(0)
          /\ \A i \in 0..count-2 : NextAt(i) = RingAt(i + 1)
      BY <2>0, PopRing
    <2>2. /\ 0 \in 0..count-1
          /\ \A i \in 0..count'-1 : i \in 0..count-2 /\ i + 1 \in 0..count-1 /\ 0 < i + 1
      BY <2>0, <2>1
    <2>3. \A i \in 0..count'-1 : /\ NextAt(i) \in Message /\ NextAt(i) <= esSeq
                                 /\ wmsg' < NextAt(i) /\ last_global_sequence < NextAt(i)
      BY <1>0, <2>1, <2>2
    <2>4. ASSUME NEW i \in 0..count'-1, NEW j \in 0..count'-1, i < j PROVE NextAt(i) < NextAt(j)
      BY <1>0, <2>1, <2>2, <2>4
    <2>5. wmsg' \in Nat /\ wmsg' # NoMessage /\ wmsg' <= esSeq /\ last_global_sequence < wmsg'
          /\ (hpc = "retained" => wmsg' < hmsg)
      BY <1>0, <2>1, <2>2
    <2>6. hpc = "retained" => \A i \in 0..count'-1 : NextAt(i) < hmsg
      BY <1>0, <2>1, <2>2
    <2>. QED BY <1>0, <2>0, <2>3, <2>4, <2>5, <2>6, OrderNext
  <1>4. CASE drain_messages_Observe
    <2>1. /\ count' = count /\ \A i : NextAt(i) = RingAt(i)
          /\ esSeq' = esSeq /\ hpc' = hpc /\ hmsg' = hmsg /\ wmsg' = wmsg
          /\ wpc = "observe" /\ wpc' = "flag"
      BY <1>4, SameRing DEF drain_messages_Observe
    <2>2. last_global_sequence' = wmsg
      BY <1>0, <1>4 DEF drain_messages_Observe, msaa_ar_observe_sequence
    <2>. QED BY <1>0, <2>1, <2>2, OrderNext
  <1>5. CASE drain_messages_Release
    <2>1. /\ count' = count /\ \A i : NextAt(i) = RingAt(i)
          /\ esSeq' = esSeq /\ hpc' = hpc /\ hmsg' = hmsg /\ wmsg' = NoMessage
          /\ wpc' = "pop" /\ last_global_sequence' = last_global_sequence
      BY <1>5, SameRing DEF drain_messages_Release
    <2>. QED BY <1>0, <2>1, OrderNext
  <1>6. CASE connect_sensor_Fails \/ shutdown_sensor_Destroy
    <2>1. /\ count' = 0 /\ esSeq' = esSeq /\ hpc' = hpc /\ hmsg' = hmsg /\ wmsg' = wmsg
          /\ wpc' = wpc /\ last_global_sequence' = last_global_sequence
      BY <1>6 DEF connect_sensor_Fails, shutdown_sensor_Destroy, msaa_ar_queue_destroy
    <2>2. \A i : i \notin 0..count'-1
      BY <2>1
    <2>. QED BY <1>0, <2>1, <2>2, OrderNext
  <1>7. CASE handle_message_Accepted \/ handle_message_Refused \/ handle_message_Schedule
             \/ handle_message_Dispatch
    <2>1. /\ count' = count /\ \A i : NextAt(i) = RingAt(i)
          /\ esSeq' = esSeq /\ hpc' # "retained" /\ wmsg' = wmsg
          /\ wpc' = wpc /\ last_global_sequence' = last_global_sequence
      BY <1>7, SameRing DEF handle_message_Accepted, handle_message_Refused,
                 handle_message_Schedule, handle_message_Dispatch
    <2>. QED BY <1>0, <2>1, OrderNext
  <1>8. CASE drain_messages_Start \/ drain_messages_Empty \/ drain_messages_Flag
             \/ drain_messages_Deliver
    <2>1. /\ count' = count /\ \A i : NextAt(i) = RingAt(i)
          /\ esSeq' = esSeq /\ hpc' = hpc /\ hmsg' = hmsg /\ wmsg' = wmsg
          /\ wpc' # "observe" /\ last_global_sequence' = last_global_sequence
          /\ wpc' \in {"idle", "pop"} <=> wpc \in {"idle", "pop"}
      BY <1>8, SameRing DEF drain_messages_Start, drain_messages_Empty, drain_messages_Flag,
                 drain_messages_Deliver
    <2>. QED BY <1>0, <2>1, OrderNext
  <1>9. CASE connect_sensor \/ heartbeat \/ shutdown_sensor_Signal \/ shutdown_sensor_ProbeDone
             \/ shutdown_sensor_ProbeTimeout \/ write_health_Locked \/ write_health_Write
             \/ shutdown_sensor_Delete \/ shutdown_sensor_Sync \/ shutdown_sensor_Exit
             \/ UNCHANGED vars
    <2>1. /\ count' = count /\ \A i : NextAt(i) = RingAt(i)
          /\ esSeq' = esSeq /\ hpc' = hpc /\ hmsg' = hmsg /\ wmsg' = wmsg
          /\ wpc' = wpc /\ last_global_sequence' = last_global_sequence
      BY <1>9, SameRing DEF connect_sensor, heartbeat, shutdown_sensor_Signal,
           shutdown_sensor_ProbeDone, shutdown_sensor_ProbeTimeout, BeginShutdown,
           write_health_Locked, write_health_Write, shutdown_sensor_Delete,
           shutdown_sensor_Sync, shutdown_sensor_Exit, vars
    <2>. QED BY <1>0, <2>1, OrderNext
  <1>. QED BY <1>1, <1>2, <1>3, <1>4, <1>5, <1>6, <1>7, <1>8, <1>9
       DEF Next, Handler, Worker, Main, write_health, Exited

\* The order holds in every reachable state.
LEMMA SpecOrder == Spec => [](TypeOK /\ OrderInv)
  <1>1. Init => OrderInv
    <2> SUFFICES ASSUME Init PROVE OrderInv
      OBVIOUS
    <2>1. \A i : i \notin 0..count-1
      BY DEF Init
    <2>. QED BY <2>1 DEF Init, OrderInv, RingOrdered, CallbackNewest, DrainOldest, NoMessage
  <1>. QED BY <1>1, OrderInductive, TypeCorrect, PTL DEF Spec

-----------------------------------------------------------------------------
(* Ownership.                                                              *)

\* Owners of a message in this state and in the next.
Owners(m) == One(hmsg = m /\ hpc \in {"retained", "refused"}) + One(InRing(m)) + One(wmsg = m)
NextInRing(m) == \E i \in 0..count'-1 : NextAt(i) = m
NextOwners(m) ==
    One(hmsg' = m /\ hpc' \in {"retained", "refused"}) + One(NextInRing(m)) + One(wmsg' = m)

\* The invariant after a step, in terms of what the step makes of the owners.
LEMMA OwnedNext == MessageOwnedOnce' <=> \A m \in Message : refs'[m] = NextOwners(m)
  BY DEF MessageOwnedOnce, InRing, NextInRing, NextAt, RingAt, NextOwners, One, Message

\* Every step that passes a message on passes its one reference on, and every
\* release is of a message that its owner lets go.
LEMMA OwnershipInductive ==
  ASSUME TypeOK, OrderInv, MessageOwnedOnce, [Next]_vars PROVE MessageOwnedOnce'
  <1> SUFFICES ASSUME NEW m \in Message PROVE refs'[m] = NextOwners(m)
    BY OwnedNext
  <1>. USE OrderTypes DEF Running, queueVars, metricVars, countVars, esVars, handlerVars, workerVars,
              mainVars, healthVars, probeVars, otherThanMain, NoMessage
  <1>0. /\ refs[m] = Owners(m) /\ refs \in [Message -> Int] /\ refs[m] \in Int
        /\ m \in Nat /\ m > 0
    BY DEF MessageOwnedOnce, Owners, TypeOK
  <1>1. /\ \A i \in 0..count-1 : RingAt(i) \in Message
        /\ \A i, j \in 0..count-1 : i < j => RingAt(i) # RingAt(j)
        /\ hpc = "retained" => hmsg \in Message /\ \A i \in 0..count-1 : RingAt(i) # hmsg
        /\ wpc \in {"idle", "pop"} <=> wmsg = NoMessage
    <2>1. \A i \in 0..count-1 : RingAt(i) \in Nat
      BY DEF OrderInv, RingOrdered
    <2>. QED BY <2>1 DEF OrderInv, RingOrdered, CallbackNewest, DrainOldest
  <1>2. ASSUME UNCHANGED <<items, head, count>> PROVE NextInRing(m) <=> InRing(m)
    BY <1>2, SameRing DEF NextInRing, InRing
  <1>3. ASSUME NEW n \in Message, handle_message_Receive(n) PROVE refs'[m] = NextOwners(m)
    <2>1. /\ refs' = [refs EXCEPT ![n] = @ + 1] /\ hpc = "idle" /\ hpc' = "retained" /\ hmsg' = n
          /\ wmsg' = wmsg /\ UNCHANGED <<items, head, count>>
      BY <1>3 DEF handle_message_Receive
    <2>2. NextInRing(m) <=> InRing(m)
      BY <1>2, <2>1
    <2>. QED BY <1>0, <2>1, <2>2 DEF Owners, NextOwners, One
  <1>4. CASE handle_message_Push
    <2>0. /\ msaa_ar_queue_push(hmsg) /\ hpc = "retained" /\ hmsg' = hmsg /\ refs' = refs
          /\ wmsg' = wmsg /\ hpc' = IF PushAccepts THEN "accepted" ELSE "refused"
      BY <1>4 DEF handle_message_Push
    <2>1. CASE PushAccepts
      <3>1. /\ count' = count + 1
            /\ \A i \in 0..count-1 : NextAt(i) = RingAt(i)
            /\ NextAt(count) = hmsg
        BY <2>0, <2>1, PushRing
      <3>2. /\ \A i \in 0..count'-1 : i \in 0..count-1 \/ i = count
            /\ \A i \in 0..count-1 : i \in 0..count'-1
            /\ count \in 0..count'-1
        BY <3>1
      <3>3. NextInRing(m) <=> InRing(m) \/ m = hmsg
        BY <3>1, <3>2 DEF NextInRing, InRing
      <3>4. ~(InRing(m) /\ m = hmsg)
        BY <1>1, <2>0 DEF InRing
      <3>. QED BY <1>0, <2>0, <2>1, <3>3, <3>4 DEF Owners, NextOwners, One
    <2>2. CASE ~PushAccepts
      <3>1. NextInRing(m) <=> InRing(m)
        BY <1>2, <2>0, <2>2 DEF msaa_ar_queue_push
      <3>. QED BY <1>0, <2>0, <2>2, <3>1 DEF Owners, NextOwners, One
    <2>. QED BY <2>1, <2>2
  <1>5. CASE handle_message_Refused
    <2>1. /\ refs' = [refs EXCEPT ![hmsg] = @ - 1] /\ hpc = "refused" /\ hpc' = "idle"
          /\ wmsg' = wmsg /\ UNCHANGED <<items, head, count>>
      BY <1>5 DEF handle_message_Refused
    <2>2. NextInRing(m) <=> InRing(m)
      BY <1>2, <2>1
    <2>. QED BY <1>0, <2>1, <2>2 DEF Owners, NextOwners, One
  <1>6. CASE drain_messages_Pop
    <2>0. /\ msaa_ar_queue_pop /\ count # 0 /\ wmsg' = items[head] /\ wpc = "pop"
          /\ hpc' = hpc /\ hmsg' = hmsg /\ refs' = refs
      BY <1>6 DEF drain_messages_Pop
    <2>1. /\ count' = count - 1 /\ wmsg' = RingAt(0)
          /\ \A i \in 0..count-2 : NextAt(i) = RingAt(i + 1)
      BY <2>0, PopRing
    <2>2. /\ 0 \in 0..count-1
          /\ \A i \in 0..count'-1 : i \in 0..count-2 /\ i + 1 \in 0..count-1 /\ 0 < i + 1
          /\ \A j \in 0..count-1 : j = 0 \/ (j - 1 \in 0..count'-1 /\ (j - 1) + 1 = j)
      BY <2>0, <2>1
    <2>3. wmsg = NoMessage
      BY <1>1, <2>0
    <2>4. InRing(m) <=> NextInRing(m) \/ m = RingAt(0)
      <3>1. ASSUME InRing(m), m # RingAt(0) PROVE NextInRing(m)
        <4>1. PICK j \in 0..count-1 : RingAt(j) = m
          BY <3>1 DEF InRing
        <4>2. j - 1 \in 0..count'-1 /\ (j - 1) + 1 = j
          BY <2>2, <3>1, <4>1
        <4>3. NextAt(j - 1) = RingAt((j - 1) + 1)
          BY <2>1, <2>2, <4>2
        <4>. QED BY <4>1, <4>2, <4>3 DEF NextInRing
      <3>2. NextInRing(m) => InRing(m)
        BY <2>1, <2>2 DEF NextInRing, InRing
      <3>3. m = RingAt(0) => InRing(m)
        BY <2>2 DEF InRing
      <3>. QED BY <3>1, <3>2, <3>3
    <2>5. ~(NextInRing(m) /\ m = RingAt(0))
      BY <1>1, <2>1, <2>2 DEF NextInRing
    <2>. QED BY <1>0, <2>0, <2>1, <2>3, <2>4, <2>5 DEF Owners, NextOwners, One
  <1>7. CASE drain_messages_Release
    <2>1. /\ refs' = [refs EXCEPT ![wmsg] = @ - 1] /\ wmsg' = NoMessage
          /\ hpc' = hpc /\ hmsg' = hmsg /\ UNCHANGED <<items, head, count>>
      BY <1>7 DEF drain_messages_Release
    <2>2. NextInRing(m) <=> InRing(m)
      BY <1>2, <2>1
    <2>. QED BY <1>0, <2>1, <2>2 DEF Owners, NextOwners, One
  <1>8. CASE connect_sensor_Fails \/ shutdown_sensor_Destroy
    <2>1. /\ msaa_ar_queue_destroy /\ count' = 0 /\ hpc' = hpc /\ hmsg' = hmsg /\ wmsg' = wmsg
      BY <1>8 DEF connect_sensor_Fails, shutdown_sensor_Destroy, msaa_ar_queue_destroy
    <2>2. refs'[m] = refs[m] - One(InRing(m))
      BY <2>1 DEF msaa_ar_queue_destroy, One, InRing
    <2>3. ~NextInRing(m)
      BY <2>1 DEF NextInRing
    <2>. QED BY <1>0, <2>1, <2>2, <2>3 DEF Owners, NextOwners, One
  <1>9. CASE handle_message_Accepted \/ handle_message_Schedule \/ handle_message_Dispatch
    <2>1. /\ hpc \notin {"retained", "refused"} /\ hpc' \notin {"retained", "refused"}
          /\ wmsg' = wmsg /\ refs' = refs /\ UNCHANGED <<items, head, count>>
      BY <1>9 DEF handle_message_Accepted, handle_message_Schedule, handle_message_Dispatch
    <2>2. NextInRing(m) <=> InRing(m)
      BY <1>2, <2>1
    <2>. QED BY <1>0, <2>1, <2>2 DEF Owners, NextOwners, One
  <1>10. CASE \/ drain_messages_Start \/ drain_messages_Empty \/ drain_messages_Observe
              \/ drain_messages_Flag \/ drain_messages_Deliver
              \/ connect_sensor \/ heartbeat \/ shutdown_sensor_Signal \/ shutdown_sensor_ProbeDone
              \/ shutdown_sensor_ProbeTimeout \/ write_health_Locked \/ write_health_Write
              \/ shutdown_sensor_Delete \/ shutdown_sensor_Sync \/ shutdown_sensor_Exit
              \/ UNCHANGED vars
    <2>1. /\ hpc' = hpc /\ hmsg' = hmsg /\ wmsg' = wmsg /\ refs' = refs
          /\ UNCHANGED <<items, head, count>>
      BY <1>10 DEF drain_messages_Start, drain_messages_Empty, drain_messages_Observe,
           drain_messages_Flag, drain_messages_Deliver, connect_sensor, heartbeat,
           shutdown_sensor_Signal, shutdown_sensor_ProbeDone, shutdown_sensor_ProbeTimeout,
           BeginShutdown, write_health_Locked, write_health_Write, shutdown_sensor_Delete,
           shutdown_sensor_Sync, shutdown_sensor_Exit, vars
    <2>2. NextInRing(m) <=> InRing(m)
      BY <1>2, <2>1
    <2>. QED BY <1>0, <2>1, <2>2 DEF Owners, NextOwners, One
  <1>. QED BY <1>3, <1>4, <1>5, <1>6, <1>7, <1>8, <1>9, <1>10
       DEF Next, Handler, Worker, Main, write_health, Exited

\* A retained Endpoint Security message has exactly one owner and is released
\* exactly once, in every interleaving of the callback, the drain and the
\* shutdown, whatever the size of the ring.
THEOREM OwnedExactlyOnce == Spec => []MessageOwnedOnce
  <1>1. Init => MessageOwnedOnce
    BY DEF Init, MessageOwnedOnce, InRing, One, NoMessage, Message
  <1>. QED BY <1>1, OwnershipInductive, SpecOrder, PTL DEF Spec

-----------------------------------------------------------------------------
(* Sequence numbers.                                                       *)

\* Only the drain observes, and what it observes is newer than what it has seen.
LEMMA NumbersStep ==
  ASSUME TypeOK, OrderInv, [Next]_vars, last_global_sequence # 0
  PROVE  (Observed' + missing_global_events') - (Observed + missing_global_events)
            = last_global_sequence' - last_global_sequence
  <1>. USE OrderTypes DEF Running, queueVars, metricVars, countVars, esVars, handlerVars, workerVars,
              mainVars, healthVars, probeVars, otherThanMain, NoMessage
  <1>0. processed \in Nat /\ missing_global_events \in Nat
    BY DEF TypeOK
  <1>1. CASE drain_messages_Observe
    <2>1. last_global_sequence < wmsg /\ wpc = "observe" /\ wpc' = "flag" /\ processed' = processed
      BY <1>1 DEF drain_messages_Observe, OrderInv, DrainOldest
    <2>2. missing_global_events' = missing_global_events + (wmsg - last_global_sequence - 1)
      BY <1>0, <1>1, <2>1 DEF drain_messages_Observe, msaa_ar_observe_sequence, SequenceGap
    <2>3. last_global_sequence' = wmsg
      BY <1>1, <2>1 DEF drain_messages_Observe, msaa_ar_observe_sequence
    <2>. QED BY <1>0, <2>1, <2>2, <2>3 DEF Observed, One
  <1>2. CASE drain_messages_Flag
    BY <1>0, <1>2 DEF drain_messages_Flag, Observed, One
  <1>3. ASSUME missing_global_events' = missing_global_events,
               last_global_sequence' = last_global_sequence,
               processed' = processed, wpc' = "flag" <=> wpc = "flag"
        PROVE  (Observed' + missing_global_events') - (Observed + missing_global_events)
                  = last_global_sequence' - last_global_sequence
    BY <1>0, <1>3 DEF Observed, One
  <1>4. ASSUME NEW m \in Message, handle_message_Receive(m)
        PROVE  UNCHANGED <<missing_global_events, last_global_sequence, processed, wpc>>
    BY <1>4 DEF handle_message_Receive
  <1>5. ASSUME \/ handle_message_Push \/ handle_message_Accepted \/ handle_message_Refused
               \/ handle_message_Schedule \/ handle_message_Dispatch
               \/ connect_sensor \/ connect_sensor_Fails \/ heartbeat \/ shutdown_sensor_Signal
               \/ shutdown_sensor_ProbeDone \/ shutdown_sensor_ProbeTimeout
               \/ write_health_Locked \/ write_health_Write \/ shutdown_sensor_Delete
               \/ shutdown_sensor_Sync \/ shutdown_sensor_Destroy \/ shutdown_sensor_Exit
               \/ UNCHANGED vars
        PROVE  UNCHANGED <<missing_global_events, last_global_sequence, processed, wpc>>
    BY <1>5 DEF handle_message_Push, handle_message_Accepted, handle_message_Refused,
           handle_message_Schedule, handle_message_Dispatch, connect_sensor,
           connect_sensor_Fails, heartbeat, shutdown_sensor_Signal, shutdown_sensor_ProbeDone,
           shutdown_sensor_ProbeTimeout, BeginShutdown, write_health_Locked, write_health_Write,
           shutdown_sensor_Delete, shutdown_sensor_Sync, shutdown_sensor_Destroy,
           shutdown_sensor_Exit, vars
  <1>6. ASSUME \/ drain_messages_Start \/ drain_messages_Pop \/ drain_messages_Empty
               \/ drain_messages_Deliver \/ drain_messages_Release
        PROVE  /\ UNCHANGED <<missing_global_events, last_global_sequence, processed>>
               /\ wpc' # "flag" /\ wpc # "flag"
    BY <1>6 DEF drain_messages_Start, drain_messages_Pop, drain_messages_Empty,
           drain_messages_Deliver, drain_messages_Release
  <1>. QED BY <1>1, <1>2, <1>3, <1>4, <1>5, <1>6
       DEF Next, Handler, Worker, Main, write_health, Exited

\* Once the first event has been observed, every sequence number is observed or
\* counted as missing, exactly once.
THEOREM NumbersAddUp == Spec => EveryNumberAccounted
  <1>1. TypeOK /\ OrderInv /\ [Next]_vars =>
            [last_global_sequence # 0 =>
                (Observed' + missing_global_events') - (Observed + missing_global_events)
                    = last_global_sequence' - last_global_sequence]_vars
    BY NumbersStep
  <1>. QED BY <1>1, SpecOrder, PTL DEF Spec, EveryNumberAccounted

-----------------------------------------------------------------------------
(* Health reports.                                                         *)

\* What has been reported is covered by the counters, as long as the queue that
\* holds one of them exists; so is what is about to be reported.
ReportCovered ==
    /\ report.received <= received
    /\ mpc \notin {"exit", "exited"} =>
            live /\ report.dropped <= rejected + missing_global_events
    /\ mpc = "write" => /\ report.dropped <= snap.dropped
                        /\ snap.dropped <= rejected + missing_global_events

\* The counters of a running sensor only grow.
LEMMA CountersGrow ==
  ASSUME TypeOK, [Next]_vars
  PROVE  /\ received' >= received /\ missing_global_events' >= missing_global_events
         /\ \/ rejected' >= rejected /\ live' = live
            \/ mpc' \in {"exit", "exited"} /\ report' = report
         /\ received' \in Nat /\ missing_global_events' \in Nat /\ rejected' \in Nat
  <1>. USE DEF Running, queueVars, metricVars, countVars, esVars, handlerVars, workerVars,
              mainVars, healthVars, probeVars, otherThanMain
  <1>0. /\ received \in Nat /\ missing_global_events \in Nat /\ rejected \in Nat
    BY DEF TypeOK
  <1>1. TypeOK'
    BY TypeInductive
  <1>2. received' \in Nat /\ missing_global_events' \in Nat /\ rejected' \in Nat
    BY <1>1 DEF TypeOK
  <1>3. ASSUME NEW m \in Message, handle_message_Receive(m)
        PROVE  /\ received' = received + 1
               /\ UNCHANGED <<missing_global_events, rejected, live>>
    BY <1>3 DEF handle_message_Receive
  <1>4. ASSUME handle_message_Push
        PROVE  /\ UNCHANGED <<received, missing_global_events, live>> /\ rejected' >= rejected
    BY <1>0, <1>4 DEF handle_message_Push, msaa_ar_queue_push
  <1>5. ASSUME drain_messages_Observe
        PROVE  UNCHANGED <<received, rejected, live>> /\ missing_global_events' >= missing_global_events
    <2>1. SequenceGap(wmsg) \in Nat
      BY OrderTypes DEF SequenceGap
    <2>. QED BY <1>0, <1>5, <2>1 DEF drain_messages_Observe, msaa_ar_observe_sequence
  <1>6. ASSUME connect_sensor_Fails \/ shutdown_sensor_Destroy
        PROVE  /\ UNCHANGED <<received, missing_global_events, report>>
               /\ mpc' \in {"exit", "exited"}
    BY <1>6 DEF connect_sensor_Fails, shutdown_sensor_Destroy
  <1>7. ASSUME \/ handle_message_Accepted \/ handle_message_Refused
               \/ handle_message_Schedule \/ handle_message_Dispatch
               \/ drain_messages_Start \/ drain_messages_Pop \/ drain_messages_Empty
               \/ drain_messages_Flag \/ drain_messages_Deliver \/ drain_messages_Release
               \/ connect_sensor \/ heartbeat \/ shutdown_sensor_Signal
               \/ shutdown_sensor_ProbeDone \/ shutdown_sensor_ProbeTimeout
               \/ write_health_Locked \/ write_health_Write \/ shutdown_sensor_Delete
               \/ shutdown_sensor_Sync \/ shutdown_sensor_Exit \/ UNCHANGED vars
        PROVE  UNCHANGED <<received, missing_global_events, rejected, live>>
    BY <1>7 DEF handle_message_Accepted, handle_message_Refused,
           handle_message_Schedule, handle_message_Dispatch, drain_messages_Start,
           drain_messages_Pop, drain_messages_Empty, drain_messages_Flag, drain_messages_Deliver,
           drain_messages_Release, msaa_ar_queue_pop, connect_sensor, heartbeat,
           shutdown_sensor_Signal, shutdown_sensor_ProbeDone,
           shutdown_sensor_ProbeTimeout, BeginShutdown, write_health_Locked, write_health_Write,
           shutdown_sensor_Delete, shutdown_sensor_Sync, shutdown_sensor_Exit, vars
  <1>. QED BY <1>0, <1>2, <1>3, <1>4, <1>5, <1>6, <1>7
       DEF Next, Handler, Worker, Main, write_health, Exited

\* The block of shutdown_sensor's dispatch_sync is in one place, and the main
\* queue waits for it.
SyncWaits ==
    /\ wblock = "sync" => mpc = "wait" /\ \A i \in 1..Len(procQ) : procQ[i] # "sync"
    /\ \A i \in 1..Len(procQ) : procQ[i] = "sync" => mpc = "wait"
    /\ \A i, j \in 1..Len(procQ) : procQ[i] = "sync" /\ procQ[j] = "sync" => i = j

\* The block of dispatch_sync is submitted once, and the main queue waits until it
\* has run.
LEMMA SyncInductive ==
  ASSUME TypeOK, SyncWaits, [Next]_vars PROVE SyncWaits'
  <1>. USE DEF Running, queueVars, metricVars, countVars, esVars, handlerVars, workerVars,
              mainVars, healthVars, probeVars, otherThanMain
  <1>0. procQ \in Seq({"async", "sync"})
    BY DEF TypeOK
  <1>1. ASSUME NEW m \in Message, handle_message_Receive(m) PROVE SyncWaits'
    BY <1>1 DEF handle_message_Receive, SyncWaits
  <1>2. CASE \/ handle_message_Push \/ handle_message_Accepted \/ handle_message_Refused
             \/ handle_message_Schedule
             \/ drain_messages_Pop \/ drain_messages_Observe
             \/ drain_messages_Flag \/ drain_messages_Deliver \/ drain_messages_Release
             \/ UNCHANGED vars
    <2>1. UNCHANGED <<procQ, wblock, mpc>>
      BY <1>2 DEF handle_message_Push, handle_message_Accepted, handle_message_Refused,
           handle_message_Schedule, drain_messages_Pop, drain_messages_Observe,
           drain_messages_Flag, drain_messages_Deliver, drain_messages_Release, vars
    <2>. QED BY <2>1 DEF SyncWaits
  <1>3. CASE handle_message_Dispatch
    BY <1>0, <1>3 DEF handle_message_Dispatch, SyncWaits
  <1>4. CASE drain_messages_Start
    BY <1>0, <1>4 DEF drain_messages_Start, SyncWaits
  <1>5. CASE drain_messages_Empty
    BY <1>0, <1>5 DEF drain_messages_Empty, SyncWaits
  <1>6. CASE shutdown_sensor_Sync
    BY <1>0, <1>6 DEF shutdown_sensor_Sync, SyncWaits
  <1>7. CASE \/ connect_sensor \/ connect_sensor_Fails \/ heartbeat \/ shutdown_sensor_Signal
             \/ shutdown_sensor_ProbeDone \/ shutdown_sensor_ProbeTimeout
             \/ write_health_Locked \/ write_health_Write
             \/ shutdown_sensor_Delete \/ shutdown_sensor_Destroy \/ shutdown_sensor_Exit
    <2>1. UNCHANGED <<procQ, wblock>> /\ mpc # "wait"
      BY <1>7 DEF connect_sensor, connect_sensor_Fails, heartbeat, shutdown_sensor_Signal,
           shutdown_sensor_ProbeDone, shutdown_sensor_ProbeTimeout, BeginShutdown,
           write_health_Locked, write_health_Write, shutdown_sensor_Delete,
           shutdown_sensor_Destroy, shutdown_sensor_Exit
    <2>. QED BY <2>1 DEF SyncWaits
  <1>. QED BY <1>1, <1>2, <1>3, <1>4, <1>5, <1>6, <1>7
       DEF Next, Handler, Worker, Main, write_health, Exited

\* The health file changes in write_health_Write only, and only main's own steps
\* start or end a write.
LEMMA ReportFrame ==
  ASSUME TypeOK, SyncWaits, [Next]_vars, ~write_health_Locked, ~write_health_Write
  PROVE  /\ report' = report /\ snap' = snap
         /\ mpc' = "write" => mpc = "write"
         /\ mpc' \notin {"exit", "exited"} => mpc \notin {"exit", "exited"}
  <1>. USE DEF Running, queueVars, metricVars, countVars, esVars, handlerVars, workerVars,
              mainVars, healthVars, probeVars, otherThanMain
  <1>0. mret # "write"
    BY DEF TypeOK
  <1>1. ASSUME NEW m \in Message, handle_message_Receive(m)
        PROVE  UNCHANGED <<report, snap, mpc>>
    BY <1>1 DEF handle_message_Receive
  <1>2. ASSUME \/ handle_message_Push \/ handle_message_Accepted \/ handle_message_Refused
               \/ handle_message_Schedule \/ handle_message_Dispatch
               \/ drain_messages_Start \/ drain_messages_Pop \/ drain_messages_Observe
               \/ drain_messages_Flag \/ drain_messages_Deliver \/ drain_messages_Release
               \/ UNCHANGED vars
        PROVE  UNCHANGED <<report, snap, mpc>>
    BY <1>2 DEF handle_message_Push, handle_message_Accepted, handle_message_Refused,
           handle_message_Schedule, handle_message_Dispatch, drain_messages_Start,
           drain_messages_Pop, drain_messages_Observe, drain_messages_Flag,
           drain_messages_Deliver, drain_messages_Release, vars
  <1>3. ASSUME \/ connect_sensor \/ connect_sensor_Fails \/ heartbeat \/ shutdown_sensor_Signal
               \/ shutdown_sensor_ProbeDone \/ shutdown_sensor_ProbeTimeout
               \/ shutdown_sensor_Delete \/ shutdown_sensor_Sync \/ shutdown_sensor_Destroy
               \/ shutdown_sensor_Exit
        PROVE  /\ UNCHANGED <<report, snap>>
               /\ mpc' # "write"
               /\ mpc' \notin {"exit", "exited"} => mpc \notin {"exit", "exited"}
    BY <1>3 DEF connect_sensor, connect_sensor_Fails, heartbeat, shutdown_sensor_Signal,
           shutdown_sensor_ProbeDone, shutdown_sensor_ProbeTimeout, BeginShutdown,
           shutdown_sensor_Delete, shutdown_sensor_Sync, shutdown_sensor_Destroy,
           shutdown_sensor_Exit
  <1>4. ASSUME drain_messages_Empty
        PROVE  /\ UNCHANGED <<report, snap>>
               /\ mpc' # mpc => mpc = "wait" /\ mpc' = "destroy"
    <2>1. UNCHANGED <<report, snap>>
      BY <1>4 DEF drain_messages_Empty
    <2>2. mpc' = IF wblock = "sync" THEN "destroy" ELSE mpc
      BY <1>4 DEF drain_messages_Empty
    <2>. QED BY <2>1, <2>2 DEF SyncWaits
  <1>. QED BY <1>1, <1>2, <1>3, <1>4
       DEF Next, Handler, Worker, Main, write_health, Exited

\* What has been read for a report lies between the last report and the counters.
LEMMA ReportInductive ==
  ASSUME TypeOK, SyncWaits, ReportCovered, [Next]_vars
  PROVE  /\ ReportCovered'
         /\ report'.dropped >= report.dropped /\ report'.received >= report.received
  <1>0. /\ received \in Nat /\ missing_global_events \in Nat /\ rejected \in Nat
        /\ report \in Health /\ snap \in Health
        /\ report.dropped \in Nat /\ report.received \in Nat /\ snap.dropped \in Nat
    BY DEF TypeOK, Health
  <1>1. /\ received' >= received /\ missing_global_events' >= missing_global_events
        /\ \/ rejected' >= rejected /\ live' = live
           \/ mpc' \in {"exit", "exited"} /\ report' = report
        /\ received' \in Nat /\ missing_global_events' \in Nat /\ rejected' \in Nat
    BY CountersGrow
  <1>2. CASE write_health_Locked
    <2>1. /\ mpc = "health" /\ mpc' = "write" /\ report' = report /\ rejected' = rejected
          /\ missing_global_events' = missing_global_events /\ received' = received /\ live' = live
          /\ snap'.dropped = rejected + missing_global_events
      BY <1>2 DEF write_health_Locked, otherThanMain, queueVars, metricVars, countVars
    <2>. QED BY <1>0, <2>1 DEF ReportCovered
  <1>3. CASE write_health_Write
    <2>1. /\ mpc = "write" /\ mpc' # "write" /\ rejected' = rejected /\ received' = received
          /\ missing_global_events' = missing_global_events /\ live' = live
      BY <1>3 DEF write_health_Write, otherThanMain, queueVars, metricVars, countVars, TypeOK
    <2>2. \/ report' = report
          \/ report'.dropped = snap.dropped /\ report'.received = received
      BY <1>0, <1>3 DEF write_health_Write, Health
    <2>. QED BY <1>0, <2>1, <2>2 DEF ReportCovered
  <1>4. CASE ~write_health_Locked /\ ~write_health_Write
    <2>1. /\ report' = report /\ snap' = snap
          /\ mpc' = "write" => mpc = "write"
          /\ mpc' \notin {"exit", "exited"} => mpc \notin {"exit", "exited"}
      BY <1>4, ReportFrame
    <2>. QED BY <1>0, <1>1, <2>1 DEF ReportCovered
  <1>. QED BY <1>2, <1>3, <1>4

\* No counter of the health file ever goes back, from the first report to the
\* last one of a shutdown.
THEOREM ReportsNeverGoBack == Spec => ReportsMonotone
  <1>1. Init => SyncWaits /\ ReportCovered
    BY DEF Init, SyncWaits, ReportCovered, NoHealth
  <1>2. TypeOK /\ SyncWaits /\ ReportCovered /\ [Next]_vars =>
            /\ SyncWaits' /\ ReportCovered'
            /\ [/\ report'.dropped >= report.dropped
                /\ report'.received >= report.received]_vars
    BY SyncInductive, ReportInductive
  <1>. QED BY <1>1, <1>2, TypeCorrect, PTL DEF Spec, ReportsMonotone

-----------------------------------------------------------------------------
(* The event path implements SensorChannel.                                *)

\* A function on 1..n is a sequence of length n.
LEMMA FunctionIsSeq ==
  ASSUME NEW n \in Nat, NEW S, NEW f \in [1..n -> S]
  PROVE  f \in Seq(S) /\ Len(f) = n
  <1>1. f \in Seq(S)
    BY SeqDef
  <1>2. DOMAIN f = 1..Len(f) /\ Len(f) \in Nat /\ DOMAIN f = 1..n
    BY <1>1, LenProperties
  <1>3. Len(f) = n
    <2>1. CASE Len(f) < n
      <3>1. n \in 1..n /\ n \notin 1..Len(f)
        BY <1>2, <2>1
      <3>. QED BY <1>2, <3>1
    <2>2. CASE n < Len(f)
      <3>1. Len(f) \in 1..Len(f) /\ Len(f) \notin 1..n
        BY <1>2, <2>2
      <3>. QED BY <1>2, <3>1
    <2>. QED BY <1>2, <2>1, <2>2
  <1>. QED BY <1>1, <1>3

\* The ring as a sequence, before and after a step.
LEMMA ContentsIsSeq ==
  ASSUME TypeOK, OrderInv
  PROVE  /\ Contents \in Seq(Message) /\ Len(Contents) = count
         /\ \A i \in 1..count : Contents[i] = RingAt(i - 1)
  <1>1. count \in Nat /\ \A i \in 1..count : i - 1 \in 0..count-1
    BY OrderTypes
  <1>2. Contents \in [1..count -> Message]
    BY <1>1 DEF Contents, OrderInv, RingOrdered
  <1>3. \A i \in 1..count : Contents[i] = RingAt(i - 1)
    BY DEF Contents
  <1>. QED BY <1>1, <1>2, <1>3, FunctionIsSeq

\* The same after a step.
LEMMA NextContentsIsSeq ==
  ASSUME TypeOK', OrderInv'
  PROVE  /\ Contents' \in Seq(Message) /\ Len(Contents') = count'
         /\ \A i \in 1..count' : Contents'[i] = NextAt(i - 1)
  <1>0. count' \in Nat
    BY CapacityAssumption DEF TypeOK
  <1>1. \A i \in 1..count' : i - 1 \in 0..count'-1
    <2>1. \A n \in Nat : \A i \in 1..n : i - 1 \in 0..n-1
      OBVIOUS
    <2>. QED BY <1>0, <2>1
  <1>2. \A i \in 0..count'-1 : NextAt(i) \in Message
    BY OrderNext
  <1>3. Contents' = [i \in 1..count' |-> NextAt(i - 1)]
    BY DEF Contents, NextAt, RingAt
  <1>4. Contents' \in [1..count' -> Message]
    BY <1>1, <1>2, <1>3
  <1>5. \A i \in 1..count' : Contents'[i] = NextAt(i - 1)
    BY <1>3
  <1>. QED BY <1>0, <1>4, <1>5, FunctionIsSeq

\* Every step of the event path is a step of the channel or leaves it as it is.
LEMMA ChannelStep ==
  ASSUME TypeOK, TypeOK', OrderInv, OrderInv', ReportCovered, [Next]_vars
  PROVE  Channel!Next \/ UNCHANGED <<Contents, wmsg, live>>
  <1>. USE OrderTypes DEF Running, queueVars, metricVars, countVars, esVars, handlerVars, workerVars,
              mainVars, healthVars, probeVars, otherThanMain
  <1>0. /\ Contents \in Seq(Message) /\ Len(Contents) = count
        /\ \A i \in 1..count : Contents[i] = RingAt(i - 1)
        /\ Contents' \in Seq(Message) /\ Len(Contents') = count'
        /\ \A i \in 1..count' : Contents'[i] = NextAt(i - 1)
        /\ live \in BOOLEAN
    BY ContentsIsSeq, NextContentsIsSeq DEF TypeOK
  <1>1. ASSUME handle_message_Push, PushAccepts PROVE Channel!Accept(hmsg) /\ hmsg \in Message
    <2>0. /\ msaa_ar_queue_push(hmsg) /\ hpc = "retained" /\ wmsg' = wmsg /\ live /\ live' = live
      BY <1>1 DEF handle_message_Push, PushAccepts, msaa_ar_queue_push
    <2>1. hmsg \in Message
      BY <2>0 DEF OrderInv, CallbackNewest
    <2>2. /\ count' = count + 1 /\ count < Capacity
          /\ \A i \in 0..count-1 : NextAt(i) = RingAt(i)
          /\ NextAt(count) = hmsg
      BY <1>1, <2>0, PushRing
    <2>3. /\ Append(Contents, hmsg) \in Seq(Message)
          /\ Len(Append(Contents, hmsg)) = count + 1
          /\ \A i \in 1..count : Append(Contents, hmsg)[i] = Contents[i]
          /\ Append(Contents, hmsg)[count + 1] = hmsg
      BY <1>0, <2>1, AppendProperties
    <2>4. ASSUME NEW i \in 1..count' PROVE Contents'[i] = Append(Contents, hmsg)[i]
      <3>1. CASE i = count + 1
        <4>1. Contents'[i] = NextAt(i - 1) /\ i - 1 = count
          BY <1>0, <3>1
        <4>. QED BY <2>2, <2>3, <3>1, <4>1
      <3>2. CASE i \in 1..count
        <4>1. Contents'[i] = NextAt(i - 1) /\ i - 1 \in 0..count-1
          BY <1>0, <3>2
        <4>. QED BY <1>0, <2>2, <2>3, <3>2, <4>1
      <3>3. count \in Nat /\ i \in 1..count+1
        BY <2>2
      <3>4. i = count + 1 \/ i \in 1..count
        BY <3>3
      <3>. QED BY <3>1, <3>2, <3>4
    <2>5. Contents' = Append(Contents, hmsg)
      BY <1>0, <2>2, <2>3, <2>4, SeqEqual
    <2>6. Len(Contents) < Capacity /\ (~live)' = ~live
      BY <1>0, <2>0, <2>2
    <2>. QED BY <2>0, <2>1, <2>5, <2>6 DEF Channel!Accept
  <1>2. ASSUME drain_messages_Pop PROVE Channel!Take
    <2>0. /\ msaa_ar_queue_pop /\ count # 0 /\ wmsg' = items[head] /\ wpc = "pop" /\ live' = live
      BY <1>2 DEF drain_messages_Pop, msaa_ar_queue_pop
    <2>1. /\ count' = count - 1 /\ wmsg' = RingAt(0)
          /\ \A i \in 0..count-2 : NextAt(i) = RingAt(i + 1)
      BY <2>0, PopRing
    <2>2. wmsg = NoMessage
      BY <2>0 DEF OrderInv, DrainOldest
    <2>3. Contents # <<>>
      BY <1>0, <2>0
    <2>4. /\ Tail(Contents) \in Seq(Message) /\ Len(Tail(Contents)) = count - 1
          /\ \A i \in 1..count-1 : Tail(Contents)[i] = Contents[i + 1]
      BY <1>0, <2>3, HeadTailProperties
    <2>5. Head(Contents) = RingAt(0)
      <3>1. 1 \in 1..count /\ 1 - 1 = 0
        BY <2>0
      <3>2. Head(Contents) = Contents[1]
        BY <1>0, <2>3
      <3>. QED BY <1>0, <3>1, <3>2
    <2>6. ASSUME NEW i \in 1..count' PROVE Contents'[i] = Tail(Contents)[i]
      <3>1. /\ i - 1 \in 0..count-2 /\ i \in 1..count-1 /\ i + 1 \in 1..count
            /\ (i - 1) + 1 = i /\ (i + 1) - 1 = i
        BY <2>0, <2>1
      <3>2. Contents'[i] = RingAt(i)
        BY <1>0, <2>1, <3>1
      <3>3. Contents[i + 1] = RingAt(i)
        BY <1>0, <3>1
      <3>. QED BY <2>4, <3>1, <3>2, <3>3
    <2>7. Contents' = Tail(Contents)
      BY <1>0, <2>1, <2>4, <2>6, SeqEqual
    <2>. QED BY <2>0, <2>1, <2>2, <2>3, <2>5, <2>7 DEF Channel!Take
  <1>3. ASSUME drain_messages_Release PROVE Channel!Finish
    <2>1. /\ wpc = "release" /\ wmsg' = NoMessage /\ live' = live
          /\ UNCHANGED <<items, head, count>>
      BY <1>3 DEF drain_messages_Release
    <2>2. wmsg # NoMessage
      BY <2>1 DEF OrderInv, DrainOldest
    <2>3. Contents' = Contents
      BY <2>1 DEF Contents, RingAt
    <2>. QED BY <2>1, <2>2, <2>3 DEF Channel!Finish
  <1>4. ASSUME connect_sensor_Fails \/ shutdown_sensor_Destroy PROVE Channel!Close
    <2>1. live /\ ~live' /\ count' = 0 /\ wmsg' = wmsg
      BY <1>4 DEF connect_sensor_Fails, shutdown_sensor_Destroy, msaa_ar_queue_destroy, ReportCovered
    <2>2. Contents' = <<>>
      BY <1>0, <2>1
    <2>. QED BY <2>1, <2>2 DEF Channel!Close
  <1>5. ASSUME UNCHANGED <<items, head, count, wmsg, live>>
        PROVE  UNCHANGED <<Contents, wmsg, live>>
    BY <1>5 DEF Contents, RingAt
  <1>6. ASSUME NEW m \in Message, handle_message_Receive(m)
        PROVE  UNCHANGED <<items, head, count, wmsg, live>>
    BY <1>6 DEF handle_message_Receive
  <1>7. ASSUME handle_message_Push, ~PushAccepts
        PROVE  UNCHANGED <<items, head, count, wmsg, live>>
    BY <1>7 DEF handle_message_Push, msaa_ar_queue_push
  <1>8. ASSUME \/ handle_message_Accepted \/ handle_message_Refused
               \/ handle_message_Schedule \/ handle_message_Dispatch
               \/ drain_messages_Start \/ drain_messages_Empty \/ drain_messages_Observe
               \/ drain_messages_Flag \/ drain_messages_Deliver
               \/ connect_sensor \/ heartbeat \/ shutdown_sensor_Signal
               \/ shutdown_sensor_ProbeDone \/ shutdown_sensor_ProbeTimeout
               \/ write_health_Locked \/ write_health_Write \/ shutdown_sensor_Delete
               \/ shutdown_sensor_Sync \/ shutdown_sensor_Exit \/ UNCHANGED vars
        PROVE  UNCHANGED <<items, head, count, wmsg, live>>
    BY <1>8 DEF handle_message_Accepted, handle_message_Refused,
           handle_message_Schedule, handle_message_Dispatch, drain_messages_Start,
           drain_messages_Empty, drain_messages_Observe, drain_messages_Flag,
           drain_messages_Deliver, connect_sensor, heartbeat,
           shutdown_sensor_Signal, shutdown_sensor_ProbeDone,
           shutdown_sensor_ProbeTimeout, BeginShutdown, write_health_Locked, write_health_Write,
           shutdown_sensor_Delete, shutdown_sensor_Sync, shutdown_sensor_Exit, vars
  <1>9. Channel!Accept(hmsg) /\ hmsg \in Message => Channel!Next
    BY DEF Channel!Next
  <1>10. Channel!Take \/ Channel!Finish \/ Channel!Close => Channel!Next
    BY DEF Channel!Next
  <1>. QED BY <1>1, <1>2, <1>3, <1>4, <1>5, <1>6, <1>7, <1>8, <1>9, <1>10
       DEF Next, Handler, Worker, Main, write_health, Exited

\* The ring buffer, its lock, the atomic flag and the two dispatch queues
\* implement the bounded FIFO channel with one consumer that the sensor's README
\* promises, for every Capacity and MaxSeq.
THEOREM ChannelImplemented == Spec => ImplementsChannel
  <1>1. Init => Channel!Init
    <2> SUFFICES ASSUME Init PROVE Channel!Init
      OBVIOUS
    <2>1. Contents = <<>>
      BY DEF Init, Contents
    <2>. QED BY <2>1 DEF Init, Channel!Init
  <1>2. Init => SyncWaits /\ ReportCovered
    BY DEF Init, SyncWaits, ReportCovered, NoHealth
  <1>3. TypeOK /\ SyncWaits /\ ReportCovered /\ [Next]_vars => SyncWaits' /\ ReportCovered'
    BY SyncInductive, ReportInductive
  <1>4. ASSUME TypeOK, TypeOK', OrderInv, OrderInv', ReportCovered, [Next]_vars
        PROVE  [Channel!Next]_(Channel!vars)
    <2>1. UNCHANGED <<Contents, wmsg, live>> => UNCHANGED Channel!vars
      BY DEF Channel!vars
    <2>. QED BY <1>4, <2>1, ChannelStep
  <1>. QED BY <1>1, <1>2, <1>3, <1>4, SpecOrder, PTL DEF Spec, ImplementsChannel, Channel!Spec
=============================================================================
