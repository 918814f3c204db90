-------------------------- MODULE SensorQueueProofs --------------------------
(* Machine-checked facts about SensorQueue, for every Capacity and MaxSeq. *)
EXTENDS SensorQueue, TLAPS

-----------------------------------------------------------------------------
(* Type correctness.                                                       *)

\* The index arithmetic of the ring stays inside the array.
LEMMA RingIndex == \A a \in Nat : a % Capacity \in Slot
  BY CapacityAssumption DEF Slot

\* msaa_ar_queue_push writes inside the array and never passes Capacity.
LEMMA PushTypes ==
  ASSUME TypeOK, NEW m \in Message \cup {NoMessage}, msaa_ar_queue_push(m)
  PROVE  /\ items' \in [Slot -> Message \cup {NoMessage}]
         /\ head' \in Slot /\ count' \in 0..Capacity
         /\ rejected' \in Nat /\ live' \in BOOLEAN
  <1>1. CASE PushAccepts
    <2>0. head + count \in Nat
      BY CapacityAssumption DEF TypeOK, Slot
    <2>1. (head + count) % Capacity \in Slot
      BY <2>0, RingIndex
    <2>2. count + 1 \in 0..Capacity
      BY <1>1, CapacityAssumption DEF TypeOK, PushAccepts
    <2>. QED BY <1>1, <2>1, <2>2 DEF TypeOK, msaa_ar_queue_push
  <1>2. CASE ~PushAccepts
    BY <1>2 DEF TypeOK, msaa_ar_queue_push
  <1>. QED BY <1>1, <1>2

\* msaa_ar_queue_pop of a non-empty queue keeps head and count in range.
LEMMA PopTypes ==
  ASSUME TypeOK, count # 0, msaa_ar_queue_pop
  PROVE  /\ items' \in [Slot -> Message \cup {NoMessage}]
         /\ head' \in Slot /\ count' \in 0..Capacity
         /\ rejected' \in Nat /\ live' \in BOOLEAN
         /\ items[head] \in Message \cup {NoMessage}
  <1>0. head + 1 \in Nat
    BY CapacityAssumption DEF TypeOK, Slot
  <1>1. (head + 1) % Capacity \in Slot
    BY <1>0, RingIndex
  <1>2. count - 1 \in 0..Capacity
    BY CapacityAssumption DEF TypeOK
  <1>. QED BY <1>1, <1>2 DEF TypeOK, msaa_ar_queue_pop

\* msaa_ar_queue_destroy leaves a well-typed empty queue.
LEMMA DestroyTypes ==
  ASSUME TypeOK, msaa_ar_queue_destroy
  PROVE  /\ items' \in [Slot -> Message \cup {NoMessage}]
         /\ head' \in Slot /\ count' \in 0..Capacity
         /\ rejected' \in Nat /\ live' \in BOOLEAN
         /\ refs' \in [Message -> Int]
  <1>1. refs' \in [Message -> Int]
    BY DEF TypeOK, msaa_ar_queue_destroy
  <1>2. 0 \in Slot /\ 0 \in 0..Capacity
    BY CapacityAssumption DEF Slot
  <1>. QED BY <1>1, <1>2 DEF TypeOK, msaa_ar_queue_destroy

\* Releasing a message leaves the reference counts integers.
LEMMA ReleaseTypes ==
  ASSUME refs \in [Message -> Int], NEW m
  PROVE  [refs EXCEPT ![m] = @ - 1] \in [Message -> Int]
  <1>1. \A x \in Message : [refs EXCEPT ![m] = @ - 1][x] \in Int
    <2> TAKE x \in Message
    <2>1. CASE x = m
      BY <2>1
    <2>2. CASE x # m
      BY <2>2
    <2>. QED BY <2>1, <2>2
  <1>. QED BY <1>1

\* The type invariant is inductive: no index, counter, program counter or
\* buffer of the sensor leaves its range in any interleaving.
LEMMA TypeInductive == TypeOK /\ [Next]_vars => TypeOK'
  <1> SUFFICES ASSUME TypeOK, [Next]_vars PROVE TypeOK'
    OBVIOUS
  <1>. USE DEF Running, queueVars, metricVars, countVars, esVars, handlerVars, workerVars,
              mainVars, healthVars, probeVars, otherThanMain
  <1>1. ASSUME NEW m \in Message, handle_message_Receive(m) PROVE TypeOK'
    BY <1>1 DEF TypeOK, handle_message_Receive, Message
  <1>2. CASE handle_message_Push
    <2>1. msaa_ar_queue_push(hmsg) /\ hmsg \in Message \cup {NoMessage}
      BY <1>2 DEF handle_message_Push, TypeOK
    <2>. QED BY <1>2, <2>1, PushTypes DEF TypeOK, handle_message_Push
  <1>3. CASE handle_message_Accepted
    BY <1>3 DEF TypeOK, handle_message_Accepted, RaisePeak
  <1>4. CASE handle_message_Refused
    <2>1. refs' \in [Message -> Int]
      BY <1>4, ReleaseTypes DEF TypeOK, handle_message_Refused
    <2>. QED BY <1>4, <2>1 DEF TypeOK, handle_message_Refused, RaisePeak
  <1>5. CASE handle_message_Schedule
    BY <1>5 DEF TypeOK, handle_message_Schedule
  <1>6. CASE handle_message_Dispatch
    BY <1>6 DEF TypeOK, handle_message_Dispatch
  <1>7. CASE drain_messages_Start
    BY <1>7 DEF TypeOK, drain_messages_Start
  <1>8. CASE drain_messages_Pop
    BY <1>8, PopTypes DEF TypeOK, drain_messages_Pop
  <1>9. CASE drain_messages_Empty
    <2>1. drain_scheduled' \in BOOLEAN
      BY <1>9, Zenon DEF drain_messages_Empty
    <2>. QED BY <1>9, <2>1 DEF TypeOK, drain_messages_Empty
  <1>10. CASE drain_messages_Observe
    BY <1>10 DEF TypeOK, drain_messages_Observe, msaa_ar_observe_sequence,
                 SequenceGap, Message, NoMessage
  <1>11. CASE drain_messages_Flag
    BY <1>11 DEF TypeOK, drain_messages_Flag, LossSeen
  <1>12. CASE drain_messages_Deliver
    BY <1>12 DEF TypeOK, drain_messages_Deliver, FirstProbeEvent
  <1>13. CASE drain_messages_Release
    <2>1. refs' \in [Message -> Int]
      BY <1>13, ReleaseTypes DEF TypeOK, drain_messages_Release
    <2>. QED BY <1>13, <2>1 DEF TypeOK, drain_messages_Release
  <1>14. CASE connect_sensor
    BY <1>14 DEF TypeOK, connect_sensor
  <1>15. CASE connect_sensor_Fails
    BY <1>15, DestroyTypes DEF TypeOK, connect_sensor_Fails
  <1>16. CASE heartbeat
    BY <1>16 DEF TypeOK, heartbeat
  <1>17. CASE shutdown_sensor_Signal
    <2>1. connected' \in BOOLEAN
      BY <1>17, Zenon DEF shutdown_sensor_Signal, BeginShutdown
    <2>. QED BY <1>17, <2>1 DEF TypeOK, shutdown_sensor_Signal, BeginShutdown
  <1>18. CASE shutdown_sensor_ProbeDone
    <2>1. connected' \in BOOLEAN /\ probeBlock' \in BOOLEAN
      BY <1>18, Zenon DEF shutdown_sensor_ProbeDone, BeginShutdown
    <2>. QED BY <1>18, <2>1 DEF TypeOK, shutdown_sensor_ProbeDone, BeginShutdown
  <1>19. CASE shutdown_sensor_ProbeTimeout
    <2>1. connected' \in BOOLEAN
      BY <1>19, Zenon DEF shutdown_sensor_ProbeTimeout, BeginShutdown
    <2>. QED BY <1>19, <2>1 DEF TypeOK, shutdown_sensor_ProbeTimeout, BeginShutdown
  <1>20. CASE write_health_Locked
    <2>1. snap' \in Health
      BY <1>20 DEF TypeOK, write_health_Locked, Health
    <2>. QED BY <1>20, <2>1 DEF TypeOK, write_health_Locked
  <1>21. CASE write_health_Write
    <2>1. snap' \in Health /\ report' \in Health
      BY <1>21 DEF TypeOK, write_health_Write, Health, NoHealth
    <2>. QED BY <1>21, <2>1 DEF TypeOK, write_health_Write
  <1>22. CASE shutdown_sensor_Delete
    <2>1. client' \in BOOLEAN
      BY <1>22, Zenon DEF shutdown_sensor_Delete
    <2>. QED BY <1>22, <2>1 DEF TypeOK, shutdown_sensor_Delete
  <1>23. CASE shutdown_sensor_Sync
    BY <1>23 DEF TypeOK, shutdown_sensor_Sync
  <1>24. CASE shutdown_sensor_Destroy
    BY <1>24, DestroyTypes DEF TypeOK, shutdown_sensor_Destroy
  <1>25. CASE shutdown_sensor_Exit
    BY <1>25 DEF TypeOK, shutdown_sensor_Exit
  <1>26. CASE Exited
    BY <1>26 DEF TypeOK, Exited, vars
  <1>27. CASE UNCHANGED vars
    BY <1>27 DEF TypeOK, vars
  <1>. QED
    BY <1>1, <1>2, <1>3, <1>4, <1>5, <1>6, <1>7, <1>8, <1>9, <1>10, <1>11, <1>12, <1>13, <1>14,
       <1>15, <1>16, <1>17, <1>18, <1>19, <1>20, <1>21, <1>22, <1>23, <1>24, <1>25, <1>26, <1>27
    DEF Next, Handler, Worker, Main, write_health

\* TypeOK holds in every reachable state.
THEOREM TypeCorrect == Spec => []TypeOK
  <1>1. Init => TypeOK
    <2> SUFFICES ASSUME Init PROVE TypeOK
      OBVIOUS
    <2>1. 0 \in Slot /\ 0 \in 0..Capacity /\ 0 \in 0..MaxSeq
      BY CapacityAssumption, MaxSeqAssumption DEF Slot
    <2>2. /\ live \in BOOLEAN /\ drain_scheduled \in BOOLEAN
          /\ sequence_gap_detected \in BOOLEAN /\ client \in BOOLEAN
          /\ connected \in BOOLEAN /\ probe_event_seen \in BOOLEAN
          /\ probeBlock \in BOOLEAN
      BY Zenon DEF Init
    <2>3. snap \in Health /\ report \in Health
      BY DEF Init, Health, NoHealth
    <2>. QED BY <2>1, <2>2, <2>3 DEF Init, TypeOK
  <1>2. TypeOK /\ [Next]_vars => TypeOK'
    BY TypeInductive
  <1>. QED BY <1>1, <1>2, PTL DEF Spec

-----------------------------------------------------------------------------
(* The drain_scheduled handshake.                                          *)

\* NoLostWakeup, strengthened to be inductive: a set flag stands for a drain
\* that exists or is being dispatched, and queued messages imply the flag or a
\* callback that has yet to reach its compare-and-swap.
WakeupInv ==
  /\ drain_scheduled => hpc = "dispatch" \/ procQ # <<>> \/ wpc # "idle"
  /\ count > 0 => drain_scheduled \/ hpc \in {"accepted", "schedule"}

\* Every step of callback, drain and main queue keeps WakeupInv.
LEMMA WakeupInductive ==
  ASSUME TypeOK, WakeupInv, [Next]_vars PROVE WakeupInv'
  <1>. USE DEF TypeOK, Running, queueVars, metricVars, countVars, esVars, handlerVars,
              workerVars, mainVars, healthVars, probeVars, otherThanMain
  <1>1. ASSUME NEW m \in Message, handle_message_Receive(m) PROVE WakeupInv'
    BY <1>1 DEF WakeupInv, handle_message_Receive
  <1>2. CASE handle_message_Push
    BY <1>2 DEF WakeupInv, handle_message_Push, msaa_ar_queue_push, PushAccepts
  <1>3. CASE handle_message_Accepted
    BY <1>3 DEF WakeupInv, handle_message_Accepted
  <1>4. CASE handle_message_Refused
    BY <1>4 DEF WakeupInv, handle_message_Refused
  <1>5. CASE handle_message_Schedule
    BY <1>5 DEF WakeupInv, handle_message_Schedule, ExchangeSucceeds
  <1>6. CASE handle_message_Dispatch
    BY <1>6 DEF WakeupInv, handle_message_Dispatch
  <1>7. CASE drain_messages_Start
    BY <1>7 DEF WakeupInv, drain_messages_Start
  <1>8. CASE drain_messages_Pop
    BY <1>8 DEF WakeupInv, drain_messages_Pop, msaa_ar_queue_pop
  <1>9. CASE drain_messages_Empty
    BY <1>9 DEF WakeupInv, drain_messages_Empty
  <1>10. CASE drain_messages_Observe
    BY <1>10 DEF WakeupInv, drain_messages_Observe
  <1>11. CASE drain_messages_Flag
    BY <1>11 DEF WakeupInv, drain_messages_Flag
  <1>12. CASE drain_messages_Deliver
    BY <1>12 DEF WakeupInv, drain_messages_Deliver
  <1>13. CASE drain_messages_Release
    BY <1>13 DEF WakeupInv, drain_messages_Release
  <1>14. CASE connect_sensor
    BY <1>14 DEF WakeupInv, connect_sensor
  <1>15. CASE connect_sensor_Fails
    BY <1>15 DEF WakeupInv, connect_sensor_Fails, msaa_ar_queue_destroy
  <1>16. CASE heartbeat
    BY <1>16 DEF WakeupInv, heartbeat
  <1>17. CASE shutdown_sensor_Signal
    BY <1>17 DEF WakeupInv, shutdown_sensor_Signal, BeginShutdown
  <1>18. CASE shutdown_sensor_ProbeDone
    BY <1>18 DEF WakeupInv, shutdown_sensor_ProbeDone, BeginShutdown
  <1>19. CASE shutdown_sensor_ProbeTimeout
    BY <1>19 DEF WakeupInv, shutdown_sensor_ProbeTimeout, BeginShutdown
  <1>20. CASE write_health_Locked
    BY <1>20 DEF WakeupInv, write_health_Locked
  <1>21. CASE write_health_Write
    BY <1>21 DEF WakeupInv, write_health_Write
  <1>22. CASE shutdown_sensor_Delete
    BY <1>22 DEF WakeupInv, shutdown_sensor_Delete
  <1>23. CASE shutdown_sensor_Sync
    BY <1>23 DEF WakeupInv, shutdown_sensor_Sync
  <1>24. CASE shutdown_sensor_Destroy
    BY <1>24 DEF WakeupInv, shutdown_sensor_Destroy, msaa_ar_queue_destroy
  <1>25. CASE shutdown_sensor_Exit
    BY <1>25 DEF WakeupInv, shutdown_sensor_Exit
  <1>26. CASE Exited
    BY <1>26 DEF WakeupInv, Exited, vars
  <1>27. CASE UNCHANGED vars
    BY <1>27 DEF WakeupInv, vars
  <1>. QED
    BY <1>1, <1>2, <1>3, <1>4, <1>5, <1>6, <1>7, <1>8, <1>9, <1>10, <1>11, <1>12, <1>13, <1>14,
       <1>15, <1>16, <1>17, <1>18, <1>19, <1>20, <1>21, <1>22, <1>23, <1>24, <1>25, <1>26, <1>27
    DEF Next, Handler, Worker, Main, write_health

\* The handshake between handle_message and drain_messages loses no wake-up.
THEOREM NoWakeupIsLost == Spec => []NoLostWakeup
  <1>1. Init => WakeupInv
    BY DEF Init, WakeupInv
  <1>2. TypeOK /\ WakeupInv => NoLostWakeup
    BY DEF WakeupInv, NoLostWakeup
  <1>. QED BY <1>1, <1>2, WakeupInductive, TypeCorrect, PTL DEF Spec

-----------------------------------------------------------------------------
(* At most one asynchronous drain.                                         *)

AsyncQueued == \E i \in 1..Len(procQ) : procQ[i] = "async"

\* After es_delete_client no callback starts; the last one is not scheduling.
LastCallbackDone == ~client /\ hpc = "idle"

\* AtMostOneDrainQueued, strengthened.  The flag stands for the asynchronous
\* drain that is being dispatched, waiting or running, until the final drain of
\* shutdown_sensor clears it under that drain; by then no callback can win the
\* compare-and-swap again.
SingleDrainInv ==
  /\ AtMostOneDrainQueued
  /\ AsyncQueued => drain_scheduled \/ LastCallbackDone
  /\ hpc = "dispatch" => drain_scheduled \/ ~client
  /\ wblock = "async" => /\ ~AsyncQueued /\ hpc # "dispatch"
                         /\ drain_scheduled \/ LastCallbackDone
  /\ (wblock = "sync" /\ AsyncQueued) => hpc = "idle"
  /\ \A i, j \in 1..Len(procQ) :
        (i < j /\ procQ[i] = "sync" /\ procQ[j] = "async") => hpc = "idle"
  /\ (wblock = "sync" \/ \E i \in 1..Len(procQ) : procQ[i] = "sync") => ~client
  /\ mpc = "start" => hpc = "idle" /\ procQ = <<>> /\ wblock = "none" /\ ~client
  /\ mpc = "sync" => ~client
  /\ wpc # "idle" => wblock # "none"

\* Every step keeps SingleDrainInv, the race of the last callback with the final
\* drain of shutdown_sensor included.
LEMMA SingleDrainInductive ==
  ASSUME TypeOK, SingleDrainInv, [Next]_vars PROVE SingleDrainInv'
  <1>. USE DEF TypeOK, AtMostOneDrainQueued, AsyncQueued, LastCallbackDone,
               Running, queueVars, metricVars, countVars, esVars, handlerVars,
              workerVars, mainVars, healthVars, probeVars, otherThanMain
  <1>1. ASSUME NEW m \in Message, handle_message_Receive(m) PROVE SingleDrainInv'
    BY <1>1 DEF SingleDrainInv, handle_message_Receive
  <1>2. CASE handle_message_Push
    BY <1>2 DEF SingleDrainInv, handle_message_Push
  <1>3. CASE handle_message_Accepted
    BY <1>3 DEF SingleDrainInv, handle_message_Accepted
  <1>4. CASE handle_message_Refused
    BY <1>4 DEF SingleDrainInv, handle_message_Refused
  <1>5. CASE handle_message_Schedule
    BY <1>5 DEF SingleDrainInv, handle_message_Schedule, ExchangeSucceeds
  <1>6. CASE handle_message_Dispatch
    BY <1>6 DEF SingleDrainInv, handle_message_Dispatch
  <1>7. CASE drain_messages_Start
    BY <1>7 DEF SingleDrainInv, drain_messages_Start
  <1>8. CASE drain_messages_Pop
    BY <1>8 DEF SingleDrainInv, drain_messages_Pop
  <1>9. CASE drain_messages_Empty
    BY <1>9 DEF SingleDrainInv, drain_messages_Empty
  <1>10. CASE drain_messages_Observe
    BY <1>10 DEF SingleDrainInv, drain_messages_Observe
  <1>11. CASE drain_messages_Flag
    BY <1>11 DEF SingleDrainInv, drain_messages_Flag
  <1>12. CASE drain_messages_Deliver
    BY <1>12 DEF SingleDrainInv, drain_messages_Deliver
  <1>13. CASE drain_messages_Release
    BY <1>13 DEF SingleDrainInv, drain_messages_Release
  <1>14. CASE connect_sensor
    BY <1>14 DEF SingleDrainInv, connect_sensor
  <1>15. CASE connect_sensor_Fails
    BY <1>15 DEF SingleDrainInv, connect_sensor_Fails
  <1>16. CASE heartbeat
    BY <1>16 DEF SingleDrainInv, heartbeat
  <1>17. CASE shutdown_sensor_Signal
    BY <1>17 DEF SingleDrainInv, shutdown_sensor_Signal, BeginShutdown
  <1>18. CASE shutdown_sensor_ProbeDone
    BY <1>18 DEF SingleDrainInv, shutdown_sensor_ProbeDone, BeginShutdown
  <1>19. CASE shutdown_sensor_ProbeTimeout
    BY <1>19 DEF SingleDrainInv, shutdown_sensor_ProbeTimeout, BeginShutdown
  <1>20. CASE write_health_Locked
    BY <1>20 DEF SingleDrainInv, write_health_Locked
  <1>21. CASE write_health_Write
    BY <1>21 DEF SingleDrainInv, write_health_Write
  <1>22. CASE shutdown_sensor_Delete
    BY <1>22 DEF SingleDrainInv, shutdown_sensor_Delete
  <1>23. CASE shutdown_sensor_Sync
    BY <1>23 DEF SingleDrainInv, shutdown_sensor_Sync
  <1>24. CASE shutdown_sensor_Destroy
    BY <1>24 DEF SingleDrainInv, shutdown_sensor_Destroy
  <1>25. CASE shutdown_sensor_Exit
    BY <1>25 DEF SingleDrainInv, shutdown_sensor_Exit
  <1>26. CASE Exited
    BY <1>26 DEF SingleDrainInv, Exited, vars
  <1>27. CASE UNCHANGED vars
    BY <1>27 DEF SingleDrainInv, vars
  <1>. QED
    BY <1>1, <1>2, <1>3, <1>4, <1>5, <1>6, <1>7, <1>8, <1>9, <1>10, <1>11, <1>12, <1>13, <1>14,
       <1>15, <1>16, <1>17, <1>18, <1>19, <1>20, <1>21, <1>22, <1>23, <1>24, <1>25, <1>26, <1>27
    DEF Next, Handler, Worker, Main, write_health

\* However callbacks and drains race, the processing queue holds at most one
\* asynchronous drain.
THEOREM OneDrainQueued == Spec => []AtMostOneDrainQueued
  <1>1. Init => SingleDrainInv
    BY DEF Init, SingleDrainInv, AtMostOneDrainQueued, AsyncQueued, LastCallbackDone
  <1>2. SingleDrainInv => AtMostOneDrainQueued
    BY DEF SingleDrainInv
  <1>. QED BY <1>1, <1>2, SingleDrainInductive, TypeCorrect, PTL DEF Spec

-----------------------------------------------------------------------------
(* Event accounting.                                                       *)

\* Every step moves an event between the books or leaves the sum as it is.
LEMMA ConservedInductive ==
  ASSUME TypeOK, EventsConserved, [Next]_vars PROVE EventsConserved'
  <1>. USE DEF One, TypeOK, Running, queueVars, metricVars, countVars, esVars, handlerVars,
              workerVars, mainVars, healthVars, probeVars, otherThanMain
  <1>1. ASSUME NEW m \in Message, handle_message_Receive(m) PROVE EventsConserved'
    BY <1>1 DEF EventsConserved, handle_message_Receive
  <1>2. CASE handle_message_Push
    <2>1. CASE PushAccepts
      <3>1. rejected' = rejected /\ count' = count + 1 /\ hpc' = "accepted"
        BY <1>2, <2>1 DEF handle_message_Push, msaa_ar_queue_push
      <3>2. /\ hpc = "retained" /\ wpc' = wpc /\ live
            /\ received' = received /\ processed' = processed
        BY <1>2, <2>1 DEF handle_message_Push, PushAccepts
      <3>. QED BY <3>1, <3>2 DEF EventsConserved
    <2>2. CASE ~PushAccepts
      <3>1. rejected' = rejected + 1 /\ count' = count /\ hpc' = "refused"
        BY <1>2, <2>2 DEF handle_message_Push, msaa_ar_queue_push
      <3>2. /\ hpc = "retained" /\ wpc' = wpc /\ (live' => live)
            /\ received' = received /\ processed' = processed
        BY <1>2, <2>2 DEF handle_message_Push, msaa_ar_queue_push
      <3>. QED BY <3>1, <3>2 DEF EventsConserved
    <2>. QED BY <2>1, <2>2
  <1>3. CASE handle_message_Accepted
    BY <1>3 DEF EventsConserved, handle_message_Accepted
  <1>4. CASE handle_message_Refused
    BY <1>4 DEF EventsConserved, handle_message_Refused
  <1>5. CASE handle_message_Schedule
    BY <1>5 DEF EventsConserved, handle_message_Schedule
  <1>6. CASE handle_message_Dispatch
    BY <1>6 DEF EventsConserved, handle_message_Dispatch
  <1>7. CASE drain_messages_Start
    BY <1>7 DEF EventsConserved, drain_messages_Start
  <1>8. CASE drain_messages_Pop
    BY <1>8 DEF EventsConserved, drain_messages_Pop, msaa_ar_queue_pop
  <1>9. CASE drain_messages_Empty
    BY <1>9 DEF EventsConserved, drain_messages_Empty
  <1>10. CASE drain_messages_Observe
    BY <1>10
    DEF EventsConserved, drain_messages_Observe
  <1>11. CASE drain_messages_Flag
    BY <1>11 DEF EventsConserved, drain_messages_Flag
  <1>12. CASE drain_messages_Deliver
    BY <1>12 DEF EventsConserved, drain_messages_Deliver
  <1>13. CASE drain_messages_Release
    BY <1>13 DEF EventsConserved, drain_messages_Release
  <1>14. CASE connect_sensor
    BY <1>14 DEF EventsConserved, connect_sensor
  <1>15. CASE connect_sensor_Fails
    BY <1>15 DEF EventsConserved, connect_sensor_Fails, msaa_ar_queue_destroy
  <1>16. CASE heartbeat
    BY <1>16 DEF EventsConserved, heartbeat
  <1>17. CASE shutdown_sensor_Signal
    BY <1>17 DEF EventsConserved, shutdown_sensor_Signal, BeginShutdown
  <1>18. CASE shutdown_sensor_ProbeDone
    BY <1>18 DEF EventsConserved, shutdown_sensor_ProbeDone, BeginShutdown
  <1>19. CASE shutdown_sensor_ProbeTimeout
    BY <1>19 DEF EventsConserved, shutdown_sensor_ProbeTimeout, BeginShutdown
  <1>20. CASE write_health_Locked
    BY <1>20 DEF EventsConserved, write_health_Locked
  <1>21. CASE write_health_Write
    BY <1>21 DEF EventsConserved, write_health_Write
  <1>22. CASE shutdown_sensor_Delete
    BY <1>22 DEF EventsConserved, shutdown_sensor_Delete
  <1>23. CASE shutdown_sensor_Sync
    BY <1>23 DEF EventsConserved, shutdown_sensor_Sync
  <1>24. CASE shutdown_sensor_Destroy
    BY <1>24 DEF EventsConserved, shutdown_sensor_Destroy, msaa_ar_queue_destroy
  <1>25. CASE shutdown_sensor_Exit
    BY <1>25 DEF EventsConserved, shutdown_sensor_Exit
  <1>26. CASE Exited
    BY <1>26 DEF EventsConserved, Exited, vars
  <1>27. CASE UNCHANGED vars
    BY <1>27 DEF EventsConserved, vars
  <1>. QED
    BY <1>1, <1>2, <1>3, <1>4, <1>5, <1>6, <1>7, <1>8, <1>9, <1>10, <1>11, <1>12, <1>13, <1>14,
       <1>15, <1>16, <1>17, <1>18, <1>19, <1>20, <1>21, <1>22, <1>23, <1>24, <1>25, <1>26, <1>27
    DEF Next, Handler, Worker, Main, write_health

\* Until shutdown clears the queue, no received event leaves the books of the
\* sensor and none is entered twice.
THEOREM EventsAreConserved == Spec => []EventsConserved
  <1>1. Init => EventsConserved
    BY DEF Init, EventsConserved, One
  <1>. QED BY <1>1, ConservedInductive, TypeCorrect, PTL DEF Spec

\* Every step that counts a loss raises sequence_gap_detected, or has the
\* callback about to raise it.
LEMMA LossFlagInductive ==
  ASSUME TypeOK, LossIsFlagged, [Next]_vars PROVE LossIsFlagged'
  <1>. USE DEF TypeOK, Running, queueVars, metricVars, countVars, esVars, handlerVars,
              workerVars, mainVars, healthVars, probeVars, otherThanMain
  <1>1. ASSUME NEW m \in Message, handle_message_Receive(m) PROVE LossIsFlagged'
    BY <1>1 DEF LossIsFlagged, handle_message_Receive
  <1>2. CASE handle_message_Push
    BY <1>2 DEF LossIsFlagged, handle_message_Push, msaa_ar_queue_push, PushAccepts
  <1>3. CASE handle_message_Accepted
    BY <1>3 DEF LossIsFlagged, handle_message_Accepted
  <1>4. CASE handle_message_Refused
    BY <1>4 DEF LossIsFlagged, handle_message_Refused
  <1>5. CASE handle_message_Schedule
    BY <1>5 DEF LossIsFlagged, handle_message_Schedule
  <1>6. CASE handle_message_Dispatch
    BY <1>6 DEF LossIsFlagged, handle_message_Dispatch
  <1>7. CASE drain_messages_Start
    BY <1>7 DEF LossIsFlagged, drain_messages_Start
  <1>8. CASE drain_messages_Pop
    BY <1>8 DEF LossIsFlagged, drain_messages_Pop, msaa_ar_queue_pop
  <1>9. CASE drain_messages_Empty
    BY <1>9 DEF LossIsFlagged, drain_messages_Empty
  <1>10. CASE drain_messages_Observe
    <2>1. missing_global_events' = missing_global_events + wmissing'
      BY <1>10 DEF drain_messages_Observe, msaa_ar_observe_sequence
    <2>2. SequenceGap(wmsg) \in Nat
      BY DEF SequenceGap, Message, NoMessage
    <2>. QED BY <1>10, <2>1, <2>2 DEF LossIsFlagged, drain_messages_Observe
  <1>11. CASE drain_messages_Flag
    <2>1. sequence_gap_detected \/ wmissing > 0 => sequence_gap_detected'
      BY <1>11, Zenon DEF drain_messages_Flag, LossSeen
    <2>. QED BY <1>11, <2>1 DEF LossIsFlagged, drain_messages_Flag
  <1>12. CASE drain_messages_Deliver
    BY <1>12 DEF LossIsFlagged, drain_messages_Deliver
  <1>13. CASE drain_messages_Release
    BY <1>13 DEF LossIsFlagged, drain_messages_Release
  <1>14. CASE connect_sensor
    BY <1>14 DEF LossIsFlagged, connect_sensor
  <1>15. CASE connect_sensor_Fails
    BY <1>15 DEF LossIsFlagged, connect_sensor_Fails, msaa_ar_queue_destroy
  <1>16. CASE heartbeat
    BY <1>16 DEF LossIsFlagged, heartbeat
  <1>17. CASE shutdown_sensor_Signal
    BY <1>17 DEF LossIsFlagged, shutdown_sensor_Signal, BeginShutdown
  <1>18. CASE shutdown_sensor_ProbeDone
    BY <1>18 DEF LossIsFlagged, shutdown_sensor_ProbeDone, BeginShutdown
  <1>19. CASE shutdown_sensor_ProbeTimeout
    BY <1>19 DEF LossIsFlagged, shutdown_sensor_ProbeTimeout, BeginShutdown
  <1>20. CASE write_health_Locked
    BY <1>20 DEF LossIsFlagged, write_health_Locked
  <1>21. CASE write_health_Write
    BY <1>21 DEF LossIsFlagged, write_health_Write
  <1>22. CASE shutdown_sensor_Delete
    BY <1>22 DEF LossIsFlagged, shutdown_sensor_Delete
  <1>23. CASE shutdown_sensor_Sync
    BY <1>23 DEF LossIsFlagged, shutdown_sensor_Sync
  <1>24. CASE shutdown_sensor_Destroy
    BY <1>24 DEF LossIsFlagged, shutdown_sensor_Destroy, msaa_ar_queue_destroy
  <1>25. CASE shutdown_sensor_Exit
    BY <1>25 DEF LossIsFlagged, shutdown_sensor_Exit
  <1>26. CASE Exited
    BY <1>26 DEF LossIsFlagged, Exited, vars
  <1>27. CASE UNCHANGED vars
    BY <1>27 DEF LossIsFlagged, vars
  <1>. QED
    BY <1>1, <1>2, <1>3, <1>4, <1>5, <1>6, <1>7, <1>8, <1>9, <1>10, <1>11, <1>12, <1>13, <1>14,
       <1>15, <1>16, <1>17, <1>18, <1>19, <1>20, <1>21, <1>22, <1>23, <1>24, <1>25, <1>26, <1>27
    DEF Next, Handler, Worker, Main, write_health

\* A loss that the sensor has counted is also flagged in its health record.
THEOREM LossesAreFlagged == Spec => []LossIsFlagged
  <1>1. Init => LossIsFlagged
    BY DEF Init, LossIsFlagged
  <1>. QED BY <1>1, LossFlagInductive, TypeCorrect, PTL DEF Spec

=============================================================================
