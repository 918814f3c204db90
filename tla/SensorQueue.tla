----------------------------- MODULE SensorQueue -----------------------------
(***************************************************************************)
(* The event path of the native anti-ransomware sensor                     *)
(* (native/anti_ransomware_sensor/main.c and sensor_core.c): the Endpoint  *)
(* Security callback pushes retained messages into a ring buffer under     *)
(* queue_lock and schedules a drain through the atomic flag                *)
(* drain_scheduled; one serial dispatch queue drains; the main dispatch    *)
(* queue writes health heartbeats and shuts the sensor down.               *)
(*                                                                         *)
(* Each step is one critical section of queue_lock, one call into          *)
(* libdispatch or Endpoint Security or one atomic operation that another   *)
(* thread tests; updates of counters that are only reported are merged     *)
(* with the step before or after them.                                     *)
(* A message is its global_seq_num.                                        *)
(***************************************************************************)
EXTENDS Integers, Sequences

CONSTANTS
    Capacity,   \* msaa_ar_queue_init(&message_queue, 4096)
    MaxSeq      \* bound: highest global_seq_num Endpoint Security assigns

ASSUME CapacityAssumption == Capacity \in Nat \ {0}
ASSUME MaxSeqAssumption == MaxSeq \in Nat

Message == 1..MaxSeq
NoMessage == 0                  \* the NULL pointer
Slot == 0..Capacity-1

VARIABLES
    items, head, count, rejected,   \* msaa_ar_queue_t message_queue
    live,                           \* message_queue.items # NULL
    drain_scheduled,
    last_global_sequence, missing_global_events,    \* msaa_ar_metrics_t
    received, processed, delivered, \* events_*_total
    sequence_gap_detected, peak_queue_depth,
    esSeq, client,      \* Endpoint Security: last number it used; client # NULL
    refs,               \* references the sensor holds on each message
    hpc, hmsg, hdepth,  \* handle_message: control, message, observed_depth
    procQ, wblock, wpc,         \* processing_queue; its worker's block and control
    wmsg, wrejected, wmissing,  \* drain_messages: message, rejected, missing
    mpc, mret,          \* main dispatch queue: control, where write_health returns
    connected, snap, report,    \* write_health and the file it writes
    probe_mode, probe_event_seen, probeBlock    \* --probe-notify

queueVars == <<items, head, count, rejected, live>>
metricVars == <<last_global_sequence, missing_global_events, sequence_gap_detected>>
countVars == <<received, processed, delivered, peak_queue_depth>>
esVars == <<esSeq, client>>
handlerVars == <<hpc, hmsg, hdepth>>
workerVars == <<wblock, wpc, wmsg, wrejected, wmissing>>
healthVars == <<snap, report>>
mainVars == <<mpc, mret, connected, healthVars>>
probeVars == <<probe_mode, probe_event_seen, probeBlock>>
vars == <<queueVars, drain_scheduled, metricVars, countVars, esVars, refs,
          handlerVars, procQ, workerVars, mainVars, probeVars>>

\* The fields of the health file that matter here: one read under queue_lock,
\* one atomic counter read after it.  The other counters are read like received.
Health == [connected : BOOLEAN, dropped : Nat, received : Nat]
NoHealth == [connected |-> FALSE, dropped |-> 0, received |-> 0]

\* Indices, counters, control points and buffers stay in their ranges; above all
\* head, count and peak_queue_depth never leave the ring.
TypeOK ==
    /\ items \in [Slot -> Message \cup {NoMessage}]
    /\ head \in Slot /\ count \in 0..Capacity /\ rejected \in Nat
    /\ live \in BOOLEAN /\ drain_scheduled \in BOOLEAN
    /\ last_global_sequence \in 0..MaxSeq /\ missing_global_events \in Nat
    /\ received \in Nat /\ processed \in Nat /\ delivered \in Nat
    /\ sequence_gap_detected \in BOOLEAN /\ peak_queue_depth \in 0..Capacity
    /\ esSeq \in 0..MaxSeq /\ client \in BOOLEAN
    /\ refs \in [Message -> Int]
    /\ hpc \in {"idle", "retained", "accepted", "refused", "schedule", "dispatch"}
    /\ hmsg \in Message \cup {NoMessage} /\ hdepth \in 0..Capacity
    /\ procQ \in Seq({"async", "sync"}) /\ wblock \in {"none", "async", "sync"}
    /\ wpc \in {"idle", "pop", "observe", "flag", "deliver", "release"}
    /\ wmsg \in Message \cup {NoMessage} /\ wrejected \in Nat /\ wmissing \in Nat
    /\ mpc \in {"start", "idle", "health", "write", "delete", "sync",
                "wait", "destroy", "exit", "exited"}
    /\ mret \in {"idle", "delete"}
    /\ connected \in BOOLEAN /\ snap \in Health /\ report \in Health
    /\ probe_mode \in BOOLEAN /\ probe_event_seen \in BOOLEAN /\ probeBlock \in BOOLEAN

Running == mpc # "exited"

-----------------------------------------------------------------------------
(* sensor_core.c: the ring buffer.                                         *)

RingAt(i) == items[(head + i) % Capacity]
Contents == [i \in 1..count |-> RingAt(i - 1)]

Init ==
    /\ items = [s \in Slot |-> NoMessage]
    /\ head = 0 /\ count = 0 /\ rejected = 0 /\ live = TRUE
    /\ drain_scheduled = FALSE
    /\ last_global_sequence = 0 /\ missing_global_events = 0
    /\ received = 0 /\ processed = 0 /\ delivered = 0
    /\ sequence_gap_detected = FALSE /\ peak_queue_depth = 0
    /\ esSeq = 0 /\ client = FALSE
    /\ refs = [m \in Message |-> 0]
    /\ hpc = "idle" /\ hmsg = NoMessage /\ hdepth = 0
    /\ procQ = <<>> /\ wblock = "none" /\ wpc = "idle" /\ wmsg = NoMessage
    /\ wrejected = 0 /\ wmissing = 0
    /\ mpc = "start" /\ mret = "idle" /\ connected = FALSE
    /\ snap = NoHealth /\ report = NoHealth
    /\ probe_mode \in BOOLEAN /\ probe_event_seen = FALSE /\ probeBlock = FALSE

\* Definitions named Faulty... are plausible defects of the definition that
\* follows them.  No specification uses them; they serve to show that a property
\* depends on that definition.

FaultyPushAccepts == live /\ count <= Capacity

\* msaa_ar_queue_push: refuses when full or when the queue has been destroyed.
PushAccepts == live /\ count # Capacity

msaa_ar_queue_push(m) ==
    IF PushAccepts
    THEN /\ items' = [items EXCEPT ![(head + count) % Capacity] = m]
         /\ count' = count + 1
         /\ UNCHANGED <<head, rejected, live>>
    ELSE /\ rejected' = rejected + 1
         /\ UNCHANGED <<items, head, count, live>>

\* The drain clears the rejection counter it is about to sample.
FaultyPopClears ==
    /\ items' = [items EXCEPT ![head] = NoMessage]
    /\ head' = (head + 1) % Capacity
    /\ count' = count - 1
    /\ rejected' = 0
    /\ UNCHANGED live

\* The head does not wrap with the ring.
FaultyPopHead ==
    /\ items' = [items EXCEPT ![head] = NoMessage]
    /\ head' = IF head = 0 THEN 1 % Capacity ELSE head
    /\ count' = count - 1
    /\ UNCHANGED <<rejected, live>>

\* msaa_ar_queue_pop on a non-empty queue.
msaa_ar_queue_pop ==
    /\ items' = [items EXCEPT ![head] = NoMessage]
    /\ head' = (head + 1) % Capacity
    /\ count' = count - 1
    /\ UNCHANGED <<rejected, live>>

\* Queued messages are dropped without es_release_message.
FaultyDestroyLeaks ==
    /\ items' = [s \in Slot |-> NoMessage]
    /\ head' = 0 /\ count' = 0 /\ rejected' = 0 /\ live' = FALSE
    /\ UNCHANGED refs

\* msaa_ar_queue_destroy: releases what is queued, frees and clears the struct.
msaa_ar_queue_destroy ==
    /\ refs' = [m \in Message |->
                    refs[m] - (IF \E i \in 0..count-1 : RingAt(i) = m THEN 1 ELSE 0)]
    /\ items' = [s \in Slot |-> NoMessage]
    /\ head' = 0 /\ count' = 0 /\ rejected' = 0 /\ live' = FALSE

FaultySequenceGap(m) ==
    IF last_global_sequence # 0 /\ m > last_global_sequence + 1
    THEN m - last_global_sequence ELSE 0

\* msaa_ar_observe_sequence: a jump over n > 0 numbers adds n missing events.
SequenceGap(m) ==
    IF last_global_sequence # 0 /\ m > last_global_sequence + 1
    THEN m - last_global_sequence - 1 ELSE 0

msaa_ar_observe_sequence(m) ==
    /\ missing_global_events' = missing_global_events + SequenceGap(m)
    /\ last_global_sequence' =
            IF m > last_global_sequence THEN m ELSE last_global_sequence

-----------------------------------------------------------------------------
(* handle_message, run by Endpoint Security strictly one message at a      *)
(* time.  Numbers skipped between two callbacks are events the kernel      *)
(* dropped.                                                                *)

handle_message_Receive(m) ==
    /\ Running /\ client /\ hpc = "idle"
    /\ m > esSeq
    /\ esSeq' = m
    /\ received' = received + 1
    /\ refs' = [refs EXCEPT ![m] = @ + 1]            \* es_retain_message
    /\ hpc' = "retained" /\ hmsg' = m
    /\ UNCHANGED <<queueVars, drain_scheduled, metricVars, processed, delivered,
                   peak_queue_depth, client, hdepth, procQ, workerVars, mainVars,
                   probeVars>>

handle_message_Push ==
    /\ Running /\ hpc = "retained"
    /\ msaa_ar_queue_push(hmsg)
    /\ hpc' = IF PushAccepts THEN "accepted" ELSE "refused"
    /\ hdepth' = count'
    /\ UNCHANGED <<drain_scheduled, metricVars, countVars, esVars, refs, hmsg,
                   procQ, workerVars, mainVars, probeVars>>

\* The compare-and-swap loop on peak_queue_depth (its only writer), then the
\* early return of a refused message.
RaisePeak ==
    peak_queue_depth' = IF hdepth > peak_queue_depth THEN hdepth ELSE peak_queue_depth

handle_message_Accepted ==
    /\ Running /\ hpc = "accepted"
    /\ RaisePeak
    /\ hpc' = "schedule" /\ hmsg' = NoMessage
    /\ UNCHANGED <<queueVars, drain_scheduled, metricVars, received, processed,
                   delivered, esVars, refs, hdepth, procQ, workerVars, mainVars,
                   probeVars>>

handle_message_Refused ==
    /\ Running /\ hpc = "refused"
    /\ RaisePeak
    /\ sequence_gap_detected' = TRUE
    /\ refs' = [refs EXCEPT ![hmsg] = @ - 1]         \* es_release_message
    /\ hpc' = "idle" /\ hmsg' = NoMessage
    /\ UNCHANGED <<queueVars, drain_scheduled, last_global_sequence,
                   missing_global_events, received, processed, delivered, esVars,
                   hdepth, procQ, workerVars, mainVars, probeVars>>

\* atomic_compare_exchange_strong(&drain_scheduled, false, true)
FaultyExchangeSucceeds == TRUE
ExchangeSucceeds == ~drain_scheduled

handle_message_Schedule ==
    /\ Running /\ hpc = "schedule"
    /\ drain_scheduled' = TRUE
    /\ hpc' = IF ExchangeSucceeds THEN "dispatch" ELSE "idle"
    /\ UNCHANGED <<queueVars, metricVars, countVars, esVars, refs, hmsg, hdepth,
                   procQ, workerVars, mainVars, probeVars>>

handle_message_Dispatch ==
    /\ Running /\ hpc = "dispatch"
    /\ procQ' = Append(procQ, "async")
    /\ hpc' = "idle"
    /\ UNCHANGED <<queueVars, drain_scheduled, metricVars, countVars, esVars, refs,
                   hmsg, hdepth, workerVars, mainVars, probeVars>>

Handler ==
    \/ handle_message_Push
    \/ handle_message_Accepted
    \/ handle_message_Refused
    \/ handle_message_Schedule
    \/ handle_message_Dispatch

-----------------------------------------------------------------------------
(* drain_messages, on the serial processing queue.                         *)

drain_messages_Start ==
    /\ Running /\ wpc = "idle" /\ procQ # <<>>
    /\ wblock' = Head(procQ) /\ procQ' = Tail(procQ)
    /\ wpc' = "pop"
    /\ UNCHANGED <<queueVars, drain_scheduled, metricVars, countVars, esVars, refs,
                   handlerVars, wmsg, wrejected, wmissing, mainVars, probeVars>>

drain_messages_Pop ==
    /\ Running /\ wpc = "pop" /\ count # 0
    /\ msaa_ar_queue_pop
    /\ wmsg' = items[head] /\ wrejected' = rejected
    /\ wpc' = "observe"
    /\ UNCHANGED <<drain_scheduled, metricVars, countVars, esVars, refs,
                   handlerVars, procQ, wblock, wmissing, mainVars, probeVars>>

\* The empty drain returns without clearing the flag.
FaultyEmpty ==
    /\ Running /\ wpc = "pop" /\ count = 0
    /\ wpc' = "idle" /\ wblock' = "none"
    /\ mpc' = IF wblock = "sync" THEN "destroy" ELSE mpc
    /\ UNCHANGED <<queueVars, drain_scheduled, metricVars, countVars, esVars, refs,
                   handlerVars, procQ, wmsg, wrejected, wmissing, mret, connected,
                   healthVars, probeVars>>

\* The flag is cleared in the critical section that found the queue empty.
\* Returning from the block that shutdown_sensor submitted with dispatch_sync
\* lets the main queue continue.
drain_messages_Empty ==
    /\ Running /\ wpc = "pop" /\ count = 0
    /\ drain_scheduled' = FALSE
    /\ wpc' = "idle" /\ wblock' = "none"
    /\ mpc' = IF wblock = "sync" THEN "destroy" ELSE mpc
    /\ UNCHANGED <<queueVars, metricVars, countVars, esVars, refs, handlerVars,
                   procQ, wmsg, wrejected, wmissing, mret, connected, healthVars,
                   probeVars>>

\* The metrics are updated outside queue_lock, under which write_health reads
\* them.
drain_messages_Observe ==
    /\ Running /\ wpc = "observe"
    /\ msaa_ar_observe_sequence(wmsg)
    /\ wmissing' = SequenceGap(wmsg)
    /\ wpc' = "flag"
    /\ UNCHANGED <<queueVars, drain_scheduled, sequence_gap_detected, countVars,
                   esVars, refs, handlerVars, procQ, wblock, wmsg, wrejected,
                   mainVars, probeVars>>

FaultyLossSeen == wrejected > 0
LossSeen == wmissing > 0 \/ wrejected > 0

drain_messages_Flag ==
    /\ Running /\ wpc = "flag"
    /\ sequence_gap_detected' = (sequence_gap_detected \/ LossSeen)
    /\ processed' = processed + 1
    /\ wpc' = "deliver"
    /\ UNCHANGED <<queueVars, drain_scheduled, last_global_sequence,
                   missing_global_events, received, delivered, peak_queue_depth,
                   esVars, refs, handlerVars, procQ, wblock, wmsg, wrejected,
                   wmissing, mainVars, probeVars>>

\* probe_mode && !atomic_exchange(&probe_event_seen, true)
FaultyFirstProbeEvent == probe_mode /\ probe_event_seen
FirstProbeEvent == probe_mode /\ ~probe_event_seen

\* The line on stdout; the first delivery of a probe asks for a shutdown.
drain_messages_Deliver ==
    /\ Running /\ wpc = "deliver"
    /\ delivered' = delivered + 1
    /\ probe_event_seen' = (probe_event_seen \/ probe_mode)
    /\ probeBlock' = (probeBlock \/ FirstProbeEvent)
    /\ wpc' = "release"
    /\ UNCHANGED <<queueVars, drain_scheduled, metricVars, received, processed,
                   peak_queue_depth, esVars, refs, handlerVars, procQ, wblock,
                   wmsg, wrejected, wmissing, mainVars, probe_mode>>

drain_messages_Release ==
    /\ Running /\ wpc = "release"
    /\ refs' = [refs EXCEPT ![wmsg] = @ - 1]
    /\ wmsg' = NoMessage /\ wmissing' = 0 /\ wpc' = "pop"
    /\ UNCHANGED <<queueVars, drain_scheduled, metricVars, countVars, esVars,
                   handlerVars, procQ, wblock, wrejected, mainVars, probeVars>>

Worker ==
    \/ drain_messages_Start
    \/ drain_messages_Pop
    \/ drain_messages_Empty
    \/ drain_messages_Observe
    \/ drain_messages_Flag
    \/ drain_messages_Deliver
    \/ drain_messages_Release

-----------------------------------------------------------------------------
(* The main dispatch queue: connect_sensor, write_health, shutdown_sensor. *)

otherThanMain == <<queueVars, drain_scheduled, metricVars, countVars, refs,
                   handlerVars, workerVars>>

\* es_new_client and es_subscribe succeed; the first health record follows.
connect_sensor ==
    /\ mpc = "start"
    /\ client' = TRUE /\ connected' = TRUE
    /\ mpc' = "health" /\ mret' = "idle"
    /\ UNCHANGED <<otherThanMain, esSeq, procQ, healthVars, probeVars>>

\* es_new_client or es_subscribe fails: report a disconnected sensor whose
\* counters are zero (as report already says), destroy the queue, return.
connect_sensor_Fails ==
    /\ mpc = "start"
    /\ msaa_ar_queue_destroy
    /\ mpc' = "exited"
    /\ UNCHANGED <<drain_scheduled, metricVars, countVars, esVars, handlerVars,
                   procQ, workerVars, mret, connected, healthVars, probeVars>>

heartbeat ==
    /\ mpc = "idle"
    /\ mpc' = "health" /\ mret' = "idle"
    /\ UNCHANGED <<otherThanMain, esVars, procQ, connected, healthVars, probeVars>>

\* write_health: the fields read under queue_lock (and connected, before it) ...
write_health_Locked ==
    /\ mpc = "health"
    /\ snap' = [connected |-> connected,
                dropped |-> rejected + missing_global_events, received |-> 0]
    /\ mpc' = "write"
    /\ UNCHANGED <<otherThanMain, esVars, procQ, mret, connected, report, probeVars>>

\* ... then the atomic counters; msaa_ar_write_health replaces the file, or
\* fails and leaves it.
write_health_Write ==
    /\ mpc = "write"
    /\ report' \in {report, [snap EXCEPT !.received = received]}
    /\ snap' = NoHealth
    /\ mpc' = mret
    /\ UNCHANGED <<otherThanMain, esVars, procQ, mret, connected, probeVars>>

\* shutdown_sensor up to its write_health, from any of its three callers.
BeginShutdown ==
    /\ mpc = "idle"
    /\ connected' = FALSE
    /\ mpc' = "health" /\ mret' = "delete"
    /\ UNCHANGED <<otherThanMain, esVars, procQ, healthVars, probe_mode,
                   probe_event_seen>>

shutdown_sensor_Signal == BeginShutdown /\ UNCHANGED probeBlock   \* SIGTERM, SIGINT

shutdown_sensor_ProbeDone ==
    /\ probeBlock /\ probeBlock' = FALSE
    /\ BeginShutdown

shutdown_sensor_ProbeTimeout ==
    /\ probe_mode /\ ~probe_event_seen
    /\ BeginShutdown /\ UNCHANGED probeBlock

\* es_unsubscribe_all, es_delete_client: no callback starts any more, one that
\* is running finishes.
shutdown_sensor_Delete ==
    /\ mpc = "delete"
    /\ client' = FALSE
    /\ mpc' = "sync"
    /\ UNCHANGED <<otherThanMain, esSeq, procQ, mret, connected, healthVars, probeVars>>

\* The final drain is left to one that is already scheduled.
FaultySync ==
    /\ mpc = "sync"
    /\ procQ' = IF drain_scheduled THEN procQ ELSE Append(procQ, "sync")
    /\ mpc' = "wait"
    /\ UNCHANGED <<otherThanMain, esVars, mret, connected, healthVars, probeVars>>

shutdown_sensor_Sync ==
    /\ mpc = "sync"
    /\ procQ' = Append(procQ, "sync")
    /\ mpc' = "wait"
    /\ UNCHANGED <<otherThanMain, esVars, mret, connected, healthVars, probeVars>>

shutdown_sensor_Destroy ==
    /\ mpc = "destroy"
    /\ msaa_ar_queue_destroy
    /\ mpc' = "exit"
    /\ UNCHANGED <<drain_scheduled, metricVars, countVars, esVars, handlerVars,
                   procQ, workerVars, mret, connected, healthVars, probeVars>>

shutdown_sensor_Exit ==
    /\ mpc = "exit" /\ mpc' = "exited"
    /\ UNCHANGED <<otherThanMain, esVars, procQ, mret, connected, healthVars, probeVars>>

write_health ==
    \/ write_health_Locked
    \/ write_health_Write

\* Steps of a main-queue block that has started.
Main ==
    \/ write_health
    \/ shutdown_sensor_Delete
    \/ shutdown_sensor_Sync
    \/ shutdown_sensor_Destroy
    \/ shutdown_sensor_Exit

\* After _exit or the return of main.
Exited == mpc = "exited" /\ UNCHANGED vars

Next ==
    \/ \E m \in Message : handle_message_Receive(m)
    \/ Handler
    \/ Worker
    \/ connect_sensor
    \/ connect_sensor_Fails
    \/ heartbeat
    \/ shutdown_sensor_Signal
    \/ shutdown_sensor_ProbeDone
    \/ shutdown_sensor_ProbeTimeout
    \/ Main
    \/ Exited

Spec == Init /\ [][Next]_vars

(* A started callback or block runs on, and libdispatch starts what was    *)
(* submitted to a serial queue however often the queue is busy with other  *)
(* blocks (strong fairness for the two shutdown blocks of a probe, which   *)
(* compete with heartbeats).  Nothing makes events arrive, and nobody has  *)
(* to send a signal.                                                       *)
Fairness ==
    /\ WF_vars(Handler) /\ WF_vars(Worker) /\ WF_vars(Main)
    /\ SF_vars(shutdown_sensor_ProbeDone) /\ SF_vars(shutdown_sensor_ProbeTimeout)

FairSpec == Spec /\ Fairness

-----------------------------------------------------------------------------
(* Properties.                                                             *)

InRing(m) == \E i \in 0..count-1 : RingAt(i) = m
One(b) == IF b THEN 1 ELSE 0

\* Every message the sensor retained has exactly one owner (the callback that
\* has not handed it over or was refused, the ring buffer, or the drain), and a
\* message without an owner is released: no leak, no double es_release_message,
\* no use after release, whatever the interleaving with shutdown_sensor.
MessageOwnedOnce ==
    \A m \in Message :
        refs[m] = One(hmsg = m /\ hpc \in {"retained", "refused"})
                  + One(InRing(m)) + One(wmsg = m)

\* The lock-free handshake on drain_scheduled loses no wake-up: while messages
\* are queued, a drain is running or queued on processing_queue, or the callback
\* is still on its way to the compare-and-swap or to dispatch_async.
NoLostWakeup ==
    count > 0 => \/ hpc \in {"accepted", "schedule", "dispatch"}
                 \/ procQ # <<>>
                 \/ wpc # "idle"

\* The other half of the handshake: however often callbacks and drains race,
\* at most one asynchronous drain block is waiting or about to be dispatched,
\* so processing_queue does not grow with the event rate.
AtMostOneDrainQueued ==
    /\ \A i, j \in 1..Len(procQ) : procQ[i] = "async" /\ procQ[j] = "async" => i = j
    /\ hpc = "dispatch" => \A i \in 1..Len(procQ) : procQ[i] # "async"

\* Until shutdown clears the queue, every event counted as received is counted
\* exactly once as processed or as a queue rejection, or is still in the ring or
\* in the hands of the callback or of the drain.
EventsConserved ==
    live => received = processed + rejected + count
                       + One(hpc = "retained") + One(wpc \in {"observe", "flag"})

\* The sequence numbers of msaa_ar_observe_sequence add up: after the first
\* observed event, every number up to last_global_sequence was either observed
\* by the drain or added to missing_global_events, exactly once.
Observed == processed + One(wpc = "flag")
EveryNumberAccounted ==
    [][last_global_sequence # 0 =>
         (Observed' + missing_global_events') - (Observed + missing_global_events)
            = last_global_sequence' - last_global_sequence]_vars

\* A loss the counters know of is flagged, except for the gap that the drain, or
\* the rejection that the callback, has counted and is about to flag.
LossIsFlagged ==
    (\/ missing_global_events > (IF wpc = "flag" THEN wmissing ELSE 0)
     \/ rejected > 0 /\ hpc # "refused" /\ live)
        => sequence_gap_detected

\* No counter of the health file ever goes back, the final report of a shutdown
\* included: write_health reads the loss counters before the queue that holds
\* them is destroyed.
ReportsMonotone ==
    [][/\ report'.dropped >= report.dropped
       /\ report'.received >= report.received]_vars

\* The ring buffer, lock, flag and dispatch queues implement the bounded FIFO
\* channel that the sensor's README promises.
Channel == INSTANCE SensorChannel
                WITH pending <- Contents, taken <- wmsg, closed <- ~live
ImplementsChannel == Channel!Spec

\* Every message accepted into the ring is eventually taken out of it.
AcceptedIsDrained == \A m \in Message : InRing(m) ~> ~InRing(m)

\* A shutdown that has started ends in _exit: dispatch_sync from the main queue
\* neither deadlocks with a drain nor waits on an endless stream of events.
ShutdownTerminates == (mret = "delete") ~> (mpc = "exited")

\* A probe run always ends, by its first delivered event or by its timer.
ProbeTerminates == (probe_mode /\ client) ~> (mpc = "exited")
=============================================================================
