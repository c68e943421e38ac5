-------------------------- MODULE ConsumerProducer --------------------------
(***************************************************************************)
(* A worker that consumes the messages of an SQS queue and publishes the   *)
(* events they generate: the preprocess and the enrich workers.  Its       *)
(* threads are connected by bounded queues: the messages are received,     *)
(* their events generated by the run loop, published, and counted.  When   *)
(* the events of a message are published, it is deleted.  The events are   *)
(* published one by one by the SNS threads, in batches by the SQS thread.  *)
(*                                                                         *)
(* A message that is not deleted in time is delivered again, with another  *)
(* receipt handle: a handle is a message and the number of its delivery.   *)
(***************************************************************************)
EXTENDS Naturals, Sequences, SequencesExt, FiniteSets

CONSTANTS
    Messages,           \* the messages of the SQS queue
    EventCount,         \* the number of events a message generates
    Publishers,         \* the threads that publish the events
    BatchSize,          \* the number of events they publish at once
    DeleteBatchSize,    \* the number of messages deleted at once
    ProcessCap, PublishCap, PublishedCap, DeleteCap,  \* maxsize of the queues
    MaxInFlight,        \* max_in_flight_receipt_handle_count
    None,
    MaxFaults,          \* bound on the errors and the crashes
    MaxTimeouts,        \* bound on the deliveries of messages in the worker
    MaxSignals          \* bound on the signals

ASSUME MessagesAssumption == IsFiniteSet(Messages)
ASSUME PublishersAssumption == IsFiniteSet(Publishers)
ASSUME EventCountAssumption == EventCount \in [Messages -> Nat]
ASSUME SizeAssumption ==
    /\ {BatchSize, DeleteBatchSize, ProcessCap, PublishCap, PublishedCap,
        DeleteCap, MaxInFlight} \subseteq Nat \ {0}
    /\ {MaxFaults, MaxTimeouts, MaxSignals} \subseteq Nat

Handle == [message : Messages, delivery : Nat]
Event == [handle : Handle, index : Nat]

ASSUME NoneAssumption == None \notin Handle

VARIABLES
    sqs,                \* the state of each message in the SQS queue
    delivery,           \* the number of times it was delivered
    published,          \* the events of the messages that were published
    received,           \* the receive thread: the handles to put in process_q
    process_q,          \* process_message_queue
    main, current, generated,   \* the run loop, with its handle and its events
    in_flight,          \* in_flight_receipt_handles, the last used ones last
    publish_q,          \* publish_message_queue
    publisher,          \* the publish threads: state, events, handles
    published_q,        \* published_message_queue
    final, counted,     \* the final thread, with its handle
    delete_q,           \* delete_message_queue
    deleter, entries,   \* the delete thread, with its handles
    receiver,           \* the state of the receive thread
    stop_receiving, stop,       \* the events
    faults, timeouts, signals   \* counters, for the bounds

outside == <<sqs, delivery, published>>
receive_thread == <<receiver, received>>
run_loop == <<main, current, generated>>
final_thread == <<final, counted>>
delete_thread == <<deleter, entries>>
stop_events == <<stop_receiving, stop>>
bounds == <<faults, timeouts, signals>>
vars == <<outside, receive_thread, process_q, run_loop, in_flight, publish_q,
          publisher, published_q, final_thread, delete_q, delete_thread,
          stop_events, bounds>>

Publisher ==
    [pc : {"get", "empty", "put", "stopped"}, next : {"get", "empty"},
     events : Seq(Event), sent : Seq(Handle)]

Idle == [pc |-> "get", events |-> <<>>, sent |-> <<>>, next |-> "get"]

\* An OrderedDict of the counts, by handle.
Entry == [handle : Handle, count : Nat \ {0}]
Keyed(q) == \A i, j \in DOMAIN q : q[i].handle = q[j].handle => i = j
InFlightOK(q) == q \in Seq(Entry) /\ Keyed(q) /\ Len(q) <= MaxInFlight

SeqUpTo(S, cap, q) == q \in Seq(S) /\ Len(q) <= cap

TypeOK ==
    /\ sqs \in [Messages -> {"visible", "in_flight", "deleted"}]
    /\ delivery \in [Messages -> Nat]
    /\ published \subseteq [message : Messages, index : Nat]
    /\ \A e \in published : e.index \in 1 .. EventCount[e.message]
    /\ receiver \in {"receive", "queue", "stopped"} /\ received \in Seq(Handle)
    /\ main \in {"get", "empty", "generate", "publish", "delete", "stop", "join", "stopped"}
    /\ current \in Handle \cup {None} /\ generated \in Nat
    /\ InFlightOK(in_flight)
    /\ publisher \in [Publishers -> Publisher]
    /\ \A p \in Publishers :
         Len(publisher[p].events) <= BatchSize /\ Len(publisher[p].sent) <= BatchSize
    /\ final \in {"get", "empty", "put", "stopped"} /\ counted \in Handle \cup {None}
    /\ deleter \in {"get", "empty", "stopped"}
    /\ SeqUpTo(Handle, DeleteBatchSize, entries)
    /\ SeqUpTo(Handle, ProcessCap, process_q)
    /\ SeqUpTo(Event, PublishCap, publish_q)
    /\ SeqUpTo(Handle, PublishedCap, published_q)
    /\ SeqUpTo(Handle, DeleteCap, delete_q)
    /\ stop_receiving \in BOOLEAN /\ stop \in BOOLEAN
    /\ faults \in 0 .. MaxFaults /\ timeouts \in 0 .. MaxTimeouts
    /\ signals \in 0 .. MaxSignals

Init ==
    /\ sqs = [m \in Messages |-> "visible"]
    /\ delivery = [m \in Messages |-> 0]
    /\ published = {}
    /\ receiver = "receive" /\ received = <<>> /\ process_q = <<>>
    /\ main = "get" /\ current = None /\ generated = 0
    /\ in_flight = <<>> /\ publish_q = <<>>
    /\ publisher = [p \in Publishers |-> Idle]
    /\ published_q = <<>> /\ final = "get" /\ counted = None
    /\ delete_q = <<>> /\ deleter = "get" /\ entries = <<>>
    /\ stop_receiving = FALSE /\ stop = FALSE
    /\ faults = 0 /\ timeouts = 0 /\ signals = 0

Fault == faults < MaxFaults /\ faults' = faults + 1 /\ UNCHANGED <<timeouts, signals>>

-----------------------------------------------------------------------------
(* The receive thread.                                                     *)

\* receive_message
ReceiveMessages ==
    /\ receiver = "receive"
    /\ ~stop_receiving
    /\ \E batch \in SetToAllKPermutations({[message |-> m, delivery |-> delivery[m] + 1] :
                                             m \in {m \in Messages : sqs[m] = "visible"}}) :
         LET delivered == {h.message : h \in ToSet(batch)}
         IN /\ batch # <<>>
            /\ received' = batch
            /\ sqs' = [m \in Messages |-> IF m \in delivered THEN "in_flight" ELSE sqs[m]]
            /\ delivery' = [m \in Messages |->
                              IF m \in delivered THEN delivery[m] + 1 ELSE delivery[m]]
    /\ receiver' = "queue"
    /\ UNCHANGED <<published, process_q, run_loop, in_flight, publish_q, publisher,
                   published_q, final_thread, delete_q, delete_thread, stop_events, bounds>>

\* The next message of the batch is put in the queue.
QueueMessage ==
    /\ receiver = "queue"
    /\ Len(process_q) < ProcessCap
    /\ process_q' = Append(process_q, Head(received))
    /\ received' = Tail(received)
    /\ receiver' = IF Len(received) = 1 THEN "receive" ELSE "queue"
    /\ UNCHANGED <<outside, run_loop, in_flight, publish_q, publisher, published_q,
                   final_thread, delete_q, delete_thread, stop_events, bounds>>

\* The rest of the batch is dropped: between two messages, or when the queue is full.
StopReceiving ==
    /\ receiver # "stopped"
    /\ stop_receiving
    /\ received' = <<>>
    /\ receiver' = "stopped"
    /\ UNCHANGED <<outside, process_q, run_loop, in_flight, publish_q, publisher,
                   published_q, final_thread, delete_q, delete_thread, stop_events, bounds>>

ReceiveThread == ReceiveMessages \/ QueueMessage \/ StopReceiving

-----------------------------------------------------------------------------
(* The receipt handles in flight.                                          *)

Known(h) == \E i \in DOMAIN in_flight : in_flight[i].handle = h
Position(h) == CHOOSE i \in DOMAIN in_flight : in_flight[i].handle = h
Others(h) == IF Known(h) THEN RemoveAt(in_flight, Position(h)) ELSE in_flight
Count(h) == IF Known(h) THEN in_flight[Position(h)].count ELSE 0

MovedToEnd(h, count) == Append(Others(h), [handle |-> h, count |-> count])

\* Variant: the handle is in flight, the events are not counted.
IncrementedOnce(h) == MovedToEnd(h, 1)

\* increment_receipt_handle_unpublished_event_count: the oldest ones are evicted.
Incremented(h) ==
    LET entries_ == MovedToEnd(h, Count(h) + 1)
    IN IF Len(entries_) > MaxInFlight THEN Tail(entries_) ELSE entries_

\* Variant: the handle stays in flight.
DecrementedKeep(h) == MovedToEnd(h, Count(h) - 1)

\* decrement_receipt_handle_unpublished_event_count. An unknown handle is ignored.
Decremented(h) ==
    IF Count(h) <= 1 THEN Others(h) ELSE MovedToEnd(h, Count(h) - 1)

NoMoreEvents(h) == Count(h) = 1

-----------------------------------------------------------------------------
(* The run loop.                                                           *)

GetMessage ==
    /\ main = "get"
    /\ process_q # <<>>
    /\ current' = Head(process_q)
    /\ process_q' = Tail(process_q)
    /\ generated' = 0
    /\ main' = "generate"
    /\ UNCHANGED <<outside, receive_thread, in_flight, publish_q, publisher, published_q,
                   final_thread, delete_q, delete_thread, stop_events, bounds>>

NoMessage ==
    /\ \/ main = "get" /\ process_q = <<>> /\ main' = "empty"
       \/ main = "empty" /\ main' = IF stop_receiving THEN "stop" ELSE "get"
    /\ UNCHANGED <<outside, receive_thread, process_q, current, generated, in_flight,
                   publish_q, publisher, published_q, final_thread, delete_q,
                   delete_thread, stop_events, bounds>>

\* The generator yields the next event, which is counted ...
GenerateEvent ==
    /\ main = "generate"
    /\ generated < EventCount[current.message]
    /\ in_flight' = Incremented(current)
    /\ generated' = generated + 1
    /\ main' = "publish"
    /\ UNCHANGED <<outside, receive_thread, process_q, current, publish_q, publisher,
                   published_q, final_thread, delete_q, delete_thread, stop_events, bounds>>

\* ... before it is put in the queue.
QueueEvent ==
    /\ main = "publish"
    /\ Len(publish_q) < PublishCap
    /\ publish_q' = Append(publish_q, [handle |-> current, index |-> generated])
    /\ main' = "generate"
    /\ UNCHANGED <<outside, receive_thread, process_q, current, generated, in_flight,
                   publisher, published_q, final_thread, delete_q, delete_thread,
                   stop_events, bounds>>

\* A message without events is deleted.
EndOfEvents ==
    /\ main = "generate"
    /\ generated = EventCount[current.message]
    /\ IF generated = 0
       THEN main' = "delete" /\ UNCHANGED <<current, generated>>
       ELSE main' = "get" /\ current' = None /\ generated' = 0
    /\ UNCHANGED <<outside, receive_thread, process_q, in_flight, publish_q, publisher,
                   published_q, final_thread, delete_q, delete_thread, stop_events, bounds>>

QueueEmptyMessage ==
    /\ main = "delete"
    /\ Len(delete_q) < DeleteCap
    /\ delete_q' = Append(delete_q, current)
    /\ main' = "get" /\ current' = None
    /\ UNCHANGED <<outside, receive_thread, process_q, generated, in_flight, publish_q,
                   publisher, published_q, final_thread, delete_thread, stop_events, bounds>>

\* The generator raises an exception: this ends the loop.
GeneratorFails ==
    /\ main = "generate"
    /\ Fault
    /\ main' = "stop" /\ current' = None /\ generated' = 0
    /\ UNCHANGED <<outside, receive_thread, process_q, in_flight, publish_q, publisher,
                   published_q, final_thread, delete_q, delete_thread, stop_events>>

\* The end of run: the threads are joined.
GracefulStop ==
    /\ main = "stop"
    /\ stop_receiving' = TRUE
    /\ stop' = TRUE
    /\ main' = "join"
    /\ UNCHANGED <<outside, receive_thread, process_q, current, generated, in_flight,
                   publish_q, publisher, published_q, final_thread, delete_q,
                   delete_thread, bounds>>

Join ==
    /\ main = "join"
    /\ receiver = "stopped" /\ final = "stopped" /\ deleter = "stopped"
    /\ \A p \in Publishers : publisher[p].pc = "stopped"
    /\ main' = "stopped"
    /\ UNCHANGED <<outside, receive_thread, process_q, current, generated, in_flight,
                   publish_q, publisher, published_q, final_thread, delete_q,
                   delete_thread, stop_events, bounds>>

RunLoop ==
    \/ GetMessage \/ NoMessage \/ GenerateEvent \/ QueueEvent \/ EndOfEvents
    \/ QueueEmptyMessage \/ GracefulStop \/ Join

-----------------------------------------------------------------------------
(* The publish threads.                                                    *)

GetEvent(p) ==
    /\ publisher[p].pc = "get"
    /\ publish_q # <<>>
    /\ Len(publisher[p].events) < BatchSize
    /\ publisher' = [publisher EXCEPT ![p].events = Append(@, Head(publish_q))]
    /\ publish_q' = Tail(publish_q)
    /\ UNCHANGED <<outside, receive_thread, process_q, run_loop, in_flight, published_q,
                   final_thread, delete_q, delete_thread, stop_events, bounds>>

\* Variant: the handles of the events that could not be published are put, too.
PublishAnyway(p) ==
    /\ publisher[p].events # <<>>
    /\ \/ publisher[p].pc = "get" /\ Len(publisher[p].events) = BatchSize
       \/ publisher[p].pc = "empty"
    /\ \E sent \in SUBSET DOMAIN publisher[p].events :
         /\ IF sent = DOMAIN publisher[p].events THEN UNCHANGED bounds ELSE Fault
         /\ published' = published \cup
              {[message |-> publisher[p].events[i].handle.message,
                index |-> publisher[p].events[i].index] : i \in sent}
         /\ publisher' = [publisher EXCEPT ![p] =
              [pc |-> "put", events |-> <<>>,
               sent |-> [i \in DOMAIN publisher[p].events |-> publisher[p].events[i].handle],
               next |-> publisher[p].pc]]
    /\ UNCHANGED <<sqs, delivery, receive_thread, process_q, run_loop, in_flight, publish_q,
                   published_q, final_thread, delete_q, delete_thread, stop_events>>

\* A full batch is published at once, the other ones when there is no new event
\* and the batch is old enough, or the worker stops. The events that cannot be
\* published are dropped. SQS answers in any order.
Publish(p) ==
    /\ publisher[p].events # <<>>
    /\ \/ publisher[p].pc = "get" /\ Len(publisher[p].events) = BatchSize
       \/ publisher[p].pc = "empty"
    /\ \E sent \in SetToAllKPermutations(DOMAIN publisher[p].events) :
         LET events == publisher[p].events
         IN /\ IF Len(sent) = Len(events) THEN UNCHANGED bounds ELSE Fault
            /\ published' = published \cup
                 {[message |-> events[i].handle.message, index |-> events[i].index] : i \in ToSet(sent)}
            /\ publisher' = [publisher EXCEPT ![p] =
                 [pc |-> IF sent = <<>> THEN publisher[p].pc ELSE "put",
                  events |-> <<>>,
                  sent |-> [i \in DOMAIN sent |-> events[sent[i]].handle],
                  next |-> publisher[p].pc]]
    /\ UNCHANGED <<sqs, delivery, receive_thread, process_q, run_loop, in_flight, publish_q,
                   published_q, final_thread, delete_q, delete_thread, stop_events>>

PutPublished(p) ==
    /\ publisher[p].pc = "put"
    /\ Len(published_q) < PublishedCap
    /\ published_q' = Append(published_q, Head(publisher[p].sent))
    /\ LET last == Len(publisher[p].sent) = 1
       IN publisher' = [publisher EXCEPT ![p] =
            [pc |-> IF last THEN @.next ELSE "put", next |-> IF last THEN "get" ELSE @.next,
             events |-> @.events, sent |-> Tail(@.sent)]]
    /\ UNCHANGED <<outside, receive_thread, process_q, run_loop, in_flight, publish_q,
                   final_thread, delete_q, delete_thread, stop_events, bounds>>

NoEvent(p) ==
    /\ \/ /\ publisher[p].pc = "get" /\ publish_q = <<>>
          /\ Len(publisher[p].events) < BatchSize
          /\ publisher' = [publisher EXCEPT ![p].pc = "empty"]
       \/ /\ publisher[p].pc = "empty"
          /\ stop => publisher[p].events = <<>>
          /\ publisher' = [publisher EXCEPT ![p].pc = IF stop THEN "stopped" ELSE "get"]
    /\ UNCHANGED <<outside, receive_thread, process_q, run_loop, in_flight, publish_q,
                   published_q, final_thread, delete_q, delete_thread, stop_events, bounds>>

PublishThread(p) == GetEvent(p) \/ Publish(p) \/ PutPublished(p) \/ NoEvent(p)

-----------------------------------------------------------------------------
(* The final thread.                                                       *)

GetPublished ==
    /\ final = "get"
    /\ published_q # <<>>
    /\ LET h == Head(published_q)
       IN /\ in_flight' = Decremented(h)
          /\ IF NoMoreEvents(h)
             THEN final' = "put" /\ counted' = h
             ELSE UNCHANGED final_thread
    /\ published_q' = Tail(published_q)
    /\ UNCHANGED <<outside, receive_thread, process_q, run_loop, publish_q, publisher,
                   delete_q, delete_thread, stop_events, bounds>>

QueuePublishedMessage ==
    /\ final = "put"
    /\ Len(delete_q) < DeleteCap
    /\ delete_q' = Append(delete_q, counted)
    /\ final' = "get" /\ counted' = None
    /\ UNCHANGED <<outside, receive_thread, process_q, run_loop, in_flight, publish_q,
                   publisher, published_q, delete_thread, stop_events, bounds>>

NoPublished ==
    /\ \/ final = "get" /\ published_q = <<>> /\ final' = "empty"
       \/ final = "empty" /\ final' = IF stop THEN "stopped" ELSE "get"
    /\ UNCHANGED <<outside, receive_thread, process_q, run_loop, in_flight, publish_q,
                   publisher, published_q, counted, delete_q, delete_thread,
                   stop_events, bounds>>

FinalThread == GetPublished \/ QueuePublishedMessage \/ NoPublished

-----------------------------------------------------------------------------
(* The delete thread.                                                      *)

GetHandle ==
    /\ deleter = "get"
    /\ delete_q # <<>>
    /\ Len(entries) < DeleteBatchSize
    /\ entries' = Append(entries, Head(delete_q))
    /\ delete_q' = Tail(delete_q)
    /\ UNCHANGED <<outside, receive_thread, process_q, run_loop, in_flight, publish_q,
                   publisher, published_q, final_thread, deleter, stop_events, bounds>>

\* Variant: a batch that is not full waits for other handles.
DeleteEntriesFull ==
    /\ entries # <<>>
    /\ Len(entries) = DeleteBatchSize
    /\ \E deleted \in SUBSET {h.message : h \in ToSet(entries)} :
         /\ \A h \in ToSet(entries) : h.delivery = delivery[h.message] => h.message \in deleted
         /\ sqs' = [m \in Messages |-> IF m \in deleted THEN "deleted" ELSE sqs[m]]
    /\ entries' = <<>>
    /\ UNCHANGED <<delivery, published, receive_thread, process_q, run_loop, in_flight,
                   publish_q, publisher, published_q, final_thread, delete_q, deleter,
                   stop_events, bounds>>

\* delete_message_batch: SQS may ignore a handle that is not the last one.
DeleteEntries ==
    /\ entries # <<>>
    /\ deleter = "get" => Len(entries) = DeleteBatchSize
    /\ \E deleted \in SUBSET {h.message : h \in ToSet(entries)} :
         /\ \A h \in ToSet(entries) : h.delivery = delivery[h.message] => h.message \in deleted
         /\ sqs' = [m \in Messages |-> IF m \in deleted THEN "deleted" ELSE sqs[m]]
    /\ entries' = <<>>
    /\ UNCHANGED <<delivery, published, receive_thread, process_q, run_loop, in_flight,
                   publish_q, publisher, published_q, final_thread, delete_q, deleter,
                   stop_events, bounds>>

\* The call raises, or names entries it could not delete: both are only logged.
CouldNotDelete ==
    /\ entries # <<>>
    /\ Fault
    /\ deleter = "get" => Len(entries) = DeleteBatchSize
    /\ \E deleted \in SUBSET {h.message : h \in ToSet(entries)} :
         sqs' = [m \in Messages |-> IF m \in deleted THEN "deleted" ELSE sqs[m]]
    /\ entries' = <<>>
    /\ UNCHANGED <<delivery, published, receive_thread, process_q, run_loop, in_flight,
                   publish_q, publisher, published_q, final_thread, delete_q, deleter,
                   stop_events>>

NoHandle ==
    /\ \/ /\ deleter = "get" /\ delete_q = <<>>
          /\ Len(entries) < DeleteBatchSize
          /\ deleter' = "empty"
       \/ /\ deleter = "empty"
          /\ stop => entries = <<>>
          /\ deleter' = IF stop THEN "stopped" ELSE "get"
    /\ UNCHANGED <<outside, receive_thread, process_q, run_loop, in_flight, publish_q,
                   publisher, published_q, final_thread, delete_q, entries,
                   stop_events, bounds>>

DeleteThread == GetHandle \/ DeleteEntries \/ NoHandle

-----------------------------------------------------------------------------
(* SQS, and the process of the worker.                                     *)

\* The handles on their way through the worker to the publish threads, through
\* them, and back to SQS.
Unpublished ==
    ToSet(publish_q) \cup (UNION {ToSet(publisher[p].events) : p \in Publishers})
    \cup (IF main = "publish" THEN {[handle |-> current, index |-> generated]} ELSE {})

Handles ==
    ToSet(received) \cup ToSet(process_q) \cup ToSet(published_q) \cup ToSet(delete_q)
    \cup ToSet(entries) \cup ({current, counted} \ {None})
    \cup {e.handle : e \in Unpublished}
    \cup UNION {ToSet(publisher[p].sent) : p \in Publishers}

\* A message that was not deleted in time is visible again, maybe while the
\* worker still has it.
VisibilityTimeout(m) ==
    /\ sqs[m] = "in_flight"
    /\ IF [message |-> m, delivery |-> delivery[m]] \in Handles
       THEN /\ timeouts < MaxTimeouts
            /\ timeouts' = timeouts + 1
            /\ UNCHANGED <<faults, signals>>
       ELSE UNCHANGED bounds
    /\ sqs' = [sqs EXCEPT ![m] = "visible"]
    /\ UNCHANGED <<delivery, published, receive_thread, process_q, run_loop, in_flight,
                   publish_q, publisher, published_q, final_thread, delete_q,
                   delete_thread, stop_events>>

HandleSignal ==
    /\ signals < MaxSignals
    /\ signals' = signals + 1
    /\ stop_receiving' = TRUE
    /\ UNCHANGED <<outside, receive_thread, process_q, run_loop, in_flight, publish_q,
                   publisher, published_q, final_thread, delete_q, delete_thread, stop,
                   faults, timeouts>>

\* A new process, with empty queues.
NewWorker ==
    /\ receiver' = "receive" /\ received' = <<>> /\ process_q' = <<>>
    /\ main' = "get" /\ current' = None /\ generated' = 0
    /\ in_flight' = <<>> /\ publish_q' = <<>>
    /\ publisher' = [p \in Publishers |-> Idle]
    /\ published_q' = <<>> /\ final' = "get" /\ counted' = None
    /\ delete_q' = <<>> /\ deleter' = "get" /\ entries' = <<>>
    /\ stop_receiving' = FALSE /\ stop' = FALSE

Crash == Fault /\ NewWorker /\ UNCHANGED outside

\* A worker that has stopped is started again. One that does not stop is killed.
Restart ==
    /\ main \in {"join", "stopped"}
    /\ NewWorker
    /\ UNCHANGED <<outside, bounds>>

Next ==
    \/ ReceiveThread
    \/ RunLoop \/ GeneratorFails
    \/ \E p \in Publishers : PublishThread(p)
    \/ FinalThread
    \/ DeleteThread \/ CouldNotDelete
    \/ \E m \in Messages : VisibilityTimeout(m)
    \/ HandleSignal \/ Crash \/ Restart

Spec == Init /\ [][Next]_vars

\* The threads run, time passes (a batch that waits gets old enough, a message
\* visible again), and the worker is started again.
FairSpec ==
    /\ Spec
    /\ WF_vars(ReceiveThread) /\ WF_vars(RunLoop) /\ WF_vars(FinalThread)
    /\ WF_vars(DeleteThread) /\ SF_vars(DeleteEntries)
    /\ \A p \in Publishers : WF_vars(PublishThread(p)) /\ SF_vars(Publish(p))
    /\ \A m \in Messages : WF_vars(VisibilityTimeout(m))
    /\ WF_vars(Restart)

-----------------------------------------------------------------------------
(* What the worker promises.                                               *)

\* The events of a handle that are generated, and not yet counted as published:
\* in the run loop, in the queues, and in the publish threads.
Queued(h) == {i \in DOMAIN publish_q : publish_q[i].handle = h}
InBatch(h) ==
    {b \in Publishers \X (1 .. BatchSize) :
        LET events == publisher[b[1]].events
        IN b[2] \in DOMAIN events /\ events[b[2]].handle = h}
Sent(h) ==
    {b \in Publishers \X (1 .. BatchSize) :
        LET sent == publisher[b[1]].sent
        IN b[2] \in DOMAIN sent /\ sent[b[2]] = h}
Published(h) == {i \in DOMAIN published_q : published_q[i] = h}
UncountedEvents(h) ==
    (IF main = "publish" /\ current = h THEN 1 ELSE 0)
    + Cardinality(Queued(h)) + Cardinality(InBatch(h)) + Cardinality(Sent(h))
    + Cardinality(Published(h))

\* The count of a handle is never lower than the number of its events in the
\* queues and the threads: as long as one of them is not published, the message
\* is not deleted because of the other ones.
EventsCounted ==
    \A m \in Messages : \A d \in 1 .. delivery[m] :
        LET h == [message |-> m, delivery |-> d]
        IN UncountedEvents(h) <= Count(h)

\* The handle that the next event evicts: the least recently used one, when
\* there are too many. None of its events should be under way.
Evicted ==
    LET entries_ == MovedToEnd(current, Count(current) + 1)
    IN IF Len(entries_) > MaxInFlight THEN {Head(entries_).handle} ELSE {}
EvictsUnused == main = "generate" => \A h \in Evicted : UncountedEvents(h) = 0

\* "no more unpublished events": when the final thread has a message deleted,
\* none of the events generated so far is on its way.
NoMoreUnpublishedEvents ==
    [][counted' \notin {None, counted} => \A e \in Unpublished : e.handle # counted']_vars

\* A message is deleted only when all its events are published: otherwise, the
\* other ones might never be.
AllPublished(m) == \A i \in 1 .. EventCount[m] : [message |-> m, index |-> i] \in published
DeletedPublished == \A m \in Messages : sqs[m] = "deleted" => AllPublished(m)

\* What the threads have in hand.
ThreadsInv ==
    /\ receiver = "queue" => received # <<>>
    /\ main \in {"generate", "publish", "delete"} <=> current # None
    /\ current # None => generated <= EventCount[current.message]
    /\ main = "publish" => generated # 0
    /\ main = "delete" => EventCount[current.message] = 0
    /\ final = "put" <=> counted # None
    /\ \A p \in Publishers : publisher[p].pc = "put" <=> publisher[p].sent # <<>>
    /\ \A e \in Unpublished : e.index \in 1 .. EventCount[e.handle.message]
WorkerInv == TypeOK /\ ThreadsInv

\* When no message generates several events, the handles on their way back to
\* SQS are those of messages whose event is published.
Returned ==
    ToSet(published_q) \cup ToSet(delete_q) \cup ToSet(entries) \cup ({counted} \ {None})
    \cup UNION {ToSet(publisher[p].sent) : p \in Publishers}
SingleEvent == \A m \in Messages : EventCount[m] <= 1
ReturnedPublished == \A h \in Returned : AllPublished(h.message)

\* The worker is an implementation of EventDelivery.
Delivery == INSTANCE EventDelivery WITH deleted <- {m \in Messages : sqs[m] = "deleted"}

EventsDelivered == Delivery!Spec

\* In the end, a message is deleted, and its events are published, whatever is
\* lost in the meantime.
MessagesDeleted == \A m \in Messages : <>[](sqs[m] = "deleted")

\* "graceful stop": no thread that has to be joined waits for a thread that
\* has stopped already.
StopsGracefully ==
    \A p \in Publishers :
        publisher[p].pc = "put" /\ Len(published_q) = PublishedCap => final # "stopped"
=============================================================================
