------------------------------ MODULE MediaCopy ------------------------------
(***************************************************************************)
(* The adaptive media copy, internal/gateway/media_buffer_copy.go, as it   *)
(* is called by copyBufferedMediaResponseOrAbort in server.go.             *)
(*                                                                         *)
(* Each response has a producer goroutine, which reads the upstream body   *)
(* into a buffer and publishes it on a queue, and a consumer, which writes *)
(* the queued buffers to the client and returns them.  The first buffer is *)
(* private to the response (the base); while it is in flight the producer  *)
(* may be granted shared chunks by the controller of module MediaBuffer,   *)
(* which this one extends: the steps here call its operations.  Either     *)
(* side can fail at any moment, the client may disconnect, and the         *)
(* consumer then runs a fixed clean-up.  Every step between two lock,      *)
(* channel, read or write operations is one action; bytes are counted in   *)
(* blocks.                                                                 *)
(***************************************************************************)
EXTENDS MediaBuffer, Sequences

CONSTANTS
  BufferSize,  \* blocks in one buffer (mediaCopyBufferSize)
  MaxBlocks,   \* model bound: blocks an upstream body may deliver
  Lengths,     \* the Content-Lengths an upstream may announce
  Base,        \* the private buffer, mediaBufferCopyBuffer{base: true}
  NoBuffer     \* no buffer, mediaBufferCopyBuffer{}

VARIABLES
  memory,     \* memory[x]: what was last read into chunk x, or into the base
              \* buffer of request x: <<request, position in its body>>
  producer,   \* producer[r]: the goroutine produceBufferedMedia
  consumer,   \* consumer[r]: the loop and clean-up of copyBufferedMediaBody
  queue,      \* queue[r]: the pending events of mediaBufferCopyQueue
  signal,     \* signal[r]: the token in queue.notify
  closing,    \* closing[r]: queue.closing
  baseReady,  \* baseReady[r]: the base buffer is in the baseReady channel
  cancelled,  \* cancelled[r]: cancelProducer was called
  gone,       \* gone[r]: the response's context ended (the client left)
  shut,       \* shut[r]: source.Close was called
  announced, received, sent, ended,  \* see MediaPipe
  broken      \* broken[r]: errMediaBufferCopyInvariant was returned

poolVars == <<pool, outstanding>>
copyVars == <<pool, outstanding, memory, producer, consumer, queue, signal, closing,
              baseReady, cancelled, gone, shut, announced, received, sent, ended, broken>>

Unknown == -1

ASSUME MediaCopyAssumption ==
  /\ BufferSize \in Nat \ {0} /\ MaxBlocks \in Nat
  /\ Lengths \subseteq Nat \cup {Unknown}
  /\ Base \notin Leases /\ NoBuffer \notin Leases \cup {Base}
  /\ Requests \cap Chunks = {}

Buffers == {Base} \cup Leases

\* The memory behind a buffer of request r.
Place(r, b) == IF b = Base THEN r ELSE b.chunk

\* Terminals: how a body ends.  "open" means that no terminal was classified.
Terminals == {"open", "complete", "failed"}

\* classifyBufferedReadTerminal
Classify_Faulty(end, n, len) == IF end = "eof" THEN "complete" ELSE "failed"

Classify(end, n, len) ==
  IF end = "eof" /\ (len = Unknown \/ n >= len) THEN "complete" ELSE "failed"

producerGone(r) == cancelled[r] \/ gone[r]     \* producerCtx.Err() != nil


CopyInit ==
  /\ Init
  /\ memory = [x \in Chunks \cup Requests |-> <<Nobody, 0>>]
  /\ producer = [r \in Requests |->
       [pc |-> "idle", buf |-> NoBuffer, len |-> 0, end |-> "open"]]
  /\ consumer = [r \in Requests |->
       [pc |-> "idle", buf |-> NoBuffer, len |-> 0, end |-> "open", drained |-> <<>>]]
  /\ queue = [r \in Requests |-> <<>>]
  /\ signal = [r \in Requests |-> FALSE] /\ closing = [r \in Requests |-> FALSE]
  /\ baseReady = [r \in Requests |-> FALSE]
  /\ cancelled = [r \in Requests |-> FALSE] /\ gone = [r \in Requests |-> FALSE]
  /\ shut = [r \in Requests |-> FALSE] /\ broken = [r \in Requests |-> FALSE]
  /\ announced = [r \in Requests |-> Unknown]
  /\ received = [r \in Requests |-> 0] /\ sent = [r \in Requests |-> 0]
  /\ ended = [r \in Requests |-> FALSE]

\* The handler registers the response and starts the producer with the base.
Start(r) ==
  /\ consumer[r].pc = "idle"
  /\ Register(r)
  /\ producer' = [producer EXCEPT ![r] = [producer[r] EXCEPT !.pc = "read", !.buf = Base]]
  /\ consumer' = [consumer EXCEPT ![r].pc = "next"]
  /\ \E n \in Lengths : announced' = [announced EXCEPT ![r] = n]
  /\ UNCHANGED <<memory, queue, signal, closing, baseReady, cancelled, gone, shut,
                 received, sent, ended, broken>>

\* The client disconnects, at any time until the handler returns.
Disconnect(r) ==
  /\ consumer[r].pc \notin {"idle", "done"} /\ ~gone[r]
  /\ gone' = [gone EXCEPT ![r] = TRUE]
  /\ UNCHANGED <<poolVars, memory, producer, consumer, queue, signal, closing,
                 baseReady, cancelled, shut, announced, received, sent, ended, broken>>

-----------------------------------------------------------------------------
(* The producer *)

\* Blocks of a read of n that still fit the announced length.
Allowed(r, n) ==
  IF announced[r] = Unknown \/ received[r] + n <= announced[r] THEN n
  ELSE n - (received[r] + n - announced[r])

\* src.Read: data, the end of the body or an error, or data with either.  An
\* invalid count and a hundred empty reads end like an error.  Once the source
\* is closed a read fails.
Read(r) ==
  /\ producer[r].pc = "read"
  /\ \E n \in 0..BufferSize, how \in {"more", "eof", "error"} :
       /\ received[r] + n <= MaxBlocks
       /\ n = 0 => how # "more"
       /\ shut[r] => n = 0 /\ how = "error"
       /\ LET total == received[r] + n
              fits  == Allowed(r, n)
              end   == IF fits < n THEN "failed"
                       ELSE IF how = "more" THEN "open"
                       ELSE Classify(how, total, announced[r])
          IN /\ producer' = [producer EXCEPT ![r] = [producer[r] EXCEPT
                   !.pc = IF fits > 0 THEN "publish" ELSE "drop",
                   !.len = fits, !.end = end]]
             /\ memory' = IF n = 0 THEN memory
                          ELSE [memory EXCEPT ![Place(r, producer[r].buf)] = <<r, received[r]>>]
             /\ received' = [received EXCEPT ![r] = total]
             /\ ended' = [ended EXCEPT ![r] = how = "eof"]
  /\ UNCHANGED <<poolVars, consumer, queue, signal, closing, baseReady, cancelled,
                 gone, shut, announced, sent, broken>>

\* queue.publish of a buffer; refused once the queue is closing, and then the
\* buffer is dropped and no terminal follows.
Publish_Faulty(r) ==
  /\ producer[r].pc = "publish"
  /\ IF closing[r]
       THEN /\ producer' = [producer EXCEPT ![r] =
                              [producer[r] EXCEPT !.pc = "drop", !.end = "open"]]
            /\ UNCHANGED queue
       ELSE /\ queue' = [queue EXCEPT ![r] =
                  Append(@, [buf |-> producer[r].buf, len |-> producer[r].len,
                             end |-> "open"])]
            /\ producer' = [producer EXCEPT ![r] = [producer[r] EXCEPT !.buf = NoBuffer,
                 !.pc = IF producer[r].end = "open" THEN "acquire" ELSE "publishEnd"]]
  /\ UNCHANGED <<poolVars, memory, consumer, closing, baseReady, cancelled, gone,
                 signal, shut, announced, received, sent, ended, broken>>

Publish(r) ==
  /\ producer[r].pc = "publish"
  /\ IF closing[r]
       THEN /\ producer' = [producer EXCEPT ![r] =
                              [producer[r] EXCEPT !.pc = "drop", !.end = "open"]]
            /\ UNCHANGED <<queue, signal>>
       ELSE /\ queue' = [queue EXCEPT ![r] =
                  Append(@, [buf |-> producer[r].buf, len |-> producer[r].len,
                             end |-> "open"])]
            /\ signal' = [signal EXCEPT ![r] = TRUE]
            /\ producer' = [producer EXCEPT ![r] = [producer[r] EXCEPT !.buf = NoBuffer,
                 !.pc = IF producer[r].end = "open" THEN "acquire" ELSE "publishEnd"]]
  /\ UNCHANGED <<poolVars, memory, consumer, closing, baseReady, cancelled, gone,
                 shut, announced, received, sent, ended, broken>>

\* The terminal event; it too is refused once the queue is closing.
PublishEnd(r) ==
  /\ producer[r].pc = "publishEnd"
  /\ IF closing[r]
       THEN UNCHANGED <<queue, signal>>
       ELSE /\ queue' = [queue EXCEPT ![r] =
                  Append(@, [buf |-> NoBuffer, len |-> 0, end |-> producer[r].end])]
            /\ signal' = [signal EXCEPT ![r] = TRUE]
  /\ producer' = [producer EXCEPT ![r].pc = "done"]
  /\ UNCHANGED <<poolVars, memory, consumer, closing, baseReady, cancelled, gone,
                 shut, announced, received, sent, ended, broken>>

\* releaseBufferedOptionalLease
ReleaseLease(r, l) ==
  /\ ReleaseOptional(r, l)
  /\ broken' = [broken EXCEPT ![r] = @ \/ ~ValidLease(pool, r, l)]

\* releaseProducerBuffer: a chunk goes back, the base is simply abandoned.
Drop_Faulty(r) ==
  /\ producer[r].pc = "drop"
  /\ UNCHANGED <<poolVars, broken>>
  /\ producer' = [producer EXCEPT ![r] = [producer[r] EXCEPT !.buf = NoBuffer,
       !.pc = IF producer[r].end = "open" THEN "done" ELSE "publishEnd"]]
  /\ UNCHANGED <<memory, consumer, queue, signal, closing, baseReady, cancelled, gone,
                 shut, announced, received, sent, ended>>

Drop(r) ==
  /\ producer[r].pc = "drop"
  /\ IF producer[r].buf = Base THEN UNCHANGED <<poolVars, broken>>
                               ELSE ReleaseLease(r, producer[r].buf)
  /\ producer' = [producer EXCEPT ![r] = [producer[r] EXCEPT !.buf = NoBuffer,
       !.pc = IF producer[r].end = "open" THEN "done" ELSE "publishEnd"]]
  /\ UNCHANGED <<memory, consumer, queue, signal, closing, baseReady, cancelled, gone,
                 shut, announced, received, sent, ended>>

\* acquireBufferedCopyBuffer: the base if it is back, else give up if the copy
\* was cancelled, else ask the controller.
Acquire(r) ==
  /\ producer[r].pc = "acquire"
  /\ IF baseReady[r]
       THEN /\ producer' = [producer EXCEPT ![r] =
                              [producer[r] EXCEPT !.buf = Base, !.pc = "read"]]
            /\ baseReady' = [baseReady EXCEPT ![r] = FALSE]
       ELSE /\ producer' = [producer EXCEPT ![r].pc =
                              IF producerGone(r) THEN "done" ELSE "request"]
            /\ UNCHANGED baseReady
  /\ UNCHANGED <<poolVars, memory, consumer, queue, signal, closing, cancelled, gone,
                 shut, announced, received, sent, ended, broken>>

Request(r) ==
  /\ producer[r].pc = "request"
  /\ IF pool.waiting[r] \/ pool.pending[r] # NoLease
       THEN UNCHANGED poolVars
       ELSE RequestOptional(r)
  /\ producer' = [producer EXCEPT ![r].pc = "poll"]
  /\ UNCHANGED <<memory, consumer, queue, signal, closing, baseReady, cancelled, gone,
                 shut, announced, received, sent, ended, broken>>

\* The three ways out of the selects after a request.
TakeBase(r) ==
  /\ baseReady[r]
  /\ producer' = [producer EXCEPT ![r] = [producer[r] EXCEPT !.buf = Base, !.pc = "withdraw"]]
  /\ baseReady' = [baseReady EXCEPT ![r] = FALSE]
  /\ UNCHANGED poolVars

TakeGrant(r) ==
  /\ TakeNotification(r)
  /\ producer' = [producer EXCEPT ![r].pc = "accept"]
  /\ UNCHANGED baseReady

GiveUp(r) ==
  /\ producerGone(r)
  /\ producer' = [producer EXCEPT ![r].pc = "withdraw"]
  /\ UNCHANGED <<poolVars, baseReady>>

\* The polls before the wait: the base first, then a grant.
Poll(r) ==
  /\ producer[r].pc = "poll"
  /\ IF baseReady[r] THEN TakeBase(r)
     ELSE IF pool.notify[r] = 1 THEN TakeGrant(r)
     ELSE /\ producer' = [producer EXCEPT ![r].pc = "wait"]
          /\ UNCHANGED <<poolVars, baseReady>>
  /\ UNCHANGED <<memory, consumer, queue, signal, closing, cancelled, gone, shut,
                 announced, received, sent, ended, broken>>

\* The blocking select takes any case that is ready.
Wait(r) ==
  /\ producer[r].pc = "wait"
  /\ TakeBase(r) \/ TakeGrant(r) \/ GiveUp(r)
  /\ UNCHANGED <<memory, consumer, queue, signal, closing, cancelled, gone, shut,
                 announced, received, sent, ended, broken>>

\* cancelOptionalRequest, which does nothing for a request that neither waits
\* nor has a grant.
CancelRequest(r) ==
  IF pool.waiting[r] \/ pool.pending[r] # NoLease THEN CancelOptional(r)
                                                  ELSE UNCHANGED poolVars

\* The request is withdrawn, because the base came back or the copy is over.
Withdraw(r) ==
  /\ producer[r].pc = "withdraw"
  /\ CancelRequest(r)
  /\ producer' = [producer EXCEPT ![r].pc =
       IF producer[r].buf = Base THEN "read" ELSE "done"]
  /\ UNCHANGED <<memory, consumer, queue, signal, closing, baseReady, cancelled, gone,
                 shut, announced, received, sent, ended, broken>>

\* acceptBufferedOptionalNotification: a grant that vanished is an invariant
\* failure unless the copy was cancelled meanwhile.
Accept(r) ==
  /\ producer[r].pc = "accept"
  /\ \/ /\ pool.pending[r] # NoLease
        /\ AcceptOptional(r)
        /\ producer' = [producer EXCEPT ![r] =
                          [producer[r] EXCEPT !.buf = pool.pending[r], !.pc = "read"]]
        /\ UNCHANGED broken
     \/ /\ pool.pending[r] = NoLease /\ producerGone(r)
        /\ producer' = [producer EXCEPT ![r].pc = "done"]
        /\ UNCHANGED <<poolVars, broken>>
     \/ /\ pool.pending[r] = NoLease /\ ~producerGone(r)
        /\ producer' = [producer EXCEPT ![r] =
                          [producer[r] EXCEPT !.pc = "publishEnd", !.end = "failed"]]
        /\ broken' = [broken EXCEPT ![r] = TRUE]
        /\ UNCHANGED poolVars
  /\ UNCHANGED <<memory, consumer, queue, signal, closing, baseReady, cancelled, gone,
                 shut, announced, received, sent, ended>>

-----------------------------------------------------------------------------
(* The consumer *)

\* The loop ends with the primary result of the copy.
Select(r, end) ==
  consumer' = [consumer EXCEPT ![r] = [consumer[r] EXCEPT !.end = end, !.pc = "stop"]]

\* releaseBufferedCopyBuffer: the base goes to the baseReady channel, whose one
\* slot must be free, a chunk to the controller.
ReturnBuffer(r, b) ==
  IF b = Base
    THEN /\ baseReady' = [baseReady EXCEPT ![r] = TRUE]
         /\ broken' = [broken EXCEPT ![r] = @ \/ baseReady[r]]
         /\ UNCHANGED poolVars
    ELSE ReleaseLease(r, b) /\ UNCHANGED baseReady

\* queue.next under the queue's lock: once the client left, queued events are
\* not delivered any more.
NextEvent_Faulty(r) ==
  /\ consumer[r].pc = "next" /\ queue[r] # <<>> /\ ~gone[r]
  /\ queue' = [queue EXCEPT ![r] = Tail(@)]
  /\ LET event == Head(queue[r]) IN
       IF event.end # "open"
         THEN Select(r, event.end) /\ UNCHANGED <<poolVars, baseReady, broken>>
         ELSE /\ consumer' = [consumer EXCEPT ![r] =
                 [consumer[r] EXCEPT !.buf = event.buf, !.len = event.len, !.pc = "write"]]
              /\ ReturnBuffer(r, event.buf)
  /\ UNCHANGED <<memory, producer, signal, closing, cancelled, gone, shut, announced,
                 received, sent, ended>>

NextEvent(r) ==
  /\ consumer[r].pc = "next"
  /\ IF gone[r] THEN Select(r, "failed") /\ UNCHANGED queue
     ELSE IF queue[r] = <<>>
       THEN consumer' = [consumer EXCEPT ![r].pc = "sleep"] /\ UNCHANGED queue
     ELSE LET event == Head(queue[r]) IN
          /\ queue' = [queue EXCEPT ![r] = Tail(@)]
          /\ IF event.end # "open"
               THEN Select(r, event.end)
               ELSE consumer' = [consumer EXCEPT ![r] =
                    [consumer[r] EXCEPT !.buf = event.buf, !.len = event.len, !.pc = "write"]]
  /\ UNCHANGED <<poolVars, memory, producer, signal, closing, baseReady, cancelled,
                 gone, shut, announced, received, sent, ended, broken>>

\* The select of queue.next, on the context and the notification.
Sleep(r) ==
  /\ consumer[r].pc = "sleep"
  /\ \/ gone[r] /\ Select(r, "failed") /\ UNCHANGED signal
     \/ /\ signal[r] /\ signal' = [signal EXCEPT ![r] = FALSE]
        /\ consumer' = [consumer EXCEPT ![r].pc = "next"]
  /\ UNCHANGED <<poolVars, memory, producer, queue, closing, baseReady, cancelled,
                 gone, shut, announced, received, sent, ended, broken>>

\* dst.Write: everything, or less with or without an error, which fails the
\* copy (downstream error, short write, invalid count).
Write(r) ==
  /\ consumer[r].pc = "write"
  /\ \E k \in 0..consumer[r].len, fine \in BOOLEAN :
       /\ sent' = [sent EXCEPT ![r] = @ + k]
       /\ consumer' = [consumer EXCEPT ![r] = [consumer[r] EXCEPT !.pc = "return",
            !.end = IF fine /\ k = consumer[r].len THEN "open" ELSE "failed"]]
  /\ UNCHANGED <<poolVars, memory, producer, queue, signal, closing, baseReady,
                 cancelled, gone, shut, announced, received, ended, broken>>

\* After the write the buffer is returned, whatever the write did.
Return(r) ==
  /\ consumer[r].pc = "return"
  /\ ReturnBuffer(r, consumer[r].buf)
  /\ consumer' = [consumer EXCEPT ![r] = [consumer[r] EXCEPT !.buf = NoBuffer, !.len = 0,
       !.pc = IF consumer[r].end = "open" /\ ~broken'[r] THEN "next" ELSE "stop",
       !.end = IF broken'[r] THEN "failed" ELSE consumer[r].end]]
  /\ UNCHANGED <<memory, producer, queue, signal, closing, cancelled, gone, shut,
                 announced, received, sent, ended>>

\* queue.close: no event is accepted any more, the pending ones are taken over.
CloseQueue(r) ==
  /\ consumer[r].pc = "stop"
  /\ closing' = [closing EXCEPT ![r] = TRUE]
  /\ queue' = [queue EXCEPT ![r] = <<>>]
  /\ signal' = [signal EXCEPT ![r] = TRUE]
  /\ consumer' = [consumer EXCEPT ![r] =
                    [consumer[r] EXCEPT !.drained = queue[r], !.pc = "cancel"]]
  /\ UNCHANGED <<poolVars, memory, producer, baseReady, cancelled, gone, shut,
                 announced, received, sent, ended, broken>>

CancelProducer_Faulty(r) ==
  /\ consumer[r].pc = "cancel"
  /\ consumer' = [consumer EXCEPT ![r].pc = "cancelRequest"]
  /\ UNCHANGED <<poolVars, memory, producer, queue, signal, closing, baseReady, gone,
                 shut, cancelled, announced, received, sent, ended, broken>>

CancelProducer(r) ==
  /\ consumer[r].pc = "cancel"
  /\ cancelled' = [cancelled EXCEPT ![r] = TRUE]
  /\ consumer' = [consumer EXCEPT ![r].pc = "cancelRequest"]
  /\ UNCHANGED <<poolVars, memory, producer, queue, signal, closing, baseReady, gone,
                 shut, announced, received, sent, ended, broken>>

CleanRequest(r) ==
  /\ consumer[r].pc = "cancelRequest"
  /\ CancelRequest(r)
  /\ consumer' = [consumer EXCEPT ![r].pc = "closeSource"]
  /\ UNCHANGED <<memory, producer, queue, signal, closing, baseReady, cancelled, gone,
                 shut, announced, received, sent, ended, broken>>

CloseSource_Faulty(r) ==
  /\ consumer[r].pc = "closeSource"
  /\ consumer' = [consumer EXCEPT ![r].pc = "join"]
  /\ UNCHANGED <<poolVars, memory, producer, queue, signal, closing, baseReady, shut,
                 cancelled, gone, announced, received, sent, ended, broken>>

CloseSource(r) ==
  /\ consumer[r].pc = "closeSource"
  /\ shut' = [shut EXCEPT ![r] = TRUE]
  /\ consumer' = [consumer EXCEPT ![r].pc = "join"]
  /\ UNCHANGED <<poolVars, memory, producer, queue, signal, closing, baseReady,
                 cancelled, gone, announced, received, sent, ended, broken>>

\* producerResult := <-producerDone
Join(r) ==
  /\ consumer[r].pc = "join" /\ producer[r].pc = "done"
  /\ consumer' = [consumer EXCEPT ![r].pc = "drain"]
  /\ UNCHANGED <<poolVars, memory, producer, queue, signal, closing, baseReady,
                 cancelled, gone, shut, announced, received, sent, ended, broken>>

\* The buffers of the events that were never written are returned in turn.
Drain(r) ==
  /\ consumer[r].pc = "drain" /\ consumer[r].drained # <<>>
  /\ LET event == Head(consumer[r].drained) IN
       IF event.end = "open" THEN ReturnBuffer(r, event.buf)
                             ELSE UNCHANGED <<poolVars, baseReady, broken>>
  /\ consumer' = [consumer EXCEPT ![r].drained = Tail(@)]
  /\ UNCHANGED <<memory, producer, queue, signal, closing, cancelled, gone, shut,
                 announced, received, sent, ended>>

\* The copy returns, failed if an invariant error was met, and the handler
\* closes the registered request.
Finish(r) ==
  /\ consumer[r].pc = "drain" /\ consumer[r].drained = <<>>
  /\ Close(r)
  /\ consumer' = [consumer EXCEPT ![r] = [consumer[r] EXCEPT !.pc = "done",
                    !.end = IF broken[r] THEN "failed" ELSE consumer[r].end]]
  /\ UNCHANGED <<memory, producer, queue, signal, closing, baseReady, cancelled, gone,
                 shut, announced, received, sent, ended, broken>>

ProducerStep(r) ==
  Publish(r) \/ PublishEnd(r) \/ Drop(r) \/ Acquire(r) \/ Request(r)
    \/ Poll(r) \/ Wait(r) \/ Withdraw(r) \/ Accept(r)

ConsumerStep(r) ==
  NextEvent(r) \/ Sleep(r) \/ Write(r) \/ Return(r) \/ CloseQueue(r)
    \/ CancelProducer(r) \/ CleanRequest(r) \/ CloseSource(r) \/ Join(r)
    \/ Drain(r) \/ Finish(r)

CopyNext ==
  \E r \in Requests :
    Start(r) \/ Disconnect(r) \/ Read(r) \/ ProducerStep(r) \/ ConsumerStep(r)

CopySpec == CopyInit /\ [][CopyNext]_copyVars

\* Both goroutines run and writes return.  An open upstream may keep a read
\* waiting for ever; a read of a closed one returns.
CopyFairness ==
  \A r \in Requests :
    /\ WF_copyVars(ProducerStep(r))
    /\ WF_copyVars(ConsumerStep(r))
    /\ WF_copyVars(shut[r] /\ Read(r))

FairCopySpec == CopySpec /\ CopyFairness

-----------------------------------------------------------------------------
(* Properties *)

Event == [buf : Buffers \cup {NoBuffer}, len : 0..BufferSize, end : Terminals]

\* The state of the copies keeps its types.
CopiesTyped ==
  /\ TypeOK
  /\ memory \in [Chunks \cup Requests -> (Requests \cup {Nobody}) \X (0..MaxBlocks)]
  /\ \A r \in Requests :
       /\ producer[r].buf \in Buffers \cup {NoBuffer}
       /\ producer[r].len \in 0..BufferSize /\ producer[r].end \in Terminals
       /\ consumer[r].buf \in Buffers \cup {NoBuffer}
       /\ consumer[r].len \in 0..BufferSize /\ consumer[r].end \in Terminals
       /\ \A i \in DOMAIN queue[r] : queue[r][i] \in Event
       /\ \A i \in DOMAIN consumer[r].drained : consumer[r].drained[i] \in Event
       /\ announced[r] \in Lengths \cup {Unknown}
       /\ {received[r], sent[r]} \subseteq 0..MaxBlocks
  /\ {signal, closing, baseReady, cancelled, gone, shut, ended, broken}
       \subseteq [Requests -> BOOLEAN]

\* No interleaving of producer, consumer and scheduler leads the code to
\* errMediaBufferCopyInvariant: every release is of a lease still held, the slot
\* of the base is free when it returns, and a grant that was announced can only
\* vanish after the copy was cancelled.
NoInvariantError == CopiesTyped /\ \A r \in Requests : ~broken[r]

\* What is being written to a client is the next piece of its own body: no
\* buffer is reused by the producer, or by another response, before the
\* consumer is through with it.
WritesNextBytes ==
  \A r \in Requests : consumer[r].pc = "write" =>
    memory[Place(r, consumer[r].buf)] = <<r, sent[r]>>

\* When the copy returns it has itself given back every shared chunk, its place
\* in the queue and its grant; the close that follows has nothing to reclaim.
NothingLeftBehind ==
  \A r \in Requests :
    consumer[r].pc = "drain" /\ consumer[r].drained = <<>> =>
      /\ pool.chunks[r] = {} /\ outstanding[r] = {}
      /\ ~pool.waiting[r] /\ pool.pending[r] = NoLease

\* Both together: the buffers of a copy are accounted for while it runs and when
\* it is over.
BuffersSound == NoInvariantError /\ NothingLeftBehind

\* The copy keeps the promise of MediaPipe.
PipeStatus == [r \in Requests |->
  CASE consumer[r].pc = "idle" -> "idle"
    [] consumer[r].pc = "done" -> consumer[r].end
    [] OTHER -> "copying"]

Pipe == INSTANCE MediaPipe WITH status <- PipeStatus

PipeSpec == Pipe!Spec

\* Once the client left, or a result was selected, the clean-up comes to its
\* end although the upstream may be silent for ever.
CleanupFinishes ==
  \A r \in Requests :
    (gone[r] \/ consumer[r].pc = "stop") ~> consumer[r].pc = "done"

\* A producer never waits for a buffer for ever: the base always comes back.
ProducerNotStarved ==
  \A r \in Requests : producer[r].pc = "wait" ~> producer[r].pc # "wait"

\* Neither of the two halves of a copy waits for the other for ever.
NeitherHalfStuck == CleanupFinishes /\ ProducerNotStarved
=============================================================================
