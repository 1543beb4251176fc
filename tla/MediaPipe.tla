------------------------------ MODULE MediaPipe ------------------------------
(***************************************************************************)
(* What a buffered media copy promises to the caller that proxies a media  *)
(* response, whatever happens to buffers, goroutines and connections: the  *)
(* bytes handed to the client are a prefix of the bytes read from the      *)
(* upstream, never more than the announced Content-Length, and success is  *)
(* reported only when the whole body went through.                         *)
(*                                                                         *)
(* Sizes are in blocks; a response without Content-Length announces        *)
(* Unknown (resp.ContentLength < 0).                                       *)
(***************************************************************************)
EXTENDS Integers

CONSTANTS
  Requests,   \* the media responses
  Lengths,    \* the Content-Lengths an upstream may announce
  BufferSize  \* the most one Read returns, in blocks (mediaCopyBufferSize)

Unknown == -1

VARIABLES
  announced,  \* announced[r]: the Content-Length of the response
  received,   \* received[r]: blocks read from the upstream
  sent,       \* sent[r]: blocks written to the client
  ended,      \* ended[r]: the upstream ended the body with io.EOF
  status      \* status[r]: "idle", "copying", "complete" or "failed"

pipe == <<announced, received, sent, ended, status>>

Init ==
  /\ announced = [r \in Requests |-> Unknown]
  /\ received = [r \in Requests |-> 0]
  /\ sent = [r \in Requests |-> 0]
  /\ ended = [r \in Requests |-> FALSE]
  /\ status = [r \in Requests |-> "idle"]

Start(r) ==
  /\ status[r] = "idle"
  /\ status' = [status EXCEPT ![r] = "copying"]
  /\ \E n \in Lengths : announced' = [announced EXCEPT ![r] = n]
  /\ UNCHANGED <<received, sent, ended>>

\* The upstream delivers blocks, ends the body, or both.
Receive(r) ==
  /\ status[r] = "copying" /\ ~ended[r]
  /\ \E n \in 0..BufferSize : received' = [received EXCEPT ![r] = @ + n]
  /\ ended' \in {ended, [ended EXCEPT ![r] = TRUE]}
  /\ UNCHANGED <<announced, sent, status>>

Limit(r) ==
  IF announced[r] = Unknown \/ received[r] <= announced[r] THEN received[r]
                                                          ELSE announced[r]

Send(r) ==
  /\ status[r] = "copying"
  /\ \E n \in sent[r]..Limit(r) : sent' = [sent EXCEPT ![r] = n]
  /\ UNCHANGED <<announced, received, ended, status>>

WholeBodySent(r) ==
  /\ ended[r]
  /\ sent[r] = received[r]
  /\ announced[r] \in {Unknown, sent[r]}

Finish(r) ==
  /\ status[r] = "copying"
  /\ \/ WholeBodySent(r) /\ status' = [status EXCEPT ![r] = "complete"]
     \/ status' = [status EXCEPT ![r] = "failed"]
  /\ UNCHANGED <<announced, received, sent, ended>>

Next == \E r \in Requests : Start(r) \/ Receive(r) \/ Send(r) \/ Finish(r)

Spec == Init /\ [][Next]_pipe
=============================================================================
