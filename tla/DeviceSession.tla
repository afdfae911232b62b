--------------------------- MODULE DeviceSession ---------------------------
(***************************************************************************)
(* bluetooth/device-session.ts: one connection to one device.  It is       *)
(* initialised once, performs commands one after the other (the device     *)
(* queue runs one piece of work at a time), and may be disconnected while  *)
(* a command is in flight.                                                 *)
(*                                                                         *)
(* The device is the environment.  A request it has received is owed an    *)
(* answer; an answer is a sequence of notification chunks.  Nothing in a   *)
(* chunk names the request it answers: `of` is history, which the code     *)
(* never reads.                                                            *)
(***************************************************************************)
EXTENDS Naturals, Sequences

CONSTANTS Command,      \* the commands performed, each once
          NoCommand,    \* no pending response
          RetryCount    \* CONNECT_RETRY_COUNT

ASSUME SessionAssumption ==
  /\ NoCommand \notin Command
  /\ RetryCount \in Nat \ {0}

VARIABLES
  state,       \* DeviceSessionState
  stage,       \* where connectAndInitialize is
  attempt,     \* its loop counter
  named,       \* whether `name` is not null
  subscribed,  \* whether notifications reach handleNotification
  closing,     \* where disconnect() is
  call,        \* per command, where perform() is or how it ended
  promise,     \* per command, the response promise
  answer,      \* history: the command whose answer resolved the promise
  pending,     \* the command of pendingResponse, currentCommand, pendingTimeout
  buffer,      \* responseBuffer, as the chunks appended to it
  received,    \* the requests that reached the device
  owed,        \* those it has not answered
  wire         \* notification chunks on their way

initVars == <<stage, attempt>>
callVars == <<call, promise, answer>>
deviceVars == <<received, owed, wire>>
vars == <<state, named, subscribed, closing, pending, buffer, initVars, callVars, deviceVars>>

State == {"not_connected", "connected", "ready", "performing_command",
          "command_error_wait", "disconnecting"}
Stage == {"idle", "connecting", "naming", "subscribing", "cleanup", "backoff", "done", "failed"}

\* Sizes are in half responses: a chunk is half a frame, a whole one, or more
\* than the command expects; exceptions and AT messages are shorter than a frame.
Part == {"head", "tail", "whole", "corrupt", "oversized", "busy", "refusal", "at"}
Chunk == [of : Command, part : Part]
PartSize(p) == CASE p \in {"head", "tail", "busy", "refusal", "at"} -> 1
                 [] p \in {"whole", "corrupt"} -> 2
                 [] p = "oversized" -> 3
ResponseSize == 2

Rejection == {"timeout", "busy", "modbus", "parse", "bad_connection", "write_error"}
Promise == {"none", "pending", "resolved"} \cup Rejection
\* The write of a command is outstanding at the helper, or was never sent
\* because the transport had already dropped its session id.
Writing == {"writing", "unsent"}
InFlight == Writing \cup {"awaiting"}
Over == {"returned", "refused"} \cup Rejection

TypeOK ==
  /\ state \in State
  /\ stage \in Stage
  /\ attempt \in 0 .. RetryCount - 1
  /\ stage = "backoff" => attempt < RetryCount - 1
  /\ named \in BOOLEAN
  /\ subscribed \in BOOLEAN
  /\ closing \in {"no", "closing", "closed"}
  /\ call \in [Command -> {"idle"} \cup InFlight \cup Over]
  /\ promise \in [Command -> Promise]
  /\ answer \in [Command -> Command \cup {NoCommand}]
  /\ pending \in Command \cup {NoCommand}
  /\ buffer \in Seq(Chunk)
  /\ received \subseteq Command
  /\ owed \subseteq Command
  /\ wire \in Seq(Chunk)

Init ==
  /\ state = "not_connected"
  /\ stage = "idle"
  /\ attempt = 0
  /\ named = FALSE
  /\ subscribed = FALSE
  /\ closing = "no"
  /\ call = [c \in Command |-> "idle"]
  /\ promise = [c \in Command |-> "none"]
  /\ answer = [c \in Command |-> NoCommand]
  /\ pending = NoCommand
  /\ buffer = <<>>
  /\ received = {}
  /\ owed = {}
  /\ wire = <<>>

IsReady == state \in {"ready", "performing_command"}

\* Fault: the response buffer keeps what it holds.
ClearWaiterOnly ==
  /\ pending' = NoCommand
  /\ UNCHANGED buffer

ClearPendingState ==
  /\ pending' = NoCommand
  /\ buffer' = <<>>
-----------------------------------------------------------------------------
(* connectAndInitialize: connect, read the name, subscribe last; a failed  *)
(* step cleans up and is retried only for retryable errors.                *)

StartConnect ==
  /\ \/ stage = "idle" /\ UNCHANGED attempt
     \/ stage = "backoff" /\ attempt' = attempt + 1
  /\ stage' = "connecting"
  /\ UNCHANGED <<state, named, subscribed, closing, pending, buffer, callVars, deviceVars>>

Connected ==
  /\ stage = "connecting"
  /\ stage' = "naming"
  /\ state' = "connected"
  /\ UNCHANGED <<attempt, named, subscribed, closing, pending, buffer, callVars, deviceVars>>

NameRead ==
  /\ stage = "naming"
  /\ stage' = "subscribing"
  /\ named' = TRUE
  /\ UNCHANGED <<attempt, state, subscribed, closing, pending, buffer, callVars, deviceVars>>

Subscribed ==
  /\ stage = "subscribing"
  /\ stage' = "done"
  /\ subscribed' = TRUE
  /\ state' = "ready"
  /\ UNCHANGED <<attempt, named, closing, pending, buffer, callVars, deviceVars>>

\* The catch block up to its best-effort transport.disconnect().
InitStepFails ==
  /\ stage \in {"connecting", "naming", "subscribing"}
  /\ stage' = "cleanup"
  /\ state' = "not_connected"
  /\ named' = FALSE
  /\ ClearPendingState
  /\ UNCHANGED <<attempt, subscribed, closing, callVars, deviceVars>>

\* Fault: the loop goes round once too often.
InitCleanedUpOnceMore ==
  /\ stage = "cleanup"
  /\ \/ attempt < RetryCount /\ stage' = "backoff"
     \/ stage' = "failed"
  /\ UNCHANGED <<attempt, state, named, subscribed, closing, pending, buffer, callVars, deviceVars>>

\* The error that was caught is retryable or not: shouldRetry decides.
InitCleanedUp ==
  /\ stage = "cleanup"
  /\ \/ attempt < RetryCount - 1 /\ stage' = "backoff"
     \/ stage' = "failed"
  /\ UNCHANGED <<attempt, state, named, subscribed, closing, pending, buffer, callVars, deviceVars>>
-----------------------------------------------------------------------------
(* perform: its synchronous prefix, the outcome of the write, and the end  *)
(* of the wait for the response promise.                                   *)

\* The device queue runs the commands of one device one at a time.
MayCall(c) ==
  /\ stage = "done"
  /\ call[c] = "idle"
  /\ \A d \in Command : call[d] \notin InFlight

PerformRefused(c) ==
  /\ MayCall(c)
  /\ ~IsReady
  /\ call' = [call EXCEPT ![c] = "refused"]
  /\ UNCHANGED <<state, named, subscribed, closing, pending, buffer, initVars,
                 promise, answer, deviceVars>>

Perform(c) ==
  /\ MayCall(c)
  /\ IsReady
  /\ state' = "performing_command"
  /\ pending' = c
  /\ buffer' = <<>>
  /\ promise' = [promise EXCEPT ![c] = "pending"]
  /\ call' = [call EXCEPT ![c] = IF closing = "no" THEN "writing" ELSE "unsent"]
  /\ UNCHANGED <<named, subscribed, closing, initVars, answer, deviceVars>>

WriteAcknowledged(c) ==
  /\ call[c] = "writing"
  /\ c \in received
  /\ call' = [call EXCEPT ![c] = "awaiting"]
  /\ UNCHANGED <<state, named, subscribed, closing, pending, buffer, initVars,
                 promise, answer, deviceVars>>

\* A write may be reported as failed before or after the device received it.
WriteFails(c) ==
  /\ call[c] \in Writing
  /\ state' = "disconnecting"
  /\ promise' = IF pending = c THEN [promise EXCEPT ![c] = "write_error"] ELSE promise
  /\ ClearPendingState
  /\ call' = [call EXCEPT ![c] = "write_error"]
  /\ UNCHANGED <<named, subscribed, closing, initVars, answer, deviceVars>>

ReturnResponse(c) ==
  /\ call[c] = "awaiting"
  /\ promise[c] = "resolved"
  /\ state' = "ready"
  /\ ClearPendingState
  /\ call' = [call EXCEPT ![c] = "returned"]
  /\ UNCHANGED <<named, subscribed, closing, initVars, promise, answer, deviceVars>>

\* Fault: perform's catch block makes the session ready again.
ThrowRejectionReady(c) ==
  /\ call[c] = "awaiting"
  /\ promise[c] \in Rejection
  /\ state' = "ready"
  /\ ClearPendingState
  /\ call' = [call EXCEPT ![c] = promise[c]]
  /\ UNCHANGED <<named, subscribed, closing, initVars, promise, answer, deviceVars>>

ThrowRejection(c) ==
  /\ call[c] = "awaiting"
  /\ promise[c] \in Rejection
  /\ ClearPendingState
  /\ call' = [call EXCEPT ![c] = promise[c]]
  /\ UNCHANGED <<state, named, subscribed, closing, initVars, promise, answer, deviceVars>>

\* Fault: the waiter is cleared before it is rejected.
RejectNobody(reason, next) ==
  /\ state' = next
  /\ ClearPendingState
  /\ UNCHANGED promise

\* rejectPending followed by the state its caller sets.
RejectPending(reason, next) ==
  /\ promise' = [promise EXCEPT ![pending] = reason]
  /\ state' = next
  /\ ClearPendingState

\* Fault: the session accepts the retry that the error class announces.
CommandTimeoutReady ==
  /\ pending # NoCommand
  /\ RejectPending("timeout", "ready")
  /\ UNCHANGED <<named, subscribed, closing, initVars, call, answer, deviceVars>>

CommandTimeout ==
  /\ pending # NoCommand
  /\ RejectPending("timeout", "command_error_wait")
  /\ UNCHANGED <<named, subscribed, closing, initVars, call, answer, deviceVars>>
-----------------------------------------------------------------------------
(* handleNotification: each branch of the handler for the next chunk.      *)

Arrives(chunk) ==
  /\ subscribed
  /\ wire # <<>>
  /\ chunk = Head(wire)
  /\ wire' = Tail(wire)
  /\ UNCHANGED <<named, subscribed, closing, initVars, call, received, owed>>

IsException(frame) == Len(frame) = 1 /\ frame[1].part \in {"busy", "refusal"}

Size(frame) == IF Len(frame) = 1 THEN PartSize(frame[1].part)
               ELSE PartSize(frame[1].part) + PartSize(frame[2].part)

\* The function code, the length and the CRC fit: one frame's own bytes.
IsValidResponse(frame) ==
  \/ Len(frame) = 1 /\ frame[1].part = "whole"
  \/ /\ Len(frame) = 2
     /\ frame[1].part = "head"
     /\ frame[2].part = "tail"
     /\ frame[1].of = frame[2].of

IgnoreNotification ==
  /\ \E chunk \in Chunk : Arrives(chunk)
  /\ pending = NoCommand
  /\ UNCHANGED <<state, pending, buffer, promise, answer>>

ControlNotification ==
  /\ pending # NoCommand
  /\ \E chunk \in Chunk : Arrives(chunk) /\ chunk.part = "at"
  /\ RejectPending("bad_connection", "disconnecting")
  /\ UNCHANGED answer

\* The chunk is appended to the buffer and the frame so far is looked at.
Appended(frame) ==
  /\ pending # NoCommand
  /\ \E chunk \in Chunk :
       Arrives(chunk) /\ chunk.part # "at" /\ frame = Append(buffer, chunk)

\* Exception code 5 is busy; any other code refuses the command.
ExceptionNotification ==
  LET frame == Append(buffer, Head(wire)) IN
  /\ Appended(frame)
  /\ IsException(frame)
  /\ RejectPending(IF frame[1].part = "busy" THEN "busy" ELSE "modbus", "ready")
  /\ UNCHANGED answer

CompleteNotification ==
  LET frame == Append(buffer, Head(wire)) IN
  /\ Appended(frame)
  /\ ~IsException(frame)
  /\ Size(frame) = ResponseSize
  /\ IsValidResponse(frame)
  /\ promise' = [promise EXCEPT ![pending] = "resolved"]
  /\ answer' = [answer EXCEPT ![pending] = frame[1].of]
  /\ state' = "ready"
  /\ ClearPendingState

MalformedNotification ==
  LET frame == Append(buffer, Head(wire)) IN
  /\ Appended(frame)
  /\ ~IsException(frame)
  /\ Size(frame) >= ResponseSize
  /\ Size(frame) > ResponseSize \/ ~IsValidResponse(frame)
  /\ RejectPending("parse", "command_error_wait")
  /\ UNCHANGED answer

PartialNotification ==
  LET frame == Append(buffer, Head(wire)) IN
  /\ Appended(frame)
  /\ ~IsException(frame)
  /\ Size(frame) < ResponseSize
  /\ buffer' = frame
  /\ UNCHANGED <<state, pending, promise, answer>>

HandleNotification ==
  \/ IgnoreNotification
  \/ ControlNotification
  \/ ExceptionNotification
  \/ CompleteNotification
  \/ MalformedNotification
  \/ PartialNotification
-----------------------------------------------------------------------------
(* disconnect: the waiter is dropped, then the transport is closed; its    *)
(* error, if any, leaves the same state.  The helper serves requests in    *)
(* order, so a write made before is answered before the disconnect.        *)

Disconnect ==
  /\ stage = "done"
  /\ closing = "no"
  /\ closing' = "closing"
  /\ ClearPendingState
  /\ state' = "disconnecting"
  /\ subscribed' = FALSE
  /\ wire' = <<>>
  /\ UNCHANGED <<named, initVars, callVars, received, owed>>

Disconnected ==
  /\ closing = "closing"
  /\ \A c \in Command : call[c] \notin Writing
  /\ closing' = "closed"
  /\ named' = FALSE
  /\ state' = "not_connected"
  /\ UNCHANGED <<subscribed, pending, buffer, initVars, callVars, deviceVars>>
-----------------------------------------------------------------------------
(* The device: a request reaches it while the write is outstanding; it     *)
(* answers each request at most once, at any time or never, in one or two  *)
(* chunks of which the second may be lost.                                 *)

DeviceReceives(c) ==
  /\ call[c] = "writing"
  /\ c \notin received
  /\ received' = received \cup {c}
  /\ owed' = owed \cup {c}
  /\ UNCHANGED <<state, named, subscribed, closing, pending, buffer, initVars, callVars, wire>>

Answer(c) ==
  {<<[of |-> c, part |-> "head"], [of |-> c, part |-> "tail"]>>}
    \cup {<<[of |-> c, part |-> p]>> : p \in Part \ {"tail"}}

DeviceAnswers(c) ==
  /\ c \in owed
  /\ subscribed
  /\ owed' = owed \ {c}
  /\ \E chunks \in Answer(c) : wire' = wire \o chunks
  /\ UNCHANGED <<state, named, subscribed, closing, pending, buffer, initVars, callVars, received>>
-----------------------------------------------------------------------------
Initialize ==
  StartConnect \/ Connected \/ NameRead \/ Subscribed \/ InitStepFails \/ InitCleanedUp

Settle(c) == ReturnResponse(c) \/ ThrowRejection(c)

Next ==
  \/ Initialize
  \/ \E c \in Command :
       \/ PerformRefused(c) \/ Perform(c)
       \/ WriteAcknowledged(c) \/ WriteFails(c)
       \/ Settle(c)
       \/ DeviceReceives(c) \/ DeviceAnswers(c)
  \/ CommandTimeout
  \/ HandleNotification
  \/ Disconnect \/ Disconnected

Spec == Init /\ [][Next]_vars

\* The command timer fires, the helper's own deadline ends every write, and
\* promise continuations run; the device owes nobody an answer.
FairSpec ==
  /\ Spec
  /\ WF_vars(CommandTimeout)
  /\ \A c \in Command : WF_vars(WriteAcknowledged(c) \/ WriteFails(c)) /\ WF_vars(Settle(c))
-----------------------------------------------------------------------------
\* A response is the device's answer to the very command that perform sent,
\* although notifications carry no request id and a late answer to a command
\* that timed out is indistinguishable from the next one's.
AnswersOwnCommand ==
  \A c \in Command : promise[c] = "resolved" => answer[c] = c

\* While the session accepts commands, nothing is outstanding but the command
\* in flight: no request owed an answer and no chunk on the wire or in the
\* buffer belongs to an earlier command.
UsableSessionIsQuiet ==
  IsReady =>
    /\ owed \subseteq {pending}
    /\ \A i \in 1 .. Len(wire) : wire[i].of = pending
    /\ \A i \in 1 .. Len(buffer) : buffer[i].of = pending

\* "The session does not self-heal transport-level failures": once a failed write or
\* a control message has put an initialised session out of Ready, no acknowledgement,
\* answer or continuation that was still under way makes it accept commands again.
NoSelfHeal ==
  [][stage = "done" /\ closing = "no" /\ state = "disconnecting" => ~IsReady']_vars

\* As documented for CommandErrorWait ("the session can accept a retry"), and for the
\* errors of a timeout ("allowing recovery on the next command") and of a malformed
\* answer ("can retry"): a command performed in that state is not refused.
ErrorWaitAcceptsRetry ==
  [][\A c \in Command : state = "command_error_wait" /\ closing = "no" => ~PerformRefused(c)]_vars

\* Every command ends, in a response or an error, unless disconnect() drops
\* the promise it waits for.
PerformSettles ==
  \A c \in Command :
    call[c] \in InFlight ~> call[c] \in Over \/ closing # "no"
=============================================================================
