---------------------------- MODULE HelperClient ----------------------------
(***************************************************************************)
(* bluetooth/helper-client.ts, helper-request.ts and helper-line-router.ts *)
(* together with the process they talk to, helper/.../Program.cs.          *)
(*                                                                         *)
(* Requests and answers are lines on two pipes.  The helper serves one     *)
(* request at a time and owns the native sessions; it may be wedged in a   *)
(* request, crash, or be killed by dispose().  The callers obey            *)
(* HelperTransport: a session is used once its connect has returned and    *)
(* until its disconnect is called.  A session is named by the request that *)
(* connected it; notifications are left to the transports.                 *)
(***************************************************************************)
EXTENDS Naturals, Sequences

CONSTANTS Request,      \* the calls of request(), each made at most once
          Connects,     \* those whose command is "connect"
          Disconnects,  \* those whose command is "disconnect"
          SessionOf,    \* for the others, the connect whose session they name
          NoRequest,    \* no id
          MaxNoise      \* bound on the lines on stdout that are not JSON

Uses == Request \ (Connects \cup Disconnects)

ASSUME HelperAssumption ==
  /\ Connects \subseteq Request
  /\ Disconnects \subseteq Request \ Connects
  /\ SessionOf \in [Request \ Connects -> Connects]
  /\ NoRequest \notin Request
  /\ MaxNoise \in Nat

VARIABLES
  ready,             \* the promise `ready`
  readyResolved,     \* the flag: the ready event has been seen
  disposeRequested,  \* the flag set by dispose()
  exitSeen,          \* no exit event is to come
  waiting,           \* the requests that await `ready`, in order
  pending,           \* the keys of the map `pending`
  call,              \* per request, where it is or how it ended
  process,           \* the helper
  serving,           \* the request it is in
  native,            \* its _connections
  stdin, stdout,     \* the lines in the pipes
  noise              \* the lines so far that were not JSON

clientVars == <<ready, readyResolved, disposeRequested, exitSeen>>
requestVars == <<waiting, pending, call>>
helperVars == <<process, serving, native, noise>>
vars == <<clientVars, requestVars, helperVars, stdin, stdout>>

Over == {"resolved", "error", "timed_out"}
Line == [kind : {"ready", "noise"}, id : {NoRequest}]
          \cup [kind : {"resolved", "error"}, id : Request]

TypeOK ==
  /\ ready \in {"pending", "resolved", "rejected"}
  /\ readyResolved \in BOOLEAN /\ disposeRequested \in BOOLEAN /\ exitSeen \in BOOLEAN
  /\ waiting \in Seq(Request)
  /\ pending \subseteq Request
  /\ call \in [Request -> {"idle", "waiting", "pending"} \cup Over]
  /\ process \in {"starting", "running", "exited"}
  /\ serving \in Request \cup {NoRequest}
  /\ native \subseteq Connects
  /\ stdin \in Seq(Request)
  /\ stdout \in Seq(Line)
  /\ noise \in 0 .. MaxNoise

Init ==
  /\ ready = "pending"
  /\ readyResolved = FALSE
  /\ disposeRequested = FALSE
  /\ exitSeen = FALSE
  /\ waiting = <<>>
  /\ pending = {}
  /\ call = [r \in Request |-> "idle"]
  /\ process = "starting"
  /\ serving = NoRequest
  /\ native = {}
  /\ stdin = <<>>
  /\ stdout = <<>>
  /\ noise = 0
-----------------------------------------------------------------------------
(* sendHelperRequest: refused after dispose(), else it awaits `ready`, is  *)
(* registered with its timer, and its line is written.                     *)

\* HelperTransport has a session id from the end of connect() to the call of
\* disconnect().
SessionHeld(r) ==
  /\ call[SessionOf[r]] = "resolved"
  /\ \A d \in Disconnects : SessionOf[d] = SessionOf[r] => call[d] = "idle"

StartRequest(r) ==
  /\ call[r] = "idle"
  /\ r \notin Connects => SessionHeld(r)
  /\ IF disposeRequested
     THEN call' = [call EXCEPT ![r] = "error"] /\ UNCHANGED waiting
     ELSE call' = [call EXCEPT ![r] = "waiting"] /\ waiting' = Append(waiting, r)
  /\ UNCHANGED <<clientVars, pending, helperVars, stdin, stdout>>

\* The requests that await `ready` continue in the order in which they came.
\* A line written to a helper that has exited is lost.
Send ==
  /\ waiting # <<>>
  /\ ready = "resolved"
  /\ waiting' = Tail(waiting)
  /\ pending' = pending \cup {Head(waiting)}
  /\ call' = [call EXCEPT ![Head(waiting)] = "pending"]
  /\ stdin' = IF process = "running" THEN Append(stdin, Head(waiting)) ELSE stdin
  /\ UNCHANGED <<clientVars, helperVars, stdout>>

\* `ready` was rejected, or the write throws and the entry is removed again.
SendThrows ==
  /\ waiting # <<>>
  /\ ready # "pending"
  /\ waiting' = Tail(waiting)
  /\ call' = [call EXCEPT ![Head(waiting)] = "error"]
  /\ UNCHANGED <<clientVars, pending, helperVars, stdin, stdout>>

RequestTimeout(r) ==
  /\ r \in pending
  /\ pending' = pending \ {r}
  /\ call' = [call EXCEPT ![r] = "timed_out"]
  /\ UNCHANGED <<clientVars, waiting, helperVars, stdin, stdout>>

\* Fault: the map is cleared, timers included, but nobody is told.
RejectNobody ==
  /\ pending' = {}
  /\ UNCHANGED <<call, waiting>>

RejectPendingRequests ==
  /\ call' = [r \in Request |-> IF r \in pending THEN "error" ELSE call[r]]
  /\ pending' = {}
  /\ UNCHANGED waiting
-----------------------------------------------------------------------------
(* The events of the process: routeHelperLine for the next line, and the   *)
(* constructor's handlers.  A promise settles once.                        *)

SettleReady(outcome) == ready' = IF ready = "pending" THEN outcome ELSE ready

ReceiveLine(kinds) ==
  /\ stdout # <<>>
  /\ Head(stdout).kind \in kinds
  /\ stdout' = Tail(stdout)
  /\ UNCHANGED <<disposeRequested, exitSeen, waiting, helperVars, stdin>>

HandleNoise ==
  /\ ReceiveLine({"noise"})
  /\ IF readyResolved THEN UNCHANGED ready ELSE SettleReady("rejected")
  /\ UNCHANGED <<readyResolved, pending, call>>

HandleReady ==
  /\ ReceiveLine({"ready"})
  /\ readyResolved' = TRUE
  /\ SettleReady("resolved")
  /\ UNCHANGED <<pending, call>>

\* An answer whose request is not pending any more is dropped.
HandleAnswer ==
  /\ ReceiveLine({"resolved", "error"})
  /\ LET answer == Head(stdout) IN
     /\ pending' = pending \ {answer.id}
     /\ call' = IF answer.id \in pending THEN [call EXCEPT ![answer.id] = answer.kind] ELSE call
  /\ UNCHANGED <<ready, readyResolved>>

HandleLine == HandleNoise \/ HandleReady \/ HandleAnswer

\* The process could not be spawned; no exit event follows.
SpawnError ==
  /\ process = "starting"
  /\ process' = "exited"
  /\ exitSeen' = TRUE
  /\ SettleReady("rejected")
  /\ RejectPendingRequests
  /\ UNCHANGED <<readyResolved, disposeRequested, serving, native, noise, stdin, stdout>>

StdinError ==
  /\ process = "exited"
  /\ pending # {}
  /\ RejectPendingRequests
  /\ UNCHANGED <<clientVars, helperVars, stdin, stdout>>

\* After dispose() the exit handler clears the map and rejects nobody.
ExitEvent ==
  /\ process = "exited"
  /\ ~exitSeen
  /\ exitSeen' = TRUE
  /\ IF readyResolved THEN UNCHANGED ready ELSE SettleReady("rejected")
  /\ IF disposeRequested
     THEN pending' = {} /\ UNCHANGED <<waiting, call>>
     ELSE RejectPendingRequests
  /\ UNCHANGED <<readyResolved, disposeRequested, helperVars, stdin, stdout>>

Dispose ==
  /\ disposeRequested' = TRUE
  /\ RejectPendingRequests
  /\ UNCHANGED <<ready, readyResolved, exitSeen, helperVars, stdin, stdout>>
-----------------------------------------------------------------------------
(* The helper process.                                                     *)

\* Lines that `dotnet run` prints before the program starts.
PrintNoise ==
  /\ process = "starting"
  /\ noise < MaxNoise
  /\ noise' = noise + 1
  /\ stdout' = Append(stdout, [kind |-> "noise", id |-> NoRequest])
  /\ UNCHANGED <<clientVars, requestVars, process, serving, native, stdin>>

HelperReady ==
  /\ process = "starting"
  /\ process' = "running"
  /\ stdout' = Append(stdout, [kind |-> "ready", id |-> NoRequest])
  /\ UNCHANGED <<clientVars, requestVars, serving, native, noise, stdin>>

\* Fault: the loop reads lines without awaiting the handler of the last one,
\* so that requests are taken up in any order.
TakeAnyRequest ==
  /\ process = "running"
  /\ serving = NoRequest
  /\ \E i \in 1 .. Len(stdin) :
       /\ serving' = stdin[i]
       /\ stdin' = SubSeq(stdin, 1, i - 1) \o SubSeq(stdin, i + 1, Len(stdin))
  /\ UNCHANGED <<clientVars, requestVars, process, native, noise, stdout>>

TakeRequest ==
  /\ process = "running"
  /\ serving = NoRequest
  /\ stdin # <<>>
  /\ serving' = Head(stdin)
  /\ stdin' = Tail(stdin)
  /\ UNCHANGED <<clientVars, requestVars, process, native, noise, stdout>>

\* Fault: an error is reported without the id of the request.
AnswerWithoutId(kind) ==
  /\ serving' = NoRequest
  /\ stdout' = Append(stdout, [kind |-> kind, id |-> IF kind = "error" THEN NoRequest ELSE serving])
  /\ UNCHANGED <<clientVars, requestVars, process, noise, stdin>>

Answer(kind) ==
  /\ serving' = NoRequest
  /\ stdout' = Append(stdout, [kind |-> kind, id |-> serving])
  /\ UNCHANGED <<clientVars, requestVars, process, noise, stdin>>

\* Fault: the connection is recorded before it is known to work.
ServeConnectEarly ==
  /\ serving \in Connects
  /\ native' = native \cup {serving}
  /\ \E kind \in {"resolved", "error"} : Answer(kind)

ServeConnect ==
  /\ serving \in Connects
  /\ \/ native' = native \cup {serving} /\ Answer("resolved")
     \/ UNCHANGED native /\ Answer("error")

\* The session is removed before its objects are disposed, which may fail.
ServeDisconnect ==
  /\ serving \in Disconnects
  /\ native' = native \ {SessionOf[serving]}
  /\ \/ Answer("resolved")
     \/ SessionOf[serving] \in native /\ Answer("error")

ServeUse ==
  /\ serving \in Uses
  /\ \/ SessionOf[serving] \in native /\ Answer("resolved")
     \/ Answer("error")
  /\ UNCHANGED native

\* A crash, or the kill by dispose(); the native sessions end with the process.
HelperExits ==
  /\ process # "exited"
  /\ process' = "exited"
  /\ serving' = NoRequest
  /\ native' = {}
  /\ stdin' = <<>>
  /\ UNCHANGED <<clientVars, requestVars, noise, stdout>>

Next ==
  \/ \E r \in Request : StartRequest(r) \/ RequestTimeout(r)
  \/ Send \/ SendThrows
  \/ HandleLine \/ SpawnError \/ StdinError \/ ExitEvent \/ Dispose
  \/ PrintNoise \/ HelperReady \/ TakeRequest
  \/ ServeConnect \/ ServeDisconnect \/ ServeUse \/ HelperExits

Spec == Init /\ [][Next]_vars

\* Node's side goes on and its timers fire, and a killed process exits; the
\* helper owes no answer, not even the ready event.
FairSpec ==
  /\ Spec
  /\ WF_vars(Send \/ SendThrows) /\ WF_vars(HandleLine) /\ WF_vars(ExitEvent)
  /\ WF_vars(disposeRequested /\ HelperExits)
  /\ \A r \in Request : WF_vars(RequestTimeout(r))
-----------------------------------------------------------------------------
\* A write, read or subscription never meets a helper that has already dropped
\* the session, although a disconnect may be called while it is outstanding:
\* the answer "Unknown session" would be an error that no caller recovers from.
UsesKnownSession == serving \in Uses => SessionOf[serving] \in native

\* A native session is one whose connect succeeded, or may yet, and that no
\* disconnect has reported closed, whatever else was outstanding for it: only the
\* deadline can orphan one, whose connect is then completed with nobody waiting.
NativeSessionsAreOwned ==
  \A s \in native :
    /\ call[s] \in {"pending", "resolved", "timed_out"} \/ disposeRequested
    /\ \A d \in Disconnects : SessionOf[d] = s => call[d] # "resolved"

\* Once the helper has become ready, or is known never to, a request ends: by its
\* answer, its deadline, a broken pipe or the exit of the helper, unless the client
\* is disposed.
RequestSettles ==
  \A r \in Request :
    call[r] = "pending" \/ (call[r] = "waiting" /\ ready # "pending")
      ~> call[r] \in Over \/ disposeRequested

\* As documented for WindowsHelperClient: "a wedged helper cannot stall polling
\* indefinitely", so every request ends while the client is in use.
WedgedHelperCannotStall ==
  \A r \in Request : call[r] \in {"waiting", "pending"} ~> call[r] \in Over \/ disposeRequested
=============================================================================
