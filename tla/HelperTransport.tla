-------------------------- MODULE HelperTransport --------------------------
(***************************************************************************)
(* bluetooth/helper-transport.ts as DeviceSession.connectAndInitialize and *)
(* disconnect() use it, over one helper process that several transports    *)
(* share, with the native side of helper/.../Program.cs.                   *)
(*                                                                         *)
(* Requests reach the helper in order; an answer that its caller no longer *)
(* awaits is dropped (HelperClient).  Notifications are sent by tasks that *)
(* nobody awaits, so they come in any order, late ones after the answer to *)
(* the disconnect.  A native session is named by the attempt that connects *)
(* it, and so is the listener that attempt registers.  Reads and writes    *)
(* after the initialisation change nothing here (DeviceSession).           *)
(***************************************************************************)
EXTENDS Naturals, Sequences, FiniteSets

CONSTANTS Transport,   \* the transports created on the client
          RetryCount,  \* DeviceSession.CONNECT_RETRY_COUNT
          MaxNotes     \* bound on the notifications of one native session

ASSUME TransportAssumption == RetryCount \in Nat \ {0} /\ MaxNotes \in Nat

VARIABLES
  phase,      \* per transport, where the session that owns it is
  attempt,    \* per transport, its connection attempts so far
  sessionId,  \* per transport, the attempt it has the native session of, or 0
  listener,   \* unsubscribeNotification: the attempt whose listener it would
              \* remove, or 0
  callback,   \* per transport, whether `subscribers` has the session's callback
  listeners,  \* the client's notificationListeners
  disposed,   \* the client was disposed
  running,    \* the helper process is there
  pipe,       \* the requests that it has not served
  answered,   \* the requests it has answered with success
  native,     \* its _connections
  handlers,   \* the sessions whose ValueChanged has a handler
  emitted,    \* the notifications it was given to send
  routed,     \* those that have come through routeHelperEvent
  heard       \* per notification, how often a callback was called with it

transportVars == <<sessionId, listener, callback>>
clientVars == <<listeners, disposed>>
helperVars == <<running, native, handlers>>
noteVars == <<emitted, routed, heard>>
vars == <<phase, attempt, transportVars, clientVars, helperVars, pipe, answered, noteVars>>

Attempt == 1 .. RetryCount
Session == Transport \X Attempt
Note == Session \X (1 .. MaxNotes)
Request == [op : {"connect", "read", "subscribe", "disconnect"}, of : Session]
Phase == {"new", "connecting", "reading", "subscribing", "ready", "cleaning", "pausing",
          "failed", "closing", "closed", "close_failed"}

\* The request that a session awaits in a phase, if any.
Awaits ==
  [p \in {"connecting", "reading", "subscribing", "cleaning", "closing"} |->
     CASE p = "connecting" -> "connect" [] p = "reading" -> "read"
       [] p = "subscribing" -> "subscribe" [] OTHER -> "disconnect"]

TypeOK ==
  /\ phase \in [Transport -> Phase]
  /\ attempt \in [Transport -> 0 .. RetryCount]
  /\ sessionId \in [Transport -> 0 .. RetryCount]
  /\ listener \in [Transport -> 0 .. RetryCount]
  /\ callback \in [Transport -> BOOLEAN]
  /\ listeners \subseteq Session
  /\ disposed \in BOOLEAN /\ running \in BOOLEAN
  /\ pipe \in Seq(Request)
  /\ answered \subseteq Request
  /\ native \subseteq Session /\ handlers \subseteq Session
  /\ emitted \subseteq Note /\ routed \subseteq Note
  /\ heard \in [Note -> Nat]

Init ==
  /\ phase = [t \in Transport |-> "new"]
  /\ attempt = [t \in Transport |-> 0]
  /\ sessionId = [t \in Transport |-> 0]
  /\ listener = [t \in Transport |-> 0]
  /\ callback = [t \in Transport |-> FALSE]
  /\ listeners = {}
  /\ disposed = FALSE
  /\ running = TRUE
  /\ pipe = <<>>
  /\ answered = {}
  /\ native = {}
  /\ handlers = {}
  /\ emitted = {}
  /\ routed = {}
  /\ heard = [n \in Note |-> 0]
-----------------------------------------------------------------------------
(* The session and its transport.                                          *)

\* A session enters a phase; if it awaits a request there, that is sent, and
\* lost when the helper has gone.
Enter(t, p, k) ==
  /\ phase' = [phase EXCEPT ![t] = p]
  /\ pipe' = IF p \in DOMAIN Awaits /\ running
             THEN Append(pipe, [op |-> Awaits[p], of |-> <<t, k>>])
             ELSE pipe

Answered(t) == [op |-> Awaits[phase[t]], of |-> <<t, attempt[t]>>] \in answered

AttemptsLeft(t) == attempt[t] < RetryCount

SessionFrame == UNCHANGED <<disposed, helperVars, answered, noteVars>>

\* connect() throws if the transport still has a session id.
Connect(t) ==
  /\ phase[t] \in {"new", "pausing"}
  /\ AttemptsLeft(t)
  /\ sessionId[t] = 0
  /\ attempt' = [attempt EXCEPT ![t] = @ + 1]
  /\ Enter(t, "connecting", attempt[t] + 1)
  /\ UNCHANGED <<transportVars, listeners>>
  /\ SessionFrame

\* The session id is taken over, the listener registered, and the name read.
Connected(t) ==
  /\ phase[t] = "connecting"
  /\ Answered(t)
  /\ sessionId' = [sessionId EXCEPT ![t] = attempt[t]]
  /\ listener' = [listener EXCEPT ![t] = attempt[t]]
  /\ listeners' = listeners \cup {<<t, attempt[t]>>}
  /\ Enter(t, "reading", attempt[t])
  /\ UNCHANGED <<attempt, callback>>
  /\ SessionFrame

\* Fault: the callback is registered once the subscription is known to work.
NameReadOnly(t) ==
  /\ phase[t] = "reading"
  /\ Answered(t)
  /\ Enter(t, "subscribing", attempt[t])
  /\ UNCHANGED <<attempt, sessionId, listener, callback, listeners>>
  /\ SessionFrame

\* subscribe() registers the callback before it asks the helper.
NameRead(t) ==
  /\ phase[t] = "reading"
  /\ Answered(t)
  /\ callback' = [callback EXCEPT ![t] = TRUE]
  /\ Enter(t, "subscribing", attempt[t])
  /\ UNCHANGED <<attempt, sessionId, listener, listeners>>
  /\ SessionFrame

Subscribed(t) ==
  /\ phase[t] = "subscribing"
  /\ Answered(t)
  /\ Enter(t, "ready", attempt[t])
  /\ UNCHANGED <<attempt, transportVars, listeners>>
  /\ SessionFrame

\* What disconnect() clears before it asks the helper, failed or not.
ForgetConnection(t) ==
  /\ sessionId' = [sessionId EXCEPT ![t] = 0]
  /\ listeners' = listeners \ {<<t, listener[t]>>}
  /\ listener' = [listener EXCEPT ![t] = 0]
  /\ callback' = [callback EXCEPT ![t] = FALSE]

\* After the cleanup of a failed attempt: retryable errors only, while attempts
\* are left.
RetryPhase(t) == {"failed"} \cup (IF AttemptsLeft(t) THEN {"pausing"} ELSE {})

\* A step of the initialisation fails: an error answer, the deadline, or the
\* helper has gone.  The native session, if there is one, is given up.
InitializationFails(t) ==
  /\ phase[t] \in {"connecting", "reading", "subscribing"}
  /\ ForgetConnection(t)
  /\ IF sessionId[t] = 0
     THEN \E p \in RetryPhase(t) : Enter(t, p, attempt[t])
     ELSE Enter(t, "cleaning", sessionId[t])
  /\ UNCHANGED attempt
  /\ SessionFrame

\* However that disconnection ends.
CleanedUp(t) ==
  /\ phase[t] = "cleaning"
  /\ \E p \in RetryPhase(t) : Enter(t, p, attempt[t])
  /\ UNCHANGED <<attempt, transportVars, listeners>>
  /\ SessionFrame

\* disconnect() of a session that was initialised.
Disconnect(t) ==
  /\ phase[t] = "ready"
  /\ ForgetConnection(t)
  /\ Enter(t, "closing", sessionId[t])
  /\ UNCHANGED attempt
  /\ SessionFrame

DisconnectSettles(t) ==
  /\ phase[t] = "closing"
  /\ \/ Answered(t) /\ Enter(t, "closed", attempt[t])
     \/ Enter(t, "close_failed", attempt[t])
  /\ UNCHANGED <<attempt, transportVars, listeners>>
  /\ SessionFrame

Initialize(t) ==
  \/ Connect(t) \/ Connected(t) \/ NameRead(t) \/ Subscribed(t)
  \/ InitializationFails(t) \/ CleanedUp(t)
-----------------------------------------------------------------------------
(* The client: the fan-out of routeHelperEvent and dispose().              *)

\* The listeners that pass a notification on to a callback.
Hearers(n) ==
  {l \in listeners : sessionId[l[1]] # 0 /\ n[1] = <<l[1], sessionId[l[1]]>> /\ callback[l[1]]}

\* Fault: the listener does not compare the session ids.
RouteToEveryone(n) ==
  /\ n \in emitted \ routed
  /\ routed' = routed \cup {n}
  /\ heard' = [heard EXCEPT ![n] = @ + Cardinality({l \in listeners : callback[l[1]]})]
  /\ UNCHANGED <<phase, attempt, transportVars, clientVars, helperVars, pipe, answered, emitted>>

Route(n) ==
  /\ n \in emitted \ routed
  /\ routed' = routed \cup {n}
  /\ heard' = [heard EXCEPT ![n] = @ + Cardinality(Hearers(n))]
  /\ UNCHANGED <<phase, attempt, transportVars, clientVars, helperVars, pipe, answered, emitted>>

\* The process is killed; what it had sent may still arrive.
Dispose ==
  /\ disposed' = TRUE
  /\ listeners' = {}
  /\ running' = FALSE
  /\ pipe' = <<>>
  /\ native' = {}
  /\ handlers' = {}
  /\ UNCHANGED <<phase, attempt, transportVars, answered, noteVars>>
-----------------------------------------------------------------------------
(* The helper.                                                             *)

ServeFrame == UNCHANGED <<phase, attempt, transportVars, clientVars, running, noteVars>>

\* The next request is served; whether it succeeds is up to Windows.
Serve(op, success) ==
  /\ pipe # <<>>
  /\ Head(pipe).op = op
  /\ pipe' = Tail(pipe)
  /\ answered' = IF success THEN answered \cup {Head(pipe)} ELSE answered
  /\ ServeFrame

Asked == Head(pipe).of

ServeConnect ==
  \E success \in BOOLEAN :
    /\ Serve("connect", success)
    /\ native' = IF success THEN native \cup {Asked} ELSE native
    /\ UNCHANGED handlers

ServeRead ==
  \E success \in BOOLEAN :
    /\ Serve("read", success)
    /\ success => Asked \in native
    /\ UNCHANGED <<native, handlers>>

\* The handler is there before the device is told to notify.
AddHandler ==
  /\ pipe # <<>>
  /\ Head(pipe).op = "subscribe"
  /\ Asked \in native
  /\ handlers' = handlers \cup {Asked}
  /\ UNCHANGED <<native, pipe, answered>>
  /\ ServeFrame

ServeSubscribe ==
  \E success \in BOOLEAN :
    /\ Serve("subscribe", success)
    /\ success => Asked \in handlers
    /\ handlers' = IF success THEN handlers ELSE handlers \ {Asked}
    /\ UNCHANGED native

\* The session is removed and its handlers go, whatever fails after that.
ServeDisconnect ==
  \E success \in BOOLEAN :
    /\ Serve("disconnect", success)
    /\ native' = native \ {Asked}
    /\ handlers' = handlers \ {Asked}

Emit(n) ==
  /\ n[1] \in handlers
  /\ emitted' = emitted \cup {n}
  /\ UNCHANGED <<phase, attempt, transportVars, clientVars, helperVars, pipe, answered, routed, heard>>

HelperExits ==
  /\ running
  /\ running' = FALSE
  /\ pipe' = <<>>
  /\ native' = {}
  /\ handlers' = {}
  /\ UNCHANGED <<phase, attempt, transportVars, clientVars, answered, noteVars>>

Helper ==
  \/ ServeConnect \/ ServeRead \/ AddHandler \/ ServeSubscribe \/ ServeDisconnect \/ HelperExits
  \/ \E n \in Note : Emit(n) \/ Route(n)

Next ==
  \/ \E t \in Transport : Initialize(t) \/ Disconnect(t) \/ DisconnectSettles(t)
  \/ Helper \/ Dispose

Spec == Init /\ [][Next]_vars
-----------------------------------------------------------------------------
\* What the transport was built for: a notification of the session that it holds
\* is not missed, not even one that outruns the answer to the subscription.
NothingMissed ==
  \A t \in Transport :
    phase[t] \in {"subscribing", "ready"} /\ ~disposed =>
      \A n \in routed : n[1] = <<t, sessionId[t]>> => heard[n] = 1

\* WindowsHelperTransport keeps the promises of BluetoothTransport: a callback
\* hears its own connection only, each notification once, nothing after
\* disconnect, whatever is late, retried or shared.
Contract == INSTANCE BluetoothTransport
  WITH Connection   <- Session,
       NoConnection <- <<>>,
       Notification <- Note,
       CarriedBy    <- LAMBDA n : n[1],
       connection   <- [t \in Transport |->
                          IF sessionId[t] = 0 THEN <<>> ELSE <<t, sessionId[t]>>],
       subscribed   <- callback

ImplementsContract == Contract!Spec
=============================================================================
