---------------------------- MODULE BridgeServer ----------------------------
(***************************************************************************)
(* app/server.ts with broker/client.ts and core/event-bus.ts, as main() of *)
(* cli/bluetti-mqtt.ts runs it and the signals of cli/process.ts stop it:  *)
(* in which order the parts start and stop, and what telemetry, commands   *)
(* from the broker and a signal meet while they do.                        *)
(*                                                                         *)
(* Polling appears as one loop per device that reads and publishes; what   *)
(* it reads and when is DeviceHandler's.  A read and its publication are   *)
(* one job on the device's queue, as is a command.                         *)
(***************************************************************************)
EXTENDS Naturals

CONSTANTS Device,   \* the devices that are polled
          RunOnce,  \* the values of options.runOnce considered
          Fields    \* how many values a read publishes, the snapshot included

ASSUME ServerAssumption == RunOnce \subseteq BOOLEAN /\ Fields \in Nat \ {0}

VARIABLES
  runOnce,          \* the parameter: one polling cycle, then exit
  main,             \* where main() is
  client,           \* the connection to the broker
  rawClient,        \* whether the bridge's rawClient is set
  parserListener,   \* whether the bridge listens to the event bus
  messageListener,  \* whether the bridge listens to the client
  helper,           \* whether the helper's promise "ready" has settled, or it is disposed
  signalled,        \* the flag "stopping" of installSignalHandlers
  stopRequested,    \* the queue's stop flag
  loop,             \* per device, where its loop is
  left,             \* per device, how many values its job has yet to publish
  session,          \* the devices that have a usable session
  known,            \* the bridge's map of devices
  command           \* per device, what became of a command from the broker

bridgeVars == <<client, rawClient, parserListener, messageListener>>
signalVars == <<signalled, stopRequested>>
loopVars == <<loop, left>>
vars == <<runOnce, main, bridgeVars, helper, signalVars, loopVars, session, known, command>>

Ended == {"returned", "threw"}

TypeOK ==
  /\ runOnce \in BOOLEAN
  /\ main \in {"connecting", "subscribing", "starting", "polling",
               "disconnecting", "closing", "failing", "over"}
  /\ client \in {"none", "open", "ending", "ended"}
  /\ rawClient \in BOOLEAN /\ parserListener \in BOOLEAN /\ messageListener \in BOOLEAN
  /\ helper \in {"starting", "ready", "disposed"}
  /\ signalled \in BOOLEAN /\ stopRequested \in BOOLEAN
  /\ loop \in [Device -> {"off", "idle", "queued", "reading", "publishing", "recovering", "dropped"} \cup Ended]
  /\ left \in [Device -> 0 .. Fields]
  /\ session \subseteq Device
  /\ known \subseteq Device
  /\ command \in [Device -> {"none", "queued", "performing", "dropped", "done", "rejected"}]

Init ==
  /\ runOnce \in RunOnce
  /\ main = "connecting"
  /\ client = "none"
  /\ rawClient = FALSE /\ parserListener = FALSE /\ messageListener = FALSE
  /\ helper = "starting"
  /\ signalled = FALSE /\ stopRequested = FALSE
  /\ loop = [d \in Device |-> "off"]
  /\ left = [d \in Device |-> 0]
  /\ session = {}
  /\ known = {}
  /\ command = [d \in Device |-> "none"]

\* One job at a time on a device's queue.
Busy(d) == loop[d] \in {"reading", "publishing", "dropped"} \/ command[d] \in {"performing", "dropped"}
-----------------------------------------------------------------------------
(* mqttBridge.run()                                                        *)

\* Fault: a listener that cannot be removed ends the cleanup.
CleanupClientUnlessOffThrows(offThrows) ==
  /\ rawClient' = FALSE
  /\ parserListener' = FALSE
  /\ messageListener' = (messageListener /\ offThrows)
  /\ client' = IF messageListener /\ offThrows THEN client ELSE "ending"

\* client.off may throw, which is reported after the rest is done.
CleanupClient(offThrows) ==
  /\ rawClient' = FALSE
  /\ parserListener' = FALSE
  /\ messageListener' = FALSE
  /\ client' = "ending"

\* main()'s finally block.
Finish == main' = "over" /\ helper' = "disposed"

Connect ==
  /\ main = "connecting"
  /\ main' = "subscribing"
  /\ client' = "open"
  /\ rawClient' = TRUE
  /\ UNCHANGED <<runOnce, parserListener, messageListener, helper, signalVars, loopVars, session, known, command>>

ConnectFails ==
  /\ main = "connecting"
  /\ Finish
  /\ UNCHANGED <<runOnce, bridgeVars, signalVars, loopVars, session, known, command>>

\* The listeners are installed, and handler.run() follows at once: it begins
\* with queue.reset().
Subscribed ==
  /\ main = "subscribing"
  /\ main' = "starting"
  /\ parserListener' = TRUE
  /\ messageListener' = TRUE
  /\ stopRequested' = FALSE
  /\ UNCHANGED <<runOnce, client, rawClient, helper, signalled, loopVars, session, known, command>>

SubscribeFails(offThrows) ==
  /\ main = "subscribing"
  /\ main' = "failing"
  /\ CleanupClient(offThrows)
  /\ UNCHANGED <<runOnce, helper, signalVars, loopVars, session, known, command>>

FailureReported ==
  /\ main = "failing"
  /\ client' = "ended"
  /\ Finish
  /\ UNCHANGED <<runOnce, rawClient, parserListener, messageListener, signalVars, loopVars, session, known, command>>
-----------------------------------------------------------------------------
(* deviceHandler.run()                                                     *)

\* The promise "ready" of the helper client settles: connectAll waits for it, and
\* so does every request.
HelperStarts ==
  /\ helper = "starting"
  /\ helper' = "ready"
  /\ UNCHANGED <<runOnce, main, bridgeVars, signalVars, loopVars, session, known, command>>

\* A stop that arrives during the last attempt is noticed by the loops.
StartLoops ==
  /\ main = "starting" /\ helper = "ready"
  /\ main' = "polling"
  /\ session' = Device
  /\ loop' = [d \in Device |-> "idle"]
  /\ UNCHANGED <<runOnce, bridgeVars, helper, signalVars, left, known, command>>

\* A stop, or an error that is not retried, with some devices connected.
StartFails ==
  /\ main = "starting" /\ helper = "ready"
  /\ main' = "disconnecting"
  /\ session' \in SUBSET Device
  /\ UNCHANGED <<runOnce, bridgeVars, helper, signalVars, loopVars, known, command>>

LoopFrame == UNCHANGED <<runOnce, main, bridgeVars, helper, signalVars, command>>

GoTo(d, place) ==
  /\ loop' = [loop EXCEPT ![d] = place]
  /\ UNCHANGED <<left, session, known>>
  /\ LoopFrame

\* Between two jobs, at a test of the stop flag or at the end of the one cycle.
StopLoop(d) ==
  /\ loop[d] = "idle"
  /\ stopRequested \/ runOnce
  /\ GoTo(d, "returned")

Enqueue(d) ==
  /\ loop[d] = "idle"
  /\ ~stopRequested
  /\ GoTo(d, "queued")

\* getSession throws an error that the loop does not expect.
StartRead(d) ==
  /\ loop[d] = "queued"
  /\ ~Busy(d)
  /\ GoTo(d, IF d \in session THEN "reading" ELSE "threw")

\* An answer without a known field or without a listener, a busy device, an
\* expected error.
ReadNothing(d) ==
  /\ loop[d] = "reading"
  /\ GoTo(d, "idle")

\* The link is broken: the loop drops the session and reconnects.
ConnectionLost(d) ==
  /\ loop[d] = "reading"
  /\ IF runOnce \/ stopRequested
     THEN loop' = [loop EXCEPT ![d] = "returned"] /\ UNCHANGED session
     ELSE loop' = [loop EXCEPT ![d] = "recovering"] /\ session' = session \ {d}
  /\ UNCHANGED <<left, known>> /\ LoopFrame

Reconnected(d) ==
  /\ loop[d] = "recovering"
  /\ helper = "ready"
  /\ loop' = [loop EXCEPT ![d] = "idle"]
  /\ session' = session \cup {d}
  /\ UNCHANGED <<left, known>> /\ LoopFrame

\* Fault: only a one-shot run is spared from waiting for a lost device.
GiveUpInOneShot(d) ==
  /\ loop[d] = "recovering"
  /\ stopRequested /\ runOnce
  /\ GoTo(d, "returned")

\* A failed attempt is followed by another one unless a stop was requested.
GiveUpRecovery(d) ==
  /\ loop[d] = "recovering"
  /\ stopRequested
  /\ GoTo(d, "returned")

\* The bus calls its listener, the bridge.
ReadDone(d) ==
  /\ loop[d] = "reading"
  /\ parserListener
  /\ known' = known \cup {d}
  /\ left' = [left EXCEPT ![d] = Fields]
  /\ loop' = [loop EXCEPT ![d] = "publishing"]
  /\ UNCHANGED session /\ LoopFrame

\* Fault: the snapshot that follows the fields is not counted.
PublishedFieldOnly(d) ==
  /\ loop[d] = "publishing"
  /\ left' = [left EXCEPT ![d] = @ - 1]
  /\ loop' = [loop EXCEPT ![d] = IF left[d] = 0 THEN "idle" ELSE @]
  /\ UNCHANGED <<session, known>> /\ LoopFrame

Published(d) ==
  /\ loop[d] = "publishing"
  /\ left' = [left EXCEPT ![d] = @ - 1]
  /\ loop' = [loop EXCEPT ![d] = IF left[d] = 1 THEN "idle" ELSE @]
  /\ UNCHANGED <<session, known>> /\ LoopFrame

\* The error passes through the bus and the job into the loop, which does not
\* expect it.
PublishFails(d) ==
  /\ loop[d] = "publishing"
  /\ left' = [left EXCEPT ![d] = 0]
  /\ loop' = [loop EXCEPT ![d] = "threw"]
  /\ UNCHANGED <<session, known>> /\ LoopFrame
-----------------------------------------------------------------------------
(* Commands: handleIncomingCommand, the bus, handleCommand.                *)

CommandFrame == UNCHANGED <<runOnce, main, bridgeVars, helper, signalVars, loopVars, session, known>>

BrokerDelivers(d) ==
  /\ messageListener
  /\ client = "open"
  /\ command[d] = "none"
  /\ d \in known
  /\ command' = [command EXCEPT ![d] = "queued"]
  /\ CommandFrame

\* Fault: the command does not take its turn on the device's queue.
StartCommandAtOnce(d) ==
  /\ command[d] = "queued"
  /\ command' = [command EXCEPT ![d] = IF d \in session THEN "performing" ELSE "rejected"]
  /\ CommandFrame

StartCommand(d) ==
  /\ command[d] = "queued"
  /\ ~Busy(d)
  /\ command' = [command EXCEPT ![d] = IF d \in session THEN "performing" ELSE "rejected"]
  /\ CommandFrame

FinishCommand(d) ==
  /\ command[d] = "performing"
  /\ \E outcome \in {"done", "rejected"} : command' = [command EXCEPT ![d] = outcome]
  /\ CommandFrame
-----------------------------------------------------------------------------
(* The end: stop() of the first signal, and server.run()'s finally block.  *)

Signal ==
  /\ main # "over"
  /\ ~signalled
  /\ signalled' = TRUE
  /\ stopRequested' = TRUE
  /\ UNCHANGED <<runOnce, main, bridgeVars, helper, loopVars, session, known, command>>

\* Fault: the first loop to end, however it does, ends the run.
FirstLoopEnds ==
  /\ main = "polling"
  /\ \E d \in Device : loop[d] \in Ended
  /\ main' = "disconnecting"
  /\ UNCHANGED <<runOnce, bridgeVars, helper, signalVars, loopVars, session, known, command>>

\* Promise.all over the loops.
HandlerSettles ==
  /\ main = "polling"
  /\ (\A d \in Device : loop[d] = "returned") \/ (\E d \in Device : loop[d] = "threw")
  /\ main' = "disconnecting"
  /\ UNCHANGED <<runOnce, bridgeVars, helper, signalVars, loopVars, session, known, command>>

\* A command or read that is being performed loses its waiter.
DisconnectDevice(d) ==
  /\ main = "disconnecting"
  /\ d \in session
  /\ session' = session \ {d}
  /\ command' = [command EXCEPT ![d] = IF @ = "performing" THEN "dropped" ELSE @]
  /\ loop' = [loop EXCEPT ![d] = IF @ = "reading" THEN "dropped" ELSE @]
  /\ UNCHANGED <<runOnce, main, bridgeVars, helper, signalVars, left, known>>

StopBridge(offThrows) ==
  /\ main = "disconnecting"
  /\ session = {}
  /\ main' = "closing"
  /\ CleanupClient(offThrows)
  /\ UNCHANGED <<runOnce, helper, signalVars, loopVars, session, known, command>>

\* endAsync settles, one way or the other.
ClientEnded ==
  /\ main = "closing"
  /\ client' = IF client = "ending" THEN "ended" ELSE client
  /\ Finish
  /\ UNCHANGED <<runOnce, rawClient, parserListener, messageListener, signalVars, loopVars, session, known, command>>

LoopStep(d) ==
  \/ StopLoop(d) \/ Enqueue(d) \/ StartRead(d) \/ ReadNothing(d) \/ ConnectionLost(d)
  \/ GiveUpRecovery(d) \/ ReadDone(d) \/ Published(d) \/ PublishFails(d)
CommandStep(d) == StartCommand(d) \/ FinishCommand(d)
BridgeStarts == Connect \/ Subscribed \/ \E offThrows \in BOOLEAN : SubscribeFails(offThrows)
HandlerStarts == StartLoops \/ StartFails
Cleanup ==
  \/ FailureReported \/ HandlerSettles \/ ClientEnded
  \/ \E d \in Device : DisconnectDevice(d)
  \/ \E offThrows \in BOOLEAN : StopBridge(offThrows)

Next ==
  \/ BridgeStarts \/ ConnectFails \/ HelperStarts \/ HandlerStarts \/ Cleanup \/ Signal
  \/ \E d \in Device : LoopStep(d) \/ Reconnected(d) \/ CommandStep(d) \/ BrokerDelivers(d)

Spec == Init /\ [][Next]_vars

\* Promises of the broker, of the device sessions and of endAsync settle.  A
\* device may stay away, so that only a stop is sure to end the handler's start,
\* and only if the helper gets ready, which is not assumed.
Fairness ==
  /\ WF_vars(BridgeStarts) /\ WF_vars(stopRequested /\ HandlerStarts) /\ WF_vars(Cleanup)
  /\ \A d \in Device : WF_vars(LoopStep(d)) /\ WF_vars(CommandStep(d))

FairSpec == Spec /\ Fairness
-----------------------------------------------------------------------------
Threw == \E d \in Device : loop[d] = "threw"

\* However main() ends, in the bridge's start, the handler's start, a failing
\* loop or a stop, and whatever fails in the cleanup: no callback is left on
\* the bus or the client, the client is ended and the helper is disposed.  No
\* session is left either, unless a loop has thrown: Promise.all does not wait
\* for the others, and they may reconnect behind the cleanup.
ReleasedWhenOver ==
  main = "over" =>
    /\ ~rawClient /\ ~parserListener /\ ~messageListener
    /\ client \in {"none", "ended"}
    /\ helper = "disposed"
    /\ ~Threw => session = {}

\* The bridge is stopped after the last publication, so that none is cut off,
\* as long as no loop has thrown.
ClientOutlivesPolling ==
  ~Threw => \A d \in Device :
              loop[d] \in {"reading", "publishing"} =>
                rawClient /\ client = "open" /\ parserListener /\ d \in session

\* A command does not run between a read and its publication, nor beside it.
OneJobPerDevice ==
  \A d \in Device : ~(loop[d] \in {"reading", "publishing"} /\ command[d] = "performing")

\* A signal once the handler runs ends main(), whatever publications, commands
\* and reconnections are in progress, and whichever devices stay away.  Not so while
\* the handler waits for a helper that never gets ready: no flag ends that wait.
SignalEndsRun ==
  signalled /\ stopRequested /\ helper = "ready" /\ main \notin {"connecting", "subscribing"}
    ~> main = "over"

\* As documented for installSignalHandlers and stop(): the first signal runs the
\* cleanup callback, which requests the shutdown.  A helper that never gets ready is
\* left out here: the run is about a signal that comes too early.
SignalEndsProcess == signalled /\ helper = "ready" ~> main = "over"
=============================================================================
