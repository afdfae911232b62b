--------------------------- MODULE DeviceHandler ---------------------------
(***************************************************************************)
(* app/device-handler.ts with device-executor.ts, device-connection.ts and *)
(* bluetooth/manager.ts: the polling loops of several devices, the writes  *)
(* that arrive over MQTT, the replacement of broken sessions, cooperative  *)
(* shutdown, and the cleanup that follows handler.run().                   *)
(*                                                                         *)
(* The device queue appears as what DeviceWorkQueue is proved to be, a     *)
(* FIFO of jobs per address that runs one at a time.  A session appears as *)
(* what DeviceSession is proved to be: it breaks and never heals itself.   *)
(* When a poll is due is the schedule's business (PollingSchedule).        *)
(***************************************************************************)
EXTENDS Naturals, Sequences

CONSTANTS Address,       \* manager.addresses, without duplicates
          RunOnce,       \* the values of options.runOnce considered
          FastReads,     \* how many reads device.fastPollingCommands has
          SlowReads,     \* likewise slowPollingCommands
          PackReads,     \* likewise packPollingCommands
          PackNumMax,    \* device.packNumMax
          SelectsPack,   \* device.hasFieldSetter("pack_num")
          MaxWrites,     \* bound on the external writes altogether
          MaxOpen        \* bound on the connections a device has at once

ASSUME HandlerAssumption ==
  /\ RunOnce \subseteq BOOLEAN /\ SelectsPack \in BOOLEAN
  /\ FastReads \in Nat \ {0} /\ SlowReads \in Nat /\ PackReads \in Nat
  /\ PackNumMax \in Nat \ {0} /\ MaxWrites \in Nat /\ MaxOpen \in Nat \ {0}

VARIABLES
  runOnce,        \* the parameter: one polling cycle, then exit
  startup,        \* run() up to the start of the loops
  helperReady,    \* whether the helper's promise "ready" has settled
  stopRequested,  \* the queue's stop flag
  loop,           \* per address, where its loop is
  result,         \* per address, what its last job came to
  queue,          \* per address, the jobs enqueued: the loop's or a write
  job,            \* per address, the head job: not started, performing, or
                  \* performing on a session that was disconnected under it
  writes,         \* the external writes made so far
  session,        \* the manager's session: none, ready, broken or disconnecting
  open,           \* per address, the connections opened and not closed
  closing,        \* the cleanup in the finally block of server.run()
  detaching       \* the address whose session the cleanup is disconnecting

runVars == <<runOnce, startup, helperReady, stopRequested>>
jobVars == <<queue, job, writes>>
linkVars == <<session, open>>
cleanupVars == <<closing, detaching>>
vars == <<runVars, loop, result, jobVars, linkVars, cleanupVars>>

\* A loop is at a test of its while condition ("top", or "due" after the sleep
\* that precedes a cycle), waiting for a job, in a sleep, or over.
Ended == {"exited", "threw"}
Place == {"off", "top", "sleeping", "due", "reading", "pausing", "selecting", "settling",
          "recovering", "dropping", "replacing", "retrying"} \cup Ended
Loop == [at : Place, set : {"fast", "full", "pack"},
         left : 0 .. FastReads + SlowReads + PackReads, pack : 0 .. PackNumMax]
CommandResult == {"ok", "expected_error", "busy", "connection_error"}

\* A loop that is between two cycles.
Between(at) == [at |-> at, set |-> "fast", left |-> 0, pack |-> 0]

TypeOK ==
  /\ runOnce \in BOOLEAN
  /\ startup \in {"idle", "connecting", "retrying", "done", "failed", "stopped"}
  /\ helperReady \in BOOLEAN /\ stopRequested \in BOOLEAN
  /\ loop \in [Address -> Loop]
  /\ result \in [Address -> CommandResult \cup {"none", "thrown"}]
  /\ queue \in [Address -> Seq({"loop", "write"})]
  /\ job \in [Address -> {"waiting", "performing", "orphaned"}]
  /\ writes \in 0 .. MaxWrites
  /\ session \in [Address -> {"none", "ready", "broken", "disconnecting"}]
  /\ open \in [Address -> Nat]
  /\ closing \in {"no", "closing", "closed"}
  /\ detaching \in {{}} \cup {{a} : a \in Address}

Init ==
  /\ runOnce \in RunOnce
  /\ startup = "idle"
  /\ helperReady = FALSE
  /\ stopRequested = FALSE
  /\ loop = [a \in Address |-> Between("off")]
  /\ result = [a \in Address |-> "none"]
  /\ queue = [a \in Address |-> <<>>]
  /\ job = [a \in Address |-> "waiting"]
  /\ writes = 0
  /\ session = [a \in Address |-> "none"]
  /\ open = [a \in Address |-> 0]
  /\ closing = "no"
  /\ detaching = {}

Install(a) ==
  /\ session' = [session EXCEPT ![a] = "ready"]
  /\ open' = [open EXCEPT ![a] = @ + 1]

\* Fault: the transport keeps its session id until the helper has disconnected.
DisconnectAgain(a) ==
  /\ session' = [session EXCEPT ![a] = IF @ = "none" THEN @ ELSE "disconnecting"]
  /\ open' = [open EXCEPT ![a] = IF session[a] # "none" THEN @ - 1 ELSE @]
  /\ job' = [job EXCEPT ![a] = IF @ = "performing" THEN "orphaned" ELSE @]

\* disconnect() refuses further commands at once, and a command that is being
\* performed loses its waiter.
Disconnect(a) ==
  /\ session' = [session EXCEPT ![a] = IF @ = "none" THEN @ ELSE "disconnecting"]
  /\ open' = [open EXCEPT ![a] = IF session[a] \in {"ready", "broken"} THEN @ - 1 ELSE @]
  /\ job' = [job EXCEPT ![a] = IF @ = "performing" THEN "orphaned" ELSE @]
-----------------------------------------------------------------------------
(* run() up to the loops: reset, then connectAllWithRecovery.              *)

Run ==
  /\ startup = "idle"
  /\ stopRequested' = FALSE
  /\ startup' = "connecting"
  /\ UNCHANGED <<runOnce, helperReady, loop, result, jobVars, linkVars, cleanupVars>>

\* The helper process says hello, or fails; every request waits for that first,
\* without a deadline (HelperClient).
HelperReady ==
  /\ helperReady' = TRUE
  /\ UNCHANGED <<runOnce, startup, stopRequested, loop, result, jobVars, linkVars, cleanupVars>>

Stop ==
  /\ stopRequested' = TRUE
  /\ UNCHANGED <<runOnce, startup, helperReady, loop, result, jobVars, linkVars, cleanupVars>>

\* Fault: a retried connectAll connects every address again.
ConnectOneAgain(a) ==
  /\ startup = "connecting" /\ helperReady
  /\ open[a] < MaxOpen
  /\ Install(a)
  /\ UNCHANGED <<runVars, loop, result, jobVars, cleanupVars>>

ConnectOne(a) ==
  /\ startup = "connecting" /\ helperReady
  /\ session[a] = "none"
  /\ Install(a)
  /\ UNCHANGED <<runVars, loop, result, jobVars, cleanupVars>>

\* A recoverable error is retried after a sleep, unless this is a single run.
ConnectFails ==
  /\ startup = "connecting" /\ helperReady
  /\ \E a \in Address : session[a] = "none"
  /\ \E recoverable \in BOOLEAN :
       startup' = IF runOnce \/ ~recoverable THEN "failed" ELSE "retrying"
  /\ UNCHANGED <<runOnce, helperReady, stopRequested, loop, result, jobVars, linkVars, cleanupVars>>

RetryConnect ==
  /\ startup = "retrying"
  /\ startup' = IF stopRequested THEN "stopped" ELSE "connecting"
  /\ UNCHANGED <<runOnce, helperReady, stopRequested, loop, result, jobVars, linkVars, cleanupVars>>

\* The device models are created from the names; an unknown name throws.
StartLoops ==
  /\ startup = "connecting"
  /\ \A a \in Address : session[a] # "none"
  /\ \/ /\ startup' = "done"
        /\ loop' = [a \in Address |-> Between("top")]
     \/ /\ startup' = "failed"
        /\ UNCHANGED loop
  /\ UNCHANGED <<runOnce, helperReady, stopRequested, result, jobVars, linkVars, cleanupVars>>

Startup == (\E a \in Address : ConnectOne(a)) \/ ConnectFails \/ RetryConnect \/ StartLoops
-----------------------------------------------------------------------------
(* The steps of one loop.  GoTo ends a synchronous stretch without a job,  *)
(* Submit ends it by enqueueing one.                                       *)

GoTo(a, place) ==
  /\ loop' = [loop EXCEPT ![a] = place]
  /\ result' = [result EXCEPT ![a] = "none"]
  /\ UNCHANGED queue

Submit(a, place) ==
  /\ loop' = [loop EXCEPT ![a] = place]
  /\ result' = [result EXCEPT ![a] = "none"]
  /\ queue' = [queue EXCEPT ![a] = Append(@, "loop")]

LoopFrame == UNCHANGED <<runVars, job, writes, linkVars, cleanupVars>>

At(a, places) == loop[a].at \in places

\* Loops that were told to stop leave the place where they notice it.
Exit(a) == GoTo(a, Between("exited"))

EndCycle(a) ==
  IF runOnce \/ stopRequested THEN Exit(a) ELSE GoTo(a, Between("top"))

StopLoop(a) ==
  /\ At(a, {"top", "due"})
  /\ stopRequested
  /\ Exit(a)
  /\ LoopFrame

SleepUntilDue(a) ==
  /\ At(a, {"top"})
  /\ ~stopRequested
  /\ GoTo(a, Between("sleeping"))
  /\ LoopFrame

Wake(a) ==
  /\ At(a, {"sleeping"})
  /\ GoTo(a, Between("due"))
  /\ LoopFrame

StartCycle(a) ==
  /\ At(a, {"top", "due"})
  /\ ~stopRequested
  /\ \E set \in {"fast", "full"} :
       Submit(a, [loop[a] EXCEPT !.at = "reading", !.set = set,
                                 !.left = IF set = "full" THEN FastReads + SlowReads ELSE FastReads])
  /\ LoopFrame

\* runPackCommands from pack p on: it ends early when a stop is requested.
ReadPack(a, p) ==
  Submit(a, [at |-> "reading", set |-> "pack", left |-> PackReads, pack |-> p])

PackStep(a, p) ==
  IF p > PackNumMax \/ PackReads = 0 \/ stopRequested
  THEN EndCycle(a)
  ELSE IF PackNumMax > 1 /\ SelectsPack
       THEN Submit(a, [loop[a] EXCEPT !.at = "selecting", !.set = "pack", !.pack = p])
       ELSE ReadPack(a, p)

\* Fault: a one-shot run waits for a reconnection like any other.
RecoverInOneShot(a) ==
  GoTo(a, Between(IF stopRequested THEN "exited" ELSE "recovering"))

Recover(a) ==
  GoTo(a, Between(IF runOnce \/ stopRequested THEN "exited" ELSE "recovering"))

JobThrew(a) ==
  /\ At(a, {"reading", "selecting"})
  /\ result[a] = "thrown"
  /\ GoTo(a, Between("threw"))
  /\ LoopFrame

\* Fault: a busy device is reconnected like a lost one.
JobBusyRecovers(a) ==
  /\ At(a, {"reading", "selecting"})
  /\ result[a] = "busy"
  /\ Recover(a)
  /\ LoopFrame

\* A busy answer ends the cycle, whichever job got it.
JobBusy(a) ==
  /\ At(a, {"reading", "selecting"})
  /\ result[a] = "busy"
  /\ EndCycle(a)
  /\ LoopFrame

\* Fault: a cycle that lost its connection is over like any other.
ConnectionLostIgnored(a) ==
  /\ result[a] = "connection_error"
  /\ At(a, {"selecting"}) \/ (At(a, {"reading"}) /\ loop[a].set # "pack")
  /\ EndCycle(a)
  /\ LoopFrame

ConnectionLost(a) ==
  /\ result[a] = "connection_error"
  /\ At(a, {"selecting"}) \/ (At(a, {"reading"}) /\ loop[a].set # "pack")
  /\ Recover(a)
  /\ LoopFrame

ReadDone(a) ==
  /\ At(a, {"reading"})
  /\ result[a] \in {"ok", "expected_error"}
  /\ IF loop[a].left > 1
     THEN GoTo(a, [loop[a] EXCEPT !.at = "pausing", !.left = @ - 1])
     ELSE CASE loop[a].set = "fast" -> EndCycle(a)
            [] loop[a].set = "full" -> PackStep(a, 1)
            [] loop[a].set = "pack" -> PackStep(a, loop[a].pack + 1)
  /\ LoopFrame

\* runPackCommands looks for "busy" only: the set is given up, the next pack
\* is tried.
PackReadLost(a) ==
  /\ At(a, {"reading"})
  /\ loop[a].set = "pack"
  /\ result[a] = "connection_error"
  /\ PackStep(a, loop[a].pack + 1)
  /\ LoopFrame

PackSelected(a) ==
  /\ At(a, {"selecting"})
  /\ \/ result[a] = "ok" /\ GoTo(a, [loop[a] EXCEPT !.at = "settling"])
     \/ result[a] = "expected_error" /\ PackStep(a, loop[a].pack + 1)
  /\ LoopFrame

\* Fault: the next command of a set is sent without looking at the stop flag.
ContinueSetRegardless(a) ==
  /\ At(a, {"pausing", "settling"})
  /\ IF At(a, {"settling"})
     THEN ReadPack(a, loop[a].pack)
     ELSE Submit(a, [loop[a] EXCEPT !.at = "reading"])
  /\ LoopFrame

\* The end of the delay between two commands, and of the wait for the device
\* to settle on a pack: a stop breaks off the set, the packs and the loop.
ContinueSet(a) ==
  /\ At(a, {"pausing", "settling"})
  /\ IF stopRequested
     THEN Exit(a)
     ELSE IF At(a, {"settling"})
          THEN ReadPack(a, loop[a].pack)
          ELSE Submit(a, [loop[a] EXCEPT !.at = "reading"])
  /\ LoopFrame

\* manager.reconnect: disconnect the old session, if any, and forget it...
DropSession(a) ==
  /\ At(a, {"recovering"})
  /\ Disconnect(a)
  /\ loop' = [loop EXCEPT ![a].at = IF session[a] = "none" THEN "replacing" ELSE "dropping"]
  /\ UNCHANGED <<runVars, result, queue, writes, cleanupVars>>

SessionDropped(a) ==
  /\ At(a, {"dropping"})
  /\ session' = [session EXCEPT ![a] = "none"]
  /\ loop' = [loop EXCEPT ![a].at = "replacing"]
  /\ UNCHANGED <<runVars, result, jobVars, open, cleanupVars>>

\* ...then initialise a new one.
ReplaceSession(a) ==
  /\ At(a, {"replacing"})
  /\ open[a] < MaxOpen
  /\ Install(a)
  /\ loop' = [loop EXCEPT ![a].at = "top"]
  /\ UNCHANGED <<runVars, result, jobVars, cleanupVars>>

ReplaceFails(a) ==
  /\ At(a, {"replacing"})
  /\ GoTo(a, Between("retrying"))
  /\ LoopFrame

RetryRecovery(a) ==
  /\ At(a, {"retrying"})
  /\ IF stopRequested THEN Exit(a) ELSE GoTo(a, Between("recovering"))
  /\ LoopFrame

LoopStep(a) ==
  \/ StopLoop(a) \/ SleepUntilDue(a) \/ Wake(a) \/ StartCycle(a)
  \/ JobThrew(a) \/ JobBusy(a) \/ ConnectionLost(a)
  \/ ReadDone(a) \/ PackReadLost(a) \/ PackSelected(a) \/ ContinueSet(a)
  \/ DropSession(a) \/ SessionDropped(a) \/ ReplaceSession(a) \/ ReplaceFails(a) \/ RetryRecovery(a)
-----------------------------------------------------------------------------
(* The jobs.  A write comes from a command message; its outcome goes back  *)
(* to whoever published it.                                                *)

\* Enqueued once the command listener is attached.
Write(a) ==
  /\ startup = "done"
  /\ writes < MaxWrites
  /\ writes' = writes + 1
  /\ queue' = [queue EXCEPT ![a] = Append(@, "write")]
  /\ UNCHANGED <<runVars, loop, result, job, linkVars, cleanupVars>>

StartJob(a) ==
  /\ queue[a] # <<>>
  /\ job[a] = "waiting"
  /\ session[a] = "ready"
  /\ job' = [job EXCEPT ![a] = "performing"]
  /\ UNCHANGED <<runVars, loop, result, queue, writes, linkVars, cleanupVars>>

\* The head job comes to an end; only the loop's own result is used further.
CompleteJob(a, r) ==
  /\ queue' = [queue EXCEPT ![a] = Tail(@)]
  /\ job' = [job EXCEPT ![a] = "waiting"]
  /\ result' = IF Head(queue[a]) = "loop" THEN [result EXCEPT ![a] = r] ELSE result
  /\ UNCHANGED <<runVars, loop, writes, open, cleanupVars>>

\* perform refuses on a session that is not ready (one that disconnects may be
\* Ready again for a moment, and its transport throws); without a session
\* getSession throws an error that no caller classifies.
RefuseJob(a) ==
  /\ queue[a] # <<>>
  /\ job[a] = "waiting"
  /\ \/ session[a] = "broken" /\ CompleteJob(a, "connection_error")
     \/ session[a] = "disconnecting" /\ \E r \in {"connection_error", "thrown"} : CompleteJob(a, r)
     \/ session[a] = "none" /\ CompleteJob(a, "thrown")
  /\ UNCHANGED session

\* perform ends: an answer and an exception leave the session ready; a timeout,
\* a malformed answer and a lost link break it; any other error is thrown on.
\* The manager may have forgotten the session, which it then keeps nothing of.
FinishJob(a) ==
  /\ job[a] = "performing"
  /\ \E r \in CommandResult \cup {"thrown"}, s \in {"ready", "broken"} :
       /\ r \in {"ok", "busy"} => s = "ready"
       /\ r = "connection_error" => s = "broken"
       /\ CompleteJob(a, r)
       /\ session' = [session EXCEPT ![a] = IF @ = "ready" THEN s ELSE @]

\* disconnect() dropped the waiter: such a job ends only if its write fails or
\* its answer had arrived already.
FinishOrphan(a) ==
  /\ job[a] = "orphaned"
  /\ \E r \in {"ok", "connection_error", "thrown"} : CompleteJob(a, r)
  /\ UNCHANGED session

JobStep(a) == StartJob(a) \/ RefuseJob(a) \/ FinishJob(a)
-----------------------------------------------------------------------------
(* run() returns when every loop has; it rejects as soon as one throws.    *)
(* Either way server.run() then calls manager.disconnectAll().             *)

RunSettled ==
  \/ startup \in {"failed", "stopped"}
  \/ /\ startup = "done"
     /\ \/ \E a \in Address : At(a, {"threw"})
        \/ \A a \in Address : At(a, {"exited"})

BeginCleanup ==
  /\ RunSettled
  /\ closing = "no"
  /\ closing' = "closing"
  /\ UNCHANGED <<runVars, loop, result, jobVars, linkVars, detaching>>

\* disconnectAll takes the sessions one after the other, those that are
\* installed meanwhile included.
CloseSession(a) ==
  /\ closing = "closing"
  /\ detaching = {}
  /\ session[a] # "none"
  /\ Disconnect(a)
  /\ detaching' = {a}
  /\ UNCHANGED <<runVars, loop, result, queue, writes, closing>>

\* Its finally deletes the address's entry, whichever session that now holds.
SessionClosed(a) ==
  /\ detaching = {a}
  /\ session' = [session EXCEPT ![a] = "none"]
  /\ detaching' = {}
  /\ UNCHANGED <<runVars, loop, result, jobVars, open, closing>>

CleanedUp ==
  /\ closing = "closing"
  /\ detaching = {}
  /\ \A a \in Address : session[a] = "none"
  /\ closing' = "closed"
  /\ UNCHANGED <<runVars, loop, result, jobVars, linkVars, detaching>>

Cleanup ==
  \/ BeginCleanup \/ CleanedUp
  \/ \E a \in Address : CloseSession(a) \/ SessionClosed(a)

Next ==
  \/ Run \/ HelperReady \/ Stop \/ Startup \/ Cleanup
  \/ \E a \in Address : LoopStep(a) \/ Write(a) \/ JobStep(a) \/ FinishOrphan(a)

Spec == Init /\ [][Next]_vars

\* Timers fire, and so do the deadlines of the helper's requests once it is ready:
\* attempts to initialise and to reconnect end.  So does every perform that is not
\* disconnected (DeviceSession!PerformSettles).  That the helper gets ready is not
\* assumed.
FairSpec ==
  /\ Spec
  /\ WF_vars(Startup) /\ WF_vars(Cleanup)
  /\ \A a \in Address : WF_vars(LoopStep(a)) /\ WF_vars(JobStep(a))
-----------------------------------------------------------------------------
\* Reconnecting never disconnects a session under a command: a waiter that
\* disconnect() drops would block the device's queue for good, so the loop must
\* only get there when every command that could be in flight has been refused.
ReconnectDropsNoCommand ==
  \A a \in Address : At(a, {"recovering", "dropping", "replacing"}) => job[a] = "waiting"

\* However startup retries, recoveries and the cleanup interleave, a device has
\* at most one connection open and the manager knows it, and after a run that ended
\* by itself or by a stop the cleanup has closed them all, although it may overtake
\* writes.  Not so once a loop has thrown: the cleanup then runs beside loops that
\* reconnect.
OneConnectionPerDevice ==
  (\A a \in Address : ~At(a, {"threw"})) =>
    \A a \in Address :
      /\ open[a] = IF session[a] \in {"ready", "broken"} THEN 1 ELSE 0
      /\ closing = "closed" => open[a] = 0

\* Once a stop is requested no loop enqueues a read or a pack selection and
\* none begins to reconnect: at most what was already under way is finished.
StopStartsNothing ==
  [][stopRequested => \A a \in Address :
       /\ ~At(a, {"reading"}) => loop'[a].at # "reading"
       /\ ~At(a, {"selecting"}) => loop'[a].at # "selecting"
       /\ ~At(a, {"recovering"}) => loop'[a].at # "recovering"]_vars

\* A stop ends the run, wherever the loops are: asleep, reconnecting to a device
\* that is gone, or behind external writes in the queue.  One-shot mode ends by
\* itself, also when a device is lost: it never waits for a reconnection.  Only a
\* helper that never gets ready keeps run() from its end: connectAll waits for it
\* and looks at no flag (HelperClient!WedgedHelperCannotStall).
RunEnds == (stopRequested \/ runOnce) /\ startup # "idle" /\ helperReady ~> RunSettled

\* A loop never settles down on a broken session: the timeout, parse error or
\* lost link that broke it leads to its replacement, unless the loop ends.
BrokenSessionNoticed ==
  \A a \in Address :
    session[a] = "broken" /\ ~At(a, Ended) ~> session[a] # "broken" \/ At(a, Ended)
=============================================================================
