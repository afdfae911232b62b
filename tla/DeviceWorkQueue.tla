-------------------------- MODULE DeviceWorkQueue --------------------------
(***************************************************************************)
(* app/device-queue.ts.  One promise chain per address serialises the work *)
(* submitted for that address, and a stop flag with a set of sleep waiters *)
(* makes the sleeps of the polling loops interruptible.                    *)
(*                                                                         *)
(* Every synchronous stretch of the code between two awaits is one action. *)
(* The microtask in which the chained promise `queued` settles after       *)
(* release() is an action of its own (Settle): other work of the process   *)
(* may run between the two.                                                *)
(***************************************************************************)
EXTENDS Naturals

CONSTANTS Address,      \* the Bluetooth addresses the process polls
          Call,         \* the invocations of enqueue, each made at most once
          AddressOf,    \* the address each invocation is made for
          HangingCall,  \* the invocations whose work never settles
          Loop,         \* the loops that call sleep
          NoCall        \* no entry in the map, or an already resolved promise

ASSUME QueueAssumption ==
  /\ AddressOf \in [Call -> Address]
  /\ HangingCall \subseteq Call
  /\ NoCall \notin Call

VARIABLES
  stopRequested,  \* the cooperative shutdown flag
  sleepWaiters,   \* the loops whose wake callback is in the set
  sleeping,       \* the loops whose sleep promise is unresolved
  deviceQueues,   \* per address, the call whose `queued` promise is the tail
  phase,          \* per call: idle, waiting on previous, working, or over
  previous,       \* per call, the tail it read when it was made
  settled,        \* the calls whose `queued` promise has resolved
  ticket,         \* history: the order in which the calls were made
  nextTicket      \* history: the ticket of the next call

queueVars == <<deviceQueues, phase, previous, settled, ticket, nextTicket>>
sleepVars == <<stopRequested, sleepWaiters, sleeping>>
vars == <<queueVars, sleepVars>>

Finished == {"returned", "threw"}
Phase == {"idle", "waiting", "working"} \cup Finished

TypeOK ==
  /\ stopRequested \in BOOLEAN
  /\ sleepWaiters \subseteq Loop
  /\ sleeping \subseteq Loop
  /\ deviceQueues \in [Address -> Call \cup {NoCall}]
  /\ phase \in [Call -> Phase]
  /\ previous \in [Call -> Call \cup {NoCall}]
  /\ settled \subseteq Call
  /\ ticket \in [Call -> Nat]
  /\ nextTicket \in Nat \ {0}

Init ==
  /\ stopRequested = FALSE
  /\ sleepWaiters = {}
  /\ sleeping = {}
  /\ deviceQueues = [a \in Address |-> NoCall]
  /\ phase = [c \in Call |-> "idle"]
  /\ previous = [c \in Call |-> NoCall]
  /\ settled = {}
  /\ ticket = [c \in Call |-> 0]
  /\ nextTicket = 1
-----------------------------------------------------------------------------
(* enqueue: the prefix up to `await previous`, the start of the work, the  *)
(* finally block, and the microtask that settles the chained promise.      *)

Enqueue(c) ==
  /\ phase[c] = "idle"
  /\ previous' = [previous EXCEPT ![c] = deviceQueues[AddressOf[c]]]
  /\ deviceQueues' = [deviceQueues EXCEPT ![AddressOf[c]] = c]
  /\ phase' = [phase EXCEPT ![c] = "waiting"]
  /\ ticket' = [ticket EXCEPT ![c] = nextTicket]
  /\ nextTicket' = nextTicket + 1
  /\ UNCHANGED <<settled, sleepVars>>

\* The promise a call awaits: resolved at once when the map had no entry.
PreviousSettled(c) == previous[c] = NoCall \/ previous[c] \in settled

\* Fault: the work is started without awaiting `previous`.
StartWorkAtOnce(c) ==
  /\ phase[c] = "waiting"
  /\ phase' = [phase EXCEPT ![c] = "working"]
  /\ UNCHANGED <<deviceQueues, previous, settled, ticket, nextTicket, sleepVars>>

StartWork(c) ==
  /\ phase[c] = "waiting"
  /\ PreviousSettled(c)
  /\ phase' = [phase EXCEPT ![c] = "working"]
  /\ UNCHANGED <<deviceQueues, previous, settled, ticket, nextTicket, sleepVars>>

\* Faults: delete whatever entry is there; delete nothing; lose the key.
QueuesWithoutAny(c) == [deviceQueues EXCEPT ![AddressOf[c]] = NoCall]
QueuesKept(c) == deviceQueues
QueuesUnkeyed(c) == [a \in Address \ {AddressOf[c]} |-> deviceQueues[a]]

\* The map entry is dropped only by the call that is still the tail.
QueuesWithout(c) ==
  [deviceQueues EXCEPT ![AddressOf[c]] = IF @ = c THEN NoCall ELSE @]

\* The finally block runs for work that resolves and for work that throws.
FinishWork(c) ==
  /\ phase[c] = "working"
  /\ c \notin HangingCall
  /\ \E outcome \in Finished : phase' = [phase EXCEPT ![c] = outcome]
  /\ deviceQueues' = QueuesWithout(c)
  /\ UNCHANGED <<previous, settled, ticket, nextTicket, sleepVars>>

\* Fault: release() is not in a finally block.
SettleOnSuccess(c) ==
  /\ c \notin settled
  /\ phase[c] = "returned"
  /\ PreviousSettled(c)
  /\ settled' = settled \cup {c}
  /\ UNCHANGED <<deviceQueues, phase, previous, ticket, nextTicket, sleepVars>>

\* queued = previous.then(() => current): settles after both.
Settle(c) ==
  /\ c \notin settled
  /\ phase[c] \in Finished
  /\ PreviousSettled(c)
  /\ settled' = settled \cup {c}
  /\ UNCHANGED <<deviceQueues, phase, previous, ticket, nextTicket, sleepVars>>
-----------------------------------------------------------------------------
(* The stop flag and the interruptible sleep.                              *)

\* Fault: sleep() does not look at the stop flag.
SleepRegardless(l) ==
  /\ l \notin sleeping
  /\ sleeping' = sleeping \cup {l}
  /\ sleepWaiters' = sleepWaiters \cup {l}
  /\ UNCHANGED <<stopRequested, queueVars>>

Sleep(l) ==
  /\ l \notin sleeping
  /\ ~stopRequested
  /\ sleeping' = sleeping \cup {l}
  /\ sleepWaiters' = sleepWaiters \cup {l}
  /\ UNCHANGED <<stopRequested, queueVars>>

TimerFires(l) ==
  /\ l \in sleeping
  /\ sleeping' = sleeping \ {l}
  /\ sleepWaiters' = sleepWaiters \ {l}
  /\ UNCHANGED <<stopRequested, queueVars>>

Stop ==
  /\ stopRequested' = TRUE
  /\ sleeping' = sleeping \ sleepWaiters
  /\ sleepWaiters' = {}
  /\ UNCHANGED queueVars

Reset ==
  /\ stopRequested' = FALSE
  /\ UNCHANGED <<sleepWaiters, sleeping, queueVars>>
-----------------------------------------------------------------------------
Next ==
  \/ \E c \in Call : Enqueue(c) \/ StartWork(c) \/ FinishWork(c) \/ Settle(c)
  \/ \E l \in Loop : Sleep(l) \/ TimerFires(l)
  \/ Stop
  \/ Reset

Spec == Init /\ [][Next]_vars

\* Microtasks always run, and work that is not hanging settles.
FairSpec ==
  /\ Spec
  /\ \A c \in Call : WF_vars(StartWork(c)) /\ WF_vars(FinishWork(c)) /\ WF_vars(Settle(c))
-----------------------------------------------------------------------------
SameAddress(c, d) == AddressOf[c] = AddressOf[d]

\* Two pieces of work for one address never run at the same time: enqueue
\* "serializes async work per address" although the tail entry is deleted and
\* recreated while older links of the chain are still settling.
OneWorkerPerAddress ==
  \A c, d \in Call :
    SameAddress(c, d) /\ phase[c] = "working" /\ phase[d] = "working" => c = d

\* Work for one address runs in the order enqueue was called: no call starts
\* while one made earlier for its address has not finished.
FifoPerAddress ==
  \A c, d \in Call :
    /\ SameAddress(c, d)
    /\ phase[c] # "idle"
    /\ ticket[c] < ticket[d]
    /\ phase[d] \in {"working"} \cup Finished
    => phase[c] \in Finished

\* The map holds the last unfinished call of each address and nothing else: an
\* address with no work has no entry (the finally block's conditional delete
\* leaks none), and an address with work has one for the next call to wait on.
TailIsLastUnfinished ==
  \A a \in Address :
    LET unfinished == {c \in Call : AddressOf[c] = a /\ phase[c] \in {"waiting", "working"}}
    IN  IF unfinished = {}
        THEN deviceQueues[a] = NoCall
        ELSE /\ deviceQueues[a] \in unfinished
             /\ \A c \in unfinished : ticket[c] <= ticket[deviceQueues[a]]

\* No loop sleeps while a stop is requested: stop() wakes every sleeper, and a
\* loop that reaches sleep() after the flag is set does not fall asleep.
NoSleepDuringStop == stopRequested => sleeping = {}

\* Work that never settles blocks its own address only: a call for an address
\* without hanging work is always run to its end.
HangBlocksOnlyItsAddress ==
  \A c \in Call :
    (\A d \in HangingCall : ~SameAddress(c, d))
      => (phase[c] = "waiting" ~> phase[c] \in Finished)

\* The chain of promises implements the serial executor, ticket by ticket and
\* with its fairness.
Executor == INSTANCE SerialExecutor
ImplementsExecutor == Executor!FairSpec
=============================================================================
