------------------------ MODULE DeviceHandlerProofs ------------------------
(***************************************************************************)
(* Loops, writes, reconnections and the cleanup, for every set of devices: *)
(* a reconnection finds no command in flight, and connections are counted. *)
(***************************************************************************)
EXTENDS DeviceHandler, TLAPS

\* The loop has met a connection error and not replaced its session since.
Lost(a) ==
  \/ At(a, {"recovering", "dropping", "replacing", "retrying"})
  \/ At(a, {"reading", "selecting"}) /\ result[a] = "connection_error"

\* Until the loops start, nothing is queued.
StartInv ==
  startup # "done" =>
    \A a \in Address : loop[a].at = "off" /\ queue[a] = <<>> /\ job[a] = "waiting"

\* Only a ready session takes commands, and whoever disconnects it leaves none performing.
JobInv ==
  \A a \in Address :
    /\ job[a] # "waiting" => queue[a] # <<>>
    /\ job[a] = "orphaned" => session[a] \in {"none", "disconnecting"}
    /\ Lost(a) => job[a] = "waiting" /\ session[a] # "ready"

\* The manager may lose a connection, but closes none that is not open.
CountInv == \A a \in Address : session[a] \in {"ready", "broken"} => open[a] > 0

NoneThrew == \A a \in Address : ~At(a, {"threw"})

Counted(a) == open[a] = IF session[a] \in {"ready", "broken"} THEN 1 ELSE 0

\* Who disconnects a session forgets it, and nobody replaces it meanwhile.
LinkInv ==
  NoneThrew =>
    \A a \in Address :
      /\ Counted(a)
      /\ At(a, {"dropping"}) => session[a] = "disconnecting"
      /\ At(a, {"replacing"}) => session[a] = "none"
      /\ detaching = {a} => session[a] = "disconnecting"

\* The cleanup follows a run that is over, and ends without sessions.
CleanupInv ==
  /\ closing # "no" => startup \in {"done", "failed", "stopped"}
  /\ detaching # {} => closing = "closing"
  /\ NoneThrew /\ closing # "no" /\ startup = "done" => \A a \in Address : At(a, {"exited"})
  /\ NoneThrew /\ closing = "closed" => \A a \in Address : session[a] = "none"

IInv == TypeOK /\ StartInv /\ JobInv /\ CountInv /\ LinkInv /\ CleanupInv

\* What a loop does outside of a reconnection: it goes to a place, with or without a
\* new job, and heads for a reconnection only if it is lost.
Moves(a) ==
  \E place \in Loop :
    /\ ~At(a, {"off"} \cup Ended)
    /\ place.at \notin {"off", "dropping", "replacing"}
    /\ place.at \in {"recovering", "retrying"} => Lost(a)
    /\ GoTo(a, place) \/ Submit(a, place)
    /\ LoopFrame
-----------------------------------------------------------------------------
(* The places of a loop.                                                   *)

LEMMA BetweenPlace == \A at \in Place : Between(at) \in Loop /\ Between(at).at = at
BY HandlerAssumption DEF Between, Loop

\* A loop ends its cycle, or goes on with a pack: it is not lost, nor is it made so.
Onward(a) ==
  \E place \in Loop :
    /\ place.at \in {"exited", "top", "reading", "selecting"}
    /\ GoTo(a, place) \/ Submit(a, place)

LEMMA CycleEnds == ASSUME NEW a \in Address, EndCycle(a) PROVE Onward(a)
<1>1. {"exited", "top"} \subseteq Place
  BY DEF Place, Ended
<1> QED
  BY <1>1, BetweenPlace DEF EndCycle, Exit, Onward

LEMMA PackRead ==
  ASSUME NEW a \in Address, NEW p \in 0 .. PackNumMax, ReadPack(a, p)
  PROVE  Onward(a)
<1> DEFINE place == [at |-> "reading", set |-> "pack", left |-> PackReads, pack |-> p]
<1>1. place \in Loop /\ place.at = "reading"
  BY HandlerAssumption DEF Loop, Place
<1>2. Submit(a, place)
  BY DEF ReadPack
<1> HIDE DEF place
<1> QED
  BY <1>1, <1>2 DEF Onward

LEMMA PackGoesOn ==
  ASSUME TypeOK, NEW a \in Address, NEW p \in Nat \ {0}, PackStep(a, p)
  PROVE  Onward(a)
<1>1. CASE EndCycle(a)
  BY <1>1, CycleEnds
<1>2. CASE p <= PackNumMax /\ Submit(a, [loop[a] EXCEPT !.at = "selecting", !.set = "pack", !.pack = p])
  <2>1. loop[a] \in Loop
    BY DEF TypeOK
  <2>2. [loop[a] EXCEPT !.at = "selecting", !.set = "pack", !.pack = p] \in Loop
    <3>1. p \in 0 .. PackNumMax /\ "selecting" \in Place
      BY <1>2, HandlerAssumption DEF Place
    <3> QED
      BY <2>1, <3>1 DEF Loop
  <2>3. [loop[a] EXCEPT !.at = "selecting", !.set = "pack", !.pack = p].at = "selecting"
    BY <2>1 DEF Loop
  <2> QED
    BY <1>2, <2>2, <2>3 DEF Onward
<1>3. CASE p <= PackNumMax /\ ReadPack(a, p)
  BY <1>3, PackRead, HandlerAssumption
<1> QED
  BY <1>1, <1>2, <1>3, HandlerAssumption DEF PackStep

LEMMA LoopMoves ==
  ASSUME TypeOK, NEW a \in Address,
         \/ StopLoop(a) \/ SleepUntilDue(a) \/ Wake(a) \/ StartCycle(a)
         \/ JobThrew(a) \/ JobBusy(a) \/ ConnectionLost(a)
         \/ ReadDone(a) \/ PackReadLost(a) \/ PackSelected(a) \/ ContinueSet(a)
         \/ ReplaceFails(a) \/ RetryRecovery(a)
  PROVE  Moves(a)
<1>1. loop[a] \in Loop /\ LoopFrame
  BY DEF TypeOK, StopLoop, SleepUntilDue, Wake, StartCycle, JobThrew, JobBusy, ConnectionLost,
         ReadDone, PackReadLost, PackSelected, ContinueSet, ReplaceFails, RetryRecovery
<1>2. Place = {"off", "top", "sleeping", "due", "reading", "pausing", "selecting", "settling",
               "recovering", "dropping", "replacing", "retrying", "exited", "threw"}
  BY DEF Place, Ended
<1>3. ASSUME NEW place \in Loop, ~At(a, {"off"} \cup Ended),
             place.at \notin {"off", "dropping", "replacing"},
             place.at \in {"recovering", "retrying"} => Lost(a),
             GoTo(a, place) \/ Submit(a, place)
      PROVE  Moves(a)
  BY <1>1, <1>3 DEF Moves
<1>4. ASSUME Onward(a), ~At(a, {"off"} \cup Ended) PROVE Moves(a)
  <2>1. PICK place \in Loop : /\ place.at \in {"exited", "top", "reading", "selecting"}
                              /\ GoTo(a, place) \/ Submit(a, place)
    BY <1>4 DEF Onward
  <2> QED
    BY <1>3, <1>4, <2>1
<1>5. ASSUME NEW at \in Place \ {"off", "dropping", "replacing"}, GoTo(a, Between(at)),
             ~At(a, {"off"} \cup Ended), at \in {"recovering", "retrying"} => Lost(a)
      PROVE  Moves(a)
  BY <1>3, <1>5, BetweenPlace
<1>6. CASE StopLoop(a) \/ SleepUntilDue(a) \/ Wake(a)
  BY <1>2, <1>5, <1>6 DEF StopLoop, SleepUntilDue, Wake, Exit, At, Ended
<1>7. CASE StartCycle(a)
  <2>1. PICK set \in {"fast", "full"} :
          Submit(a, [loop[a] EXCEPT !.at = "reading", !.set = set,
                       !.left = IF set = "full" THEN FastReads + SlowReads ELSE FastReads])
    BY <1>7 DEF StartCycle
  <2> DEFINE place == [loop[a] EXCEPT !.at = "reading", !.set = set,
                         !.left = IF set = "full" THEN FastReads + SlowReads ELSE FastReads]
  <2>2. place \in Loop /\ place.at = "reading"
    <3>1. /\ (IF set = "full" THEN FastReads + SlowReads ELSE FastReads)
               \in 0 .. FastReads + SlowReads + PackReads
          /\ set \in {"fast", "full", "pack"} /\ "reading" \in Place
      BY <1>2, HandlerAssumption
    <3> QED
      BY <1>1, <3>1 DEF Loop
  <2>3. Submit(a, place)
    BY <2>1
  <2> HIDE DEF place
  <2> QED
    BY <1>3, <1>7, <2>2, <2>3 DEF StartCycle, At, Ended
<1>8. CASE JobThrew(a)
  BY <1>2, <1>5, <1>8 DEF JobThrew, At, Ended
<1>9. CASE JobBusy(a)
  BY <1>4, <1>9, CycleEnds DEF JobBusy, At, Ended
<1>10. CASE ConnectionLost(a)
  BY <1>2, <1>5, <1>10 DEF ConnectionLost, Recover, Lost, At, Ended
<1>11. CASE ReadDone(a)
  <2>1. ~At(a, {"off"} \cup Ended)
    BY <1>11 DEF ReadDone, At, Ended
  <2>2. CASE loop[a].left > 1
    <3>1. GoTo(a, [loop[a] EXCEPT !.at = "pausing", !.left = @ - 1])
      BY <1>11, <2>2 DEF ReadDone
    <3>2. /\ [loop[a] EXCEPT !.at = "pausing", !.left = @ - 1] \in Loop
          /\ [loop[a] EXCEPT !.at = "pausing", !.left = @ - 1].at = "pausing"
      <4>1. loop[a].left - 1 \in 0 .. FastReads + SlowReads + PackReads /\ "pausing" \in Place
        BY <1>1, <1>2, <2>2, HandlerAssumption DEF Loop
      <4> QED
        BY <1>1, <4>1 DEF Loop
    <3> QED
      BY <1>3, <2>1, <3>1, <3>2
  <2>3. CASE ~(loop[a].left > 1)
    <3>1. loop[a].set \in {"fast", "full", "pack"} /\ loop[a].pack + 1 \in Nat \ {0}
      BY <1>1, HandlerAssumption DEF Loop
    <3>2. EndCycle(a) \/ PackStep(a, 1) \/ PackStep(a, loop[a].pack + 1)
      BY <1>11, <2>3, <3>1 DEF ReadDone
    <3> QED
      BY <1>4, <2>1, <3>1, <3>2, CycleEnds, PackGoesOn
  <2> QED
    BY <2>2, <2>3
<1>12. CASE PackReadLost(a)
  <2>1. loop[a].pack + 1 \in Nat \ {0}
    BY <1>1, HandlerAssumption DEF Loop
  <2> QED
    BY <1>4, <1>12, <2>1, PackGoesOn DEF PackReadLost, At, Ended
<1>13. CASE PackSelected(a)
  <2>1. ~At(a, {"off"} \cup Ended) /\ loop[a].pack + 1 \in Nat \ {0}
    BY <1>1, <1>13, HandlerAssumption DEF PackSelected, At, Ended, Loop
  <2>2. CASE GoTo(a, [loop[a] EXCEPT !.at = "settling"])
    <3>1. [loop[a] EXCEPT !.at = "settling"] \in Loop /\ [loop[a] EXCEPT !.at = "settling"].at = "settling"
      BY <1>1, <1>2 DEF Loop
    <3> QED
      BY <1>3, <2>1, <2>2, <3>1
  <2>3. CASE PackStep(a, loop[a].pack + 1)
    BY <1>4, <2>1, <2>3, PackGoesOn
  <2> QED
    BY <1>13, <2>2, <2>3 DEF PackSelected
<1>14. CASE ContinueSet(a)
  <2>1. ~At(a, {"off"} \cup Ended) /\ loop[a].pack \in 0 .. PackNumMax
    BY <1>1, <1>14 DEF ContinueSet, At, Ended, Loop
  <2>2. CASE Exit(a)
    BY <1>2, <1>5, <2>1, <2>2 DEF Exit
  <2>3. CASE ReadPack(a, loop[a].pack)
    BY <1>4, <2>1, <2>3, PackRead
  <2>4. CASE Submit(a, [loop[a] EXCEPT !.at = "reading"])
    <3>1. [loop[a] EXCEPT !.at = "reading"] \in Loop /\ [loop[a] EXCEPT !.at = "reading"].at = "reading"
      BY <1>1, <1>2 DEF Loop
    <3> QED
      BY <1>3, <2>1, <2>4, <3>1
  <2> QED
    BY <1>14, <2>2, <2>3, <2>4 DEF ContinueSet
<1>15. CASE ReplaceFails(a) \/ RetryRecovery(a)
  BY <1>2, <1>5, <1>15 DEF ReplaceFails, RetryRecovery, Exit, Lost, At, Ended
<1> QED
  BY <1>6, <1>7, <1>8, <1>9, <1>10, <1>11, <1>12, <1>13, <1>14, <1>15
-----------------------------------------------------------------------------
(* Every step preserves the invariant.                                     *)

LEMMA InitIInv == ASSUME Init PROVE IInv
<1>1. /\ Between("off") \in Loop /\ Between("off").at = "off"
      /\ <<>> \in Seq({"loop", "write"})
  BY BetweenPlace DEF Place
<1>2. TypeOK
  <2>1. runOnce \in BOOLEAN /\ helperReady \in BOOLEAN /\ stopRequested \in BOOLEAN
    BY HandlerAssumption, Zenon DEF Init
  <2>3. writes \in 0 .. MaxWrites
    BY HandlerAssumption DEF Init
  <2>2. loop \in [Address -> Loop] /\ queue \in [Address -> Seq({"loop", "write"})]
    BY <1>1 DEF Init
  <2> QED
    BY <2>1, <2>2, <2>3 DEF Init, TypeOK
<1>3. StartInv /\ JobInv /\ CountInv
  BY <1>1 DEF Init, StartInv, JobInv, CountInv, Lost, At
<1>4. LinkInv /\ CleanupInv
  BY <1>1 DEF Init, LinkInv, Counted, CleanupInv, At
<1> QED
  BY <1>2, <1>3, <1>4 DEF IInv

LEMMA MovesStep == ASSUME IInv, NEW a \in Address, Moves(a) PROVE IInv'
<1>1. PICK place \in Loop : /\ ~At(a, {"off"} \cup Ended)
                            /\ place.at \notin {"off", "dropping", "replacing"}
                            /\ place.at \in {"recovering", "retrying"} => Lost(a)
                            /\ GoTo(a, place) \/ Submit(a, place)
                            /\ LoopFrame
  BY DEF Moves
<1>2. /\ UNCHANGED <<runOnce, startup, helperReady, stopRequested, job, writes, session, open, closing, detaching>>
      /\ loop' = [loop EXCEPT ![a] = place] /\ result' = [result EXCEPT ![a] = "none"]
      /\ queue' = queue \/ queue' = [queue EXCEPT ![a] = Append(@, "loop")]
  BY <1>1 DEF GoTo, Submit, LoopFrame, runVars, linkVars, cleanupVars
<1>3. /\ loop' \in [Address -> Loop] /\ loop'[a] = place
      /\ \A b \in Address : b # a => loop'[b] = loop[b] /\ result'[b] = result[b]
      /\ result' \in [Address -> CommandResult \cup {"none", "thrown"}] /\ result'[a] = "none"
  BY <1>2 DEF IInv, TypeOK
<1>4. /\ queue' \in [Address -> Seq({"loop", "write"})]
      /\ \A b \in Address : queue[b] # <<>> => queue'[b] # <<>>
      /\ \A b \in Address : b # a => queue'[b] = queue[b]
  <2>1. queue[a] \in Seq({"loop", "write"}) /\ queue \in [Address -> Seq({"loop", "write"})]
    BY DEF IInv, TypeOK
  <2>2. Append(queue[a], "loop") \in Seq({"loop", "write"}) /\ Append(queue[a], "loop") # <<>>
    BY <2>1
  <2> QED
    BY <1>2, <2>1, <2>2
<1>5. TypeOK'
  BY <1>2, <1>3, <1>4 DEF IInv, TypeOK
<1>6. StartInv'
  BY <1>1, <1>2 DEF IInv, StartInv, At
<1>7. JobInv'
  <2>1. \A b \in Address : Lost(b)' => Lost(b)
    BY <1>1, <1>2, <1>3 DEF Lost, At
  <2> QED
    BY <1>2, <1>4, <2>1 DEF IInv, JobInv
<1>8. CountInv'
  BY <1>2 DEF IInv, CountInv
<1>9. NoneThrew' => NoneThrew
  BY <1>1, <1>3 DEF NoneThrew, At, Ended
<1>10. LinkInv'
  BY <1>1, <1>2, <1>3, <1>9 DEF IInv, LinkInv, Counted, At
<1>11. CleanupInv'
  BY <1>1, <1>2, <1>3, <1>9 DEF IInv, CleanupInv, At, Ended
<1> QED
  BY <1>5, <1>6, <1>7, <1>8, <1>10, <1>11 DEF IInv

\* What disconnecting does to a session and the command in flight on it.
LEMMA Disconnected ==
  ASSUME IInv, NEW a \in Address, Disconnect(a)
  PROVE  /\ session' \in [Address -> {"none", "ready", "broken", "disconnecting"}]
         /\ open' \in [Address -> Nat] /\ job' \in [Address -> {"waiting", "performing", "orphaned"}]
         /\ \A b \in Address : b # a => session'[b] = session[b] /\ open'[b] = open[b] /\ job'[b] = job[b]
         /\ session'[a] = IF session[a] = "none" THEN "none" ELSE "disconnecting"
         /\ job'[a] = IF job[a] = "performing" THEN "orphaned" ELSE job[a]
         /\ open'[a] = IF session[a] \in {"ready", "broken"} THEN open[a] - 1 ELSE open[a]
<1>1. /\ session \in [Address -> {"none", "ready", "broken", "disconnecting"}]
      /\ open \in [Address -> Nat] /\ job \in [Address -> {"waiting", "performing", "orphaned"}]
      /\ session[a] \in {"ready", "broken"} => open[a] > 0
  BY DEF IInv, TypeOK, CountInv
<1>2. (IF session[a] \in {"ready", "broken"} THEN open[a] - 1 ELSE open[a]) \in Nat
  BY <1>1
<1> QED
  BY <1>1, <1>2 DEF Disconnect

LEMMA Installed ==
  ASSUME IInv, NEW a \in Address, Install(a)
  PROVE  /\ session' \in [Address -> {"none", "ready", "broken", "disconnecting"}]
         /\ open' \in [Address -> Nat]
         /\ \A b \in Address : b # a => session'[b] = session[b] /\ open'[b] = open[b]
         /\ session'[a] = "ready" /\ open'[a] = open[a] + 1
BY DEF IInv, TypeOK, Install

LEMMA DropStep == ASSUME IInv, NEW a \in Address, DropSession(a) PROVE IInv'
<1>1. /\ loop[a].at = "recovering" /\ loop[a] \in Loop /\ startup = "done"
      /\ job[a] = "waiting" /\ session[a] # "ready"
  BY DEF IInv, TypeOK, DropSession, At, StartInv, JobInv, Lost
<1>2. /\ UNCHANGED <<runOnce, startup, helperReady, stopRequested, result, queue, writes, closing, detaching>>
      /\ Disconnect(a)
  BY DEF DropSession, runVars, cleanupVars
<1>3. /\ loop' \in [Address -> Loop]
      /\ loop'[a].at = IF session[a] = "none" THEN "replacing" ELSE "dropping"
      /\ \A b \in Address : b # a => loop'[b] = loop[b]
  BY <1>1 DEF IInv, TypeOK, DropSession, Loop, Place
<1> USE <1>1, <1>2, <1>3, Disconnected
<1>4. TypeOK'
  BY DEF IInv, TypeOK
<1>5. StartInv'
  BY DEF IInv, StartInv
<1>6. JobInv'
  BY DEF IInv, JobInv, Lost, At
<1>7. CountInv'
  BY DEF IInv, CountInv
<1>8. NoneThrew' => NoneThrew /\ closing = "no" /\ detaching = {}
  BY DEF IInv, TypeOK, NoneThrew, At, CleanupInv
<1>9. LinkInv'
  <2> SUFFICES ASSUME NoneThrew', NEW b \in Address
               PROVE  /\ Counted(b)'
                      /\ At(b, {"dropping"})' => session'[b] = "disconnecting"
                      /\ At(b, {"replacing"})' => session'[b] = "none"
                      /\ detaching' # {b}
    BY <1>8 DEF LinkInv
  <2>1. /\ Counted(b) /\ detaching # {b}
        /\ At(b, {"dropping"}) => session[b] = "disconnecting"
        /\ At(b, {"replacing"}) => session[b] = "none"
    BY <1>8 DEF IInv, LinkInv
  <2>2. CASE b = a
    BY <2>1, <2>2 DEF Counted, At
  <2>3. CASE b # a
    BY <2>1, <2>3 DEF Counted, At
  <2> QED
    BY <2>2, <2>3
<1>10. CleanupInv'
  BY <1>8 DEF IInv, CleanupInv, At
<1> QED
  BY <1>4, <1>5, <1>6, <1>7, <1>9, <1>10 DEF IInv

LEMMA DroppedStep == ASSUME IInv, NEW a \in Address, SessionDropped(a) PROVE IInv'
<1>1. /\ loop[a].at = "dropping" /\ loop[a] \in Loop /\ startup = "done"
      /\ job[a] = "waiting" /\ session[a] # "ready"
  BY DEF IInv, TypeOK, SessionDropped, At, StartInv, JobInv, Lost
<1>2. /\ UNCHANGED <<runOnce, startup, helperReady, stopRequested, result, queue, job, writes, open, closing, detaching>>
      /\ session' \in [Address -> {"none", "ready", "broken", "disconnecting"}]
      /\ session'[a] = "none" /\ \A b \in Address : b # a => session'[b] = session[b]
  BY DEF IInv, TypeOK, SessionDropped, runVars, jobVars, cleanupVars
<1>3. /\ loop' \in [Address -> Loop] /\ loop'[a].at = "replacing"
      /\ \A b \in Address : b # a => loop'[b] = loop[b]
  BY <1>1 DEF IInv, TypeOK, SessionDropped, Loop, Place
<1> USE <1>1, <1>2, <1>3
<1>4. TypeOK'
  BY DEF IInv, TypeOK
<1>5. StartInv'
  BY DEF IInv, StartInv
<1>6. JobInv'
  BY DEF IInv, JobInv, Lost, At
<1>7. CountInv'
  BY DEF IInv, CountInv
<1>8. NoneThrew' => NoneThrew /\ closing = "no" /\ detaching = {}
  BY DEF IInv, TypeOK, NoneThrew, At, CleanupInv
<1>9. LinkInv'
  <2> SUFFICES ASSUME NoneThrew', NEW b \in Address
               PROVE  /\ Counted(b)'
                      /\ At(b, {"dropping"})' => session'[b] = "disconnecting"
                      /\ At(b, {"replacing"})' => session'[b] = "none"
                      /\ detaching' # {b}
    BY <1>8 DEF LinkInv
  <2>1. /\ Counted(b) /\ detaching # {b}
        /\ At(b, {"dropping"}) => session[b] = "disconnecting"
        /\ At(b, {"replacing"}) => session[b] = "none"
    BY <1>8 DEF IInv, LinkInv
  <2>2. CASE b = a
    BY <2>1, <2>2 DEF Counted, At
  <2>3. CASE b # a
    BY <2>1, <2>3 DEF Counted, At
  <2> QED
    BY <2>2, <2>3
<1>10. CleanupInv'
  BY <1>8 DEF IInv, CleanupInv, At
<1> QED
  BY <1>4, <1>5, <1>6, <1>7, <1>9, <1>10 DEF IInv

LEMMA ReplaceStep == ASSUME IInv, NEW a \in Address, ReplaceSession(a) PROVE IInv'
<1>1. /\ loop[a].at = "replacing" /\ loop[a] \in Loop /\ startup = "done"
      /\ job[a] = "waiting" /\ open[a] \in Nat
  BY DEF IInv, TypeOK, ReplaceSession, At, StartInv, JobInv, Lost
<1>2. /\ UNCHANGED <<runOnce, startup, helperReady, stopRequested, result, queue, job, writes, closing, detaching>>
      /\ Install(a)
  BY DEF ReplaceSession, runVars, jobVars, cleanupVars
<1>3. /\ loop' \in [Address -> Loop] /\ loop'[a].at = "top"
      /\ \A b \in Address : b # a => loop'[b] = loop[b]
  BY <1>1 DEF IInv, TypeOK, ReplaceSession, Loop, Place
<1> USE <1>1, <1>2, <1>3, Installed
<1>4. TypeOK'
  BY DEF IInv, TypeOK
<1>5. StartInv'
  BY DEF IInv, StartInv
<1>6. JobInv'
  BY DEF IInv, JobInv, Lost, At
<1>7. CountInv'
  BY DEF IInv, CountInv
<1>8. NoneThrew' => NoneThrew /\ closing = "no" /\ detaching = {}
  BY DEF IInv, TypeOK, NoneThrew, At, CleanupInv
<1>9. LinkInv'
  <2> SUFFICES ASSUME NoneThrew', NEW b \in Address
               PROVE  /\ Counted(b)'
                      /\ At(b, {"dropping"})' => session'[b] = "disconnecting"
                      /\ At(b, {"replacing"})' => session'[b] = "none"
                      /\ detaching' # {b}
    BY <1>8 DEF LinkInv
  <2>1. /\ Counted(b) /\ detaching # {b}
        /\ At(b, {"dropping"}) => session[b] = "disconnecting"
        /\ At(b, {"replacing"}) => session[b] = "none"
    BY <1>8 DEF IInv, LinkInv
  <2>2. CASE b = a
    BY <2>1, <2>2 DEF Counted, At
  <2>3. CASE b # a
    BY <2>1, <2>3 DEF Counted, At
  <2> QED
    BY <2>2, <2>3
<1>10. CleanupInv'
  BY <1>8 DEF IInv, CleanupInv, At
<1> QED
  BY <1>4, <1>5, <1>6, <1>7, <1>9, <1>10 DEF IInv

LEMMA ConnectOneStep == ASSUME IInv, NEW a \in Address, ConnectOne(a) PROVE IInv'
<1>1. /\ startup = "connecting" /\ session[a] = "none" /\ Install(a)
      /\ UNCHANGED <<runOnce, startup, helperReady, stopRequested, loop, result, queue, job, writes, closing, detaching>>
  BY DEF ConnectOne, runVars, jobVars, cleanupVars
<1>2. \A b \in Address : loop[b].at = "off" /\ queue[b] = <<>> /\ job[b] = "waiting"
  BY <1>1 DEF IInv, StartInv
<1>3. closing = "no" /\ detaching = {} /\ open[a] \in Nat
  BY <1>1 DEF IInv, TypeOK, CleanupInv
<1> USE <1>1, <1>2, <1>3, Installed
<1>4. TypeOK'
  BY DEF IInv, TypeOK
<1>5. StartInv'
  BY DEF StartInv
<1>6. JobInv'
  BY DEF JobInv, Lost, At
<1>7. CountInv'
  BY DEF IInv, CountInv
<1>8. LinkInv'
  <2>1. NoneThrew
    BY DEF NoneThrew, At
  <2>2. \A b \in Address : Counted(b)'
    <3> SUFFICES ASSUME NEW b \in Address PROVE Counted(b)'
      OBVIOUS
    <3>1. Counted(b)
      BY <2>1 DEF IInv, LinkInv
    <3>2. CASE b = a
      BY <3>1, <3>2 DEF Counted
    <3>3. CASE b # a
      BY <3>1, <3>3 DEF Counted
    <3> QED
      BY <3>2, <3>3
  <2> QED
    BY <2>2 DEF LinkInv, At
<1>9. CleanupInv'
  BY DEF CleanupInv
<1> QED
  BY <1>4, <1>5, <1>6, <1>7, <1>8, <1>9 DEF IInv

LEMMA StartupStep ==
  ASSUME IInv, Run \/ HelperReady \/ Stop \/ ConnectFails \/ RetryConnect
  PROVE  IInv'
<1>1. /\ UNCHANGED <<runOnce, loop, result, queue, job, writes, session, open, closing, detaching>>
      /\ helperReady' \in BOOLEAN /\ stopRequested' \in BOOLEAN
  BY DEF IInv, TypeOK, Run, HelperReady, Stop, ConnectFails, RetryConnect, jobVars, linkVars, cleanupVars
<1>2. /\ startup' \in {"idle", "connecting", "retrying", "done", "failed", "stopped"}
      /\ startup' = startup \/ (startup \in {"idle", "connecting", "retrying"} /\ startup' # "done")
  BY DEF IInv, TypeOK, Run, HelperReady, Stop, ConnectFails, RetryConnect
<1>3. TypeOK'
  BY <1>1, <1>2 DEF IInv, TypeOK
<1>4. StartInv' /\ JobInv' /\ CountInv' /\ LinkInv'
  BY <1>1, <1>2 DEF IInv, StartInv, JobInv, Lost, CountInv, LinkInv, NoneThrew, Counted, At
<1>5. CleanupInv'
  BY <1>1, <1>2 DEF IInv, CleanupInv, NoneThrew, At
<1> QED
  BY <1>3, <1>4, <1>5 DEF IInv

LEMMA StartLoopsStep == ASSUME IInv, StartLoops PROVE IInv'
<1>1. /\ startup = "connecting"
      /\ UNCHANGED <<runOnce, helperReady, stopRequested, result, queue, job, writes, session, open, closing, detaching>>
      /\ \/ startup' = "done" /\ loop' = [a \in Address |-> Between("top")]
         \/ startup' = "failed" /\ loop' = loop
  BY DEF StartLoops, jobVars, linkVars, cleanupVars
<1>2. \A b \in Address : loop[b].at = "off" /\ queue[b] = <<>> /\ job[b] = "waiting"
  BY <1>1 DEF IInv, StartInv
<1>3. closing = "no" /\ detaching = {}
  BY <1>1 DEF IInv, TypeOK, CleanupInv
<1>4. loop' \in [Address -> Loop] /\ \A b \in Address : loop'[b].at \in {"off", "top"}
  BY <1>1, <1>2, BetweenPlace DEF IInv, TypeOK, Place
<1>5. TypeOK'
  BY <1>1, <1>4 DEF IInv, TypeOK
<1>6. StartInv'
  BY <1>1, <1>2 DEF StartInv
<1>7. JobInv' /\ CountInv'
  BY <1>1, <1>2, <1>4 DEF IInv, JobInv, Lost, CountInv, At
<1>8. LinkInv'
  <2>1. NoneThrew
    BY <1>2 DEF NoneThrew, At
  <2> QED
    BY <1>1, <1>3, <1>4, <2>1 DEF IInv, LinkInv, Counted, At
<1>9. CleanupInv'
  BY <1>1, <1>3 DEF CleanupInv
<1> QED
  BY <1>5, <1>6, <1>7, <1>8, <1>9 DEF IInv

LEMMA WriteStep == ASSUME IInv, NEW a \in Address, Write(a) PROVE IInv'
<1>1. /\ startup = "done"
      /\ UNCHANGED <<runOnce, startup, helperReady, stopRequested, loop, result, job, session, open, closing, detaching>>
  BY DEF Write, runVars, linkVars, cleanupVars
<1>2. /\ queue' \in [Address -> Seq({"loop", "write"})]
      /\ \A b \in Address : queue[b] # <<>> => queue'[b] # <<>>
  <2>1. queue[a] \in Seq({"loop", "write"}) /\ queue \in [Address -> Seq({"loop", "write"})]
    BY DEF IInv, TypeOK
  <2>2. Append(queue[a], "write") \in Seq({"loop", "write"}) /\ Append(queue[a], "write") # <<>>
    BY <2>1
  <2> QED
    BY <2>1, <2>2 DEF Write
<1>3. writes' \in 0 .. MaxWrites
  BY HandlerAssumption DEF IInv, TypeOK, Write
<1>4. TypeOK'
  BY <1>1, <1>2, <1>3 DEF IInv, TypeOK
<1>5. StartInv' /\ JobInv' /\ CountInv' /\ LinkInv'
  BY <1>1, <1>2 DEF IInv, StartInv, JobInv, Lost, CountInv, LinkInv, NoneThrew, Counted, At
<1>6. CleanupInv'
  BY <1>1 DEF IInv, CleanupInv, NoneThrew, At
<1> QED
  BY <1>4, <1>5, <1>6 DEF IInv

LEMMA StartJobStep == ASSUME IInv, NEW a \in Address, StartJob(a) PROVE IInv'
<1>1. /\ queue[a] # <<>> /\ session[a] = "ready"
      /\ UNCHANGED <<runOnce, startup, helperReady, stopRequested, loop, result, queue, writes, session, open,
                     closing, detaching>>
      /\ job' \in [Address -> {"waiting", "performing", "orphaned"}]
      /\ job'[a] = "performing" /\ \A b \in Address : b # a => job'[b] = job[b]
  BY DEF IInv, TypeOK, StartJob, runVars, linkVars, cleanupVars
<1>2. TypeOK'
  BY <1>1 DEF IInv, TypeOK
<1>3. StartInv' /\ CountInv' /\ LinkInv'
  BY <1>1 DEF IInv, StartInv, CountInv, LinkInv, NoneThrew, Counted, At
<1>4. JobInv'
  BY <1>1 DEF IInv, JobInv, Lost, At
<1>5. CleanupInv'
  BY <1>1 DEF IInv, CleanupInv, NoneThrew, At
<1> QED
  BY <1>2, <1>3, <1>4, <1>5 DEF IInv

\* The end of a job whose session can take no more commands if it lost the connection.
LEMMA CompleteStep ==
  ASSUME IInv, NEW a \in Address, queue[a] # <<>>,
         NEW r \in CommandResult \cup {"thrown"}, CompleteJob(a, r),
         session' \in [Address -> {"none", "ready", "broken", "disconnecting"}],
         \A b \in Address : b # a => session'[b] = session[b],
         session'[a] = session[a] \/ (session[a] = "ready" /\ session'[a] = "broken"),
         r = "connection_error" => session'[a] # "ready"
  PROVE  IInv'
<1>1. /\ UNCHANGED <<runOnce, startup, helperReady, stopRequested, loop, writes, open, closing, detaching>>
      /\ job' \in [Address -> {"waiting", "performing", "orphaned"}]
      /\ job'[a] = "waiting" /\ \A b \in Address : b # a => job'[b] = job[b]
  BY DEF IInv, TypeOK, CompleteJob, runVars, cleanupVars
<1>2. /\ result' \in [Address -> CommandResult \cup {"none", "thrown"}]
      /\ result'[a] \in {r, result[a]} /\ \A b \in Address : b # a => result'[b] = result[b]
  BY DEF IInv, TypeOK, CompleteJob
<1>3. /\ queue' \in [Address -> Seq({"loop", "write"})]
      /\ \A b \in Address : b # a => queue'[b] = queue[b]
  <2>1. queue \in [Address -> Seq({"loop", "write"})]
    BY DEF IInv, TypeOK
  <2>2. Tail(queue[a]) \in Seq({"loop", "write"})
    BY <2>1
  <2> QED
    BY <2>1, <2>2 DEF CompleteJob
<1>4. startup = "done"
  BY DEF IInv, StartInv
<1>5. TypeOK'
  BY <1>1, <1>2, <1>3 DEF IInv, TypeOK
<1>6. StartInv'
  BY <1>1, <1>4 DEF StartInv
<1>7. JobInv'
  <2>1. \A b \in Address : b # a => (Lost(b)' <=> Lost(b))
    BY <1>1, <1>2 DEF Lost, At
  <2>2. Lost(a)' => Lost(a) \/ r = "connection_error"
    BY <1>1, <1>2 DEF Lost, At
  <2> QED
    BY <1>1, <1>3, <2>1, <2>2 DEF IInv, JobInv
<1>8. CountInv'
  BY <1>1 DEF IInv, CountInv
<1>9. LinkInv'
  BY <1>1 DEF IInv, LinkInv, NoneThrew, Counted, At
<1>10. CleanupInv'
  BY <1>1 DEF IInv, CleanupInv, NoneThrew, At
<1> QED
  BY <1>5, <1>6, <1>7, <1>8, <1>9, <1>10 DEF IInv

LEMMA JobEndStep ==
  ASSUME IInv, NEW a \in Address, RefuseJob(a) \/ FinishJob(a) \/ FinishOrphan(a)
  PROVE  IInv'
<1>1. /\ session \in [Address -> {"none", "ready", "broken", "disconnecting"}]
      /\ job[a] # "waiting" => queue[a] # <<>>
      /\ job[a] = "orphaned" => session[a] # "ready"
      /\ \A r \in {"ok", "expected_error", "busy", "connection_error"} : r \in CommandResult
  BY DEF IInv, TypeOK, JobInv, CommandResult
<1>2. CASE RefuseJob(a)
  <2>1. PICK r \in {"connection_error", "thrown"} : CompleteJob(a, r)
    BY <1>2 DEF RefuseJob
  <2>2. queue[a] # <<>> /\ session[a] # "ready" /\ session' = session
    BY <1>2 DEF RefuseJob
  <2> QED
    BY <1>1, <2>1, <2>2, CompleteStep
<1>3. CASE FinishJob(a)
  <2>1. PICK r \in CommandResult \cup {"thrown"}, s \in {"ready", "broken"} :
          /\ r = "connection_error" => s = "broken"
          /\ CompleteJob(a, r)
          /\ session' = [session EXCEPT ![a] = IF @ = "ready" THEN s ELSE @]
    BY <1>3 DEF FinishJob
  <2>2. queue[a] # <<>>
    BY <1>1, <1>3 DEF FinishJob
  <2>3. /\ session' \in [Address -> {"none", "ready", "broken", "disconnecting"}]
        /\ \A b \in Address : b # a => session'[b] = session[b]
        /\ session'[a] = IF session[a] = "ready" THEN s ELSE session[a]
    BY <1>1, <2>1
  <2> QED
    BY <2>1, <2>2, <2>3, CompleteStep
<1>4. CASE FinishOrphan(a)
  <2>1. PICK r \in {"ok", "connection_error", "thrown"} : CompleteJob(a, r)
    BY <1>4 DEF FinishOrphan
  <2>2. queue[a] # <<>> /\ session[a] # "ready" /\ session' = session
    BY <1>1, <1>4 DEF FinishOrphan
  <2> QED
    BY <1>1, <2>1, <2>2, CompleteStep
<1> QED
  BY <1>2, <1>3, <1>4

LEMMA BeginOrEndStep == ASSUME IInv, BeginCleanup \/ CleanedUp PROVE IInv'
<1>1. UNCHANGED <<runOnce, startup, helperReady, stopRequested, loop, result, queue, job, writes, session, open, detaching>>
  BY DEF BeginCleanup, CleanedUp, runVars, jobVars, linkVars
<1>2. TypeOK'
  BY <1>1 DEF IInv, TypeOK, BeginCleanup, CleanedUp
<1>3. StartInv' /\ JobInv' /\ CountInv' /\ LinkInv'
  BY <1>1 DEF IInv, StartInv, JobInv, Lost, CountInv, LinkInv, NoneThrew, Counted, At
<1>4. CleanupInv'
  <2>1. NoneThrew' => NoneThrew
    BY <1>1 DEF NoneThrew, At
  <2>2. CASE BeginCleanup
    BY <1>1, <2>1, <2>2 DEF IInv, CleanupInv, BeginCleanup, RunSettled, NoneThrew, At
  <2>3. CASE CleanedUp
    BY <1>1, <2>1, <2>3 DEF IInv, CleanupInv, CleanedUp, NoneThrew, At
  <2> QED
    BY <2>2, <2>3
<1> QED
  BY <1>2, <1>3, <1>4 DEF IInv

LEMMA CloseSessionStep == ASSUME IInv, NEW a \in Address, CloseSession(a) PROVE IInv'
<1>1. /\ closing = "closing" /\ detaching = {} /\ session[a] # "none" /\ Disconnect(a)
      /\ detaching' = {a}
      /\ UNCHANGED <<runOnce, startup, helperReady, stopRequested, loop, result, queue, writes, closing>>
  BY DEF CloseSession, runVars
<1> USE <1>1, Disconnected
<1>2. TypeOK'
  BY DEF IInv, TypeOK
<1>3. StartInv'
  BY DEF IInv, StartInv
<1>4. JobInv'
  BY DEF IInv, JobInv, Lost, At
<1>5. CountInv'
  BY DEF IInv, CountInv
<1>6. LinkInv'
  <2> SUFFICES ASSUME NoneThrew', NEW b \in Address
               PROVE  /\ Counted(b)'
                      /\ At(b, {"dropping"})' => session'[b] = "disconnecting"
                      /\ At(b, {"replacing"})' => session'[b] = "none"
                      /\ detaching' = {b} => session'[b] = "disconnecting"
    BY DEF LinkInv
  <2>1. /\ Counted(b)
        /\ At(b, {"dropping"}) => session[b] = "disconnecting"
        /\ At(b, {"replacing"}) => session[b] = "none"
    BY DEF IInv, LinkInv, NoneThrew, At
  <2>2. session[a] \in {"none", "ready", "broken", "disconnecting"} /\ open[a] \in Nat
    BY DEF IInv, TypeOK
  <2>3. CASE b = a
    BY <2>1, <2>2, <2>3 DEF Counted, At
  <2>4. CASE b # a
    BY <2>1, <2>4 DEF Counted, At
  <2> QED
    BY <2>3, <2>4
<1>7. CleanupInv'
  BY DEF IInv, CleanupInv, NoneThrew, At
<1> QED
  BY <1>2, <1>3, <1>4, <1>5, <1>6, <1>7 DEF IInv

LEMMA SessionClosedStep == ASSUME IInv, NEW a \in Address, SessionClosed(a) PROVE IInv'
<1>1. /\ detaching = {a} /\ detaching' = {}
      /\ UNCHANGED <<runOnce, startup, helperReady, stopRequested, loop, result, queue, job, writes, open, closing>>
      /\ session' \in [Address -> {"none", "ready", "broken", "disconnecting"}]
      /\ session'[a] = "none" /\ \A b \in Address : b # a => session'[b] = session[b]
  BY DEF IInv, TypeOK, SessionClosed, runVars, jobVars
<1>2. closing = "closing"
  BY <1>1 DEF IInv, CleanupInv
<1> USE <1>1, <1>2
<1>3. TypeOK'
  BY DEF IInv, TypeOK
<1>4. StartInv'
  BY DEF IInv, StartInv
<1>5. JobInv'
  BY DEF IInv, JobInv, Lost, At
<1>6. CountInv'
  BY DEF IInv, CountInv
<1>7. LinkInv'
  <2> SUFFICES ASSUME NoneThrew', NEW b \in Address
               PROVE  /\ Counted(b)'
                      /\ At(b, {"dropping"})' => session'[b] = "disconnecting"
                      /\ At(b, {"replacing"})' => session'[b] = "none"
    BY DEF LinkInv
  <2>1. /\ Counted(b) /\ (detaching = {b} => session[b] = "disconnecting")
        /\ At(b, {"dropping"}) => session[b] = "disconnecting"
        /\ At(b, {"replacing"}) => session[b] = "none"
    BY DEF IInv, LinkInv, NoneThrew, At
  <2>2. ~At(b, {"dropping"})
    BY DEF IInv, CleanupInv, StartInv, NoneThrew, At
  <2>3. CASE b = a
    BY <2>1, <2>2, <2>3 DEF Counted, At
  <2>4. CASE b # a
    BY <2>1, <2>4 DEF Counted, At
  <2> QED
    BY <2>3, <2>4
<1>8. CleanupInv'
  BY DEF IInv, CleanupInv, NoneThrew, At
<1> QED
  BY <1>3, <1>4, <1>5, <1>6, <1>7, <1>8 DEF IInv

LEMMA NextIInv == ASSUME IInv, [Next]_vars PROVE IInv'
<1>1. CASE Run \/ HelperReady \/ Stop
  BY <1>1, StartupStep
<1>2. CASE Startup
  BY <1>2, ConnectOneStep, StartupStep, StartLoopsStep DEF Startup
<1>3. CASE Cleanup
  BY <1>3, BeginOrEndStep, CloseSessionStep, SessionClosedStep DEF Cleanup
<1>4. ASSUME NEW a \in Address, LoopStep(a) PROVE IInv'
  <2>1. CASE DropSession(a) \/ SessionDropped(a) \/ ReplaceSession(a)
    BY <2>1, DropStep, DroppedStep, ReplaceStep
  <2>2. CASE ~(DropSession(a) \/ SessionDropped(a) \/ ReplaceSession(a))
    <3>1. Moves(a)
      BY <1>4, <2>2, LoopMoves DEF LoopStep, IInv
    <3> QED
      BY <3>1, MovesStep
  <2> QED
    BY <2>1, <2>2
<1>5. ASSUME NEW a \in Address, Write(a) \/ JobStep(a) \/ FinishOrphan(a) PROVE IInv'
  BY <1>5, WriteStep, StartJobStep, JobEndStep DEF JobStep
<1>6. CASE UNCHANGED vars
  <2>1. /\ UNCHANGED <<runOnce, startup, helperReady, stopRequested, loop, result, queue, job, writes>>
        /\ UNCHANGED <<session, open, closing, detaching>>
    BY <1>6 DEF vars, runVars, jobVars, linkVars, cleanupVars
  <2> QED
    BY <2>1 DEF IInv, TypeOK, StartInv, JobInv, Lost, CountInv, LinkInv, CleanupInv, NoneThrew, Counted, At
<1> QED
  BY <1>1, <1>2, <1>3, <1>4, <1>5, <1>6 DEF Next
-----------------------------------------------------------------------------
\* A lost loop has no command in flight, and connections are counted, however loops,
\* writes and the cleanup interleave (device-connection.ts, manager.ts, server.ts).
THEOREM Invariance == Spec => []IInv
<1>1. Init => IInv
  BY InitIInv
<1>2. IInv /\ [Next]_vars => IInv'
  BY NextIInv
<1> QED
  BY <1>1, <1>2, PTL DEF Spec

\* Loops, queues, sessions and the cleanup stay in their types: among others, no job
\* ends that was not queued, and no connection is closed that is not open.
THEOREM TypeCorrect == Spec => []TypeOK
<1>1. IInv => TypeOK
  BY DEF IInv
<1> QED
  BY <1>1, Invariance, PTL

\* manager.reconnect never disconnects a session under a command, also when a loop has
\* thrown and the cleanup runs beside the others: the error that sends a loop there has
\* left the session unusable, and commands of a device take turns.
THEOREM ReconnectIsQuiet == Spec => []ReconnectDropsNoCommand
<1>1. IInv => ReconnectDropsNoCommand
  BY DEF IInv, JobInv, Lost, At, ReconnectDropsNoCommand
<1> QED
  BY <1>1, Invariance, PTL

\* A device has one connection at most, and none after the cleanup, as long as no loop
\* threw: who disconnects a session (manager.ts) also forgets it before it is replaced.
THEOREM OneConnection == Spec => []OneConnectionPerDevice
<1>1. IInv => OneConnectionPerDevice
  BY DEF IInv, LinkInv, CleanupInv, NoneThrew, Counted, OneConnectionPerDevice
<1> QED
  BY <1>1, Invariance, PTL
-----------------------------------------------------------------------------
(* After a stop.                                                           *)

Begins(at) == at \in {"reading", "selecting", "recovering"}

LEMMA WentTo ==
  ASSUME TypeOK, NEW a \in Address, NEW place, GoTo(a, place)
  PROVE  loop'[a] = place
BY DEF TypeOK, GoTo

LEMMA ExitBeginsNothing ==
  ASSUME TypeOK, NEW a \in Address, stopRequested, NEW p,
         Exit(a) \/ EndCycle(a) \/ PackStep(a, p) \/ Recover(a)
  PROVE  ~Begins(loop'[a].at)
<1>1. GoTo(a, Between("exited"))
  BY DEF Exit, EndCycle, PackStep, Recover
<1>2. loop'[a].at = "exited"
  BY <1>1, WentTo, BetweenPlace DEF Place, Ended
<1> QED
  BY <1>2 DEF Begins

LEMMA StoppedLoop ==
  ASSUME TypeOK, NEW a \in Address, stopRequested, LoopStep(a)
  PROVE  /\ Begins(loop'[a].at) => loop'[a].at = loop[a].at
         /\ \A b \in Address : b # a => loop'[b] = loop[b]
<1>1. loop[a] \in Loop /\ loop \in [Address -> Loop]
  BY DEF TypeOK
<1>2. \A b \in Address : b # a => loop'[b] = loop[b]
  <2>1. CASE DropSession(a) \/ SessionDropped(a) \/ ReplaceSession(a)
    BY <1>1, <2>1 DEF DropSession, SessionDropped, ReplaceSession
  <2>2. CASE Moves(a)
    BY <1>1, <2>2 DEF Moves, GoTo, Submit
  <2> QED
    BY <2>1, <2>2, LoopMoves DEF LoopStep
<1>3. ASSUME NEW at \in Place, GoTo(a, Between(at)), ~Begins(at) PROVE ~Begins(loop'[a].at)
  BY <1>3, WentTo, BetweenPlace
<1>4. {"top", "sleeping", "due", "exited", "threw", "retrying"} \subseteq Place
  BY DEF Place, Ended
<1>5. CASE StopLoop(a) \/ SleepUntilDue(a) \/ Wake(a) \/ StartCycle(a)
  <2>1. GoTo(a, Between("exited")) \/ GoTo(a, Between("due"))
    BY <1>5 DEF StopLoop, SleepUntilDue, Wake, StartCycle, Exit
  <2> QED
    BY <1>2, <1>3, <1>4, <2>1 DEF Begins
<1>6. CASE JobThrew(a) \/ ReplaceFails(a)
  <2>1. GoTo(a, Between("threw")) \/ GoTo(a, Between("retrying"))
    BY <1>6 DEF JobThrew, ReplaceFails
  <2> QED
    BY <1>2, <1>3, <1>4, <2>1 DEF Begins
<1>7. CASE JobBusy(a) \/ ConnectionLost(a) \/ PackReadLost(a) \/ RetryRecovery(a)
  <2>1. Exit(a) \/ EndCycle(a) \/ Recover(a) \/ PackStep(a, loop[a].pack + 1)
    BY <1>7 DEF JobBusy, ConnectionLost, PackReadLost, RetryRecovery
  <2> QED
    BY <1>2, <2>1, ExitBeginsNothing
<1>8. CASE ReadDone(a)
  <2>1. loop[a].set \in {"fast", "full", "pack"}
    BY <1>1 DEF Loop
  <2>2. CASE GoTo(a, [loop[a] EXCEPT !.at = "pausing", !.left = @ - 1])
    BY <1>1, <1>2, <2>2, WentTo DEF Loop, Begins
  <2>3. CASE EndCycle(a) \/ PackStep(a, 1) \/ PackStep(a, loop[a].pack + 1)
    BY <1>2, <2>3, ExitBeginsNothing
  <2> QED
    BY <1>8, <2>1, <2>2, <2>3 DEF ReadDone
<1>9. CASE PackSelected(a)
  <2>1. CASE GoTo(a, [loop[a] EXCEPT !.at = "settling"])
    BY <1>1, <1>2, <2>1, WentTo DEF Loop, Begins
  <2>2. CASE PackStep(a, loop[a].pack + 1)
    BY <1>2, <2>2, ExitBeginsNothing
  <2> QED
    BY <1>9, <2>1, <2>2 DEF PackSelected
<1>10. CASE ContinueSet(a)
  BY <1>2, <1>10, ExitBeginsNothing DEF ContinueSet
<1>11. CASE DropSession(a) \/ SessionDropped(a) \/ ReplaceSession(a)
  <2>1. loop'[a].at \in {"dropping", "replacing", "top"}
    BY <1>1, <1>11 DEF DropSession, SessionDropped, ReplaceSession, Loop
  <2> QED
    BY <1>2, <2>1 DEF Begins
<1> QED
  BY <1>5, <1>6, <1>7, <1>8, <1>9, <1>10, <1>11 DEF LoopStep

\* Once the stop flag is set (device-queue.ts), no loop enqueues a job or begins to
\* reconnect: each wait of device-handler.ts is followed by a look at the flag.
THEOREM StopIsFinal == Spec => StopStartsNothing
<1> DEFINE Quiet == stopRequested => \A a \in Address :
                      /\ ~At(a, {"reading"}) => loop'[a].at # "reading"
                      /\ ~At(a, {"selecting"}) => loop'[a].at # "selecting"
                      /\ ~At(a, {"recovering"}) => loop'[a].at # "recovering"
<1>1. ASSUME TypeOK, Next PROVE Quiet
  <2>1. ASSUME NEW b \in Address, LoopStep(b), stopRequested PROVE Quiet
    BY <1>1, <2>1, StoppedLoop DEF Begins, At
  <2>2. CASE StartLoops
    <3>1. loop' = loop \/ \A a \in Address : loop'[a].at = "top"
      BY <2>2, BetweenPlace DEF StartLoops, Place
    <3> QED
      BY <3>1 DEF At
  <2>3. CASE loop' = loop
    BY <2>3 DEF At
  <2>4. CASE \E b \in Address : ConnectOne(b) \/ Write(b) \/ JobStep(b) \/ FinishOrphan(b)
    <3>1. loop' = loop
      BY <2>4 DEF ConnectOne, Write, JobStep, StartJob, RefuseJob, FinishJob, FinishOrphan, CompleteJob
    <3> QED
      BY <2>3, <3>1
  <2>5. CASE Run \/ HelperReady \/ Stop \/ ConnectFails \/ RetryConnect \/ Cleanup
    <3>1. loop' = loop
      BY <2>5 DEF Run, HelperReady, Stop, ConnectFails, RetryConnect, Cleanup, BeginCleanup,
                  CleanedUp, CloseSession, SessionClosed
    <3> QED
      BY <2>3, <3>1
  <2> QED
    BY <1>1, <2>1, <2>2, <2>4, <2>5 DEF Next, Startup
<1>2. TypeOK /\ [Next]_vars => [Quiet]_vars
  BY <1>1
<1> QED
  BY <1>2, TypeCorrect, PTL DEF Spec, StopStartsNothing
=============================================================================
