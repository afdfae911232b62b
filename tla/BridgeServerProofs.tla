------------------------- MODULE BridgeServerProofs -------------------------
(***************************************************************************)
(* Proofs about the process of the bridge as a whole, from its command     *)
(* line to its end, for every set of devices and every command line.  What *)
(* may be left behind at the end depends on what main() has got to, and on *)
(* whether a loop has thrown, after which the others are not waited for.   *)
(* What it runs with is read off the words that the scanner has taken.     *)
(***************************************************************************)
EXTENDS BridgeProgram, SequenceTheorems, TLAPS

Listening == parserListener /\ messageListener
Silent == ~parserListener /\ ~messageListener

\* What the bridge holds in each phase of main().
PhaseInv ==
  /\ main = "connecting" => client = "none" /\ ~rawClient /\ Silent
  /\ main = "subscribing" => client = "open" /\ rawClient /\ Silent
  /\ main \in {"starting", "polling", "disconnecting"} => client = "open" /\ rawClient /\ Listening
  /\ main \in {"failing", "closing"} => client = "ending" /\ ~rawClient /\ Silent
  /\ main = "over" => client \in {"none", "ended"} /\ ~rawClient /\ Silent /\ helper = "disposed"

\* Nothing is polled before the handler has started.
BeforeInv ==
  main \in {"connecting", "subscribing", "starting", "failing"} =>
    session = {} /\ \A d \in Device : loop[d] = "off"

\* The run that ends without an exception has waited for every loop.
AfterInv ==
  main \in {"disconnecting", "closing", "over"} /\ ~Threw =>
    \A d \in Device : loop[d] \in {"off", "returned"}

ClosedInv == main \in {"closing", "over"} /\ ~Threw => session = {}

\* A job that uses the session still has it.
HeldInv ==
  main = "polling" => \A d \in Device : loop[d] \in {"reading", "publishing"} => d \in session

LeftInv == \A d \in Device : loop[d] = "publishing" => left[d] > 0

IInv ==
  /\ TypeOK
  /\ LeftInv
  /\ PhaseInv
  /\ BeforeInv
  /\ AfterInv
  /\ ClosedInv
  /\ HeldInv
  /\ OneJobPerDevice
-----------------------------------------------------------------------------
LEMMA InitIInv == Init => IInv
<1> SUFFICES ASSUME Init PROVE IInv
  OBVIOUS
<1>1. TypeOK
  <2>1. runOnce \in BOOLEAN /\ signalled \in BOOLEAN /\ stopRequested \in BOOLEAN
    BY ServerAssumption DEF ServerAssumption, Init
  <2>2. rawClient \in BOOLEAN /\ parserListener \in BOOLEAN /\ messageListener \in BOOLEAN
    BY DEF Init
  <2>3. left \in [Device -> 0 .. Fields]
    BY ServerAssumption DEF ServerAssumption, Init
  <2> QED BY <2>1, <2>2, <2>3 DEF Init, TypeOK
<1>2. LeftInv /\ OneJobPerDevice
  BY DEF Init, LeftInv, OneJobPerDevice
<1>3. PhaseInv
  BY DEF Init, PhaseInv, Silent
<1>4. BeforeInv /\ AfterInv /\ ClosedInv /\ HeldInv
  BY DEF Init, BeforeInv, AfterInv, ClosedInv, HeldInv
<1> QED
  BY <1>1, <1>2, <1>3, <1>4 DEF IInv

\* The actions outside of the loops and commands.
MainStep ==
  \/ BridgeStarts \/ ConnectFails \/ HelperStarts \/ HandlerStarts \/ Cleanup \/ Signal

\* The type of every variable, and of what is left to publish.
LEMMA StepTypeOK == TypeOK /\ LeftInv /\ Next => TypeOK' /\ LeftInv'
<1> SUFFICES ASSUME TypeOK, LeftInv, Next PROVE TypeOK' /\ LeftInv'
  OBVIOUS
<1> USE ServerAssumption DEF ServerAssumption, TypeOK, Ended, bridgeVars, signalVars, loopVars
<1>1. CASE MainStep
  <2>1. CASE Connect \/ Subscribed
    BY <2>1 DEF Connect, Subscribed, LeftInv
  <2>7. CASE ConnectFails
    BY <2>7 DEF ConnectFails, Finish, LeftInv
  <2>8. CASE \E offThrows \in BOOLEAN : SubscribeFails(offThrows)
    BY <2>8 DEF SubscribeFails, CleanupClient, LeftInv
  <2>2. CASE StartLoops
    BY <2>2 DEF StartLoops, LeftInv
  <2>3. CASE StartFails
    BY <2>3 DEF StartFails, LeftInv
  <2>4. CASE FailureReported
    BY <2>4 DEF FailureReported, Finish, LeftInv
  <2>9. CASE HandlerSettles
    BY <2>9 DEF HandlerSettles, LeftInv
  <2>10. CASE ClientEnded
    BY <2>10 DEF ClientEnded, Finish, LeftInv
  <2>11. CASE Signal
    BY <2>11 DEF Signal, LeftInv
  <2>12. CASE HelperStarts
    BY <2>12 DEF HelperStarts, LeftInv
  <2>5. CASE \E d \in Device : DisconnectDevice(d)
    <3>1. PICK d \in Device : DisconnectDevice(d)
      BY <2>5
    <3>2. LeftInv'
      BY <3>1 DEF DisconnectDevice, LeftInv
    <3>3. TypeOK'
      BY <3>1 DEF DisconnectDevice
    <3> QED BY <3>2, <3>3
  <2>6. CASE \E offThrows \in BOOLEAN : StopBridge(offThrows)
    BY <2>6 DEF StopBridge, CleanupClient, LeftInv
  <2> QED
    BY <1>1, <2>1, <2>2, <2>3, <2>4, <2>5, <2>6, <2>7, <2>8, <2>9, <2>10, <2>11, <2>12
      DEF MainStep, BridgeStarts, HandlerStarts, Cleanup
<1>2. ASSUME NEW d \in Device, LoopStep(d) PROVE TypeOK' /\ LeftInv'
  <2>1. CASE StopLoop(d) \/ Enqueue(d) \/ StartRead(d) \/ ReadNothing(d) \/ GiveUpRecovery(d)
    <3>1. PICK place \in {"returned", "queued", "reading", "threw", "idle"} : GoTo(d, place)
      BY <2>1 DEF StopLoop, Enqueue, StartRead, ReadNothing, GiveUpRecovery
    <3> QED BY <3>1 DEF GoTo, LoopFrame, LeftInv
  <2>2. CASE ConnectionLost(d)
    BY <2>2 DEF ConnectionLost, LoopFrame, LeftInv
  <2>3. CASE ReadDone(d)
    BY <2>3 DEF ReadDone, LoopFrame, LeftInv
  <2>4. CASE Published(d)
    <3>1. left[d] \in 1 .. Fields
      BY <2>4 DEF Published, LeftInv
    <3>2. TypeOK'
      BY <2>4, <3>1 DEF Published, LoopFrame
    <3>3. LeftInv'
      BY <2>4, <3>1 DEF Published, LoopFrame, LeftInv
    <3> QED BY <3>2, <3>3
  <2>5. CASE PublishFails(d)
    BY <2>5 DEF PublishFails, LoopFrame, LeftInv
  <2> QED BY <1>2, <2>1, <2>2, <2>3, <2>4, <2>5 DEF LoopStep
<1>3. ASSUME NEW d \in Device, Reconnected(d) PROVE TypeOK' /\ LeftInv'
  BY <1>3 DEF Reconnected, LoopFrame, LeftInv
<1>4. ASSUME NEW d \in Device, CommandStep(d) \/ BrokerDelivers(d) PROVE TypeOK' /\ LeftInv'
  BY <1>4 DEF CommandStep, StartCommand, FinishCommand, BrokerDelivers, CommandFrame, LeftInv
<1> QED BY <1>1, <1>2, <1>3, <1>4 DEF Next, MainStep

\* Reads, publications and commands leave main() and the bridge alone.
LoopOrCommand(d) == LoopStep(d) \/ Reconnected(d) \/ CommandStep(d) \/ BrokerDelivers(d)

LEMMA LoopsLeaveMain ==
  ASSUME NEW d \in Device, LoopOrCommand(d)
  PROVE  UNCHANGED <<runOnce, main, bridgeVars, helper, signalVars>>
<1>1. CASE LoopStep(d)
  BY <1>1 DEF LoopStep, StopLoop, Enqueue, StartRead, ReadNothing, ConnectionLost, GiveUpRecovery,
    ReadDone, Published, PublishFails, GoTo, LoopFrame
<1>2. CASE Reconnected(d)
  BY <1>2 DEF Reconnected, LoopFrame
<1>3. CASE CommandStep(d) \/ BrokerDelivers(d)
  BY <1>3 DEF CommandStep, StartCommand, FinishCommand, BrokerDelivers, CommandFrame
<1> QED BY <1>1, <1>2, <1>3 DEF LoopOrCommand

\* What the bridge holds changes with main() only.
LEMMA StepPhase == TypeOK /\ PhaseInv /\ Next => PhaseInv'
<1> SUFFICES ASSUME TypeOK, PhaseInv, Next PROVE PhaseInv'
  OBVIOUS
<1> USE DEF PhaseInv, Silent, Listening, bridgeVars
<1>1. ASSUME NEW d \in Device, LoopOrCommand(d) PROVE PhaseInv'
  BY <1>1, LoopsLeaveMain
<1>2. CASE Connect
  BY <1>2 DEF Connect
<1>3. CASE ConnectFails
  BY <1>3 DEF ConnectFails, Finish
<1>4. CASE Subscribed
  BY <1>4 DEF Subscribed
<1>5. CASE \E offThrows \in BOOLEAN : SubscribeFails(offThrows)
  BY <1>5 DEF SubscribeFails, CleanupClient
<1>6. CASE HandlerStarts
  BY <1>6 DEF HandlerStarts, StartLoops, StartFails
<1>7. CASE FailureReported
  BY <1>7 DEF FailureReported, Finish
<1>8. CASE HandlerSettles
  BY <1>8 DEF HandlerSettles
<1>9. CASE \E d \in Device : DisconnectDevice(d)
  BY <1>9 DEF DisconnectDevice
<1>10. CASE \E offThrows \in BOOLEAN : StopBridge(offThrows)
  BY <1>10 DEF StopBridge, CleanupClient
<1>11. CASE ClientEnded
  BY <1>11 DEF ClientEnded, Finish
<1>12. CASE Signal
  BY <1>12 DEF Signal
<1>13. CASE HelperStarts
  BY <1>13 DEF HelperStarts
<1> QED
  BY <1>1, <1>2, <1>3, <1>4, <1>5, <1>6, <1>7, <1>8, <1>9, <1>10, <1>11, <1>12, <1>13
    DEF Next, LoopOrCommand, BridgeStarts, HandlerStarts, Cleanup

PollingInv == BeforeInv /\ AfterInv /\ ClosedInv /\ HeldInv

\* A loop that is over stays so: what has thrown has thrown for good, and after
\* a run without an exception no loop and no reconnection is left.
LEMMA LoopKeepsPolling ==
  ASSUME TypeOK, PollingInv, NEW d \in Device, LoopOrCommand(d)
  PROVE  PollingInv'
<1> USE DEF PollingInv, BeforeInv, AfterInv, ClosedInv, HeldInv, Threw, TypeOK
<1>1. main' = main
  BY LoopsLeaveMain
<1>2. CASE UNCHANGED <<loop, session>>
  BY <1>1, <1>2
<1>3. ASSUME NEW place \in {"returned", "queued", "reading", "threw", "idle"}, loop[d] \notin {"off"} \cup Ended,
             place = "reading" => d \in session, GoTo(d, place)
      PROVE  PollingInv'
  BY <1>1, <1>3 DEF GoTo, Ended
<1>4. CASE StopLoop(d) \/ Enqueue(d) \/ ReadNothing(d) \/ GiveUpRecovery(d)
  BY <1>3, <1>4 DEF StopLoop, Enqueue, ReadNothing, GiveUpRecovery, Ended
<1>5. CASE StartRead(d)
  BY <1>3, <1>5 DEF StartRead, Ended
<1>6. CASE ConnectionLost(d)
  BY <1>1, <1>6 DEF ConnectionLost, Ended
<1>7. CASE ReadDone(d)
  BY <1>1, <1>7 DEF ReadDone, Ended
<1>8. CASE Published(d)
  BY <1>1, <1>8 DEF Published, Ended
<1>9. CASE PublishFails(d)
  BY <1>1, <1>9 DEF PublishFails, Ended
<1>10. CASE Reconnected(d)
  BY <1>1, <1>10 DEF Reconnected, Ended
<1>11. CASE CommandStep(d) \/ BrokerDelivers(d)
  BY <1>2, <1>11 DEF CommandStep, StartCommand, FinishCommand, BrokerDelivers, CommandFrame, loopVars
<1> QED
  BY <1>4, <1>5, <1>6, <1>7, <1>8, <1>9, <1>10, <1>11 DEF LoopOrCommand, LoopStep

LEMMA StepPolling == TypeOK /\ PollingInv /\ Next => PollingInv'
<1> SUFFICES ASSUME TypeOK, PollingInv, Next PROVE PollingInv'
  OBVIOUS
<1>1. ASSUME NEW d \in Device, LoopOrCommand(d) PROVE PollingInv'
  BY <1>1, LoopKeepsPolling
<1> USE DEF PollingInv, BeforeInv, AfterInv, ClosedInv, HeldInv, Threw, TypeOK, loopVars
<1>2. CASE Connect
  BY <1>2 DEF Connect
<1>3. CASE ConnectFails
  BY <1>3 DEF ConnectFails, Finish
<1>4. CASE Subscribed
  BY <1>4 DEF Subscribed
<1>5. CASE \E offThrows \in BOOLEAN : SubscribeFails(offThrows)
  BY <1>5 DEF SubscribeFails
<1>6. CASE StartLoops
  BY <1>6 DEF StartLoops
<1>7. CASE StartFails
  BY <1>7 DEF StartFails
<1>8. CASE FailureReported
  BY <1>8 DEF FailureReported, Finish
<1>9. CASE HandlerSettles
  BY <1>9 DEF HandlerSettles
<1>10. ASSUME NEW d \in Device, DisconnectDevice(d) PROVE PollingInv'
  <2>1. Threw' <=> Threw
    BY <1>10 DEF DisconnectDevice
  <2>2. \A e \in Device : loop[e] \in {"off", "returned"} => loop'[e] = loop[e]
    BY <1>10 DEF DisconnectDevice
  <2>3. main = "disconnecting" /\ main' = main
    BY <1>10 DEF DisconnectDevice
  <2> QED BY <2>1, <2>2, <2>3
<1>11. CASE \E offThrows \in BOOLEAN : StopBridge(offThrows)
  BY <1>11 DEF StopBridge
<1>12. CASE ClientEnded
  BY <1>12 DEF ClientEnded, Finish
<1>13. CASE Signal
  BY <1>13 DEF Signal
<1>14. CASE HelperStarts
  BY <1>14 DEF HelperStarts
<1> QED
  BY <1>1, <1>2, <1>3, <1>4, <1>5, <1>6, <1>7, <1>8, <1>9, <1>10, <1>11, <1>12, <1>13, <1>14
    DEF Next, LoopOrCommand, BridgeStarts, HandlerStarts, Cleanup

\* A read and a command of one device are jobs of the same queue.
LEMMA StepOneJob == TypeOK /\ BeforeInv /\ OneJobPerDevice /\ Next => OneJobPerDevice'
<1> SUFFICES ASSUME TypeOK, BeforeInv, OneJobPerDevice, Next PROVE OneJobPerDevice'
  OBVIOUS
<1> USE DEF OneJobPerDevice, TypeOK, loopVars
<1>1. CASE UNCHANGED <<loop, command>>
  BY <1>1
<1>2. CASE BridgeStarts \/ ConnectFails \/ HelperStarts \/ StartFails \/ Signal
  BY <1>1, <1>2
    DEF BridgeStarts, Connect, Subscribed, SubscribeFails, ConnectFails, HelperStarts, StartFails, Signal
<1>3. CASE StartLoops
  BY <1>3 DEF StartLoops
<1>4. CASE FailureReported \/ HandlerSettles \/ ClientEnded \/ \E offThrows \in BOOLEAN : StopBridge(offThrows)
  BY <1>1, <1>4 DEF FailureReported, HandlerSettles, ClientEnded, StopBridge
<1>5. ASSUME NEW d \in Device, DisconnectDevice(d) PROVE OneJobPerDevice'
  BY <1>5 DEF DisconnectDevice
<1>6. ASSUME NEW d \in Device, LoopStep(d) PROVE OneJobPerDevice'
  <2>1. CASE StopLoop(d) \/ Enqueue(d) \/ ReadNothing(d) \/ GiveUpRecovery(d)
    BY <2>1 DEF StopLoop, Enqueue, ReadNothing, GiveUpRecovery, GoTo, LoopFrame
  <2>2. CASE StartRead(d)
    BY <2>2 DEF StartRead, Busy, GoTo, LoopFrame
  <2>3. CASE ConnectionLost(d)
    BY <2>3 DEF ConnectionLost, LoopFrame
  <2>4. CASE ReadDone(d)
    BY <2>4 DEF ReadDone, LoopFrame
  <2>5. CASE Published(d) \/ PublishFails(d)
    BY <2>5 DEF Published, PublishFails, LoopFrame
  <2> QED BY <1>6, <2>1, <2>2, <2>3, <2>4, <2>5 DEF LoopStep
<1>7. ASSUME NEW d \in Device, Reconnected(d) PROVE OneJobPerDevice'
  BY <1>7 DEF Reconnected, LoopFrame
<1>8. ASSUME NEW d \in Device, StartCommand(d) PROVE OneJobPerDevice'
  BY <1>8 DEF StartCommand, Busy, CommandFrame
<1>9. ASSUME NEW d \in Device, FinishCommand(d) \/ BrokerDelivers(d) PROVE OneJobPerDevice'
  BY <1>9 DEF FinishCommand, BrokerDelivers, CommandFrame
<1> QED
  BY <1>2, <1>3, <1>4, <1>5, <1>6, <1>7, <1>8, <1>9 DEF Next, HandlerStarts, Cleanup, CommandStep

LEMMA StepIInv == IInv /\ [Next]_vars => IInv'
<1> SUFFICES ASSUME IInv, [Next]_vars PROVE IInv'
  OBVIOUS
<1>1. CASE Next
  BY <1>1, StepTypeOK, StepPhase, StepPolling, StepOneJob DEF IInv, PollingInv
<1>2. CASE UNCHANGED vars
  <2> USE <1>2 DEF vars, bridgeVars, signalVars, loopVars, IInv
  <2>1. TypeOK' /\ LeftInv'
    BY DEF TypeOK, LeftInv
  <2>2. PhaseInv' /\ BeforeInv'
    BY DEF PhaseInv, Silent, Listening, BeforeInv
  <2>3. AfterInv' /\ ClosedInv' /\ HeldInv' /\ OneJobPerDevice'
    BY DEF AfterInv, ClosedInv, HeldInv, OneJobPerDevice, Threw
  <2> QED BY <2>1, <2>2, <2>3
<1> QED BY <1>1, <1>2

LEMMA InvReleases == IInv => ReleasedWhenOver
BY DEF IInv, PhaseInv, Silent, ClosedInv, ReleasedWhenOver

LEMMA InvOutlives == IInv => ClientOutlivesPolling
<1> SUFFICES ASSUME IInv, ~Threw, NEW d \in Device, loop[d] \in {"reading", "publishing"}
             PROVE  rawClient /\ client = "open" /\ parserListener /\ d \in session
  BY DEF ClientOutlivesPolling
<1>1. main \notin {"connecting", "subscribing", "starting", "failing"}
  BY DEF IInv, BeforeInv
<1>2. main \notin {"disconnecting", "closing", "over"}
  BY DEF IInv, AfterInv
<1>3. main = "polling"
  BY <1>1, <1>2 DEF IInv, TypeOK
<1> QED BY <1>3 DEF IInv, PhaseInv, Listening, HeldInv

\* Phase by phase, main() holds what it must release, in every interleaving with the
\* loops of the handler, their publications, commands and a signal (server.ts run).
THEOREM Invariance == Spec => []IInv
BY InitIInv, StepIInv, PTL DEF Spec

\* Every variable keeps its type: no more values are published than a read gave.
THEOREM TypeCorrect == Spec => []TypeOK
<1>1. IInv => TypeOK
  BY DEF IInv
<1> QED BY <1>1, Invariance, PTL

\* However main() ends, the bridge, the helper and, unless a loop has thrown,
\* the sessions are released.
THEOREM Released == Spec => []ReleasedWhenOver
BY InvReleases, Invariance, PTL

\* As long as no loop has thrown, the bridge and the session outlive every read
\* and every publication.
THEOREM ClientOutlives == Spec => []ClientOutlivesPolling
BY InvOutlives, Invariance, PTL

\* A command never runs beside a read of its device or its publication.
THEOREM OneJob == Spec => []OneJobPerDevice
<1>1. IInv => OneJobPerDevice
  BY DEF IInv
<1> QED BY <1>1, Invariance, PTL
-----------------------------------------------------------------------------
(* The command line.  Behind the scanner lie the words it has taken; what  *)
(* it holds of them is stated by their positions.                          *)

ValuedOptions == {pair[2] : pair \in Valued}
Addresses == {Address[word] : word \in DOMAIN Address}

\* How many words have been scanned; the next one is never the value of a flag.
Scanned == Len(argv) - Len(rest)

RestInv ==
  /\ argv \in Seq(STRING) /\ rest \in Seq(STRING)
  /\ Len(rest) <= Len(argv)
  /\ \A i \in 1 .. Len(rest) : rest[i] = argv[Scanned + i]
  /\ ~IsValue(Scanned + 1)

\* An option holds its default, or what its last flag so far says.
Sets(i, option) == argv[i] \in ValuedFlags /\ OptionOf(argv[i]) = option
LastSeen(option, i) == Sets(i, option) /\ \A j \in 1 .. Scanned : Sets(j, option) => j <= i

ValueInv(option) ==
  \/ options[option] = Default(option) /\ \A i \in 1 .. Scanned : ~Sets(i, option)
  \/ \E i \in 1 .. Scanned :
       /\ LastSeen(option, i)
       /\ options[option] = Converted(option, argv[i + 1])
       /\ options[option] # Unset

SwitchSeen(switch) == \E i \in 1 .. Scanned : argv[i] = switch /\ ~IsValue(i)

SwitchInv ==
  /\ options.rejectUnauthorized = IF SwitchSeen("--mqtt-insecure") THEN <<"no">> ELSE Unset
  /\ options.runOnce = IF SwitchSeen("--once") THEN <<"yes">> ELSE <<"no">>
  /\ options.help = IF \E switch \in Help : SwitchSeen(switch) THEN <<"yes">> ELSE <<"no">>

\* The addresses are those of the named positions, in their order.
NamedSeen == {i \in 1 .. Scanned : argv[i] \in DOMAIN Address /\ ~IsValue(i)}

Enumerates(position) ==
  /\ \A i, j \in 1 .. Len(addresses) : i < j => position[i] < position[j]
  /\ \A p \in NamedSeen : \E i \in 1 .. Len(addresses) : position[i] = p
  /\ \A i \in 1 .. Len(addresses) : addresses[i] = Address[argv[position[i]]]

AddressInv == \E position \in [1 .. Len(addresses) -> NamedSeen] : Enumerates(position)

ScanInv ==
  /\ RestInv
  /\ \A option \in ValuedOptions : ValueInv(option)
  /\ SwitchInv
  /\ AddressInv

HelpInv == options.help = IF \E switch \in Help : IsGiven(switch) THEN <<"yes">> ELSE <<"no">>
PemInv == \A path \in PemPaths : options[path] # Unset => options[path][1] \in ReadablePem

ParseTypeInv ==
  /\ options = [option \in Options |-> options[option]]
  /\ addresses \in Seq(Addresses)
  /\ file \in Files

ParseInv ==
  program = "bridge" =>
  /\ ParseTypeInv
  /\ outcome \in {"scan", "file"} => ScanInv
  /\ outcome = "file" => rest = <<>> /\ Given("configPath") # Unset
  /\ outcome \in {"tls", "main", "runs"} => EffectiveValues /\ EffectiveAddresses /\ HelpInv
  /\ outcome \in {"main", "runs"} => PemInv
  /\ outcome = "runs" => addresses # <<>> /\ options.brokerUrl \notin {Unset, <<"">>} /\ options.help # <<"yes">>
-----------------------------------------------------------------------------
LEMMA FlagFacts ==
  /\ \A flag \in ValuedFlags : OptionOf(flag) \in ValuedOptions /\ StartsWithDashes(flag)
  /\ ValuedFlags \cap Switches = {}
<1>1. ASSUME NEW flag \in ValuedFlags PROVE OptionOf(flag) \in ValuedOptions
  <2>1. PICK pair \in Valued : flag = pair[1]
    BY DEF ValuedFlags
  <2>2. pair = <<pair[1], pair[2]>>
    BY SMT DEF Valued
  <2>3. pair[2] \in ValuedOptions
    BY DEF ValuedOptions
  <2> QED BY <2>1, <2>2, <2>3 DEF OptionOf, ValuedOptions
<1>2. ValuedFlags \cap Switches = {} /\ "-h" \notin ValuedFlags
  BY SMT DEF ValuedFlags, Valued, Switches
<1> QED BY <1>1, <1>2 DEF StartsWithDashes

LEMMA OptionFacts ==
  /\ ValuedOptions = Strings \cup {"configPath", "interval", "logLevel"}
  /\ ValuedOptions \cap {"rejectUnauthorized", "runOnce", "help"} = {}
  /\ ValuedOptions \subseteq Options /\ {"rejectUnauthorized", "runOnce", "help"} \subseteq Options
<1>1. ValuedOptions = Strings \cup {"configPath", "interval", "logLevel"}
  BY SMTT(30) DEF ValuedOptions, Valued, Strings, PemPaths
<1> QED BY <1>1 DEF Options, Strings, PemPaths

LEMMA ParseInitInv == ParseInit => ParseInv
<1> SUFFICES ASSUME ParseInit PROVE ParseInv
  OBVIOUS
<1>1. argv \in Seq(STRING) /\ rest = argv /\ Len(argv) \in Nat /\ Scanned = 0
  <2>1. argv \in Arguments /\ rest = argv
    BY DEF ParseInit
  <2>2. argv \in Seq(STRING)
    BY <2>1, CommandLineAssumption DEF CommandLineAssumption
  <2>3. Len(argv) \in Nat
    BY <2>2, LenProperties
  <2> QED BY <2>1, <2>2, <2>3 DEF Scanned
<1>7. options = [option \in Options |-> Default(option)] /\ addresses = <<>> /\ file \in Files /\ outcome = "scan"
  BY DEF ParseInit
<1>2. ParseTypeInv
  <2>1. addresses \in Seq(Addresses)
    BY <1>7
  <2> QED BY <1>7, <2>1 DEF ParseTypeInv
<1>3. RestInv
  BY <1>1 DEF RestInv, IsValue
<1>4. ASSUME NEW option \in ValuedOptions PROVE ValueInv(option)
  <2>1. options[option] = Default(option)
    BY <1>7, OptionFacts
  <2> QED BY <2>1, <1>1 DEF ValueInv
<1>5. SwitchInv
  <2>1. \A switch : ~SwitchSeen(switch)
    BY <1>1 DEF SwitchSeen
  <2>2. options.rejectUnauthorized = Unset /\ options.runOnce = <<"no">> /\ options.help = <<"no">>
    BY <1>7 DEF Options, Default
  <2> QED BY <2>1, <2>2 DEF SwitchInv
<1>6. AddressInv
  <2>1. Len(addresses) = 0 /\ NamedSeen = {}
    BY <1>1, <1>7 DEF NamedSeen
  <2>2. [i \in 1 .. 0 |-> 1] \in [1 .. Len(addresses) -> NamedSeen]
    BY <2>1
  <2>3. Enumerates([i \in 1 .. 0 |-> 1])
    BY <2>1 DEF Enumerates
  <2> QED BY <2>2, <2>3 DEF AddressInv
<1> QED BY <1>7, <1>2, <1>3, <1>4, <1>5, <1>6 DEF ParseInv, ScanInv
-----------------------------------------------------------------------------
(* What a step of the scanner leaves as it was.                            *)

LEMMA ScannedFacts == RestInv => Scanned \in Nat /\ Scanned <= Len(argv) /\ Len(rest) \in Nat /\ Len(argv) \in Nat
<1> SUFFICES ASSUME RestInv PROVE Scanned \in Nat /\ Scanned <= Len(argv) /\ Len(rest) \in Nat /\ Len(argv) \in Nat
  OBVIOUS
<1>1. Len(rest) \in Nat /\ Len(argv) \in Nat /\ Len(rest) <= Len(argv)
  BY LenProperties DEF RestInv
<1> QED BY <1>1 DEF Scanned

LEMMA WordTaken ==
  ASSUME RestInv, rest # <<>>, rest' = Tail(rest), argv' = argv, Word \notin ValuedFlags
  PROVE  RestInv' /\ Scanned' = Scanned + 1 /\ Word = argv[Scanned + 1] /\ ~IsValue(Scanned + 1)
<1>1. Scanned \in Nat /\ Len(rest) \in Nat \ {0} /\ Len(argv) \in Nat /\ Len(rest) <= Len(argv)
  BY ScannedFacts, EmptySeq DEF RestInv
<1>2. rest' \in Seq(STRING) /\ Len(rest') = Len(rest) - 1 /\ \A i \in 1 .. Len(rest) - 1 : rest'[i] = rest[i + 1]
  BY HeadTailProperties DEF RestInv
<1>3. Word = argv[Scanned + 1]
  BY <1>1, HeadTailProperties DEF RestInv, Word
<1>4. Scanned' = Scanned + 1
  BY <1>1, <1>2 DEF Scanned
<1>5. ASSUME NEW i \in 1 .. Len(rest') PROVE rest'[i] = argv'[Scanned' + i]
  <2>1. i \in 1 .. Len(rest) - 1 /\ i + 1 \in 1 .. Len(rest)
    BY <1>1, <1>2
  <2>2. rest[i + 1] = argv[Scanned + (i + 1)]
    BY <2>1 DEF RestInv
  <2>3. Scanned + (i + 1) = Scanned' + i
    BY <1>1, <1>4
  <2> QED BY <1>2, <2>1, <2>2, <2>3
<1>6. ~IsValue(Scanned + 1)'
  BY <1>1, <1>3, <1>4 DEF IsValue
<1>7. argv' \in Seq(STRING) /\ Len(rest') <= Len(argv')
  BY <1>1, <1>2 DEF RestInv
<1>8. RestInv'
  BY <1>2, <1>5, <1>6, <1>7 DEF RestInv
<1> QED BY <1>3, <1>4, <1>8 DEF RestInv

LEMMA FlagTaken ==
  ASSUME RestInv, rest # <<>>, Len(rest) # 1, rest' = Tail(Tail(rest)), argv' = argv,
         rest[2] \notin ValuedFlags
  PROVE  /\ RestInv' /\ Scanned' = Scanned + 2 /\ ~IsValue(Scanned + 1)
         /\ Word = argv[Scanned + 1] /\ rest[2] = argv[Scanned + 2]
<1>1. Scanned \in Nat /\ Len(rest) \in Nat /\ Len(rest) >= 2 /\ Len(argv) \in Nat /\ Len(rest) <= Len(argv)
  <2>1. Len(rest) # 0
    BY EmptySeq DEF RestInv
  <2>2. Scanned \in Nat /\ Len(rest) \in Nat /\ Len(argv) \in Nat
    BY ScannedFacts
  <2>3. Len(rest) <= Len(argv)
    BY DEF RestInv
  <2>4. Len(rest) >= 2
    <3>1. \A k \in Nat : k # 0 /\ k # 1 => k >= 2
      OBVIOUS
    <3> QED BY <2>1, <2>2, <3>1, Zenon
  <2> QED BY <2>2, <2>3, <2>4
<1> DEFINE next == Tail(rest)
<1>2. next \in Seq(STRING) /\ Len(next) = Len(rest) - 1 /\ \A i \in 1 .. Len(rest) - 1 : next[i] = rest[i + 1]
  BY HeadTailProperties DEF RestInv
<1>9. next # <<>>
  <2>1. Len(next) # 0
    BY <1>1, <1>2
  <2> HIDE DEF next
  <2> QED BY <2>1
<1>10. rest' = Tail(next)
  OBVIOUS
<1> HIDE DEF next
<1>11. rest' \in Seq(STRING) /\ Len(rest') = Len(next) - 1 /\ \A i \in 1 .. Len(next) - 1 : rest'[i] = next[i + 1]
  BY <1>2, <1>9, <1>10, HeadTailProperties
<1>3. Word = argv[Scanned + 1] /\ rest[2] = argv[Scanned + 2]
  <2>1. Word = rest[1]
    BY DEF Word
  <2>2. 1 \in 1 .. Len(rest) /\ 2 \in 1 .. Len(rest)
    BY <1>1
  <2> QED BY <2>1, <2>2 DEF RestInv
<1>4. Len(rest') = Len(rest) - 2 /\ Scanned' = Scanned + 2
  <2>1. Len(rest') = Len(rest) - 2
    BY <1>1, <1>2, <1>11
  <2>2. Scanned' = Len(argv) - Len(rest')
    BY DEF Scanned
  <2>3. \A k, l \in Nat : k - (l - 2) = (k - l) + 2
    OBVIOUS
  <2>4. Scanned' = (Len(argv) - Len(rest)) + 2
    BY <1>1, <2>1, <2>2, <2>3
  <2> QED BY <2>1, <2>4 DEF Scanned
<1>5. ASSUME NEW i \in 1 .. Len(rest') PROVE rest'[i] = argv'[Scanned' + i]
  <2>1. i \in 1 .. Len(next) - 1 /\ i + 1 \in 1 .. Len(rest) - 1 /\ (i + 1) + 1 \in 1 .. Len(rest)
    BY <1>1, <1>2, <1>4
  <2>2. rest[(i + 1) + 1] = argv[Scanned + ((i + 1) + 1)]
    BY <2>1 DEF RestInv
  <2>3. Scanned + ((i + 1) + 1) = Scanned' + i
    BY <1>1, <1>4
  <2> QED BY <1>2, <1>11, <2>1, <2>2, <2>3
<1>6. ~IsValue(Scanned + 1)'
  BY <1>1, <1>3, <1>4 DEF IsValue
<1>7. argv' \in Seq(STRING) /\ Len(rest') <= Len(argv')
  BY <1>1, <1>4 DEF RestInv
<1>8. RestInv'
  BY <1>11, <1>5, <1>6, <1>7 DEF RestInv
<1> QED BY <1>3, <1>4, <1>8 DEF RestInv

LEMMA ValueKept ==
  ASSUME NEW option \in ValuedOptions, ValueInv(option), argv' = argv, Scanned \in Nat, Scanned' \in Nat,
         Scanned <= Scanned', options'[option] = options[option],
         \A i \in Scanned + 1 .. Scanned' : ~Sets(i, option)
  PROVE  ValueInv(option)'
<1>1. \A i : Sets(i, option)' <=> Sets(i, option)
  BY DEF Sets
<1>2. \A i \in 1 .. Scanned' : i \in 1 .. Scanned \/ ~Sets(i, option)
  OBVIOUS
<1>3. CASE options[option] = Default(option) /\ \A i \in 1 .. Scanned : ~Sets(i, option)
  BY <1>1, <1>2, <1>3 DEF ValueInv
<1>4. ASSUME NEW i \in 1 .. Scanned, LastSeen(option, i), options[option] # Unset,
             options[option] = Converted(option, argv[i + 1])
      PROVE  ValueInv(option)'
  <2>1. i \in 1 .. Scanned'
    OBVIOUS
  <2>2. LastSeen(option, i)'
    BY <1>1, <1>2, <1>4 DEF LastSeen
  <2>3. options'[option] = Converted(option, argv'[i + 1]) /\ options'[option] # Unset
    BY <1>4
  <2> QED BY <2>1, <2>2, <2>3 DEF ValueInv
<1> QED BY <1>3, <1>4 DEF ValueInv

LEMMA ValueTaken ==
  ASSUME NEW option \in ValuedOptions, argv' = argv, Scanned \in Nat, Scanned' = Scanned + 2,
         Sets(Scanned + 1, option), ~Sets(Scanned + 2, option),
         options'[option] = Converted(option, argv[Scanned + 2]), options'[option] # Unset
  PROVE  ValueInv(option)'
<1>1. \A i : Sets(i, option)' <=> Sets(i, option)
  BY DEF Sets
<1>2. \A i \in 1 .. Scanned' : i <= Scanned + 1 \/ i = Scanned + 2
  OBVIOUS
<1>3. PICK at \in 1 .. Scanned' : at = Scanned + 1
  OBVIOUS
<1>4. LastSeen(option, at)'
  BY <1>1, <1>2, <1>3 DEF LastSeen
<1>5. options'[option] = Converted(option, argv'[at + 1])
  BY <1>3
<1> QED BY <1>3, <1>4, <1>5 DEF ValueInv

LEMMA SwitchesKept ==
  ASSUME NEW switch, argv' = argv, Scanned \in Nat, Scanned' \in Nat, Scanned <= Scanned',
         \A i \in Scanned + 1 .. Scanned' : argv[i] # switch \/ IsValue(i)
  PROVE  SwitchSeen(switch)' <=> SwitchSeen(switch)
<1>1. \A i : IsValue(i)' <=> IsValue(i)
  BY DEF IsValue
<1>2. \A i \in 1 .. Scanned' : i \in 1 .. Scanned \/ i \in Scanned + 1 .. Scanned'
  OBVIOUS
<1>3. \A i \in 1 .. Scanned : i \in 1 .. Scanned'
  OBVIOUS
<1> QED BY <1>1, <1>2, <1>3 DEF SwitchSeen

LEMMA AddressesKept ==
  ASSUME AddressInv, argv' = argv, addresses' = addresses, NamedSeen' = NamedSeen
  PROVE  AddressInv'
<1>1. PICK position \in [1 .. Len(addresses) -> NamedSeen] : Enumerates(position)
  BY DEF AddressInv
<1>2. Enumerates(position)'
  BY <1>1 DEF Enumerates
<1> QED BY <1>1, <1>2 DEF AddressInv
-----------------------------------------------------------------------------
(* The scanner's steps.                                                    *)

LEMMA ScanValueKeeps ==
  ParseTypeInv /\ ScanInv /\ ScanValue /\ outcome' = outcome => ParseTypeInv' /\ ScanInv'
<1> SUFFICES ASSUME ParseTypeInv, ScanInv, ScanValue, outcome' = outcome PROVE ParseTypeInv' /\ ScanInv'
  OBVIOUS
<1> DEFINE option == OptionOf(Word)
           value == Converted(option, rest[2])
<1>1. Word \in ValuedFlags /\ rest # <<>> /\ outcome = "scan"
  BY DEF ScanValue, Scanning
<1>2. ~Fail
  BY <1>1 DEF Fail
<1>3. /\ Len(rest) # 1 /\ ~StartsWithDashes(rest[2]) /\ value # Unset
      /\ options' = [options EXCEPT ![option] = value]
      /\ rest' = Tail(Tail(rest))
      /\ UNCHANGED <<argv, file, addresses>>
  BY <1>2 DEF ScanValue
<1>4. option \in ValuedOptions
  BY <1>1, FlagFacts
<1> HIDE DEF option
<1>5. rest[2] \notin ValuedFlags
  BY <1>3, FlagFacts
<1>6. /\ RestInv' /\ Scanned' = Scanned + 2 /\ ~IsValue(Scanned + 1)
      /\ Word = argv[Scanned + 1] /\ rest[2] = argv[Scanned + 2]
  BY <1>1, <1>3, <1>5, FlagTaken DEF ScanInv
<1>7. Scanned \in Nat /\ Scanned' \in Nat /\ Scanned <= Scanned'
      /\ \A i \in Scanned + 1 .. Scanned' : i = Scanned + 1 \/ i = Scanned + 2
  BY <1>6, ScannedFacts DEF ScanInv
<1>8. IsValue(Scanned + 2)
  BY <1>1, <1>6, <1>7 DEF IsValue
<1>9. options \in [Options -> {options[o] : o \in Options}]
  BY DEF ParseTypeInv
<1>10. option \in Options /\ \A o \in Options : options'[o] = IF o = option THEN value ELSE options[o]
  BY <1>3, <1>4, <1>9, OptionFacts
<1>11. ParseTypeInv'
  BY <1>3, <1>9 DEF ParseTypeInv
<1>12. ASSUME NEW o \in ValuedOptions PROVE ValueInv(o)'
  <2>1. ~Sets(Scanned + 2, o)
    BY <1>5, <1>6 DEF Sets
  <2>2. CASE o = option
    <3>1. Sets(Scanned + 1, o)
      BY <1>1, <1>6, <2>2 DEF Sets, option
    <3>2. options'[o] = Converted(o, argv[Scanned + 2]) /\ options'[o] # Unset
      BY <1>3, <1>6, <1>10, <2>2
    <3> QED BY <1>3, <1>6, <1>7, <2>1, <3>1, <3>2, ValueTaken
  <2>3. CASE o # option
    <3>1. ~Sets(Scanned + 1, o)
      BY <1>6, <2>3 DEF Sets, option
    <3>2. options'[o] = options[o]
      BY <1>10, <2>3, OptionFacts
    <3>3. ValueInv(o)
      BY DEF ScanInv
    <3>4. \A i \in Scanned + 1 .. Scanned' : ~Sets(i, o)
      BY <1>7, <2>1, <3>1
    <3> QED BY <1>3, <1>7, <3>2, <3>3, <3>4, ValueKept
  <2> QED BY <2>2, <2>3
<1>13. SwitchInv'
  <2>1. \A o \in {"rejectUnauthorized", "runOnce", "help"} : options'[o] = options[o]
    BY <1>4, <1>10, OptionFacts
  <2>2. ASSUME NEW switch \in Switches PROVE SwitchSeen(switch)' <=> SwitchSeen(switch)
    <3>1. \A i \in Scanned + 1 .. Scanned' : argv[i] # switch \/ IsValue(i)
      BY <1>1, <1>6, <1>7, <1>8, FlagFacts
    <3> QED BY <1>3, <1>7, <3>1, SwitchesKept
  <2> QED BY <2>1, <2>2 DEF ScanInv, SwitchInv, Switches, Help
<1>14. AddressInv'
  <2>1. \A i : IsValue(i)' <=> IsValue(i)
    BY <1>3 DEF IsValue
  <2>2. argv[Scanned + 1] \notin DOMAIN Address
    BY <1>1, <1>6, CommandLineAssumption DEF CommandLineAssumption
  <2>3. \A i : i \in 1 .. Scanned' <=> i \in 1 .. Scanned \/ i \in Scanned + 1 .. Scanned'
    BY <1>7
  <2>4. \A i : i \in NamedSeen' <=> i \in NamedSeen
    BY <1>3, <1>7, <1>8, <2>1, <2>2, <2>3 DEF NamedSeen
  <2>5. NamedSeen' = NamedSeen
    BY <2>4
  <2> QED BY <1>3, <2>5, AddressesKept DEF ScanInv
<1> QED BY <1>6, <1>11, <1>12, <1>13, <1>14 DEF ScanInv

LEMMA ScanSwitchKeeps ==
  ParseTypeInv /\ ScanInv /\ ScanSwitch => ParseTypeInv' /\ ScanInv'
<1> SUFFICES ASSUME ParseTypeInv, ScanInv, ScanSwitch PROVE ParseTypeInv' /\ ScanInv'
  OBVIOUS
<1>1. Word \in Switches /\ rest # <<>> /\ rest' = Tail(rest) /\ UNCHANGED <<argv, file, addresses>>
  BY DEF ScanSwitch, Scanning
<1>2. Word \notin ValuedFlags
  BY <1>1, FlagFacts
<1>3. RestInv' /\ Scanned' = Scanned + 1 /\ Word = argv[Scanned + 1] /\ ~IsValue(Scanned + 1)
  BY <1>1, <1>2, WordTaken DEF ScanInv
<1>4. Scanned \in Nat /\ Scanned' \in Nat /\ Scanned <= Scanned'
      /\ \A i \in Scanned + 1 .. Scanned' : i = Scanned + 1
  BY <1>3, ScannedFacts DEF ScanInv
<1>5. options \in [Options -> {options[o] : o \in Options}]
  BY DEF ParseTypeInv
<1> DEFINE turned == IF Word = "--mqtt-insecure" THEN "rejectUnauthorized" ELSE IF Word = "--once" THEN "runOnce" ELSE "help"
           answer == IF Word = "--mqtt-insecure" THEN <<"no">> ELSE <<"yes">>
<1>6. options' = [options EXCEPT ![turned] = answer]
  <2>1. CASE Word = "--mqtt-insecure"
    <3>1. Set("rejectUnauthorized", "no")
      BY <2>1 DEF ScanSwitch, Help
    <3>2. turned = "rejectUnauthorized" /\ answer = <<"no">>
      BY <2>1
    <3> HIDE DEF turned, answer
    <3> QED BY <3>1, <3>2 DEF Set
  <2>2. CASE Word = "--once"
    <3>1. Set("runOnce", "yes") /\ turned = "runOnce" /\ answer = <<"yes">>
      BY <2>2 DEF ScanSwitch, Help
    <3> HIDE DEF turned, answer
    <3> QED BY <3>1 DEF Set
  <2>3. CASE Word \in Help
    <3>1. Set("help", "yes") /\ turned = "help" /\ answer = <<"yes">>
      BY <2>3 DEF ScanSwitch, Help
    <3> HIDE DEF turned, answer
    <3> QED BY <3>1 DEF Set
  <2> QED BY <1>1, <2>1, <2>2, <2>3 DEF Switches, Help
<1>7. turned \in {"rejectUnauthorized", "runOnce", "help"} /\ turned \in Options
  BY OptionFacts
<1>8. \A o \in Options : options'[o] = IF o = turned THEN answer ELSE options[o]
  BY <1>5, <1>6, <1>7
<1>9. ParseTypeInv'
  BY <1>1, <1>5, <1>6 DEF ParseTypeInv
<1>10. ASSUME NEW o \in ValuedOptions PROVE ValueInv(o)'
  <2>1. \A i \in Scanned + 1 .. Scanned' : ~Sets(i, o)
    BY <1>2, <1>3, <1>4 DEF Sets
  <2>2. options'[o] = options[o]
    BY <1>7, <1>8, OptionFacts
  <2>3. ValueInv(o)
    BY DEF ScanInv
  <2> QED BY <1>1, <1>4, <2>1, <2>2, <2>3, ValueKept
<1>11. ASSUME NEW switch PROVE SwitchSeen(switch)' <=> SwitchSeen(switch) \/ switch = Word
  <2>1. CASE switch = Word
    <3>1. PICK at \in 1 .. Scanned' : at = Scanned + 1
      BY <1>3, <1>4
    <3>2. argv[at] = switch /\ ~IsValue(at)
      BY <1>3, <2>1, <3>1
    <3>3. SwitchSeen(switch)'
      BY <1>1, <3>2 DEF SwitchSeen, IsValue
    <3> QED BY <2>1, <3>3
  <2>2. CASE switch # Word
    <3>1. \A i \in Scanned + 1 .. Scanned' : argv[i] # switch \/ IsValue(i)
      BY <1>3, <1>4, <2>2
    <3>2. SwitchSeen(switch)' <=> SwitchSeen(switch)
      BY <1>1, <1>4, <3>1, SwitchesKept
    <3> QED BY <2>2, <3>2
  <2> QED BY <2>1, <2>2
<1>12. SwitchInv'
  <2>1. SwitchInv
    BY DEF ScanInv
  <2>2. options'.rejectUnauthorized = IF SwitchSeen("--mqtt-insecure")' THEN <<"no">> ELSE Unset
    BY <1>8, <1>11, <2>1, OptionFacts DEF SwitchInv
  <2>3. options'.runOnce = IF SwitchSeen("--once")' THEN <<"yes">> ELSE <<"no">>
    BY <1>8, <1>11, <2>1, OptionFacts DEF SwitchInv
  <2>4. options'.help = IF \E switch \in Help : SwitchSeen(switch)' THEN <<"yes">> ELSE <<"no">>
    BY <1>1, <1>8, <1>11, <2>1, OptionFacts DEF SwitchInv, Switches, Help
  <2> QED BY <2>2, <2>3, <2>4 DEF SwitchInv
<1>13. AddressInv'
  <2>1. \A i : IsValue(i)' <=> IsValue(i)
    BY <1>1 DEF IsValue
  <2>2. argv[Scanned + 1] \notin DOMAIN Address
    BY <1>1, <1>3, CommandLineAssumption DEF CommandLineAssumption
  <2>3. \A i : i \in 1 .. Scanned' <=> i \in 1 .. Scanned \/ i \in Scanned + 1 .. Scanned'
    BY <1>4
  <2>4. \A i : i \in NamedSeen' <=> i \in NamedSeen
    BY <1>1, <1>4, <2>1, <2>2, <2>3 DEF NamedSeen
  <2>5. NamedSeen' = NamedSeen
    BY <2>4
  <2> QED BY <1>1, <2>5, AddressesKept DEF ScanInv
<1> QED BY <1>3, <1>9, <1>10, <1>12, <1>13 DEF ScanInv

LEMMA ScanAddressKeeps ==
  ParseTypeInv /\ ScanInv /\ ScanAddress /\ outcome' = outcome => ParseTypeInv' /\ ScanInv'
<1> SUFFICES ASSUME ParseTypeInv, ScanInv, ScanAddress, outcome' = outcome PROVE ParseTypeInv' /\ ScanInv'
  OBVIOUS
<1>1. outcome = "scan" /\ rest # <<>> /\ Word \notin ValuedFlags /\ Word \notin Switches
  BY DEF ScanAddress, Scanning
<1>2. /\ \/ Word = "" /\ addresses' = addresses
         \/ Word \in DOMAIN Address /\ addresses' = Append(addresses, Address[Word])
      /\ rest' = Tail(rest) /\ UNCHANGED <<argv, file, options>>
  BY <1>1, CommandLineAssumption DEF ScanAddress, Fail, CommandLineAssumption
<1>3. RestInv' /\ Scanned' = Scanned + 1 /\ Word = argv[Scanned + 1] /\ ~IsValue(Scanned + 1)
  BY <1>1, <1>2, WordTaken DEF ScanInv
<1>4. Scanned \in Nat /\ Scanned' \in Nat /\ Scanned <= Scanned'
      /\ \A i \in Scanned + 1 .. Scanned' : i = Scanned + 1
  BY <1>3, ScannedFacts DEF ScanInv
<1>5. ParseTypeInv'
  <2>1. addresses \in Seq(Addresses) /\ (Word \in DOMAIN Address => Address[Word] \in Addresses)
    BY DEF ParseTypeInv, Addresses
  <2>2. ASSUME Word \in DOMAIN Address PROVE Append(addresses, Address[Word]) \in Seq(Addresses)
    BY <2>1, <2>2, AppendProperties
  <2>3. addresses' \in Seq(Addresses)
    BY <1>2, <2>1, <2>2
  <2> QED BY <1>2, <2>3 DEF ParseTypeInv
<1>6. ASSUME NEW o \in ValuedOptions PROVE ValueInv(o)'
  <2>1. \A i \in Scanned + 1 .. Scanned' : ~Sets(i, o)
    BY <1>1, <1>3, <1>4 DEF Sets
  <2>2. ValueInv(o)
    BY DEF ScanInv
  <2> QED BY <1>2, <1>4, <2>1, <2>2, ValueKept
<1>7. SwitchInv'
  <2>1. ASSUME NEW switch \in Switches PROVE SwitchSeen(switch)' <=> SwitchSeen(switch)
    <3>1. \A i \in Scanned + 1 .. Scanned' : argv[i] # switch \/ IsValue(i)
      BY <1>1, <1>3, <1>4
    <3> QED BY <1>2, <1>4, <3>1, SwitchesKept
  <2> QED BY <1>2, <2>1 DEF ScanInv, SwitchInv, Switches, Help
<1>8. CASE Word = ""
  <2>1. addresses' = addresses /\ argv[Scanned + 1] \notin DOMAIN Address
    BY <1>2, <1>3, <1>8, CommandLineAssumption DEF CommandLineAssumption
  <2>2. \A i : i \in 1 .. Scanned' <=> i \in 1 .. Scanned \/ i = Scanned + 1
    BY <1>3, <1>4
  <2>3. \A i : IsValue(i)' <=> IsValue(i)
    BY <1>2 DEF IsValue
  <2>4. \A i : i \in NamedSeen' <=> i \in NamedSeen
    BY <1>2, <2>1, <2>2, <2>3 DEF NamedSeen
  <2>5. AddressInv'
    BY <1>2, <2>1, <2>4, AddressesKept DEF ScanInv
  <2> QED BY <1>3, <1>5, <1>6, <1>7, <2>5 DEF ScanInv
<1>9. CASE Word \in DOMAIN Address /\ addresses' = Append(addresses, Address[Word])
  <2>1. PICK position \in [1 .. Len(addresses) -> NamedSeen] : Enumerates(position)
    BY DEF ScanInv, AddressInv
  <2> DEFINE l == Len(addresses)
             there == [i \in 1 .. l + 1 |-> IF i = l + 1 THEN Scanned + 1 ELSE position[i]]
  <2>2. l \in Nat
    BY LenProperties DEF ParseTypeInv
  <2>3. /\ Len(addresses') = l + 1
        /\ \A i \in 1 .. l : addresses'[i] = addresses[i]
        /\ addresses'[l + 1] = Address[Word]
    BY <1>9, AppendProperties DEF ParseTypeInv, Addresses
  <2>4. \A i \in 1 .. l : position[i] \in NamedSeen /\ position[i] \in 1 .. Scanned
    BY <2>1 DEF NamedSeen
  <2>5. \A i : IsValue(i)' <=> IsValue(i)
    BY <1>2 DEF IsValue
  <2>6. NamedSeen' = NamedSeen \cup {Scanned + 1}
    <3>1. \A i : i \in 1 .. Scanned' <=> i \in 1 .. Scanned \/ i = Scanned + 1
      BY <1>3, <1>4
    <3>2. \A i : i \in NamedSeen' <=> i \in NamedSeen \/ i = Scanned + 1
      BY <1>2, <1>3, <1>9, <2>5, <3>1 DEF NamedSeen
    <3> QED BY <3>2
  <2> HIDE DEF l
  <2>7. there[l + 1] = Scanned + 1 /\ \A i \in 1 .. l : there[i] = position[i]
    BY <2>2
  <2>8. \A i \in 1 .. l + 1 : i \in 1 .. l \/ i = l + 1
    BY <2>2
  <2>9. there \in [1 .. l + 1 -> NamedSeen']
    BY <2>4, <2>6, <2>7, <2>8
  <2> HIDE DEF there
  <2>10. \A i, j \in 1 .. l + 1 : i < j => there[i] < there[j]
    <3>1. \A i, j \in 1 .. l : i < j => position[i] < position[j]
      BY <2>1 DEF Enumerates, l
    <3> SUFFICES ASSUME NEW i \in 1 .. l + 1, NEW j \in 1 .. l + 1, i < j PROVE there[i] < there[j]
      OBVIOUS
    <3>2. i \in 1 .. l
      BY <2>2
    <3>3. CASE j = l + 1
      BY <1>4, <2>4, <2>7, <3>2, <3>3
    <3>4. CASE j \in 1 .. l
      BY <2>7, <3>1, <3>2, <3>4
    <3> QED BY <2>8, <3>3, <3>4
  <2>11. \A p \in NamedSeen' : \E i \in 1 .. l + 1 : there[i] = p
    <3>1. \A p \in NamedSeen : \E i \in 1 .. l : position[i] = p
      BY <2>1 DEF Enumerates, l
    <3>2. \A i \in 1 .. l : i \in 1 .. l + 1
      BY <2>2
    <3>3. l + 1 \in 1 .. l + 1
      BY <2>2
    <3> QED BY <2>6, <2>7, <3>1, <3>2, <3>3
  <2>12. \A i \in 1 .. l + 1 : addresses'[i] = Address[argv'[there[i]]]
    <3>1. \A i \in 1 .. l : addresses[i] = Address[argv[position[i]]]
      BY <2>1 DEF Enumerates, l
    <3>2. \A i \in 1 .. l : addresses'[i] = Address[argv'[there[i]]]
      BY <1>2, <2>3, <2>7, <3>1
    <3>3. addresses'[l + 1] = Address[argv'[there[l + 1]]]
      BY <1>2, <1>3, <2>3, <2>7
    <3> QED BY <2>8, <3>2, <3>3
  <2>13. PICK longer : longer = there
    OBVIOUS
  <2>14. longer \in [1 .. Len(addresses') -> NamedSeen']
    BY <2>3, <2>9, <2>13
  <2>15. Enumerates(longer)'
    BY <2>3, <2>10, <2>11, <2>12, <2>13 DEF Enumerates
  <2>16. AddressInv'
    BY <2>14, <2>15 DEF AddressInv
  <2> QED BY <1>3, <1>5, <1>6, <1>7, <2>16 DEF ScanInv
<1> QED BY <1>2, <1>8, <1>9
-----------------------------------------------------------------------------
(* The whole line: when every word has been scanned, what was seen is what *)
(* is given.                                                               *)

LEMMA LastIsMax ==
  ASSUME NEW S \in SUBSET Int, NEW last \in S, \A i \in S : i <= last
  PROVE  Max(S) = last
<1>1. \A i \in S : last >= i
  OBVIOUS
<1>2. Max(S) \in S /\ \A i \in S : Max(S) >= i
  BY <1>1 DEF Max
<1>3. Max(S) >= last /\ last >= Max(S)
  BY <1>1, <1>2
<1>4. \A a, b \in Int : a >= b /\ b >= a => a = b
  OBVIOUS
<1>5. Max(S) \in Int /\ last \in Int
  BY <1>2
<1> QED BY <1>3, <1>4, <1>5, Zenon

WholeLine ==
  /\ \A option \in ValuedOptions : options[option] = Coalesce(Given(option), Default(option))
  /\ options.rejectUnauthorized = IF IsGiven("--mqtt-insecure") THEN <<"no">> ELSE Unset
  /\ options.runOnce = IF IsGiven("--once") THEN <<"yes">> ELSE <<"no">>
  /\ HelpInv
  /\ Named = {} => addresses = <<>>
  /\ Named # {} => EffectiveAddresses /\ addresses # <<>>

LEMMA EverythingScanned == ParseTypeInv /\ ScanInv /\ rest = <<>> => WholeLine
<1> SUFFICES ASSUME ParseTypeInv, ScanInv, rest = <<>> PROVE WholeLine
  OBVIOUS
<1>1. Scanned = Len(argv) /\ Len(argv) \in Nat /\ DOMAIN argv = 1 .. Len(argv)
  <2>1. Len(argv) \in Nat /\ DOMAIN argv = 1 .. Len(argv)
    BY LenProperties DEF ScanInv, RestInv
  <2> QED BY <2>1 DEF Scanned
<1>2. ASSUME NEW option \in ValuedOptions PROVE options[option] = Coalesce(Given(option), Default(option))
  <2> DEFINE at == {i \in DOMAIN argv : argv[i] \in ValuedFlags /\ OptionOf(argv[i]) = option}
  <2>1. at = {i \in 1 .. Scanned : Sets(i, option)}
    BY <1>1 DEF Sets
  <2>2. Given(option) = IF at = {} THEN Unset ELSE Converted(option, argv[Max(at) + 1])
    BY DEF Given
  <2> HIDE DEF at
  <2>3. CASE options[option] = Default(option) /\ \A i \in 1 .. Scanned : ~Sets(i, option)
    BY <2>1, <2>2, <2>3 DEF Coalesce
  <2>4. ASSUME NEW i \in 1 .. Scanned, LastSeen(option, i), options[option] # Unset,
               options[option] = Converted(option, argv[i + 1])
        PROVE  options[option] = Coalesce(Given(option), Default(option))
    <3>1. i \in at /\ at \in SUBSET Int /\ \A j \in at : j <= i
      BY <1>1, <2>1, <2>4 DEF LastSeen
    <3>2. Max(at) = i
      BY <3>1, LastIsMax
    <3>3. Given(option) = Converted(option, argv[i + 1])
      BY <2>2, <3>1, <3>2
    <3> QED BY <2>4, <3>3 DEF Coalesce
  <2> QED BY <2>3, <2>4 DEF ScanInv, ValueInv
<1>3. \A switch : SwitchSeen(switch) <=> IsGiven(switch)
  BY <1>1 DEF SwitchSeen, IsGiven
<1>4. /\ options.rejectUnauthorized = IF IsGiven("--mqtt-insecure") THEN <<"no">> ELSE Unset
      /\ options.runOnce = IF IsGiven("--once") THEN <<"yes">> ELSE <<"no">>
      /\ HelpInv
  BY <1>3 DEF ScanInv, SwitchInv, HelpInv
<1>5. NamedSeen = Named
  BY <1>1 DEF NamedSeen, Named
<1>6. PICK position \in [1 .. Len(addresses) -> Named] : Enumerates(position)
  BY <1>5 DEF ScanInv, AddressInv
<1>7. Len(addresses) \in Nat /\ DOMAIN addresses = 1 .. Len(addresses)
  BY LenProperties DEF ParseTypeInv
<1>8. ASSUME Named = {} PROVE addresses = <<>>
  <2>1. \A i \in 1 .. Len(addresses) : FALSE
    BY <1>6, <1>8
  <2>2. Len(addresses) = 0
    BY <1>7, <2>1
  <2> QED BY <2>2, EmptySeq DEF ParseTypeInv
<1>9. ASSUME Named # {} PROVE EffectiveAddresses /\ addresses # <<>>
  <2>1. PICK p \in Named : TRUE
    BY <1>9
  <2>2. \E i \in 1 .. Len(addresses) : position[i] = p
    BY <1>5, <1>6 DEF Enumerates
  <2>3. addresses # <<>>
    BY <2>2
  <2>4. EffectiveAddresses
    BY <1>5, <1>6, <1>7, <1>9 DEF EffectiveAddresses, Enumerates
  <2> QED BY <2>3, <2>4
<1> QED BY <1>2, <1>4, <1>8, <1>9 DEF WholeLine

\* What the command line gives for an interval is a number.
LEMMA GivenInterval == Given("interval") = Unset \/ \E n \in Nat : Given("interval") = <<n>>
<1> DEFINE at == {i \in DOMAIN argv : argv[i] \in ValuedFlags /\ OptionOf(argv[i]) = "interval"}
           word == argv[Max(at) + 1]
<1>1. Given("interval") = Unset \/ Given("interval") = Converted("interval", word)
  BY DEF Given
<1>2. Converted("interval", word) = IF word \in DOMAIN Seconds THEN <<Seconds[word]>> ELSE Unset
  BY DEF Converted
<1> HIDE DEF word
<1> QED BY <1>1, <1>2, CommandLineAssumption DEF CommandLineAssumption
-----------------------------------------------------------------------------
(* The file, and what main checks.                                         *)

Settled == EffectiveValues /\ EffectiveAddresses /\ HelpInv

LEMMA ScanEndsKeeps ==
  ParseTypeInv /\ ScanInv /\ ScanEnds =>
    IF outcome' = "file" THEN Given("configPath") # Unset ELSE Settled
<1> SUFFICES ASSUME ParseTypeInv, ScanInv, ScanEnds
             PROVE  IF outcome' = "file" THEN Given("configPath") # Unset ELSE Settled
  OBVIOUS
<1>1. WholeLine
  BY EverythingScanned DEF ScanEnds
<1>2. "configPath" \in ValuedOptions /\ Default("configPath") = Unset
  BY OptionFacts DEF Default
<1>3. options.configPath = Given("configPath")
  BY <1>1, <1>2 DEF WholeLine, Coalesce
<1>4. CASE options.configPath # Unset
  BY <1>3, <1>4 DEF ScanEnds
<1>5. CASE options.configPath = Unset
  <2>1. outcome' = "tls"
    BY <1>5 DEF ScanEnds
  <2>2. \A option : FromFile(option) = Unset
    BY <1>3, <1>5 DEF FromFile
  <2>3. EffectiveValues
    <3>1. ASSUME NEW option \in Strings \cup {"interval", "logLevel"}
          PROVE  options[option] = Effective(option)
      <4>1. options[option] = Coalesce(Given(option), Default(option))
        BY <1>1, OptionFacts DEF WholeLine
      <4> QED BY <2>2, <4>1 DEF Effective, Coalesce
    <3>2. options.rejectUnauthorized = IF IsGiven("--mqtt-insecure") THEN <<"no">> ELSE FromFile("rejectUnauthorized")
      BY <1>1, <2>2 DEF WholeLine
    <3>3. options.runOnce = IF IsGiven("--once") \/ FromFile("runOnce") = <<"yes">> THEN <<"yes">> ELSE <<"no">>
      <4>1. FromFile("runOnce") # <<"yes">>
        BY <2>2 DEF Unset
      <4> QED BY <1>1, <4>1 DEF WholeLine
    <3> QED BY <3>1, <3>2, <3>3 DEF EffectiveValues
  <2>4. EffectiveAddresses
    <3>1. CASE Named # {}
      BY <1>1, <3>1 DEF WholeLine
    <3>2. CASE Named = {}
      <4>1. addresses = <<>>
        BY <1>1, <3>2 DEF WholeLine
      <4>2. Coalesce(FromFile("addresses"), << <<>> >>)[1] = <<>>
        BY <2>2 DEF Coalesce
      <4> QED BY <3>2, <4>1, <4>2 DEF EffectiveAddresses
    <3> QED BY <3>1, <3>2
  <2> QED BY <1>1, <2>1, <2>3, <2>4 DEF WholeLine, Settled
<1> QED BY <1>4, <1>5

\* What the command line and the file say does not change.
LEMMA MeaningKept ==
  ASSUME argv' = argv, file' = file
  PROVE  /\ \A option : /\ Given(option)' = Given(option)
                        /\ FromFile(option)' = FromFile(option)
                        /\ Effective(option)' = Effective(option)
                        /\ Yields(option)' <=> Yields(option)
         /\ \A switch : IsGiven(switch)' <=> IsGiven(switch)
         /\ Named' = Named
<1>1. \A option : Given(option)' = Given(option)
  BY DEF Given
<1>2. \A option : FromFile(option)' = FromFile(option)
  BY <1>1 DEF FromFile
<1>3. \A option : Effective(option)' = Effective(option)
  BY <1>1, <1>2 DEF Effective
<1>4. \A option : Yields(option)' <=> Yields(option)
  BY <1>1 DEF Yields
<1>5. \A i : IsValue(i)' <=> IsValue(i)
  BY DEF IsValue
<1>6. \A switch : IsGiven(switch)' <=> IsGiven(switch)
  BY <1>5 DEF IsGiven
<1>7. Named' = Named
  BY <1>5 DEF Named
<1> QED BY <1>1, <1>2, <1>3, <1>4, <1>6, <1>7

LEMMA SettledKept ==
  Settled /\ UNCHANGED <<argv, file, options, addresses>> => Settled'
<1> SUFFICES ASSUME Settled, UNCHANGED <<argv, file, options, addresses>> PROVE Settled'
  OBVIOUS
<1>1. EffectiveValues'
  BY MeaningKept DEF Settled, EffectiveValues
<1>2. EffectiveAddresses'
  BY MeaningKept DEF Settled, EffectiveAddresses
<1>3. HelpInv'
  BY MeaningKept DEF Settled, HelpInv
<1> QED BY <1>1, <1>2, <1>3 DEF Settled

LEMMA ReadConfigFileKeeps ==
  ParseTypeInv /\ WholeLine /\ Given("configPath") # Unset /\ ReadConfigFile /\ outcome' # "usage"
    => ParseTypeInv' /\ Settled' /\ outcome' = "tls"
<1> SUFFICES ASSUME ParseTypeInv, WholeLine, Given("configPath") # Unset, ReadConfigFile, outcome' # "usage"
             PROVE  ParseTypeInv' /\ Settled' /\ outcome' = "tls"
  OBVIOUS
<1> DEFINE filled == addresses = <<>> /\ file.addresses # Unset
           listed == IF filled THEN file.addresses[1] ELSE <<>>
           found == [i \in DOMAIN listed |-> Address[listed[i]]]
<1>1. /\ FileIsValid
      /\ \A i \in DOMAIN listed : listed[i] \in DOMAIN Address
      /\ options' = [option \in DOMAIN options |-> Merged(option)]
      /\ addresses' = addresses \o found
      /\ outcome' = "tls"
      /\ UNCHANGED <<argv, file>>
  BY DEF ReadConfigFile, Fail
<1>2. \A option : FromFile(option) = file[option]
  BY DEF FromFile
<1>3. \A option \in Options : options'[option] = Merged(option)
  BY <1>1 DEF ParseTypeInv
<1>4. listed \in Seq(STRING)
  <2>1. CASE filled
    <3>1. file.addresses # Wrong /\ file.addresses # Unset
      BY <1>1, <2>1 DEF FileIsValid, Members
    <3>2. file.addresses[1] \in Seq(STRING)
      BY <3>1, CommandLineAssumption DEF CommandLineAssumption, ParseTypeInv
    <3> QED BY <2>1, <3>2
  <2>2. CASE ~filled
    <3>1. listed = <<>>
      BY <2>2
    <3> HIDE DEF listed, filled
    <3> QED BY <3>1
  <2> QED BY <2>1, <2>2
<1>5. Len(listed) \in Nat /\ DOMAIN listed = 1 .. Len(listed)
  BY <1>4, LenProperties
<1> HIDE DEF listed
<1>6. found \in Seq(Addresses)
  <2>1. \A i \in DOMAIN listed : Address[listed[i]] \in Addresses
    BY <1>1 DEF Addresses
  <2>2. found \in [1 .. Len(listed) -> Addresses]
    BY <1>5, <2>1
  <2> QED BY <1>5, <2>2
<1> HIDE DEF found
<1>7. addresses \in Seq(Addresses)
  BY DEF ParseTypeInv
<1>8. ParseTypeInv'
  <2>1. addresses' \in Seq(Addresses)
    BY <1>1, <1>6, <1>7, ConcatProperties
  <2>2. DOMAIN options = Options
    BY DEF ParseTypeInv
  <2>3. options' = [option \in Options |-> options'[option]]
    BY <1>1, <2>2
  <2> QED BY <1>1, <2>1, <2>3 DEF ParseTypeInv
<1>9. EffectiveValues'
  <2>1. ASSUME NEW option \in Strings
        PROVE  options'[option] = Effective(option)
    <3>1. options[option] = Coalesce(Given(option), Default(option)) /\ option \in Options
      BY OptionFacts DEF WholeLine
    <3>2. Merged(option) = Coalesce(options[option], file[option])
      BY DEF Merged, Strings, PemPaths
    <3>3. Default(option) = Unset
      BY DEF Default, Strings, PemPaths
    <3> QED BY <1>2, <1>3, <3>1, <3>2, <3>3 DEF Effective, Coalesce
  <2>2. ~Yields("interval") => options'["interval"] = Effective("interval")
    <3>1. options["interval"] = Coalesce(Given("interval"), <<0>>) /\ "interval" \in Options /\ Default("interval") = <<0>>
      BY OptionFacts DEF WholeLine, Default
    <3>2. Merged("interval") = IF options["interval"][1] > 0 THEN options["interval"] ELSE Coalesce(file["interval"], <<0>>)
      BY DEF Merged, Strings, PemPaths
    <3>3. CASE Given("interval") = Unset
      BY <1>2, <1>3, <3>1, <3>2, <3>3 DEF Effective, Yields, Coalesce
    <3>4. ASSUME NEW n \in Nat, Given("interval") = <<n>>
          PROVE  ~Yields("interval") => options'["interval"] = Effective("interval")
      <4>1. Given("interval") # Unset
        BY <3>4 DEF Unset
      <4>2. options["interval"] = <<n>>
        BY <3>1, <3>4, <4>1 DEF Coalesce
      <4>3. CASE n = 0
        BY <3>1, <3>4, <4>3 DEF Yields
      <4>4. CASE n > 0
        <5>1. Given("interval") # <<0>>
          BY <3>4, <4>4
        <5>2. options'["interval"] = <<n>>
          BY <1>3, <3>1, <3>2, <4>2, <4>4
        <5> QED BY <3>1, <3>4, <4>1, <5>1, <5>2 DEF Yields, Effective, Coalesce
      <4> QED BY <4>3, <4>4
    <3> QED BY <3>3, <3>4, GivenInterval
  <2>3. ~Yields("logLevel") => options'["logLevel"] = Effective("logLevel")
    <3>1. options["logLevel"] = Coalesce(Given("logLevel"), <<"info">>) /\ "logLevel" \in Options /\ Default("logLevel") = <<"info">>
      BY OptionFacts DEF WholeLine, Default
    <3>2. Merged("logLevel") = IF options["logLevel"] # <<"info">> THEN options["logLevel"] ELSE Coalesce(file["logLevel"], <<"info">>)
      BY DEF Merged, Strings, PemPaths
    <3> QED BY <1>2, <1>3, <3>1, <3>2 DEF Yields, Effective, Coalesce
  <2>4. options'["rejectUnauthorized"] = IF IsGiven("--mqtt-insecure") THEN <<"no">> ELSE FromFile("rejectUnauthorized")
    <3>1. Merged("rejectUnauthorized") = Coalesce(options["rejectUnauthorized"], file["rejectUnauthorized"])
      BY DEF Merged, RejectUnauthorized, Strings, PemPaths
    <3>2. <<"no">> # Unset
      BY DEF Unset
    <3> QED BY <1>2, <1>3, <3>1, <3>2, OptionFacts DEF WholeLine, Coalesce
  <2>5. options'["runOnce"] = IF IsGiven("--once") \/ FromFile("runOnce") = <<"yes">> THEN <<"yes">> ELSE <<"no">>
    <3>1. Merged("runOnce") = IF <<"yes">> \in {options["runOnce"], file["runOnce"]} THEN <<"yes">> ELSE <<"no">>
      BY DEF Merged, Strings, PemPaths
    <3>2. <<"no">> # <<"yes">>
      OBVIOUS
    <3> QED BY <1>2, <1>3, <3>1, <3>2, OptionFacts DEF WholeLine
  <2> QED BY <1>1, <2>1, <2>2, <2>3, <2>4, <2>5, MeaningKept DEF EffectiveValues
<1>10. HelpInv'
  <2>1. options'.help = options.help
    BY <1>3, OptionFacts DEF Merged, Strings, PemPaths
  <2> QED BY <1>1, <2>1, MeaningKept DEF WholeLine, HelpInv
<1>11. EffectiveAddresses'
  <2>1. CASE Named # {}
    <3>1. EffectiveAddresses /\ addresses # <<>>
      BY <2>1 DEF WholeLine
    <3>2. listed = <<>>
      BY <3>1 DEF listed
    <3>3. found = <<>>
      <4>1. Len(found) = 0
        BY <1>5, <1>6, <3>2 DEF found
      <4> QED BY <1>6, <4>1, EmptySeq
    <3>4. addresses' = addresses
      BY <1>1, <1>7, <3>3, ConcatEmptySeq
    <3> QED BY <1>1, <2>1, <3>1, <3>4, MeaningKept DEF EffectiveAddresses
  <2>2. CASE Named = {}
    <3>1. addresses = <<>>
      BY <2>2 DEF WholeLine
    <3>2. addresses' = found
      BY <1>1, <1>6, <3>1, ConcatEmptySeq
    <3>3. Coalesce(FromFile("addresses"), << <<>> >>)[1] = listed
      <4>1. CASE file.addresses = Unset
        BY <1>2, <3>1, <4>1 DEF Coalesce, listed
      <4>2. CASE file.addresses # Unset
        BY <1>2, <3>1, <4>2 DEF Coalesce, listed
      <4> QED BY <4>1, <4>2
    <3> QED BY <1>1, <2>2, <3>2, <3>3, MeaningKept DEF EffectiveAddresses, found
  <2> QED BY <2>1, <2>2
<1> QED BY <1>1, <1>8, <1>9, <1>10, <1>11 DEF Settled

LEMMA UnchangedScan == ScanInv /\ UNCHANGED <<argv, rest, options, addresses>> => ScanInv'
<1> SUFFICES ASSUME ScanInv, UNCHANGED <<argv, rest, options, addresses>> PROVE ScanInv'
  OBVIOUS
<1>1. Scanned' = Scanned /\ (\A i : IsValue(i)' <=> IsValue(i)) /\ \A i, option : Sets(i, option)' <=> Sets(i, option)
  BY DEF Scanned, IsValue, Sets
<1>2. RestInv'
  <2>1. IsValue(Scanned + 1)' <=> IsValue(Scanned + 1)
    BY <1>1 DEF IsValue
  <2> QED BY <1>1, <2>1 DEF ScanInv, RestInv
<1>3. ASSUME NEW option \in ValuedOptions PROVE ValueInv(option)'
  <2>1. Scanned \in Nat /\ Scanned' \in Nat /\ Scanned <= Scanned'
    BY <1>1, ScannedFacts DEF ScanInv
  <2>2. \A i \in Scanned + 1 .. Scanned' : ~Sets(i, option)
    BY <1>1, <2>1
  <2> QED BY <2>1, <2>2, ValueKept DEF ScanInv
<1>4. \A switch : SwitchSeen(switch)' <=> SwitchSeen(switch)
  BY <1>1 DEF SwitchSeen
<1>5. SwitchInv'
  BY <1>4 DEF ScanInv, SwitchInv
<1>6. NamedSeen' = NamedSeen
  BY <1>1 DEF NamedSeen
<1>7. AddressInv'
  BY <1>6, AddressesKept DEF ScanInv
<1> QED BY <1>2, <1>3, <1>5, <1>7 DEF ScanInv

LEMMA ParseStepInv == ParseInv /\ [ParseNext]_parseVars => ParseInv'
<1> SUFFICES ASSUME ParseInv, [ParseNext]_parseVars PROVE ParseInv'
  OBVIOUS
<1>1. CASE program # "bridge"
  <2>1. program' = program
    BY <1>1 DEF ParseNext, parseVars, ScanValue, ScanSwitch, ScanAddress, ScanEnds, ReadConfigFile, ReadTlsFiles,
                Main, SingleAddress, Fail, Scanning
  <2> QED BY <1>1, <2>1 DEF ParseInv
<1>2. CASE outcome' = "usage"
  <2>1. ParseTypeInv' \/ program' # "bridge"
    <3>1. CASE UNCHANGED <<program, options, addresses, file>>
      BY <3>1 DEF ParseInv, ParseTypeInv
    <3>2. CASE program' # "bridge"
      BY <3>2
    <3> QED
      BY <1>2, <3>1, <3>2 DEF ParseNext, parseVars, ScanValue, ScanSwitch, ScanAddress, ScanEnds, ReadConfigFile,
                     ReadTlsFiles, Main, SingleAddress, Fail, Scanning
  <2> QED BY <1>2, <2>1 DEF ParseInv
<1>3. CASE program = "bridge" /\ outcome' # "usage"
  <2> USE <1>3
  <2>1. CASE ScanValue
    <3>1. outcome = "scan" /\ outcome' = outcome
      BY <2>1 DEF ScanValue, Scanning, Fail
    <3> QED BY <2>1, <3>1, ScanValueKeeps DEF ParseInv
  <2>2. CASE ScanSwitch
    <3>1. outcome = "scan" /\ outcome' = outcome
      BY <2>2 DEF ScanSwitch, Scanning
    <3> QED BY <2>2, <3>1, ScanSwitchKeeps DEF ParseInv
  <2>3. CASE ScanAddress
    <3>1. outcome = "scan" /\ outcome' = outcome
      BY <2>3 DEF ScanAddress, Scanning, Fail
    <3> QED BY <2>3, <3>1, ScanAddressKeeps DEF ParseInv
  <2>4. CASE ScanEnds
    <3>1. /\ outcome = "scan" /\ outcome' \in {"file", "tls"} /\ rest = <<>>
          /\ UNCHANGED <<argv, file, rest, options, addresses>>
      BY <2>4 DEF ScanEnds
    <3>2. ParseTypeInv /\ ScanInv
      BY <3>1 DEF ParseInv
    <3>3. ParseTypeInv'
      BY <3>1, <3>2 DEF ParseTypeInv
    <3>4. CASE outcome' = "file"
      <4>1. Given("configPath")' # Unset
        BY <2>4, <3>1, <3>2, <3>4, ScanEndsKeeps, MeaningKept
      <4>2. ScanInv'
        BY <3>1, <3>2, UnchangedScan
      <4> QED BY <3>1, <3>3, <3>4, <4>1, <4>2 DEF ParseInv
    <3>5. CASE outcome' = "tls"
      <4>1. Settled'
        BY <2>4, <3>1, <3>2, <3>5, ScanEndsKeeps, SettledKept
      <4> QED BY <3>3, <3>5, <4>1 DEF ParseInv, Settled
    <3> QED BY <3>1, <3>4, <3>5
  <2>5. CASE ReadConfigFile
    <3>1. outcome = "file"
      BY <2>5 DEF ReadConfigFile
    <3>2. ParseTypeInv /\ WholeLine /\ Given("configPath") # Unset
      BY <3>1, EverythingScanned DEF ParseInv
    <3>3. ParseTypeInv' /\ Settled' /\ outcome' = "tls"
      BY <2>5, <3>2, ReadConfigFileKeeps
    <3> QED BY <3>3 DEF ParseInv, Settled
  <2>6. CASE ReadTlsFiles
    <3>1. outcome = "tls" /\ outcome' = "main" /\ PemInv /\ UNCHANGED <<argv, file, options, addresses>>
      BY <2>6 DEF ReadTlsFiles, Fail, PemInv
    <3>2. ParseTypeInv /\ Settled
      BY <3>1 DEF ParseInv, Settled
    <3>3. ParseTypeInv' /\ Settled' /\ PemInv'
      BY <3>1, <3>2, SettledKept DEF ParseTypeInv, PemInv
    <3> QED BY <3>1, <3>3 DEF ParseInv, Settled
  <2>7. CASE Main
    <3>1. outcome = "main" /\ UNCHANGED <<argv, file, options, addresses>>
      BY <2>7 DEF Main
    <3>2. outcome' = "help" \/ (outcome' = "runs" /\ options.help # <<"yes">> /\ options.brokerUrl \notin {Unset, <<"">>} /\ addresses # <<>>)
      BY <2>7 DEF Main
    <3>3. ParseTypeInv /\ Settled /\ PemInv
      BY <3>1 DEF ParseInv, Settled
    <3>4. ParseTypeInv' /\ Settled' /\ PemInv'
      BY <3>1, <3>3, SettledKept DEF ParseTypeInv, PemInv
    <3> QED BY <3>1, <3>2, <3>4 DEF ParseInv, Settled
  <2>8. CASE SingleAddress
    BY <2>8 DEF SingleAddress
  <2>9. CASE UNCHANGED parseVars
    <3>1. UNCHANGED <<program, argv, file, rest, options, addresses, outcome>>
      BY <2>9 DEF parseVars
    <3>2. ParseTypeInv /\ ParseTypeInv'
      BY <3>1 DEF ParseInv, ParseTypeInv
    <3>3. CASE outcome \in {"scan", "file"}
      <4>1. ScanInv'
        BY <3>1, <3>3, UnchangedScan DEF ParseInv
      <4>2. outcome' = "file" => rest' = <<>> /\ Given("configPath")' # Unset
        BY <3>1, MeaningKept DEF ParseInv
      <4> QED BY <3>1, <3>2, <3>3, <4>1, <4>2 DEF ParseInv
    <3>4. CASE outcome \in {"tls", "main", "runs"}
      <4>1. Settled'
        BY <3>1, <3>4, SettledKept DEF ParseInv, Settled
      <4>2. outcome \in {"main", "runs"} => PemInv'
        BY <3>1 DEF ParseInv, PemInv
      <4> QED BY <3>1, <3>2, <3>4, <4>1, <4>2 DEF ParseInv, Settled
    <3>5. CASE outcome \notin {"scan", "file", "tls", "main", "runs"}
      BY <3>1, <3>2, <3>5 DEF ParseInv
    <3> QED BY <3>3, <3>4, <3>5
  <2> QED BY <2>1, <2>2, <2>3, <2>4, <2>5, <2>6, <2>7, <2>8, <2>9 DEF ParseNext
<1> QED BY <1>1, <1>2, <1>3

LEMMA InvEffective == ParseInv => EffectiveOptions
<1>1. ASSUME ParseInv, program = "bridge", outcome = "runs", NEW switch \in Help PROVE ~IsGiven(switch)
  BY <1>1 DEF ParseInv, HelpInv
<1> QED BY <1>1 DEF ParseInv, EffectiveOptions, PemInv

\* The options that the bridge runs with (cli/bluetti-mqtt.ts parseArgs): the last
\* value of the command line, else the file's, else the default.  It says nothing of a
\* zero interval or the level info on the command line, for which this is not so.
THEOREM OptionsAreEffective == ParseSpec => []EffectiveOptions
<1>1. ParseInit => ParseInv
  BY ParseInitInv
<1>2. ParseInv /\ [ParseNext]_parseVars => ParseInv'
  BY ParseStepInv
<1> QED BY <1>1, <1>2, InvEffective, PTL DEF ParseSpec
-----------------------------------------------------------------------------
(* The program: the scanner until it launches the server, and the server.  *)

ProgramInv == IInv /\ (outcome = "launched" \/ ParseInv)

LEMMA LaunchKeeps == IInv /\ Launch => IInv'
<1> SUFFICES ASSUME IInv, Launch PROVE IInv'
  OBVIOUS
<1>1. /\ runOnce' \in BOOLEAN
      /\ UNCHANGED <<main, client, rawClient, parserListener, messageListener, helper, signalled, stopRequested>>
      /\ UNCHANGED <<loop, left, session, known, command>>
  BY DEF Launch, bridgeVars, signalVars, loopVars
<1> USE <1>1 DEF IInv
<1>2. TypeOK' /\ LeftInv'
  BY DEF TypeOK, LeftInv
<1>3. PhaseInv' /\ BeforeInv'
  BY DEF PhaseInv, Silent, Listening, BeforeInv
<1>4. AfterInv' /\ ClosedInv' /\ HeldInv' /\ OneJobPerDevice'
  BY DEF AfterInv, ClosedInv, HeldInv, OneJobPerDevice, Threw
<1> QED BY <1>2, <1>3, <1>4

\* From the first word of its command line to its end (bluetti-mqtt.ts main), the
\* program keeps the promises of the scanner and those of the server.
THEOREM ProgramKeepsPromises ==
  ProgramSpec => [](TypeOK /\ ReleasedWhenOver /\ ClientOutlivesPolling /\ OneJobPerDevice /\ EffectiveOptions)
<1>1. ProgramInit => ProgramInv
  BY InitIInv, ParseInitInv DEF ProgramInit, ProgramInv
<1>2. ProgramInv /\ [ProgramNext]_programVars => ProgramInv'
  <2> SUFFICES ASSUME ProgramInv, [ProgramNext]_programVars PROVE ProgramInv'
    OBVIOUS
  <2>1. CASE Parse
    <3>1. outcome # "launched"
      BY <2>1 DEF Parse, ParseNext, ScanValue, ScanSwitch, ScanAddress, ScanEnds, ReadConfigFile, ReadTlsFiles,
                  Main, SingleAddress, Scanning
    <3>2. ParseNext /\ UNCHANGED vars
      BY <2>1 DEF Parse
    <3> QED BY <3>1, <3>2, StepIInv, ParseStepInv DEF ProgramInv
  <2>2. CASE Launch
    <3>1. outcome' = "launched"
      BY <2>2 DEF Launch
    <3> QED BY <2>2, <3>1, LaunchKeeps DEF ProgramInv
  <2>3. CASE Launched(Next)
    <3>1. outcome' = "launched" /\ Next
      BY <2>3 DEF Launched, parseVars
    <3> QED BY <3>1, StepIInv DEF ProgramInv
  <2>4. CASE UNCHANGED programVars
    <3>1. UNCHANGED vars /\ UNCHANGED parseVars /\ outcome' = outcome
      BY <2>4 DEF programVars, parseVars
    <3> QED BY <3>1, StepIInv, ParseStepInv DEF ProgramInv
  <2> QED BY <2>1, <2>2, <2>3, <2>4 DEF ProgramNext
<1>3. ProgramInv => TypeOK /\ ReleasedWhenOver /\ ClientOutlivesPolling /\ OneJobPerDevice /\ EffectiveOptions
  <2>1. IInv => TypeOK /\ OneJobPerDevice
    BY DEF IInv
  <2>2. outcome = "launched" => EffectiveOptions
    BY DEF EffectiveOptions
  <2> QED BY <2>1, <2>2, InvReleases, InvOutlives, InvEffective DEF ProgramInv
<1> QED BY <1>1, <1>2, <1>3, PTL DEF ProgramSpec
=============================================================================
