----------------------- MODULE HelperTransportProofs -----------------------
(***************************************************************************)
(* The transport keeps its contract, for every set of transports, every    *)
(* number of attempts and every number of notifications.  A one-shot       *)
(* command is a use of the transport, so that what is proved of it holds   *)
(* in the command too, which reports what went wrong first.                *)
(***************************************************************************)
EXTENDS OneShotCommand, FiniteSetTheorems, TLAPS

Holding == {"reading", "subscribing", "ready"}
Hearing == {"subscribing", "ready"}

\* What the phase of a session says of its transport.
Ownership ==
  \A t \in Transport :
    /\ listener[t] = sessionId[t]
    /\ sessionId[t] = IF phase[t] \in Holding THEN attempt[t] ELSE 0
    /\ callback[t] <=> phase[t] \in Hearing
    /\ phase[t] # "new" => attempt[t] # 0

\* A listener belongs to a transport that has a session, and until the client is
\* disposed every such transport has its listener.
ListenersOwned ==
  /\ \A l \in listeners : sessionId[l[1]] = l[2] /\ l[2] # 0
  /\ ~disposed => \A t \in Transport : sessionId[t] # 0 => <<t, sessionId[t]>> \in listeners

\* The session asked for notifications, or was given up.
Begun(s) ==
  \/ s[2] < attempt[s[1]]
  \/ s[2] = attempt[s[1]] /\ phase[s[1]] \notin {"connecting", "reading"}

\* A request for the notifications of a session is on its way.
AsksFor(s) == \E i \in DOMAIN pipe : pipe[i].op = "subscribe" /\ pipe[i].of = s

\* No notification can exist before its session asked for them.
NothingEarly ==
  /\ \A s \in Session : AsksFor(s) => Begun(s)
  /\ \A s \in handlers : Begun(s)
  /\ \A n \in emitted : Begun(n[1])
  /\ routed \subseteq emitted
  /\ \A n \in Note : n \notin routed => heard[n] = 0

IInv == TypeOK /\ Ownership /\ ListenersOwned /\ NothingEarly /\ NothingMissed

\* The request that a phase sends, if it sends one.
LEMMA AwaitsType ==
  ASSUME NEW p \in DOMAIN Awaits
  PROVE  /\ Awaits[p] \in {"connect", "read", "subscribe", "disconnect"}
         /\ Awaits[p] = "subscribe" => p = "subscribing"
  BY DEF Awaits

\* What entering a phase does to the pipe.
LEMMA EnterPipe ==
  ASSUME TypeOK, NEW t \in Transport, NEW p \in Phase, NEW k \in Attempt, Enter(t, p, k)
  PROVE  /\ phase' = [phase EXCEPT ![t] = p]
         /\ phase' \in [Transport -> Phase]
         /\ pipe' \in Seq(Request)
         /\ \A s \in Session : AsksFor(s)' => AsksFor(s) \/ (p = "subscribing" /\ s = <<t, k>>)
<1>1. phase' = [phase EXCEPT ![t] = p] /\ phase' \in [Transport -> Phase]
  BY DEF Enter, TypeOK
<1>2. CASE pipe' = pipe
  BY <1>1, <1>2 DEF TypeOK, AsksFor
<1>3. CASE p \in DOMAIN Awaits /\ pipe' = Append(pipe, [op |-> Awaits[p], of |-> <<t, k>>])
  <2> DEFINE r == [op |-> Awaits[p], of |-> <<t, k>>]
  <2>1. r \in Request
    BY <1>3, AwaitsType DEF Request, Session
  <2>2. pipe \in Seq(Request)
    BY DEF TypeOK
  <2>3. r.op = "subscribe" => p = "subscribing"
    BY <1>3, AwaitsType
  <2>4. r.of = <<t, k>>
    OBVIOUS
  <2> HIDE DEF r
  <2>5. pipe' = Append(pipe, r)
    BY <1>3 DEF r
  <2>6. \A s \in Session : AsksFor(s)' => AsksFor(s) \/ (p = "subscribing" /\ s = <<t, k>>)
    <3> SUFFICES ASSUME NEW s \in Session, NEW i \in DOMAIN pipe',
                        pipe'[i].op = "subscribe", pipe'[i].of = s
                 PROVE  AsksFor(s) \/ (p = "subscribing" /\ s = <<t, k>>)
      BY DEF AsksFor
    <3>1. i \in 1 .. Len(pipe) + 1 /\ Len(pipe) \in Nat
      BY <2>1, <2>2, <2>5
    <3>2. CASE i \in 1 .. Len(pipe)
      <4>1. pipe'[i] = pipe[i] /\ i \in DOMAIN pipe
        BY <2>1, <2>2, <2>5, <3>2
      <4> QED
        BY <4>1 DEF AsksFor
    <3>3. CASE i = Len(pipe) + 1
      <4>1. pipe'[i] = r
        BY <2>1, <2>2, <2>5, <3>1, <3>3
      <4> QED
        BY <2>3, <2>4, <4>1
    <3> QED
      BY <3>1, <3>2, <3>3
  <2> QED
    BY <1>1, <2>1, <2>2, <2>5, <2>6
<1> QED
  BY <1>2, <1>3 DEF Enter

LEMMA InitIInv == ASSUME Init PROVE IInv
<1> USE TransportAssumption DEF TransportAssumption
<1>1. TypeOK
  <2>1. phase \in [Transport -> Phase]
    BY DEF Init, Phase
  <2>2. /\ attempt \in [Transport -> 0 .. RetryCount]
        /\ sessionId \in [Transport -> 0 .. RetryCount]
        /\ listener \in [Transport -> 0 .. RetryCount]
        /\ callback \in [Transport -> BOOLEAN]
    BY DEF Init
  <2>3. heard \in [Note -> Nat]
    BY DEF Init
  <2>4. pipe \in Seq(Request)
    BY DEF Init
  <2> QED
    BY <2>1, <2>2, <2>3, <2>4 DEF Init, TypeOK
<1>2. Ownership
  BY DEF Init, Ownership, Holding, Hearing
<1>3. ListenersOwned /\ NothingEarly /\ NothingMissed
  BY DEF Init, ListenersOwned, NothingEarly, NothingMissed, AsksFor
<1> QED
  BY <1>1, <1>2, <1>3 DEF IInv

-----------------------------------------------------------------------------
(* The steps of the session.                                               *)

\* A session that moves on changes nothing of another transport, and what it had
\* begun stays begun.
LEMMA SessionStep ==
  ASSUME IInv, NEW t \in Transport, NEW p \in Phase, NEW k \in Attempt, Enter(t, p, k),
         UNCHANGED <<disposed, helperVars, answered, noteVars>>,
         attempt' \in [Transport -> 0 .. RetryCount],
         \A u \in Transport \ {t} : attempt'[u] = attempt[u],
         \/ attempt'[t] = attempt[t] /\ (phase[t] \notin {"connecting", "reading"} => p \notin {"connecting", "reading"})
         \/ attempt'[t] > attempt[t],
         p = "subscribing" => k = attempt'[t]
  PROVE  NothingEarly'
<1>1. \A s \in Session : Begun(s) => Begun(s)'
  <2> SUFFICES ASSUME NEW s \in Session, Begun(s) PROVE Begun(s)'
    OBVIOUS
  <2>1. s[1] \in Transport /\ s[2] \in Attempt /\ attempt[s[1]] \in Int /\ attempt'[s[1]] \in Int /\ s[2] \in Int
    BY DEF Session, Attempt, IInv, TypeOK
  <2>2. CASE s[1] # t
    BY <2>1, <2>2, EnterPipe DEF Begun, IInv, TypeOK
  <2>3. CASE s[1] = t
    BY <2>1, <2>3, EnterPipe DEF Begun, IInv, TypeOK
  <2> QED
    BY <2>2, <2>3
<1>2. \A s \in Session : AsksFor(s)' => Begun(s)'
  <2> SUFFICES ASSUME NEW s \in Session, AsksFor(s)' PROVE Begun(s)'
    OBVIOUS
  <2>1. CASE AsksFor(s)
    BY <1>1, <2>1 DEF IInv, NothingEarly
  <2>2. CASE p = "subscribing" /\ s = <<t, k>>
    BY <2>2, EnterPipe DEF Begun, IInv, TypeOK
  <2> QED
    BY <2>1, <2>2, EnterPipe DEF IInv
<1>3. \A s \in handlers : Begun(s)'
  BY <1>1 DEF IInv, TypeOK, NothingEarly
<1>4. \A n \in emitted : Begun(n[1])'
  BY <1>1 DEF IInv, TypeOK, NothingEarly, Note
<1> QED
  BY <1>2, <1>3, <1>4 DEF NothingEarly, helperVars, noteVars, IInv

LEMMA ConnectStep == ASSUME IInv, NEW t \in Transport, Connect(t) PROVE IInv'
<1> DEFINE k == attempt[t] + 1
<1> USE TransportAssumption DEF TransportAssumption
<1>1. k \in Attempt /\ attempt[t] \in Int
  BY DEF Connect, AttemptsLeft, Attempt, IInv, TypeOK
<1>2. /\ phase' = [phase EXCEPT ![t] = "connecting"]
      /\ phase' \in [Transport -> Phase]
      /\ pipe' \in Seq(Request)
  BY <1>1, EnterPipe DEF Connect, IInv, Phase
<1>3. attempt' = [attempt EXCEPT ![t] = k] /\ attempt' \in [Transport -> 0 .. RetryCount]
  BY <1>1 DEF Connect, IInv, TypeOK, Attempt
<1>4. TypeOK'
  BY <1>2, <1>3 DEF Connect, SessionFrame, IInv, TypeOK, transportVars, helperVars, noteVars
<1>5. Ownership'
  BY <1>1, <1>2, <1>3 DEF Connect, IInv, Ownership, TypeOK, transportVars, Holding, Hearing
<1>6. ListenersOwned'
  BY DEF Connect, SessionFrame, IInv, ListenersOwned, transportVars
<1>7. NothingEarly'
  <2>1. \A u \in Transport \ {t} : attempt'[u] = attempt[u]
    BY <1>3 DEF IInv, TypeOK
  <2>2. attempt'[t] > attempt[t]
    BY <1>1, <1>3 DEF IInv, TypeOK
  <2>3. Enter(t, "connecting", k) /\ UNCHANGED <<disposed, helperVars, answered, noteVars>>
    BY DEF Connect, SessionFrame
  <2>4. "connecting" \in Phase
    BY DEF Phase
  <2> HIDE DEF k
  <2> QED
    BY <1>1, <1>3, <2>1, <2>2, <2>3, <2>4, SessionStep
<1>8. NothingMissed'
  BY <1>2 DEF Connect, SessionFrame, IInv, NothingMissed, TypeOK, transportVars, noteVars
<1> QED
  BY <1>4, <1>5, <1>6, <1>7, <1>8 DEF IInv

\* The same for a step within an attempt.
LEMMA SteadyStep ==
  ASSUME IInv, NEW t \in Transport, NEW p \in Phase, NEW k \in Attempt, Enter(t, p, k),
         SessionFrame, UNCHANGED attempt,
         phase[t] \notin {"connecting", "reading"} => p \notin {"connecting", "reading"},
         p = "subscribing" => k = attempt[t]
  PROVE  NothingEarly'
<1>1. UNCHANGED <<disposed, helperVars, answered, noteVars>>
  BY DEF SessionFrame
<1>2. attempt' \in [Transport -> 0 .. RetryCount]
  BY DEF IInv, TypeOK
<1> QED
  BY <1>1, <1>2, SessionStep

\* The attempt that a session is in, once there is one.
LEMMA InAttempt ==
  ASSUME IInv, NEW t \in Transport, phase[t] # "new"
  PROVE  /\ attempt[t] \in Attempt /\ attempt[t] # 0
         /\ sessionId[t] # 0 => sessionId[t] = attempt[t]
<1> USE TransportAssumption DEF TransportAssumption
<1> QED
  BY DEF IInv, Ownership, TypeOK, Attempt

LEMMA ConnectedStep == ASSUME IInv, NEW t \in Transport, Connected(t) PROVE IInv'
<1>1. attempt[t] \in Attempt /\ attempt[t] # 0 /\ attempt[t] \in 0 .. RetryCount
  BY InAttempt DEF Connected, IInv, TypeOK
<1>2. /\ phase' = [phase EXCEPT ![t] = "reading"]
      /\ phase' \in [Transport -> Phase]
      /\ pipe' \in Seq(Request)
  BY <1>1, EnterPipe DEF Connected, IInv, Phase
<1>3. TypeOK'
  BY <1>1, <1>2 DEF Connected, SessionFrame, IInv, TypeOK, helperVars, noteVars, Session
<1>4. Ownership'
  BY <1>1, <1>2 DEF Connected, IInv, Ownership, TypeOK, Holding, Hearing
<1>5. ListenersOwned'
  <2>1. sessionId[t] = 0
    BY DEF Connected, IInv, Ownership, Holding
  <2>2. \A l \in listeners : l \in Session /\ l[1] # t
    BY <2>1 DEF IInv, TypeOK, ListenersOwned
  <2> QED
    BY <1>1, <2>1, <2>2 DEF Connected, SessionFrame, IInv, ListenersOwned, TypeOK, Session
<1>6. NothingEarly'
  BY <1>1, SteadyStep DEF Connected, Phase
<1>7. NothingMissed'
  BY <1>2 DEF Connected, SessionFrame, IInv, NothingMissed, TypeOK, noteVars
<1> QED
  BY <1>3, <1>4, <1>5, <1>6, <1>7 DEF IInv

LEMMA NameReadStep == ASSUME IInv, NEW t \in Transport, NameRead(t) PROVE IInv'
<1>1. attempt[t] \in Attempt /\ attempt[t] # 0 /\ sessionId[t] = attempt[t]
  BY InAttempt DEF NameRead, IInv, Ownership, Holding
<1>2. /\ phase' = [phase EXCEPT ![t] = "subscribing"]
      /\ phase' \in [Transport -> Phase]
      /\ pipe' \in Seq(Request)
  BY <1>1, EnterPipe DEF NameRead, IInv, Phase
<1>3. TypeOK'
  BY <1>1, <1>2 DEF NameRead, SessionFrame, IInv, TypeOK, helperVars, noteVars
<1>4. Ownership'
  BY <1>1, <1>2 DEF NameRead, IInv, Ownership, TypeOK, Holding, Hearing
<1>5. ListenersOwned'
  BY DEF NameRead, SessionFrame, IInv, ListenersOwned
<1>6. NothingEarly'
  BY <1>1, SteadyStep DEF NameRead, Phase
<1>7. NothingMissed'
  \* Nothing has come yet: the session has not asked before this step.
  <2>1. ~Begun(<<t, attempt[t]>>)
    BY <1>1 DEF NameRead, Begun, Attempt
  <2>2. \A n \in routed : n[1] # <<t, attempt[t]>>
    BY <2>1 DEF IInv, NothingEarly
  <2> QED
    BY <1>1, <1>2, <2>2 DEF NameRead, SessionFrame, IInv, NothingMissed, TypeOK, noteVars
<1> QED
  BY <1>3, <1>4, <1>5, <1>6, <1>7 DEF IInv

\* A step that only moves on to a phase in which the transport is used alike.
LEMMA MoveStep ==
  ASSUME IInv, NEW t \in Transport, NEW p \in Phase, NEW k \in Attempt, Enter(t, p, k),
         UNCHANGED <<attempt, transportVars, listeners>>, SessionFrame,
         phase[t] # "new",
         p \notin {"connecting", "reading", "subscribing"},
         \/ phase[t] \notin Holding /\ p \notin Holding
         \/ phase[t] \in Hearing /\ p \in Hearing
  PROVE  IInv'
<1>1. /\ phase' = [phase EXCEPT ![t] = p]
      /\ phase' \in [Transport -> Phase]
      /\ pipe' \in Seq(Request)
  BY EnterPipe DEF IInv
<1>2. TypeOK'
  BY <1>1 DEF SessionFrame, IInv, TypeOK, transportVars, helperVars, noteVars
<1>3. Ownership'
  BY <1>1 DEF IInv, Ownership, TypeOK, transportVars, Holding, Hearing
<1>4. ListenersOwned'
  BY DEF SessionFrame, IInv, ListenersOwned, transportVars
<1>5. NothingEarly'
  BY SteadyStep
<1>6. NothingMissed'
  BY <1>1 DEF SessionFrame, IInv, NothingMissed, TypeOK, transportVars, noteVars, Hearing, Holding
<1> QED
  BY <1>2, <1>3, <1>4, <1>5, <1>6 DEF IInv

LEMMA SubscribedStep == ASSUME IInv, NEW t \in Transport, Subscribed(t) PROVE IInv'
  BY InAttempt, MoveStep DEF Subscribed, Phase, Hearing

LEMMA CleanedUpStep == ASSUME IInv, NEW t \in Transport, CleanedUp(t) PROVE IInv'
<1>1. PICK p \in RetryPhase(t) : Enter(t, p, attempt[t])
  BY DEF CleanedUp
<1>2. p \in {"failed", "pausing"}
  BY DEF RetryPhase
<1> QED
  BY <1>1, <1>2, InAttempt, MoveStep DEF CleanedUp, Phase, Holding

LEMMA DisconnectSettlesStep == ASSUME IInv, NEW t \in Transport, DisconnectSettles(t) PROVE IInv'
<1>1. PICK p \in {"closed", "close_failed"} : Enter(t, p, attempt[t])
  BY DEF DisconnectSettles
<1> QED
  BY <1>1, InAttempt, MoveStep DEF DisconnectSettles, Phase, Holding

\* The transport lets go of its connection: its listener and its callback go too.
LEMMA ForgetStep ==
  ASSUME IInv, NEW t \in Transport, NEW p \in Phase \ Holding, NEW k \in Attempt, Enter(t, p, k),
         ForgetConnection(t), UNCHANGED attempt, SessionFrame,
         phase[t] # "new", p # "connecting"
  PROVE  IInv'
<1>1. /\ phase' = [phase EXCEPT ![t] = p]
      /\ phase' \in [Transport -> Phase]
      /\ pipe' \in Seq(Request)
  BY EnterPipe DEF IInv
<1> USE TransportAssumption DEF TransportAssumption
<1>2. TypeOK'
  BY <1>1 DEF ForgetConnection, SessionFrame, IInv, TypeOK, helperVars, noteVars
<1>3. Ownership'
  BY <1>1, InAttempt DEF ForgetConnection, IInv, Ownership, TypeOK, Holding, Hearing
<1>4. ListenersOwned'
  <2>1. listener[t] = sessionId[t]
    BY DEF IInv, Ownership
  <2>2. \A l \in listeners : l \in Session /\ (l[1] = t => l = <<t, listener[t]>>)
    BY <2>1 DEF IInv, TypeOK, ListenersOwned, Session
  <2> QED
    BY <2>2 DEF ForgetConnection, SessionFrame, IInv, TypeOK, ListenersOwned, Session
<1>5. NothingEarly'
  BY SteadyStep DEF Holding
<1>6. NothingMissed'
  BY <1>1 DEF ForgetConnection, SessionFrame, IInv, NothingMissed, TypeOK, noteVars, Holding
<1> QED
  BY <1>2, <1>3, <1>4, <1>5, <1>6 DEF IInv

LEMMA InitializationFailsStep == ASSUME IInv, NEW t \in Transport, InitializationFails(t) PROVE IInv'
<1>1. phase[t] # "new" /\ attempt[t] \in Attempt /\ (sessionId[t] # 0 => sessionId[t] \in Attempt)
  BY InAttempt DEF InitializationFails
<1>2. CASE sessionId[t] = 0
  <2>1. PICK p \in RetryPhase(t) : Enter(t, p, attempt[t])
    BY <1>2 DEF InitializationFails
  <2>2. p \in {"failed", "pausing"}
    BY DEF RetryPhase
  <2> QED
    BY <1>1, <2>1, <2>2, ForgetStep DEF InitializationFails, Phase, Holding
<1>3. CASE sessionId[t] # 0
  BY <1>1, <1>3, ForgetStep DEF InitializationFails, Phase, Holding
<1> QED
  BY <1>2, <1>3

LEMMA DisconnectStep == ASSUME IInv, NEW t \in Transport, Disconnect(t) PROVE IInv'
<1>1. sessionId[t] \in Attempt
  BY InAttempt DEF Disconnect, IInv, Ownership, Holding
<1> QED
  BY <1>1, ForgetStep DEF Disconnect, Phase, Holding

-----------------------------------------------------------------------------
(* The steps of the client and of the helper.                              *)

\* A notification is passed on by the listener of its own session, if at all.
LEMMA OneHearer ==
  ASSUME IInv, NEW n \in Note
  PROVE  \/ /\ Hearers(n) = {n[1]} /\ Cardinality(Hearers(n)) = 1
            /\ n[1][1] \in Transport
            /\ sessionId[n[1][1]] = n[1][2] /\ n[1][2] # 0 /\ callback[n[1][1]]
         \/ Hearers(n) = {} /\ Cardinality(Hearers(n)) = 0
<1>1. \A l \in Hearers(n) : l = n[1] /\ callback[l[1]] /\ sessionId[l[1]] = l[2] /\ l[2] # 0
  <2> SUFFICES ASSUME NEW l \in Hearers(n)
               PROVE  l = n[1] /\ callback[l[1]] /\ sessionId[l[1]] = l[2] /\ l[2] # 0
    OBVIOUS
  <2>1. l \in listeners /\ n[1] = <<l[1], sessionId[l[1]]>> /\ callback[l[1]]
    BY DEF Hearers
  <2>2. sessionId[l[1]] = l[2] /\ l[2] # 0 /\ l = <<l[1], l[2]>>
    BY <2>1 DEF IInv, TypeOK, ListenersOwned, Session
  <2> QED
    BY <2>1, <2>2
<1>2. n[1] \in Session
  BY DEF Note
<1>3. CASE Hearers(n) = {}
  BY <1>3, FS_EmptySet
<1>4. CASE Hearers(n) # {}
  <2>1. Hearers(n) = {n[1]}
    BY <1>1, <1>4
  <2> QED
    BY <1>1, <1>2, <2>1, FS_Singleton DEF Session
<1> QED
  BY <1>3, <1>4

LEMMA RouteStep == ASSUME IInv, NEW n \in Note, Route(n) PROVE IInv'
<1>1. Cardinality(Hearers(n)) \in Nat
  BY OneHearer
<1>2. heard' = [heard EXCEPT ![n] = @ + Cardinality(Hearers(n))] /\ heard' \in [Note -> Nat]
  BY <1>1 DEF Route, IInv, TypeOK
<1>3. TypeOK'
  BY <1>2 DEF Route, IInv, TypeOK, transportVars, clientVars, helperVars
<1>4. Ownership' /\ ListenersOwned'
  BY DEF Route, IInv, Ownership, ListenersOwned, transportVars, clientVars
<1>5. NothingEarly'
  BY <1>2 DEF Route, IInv, TypeOK, NothingEarly, AsksFor, Begun, helperVars
<1>6. NothingMissed'
  <2> SUFFICES ASSUME NEW t \in Transport, phase[t] \in {"subscribing", "ready"}, ~disposed,
                      NEW m \in routed \cup {n}, m[1] = <<t, sessionId[t]>>
               PROVE  heard'[m] = 1
    BY DEF Route, NothingMissed, transportVars, clientVars
  <2>1. CASE m # n
    BY <1>2, <2>1 DEF IInv, TypeOK, NothingMissed
  <2>2. CASE m = n
    <3>1. heard[n] = 0
      BY DEF Route, IInv, NothingEarly
    <3>2. <<t, sessionId[t]>> \in listeners /\ callback[t] /\ sessionId[t] # 0
      BY InAttempt DEF IInv, Ownership, ListenersOwned, Holding, Hearing
    <3>3. <<t, sessionId[t]>> \in Hearers(n)
      BY <2>2, <3>2 DEF Hearers
    <3>4. Cardinality(Hearers(n)) = 1
      BY <3>3, OneHearer
    <3> QED
      BY <1>2, <2>2, <3>1, <3>4 DEF IInv, TypeOK
  <2> QED
    BY <2>1, <2>2
<1> QED
  BY <1>3, <1>4, <1>5, <1>6 DEF IInv

LEMMA EmitStep == ASSUME IInv, NEW n \in Note, Emit(n) PROVE IInv'
<1>1. TypeOK'
  BY DEF Emit, IInv, TypeOK, transportVars, clientVars, helperVars
<1>2. Ownership' /\ ListenersOwned' /\ NothingMissed'
  BY DEF Emit, IInv, Ownership, ListenersOwned, NothingMissed, transportVars, clientVars
<1>3. NothingEarly'
  BY DEF Emit, IInv, NothingEarly, AsksFor, Begun, helperVars
<1> QED
  BY <1>1, <1>2, <1>3 DEF IInv

\* The helper serves the head of the pipe: whatever else was asked for remains.
LEMMA ServeStep ==
  ASSUME IInv, ServeFrame,
         native' \subseteq Session, answered' \subseteq Request,
         handlers' \subseteq Session, pipe' \in Seq(Request),
         \A s \in Session : AsksFor(s)' => AsksFor(s),
         \A s \in handlers' : s \in handlers \/ AsksFor(s)
  PROVE  IInv'
<1>1. TypeOK'
  BY DEF ServeFrame, IInv, TypeOK, transportVars, clientVars, noteVars
<1>2. Ownership' /\ ListenersOwned' /\ NothingMissed'
  BY DEF ServeFrame, IInv, Ownership, ListenersOwned, NothingMissed, transportVars, clientVars, noteVars
<1>3. \A s : Begun(s)' <=> Begun(s)
  BY DEF ServeFrame, Begun
<1>4. NothingEarly'
  BY <1>3 DEF ServeFrame, IInv, TypeOK, NothingEarly, noteVars
<1> QED
  BY <1>1, <1>2, <1>4 DEF IInv

LEMMA ServePipe ==
  ASSUME IInv, NEW op, NEW success \in BOOLEAN, Serve(op, success)
  PROVE  /\ ServeFrame /\ Asked \in Session
         /\ pipe' \in Seq(Request) /\ answered' \subseteq Request
         /\ \A s \in Session : AsksFor(s)' => AsksFor(s)
<1>1. pipe \in Seq(Request) /\ pipe # <<>> /\ pipe' = Tail(pipe)
  BY DEF Serve, IInv, TypeOK
<1>2. Head(pipe) \in Request /\ pipe' \in Seq(Request)
  BY <1>1
<1>3. \A s \in Session : AsksFor(s)' => AsksFor(s)
  <2> SUFFICES ASSUME NEW s \in Session, NEW i \in DOMAIN pipe',
                      pipe'[i].op = "subscribe", pipe'[i].of = s
               PROVE  AsksFor(s)
    BY DEF AsksFor
  <2>1. pipe'[i] = pipe[i + 1] /\ i + 1 \in DOMAIN pipe
    BY <1>1
  <2> QED
    BY <2>1 DEF AsksFor
<1> QED
  BY <1>2, <1>3 DEF Serve, Asked, Request, IInv, TypeOK

LEMMA HelperStep ==
  ASSUME IInv,
         ServeConnect \/ ServeRead \/ AddHandler \/ ServeSubscribe \/ ServeDisconnect
  PROVE  IInv'
<1> USE DEF IInv, TypeOK
<1>1. ASSUME ServeConnect PROVE IInv'
  BY <1>1, ServePipe, ServeStep DEF ServeConnect
<1>2. ASSUME ServeRead PROVE IInv'
  BY <1>2, ServePipe, ServeStep DEF ServeRead
<1>3. ASSUME AddHandler PROVE IInv'
  <2>1. pipe \in Seq(Request) /\ pipe # <<>> /\ Head(pipe).op = "subscribe"
    BY <1>3 DEF AddHandler
  <2>2. Head(pipe) = pipe[1] /\ 1 \in DOMAIN pipe /\ Head(pipe) \in Request
    BY <2>1
  <2>3. AsksFor(Asked) /\ Asked \in Session
    BY <2>1, <2>2 DEF AsksFor, Asked, Request
  <2>4. \A s : AsksFor(s)' <=> AsksFor(s)
    BY <1>3 DEF AddHandler, AsksFor
  <2>5. ServeFrame /\ UNCHANGED <<native, pipe, answered>> /\ handlers' = handlers \cup {Asked}
    BY <1>3 DEF AddHandler
  <2> QED
    BY <2>3, <2>4, <2>5, ServeStep
<1>4. ASSUME ServeSubscribe PROVE IInv'
  BY <1>4, ServePipe, ServeStep DEF ServeSubscribe
<1>5. ASSUME ServeDisconnect PROVE IInv'
  BY <1>5, ServePipe, ServeStep DEF ServeDisconnect
<1> QED
  BY <1>1, <1>2, <1>3, <1>4, <1>5

LEMMA ExitStep == ASSUME IInv, Dispose \/ HelperExits PROVE IInv'
<1>1. pipe' = <<>> /\ native' = {} /\ handlers' = {} /\ running' = FALSE
  BY DEF Dispose, HelperExits
<1>2. /\ UNCHANGED <<phase, attempt, transportVars, answered, noteVars>>
      /\ \/ listeners' = {} /\ disposed' = TRUE
         \/ UNCHANGED <<listeners, disposed>>
  BY DEF Dispose, HelperExits, clientVars
<1>3. TypeOK'
  <2>1. pipe' \in Seq(Request)
    BY <1>1
  <2> QED
    BY <1>1, <1>2, <2>1 DEF IInv, TypeOK, transportVars, noteVars
<1>4. Ownership' /\ ListenersOwned' /\ NothingMissed'
  BY <1>2 DEF IInv, Ownership, ListenersOwned, NothingMissed, transportVars, noteVars
<1>5. NothingEarly'
  <2>1. \A s : ~AsksFor(s)'
    BY <1>1 DEF AsksFor
  <2> QED
    BY <1>1, <1>2, <2>1 DEF IInv, NothingEarly, Begun, noteVars
<1> QED
  BY <1>3, <1>4, <1>5 DEF IInv

LEMMA NextIInv == ASSUME IInv, [Next]_vars PROVE IInv'
<1>1. CASE UNCHANGED vars
  <2>1. TypeOK'
    BY <1>1 DEF vars, IInv, TypeOK, transportVars, clientVars, helperVars, noteVars
  <2>2. Ownership' /\ ListenersOwned' /\ NothingMissed'
    BY <1>1 DEF vars, IInv, Ownership, ListenersOwned, NothingMissed, transportVars, clientVars, noteVars
  <2>3. NothingEarly'
    BY <1>1 DEF vars, IInv, NothingEarly, AsksFor, Begun, helperVars, noteVars
  <2> QED
    BY <2>1, <2>2, <2>3 DEF IInv
<1>2. ASSUME NEW t \in Transport, Initialize(t) PROVE IInv'
  BY <1>2, ConnectStep, ConnectedStep, NameReadStep, SubscribedStep, InitializationFailsStep, CleanedUpStep
     DEF Initialize
<1>3. ASSUME NEW t \in Transport, Disconnect(t) \/ DisconnectSettles(t) PROVE IInv'
  BY <1>3, DisconnectStep, DisconnectSettlesStep
<1>4. ASSUME Helper PROVE IInv'
  BY <1>4, HelperStep, ExitStep, EmitStep, RouteStep DEF Helper
<1> QED
  BY <1>1, <1>2, <1>3, <1>4, ExitStep DEF Next

\* What is owned, who listens and what was heard stay consistent in every execution of
\* connectAndInitialize, disconnect and the helper, for any number of transports.
THEOREM Invariance == Spec => []IInv
<1>1. Init => IInv
  BY InitIInv
<1>2. IInv /\ [Next]_vars => IInv'
  BY NextIInv
<1> QED
  BY <1>1, <1>2, PTL DEF Spec

\* The session ids, listeners and callbacks of the transports, and the lines and sessions
\* of the helper, keep their types (helper-transport.ts, Program.cs).
THEOREM TypeCorrect == Spec => []TypeOK
<1>1. IInv => TypeOK
  BY DEF IInv
<1> QED
  BY <1>1, Invariance, PTL

\* A notification is not missed although the helper may send it before it answers
\* the subscription: the callback is there first (helper-transport.ts subscribe).
THEOREM MissesNothing == Spec => []NothingMissed
<1>1. IInv => NothingMissed
  BY DEF IInv
<1> QED
  BY <1>1, Invariance, PTL
-----------------------------------------------------------------------------
(* The transport implements BluetoothTransport.                            *)

LEMMA ContractInit == ASSUME Init PROVE Contract!Init
  BY DEF Init, Contract!Init

LEMMA ContractStep == ASSUME IInv, IInv', [Next]_vars PROVE [Contract!Next]_(Contract!vars)
<1> DEFINE connection == [t \in Transport |-> IF sessionId[t] = 0 THEN <<>> ELSE <<t, sessionId[t]>>]
<1>1. ASSUME UNCHANGED <<sessionId, callback, heard>> PROVE UNCHANGED Contract!vars
  BY <1>1 DEF Contract!vars
<1>2. ASSUME NEW t \in Transport, Connected(t) PROVE Contract!Next
  <2>1. sessionId[t] = 0 /\ attempt[t] \in Attempt /\ attempt[t] # 0
    BY <1>2, InAttempt DEF Connected, IInv, Ownership, Holding
  <2>2. connection[t] = <<>>
    BY <2>1
  <2>3. \A u \in Transport : connection[u] # <<t, attempt[t]>>
    BY <2>1
  <2>4. connection' = [connection EXCEPT ![t] = <<t, attempt[t]>>]
    BY <1>2, <2>1 DEF Connected, IInv, TypeOK
  <2>5. <<t, attempt[t]>> \in Session
    BY <2>1 DEF Session
  <2>6. UNCHANGED <<callback, heard>>
    BY <1>2 DEF Connected, SessionFrame, noteVars
  <2> QED
    BY <2>2, <2>3, <2>4, <2>5, <2>6 DEF Contract!Next, Contract!Connect
<1>3. ASSUME NEW t \in Transport, NameRead(t) PROVE Contract!Next
  <2>1. connection[t] # <<>>
    BY <1>3, InAttempt DEF NameRead, IInv, Ownership, Holding
  <2>2. callback' = [callback EXCEPT ![t] = TRUE] /\ UNCHANGED <<connection, heard>>
    BY <1>3 DEF NameRead, SessionFrame, noteVars
  <2> QED
    BY <2>1, <2>2 DEF Contract!Next, Contract!Subscribe
<1>4. ASSUME NEW t \in Transport, InitializationFails(t) \/ Disconnect(t) PROVE Contract!Next
  <2>1. ForgetConnection(t) /\ UNCHANGED heard
    BY <1>4 DEF InitializationFails, Disconnect, SessionFrame, noteVars
  <2>2. connection' = [connection EXCEPT ![t] = <<>>] /\ callback' = [callback EXCEPT ![t] = FALSE]
    BY <2>1 DEF ForgetConnection, IInv, TypeOK
  <2> QED
    BY <2>1, <2>2 DEF Contract!Next, Contract!Disconnect
<1>5. ASSUME NEW n \in Note, Route(n) PROVE [Contract!Next]_(Contract!vars)
  <2>1. heard' = [heard EXCEPT ![n] = @ + Cardinality(Hearers(n))] /\ heard[n] = 0
    BY <1>5 DEF Route, IInv, NothingEarly
  <2>2. UNCHANGED <<sessionId, callback>>
    BY <1>5 DEF Route, transportVars
  <2>3. CASE Cardinality(Hearers(n)) = 0
    <3>1. heard' = heard
      BY <2>1, <2>3 DEF IInv, TypeOK
    <3> QED
      BY <1>1, <2>2, <3>1
  <2>4. CASE Cardinality(Hearers(n)) = 1 /\ n[1][1] \in Transport
             /\ sessionId[n[1][1]] = n[1][2] /\ n[1][2] # 0 /\ callback[n[1][1]]
    <3>1. heard' = [heard EXCEPT ![n] = 1]
      BY <2>1, <2>4 DEF IInv, TypeOK
    <3>2. n[1] = <<n[1][1], n[1][2]>>
      BY DEF Note, Session
    <3>3. connection[n[1][1]] = n[1]
      BY <2>4, <3>2
    <3> QED
      BY <2>1, <2>2, <2>4, <3>1, <3>3 DEF Contract!Next, Contract!OnData
  <2> QED
    BY <2>3, <2>4, OneHearer
<1>6. ASSUME NEW t \in Transport, Connect(t) \/ Subscribed(t) \/ CleanedUp(t) \/ DisconnectSettles(t)
      PROVE UNCHANGED Contract!vars
  BY <1>1, <1>6 DEF Connect, Subscribed, CleanedUp, DisconnectSettles, SessionFrame, transportVars, noteVars
<1>7. ASSUME ServeConnect \/ ServeRead \/ AddHandler \/ ServeSubscribe \/ ServeDisconnect
      PROVE UNCHANGED Contract!vars
  BY <1>1, <1>7 DEF ServeConnect, ServeRead, AddHandler, ServeSubscribe, ServeDisconnect, Serve,
     ServeFrame, transportVars, noteVars
<1>8. ASSUME Dispose \/ HelperExits \/ \E n \in Note : Emit(n) PROVE UNCHANGED Contract!vars
  BY <1>1, <1>8 DEF Dispose, HelperExits, Emit, transportVars, noteVars
<1>9. CASE UNCHANGED vars
  BY <1>1, <1>9 DEF vars, transportVars, noteVars
<1> QED
  BY <1>2, <1>3, <1>4, <1>5, <1>6, <1>7, <1>8, <1>9 DEF Next, Initialize, Helper

\* WindowsHelperTransport implements what transport.ts promises: each callback
\* hears its own connection, once per notification, and never after disconnect.
THEOREM KeepsContract == Spec => ImplementsContract
<1>1. Init => Contract!Init
  BY ContractInit
<1>2. IInv /\ IInv' /\ [Next]_vars => [Contract!Next]_(Contract!vars)
  BY ContractStep
<1> QED
  BY <1>1, <1>2, Invariance, PTL DEF Spec, ImplementsContract, Contract!Spec
-----------------------------------------------------------------------------
(* The one-shot command.                                                   *)

Mishap == {"initialization", "work", "disconnect"}
Released == {"closing", "closed", "close_failed"}

\* What each stage has behind it.
StageInv ==
  /\ stage \in {"initializing", "working", "reporting", "swallowing", "settled"}
  /\ stage = "initializing" => wrong = <<>> /\ error = "none" /\ phase[Own] \notin Released
  /\ stage = "working" => wrong = <<>> /\ error = "none" /\ phase[Own] = "ready"
  /\ stage = "reporting" =>
       /\ error = "none" /\ phase[Own] \in Released
       /\ wrong = IF phase[Own] = "close_failed" THEN <<"disconnect">> ELSE <<>>
  /\ stage = "swallowing" =>
       /\ error = "work" /\ phase[Own] \in Released
       /\ wrong \in Seq(Mishap) /\ wrong # <<>> /\ Head(wrong) = "work"
  /\ stage = "settled" => phase[Own] \in {"failed", "closed", "close_failed"}
  /\ OutcomeOfWork

CInv == IInv /\ StageInv

LEMMA CommandStepIsTransportStep == ASSUME CommandNext PROVE [Next]_vars
<1> USE OwnAssumption DEF OwnAssumption
<1>1. ASSUME Initialize(Own) \/ Helper PROVE Next
  BY <1>1 DEF Next
<1>2. ASSUME InitializationThrows PROVE Next
  BY <1>2 DEF InitializationThrows, Next
<1>3. ASSUME WorkReturns \/ WorkThrows \/ Disconnects PROVE Next
  BY <1>3 DEF WorkReturns, WorkThrows, Disconnects, Next
<1>4. ASSUME Finish PROVE Next \/ UNCHANGED vars
  BY <1>4 DEF Finish, Next
<1>5. ASSUME Initialized PROVE UNCHANGED vars
  BY <1>5 DEF Initialized
<1> QED
  BY <1>1, <1>2, <1>3, <1>4, <1>5 DEF CommandNext

\* The command's steps are steps of the transport that it owns, or leave it alone.
THEOREM UsesTransport == CommandSpec => Spec
<1>1. CommandInit => Init
  BY DEF CommandInit
<1>2. [CommandNext]_<<vars, commandVars>> => [Next]_vars
  BY CommandStepIsTransportStep
<1> QED
  BY <1>1, <1>2, PTL DEF CommandSpec, Spec

\* What went wrong first stays first.
LEMMA HeadOfAppend ==
  ASSUME NEW S, NEW q \in Seq(S), q # <<>>, NEW e \in S
  PROVE  Append(q, e) \in Seq(S) /\ Append(q, e) # <<>> /\ Head(Append(q, e)) = Head(q)
<1>1. Len(q) \in Nat \ {0}
  OBVIOUS
<1>2. Append(q, e) \in Seq(S) /\ Len(Append(q, e)) = Len(q) + 1
  OBVIOUS
<1>3. Append(q, e)[1] = q[1]
  BY <1>1
<1> QED
  BY <1>1, <1>2, <1>3

\* The rest of the program does not finish the command for it.
LEMMA BackgroundKeepsStage ==
  ASSUME CInv, Initialize(Own) \/ Helper, UNCHANGED commandVars
  PROVE  StageInv'
<1> USE OwnAssumption DEF OwnAssumption
<1>1. CASE Helper
  <2>1. phase' = phase /\ disposed' = disposed /\ (~running => ~running')
    BY <1>1 DEF Helper, ServeConnect, ServeRead, AddHandler, ServeSubscribe, ServeDisconnect, Serve,
       ServeFrame, HelperExits, Emit, Route, clientVars, helperVars
  <2> QED
    BY <2>1 DEF CInv, StageInv, OutcomeOfWork, commandVars
<1>2. CASE Initialize(Own)
  <2>1. phase[Own] \in {"new", "pausing", "connecting", "reading", "subscribing", "cleaning"}
    BY <1>2 DEF Initialize, Connect, Connected, NameRead, Subscribed, InitializationFails, CleanedUp
  <2>2. stage = "initializing"
    BY <2>1 DEF CInv, StageInv, Released
  <2>3. PICK p \in {"connecting", "reading", "subscribing", "ready", "failed", "pausing", "cleaning"} :
          phase' = [phase EXCEPT ![Own] = p]
    <3> DEFINE M == {"connecting", "reading", "subscribing", "ready", "failed", "pausing", "cleaning"}
    <3>1. ASSUME NEW p \in RetryPhase(Own) PROVE p \in M
      BY DEF RetryPhase
    <3> QED
      BY <1>2, <3>1
         DEF Initialize, Connect, Connected, NameRead, Subscribed, InitializationFails, CleanedUp, Enter
  <2>4. phase'[Own] \notin Released
    BY <2>3 DEF CInv, IInv, TypeOK, Released
  <2> QED
    BY <2>2, <2>4 DEF CInv, StageInv, OutcomeOfWork, commandVars
<1> QED
  BY <1>1, <1>2

LEMMA CommandStep == ASSUME CInv, [CommandNext]_<<vars, commandVars>> PROVE CInv'
<1> USE OwnAssumption DEF OwnAssumption
<1>1. IInv'
  BY CommandStepIsTransportStep, NextIInv DEF CInv
<1>2. phase \in [Transport -> Phase] /\ Own \in Transport
  BY DEF CInv, IInv, TypeOK
<1>3. CASE UNCHANGED <<vars, commandVars>>
  BY <1>1, <1>3 DEF CInv, StageInv, OutcomeOfWork, vars, commandVars, clientVars, helperVars
<1>4. ASSUME (Initialize(Own) \/ Helper) /\ UNCHANGED commandVars PROVE StageInv'
  BY <1>4, BackgroundKeepsStage
<1>5. ASSUME Initialized PROVE StageInv'
  BY <1>5 DEF Initialized, CInv, StageInv, OutcomeOfWork, vars, clientVars, helperVars
<1>6. ASSUME InitializationThrows PROVE StageInv'
  <2>1. /\ wrong' = <<"initialization">> /\ error' = "initialization" /\ stage' = "settled"
        /\ phase'[Own] = "failed" /\ disposed' = TRUE /\ running' = FALSE
    BY <1>6 DEF InitializationThrows, Dispose, CInv, StageInv
  <2> QED
    BY <2>1 DEF StageInv, OutcomeOfWork
<1>7. ASSUME WorkReturns PROVE StageInv'
  <2>1. stage' = "reporting" /\ phase'[Own] = "closing" /\ error' = error /\ wrong' = wrong
    BY <1>2, <1>7 DEF WorkReturns, Disconnect, Enter
  <2> QED
    BY <1>7, <2>1 DEF WorkReturns, CInv, StageInv, OutcomeOfWork, Released
<1>8. ASSUME WorkThrows PROVE StageInv'
  <2>1. stage' = "swallowing" /\ phase'[Own] = "closing" /\ error' = "work" /\ wrong' = <<"work">>
    BY <1>2, <1>8 DEF WorkThrows, Disconnect, Enter, CInv, StageInv
  <2>2. wrong' \in Seq(Mishap) /\ wrong' # <<>> /\ Head(wrong') = "work"
    BY <2>1 DEF Mishap
  <2> QED
    BY <2>1, <2>2 DEF StageInv, OutcomeOfWork, Released
<1>9. ASSUME Disconnects PROVE StageInv'
  <2>1. PICK p \in {"closed", "close_failed"} : phase'[Own] = p
    BY <1>2, <1>9 DEF Disconnects, DisconnectSettles, Enter
  <2>2. /\ phase[Own] = "closing" /\ stage' = stage /\ error' = error
        /\ wrong' = IF phase'[Own] = "close_failed" THEN Append(wrong, "disconnect") ELSE wrong
    BY <1>9 DEF Disconnects, DisconnectSettles
  <2>3. stage \in {"reporting", "swallowing"}
    BY <2>2 DEF CInv, StageInv, Released
  <2>4. CASE stage = "reporting"
    <3>1. wrong = <<>> /\ Append(wrong, "disconnect") = <<"disconnect">>
      BY <2>2, <2>4 DEF CInv, StageInv
    <3> QED
      BY <2>1, <2>2, <2>4, <3>1 DEF CInv, StageInv, OutcomeOfWork, Released
  <2>5. CASE stage = "swallowing"
    <3> "disconnect" \in Mishap
      BY DEF Mishap
    <3>1. wrong \in Seq(Mishap) /\ wrong # <<>> /\ Head(wrong) = "work"
      BY <2>5 DEF CInv, StageInv
    <3>2. wrong' \in Seq(Mishap) /\ wrong' # <<>> /\ Head(wrong') = "work"
      BY <2>2, <3>1, HeadOfAppend
    <3> QED
      BY <2>1, <2>2, <2>5, <3>2 DEF CInv, StageInv, OutcomeOfWork, Released
  <2> QED
    BY <2>3, <2>4, <2>5
<1>10. ASSUME Finish PROVE StageInv'
  <2>1. phase' = phase /\ wrong' = wrong /\ stage' = "settled" /\ phase[Own] \in {"closed", "close_failed"}
    BY <1>10 DEF Finish, vars, Dispose
  <2>2. CASE stage = "reporting" /\ phase[Own] = "close_failed"
    BY <1>10, <2>1, <2>2 DEF Finish, CInv, StageInv, OutcomeOfWork
  <2>3. CASE ~(stage = "reporting" /\ phase[Own] = "close_failed")
    <3>1. disposed' = TRUE /\ running' = FALSE /\ error' = error
      BY <1>10, <2>3 DEF Finish, Dispose
    <3>2. error = IF wrong = <<>> THEN "none" ELSE Head(wrong)
      BY <1>10, <2>1, <2>3 DEF Finish, CInv, StageInv
    <3> QED
      BY <2>1, <3>1, <3>2 DEF StageInv, OutcomeOfWork
  <2> QED
    BY <2>2, <2>3
<1>11. CASE CommandNext
  BY <1>1, <1>4, <1>5, <1>6, <1>7, <1>8, <1>9, <1>10, <1>11 DEF CommandNext, CInv
<1> QED
  BY <1>3, <1>11

\* The first thing that went wrong is what the command reports, and only a failing
\* disconnection leaves the helper running (cli/shared.ts withConnectedDevice).
THEOREM ReportsFirstError == CommandSpec => []OutcomeOfWork
<1>1. CommandInit => CInv
  BY InitIInv, OwnAssumption
     DEF OwnAssumption, CommandInit, Init, CInv, StageInv, OutcomeOfWork, Released
<1>2. CInv /\ [CommandNext]_<<vars, commandVars>> => CInv'
  BY CommandStep
<1>3. CInv => OutcomeOfWork
  BY DEF CInv, StageInv
<1> QED
  BY <1>1, <1>2, <1>3, PTL DEF CommandSpec
=============================================================================
