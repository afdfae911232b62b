------------------------- MODULE HelperClientProofs -------------------------
(***************************************************************************)
(* The two ends of the pipe agree on the sessions, for every set of        *)
(* requests: lines keep their order, and the helper serves one at a time.  *)
(***************************************************************************)
EXTENDS HelperClient, TLAPS

In(r, queue) == \E i \in DOMAIN queue : queue[i] = r

\* No request is in a queue twice.
Once(queue) == \A i, j \in DOMAIN queue : queue[i] = queue[j] => i = j

\* In the queue, r comes before s wherever both are.
Before(queue, r, s) == \A i, j \in DOMAIN queue : queue[i] = r /\ queue[j] = s => i < j

\* The requests that the helper has to serve, or is serving.
Owed(r) == In(r, stdin) \/ r = serving

\* What the helper said of a request, as long as it is in the pipe.
Says(lines, kind, r) == \E i \in DOMAIN lines : lines[i].kind = kind /\ lines[i].id = r
AnswerDue(lines, r) == Says(lines, "resolved", r) \/ Says(lines, "error", r)

\* No request has two answers in the pipe.
OneAnswer(lines) ==
  \A i, j \in DOMAIN lines : lines[i].id = lines[j].id => i = j \/ lines[i].id = NoRequest

\* A request is in one place at a time, and its call says how far it has come.
PlaceInv ==
  /\ Once(waiting) /\ Once(stdin) /\ OneAnswer(stdout)
  /\ ~In(serving, stdin)
  /\ \A r \in Request :
       /\ In(r, waiting) => call[r] = "waiting"
       /\ Owed(r) => /\ call[r] \in {"pending", "timed_out", "error"} /\ ~AnswerDue(stdout, r)
                     /\ call[r] = "error" => disposeRequested
       /\ AnswerDue(stdout, r) => call[r] \in {"pending", "timed_out", "error"}
       /\ r \in pending => call[r] = "pending"

\* A helper that does not run has nothing to serve and no sessions.
IdleInv == process # "running" => serving = NoRequest /\ native = {} /\ stdin = <<>>

\* A disconnect was called only for a session that was connected.
CalledInv == \A d \in Disconnects : call[d] # "idle" => call[SessionOf[d]] = "resolved"

\* A native session was connected by a connect that has been served.
NativeInv ==
  \A s \in native :
    /\ ~Owed(s) /\ ~Says(stdout, "error", s)
    /\ call[s] \in {"pending", "resolved", "timed_out"} \/ (disposeRequested /\ call[s] = "error")

\* A session that was connected is there until its disconnect is served.
ConnectedInv ==
  /\ \A s \in Connects :
       call[s] = "resolved" \/ Says(stdout, "resolved", s) =>
         \/ process = "exited" \/ s \in native
         \/ \E d \in Disconnects : SessionOf[d] = s /\ call[d] # "idle"
  /\ \A d \in Disconnects :
       call[d] = "resolved" \/ Says(stdout, "resolved", d) => SessionOf[d] \notin native

\* A use whose line is on its way has its session, and no disconnect goes before it.
UseInv ==
  \A u \in Uses :
    /\ Owed(u) => SessionOf[u] \in native
    /\ In(u, waiting) => process = "exited" \/ SessionOf[u] \in native
    /\ \A d \in Disconnects :
         SessionOf[d] = SessionOf[u] =>
           /\ d = serving => ~In(u, stdin)
           /\ Owed(d) => ~In(u, waiting)
           /\ Before(stdin, u, d) /\ Before(waiting, u, d)

IInv == TypeOK /\ PlaceInv /\ IdleInv /\ CalledInv /\ NativeInv /\ ConnectedInv /\ UseInv
-----------------------------------------------------------------------------
(* Queues and lines.                                                       *)

LEMMA EmptyQueue == /\ \A r : ~In(r, <<>>)
                    /\ \A kind, r : ~Says(<<>>, kind, r)
                    /\ Once(<<>>) /\ OneAnswer(<<>>) /\ \A r, s : Before(<<>>, r, s)
<1>1. \A i : i \notin DOMAIN <<>>
  OBVIOUS
<1> QED
  BY <1>1 DEF In, Says, Once, OneAnswer, Before

LEMMA Appended ==
  ASSUME NEW S, NEW q \in Seq(S), NEW e \in S
  PROVE  /\ \A r : In(r, Append(q, e)) <=> In(r, q) \/ r = e
         /\ Once(q) /\ ~In(e, q) => Once(Append(q, e))
         /\ \A r, s : /\ r # s /\ Before(q, r, s) /\ (e = r => ~In(s, q))
                      => Before(Append(q, e), r, s)
<1>1. /\ Len(q) \in Nat /\ DOMAIN q = 1 .. Len(q)
      /\ DOMAIN Append(q, e) = 1 .. Len(q) + 1
      /\ \A i \in 1 .. Len(q) : Append(q, e)[i] = q[i]
      /\ Append(q, e)[Len(q) + 1] = e
  OBVIOUS
<1>2. \A r : In(r, Append(q, e)) <=> In(r, q) \/ r = e
  BY <1>1 DEF In
<1>3. Once(q) /\ ~In(e, q) => Once(Append(q, e))
  BY <1>1 DEF Once, In
<1>4. ASSUME NEW r, NEW s, r # s, Before(q, r, s), e = r => ~In(s, q)
      PROVE  Before(Append(q, e), r, s)
  BY <1>1, <1>4 DEF Before, In
<1> QED
  BY <1>2, <1>3, <1>4

LEMMA Shortened ==
  ASSUME NEW S, NEW q \in Seq(S), q # <<>>
  PROVE  /\ Head(q) \in S /\ Tail(q) \in Seq(S)
         /\ In(Head(q), q)
         /\ \A r : In(r, Tail(q)) => In(r, q)
         /\ Once(q) => Once(Tail(q)) /\ ~In(Head(q), Tail(q))
         /\ \A r, s : Before(q, r, s) => Before(Tail(q), r, s)
         /\ \A r : Before(q, r, Head(q)) => ~In(r, q)
<1>1. /\ Len(q) \in Nat /\ Len(q) >= 1 /\ DOMAIN q = 1 .. Len(q)
      /\ DOMAIN Tail(q) = 1 .. Len(q) - 1
      /\ \A i \in 1 .. Len(q) - 1 : Tail(q)[i] = q[i + 1]
      /\ Head(q) = q[1]
      /\ Head(q) \in S /\ Tail(q) \in Seq(S)
  OBVIOUS
<1>2. In(Head(q), q) /\ \A r : In(r, Tail(q)) => In(r, q)
  BY <1>1 DEF In
<1>3. Once(q) => Once(Tail(q)) /\ ~In(Head(q), Tail(q))
  BY <1>1 DEF Once, In
<1>4. \A r, s : Before(q, r, s) => Before(Tail(q), r, s)
  BY <1>1 DEF Before
<1>5. \A r : Before(q, r, Head(q)) => ~In(r, q)
  BY <1>1 DEF Before, In
<1> QED
  BY <1>1, <1>2, <1>3, <1>4, <1>5

LEMMA LineAppended ==
  ASSUME NEW l \in Seq(Line), NEW line \in Line
  PROVE  /\ \A kind, r : Says(Append(l, line), kind, r) <=>
                           Says(l, kind, r) \/ (kind = line.kind /\ r = line.id)
         /\ OneAnswer(l) /\ (line.id = NoRequest \/ ~AnswerDue(l, line.id))
              => OneAnswer(Append(l, line))
<1>1. /\ Len(l) \in Nat /\ DOMAIN l = 1 .. Len(l)
      /\ DOMAIN Append(l, line) = 1 .. Len(l) + 1
      /\ \A i \in 1 .. Len(l) : Append(l, line)[i] = l[i]
      /\ Append(l, line)[Len(l) + 1] = line
  OBVIOUS
<1>2. \A kind, r : Says(Append(l, line), kind, r) <=>
                     Says(l, kind, r) \/ (kind = line.kind /\ r = line.id)
  BY <1>1 DEF Says
<1>3. ASSUME OneAnswer(l), line.id = NoRequest \/ ~AnswerDue(l, line.id)
      PROVE  OneAnswer(Append(l, line))
  <2>1. \A i \in 1 .. Len(l) : l[i].id = line.id => line.id = NoRequest
    <3> SUFFICES ASSUME NEW i \in 1 .. Len(l), l[i].id = line.id, line.id # NoRequest
                 PROVE  FALSE
      OBVIOUS
    <3>1. l[i] \in Line
      BY <1>1
    <3>2. l[i].kind \in {"resolved", "error"}
      BY <3>1 DEF Line
    <3> QED
      BY <1>1, <1>3, <3>2 DEF AnswerDue, Says
  <2> QED
    BY <1>1, <1>3, <2>1 DEF OneAnswer
<1> QED
  BY <1>2, <1>3

LEMMA LineRead ==
  ASSUME NEW l \in Seq(Line), l # <<>>
  PROVE  /\ Head(l) \in Line /\ Tail(l) \in Seq(Line)
         /\ Says(l, Head(l).kind, Head(l).id)
         /\ \A kind, r : Says(Tail(l), kind, r) => Says(l, kind, r)
         /\ OneAnswer(l) => /\ OneAnswer(Tail(l))
                            /\ \A kind : Says(Tail(l), kind, Head(l).id) => Head(l).id = NoRequest
<1>1. /\ Len(l) \in Nat /\ Len(l) >= 1 /\ DOMAIN l = 1 .. Len(l)
      /\ DOMAIN Tail(l) = 1 .. Len(l) - 1
      /\ \A i \in 1 .. Len(l) - 1 : Tail(l)[i] = l[i + 1]
      /\ Head(l) = l[1]
      /\ Head(l) \in Line /\ Tail(l) \in Seq(Line)
  OBVIOUS
<1>2. Says(l, Head(l).kind, Head(l).id)
  BY <1>1 DEF Says
<1>3. \A kind, r : Says(Tail(l), kind, r) => Says(l, kind, r)
  BY <1>1 DEF Says
<1>4. ASSUME OneAnswer(l) PROVE OneAnswer(Tail(l))
  BY <1>1, <1>4 DEF OneAnswer
<1>5. ASSUME OneAnswer(l), NEW kind, Says(Tail(l), kind, Head(l).id)
      PROVE  Head(l).id = NoRequest
  BY <1>1, <1>5 DEF OneAnswer, Says
<1> QED
  BY <1>1, <1>2, <1>3, <1>4, <1>5
-----------------------------------------------------------------------------
(* The requests.                                                           *)

LEMMA InitIInv == ASSUME Init PROVE IInv
<1> USE HelperAssumption DEF HelperAssumption, Init
<1>1. TypeOK
  <2>1. waiting \in Seq(Request) /\ stdin \in Seq(Request) /\ stdout \in Seq(Line)
    OBVIOUS
  <2>2. call \in [Request -> {"idle", "waiting", "pending"} \cup Over]
    OBVIOUS
  <2>3. noise \in 0 .. MaxNoise
    OBVIOUS
  <2> QED
    BY <2>1, <2>2, <2>3 DEF TypeOK
<1>2. \A r : ~In(r, waiting) /\ ~In(r, stdin)
  BY EmptyQueue
<1>3. \A kind, r : ~Says(stdout, kind, r)
  BY EmptyQueue
<1>4. PlaceInv
  BY <1>2, <1>3, EmptyQueue DEF PlaceInv, Owed, AnswerDue
<1>5. IdleInv /\ CalledInv /\ NativeInv
  BY DEF IdleInv, CalledInv, NativeInv
<1>6. ConnectedInv
  BY <1>3 DEF ConnectedInv
<1>7. UseInv
  BY <1>2, EmptyQueue DEF UseInv, Owed, Uses
<1> QED
  BY <1>1, <1>4, <1>5, <1>6, <1>7 DEF IInv

LEMMA StartRequestStep == ASSUME IInv, NEW r \in Request, StartRequest(r) PROVE IInv'
<1> USE HelperAssumption DEF HelperAssumption
<1> USE DEF IInv
<1>1. /\ call[r] = "idle"
      /\ r \notin Connects => SessionHeld(r)
      /\ UNCHANGED <<ready, readyResolved, disposeRequested, exitSeen, pending>>
      /\ UNCHANGED <<process, serving, native, noise, stdin, stdout>>
  BY DEF StartRequest, clientVars, helperVars
<1>2. ~In(r, waiting) /\ ~Owed(r) /\ ~AnswerDue(stdout, r)
  BY <1>1 DEF PlaceInv
<1>3. \E outcome \in {"error", "waiting"} :
        /\ call' = [call EXCEPT ![r] = outcome]
        /\ \/ waiting' = waiting
           \/ outcome = "waiting" /\ waiting' = Append(waiting, r)
        /\ outcome = "waiting" => ~disposeRequested
        /\ outcome = "error" => waiting' = waiting
  BY DEF StartRequest
<1>4. PICK outcome \in {"error", "waiting"} :
        /\ call' = [call EXCEPT ![r] = outcome]
        /\ \/ waiting' = waiting
           \/ outcome = "waiting" /\ waiting' = Append(waiting, r)
        /\ outcome = "error" => waiting' = waiting
  BY <1>3
<1>5. waiting \in Seq(Request) /\ call \in [Request -> {"idle", "waiting", "pending"} \cup Over]
  BY DEF TypeOK
<1>6. /\ waiting' \in Seq(Request)
      /\ \A x : In(x, waiting') => In(x, waiting) \/ (x = r /\ outcome = "waiting")
      /\ Once(waiting')
  <2>1. CASE waiting' = waiting
    BY <1>5, <2>1 DEF PlaceInv
  <2>2. CASE outcome = "waiting" /\ waiting' = Append(waiting, r)
    <3>1. Append(waiting, r) \in Seq(Request)
      BY <1>5
    <3> QED
      BY <1>2, <1>5, <2>2, <3>1, Appended DEF PlaceInv
  <2> QED
    BY <1>4, <2>1, <2>2
<1>7. TypeOK'
  <2>1. call' \in [Request -> {"idle", "waiting", "pending"} \cup Over]
    BY <1>4, <1>5 DEF Over
  <2> QED
    BY <1>1, <1>6, <2>1 DEF TypeOK
<1>8. PlaceInv'
  <2>1. ASSUME NEW x \in Request
        PROVE  /\ In(x, waiting') => call'[x] = "waiting"
               /\ Owed(x)' => /\ call'[x] \in {"pending", "timed_out", "error"} /\ ~AnswerDue(stdout', x)
                              /\ call'[x] = "error" => disposeRequested'
               /\ AnswerDue(stdout', x) => call'[x] \in {"pending", "timed_out", "error"}
               /\ x \in pending' => call'[x] = "pending"
    BY <1>1, <1>2, <1>4, <1>5, <1>6 DEF PlaceInv, Owed
  <2> QED
    BY <1>1, <1>6, <2>1 DEF PlaceInv
<1>9. IdleInv'
  BY <1>1 DEF IdleInv
<1>10. CalledInv'
  <2> SUFFICES ASSUME NEW d \in Disconnects, call'[d] # "idle" PROVE call'[SessionOf[d]] = "resolved"
    BY DEF CalledInv
  <2>1. call[SessionOf[d]] = "resolved"
    BY <1>1, <1>4, <1>5 DEF CalledInv, SessionHeld
  <2> QED
    BY <1>1, <1>4, <1>5, <2>1
<1>11. NativeInv'
  <2> SUFFICES ASSUME NEW s \in native
               PROVE  /\ ~Owed(s)' /\ ~Says(stdout, "error", s)
                      /\ call'[s] \in {"pending", "resolved", "timed_out"}
                           \/ (disposeRequested /\ call'[s] = "error")
    BY <1>1 DEF NativeInv
  <2>1. s \in Request /\ s # r
    BY <1>1 DEF NativeInv, TypeOK
  <2> QED
    BY <1>1, <1>4, <1>5, <2>1 DEF NativeInv, Owed
<1>12. ConnectedInv'
  <2>1. \A x \in Request : /\ call'[x] = "resolved" <=> call[x] = "resolved"
                           /\ call[x] # "idle" => call'[x] # "idle"
    BY <1>1, <1>4, <1>5
  <2> QED
    BY <1>1, <2>1 DEF ConnectedInv
<1>13. UseInv'
  <2> SUFFICES ASSUME NEW u \in Uses
               PROVE  /\ Owed(u)' => SessionOf[u] \in native'
                      /\ In(u, waiting') => process' = "exited" \/ SessionOf[u] \in native'
                      /\ \A d \in Disconnects :
                           SessionOf[d] = SessionOf[u] =>
                             /\ d = serving' => ~In(u, stdin')
                             /\ Owed(d)' => ~In(u, waiting')
                             /\ Before(stdin', u, d) /\ Before(waiting', u, d)
    BY DEF UseInv
  <2>1. u \in Request /\ u \notin Connects /\ u \notin Disconnects /\ SessionOf[u] \in Connects
    BY DEF Uses
  <2>2. CASE u = r
    <3>1. SessionHeld(u)
      BY <1>1, <2>1, <2>2
    <3>2. \A d \in Disconnects : SessionOf[d] = SessionOf[u] => ~Owed(d) /\ ~In(d, waiting)
      BY <3>1 DEF SessionHeld, PlaceInv
    <3>3. process = "exited" \/ SessionOf[u] \in native
      BY <2>1, <3>1 DEF SessionHeld, ConnectedInv
    <3>4. \A d \in Disconnects : SessionOf[d] = SessionOf[u] => Before(waiting', u, d)
      <4> SUFFICES ASSUME NEW d \in Disconnects, SessionOf[d] = SessionOf[u]
                   PROVE  Before(waiting', u, d)
        OBVIOUS
      <4>1. u # d /\ Before(waiting, u, d)
        BY <2>1 DEF UseInv
      <4>2. CASE waiting' = Append(waiting, r)
        BY <1>5, <3>2, <4>1, <4>2, Appended
      <4> QED
        BY <1>4, <4>1, <4>2
    <3> QED
      BY <1>1, <1>2, <2>2, <3>2, <3>3, <3>4 DEF UseInv, Owed
  <2>3. CASE u # r
    <3>1. \A d \in Disconnects : SessionOf[d] = SessionOf[u] => Before(waiting', u, d)
      <4> SUFFICES ASSUME NEW d \in Disconnects, SessionOf[d] = SessionOf[u]
                   PROVE  Before(waiting', u, d)
        OBVIOUS
      <4>1. u # d /\ Before(waiting, u, d)
        BY <2>1 DEF UseInv
      <4>2. CASE waiting' = Append(waiting, r)
        BY <1>5, <2>3, <4>1, <4>2, Appended
      <4> QED
        BY <1>4, <4>1, <4>2
    <3> QED
      BY <1>1, <1>6, <2>3, <3>1 DEF UseInv, Owed
  <2> QED
    BY <2>2, <2>3
<1> QED
  BY <1>7, <1>8, <1>9, <1>10, <1>11, <1>12, <1>13

\* The head of the requests that wait for `ready` leaves them.
LEMMA SendStep == ASSUME IInv, Send PROVE IInv'
<1> USE HelperAssumption DEF HelperAssumption
<1> USE DEF IInv
<1> DEFINE h == Head(waiting)
<1>1. /\ waiting # <<>> /\ waiting' = Tail(waiting)
      /\ pending' = pending \cup {h}
      /\ call' = [call EXCEPT ![h] = "pending"]
      /\ stdin' = IF process = "running" THEN Append(stdin, h) ELSE stdin
      /\ UNCHANGED <<ready, readyResolved, disposeRequested, exitSeen>>
      /\ UNCHANGED <<process, serving, native, noise, stdout>>
  BY DEF Send, clientVars, helperVars
<1>2. /\ waiting \in Seq(Request) /\ stdin \in Seq(Request)
      /\ call \in [Request -> {"idle", "waiting", "pending"} \cup Over]
  BY DEF TypeOK
<1>3. /\ h \in Request /\ waiting' \in Seq(Request)
      /\ In(h, waiting) /\ ~In(h, waiting') /\ Once(waiting')
      /\ \A x : In(x, waiting') => In(x, waiting)
      /\ \A x, y : Before(waiting, x, y) => Before(waiting', x, y)
      /\ \A x : Before(waiting, x, h) => ~In(x, waiting)
  BY <1>1, <1>2, Shortened DEF PlaceInv
<1>4. call[h] = "waiting" /\ ~Owed(h) /\ ~AnswerDue(stdout, h)
  BY <1>3 DEF PlaceInv
<1> HIDE DEF h
<1>5. /\ stdin' \in Seq(Request)
      /\ \A x : In(x, stdin') => In(x, stdin) \/ (x = h /\ process = "running")
      /\ Once(stdin')
  BY <1>1, <1>2, <1>3, <1>4, Appended DEF PlaceInv, Owed
<1>6. /\ call'[h] = "pending"
      /\ \A x \in Request \ {h} : call'[x] = call[x]
      /\ call' \in [Request -> {"idle", "waiting", "pending"} \cup Over]
  BY <1>1, <1>2, <1>3
<1>7. TypeOK'
  BY <1>1, <1>3, <1>5, <1>6 DEF TypeOK
<1>8. PlaceInv'
  <2>1. ASSUME NEW x \in Request
        PROVE  /\ In(x, waiting') => call'[x] = "waiting"
               /\ Owed(x)' => /\ call'[x] \in {"pending", "timed_out", "error"} /\ ~AnswerDue(stdout', x)
                              /\ call'[x] = "error" => disposeRequested'
               /\ AnswerDue(stdout', x) => call'[x] \in {"pending", "timed_out", "error"}
               /\ x \in pending' => call'[x] = "pending"
    BY <1>1, <1>3, <1>4, <1>5, <1>6 DEF PlaceInv, Owed
  <2>2. ~In(serving', stdin')
    BY <1>1, <1>4, <1>5 DEF PlaceInv, Owed
  <2> QED
    BY <1>1, <1>3, <1>5, <2>1, <2>2 DEF PlaceInv
<1>9. IdleInv'
  BY <1>1 DEF IdleInv
<1>10. CalledInv'
  BY <1>4, <1>6 DEF CalledInv
<1>11. NativeInv'
  <2> SUFFICES ASSUME NEW s \in native
               PROVE  /\ ~Owed(s)' /\ ~Says(stdout, "error", s)
                      /\ call'[s] \in {"pending", "resolved", "timed_out"}
                           \/ (disposeRequested /\ call'[s] = "error")
    BY <1>1 DEF NativeInv
  <2>1. s \in Request /\ s # h
    BY <1>4 DEF NativeInv, TypeOK
  <2> QED
    BY <1>1, <1>5, <1>6, <2>1 DEF NativeInv, Owed
<1>12. ConnectedInv'
  <2>1. \A x \in Request : /\ call'[x] = "resolved" <=> call[x] = "resolved"
                           /\ call[x] # "idle" => call'[x] # "idle"
    BY <1>4, <1>6
  <2> QED
    BY <1>1, <2>1 DEF ConnectedInv
<1>13. UseInv'
  <2> SUFFICES ASSUME NEW u \in Uses
               PROVE  /\ Owed(u)' => SessionOf[u] \in native'
                      /\ In(u, waiting') => process' = "exited" \/ SessionOf[u] \in native'
                      /\ \A d \in Disconnects :
                           SessionOf[d] = SessionOf[u] =>
                             /\ d = serving' => ~In(u, stdin')
                             /\ Owed(d)' => ~In(u, waiting')
                             /\ Before(stdin', u, d) /\ Before(waiting', u, d)
    BY DEF UseInv
  <2>1. Owed(u)' => SessionOf[u] \in native'
    BY <1>1, <1>3, <1>5 DEF UseInv, Owed
  <2>2. In(u, waiting') => process' = "exited" \/ SessionOf[u] \in native'
    BY <1>1, <1>3 DEF UseInv
  <2>3. ASSUME NEW d \in Disconnects, SessionOf[d] = SessionOf[u]
        PROVE  /\ d = serving' => ~In(u, stdin')
               /\ Owed(d)' => ~In(u, waiting')
               /\ Before(stdin', u, d) /\ Before(waiting', u, d)
    <3>1. u # d
      BY DEF Uses
    <3>2. d = serving' => ~In(u, stdin')
      BY <1>1, <1>3, <1>5, <2>3 DEF UseInv, Owed
    <3>3. Owed(d)' => ~In(u, waiting')
      BY <1>1, <1>3, <1>5, <2>3 DEF UseInv, Owed
    <3>4. Before(waiting', u, d)
      BY <1>3, <2>3 DEF UseInv
    <3>5. h = u => ~In(d, stdin)
      BY <1>3, <2>3 DEF UseInv, Owed
    <3>6. Before(stdin', u, d)
      BY <1>1, <1>2, <1>3, <2>3, <3>1, <3>5, Appended DEF UseInv
    <3> QED
      BY <3>2, <3>3, <3>4, <3>6
  <2> QED
    BY <2>1, <2>2, <2>3
<1> QED
  BY <1>7, <1>8, <1>9, <1>10, <1>11, <1>12, <1>13

LEMMA SendThrowsStep == ASSUME IInv, SendThrows PROVE IInv'
<1> USE HelperAssumption DEF HelperAssumption
<1> USE DEF IInv
<1> DEFINE h == Head(waiting)
<1>1. /\ waiting # <<>> /\ waiting' = Tail(waiting)
      /\ call' = [call EXCEPT ![h] = "error"]
      /\ UNCHANGED <<ready, readyResolved, disposeRequested, exitSeen, pending>>
      /\ UNCHANGED <<process, serving, native, noise, stdin, stdout>>
  BY DEF SendThrows, clientVars, helperVars
<1>2. /\ waiting \in Seq(Request)
      /\ call \in [Request -> {"idle", "waiting", "pending"} \cup Over]
  BY DEF TypeOK
<1>3. /\ h \in Request /\ waiting' \in Seq(Request)
      /\ In(h, waiting) /\ ~In(h, waiting') /\ Once(waiting')
      /\ \A x : In(x, waiting') => In(x, waiting)
      /\ \A x, y : Before(waiting, x, y) => Before(waiting', x, y)
  BY <1>1, <1>2, Shortened DEF PlaceInv
<1>4. call[h] = "waiting" /\ ~Owed(h) /\ ~AnswerDue(stdout, h) /\ h \notin pending
  BY <1>3 DEF PlaceInv
<1> HIDE DEF h
<1>5. /\ call'[h] = "error"
      /\ \A x \in Request \ {h} : call'[x] = call[x]
      /\ call' \in [Request -> {"idle", "waiting", "pending"} \cup Over]
  BY <1>1, <1>2, <1>3 DEF Over
<1>6. TypeOK'
  BY <1>1, <1>3, <1>5 DEF TypeOK
<1>7. PlaceInv'
  <2>1. ASSUME NEW x \in Request
        PROVE  /\ In(x, waiting') => call'[x] = "waiting"
               /\ Owed(x)' => /\ call'[x] \in {"pending", "timed_out", "error"} /\ ~AnswerDue(stdout', x)
                              /\ call'[x] = "error" => disposeRequested'
               /\ AnswerDue(stdout', x) => call'[x] \in {"pending", "timed_out", "error"}
               /\ x \in pending' => call'[x] = "pending"
    BY <1>1, <1>3, <1>4, <1>5 DEF PlaceInv, Owed
  <2> QED
    BY <1>1, <1>3, <2>1 DEF PlaceInv
<1>8. IdleInv' /\ CalledInv'
  BY <1>1, <1>4, <1>5 DEF IdleInv, CalledInv
<1>9. NativeInv'
  <2> SUFFICES ASSUME NEW s \in native
               PROVE  /\ ~Owed(s)' /\ ~Says(stdout, "error", s)
                      /\ call'[s] \in {"pending", "resolved", "timed_out"}
                           \/ (disposeRequested /\ call'[s] = "error")
    BY <1>1 DEF NativeInv
  <2>1. s \in Request /\ s # h
    BY <1>4 DEF NativeInv, TypeOK
  <2> QED
    BY <1>1, <1>5, <2>1 DEF NativeInv, Owed
<1>10. ConnectedInv'
  <2>1. \A x \in Request : /\ call'[x] = "resolved" <=> call[x] = "resolved"
                           /\ call[x] # "idle" => call'[x] # "idle"
    BY <1>4, <1>5
  <2> QED
    BY <1>1, <2>1 DEF ConnectedInv
<1>11. UseInv'
  BY <1>1, <1>3 DEF UseInv, Owed
<1> QED
  BY <1>6, <1>7, <1>8, <1>9, <1>10, <1>11

\* Some pending requests end without their answer, in whatever way.
LEMMA CallsEnd ==
  ASSUME IInv, NEW P \in SUBSET pending, NEW kind \in {"error", "timed_out"},
         call' = [r \in Request |-> IF r \in P THEN kind ELSE call[r]],
         pending' = pending \ P \/ pending' = {},
         ready' \in {"pending", "resolved", "rejected"}, readyResolved' \in BOOLEAN,
         disposeRequested' \in BOOLEAN, exitSeen' \in BOOLEAN,
         process' = process \/ (process # "running" /\ process' = "exited"),
         disposeRequested => disposeRequested',
         kind = "error" => disposeRequested' \/ process # "running" \/ P = {},
         UNCHANGED <<waiting, serving, native, noise, stdin, stdout>>
  PROVE  IInv'
<1> USE HelperAssumption DEF HelperAssumption
<1> USE DEF IInv
<1>1. /\ call \in [Request -> {"idle", "waiting", "pending"} \cup Over]
      /\ P \subseteq Request
      /\ \A r \in P : call[r] = "pending"
  BY DEF TypeOK, PlaceInv
<1>2. /\ \A r \in Request : r \notin P => call'[r] = call[r]
      /\ \A r \in P : call'[r] = kind
      /\ call' \in [Request -> {"idle", "waiting", "pending"} \cup Over]
  BY <1>1 DEF Over
<1>3. TypeOK'
  <2>1. pending' \subseteq Request /\ process' \in {"starting", "running", "exited"}
    BY DEF TypeOK
  <2> QED
    BY <1>2, <2>1 DEF TypeOK
<1>4. PlaceInv'
  <2>1. ASSUME NEW x \in Request
        PROVE  /\ In(x, waiting') => call'[x] = "waiting"
               /\ AnswerDue(stdout', x) => call'[x] \in {"pending", "timed_out", "error"}
               /\ x \in pending' => call'[x] = "pending"
    BY <1>1, <1>2 DEF PlaceInv
  <2>2. ASSUME NEW x \in Request, Owed(x)'
        PROVE  /\ call'[x] \in {"pending", "timed_out", "error"} /\ ~AnswerDue(stdout', x)
               /\ call'[x] = "error" => disposeRequested'
    <3>1. Owed(x)
      BY <2>2 DEF Owed
    <3>2. process = "running"
      BY <3>1, EmptyQueue DEF IdleInv, Owed
    <3> QED
      BY <1>1, <1>2, <3>1, <3>2 DEF PlaceInv
  <2> QED
    BY <2>1, <2>2 DEF PlaceInv
<1>5. IdleInv'
  BY DEF IdleInv
<1>6. CalledInv'
  BY <1>1, <1>2 DEF CalledInv
<1>7. NativeInv'
  <2> SUFFICES ASSUME NEW s \in native
               PROVE  /\ ~Owed(s)' /\ ~Says(stdout, "error", s)
                      /\ call'[s] \in {"pending", "resolved", "timed_out"}
                           \/ (disposeRequested' /\ call'[s] = "error")
    BY DEF NativeInv
  <2>1. s \in Request /\ process = "running"
    BY DEF TypeOK, IdleInv
  <2> QED
    BY <1>1, <1>2, <2>1 DEF NativeInv, Owed
<1>8. ConnectedInv'
  <2>1. \A x \in Request : /\ call'[x] = "resolved" <=> call[x] = "resolved"
                           /\ call[x] # "idle" => call'[x] # "idle"
    BY <1>1, <1>2
  <2> QED
    BY <2>1 DEF ConnectedInv
<1>9. UseInv'
  BY DEF UseInv, Owed
<1> QED
  BY <1>3, <1>4, <1>5, <1>6, <1>7, <1>8, <1>9

LEMMA RequestTimeoutStep == ASSUME IInv, NEW r \in Request, RequestTimeout(r) PROVE IInv'
<1> DEFINE P == {r}
<1>1. /\ P \in SUBSET pending /\ pending' = pending \ P
      /\ call' = [x \in Request |-> IF x \in P THEN "timed_out" ELSE call[x]]
  BY DEF RequestTimeout, IInv, TypeOK
<1>2. UNCHANGED <<ready, readyResolved, disposeRequested, exitSeen, process>>
      /\ UNCHANGED <<waiting, serving, native, noise, stdin, stdout>>
  BY DEF RequestTimeout, clientVars, helperVars
<1> HIDE DEF P
<1> QED
  BY <1>1, <1>2, CallsEnd DEF IInv, TypeOK

\* Every pending request is rejected, as dispose() and the events of a lost process do.
LEMMA RejectStep ==
  ASSUME IInv, SpawnError \/ StdinError \/ Dispose \/ (ExitEvent /\ ~disposeRequested) PROVE IInv'
<1>1. /\ call' = [x \in Request |-> IF x \in pending THEN "error" ELSE call[x]]
      /\ pending' = pending \ pending
      /\ UNCHANGED <<waiting, readyResolved, serving, native, noise, stdin, stdout>>
  BY DEF SpawnError, StdinError, Dispose, ExitEvent, RejectPendingRequests, clientVars, helperVars
<1>2. /\ process' = process \/ (process # "running" /\ process' = "exited")
      /\ disposeRequested' \/ process # "running"
  BY DEF SpawnError, StdinError, Dispose, ExitEvent, clientVars, helperVars
<1>3. ready \in {"pending", "resolved", "rejected"} /\ readyResolved \in BOOLEAN
      /\ disposeRequested \in BOOLEAN /\ exitSeen \in BOOLEAN
  BY DEF IInv, TypeOK
<1>4. ready' \in {"pending", "resolved", "rejected"}
  BY <1>3 DEF SpawnError, StdinError, Dispose, ExitEvent, SettleReady, clientVars
<1>5. /\ disposeRequested' \in BOOLEAN /\ exitSeen' \in BOOLEAN /\ readyResolved' \in BOOLEAN
      /\ disposeRequested => disposeRequested'
  BY <1>3 DEF SpawnError, StdinError, Dispose, ExitEvent, clientVars
<1> QED
  BY <1>1, <1>2, <1>4, <1>5, CallsEnd

\* After dispose() the exit handler only forgets the requests.
LEMMA ForgetStep == ASSUME IInv, ExitEvent, disposeRequested PROVE IInv'
<1> DEFINE P == {}
<1>1. /\ P \in SUBSET pending /\ pending' = {}
      /\ call' = [x \in Request |-> IF x \in P THEN "error" ELSE call[x]]
  BY DEF ExitEvent, IInv, TypeOK
<1>2. /\ UNCHANGED <<disposeRequested, readyResolved, process>>
      /\ UNCHANGED <<waiting, serving, native, noise, stdin, stdout>>
      /\ ready' \in {ready, "rejected"} /\ exitSeen' = TRUE
  BY DEF ExitEvent, SettleReady, helperVars
<1> QED
  BY <1>1, <1>2, CallsEnd DEF IInv, TypeOK
-----------------------------------------------------------------------------
(* The lines from the helper.                                              *)

\* Node reads a line; unless it answers a pending request, only `ready` may change.
LEMMA DropLineStep ==
  ASSUME IInv, stdout # <<>>, stdout' = Tail(stdout),
         ready' \in {"pending", "resolved", "rejected"}, readyResolved' \in BOOLEAN,
         UNCHANGED <<disposeRequested, exitSeen, requestVars, helperVars, stdin>>
  PROVE  IInv'
<1> USE DEF IInv
<1>1. UNCHANGED <<waiting, pending, call, process, serving, native, noise>>
  BY DEF requestVars, helperVars
<1>2. stdout \in Seq(Line)
  BY DEF TypeOK
<1>3. /\ stdout' \in Seq(Line) /\ OneAnswer(stdout')
      /\ \A kind, r : Says(stdout', kind, r) => Says(stdout, kind, r)
  BY <1>2, LineRead DEF PlaceInv
<1>4. TypeOK'
  BY <1>1, <1>3 DEF TypeOK
<1>5. PlaceInv'
  BY <1>1, <1>3 DEF PlaceInv, Owed, AnswerDue
<1>6. IdleInv' /\ CalledInv' /\ UseInv'
  BY <1>1 DEF IdleInv, CalledInv, UseInv, Owed
<1>7. NativeInv'
  BY <1>1, <1>3 DEF NativeInv, Owed
<1>8. ConnectedInv'
  BY <1>1, <1>3 DEF ConnectedInv
<1> QED
  BY <1>4, <1>5, <1>6, <1>7, <1>8

LEMMA HandleAnswerStep == ASSUME IInv, HandleAnswer PROVE IInv'
<1> USE HelperAssumption DEF HelperAssumption
<1> USE DEF IInv
<1> DEFINE r == Head(stdout).id
           kind == Head(stdout).kind
<1>1. /\ stdout # <<>> /\ stdout' = Tail(stdout) /\ kind \in {"resolved", "error"}
      /\ pending' = pending \ {r}
      /\ call' = IF r \in pending THEN [call EXCEPT ![r] = kind] ELSE call
      /\ UNCHANGED <<ready, readyResolved, disposeRequested, exitSeen, waiting>>
      /\ UNCHANGED <<process, serving, native, noise, stdin>>
  BY DEF HandleAnswer, ReceiveLine, helperVars
<1>2. stdout \in Seq(Line) /\ call \in [Request -> {"idle", "waiting", "pending"} \cup Over]
  BY DEF TypeOK
<1>3. /\ Head(stdout) \in Line /\ stdout' \in Seq(Line) /\ OneAnswer(stdout')
      /\ Says(stdout, kind, r)
      /\ \A k, x : Says(stdout', k, x) => Says(stdout, k, x)
      /\ \A k : Says(stdout', k, r) => r = NoRequest
  BY <1>1, <1>2, LineRead DEF PlaceInv
<1>4. r \in Request
  BY <1>1, <1>3 DEF Line
<1> HIDE DEF r, kind
<1>5. CASE r \notin pending
  <2>1. pending' = pending /\ call' = call
    BY <1>1, <1>5
  <2> QED
    BY <1>1, <2>1, DropLineStep DEF TypeOK, requestVars, helperVars
<1>6. CASE r \in pending
  <2>1. /\ call'[r] = kind
        /\ \A x \in Request \ {r} : call'[x] = call[x]
        /\ call' \in [Request -> {"idle", "waiting", "pending"} \cup Over]
    BY <1>1, <1>2, <1>4, <1>6 DEF Over
  <2>2. /\ call[r] = "pending" /\ ~Owed(r) /\ ~AnswerDue(stdout', r) /\ ~In(r, waiting)
    BY <1>1, <1>3, <1>4, <1>6 DEF PlaceInv, AnswerDue
  <2>3. TypeOK'
    BY <1>1, <1>3, <2>1 DEF TypeOK
  <2>4. PlaceInv'
    <3>1. ASSUME NEW x \in Request
          PROVE  /\ In(x, waiting') => call'[x] = "waiting"
                 /\ Owed(x)' => /\ call'[x] \in {"pending", "timed_out", "error"}
                                /\ ~AnswerDue(stdout', x)
                                /\ call'[x] = "error" => disposeRequested'
                 /\ AnswerDue(stdout', x) => call'[x] \in {"pending", "timed_out", "error"}
                 /\ x \in pending' => call'[x] = "pending"
      BY <1>1, <1>3, <2>1, <2>2 DEF PlaceInv, Owed, AnswerDue
    <3> QED
      BY <1>1, <1>3, <3>1 DEF PlaceInv
  <2>5. IdleInv' /\ CalledInv' /\ UseInv'
    BY <1>1, <2>1, <2>2 DEF IdleInv, CalledInv, UseInv, Owed
  <2>6. NativeInv'
    <3> SUFFICES ASSUME NEW s \in native
                 PROVE  /\ ~Owed(s)' /\ ~Says(stdout', "error", s)
                        /\ call'[s] \in {"pending", "resolved", "timed_out"}
                             \/ (disposeRequested /\ call'[s] = "error")
      BY <1>1 DEF NativeInv
    <3>1. s \in Request
      BY DEF TypeOK
    <3>2. s = r => kind = "resolved"
      BY <1>1, <1>3 DEF NativeInv
    <3> QED
      BY <1>1, <1>3, <2>1, <3>1, <3>2 DEF NativeInv, Owed
  <2>7. ConnectedInv'
    <3>1. ASSUME NEW x \in Request
          PROVE  /\ call'[x] = "resolved" => call[x] = "resolved" \/ Says(stdout, "resolved", x)
                 /\ call[x] # "idle" => call'[x] # "idle"
      BY <1>1, <1>3, <2>1
    <3> QED
      BY <1>1, <1>3, <3>1 DEF ConnectedInv
  <2> QED
    BY <2>3, <2>4, <2>5, <2>6, <2>7
<1> QED
  BY <1>5, <1>6

LEMMA HandleLineStep == ASSUME IInv, HandleLine PROVE IInv'
<1>1. CASE HandleNoise \/ HandleReady
  <2>1. /\ stdout # <<>> /\ stdout' = Tail(stdout)
        /\ UNCHANGED <<disposeRequested, exitSeen, waiting, pending, call, helperVars, stdin>>
        /\ ready' \in {ready, "rejected", "resolved"}
        /\ readyResolved' = readyResolved \/ readyResolved' = TRUE
    BY <1>1 DEF HandleNoise, HandleReady, ReceiveLine, SettleReady
  <2> QED
    BY <2>1, DropLineStep DEF IInv, TypeOK, requestVars
<1> QED
  BY <1>1, HandleAnswerStep DEF HandleLine
-----------------------------------------------------------------------------
(* The helper.                                                             *)

\* A line that answers nothing is printed before the helper takes requests.
LEMMA PrintStep == ASSUME IInv, PrintNoise \/ HelperReady PROVE IInv'
<1> USE HelperAssumption DEF HelperAssumption
<1> USE DEF IInv
<1>1. PICK line \in [kind : {"ready", "noise"}, id : {NoRequest}] : stdout' = Append(stdout, line)
  BY DEF PrintNoise, HelperReady
<1>2. /\ process = "starting" /\ process' \in {"starting", "running"}
      /\ noise' \in 0 .. MaxNoise
      /\ UNCHANGED <<ready, readyResolved, disposeRequested, exitSeen, waiting, pending, call>>
      /\ UNCHANGED <<serving, native, stdin>>
  BY DEF PrintNoise, HelperReady, clientVars, requestVars, TypeOK
<1>3. stdout \in Seq(Line) /\ line \in Line
  BY DEF TypeOK, Line
<1>4. /\ stdout' \in Seq(Line) /\ OneAnswer(stdout')
      /\ \A kind \in {"resolved", "error"} : \A r : Says(stdout', kind, r) <=> Says(stdout, kind, r)
  BY <1>1, <1>3, LineAppended DEF PlaceInv
<1>5. TypeOK'
  BY <1>2, <1>4 DEF TypeOK
<1>6. PlaceInv'
  BY <1>2, <1>4 DEF PlaceInv, Owed, AnswerDue
<1>7. IdleInv' /\ CalledInv' /\ UseInv'
  BY <1>2 DEF IdleInv, CalledInv, UseInv, Owed
<1>8. NativeInv' /\ ConnectedInv'
  BY <1>2, <1>4 DEF NativeInv, ConnectedInv, Owed
<1> QED
  BY <1>5, <1>6, <1>7, <1>8

LEMMA TakeRequestStep == ASSUME IInv, TakeRequest PROVE IInv'
<1> USE HelperAssumption DEF HelperAssumption
<1> USE DEF IInv
<1> DEFINE h == Head(stdin)
<1>1. /\ process = "running" /\ serving = NoRequest /\ stdin # <<>>
      /\ serving' = h /\ stdin' = Tail(stdin)
      /\ UNCHANGED <<ready, readyResolved, disposeRequested, exitSeen, waiting, pending, call>>
      /\ UNCHANGED <<process, native, noise, stdout>>
  BY DEF TakeRequest, clientVars, requestVars
<1>2. stdin \in Seq(Request)
  BY DEF TypeOK
<1>3. /\ h \in Request /\ stdin' \in Seq(Request)
      /\ In(h, stdin) /\ ~In(h, stdin') /\ Once(stdin')
      /\ \A x : In(x, stdin') => In(x, stdin)
      /\ \A x, y : Before(stdin, x, y) => Before(stdin', x, y)
      /\ \A x : Before(stdin, x, h) => ~In(x, stdin)
  BY <1>1, <1>2, Shortened DEF PlaceInv
<1> HIDE DEF h
<1>4. \A x : Owed(x)' => Owed(x)
  BY <1>1, <1>3 DEF Owed
<1>5. TypeOK'
  BY <1>1, <1>3 DEF TypeOK
<1>6. PlaceInv'
  BY <1>1, <1>3, <1>4 DEF PlaceInv
<1>7. IdleInv' /\ CalledInv'
  BY <1>1 DEF IdleInv, CalledInv
<1>8. NativeInv' /\ ConnectedInv'
  BY <1>1, <1>4 DEF NativeInv, ConnectedInv
<1>9. UseInv'
  <2> SUFFICES ASSUME NEW u \in Uses
               PROVE  /\ Owed(u)' => SessionOf[u] \in native'
                      /\ In(u, waiting') => process' = "exited" \/ SessionOf[u] \in native'
                      /\ \A d \in Disconnects :
                           SessionOf[d] = SessionOf[u] =>
                             /\ d = serving' => ~In(u, stdin')
                             /\ Owed(d)' => ~In(u, waiting')
                             /\ Before(stdin', u, d) /\ Before(waiting', u, d)
    BY DEF UseInv
  <2>1. /\ Owed(u)' => SessionOf[u] \in native'
        /\ In(u, waiting') => process' = "exited" \/ SessionOf[u] \in native'
    BY <1>1, <1>4 DEF UseInv
  <2>2. ASSUME NEW d \in Disconnects, SessionOf[d] = SessionOf[u]
        PROVE  /\ d = serving' => ~In(u, stdin')
               /\ Owed(d)' => ~In(u, waiting')
               /\ Before(stdin', u, d) /\ Before(waiting', u, d)
    BY <1>1, <1>3, <1>4, <2>2 DEF UseInv
  <2> QED
    BY <2>1, <2>2
<1> QED
  BY <1>5, <1>6, <1>7, <1>8, <1>9

\* The helper answers what it serves: a connect may add its session, a disconnect
\* removes its own.
LEMMA AnswerStep ==
  ASSUME IInv, NEW kind \in {"resolved", "error"}, serving \in Request, Answer(kind),
         \/ native' = native
         \/ serving \in Connects /\ kind = "resolved" /\ native' = native \cup {serving}
         \/ serving \in Disconnects /\ native' = native \ {SessionOf[serving]},
         serving \in Connects /\ kind = "resolved" => serving \in native',
         serving \in Disconnects => SessionOf[serving] \notin native'
  PROVE  IInv'
<1> USE HelperAssumption DEF HelperAssumption
<1> USE DEF IInv
<1> DEFINE line == [kind |-> kind, id |-> serving]
<1>1. /\ serving' = NoRequest /\ stdout' = Append(stdout, line)
      /\ UNCHANGED <<ready, readyResolved, disposeRequested, exitSeen, waiting, pending, call>>
      /\ UNCHANGED <<process, noise, stdin>>
  BY DEF Answer, clientVars, requestVars
<1>2. stdout \in Seq(Line) /\ line \in Line /\ line.kind = kind /\ line.id = serving
  BY DEF TypeOK, Line
<1>3. /\ Owed(serving) /\ ~AnswerDue(stdout, serving) /\ ~In(serving, stdin)
      /\ call[serving] \in {"pending", "timed_out", "error"}
      /\ call[serving] = "error" => disposeRequested
  BY DEF PlaceInv, Owed
<1> HIDE DEF line
<1>4. /\ stdout' \in Seq(Line) /\ OneAnswer(stdout')
      /\ \A k, r : Says(stdout', k, r) <=> Says(stdout, k, r) \/ (k = kind /\ r = serving)
  BY <1>1, <1>2, <1>3, LineAppended DEF PlaceInv
<1>5. \A r : r \in Request /\ Owed(r)' => Owed(r) /\ r # serving
  BY <1>1, <1>3 DEF Owed
<1>6. process = "running"
  BY DEF IdleInv
<1>7. TypeOK'
  <2>1. native' \subseteq Connects
    BY DEF TypeOK
  <2> QED
    BY <1>1, <1>4, <2>1 DEF TypeOK
<1>8. PlaceInv'
  <2>1. ASSUME NEW x \in Request
        PROVE  /\ In(x, waiting') => call'[x] = "waiting"
               /\ Owed(x)' => /\ call'[x] \in {"pending", "timed_out", "error"} /\ ~AnswerDue(stdout', x)
                              /\ call'[x] = "error" => disposeRequested'
               /\ AnswerDue(stdout', x) => call'[x] \in {"pending", "timed_out", "error"}
               /\ x \in pending' => call'[x] = "pending"
    BY <1>1, <1>3, <1>4, <1>5 DEF PlaceInv, AnswerDue
  <2>2. ~In(serving', stdin')
    <3>1. \A x : In(x, stdin) => x \in Request
      BY DEF In, TypeOK
    <3> QED
      BY <1>1, <3>1
  <2> QED
    BY <1>1, <1>4, <2>1, <2>2 DEF PlaceInv
<1>9. IdleInv' /\ CalledInv'
  BY <1>1, <1>6 DEF IdleInv, CalledInv
<1>10. NativeInv'
  <2> SUFFICES ASSUME NEW s \in native'
               PROVE  /\ ~Owed(s)' /\ ~Says(stdout', "error", s)
                      /\ call[s] \in {"pending", "resolved", "timed_out"}
                           \/ (disposeRequested /\ call[s] = "error")
    BY <1>1 DEF NativeInv
  <2>1. s \in Request
    BY <1>7 DEF TypeOK
  <2>2. CASE s \in native
    BY <1>3, <1>4, <1>5, <2>1, <2>2 DEF NativeInv
  <2>3. CASE s = serving /\ kind = "resolved"
    BY <1>1, <1>3, <1>4, <1>5, <2>1, <2>3 DEF AnswerDue
  <2> QED
    BY <2>2, <2>3
<1>11. ConnectedInv'
  <2>1. ASSUME NEW s \in Connects, call[s] = "resolved" \/ Says(stdout', "resolved", s)
        PROVE  \/ process = "exited" \/ s \in native'
               \/ \E d \in Disconnects : SessionOf[d] = s /\ call[d] # "idle"
    <3>1. CASE s = serving /\ kind = "resolved"
      BY <3>1
    <3>2. CASE call[s] = "resolved" \/ Says(stdout, "resolved", s)
      BY <1>3, <3>2 DEF ConnectedInv
    <3> QED
      BY <1>4, <2>1, <3>1, <3>2
  <2>2. ASSUME NEW d \in Disconnects, call[d] = "resolved" \/ Says(stdout', "resolved", d)
        PROVE  SessionOf[d] \notin native'
    <3>1. CASE d = serving
      BY <3>1
    <3>2. CASE d # serving
      <4>1. call[d] = "resolved" \/ Says(stdout, "resolved", d)
        BY <1>4, <2>2, <3>2
      <4>2. SessionOf[d] \notin native
        BY <4>1 DEF ConnectedInv
      <4>3. call[d] # "idle"
        BY <4>1 DEF PlaceInv, AnswerDue
      <4>4. SessionOf[d] # serving
        BY <1>3, <4>3 DEF CalledInv
      <4> QED
        BY <4>2, <4>4
    <3> QED
      BY <3>1, <3>2
  <2> QED
    BY <1>1, <2>1, <2>2 DEF ConnectedInv
<1>12. UseInv'
  <2> SUFFICES ASSUME NEW u \in Uses
               PROVE  /\ Owed(u)' => SessionOf[u] \in native'
                      /\ In(u, waiting') => process' = "exited" \/ SessionOf[u] \in native'
                      /\ \A d \in Disconnects :
                           SessionOf[d] = SessionOf[u] =>
                             /\ d = serving' => ~In(u, stdin')
                             /\ Owed(d)' => ~In(u, waiting')
                             /\ Before(stdin', u, d) /\ Before(waiting', u, d)
    BY DEF UseInv
  <2>1. u \in Request
    BY DEF Uses
  <2>2. In(u, stdin) \/ In(u, waiting) =>
          ~(serving \in Disconnects /\ SessionOf[serving] = SessionOf[u])
    BY <1>3 DEF UseInv
  <2>3. In(u, stdin) \/ In(u, waiting) => (SessionOf[u] \in native => SessionOf[u] \in native')
    BY <2>2
  <2>4. /\ Owed(u)' => SessionOf[u] \in native'
        /\ In(u, waiting') => process' = "exited" \/ SessionOf[u] \in native'
    BY <1>1, <1>5, <2>1, <2>3 DEF UseInv, Owed
  <2>5. ASSUME NEW d \in Disconnects, SessionOf[d] = SessionOf[u]
        PROVE  /\ d = serving' => ~In(u, stdin')
               /\ Owed(d)' => ~In(u, waiting')
               /\ Before(stdin', u, d) /\ Before(waiting', u, d)
    BY <1>1, <1>5, <2>5 DEF UseInv
  <2> QED
    BY <2>4, <2>5
<1> QED
  BY <1>7, <1>8, <1>9, <1>10, <1>11, <1>12

LEMMA ServeStep == ASSUME IInv, ServeConnect \/ ServeDisconnect \/ ServeUse PROVE IInv'
<1> USE HelperAssumption DEF HelperAssumption
<1>1. CASE ServeConnect
  BY <1>1, AnswerStep DEF ServeConnect
<1>2. CASE ServeDisconnect
  BY <1>2, AnswerStep DEF ServeDisconnect
<1>3. CASE ServeUse
  BY <1>3, AnswerStep DEF ServeUse, Uses
<1> QED
  BY <1>1, <1>2, <1>3

LEMMA HelperExitsStep == ASSUME IInv, HelperExits PROVE IInv'
<1> USE HelperAssumption DEF HelperAssumption
<1> USE DEF IInv
<1>1. /\ process' = "exited" /\ serving' = NoRequest /\ native' = {} /\ stdin' = <<>>
      /\ UNCHANGED <<ready, readyResolved, disposeRequested, exitSeen, waiting, pending, call>>
      /\ UNCHANGED <<noise, stdout>>
  BY DEF HelperExits, clientVars, requestVars
<1>2. \A r \in Request : ~In(r, stdin') /\ ~Owed(r)'
  BY <1>1, EmptyQueue DEF Owed
<1>3. Once(stdin') /\ ~In(serving', stdin') /\ \A r, s : Before(stdin', r, s)
  BY <1>1, EmptyQueue
<1>4. TypeOK'
  <2>1. stdin' \in Seq(Request)
    BY <1>1
  <2> QED
    BY <1>1, <2>1 DEF TypeOK
<1>5. PlaceInv'
  BY <1>1, <1>2, <1>3 DEF PlaceInv
<1>6. IdleInv' /\ CalledInv' /\ NativeInv' /\ ConnectedInv'
  BY <1>1 DEF IdleInv, CalledInv, NativeInv, ConnectedInv
<1>7. UseInv'
  BY <1>1, <1>2, <1>3 DEF UseInv, Uses
<1> QED
  BY <1>4, <1>5, <1>6, <1>7

LEMMA NextIInv == ASSUME IInv, [Next]_vars PROVE IInv'
<1>1. ASSUME NEW r \in Request, StartRequest(r) \/ RequestTimeout(r) PROVE IInv'
  BY <1>1, StartRequestStep, RequestTimeoutStep
<1>2. CASE Send \/ SendThrows
  BY <1>2, SendStep, SendThrowsStep
<1>3. CASE HandleLine
  BY <1>3, HandleLineStep
<1>4. CASE SpawnError \/ StdinError \/ ExitEvent \/ Dispose
  BY <1>4, RejectStep, ForgetStep
<1>5. CASE PrintNoise \/ HelperReady \/ TakeRequest
  BY <1>5, PrintStep, TakeRequestStep
<1>6. CASE ServeConnect \/ ServeDisconnect \/ ServeUse
  BY <1>6, ServeStep
<1>7. CASE HelperExits
  BY <1>7, HelperExitsStep
<1>8. CASE UNCHANGED vars
  <2>1. UNCHANGED <<ready, readyResolved, disposeRequested, exitSeen, waiting, pending, call>>
        /\ UNCHANGED <<process, serving, native, noise, stdin, stdout>>
    BY <1>8 DEF vars, clientVars, requestVars, helperVars
  <2> QED
    BY <2>1 DEF IInv, TypeOK, PlaceInv, IdleInv, CalledInv, NativeInv, ConnectedInv, UseInv, Owed
<1> QED
  BY <1>1, <1>2, <1>3, <1>4, <1>5, <1>6, <1>7, <1>8 DEF Next

\* Every request is in one place at a time, and both ends agree on the sessions, in
\* every interleaving of Node, the helper and their pipes (helper-request.ts, Program.cs).
THEOREM Invariance == Spec => []IInv
<1>1. Init => IInv
  BY InitIInv
<1>2. IInv /\ [Next]_vars => IInv'
  BY NextIInv
<1> QED
  BY <1>1, <1>2, PTL DEF Spec

\* The client's map, its promise and the lines in the pipes keep their types.
THEOREM TypeCorrect == Spec => []TypeOK
<1>1. IInv => TypeOK
  BY DEF IInv
<1> QED
  BY <1>1, Invariance, PTL

\* A use is never served after the disconnect of its session (helper-transport.ts
\* gives the session id up before it sends the disconnect, and lines keep their order).
THEOREM SessionsKnown == Spec => []UsesKnownSession
<1>1. IInv => UsesKnownSession
  BY DEF IInv, UseInv, Owed, UsesKnownSession
<1> QED
  BY <1>1, Invariance, PTL

\* Node and the helper agree on the native sessions, but for a connect whose deadline
\* has passed (helper-request.ts) and after dispose().
THEOREM SessionsOwned == Spec => []NativeSessionsAreOwned
<1>1. IInv => NativeSessionsAreOwned
  BY DEF IInv, NativeInv, ConnectedInv, NativeSessionsAreOwned
<1> QED
  BY <1>1, Invariance, PTL
=============================================================================
