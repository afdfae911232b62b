----------------------- MODULE DeviceWorkQueueProofs -----------------------
(***************************************************************************)
(* Proofs about the promise-chain queue for every set of calls, addresses  *)
(* and loops.  The inductive invariant ties the pieces of the chain        *)
(* together: what the map's entry, a call's `previous` and a settled       *)
(* promise each say about the calls made earlier for the same address.     *)
(***************************************************************************)
EXTENDS DeviceWorkQueue, TLAPS

Submitted(c) == phase[c] # "idle"
Over(c) == phase[c] \in Finished

\* A ticket is taken when the call is made, and no two calls share one.
TicketInv ==
  /\ \A c \in Call : Submitted(c) => ticket[c] < nextTicket
  /\ \A c, d \in Call : Submitted(c) /\ Submitted(d) /\ ticket[c] = ticket[d] => c = d

\* Only calls that were made have a settled promise.
SettledSubmitted == \A c \in settled : Submitted(c)

\* The map's entry is the last call of its address, and it is unfinished.
TailInv ==
  \A a \in Address :
    /\ deviceQueues[a] = NoCall
         => \A c \in Call : AddressOf[c] = a /\ Submitted(c) => Over(c)
    /\ deviceQueues[a] # NoCall
         => /\ AddressOf[deviceQueues[a]] = a
            /\ phase[deviceQueues[a]] \in {"waiting", "working"}
            /\ \A c \in Call :
                 AddressOf[c] = a /\ Submitted(c) => ticket[c] <= ticket[deviceQueues[a]]

\* A settled promise means that its call and all earlier ones are over.
SettledInv ==
  \A c \in settled : \A d \in Call :
    SameAddress(c, d) /\ Submitted(d) /\ ticket[d] <= ticket[c] => Over(d)

\* `previous` is the call made just before, unless all earlier ones are over.
PreviousInv ==
  \A c \in Call : Submitted(c) =>
    /\ previous[c] = NoCall
         => \A d \in Call :
              SameAddress(c, d) /\ Submitted(d) /\ ticket[d] < ticket[c] => Over(d)
    /\ previous[c] # NoCall
         => /\ SameAddress(previous[c], c)
            /\ Submitted(previous[c])
            /\ \A d \in Call :
                 SameAddress(c, d) /\ Submitted(d) /\ ticket[d] < ticket[c]
                   => Over(d) \/ ticket[d] <= ticket[previous[c]]

IInv ==
  /\ TypeOK
  /\ TicketInv
  /\ SettledSubmitted
  /\ TailInv
  /\ SettledInv
  /\ PreviousInv
  /\ FifoPerAddress
-----------------------------------------------------------------------------
LEMMA InitTypeOK == Init => TypeOK
<1> USE QueueAssumption DEF QueueAssumption, TypeOK, Phase, Finished
<1> SUFFICES ASSUME Init PROVE TypeOK
  OBVIOUS
<1>1. stopRequested \in BOOLEAN /\ sleepWaiters \subseteq Loop /\ sleeping \subseteq Loop
  BY DEF Init
<1>2. deviceQueues \in [Address -> Call \cup {NoCall}]
  BY DEF Init
<1>3. phase \in [Call -> Phase] /\ previous \in [Call -> Call \cup {NoCall}]
  BY DEF Init
<1>4. settled \subseteq Call /\ ticket \in [Call -> Nat] /\ nextTicket \in Nat \ {0}
  BY DEF Init
<1> QED
  BY <1>1, <1>2, <1>3, <1>4

LEMMA NextTypeOK == TypeOK /\ [Next]_vars => TypeOK'
<1> USE QueueAssumption DEF QueueAssumption, TypeOK, Phase, Finished
<1> SUFFICES ASSUME TypeOK, [Next]_vars PROVE TypeOK'
  OBVIOUS
<1>1. ASSUME NEW c \in Call, Enqueue(c) PROVE TypeOK'
  BY <1>1 DEF Enqueue, sleepVars
<1>2. ASSUME NEW c \in Call, StartWork(c) PROVE TypeOK'
  BY <1>2 DEF StartWork, sleepVars
<1>3. ASSUME NEW c \in Call, FinishWork(c) PROVE TypeOK'
  BY <1>3 DEF FinishWork, QueuesWithout, sleepVars
<1>4. ASSUME NEW c \in Call, Settle(c) PROVE TypeOK'
  BY <1>4 DEF Settle, sleepVars
<1>5. ASSUME NEW l \in Loop, Sleep(l) \/ TimerFires(l) PROVE TypeOK'
  BY <1>5 DEF Sleep, TimerFires, queueVars
<1>6. CASE Stop \/ Reset
  BY <1>6 DEF Stop, Reset, queueVars
<1>7. CASE UNCHANGED vars
  BY <1>7 DEF vars, queueVars, sleepVars
<1> QED
  BY <1>1, <1>2, <1>3, <1>4, <1>5, <1>6, <1>7 DEF Next

\* Every variable keeps its type, in each action of the queue and of the sleep.
THEOREM TypeCorrect == Spec => []TypeOK
BY InitTypeOK, NextTypeOK, PTL DEF Spec

\* A call whose `previous` has settled is preceded only by calls that are over:
\* the fact on which StartWork rests.
LEMMA TurnHasCome ==
  ASSUME IInv, NEW c \in Call, Submitted(c), PreviousSettled(c)
  PROVE  \A d \in Call :
           SameAddress(c, d) /\ Submitted(d) /\ ticket[d] < ticket[c] => Over(d)
<1> USE DEF IInv
<1>1. CASE previous[c] = NoCall
  BY <1>1 DEF PreviousInv
<1>2. CASE previous[c] # NoCall
  <2>1. previous[c] \in settled
    BY <1>2 DEF PreviousSettled
  <2>2. SUFFICES ASSUME NEW d \in Call, SameAddress(c, d), Submitted(d), ticket[d] < ticket[c]
                 PROVE  Over(d)
    OBVIOUS
  <2>3. Over(d) \/ ticket[d] <= ticket[previous[c]]
    BY <1>2, <2>2 DEF PreviousInv
  <2>4. SameAddress(previous[c], d)
    BY <1>2, <2>2 DEF PreviousInv, SameAddress
  <2> QED
    BY <2>1, <2>2, <2>3, <2>4 DEF SettledInv
<1> QED
  BY <1>1, <1>2

\* The order facts are about the queue's variables only.
LEMMA OrderUntouched ==
  ASSUME IInv, TypeOK', UNCHANGED queueVars
  PROVE  IInv'
BY DEF IInv, queueVars, TicketInv, SettledSubmitted, TailInv, SettledInv, PreviousInv,
       FifoPerAddress, Submitted, Over, SameAddress

\* A new call takes the largest ticket and the place behind the tail.
LEMMA EnqueueKeepsOrder ==
  ASSUME IInv, TypeOK', NEW c \in Call, Enqueue(c)
  PROVE  IInv'
<1> USE QueueAssumption DEF QueueAssumption, IInv, TypeOK, Submitted, Over, SameAddress
<1>1. /\ phase[c] = "idle"
      /\ phase' = [phase EXCEPT ![c] = "waiting"]
      /\ ticket' = [ticket EXCEPT ![c] = nextTicket]
      /\ nextTicket' = nextTicket + 1
      /\ settled' = settled
      /\ previous' = [previous EXCEPT ![c] = deviceQueues[AddressOf[c]]]
      /\ deviceQueues' = [deviceQueues EXCEPT ![AddressOf[c]] = c]
  BY DEF Enqueue
<1>2. \A d \in Call : d # c =>
        phase'[d] = phase[d] /\ ticket'[d] = ticket[d] /\ previous'[d] = previous[d]
  BY <1>1
<1>3. phase'[c] = "waiting" /\ ticket'[c] = nextTicket
  BY <1>1
<1>4. \A d \in Call : d # c /\ Submitted(d) => ticket[d] < nextTicket
  BY DEF TicketInv
<1>5. TicketInv'
  BY <1>1, <1>2, <1>3, <1>4 DEF TicketInv
<1>6. SettledSubmitted'
  BY <1>1, <1>2, <1>3 DEF SettledSubmitted
<1>7. c \notin settled
  BY <1>1 DEF SettledSubmitted
<1>8. TailInv'
  <2> SUFFICES ASSUME NEW a \in Address
               PROVE  /\ deviceQueues'[a] = NoCall
                           => \A d \in Call : AddressOf[d] = a /\ Submitted(d)' => Over(d)'
                      /\ deviceQueues'[a] # NoCall
                           => /\ AddressOf[deviceQueues'[a]] = a
                              /\ phase'[deviceQueues'[a]] \in {"waiting", "working"}
                              /\ \A d \in Call :
                                   AddressOf[d] = a /\ Submitted(d)'
                                     => ticket'[d] <= ticket'[deviceQueues'[a]]
    BY DEF TailInv
  <2>1. CASE a = AddressOf[c]
    <3>1. deviceQueues'[a] = c
      BY <1>1, <2>1
    <3> QED
      BY <1>2, <1>3, <1>4, <2>1, <3>1
  <2>2. CASE a # AddressOf[c]
    <3>1. deviceQueues'[a] = deviceQueues[a]
      BY <1>1, <2>2
    <3>2. deviceQueues[a] # NoCall => deviceQueues[a] \in Call /\ deviceQueues[a] # c
      BY <2>2 DEF TailInv
    <3> QED
      BY <1>2, <2>2, <3>1, <3>2 DEF TailInv
  <2> QED
    BY <2>1, <2>2
<1>9. SettledInv'
  <2> SUFFICES ASSUME NEW e \in settled, NEW d \in Call,
                      SameAddress(e, d), Submitted(d)', ticket'[d] <= ticket'[e]
               PROVE  Over(d)'
    BY <1>1 DEF SettledInv
  <2>1. e # c /\ Submitted(e)
    BY <1>7 DEF SettledSubmitted
  <2>2. d # c
    BY <1>2, <1>3, <1>4, <2>1
  <2> QED
    BY <1>2, <2>1, <2>2 DEF SettledInv
<1>10. PreviousInv'
  <2> SUFFICES ASSUME NEW e \in Call, Submitted(e)'
               PROVE
         /\ previous'[e] = NoCall
              => \A d \in Call :
                   SameAddress(e, d) /\ Submitted(d)' /\ ticket'[d] < ticket'[e] => Over(d)'
         /\ previous'[e] # NoCall
              => /\ SameAddress(previous'[e], e)
                 /\ phase'[previous'[e]] # "idle"
                 /\ \A d \in Call :
                      SameAddress(e, d) /\ Submitted(d)' /\ ticket'[d] < ticket'[e]
                        => Over(d)' \/ ticket'[d] <= ticket'[previous'[e]]
    BY DEF PreviousInv
  <2>1. CASE e = c
    <3>1. previous'[e] = deviceQueues[AddressOf[c]]
      BY <1>1, <2>1
    <3>2. \A d \in Call : Submitted(d)' /\ ticket'[d] < ticket'[e] => d # c /\ Submitted(d)
      BY <1>2, <1>3, <2>1
    <3>3. CASE deviceQueues[AddressOf[c]] = NoCall
      BY <1>2, <2>1, <3>1, <3>2, <3>3 DEF TailInv
    <3>4. CASE deviceQueues[AddressOf[c]] # NoCall
      <4>1. deviceQueues[AddressOf[c]] \in Call /\ deviceQueues[AddressOf[c]] # c
        BY <1>1, <3>4 DEF TailInv
      <4> QED
        BY <1>2, <2>1, <3>1, <3>2, <3>4, <4>1 DEF TailInv
    <3> QED
      BY <3>3, <3>4
  <2>2. CASE e # c
    <3>1. Submitted(e) /\ previous'[e] = previous[e] /\ ticket'[e] = ticket[e]
      BY <1>2, <2>2
    <3>2. \A d \in Call : Submitted(d)' /\ ticket'[d] < ticket'[e] => d # c /\ Submitted(d)
      BY <1>2, <1>3, <1>4, <2>2, <3>1
    <3>3. previous[e] # NoCall => previous[e] \in Call /\ previous[e] # c
      BY <1>1, <3>1 DEF PreviousInv
    <3> QED
      BY <1>2, <2>2, <3>1, <3>2, <3>3 DEF PreviousInv
  <2> QED
    BY <2>1, <2>2
<1>11. FifoPerAddress'
  <2> SUFFICES ASSUME NEW e \in Call, NEW d \in Call, SameAddress(e, d), phase'[e] # "idle",
                      ticket'[e] < ticket'[d], phase'[d] \in {"working"} \cup Finished
               PROVE  phase'[e] \in Finished
    BY DEF FifoPerAddress
  <2>1. d # c
    BY <1>3 DEF Finished
  <2>2. Submitted(d) /\ ticket[d] < nextTicket
    BY <1>2, <1>4, <2>1 DEF Finished
  <2>3. e # c
    BY <1>2, <1>3, <2>1, <2>2
  <2> QED
    BY <1>2, <2>1, <2>3 DEF FifoPerAddress
<1> QED
  BY <1>5, <1>6, <1>8, <1>9, <1>10, <1>11

\* Starting work needs the turn to have come; the rest of the order stands.
LEMMA StartKeepsOrder ==
  ASSUME IInv, TypeOK', NEW c \in Call, StartWork(c)
  PROVE  IInv'
<1> USE QueueAssumption DEF QueueAssumption, IInv, TypeOK, Submitted, Over, SameAddress
<1>1. /\ phase[c] = "waiting" /\ phase' = [phase EXCEPT ![c] = "working"]
      /\ UNCHANGED <<deviceQueues, previous, settled, ticket, nextTicket>>
  BY DEF StartWork
<1>2. /\ \A d \in Call : Submitted(d)' <=> Submitted(d)
      /\ \A d \in Call : Over(d)' <=> Over(d)
      /\ \A d \in Call :
           phase[d] \in {"waiting", "working"} <=> phase'[d] \in {"waiting", "working"}
  BY <1>1 DEF Finished
<1>3. \A d \in Call : SameAddress(c, d) /\ Submitted(d) /\ ticket[d] < ticket[c] => Over(d)
  BY <1>1, TurnHasCome DEF StartWork
<1>4. TicketInv' /\ SettledSubmitted' /\ SettledInv'
  BY <1>1, <1>2 DEF TicketInv, SettledSubmitted, SettledInv
<1>5. TailInv'
  BY <1>1, <1>2 DEF TailInv
<1>6. PreviousInv'
  BY <1>1, <1>2 DEF PreviousInv
<1>7. FifoPerAddress'
  BY <1>1, <1>2, <1>3 DEF FifoPerAddress, Finished
<1> QED
  BY <1>4, <1>5, <1>6, <1>7

\* Finished work leaves its entry only if it is still the tail.
LEMMA FinishKeepsOrder ==
  ASSUME IInv, TypeOK', NEW c \in Call, FinishWork(c)
  PROVE  IInv'
<1> USE QueueAssumption DEF QueueAssumption, IInv, TypeOK, Submitted, Over, SameAddress
<1>1. /\ phase[c] = "working"
      /\ deviceQueues' = QueuesWithout(c)
      /\ UNCHANGED <<previous, settled, ticket, nextTicket>>
  BY DEF FinishWork
<1>2. PICK outcome \in Finished : phase' = [phase EXCEPT ![c] = outcome]
  BY DEF FinishWork
<1>3. /\ \A d \in Call : Submitted(d)' <=> Submitted(d)
      /\ \A d \in Call : Over(d)' <=> Over(d) \/ d = c
      /\ \A d \in Call : d # c => phase'[d] = phase[d]
  BY <1>1, <1>2 DEF Finished
<1>4. TicketInv' /\ SettledSubmitted' /\ SettledInv'
  BY <1>1, <1>3 DEF TicketInv, SettledSubmitted, SettledInv
<1>5. PreviousInv'
  BY <1>1, <1>3 DEF PreviousInv
<1>6. FifoPerAddress'
  BY <1>1, <1>3 DEF FifoPerAddress
<1>7. TailInv'
  <2>1. \A a \in Address :
          deviceQueues'[a] = IF a = AddressOf[c] /\ deviceQueues[a] = c THEN NoCall ELSE deviceQueues[a]
    BY <1>1 DEF QueuesWithout
  <2>2. deviceQueues[AddressOf[c]] = c
          => \A d \in Call : SameAddress(c, d) /\ Submitted(d) => d = c \/ Over(d)
    <3> SUFFICES ASSUME deviceQueues[AddressOf[c]] = c, NEW d \in Call,
                        SameAddress(c, d), Submitted(d), d # c
                 PROVE  Over(d)
      OBVIOUS
    <3>1. AddressOf[c] \in Address /\ c # NoCall
      OBVIOUS
    <3>2. ticket[d] <= ticket[c]
      BY <3>1 DEF TailInv
    <3>3. ticket[d] # ticket[c]
      <4>1. Submitted(c) /\ TicketInv
        BY <1>1
      <4> QED
        BY <4>1, Zenon DEF TicketInv
    <3>4. ticket[d] \in Nat /\ ticket[c] \in Nat
      OBVIOUS
    <3>5. ticket[d] < ticket[c]
      BY <3>2, <3>3, <3>4
    <3> QED
      BY <1>1, <3>5 DEF FifoPerAddress
  <2>3. SUFFICES ASSUME NEW a \in Address
                 PROVE  /\ deviceQueues'[a] = NoCall
                             => \A d \in Call : AddressOf[d] = a /\ Submitted(d)' => Over(d)'
                        /\ deviceQueues'[a] # NoCall
                             => /\ AddressOf[deviceQueues'[a]] = a
                                /\ phase'[deviceQueues'[a]] \in {"waiting", "working"}
                                /\ \A d \in Call :
                                     AddressOf[d] = a /\ Submitted(d)'
                                       => ticket'[d] <= ticket'[deviceQueues'[a]]
    BY DEF TailInv
  <2>4. CASE a = AddressOf[c] /\ deviceQueues[a] = c
    BY <1>3, <2>1, <2>2, <2>4
  <2>5. CASE ~(a = AddressOf[c] /\ deviceQueues[a] = c)
    <3>1. deviceQueues'[a] = deviceQueues[a]
      BY <2>1, <2>5
    <3>2. deviceQueues[a] # NoCall => deviceQueues[a] # c
      BY <2>5 DEF TailInv
    <3> QED
      BY <1>1, <1>3, <3>1, <3>2 DEF TailInv
  <2> QED
    BY <2>4, <2>5
<1> QED
  BY <1>4, <1>5, <1>6, <1>7

\* The chained promise settles after everything it was chained to.
LEMMA SettleKeepsOrder ==
  ASSUME IInv, TypeOK', NEW c \in Call, Settle(c)
  PROVE  IInv'
<1> USE QueueAssumption DEF QueueAssumption, IInv, TypeOK, Submitted, Over, SameAddress
<1>1. /\ Over(c) /\ settled' = settled \cup {c}
      /\ UNCHANGED <<deviceQueues, phase, previous, ticket, nextTicket>>
  BY DEF Settle
<1>2. \A d \in Call : SameAddress(c, d) /\ Submitted(d) /\ ticket[d] < ticket[c] => Over(d)
  BY <1>1, TurnHasCome DEF Settle, Finished
<1>3. SettledInv'
  <2> SUFFICES ASSUME NEW e \in settled \cup {c}, NEW d \in Call,
                      SameAddress(e, d), Submitted(d), ticket[d] <= ticket[e]
               PROVE  Over(d)
    BY <1>1 DEF SettledInv
  <2>1. CASE e = c
    <3>1. CASE ticket[d] < ticket[c]
      BY <1>2, <2>1, <3>1
    <3>2. CASE ticket[d] = ticket[c]
      BY <1>1, <3>2 DEF TicketInv, Finished
    <3> QED
      BY <2>1, <3>1, <3>2
  <2>2. CASE e \in settled
    BY <2>2 DEF SettledInv
  <2> QED
    BY <2>1, <2>2
<1>4. TicketInv' /\ SettledSubmitted' /\ TailInv' /\ PreviousInv' /\ FifoPerAddress'
  BY <1>1 DEF TicketInv, SettledSubmitted, TailInv, PreviousInv, FifoPerAddress, Finished
<1> QED
  BY <1>3, <1>4

LEMMA InitIInv == Init => IInv
<1> SUFFICES ASSUME Init PROVE IInv
  OBVIOUS
<1>1. TypeOK
  BY InitTypeOK
<1>2. /\ \A c \in Call : phase[c] = "idle"
      /\ settled = {}
      /\ \A a \in Address : deviceQueues[a] = NoCall
  BY DEF Init
<1>3. TicketInv /\ SettledSubmitted /\ SettledInv
  BY <1>2 DEF TicketInv, SettledSubmitted, SettledInv, Submitted
<1>4. TailInv
  BY <1>2 DEF TailInv, Submitted
<1>5. PreviousInv /\ FifoPerAddress
  BY <1>2 DEF PreviousInv, FifoPerAddress, Submitted
<1> QED
  BY <1>1, <1>3, <1>4, <1>5 DEF IInv

LEMMA NextIInv == IInv /\ [Next]_vars => IInv'
<1> SUFFICES ASSUME IInv, [Next]_vars PROVE IInv'
  OBVIOUS
<1>1. TypeOK'
  BY NextTypeOK DEF IInv
<1>2. ASSUME NEW c \in Call, Enqueue(c) PROVE IInv'
  BY <1>1, <1>2, EnqueueKeepsOrder
<1>3. ASSUME NEW c \in Call, StartWork(c) PROVE IInv'
  BY <1>1, <1>3, StartKeepsOrder
<1>4. ASSUME NEW c \in Call, FinishWork(c) PROVE IInv'
  BY <1>1, <1>4, FinishKeepsOrder
<1>5. ASSUME NEW c \in Call, Settle(c) PROVE IInv'
  BY <1>1, <1>5, SettleKeepsOrder
<1>6. ASSUME NEW l \in Loop, Sleep(l) \/ TimerFires(l) PROVE IInv'
  BY <1>1, <1>6, OrderUntouched DEF Sleep, TimerFires
<1>7. CASE Stop \/ Reset
  BY <1>1, <1>7, OrderUntouched DEF Stop, Reset
<1>8. CASE UNCHANGED vars
  BY <1>1, <1>8, OrderUntouched DEF vars
<1> QED
  BY <1>2, <1>3, <1>4, <1>5, <1>6, <1>7, <1>8 DEF Next

LEMMA InductiveInvariant == Spec => []IInv
BY InitIInv, NextIInv, PTL DEF Spec
-----------------------------------------------------------------------------
\* Work for one address runs in the order in which enqueue was called, whatever
\* the number of calls and the interleaving of their settling.
THEOREM Fifo == Spec => []FifoPerAddress
<1>1. IInv => FifoPerAddress
  BY DEF IInv
<1> QED
  BY <1>1, InductiveInvariant, PTL

\* Two pieces of work for one address never run at the same time.
THEOREM MutualExclusion == Spec => []OneWorkerPerAddress
<1>1. IInv => OneWorkerPerAddress
  <2> SUFFICES ASSUME IInv, NEW c \in Call, NEW d \in Call, SameAddress(c, d),
                      phase[c] = "working", phase[d] = "working"
               PROVE  c = d
    BY DEF OneWorkerPerAddress
  <2>1. Submitted(c) /\ Submitted(d) /\ ticket[c] \in Nat /\ ticket[d] \in Nat
    BY DEF Submitted, IInv, TypeOK
  <2>2. ~(ticket[c] < ticket[d]) /\ ~(ticket[d] < ticket[c])
    BY DEF IInv, FifoPerAddress, SameAddress, Finished
  <2>3. ticket[c] = ticket[d]
    BY <2>1, <2>2
  <2> QED
    BY <2>1, <2>3 DEF IInv, TicketInv
<1> QED
  BY <1>1, InductiveInvariant, PTL

\* The map never keeps an entry for finished work, nor loses the entry of work
\* that the next call has to wait for.
THEOREM TailEntry == Spec => []TailIsLastUnfinished
<1>1. IInv => TailIsLastUnfinished
  <2> SUFFICES ASSUME IInv, NEW a \in Address
               PROVE  LET unfinished == {c \in Call : AddressOf[c] = a /\ phase[c] \in {"waiting", "working"}}
                      IN  IF unfinished = {}
                          THEN deviceQueues[a] = NoCall
                          ELSE /\ deviceQueues[a] \in unfinished
                               /\ \A c \in unfinished : ticket[c] <= ticket[deviceQueues[a]]
    BY DEF TailIsLastUnfinished
  <2>1. deviceQueues[a] \in Call \cup {NoCall}
    BY DEF IInv, TypeOK
  <2>2. \A c \in Call : phase[c] \in {"waiting", "working"} => Submitted(c) /\ ~Over(c)
    BY DEF Submitted, Over, Finished
  <2> QED
    BY <2>1, <2>2 DEF IInv, TailInv
<1> QED
  BY <1>1, InductiveInvariant, PTL

\* No loop sleeps while a stop is requested, whatever the number of loops.
THEOREM StopWakes == Spec => []NoSleepDuringStop
<1> DEFINE J == NoSleepDuringStop /\ sleeping \subseteq sleepWaiters
<1>1. Init => J
  BY DEF Init, NoSleepDuringStop
<1>2. J /\ [Next]_vars => J'
  <2> SUFFICES ASSUME J, [Next]_vars PROVE J'
    OBVIOUS
  <2> USE DEF NoSleepDuringStop
  <2>1. ASSUME NEW c \in Call, Enqueue(c) \/ StartWork(c) \/ FinishWork(c) \/ Settle(c)
        PROVE  J'
    BY <2>1 DEF Enqueue, StartWork, FinishWork, Settle, sleepVars
  <2>2. ASSUME NEW l \in Loop, Sleep(l) \/ TimerFires(l) PROVE J'
    BY <2>2 DEF Sleep, TimerFires
  <2>3. CASE Stop \/ Reset
    BY <2>3 DEF Stop, Reset
  <2>4. CASE UNCHANGED vars
    BY <2>4 DEF vars, sleepVars
  <2> QED
    BY <2>1, <2>2, <2>3, <2>4 DEF Next
<1> QED
  BY <1>1, <1>2, PTL DEF Spec

\* The promise chain implements the serial executor: each action of the chain
\* is an action of the executor or leaves its variables alone.
THEOREM Refinement == Spec => Executor!Spec
<1>1. Init => Executor!Init
  BY DEF Init, Executor!Init
<1>2. IInv /\ [Next]_vars => [Executor!Next]_(Executor!executorVars)
  <2> SUFFICES ASSUME IInv, [Next]_vars
               PROVE  Executor!Next \/ UNCHANGED Executor!executorVars
    OBVIOUS
  <2> USE DEF Executor!executorVars
  <2>1. ASSUME NEW c \in Call, Enqueue(c) PROVE Executor!Submit(c)
    BY <2>1 DEF Enqueue, Executor!Submit
  <2>2. ASSUME NEW c \in Call, StartWork(c) PROVE Executor!Begin(c)
    <3>1. \A d \in Executor!Ahead(c) : phase[d] \in Executor!Finished
      <4>1. Submitted(c) /\ PreviousSettled(c)
        BY <2>2 DEF StartWork, Submitted
      <4> QED
        BY <4>1, TurnHasCome
           DEF Executor!Ahead, Executor!SameAddress, Executor!Submitted, Executor!Finished,
               SameAddress, Submitted, Over, Finished
    <3> QED
      BY <2>2, <3>1 DEF StartWork, Executor!Begin
  <2>3. ASSUME NEW c \in Call, FinishWork(c) PROVE Executor!End(c)
    BY <2>3 DEF FinishWork, Executor!End, Executor!Finished, Finished
  <2>4. ASSUME NEW c \in Call, Settle(c) PROVE UNCHANGED Executor!executorVars
    BY <2>4 DEF Settle
  <2>5. ASSUME NEW l \in Loop, Sleep(l) \/ TimerFires(l) PROVE UNCHANGED Executor!executorVars
    BY <2>5 DEF Sleep, TimerFires, queueVars
  <2>6. CASE Stop \/ Reset
    BY <2>6 DEF Stop, Reset, queueVars
  <2>7. CASE UNCHANGED vars
    BY <2>7 DEF vars, queueVars
  <2> QED
    BY <2>1, <2>2, <2>3, <2>4, <2>5, <2>6, <2>7 DEF Next, Executor!Next
<1> QED
  BY <1>1, <1>2, InductiveInvariant, PTL DEF Spec, Executor!Spec
=============================================================================
