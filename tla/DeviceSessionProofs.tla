------------------------ MODULE DeviceSessionProofs ------------------------
(***************************************************************************)
(* Proofs about one session, for every set of commands.  The inductive     *)
(* invariant accounts for every byte the device still owes: a session that *)
(* accepts commands has nothing on the wire but the rest of the answer to  *)
(* the command in flight.                                                  *)
(***************************************************************************)
EXTENDS DeviceSession, TLAPS

\* Before the session is initialised nothing was performed.
InitialisingInv ==
  stage # "done" =>
    /\ ~IsReady /\ pending = NoCommand /\ owed = {} /\ wire = <<>>
    /\ \A c \in Command : call[c] = "idle"

OneInFlight ==
  \A c, d \in Command : call[c] \in InFlight /\ call[d] \in InFlight => c = d

\* The waiter belongs to the command in flight, and only while it is performed.
PendingInv ==
  /\ pending # NoCommand =>
       call[pending] \in InFlight /\ promise[pending] = "pending" /\ state = "performing_command"
  /\ pending = NoCommand => state # "performing_command" /\ buffer = <<>>

HeadOf(c) == [of |-> c, part |-> "head"]
TailOf(c) == [of |-> c, part |-> "tail"]

\* What buffer and wire hold of the answer to the pending command.
AnswerUnderWay ==
  \/ buffer = <<>> /\ wire = <<HeadOf(pending), TailOf(pending)>>
  \/ buffer = <<HeadOf(pending)>> /\ wire = <<TailOf(pending)>>
  \/ buffer = <<HeadOf(pending)>> /\ wire = <<>>
  \/ buffer = <<>> /\ \E p \in Part \ {"tail"} : wire = <<[of |-> pending, part |-> p]>>

FlowInv ==
  /\ pending # NoCommand =>
       /\ owed \subseteq {pending}
       /\ \/ buffer = <<>> /\ wire = <<>>
          \/ AnswerUnderWay /\ owed = {} /\ pending \in received
  /\ pending = NoCommand /\ IsReady =>
       /\ owed = {} /\ wire = <<>>
       /\ \A c \in Command : call[c] = "writing" => c \in received

\* A response that perform has yet to return has left nothing behind.
ResolvedInv ==
  \A c \in Command : promise[c] = "resolved" /\ call[c] \in InFlight =>
    /\ pending = NoCommand /\ owed = {} /\ wire = <<>>
    /\ c \in received

OwedReceived == owed \subseteq received

\* A command started while disconnect() is under way was never sent.
ClosingInv ==
  closing # "no" /\ pending # NoCommand => call[pending] = "unsent"

IInv ==
  /\ TypeOK
  /\ InitialisingInv
  /\ OneInFlight
  /\ PendingInv
  /\ FlowInv
  /\ ResolvedInv
  /\ OwedReceived
  /\ ClosingInv
  /\ AnswersOwnCommand
-----------------------------------------------------------------------------
LEMMA InitTypeOK == Init => TypeOK
<1> USE SessionAssumption DEF SessionAssumption, TypeOK, State, Stage, Promise, Over, Rejection, InFlight, Writing
<1> SUFFICES ASSUME Init PROVE TypeOK
  OBVIOUS
<1>1. call \in [Command -> {"idle"} \cup InFlight \cup Over] /\ promise \in [Command -> Promise]
  BY DEF Init
<1>2. answer \in [Command -> Command \cup {NoCommand}] /\ pending \in Command \cup {NoCommand}
  BY DEF Init
<1>3. state \in State /\ stage \in Stage /\ named \in BOOLEAN /\ subscribed \in BOOLEAN
  BY DEF Init
<1>4. /\ attempt \in 0 .. RetryCount - 1
      /\ stage = "backoff" => attempt < RetryCount - 1
      /\ closing \in {"no", "closing", "closed"}
  BY DEF Init
<1>5. buffer \in Seq(Chunk) /\ wire \in Seq(Chunk) /\ received \subseteq Command /\ owed \subseteq Command
  BY DEF Init
<1> QED
  BY <1>1, <1>2, <1>3, <1>4, <1>5

\* The type invariant in three parts: most actions disturb only one or two.
LinkTypeOK ==
  /\ state \in State
  /\ stage \in Stage
  /\ attempt \in 0 .. RetryCount - 1
  /\ stage = "backoff" => attempt < RetryCount - 1
  /\ named \in BOOLEAN
  /\ subscribed \in BOOLEAN
  /\ closing \in {"no", "closing", "closed"}

CallTypeOK ==
  /\ call \in [Command -> {"idle"} \cup InFlight \cup Over]
  /\ promise \in [Command -> Promise]
  /\ answer \in [Command -> Command \cup {NoCommand}]

FlowTypeOK ==
  /\ pending \in Command \cup {NoCommand}
  /\ buffer \in Seq(Chunk)
  /\ received \subseteq Command
  /\ owed \subseteq Command
  /\ wire \in Seq(Chunk)

LEMMA TypeParts ==
  /\ TypeOK <=> LinkTypeOK /\ CallTypeOK /\ FlowTypeOK
  /\ TypeOK' <=> LinkTypeOK' /\ CallTypeOK' /\ FlowTypeOK'
BY DEF TypeOK, LinkTypeOK, CallTypeOK, FlowTypeOK

LEMMA ChunkSequences ==
  /\ <<>> \in Seq(Chunk)
  /\ \A c \in Command : Answer(c) \subseteq Seq(Chunk)
<1>1. \A c \in Command, p \in Part : [of |-> c, part |-> p] \in Chunk
  BY DEF Chunk
<1>2. "head" \in Part /\ "tail" \in Part
  BY DEF Part
<1>3. ASSUME NEW c \in Command, NEW chunks \in Answer(c) PROVE chunks \in Seq(Chunk)
  <2>1. CASE chunks = <<[of |-> c, part |-> "head"], [of |-> c, part |-> "tail"]>>
    BY <1>1, <1>2, <2>1
  <2>2. ASSUME NEW p \in Part, chunks = <<[of |-> c, part |-> p]>> PROVE chunks \in Seq(Chunk)
    BY <1>1, <2>2
  <2> QED
    BY <2>1, <2>2 DEF Answer
<1> QED
  BY <1>3

\* The frame a notification completes is a non-empty sequence of chunks.
LEMMA FrameType ==
  ASSUME TypeOK, NEW chunk \in Chunk, Arrives(chunk)
  PROVE  /\ wire' \in Seq(Chunk)
         /\ Append(buffer, Head(wire)) \in Seq(Chunk)
         /\ Append(buffer, Head(wire))[1] \in Chunk
<1>1. buffer \in Seq(Chunk) /\ wire \in Seq(Chunk) /\ wire # <<>>
      /\ Head(wire) \in Chunk /\ wire' = Tail(wire)
  BY DEF Arrives, TypeOK
<1>2. Append(buffer, Head(wire)) \in Seq(Chunk) /\ 1 \in 1 .. Len(Append(buffer, Head(wire)))
  BY <1>1
<1> QED
  BY <1>1, <1>2

LEMMA NextTypeOK == TypeOK /\ [Next]_vars => TypeOK'
<1> USE SessionAssumption DEF SessionAssumption, State, Stage, Promise, Over, Rejection, InFlight, Writing
<1> SUFFICES ASSUME TypeOK, LinkTypeOK, CallTypeOK, FlowTypeOK, [Next]_vars PROVE TypeOK'
  BY TypeParts
<1> USE DEF callVars, deviceVars, initVars, ClearPendingState
<1>1. CASE StartConnect
  <2>1. LinkTypeOK'
    BY <1>1 DEF LinkTypeOK, StartConnect
  <2>2. CallTypeOK'
    BY <1>1 DEF CallTypeOK, StartConnect
  <2>3. FlowTypeOK'
    BY <1>1, ChunkSequences DEF FlowTypeOK, StartConnect
  <2> QED
    BY <2>1, <2>2, <2>3, TypeParts
<1>2. CASE Connected \/ NameRead \/ Subscribed \/ InitStepFails \/ InitCleanedUp
  <2>1. LinkTypeOK'
    BY <1>2 DEF LinkTypeOK, Connected, NameRead, Subscribed, InitStepFails, InitCleanedUp
  <2>2. CallTypeOK'
    BY <1>2 DEF CallTypeOK, Connected, NameRead, Subscribed, InitStepFails, InitCleanedUp
  <2>3. FlowTypeOK'
    BY <1>2, ChunkSequences DEF FlowTypeOK, Connected, NameRead, Subscribed, InitStepFails, InitCleanedUp
  <2> QED
    BY <2>1, <2>2, <2>3, TypeParts
<1>3. ASSUME NEW c \in Command, PerformRefused(c) \/ Perform(c) PROVE TypeOK'
  <2>1. LinkTypeOK'
    BY <1>3 DEF LinkTypeOK, PerformRefused, Perform, MayCall
  <2>2. CallTypeOK'
    BY <1>3 DEF CallTypeOK, PerformRefused, Perform, MayCall
  <2>3. FlowTypeOK'
    BY <1>3, ChunkSequences DEF FlowTypeOK, PerformRefused, Perform, MayCall
  <2> QED
    BY <2>1, <2>2, <2>3, TypeParts
<1>4. ASSUME NEW c \in Command, WriteAcknowledged(c) \/ WriteFails(c) PROVE TypeOK'
  <2>1. LinkTypeOK'
    BY <1>4 DEF LinkTypeOK, WriteAcknowledged, WriteFails
  <2>2. CallTypeOK'
    BY <1>4 DEF CallTypeOK, WriteAcknowledged, WriteFails
  <2>3. FlowTypeOK'
    BY <1>4, ChunkSequences DEF FlowTypeOK, WriteAcknowledged, WriteFails
  <2> QED
    BY <2>1, <2>2, <2>3, TypeParts
<1>5. ASSUME NEW c \in Command, Settle(c) PROVE TypeOK'
  <2>1. LinkTypeOK'
    BY <1>5 DEF LinkTypeOK, Settle, ReturnResponse, ThrowRejection
  <2>2. CallTypeOK'
    BY <1>5 DEF CallTypeOK, Settle, ReturnResponse, ThrowRejection
  <2>3. FlowTypeOK'
    BY <1>5, ChunkSequences DEF FlowTypeOK, Settle, ReturnResponse, ThrowRejection
  <2> QED
    BY <2>1, <2>2, <2>3, TypeParts
<1>6. ASSUME NEW c \in Command, DeviceReceives(c) \/ DeviceAnswers(c) PROVE TypeOK'
  <2>1. LinkTypeOK'
    BY <1>6 DEF LinkTypeOK, DeviceReceives, DeviceAnswers
  <2>2. CallTypeOK'
    BY <1>6 DEF CallTypeOK, DeviceReceives, DeviceAnswers
  <2>3. Answer(c) \subseteq Seq(Chunk)
    BY ChunkSequences
  <2>4. wire' \in Seq(Chunk)
    <3>1. CASE DeviceReceives(c)
      BY <3>1 DEF FlowTypeOK, DeviceReceives
    <3>2. CASE DeviceAnswers(c)
      <4>1. PICK chunks \in Answer(c) : wire' = wire \o chunks
        BY <3>2 DEF DeviceAnswers
      <4>2. wire \in Seq(Chunk) /\ chunks \in Seq(Chunk)
        BY <2>3 DEF FlowTypeOK
      <4> QED
        BY <4>1, <4>2
    <3> QED
      BY <1>6, <3>1, <3>2
  <2>5. FlowTypeOK'
    BY <1>6, <2>4 DEF FlowTypeOK, DeviceReceives, DeviceAnswers
  <2> QED
    BY <2>1, <2>2, <2>5, TypeParts
<1>7. CASE CommandTimeout
  <2>1. LinkTypeOK'
    BY <1>7 DEF LinkTypeOK, CommandTimeout, RejectPending
  <2>2. CallTypeOK'
    BY <1>7 DEF CallTypeOK, CommandTimeout, RejectPending
  <2>3. FlowTypeOK'
    BY <1>7, ChunkSequences DEF FlowTypeOK, CommandTimeout, RejectPending
  <2> QED
    BY <2>1, <2>2, <2>3, TypeParts
<1>8. CASE HandleNotification
  <2>1. PICK chunk \in Chunk : Arrives(chunk)
    BY <1>8 DEF HandleNotification, IgnoreNotification, ControlNotification, ExceptionNotification,
                CompleteNotification, MalformedNotification, PartialNotification, Appended
  <2>2. /\ wire' \in Seq(Chunk)
        /\ Append(buffer, Head(wire)) \in Seq(Chunk)
        /\ Append(buffer, Head(wire))[1].of \in Command
    BY <2>1, FrameType DEF Chunk
  <2>3. UNCHANGED <<named, subscribed, closing, initVars, call, received, owed>>
    BY <2>1 DEF Arrives
  <2>4. LinkTypeOK'
    BY <1>8, <2>3 DEF LinkTypeOK, HandleNotification, IgnoreNotification, ControlNotification,
       ExceptionNotification, CompleteNotification, MalformedNotification, PartialNotification,
       RejectPending
  <2>5. promise' \in [Command -> Promise]
    BY <1>8 DEF CallTypeOK, HandleNotification, IgnoreNotification, ControlNotification,
       ExceptionNotification, CompleteNotification, MalformedNotification, PartialNotification,
       RejectPending
  <2>6. answer' \in [Command -> Command \cup {NoCommand}]
    BY <1>8, <2>2 DEF CallTypeOK, HandleNotification, IgnoreNotification, ControlNotification,
       ExceptionNotification, CompleteNotification, MalformedNotification, PartialNotification
  <2>7. CallTypeOK'
    BY <2>3, <2>5, <2>6 DEF CallTypeOK
  <2>8. pending' \in Command \cup {NoCommand} /\ buffer' \in Seq(Chunk)
    BY <1>8, <2>2, ChunkSequences DEF FlowTypeOK, HandleNotification, IgnoreNotification, ControlNotification,
       ExceptionNotification, CompleteNotification, MalformedNotification, PartialNotification,
       RejectPending
  <2>9. FlowTypeOK'
    BY <2>2, <2>3, <2>8 DEF FlowTypeOK
  <2> QED
    BY <2>4, <2>7, <2>9, TypeParts
<1>9. CASE Disconnect \/ Disconnected
  <2>1. LinkTypeOK'
    BY <1>9 DEF LinkTypeOK, Disconnect, Disconnected
  <2>2. CallTypeOK'
    BY <1>9 DEF CallTypeOK, Disconnect, Disconnected
  <2>3. FlowTypeOK'
    BY <1>9, ChunkSequences DEF FlowTypeOK, Disconnect, Disconnected
  <2> QED
    BY <2>1, <2>2, <2>3, TypeParts
<1>10. CASE UNCHANGED vars
  <2>1. LinkTypeOK'
    BY <1>10 DEF LinkTypeOK, vars
  <2>2. CallTypeOK'
    BY <1>10 DEF CallTypeOK, vars
  <2>3. FlowTypeOK'
    BY <1>10, ChunkSequences DEF FlowTypeOK, vars
  <2> QED
    BY <2>1, <2>2, <2>3, TypeParts
<1> QED
  BY <1>1, <1>2, <1>3, <1>4, <1>5, <1>6, <1>7, <1>8, <1>9, <1>10 DEF Next, Initialize

\* Every variable keeps its type through each branch of the session's handlers.
THEOREM TypeCorrect == Spec => []TypeOK
BY InitTypeOK, NextTypeOK, PTL DEF Spec
-----------------------------------------------------------------------------
\* What a notification for a command in flight can be: the first half of its
\* answer with the other half behind it or lost, the other half, or a
\* one-chunk answer; in the last two cases nothing is left on the wire.
LEMMA NotificationOfPending ==
  ASSUME IInv, pending # NoCommand, NEW chunk \in Chunk, Arrives(chunk)
  PROVE  /\ pending \in received /\ owed = {}
         /\ \/ /\ buffer = <<>> /\ chunk = HeadOf(pending)
               /\ wire' = <<TailOf(pending)>> \/ wire' = <<>>
            \/ /\ buffer = <<HeadOf(pending)>> /\ chunk = TailOf(pending) /\ wire' = <<>>
            \/ /\ buffer = <<>> /\ wire' = <<>>
               /\ \E p \in Part \ {"head", "tail"} : chunk = [of |-> pending, part |-> p]
<1>1. wire # <<>> /\ chunk = Head(wire) /\ wire' = Tail(wire)
  BY DEF Arrives
<1>2. AnswerUnderWay /\ owed = {} /\ pending \in received
  BY <1>1 DEF IInv, FlowInv
<1>3. CASE buffer = <<>> /\ wire = <<HeadOf(pending), TailOf(pending)>>
  BY <1>1, <1>2, <1>3
<1>4. CASE buffer = <<HeadOf(pending)>> /\ wire = <<TailOf(pending)>>
  BY <1>1, <1>2, <1>4
<1>5. CASE buffer = <<>> /\ \E p \in Part \ {"tail"} : wire = <<[of |-> pending, part |-> p]>>
  <2>1. PICK p \in Part \ {"tail"} : wire = <<[of |-> pending, part |-> p]>>
    BY <1>5
  <2>2. chunk = [of |-> pending, part |-> p] /\ wire' = <<>>
    BY <1>1, <2>1
  <2> QED
    BY <1>2, <1>5, <2>2 DEF HeadOf
<1> QED
  BY <1>1, <1>2, <1>3, <1>4, <1>5 DEF AnswerUnderWay

\* The two halves of an answer make a frame of the expected size; one does not.
LEMMA HalfFrames ==
  ASSUME NEW c \in Command
  PROVE  /\ Len(Append(<<HeadOf(c)>>, TailOf(c))) = 2
         /\ Append(<<HeadOf(c)>>, TailOf(c))[1] = HeadOf(c)
         /\ Size(Append(<<HeadOf(c)>>, TailOf(c))) = ResponseSize
         /\ Size(<<HeadOf(c)>>) = 1
         /\ ~IsException(<<HeadOf(c)>>)
<1>1. HeadOf(c) \in Chunk /\ TailOf(c) \in Chunk
  BY DEF HeadOf, TailOf, Chunk, Part
<1>2. /\ Len(Append(<<HeadOf(c)>>, TailOf(c))) = 2
      /\ Append(<<HeadOf(c)>>, TailOf(c))[1] = HeadOf(c)
      /\ Append(<<HeadOf(c)>>, TailOf(c))[2] = TailOf(c)
  BY <1>1
<1>3. HeadOf(c).part = "head" /\ TailOf(c).part = "tail"
  BY DEF HeadOf, TailOf
<1>4. PartSize("head") = 1 /\ PartSize("tail") = 1
  BY DEF PartSize
<1>5. Len(<<HeadOf(c)>>) = 1 /\ <<HeadOf(c)>>[1] = HeadOf(c)
  OBVIOUS
<1>6. Size(Append(<<HeadOf(c)>>, TailOf(c))) = ResponseSize
  BY <1>2, <1>3, <1>4 DEF Size, ResponseSize
<1>7. Size(<<HeadOf(c)>>) = 1 /\ ~IsException(<<HeadOf(c)>>)
  BY <1>3, <1>4, <1>5 DEF Size, IsException
<1> QED
  BY <1>2, <1>6, <1>7

\* A notification that completes an answer consumes the last of it, and the
\* answer is the pending command's own.
LEMMA CompletionConsumesAnswer ==
  ASSUME IInv, pending # NoCommand, NEW chunk \in Chunk, Arrives(chunk),
         \/ IsException(Append(buffer, Head(wire)))
         \/ Size(Append(buffer, Head(wire))) = ResponseSize
  PROVE  wire' = <<>> /\ Append(buffer, Head(wire))[1].of = pending
<1>1. chunk = Head(wire)
  BY DEF Arrives
<1>2. CASE buffer = <<>> /\ chunk = HeadOf(pending)
  <2>1. Append(buffer, Head(wire)) = <<HeadOf(pending)>>
    BY <1>1, <1>2
  <2>2. pending \in Command
    BY DEF IInv, TypeOK
  <2>3. Size(<<HeadOf(pending)>>) = 1 /\ ~IsException(<<HeadOf(pending)>>)
    BY <2>2, HalfFrames
  <2>4. Size(Append(buffer, Head(wire))) = 1 /\ ~IsException(Append(buffer, Head(wire)))
    BY <2>1, <2>3
  <2> QED
    BY <2>4 DEF ResponseSize
<1>3. CASE buffer = <<HeadOf(pending)>> /\ chunk = TailOf(pending) /\ wire' = <<>>
  <2>1. Append(buffer, Head(wire)) = Append(<<HeadOf(pending)>>, TailOf(pending))
    BY <1>1, <1>3
  <2>2. pending \in Command
    BY DEF IInv, TypeOK
  <2>3. Append(<<HeadOf(pending)>>, TailOf(pending))[1] = HeadOf(pending)
    BY <2>2, HalfFrames
  <2>4. HeadOf(pending).of = pending
    BY DEF HeadOf
  <2> QED
    BY <1>3, <2>1, <2>3, <2>4
<1>4. CASE buffer = <<>> /\ wire' = <<>> /\ chunk.of = pending
  <2>1. Append(buffer, Head(wire)) = <<chunk>>
    BY <1>1, <1>4
  <2> QED
    BY <1>4, <2>1
<1> QED
  BY <1>2, <1>3, <1>4, NotificationOfPending

\* A notification that leaves the answer incomplete was its first half.
LEMMA PartialIsHead ==
  ASSUME IInv, PartialNotification
  PROVE  /\ buffer' = <<HeadOf(pending)>>
         /\ wire' = <<TailOf(pending)>> \/ wire' = <<>>
         /\ pending \in received /\ owed = {}
<1>1. PICK chunk \in Chunk : Arrives(chunk) /\ chunk.part # "at"
  BY DEF PartialNotification, Appended
<1>2. /\ pending # NoCommand
      /\ chunk = Head(wire)
      /\ ~IsException(Append(buffer, Head(wire)))
      /\ Size(Append(buffer, Head(wire))) < ResponseSize
      /\ buffer' = Append(buffer, Head(wire))
  BY <1>1 DEF PartialNotification, Appended, Arrives
<1>3. CASE buffer = <<>> /\ chunk = HeadOf(pending)
  <2>1. Append(buffer, Head(wire)) = <<HeadOf(pending)>>
    BY <1>2, <1>3
  <2>2. wire' = <<TailOf(pending)>> \/ wire' = <<>>
    BY <1>1, <1>2, NotificationOfPending
  <2> QED
    BY <1>1, <1>2, <2>1, <2>2, NotificationOfPending
<1>4. CASE buffer = <<HeadOf(pending)>> /\ chunk = TailOf(pending)
  <2>1. Append(buffer, Head(wire)) = Append(<<HeadOf(pending)>>, TailOf(pending))
    BY <1>2, <1>4
  <2>2. pending \in Command
    BY <1>2 DEF IInv, TypeOK
  <2>3. Size(Append(<<HeadOf(pending)>>, TailOf(pending))) = ResponseSize
    BY <2>2, HalfFrames
  <2>4. Size(Append(buffer, Head(wire))) = 2
    BY <2>1, <2>3 DEF ResponseSize
  <2> QED
    BY <1>2, <2>4 DEF ResponseSize
<1>5. ASSUME buffer = <<>>, NEW p \in Part \ {"head", "tail"}, chunk = [of |-> pending, part |-> p]
      PROVE FALSE
  <2>1. Append(buffer, Head(wire)) = <<[of |-> pending, part |-> p]>>
    BY <1>2, <1>5
  <2>2. p \notin {"busy", "refusal"} /\ PartSize(p) < 2
    <3>1. Len(<<[of |-> pending, part |-> p]>>) = 1 /\ <<[of |-> pending, part |-> p]>>[1].part = p
      OBVIOUS
    <3> QED
      BY <1>2, <2>1, <3>1 DEF IsException, Size, ResponseSize
  <2>3. p # "at"
    BY <1>1, <1>5
  <2> QED
    BY <2>2, <2>3, <1>5 DEF Part, PartSize
<1> QED
  BY <1>1, <1>2, <1>3, <1>4, <1>5, NotificationOfPending
-----------------------------------------------------------------------------
\* The parts of the invariant other than the type.
Parts ==
  /\ InitialisingInv /\ OneInFlight /\ PendingInv /\ FlowInv
  /\ ResolvedInv /\ OwedReceived /\ AnswersOwnCommand

LEMMA InitParts == Init => Parts
<1> SUFFICES ASSUME Init PROVE Parts
  OBVIOUS
<1> USE DEF Init
<1>1. InitialisingInv /\ OneInFlight
  BY DEF InitialisingInv, IsReady, OneInFlight, InFlight, Writing
<1>2. PendingInv /\ FlowInv
  BY DEF PendingInv, FlowInv, IsReady
<1>3. ResolvedInv /\ OwedReceived /\ AnswersOwnCommand
  BY DEF ResolvedInv, OwedReceived, AnswersOwnCommand
<1> QED
  BY <1>1, <1>2, <1>3 DEF Parts

LEMMA InitialisationKeepsParts == ASSUME IInv, Initialize PROVE Parts'
<1> USE DEF IInv, callVars, deviceVars, ClearPendingState
<1>1. /\ stage # "done"
      /\ state' # "performing_command"
      /\ pending' = NoCommand /\ buffer' = <<>>
      /\ UNCHANGED <<call, promise, answer, received, owed, wire>>
      /\ stage' # "done" => state' \notin {"ready", "performing_command"}
  BY SessionAssumption DEF Initialize, StartConnect, Connected, NameRead, Subscribed, InitStepFails, InitCleanedUp,
     InitialisingInv, PendingInv, IsReady
<1>2. owed = {} /\ wire = <<>> /\ \A c \in Command : call[c] = "idle"
  BY <1>1 DEF InitialisingInv
<1>3. InitialisingInv' /\ OneInFlight'
  BY <1>1, <1>2 DEF InitialisingInv, OneInFlight, IsReady
<1>4. PendingInv' /\ FlowInv'
  BY <1>1, <1>2 DEF PendingInv, FlowInv, IsReady
<1>5. ResolvedInv' /\ OwedReceived' /\ AnswersOwnCommand'
  BY <1>1, <1>2 DEF ResolvedInv, OwedReceived, AnswersOwnCommand, InFlight, Writing
<1> QED
  BY <1>3, <1>4, <1>5 DEF Parts

LEMMA PerformKeepsParts ==
  ASSUME IInv, NEW c \in Command, PerformRefused(c) \/ Perform(c)
  PROVE  Parts'
<1> USE DEF IInv, initVars, deviceVars
<1>1. CASE PerformRefused(c)
  <2>1. /\ call' = [call EXCEPT ![c] = "refused"] /\ call[c] = "idle" /\ stage = "done"
        /\ UNCHANGED <<state, stage, pending, buffer, promise, answer, received, owed, wire>>
    BY <1>1 DEF PerformRefused, MayCall
  <2>2. \A d \in Command : call'[d] \in InFlight <=> call[d] \in InFlight
    BY <2>1 DEF TypeOK, InFlight, Writing
  <2>3. \A d \in Command : call'[d] = "writing" <=> call[d] = "writing"
    BY <2>1 DEF TypeOK
  <2>4. InitialisingInv' /\ OneInFlight' /\ PendingInv'
    BY <2>1, <2>2 DEF InitialisingInv, OneInFlight, PendingInv, TypeOK
  <2>5. FlowInv'
    BY <2>1, <2>3 DEF FlowInv, AnswerUnderWay, IsReady
  <2>6. ResolvedInv' /\ OwedReceived' /\ AnswersOwnCommand'
    BY <2>1, <2>2 DEF ResolvedInv, OwedReceived, AnswersOwnCommand
  <2> QED
    BY <2>4, <2>5, <2>6 DEF Parts
<1>2. CASE Perform(c)
  <2>1. /\ stage = "done" /\ stage' = stage /\ IsReady
        /\ \A d \in Command : call[d] \notin InFlight
        /\ state' = "performing_command" /\ pending' = c /\ buffer' = <<>>
        /\ promise' = [promise EXCEPT ![c] = "pending"]
        /\ UNCHANGED <<answer, received, owed, wire>>
    BY <1>2 DEF Perform, MayCall
  <2>2. /\ call'[c] \in InFlight
        /\ \A d \in Command : d # c => call'[d] = call[d]
    BY <1>2 DEF Perform, TypeOK, InFlight, Writing
  <2>3. pending = NoCommand
    BY <2>1 DEF PendingInv, TypeOK
  <2>4. owed = {} /\ wire = <<>>
    BY <2>1, <2>3 DEF FlowInv
  <2>5. InitialisingInv' /\ OneInFlight' /\ PendingInv'
    BY <2>1, <2>2, SessionAssumption DEF SessionAssumption, InitialisingInv, OneInFlight, PendingInv, TypeOK
  <2>6. FlowInv'
    BY <2>1, <2>4, SessionAssumption DEF SessionAssumption, FlowInv
  <2>7. ResolvedInv'
    BY <2>1, <2>2 DEF ResolvedInv, TypeOK
  <2>8. OwedReceived' /\ AnswersOwnCommand'
    BY <2>1 DEF OwedReceived, AnswersOwnCommand, TypeOK
  <2> QED
    BY <2>5, <2>6, <2>7, <2>8 DEF Parts
<1> QED
  BY <1>1, <1>2

LEMMA WriteKeepsParts ==
  ASSUME IInv, NEW c \in Command, WriteAcknowledged(c) \/ WriteFails(c)
  PROVE  Parts'
<1> USE DEF IInv, initVars, deviceVars, ClearPendingState
<1>1. CASE WriteAcknowledged(c)
  <2>1. /\ call' = [call EXCEPT ![c] = "awaiting"] /\ call[c] = "writing"
        /\ UNCHANGED <<state, stage, pending, buffer, promise, answer, received, owed, wire>>
    BY <1>1 DEF WriteAcknowledged
  <2>2. \A d \in Command : call'[d] \in InFlight <=> call[d] \in InFlight
    BY <2>1 DEF TypeOK, InFlight, Writing
  <2>3. \A d \in Command : call'[d] = "writing" => call[d] = "writing"
    BY <2>1 DEF TypeOK
  <2>4. stage = "done"
    BY <2>1 DEF InitialisingInv
  <2>5. InitialisingInv' /\ OneInFlight' /\ PendingInv'
    BY <2>1, <2>2, <2>4 DEF InitialisingInv, OneInFlight, PendingInv, TypeOK
  <2>6. FlowInv'
    BY <2>1, <2>3 DEF FlowInv, AnswerUnderWay, IsReady
  <2>7. ResolvedInv' /\ OwedReceived' /\ AnswersOwnCommand'
    BY <2>1, <2>2 DEF ResolvedInv, OwedReceived, AnswersOwnCommand
  <2> QED
    BY <2>5, <2>6, <2>7 DEF Parts
<1>2. CASE WriteFails(c)
  <2>1. /\ call' = [call EXCEPT ![c] = "write_error"] /\ call[c] \in Writing
        /\ state' = "disconnecting" /\ pending' = NoCommand /\ buffer' = <<>>
        /\ UNCHANGED <<stage, answer, received, owed, wire>>
        /\ \A d \in Command : promise'[d] = "resolved" => promise[d] = "resolved"
    BY <1>2 DEF WriteFails, TypeOK
  <2>2. \A d \in Command : call'[d] \in InFlight => d # c /\ call[d] \in InFlight
    BY <2>1 DEF TypeOK, InFlight, Writing
  <2>3. stage = "done" /\ call[c] \in InFlight
    BY <2>1 DEF InitialisingInv, InFlight, Writing
  <2>4. \A d \in Command : call'[d] \notin InFlight
    BY <2>2, <2>3 DEF OneInFlight
  <2>5. InitialisingInv' /\ OneInFlight' /\ PendingInv'
    BY <2>1, <2>3, <2>4 DEF InitialisingInv, OneInFlight, PendingInv
  <2>6. FlowInv'
    BY <2>1 DEF FlowInv, IsReady
  <2>7. ResolvedInv' /\ OwedReceived' /\ AnswersOwnCommand'
    BY <2>1, <2>4 DEF ResolvedInv, OwedReceived, AnswersOwnCommand
  <2> QED
    BY <2>5, <2>6, <2>7 DEF Parts
<1> QED
  BY <1>1, <1>2

LEMMA SettleKeepsParts ==
  ASSUME IInv, NEW c \in Command, Settle(c)
  PROVE  Parts'
<1> USE DEF IInv, initVars, deviceVars, ClearPendingState
<1>1. /\ call[c] = "awaiting" /\ promise[c] \in {"resolved"} \cup Rejection
      /\ pending' = NoCommand /\ buffer' = <<>>
      /\ UNCHANGED <<stage, promise, answer, received, owed, wire>>
      /\ \/ state' = "ready" /\ promise[c] = "resolved"
         \/ state' = state
  BY DEF Settle, ReturnResponse, ThrowRejection
<1>2. call'[c] \in Over /\ \A d \in Command : d # c => call'[d] = call[d]
  BY DEF Settle, ReturnResponse, ThrowRejection, TypeOK, Over
<1>3. call[c] \in InFlight /\ stage = "done"
  BY <1>1 DEF InFlight, InitialisingInv
<1>4. \A d \in Command : call'[d] \notin InFlight
  <2>1. call'[c] \notin InFlight
    BY <1>2 DEF Over, Rejection, InFlight, Writing
  <2> QED
    BY <1>2, <1>3, <2>1 DEF OneInFlight
<1>5. pending = NoCommand
  <2>1. promise[c] # "pending"
    BY <1>1 DEF Rejection
  <2>2. pending = NoCommand \/ pending = c
    BY <1>3 DEF PendingInv, OneInFlight, TypeOK
  <2> QED
    BY <2>1, <2>2 DEF PendingInv
<1>6. IsReady' => owed = {} /\ wire = <<>>
  BY <1>1, <1>3, <1>5 DEF ResolvedInv, FlowInv, IsReady
<1>7. InitialisingInv' /\ OneInFlight'
  BY <1>1, <1>3, <1>4 DEF InitialisingInv, OneInFlight
<1>8. PendingInv'
  BY <1>1, <1>5 DEF PendingInv
<1>9. FlowInv'
  <2>1. \A d \in Command : call'[d] # "writing"
    BY <1>4 DEF InFlight, Writing
  <2> QED
    BY <1>1, <1>6, <2>1 DEF FlowInv
<1>10. ResolvedInv' /\ OwedReceived' /\ AnswersOwnCommand'
  BY <1>1, <1>4 DEF ResolvedInv, OwedReceived, AnswersOwnCommand
<1> QED
  BY <1>7, <1>8, <1>9, <1>10 DEF Parts

\* The waiter is gone and the session does not accept commands: nothing is
\* claimed about the wire, and no promise became resolved.
LEMMA LosingSessionKeepsParts ==
  ASSUME IInv, stage' = stage, stage = "done", ~IsReady',
         pending' = NoCommand, buffer' = <<>>,
         UNCHANGED <<call, answer, received, owed>>,
         wire' = wire \/ wire' = <<>> \/ pending # NoCommand,
         \A c \in Command :
           promise'[c] = "resolved" => promise[c] = "resolved"
  PROVE  Parts'
<1> USE DEF IInv
<1>1. InitialisingInv' /\ OneInFlight'
  BY DEF InitialisingInv, OneInFlight
<1>2. PendingInv' /\ FlowInv'
  BY DEF PendingInv, FlowInv, IsReady
<1>3. ResolvedInv'
  BY DEF ResolvedInv
<1>4. OwedReceived' /\ AnswersOwnCommand'
  BY DEF OwedReceived, AnswersOwnCommand
<1> QED
  BY <1>1, <1>2, <1>3, <1>4 DEF Parts

\* A chunk that is handled settles the command in flight and leaves nothing.
LEMMA SettlingNotificationKeepsParts ==
  ASSUME IInv, pending # NoCommand, NEW chunk \in Chunk, Arrives(chunk),
         state' = "ready", pending' = NoCommand, buffer' = <<>>, wire' = <<>>,
         \A c \in Command : c # pending => promise'[c] = promise[c],
         promise'[pending] # "resolved" \/ answer'[pending] = pending,
         \A c \in Command : c # pending => answer'[c] = answer[c],
         answer' = answer \/ promise'[pending] = "resolved"
  PROVE  Parts'
<1> USE DEF IInv
<1>1. /\ UNCHANGED <<stage, call, received, owed>>
      /\ owed = {} /\ pending \in received
      /\ pending \in Command
  BY NotificationOfPending DEF Arrives, initVars, TypeOK
<1>2. stage = "done" /\ call[pending] \in InFlight
  BY DEF InitialisingInv, PendingInv
<1>3. \A c \in Command : call[c] \in InFlight => c = pending
  BY <1>1, <1>2 DEF OneInFlight
<1>4. InitialisingInv' /\ OneInFlight' /\ PendingInv'
  BY <1>1, <1>2 DEF InitialisingInv, OneInFlight, PendingInv
<1>5. FlowInv'
  <2>1. \A c \in Command : call[c] = "writing" => c = pending
    BY <1>3 DEF InFlight, Writing
  <2> QED
    BY <1>1, <2>1 DEF FlowInv
<1>6. ResolvedInv'
  BY <1>1, <1>3 DEF ResolvedInv
<1>7. OwedReceived' /\ AnswersOwnCommand'
  BY <1>1 DEF OwedReceived, AnswersOwnCommand
<1> QED
  BY <1>4, <1>5, <1>6, <1>7 DEF Parts

LEMMA NotificationKeepsParts == ASSUME IInv, HandleNotification PROVE Parts'
<1> USE DEF IInv, ClearPendingState
<1>1. PICK chunk \in Chunk : Arrives(chunk)
  BY DEF HandleNotification, IgnoreNotification, ControlNotification, ExceptionNotification,
     CompleteNotification, MalformedNotification, PartialNotification, Appended
<1>2. stage = "done" /\ UNCHANGED <<stage, call, received, owed>>
  BY <1>1 DEF Arrives, initVars, InitialisingInv
<1>3. pending \in Command \cup {NoCommand} /\ promise \in [Command -> Promise]
  BY DEF TypeOK
<1>4. CASE IgnoreNotification
  <2>1. wire # <<>> /\ pending = NoCommand /\ UNCHANGED <<state, pending, buffer, promise, answer>>
    BY <1>1, <1>4 DEF IgnoreNotification, Arrives
  <2>2. ~IsReady /\ \A c \in Command : ~(promise[c] = "resolved" /\ call[c] \in InFlight)
    BY <2>1 DEF FlowInv, ResolvedInv
  <2>3. InitialisingInv' /\ OneInFlight' /\ PendingInv'
    BY <1>2, <2>1 DEF InitialisingInv, OneInFlight, PendingInv
  <2>4. FlowInv' /\ ResolvedInv'
    BY <1>2, <2>1, <2>2 DEF FlowInv, ResolvedInv, IsReady
  <2>5. OwedReceived' /\ AnswersOwnCommand'
    BY <1>2, <2>1 DEF OwedReceived, AnswersOwnCommand
  <2> QED
    BY <2>3, <2>4, <2>5 DEF Parts
<1>5. CASE ControlNotification \/ MalformedNotification
  <2>1. /\ pending # NoCommand
        /\ pending' = NoCommand /\ buffer' = <<>> /\ answer' = answer
        /\ state' \in {"disconnecting", "command_error_wait"}
        /\ \A c \in Command : promise'[c] = "resolved" => promise[c] = "resolved"
    BY <1>3, <1>5 DEF ControlNotification, MalformedNotification, Appended, RejectPending
  <2>2. ~IsReady'
    BY <2>1 DEF IsReady
  <2> QED
    BY <1>2, <2>1, <2>2, LosingSessionKeepsParts
<1>6. CASE ExceptionNotification
  <2>1. /\ pending # NoCommand /\ IsException(Append(buffer, Head(wire)))
        /\ state' = "ready" /\ pending' = NoCommand /\ buffer' = <<>> /\ answer' = answer
        /\ promise'[pending] # "resolved"
        /\ \A c \in Command : c # pending => promise'[c] = promise[c]
    BY <1>3, <1>6 DEF ExceptionNotification, Appended, RejectPending
  <2>2. wire' = <<>>
    BY <1>1, <2>1, CompletionConsumesAnswer
  <2> QED
    BY <1>1, <2>1, <2>2, SettlingNotificationKeepsParts
<1>7. CASE CompleteNotification
  <2>1. /\ pending # NoCommand /\ Size(Append(buffer, Head(wire))) = ResponseSize
        /\ state' = "ready" /\ pending' = NoCommand /\ buffer' = <<>>
        /\ answer'[pending] = Append(buffer, Head(wire))[1].of
        /\ promise'[pending] = "resolved"
        /\ \A c \in Command : c # pending => promise'[c] = promise[c] /\ answer'[c] = answer[c]
    BY <1>3, <1>7 DEF CompleteNotification, Appended, TypeOK
  <2>2. wire' = <<>> /\ answer'[pending] = pending
    BY <1>1, <2>1, CompletionConsumesAnswer
  <2> QED
    BY <1>1, <2>1, <2>2, SettlingNotificationKeepsParts
<1>8. CASE PartialNotification
  <2>1. pending # NoCommand /\ UNCHANGED <<state, pending, promise, answer>>
    BY <1>8 DEF PartialNotification, Appended
  <2>2. /\ buffer' = <<HeadOf(pending)>>
        /\ wire' = <<TailOf(pending)>> \/ wire' = <<>>
        /\ pending \in received /\ owed = {}
    BY <1>8, PartialIsHead
  <2>3. InitialisingInv' /\ OneInFlight' /\ PendingInv'
    BY <1>2, <2>1 DEF InitialisingInv, OneInFlight, PendingInv
  <2>4. FlowInv'
    <3>1. AnswerUnderWay'
      <4>1. buffer' = <<HeadOf(pending')>> /\ (wire' = <<TailOf(pending')>> \/ wire' = <<>>)
        BY <2>1, <2>2
      <4>2. HeadOf(pending)' = HeadOf(pending') /\ TailOf(pending)' = TailOf(pending')
        BY DEF HeadOf, TailOf
      <4> QED
        BY <4>1, <4>2 DEF AnswerUnderWay
    <3> QED
      BY <1>2, <2>1, <2>2, <3>1 DEF FlowInv
  <2>5. ResolvedInv' /\ OwedReceived' /\ AnswersOwnCommand'
    BY <1>2, <2>1 DEF ResolvedInv, OwedReceived, AnswersOwnCommand
  <2> QED
    BY <2>3, <2>4, <2>5 DEF Parts
<1> QED
  BY <1>4, <1>5, <1>6, <1>7, <1>8 DEF HandleNotification

LEMMA DeviceKeepsParts ==
  ASSUME IInv, NEW c \in Command, DeviceReceives(c) \/ DeviceAnswers(c)
  PROVE  Parts'
<1> USE DEF IInv, initVars, callVars
<1>1. UNCHANGED <<state, stage, pending, buffer, call, promise, answer>>
  BY DEF DeviceReceives, DeviceAnswers
<1>2. CASE DeviceReceives(c)
  <2>1. /\ call[c] = "writing" /\ c \notin received
        /\ received' = received \cup {c} /\ owed' = owed \cup {c} /\ wire' = wire
    BY <1>2 DEF DeviceReceives
  <2>2. call[c] \in InFlight /\ stage = "done"
    BY <2>1 DEF InFlight, Writing, InitialisingInv
  <2>3. \A d \in Command : call[d] \in InFlight => d = c
    BY <2>2 DEF OneInFlight
  <2>4. pending = NoCommand \/ pending = c
    BY <2>3 DEF PendingInv, TypeOK
  <2>5. InitialisingInv' /\ OneInFlight' /\ PendingInv'
    BY <1>1, <2>2 DEF InitialisingInv, OneInFlight, PendingInv
  <2>6. FlowInv'
    BY <1>1, <2>1, <2>4 DEF FlowInv, IsReady
  <2>7. ResolvedInv'
    BY <1>1, <2>1, <2>3 DEF ResolvedInv
  <2>8. OwedReceived' /\ AnswersOwnCommand'
    BY <1>1, <2>1 DEF OwedReceived, AnswersOwnCommand
  <2> QED
    BY <2>5, <2>6, <2>7, <2>8 DEF Parts
<1>3. CASE DeviceAnswers(c)
  <2>1. c \in owed /\ owed' = owed \ {c} /\ received' = received
    BY <1>3 DEF DeviceAnswers
  <2>2. PICK chunks \in Answer(c) : wire' = wire \o chunks
    BY <1>3 DEF DeviceAnswers
  <2>3. stage = "done"
    BY <2>1 DEF InitialisingInv
  <2>4. InitialisingInv' /\ OneInFlight' /\ PendingInv'
    BY <1>1, <2>3 DEF InitialisingInv, OneInFlight, PendingInv
  <2>5. FlowInv'
    <3>1. CASE pending = NoCommand
      BY <1>1, <2>1, <3>1 DEF FlowInv, IsReady
    <3>2. CASE pending # NoCommand
      <4>1. c = pending /\ owed = {c} /\ buffer = <<>> /\ wire = <<>>
        BY <2>1, <3>2 DEF FlowInv
      <4>2. wire' = chunks
        <5>1. chunks \in Seq(Chunk)
          BY ChunkSequences
        <5> QED
          BY <2>2, <4>1, <5>1
      <4>3. AnswerUnderWay'
        BY <1>1, <2>2, <4>1, <4>2 DEF Answer, AnswerUnderWay, HeadOf, TailOf
      <4>4. owed' = {} /\ pending' \in received'
        BY <1>1, <2>1, <4>1 DEF OwedReceived
      <4> QED
        BY <1>1, <3>2, <4>3, <4>4 DEF FlowInv
    <3> QED
      BY <3>1, <3>2
  <2>6. ResolvedInv'
    BY <1>1, <2>1 DEF ResolvedInv
  <2>7. OwedReceived' /\ AnswersOwnCommand'
    BY <1>1, <2>1 DEF OwedReceived, AnswersOwnCommand
  <2> QED
    BY <2>4, <2>5, <2>6, <2>7 DEF Parts
<1> QED
  BY <1>2, <1>3

LEMMA DisconnectKeepsParts == ASSUME IInv, Disconnect \/ Disconnected PROVE Parts'
<1> USE DEF IInv, initVars, callVars, deviceVars, ClearPendingState
<1>1. CASE Disconnect
  <2>1. /\ stage = "done" /\ state' = "disconnecting" /\ pending' = NoCommand /\ buffer' = <<>>
        /\ wire' = <<>> /\ UNCHANGED <<stage, call, promise, answer, received, owed>>
    BY <1>1 DEF Disconnect
  <2> QED
    BY <2>1, LosingSessionKeepsParts DEF IsReady
<1>2. CASE Disconnected
  <2>1. /\ state' = "not_connected" /\ closing = "closing"
        /\ \A c \in Command : call[c] \notin Writing
        /\ UNCHANGED <<stage, pending, buffer, call, promise, answer, received, owed, wire>>
    BY <1>2 DEF Disconnected
  <2>2. pending = NoCommand
    BY <2>1 DEF ClosingInv, Writing, TypeOK
  <2>3. InitialisingInv' /\ OneInFlight' /\ PendingInv'
    BY <2>1, <2>2 DEF InitialisingInv, OneInFlight, PendingInv, IsReady
  <2>4. FlowInv' /\ ResolvedInv'
    BY <2>1, <2>2 DEF FlowInv, ResolvedInv, IsReady
  <2>5. OwedReceived' /\ AnswersOwnCommand'
    BY <2>1 DEF OwedReceived, AnswersOwnCommand
  <2> QED
    BY <2>3, <2>4, <2>5 DEF Parts
<1> QED
  BY <1>1, <1>2

LEMMA StutterKeepsParts == ASSUME IInv, UNCHANGED vars PROVE Parts'
<1>1. UNCHANGED <<state, stage, pending, buffer, call, promise, answer, received, owed, wire>>
  BY DEF vars, initVars, callVars, deviceVars
<1>2. InitialisingInv' /\ OneInFlight' /\ PendingInv'
  BY <1>1 DEF IInv, InitialisingInv, OneInFlight, PendingInv, IsReady
<1>3. FlowInv' /\ ResolvedInv'
  BY <1>1 DEF IInv, FlowInv, ResolvedInv, IsReady, AnswerUnderWay, HeadOf, TailOf
<1>4. OwedReceived' /\ AnswersOwnCommand'
  BY <1>1 DEF IInv, OwedReceived, AnswersOwnCommand
<1> QED
  BY <1>2, <1>3, <1>4 DEF Parts

\* Whatever clears the waiter keeps ClosingInv, and so does whatever leaves it.
LEMMA NextClosingInv == ASSUME IInv, [Next]_vars PROVE ClosingInv'
<1> USE DEF IInv, initVars, callVars, deviceVars, ClearPendingState, ClosingInv
<1>1. CASE Initialize
  <2>1. pending' = NoCommand
    BY <1>1 DEF Initialize, StartConnect, Connected, NameRead, Subscribed, InitStepFails, InitCleanedUp,
       InitialisingInv
  <2> QED
    BY <2>1
<1>2. ASSUME NEW c \in Command, PerformRefused(c) \/ Perform(c) PROVE ClosingInv'
  <2>1. call[c] = "idle"
    BY <1>2 DEF PerformRefused, Perform, MayCall
  <2>2. CASE PerformRefused(c)
    BY <2>1, <2>2 DEF PerformRefused, TypeOK
  <2>3. CASE Perform(c)
    BY <2>3 DEF Perform, TypeOK
  <2> QED
    BY <1>2, <2>2, <2>3
<1>3. ASSUME NEW c \in Command, WriteAcknowledged(c) PROVE ClosingInv'
  BY <1>3 DEF WriteAcknowledged, TypeOK
<1>4. ASSUME NEW c \in Command, WriteFails(c) \/ Settle(c) PROVE ClosingInv'
  BY <1>4 DEF WriteFails, Settle, ReturnResponse, ThrowRejection
<1>5. ASSUME NEW c \in Command, DeviceReceives(c) \/ DeviceAnswers(c) PROVE ClosingInv'
  BY <1>5 DEF DeviceReceives, DeviceAnswers
<1>6. CASE CommandTimeout
  BY <1>6 DEF CommandTimeout, RejectPending
<1>7. CASE HandleNotification
  BY <1>7 DEF HandleNotification, IgnoreNotification, ControlNotification, ExceptionNotification,
     CompleteNotification, MalformedNotification, PartialNotification, RejectPending, Appended, Arrives
<1>8. CASE Disconnect \/ Disconnected
  BY <1>8 DEF Disconnect, Disconnected
<1>9. CASE UNCHANGED vars
  BY <1>9 DEF vars
<1> QED
  BY <1>1, <1>2, <1>3, <1>4, <1>5, <1>6, <1>7, <1>8, <1>9 DEF Next

LEMMA InitInv == Init => IInv
BY InitTypeOK, InitParts DEF IInv, Parts, Init, ClosingInv

LEMMA NextInv == IInv /\ [Next]_vars => IInv'
<1> SUFFICES ASSUME IInv, [Next]_vars PROVE IInv'
  OBVIOUS
<1>1. TypeOK' /\ ClosingInv'
  BY NextTypeOK, NextClosingInv DEF IInv
<1>2. CASE Initialize
  BY <1>2, InitialisationKeepsParts, <1>1 DEF IInv, Parts
<1>3. ASSUME NEW c \in Command, PerformRefused(c) \/ Perform(c) PROVE Parts'
  BY <1>3, PerformKeepsParts
<1>4. ASSUME NEW c \in Command, WriteAcknowledged(c) \/ WriteFails(c) PROVE Parts'
  BY <1>4, WriteKeepsParts
<1>5. ASSUME NEW c \in Command, Settle(c) PROVE Parts'
  BY <1>5, SettleKeepsParts
<1>6. ASSUME NEW c \in Command, DeviceReceives(c) \/ DeviceAnswers(c) PROVE Parts'
  BY <1>6, DeviceKeepsParts
<1>7. CASE CommandTimeout
  <2>1. /\ stage' = stage /\ pending # NoCommand /\ state' = "command_error_wait"
        /\ pending' = NoCommand /\ buffer' = <<>>
        /\ UNCHANGED <<call, answer, received, owed, wire>>
        /\ promise' = [promise EXCEPT ![pending] = "timeout"]
    BY <1>7 DEF CommandTimeout, RejectPending, ClearPendingState, initVars, deviceVars
  <2>2. stage = "done"
    BY <2>1 DEF IInv, InitialisingInv
  <2>3. \A c \in Command : promise'[c] = "resolved" => promise[c] = "resolved"
    BY <2>1 DEF IInv, TypeOK
  <2> QED
    BY <2>1, <2>2, <2>3, LosingSessionKeepsParts, <1>1 DEF IsReady, IInv, Parts
<1>8. CASE HandleNotification
  BY <1>8, NotificationKeepsParts, <1>1 DEF IInv, Parts
<1>9. CASE Disconnect \/ Disconnected
  BY <1>9, DisconnectKeepsParts, <1>1 DEF IInv, Parts
<1>10. CASE UNCHANGED vars
  BY <1>10, StutterKeepsParts, <1>1 DEF IInv, Parts
<1> QED
  BY <1>1, <1>2, <1>3, <1>4, <1>5, <1>6, <1>7, <1>8, <1>9, <1>10 DEF Next, IInv, Parts

\* AnswersOwnCommand for every set of commands: no notification that arrives
\* late, in halves or after a retry completes another command's promise.
THEOREM AnswersOwn == Spec => []AnswersOwnCommand
<1>1. IInv => AnswersOwnCommand
  BY DEF IInv
<1> QED
  BY <1>1, InitInv, NextInv, PTL DEF Spec

\* UsableSessionIsQuiet for every set of commands: handleNotification may take
\* whatever arrives for the pending command, because nothing else can arrive.
THEOREM Quiet == Spec => []UsableSessionIsQuiet
<1>1. IInv => UsableSessionIsQuiet
  <2> SUFFICES ASSUME IInv, IsReady PROVE
        /\ owed \subseteq {pending}
        /\ \A i \in 1 .. Len(wire) : wire[i].of = pending
        /\ \A i \in 1 .. Len(buffer) : buffer[i].of = pending
    BY DEF UsableSessionIsQuiet
  <2>1. CASE buffer = <<>> /\ wire = <<>> /\ owed \subseteq {pending}
    BY <2>1
  <2>2. CASE AnswerUnderWay /\ owed = {}
    BY <2>2 DEF AnswerUnderWay, HeadOf, TailOf
  <2> QED
    BY <2>1, <2>2 DEF IInv, FlowInv, PendingInv
<1> QED
  BY <1>1, InitInv, NextInv, PTL DEF Spec
-----------------------------------------------------------------------------
\* The response of a command left the session ready, unless disconnect() came
\* in between.
ResolvedReady ==
  closing = "no" =>
    \A c \in Command : promise[c] = "resolved" /\ call[c] \in InFlight => state = "ready"

LEMMA NextResolvedReady == ASSUME IInv, ResolvedReady, [Next]_vars PROVE ResolvedReady'
<1> USE DEF IInv, initVars, callVars, deviceVars, ClearPendingState, ResolvedReady
<1>1. CASE Initialize
  BY <1>1, InitialisationKeepsParts DEF Initialize, StartConnect, Connected, NameRead, Subscribed,
     InitStepFails, InitCleanedUp, InitialisingInv, InFlight, Writing
<1>2. ASSUME NEW c \in Command, PerformRefused(c) \/ Perform(c) PROVE ResolvedReady'
  <2>1. \A d \in Command : call[d] \notin InFlight
    BY <1>2 DEF PerformRefused, Perform, MayCall
  <2>2. CASE PerformRefused(c)
    BY <2>1, <2>2 DEF PerformRefused, TypeOK, InFlight, Writing
  <2>3. CASE Perform(c)
    BY <2>1, <2>3 DEF Perform, TypeOK
  <2> QED
    BY <1>2, <2>2, <2>3
<1>3. ASSUME NEW c \in Command, WriteAcknowledged(c) PROVE ResolvedReady'
  BY <1>3 DEF WriteAcknowledged, TypeOK, InFlight, Writing
<1>4. ASSUME NEW c \in Command, WriteFails(c) \/ Settle(c) PROVE ResolvedReady'
  <2>1. call[c] \in InFlight /\ call'[c] \notin InFlight
    BY <1>4 DEF WriteFails, Settle, ReturnResponse, ThrowRejection, TypeOK, InFlight, Writing, Rejection
  <2>2. \A d \in Command : d # c => call'[d] = call[d]
    BY <1>4 DEF WriteFails, Settle, ReturnResponse, ThrowRejection, TypeOK
  <2> QED
    BY <2>1, <2>2 DEF OneInFlight
<1>5. ASSUME NEW c \in Command, DeviceReceives(c) \/ DeviceAnswers(c) PROVE ResolvedReady'
  BY <1>5 DEF DeviceReceives, DeviceAnswers
<1>6. CASE CommandTimeout \/ HandleNotification
  <2>1. UNCHANGED <<call, closing>>
    BY <1>6 DEF CommandTimeout, HandleNotification, IgnoreNotification, ControlNotification,
       ExceptionNotification, CompleteNotification, MalformedNotification, PartialNotification,
       Appended, Arrives
  <2>2. CASE pending = NoCommand
    BY <1>6, <2>1, <2>2 DEF CommandTimeout, HandleNotification, IgnoreNotification, ControlNotification,
       ExceptionNotification, CompleteNotification, MalformedNotification, PartialNotification, Appended
  <2>3. CASE pending # NoCommand
    <3>1. \A c \in Command : call[c] \in InFlight => c = pending
      BY <2>3 DEF PendingInv, OneInFlight, TypeOK
    <3>2. promise'[pending] = "resolved" => state' = "ready"
      BY <1>6, <2>3, SessionAssumption DEF SessionAssumption, CommandTimeout, HandleNotification,
         IgnoreNotification, ControlNotification, ExceptionNotification, CompleteNotification,
         MalformedNotification, PartialNotification, Appended, RejectPending, PendingInv, TypeOK
    <3> QED
      BY <2>1, <3>1, <3>2
  <2> QED
    BY <2>2, <2>3
<1>7. CASE Disconnect \/ Disconnected
  BY <1>7 DEF Disconnect, Disconnected
<1>8. CASE UNCHANGED vars
  BY <1>8 DEF vars
<1> QED
  BY <1>1, <1>2, <1>3, <1>4, <1>5, <1>6, <1>7, <1>8 DEF Next

\* A session that stopped accepting commands and is not being disconnected does
\* not accept them again: it has no waiter that a notification could complete
\* and no completed command that would set Ready.
LEMMA StaysDown ==
  ASSUME IInv, ResolvedReady, [Next]_vars, stage = "done", closing = "no", ~IsReady
  PROVE  ~IsReady'
<1> USE DEF IInv, IsReady
<1>1. pending = NoCommand
  BY DEF PendingInv
<1>2. CASE Initialize
  BY <1>2 DEF Initialize, StartConnect, Connected, NameRead, Subscribed, InitStepFails, InitCleanedUp
<1>3. ASSUME NEW c \in Command, PerformRefused(c) \/ Perform(c) PROVE ~IsReady'
  BY <1>3 DEF PerformRefused, Perform
<1>4. ASSUME NEW c \in Command, WriteAcknowledged(c) \/ WriteFails(c) PROVE ~IsReady'
  BY <1>4 DEF WriteAcknowledged, WriteFails
<1>5. ASSUME NEW c \in Command, Settle(c) PROVE ~IsReady'
  BY <1>5 DEF Settle, ReturnResponse, ThrowRejection, ResolvedReady, InFlight
<1>6. ASSUME NEW c \in Command, DeviceReceives(c) \/ DeviceAnswers(c) PROVE ~IsReady'
  BY <1>6 DEF DeviceReceives, DeviceAnswers
<1>7. CASE CommandTimeout \/ HandleNotification
  BY <1>1, <1>7 DEF CommandTimeout, HandleNotification, IgnoreNotification, ControlNotification,
     ExceptionNotification, CompleteNotification, MalformedNotification, PartialNotification, Appended
<1>8. CASE Disconnect \/ Disconnected
  BY <1>8 DEF Disconnect, Disconnected
<1>9. CASE UNCHANGED vars
  BY <1>9 DEF vars
<1> QED
  BY <1>2, <1>3, <1>4, <1>5, <1>6, <1>7, <1>8, <1>9 DEF Next

\* NoSelfHeal for every set of commands: a failed write or a control message ends a
\* session's use, whatever was still under way.
THEOREM SelfHealing == Spec => NoSelfHeal
<1>1. Init => ResolvedReady
  BY DEF Init, ResolvedReady
<1>2. IInv /\ ResolvedReady /\ [Next]_vars =>
        [stage = "done" /\ closing = "no" /\ state = "disconnecting" => ~IsReady']_vars
  BY StaysDown DEF IsReady
<1> QED
  BY <1>1, <1>2, InitInv, NextInv, NextResolvedReady, PTL DEF Spec, NoSelfHeal
=============================================================================
