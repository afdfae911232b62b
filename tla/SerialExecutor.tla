--------------------------- MODULE SerialExecutor ---------------------------
(***************************************************************************)
(* What DeviceWorkQueue.enqueue promises its callers, without the promise  *)
(* chain that provides it: the work submitted for one address runs one     *)
(* piece at a time and in the order it was submitted, and the work of      *)
(* different addresses is independent.  A call takes a ticket when it is   *)
(* submitted; it begins when every call of its address with a smaller      *)
(* ticket has finished.                                                    *)
(***************************************************************************)
EXTENDS Naturals

CONSTANTS Address,      \* the Bluetooth addresses the process polls
          Call,         \* the invocations of enqueue, each made at most once
          AddressOf,    \* the address each invocation is made for
          HangingCall   \* the invocations whose work never settles

VARIABLES phase,        \* where each invocation is
          ticket,       \* the order of submission, 0 before it
          nextTicket    \* the ticket of the next submission

executorVars == <<phase, ticket, nextTicket>>

\* The phases that end an invocation: its work resolved or threw.
Finished == {"returned", "threw"}
Phase == {"idle", "waiting", "working"} \cup Finished

SameAddress(c, d) == AddressOf[c] = AddressOf[d]
Submitted(c) == phase[c] # "idle"

\* The calls of c's address that were submitted before c.
Ahead(c) == {d \in Call : SameAddress(c, d) /\ Submitted(d) /\ ticket[d] < ticket[c]}
-----------------------------------------------------------------------------
Init ==
  /\ phase = [c \in Call |-> "idle"]
  /\ ticket = [c \in Call |-> 0]
  /\ nextTicket = 1

Submit(c) ==
  /\ phase[c] = "idle"
  /\ phase' = [phase EXCEPT ![c] = "waiting"]
  /\ ticket' = [ticket EXCEPT ![c] = nextTicket]
  /\ nextTicket' = nextTicket + 1

Begin(c) ==
  /\ phase[c] = "waiting"
  /\ \A d \in Ahead(c) : phase[d] \in Finished
  /\ phase' = [phase EXCEPT ![c] = "working"]
  /\ UNCHANGED <<ticket, nextTicket>>

End(c) ==
  /\ phase[c] = "working"
  /\ c \notin HangingCall
  /\ \E outcome \in Finished : phase' = [phase EXCEPT ![c] = outcome]
  /\ UNCHANGED <<ticket, nextTicket>>

Next == \E c \in Call : Submit(c) \/ Begin(c) \/ End(c)

Spec == Init /\ [][Next]_executorVars

\* Submitted work begins when its turn has come, and work that settles ends.
FairSpec == Spec /\ \A c \in Call : WF_executorVars(Begin(c)) /\ WF_executorVars(End(c))
=============================================================================
