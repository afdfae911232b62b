------------------------- MODULE BluetoothTransport -------------------------
(***************************************************************************)
(* bluetooth/transport.ts: what the interface BluetoothTransport promises  *)
(* DeviceSession.  "Subscription lifetime matches connection lifetime":    *)
(* the callback is called for notifications of the connection it was       *)
(* registered on, once for each, and never after disconnect.               *)
(***************************************************************************)
EXTENDS Naturals

CONSTANTS Transport,     \* the transports
          Connection,    \* the connections they may have, each opened once
          NoConnection,  \* none
          Notification,  \* what the devices may notify
          CarriedBy(_)   \* the connection of a notification

VARIABLES connection,  \* per transport, its connection
          subscribed,  \* per transport, whether it has a callback
          heard        \* per notification, how often it was called back

vars == <<connection, subscribed, heard>>

Init ==
  /\ connection = [t \in Transport |-> NoConnection]
  /\ subscribed = [t \in Transport |-> FALSE]
  /\ heard = [n \in Notification |-> 0]

Connect(t) ==
  /\ connection[t] = NoConnection
  /\ \E c \in Connection :
       /\ \A u \in Transport : connection[u] # c
       /\ connection' = [connection EXCEPT ![t] = c]
  /\ UNCHANGED <<subscribed, heard>>

Subscribe(t) ==
  /\ connection[t] # NoConnection
  /\ subscribed' = [subscribed EXCEPT ![t] = TRUE]
  /\ UNCHANGED <<connection, heard>>

\* The connection and the callback go together, even if native cleanup fails.
Disconnect(t) ==
  /\ connection' = [connection EXCEPT ![t] = NoConnection]
  /\ subscribed' = [subscribed EXCEPT ![t] = FALSE]
  /\ UNCHANGED heard

OnData(t, n) ==
  /\ connection[t] = CarriedBy(n)
  /\ subscribed[t]
  /\ heard[n] = 0
  /\ heard' = [heard EXCEPT ![n] = 1]
  /\ UNCHANGED <<connection, subscribed>>

Next ==
  \E t \in Transport :
    \/ Connect(t) \/ Subscribe(t) \/ Disconnect(t)
    \/ \E n \in Notification : OnData(t, n)

Spec == Init /\ [][Next]_vars
=============================================================================
