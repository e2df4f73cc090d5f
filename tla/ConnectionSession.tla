-------------------------- MODULE ConnectionSession --------------------------
(***************************************************************************)
(* What core/modules/Connection.ts promises the application, without the   *)
(* machine, the clients and the requests: a status (ConnectionStatus) and  *)
(* the transports that can still carry a session.                          *)
(***************************************************************************)
CONSTANT Sockets

VARIABLES status,       \* connection:status
          sockets       \* transports in their handshake or online

vars == <<status, sockets>>

Statuses == {"disconnected", "connecting", "online", "reconnecting", "error"}

Init == status = "disconnected" /\ sockets = {}

\* The user asks for a connection.
Connect == /\ status \in {"disconnected", "error"}
           /\ status' = "connecting"
           /\ UNCHANGED sockets

\* One socket at a time, and only while a connection is being made.
Open(s) == /\ status \in {"connecting", "reconnecting"} /\ sockets = {}
           /\ sockets' = {s}
           /\ UNCHANGED status

Establish == /\ status \in {"connecting", "reconnecting"} /\ sockets # {}
             /\ status' = "online"
             /\ UNCHANGED sockets

\* An attempt is given up, or its socket fails under it.
Drop == /\ status \in {"connecting", "reconnecting"} /\ sockets # {}
        /\ sockets' = {}
        /\ UNCHANGED status

\* A session is lost, or the first attempt failed in a way worth a retry.
Lose == /\ status \in {"online", "connecting"}
        /\ status' = "reconnecting" /\ sockets' = {}

\* The server, the credentials or the first attempt rule out going on.
Fail == /\ status \in {"connecting", "online", "reconnecting"}
        /\ status' = "error" /\ sockets' = {}

\* The user, or the app's veto, ends it.
Stop == /\ status \in {"connecting", "online", "reconnecting"}
        /\ status' = "disconnected" /\ sockets' = {}

Next == Connect \/ (\E s \in Sockets : Open(s)) \/ Establish \/ Drop \/ Lose \/ Fail \/ Stop

Spec == Init /\ [][Next]_vars
=============================================================================
