----------------------------- MODULE AuthCustody -----------------------------
(***************************************************************************)
(* What Client promises about the auth of its session, whatever goroutines *)
(* share the client: seen from outside there is one owner of the tokens    *)
(* that does one refresh at a time.  The server makes an auth, and before  *)
(* it can make the next one for this client the auth is either stored in   *)
(* the client and given to the application, or lost for good.              *)
(***************************************************************************)
EXTENDS Integers

VARIABLES
    server,   \* the server's current auth
    client,   \* the auth the client uses, 0 once it is closed
    app,      \* the auth the application knows
    pending   \* the auth on its way to the client, 0 if there is none

vars == <<server, client, app, pending>>

Init == server = 1 /\ client = 1 /\ app = 1 /\ pending = 0

\* The client's refresh token is the current one, so it gets a new auth.
Rotate ==
    /\ pending = 0
    /\ client = server
    /\ server' = server + 1
    /\ pending' = server + 1
    /\ UNCHANGED <<client, app>>

\* The same refresh, but nobody waits for the answer any more.
RotateUnseen ==
    /\ pending = 0
    /\ server' = server + 1
    /\ UNCHANGED <<client, app, pending>>

\* The client stores the auth and hands it to the application in one step.
Deliver ==
    /\ pending # 0
    /\ client' = pending
    /\ app' = pending
    /\ pending' = 0
    /\ UNCHANGED server

Drop ==
    /\ pending # 0
    /\ pending' = 0
    /\ UNCHANGED <<server, client, app>>

\* No auth is on its way to a client that is being closed.
Close ==
    /\ pending = 0
    /\ client' = 0
    /\ UNCHANGED <<server, app, pending>>

Next == Rotate \/ RotateUnseen \/ Deliver \/ Drop \/ Close

Spec == Init /\ [][Next]_vars
==============================================================================
