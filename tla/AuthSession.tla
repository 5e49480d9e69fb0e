----------------------------- MODULE AuthSession -----------------------------
(***************************************************************************)
(* One authentication session of the server: an entry of account.auth,     *)
(* with the operations that requireAuth (VerifyAuth) and the refresh route *)
(* (NewAuthRef) perform on it under the backend's lock.                    *)
(*                                                                         *)
(* Tokens are generations: the n-th pair of tokens the server makes for    *)
(* the session is n, and NoTok is the empty string.  A generation is never *)
(* reused, as the UUIDs of newAuth are not.                                *)
(***************************************************************************)
EXTENDS Integers

NoTok == 0
FirstTok == 1

Tokens == Nat

\* live: acc.auth has the session; old: its creation is more than authLife ago.
Sessions == [live : BOOLEAN, acc : Tokens, ref : Tokens \ {NoTok}, old : BOOLEAN]

NewSession == [live |-> TRUE, acc |-> FirstTok, ref |-> FirstTok, old |-> FALSE]

\* The credentials a request carries: the x-pm-uid header or UID field is
\* this session's (uid), and the access or refresh token.
Credentials == [uid : BOOLEAN, tok : Tokens]

\* requireAuth and withAccAuth: both headers are there, the session is known,
\* it is not past its life, and the access token is its own.
VerifyOK(s, c) ==
    /\ c.uid /\ c.tok # NoTok
    /\ s.live
    /\ ~s.old
    /\ s.acc = c.tok

\* Faulty variant: the refresh token is forgotten with it.
AfterVerifyForgetRef(s, c) ==
    IF c.uid /\ c.tok # NoTok /\ s.live /\ s.old THEN [s EXCEPT !.acc = NoTok, !.ref = NoTok] ELSE s

\* withAccAuth forgets the access token of a session past its life, keeping
\* the refresh token and the creation time.
AfterVerify(s, c) ==
    IF c.uid /\ c.tok # NoTok /\ s.live /\ s.old THEN [s EXCEPT !.acc = NoTok] ELSE s

\* NewAuthRef: the session is found and the refresh token is its current one.
RefreshOK(s, c) == s.live /\ c.uid /\ s.ref = c.tok

\* NewAuthRef replaces both tokens and the creation time.
AfterRefresh(s) == [live |-> TRUE, acc |-> s.ref + 1, ref |-> s.ref + 1, old |-> FALSE]

\* DeleteSession.
AfterDelete(s) == [s EXCEPT !.live = FALSE]
==============================================================================
