------------------------- MODULE ClientAuthProofs -------------------------
(***************************************************************************)
(* Proofs about ClientAuth, for every set of goroutines and every bound.   *)
(*                                                                         *)
(* IInv is inductive.  Its parts are shown to be preserved one after the   *)
(* other, each using the ones before it: types, the locks with the program *)
(* counters, the exchanges, the tokens they carry, the closed client, the  *)
(* handlers, the server's session, and the deauth handlers.  The theorems  *)
(* follow from IInv, or, for action properties and the refinement, from    *)
(* IInv before and after a step.                                           *)
(***************************************************************************)
EXTENDS ClientAuthInv, TLAPS

\* Every variable has its type at the start ...
LEMMA TypeInit == Init => TypeOK
<1> SUFFICES ASSUME Init PROVE TypeOK
  OBVIOUS
<1>1. NewSession \in Sessions
  BY DEF NewSession, Sessions, FirstTok, NoTok, Tokens
<1>2. NoExchange \in Exchanges
  BY DEF NoExchange, Exchanges, Credentials, NoTok, Tokens
<1>3. /\ Unlocked \in RWMutexes(Callers, Threads)
      /\ Unlocked \in RWMutexes(HookHolds, Threads)
  BY DEF Unlocked, RWMutexes
<1>4. pc \in [Threads -> CallerPCs \cup AdderPCs \cup CloserPCs]
  BY DEF Init, CallerPCs
<1>5. told \in [Handlers -> Tokens] /\ deauths \in [Handlers -> Nat]
  BY DEF Init, Tokens, FirstTok, NoTok
<1>6. QED
  BY <1>1, <1>2, <1>3, <1>4, <1>5 DEF Init, TypeOK, Handlers, Tokens, FirstTok

\* ... and keeps it, whatever handler, lock or network step is taken.
LEMMA TypeStep == TypeOK /\ [Next]_vars => TypeOK'
<1> SUFFICES ASSUME TypeOK, [Next]_vars PROVE TypeOK'
  OBVIOUS
<1> USE DEF TypeOK, clientVars, netVars, serverVars
  <1>1. ASSUME NEW t \in Callers, Call(t) PROVE TypeOK'
    BY <1>1 DEF Call, RLock, RWMutexes, DoRes, HookHolds, Threads, CallerPCs
  <1>2. ASSUME NEW t \in Callers, ExecLock(t) PROVE TypeOK'
    BY <1>2 DEF ExecLock, RLock, RWMutexes, Threads, CallerPCs
  <1>3. ASSUME NEW t \in Callers, ExecSend(t) PROVE TypeOK'
    BY <1>3 DEF ExecSend, Request, Exchanges, Credentials, Tokens, NoTok, Threads, CallerPCs
  <1>4. ASSUME NEW t \in Callers, ExecDone(t) PROVE TypeOK'
    BY <1>4 DEF ExecDone, RUnlock, RWMutexes, NoExchange, Exchanges, Credentials, Tokens, NoTok, Threads, CallerPCs
  <1>5. ASSUME NEW t \in Callers, Leave(t) PROVE TypeOK'
    BY <1>5 DEF Leave, RUnlock, RWMutexes, Threads, CallerPCs
  <1>6. ASSUME NEW t \in Callers, RefreshAnnounce(t) PROVE TypeOK'
    BY <1>6 DEF RefreshAnnounce, Announce, RWMutexes, Threads, CallerPCs
  <1>7. ASSUME NEW t \in Callers, RefreshHook(t) PROVE TypeOK'
    BY <1>7 DEF RefreshHook, RLock, RWMutexes, AuthRefresh, HookHolds, Threads, CallerPCs
  <1>8. ASSUME NEW t \in Callers, RefreshSend(t) PROVE TypeOK'
    BY <1>8 DEF RefreshSend, Request, Exchanges, Credentials, Tokens, NoTok, Threads, CallerPCs
  <1>9. ASSUME NEW t \in Callers, RefreshOk(t) PROVE TypeOK'
    BY <1>9 DEF RefreshOk, StoreAuth, TellHandlers, NoExchange, Exchanges, Credentials, Tokens, NoTok, Threads, CallerPCs
  <1>10. ASSUME NEW t \in Callers, RefreshDeauth(t) PROVE TypeOK'
    BY <1>10 DEF RefreshDeauth, NoExchange, Exchanges, Credentials, Tokens, NoTok, Threads, CallerPCs
  <1>11. ASSUME NEW t \in Callers, RefreshFail(t) PROVE TypeOK'
    BY <1>11 DEF RefreshFail, NoExchange, Exchanges, Credentials, Tokens, NoTok, Threads, CallerPCs
  <1>12. ASSUME NEW t \in Callers, RefreshUnlock(t) PROVE TypeOK'
    BY <1>12 DEF RefreshUnlock, RUnlock, Unlock, RWMutexes, Threads, CallerPCs
  <1>13. ASSUME NEW t \in Callers, Retry(t) PROVE TypeOK'
    <2>1. Resend(net[t]) \in Exchanges
      BY DEF Resend, Exchanges, Tokens, NoTok
    <2>2. net' = [net EXCEPT ![t] = Resend(net[t])]
      BY <1>13 DEF Retry
    <2>3. net' \in [Callers -> Exchanges]
      BY <2>1, <2>2
    <2>4. QED
      BY <1>13, <2>3 DEF Retry
  <1>14. ASSUME NEW t \in Callers, Lose(t) PROVE TypeOK'
    <2>1. PICK st \in {"lost", "cancelled"} : net' = [net EXCEPT ![t] = Outcome(net[t], st, NoTok)]
      BY <1>14 DEF Lose
    <2>2. Outcome(net[t], st, NoTok) \in Exchanges
      BY DEF Outcome, Exchanges, Answers, Tokens, NoTok
    <2>3. net' \in [Callers -> Exchanges]
      BY <2>1, <2>2
    <2>4. QED
      BY <1>14, <2>3 DEF Lose, Break
  <1>15. ASSUME NEW t \in Callers, Delay(t) PROVE TypeOK'
    <2>1. PICK st \in {"lost", "cancelled"} : net' = [net EXCEPT ![t] = Outcome(net[t], st, NoTok)]
      BY <1>15 DEF Delay
    <2>2. Outcome(net[t], st, NoTok) \in Exchanges
      BY DEF Outcome, Exchanges, Answers, Tokens, NoTok
    <2>3. net' \in [Callers -> Exchanges]
      BY <2>1, <2>2
    <2>4. QED
      BY <1>15, <2>3 DEF Delay, Break, Exchanges
  <1>16. ASSUME NEW t \in Callers, Garble(t) PROVE TypeOK'
    <2>1. PICK st \in {"garbled"} : net' = [net EXCEPT ![t] = Outcome(net[t], st, NoTok)]
      BY <1>16 DEF Garble
    <2>2. Outcome(net[t], st, NoTok) \in Exchanges
      BY DEF Outcome, Exchanges, Answers, Tokens, NoTok
    <2>3. net' \in [Callers -> Exchanges]
      BY <2>1, <2>2
    <2>4. QED
      BY <1>16, <2>3 DEF Garble, Break
  <1>17. ASSUME NEW t \in Callers, Refuse(t) PROVE TypeOK'
    <2>1. PICK st \in {"busy", "fault"} : net' = [net EXCEPT ![t] = Outcome(net[t], st, NoTok)]
      BY <1>17 DEF Refuse
    <2>2. Outcome(net[t], st, NoTok) \in Exchanges
      BY DEF Outcome, Exchanges, Answers, Tokens, NoTok
    <2>3. net' \in [Callers -> Exchanges]
      BY <2>1, <2>2
    <2>4. QED
      BY <1>17, <2>3 DEF Refuse
  <1>18. ASSUME NEW t \in Callers, ServeApi(t) PROVE TypeOK'
    <2>1. PICK st \in {"ok", "unauth"} : net' = [net EXCEPT ![t] = Outcome(net[t], st, NoTok)]
      BY <1>18 DEF ServeApi
    <2>2. Outcome(net[t], st, NoTok) \in Exchanges
      BY DEF Outcome, Exchanges, Answers, Tokens, NoTok
    <2>3. net' \in [Callers -> Exchanges]
      BY <2>1, <2>2
    <2>4. QED
      BY <1>18, <2>3 DEF ServeApi, AfterVerify, Sessions, Tokens, NoTok
  <1>19. ASSUME NEW t \in Callers, ServeRefresh(t) PROVE TypeOK'
    <2>1. AfterRefresh(session) \in Sessions
      BY DEF AfterRefresh, Sessions, Tokens, NoTok
    <2>2. PICK st \in {"ok", "invalid"}, auth \in Nat : net' = [net EXCEPT ![t] = Outcome(net[t], st, auth)]
      BY <1>19, <2>1 DEF ServeRefresh, Sessions, Tokens, NoTok
    <2>3. Outcome(net[t], st, auth) \in Exchanges
      BY DEF Outcome, Exchanges, Answers, Tokens
    <2>4. net' \in [Callers -> Exchanges]
      BY <2>2, <2>3
    <2>5. QED
      BY <1>19, <2>1, <2>4 DEF ServeRefresh
  <1>20. ASSUME NEW t \in Adders, AddAnnounce(t) PROVE TypeOK'
    BY <1>20 DEF AddAnnounce, Announce, RWMutexes, AdderPCs, Threads
  <1>21. ASSUME NEW t \in Adders, AddAuthHandler(t) PROVE TypeOK'
    BY <1>21 DEF AddAuthHandler, Registered, Unlock, RWMutexes, Handlers, AdderPCs, Threads
  <1>22. ASSUME NEW t \in Adders, AddDeauthHandler(t) PROVE TypeOK'
    BY <1>22 DEF AddDeauthHandler, Registered, Unlock, RWMutexes, Handlers, AdderPCs, Threads
  <1>23. ASSUME NEW t \in Adders, AddRequestHook(t) PROVE TypeOK'
    BY <1>23 DEF AddRequestHook, Registered, Unlock, RWMutexes, AdderPCs, Threads
  <1>24. ASSUME NEW t \in Closers, CloseAnnounce(t) PROVE TypeOK'
    BY <1>24 DEF CloseAnnounce, Announce, RWMutexes, CloserPCs, Threads
  <1>25. ASSUME NEW t \in Closers, CloseTokens(t) PROVE TypeOK'
    BY <1>25 DEF CloseTokens, Tokens, NoTok, CloserPCs, Threads
  <1>26. ASSUME NEW t \in Closers, CloseHookAnnounce(t) PROVE TypeOK'
    BY <1>26 DEF CloseHookAnnounce, Announce, RWMutexes, CloserPCs, Threads
  <1>27. ASSUME NEW t \in Closers, CloseHandlers(t) PROVE TypeOK'
    BY <1>27 DEF CloseHandlers, DropHandlers, Unlock, RWMutexes, CloserPCs, Threads
  <1>28. ASSUME ServeLimbo PROVE TypeOK'
    BY <1>28 DEF ServeLimbo, AfterRefresh, Sessions, Tokens, NoTok
  <1>29. ASSUME Expire PROVE TypeOK'
    <2>1. session' \in Sessions
      BY <1>29 DEF Expire, Sessions
    <2>2. expiries' \in Nat
      BY <1>29 DEF Expire
    <2>3. QED
      BY <1>29, <2>1, <2>2 DEF Expire
  <1>30. ASSUME Revoke PROVE TypeOK'
    BY <1>30 DEF Revoke, AfterDelete, Sessions
  <1>31. CASE UNCHANGED vars
    BY <1>31 DEF vars
  <1>32. QED
    BY <1>1, <1>2, <1>3, <1>4, <1>5, <1>6, <1>7, <1>8, <1>9, <1>10, <1>11, <1>12, <1>13, <1>14, <1>15, <1>16, <1>17, <1>18, <1>19, <1>20, <1>21, <1>22, <1>23, <1>24, <1>25, <1>26, <1>27, <1>28, <1>29, <1>30, <1>31 DEF Next, Caller, Serve, Network, Adder, Closer


\* Nobody is in a critical section and both locks are free at the start.
LEMMA LockInit == Init => PCsOK /\ AuthLockOK
  BY ThreadAssumption DEF Init, PCsOK, AuthLockOK, Threads, CallerPCs, AdderPCs, CloserPCs, WriterPCs, OwnerPCs, Unlocked

\* authLock is for many requests or for one refresh or Close: each action
\* moves one goroutine and the lock together.
LEMMA LockStep == TypeOK /\ PCsOK /\ AuthLockOK /\ [Next]_vars => PCsOK' /\ AuthLockOK'
<1> SUFFICES ASSUME TypeOK, PCsOK, AuthLockOK, [Next]_vars PROVE PCsOK' /\ AuthLockOK'
  OBVIOUS
<1> USE ThreadAssumption DEF PCsOK, AuthLockOK, TypeOK, RWMutexes, Threads, CallerPCs, AdderPCs, CloserPCs, WriterPCs, OwnerPCs
<1>1. ASSUME NEW t \in Callers, Call(t) PROVE PCsOK' /\ AuthLockOK'
  BY <1>1 DEF Call
<1>2. ASSUME NEW t \in Callers, ExecLock(t) PROVE PCsOK' /\ AuthLockOK'
  BY <1>2 DEF ExecLock, RLock, HoldsRead
<1>3. ASSUME NEW t \in Callers, ExecSend(t) PROVE PCsOK' /\ AuthLockOK'
  BY <1>3 DEF ExecSend, HoldsRead
<1>4. ASSUME NEW t \in Callers, ExecDone(t) PROVE PCsOK' /\ AuthLockOK'
  BY <1>4 DEF ExecDone, RUnlock
<1>5. ASSUME NEW t \in Callers, Leave(t) PROVE PCsOK' /\ AuthLockOK'
  BY <1>5 DEF Leave
<1>6. ASSUME NEW t \in Callers, RefreshAnnounce(t) PROVE PCsOK' /\ AuthLockOK'
  BY <1>6 DEF RefreshAnnounce, Announce, CanAnnounce
<1>7. ASSUME NEW t \in Callers, RefreshHook(t) PROVE PCsOK' /\ AuthLockOK'
  BY <1>7 DEF RefreshHook, HoldsWrite
<1>8. ASSUME NEW t \in Callers, RefreshSend(t) PROVE PCsOK' /\ AuthLockOK'
  BY <1>8 DEF RefreshSend
<1>9. ASSUME NEW t \in Callers, RefreshOk(t) PROVE PCsOK' /\ AuthLockOK'
  BY <1>9 DEF RefreshOk
<1>10. ASSUME NEW t \in Callers, RefreshDeauth(t) PROVE PCsOK' /\ AuthLockOK'
  BY <1>10 DEF RefreshDeauth
<1>11. ASSUME NEW t \in Callers, RefreshFail(t) PROVE PCsOK' /\ AuthLockOK'
  BY <1>11 DEF RefreshFail
<1>12. ASSUME NEW t \in Callers, RefreshUnlock(t) PROVE PCsOK' /\ AuthLockOK'
  BY <1>12 DEF RefreshUnlock, Unlock
<1>13. ASSUME NEW t \in Adders, AddAnnounce(t) PROVE PCsOK' /\ AuthLockOK'
  BY <1>13 DEF AddAnnounce
<1>14. ASSUME NEW t \in Adders, Registered(t) PROVE PCsOK' /\ AuthLockOK'
  BY <1>14 DEF Registered
<1>15. ASSUME NEW t \in Closers, CloseAnnounce(t) PROVE PCsOK' /\ AuthLockOK'
  BY <1>15 DEF CloseAnnounce, Announce, CanAnnounce
<1>16. ASSUME NEW t \in Closers, CloseTokens(t) PROVE PCsOK' /\ AuthLockOK'
  BY <1>16 DEF CloseTokens, HoldsWrite
<1>17. ASSUME NEW t \in Closers, CloseHookAnnounce(t) PROVE PCsOK' /\ AuthLockOK'
  BY <1>17 DEF CloseHookAnnounce
<1>18. ASSUME NEW t \in Closers, CloseHandlers(t) PROVE PCsOK' /\ AuthLockOK'
  BY <1>18 DEF CloseHandlers, Unlock
<1>19. CASE UNCHANGED <<pc, authLock>>
  BY <1>19
<1>20. QED
  BY <1>1, <1>2, <1>3, <1>4, <1>5, <1>6, <1>7, <1>8, <1>9, <1>10, <1>11, <1>12, <1>13, <1>14, <1>15, <1>16, <1>17, <1>18, <1>19 DEF Next, Caller, Serve, Network, Adder, Closer,
     AddAuthHandler, AddDeauthHandler, AddRequestHook, Retry, Lose, Delay, Garble, Refuse, ServeApi, ServeRefresh, ServeLimbo, Expire, Revoke, vars, netVars, serverVars

\* The exchange of a goroutine and its program counter may change together.
LEMMA FitsMove ==
  ASSUME TypeOK, ExchangesOK, NEW t \in Callers, NEW x, NEW p,
         net' = [net EXCEPT ![t] = x], pc' = [pc EXCEPT ![t] = p], Fits(x, p)
  PROVE  ExchangesOK'
BY DEF TypeOK, ExchangesOK, Threads

\* Moving the program counter away from the exchange's places.
LEMMA FitsIdle ==
  ASSUME TypeOK, ExchangesOK, NEW t \in Threads, NEW p, net' = net, pc' = [pc EXCEPT ![t] = p],
         pc[t] \notin {"wait", "refreshWait"}, p \notin {"wait", "refreshWait"}
  PROVE  ExchangesOK'
BY DEF TypeOK, ExchangesOK, Fits, Threads

\* The exchange of a goroutine follows its program counter.
LEMMA ExchangeStep ==
  TypeOK /\ ExchangesOK /\ [Next]_vars => ExchangesOK'
<1> SUFFICES ASSUME TypeOK, ExchangesOK, [Next]_vars PROVE ExchangesOK'
  OBVIOUS
<1>0. /\ \A t \in Callers : net[t] \in Exchanges /\ Fits(net[t], pc[t])
      /\ session \in Sessions
      /\ \A t \in Callers : pc = [pc EXCEPT ![t] = pc[t]]
  BY DEF TypeOK, ExchangesOK, Threads
<1>1. ASSUME NEW t \in Callers, Call(t) PROVE ExchangesOK'
  BY <1>1, FitsIdle DEF Call, Threads, netVars, clientVars
<1>2. ASSUME NEW t \in Callers, ExecLock(t) PROVE ExchangesOK'
  BY <1>2, FitsIdle DEF ExecLock, Threads, netVars, clientVars
<1>3. ASSUME NEW t \in Callers, Leave(t) PROVE ExchangesOK'
  BY <1>3, FitsIdle DEF Leave, Threads, netVars, clientVars
<1>4. ASSUME NEW t \in Callers, RefreshAnnounce(t) PROVE ExchangesOK'
  BY <1>4, FitsIdle DEF RefreshAnnounce, Threads, netVars, clientVars
<1>5. ASSUME NEW t \in Callers, RefreshHook(t) PROVE ExchangesOK'
  BY <1>5, FitsIdle DEF RefreshHook, Threads, netVars, clientVars
<1>6. ASSUME NEW t \in Callers, RefreshUnlock(t) PROVE ExchangesOK'
  BY <1>6, FitsIdle DEF RefreshUnlock, Threads, netVars, clientVars
<1>7. ASSUME NEW t \in Adders, AddAnnounce(t) PROVE ExchangesOK'
  BY <1>7, FitsIdle DEF AddAnnounce, Threads, netVars, clientVars
<1>8. ASSUME NEW t \in Adders, Registered(t) PROVE ExchangesOK'
  BY <1>8, FitsIdle DEF Registered, Threads, netVars, clientVars
<1>9. ASSUME NEW t \in Closers, CloseAnnounce(t) PROVE ExchangesOK'
  BY <1>9, FitsIdle DEF CloseAnnounce, Threads, netVars, clientVars
<1>10. ASSUME NEW t \in Closers, CloseTokens(t) PROVE ExchangesOK'
  BY <1>10, FitsIdle DEF CloseTokens, Threads, netVars, clientVars
<1>11. ASSUME NEW t \in Closers, CloseHookAnnounce(t) PROVE ExchangesOK'
  BY <1>11, FitsIdle DEF CloseHookAnnounce, Threads, netVars, clientVars
<1>12. ASSUME NEW t \in Closers, CloseHandlers(t) PROVE ExchangesOK'
  BY <1>12, FitsIdle DEF CloseHandlers, Threads, netVars, clientVars
<1>13. ASSUME NEW t \in Callers, ExecSend(t) PROVE ExchangesOK'
  <2>1. Fits(Request("api", acc), "wait")
    BY <1>13, <1>0 DEF ExecSend, Request, Fits, NoTok
  <2>2. QED
    BY <1>13, <2>1, FitsMove DEF ExecSend
<1>14. ASSUME NEW t \in Callers, ExecDone(t) PROVE ExchangesOK'
  <2>1. PICK p \in {"refresh", "leave"} : pc' = [pc EXCEPT ![t] = p]
    BY <1>14 DEF ExecDone
  <2>2. Fits(NoExchange, p)
    BY <2>1 DEF Fits, NoExchange, NoTok
  <2>3. QED
    BY <1>14, <2>1, <2>2, FitsMove DEF ExecDone
<1>15. ASSUME NEW t \in Callers, RefreshSend(t) PROVE ExchangesOK'
  <2>1. Fits(Request("refresh", ref), "refreshWait")
    BY <1>15, <1>0 DEF RefreshSend, Request, Fits, NoTok
  <2>2. QED
    BY <1>15, <2>1, FitsMove DEF RefreshSend
<1>16. ASSUME NEW t \in Callers, RefreshOk(t) PROVE ExchangesOK'
  <2>1. Fits(NoExchange, "refreshed")
    BY <1>16, <1>0 DEF RefreshOk, NoExchange, Fits, NoTok
  <2>2. QED
    BY <1>16, <2>1, FitsMove DEF RefreshOk
<1>17. ASSUME NEW t \in Callers, RefreshDeauth(t) PROVE ExchangesOK'
  <2>1. Fits(NoExchange, "failed")
    BY <1>17, <1>0 DEF RefreshDeauth, NoExchange, Fits, NoTok
  <2>2. QED
    BY <1>17, <2>1, FitsMove DEF RefreshDeauth
<1>18. ASSUME NEW t \in Callers, RefreshFail(t) PROVE ExchangesOK'
  <2>1. Fits(NoExchange, "failed")
    BY <1>18, <1>0 DEF RefreshFail, NoExchange, Fits, NoTok
  <2>2. QED
    BY <1>18, <2>1, FitsMove DEF RefreshFail
<1>19. ASSUME NEW t \in Callers, Retry(t) PROVE ExchangesOK'
  <2>1. net' = [net EXCEPT ![t] = Resend(net[t])]
    BY <1>19 DEF Retry
  <2>2. Fits(Resend(net[t]), pc[t])
    BY <1>19, <1>0 DEF Retry, Fits, Resend, Answers, Exchanges, NoTok
  <2>3. QED
    BY <1>19, <2>1, <2>2, <1>0, FitsMove DEF Retry
<1>20. ASSUME NEW t \in Callers, Lose(t) PROVE ExchangesOK'
  <2>1. PICK st \in {"lost", "cancelled"} : net' = [net EXCEPT ![t] = Outcome(net[t], st, NoTok)]
    BY <1>20 DEF Lose
  <2>2. Fits(Outcome(net[t], st, NoTok), pc[t])
    BY <1>20, <1>0 DEF Lose, Fits, Outcome, NoTok
  <2>3. QED
    BY <1>20, <2>1, <2>2, <1>0, FitsMove DEF Lose
<1>21. ASSUME NEW t \in Callers, Delay(t) PROVE ExchangesOK'
  <2>1. PICK st \in {"lost", "cancelled"} : net' = [net EXCEPT ![t] = Outcome(net[t], st, NoTok)]
    BY <1>21 DEF Delay
  <2>2. Fits(Outcome(net[t], st, NoTok), pc[t])
    BY <1>21, <1>0 DEF Delay, Fits, Outcome, NoTok
  <2>3. QED
    BY <1>21, <2>1, <2>2, <1>0, FitsMove DEF Delay
<1>22. ASSUME NEW t \in Callers, Garble(t) PROVE ExchangesOK'
  <2>1. PICK st \in {"garbled"} : net' = [net EXCEPT ![t] = Outcome(net[t], st, NoTok)]
    BY <1>22 DEF Garble
  <2>2. Fits(Outcome(net[t], st, NoTok), pc[t])
    BY <1>22, <1>0 DEF Garble, Fits, Outcome, NoTok
  <2>3. QED
    BY <1>22, <2>1, <2>2, <1>0, FitsMove DEF Garble
<1>23. ASSUME NEW t \in Callers, Refuse(t) PROVE ExchangesOK'
  <2>1. PICK st \in {"busy", "fault"} : net' = [net EXCEPT ![t] = Outcome(net[t], st, NoTok)]
    BY <1>23 DEF Refuse
  <2>2. Fits(Outcome(net[t], st, NoTok), pc[t])
    BY <1>23, <1>0 DEF Refuse, Fits, Outcome, NoTok
  <2>3. QED
    BY <1>23, <2>1, <2>2, <1>0, FitsMove DEF Refuse
<1>24. ASSUME NEW t \in Callers, ServeApi(t) PROVE ExchangesOK'
  <2>1. PICK st \in {"ok", "unauth"} : net' = [net EXCEPT ![t] = Outcome(net[t], st, NoTok)]
    BY <1>24 DEF ServeApi
  <2>2. Fits(Outcome(net[t], st, NoTok), pc[t])
    BY <1>24, <1>0 DEF ServeApi, Fits, Outcome, NoTok
  <2>3. QED
    BY <1>24, <2>1, <2>2, <1>0, FitsMove DEF ServeApi
<1>25. ASSUME NEW t \in Callers, ServeRefresh(t) PROVE ExchangesOK'
  <2>1. AfterRefresh(session).ref \in Nat \ {0}
    BY <1>0 DEF AfterRefresh, Sessions, Tokens
  <2>2. PICK st, auth :
           /\ net' = [net EXCEPT ![t] = Outcome(net[t], st, auth)]
           /\ st \in {"ok", "invalid"}
           /\ st = "ok" <=> auth # NoTok
    BY <1>25, <2>1 DEF ServeRefresh, NoTok
  <2>3. Fits(Outcome(net[t], st, auth), pc[t])
    BY <1>25, <2>2, <1>0 DEF ServeRefresh, Fits, Outcome
  <2>4. QED
    BY <1>25, <2>2, <2>3, <1>0, FitsMove DEF ServeRefresh
<1>26. CASE UNCHANGED <<pc, net>>
  BY <1>26 DEF ExchangesOK
<1>27. QED
  BY <1>1, <1>2, <1>3, <1>4, <1>5, <1>6, <1>7, <1>8, <1>9, <1>10, <1>11,
     <1>12, <1>13, <1>14, <1>15, <1>16, <1>17, <1>18, <1>19, <1>20, <1>21,
     <1>22, <1>23, <1>24, <1>25, <1>26
     DEF Next, Caller, Serve, Network, Adder, Closer, AddAuthHandler,
         AddDeauthHandler, AddRequestHook, ServeLimbo, Expire, Revoke, vars,
         clientVars, netVars, serverVars

\* Whoever owns authLock for writing is the only one with an exchange.
LEMMA OwnerAlone ==
  ASSUME TypeOK, PCsOK, AuthLockOK, ExchangesOK, NEW t \in Threads, HoldsWrite(authLock, t),
         pc[t] \in WriterPCs, NEW u \in Callers, u # t
  PROVE  net[u].kind = "none"
<1>1. pc[u] # "wait"
  BY DEF AuthLockOK, HoldsWrite
<1>2. pc[u] # "refreshWait"
  BY DEF AuthLockOK, HoldsWrite, WriterPCs, Threads
<1>3. net[u].kind \in {"none", "api", "refresh"}
  BY DEF TypeOK, Exchanges
<1>4. QED
  BY <1>1, <1>2, <1>3 DEF ExchangesOK, Fits

\* A refresh on the wire is the only exchange.
LEMMA Alone == TypeOK /\ PCsOK /\ AuthLockOK /\ ExchangesOK => RefreshIsAlone
<1> SUFFICES ASSUME TypeOK, PCsOK, AuthLockOK, ExchangesOK,
                    NEW t \in Callers, NEW u \in Callers,
                    net[t].kind = "refresh", net[u].kind # "none", t # u
             PROVE  FALSE
  BY DEF RefreshIsAlone
<1>1. pc[t] = "refreshWait"
  BY DEF ExchangesOK, Fits
<1>2. HoldsWrite(authLock, t)
  BY <1>1 DEF AuthLockOK, HoldsWrite, OwnerPCs, WriterPCs, Threads
<1>3. QED
  BY <1>1, <1>2, OwnerAlone DEF Threads, WriterPCs

\* One exchange changes, the tokens do not.
LEMMA CarriesMove ==
  ASSUME TypeOK, CarriesCurrentTokens, NEW t \in Callers, NEW x,
         net' = [net EXCEPT ![t] = x], UNCHANGED <<uid, acc, ref>>,
         x.kind = "api" => x.cred = [uid |-> uid, tok |-> acc],
         x.kind = "refresh" => x.cred = [uid |-> uid, tok |-> ref]
  PROVE  CarriesCurrentTokens'
BY DEF TypeOK, CarriesCurrentTokens

\* Tokens change only under authLock, when no request is on the wire.
LEMMA CarriesStep ==
  TypeOK /\ PCsOK /\ AuthLockOK /\ ExchangesOK /\ CarriesCurrentTokens /\ [Next]_vars => CarriesCurrentTokens'
<1> SUFFICES ASSUME TypeOK, PCsOK, AuthLockOK, ExchangesOK, CarriesCurrentTokens, [Next]_vars PROVE CarriesCurrentTokens'
  OBVIOUS
<1>1. ASSUME NEW t \in Callers, ExecSend(t) PROVE CarriesCurrentTokens'
  BY <1>1, CarriesMove DEF ExecSend, Request, clientVars
<1>2. ASSUME NEW t \in Callers, ExecDone(t) PROVE CarriesCurrentTokens'
  BY <1>2, CarriesMove DEF ExecDone, NoExchange, clientVars
<1>3. ASSUME NEW t \in Callers, RefreshSend(t) PROVE CarriesCurrentTokens'
  BY <1>3, CarriesMove DEF RefreshSend, Request, clientVars
<1>4. ASSUME NEW t \in Callers, RefreshOk(t) PROVE CarriesCurrentTokens'
  <2>1. HoldsWrite(authLock, t) /\ pc[t] \in WriterPCs
    BY <1>4 DEF RefreshOk, AuthLockOK, HoldsWrite, OwnerPCs, WriterPCs, Threads
  <2>2. \A u \in Callers : net'[u].kind = "none"
    BY <1>4, <2>1, OwnerAlone DEF RefreshOk, NoExchange, TypeOK, Threads
  <2>3. QED
    BY <2>2 DEF CarriesCurrentTokens
<1>5. ASSUME NEW t \in Callers, RefreshDeauth(t) PROVE CarriesCurrentTokens'
  BY <1>5, CarriesMove DEF RefreshDeauth, NoExchange, clientVars
<1>6. ASSUME NEW t \in Callers, RefreshFail(t) PROVE CarriesCurrentTokens'
  BY <1>6, CarriesMove DEF RefreshFail, NoExchange, clientVars
<1>7. ASSUME NEW t \in Callers, Retry(t) PROVE CarriesCurrentTokens'
  BY <1>7, CarriesMove DEF Retry, Resend, CarriesCurrentTokens, clientVars
<1>8. ASSUME NEW t \in Callers, Lose(t) PROVE CarriesCurrentTokens'
  <2>1. PICK st, auth : net' = [net EXCEPT ![t] = Outcome(net[t], st, auth)]
    BY <1>8 DEF Lose
  <2>2. QED
    BY <1>8, <2>1, CarriesMove DEF Lose, Outcome, CarriesCurrentTokens, clientVars
<1>9. ASSUME NEW t \in Callers, Delay(t) PROVE CarriesCurrentTokens'
  <2>1. PICK st, auth : net' = [net EXCEPT ![t] = Outcome(net[t], st, auth)]
    BY <1>9 DEF Delay
  <2>2. QED
    BY <1>9, <2>1, CarriesMove DEF Delay, Outcome, CarriesCurrentTokens, clientVars
<1>10. ASSUME NEW t \in Callers, Garble(t) PROVE CarriesCurrentTokens'
  <2>1. PICK st, auth : net' = [net EXCEPT ![t] = Outcome(net[t], st, auth)]
    BY <1>10 DEF Garble
  <2>2. QED
    BY <1>10, <2>1, CarriesMove DEF Garble, Outcome, CarriesCurrentTokens, clientVars
<1>11. ASSUME NEW t \in Callers, Refuse(t) PROVE CarriesCurrentTokens'
  <2>1. PICK st, auth : net' = [net EXCEPT ![t] = Outcome(net[t], st, auth)]
    BY <1>11 DEF Refuse
  <2>2. QED
    BY <1>11, <2>1, CarriesMove DEF Refuse, Outcome, CarriesCurrentTokens, clientVars
<1>12. ASSUME NEW t \in Callers, ServeApi(t) PROVE CarriesCurrentTokens'
  <2>1. PICK st, auth : net' = [net EXCEPT ![t] = Outcome(net[t], st, auth)]
    BY <1>12 DEF ServeApi
  <2>2. QED
    BY <1>12, <2>1, CarriesMove DEF ServeApi, Outcome, CarriesCurrentTokens, clientVars
<1>13. ASSUME NEW t \in Callers, ServeRefresh(t) PROVE CarriesCurrentTokens'
  <2>1. PICK st, auth : net' = [net EXCEPT ![t] = Outcome(net[t], st, auth)]
    BY <1>13 DEF ServeRefresh
  <2>2. QED
    BY <1>13, <2>1, CarriesMove DEF ServeRefresh, Outcome, CarriesCurrentTokens, clientVars
<1>14. ASSUME NEW t \in Closers, CloseTokens(t) PROVE CarriesCurrentTokens'
  <2>1. t \in Threads /\ t \notin Callers /\ pc[t] \in WriterPCs
    BY <1>14, ThreadAssumption DEF CloseTokens, WriterPCs, Threads
  <2>2. \A u \in Callers : net[u].kind = "none"
    BY <1>14, <2>1, OwnerAlone DEF CloseTokens
  <2>3. QED
    BY <1>14, <2>2 DEF CloseTokens, CarriesCurrentTokens, netVars
<1>15. CASE UNCHANGED <<net, uid, acc, ref>>
  BY <1>15 DEF CarriesCurrentTokens
<1>16. QED
  BY <1>1, <1>2, <1>3, <1>4, <1>5, <1>6, <1>7, <1>8, <1>9, <1>10, <1>11,
     <1>12, <1>13, <1>14, <1>15
     DEF Next, Caller, Serve, Network, Adder, Closer, Call, ExecLock, Leave,
         RefreshAnnounce, RefreshHook, RefreshUnlock, AddAnnounce,
         AddAuthHandler, AddDeauthHandler, AddRequestHook, CloseAnnounce,
         CloseHookAnnounce, CloseHandlers, ServeLimbo, Expire, Revoke,
         Registered, vars, clientVars, netVars, serverVars

\* What Close leaves behind stays: a refresh that succeeds is one of an open client.
LEMMA ClosedStep ==
  TypeOK /\ PCsOK /\ ExchangesOK /\ CarriesCurrentTokens /\ ClosedOK /\ SessionOK /\ [Next]_vars => ClosedOK'
<1> SUFFICES ASSUME TypeOK, PCsOK, ExchangesOK, CarriesCurrentTokens, ClosedOK, SessionOK, [Next]_vars PROVE ClosedOK'
  OBVIOUS
<1>1. ASSUME NEW t \in Callers, Call(t) PROVE ClosedOK'
  BY <1>1, ThreadAssumption DEF Call, ClosedOK, PCsOK, TypeOK, CallerPCs, AdderPCs, CloserPCs, Threads, clientVars
<1>2. ASSUME NEW t \in Callers, ExecLock(t) PROVE ClosedOK'
  BY <1>2, ThreadAssumption DEF ExecLock, ClosedOK, PCsOK, TypeOK, CallerPCs, AdderPCs, CloserPCs, Threads, clientVars
<1>3. ASSUME NEW t \in Callers, ExecSend(t) PROVE ClosedOK'
  BY <1>3, ThreadAssumption DEF ExecSend, ClosedOK, PCsOK, TypeOK, CallerPCs, AdderPCs, CloserPCs, Threads, clientVars
<1>4. ASSUME NEW t \in Callers, ExecDone(t) PROVE ClosedOK'
  BY <1>4, ThreadAssumption DEF ExecDone, ClosedOK, PCsOK, TypeOK, CallerPCs, AdderPCs, CloserPCs, Threads, clientVars
<1>5. ASSUME NEW t \in Callers, Leave(t) PROVE ClosedOK'
  BY <1>5, ThreadAssumption DEF Leave, ClosedOK, PCsOK, TypeOK, CallerPCs, AdderPCs, CloserPCs, Threads, clientVars
<1>6. ASSUME NEW t \in Callers, RefreshAnnounce(t) PROVE ClosedOK'
  BY <1>6, ThreadAssumption DEF RefreshAnnounce, ClosedOK, PCsOK, TypeOK, CallerPCs, AdderPCs, CloserPCs, Threads, clientVars
<1>7. ASSUME NEW t \in Callers, RefreshHook(t) PROVE ClosedOK'
  BY <1>7, ThreadAssumption DEF RefreshHook, ClosedOK, PCsOK, TypeOK, CallerPCs, AdderPCs, CloserPCs, Threads, clientVars
<1>8. ASSUME NEW t \in Callers, RefreshSend(t) PROVE ClosedOK'
  BY <1>8, ThreadAssumption DEF RefreshSend, ClosedOK, PCsOK, TypeOK, CallerPCs, AdderPCs, CloserPCs, Threads, clientVars
<1>9. ASSUME NEW t \in Callers, RefreshDeauth(t) PROVE ClosedOK'
  BY <1>9, ThreadAssumption DEF RefreshDeauth, ClosedOK, TypeOK, Threads
<1>10. ASSUME NEW t \in Callers, RefreshFail(t) PROVE ClosedOK'
  BY <1>10, ThreadAssumption DEF RefreshFail, ClosedOK, PCsOK, TypeOK, CallerPCs, AdderPCs, CloserPCs, Threads, clientVars
<1>11. ASSUME NEW t \in Callers, RefreshUnlock(t) PROVE ClosedOK'
  BY <1>11, ThreadAssumption DEF RefreshUnlock, ClosedOK, PCsOK, TypeOK, CallerPCs, AdderPCs, CloserPCs, Threads, clientVars
<1>12. ASSUME NEW t \in Adders, AddAnnounce(t) PROVE ClosedOK'
  BY <1>12, ThreadAssumption DEF AddAnnounce, ClosedOK, PCsOK, TypeOK, CallerPCs, AdderPCs, CloserPCs, Threads, clientVars
<1>13. ASSUME NEW t \in Closers, CloseAnnounce(t) PROVE ClosedOK'
  BY <1>13, ThreadAssumption DEF CloseAnnounce, ClosedOK, PCsOK, TypeOK, CallerPCs, AdderPCs, CloserPCs, Threads, clientVars
<1>14. ASSUME NEW t \in Closers, CloseTokens(t) PROVE ClosedOK'
  BY <1>14, ThreadAssumption DEF CloseTokens, ClosedOK, PCsOK, TypeOK, CallerPCs, AdderPCs, CloserPCs, Threads, clientVars
<1>15. ASSUME NEW t \in Closers, CloseHookAnnounce(t) PROVE ClosedOK'
  BY <1>15, ThreadAssumption DEF CloseHookAnnounce, ClosedOK, PCsOK, TypeOK, CallerPCs, AdderPCs, CloserPCs, Threads, clientVars
<1>16. ASSUME NEW t \in Closers, CloseHandlers(t) PROVE ClosedOK'
  BY <1>16, ThreadAssumption DEF DropHandlers, CloseHandlers, ClosedOK, PCsOK, TypeOK, CallerPCs, AdderPCs, CloserPCs, Threads, clientVars
<1>17. ASSUME NEW t \in Adders, AddAuthHandler(t) PROVE ClosedOK'
  BY <1>17, ThreadAssumption DEF AddAuthHandler, Registered, ClosedOK, TypeOK, Threads
<1>18. ASSUME NEW t \in Adders, AddDeauthHandler(t) PROVE ClosedOK'
  BY <1>18, ThreadAssumption DEF AddDeauthHandler, Registered, ClosedOK, TypeOK, Threads
<1>19. ASSUME NEW t \in Adders, AddRequestHook(t) PROVE ClosedOK'
  BY <1>19, ThreadAssumption DEF AddRequestHook, Registered, ClosedOK, TypeOK, Threads
<1>20. ASSUME NEW t \in Callers, RefreshOk(t) PROVE ClosedOK'
  <2>1. uid /\ net[t].auth # NoTok
    BY <1>20 DEF RefreshOk, ExchangesOK, Fits, SessionOK, CarriesCurrentTokens
  <2>2. QED
    BY <1>20, <2>1, ThreadAssumption DEF RefreshOk, StoreAuth, ClosedOK, TypeOK, Threads
<1>21. CASE UNCHANGED <<pc, uid, acc, ref, authHandlers, deauthHandlers>>
  BY <1>21 DEF ClosedOK
<1>22. QED
  BY <1>1, <1>2, <1>3, <1>4, <1>5, <1>6, <1>7, <1>8, <1>9, <1>10, <1>11,
     <1>12, <1>13, <1>14, <1>15, <1>16, <1>17, <1>18, <1>19, <1>20, <1>21
     DEF Next, Caller, Serve, Network, Adder, Closer, Retry, Lose, Delay,
         Garble, Refuse, ServeApi, ServeRefresh, ServeLimbo, Expire, Revoke,
         Registered, vars, clientVars, netVars, serverVars

\* Every registered handler is told of a refresh in the step that stores it.
LEMMA HandlersStep ==
  TypeOK /\ ClosedOK /\ HandlersOK /\ [Next]_vars => HandlersOK'
<1> SUFFICES ASSUME TypeOK, ClosedOK, HandlersOK, [Next]_vars PROVE HandlersOK'
  OBVIOUS
<1>1. ASSUME NEW t \in Callers, RefreshOk(t) PROVE HandlersOK'
  BY <1>1 DEF RefreshOk, StoreAuth, TellHandlers, HandlersOK, ClosedOK, Handlers, TypeOK, Tokens, NoTok
<1>2. ASSUME NEW t \in Adders, AddAuthHandler(t) PROVE HandlersOK'
  BY <1>2 DEF AddAuthHandler, Registered, HandlersOK, Handlers, ClosedOK, TypeOK
<1>3. ASSUME NEW t \in Adders, AddDeauthHandler(t) PROVE HandlersOK'
  BY <1>3 DEF AddDeauthHandler, Registered, HandlersOK, Handlers, ClosedOK, TypeOK
<1>4. ASSUME NEW t \in Adders, AddRequestHook(t) PROVE HandlersOK'
  BY <1>4 DEF AddRequestHook, Registered, HandlersOK, Handlers, ClosedOK, TypeOK
<1>5. ASSUME NEW t \in Closers, CloseTokens(t) PROVE HandlersOK'
  BY <1>5 DEF CloseTokens, HandlersOK
<1>6. ASSUME NEW t \in Closers, CloseHandlers(t) PROVE HandlersOK'
  BY <1>6 DEF CloseHandlers, HandlersOK, ClosedOK
<1>7. CASE UNCHANGED <<uid, ref, authHandlers, told>>
  BY <1>7 DEF HandlersOK
<1>8. QED
  BY <1>1, <1>2, <1>3, <1>4, <1>5, <1>6, <1>7
     DEF Next, Caller, Serve, Network, Adder, Closer, Call, ExecLock,
         ExecSend, ExecDone, Leave, RefreshAnnounce, RefreshHook, RefreshSend,
         RefreshDeauth, RefreshFail, RefreshUnlock, Retry, Lose, Delay, Garble,
         Refuse, ServeApi, ServeRefresh, AddAnnounce, CloseAnnounce,
         CloseHookAnnounce, ServeLimbo, Expire, Revoke, Registered, vars,
         clientVars, netVars, serverVars

\* An exchange without a new auth takes the place of another: nothing else
\* of the session's invariant moves.
LEMMA SessionMove ==
  ASSUME TypeOK, SessionOK, NEW t \in Callers, NEW x,
         net' = [net EXCEPT ![t] = x], x.auth = NoTok, net[t].auth = NoTok,
         lost = 0 /\ x.kind = "refresh" /\ x.st = "invalid" /\ uid => ~session.live,
         UNCHANGED <<uid, ref, limbo, lost>>,
         session'.ref = session.ref, session'.live = session.live
  PROVE  SessionOK'
<1>1. \A u \in Callers : u # t => net'[u] = net[u]
  BY DEF TypeOK
<1>2. net'[t] = x
  BY DEF TypeOK
<1>3. AuthOnItsWay' <=> AuthOnItsWay
  BY <1>1, <1>2 DEF AuthOnItsWay
<1>4. QED
  BY <1>1, <1>2, <1>3 DEF SessionOK

\* An exchange is broken: no new auth is on its way any more.
LEMMA SessionBreak ==
  ASSUME TypeOK, RefreshIsAlone, SessionOK, NEW t \in Callers, NEW x,
         \A u \in Callers : net[u].auth # NoTok => net[u].kind = "refresh",
         net[t].kind # "none", net' = [net EXCEPT ![t] = x], x.auth = NoTok,
         lost' = lost + 1,
         \/ limbo' = limbo
         \/ limbo' = limbo \cup {net[t].cred} /\ net[t].cred.tok = ref,
         UNCHANGED <<uid, ref, session>>
  PROVE  SessionOK'
<1>1. /\ \A u \in Callers : u # t => net'[u] = net[u]
      /\ net'[t] = x
  BY DEF TypeOK
<1>2. \A u \in Callers : net'[u].auth = NoTok
  BY <1>1 DEF RefreshIsAlone
<1>3. ~AuthOnItsWay'
  BY <1>2 DEF AuthOnItsWay
<1>4. lost' # 0
  BY DEF TypeOK
<1>5. \A c \in limbo' : c.tok <= session.ref
  BY DEF SessionOK, TypeOK
<1>6. QED
  BY <1>2, <1>3, <1>4, <1>5 DEF SessionOK

\* The server's refresh token stays in step with the client's, or an exchange was broken.
LEMMA SessionStep ==
  TypeOK /\ PCsOK /\ ExchangesOK /\ CarriesCurrentTokens /\ RefreshIsAlone /\ SessionOK /\ [Next]_vars => SessionOK'
<1> SUFFICES ASSUME TypeOK, PCsOK, ExchangesOK, CarriesCurrentTokens, RefreshIsAlone, SessionOK, [Next]_vars PROVE SessionOK'
  OBVIOUS
<1>0. /\ \A t \in Callers : net[t] \in Exchanges /\ Fits(net[t], pc[t])
      /\ session \in Sessions /\ lost \in Nat /\ ref \in Nat
      /\ limbo \subseteq Credentials
  BY DEF TypeOK, ExchangesOK, Tokens
<1>1. ASSUME NEW t \in Callers, ExecSend(t) PROVE SessionOK'
  <2>1. net[t].auth = NoTok
    BY <1>1, <1>0 DEF ExecSend, Fits
  <2>2. QED
    <3> DEFINE x == Request("api", acc)
    <3>1. /\ net' = [net EXCEPT ![t] = x] /\ x.auth = NoTok
          /\ lost = 0 /\ x.kind = "refresh" /\ x.st = "invalid" /\ uid => ~session.live
      BY <1>1 DEF ExecSend, Request
    <3>2. UNCHANGED <<uid, ref, limbo, lost>>
      BY <1>1 DEF ExecSend, clientVars
    <3>3. session'.ref = session.ref /\ session'.live = session.live
      BY <1>1 DEF ExecSend, serverVars
    <3> HIDE DEF x
    <3>4. QED
      BY <2>1, <3>1, <3>2, <3>3, SessionMove
<1>2. ASSUME NEW t \in Callers, ExecDone(t) PROVE SessionOK'
  <2>1. net[t].auth = NoTok
    BY <1>2, <1>0 DEF ExecDone, Fits
  <2>2. QED
    <3> DEFINE x == NoExchange
    <3>1. /\ net' = [net EXCEPT ![t] = x] /\ x.auth = NoTok
          /\ lost = 0 /\ x.kind = "refresh" /\ x.st = "invalid" /\ uid => ~session.live
      BY <1>2 DEF ExecDone, NoExchange
    <3>2. UNCHANGED <<uid, ref, limbo, lost>>
      BY <1>2 DEF ExecDone, clientVars
    <3>3. session'.ref = session.ref /\ session'.live = session.live
      BY <1>2 DEF ExecDone, serverVars
    <3> HIDE DEF x
    <3>4. QED
      BY <2>1, <3>1, <3>2, <3>3, SessionMove
<1>3. ASSUME NEW t \in Callers, RefreshSend(t) PROVE SessionOK'
  <2>1. net[t].auth = NoTok
    BY <1>3, <1>0 DEF RefreshSend, Fits
  <2>2. QED
    <3> DEFINE x == Request("refresh", ref)
    <3>1. /\ net' = [net EXCEPT ![t] = x] /\ x.auth = NoTok
          /\ lost = 0 /\ x.kind = "refresh" /\ x.st = "invalid" /\ uid => ~session.live
      BY <1>3 DEF RefreshSend, Request
    <3>2. UNCHANGED <<uid, ref, limbo, lost>>
      BY <1>3 DEF RefreshSend, clientVars
    <3>3. session'.ref = session.ref /\ session'.live = session.live
      BY <1>3 DEF RefreshSend, serverVars
    <3> HIDE DEF x
    <3>4. QED
      BY <2>1, <3>1, <3>2, <3>3, SessionMove
<1>4. ASSUME NEW t \in Callers, RefreshDeauth(t) PROVE SessionOK'
  <2>1. net[t].auth = NoTok
    BY <1>4, <1>0 DEF RefreshDeauth, Fits, Deauths
  <2>2. QED
    <3> DEFINE x == NoExchange
    <3>1. /\ net' = [net EXCEPT ![t] = x] /\ x.auth = NoTok
          /\ lost = 0 /\ x.kind = "refresh" /\ x.st = "invalid" /\ uid => ~session.live
      BY <1>4 DEF RefreshDeauth, NoExchange, Deauths
    <3>2. UNCHANGED <<uid, ref, limbo, lost>>
      BY <1>4 DEF RefreshDeauth, clientVars
    <3>3. session'.ref = session.ref /\ session'.live = session.live
      BY <1>4 DEF RefreshDeauth, serverVars
    <3> HIDE DEF x
    <3>4. QED
      BY <2>1, <3>1, <3>2, <3>3, SessionMove
<1>5. ASSUME NEW t \in Callers, RefreshFail(t) PROVE SessionOK'
  <2>1. net[t].auth = NoTok
    BY <1>5, <1>0 DEF RefreshFail, Fits
  <2>2. QED
    <3> DEFINE x == NoExchange
    <3>1. /\ net' = [net EXCEPT ![t] = x] /\ x.auth = NoTok
          /\ lost = 0 /\ x.kind = "refresh" /\ x.st = "invalid" /\ uid => ~session.live
      BY <1>5 DEF RefreshFail, NoExchange
    <3>2. UNCHANGED <<uid, ref, limbo, lost>>
      BY <1>5 DEF RefreshFail, clientVars
    <3>3. session'.ref = session.ref /\ session'.live = session.live
      BY <1>5 DEF RefreshFail, serverVars
    <3> HIDE DEF x
    <3>4. QED
      BY <2>1, <3>1, <3>2, <3>3, SessionMove
<1>6. ASSUME NEW t \in Callers, RefreshOk(t) PROVE SessionOK'
  <2>1. net[t].kind = "refresh" /\ net[t].auth # NoTok
    BY <1>6, <1>0 DEF RefreshOk, Fits
  <2>2. /\ \A u \in Callers : u # t => net'[u] = net[u]
        /\ net'[t] = NoExchange
    BY <1>6 DEF RefreshOk, TypeOK
  <2>3. \A u \in Callers : net'[u].kind # "refresh" /\ net'[u].auth = NoTok
    BY <2>1, <2>2, <1>0 DEF RefreshIsAlone, NoExchange, Fits
  <2>4. ~AuthOnItsWay'
    BY <2>3 DEF AuthOnItsWay
  <2>5. ref' = session.ref
    BY <1>6, <2>1 DEF RefreshOk, StoreAuth, SessionOK
  <2>6. QED
    BY <1>6, <1>0, <2>3, <2>4, <2>5 DEF RefreshOk, SessionOK, serverVars, Sessions, Tokens
<1>7. ASSUME NEW t \in Callers, Retry(t) PROVE SessionOK'
  <2>1. net[t].auth = NoTok
    BY <1>7, <1>0 DEF Retry, Finished, Retryable, Fits
  <2>2. QED
    <3> DEFINE x == Resend(net[t])
    <3>1. /\ net' = [net EXCEPT ![t] = x] /\ x.auth = NoTok
          /\ lost = 0 /\ x.kind = "refresh" /\ x.st = "invalid" /\ uid => ~session.live
      BY <1>7 DEF Retry, Resend
    <3>2. UNCHANGED <<uid, ref, limbo, lost>>
      BY <1>7 DEF Retry, clientVars
    <3>3. session'.ref = session.ref /\ session'.live = session.live
      BY <1>7 DEF Retry, serverVars
    <3> HIDE DEF x
    <3>4. QED
      BY <2>1, <3>1, <3>2, <3>3, SessionMove
<1>8. ASSUME NEW t \in Callers, Refuse(t) PROVE SessionOK'
  <2>1. net[t].auth = NoTok
    BY <1>8, <1>0 DEF Refuse, Fits
  <2>2. PICK st \in {"busy", "fault"} : net' = [net EXCEPT ![t] = Outcome(net[t], st, NoTok)]
    BY <1>8 DEF Refuse
  <2>3. QED
    <3> DEFINE x == Outcome(net[t], st, NoTok)
    <3>1. /\ net' = [net EXCEPT ![t] = x] /\ x.auth = NoTok
          /\ lost = 0 /\ x.kind = "refresh" /\ x.st = "invalid" /\ uid => ~session.live
      BY <1>8, <2>2 DEF Refuse, Outcome
    <3>2. UNCHANGED <<uid, ref, limbo, lost>>
      BY <1>8 DEF Refuse, clientVars
    <3>3. session'.ref = session.ref /\ session'.live = session.live
      BY <1>8 DEF Refuse, serverVars
    <3> HIDE DEF x
    <3>4. QED
      BY <2>1, <3>1, <3>2, <3>3, SessionMove
<1>9. ASSUME NEW t \in Callers, Lose(t) PROVE SessionOK'
  <2>1. PICK st \in {"lost", "cancelled"} : net' = [net EXCEPT ![t] = Outcome(net[t], st, NoTok)]
    BY <1>9 DEF Lose
  <2>2. net[t].kind # "none"
    BY <1>9, <1>0 DEF Lose, Fits
  <2>3. \A u \in Callers : net[u].auth # NoTok => net[u].kind = "refresh"
    BY <1>0 DEF Fits
  <2>4. limbo' = limbo \/ (limbo' = limbo \cup {net[t].cred} /\ net[t].cred.tok = ref)
    BY <1>9 DEF Lose, CarriesCurrentTokens
  <2> DEFINE x == Outcome(net[t], st, NoTok)
  <2>5. net' = [net EXCEPT ![t] = x] /\ x.auth = NoTok
    BY <2>1 DEF Outcome
  <2>6. lost' = lost + 1 /\ UNCHANGED <<uid, ref, session>>
    BY <1>9 DEF Lose, Break, clientVars, serverVars
  <2> HIDE DEF x
  <2>7. QED
    BY <2>2, <2>3, <2>4, <2>5, <2>6, SessionBreak
<1>10. ASSUME NEW t \in Callers, Delay(t) PROVE SessionOK'
  <2>1. PICK st \in {"lost", "cancelled"} : net' = [net EXCEPT ![t] = Outcome(net[t], st, NoTok)]
    BY <1>10 DEF Delay
  <2>2. net[t].kind # "none"
    BY <1>10, <1>0 DEF Delay, Fits
  <2>3. \A u \in Callers : net[u].auth # NoTok => net[u].kind = "refresh"
    BY <1>0 DEF Fits
  <2>4. limbo' = limbo \/ (limbo' = limbo \cup {net[t].cred} /\ net[t].cred.tok = ref)
    BY <1>10 DEF Delay, CarriesCurrentTokens
  <2> DEFINE x == Outcome(net[t], st, NoTok)
  <2>5. net' = [net EXCEPT ![t] = x] /\ x.auth = NoTok
    BY <2>1 DEF Outcome
  <2>6. lost' = lost + 1 /\ UNCHANGED <<uid, ref, session>>
    BY <1>10 DEF Delay, Break, clientVars, serverVars
  <2> HIDE DEF x
  <2>7. QED
    BY <2>2, <2>3, <2>4, <2>5, <2>6, SessionBreak
<1>11. ASSUME NEW t \in Callers, Garble(t) PROVE SessionOK'
  <2>1. PICK st \in {"garbled"} : net' = [net EXCEPT ![t] = Outcome(net[t], st, NoTok)]
    BY <1>11 DEF Garble
  <2>2. net[t].kind # "none"
    BY <1>11, <1>0 DEF Garble, Fits
  <2>3. \A u \in Callers : net[u].auth # NoTok => net[u].kind = "refresh"
    BY <1>0 DEF Fits
  <2>4. limbo' = limbo \/ (limbo' = limbo \cup {net[t].cred} /\ net[t].cred.tok = ref)
    BY <1>11 DEF Garble, CarriesCurrentTokens
  <2> DEFINE x == Outcome(net[t], st, NoTok)
  <2>5. net' = [net EXCEPT ![t] = x] /\ x.auth = NoTok
    BY <2>1 DEF Outcome
  <2>6. lost' = lost + 1 /\ UNCHANGED <<uid, ref, session>>
    BY <1>11 DEF Garble, Break, clientVars, serverVars
  <2> HIDE DEF x
  <2>7. QED
    BY <2>2, <2>3, <2>4, <2>5, <2>6, SessionBreak
<1>12. ASSUME NEW t \in Callers, ServeApi(t) PROVE SessionOK'
  <2>1. net[t].auth = NoTok
    BY <1>12, <1>0 DEF ServeApi, Fits
  <2>2. PICK st \in {"ok", "unauth"} : net' = [net EXCEPT ![t] = Outcome(net[t], st, NoTok)]
    BY <1>12 DEF ServeApi
  <2>3. session'.ref = session.ref /\ session'.live = session.live
    BY <1>12, <1>0 DEF ServeApi, AfterVerify, Sessions
  <2>4. QED
    <3> DEFINE x == Outcome(net[t], st, NoTok)
    <3>1. /\ net' = [net EXCEPT ![t] = x] /\ x.auth = NoTok
          /\ lost = 0 /\ x.kind = "refresh" /\ x.st = "invalid" /\ uid => ~session.live
      BY <1>12, <2>2 DEF ServeApi, Outcome
    <3>2. UNCHANGED <<uid, ref, limbo, lost>>
      BY <1>12 DEF ServeApi, clientVars
    <3>3. session'.ref = session.ref /\ session'.live = session.live
      BY <2>3
    <3> HIDE DEF x
    <3>4. QED
      BY <2>1, <3>1, <3>2, <3>3, SessionMove
<1>13. ASSUME NEW t \in Callers, ServeRefresh(t) PROVE SessionOK'
  <2>1. /\ net[t].kind = "refresh" /\ net[t].auth = NoTok
        /\ net[t].cred = [uid |-> uid, tok |-> ref]
    BY <1>13, <1>0 DEF ServeRefresh, Fits, CarriesCurrentTokens
  <2>2. \A u \in Callers : u # t => net[u].kind # "refresh" /\ net[u].auth = NoTok
    BY <2>1, <1>0 DEF RefreshIsAlone, Fits
  <2>3. ~AuthOnItsWay
    BY <2>1, <2>2 DEF AuthOnItsWay
  <2>4. CASE RefreshOK(session, net[t].cred)
    <3> DEFINE x == Outcome(net[t], "ok", AfterRefresh(session).ref)
    <3>1. /\ net' = [net EXCEPT ![t] = x]
          /\ session'.ref = session.ref + 1
          /\ x.auth = session.ref + 1 /\ x.cred = net[t].cred /\ x.st = "ok"
      BY <1>13, <2>4 DEF ServeRefresh, AfterRefresh, Outcome
    <3> HIDE DEF x
    <3>2. /\ \A u \in Callers : u # t => net'[u] = net[u]
          /\ net'[t] = x
      BY <3>1 DEF TypeOK
    <3>3. net[t].cred.uid
      BY <2>4 DEF RefreshOK
    <3>4. UNCHANGED <<uid, ref, limbo, lost>> /\ session.ref \in Nat
      BY <1>13, <1>0 DEF ServeRefresh, clientVars, Sessions, Tokens
    <3>5. \A u \in Callers :
             /\ net'[u].auth # NoTok => net'[u].cred.uid /\ net'[u].auth = session'.ref
             /\ ~(net'[u].kind = "refresh" /\ net'[u].st = "invalid")
      BY <2>2, <3>1, <3>2, <3>3
    <3>6. \A c \in limbo : c.tok \in Nat /\ c.tok <= session.ref
      BY <1>0 DEF SessionOK, Credentials, Tokens
    <3>7. ref <= session.ref /\ (lost = 0 => limbo = {})
      BY DEF SessionOK
    <3>8. \A c \in limbo' : c.tok < session'.ref
      BY <3>1, <3>4, <3>6
    <3>9. AuthOnItsWay' /\ ref' < session'.ref
      BY <1>0, <3>1, <3>2, <3>4, <3>7 DEF AuthOnItsWay, NoTok
    <3>10. \A c \in limbo' : c.tok <= session'.ref
      BY <3>1, <3>4, <3>6
    <3>11. QED
      BY <1>0, <3>1, <3>4, <3>5, <3>7, <3>8, <3>9, <3>10 DEF SessionOK
  <2>5. CASE ~RefreshOK(session, net[t].cred)
    <3>1. lost = 0 /\ uid => ~session.live
      BY <2>1, <2>3, <2>5 DEF RefreshOK, SessionOK
    <3>2. QED
      <4> DEFINE x == Outcome(net[t], "invalid", NoTok)
      <4>1. /\ net' = [net EXCEPT ![t] = x] /\ x.auth = NoTok
            /\ lost = 0 /\ x.kind = "refresh" /\ x.st = "invalid" /\ uid => ~session.live
        BY <1>13, <2>5, <3>1 DEF ServeRefresh, Outcome
      <4>2. UNCHANGED <<uid, ref, limbo, lost>>
        BY <1>13 DEF ServeRefresh, clientVars
      <4>3. session'.ref = session.ref /\ session'.live = session.live
        BY <1>13, <2>5 DEF ServeRefresh
      <4> HIDE DEF x
      <4>4. QED
        BY <2>1, <4>1, <4>2, <4>3, SessionMove
  <2>6. QED
    BY <2>4, <2>5
<1>14. ASSUME NEW t \in Closers, CloseTokens(t) PROVE SessionOK'
  BY <1>14, <1>0 DEF CloseTokens, SessionOK, AuthOnItsWay, netVars, serverVars, Sessions, Tokens, NoTok, Credentials
<1>15. ASSUME ServeLimbo PROVE SessionOK'
  <2>1. PICK c \in limbo :
           /\ limbo' = limbo \ {c}
           /\ session' = IF RefreshOK(session, c) THEN AfterRefresh(session) ELSE session
    BY <1>15 DEF ServeLimbo
  <2>2. AuthOnItsWay' <=> AuthOnItsWay
    BY <1>15 DEF ServeLimbo, AuthOnItsWay
  <2>3. CASE RefreshOK(session, c)
    <3>1. session'.ref = session.ref + 1 /\ ~AuthOnItsWay /\ lost # 0
      BY <1>0, <2>1, <2>3 DEF RefreshOK, AfterRefresh, SessionOK, Sessions, Tokens
    <3>2. QED
      BY <1>15, <1>0, <2>1, <2>2, <3>1 DEF ServeLimbo, SessionOK, AuthOnItsWay, clientVars, Sessions, Tokens, Credentials
  <2>4. CASE ~RefreshOK(session, c)
    BY <1>15, <2>1, <2>2, <2>4 DEF ServeLimbo, SessionOK, clientVars
  <2>5. QED
    BY <2>3, <2>4
<1>16. ASSUME Expire PROVE SessionOK'
  <2>1. AuthOnItsWay' <=> AuthOnItsWay
    BY <1>16 DEF Expire, AuthOnItsWay, netVars
  <2>2. session'.ref = session.ref /\ (session'.live => session.live)
    BY <1>16, <1>0 DEF Expire, AfterDelete, Sessions
  <2>3. QED
    BY <1>16, <2>1, <2>2 DEF Expire, SessionOK, clientVars, netVars
<1>17. ASSUME Revoke PROVE SessionOK'
  <2>1. AuthOnItsWay' <=> AuthOnItsWay
    BY <1>17 DEF Revoke, AuthOnItsWay, netVars
  <2>2. session'.ref = session.ref /\ (session'.live => session.live)
    BY <1>17, <1>0 DEF Revoke, AfterDelete, Sessions
  <2>3. QED
    BY <1>17, <2>1, <2>2 DEF Revoke, SessionOK, clientVars, netVars
<1>18. CASE UNCHANGED <<net, uid, ref, limbo, lost, session>>
  BY <1>18 DEF SessionOK, AuthOnItsWay
<1>19. QED
  BY <1>1, <1>2, <1>3, <1>4, <1>5, <1>6, <1>7, <1>8, <1>9, <1>10, <1>11,
     <1>12, <1>13, <1>14, <1>15, <1>16, <1>17, <1>18
     DEF Next, Caller, Serve, Network, Adder, Closer, Call, ExecLock, Leave,
         RefreshAnnounce, RefreshHook, RefreshUnlock, AddAnnounce,
         AddAuthHandler, AddDeauthHandler, AddRequestHook, CloseAnnounce,
         CloseHookAnnounce, CloseHandlers, Registered, vars, clientVars, netVars,
         serverVars

\* The application's deauth handler runs for a refused refresh of an open
\* client only, and that is refused because the session is gone.
LEMMA DeauthStep ==
  TypeOK /\ PCsOK /\ AuthLockOK /\ ExchangesOK /\ ClosedOK /\ SessionOK /\ NoSpuriousDeauth /\ [Next]_vars
    => NoSpuriousDeauth'
<1> SUFFICES ASSUME TypeOK, PCsOK, AuthLockOK, ExchangesOK, ClosedOK, SessionOK, NoSpuriousDeauth, [Next]_vars
             PROVE  NoSpuriousDeauth'
  OBVIOUS
<1>1. (lost > 0 => lost' > 0) /\ (session'.live => session.live)
  <2>1. CASE UNCHANGED <<lost, session>>
    BY <2>1 DEF TypeOK
  <2>2. ASSUME NEW t \in Callers, Lose(t) PROVE (lost > 0 => lost' > 0) /\ (session'.live => session.live)
    BY <2>2 DEF Lose, Break, TypeOK, serverVars
  <2>3. ASSUME NEW t \in Callers, Delay(t) PROVE (lost > 0 => lost' > 0) /\ (session'.live => session.live)
    BY <2>3 DEF Delay, Break, TypeOK, serverVars
  <2>4. ASSUME NEW t \in Callers, Garble(t) PROVE (lost > 0 => lost' > 0) /\ (session'.live => session.live)
    BY <2>4 DEF Garble, Break, TypeOK, serverVars
  <2>5. ASSUME NEW t \in Callers, ServeApi(t) PROVE (lost > 0 => lost' > 0) /\ (session'.live => session.live)
    BY <2>5 DEF ServeApi, AfterVerify, AfterRefresh, RefreshOK, Sessions, TypeOK
  <2>6. ASSUME NEW t \in Callers, ServeRefresh(t) PROVE (lost > 0 => lost' > 0) /\ (session'.live => session.live)
    BY <2>6 DEF ServeRefresh, AfterVerify, AfterRefresh, RefreshOK, Sessions, TypeOK
  <2>7. ASSUME ServeLimbo PROVE (lost > 0 => lost' > 0) /\ (session'.live => session.live)
    BY <2>7 DEF ServeLimbo, AfterRefresh, AfterDelete, RefreshOK, Sessions, TypeOK, netVars
  <2>8. ASSUME Expire PROVE (lost > 0 => lost' > 0) /\ (session'.live => session.live)
    BY <2>8 DEF Expire, AfterRefresh, AfterDelete, RefreshOK, Sessions, TypeOK, netVars
  <2>9. ASSUME Revoke PROVE (lost > 0 => lost' > 0) /\ (session'.live => session.live)
    BY <2>9 DEF Revoke, AfterRefresh, AfterDelete, RefreshOK, Sessions, TypeOK, netVars
  <2>10. QED
    BY <2>1, <2>2, <2>3, <2>4, <2>5, <2>6, <2>7, <2>8, <2>9
       DEF Next, Caller, Serve, Network, Adder, Closer, Call, ExecLock,
           ExecSend, ExecDone, Leave, RefreshAnnounce, RefreshHook, RefreshSend,
           RefreshOk, RefreshDeauth, RefreshFail, RefreshUnlock, Retry, Refuse,
           AddAnnounce, AddAuthHandler, AddDeauthHandler, AddRequestHook,
           CloseAnnounce, CloseTokens, CloseHookAnnounce, CloseHandlers,
           Registered, vars, clientVars, netVars, serverVars
<1>2. ASSUME NEW t \in Callers, RefreshDeauth(t) PROVE NoSpuriousDeauth'
  <2>1. pc[t] = "refreshWait" /\ net[t].kind = "refresh" /\ net[t].st = "invalid"
    BY <1>2 DEF RefreshDeauth, Deauths, ExchangesOK, Fits
  <2>2. \A u \in Closers : pc[u] \notin {"cleared", "clearing"}
    BY <2>1, ThreadAssumption DEF AuthLockOK, WriterPCs, Threads
  <2>3. CASE uid
    <3>1. lost = 0 => ~session.live
      BY <2>1, <2>3 DEF SessionOK
    <3>2. UNCHANGED <<lost, session>> /\ lost \in Nat
      BY <1>2 DEF RefreshDeauth, serverVars, TypeOK
    <3>3. QED
      BY <3>1, <3>2 DEF NoSpuriousDeauth
  <2>4. CASE ~uid
    <3>1. App \notin deauthHandlers
      BY <2>2, <2>4 DEF ClosedOK
    <3>2. deauths'[App] = deauths[App]
      BY <1>2, <3>1 DEF RefreshDeauth, Handlers
    <3>3. QED
      BY <1>1, <1>2, <3>2 DEF RefreshDeauth, NoSpuriousDeauth, serverVars
  <2>5. QED
    BY <2>3, <2>4
<1>3. CASE UNCHANGED deauths
  BY <1>1, <1>3 DEF NoSpuriousDeauth
<1>4. QED
  BY <1>2, <1>3
     DEF Next, Caller, Serve, Network, Adder, Closer, Call, ExecLock,
         ExecSend, ExecDone, Leave, RefreshAnnounce, RefreshHook, RefreshSend,
         RefreshOk, RefreshFail, RefreshUnlock, Retry, Lose, Delay, Garble,
         Refuse, ServeApi, ServeRefresh, AddAnnounce, AddAuthHandler,
         AddDeauthHandler, AddRequestHook, CloseAnnounce, CloseTokens,
         CloseHookAnnounce, CloseHandlers, ServeLimbo, Expire, Revoke,
         Registered, vars, clientVars, netVars, serverVars

------------------------------------------------------------------------------
\* The inductive invariant holds at the start and every step keeps it.
LEMMA InvInit == Init => IInv
<1> SUFFICES ASSUME Init PROVE IInv
  OBVIOUS
<1>1. TypeOK /\ PCsOK /\ AuthLockOK
  BY TypeInit, LockInit
<1>2. \A t \in Callers : net[t] = NoExchange /\ pc[t] = "idle"
  BY DEF Init, Threads
<1>3. ExchangesOK /\ CarriesCurrentTokens /\ ~AuthOnItsWay
  BY <1>2 DEF ExchangesOK, CarriesCurrentTokens, AuthOnItsWay, Fits, NoExchange, NoTok
<1>4. ClosedOK /\ HandlersOK /\ (uid => told[App] = ref) /\ NoSpuriousDeauth
  BY ThreadAssumption DEF Init, ClosedOK, HandlersOK, NoSpuriousDeauth, Handlers, Threads, FirstTok, NoTok
<1>5. SessionOK
  BY <1>2, <1>3 DEF Init, SessionOK, NewSession, NoExchange, FirstTok, NoTok
<1>6. QED
  BY <1>1, <1>3, <1>4, <1>5 DEF IInv

\* A step of any goroutine, of the network or of the server keeps it.
LEMMA InvStep == IInv /\ [Next]_vars => IInv'
<1> SUFFICES ASSUME IInv, [Next]_vars PROVE IInv'
  OBVIOUS
<1>1. TypeOK' /\ PCsOK' /\ AuthLockOK' /\ ExchangesOK'
  BY TypeStep, LockStep, ExchangeStep DEF IInv
<1>2. RefreshIsAlone
  BY Alone DEF IInv
<1>3. CarriesCurrentTokens' /\ ClosedOK' /\ HandlersOK' /\ SessionOK' /\ NoSpuriousDeauth'
  BY <1>2, CarriesStep, ClosedStep, HandlersStep, SessionStep, DeauthStep DEF IInv
<1>4. uid' => told'[App] = ref'
  <2>1. CASE UNCHANGED <<uid, told, ref>>
    BY <2>1 DEF IInv
  <2>2. ASSUME NEW t \in Callers, RefreshOk(t) PROVE uid' => told'[App] = ref'
    BY <2>2 DEF RefreshOk, StoreAuth, TellHandlers, Handlers, IInv, ClosedOK
  <2>3. ASSUME NEW t \in Closers, CloseTokens(t) PROVE uid' => told'[App] = ref'
    BY <2>3 DEF CloseTokens
  <2>4. QED
    BY <2>1, <2>2, <2>3
       DEF Next, Caller, Serve, Network, Adder, Closer, Call, ExecLock,
           ExecSend, ExecDone, Leave, RefreshAnnounce, RefreshHook, RefreshSend,
           RefreshDeauth, RefreshFail, RefreshUnlock, Retry, Lose, Delay, Garble,
           Refuse, ServeApi, ServeRefresh, AddAnnounce, AddAuthHandler,
           AddDeauthHandler, AddRequestHook, CloseAnnounce, CloseHookAnnounce,
           CloseHandlers, ServeLimbo, Expire, Revoke, Registered, vars,
           clientVars, netVars, serverVars
<1>5. QED
  BY <1>1, <1>3, <1>4 DEF IInv

\* Every variable keeps its type, whatever the goroutines and the bounds.
THEOREM Typing == Spec => []TypeOK
  BY TypeInit, TypeStep, PTL DEF Spec

\* The inductive invariant holds in every reachable state.
THEOREM Invariance == Spec => []IInv
  BY InvInit, InvStep, PTL DEF Spec

\* A refresh never shares the wire with another request of the client.
THEOREM RefreshAlone == Spec => []RefreshIsAlone
<1>1. IInv => RefreshIsAlone
  BY Alone DEF IInv
<1>2. QED
  BY <1>1, Invariance, PTL

\* Every request on the wire carries the client's current tokens.
THEOREM CurrentTokens == Spec => []CarriesCurrentTokens
<1>1. IInv => CarriesCurrentTokens
  BY DEF IInv
<1>2. QED
  BY <1>1, Invariance, PTL

\* Every registered auth handler is up to date.
THEOREM HandlersAreCurrent == Spec => []HandlersCurrent
<1>1. IInv => HandlersCurrent
  BY DEF IInv, HandlersOK, HandlersCurrent, TypeOK, NoTok
<1>2. QED
  BY <1>1, Invariance, PTL

\* What the application knows resumes the session unless an exchange broke.
THEOREM SessionIsResumable == Spec => []Resumable
<1>1. IInv => Resumable
  BY DEF IInv, SessionOK, Resumable
<1>2. QED
  BY <1>1, Invariance, PTL

\* Goroutines racing to refresh never log the application out.
THEOREM NoRaceDeauths == Spec => []NoSpuriousDeauth
<1>1. IInv => NoSpuriousDeauth
  BY DEF IInv
<1>2. QED
  BY <1>1, Invariance, PTL


\* The application has no handler left when a refresh of a closed client fails.
LEMMA DeauthOfClosed ==
  ASSUME IInv, NEW t \in Callers, pc[t] = "refreshWait", ~uid
  PROVE  App \notin authHandlers \cup deauthHandlers
<1>1. \A u \in Closers : pc[u] \notin {"cleared", "clearing"}
  BY ThreadAssumption DEF IInv, AuthLockOK, WriterPCs, Threads
<1>2. QED
  BY <1>1 DEF IInv, ClosedOK

\* A refresh of a closed client carries no uid, so it cannot have succeeded.
LEMMA NoAuthForClosed ==
  ASSUME IInv, NEW t \in Callers, net[t].auth # NoTok
  PROVE  uid /\ net[t].auth = session.ref
<1>1. net[t].kind = "refresh" /\ net[t].cred.uid /\ net[t].auth = session.ref
  BY DEF IInv, ExchangesOK, Fits, SessionOK
<1>2. QED
  BY <1>1 DEF IInv, CarriesCurrentTokens

\* Close is final: no refresh that was waiting for authLock brings tokens back
\* or calls the application's handlers.
THEOREM CloseIsFinal == Spec => ClosedStaysClosed
<1>1. ASSUME IInv, ~uid, [Next]_vars
      PROVE  /\ ~uid' /\ acc' = NoTok /\ ref' = NoTok
             /\ told'[App] = told[App] /\ deauths'[App] = deauths[App]
  <2>1. acc = NoTok /\ ref = NoTok
    BY <1>1 DEF IInv, ClosedOK
  <2>2. CASE UNCHANGED <<uid, acc, ref, told, deauths>>
    BY <1>1, <2>1, <2>2
  <2>3. ASSUME NEW t \in Callers, RefreshOk(t) PROVE FALSE
    <3>1. net[t].auth # NoTok
      BY <1>1, <2>3 DEF RefreshOk, IInv, ExchangesOK, Fits
    <3>2. QED
      BY <1>1, <3>1, NoAuthForClosed
  <2>4. ASSUME NEW t \in Callers, RefreshDeauth(t)
        PROVE  UNCHANGED <<uid, acc, ref, told>> /\ deauths'[App] = deauths[App]
    <3>1. App \notin deauthHandlers
      BY <1>1, <2>4, DeauthOfClosed DEF RefreshDeauth
    <3>2. QED
      BY <2>4, <3>1 DEF RefreshDeauth, Handlers
  <2>5. ASSUME NEW t \in Closers, CloseTokens(t)
        PROVE  ~uid' /\ acc' = NoTok /\ ref' = NoTok /\ UNCHANGED <<told, deauths>>
    BY <2>5 DEF CloseTokens
  <2>6. QED
    BY <1>1, <2>1, <2>2, <2>3, <2>4, <2>5
     DEF Next, Caller, Serve, Network, Adder, Closer, Call, ExecLock, ExecSend,
         ExecDone, Leave, RefreshAnnounce, RefreshHook, RefreshSend, RefreshFail,
         RefreshUnlock, Retry, Lose, Delay, Garble, Refuse, ServeApi,
         ServeRefresh, AddAnnounce, AddAuthHandler, AddDeauthHandler,
         AddRequestHook, CloseAnnounce, CloseHookAnnounce, CloseHandlers,
         ServeLimbo, Expire, Revoke, Registered, vars, clientVars, netVars,
         serverVars
<1>2. QED
  BY <1>1, Invariance, PTL DEF Spec, ClosedStaysClosed

------------------------------------------------------------------------------
(* Client implements AuthCustody. *)

\* There is at most one auth on its way, and it is the server's current one.
LEMMA PendingIs == IInv => PendingAuth = IF AuthOnItsWay THEN session.ref ELSE NoTok
<1> SUFFICES ASSUME IInv PROVE PendingAuth = IF AuthOnItsWay THEN session.ref ELSE NoTok
  OBVIOUS
<1>1. \A t \in Callers : net[t].auth # NoTok => net[t].auth = session.ref
  BY DEF IInv, SessionOK
<1>2. CASE AuthOnItsWay
  <2>1. \E a \in {net[t].auth : t \in Callers} : a # NoTok
    BY <1>2 DEF AuthOnItsWay
  <2>2. PendingAuth \in {net[t].auth : t \in Callers} /\ PendingAuth # NoTok
    BY <1>2, <2>1 DEF PendingAuth
  <2>3. QED
    BY <1>1, <1>2, <2>2
<1>3. CASE ~AuthOnItsWay
  BY <1>3 DEF PendingAuth
<1>4. QED
  BY <1>2, <1>3

\* An auth on its way is the only exchange there is.
LEMMA AuthIsAlone ==
  ASSUME IInv, NEW t \in Callers, net[t].auth # NoTok
  PROVE  \A u \in Callers : u # t => net[u].kind = "none" /\ net[u].auth = NoTok
<1>1. net[t].kind = "refresh"
  BY DEF IInv, ExchangesOK, Fits
<1>2. RefreshIsAlone
  BY Alone DEF IInv
<1>3. QED
  BY <1>1, <1>2 DEF RefreshIsAlone, IInv, ExchangesOK, Fits

\* An exchange without an auth changes into another: nothing AuthCustody sees.
LEMMA CustodyMove ==
  ASSUME NEW t \in Callers, NEW x, net \in [Callers -> Exchanges],
         net[t].auth = NoTok, x.auth = NoTok, net' = [net EXCEPT ![t] = x]
  PROVE  AuthOnItsWay' <=> AuthOnItsWay
<1>1. \A u \in Callers : net'[u].auth = net[u].auth
  OBVIOUS
<1>2. QED
  BY <1>1 DEF AuthOnItsWay


\* Every step of Client is one of AuthCustody, or one it does not see.
LEMMA CustodyStep == IInv /\ IInv' /\ [Next]_vars => [Custody!Next]_(Custody!vars)
<1> SUFFICES ASSUME IInv, IInv', [Next]_vars PROVE [Custody!Next]_(Custody!vars)
  OBVIOUS
<1>1. PendingAuth = IF AuthOnItsWay THEN session.ref ELSE NoTok
  BY PendingIs
<1>2. PendingAuth' = IF AuthOnItsWay' THEN session'.ref ELSE NoTok
  <2>1. (PendingAuth = IF AuthOnItsWay THEN session.ref ELSE NoTok)'
    BY PendingIs, PTL
  <2>2. QED
    BY <2>1
<1>3. session.ref \in Nat /\ session.ref # NoTok /\ session'.ref \in Nat /\ session'.ref # NoTok
  BY DEF IInv, TypeOK, Sessions, Tokens
<1>4. AuthOnItsWay => ref # session.ref
  BY <1>3 DEF IInv, SessionOK, TypeOK, Tokens
<1>5. CASE UNCHANGED <<session.ref, ref, told>> /\ (AuthOnItsWay' <=> AuthOnItsWay)
  BY <1>1, <1>2, <1>5 DEF Custody!vars
<1>6. CASE UNCHANGED <<session.ref, ref, told>> /\ AuthOnItsWay /\ ~AuthOnItsWay'
  BY <1>1, <1>2, <1>3, <1>6 DEF Custody!Next, Custody!Drop, NoTok
<1>7. ASSUME NEW t \in Callers, RefreshOk(t) PROVE Custody!Deliver
  <2>1. net[t].auth # NoTok
    BY <1>7 DEF RefreshOk, IInv, ExchangesOK, Fits
  <2>2. AuthOnItsWay /\ net[t].auth = session.ref
    BY <2>1, NoAuthForClosed DEF AuthOnItsWay
  <2>3. \A u \in Callers : net'[u].auth = NoTok
    BY <1>7, <2>1, AuthIsAlone DEF RefreshOk, NoExchange, IInv, TypeOK
  <2>4. ~AuthOnItsWay'
    BY <2>3 DEF AuthOnItsWay
  <2>5. App \in authHandlers
    BY <2>1, NoAuthForClosed DEF IInv, ClosedOK
  <2>6. ref' = session.ref /\ told'[App] = session.ref /\ session' = session
    BY <1>7, <2>2, <2>5 DEF RefreshOk, StoreAuth, TellHandlers, Handlers, serverVars
  <2>7. QED
    BY <1>1, <1>2, <1>3, <2>2, <2>4, <2>6 DEF Custody!Deliver, NoTok
<1>8. ASSUME NEW t \in Callers, ServeRefresh(t) PROVE [Custody!Next]_(Custody!vars)
  <2>1. net[t].kind = "refresh" /\ net[t].auth = NoTok
    BY <1>8 DEF ServeRefresh, IInv, ExchangesOK, Fits
  <2>2. CASE ~RefreshOK(session, net[t].cred)
    <3>1. AuthOnItsWay' <=> AuthOnItsWay
      <4> DEFINE x == Outcome(net[t], "invalid", NoTok)
      <4>1. net' = [net EXCEPT ![t] = x] /\ x.auth = NoTok
        BY <1>8, <2>2 DEF ServeRefresh, Outcome
      <4>2. net \in [Callers -> Exchanges]
        BY DEF IInv, TypeOK
      <4> HIDE DEF x
      <4>3. QED
        BY <2>1, <4>1, <4>2, CustodyMove
    <3>2. QED
      BY <1>5, <1>8, <2>2, <3>1 DEF ServeRefresh, clientVars
  <2>3. CASE RefreshOK(session, net[t].cred)
    <3>1. net[t].cred.uid /\ net[t].cred.tok = session.ref
      BY <2>3 DEF RefreshOK
    <3>2. uid /\ ref = session.ref
      BY <2>1, <3>1 DEF IInv, CarriesCurrentTokens
    <3>3. session'.ref = session.ref + 1
      BY <1>3, <1>8, <2>3 DEF ServeRefresh, AfterRefresh, IInv, TypeOK, Sessions, Tokens
    <3>4. net'[t].auth = session'.ref
      BY <1>8, <2>3 DEF ServeRefresh, AfterRefresh, Outcome, IInv, TypeOK
    <3>5. ~AuthOnItsWay /\ AuthOnItsWay'
      BY <1>3, <1>4, <3>2, <3>4 DEF AuthOnItsWay
    <3>6. UNCHANGED <<ref, told>>
      BY <1>8 DEF ServeRefresh, clientVars
    <3>7. Custody!Rotate
      BY <1>1, <1>2, <3>2, <3>3, <3>5, <3>6 DEF Custody!Rotate, NoTok
    <3>8. QED
      BY <3>7 DEF Custody!Next
  <2>4. QED
    BY <2>2, <2>3
<1>9. ASSUME ServeLimbo PROVE [Custody!Next]_(Custody!vars)
  <2>1. UNCHANGED <<net, ref, told>>
    BY <1>9 DEF ServeLimbo, clientVars
  <2>2. AuthOnItsWay' <=> AuthOnItsWay
    BY <2>1 DEF AuthOnItsWay
  <2>3. PICK c \in limbo : session' = IF RefreshOK(session, c) THEN AfterRefresh(session) ELSE session
    BY <1>9 DEF ServeLimbo
  <2>4. CASE RefreshOK(session, c)
    <3>1. c.tok = session.ref
      BY <2>4 DEF RefreshOK
    <3>2. ~AuthOnItsWay
      BY <1>3, <3>1 DEF IInv, SessionOK
    <3>3. session'.ref = session.ref + 1
      BY <2>3, <2>4 DEF AfterRefresh
    <3>4. QED
      BY <1>1, <1>2, <2>1, <2>2, <3>2, <3>3 DEF Custody!Next, Custody!RotateUnseen, NoTok
  <2>5. CASE ~RefreshOK(session, c)
    BY <1>5, <2>1, <2>2, <2>3, <2>5
  <2>6. QED
    BY <2>4, <2>5
<1>10. ASSUME NEW t \in Closers, CloseTokens(t) PROVE Custody!Close
  <2>1. pc[t] = "closing" /\ authLock.writer = t /\ authLock.readers = {}
    BY <1>10 DEF CloseTokens, HoldsWrite
  <2>2. \A u \in Callers : net[u].auth = NoTok
    <3> SUFFICES ASSUME NEW u \in Callers PROVE net[u].auth = NoTok
      OBVIOUS
    <3>1. u # t
      BY ThreadAssumption
    <3>2. net[u].kind = "none"
      BY <2>1, <3>1, OwnerAlone DEF IInv, HoldsWrite, WriterPCs, Threads
    <3>3. QED
      BY <3>2 DEF IInv, ExchangesOK, Fits
  <2>3. ~AuthOnItsWay
    BY <2>2 DEF AuthOnItsWay
  <2>4. ~AuthOnItsWay' /\ ref' = NoTok /\ UNCHANGED <<session, told>>
    BY <1>10, <2>3 DEF CloseTokens, netVars, serverVars, AuthOnItsWay
  <2>5. QED
    BY <1>1, <1>2, <2>3, <2>4 DEF Custody!Close, NoTok
<1>11. ASSUME NEW t \in Callers, ExecSend(t) PROVE UNCHANGED <<session.ref, ref, told>> /\ (AuthOnItsWay' <=> AuthOnItsWay)
  <2> DEFINE x == Request("api", acc)
  <2>1. net' = [net EXCEPT ![t] = x] /\ x.auth = NoTok /\ UNCHANGED <<session.ref, ref, told>>
    BY <1>11 DEF ExecSend, Request, clientVars, serverVars
  <2>2. net[t].auth = NoTok
    BY <1>11 DEF ExecSend, IInv, ExchangesOK, Fits
  <2>3. net \in [Callers -> Exchanges]
    BY DEF IInv, TypeOK
  <2> HIDE DEF x
  <2>4. QED
    BY <2>1, <2>2, <2>3, CustodyMove
<1>12. ASSUME NEW t \in Callers, RefreshSend(t) PROVE UNCHANGED <<session.ref, ref, told>> /\ (AuthOnItsWay' <=> AuthOnItsWay)
  <2> DEFINE x == Request("refresh", ref)
  <2>1. net' = [net EXCEPT ![t] = x] /\ x.auth = NoTok /\ UNCHANGED <<session.ref, ref, told>>
    BY <1>12 DEF RefreshSend, Request, clientVars, serverVars
  <2>2. net[t].auth = NoTok
    BY <1>12 DEF RefreshSend, IInv, ExchangesOK, Fits
  <2>3. net \in [Callers -> Exchanges]
    BY DEF IInv, TypeOK
  <2> HIDE DEF x
  <2>4. QED
    BY <2>1, <2>2, <2>3, CustodyMove
<1>13. ASSUME NEW t \in Callers, ExecDone(t) PROVE UNCHANGED <<session.ref, ref, told>> /\ (AuthOnItsWay' <=> AuthOnItsWay)
  <2> DEFINE x == NoExchange
  <2>1. net' = [net EXCEPT ![t] = x] /\ x.auth = NoTok /\ UNCHANGED <<session.ref, ref, told>>
    BY <1>13 DEF ExecDone, NoExchange, clientVars, serverVars
  <2>2. net[t].auth = NoTok
    BY <1>13 DEF ExecDone, IInv, ExchangesOK, Fits
  <2>3. net \in [Callers -> Exchanges]
    BY DEF IInv, TypeOK
  <2> HIDE DEF x
  <2>4. QED
    BY <2>1, <2>2, <2>3, CustodyMove
<1>14. ASSUME NEW t \in Callers, RefreshDeauth(t) PROVE UNCHANGED <<session.ref, ref, told>> /\ (AuthOnItsWay' <=> AuthOnItsWay)
  <2> DEFINE x == NoExchange
  <2>1. net' = [net EXCEPT ![t] = x] /\ x.auth = NoTok /\ UNCHANGED <<session.ref, ref, told>>
    BY <1>14 DEF RefreshDeauth, NoExchange, clientVars, serverVars
  <2>2. net[t].auth = NoTok
    BY <1>14 DEF RefreshDeauth, IInv, ExchangesOK, Fits, Deauths
  <2>3. net \in [Callers -> Exchanges]
    BY DEF IInv, TypeOK
  <2> HIDE DEF x
  <2>4. QED
    BY <2>1, <2>2, <2>3, CustodyMove
<1>15. ASSUME NEW t \in Callers, RefreshFail(t) PROVE UNCHANGED <<session.ref, ref, told>> /\ (AuthOnItsWay' <=> AuthOnItsWay)
  <2> DEFINE x == NoExchange
  <2>1. net' = [net EXCEPT ![t] = x] /\ x.auth = NoTok /\ UNCHANGED <<session.ref, ref, told>>
    BY <1>15 DEF RefreshFail, NoExchange, clientVars, serverVars
  <2>2. net[t].auth = NoTok
    BY <1>15 DEF RefreshFail, IInv, ExchangesOK, Fits
  <2>3. net \in [Callers -> Exchanges]
    BY DEF IInv, TypeOK
  <2> HIDE DEF x
  <2>4. QED
    BY <2>1, <2>2, <2>3, CustodyMove
<1>16. ASSUME NEW t \in Callers, Retry(t) PROVE UNCHANGED <<session.ref, ref, told>> /\ (AuthOnItsWay' <=> AuthOnItsWay)
  <2> DEFINE x == Resend(net[t])
  <2>1. net' = [net EXCEPT ![t] = x] /\ x.auth = NoTok /\ UNCHANGED <<session.ref, ref, told>>
    BY <1>16 DEF Retry, Resend, clientVars, serverVars
  <2>2. net[t].auth = NoTok
    BY <1>16 DEF Retry, IInv, ExchangesOK, Fits, Finished, Retryable, Answers
  <2>3. net \in [Callers -> Exchanges]
    BY DEF IInv, TypeOK
  <2> HIDE DEF x
  <2>4. QED
    BY <2>1, <2>2, <2>3, CustodyMove
<1>17. ASSUME NEW t \in Callers, Refuse(t) PROVE UNCHANGED <<session.ref, ref, told>> /\ (AuthOnItsWay' <=> AuthOnItsWay)
  <2>1. PICK st \in {"busy", "fault"} : net' = [net EXCEPT ![t] = Outcome(net[t], st, NoTok)]
    BY <1>17 DEF Refuse
  <2> DEFINE x == Outcome(net[t], st, NoTok)
  <2>2. x.auth = NoTok
    BY DEF Outcome
  <2>3. UNCHANGED <<session.ref, ref, told>>
    BY <1>17 DEF Refuse, clientVars, serverVars
  <2>4. net[t].auth = NoTok
    BY <1>17 DEF Refuse, IInv, ExchangesOK, Fits
  <2>5. net \in [Callers -> Exchanges]
    BY DEF IInv, TypeOK
  <2> HIDE DEF x
  <2>6. net' = [net EXCEPT ![t] = x]
    BY <2>1 DEF x
  <2>7. QED
    BY <2>2, <2>3, <2>4, <2>5, <2>6, CustodyMove
<1>18. ASSUME NEW t \in Callers, ServeApi(t) PROVE UNCHANGED <<session.ref, ref, told>> /\ (AuthOnItsWay' <=> AuthOnItsWay)
  <2>1. PICK st \in {"ok", "unauth"} : net' = [net EXCEPT ![t] = Outcome(net[t], st, NoTok)]
    BY <1>18 DEF ServeApi
  <2> DEFINE x == Outcome(net[t], st, NoTok)
  <2>2. x.auth = NoTok
    BY DEF Outcome
  <2>3. UNCHANGED <<session.ref, ref, told>>
    BY <1>18 DEF ServeApi, clientVars, serverVars, AfterVerify, IInv, TypeOK, Sessions
  <2>4. net[t].auth = NoTok
    BY <1>18 DEF ServeApi, IInv, ExchangesOK, Fits
  <2>5. net \in [Callers -> Exchanges]
    BY DEF IInv, TypeOK
  <2> HIDE DEF x
  <2>6. net' = [net EXCEPT ![t] = x]
    BY <2>1 DEF x
  <2>7. QED
    BY <2>2, <2>3, <2>4, <2>5, <2>6, CustodyMove
<1>19. ASSUME NEW t \in Callers, Lose(t) PROVE [Custody!Next]_(Custody!vars)
  <2>1. PICK st \in {"lost", "cancelled"} : net' = [net EXCEPT ![t] = Outcome(net[t], st, NoTok)]
    BY <1>19 DEF Lose
  <2>2. \A u \in Callers : net'[u].auth = IF u = t THEN NoTok ELSE net[u].auth
    BY <2>1 DEF Outcome, IInv, TypeOK
  <2>3. UNCHANGED <<session.ref, ref, told>>
    BY <1>19 DEF Lose, clientVars, serverVars
  <2>4. CASE net[t].auth = NoTok
    <3>1. AuthOnItsWay' <=> AuthOnItsWay
      BY <2>2, <2>4 DEF AuthOnItsWay
    <3>2. QED
      BY <1>5, <2>3, <3>1
  <2>5. CASE net[t].auth # NoTok
    <3>1. AuthOnItsWay /\ ~AuthOnItsWay'
      BY <2>2, <2>5, AuthIsAlone DEF AuthOnItsWay
    <3>2. QED
      BY <1>6, <2>3, <3>1
  <2>6. QED
    BY <2>4, <2>5
<1>20. ASSUME NEW t \in Callers, Delay(t) PROVE [Custody!Next]_(Custody!vars)
  <2>1. PICK st \in {"lost", "cancelled"} : net' = [net EXCEPT ![t] = Outcome(net[t], st, NoTok)]
    BY <1>20 DEF Delay
  <2>2. \A u \in Callers : net'[u].auth = IF u = t THEN NoTok ELSE net[u].auth
    BY <2>1 DEF Outcome, IInv, TypeOK
  <2>3. UNCHANGED <<session.ref, ref, told>>
    BY <1>20 DEF Delay, clientVars, serverVars
  <2>4. CASE net[t].auth = NoTok
    <3>1. AuthOnItsWay' <=> AuthOnItsWay
      BY <2>2, <2>4 DEF AuthOnItsWay
    <3>2. QED
      BY <1>5, <2>3, <3>1
  <2>5. CASE net[t].auth # NoTok
    <3>1. AuthOnItsWay /\ ~AuthOnItsWay'
      BY <2>2, <2>5, AuthIsAlone DEF AuthOnItsWay
    <3>2. QED
      BY <1>6, <2>3, <3>1
  <2>6. QED
    BY <2>4, <2>5
<1>21. ASSUME NEW t \in Callers, Garble(t) PROVE [Custody!Next]_(Custody!vars)
  <2>1. PICK st \in {"garbled"} : net' = [net EXCEPT ![t] = Outcome(net[t], st, NoTok)]
    BY <1>21 DEF Garble
  <2>2. \A u \in Callers : net'[u].auth = IF u = t THEN NoTok ELSE net[u].auth
    BY <2>1 DEF Outcome, IInv, TypeOK
  <2>3. UNCHANGED <<session.ref, ref, told>>
    BY <1>21 DEF Garble, clientVars, serverVars
  <2>4. CASE net[t].auth = NoTok
    <3>1. AuthOnItsWay' <=> AuthOnItsWay
      BY <2>2, <2>4 DEF AuthOnItsWay
    <3>2. QED
      BY <1>5, <2>3, <3>1
  <2>5. CASE net[t].auth # NoTok
    <3>1. AuthOnItsWay /\ ~AuthOnItsWay'
      BY <2>2, <2>5, AuthIsAlone DEF AuthOnItsWay
    <3>2. QED
      BY <1>6, <2>3, <3>1
  <2>6. QED
    BY <2>4, <2>5
<1>22. ASSUME Expire \/ Revoke PROVE UNCHANGED <<session.ref, net, ref, told>>
  BY <1>22 DEF Expire, Revoke, AfterDelete, netVars, clientVars, IInv, TypeOK, Sessions
<1>23. CASE UNCHANGED <<session.ref, net, ref, told>>
  BY <1>5, <1>23 DEF AuthOnItsWay
<1>24. QED
  BY <1>5, <1>6, <1>7, <1>8, <1>9, <1>10, <1>11, <1>12, <1>13, <1>14, <1>15, <1>16, <1>17, <1>18, <1>19, <1>20, <1>21, <1>22, <1>23
     DEF Custody!Next, Next, Caller, Serve, Network, Adder, Closer, Call, ExecLock,
         Leave, RefreshAnnounce, RefreshHook, RefreshUnlock, AddAnnounce,
         AddAuthHandler, AddDeauthHandler, AddRequestHook, CloseAnnounce,
         CloseHookAnnounce, CloseHandlers, Registered, vars, clientVars,
         netVars, serverVars

\* Whatever the goroutines and the network do, the tokens are handed on as by
\* one owner that does one refresh at a time.
THEOREM ClientImplementsCustody == Spec => CustodySpec
<1>1. Init => Custody!Init
  <2> SUFFICES ASSUME Init PROVE Custody!Init
    OBVIOUS
  <2>1. IInv
    BY InvInit
  <2>2. ~AuthOnItsWay
    BY DEF Init, AuthOnItsWay, NoExchange
  <2>3. PendingAuth = NoTok
    BY <2>1, <2>2, PendingIs
  <2>4. QED
    BY <2>3 DEF Init, Custody!Init, NewSession, FirstTok, NoTok, Handlers
<1>2. QED
  BY <1>1, Invariance, CustodyStep, PTL DEF Spec, CustodySpec, Custody!Spec

------------------------------------------------------------------------------
(* Why calls fail. *)

\* What CallsFailForAReason accepts.  None of it is ever taken back.
Excused == lost > 0 \/ refused > 0 \/ ~session.live \/ ~uid \/ expiries > 1

\* An exchange ends badly only for the network's or the server's sake.
OutcomesOK ==
    \A t \in Callers :
        /\ net[t].st \in {"lost", "cancelled", "garbled"} => lost > 0
        /\ net[t].st \in {"busy", "fault"} => refused > 0
        /\ net[t].st = "invalid" => net[t].kind = "refresh"
        /\ net[t].st = "unauth" => net[t].kind = "api"

FailuresOK == \A t \in Callers : pc[t] = "failed" \/ result[t] = "error" => Excused

\* On the way to a new auth, which a request answered 401 needs.
RefreshPCs == {"refresh", "refreshHook", "refreshSend", "refreshWait", "refreshed"}

\* The session has expired and been refreshed since.
Renewed == expiries > 0 /\ ~session.old

\* A goroutine refreshes only a session that has expired, and the refresh
\* leaves the session in order until it expires once more.
RefreshesOK ==
    ~Excused =>
        /\ acc = ref
        /\ session.old \/ session.acc = session.ref
        /\ session.old => expiries > 0
        /\ \A t \in Callers :
              /\ pc[t] \in RefreshPCs \/ net[t].st = "unauth" => expiries > 0
              /\ second[t] \/ (net[t].kind = "refresh" /\ net[t].st = "ok") => Renewed
              /\ second[t] => net[t].st # "unauth"

FailInv == OutcomesOK /\ FailuresOK /\ RefreshesOK

\* No step takes an excuse back.
LEMMA ExcusedStays ==
    ASSUME TypeOK, [Next]_vars
    PROVE  /\ Excused => Excused'
           /\ lost' >= lost /\ refused' >= refused /\ expiries' >= expiries
<1> DEFINE kept == lost' >= lost /\ refused' >= refused /\ expiries' >= expiries
                  /\ (session'.live => session.live) /\ (uid' => uid)
<1>0. lost \in Nat /\ refused \in Nat /\ expiries \in Nat
  BY DEF TypeOK
<1>1. ASSUME UNCHANGED <<lost, refused, expiries, session, uid>> PROVE kept
  BY <1>0, <1>1
<1>2. ASSUME NEW t \in Callers, Lose(t) PROVE kept
  BY <1>2 DEF Lose, Break, TypeOK, serverVars, clientVars
<1>3. ASSUME NEW t \in Callers, Delay(t) PROVE kept
  BY <1>3 DEF Delay, Break, TypeOK, serverVars, clientVars
<1>4. ASSUME NEW t \in Callers, Garble(t) PROVE kept
  BY <1>4 DEF Garble, Break, TypeOK, serverVars, clientVars
<1>5. ASSUME NEW t \in Callers, Refuse(t) PROVE kept
  BY <1>5 DEF Refuse, TypeOK, serverVars, clientVars
<1>6. ASSUME NEW t \in Callers, ServeApi(t) PROVE kept
  BY <1>6 DEF ServeApi, AfterVerify, Sessions, TypeOK, clientVars
<1>7. ASSUME NEW t \in Callers, ServeRefresh(t) PROVE kept
  BY <1>7 DEF ServeRefresh, AfterRefresh, RefreshOK, Sessions, TypeOK, clientVars
<1>8. ASSUME ServeLimbo PROVE kept
  BY <1>8 DEF ServeLimbo, AfterRefresh, RefreshOK, Sessions, TypeOK, clientVars
<1>9. ASSUME Expire PROVE kept
  BY <1>9 DEF Expire, Sessions, TypeOK, netVars, clientVars
<1>10. ASSUME Revoke PROVE kept
  BY <1>10 DEF Revoke, AfterDelete, Sessions, TypeOK, netVars, clientVars
<1>11. ASSUME NEW t \in Closers, CloseTokens(t) PROVE kept
  BY <1>11 DEF CloseTokens, TypeOK, netVars, serverVars
<1>12. kept
  BY <1>1, <1>2, <1>3, <1>4, <1>5, <1>6, <1>7, <1>8, <1>9, <1>10, <1>11
     DEF Next, Caller, Serve, Network, Adder, Closer, Call, ExecLock,
         ExecSend, ExecDone, Leave, RefreshAnnounce, RefreshHook, RefreshSend,
         RefreshOk, RefreshDeauth, RefreshFail, RefreshUnlock, Retry,
         AddAnnounce, AddAuthHandler, AddDeauthHandler, AddRequestHook,
         CloseAnnounce, CloseHookAnnounce, CloseHandlers,
         Registered, vars, clientVars, netVars, serverVars
<1>13. lost \in Nat /\ refused \in Nat /\ expiries \in Nat /\ lost' \in Nat /\ refused' \in Nat /\ expiries' \in Nat
  BY TypeStep DEF TypeOK
<1> HIDE DEF TypeOK, Next
<1>14. QED
  BY <1>12, <1>13 DEF Excused

\* One exchange moves on.
LEMMA OutcomesMove ==
    ASSUME TypeOK, TypeOK', OutcomesOK, NEW t \in Callers, NEW x, net' = [net EXCEPT ![t] = x],
           lost' >= lost, refused' >= refused,
           x.st \in {"lost", "cancelled", "garbled"} => lost' > 0,
           x.st \in {"busy", "fault"} => refused' > 0,
           x.st = "invalid" => x.kind = "refresh",
           x.st = "unauth" => x.kind = "api"
    PROVE  OutcomesOK'
<1>1. lost \in Nat /\ lost' \in Nat /\ refused \in Nat /\ refused' \in Nat
  BY DEF TypeOK
<1>2. net'[t] = x /\ \A u \in Callers : u # t => net'[u] = net[u]
  BY DEF TypeOK
<1>3. QED
  BY <1>1, <1>2 DEF OutcomesOK

LEMMA OutcomesStep ==
    ASSUME TypeOK, TypeOK', OutcomesOK, ExchangesOK, [Next]_vars PROVE OutcomesOK'
<1> DEFINE fits(t, x) ==
        /\ net' = [net EXCEPT ![t] = x]
        /\ x.st \in {"lost", "cancelled", "garbled"} => lost' > 0
        /\ x.st \in {"busy", "fault"} => refused' > 0
        /\ x.st = "invalid" => x.kind = "refresh"
        /\ x.st = "unauth" => x.kind = "api"
<1>1. lost' >= lost /\ refused' >= refused /\ lost \in Nat /\ refused \in Nat
  BY ExcusedStays DEF TypeOK
<1>2. CASE UNCHANGED net
  BY <1>1, <1>2 DEF OutcomesOK, TypeOK
<1>3. \A t \in Callers : \A x : fits(t, x) => OutcomesOK'
  BY <1>1, OutcomesMove
<1>4. ASSUME NEW t \in Callers, ExecDone(t) \/ RefreshOk(t) \/ RefreshDeauth(t) \/ RefreshFail(t)
      PROVE  fits(t, NoExchange)
  BY <1>4 DEF ExecDone, RefreshOk, RefreshDeauth, RefreshFail, NoExchange
<1>5. ASSUME NEW t \in Callers, ExecSend(t) PROVE fits(t, Request("api", acc))
  BY <1>5 DEF ExecSend, Request
<1>6. ASSUME NEW t \in Callers, RefreshSend(t) PROVE fits(t, Request("refresh", ref))
  BY <1>6 DEF RefreshSend, Request
<1>7. ASSUME NEW t \in Callers, Retry(t) PROVE fits(t, Resend(net[t]))
  BY <1>7 DEF Retry, Resend, TypeOK
<1>8. ASSUME NEW t \in Callers, Lose(t) \/ Delay(t) PROVE \E x : fits(t, x)
  <2>1. PICK st \in {"lost", "cancelled"} : net' = [net EXCEPT ![t] = Outcome(net[t], st, NoTok)]
    BY <1>8 DEF Lose, Delay, TypeOK
  <2>2. lost' > 0
    BY <1>1, <1>8 DEF Lose, Delay, Break
  <2>3. fits(t, Outcome(net[t], st, NoTok))
    BY <2>1, <2>2 DEF Outcome
  <2> HIDE DEF fits
  <2>4. QED
    BY <2>3
<1>9. ASSUME NEW t \in Callers, Garble(t) PROVE fits(t, Outcome(net[t], "garbled", NoTok))
  BY <1>1, <1>9 DEF Garble, Break, Outcome, TypeOK
<1>10. ASSUME NEW t \in Callers, Refuse(t) PROVE \E x : fits(t, x)
  <2>1. PICK st \in {"busy", "fault"} : net' = [net EXCEPT ![t] = Outcome(net[t], st, NoTok)]
    BY <1>10 DEF Refuse, TypeOK
  <2>2. refused' > 0
    BY <1>1, <1>10 DEF Refuse
  <2>3. fits(t, Outcome(net[t], st, NoTok))
    BY <2>1, <2>2 DEF Outcome
  <2> HIDE DEF fits
  <2>4. QED
    BY <2>3
<1>11. ASSUME NEW t \in Callers, ServeApi(t)
       PROVE  \E x : fits(t, x)
  <2>1. PICK st \in {"ok", "unauth"} : net' = [net EXCEPT ![t] = Outcome(net[t], st, NoTok)]
    BY <1>11 DEF ServeApi, TypeOK
  <2>2. net[t].kind = "api"
    BY <1>11 DEF ServeApi
  <2>3. fits(t, Outcome(net[t], st, NoTok))
    BY <2>1, <2>2 DEF Outcome
  <2> HIDE DEF fits
  <2>4. QED
    BY <2>3
<1>12. ASSUME NEW t \in Callers, ServeRefresh(t)
       PROVE  \E x : fits(t, x)
  <2>1. \/ net' = [net EXCEPT ![t] = Outcome(net[t], "ok", AfterRefresh(session).ref)]
        \/ net' = [net EXCEPT ![t] = Outcome(net[t], "invalid", NoTok)]
    BY <1>12 DEF ServeRefresh, TypeOK
  <2>2. net[t].kind = "refresh"
    BY <1>12 DEF ServeRefresh
  <2>3. \/ fits(t, Outcome(net[t], "ok", AfterRefresh(session).ref))
        \/ fits(t, Outcome(net[t], "invalid", NoTok))
    BY <2>1, <2>2 DEF Outcome
  <2> HIDE DEF fits
  <2>4. QED
    BY <2>3
<1> HIDE DEF fits
<1>13. QED
  BY <1>2, <1>3, <1>4, <1>5, <1>6, <1>7, <1>8, <1>9, <1>10, <1>11, <1>12
     DEF Next, Caller, Serve, Network, Adder, Closer, Call, ExecLock,
         Leave, RefreshAnnounce, RefreshHook, RefreshUnlock,
         AddAnnounce, AddAuthHandler, AddDeauthHandler, AddRequestHook,
         CloseAnnounce, CloseTokens, CloseHookAnnounce, CloseHandlers, ServeLimbo, Expire, Revoke,
         Registered, vars, clientVars, netVars, serverVars

\* A call fails when its last request ended badly, and not for a first 401.
LEMMA FailuresStep ==
    ASSUME IInv, TypeOK', OutcomesOK, FailuresOK, RefreshesOK, [Next]_vars PROVE FailuresOK'
<1>1. (Excused => Excused') /\ TypeOK
  BY ExcusedStays DEF IInv
<1>2. ASSUME NEW t \in Callers, pc'[t] = "failed" => pc[t] = "failed", result'[t] = "error" => result[t] = "error"
      PROVE  pc'[t] = "failed" \/ result'[t] = "error" => Excused'
  BY <1>1, <1>2 DEF FailuresOK
<1>3. ASSUME NEW t \in Callers, ExecDone(t), net[t].st # "ok", ~(net[t].st = "unauth" /\ ~second[t])
      PROVE  Excused
  <2>1. net[t].kind = "api" /\ net[t].st \in Answers
    BY <1>3 DEF ExecDone, Finished, IInv, ExchangesOK, Fits
  <2>2. CASE net[t].st = "unauth"
    BY <1>3, <2>2 DEF RefreshesOK
  <2>3. CASE net[t].st # "unauth"
    BY <1>3, <2>1, <2>3 DEF OutcomesOK, Answers, Excused
  <2>4. QED
    BY <2>2, <2>3
<1>4. ASSUME NEW t \in Callers, RefreshDeauth(t) PROVE Excused
  <2>1. net[t].kind = "refresh" /\ net[t].st = "invalid"
    BY <1>4 DEF RefreshDeauth, Deauths, IInv, ExchangesOK, Fits
  <2>2. QED
    BY <1>1, <2>1 DEF IInv, SessionOK, Excused, TypeOK
<1>5. ASSUME NEW t \in Callers, RefreshFail(t) PROVE Excused
  <2>1. net[t].kind = "refresh" /\ net[t].st \in Answers /\ net[t].st \notin {"ok", "invalid"}
    BY <1>5 DEF RefreshFail, Deauths, Finished, IInv, ExchangesOK, Fits
  <2>2. QED
    BY <2>1 DEF OutcomesOK, Answers, Excused
<1>6. ASSUME NEW t \in Callers, RefreshUnlock(t), pc[t] = "failed" PROVE Excused
  BY <1>6 DEF FailuresOK
<1>7. CASE Excused
  BY <1>1, <1>7 DEF FailuresOK
<1>8. CASE ~Excused
  <2> SUFFICES ASSUME NEW t \in Callers
               PROVE  (pc'[t] = "failed" => pc[t] = "failed") /\ (result'[t] = "error" => result[t] = "error")
    BY <1>2 DEF FailuresOK
  <2>1. CASE UNCHANGED <<pc, result>>
    BY <2>1
  <2>2. ASSUME NEW u \in Threads, NEW p, p # "failed", pc' = [pc EXCEPT ![u] = p], UNCHANGED result
        PROVE  (pc'[t] = "failed" => pc[t] = "failed") /\ (result'[t] = "error" => result[t] = "error")
    BY <1>1, <2>2 DEF TypeOK
  <2>3. ASSUME NEW u \in Callers, Call(u)
        PROVE  (pc'[t] = "failed" => pc[t] = "failed") /\ (result'[t] = "error" => result[t] = "error")
    BY <1>1, <2>3 DEF TypeOK, Call, Threads
  <2>4. ASSUME NEW u \in Callers, ExecDone(u)
        PROVE  (pc'[t] = "failed" => pc[t] = "failed") /\ (result'[t] = "error" => result[t] = "error")
    <3>1. net[u].st = "ok" \/ (net[u].st = "unauth" /\ ~second[u])
      BY <1>3, <1>8, <2>4
    <3>2. \/ pc' = [pc EXCEPT ![u] = "refresh"] /\ UNCHANGED result
          \/ pc' = [pc EXCEPT ![u] = "leave"] /\ result' = [result EXCEPT ![u] = "ok"]
      BY <2>4, <3>1 DEF ExecDone
    <3>3. QED
      BY <1>1, <3>2 DEF TypeOK, Threads
  <2>5. ASSUME NEW u \in Callers, RefreshUnlock(u)
        PROVE  (pc'[t] = "failed" => pc[t] = "failed") /\ (result'[t] = "error" => result[t] = "error")
    <3>1. pc' = [pc EXCEPT ![u] = "exec"] /\ UNCHANGED result
      BY <1>6, <1>8, <2>5 DEF RefreshUnlock
    <3>2. QED
      BY <1>1, <3>1 DEF TypeOK, Threads
  <2>6. QED
    BY <1>4, <1>5, <1>8, <2>1, <2>2, <2>3, <2>4, <2>5
     DEF Next, Caller, Serve, Network, Adder, Closer, ExecLock,
         ExecSend, Leave, RefreshAnnounce, RefreshHook, RefreshSend,
         RefreshOk, Retry, Lose, Delay, Garble,
         Refuse, ServeApi, ServeRefresh, AddAnnounce, AddAuthHandler,
         AddDeauthHandler, AddRequestHook, CloseAnnounce, CloseTokens, CloseHookAnnounce,
         CloseHandlers, ServeLimbo, Expire, Revoke, Registered, vars,
         clientVars, netVars, serverVars, Threads
<1>9. QED
  BY <1>7, <1>8

LEMMA RefreshesStep ==
    ASSUME IInv, IInv', FailInv, OutcomesOK', FailuresOK', [Next]_vars PROVE RefreshesOK'
<1> SUFFICES ASSUME ~Excused'
             PROVE  /\ acc' = ref'
                    /\ session'.old \/ session'.acc = session'.ref
                    /\ session'.old => expiries' > 0
                    /\ \A t \in Callers :
                          /\ pc'[t] \in RefreshPCs \/ net'[t].st = "unauth" => expiries' > 0
                          /\ second'[t] \/ (net'[t].kind = "refresh" /\ net'[t].st = "ok") => Renewed'
                          /\ second'[t] => net'[t].st # "unauth"
  BY DEF RefreshesOK
<1> DEFINE Goal == /\ acc' = ref'
                   /\ session'.old \/ session'.acc = session'.ref
                   /\ session'.old => expiries' > 0
           Mine(t) == /\ pc'[t] \in RefreshPCs \/ net'[t].st = "unauth" => expiries' > 0
                      /\ second'[t] \/ (net'[t].kind = "refresh" /\ net'[t].st = "ok") => Renewed'
                      /\ second'[t] => net'[t].st # "unauth"
           All == \A t \in Callers : Mine(t)
<1>1. TypeOK /\ TypeOK' /\ ~Excused
  BY ExcusedStays DEF IInv
<1>2. /\ lost = 0 /\ lost' = 0 /\ refused = 0 /\ refused' = 0 /\ uid /\ uid'
      /\ session.live /\ session'.live /\ expiries \in {0, 1} /\ expiries' \in {0, 1}
  BY <1>1 DEF Excused, TypeOK
<1>3. /\ acc = ref
      /\ session.old \/ session.acc = session.ref
      /\ session.old => expiries > 0
      /\ \A t \in Callers :
            /\ pc[t] \in RefreshPCs \/ net[t].st = "unauth" => expiries > 0
            /\ second[t] \/ (net[t].kind = "refresh" /\ net[t].st = "ok") => Renewed
            /\ second[t] => net[t].st # "unauth"
  BY <1>1 DEF FailInv, RefreshesOK
<1>4. ASSUME UNCHANGED <<acc, ref, session, expiries>> PROVE Goal /\ (Renewed => Renewed')
  BY <1>3, <1>4 DEF Renewed
<1>5. ASSUME UNCHANGED <<acc, ref, session, expiries, net, second>>,
             \A t \in Callers : pc'[t] \in RefreshPCs => pc[t] \in RefreshPCs
      PROVE  Goal /\ All
  BY <1>3, <1>4, <1>5
<1>6. ASSUME NEW t \in Callers, UNCHANGED <<acc, ref, session, expiries>>,
             \A u \in Callers : u # t => UNCHANGED <<pc[u], net[u], second[u]>>,
             Mine(t)
      PROVE  Goal /\ All
  <2>1. Goal /\ (Renewed => Renewed')
    BY <1>4, <1>6
  <2>2. ASSUME NEW u \in Callers PROVE Mine(u)
    BY <1>3, <1>6, <2>1
  <2>3. QED
    BY <2>1, <2>2
<1>7. ASSUME NEW u \in Threads, NEW p, p \notin RefreshPCs, pc' = [pc EXCEPT ![u] = p],
             UNCHANGED <<acc, ref, session, expiries, net, second>>
      PROVE  Goal /\ All
  BY <1>1, <1>5, <1>7 DEF TypeOK
<1>8. ASSUME NEW t \in Callers, Call(t) PROVE Goal /\ All
  <2>1. UNCHANGED <<acc, ref, session, expiries>>
    BY <1>8 DEF Call, clientVars, serverVars
  <2>2. \A u \in Callers : u # t => UNCHANGED <<pc[u], net[u], second[u]>>
    BY <1>1, <1>8 DEF Call, TypeOK, Threads, netVars
  <2>3. Mine(t)
    BY <1>1, <1>3, <1>8, <2>1 DEF Call, TypeOK, Threads, RefreshPCs, Renewed, netVars
  <2> HIDE DEF Goal, Mine
  <2>4. QED
    BY <1>6, <2>1, <2>2, <2>3
<1>9. ASSUME NEW t \in Callers, ExecSend(t) PROVE Goal /\ All
  <2>1. UNCHANGED <<acc, ref, session, expiries>>
    BY <1>9 DEF ExecSend, clientVars, serverVars
  <2>2. \A u \in Callers : u # t => UNCHANGED <<pc[u], net[u], second[u]>>
    BY <1>1, <1>9 DEF ExecSend, TypeOK, Threads, netVars
  <2>3. Mine(t)
    BY <1>1, <1>3, <1>9, <2>1 DEF ExecSend, TypeOK, Threads, RefreshPCs, Renewed, netVars, Request
  <2> HIDE DEF Goal, Mine
  <2>4. QED
    BY <1>6, <2>1, <2>2, <2>3
<1>10. ASSUME NEW t \in Callers, ExecDone(t) PROVE Goal /\ All
  <2>1. UNCHANGED <<acc, ref, session, expiries>>
    BY <1>10 DEF ExecDone, clientVars, serverVars
  <2>2. \A u \in Callers : u # t => UNCHANGED <<pc[u], net[u], second[u]>>
    BY <1>1, <1>10 DEF ExecDone, TypeOK, Threads, netVars
  <2>3. Mine(t)
    BY <1>1, <1>3, <1>10, <2>1 DEF ExecDone, TypeOK, Threads, RefreshPCs, Renewed, netVars, NoExchange
  <2> HIDE DEF Goal, Mine
  <2>4. QED
    BY <1>6, <2>1, <2>2, <2>3
<1>11. ASSUME NEW t \in Callers, RefreshAnnounce(t) \/ RefreshHook(t) PROVE Goal /\ All
  <2>1. UNCHANGED <<acc, ref, session, expiries>>
    BY <1>11 DEF RefreshAnnounce, RefreshHook, clientVars, serverVars
  <2>2. \A u \in Callers : u # t => UNCHANGED <<pc[u], net[u], second[u]>>
    BY <1>1, <1>11 DEF RefreshAnnounce, RefreshHook, TypeOK, Threads, netVars
  <2>3. Mine(t)
    BY <1>1, <1>3, <1>11, <2>1 DEF RefreshAnnounce, RefreshHook, TypeOK, Threads, RefreshPCs, Renewed, netVars
  <2> HIDE DEF Goal, Mine
  <2>4. QED
    BY <1>6, <2>1, <2>2, <2>3
<1>12. ASSUME NEW t \in Callers, RefreshSend(t) PROVE Goal /\ All
  <2>1. UNCHANGED <<acc, ref, session, expiries>>
    BY <1>12 DEF RefreshSend, clientVars, serverVars
  <2>2. \A u \in Callers : u # t => UNCHANGED <<pc[u], net[u], second[u]>>
    BY <1>1, <1>12 DEF RefreshSend, TypeOK, Threads, netVars
  <2>3. Mine(t)
    BY <1>1, <1>3, <1>12, <2>1 DEF RefreshSend, TypeOK, Threads, RefreshPCs, Renewed, netVars, Request
  <2> HIDE DEF Goal, Mine
  <2>4. QED
    BY <1>6, <2>1, <2>2, <2>3
<1>13. ASSUME NEW t \in Callers, RefreshOk(t) PROVE Goal /\ All
  <2>1. Renewed /\ Renewed' /\ acc' = ref' /\ UNCHANGED <<session, expiries>>
    BY <1>3, <1>13 DEF RefreshOk, StoreAuth, serverVars, Renewed, IInv, ExchangesOK, Fits
  <2>2. net'[t] = NoExchange /\ expiries' > 0 /\ \A u \in Callers : u # t => UNCHANGED <<pc[u], net[u], second[u]>>
    BY <1>1, <1>13, <2>1 DEF RefreshOk, TypeOK, Threads, Renewed
  <2>3. QED
    BY <1>3, <2>1, <2>2 DEF NoExchange
<1>14. ASSUME NEW t \in Callers, RefreshDeauth(t) \/ RefreshFail(t) PROVE FALSE
  <2>1. pc'[t] = "failed"
    BY <1>1, <1>14 DEF RefreshDeauth, RefreshFail, TypeOK, Threads
  <2>2. QED
    BY <2>1 DEF FailuresOK
<1>15. ASSUME NEW t \in Callers, Retry(t) PROVE Goal /\ All
  <2>1. UNCHANGED <<acc, ref, session, expiries>>
    BY <1>15 DEF Retry, clientVars, serverVars
  <2>2. \A u \in Callers : u # t => UNCHANGED <<pc[u], net[u], second[u]>>
    BY <1>1, <1>15 DEF Retry, TypeOK, Threads, netVars
  <2>3. Mine(t)
    BY <1>1, <1>3, <1>15, <2>1 DEF Retry, TypeOK, Threads, RefreshPCs, Renewed, netVars, Resend
  <2> HIDE DEF Goal, Mine
  <2>4. QED
    BY <1>6, <2>1, <2>2, <2>3
<1>16. ASSUME NEW t \in Callers, Network(t) PROVE FALSE
  BY <1>2, <1>16 DEF Network, Lose, Delay, Garble, Break, Refuse
<1>17. ASSUME NEW t \in Callers, ServeApi(t) PROVE Goal /\ All
  <2>1. /\ net[t].kind = "api" /\ net[t].cred = [uid |-> uid, tok |-> acc]
        /\ UNCHANGED <<acc, ref, expiries, pc, second>>
    BY <1>17 DEF ServeApi, IInv, CarriesCurrentTokens, clientVars
  <2>2. ~AuthOnItsWay
    <3>1. RefreshIsAlone /\ ExchangesOK
      BY Alone DEF IInv
    <3>2. QED
      BY <2>1, <3>1 DEF AuthOnItsWay, RefreshIsAlone, ExchangesOK, Fits
  <2>3. acc = session.ref /\ acc # NoTok
    BY <1>2, <1>3, <2>2 DEF IInv, SessionOK, ClosedOK
  <2>4. ~session.old => VerifyOK(session, net[t].cred)
    BY <1>2, <1>3, <2>1, <2>3 DEF VerifyOK
  <2>5. /\ session'.old = session.old /\ session'.ref = session.ref
        /\ ~session.old => session'.acc = session.acc
    BY <1>1, <1>17 DEF ServeApi, AfterVerify, TypeOK, Sessions
  <2>6. Goal /\ (Renewed => Renewed')
    BY <1>3, <2>1, <2>5 DEF Renewed
  <2>7. /\ net'[t].kind = "api" /\ net'[t].st \in {"ok", "unauth"}
        /\ net'[t].st = "unauth" => session.old
        /\ \A u \in Callers : u # t => net'[u] = net[u]
    BY <1>1, <1>17, <2>1, <2>4 DEF ServeApi, Outcome, TypeOK
  <2>8. Mine(t)
    BY <1>3, <2>1, <2>6, <2>7 DEF Renewed
  <2>9. QED
    BY <1>3, <2>1, <2>6, <2>7, <2>8
<1>18. ASSUME NEW t \in Callers, ServeRefresh(t) PROVE Goal /\ All
  <2>1. net[t].kind = "refresh" /\ expiries > 0 /\ UNCHANGED <<acc, ref, expiries, pc, second>>
    BY <1>3, <1>18 DEF ServeRefresh, IInv, ExchangesOK, Fits, RefreshPCs, clientVars
  <2>2. \/ UNCHANGED session
        \/ ~session'.old /\ session'.acc = session'.ref
    BY <1>18 DEF ServeRefresh, AfterRefresh
  <2>3. /\ net'[t].kind = "refresh" /\ net'[t].st \in {"ok", "invalid"}
        /\ net'[t].st = "ok" => ~session'.old
        /\ \A u \in Callers : u # t => net'[u] = net[u]
    BY <1>1, <1>18, <2>1 DEF ServeRefresh, Outcome, TypeOK, AfterRefresh
  <2>4. Goal /\ (Renewed => Renewed')
    BY <1>3, <2>1, <2>2 DEF Renewed
  <2>5. Mine(t)
    BY <1>3, <2>1, <2>3, <2>4 DEF Renewed
  <2>6. QED
    BY <1>3, <2>1, <2>3, <2>4, <2>5
<1>19. ASSUME ServeLimbo PROVE FALSE
  BY <1>2, <1>19 DEF ServeLimbo, IInv, SessionOK
<1>20. ASSUME Expire PROVE Goal /\ All
  <2>1. expiries = 0 /\ expiries' = 1 /\ session'.old /\ UNCHANGED <<acc, ref, pc, net, second>>
    BY <1>1, <1>2, <1>20 DEF Expire, TypeOK, Sessions, clientVars, netVars
  <2>2. ~Renewed
    BY <2>1 DEF Renewed
  <2>3. QED
    BY <1>3, <2>1, <2>2
<1>21. ASSUME Revoke PROVE FALSE
  BY <1>1, <1>2, <1>21 DEF Revoke, AfterDelete, TypeOK, Sessions
<1>22. ASSUME NEW t \in Closers, CloseTokens(t) PROVE FALSE
  BY <1>2, <1>22 DEF CloseTokens
<1> HIDE DEF Goal, All
<1>23. Goal /\ All
  BY <1>5, <1>7, <1>8, <1>9, <1>10, <1>11, <1>12, <1>13, <1>14, <1>15, <1>16, <1>17, <1>18, <1>19, <1>20, <1>21, <1>22
     DEF Next, Caller, Serve, Adder, Closer, ExecLock, Leave, RefreshUnlock,
         AddAnnounce, AddAuthHandler, AddDeauthHandler, AddRequestHook,
         CloseAnnounce, CloseHookAnnounce, CloseHandlers, Registered, vars,
         clientVars, netVars, serverVars, Threads, RefreshPCs
<1>24. QED
  BY <1>23 DEF Goal, All

LEMMA FailInit == Init => FailInv
<1> SUFFICES ASSUME Init PROVE FailInv
  OBVIOUS
<1>1. \A t \in Callers : pc[t] = "idle" /\ result[t] = "none" /\ ~second[t] /\ net[t] = NoExchange
  BY DEF Init, Threads
<1>2. OutcomesOK /\ FailuresOK
  BY <1>1 DEF OutcomesOK, FailuresOK, NoExchange
<1>3. RefreshesOK
  BY <1>1 DEF Init, RefreshesOK, NoExchange, NewSession, RefreshPCs
<1>4. QED
  BY <1>2, <1>3 DEF FailInv

LEMMA FailStep == IInv /\ IInv' /\ FailInv /\ [Next]_vars => FailInv'
<1> SUFFICES ASSUME IInv, IInv', FailInv, [Next]_vars PROVE FailInv'
  OBVIOUS
<1>1. OutcomesOK'
  BY OutcomesStep DEF IInv, FailInv
<1>2. FailuresOK'
  BY FailuresStep DEF IInv, FailInv
<1>3. RefreshesOK'
  BY <1>1, <1>2, RefreshesStep
<1>4. QED
  BY <1>1, <1>2, <1>3 DEF FailInv

\* A call fails only for the network's sake, the server's, or the session's:
\* a goroutine that finds the tokens refreshed by another is served.
THEOREM FailuresHaveAReason == Spec => []CallsFailForAReason
<1>1. FailInv => CallsFailForAReason
  BY DEF FailInv, FailuresOK, CallsFailForAReason, Excused
<1>2. Spec => []FailInv
  BY FailInit, FailStep, Invariance, PTL DEF Spec
<1>3. QED
  BY <1>1, <1>2, PTL

==============================================================================
