--------------------------- MODULE DcsLockProofs ---------------------------
(***************************************************************************)
(* What the DCS lock guarantees for every number of threads, processes and *)
(* DTCs: mutual exclusion on every DTC whose lock nobody forced and that   *)
(* nobody entered on the lock of another one, and that the library half is *)
(* not lost in a process with a single thread.                             *)
(***************************************************************************)
EXTENDS DcsLock, TLAPS

LEMMA TypeInit == Init => TypeOK
<1> SUFFICES ASSUME Init PROVE TypeOK
  OBVIOUS
<1>1. drvLock \in [Dtc -> BOOLEAN]
  BY Zenon DEF Init
<1> QED
  BY <1>1, LockConstants DEF Init, TypeOK

LEMMA TypeStep == TypeOK /\ [Next]_vars => TypeOK'
<1> SUFFICES ASSUME TypeOK, [Next]_vars PROVE TypeOK'
  OBVIOUS
<1>1. ASSUME NEW t \in Thread, Call(t) PROVE TypeOK'
  <2>1. CASE LibStore(t)
    BY <2>1, LockConstants DEF TypeOK, LibStore, goto, sameCall
  <2>2. CASE LibClear(t)
    BY <2>2, LockConstants DEF TypeOK, LibClear, goto, sameCall
  <2>3. CASE End(t)
    BY <2>3, LockConstants DEF TypeOK, End, goto, sameCall
  <2>4. CASE DrvLock(t)
    BY <2>4, LockConstants DEF TypeOK, DrvLock, goto, sameCall
  <2>5. CASE LibFree(t) \/ LibTimeout(t) \/ DrvAgain(t) \/ DrvTimeout(t)
    BY <2>5 DEF TypeOK, LibFree, LibTimeout, DrvAgain, DrvTimeout, goto, vars, sameCall
  <2> QED
    BY <1>1, <2>1, <2>2, <2>3, <2>4, <2>5 DEF Call
<1>2. ASSUME NEW t \in Thread, Begin(t) \/ Refused(t) \/ Abandon(t) \/ Destroy(t)
      PROVE TypeOK'
  BY <1>2 DEF TypeOK, Begin, callOn, Refused, Abandon, Destroy, goto, sameCall
<1>3. ASSUME NEW p \in Process, Restart(p) PROVE TypeOK'
  BY <1>3, LockConstants DEF TypeOK, Restart
<1>4. CASE UNCHANGED vars
  BY <1>4 DEF TypeOK, vars
<1> QED
  BY <1>1, <1>2, <1>3, <1>4 DEF Next

(* In every reachable state the locks and the threads' positions have      *)
(* their types, and a library half names only a thread of its process.     *)
THEOREM TypeCorrect == Spec => []TypeOK
  BY TypeInit, TypeStep, PTL DEF Spec

-----------------------------------------------------------------------------
LEMMA SelfStep == TypeOK /\ NoSelfWait /\ [Next]_vars => NoSelfWait'
<1> SUFFICES ASSUME TypeOK, NoSelfWait, [Next]_vars PROVE NoSelfWait'
  OBVIOUS
<1>1. ASSUME NEW t \in Thread, Call(t) PROVE NoSelfWait'
  <2>1. CASE LibStore(t)
    BY <2>1, LockConstants DEF TypeOK, NoSelfWait, LibStore, goto, owns
  <2>2. CASE LibClear(t)
    BY <2>2, LockConstants DEF TypeOK, NoSelfWait, LibClear, goto, owns
  <2>3. CASE End(t)
    BY <2>3 DEF TypeOK, NoSelfWait, End, goto, owns
  <2>4. CASE LibFree(t) \/ LibTimeout(t) \/ DrvLock(t) \/ DrvAgain(t) \/ DrvTimeout(t)
    BY <2>4 DEF TypeOK, NoSelfWait, LibFree, LibTimeout, DrvLock, DrvAgain, DrvTimeout,
         goto, owns, vars
  <2> QED
    BY <1>1, <2>1, <2>2, <2>3, <2>4 DEF Call
<1>2. ASSUME NEW t \in Thread, Begin(t) \/ Refused(t) \/ Abandon(t) \/ Destroy(t)
      PROVE NoSelfWait'
  BY <1>2 DEF TypeOK, NoSelfWait, Begin, callOn, alreadyHeld, Refused, Abandon, Destroy, goto, owns
<1>3. ASSUME NEW p \in Process, Restart(p) PROVE NoSelfWait'
  BY <1>3, LockConstants DEF TypeOK, NoSelfWait, Restart, owns
<1>4. CASE UNCHANGED vars
  BY <1>4 DEF NoSelfWait, owns, vars
<1> QED
  BY <1>1, <1>2, <1>3, <1>4 DEF Next

(* begin_dcs_transaction never waits for a lock the calling thread owns.   *)
THEOREM NestsSafely == Spec => []NoSelfWait
<1>1. Init => NoSelfWait
  BY DEF Init, NoSelfWait
<1> QED
  BY TypeCorrect, SelfStep, <1>1, PTL DEF Spec

-----------------------------------------------------------------------------
(* Mutual exclusion, for one DTC.  A step that lets nobody in to it and    *)
(* leaves its driver flag alone preserves it.                              *)
LEMMA NobodyEnters ==
  ASSUME NEW d, Excluded(d), drvLock'[d] = drvLock[d],
         \A t \in Thread : Inside(t, d)' => Inside(t, d)
  PROVE  Excluded(d)'
  BY DEF Excluded

\* Once the lock of a DTC has been spoiled it stays so.
LEMMA SpoiledStays == [Next]_vars => spoiled \subseteq spoiled'
  BY DEF Next, Call, vars, sameCall, Begin, callOn, LibFree, LibTimeout, DrvLock, DrvAgain,
       LibStore, DrvTimeout, End, LibClear, Refused, Abandon, Destroy, Restart

LEMMA ForcingStep == TypeOK /\ ForcingSpoils /\ [Next]_vars => ForcingSpoils'
<1> SUFFICES ASSUME TypeOK, ForcingSpoils, [Next]_vars, NEW t \in Thread, pc'[t] = "force"
             PROVE  dtc'[t] \in spoiled'
  BY DEF ForcingSpoils
<1>1. CASE DrvTimeout(t)
  BY <1>1 DEF DrvTimeout
<1>2. CASE ~DrvTimeout(t)
  <2>1. pc[t] = "force" /\ dtc'[t] = dtc[t]
    BY <1>2 DEF TypeOK, Next, Call, vars, goto, sameCall, Begin, callOn, LibFree, LibTimeout,
         DrvLock, DrvAgain, LibStore, DrvTimeout, End, LibClear, Refused, Abandon, Destroy, Restart
  <2> QED
    BY <2>1, SpoiledStays DEF ForcingSpoils
<1> QED
  BY <1>1, <1>2

\* A thread that makes a call on its object for d is inside d only if it
\* already was, unless it spoils d.
LEMMA CallsOn ==
  ASSUME TypeOK, NEW t \in Thread, NEW e \in Dtc, callOn(t, e), libLock' = libLock,
         \/ pc' = [pc EXCEPT ![t] = "dtor"]
         \/ pc' = [pc EXCEPT ![t] = IF owns(t) THEN "in" ELSE "lib"],
         NEW d \in Dtc, d \notin spoiled', NEW u \in Thread, Inside(u, d)'
  PROVE  Inside(u, d)
<1>1. CASE u # t
  BY <1>1 DEF TypeOK, callOn, Inside, owns
<1>2. CASE u = t
  <2>1. d = e /\ owns(t)
    BY <1>2 DEF TypeOK, callOn, Inside, owns
  <2>2. e = dtc[t]
    BY <2>1 DEF callOn
  <2> QED
    BY <1>2, <2>1, <2>2 DEF callOn, Inside
<1> QED
  BY <1>1, <1>2

LEMMA ExclusionStep ==
  ASSUME TypeOK, NoSelfWait, ForcingSpoils, [Next]_vars,
         NEW d \in Dtc, Excluded(d), d \notin spoiled'
  PROVE  Excluded(d)'
<1>0. d \notin spoiled
  BY SpoiledStays
<1>1. ASSUME NEW t \in Thread, LibFree(t) \/ LibTimeout(t) \/ DrvAgain(t) \/ DrvTimeout(t)
      PROVE Excluded(d)'
  <2>1. drvLock' = drvLock /\ \A u \in Thread : Inside(u, d)' => Inside(u, d)
    BY <1>1 DEF TypeOK, NoSelfWait, LibFree, LibTimeout, DrvAgain, DrvTimeout, Inside, goto,
         owns, sameCall, vars
  <2> QED
    BY <2>1, NobodyEnters
<1>2. ASSUME NEW t \in Thread, DrvLock(t) PROVE Excluded(d)'
  <2>1. dtc' = dtc /\ \A u \in Thread : Inside(u, d)' => Inside(u, d) \/ (u = t /\ dtc[t] = d)
    BY <1>2 DEF TypeOK, DrvLock, Inside, goto, owns, sameCall
  <2>2. CASE dtc[t] = d
    <3>1. ~drvLock[d] /\ drvLock'[d]
      BY <1>2, <2>2 DEF DrvLock, drvFree, TypeOK
    <3>2. \A u \in Thread : ~Inside(u, d)
      BY <3>1 DEF Excluded
    <3> QED
      BY <2>1, <3>1, <3>2 DEF Excluded
  <2>3. CASE dtc[t] # d
    <3>1. drvLock'[d] = drvLock[d]
      BY <1>2, <2>3 DEF DrvLock, TypeOK
    <3> QED
      BY <2>1, <2>3, <3>1, NobodyEnters
  <2> QED
    BY <2>2, <2>3
<1>3. ASSUME NEW t \in Thread, LibStore(t) PROVE Excluded(d)'
  <2>1. drvLock' = drvLock /\ \A u \in Thread : Inside(u, d)' => Inside(u, d)
    BY <1>3, LockConstants DEF TypeOK, LibStore, Inside, goto, owns, sameCall
  <2> QED
    BY <2>1, NobodyEnters
<1>4. ASSUME NEW t \in Thread, End(t) PROVE Excluded(d)'
  <2>1. \A u \in Thread : Inside(u, d)' => Inside(u, d)
    BY <1>4 DEF TypeOK, End, Inside, goto, owns, sameCall
  <2>2. CASE ~owns(t) /\ pc[t] # "force"
    <3>1. drvLock' = drvLock
      BY <1>4, <2>2 DEF End, mayRelease
    <3> QED
      BY <2>1, <3>1, NobodyEnters
  <2>3. CASE dtc[t] # d
    <3>1. drvLock'[d] = drvLock[d]
      BY <1>4, <2>3 DEF TypeOK, End
    <3> QED
      BY <2>1, <3>1, NobodyEnters
  <2>4. CASE dtc[t] = d /\ (owns(t) \/ pc[t] = "force")
    <3>1. pc[t] # "force" /\ owns(t)
      BY <1>0, <2>4 DEF ForcingSpoils
    <3>2. Inside(t, d) /\ ~Inside(t, d)'
      BY <1>4, <2>4, <3>1 DEF TypeOK, End, mayRelease, Inside, goto, owns, sameCall
    <3>3. \A u \in Thread : ~Inside(u, d)'
      BY <2>1, <3>2 DEF Excluded
    <3> QED
      BY <3>3 DEF Excluded
  <2> QED
    BY <2>2, <2>3, <2>4
<1>5. ASSUME NEW t \in Thread, LibClear(t) PROVE Excluded(d)'
  <2>1. drvLock' = drvLock /\ \A u \in Thread : Inside(u, d)' => Inside(u, d)
    BY <1>5, LockConstants DEF TypeOK, LibClear, Inside, goto, owns, sameCall
  <2> QED
    BY <2>1, NobodyEnters
<1>6. ASSUME NEW t \in Thread, Begin(t) \/ Destroy(t) PROVE Excluded(d)'
  <2>1. PICK e \in Dtc :
          /\ callOn(t, e) /\ drvLock' = drvLock /\ libLock' = libLock
          /\ \/ pc' = [pc EXCEPT ![t] = "dtor"]
             \/ pc' = [pc EXCEPT ![t] = IF owns(t) THEN "in" ELSE "lib"]
    BY <1>6 DEF Begin, alreadyHeld, Destroy, goto
  <2>2. \A u \in Thread : Inside(u, d)' => Inside(u, d)
    BY <2>1, CallsOn
  <2> QED
    BY <2>1, <2>2, NobodyEnters
<1>7. ASSUME NEW t \in Thread, Refused(t) \/ Abandon(t) PROVE Excluded(d)'
  <2>1. drvLock' = drvLock /\ \A u \in Thread : Inside(u, d)' => Inside(u, d)
    BY <1>7 DEF TypeOK, Refused, Abandon, Inside, goto, owns, sameCall
  <2> QED
    BY <2>1, NobodyEnters
<1>8. ASSUME NEW p \in Process, Restart(p) PROVE Excluded(d)'
  <2>1. drvLock' = drvLock /\ \A u \in Thread : Inside(u, d)' => Inside(u, d)
    BY <1>8, LockConstants DEF TypeOK, Restart, Inside, owns
  <2> QED
    BY <2>1, NobodyEnters
<1>9. CASE UNCHANGED vars
  BY <1>9, NobodyEnters DEF Inside, owns, vars
<1> QED
  BY <1>1, <1>2, <1>3, <1>4, <1>5, <1>6, <1>7, <1>8, <1>9 DEF Next, Call

LEMMA InvStep == IInv /\ [Next]_vars => IInv'
<1> SUFFICES ASSUME IInv, [Next]_vars PROVE IInv'
  OBVIOUS
<1>1. TypeOK' /\ NoSelfWait' /\ ForcingSpoils'
  BY TypeStep, SelfStep, ForcingStep DEF IInv
<1>2. ASSUME NEW d \in Dtc, d \notin spoiled' PROVE Excluded(d)'
  BY <1>2, SpoiledStays, ExclusionStep DEF IInv, MutualExclusion
<1> QED
  BY <1>1, <1>2 DEF IInv, MutualExclusion

(* For every DTC: no two threads are ever in a DCS transaction with it,    *)
(* until somebody forces its lock open or a thread goes ahead on it with   *)
(* the lock of another DTC.                                                *)
THEOREM Exclusion == Spec => [](IInv /\ MutualExclusion)
<1>1. Init => IInv
  <2> SUFFICES ASSUME Init PROVE IInv
    OBVIOUS
  <2>1. \A t \in Thread, d \in Dtc : ~Inside(t, d)
    BY LockConstants DEF Init, Inside, owns
  <2> QED
    BY <2>1, TypeInit DEF Init, IInv, NoSelfWait, ForcingSpoils, MutualExclusion, Excluded
<1>2. IInv => MutualExclusion
  BY DEF IInv
<1> QED
  BY InvStep, <1>1, <1>2, PTL DEF Spec

-----------------------------------------------------------------------------
(* The only thread of a process, once let in, owns the lock until it ends  *)
(* its transaction, even if others force the lock open.                    *)
THEOREM OwnerUntilEnd == Spec => []BeginMeansOwner
<1>1. Init => BeginMeansOwner
  BY DEF Init, BeginMeansOwner
<1>2. TypeOK /\ BeginMeansOwner /\ [Next]_vars => BeginMeansOwner'
  <2> SUFFICES ASSUME TypeOK, BeginMeansOwner, [Next]_vars,
                      NEW t \in Thread, Alone(t), pc'[t] = "in"
               PROVE  owns(t)'
    BY DEF BeginMeansOwner, Alone
  <2>1. ASSUME NEW u \in Thread, Call(u) PROVE owns(t)'
    <3>1. CASE LibStore(u) \/ LibClear(u)
      BY <3>1, LockConstants DEF TypeOK, BeginMeansOwner, Alone, LibStore, LibClear, goto, owns
    <3>2. CASE LibFree(u) \/ LibTimeout(u) \/ DrvLock(u) \/ DrvAgain(u) \/ DrvTimeout(u)
      BY <3>2 DEF TypeOK, BeginMeansOwner, Alone, LibFree, LibTimeout, DrvLock, DrvAgain,
           DrvTimeout, goto, owns, vars
    <3>3. CASE End(u)
      BY <3>3 DEF TypeOK, BeginMeansOwner, Alone, End, goto, owns
    <3> QED
      BY <2>1, <3>1, <3>2, <3>3 DEF Call
  <2>2. ASSUME NEW u \in Thread, Begin(u) \/ Refused(u) \/ Abandon(u) \/ Destroy(u)
        PROVE owns(t)'
    BY <2>2 DEF TypeOK, BeginMeansOwner, Alone, Begin, callOn, alreadyHeld, Refused, Abandon, Destroy,
         goto, owns
  <2>3. ASSUME NEW p \in Process, Restart(p) PROVE owns(t)'
    BY <2>3, LockConstants DEF TypeOK, BeginMeansOwner, Alone, Restart, owns
  <2>4. CASE UNCHANGED vars
    BY <2>4 DEF BeginMeansOwner, Alone, owns, vars
  <2> QED
    BY <2>1, <2>2, <2>3, <2>4 DEF Next
<1> QED
  BY TypeCorrect, <1>1, <1>2, PTL DEF Spec

=============================================================================
