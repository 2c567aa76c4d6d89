------------------------------ MODULE DcsLock ------------------------------
(***************************************************************************)
(* The lock on a DTC's DCS (slow control) channel, which has two halves:   *)
(*                                                                         *)
(*   - the driver's flag mu2e_dcs_locks[dtc], between processes, set and   *)
(*     cleared by the ioctls DCS_LOCK and DCS_RELEASE, with no owner;      *)
(*   - the library's dcs_lock_held_, between the threads of a process: one *)
(*     static variable whatever number of mu2edev objects and DTCs the     *)
(*     process uses, which names the thread that has the lock.             *)
(*                                                                         *)
(* A thread that takes the lock waits for the library half to be free,     *)
(* takes the driver half, and only then stores its name in the library     *)
(* half; one that releases it clears the driver half first.  No wait lasts *)
(* longer than a second, and who waited that long for the driver half      *)
(* clears both.                                                            *)
(*                                                                         *)
(* A thread may work with several DTCs, one object for each, and chooses   *)
(* one at each call.  The library half does not say which of them it is    *)
(* for: a thread that still has it from one DTC (an exception ended the    *)
(* transaction) goes ahead with another one and takes no lock of that.     *)
(*                                                                         *)
(* Every DCS call of mu2edev (read_data, read_release, write_data,         *)
(* release_all) refuses a thread that dcs_lock_held_ does not name.        *)
(***************************************************************************)
EXTENDS Naturals

CONSTANTS Thread, Process, Dtc,
          ProcOf,       \* the process of a thread
          NoThread,     \* NULL_TID
          Impatient,    \* threads that may wait a whole second
          MaxFailures   \* bound: exceptions and deaths of processes

ASSUME LockConstants ==
  /\ ProcOf \in [Thread -> Process]
  /\ NoThread \notin Thread
  /\ Impatient \subseteq Thread
  /\ MaxFailures \in Nat

VARIABLES drvLock,   \* mu2e_dcs_locks, per DTC
          libLock,   \* dcs_lock_held_, per process
          pc,        \* where a thread is
          dtc,       \* the DTC of the object a thread's last call was made on
          failures,
          spoiled    \* history: DTCs whose lock was forced open, or that a
                     \* thread went ahead with on the lock of another DTC

vars == <<drvLock, libLock, pc, dtc, failures, spoiled>>

Init ==
  /\ drvLock = [d \in Dtc |-> FALSE]
  /\ libLock = [p \in Process |-> NoThread]
  /\ pc = [t \in Thread |-> "idle"]
  /\ dtc \in [Thread -> Dtc]
  /\ failures = 0
  /\ spoiled = {}

(* thread_owns_dcs_lock *)
owns(t) == libLock[ProcOf[t]] = t

goto(t, l) == pc' = [pc EXCEPT ![t] = l]

(* Thread t, idle so far, makes a call on its object for d.                *)
callOn(t, d) ==
  /\ pc[t] = "idle"
  /\ dtc' = [dtc EXCEPT ![t] = d]
  /\ spoiled' = IF owns(t) /\ d # dtc[t] THEN spoiled \cup {d} ELSE spoiled
  /\ UNCHANGED failures

(* ... and goes on with it.                                                *)
sameCall == UNCHANGED <<dtc, failures, spoiled>>

-----------------------------------------------------------------------------
(* begin_dcs_transaction.  A thread that owns the lock goes ahead; another *)
(* one first waits for the library half to be free ...                     *)
alreadyHeldByAny(t, d) == libLock[ProcOf[t]] # NoThread  \* mutant: by any thread
alreadyHeldNever(t, d) == FALSE                          \* mutant: not nestable
alreadyHeldInDriver(t, d) == drvLock[d]                  \* mutant: by anybody
alreadyHeld(t, d) == owns(t)                             \* for whatever DTC

Begin(t) ==
  \E d \in Dtc :
    /\ callOn(t, d)
    /\ goto(t, IF alreadyHeld(t, d) THEN "in" ELSE "lib")
    /\ UNCHANGED <<drvLock, libLock>>

LibFree(t) ==
  /\ pc[t] = "lib"
  /\ libLock[ProcOf[t]] = NoThread \/ owns(t)
  /\ goto(t, "drv")
  /\ UNCHANGED <<drvLock, libLock>> /\ sameCall

libTimesOutNever(t) == FALSE      \* mutant: waits without a limit
libTimesOut(t) == t \in Impatient

(* ... and throws if that took a second.                                   *)
LibTimeout(t) ==
  /\ pc[t] = "lib"
  /\ libTimesOut(t)
  /\ goto(t, "idle")
  /\ UNCHANGED <<drvLock, libLock>> /\ sameCall

(* Then it asks the driver, again and again while the answer is EAGAIN.    *)
drvFree(d) == ~drvLock[d]

DrvLock(t) ==
  /\ pc[t] = "drv"
  /\ drvFree(dtc[t])
  /\ drvLock' = [drvLock EXCEPT ![dtc[t]] = TRUE]
  /\ goto(t, "got")
  /\ UNCHANGED libLock /\ sameCall

DrvAgain(t) ==
  /\ pc[t] = "drv"
  /\ ~drvFree(dtc[t])
  /\ UNCHANGED vars

(* With the driver half taken, the library half is stored over whatever    *)
(* it holds by now.                                                        *)
LibStore(t) ==
  /\ pc[t] = "got"
  /\ libLock' = [libLock EXCEPT ![ProcOf[t]] = t]
  /\ goto(t, "in")
  /\ UNCHANGED drvLock /\ sameCall

(* A second without success: force the lock open, then throw.              *)
DrvTimeout(t) ==
  /\ pc[t] = "drv"
  /\ t \in Impatient
  /\ goto(t, "force")
  /\ spoiled' = spoiled \cup {dtc[t]}
  /\ UNCHANGED <<drvLock, libLock, dtc, failures>>

-----------------------------------------------------------------------------
(* end_dcs_transaction(force): at the end of a transaction ("in") and in   *)
(* the destructors ("dtor") without force.  The driver half is cleared     *)
(* first, whoever set it, and the library half after it.                   *)
mayReleaseOwn(t, force) == owns(t)        \* mutant: force is ignored
mayRelease(t, force) == force \/ owns(t)

End(t) ==
  /\ pc[t] \in {"in", "dtor", "force"}
  /\ IF mayRelease(t, pc[t] = "force")
     THEN /\ drvLock' = [drvLock EXCEPT ![dtc[t]] = FALSE]
          /\ goto(t, "rel")
     ELSE /\ goto(t, "idle")
          /\ UNCHANGED drvLock
  /\ UNCHANGED libLock /\ sameCall

LibClear(t) ==
  /\ pc[t] = "rel"
  /\ libLock' = [libLock EXCEPT ![ProcOf[t]] = NoThread]
  /\ goto(t, "idle")
  /\ UNCHANGED drvLock /\ sameCall

-----------------------------------------------------------------------------
(* In a transaction: a call finds the caller not to own the lock, and the  *)
(* exception ends the transaction without a release ...                    *)
Refused(t) ==
  /\ pc[t] = "in"
  /\ ~owns(t)
  /\ goto(t, "idle")
  /\ UNCHANGED <<drvLock, libLock>> /\ sameCall

(* ... or a call fails otherwise, outside ReadNextDCSPacket (write_data    *)
(* finds no free buffer, release_all fails): nobody ends the transaction.  *)
Abandon(t) ==
  /\ pc[t] = "in"
  /\ failures < MaxFailures
  /\ failures' = failures + 1
  /\ goto(t, "idle")
  /\ UNCHANGED <<drvLock, libLock, dtc, spoiled>>

(* A thread destroys a DTC object: ~DTC and ~mu2edev end its transaction.  *)
Destroy(t) ==
  \E d \in Dtc :
    /\ callOn(t, d)
    /\ goto(t, "dtor")
    /\ UNCHANGED <<drvLock, libLock>>

(* A process dies and is started again.  The driver's release handler      *)
(* does not touch the lock.                                                *)
Restart(p) ==
  /\ failures < MaxFailures
  /\ failures' = failures + 1
  /\ libLock' = [libLock EXCEPT ![p] = NoThread]
  /\ pc' = [t \in Thread |-> IF ProcOf[t] = p THEN "idle" ELSE pc[t]]
  /\ UNCHANGED <<drvLock, dtc, spoiled>>

-----------------------------------------------------------------------------
Call(t) ==
  \/ LibFree(t) \/ LibTimeout(t)
  \/ DrvLock(t) \/ DrvAgain(t) \/ LibStore(t) \/ DrvTimeout(t)
  \/ End(t) \/ LibClear(t)

Next ==
  \/ \E t \in Thread :
       Begin(t) \/ Call(t) \/ Refused(t) \/ Abandon(t) \/ Destroy(t)
  \/ \E p \in Process : Restart(p)

Spec == Init /\ [][Next]_vars

(* The clock runs: a wait that goes on reaches its limit; a call that was  *)
(* made goes on.                                                           *)
Fairness ==
  \A t \in Thread :
    /\ WF_vars(LibTimeout(t)) /\ WF_vars(DrvTimeout(t))
    /\ WF_vars(LibStore(t)) /\ WF_vars(End(t)) /\ WF_vars(LibClear(t))

FairSpec == Spec /\ Fairness

-----------------------------------------------------------------------------
(* Locks and threads are in one of the states the code puts them in; only  *)
(* a thread of the process is ever named by its library half.              *)
TypeOK ==
  /\ drvLock \in [Dtc -> BOOLEAN]
  /\ libLock \in [Process -> Thread \cup {NoThread}]
  /\ \A t \in Thread, p \in Process : libLock[p] = t => ProcOf[t] = p
  /\ pc \in [Thread -> {"idle", "lib", "drv", "got", "in", "force", "dtor", "rel"}]
  /\ dtc \in [Thread -> Dtc]
  /\ failures \in Nat /\ spoiled \subseteq Dtc

(* A thread that begin_dcs_transaction let through for a DTC (or that was  *)
(* abandoned by an exception and still owns the lock).                     *)
Inside(t, d) ==
  /\ dtc[t] = d
  /\ pc[t] \in {"got", "in"} \/ (owns(t) /\ pc[t] # "rel")

(* At most one thread of all processes is in a DCS transaction with a DTC, *)
(* and the driver's flag is set then.                                      *)
Excluded(d) ==
  \A t \in Thread : Inside(t, d) =>
    /\ drvLock[d]
    /\ \A u \in Thread : Inside(u, d) => u = t

(* Mutual exclusion holds for a DTC until somebody who waited a whole      *)
(* second forces its lock open, or a thread that still has the lock of     *)
(* another DTC goes ahead on that one (the library half is one for all     *)
(* DTCs of a process): whatever threads share a process or a DTC, whoever  *)
(* dies or abandons a transaction, and whatever happens to the other DTCs  *)
(* (begin_dcs_transaction, end_dcs_transaction, DCS_LOCK, DCS_RELEASE).    *)
MutualExclusion == \A d \in Dtc \ spoiled : Excluded(d)

(* No thread waits in begin_dcs_transaction for a lock it owns itself, so  *)
(* that transactions of one thread may nest.                               *)
NoSelfWait ==
  \A t \in Thread : pc[t] \in {"lib", "drv", "got", "force"} => ~owns(t)

(* Who is about to force a lock open has been seen to.                     *)
ForcingSpoils == \A t \in Thread : pc[t] = "force" => dtc[t] \in spoiled

(* The inductive invariant that mutual exclusion rests on.                 *)
IInv ==
  /\ TypeOK
  /\ NoSelfWait
  /\ ForcingSpoils
  /\ MutualExclusion

(* A thread that begin_dcs_transaction returned to owns the lock until it  *)
(* ends its transaction, so that no DCS call of it is refused ...          *)
AnyBeginMeansOwner == \A t \in Thread : pc[t] = "in" => owns(t)

(* ... which is so for the only thread of a process, though others may     *)
(* force the lock open meanwhile.                                          *)
Alone(t) == \A u \in Thread : ProcOf[u] = ProcOf[t] => u = t

BeginMeansOwner == \A t \in Thread : Alone(t) /\ pc[t] = "in" => owns(t)

(* The driver's flag, left set by a dead process or a lost library half,   *)
(* does not stay set for ever if threads keep asking for the lock.         *)
Orphaned(d) == drvLock[d] /\ \A t \in Thread : ~Inside(t, d)
Wanted(d) == \E t \in Thread : dtc[t] = d /\ pc[t] = "drv"

OrphanIsFreed == \A d \in Dtc : []<>Wanted(d) => []<>~Orphaned(d)

(* begin_dcs_transaction returns or throws, whatever the others do.        *)
BeginReturns ==
  \A t \in Thread : pc[t] \in {"lib", "drv"} ~> pc[t] \in {"in", "idle"}

=============================================================================
