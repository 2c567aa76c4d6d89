-------------------------- MODULE EventPollProofs --------------------------
(***************************************************************************)
(* For every number of channels, whatever the completed descriptor reads   *)
(* as: packets_timer_guard keeps callback and handler apart, is never      *)
(* lost while the driver is up, and leaves nothing behind after remove.    *)
(***************************************************************************)
EXTENDS EventPoll, TLAPS

LEMMA FlagStep == FlagTypes /\ [Next]_vars => FlagTypes'
<1> SUFFICES ASSUME FlagTypes, [Next]_vars PROVE FlagTypes'
  OBVIOUS
<1>1. ASSUME NEW c \in Channel, Complete(c) PROVE FlagTypes'
  BY <1>1, Zenon DEF Complete, FlagTypes
<1>2. CASE TimerFires \/ IrqEnter
  BY <1>2, Zenon DEF TimerFires, IrqEnter, card, FlagTypes
<1>3. ASSUME NEW p \in Context, PollStep(p) PROVE FlagTypes'
  BY <1>3, Zenon DEF PollStep, Scan, ScanMisread, Reschedule, reschedGuard, RaiseGuard, idleGuard,
     PollEnable, IntEnable, card, FlagTypes
<1>4. CASE IrqStep
  <2>1. CASE IrqDisable \/ IrqTest \/ IrqTake
    BY <2>1, Zenon DEF IrqDisable, IntDisable, IrqTest, IrqTake, card, FlagTypes
  <2>2. CASE IrqAck
    <3> PICK cleared \in BOOLEAN :
          IF cleared \/ ~intOn'
            THEN raised' = raised /\ pend' = (pend /\ ~cleared)
            ELSE raised' = (raised \/ pend) /\ pend' = FALSE
      BY <2>2, Zenon DEF IrqAck
    <3>1. pend' \in BOOLEAN /\ raised' \in BOOLEAN
      BY Zenon DEF FlagTypes
    <3> QED
      BY <2>2, <3>1, Zenon DEF IrqAck, FlagTypes
  <2> QED
    BY <1>4, <2>1, <2>2 DEF IrqStep
<1>5. CASE Probe
  BY <1>5, Zenon DEF Probe, EventUp, RequestIrq, ProbeEnable, IntEnable, card, FlagTypes
<1>6. CASE Remove
  BY <1>6, Zenon DEF Remove, RemoveDisable, FreeIrq, IrqSynced, DownGuard, DelTimer,
     DownGuardAgain, FreeMem, IntDisable, card, FlagTypes
<1>7. CASE UNCHANGED vars
  BY <1>7, Zenon DEF vars, card, FlagTypes
<1> QED
  BY <1>1, <1>2, <1>3, <1>4, <1>5, <1>6, <1>7 DEF Next

LEMMA GotoTypes ==
  ASSUME PollTypes, NEW p \in Context, NEW l \in Places, goto(p, l)
  PROVE  at' \in [Context -> Places]
  BY Zenon DEF PollTypes, goto

LEMMA StartTypes ==
  ASSUME PollTypes, NEW p \in Context, startPoll(p)
  PROVE  /\ at' \in [Context -> Places]
         /\ chn' \in [Context -> 0 .. MaxChannels]
         /\ did_work' \in [Context -> BOOLEAN]
<1>1. at' \in [Context -> Places]
  BY Zenon DEF PollTypes, startPoll, Places
<1>2. 0 \in 0 .. MaxChannels
  BY EventConstants
<1>3. chn' \in [Context -> 0 .. MaxChannels]
  BY <1>2, Zenon DEF PollTypes, startPoll
<1>4. did_work' \in [Context -> BOOLEAN]
  BY Zenon DEF PollTypes, startPoll
<1> QED
  BY <1>1, <1>3, <1>4

LEMMA PollTypesStep == PollTypes /\ [Next]_vars => PollTypes'
<1> SUFFICES ASSUME PollTypes, [Next]_vars PROVE PollTypes'
  OBVIOUS
<1>c. "timer" \in Context /\ "irq" \in Context /\ "idle" \in Places /\ "ack" \in Places
      /\ "enable" \in Places /\ "disable" \in Places /\ "test" \in Places /\ "take" \in Places
  BY DEF Context, Places
<1>1. ASSUME NEW c \in Channel, Complete(c) PROVE PollTypes'
  BY <1>1, Zenon DEF PollTypes, Complete, poll
<1>2. CASE TimerFires
  BY <1>2, <1>c, StartTypes, Zenon DEF TimerFires, PollTypes, card
<1>3. ASSUME NEW p \in Context, PollStep(p) PROVE PollTypes'
  <2>1. CASE Scan(p)
    <3>1. did_work' \in [Context -> BOOLEAN]
      BY <2>1, Zenon DEF PollTypes, Scan
    <3>2. chn' \in [Context -> 0 .. MaxChannels]
      BY <2>1, EventConstants DEF PollTypes, Scan, scanDone
    <3> QED
      BY <2>1, <3>1, <3>2, Zenon DEF PollTypes, Scan
  <2>2. CASE ScanMisread(p)
    <3>1. chn' \in [Context -> 0 .. MaxChannels]
      BY <2>2, EventConstants DEF PollTypes, ScanMisread, scanDone
    <3> QED
      BY <2>2, <3>1, Zenon DEF PollTypes, ScanMisread, card
  <2>3. CASE Reschedule(p) \/ PollEnable(p)
    <3>1. at' \in [Context -> Places]
      BY <2>3, <1>c, GotoTypes DEF Reschedule, PollEnable, endPoll
    <3> QED
      BY <2>3, <3>1, Zenon DEF PollTypes, Reschedule, PollEnable, card
  <2>4. CASE RaiseGuard(p)
    BY <2>4, <1>c, GotoTypes, Zenon DEF PollTypes, RaiseGuard, card
  <2> QED
    BY <1>3, <2>1, <2>2, <2>3, <2>4 DEF PollStep
<1>4. CASE IrqEnter \/ IrqDisable \/ IrqTest \/ IrqAck
  <2>1. at' \in [Context -> Places]
    BY <1>4, <1>c, GotoTypes DEF IrqEnter, IrqDisable, IrqTest, IrqAck
  <2> QED
    BY <1>4, <2>1, Zenon DEF PollTypes, IrqEnter, IrqDisable, IrqTest, IrqAck, card
<1>5. CASE IrqTake
  BY <1>5, <1>c, StartTypes, Zenon DEF IrqTake, PollTypes, card
<1>6. CASE Probe \/ Remove
  <2>1. dev' \in Steps
    BY <1>6 DEF Probe, EventUp, RequestIrq, ProbeEnable, Remove, RemoveDisable, FreeIrq,
         IrqSynced, DownGuard, DelTimer, DownGuardAgain, FreeMem, Steps, Leaving
  <2>2. fresh' \in SUBSET Channel /\ UNCHANGED poll
    BY <1>6, Zenon DEF Probe, EventUp, RequestIrq, ProbeEnable, Remove, RemoveDisable,
         FreeIrq, IrqSynced, DownGuard, DelTimer, DownGuardAgain, FreeMem, card, PollTypes
  <2> QED
    BY <2>1, <2>2, Zenon DEF PollTypes, poll
<1>7. CASE UNCHANGED vars
  BY <1>7, Zenon DEF PollTypes, vars, poll, card
<1> QED
  BY <1>1, <1>2, <1>3, <1>4, <1>5, <1>6, <1>7 DEF Next, IrqStep

(* In every reachable state the driver's and the card's state have their   *)
(* types, and a scan never passes the last channel.                        *)
THEOREM TypeCorrect == Spec => []TypeOK
<1>1. Init => TypeOK
  <2> SUFFICES ASSUME Init PROVE TypeOK
    OBVIOUS
  <2>1. 0 \in 0 .. MaxChannels /\ "idle" \in Places /\ "absent" \in Steps
    BY EventConstants DEF Places, Steps
  <2> QED
    BY <2>1, Zenon DEF Init, TypeOK, FlagTypes, PollTypes
<1>2. TypeOK /\ [Next]_vars => TypeOK'
  BY FlagStep, PollTypesStep DEF TypeOK
<1> QED
  BY <1>1, <1>2, PTL DEF Spec

-----------------------------------------------------------------------------
LEMMA InvInit == Init => IInv
  BY DEF Init, IInv, OneBaton, BatonKept, TimerPlaces, HandlerGone, TimerGone, IntKept,
     holds, Context, Steps, Leaving

LEMMA InvStep == TypeOK /\ IInv /\ [Next]_vars => IInv'
<1> SUFFICES ASSUME TypeOK, IInv, [Next]_vars PROVE IInv'
  OBVIOUS
<1> USE DEF TypeOK, FlagTypes, PollTypes, IInv, OneBaton, BatonKept, TimerPlaces, HandlerGone, TimerGone, IntKept,
        holds, Context, Steps, Leaving, Places
<1>1. ASSUME NEW c \in Channel, Complete(c) PROVE IInv'
  BY <1>1 DEF Complete, poll
<1>2. CASE TimerFires
  BY <1>2 DEF TimerFires, startPoll, card
<1>3. CASE IrqEnter
  BY <1>3 DEF IrqEnter, goto
<1>4. ASSUME NEW p \in Context, PollStep(p) PROVE IInv'
  <2>1. CASE Scan(p) \/ ScanMisread(p)
    BY <2>1 DEF Scan, ScanMisread, card
  <2>2. CASE Reschedule(p)
    BY <2>2 DEF Reschedule, reschedGuard, endPoll, goto, card
  <2>3. CASE RaiseGuard(p)
    BY <2>3 DEF RaiseGuard, idleGuard, goto, card
  <2>4. CASE PollEnable(p)
    BY <2>4 DEF PollEnable, IntEnable, endPoll, goto
  <2> QED
    BY <1>4, <2>1, <2>2, <2>3, <2>4 DEF PollStep
<1>5. CASE IrqStep
  <2>1. CASE IrqDisable
    BY <2>1 DEF IrqDisable, IntDisable, goto
  <2>2. CASE IrqTest
    BY <2>2 DEF IrqTest, mayPoll, goto, card
  <2>3. CASE IrqTake
    BY <2>3 DEF IrqTake, startPoll, card
  <2>4. CASE IrqAck
    BY <2>4 DEF IrqAck, goto
  <2> QED
    BY <1>5, <2>1, <2>2, <2>3, <2>4 DEF IrqStep
<1>6. CASE Probe
  BY <1>6 DEF Probe, EventUp, RequestIrq, ProbeEnable, IntEnable, poll, card
<1>7. CASE Remove
  <2>1. CASE RemoveDisable \/ FreeIrq \/ IrqSynced \/ FreeMem
    BY <2>1 DEF RemoveDisable, FreeIrq, IrqSynced, FreeMem, IntDisable, poll, card
  <2>2. CASE DownGuard \/ DelTimer \/ DownGuardAgain
    BY <2>2 DEF DownGuard, DelTimer, delWaits, DownGuardAgain, poll, card
  <2> QED
    BY <1>7, <2>1, <2>2 DEF Remove
<1>8. CASE UNCHANGED vars
  BY <1>8 DEF vars, poll, card
<1> QED
  BY <1>1, <1>2, <1>3, <1>4, <1>5, <1>6, <1>7, <1>8 DEF Next

(* At most one of guard, timer and the two contexts has the baton; one has *)
(* it until remove takes it away; and what remove has taken away is gone.  *)
THEOREM Invariance == Spec => []IInv
  BY TypeCorrect, InvInit, InvStep, PTL DEF Spec

(* Callback and handler are never both in poll_packets' loop.              *)
THEOREM Exclusive == Spec => []OnePoller
<1>1. IInv => OnePoller
  BY DEF IInv, OneBaton, OnePoller, holds, Context
<1> QED
  BY Invariance, <1>1, PTL

(* add_timer never finds the timer pending.                                *)
THEOREM NoDoubleArm == Spec => []ArmedOnce
<1>1. IInv => ArmedOnce
  BY DEF IInv, OneBaton, TimerGone, ArmedOnce, holds, Context
<1> QED
  BY Invariance, <1>1, PTL

(* Nothing polls once remove frees the rings, and nothing will.            *)
THEOREM Quiet == Spec => []QuietAfterRemove
<1>1. IInv => QuietAfterRemove
  BY DEF IInv, TimerGone, HandlerGone, QuietAfterRemove, Context, Steps, Leaving
<1> QED
  BY Invariance, <1>1, PTL

(* While the driver is up, the next packet's interrupt finds the guard up  *)
(* whenever nothing is running or armed.                                   *)
THEOREM Wakes == Spec => []WakesAgain
<1>1. IInv => WakesAgain
  BY DEF IInv, BatonKept, IntKept, WakesAgain, holds, Context
<1> QED
  BY Invariance, <1>1, PTL
=============================================================================
