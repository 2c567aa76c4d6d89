----------------------------- MODULE EventPoll -----------------------------
(***************************************************************************)
(* Who calls poll_packets, and when.  Two contexts of the kernel may: the  *)
(* callback of packets_timer and the interrupt handler DmaInterrupt.  Both *)
(* rings are read and their hwIdx moved on by poll_packets without a lock, *)
(* so packets_timer_guard is the baton that keeps the contexts apart: it   *)
(* is down while the timer is armed or poll_packets runs.  A poll that     *)
(* found packets arms the timer again and keeps the guard down; one that   *)
(* found none raises the guard and enables the card's interrupts.          *)
(*                                                                         *)
(* mu2e_pci_probe starts all this and mu2e_pci_remove stops it, while      *)
(* callback and handler may be anywhere.  The driver is built with         *)
(* MU2E_RECV_INTER_ENABLED = 1 (mu2e_proto_globals.h).                     *)
(***************************************************************************)
EXTENDS Naturals

CONSTANT MaxChannels   \* MU2E_MAX_CHANNELS

ASSUME EventConstants == MaxChannels \in Nat

Channel == 0 .. MaxChannels - 1
Context == {"timer", "irq"}

VARIABLES guard,       \* packets_timer_guard
          armed,       \* packets_timer is pending
          at, chn, did_work,   \* of each context: place, next channel, did_work
          registered,  \* DmaInterrupt is registered for the card's interrupt
          dev,         \* where probe or remove is
          intOn,       \* the card: interrupts enabled,
          pend,        \*   one held back while they are not,
          raised,      \*   one on its way to the handler,
          fresh        \*   channels with a completed packet not polled yet

poll == <<at, chn, did_work>>
card == <<intOn, pend, raised, fresh>>
vars == <<guard, armed, poll, registered, dev, card>>

Init ==
  /\ guard = FALSE /\ armed = FALSE
  /\ at = [p \in Context |-> "idle"]
  /\ chn = [p \in Context |-> 0]
  /\ did_work = [p \in Context |-> FALSE]
  /\ registered = FALSE /\ dev = "absent"
  /\ intOn = FALSE /\ pend = FALSE /\ raised = FALSE /\ fresh = {}

goto(p, l) == at' = [at EXCEPT ![p] = l]

-----------------------------------------------------------------------------
(* The card.  A completed packet is an interrupt, now or when they are     *)
(* enabled.                                                                *)
Complete(c) ==
  /\ dev # "absent"
  /\ fresh' = fresh \cup {c}
  /\ raised' = (raised \/ intOn)
  /\ pend' = (pend \/ ~intOn)
  /\ UNCHANGED <<guard, armed, poll, registered, dev, intOn>>

(* Dma_mIntEnable and Dma_mIntDisable.  They read the register before they *)
(* write it, but what they write to the enable bits does not depend on it. *)
IntEnable ==
  /\ intOn' = TRUE
  /\ raised' = (raised \/ pend)
  /\ pend' = FALSE

IntDisable == intOn' = FALSE /\ UNCHANGED <<pend, raised>>

-----------------------------------------------------------------------------
(* poll_packets, in either context.                                        *)
startPoll(p) ==
  /\ at' = [at EXCEPT ![p] = "scan"]
  /\ chn' = [chn EXCEPT ![p] = 0]
  /\ did_work' = [did_work EXCEPT ![p] = FALSE]

(* Where a context is when poll_packets has returned.                      *)
endPoll(p) == goto(p, IF p = "timer" THEN "idle" ELSE "ack")

TimerFires ==
  /\ armed /\ at["timer"] = "idle"
  /\ armed' = FALSE
  /\ startPoll("timer")
  /\ UNCHANGED <<guard, registered, dev, card>>

scanDone(p) == chn[p] = MaxChannels

(* One channel: publish what has completed and note that there was any.    *)
Scan(p) ==
  /\ at[p] = "scan" /\ ~scanDone(p)
  /\ fresh' = fresh \ {chn[p]}
  /\ did_work' = [did_work EXCEPT ![p] = @ \/ chn[p] \in fresh]
  /\ chn' = [chn EXCEPT ![p] = @ + 1]
  /\ UNCHANGED <<guard, armed, at, registered, dev, intOn, pend, raised>>

(* A register that holds no descriptor of the ring: descDmaAdr2idx comes    *)
(* back to hwIdx, where its search began, and the channel looks empty.      *)
ScanMisread(p) ==
  /\ at[p] = "scan" /\ ~scanDone(p)
  /\ chn' = [chn EXCEPT ![p] = @ + 1]
  /\ UNCHANGED <<guard, armed, at, did_work, registered, dev, card>>

reschedGuardUp == TRUE            \* mutant: as built without interrupts
reschedGuard == guard

Reschedule(p) ==
  /\ at[p] = "scan" /\ scanDone(p) /\ did_work[p]
  /\ armed' = TRUE
  /\ guard' = reschedGuard
  /\ endPoll(p)
  /\ UNCHANGED <<chn, did_work, registered, dev, card>>

idleGuardKept == guard            \* mutant: the guard is not raised
idleGuard == TRUE

RaiseGuard(p) ==
  /\ at[p] = "scan" /\ scanDone(p) /\ ~did_work[p]
  /\ guard' = idleGuard
  /\ goto(p, "enable")
  /\ UNCHANGED <<armed, chn, did_work, registered, dev, card>>

PollEnable(p) ==
  /\ at[p] = "enable"
  /\ IntEnable
  /\ endPoll(p)
  /\ UNCHANGED <<guard, armed, chn, did_work, registered, dev, fresh>>

-----------------------------------------------------------------------------
(* DmaInterrupt.  The interrupt may be shared: another card's calls the    *)
(* handler too.                                                            *)
IrqEnter ==
  /\ registered /\ at["irq"] = "idle"
  /\ raised' = FALSE
  /\ goto("irq", "disable")
  /\ UNCHANGED <<guard, armed, chn, did_work, registered, dev, intOn, pend, fresh>>

IrqDisable ==
  /\ at["irq"] = "disable"
  /\ IntDisable
  /\ goto("irq", "test")
  /\ UNCHANGED <<guard, armed, chn, did_work, registered, dev, fresh>>

(* mu2e_force_poll looks at the guard, then puts it down.                  *)
mayPollAlways == TRUE             \* mutant: the guard is not looked at
mayPoll == guard

IrqTest ==
  /\ at["irq"] = "test"
  /\ goto("irq", IF mayPoll THEN "take" ELSE "ack")
  /\ UNCHANGED <<guard, armed, chn, did_work, registered, dev, card>>

IrqTake ==
  /\ at["irq"] = "take"
  /\ guard' = FALSE
  /\ startPoll("irq")
  /\ UNCHANGED <<armed, registered, dev, card>>

(* Dma_mIntAck with DMA_ENG_INT_ENABLE in its mask, which is the bit that  *)
(* enables the card's interrupts.  Whether the acknowledged bits include   *)
(* one that was held back, which then is not delivered, is up to the card. *)
IrqAck ==
  /\ at["irq"] = "ack"
  /\ intOn' = TRUE
  /\ raised' \in {raised, raised \/ pend}
  /\ pend' = FALSE
  /\ goto("irq", "idle")
  /\ UNCHANGED <<guard, armed, chn, did_work, registered, dev, fresh>>

-----------------------------------------------------------------------------
(* mu2e_pci_probe: mu2e_event_up raises the guard, and mu2e_sched_poll     *)
(* takes it down for the timer it arms.                                    *)
EventUp ==
  /\ dev = "absent"
  /\ guard' = FALSE /\ armed' = TRUE
  /\ intOn' = FALSE
  /\ dev' = "events"
  /\ UNCHANGED <<poll, registered, pend, raised, fresh>>

(* When request_irq fails the timer goes on: the label out2 undoes none of *)
(* mu2e_event_up, and a probe that returns 1 counts as a success.          *)
RequestIrq ==
  /\ dev = "events"
  /\ \/ registered' = TRUE /\ dev' = "irq"
     \/ registered' = FALSE /\ dev' = "failed"
  /\ UNCHANGED <<guard, armed, poll, card>>

ProbeEnable ==
  /\ dev = "irq"
  /\ IntEnable
  /\ dev' = "up"
  /\ UNCHANGED <<guard, armed, poll, registered, fresh>>

(* mu2e_pci_remove.                                                        *)
RemoveDisable ==
  /\ dev \in {"up", "failed"}
  /\ IntDisable
  /\ dev' = "rm_irq"
  /\ UNCHANGED <<guard, armed, poll, registered, fresh>>

(* free_irq takes the handler away, then waits for the end of its run.     *)
FreeIrq ==
  /\ dev = "rm_irq"
  /\ registered' = FALSE
  /\ dev' = "rm_sync"
  /\ UNCHANGED <<guard, armed, poll, card>>

IrqSynced ==
  /\ dev = "rm_sync" /\ at["irq"] = "idle"
  /\ dev' = "rm_down"
  /\ UNCHANGED <<guard, armed, poll, registered, card>>

(* mu2e_event_down.                                                        *)
mayGoDownGuarded == guard         \* mutant: the wait that is commented out
mayGoDown == TRUE

DownGuard ==
  /\ dev = "rm_down" /\ mayGoDown
  /\ guard' = FALSE
  /\ dev' = "rm_del"
  /\ UNCHANGED <<armed, poll, registered, card>>

delWaitsNot == TRUE               \* mutant: del_timer
delWaits == at["timer"] = "idle"

(* del_timer_sync tries until the callback is not running, and then        *)
(* detaches the timer, armed again or not.                                 *)
DelTimer ==
  /\ dev = "rm_del" /\ delWaits
  /\ armed' = FALSE
  /\ dev' = "rm_guard"
  /\ UNCHANGED <<guard, poll, registered, card>>

DownGuardAgain ==
  /\ dev = "rm_guard"
  /\ guard' = FALSE
  /\ dev' = "rm_free"
  /\ UNCHANGED <<armed, poll, registered, card>>

(* free_mem stops the engines and frees the rings, iounmap the registers.  *)
FreeMem ==
  /\ dev = "rm_free"
  /\ dev' = "absent"
  /\ fresh' = {} /\ pend' = FALSE /\ raised' = FALSE
  /\ UNCHANGED <<guard, armed, poll, registered, intOn>>

-----------------------------------------------------------------------------
PollStep(p) ==
  \/ Scan(p) \/ ScanMisread(p)
  \/ Reschedule(p) \/ RaiseGuard(p) \/ PollEnable(p)

IrqStep == IrqDisable \/ IrqTest \/ IrqTake \/ IrqAck

Probe == EventUp \/ RequestIrq \/ ProbeEnable

Remove ==
  \/ RemoveDisable \/ FreeIrq \/ IrqSynced
  \/ DownGuard \/ DelTimer \/ DownGuardAgain \/ FreeMem

Next ==
  \/ \E c \in Channel : Complete(c)
  \/ TimerFires \/ IrqEnter \/ IrqStep
  \/ \E p \in Context : PollStep(p)
  \/ Probe \/ Remove

Spec == Init /\ [][Next]_vars

(* The kernel runs callback and handler to their ends, fires an armed      *)
(* timer and delivers an interrupt that was raised; the card goes on       *)
(* sending, and its completed descriptor is read right now and then; and a *)
(* remove that was begun goes on.  del_timer_sync finds the callback not   *)
(* running at some time, as a timer armed at jiffies fires at the next     *)
(* tick.                                                                   *)
Fairness ==
  /\ \A p \in Context :
       /\ WF_vars(PollStep(p))
       /\ \A c \in Channel : SF_vars(chn[p] = c /\ Scan(p))
  /\ WF_vars(IrqStep)
  /\ WF_vars(TimerFires)
  /\ WF_vars(raised /\ IrqEnter)
  /\ WF_vars(\E c \in Channel : Complete(c))
  /\ WF_vars(FreeIrq) /\ WF_vars(IrqSynced)
  /\ WF_vars(DownGuard) /\ SF_vars(DelTimer)
  /\ WF_vars(DownGuardAgain) /\ WF_vars(FreeMem)

FairSpec == Spec /\ Fairness

-----------------------------------------------------------------------------
Places == {"idle", "scan", "enable", "disable", "test", "take", "ack"}
Leaving == {"rm_irq", "rm_sync", "rm_down", "rm_del", "rm_guard", "rm_free"}
Steps == {"absent", "events", "irq", "up", "failed"} \cup Leaving

FlagTypes ==
  /\ guard \in BOOLEAN /\ armed \in BOOLEAN /\ registered \in BOOLEAN
  /\ intOn \in BOOLEAN /\ pend \in BOOLEAN /\ raised \in BOOLEAN

PollTypes ==
  /\ at \in [Context -> Places]
  /\ chn \in [Context -> 0 .. MaxChannels]
  /\ did_work \in [Context -> BOOLEAN]
  /\ dev \in Steps
  /\ fresh \in SUBSET Channel

(* Every variable keeps its type; a scan never passes the last channel.    *)
TypeOK == FlagTypes /\ PollTypes

(* poll_packets walks the rings without a lock: callback and handler are   *)
(* never both in its loop.                                                 *)
OnePoller == ~ \A p \in Context : at[p] = "scan"

(* add_timer on a timer that is pending is a kernel bug (BUG_ON): a poll   *)
(* about to reschedule, or a probe about to schedule, finds it unarmed.    *)
ArmedOnce ==
  /\ \A p \in Context : at[p] = "scan" => ~armed
  /\ dev = "absent" => ~armed

(* When remove comes to free the rings and unmap the registers, no poll is *)
(* running, none will, and the handler is gone; and it stays so until the  *)
(* next probe.                                                             *)
QuietAfterRemove ==
  dev \in {"rm_free", "absent"} =>
    /\ ~armed /\ ~registered
    /\ \A p \in Context : at[p] = "idle"

(* The baton is never lost.  While the driver is up and neither context    *)
(* runs nor the timer is armed, the next packet's interrupt is enabled and *)
(* the guard lets it poll.                                                 *)
WakesAgain ==
  dev = "up" /\ ~armed /\ (\A p \in Context : at[p] = "idle") => guard /\ intOn

(* While the card goes on sending, every completed packet is published,    *)
(* though the interrupt of one may find the guard down, and be             *)
(* acknowledged, behind the back of a poll that is past its scan.          *)
EveryPacketPolled ==
  \A c \in Channel : dev = "up" /\ c \in fresh ~> c \notin fresh \/ dev # "up"

(* mu2e_pci_remove comes to its end however often the callback arms its    *)
(* timer again.                                                            *)
RemoveReturns == dev = "rm_irq" ~> dev = "absent"

-----------------------------------------------------------------------------
(* The inductive invariant: at most one of guard, timer and the contexts   *)
(* has the baton, one of them does until remove takes it, and the handler  *)
(* leaves the interrupts enabled while the driver is up.                   *)
holds(p) == at[p] \in {"take", "scan"}

OneBaton ==
  /\ guard => ~armed /\ ~holds("timer") /\ at["irq"] # "scan"
  /\ armed => ~holds("timer") /\ ~holds("irq")
  /\ ~(holds("timer") /\ holds("irq"))

BatonKept ==
  dev \in {"events", "irq", "up", "failed", "rm_irq", "rm_sync"} =>
    guard \/ armed \/ holds("timer") \/ holds("irq")

TimerPlaces == at["timer"] \in {"idle", "scan", "enable"}

HandlerGone ==
  /\ dev \in {"irq", "up"} => registered
  /\ dev \in Steps \ {"irq", "up", "rm_irq"} => ~registered
  /\ dev \in Steps \ {"irq", "up", "rm_irq", "rm_sync"} => at["irq"] = "idle"

TimerGone ==
  dev \in {"rm_guard", "rm_free", "absent"} => ~armed /\ at["timer"] = "idle"

IntKept ==
  dev = "up" => intOn \/ at["irq"] \in {"test", "take", "scan", "enable", "ack"}

IInv ==
  /\ OneBaton /\ BatonKept /\ TimerPlaces
  /\ HandlerGone /\ TimerGone /\ IntKept
=============================================================================
