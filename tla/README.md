# Verification of the mu2e PCIe DMA software

`src/mu2e_driver` is a Linux driver for the Mu2e DTC and CFO cards,
`src/dtcInterfaceLib` and `src/cfoInterfaceLib` the user libraries on top of it.
This directory holds TLA+ models of the parts where several actors share state
(card, interrupt handler, timer callback, ioctls, library objects, threads and
processes), of the register maps and the readout that are built on them, what they
promise, the configurations TLC checks them with, and proofs that TLAPS checks. `PROJECT.json` names, for every definition, the source
lines it models, and lists runs, mutants, findings, hazards and theorems.

    tlc -config Recv.cfg MCRecvRing         # a run; see the table below
    tlapm RecvRingProofs.tla                # the proofs of a module

## 1. The system

| component | state it keeps | operations | talks to |
|---|---|---|---|
| card (external) | per channel and direction: `HW_NEXT`, `SW_NEXT`, `HW_CMPLT`, descriptors, interrupt enable | fill or send a buffer, interrupt | driver, by registers and DMA |
| ring arithmetic (`mu2e_mmap_ioctl.h`) | - | `idx_add`, `mu2e_chn_info_delta_` | used by driver and library |
| receive path (`mu2e_event.c`, `mu2e_main.c`, `mu2edev.cpp`) | driver: `hwIdx`, `swIdx`, META page; library: a copy of the two, `buffers_held_` | `poll_packets`, `GET_INFO`, `BUF_GIVE`, `read_data`, `read_release`, `release_all` | card, shared buffers, ioctls |
| send path (same files) | the same for S2C, `Complete` bits | `write_data`, `GET_INFO`, `BUF_XMIT` | card, shared buffers, ioctls |
| events (`mu2e_event.c`, `mu2e_pci.c`) | `packets_timer_guard`, the timer, the card's interrupt enable | `DmaInterrupt`, `mu2e_force_poll`, `mu2e_sched_poll`, `mu2e_event_up/down`, probe, remove | card, kernel, `poll_packets` |
| DCS lock (`mu2e_main.c`, `mu2edev.cpp`) | `mu2e_dcs_locks[dtc]`, static `dcs_lock_held_` | `begin_dcs_transaction`, `end_dcs_transaction`, `DCS_LOCK`, `DCS_RELEASE` | threads, processes |
| register access (`CFOandDTC_Registers.cpp`, `mu2edev.cpp`) | the card's registers | `ReadRegister_`, `WriteRegister_` (read, change, write, read back and compare) | `REG_ACCESS` |
| register maps (`DTC_Registers.cpp`, `CFO_Registers.cpp`) | - | a setter, a getter and a dump for each setting | register access |
| ROC and DCS transactions (`DTC.cpp`) | the DCS buffers held | read/write ROC register, block, lists, "external" registers | DCS lock, send and receive path |
| DAQ events (`DTC.cpp`, `CFOandDTC_DMAs.cpp`, `CFO.cpp`) | list of held buffers, read pointer | `GetData`, `GetSubEventData`, `ReadNextDAQDMA`, `ReadBuffer`, `ReleaseBuffers` | receive path |
| simulation file transfer (`DTC.cpp`) | retry count | `WriteSimFileToDTC`, `VerifySimFileInDTC` | DAQ events, send path |
| software CFO (`DTCSoftwareCFO.cpp`) | thread, `abort_`, `requestsSent_` | send requests for a range or a list, wait | send path |
| run plan compiler (`CFO_Compiler.cpp`) | labels, loop stack, output | `processFile`, `processOp` | - |
| simulator (`mu2esim.cpp`) | queues in the place of the card | the operations of `mu2edev` | `mu2edev` |

Left out for good: statistics and dump ioctls (they copy registers out), the
wording of register dumps, data verifiers and benchmarks, the MCS
PROM tool, command line tools, language bindings, build and install scripts.

What is hard here:

* **No locks around the rings.** `poll_packets`, the ioctls and the mapped
  buffers share indices; each is right only because every index has one writer
  and moves after what it publishes.
* **Caches.** Each `mu2edev` object has a copy of the channel info and refreshes
  it only when it seems to be out of buffers.
* **Two halves of one lock**, with time limits, a forced release, no owner in the
  driver, and a library half that is one for all DTCs of a process.
* **Start and stop** of code that re-arms itself from two contexts.
* **Death** of a process at any point outside an ioctl.
* **Late replies.** The DCS channel has no request numbers: a reply that comes
  after its reader gave up is the first packet the next request sees.
* **Read, change, write** of registers by several threads and processes, with a
  lock only from the write to the read back.
* **Events over several buffers**, read by calls that give up in the middle.

## 2. Modules

```
RingIndex <- RingIndexProofs
          <- RecvRing <- RecvRingInv <- RecvRingProofs
          <- SendRing <- SendRingInv <- SendRingProofs
          <- DcsCalls <- DcsCallsInv <- DcsCallsProofs
   RecvFifo, SendFifo: what the rings implement
EventPoll <- EventPollProofs            DcsLock <- DcsLockProofs
Readout <- ReadoutInv <- ReadoutProofs
   Readout INSTANCEs RecvFifo
RegisterFields <- CardTables <- RegisterAccess <- RegisterAccessInv <- RegisterAccessProofs
   CardTables INSTANCEs DtcRegisters, DtcDiagnosticRegisters, CfoRegisters,
   which have CoreRegisters in common
MC...: the instances for TLC
```

| module | models | correspondence |
|---|---|---|
| `RingIndex` | `idx_add`, `mu2e_chn_info_delta_` | one operator each, the ring size a parameter |
| `RecvRing` | C2S of both channels | the card fills (`HwBegin`, `HwComplete`); `poll_packets` is `PollRead` (or `PollMisread`), `PollMeta`, `PollPublish`, `PollNextChn`, the order of its stores kept; `read_data` is `ReadData`, `ReadGetInfo`, `ReadTake`; `read_release` is `ReadRelease` (with `BUF_GIVE`'s write of `SW_NEXT`), `GiveSwIdx`, `ReleaseAccount`; `release_all` calls the same steps. A packet is its number, which stands for contents and byte count |
| `RecvRingInv` | - | the inductive invariant |
| `RecvFifo` | the promise of the receive path | packets lent in order, held until released, at most `Capacity` outstanding |
| `SendRing` | S2C of one channel | `write_data` is `WriteData`, `WriteGetInfo`, `WriteCopy`, then `BUF_XMIT` in the order of its stores, `WriteAccount` |
| `SendRingInv` | - | the inductive invariant, for one writer |
| `SendFifo` | the promise of the send path | packets leave whole and in the order of the calls |
| `EventPoll` | who calls `poll_packets` | two contexts ("timer", "irq"), the guard, the card's interrupt bits, probe and remove step by step; which packets a ring holds is reduced to "this channel has one not yet polled" |
| `DcsLock` | the DCS lock | one step per load, store or ioctl of `begin_` and `end_dcs_transaction`; a thread chooses a DTC at each call, and the library half serves them all |
| `DcsCalls` | the ROC calls of `DTC.cpp` | a call is a sequence of accesses, each a transaction: lock, empty the ring (`Drain`), send, wait for replies, read on behind those that do not match, compare, release, unlock; each caller is a process with a cached copy of the ring's indices and a count of held buffers that its DAQ channel shares |
| `DcsCallsInv` | - | the inductive invariant |
| `Readout` | `DTC::GetData`, `DTC::GetSubEventData`, `CFO::GetData` | the three calls share `ReadBuffer`, the list of held buffers, the current buffer and the read position; they differ in what they parse. The buffers come from `RecvFifo`, which `RecvRing` implements |
| `ReadoutInv` | - | the inductive invariant |
| `RegisterFields` | the shapes of accessor | a row says which register and bits an accessor touches and how: read, read-change-write, write a word of its own, assert and release, acknowledge, restart a counter |
| `CoreRegisters`, `DtcRegisters`, `DtcDiagnosticRegisters`, `CfoRegisters` | the register maps | one row per setter, getter and dump, with the bit numbers of the code |
| `RegisterAccess` | `ReadRegister_`, `WriteRegister_`, `REG_ACCESS` | two callers perform a row each, one access per step; the driver's `ReadbackLock` from write to read back; an access may fail, or only its answer be lost, so that it is made again |
| `RegisterAccessInv` | - | what the tables must look like (`TablesFit`), and the inductive invariant |

`RecvRing` has one sequential `poll_packets`; that there is never a second one is
what `EventPoll!OnePoller` says, checked and proved there. Both rings assume that
callers of one channel do not overlap: for DCS that is what `DcsLock` gives.
`DcsCalls` takes over from `DcsLock` who is let in: who finds the driver's half taken
waits for it or, its second over, forces the lock open and throws, so that the next
one comes in on whoever had it. It takes over from `RecvRing` that what `poll_packets` publishes is whole, but keeps the
caches of its callers, because they are what goes wrong there. `Readout` is built on
the promise `RecvFifo` instead of the ring: `RecvRingProofs!Refinement` is why it
may be.

`RecvRing` has two `mu2edev` objects or one: `DevOf` says which object a channel
is read through. Every operator named as a mutant (`...Not`, `...Ahead`, ...) is
the variant of its neighbour with a plausible slip in it, used only to show that
the properties notice.

## 3. What TLC checks

| run | question | distinct states |
|---|---|---|
| `Recv` | both channels under one poll routine, each through its own object; the DAQ ring wraps, its reader holds buffers, one reader dies, `poll_packets` misreads how far the card is now and then: whole, once, in order, neither disturbs the other; invariant, refinement of `RecvFifo`, every packet is delivered | 141,306 |
| `RecvShared` | *violated*: one object for both channels keeps their counts apart | - |
| `SendOne` | one writer, ring of 4, 8 packets, two deaths: sent as written, in order, never into a buffer in use, refused only when full, all sent in the end; invariant, refinement of `SendFifo` | 24,576 |
| `SendStale` | *violated*: two objects in turn send what was written | - |
| `EventSafe` | callback, handler, probe and remove for ever: one poller, timer armed once, baton never lost, quiet after remove; every packet is polled, remove returns | 12,101 |
| `Lock` | two threads of one process and one of another, each with any of two DTCs at every call; waits time out and force the lock, transactions are abandoned, processes die: exclusion until the DTC's lock is forced or gone round, no wait for oneself, an orphaned lock is freed, `begin_` returns or throws, a process' only thread stays the owner | 267,174 |
| `LockRace` | *violated*: who was let in stays the owner | - |
| `DcsCalls` | two processes, three calls of one or several transactions, replies late, missing or with errors, a death, an unsent request, the lock forced open, a DAQ buffer held: invariant, own reply, ring indices, extended registers read where they were selected, lock given up, no reading on behind one's own reply | 596,793 |
| `DcsReadOn` | *violated*: every call ends | - |
| `Readout` | six buffers through a ring of three, events of half a buffer, one and a half and more than the ring, waits that time out anywhere, wrong tags, one death: invariant, whole events, nothing lost in silence, every buffer back | 77,548 |
| `ReadoutTimeout` | *violated*: a call whose wait times out returns no event | - |
| `Registers` | every writer of both cards next to every other writer of the same register, a card that changes bits of its own, for the first ROC link's settings an access that fails or whose answer is lost after the write; not the settings of section 5 that disagree when left alone: the tables of both cards fit, invariant, getters and dumps show what was asked for, no write refused because of the other caller, resets released | 2,233,743 |

**Bounds.** A ring of three or four buffers has every relation of the four
indices that a ring of a hundred has: empty, full, partly held, wrapped, lapped
by one. The packet counts let it wrap at least once with the reader behind. One
death of a reader (two of a writer) is enough for a successor
to start from any state a predecessor can leave; a second one starts from such a
state again. `EventPoll` has no counters and is explored completely for the
card's two channels. Three threads in two processes are the least with a race
inside a process and one between processes; two DTCs are enough for a lock that is
taken for another's; two failures let one follow on another. In `DcsCalls` the third
call is the one that meets what two others left behind: a late reply behind a reply,
or a stale cache behind a lock forced open; one held DAQ buffer shifts the DCS channel
by as much as more would. `DcsCalls` is symmetric in its callers and `Lock` is checked
without symmetry, because it asks for liveness. In `Readout` an event of seven halves needs four
buffers, one more than the ring has, and six buffers let a second event follow.
`Registers` has all links, and one access may fail while a setting of the first
is watched (`FailingLinks`), which has registers of its own and bits in registers that
other settings share, and so stands for the rest. Each field has
the values clear, all set and lowest bit set, which tell neighbouring fields apart; the
register starts clear or all set; two callers, because a third one only repeats what
the second one does to the first. The theorems of section 4
drop the bounds for the properties they name.

**Fairness.** Card: a transfer begun completes, and (in `SendRing`) a descriptor
given to the card is sent; nothing is assumed of writers there. `poll_packets` is
called again and again (`RecvRing`): `EventPoll` shows this from the kernel's
promises, that an armed timer fires, a raised interrupt is delivered, callback
and handler run to their ends, while the card goes on sending. The last point
matters: an interrupt that comes while a callback is past its scan but has not
raised the guard yet is acknowledged without a poll, and its packet waits for the
next packet's interrupt. A register that holds no descriptor's address makes
`descDmaAdr2idx` come back to where its search began, and the channel looks empty
(`ScanMisread`, `PollMisread`; the branch for an index "above maximum sane value" is
never taken); strong fairness says that this does not happen for ever. Strong fairness is also assumed of
`del_timer_sync`, which tries until it finds the callback not running, while the
timer it re-arms fires one tick later. Readers read and release again and again
(`Recv`) and call again and again (`Readout`), as the library's callers do.
Waits with a limit end, because the clock runs: that for a packet, and that for
either half of the lock. In `Lock`, `DcsCalls` and `Readout` this and the steps of a
call in progress are all that is fair: nobody has to begin a call, and in `DcsCalls`
the card need not answer, nor the lock be given up. `Registers` states
no fairness and no liveness.

**Findings** (each with a run that shows it, quoted in `PROJECT.json`):

1. `RecvShared`: `read_release` subtracts from one `buffers_held_` whatever the
   channel, while `DTC` uses one object for both: a DCS release while a DAQ buffer
   is held makes `read_data` hand that DAQ buffer out again.
2. `SendStale`: `write_data` copies into the buffer its cached `swIdx` names,
   `BUF_XMIT` sends the one the driver's names; another object's write in between
   makes the card send stale contents, lock or no lock.
3. `LockRace`: `end_dcs_transaction` clears `dcs_lock_held_` after it has let
   others in, and wipes out the name of a thread of its own process.
4. `ReadoutTimeout`: when the wait for the second buffer of an event times out,
   `GetData`'s next try returns the event with stale memory behind its first part.
5. `DcsReadOn`: with a buffer on hand `ReadNextPacket` goes by an index behind the end
   of its list. What the list's memory holds there decides how far the read pointer
   moves, which may be not at all; a caller that waits for a packet that matches then
   reads the same one again and again, with the lock, and no time limit applies.

Two more harms are in the models and have no run of their own. `mu2e_pci_remove` traces
that it is "disabling interrupts" (`mu2e_pci.c:233`), but a `poll_packets` or a handler
under way enables them again (`EventPoll`: `IntEnable` after remove has begun).
`dcs_lock_held_` is one static variable for all DTCs of a process: a thread that an
exception left with the lock of one is let in on another without that one's lock, and
its `end_dcs_transaction` releases whatever lock is taken there (`DcsLock`: `spoiled`).

## 4. What is proved

For every value of the constants that the modules' `ASSUME`s allow:

* `RecvRingProofs`: `TypeCorrect` (types and index ranges), for any sharing of objects;
  `Invariance`, `InOrder`, `Published`, `CacheSafe`, `GiveBackSafe` and `Refinement`
  (`Spec => ImplementsFifo`) under the assumption `OwnObjects`: the channels are read
  through different objects (without it `RecvShared` refutes the claim).
  *Argument.* All indices are measured by their distance from `SW_NEXT`. In that
  distance lent buffers, the cached `hwIdx`, the driver's `hwIdx`, the index
  `poll_packets` works towards and `HW_CMPLT` are in this order, and buffer k
  holds packet `released + k`. The properties alone are not inductive: that a
  buffer handed out holds the right packet needs that the cache is behind the
  driver, that it is behind the card, and that the card stops at `SW_NEXT`.
* `SendRingProofs`: `Invariance`, `Faithful`, `NeverMistaken`, `RefusesWhenFull`,
  `CopySafe` and `Refinement` (`Spec => ImplementsFifo`). Assumption `OneWriter`
  (`SendStale` refutes the claim for two, even in turn).
  *Argument.* By the distance to `SW_NEXT`, `HW_NEXT` is at most as far as the
  driver's `hwIdx`, and that at most as far as the writer's copy; the buffers from
  `HW_NEXT` on have their `Complete` bits down and hold what was accepted last, so the
  walk over the bits ends at `HW_NEXT` exactly. That room is seen only where there is
  some, though copies are stale, follows from the order; that the card sends the
  buffer that was filled, from the writer's copy of `swIdx` being `SW_NEXT` at each
  step of a call but the last two.
* `EventPollProofs`: `TypeCorrect`, `Invariance`, `Exclusive`, `NoDoubleArm`,
  `Quiet`, `Wakes`. *Argument.* There is one baton: the raised guard, the armed
  timer, or a context between taking the guard and handing the baton on. At most
  one of these holds at any time, at least one until `mu2e_event_down`; and once
  handler and timer are gone, nothing makes a new one.
* `DcsLockProofs`: `TypeCorrect`, `NestsSafely`; `Exclusion`: with every DTC at most one
  thread of all processes is in a transaction, and the driver's flag is set, until
  somebody forces that DTC's lock open (a wait that reaches its limit does, by design)
  or a thread goes ahead on it with the lock of another DTC (`callOn`); `OwnerUntilEnd` for the only thread of a process (for others `LockRace`
  refutes it). *Argument.* `spoiled` holds the DTCs of which one of the two has
  happened. Of any other, only the ioctl that found the driver's flag clear lets a
  thread in; nobody inside then can have got there otherwise, and who clears the flag
  is the one inside, because a thread alone can own a library half and a library half
  is owned for the DTC its owner called last.
* `DcsCallsProofs`: `Invariance`, `Replies`, `Counted`, `Selected`, `FirstLook`, `GivesUp`, for any
  number of callers, calls and faults, with no assumption of its own.
  *Argument.* A call that entered with nobody inside and found nothing asked once its
  ring was empty starts from equal indices; its request is then the only one, so what
  comes is the reply to it, the only one in the ring, and the call reads it first.
  Who comes in on it marks it `exposed`. As long as no two were inside at once, the
  cached `swIdx` of the one inside is the driver's, so that `read_release` after an
  invalid packet gives back what the card filled. `ReadExtROCRegister` adds which of
  its registers the ROC has by then been told.
* `ReadoutProofs`: `Invariance`, `ListLent`, `HandsWhole`, `NoneLost`, for every ring,
  buffer size, number of buffers and deaths, and for the three readers. Assumption on
  the constants: an event has at least one word and at most `NoLimit`, the limit a
  `size_t` gets when eight is taken from a byte count of zero, which no event exceeds.
  *Argument.* Four parts, the later resting on the earlier. The card: a buffer starts
  an event, or goes on where the one before it ended. The channel: the list is what is
  lent, which is the buffers `Released + 1 .. Taken`, and those are not filled again
  while they are held, so that a look into memory shows what was sent. The gathering:
  when the first buffer of a call started an event (`aligned`), the words copied are
  the beginning of that one event, up to the end of the last buffer taken, and no
  held buffer has a word of another; so the copy is whole when it is long enough. The
  delivery: unless a call told of something unusual, the events of all buffers that
  went back have been delivered, between two calls those of the held ones too, and the
  next buffer starts an event. The last is what makes the next call `aligned`, and
  being `aligned` is what makes the event it returns the one the buffers held.
* `RegisterAccessProofs`: `Invariance`, `Agreement`, `NotRefusedByOther`, `Released`, for
  every set of links and of settings left out, and any number of failing accesses.
  Hypothesis `TablesFit`: readers of a setting agree on its bits, writers of the same
  register leave its bits alone or complement them as the getter does, resets end
  with their bits clear. The same of the setting watched and the rows
  performed is a conjunct of the invariant (`Fit`), and as `Registers` starts with each
  setting of both cards, each writer of it, and each writer of its register beside it,
  TLC evaluates all of `TablesFit` there; with the settings of section 5 left in it is false.
  *Argument.* The driver's lock is held exactly from a verified write to its read back,
  so that only the card can change the register in between, and only its own bits: a
  comparison fails because of them or not at all. A copy that is not marked stale is
  the register, up to the card's bits; hence writing it back leaves a neighbour's
  setting as it was, and only a stale one (`lost`) can undo it. That the getters agree
  is not inductive alone: it needs the copies of writers that are under way.
* `RingIndexProofs`: what a forward step of `idx_add` returns, and how steps change
  the distances the arguments above are told in.

Only model-checked: liveness (`EveryPacketDelivered`, `EveryAcceptedSent`,
`EveryPacketPolled`, `RemoveReturns`, `OrphanIsFreed`, `BeginReturns`,
`EveryBufferBack`), which rests on fairness and so on `ENABLED`, out of the prover's
reach; and `TablesFit`, which speaks of tables and is evaluated. Every safety
invariant and every action property that a run checks is also a theorem. Type
correctness of `RecvRing`, `SendRing`, `DcsCalls`, `EventPoll` and `DcsLock` is proved,
and not run besides; that of `Readout` and `RegisterAccess` is a conjunct of the
invariant that is run and proved. That a reader's cache stays behind the driver
(`CacheSafe`) is proved only.

## 5. Abstractions

* A process dies outside an ioctl only: the driver's ioctls do not sleep halfway
  through the steps modelled. The walk over `Complete` bits in `GET_INFO` and
  `BUF_XMIT` is one step: a bit set while it walks is found by the next walk.
* `write_data`'s fifteen repetitions of a `BUF_XMIT` that finds the descriptor busy
  are one (`XmitCheck`); `RefusedOnlyWhenFull` says that one writer never needs them.
* `Dma_mIntEnable/Disable/Ack` read the register before they write it; the bits
  modelled are written whatever was read, so each is one step. Whether
  `Dma_mIntAck` clears an interrupt that was held back is left to the card.

**DcsCalls.** The ROC's writes take effect in the order the requests are sent, so a
write is done when it is sent. What may be wrong with a reply (status, packet
type, link) is one bit, `flagged`. A buffer keeps what a longer reply left behind a
shorter one. `ReadROCRegisters` and `WriteROCRegisters` send only their first
register: the reply to the former names one address and so never matches. The wait
for an acknowledgement looks at a pointer it has given away when the
acknowledgement is the right one (`DTC.cpp:606-613`), which ends the process
(`DiesOfAck`). A request that cannot be sent leaves the lock taken (`unsent`).
Once a buffer is on hand, `ReadNextPacket` reads on by an index behind the end of its
list (`DTC.cpp:1460-1483`), and what it finds depends on memory nobody wrote for it: the
model lets it come to the same packet or another place of that buffer, to nothing
(which throws), or to its death (`DiesAstray`), and bounds nothing. That calls end
(`EveryCallEnds`) is therefore not so. `ReadsOnAstray` says who comes that far:
`ReadROCRegisters`, whose reply never matches, and a call that took the answer to an
earlier request. Buffers of the DAQ channel that the same object holds are counted
with its DCS buffers (`mu2edev.cpp:217-224`); how many there are is the environment's
choice at each look, up to `MaxHeld`. The callers are processes with one thread and one
DTC each; what threads and several DTCs do to the lock is `DcsLock`'s matter. Three
harms happen in the model and no property denies them, because nothing in the code or
its documents does: a reply still on its way is taken by the next request (`exposed`), an
extended access is disturbed between its transactions (`disturbed`), an unsent request
keeps the lock. Left out: `dcs_main`'s own `read_data`/`read_release` pairs; the caches
of the send ring (`SendRing`); `ReadNextPacket`'s question whether it got the same buffer
again, whose answer is always no.

**Readout.** A word of data is the event it belongs to and its place in it. An event
or subevent begins a buffer, as `DTC.h` says of a DMA; the CFO stacks records in one.
Buffers are reused with their old contents, so a short payload has stale words behind
it. What the code reads as a header may be anything when it is stale; a tag is
looked at only inside the buffer. Three consequences of the code that narrow the
properties: `GetData` always reads on behind its event, with a byte count of zero
less the header's eight, so `ReturnedWhole` speaks of its first event only;
an event whose tag is not the one asked for is passed over and its buffer released
by the next call, although `DTC.cpp:985` says that the next call begins with it, so
`NothingLost` speaks of the time until a call tells of something unusual
(`troubled`: an exception, a wrong tag, a timeout inside an event); and a timeout in
the middle is what `ReadoutTimeout` is about. The branch for a new buffer
that "is the same as old" (`DTC.cpp:953`, 1225) is left out, because it is never taken: a
call takes a first buffer only when its list is empty, and then there is no old one; the
next buffer of an event is not among those held, which `RecvFifo` does not lend twice.
The library's read errors do not occur
on the DAQ channel; a byte count of zero, and a sixteen-bit count that a full 64 KiB
buffer wraps, are the card's and not modelled. The size checks of CFO records are
left out because the modelled card sends records that pass them.

**Registers.** The content of a register is the set of its bits that are 1. What a
setter throws for an illegal argument, and enumerations, units and scaling, are left
out. `lost` records that a caller wrote back a word that was out of date: then the
other's setting is gone, which nothing in the library prevents, and `ReadersAgree`
speaks of the rest. A reset whose second access fails, or into which a stale word is
written, stays asserted: `ResetsReleased` is about the others. `AnswerLost` is an answer
that cannot be copied out of the driver (`mu2e_main.c:366`): the write is repeated from the
word already composed, or given up. `SetJitterAttenuatorSelect` does nothing when the
attenuator is locked to its source (`SkipWrites`). What `HardReset` does to other registers, and the automatic
increment of the run plan's data register, are the card's. The control register may
not read as all ones, which `ReadRegister_` takes for a dead card. Settings whose
accessors disagree whatever anybody else does (`MCRegisters.Disagreeing`) are left out
of the run, and only those:

* *The setter writes other bits than the getter returns.* `ROCInterfaceSoftReset` sets
  and clears bit 12, the getter returns bit 11 (`DTC_Registers.cpp:713-725`);
  `SetExternalCFOSampleEdgeMode` complements a bit that its getter does not (769-782),
  `EnableCFOLoopback` clears the bit its getter returns as it is (257-282);
  `ResetPCIe` pulses four bits, one of them the getter's; `EnableDetectorEmulator` and
  `DisableDetectorEmulator` set a bit each of two registers, the getter shows the first
  (3485-3510); `SetTXRXFireflySelect` writes bit 9, TX's, and zeroes around it
  (`CFOandDTC_Registers.cpp:1428`); `SetEVBSERDESTXPRBSSEL` and its two
  neighbours hold the register in eight bits (`DTC_Registers.cpp:5185`);
  `ReadEVBLocalParitionID` masks its own field away (2100); `SetCFOEmulationDebugType`
  writes four bits of a field that is read whole (3304-3317); the two error timestamps of
  the ROC emulator share their register with enables that the setter overwrites;
  `EventModeLookupByteSelect` likewise.
* *The dump reads another register or other bits than the getter*: the dumps of the
  CFO's DMA read address and byte count show the write address
  (`CFO_Registers.cpp:1822-1843`), TX and RX FireFly are exchanged
  (`CFOandDTC_Registers.cpp:1539-1543`), and those `DumpDiffers` lists besides.
* *The fields of neighbouring links overlap*: `SetTXPRBSMode` and `SetRXPRBSMode`
  shift a field of three bits by the link's number (`DTC_Registers.cpp:4497`).

**Not modelled**: simulator mode of `mu2edev`; the branch of
`begin_dcs_transaction` for a driver without DCS ioctls; engine errors and the
reset `checkDmaEngine` answers them with (it leaves the card's registers in a
state the code does not tell); two unserialised `BUF_XMIT`s ("FIX ME" in
`mu2e_main.c`: what two ioctls store at once depends on the compiler's order of
plain stores); failures of allocation; the oscillator's serial bus, IIC and firmware
sequences; the upload of a run plan; `ReadNextPacket` of the CFO.

## 6. Plan

Done: the rings, the scheduling of their poll routine, the DCS lock, the calls over
them (`DcsCalls`, `Readout`) and the register maps, each with its safety proved.
Left, most important first, each with the statement it should be held against:

1. `SendRing` with unserialised `BUF_XMIT`s, once the order of their stores is settled.
2. `SoftwareCfo`: request thread, abort flag and `WaitForRequestsToBeSent`; that the
   wait ends. `SimFile`: the transfer's retries over `SendRing` and `Readout`.
3. `RunPlan`: labels, loop stack and line numbers of the compiler as functions, against
   a reference definition of a run plan's meaning.
4. `Simulator`: `mu2esim` as another implementation of `RecvFifo`.
5. `Probe`: resources acquired and given back on each failure path.
