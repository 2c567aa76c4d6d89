------------------------------ MODULE DcsCalls ------------------------------
(***************************************************************************)
(* The calls of dtcInterfaceLib/DTC.cpp that read and write the registers  *)
(* of a ROC: each is a transaction on the DCS channel in which a request   *)
(* goes to the card and, for most, a reply comes back through the C2S ring *)
(* of RingIndex.  The callers are processes, each with a DTC object of its *)
(* own and so with a cached copy of the ring's indices of its own; the     *)
(* lock of DcsLock is what they share.                                     *)
(*                                                                         *)
(* The card answers requests in their order, but it may take longer than   *)
(* the caller waits: a reply may come when its caller has given up.        *)
(***************************************************************************)
EXTENDS RingIndex, Sequences, FiniteSets

CONSTANTS
  Callers,     \* the processes
  NumBuffs,    \* buffers of the C2S ring of the DCS channel
  MaxCalls,    \* calls that are made in all
  MaxFaults,   \* processes that die by themselves, requests that cannot be sent,
               \* and replies that carry an error, in all
  MaxHeld      \* buffers that an object holds of its DAQ channel

ASSUME DcsAssumption ==
  /\ NumBuffs \in Nat /\ NumBuffs >= 2
  /\ MaxCalls \in Nat /\ MaxFaults \in Nat /\ MaxHeld \in Nat
  /\ IsFiniteSet(Callers)

None == "none"
ASSUME NoneAssumption == None \notin Callers

\* What a buffer holds before its first reply, and what is left over in it of a
\* longer reply of an earlier lap.
NoReply == [id |-> 0, at |-> None, flagged |-> FALSE, ext |-> <<None, None>>]
Leftover == [NoReply EXCEPT !.at = "leftover"]

VARIABLES
  drv,       \* the driver's half of the lock: the caller that set it, or None
  lib,       \* the library's half in each process
  asked,     \* replies that the card has not sent
  roc,       \* what the ROC's block register and its latch hold
             \* after the requests sent so far
  buf,       \* the reply in each buffer, and whether an older one sticks out
  hwIdx, swIdx,      \* the driver's indices of the ring
  dev,       \* each caller's cached copy of them
  pc, todo,  \* where each caller is, and the accesses its call still has to make
  onHand,    \* the caller's list of held buffers is not empty
  cur, pos,  \* the buffer it reads from, and the packet in it
  calls, faults,    \* counters
  got,       \* the reply the last access returned, or NoReply
  \* History of this model, not of the code:
  mine,      \* the number of the caller's call: one access of a call is replied to
  owed,      \* replies put into the ring less buffers given back
  exposed,   \* an earlier request was unanswered when the caller had emptied the
             \* ring, or another caller was inside at the same time
  overlap,   \* two callers were inside at once
  disturbed, \* another caller wrote the ROC's block or strobe register
  unsent     \* the caller's last call failed to send its request

lockVars == <<drv, lib>>
ringVars == <<buf, hwIdx, swIdx, owed>>
cardVars == <<asked, roc>>
readVars == <<onHand, cur, pos, got>>
countVars == <<calls, faults>>
history == <<mine, exposed, overlap, disturbed, unsent>>
vars == <<lockVars, ringVars, cardVars, dev, pc, todo, readVars, countVars, history>>

add(i, k) == idx_add(NumBuffs, i, k)
delta(i) == delta_C2S(NumBuffs, i.hw, i.sw)
driver == [hw |-> hwIdx, sw |-> swIdx]

Inside(c) == pc[c] \notin {"idle", "begin"}

----------------------------------------------------------------------------
(* The calls, as the accesses they make.  An access has a kind, the ROC's  *)
(* address (which stands for the link too), and a word to write.           *)
Access(kind, at, data) == [kind |-> kind, at |-> at, data |-> data]

\* Kinds that wait for a reply, and first empty the ring.
Replied == {"read", "block", "pair", "ack"}
drainsNot(a) == FALSE                     \* mutant: old replies stay
drains(a) == a.kind \in Replied

\* ReadROCRegister and ReadROCBlock; ReadROCRegisters, which asks for one
\* register and so gets a reply with only one address; WriteROCRegister,
\* WriteROCRegisters (which writes only the first) and WriteROCBlock with an
\* acknowledgement.  Those without one are among the accesses of ReadExt.
Single(c) ==
  {<<Access("read", "A", None)>>, <<Access("block", "B", None)>>,
   <<Access("pair", "A", None)>>, <<Access("ack", "A", c)>>}

\* ReadExtROCRegister, of a register that each caller has for itself: the block
\* is written to one register, the address to another, once without and once
\* with the strobe bit (the first of these two changes nothing that is read,
\* and is left out).  WriteExtROCRegister makes the accesses it starts with.
Select(c) == <<Access("write", "block", c), Access("write", "strobe", c)>>
ReadExtEarly(c) ==                        \* mutant: strobes before the block
  <<Access("write", "strobe", c), Access("write", "block", c), Access("read", "ext", None)>>
ReadExt(c) == Append(Select(c), Access("read", "ext", None))

----------------------------------------------------------------------------
Init ==
  /\ drv = None /\ lib = [c \in Callers |-> FALSE]
  /\ asked = <<>> /\ roc = [block |-> None, latch |-> <<None, None>>]
  /\ buf = [i \in Idx(NumBuffs) |-> [reply |-> NoReply, tail |-> FALSE]]
  /\ hwIdx = NumBuffs - 1 /\ swIdx = NumBuffs - 1
  /\ dev = [c \in Callers |-> driver]
  /\ pc = [c \in Callers |-> "idle"] /\ todo = [c \in Callers |-> <<>>]
  /\ onHand = [c \in Callers |-> FALSE]
  /\ cur = [c \in Callers |-> 0] /\ pos = [c \in Callers |-> 0]
  /\ got = [c \in Callers |-> NoReply] /\ mine = [c \in Callers |-> 0]
  /\ calls = 0 /\ faults = 0 /\ owed = 0
  /\ exposed = [c \in Callers |-> FALSE] /\ overlap = FALSE
  /\ disturbed = [c \in Callers |-> FALSE] /\ unsent = [c \in Callers |-> FALSE]

Go(c, where) == pc' = [pc EXCEPT ![c] = where]

\* The call ends, by returning or by throwing.
Leave(c) == Go(c, "idle") /\ todo' = [todo EXCEPT ![c] = <<>>]

\* What an access returned is the caller's now, and the history of a call ends
\* with it.
Forget(c) ==
  /\ got' = [got EXCEPT ![c] = NoReply]
  /\ cur' = [cur EXCEPT ![c] = 0]
  /\ pos' = [pos EXCEPT ![c] = 0]
  /\ exposed' = [exposed EXCEPT ![c] = FALSE]
  /\ mine' = [mine EXCEPT ![c] = IF pc'[c] = "idle" THEN 0 ELSE @]
  /\ disturbed' = [disturbed EXCEPT ![c] = @ /\ pc'[c] # "idle"]
  /\ UNCHANGED overlap

\* begin_dcs_transaction, as DcsLock describes it: a thread that is named in
\* the library's half is let in; others wait for the driver's half.
enter(c, a) ==
  LET others == {d \in Callers \ {c} : Inside(d)} IN
  /\ lib[c] \/ drv = None
  /\ lib' = [lib EXCEPT ![c] = TRUE]
  /\ drv' = IF lib[c] THEN drv ELSE c
  /\ Go(c, IF drains(a) THEN "drain" ELSE "send")
  /\ overlap' = (overlap \/ others # {})
  /\ exposed' = [d \in Callers |-> IF d = c THEN others # {} ELSE exposed[d] \/ d \in others]
  /\ unsent' = [unsent EXCEPT ![c] = FALSE]
  /\ UNCHANGED <<ringVars, cardVars, dev, readVars, faults, disturbed>>

Start(c) ==
  /\ pc[c] = "idle"
  /\ calls < MaxCalls
  /\ \E accesses \in Single(c) \cup {ReadExt(c)} :
       /\ todo' = [todo EXCEPT ![c] = accesses]
       /\ enter(c, Head(accesses))
  /\ calls' = calls + 1
  /\ mine' = [mine EXCEPT ![c] = calls + 1]

NextAccess(c) ==
  /\ pc[c] = "begin"
  /\ enter(c, Head(todo[c]))
  /\ UNCHANGED <<todo, calls, mine>>

\* Who has waited a second for the driver's half forces the lock open, whoever
\* has it, and throws.
timesOut(c) ==
  /\ ~lib[c] /\ drv # None
  /\ drv' = None
  /\ Leave(c)
  /\ Forget(c)
  /\ UNCHANGED <<lib, ringVars, cardVars, dev, onHand, faults, unsent>>

StartTimesOut(c) ==
  /\ pc[c] = "idle"
  /\ calls < MaxCalls
  /\ calls' = calls + 1
  /\ timesOut(c)

NextTimesOut(c) ==
  /\ pc[c] = "begin"
  /\ timesOut(c)
  /\ UNCHANGED calls

\* end_dcs_transaction of a thread that owns the library's half.
unlock(c) ==
  /\ drv' = IF lib[c] THEN None ELSE drv
  /\ lib' = [lib EXCEPT ![c] = FALSE]
unlockNot(c) == UNCHANGED lockVars        \* mutant: the catch does not end it

End(c) ==
  /\ pc[c] = "end"
  /\ unlock(c)
  /\ todo' = [todo EXCEPT ![c] = Tail(@)]
  /\ Go(c, IF Len(todo[c]) > 1 THEN "begin" ELSE "idle")
  /\ Forget(c)
  /\ UNCHANGED <<ringVars, cardVars, dev, onHand, countVars, unsent>>

\* ReadNextDCSPacket catches whatever is wrong with a reply and ends the
\* transaction; so does ReadROCRegister when a reply is not its own.
unlockOnThrow(c) == unlock(c)

Throw(c) ==
  /\ pc[c] = "throw"
  /\ unlockOnThrow(c)
  /\ Leave(c)
  /\ Forget(c)
  /\ UNCHANGED <<ringVars, cardVars, dev, onHand, countVars, unsent>>

----------------------------------------------------------------------------
(* ReleaseAllBuffers: the list is cleared, and release_all refreshes the   *)
(* cached indices and gives back all buffers until none has come for a     *)
(* while.                                                                  *)
infoNot(c) == dev[c]                      \* mutant: without GET_INFO
info(c) == driver

\* The card may write to buffers that are given back.
GiveBack(c, i, n) ==
  /\ swIdx' = add(swIdx, n)
  /\ buf' = [k \in Idx(NumBuffs) |->
               IF \E m \in 1 .. n : k = add(swIdx, m)
               THEN [buf[k] EXCEPT !.reply = Leftover] ELSE buf[k]]
  /\ dev' = [dev EXCEPT ![c] = [i EXCEPT !.sw = add(@, n)]]
  /\ owed' = owed - n

Drain(c) ==
  /\ pc[c] = "drain"
  /\ onHand' = [onHand EXCEPT ![c] = FALSE]
  /\ IF delta(info(c)) > 0
     THEN GiveBack(c, info(c), delta(info(c))) /\ UNCHANGED <<pc, exposed>>
     ELSE /\ dev' = [dev EXCEPT ![c] = info(c)]
          /\ Go(c, "send")
          /\ exposed' = [exposed EXCEPT ![c] = @ \/ asked # <<>>]
          /\ UNCHANGED <<swIdx, buf, owed>>
  /\ UNCHANGED <<lockVars, cardVars, hwIdx, todo, cur, pos, got, countVars>>
  /\ UNCHANGED <<mine, overlap, disturbed, unsent>>

----------------------------------------------------------------------------
(* The card and the ROC (external) process the requests in their order, so *)
(* what one does is settled when it is sent: a write with the strobe       *)
(* latches the block and the address, and a read of "ext" returns the      *)
(* register they select.                                                   *)
written(a) ==
  CASE a.at = "block"   -> [roc EXCEPT !.block = a.data]
    [] a.at = "strobe"  -> [roc EXCEPT !.latch = <<roc.block, a.data>>]
    [] OTHER            -> roc

request(c, a) == [id |-> mine[c], at |-> a.at, long |-> a.kind = "block", ext |-> roc.latch]

(* WriteDMAPacket.  When write_data keeps failing it throws, and nothing   *)
(* on the way to the caller ends the transaction.                          *)
Send(c) ==
  LET a == Head(todo[c]) IN
  /\ pc[c] = "send"
  /\ roc' = written(a)
  /\ asked' = IF a.kind \in Replied THEN Append(asked, request(c, a)) ELSE asked
  /\ disturbed' = [d \in Callers |-> disturbed[d] \/ (d # c /\ pc[d] # "idle" /\ written(a) # roc)]
  /\ Go(c, IF a.kind \in Replied THEN "receive" ELSE "end")
  /\ UNCHANGED <<lockVars, ringVars, dev, todo, readVars, countVars>>
  /\ UNCHANGED <<mine, exposed, overlap, unsent>>

SendFails(c) ==
  /\ pc[c] = "send" /\ faults < MaxFaults
  /\ faults' = faults + 1
  /\ Leave(c)
  /\ Forget(c)
  /\ unsent' = [unsent EXCEPT ![c] = TRUE]
  /\ UNCHANGED <<lockVars, ringVars, cardVars, dev, onHand, calls>>

----------------------------------------------------------------------------
(* ReadNextDCSPacket.  With no buffer in its list ReadNextPacket takes one *)
(* from the ring: read_data trusts the cached indices if they show one,    *)
(* and asks the driver otherwise.  It takes the first buffers for held,    *)
(* as many as the object holds of its DAQ channel: buffers_held_ counts    *)
(* them for both channels.                                                 *)
seen(c, held) == IF delta(dev[c]) > held THEN dev[c] ELSE driver

\* With a buffer in the list it reads on: behind the reply first; then it goes
\* by the buffer whose index is the length of the list, which is none, and may
\* come to a packet again, the same one or another, or to nothing.
behind(p) == IF p < 2 THEN {p + 1} ELSE {2, 3}

Receive(c) ==
  /\ pc[c] = "receive"
  /\ IF onHand[c]
     THEN /\ \E p \in behind(pos[c]) : pos' = [pos EXCEPT ![c] = p]
          /\ UNCHANGED <<onHand, cur, dev>>
     ELSE \E held \in 0 .. MaxHeld :
          /\ delta(seen(c, held)) > held
          /\ dev' = [dev EXCEPT ![c] = seen(c, held)]
          /\ onHand' = [onHand EXCEPT ![c] = TRUE]
          /\ cur' = [cur EXCEPT ![c] = add(seen(c, held).sw, held + 1)]
          /\ pos' = [pos EXCEPT ![c] = 1]
  /\ Go(c, "check")
  /\ UNCHANGED <<lockVars, ringVars, cardVars, todo, got, countVars, history>>

\* No reply in time: ReadROCRegister ends the transaction and throws, the
\* others end it and return what they have.
noneSeen(c) == \E held \in 0 .. MaxHeld : delta(seen(c, held)) <= held

GiveUp(c) ==
  /\ pc[c] = "receive"
  /\ ~onHand[c] /\ noneSeen(c)
  /\ dev' = [dev EXCEPT ![c] = driver]
  /\ Go(c, IF Head(todo[c]).kind = "read" THEN "throw" ELSE "end")
  /\ UNCHANGED <<lockVars, ringVars, cardVars, todo, readVars, countVars, history>>

\* The packet it looks at is the reply in the buffer, or what lies behind it:
\* what a longer reply left there, which stands for any packet that it may come
\* to farther on, or nothing.
Packet(c) ==
  IF pos[c] = 1 THEN buf[cur[c]].reply
  ELSE IF pos[c] = 2 /\ buf[cur[c]].tail THEN Leftover ELSE NoReply

\* A packet without a length: read_release of the buffer, which stays in the
\* list, and an exception.
Invalid(c) ==
  /\ pc[c] = "check" /\ Packet(c) = NoReply
  /\ IF delta(dev[c]) >= 1 THEN GiveBack(c, dev[c], 1) ELSE UNCHANGED <<swIdx, buf, dev, owed>>
  /\ Go(c, "throw")
  /\ UNCHANGED <<lockVars, cardVars, hwIdx, todo, readVars, countVars, history>>

\* The reply carries an error of the card or the ROC, or its bits are corrupt.
Flagged(c) ==
  /\ pc[c] = "check" /\ Packet(c) # NoReply
  /\ Packet(c) = Leftover \/ Packet(c).flagged
  /\ Go(c, "throw")
  /\ UNCHANGED <<lockVars, ringVars, cardVars, dev, todo, readVars, countVars, history>>

\* Does the reply have the link and the addresses that were asked for?  What is
\* left over of another reply may look like anything.
Matches(c) ==
  IF pos[c] = 1
  THEN {Packet(c).at = Head(todo[c]).at /\ Head(todo[c]).kind # "pair"}
  ELSE BOOLEAN

\* A good reply that is not the one asked for.  ReadROCRegister throws, the
\* others read the next packet.
Mismatch(c) ==
  /\ pc[c] = "check" /\ Packet(c) # NoReply
  /\ ~Packet(c).flagged
  /\ FALSE \in Matches(c)
  /\ Go(c, IF Head(todo[c]).kind = "read" THEN "throw" ELSE "receive")
  /\ UNCHANGED <<lockVars, ringVars, cardVars, dev, todo, readVars, countVars, history>>

Matched(c) ==
  /\ pc[c] = "check" /\ Packet(c) # NoReply
  /\ ~Packet(c).flagged
  /\ TRUE \in Matches(c)
  /\ Head(todo[c]).kind # "ack"
  /\ got' = [got EXCEPT ![c] = Packet(c)]
  /\ Go(c, "end")
  /\ UNCHANGED <<lockVars, ringVars, cardVars, dev, todo, onHand, cur, pos, countVars>>
  /\ UNCHANGED history

----------------------------------------------------------------------------
(* A process dies, and a new one takes its place: a new object with a      *)
(* fresh copy of the indices.  The driver keeps its half of the lock.  (A  *)
(* process that dies outside of a transaction leaves nothing behind.)      *)
die(c) ==
  /\ Leave(c)
  /\ lib' = [lib EXCEPT ![c] = FALSE]
  /\ dev' = [dev EXCEPT ![c] = driver]
  /\ onHand' = [onHand EXCEPT ![c] = FALSE]
  /\ Forget(c)
  /\ UNCHANGED <<drv, ringVars, cardVars, calls, unsent>>

\* A call that waits for an acknowledgement resets the reply's pointer before
\* it asks the reply for its flag: the one that matches is the one it dies of.
DiesOfAck(c) ==
  /\ pc[c] = "check" /\ Packet(c) # NoReply
  /\ ~Packet(c).flagged
  /\ TRUE \in Matches(c)
  /\ Head(todo[c]).kind = "ack"
  /\ die(c) /\ UNCHANGED faults

\* Reading on it leaves the memory that is mapped.
DiesAstray(c) ==
  /\ pc[c] = "receive" /\ onHand[c] /\ pos[c] >= 2
  /\ die(c) /\ UNCHANGED faults

Die(c) ==
  /\ Inside(c) /\ faults < MaxFaults
  /\ faults' = faults + 1
  /\ die(c)

----------------------------------------------------------------------------
(* The card (external).  A reply goes into the next buffer, if the ring is *)
(* not full; one that is shorter than what the buffer held leaves the rest *)
(* of it.                                                                  *)
Answer ==
  LET a == Head(asked)
      i == add(hwIdx, 1) IN
  /\ asked # <<>>
  /\ i # swIdx
  /\ asked' = Tail(asked)
  /\ \E flagged \in BOOLEAN :
       /\ flagged => faults < MaxFaults
       /\ faults' = IF flagged THEN faults + 1 ELSE faults
       /\ buf' = [buf EXCEPT ![i] = [tail |-> a.long \/ @.tail,
                    reply |-> [id |-> a.id, at |-> a.at, flagged |-> flagged, ext |-> a.ext]]]
  /\ hwIdx' = i
  /\ owed' = owed + 1
  /\ UNCHANGED <<lockVars, roc, swIdx, dev, pc, todo, readVars, calls, history>>

----------------------------------------------------------------------------
Step(c) ==
  \/ NextAccess(c) \/ NextTimesOut(c) \/ End(c) \/ Throw(c)
  \/ Drain(c) \/ Send(c) \/ SendFails(c)
  \/ Receive(c) \/ GiveUp(c)
  \/ Invalid(c) \/ Flagged(c) \/ Mismatch(c) \/ Matched(c)
  \/ DiesOfAck(c) \/ DiesAstray(c)

Next ==
  \/ \E c \in Callers : Start(c) \/ StartTimesOut(c) \/ Step(c) \/ Die(c)
  \/ Answer

\* A call in progress goes on.  Nothing is assumed of the card.
Fairness == \A c \in Callers : WF_vars(Step(c))
Spec == Init /\ [][Next]_vars /\ Fairness

-----------------------------------------------------------------------------
TypeOK ==
  /\ drv \in Callers \cup {None} /\ lib \in [Callers -> BOOLEAN]
  /\ {hwIdx, swIdx} \subseteq Idx(NumBuffs)
  /\ dev \in [Callers -> [hw : Idx(NumBuffs), sw : Idx(NumBuffs)]]
  /\ pc \in [Callers -> {"idle", "begin", "drain", "send", "receive", "check", "throw", "end"}]
  /\ onHand \in [Callers -> BOOLEAN] /\ cur \in [Callers -> Idx(NumBuffs)]
  /\ pos \in [Callers -> 0 .. 3] /\ mine \in [Callers -> 0 .. MaxCalls]
  /\ calls \in 0 .. MaxCalls /\ faults \in 0 .. MaxFaults
  /\ owed \in Int
  /\ exposed \in [Callers -> BOOLEAN] /\ overlap \in BOOLEAN
  /\ disturbed \in [Callers -> BOOLEAN] /\ unsent \in [Callers -> BOOLEAN]

(* A read of a register or a block returns the reply to its own request,   *)
(* whatever other callers left in the ring, their faults, and late replies *)
(* before it started: ReleaseAllBuffers is enough, except against a reply  *)
(* that is still on its way when the request is sent.  (Of                 *)
(* ReadROCRegisters nothing of the kind holds.)                            *)
OwnReply ==
  \A c \in Callers :
    pc[c] = "end" /\ got[c] # NoReply /\ Head(todo[c]).kind # "pair" /\ ~exposed[c]
      => got[c].id = mine[c]

(* The callers' cached indices and the releases of invalid packets never   *)
(* give back more than the card filled: the indices of the driver always   *)
(* say how many replies wait, unless two callers were inside at once.      *)
RingCounts == ~overlap => delta(driver) = owed

(* ReadExtROCRegister is four transactions, and another caller may come in *)
(* between; when none writes the same ROC registers, it reads the register *)
(* it selected, although its writes are never acknowledged.                *)
ExtReadsSelected ==
  \A c \in Callers :
    pc[c] = "end" /\ got[c].at = "ext" /\ ~exposed[c] /\ ~disturbed[c]
      => got[c].ext = <<c, c>>

(* A caller that has left its call, whichever way, is not named in the     *)
(* library's half of the lock, unless the request could not be sent.       *)
LockGivenUp == \A c \in Callers : lib[c] /\ ~Inside(c) => unsent[c]

(* Reading on behind a reply, which need never end (DTC.cpp:1460), comes   *)
(* only of an answer to an earlier request, or of ReadROCRegisters, whose  *)
(* answer never matches: whatever other callers left in the ring or in     *)
(* this one's cache, a call that nobody came in on finds its own reply at  *)
(* the first look.                                                         *)
ReadsOnAstray ==
  \A c \in Callers :
    pc[c] = "check" /\ pos[c] >= 2 => exposed[c] \/ Head(todo[c]).kind = "pair"

(* What tmo_ms promises, "(will retry until timeout is expired or data     *)
(* received)" (DTC.h:148): every call returns, throws or dies.  Not so:    *)
(* the loops of ReadROCRegisters, ReadROCBlock and WriteROCRegister read   *)
(* on as long as packets do not match, and no time limit applies to a      *)
(* buffer on hand.                                                         *)
EveryCallEnds == \A c \in Callers : pc[c] # "idle" ~> pc[c] = "idle"
=============================================================================
