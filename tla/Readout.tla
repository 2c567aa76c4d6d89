------------------------------ MODULE Readout ------------------------------
(***************************************************************************)
(* How the library reads data of the DAQ channel: DTC::GetData,            *)
(* DTC::GetSubEventData and CFO::GetData, with the list of held buffers    *)
(* and the read pointer of CFOandDTC_DMAs.  The channel is the FIFO of     *)
(* RecvFifo (which RecvRing implements): the card fills buffers, read_data *)
(* lends the next one and read_release gives the oldest back.              *)
(*                                                                         *)
(* Data are words.  Word i of event e is <<e, i>>; from the first word     *)
(* (the header) the library reads the event's length and tag, from any     *)
(* other whatever it happens to say.  An event or subevent starts a buffer *)
(* and goes on in the next ones; the CFO puts several one-word records in  *)
(* a buffer.  A caller has pointers into the held buffers where the event  *)
(* lies in one, a copy where it does not.                                  *)
(***************************************************************************)
EXTENDS Integers, Sequences, FiniteSetsExt

CONSTANTS
  Readers,     \* which of the calls are made: "event", "subevent", "record"
  Capacity,    \* buffers the ring can hold for the reader
  Room,        \* words in a buffer
  Lens,        \* lengths of events, in words
  Wanted,      \* tags callers ask for; 0 asks for whatever comes next
  MaxBuffers,  \* buffers the card fills in all
  MaxDeaths    \* how often the reading process dies

NoLimit == 1000000  \* a count of zero less the header, as a size_t: beyond any event

ASSUME ReadoutAssumption ==
  /\ Readers \subseteq {"event", "subevent", "record"}
  /\ Capacity \in Nat \ {0} /\ Room \in Nat \ {0}
  /\ Lens \subseteq 1 .. NoLimit /\ Wanted \subseteq Nat
  /\ MaxBuffers \in Nat /\ MaxDeaths \in Nat

Daq == "DAQ"
Zero == <<0, 0>>       \* memory nothing was ever written to
Beyond == <<0, 1000>>  \* memory behind the buffer
NoPtr == [buffer |-> 0, at |-> 0]
NoHeader == [len |-> 0, tag |-> 0]

VARIABLES
  produced, released, lent,  \* the channel, as in RecvFifo
  evs,       \* lengths of the events the card has begun
  sent,      \* sent[n]: the words the card put into the n-th buffer
  reader,    \* the call this process makes
  list,      \* DMAInfo::buffer, as the numbers of the buffers
  cur,       \* DMAInfo::currentReadPtr
  pc, tries, when,
  want,      \* header of the event that is being put together
  data,      \* what has been copied of it
  out,       \* what the call returns, or has returned
  deaths,
  \* History of this model, not of the code:
  aligned,   \* the call's first buffer starts an event
  cut,       \* in this call a wait in the middle of an event timed out
  troubled,  \* some call has thrown, been cut, or passed over a wrong tag
  delivered  \* until then: the events returned whole

fifoVars == <<produced, released, lent>>
cardVars == <<evs, sent>>
callVars == <<cur, pc, tries, when, want, data, out, aligned, cut>>
vars == <<fifoVars, cardVars, reader, list, callVars, deaths, troubled, delivered>>

Fifo == INSTANCE RecvFifo WITH Channel <- {Daq}

Init ==
  /\ Fifo!Init
  /\ evs = <<>> /\ sent = <<>>
  /\ reader \in Readers
  /\ list = <<>> /\ cur = NoPtr
  /\ pc = "idle" /\ tries = 0 /\ when = 0 /\ want = NoHeader /\ data = <<>>
  /\ out = <<>> /\ deaths = 0
  /\ aligned = FALSE /\ cut = FALSE /\ troubled = FALSE /\ delivered = {}

----------------------------------------------------------------------------
(* The card.                                                               *)
Words(e, from) == [k \in 1 .. Min({Room, evs[e] - from + 1}) |-> <<e, from + k - 1>>]
LastWord == LET b == sent[Len(sent)] IN b[Len(b)]
Finished == evs # <<>> => LastWord[2] = evs[Len(evs)]

FillOn ==      \* the next buffer of an event that did not fit into one
  /\ ~Finished
  /\ sent' = Append(sent, Words(Len(evs), LastWord[2] + 1))
  /\ UNCHANGED evs

FillEvent ==   \* an event or subevent starts a buffer
  /\ Finished /\ reader # "record"
  /\ \E len \in Lens :
       /\ evs' = Append(evs, len)
       /\ sent' = Append(sent, [k \in 1 .. Min({Room, len}) |-> <<Len(evs) + 1, k>>])

FillRecords == \* the CFO stacks records
  /\ reader = "record"
  /\ \E n \in 1 .. Room :
       /\ evs' = evs \o [k \in 1 .. n |-> 1]
       /\ sent' = Append(sent, [k \in 1 .. n |-> <<Len(evs) + k, 1>>])

Fill ==
  /\ produced[Daq] < MaxBuffers
  /\ Fifo!Produce(Daq)
  /\ FillOn \/ FillEvent \/ FillRecords
  /\ UNCHANGED <<reader, list, callVars, deaths, troubled, delivered>>

----------------------------------------------------------------------------
(* Memory.  The ring has one more buffer than the reader can be lent.  A   *)
(* buffer that is filled with less than before shows the rest of the old   *)
(* contents behind the new.                                                *)
Memory(n, at) ==
  LET writers == {m \in 1 .. produced[Daq] :
                    (m - n) % (Capacity + 1) = 0 /\ at <= Len(sent[m])} IN
  IF at > Room THEN Beyond ELSE IF writers = {} THEN Zero ELSE sent[Max(writers)][at]

\* What an event header at a place in memory can say: length and tag.  Data read
\* as a header can say anything, but the tag asked for only inside the buffer.
Header(n, at) ==
  LET w == Memory(n, at) IN
  CASE w = Zero -> {[len |-> 0, tag |-> 0]}
    [] w[2] = 1 -> {[len |-> evs[w[1]], tag |-> w[1]]}
    [] OTHER -> [len : {0} \cup Lens, tag : IF w = Beyond THEN {when + 1} ELSE {when, when + 1}]

\* An event in the caller's hands: a place in a held buffer, or a copy.
Contents(item) ==
  IF item.copy # <<>> THEN item.copy
  ELSE [k \in 1 .. item.len |-> Memory(item.buffer, item.at + k - 1)]

Event(e) == [k \in 1 .. evs[e] |-> <<e, k>>]
Whole(words) == \E e \in DOMAIN evs : words = Event(e)

----------------------------------------------------------------------------
(* The list of held buffers.                                               *)
\* GetCurrentBuffer: how many there are, -1 for none.
GetCurrentBuffer == IF list = <<>> THEN -1 ELSE Len(list)

\* GetBufferByteCount less the header, for a place of the list counted from 0.
\* A read that starts with buffers on hand asks for the place behind the last
\* one: the answer 0 less the header is a number without a limit.
Payload(l, index) == IF index < Len(l) THEN Len(sent[l[index + 1]]) ELSE NoLimit

GiveBackOne(n) ==           \* mutant: gives back one buffer, but forgets all
  Fifo!Release(Daq, 1) /\ list' = SubSeq(list, n + 1, Len(list))
GiveBack(n) == Fifo!Release(Daq, n) /\ list' = SubSeq(list, n + 1, Len(list))
Held == GetCurrentBuffer
ReleaseBuffersForgets ==    \* mutant: forgets them, but does not give them back
  list' = <<>> /\ UNCHANGED fifoVars
ReleaseBuffersAll ==        \* mutant: gives back all that has come
  list' = <<>> /\ released' = produced /\ lent' = [lent EXCEPT ![Daq] = <<>>] /\ UNCHANGED produced
ReleaseBuffers ==
  IF Held > 0 THEN GiveBack(Held) ELSE UNCHANGED <<fifoVars, list>>

\* ReadBuffer, when read_data finds a buffer in one of its tries ...
NextBuffer == released[Daq] + Len(lent[Daq]) + 1
Ready == NextBuffer <= produced[Daq]
ReadBufferUnlisted ==       \* mutant: lists the first buffer of an event only
  Fifo!Lend(Daq) /\ list' = IF pc = "more" THEN list ELSE Append(list, NextBuffer)
ReadBuffer == Fifo!Lend(Daq) /\ list' = Append(list, NextBuffer)
\* ... and when it does not.
NoBuffer == ~Ready /\ UNCHANGED <<fifoVars, list>>

----------------------------------------------------------------------------
(* The steps of a call.                                                    *)
Return(items, trouble) ==
  /\ pc' = "idle" /\ out' = items
  /\ cur' = NoPtr /\ tries' = 0 /\ when' = 0 /\ want' = NoHeader /\ data' = <<>>
  /\ troubled' = (troubled \/ trouble)
  /\ delivered' = IF troubled' THEN {}
                  ELSE delivered \cup {e \in DOMAIN evs :
                         \E k \in DOMAIN items : Contents(items[k]) = Event(e)}

GoOn == UNCHANGED <<troubled, delivered>>

\* What GetData and GetSubEventData do with an event, ptr being where it ends.
Accept(item, tag, ptr) ==
  \/ /\ pc = "next" /\ tag # when       \* the first of another window
     /\ Return(out, FALSE)
  \/ /\ pc # "next" /\ when \notin {0, tag}
     /\ Return(<<>>, TRUE)
  \/ /\ reader = "subevent" /\ when \in {0, tag}
     /\ Return(<<item>>, FALSE)
  \/ /\ reader = "event"
     /\ IF pc = "next" THEN when = tag ELSE when \in {0, tag}
     /\ out' = Append(out, item) /\ when' = tag
     /\ pc' = "next" /\ cur' = ptr /\ want' = NoHeader /\ data' = <<>>
     /\ GoOn /\ UNCHANGED tries

\* An exception leaves GetSubEventData; of GetData's, only a runtime_error does.
Throw == Return(<<>>, TRUE)
Corrupt == Return(IF reader = "event" THEN out ELSE <<>>, TRUE)

\* SetupEvent and SetupSubEvent accept what is whole; of the rest they may see
\* that something is wrong.
Setup(item, tag, ptr) ==
  \/ Accept(item, tag, ptr)
  \/ ~Whole(Contents(item)) /\ Corrupt

\* Reading an event's header at ptr, with the buffers l in the list.
Parse(l, ptr, index) ==
  \E h \in Header(ptr.buffer, ptr.at) :
    \/ /\ h.len = 0
       /\ Throw
    \/ /\ h.len \in 1 .. Payload(l, index)
       /\ Setup([buffer |-> ptr.buffer, at |-> ptr.at, len |-> h.len, copy |-> <<>>],
                h.tag, [ptr EXCEPT !.at = @ + h.len])
    \/ /\ h.len > Payload(l, index)
       /\ pc' = "more" /\ want' = h /\ cur' = ptr
       /\ data' = [k \in 1 .. Payload(l, index) |-> Memory(ptr.buffer, ptr.at + k - 1)]
       /\ GoOn /\ UNCHANGED <<tries, when, out>>

Call(w) ==
  /\ pc = "idle"
  /\ ReleaseBuffers
  /\ pc' = "first" /\ when' = w /\ out' = <<>>
  /\ aligned' = FALSE /\ cut' = FALSE
  /\ UNCHANGED <<cardVars, reader, cur, tries, want, data, deaths, troubled, delivered>>

Unaltered == UNCHANGED <<cardVars, reader, deaths>>

\* ReadNextDAQDMA and ReadNextDAQSubEventDMA take the first buffer of an event.  The
\* list is empty then, so there is no old buffer that the new one could be the same as;
\* in TakeMore it cannot be a held one, which the card does not get to fill again.
TakeFirst ==
  /\ pc = "first" /\ GetCurrentBuffer < 0 /\ reader # "record"
  /\ ReadBuffer
  /\ aligned' = (sent[NextBuffer][1][2] = 1)
  /\ Parse(list', [buffer |-> NextBuffer, at |-> 1], Len(list') - 1)
  /\ Unaltered /\ UNCHANGED cut

\* ReadNextCFORecordDMA copies the records of a buffer.  A tag that does not match
\* is only logged.
TakeRecords ==
  /\ pc = "first" /\ GetCurrentBuffer < 0 /\ reader = "record"
  /\ ReadBuffer
  /\ aligned' = TRUE
  /\ Return([k \in 1 .. Payload(list', Len(list') - 1) |->
              [buffer |-> NextBuffer, at |-> k, len |-> 1, copy |-> <<sent[NextBuffer][k]>>]],
            FALSE)
  /\ Unaltered /\ UNCHANGED cut

AnotherTry == tries < 2

\* No buffer came, in one of three tries.
NothingCame ==
  /\ pc = "first" /\ GetCurrentBuffer < 0
  /\ NoBuffer
  /\ \/ /\ AnotherTry
        /\ tries' = tries + 1
        /\ GoOn /\ UNCHANGED <<pc, cur, when, want, data, out>>
     \/ /\ ~AnotherTry
        /\ Return(<<>>, FALSE)
  /\ Unaltered /\ UNCHANGED <<aligned, cut>>

\* A try, or the look for a next event, that starts with buffers on hand.
OnHand ==
  /\ pc \in {"first", "next"} /\ GetCurrentBuffer > 0
  /\ IF reader = "event" THEN Parse(list, cur, GetCurrentBuffer)
     ELSE pc' = "impossible" /\ UNCHANGED <<cur, tries, when, want, data, out, troubled, delivered>>
  /\ Unaltered /\ UNCHANGED <<fifoVars, list, aligned, cut>>

\* The next buffer of an event.
CopySizeShort(n) ==         \* mutant: takes the header off twice
  Min({want.len - Len(data), Len(sent[n]) - 1})
CopySize(n) == Min({want.len - Len(data), Len(sent[n])})

TakeMore ==
  /\ pc = "more"
  /\ ReadBuffer
  /\ LET n == NextBuffer
         got == data \o SubSeq(sent[n], 1, CopySize(n))
         ptr == [buffer |-> n, at |-> CopySize(n) + 1]
     IN IF Len(got) < want.len
        THEN /\ data' = got /\ cur' = ptr
             /\ GoOn /\ UNCHANGED <<pc, tries, when, want, out>>
        ELSE Setup([buffer |-> n, at |-> 0, len |-> want.len, copy |-> got], want.tag, ptr)
  /\ Unaltered /\ UNCHANGED <<aligned, cut>>

\* It does not come: GetSubEventData throws, GetData tries again.
NoMore ==
  /\ pc = "more"
  /\ NoBuffer
  /\ \/ /\ reader = "event" /\ AnotherTry
        /\ tries' = tries + 1 /\ pc' = "first" /\ want' = NoHeader /\ data' = <<>>
        /\ troubled' = TRUE /\ delivered' = {}
        /\ UNCHANGED <<cur, when, out>>
     \/ /\ ~(reader = "event" /\ AnotherTry)
        /\ Return(<<>>, TRUE)
  /\ cut' = TRUE
  /\ Unaltered /\ UNCHANGED aligned

Reset ==
  /\ list' = <<>> /\ out' = <<>>
  /\ pc' = "idle" /\ cur' = NoPtr /\ tries' = 0 /\ when' = 0
  /\ want' = NoHeader /\ data' = <<>>
  /\ aligned' = FALSE /\ cut' = FALSE
  /\ UNCHANGED <<cardVars, reader>>

\* The process dies, and another one starts with an object of its own.
Die ==
  /\ deaths < MaxDeaths /\ deaths' = deaths + 1
  /\ Fifo!Forget(Daq)
  /\ Reset /\ UNCHANGED <<troubled, delivered>>

\* Between calls: everything that has come is given back, read or not.
ReleaseAllBuffers ==
  /\ pc = "idle"
  /\ released' = produced /\ lent' = [lent EXCEPT ![Daq] = <<>>]
  /\ troubled' = TRUE /\ delivered' = {}
  /\ Reset /\ UNCHANGED <<produced, deaths>>

Read == TakeFirst \/ TakeRecords \/ NothingCame \/ OnHand \/ TakeMore \/ NoMore

Next ==
  \/ Fill
  \/ \E w \in Wanted : Call(w)
  \/ Read
  \/ Die
  \/ ReleaseAllBuffers

\* A call goes on, and the process calls again and again.
Fairness == WF_vars(Read) /\ WF_vars(\E w \in Wanted : Call(w))

Spec == Init /\ [][Next]_vars /\ Fairness

----------------------------------------------------------------------------
Word == {Zero, Beyond} \cup UNION {{e} \X (1 .. evs[e]) : e \in DOMAIN evs}
Ptr == [buffer : 0 .. MaxBuffers, at : Nat]
Item == [buffer : 0 .. MaxBuffers, at : Nat, len : Nat, copy : Seq(Word)]

\* Types.
RingType ==
  /\ produced[Daq] \in 0 .. MaxBuffers /\ Len(sent) = produced[Daq]
  /\ released[Daq] \in 0 .. produced[Daq]
  /\ evs \in Seq(Lens \cup {1})
  /\ \A n \in DOMAIN sent : Len(sent[n]) \in 1 .. Room
  /\ reader \in Readers
  /\ list \in Seq(1 .. MaxBuffers)

CallType ==
  /\ cur \in Ptr
  /\ pc \in {"idle", "first", "more", "next", "impossible"}
  /\ tries \in 0 .. 2 /\ when \in Nat
  /\ want \in [len : Nat, tag : Nat] /\ data \in Seq(Word)
  /\ out \in Seq(Item)
  /\ deaths \in 0 .. MaxDeaths
  /\ {aligned, cut, troubled} \subseteq BOOLEAN
  /\ delivered \subseteq DOMAIN evs

TypeOK == RingType /\ CallType

\* The library's list (info->buffer of ReadBuffer and ReleaseBuffers) names the
\* buffers that the device has lent it, in their order, whatever way a call ended:
\* what it forgets would never be given back, what it names too often would be
\* given back unread.  And what ReadNextDAQSubEventDMA and ReadNextCFORecordDMA call
\* impossible ("Impossible buffer already onhand!") never happens: none of their
\* tries starts with a buffer in the list.
ListIsLent == list = lent[Daq] /\ pc # "impossible"

\* What a caller has in its hands is whole from the return of GetSubEventData or
\* CFO::GetData until it calls again, however the card goes on filling buffers,
\* if the first buffer was the start of an event.  Of GetData this is said of the
\* first event (it reads on behind it), and only if no wait timed out in its middle.
ReturnedWhole ==
  pc = "idle" /\ aligned =>
    \A k \in DOMAIN out :
      (reader = "event" => k = 1 /\ ~cut) => Whole(Contents(out[k]))

\* As long as every call has told of nothing unusual, all events whose buffers
\* went back to the card had been returned whole: nothing is lost in silence, not
\* even when the reading process dies.
NothingLost ==
  ~troubled => \A n \in 1 .. released[Daq] :
                 \A k \in DOMAIN sent[n] : sent[n][k][1] \in delivered

\* Every buffer goes back to the card in the end, also those of an event that is
\* longer than the ring, or that a call gave up.
EveryBufferBack ==
  \A n \in 1 .. MaxBuffers : produced[Daq] >= n ~> released[Daq] >= n

\* GetData alone: a wait that times out in the middle of an event gives no event
\* (DTC.h:255, "nullptr if no data/timeout").
TimeoutGivesNone == pc = "idle" /\ aligned /\ out # <<>> => Whole(Contents(out[1]))
=============================================================================
