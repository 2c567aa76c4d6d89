----------------------------- MODULE ReadoutInv -----------------------------
(***************************************************************************)
(* The inductive invariant of Readout.  It has four parts: how the card    *)
(* lays events out in its buffers; that the library's list names what the  *)
(* channel has lent; what a call has gathered, which is the beginning of   *)
(* one event when its first buffer was; and that what went back to the     *)
(* card had been delivered.                                                *)
(***************************************************************************)
EXTENDS Readout

Produced == produced[Daq]
Released == released[Daq]
Taken == Released + Len(list)    \* the last buffer a call has taken

First(n) == sent[n][1]
Last(n) == sent[n][Len(sent[n])]
EndsEvent(n) == Last(n)[2] = evs[Last(n)[1]]

----------------------------------------------------------------------------
(* The card.                                                               *)
\* A buffer holds words of events; an event or subevent fills it in order.
BufferInv(n) ==
  \A k \in 1 .. Len(sent[n]) :
    /\ sent[n][k][1] \in DOMAIN evs
    /\ sent[n][k][2] \in 1 .. evs[sent[n][k][1]]
    /\ reader # "record" => sent[n][k] = <<First(n)[1], First(n)[2] + k - 1>>

\* A buffer starts an event, or goes on where the one before it ended.
FollowsOn(n) ==
  IF n = 1 \/ EndsEvent(n - 1) THEN First(n)[2] = 1
  ELSE First(n) = <<Last(n - 1)[1], Last(n - 1)[2] + 1>>

CardInv ==
  /\ reader \in Readers
  /\ evs \in Seq(Nat) /\ \A e \in DOMAIN evs : evs[e] \in Lens \cup {1}
  /\ sent \in Seq(Seq(Nat \X Nat)) /\ Len(sent) = Produced
  /\ \A n \in 1 .. Produced :
       Len(sent[n]) \in 1 .. Room /\ BufferInv(n) /\ FollowsOn(n)
  /\ IF Produced = 0 THEN evs = <<>> ELSE Last(Produced)[1] = Len(evs)
  /\ reader = "record" => \A e \in DOMAIN evs : evs[e] = 1

----------------------------------------------------------------------------
(* The channel and the list.                                               *)
ChannelInv ==
  /\ produced \in [{Daq} -> Nat] /\ released \in [{Daq} -> Nat]
  /\ lent \in [{Daq} -> Seq(Nat)] /\ list = lent[Daq]
  /\ Taken <= Produced /\ Produced <= Released + Capacity
  /\ \A k \in 1 .. Len(list) : list[k] = Released + k

----------------------------------------------------------------------------
(* The calls.                                                              *)
\* An item is event e, in a copy or in a buffer that is held.
ItemIs(item, e) ==
  \/ item.copy = Event(e)
  \/ /\ item.copy = <<>> /\ item.at = 1 /\ item.len = evs[e]
     /\ item.buffer \in Released + 1 .. Taken
     /\ evs[e] <= Len(sent[item.buffer])
     /\ \A k \in 1 .. evs[e] : sent[item.buffer][k] = <<e, k>>

HoldsOnly(e) ==
  \A n \in Released + 1 .. Taken : \A k \in 1 .. Len(sent[n]) : sent[n][k][1] = e

\* The first part of event e has been copied, up to the end of the last buffer.
Gathered(e) ==
  /\ want = [len |-> evs[e], tag |-> e]
  /\ Len(data) \in 1 .. evs[e] - 1 /\ data = [k \in 1 .. Len(data) |-> <<e, k>>]
  /\ Last(Taken) = <<e, Len(data)>> /\ HoldsOnly(e)

\* The first event of a call is event e, and the call took no buffer of another.
FirstIs(e) ==
  out # <<>> /\ ItemIs(out[1], e) /\ HoldsOnly(e) /\ EndsEvent(Taken)

ControlInv ==
  /\ pc \in {"idle", "first", "more", "next"}
  /\ pc \in {"first", "more"} => out = <<>>
  /\ pc \in {"more", "next"} => list # <<>> /\ reader # "record"
  /\ pc = "next" => reader = "event"
  /\ pc = "first" /\ list # <<>> => cut /\ reader = "event"
  /\ pc = "more" => Len(data) < want.len
  /\ pc # "idle" /\ list # <<>> => cur.at >= 1

GatherInv ==
  /\ pc = "more" /\ aligned => \E e \in DOMAIN evs : Gathered(e)
  /\ pc = "next" /\ aligned /\ ~cut => \E e \in DOMAIN evs : FirstIs(e)

HandsInv ==
  pc = "idle" /\ aligned =>
    \A k \in DOMAIN out :
      (reader = "event" => k = 1 /\ ~cut) => \E e \in DOMAIN evs : ItemIs(out[k], e)

----------------------------------------------------------------------------
(* What has been delivered.                                                *)
\* The events of the first n buffers are, and the next buffer starts another.
DeliveredTo(n) ==
  /\ \A m \in 1 .. n : \A k \in 1 .. Len(sent[m]) : sent[m][k][1] \in delivered
  /\ n > 0 => EndsEvent(n)

DeliveredInv ==
  /\ cut => troubled
  /\ ~troubled => /\ DeliveredTo(Released)
                  /\ pc = "idle" => DeliveredTo(Taken)
                  /\ pc \in {"more", "next"} => aligned

\* What the channel lent, what a call gathered of it and what went back hang
\* together, for all three readers.
IInv ==
  TypeOK /\ CardInv /\ ChannelInv /\ ControlInv /\ GatherInv /\ HandsInv /\ DeliveredInv
=============================================================================
