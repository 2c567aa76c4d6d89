---------------------------- MODULE DcsCallsInv ----------------------------
(***************************************************************************)
(* The inductive invariant behind what DcsCalls promises: why a call that  *)
(* empties the ring gets the reply to its own request, and why the ring's  *)
(* indices keep to the number of replies in it.                            *)
(***************************************************************************)
EXTENDS DcsCalls

\* A call that has emptied the ring and is about to send a request.
Drained(c) == pc[c] = "send" /\ drains(Head(todo[c]))

\* A reply is to the access that the call makes now; if it is to the read of an
\* extended register, it shows the register the caller selected.
Own(c, reply) ==
  /\ reply.id = mine[c] /\ reply.at = Head(todo[c]).at
  /\ reply.at = "ext" /\ ~disturbed[c] => reply.ext = <<c, c>>

\* What is left of a call while it makes its accesses.
Plan1(c) == <<Access("read", "ext", None)>>
Plan2(c) == <<Access("write", "strobe", c), Access("read", "ext", None)>>
Plan3(c) == <<Access("write", "block", c), Access("write", "strobe", c),
              Access("read", "ext", None)>>
Plans(c) == Single(c) \cup {Plan1(c), Plan2(c), Plan3(c)}

(* The selection of an extended register, step by step, as long as no      *)
(* other caller writes the ROC's block and strobe registers.               *)
SelectInv(c) ==
  /\ pc[c] # "idle" => todo[c] \in Plans(c)
  /\ pc[c] # "idle" /\ ~disturbed[c] =>
       /\ todo[c] = Plan2(c) \/ (todo[c] = Plan3(c) /\ pc[c] = "end") => roc.block = c
       /\ todo[c] = Plan1(c) \/ (todo[c] = Plan2(c) /\ pc[c] = "end") => roc.latch = <<c, c>>

(* Who waits for a reply asked for one; how far it has read in its buffer; *)
(* and it has a reply only when it is about to end.                        *)
ReadInv(c) ==
  /\ pc[c] \in {"receive", "check"} => drains(Head(todo[c]))
  /\ Drained(c) => ~onHand[c]
  /\ pc[c] = "receive" /\ onHand[c] => pos[c] \in 1 .. 2
  /\ pc[c] = "check" => pos[c] \in 1 .. 3
  /\ got[c] # NoReply => pc[c] = "end"
  /\ pc[c] = "end" /\ Head(todo[c]).kind = "pair" => got[c] \in {NoReply, Leftover}

(* Unless two were ever inside at once: one at most is inside, and its     *)
(* cached indices start where the driver's do and do not go beyond them.   *)
OneInside ==
  /\ \A c, d \in Callers : Inside(c) /\ Inside(d) => c = d
  /\ delta(driver) = owed
  /\ \A c \in Callers : Drained(c) \/ pc[c] \in {"receive", "check"} =>
       dev[c].sw = swIdx /\ delta(dev[c]) <= delta(driver)

(* A call that was alone, and found nothing asked when the ring was empty: *)
(* its request or the reply to it is all there is.                         *)
AloneInv(c) ==
  /\ \A d \in Callers : Inside(d) => d = c
  /\ Drained(c) => asked = <<>> /\ hwIdx = swIdx /\ dev[c] = driver
  /\ Head(todo[c]).kind # "pair" =>
       /\ pc[c] = "receive" =>
            /\ ~onHand[c] /\ dev[c] = [hw |-> swIdx, sw |-> swIdx]
            /\ \/ hwIdx = swIdx /\ asked = <<Head(asked)>> /\ Own(c, Head(asked))
               \/ asked = <<>> /\ hwIdx = add(swIdx, 1) /\ Own(c, buf[hwIdx].reply)
       /\ pc[c] = "check" =>
            asked = <<>> /\ cur[c] = hwIdx /\ pos[c] = 1 /\ Own(c, buf[hwIdx].reply)
       /\ pc[c] = "end" /\ got[c] # NoReply => Own(c, got[c])

IInv ==
  /\ DOMAIN todo = Callers /\ DOMAIN got = Callers /\ DOMAIN buf = Idx(NumBuffs)
  /\ DOMAIN roc = {"block", "latch"}
  /\ LockGivenUp
  /\ ~overlap => OneInside
  /\ \A c \in Callers : SelectInv(c) /\ ReadInv(c) /\ (Inside(c) /\ ~exposed[c] => AloneInv(c))
=============================================================================
