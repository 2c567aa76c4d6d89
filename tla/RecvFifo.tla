------------------------------ MODULE RecvFifo ------------------------------
(***************************************************************************)
(* What a C2S (card to system) DMA channel promises its reader: packets    *)
(* are numbered 1, 2, 3 ... in the order the card delivered them; the      *)
(* reader is handed each in turn, none skipped and none twice, and holds   *)
(* it until it gives it back; the card never has more than Capacity        *)
(* packets outstanding.  RecvRing implements this.                         *)
(***************************************************************************)
EXTENDS Naturals, Sequences

CONSTANTS Channel,   \* the channels of the card
          Capacity   \* how many packets can wait for the reader

VARIABLES produced,  \* produced[c]: packets the card has delivered
          released,  \* released[c]: packets given back to the card
          lent       \* lent[c]: the packets the reader holds, oldest first

vars == <<produced, released, lent>>

Init ==
  /\ produced = [c \in Channel |-> 0]
  /\ released = [c \in Channel |-> 0]
  /\ lent = [c \in Channel |-> <<>>]

Produce(c) ==
  /\ produced[c] - released[c] < Capacity
  /\ produced' = [produced EXCEPT ![c] = @ + 1]
  /\ UNCHANGED <<released, lent>>

Lend(c) ==
  LET next == released[c] + Len(lent[c]) + 1 IN
  /\ next <= produced[c]
  /\ lent' = [lent EXCEPT ![c] = Append(@, next)]
  /\ UNCHANGED <<produced, released>>

(* The reader gives back the oldest n packets it holds. *)
Release(c, n) ==
  /\ n <= Len(lent[c])
  /\ released' = [released EXCEPT ![c] = @ + n]
  /\ lent' = [lent EXCEPT ![c] = SubSeq(@, n + 1, Len(@))]
  /\ UNCHANGED produced

(* The reader, or a new reader after the old one died, holds nothing.      *)
Forget(c) ==
  /\ lent' = [lent EXCEPT ![c] = <<>>]
  /\ UNCHANGED <<produced, released>>

(* A reader that holds nothing throws the oldest n packets away unread.    *)
Discard(c, n) ==
  /\ lent[c] = <<>>
  /\ released[c] + n <= produced[c]
  /\ released' = [released EXCEPT ![c] = @ + n]
  /\ UNCHANGED <<produced, lent>>

Next ==
  \E c \in Channel :
    \/ Produce(c)
    \/ Lend(c)
    \/ \E n \in 1 .. Capacity : Release(c, n) \/ Discard(c, n)
    \/ Forget(c)

Spec == Init /\ [][Next]_vars
=============================================================================
