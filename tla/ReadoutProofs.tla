---------------------------- MODULE ReadoutProofs ----------------------------
(***************************************************************************)
(* Theorems about the readout calls: for a ring of any size, buffers of    *)
(* any number of words, events of any length, any number of buffers,       *)
(* deaths and calls.                                                       *)
(***************************************************************************)
EXTENDS ReadoutInv, SequenceTheorems, WellFoundedInduction, TLAPS

-----------------------------------------------------------------------------
(* Sizes.                                                                  *)
LEMMA Sizes ==
  /\ Capacity \in Nat /\ Capacity >= 1 /\ Room \in Nat /\ Room >= 1
  /\ NoLimit \in Nat /\ Lens \subseteq Nat
  /\ \A len \in Lens \cup {1} : len \in 1 .. NoLimit
<1>1. NoLimit \in Nat /\ 1 <= NoLimit
  BY SMT DEF NoLimit
<1> QED BY <1>1, ReadoutAssumption

LEMMA MinOfTwo ==
  ASSUME NEW a \in Nat, NEW b \in Nat
  PROVE  Min({a, b}) = IF a <= b THEN a ELSE b
<1> DEFINE m == IF a <= b THEN a ELSE b
<1>1. m \in {a, b} /\ \A y \in {a, b} : m <= y
  OBVIOUS
<1>2. \A x \in {a, b} : (\A y \in {a, b} : x <= y) => x = m
  OBVIOUS
<1> HIDE DEF m
<1>3. (CHOOSE x \in {a, b} : \A y \in {a, b} : x <= y) = m
  BY <1>1, <1>2
<1> QED BY <1>3 DEF Min, m

LEMMA ChannelTypes ==
  ASSUME ChannelInv
  PROVE  /\ Produced \in Nat /\ Released \in Nat /\ list \in Seq(Nat)
         /\ Len(list) \in Nat /\ Taken \in Nat
         /\ Released <= Taken /\ Taken <= Produced /\ Produced <= Released + Capacity
<1>1. Produced \in Nat /\ Released \in Nat /\ list \in Seq(Nat)
  BY DEF ChannelInv, Produced, Released
<1>2. Len(list) \in Nat
  BY <1>1
<1> QED BY <1>1, <1>2 DEF ChannelInv, Taken

\* A buffer of the card, word by word.
LEMMA Buffers ==
  ASSUME CardInv, NEW n \in 1 .. Produced, Produced \in Nat
  PROVE  /\ sent[n] \in Seq(Nat \X Nat) /\ Len(sent[n]) \in Nat
         /\ Len(sent[n]) \in 1 .. Room
         /\ \A k \in 1 .. Len(sent[n]) :
              /\ sent[n][k] = <<sent[n][k][1], sent[n][k][2]>>
              /\ sent[n][k][1] \in DOMAIN evs /\ sent[n][k][2] \in 1 .. evs[sent[n][k][1]]
              /\ sent[n][k][1] \in Nat /\ sent[n][k][2] \in Nat
<1>1. sent[n] \in Seq(Nat \X Nat)
  <2>1. sent \in Seq(Seq(Nat \X Nat)) /\ n \in 1 .. Len(sent)
    BY DEF CardInv
  <2> DEFINE S == Seq(Nat \X Nat)
  <2>2. sent \in Seq(S) => sent[n] \in S
    <3> HIDE DEF S
    <3> QED BY <2>1
  <2> QED BY <2>1, <2>2
<1>2. \A k \in 1 .. Len(sent[n]) : sent[n][k] \in Nat \X Nat
  <2> DEFINE W == Nat \X Nat
             b == sent[n]
  <2>1. b \in Seq(W)
    BY <1>1
  <2> HIDE DEF W, b
  <2>2. \A k \in 1 .. Len(b) : b[k] \in W
    BY <2>1
  <2> QED BY <2>2 DEF W, b
<1>3. Len(sent[n]) \in Nat
  BY <1>1
<1>4. Len(sent[n]) \in 1 .. Room /\ BufferInv(n)
  BY DEF CardInv
<1> QED BY <1>1, <1>2, <1>3, <1>4 DEF BufferInv

LEMMA Ends ==
  ASSUME CardInv, NEW n \in 1 .. Produced, Produced \in Nat
  PROVE  /\ First(n) = <<First(n)[1], First(n)[2]>> /\ Last(n) = <<Last(n)[1], Last(n)[2]>>
         /\ First(n)[1] \in DOMAIN evs /\ First(n)[2] \in 1 .. evs[First(n)[1]]
         /\ Last(n)[1] \in DOMAIN evs /\ Last(n)[2] \in 1 .. evs[Last(n)[1]]
         /\ Last(n)[2] \in Nat
<1>1. 1 \in 1 .. Len(sent[n]) /\ Len(sent[n]) \in 1 .. Len(sent[n])
  BY Buffers
<1> QED BY <1>1, Buffers DEF First, Last

LEMMA Events ==
  ASSUME CardInv
  PROVE  /\ DOMAIN evs = 1 .. Len(evs) /\ Len(evs) \in Nat
         /\ \A e \in DOMAIN evs : e \in Nat /\ e >= 1 /\ evs[e] \in Nat /\ evs[e] >= 1
                                  /\ evs[e] <= NoLimit
<1>1. evs \in Seq(Nat) /\ \A e \in DOMAIN evs : evs[e] \in Lens \cup {1}
  BY DEF CardInv
<1>2. DOMAIN evs = 1 .. Len(evs) /\ Len(evs) \in Nat
  BY <1>1
<1> QED BY <1>1, <1>2, Sizes

-----------------------------------------------------------------------------
(* The card fills a buffer.                                                *)
LEMMA FinishedIs ==
  ASSUME CardInv, Produced \in Nat
  PROVE  /\ Finished <=> Produced = 0 \/ EndsEvent(Produced)
         /\ Produced # 0 => LastWord = Last(Produced) /\ Last(Produced)[1] = Len(evs)
<1>1. CASE Produced = 0
  BY <1>1 DEF CardInv, Finished
<1>2. CASE Produced # 0
  <2>1. Produced \in 1 .. Produced
    BY <1>2
  <2>2. Last(Produced)[1] = Len(evs) /\ Len(sent) = Produced
    BY <1>2 DEF CardInv
  <2>3. Last(Produced)[1] \in DOMAIN evs
    BY <2>1, Ends
  <2>4. evs # <<>>
    BY <2>3, Events
  <2>5. LastWord = Last(Produced)
    BY <2>2 DEF LastWord, Last
  <2> QED BY <1>2, <2>2, <2>4, <2>5 DEF Finished, EndsEvent
<1> QED BY <1>1, <1>2

\* What each of the three ways to fill a buffer puts into it.
NewBuffer(b) ==
  /\ b \in Seq(Nat \X Nat) /\ Len(b) \in 1 .. Room /\ sent' = Append(sent, b)
  /\ evs' \in Seq(Nat) /\ Len(evs) <= Len(evs')
  /\ \A e \in 1 .. Len(evs) : evs'[e] = evs[e]
  /\ \A e \in 1 .. Len(evs') : evs'[e] \in Lens \cup {1} /\ (reader = "record" => evs'[e] = 1)
  /\ \A k \in 1 .. Len(b) :
       /\ b[k][1] \in 1 .. Len(evs') /\ b[k][2] \in 1 .. evs'[b[k][1]]
       /\ reader # "record" => b[k] = <<b[1][1], b[1][2] + k - 1>>
  /\ IF Produced = 0 \/ EndsEvent(Produced) THEN b[1][2] = 1
     ELSE b[1] = <<Last(Produced)[1], Last(Produced)[2] + 1>>
  /\ b[Len(b)][1] = Len(evs')

LEMMA FillOnBuffer ==
  ASSUME CardInv, Produced \in Nat, FillOn PROVE \E b : NewBuffer(b)
<1> DEFINE e == Len(evs)
           from == LastWord[2] + 1
           m == Min({Room, evs[e] - from + 1})
           b == [k \in 1 .. m |-> <<e, from + k - 1>>]
<1>1. /\ Produced # 0 /\ ~EndsEvent(Produced)
      /\ LastWord = Last(Produced) /\ Last(Produced)[1] = e
  BY FinishedIs DEF FillOn
<1>2. e \in DOMAIN evs /\ LastWord[2] \in Nat /\ LastWord[2] \in 1 .. evs[e] /\ LastWord[2] # evs[e]
  <2>1. Produced \in 1 .. Produced
    BY <1>1
  <2>2. /\ Last(Produced)[1] \in DOMAIN evs /\ Last(Produced)[2] \in Nat
        /\ Last(Produced)[2] \in 1 .. evs[Last(Produced)[1]]
    BY <2>1, Ends
  <2> QED BY <1>1, <2>2 DEF EndsEvent
<1>3. e \in 1 .. Len(evs) /\ e \in Nat /\ evs[e] \in Nat
  BY <1>2, Events
<1>4. from \in Nat /\ from >= 1 /\ from <= evs[e] /\ evs[e] - from + 1 \in Nat
  BY <1>2, <1>3
<1>5. m \in 1 .. Room /\ m <= evs[e] - from + 1 /\ m \in Nat
  <2> HIDE DEF from, e
  <2> QED BY <1>4, <1>3, Sizes, MinOfTwo
<1>6. sent' = Append(sent, b) /\ evs' = evs
  BY DEF FillOn, Words
<1> HIDE DEF m, from, e
<1>7. b \in Seq(Nat \X Nat) /\ Len(b) = m
  <2>1. \A k \in 1 .. m : <<e, from + k - 1>> \in Nat \X Nat
    BY <1>3, <1>4, <1>5
  <2> QED BY <2>1, <1>5
<1>8. \A k \in 1 .. m : b[k] = <<e, from + k - 1>> /\ from + k - 1 \in 1 .. evs[e]
  BY <1>3, <1>4, <1>5
<1>9. b[1] = <<e, from>> /\ 1 \in 1 .. m /\ m \in 1 .. m
  BY <1>4, <1>5
<1> HIDE DEF b
<1>10. \A k \in 1 .. Len(b) : b[k][1] \in 1 .. Len(evs') /\ b[k][2] \in 1 .. evs'[b[k][1]]
  <2>1. \A k \in 1 .. m : b[k][1] = e /\ b[k][2] = from + k - 1
    BY <1>8
  <2> QED BY <2>1, <1>3, <1>6, <1>7, <1>8
<1>11. \A k \in 1 .. Len(b) : b[k] = <<b[1][1], b[1][2] + k - 1>>
  <2>1. b[1][1] = e /\ b[1][2] = from
    BY <1>9
  <2> QED BY <2>1, <1>7, <1>8
<1>12. /\ evs' \in Seq(Nat) /\ Len(evs) <= Len(evs')
       /\ \A x \in 1 .. Len(evs) : evs'[x] = evs[x]
       /\ \A x \in 1 .. Len(evs') : evs'[x] \in Lens \cup {1} /\ (reader = "record" => evs'[x] = 1)
  <2>1. /\ evs \in Seq(Nat) /\ Len(evs) \in Nat
        /\ \A x \in 1 .. Len(evs) : evs[x] \in Lens \cup {1} /\ (reader = "record" => evs[x] = 1)
    BY Events DEF CardInv
  <2> QED BY <2>1, <1>6
<1>13. b[1] = <<Last(Produced)[1], Last(Produced)[2] + 1>>
  BY <1>1, <1>9 DEF from
<1>14. b[Len(b)][1] = Len(evs')
  BY <1>6, <1>7, <1>8, <1>9 DEF e
<1>15. Len(b) \in 1 .. Room
  BY <1>5, <1>7
<1> QED BY <1>1, <1>6, <1>7, <1>10, <1>11, <1>12, <1>13, <1>14, <1>15 DEF NewBuffer

LEMMA FillEventBuffer ==
  ASSUME CardInv, Produced \in Nat, FillEvent PROVE \E b : NewBuffer(b)
<1>1. PICK len \in Lens :
        /\ evs' = Append(evs, len)
        /\ sent' = Append(sent, [k \in 1 .. Min({Room, len}) |-> <<Len(evs) + 1, k>>])
  BY DEF FillEvent
<1> DEFINE e == Len(evs) + 1
           m == Min({Room, len})
           b == [k \in 1 .. m |-> <<e, k>>]
<1>2. m \in 1 .. Room /\ m <= len /\ m \in Nat /\ len \in Nat
  BY Sizes, MinOfTwo
<1>3. /\ evs \in Seq(Nat) /\ Len(evs) \in Nat
      /\ \A x \in 1 .. Len(evs) : evs[x] \in Lens \cup {1}
  BY Events DEF CardInv
<1>4. /\ evs' \in Seq(Nat) /\ Len(evs') = e /\ evs'[e] = len
      /\ \A x \in 1 .. Len(evs) : evs'[x] = evs[x]
  BY <1>1, <1>2, <1>3
<1>5. \A x \in 1 .. Len(evs') : evs'[x] \in Lens \cup {1}
  BY <1>3, <1>4
<1>6. sent' = Append(sent, b) /\ reader # "record" /\ (Produced = 0 \/ EndsEvent(Produced))
  BY <1>1, FinishedIs DEF FillEvent
<1> HIDE DEF m
<1>7. b \in Seq(Nat \X Nat) /\ Len(b) = m
  <2>1. \A k \in 1 .. m : <<e, k>> \in Nat \X Nat
    BY <1>2, <1>3
  <2> QED BY <2>1, <1>2
<1>8. \A k \in 1 .. m : b[k] = <<e, k>> /\ k \in 1 .. len
  BY <1>2
<1>9. b[1] = <<e, 1>> /\ 1 \in 1 .. m /\ m \in 1 .. m
  BY <1>2
<1>10. e \in 1 .. e /\ Len(evs) <= e
  BY <1>3
<1> HIDE DEF b, e
<1>11. \A k \in 1 .. Len(b) :
         /\ b[k][1] \in 1 .. Len(evs') /\ b[k][2] \in 1 .. evs'[b[k][1]]
         /\ reader # "record" => b[k] = <<b[1][1], b[1][2] + k - 1>>
  BY <1>2, <1>4, <1>7, <1>8, <1>9, <1>10
<1>12. b[Len(b)][1] = Len(evs') /\ b[1][2] = 1
  BY <1>4, <1>7, <1>8, <1>9
<1> QED BY <1>2, <1>4, <1>5, <1>6, <1>7, <1>10, <1>11, <1>12 DEF NewBuffer

LEMMA FillRecordsBuffer ==
  ASSUME CardInv, Produced \in Nat, FillRecords PROVE \E b : NewBuffer(b)
<1>1. PICK n \in 1 .. Room :
        /\ evs' = evs \o [k \in 1 .. n |-> 1]
        /\ sent' = Append(sent, [k \in 1 .. n |-> <<Len(evs) + k, 1>>])
  BY DEF FillRecords
<1> DEFINE ones == [k \in 1 .. n |-> 1]
           b == [k \in 1 .. n |-> <<Len(evs) + k, 1>>]
<1>2. n \in Nat /\ n >= 1 /\ n <= Room
  BY Sizes
<1>3. /\ evs \in Seq(Nat) /\ Len(evs) \in Nat
      /\ \A x \in 1 .. Len(evs) : evs[x] = 1
  BY Events DEF CardInv, FillRecords
<1>4. ones \in Seq(Nat) /\ Len(ones) = n /\ \A k \in 1 .. n : ones[k] = 1
  BY <1>2
<1>5. /\ evs' \in Seq(Nat) /\ Len(evs') = Len(evs) + n
      /\ \A x \in 1 .. Len(evs) + n : evs'[x] = IF x <= Len(evs) THEN evs[x] ELSE ones[x - Len(evs)]
  <2> HIDE DEF ones
  <2> QED BY <1>1, <1>3, <1>4, ConcatProperties DEF ones
<1>6. \A x \in 1 .. Len(evs') : evs'[x] = 1
  <2> SUFFICES ASSUME NEW x \in 1 .. Len(evs') PROVE evs'[x] = 1
    OBVIOUS
  <2> HIDE DEF ones
  <2>1. CASE x <= Len(evs)
    BY <2>1, <1>2, <1>3, <1>5
  <2>2. CASE ~(x <= Len(evs))
    <3>1. x - Len(evs) \in 1 .. n
      BY <2>2, <1>2, <1>3, <1>5
    <3> QED BY <3>1, <2>2, <1>2, <1>3, <1>4, <1>5
  <2> QED BY <2>1, <2>2
<1>7. b \in Seq(Nat \X Nat) /\ Len(b) = n
  <2>1. \A k \in 1 .. n : <<Len(evs) + k, 1>> \in Nat \X Nat
    BY <1>2, <1>3
  <2> QED BY <2>1, <1>2
<1>8. \A k \in 1 .. n : b[k] = <<Len(evs) + k, 1>> /\ Len(evs) + k \in 1 .. Len(evs')
  BY <1>2, <1>3, <1>5
<1>9. 1 \in 1 .. n /\ n \in 1 .. n
  BY <1>2
<1>10. reader = "record" /\ sent' = Append(sent, b)
  BY <1>1 DEF FillRecords
<1>11. Produced = 0 \/ EndsEvent(Produced)
  <2>1. SUFFICES ASSUME Produced # 0 PROVE EndsEvent(Produced)
    OBVIOUS
  <2>2. Produced \in 1 .. Produced
    BY <2>1
  <2>3. Last(Produced)[1] \in DOMAIN evs /\ Last(Produced)[2] \in 1 .. evs[Last(Produced)[1]]
    BY <2>2, Ends
  <2>4. evs[Last(Produced)[1]] = 1
    BY <1>3, <2>3
  <2> QED BY <2>3, <2>4 DEF EndsEvent
<1> HIDE DEF b, ones
<1>12. \A k \in 1 .. Len(b) :
         /\ b[k][1] \in 1 .. Len(evs') /\ b[k][2] \in 1 .. evs'[b[k][1]]
         /\ reader # "record" => b[k] = <<b[1][1], b[1][2] + k - 1>>
  BY <1>6, <1>7, <1>8, <1>10
<1>13. b[Len(b)][1] = Len(evs') /\ b[1][2] = 1
  BY <1>5, <1>7, <1>8, <1>9
<1>14. /\ evs' \in Seq(Nat) /\ Len(evs) <= Len(evs')
       /\ \A e \in 1 .. Len(evs) : evs'[e] = evs[e]
       /\ \A e \in 1 .. Len(evs') : evs'[e] \in Lens \cup {1} /\ (reader = "record" => evs'[e] = 1)
  BY <1>2, <1>3, <1>5, <1>6
<1> QED BY <1>7, <1>10, <1>11, <1>12, <1>13, <1>14 DEF NewBuffer

\* What was filled stays as it is.
Kept ==
  /\ reader' = reader /\ Produced' \in Nat /\ Produced <= Produced'
  /\ \A n \in 1 .. Produced : sent'[n] = sent[n]
  /\ \A e \in DOMAIN evs : e \in DOMAIN evs' /\ evs'[e] = evs[e]

LEMMA FillIs ==
  ASSUME ChannelInv, Fill
  PROVE  /\ Produced' = Produced + 1 /\ Produced' \in Nat /\ Produced < Released + Capacity
         /\ produced' \in [{Daq} -> Nat] /\ UNCHANGED <<released, lent, list, reader>>
         /\ Produced' <= MaxBuffers
<1>1. /\ produced \in [{Daq} -> Nat] /\ released \in [{Daq} -> Nat]
      /\ produced' = [produced EXCEPT ![Daq] = @ + 1] /\ produced[Daq] < MaxBuffers
      /\ produced[Daq] - released[Daq] < Capacity /\ UNCHANGED <<released, lent, list, reader>>
  BY DEF ChannelInv, Fill, Fifo!Produce
<1>2. Daq \in {Daq}
  OBVIOUS
<1>3. produced[Daq] \in Nat /\ released[Daq] \in Nat /\ MaxBuffers \in Nat
  BY <1>1, <1>2, ReadoutAssumption
<1>4. produced'[Daq] = produced[Daq] + 1 /\ produced' \in [{Daq} -> Nat]
  BY <1>1, <1>2, <1>3
<1> QED BY <1>1, <1>3, <1>4, Sizes DEF Produced, Released

LEMMA FillCard ==
  ASSUME CardInv, ChannelInv, Fill
  PROVE  CardInv' /\ Kept
<1>1. Produced \in Nat /\ Produced' = Produced + 1 /\ Produced' \in Nat /\ reader' = reader
  BY FillIs, ChannelTypes
<1>2. PICK b : NewBuffer(b)
  BY <1>1, FillOnBuffer, FillEventBuffer, FillRecordsBuffer DEF Fill
<1>3. /\ sent' \in Seq(Seq(Nat \X Nat)) /\ Len(sent') = Produced + 1
      /\ \A n \in 1 .. Produced : sent'[n] = sent[n]
      /\ sent'[Produced + 1] = b
  <2> DEFINE S == Seq(Nat \X Nat)
  <2>1. sent \in Seq(S) /\ b \in S /\ sent' = Append(sent, b) /\ Len(sent) = Produced
    BY <1>2 DEF NewBuffer, CardInv
  <2> HIDE DEF S
  <2>2. /\ sent' \in Seq(S) /\ Len(sent') = Produced + 1 /\ sent'[Produced + 1] = b
        /\ \A n \in 1 .. Produced : sent'[n] = sent[n]
    BY <2>1, AppendProperties
  <2> QED BY <2>2 DEF S
<1>4. /\ evs' \in Seq(Nat) /\ Len(evs) <= Len(evs') /\ Len(evs) \in Nat /\ Len(evs') \in Nat
      /\ DOMAIN evs = 1 .. Len(evs) /\ DOMAIN evs' = 1 .. Len(evs')
      /\ \A e \in DOMAIN evs : e \in DOMAIN evs' /\ evs'[e] = evs[e]
      /\ \A e \in DOMAIN evs' : evs'[e] \in Lens \cup {1} /\ (reader = "record" => evs'[e] = 1)
  <2>1. /\ evs' \in Seq(Nat) /\ Len(evs) <= Len(evs')
        /\ \A e \in 1 .. Len(evs) : evs'[e] = evs[e]
        /\ \A e \in 1 .. Len(evs') : evs'[e] \in Lens \cup {1} /\ (reader = "record" => evs'[e] = 1)
    BY <1>2 DEF NewBuffer
  <2>2. DOMAIN evs' = 1 .. Len(evs') /\ Len(evs') \in Nat
    BY <2>1
  <2>3. DOMAIN evs = 1 .. Len(evs) /\ Len(evs) \in Nat
    BY Events
  <2> QED BY <2>1, <2>2, <2>3
<1>5. Kept
  BY <1>1, <1>3, <1>4 DEF Kept
<1>6. ASSUME NEW n \in 1 .. Produced
      PROVE  (Len(sent[n]) \in 1 .. Room /\ BufferInv(n) /\ FollowsOn(n))'
  <2>1. Len(sent[n]) \in 1 .. Room /\ BufferInv(n) /\ FollowsOn(n) /\ sent'[n] = sent[n]
    BY <1>3 DEF CardInv
  <2>2. \A k \in 1 .. Len(sent[n]) :
          sent[n][k][1] \in DOMAIN evs' /\ evs'[sent[n][k][1]] = evs[sent[n][k][1]]
    BY <2>1, <1>4 DEF BufferInv
  <2>3. BufferInv(n)'
    BY <2>1, <2>2, <1>1 DEF BufferInv, First
  <2>4. CASE n = 1
    BY <2>1, <2>3, <2>4 DEF FollowsOn, First
  <2>5. CASE n # 1
    <3>1. n - 1 \in 1 .. Produced
      BY <2>5, <1>1
    <3>2. Last(n - 1)' = Last(n - 1) /\ First(n)' = First(n) /\ n' = n
      BY <3>1, <2>1, <1>3 DEF Last, First
    <3>3. Last(n - 1)[1] \in DOMAIN evs
      BY <3>1, <1>1, Ends
    <3>4. EndsEvent(n - 1)' = EndsEvent(n - 1)
      BY <3>2, <3>3, <1>4 DEF EndsEvent
    <3> QED BY <2>1, <2>3, <3>2, <3>4 DEF FollowsOn
  <2> QED BY <2>1, <2>3, <2>4, <2>5
<1>7. ASSUME NEW n, n = Produced + 1
      PROVE  (Len(sent[n]) \in 1 .. Room /\ BufferInv(n) /\ FollowsOn(n))'
  <2>1. /\ Len(b) \in 1 .. Room
        /\ \A k \in 1 .. Len(b) :
             /\ b[k][1] \in 1 .. Len(evs') /\ b[k][2] \in 1 .. evs'[b[k][1]]
             /\ reader # "record" => b[k] = <<b[1][1], b[1][2] + k - 1>>
        /\ IF Produced = 0 \/ EndsEvent(Produced) THEN b[1][2] = 1
           ELSE b[1] = <<Last(Produced)[1], Last(Produced)[2] + 1>>
    BY <1>2 DEF NewBuffer
  <2>2. sent'[n] = b
    BY <1>3, <1>7
  <2>3. BufferInv(n)'
    BY <2>1, <2>2, <1>1, <1>4 DEF BufferInv, First
  <2>4. CASE Produced = 0
    <3>1. n = 1 /\ b[1][2] = 1
      BY <2>1, <2>4, <1>7
    <3> QED BY <2>1, <2>2, <2>3, <3>1 DEF FollowsOn, First
  <2>5. CASE Produced # 0
    <3>1. n # 1 /\ n - 1 = Produced /\ Produced \in 1 .. Produced
      BY <2>5, <1>1, <1>7
    <3>2. Last(n - 1)' = Last(Produced) /\ First(n)' = b[1]
      BY <3>1, <2>2, <1>3 DEF Last, First
    <3>3. EndsEvent(n - 1)' <=> EndsEvent(Produced)
      BY <3>1, <3>2, <1>1, <1>4, Ends DEF EndsEvent
    <3> QED BY <2>1, <2>2, <2>3, <2>5, <3>1, <3>2, <3>3 DEF FollowsOn
  <2> QED BY <2>4, <2>5
<1>8. Produced' # 0 /\ Last(Produced)'[1] = Len(evs')
  BY <1>1, <1>2, <1>3 DEF NewBuffer, Last
<1>9. \A n \in 1 .. Produced' : (Len(sent[n]) \in 1 .. Room /\ BufferInv(n) /\ FollowsOn(n))'
  <2> SUFFICES ASSUME NEW n \in 1 .. Produced'
               PROVE  (Len(sent[n]) \in 1 .. Room /\ BufferInv(n) /\ FollowsOn(n))'
    OBVIOUS
  <2>1. n \in 1 .. Produced \/ n = Produced + 1
    BY <1>1
  <2> QED BY <2>1, <1>6, <1>7
<1>10. reader' \in Readers
  BY <1>1 DEF CardInv
<1>11. reader' = "record" => \A e \in DOMAIN evs' : evs'[e] = 1
  BY <1>1, <1>4
<1>12. Len(sent') = Produced'
  BY <1>1, <1>3
<1>13. CardInv'
  BY <1>3, <1>4, <1>8, <1>9, <1>10, <1>11, <1>12 DEF CardInv
<1> QED BY <1>5, <1>13

\* Only the card fills buffers.
LEMMA CardSame ==
  ASSUME CardInv, Produced \in Nat, UNCHANGED <<produced, evs, sent, reader>>
  PROVE  CardInv' /\ Kept
<1>1. Produced' = Produced /\ evs' = evs /\ sent' = sent /\ reader' = reader
  BY DEF Produced
<1>2. Kept
  BY <1>1 DEF Kept
<1>3. ASSUME NEW n \in 1 .. Produced
      PROVE  (Len(sent[n]) \in 1 .. Room /\ BufferInv(n) /\ FollowsOn(n))'
  <2>1. Len(sent[n]) \in 1 .. Room /\ BufferInv(n) /\ FollowsOn(n)
    BY DEF CardInv
  <2>2. First(n)' = First(n) /\ Last(n - 1)' = Last(n - 1)
    BY <1>1 DEF First, Last
  <2>3. EndsEvent(n - 1)' <=> EndsEvent(n - 1)
    BY <1>1, <2>2 DEF EndsEvent
  <2>4. BufferInv(n)'
    BY <1>1, <2>1, <2>2 DEF BufferInv
  <2>5. FollowsOn(n)'
    BY <1>1, <2>1, <2>2, <2>3 DEF FollowsOn
  <2> QED BY <1>1, <2>1, <2>4, <2>5
<1>4. Last(Produced)' = Last(Produced)
  BY <1>1 DEF Last
<1>5. CardInv'
  BY <1>1, <1>3, <1>4 DEF CardInv
<1> QED BY <1>2, <1>5

-----------------------------------------------------------------------------
(* The channel and the list.                                               *)
LEMMA LendIs ==
  ASSUME ChannelInv, ReadBuffer
  PROVE  /\ NextBuffer = Taken + 1 /\ NextBuffer <= Produced
         /\ list' = Append(list, NextBuffer) /\ Len(list') = Len(list) + 1
         /\ list'[Len(list')] = NextBuffer
         /\ Taken' = NextBuffer /\ UNCHANGED <<produced, released>> /\ ChannelInv'
<1>1. /\ NextBuffer = Taken + 1 /\ NextBuffer <= Produced
      /\ list' = Append(list, NextBuffer) /\ UNCHANGED <<produced, released>>
      /\ lent' = [lent EXCEPT ![Daq] = Append(@, NextBuffer)]
  BY DEF ReadBuffer, ChannelInv, NextBuffer, Fifo!Lend, Taken, Released, Produced
<1>2. NextBuffer \in Nat
  BY <1>1, ChannelTypes
<1>3. /\ list' \in Seq(Nat) /\ Len(list') = Len(list) + 1
      /\ \A k \in 1 .. Len(list) : list'[k] = list[k]
      /\ list'[Len(list) + 1] = NextBuffer
  BY <1>1, <1>2, ChannelTypes, AppendProperties
<1>4. lent' \in [{Daq} -> Seq(Nat)] /\ list' = lent'[Daq]
  <2>1. lent \in [{Daq} -> Seq(Nat)] /\ list = lent[Daq] /\ Daq \in {Daq}
    BY DEF ChannelInv
  <2>2. lent'[Daq] = list'
    BY <1>1, <2>1
  <2>3. lent' \in [{Daq} -> Seq(Nat)]
    BY <1>1, <1>3, <2>1, <2>2
  <2> QED BY <2>2, <2>3
<1>5. Taken' = NextBuffer /\ Released' = Released /\ Produced' = Produced
  <2>1. Released' = Released /\ Produced' = Produced
    BY <1>1 DEF Released, Produced
  <2>2. Released \in Nat /\ Len(list) \in Nat /\ NextBuffer = Released + Len(list) + 1
    BY <1>1, ChannelTypes DEF Taken
  <2>3. Taken' = Released + (Len(list) + 1)
    BY <1>3, <2>1 DEF Taken
  <2> QED BY <2>1, <2>2, <2>3
<1>6. \A k \in 1 .. Len(list') : list'[k] = Released' + k
  BY <1>1, <1>3, <1>5, ChannelTypes DEF ChannelInv, Taken
<1>7. /\ produced' \in [{Daq} -> Nat] /\ released' \in [{Daq} -> Nat]
      /\ Taken' <= Produced' /\ Produced' <= Released' + Capacity
  BY <1>1, <1>5 DEF ChannelInv
<1>8. ChannelInv'
  BY <1>4, <1>6, <1>7 DEF ChannelInv
<1> QED BY <1>1, <1>3, <1>5, <1>8

LEMMA ReleaseIs ==
  ASSUME ChannelInv, ReleaseBuffers
  PROVE  /\ list' = <<>> /\ Released' = Taken /\ Taken' = Taken
         /\ UNCHANGED produced /\ ChannelInv'
<1>1. CASE list = <<>>
  <2>1. UNCHANGED <<produced, released, lent, list>>
    BY <1>1 DEF ReleaseBuffers, Held, GetCurrentBuffer, fifoVars
  <2>2. Released' = Released /\ Taken' = Taken /\ Produced' = Produced
    BY <2>1 DEF Released, Taken, Produced
  <2>3. Taken = Released
    BY <1>1, ChannelTypes DEF Taken
  <2>4. ChannelInv'
    BY <2>1, <2>2 DEF ChannelInv
  <2> QED BY <1>1, <2>1, <2>2, <2>3, <2>4
<1>2. CASE list # <<>>
  <2>1. Len(list) \in Nat /\ Len(list) > 0
    BY <1>2, ChannelTypes, EmptySeq
  <2>2. /\ Fifo!Release(Daq, Len(list)) /\ list' = SubSeq(list, Len(list) + 1, Len(list))
    BY <1>2, <2>1 DEF ReleaseBuffers, Held, GetCurrentBuffer, GiveBack
  <2>3. list' = <<>> /\ Len(list') = 0
    BY <2>1, <2>2, ChannelTypes, SubSeqProperties, EmptySeq
  <2>4. /\ lent \in [{Daq} -> Seq(Nat)] /\ list = lent[Daq] /\ Daq \in {Daq}
        /\ released \in [{Daq} -> Nat] /\ produced \in [{Daq} -> Nat]
    BY DEF ChannelInv
  <2>5. /\ released' = [released EXCEPT ![Daq] = @ + Len(list)] /\ UNCHANGED produced
        /\ lent' = [lent EXCEPT ![Daq] = SubSeq(list, Len(list) + 1, Len(list))]
    BY <2>2, <2>4 DEF Fifo!Release
  <2>6. Released' = Taken /\ released' \in [{Daq} -> Nat]
    BY <2>1, <2>4, <2>5 DEF Released, Taken
  <2>7. lent'[Daq] = list' /\ lent' \in [{Daq} -> Seq(Nat)]
    BY <2>2, <2>3, <2>4, <2>5
  <2>8. Taken' = Taken
    BY <2>3, <2>6, ChannelTypes DEF Taken
  <2>9. Taken <= Produced /\ Produced <= Taken + Capacity /\ Produced' = Produced
    BY <2>5, ChannelTypes, Sizes DEF Produced
  <2>10. ChannelInv'
    BY <2>3, <2>4, <2>5, <2>6, <2>7, <2>8, <2>9 DEF ChannelInv
  <2> QED BY <2>3, <2>5, <2>6, <2>8, <2>10
<1> QED BY <1>1, <1>2

LEMMA ForgetIs ==
  ASSUME ChannelInv, Fifo!Forget(Daq), list' = <<>>
  PROVE  UNCHANGED <<produced, released>> /\ Taken' = Released /\ ChannelInv'
<1>1. /\ lent' = [lent EXCEPT ![Daq] = <<>>] /\ UNCHANGED <<produced, released>>
      /\ lent \in [{Daq} -> Seq(Nat)] /\ Daq \in {Daq}
  BY DEF ChannelInv, Fifo!Forget
<1>2. <<>> \in Seq(Nat) /\ Len(list') = 0
  BY EmptySeq
<1>3. lent'[Daq] = list' /\ lent' \in [{Daq} -> Seq(Nat)]
  BY <1>1, <1>2
<1>4. Released' = Released /\ Produced' = Produced
  BY <1>1 DEF Released, Produced
<1>5. Taken' = Released /\ Released <= Produced /\ Produced <= Released + Capacity
  BY <1>2, <1>4, ChannelTypes DEF Taken
<1> QED BY <1>1, <1>2, <1>3, <1>4, <1>5 DEF ChannelInv

LEMMA ReleaseAllIs ==
  ASSUME ChannelInv, released' = produced, lent' = [lent EXCEPT ![Daq] = <<>>],
         UNCHANGED produced, list' = <<>>
  PROVE  Released' = Produced /\ Taken' = Produced /\ ChannelInv'
<1>1. /\ lent \in [{Daq} -> Seq(Nat)] /\ Daq \in {Daq} /\ produced \in [{Daq} -> Nat]
  BY DEF ChannelInv
<1>2. <<>> \in Seq(Nat) /\ Len(list') = 0
  BY EmptySeq
<1>3. lent'[Daq] = list' /\ lent' \in [{Daq} -> Seq(Nat)]
  BY <1>1, <1>2
<1>4. Released' = Produced /\ Produced' = Produced
  BY DEF Released, Produced
<1>5. Taken' = Produced /\ Produced <= Produced + Capacity
  BY <1>2, <1>4, ChannelTypes, Sizes DEF Taken
<1>6. released' \in [{Daq} -> Nat] /\ produced' \in [{Daq} -> Nat]
  BY <1>1
<1>7. \A k \in 1 .. Len(list') : list'[k] = Released' + k
  BY <1>2
<1>8. Produced \in Nat /\ Produced <= Produced
  BY ChannelTypes
<1>9. Taken' <= Produced' /\ Produced' <= Released' + Capacity
  BY <1>4, <1>5, <1>8
<1>10. ChannelInv'
  BY <1>3, <1>6, <1>7, <1>9 DEF ChannelInv
<1> QED BY <1>4, <1>5, <1>10

LEMMA ChannelSame ==
  ASSUME ChannelInv, UNCHANGED <<produced, released, lent, list>>
  PROVE  Taken' = Taken /\ Released' = Released /\ ChannelInv'
BY DEF ChannelInv, Taken, Released, Produced

LEMMA FillChannel ==
  ASSUME ChannelInv, Fill
  PROVE  Taken' = Taken /\ Released' = Released /\ ChannelInv'
<1>1. /\ Produced' = Produced + 1 /\ Produced < Released + Capacity
      /\ produced' \in [{Daq} -> Nat] /\ UNCHANGED <<released, lent, list>>
  BY FillIs
<1>2. Taken' = Taken /\ Released' = Released
  BY <1>1 DEF Taken, Released
<1>3. Taken <= Produced + 1 /\ Produced + 1 <= Released + Capacity
  BY <1>1, ChannelTypes, Sizes
<1> QED BY <1>1, <1>2, <1>3 DEF ChannelInv

-----------------------------------------------------------------------------
(* Memory.                                                                 *)
LEMMA Greatest ==
  ASSUME NEW b \in Nat, NEW S \in SUBSET (1 .. b), S # {}
  PROVE  \E x \in S : \A y \in S : x >= y
<1> DEFINE T == {b - x : x \in S}
           less == OpToRel(<, Nat)
<1>1. T \subseteq Nat /\ T # {}
  <2>1. \A x \in S : b - x \in Nat
    OBVIOUS
  <2>2. PICK x \in S : TRUE
    OBVIOUS
  <2>3. b - x \in T
    BY <2>2
  <2> QED BY <2>1, <2>3
<1>2. IsWellFoundedOn(less, Nat)
  BY NatLessThanWellFounded
<1> HIDE DEF T, less
<1>3. PICK t \in T : \A y \in T : ~(<<y, t>> \in less)
  BY <1>1, <1>2, WFMin
<1>4. \A y \in T : ~(y < t)
  BY <1>1, <1>3 DEF less, OpToRel
<1>5. PICK x \in S : t = b - x
  BY DEF T
<1>6. \A y \in S : b - y \in T
  BY DEF T
<1>7. \A y \in S : x >= y
  <2> SUFFICES ASSUME NEW y \in S PROVE x >= y
    OBVIOUS
  <2>1. ~(b - y < b - x) /\ y \in 1 .. b /\ x \in 1 .. b
    BY <1>4, <1>5, <1>6
  <2> QED BY <2>1
<1> QED BY <1>7

LEMMA SmallRemainder ==
  ASSUME NEW d \in Nat, NEW c \in Nat, d < c PROVE d % c = d
OBVIOUS

LEMMA GreatestIsMax ==
  ASSUME NEW S \in SUBSET Int, NEW x \in S, \A y \in S : x >= y
  PROVE  Max(S) = x
<1>1. \A z \in S : (\A y \in S : z >= y) => z = x
  OBVIOUS
<1> QED BY <1>1 DEF Max

\* A buffer that is held shows what the card put into it: it is not filled again.
LEMMA HeldMemory ==
  ASSUME CardInv, ChannelInv, NEW n \in Released + 1 .. Produced,
         NEW at \in 1 .. Len(sent[n])
  PROVE  Memory(n, at) = sent[n][at]
<1> DEFINE writers == {m \in 1 .. produced[Daq] :
                         (m - n) % (Capacity + 1) = 0 /\ at <= Len(sent[m])}
<1>1. /\ n \in 1 .. Produced /\ n \in Nat /\ Produced \in Nat /\ Released \in Nat
      /\ Produced <= Released + Capacity /\ Released + 1 <= n
  BY ChannelTypes
<1>2. at \in Nat /\ at <= Room /\ at <= Len(sent[n])
  <2>1. Len(sent[n]) \in Nat /\ Len(sent[n]) <= Room
    BY <1>1, Buffers
  <2> QED BY <2>1, Sizes
<1>3. n \in writers
  <2>1. (n - n) % (Capacity + 1) = 0
    <3>1. n - n = 0 /\ Capacity + 1 \in Nat /\ Capacity + 1 > 0
      BY <1>1, Sizes
    <3>2. \A c \in Nat : c > 0 => 0 % c = 0
      OBVIOUS
    <3> QED BY <3>1, <3>2
  <2> QED BY <2>1, <1>1, <1>2 DEF Produced
<1>4. \A m \in writers : n >= m
  <2> SUFFICES ASSUME NEW m \in writers, m > n PROVE FALSE
    BY <1>1 DEF Produced
  <2>1. m \in Nat /\ m <= Produced /\ (m - n) % (Capacity + 1) = 0
    BY <1>1 DEF Produced
  <2>2. m - n \in Nat /\ m - n >= 1 /\ m - n <= Capacity
    BY <2>1, <1>1, Sizes
  <2>3. Capacity + 1 \in Nat /\ m - n < Capacity + 1
    BY <2>2, Sizes
  <2>4. (m - n) % (Capacity + 1) = m - n
    BY <2>2, <2>3, SmallRemainder
  <2> QED BY <2>1, <2>2, <2>4
<1>5. writers \subseteq Int
  OBVIOUS
<1> HIDE DEF writers
<1>6. Max(writers) = n /\ writers # {}
  BY <1>3, <1>4, <1>5, GreatestIsMax
<1> QED BY <1>2, <1>6, Sizes DEF Memory, writers

LEMMA SomeMemory ==
  ASSUME CardInv, ChannelInv, NEW n \in Nat, NEW at \in Nat, at >= 1
  PROVE  \/ Memory(n, at) \in {Zero, Beyond}
         \/ \E m \in 1 .. Produced : at \in 1 .. Len(sent[m]) /\ Memory(n, at) = sent[m][at]
<1> DEFINE writers == {m \in 1 .. produced[Daq] :
                         (m - n) % (Capacity + 1) = 0 /\ at <= Len(sent[m])}
<1>1. writers \subseteq 1 .. Produced /\ Produced \in Nat
  BY ChannelTypes DEF Produced
<1>2. \A m \in writers : at <= Len(sent[m])
  OBVIOUS
<1>3. CASE at <= Room /\ writers # {}
  <2> HIDE DEF writers
  <2>1. PICK x \in writers : \A y \in writers : x >= y
    BY <1>1, <1>3, Greatest
  <2>2. Max(writers) = x
    BY <1>1, <2>1, GreatestIsMax
  <2>3. Memory(n, at) = sent[x][at]
    BY <1>3, <2>2, Sizes DEF Memory, writers
  <2>4. x \in 1 .. Produced /\ at \in 1 .. Len(sent[x])
    BY <1>1, <1>2, <2>1, Buffers
  <2> QED BY <2>3, <2>4
<1>4. CASE ~(at <= Room /\ writers # {})
  BY <1>4, Sizes DEF Memory
<1> QED BY <1>3, <1>4

-----------------------------------------------------------------------------
(* Words and items.                                                        *)
LEMMA IsWord ==
  ASSUME CardInv, Produced \in Nat, NEW n \in 1 .. Produced, NEW k \in 1 .. Len(sent[n])
  PROVE  sent[n][k] \in Word
<1>1. /\ sent[n][k] = <<sent[n][k][1], sent[n][k][2]>>
      /\ sent[n][k][1] \in DOMAIN evs /\ sent[n][k][2] \in 1 .. evs[sent[n][k][1]]
  BY Buffers
<1> DEFINE e == sent[n][k][1]
           S == {e} \X (1 .. evs[e])
<1>2. sent[n][k] \in S
  BY <1>1
<1>3. S \in {{x} \X (1 .. evs[x]) : x \in DOMAIN evs}
  BY <1>1
<1> HIDE DEF S
<1> QED BY <1>2, <1>3 DEF Word

LEMMA EventIs ==
  ASSUME CardInv, NEW e \in DOMAIN evs
  PROVE  /\ Event(e) \in Seq(Nat \X Nat) /\ Len(Event(e)) = evs[e] /\ Event(e) # <<>>
         /\ \A k \in 1 .. evs[e] : Event(e)[k] = <<e, k>>
<1>1. e \in Nat /\ evs[e] \in Nat /\ evs[e] >= 1
  BY Events
<1>2. \A k \in 1 .. evs[e] : <<e, k>> \in Nat \X Nat
  BY <1>1
<1>3. Event(e) = [k \in 1 .. evs[e] |-> <<e, k>>]
  BY DEF Event
<1>4. Event(e) \in Seq(Nat \X Nat) /\ Len(Event(e)) = evs[e]
  BY <1>1, <1>2, <1>3
<1> QED BY <1>1, <1>3, <1>4, EmptySeq

LEMMA ContentsOf ==
  ASSUME CardInv, ChannelInv, NEW item, NEW e \in DOMAIN evs,
         \/ item.copy = Event(e)
         \/ /\ item.copy = <<>> /\ item.at = 1 /\ item.len = evs[e]
            /\ item.buffer \in Released + 1 .. Produced
            /\ evs[e] <= Len(sent[item.buffer])
            /\ \A k \in 1 .. evs[e] : sent[item.buffer][k] = <<e, k>>
  PROVE  Contents(item) = Event(e)
<1>1. CASE item.copy = Event(e)
  BY <1>1, EventIs DEF Contents
<1>2. CASE item.copy # Event(e)
  <2> DEFINE n == item.buffer
  <2>1. /\ item.copy = <<>> /\ item.at = 1 /\ item.len = evs[e]
        /\ n \in Released + 1 .. Produced /\ evs[e] <= Len(sent[n])
        /\ \A k \in 1 .. evs[e] : sent[n][k] = <<e, k>>
    BY <1>2
  <2>2. n \in 1 .. Produced /\ Produced \in Nat
    BY <2>1, ChannelTypes
  <2>3. evs[e] \in Nat /\ Len(sent[n]) \in Nat
    BY <2>2, Events, Buffers
  <2> HIDE DEF n
  <2>4. \A k \in 1 .. evs[e] : 1 + k - 1 = k /\ k \in 1 .. Len(sent[n])
    BY <2>1, <2>3
  <2>5. \A k \in 1 .. evs[e] : Memory(n, 1 + k - 1) = <<e, k>>
    BY <2>1, <2>4, HeldMemory
  <2>6. Contents(item) = [k \in 1 .. evs[e] |-> Memory(n, 1 + k - 1)]
    BY <2>1 DEF Contents, n
  <2> QED BY <2>5, <2>6 DEF Event
<1> QED BY <1>1, <1>2

LEMMA ItemShows ==
  ASSUME CardInv, ChannelInv, NEW item, NEW e \in DOMAIN evs, ItemIs(item, e)
  PROVE  Contents(item) = Event(e)
<1>1. Released + 1 .. Taken \subseteq Released + 1 .. Produced
  BY ChannelTypes
<1> QED BY <1>1, ContentsOf DEF ItemIs

LEMMA ItemKept ==
  ASSUME CardInv, ChannelInv, Kept, Released' = Released, Taken' \in Nat, Taken <= Taken',
         NEW item, NEW e \in DOMAIN evs, ItemIs(item, e)
  PROVE  ItemIs(item, e)'
<1>1. evs'[e] = evs[e] /\ Event(e)' = Event(e)
  BY DEF Kept, Event
<1>2. CASE item.copy = Event(e)
  BY <1>1, <1>2 DEF ItemIs
<1>3. CASE item.copy # Event(e)
  <2>1. /\ item.copy = <<>> /\ item.at = 1 /\ item.len = evs[e]
        /\ item.buffer \in Released + 1 .. Taken
        /\ evs[e] <= Len(sent[item.buffer])
        /\ \A k \in 1 .. evs[e] : sent[item.buffer][k] = <<e, k>>
    BY <1>3 DEF ItemIs
  <2>2. item.buffer \in 1 .. Produced /\ item.buffer \in Released' + 1 .. Taken'
    BY <2>1, ChannelTypes
  <2>3. sent'[item.buffer] = sent[item.buffer]
    BY <2>2 DEF Kept
  <2> QED BY <1>1, <2>1, <2>2, <2>3 DEF ItemIs
<1> QED BY <1>2, <1>3

LEMMA DeliveredKept ==
  ASSUME CardInv, Produced \in Nat, Kept, NEW n \in Nat, n <= Produced, DeliveredTo(n),
         delivered \subseteq delivered'
  PROVE  DeliveredTo(n)'
<1>1. ASSUME NEW m \in 1 .. n
      PROVE  sent'[m] = sent[m] /\ \A k \in 1 .. Len(sent[m]) : sent[m][k][1] \in delivered'
  <2>1. m \in 1 .. Produced
    OBVIOUS
  <2> QED BY <2>1 DEF Kept, DeliveredTo
<1>2. n > 0 => EndsEvent(n)'
  <2> SUFFICES ASSUME n > 0 PROVE EndsEvent(n)'
    OBVIOUS
  <2>1. n \in 1 .. Produced /\ n \in 1 .. n
    OBVIOUS
  <2>2. Last(n)' = Last(n)
    BY <2>1, <1>1 DEF Last
  <2> QED BY <2>1, <2>2, Ends DEF EndsEvent, DeliveredTo, Kept
<1> QED BY <1>1, <1>2 DEF DeliveredTo

-----------------------------------------------------------------------------
(* How events lie in buffers.                                              *)
LEMMA StartsHere ==
  ASSUME CardInv, Produced \in Nat, reader # "record", NEW n \in 1 .. Produced, First(n)[2] = 1,
         NEW e, e = First(n)[1]
  PROVE  /\ \A k \in 1 .. Len(sent[n]) : sent[n][k] = <<e, k>>
         /\ e \in DOMAIN evs /\ Len(sent[n]) <= evs[e] /\ Last(n) = <<e, Len(sent[n])>>
         /\ EndsEvent(n) <=> Len(sent[n]) = evs[e]
<1>1. BufferInv(n) /\ Len(sent[n]) \in Nat /\ Len(sent[n]) \in 1 .. Len(sent[n])
  <2>1. BufferInv(n)
    BY DEF CardInv
  <2> QED BY <2>1, Buffers
<1>2. e \in DOMAIN evs
  BY Ends
<1>3. \A k \in 1 .. Len(sent[n]) : sent[n][k] = <<e, k>>
  <2> SUFFICES ASSUME NEW k \in 1 .. Len(sent[n]) PROVE sent[n][k] = <<e, k>>
    OBVIOUS
  <2>1. sent[n][k] = <<e, 1 + k - 1>>
    BY <1>1 DEF BufferInv
  <2>2. 1 + k - 1 = k
    BY <1>1
  <2> QED BY <2>1, <2>2
<1>4. Last(n) = <<e, Len(sent[n])>> /\ Last(n)[1] = e /\ Last(n)[2] = Len(sent[n])
  BY <1>1, <1>3 DEF Last
<1>5. Len(sent[n]) <= evs[e]
  BY <1>4, Ends
<1> QED BY <1>2, <1>3, <1>4, <1>5 DEF EndsEvent

LEMMA GoesOn ==
  ASSUME CardInv, Produced \in Nat, reader # "record", NEW n \in 2 .. Produced,
         NEW e \in DOMAIN evs, NEW d \in Nat, d < evs[e], Last(n - 1) = <<e, d>>
  PROVE  /\ \A k \in 1 .. Len(sent[n]) : sent[n][k] = <<e, d + k>>
         /\ d + Len(sent[n]) <= evs[e] /\ Last(n) = <<e, d + Len(sent[n])>>
         /\ EndsEvent(n) <=> d + Len(sent[n]) = evs[e]
<1>1. n \in 1 .. Produced /\ n # 1 /\ n - 1 \in 1 .. Produced
  OBVIOUS
<1>2. BufferInv(n) /\ FollowsOn(n) /\ Len(sent[n]) \in Nat /\ Len(sent[n]) \in 1 .. Len(sent[n])
  <2>1. BufferInv(n) /\ FollowsOn(n)
    BY <1>1 DEF CardInv
  <2> QED BY <1>1, <2>1, Buffers
<1>3. ~EndsEvent(n - 1) /\ Last(n - 1)[1] = e /\ Last(n - 1)[2] = d
  <2>1. Last(n - 1)[1] = e /\ Last(n - 1)[2] = d
    OBVIOUS
  <2>2. evs[e] \in Nat
    BY Events
  <2> QED BY <2>1, <2>2 DEF EndsEvent
<1>4. First(n) = <<e, d + 1>>
  BY <1>1, <1>2, <1>3 DEF FollowsOn
<1>5. First(n)[1] = e /\ First(n)[2] = d + 1
  BY <1>4
<1>6. \A k \in 1 .. Len(sent[n]) : sent[n][k] = <<e, d + k>>
  <2> SUFFICES ASSUME NEW k \in 1 .. Len(sent[n]) PROVE sent[n][k] = <<e, d + k>>
    OBVIOUS
  <2>1. sent[n][k] = <<e, d + 1 + k - 1>>
    BY <1>2, <1>5 DEF BufferInv
  <2>2. d + 1 + k - 1 = d + k
    BY <1>2
  <2> QED BY <2>1, <2>2
<1>7. Last(n) = <<e, d + Len(sent[n])>> /\ Last(n)[1] = e /\ Last(n)[2] = d + Len(sent[n])
  BY <1>2, <1>6 DEF Last
<1>8. d + Len(sent[n]) <= evs[e]
  BY <1>1, <1>7, Ends
<1> QED BY <1>6, <1>7, <1>8 DEF EndsEvent

-----------------------------------------------------------------------------
(* How a call ends, and how it goes on.                                    *)

\* The parts of the invariant that a call's progress is about.
Progress == ControlInv /\ GatherInv /\ HandsInv /\ DeliveredInv

\* A call that returns items that are whole, unless it tells of trouble.
LEMMA ReturnKeeps ==
  ASSUME CardInv, ChannelInv, Progress, Kept, Released' = Released,
         NEW items, NEW trouble \in BOOLEAN, Return(items, trouble),
         NEW t \in Nat, Taken' = t, Released <= t, t <= Produced,
         cut' => troubled \/ trouble,
         aligned' => \A k \in DOMAIN items :
           (reader = "event" => k = 1 /\ ~cut') => \E e \in DOMAIN evs : ItemIs(items[k], e)',
         ~troubled /\ ~trouble =>
           /\ \A m \in Released + 1 .. t : \A k \in 1 .. Len(sent[m]) :
                \E j \in DOMAIN items : Contents(items[j]) = Event(sent[m][k][1])
           /\ t > Released => EndsEvent(t)
  PROVE  Progress'
<1>1. /\ pc' = "idle" /\ out' = items /\ troubled' = (troubled \/ trouble)
      /\ ~troubled' => delivered' = delivered \cup {e \in DOMAIN evs :
                         \E k \in DOMAIN items : Contents(items[k]) = Event(e)}
  BY DEF Return
<1>2. reader' = reader /\ \A e \in DOMAIN evs : e \in DOMAIN evs'
  BY DEF Kept
<1>3. ControlInv' /\ GatherInv'
  BY <1>1 DEF ControlInv, GatherInv
<1>4. HandsInv'
  BY <1>1, <1>2 DEF HandsInv
<1>5. ASSUME ~troubled' PROVE DeliveredTo(Released)' /\ DeliveredTo(Taken)'
  <2>1. ~troubled /\ ~trouble /\ DeliveredTo(Released) /\ delivered \subseteq delivered'
    BY <1>1, <1>5 DEF Progress, DeliveredInv
  <2>2. PICK r \in Nat : r = Released
    BY ChannelTypes
  <2>3. r <= Produced /\ Produced \in Nat /\ DeliveredTo(r)
    BY <2>1, <2>2, ChannelTypes
  <2>4. DeliveredTo(r)'
    BY <2>1, <2>3, DeliveredKept
  <2>5. ASSUME NEW m \in 1 .. t, NEW k \in 1 .. Len(sent'[m])
        PROVE  sent'[m][k][1] \in delivered'
    <3>1. CASE m <= r
      BY <2>4, <2>5, <3>1 DEF DeliveredTo
    <3>2. CASE m > r
      <4>1. m \in Released + 1 .. t /\ m \in 1 .. Produced
        BY <2>2, <2>3, <3>2
      <4>2. sent'[m] = sent[m]
        BY <4>1 DEF Kept
      <4>3. k \in 1 .. Len(sent[m])
        BY <4>2
      <4>4. sent[m][k][1] \in DOMAIN evs
        BY <2>3, <4>1, <4>3, Buffers
      <4>5. \E j \in DOMAIN items : Contents(items[j]) = Event(sent[m][k][1])
        BY <2>1, <4>1, <4>3
      <4> QED BY <1>1, <1>5, <4>2, <4>4, <4>5
    <3> QED BY <2>2, <3>1, <3>2
  <2>6. t > 0 => EndsEvent(t)'
    <3>1. CASE t = r
      BY <2>4, <3>1 DEF DeliveredTo
    <3>2. CASE t # r /\ t > 0
      <4>1. EndsEvent(t) /\ t \in 1 .. Produced
        BY <2>1, <2>2, <2>3, <3>2
      <4>2. Last(t)' = Last(t)
        BY <4>1 DEF Last, Kept
      <4> QED BY <2>3, <4>1, <4>2, Ends DEF EndsEvent, Kept
    <3> QED BY <3>1, <3>2
  <2>7. DeliveredTo(t)'
    BY <2>5, <2>6 DEF DeliveredTo
  <2> QED BY <2>2, <2>4, <2>7 DEF DeliveredTo
<1>6. DeliveredInv'
  BY <1>1, <1>5 DEF DeliveredInv
<1> QED BY <1>3, <1>4, <1>6 DEF Progress

\* A call that gives up in trouble.
LEMMA ThrowKeeps ==
  ASSUME CardInv, ChannelInv, Progress, Kept, Released' = Released, ChannelInv',
         Return(<<>>, TRUE)
  PROVE  Progress'
<1>1. pc' = "idle" /\ out' = <<>> /\ troubled' = TRUE
  BY DEF Return
<1>2. ControlInv' /\ GatherInv'
  BY <1>1 DEF ControlInv, GatherInv
<1>3. HandsInv'
  <2>1. DOMAIN out' = {}
    BY <1>1
  <2> QED BY <2>1 DEF HandsInv
<1>4. DeliveredInv'
  BY <1>1 DEF DeliveredInv
<1> QED BY <1>2, <1>3, <1>4 DEF Progress

\* GetData that looks for a next event.
Going(item, tag, ptr) ==
  /\ reader = "event" /\ pc # "idle"
  /\ out' = Append(out, item) /\ when' = tag
  /\ pc' = "next" /\ cur' = ptr /\ want' = NoHeader /\ data' = <<>>
  /\ UNCHANGED <<tries, troubled, delivered>>

LEMMA GoingKeeps ==
  ASSUME CardInv, ChannelInv, Progress, Kept, Released' = Released, ChannelInv',
         NEW item, NEW tag, NEW ptr, Going(item, tag, ptr),
         list' # <<>>, ptr.at >= 1, cut' => cut,
         aligned' /\ ~cut' => \E e \in DOMAIN evs : FirstIs(e)',
         ~troubled => aligned'
  PROVE  Progress'
<1>1. /\ reader = "event" /\ reader' = reader /\ pc' = "next" /\ cur' = ptr
      /\ UNCHANGED <<troubled, delivered>>
  BY DEF Going, Kept
<1>2. ControlInv'
  BY <1>1 DEF ControlInv
<1>3. GatherInv' /\ HandsInv'
  BY <1>1 DEF GatherInv, HandsInv, Kept
<1>4. ASSUME ~troubled' PROVE DeliveredTo(Released)'
  <2>1. PICK r \in Nat : r = Released
    BY ChannelTypes
  <2>2. DeliveredTo(r) /\ r <= Produced /\ Produced \in Nat /\ delivered \subseteq delivered'
    BY <1>1, <1>4, <2>1, ChannelTypes DEF Progress, DeliveredInv
  <2>3. DeliveredTo(r)'
    BY <2>2, DeliveredKept
  <2> QED BY <2>1, <2>3 DEF DeliveredTo
<1>5. DeliveredInv'
  BY <1>1, <1>4 DEF Progress, DeliveredInv
<1> QED BY <1>2, <1>3, <1>5 DEF Progress

LEMMA SetupCases ==
  ASSUME Progress, pc # "idle", NEW item, NEW tag, NEW ptr, Setup(item, tag, ptr)
  PROVE  \/ Return(<<>>, TRUE)
         \/ pc = "next" /\ (Return(out, TRUE) \/ Return(out, FALSE))
         \/ reader = "subevent" /\ pc # "next" /\ Return(<<item>>, FALSE)
         \/ Going(item, tag, ptr)
<1>1. /\ pc \in {"first", "more", "next"}
      /\ pc \in {"first", "more"} => out = <<>>
      /\ pc = "next" => reader = "event"
  BY DEF Progress, ControlInv
<1>2. CASE Corrupt
  <2>1. CASE reader = "event" /\ pc = "next"
    BY <1>2, <2>1 DEF Corrupt
  <2>2. CASE reader # "event"
    BY <1>2, <2>2 DEF Corrupt
  <2>3. CASE reader = "event" /\ pc # "next"
    <3>1. out = <<>>
      BY <1>1, <2>3
    <3> QED BY <1>2, <2>3, <3>1 DEF Corrupt
  <2> QED BY <2>1, <2>2, <2>3
<1>3. CASE Accept(item, tag, ptr)
  BY <1>1, <1>3 DEF Accept, Going, GoOn
<1> QED BY <1>2, <1>3 DEF Setup

-----------------------------------------------------------------------------
(* Headers.                                                                *)
LEMMA HeaderType ==
  ASSUME CardInv, ChannelInv, when \in Nat, NEW n \in Nat, NEW at \in Nat, at >= 1,
         NEW h \in Header(n, at)
  PROVE  h.len \in Nat /\ h.len <= NoLimit /\ h.tag \in Nat
         /\ h = [len |-> h.len, tag |-> h.tag]
<1> DEFINE w == Memory(n, at)
<1>1. CASE w = Zero
  <2>1. h = [len |-> 0, tag |-> 0]
    <3>1. w[2] # 1
      BY <1>1 DEF Zero
    <3> HIDE DEF w
    <3>2. Header(n, at) = {[len |-> 0, tag |-> 0]}
      BY <1>1, <3>1 DEF Header, w
    <3> QED BY <3>2
  <2> QED BY <2>1, Sizes
<1>2. CASE w # Zero /\ w[2] = 1
  <2>1. w # Beyond
    BY <1>2 DEF Beyond
  <2>2. PICK m \in 1 .. Produced : at \in 1 .. Len(sent[m]) /\ w = sent[m][at]
    BY <1>2, <2>1, SomeMemory
  <2>3. w[1] \in DOMAIN evs
    BY <2>2, Buffers, ChannelTypes
  <2>4. h = [len |-> evs[w[1]], tag |-> w[1]]
    <3> HIDE DEF w
    <3>1. Header(n, at) = {[len |-> evs[w[1]], tag |-> w[1]]}
      BY <1>2 DEF Header, w
    <3> QED BY <3>1
  <2>5. evs[w[1]] \in Nat /\ evs[w[1]] <= NoLimit /\ w[1] \in Nat
    BY <2>3, Events
  <2> HIDE DEF w
  <2> QED BY <2>4, <2>5
<1>3. CASE w # Zero /\ w[2] # 1
  <2> DEFINE tags == IF w = Beyond THEN {when + 1} ELSE {when, when + 1}
  <2>1. h \in [len : {0} \cup Lens, tag : tags]
    BY <1>3 DEF Header
  <2>2. h.len \in {0} \cup Lens /\ h.tag \in tags /\ h = [len |-> h.len, tag |-> h.tag]
    <3> HIDE DEF tags
    <3> QED BY <2>1
  <2>3. h.len \in Nat /\ h.len <= NoLimit
    BY <2>2, Sizes
  <2> QED BY <2>2, <2>3
<1> QED BY <1>1, <1>2, <1>3

LEMMA HeaderOf ==
  ASSUME CardInv, ChannelInv, NEW n \in Released + 1 .. Produced, First(n)[2] = 1,
         NEW e, e = First(n)[1], NEW h \in Header(n, 1)
  PROVE  h = [len |-> evs[e], tag |-> e] /\ h.len = evs[e] /\ h.tag = e
<1>1. n \in 1 .. Produced /\ Produced \in Nat
  BY ChannelTypes
<1>2. 1 \in 1 .. Len(sent[n])
  BY <1>1, Buffers
<1>3. Memory(n, 1) = First(n)
  BY <1>2, HeldMemory DEF First
<1>4. First(n) # Zero
  BY DEF Zero
<1>5. Header(n, 1) = {[len |-> evs[e], tag |-> e]}
  BY <1>3, <1>4 DEF Header
<1> QED BY <1>5

-----------------------------------------------------------------------------
(* ReadNextDAQDMA and ReadNextDAQSubEventDMA take the first buffer.        *)
LEMMA FirstTaken ==
  ASSUME CardInv, ChannelInv, Progress, NEW n, n = NextBuffer,
         pc = "first", GetCurrentBuffer < 0, ReadBuffer, UNCHANGED <<cut, evs, sent, reader>>
  PROVE  /\ n \in Nat /\ n = Released + 1 /\ n <= Produced /\ n \in 1 .. Produced
         /\ Taken' = n /\ Released' = Released /\ ChannelInv' /\ CardInv' /\ Kept
         /\ list' # <<>> /\ out = <<>>
         /\ Payload(list', Len(list') - 1) = Len(sent[n])
         /\ ~troubled => First(n)[2] = 1
<1>1. /\ pc = "first" /\ GetCurrentBuffer < 0 /\ ReadBuffer
      /\ UNCHANGED <<cut, evs, sent, reader>>
  OBVIOUS
<1>2. list = <<>> /\ Len(list) = 0
  <2>1. Len(list) \in Nat
    BY ChannelTypes
  <2> QED BY <1>1, <2>1, EmptySeq DEF GetCurrentBuffer
<1>3. /\ n = Taken + 1 /\ n <= Produced /\ Len(list') = Len(list) + 1 /\ list'[Len(list')] = n
      /\ Taken' = n /\ UNCHANGED <<produced, released>> /\ ChannelInv'
  BY <1>1, LendIs
<1>4. n = Released + 1 /\ n \in Nat /\ n \in 1 .. Produced /\ Produced \in Nat
  BY <1>2, <1>3, ChannelTypes DEF Taken
<1>5. CardInv' /\ Kept
  BY <1>1, <1>3, <1>4, CardSame
<1>6. Len(list') = 1 /\ list' # <<>> /\ list'[1] = n
  BY <1>2, <1>3, EmptySeq
<1>7. Payload(list', Len(list') - 1) = Len(sent[n])
  <2>1. Len(list') - 1 = 0 /\ 0 < Len(list') /\ 0 + 1 = 1
    BY <1>6
  <2> QED BY <1>6, <2>1 DEF Payload
<1>8. out = <<>> /\ Released' = Released
  BY <1>1, <1>3 DEF Progress, ControlInv, Released
<1>9. ASSUME ~troubled PROVE First(n)[2] = 1
  <2>1. FollowsOn(n)
    BY <1>4 DEF CardInv
  <2>2. PICK r \in Nat : r = Released
    BY ChannelTypes
  <2>3. r > 0 => EndsEvent(r)
    BY <1>9, <2>2 DEF Progress, DeliveredInv, DeliveredTo
  <2>4. n - 1 = r /\ (n = 1 \/ r > 0)
    BY <1>4, <2>2
  <2> QED BY <2>1, <2>3, <2>4 DEF FollowsOn
<1> QED BY <1>3, <1>4, <1>5, <1>6, <1>7, <1>8, <1>9

\* An event that lies in the first buffer.
LEMMA FirstWhole ==
  ASSUME CardInv, ChannelInv, Kept, Released' = Released, NEW n \in 1 .. Produced,
         n = Released + 1, Taken' = n, reader # "record", First(n)[2] = 1,
         NEW e, e = First(n)[1], evs[e] <= Len(sent[n]),
         NEW item, item = [buffer |-> n, at |-> 1, len |-> evs[e], copy |-> <<>>]
  PROVE  /\ e \in DOMAIN evs /\ Contents(item) = Event(e) /\ ItemIs(item, e)'
         /\ \A k \in 1 .. Len(sent[n]) : sent[n][k][1] = e
         /\ EndsEvent(n) /\ HoldsOnly(e)' /\ EndsEvent(Taken)'
<1>1. Produced \in Nat /\ Released \in Nat
  BY ChannelTypes
<1>2. /\ \A k \in 1 .. Len(sent[n]) : sent[n][k] = <<e, k>>
      /\ e \in DOMAIN evs /\ Len(sent[n]) <= evs[e]
      /\ EndsEvent(n) <=> Len(sent[n]) = evs[e]
  BY <1>1, StartsHere
<1>3. Len(sent[n]) \in Nat /\ evs[e] \in Nat
  BY <1>1, <1>2, Buffers, Events
<1>4. Len(sent[n]) = evs[e]
  BY <1>2, <1>3
<1>5. /\ item.copy = <<>> /\ item.at = 1 /\ item.len = evs[e] /\ item.buffer = n
  OBVIOUS
<1>6. n \in Released + 1 .. Produced /\ \A k \in 1 .. evs[e] : sent[n][k] = <<e, k>>
  BY <1>1, <1>2, <1>4
<1>7. Contents(item) = Event(e)
  BY <1>2, <1>4, <1>5, <1>6, ContentsOf
<1>8. sent'[n] = sent[n] /\ evs'[e] = evs[e]
  BY <1>2 DEF Kept
<1>9. n \in Released' + 1 .. Taken'
  BY <1>1
<1>10. ItemIs(item, e)'
  BY <1>3, <1>4, <1>5, <1>6, <1>8, <1>9 DEF ItemIs
<1>11. \A k \in 1 .. Len(sent[n]) : sent[n][k][1] = e
  BY <1>2
<1>12. HoldsOnly(e)'
  <2>1. \A m \in Released' + 1 .. Taken' : m = n
    BY <1>1
  <2> QED BY <1>8, <1>11, <2>1 DEF HoldsOnly
<1>13. EndsEvent(Taken)'
  <2>1. Last(Taken)' = Last(n)
    BY <1>8 DEF Last
  <2>2. EndsEvent(n)
    BY <1>2, <1>4
  <2> QED BY <1>1, <2>1, <2>2, Ends DEF EndsEvent, Kept
<1> QED BY <1>2, <1>4, <1>7, <1>10, <1>11, <1>12, <1>13

\* An event that the first buffer does not hold to its end.
LEMMA FirstPart ==
  ASSUME CardInv, ChannelInv, Kept, Released' = Released, NEW n \in 1 .. Produced,
         n = Released + 1, Taken' = n, reader # "record", First(n)[2] = 1,
         NEW e, e = First(n)[1], evs[e] > Len(sent[n]),
         want' = [len |-> evs[e], tag |-> e],
         data' = [k \in 1 .. Len(sent[n]) |-> Memory(n, 1 + k - 1)]
  PROVE  e \in DOMAIN evs /\ Gathered(e)'
<1> DEFINE len == Len(sent[n])
<1>1. Produced \in Nat /\ Released \in Nat
  BY ChannelTypes
<1>2. /\ \A k \in 1 .. len : sent[n][k] = <<e, k>>
      /\ e \in DOMAIN evs /\ len <= evs[e] /\ Last(n) = <<e, len>>
  BY <1>1, StartsHere
<1>3. len \in Nat /\ len >= 1 /\ evs[e] \in Nat /\ len <= evs[e] - 1 /\ e \in Nat
  BY <1>1, <1>2, Buffers, Events
<1>4. n \in Released + 1 .. Produced
  BY <1>1
<1>5. data' = [k \in 1 .. len |-> <<e, k>>]
  <2>1. \A k \in 1 .. len : Memory(n, 1 + k - 1) = <<e, k>>
    <3> SUFFICES ASSUME NEW k \in 1 .. len PROVE Memory(n, 1 + k - 1) = <<e, k>>
      OBVIOUS
    <3>1. 1 + k - 1 = k
      BY <1>3
    <3>2. Memory(n, k) = sent[n][k]
      BY <1>4, HeldMemory
    <3> QED BY <1>2, <3>1, <3>2
  <2> QED BY <2>1
<1>6. sent'[n] = sent[n] /\ evs'[e] = evs[e]
  BY <1>2 DEF Kept
<1> HIDE DEF len
<1>7. Len(data') = len
  <2>1. \A k \in 1 .. len : <<e, k>> \in Nat \X Nat
    BY <1>3
  <2> QED BY <1>3, <1>5
<1>8. HoldsOnly(e)'
  <2>1. \A m \in Released' + 1 .. Taken' : m = n
    BY <1>1
  <2>2. \A k \in 1 .. len : sent[n][k][1] = e
    BY <1>2
  <2> QED BY <1>6, <2>1, <2>2 DEF HoldsOnly, len
<1>9. Last(Taken)' = <<e, len>>
  BY <1>2, <1>6 DEF Last
<1>10. Len(data') \in 1 .. evs'[e] - 1
  BY <1>3, <1>6, <1>7
<1>11. want' = [len |-> evs'[e], tag |-> e] /\ data' = [k \in 1 .. Len(data') |-> <<e, k>>]
  BY <1>5, <1>6, <1>7
<1> QED BY <1>2, <1>7, <1>8, <1>9, <1>10, <1>11 DEF Gathered

\* The call waits for the next buffer of its event.
LEMMA MoreKeeps ==
  ASSUME CardInv, ChannelInv, Progress, Kept, Released' = Released, ChannelInv',
         pc \in {"first", "more"}, pc' = "more", out' = out, UNCHANGED <<cut, troubled, delivered>>,
         list' # <<>>, reader # "record", cur'.at >= 1, Len(data') < want'.len,
         aligned' => \E e \in DOMAIN evs : Gathered(e)',
         ~troubled => aligned'
  PROVE  Progress'
<1>1. reader' = reader /\ \A e \in DOMAIN evs : e \in DOMAIN evs'
  BY DEF Kept
<1>2. ControlInv'
  BY <1>1 DEF Progress, ControlInv
<1>3. GatherInv' /\ HandsInv'
  BY <1>1 DEF GatherInv, HandsInv
<1>4. ASSUME ~troubled' PROVE DeliveredTo(Released)'
  <2>1. PICK r \in Nat : r = Released
    BY ChannelTypes
  <2>2. DeliveredTo(r) /\ r <= Produced /\ Produced \in Nat /\ delivered \subseteq delivered'
    BY <1>4, <2>1, ChannelTypes DEF Progress, DeliveredInv
  <2>3. DeliveredTo(r)'
    BY <2>2, DeliveredKept
  <2> QED BY <2>1, <2>3 DEF DeliveredTo
<1>5. DeliveredInv'
  BY <1>4 DEF Progress, DeliveredInv
<1> QED BY <1>2, <1>3, <1>5 DEF Progress

\* What is done with the header h read at ptr, when len words are on hand there.
ParseTo(h, ptr, len) ==
  \/ h.len = 0 /\ Throw
  \/ /\ h.len \in 1 .. len
     /\ \E item, next :
          /\ item = [buffer |-> ptr.buffer, at |-> ptr.at, len |-> h.len, copy |-> <<>>]
          /\ next = [ptr EXCEPT !.at = @ + h.len]
          /\ Setup(item, h.tag, next)
  \/ /\ h.len > len
     /\ pc' = "more" /\ want' = h /\ cur' = ptr
     /\ data' = [k \in 1 .. len |-> Memory(ptr.buffer, ptr.at + k - 1)]
     /\ GoOn /\ UNCHANGED <<tries, when, out>>

LEMMA ParseCases ==
  ASSUME NEW l, NEW ptr, NEW index, Parse(l, ptr, index), NEW len, len = Payload(l, index)
  PROVE  \E h \in Header(ptr.buffer, ptr.at) : ParseTo(h, ptr, len)
<1>1. PICK h \in Header(ptr.buffer, ptr.at) :
        \/ /\ h.len = 0
           /\ Throw
        \/ /\ h.len \in 1 .. len
           /\ Setup([buffer |-> ptr.buffer, at |-> ptr.at, len |-> h.len, copy |-> <<>>],
                    h.tag, [ptr EXCEPT !.at = @ + h.len])
        \/ /\ h.len > len
           /\ pc' = "more" /\ want' = h /\ cur' = ptr
           /\ data' = [k \in 1 .. len |-> Memory(ptr.buffer, ptr.at + k - 1)]
           /\ GoOn /\ UNCHANGED <<tries, when, out>>
  BY DEF Parse
<1>2. CASE h.len = 0 /\ Throw
  BY <1>2 DEF ParseTo
<1>3. ASSUME h.len \in 1 .. len,
             Setup([buffer |-> ptr.buffer, at |-> ptr.at, len |-> h.len, copy |-> <<>>],
                    h.tag, [ptr EXCEPT !.at = @ + h.len])
      PROVE  ParseTo(h, ptr, len)
  BY <1>3 DEF ParseTo
<1>4. ASSUME h.len > len, pc' = "more", want' = h, cur' = ptr,
             data' = [k \in 1 .. len |-> Memory(ptr.buffer, ptr.at + k - 1)],
             GoOn, UNCHANGED <<tries, when, out>>
      PROVE  ParseTo(h, ptr, len)
  BY <1>4 DEF ParseTo
<1> QED BY <1>1, <1>2, <1>3, <1>4

LEMMA One ==
  ASSUME NEW x, NEW s, s = <<x>> PROVE DOMAIN s = {1} /\ s[1] = x /\ Len(s) = 1 /\ s # <<>>
OBVIOUS

LEMMA TakeFirstKeeps ==
  ASSUME CardInv, ChannelInv, Progress, when \in Nat, TakeFirst
  PROVE  Progress'
<1>1. PICK n : n = NextBuffer
  OBVIOUS
<1>2. /\ pc = "first" /\ GetCurrentBuffer < 0 /\ ReadBuffer /\ reader # "record"
      /\ UNCHANGED <<cut, evs, sent, reader>> /\ aligned' = (First(n)[2] = 1)
  BY <1>1 DEF TakeFirst, Unaltered, cardVars, First
<1>3. /\ n \in Nat /\ n = Released + 1 /\ n <= Produced /\ n \in 1 .. Produced
      /\ Taken' = n /\ Released' = Released /\ ChannelInv' /\ CardInv' /\ Kept
      /\ list' # <<>> /\ pc = "first" /\ out = <<>> /\ reader # "record"
      /\ UNCHANGED <<cut, reader>> /\ aligned' = (First(n)[2] = 1)
      /\ ~troubled => aligned'
  BY <1>1, <1>2, FirstTaken
<1>4. Payload(list', Len(list') - 1) = Len(sent[n])
  BY <1>1, <1>2, FirstTaken
<1>5. n \in Released + 1 .. Produced /\ Produced \in Nat /\ Released \in Nat
      /\ Len(sent[n]) \in Nat
  BY <1>3, ChannelTypes, Buffers
<1>6. cut' => troubled
  BY <1>3 DEF Progress, DeliveredInv
<1>7. PICK ptr : ptr = [buffer |-> n, at |-> 1]
  OBVIOUS
<1>8. PICK h \in Header(n, 1) : ParseTo(h, ptr, Len(sent[n]))
  <2>1. PICK l, index : l = list' /\ index = Len(list') - 1
    OBVIOUS
  <2>2. Parse(l, ptr, index)
    BY <1>1, <1>7, <2>1 DEF TakeFirst
  <2>3. Payload(l, index) = Len(sent[n])
    BY <1>4, <2>1
  <2>4. ptr.buffer = n /\ ptr.at = 1
    BY <1>7
  <2> QED BY <2>2, <2>3, <2>4, ParseCases
<1>9. h.len \in Nat
  BY <1>3, HeaderType
<1>10. PICK e : e = First(n)[1]
  OBVIOUS
<1>11. First(n)[2] = 1 => h = [len |-> evs[e], tag |-> e] /\ h.len = evs[e]
  BY <1>5, <1>10, HeaderOf
<1>12. CASE Throw
  BY <1>3, <1>12, ThrowKeeps DEF Throw
<1>13. ASSUME h.len \in 1 .. Len(sent[n]), NEW item, NEW next,
             item = [buffer |-> n, at |-> 1, len |-> h.len, copy |-> <<>>],
             next = [ptr EXCEPT !.at = @ + h.len], Setup(item, h.tag, next)
      PROVE  Progress'
  <2>1. ASSUME First(n)[2] = 1
        PROVE  /\ e \in DOMAIN evs /\ Contents(item) = Event(e) /\ ItemIs(item, e)'
               /\ \A k \in 1 .. Len(sent[n]) : sent[n][k][1] = e
               /\ EndsEvent(n) /\ HoldsOnly(e)' /\ EndsEvent(Taken)'
    <3>1. evs[e] <= Len(sent[n]) /\ item = [buffer |-> n, at |-> 1, len |-> evs[e], copy |-> <<>>]
      BY <1>5, <1>11, <1>13, <2>1
    <3> QED BY <1>3, <1>10, <2>1, <3>1, FirstWhole
  <2>2. CASE Return(<<>>, TRUE)
    BY <1>3, <2>2, ThrowKeeps
  <2>3. CASE Return(<<item>>, FALSE)
    <3>1. PICK items : items = <<item>>
      OBVIOUS
    <3>2. Return(items, FALSE) /\ DOMAIN items = {1} /\ items[1] = item
      <4>1. Return(items, FALSE)
        BY <2>3, <3>1
      <4> QED BY <3>1, <4>1, One
    <3>3. aligned' => \A k \in DOMAIN items :
            (reader = "event" => k = 1 /\ ~cut') => \E x \in DOMAIN evs : ItemIs(items[k], x)'
      BY <1>3, <2>1, <3>1, <3>2
    <3>4. ~troubled =>
            /\ \A m \in Released + 1 .. n : \A k \in 1 .. Len(sent[m]) :
                 \E j \in DOMAIN items : Contents(items[j]) = Event(sent[m][k][1])
            /\ n > Released => EndsEvent(n)
      <4> SUFFICES ASSUME ~troubled
                   PROVE  /\ \A m \in Released + 1 .. n : \A k \in 1 .. Len(sent[m]) :
                               \E j \in DOMAIN items : Contents(items[j]) = Event(sent[m][k][1])
                          /\ EndsEvent(n)
        OBVIOUS
      <4>1. \A m \in Released + 1 .. n : m = n
        BY <1>3, <1>5
      <4>2. 1 \in DOMAIN items /\ Contents(items[1]) = Event(e)
        BY <1>3, <2>1, <3>1, <3>2
      <4>3. \A k \in 1 .. Len(sent[n]) : Contents(items[1]) = Event(sent[n][k][1])
        BY <1>3, <2>1, <4>2
      <4> QED BY <1>3, <2>1, <4>1, <4>2, <4>3
    <3>5. Released <= n
      BY <1>3, <1>5
    <3> QED BY <1>3, <1>6, <3>2, <3>3, <3>4, <3>5, ReturnKeeps
  <2>4. CASE Going(item, h.tag, next)
    <3>1. out' = <<item>> /\ out' # <<>> /\ out'[1] = item
      BY <1>3, <2>4 DEF Going
    <3>2. aligned' /\ ~cut' => \E x \in DOMAIN evs : FirstIs(x)'
      BY <1>3, <2>1, <3>1 DEF FirstIs
    <3>3. next.at >= 1
      BY <1>7, <1>9, <1>13
    <3> QED BY <1>3, <2>4, <3>2, <3>3, GoingKeeps
  <2> QED BY <1>3, <1>13, <2>2, <2>3, <2>4, SetupCases
<1>14. ASSUME h.len > Len(sent[n]), pc' = "more", want' = h, cur' = ptr,
              data' = [k \in 1 .. Len(sent[n]) |-> Memory(n, 1 + k - 1)], GoOn,
              UNCHANGED <<tries, when, out>>
       PROVE  Progress'
  <2>1. ASSUME First(n)[2] = 1 PROVE e \in DOMAIN evs /\ Gathered(e)'
    BY <1>3, <1>11, <1>10, <1>14, <2>1, FirstPart
  <2>2. aligned' => \E x \in DOMAIN evs : Gathered(x)'
    BY <1>3, <2>1
  <2>3. Len(data') = Len(sent[n])
    <3> DEFINE len == Len(sent[n])
    <3>1. len \in Nat /\ data' = [k \in 1 .. len |-> Memory(n, 1 + k - 1)]
      BY <1>5, <1>14
    <3> HIDE DEF len
    <3>2. Len(data') = len
      BY <3>1
    <3> QED BY <3>2 DEF len
  <2>4. Len(data') < want'.len /\ cur'.at >= 1
    BY <1>7, <1>14, <2>3
  <2> QED BY <1>3, <1>14, <2>2, <2>4, MoreKeeps DEF GoOn
<1> QED BY <1>7, <1>8, <1>12, <1>13, <1>14 DEF ParseTo

-----------------------------------------------------------------------------
(* ReadNextCFORecordDMA.                                                   *)
LEMMA RecordIs ==
  ASSUME CardInv, Produced \in Nat, reader = "record",
         NEW n \in 1 .. Produced, NEW k \in 1 .. Len(sent[n]), NEW e, e = sent[n][k][1]
  PROVE  e \in DOMAIN evs /\ <<sent[n][k]>> = Event(e) /\ sent[n][k] = <<e, 1>> /\ evs[e] = 1
<1>1. /\ sent[n][k] = <<e, sent[n][k][2]>> /\ e \in DOMAIN evs
      /\ sent[n][k][2] \in 1 .. evs[e]
  BY Buffers
<1>2. evs[e] = 1
  BY <1>1 DEF CardInv
<1>3. sent[n][k] = <<e, 1>>
  <2>1. sent[n][k][2] = 1
    BY <1>1, <1>2
  <2> QED BY <1>1, <2>1
<1>4. Event(e) = [i \in 1 .. 1 |-> <<e, i>>]
  BY <1>2 DEF Event
<1>5. Event(e) = <<<<e, 1>>>>
  BY <1>4
<1> QED BY <1>1, <1>2, <1>3, <1>5

LEMMA TakeRecordsKeeps ==
  ASSUME CardInv, ChannelInv, Progress, TakeRecords
  PROVE  Progress'
<1>1. PICK n : n = NextBuffer
  OBVIOUS
<1>2. /\ pc = "first" /\ GetCurrentBuffer < 0 /\ ReadBuffer /\ reader = "record"
      /\ UNCHANGED <<cut, evs, sent, reader>>
  BY DEF TakeRecords, Unaltered, cardVars
<1>3. /\ n \in Nat /\ n = Released + 1 /\ n <= Produced /\ n \in 1 .. Produced
      /\ Taken' = n /\ Released' = Released /\ ChannelInv' /\ CardInv' /\ Kept
      /\ Payload(list', Len(list') - 1) = Len(sent[n])
  BY <1>1, <1>2, FirstTaken
<1>4. PICK len : len = Len(sent[n])
  OBVIOUS
<1>5. PICK items : items = [k \in 1 .. len |->
              [buffer |-> n, at |-> k, len |-> 1, copy |-> <<sent[n][k]>>]]
  OBVIOUS
<1>6. Return(items, FALSE)
  <2>1. Payload(list', Len(list') - 1) = len
    BY <1>3, <1>4
  <2> QED BY <1>1, <1>5, <2>1 DEF TakeRecords
<1>7. /\ DOMAIN items = 1 .. Len(sent[n])
      /\ \A k \in 1 .. Len(sent[n]) : items[k].copy = <<sent[n][k]>>
  BY <1>4, <1>5
<1>8. Produced \in Nat /\ Released \in Nat
  BY ChannelTypes
<1>9. ASSUME NEW k \in 1 .. Len(sent[n]), NEW e, e = sent[n][k][1]
      PROVE  e \in DOMAIN evs /\ ItemIs(items[k], e)' /\ Contents(items[k]) = Event(e)
  <2>1. e \in DOMAIN evs /\ items[k].copy = Event(e)
    <3>1. e \in DOMAIN evs /\ <<sent[n][k]>> = Event(e)
      BY <1>2, <1>3, <1>8, <1>9, RecordIs
    <3>2. items[k].copy = <<sent[n][k]>>
      BY <1>7
    <3> QED BY <3>1, <3>2
  <2>2. Event(e)' = Event(e)
    BY <2>1, <1>3 DEF Kept, Event
  <2> QED BY <2>1, <2>2, ContentsOf DEF ItemIs
<1>10. \A k \in DOMAIN items : \E e \in DOMAIN evs : ItemIs(items[k], e)'
  <2> SUFFICES ASSUME NEW k \in DOMAIN items PROVE \E e \in DOMAIN evs : ItemIs(items[k], e)'
    OBVIOUS
  <2>1. PICK e : e = sent[n][k][1]
    OBVIOUS
  <2> QED BY <1>7, <1>9, <2>1
<1>11. \A m \in Released + 1 .. n : \A k \in 1 .. Len(sent[m]) :
         \E j \in DOMAIN items : Contents(items[j]) = Event(sent[m][k][1])
  <2> SUFFICES ASSUME NEW m \in Released + 1 .. n, NEW k \in 1 .. Len(sent[m])
               PROVE  \E j \in DOMAIN items : Contents(items[j]) = Event(sent[m][k][1])
    OBVIOUS
  <2>1. m = n
    BY <1>3, <1>8
  <2>2. k \in DOMAIN items
    BY <1>7, <2>1
  <2> QED BY <1>9, <2>1, <2>2
<1>12. EndsEvent(n)
  <2>1. Len(sent[n]) \in 1 .. Len(sent[n])
    BY <1>3, <1>8, Buffers
  <2>2. PICK e : e = Last(n)[1]
    OBVIOUS
  <2>3. Last(n) = <<e, 1>> /\ evs[e] = 1
    BY <1>2, <1>3, <1>8, <2>1, <2>2, RecordIs DEF Last
  <2> QED BY <2>3 DEF EndsEvent
<1>13. cut' => troubled
  BY <1>2 DEF Progress, DeliveredInv
<1>14. Released <= n
  BY <1>3, <1>8
<1> QED BY <1>3, <1>6, <1>10, <1>11, <1>12, <1>13, <1>14, ReturnKeeps

-----------------------------------------------------------------------------
(* Nothing came.                                                           *)
LEMMA FirstKeeps ==
  ASSUME CardInv, ChannelInv, Kept, pc' = "first", out' = <<>>,
         list' # <<>> => cut' /\ reader = "event" /\ cur'.at >= 1,
         cut' => troubled',
         NEW r \in Nat, Released' = r, r <= Produced,
         ~troubled' => DeliveredTo(r) /\ delivered' = delivered
  PROVE  Progress'
<1>1. ControlInv' /\ GatherInv' /\ HandsInv'
  BY DEF ControlInv, GatherInv, HandsInv, Kept
<1>2. ASSUME ~troubled' PROVE DeliveredTo(Released)'
  <2>1. DeliveredTo(r)'
    BY <1>2, ChannelTypes, DeliveredKept
  <2> QED BY <2>1 DEF DeliveredTo
<1>3. DeliveredInv'
  BY <1>2 DEF DeliveredInv
<1> QED BY <1>1, <1>3 DEF Progress

LEMMA NothingCameKeeps ==
  ASSUME CardInv, ChannelInv, Progress, NothingCame
  PROVE  Progress'
<1>1. /\ pc = "first" /\ GetCurrentBuffer < 0 /\ UNCHANGED <<produced, released, lent, list>>
      /\ UNCHANGED <<evs, sent, reader, aligned, cut>>
  BY DEF NothingCame, NoBuffer, fifoVars, cardVars, Unaltered
<1>2. list = <<>> /\ Len(list) = 0
  <2>1. Len(list) \in Nat
    BY ChannelTypes
  <2> QED BY <1>1, <2>1, EmptySeq DEF GetCurrentBuffer
<1>3. PICK r \in Nat : r = Released
  BY ChannelTypes
<1>4. /\ r <= Produced /\ Released' = Released /\ Released' = r /\ Taken' = r /\ Released <= r
      /\ Kept
  <2>1. Taken = Released /\ Produced \in Nat
    BY <1>2, ChannelTypes DEF Taken
  <2> QED BY <1>1, <1>3, <2>1, ChannelTypes, ChannelSame, CardSame
<1>5. cut' => troubled
  <2>1. (cut => troubled) /\ cut' = cut
    BY <1>1 DEF Progress, DeliveredInv
  <2> QED BY <2>1
<1>6. ~troubled => DeliveredTo(r)
  BY <1>3 DEF Progress, DeliveredInv
<1>7. CASE UNCHANGED <<pc, out, troubled, delivered>>
  <2>1. pc' = "first" /\ out' = <<>> /\ ~(list' # <<>>)
    BY <1>1, <1>2, <1>7 DEF Progress, ControlInv
  <2>2. ~troubled' => DeliveredTo(r) /\ delivered' = delivered
    BY <1>6, <1>7
  <2>3. cut' => troubled'
    BY <1>5, <1>7
  <2>4. list' # <<>> => cut' /\ reader = "event" /\ cur'.at >= 1
    BY <2>1
  <2> QED BY <1>4, <2>1, <2>2, <2>3, <2>4, FirstKeeps
<1>8. CASE Return(<<>>, FALSE)
  <2>1. PICK items : items = <<>>
    OBVIOUS
  <2>2. Return(items, FALSE)
    BY <1>8, <2>1
  <2>3. DOMAIN items = {}
    BY <2>1
  <2>4. \A m \in Released + 1 .. r : FALSE
    BY <1>3
  <2>5. ~(r > Released)
    BY <1>3
  <2>6. aligned' => \A k \in DOMAIN items :
          (reader = "event" => k = 1 /\ ~cut') => \E e \in DOMAIN evs : ItemIs(items[k], e)'
    BY <2>3
  <2>7. ~troubled /\ ~FALSE =>
          /\ \A m \in Released + 1 .. r : \A k \in 1 .. Len(sent[m]) :
               \E j \in DOMAIN items : Contents(items[j]) = Event(sent[m][k][1])
          /\ r > Released => EndsEvent(r)
    BY <2>4, <2>5
  <2>8. cut' => troubled \/ FALSE
    BY <1>5
  <2>9. FALSE \in BOOLEAN
    OBVIOUS
  <2> QED BY <1>4, <2>2, <2>6, <2>7, <2>8, <2>9, ReturnKeeps
<1> QED BY <1>7, <1>8 DEF NothingCame, GoOn

LEMMA NoMoreKeeps ==
  ASSUME CardInv, ChannelInv, Progress, NoMore
  PROVE  Progress'
<1>1. /\ pc = "more" /\ UNCHANGED <<produced, released, lent, list>>
      /\ UNCHANGED <<evs, sent, reader, aligned>> /\ cut' = TRUE
  BY DEF NoMore, NoBuffer, fifoVars, cardVars, Unaltered
<1>2. PICK r \in Nat : r = Released
  BY ChannelTypes
<1>3. r <= Produced /\ Released' = r /\ Released' = Released /\ ChannelInv' /\ Kept
  <2>1. Produced \in Nat
    BY ChannelTypes
  <2> QED BY <1>1, <1>2, <2>1, ChannelTypes, ChannelSame, CardSame
<1>4. CASE /\ reader = "event" /\ pc' = "first" /\ troubled' = TRUE /\ UNCHANGED <<cur, out>>
  <2>1. out' = <<>> /\ cur'.at >= 1
    BY <1>1, <1>4 DEF Progress, ControlInv
  <2>2. list' # <<>> => cut' /\ reader = "event" /\ cur'.at >= 1
    BY <1>1, <1>4, <2>1
  <2>3. (cut' => troubled') /\ (~troubled' => DeliveredTo(r) /\ delivered' = delivered)
    BY <1>4
  <2> QED BY <1>2, <1>3, <1>4, <2>1, <2>2, <2>3, FirstKeeps
<1>5. CASE Return(<<>>, TRUE)
  BY <1>3, <1>5, ThrowKeeps
<1> QED BY <1>4, <1>5 DEF NoMore

-----------------------------------------------------------------------------
(* GetData reads on with buffers on hand.                                  *)
LEMMA OnHandKeeps ==
  ASSUME CardInv, ChannelInv, Progress, when \in Nat, cur \in [buffer : Nat, at : Nat],
         out \in Seq(Item), OnHand
  PROVE  Progress'
<1>1. /\ pc \in {"first", "next"} /\ GetCurrentBuffer > 0
      /\ UNCHANGED <<produced, released, lent, list, evs, sent, reader, aligned, cut>>
  BY DEF OnHand, Unaltered, fifoVars, cardVars
<1>2. list # <<>>
  BY <1>1 DEF GetCurrentBuffer
<1>3. reader = "event" /\ (pc = "first" => cut /\ out = <<>>) /\ cur.at >= 1
  BY <1>1, <1>2 DEF Progress, ControlInv
<1>4. PICK t \in Nat : t = Taken
  BY ChannelTypes
<1>5. /\ Released' = Released /\ Taken' = t /\ ChannelInv' /\ CardInv' /\ Kept
      /\ Released <= t /\ t <= Produced /\ Produced \in Nat /\ Released \in Nat
      /\ list' # <<>>
  <2>1. Produced \in Nat
    BY ChannelTypes
  <2> QED BY <1>1, <1>2, <1>4, <2>1, ChannelTypes, ChannelSame, CardSame
<1>6. cut' => troubled
  <2>1. (cut => troubled) /\ cut' = cut
    BY <1>1 DEF Progress, DeliveredInv
  <2> QED BY <2>1
<1>7. PICK ptr : ptr = cur
  OBVIOUS
<1>8. PICK h \in Header(ptr.buffer, ptr.at) : ParseTo(h, ptr, NoLimit)
  <2>1. PICK l, index : l = list /\ index = GetCurrentBuffer
    OBVIOUS
  <2>2. Parse(l, ptr, index)
    BY <1>3, <1>7, <2>1 DEF OnHand
  <2>3. Payload(l, index) = NoLimit
    <3>1. index = Len(l) /\ Len(l) \in Nat
      BY <1>2, <2>1, ChannelTypes DEF GetCurrentBuffer
    <3> QED BY <3>1 DEF Payload
  <2> QED BY <2>2, <2>3, ParseCases
<1>9. ptr.buffer \in Nat /\ ptr.at \in Nat /\ ptr.at >= 1
  BY <1>3, <1>7
<1>10. h.len \in Nat /\ ~(h.len > NoLimit)
  <2>1. h.len \in Nat /\ h.len <= NoLimit
    BY <1>9, HeaderType
  <2> QED BY <2>1, Sizes
<1>11. CASE Throw
  BY <1>5, <1>11, ThrowKeeps DEF Throw
<1>12. ASSUME pc = "next", NEW trouble \in BOOLEAN, Return(out, trouble)
       PROVE  Progress'
  <2>1. PICK items : items = out
    OBVIOUS
  <2>2. Return(items, trouble)
    BY <1>12, <2>1
  <2>3. ASSUME aligned, ~cut
        PROVE  \E e \in DOMAIN evs : ItemIs(items[1], e) /\ HoldsOnly(e) /\ EndsEvent(t)
                                     /\ items # <<>>
    <3>1. PICK e \in DOMAIN evs : FirstIs(e)
      BY <1>12, <2>3 DEF Progress, GatherInv
    <3> QED BY <1>4, <2>1, <3>1 DEF FirstIs
  <2>4. aligned' => \A k \in DOMAIN items :
          (reader = "event" => k = 1 /\ ~cut') => \E e \in DOMAIN evs : ItemIs(items[k], e)'
    <3> SUFFICES ASSUME aligned', NEW k \in DOMAIN items, k = 1, ~cut'
                 PROVE  \E e \in DOMAIN evs : ItemIs(items[k], e)'
      BY <1>3
    <3>1. aligned /\ ~cut
      BY <1>1
    <3>2. PICK e \in DOMAIN evs : ItemIs(items[1], e)
      BY <2>3, <3>1
    <3>3. PICK item : item = items[1]
      OBVIOUS
    <3>4. ItemIs(item, e)'
      BY <1>4, <1>5, <3>2, <3>3, ItemKept
    <3> QED BY <3>3, <3>4
  <2>5. ~troubled /\ ~trouble =>
          /\ \A m \in Released + 1 .. t : \A k \in 1 .. Len(sent[m]) :
               \E j \in DOMAIN items : Contents(items[j]) = Event(sent[m][k][1])
          /\ t > Released => EndsEvent(t)
    <3> SUFFICES ASSUME ~troubled
                 PROVE  /\ \A m \in Released + 1 .. t : \A k \in 1 .. Len(sent[m]) :
                             \E j \in DOMAIN items : Contents(items[j]) = Event(sent[m][k][1])
                        /\ EndsEvent(t)
      OBVIOUS
    <3>1. aligned /\ ~cut
      BY <1>12 DEF Progress, DeliveredInv
    <3>2. PICK e \in DOMAIN evs :
            ItemIs(items[1], e) /\ HoldsOnly(e) /\ EndsEvent(t) /\ items # <<>>
      BY <2>3, <3>1
    <3>3. 1 \in DOMAIN items
      BY <2>1, <3>2
    <3>4. Contents(items[1]) = Event(e)
      BY <3>2, ItemShows
    <3>5. \A m \in Released + 1 .. t : \A k \in 1 .. Len(sent[m]) : sent[m][k][1] = e
      BY <1>4, <3>2 DEF HoldsOnly
    <3> QED BY <3>2, <3>3, <3>4, <3>5
  <2>6. cut' => troubled \/ trouble
    BY <1>6
  <2> QED BY <1>5, <2>2, <2>4, <2>5, <2>6, ReturnKeeps
<1>13. ASSUME h.len \in 1 .. NoLimit, NEW item, NEW next,
              item = [buffer |-> ptr.buffer, at |-> ptr.at, len |-> h.len, copy |-> <<>>],
              next = [ptr EXCEPT !.at = @ + h.len], Setup(item, h.tag, next)
       PROVE  Progress'
  <2>1. CASE Return(<<>>, TRUE)
    BY <1>5, <2>1, ThrowKeeps
  <2>2. CASE pc = "next" /\ (Return(out, TRUE) \/ Return(out, FALSE))
    BY <1>12, <2>2
  <2>3. CASE Going(item, h.tag, next)
    <3>1. next.at >= 1
      <4>1. next.at = ptr.at + h.len
        BY <1>7, <1>13
      <4> QED BY <1>9, <1>10, <4>1
    <3>2. aligned' /\ ~cut' => \E e \in DOMAIN evs : FirstIs(e)'
      <4> SUFFICES ASSUME aligned', ~cut' PROVE \E e \in DOMAIN evs : FirstIs(e)'
        OBVIOUS
      <4>1. pc = "next" /\ aligned /\ ~cut
        BY <1>1, <1>3
      <4>2. PICK e \in DOMAIN evs : FirstIs(e)
        BY <4>1 DEF Progress, GatherInv
      <4>3. PICK one : one = out[1]
        OBVIOUS
      <4>4. out # <<>> /\ ItemIs(one, e) /\ HoldsOnly(e) /\ EndsEvent(t)
        BY <1>4, <4>2, <4>3 DEF FirstIs
      <4>5. out' # <<>> /\ out'[1] = one
        <5>1. out' = Append(out, item)
          BY <2>3 DEF Going
        <5>2. Len(out) \in Nat /\ Len(out) >= 1 /\ DOMAIN out = 1 .. Len(out)
          BY <4>4
        <5>3. out'[1] = out[1] /\ out' # <<>>
          BY <5>1, <5>2
        <5> QED BY <4>3, <5>3
      <4>6. ItemIs(one, e)'
        BY <1>4, <1>5, <4>4, ItemKept
      <4>7. HoldsOnly(e)' /\ EndsEvent(Taken)'
        BY <1>1, <1>4, <1>5, <4>4 DEF HoldsOnly, EndsEvent, Last
      <4> QED BY <4>5, <4>6, <4>7 DEF FirstIs
    <3>3. ~troubled => aligned'
      <4>1. ~troubled => ~cut /\ (pc = "next" => aligned)
        BY DEF Progress, DeliveredInv
      <4>2. (pc = "first" => cut) /\ aligned' = aligned
        BY <1>1, <1>3
      <4> QED BY <1>1, <4>1, <4>2
    <3>4. cut' => cut
      BY <1>1
    <3> QED BY <1>5, <2>3, <3>1, <3>2, <3>3, <3>4, GoingKeeps
  <2>4. CASE reader = "subevent"
    BY <1>3, <2>4
  <2> QED BY <1>1, <1>13, <2>1, <2>2, <2>3, <2>4, SetupCases
<1> QED BY <1>8, <1>10, <1>11, <1>13 DEF ParseTo

-----------------------------------------------------------------------------
(* The next buffer of an event.                                            *)
LEMMA CopyIs ==
  ASSUME CardInv, Produced \in Nat, NEW n \in 1 .. Produced,
         Len(data) \in Nat, want.len \in Nat, Len(data) < want.len
  PROVE  /\ CopySize(n) = IF want.len - Len(data) <= Len(sent[n]) THEN want.len - Len(data)
                          ELSE Len(sent[n])
         /\ CopySize(n) \in Nat
<1>1. want.len - Len(data) \in Nat /\ Len(sent[n]) \in Nat
  BY Buffers
<1>2. PICK a \in Nat, b \in Nat : a = want.len - Len(data) /\ b = Len(sent[n])
  BY <1>1
<1>3. Min({a, b}) = IF a <= b THEN a ELSE b
  BY MinOfTwo
<1>4. CopySize(n) = Min({a, b})
  BY <1>2 DEF CopySize
<1> QED BY <1>2, <1>3, <1>4

\* What has been copied after the n-th buffer.
Got(n) == data \o SubSeq(sent[n], 1, CopySize(n))

LEMMA MoreIs ==
  ASSUME CardInv, Produced \in Nat, reader # "record", NEW n \in 2 .. Produced, Taken = n - 1,
         NEW e \in DOMAIN evs, Gathered(e), NEW g, g = Len(Got(n))
  PROVE  /\ g \in Nat /\ g >= 1 /\ g <= evs[e] /\ Got(n) = [k \in 1 .. g |-> <<e, k>>]
         /\ Last(n) = <<e, g>> /\ (EndsEvent(n) <=> g = evs[e])
         /\ \A k \in 1 .. Len(sent[n]) : sent[n][k][1] = e
<1>1. n \in 1 .. Produced /\ evs[e] \in Nat /\ e \in Nat
  BY Events
<1>2. PICK d \in Nat : d = Len(data) /\ d >= 1 /\ d < evs[e]
  <2>1. Len(data) \in 1 .. evs[e] - 1
    BY DEF Gathered
  <2> QED BY <1>1, <2>1
<1>3. want.len = evs[e] /\ data = [k \in 1 .. d |-> <<e, k>>] /\ Last(n - 1) = <<e, d>>
  BY <1>2 DEF Gathered
<1>4. PICK len \in Nat : len = Len(sent[n])
  BY <1>1, Buffers
<1>5. /\ \A k \in 1 .. len : sent[n][k] = <<e, d + k>>
      /\ d + len <= evs[e] /\ Last(n) = <<e, d + len>>
      /\ EndsEvent(n) <=> d + len = evs[e]
  BY <1>4, <1>2, <1>3, GoesOn
<1>6. CopySize(n) = len
  <2>1. CopySize(n) = IF evs[e] - d <= len THEN evs[e] - d ELSE len
    BY <1>1, <1>4, <1>2, <1>3, CopyIs
  <2> QED BY <1>1, <1>5, <1>2, <2>1
<1>7. PICK b : b = sent[n]
  OBVIOUS
<1>8. b \in Seq(Nat \X Nat) /\ Len(b) = len
  BY <1>1, <1>4, <1>7, Buffers
<1>9. SubSeq(b, 1, len) = b
  <2> DEFINE W == Nat \X Nat
  <2>1. b \in Seq(W)
    BY <1>8
  <2> HIDE DEF W
  <2> QED BY <1>8, <2>1
<1>10. Got(n) = data \o b
  BY <1>6, <1>7, <1>9 DEF Got
<1>11. data \in Seq(Nat \X Nat) /\ Len(data) = d /\ \A k \in 1 .. d : data[k] = <<e, k>>
  <2>1. \A k \in 1 .. d : <<e, k>> \in Nat \X Nat
    BY <1>1
  <2> QED BY <1>3, <2>1
<1>12. g = d + len /\ Got(n) = [k \in 1 .. g |-> <<e, k>>]
  <2>1. PICK a : a = data
    OBVIOUS
  <2>2. a \in Seq(Nat \X Nat) /\ Len(a) = d /\ \A k \in 1 .. d : a[k] = <<e, k>>
    BY <1>11, <2>1
  <2>3. \A k \in 1 .. len : b[k] = <<e, d + k>>
    BY <1>5, <1>7
  <2>4. PICK c : c = a \o b
    OBVIOUS
  <2>5. PICK W : W = Nat \X Nat
    OBVIOUS
  <2>6. a \in Seq(W) /\ b \in Seq(W) /\ Len(b) = len /\ Len(a) = d
    BY <1>8, <2>2, <2>5
  <2>7. \A k \in 1 .. d : a[k] = <<e, k>>
    BY <2>2
  <2>8. /\ c \in Seq(W) /\ Len(c) = Len(a) + Len(b)
        /\ \A i \in 1 .. Len(a) + Len(b) : c[i] = IF i <= Len(a) THEN a[i] ELSE b[i - Len(a)]
    BY <2>4, <2>6, ConcatProperties
  <2>9. /\ Len(c) = d + len
        /\ \A i \in 1 .. d + len : c[i] = IF i <= d THEN a[i] ELSE b[i - d]
    BY <2>6, <2>8
  <2>10. ASSUME NEW i \in 1 .. d + len PROVE c[i] = <<e, i>>
    <3>1. CASE i <= d
      <4>1. i \in 1 .. d
        BY <3>1
      <4> QED BY <2>9, <2>7, <3>1, <4>1
    <3>2. CASE ~(i <= d)
      <4>1. i - d \in 1 .. len /\ d + (i - d) = i
        BY <3>2
      <4>2. b[i - d] = <<e, d + (i - d)>>
        BY <2>3, <4>1
      <4> QED BY <2>9, <3>2, <4>1, <4>2
    <3> QED BY <3>1, <3>2
  <2>11. c \in [1 .. d + len -> W]
    BY <2>8, <2>9, LenProperties
  <2>12. c = [k \in 1 .. d + len |-> <<e, k>>]
    BY <2>10, <2>11
  <2> QED BY <1>10, <2>1, <2>4, <2>9, <2>12
<1>13. \A k \in 1 .. len : sent[n][k][1] = e
  BY <1>5
<1>14. g \in Nat /\ g >= 1 /\ g <= evs[e]
  BY <1>1, <1>5, <1>2, <1>12
<1>15. Last(n) = <<e, g>> /\ (EndsEvent(n) <=> g = evs[e])
  BY <1>5, <1>12
<1> QED BY <1>4, <1>12, <1>13, <1>14, <1>15

\* GetData and GetSubEventData have copied the event to its end.
LEMMA CopyKeeps ==
  ASSUME CardInv, ChannelInv, Progress, Kept, Released' = Released, ChannelInv',
         UNCHANGED <<aligned, cut>>, pc = "more", list' # <<>>,
         NEW n \in 1 .. Produced, Taken' = n, Released <= n,
         NEW item, item.copy # <<>>, NEW tag, NEW ptr, ptr.at >= 1, Setup(item, tag, ptr),
         NEW e, aligned => /\ e \in DOMAIN evs /\ item.copy = Event(e) /\ HoldsOnly(e)
                           /\ \A k \in 1 .. Len(sent[n]) : sent[n][k][1] = e
                           /\ EndsEvent(n),
         n = Taken + 1
  PROVE  Progress'
<1>1. /\ Produced \in Nat /\ Released \in Nat /\ Taken \in Nat /\ n \in Nat
  BY ChannelTypes
<1>2. out = <<>> /\ (~troubled => aligned) /\ (cut => troubled)
  BY DEF Progress, ControlInv, DeliveredInv
<1>3. cut' => troubled
  BY <1>2
<1>4. ASSUME aligned
      PROVE  /\ e \in DOMAIN evs /\ ItemIs(item, e)' /\ Contents(item) = Event(e)
             /\ \A m \in Released + 1 .. n : \A k \in 1 .. Len(sent[m]) : sent[m][k][1] = e
             /\ EndsEvent(n)
  <2>1. /\ e \in DOMAIN evs /\ item.copy = Event(e) /\ HoldsOnly(e) /\ EndsEvent(n)
        /\ \A k \in 1 .. Len(sent[n]) : sent[n][k][1] = e
    BY <1>4
  <2>2. ItemIs(item, e)'
    <3>1. Event(e)' = Event(e)
      BY <2>1 DEF Kept, Event
    <3> QED BY <2>1, <3>1 DEF ItemIs
  <2>3. Contents(item) = Event(e)
    BY <2>1, ContentsOf
  <2>4. ASSUME NEW m \in Released + 1 .. n, NEW k \in 1 .. Len(sent[m])
        PROVE  sent[m][k][1] = e
    <3>1. m \in Released + 1 .. Taken \/ m = n
      BY <1>1
    <3> QED BY <2>1, <3>1 DEF HoldsOnly
  <2> QED BY <2>1, <2>2, <2>3, <2>4
<1>5. CASE Return(<<>>, TRUE)
  BY <1>5, ThrowKeeps
<1>6. CASE Return(<<item>>, FALSE)
  <2>1. PICK items : items = <<item>>
    OBVIOUS
  <2>2. Return(items, FALSE)
    BY <1>6, <2>1
  <2>3. DOMAIN items = {1} /\ items[1] = item
    BY <2>1, One
  <2>4. aligned' => \A k \in DOMAIN items :
          (reader = "event" => k = 1 /\ ~cut') => \E x \in DOMAIN evs : ItemIs(items[k], x)'
    <3>1. aligned' = aligned
      OBVIOUS
    <3> QED BY <1>4, <2>3, <3>1
  <2>5. ASSUME ~troubled
        PROVE  /\ \A m \in Released + 1 .. n : \A k \in 1 .. Len(sent[m]) :
                    \E j \in DOMAIN items : Contents(items[j]) = Event(sent[m][k][1])
               /\ EndsEvent(n)
    <3>1. aligned
      BY <1>2, <2>5
    <3>2. Contents(items[1]) = Event(e) /\ 1 \in DOMAIN items
      BY <1>4, <2>3, <3>1
    <3> QED BY <1>4, <3>1, <3>2
  <2>6. cut' => troubled \/ FALSE
    BY <1>3
  <2>7. FALSE \in BOOLEAN
    OBVIOUS
  <2>8. ~troubled /\ ~FALSE =>
          /\ \A m \in Released + 1 .. n : \A k \in 1 .. Len(sent[m]) :
               \E j \in DOMAIN items : Contents(items[j]) = Event(sent[m][k][1])
          /\ n > Released => EndsEvent(n)
    BY <2>5
  <2>9. n <= Produced
    BY <1>1
  <2> QED BY <1>1, <2>2, <2>4, <2>6, <2>7, <2>8, <2>9, ReturnKeeps
<1>7. CASE Going(item, tag, ptr)
  <2>1. out' # <<>> /\ out'[1] = item
    BY <1>2, <1>7 DEF Going
  <2>2. aligned' /\ ~cut' => \E x \in DOMAIN evs : FirstIs(x)'
    <3> SUFFICES ASSUME aligned' PROVE FirstIs(e)' /\ e \in DOMAIN evs
      OBVIOUS
    <3>1. /\ e \in DOMAIN evs /\ ItemIs(item, e)' /\ EndsEvent(n)
          /\ \A m \in Released + 1 .. n : \A k \in 1 .. Len(sent[m]) : sent[m][k][1] = e
      BY <1>4
    <3>2. HoldsOnly(e)'
      <4>1. ASSUME NEW m \in Released' + 1 .. Taken', NEW k \in 1 .. Len(sent'[m])
            PROVE  sent'[m][k][1] = e
        <5>1. m \in Released + 1 .. n /\ m \in 1 .. Produced
          BY <1>1
        <5>2. sent'[m] = sent[m]
          BY <5>1 DEF Kept
        <5> QED BY <3>1, <5>1, <5>2
      <4> QED BY <4>1 DEF HoldsOnly
    <3>3. EndsEvent(Taken)'
      <4>1. Last(Taken)' = Last(n)
        BY DEF Last, Kept
      <4> QED BY <1>1, <3>1, <4>1, Ends DEF EndsEvent, Kept
    <3>4. out' # <<>> /\ ItemIs(out[1], e)'
      BY <2>1, <3>1
    <3> QED BY <3>1, <3>2, <3>3, <3>4 DEF FirstIs
  <2>3. (~troubled => aligned') /\ (cut' => cut)
    BY <1>2
  <2> QED BY <1>7, <2>2, <2>3, GoingKeeps
<1> QED BY <1>5, <1>6, <1>7, SetupCases

LEMMA TakeMoreKeeps ==
  ASSUME CardInv, ChannelInv, Progress, want \in [len : Nat, tag : Nat], Len(data) \in Nat,
         TakeMore
  PROVE  Progress'
<1>1. PICK n : n = NextBuffer
  OBVIOUS
<1>2. /\ pc = "more" /\ ReadBuffer /\ UNCHANGED <<evs, sent, reader, aligned, cut>>
  BY DEF TakeMore, Unaltered, cardVars
<1>3. /\ n = Taken + 1 /\ n <= Produced /\ Len(list') = Len(list) + 1
      /\ Taken' = n /\ UNCHANGED <<produced, released>> /\ ChannelInv'
  BY <1>1, <1>2, LendIs
<1>4. /\ list # <<>> /\ reader # "record" /\ Len(data) < want.len
      /\ out = <<>> /\ (~troubled => aligned)
  BY <1>2 DEF Progress, ControlInv, DeliveredInv
<1>5. /\ n \in 2 .. Produced /\ Taken = n - 1 /\ n \in 1 .. Produced /\ Produced \in Nat
      /\ Released \in Nat /\ Released <= n /\ Taken \in Nat
  <2>1. /\ Len(list) \in Nat /\ list \in Seq(Nat) /\ Released \in Nat /\ Produced \in Nat
        /\ Taken = Released + Len(list) /\ Taken \in Nat
    BY ChannelTypes DEF Taken
  <2>2. Len(list) >= 1
    BY <1>4, <2>1, EmptySeq
  <2> QED BY <1>3, <2>1, <2>2
<1>6. CardInv' /\ Kept /\ Released' = Released /\ list' # <<>>
  <2>1. list' # <<>>
    BY <1>3, ChannelTypes, EmptySeq
  <2>2. Released' = Released
    BY <1>3 DEF Released
  <2> QED BY <1>2, <1>3, <1>5, <2>1, <2>2, CardSame
<1>7. PICK got : got = Got(n)
  OBVIOUS
<1>8. PICK c \in Nat : c = CopySize(n)
  BY <1>4, <1>5, CopyIs
<1>9. ASSUME NEW e \in DOMAIN evs, Gathered(e), NEW g, g = Len(got)
      PROVE  /\ g \in Nat /\ g >= 1 /\ g <= evs[e] /\ got = [k \in 1 .. g |-> <<e, k>>]
             /\ Last(n) = <<e, g>> /\ (EndsEvent(n) <=> g = evs[e])
             /\ \A k \in 1 .. Len(sent[n]) : sent[n][k][1] = e
             /\ want = [len |-> evs[e], tag |-> e] /\ want.len = evs[e] /\ HoldsOnly(e)
  <2>1. want = [len |-> evs[e], tag |-> e] /\ HoldsOnly(e)
    BY <1>9 DEF Gathered
  <2>2. g = Len(Got(n))
    BY <1>7, <1>9
  <2>3. /\ g \in Nat /\ g >= 1 /\ g <= evs[e] /\ Got(n) = [k \in 1 .. g |-> <<e, k>>]
        /\ Last(n) = <<e, g>> /\ (EndsEvent(n) <=> g = evs[e])
        /\ \A k \in 1 .. Len(sent[n]) : sent[n][k][1] = e
    BY <1>4, <1>5, <1>9, <2>2, MoreIs
  <2> QED BY <1>7, <2>1, <2>3
<1>10. CASE Len(got) < want.len /\ data' = got /\ cur'.at = c + 1
            /\ UNCHANGED <<pc, want, out, troubled, delivered>>
  <2>1. aligned' => \E e \in DOMAIN evs : Gathered(e)'
    <3> SUFFICES ASSUME aligned' PROVE \E e \in DOMAIN evs : Gathered(e)'
      OBVIOUS
    <3>1. PICK e \in DOMAIN evs : Gathered(e)
      BY <1>2 DEF Progress, GatherInv
    <3>2. PICK g : g = Len(got)
      OBVIOUS
    <3>3. /\ g \in Nat /\ g >= 1 /\ g <= evs[e] /\ got = [k \in 1 .. g |-> <<e, k>>]
          /\ Last(n) = <<e, g>> /\ (EndsEvent(n) <=> g = evs[e])
          /\ \A k \in 1 .. Len(sent[n]) : sent[n][k][1] = e
          /\ want = [len |-> evs[e], tag |-> e] /\ want.len = evs[e] /\ HoldsOnly(e)
      BY <1>9, <3>1, <3>2
    <3>4. g \in 1 .. evs[e] - 1
      <4>1. g < evs[e] /\ evs[e] \in Nat
        BY <1>10, <3>2, <3>3, Events
      <4> QED BY <3>3, <4>1
    <3>5. evs'[e] = evs[e] /\ want' = [len |-> evs'[e], tag |-> e] /\ Len(data') = g
          /\ data' = [k \in 1 .. g |-> <<e, k>>]
      BY <1>2, <1>10, <3>2, <3>3
    <3>6. Last(Taken)' = <<e, g>>
      BY <1>2, <1>3, <3>3 DEF Last
    <3>7. HoldsOnly(e)'
      <4>1. ASSUME NEW m \in Released' + 1 .. Taken', NEW k \in 1 .. Len(sent'[m])
            PROVE  sent'[m][k][1] = e
        <5>1. m \in Released + 1 .. Taken \/ m = n
          BY <1>3, <1>5, <1>6
        <5> QED BY <1>2, <3>3, <5>1 DEF HoldsOnly
      <4> QED BY <4>1 DEF HoldsOnly
    <3> QED BY <3>4, <3>5, <3>6, <3>7 DEF Gathered
  <2>2. ~troubled => aligned'
    BY <1>2, <1>4
  <2>3. Len(data') < want'.len /\ cur'.at >= 1
    BY <1>10
  <2>4. pc' = "more" /\ pc \in {"first", "more"}
    BY <1>2, <1>10
  <2> QED BY <1>2, <1>3, <1>4, <1>6, <1>10, <2>1, <2>2, <2>3, <2>4, MoreKeeps
<1>11. ASSUME ~(Len(got) < want.len), NEW item, NEW ptr,
              item = [buffer |-> n, at |-> 0, len |-> want.len, copy |-> got],
              ptr = [buffer |-> n, at |-> c + 1], Setup(item, want.tag, ptr)
       PROVE  Progress'
  <2>1. item.copy = got /\ ptr.at >= 1
    BY <1>11
  <2>2. got # <<>>
    <3>1. Len(got) # 0
      BY <1>4, <1>11
    <3> QED BY <3>1
  <2>3. PICK e : aligned => e \in DOMAIN evs /\ Gathered(e)
    BY <1>2 DEF Progress, GatherInv
  <2>4. ASSUME aligned
        PROVE  /\ e \in DOMAIN evs /\ got = Event(e) /\ HoldsOnly(e)
               /\ \A k \in 1 .. Len(sent[n]) : sent[n][k][1] = e
               /\ EndsEvent(n)
    <3>1. e \in DOMAIN evs /\ Gathered(e)
      BY <2>3, <2>4
    <3>2. PICK g : g = Len(got)
      OBVIOUS
    <3>3. /\ g \in Nat /\ g >= 1 /\ g <= evs[e] /\ got = [k \in 1 .. g |-> <<e, k>>]
          /\ Last(n) = <<e, g>> /\ (EndsEvent(n) <=> g = evs[e])
          /\ \A k \in 1 .. Len(sent[n]) : sent[n][k][1] = e
          /\ want = [len |-> evs[e], tag |-> e] /\ want.len = evs[e] /\ HoldsOnly(e)
      BY <1>9, <3>1, <3>2
    <3>4. g = evs[e]
      <4>1. ~(g < evs[e]) /\ evs[e] \in Nat
        BY <1>11, <3>1, <3>2, <3>3, Events
      <4> QED BY <3>3, <4>1
    <3>5. got = Event(e)
      BY <3>3, <3>4 DEF Event
    <3> QED BY <3>1, <3>3, <3>4, <3>5
  <2>5. UNCHANGED <<aligned, cut>>
    BY <1>2
  <2>6. PICK tag : tag = want.tag
    OBVIOUS
  <2>7. Setup(item, tag, ptr)
    BY <1>11, <2>6
  <2> QED BY <1>2, <1>3, <1>5, <1>6, <2>1, <2>2, <2>4, <2>5, <2>7, CopyKeeps
<1>12. PICK item : item = [buffer |-> n, at |-> 0, len |-> want.len, copy |-> got]
  OBVIOUS
<1>13. PICK ptr : ptr = [buffer |-> n, at |-> c + 1]
  OBVIOUS
<1>14. IF Len(got) < want.len
       THEN data' = got /\ cur' = ptr /\ GoOn /\ UNCHANGED <<pc, tries, when, want, out>>
       ELSE Setup(item, want.tag, ptr)
  <2>1. IF Len(Got(n)) < want.len
        THEN /\ data' = Got(n) /\ cur' = [buffer |-> n, at |-> CopySize(n) + 1]
             /\ GoOn /\ UNCHANGED <<pc, tries, when, want, out>>
        ELSE Setup([buffer |-> n, at |-> 0, len |-> want.len, copy |-> Got(n)], want.tag,
                   [buffer |-> n, at |-> CopySize(n) + 1])
    BY <1>1 DEF TakeMore, Got
  <2> QED BY <1>7, <1>8, <1>12, <1>13, <2>1
<1>15. CASE Len(got) < want.len
  <2>1. cur'.at = c + 1
    BY <1>13, <1>14, <1>15
  <2> QED BY <1>10, <1>14, <1>15, <2>1 DEF GoOn
<1>16. CASE ~(Len(got) < want.len)
  BY <1>11, <1>12, <1>13, <1>14, <1>16
<1> QED BY <1>15, <1>16

-----------------------------------------------------------------------------
(* Between calls.                                                          *)
LEMMA CallKeeps ==
  ASSUME CardInv, ChannelInv, Progress, NEW w, Call(w)
  PROVE  Progress'
<1>1. /\ pc = "idle" /\ ReleaseBuffers /\ pc' = "first" /\ out' = <<>> /\ cut' = FALSE
      /\ UNCHANGED <<evs, sent, reader, troubled, delivered>>
  BY DEF Call, cardVars
<1>2. PICK r \in Nat : r = Taken
  BY ChannelTypes
<1>3. list' = <<>> /\ Released' = r /\ r <= Produced /\ Kept
  <2>1. list' = <<>> /\ Released' = Taken /\ UNCHANGED produced
    BY <1>1, ReleaseIs
  <2>2. Produced \in Nat /\ Taken <= Produced
    BY ChannelTypes
  <2> QED BY <1>1, <1>2, <2>1, <2>2, CardSame
<1>4. ~troubled => DeliveredTo(r)
  BY <1>1, <1>2 DEF Progress, DeliveredInv
<1>5. ~troubled' => DeliveredTo(r) /\ delivered' = delivered
  BY <1>1, <1>4
<1>6. (list' # <<>> => cut' /\ reader = "event" /\ cur'.at >= 1) /\ (cut' => troubled')
  BY <1>1, <1>3
<1> QED BY <1>1, <1>3, <1>5, <1>6, FirstKeeps

LEMMA IdleKeeps ==
  ASSUME CardInv, ChannelInv, Kept, pc' = "idle", out' = <<>>, list' = <<>>, cut' = FALSE,
         NEW r \in Nat, Released' = r, Taken' = r, r <= Produced,
         ~troubled' => DeliveredTo(r) /\ delivered' = delivered
  PROVE  Progress'
<1>1. ControlInv' /\ GatherInv'
  BY DEF ControlInv, GatherInv
<1>2. HandsInv'
  <2>1. DOMAIN out' = {}
    OBVIOUS
  <2> QED BY <2>1 DEF HandsInv
<1>3. ASSUME ~troubled' PROVE DeliveredTo(Released)' /\ DeliveredTo(Taken)'
  <2>1. DeliveredTo(r)'
    BY <1>3, ChannelTypes, DeliveredKept
  <2> QED BY <2>1 DEF DeliveredTo
<1>4. DeliveredInv'
  BY <1>3 DEF DeliveredInv
<1> QED BY <1>1, <1>2, <1>4 DEF Progress

LEMMA DieKeeps ==
  ASSUME CardInv, ChannelInv, Progress, Die
  PROVE  Progress'
<1>1. /\ pc' = "idle" /\ list' = <<>> /\ out' = <<>> /\ cut' = FALSE /\ Fifo!Forget(Daq)
      /\ UNCHANGED <<evs, sent, reader, troubled, delivered>>
  BY DEF Die, Reset, cardVars
<1>2. PICK r \in Nat : r = Released
  BY ChannelTypes
<1>3. Released' = r /\ Taken' = r /\ r <= Produced /\ Kept
  <2>1. UNCHANGED <<produced, released>> /\ Taken' = Released
    BY <1>1, ForgetIs
  <2>2. Released' = Released
    BY <2>1 DEF Released
  <2>3. Produced \in Nat /\ Released <= Produced
    BY ChannelTypes
  <2> QED BY <1>1, <1>2, <2>1, <2>2, <2>3, CardSame
<1>4. ~troubled => DeliveredTo(r)
  BY <1>2 DEF Progress, DeliveredInv
<1>5. ~troubled' => DeliveredTo(r) /\ delivered' = delivered
  BY <1>1, <1>4
<1> QED BY <1>1, <1>3, <1>5, IdleKeeps

LEMMA ReleaseAllBuffersKeeps ==
  ASSUME CardInv, ChannelInv, Progress, ReleaseAllBuffers
  PROVE  Progress'
<1>1. /\ pc' = "idle" /\ list' = <<>> /\ out' = <<>> /\ cut' = FALSE /\ troubled' = TRUE
      /\ released' = produced /\ lent' = [lent EXCEPT ![Daq] = <<>>] /\ UNCHANGED produced
      /\ UNCHANGED <<evs, sent, reader>>
  BY DEF ReleaseAllBuffers, Reset, cardVars
<1>2. PICK r \in Nat : r = Produced
  BY ChannelTypes
<1>3. Released' = r /\ Taken' = r /\ r <= Produced /\ Kept
  <2>1. Released' = Produced /\ Taken' = Produced
    BY <1>1, ReleaseAllIs
  <2> QED BY <1>1, <1>2, <2>1, CardSame
<1>4. ~troubled' => DeliveredTo(r) /\ delivered' = delivered
  BY <1>1
<1> QED BY <1>1, <1>3, <1>4, IdleKeeps

-----------------------------------------------------------------------------
(* The card fills a buffer while a call is under way, or between calls.    *)
LEMMA HoldsKept ==
  ASSUME CardInv, ChannelInv, Kept, Taken' = Taken, Released' = Released, list # <<>>
  PROVE  /\ Last(Taken)' = Last(Taken) /\ (EndsEvent(Taken) => EndsEvent(Taken)')
         /\ \A e : HoldsOnly(e) => HoldsOnly(e)'
<1>1. /\ list \in Seq(Nat) /\ Released \in Nat /\ Produced \in Nat /\ Len(list) \in Nat
      /\ Taken = Released + Len(list) /\ Taken <= Produced
  BY ChannelTypes DEF Taken
<1>2. Len(list) >= 1
  BY <1>1, EmptySeq
<1>3. Taken \in 1 .. Produced
  BY <1>1, <1>2
<1>4. Last(Taken)' = Last(Taken)
  BY <1>3 DEF Last, Kept
<1>5. EndsEvent(Taken) => EndsEvent(Taken)'
  <2>1. Last(Taken)[1] \in DOMAIN evs
    BY <1>1, <1>3, Ends
  <2>2. evs'[Last(Taken)[1]] = evs[Last(Taken)[1]]
    BY <2>1 DEF Kept
  <2> QED BY <1>4, <2>2 DEF EndsEvent
<1>6. ASSUME NEW e, HoldsOnly(e) PROVE HoldsOnly(e)'
  <2>1. ASSUME NEW m \in Released' + 1 .. Taken', NEW k \in 1 .. Len(sent'[m])
        PROVE  sent'[m][k][1] = e
    <3>1. m \in Released + 1 .. Taken /\ m \in 1 .. Produced
      BY <1>1
    <3>2. sent'[m] = sent[m]
      BY <3>1 DEF Kept
    <3> QED BY <1>6, <3>1, <3>2 DEF HoldsOnly
  <2> QED BY <2>1 DEF HoldsOnly
<1> QED BY <1>4, <1>5, <1>6

LEMMA CallSame ==
  ASSUME CardInv, ChannelInv, Progress, Kept, Taken' = Taken, Released' = Released,
         UNCHANGED <<reader, list, cur, pc, want, data, out, aligned, cut, troubled, delivered>>
  PROVE  Progress'
<1>1. UNCHANGED <<reader, list, cur, pc, want, data, out, aligned, cut, troubled, delivered>>
  OBVIOUS
<1>2. Kept /\ Taken' = Taken /\ Released' = Released
  OBVIOUS
<1>3. /\ Produced \in Nat /\ Released \in Nat /\ Taken \in Nat
      /\ Released <= Taken /\ Taken <= Produced
  BY ChannelTypes
<1>4. ASSUME NEW item, NEW e \in DOMAIN evs, ItemIs(item, e)
      PROVE  ItemIs(item, e)' /\ e \in DOMAIN evs'
  <2>1. Taken' \in Nat /\ Taken <= Taken'
    BY <1>2, <1>3
  <2>2. ItemIs(item, e)'
    BY <1>2, <1>4, <2>1, ItemKept
  <2> QED BY <1>2, <2>2 DEF Kept
<1>5. ControlInv'
  BY <1>1 DEF Progress, ControlInv
<1>6. ASSUME pc = "more", aligned PROVE \E e \in DOMAIN evs' : Gathered(e)'
  <2>1. PICK e \in DOMAIN evs : Gathered(e)
    BY <1>6 DEF Progress, GatherInv
  <2>2. list # <<>>
    BY <1>6 DEF Progress, ControlInv
  <2>3. /\ Last(Taken)' = Last(Taken) /\ HoldsOnly(e)'
        /\ evs'[e] = evs[e] /\ e \in DOMAIN evs'
    BY <1>2, <2>1, <2>2, HoldsKept DEF Gathered, Kept
  <2> QED BY <1>1, <2>1, <2>3 DEF Gathered
<1>7. ASSUME pc = "next", aligned, ~cut PROVE \E e \in DOMAIN evs' : FirstIs(e)'
  <2>1. PICK e \in DOMAIN evs : FirstIs(e)
    BY <1>7 DEF Progress, GatherInv
  <2>2. list # <<>>
    BY <1>7 DEF Progress, ControlInv
  <2>3. HoldsOnly(e)' /\ EndsEvent(Taken)'
    BY <1>2, <2>1, <2>2, HoldsKept DEF FirstIs
  <2>4. PICK item : item = out[1]
    OBVIOUS
  <2>5. ItemIs(item, e)' /\ e \in DOMAIN evs'
    BY <1>4, <2>1, <2>4 DEF FirstIs
  <2>6. out # <<>>
    BY <2>1 DEF FirstIs
  <2> QED BY <1>1, <2>3, <2>4, <2>5, <2>6 DEF FirstIs
<1>8. GatherInv'
  BY <1>1, <1>6, <1>7 DEF GatherInv
<1>9. HandsInv'
  <2> SUFFICES ASSUME pc' = "idle", aligned', NEW k \in DOMAIN out',
                      reader' = "event" => k = 1 /\ ~cut'
               PROVE  \E e \in DOMAIN evs' : ItemIs(out[k], e)'
    BY DEF HandsInv
  <2>1. PICK e \in DOMAIN evs : ItemIs(out[k], e)
    BY <1>1 DEF Progress, HandsInv
  <2>2. PICK item : item = out[k]
    OBVIOUS
  <2>3. ItemIs(item, e)' /\ e \in DOMAIN evs'
    BY <1>4, <2>1, <2>2
  <2> QED BY <1>1, <2>2, <2>3
<1>10. DeliveredInv'
  <2>1. ASSUME NEW t \in Nat, t <= Produced, DeliveredTo(t) PROVE DeliveredTo(t)'
    <3>1. delivered \subseteq delivered'
      BY <1>1
    <3> QED BY <1>2, <1>3, <2>1, <3>1, DeliveredKept
  <2>2. PICK r \in Nat, t \in Nat : r = Released /\ t = Taken
    BY <1>3
  <2>3. r <= Produced /\ t <= Produced
    BY <1>3, <2>2
  <2>4. DeliveredTo(r) => DeliveredTo(Released)'
    BY <1>2, <2>1, <2>2, <2>3 DEF DeliveredTo
  <2>5. DeliveredTo(t) => DeliveredTo(Taken)'
    BY <1>2, <2>1, <2>2, <2>3 DEF DeliveredTo
  <2> QED BY <1>1, <2>2, <2>4, <2>5 DEF Progress, DeliveredInv
<1> QED BY <1>5, <1>8, <1>9, <1>10 DEF Progress

LEMMA FillKeeps ==
  ASSUME CardInv, ChannelInv, Progress, Fill
  PROVE  Progress'
<1>1. UNCHANGED <<reader, list, cur, pc, want, data, out, aligned, cut, troubled, delivered>>
  BY DEF Fill, callVars
<1> QED BY <1>1, FillCard, FillChannel, CallSame

-----------------------------------------------------------------------------
(* Types.                                                                  *)
LEMMA RingTypes ==
  CardInv /\ ChannelInv /\ Produced <= MaxBuffers => RingType
<1> SUFFICES ASSUME CardInv, ChannelInv, Produced <= MaxBuffers PROVE RingType
  OBVIOUS
<1>1. /\ Produced \in Nat /\ Released \in Nat /\ list \in Seq(Nat) /\ Len(list) \in Nat
      /\ Taken = Released + Len(list) /\ Released <= Produced /\ Taken <= Produced
      /\ MaxBuffers \in Nat
  BY ChannelTypes, ReadoutAssumption DEF Taken
<1>2. evs \in Seq(Lens \cup {1})
  <2>1. evs \in Seq(Nat) /\ \A e \in DOMAIN evs : evs[e] \in Lens \cup {1}
    BY DEF CardInv
  <2>2. Len(evs) \in Nat /\ DOMAIN evs = 1 .. Len(evs) /\ evs \in [1 .. Len(evs) -> Nat]
    BY <2>1, LenProperties
  <2>3. evs \in [1 .. Len(evs) -> Lens \cup {1}]
    BY <2>1, <2>2
  <2> QED BY <2>2, <2>3
<1>3. \A n \in DOMAIN sent : Len(sent[n]) \in 1 .. Room
  <2>1. DOMAIN sent = 1 .. Produced
    <3> DEFINE S == Seq(Nat \X Nat)
    <3>1. sent \in Seq(S) /\ Len(sent) = Produced
      BY DEF CardInv
    <3> HIDE DEF S
    <3> QED BY <3>1
  <2> QED BY <2>1 DEF CardInv
<1>4. list \in Seq(1 .. MaxBuffers)
  <2>1. \A k \in 1 .. Len(list) : list[k] = Released + k
    BY DEF ChannelInv
  <2>2. \A k \in 1 .. Len(list) : list[k] \in 1 .. MaxBuffers
    BY <1>1, <2>1
  <2>3. list \in [1 .. Len(list) -> Nat]
    BY <1>1, LenProperties
  <2>4. list \in [1 .. Len(list) -> 1 .. MaxBuffers]
    BY <2>2, <2>3
  <2> QED BY <1>1, <2>4
<1>5. produced[Daq] \in 0 .. MaxBuffers /\ released[Daq] \in 0 .. produced[Daq]
  BY <1>1 DEF Produced, Released
<1>6. Len(sent) = produced[Daq] /\ reader \in Readers
  BY DEF CardInv, Produced
<1> QED BY <1>2, <1>3, <1>4, <1>5, <1>6 DEF RingType

\* What a step of a call does not touch.
CallGoes ==
  /\ UNCHANGED <<evs, deaths>> /\ aligned' \in BOOLEAN /\ cut' \in BOOLEAN

LEMMA Wider ==
  ASSUME NEW S, NEW T, S \subseteq T, NEW s \in Seq(S) PROVE s \in Seq(T)
<1>1. Len(s) \in Nat /\ s \in [1 .. Len(s) -> S]
  BY LenProperties
<1>2. s \in [1 .. Len(s) -> T]
  BY <1>1
<1> QED BY <1>1, <1>2

LEMMA SameWords ==
  ASSUME evs' = evs PROVE Word' = Word /\ Item' = Item
BY DEF Word, Item

LEMMA SomeWord ==
  ASSUME CardInv, ChannelInv, NEW n \in Nat, NEW at \in Nat, at >= 1
  PROVE  Memory(n, at) \in Word
<1>1. CASE Memory(n, at) \in {Zero, Beyond}
  BY <1>1 DEF Word
<1>2. CASE \E m \in 1 .. Produced : at \in 1 .. Len(sent[m]) /\ Memory(n, at) = sent[m][at]
  BY <1>2, IsWord, ChannelTypes
<1> QED BY <1>1, <1>2, SomeMemory

LEMMA ReturnType ==
  ASSUME CallType, CallGoes, NEW items \in Seq(Item), NEW trouble \in BOOLEAN,
         Return(items, trouble)
  PROVE  CallType'
<1>1. /\ pc' = "idle" /\ out' = items
      /\ cur' = NoPtr /\ tries' = 0 /\ when' = 0 /\ want' = NoHeader /\ data' = <<>>
      /\ troubled' = (troubled \/ trouble)
      /\ delivered' = IF troubled' THEN {}
                      ELSE delivered \cup {e \in DOMAIN evs :
                             \E k \in DOMAIN items : Contents(items[k]) = Event(e)}
  BY DEF Return
<1>2. /\ delivered \subseteq DOMAIN evs /\ deaths \in 0 .. MaxDeaths
      /\ UNCHANGED <<evs, deaths>> /\ aligned' \in BOOLEAN /\ cut' \in BOOLEAN
  BY DEF CallType, CallGoes
<1>3. delivered' \subseteq DOMAIN evs'
  <2>1. CASE troubled'
    BY <1>1, <2>1
  <2>2. CASE ~troubled'
    BY <1>1, <1>2, <2>2
  <2> QED BY <2>1, <2>2
<1>4. cur' \in Ptr
  BY <1>1, ReadoutAssumption DEF NoPtr, Ptr
<1>5. want' \in [len : Nat, tag : Nat] /\ when' \in Nat /\ tries' \in 0 .. 2
  BY <1>1 DEF NoHeader
<1>6. out' \in Seq(Item)' /\ data' \in Seq(Word)'
  BY <1>1, <1>2, SameWords, EmptySeq
<1>7. troubled' \in BOOLEAN
  <2>1. troubled' = TRUE \/ troubled' = FALSE
    BY <1>1
  <2> QED BY <2>1
<1>8. {aligned', cut', troubled'} \subseteq BOOLEAN /\ deaths' \in 0 .. MaxDeaths
  BY <1>2, <1>7
<1>9. pc' \in {"idle", "first", "more", "next", "impossible"}
  BY <1>1
<1> QED BY <1>3, <1>4, <1>5, <1>6, <1>8, <1>9 DEF CallType

LEMMA GoingType ==
  ASSUME CallType, CallGoes, NEW item \in Item, NEW tag \in Nat, NEW ptr \in Ptr,
         Going(item, tag, ptr)
  PROVE  CallType'
<1>1. /\ out' = Append(out, item) /\ when' = tag
      /\ pc' = "next" /\ cur' = ptr /\ want' = NoHeader /\ data' = <<>>
      /\ UNCHANGED <<tries, troubled, delivered, evs, deaths>>
      /\ aligned' \in BOOLEAN /\ cut' \in BOOLEAN
  BY DEF Going, CallGoes
<1>2. out' \in Seq(Item)' /\ data' \in Seq(Word)'
  <2>1. out \in Seq(Item)
    BY DEF CallType
  <2>2. out' \in Seq(Item)
    BY <1>1, <2>1, AppendProperties
  <2> QED BY <1>1, <2>2, SameWords, EmptySeq
<1>3. want' \in [len : Nat, tag : Nat]
  BY <1>1 DEF NoHeader
<1>4. Ptr' = Ptr
  BY DEF Ptr
<1> QED BY <1>1, <1>2, <1>3, <1>4 DEF CallType

LEMMA MoreType ==
  ASSUME CallType, CallGoes, pc' = "more", UNCHANGED <<tries, when, out, troubled, delivered>>,
         cur' \in Ptr, want' \in [len : Nat, tag : Nat], data' \in Seq(Word)
  PROVE  CallType'
<1>1. /\ UNCHANGED <<evs, deaths>> /\ aligned' \in BOOLEAN /\ cut' \in BOOLEAN
  BY DEF CallGoes
<1>2. out' \in Seq(Item)' /\ data' \in Seq(Word)'
  BY <1>1, SameWords DEF CallType
<1>3. Ptr' = Ptr
  BY DEF Ptr
<1> QED BY <1>1, <1>2, <1>3 DEF CallType

LEMMA SetupType ==
  ASSUME CallType, CallGoes, Progress, pc # "idle", NEW item \in Item, NEW tag \in Nat,
         NEW ptr \in Ptr, Setup(item, tag, ptr)
  PROVE  CallType'
<1>1. out \in Seq(Item) /\ TRUE \in BOOLEAN /\ FALSE \in BOOLEAN
  BY DEF CallType
<1>2. CASE Return(<<>>, TRUE)
  <2>1. PICK items : items = <<>>
    OBVIOUS
  <2>2. items \in Seq(Item) /\ Return(items, TRUE)
    BY <1>2, <2>1, EmptySeq
  <2> QED BY <1>1, <2>2, ReturnType
<1>3. ASSUME NEW trouble \in BOOLEAN, Return(out, trouble) PROVE CallType'
  <2>1. PICK items : items = out
    OBVIOUS
  <2> QED BY <1>1, <1>3, <2>1, ReturnType
<1>4. CASE Return(<<item>>, FALSE)
  <2>1. PICK items : items = <<item>>
    OBVIOUS
  <2>2. items \in Seq(Item)
    BY <2>1
  <2>3. Return(items, FALSE)
    BY <1>4, <2>1
  <2> QED BY <1>1, <2>2, <2>3, ReturnType
<1>5. CASE Going(item, tag, ptr)
  BY <1>5, GoingType
<1> QED BY <1>1, <1>2, <1>3, <1>4, <1>5, SetupCases

LEMMA ParseType ==
  ASSUME CardInv, ChannelInv, CallType, CallGoes, Progress, pc # "idle",
         NEW ptr \in Ptr, ptr.at >= 1, NEW h \in Header(ptr.buffer, ptr.at),
         NEW len \in Nat, ParseTo(h, ptr, len)
  PROVE  CallType'
<1>1. /\ ptr.buffer \in 0 .. MaxBuffers /\ ptr.buffer \in Nat /\ ptr.at \in Nat
      /\ ptr = [buffer |-> ptr.buffer, at |-> ptr.at]
  BY ReadoutAssumption DEF Ptr
<1>2. h.len \in Nat /\ h.tag \in Nat /\ h \in [len : Nat, tag : Nat]
  <2>1. when \in Nat
    BY DEF CallType
  <2>2. h.len \in Nat /\ h.tag \in Nat /\ h = [len |-> h.len, tag |-> h.tag]
    BY <1>1, <2>1, HeaderType
  <2> QED BY <2>2
<1>3. CASE Throw
  <2>1. PICK items : items = <<>>
    OBVIOUS
  <2>2. items \in Seq(Item) /\ Return(items, TRUE)
    BY <1>3, <2>1, EmptySeq DEF Throw
  <2>3. TRUE \in BOOLEAN
    OBVIOUS
  <2> QED BY <2>2, <2>3, ReturnType
<1>4. ASSUME NEW item, NEW next,
             item = [buffer |-> ptr.buffer, at |-> ptr.at, len |-> h.len, copy |-> <<>>],
             next = [ptr EXCEPT !.at = @ + h.len], Setup(item, h.tag, next)
      PROVE  CallType'
  <2>1. item \in Item
    <3>1. <<>> \in Seq(Word)
      BY EmptySeq
    <3> QED BY <1>1, <1>2, <1>4, <3>1 DEF Item
  <2>2. next \in Ptr
    <3>1. next = [buffer |-> ptr.buffer, at |-> ptr.at + h.len]
      BY <1>1, <1>4 DEF Ptr
    <3> QED BY <1>1, <1>2, <3>1 DEF Ptr
  <2> QED BY <1>2, <1>4, <2>1, <2>2, SetupType
<1>5. ASSUME pc' = "more", want' = h, cur' = ptr,
             data' = [k \in 1 .. len |-> Memory(ptr.buffer, ptr.at + k - 1)],
             GoOn, UNCHANGED <<tries, when, out>>
      PROVE  CallType'
  <2>1. \A k \in 1 .. len : Memory(ptr.buffer, ptr.at + k - 1) \in Word
    <3> SUFFICES ASSUME NEW k \in 1 .. len
                 PROVE  Memory(ptr.buffer, ptr.at + k - 1) \in Word
      OBVIOUS
    <3>1. PICK at \in Nat : at = ptr.at + k - 1 /\ at >= 1
      BY <1>1
    <3> QED BY <1>1, <3>1, SomeWord
  <2>2. data' \in Seq(Word)
    BY <1>5, <2>1
  <2> QED BY <1>2, <1>5, <2>2, MoreType DEF GoOn
<1> QED BY <1>3, <1>4, <1>5 DEF ParseTo

LEMMA TakeFirstType ==
  ASSUME CardInv, ChannelInv, CallType, Progress, Produced <= MaxBuffers, TakeFirst
  PROVE  CallType'
<1>1. PICK n : n = NextBuffer
  OBVIOUS
<1>2. /\ pc = "first" /\ GetCurrentBuffer < 0 /\ ReadBuffer
      /\ UNCHANGED <<cut, evs, sent, reader, deaths>> /\ aligned' = (First(n)[2] = 1)
  BY <1>1 DEF TakeFirst, Unaltered, cardVars, First
<1>3. /\ n \in Nat /\ n <= Produced /\ n \in 1 .. Produced
      /\ Payload(list', Len(list') - 1) = Len(sent[n])
  BY <1>1, <1>2, FirstTaken
<1>4. PICK len \in Nat : len = Len(sent[n])
  BY <1>3, Buffers, ChannelTypes
<1>5. PICK ptr : ptr = [buffer |-> n, at |-> 1]
  OBVIOUS
<1>6. ptr \in Ptr /\ ptr.at >= 1
  <2>1. n \in 0 .. MaxBuffers
    BY <1>3, ChannelTypes, ReadoutAssumption
  <2> QED BY <1>5, <2>1 DEF Ptr
<1>7. PICK h \in Header(ptr.buffer, ptr.at) : ParseTo(h, ptr, len)
  <2>1. PICK l, index : l = list' /\ index = Len(list') - 1
    OBVIOUS
  <2>2. Parse(l, ptr, index)
    BY <1>1, <1>5, <2>1 DEF TakeFirst
  <2>3. Payload(l, index) = len
    BY <1>3, <1>4, <2>1
  <2> QED BY <2>2, <2>3, ParseCases
<1>8. CallGoes
  <2>1. aligned' \in BOOLEAN
    BY <1>2
  <2>2. cut' \in BOOLEAN
    BY <1>2 DEF CallType
  <2> QED BY <1>2, <2>1, <2>2 DEF CallGoes
<1>9. pc # "idle"
  BY <1>2
<1> QED BY <1>4, <1>6, <1>7, <1>8, <1>9, ParseType

LEMMA TakeRecordsType ==
  ASSUME CardInv, ChannelInv, CallType, Progress, Produced <= MaxBuffers, TakeRecords
  PROVE  CallType'
<1>1. PICK n : n = NextBuffer
  OBVIOUS
<1>2. /\ pc = "first" /\ GetCurrentBuffer < 0 /\ ReadBuffer
      /\ UNCHANGED <<cut, evs, sent, reader, deaths>> /\ aligned' = TRUE
  BY DEF TakeRecords, Unaltered, cardVars
<1>3. /\ n \in Nat /\ n <= Produced /\ n \in 1 .. Produced
      /\ Payload(list', Len(list') - 1) = Len(sent[n])
  BY <1>1, <1>2, FirstTaken
<1>4. PICK len \in Nat : len = Len(sent[n])
  BY <1>3, Buffers, ChannelTypes
<1>5. PICK items : items = [k \in 1 .. len |->
              [buffer |-> n, at |-> k, len |-> 1, copy |-> <<sent[n][k]>>]]
  OBVIOUS
<1>6. Return(items, FALSE)
  <2>1. Payload(list', Len(list') - 1) = len
    BY <1>3, <1>4
  <2> QED BY <1>1, <1>5, <2>1 DEF TakeRecords
<1>7. items \in Seq(Item)
  <2>1. n \in 0 .. MaxBuffers
    BY <1>3, ChannelTypes, ReadoutAssumption
  <2>2. \A k \in 1 .. len : <<sent[n][k]>> \in Seq(Word)
    <3> SUFFICES ASSUME NEW k \in 1 .. len PROVE <<sent[n][k]>> \in Seq(Word)
      OBVIOUS
    <3>1. sent[n][k] \in Word
      BY <1>3, <1>4, IsWord, ChannelTypes
    <3> QED BY <3>1
  <2>3. \A k \in 1 .. len : [buffer |-> n, at |-> k, len |-> 1, copy |-> <<sent[n][k]>>] \in Item
    BY <2>1, <2>2 DEF Item
  <2> QED BY <1>5, <2>3
<1>8. CallGoes
  <2>1. aligned' \in BOOLEAN
    BY <1>2
  <2>2. cut' \in BOOLEAN
    BY <1>2 DEF CallType
  <2> QED BY <1>2, <2>1, <2>2 DEF CallGoes
<1>9. FALSE \in BOOLEAN
  OBVIOUS
<1> QED BY <1>6, <1>7, <1>8, <1>9, ReturnType

LEMMA NothingType ==
  ASSUME CallType, CallGoes, NEW trouble \in BOOLEAN, Return(<<>>, trouble)
  PROVE  CallType'
<1>1. PICK items : items = <<>>
  OBVIOUS
<1>2. items \in Seq(Item)
  BY <1>1, EmptySeq
<1>3. Return(items, trouble)
  BY <1>1
<1> QED BY <1>2, <1>3, ReturnType

LEMMA NothingCameType ==
  ASSUME CallType, NothingCame
  PROVE  CallType'
<1>1. UNCHANGED <<evs, deaths, aligned, cut>>
  BY DEF NothingCame, Unaltered, cardVars
<1>2. CallGoes
  BY <1>1 DEF CallType, CallGoes
<1>3. CASE /\ tries < 2 /\ tries' = tries + 1
           /\ UNCHANGED <<pc, cur, when, want, data, out, troubled, delivered>>
  <2>1. tries' \in 0 .. 2
    BY <1>3 DEF CallType
  <2>2. Ptr' = Ptr
    BY DEF Ptr
  <2> QED BY <1>1, <1>3, <2>1, <2>2, SameWords DEF CallType
<1>4. CASE Return(<<>>, FALSE)
  <2>1. FALSE \in BOOLEAN
    OBVIOUS
  <2> QED BY <1>2, <1>4, <2>1, NothingType
<1> QED BY <1>3, <1>4 DEF NothingCame, AnotherTry, GoOn

LEMMA NoMoreType ==
  ASSUME CallType, NoMore
  PROVE  CallType'
<1>1. UNCHANGED <<evs, deaths, aligned>> /\ cut' = TRUE
  BY DEF NoMore, Unaltered, cardVars
<1>2. CallGoes
  BY <1>1 DEF CallType, CallGoes
<1>3. CASE /\ tries < 2 /\ tries' = tries + 1 /\ pc' = "first" /\ want' = NoHeader
           /\ data' = <<>> /\ troubled' = TRUE /\ delivered' = {} /\ UNCHANGED <<cur, when, out>>
  <2>1. tries' \in 0 .. 2
    BY <1>3 DEF CallType
  <2>2. Ptr' = Ptr
    BY DEF Ptr
  <2>3. want' \in [len : Nat, tag : Nat]
    BY <1>3 DEF NoHeader
  <2>4. out' \in Seq(Item)' /\ data' \in Seq(Word)'
    BY <1>1, <1>3, SameWords, EmptySeq DEF CallType
  <2>5. {aligned', cut', troubled'} \subseteq BOOLEAN
    BY <1>1, <1>3 DEF CallType
  <2> QED BY <1>1, <1>3, <2>1, <2>2, <2>3, <2>4, <2>5 DEF CallType
<1>4. CASE Return(<<>>, TRUE)
  <2>1. TRUE \in BOOLEAN
    OBVIOUS
  <2> QED BY <1>2, <1>4, <2>1, NothingType
<1> QED BY <1>3, <1>4 DEF NoMore, AnotherTry

LEMMA OnHandType ==
  ASSUME CardInv, ChannelInv, CallType, Progress, OnHand
  PROVE  CallType'
<1>1. /\ pc \in {"first", "next"} /\ GetCurrentBuffer > 0
      /\ UNCHANGED <<evs, deaths, aligned, cut>>
  BY DEF OnHand, Unaltered, fifoVars, cardVars
<1>2. list # <<>>
  BY <1>1 DEF GetCurrentBuffer
<1>3. reader = "event" /\ cur.at >= 1 /\ pc # "idle"
  BY <1>1, <1>2 DEF Progress, ControlInv
<1>4. CallGoes
  BY <1>1 DEF CallType, CallGoes
<1>5. PICK ptr : ptr = cur
  OBVIOUS
<1>6. ptr \in Ptr /\ ptr.at >= 1
  BY <1>3, <1>5 DEF CallType
<1>7. PICK h \in Header(ptr.buffer, ptr.at) : ParseTo(h, ptr, NoLimit)
  <2>1. PICK l, index : l = list /\ index = GetCurrentBuffer
    OBVIOUS
  <2>2. Parse(l, ptr, index)
    BY <1>3, <1>5, <2>1 DEF OnHand
  <2>3. Payload(l, index) = NoLimit
    <3>1. index = Len(l) /\ Len(l) \in Nat
      BY <1>2, <2>1, ChannelTypes DEF GetCurrentBuffer
    <3> QED BY <3>1 DEF Payload
  <2> QED BY <2>2, <2>3, ParseCases
<1>8. NoLimit \in Nat
  BY Sizes
<1> QED BY <1>3, <1>4, <1>6, <1>7, <1>8, ParseType

LEMMA TakeMoreType ==
  ASSUME CardInv, ChannelInv, CallType, Progress, Produced <= MaxBuffers, TakeMore
  PROVE  CallType'
<1>1. PICK n : n = NextBuffer
  OBVIOUS
<1>2. /\ pc = "more" /\ ReadBuffer /\ UNCHANGED <<evs, deaths, aligned, cut>>
  BY DEF TakeMore, Unaltered, cardVars
<1>3. n = Taken + 1 /\ n <= Produced
  BY <1>1, <1>2, LendIs
<1>4. n \in 1 .. Produced /\ Produced \in Nat /\ n \in 0 .. MaxBuffers
  BY <1>3, ChannelTypes, ReadoutAssumption
<1>5. /\ data \in Seq(Word) /\ want \in [len : Nat, tag : Nat] /\ want.len \in Nat
      /\ want.tag \in Nat /\ Len(data) \in Nat /\ Len(data) < want.len
  <2>1. data \in Seq(Word) /\ want \in [len : Nat, tag : Nat]
    BY DEF CallType
  <2>2. Len(data) < want.len
    BY <1>2 DEF Progress, ControlInv
  <2> QED BY <2>1, <2>2
<1>6. PICK c \in Nat : c = CopySize(n) /\ c <= Len(sent[n])
  <2>1. Len(sent[n]) \in Nat
    BY <1>4, Buffers
  <2>2. /\ CopySize(n) \in Nat
        /\ CopySize(n) = IF want.len - Len(data) <= Len(sent[n]) THEN want.len - Len(data)
                         ELSE Len(sent[n])
    BY <1>4, <1>5, CopyIs
  <2> QED BY <2>1, <2>2
<1>7. PICK got : got = Got(n)
  OBVIOUS
<1>8. got \in Seq(Word)
  <2>1. PICK b : b = sent[n]
    OBVIOUS
  <2>2. b \in Seq(Word) /\ c <= Len(b)
    <3>1. Len(sent[n]) \in Nat /\ sent[n] \in Seq(Nat \X Nat)
      BY <1>4, Buffers
    <3>2. \A k \in 1 .. Len(sent[n]) : sent[n][k] \in Word
      BY <1>4, IsWord
    <3>3. sent[n] \in [1 .. Len(sent[n]) -> Nat \X Nat]
      BY <3>1, LenProperties
    <3>4. sent[n] \in [1 .. Len(sent[n]) -> Word]
      BY <3>2, <3>3
    <3>5. b \in [1 .. Len(b) -> Word] /\ Len(b) \in Nat
      BY <2>1, <3>1, <3>4
    <3>6. b \in Seq(Word)
      BY <3>5
    <3> QED BY <1>6, <2>1, <3>6
  <2>3. SubSeq(b, 1, c) \in Seq(Word)
    <3>1. \A i \in 1 .. c : b[i] \in Word
      BY <2>2
    <3> QED BY <3>1, <2>2
  <2>4. got = data \o SubSeq(b, 1, c)
    BY <1>6, <1>7, <2>1 DEF Got
  <2> QED BY <1>5, <2>3, <2>4, ConcatProperties
<1>9. PICK item : item = [buffer |-> n, at |-> 0, len |-> want.len, copy |-> got]
  OBVIOUS
<1>10. PICK ptr : ptr = [buffer |-> n, at |-> c + 1]
  OBVIOUS
<1>11. item \in Item /\ ptr \in Ptr
  BY <1>4, <1>5, <1>8, <1>9, <1>10 DEF Item, Ptr
<1>12. IF Len(got) < want.len
       THEN data' = got /\ cur' = ptr /\ GoOn /\ UNCHANGED <<pc, tries, when, want, out>>
       ELSE Setup(item, want.tag, ptr)
  <2>1. IF Len(Got(n)) < want.len
        THEN /\ data' = Got(n) /\ cur' = [buffer |-> n, at |-> CopySize(n) + 1]
             /\ GoOn /\ UNCHANGED <<pc, tries, when, want, out>>
        ELSE Setup([buffer |-> n, at |-> 0, len |-> want.len, copy |-> Got(n)], want.tag,
                   [buffer |-> n, at |-> CopySize(n) + 1])
    BY <1>1 DEF TakeMore, Got
  <2> QED BY <1>6, <1>7, <1>9, <1>10, <2>1
<1>13. CallGoes
  BY <1>2 DEF CallType, CallGoes
<1>14. CASE Len(got) < want.len
  BY <1>2, <1>5, <1>8, <1>11, <1>12, <1>13, <1>14, MoreType DEF GoOn
<1>15. CASE ~(Len(got) < want.len)
  <2>1. PICK tag \in Nat : tag = want.tag
    BY <1>5
  <2>2. Setup(item, tag, ptr)
    BY <1>12, <1>15, <2>1
  <2> QED BY <1>2, <1>11, <1>13, <2>2, SetupType
<1> QED BY <1>14, <1>15

LEMMA BetweenType ==
  ASSUME CallType, UNCHANGED evs, pc' \in {"idle", "first"}, out' = <<>>,
         cur' \in Ptr, tries' \in 0 .. 2, when' \in Nat, want' \in [len : Nat, tag : Nat],
         data' \in Seq(Word), deaths' \in 0 .. MaxDeaths,
         {aligned', cut', troubled'} \subseteq BOOLEAN, delivered' \subseteq delivered
  PROVE  CallType'
<1>1. out' \in Seq(Item)' /\ data' \in Seq(Word)'
  BY SameWords, EmptySeq
<1>2. Ptr' = Ptr /\ delivered \subseteq DOMAIN evs
  BY DEF Ptr, CallType
<1> QED BY <1>1, <1>2 DEF CallType

LEMMA CallsType ==
  ASSUME CallType, NEW w \in Wanted, Call(w)
  PROVE  CallType'
<1>1. /\ pc' = "first" /\ when' = w /\ out' = <<>> /\ aligned' = FALSE /\ cut' = FALSE
      /\ UNCHANGED <<evs, cur, tries, want, data, deaths, troubled, delivered>>
  BY DEF Call, cardVars
<1>2. w \in Nat
  BY ReadoutAssumption
<1>3. {aligned', cut', troubled'} \subseteq BOOLEAN
  BY <1>1 DEF CallType
<1>4. /\ cur' \in Ptr /\ tries' \in 0 .. 2 /\ want' \in [len : Nat, tag : Nat]
      /\ data' \in Seq(Word) /\ deaths' \in 0 .. MaxDeaths
  BY <1>1 DEF CallType
<1> QED BY <1>1, <1>2, <1>3, <1>4, BetweenType

LEMMA ResetType ==
  ASSUME CallType, Reset, deaths' \in 0 .. MaxDeaths, troubled' \in BOOLEAN,
         delivered' \subseteq delivered
  PROVE  CallType'
<1>1. /\ pc' = "idle" /\ when' = 0 /\ out' = <<>> /\ cur' = NoPtr /\ tries' = 0
      /\ want' = NoHeader /\ data' = <<>> /\ aligned' = FALSE /\ cut' = FALSE /\ UNCHANGED evs
  BY DEF Reset, cardVars
<1>2. cur' \in Ptr /\ want' \in [len : Nat, tag : Nat]
  BY <1>1, ReadoutAssumption DEF NoPtr, Ptr, NoHeader
<1>3. {aligned', cut', troubled'} \subseteq BOOLEAN
  BY <1>1
<1>4. data' \in Seq(Word)
  BY <1>1, EmptySeq
<1> QED BY <1>1, <1>2, <1>3, <1>4, BetweenType

LEMMA FillType ==
  ASSUME CardInv, ChannelInv, CallType, Fill
  PROVE  CallType'
<1>1. UNCHANGED <<cur, pc, tries, when, want, data, out, aligned, cut, deaths, troubled, delivered>>
  BY DEF Fill, callVars
<1>2. \A e \in DOMAIN evs : e \in DOMAIN evs' /\ evs'[e] = evs[e]
  BY FillCard DEF Kept
<1>3. Word \subseteq Word'
  <2> SUFFICES ASSUME NEW w \in Word, w \notin {Zero, Beyond} PROVE w \in Word'
    BY DEF Word
  <2>1. PICK e \in DOMAIN evs : w \in {e} \X (1 .. evs[e])
    BY DEF Word
  <2>2. e \in DOMAIN evs' /\ w \in {e} \X (1 .. evs'[e])
    BY <1>2, <2>1
  <2> QED BY <2>2 DEF Word
<1>4. Item \subseteq Item'
  <2> SUFFICES ASSUME NEW i \in Item PROVE i \in Item'
    OBVIOUS
  <2>1. /\ i = [buffer |-> i.buffer, at |-> i.at, len |-> i.len, copy |-> i.copy]
        /\ i.buffer \in 0 .. MaxBuffers /\ i.at \in Nat /\ i.len \in Nat /\ i.copy \in Seq(Word)
    BY DEF Item
  <2>2. PICK W, V : W = Word /\ V = Word'
    OBVIOUS
  <2>3. i.copy \in Seq(V)
    BY <1>3, <2>1, <2>2, Wider
  <2>4. Item' = [buffer : 0 .. MaxBuffers, at : Nat, len : Nat, copy : Seq(V)]
    BY <2>2 DEF Item
  <2> QED BY <2>1, <2>3, <2>4
<1>5. out' \in Seq(Item)' /\ data' \in Seq(Word)'
  <2>1. PICK W, V, I, J : W = Word /\ V = Word' /\ I = Item /\ J = Item'
    OBVIOUS
  <2>2. PICK d, o : d = data /\ o = out
    OBVIOUS
  <2>3. d \in Seq(W) /\ o \in Seq(I)
    BY <2>1, <2>2 DEF CallType
  <2>4. d \in Seq(V) /\ o \in Seq(J)
    BY <1>3, <1>4, <2>1, <2>3, Wider
  <2> QED BY <1>1, <2>1, <2>2, <2>4
<1>6. Ptr' = Ptr
  BY DEF Ptr
<1>7. delivered' \subseteq DOMAIN evs'
  BY <1>1, <1>2 DEF CallType
<1> QED BY <1>1, <1>5, <1>6, <1>7 DEF CallType

-----------------------------------------------------------------------------
(* The theorems.                                                           *)
LEMMA InitInv == Init => IInv
<1> SUFFICES ASSUME Init PROVE IInv
  OBVIOUS
<1>1. /\ produced = [c \in {Daq} |-> 0] /\ released = [c \in {Daq} |-> 0]
      /\ lent = [c \in {Daq} |-> <<>>] /\ Daq \in {Daq}
  BY DEF Init, Fifo!Init
<1>2. /\ evs = <<>> /\ sent = <<>> /\ reader \in Readers /\ list = <<>> /\ cur = NoPtr
      /\ pc = "idle" /\ tries = 0 /\ when = 0 /\ want = NoHeader /\ data = <<>>
      /\ out = <<>> /\ deaths = 0
      /\ aligned = FALSE /\ cut = FALSE /\ troubled = FALSE /\ delivered = {}
  BY DEF Init
<1>3. Produced = 0 /\ Released = 0 /\ Len(list) = 0 /\ Taken = 0
  <2>1. Produced = 0 /\ Released = 0
    BY <1>1 DEF Produced, Released
  <2>2. Len(list) = 0
    BY <1>2, EmptySeq
  <2> QED BY <2>1, <2>2 DEF Taken
<1>4. CardInv
  <2>1. evs \in Seq(Nat) /\ DOMAIN evs = {}
    BY <1>2
  <2>2. sent \in Seq(Seq(Nat \X Nat)) /\ Len(sent) = 0
    BY <1>2, EmptySeq
  <2>3. 1 .. Produced = {}
    BY <1>3
  <2> QED BY <1>2, <1>3, <2>1, <2>2, <2>3 DEF CardInv
<1>5. ChannelInv
  <2>1. produced \in [{Daq} -> Nat] /\ released \in [{Daq} -> Nat]
    BY <1>1
  <2>2. lent \in [{Daq} -> Seq(Nat)] /\ list = lent[Daq]
    <3>1. <<>> \in Seq(Nat)
      BY EmptySeq
    <3> QED BY <1>1, <1>2, <3>1
  <2>3. Taken <= Produced /\ Produced <= Released + Capacity
    BY <1>3, Sizes
  <2>4. \A k \in 1 .. Len(list) : list[k] = Released + k
    BY <1>3
  <2> QED BY <2>1, <2>2, <2>3, <2>4 DEF ChannelInv
<1>6. RingType
  <2>1. Produced <= MaxBuffers
    BY <1>3, ReadoutAssumption
  <2> QED BY <1>4, <1>5, <2>1, RingTypes
<1>7. CallType
  <2>1. cur \in Ptr /\ want \in [len : Nat, tag : Nat]
    BY <1>2, ReadoutAssumption DEF NoPtr, Ptr, NoHeader
  <2>2. data \in Seq(Word) /\ out \in Seq(Item)
    BY <1>2, EmptySeq
  <2>3. tries \in 0 .. 2 /\ when \in Nat /\ deaths \in 0 .. MaxDeaths
    BY <1>2, ReadoutAssumption
  <2> QED BY <1>2, <2>1, <2>2, <2>3 DEF CallType
<1>8. ControlInv /\ GatherInv
  BY <1>2 DEF ControlInv, GatherInv
<1>9. HandsInv
  BY <1>2 DEF HandsInv
<1>10. DeliveredInv
  <2>1. DeliveredTo(0)
    BY DEF DeliveredTo
  <2> QED BY <1>2, <1>3, <2>1 DEF DeliveredInv
<1> QED BY <1>4, <1>5, <1>6, <1>7, <1>8, <1>9, <1>10 DEF IInv, TypeOK

\* A step of a call moves the list together with the channel.
LEMMA ReadChannel ==
  ASSUME ChannelInv, Read PROVE ChannelInv' /\ UNCHANGED <<produced, evs, sent, reader>>
<1>1. CASE TakeFirst \/ TakeRecords \/ TakeMore
  <2>1. ReadBuffer /\ UNCHANGED <<evs, sent, reader>>
    BY <1>1 DEF TakeFirst, TakeRecords, TakeMore, Unaltered, cardVars
  <2> QED BY <2>1, LendIs
<1>2. CASE NothingCame \/ NoMore \/ OnHand
  <2>1. UNCHANGED <<produced, released, lent, list, evs, sent, reader>>
    BY <1>2 DEF NothingCame, NoMore, OnHand, NoBuffer, fifoVars, Unaltered, cardVars
  <2> QED BY <2>1, ChannelSame
<1> QED BY <1>1, <1>2 DEF Read

LEMMA StepInv == IInv /\ [Next]_vars => IInv'
<1> SUFFICES ASSUME IInv, [Next]_vars PROVE IInv'
  OBVIOUS
<1>1. CardInv /\ ChannelInv /\ CallType /\ RingType /\ Progress
  BY DEF IInv, TypeOK, Progress
<1>2. /\ Produced \in Nat /\ Produced <= MaxBuffers /\ Len(data) \in Nat
      /\ want \in [len : Nat, tag : Nat] /\ when \in Nat /\ out \in Seq(Item)
      /\ cur \in [buffer : Nat, at : Nat]
  <2>1. Produced \in 0 .. MaxBuffers
    BY <1>1 DEF RingType, Produced
  <2>2. data \in Seq(Word) /\ cur \in [buffer : 0 .. MaxBuffers, at : Nat]
    BY <1>1 DEF CallType, Ptr
  <2>3. Len(data) \in Nat
    BY <2>2
  <2>4. cur \in [buffer : Nat, at : Nat]
    BY <2>2, ReadoutAssumption
  <2>5. want \in [len : Nat, tag : Nat] /\ when \in Nat /\ out \in Seq(Item)
    BY <1>1 DEF CallType
  <2>6. Produced \in Nat /\ Produced <= MaxBuffers
    BY <2>1, ReadoutAssumption
  <2> QED BY <2>3, <2>4, <2>5, <2>6
<1>3. ASSUME CardInv', ChannelInv', Produced' <= MaxBuffers, CallType', Progress' PROVE IInv'
  <2>1. CardInv' /\ ChannelInv' /\ (Produced <= MaxBuffers)'
    BY <1>3
  <2>2. RingType'
    BY <2>1, RingTypes, PTL
  <2> QED BY <1>3, <2>2 DEF IInv, TypeOK, Progress
<1>4. ASSUME UNCHANGED produced PROVE Produced' <= MaxBuffers
  BY <1>2, <1>4 DEF Produced
<1>5. CASE Fill
  <2>1. CardInv' /\ ChannelInv' /\ Produced' <= MaxBuffers
    BY <1>1, <1>5, FillIs, FillCard, FillChannel
  <2>2. CallType' /\ Progress'
    BY <1>1, <1>5, FillType, FillKeeps
  <2> QED BY <1>3, <2>1, <2>2
<1>6. ASSUME NEW w \in Wanted, Call(w) PROVE IInv'
  <2>1. ChannelInv' /\ UNCHANGED produced
    BY <1>1, <1>6, ReleaseIs DEF Call
  <2>2. CardInv' /\ Produced' <= MaxBuffers
    <3>1. UNCHANGED <<evs, sent, reader>>
      BY <1>6 DEF Call, cardVars
    <3> QED BY <1>1, <1>2, <1>4, <2>1, <3>1, CardSame
  <2>3. CallType' /\ Progress'
    BY <1>1, <1>6, CallsType, CallKeeps
  <2> QED BY <1>3, <2>1, <2>2, <2>3
<1>7. CASE Read
  <2>1. ChannelInv' /\ CardInv' /\ Produced' <= MaxBuffers
    BY <1>1, <1>2, <1>4, <1>7, ReadChannel, CardSame
  <2>2. CASE TakeFirst
    BY <1>1, <1>2, <1>3, <2>1, <2>2, TakeFirstKeeps, TakeFirstType
  <2>3. CASE TakeRecords
    BY <1>1, <1>2, <1>3, <2>1, <2>3, TakeRecordsKeeps, TakeRecordsType
  <2>4. CASE NothingCame
    BY <1>1, <1>3, <2>1, <2>4, NothingCameKeeps, NothingCameType
  <2>5. CASE OnHand
    BY <1>1, <1>2, <1>3, <2>1, <2>5, OnHandKeeps, OnHandType
  <2>6. CASE TakeMore
    BY <1>1, <1>2, <1>3, <2>1, <2>6, TakeMoreKeeps, TakeMoreType
  <2>7. CASE NoMore
    BY <1>1, <1>3, <2>1, <2>7, NoMoreKeeps, NoMoreType
  <2> QED BY <1>7, <2>2, <2>3, <2>4, <2>5, <2>6, <2>7 DEF Read
<1>8. CASE Die
  <2>1. /\ Fifo!Forget(Daq) /\ list' = <<>> /\ Reset /\ UNCHANGED <<evs, sent, reader>>
        /\ UNCHANGED <<troubled, delivered>> /\ deaths < MaxDeaths /\ deaths' = deaths + 1
    BY <1>8 DEF Die, Reset, cardVars
  <2>2. ChannelInv' /\ CardInv' /\ Produced' <= MaxBuffers
    BY <1>1, <1>2, <1>4, <2>1, ForgetIs, CardSame
  <2>3. CallType'
    <3>1. deaths' \in 0 .. MaxDeaths
      BY <1>1, <2>1, ReadoutAssumption DEF CallType
    <3>2. troubled' \in BOOLEAN /\ delivered' \subseteq delivered
      BY <1>1, <2>1 DEF CallType
    <3> QED BY <1>1, <2>1, <3>1, <3>2, ResetType
  <2>4. Progress'
    BY <1>1, <1>8, DieKeeps
  <2> QED BY <1>3, <2>2, <2>3, <2>4
<1>9. CASE ReleaseAllBuffers
  <2>1. /\ list' = <<>> /\ Reset /\ UNCHANGED <<produced, evs, sent, reader, deaths>>
        /\ released' = produced /\ lent' = [lent EXCEPT ![Daq] = <<>>]
        /\ troubled' = TRUE /\ delivered' = {}
    BY <1>9 DEF ReleaseAllBuffers, Reset, cardVars
  <2>2. ChannelInv' /\ CardInv' /\ Produced' <= MaxBuffers
    BY <1>1, <1>2, <1>4, <2>1, ReleaseAllIs, CardSame
  <2>3. CallType'
    <3>1. deaths' \in 0 .. MaxDeaths
      BY <1>1, <2>1 DEF CallType
    <3>2. troubled' \in BOOLEAN /\ delivered' \subseteq delivered
      BY <2>1
    <3> QED BY <1>1, <2>1, <3>1, <3>2, ResetType
  <2>4. Progress'
    BY <1>1, <1>9, ReleaseAllBuffersKeeps
  <2> QED BY <1>3, <2>2, <2>3, <2>4
<1>10. CASE UNCHANGED vars
  <2>1. /\ UNCHANGED <<produced, released, lent, evs, sent, reader, list, cur, pc, tries, when>>
        /\ UNCHANGED <<want, data, out, aligned, cut, deaths, troubled, delivered>>
    BY <1>10 DEF vars, fifoVars, cardVars, callVars
  <2>2. /\ ChannelInv' /\ CardInv' /\ Produced' <= MaxBuffers /\ Kept
        /\ Taken' = Taken /\ Released' = Released
    BY <1>1, <1>2, <1>4, <2>1, ChannelSame, CardSame
  <2>3. CallType'
    BY <1>1, <2>1, SameWords DEF CallType, Ptr
  <2>4. Progress'
    BY <1>1, <2>1, <2>2, CallSame
  <2> QED BY <1>3, <2>2, <2>3, <2>4
<1> QED BY <1>5, <1>6, <1>7, <1>8, <1>9, <1>10 DEF Next

\* Whatever the ring's size, the lengths of the events and the order of fills, calls,
\* deaths and releases: what the channel lent, what a call gathered of it and what
\* went back hang together (GetData, GetSubEventData, ReadNextCFORecordDMA).
THEOREM Invariance == Spec => []IInv
BY InitInv, StepInv, PTL DEF Spec

\* The library's list is what the device has lent it, however a call ended, and no
\* try of GetSubEventData and CFO::GetData starts with a buffer in the list.
THEOREM ListLent == Spec => []ListIsLent
<1>1. IInv => ListIsLent
  BY DEF IInv, ChannelInv, ControlInv, ListIsLent
<1> QED BY <1>1, Invariance, PTL

\* What a call returned stays whole until the next call, in a copy or in a buffer that
\* is held.
THEOREM HandsWhole == Spec => []ReturnedWhole
<1>1. IInv => ReturnedWhole
  <2> SUFFICES ASSUME IInv, pc = "idle", aligned, NEW k \in DOMAIN out,
                      reader = "event" => k = 1 /\ ~cut
               PROVE  Whole(Contents(out[k]))
    BY DEF ReturnedWhole
  <2>1. PICK e \in DOMAIN evs : ItemIs(out[k], e)
    BY DEF IInv, HandsInv
  <2>2. PICK item : item = out[k]
    OBVIOUS
  <2>3. Contents(item) = Event(e)
    BY <2>1, <2>2, ItemShows DEF IInv
  <2> QED BY <2>2, <2>3 DEF Whole
<1> QED BY <1>1, Invariance, PTL

\* As long as every call told of nothing unusual, the events of all buffers that went
\* back to the card had been returned whole.
THEOREM NoneLost == Spec => []NothingLost
<1>1. IInv => NothingLost
  <2> SUFFICES ASSUME IInv, ~troubled, NEW n \in 1 .. released[Daq], NEW k \in DOMAIN sent[n]
               PROVE  sent[n][k][1] \in delivered
    BY DEF NothingLost
  <2>1. DeliveredTo(Released) /\ CardInv /\ ChannelInv
    BY DEF IInv, DeliveredInv
  <2>2. n \in 1 .. Released
    BY DEF Released
  <2>3. n \in 1 .. Produced /\ Produced \in Nat
    BY <2>1, <2>2, ChannelTypes
  <2>4. sent[n] \in Seq(Nat \X Nat)
    BY <2>1, <2>3, Buffers
  <2>5. k \in 1 .. Len(sent[n])
    BY <2>4
  <2> QED BY <2>1, <2>2, <2>5 DEF DeliveredTo
<1> QED BY <1>1, Invariance, PTL
=============================================================================
