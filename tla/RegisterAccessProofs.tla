------------------------ MODULE RegisterAccessProofs ------------------------
(***************************************************************************)
(* What holds of two accessors of one register however their accesses      *)
(* interleave, whatever fails and whichever links and settings there are,  *)
(* as long as the register tables fit (TablesFit, which TLC evaluates on   *)
(* the rows of both cards).                                                *)
(***************************************************************************)
EXTENDS RegisterAccessInv, Integers, SequenceTheorems, TLAPS

States == {"read", "write", "readback", "done", "refused", "failed"}

\* What is left of a plan when its first value was written.
LEMMA PlanTail ==
  ASSUME NEW S, NEW s \in Seq(S), s /= <<>>
  PROVE  /\ Len(s) \in Nat \ {0} /\ (Len(s) = 1 \/ Len(s) > 1)
         /\ Head(s) \in S /\ Head(s) = s[1]
         /\ Tail(s) \in Seq(S) /\ Len(Tail(s)) = Len(s) - 1
         /\ Len(s) > 1 <=> Tail(s) /= <<>>
         /\ Tail(s) /= <<>> => Tail(s)[Len(Tail(s))] = s[Len(s)]
<1>1. Len(s) \in Nat \ {0}
  BY EmptySeq
<1>2. /\ Head(s) \in S /\ Tail(s) \in Seq(S) /\ Len(Tail(s)) = Len(s) - 1
      /\ \A i \in 1 .. Len(Tail(s)) : Tail(s)[i] = s[i + 1]
  BY HeadTailProperties
<1>3. Head(s) = s[1]
  OBVIOUS
<1>4. Tail(s) /= <<>> => Len(Tail(s)) \in Nat \ {0}
  BY <1>2, EmptySeq
<1>5. Tail(s) = <<>> => Len(Tail(s)) = 0
  BY EmptySeq
<1> QED BY <1>1, <1>2, <1>3, <1>4, <1>5

-----------------------------------------------------------------------------
(* The initial states.                                                     *)

\* The caller whose setting is watched, or the other one, begins with a row that
\* fits, if it has one.
LEMMA InitFit ==
  ASSUME TablesFit, Init
  PROVE  /\ Fit
         /\ \A c \in Callers : plan[c] \in row[c].writes
         /\ pc = [c \in Callers |-> Begins(row[c])]
         /\ \E x \in SUBSET Word :
              /\ word = [r \in DOMAIN setting.card_bits |-> x]
              /\ wanted = Shows(CHOOSE g \in setting.readers : g.kind = "read", x)
<1>c. PICK card \in Cards :
        \E s \in Settings(Table(card)) :
          /\ setting = About(card, Table(card), s)
          /\ \E own \in LET ws == {w \in Table(card) : w.kind = "write" /\ Named(w) = s} IN
                        IF ws = {} THEN {Nothing} ELSE ws,
                other \in {Nothing} \cup Writers(Table(card), setting.home) :
                /\ row = <<own, other>>
                /\ plan \in own.writes \X other.writes
                /\ pc = <<Begins(own), Begins(other)>>
  BY DEF Init
<1>1. PICK s \in Settings(Table(card)) :
        /\ setting = About(card, Table(card), s)
        /\ \E own \in LET ws == {w \in Table(card) : w.kind = "write" /\ Named(w) = s} IN
                      IF ws = {} THEN {Nothing} ELSE ws,
              other \in {Nothing} \cup Writers(Table(card), setting.home) :
              /\ row = <<own, other>>
              /\ plan \in own.writes \X other.writes
              /\ pc = <<Begins(own), Begins(other)>>
  BY <1>c
<1>2. PICK own \in LET ws == {w \in Table(card) : w.kind = "write" /\ Named(w) = s} IN
                   IF ws = {} THEN {Nothing} ELSE ws,
           other \in {Nothing} \cup Writers(Table(card), setting.home) :
        /\ row = <<own, other>>
        /\ plan \in own.writes \X other.writes
        /\ pc = <<Begins(own), Begins(other)>>
  BY <1>1
<1>3. SettingFits(setting)
  BY <1>1 DEF TablesFit
<1>4. /\ own /= Nothing => own \in Table(card) /\ own.kind = "write" /\ Named(own) = s
      /\ other /= Nothing => other \in Table(card) /\ other.kind = "write" /\ Register(other) = setting.home
  BY <1>2 DEF Writers
<1>5. RowFits(setting, own) /\ RowFits(setting, other)
  <2>1. \A w \in Table(card) :
          w.kind = "write" /\ (Named(w) = s \/ Register(w) = setting.home) => RowFits(setting, w)
    BY <1>1 DEF TablesFit
  <2> QED BY <2>1, <1>4 DEF RowFits
<1>6. Fit
  BY <1>2, <1>3, <1>5 DEF Fit, Callers
<1>7. /\ \A c \in Callers : plan[c] \in row[c].writes
      /\ pc = [c \in Callers |-> Begins(row[c])]
  BY <1>2 DEF Callers
<1>8. \E x \in SUBSET Word :
         /\ word = [r \in DOMAIN setting.card_bits |-> x]
         /\ wanted = Shows(CHOOSE g \in setting.readers : g.kind = "read", x)
  <2>1. PICK x \in {{}, IF setting.home[1] = "Control" THEN Word \ {14} ELSE Word} :
          /\ word = [r \in DOMAIN setting.card_bits |-> x]
          /\ wanted = Shows(CHOOSE g \in setting.readers : g.kind = "read", x)
    BY DEF Init
  <2>2. x \in SUBSET Word
    OBVIOUS
  <2> QED BY <2>1, <2>2
<1> QED BY <1>6, <1>7, <1>8

LEMMA NothingIs == Nothing.kind = "none" /\ Nothing.writes = {<<>>}
BY DEF Nothing, Row

LEMMA InitInv ==
  ASSUME TablesFit, Init
  PROVE  IInv
<1>1. /\ Fit
      /\ \A c \in Callers : plan[c] \in row[c].writes
      /\ pc = [c \in Callers |-> Begins(row[c])]
  BY InitFit
<1>2. PICK x \in SUBSET Word :
        /\ word = [r \in DOMAIN setting.card_bits |-> x]
        /\ wanted = Shows(CHOOSE g \in setting.readers : g.kind = "read", x)
  BY InitFit
<1>3. /\ copy = [c \in Callers |-> {}] /\ stale = [c \in Callers |-> FALSE]
      /\ locked = 0 /\ lost = FALSE /\ moved = FALSE /\ fails = 0
  BY DEF Init
<1>f. /\ setting.card \in Cards /\ DOMAIN setting.card_bits = {setting.home}
      /\ setting.bits \subseteq Word /\ setting.inverts \subseteq setting.bits
      /\ \E g \in setting.readers : g.kind = "read"
      /\ \A g \in setting.readers : g.bits = setting.bits /\ g.inverts = setting.inverts
  BY <1>1 DEF Fit, SettingFits
<1>4. DOMAIN word = {setting.home} /\ Content = x
  BY <1>2, <1>f DEF Content
<1>5. wanted = Shows(setting, Content)
  BY <1>2, <1>4, <1>f DEF Shows
<1>6. wanted \subseteq setting.bits
  BY <1>5, <1>f DEF Shows, Flipped
<1>7. \A c \in Callers : pc[c] \in {"read", "write", "done"} /\ (row[c] = Nothing => pc[c] = "done")
  <2>1. ASSUME NEW c \in Callers
        PROVE  pc[c] \in {"read", "write", "done"} /\ (row[c] = Nothing => pc[c] = "done")
    BY <1>1, NothingIs DEF Begins
  <2> QED BY <2>1
<1>8. \A c \in Callers : row[c] /= Nothing => pc[c] \in {"read", "write"}
  <2>1. ASSUME NEW c \in Callers, row[c] /= Nothing
        PROVE  pc[c] \in {"read", "write"}
    <3>1. row[c].kind = "write"
      BY <1>1, <2>1 DEF Fit, RowFits, WriterFits
    <3> QED BY <3>1, <1>1 DEF Begins
  <2> QED BY <2>1
<1>9. TypeOK
  <2>1. pc \in [Callers -> States]
    BY <1>1, <1>7 DEF States
  <2>2. \A r \in DOMAIN word : word[r] \subseteq Word
    BY <1>2
  <2>3. wanted \subseteq Word
    BY <1>6, <1>f
  <2>4. copy \in [Callers -> SUBSET Word] /\ stale \in [Callers -> BOOLEAN]
    BY <1>3
  <2>5. locked \in {0} \cup Callers /\ lost \in BOOLEAN /\ moved \in BOOLEAN /\ fails \in 0 .. MaxFails
    <3>1. fails \in 0 .. MaxFails
      BY <1>3, FailsAssumption
    <3> QED BY <3>1, <1>3
  <2>6. setting.card \in Cards /\ setting.home \in DOMAIN word
    BY <1>4, <1>f
  <2> QED BY <2>1, <2>2, <2>3, <2>4, <2>5, <2>6 DEF TypeOK, States
<1>10. ASSUME NEW c \in Callers
       PROVE  CallerInv(c)
  <2>1. CASE row[c] = Nothing
    <3>1. plan[c] = <<>> /\ pc[c] = "done" /\ ~Resets(c)
      BY <2>1, <1>1, <1>7, NothingIs DEF Resets
    <3> QED BY <3>1, <1>3 DEF CallerInv, PlanInv, LockInv, CopyInv, CompareInv, ResetInv, RefusedInv, Callers
  <2>2. CASE row[c] /= Nothing
    <3>1. WriterFits(setting, row[c]) /\ ResetFits(setting, row[c])
      BY <2>2, <1>1 DEF Fit, RowFits
    <3>2. plan[c] \in Seq(SUBSET row[c].bits) /\ plan[c] /= <<>>
      BY <3>1, <1>1 DEF WriterFits
    <3>3. Resets(c) => plan[c][Len(plan[c])] = {}
      BY <3>1, <1>1 DEF Resets, ResetFits
    <3>4. pc[c] \in {"read", "write"}
      BY <2>2, <1>8
    <3>5. pc[c] = "write" => ~row[c].keeps
      BY <1>1, <3>1 DEF Begins, WriterFits
    <3> QED BY <2>2, <3>2, <3>3, <3>4, <3>5, <1>3
            DEF CallerInv, PlanInv, LockInv, CopyInv, CompareInv, ResetInv, RefusedInv, Callers
  <2> QED BY <2>1, <2>2
<1>11. DOMAIN plan = Callers
  BY DEF Init, Callers
<1> QED BY <1>1, <1>4, <1>5, <1>6, <1>9, <1>10, <1>11, <1>f DEF IInv, ValueInv

-----------------------------------------------------------------------------
(* What the invariant says of the caller that takes a step.                *)

LEMMA Writer ==
  ASSUME IInv, NEW c \in Callers, row[c] /= Nothing
  PROVE  WriterFits(setting, row[c]) /\ ResetFits(setting, row[c])
BY DEF IInv, Fit, RowFits

\* A caller whose row, position and copy stay as they are keeps what the invariant
\* says of it when the register stays as it is.
LEMMA Bystander ==
  ASSUME IInv, NEW d \in Callers, UNCHANGED <<setting, row>>, Content' = Content,
         plan'[d] = plan[d], pc'[d] = pc[d], copy'[d] = copy[d], stale'[d] = stale[d],
         locked' = d <=> locked = d, lost' = lost
  PROVE  CallerInv(d)'
<1>1. CallerInv(d)
  BY DEF IInv
<1>2. Own' = Own
  BY DEF Own
<1>3. PlanInv(d)'
  BY <1>1 DEF CallerInv, PlanInv, Resets
<1>4. LockInv(d)'
  BY <1>1 DEF CallerInv, LockInv, Verified
<1>5. CopyInv(d)'
  BY <1>1, <1>2 DEF CallerInv, CopyInv
<1>6. CompareInv(d)'
  BY <1>1, <1>2 DEF CallerInv, CompareInv, Verified
<1>7. ResetInv(d)'
  BY <1>1, <1>2 DEF CallerInv, ResetInv, Resets
<1>8. RefusedInv(d)'
  BY <1>1, <1>2 DEF CallerInv, RefusedInv
<1> QED BY <1>3, <1>4, <1>5, <1>6, <1>7, <1>8 DEF CallerInv

\* The parts of the invariant that do not speak of a caller, for the steps that
\* leave the register alone.
LEMMA RegisterAlone ==
  ASSUME IInv, UNCHANGED <<setting, row, word, wanted, lost>>,
         TypeOK', DOMAIN plan' = Callers,
         \A d \in Callers : CallerInv(d)'
  PROVE  IInv'
<1>1. Content' = Content
  BY DEF Content
<1> QED BY <1>1 DEF IInv, Fit, ValueInv

-----------------------------------------------------------------------------
(* The steps of a caller, but for the write.                               *)

LEMMA ReadStep ==
  ASSUME IInv, NEW c \in Callers, Read(c)
  PROVE  IInv'
<1>t. TypeOK /\ DOMAIN word = {setting.home} /\ DOMAIN plan = Callers /\ CallerInv(c)
  BY DEF IInv
<1>1. /\ pc[c] = "read"
      /\ copy' = [copy EXCEPT ![c] = word[Register(row[c])]]
      /\ stale' = [stale EXCEPT ![c] = FALSE]
      /\ pc' \in {[pc EXCEPT ![c] = "failed"], [pc EXCEPT ![c] = "write"]}
      /\ UNCHANGED <<setting, row, plan, word, wanted, locked, lost, moved, fails>>
  BY DEF Read, accessVars
<1>2. row[c] /= Nothing
  BY <1>1, <1>t DEF CallerInv, PlanInv
<1>3. Register(row[c]) = setting.home /\ word[setting.home] \subseteq Word
  BY <1>2, <1>t, Writer DEF WriterFits, TypeOK
<1>4. TypeOK'
  BY <1>t, <1>1, <1>3 DEF TypeOK
<1>5. copy'[c] = Content /\ pc'[c] \in {"write", "failed"} /\ stale'[c] = FALSE
  BY <1>t, <1>1, <1>3 DEF TypeOK, Content
<1>6. Content' = Content /\ Own' = Own
  BY <1>1 DEF Content, Own
<1>7. CallerInv(c)'
  <2>1. PlanInv(c)'
    BY <1>t, <1>1, <1>2, <1>5 DEF CallerInv, PlanInv, Resets
  <2>2. LockInv(c)'
    BY <1>t, <1>1, <1>5 DEF CallerInv, LockInv
  <2>3. CopyInv(c)'
    BY <1>5, <1>6 DEF CopyInv
  <2> QED BY <2>1, <2>2, <2>3, <1>5 DEF CallerInv, CompareInv, ResetInv, RefusedInv
<1>8. ASSUME NEW d \in Callers \ {c} PROVE CallerInv(d)'
  BY <1>1, <1>6, <1>t, Bystander DEF TypeOK
<1> QED BY <1>t, <1>1, <1>4, <1>7, <1>8, RegisterAlone

LEMMA SkipStep ==
  ASSUME IInv, NEW c \in Callers, SkipWrites(c)
  PROVE  IInv'
<1>t. TypeOK /\ DOMAIN plan = Callers /\ CallerInv(c)
  BY DEF IInv
<1>1. /\ pc[c] = "read" /\ MayBeSkipped(row[c])
      /\ pc' = [pc EXCEPT ![c] = "done"]
      /\ UNCHANGED <<setting, row, plan, copy, stale, word, wanted, locked, lost, moved, fails>>
  BY DEF SkipWrites, Skips, accessVars
<1>2. TypeOK'
  BY <1>t, <1>1 DEF TypeOK
<1>3. pc'[c] = "done"
  BY <1>t, <1>1 DEF TypeOK
<1>4. CallerInv(c)'
  <2>1. PlanInv(c)'
    BY <1>t, <1>1, <1>3 DEF CallerInv, PlanInv, Resets
  <2>2. LockInv(c)'
    BY <1>t, <1>1, <1>3 DEF CallerInv, LockInv
  <2>3. ~Resets(c)'
    <3>1. row[c] /= Nothing
      BY <1>1, <1>t DEF CallerInv, PlanInv
    <3> QED BY <3>1, <1>1, Writer DEF ResetFits, Resets
  <2> QED BY <2>1, <2>2, <2>3, <1>3 DEF CallerInv, CopyInv, CompareInv, ResetInv, RefusedInv
<1>5. ASSUME NEW d \in Callers \ {c} PROVE CallerInv(d)'
  <2>1. Content' = Content
    BY <1>1 DEF Content
  <2> QED BY <1>1, <2>1, <1>t, Bystander DEF TypeOK
<1> QED BY <1>t, <1>1, <1>2, <1>4, <1>5, RegisterAlone

\* The caller that lost its answer has the word it wrote as its copy, as before a write.
LEMMA AnswerLostStep ==
  ASSUME IInv, NEW c \in Callers, AnswerLost(c)
  PROVE  IInv'
<1>t. TypeOK /\ DOMAIN plan = Callers /\ \A d \in Callers : CallerInv(d)
  BY DEF IInv
<1>1. /\ pc[c] = "readback" /\ Verified(c)
      /\ fails < MaxFails /\ fails' = fails + 1 /\ locked' = Unlocked(c)
      /\ pc' \in {[pc EXCEPT ![c] = "write"], [pc EXCEPT ![c] = "failed"]}
      /\ UNCHANGED <<setting, row, plan, copy, stale, word, wanted, lost, moved>>
  BY DEF AnswerLost, MayFail, accessVars
<1>2. TypeOK'
  BY <1>t, <1>1, FailsAssumption DEF TypeOK, Unlocked
<1>3. pc'[c] \in {"write", "failed"} /\ locked = c /\ locked' = 0
  BY <1>t, <1>1 DEF TypeOK, CallerInv, LockInv, Unlocked
<1>c. Content' = Content /\ Own' = Own
  BY <1>1 DEF Content, Own
<1>4. CallerInv(c)'
  <2>1. PlanInv(c)'
    BY <1>t, <1>1, <1>3 DEF CallerInv, PlanInv, Resets
  <2>2. LockInv(c)'
    BY <1>1, <1>3 DEF LockInv, Callers
  <2>3. CopyInv(c)'
    BY <1>t, <1>1, <1>3, <1>c DEF CallerInv, CopyInv
  <2> QED BY <2>1, <2>2, <2>3, <1>3 DEF CallerInv, CompareInv, ResetInv, RefusedInv
<1>5. ASSUME NEW d \in Callers \ {c} PROVE CallerInv(d)'
  <2>1. locked' = d <=> locked = d
    BY <1>1, <1>3 DEF Callers
  <2>2. pc'[d] = pc[d]
    BY <1>t, <1>1 DEF TypeOK
  <2> QED BY <1>1, <1>c, <2>1, <2>2, Bystander
<1> QED BY <1>t, <1>1, <1>2, <1>4, <1>5, RegisterAlone

LEMMA FailStep ==
  ASSUME IInv, NEW c \in Callers, Fail(c)
  PROVE  IInv'
<1>t. TypeOK /\ DOMAIN plan = Callers /\ CallerInv(c)
  BY DEF IInv
<1>1. /\ pc[c] \in {"read", "write"}
      /\ fails < MaxFails /\ fails' = fails + 1
      /\ pc' = [pc EXCEPT ![c] = "failed"]
      /\ UNCHANGED <<setting, row, plan, copy, stale, word, wanted, locked, lost, moved>>
  BY DEF Fail, MayFail, accessVars
<1>2. TypeOK'
  BY <1>t, <1>1, FailsAssumption DEF TypeOK
<1>3. pc'[c] = "failed"
  BY <1>t, <1>1 DEF TypeOK
<1>4. CallerInv(c)'
  <2>1. PlanInv(c)'
    BY <1>t, <1>1, <1>3 DEF CallerInv, PlanInv, Resets
  <2>2. LockInv(c)'
    BY <1>t, <1>1, <1>3 DEF CallerInv, LockInv
  <2> QED BY <2>1, <2>2, <1>3 DEF CallerInv, CopyInv, CompareInv, ResetInv, RefusedInv
<1>5. ASSUME NEW d \in Callers \ {c} PROVE CallerInv(d)'
  <2>1. Content' = Content
    BY <1>1 DEF Content
  <2> QED BY <1>1, <2>1, <1>t, Bystander DEF TypeOK
<1> QED BY <1>t, <1>1, <1>2, <1>4, <1>5, RegisterAlone

LEMMA ComparedLess ==
  ASSUME NEW r, NEW data
  PROVE  Compared(r, data) \subseteq Compared(r, {})
BY DEF Compared

LEMMA ReadBackStep ==
  ASSUME IInv, NEW c \in Callers, ReadBack(c)
  PROVE  IInv'
<1>t. TypeOK /\ DOMAIN word = {setting.home} /\ DOMAIN plan = Callers /\ CallerInv(c)
  BY DEF IInv
<1> DEFINE r == Register(row[c])
           same == ~Verified(c) \/ word[r] \cap Compared(r, copy[c]) = copy[c] \cap Compared(r, copy[c])
<1>1. /\ pc[c] = "readback"
      /\ locked' = IF locked = c THEN 0 ELSE locked
      /\ plan' = [plan EXCEPT ![c] = Tail(@)]
      /\ UNCHANGED <<setting, row, copy, stale, word, wanted, lost, moved, fails>>
  BY DEF ReadBack, Unlocked, accessVars
<1>2. row[c] /= Nothing /\ plan[c] \in Seq(SUBSET row[c].bits) /\ plan[c] /= <<>>
  BY <1>1, <1>t DEF CallerInv, PlanInv
<1>3. Register(row[c]) = setting.home
  BY <1>2, Writer DEF WriterFits
<1>4. /\ Len(plan[c]) = 1 \/ Len(plan[c]) > 1
      /\ Tail(plan[c]) \in Seq(SUBSET row[c].bits)
      /\ Len(plan[c]) > 1 => Tail(plan[c]) /= <<>>
      /\ Tail(plan[c]) /= <<>> => Tail(plan[c])[Len(Tail(plan[c]))] = plan[c][Len(plan[c])]
  BY <1>2, PlanTail
<1>5. \/ ~same /\ pc' = [pc EXCEPT ![c] = "refused"]
      \/ same /\ Len(plan[c]) = 1 /\ pc' = [pc EXCEPT ![c] = "done"]
      \/ same /\ Len(plan[c]) > 1 /\ pc' = [pc EXCEPT ![c] = "read"]
      \/ same /\ Len(plan[c]) > 1 /\ pc' = [pc EXCEPT ![c] = "write"]
  <2> DEFINE next == CASE ~same -> "refused"
                        [] same /\ Len(plan[c]) = 1 -> "done"
                        [] same /\ Len(plan[c]) > 1 ->
                             IF row[c].keeps /\ row[c].rereads THEN "read" ELSE "write"
  <2>1. pc' = [pc EXCEPT ![c] = next]
    BY DEF ReadBack
  <2>2. CASE ~same
    <3>1. next = "refused"
      BY <2>2
    <3> QED BY <2>1, <2>2, <3>1
  <2>3. CASE same /\ Len(plan[c]) = 1
    <3>1. next = "done"
      BY <2>3
    <3> QED BY <2>1, <2>3, <3>1
  <2>4. CASE same /\ Len(plan[c]) > 1
    <3>1. next \in {"read", "write"}
      BY <2>4
    <3> HIDE DEF next
    <3> QED BY <2>1, <2>4, <3>1
  <2> HIDE DEF same, next
  <2> QED BY <2>2, <2>3, <2>4, <1>4
<1> HIDE DEF same
<1>6. TypeOK'
  BY <1>t, <1>1, <1>5 DEF TypeOK
<1>7. Content' = Content /\ Own' = Own
  BY <1>1 DEF Content, Own
<1>8. pc'[c] \in {"refused", "done", "read", "write"}
  BY <1>5, <1>t DEF TypeOK
<1>9. CallerInv(c)'
  <2>2. PlanInv(c)'
    <3>1. plan'[c] = Tail(plan[c])
      BY <1>t, <1>1
    <3>2. pc'[c] \in {"read", "write", "readback"} => plan'[c] /= <<>>
      <4>1. pc'[c] \in {"read", "write", "readback"} => Len(plan[c]) > 1
        BY <1>5, <1>t DEF TypeOK
      <4> QED BY <4>1, <3>1, <1>4
    <3>3. Resets(c)' /\ plan'[c] /= <<>> => plan'[c][Len(plan'[c])] = {}
      <4>1. Resets(c)' => plan[c][Len(plan[c])] = {}
        BY <1>1, <1>2, <1>t DEF CallerInv, PlanInv, Resets
      <4> QED BY <4>1, <3>1, <1>4
    <3>4. row'[c] /= Nothing /\ plan'[c] \in Seq(SUBSET row'[c].bits)
      BY <3>1, <1>1, <1>2, <1>4
    <3> QED BY <3>2, <3>3, <3>4 DEF PlanInv
  <2>3. LockInv(c)'
    BY <1>t, <1>1, <1>8 DEF CallerInv, LockInv, Callers
  <2>4. CopyInv(c)'
    BY <1>t, <1>1, <1>7 DEF CallerInv, CopyInv
  <2>5. CompareInv(c)'
    BY <1>8 DEF CompareInv
  <2>6. ResetInv(c)'
    BY <1>t, <1>1, <1>4, <1>5, <1>7, <1>8 DEF CallerInv, ResetInv, Resets, TypeOK
  <2>7. RefusedInv(c)'
    <3>1. SUFFICES ASSUME ~same
                   PROVE  Own \cap Compared(setting.home, {}) /= {}
      BY <1>5, <1>7, <1>1, <1>t DEF RefusedInv, TypeOK
    <3>2. PICK k \in Compared(setting.home, copy[c]) :
            k \in Flipped(Content \cap Compared(setting.home, copy[c]), copy[c] \cap Compared(setting.home, copy[c]))
      BY <3>1, <1>3 DEF same, Flipped, Content
    <3>3. k \in Own
      BY <3>1, <3>2, <1>1, <1>t DEF same, CallerInv, CompareInv
    <3> QED BY <3>2, <3>3, ComparedLess
  <2> QED BY <2>2, <2>3, <2>4, <2>5, <2>6, <2>7 DEF CallerInv
<1>10. ASSUME NEW d \in Callers \ {c} PROVE CallerInv(d)'
  <2>1. plan'[d] = plan[d] /\ pc'[d] = pc[d]
    <3>1. pc'[d] = pc[d]
      BY <1>5, <1>t DEF TypeOK
    <3> QED BY <3>1, <1>1
  <2>2. locked' = d <=> locked = d
    BY <1>1 DEF Callers
  <2> QED BY <1>1, <1>7, <2>1, <2>2, Bystander
<1> QED BY <1>t, <1>1, <1>6, <1>9, <1>10, RegisterAlone

-----------------------------------------------------------------------------
(* The write.                                                              *)

\* What an accessor writes: its own bits as it was asked, the others as it read them.
LEMMA DataIs ==
  ASSUME NEW w, NEW v \in SUBSET w.bits, w.inverts \subseteq w.bits, NEW x
  PROVE  \A k : k \in Data(w, v, x) <=>
                  IF k \in w.bits THEN (k \in v) /= (k \in w.inverts) ELSE w.keeps /\ k \in x
BY DEF Data, Flipped

\* What a write leaves: the word that was written, but for the card's own bits.
LEMMA WriteEffect ==
  ASSUME IInv, NEW c \in Callers, Write(c)
  PROVE  LET w == row[c]  v == Head(plan[c])  data == Data(w, v, copy[c]) IN
         /\ pc[c] = "write" /\ MayWrite(c) /\ w /= Nothing
         /\ v \in SUBSET w.bits /\ data \subseteq Word
         /\ DOMAIN word' = {setting.home} /\ Content' \subseteq Word
         /\ Content' \ Own = data \ Own
         /\ ~w.counts /\ ~w.acks => Content' \cap Own = Content \cap Own
         /\ wanted' = Wanted(c, v, Content')
         /\ lost' = (lost \/ (w.keeps /\ stale[c]))
         /\ locked' = IF Verified(c) THEN c ELSE locked
         /\ copy' = [copy EXCEPT ![c] = data]
         /\ pc' = [pc EXCEPT ![c] = "readback"]
         /\ UNCHANGED <<setting, row, plan, moved, fails>>
<1> DEFINE w == row[c]  v == Head(plan[c])  data == Data(w, v, copy[c])
<1>t. TypeOK /\ DOMAIN word = {setting.home} /\ CallerInv(c)
  BY DEF IInv
<1>1. /\ pc[c] = "write" /\ MayWrite(c)
      /\ locked' = IF Verified(c) THEN c ELSE locked
      /\ \E x \in Stored(w, data, word[Register(w)]) :
            /\ word' = [word EXCEPT ![Register(w)] = x]
            /\ wanted' = Wanted(c, v, x)
      /\ lost' = (lost \/ (w.keeps /\ stale[c]))
      /\ copy' = [copy EXCEPT ![c] = data]
      /\ pc' = [pc EXCEPT ![c] = "readback"]
      /\ UNCHANGED <<setting, row, plan, moved, fails>>
  BY DEF Write, accessVars
<1>2. w /= Nothing /\ plan[c] \in Seq(SUBSET w.bits) /\ plan[c] /= <<>>
  BY <1>1, <1>t DEF CallerInv, PlanInv
<1>3. v \in SUBSET w.bits
  BY <1>2, PlanTail
<1>4. /\ Register(w) = setting.home /\ w.bits \subseteq Word /\ w.inverts \subseteq w.bits
  BY <1>2, Writer DEF WriterFits
<1>5. copy[c] \subseteq Word /\ Content \subseteq Word /\ Own \subseteq Word
  BY <1>t DEF TypeOK, Content, Own, IInv, Fit, SettingFits
<1> HIDE DEF v, w
<1>6. data \subseteq Word
  BY <1>3, <1>4, <1>5 DEF Data, Flipped
<1> HIDE DEF data
<1>7. PICK x \in Stored(w, data, Content) :
        /\ word' = [word EXCEPT ![setting.home] = x]
        /\ wanted' = Wanted(c, v, x)
  BY <1>1, <1>4 DEF Content
<1>8. PICK kept \in IF w.counts THEN {data, {}} ELSE IF w.acks THEN {Content, Content \ data} ELSE {Content} :
        x = (data \ Own) \cup (kept \cap Own)
  BY <1>7, <1>4 DEF Stored, Own
<1>9. DOMAIN word' = {setting.home} /\ Content' = x
  BY <1>1, <1>7, <1>t DEF Content
<1>10. x \subseteq Word
  BY <1>8, <1>5, <1>6
<1>11. x \ Own = data \ Own /\ (~w.counts /\ ~w.acks => x \cap Own = Content \cap Own)
  BY <1>8
<1> QED BY <1>1, <1>2, <1>3, <1>6, <1>7, <1>9, <1>10, <1>11 DEF data, v, w

\* A write gives the setting its new value, or leaves it the old one, unless the word
\* it started from was stale.
LEMMA WriteValue ==
  ASSUME IInv, NEW c \in Callers, Write(c)
  PROVE  ValueInv' /\ wanted' \subseteq setting.bits
<1> DEFINE w == row[c]  v == Head(plan[c])  data == Data(w, v, copy[c])
<1>1. /\ pc[c] = "write" /\ w /= Nothing
      /\ v \in SUBSET w.bits
      /\ Content' \ Own = data \ Own
      /\ ~w.counts /\ ~w.acks => Content' \cap Own = Content \cap Own
      /\ wanted' = Wanted(c, v, Content')
      /\ lost' = (lost \/ (w.keeps /\ stale[c]))
      /\ UNCHANGED setting
  BY WriteEffect
<1>2. /\ Register(w) = setting.home /\ w.inverts \subseteq w.bits
      /\ IF Sets(setting, w)
         THEN /\ setting.bits \cap w.bits \cap Own = {}
              /\ w.inverts \cap setting.bits = setting.inverts \cap w.bits
         ELSE setting.bits \cap w.bits \subseteq Own
      /\ w.keeps \/ setting.bits \subseteq Own \cup w.bits
  BY <1>1, Writer DEF WriterFits, Own
<1>3. wanted \subseteq setting.bits /\ setting.inverts \subseteq setting.bits /\ ValueInv
  BY DEF IInv, Fit, SettingFits
<1>4. ~stale[c] /\ w.keeps => copy[c] \ Own = Content \ Own
  BY <1>1 DEF IInv, CallerInv, CopyInv
<1>5. \A k : k \in data <=>
               IF k \in w.bits THEN (k \in v) /= (k \in w.inverts) ELSE w.keeps /\ k \in copy[c]
  BY <1>1, <1>2, DataIs
<1>6. wanted' = IF w.counts \/ w.acks
                THEN ((wanted \ Own) \cup (Flipped(Content', setting.inverts) \cap Own)) \cap setting.bits
                ELSE IF Sets(setting, w) THEN ((wanted \ w.bits) \cup v) \cap setting.bits
                ELSE wanted
  BY <1>1, <1>2 DEF Wanted, Sets, Own
<1> HIDE DEF v, w, data
<1>7. wanted' \subseteq setting.bits
  BY <1>3, <1>6
<1>8. SUFFICES ASSUME ~lost'
               PROVE  Shows(setting, Content') = wanted'
  BY <1>1, <1>7 DEF ValueInv
<1>9. Shows(setting, Content) = wanted /\ (w.keeps => copy[c] \ Own = Content \ Own)
  BY <1>1, <1>3, <1>4, <1>8 DEF ValueInv
<1>10. ASSUME NEW k
       PROVE  k \in Shows(setting, Content') <=> k \in wanted'
  <2>1. k \in Shows(setting, Content) <=>
          k \in setting.bits /\ (k \in Content) /= (k \in setting.inverts)
    BY <1>3 DEF Shows, Flipped
  <2>2. k \in Shows(setting, Content') <=>
          k \in setting.bits /\ (k \in Content') /= (k \in setting.inverts)
    BY <1>3 DEF Shows, Flipped
  <2>3. k \notin Own => (k \in Content' <=> k \in data)
    BY <1>1
  <2>4. CASE k \notin setting.bits
    BY <2>2, <2>4, <1>7
  <2>5. CASE k \in setting.bits /\ k \in Own
    <3>1. CASE w.counts \/ w.acks
      BY <3>1, <2>2, <2>5, <1>6 DEF Flipped
    <3>2. CASE ~w.counts /\ ~w.acks
      <4>1. k \in Content' <=> k \in Content
        BY <3>2, <2>5, <1>1
      <4>2. k \in wanted' <=> k \in wanted
        BY <3>2, <2>5, <1>1, <1>2, <1>6
      <4> QED BY <4>1, <4>2, <2>1, <2>2, <1>9
    <3> QED BY <3>1, <3>2
  <2>6. CASE k \in setting.bits /\ k \notin Own
    <3>1. CASE k \in w.bits
      <4>1. Sets(setting, w) /\ (k \in w.inverts <=> k \in setting.inverts)
        BY <3>1, <2>6, <1>2
      <4>2. k \in wanted' <=> k \in v
        BY <4>1, <3>1, <2>6, <1>6 DEF Sets
      <4> QED BY <4>1, <4>2, <3>1, <2>2, <2>3, <2>6, <1>5
    <3>2. CASE k \notin w.bits
      <4>1. k \in Content' <=> k \in Content
        BY <3>2, <2>3, <2>6, <1>2, <1>5, <1>9
      <4>2. k \in wanted' <=> k \in wanted
        BY <3>2, <2>6, <1>1, <1>6
      <4> QED BY <4>1, <4>2, <2>1, <2>2, <1>9
    <3> QED BY <3>1, <3>2
  <2> QED BY <2>4, <2>5, <2>6
<1> QED BY <1>10, <1>7

LEMMA WriteOwn ==
  ASSUME IInv, NEW c \in Callers, Write(c)
  PROVE  CallerInv(c)'
<1> DEFINE w == row[c]  v == Head(plan[c])  data == Data(w, v, copy[c])
<1>t. TypeOK /\ CallerInv(c)
  BY DEF IInv
<1>1. /\ pc[c] = "write" /\ w /= Nothing /\ v \in SUBSET w.bits
      /\ Content' \ Own = data \ Own
      /\ locked' = IF Verified(c) THEN c ELSE locked
      /\ copy' = [copy EXCEPT ![c] = data]
      /\ pc' = [pc EXCEPT ![c] = "readback"]
      /\ UNCHANGED <<setting, row, plan>>
  BY WriteEffect
<1>2. Own' = Own /\ pc'[c] = "readback" /\ copy'[c] = data
  BY <1>t, <1>1 DEF Own, TypeOK
<1>3. PlanInv(c)'
  BY <1>t, <1>1, <1>2 DEF CallerInv, PlanInv, Resets
<1>4. LockInv(c)'
  BY <1>t, <1>1, <1>2 DEF CallerInv, LockInv, Verified
<1>5. CopyInv(c)'
  BY <1>1, <1>2 DEF CopyInv
<1>6. CompareInv(c)'
  BY <1>1, <1>2 DEF CompareInv, Flipped
<1>7. ResetInv(c)'
  <2>1. SUFFICES ASSUME Resets(c), Len(plan[c]) = 1
                 PROVE  Content' \cap w.bits = {}
    BY <1>1, <1>2 DEF ResetInv, Resets
  <2>2. plan[c] \in Seq(SUBSET w.bits) /\ plan[c] /= <<>> /\ plan[c][Len(plan[c])] = {}
    BY <1>t, <1>1, <2>1 DEF CallerInv, PlanInv
  <2>3. v = {}
    BY <2>1, <2>2, PlanTail
  <2>4. w.inverts = {} /\ w.bits \cap Own = {}
    BY <1>1, <2>1, Writer DEF ResetFits, Resets, Own
  <2>5. \A k \in w.bits : k \notin data
    BY <1>1, <2>3, <2>4, DataIs
  <2> HIDE DEF data
  <2> QED BY <1>1, <2>4, <2>5
<1>8. RefusedInv(c)'
  BY <1>2 DEF RefusedInv
<1> QED BY <1>3, <1>4, <1>5, <1>6, <1>7, <1>8 DEF CallerInv

LEMMA WriteOther ==
  ASSUME IInv, NEW c \in Callers, Write(c), NEW d \in Callers \ {c}
  PROVE  CallerInv(d)'
<1> DEFINE w == row[c]  v == Head(plan[c])  data == Data(w, v, copy[c])
<1>t. TypeOK /\ CallerInv(c) /\ CallerInv(d)
  BY DEF IInv
<1>1. /\ pc[c] = "write" /\ MayWrite(c) /\ w /= Nothing /\ v \in SUBSET w.bits
      /\ Content' \ Own = data \ Own
      /\ lost' = (lost \/ (w.keeps /\ stale[c]))
      /\ locked' = IF Verified(c) THEN c ELSE locked
      /\ copy' = [copy EXCEPT ![c] = data]
      /\ pc' = [pc EXCEPT ![c] = "readback"]
      /\ UNCHANGED <<setting, row, plan>>
  BY WriteEffect
<1>2. Own' = Own /\ pc'[d] = pc[d] /\ copy'[d] = copy[d]
  BY <1>1, <1>t DEF Own, TypeOK
<1>3. Register(w) = setting.home /\ w.inverts \subseteq w.bits
  BY <1>1, Writer DEF WriterFits
<1>4. pc[d] \in {"write", "readback"} => row[d] /= Nothing /\ Register(row[d]) = setting.home
  BY <1>t, Writer DEF CallerInv, PlanInv, WriterFits
<1>5. PlanInv(d)'
  BY <1>t, <1>1, <1>2 DEF CallerInv, PlanInv, Resets
<1>6. LockInv(d)'
  BY <1>t, <1>1, <1>2 DEF CallerInv, LockInv, Verified, MayWrite, Callers
<1>7. CopyInv(d)'
  <2>1. stale'[d] = (stale[d] \/ (Register(row[d]) = Register(w) /\ pc[d] \in {"write", "readback"}))
    BY DEF Write, MarkStale
  <2> QED BY <2>1, <1>1, <1>2, <1>3, <1>4 DEF CopyInv
<1>8. CompareInv(d)'
  <2>1. pc[d] = "readback" /\ Verified(d) => Verified(c) /\ locked = d
    BY <1>3, <1>4, <1>t DEF Verified, Register, CallerInv, LockInv
  <2> QED BY <2>1, <1>1, <1>2 DEF CompareInv, Verified, MayWrite, Callers
<1>9. ResetInv(d)'
  <2>1. SUFFICES ASSUME Resets(d), ~lost', row[c].bits \cap row[d].bits = {},
                        Content \cap row[d].bits = {}
                 PROVE  Content' \cap row[d].bits = {}
    BY <1>t, <1>1, <1>2 DEF CallerInv, ResetInv, Resets
  <2>2. row[d] /= Nothing
    BY <2>1, NothingIs DEF Resets
  <2>3. row[d].bits \cap Own = {}
    BY <2>1, <2>2, Writer DEF ResetFits, Resets, Own
  <2>4. w.keeps => copy[c] \ Own = Content \ Own
    BY <2>1, <1>1, <1>t DEF CallerInv, CopyInv
  <2>5. \A k : k \in data /\ k \notin w.bits => w.keeps /\ k \in copy[c]
    BY <1>1, <1>3, DataIs
  <2> HIDE DEF data
  <2> QED BY <1>1, <2>1, <2>3, <2>4, <2>5
<1>10. RefusedInv(d)'
  BY <1>t, <1>1, <1>2 DEF CallerInv, RefusedInv
<1> QED BY <1>5, <1>6, <1>7, <1>8, <1>9, <1>10 DEF CallerInv

LEMMA WriteStep ==
  ASSUME IInv, NEW c \in Callers, Write(c)
  PROVE  IInv'
<1>t. TypeOK /\ DOMAIN plan = Callers /\ Fit /\ setting.bits \subseteq Word
  BY DEF IInv, Fit, SettingFits
<1>1. /\ Data(row[c], Head(plan[c]), copy[c]) \subseteq Word
      /\ DOMAIN word' = {setting.home} /\ Content' \subseteq Word
      /\ lost' = (lost \/ (row[c].keeps /\ stale[c]))
      /\ locked' = IF Verified(c) THEN c ELSE locked
      /\ copy' = [copy EXCEPT ![c] = Data(row[c], Head(plan[c]), copy[c])]
      /\ pc' = [pc EXCEPT ![c] = "readback"]
      /\ UNCHANGED <<setting, row, plan, moved, fails>>
  BY WriteEffect
<1>2. ValueInv' /\ wanted' \subseteq setting.bits
  BY WriteValue
<1>3. stale' \in [Callers -> BOOLEAN]
  BY <1>t DEF Write, MarkStale, TypeOK
<1>4. lost' \in BOOLEAN
  BY <1>1
<1>5. copy' \in [Callers -> SUBSET Word]
  BY <1>1, <1>t DEF TypeOK
<1>6. TypeOK'
  BY <1>1, <1>2, <1>3, <1>4, <1>5, <1>t DEF TypeOK, Content
<1>7. \A d \in Callers : CallerInv(d)'
  BY WriteOwn, WriteOther
<1> QED BY <1>t, <1>1, <1>2, <1>6, <1>7 DEF IInv, Fit

-----------------------------------------------------------------------------
(* The steps of the card.                                                  *)

\* The register changes and every copy of it that may be written back is marked.
LEMMA CardStep ==
  ASSUME IInv, UNCHANGED <<setting, row, plan, pc, copy, locked, lost>>,
         MarkStale(setting.home, 0), NEW d \in Callers,
         \A k : k \notin Own /\ k \in Content' => k \in Content
  PROVE  /\ PlanInv(d)' /\ LockInv(d)' /\ CopyInv(d)' /\ ResetInv(d)' /\ RefusedInv(d)'
         /\ stale' \in [Callers -> BOOLEAN]
<1>t. TypeOK /\ CallerInv(d) /\ Own' = Own
  BY DEF IInv, Own
<1>1. PlanInv(d)'
  BY <1>t DEF CallerInv, PlanInv, Resets
<1>2. LockInv(d)'
  BY <1>t DEF CallerInv, LockInv, Verified
<1>3. CopyInv(d)'
  <2>1. pc[d] \in {"write", "readback"} => row[d] /= Nothing /\ Register(row[d]) = setting.home
    BY <1>t, Writer DEF CallerInv, PlanInv, WriterFits
  <2>2. stale'[d] = (stale[d] \/ (Register(row[d]) = setting.home /\ pc[d] \in {"write", "readback"}))
    <3>1. d /= 0
      BY DEF Callers
    <3> QED BY <3>1 DEF MarkStale
  <2> QED BY <2>1, <2>2 DEF CopyInv
<1>4. ResetInv(d)'
  <2>1. SUFFICES ASSUME Resets(d), Content \cap row[d].bits = {}
                 PROVE  Content' \cap row[d].bits = {}
    BY <1>t DEF CallerInv, ResetInv, Resets
  <2>2. row[d] /= Nothing
    BY <2>1, NothingIs DEF Resets
  <2>3. row[d].bits \cap Own = {}
    BY <2>1, <2>2, Writer DEF ResetFits, Resets, Own
  <2> QED BY <2>1, <2>3
<1>5. RefusedInv(d)'
  BY <1>t DEF CallerInv, RefusedInv
<1>6. stale' \in [Callers -> BOOLEAN]
  BY <1>t DEF MarkStale, TypeOK
<1> QED BY <1>1, <1>2, <1>3, <1>4, <1>5, <1>6

LEMMA SelfClearStep ==
  ASSUME IInv, SelfClear
  PROVE  IInv'
<1>t. /\ TypeOK /\ Fit /\ DOMAIN word = {setting.home} /\ DOMAIN plan = Callers
      /\ wanted \subseteq setting.bits /\ ValueInv
      /\ setting.inverts \subseteq setting.bits
      /\ setting.home[1] = "Control" => setting.inverts \cap SelfClearing = {}
  BY DEF IInv, Fit, SettingFits
<1>1. /\ setting.home = <<"Control", NoLink>>
      /\ word' = [word EXCEPT ![setting.home] = @ \ SelfClearing]
      /\ wanted' = wanted \ (SelfClearing \cap setting.bits)
      /\ MarkStale(setting.home, 0)
      /\ UNCHANGED <<setting, row, plan, pc, copy, locked, lost, moved, fails>>
  BY <1>t DEF SelfClear, accessVars
<1>2. DOMAIN word' = {setting.home} /\ Content' = Content \ SelfClearing
  BY <1>1, <1>t DEF Content
<1>3. ASSUME NEW d \in Callers
      PROVE  CallerInv(d)' /\ stale' \in [Callers -> BOOLEAN]
  <2>1. /\ PlanInv(d)' /\ LockInv(d)' /\ CopyInv(d)' /\ ResetInv(d)' /\ RefusedInv(d)'
        /\ stale' \in [Callers -> BOOLEAN]
    BY <1>1, <1>2, CardStep
  <2>2. CompareInv(d)'
    <3>1. CompareInv(d) /\ Own' = Own
      BY <1>1 DEF IInv, CallerInv, Own
    <3>2. Compared(setting.home, copy[d]) = IF 0 \in copy[d] THEN {} ELSE 0 .. 30
      BY <1>1 DEF Compared
    <3> QED BY <3>1, <3>2, <1>1, <1>2 DEF CompareInv, Verified, Flipped, SelfClearing
  <2> QED BY <2>1, <2>2 DEF CallerInv
<1>4. ValueInv'
  BY <1>t, <1>1, <1>2 DEF ValueInv, Shows, Flipped
<1>5. wanted' \subseteq setting.bits
  BY <1>t, <1>1
<1>6. TypeOK'
  BY <1>t, <1>1, <1>2, <1>3 DEF TypeOK, Content, Callers
<1> QED BY <1>t, <1>1, <1>2, <1>3, <1>4, <1>5, <1>6 DEF IInv, Fit

LEMMA MoveStep ==
  ASSUME IInv, Move
  PROVE  IInv'
<1>t. /\ TypeOK /\ Fit /\ DOMAIN word = {setting.home} /\ DOMAIN plan = Callers
      /\ wanted \subseteq setting.bits /\ ValueInv
      /\ setting.inverts \subseteq setting.bits /\ Own \subseteq Word
  BY DEF IInv, Fit, SettingFits, Own
<1>1. PICK bits \in {Own \cap setting.bits, Own \ setting.bits} :
        /\ word' = [word EXCEPT ![setting.home] = Flipped(@, bits)]
        /\ wanted' = Flipped(wanted, bits \cap setting.bits)
        /\ MarkStale(setting.home, 0)
        /\ moved' = TRUE
        /\ UNCHANGED <<setting, row, plan, pc, copy, locked, lost, fails>>
  BY <1>t DEF Move, Own, accessVars
<1>2. DOMAIN word' = {setting.home} /\ Content' = Flipped(Content, bits) /\ bits \subseteq Own
  BY <1>1, <1>t DEF Content
<1>3. ASSUME NEW d \in Callers
      PROVE  CallerInv(d)' /\ stale' \in [Callers -> BOOLEAN]
  <2>1. /\ PlanInv(d)' /\ LockInv(d)' /\ CopyInv(d)' /\ ResetInv(d)' /\ RefusedInv(d)'
        /\ stale' \in [Callers -> BOOLEAN]
    BY <1>1, <1>2, CardStep DEF Flipped
  <2>2. CompareInv(d)'
    <3>1. CompareInv(d) /\ Own' = Own
      BY <1>1 DEF IInv, CallerInv, Own
    <3> QED BY <3>1, <1>1, <1>2 DEF CompareInv, Verified, Flipped
  <2> QED BY <2>1, <2>2 DEF CallerInv
<1>4. ValueInv'
  BY <1>t, <1>1, <1>2 DEF ValueInv, Shows, Flipped
<1>5. wanted' \subseteq setting.bits
  BY <1>t, <1>1 DEF Flipped
<1>6. TypeOK'
  BY <1>t, <1>1, <1>2, <1>3, <1>5 DEF TypeOK, Content, Callers, Flipped
<1> QED BY <1>t, <1>1, <1>2, <1>3, <1>4, <1>5, <1>6 DEF IInv, Fit

-----------------------------------------------------------------------------
(* The theorems.                                                           *)

LEMMA StepInv ==
  ASSUME IInv, [Next]_vars
  PROVE  IInv'
<1>1. ASSUME NEW c \in Callers, SkipWrites(c) \/ Read(c) \/ Write(c) \/ ReadBack(c)
                                   \/ AnswerLost(c) \/ Fail(c)
      PROVE  IInv'
  BY <1>1, SkipStep, AnswerLostStep, ReadStep, WriteStep, ReadBackStep, FailStep
<1>2. CASE SelfClear
  BY <1>2, SelfClearStep
<1>3. CASE Move
  BY <1>3, MoveStep
<1>4. CASE UNCHANGED vars
  <2>1. UNCHANGED <<setting, row, plan, pc, copy, stale, word, wanted, locked, lost, moved, fails>>
    BY <1>4 DEF vars, accessVars
  <2>2. Content' = Content
    BY <2>1 DEF Content
  <2>3. \A d \in Callers : CallerInv(d)'
    BY <2>1, <2>2, Bystander
  <2>4. TypeOK' /\ DOMAIN plan' = Callers
    BY <2>1 DEF IInv, TypeOK
  <2> QED BY <2>1, <2>3, <2>4, RegisterAlone
<1> QED BY <1>1, <1>2, <1>3, <1>4 DEF Next

\* The invariant holds for every set of links and settings whose rows fit, and for any
\* number of accesses that fail: two accessors of a register, each WriteRegister_ of
\* CFOandDTC_Registers.cpp, keep setting, register, copies and lock in order.
THEOREM Invariance ==
  ASSUME TablesFit
  PROVE  Spec => []IInv
BY InitInv, StepInv, PTL DEF Spec

\* Every getter and every dump shows the value that was asked for last, whatever the
\* other caller wrote to the register, unless a stale word was written back
\* (SetBit_ of CFOandDTC_Registers.cpp reads, changes and writes without a lock).
THEOREM Agreement ==
  ASSUME TablesFit
  PROVE  Spec => []ReadersAgree
<1>1. IInv => ReadersAgree
  BY DEF IInv, ValueInv, ReadersAgree, Fit, SettingFits, Shows, Content
<1> QED BY <1>1, Invariance, PTL

\* The driver's ReadbackLock is what it takes: a read back that differs from what was
\* written differs in bits that the card changes by itself.
THEOREM NotRefusedByOther ==
  ASSUME TablesFit
  PROVE  Spec => []RefusedOnlyByCard
<1>1. ASSUME IInv, NEW c \in Callers, pc[c] = "refused"
      PROVE  setting.card_bits[Register(row[c])] \cap Compared(Register(row[c]), {}) /= {}
  <2>1. PlanInv(c) /\ RefusedInv(c)
    BY <1>1 DEF IInv, CallerInv
  <2>2. Register(row[c]) = setting.home
    BY <1>1, <2>1, Writer DEF PlanInv, WriterFits
  <2> QED BY <1>1, <2>1, <2>2 DEF RefusedInv, Own
<1>2. IInv => RefusedOnlyByCard
  BY <1>1 DEF RefusedOnlyByCard
<1> QED BY <1>2, Invariance, PTL

\* A reset that was not interrupted leaves its bits released, whatever the other
\* caller wrote next to them meanwhile.
THEOREM Released ==
  ASSUME TablesFit
  PROVE  Spec => []ResetsReleased
<1>1. ASSUME IInv, NEW c \in Callers, Resets(c), pc[c] = "done", ~lost,
             \A d \in Callers \ {c} : row[d].bits \cap row[c].bits = {}
      PROVE  word[Register(row[c])] \cap row[c].bits = {}
  <2>1. row[c] /= Nothing
    BY <1>1, NothingIs DEF Resets
  <2>2. Register(row[c]) = setting.home
    BY <1>1, <2>1, Writer DEF WriterFits
  <2> QED BY <1>1, <2>2 DEF IInv, CallerInv, ResetInv, Content
<1>2. IInv => ResetsReleased
  BY <1>1 DEF ResetsReleased
<1> QED BY <1>2, Invariance, PTL
=============================================================================
