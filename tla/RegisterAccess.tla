--------------------------- MODULE RegisterAccess ---------------------------
(***************************************************************************)
(* Access to the registers of a card by two callers, which may be threads  *)
(* or processes: each performs one accessor of the register tables while   *)
(* one setting of the card is watched.                                     *)
(*                                                                         *)
(* An accessor that writes is WriteRegister_ of CFOandDTC_Registers.cpp    *)
(* around the driver's register ioctl: it reads the register (unless it    *)
(* writes a word of its own), writes, and compares what it reads back.     *)
(* Nothing is locked from the read to the write; the driver holds its      *)
(* ReadbackLock from the write to the read back.                           *)
(***************************************************************************)
EXTENDS CardTables

CONSTANTS
    MaxFails,      \* bound: how many accesses may fail ...
    FailingLinks   \* ... of a setting of one of these links

ASSUME FailsAssumption == MaxFails \in Nat

Callers == {1, 2}

VARIABLES
    setting,   \* the setting that is watched: its rows and its bits
    row,       \* the row that each caller performs
    plan,      \* the values it writes, one after the other
    pc,        \* what it does next
    copy,      \* the word it read or wrote last
    stale,     \* the register changed since
    word,      \* the content of the registers the setting is about
    wanted,    \* the value the setting should have
    locked,    \* the caller that holds ReadbackLock, or 0
    lost,      \* a caller wrote back a stale word
    moved,     \* the card changed bits by itself
    fails      \* accesses that failed

accessVars == <<setting, row>>
vars == <<accessVars, plan, pc, copy, stale, word, wanted, locked, lost, moved, fails>>

----------------------------------------------------------------------------
(* The settings of a table and the bits of a register.                     *)

Register(w) == <<w.reg, w.copy>>
Named(w) == <<w.does, w.link>>

\* A writer that is about its own setting alone.
Alone(w) == w.kind = "write" /\ (~w.group \/ w.acks)

Writers(table, r) == {w \in table : w.kind = "write" /\ Register(w) = r}

\* The settings that are watched have a getter, and a writer of their own if
\* they have a writer at all.
Settings(table) ==
    {Named(w) : w \in {w \in table : w.kind = "read"}}
    \ ({Named(w) : w \in {w \in table : w.kind = "write" /\ ~Alone(w)}}
       \ {Named(w) : w \in {w \in table : Alone(w)}})

\* The bits of a register that the card changes by itself: those that are read
\* and not set, the counters, and the flags that are acknowledged.
CardBits(table, r) ==
    UNION {w.bits : w \in {w \in table : w.kind = "read" /\ Register(w) = r}}
    \ UNION {w.bits : w \in {w \in Writers(table, r) : ~w.counts /\ ~w.acks}}

\* Everything about the setting named s of a card: who reads and writes it, in
\* which register, which bits it has there and which of them are complemented.
About(card, table, s) ==
    LET rows == {w \in table : Named(w) = s}
        own == {w \in rows : Alone(w)}
        main == CHOOSE w \in (IF own = {} THEN {w \in rows : w.kind = "read"} ELSE own) : TRUE
        registers == {Register(w) : w \in rows} IN
    [card |-> card, name |-> s,
     readers |-> {w \in rows : w.kind /= "write"},
     home |-> Register(main),
     bits |-> IF own = {} THEN main.bits ELSE UNION {w.bits : w \in own},
     inverts |-> main.inverts,
     card_bits |-> [r \in registers |-> CardBits(table, r)]]

Flipped(x, bits) == (x \ bits) \cup (bits \ x)

\* The value a reader returns when the register holds the word x.
Shows(g, x) == Flipped(x \cap g.bits, g.inverts)

----------------------------------------------------------------------------
(* Writing and reading back.                                               *)

\* Mutant of Data: the bits around the field are not written back.
FieldAlone(w, v, x) == Flipped(v, w.inverts)

\* The word that an accessor writes as value v when it has read x.
Data(w, v, x) == (IF w.keeps THEN x \ w.bits ELSE {}) \cup Flipped(v, w.inverts)

\* What the register may hold after it: the card keeps its own bits, except
\* that it restarts a counter or clears the flags that are acknowledged.
Stored(w, data, x) ==
    LET own == setting.card_bits[Register(w)] IN
    {(data \ own) \cup (kept \cap own) :
        kept \in IF w.counts THEN {data, {}} ELSE IF w.acks THEN {x, x \ data} ELSE {x}}

\* The bits that are compared with what was written: CFOandDTCVerify for the
\* common registers, VerifyRegisterWrite_ of the card for the others.
Compared(r, data) ==
    CASE r[1] = "Control" -> IF 0 \in data THEN {} ELSE 0 .. 30
      [] r[1] = "FireFlyControlStatus" -> {0, 1, 2, 8, 9, 10}
      [] r[1] = "CFOMarkerEnables" -> 0 .. 5
      [] r = <<"RXCDRUnlockCount", CFOLink>> -> {}
      [] r[1] \in {"JitterAttenuatorLossOfLockCount", "DetEmulation_Control1"} -> {}
      [] r[1] = "JitterAttenuatorCSR" -> {4, 5}
      [] r[1] = "CFOEmulation_EventMode2" -> 0 .. 15
      [] OTHER -> Word

\* Registers that are written without a read back.
Unverified == {"EventModeLookupTable"}

\* The bits of the control register that the card clears after a reset.
SelfClearing == {0, 31}

----------------------------------------------------------------------------
Nothing == [Row("none", "", "", {}) EXCEPT !.writes = {<<>>}]

Begins(w) == IF w.kind = "none" THEN "done" ELSE IF w.keeps THEN "read" ELSE "write"

\* One caller performs a writer of the setting, if it has one, and the other
\* one of any setting in the same register.  The register is clear or all set,
\* but for the control register, which cannot be all set.
Init ==
    /\ \E card \in Cards : \E table \in {Table(card)} : \E s \in Settings(table) :
          /\ setting = About(card, table, s)
          /\ \E own \in LET ws == {w \in table : w.kind = "write" /\ Named(w) = s} IN
                        IF ws = {} THEN {Nothing} ELSE ws,
                other \in {Nothing} \cup Writers(table, setting.home) :
                /\ row = <<own, other>>
                /\ plan \in own.writes \X other.writes
                /\ pc = <<Begins(own), Begins(other)>>
    /\ \E x \in {{}, IF setting.home[1] = "Control" THEN Word \ {14} ELSE Word} :
          /\ word = [r \in DOMAIN setting.card_bits |-> x]
          /\ wanted = Shows(CHOOSE g \in setting.readers : g.kind = "read", x)
    /\ copy = [c \in Callers |-> {}]
    /\ stale = [c \in Callers |-> FALSE]
    /\ locked = 0 /\ lost = FALSE /\ moved = FALSE /\ fails = 0

\* The other caller's copy of a register becomes stale when it changes.
MarkStale(r, c) ==
    stale' = [d \in Callers |-> IF d = c THEN FALSE
                                ELSE stale[d] \/ (Register(row[d]) = r /\ pc[d] \in {"write", "readback"})]

\* SetJitterAttenuatorSelect does nothing when it reads that the attenuator is
\* locked, not in reset, and at the source asked for.
MayBeSkipped(w) == w.does = "JitterAttenuatorSelect"
Skips(c) ==
    LET x == word[Register(row[c])] IN
    MayBeSkipped(row[c]) /\ x \cap {0, 8} = {} /\ x \cap {4, 5} = Head(plan[c])

SkipWrites(c) ==
    /\ pc[c] = "read" /\ Skips(c)
    /\ pc' = [pc EXCEPT ![c] = "done"]
    /\ UNCHANGED <<accessVars, plan, copy, stale, word, wanted, locked, lost, moved, fails>>

\* ReadRegister_: a control register that reads all ones is an error.
Read(c) ==
    /\ pc[c] = "read" /\ ~Skips(c)
    /\ copy' = [copy EXCEPT ![c] = word[Register(row[c])]]
    /\ stale' = [stale EXCEPT ![c] = FALSE]
    /\ pc' = [pc EXCEPT ![c] = IF row[c].reg = "Control" /\ word[Register(row[c])] = Word
                               THEN "failed" ELSE "write"]
    /\ UNCHANGED <<accessVars, plan, word, wanted, locked, lost, moved, fails>>

\* What the setting should be after the caller wrote value v: what was asked,
\* if this is a writer of the setting or sets several on purpose; what the
\* card made of it, if the bits are the card's; and else what it was.
Wanted(c, v, x) ==
    IF row[c].counts \/ row[c].acks
    THEN LET own == setting.card_bits[Register(row[c])] IN
         ((wanted \ own) \cup (Flipped(x, setting.inverts) \cap own)) \cap setting.bits
    ELSE IF Named(row[c]) = setting.name \/ row[c].group
    THEN ((wanted \ row[c].bits) \cup v) \cap setting.bits
    ELSE wanted

Verified(c) == row[c].reg \notin Unverified

\* Mutant of MayWrite: the write is not part of what the lock covers.
MayWriteAlways(c) == TRUE

\* A write that is read back waits for the lock.
MayWrite(c) == Verified(c) => locked = 0

\* The write, under ReadbackLock when it is read back.
Write(c) ==
    LET w == row[c]
        v == Head(plan[c])
        data == Data(w, v, copy[c]) IN
    /\ pc[c] = "write"
    /\ MayWrite(c)
    /\ locked' = IF Verified(c) THEN c ELSE locked
    /\ \E x \in Stored(w, data, word[Register(w)]) :
          /\ word' = [word EXCEPT ![Register(w)] = x]
          /\ wanted' = Wanted(c, v, x)
    /\ lost' = (lost \/ (w.keeps /\ stale[c]))
    /\ copy' = [copy EXCEPT ![c] = data]
    /\ MarkStale(Register(w), c)
    /\ pc' = [pc EXCEPT ![c] = "readback"]
    /\ UNCHANGED <<accessVars, plan, moved, fails>>

Unlocked(c) == IF locked = c THEN 0 ELSE locked

\* The read back: a difference throws, otherwise the accessor goes on with its
\* next value, if it has one, from a second read or from what it wrote.
ReadBack(c) ==
    LET r == Register(row[c])
        same == ~Verified(c) \/ word[r] \cap Compared(r, copy[c])
                                = copy[c] \cap Compared(r, copy[c]) IN
    /\ pc[c] = "readback"
    /\ locked' = Unlocked(c)
    /\ plan' = [plan EXCEPT ![c] = Tail(@)]
    /\ pc' = [pc EXCEPT ![c] =
                 CASE ~same -> "refused"
                   [] same /\ Len(plan[c]) = 1 -> "done"
                   [] same /\ Len(plan[c]) > 1 ->
                        IF row[c].keeps /\ row[c].rereads THEN "read" ELSE "write"]
    /\ UNCHANGED <<accessVars, copy, stale, word, wanted, lost, moved, fails>>

MayFail == fails < MaxFails /\ setting.name[2] \in FailingLinks

\* The write was taken, but its answer does not reach the caller: WriteRegister_
\* writes the same word again, or gives up after the last of its tries.
AnswerLost(c) ==
    /\ pc[c] = "readback" /\ Verified(c)
    /\ MayFail
    /\ fails' = fails + 1
    /\ locked' = Unlocked(c)
    /\ \E then \in {"write", "failed"} : pc' = [pc EXCEPT ![c] = then]
    /\ UNCHANGED <<accessVars, plan, copy, stale, word, wanted, lost, moved>>

\* A register access fails for good, and the accessor throws.
Fail(c) ==
    /\ pc[c] \in {"read", "write"}
    /\ MayFail
    /\ fails' = fails + 1
    /\ pc' = [pc EXCEPT ![c] = "failed"]
    /\ UNCHANGED <<accessVars, plan, copy, stale, word, wanted, locked, lost, moved>>

\* The card clears the reset bits of the control register.
SelfClear ==
    LET r == <<"Control", NoLink>> IN
    /\ r \in DOMAIN word
    /\ word[r] \cap SelfClearing /= {}
    /\ word' = [word EXCEPT ![r] = @ \ SelfClearing]
    /\ wanted' = wanted \ (SelfClearing \cap setting.bits)
    /\ MarkStale(r, 0)
    /\ UNCHANGED <<accessVars, plan, pc, copy, locked, lost, moved, fails>>

\* An event: the card changes bits of its own, those of the setting or others.
Move ==
    \E r \in DOMAIN word :
      \E bits \in {setting.card_bits[r] \cap setting.bits, setting.card_bits[r] \ setting.bits} \ {{}} :
        /\ ~moved
        /\ moved' = TRUE
        /\ word' = [word EXCEPT ![r] = Flipped(@, bits)]
        /\ wanted' = IF r = setting.home THEN Flipped(wanted, bits \cap setting.bits) ELSE wanted
        /\ MarkStale(r, 0)
        /\ UNCHANGED <<accessVars, plan, pc, copy, locked, lost, fails>>

\* The behaviour ends when both callers are done.
Next ==
    \/ \E c \in Callers : SkipWrites(c) \/ Read(c) \/ Write(c) \/ ReadBack(c) \/ AnswerLost(c) \/ Fail(c)
    \/ SelfClear
    \/ Move

Spec == Init /\ [][Next]_vars

----------------------------------------------------------------------------
TypeOK ==
    /\ setting.card \in Cards /\ setting.home \in DOMAIN word
    /\ pc \in [Callers -> {"read", "write", "readback", "done", "refused", "failed"}]
    /\ copy \in [Callers -> SUBSET Word] /\ stale \in [Callers -> BOOLEAN]
    /\ \A r \in DOMAIN word : word[r] \subseteq Word
    /\ wanted \subseteq Word /\ locked \in {0} \cup Callers
    /\ lost \in BOOLEAN /\ moved \in BOOLEAN /\ fails \in 0 .. MaxFails

\* Whatever the other caller writes to the same register, every getter and
\* every register dump of a setting shows the value that was asked for last,
\* as long as no caller wrote back a word that it had read too early.
ReadersAgree ==
    lost \/ \A g \in setting.readers : Shows(g, word[Register(g)]) = wanted

\* Two callers that write the same register at once are not told that their
\* write failed: the readback lock separates them.  Only registers in which
\* the card changes bits by itself may read back something else.
RefusedOnlyByCard ==
    \A c \in Callers :
        pc[c] = "refused" => setting.card_bits[Register(row[c])] \cap Compared(Register(row[c]), {}) /= {}

\* The resets are the accessors of one setting that write twice.  The cable
\* delay test does too, and ends with its bit set.
Resets(c) ==
    /\ row[c].kind = "write" /\ ~row[c].group
    /\ \E p \in row[c].writes : Len(p) = 2
    /\ row[c].does /= "CableDelayLoopbackTest"

\* When both callers have ended, a reset is released again, unless its own
\* caller was stopped between the two writes, a stale word asserted it again, or the
\* other caller asserts it on purpose.
ResetsReleased ==
    (\A c \in Callers : pc[c] \in {"done", "refused", "failed"}) =>
        \A c \in Callers :
            Resets(c) /\ pc[c] = "done" /\ ~lost
                /\ (\A d \in Callers \ {c} : row[d].bits \cap row[c].bits = {})
            => word[Register(row[c])] \cap row[c].bits = {}
=============================================================================
