------------------------- MODULE RegisterAccessInv -------------------------
(***************************************************************************)
(* The inductive invariant of RegisterAccess.  It has two parts.  What the *)
(* register tables must look like for any two accessors to get along       *)
(* (SettingFits, RowFits) does not change in a behaviour: TLC evaluates it *)
(* on all rows of both cards.  The rest relates the callers' copies, the   *)
(* lock and the register while the accessors run.                          *)
(***************************************************************************)
EXTENDS RegisterAccess

Content == word[setting.home]
Own == setting.card_bits[setting.home]

\* Every getter and every dump of a setting looks at the same bits of the same
\* register and complements the same ones; bits that clear themselves are not
\* complemented.
SettingFits(a) ==
    /\ a.card \in Cards
    /\ DOMAIN a.card_bits = {a.home} /\ a.card_bits[a.home] \subseteq Word
    /\ a.bits \subseteq Word /\ a.inverts \subseteq a.bits
    /\ \E g \in a.readers : g.kind = "read"
    /\ \A g \in a.readers :
          Register(g) = a.home /\ g.bits = a.bits /\ g.inverts = a.inverts
    /\ a.home[1] = "Control" => a.inverts \cap SelfClearing = {}

\* A writer gives the setting a value, other than by an event of the card.
Sets(a, w) == (Named(w) = a.name \/ w.group) /\ ~w.counts /\ ~w.acks

\* A writer of the setting's register.  Bits of the setting that it writes are
\* the card's, or are set on purpose and complemented as in the getter; those
\* that it does not write it keeps, or they are the card's.
WriterFits(a, w) ==
    LET own == a.card_bits[a.home] IN
    /\ w.kind = "write" /\ Register(w) = a.home
    /\ w.bits \subseteq Word /\ w.inverts \subseteq w.bits
    /\ w.writes \subseteq Seq(SUBSET w.bits) \ {<<>>}
    /\ IF Sets(a, w)
       THEN /\ a.bits \cap w.bits \cap own = {}
            /\ w.inverts \cap a.bits = a.inverts \cap w.bits
       ELSE a.bits \cap w.bits \subseteq own
    /\ w.keeps \/ a.bits \subseteq own \cup w.bits

\* A reset is always performed, ends with its bits clear, and the card does not set
\* them.
ResetFits(a, w) ==
    (/\ ~w.group /\ w.does /= "CableDelayLoopbackTest"
     /\ \E p \in w.writes : Len(p) = 2)
    => /\ ~MayBeSkipped(w)
       /\ \A p \in w.writes : p[Len(p)] = {}
       /\ w.inverts = {}
       /\ w.bits \cap a.card_bits[a.home] = {}

RowFits(a, w) == w = Nothing \/ (WriterFits(a, w) /\ ResetFits(a, w))

\* The tables of both cards fit, whatever setting is watched.
TablesFit ==
    \A card \in Cards : \A table \in {Table(card)} : \A s \in Settings(table) :
        LET a == About(card, table, s) IN
        /\ SettingFits(a)
        /\ \A w \in table :
              w.kind = "write" /\ (Named(w) = s \/ Register(w) = a.home) => RowFits(a, w)

----------------------------------------------------------------------------
Fit == SettingFits(setting) /\ \A c \in Callers : RowFits(setting, row[c])

\* A caller on its way has a value left to write, one without a row none; a reset's last value is clear.
PlanInv(c) ==
    /\ plan[c] \in Seq(SUBSET row[c].bits)
    /\ row[c] = Nothing => pc[c] = "done"
    /\ pc[c] \in {"read", "write", "readback"} => plan[c] /= <<>>
    /\ Resets(c) /\ plan[c] /= <<>> => plan[c][Len(plan[c])] = {}

\* The lock is held from a write that is verified to its read back.
LockInv(c) == locked = c <=> pc[c] = "readback" /\ Verified(c)

\* Unless a stale word was written back, the register holds the setting's value.
ValueInv == lost \/ Shows(setting, Content) = wanted

\* Unless it is marked stale, a caller's copy is the register, the card's own
\* bits apart, from the read to the read back.
CopyInv(c) ==
    pc[c] \in {"write", "readback"} /\ row[c].keeps /\ ~stale[c]
        => copy[c] \ Own = Content \ Own

\* What a verified write is compared with differs only where the card moved.
CompareInv(c) ==
    LET checked == Compared(setting.home, copy[c]) IN
    pc[c] = "readback" /\ Verified(c)
        => Flipped(Content \cap checked, copy[c] \cap checked) \subseteq Own

\* After the last write of a reset its bits stay clear.
ResetInv(c) ==
    /\ Resets(c) /\ ~lost
    /\ pc[c] = "done" \/ (pc[c] = "readback" /\ Len(plan[c]) = 1)
    /\ \A d \in Callers \ {c} : row[d].bits \cap row[c].bits = {}
    => Content \cap row[c].bits = {}

RefusedInv(c) ==
    pc[c] = "refused" => Own \cap Compared(setting.home, {}) /= {}

CallerInv(c) ==
    PlanInv(c) /\ LockInv(c) /\ CopyInv(c) /\ CompareInv(c) /\ ResetInv(c) /\ RefusedInv(c)

\* The register, the setting's value and what the callers know of them hang
\* together as the accessors of CFOandDTC_Registers.cpp rely on.
IInv ==
    /\ TypeOK /\ Fit
    /\ DOMAIN word = {setting.home} /\ DOMAIN plan = Callers
    /\ wanted \subseteq setting.bits /\ ValueInv
    /\ \A c \in Callers : CallerInv(c)
=============================================================================
