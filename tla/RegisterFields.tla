--------------------------- MODULE RegisterFields ---------------------------
(***************************************************************************)
(* The vocabulary in which the register tables describe the accessors of   *)
(* a card.  Every accessor of the register libraries has one of a few      *)
(* shapes: read a register and return some of its bits, read it, replace   *)
(* some bits and write it back, write a word of its own, or do that twice  *)
(* (a reset that is asserted and released).  A row says which shape an     *)
(* accessor has, on which register and which bits; RegisterAccess says     *)
(* what an accessor of each shape does.                                    *)
(*                                                                         *)
(* The content of a register, and the value of a field of it, is the set   *)
(* of the bit numbers that are 1.  A register is a pair: its name in the   *)
(* address enumeration without the prefix and the link number, and the     *)
(* link (NoLink for a register that is not one of a set of registers).     *)
(***************************************************************************)
EXTENDS Naturals, FiniteSets, Sequences

Word == 0 .. 31

NoLink == 8
ROCLinks == 0 .. 5
CFOLink == 6
EVBLink == 7
CFOAndROCLinks == 0 .. 6
CardLinks == 0 .. 7

\* The w bits from bit lo upward.
Bits(lo, w) == lo .. (lo + w - 1)

\* A value of the given bits that differs from all of them clear and all set.
AnyOf(bits) == {{}, bits, {k \in bits : \A j \in bits : k <= j}}

\* The sequences of values, one per write, of an accessor that writes once.
Once(values) == {<<v>> : v \in values}

Row(kind, n, r, bits) ==
    [kind |-> kind, does |-> n, link |-> NoLink,
     reg |-> r, copy |-> NoLink, bits |-> bits,
     inverts |-> {},        \* the bits the accessor complements
     keeps |-> TRUE,        \* a write keeps the bits it was not asked to change
     rereads |-> TRUE,      \* a second write starts from a second read
     group |-> FALSE,       \* the accessor sets several settings on purpose
     counts |-> FALSE,      \* the register counts events by itself
     acks |-> FALSE,        \* the card may clear the bits that are written as 1
     writes |-> {}]

----------------------------------------------------------------------------
(* Rows that read.                                                         *)

\* bool ReadX(): some bits of the register.
Getter(n, r, bits) == Row("read", n, r, bits)

\* The register dump of X: FormatX creates a formatter that reads a register
\* and hands its value to ReadX.
Shown(n, r, bits) == Row("show", n, r, bits)

\* FormatX for a list of getters, with the register its formatter reads.
Dump(rows, names, r) ==
    {[g EXCEPT !.kind = "show", !.reg = r] :
        g \in {g \in rows : g.kind = "read" /\ g.does \in names}}

\* FormatX for each of the registers of a set of links.
LinkDump(rows, n) ==
    {[g EXCEPT !.kind = "show"] : g \in {g \in rows : g.kind = "read" /\ g.does = n}}

----------------------------------------------------------------------------
(* Rows that write.                                                        *)

\* Read, replace the field by one of the values, write back.
SetterTo(n, r, bits, values) ==
    [Row("write", n, r, bits) EXCEPT !.writes = Once(values)]

\* Mutant of Setter: the field is shifted one bit too far.
SetterShifted(n, r, bits) ==
    LET field == {k + 1 : k \in bits} IN SetterTo(n, r, field, AnyOf(field))

Setter(n, r, bits) == SetterTo(n, r, bits, AnyOf(bits))

\* Write the field and zeroes around it.
Overwriter(n, r, bits) == [Setter(n, r, bits) EXCEPT !.keeps = FALSE]

\* Set several settings of the register in one write, which keeps the other
\* bits, or which gives the whole word.
GroupSetter(n, r, bits) == [Setter(n, r, bits) EXCEPT !.group = TRUE]
Replacer(n, r, bits) == [GroupSetter(n, r, bits) EXCEPT !.keeps = FALSE]

\* Write these words one after the other.
WriteWords(n, r, words) ==
    [Replacer(n, r, Word) EXCEPT !.writes = {words}, !.rereads = FALSE]

\* Mutant of Pulse: the release comes first.
PulseReversed(n, r, bits) ==
    [Row("write", n, r, bits) EXCEPT !.writes = {<<{}, bits>>}]

\* Assert and release: the second write starts from a second read, or, when
\* it is stale, from the word the first write wrote.
Pulse(n, r, bits) ==
    [Row("write", n, r, bits) EXCEPT !.writes = {<<bits, {}>>}]

StalePulse(n, r, bits) == [Pulse(n, r, bits) EXCEPT !.rereads = FALSE]

\* Restart a counter of the card by writing a fixed word to it.
Clear(n, r, word) ==
    [Overwriter(n, r, Word) EXCEPT !.writes = {<<word>>}, !.counts = TRUE]

\* Acknowledge latched flags: read, set the bits, write back; or write a word
\* with only these bits.  What the card does with the bits is its own affair.
Ack(n, r, bits) ==
    [GroupSetter(n, r, bits) EXCEPT !.writes = {<<bits>>}, !.acks = TRUE]

AckAlone(n, r, bits) == [Ack(n, r, bits) EXCEPT !.keeps = FALSE]

----------------------------------------------------------------------------
(* Families of rows.                                                       *)

Field(n, r, bits) == {Getter(n, r, bits), Setter(n, r, bits)}
Flag(n, r, bit) == Field(n, r, {bit})
Status(n, r, bits) == {Getter(n, r, bits), Shown(n, r, bits)}
Setting(n, r, bits) == Status(n, r, bits) \cup {Setter(n, r, bits)}

\* SetX and ReadX of a whole register, and its dump.
WordSetting(n, r) ==
    Status(n, r, Word) \cup {Overwriter(n, r, Word)}

\* ReadX and ClearX of a counter, ClearX writes the given word; with FormatX.
Cleared(n, r, word) == {Getter(n, r, Word), Clear(n, r, word)}
Counter(n, r, word) == Status(n, r, Word) \cup {Clear(n, r, word)}

\* The bits of a field that the accessors complement.
Inverted(rows, bits) == {[w EXCEPT !.inverts = bits] : w \in rows}

\* One register for all links: the rows F(l) are the accessors called with l.
PerLink(links, F(_)) ==
    UNION {{[w EXCEPT !.link = l] : w \in F(l)} : l \in links}

\* One register for each link, chosen by the accessor's switch on the link.
EachLink(links, rows) ==
    UNION {{[w EXCEPT !.link = l, !.copy = l] : w \in rows} : l \in links}
=============================================================================
