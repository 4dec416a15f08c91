------------------------------- MODULE MLink -------------------------------
(***************************************************************************)
(* M-Link datagrams (tqdc/src/mlink.rs) and the registers of the board     *)
(* (tqdc/src/regs.rs): what new_ctrl_req and to_datagram send, and how     *)
(* from_datagram and the loop of extract_regs read a datagram.             *)
(*                                                                         *)
(* A datagram is its type, the length its header gives (in words of four   *)
(* bytes, header and CRC included) and the words after the header.  The    *)
(* first word of a stream frame has the length of its payload as value.    *)
(* The CRC is a constant word that nobody checks.                          *)
(***************************************************************************)
EXTENDS Integers, Sequences, FiniteSets, SequencesExt

CONSTANTS
    ValueModulus,   \* a word holds a value of 16 bits: 2^16
    LenModulus,     \* and so does the length in a header: 2^16
    Lists,          \* the lists of registers the program may write
    Inputs          \* the other datagrams from_datagram may be given

-----------------------------------------------------------------------------
(* Registers *)

Register16 == {\h42, \h40, \h61, \h100, \h108, \h107, \h304, \h306, \h305, \h4200, \h4201,
               \h62, \h64, \h65}

Register32 == {\h68, \h60, \h102, \h104, \h69E, \h200, \h202, \h226, \h66, \hA11}

Address == 0 .. \h7FFF

\* (word >> 31) == 1, (word >> 16) & 0x7FFF, word & 0xFFFF
Word == [read : BOOLEAN, address : Address, value : 0 .. ValueModulus - 1]

CtrlReg == [width : {16}, read : BOOLEAN, address : Register16,
            value : 0 .. ValueModulus - 1]
      \cup [width : {32}, read : BOOLEAN, address : Register32,
            value : 0 .. ValueModulus * ValueModulus - 1]

\* write_regs: a register of 32 bits takes two words, the low half first.
WordsOf(reg) ==
    LET word(address, value) == [read |-> reg.read, address |-> address, value |-> value]
    IN  IF reg.width = 16 THEN <<word(reg.address, reg.value)>>
        ELSE <<word(reg.address, reg.value % ValueModulus),
               word(reg.address + 1, reg.value \div ValueModulus)>>

WordsOfAll(regs) == FlattenSeq([k \in 1 .. Len(regs) |-> WordsOf(regs[k])])

-----------------------------------------------------------------------------
(* Datagrams *)

\* "unknown" stands for a header that does not parse: too short, or of another
\* type or without the sync word.
Type == {"CtrlReq", "CtrlAck", "Stream", "unknown"}
Datagram == [type : Type, len : 0 .. LenModulus - 1, words : Seq(Word)]

HeaderWords == 3

\* 0x49, 0x62, 0x20, 0x12
CRC == [read |-> FALSE, address |-> \h1220, value |-> \h6249 % ValueModulus]

\* The words a list is written to.
WordCount(regs) == Len(regs) + Cardinality({k \in 1 .. Len(regs) : regs[k].width = 32})

\* Mutant: every register counts as one word.
RegsLenFlat(regs) == Len(regs) % LenModulus

\* calculate_regs_len, which cannot be given an empty list: a sum of 16 bits.
RegsLen(regs) == WordCount(regs) % LenModulus

\* new_ctrl_req and new_ctrl_acq, then to_datagram.
ToDatagram(type, regs) ==
    [type |-> type, len |-> (3 + RegsLen(regs) + 1) % LenModulus,
     words |-> WordsOfAll(regs) \o <<CRC>>]

-----------------------------------------------------------------------------
(* from_datagram *)

VARIABLES
    overflow_checks, \* TRUE: a debug build
    sent,       \* the list the datagram was built from; <<>>: it came from elsewhere
    datagram,   \* the argument
    data,       \* the slice after the header
    offset,     \* the words of data the loop of extract_regs has read
    regs,
    result      \* "slicing", "reading", "ok" or "panic"

vars == <<overflow_checks, sent, datagram, data, offset, regs, result>>

\* The sum, the length and the capacity of the buffer, header.len * 4, are all of
\* 16 bits: a debug build panics when the capacity is not.
BuildPanics(list) == overflow_checks /\ 4 * (3 + WordCount(list) + 1) >= LenModulus

ASSUME InputsAssumption ==
    /\ {ValueModulus, LenModulus} \subseteq Nat \ {0}
    /\ Lists \subseteq Seq(CtrlReg) \ {<<>>}
    /\ Inputs \subseteq Datagram

Init ==
    /\ overflow_checks \in BOOLEAN
    /\ \/ sent = <<>> /\ datagram \in Inputs /\ result = "slicing"
       \/ /\ sent \in Lists
          /\ datagram \in {ToDatagram(type, sent) : type \in {"CtrlReq", "CtrlAck"}}
          /\ result = IF BuildPanics(sent) THEN "panic" ELSE "slicing"
    /\ data = <<>>
    /\ offset = 0
    /\ regs = <<>>

\* The slice the header's length gives, or a panic if the header does not parse or
\* the slice ends before it starts or after the datagram.
Slice ==
    /\ result = "slicing"
    /\ LET size == datagram.len - HeaderWords
       IN  IF datagram.type # "unknown" /\ size \in 0 .. Len(datagram.words)
           THEN data' = SubSeq(datagram.words, 1, size) /\ result' = "reading"
           ELSE result' = "panic" /\ UNCHANGED data
    /\ UNCHANGED <<overflow_checks, sent, datagram, offset, regs>>

\* A stream frame: two words of header, and as many bytes as its length says.
ReadFragment ==
    /\ result = "reading" /\ datagram.type = "Stream"
    /\ result' = IF Len(data) >= 2 /\ 8 + data[1].value <= 4 * Len(data)
                 THEN "ok" ELSE "panic"
    /\ UNCHANGED <<overflow_checks, sent, datagram, data, offset, regs>>

\* extract_regs stops before the last word.
MoreRegs ==
    /\ result = "reading" /\ datagram.type # "Stream"
    /\ offset < Len(data) - 1

First == data[offset + 1]
Second == data[offset + 2]

\* Mutant: the address of the second half is not looked at.
SecondFitsAnywhere ==
    /\ offset + 2 <= Len(data) - 1
    /\ Second.read = First.read

\* The second half follows, before the last word and with the next address.
SecondFits ==
    /\ offset + 2 <= Len(data) - 1
    /\ Second.read = First.read
    /\ Second.address = First.address + 1

ReadReg32 ==
    /\ MoreRegs
    /\ First.address \in Register32
    /\ IF SecondFits
       THEN /\ regs' = Append(regs, [width |-> 32, read |-> First.read,
                                     address |-> First.address,
                                     value |-> Second.value * ValueModulus + First.value])
            /\ offset' = offset + 2
            /\ UNCHANGED result
       ELSE result' = "panic" /\ UNCHANGED <<regs, offset>>
    /\ UNCHANGED <<overflow_checks, sent, datagram, data>>

ReadReg16 ==
    /\ MoreRegs
    /\ First.address \notin Register32
    /\ IF First.address \in Register16
       THEN /\ regs' = Append(regs, [width |-> 16, read |-> First.read,
                                     address |-> First.address, value |-> First.value])
            /\ offset' = offset + 1
            /\ UNCHANGED result
       ELSE result' = "panic" /\ UNCHANGED <<regs, offset>>
    /\ UNCHANGED <<overflow_checks, sent, datagram, data>>

\* data.len() - 4 underflows on an empty slice: a debug build panics there, and a
\* release build when it reads the first word.
ReadAll ==
    /\ result = "reading" /\ datagram.type # "Stream"
    /\ offset >= Len(data) - 1
    /\ result' = IF data = <<>> THEN "panic" ELSE "ok"
    /\ UNCHANGED <<overflow_checks, sent, datagram, data, offset, regs>>

Returned == result \in {"ok", "panic"} /\ UNCHANGED vars

Next == Slice \/ ReadFragment \/ ReadReg32 \/ ReadReg16 \/ ReadAll \/ Returned

Spec == Init /\ [][Next]_vars

-----------------------------------------------------------------------------
(* Properties *)

\* What was read from any list of words is what would be written for it: written
\* again, the registers give the very words before the last, so that none was
\* skipped, taken twice or put together with a half of another.
ReadIsWritten ==
    result = "ok" /\ datagram.type # "Stream" =>
        WordsOfAll(regs) = SubSeq(data, 1, Len(data) - 1)

\* The length of the header holds that of the datagram; in a debug build the
\* capacity of the buffer does, too.
Fits(list) ==
    LET len == 3 + Len(WordsOfAll(list)) + 1
    IN  len < LenModulus /\ (overflow_checks => 4 * len < LenModulus)

\* A list of registers is read back as it was written if, and only if, it fits:
\* then the length the constructors give is the one the parser needs.  A list
\* that does not is never taken for the whole of it.
OwnReadBack ==
    sent # <<>> /\ result \in {"ok", "panic"} =>
        ((result = "ok" /\ regs = sent) <=> Fits(sent))

\* mlink.rs:176: "! data should not contain header and crc".  extract_regs given
\* the words of a list of registers and nothing else returns the list.
ReadsWithoutCrc ==
    \A list \in Lists :
        /\ datagram.type = "CtrlAck"
        /\ data = WordsOfAll(list)
        /\ result \in {"ok", "panic"}
        => result = "ok" /\ regs = list
=============================================================================
