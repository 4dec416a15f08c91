------------------------------ MODULE MCMLink ------------------------------
(* Addresses around RunMode (0x60, 32 bits), whose second word has the     *)
(* address of RunState (0x61, 16 bits); 0x62 is a register of 16 bits and  *)
(* 0x63 is none.                                                           *)
EXTENDS MLink

CONSTANTS MaxWords, MaxRegs, MaxCopies

MCWord == [read : BOOLEAN, address : \h60 .. \h63, value : 0 .. ValueModulus - 1]

MCRegs ==
    {r \in CtrlReg : \A k \in DOMAIN WordsOf(r) : WordsOf(r)[k].address \in \h60 .. \h63}

\* Every short list, and long ones of one register.
MCLists == (BoundedSeq(MCRegs, MaxRegs) \ {<<>>})
      \cup {[k \in 1 .. n |-> reg] : reg \in MCRegs, n \in 1 .. MaxCopies}

\* The length of the header is right, or off, or shorter than the header itself.
MCInputs == [type : Type, len : 2 .. HeaderWords + MaxWords + 1,
             words : BoundedSeq(MCWord, MaxWords)]
=============================================================================
