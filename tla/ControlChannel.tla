--------------------------- MODULE ControlChannel ---------------------------
(***************************************************************************)
(* The blocks of a P25 control channel (trunking.rs): identifier updates   *)
(* and voice grants, twelve octets each after a synchronisation word.  No  *)
(* block's CRC is looked at.  Of an identifier's base frequency, 32 bits   *)
(* wide, the low 30 are read: integers end at 2^31 here, and a base in 5   *)
(* Hz steps has no more (the two above are sent as zero).                  *)
(***************************************************************************)
EXTENDS Beacons

P25_SYNC == BitsOf(21877, 16) \o BitsOf(62975, 16) \o BitsOf(30719, 16)  \* 0x5575 F5FF 77FF
TSBK_GRANTS == {0, 2}       \* a grant, a grant update
TSBK_IDEN_UP == 61
BlockBits == 96

(***************************************************************************)
(* What is sent                                                            *)
(***************************************************************************)

EncodeIdenUp(f) ==
    <<f.last, 0>> \o BitsOf(TSBK_IDEN_UP, 6) \o Zeros(4) \o BitsOf(f.identifier, 4)
        \o BitsOf(0, 2) \o BitsOf(f.base, 30) \o BitsOf(f.spacing, 16) \o Zeros(32)
EncodeGrant(f) ==
    <<f.last, f.encrypted>> \o BitsOf(f.opcode, 6) \o <<0, f.encrypted>> \o Zeros(6)
        \o BitsOf(f.talkgroup, 16) \o BitsOf(f.source, 24)
        \o Zeros(4) \o BitsOf(f.channel, 12) \o Zeros(24)
EncodeBlock(f) == IF f.kind = "iden" THEN EncodeIdenUp(f) ELSE EncodeGrant(f)

(***************************************************************************)
(* What is read                                                            *)
(***************************************************************************)

Opcode(block) == Number(SubSeq(block, 3, 8))

ParseIdenUp(block) ==
    LET base == Number(SubSeq(block, 19, 48))
        spacing == Number(SubSeq(block, 49, 64))
    IN  IF Opcode(block) # TSBK_IDEN_UP \/ base = 0 \/ spacing = 0 THEN <<>>
        ELSE <<[kind |-> "iden", last |-> block[1], identifier |-> Number(SubSeq(block, 13, 16)),
                base |-> base, spacing |-> spacing]>>

ParseTsbk(block) ==
    IF Opcode(block) \notin TSBK_GRANTS THEN <<>>
    ELSE <<[kind |-> "grant", last |-> block[1], opcode |-> Opcode(block),
            encrypted |-> IF block[2] = 1 \/ block[10] = 1 THEN 1 ELSE 0,
            talkgroup |-> Number(SubSeq(block, 17, 32)), source |-> Number(SubSeq(block, 33, 56)),
            channel |-> Number(SubSeq(block, 61, 72))]>>

\* From the first synchronisation word, up to a block that is the last or is
\* neither.
ObserveControlChannel(bits) ==
    LET from == Least(Places(bits, P25_SYNC)) + 48
        blocks == IF Places(bits, P25_SYNC) = {} THEN 0 ELSE (Len(bits) - from) \div BlockBits
        block(n) == SubSeq(bits, from + BlockBits * (n - 1) + 1, from + BlockBits * n)
        read(n) == ParseIdenUp(block(n)) \o ParseTsbk(block(n))
        heard[n \in 0..blocks] ==
            IF n = 0 THEN [open |-> TRUE, idens |-> <<>>, grants |-> <<>>]
            ELSE IF ~heard[n - 1].open THEN heard[n - 1]
            ELSE IF read(n) = <<>> THEN [heard[n - 1] EXCEPT !.open = FALSE]
            ELSE [open |-> read(n)[1].last = 0,
                  idens |-> heard[n - 1].idens \o ParseIdenUp(block(n)),
                  grants |-> heard[n - 1].grants \o ParseTsbk(block(n))]
    IN  heard[blocks].idens \o heard[blocks].grants
=============================================================================
