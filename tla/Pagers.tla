------------------------------- MODULE Pagers -------------------------------
(***************************************************************************)
(* The POCSAG decoder (pocsag.rs): hunt for the synchronisation word, cut  *)
(* a batch into codewords, correct up to two bits of each, and put pages   *)
(* together from an address and the data words after it.  A codeword is    *)
(* its 32 bits, the first on the air first; a batch has WordsPerBatch of   *)
(* them, two to a frame.                                                   *)
(***************************************************************************)
EXTENDS Naturals, Sequences

CONSTANT WordsPerBatch  \* 16

ASSUME PagersAssumption == WordsPerBatch \in Nat \ {0}

Flip(word, places) == [i \in DOMAIN word |-> IF i \in places THEN 1 - word[i] ELSE word[i]]
Weight(word) == LET at[i \in 0 .. Len(word)] == IF i = 0 THEN 0 ELSE at[i - 1] + word[i]
                IN at[Len(word)]
Sum(a, b) == [i \in DOMAIN a |-> (a[i] + b[i]) % 2]
Distance(a, b) == Weight(Sum(a, b))

(* Hexadecimal constants, as words.                                        *)
WordOf(high, low) ==
    [i \in 1 .. 32 |-> IF i <= 16 THEN (high \div 2 ^ (16 - i)) % 2
                                  ELSE (low \div 2 ^ (32 - i)) % 2]
SYNC_CODEWORD == WordOf(31954, 5592)   \* 0x7CD2 15D8
IDLE_CODEWORD == WordOf(31369, 49559)  \* 0x7A89 C197
BCH_GENERATOR == <<1, 1, 1, 0, 1, 1, 0, 1, 0, 0, 1>>  \* 0x769

-----------------------------------------------------------------------------
(* BCH(31,21): long division of the first 31 bits, then even parity.       *)
BchRemainder(bits) ==
    LET subtract(v, i) == SubSeq(v, 1, i - 1) \o Sum(SubSeq(v, i, i + 10), BCH_GENERATOR)
                                              \o SubSeq(v, i + 11, 31)
        at[i \in 0 .. 21] == IF i = 0 THEN bits
                             ELSE LET v == at[i - 1] IN IF v[i] = 1 THEN subtract(v, i) ELSE v
    IN SubSeq(at[21], 22, 31)

(* What a word lacks to be valid: its remainder, and its parity.  The code *)
(* is linear, so the error of a set of flipped bits is the sum of the      *)
(* errors of its members, whatever the word.                               *)
Syndrome(word) == Append(BchRemainder(SubSeq(word, 1, 31)), Weight(word) % 2)
SingleError == [i \in 1 .. 32 |-> Syndrome([j \in 1 .. 32 |-> IF j = i THEN 1 ELSE 0])]

ValidCodeword(word) == Weight(Syndrome(word)) = 0

(* The flips that make a word valid, fewest first (the code tries them     *)
(* all, one word after the other).                                         *)
Corrections(word) ==
    LET syndrome == Syndrome(word)
        single == { i \in 1 .. 32 : SingleError[i] = syndrome }
        pairs == UNION { LET rest == Sum(syndrome, SingleError[i])
                         IN { {i, j} : j \in { j \in i + 1 .. 32 : SingleError[j] = rest } }
                         : i \in 1 .. 31 }
    IN IF ValidCodeword(word) THEN {{}}
       ELSE IF single /= {} THEN { {i} : i \in single }
       ELSE pairs

EncodeCodeword(data) ==
    LET bch == data \o BchRemainder(data \o [i \in 1 .. 10 |-> 0])
    IN Append(bch, Weight(bch) % 2)

-----------------------------------------------------------------------------
(* A receiver identity is its 18 address bits and its frame, 0 .. 7.       *)
IsAddress(word) == word[1] = 0
AddressWord(ric, function) == EncodeCodeword(<<0>> \o ric.address \o function)
MessageWord(data) == EncodeCodeword(<<1>> \o data)

NoPage == [frame |-> 99, address |-> <<>>, function |-> <<>>, data |-> <<>>]

NewPocsag ==
    [hunt |-> <<>>, inverted |-> 0, synchronized |-> FALSE, word |-> <<>>, place |-> 0,
     pending |-> NoPage, got |-> <<>>]

(* A page without data is no page.  Its text is decided by function and    *)
(* data; one whose text is empty is left out by the code.                  *)
FinishPending(decoder) ==
    [decoder EXCEPT !.pending = NoPage,
                    !.got = IF decoder.pending.data = <<>> THEN @ ELSE Append(@, decoder.pending)]

ProcessCodeword(decoder, word) ==
    CASE word = IDLE_CODEWORD -> FinishPending(decoder)
      [] word /= IDLE_CODEWORD /\ IsAddress(word) ->
           [FinishPending(decoder) EXCEPT
               !.pending = [frame |-> decoder.place \div 2, address |-> SubSeq(word, 2, 19),
                            function |-> SubSeq(word, 20, 21), data |-> <<>>]]
      [] OTHER ->
           IF decoder.pending = NoPage THEN decoder
           ELSE [decoder EXCEPT !.pending.data = Append(@, SubSeq(word, 2, 21))]

(* A word that cannot be corrected is counted and otherwise ignored: the   *)
(* page that is open stays open.                                           *)
ReceiveCodeword(decoder, raw) ==
    IF Corrections(raw) = {} THEN decoder
    ELSE ProcessCodeword(decoder, Flip(raw, CHOOSE e \in Corrections(raw) : TRUE))

Hunt(decoder, bit) ==
    LET shift == IF Len(decoder.hunt) < 32 THEN Append(decoder.hunt, bit)
                                           ELSE Append(Tail(decoder.hunt), bit)
        normal == Distance(shift, SYNC_CODEWORD)
    IN IF Len(shift) = 32 /\ (normal <= 2 \/ 32 - normal <= 2)
         THEN [decoder EXCEPT !.hunt = <<>>, !.synchronized = TRUE, !.word = <<>>, !.place = 0,
                              !.inverted = IF 32 - normal < normal THEN 1 ELSE 0]
         ELSE [decoder EXCEPT !.hunt = shift]

(* After the last word of a batch the hunt begins anew, with no bits.      *)
NextPlace(decoder) ==
    IF decoder.place + 1 = WordsPerBatch
      THEN [decoder EXCEPT !.place = 0, !.synchronized = FALSE, !.hunt = <<>>]
      ELSE [decoder EXCEPT !.place = @ + 1]

PocsagPushBit(decoder, rawBit) ==
    LET word == Append(decoder.word, (rawBit + decoder.inverted) % 2)
        full == [decoder EXCEPT !.word = <<>>]
    IN IF ~decoder.synchronized THEN Hunt(decoder, rawBit)
       ELSE IF Len(word) < 32 THEN [decoder EXCEPT !.word = word]
       ELSE NextPlace(ReceiveCodeword(full, word))

PocsagFlush(decoder) == FinishPending(decoder)

-----------------------------------------------------------------------------
(* synthesize_alphanumeric_audio: a batch with one page in the frame of    *)
(* its receiver, idle words around it; data that does not fit is cut off.  *)
Batch(page) ==
    LET first == 2 * page.frame + 1
    IN [i \in 1 .. WordsPerBatch |->
          CASE i = first -> AddressWord([address |-> page.address], page.function)
            [] i > first /\ i - first <= Len(page.data) -> MessageWord(page.data[i - first])
            [] OTHER -> IDLE_CODEWORD]
=============================================================================
