----------------------------- MODULE Telegraphs -----------------------------
(***************************************************************************)
(* The decoders of demod.rs that read text out of a window of audio: Morse *)
(* (decode_cw), Baudot (decode_rtty), SITOR-B (decode_navtex) and the      *)
(* Radio Data System (decode_rds).  The audio is what the detectors make   *)
(* of it: one key state per 5 ms block, one bit per symbol, one chip per   *)
(* half bit.  Every window is decoded on its own.                          *)
(***************************************************************************)
EXTENDS BitFraming, Squitters

CONSTANT DitBlocks  \* 5 ms blocks in a dit as the sender keys it

ASSUME TelegraphsAssumption == DitBlocks \in Nat \ {0}

Repeat(x, n) == [i \in 1..n |-> x]
SpaceSign == "_"

(***************************************************************************)
(* Morse                                                                   *)
(***************************************************************************)

\* The letters of MORSE_TABLE, in dits.
MORSE ==
    [A |-> <<1, 3>>, B |-> <<3, 1, 1, 1>>, C |-> <<3, 1, 3, 1>>, D |-> <<3, 1, 1>>, E |-> <<1>>,
     F |-> <<1, 1, 3, 1>>, G |-> <<3, 3, 1>>, H |-> <<1, 1, 1, 1>>, I |-> <<1, 1>>,
     J |-> <<1, 3, 3, 3>>, K |-> <<3, 1, 3>>, L |-> <<1, 3, 1, 1>>, M |-> <<3, 3>>, N |-> <<3, 1>>,
     O |-> <<3, 3, 3>>, P |-> <<1, 3, 3, 1>>, Q |-> <<3, 3, 1, 3>>, R |-> <<1, 3, 1>>,
     S |-> <<1, 1, 1>>, T |-> <<3>>, U |-> <<1, 1, 3>>, V |-> <<1, 1, 1, 3>>, W |-> <<1, 3, 3>>,
     X |-> <<3, 1, 1, 3>>, Y |-> <<3, 1, 3, 3>>, Z |-> <<3, 3, 1, 1>>]

MorseDecode(pattern) ==
    LET letters == {c \in DOMAIN MORSE : MORSE[c] = pattern}
    IN  IF letters = {} THEN <<>> ELSE <<CHOOSE c \in letters : TRUE>>

\* Key down and up: a dit between marks, three between letters, seven between words.
CwKeyed(sign) ==
    IF sign = SpaceSign THEN Repeat(0, 4 * DitBlocks)
    ELSE Flatten([i \in DOMAIN MORSE[sign] |-> Repeat(1, MORSE[sign][i] * DitBlocks)
                                                 \o Repeat(0, DitBlocks)])
             \o Repeat(0, 2 * DitBlocks)
CwWire(text) == Flatten([i \in DOMAIN text |-> CwKeyed(text[i])])

RunStep(runs, on) ==
    IF runs # <<>> /\ runs[Len(runs)].on = on
    THEN [runs EXCEPT ![Len(runs)].n = @ + 1]
    ELSE Append(runs, [on |-> on, n |-> 1])
Runs(envelope) == After(RunStep, <<>>, envelope)

\* The shortest mark is taken for a dit.
DecodeCw(envelope) ==
    LET runs == Runs(envelope)
        dit == Least({runs[i].n : i \in {i \in DOMAIN runs : runs[i].on = 1}})
        closed(s) == [text |-> s.text \o MorseDecode(s.pattern), pattern |-> <<>>]
        step(s, run) ==
            IF run.on = 1
            THEN [s EXCEPT !.pattern = Append(@, IF run.n >= (dit * 9) \div 4 THEN 3 ELSE 1)]
            ELSE IF run.n >= (dit * 7) \div 2
            THEN [closed(s) EXCEPT !.text = Append(@, SpaceSign)]
            ELSE IF run.n >= (dit * 5) \div 2 THEN closed(s)
            ELSE s
    IN  IF \A i \in DOMAIN envelope : envelope[i] = 0 THEN <<>>
        ELSE closed(After(step, [text |-> <<>>, pattern |-> <<>>], runs)).text

(***************************************************************************)
(* Baudot                                                                  *)
(***************************************************************************)

\* ITA2_LETTERS and ITA2_FIGURES, from code 0 on; "" is not printed.
Letters == <<"", "E", "nl", "A", SpaceSign, "S", "I", "U", "", "D", "R", "J", "N", "F", "C", "K", "T",
             "Z", "L", "W", "H", "Y", "P", "Q", "O", "B", "G", "", "M", "X", "V", "">>
Figures == <<"", "3", "nl", "-", SpaceSign, "'", "8", "7", "", "$", "4", "'", ",", "!", ":", "(", "5",
             "+", ")", "2", "#", "6", "0", "1", "9", "?", "&", "", ".", "/", ";", "">>
FIGS == 27
LTRS == 31

Ita2Push(s, code) ==
    LET sign == (IF s.figures THEN Figures ELSE Letters)[code + 1]
    IN  IF code = FIGS THEN [s EXCEPT !.figures = TRUE]
        ELSE IF code = LTRS THEN [s EXCEPT !.figures = FALSE]
        ELSE IF sign = "" THEN s ELSE [s EXCEPT !.out = Append(@, sign)]
Ita2Text(codes) == After(Ita2Push, [out |-> <<>>, figures |-> FALSE], codes).out

\* The sender shifts when it has to.
Ita2Step(s, sign) ==
    LET among == IF s.figures THEN Figures ELSE Letters
        other == IF s.figures THEN Letters ELSE Figures
        Code(table) == Least({i \in 1..32 : table[i] = sign}) - 1
    IN  IF \E i \in 1..32 : among[i] = sign THEN [s EXCEPT !.codes = Append(@, Code(among))]
        ELSE [codes |-> s.codes \o <<IF s.figures THEN LTRS ELSE FIGS, Code(other)>>,
              figures |-> ~s.figures]
Ita2Codes(text) == After(Ita2Step, [codes |-> <<>>, figures |-> FALSE], text).codes

\* Mark is 1; the line idles on mark, and a stop may last.
RttyWire(text, stops) ==
    LET codes == Ita2Codes(text)
    IN  <<1, 1, 1>> \o Flatten([i \in DOMAIN codes |->
            <<0>> \o [k \in 1..5 |-> (codes[i] \div 2 ^ (k - 1)) % 2] \o Repeat(1, stops)])
        \o <<1, 1>>

\* From mark to space, with a stop where it belongs; the search goes on
\* after the stop, or after the false start.
DecodeRtty(bits) ==
    LET step(s, p) ==
            IF \/ p = 1 \/ p < s.next \/ p + 7 > Len(bits)
               \/ bits[p] = 1 \/ (p # s.next /\ bits[p - 1] = 0)
               \/ bits[p + 6] = 0
            THEN s
            ELSE [codes |-> Append(s.codes, Number([k \in 1..5 |-> bits[p + 6 - k]])),
                  next |-> p + 7]
    IN  Ita2Text(After(step, [codes |-> <<>>, next |-> 0], [p \in 1..Len(bits) |-> p]).codes)

(***************************************************************************)
(* SITOR-B                                                                 *)
(***************************************************************************)

\* ccir476_to_ita2, from ITA2 code 0 on.
CCIR476 == <<106, 86, 108, 71, 92, 75, 77, 78, 120, 83, 85, 23, 89, 27, 29, 30,
             116, 99, 101, 39, 105, 43, 45, 46, 113, 114, 53, 54, 57, 58, 60, 90>>
Ita2Of(word) == {i - 1 : i \in {i \in 1..32 : CCIR476[i] = word}}

\* Each character is sent again five words later, between the others; the
\* sender fills up with blanks.
SitorWords(text) ==
    LET codes == Ita2Codes(text)
        word(k) == CCIR476[IF k \in DOMAIN codes THEN codes[k] + 1 ELSE 1]
    IN  [slot \in 1..(2 * Len(codes) + 5) |->
            IF slot % 2 = 1 THEN word((slot + 1) \div 2) ELSE word((slot - 4) \div 2)]
\* A window need not begin with a character.
SitorBits(words) == Flatten([i \in DOMAIN words |-> BitsOf(words[i], 7)])
SitorWire(text) == Zeros(3) \o SitorBits(SitorWords(text))

\* Polarity, bit order and alignment: the first choice with the most valid words.
SitorRead(bits, inverted, reversed, alignment) ==
    [w \in 1..((Len(bits) - alignment) \div 7) |->
        LET seven == SubSeq(bits, alignment + 7 * w - 6, alignment + 7 * w)
            upright == IF inverted THEN Complement(seven) ELSE seven
        IN  Number(IF reversed THEN [i \in 1..7 |-> upright[8 - i]] ELSE upright)]
ValidWords(words) == Cardinality({w \in DOMAIN words : Ita2Of(words[w]) # {}})

DecodeNavtex(bits) ==
    LET read(n) == SitorRead(bits, n \div 14 = 1, (n \div 7) % 2 = 1, n % 7)
        score == [n \in 0..27 |-> ValidWords(read(n))]
        best == Least({n \in 0..27 : \A m \in 0..27 : score[m] <= score[n]})
        words == read(best)
        kept == {w \in DOMAIN words :
                     /\ Ita2Of(words[w]) # {}
                     /\ w <= 5 \/ words[w - 5] # words[w]}
        step(s, w) == IF w \in kept THEN Ita2Push(s, Least(Ita2Of(words[w]))) ELSE s
    IN  IF score[best] < 2 \/ 2 * score[best] < Len(words) THEN <<>>
        ELSE After(step, [out |-> <<>>, figures |-> FALSE], [w \in 1..Len(words) |-> w]).out

(***************************************************************************)
(* RDS                                                                     *)
(***************************************************************************)

\* Words are sets of exponents, the last bit on the air being 0.
Exponents(bits) == {Len(bits) - i : i \in {i \in DOMAIN bits : bits[i] = 1}}
SymDiff(a, b) == (a \ b) \cup (b \ a)

RDS_OFFSETS == [A |-> {2..7}, B |-> {{3, 4, 7, 8}}, C |-> {{3, 5, 6, 8}, {4, 6, 8, 9}},
                D |-> {{2, 4, 5, 7, 8}}]
RDS_POLY11 == {0, 3, 4, 5, 7, 8, 10}

\* Long division, from the highest of 26 bits down to the tenth.
RdsMod(word) ==
    LET at[e \in 10..26] ==
            IF e = 26 THEN word
            ELSE LET v == at[e + 1]
                 IN  IF e \in v THEN SymDiff(v, {e - 10 + k : k \in RDS_POLY11}) ELSE v
    IN  at[10]

RdsBlock(data, letter) ==
    LET check == SymDiff(RdsMod(Exponents(data \o Zeros(10))),
                         CHOOSE offset \in RDS_OFFSETS[letter] : TRUE)
    IN  data \o [j \in 1..10 |-> IF 10 - j \in check THEN 1 ELSE 0]

\* A group 0A: the programme, its type and two characters of its name.
RdsGroup(f) ==
    RdsBlock(f.pi, "A")
        \o RdsBlock(Zeros(6) \o BitsOf(f.pty, 5) \o Zeros(3) \o BitsOf(f.segment, 2), "B")
        \o RdsBlock(BitsOf(57568, 16), "C")
        \o RdsBlock(f.chars, "D")

\* Differential, then two chips to a bit.
RdsWire(bits) ==
    LET levels == After(LAMBDA out, bit :
                            Append(out, Xor(bit, IF out = <<>> THEN 0 ELSE out[Len(out)])), <<>>, bits)
    IN  Flatten([i \in DOMAIN levels |-> <<levels[i], 1 - levels[i]>>])

RdsBits(chips, offset) ==
    LET symbol(k) == IF chips[offset + 2 * k - 1] = 1 /\ chips[offset + 2 * k] = 0 THEN 1 ELSE 0
        n == (Len(chips) - offset) \div 2
    IN  <<>> \o [k \in 1..(n - 1) |-> Xor(symbol(k), symbol(k + 1))]

BlockIs(bits, p, letter) == RdsMod(Exponents(SubSeq(bits, p + 1, p + 26))) \in RDS_OFFSETS[letter]
GroupAt(bits, p) ==
    /\ BlockIs(bits, p, "A") /\ BlockIs(bits, p + 26, "B")
    /\ BlockIs(bits, p + 52, "C") /\ BlockIs(bits, p + 78, "D")

\* Groups do not overlap; each is what its blocks carry.
RdsGroups(bits) ==
    LET step(s, p) ==
            IF p < s.next \/ ~GroupAt(bits, p) THEN s
            ELSE [groups |-> Append(s.groups,
                      [pi |-> SubSeq(bits, p + 1, p + 16),
                       type |-> Number(SubSeq(bits, p + 27, p + 30)),
                       pty |-> Number(SubSeq(bits, p + 33, p + 37)),
                       segment |-> Number(SubSeq(bits, p + 41, p + 42)),
                       chars |-> SubSeq(bits, p + 79, p + 94)]),
                  next |-> p + 104]
    IN  After(step, [groups |-> <<>>, next |-> 0], [k \in 1..(Len(bits) - 103) |-> k - 1]).groups

\* The programme most groups name, and its name when every segment has come
\* (the last of each counts), in the chips' phase that gives more groups.
RdsMessages(groups) ==
    LET naming(pi) == Cardinality({g \in DOMAIN groups : groups[g].pi = pi})
        pis == {groups[g].pi : g \in DOMAIN groups}
        carrying(s) == {g \in DOMAIN groups : groups[g].type = 0 /\ groups[g].segment = s}
        newest(s) == CHOOSE g \in carrying(s) : \A h \in carrying(s) : h <= g
    IN  IF groups = <<>> THEN <<>>
        ELSE <<CHOOSE pi \in pis : \A other \in pis : naming(other) <= naming(pi)>>
             \o IF \E s \in 0..3 : carrying(s) = {} THEN <<>>
                ELSE <<[s \in 1..4 |-> groups[newest(s - 1)].chars]>>

Longer(early, late) == IF Len(late) > Len(early) THEN late ELSE early
DecodeRds(chips) == RdsMessages(Longer(RdsGroups(RdsBits(chips, 0)), RdsGroups(RdsBits(chips, 1))))
=============================================================================
