------------------------ MODULE ScannerSweep_proofs ------------------------
(***************************************************************************)
(* Proofs about the scanner, for any plan, any bank and any limit, in      *)
(* whatever order hits, commands, requests and changes of bank come: the   *)
(* VFO list keeps its ids distinct and its length within cfg.max_vfos, the *)
(* state keeps its type, a running scan keeps a VFO, what was skipped is   *)
(* left alone and the sweep does not walk away from a signal.              *)
(***************************************************************************)
EXTENDS ScannerSweep, TLAPS, WellFoundedInduction, SequenceTheorems

\* A VFO list as the scanner keeps it.  The bound on the ids is what makes the
\* highest id, which the next slot's id is made from, exist.
GoodSlots(v) ==
    /\ v \in Seq({v[i] : i \in DOMAIN v})
    /\ Len(v) <= MaxVfos
    /\ \A i \in DOMAIN v : "id" \in DOMAIN v[i] /\ v[i].id \in Nat
    /\ \A i, j \in DOMAIN v : v[i].id = v[j].id => i = j
    /\ \E b \in Nat : \A i \in DOMAIN v : v[i].id <= b

SlotsInv == "vfos" \in DOMAIN runtime /\ GoodSlots(runtime.vfos)

(***************************************************************************)
(* Sets of numbers and lists of slots.                                     *)
(***************************************************************************)

\* A set of natural numbers that is not empty has a least element.
LEMMA LeastExists ==
    ASSUME NEW S \in SUBSET Nat, S # {}
    PROVE  \E x \in S : \A y \in S : x <= y
  <1>1. PICK x \in S : \A y \in S : ~ (<<y, x>> \in OpToRel(<, Nat))
    BY NatLessThanWellFounded, WFMin, Zenon
  <1>2. ASSUME NEW y \in S PROVE x <= y
    <2>1. ~ (y < x)
      BY <1>1 DEF OpToRel
    <2> QED
      BY <2>1
  <1> QED
    BY <1>2

\* The index a search through a list stops at.
LEMMA FirstIsLeast ==
    ASSUME NEW S \in SUBSET Nat, S # {}
    PROVE  First(S) \in S /\ \A j \in S : First(S) <= j
  BY LeastExists DEF First

\* A list over any set is a list over its own elements.
LEMMA OwnElements ==
    ASSUME NEW T, NEW v \in Seq(T)
    PROVE  /\ v \in Seq({v[i] : i \in DOMAIN v})
           /\ DOMAIN v = 1 .. Len(v) /\ Len(v) \in Nat
  <1>1. Len(v) \in Nat /\ DOMAIN v = 1 .. Len(v) /\ v \in [1 .. Len(v) -> T]
    BY LenProperties
  <1> DEFINE R == {v[i] : i \in DOMAIN v}
             n == Len(v)
  <1>2. v = [i \in 1 .. n |-> v[i]]
    BY <1>1
  <1>3. n \in Nat /\ v \in [1 .. n -> R]
    BY <1>1, <1>2
  <1> HIDE DEF R, n
  <1>4. v \in Seq(R)
    BY <1>3
  <1> QED
    BY <1>1, <1>4

LEMMA GoodDomain ==
    ASSUME NEW v, GoodSlots(v)
    PROVE  Len(v) \in Nat /\ DOMAIN v = 1 .. Len(v)
  BY OwnElements DEF GoodSlots

\* A search that finds a slot stops at one of the list.
LEMMA FoundSlot ==
    ASSUME NEW v, GoodSlots(v), NEW S, S \subseteq DOMAIN v, S # {}
    PROVE  First(S) \in DOMAIN v
  <1>1. S \in SUBSET Nat
    BY GoodDomain
  <1> QED
    BY <1>1, FirstIsLeast

\* A list with the same slots, id for id, is as good as the old one.
LEMMA SameIds ==
    ASSUME NEW v, GoodSlots(v),
           NEW w, w = [i \in DOMAIN v |-> w[i]],
           \A i \in DOMAIN v : "id" \in DOMAIN w[i] /\ w[i].id = v[i].id
    PROVE  GoodSlots(w)
  <1>1. Len(v) \in Nat /\ DOMAIN v = 1 .. Len(v) /\ DOMAIN w = DOMAIN v
    BY GoodDomain
  <1>2. w \in Seq({w[i] : i \in DOMAIN w}) /\ Len(w) = Len(v)
    BY <1>1
  <1> QED
    BY <1>1, <1>2 DEF GoodSlots

\* There is a highest id, and no slot is above it.
LEMMA HighestExists ==
    ASSUME NEW v, GoodSlots(v), v # <<>>
    PROVE  HighestId(v) \in Nat /\ \A i \in DOMAIN v : v[i].id <= HighestId(v)
  <1> DEFINE U == {b \in Nat : \A i \in DOMAIN v : v[i].id <= b}
             ids == {v[i].id : i \in DOMAIN v}
  <1>1. PICK m \in U : \A b \in U : m <= b
    <2>1. U # {}
      BY DEF GoodSlots
    <2> QED
      BY <2>1, LeastExists
  <1>2. 1 \in DOMAIN v
    BY GoodDomain, EmptySeq DEF GoodSlots
  <1>3. m \in ids
    <2>1. CASE m = 0
      BY <1>1, <1>2, <2>1 DEF GoodSlots
    <2>2. CASE m # 0
      <3>1. m - 1 \in Nat /\ m - 1 \notin U
        BY <1>1, <2>2
      <3>2. PICK i \in DOMAIN v : ~ (v[i].id <= m - 1)
        BY <3>1
      <3>3. v[i].id = m
        BY <1>1, <3>1, <3>2 DEF GoodSlots
      <3> QED
        BY <3>3
    <2> QED
      BY <2>1, <2>2
  <1>4. \E h \in ids : \A i \in DOMAIN v : v[i].id <= h
    BY <1>1, <1>3
  <1>5. HighestId(v) \in ids /\ \A i \in DOMAIN v : v[i].id <= HighestId(v)
    BY <1>4 DEF HighestId
  <1> QED
    BY <1>5 DEF GoodSlots

\* A slot with an id of its own may be added while there is room.
LEMMA OneMore ==
    ASSUME NEW v, GoodSlots(v), Len(v) < MaxVfos,
           NEW r, "id" \in DOMAIN r, r.id \in Nat,
           \A i \in DOMAIN v : v[i].id < r.id
    PROVE  GoodSlots(Append(v, r))
  <1> DEFINE R == {v[i] : i \in DOMAIN v}
             w == Append(v, r)
  <1>1. v \in Seq(R) /\ Len(v) \in Nat /\ DOMAIN v = 1 .. Len(v)
    BY GoodDomain DEF GoodSlots
  <1>2. w \in Seq(R \cup {r}) /\ Len(w) = Len(v) + 1
    BY <1>1
  <1>3. /\ DOMAIN w = 1 .. Len(v) + 1 /\ w[Len(v) + 1] = r
        /\ \A i \in 1 .. Len(v) : w[i] = v[i]
    BY <1>1, <1>2
  <1>4. w \in Seq({w[i] : i \in DOMAIN w})
    BY <1>2, OwnElements
  <1>5. Len(w) <= MaxVfos
    BY <1>1, <1>2, SweepAssumption
  <1>6. \A i \in DOMAIN w : "id" \in DOMAIN w[i] /\ w[i].id \in Nat /\ w[i].id <= r.id
    <2> SUFFICES ASSUME NEW i \in DOMAIN w
                 PROVE  "id" \in DOMAIN w[i] /\ w[i].id \in Nat /\ w[i].id <= r.id
      OBVIOUS
    <2>1. CASE i = Len(v) + 1
      BY <2>1, <1>3
    <2>2. CASE i \in 1 .. Len(v)
      BY <2>2, <1>1, <1>3 DEF GoodSlots
    <2> QED
      BY <2>1, <2>2, <1>1, <1>3
  <1>7. \A i, j \in DOMAIN w : w[i].id = w[j].id => i = j
    <2> SUFFICES ASSUME NEW i \in DOMAIN w, NEW j \in DOMAIN w, w[i].id = w[j].id, i # j
                 PROVE  FALSE
      OBVIOUS
    <2>1. CASE i \in 1 .. Len(v) /\ j \in 1 .. Len(v)
      BY <2>1, <1>1, <1>3 DEF GoodSlots
    <2>2. CASE i \in 1 .. Len(v) /\ j = Len(v) + 1
      BY <2>2, <1>1, <1>3 DEF GoodSlots
    <2>3. CASE j \in 1 .. Len(v) /\ i = Len(v) + 1
      BY <2>3, <1>1, <1>3 DEF GoodSlots
    <2> QED
      BY <2>1, <2>2, <2>3, <1>1, <1>3
  <1> HIDE DEF w
  <1> QED
    BY <1>4, <1>5, <1>6, <1>7 DEF GoodSlots, w

(***************************************************************************)
(* What the scanner does to a list.                                        *)
(***************************************************************************)

LEMMA NoSlots == GoodSlots(<<>>)
  BY SweepAssumption, EmptySeq DEF GoodSlots

LEMMA OneSlot ==
    ASSUME MaxVfos # 0, NEW r, "id" \in DOMAIN r, r.id \in Nat
    PROVE  GoodSlots(<<r>>)
  <1>1. <<r>> = Append(<<>>, r)
    OBVIOUS
  <1>2. Len(<<>>) < MaxVfos
    BY SweepAssumption
  <1>3. \A i \in DOMAIN <<>> : <<>>[i].id < r.id
    OBVIOUS
  <1>4. GoodSlots(Append(<<>>, r))
    BY <1>2, <1>3, NoSlots, OneMore
  <1> QED
    BY <1>1, <1>4

LEMMA StarterSlots ==
    ASSUME NEW bank, NEW center
    PROVE  GoodSlots(StarterVfos(bank, center))
  <1> DEFINE r == Vfo(0, center, FALSE, FALSE, FALSE)
  <1>1. "id" \in DOMAIN r /\ r.id = 0
    BY DEF Vfo
  <1>2. CASE bank.maxVfos = 0 \/ MaxVfos = 0
    BY <1>2, NoSlots DEF StarterVfos
  <1>3. CASE ~ (bank.maxVfos = 0 \/ MaxVfos = 0)
    <2>1. GoodSlots(<<r>>)
      <3> HIDE DEF r
      <3> QED
        BY <1>1, <1>3, OneSlot
    <2> QED
      BY <1>3, <2>1 DEF StarterVfos
  <1> QED
    BY <1>2, <1>3

\* Releasing or unlocking every slot keeps its id.
LEMMA ReleasedSlots ==
    ASSUME NEW v, GoodSlots(v)
    PROVE  GoodSlots(ForAllVfos(v, Released)) /\ GoodSlots(ForAllVfos(v, Unlocked))
  <1>1. GoodSlots([i \in DOMAIN v |-> Released(v[i])])
    <2> DEFINE w == [i \in DOMAIN v |-> Released(v[i])]
    <2>1. \A i \in DOMAIN v : "id" \in DOMAIN w[i] /\ w[i].id = v[i].id
      BY DEF GoodSlots, Released
    <2> QED
      BY <2>1, SameIds
  <1>2. GoodSlots([i \in DOMAIN v |-> Unlocked(v[i])])
    <2> DEFINE w == [i \in DOMAIN v |-> Unlocked(v[i])]
    <2>1. \A i \in DOMAIN v : "id" \in DOMAIN w[i] /\ w[i].id = v[i].id
      BY DEF GoodSlots, Unlocked
    <2> QED
      BY <2>1, SameIds
  <1> QED
    BY <1>1, <1>2 DEF ForAllVfos

\* So does moving every slot the new window cannot reach.
LEMMA RehomedSlots ==
    ASSUME NEW v, GoodSlots(v), NEW center
    PROVE  GoodSlots(Rehomed(v, center))
  <1> DEFINE w == [i \in DOMAIN v |->
                     IF Distance(v[i].freq, center) > UsableHalf(device.rate)
                     THEN [v[i] EXCEPT !.freq = center, !.open = FALSE] ELSE v[i]]
  <1>1. Rehomed(v, center) = w
    BY DEF Rehomed, ForAllVfos
  <1>2. \A i \in DOMAIN v : "id" \in DOMAIN w[i] /\ w[i].id = v[i].id
    BY DEF GoodSlots
  <1> QED
    BY <1>1, <1>2, SameIds

\* So does measuring them.
LEMMA MeasuredSlots ==
    ASSUME NEW v, GoodSlots(v), NEW silent
    PROVE  GoodSlots(Readings(v, silent))
  <1> DEFINE w == [i \in DOMAIN v |-> Measured(v[i], silent)]
  <1>1. \A i \in DOMAIN v : "id" \in DOMAIN w[i] /\ w[i].id = v[i].id
    BY DEF GoodSlots, Measured
  <1>2. Readings(v, silent) = w
    BY DEF Readings, ForAllVfos
  <1> QED
    BY <1>1, <1>2, SameIds

\* So does changing one of them other than in its id.
LEMMA ChangedSlot ==
    ASSUME NEW v, GoodSlots(v), NEW k \in DOMAIN v,
           NEW r, "id" \in DOMAIN r, r.id = v[k].id
    PROVE  GoodSlots([v EXCEPT ![k] = r])
  <1> DEFINE w == [v EXCEPT ![k] = r]
  <1>1. /\ w = [i \in DOMAIN v |-> w[i]]
        /\ \A i \in DOMAIN v : "id" \in DOMAIN w[i] /\ w[i].id = v[i].id
    BY GoodDomain DEF GoodSlots
  <1> QED
    BY <1>1, SameIds

LEMMA NewSlotGood ==
    ASSUME NEW v, GoodSlots(v), Len(v) < MaxVfos, NEW freq
    PROVE  GoodSlots(NewSlot(v, freq)) /\ GoodSlots(HitSlot(v, freq))
  <1> DEFINE a == IF v = <<>> THEN 0 ELSE HighestId(v) + 1
             b == (IF v = <<>> THEN 0 ELSE HighestId(v)) + 1
  <1>1. a \in Nat /\ b \in Nat /\ \A i \in DOMAIN v : v[i].id < a /\ v[i].id < b
    <2>1. CASE v = <<>>
      BY <2>1
    <2>2. CASE v # <<>>
      <3> DEFINE h == HighestId(v)
      <3>1. h \in Nat /\ \A i \in DOMAIN v : v[i].id \in Nat /\ v[i].id <= h
        BY <2>2, HighestExists DEF GoodSlots
      <3>2. a = h + 1 /\ b = h + 1
        BY <2>2
      <3> HIDE DEF h, a, b
      <3> QED
        BY <3>1, <3>2
    <2> QED
      BY <2>1, <2>2
  <1> HIDE DEF a, b
  <1>2. GoodSlots(Append(v, Vfo(a, freq, TRUE, FALSE, TRUE)))
    <2> DEFINE r == Vfo(a, freq, TRUE, FALSE, TRUE)
    <2>1. "id" \in DOMAIN r /\ r.id = a
      BY DEF Vfo
    <2>2. GoodSlots(Append(v, r))
      <3> HIDE DEF r
      <3> QED
        BY <1>1, <2>1, OneMore
    <2> QED
      BY <2>2
  <1>3. GoodSlots(Append(v, Vfo(b, freq, TRUE, TRUE, FALSE)))
    <2> DEFINE r == Vfo(b, freq, TRUE, TRUE, FALSE)
    <2>1. "id" \in DOMAIN r /\ r.id = b
      BY DEF Vfo
    <2>2. GoodSlots(Append(v, r))
      <3> HIDE DEF r
      <3> QED
        BY <1>1, <2>1, OneMore
    <2> QED
      BY <2>2
  <1> QED
    BY <1>2, <1>3 DEF NewSlot, HitSlot, a, b

LEMMA HitSlots ==
    ASSUME NEW v, GoodSlots(v), NEW freq, NEW bank
    PROVE  GoodSlots(Allocated(v, freq, bank))
  <1> DEFINE near  == Near(v, freq, AtLeast(bank.bw, AtLeast(device.rate \div FftSize, 1)))
             found == IF near # {} THEN near ELSE FreeOnes(v)
  <1>1. CASE AllowsVfos(bank) /\ found # {}
    <2>1. found \subseteq DOMAIN v
      BY DEF Near, FreeOnes
    <2>2. First(found) \in DOMAIN v
      BY <1>1, <2>1, FoundSlot
    <2> DEFINE k == First(found)
    <2>3. "id" \in DOMAIN Caught(v[k], freq) /\ Caught(v[k], freq).id = v[k].id
      BY <2>2 DEF Caught, GoodSlots
    <2>4. Allocated(v, freq, bank) = [v EXCEPT ![k] = Caught(v[k], freq)]
      BY <1>1 DEF Allocated
    <2>5. GoodSlots([v EXCEPT ![k] = Caught(v[k], freq)])
      <3> HIDE DEF k
      <3> QED
        BY <2>2, <2>3, ChangedSlot DEF k
    <2> QED
      BY <2>4, <2>5
  <1>2. CASE found = {} /\ RoomFor(v, bank)
    <2>1. Allocated(v, freq, bank) = HitSlot(v, freq)
      BY <1>2 DEF Allocated
    <2> QED
      BY <1>2, <2>1, NewSlotGood DEF RoomFor
  <1>3. CASE ~ (AllowsVfos(bank) /\ found # {}) /\ ~ (found = {} /\ RoomFor(v, bank))
    BY <1>3 DEF Allocated
  <1> QED
    BY <1>1, <1>2, <1>3

\* Removing a slot keeps the others, in order.
LEMMA FewerSlots ==
    ASSUME NEW v, GoodSlots(v), NEW id
    PROVE  GoodSlots(WithoutId(v, id))
  <1>1. CASE WithId(v, id) = {}
    BY <1>1 DEF WithoutId
  <1>2. CASE WithId(v, id) # {}
    <2> DEFINE gone == First(WithId(v, id))
               w == [i \in 1 .. Len(v) - 1 |-> IF i < gone THEN v[i] ELSE v[i + 1]]
               R == {v[i] : i \in DOMAIN v}
    <2>1. Len(v) \in Nat /\ DOMAIN v = 1 .. Len(v)
      BY GoodDomain
    <2>2. gone \in 1 .. Len(v)
      <3>1. WithId(v, id) \subseteq DOMAIN v
        BY DEF WithId
      <3> QED
        BY <1>2, <2>1, <3>1, FoundSlot
    <2> HIDE DEF gone
    <2>3. Len(v) - 1 \in Nat /\ Len(v) - 1 < Len(v)
      BY <2>1, <2>2
    <2>4. \A i \in 1 .. Len(v) - 1 : i \in DOMAIN v /\ i + 1 \in DOMAIN v
      BY <2>1, <2>3
    <2>5. w \in [1 .. Len(v) - 1 -> R]
      BY <2>4
    <2>6. w \in Seq(R) /\ Len(w) = Len(v) - 1 /\ DOMAIN w = 1 .. Len(v) - 1
      <3> DEFINE n == Len(v) - 1
      <3>1. n \in Nat /\ w \in [1 .. n -> R] /\ DOMAIN w = 1 .. n
        BY <2>3, <2>5
      <3> HIDE DEF n, w, R
      <3>2. w \in Seq(R)
        BY <3>1
      <3>3. Len(w) = n
        BY <3>1, <3>2, LenProperties
      <3> QED
        BY <3>1, <3>2, <3>3 DEF n
    <2>7. w \in Seq({w[i] : i \in DOMAIN w})
      <3>1. w \in Seq(R)
        BY <2>6
      <3> HIDE DEF w, R
      <3> QED
        BY <3>1, OwnElements
    <2>8. Len(w) <= MaxVfos
      BY <2>1, <2>3, <2>6, SweepAssumption DEF GoodSlots
    <2>9. \A i \in DOMAIN w : "id" \in DOMAIN w[i] /\ w[i].id \in Nat
      BY <2>4, <2>6 DEF GoodSlots
    <2>10. \A i, j \in DOMAIN w : w[i].id = w[j].id => i = j
      <3> SUFFICES ASSUME NEW i \in DOMAIN w, NEW j \in DOMAIN w, w[i].id = w[j].id
                   PROVE  i = j
        OBVIOUS
      <3> DEFINE p == IF i < gone THEN i ELSE i + 1
                 q == IF j < gone THEN j ELSE j + 1
      <3>1. p \in DOMAIN v /\ q \in DOMAIN v /\ w[i] = v[p] /\ w[j] = v[q]
        BY <2>4, <2>6
      <3>2. p = q
        BY <3>1 DEF GoodSlots
      <3>3. i \in Int /\ j \in Int /\ gone \in Int
        BY <2>2, <2>6
      <3> HIDE DEF w
      <3> QED
        BY <3>2, <3>3
    <2>11. \E b \in Nat : \A i \in DOMAIN w : w[i].id <= b
      BY <2>4, <2>6 DEF GoodSlots
    <2> HIDE DEF w
    <2>12. GoodSlots(w)
      BY <2>7, <2>8, <2>9, <2>10, <2>11 DEF GoodSlots
    <2> QED
      BY <1>2, <2>12 DEF WithoutId, w, gone
  <1> QED
    BY <1>1, <1>2

(***************************************************************************)
(* The steps.                                                              *)
(***************************************************************************)

LEMMA SlotsInit == Init => SlotsInv
  BY NoSlots DEF Init, SlotsInv

\* Commands: the queue's order is immaterial, each of them keeps the list good.
LEMMA CommandsKeepSlots == SlotsInv /\ Commands => SlotsInv'
  <1> SUFFICES ASSUME SlotsInv, Commands PROVE SlotsInv'
    OBVIOUS
  <1> DEFINE v == runtime.vfos
  <1>0. "vfos" \in DOMAIN runtime /\ GoodSlots(v)
    BY DEF SlotsInv
  <1>1. CASE StartCommand
    <2>1. PICK bank : runtime' = [running |-> TRUE, bank |-> bank.name,
                        vfos |-> StarterVfos(bank, device.center),
                        locked |-> FALSE, holding |-> FALSE, full |-> FALSE]
      BY <1>1 DEF StartCommand
    <2>2. runtime'.vfos = StarterVfos(bank, device.center) /\ "vfos" \in DOMAIN runtime'
      BY <2>1
    <2> QED
      BY <2>2, StarterSlots DEF SlotsInv
  <1>2. CASE StopCommand
    <2>1. runtime'.vfos = <<>> /\ "vfos" \in DOMAIN runtime'
      BY <1>0, <1>2 DEF StopCommand
    <2> QED
      BY <2>1, NoSlots DEF SlotsInv
  <1>3. CASE SkipCommand
    <2>1. runtime'.vfos = ForAllVfos(v, Released) /\ "vfos" \in DOMAIN runtime'
      BY <1>0, <1>3 DEF SkipCommand
    <2> QED
      BY <1>0, <2>1, ReleasedSlots DEF SlotsInv
  <1>4. CASE ResumeCommand
    <2>1. runtime'.vfos = ForAllVfos(v, Unlocked) /\ "vfos" \in DOMAIN runtime'
      BY <1>0, <1>4 DEF ResumeCommand
    <2> QED
      BY <1>0, <2>1, ReleasedSlots DEF SlotsInv
  <1>5. CASE FollowCommand
    <2>1. runtime'.vfos = Rehomed(v, Head(queue).center) /\ "vfos" \in DOMAIN runtime'
      BY <1>0, <1>5 DEF FollowCommand
    <2> QED
      BY <1>0, <2>1, RehomedSlots DEF SlotsInv
  <1>6. CASE AddCommand
    <2>1. PICK freq : runtime' = [runtime EXCEPT !.vfos =
                                    IF Len(v) < MaxVfos THEN NewSlot(v, freq) ELSE v]
      BY <1>6 DEF AddCommand
    <2>2. /\ runtime'.vfos = IF Len(v) < MaxVfos THEN NewSlot(v, freq) ELSE v
          /\ "vfos" \in DOMAIN runtime'
      BY <1>0, <2>1
    <2>3. CASE Len(v) < MaxVfos
      BY <1>0, <2>2, <2>3, NewSlotGood DEF SlotsInv
    <2>4. CASE ~ (Len(v) < MaxVfos)
      BY <1>0, <2>2, <2>4 DEF SlotsInv
    <2> QED
      BY <2>3, <2>4
  <1>7. CASE RemoveCommand
    <2>1. /\ runtime'.vfos = IF Len(v) > 1 THEN WithoutId(v, Head(queue).id) ELSE v
          /\ "vfos" \in DOMAIN runtime'
      BY <1>0, <1>7 DEF RemoveCommand
    <2>2. CASE Len(v) > 1
      BY <1>0, <2>1, <2>2, FewerSlots DEF SlotsInv
    <2>3. CASE ~ (Len(v) > 1)
      BY <1>0, <2>1, <2>3 DEF SlotsInv
    <2> QED
      BY <2>2, <2>3
  <1>8. CASE PlaceCommand
    <2> DEFINE at == WithId(v, Head(queue).id)
               k  == First(at)
               r  == [v[k] EXCEPT !.freq = Head(queue).freq, !.locked = TRUE]
    <2>1. CASE at = {}
      <3>1. runtime'.vfos = v /\ "vfos" \in DOMAIN runtime'
        BY <1>0, <1>8, <2>1 DEF PlaceCommand
      <3> QED
        BY <1>0, <3>1 DEF SlotsInv
    <2>2. CASE at # {}
      <3>1. k \in DOMAIN v
        <4>1. at \subseteq DOMAIN v
          BY DEF WithId
        <4> HIDE DEF at
        <4> QED
          BY <1>0, <2>2, <4>1, FoundSlot
      <3>2. "id" \in DOMAIN r /\ r.id = v[k].id
        BY <1>0, <3>1 DEF GoodSlots
      <3>3. runtime'.vfos = [v EXCEPT ![k].freq = Head(queue).freq, ![k].locked = TRUE]
            /\ "vfos" \in DOMAIN runtime'
        BY <1>0, <1>8, <2>2 DEF PlaceCommand
      <3>4. runtime'.vfos = [v EXCEPT ![k] = r]
        BY <3>1, <3>3
      <3>5. GoodSlots([v EXCEPT ![k] = r])
        <4> HIDE DEF k, r
        <4> QED
          BY <1>0, <3>1, <3>2, ChangedSlot
      <3> QED
        BY <3>3, <3>4, <3>5 DEF SlotsInv
    <2> QED
      BY <2>1, <2>2
  <1>9. CASE LockVfoCommand
    <2> DEFINE at == WithId(v, Head(queue).id)
               k  == First(at)
               r  == [v[k] EXCEPT !.locked = Head(queue).on]
    <2>1. CASE at = {}
      BY <1>0, <1>9, <2>1 DEF LockVfoCommand, SlotsInv
    <2>2. CASE at # {}
      <3>1. k \in DOMAIN v
        <4>1. at \subseteq DOMAIN v
          BY DEF WithId
        <4> HIDE DEF at
        <4> QED
          BY <1>0, <2>2, <4>1, FoundSlot
      <3>2. "id" \in DOMAIN r /\ r.id = v[k].id
        BY <1>0, <3>1 DEF GoodSlots
      <3>3. runtime'.vfos = [v EXCEPT ![k] = r] /\ "vfos" \in DOMAIN runtime'
        BY <1>0, <1>9, <2>2 DEF LockVfoCommand
      <3>4. GoodSlots([v EXCEPT ![k] = r])
        <4> HIDE DEF k, r
        <4> QED
          BY <1>0, <3>1, <3>2, ChangedSlot
      <3> QED
        BY <3>3, <3>4 DEF SlotsInv
    <2> QED
      BY <2>1, <2>2
  <1>10. CASE ViewCommand
    <2>1. runtime'.vfos = v /\ "vfos" \in DOMAIN runtime'
      BY <1>0, <1>10 DEF ViewCommand
    <2> QED
      BY <1>0, <2>1 DEF SlotsInv
  <1>11. CASE PanCommand
    BY <1>0, <1>11 DEF PanCommand, SlotsInv
  <1> QED
    BY <1>1, <1>2, <1>3, <1>4, <1>5, <1>6, <1>7, <1>8, <1>9, <1>10, <1>11 DEF Commands

\* The stages of a frame: a hit may take or add one slot, measuring and the
\* moves of the sweep keep or replace the whole list.
LEMMA FramesKeepSlots ==
    ASSUME SlotsInv,
           TakeFrame \/ Hit \/ Measure \/ Decide \/ ApplyStay \/ ApplyRetune \/ ApplySwitch
    PROVE  SlotsInv'
  <1> DEFINE v == runtime.vfos
  <1>0. "vfos" \in DOMAIN runtime /\ GoodSlots(v)
    BY DEF SlotsInv
  <1>1. CASE UNCHANGED runtime
    BY <1>0, <1>1 DEF SlotsInv
  <1>2. CASE Hit
    <2>1. CASE NoPeak
      BY <1>1, <2>1 DEF NoPeak
    <2>2. CASE \E channel \in loop.frame.air : Peak(channel)
      <3>1. PICK channel : Peak(channel)
        BY <2>2
      <3>2. PICK freq : \/ UNCHANGED runtime
                        \/ runtime' = [runtime EXCEPT !.vfos = Allocated(v, freq, loop.bank)]
        BY <3>1 DEF Peak
      <3>3. ASSUME runtime' = [runtime EXCEPT !.vfos = Allocated(v, freq, loop.bank)]
            PROVE  SlotsInv'
        <4>1. runtime'.vfos = Allocated(v, freq, loop.bank) /\ "vfos" \in DOMAIN runtime'
          BY <1>0, <3>3
        <4> QED
          BY <1>0, <4>1, HitSlots DEF SlotsInv
      <3> QED
        BY <1>1, <3>2, <3>3
    <2> QED
      BY <1>2, <2>1, <2>2 DEF Hit
  <1>3. CASE Measure
    <2>1. PICK silent, h : runtime' = [runtime EXCEPT !.vfos = Readings(v, silent),
                                                      !.holding = h]
      BY <1>3 DEF Measure
    <2>2. runtime'.vfos = Readings(v, silent) /\ "vfos" \in DOMAIN runtime'
      BY <1>0, <2>1
    <2> QED
      BY <1>0, <2>2, MeasuredSlots DEF SlotsInv
  <1>4. CASE ApplyRetune
    <2>1. CASE ~ UNCHANGED runtime
      <3>1. runtime'.vfos = ForAllVfos(v, Released) /\ "vfos" \in DOMAIN runtime'
        BY <1>0, <1>4, <2>1 DEF ApplyRetune
      <3> QED
        BY <1>0, <3>1, ReleasedSlots DEF SlotsInv
    <2> QED
      BY <1>1, <2>1
  <1>5. CASE ApplySwitch
    <2>1. CASE ~ UNCHANGED runtime
      <3> DEFINE bank == loop.step.bank
      <3>1. PICK rate : LET center == InitialScanCenter(bank, UsableSpan(rate, rate))
                        IN  runtime' = [runtime EXCEPT !.bank = bank.name, !.holding = FALSE,
                              !.locked = FALSE, !.vfos = StarterVfos(bank, center)]
        BY <1>5, <2>1 DEF ApplySwitch
      <3> DEFINE center == InitialScanCenter(bank, UsableSpan(rate, rate))
      <3>2. runtime'.vfos = StarterVfos(bank, center) /\ "vfos" \in DOMAIN runtime'
        BY <1>0, <3>1
      <3> QED
        BY <3>2, StarterSlots DEF SlotsInv
    <2> QED
      BY <1>1, <2>1
  <1>6. CASE TakeFrame \/ Decide \/ ApplyStay
    BY <1>1, <1>6 DEF TakeFrame, Decide, ApplyStay
  <1> QED
    BY <1>2, <1>3, <1>4, <1>5, <1>6

\* Handlers reach the list through commands only; two of them set the lock.
LEMMA OperatorsKeepSlots == SlotsInv /\ Operators => SlotsInv'
  <1> SUFFICES ASSUME SlotsInv, Operators PROVE SlotsInv'
    OBVIOUS
  <1>1. UNCHANGED runtime \/ runtime' = [runtime EXCEPT !.locked = TRUE]
    BY DEF Operators, ScanLock, ScanUnlock, ScanSkip, ScanStop, VfoAdd, VfoRemove, VfoLock,
           SpectrumView, ScannerPan, BlacklistAdd, BlacklistRemove, ScanStart,
           ScanStartSends, TuneRequest, TuneDevice, FollowManualRetune, PlaceVfo, Asks
  <1>2. runtime'.vfos = runtime.vfos /\ "vfos" \in DOMAIN runtime'
    BY <1>1 DEF SlotsInv
  <1> QED
    BY <1>2 DEF SlotsInv

\* Every mix of hits, operator slots, removals, skips and changes of bank keeps
\* the ids distinct and the list within cfg.max_vfos.
THEOREM SlotsAlwaysDistinct == Spec => []SlotsDistinct
  <1>1. SlotsInv /\ [Next]_vars => SlotsInv'
    <2> SUFFICES ASSUME SlotsInv, [Next]_vars PROVE SlotsInv'
      OBVIOUS
    <2>1. CASE UNCHANGED vars
      BY <2>1 DEF vars, SlotsInv
    <2>2. CASE Next
      BY <2>2, CommandsKeepSlots, FramesKeepSlots, OperatorsKeepSlots DEF Next, Loop
    <2> QED
      BY <2>1, <2>2
  <1>2. SlotsInv => SlotsDistinct
    BY DEF SlotsInv, GoodSlots, SlotsDistinct
  <1> QED
    BY <1>1, <1>2, SlotsInit, PTL DEF Spec

(***************************************************************************)
(* Types.  A frequency, a rate and a count of frames is a natural number,  *)
(* and so is what the arithmetic of ScanWindow makes of them.              *)
(***************************************************************************)
LEMMA Naturals2 ==
    ASSUME NEW a \in Nat, NEW b \in Nat, NEW c \in Nat
    PROVE  /\ Monus(a, b) \in Nat /\ Distance(a, b) \in Nat
           /\ AtMost(a, b) \in Nat /\ AtLeast(a, b) \in Nat /\ Clamp(a, b, c) \in Nat
  BY DEF Monus, Distance, AtMost, AtLeast, Clamp

LEMMA Spans ==
    ASSUME NEW rate \in Nat, NEW bandwidth \in Nat
    PROVE  UsableSpan(rate, bandwidth) \in Nat /\ UsableHalf(rate) \in Nat
  BY DEF UsableSpan, UsableHalf, AtLeast, AtMost

LEMMA BankFields ==
    ASSUME NEW b \in Banks
    PROVE  /\ b.start \in Nat /\ b.end \in Nat /\ b.bw \in Nat /\ b.maxVfos \in Nat
           /\ b.hold \in Nat /\ b.dwell \in Nat /\ b.rate \in Nat /\ b # NoBank
  BY BankAssumption

LEMMA InitialCenters ==
    ASSUME NEW b \in Banks, NEW usable \in Nat
    PROVE  InitialScanCenter(b, usable) \in Nat
  BY BankFields DEF InitialScanCenter, AtMost

LEMMA Multiples ==
    ASSUME NEW a \in Nat, NEW b \in Nat
    PROVE  a * b \in Nat
  OBVIOUS

LEMMA Quotients ==
    ASSUME NEW a \in Nat, NEW b \in Nat, b # 0
    PROVE  a \div b \in Nat
  OBVIOUS

LEMMA StableChannels ==
    ASSUME NEW b \in Banks, NEW detected \in Nat
    PROVE  StableChannel(b, detected, StepHz) \in Nat
  <1> DEFINE raster == b.wfm /\ b.bw > 0
             origin == IF raster THEN b.start + b.bw \div 2 ELSE b.start
             step   == IF raster THEN b.bw ELSE AtLeast(StepHz, 1)
             steps  == (Monus(detected, origin) + step \div 2) \div step
  <1>1. origin \in Nat /\ step \in Nat /\ step # 0
    BY BankFields, SweepAssumption DEF AtLeast
  <1>2. Monus(detected, origin) + step \div 2 \in Nat
    BY <1>1 DEF Monus
  <1>3. steps \in Nat
    <2> HIDE DEF step, origin
    <2> QED
      BY <1>1, <1>2, Quotients
  <1>4. steps * step \in Nat
    <2> HIDE DEF step, steps
    <2> QED
      BY <1>1, <1>3, Multiples
  <1>5. Clamp(origin + steps * step, b.start, b.end) \in Nat
    <2> DEFINE product == steps * step
    <2>1. product \in Nat
      BY <1>4
    <2> HIDE DEF product, origin
    <2>2. Clamp(origin + product, b.start, b.end) \in Nat
      BY <1>1, <2>1, BankFields DEF Clamp, AtLeast, AtMost
    <2> QED
      BY <2>2 DEF product, origin
  <1> QED
    BY <1>5 DEF StableChannel

LEMMA Recenters ==
    ASSUME NEW center \in Nat, NEW rate \in Nat, NEW full \in BOOLEAN,
           NEW b \in Banks \cup {NoBank}
    PROVE  ClampCenter(center, rate, full, b, DevMin, DevMax) \in Nat
  <1>1. rate \div 2 \in Nat /\ DevMin \in Nat /\ DevMax \in Nat
    BY SweepAssumption
  <1>2. CASE b = NoBank
    BY <1>1, <1>2 DEF ClampCenter, Clamp, AtLeast, AtMost, Monus
  <1>3. CASE b \in Banks
    <2>1. b.start \in Nat /\ b.end \in Nat /\ b # NoBank
      BY <1>3, BankFields
    <2>2. BankMiddle(b) \in Nat
      BY <2>1 DEF BankMiddle, Monus
    <2> QED
      BY <1>1, <2>1, <2>2 DEF ClampCenter, Clamp, AtLeast, AtMost, Monus
  <1> QED
    BY <1>2, <1>3

\* The bank a cycle goes on with is one of the cycle.
LEMMA CycleGoesOn ==
    ASSUME NEW name, NEW cycle \in Seq(PlannedBanks)
    PROVE  NextCycleBank(name, cycle) \in PlannedBanks \cup {NoBank}
  <1> DEFINE at == {i \in DOMAIN cycle : cycle[i].name = name}
  <1>1. Len(cycle) \in Nat /\ DOMAIN cycle = 1 .. Len(cycle)
    BY LenProperties
  <1>2. CASE Len(cycle) >= 2 /\ at # {}
    <2>1. First(at) \in 1 .. Len(cycle)
      <3>1. at \in SUBSET Nat /\ at \subseteq 1 .. Len(cycle) /\ at # {}
        BY <1>1, <1>2
      <3> HIDE DEF at
      <3> QED
        BY <3>1, FirstIsLeast
    <2> DEFINE n == Len(cycle)
               k == First(at)
    <2>2. n \in Nat /\ n >= 2 /\ k \in 1 .. n
      BY <1>1, <1>2, <2>1
    <2> HIDE DEF n, k
    <2>3. (k % n) + 1 \in 1 .. n
      BY <2>2
    <2>4. cycle[(k % n) + 1] \in PlannedBanks
      BY <1>1, <2>3 DEF n
    <2> QED
      BY <1>2, <2>4 DEF NextCycleBank, n, k
  <1>3. CASE ~ (Len(cycle) >= 2 /\ at # {})
    BY <1>3 DEF NextCycleBank
  <1> QED
    BY <1>2, <1>3

StepType ==
    [kind : {"stay"}] \cup [kind : {"retune"}, center : Nat]
      \cup [kind : {"switch"}, bank : PlannedBanks]

LEMMA StepsTyped ==
    ASSUME NEW b \in Banks, NEW cycle \in Seq(PlannedBanks), NEW center \in Nat,
           NEW usable \in Nat
    PROVE  NextScanStep(b, cycle, center, usable) \in StepType
  <1>1. NextCycleBank(b.name, cycle) \in PlannedBanks \cup {NoBank}
    BY CycleGoesOn
  <1>2. InitialScanCenter(b, usable) \in Nat /\ NextCenter(center, usable) \in Nat
    BY InitialCenters DEF NextCenter
  <1> QED
    BY <1>1, <1>2 DEF NextScanStep, StepType, StayHere, RetuneTo, SwitchTo

\* A manual retune selects a configured bank, or none.
LEMMA PicksTyped ==
    ASSUME NEW freq, NEW current
    PROVE  PickBank(ConfigBanks, freq, current) \in Banks \cup {NoBank}
  <1>1. Len(ConfigBanks) \in Nat /\ DOMAIN ConfigBanks = 1 .. Len(ConfigBanks)
    BY BankAssumption, LenProperties
  <1>2. ASSUME NEW S \in SUBSET DOMAIN ConfigBanks, S # {}
        PROVE  ConfigBanks[First(S)] \in Banks
    <2>1. S \in SUBSET Nat
      BY <1>1
    <2>2. First(S) \in DOMAIN ConfigBanks
      BY <1>2, <2>1, FirstIsLeast
    <2> QED
      BY <2>2 DEF Banks
  <1>3. ASSUME NEW S \in SUBSET DOMAIN ConfigBanks
        PROVE  Narrowest(ConfigBanks, S) \in Banks \cup {NoBank}
    <2> DEFINE span(i) == Monus(ConfigBanks[i].end, ConfigBanks[i].start)
               spans == {span(i) : i \in S}
               least == {i \in S : \A j \in S : span(i) <= span(j)}
    <2>1. \A i \in S : span(i) \in Nat
      <3> SUFFICES ASSUME NEW i \in S PROVE span(i) \in Nat
        OBVIOUS
      <3>1. ConfigBanks[i] \in Banks
        BY DEF Banks
      <3> QED
        BY <3>1, BankFields, Naturals2
    <2>2. CASE S # {}
      <3>1. PICK m \in spans : \A n \in spans : m <= n
        <4>1. spans \in SUBSET Nat /\ spans # {}
          BY <2>1, <2>2
        <4> HIDE DEF spans
        <4> QED
          BY <4>1, LeastExists
      <3>2. least # {} /\ least \in SUBSET DOMAIN ConfigBanks
        BY <3>1
      <3> QED
        BY <1>2, <2>2, <3>2 DEF Narrowest
    <2>3. CASE S = {}
      BY <2>3 DEF Narrowest
    <2> QED
      BY <2>2, <2>3
  <1> QED
    BY <1>2, <1>3 DEF PickBank
(***************************************************************************)
(* The types of all variables, which the named facts below take apart.     *)
(***************************************************************************)
BankNames == {b.name : b \in Banks} \cup {NoBank}

RuntimeType ==
    [running : BOOLEAN, bank : BankNames, vfos : Seq(VfoType), locked : BOOLEAN,
     holding : BOOLEAN, full : BOOLEAN]

FrameType == [center : Nat, air : SUBSET Nat, fading : BOOLEAN]

LoopType ==
    [pc : {"commands", "hit", "measure", "decide", "apply"},
     bank : Banks \cup {NoBank}, cycle : Seq(PlannedBanks),
     candidate : Nat \cup {NoFreq}, seen : Nat,
     held : -1 .. HoldMax, left : Nat, dwell : Nat, force : BOOLEAN,
     blacklist : SUBSET Nat, frame : FrameType, step : StepType]

DeviceType == [center : DevMin .. DevMax, rate : Nat]

CommandType ==
    [cmd : {"start"}, bank : PlannedBanks, cycle : Seq(PlannedBanks)]
      \cup [cmd : {"stop", "skip", "resume"}]
      \cup [cmd : {"follow"}, center : Nat, bank : Banks \cup {NoBank}]
      \cup [cmd : {"add"}, freq : Nat \cup {NoFreq}]
      \cup [cmd : {"remove"}, id : Nat]
      \cup [cmd : {"place"}, id : Int, freq : Nat]
      \cup [cmd : {"lock_vfo"}, id : Nat, on : BOOLEAN]
      \cup [cmd : {"view"}, full : BOOLEAN]
      \cup [cmd : {"pan"}, center : Nat]

RequestType ==
    [op : {"none"}] \cup [op : {"start"}, plan : Plans]
      \cup [op : {"tune", "place", "follow"}, freq : Nat, id : Int]

QueueOK == queue \in Seq(CommandType) /\ Len(queue) <= QueueCap

\* The loop works on a frame only while a scan runs, and a running scan has a
\* bank: the one the other threads read.
Working ==
    /\ loop.pc # "commands" => runtime.running
    /\ runtime.running => loop.bank # NoBank /\ runtime.bank = loop.bank.name

SweepTypes ==
    /\ runtime \in RuntimeType
    /\ loop \in LoopType
    /\ device \in DeviceType
    /\ QueueOK
    /\ request \in RequestType
    /\ lockouts \subseteq Nat /\ skipped \subseteq lockouts
    /\ SlotsInv
    /\ Working

\* Lists of slots.
LEMMA SlotFields ==
    ASSUME NEW v \in Seq(VfoType)
    PROVE  /\ Len(v) \in Nat /\ DOMAIN v = 1 .. Len(v)
           /\ \A i \in DOMAIN v : v[i] \in VfoType
  BY LenProperties

LEMMA ChangedTyped ==
    ASSUME NEW v \in Seq(VfoType), NEW w, w = [i \in DOMAIN v |-> w[i]],
           \A i \in DOMAIN v : w[i] \in VfoType
    PROVE  w \in Seq(VfoType)
  <1>1. Len(v) \in Nat /\ DOMAIN v = 1 .. Len(v)
    BY SlotFields
  <1>2. w \in [1 .. Len(v) -> VfoType]
    BY <1>1
  <1> QED
    BY <1>1, <1>2

LEMMA ReleasedTyped ==
    ASSUME NEW v \in Seq(VfoType)
    PROVE  ForAllVfos(v, Released) \in Seq(VfoType) /\ ForAllVfos(v, Unlocked) \in Seq(VfoType)
  <1>1. [i \in DOMAIN v |-> Released(v[i])] \in Seq(VfoType)
    <2> DEFINE w == [i \in DOMAIN v |-> Released(v[i])]
    <2>1. \A i \in DOMAIN v : w[i] \in VfoType
      <3>1. \A slot \in VfoType : Released(slot) \in VfoType
        BY DEF Released, VfoType
      <3> QED
        BY <3>1, SlotFields
    <2> QED
      BY <2>1, ChangedTyped
  <1>2. [i \in DOMAIN v |-> Unlocked(v[i])] \in Seq(VfoType)
    <2> DEFINE w == [i \in DOMAIN v |-> Unlocked(v[i])]
    <2>1. \A i \in DOMAIN v : w[i] \in VfoType
      BY SlotFields DEF Unlocked, VfoType
    <2> QED
      BY <2>1, ChangedTyped
  <1> QED
    BY <1>1, <1>2 DEF ForAllVfos

LEMMA RehomedTyped ==
    ASSUME NEW v \in Seq(VfoType), NEW center \in Nat
    PROVE  Rehomed(v, center) \in Seq(VfoType)
  <1> DEFINE w == [i \in DOMAIN v |->
                     IF Distance(v[i].freq, center) > UsableHalf(device.rate)
                     THEN [v[i] EXCEPT !.freq = center, !.open = FALSE] ELSE v[i]]
  <1>1. Rehomed(v, center) = w
    BY DEF Rehomed, ForAllVfos
  <1>2. \A slot \in VfoType : [slot EXCEPT !.freq = center, !.open = FALSE] \in VfoType
    BY DEF VfoType
  <1>3. \A i \in DOMAIN v : w[i] \in VfoType
    BY <1>2, SlotFields
  <1> QED
    BY <1>1, <1>3, ChangedTyped

LEMMA MeasuredTyped ==
    ASSUME NEW v \in Seq(VfoType), NEW silent
    PROVE  Readings(v, silent) \in Seq(VfoType)
  <1> DEFINE w == [i \in DOMAIN v |-> Measured(v[i], silent)]
  <1>1. Readings(v, silent) = w
    BY DEF Readings, ForAllVfos
  <1>2. \A i \in DOMAIN v : w[i] \in VfoType
    BY SlotFields DEF VfoType, Measured
  <1> QED
    BY <1>1, <1>2, ChangedTyped

LEMMA ChangedSlotTyped ==
    ASSUME NEW v \in Seq(VfoType), NEW k, NEW r \in VfoType
    PROVE  [v EXCEPT ![k] = r] \in Seq(VfoType)
  <1> DEFINE w == [v EXCEPT ![k] = r]
  <1>1. w = [i \in DOMAIN v |-> w[i]] /\ \A i \in DOMAIN v : w[i] \in VfoType
    BY SlotFields
  <1> QED
    BY <1>1, ChangedTyped

LEMMA StarterTyped ==
    ASSUME NEW bank, NEW center \in Nat
    PROVE  StarterVfos(bank, center) \in Seq(VfoType)
  <1> DEFINE r == Vfo(0, center, FALSE, FALSE, FALSE)
  <1>1. r \in VfoType
    BY DEF Vfo, VfoType
  <1>2. <<>> \in Seq(VfoType) /\ <<r>> \in Seq(VfoType)
    <2> HIDE DEF r
    <2> QED
      BY <1>1
  <1> QED
    BY <1>2 DEF StarterVfos

LEMMA NewSlotTyped ==
    ASSUME NEW v \in Seq(VfoType), GoodSlots(v), NEW freq \in Nat
    PROVE  NewSlot(v, freq) \in Seq(VfoType) /\ HitSlot(v, freq) \in Seq(VfoType)
  <1> DEFINE a == IF v = <<>> THEN 0 ELSE HighestId(v) + 1
             b == (IF v = <<>> THEN 0 ELSE HighestId(v)) + 1
  <1>1. a \in Nat /\ b \in Nat
    BY HighestExists
  <1> HIDE DEF a, b
  <1> DEFINE added == Vfo(a, freq, TRUE, FALSE, TRUE)
             hit   == Vfo(b, freq, TRUE, TRUE, FALSE)
  <1>2. added \in VfoType /\ hit \in VfoType
    BY <1>1 DEF Vfo, VfoType
  <1> HIDE DEF added, hit
  <1>3. Append(v, added) \in Seq(VfoType) /\ Append(v, hit) \in Seq(VfoType)
    BY <1>2
  <1> QED
    BY <1>3 DEF NewSlot, HitSlot, a, b, added, hit

LEMMA HitTyped ==
    ASSUME NEW v \in Seq(VfoType), GoodSlots(v), NEW freq \in Nat, NEW bank
    PROVE  Allocated(v, freq, bank) \in Seq(VfoType)
  <1> DEFINE near  == Near(v, freq, AtLeast(bank.bw, AtLeast(device.rate \div FftSize, 1)))
             found == IF near # {} THEN near ELSE FreeOnes(v)
  <1>1. CASE AllowsVfos(bank) /\ found # {}
    <2> DEFINE k == First(found)
    <2>1. k \in DOMAIN v
      <3>1. found \subseteq DOMAIN v
        BY DEF Near, FreeOnes
      <3> HIDE DEF found
      <3> QED
        BY <1>1, <3>1, FoundSlot
    <2>2. Allocated(v, freq, bank) = [v EXCEPT ![k] = Caught(v[k], freq)]
      BY <1>1 DEF Allocated
    <2> HIDE DEF k
    <2>3. v[k] \in VfoType
      BY <2>1, SlotFields
    <2>4. Caught(v[k], freq) \in VfoType
      BY <2>3 DEF Caught, VfoType
    <2> QED
      BY <2>2, <2>4, ChangedSlotTyped
  <1>2. CASE found = {} /\ RoomFor(v, bank)
    <2>1. Allocated(v, freq, bank) = HitSlot(v, freq)
      BY <1>2 DEF Allocated
    <2> QED
      BY <2>1, NewSlotTyped
  <1>3. CASE ~ (AllowsVfos(bank) /\ found # {}) /\ ~ (found = {} /\ RoomFor(v, bank))
    BY <1>3 DEF Allocated
  <1> QED
    BY <1>1, <1>2, <1>3

LEMMA FewerTyped ==
    ASSUME NEW v \in Seq(VfoType), GoodSlots(v), NEW id
    PROVE  WithoutId(v, id) \in Seq(VfoType)
  <1>1. CASE WithId(v, id) = {}
    BY <1>1 DEF WithoutId
  <1>2. CASE WithId(v, id) # {}
    <2> DEFINE gone == First(WithId(v, id))
               w == [i \in 1 .. Len(v) - 1 |-> IF i < gone THEN v[i] ELSE v[i + 1]]
    <2>1. Len(v) \in Nat /\ DOMAIN v = 1 .. Len(v)
      BY SlotFields
    <2>2. WithId(v, id) \subseteq DOMAIN v
      BY DEF WithId
    <2>3. Len(v) - 1 \in Nat
      BY <1>2, <2>1, <2>2
    <2>4. \A i \in 1 .. Len(v) - 1 : v[i] \in VfoType /\ v[i + 1] \in VfoType
      BY <2>1, <2>3, SlotFields
    <2>5. w \in [1 .. Len(v) - 1 -> VfoType]
      BY <2>4
    <2>6. w \in Seq(VfoType)
      BY <2>3, <2>5
    <2> QED
      BY <1>2, <2>6 DEF WithoutId
  <1> QED
    BY <1>1, <1>2

LEMMA SkipTargets ==
    ASSUME NEW v \in Seq(VfoType), v # <<>>
    PROVE  SkipTarget(v) \in Nat
  <1>1. Len(v) \in Nat /\ DOMAIN v = 1 .. Len(v) /\ 1 \in DOMAIN v
    BY SlotFields, EmptySeq
  <1>2. \A i \in DOMAIN v : v[i].freq \in Nat
    BY SlotFields DEF VfoType
  <1>3. CASE LockedOnes(v) # {}
    <2>1. LockedOnes(v) \in SUBSET Nat /\ LockedOnes(v) \subseteq DOMAIN v
      BY <1>1 DEF LockedOnes
    <2>2. First(LockedOnes(v)) \in DOMAIN v
      BY <1>3, <2>1, FirstIsLeast
    <2> QED
      BY <1>2, <1>3, <2>2 DEF SkipTarget
  <1>4. CASE LockedOnes(v) = {}
    BY <1>1, <1>2, <1>4 DEF SkipTarget
  <1> QED
    BY <1>3, <1>4
(***************************************************************************)
(* Every step keeps the types.                                             *)
(***************************************************************************)
LEMMA Parts ==
    ASSUME SweepTypes
    PROVE  /\ runtime.running \in BOOLEAN /\ runtime.bank \in BankNames
           /\ runtime.vfos \in Seq(VfoType) /\ GoodSlots(runtime.vfos)
           /\ runtime.locked \in BOOLEAN /\ runtime.holding \in BOOLEAN
           /\ runtime.full \in BOOLEAN
           /\ loop.pc \in {"commands", "hit", "measure", "decide", "apply"}
           /\ loop.bank \in Banks \cup {NoBank} /\ loop.cycle \in Seq(PlannedBanks)
           /\ loop.held \in -1 .. HoldMax /\ loop.left \in Nat /\ loop.dwell \in Nat
           /\ loop.blacklist \subseteq Nat /\ loop.frame \in FrameType
           /\ loop.step \in StepType
           /\ device.center \in Nat /\ device.center \in DevMin .. DevMax /\ device.rate \in Nat
           /\ DevMin \in Nat /\ DevMax \in Nat
  <1>1. /\ runtime \in RuntimeType /\ loop \in LoopType /\ device \in DeviceType
        /\ GoodSlots(runtime.vfos)
    BY DEF SweepTypes, SlotsInv
  <1>2. /\ runtime.running \in BOOLEAN /\ runtime.bank \in BankNames
        /\ runtime.vfos \in Seq(VfoType) /\ runtime.locked \in BOOLEAN
        /\ runtime.holding \in BOOLEAN /\ runtime.full \in BOOLEAN
    BY <1>1 DEF RuntimeType
  <1>3. /\ loop.pc \in {"commands", "hit", "measure", "decide", "apply"}
        /\ loop.bank \in Banks \cup {NoBank} /\ loop.cycle \in Seq(PlannedBanks)
        /\ loop.held \in -1 .. HoldMax /\ loop.left \in Nat /\ loop.dwell \in Nat
        /\ loop.blacklist \subseteq Nat /\ loop.frame \in FrameType
        /\ loop.step \in StepType
    BY <1>1 DEF LoopType
  <1>4. DevMin \in Nat /\ DevMax \in Nat
    BY SweepAssumption
  <1>5. device.center \in DevMin .. DevMax /\ device.rate \in Nat
    BY <1>1 DEF DeviceType
  <1>6. device.center \in Nat
    BY <1>4, <1>5
  <1> QED
    BY <1>1, <1>2, <1>3, <1>4, <1>5, <1>6

LEMMA Taken ==
    ASSUME QueueOK, NEW name, Taking(name)
    PROVE  QueueOK' /\ Head(queue) \in CommandType /\ Head(queue).cmd = name
  <1>1. queue \in Seq(CommandType) /\ queue # <<>> /\ queue' = Tail(queue)
    BY DEF QueueOK, Taking
  <1>2. /\ Head(queue) \in CommandType
        /\ Tail(queue) \in Seq(CommandType) /\ Len(Tail(queue)) = Len(queue) - 1
    BY <1>1, HeadTailProperties
  <1> QED
    BY <1>1, <1>2, LenProperties, SweepAssumption DEF QueueOK, Taking

\* What is left of the loop's record when the hold and the candidate go.
LEMMA RestedTyped ==
    ASSUME NEW l \in LoopType
    PROVE  /\ Rested(l) \in LoopType
           /\ Rested(l).pc = l.pc /\ Rested(l).bank = l.bank /\ Rested(l).blacklist = l.blacklist
  <1>1. -1 \in -1 .. HoldMax
    BY SweepAssumption
  <1>2. Rested(l) \in LoopType
    BY <1>1 DEF Rested, LoopType
  <1>3. /\ Rested(l).pc = l.pc /\ Rested(l).bank = l.bank
        /\ Rested(l).blacklist = l.blacklist
    BY DEF Rested, LoopType
  <1> QED
    BY <1>2, <1>3

LEMMA Dwells ==
    ASSUME NEW b \in Banks
    PROVE  SettleDwell(b) \in Nat
  BY BankFields, SweepAssumption DEF SettleDwell, AtLeast

LEMMA PlannedAreBanks == PlannedBanks \subseteq Banks
  BY DEF Banks

\* A command finds the loop between two frames and leaves it there.
LEMMA CommandTypes ==
    ASSUME SweepTypes, NEW name, Taking(name),
           runtime' \in RuntimeType, loop' \in LoopType, loop'.pc = "commands",
           device' \in DeviceType, lockouts' \subseteq Nat, skipped' \subseteq lockouts',
           SlotsInv',
           runtime'.running => loop'.bank # NoBank /\ runtime'.bank = loop'.bank.name
    PROVE  SweepTypes'
  <1>1. QueueOK' /\ request' = request
    BY Taken DEF SweepTypes, Taking
  <1> QED
    BY <1>1 DEF SweepTypes, Working

LEMMA StartTypes == SweepTypes /\ StartCommand /\ SlotsInv' => SweepTypes'
  <1> SUFFICES ASSUME SweepTypes, StartCommand, SlotsInv' PROVE SweepTypes'
    OBVIOUS
  <1> DEFINE b == Head(queue).bank
             c == Head(queue).cycle
  <1>1. Taking("start") /\ loop.pc = "commands" /\ loop \in LoopType /\ device \in DeviceType
    BY DEF StartCommand, Taking, SweepTypes
  <1>2. b \in PlannedBanks /\ c \in Seq(PlannedBanks)
    BY <1>1, Taken DEF CommandType, SweepTypes
  <1>3. b \in Banks /\ SettleDwell(b) \in Nat /\ b # NoBank /\ b.name \in BankNames
    BY <1>2, Dwells, PlannedAreBanks, BankFields DEF BankNames
  <1>4. /\ runtime' = [running |-> TRUE, bank |-> b.name,
                       vfos |-> StarterVfos(b, device.center),
                       locked |-> FALSE, holding |-> FALSE, full |-> FALSE]
        /\ loop' = [Rested(loop) EXCEPT !.bank = b, !.cycle = c, !.dwell = SettleDwell(b)]
        /\ UNCHANGED <<device, lockouts, skipped>>
    BY DEF StartCommand
  <1>5. StarterVfos(b, device.center) \in Seq(VfoType)
    BY Parts, StarterTyped
  <1> HIDE DEF b, c
  <1>6. runtime' \in RuntimeType
    BY <1>3, <1>4, <1>5 DEF RuntimeType
  <1>7. loop' \in LoopType /\ loop'.pc = "commands" /\ loop'.bank = b
    BY <1>1, <1>2, <1>3, <1>4, RestedTyped DEF LoopType
  <1> QED
    BY <1>1, <1>3, <1>4, <1>6, <1>7, CommandTypes DEF SweepTypes

LEMMA StopTypes == SweepTypes /\ StopCommand /\ SlotsInv' => SweepTypes'
  <1> SUFFICES ASSUME SweepTypes, StopCommand, SlotsInv' PROVE SweepTypes'
    OBVIOUS
  <1>1. Taking("stop") /\ loop.pc = "commands" /\ loop \in LoopType /\ device \in DeviceType
    BY DEF StopCommand, Taking, SweepTypes
  <1>2. /\ runtime' = [runtime EXCEPT !.running = FALSE, !.bank = NoBank, !.vfos = <<>>,
                                      !.holding = FALSE, !.locked = FALSE]
        /\ loop' = [Rested(loop) EXCEPT !.bank = NoBank, !.cycle = <<>>]
        /\ UNCHANGED <<device, lockouts, skipped>>
    BY DEF StopCommand
  <1>3. <<>> \in Seq(VfoType) /\ <<>> \in Seq(PlannedBanks) /\ NoBank \in BankNames
    BY DEF BankNames
  <1>4. runtime' \in RuntimeType /\ ~ runtime'.running
    BY <1>2, <1>3 DEF RuntimeType, SweepTypes
  <1>5. loop' \in LoopType /\ loop'.pc = "commands"
    BY <1>1, <1>2, <1>3, RestedTyped DEF LoopType
  <1> QED
    BY <1>1, <1>2, <1>4, <1>5, CommandTypes DEF SweepTypes

LEMMA SkipTypes == SweepTypes /\ SkipCommand /\ SlotsInv' => SweepTypes'
  <1> SUFFICES ASSUME SweepTypes, SkipCommand, SlotsInv' PROVE SweepTypes'
    OBVIOUS
  <1> DEFINE out == IF runtime.vfos = <<>> THEN {} ELSE {SkipTarget(runtime.vfos)}
  <1>1. Taking("skip") /\ loop.pc = "commands" /\ loop \in LoopType /\ device \in DeviceType
    BY DEF SkipCommand, Taking, SweepTypes
  <1>2. out \subseteq Nat
    BY Parts, SkipTargets
  <1>3. /\ runtime' = [runtime EXCEPT !.locked = FALSE, !.holding = FALSE,
                                      !.vfos = ForAllVfos(runtime.vfos, Released)]
        /\ lockouts' = lockouts \cup out /\ skipped' = skipped \cup out
        /\ loop' = [Rested(loop) EXCEPT !.dwell = 0, !.force = TRUE,
                      !.blacklist = IF out = {} THEN Rested(loop).blacklist ELSE lockouts']
        /\ UNCHANGED device
    BY DEF SkipCommand
  <1> HIDE DEF out
  <1>4. lockouts' \subseteq Nat /\ skipped' \subseteq lockouts'
    BY <1>2, <1>3 DEF SweepTypes
  <1>5. ForAllVfos(runtime.vfos, Released) \in Seq(VfoType)
    BY Parts, ReleasedTyped
  <1>6. /\ runtime' \in RuntimeType /\ runtime'.running = runtime.running
        /\ runtime'.bank = runtime.bank
    BY <1>3, <1>5 DEF RuntimeType, SweepTypes
  <1> DEFINE black == IF out = {} THEN Rested(loop).blacklist ELSE lockouts'
  <1>7. black \in SUBSET Nat
    BY <1>1, <1>4, RestedTyped, Parts
  <1> HIDE DEF black
  <1>8. /\ loop' \in LoopType /\ loop'.pc = "commands" /\ loop'.bank = loop.bank
    <2>1. loop' = [Rested(loop) EXCEPT !.dwell = 0, !.force = TRUE, !.blacklist = black]
      BY <1>3 DEF black
    <2> QED
      BY <1>1, <1>7, <2>1, RestedTyped DEF LoopType
  <1> QED
    BY <1>1, <1>3, <1>4, <1>6, <1>8, CommandTypes DEF SweepTypes, Working

LEMMA ResumeTypes == SweepTypes /\ ResumeCommand /\ SlotsInv' => SweepTypes'
  <1> SUFFICES ASSUME SweepTypes, ResumeCommand, SlotsInv' PROVE SweepTypes'
    OBVIOUS
  <1>1. Taking("resume") /\ loop.pc = "commands" /\ loop \in LoopType /\ device \in DeviceType
    BY DEF ResumeCommand, Taking, SweepTypes
  <1>2. /\ runtime' = [runtime EXCEPT !.locked = FALSE, !.holding = FALSE,
                                      !.vfos = ForAllVfos(runtime.vfos, Unlocked)]
        /\ loop' = [Rested(loop) EXCEPT !.dwell = 0, !.force = TRUE]
        /\ UNCHANGED <<device, lockouts, skipped>>
    BY DEF ResumeCommand
  <1>3. ForAllVfos(runtime.vfos, Unlocked) \in Seq(VfoType)
    BY Parts, ReleasedTyped
  <1>4. /\ runtime' \in RuntimeType /\ runtime'.running = runtime.running
        /\ runtime'.bank = runtime.bank
    BY <1>2, <1>3 DEF RuntimeType, SweepTypes
  <1>5. loop' \in LoopType /\ loop'.pc = "commands" /\ loop'.bank = loop.bank
    BY <1>1, <1>2, RestedTyped DEF LoopType
  <1> QED
    BY <1>1, <1>2, <1>4, <1>5, CommandTypes DEF SweepTypes, Working

LEMMA FollowTypes == SweepTypes /\ FollowCommand /\ SlotsInv' => SweepTypes'
  <1> SUFFICES ASSUME SweepTypes, FollowCommand, SlotsInv' PROVE SweepTypes'
    OBVIOUS
  <1> DEFINE c    == Head(queue)
             next == IF c.bank # NoBank /\ (loop.bank = NoBank \/ loop.bank.name # c.bank.name)
                     THEN c.bank ELSE loop.bank
  <1>1. Taking("follow") /\ loop.pc = "commands" /\ loop \in LoopType /\ device \in DeviceType
    BY DEF FollowCommand, Taking, SweepTypes
  <1>2. c.center \in Nat /\ c.bank \in Banks \cup {NoBank}
    BY <1>1, Taken DEF CommandType, SweepTypes
  <1>3. next \in Banks \cup {NoBank} /\ (next = loop.bank \/ (next \in Banks /\ next # NoBank))
    BY <1>2, Parts, BankFields
  <1>4. /\ runtime' = [runtime EXCEPT !.vfos = Rehomed(runtime.vfos, c.center),
                         !.bank = IF next = loop.bank THEN runtime.bank ELSE next.name]
        /\ loop' = [loop EXCEPT !.bank = next, !.candidate = NoFreq, !.seen = 0]
        /\ UNCHANGED <<device, lockouts, skipped>>
    BY DEF FollowCommand
  <1>5. Rehomed(runtime.vfos, c.center) \in Seq(VfoType)
    BY <1>2, Parts, RehomedTyped
  <1> HIDE DEF c, next
  <1> DEFINE name == IF next = loop.bank THEN runtime.bank ELSE next.name
  <1>6. name \in BankNames
    BY <1>3, Parts DEF BankNames
  <1> HIDE DEF name
  <1>7. /\ runtime' \in RuntimeType /\ runtime'.running = runtime.running
        /\ runtime'.bank = name
    <2>1. runtime' = [runtime EXCEPT !.vfos = Rehomed(runtime.vfos, c.center), !.bank = name]
      BY <1>4 DEF name
    <2> QED
      BY <1>5, <1>6, <2>1 DEF RuntimeType, SweepTypes
  <1>8. loop' \in LoopType /\ loop'.pc = "commands" /\ loop'.bank = next
    BY <1>1, <1>3, <1>4 DEF LoopType
  <1>9. runtime'.running => loop'.bank # NoBank /\ runtime'.bank = loop'.bank.name
    BY <1>3, <1>7, <1>8 DEF name, SweepTypes, Working
  <1> QED
    BY <1>1, <1>4, <1>7, <1>8, <1>9, CommandTypes DEF SweepTypes

\* A command that changes the list of slots, or the lock, alone.
LEMMA ListTypes ==
    ASSUME SweepTypes, NEW name, Taking(name), SlotsInv',
           NEW v \in Seq(VfoType), NEW on \in BOOLEAN,
           runtime' = [runtime EXCEPT !.vfos = v, !.locked = on],
           UNCHANGED <<loop, device, lockouts, skipped>>
    PROVE  SweepTypes'
  <1>1. runtime' \in RuntimeType /\ runtime'.running = runtime.running /\ runtime'.bank = runtime.bank
    BY DEF SweepTypes, RuntimeType
  <1>2. loop.pc = "commands" /\ loop \in LoopType /\ device \in DeviceType
    BY DEF Taking, SweepTypes
  <1> QED
    BY <1>1, <1>2, CommandTypes DEF SweepTypes, Working

LEMMA ListCommandTypes ==
    SweepTypes /\ (AddCommand \/ RemoveCommand \/ PlaceCommand \/ LockVfoCommand) /\ SlotsInv'
        => SweepTypes'
  <1> SUFFICES ASSUME SweepTypes, SlotsInv',
                      AddCommand \/ RemoveCommand \/ PlaceCommand \/ LockVfoCommand
               PROVE  SweepTypes'
    OBVIOUS
  <1> DEFINE v == runtime.vfos
             c == Head(queue)
             k == First(WithId(v, c.id))
  <1>1. runtime \in RuntimeType /\ v \in Seq(VfoType) /\ GoodSlots(v) /\ runtime.locked \in BOOLEAN
    BY Parts DEF SweepTypes
  <1>2. WithId(v, c.id) # {} => k \in DOMAIN v /\ v[k] \in VfoType
    <2> DEFINE found == WithId(v, c.id)
    <2>1. found \subseteq DOMAIN v
      BY DEF WithId
    <2> HIDE DEF found
    <2>2. found # {} => First(found) \in DOMAIN v
      BY <1>1, <2>1, FoundSlot
    <2>3. \A j \in DOMAIN v : v[j] \in VfoType
      BY <1>1, SlotFields
    <2> QED
      BY <2>2, <2>3 DEF found
  <1>3. CASE AddCommand
    <2> DEFINE freq == IF c.freq = NoFreq THEN device.center ELSE c.freq
               w == IF Len(v) < MaxVfos THEN NewSlot(v, freq) ELSE v
    <2>1. Taking("add") /\ freq \in Nat
      <3>1. Taking("add")
        BY <1>3 DEF AddCommand
      <3>2. c \in CommandType /\ c.cmd = "add"
        BY <3>1, Taken DEF SweepTypes
      <3>3. c.freq \in Nat \cup {NoFreq}
        BY <3>2 DEF CommandType
      <3>4. device.center \in Nat
        BY Parts
      <3> QED
        BY <3>1, <3>3, <3>4
    <2>2. w \in Seq(VfoType)
      BY <1>1, <2>1, NewSlotTyped
    <2>3. runtime' = [runtime EXCEPT !.vfos = w] /\ UNCHANGED <<loop, device, lockouts, skipped>>
      BY <1>3 DEF AddCommand
    <2> HIDE DEF w, freq
    <2>4. runtime' = [runtime EXCEPT !.vfos = w, !.locked = runtime.locked]
      BY <1>1, <2>3 DEF RuntimeType
    <2> QED
      BY <1>1, <2>1, <2>2, <2>3, <2>4, ListTypes
  <1>4. CASE RemoveCommand
    <2> DEFINE w == IF Len(v) > 1 THEN WithoutId(v, c.id) ELSE v
    <2>1. Taking("remove")
      BY <1>4 DEF RemoveCommand
    <2>2. w \in Seq(VfoType)
      BY <1>1, FewerTyped
    <2>3. runtime' = [runtime EXCEPT !.vfos = w] /\ UNCHANGED <<loop, device, lockouts, skipped>>
      BY <1>4 DEF RemoveCommand
    <2> HIDE DEF w
    <2>4. runtime' = [runtime EXCEPT !.vfos = w, !.locked = runtime.locked]
      BY <1>1, <2>3 DEF RuntimeType
    <2> QED
      BY <1>1, <2>1, <2>2, <2>3, <2>4, ListTypes
  <1>5. CASE PlaceCommand
    <2> DEFINE r == [v[k] EXCEPT !.freq = c.freq, !.locked = TRUE]
               w == IF WithId(v, c.id) = {} THEN v ELSE [v EXCEPT ![k] = r]
    <2>1. Taking("place") /\ c.freq \in Nat
      BY <1>5, Taken DEF PlaceCommand, CommandType, SweepTypes
    <2>2. w \in Seq(VfoType)
      <3>1. CASE WithId(v, c.id) # {}
        <4>1. r \in VfoType
          BY <1>2, <2>1, <3>1 DEF VfoType
        <4> HIDE DEF r, k
        <4> QED
          BY <1>1, <4>1, <3>1, ChangedSlotTyped
      <3> QED
        BY <1>1, <3>1
    <2>3. runtime' = [runtime EXCEPT !.vfos = w, !.locked = TRUE]
      <3>1. CASE WithId(v, c.id) = {}
        BY <1>1, <1>5, <3>1 DEF PlaceCommand, RuntimeType
      <3>2. CASE WithId(v, c.id) # {}
        <4>1. runtime' = [runtime EXCEPT !.locked = TRUE,
                            !.vfos = [v EXCEPT ![k].freq = c.freq, ![k].locked = TRUE]]
          BY <1>5, <3>2 DEF PlaceCommand
        <4>2. [v EXCEPT ![k].freq = c.freq, ![k].locked = TRUE] = [v EXCEPT ![k] = r]
          BY <1>1, <1>2, <3>2, SlotFields
        <4> QED
          BY <1>1, <3>2, <4>1, <4>2 DEF RuntimeType
      <3> QED
        BY <3>1, <3>2
    <2>4. UNCHANGED <<loop, device, lockouts, skipped>>
      BY <1>5 DEF PlaceCommand
    <2> HIDE DEF w
    <2> QED
      BY <2>1, <2>2, <2>3, <2>4, ListTypes
  <1>6. CASE LockVfoCommand
    <2> DEFINE r == [v[k] EXCEPT !.locked = c.on]
               w == IF WithId(v, c.id) = {} THEN v ELSE [v EXCEPT ![k] = r]
    <2>1. Taking("lock_vfo") /\ c.on \in BOOLEAN
      BY <1>6, Taken DEF LockVfoCommand, CommandType, SweepTypes
    <2>2. w \in Seq(VfoType)
      <3>1. CASE WithId(v, c.id) # {}
        <4>1. r \in VfoType
          BY <1>2, <2>1, <3>1 DEF VfoType
        <4> HIDE DEF r, k
        <4> QED
          BY <1>1, <4>1, <3>1, ChangedSlotTyped
      <3> QED
        BY <1>1, <3>1
    <2>3. runtime' = [runtime EXCEPT !.vfos = w, !.locked = runtime.locked]
      <3>1. CASE WithId(v, c.id) = {}
        BY <1>1, <1>6, <3>1 DEF LockVfoCommand, RuntimeType
      <3>2. CASE WithId(v, c.id) # {}
        <4>1. runtime' = [runtime EXCEPT !.vfos[k].locked = c.on]
          BY <1>6, <3>2 DEF LockVfoCommand
        <4>2. runtime' = [runtime EXCEPT !.vfos = [v EXCEPT ![k] = r]]
          BY <1>1, <1>2, <3>2, <4>1
        <4> QED
          BY <1>1, <3>2, <4>2 DEF RuntimeType
      <3> QED
        BY <3>1, <3>2
    <2>4. UNCHANGED <<loop, device, lockouts, skipped>>
      BY <1>6 DEF LockVfoCommand
    <2> HIDE DEF w
    <2> QED
      BY <1>1, <2>1, <2>2, <2>3, <2>4, ListTypes
  <1> QED
    BY <1>3, <1>4, <1>5, <1>6

\* A tuning call that succeeds has put the radio within the device's range.
LEMMA TuneTypes ==
    ASSUME device \in DeviceType, NEW freq \in Nat, MayTune(freq)
    PROVE  device' \in DeviceType
  BY SweepAssumption DEF MayTune, TuneOk, DeviceType

LEMMA ViewTypes == SweepTypes /\ (ViewCommand \/ PanCommand) /\ SlotsInv' => SweepTypes'
  <1> SUFFICES ASSUME SweepTypes, ViewCommand \/ PanCommand, SlotsInv' PROVE SweepTypes'
    OBVIOUS
  <1>1. /\ device \in DeviceType /\ runtime \in RuntimeType /\ loop \in LoopType
        /\ loop.pc = "commands" /\ UNCHANGED <<loop, lockouts, skipped>>
    BY DEF ViewCommand, PanCommand, Taking, SweepTypes
  <1>2. CASE ViewCommand
    <2>1. Taking("view") /\ Head(queue).full \in BOOLEAN
      BY <1>2, Taken DEF ViewCommand, CommandType, SweepTypes
    <2>2. Recenter(device.center, FALSE) \in Nat
      BY Parts, Recenters DEF Recenter
    <2>3. device' \in DeviceType
      BY <1>1, <1>2, <2>2, TuneTypes DEF ViewCommand
    <2>4. /\ runtime' \in RuntimeType /\ runtime'.running = runtime.running
          /\ runtime'.bank = runtime.bank
      BY <1>1, <1>2, <2>1 DEF ViewCommand, RuntimeType
    <2> QED
      BY <1>1, <2>1, <2>3, <2>4, CommandTypes DEF SweepTypes, Working
  <1>3. CASE PanCommand
    <2>1. Taking("pan") /\ Head(queue).center \in Nat
      BY <1>3, Taken DEF PanCommand, CommandType, SweepTypes
    <2>2. Recenter(Head(queue).center, runtime.full) \in Nat
      BY <2>1, Parts, Recenters DEF Recenter
    <2>3. device' \in DeviceType /\ runtime' = runtime
      BY <1>1, <1>3, <2>2, TuneTypes DEF PanCommand
    <2> QED
      BY <1>1, <2>1, <2>3, CommandTypes DEF SweepTypes, Working
  <1> QED
    BY <1>2, <1>3
\* The stages of a frame.
LEMMA ExtendedTyped ==
    ASSUME NEW l \in LoopType, NEW b \in Banks
    PROVE  /\ Extended(l, b) \in LoopType
           /\ Extended(l, b).pc = l.pc /\ Extended(l, b).bank = l.bank
           /\ Extended(l, b).blacklist = l.blacklist /\ Extended(l, b).held # -1
           /\ b.hold > 0 /\ Extended(l, b).left = 0 => Extended(l, b).held >= HoldMax
  <1> DEFINE since == IF l.held = -1 THEN 0 ELSE l.held
             rest  == AtMost(b.hold, HoldMax - since)
  <1>1. HoldMax \in Nat /\ b.hold \in Nat /\ l.held \in -1 .. HoldMax
    BY BankFields, SweepAssumption DEF LoopType
  <1>2. since \in -1 .. HoldMax /\ since # -1 /\ rest \in Nat
    BY <1>1 DEF AtMost
  <1>3. b.hold > 0 /\ rest = 0 => since >= HoldMax
    BY <1>1, <1>2 DEF AtMost
  <1>4. Extended(l, b) = [l EXCEPT !.held = since, !.left = rest]
    BY DEF Extended
  <1> HIDE DEF since, rest
  <1>5. Extended(l, b).held = since /\ Extended(l, b).left = rest
    BY <1>4 DEF LoopType
  <1> QED
    BY <1>2, <1>3, <1>4, <1>5 DEF LoopType

LEMMA NextTurnTyped ==
    ASSUME NEW l \in LoopType
    PROVE  /\ NextTurn(l) \in LoopType
           /\ NextTurn(l).pc = "commands" /\ NextTurn(l).bank = l.bank
           /\ NextTurn(l).blacklist = l.blacklist
  <1> DEFINE left  == Monus(l.left, 1)
             dwell == Monus(l.dwell, 1)
             held  == IF l.held = -1 THEN -1 ELSE AtMost(l.held + 1, HoldMax)
             seen  == IF l.candidate = NoFreq THEN 0 ELSE AtMost(l.seen + 1, ConfirmFrames)
  <1>1. /\ l.left \in Nat /\ l.dwell \in Nat /\ l.held \in -1 .. HoldMax /\ l.seen \in Nat
        /\ HoldMax \in Nat /\ ConfirmFrames \in Nat
    BY SweepAssumption DEF LoopType
  <1>2. left \in Nat /\ dwell \in Nat /\ held \in -1 .. HoldMax /\ seen \in Nat
    BY <1>1 DEF Monus, AtMost
  <1>3. StayHere \in StepType
    BY DEF StayHere, StepType
  <1>4. NextTurn(l) = [l EXCEPT !.pc = "commands", !.step = StayHere, !.force = FALSE,
                         !.left = left, !.dwell = dwell, !.held = held, !.seen = seen]
    BY DEF NextTurn
  <1> HIDE DEF left, dwell, held, seen
  <1>5. NextTurn(l) \in LoopType
    <2>1. [l EXCEPT !.pc = "commands", !.step = StayHere, !.force = FALSE] \in LoopType
      BY <1>3 DEF LoopType
    <2>2. \A m \in LoopType :
            [m EXCEPT !.left = left, !.dwell = dwell, !.held = held, !.seen = seen] \in LoopType
      BY <1>2 DEF LoopType
    <2>3. NextTurn(l) = [[l EXCEPT !.pc = "commands", !.step = StayHere, !.force = FALSE]
                           EXCEPT !.left = left, !.dwell = dwell, !.held = held, !.seen = seen]
      BY <1>4
    <2> QED
      BY <2>1, <2>2, <2>3
  <1>6. /\ NextTurn(l).pc = "commands" /\ NextTurn(l).bank = l.bank
        /\ NextTurn(l).blacklist = l.blacklist
    BY <1>4 DEF LoopType
  <1> QED
    BY <1>5, <1>6

\* A frame leaves requests, radio and blacklist table alone.
LEMMA FrameTypes ==
    ASSUME SweepTypes, runtime' \in RuntimeType, loop' \in LoopType, SlotsInv',
           UNCHANGED <<device, queue, lockouts, request, skipped>>,
           runtime.running, runtime'.running = runtime.running,
           runtime'.bank = runtime.bank, loop'.bank = loop.bank
    PROVE  SweepTypes'
  BY DEF SweepTypes, QueueOK, Working

\* What one peak does: with the copy of the blacklist the stage works on, the
\* candidate and its age, whether it is a hit, and the channel that is hit.
PeakDoes(freq, known, age, hit, next) ==
    LET base == [loop EXCEPT !.pc = "measure", !.candidate = next, !.seen = age,
                             !.blacklist = known]
    IN /\ hit => ~ IsLockedOut(freq, known, loop.bank.bw)
       /\ runtime' = IF hit THEN [runtime EXCEPT !.vfos =
                                    Allocated(runtime.vfos, freq, loop.bank)]
                     ELSE runtime
       /\ loop' = IF hit /\ loop.bank.hold > 0 THEN Extended(base, loop.bank) ELSE base

LEMMA PeakShape ==
    ASSUME NEW channel, Peak(channel)
    PROVE  LET freq == StableChannel(loop.bank, Seen(channel), StepHz)
           IN  \E known \in {loop.blacklist, lockouts}, age \in {loop.seen, 0}, hit \in BOOLEAN,
             next \in {NoFreq, loop.candidate, freq} :
               PeakDoes(freq, known, age, hit, next)
  <1> DEFINE bank     == loop.bank
             detected == Seen(channel)
             freq     == StableChannel(bank, detected, StepHz)
             ignored(known) ==
                 \/ IsDcRejected(detected, device.center, device.rate, FftSize, DcReject)
                 \/ IsLockedOut(freq, known, bank.bw)
             same     == /\ loop.candidate # NoFreq
                         /\ Distance(loop.candidate, freq) <= ChannelRadius(bank.bw)
             next(known) == IF ignored(known) THEN NoFreq
                            ELSE IF same THEN loop.candidate ELSE freq
             age(known)  == IF ~ ignored(known) /\ same THEN loop.seen ELSE 0
             hit(known)  == /\ ~ ignored(known)
                            /\ CandidateConfirmed(next(known), freq, bank.bw, age(known),
                                                  ConfirmFrames)
             base(known) == [loop EXCEPT !.pc = "measure", !.candidate = next(known),
                                         !.seen = age(known), !.blacklist = known]
  <1>1. PICK known \in {loop.blacklist, lockouts} :
           /\ runtime' = IF hit(known) THEN [runtime EXCEPT !.vfos = Allocated(@, freq, bank)]
                         ELSE runtime
           /\ loop' = IF hit(known) /\ bank.hold > 0 THEN Extended(base(known), bank)
                      ELSE base(known)
    BY DEF Peak
  <1>2. /\ age(known) \in {loop.seen, 0} /\ next(known) \in {NoFreq, loop.candidate, freq}
        /\ hit(known) \in BOOLEAN /\ (hit(known) => ~ IsLockedOut(freq, known, bank.bw))
    BY DEF CandidateConfirmed
  <1> HIDE DEF next, age, hit
  <1>3. PeakDoes(freq, known, age(known), hit(known), next(known))
    BY <1>1, <1>2 DEF PeakDoes
  <1> QED
    BY <1>2, <1>3

LEMMA HitTypes == SweepTypes /\ Hit /\ SlotsInv' => SweepTypes'
  <1> SUFFICES ASSUME SweepTypes, Hit, SlotsInv' PROVE SweepTypes'
    OBVIOUS
  <1>1. /\ loop.pc = "hit" /\ UNCHANGED <<device, queue, lockouts, request, skipped>>
        /\ runtime.running /\ loop.bank \in Banks
        /\ loop \in LoopType /\ runtime \in RuntimeType
    BY Parts DEF Hit, SweepTypes, Working
  <1>2. CASE NoPeak
    <2>1. loop' \in LoopType /\ loop'.bank = loop.bank /\ UNCHANGED runtime
      BY <1>1, <1>2 DEF NoPeak, LoopType
    <2> QED
      BY <1>1, <2>1, FrameTypes
  <1>3. ASSUME NEW channel \in loop.frame.air, Peak(channel) PROVE SweepTypes'
    <2> DEFINE freq == StableChannel(loop.bank, Seen(channel), StepHz)
    <2>1. freq \in Nat
      <3>1. channel \in Nat /\ loop.frame.center \in Nat /\ device.center \in Nat
        BY <1>3, Parts DEF FrameType
      <3>2. Seen(channel) \in Nat
        BY <3>1 DEF Seen, Monus
      <3> QED
        BY <1>1, <3>2, StableChannels
    <2> HIDE DEF freq
    <2>2. PICK known \in {loop.blacklist, lockouts}, age \in {loop.seen, 0}, hit \in BOOLEAN,
               next \in {NoFreq, loop.candidate, freq} :
             PeakDoes(freq, known, age, hit, next)
      BY <1>3, PeakShape DEF freq
    <2> DEFINE base == [loop EXCEPT !.pc = "measure", !.candidate = next, !.seen = age,
                                    !.blacklist = known]
    <2>3. known \in SUBSET Nat /\ age \in Nat /\ next \in Nat \cup {NoFreq}
      <3>1. /\ loop.seen \in Nat /\ loop.candidate \in Nat \cup {NoFreq}
            /\ loop.blacklist \in SUBSET Nat
        BY DEF LoopType, SweepTypes
      <3>2. lockouts \in SUBSET Nat
        BY DEF SweepTypes
      <3>3. known \in SUBSET Nat
        BY <3>1, <3>2
      <3>4. age \in Nat
        BY <3>1
      <3>5. next \in Nat \cup {NoFreq}
        BY <2>1, <3>1
      <3> QED
        BY <3>3, <3>4, <3>5
    <2>4. base \in LoopType /\ base.bank = loop.bank
      BY <1>1, <2>3 DEF LoopType
    <2> HIDE DEF base
    <2>5. loop' = base \/ loop' = Extended(base, loop.bank)
      BY <2>2 DEF base, PeakDoes
    <2>6. loop' \in LoopType /\ loop'.bank = loop.bank
      BY <1>1, <2>4, <2>5, ExtendedTyped
    <2>7. Allocated(runtime.vfos, freq, loop.bank) \in Seq(VfoType)
      BY <2>1, Parts, HitTyped
    <2>8. /\ runtime' \in RuntimeType /\ runtime'.running = runtime.running
          /\ runtime'.bank = runtime.bank
      BY <1>1, <2>2, <2>7 DEF RuntimeType, PeakDoes
    <2> QED
      BY <1>1, <2>6, <2>8, FrameTypes
  <1> QED
    BY <1>2, <1>3 DEF Hit

\* Measuring: either a slot is on a signal, which starts or extends the hold, or
\* the hold goes on, or it is over.
LEMMA MeasureShape ==
    ASSUME Measure
    PROVE  \E silent, started :
             LET base == [loop EXCEPT !.pc = "decide", !.frame = Silence]
                 vfos == Readings(runtime.vfos, silent)
                 present == OnSignal(vfos) # {}
                 holding == started.left > 0
             IN /\ started = IF ~ present THEN base
                             ELSE IF loop.bank.hold > 0 THEN Extended(base, loop.bank)
                             ELSE [base EXCEPT !.held = IF @ = -1 THEN 0 ELSE @]
                /\ runtime' = [runtime EXCEPT !.vfos = vfos, !.holding = holding]
                /\ loop' = IF present \/ holding THEN started
                           ELSE [started EXCEPT !.held = -1, !.left = 0]
  BY DEF Measure

LEMMA MeasureTypes ==
    ASSUME SweepTypes, Measure, SlotsInv'
    PROVE  /\ SweepTypes'
           /\ ~ runtime'.holding =>
                OnSignal(runtime'.vfos) = {} \/ loop'.held >= HoldMax \/ loop'.bank.hold = 0
           /\ loop'.blacklist = loop.blacklist /\ loop'.pc = "decide"
           /\ (runtime.vfos # <<>> => runtime'.vfos # <<>>)
           /\ runtime'.bank = runtime.bank /\ runtime'.running = runtime.running
           /\ loop'.bank = loop.bank
  <1>1. /\ loop.pc = "measure" /\ UNCHANGED <<device, queue, lockouts, request, skipped>>
        /\ runtime.running /\ loop.bank \in Banks
        /\ loop \in LoopType /\ runtime \in RuntimeType /\ runtime.vfos \in Seq(VfoType)
    BY Parts DEF Measure, SweepTypes, Working
  <1> DEFINE base == [loop EXCEPT !.pc = "decide", !.frame = Silence]
             vfos(silent) == Readings(runtime.vfos, silent)
             present(silent) == OnSignal(vfos(silent)) # {}
  <1>2. PICK silent, started :
          /\ started = IF ~ present(silent) THEN base
                       ELSE IF loop.bank.hold > 0 THEN Extended(base, loop.bank)
                       ELSE [base EXCEPT !.held = IF base.held = -1 THEN 0 ELSE base.held]
          /\ runtime' = [runtime EXCEPT !.vfos = vfos(silent), !.holding = started.left > 0]
          /\ loop' = IF present(silent) \/ started.left > 0 THEN started
                     ELSE [started EXCEPT !.held = -1, !.left = 0]
    BY MeasureShape
  <1>3. /\ base \in LoopType /\ base.bank = loop.bank /\ base.pc = "decide"
        /\ base.blacklist = loop.blacklist
    BY <1>1 DEF LoopType, Silence, FrameType
  <1>4. vfos(silent) \in Seq(VfoType) /\ (runtime.vfos # <<>> => vfos(silent) # <<>>)
    <2>1. vfos(silent) \in Seq(VfoType)
      BY <1>1, MeasuredTyped
    <2>2. DOMAIN vfos(silent) = DOMAIN runtime.vfos
      BY DEF Readings, ForAllVfos
    <2> QED
      BY <1>1, <2>1, <2>2, SlotFields, EmptySeq
  <1>5. HoldMax \in Nat /\ loop.bank.hold \in Nat
    BY <1>1, BankFields, SweepAssumption
  <1> HIDE DEF base, vfos
  <1>6. /\ started \in LoopType /\ started.bank = loop.bank /\ started.pc = "decide"
        /\ started.blacklist = loop.blacklist
    <2>1. CASE ~ present(silent)
      BY <1>2, <1>3, <2>1
    <2>2. CASE present(silent) /\ loop.bank.hold > 0
      BY <1>1, <1>2, <1>3, <2>2, ExtendedTyped
    <2>3. CASE present(silent) /\ ~ (loop.bank.hold > 0)
      <3> DEFINE held == IF base.held = -1 THEN 0 ELSE base.held
      <3>1. held \in -1 .. HoldMax
        BY <1>3, <1>5 DEF LoopType
      <3>2. started = [base EXCEPT !.held = held]
        BY <1>2, <2>3
      <3> HIDE DEF held
      <3> QED
        BY <1>3, <3>1, <3>2 DEF LoopType
    <2> QED
      BY <2>1, <2>2, <2>3
  <1>7. /\ loop' \in LoopType /\ loop'.bank = loop.bank /\ loop'.pc = "decide"
        /\ loop'.blacklist = loop.blacklist
    <2>1. -1 \in -1 .. HoldMax
      BY <1>5
    <2> QED
      BY <1>2, <1>6, <2>1 DEF LoopType
  <1>8. /\ runtime' \in RuntimeType /\ runtime'.running = runtime.running
        /\ runtime'.bank = runtime.bank /\ runtime'.vfos = vfos(silent)
        /\ runtime'.holding = (started.left > 0)
    <2>1. (started.left > 0) \in BOOLEAN
      OBVIOUS
    <2> QED
      BY <1>1, <1>2, <1>4, <2>1 DEF RuntimeType
  <1>9. ~ runtime'.holding =>
          OnSignal(runtime'.vfos) = {} \/ loop'.held >= HoldMax \/ loop'.bank.hold = 0
    <2> SUFFICES ASSUME ~ runtime'.holding, present(silent), loop.bank.hold # 0
                 PROVE  loop'.held >= HoldMax
      BY <1>7, <1>8
    <2>1. loop.bank.hold > 0 /\ started = Extended(base, loop.bank) /\ loop' = started
      BY <1>2, <1>5
    <2>2. started.left \in Nat /\ ~ (started.left > 0)
      BY <1>6, <1>8 DEF LoopType
    <2>3. Extended(base, loop.bank).left = 0
      BY <2>1, <2>2
    <2> QED
      BY <1>1, <1>3, <2>1, <2>3, ExtendedTyped
  <1> QED
    BY <1>1, <1>4, <1>7, <1>8, <1>9, FrameTypes

LEMMA DecideTypes == SweepTypes /\ (TakeFrame \/ Decide \/ ApplyStay) /\ SlotsInv' => SweepTypes'
  <1> SUFFICES ASSUME SweepTypes, TakeFrame \/ Decide \/ ApplyStay, SlotsInv' PROVE SweepTypes'
    OBVIOUS
  <1>1. /\ UNCHANGED <<runtime, device, queue, lockouts, request, skipped>>
        /\ loop \in LoopType /\ runtime \in RuntimeType
    BY DEF TakeFrame, Decide, ApplyStay, SweepTypes
  <1>2. runtime.running /\ loop.bank \in Banks
    BY Parts DEF TakeFrame, Decide, ApplyStay, SweepTypes, Working
  <1>3. CASE TakeFrame
    <2>1. PICK air \in SUBSET Channels, fading \in BOOLEAN :
             loop' = [loop EXCEPT !.pc = "hit", !.frame =
                        [center |-> device.center, air |-> air, fading |-> fading]]
      BY <1>3 DEF TakeFrame
    <2>2. [center |-> device.center, air |-> air, fading |-> fading] \in FrameType
      BY Parts, SweepAssumption DEF FrameType
    <2>3. loop' \in LoopType /\ loop'.bank = loop.bank
      BY <1>1, <2>1, <2>2 DEF LoopType
    <2> QED
      BY <1>1, <1>2, <2>3, FrameTypes
  <1>4. CASE Decide
    <2> DEFINE step == IF ShouldSweep
                       THEN NextScanStep(loop.bank, loop.cycle, device.center, Usable)
                       ELSE StayHere
    <2>1. step \in StepType
      <3>1. Usable \in Nat
        BY Parts, Spans DEF Usable
      <3>2. NextScanStep(loop.bank, loop.cycle, device.center, Usable) \in StepType
        BY <1>2, <3>1, Parts, StepsTyped
      <3>3. StayHere \in StepType
        BY DEF StayHere, StepType
      <3> QED
        BY <3>2, <3>3
    <2>2. loop' = [loop EXCEPT !.pc = "apply", !.step = step]
      BY <1>4 DEF Decide
    <2> HIDE DEF step
    <2>3. loop' \in LoopType /\ loop'.bank = loop.bank
      BY <1>1, <2>1, <2>2 DEF LoopType
    <2> QED
      BY <1>1, <1>2, <2>3, FrameTypes
  <1>5. CASE ApplyStay
    BY <1>1, <1>2, <1>5, NextTurnTyped, FrameTypes DEF ApplyStay
  <1> QED
    BY <1>3, <1>4, <1>5

LEMMA DwellTyped ==
    ASSUME NEW l \in LoopType, NEW n \in Nat
    PROVE  /\ [l EXCEPT !.dwell = n] \in LoopType
           /\ [l EXCEPT !.dwell = n].bank = l.bank
           /\ [l EXCEPT !.dwell = n].blacklist = l.blacklist
  BY DEF LoopType

LEMMA RetuneTypes == SweepTypes /\ ApplyRetune /\ SlotsInv' => SweepTypes'
  <1> SUFFICES ASSUME SweepTypes, ApplyRetune, SlotsInv' PROVE SweepTypes'
    OBVIOUS
  <1> DEFINE next == loop.step.center
  <1>1. /\ UNCHANGED <<queue, lockouts, request, skipped>> /\ loop.pc = "apply"
        /\ loop.step.kind = "retune"
        /\ loop \in LoopType /\ runtime \in RuntimeType /\ device \in DeviceType
    BY DEF ApplyRetune, SweepTypes
  <1>2. next \in Nat
    BY <1>1, Parts DEF StepType
  <1>3. runtime.running /\ loop.bank \in Banks
    BY <1>1, Parts DEF SweepTypes, Working
  <1>4. SettleDwell(loop.bank) \in Nat
    BY <1>3, Dwells
  <1>5. loop' \in LoopType /\ loop'.bank = loop.bank
    <2>1. \/ loop' = NextTurn([Rested(loop) EXCEPT !.dwell = SettleDwell(loop.bank)])
          \/ loop' = NextTurn([loop EXCEPT !.dwell = SettleDwell(loop.bank)])
      BY DEF ApplyRetune
    <2>2. ASSUME NEW l \in LoopType, l.bank = loop.bank
          PROVE  /\ NextTurn([l EXCEPT !.dwell = SettleDwell(loop.bank)]) \in LoopType
                 /\ NextTurn([l EXCEPT !.dwell = SettleDwell(loop.bank)]).bank = loop.bank
      BY <1>4, <2>2, DwellTyped, NextTurnTyped
    <2>3. Rested(loop) \in LoopType /\ Rested(loop).bank = loop.bank
      BY <1>1, RestedTyped
    <2> QED
      BY <1>1, <2>1, <2>2, <2>3
  <1>6. /\ runtime' \in RuntimeType /\ runtime'.running = runtime.running
        /\ runtime'.bank = runtime.bank
    <2>1. \/ runtime' = [runtime EXCEPT !.holding = FALSE,
                                        !.vfos = ForAllVfos(runtime.vfos, Released)]
          \/ UNCHANGED runtime
      BY DEF ApplyRetune
    <2>2. ForAllVfos(runtime.vfos, Released) \in Seq(VfoType)
      BY Parts, ReleasedTyped
    <2> QED
      BY <1>1, <2>1, <2>2 DEF RuntimeType
  <1>7. device' \in DeviceType
    BY <1>1, <1>2, SweepAssumption DEF ApplyRetune, TuneOk, DeviceType
  <1> QED
    BY <1>1, <1>3, <1>5, <1>6, <1>7 DEF SweepTypes, QueueOK, Working

LEMMA SwitchTypes == SweepTypes /\ ApplySwitch /\ SlotsInv' => SweepTypes'
  <1> SUFFICES ASSUME SweepTypes, ApplySwitch, SlotsInv' PROVE SweepTypes'
    OBVIOUS
  <1> DEFINE bank == loop.step.bank
             center(rate) == InitialScanCenter(bank, UsableSpan(rate, rate))
  <1>1. /\ UNCHANGED <<queue, lockouts, request, skipped>> /\ loop.pc = "apply"
        /\ loop.step.kind = "switch"
        /\ loop \in LoopType /\ runtime \in RuntimeType /\ device \in DeviceType
    BY DEF ApplySwitch, SweepTypes
  <1>2. bank \in PlannedBanks /\ bank \in Banks
    BY <1>1, Parts, PlannedAreBanks DEF StepType
  <1>3. /\ runtime.running /\ loop.bank \in Banks /\ SettleDwell(bank) \in Nat
        /\ bank.name \in BankNames /\ bank # NoBank
    BY <1>1, <1>2, Parts, Dwells, BankFields DEF SweepTypes, Working, BankNames
  <1>4. PICK rate \in Contracts(AtLeast(device.rate, bank.rate)) :
          \/ /\ TuneOk(center(rate))
             /\ device' = [center |-> center(rate), rate |-> rate]
             /\ runtime' = [runtime EXCEPT !.bank = bank.name, !.holding = FALSE,
                              !.locked = FALSE, !.vfos = StarterVfos(bank, center(rate))]
             /\ loop' = NextTurn([Rested(loop) EXCEPT !.bank = bank, !.dwell = SettleDwell(bank)])
          \/ /\ device' = [device EXCEPT !.rate = rate]
             /\ loop' = NextTurn(loop)
             /\ UNCHANGED runtime
    BY DEF ApplySwitch
  <1>5. rate \in Nat
    BY <1>2, Parts, BankFields DEF Contracts, AtLeast
  <1>6. center(rate) \in Nat
    BY <1>2, <1>5, Spans, InitialCenters
  <1> HIDE DEF bank, center
  <1>7. CASE /\ TuneOk(center(rate))
             /\ device' = [center |-> center(rate), rate |-> rate]
             /\ runtime' = [runtime EXCEPT !.bank = bank.name, !.holding = FALSE,
                              !.locked = FALSE, !.vfos = StarterVfos(bank, center(rate))]
             /\ loop' = NextTurn([Rested(loop) EXCEPT !.bank = bank, !.dwell = SettleDwell(bank)])
    <2>1. device' \in DeviceType
      BY <1>5, <1>6, <1>7, SweepAssumption DEF TuneOk, DeviceType
    <2>2. StarterVfos(bank, center(rate)) \in Seq(VfoType)
      BY <1>6, StarterTyped
    <2>3. /\ runtime' \in RuntimeType /\ runtime'.running = runtime.running
          /\ runtime'.bank = bank.name
      BY <1>1, <1>3, <1>7, <2>2 DEF RuntimeType
    <2> DEFINE l == [Rested(loop) EXCEPT !.bank = bank, !.dwell = SettleDwell(bank)]
    <2>4. l \in LoopType /\ l.bank = bank
      BY <1>1, <1>2, <1>3, RestedTyped DEF LoopType
    <2> HIDE DEF l
    <2>5. loop' \in LoopType /\ loop'.bank = bank /\ loop'.pc = "commands"
      BY <1>7, <2>4, NextTurnTyped DEF l
    <2> QED
      BY <1>1, <1>3, <2>1, <2>3, <2>5 DEF SweepTypes, QueueOK, Working
  <1>8. CASE /\ device' = [device EXCEPT !.rate = rate]
             /\ loop' = NextTurn(loop)
             /\ UNCHANGED runtime
    <2>1. device' \in DeviceType
      BY <1>1, <1>5, <1>8 DEF DeviceType
    <2>2. loop' \in LoopType /\ loop'.bank = loop.bank /\ loop'.pc = "commands"
      BY <1>1, <1>8, NextTurnTyped
    <2> QED
      BY <1>1, <1>3, <1>8, <2>1, <2>2 DEF SweepTypes, QueueOK, Working
  <1> QED
    BY <1>4, <1>7, <1>8
\* Handlers.
LEMMA SentTyped ==
    ASSUME QueueOK, NEW c \in CommandType, Sent(c)
    PROVE  QueueOK'
  <1>1. queue \in Seq(CommandType) /\ Len(queue) \in Nat /\ Len(queue) <= QueueCap /\ QueueCap \in Nat
    BY LenProperties, SweepAssumption DEF QueueOK
  <1>2. CASE Len(queue) < QueueCap
    <2>1. queue' = Append(queue, c)
      BY <1>2 DEF Sent
    <2>2. Append(queue, c) \in Seq(CommandType) /\ Len(Append(queue, c)) = Len(queue) + 1
      BY <1>1
    <2> QED
      BY <1>1, <1>2, <2>1, <2>2 DEF QueueOK
  <1>3. CASE ~ (Len(queue) < QueueCap)
    BY <1>1, <1>3 DEF Sent, QueueOK
  <1> QED
    BY <1>2, <1>3

LEMMA HandlerTypes ==
    ASSUME SweepTypes, SlotsInv',
           UNCHANGED runtime \/ runtime' = [runtime EXCEPT !.locked = TRUE],
           UNCHANGED loop, device' \in DeviceType, QueueOK', request' \in RequestType,
           lockouts' \subseteq Nat, skipped' \subseteq lockouts'
    PROVE  SweepTypes'
  <1>1. /\ runtime' \in RuntimeType /\ runtime'.running = runtime.running
        /\ runtime'.bank = runtime.bank
    BY DEF SweepTypes, RuntimeType
  <1> QED
    BY <1>1 DEF SweepTypes, Working

LEMMA AskTypes ==
    ASSUME SweepTypes, SlotsInv', NEW kind, NEW c \in CommandType, Asks(kind, c)
    PROVE  SweepTypes'
  <1>1. QueueOK' /\ UNCHANGED <<runtime, loop, device, lockouts, request, skipped>>
    BY SentTyped DEF Asks, SweepTypes
  <1> QED
    BY <1>1, HandlerTypes DEF SweepTypes

LEMMA IdsTyped ==
    ASSUME SweepTypes
    PROVE  KnownIds \subseteq Nat
  BY Parts, SlotFields DEF KnownIds, VfoType

LEMMA ScanStartTypes ==
    ASSUME SweepTypes, SlotsInv', NEW plan \in Plans, ScanStart(plan)
    PROVE  SweepTypes'
  <1> DEFINE rate   == AtLeast(BootRate, plan.bank.rate)
             center == InitialScanCenter(plan.bank, UsableSpan(rate, rate))
  <1>1. plan.bank \in Banks
    BY DEF Banks, PlannedBanks
  <1>2. rate \in Nat
    BY <1>1, BankFields, SweepAssumption DEF AtLeast
  <1>3. center \in Nat
    BY <1>1, <1>2, Spans, InitialCenters
  <1>4. /\ \/ /\ TuneOk(center)
              /\ device' = [center |-> center, rate |-> rate]
              /\ request' = [op |-> "start", plan |-> plan]
           \/ device' = [device EXCEPT !.rate = rate] /\ UNCHANGED request
           \/ UNCHANGED <<device, request>>
        /\ UNCHANGED <<runtime, loop, queue, lockouts, skipped>>
    BY DEF ScanStart
  <1> HIDE DEF rate, center
  <1>5. device' \in DeviceType
    BY <1>2, <1>3, <1>4, SweepAssumption DEF SweepTypes, DeviceType, TuneOk
  <1>6. request' \in RequestType
    BY <1>4 DEF SweepTypes, RequestType
  <1>7. QueueOK'
    BY <1>4 DEF SweepTypes, QueueOK
  <1> QED
    BY <1>4, <1>5, <1>6, <1>7, HandlerTypes DEF SweepTypes

LEMMA RequestTypes ==
    ASSUME SweepTypes, SlotsInv',
           ScanStartSends \/ TuneDevice \/ FollowManualRetune \/ PlaceVfo
    PROVE  SweepTypes'
  <1>1. /\ request \in RequestType /\ device \in DeviceType /\ QueueOK
        /\ UNCHANGED <<runtime, loop, lockouts, skipped>>
        /\ [op |-> "none"] \in RequestType
    BY DEF SweepTypes, ScanStartSends, TuneDevice, FollowManualRetune, PlaceVfo, RequestType
  <1>2. CASE ScanStartSends
    <2> DEFINE c == [cmd |-> "start", bank |-> request.plan.bank, cycle |-> request.plan.cycle]
    <2>1. request.plan \in Plans
      BY <1>1, <1>2 DEF ScanStartSends, RequestType
    <2>2. request.plan.bank \in PlannedBanks /\ request.plan.cycle \in Seq(PlannedBanks)
      BY <2>1, BankAssumption DEF PlannedBanks
    <2>3. c \in CommandType
      BY <2>2 DEF CommandType
    <2>4. Sent(c) /\ request' = NoRequest /\ UNCHANGED device
      BY <1>2 DEF ScanStartSends
    <2> HIDE DEF c
    <2> QED
      BY <1>1, <2>3, <2>4, SentTyped, HandlerTypes DEF SweepTypes, NoRequest
  <1>3. CASE TuneDevice
    <2>1. request.freq \in Nat /\ request \in [op : {"tune", "place", "follow"}, freq : Nat, id : Int]
      BY <1>1, <1>3 DEF TuneDevice, RequestType
    <2>2. /\ device' = [device EXCEPT !.center = request.freq] /\ TuneOk(request.freq)
          \/ UNCHANGED device
      BY <1>3 DEF TuneDevice
    <2>3. device' \in DeviceType
      BY <1>1, <2>1, <2>2, SweepAssumption DEF TuneOk, DeviceType
    <2>4. request' = NoRequest \/ request' = [request EXCEPT !.op = "follow"]
      BY <1>3 DEF TuneDevice
    <2>5. request' \in RequestType
      BY <1>1, <2>1, <2>4 DEF NoRequest, RequestType
    <2>6. UNCHANGED queue
      BY <1>3 DEF TuneDevice
    <2> QED
      BY <1>1, <2>3, <2>5, <2>6, HandlerTypes DEF SweepTypes, QueueOK
  <1>4. CASE FollowManualRetune
    <2> DEFINE c == [cmd |-> "follow", center |-> device.center,
                     bank |-> PickBank(ConfigBanks, device.center, runtime.bank)]
    <2>1. c \in CommandType
      BY Parts, PicksTyped DEF CommandType
    <2>2. request \in [op : {"tune", "place", "follow"}, freq : Nat, id : Int]
      BY <1>1, <1>4 DEF FollowManualRetune, RequestType
    <2>3. Sent(c) /\ UNCHANGED device /\ request' \in {NoRequest, [request EXCEPT !.op = "place"]}
      BY <1>4 DEF FollowManualRetune
    <2>4. request' \in RequestType
      BY <1>1, <2>2, <2>3 DEF NoRequest, RequestType
    <2> HIDE DEF c
    <2> QED
      BY <1>1, <2>1, <2>3, <2>4, SentTyped, HandlerTypes DEF SweepTypes
  <1>5. CASE PlaceVfo
    <2> DEFINE c == [cmd |-> "place", id |-> request.id, freq |-> request.freq]
    <2>1. c \in CommandType
      BY <1>1, <1>5 DEF PlaceVfo, RequestType, CommandType
    <2>2. Sent(c) /\ request' = NoRequest /\ UNCHANGED device
      BY <1>5 DEF PlaceVfo
    <2> HIDE DEF c
    <2> QED
      BY <1>1, <2>1, <2>2, SentTyped, HandlerTypes DEF SweepTypes, NoRequest
  <1> QED
    BY <1>2, <1>3, <1>4, <1>5

LEMMA OperatorTypes == SweepTypes /\ Operators /\ SlotsInv' => SweepTypes'
  <1> SUFFICES ASSUME SweepTypes, Operators, SlotsInv' PROVE SweepTypes'
    OBVIOUS
  <1>1. CASE ScanLock
    BY <1>1, HandlerTypes DEF ScanLock, SweepTypes, QueueOK
  <1>2. CASE ScanUnlock \/ ScanSkip \/ ScanStop
    <2>1. [cmd |-> "resume"] \in CommandType /\ [cmd |-> "skip"] \in CommandType
          /\ [cmd |-> "stop"] \in CommandType
      BY DEF CommandType
    <2> QED
      BY <1>2, <2>1, AskTypes DEF ScanUnlock, ScanSkip, ScanStop
  <1>3. ASSUME NEW freq \in Tunes \cup {NoFreq}, VfoAdd(freq) PROVE SweepTypes'
    <2>1. [cmd |-> "add", freq |-> freq] \in CommandType
      BY SweepAssumption DEF CommandType
    <2> QED
      BY <1>3, <2>1, AskTypes DEF VfoAdd
  <1>4. ASSUME NEW id \in KnownIds, NEW on \in BOOLEAN, VfoRemove(id) \/ VfoLock(id, on)
        PROVE  SweepTypes'
    <2>1. id \in Nat
      BY IdsTyped
    <2>2. /\ [cmd |-> "remove", id |-> id] \in CommandType
          /\ [cmd |-> "lock_vfo", id |-> id, on |-> on] \in CommandType
      BY <2>1 DEF CommandType
    <2> QED
      BY <1>4, <2>2, AskTypes DEF VfoRemove, VfoLock
  <1>5. ASSUME NEW full \in BOOLEAN, SpectrumView(full) PROVE SweepTypes'
    <2>1. [cmd |-> "view", full |-> full] \in CommandType
      BY DEF CommandType
    <2> QED
      BY <1>5, <2>1, AskTypes DEF SpectrumView
  <1>6. ASSUME NEW center \in Tunes, ScannerPan(center) PROVE SweepTypes'
    <2>1. [cmd |-> "pan", center |-> center] \in CommandType
      BY SweepAssumption DEF CommandType
    <2> QED
      BY <1>6, <2>1, AskTypes DEF ScannerPan
  <1>7. ASSUME NEW freq \in Channels, BlacklistAdd(freq) PROVE SweepTypes'
    <2>1. lockouts' \subseteq Nat /\ skipped' \subseteq lockouts'
      BY <1>7, SweepAssumption DEF BlacklistAdd, SweepTypes
    <2> QED
      BY <1>7, <2>1, HandlerTypes DEF BlacklistAdd, SweepTypes, QueueOK
  <1>8. ASSUME NEW gone, BlacklistRemove(gone) PROVE SweepTypes'
    <2>1. lockouts' \subseteq Nat /\ skipped' \subseteq lockouts'
      BY <1>8 DEF BlacklistRemove, SweepTypes
    <2> QED
      BY <1>8, <2>1, HandlerTypes DEF BlacklistRemove, SweepTypes, QueueOK
  <1>9. ASSUME NEW freq \in Tunes, NEW id \in KnownIds \cup {-1}, TuneRequest(freq, id)
        PROVE  SweepTypes'
    <2>1. id \in Int /\ freq \in Nat
      BY IdsTyped, SweepAssumption
    <2>2. request' \in RequestType
      BY <1>9, <2>1 DEF TuneRequest, RequestType
    <2> QED
      BY <1>9, <2>2, HandlerTypes DEF TuneRequest, SweepTypes, QueueOK
  <1>10. CASE ScanStartSends \/ TuneDevice \/ FollowManualRetune \/ PlaceVfo
    BY <1>10, RequestTypes
  <1> QED
    BY <1>1, <1>2, <1>3, <1>4, <1>5, <1>6, <1>7, <1>8, <1>9, <1>10, ScanStartTypes DEF Operators

LEMMA TypesInitial == Init => SweepTypes
  <1> SUFFICES ASSUME Init PROVE SweepTypes
    OBVIOUS
  <1>1. /\ <<>> \in Seq(VfoType) /\ <<>> \in Seq(PlannedBanks) /\ <<>> \in Seq(CommandType)
        /\ Len(<<>>) = 0
    BY EmptySeq
  <1>2. -1 \in -1 .. HoldMax /\ NoBank \in BankNames
    <2>1. HoldMax \in Nat
      BY SweepAssumption
    <2>2. -1 \in -1 .. HoldMax
      BY <2>1
    <2>3. NoBank \in BankNames
      BY DEF BankNames
    <2> QED
      BY <2>2, <2>3
  <1>3. StayHere \in StepType /\ Silence \in FrameType
    BY DEF StayHere, StepType, Silence, FrameType
  <1>4. runtime \in RuntimeType /\ ~ runtime.running
    BY <1>1, <1>2 DEF Init, RuntimeType
  <1>5. loop \in LoopType /\ loop.pc = "commands"
    BY <1>1, <1>2, <1>3 DEF Init, Idle, LoopType
  <1>6. device \in DeviceType /\ QueueOK /\ request \in RequestType
    BY <1>1, SweepAssumption DEF Init, DeviceType, QueueOK, NoRequest, RequestType
  <1> QED
    BY <1>4, <1>5, <1>6, SlotsInit DEF Init, SweepTypes, Working

LEMMA TypesStep == SweepTypes /\ [Next]_vars => SweepTypes'
  <1> SUFFICES ASSUME SweepTypes, [Next]_vars PROVE SweepTypes'
    OBVIOUS
  <1>1. CASE UNCHANGED vars
    BY <1>1 DEF vars, SweepTypes, QueueOK, Working, SlotsInv
  <1>2. CASE Next
    <2>1. SlotsInv'
      BY <1>2, CommandsKeepSlots, FramesKeepSlots, OperatorsKeepSlots DEF Next, Loop, SweepTypes
    <2>2. CASE Commands
      BY <2>1, <2>2, StartTypes, StopTypes, SkipTypes, ResumeTypes, FollowTypes,
         ListCommandTypes, ViewTypes DEF Commands
    <2> QED
      BY <1>2, <2>1, <2>2, HitTypes, MeasureTypes, DecideTypes, RetuneTypes, SwitchTypes,
         OperatorTypes DEF Next, Loop
  <1> QED
    BY <1>1, <1>2

\* The state of the scanner and of every command and request under way keeps its
\* type, whatever the banks, limits and requests: the radio stays in the device's
\* range, the queue within its capacity, a running scan has a bank.
THEOREM TypeCorrect == Spec => []TypeOK
  <1>1. SweepTypes => TypeOK
    BY Parts DEF SweepTypes, QueueOK, Working, TypeOK
  <1> QED
    BY <1>1, TypesInitial, TypesStep, PTL DEF Spec
(***************************************************************************)
(* A running scan has a slot.  Only a stop empties the list, and only a    *)
(* bank without room starts with an empty one.                             *)
(***************************************************************************)
Roomy == MaxVfos > 0 /\ \A b \in PlannedBanks : b.maxVfos > 0

Staffed == runtime.running /\ Roomy => runtime.vfos # <<>>

\* A list that is not empty is told from one that is by its domain.
LEMMA Nonempty ==
    ASSUME NEW v \in Seq(VfoType)
    PROVE  v # <<>> <=> DOMAIN v # {}
  <1>1. Len(v) \in Nat /\ DOMAIN v = 1 .. Len(v)
    BY SlotFields
  <1>2. v = <<>> <=> Len(v) = 0
    BY EmptySeq
  <1>3. ASSUME NEW n \in Nat PROVE n = 0 <=> 1 .. n = {}
    <2>1. n = 0 \/ 1 \in 1 .. n
      OBVIOUS
    <2> QED
      BY <2>1
  <1> QED
    BY <1>1, <1>2, <1>3

LEMMA LongerStaffed ==
    ASSUME NEW v \in Seq(VfoType), NEW r \in VfoType
    PROVE  Append(v, r) # <<>>
  <1>1. Append(v, r) \in Seq(VfoType) /\ Len(Append(v, r)) # 0
    OBVIOUS
  <1> QED
    BY <1>1, EmptySeq

LEMMA StarterStaffed ==
    ASSUME Roomy, NEW bank \in PlannedBanks, NEW center
    PROVE  StarterVfos(bank, center) # <<>>
  <1>1. ~ (bank.maxVfos = 0 \/ MaxVfos = 0)
    BY DEF Roomy
  <1>2. StarterVfos(bank, center) = <<Vfo(0, center, FALSE, FALSE, FALSE)>>
    BY <1>1 DEF StarterVfos
  <1> QED
    BY <1>2

\* A hit takes a slot of the list or adds one.
LEMMA HitStaffed ==
    ASSUME NEW v \in Seq(VfoType), v # <<>>, GoodSlots(v), NEW freq \in Nat, NEW bank
    PROVE  Allocated(v, freq, bank) # <<>>
  <1> DEFINE near  == Near(v, freq, AtLeast(bank.bw, AtLeast(device.rate \div FftSize, 1)))
             found == IF near # {} THEN near ELSE FreeOnes(v)
             w     == Allocated(v, freq, bank)
  <1>1. \/ w = [v EXCEPT ![First(found)] = Caught(@, freq)]
        \/ w = HitSlot(v, freq) \/ w = v
    BY DEF Allocated
  <1>2. w \in Seq(VfoType)
    BY HitTyped
  <1>3. HitSlot(v, freq) # <<>>
    <2> DEFINE r == Vfo((IF v = <<>> THEN 0 ELSE HighestId(v)) + 1, freq, TRUE, TRUE, FALSE)
    <2>1. r \in VfoType /\ HitSlot(v, freq) = Append(v, r)
      BY HighestExists DEF Vfo, VfoType, HitSlot
    <2> HIDE DEF r
    <2> QED
      BY <2>1, LongerStaffed
  <1>4. DOMAIN v # {}
    BY Nonempty
  <1> HIDE DEF found
  <1>5. CASE w = [v EXCEPT ![First(found)] = Caught(@, freq)]
    <2>1. DOMAIN w # {}
      BY <1>4, <1>5
    <2> QED
      BY <1>2, <2>1, Nonempty
  <1> QED
    BY <1>1, <1>3, <1>5

LEMMA CommandsStaff == SweepTypes /\ Staffed /\ Commands /\ SweepTypes' => Staffed'
  <1> SUFFICES ASSUME SweepTypes, Staffed, Commands, SweepTypes', runtime'.running, Roomy
               PROVE  runtime'.vfos # <<>>
    BY DEF Staffed, Roomy
  <1> DEFINE v == runtime.vfos
             w == runtime'.vfos
  <1>1. v \in Seq(VfoType) /\ w \in Seq(VfoType) /\ runtime \in RuntimeType
    BY DEF SweepTypes, RuntimeType
  <1>2. ASSUME runtime'.running = runtime.running, DOMAIN w = DOMAIN v PROVE w # <<>>
    BY <1>1, <1>2, Nonempty DEF Staffed
  <1>3. CASE StartCommand
    <2>1. Head(queue).bank \in PlannedBanks
      <3>1. Taking("start")
        BY <1>3 DEF StartCommand
      <3> QED
        BY <3>1, Taken DEF SweepTypes, CommandType
    <2>2. w = StarterVfos(Head(queue).bank, device.center)
      BY <1>3 DEF StartCommand
    <2> QED
      BY <2>1, <2>2, StarterStaffed
  <1>4. CASE StopCommand
    BY <1>1, <1>4 DEF StopCommand, RuntimeType
  <1>5. CASE SkipCommand
    <2>1. w = ForAllVfos(v, Released) /\ runtime'.running = runtime.running
      BY <1>1, <1>5 DEF SkipCommand, RuntimeType
    <2> QED
      BY <1>2, <2>1 DEF ForAllVfos
  <1>6. CASE ResumeCommand
    <2>1. w = ForAllVfos(v, Unlocked) /\ runtime'.running = runtime.running
      BY <1>1, <1>6 DEF ResumeCommand, RuntimeType
    <2> QED
      BY <1>2, <2>1 DEF ForAllVfos
  <1>7. CASE FollowCommand
    <2>1. w = Rehomed(v, Head(queue).center) /\ runtime'.running = runtime.running
      BY <1>1, <1>7 DEF FollowCommand, RuntimeType
    <2> QED
      BY <1>2, <2>1 DEF Rehomed, ForAllVfos
  <1>8. CASE AddCommand
    <2> DEFINE freq == IF Head(queue).freq = NoFreq THEN device.center ELSE Head(queue).freq
    <2>1. /\ runtime'.running = runtime.running
          /\ w = IF Len(v) < MaxVfos THEN NewSlot(v, freq) ELSE v
      BY <1>1, <1>8 DEF AddCommand, RuntimeType
    <2>2. freq \in Nat
      <3>1. Taking("add")
        BY <1>8 DEF AddCommand
      <3>2. Head(queue) \in CommandType /\ Head(queue).cmd = "add"
        BY <3>1, Taken DEF SweepTypes
      <3>3. Head(queue).freq \in Nat \cup {NoFreq}
        BY <3>2 DEF CommandType
      <3>4. device.center \in Nat
        BY Parts DEF SweepTypes
      <3> QED
        BY <3>3, <3>4
    <2> HIDE DEF freq
    <2>3. NewSlot(v, freq) # <<>>
      <3> DEFINE r == Vfo(IF v = <<>> THEN 0 ELSE HighestId(v) + 1, freq, TRUE, FALSE, TRUE)
      <3>1. r \in VfoType /\ NewSlot(v, freq) = Append(v, r)
        BY <2>2, HighestExists, Parts DEF Vfo, VfoType, NewSlot
      <3> HIDE DEF r
      <3> QED
        BY <1>1, <3>1, LongerStaffed
    <2>4. CASE Len(v) < MaxVfos
      BY <2>1, <2>3, <2>4
    <2>5. CASE ~ (Len(v) < MaxVfos)
      BY <1>2, <2>1, <2>5
    <2> QED
      BY <2>4, <2>5
  <1>9. CASE RemoveCommand
    <2>1. /\ runtime'.running = runtime.running
          /\ w = IF Len(v) > 1 THEN WithoutId(v, Head(queue).id) ELSE v
      BY <1>1, <1>9 DEF RemoveCommand, RuntimeType
    <2>2. CASE Len(v) > 1
      <3>1. Len(v) \in Nat /\ DOMAIN v = 1 .. Len(v)
        BY <1>1, SlotFields
      <3>2. DOMAIN WithoutId(v, Head(queue).id) \in {DOMAIN v, 1 .. Len(v) - 1}
        BY DEF WithoutId
      <3>3. 1 \in 1 .. Len(v) - 1 /\ 1 \in DOMAIN v
        BY <2>2, <3>1
      <3>4. DOMAIN w # {}
        BY <2>1, <2>2, <3>2, <3>3
      <3> QED
        BY <1>1, <3>4, Nonempty
    <2>3. CASE ~ (Len(v) > 1)
      BY <1>2, <2>1, <2>3
    <2> QED
      BY <2>2, <2>3
  <1>10. CASE PlaceCommand
    <2> DEFINE at == WithId(v, Head(queue).id)
               u  == IF at = {} THEN v
                     ELSE [v EXCEPT ![First(at)].freq = Head(queue).freq,
                                    ![First(at)].locked = TRUE]
    <2>1. runtime' = [runtime EXCEPT !.locked = TRUE, !.vfos = u]
      BY <1>10 DEF PlaceCommand
    <2>2. DOMAIN u = DOMAIN v
      OBVIOUS
    <2> HIDE DEF u
    <2>3. w = u /\ runtime'.running = runtime.running
      BY <1>1, <2>1 DEF RuntimeType
    <2> QED
      BY <1>2, <2>2, <2>3
  <1>12. CASE LockVfoCommand
    <2> DEFINE at == WithId(v, Head(queue).id)
               u  == [v EXCEPT ![First(at)].locked = Head(queue).on]
    <2>1. runtime' = runtime \/ runtime' = [runtime EXCEPT !.vfos = u]
      BY <1>12 DEF LockVfoCommand
    <2>2. DOMAIN u = DOMAIN v
      OBVIOUS
    <2> HIDE DEF u
    <2>3. (w = u \/ w = v) /\ runtime'.running = runtime.running
      BY <1>1, <2>1 DEF RuntimeType
    <2> QED
      BY <1>2, <2>2, <2>3
  <1>11. CASE ViewCommand \/ PanCommand
    <2>1. runtime'.running = runtime.running /\ w = v
      BY <1>1, <1>11 DEF ViewCommand, PanCommand, RuntimeType
    <2> QED
      BY <1>2, <2>1
  <1> QED
    BY <1>3, <1>4, <1>5, <1>6, <1>7, <1>8, <1>9, <1>10, <1>11, <1>12 DEF Commands

LEMMA FramesStaff ==
    ASSUME SweepTypes, Staffed, SweepTypes',
           TakeFrame \/ Hit \/ Measure \/ Decide \/ ApplyStay \/ ApplyRetune \/ ApplySwitch
    PROVE  Staffed'
  <1> SUFFICES ASSUME runtime'.running, Roomy PROVE runtime'.vfos # <<>>
    BY DEF Staffed, Roomy
  <1> DEFINE v == runtime.vfos
             w == runtime'.vfos
  <1>1. v \in Seq(VfoType) /\ w \in Seq(VfoType) /\ runtime \in RuntimeType /\ GoodSlots(v)
    BY Parts DEF SweepTypes, RuntimeType
  <1>2. runtime.running
    BY DEF SweepTypes, Working, TakeFrame, Hit, Measure, Decide, ApplyStay, ApplyRetune,
           ApplySwitch
  <1>3. v # <<>> /\ DOMAIN v # {}
    BY <1>1, <1>2, Nonempty DEF Staffed
  <1>4. CASE UNCHANGED runtime
    BY <1>3, <1>4
  <1>5. CASE Hit
    <2>1. ASSUME NEW channel \in loop.frame.air, Peak(channel) PROVE w # <<>>
      <3> DEFINE freq == StableChannel(loop.bank, Seen(channel), StepHz)
      <3>1. freq \in Nat
        <4>1. channel \in Nat /\ loop.frame.center \in Nat /\ device.center \in Nat
              /\ loop.bank \in Banks
          BY <1>2, <2>1, Parts DEF FrameType, SweepTypes, Working
        <4>2. Seen(channel) \in Nat
          BY <4>1 DEF Seen, Monus
        <4> QED
          BY <4>1, <4>2, StableChannels
      <3> HIDE DEF freq
      <3>2. \/ runtime' = [runtime EXCEPT !.vfos = Allocated(runtime.vfos, freq, loop.bank)]
            \/ UNCHANGED runtime
        BY <2>1, PeakShape DEF freq, PeakDoes
      <3>3. w \in {v, Allocated(v, freq, loop.bank)}
        BY <1>1, <3>2 DEF RuntimeType
      <3> QED
        BY <1>1, <1>3, <3>1, <3>3, HitStaffed
    <2> QED
      BY <1>4, <1>5, <2>1 DEF Hit, NoPeak
  <1>6. CASE Measure
    BY <1>3, <1>6, MeasureTypes DEF SweepTypes
  <1>7. CASE ApplyRetune
    <2>1. w = v \/ w = ForAllVfos(v, Released)
      BY <1>1, <1>7 DEF ApplyRetune, RuntimeType
    <2>2. DOMAIN w = DOMAIN v
      BY <2>1 DEF ForAllVfos
    <2> QED
      BY <1>1, <1>3, <2>2, Nonempty
  <1>8. CASE ApplySwitch
    <2> DEFINE bank == loop.step.bank
    <2>1. bank \in PlannedBanks
      BY <1>8, Parts DEF ApplySwitch, StepType
    <2> HIDE DEF bank
    <2>2. (\E center : w = StarterVfos(bank, center)) \/ w = v
      BY <1>1, <1>8 DEF ApplySwitch, RuntimeType, bank
    <2> QED
      BY <1>3, <2>1, <2>2, StarterStaffed
  <1>9. CASE TakeFrame \/ Decide \/ ApplyStay
    BY <1>4, <1>9 DEF TakeFrame, Decide, ApplyStay
  <1> QED
    BY <1>5, <1>6, <1>7, <1>8, <1>9

\* No handler touches the slots, the loop or the flag of a running scan.
LEMMA OperatorsLeaveLoop ==
    ASSUME Operators, runtime \in RuntimeType
    PROVE  /\ UNCHANGED loop
           /\ runtime'.vfos = runtime.vfos /\ runtime'.running = runtime.running
           /\ runtime'.holding = runtime.holding
           /\ skipped' \subseteq skipped
  <1>1. UNCHANGED runtime \/ runtime' = [runtime EXCEPT !.locked = TRUE]
    BY DEF Operators, ScanLock, ScanUnlock, ScanSkip, ScanStop, VfoAdd, VfoRemove, VfoLock,
           SpectrumView, ScannerPan, BlacklistAdd, BlacklistRemove, ScanStart,
           ScanStartSends, TuneRequest, TuneDevice, FollowManualRetune, PlaceVfo, Asks
  <1>2. UNCHANGED loop /\ skipped' \subseteq skipped
    BY DEF Operators, ScanLock, ScanUnlock, ScanSkip, ScanStop, VfoAdd, VfoRemove, VfoLock,
           SpectrumView, ScannerPan, BlacklistAdd, BlacklistRemove, ScanStart,
           ScanStartSends, TuneRequest, TuneDevice, FollowManualRetune, PlaceVfo, Asks
  <1> QED
    BY <1>1, <1>2 DEF RuntimeType

\* While a scan runs, the bank the audio and identify threads read is the one
\* the loop works on, and if every planned bank may have VFOs the list is never
\* empty: no removal takes the last slot.
THEOREM RunningBankKeepsVfo == Spec => []RunningBankHasVfo
  <1>1. Init => Staffed
    BY DEF Init, Staffed
  <1>2. SweepTypes /\ SweepTypes' /\ Staffed /\ [Next]_vars => Staffed'
    <2> SUFFICES ASSUME SweepTypes, SweepTypes', Staffed, [Next]_vars PROVE Staffed'
      OBVIOUS
    <2>1. CASE UNCHANGED vars
      BY <2>1 DEF vars, Staffed, Roomy
    <2>2. CASE Operators
      BY <2>2, OperatorsLeaveLoop DEF SweepTypes, Staffed, Roomy
    <2> QED
      BY <2>1, <2>2, CommandsStaff, FramesStaff DEF Next, Loop
  <1>3. SweepTypes /\ Staffed => RunningBankHasVfo
    BY DEF SweepTypes, Working, Staffed, Roomy, RunningBankHasVfo
  <1> QED
    BY <1>1, <1>2, <1>3, TypesInitial, TypesStep, PTL DEF Spec

(***************************************************************************)
(* Skipped frequencies.  The copy of the blacklist the loop works on may   *)
(* be half a second old, but it always holds what was skipped.             *)
(***************************************************************************)
Remembered == skipped \subseteq loop.blacklist

LEMMA RememberedStep ==
    SweepTypes /\ Remembered /\ [Next]_vars => Remembered'
  <1> SUFFICES ASSUME SweepTypes, Remembered, [Next]_vars PROVE Remembered'
    OBVIOUS
  <1>1. loop \in LoopType /\ runtime \in RuntimeType /\ skipped \subseteq lockouts
    BY DEF SweepTypes
  <1>2. ASSUME loop'.blacklist = loop.blacklist, skipped' \subseteq skipped PROVE Remembered'
    BY <1>2 DEF Remembered
  <1>3. CASE UNCHANGED vars
    BY <1>2, <1>3 DEF vars
  <1>4. CASE Operators
    BY <1>1, <1>2, <1>4, OperatorsLeaveLoop
  <1>5. CASE SkipCommand
    <2> DEFINE out == IF runtime.vfos = <<>> THEN {} ELSE {SkipTarget(runtime.vfos)}
    <2>1. /\ lockouts' = lockouts \cup out /\ skipped' = skipped \cup out
          /\ loop' = [Rested(loop) EXCEPT !.dwell = 0, !.force = TRUE,
                        !.blacklist = IF out = {} THEN Rested(loop).blacklist ELSE lockouts']
      BY <1>5 DEF SkipCommand
    <2> HIDE DEF out
    <2>2. Rested(loop) \in LoopType /\ Rested(loop).blacklist = loop.blacklist
      BY <1>1, RestedTyped
    <2>3. loop'.blacklist = IF out = {} THEN loop.blacklist ELSE lockouts'
      BY <2>1, <2>2 DEF LoopType
    <2> QED
      BY <1>1, <2>1, <2>3 DEF Remembered
  <1>6. CASE StartCommand \/ StopCommand \/ ResumeCommand
    <2>1. Rested(loop) \in LoopType /\ Rested(loop).blacklist = loop.blacklist
      BY <1>1, RestedTyped
    <2>2. loop'.blacklist = loop.blacklist /\ UNCHANGED skipped
      BY <1>6, <2>1 DEF StartCommand, StopCommand, ResumeCommand, LoopType
    <2> QED
      BY <1>2, <2>2
  <1>7. CASE \/ FollowCommand \/ AddCommand \/ RemoveCommand \/ PlaceCommand \/ LockVfoCommand
             \/ ViewCommand \/ PanCommand \/ TakeFrame \/ Decide
    <2>1. loop'.blacklist = loop.blacklist /\ UNCHANGED skipped
      BY <1>1, <1>7 DEF FollowCommand, AddCommand, RemoveCommand, PlaceCommand, LockVfoCommand,
         ViewCommand, PanCommand, TakeFrame, Decide, LoopType
    <2> QED
      BY <1>2, <2>1
  <1>8. CASE Hit
    <2>1. CASE NoPeak
      <3>1. loop'.blacklist = loop.blacklist /\ UNCHANGED skipped
        BY <1>1, <1>8, <2>1 DEF Hit, NoPeak, LoopType
      <3> QED
        BY <1>2, <3>1
    <2>2. ASSUME NEW channel, Peak(channel) PROVE Remembered'
      <3> DEFINE freq == StableChannel(loop.bank, Seen(channel), StepHz)
      <3>1. PICK known \in {loop.blacklist, lockouts}, age \in {loop.seen, 0}, hit \in BOOLEAN,
                 next \in {NoFreq, loop.candidate, freq} : PeakDoes(freq, known, age, hit, next)
        BY <2>2, PeakShape
      <3> HIDE DEF freq
      <3> DEFINE base == [loop EXCEPT !.pc = "measure", !.candidate = next, !.seen = age,
                                      !.blacklist = known]
      <3>2. base.blacklist = known
        BY <1>1 DEF LoopType
      <3>3. Extended(base, loop.bank).blacklist = base.blacklist
        BY <1>1 DEF Extended, LoopType
      <3>4. loop' = base \/ loop' = Extended(base, loop.bank)
        BY <3>1 DEF PeakDoes
      <3> HIDE DEF base
      <3>5. loop'.blacklist = known /\ UNCHANGED skipped
        BY <1>8, <3>2, <3>3, <3>4 DEF Hit
      <3> QED
        BY <1>1, <3>1, <3>5 DEF Remembered
    <2> QED
      BY <1>8, <2>1, <2>2 DEF Hit
  <1>9. CASE Measure
    <2>1. SlotsInv'
      BY <1>9, FramesKeepSlots DEF SweepTypes
    <2>2. loop'.blacklist = loop.blacklist /\ UNCHANGED skipped
      BY <1>9, <2>1, MeasureTypes DEF Measure
    <2> QED
      BY <1>2, <2>2
  <1>10. CASE ApplyStay \/ ApplyRetune \/ ApplySwitch
    <2>1. ASSUME NEW l \in LoopType PROVE NextTurn(l).blacklist = l.blacklist
      BY NextTurnTyped
    <2>2. Rested(loop) \in LoopType /\ Rested(loop).blacklist = loop.blacklist
      BY <1>1, RestedTyped
    <2>3. CASE ApplyStay
      BY <1>1, <1>2, <2>1, <2>3 DEF ApplyStay
    <2>4. CASE ApplyRetune
      <3>1. loop.bank \in Banks
        BY <2>4, Parts DEF ApplyRetune, SweepTypes, Working
      <3>2. ASSUME NEW l \in LoopType
            PROVE  NextTurn([l EXCEPT !.dwell = SettleDwell(loop.bank)]).blacklist = l.blacklist
        BY <2>1, <3>1, Dwells, DwellTyped
      <3>3. /\ \/ loop' = NextTurn([Rested(loop) EXCEPT !.dwell = SettleDwell(loop.bank)])
               \/ loop' = NextTurn([loop EXCEPT !.dwell = SettleDwell(loop.bank)])
            /\ UNCHANGED skipped
        BY <2>4 DEF ApplyRetune
      <3> QED
        BY <1>1, <1>2, <2>2, <3>2, <3>3
    <2>5. CASE ApplySwitch
      <3> DEFINE bank == loop.step.bank
                 l == [Rested(loop) EXCEPT !.bank = bank, !.dwell = SettleDwell(bank)]
      <3>1. bank \in Banks /\ SettleDwell(bank) \in Nat
        BY <2>5, Parts, PlannedAreBanks, Dwells DEF ApplySwitch, StepType
      <3>2. l \in LoopType /\ l.blacklist = loop.blacklist
        BY <2>2, <3>1 DEF LoopType
      <3>3. (loop' = NextTurn(l) \/ loop' = NextTurn(loop)) /\ UNCHANGED skipped
        BY <2>5 DEF ApplySwitch
      <3> HIDE DEF l
      <3> QED
        BY <1>1, <1>2, <2>1, <3>2, <3>3
    <2> QED
      BY <1>10, <2>3, <2>4, <2>5
  <1> QED
    BY <1>3, <1>4, <1>5, <1>6, <1>7, <1>8, <1>9, <1>10 DEF Next, Loop, Commands

\* A hit that changes a slot puts it on the channel that was hit.
LEMMA HitPlaces ==
    ASSUME NEW v \in Seq(VfoType), GoodSlots(v), NEW freq, NEW bank,
           NEW i \in DOMAIN Allocated(v, freq, bank)
    PROVE  \/ i \in DOMAIN v /\ Allocated(v, freq, bank)[i] = v[i]
           \/ Allocated(v, freq, bank)[i].freq = freq
  <1> DEFINE near  == Near(v, freq, AtLeast(bank.bw, AtLeast(device.rate \div FftSize, 1)))
             found == IF near # {} THEN near ELSE FreeOnes(v)
  <1>1. CASE AllowsVfos(bank) /\ found # {}
    <2> DEFINE k == First(found)
    <2>1. k \in DOMAIN v
      <3>1. found \subseteq DOMAIN v
        BY DEF Near, FreeOnes
      <3> HIDE DEF found
      <3> QED
        BY <1>1, <3>1, FoundSlot
    <2>2. Allocated(v, freq, bank) = [v EXCEPT ![k] = Caught(v[k], freq)]
      BY <1>1 DEF Allocated
    <2> HIDE DEF k
    <2>3. v[k] \in VfoType
      BY <2>1, SlotFields
    <2>4. Caught(v[k], freq).freq = freq
      BY <2>3 DEF Caught, VfoType
    <2> QED
      BY <2>1, <2>2, <2>4
  <1>2. CASE found = {} /\ RoomFor(v, bank)
    <2> DEFINE r == Vfo((IF v = <<>> THEN 0 ELSE HighestId(v)) + 1, freq, TRUE, TRUE, FALSE)
    <2>1. Allocated(v, freq, bank) = Append(v, r) /\ r.freq = freq
      BY <1>2 DEF Allocated, HitSlot, Vfo
    <2> HIDE DEF r
    <2>2. Len(v) \in Nat /\ DOMAIN v = 1 .. Len(v)
      BY SlotFields
    <2>3. /\ DOMAIN Append(v, r) = 1 .. Len(v) + 1 /\ Append(v, r)[Len(v) + 1] = r
          /\ \A j \in 1 .. Len(v) : Append(v, r)[j] = v[j]
      BY <2>2
    <2>4. i \in 1 .. Len(v) \/ i = Len(v) + 1
      BY <2>1, <2>2, <2>3
    <2> QED
      BY <2>1, <2>2, <2>3, <2>4
  <1>3. CASE ~ (AllowsVfos(bank) /\ found # {}) /\ ~ (found = {} /\ RoomFor(v, bank))
    BY <1>3 DEF Allocated
  <1> QED
    BY <1>1, <1>2, <1>3

\* No frame puts a slot on a channel within half a channel of a frequency the
\* operator skipped and has not taken off the blacklist since.
THEOREM SkippedIsLeftAlone == Spec => SkippedStaysQuiet
  <1> DEFINE Quiet == \A i \in DOMAIN runtime'.vfos :
                 \/ i \in DOMAIN runtime.vfos /\ runtime'.vfos[i] = runtime.vfos[i]
                 \/ ~ IsLockedOut(runtime'.vfos[i].freq, skipped, loop.bank.bw)
  <1>1. Init => Remembered
    BY DEF Init, Remembered, Idle
  <1>2. SweepTypes /\ Remembered /\ Hit => Quiet
    <2> SUFFICES ASSUME SweepTypes, Remembered, Hit,
                        NEW i \in DOMAIN runtime'.vfos,
                        ~ (i \in DOMAIN runtime.vfos /\ runtime'.vfos[i] = runtime.vfos[i])
                 PROVE  ~ IsLockedOut(runtime'.vfos[i].freq, skipped, loop.bank.bw)
      OBVIOUS
    <2>1. /\ runtime \in RuntimeType /\ runtime.vfos \in Seq(VfoType)
          /\ GoodSlots(runtime.vfos) /\ skipped \subseteq lockouts
      BY Parts DEF SweepTypes
    <2>2. ~ UNCHANGED runtime
      OBVIOUS
    <2>3. PICK channel : Peak(channel)
      BY <2>2 DEF Hit, NoPeak
    <2> DEFINE freq == StableChannel(loop.bank, Seen(channel), StepHz)
    <2>4. PICK known \in {loop.blacklist, lockouts}, age \in {loop.seen, 0}, hit \in BOOLEAN,
               next \in {NoFreq, loop.candidate, freq} : PeakDoes(freq, known, age, hit, next)
      BY <2>3, PeakShape
    <2> HIDE DEF freq
    <2>5. /\ ~ IsLockedOut(freq, known, loop.bank.bw)
          /\ runtime' = [runtime EXCEPT !.vfos = Allocated(runtime.vfos, freq, loop.bank)]
      BY <2>2, <2>4 DEF PeakDoes
    <2>6. runtime'.vfos = Allocated(runtime.vfos, freq, loop.bank)
      BY <2>1, <2>5 DEF RuntimeType
    <2>7. runtime'.vfos[i].freq = freq
      BY <2>1, <2>6, HitPlaces
    <2>8. skipped \subseteq known
      BY <2>1, <2>4 DEF Remembered
    <2> QED
      BY <2>5, <2>7, <2>8 DEF IsLockedOut
  <1>3. SweepTypes /\ Remembered /\ [Next]_vars => [Hit => Quiet]_vars
    BY <1>2
  <1> QED
    BY <1>1, <1>3, TypesInitial, TypesStep, RememberedStep, PTL DEF Spec, SkippedStaysQuiet

(***************************************************************************)
(* Signals.  Between the measurement of a frame and the move it decides,   *)
(* handlers may lock the sweep, retune the radio and queue commands, but   *)
(* they cannot change what was measured.                                   *)
(***************************************************************************)
Free == OnSignal(runtime.vfos) = {} \/ loop.held >= HoldMax \/ loop.bank.hold = 0

Decided ==
    /\ loop.pc = "decide" /\ ~ runtime.holding => Free
    /\ loop.pc = "apply" /\ loop.step.kind # "stay" => Free

LEMMA DecidedStep ==
    SweepTypes /\ SweepTypes' /\ Decided /\ [Next]_vars => Decided'
  <1> SUFFICES ASSUME SweepTypes, SweepTypes', Decided, [Next]_vars PROVE Decided'
    OBVIOUS
  <1>1. loop \in LoopType /\ loop' \in LoopType /\ runtime \in RuntimeType
    BY DEF SweepTypes
  <1>2. CASE UNCHANGED vars
    BY <1>2 DEF vars, Decided, Free
  <1>3. CASE Operators
    BY <1>1, <1>3, OperatorsLeaveLoop DEF Decided, Free
  <1>4. CASE Commands
    <2>1. loop'.pc = "commands"
      <3>1. loop.pc = "commands"
        BY <1>4 DEF Commands, StartCommand, StopCommand, SkipCommand, ResumeCommand,
           FollowCommand, AddCommand, RemoveCommand, PlaceCommand, LockVfoCommand, ViewCommand,
           PanCommand, Taking
      <3>2. Rested(loop) \in LoopType /\ Rested(loop).pc = "commands"
        BY <1>1, <3>1, RestedTyped DEF SweepTypes
      <3>3. CASE StartCommand
        <4>1. PICK bank, cycle, dwell :
                loop' = [Rested(loop) EXCEPT !.bank = bank, !.cycle = cycle, !.dwell = dwell]
          BY <3>3 DEF StartCommand
        <4> QED
          BY <3>2, <4>1 DEF LoopType
      <3>4. CASE StopCommand \/ SkipCommand \/ ResumeCommand
        BY <3>2, <3>4 DEF StopCommand, SkipCommand, ResumeCommand, LoopType
      <3>5. CASE FollowCommand
        BY <1>1, <3>1, <3>2, <3>5 DEF FollowCommand, LoopType
      <3>6. CASE AddCommand \/ RemoveCommand \/ PlaceCommand
        BY <1>1, <3>1, <3>6 DEF AddCommand, RemoveCommand, PlaceCommand, LoopType
      <3>7. CASE LockVfoCommand \/ ViewCommand \/ PanCommand
        BY <1>1, <3>1, <3>7 DEF LockVfoCommand, ViewCommand, PanCommand, LoopType
      <3> QED
        BY <1>4, <3>3, <3>4, <3>5, <3>6, <3>7 DEF Commands
    <2> QED
      BY <2>1 DEF Decided
  <1>5. CASE TakeFrame \/ Hit
    <2>1. CASE TakeFrame
      <3>1. loop'.pc = "hit"
        BY <1>1, <2>1 DEF TakeFrame, LoopType
      <3> QED
        BY <3>1 DEF Decided
    <2>2. CASE Hit
      <3>1. CASE NoPeak
        <4>1. loop'.pc = "measure"
          BY <1>1, <3>1 DEF NoPeak, LoopType
        <4> QED
          BY <4>1 DEF Decided
      <3>2. ASSUME NEW channel, Peak(channel) PROVE loop'.pc = "measure"
        <4> DEFINE freq == StableChannel(loop.bank, Seen(channel), StepHz)
        <4>1. PICK known \in {loop.blacklist, lockouts}, age \in {loop.seen, 0}, hit \in BOOLEAN,
                   next \in {NoFreq, loop.candidate, freq} :
                   PeakDoes(freq, known, age, hit, next)
          BY <3>2, PeakShape
        <4> HIDE DEF freq
        <4> DEFINE base == [loop EXCEPT !.pc = "measure", !.candidate = next, !.seen = age,
                                        !.blacklist = known]
        <4>2. base.pc = "measure"
          BY <1>1 DEF LoopType
        <4>3. Extended(base, loop.bank).pc = base.pc
          BY <1>1 DEF Extended, LoopType
        <4>4. loop' = base \/ loop' = Extended(base, loop.bank)
          BY <4>1 DEF PeakDoes
        <4> HIDE DEF base
        <4> QED
          BY <4>2, <4>3, <4>4
      <3> QED
        BY <2>2, <3>1, <3>2 DEF Hit, Decided
    <2> QED
      BY <1>5, <2>1, <2>2
  <1>6. CASE Measure
    BY <1>6, MeasureTypes DEF SweepTypes, Decided, Free
  <1>7. CASE Decide
    <2> DEFINE step == IF ShouldSweep
                       THEN NextScanStep(loop.bank, loop.cycle, device.center, Usable)
                       ELSE StayHere
    <2>1. /\ loop' = [loop EXCEPT !.pc = "apply", !.step = step] /\ UNCHANGED runtime
          /\ loop.pc = "decide"
      BY <1>7 DEF Decide
    <2>2. ShouldSweep => ~ runtime.holding
      BY DEF ShouldSweep
    <2>3. ~ ShouldSweep => step.kind = "stay"
      BY DEF StayHere
    <2> HIDE DEF step
    <2>4. /\ loop'.pc = "apply" /\ loop'.step = step /\ loop'.held = loop.held
          /\ loop'.bank = loop.bank
      BY <1>1, <2>1 DEF LoopType
    <2> QED
      BY <2>1, <2>2, <2>3, <2>4 DEF Decided, Free
  <1>8. CASE ApplyStay \/ ApplyRetune \/ ApplySwitch
    <2>1. \E l : loop' = NextTurn(l)
      BY <1>8 DEF ApplyStay, ApplyRetune, ApplySwitch
    <2>2. loop'.pc = "commands" \/ loop'.pc \notin {"decide", "apply"}
      BY <1>1, <2>1 DEF NextTurn, LoopType
    <2> QED
      BY <2>2 DEF Decided
  <1> QED
    BY <1>2, <1>3, <1>4, <1>5, <1>6, <1>7, <1>8 DEF Next, Loop

\* When the sweep moves the window, no slot is on an open signal, or the longest
\* hold is over, or the bank asks for none.
THEOREM SweepWaitsForSignals == Spec => SweepRespectsSignal
  <1>1. Init => Decided
    BY DEF Init, Idle, Decided
  <1>2. SweepTypes /\ Decided /\ [Next]_vars =>
          [ApplyRetune \/ ApplySwitch =>
             \/ OnSignal(runtime.vfos) = {} \/ loop.held >= HoldMax \/ loop.bank.hold = 0]_vars
    BY DEF ApplyRetune, ApplySwitch, Decided, Free
  <1> QED
    BY <1>1, <1>2, TypesInitial, TypesStep, DecidedStep, PTL DEF Spec, SweepRespectsSignal
=============================================================================
