----------------------------- MODULE MCServices -----------------------------
(***************************************************************************)
(* Services on small instances.                                            *)
(***************************************************************************)
EXTENDS Services

CONSTANTS tg1, tg2

\* Local instances, for the table of banks and the operators on it.
Plan == INSTANCE BandPlan

MCPoints == {964000, 1619900, 4030000, 4339200, 4545000, 9150000, 16925000, 24100000}
MCWritten == {Plan!Band("ISM 2.4 GHz", 24000000, 24200000, "nfm", 3, 80000),
              Plan!Band("ISM 2.4 GHz", 24000000, 24400000, "nfm", 3, 80000),
              Plan!Band("My LoRa", 8680000, 8690000, "nfm", 1, 20000)}
MCTouched == {"ISM 433"}
MCShipped == SelectSeq(Plan!BuiltIn, LAMBDA b : \/ b.name = "FM Broadcast"
                                                \/ \E f \in MCPoints : Plan!Holds(b, f))
MCSaved ==
    LET older == SelectSeq(MCShipped, LAMBDA b : b.name # "ISM 915")
    IN  {MCShipped,
         Plan!SetEnabled(Plan!SetEnabled(older, "70cm Amateur", TRUE), "33cm Amateur", TRUE)}

\* What the theorem on retunes asks of the banks, of these.
ASSUME MCBanksAssumption == BanksOrdered /\ Bands!TablesServe

\* And of the whole built-in table, at the edges of its banks and next to them:
\* what is at stake changes nowhere else but at those of the two decoders fed by
\* frequency.
Edges ==
    UNION {{Plan!BuiltIn[i].start, Plan!BuiltIn[i].end} : i \in DOMAIN Plan!BuiltIn}
    \cup {4065000, 16880000, 16970000}
ASSUME MCBuiltInAssumption ==
    Bands!TableServes(Plan!BuiltIn, UNION {{e - 1, e, e + 1} : e \in Edges})

\* The chunks of "goes" are longer than its window.
MCCap == [lora |-> 8, ble |-> 8, goes |-> 4, hf |-> 4, rds |-> 4]
MCLeast == [lora |-> 2, ble |-> 1, goes |-> 1]
MCChunk == [lora |-> 2, ble |-> 1, goes |-> 5, hf |-> 1, rds |-> 1]

Grant(talkgroup, channel) == [talkgroup |-> talkgroup, channel |-> channel]
MCObservations ==
    {[grants |-> <<>>, idens |-> <<>>]}
    \cup {[grants |-> <<Grant(tg1, 1), Grant(tg2, 0)>>, idens |-> idens] :
            idens \in {<<>>, <<"iden">>}}
MCVoiceTables == {<<>>, <<"first", "second">>}
=============================================================================
