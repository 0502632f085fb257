------------------------------ MODULE BandPlan ------------------------------
(***************************************************************************)
(* The named banks of the receiver (config.rs) and the rules that choose   *)
(* one: which bank owns a frequency (api.rs, pick_range_for_frequency),    *)
(* which native decoders a bank feeds (scanner.rs, NativeRangeDecoders),   *)
(* what a saved configuration becomes when it is loaded.                   *)
(*                                                                         *)
(* Frequencies and rates are in units of 100 Hz: every edge of the         *)
(* built-in table is a multiple of it, and 81 GHz still fits TLC's         *)
(* integers.  Names are kept as the source has them, because the source    *)
(* chooses decoders by looking for words in them.                          *)
(***************************************************************************)
EXTENDS Integers, Sequences, Selection

Band(name, start, end, mode, vfos, rate) ==
    [name |-> name, start |-> start, end |-> end, mode |-> mode,
     vfos |-> vfos, rate |-> rate, enabled |-> FALSE]

ShortwaveBands == <<
    Band("2200m Amateur", 1357, 1378, "usb", 1, 625),
    Band("630m Amateur", 4720, 4790, "usb", 1, 625),
    Band("AM Broadcast", 5400, 17000, "am", 2, 15000),
    Band("160m Amateur", 18000, 20000, "lsb", 3, 2500),
    Band("80m Amateur", 35000, 40000, "lsb", 3, 7680),
    Band("60m Amateur", 53300, 54060, "usb", 3, 2500),
    Band("SW 49m", 59000, 62000, "am", 2, 5000),
    Band("40m Amateur", 70000, 73000, "lsb", 3, 5000),
    Band("SW 41m", 72000, 74500, "am", 2, 5000),
    Band("SW 31m", 94000, 99000, "am", 2, 7680),
    Band("30m Amateur", 101000, 101500, "usb", 3, 2500),
    Band("SW 25m", 116000, 121000, "am", 2, 7680),
    Band("SW 22m", 135700, 138700, "am", 2, 5000),
    Band("20m Amateur", 140000, 143500, "usb", 3, 5000),
    Band("SW 19m", 151000, 158000, "am", 2, 9600),
    Band("SW 16m", 174800, 179000, "am", 2, 5000),
    Band("17m Amateur", 180680, 181680, "usb", 3, 2500),
    Band("15m Amateur", 210000, 214500, "usb", 3, 5000),
    Band("SW 13m", 214500, 218500, "am", 2, 5000),
    Band("12m Amateur", 248900, 249900, "usb", 3, 2500),
    Band("SW 11m", 256700, 261000, "am", 2, 5000),
    Band("CB Radio", 269650, 274050, "am", 3, 5000),
    Band("10m Amateur", 280000, 297000, "am", 3, 20000) >>

VhfBands == <<
    Band("10m SSB", 280000, 285000, "usb", 3, 7680),
    Band("10m FM", 295100, 297000, "nfm", 3, 2500),
    Band("Baby Monitors", 498300, 498900, "nfm", 2, 2500),
    Band("6m Amateur", 500000, 540000, "nfm", 3, 50000),
    Band("4m Amateur (regional)", 700000, 705000, "nfm", 3, 7680),
    Band("R/C Aircraft", 720000, 730000, "nfm", 2, 12000),
    Band("R/C Surface", 754000, 760000, "nfm", 2, 7680),
    Band("FM Broadcast", 880000, 1080000, "wfm", 2, 20000),
    Band("Aircraft AM", 1180000, 1370000, "am", 3, 80000),
    Band("ATC Ground", 1216000, 1219000, "am", 3, 5000),
    Band("ACARS", 1290000, 1320000, "am", 3, 40000),
    Band("VDL2", 1369700, 1369800, "am", 1, 10000),
    Band("NOAA APT", 1370000, 1380000, "nfm", 1, 12000),
    Band("2m Amateur", 1440000, 1480000, "nfm", 3, 50000) >>

NarrowBands == <<
    Band("NAVTEX 518", 5170, 5190, "usb", 1, 625),
    Band("FT8 80m", 35720, 35740, "usb", 1, 1250),
    Band("FT8 40m", 70730, 70750, "usb", 1, 1250),
    Band("WSPR 40m", 70386, 70400, "usb", 1, 1250),
    Band("FT8 30m", 101350, 101370, "usb", 1, 1250),
    Band("FT8 20m", 140730, 140750, "usb", 1, 1250),
    Band("RTTY 20m", 140790, 140820, "usb", 1, 1250),
    Band("CW 20m", 140200, 140400, "usb", 1, 1250),
    Band("WSPR 20m", 140956, 140970, "usb", 1, 1250),
    Band("SSTV 20m", 142290, 142310, "usb", 1, 1250),
    Band("FT8 17m", 180990, 181010, "usb", 1, 1250),
    Band("FT8 15m", 210730, 210750, "usb", 1, 1250),
    Band("SSTV 15m", 213390, 213410, "usb", 1, 1250),
    Band("FT8 12m", 249140, 249160, "usb", 1, 1250),
    Band("FT8 10m", 280730, 280750, "usb", 1, 1250),
    Band("SSTV 10m", 286790, 286810, "usb", 1, 1250),
    Band("FT8 6m", 503120, 503140, "usb", 1, 1250),
    Band("FT8 2m", 1441730, 1441750, "usb", 1, 1250),
    Band("SSTV 2m", 1444990, 1445010, "nfm", 1, 1250),
    Band("APRS 2m", 1443800, 1444000, "nfm", 1, 2500),
    Band("MURS", 1518200, 1546000, "nfm", 3, 40000) >>

LandMobileBands == <<
    Band("VHF Business", 1510000, 1540000, "nfm", 3, 40000),
    Band("Marine VHF", 1560000, 1620000, "nfm", 3, 70000),
    Band("AIS", 1619750, 1620250, "nfm", 1, 2500),
    Band("Railroad AAR", 1602150, 1615650, "nfm", 3, 15000),
    Band("NOAA Weather", 1624000, 1625500, "nfm", 1, 2500),
    Band("Federal Gov", 1620000, 1740000, "nfm", 3, 80000),
    Band("220 Amateur", 2220000, 2250000, "nfm", 3, 40000),
    Band("Military Air", 2250000, 4000000, "am", 3, 80000),
    Band("Radiosonde", 4000000, 4060000, "nfm", 3, 70000),
    Band("70cm Amateur", 4200000, 4500000, "nfm", 3, 80000) >>

UhfBands == <<
    Band("ISM 433", 4330500, 4347900, "nfm", 3, 20000),
    Band("UHF Business", 4500000, 4700000, "nfm", 3, 80000),
    Band("Public Safety UHF", 4530000, 4580000, "nfm", 3, 60000),
    Band("UHF Pagers", 4540000, 4610000, "nfm", 3, 80000),
    Band("FRS/GMRS", 4625500, 4677250, "nfm", 3, 60000),
    Band("UHF T-Band", 4700000, 5120000, "nfm", 3, 80000),
    Band("Wireless Mics (TV)", 4700000, 6080000, "nfm", 3, 80000),
    Band("Wireless Mics (Duplex Gap)", 6140000, 6160000, "nfm", 3, 24000),
    Band("Wireless Mics (Guard Band)", 6570000, 6630000, "nfm", 3, 70000),
    Band("700 PS Mobile", 7690000, 7750000, "nfm", 3, 70000),
    Band("700 PS Base", 7990000, 8050000, "nfm", 3, 70000),
    Band("800 Trunked", 8510000, 8690000, "nfm", 3, 80000) >>

MicrowaveBands == <<
    Band("33cm Amateur", 9020000, 9280000, "nfm", 3, 80000),
    Band("ISM 915", 9020000, 9280000, "nfm", 3, 80000),
    Band("Pagers", 9290000, 9320000, "nfm", 3, 40000),
    Band("ADS-B UAT", 9780000, 9782000, "am", 1, 24000),
    Band("ADS-B 1090", 10900000, 10902000, "am", 1, 24000),
    Band("23cm Amateur", 12400000, 13000000, "nfm", 3, 80000),
    Band("Inmarsat STD-C / AERO (DL)", 15250000, 15590000, "nfm", 1, 24000),
    Band("GPS L1 / Galileo E1", 15740000, 15770000, "nfm", 1, 24000),
    Band("GLONASS L1", 15980000, 16060000, "nfm", 1, 24000),
    Band("Iridium", 16160000, 16265000, "nfm", 1, 50000),
    Band("Inmarsat AERO (UL)", 16265000, 16605000, "nfm", 1, 24000),
    Band("GOES HRIT / LRIT", 16910000, 16950000, "nfm", 1, 50000) >>

ServiceBands == <<
    Band("13cm Amateur (2300)", 23000000, 23100000, "nfm", 3, 80000),
    Band("13cm Amateur (2390)", 23900000, 24500000, "nfm", 3, 80000),
    Band("9cm Amateur", 33000000, 35000000, "nfm", 3, 80000),
    Band("ISM 2.4 GHz", 24000000, 24835000, "nfm", 3, 80000),
    Band("CBRS 3.5 GHz", 35500000, 37000000, "nfm", 3, 80000),
    Band("4.9 GHz Public Safety", 49400000, 49900000, "nfm", 3, 80000),
    Band("5cm Amateur", 56500000, 59250000, "nfm", 3, 80000),
    Band("3cm Amateur", 100000000, 105000000, "nfm", 3, 80000),
    Band("1.25cm Amateur", 240000000, 242500000, "nfm", 3, 80000),
    Band("6mm Amateur", 470000000, 472000000, "nfm", 3, 80000),
    Band("4mm Amateur", 755000000, 810000000, "nfm", 3, 80000),
    Band("ISM 5.8 GHz", 57250000, 58500000, "nfm", 3, 80000),
    Band("US Cellular 850 Uplink", 8240000, 8490000, "nfm", 0, 80000),
    Band("US Cellular 850 Downlink", 8690000, 8940000, "nfm", 0, 80000),
    Band("US PCS 1900 Uplink", 18500000, 19100000, "nfm", 0, 80000),
    Band("US PCS 1900 Downlink", 19300000, 19900000, "nfm", 0, 80000) >>
BuiltIn ==
    ShortwaveBands \o VhfBands \o NarrowBands \o LandMobileBands \o UhfBands
        \o MicrowaveBands \o ServiceBands

Names(ranges) == {ranges[i].name : i \in DOMAIN ranges}

\* The first bank of a name.
FirstOf(ranges, name) ==
    LET at == {i \in DOMAIN ranges : ranges[i].name = name}
    IN  CHOOSE i \in at : \A j \in at : i <= j
BandNamed(ranges, name) == ranges[FirstOf(ranges, name)]

(***************************************************************************)
(* Which bank a frequency belongs to                                       *)
(***************************************************************************)

Holds(band, f) == band.start <= f /\ f <= band.end
Width(band) == band.end - band.start

\* The first of the narrowest banks: min_by_key keeps the earlier of equals.
Narrowest(banks, at) ==
    banks[CHOOSE i \in at :
              \A j \in at :
                  \/ Width(banks[i]) < Width(banks[j])
                  \/ Width(banks[i]) = Width(banks[j]) /\ i <= j]

NoBand == [name |-> "none"]

\* The bank that is selected is kept while it holds the frequency; then the
\* narrowest enabled one, then the narrowest of all.
PickRange(ranges, f, current) ==
    LET holding == {i \in DOMAIN ranges : Holds(ranges[i], f)}
        kept == {i \in holding : ranges[i].name = current}
        enabled == {i \in holding : ranges[i].enabled}
    IN  IF kept # {} THEN ranges[CHOOSE i \in kept : \A j \in kept : i <= j]
        ELSE IF enabled # {} THEN Narrowest(ranges, enabled)
        ELSE IF holding # {} THEN Narrowest(ranges, holding)
        ELSE NoBand

(***************************************************************************)
(* The native decoders a bank feeds, by the words in its name, its mode    *)
(* and, for two of them, where the radio is                                *)
(***************************************************************************)

WordsOf ==
    [adsb |-> {"ADS-B 1090"}, uat |-> {"ADS-B UAT"}, ais |-> {"AIS"}, aprs |-> {"APRS 2m"},
     acars |-> {"ACARS"}, vdl2 |-> {"VDL2"}, pocsag |-> {"UHF Pagers", "Pagers"},
     rtty |-> {"RTTY 20m"}, navtex |-> {"NAVTEX 518"}, cw |-> {"CW 20m"},
     rds |-> {"FM Broadcast"},
     lora |-> {"70cm Amateur", "ISM 433", "33cm Amateur", "ISM 915"},
     ble |-> {"ISM 2.4 GHz"}, radiosonde |-> {"Radiosonde"}, goes |-> {"GOES HRIT / LRIT"}]

SondeBand(f) == f \in 4000000..4065000
GoesBand(f) == f \in 16880000..16970000

Feeds(band, f) ==
    {d \in DOMAIN WordsOf : band.name \in WordsOf[d]}
    \cup {d \in {"rds"} : band.mode = "wfm"}
    \cup {d \in {"radiosonde"} : SondeBand(f)}
    \cup {d \in {"goes"} : GoesBand(f)}

(***************************************************************************)
(* The list of banks as the operator edits and reloads it                  *)
(***************************************************************************)

Without(ranges, name) == Picked(ranges, {i \in DOMAIN ranges : ranges[i].name # name})
Created(ranges, band) == Append(Without(ranges, band.name), band)
Imported(ranges, bands) ==
    LET upto[n \in 0 .. Len(bands)] == IF n = 0 THEN ranges ELSE Created(upto[n - 1], bands[n])
    IN  upto[Len(bands)]
SetEnabled(ranges, name, on) == [ranges EXCEPT ![FirstOf(ranges, name)].enabled = on]

\* A wrong merge: what is shipped replaces what the operator made of it.
ShippedFirst(saved, shipped) ==
    shipped \o SelectSeq(saved, LAMBDA b : b.name \notin Names(shipped))

\* Shipped banks the saved list lacks are put at its end.
Merged(saved, shipped) ==
    saved \o Picked(shipped, {i \in DOMAIN shipped : shipped[i].name \notin Names(saved)})

InitialCenter(band, span) ==
    IF band.start + span \div 2 < band.end THEN band.start + span \div 2 ELSE band.end

Enabled(ranges) == Picked(ranges, {i \in DOMAIN ranges : ranges[i].enabled})

\* The bank the monitor opens on.
DefaultRange(ranges) ==
    IF "FM Broadcast" \in Names(ranges) THEN BandNamed(ranges, "FM Broadcast") ELSE ranges[1]
=============================================================================
