------------------------------ MODULE SignalId ------------------------------
(***************************************************************************)
(* What a hit is taken for (signal_id.rs and arrl_bandplan.rs), and which  *)
(* native decoders are then tried on its channel (auto_decode.rs).         *)
(*                                                                         *)
(* A hit is where it is (kHz), how wide the channel (Hz), the mode, the    *)
(* keywords in its bank's name, the signal to noise ratio (dB), what the   *)
(* audio detectors find, and what is really being sent: the protocol, its  *)
(* half width (Hz) and its tones or rate.  Confidences are in thousandths. *)
(***************************************************************************)
EXTENDS BitFraming, Squitters

(***************************************************************************)
(* Allocations                                                             *)
(***************************************************************************)

\* Edges in kHz, protocol, decoder, confidence.
BAND_PRIORS ==
    <<<<540, 1700, "am_broadcast", "native_am", 750>>,
      <<490, 518, "navtex", "native_navtex", 700>>,
      <<88000, 108000, "fm_broadcast", "native_wfm_rds", 850>>,
      <<118000, 137000, "aircraft_am", "native_am", 800>>,
      <<129000, 132000, "acars", "native_acars", 780>>,
      <<136000, 137000, "vdl2", "native_vdl2", 720>>,
      <<137000, 138000, "noaa_apt", "noaa-apt", 820>>,
      <<144000, 148000, "amateur_vhf", "direwolf", 550>>,
      <<144390, 144400, "aprs", "direwolf", 900>>,
      <<156000, 162000, "marine_vhf", "native_nfm", 700>>,
      <<161975, 162025, "ais", "native_ais", 920>>,
      <<162400, 162550, "noaa_weather", "native_nfm", 880>>,
      <<400000, 406000, "radiosonde", "rtl_433", 750>>,
      <<433050, 434790, "ism_433", "rtl_433", 800>>,
      <<454000, 461000, "pocsag", "native_pocsag", 650>>,
      <<462550, 467725, "frs_gmrs", "native_nfm", 700>>,
      <<851000, 869000, "p25_trunked", "dsd-fme", 720>>,
      <<902000, 928000, "ism_915", "rtl_433", 750>>,
      <<929000, 932000, "pocsag", "multimon-ng", 780>>,
      <<978000, 978200, "uat978", "native_uat978", 900>>,
      <<1090000, 1090200, "adsb", "native_adsb", 950>>,
      <<1525000, 1559000, "inmarsat", "satdump", 700>>,
      <<1574000, 1577000, "gps_l1", "satdump", 800>>,
      <<1616000, 1626500, "iridium", "iridiumlive", 820>>,
      <<1691000, 1695000, "goes_hrit", "satdump", 880>>,
      <<88000, 108000, "hd_radio", "nrsc5", 350>>, <<380000, 400000, "tetra", "tetraear", 650>>,
      <<410000, 430000, "tetra", "tetraear", 550>>>>

\* The same of the amateur segments, and the mode used there.
ARRL_SEGMENTS ==
    <<<<1800, 1840, "cw", "native_cw", 880, "usb">>,
      <<1840, 1850, "rtty", "native_rtty", 820, "usb">>,
      <<1850, 1890, "digital_weak", "native_rtty", 700, "usb">>,
      <<1890, 2000, "ssb_voice", "none", 850, "lsb">>,
      <<3500, 3600, "cw", "native_cw", 880, "usb">>,
      <<3600, 3700, "rtty", "native_rtty", 800, "usb">>,
      <<3700, 3800, "digital_weak", "native_rtty", 720, "usb">>,
      <<3800, 4000, "ssb_voice", "none", 860, "lsb">>,
      <<7000, 7035, "cw", "native_cw", 900, "usb">>,
      <<7035, 7050, "digital_weak", "native_rtty", 780, "usb">>,
      <<7050, 7075, "rtty", "native_rtty", 840, "usb">>,
      <<7075, 7100, "digital_weak", "native_rtty", 760, "usb">>,
      <<7100, 7125, "ssb_voice", "none", 880, "lsb">>,
      <<7125, 7175, "digital_weak", "native_rtty", 680, "usb">>,
      <<7175, 7200, "ssb_voice", "none", 880, "lsb">>,
      <<7200, 7300, "ssb_voice", "none", 860, "lsb">>,
      <<10100, 10140, "cw", "native_cw", 880, "usb">>,
      <<10140, 10150, "digital_weak", "native_rtty", 780, "usb">>,
      <<14000, 14070, "cw", "native_cw", 900, "usb">>,
      <<14070, 14095, "digital_weak", "native_rtty", 780, "usb">>,
      <<14095, 14112, "rtty", "native_rtty", 840, "usb">>,
      <<14150, 14350, "ssb_voice", "none", 880, "usb">>,
      <<21000, 21070, "cw", "native_cw", 880, "usb">>,
      <<21070, 21200, "digital_weak", "native_rtty", 760, "usb">>,
      <<21200, 21450, "ssb_voice", "none", 860, "usb">>,
      <<28000, 28070, "cw", "native_cw", 880, "usb">>,
      <<28070, 28190, "digital_weak", "native_rtty", 760, "usb">>,
      <<28300, 29700, "ssb_voice", "none", 820, "usb">>,
      <<50000, 54000, "amateur_vhf", "none", 650, "usb">>,
      <<144000, 144100, "digital_weak", "native_rtty", 620, "usb">>,
      <<144390, 144400, "aprs", "native_aprs", 920, "nfm">>,
      <<144500, 148000, "fm_voice", "none", 800, "nfm">>,
      <<420000, 450000, "amateur_uhf", "none", 600, "nfm">>,
      <<431000, 433000, "digital_weak", "native_rtty", 580, "nfm">>>>

Within(kHz, row) == row[1] <= kHz /\ kHz <= row[2]

\* The most confident, a narrow one before a wide one; of equals the last.
SegmentAt(kHz) ==
    LET score(i) == ARRL_SEGMENTS[i][5] - (ARRL_SEGMENTS[i][2] - ARRL_SEGMENTS[i][1])
        here == {i \in DOMAIN ARRL_SEGMENTS : Within(kHz, ARRL_SEGMENTS[i])}
    IN  {i \in here : \A j \in here : score(j) < score(i) \/ (score(j) = score(i) /\ j <= i)}

RecommendedMode(kHz, mode) ==
    LET modes == {ARRL_SEGMENTS[i][6] : i \in SegmentAt(kHz)}
    IN  IF modes = {} THEN mode ELSE CHOOSE m \in modes : TRUE

(***************************************************************************)
(* Cues                                                                    *)
(***************************************************************************)

\* Keywords of a bank's name, protocol, boost.
RangeBoosts ==
    <<<<"acars", "acars", 200>>, <<"ais", "ais", 250>>, <<"ads-b", "adsb", 250>>,
      <<"adsb", "adsb", 250>>, <<"uat", "uat978", 250>>, <<"noaa apt", "noaa_apt", 250>>,
      <<"noaa weather", "noaa_weather", 200>>, <<"goes", "goes_hrit", 250>>,
      <<"iridium", "iridium", 250>>, <<"inmarsat", "inmarsat", 200>>, <<"gps", "gps_l1", 200>>,
      <<"radiosonde", "radiosonde", 200>>, <<"pager", "pocsag", 200>>, <<"marine", "marine_vhf", 100>>,
      <<"aircraft", "aircraft_am", 150>>, <<"fm broadcast", "fm_broadcast", 200>>,
      <<"trunk", "p25_trunked", 150>>, <<"ism", "ism_433", 100>>, <<"frs", "frs_gmrs", 150>>,
      <<"gmrs", "frs_gmrs", 150>>, <<"aprs", "aprs", 250>>, <<"amateur", "amateur_vhf", 80>>>>

BandwidthHints(bw, mode) ==
    (IF bw \in 150000..250000 THEN <<<<"fm_broadcast", 150>>>> ELSE <<>>)
    \o (IF bw >= 800000 THEN <<<<"adsb", 100>>>> ELSE <<>>)
    \o (IF bw \in 10000..30000 /\ mode \in {"nfm", "fm", ""}
         THEN <<<<"analog_nfm", 100>>, <<"ais", 50>>, <<"p25_trunked", 50>>>> ELSE <<>>)
    \o (IF bw <= 10000 /\ mode \in {"usb", "lsb"} THEN <<<<"rtty", 100>>, <<"cw", 80>>>> ELSE <<>>)
    \o (IF bw \in 30000..50000 THEN <<<<"noaa_apt", 120>>>> ELSE <<>>)
    \o (IF bw >= 1000000 THEN <<<<"goes_hrit", 100>>, <<"hd_radio", 50>>>> ELSE <<>>)

\* What the detectors find in the audio, in the order they are asked.
AudioCues(found, mode) ==
    LET cue(name, boosts) == IF name \in found THEN boosts ELSE <<>>
    IN  (IF mode \in {"nfm", "wfm"}
         THEN cue("ctcss", <<<<"analog_nfm", 250>>>>) \o cue("dcs", <<<<"analog_nfm", 250>>>>) ELSE <<>>)
        \o cue("dtmf", <<<<"dtmf", 300>>, <<"analog_nfm", 100>>>>)
        \o cue("cw", <<<<"cw", 350>>>>) \o cue("rtty", <<<<"rtty", 400>>>>)
        \o cue("navtex", <<<<"navtex", 450>>>>) \o cue("sstv", <<<<"sstv", 400>>>>)
        \o (IF mode = "wfm" THEN cue("rds", <<<<"fm_broadcast", 300>>>>) ELSE <<>>)
        \o cue("afsk", <<<<"aprs", 250>>, <<"pocsag", 50>>>>)
        \o (IF mode = "nfm" THEN cue("busy", <<<<"p25", 120>>, <<"dmr", 100>>>>) ELSE <<>>)

DecoderFor(protocol) ==
    CASE protocol = "adsb" -> "native_adsb"
      [] protocol = "uat978" -> "native_uat978"
      [] protocol = "acars" -> "native_acars"
      [] protocol = "vdl2" -> "native_vdl2"
      [] protocol = "ais" -> "native_ais"
      [] protocol \in {"pocsag", "dtmf"} -> "native_pocsag"
      [] protocol = "aprs" -> "native_aprs"
      [] protocol = "cw" -> "native_cw"
      [] protocol \in {"rtty", "digital_weak"} -> "native_rtty"
      [] protocol = "navtex" -> "native_navtex"
      [] protocol = "fm_broadcast" -> "native_wfm_rds"
      [] protocol \in {"ism_433", "ism_915", "radiosonde"} -> "rtl_433"
      [] protocol \in {"analog_nfm", "frs_gmrs", "marine_vhf", "noaa_weather"} -> "native_nfm"
      [] protocol \in {"aircraft_am", "am_broadcast"} -> "native_am"
      [] protocol \in {"noaa_apt", "goes_hrit", "inmarsat", "gps_l1", "iridium", "tetra", "p25", "dmr",
                       "p25_trunked", "hd_radio", "sstv"} -> "external"
      [] OTHER -> "none"

(***************************************************************************)
(* Scores                                                                  *)
(***************************************************************************)

Score(n, decoder) == [score |-> n, decoder |-> decoder]
With(scores, protocol, value) ==
    [p \in DOMAIN scores \cup {protocol} |-> IF p = protocol THEN value ELSE scores[p]]

\* An allocation: the better of two counts, the other adds a part of itself.
PriorCue(part, scores, row) ==
    IF row[3] \notin DOMAIN scores \/ row[5] > scores[row[3]].score
    THEN With(scores, row[3], Score(row[5], row[4]))
    ELSE With(scores, row[3], [scores[row[3]] EXCEPT !.score = Lower(@ + (row[5] * part) \div 100, 980)])

\* A boost: on top of what is there, or of a beginning.
Boosted(beginning, cap, scores, cue) ==
    LET old == IF cue[1] \in DOMAIN scores THEN scores[cue[1]] ELSE Score(beginning, DecoderFor(cue[1]))
    IN  With(scores, cue[1], [old EXCEPT !.score = Lower(@ + cue[2], cap)])

ModeCue(scores, mode) ==
    CASE mode = "wfm" -> Boosted(400, 980, scores, <<"fm_broadcast", 150>>)
      [] mode = "am" -> Boosted(300, 980, scores, <<"aircraft_am", 100>>)
      [] mode \in {"nfm", "fm"} -> Boosted(350, 980, scores, <<"analog_nfm", 100>>)
      [] OTHER -> scores

Scaled(scores, snr) ==
    [p \in DOMAIN scores |->
        [scores[p] EXCEPT !.score = Lower((@ * (IF snr >= 20 THEN 105 ELSE IF snr >= 12 THEN 100 ELSE 85))
                                          \div 100, 980)]]

\* Everything but the audio, then the audio.
Scores(hit, mode) ==
    LET here == SelectSeq(BAND_PRIORS, LAMBDA row : Within(hit.kHz, row))
        segment == SelectSeq(ARRL_SEGMENTS, LAMBDA row : \E i \in SegmentAt(hit.kHz) : row = ARRL_SEGMENTS[i])
        named == SelectSeq(RangeBoosts, LAMBDA boost : boost[1] \in hit.bank)
        allocated == After(LAMBDA s, row : PriorCue(25, s, row),
                           After(LAMBDA s, row : PriorCue(30, s, row), <<>>, here), segment)
        ranged == After(LAMBDA s, b : Boosted(200, 980, s, <<b[2], b[3]>>), allocated, named)
        wide == After(LAMBDA s, cue : Boosted(150, 980, s, cue), ranged, BandwidthHints(hit.bandwidth, mode))
    IN  After(LAMBDA s, cue : Boosted(200, 990, s, cue),
              Scaled(ModeCue(wide, mode), hit.snr), AudioCues(hit.audio, mode))

\* The eight best; equals come in whatever order the map gives them.
Candidates(scores) ==
    {p \in DOMAIN scores :
        Cardinality({q \in DOMAIN scores : scores[q].score > scores[p].score}) < 8}

\* A detector that is sure counts as a decoding: the last of them.
AudioDecoded(hit, mode) ==
    LET sure == SelectSeq(AudioCues(hit.audio, mode), LAMBDA cue : cue[2] >= 300)
    IN  IF sure = <<>> THEN <<>> ELSE <<sure[Len(sure)][1]>>

(***************************************************************************)
(* Decoders                                                                *)
(***************************************************************************)

ChannelCutoff(mode) == CASE mode = "wfm" -> 100000 [] mode = "nfm" -> 12500 [] OTHER -> 5000

CW_TONES == {<<700>>, <<600>>, <<800>>}
RTTY_PROFILES == {<<170, 2125, 45>>, <<1275, 1445, 45>>, <<1615, 1785, 50>>}
POCSAG_RATES == {<<1200>>, <<2400>>}

\* What a decoder makes of the channel.  ACARS is read most significant bit
\* first and APRS hears no frame (module BitFraming): neither says anything;
\* of rtl_433 there is only a notice that the sidecar is at work.
RunNativeDecoder(decoder, hit, mode) ==
    LET heard(protocol, fits) ==
            IF hit.protocol = protocol /\ hit.width <= ChannelCutoff(mode) /\ fits THEN <<protocol>> ELSE <<>>
    IN  CASE decoder = "native_ais" -> heard("ais", TRUE)
          [] decoder \in {"native_pocsag", "multimon-ng"} -> heard("pocsag", hit.tones \in POCSAG_RATES)
          [] decoder = "native_vdl2" -> heard("vdl2", TRUE)
          [] decoder = "native_uat978" -> heard("uat978", TRUE)
          [] decoder = "native_wfm_rds" -> heard("rds", mode = "wfm")
          [] decoder = "native_navtex" -> heard("navtex", TRUE)
          [] decoder = "native_cw" -> heard("cw", hit.tones \in CW_TONES)
          [] decoder = "native_rtty" -> heard("rtty", hit.tones \in RTTY_PROFILES)
          [] OTHER -> <<>>

(***************************************************************************)
(* try_decode_signal, for a threshold, with the amateur band plan or not.  *)
(* No two decoders hear the same transmission, so it does not matter in    *)
(* which order they are tried.                                             *)
(***************************************************************************)

DecodersTried(scores, threshold, arrl) ==
    {scores[p].decoder : p \in {p \in Candidates(scores) : scores[p].score >= threshold}}
        \cup (IF arrl THEN {"native_cw", "native_rtty", "native_aprs"} ELSE {})

HeardBy(decoders, hit, mode) ==
    LET hearing == {d \in decoders : RunNativeDecoder(d, hit, mode) # <<>>}
    IN  IF hearing = {} THEN <<>> ELSE RunNativeDecoder(CHOOSE d \in hearing : TRUE, hit, mode)

DecodeIn(mode, hit, threshold, arrl) ==
    AudioDecoded(hit, mode) \o HeardBy(DecodersTried(Scores(hit, mode), threshold, arrl), hit, mode)

TryDecodeSignal(hit, threshold, arrl) ==
    DecodeIn(IF arrl THEN RecommendedMode(hit.kHz, hit.mode) ELSE hit.mode, hit, threshold, arrl)

(***************************************************************************)
(* What is owed: a signal on its own allocation, in the mode its bank has, *)
(* that one of the decoders can read at all.                               *)
(***************************************************************************)

Allocated(hit) ==
    \/ \E i \in DOMAIN BAND_PRIORS : Within(hit.kHz, BAND_PRIORS[i]) /\ BAND_PRIORS[i][3] = hit.protocol
    \/ hit.protocol = "rds" /\ hit.kHz \in 88000..108000
    \/ hit.protocol \in {"cw", "rtty"} /\ SegmentAt(hit.kHz) # {}
WithinReach(hit) ==
    /\ hit.width <= ChannelCutoff(RecommendedMode(hit.kHz, hit.mode))
    /\ CASE hit.protocol = "pocsag" -> hit.tones \in POCSAG_RATES
         [] hit.protocol = "cw" -> hit.tones \in CW_TONES
         [] hit.protocol = "rtty" -> hit.tones \in RTTY_PROFILES
         [] OTHER -> hit.protocol \in {"ais", "vdl2", "uat978", "rds", "navtex"}
=============================================================================
