------------------------------ MODULE Services ------------------------------
(***************************************************************************)
(* The services around the receiver, each a machine of its own: the bank   *)
(* the receiver works in, the windows of the native decoders, the feeds of *)
(* IQ samples, recordings, trunking, the installation of decoders, and     *)
(* sound.  They share no state this model follows, so one of them runs in  *)
(* a behaviour and the others stay Off: whatever holds of each machine     *)
(* alone holds of all of them together, without the product of their       *)
(* states.                                                                 *)
(***************************************************************************)
EXTENDS Integers, Sequences

CONSTANTS
    Off,                                                    \* not on the scene
    Scenes,                                                 \* those of the run
    Clients, Points, Written, Touched, Shipped, Saved, MaxRequests,
    Kinds, Cap, Least, ChunkUnits, MaxLength, MaxUnits,
    FeedKinds, Capacity, MaxPayload, BlockSize, ReadSize, MaxFlight, MaxSamples,
    Users, Paths, Jobs, Chunk, MaxFile, MaxStarts, MaxCrashes,
    Requests, Systems, Talkgroups, Observations, VoiceTables, NotNamed, MaxEdits, MaxObserved,
    Decoders, Downloadable, OnSystem, Installs, Editors, MaxSettings, MaxInstalls,
    FrameInstants, MaxPush, QueueSize, RingSize, MaxInstants, MaxOutput

\* A bank, as BandPlan writes it.
BankType == [name : STRING, start : Nat, end : Nat, mode : STRING, vfos : Nat, rate : Nat,
             enabled : BOOLEAN]

\* One that is an interval.  NoBand's name is no bank's.
OrderedBank == {b \in BankType : b.start <= b.end /\ b.name # "none"}
BanksOrdered ==
    Written \subseteq OrderedBank /\ Shipped \in Seq(OrderedBank) /\ Saved \subseteq Seq(OrderedBank)

ASSUME ServicesAssumption ==
    /\ "none" \notin Paths \cup Jobs                       \* a path is not none
    /\ {Chunk, MaxFile} \subseteq Nat
    /\ {FrameInstants, Capacity, MaxPayload} \subseteq Nat \ {0}
    /\ {BlockSize, ReadSize} \subseteq Nat
    /\ {MaxPush, QueueSize, RingSize, MaxInstants, MaxOutput} \subseteq Nat

\* Banks are banks, a channel read off the air is a number.
ASSUME InputsAssumption ==
    /\ Written \subseteq BankType /\ Shipped \in Seq(BankType) /\ Saved \subseteq Seq(BankType)
    /\ Shipped # <<>> /\ Points \subseteq Nat
    /\ VoiceTables \subseteq Seq(STRING)
    /\ Observations \subseteq
          [grants : Seq([talkgroup : Talkgroups, channel : Nat]), idens : Seq(STRING)]

\* A window of packets holds twice what its decoder waits for (scanner.rs:2149,
\* 2169, 2191, 2213).  A chunk of captured IQ is five FFTs (scanner.rs:873), and
\* how long those are nothing limits (config.rs:176).
ASSUME WindowsAssumption ==
    /\ MaxLength \in Nat /\ MaxUnits \in Nat
    /\ \A k \in Kinds :
          /\ ChunkUnits[k] \in Nat \ {0} /\ Cap[k] \in Nat
          /\ k \notin {"rds", "hf"} => Least[k] \in Nat /\ 2 * Least[k] <= Cap[k]

VARIABLES
    scene,                                                  \* the machine that runs
    ranges, bandsDisk, radio, rate, active, locked, vfo, commands, cycle, step,
    request, requests, edited, overlapped, left, wish,
    kind, window, last, heard, air, bursts, part, units, spoiled,
    feed, made, flight, ingest, bytes, ring, got, swapped,
    rec, write, recordings, metas, creating, job, row, asleep, starts, recCrashes,
    disturbed,
    trunk, watched, req, followed, edits, observed,
    unix, admin, cfg, disk, programs, inst, put, installs, crashes, newest, tainted,
    raced,
    headless, channels, pending, frames, heardRing, sound, pushing, clearing,
    instant

bandsVars == <<ranges, bandsDisk, radio, rate, active, locked, vfo, commands, cycle,
    step, request, requests, edited, overlapped, left, wish>>
windowsVars == <<kind, window, last, heard, air, bursts, part, units, spoiled>>
feedVars == <<feed, made, flight, ingest, bytes, ring, got, swapped>>
recordingsVars == <<rec, write, recordings, metas, creating, job, row, asleep, starts,
    recCrashes, disturbed>>
trunkingVars == <<trunk, watched, req, followed, edits, observed>>
installsVars == <<unix, admin, cfg, disk, programs, inst, put, installs, crashes,
    newest, tainted, raced>>
soundVars == <<headless, channels, pending, frames, heardRing, sound, pushing, clearing,
    instant>>
vars == <<scene, bandsVars, windowsVars, feedVars, recordingsVars, trunkingVars, installsVars, soundVars>>

Bands == INSTANCE BandFollow WITH disk <- bandsDisk, queue <- commands
Windows == INSTANCE NativeWindows
Feed == INSTANCE IqFeed WITH queue <- ingest, pending <- bytes
Rec == INSTANCE Recordings WITH files <- recordings, crashes <- recCrashes, MaxLength <- MaxFile
Trunk == INSTANCE Trunking
Install == INSTANCE DecoderInstall WITH files <- programs
Sound == INSTANCE AudioFanout WITH ring <- heardRing, queue <- sound

BandsOff ==
    /\ ranges = Off /\ bandsDisk = Off /\ radio = Off /\ rate = Off /\ active = Off
    /\ locked = Off /\ vfo = Off /\ commands = Off /\ cycle = Off /\ step = Off
    /\ request = Off /\ requests = Off /\ edited = Off /\ overlapped = Off
    /\ left = Off /\ wish = Off
WindowsOff ==
    /\ kind = Off /\ window = Off /\ last = Off /\ heard = Off /\ air = Off
    /\ bursts = Off /\ part = Off /\ units = Off /\ spoiled = Off
FeedOff ==
    /\ feed = Off /\ made = Off /\ flight = Off /\ ingest = Off /\ bytes = Off
    /\ ring = Off /\ got = Off /\ swapped = Off
RecOff ==
    /\ rec = Off /\ write = Off /\ recordings = Off /\ metas = Off /\ creating = Off
    /\ job = Off /\ row = Off /\ asleep = Off /\ starts = Off /\ recCrashes = Off
    /\ disturbed = Off
TrunkOff ==
    /\ trunk = Off /\ watched = Off /\ req = Off /\ followed = Off /\ edits = Off
    /\ observed = Off
InstallOff ==
    /\ unix = Off /\ admin = Off /\ cfg = Off /\ disk = Off /\ programs = Off
    /\ inst = Off /\ put = Off /\ installs = Off /\ crashes = Off /\ newest = Off
    /\ tainted = Off /\ raced = Off
SoundOff ==
    /\ headless = Off /\ channels = Off /\ pending = Off /\ frames = Off
    /\ heardRing = Off /\ sound = Off /\ pushing = Off /\ clearing = Off
    /\ instant = Off

Init ==
    /\ scene \in Scenes
    /\ \/ /\ scene = "bands" /\ Bands!BandInit
          /\ WindowsOff /\ FeedOff /\ RecOff /\ TrunkOff /\ InstallOff /\ SoundOff
       \/ /\ scene = "windows" /\ Windows!WindowInit
          /\ BandsOff /\ FeedOff /\ RecOff /\ TrunkOff /\ InstallOff /\ SoundOff
       \/ /\ scene = "feed" /\ Feed!FeedInit
          /\ BandsOff /\ WindowsOff /\ RecOff /\ TrunkOff /\ InstallOff /\ SoundOff
       \/ /\ scene = "recordings" /\ Rec!RecInit
          /\ BandsOff /\ WindowsOff /\ FeedOff /\ TrunkOff /\ InstallOff /\ SoundOff
       \/ /\ scene = "trunking" /\ Trunk!TrunkInit
          /\ BandsOff /\ WindowsOff /\ FeedOff /\ RecOff /\ InstallOff /\ SoundOff
       \/ /\ scene = "installs" /\ Install!DecInit
          /\ BandsOff /\ WindowsOff /\ FeedOff /\ RecOff /\ TrunkOff /\ SoundOff
       \/ /\ scene = "sound" /\ Sound!AudioInit
          /\ BandsOff /\ WindowsOff /\ FeedOff /\ RecOff /\ TrunkOff /\ InstallOff

BandsStep ==
    /\ scene = "bands" /\ Bands!BandNext
    /\ UNCHANGED <<scene, windowsVars, feedVars, recordingsVars, trunkingVars, installsVars, soundVars>>
WindowsStep ==
    /\ scene = "windows" /\ Windows!WindowNext
    /\ UNCHANGED <<scene, bandsVars, feedVars, recordingsVars, trunkingVars, installsVars, soundVars>>
FeedStep ==
    /\ scene = "feed" /\ Feed!FeedNext
    /\ UNCHANGED <<scene, bandsVars, windowsVars, recordingsVars, trunkingVars, installsVars, soundVars>>
RecStep ==
    /\ scene = "recordings" /\ Rec!RecNext
    /\ UNCHANGED <<scene, bandsVars, windowsVars, feedVars, trunkingVars, installsVars, soundVars>>
TrunkStep ==
    /\ scene = "trunking" /\ Trunk!TrunkNext
    /\ UNCHANGED <<scene, bandsVars, windowsVars, feedVars, recordingsVars, installsVars, soundVars>>
InstallStep ==
    /\ scene = "installs" /\ Install!DecNext
    /\ UNCHANGED <<scene, bandsVars, windowsVars, feedVars, recordingsVars, trunkingVars, soundVars>>
SoundStep ==
    /\ scene = "sound" /\ Sound!AudioNext
    /\ UNCHANGED <<scene, bandsVars, windowsVars, feedVars, recordingsVars, trunkingVars, installsVars>>

Next ==
    \/ BandsStep \/ WindowsStep \/ FeedStep \/ RecStep \/ TrunkStep \/ InstallStep \/ SoundStep

Spec == Init /\ [][Next]_vars

(***************************************************************************)
(* Properties                                                              *)
(***************************************************************************)

\* BandFollow: when all is quiet after retunes that did not overlap, the
\* scanner works in a bank that holds the radio, the decoders of the service
\* there are fed, and the VFO is inside the window.
RetuneSettles == scene = "bands" => Bands!RetuneSettles

\* BandFollow: whatever the operator made of a bank survives restarts and the
\* merge with the built-in list; only a deleted built-in bank comes back.
OperatorBanksSurvive == scene = "bands" => Bands!OperatorBanksSurvive

\* NativeWindows: a burst that came whole and that no other hid is published, a
\* packet once, or still waits whole in the window.
BurstsHeard == scene = "windows" => Windows!BurstsHeard

\* IqFeed: samples keep their I and Q, their order and, within a ring, their
\* neighbours, through lost and repeated packets, broken streams and overflow.
IqIntact == scene = "feed" => Feed!IqIntact

\* Recordings: an undisturbed recording that ended has a sidecar that counts the
\* samples of its file, whoever stopped it and however often.
FilesDescribed == scene = "recordings" => Rec!FilesDescribed

\* Trunking: only talkgroups that were let through at some moment of a start
\* are followed and logged by it.
OnlyWatchedFollowed == [][scene = "trunking" => Trunk!StepFollowsWanted]_vars

\* DecoderInstall: installs keep the operator's settings, what is in force is
\* what is saved, and configured programs are whole.
ConfigKept == [][scene = "installs" => Install!StepKeepsConfig]_vars

\* AudioFanout: browser frames are aligned and contiguous, the transcriber's and
\* the sound card's samples in order and of one instant each.
FramesAligned == scene = "sound" => Sound!FramesAligned
=============================================================================
