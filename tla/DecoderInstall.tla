--------------------------- MODULE DecoderInstall ---------------------------
(***************************************************************************)
(* External decoder programs and the configuration that names them         *)
(* (depmanager.rs; decoders_install, decoders_configure and put_settings   *)
(* of api.rs; Config::load and save; the bootstrap of AppState::new).      *)
(*                                                                         *)
(* An install works on a copy of the configuration, downloads an archive   *)
(* and writes its files one by one into the data directory, then applies   *)
(* the path of the executable to the configuration as it then is, and      *)
(* saves that under the lock.  New settings replace the configuration in   *)
(* memory under the lock and are saved after it was let go.  The process   *)
(* may die at any time.                                                    *)
(*                                                                         *)
(* On Unix a file that an install creates is not executable; one that it   *)
(* overwrites stays what it was.                                           *)
(***************************************************************************)
EXTENDS Integers, FiniteSets

CONSTANTS
    Decoders,
    Downloadable,      \* those with an archive
    OnSystem,          \* those found among the system's programs
    Installs, Editors,  \* requests
    MaxSettings,
    MaxInstalls,
    MaxCrashes

VARIABLES
    unix, admin,       \* the platform; PULSESCOPE_ADMIN_SETTINGS
    cfg, disk,         \* the configuration, and config.toml
    files,             \* executables below the data directory
    inst,              \* per install request
    put,               \* per client, the settings it sends
    installs, crashes,
    newest,            \* the setting the operator sent last
    tainted,           \* executables of which a write failed, died or was shared
    raced              \* config.toml was written by a put after a later save

installVars == <<unix, admin, cfg, disk, files, inst, put, installs, crashes, newest, tainted,
                 raced>>

\* An archive holds the executable where the manifest says or elsewhere.
Places == {"own", "nested"} \X Decoders
Unset == <<>>
System(d) == <<"system", d>>
Typed == <<"typed">>
NoInstall == [at |-> "idle", place |-> Unset, path |-> Unset, decoder |-> Unset, shared |-> FALSE]
NoPut == [at |-> "idle", cfg |-> Unset]

DecInit ==
    /\ unix \in BOOLEAN /\ admin \in BOOLEAN
    /\ cfg = [setting |-> 0, paths |-> [d \in Decoders |-> Unset]] /\ disk = cfg
    /\ files = [p \in Places |-> [is |-> "none", runs |-> FALSE]]
    /\ inst = [i \in Installs |-> NoInstall]
    /\ put = [c \in Editors |-> NoPut]
    /\ installs = 0 /\ crashes = 0 /\ newest = 0 /\ tainted = {} /\ raced = FALSE

(***************************************************************************)
(* Finding programs                                                        *)
(***************************************************************************)

\* The data directory first, there only where the manifest points.
Discovered(d) ==
    IF files[<<"own", d>>].is # "none" /\ files[<<"own", d>>].runs THEN <<"own", d>>
    ELSE IF d \in OnSystem THEN System(d) ELSE Unset

IsFile(path) ==
    path # Unset /\ (path \in Places => files[path].is # "none")

Applied(config, d, path) == [config EXCEPT !.paths[d] = path]

\* What was found replaces every path, or on a start those that lead nowhere.
Configured(config) ==
    [config EXCEPT !.paths = [d \in Decoders |-> IF Discovered(d) = Unset THEN @[d]
                                                 ELSE Discovered(d)]]
Bootstrapped(config) ==
    [config EXCEPT !.paths = [d \in Decoders |-> IF Discovered(d) = Unset \/ IsFile(@[d])
                                                 THEN @[d] ELSE Discovered(d)]]

Stored(config) == /\ disk' = config
                 /\ raced' = FALSE

Configure ==
    /\ Configured(cfg) # cfg
    /\ cfg' = Configured(cfg)
    /\ Stored(Configured(cfg))
    /\ UNCHANGED <<unix, admin, files, inst, put, installs, crashes, newest, tainted>>

(***************************************************************************)
(* An install                                                              *)
(***************************************************************************)

Writing(p) == {i \in Installs : inst[i].at = "extract" /\ inst[i].place = p}

Begin(i, d) ==
    /\ inst[i].at = "idle" /\ installs < MaxInstalls
    /\ inst' = [inst EXCEPT ![i] =
                  IF d \in Downloadable THEN [NoInstall EXCEPT !.at = "download", !.decoder = d]
                  ELSE IF Discovered(d) = Unset THEN NoInstall      \* refused
                  ELSE [NoInstall EXCEPT !.at = "apply", !.decoder = d, !.path = Discovered(d)]]
    /\ installs' = installs + 1
    /\ UNCHANGED <<unix, admin, cfg, disk, files, put, crashes, newest, tainted, raced>>

\* The archive is there, and the file of the executable is created, empty.
Extract(i, p) ==
    /\ inst[i].at = "download" /\ p[2] = inst[i].decoder
    /\ files' = [files EXCEPT ![p] = [is |-> "part", runs |-> IF @.is = "none" THEN ~unix
                                                             ELSE @.runs]]
    /\ tainted' = IF Writing(p) = {} THEN tainted ELSE tainted \cup {p}
    /\ inst' = [j \in Installs |->
                  IF j = i THEN [inst[i] EXCEPT !.at = "extract", !.place = p,
                                                !.shared = (Writing(p) # {})]
                  ELSE IF j \in Writing(p) THEN [inst[j] EXCEPT !.shared = TRUE]
                  ELSE inst[j]]
    /\ UNCHANGED <<unix, admin, cfg, disk, put, installs, crashes, newest, raced>>

\* No network, a bad archive, no executable in it, a full disk.
Fails(i) ==
    /\ inst[i].at \in {"download", "extract"}
    /\ tainted' = IF inst[i].at = "extract" THEN tainted \cup {inst[i].place} ELSE tainted
    /\ inst' = [inst EXCEPT ![i] = NoInstall]
    /\ UNCHANGED <<unix, admin, cfg, disk, files, put, installs, crashes, newest, raced>>

\* With two writers the file may have holes.  The executable is looked for
\* where the manifest says, where it must be executable, and then everywhere.
Extracted(i) ==
    /\ inst[i].at = "extract"
    /\ LET p == inst[i].place
           own == <<"own", inst[i].decoder>>
       IN  /\ \E is \in IF inst[i].shared THEN {"part", "whole"} ELSE {"whole"} :
                 files' = [files EXCEPT ![p].is = is]
           /\ tainted' = IF inst[i].shared THEN tainted ELSE tainted \ {p}
           /\ inst' = [inst EXCEPT ![i].at = "apply",
                                   ![i].path = IF files[own].is # "none" /\ files[own].runs
                                               THEN own ELSE p]
    /\ UNCHANGED <<unix, admin, cfg, disk, put, installs, crashes, newest, raced>>

\* Faulty variant: the path is not saved.
ApplyUnsaved(i) ==
    /\ inst[i].at = "apply"
    /\ cfg' = Applied(cfg, inst[i].decoder, inst[i].path)
    /\ inst' = [inst EXCEPT ![i] = NoInstall]
    /\ UNCHANGED <<unix, admin, disk, files, put, installs, crashes, newest, tainted, raced>>

Apply(i) ==
    /\ inst[i].at = "apply"
    /\ cfg' = Applied(cfg, inst[i].decoder, inst[i].path)
    /\ Stored(cfg')
    /\ inst' = [inst EXCEPT ![i] = NoInstall]
    /\ UNCHANGED <<unix, admin, files, put, installs, crashes, newest, tainted>>

(***************************************************************************)
(* The operator                                                            *)
(***************************************************************************)

\* A client sends back what it was shown, with a setting or a path changed.
SendSettings(c) ==
    /\ put[c].at = "idle" /\ newest < MaxSettings
    /\ \E d \in Decoders : \E path \in {cfg.paths[d], Typed} :
          put' = [put EXCEPT ![c] = [at |-> "check",
                                     cfg |-> Applied([cfg EXCEPT !.setting = newest + 1], d, path)]]
    /\ newest' = newest + 1
    /\ UNCHANGED <<unix, admin, cfg, disk, files, inst, installs, crashes, tainted, raced>>

CheckSettings(c) ==
    /\ put[c].at = "check"
    /\ put' = [put EXCEPT ![c] = IF put[c].cfg.paths = cfg.paths \/ admin
                                 THEN [@ EXCEPT !.at = "replace"] ELSE NoPut]
    /\ UNCHANGED <<unix, admin, cfg, disk, files, inst, installs, crashes, newest, tainted, raced>>

ReplaceSettings(c) ==
    /\ put[c].at = "replace"
    /\ cfg' = put[c].cfg
    /\ put' = [put EXCEPT ![c].at = "save"]
    /\ UNCHANGED <<unix, admin, disk, files, inst, installs, crashes, newest, tainted, raced>>

SaveSettings(c) ==
    /\ put[c].at = "save"
    /\ disk' = put[c].cfg
    /\ raced' = (put[c].cfg # cfg)
    /\ put' = [put EXCEPT ![c] = NoPut]
    /\ UNCHANGED <<unix, admin, cfg, files, inst, installs, crashes, newest, tainted>>

\* chmod, by the operator.
MakeExecutable(p) ==
    /\ files[p].is # "none" /\ ~files[p].runs
    /\ files' = [files EXCEPT ![p].runs = TRUE]
    /\ UNCHANGED <<unix, admin, cfg, disk, inst, put, installs, crashes, newest, tainted, raced>>

Restart ==
    /\ crashes < MaxCrashes /\ crashes' = crashes + 1
    /\ tainted' = tainted \cup {p \in Places : Writing(p) # {}}
    /\ cfg' = Bootstrapped(disk)
    /\ Stored(Bootstrapped(disk))
    /\ inst' = [i \in Installs |-> NoInstall] /\ put' = [c \in Editors |-> NoPut]
    /\ UNCHANGED <<unix, admin, files, installs, newest>>

DecNext ==
    \/ Configure \/ Restart
    \/ \E i \in Installs : \/ \E d \in Decoders : Begin(i, d)
                           \/ \E p \in Places : Extract(i, p)
                           \/ Fails(i) \/ Extracted(i) \/ Apply(i)
    \/ \E c \in Editors : \/ SendSettings(c) \/ CheckSettings(c) \/ ReplaceSettings(c)
                          \/ SaveSettings(c)
    \/ \E p \in Places : MakeExecutable(p)

(***************************************************************************)
(* Properties                                                              *)
(***************************************************************************)

\* Only a client's settings and a restart change the operator's settings: an
\* install that took its copy of the configuration before them does not undo
\* them (api.rs:4043).  What is saved is what is in force, unless a put has not
\* saved yet or saved after another change.  A path below the data directory
\* leads to a file, and to all of the executable unless a write of it is under
\* way, failed, died or shared the file with another.
StepKeepsConfig ==
    /\ cfg'.setting # cfg.setting =>
          \/ \E c \in Editors : put[c].at = "replace" /\ cfg'.setting = put[c].cfg.setting
          \/ crashes' # crashes /\ cfg'.setting = disk.setting
    /\ disk' # cfg' => raced' \/ \E c \in Editors : put'[c].at = "save"
    /\ \A d \in Decoders :
          LET p == cfg'.paths[d]
          IN  p \in Places =>
                /\ files'[p].is # "none"
                /\ files'[p].is = "part" =>
                     p \in tainted' \/ \E i \in Installs : inst'[i].at = "extract"
                                                           /\ inst'[i].place = p

ConfigKept == [][StepKeepsConfig]_installVars
=============================================================================
