----------------------------- MODULE Recordings -----------------------------
(***************************************************************************)
(* IQ recordings and what is told of them (state.rs, RecordingState; the   *)
(* recording handlers of api.rs; the recording jobs of state.rs,           *)
(* run_due_jobs).                                                          *)
(*                                                                         *)
(* There is one recording state.  A client's start creates the file, which *)
(* truncates it, and then takes the lock and replaces whatever is being    *)
(* recorded; a job first looks whether anything is, lets go of the lock,   *)
(* creates its file and takes the lock again.  The scanner writes, a write *)
(* may fail, and a stop - a client's, or that of a job whose time is up -  *)
(* writes the metadata sidecar of the last path.  The process may die.     *)
(*                                                                         *)
(* A file is its length in samples; -1 is no file.                         *)
(***************************************************************************)
EXTENDS Integers, FiniteSets

CONSTANTS
    Users,
    Paths,       \* the paths users give
    Jobs,
    Chunk,       \* samples in a write
    MaxLength,   \* of a file
    MaxStarts,   \* starts, and stops of what is not recording
    MaxCrashes

VARIABLES
    rec,         \* RecordingState
    write,       \* the open file: its path and how far it was written
    files,
    metas,       \* the sidecars, NoMeta where there is none
    creating,    \* per user, the path created and not yet recorded to
    job,         \* the job whose file is created and not yet recorded to
    row,         \* last_status of the jobs
    asleep,      \* the jobs whose completion task waits
    starts, crashes,
    disturbed    \* files created while in use, replaced, or not written in full

recVars == <<rec, write, files, metas, creating, job, row, asleep,
             starts, crashes, disturbed>>

JobPath(j) == j             \* a path of its own, named after the job
Files == Paths \cup {JobPath(j) : j \in Jobs}
NoPath == "none"
NoMeta == [samples |-> -1, started |-> FALSE, center |-> FALSE]
NoRecording == [open |-> FALSE, path |-> NoPath, started |-> FALSE, center |-> FALSE,
                samples |-> 0, error |-> FALSE]

Higher(a, b) == IF a > b THEN a ELSE b

RecInit ==
    /\ rec = NoRecording
    /\ write = [path |-> NoPath, at |-> 0]
    /\ files = [f \in Files |-> -1] /\ metas = [f \in Files |-> NoMeta]
    /\ creating = [u \in Users |-> NoPath] /\ job = NoPath
    /\ row = [j \in Jobs |-> "pending"] /\ asleep = {}
    /\ starts = 0 /\ crashes = 0 /\ disturbed = {}

InCreation(f) == f \in {creating[u] : u \in Users} \/ (job # NoPath /\ f = JobPath(job))
InUse(f) == InCreation(f) \/ (rec.open /\ rec.path = f)

\* File::create: the file is there and empty.
Created(f) ==
    /\ files' = [files EXCEPT ![f] = 0]
    /\ disturbed' = IF InUse(f) THEN disturbed \cup {f} ELSE disturbed \ {f}

\* A write to the recording state that begins a recording, whether or not one
\* is under way: the file of that one is closed, its sidecar not written.
Begun(f, recording) ==
    /\ rec' = recording
    /\ write' = [path |-> f, at |-> 0]
    /\ disturbed' = disturbed \cup IF rec.open THEN {rec.path} ELSE {}

(***************************************************************************)
(* Users                                                                   *)
(***************************************************************************)

CreateFile(u, f) ==
    /\ creating[u] = NoPath /\ starts < MaxStarts
    /\ Created(f)
    /\ creating' = [creating EXCEPT ![u] = f]
    /\ starts' = starts + 1
    /\ UNCHANGED <<rec, write, metas, job, row, asleep, crashes>>

\* Faulty variant: the count goes on from the last recording.
StartCounting(u) ==
    /\ creating[u] # NoPath
    /\ Begun(creating[u], [rec EXCEPT !.open = TRUE, !.path = creating[u], !.started = TRUE,
                                      !.center = TRUE, !.error = FALSE])
    /\ creating' = [creating EXCEPT ![u] = NoPath]
    /\ UNCHANGED <<files, metas, job, row, asleep, starts, crashes>>

Start(u) ==
    /\ creating[u] # NoPath
    /\ Begun(creating[u], [open |-> TRUE, path |-> creating[u], started |-> TRUE, center |-> TRUE,
                           samples |-> 0, error |-> FALSE])
    /\ creating' = [creating EXCEPT ![u] = NoPath]
    /\ UNCHANGED <<files, metas, job, row, asleep, starts, crashes>>

\* RecordingState::stop, of an open file or not.
Stopped ==
    /\ rec' = [rec EXCEPT !.open = FALSE, !.started = FALSE, !.center = FALSE]
    /\ metas' = IF rec.path = NoPath THEN metas
                ELSE [metas EXCEPT ![rec.path] =
                        [samples |-> rec.samples, started |-> rec.started, center |-> rec.center]]

Stop ==
    /\ rec.open \/ starts < MaxStarts
    /\ Stopped
    /\ starts' = IF rec.open THEN starts ELSE starts + 1
    /\ UNCHANGED <<write, files, creating, job, row, asleep, crashes, disturbed>>

(***************************************************************************)
(* The scanner's writes                                                    *)
(***************************************************************************)

WriteIq ==
    /\ rec.open /\ ~rec.error /\ write.at + Chunk <= MaxLength
    /\ files' = [files EXCEPT ![write.path] = Higher(@, write.at + Chunk)]
    /\ write' = [write EXCEPT !.at = @ + Chunk]
    /\ rec' = [rec EXCEPT !.samples = @ + Chunk]
    /\ UNCHANGED <<metas, creating, job, row, asleep, starts, crashes, disturbed>>

\* A write that fails, perhaps after a part of it: the file is closed.
WriteFails ==
    /\ rec.open /\ ~rec.error
    /\ \E part \in 0 .. Chunk - 1 :
          files' = [files EXCEPT ![write.path] = Higher(@, write.at + part)]
    /\ rec' = [rec EXCEPT !.open = FALSE, !.error = TRUE]
    /\ disturbed' = disturbed \cup {rec.path}
    /\ UNCHANGED <<write, metas, creating, job, row, asleep, starts, crashes>>

(***************************************************************************)
(* Recording jobs                                                          *)
(***************************************************************************)

\* The scheduler runs one due job at a time.
Due(j) == row[j] = "pending" /\ job = NoPath

JobBlocked(j) ==
    /\ Due(j) /\ rec.open
    /\ row' = [row EXCEPT ![j] = "blocked"]
    /\ UNCHANGED <<rec, write, files, metas, creating, job, asleep, starts, crashes,
                   disturbed>>

JobCreates(j) ==
    /\ Due(j) /\ ~rec.open
    /\ Created(JobPath(j))
    /\ job' = j
    /\ UNCHANGED <<rec, write, metas, creating, row, asleep, starts, crashes>>

JobFails(j) ==
    /\ Due(j) /\ ~rec.open
    /\ row' = [row EXCEPT ![j] = "failed"]
    /\ UNCHANGED <<rec, write, files, metas, creating, job, asleep, starts, crashes,
                   disturbed>>

\* The centre and the rate stay those of an earlier recording.
JobStarts ==
    /\ job # NoPath
    /\ Begun(JobPath(job), [rec EXCEPT !.open = TRUE, !.path = JobPath(job), !.started = TRUE,
                                       !.samples = 0, !.error = FALSE])
    /\ row' = [row EXCEPT ![job] = IF @ = "deleted" THEN @ ELSE "running"]
    /\ asleep' = asleep \cup {job}
    /\ job' = NoPath
    /\ UNCHANGED <<files, metas, creating, starts, crashes>>

\* Its time is up: it stops whatever is recorded, and reports what that says.
JobEnds(j) ==
    /\ j \in asleep
    /\ Stopped
    /\ row' = [row EXCEPT ![j] = IF @ = "deleted" THEN @
                                 ELSE IF rec.error THEN "failed" ELSE "completed"]
    /\ asleep' = asleep \ {j}
    /\ UNCHANGED <<write, files, creating, job, starts, crashes, disturbed>>

DeleteJob(j) ==
    /\ row[j] # "deleted" /\ starts < MaxStarts
    /\ row' = [row EXCEPT ![j] = "deleted"]
    /\ starts' = starts + 1
    /\ UNCHANGED <<rec, write, files, metas, creating, job, asleep, crashes, disturbed>>

(***************************************************************************)
(* The process dies and is started again                                   *)
(***************************************************************************)

Crash ==
    /\ crashes < MaxCrashes /\ crashes' = crashes + 1
    /\ disturbed' = disturbed \cup {f \in Files : InUse(f)}
    /\ rec' = NoRecording /\ write' = [path |-> NoPath, at |-> 0]
    /\ creating' = [u \in Users |-> NoPath] /\ job' = NoPath
    /\ asleep' = {}
    /\ UNCHANGED <<files, metas, row, starts>>

RecNext ==
    \/ \E u \in Users : Start(u) \/ \E f \in Paths : CreateFile(u, f)
    \/ Stop \/ WriteIq \/ WriteFails
    \/ \E j \in Jobs : JobBlocked(j) \/ JobCreates(j) \/ JobFails(j) \/ JobEnds(j) \/ DeleteJob(j)
    \/ JobStarts
    \/ Crash

(***************************************************************************)
(* Properties                                                              *)
(***************************************************************************)

\* A recording that was begun and ended without another start, a failing
\* write or a crash in between has a sidecar that counts the samples of its
\* file, whoever ended it and however often (state.rs:680), and nothing that
\* is recorded later changes either.
FilesDescribed ==
    \A f \in Files \ disturbed :
       files[f] >= 0 /\ ~InUse(f) => metas[f].samples = files[f]
=============================================================================
