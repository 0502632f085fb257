-------------------------- MODULE Services_proofs --------------------------
(* Proofs about the services around the receiver, for any number of users,    *)
(* jobs, decoders, installs and samples.  One machine runs in a behaviour, so *)
(* an invariant of each machine, kept by its own steps, is an invariant of    *)
(* Services.                                                                  *)
EXTENDS Services, Selection, FiniteSetTheorems, SequenceTheorems, WellFoundedInduction,
        TLAPS

----------------------------------------------------------------------------
(* Recordings *)

File == Rec!Files
Path == File \cup {"none"}

RecTypes ==
    /\ rec \in [open : BOOLEAN, path : Path, started : BOOLEAN, center : BOOLEAN,
                samples : Nat, error : BOOLEAN]
    /\ write \in [path : Path, at : Nat]
    /\ recordings \in [File -> Int]
    /\ metas \in [File -> [samples : Int, started : BOOLEAN, center : BOOLEAN]]
    /\ creating \in [Users -> Path]
    /\ job \in Jobs \cup {"none"}
    /\ asleep \subseteq Jobs

\* The scanner writes to the file the recording says, as far as it says.
WritesRecording ==
    rec.open => rec.path \in File /\ write.path = rec.path /\ write.at = rec.samples

OneCreator(f) ==
    /\ \A u, v \in Users : creating[u] = f /\ creating[v] = f => u = v
    /\ \A u \in Users : creating[u] = f => job # f

\* A file that nobody disturbed is in one hand: one start has created it and it
\* is empty, or it is as long as the recording says, or its sidecar says so.
Described(f) ==
    f \notin disturbed =>
        /\ Rec!InCreation(f) =>
              recordings[f] = 0 /\ OneCreator(f) /\ ~(rec.open /\ rec.path = f)
        /\ rec.path = f /\ ~Rec!InCreation(f) => recordings[f] = rec.samples
        /\ recordings[f] >= 0 /\ ~Rec!InUse(f) => metas[f].samples = recordings[f]

RecInv == RecTypes /\ WritesRecording /\ \A f \in File : Described(f)

LEMMA RecInitial == Rec!RecInit => RecInv
<1> SUFFICES ASSUME Rec!RecInit PROVE RecInv
  OBVIOUS
<1>1. /\ rec = [open |-> FALSE, path |-> "none", started |-> FALSE, center |-> FALSE,
                samples |-> 0, error |-> FALSE]
      /\ write = [path |-> "none", at |-> 0] /\ recordings = [f \in File |-> -1]
      /\ metas = [f \in File |-> [samples |-> -1, started |-> FALSE, center |-> FALSE]]
      /\ creating = [u \in Users |-> "none"] /\ job = "none" /\ asleep = {}
  BY DEF Rec!RecInit, Rec!NoRecording, Rec!NoPath, Rec!NoMeta, File
<1>2. RecTypes /\ WritesRecording
  BY <1>1 DEF RecTypes, WritesRecording, Path
<1>3. QED
  BY <1>1, <1>2, ServicesAssumption DEF RecInv, Described, Rec!InCreation, Rec!InUse, Rec!NoPath,
     File, Rec!Files, Rec!JobPath

LEMMA RecNames ==
    /\ "none" \notin File
    /\ \A f : Rec!InCreation(f) <=> (\E u \in Users : creating[u] = f) \/ (job # "none" /\ f = job)
    /\ \A f : Rec!InUse(f) <=> Rec!InCreation(f) \/ (rec.open /\ rec.path = f)
    /\ \A u \in Paths \cup Jobs : u \in File
  BY ServicesAssumption DEF File, Rec!Files, Rec!JobPath, Rec!InCreation, Rec!InUse, Rec!NoPath

\* File::create: the file is there and empty, and disturbed if it was in use.
LEMMA CreateFileKeeps ==
    ASSUME RecInv, NEW u \in Users, NEW f \in Paths, Rec!CreateFile(u, f)
    PROVE  RecInv'
<1>1. /\ creating[u] = "none" /\ creating' = [creating EXCEPT ![u] = f]
      /\ recordings' = [recordings EXCEPT ![f] = 0]
      /\ disturbed' = IF Rec!InUse(f) THEN disturbed \cup {f} ELSE disturbed \ {f}
      /\ UNCHANGED <<rec, write, metas, job, asleep>>
  BY DEF Rec!CreateFile, Rec!Created, Rec!NoPath
<1>2. f \in File /\ f # "none" /\ RecTypes
  BY RecNames DEF RecInv
<1>3. /\ creating' \in [Users -> Path] /\ creating'[u] = f
      /\ \A v \in Users \ {u} : creating'[v] = creating[v]
  BY <1>1, <1>2 DEF RecTypes, Path
<1>4. /\ recordings' \in [File -> Int] /\ recordings'[f] = 0
      /\ \A g \in File \ {f} : recordings'[g] = recordings[g]
  BY <1>1, <1>2 DEF RecTypes
<1>5. RecTypes' /\ WritesRecording'
  BY <1>1, <1>2, <1>3, <1>4 DEF RecTypes, WritesRecording, RecInv
<1>6. \A g \in File : Rec!InCreation(g)' <=> Rec!InCreation(g) \/ g = f
  BY <1>1, <1>2, <1>3, RecNames DEF Rec!InCreation, Rec!NoPath, Rec!JobPath
<1>7. \A g \in File \ {f} : Rec!InUse(g)' <=> Rec!InUse(g)
  BY <1>1, <1>6, RecNames DEF Rec!InUse
<1>8. ASSUME NEW g \in File PROVE Described(g)'
  <2>1. CASE g # f
    <3>1. /\ Rec!InCreation(g)' <=> Rec!InCreation(g)
          /\ g \notin disturbed' <=> g \notin disturbed
          /\ OneCreator(g) => OneCreator(g)'
      BY <1>1, <1>2, <1>3, <1>6, <2>1, RecNames DEF OneCreator
    <3>2. QED
      BY <1>1, <1>4, <1>7, <2>1, <3>1 DEF RecInv, Described
  <2>2. CASE g = f
    <3> SUFFICES ASSUME f \notin disturbed' PROVE Described(f)'
      BY <2>2 DEF Described
    <3>1. ~Rec!InUse(f)
      BY <1>1
    <3>2. OneCreator(f)' /\ Rec!InCreation(f)' /\ ~(rec.open /\ rec.path = f)
      BY <1>1, <1>2, <1>3, <1>6, <3>1, RecNames DEF OneCreator
    <3>3. Rec!InUse(f)'
      BY <3>2 DEF Rec!InUse
    <3>4. QED
      BY <1>1, <1>4, <3>2, <3>3 DEF Described
  <2>3. QED
    BY <2>1, <2>2
<1>9. QED
  BY <1>5, <1>8 DEF RecInv

LEMMA JobCreatesKeeps ==
    ASSUME RecInv, NEW j \in Jobs, Rec!JobCreates(j)
    PROVE  RecInv'
<1>1. /\ job = "none" /\ job' = j
      /\ recordings' = [recordings EXCEPT ![j] = 0]
      /\ disturbed' = IF Rec!InUse(j) THEN disturbed \cup {j} ELSE disturbed \ {j}
      /\ UNCHANGED <<rec, write, metas, creating, asleep>>
  BY DEF Rec!JobCreates, Rec!Created, Rec!NoPath, Rec!JobPath, Rec!Due
<1>2. j \in File /\ j # "none" /\ RecTypes
  BY RecNames DEF RecInv
<1>3. /\ recordings' \in [File -> Int] /\ recordings'[j] = 0
      /\ \A g \in File \ {j} : recordings'[g] = recordings[g]
  BY <1>1, <1>2 DEF RecTypes
<1>4. RecTypes' /\ WritesRecording'
  BY <1>1, <1>2, <1>3 DEF RecTypes, WritesRecording, RecInv
<1>5. \A g \in File : Rec!InCreation(g)' <=> Rec!InCreation(g) \/ g = j
  BY <1>1, <1>2, RecNames DEF Rec!InCreation, Rec!NoPath, Rec!JobPath
<1>6. \A g \in File \ {j} : Rec!InUse(g)' <=> Rec!InUse(g)
  BY <1>1, <1>5, RecNames DEF Rec!InUse
<1>7. ASSUME NEW g \in File PROVE Described(g)'
  <2>1. CASE g # j
    <3>1. /\ Rec!InCreation(g)' <=> Rec!InCreation(g)
          /\ g \notin disturbed' <=> g \notin disturbed
          /\ OneCreator(g) => OneCreator(g)'
      BY <1>1, <1>2, <1>5, <2>1, RecNames DEF OneCreator
    <3>2. QED
      BY <1>1, <1>3, <1>6, <2>1, <3>1 DEF RecInv, Described
  <2>2. CASE g = j
    <3> SUFFICES ASSUME j \notin disturbed' PROVE Described(j)'
      BY <2>2 DEF Described
    <3>1. ~Rec!InUse(j)
      BY <1>1
    <3>2. OneCreator(j)' /\ Rec!InCreation(j)' /\ ~(rec.open /\ rec.path = j)
      BY <1>1, <1>2, <1>5, <3>1, RecNames DEF OneCreator
    <3>3. Rec!InUse(j)'
      BY <3>2 DEF Rec!InUse
    <3>4. QED
      BY <1>1, <1>3, <3>2, <3>3 DEF Described
  <2>3. QED
    BY <2>1, <2>2
<1>8. QED
  BY <1>4, <1>7 DEF RecInv

\* A start replaces whatever is recorded; the file it begins was its own.
LEMMA BeginsKeeps ==
    ASSUME RecInv, NEW f \in File, Rec!InCreation(f),
           rec' \in [open : BOOLEAN, path : Path, started : BOOLEAN, center : BOOLEAN,
                     samples : Nat, error : BOOLEAN],
           rec'.open, rec'.path = f, rec'.samples = 0,
           write' = [path |-> f, at |-> 0],
           disturbed' = disturbed \cup IF rec.open THEN {rec.path} ELSE {},
           UNCHANGED <<recordings, metas>>,
           creating' \in [Users -> Path], job' \in Jobs \cup {"none"}, asleep' \subseteq Jobs,
           \A g \in File \ {f} : Rec!InCreation(g)' <=> Rec!InCreation(g),
           OneCreator(f) => ~Rec!InCreation(f)',
           \A g \in File : OneCreator(g) => OneCreator(g)'
    PROVE  RecInv'
<1>1. RecTypes' /\ WritesRecording'
  BY DEF RecInv, RecTypes, WritesRecording, Path
<1>2. ASSUME NEW g \in File PROVE Described(g)'
  <2> SUFFICES ASSUME g \notin disturbed'
               PROVE  /\ Rec!InCreation(g)' =>
                            recordings[g] = 0 /\ OneCreator(g)' /\ ~(rec'.open /\ rec'.path = g)
                      /\ rec'.path = g /\ ~Rec!InCreation(g)' => recordings[g] = rec'.samples
                      /\ recordings[g] >= 0 /\ ~Rec!InUse(g)' => metas[g].samples = recordings[g]
    BY DEF Described
  <2>1. g \notin disturbed /\ ~(rec.open /\ rec.path = g) /\ Described(g)
    BY DEF RecInv
  <2>2. CASE g = f
    <3>1. recordings[f] = 0 /\ OneCreator(f) /\ ~Rec!InCreation(f)'
      BY <2>1, <2>2 DEF Described
    <3>2. Rec!InUse(f)'
      BY RecNames DEF Rec!InUse
    <3>3. QED
      BY <2>2, <3>1, <3>2
  <2>3. CASE g # f
    <3>1. Rec!InCreation(g)' <=> Rec!InCreation(g)
      BY <2>3
    <3>2. Rec!InUse(g)' <=> Rec!InCreation(g)
      BY <2>3, <3>1 DEF Rec!InUse
    <3>3. Rec!InUse(g) <=> Rec!InCreation(g)
      BY <2>1 DEF Rec!InUse
    <3>4. QED
      BY <2>1, <2>3, <3>1, <3>2, <3>3 DEF Described
  <2>4. QED
    BY <2>2, <2>3
<1>3. QED
  BY <1>1, <1>2 DEF RecInv

LEMMA StartKeeps ==
    ASSUME RecInv, NEW u \in Users, Rec!Start(u)
    PROVE  RecInv'
<1>1. PICK f \in File : f = creating[u]
  BY DEF Rec!Start, Rec!NoPath, RecInv, RecTypes, Path
<1>2. /\ f # "none" /\ creating' = [creating EXCEPT ![u] = "none"]
      /\ rec' = [open |-> TRUE, path |-> f, started |-> TRUE, center |-> TRUE,
                 samples |-> 0, error |-> FALSE]
      /\ write' = [path |-> f, at |-> 0]
      /\ disturbed' = disturbed \cup IF rec.open THEN {rec.path} ELSE {}
      /\ UNCHANGED <<recordings, metas, job, asleep>>
  BY <1>1 DEF Rec!Start, Rec!Begun, Rec!NoPath
<1>3. RecTypes /\ f \in Path
  BY DEF RecInv, Path
<1>4. /\ creating' \in [Users -> Path] /\ creating'[u] = "none"
      /\ \A v \in Users \ {u} : creating'[v] = creating[v]
  BY <1>2, <1>3 DEF RecTypes, Path
<1>5. Rec!InCreation(f)
  BY <1>1, RecNames
<1>6. rec' \in [open : BOOLEAN, path : Path, started : BOOLEAN, center : BOOLEAN,
                samples : Nat, error : BOOLEAN]
  BY <1>2, <1>3
<1>7. \A g \in File : Rec!InCreation(g)' <=>
          (\E v \in Users : creating'[v] = g) \/ (job # "none" /\ g = job)
  BY <1>2 DEF Rec!InCreation, Rec!NoPath, Rec!JobPath
<1>8. \A g \in File : g # "none"
  BY RecNames
<1>9. \A g \in File \ {f} : Rec!InCreation(g)' <=> Rec!InCreation(g)
  BY <1>1, <1>4, <1>7, <1>8, RecNames
<1>10. \A g \in File : OneCreator(g) => OneCreator(g)'
  BY <1>2, <1>4, <1>8 DEF OneCreator
<1>11. OneCreator(f) => ~Rec!InCreation(f)'
  BY <1>1, <1>4, <1>7, <1>8 DEF OneCreator
<1>12. job' \in Jobs \cup {"none"} /\ asleep' \subseteq Jobs
  BY <1>2, <1>3 DEF RecTypes
<1>13. rec'.open /\ rec'.path = f /\ rec'.samples = 0
  BY <1>2
<1>14. QED
  BY <1>2, <1>4, <1>5, <1>6, <1>9, <1>10, <1>11, <1>12, <1>13, BeginsKeeps

LEMMA JobStartsKeeps ==
    ASSUME RecInv, Rec!JobStarts
    PROVE  RecInv'
<1>1. PICK f \in File : f = job
  BY RecNames DEF Rec!JobStarts, Rec!NoPath, RecInv, RecTypes
<1>2. /\ f # "none" /\ job' = "none" /\ asleep' = asleep \cup {f} /\ f \in Jobs
      /\ rec' = [rec EXCEPT !.open = TRUE, !.path = f, !.started = TRUE,
                            !.samples = 0, !.error = FALSE]
      /\ write' = [path |-> f, at |-> 0]
      /\ disturbed' = disturbed \cup IF rec.open THEN {rec.path} ELSE {}
      /\ UNCHANGED <<recordings, metas, creating>>
  BY <1>1, RecNames DEF Rec!JobStarts, Rec!Begun, Rec!NoPath, Rec!JobPath, RecInv, RecTypes
<1>3. RecTypes /\ f \in Path
  BY DEF RecInv, Path
<1>4. Rec!InCreation(f)
  BY <1>1, <1>2, RecNames
<1>5. rec' \in [open : BOOLEAN, path : Path, started : BOOLEAN, center : BOOLEAN,
                samples : Nat, error : BOOLEAN]
  BY <1>2, <1>3 DEF RecTypes
<1>6. rec'.open /\ rec'.path = f /\ rec'.samples = 0
  BY <1>2, <1>3 DEF RecTypes
<1>7. \A g \in File : Rec!InCreation(g)' <=> \E v \in Users : creating[v] = g
  BY <1>2 DEF Rec!InCreation, Rec!NoPath, Rec!JobPath
<1>8. \A g \in File \ {f} : Rec!InCreation(g)' <=> Rec!InCreation(g)
  BY <1>1, <1>7, RecNames
<1>9. \A g \in File : OneCreator(g) => OneCreator(g)'
  BY <1>2, RecNames DEF OneCreator
<1>10. OneCreator(f) => ~Rec!InCreation(f)'
  BY <1>1, <1>7 DEF OneCreator
<1>11. creating' \in [Users -> Path] /\ job' \in Jobs \cup {"none"} /\ asleep' \subseteq Jobs
  BY <1>2, <1>3 DEF RecTypes
<1>12. QED
  BY <1>2, <1>4, <1>5, <1>6, <1>8, <1>9, <1>10, <1>11, BeginsKeeps

\* A stop writes the sidecar of the last path, of a recording or once more.
LEMMA StopsKeeps ==
    ASSUME RecInv, Rec!Stopped, asleep' \subseteq Jobs,
           UNCHANGED <<write, recordings, creating, job, disturbed>>
    PROVE  RecInv'
<1> DEFINE meta == [samples |-> rec.samples, started |-> rec.started, center |-> rec.center]
<1>1. /\ rec' = [rec EXCEPT !.open = FALSE, !.started = FALSE, !.center = FALSE]
      /\ metas' = IF rec.path = "none" THEN metas ELSE [metas EXCEPT ![rec.path] = meta]
  BY DEF Rec!Stopped, Rec!NoPath
<1>2. RecTypes /\ (rec.path # "none" => rec.path \in File)
  BY DEF RecInv, RecTypes, Path
<1>3. /\ rec' \in [open : BOOLEAN, path : Path, started : BOOLEAN, center : BOOLEAN,
                    samples : Nat, error : BOOLEAN]
      /\ ~rec'.open /\ rec'.path = rec.path /\ rec'.samples = rec.samples
  BY <1>1, <1>2 DEF RecTypes
<1>4. meta \in [samples : Int, started : BOOLEAN, center : BOOLEAN] /\ meta.samples = rec.samples
  BY <1>2 DEF RecTypes
<1> HIDE DEF meta
<1>5. /\ metas' \in [File -> [samples : Int, started : BOOLEAN, center : BOOLEAN]]
      /\ rec.path # "none" => metas'[rec.path] = meta
      /\ \A g \in File : g # rec.path => metas'[g] = metas[g]
  BY <1>1, <1>2, <1>4 DEF RecTypes
<1>6. RecTypes' /\ WritesRecording'
  BY <1>2, <1>3, <1>5 DEF RecTypes, WritesRecording
<1>7. ASSUME NEW g \in File PROVE Described(g)'
  <2>1. Described(g) /\ g # "none"
    BY RecNames DEF RecInv
  <2>2. (Rec!InCreation(g)' <=> Rec!InCreation(g)) /\ (OneCreator(g)' <=> OneCreator(g))
    BY DEF Rec!InCreation, OneCreator
  <2>3. Rec!InUse(g)' <=> Rec!InCreation(g)
    BY <1>3, <2>2 DEF Rec!InUse
  <2>4. CASE g = rec.path
    BY <1>3, <1>4, <1>5, <2>1, <2>2, <2>3, <2>4 DEF Described
  <2>5. CASE g # rec.path
    <3>1. Rec!InUse(g) <=> Rec!InCreation(g)
      BY <2>5 DEF Rec!InUse
    <3>2. QED
      BY <1>3, <1>5, <2>1, <2>2, <2>3, <2>5, <3>1 DEF Described
  <2>6. QED
    BY <2>4, <2>5
<1>8. QED
  BY <1>6, <1>7 DEF RecInv

\* What the scanner writes makes file and recording longer alike.
LEMMA WriteIqKeeps ==
    ASSUME RecInv, Rec!WriteIq
    PROVE  RecInv'
<1> DEFINE f == write.path
           n == write.at + Chunk
<1>1. /\ rec.open
      /\ recordings' = [recordings EXCEPT ![f] = IF recordings[f] > n THEN recordings[f] ELSE n]
      /\ write' = [write EXCEPT !.at = n] /\ rec' = [rec EXCEPT !.samples = rec.samples + Chunk]
      /\ UNCHANGED <<metas, creating, job, asleep, disturbed>>
  BY DEF Rec!WriteIq, Rec!Higher
<1>2. /\ RecTypes /\ f \in File /\ rec.path = f /\ write.at = rec.samples
      /\ write.at \in Nat /\ Chunk \in Nat /\ n \in Nat /\ recordings[f] \in Int
  BY <1>1, ServicesAssumption DEF RecInv, RecTypes, WritesRecording
<1>3. /\ rec' \in [open : BOOLEAN, path : Path, started : BOOLEAN, center : BOOLEAN,
                    samples : Nat, error : BOOLEAN]
      /\ rec'.open = rec.open /\ rec'.path = f /\ rec'.samples = n
      /\ write' \in [path : Path, at : Nat] /\ write'.path = f /\ write'.at = n
  BY <1>1, <1>2 DEF RecTypes
<1>4. /\ recordings' \in [File -> Int]
      /\ recordings'[f] = IF recordings[f] > n THEN recordings[f] ELSE n
      /\ \A g \in File \ {f} : recordings'[g] = recordings[g]
  BY <1>1, <1>2 DEF RecTypes
<1>5. n >= rec.samples
  BY <1>2
<1>6. RecTypes' /\ WritesRecording'
  BY <1>1, <1>2, <1>3, <1>4 DEF RecTypes, WritesRecording
<1> HIDE DEF f, n
<1>7. ASSUME NEW g \in File PROVE Described(g)'
  <2>1. Described(g)
    BY DEF RecInv
  <2>2. /\ Rec!InCreation(g)' <=> Rec!InCreation(g)
        /\ OneCreator(g)' <=> OneCreator(g)
    BY <1>1 DEF Rec!InCreation, OneCreator
  <2>3. Rec!InUse(g)' <=> Rec!InUse(g)
    BY <1>2, <1>3, <2>2 DEF Rec!InUse
  <2>4. CASE g = f
    <3>1. Rec!InUse(g)
      BY <1>1, <1>2, <2>4 DEF Rec!InUse
    <3>2. g \notin disturbed => ~Rec!InCreation(g) /\ recordings[g] = rec.samples
      BY <1>1, <1>2, <2>1, <2>4 DEF Described
    <3>3. g \notin disturbed => recordings'[g] = n
      BY <1>2, <1>4, <1>5, <2>4, <3>2
    <3>4. QED
      BY <1>1, <1>3, <2>2, <2>3, <3>1, <3>2, <3>3 DEF Described
  <2>5. CASE g # f
    BY <1>1, <1>2, <1>3, <1>4, <2>1, <2>2, <2>3, <2>5 DEF Described
  <2>6. QED
    BY <2>4, <2>5
<1>8. QED
  BY <1>6, <1>7 DEF RecInv

LEMMA WriteFailsKeeps ==
    ASSUME RecInv, Rec!WriteFails
    PROVE  RecInv'
<1> DEFINE f == write.path
<1>1. /\ rec.open /\ rec' = [rec EXCEPT !.open = FALSE, !.error = TRUE]
      /\ disturbed' = disturbed \cup {rec.path}
      /\ UNCHANGED <<write, metas, creating, job, asleep>>
  BY DEF Rec!WriteFails
<1>2. PICK n \in Int : recordings' = [recordings EXCEPT ![f] = n]
  <2>1. PICK k \in 0 .. Chunk - 1 : recordings' =
          [recordings EXCEPT ![f] = IF recordings[f] > write.at + k THEN recordings[f]
                                    ELSE write.at + k]
    BY DEF Rec!WriteFails, Rec!Higher
  <2>2. f \in File /\ recordings[f] \in Int /\ write.at \in Nat /\ k \in Int
    BY <1>1, <2>1, ServicesAssumption DEF RecInv, RecTypes, WritesRecording
  <2>3. write.at + k \in Int /\ \A b \in BOOLEAN :
          (IF b THEN recordings[f] ELSE write.at + k) \in Int
    BY <2>2
  <2> HIDE DEF f
  <2>4. QED
    BY <2>1, <2>3, Zenon
<1>3. f \in File /\ rec.path = f /\ RecTypes
  BY <1>1 DEF RecInv, WritesRecording
<1>4. /\ rec' \in [open : BOOLEAN, path : Path, started : BOOLEAN, center : BOOLEAN,
                    samples : Nat, error : BOOLEAN]
      /\ ~rec'.open /\ rec'.path = f
  BY <1>1, <1>3 DEF RecTypes
<1>5. recordings' \in [File -> Int] /\ \A g \in File \ {f} : recordings'[g] = recordings[g]
  BY <1>2, <1>3 DEF RecTypes
<1>6. RecTypes' /\ WritesRecording'
  BY <1>1, <1>3, <1>4, <1>5 DEF RecTypes, WritesRecording
<1> HIDE DEF f
<1>7. ASSUME NEW g \in File PROVE Described(g)'
  <2>1. CASE g = f
    BY <1>1, <1>3, <2>1 DEF Described
  <2>2. CASE g # f
    <3>1. /\ Rec!InCreation(g)' <=> Rec!InCreation(g)
          /\ OneCreator(g)' <=> OneCreator(g)
      BY <1>1 DEF Rec!InCreation, OneCreator
    <3>2. Rec!InUse(g)' <=> Rec!InUse(g)
      BY <1>3, <1>4, <2>2, <3>1 DEF Rec!InUse
    <3>3. QED
      BY <1>1, <1>3, <1>4, <1>5, <2>2, <3>1, <3>2 DEF RecInv, Described
  <2>3. QED
    BY <2>1, <2>2
<1>8. QED
  BY <1>6, <1>7 DEF RecInv

LEMMA RecCrashKeeps ==
    ASSUME RecInv, Rec!Crash
    PROVE  RecInv'
<1>1. /\ rec' = [open |-> FALSE, path |-> "none", started |-> FALSE, center |-> FALSE,
                 samples |-> 0, error |-> FALSE]
      /\ write' = [path |-> "none", at |-> 0] /\ creating' = [u \in Users |-> "none"]
      /\ job' = "none" /\ asleep' = {} /\ UNCHANGED <<recordings, metas>>
      /\ disturbed' = disturbed \cup {f \in File : Rec!InUse(f)}
  BY DEF Rec!Crash, Rec!NoRecording, Rec!NoPath, File
<1>2. RecTypes' /\ WritesRecording'
  BY <1>1 DEF RecInv, RecTypes, WritesRecording, Path
<1>3. ASSUME NEW g \in File PROVE Described(g)'
  <2>1. g # "none" /\ Described(g)
    BY RecNames DEF RecInv
  <2>2. ~Rec!InCreation(g)' /\ ~Rec!InUse(g)'
    BY <1>1, <2>1 DEF Rec!InCreation, Rec!InUse, Rec!NoPath
  <2>3. QED
    BY <1>1, <2>1, <2>2 DEF Described
<1>4. QED
  BY <1>2, <1>3 DEF RecInv

LEMMA RecStepKeeps == RecInv /\ Rec!RecNext => RecInv'
<1> SUFFICES ASSUME RecInv, Rec!RecNext PROVE RecInv'
  OBVIOUS
<1>1. asleep \subseteq Jobs
  BY DEF RecInv, RecTypes
<1>2. CASE Rec!Stop
  BY <1>1, <1>2, StopsKeeps DEF Rec!Stop
<1>3. ASSUME NEW j \in Jobs, Rec!JobEnds(j) PROVE RecInv'
  BY <1>1, <1>3, StopsKeeps DEF Rec!JobEnds
<1>4. ASSUME NEW j \in Jobs, Rec!JobBlocked(j) \/ Rec!JobFails(j) \/ Rec!DeleteJob(j) PROVE RecInv'
  <2>1. UNCHANGED <<rec, write, recordings, metas, creating, job, asleep, disturbed>>
    BY <1>4 DEF Rec!JobBlocked, Rec!JobFails, Rec!DeleteJob
  <2>2. QED
    BY <2>1 DEF RecInv, RecTypes, WritesRecording, Described, OneCreator, Rec!InCreation, Rec!InUse
<1>5. QED
  BY <1>2, <1>3, <1>4, StartKeeps, CreateFileKeeps, WriteIqKeeps, WriteFailsKeeps, JobCreatesKeeps,
     JobStartsKeeps, RecCrashKeeps DEF Rec!RecNext

\* Whoever starts, stops, fails or restarts, and however often: a recording that
\* ended undisturbed has a sidecar that counts the samples of its file.
THEOREM SidecarsDescribe == Spec => []FilesDescribed
<1> DEFINE Inv == scene = "recordings" => RecInv
<1>1. Init => Inv
  BY RecInitial DEF Init
<1>2. Inv /\ [Next]_vars => Inv'
  <2> SUFFICES ASSUME Inv, [Next]_vars PROVE Inv'
    OBVIOUS
  <2>1. CASE RecStep
    BY <2>1, RecStepKeeps DEF RecStep
  <2>2. CASE BandsStep \/ WindowsStep \/ FeedStep \/ TrunkStep \/ InstallStep \/ SoundStep
    BY <2>2 DEF BandsStep, WindowsStep, FeedStep, TrunkStep, InstallStep, SoundStep
  <2>3. CASE UNCHANGED vars
    BY <2>3 DEF vars, recordingsVars, RecInv, RecTypes, WritesRecording, Described, OneCreator,
                Rec!InCreation, Rec!InUse
  <2>4. QED
    BY <2>1, <2>2, <2>3 DEF Next
<1>3. Inv => FilesDescribed
  BY DEF FilesDescribed, Rec!FilesDescribed, RecInv, Described, File
<1>4. QED
  BY <1>1, <1>2, <1>3, PTL DEF Spec
----------------------------------------------------------------------------
(* The installation of decoders *)

Place == Install!Places
AnyPath == Place \cup {Install!System(d) : d \in Decoders} \cup {<<>>, <<"typed">>}
Config == [setting : Nat, paths : [Decoders -> AnyPath]]

InstallTypes ==
    /\ cfg \in Config /\ disk \in Config
    /\ programs \in [Place -> [is : {"none", "part", "whole"}, runs : BOOLEAN]]
    /\ inst \in [Installs -> [at : {"idle", "download", "extract", "apply"},
                              place : Place \cup {<<>>}, path : AnyPath,
                              decoder : Decoders \cup {<<>>}, shared : BOOLEAN]]
    /\ \A i \in Installs :
          /\ inst[i].at # "idle" => inst[i].decoder \in Decoders
          /\ inst[i].at = "extract" => inst[i].place \in Place
    /\ put \in [Editors -> [at : {"idle", "check", "replace", "save"}, cfg : Config \cup {<<>>}]]
    /\ \A c \in Editors : put[c].at # "idle" => put[c].cfg \in Config
    /\ newest \in Nat /\ crashes \in Nat /\ unix \in BOOLEAN

\* A path below the data directory leads to a file: in the configuration, in
\* config.toml, in what a client sends back and in what an install will apply.
Leads(path) == path \in Place => programs[path].is # "none"
AllLead ==
    /\ \A d \in Decoders : Leads(cfg.paths[d]) /\ Leads(disk.paths[d])
    /\ \A c \in Editors : put[c].at # "idle" => \A d \in Decoders : Leads(put[c].cfg.paths[d])
    /\ \A i \in Installs : inst[i].at = "apply" => Leads(inst[i].path)

\* An executable that is not whole is marked, or its only writer is at work on it.
Writes(i, p) == inst[i].at = "extract" /\ inst[i].place = p
Marked ==
    /\ \A i \in Installs : inst[i].at = "extract" /\ inst[i].shared => inst[i].place \in tainted
    /\ \A i, j \in Installs : \A p \in Place :
          Writes(i, p) /\ Writes(j, p) /\ ~inst[i].shared => i = j
    /\ \A p \in Place : programs[p].is = "part" => p \in tainted \/ \E i \in Installs : Writes(i, p)

Synced == disk # cfg => raced \/ \E c \in Editors : put[c].at = "save"

InstallInv == InstallTypes /\ AllLead /\ Marked /\ Synced

LEMMA PathsApart ==
    /\ <<>> \notin Place /\ <<"typed">> \notin Place
    /\ \A d : Install!System(d) \notin Place
    /\ \A d \in Decoders : <<"own", d>> \in Place /\ Install!System(d) \in AnyPath
    /\ <<>> \in AnyPath /\ <<"typed">> \in AnyPath /\ Place \subseteq AnyPath
  BY DEF Place, Install!Places, Install!System, AnyPath

\* What discovery finds below the data directory is there.
LEMMA DiscoveredLeads ==
    ASSUME InstallTypes, NEW d \in Decoders
    PROVE  Install!Discovered(d) \in AnyPath /\ Leads(Install!Discovered(d))
<1>1. CASE programs[<<"own", d>>].is # "none" /\ programs[<<"own", d>>].runs
  <2>1. Install!Discovered(d) = <<"own", d>>
    BY <1>1 DEF Install!Discovered
  <2>2. QED
    BY <1>1, <2>1, PathsApart DEF Leads
<1>2. CASE ~(programs[<<"own", d>>].is # "none" /\ programs[<<"own", d>>].runs)
  <2>1. Install!Discovered(d) = Install!System(d) \/ Install!Discovered(d) = <<>>
    BY <1>2 DEF Install!Discovered, Install!Unset
  <2>2. QED
    BY <2>1, PathsApart DEF Leads
<1>3. QED
  BY <1>1, <1>2

\* Discovery and bootstrap change paths only, to what was found.
LEMMA FoundPaths ==
    ASSUME InstallTypes, NEW config \in Config, \A d \in Decoders : Leads(config.paths[d])
    PROVE  /\ Install!Configured(config) \in Config
           /\ Install!Configured(config).setting = config.setting
           /\ \A d \in Decoders : Leads(Install!Configured(config).paths[d])
           /\ Install!Bootstrapped(config) \in Config
           /\ Install!Bootstrapped(config).setting = config.setting
           /\ \A d \in Decoders : Leads(Install!Bootstrapped(config).paths[d])
<1> DEFINE found == [d \in Decoders |-> IF Install!Discovered(d) = <<>> THEN config.paths[d]
                                        ELSE Install!Discovered(d)]
           repaired == [d \in Decoders |->
                          IF Install!Discovered(d) = <<>> \/ Install!IsFile(config.paths[d])
                          THEN config.paths[d] ELSE Install!Discovered(d)]
<1>1. /\ Install!Configured(config) = [config EXCEPT !.paths = found]
      /\ Install!Bootstrapped(config) = [config EXCEPT !.paths = repaired]
  BY DEF Install!Configured, Install!Bootstrapped, Install!Unset
<1>2. \A d \in Decoders : config.paths[d] \in AnyPath
  BY DEF Config
<1>3. /\ found \in [Decoders -> AnyPath] /\ \A d \in Decoders : Leads(found[d])
      /\ repaired \in [Decoders -> AnyPath] /\ \A d \in Decoders : Leads(repaired[d])
  BY <1>2, DiscoveredLeads
<1> HIDE DEF found, repaired
<1>4. QED
  BY <1>1, <1>3 DEF Config

LEMMA AppliedPath ==
    ASSUME NEW config \in Config, \A d \in Decoders : Leads(config.paths[d]),
           NEW d \in Decoders, NEW path \in AnyPath, Leads(path)
    PROVE  /\ Install!Applied(config, d, path) \in Config
           /\ Install!Applied(config, d, path).setting = config.setting
           /\ \A e \in Decoders : Leads(Install!Applied(config, d, path).paths[e])
<1> DEFINE new == Install!Applied(config, d, path)
<1>1. new = [config EXCEPT !.paths = [config.paths EXCEPT ![d] = path]]
  BY DEF Install!Applied, Config
<1>2. new \in Config /\ new.setting = config.setting /\ new.paths = [config.paths EXCEPT ![d] = path]
  BY <1>1 DEF Config
<1>3. \A e \in Decoders : new.paths[e] = path \/ new.paths[e] = config.paths[e]
  BY <1>2 DEF Config
<1>4. QED
  BY <1>2, <1>3

LEMMA InstallInitial == Install!DecInit => InstallInv
<1> SUFFICES ASSUME Install!DecInit PROVE InstallInv
  OBVIOUS
<1>1. /\ unix \in BOOLEAN /\ cfg = [setting |-> 0, paths |-> [d \in Decoders |-> <<>>]] /\ disk = cfg
      /\ programs = [p \in Place |-> [is |-> "none", runs |-> FALSE]]
      /\ inst = [i \in Installs |-> [at |-> "idle", place |-> <<>>, path |-> <<>>,
                                     decoder |-> <<>>, shared |-> FALSE]]
      /\ put = [c \in Editors |-> [at |-> "idle", cfg |-> <<>>]]
      /\ newest = 0 /\ crashes = 0
  BY DEF Install!DecInit, Install!Unset, Install!NoInstall, Install!NoPut, Place
<1>2. cfg \in Config /\ disk \in Config
  BY <1>1, PathsApart DEF Config
<1>3. InstallTypes
  BY <1>1, <1>2, PathsApart DEF InstallTypes
<1>4. AllLead
  BY <1>1, PathsApart DEF AllLead, Leads
<1>5. Marked /\ Synced
  BY <1>1 DEF Marked, Writes, Synced
<1>6. QED
  BY <1>3, <1>4, <1>5 DEF InstallInv

----------------------------------------------------------------------------
(* Steps of the operator, which leave the programs and the installs alone *)

LEMMA ProgramsUntouched ==
    ASSUME Marked, UNCHANGED <<programs, inst, tainted>>
    PROVE  Marked'
  BY DEF Marked, Writes

LEMMA ConfigureKeeps ==
    ASSUME InstallInv, Install!Configure
    PROVE  InstallInv' /\ cfg'.setting = cfg.setting
<1>1. /\ cfg' = Install!Configured(cfg) /\ disk' = cfg'
      /\ UNCHANGED <<unix, programs, inst, put, crashes, newest, tainted>>
  BY DEF Install!Configure, Install!Stored
<1>2. cfg' \in Config /\ cfg'.setting = cfg.setting /\ \A d \in Decoders : Leads(cfg'.paths[d])
  BY <1>1, FoundPaths DEF InstallInv, InstallTypes, AllLead
<1>3. InstallTypes' /\ AllLead' /\ Synced'
  BY <1>1, <1>2 DEF InstallInv, InstallTypes, AllLead, Leads, Synced
<1>4. QED
  BY <1>1, <1>2, <1>3, ProgramsUntouched DEF InstallInv

LEMMA SendKeeps ==
    ASSUME InstallInv, NEW c \in Editors, Install!SendSettings(c)
    PROVE  InstallInv'
<1>1. /\ put[c].at = "idle" /\ newest' = newest + 1
      /\ UNCHANGED <<unix, cfg, disk, programs, inst, crashes, tainted, raced>>
  BY DEF Install!SendSettings
<1>2. PICK d \in Decoders : \E path \in {cfg.paths[d], <<"typed">>} :
        put' = [put EXCEPT ![c] = [at |-> "check",
                   cfg |-> Install!Applied([cfg EXCEPT !.setting = newest + 1], d, path)]]
  BY DEF Install!SendSettings, Install!Typed
<1> PICK path \in {cfg.paths[d], <<"typed">>} :
        put' = [put EXCEPT ![c] = [at |-> "check",
                   cfg |-> Install!Applied([cfg EXCEPT !.setting = newest + 1], d, path)]]
  BY <1>2
<1> DEFINE shown == [cfg EXCEPT !.setting = newest + 1]
           sent == Install!Applied(shown, d, path)
<1>3. cfg \in Config /\ newest \in Nat /\ \A e \in Decoders : Leads(cfg.paths[e])
  BY DEF InstallInv, InstallTypes, AllLead
<1>4. shown \in Config /\ shown.paths = cfg.paths
  BY <1>3 DEF Config
<1>5. path \in AnyPath /\ Leads(path)
  BY <1>3, PathsApart DEF Config, Leads
<1> HIDE DEF shown
<1>6. sent \in Config /\ \A e \in Decoders : Leads(sent.paths[e])
  BY <1>3, <1>4, <1>5, AppliedPath
<1>7. put' = [put EXCEPT ![c] = [at |-> "check", cfg |-> sent]]
  BY DEF shown
<1> HIDE DEF sent
<1>8. /\ put'[c] = [at |-> "check", cfg |-> sent] /\ \A e \in Editors \ {c} : put'[e] = put[e]
      /\ put' \in [Editors -> [at : {"idle", "check", "replace", "save"}, cfg : Config \cup {<<>>}]]
  BY <1>6, <1>7 DEF InstallInv, InstallTypes
<1>9. InstallTypes'
  BY <1>1, <1>3, <1>6, <1>8 DEF InstallInv, InstallTypes
<1>10. AllLead'
  BY <1>1, <1>6, <1>8 DEF InstallInv, AllLead, Leads
<1>11. Synced'
  BY <1>1, <1>8 DEF InstallInv, Synced
<1>12. QED
  BY <1>1, <1>9, <1>10, <1>11, ProgramsUntouched DEF InstallInv

LEMMA CheckKeeps ==
    ASSUME InstallInv, NEW c \in Editors, Install!CheckSettings(c)
    PROVE  InstallInv'
<1>1. /\ put[c].at = "check"
      /\ UNCHANGED <<unix, cfg, disk, programs, inst, crashes, newest, tainted, raced>>
  BY DEF Install!CheckSettings
<1>2. put[c] \in [at : {"idle", "check", "replace", "save"}, cfg : Config \cup {<<>>}]
        /\ put[c].cfg \in Config
  BY <1>1 DEF InstallInv, InstallTypes
<1>3. PICK r \in [at : {"idle", "replace"}, cfg : Config \cup {<<>>}] :
        /\ put' = [put EXCEPT ![c] = r] /\ (r.at = "replace" => r.cfg = put[c].cfg)
  <2>1. [at |-> "idle", cfg |-> <<>>] \in [at : {"idle", "replace"}, cfg : Config \cup {<<>>}]
    OBVIOUS
  <2>2. /\ [put[c] EXCEPT !.at = "replace"] \in [at : {"idle", "replace"}, cfg : Config \cup {<<>>}]
        /\ [put[c] EXCEPT !.at = "replace"].cfg = put[c].cfg
    BY <1>2
  <2>3. put' = [put EXCEPT ![c] = [put[c] EXCEPT !.at = "replace"]]
          \/ put' = [put EXCEPT ![c] = [at |-> "idle", cfg |-> <<>>]]
    BY DEF Install!CheckSettings, Install!NoPut, Install!Unset
  <2>4. QED
    BY <2>1, <2>2, <2>3
<1>4. /\ put'[c] = r /\ \A e \in Editors \ {c} : put'[e] = put[e]
      /\ put' \in [Editors -> [at : {"idle", "check", "replace", "save"}, cfg : Config \cup {<<>>}]]
  BY <1>3 DEF InstallInv, InstallTypes
<1>5. InstallTypes' /\ AllLead'
  <2>1. InstallTypes'
    <3>1. /\ cfg' \in Config /\ disk' \in Config
          /\ newest' \in Nat /\ crashes' \in Nat /\ unix' \in BOOLEAN
      BY <1>1 DEF InstallInv, InstallTypes
    <3>2. \A e \in Editors : put'[e].at # "idle" => put'[e].cfg \in Config
      <4>1. r.at # "idle" => r.cfg \in Config
        BY <1>2, <1>3
      <4>2. \A e \in Editors : put[e].at # "idle" => put[e].cfg \in Config
        BY DEF InstallInv, InstallTypes
      <4>3. QED
        BY <1>4, <4>1, <4>2
    <3>3. programs' = programs /\ inst' = inst
      BY <1>1
    <3>4. QED
      BY <1>4, <3>1, <3>2, <3>3 DEF InstallInv, InstallTypes
  <2>2. AllLead'
    <3>1. \A d \in Decoders : Leads(cfg'.paths[d]) /\ Leads(disk'.paths[d])
      BY <1>1 DEF InstallInv, AllLead
    <3>2. \A e \in Editors : put'[e].at # "idle" => \A d \in Decoders : Leads(put'[e].cfg.paths[d])
      BY <1>1, <1>3, <1>4 DEF InstallInv, AllLead
    <3>3. \A i \in Installs : inst'[i].at = "apply" => Leads(inst'[i].path)
      BY <1>1 DEF InstallInv, AllLead
    <3>4. programs' = programs
      BY <1>1
    <3>5. QED
      BY <3>1, <3>2, <3>3, <3>4 DEF AllLead, Leads
  <2>3. QED
    BY <2>1, <2>2
<1>6. Synced'
  BY <1>1, <1>4 DEF InstallInv, Synced
<1>7. QED
  BY <1>1, <1>5, <1>6, ProgramsUntouched DEF InstallInv

LEMMA ReplaceKeeps ==
    ASSUME InstallInv, NEW c \in Editors, Install!ReplaceSettings(c)
    PROVE  InstallInv'
<1>1. /\ put[c].at = "replace" /\ cfg' = put[c].cfg /\ put' = [put EXCEPT ![c].at = "save"]
      /\ UNCHANGED <<unix, disk, programs, inst, crashes, newest, tainted, raced>>
  BY DEF Install!ReplaceSettings
<1>2. /\ cfg' \in Config /\ put'[c].at = "save" /\ put'[c].cfg = put[c].cfg
      /\ \A e \in Editors \ {c} : put'[e] = put[e]
      /\ put' \in [Editors -> [at : {"idle", "check", "replace", "save"}, cfg : Config \cup {<<>>}]]
  BY <1>1 DEF InstallInv, InstallTypes
<1>3. InstallTypes' /\ AllLead'
  <2>1. InstallTypes'
    <3>1. /\ cfg' \in Config /\ disk' \in Config
          /\ newest' \in Nat /\ crashes' \in Nat /\ unix' \in BOOLEAN
      BY <1>1, <1>2 DEF InstallInv, InstallTypes
    <3>2. \A e \in Editors : put'[e].at # "idle" => put'[e].cfg \in Config
      BY <1>1, <1>2 DEF InstallInv, InstallTypes
    <3>3. programs' = programs /\ inst' = inst
      BY <1>1
    <3>4. QED
      BY <1>2, <3>1, <3>2, <3>3 DEF InstallInv, InstallTypes
  <2>2. AllLead'
    <3>1. \A d \in Decoders : Leads(cfg'.paths[d]) /\ Leads(disk'.paths[d])
      BY <1>1 DEF InstallInv, AllLead
    <3>2. \A e \in Editors : put'[e].at # "idle" => \A d \in Decoders : Leads(put'[e].cfg.paths[d])
      BY <1>1, <1>2 DEF InstallInv, AllLead
    <3>3. \A i \in Installs : inst'[i].at = "apply" => Leads(inst'[i].path)
      BY <1>1 DEF InstallInv, AllLead
    <3>4. programs' = programs
      BY <1>1
    <3>5. QED
      BY <3>1, <3>2, <3>3, <3>4 DEF AllLead, Leads
  <2>3. QED
    BY <2>1, <2>2
<1>4. Synced'
  BY <1>2 DEF Synced
<1>5. QED
  BY <1>1, <1>3, <1>4, ProgramsUntouched DEF InstallInv

LEMMA SaveKeeps ==
    ASSUME InstallInv, NEW c \in Editors, Install!SaveSettings(c)
    PROVE  InstallInv'
<1>1. /\ put[c].at = "save" /\ disk' = put[c].cfg /\ raced' = (put[c].cfg # cfg)
      /\ put' = [put EXCEPT ![c] = [at |-> "idle", cfg |-> <<>>]]
      /\ UNCHANGED <<unix, cfg, programs, inst, crashes, newest, tainted>>
  BY DEF Install!SaveSettings, Install!NoPut, Install!Unset
<1>2. /\ disk' \in Config /\ put'[c] = [at |-> "idle", cfg |-> <<>>]
      /\ \A e \in Editors \ {c} : put'[e] = put[e]
      /\ put' \in [Editors -> [at : {"idle", "check", "replace", "save"}, cfg : Config \cup {<<>>}]]
  BY <1>1 DEF InstallInv, InstallTypes
<1>3. InstallTypes' /\ AllLead'
  <2>1. InstallTypes'
    <3>1. /\ cfg' \in Config /\ disk' \in Config
          /\ newest' \in Nat /\ crashes' \in Nat /\ unix' \in BOOLEAN
      BY <1>1, <1>2 DEF InstallInv, InstallTypes
    <3>2. \A e \in Editors : put'[e].at # "idle" => put'[e].cfg \in Config
      BY <1>1, <1>2 DEF InstallInv, InstallTypes
    <3>3. programs' = programs /\ inst' = inst
      BY <1>1
    <3>4. QED
      BY <1>2, <3>1, <3>2, <3>3 DEF InstallInv, InstallTypes
  <2>2. AllLead'
    <3>1. \A d \in Decoders : Leads(cfg'.paths[d]) /\ Leads(disk'.paths[d])
      BY <1>1 DEF InstallInv, AllLead
    <3>2. \A e \in Editors : put'[e].at # "idle" => \A d \in Decoders : Leads(put'[e].cfg.paths[d])
      BY <1>1, <1>2 DEF InstallInv, AllLead
    <3>3. \A i \in Installs : inst'[i].at = "apply" => Leads(inst'[i].path)
      BY <1>1 DEF InstallInv, AllLead
    <3>4. programs' = programs
      BY <1>1
    <3>5. QED
      BY <3>1, <3>2, <3>3, <3>4 DEF AllLead, Leads
  <2>3. QED
    BY <2>1, <2>2
<1>4. Synced'
  BY <1>1 DEF Synced
<1>5. QED
  BY <1>1, <1>3, <1>4, ProgramsUntouched DEF InstallInv

----------------------------------------------------------------------------
(* Steps of an install, chmod and a restart *)

InstRecord == [at : {"idle", "download", "extract", "apply"}, place : Place \cup {<<>>},
               path : AnyPath, decoder : Decoders \cup {<<>>}, shared : BOOLEAN]

LEMMA NoInstallOK ==
    Install!NoInstall \in InstRecord /\ Install!NoInstall.at = "idle"
  BY PathsApart DEF Install!NoInstall, Install!Unset, InstRecord

\* A step of one install that leaves the programs and every write alone.
LEMMA InstallMoves ==
    ASSUME InstallInv, NEW i \in Installs, NEW r \in InstRecord,
           inst' = [inst EXCEPT ![i] = r], inst[i].at # "extract", r.at # "extract",
           r.at # "idle" => r.decoder \in Decoders, r.at = "apply" => Leads(r.path),
           UNCHANGED <<programs, tainted>>
    PROVE  /\ inst' \in [Installs -> InstRecord]
           /\ \A j \in Installs :
                 /\ inst'[j].at # "idle" => inst'[j].decoder \in Decoders
                 /\ inst'[j].at = "extract" => inst'[j].place \in Place
                 /\ inst'[j].at = "apply" => Leads(inst'[j].path)
           /\ Marked'
<1>1. /\ inst' \in [Installs -> InstRecord] /\ inst'[i] = r
      /\ \A j \in Installs \ {i} : inst'[j] = inst[j]
  BY DEF InstallInv, InstallTypes, InstRecord
<1>2. \A j \in Installs :
        /\ inst'[j].at # "idle" => inst'[j].decoder \in Decoders
        /\ inst'[j].at = "extract" => inst'[j].place \in Place
        /\ inst'[j].at = "apply" => Leads(inst'[j].path)
  BY <1>1 DEF InstallInv, InstallTypes, AllLead
<1>3. \A j \in Installs : \A p \in Place : Writes(j, p)' <=> Writes(j, p)
  BY <1>1 DEF Writes
<1>4. \A j \in Installs : inst'[j].at = "extract" => inst'[j] = inst[j]
  BY <1>1
<1>5. Marked'
  <2>1. \A j \in Installs : inst'[j].at = "extract" /\ inst'[j].shared => inst'[j].place \in tainted'
    BY <1>4 DEF InstallInv, Marked
  <2>2. \A j, k \in Installs : \A p \in Place :
          Writes(j, p)' /\ Writes(k, p)' /\ ~inst'[j].shared => j = k
    BY <1>3, <1>4 DEF InstallInv, Marked, Writes
  <2>3. \A p \in Place : programs'[p].is = "part" => p \in tainted' \/ \E j \in Installs : Writes(j, p)'
    BY <1>3 DEF InstallInv, Marked
  <2>4. QED
    BY <2>1, <2>2, <2>3 DEF Marked
<1>6. QED
  BY <1>1, <1>2, <1>5

LEMMA BeginKeeps ==
    ASSUME InstallInv, NEW i \in Installs, NEW d \in Decoders, Install!Begin(i, d)
    PROVE  InstallInv'
<1>1. /\ inst[i].at = "idle"
      /\ UNCHANGED <<unix, cfg, disk, programs, put, crashes, newest, tainted, raced>>
  BY DEF Install!Begin
<1> DEFINE down == [Install!NoInstall EXCEPT !.at = "download", !.decoder = d]
           found == [Install!NoInstall EXCEPT !.at = "apply", !.decoder = d,
                                              !.path = Install!Discovered(d)]
<1>2. Install!Discovered(d) \in AnyPath /\ Leads(Install!Discovered(d))
  BY DiscoveredLeads DEF InstallInv
<1>3. /\ down \in InstRecord /\ down.at = "download" /\ down.decoder = d
      /\ found \in InstRecord /\ found.at = "apply" /\ found.decoder = d
      /\ found.path = Install!Discovered(d)
  BY <1>2, NoInstallOK DEF Install!NoInstall, InstRecord
<1>4. \/ inst' = [inst EXCEPT ![i] = down]
      \/ inst' = [inst EXCEPT ![i] = Install!NoInstall]
      \/ inst' = [inst EXCEPT ![i] = found]
  BY DEF Install!Begin
<1> HIDE DEF down, found
<1>5. PICK r \in InstRecord :
        /\ inst' = [inst EXCEPT ![i] = r] /\ r.at # "extract"
        /\ r.at # "idle" => r.decoder \in Decoders
        /\ r.at = "apply" => Leads(r.path)
  BY <1>2, <1>3, <1>4, NoInstallOK
<1>6. /\ inst' \in [Installs -> InstRecord] /\ Marked'
      /\ \A j \in Installs :
            /\ inst'[j].at # "idle" => inst'[j].decoder \in Decoders
            /\ inst'[j].at = "extract" => inst'[j].place \in Place
            /\ inst'[j].at = "apply" => Leads(inst'[j].path)
  BY <1>1, <1>5, InstallMoves
<1>7. InstallTypes'
  BY <1>1, <1>6 DEF InstallInv, InstallTypes, InstRecord
<1>8. AllLead' /\ Synced'
  BY <1>1, <1>6 DEF InstallInv, AllLead, Leads, Synced
<1>9. QED
  BY <1>6, <1>7, <1>8 DEF InstallInv

LEMMA ApplyKeeps ==
    ASSUME InstallInv, NEW i \in Installs, Install!Apply(i)
    PROVE  InstallInv' /\ cfg'.setting = cfg.setting
<1>1. /\ inst[i].at = "apply" /\ cfg' = Install!Applied(cfg, inst[i].decoder, inst[i].path)
      /\ disk' = cfg' /\ inst' = [inst EXCEPT ![i] = Install!NoInstall]
      /\ UNCHANGED <<unix, programs, put, crashes, newest, tainted>>
  BY DEF Install!Apply, Install!Stored
<1>2. inst[i].decoder \in Decoders /\ inst[i].path \in AnyPath /\ Leads(inst[i].path)
  BY <1>1 DEF InstallInv, InstallTypes, AllLead
<1>3. cfg' \in Config /\ cfg'.setting = cfg.setting /\ \A d \in Decoders : Leads(cfg'.paths[d])
  BY <1>1, <1>2, AppliedPath DEF InstallInv, InstallTypes, AllLead
<1>4. /\ inst' \in [Installs -> InstRecord] /\ Marked'
      /\ \A j \in Installs :
            /\ inst'[j].at # "idle" => inst'[j].decoder \in Decoders
            /\ inst'[j].at = "extract" => inst'[j].place \in Place
            /\ inst'[j].at = "apply" => Leads(inst'[j].path)
  BY <1>1, NoInstallOK, InstallMoves
<1>5. InstallTypes'
  BY <1>1, <1>3, <1>4 DEF InstallInv, InstallTypes, InstRecord
<1>6. AllLead'
  BY <1>1, <1>3, <1>4 DEF InstallInv, AllLead, Leads
<1>7. Synced'
  BY <1>1 DEF Synced
<1>8. QED
  BY <1>3, <1>4, <1>5, <1>6, <1>7 DEF InstallInv

\* A second writer marks the file and every writer it now shares it with.
LEMMA ExtractKeeps ==
    ASSUME InstallInv, NEW i \in Installs, NEW p \in Place, Install!Extract(i, p)
    PROVE  InstallInv'
<1> DEFINE W == Install!Writing(p)
<1>1. /\ inst[i].at = "download"
      /\ UNCHANGED <<unix, cfg, disk, put, crashes, newest, raced>>
      /\ tainted' = IF W = {} THEN tainted ELSE tainted \cup {p}
  BY Zenon DEF Install!Extract
<1>2. PICK b \in BOOLEAN : programs' = [programs EXCEPT ![p] = [is |-> "part", runs |-> b]]
  <2>1. programs[p].runs \in BOOLEAN /\ (~unix) \in BOOLEAN
    BY DEF InstallInv, InstallTypes
  <2>2. programs' = [programs EXCEPT ![p] = [is |-> "part",
                        runs |-> IF programs[p].is = "none" THEN ~unix ELSE programs[p].runs]]
    BY Zenon DEF Install!Extract
  <2>3. CASE programs[p].is = "none"
    BY <2>1, <2>2, <2>3
  <2>4. CASE programs[p].is # "none"
    BY <2>1, <2>2, <2>4
  <2>5. QED
    BY <2>3, <2>4
<1>3. inst' = [j \in Installs |->
                 IF j = i THEN [inst[i] EXCEPT !.at = "extract", !.place = p, !.shared = (W # {})]
                 ELSE IF j \in W THEN [inst[j] EXCEPT !.shared = TRUE]
                 ELSE inst[j]]
  BY Zenon DEF Install!Extract
<1>4. W = {j \in Installs : Writes(j, p)}
  BY DEF Install!Writing, Writes
<1> HIDE DEF W
<1>5. inst \in [Installs -> InstRecord]
  BY DEF InstallInv, InstallTypes, InstRecord
<1>6. /\ inst' \in [Installs -> InstRecord]
      /\ inst'[i].at = "extract" /\ inst'[i].place = p /\ (inst'[i].shared <=> W # {})
      /\ inst'[i].decoder = inst[i].decoder
  <2>1. (W # {}) \in BOOLEAN
    OBVIOUS
  <2>2. [inst[i] EXCEPT !.at = "extract", !.place = p, !.shared = (W # {})] \in InstRecord
    BY <1>5, <2>1 DEF InstRecord
  <2>3. \A j \in Installs : [inst[j] EXCEPT !.shared = TRUE] \in InstRecord
    BY <1>5 DEF InstRecord
  <2>4. inst' \in [Installs -> InstRecord]
    BY <1>3, <1>5, <2>2, <2>3, Zenon
  <2>5. inst'[i] = [inst[i] EXCEPT !.at = "extract", !.place = p, !.shared = (W # {})]
    BY <1>3, Zenon
  <2>6. /\ inst'[i].at = "extract" /\ inst'[i].place = p
        /\ inst'[i].decoder = inst[i].decoder
    BY <1>5, <2>5 DEF InstRecord
  <2>7. inst'[i].shared = (W # {})
    BY <1>5, <2>5 DEF InstRecord
  <2>8. QED
    BY <2>4, <2>6, <2>7
<1>7. \A j \in Installs \ {i} :
        /\ inst'[j].at = inst[j].at /\ inst'[j].place = inst[j].place
        /\ inst'[j].path = inst[j].path /\ inst'[j].decoder = inst[j].decoder
        /\ inst'[j].shared <=> (inst[j].shared \/ j \in W)
  <2>1. ASSUME NEW j \in Installs \ {i}, j \in W
        PROVE  /\ inst'[j] = [inst[j] EXCEPT !.shared = TRUE] /\ inst[j] \in InstRecord
    BY <1>3, <1>5, <2>1, Zenon
  <2>2. ASSUME NEW j \in Installs \ {i}, j \notin W
        PROVE  inst'[j] = inst[j]
    BY <1>3, <2>2, Zenon
  <2>3. \A old \in InstRecord :
          LET shared == [old EXCEPT !.shared = TRUE]
          IN  /\ shared.at = old.at /\ shared.place = old.place /\ shared.path = old.path
              /\ shared.decoder = old.decoder /\ shared.shared
    BY DEF InstRecord
  <2>4. ASSUME NEW j \in Installs \ {i}, j \in W
        PROVE  /\ inst'[j].at = inst[j].at /\ inst'[j].place = inst[j].place
               /\ inst'[j].path = inst[j].path /\ inst'[j].decoder = inst[j].decoder
               /\ inst'[j].shared
    <3>1. inst'[j] = [inst[j] EXCEPT !.shared = TRUE] /\ inst[j] \in InstRecord
      BY <2>1, <2>4
    <3>2. QED
      BY <2>3, <3>1
  <2>5. QED
    BY <2>2, <2>4
<1>8. /\ programs' \in [Place -> [is : {"none", "part", "whole"}, runs : BOOLEAN]]
      /\ programs'[p].is = "part" /\ \A q \in Place \ {p} : programs'[q] = programs[q]
  BY <1>2 DEF InstallInv, InstallTypes
<1>9. InstallTypes'
  <2>1. \A j \in Installs :
          /\ inst'[j].at # "idle" => inst'[j].decoder \in Decoders
          /\ inst'[j].at = "extract" => inst'[j].place \in Place
    BY <1>1, <1>6, <1>7 DEF InstallInv, InstallTypes
  <2>2. QED
    BY <1>1, <1>6, <1>8, <2>1 DEF InstallInv, InstallTypes, InstRecord
<1>10. \A path : Leads(path) => Leads(path)'
  BY <1>8 DEF Leads
<1>11. AllLead'
  <2>1. \A j \in Installs : inst'[j].at = "apply" => Leads(inst'[j].path)
    BY <1>6, <1>7 DEF InstallInv, AllLead
  <2>2. QED
    BY <1>1, <1>8, <2>1 DEF InstallInv, AllLead, Leads
<1>12. /\ \A j \in Installs : \A q \in Place \ {p} : Writes(j, q)' => j # i /\ Writes(j, q)
       /\ \A j \in Installs \ {i} : Writes(j, p)' => j \in W
       /\ \A j \in Installs : \A q \in Place : Writes(j, q) => Writes(j, q)'
  BY <1>1, <1>4, <1>6, <1>7 DEF Writes
<1>13. Marked'
  <2>1. ASSUME NEW j \in Installs, inst'[j].at = "extract", inst'[j].shared
        PROVE  inst'[j].place \in tainted'
    <3>1. CASE j = i
      BY <1>1, <1>6, <2>1, <3>1
    <3>2. CASE j # i /\ j \in W
      BY <1>1, <1>4, <1>7, <2>1, <3>2 DEF Writes
    <3>3. CASE j # i /\ j \notin W
      BY <1>1, <1>7, <2>1, <3>3 DEF InstallInv, Marked
    <3>4. QED
      BY <3>1, <3>2, <3>3
  <2>2. ASSUME NEW j \in Installs, NEW k \in Installs, NEW q \in Place,
               Writes(j, q)', Writes(k, q)', ~inst'[j].shared
        PROVE  j = k
    <3>1. CASE q # p
      BY <1>7, <1>12, <2>2, <3>1 DEF InstallInv, Marked
    <3>2. CASE q = p
      BY <1>4, <1>6, <1>7, <1>12, <2>2, <3>2
    <3>3. QED
      BY <3>1, <3>2
  <2>3. ASSUME NEW q \in Place, programs'[q].is = "part"
        PROVE  q \in tainted' \/ \E j \in Installs : Writes(j, q)'
    <3>1. CASE q = p
      BY <1>6, <3>1 DEF Writes
    <3>2. CASE q # p
      BY <1>1, <1>8, <1>12, <2>3, <3>2 DEF InstallInv, Marked
    <3>3. QED
      BY <3>1, <3>2
  <2>4. QED
    BY <2>1, <2>2, <2>3 DEF Marked
<1>14. Synced'
  BY <1>1 DEF InstallInv, Synced
<1>15. QED
  BY <1>9, <1>11, <1>13, <1>14 DEF InstallInv

LEMMA FailsKeeps ==
    ASSUME InstallInv, NEW i \in Installs, Install!Fails(i)
    PROVE  InstallInv'
<1>1. /\ inst[i].at \in {"download", "extract"} /\ inst' = [inst EXCEPT ![i] = Install!NoInstall]
      /\ tainted' = IF inst[i].at = "extract" THEN tainted \cup {inst[i].place} ELSE tainted
      /\ UNCHANGED <<unix, cfg, disk, programs, put, crashes, newest, raced>>
  BY DEF Install!Fails
<1>2. /\ inst' \in [Installs -> InstRecord] /\ inst'[i].at = "idle"
      /\ \A j \in Installs \ {i} : inst'[j] = inst[j]
  BY <1>1, NoInstallOK DEF InstallInv, InstallTypes, InstRecord
<1>3. InstallTypes' /\ AllLead' /\ Synced'
  BY <1>1, <1>2 DEF InstallInv, InstallTypes, InstRecord, AllLead, Leads, Synced
<1>4. tainted \subseteq tainted' /\ \A q \in Place : Writes(i, q) => q \in tainted'
  BY <1>1 DEF Writes
<1>5. /\ \A j \in Installs : \A q \in Place : Writes(j, q)' => j # i /\ Writes(j, q)
      /\ \A j \in Installs \ {i} : \A q \in Place : Writes(j, q) => Writes(j, q)'
  BY <1>2 DEF Writes
<1>6. Marked'
  <2>1. \A j \in Installs : inst'[j].at = "extract" /\ inst'[j].shared => inst'[j].place \in tainted'
    BY <1>2, <1>4 DEF InstallInv, Marked
  <2>2. \A j, k \in Installs : \A q \in Place :
          Writes(j, q)' /\ Writes(k, q)' /\ ~inst'[j].shared => j = k
    BY <1>2, <1>5 DEF InstallInv, Marked
  <2>3. \A q \in Place : programs'[q].is = "part" => q \in tainted' \/ \E j \in Installs : Writes(j, q)'
    BY <1>1, <1>4, <1>5 DEF InstallInv, Marked
  <2>4. QED
    BY <2>1, <2>2, <2>3 DEF Marked
<1>7. QED
  BY <1>3, <1>6 DEF InstallInv

\* A writer that was alone leaves a whole file; one that was not, a marked one.
LEMMA ExtractedKeeps ==
    ASSUME InstallInv, NEW i \in Installs, Install!Extracted(i)
    PROVE  InstallInv'
<1>1. PICK p \in Place : inst[i].at = "extract" /\ inst[i].place = p
  BY DEF Install!Extracted, InstallInv, InstallTypes
<1>2. inst \in [Installs -> InstRecord] /\ inst[i].decoder \in Decoders
  BY <1>1 DEF InstallInv, InstallTypes, InstRecord
<1>3. PICK is \in {"part", "whole"} :
        programs' = [programs EXCEPT ![p].is = is] /\ (is = "part" => inst[i].shared)
  BY <1>1 DEF Install!Extracted
<1>4. PICK path \in Place :
        /\ inst' = [inst EXCEPT ![i] = [inst[i] EXCEPT !.at = "apply", !.path = path]]
        /\ (path = p \/ programs[path].is # "none")
  <2> DEFINE own == <<"own", inst[i].decoder>>
  <2>1. own \in Place
    BY <1>2, PathsApart
  <2>2. inst' = [inst EXCEPT ![i] = [inst[i] EXCEPT !.at = "apply",
                   !.path = IF programs[own].is # "none" /\ programs[own].runs THEN own ELSE p]]
    BY <1>1, <1>2 DEF Install!Extracted
  <2> HIDE DEF own
  <2>3. CASE programs[own].is # "none" /\ programs[own].runs
    BY <2>1, <2>2, <2>3, Zenon
  <2>4. CASE ~(programs[own].is # "none" /\ programs[own].runs)
    BY <2>2, <2>4, Zenon
  <2>5. QED
    BY <2>3, <2>4, Zenon
<1>5. /\ tainted' = IF inst[i].shared THEN tainted ELSE tainted \ {p}
      /\ UNCHANGED <<unix, cfg, disk, put, crashes, newest, raced>>
  BY <1>1 DEF Install!Extracted
<1>6. /\ programs' \in [Place -> [is : {"none", "part", "whole"}, runs : BOOLEAN]]
      /\ programs'[p].is = is /\ \A q \in Place \ {p} : programs'[q] = programs[q]
  BY <1>3 DEF InstallInv, InstallTypes
<1> DEFINE r == [inst[i] EXCEPT !.at = "apply", !.path = path]
<1>7. r \in InstRecord /\ r.at = "apply" /\ r.path = path /\ r.decoder = inst[i].decoder
  BY <1>2, PathsApart DEF InstRecord
<1>8. /\ inst' \in [Installs -> InstRecord] /\ inst'[i] = r
      /\ \A j \in Installs \ {i} : inst'[j] = inst[j]
  BY <1>2, <1>4, <1>7
<1> HIDE DEF r
<1>9. InstallTypes'
  <2>1. \A j \in Installs :
          /\ inst'[j].at # "idle" => inst'[j].decoder \in Decoders
          /\ inst'[j].at = "extract" => inst'[j].place \in Place
    BY <1>2, <1>7, <1>8 DEF InstallInv, InstallTypes
  <2>2. QED
    BY <1>5, <1>6, <1>8, <2>1 DEF InstallInv, InstallTypes, InstRecord
<1>10. \A q \in Place : programs[q].is # "none" \/ q = p => programs'[q].is # "none"
  BY <1>3, <1>6
<1>11. AllLead'
  <2>1. \A j \in Installs : inst'[j].at = "apply" => (inst'[j].path \in Place => programs'[inst'[j].path].is # "none")
    BY <1>4, <1>7, <1>8, <1>10 DEF InstallInv, AllLead, Leads
  <2>2. QED
    BY <1>5, <1>10, <2>1 DEF InstallInv, AllLead, Leads
<1>12. /\ \A j \in Installs : \A q \in Place : Writes(j, q)' => j # i /\ Writes(j, q)
       /\ \A j \in Installs \ {i} : \A q \in Place : Writes(j, q) => Writes(j, q)'
       /\ Writes(i, p) /\ \A q \in Place : Writes(i, q) => q = p
  BY <1>1, <1>7, <1>8 DEF Writes
<1>13. Marked'
  <2>1. ASSUME NEW j \in Installs, inst'[j].at = "extract", inst'[j].shared
        PROVE  inst'[j].place \in tainted'
    <3>1. j # i /\ inst'[j] = inst[j] /\ inst[j].place \in tainted /\ inst[j].place \in Place
      BY <1>7, <1>8, <2>1 DEF InstallInv, InstallTypes, Marked
    <3>2. ~inst[i].shared => inst[j].place # p
      BY <1>12, <2>1, <3>1 DEF InstallInv, Marked, Writes
    <3>3. QED
      BY <1>5, <3>1, <3>2
  <2>2. ASSUME NEW j \in Installs, NEW k \in Installs, NEW q \in Place,
               Writes(j, q)', Writes(k, q)', ~inst'[j].shared
        PROVE  j = k
    BY <1>8, <1>12, <2>2 DEF InstallInv, Marked
  <2>3. ASSUME NEW q \in Place, programs'[q].is = "part"
        PROVE  q \in tainted' \/ \E j \in Installs : Writes(j, q)'
    <3>1. CASE q = p
      BY <1>1, <1>3, <1>5, <1>6, <2>3, <3>1 DEF InstallInv, Marked
    <3>2. CASE q # p
      BY <1>5, <1>6, <1>12, <2>3, <3>2 DEF InstallInv, Marked
    <3>3. QED
      BY <3>1, <3>2
  <2>4. QED
    BY <2>1, <2>2, <2>3 DEF Marked
<1>14. Synced'
  BY <1>5 DEF InstallInv, Synced
<1>15. QED
  BY <1>9, <1>11, <1>13, <1>14 DEF InstallInv

LEMMA MakeExecutableKeeps ==
    ASSUME InstallInv, NEW p \in Place, Install!MakeExecutable(p)
    PROVE  InstallInv'
<1>1. /\ programs' = [programs EXCEPT ![p].runs = TRUE]
      /\ UNCHANGED <<unix, cfg, disk, inst, put, crashes, newest, tainted, raced>>
  BY DEF Install!MakeExecutable
<1> DEFINE Executable == [is : {"none", "part", "whole"}, runs : BOOLEAN]
           new == [programs[p] EXCEPT !.runs = TRUE]
<1>2. /\ programs' \in [Place -> Executable]
      /\ \A q \in Place : programs'[q].is = programs[q].is
  <2>1. programs \in [Place -> Executable] /\ programs[p] \in Executable
    BY DEF InstallInv, InstallTypes
  <2>2. new \in Executable /\ new.is = programs[p].is
    BY <2>1
  <2>3. programs' = [programs EXCEPT ![p] = new]
    BY <1>1
  <2> HIDE DEF Executable, new
  <2>4. QED
    BY <2>1, <2>2, <2>3
<1>3. InstallTypes' /\ Synced'
  BY <1>1, <1>2 DEF InstallInv, InstallTypes, Synced
<1>4. AllLead' /\ Marked'
  BY <1>1, <1>2 DEF InstallInv, AllLead, Leads, Marked, Writes
<1>5. QED
  BY <1>3, <1>4 DEF InstallInv

LEMMA RestartKeeps ==
    ASSUME InstallInv, Install!Restart
    PROVE  InstallInv' /\ cfg'.setting = disk.setting /\ crashes' # crashes
<1>1. /\ crashes' = crashes + 1 /\ cfg' = Install!Bootstrapped(disk) /\ disk' = cfg'
      /\ tainted' = tainted \cup {p \in Place : Install!Writing(p) # {}}
      /\ inst' = [i \in Installs |-> Install!NoInstall]
      /\ put' = [c \in Editors |-> Install!NoPut]
      /\ UNCHANGED <<unix, programs, newest>>
  BY DEF Install!Restart, Install!Stored, Place
<1>2. /\ cfg' \in Config /\ cfg'.setting = disk.setting
      /\ \A d \in Decoders : Leads(cfg'.paths[d])
  BY <1>1, FoundPaths DEF InstallInv, InstallTypes, AllLead
<1>3. \A c \in Editors : put'[c] = [at |-> "idle", cfg |-> <<>>]
  BY <1>1 DEF Install!NoPut, Install!Unset
<1>4. \A i \in Installs : inst'[i] \in InstRecord /\ inst'[i].at = "idle"
  BY <1>1, NoInstallOK
<1>5. crashes \in Nat /\ crashes' \in Nat /\ crashes' # crashes
  BY <1>1 DEF InstallInv, InstallTypes
<1>6. InstallTypes'
  <2>1. inst' \in [Installs -> InstRecord]
    BY <1>1, <1>4
  <2>2. put' \in [Editors -> [at : {"idle", "check", "replace", "save"}, cfg : Config \cup {<<>>}]]
    BY <1>1, <1>3
  <2>3. QED
    BY <1>1, <1>2, <1>3, <1>4, <1>5, <2>1, <2>2 DEF InstallInv, InstallTypes, InstRecord
<1>7. AllLead' /\ Synced'
  BY <1>1, <1>2, <1>3, <1>4 DEF AllLead, Leads, Synced
<1>8. Marked'
  <2>1. \A p \in Place : p \in tainted \/ (\E i \in Installs : Writes(i, p)) => p \in tainted'
    BY <1>1 DEF Install!Writing, Writes
  <2>2. QED
    BY <1>1, <1>4, <2>1 DEF InstallInv, Marked, Writes
<1>9. QED
  BY <1>2, <1>5, <1>6, <1>7, <1>8 DEF InstallInv

LEMMA InstallStepKeeps == InstallInv /\ Install!DecNext => InstallInv'
  BY ConfigureKeeps, RestartKeeps, BeginKeeps, ExtractKeeps, FailsKeeps, ExtractedKeeps, ApplyKeeps,
     SendKeeps, CheckKeeps, ReplaceKeeps, SaveKeeps, MakeExecutableKeeps
  DEF Install!DecNext, Place

\* The setting in force changes by a client's settings and by a restart only.
LEMMA SettingKept ==
    ASSUME InstallInv, Install!DecNext, cfg'.setting # cfg.setting
    PROVE  \/ \E c \in Editors : put[c].at = "replace" /\ cfg'.setting = put[c].cfg.setting
           \/ crashes' # crashes /\ cfg'.setting = disk.setting
<1>1. CASE Install!Configure \/ \E i \in Installs : Install!Apply(i)
  BY <1>1, ConfigureKeeps, ApplyKeeps
<1>2. CASE Install!Restart
  BY <1>2, RestartKeeps
<1>3. CASE \E c \in Editors : Install!ReplaceSettings(c)
  BY <1>3 DEF Install!ReplaceSettings
<1>4. ASSUME NEW i \in Installs,
             \/ \E d \in Decoders : Install!Begin(i, d)
             \/ \E p \in Install!Places : Install!Extract(i, p)
             \/ Install!Fails(i) \/ Install!Extracted(i)
      PROVE  FALSE
  <2>1. (\E d \in Decoders : Install!Begin(i, d)) => cfg' = cfg
    BY DEF Install!Begin
  <2>2. (\E p \in Install!Places : Install!Extract(i, p)) => cfg' = cfg
    BY DEF Install!Extract
  <2>3. Install!Fails(i) => cfg' = cfg
    BY DEF Install!Fails
  <2>4. Install!Extracted(i) => cfg' = cfg
    BY DEF Install!Extracted
  <2>5. QED
    BY <1>4, <2>1, <2>2, <2>3, <2>4
<1>5. ASSUME NEW c \in Editors,
             Install!SendSettings(c) \/ Install!CheckSettings(c) \/ Install!SaveSettings(c)
      PROVE  FALSE
  BY <1>5 DEF Install!SendSettings, Install!CheckSettings, Install!SaveSettings
<1>6. ASSUME NEW p \in Install!Places, Install!MakeExecutable(p) PROVE FALSE
  BY <1>6 DEF Install!MakeExecutable
<1>7. QED
  BY <1>1, <1>2, <1>3, <1>4, <1>5, <1>6 DEF Install!DecNext

\* However installs, settings, chmods and restarts overlap: an install never
\* undoes the operator's settings, what is in force is what is saved unless a
\* client's settings are being saved or were saved late, and a configured program
\* is there and whole unless a write of it is under way or went wrong.
THEOREM InstallsKeepConfig == Spec => ConfigKept
<1> DEFINE Inv == scene = "installs" => InstallInv
<1>1. Init => Inv
  BY InstallInitial DEF Init
<1>2. Inv /\ [Next]_vars => Inv'
  <2> SUFFICES ASSUME Inv, [Next]_vars PROVE Inv'
    OBVIOUS
  <2>1. CASE InstallStep
    BY <2>1, InstallStepKeeps DEF InstallStep
  <2>2. CASE BandsStep \/ WindowsStep \/ FeedStep \/ RecStep \/ TrunkStep \/ SoundStep
    BY <2>2 DEF BandsStep, WindowsStep, FeedStep, RecStep, TrunkStep, SoundStep
  <2>3. CASE UNCHANGED vars
    BY <2>3 DEF vars, installsVars, InstallInv, InstallTypes, AllLead, Leads, Marked, Writes, Synced
  <2>4. QED
    BY <2>1, <2>2, <2>3 DEF Next
<1>3. Inv /\ [Next]_vars => [scene = "installs" => Install!StepKeepsConfig]_vars
  <2> SUFFICES ASSUME Inv, Next, scene = "installs" PROVE Install!StepKeepsConfig
    OBVIOUS
  <2>1. Install!DecNext
    BY DEF Next, BandsStep, WindowsStep, FeedStep, RecStep, TrunkStep, InstallStep, SoundStep
  <2>2. InstallInv /\ InstallInv'
    BY <2>1, InstallStepKeeps
  <2>3. cfg'.setting # cfg.setting =>
          \/ \E c \in Editors : put[c].at = "replace" /\ cfg'.setting = put[c].cfg.setting
          \/ crashes' # crashes /\ cfg'.setting = disk.setting
    BY <2>1, <2>2, SettingKept
  <2>4. disk' # cfg' => raced' \/ \E c \in Editors : put'[c].at = "save"
    BY <2>2 DEF InstallInv, Synced
  <2>5. ASSUME NEW d \in Decoders, cfg'.paths[d] \in Place
        PROVE  /\ programs'[cfg'.paths[d]].is # "none"
               /\ programs'[cfg'.paths[d]].is = "part" =>
                     \/ cfg'.paths[d] \in tainted'
                     \/ \E i \in Installs : inst'[i].at = "extract" /\ inst'[i].place = cfg'.paths[d]
    BY <2>2, <2>5 DEF InstallInv, AllLead, Leads, Marked, Writes
  <2>6. QED
    BY <2>3, <2>4, <2>5 DEF Install!StepKeepsConfig, Place
<1>4. QED
  BY <1>1, <1>2, <1>3, PTL DEF Spec, ConfigKept

----------------------------------------------------------------------------
(* Picking elements of a vector *)

LEMMA LeastPlace == ASSUME NEW T, T \subseteq Nat, T # {} PROVE \E n \in T : \A m \in T : n <= m
<1>1. PICK n \in T : \A m \in T : ~ (<<m, n>> \in OpToRel(<, Nat))
  BY NatLessThanWellFounded, WFMin, Zenon
<1>2. \A m \in T : ~ (m < n)
  BY <1>1 DEF OpToRel
<1>3. QED
  BY <1>2

\* The elements of s picked up to n, from those picked before.
Grown(s, at, f, n) ==
    IF n = 0 THEN <<>> ELSE IF n \in at THEN Append(f[n - 1], s[n]) ELSE f[n - 1]
Growing(s, at, f) == [n \in 0 .. Len(s) |-> Grown(s, at, f, n)]

\* There is such a function: a least length at which there is none would be one
\* step longer than one that has it.
LEMMA GrowingExists ==
    ASSUME NEW S, NEW s \in Seq(S), NEW at
    PROVE  \E f : f = Growing(s, at, f)
<1> DEFINE Has(n) == \E f \in [0 .. n -> Seq(S)] : \A m \in 0 .. n : f[m] = Grown(s, at, f, m)
           Bad == {n \in 0 .. Len(s) : ~Has(n)}
<1>1. Len(s) \in Nat
  BY LenProperties
<1>2. Bad = {}
  <2> SUFFICES ASSUME Bad # {} PROVE FALSE
    OBVIOUS
  <2>1. PICK n \in Bad : \A m \in Bad : n <= m
    <3>1. Bad \subseteq Nat
      BY <1>1
    <3> HIDE DEF Bad
    <3>2. QED
      BY <3>1, LeastPlace
  <2>2. n \in 0 .. Len(s) /\ ~Has(n)
    BY <2>1
  <2>3. n # 0
    <3> DEFINE f == [m \in 0 .. 0 |-> <<>>]
    <3>1. f \in [0 .. 0 -> Seq(S)]
      BY EmptySeq
    <3>2. \A m \in 0 .. 0 : f[m] = Grown(s, at, f, m)
      BY DEF Grown
    <3>3. Has(0)
      BY <3>1, <3>2
    <3>4. QED
      BY <2>2, <3>3
  <2>4. n - 1 \in 0 .. Len(s) /\ n - 1 < n
    BY <1>1, <2>2, <2>3
  <2>5. Has(n - 1)
    <3>1. n - 1 \notin Bad
      <4> HIDE DEF Bad
      <4>1. n \in Nat
        BY <1>1, <2>2
      <4>2. QED
        BY <2>1, <2>4, <4>1
    <3> HIDE DEF Has
    <3>2. QED
      BY <2>4, <3>1
  <2>6. PICK f \in [0 .. (n - 1) -> Seq(S)] : \A m \in 0 .. (n - 1) : f[m] = Grown(s, at, f, m)
    BY <2>5
  <2> DEFINE g == [m \in 0 .. n |-> IF m < n THEN f[m] ELSE Grown(s, at, f, n)]
  <2>7. f[n - 1] \in Seq(S) /\ s[n] \in S
    BY <1>1, <2>2, <2>3, <2>6, ElementOfSeq
  <2>8. Grown(s, at, f, n) \in Seq(S)
    BY <2>3, <2>7, AppendProperties DEF Grown
  <2>9. g \in [0 .. n -> Seq(S)]
    BY <1>1, <2>2, <2>6, <2>8
  <2>10. \A m \in 0 .. n : g[m] = Grown(s, at, g, m)
    <3> SUFFICES ASSUME NEW m \in 0 .. n PROVE g[m] = Grown(s, at, g, m)
      OBVIOUS
    <3>1. m # 0 => g[m - 1] = f[m - 1]
      BY <2>2
    <3>2. Grown(s, at, g, m) = Grown(s, at, f, m)
      BY <3>1 DEF Grown
    <3>3. CASE m < n
      BY <2>2, <2>6, <3>2, <3>3
    <3>4. CASE m = n
      BY <2>2, <3>2, <3>4
    <3>5. QED
      BY <2>2, <3>3, <3>4
  <2>11. Has(n)
    BY <2>9, <2>10
  <2>12. QED
    BY <2>2, <2>11
<1>3. Has(Len(s))
  <2> HIDE DEF Has
  <2>1. QED
    BY <1>1, <1>2
<1>4. PICK f \in [0 .. Len(s) -> Seq(S)] : \A m \in 0 .. Len(s) : f[m] = Grown(s, at, f, m)
  BY <1>3
<1>5. f = Growing(s, at, f)
  BY <1>4 DEF Growing
<1>6. QED
  BY <1>5

LEMMA PickedGrows ==
    ASSUME NEW S, NEW s \in Seq(S), NEW at
    PROVE  \E f : f = Growing(s, at, f) /\ Picked(s, at) = f[Len(s)]
<1> DEFINE k == CHOOSE f : f = Growing(s, at, f)
<1>1. k = Growing(s, at, k)
  BY GrowingExists
<1>2. Picked(s, at) = k[Len(s)]
  BY DEF Picked, Growing, Grown
<1>3. QED
  BY <1>1, <1>2

\* What is picked: elements from the places, each after those of earlier places
\* only.
FromPlaces(s, at, p) ==
    \A m \in 1 .. Len(p) : \E j \in 1 .. Len(s) : j \in at /\ p[m] = s[j]

InOrder(s, at, p) ==
    \A i \in 1 .. Len(s) : i \in at =>
        \E m \in 1 .. Len(p) :
            /\ p[m] = s[i]
            /\ \A l \in 1 .. m - 1 : \E j \in 1 .. i - 1 : j \in at /\ p[l] = s[j]

LEMMA PickedInOrder ==
    ASSUME NEW S, NEW s \in Seq(S), NEW at, NEW p, p = Picked(s, at)
    PROVE  p \in Seq(S) /\ FromPlaces(s, at, p) /\ InOrder(s, at, p)
<1>1. PICK f : f = Growing(s, at, f) /\ Picked(s, at) = f[Len(s)]
  BY PickedGrows
<1> DEFINE From(w, n) == \A m \in 1 .. Len(w) : \E j \in 1 .. n : j \in at /\ w[m] = s[j]
           After(w, i) == \E m \in 1 .. Len(w) :
                     /\ w[m] = s[i]
                     /\ \A l \in 1 .. m - 1 : \E j \in 1 .. i - 1 : j \in at /\ w[l] = s[j]
           Right(n) == f[n] \in Seq(S) /\ From(f[n], n) /\ \A i \in 1 .. n : i \in at => After(f[n], i)
           Bad == {n \in 0 .. Len(s) : ~Right(n)}
<1>2. Len(s) \in Nat
  BY LenProperties
<1>3. \A n \in 0 .. Len(s) : f[n] = Grown(s, at, f, n)
  BY <1>1 DEF Growing
<1>4. Right(0)
  <2>1. f[0] = <<>>
    BY <1>2, <1>3 DEF Grown
  <2>2. QED
    BY <2>1, EmptySeq
<1>5. ASSUME NEW n \in 1 .. Len(s), Right(n - 1) PROVE Right(n)
  <2>1. f[n - 1] \in Seq(S) /\ From(f[n - 1], n - 1) /\ \A i \in 1 .. n - 1 : i \in at => After(f[n - 1], i)
    BY <1>5
  <2>2. n \in Nat \ {0} /\ n \in 0 .. Len(s)
    BY <1>2
  <2>3. CASE n \notin at
    <3>1. f[n] = f[n - 1]
      BY <1>3, <2>2, <2>3 DEF Grown
    <3>2. QED
      BY <2>1, <2>2, <2>3, <3>1
  <2>4. CASE n \in at
    <3> DEFINE w == f[n - 1]
               v == f[n]
    <3>1. v = Append(w, s[n]) /\ s[n] \in S
      BY <1>3, <2>2, <2>4, ElementOfSeq DEF Grown
    <3>2. /\ Len(w) \in Nat /\ v \in Seq(S) /\ Len(v) = Len(w) + 1
          /\ \A m \in 1 .. Len(w) : v[m] = w[m]
          /\ v[Len(w) + 1] = s[n]
      BY <2>1, <3>1, AppendProperties, LenProperties
    <3> HIDE DEF v, w
    <3>a. From(w, n - 1) /\ \A i \in 1 .. n - 1 : i \in at => After(w, i)
      BY <2>1 DEF w
    <3>3. From(v, n)
      <4> SUFFICES ASSUME NEW m \in 1 .. Len(v) PROVE \E j \in 1 .. n : j \in at /\ v[m] = s[j]
        OBVIOUS
      <4>1. CASE m = Len(w) + 1
        BY <2>2, <2>4, <3>2, <4>1
      <4>2. CASE m \in 1 .. Len(w)
        <5>1. PICK j \in 1 .. n - 1 : j \in at /\ w[m] = s[j]
          BY <3>a, <4>2
        <5>2. QED
          BY <2>2, <3>2, <4>2, <5>1
      <4>3. QED
        BY <3>2, <4>1, <4>2
    <3>4. ASSUME NEW i \in 1 .. n, i \in at PROVE After(v, i)
      <4>1. CASE i = n
        <5>1. \A l \in 1 .. Len(w) : \E j \in 1 .. n - 1 : j \in at /\ v[l] = s[j]
          BY <3>2, <3>a
        <5>2. Len(w) + 1 \in 1 .. Len(v) /\ (Len(w) + 1) - 1 = Len(w)
          BY <3>2
        <5>3. QED
          BY <3>2, <4>1, <5>1, <5>2
      <4>2. CASE i \in 1 .. n - 1
        <5>1. PICK m \in 1 .. Len(w) :
                     /\ w[m] = s[i]
                     /\ \A l \in 1 .. m - 1 : \E j \in 1 .. i - 1 : j \in at /\ w[l] = s[j]
          BY <3>a, <3>4, <4>2
        <5>2. m \in 1 .. Len(v) /\ v[m] = s[i] /\ \A l \in 1 .. m - 1 : v[l] = w[l]
          BY <3>2, <5>1
        <5>3. QED
          BY <5>1, <5>2
      <4>3. i = n \/ i \in 1 .. n - 1
        BY <2>2
      <4> HIDE DEF After
      <4>4. QED
        BY <4>1, <4>2, <4>3
    <3>5. QED
      BY <3>2, <3>3, <3>4 DEF v
  <2>5. QED
    BY <2>3, <2>4
<1>6. Bad = {}
  <2> SUFFICES ASSUME Bad # {} PROVE FALSE
    OBVIOUS
  <2> HIDE DEF Right
  <2>1. PICK n \in Bad : \A m \in Bad : n <= m
    <3>1. Bad \subseteq Nat
      BY <1>2
    <3> HIDE DEF Bad
    <3>2. QED
      BY <3>1, LeastPlace
  <2>2. n \in 1 .. Len(s) /\ n - 1 \notin Bad /\ n - 1 \in 0 .. Len(s)
    BY <1>2, <1>4, <2>1
  <2>3. QED
    BY <1>5, <2>1, <2>2
<1>7. Right(Len(s))
  <2> HIDE DEF Right
  <2>1. QED
    BY <1>2, <1>6
<1>8. p \in Seq(S) /\ From(p, Len(s)) /\ \A i \in 1 .. Len(s) : i \in at => After(p, i)
  <2> HIDE DEF From, After
  <2>1. QED
    BY <1>1, <1>7
<1>9. QED
  BY <1>8 DEF FromPlaces, InOrder

LEMMA PickedElements ==
    ASSUME NEW S, NEW s \in Seq(S), NEW at, NEW p, p = Picked(s, at)
    PROVE  /\ p \in Seq(S)
           /\ \A m \in 1 .. Len(p) : \E j \in 1 .. Len(s) : j \in at /\ p[m] = s[j]
           /\ \A i \in 1 .. Len(s) : i \in at =>
                 \E m \in 1 .. Len(p) :
                     /\ p[m] = s[i]
                     /\ \A l \in 1 .. m - 1 : \E j \in 1 .. i - 1 : j \in at /\ p[l] = s[j]
<1>1. p \in Seq(S) /\ FromPlaces(s, at, p) /\ InOrder(s, at, p)
  BY PickedInOrder
<1>2. QED
  BY <1>1 DEF FromPlaces, InOrder

----------------------------------------------------------------------------
(* Trunking *)

Row == Systems \X Talkgroups
System == Systems \cup {NotNamed}
Voice == VoiceTables \cup {<<>>}
Grants == [talkgroup : Talkgroups, channel : Nat]
Where == {<<>>} \cup (STRING \X Nat) \cup {<<v>> : v \in STRING}

Runtime ==
    [running : BOOLEAN, system : System, voice : Voice, only : BOOLEAN,
     active : Talkgroups \cup {NotNamed}, calls : Seq([talkgroup : Talkgroups, at : Where])]
RequestRecord ==
    [at : {"idle", "voice", "only", "rows", "system", "follow", "log"},
     observation : [grants : Seq(Grants), idens : Seq(STRING)],
     voice : Voice, only : BOOLEAN, watched : SUBSET Row, system : System,
     sawAll : BOOLEAN, sawRows : SUBSET Row, sawNames : SUBSET System]

TrunkTypes ==
    /\ trunk \in Runtime
    /\ watched \subseteq Row
    /\ req \in [Requests -> RequestRecord]

\* A request that runs has seen what holds now, and what it read when it did.
Saw(q) ==
    /\ q.at # "idle" => (~trunk.only => q.sawAll) /\ watched \subseteq q.sawRows /\ trunk.system \in q.sawNames
    /\ q.at \in {"rows", "system", "follow", "log"} => (~q.only => q.sawAll)
    /\ q.at \in {"system", "follow", "log"} => q.watched \subseteq q.sawRows
    /\ q.at \in {"follow", "log"} => q.system \in q.sawNames

TrunkInv == TrunkTypes /\ \A r \in Requests : Saw(req[r])

\* The grants that pass are granted, and each was let through.
LEMMA KeptWanted ==
    ASSUME TrunkInv, NEW r \in Requests, req[r].at \in {"follow", "log"}
    PROVE  /\ Trunk!Kept(r) \in Seq(Grants)
           /\ \A k \in 1 .. Len(Trunk!Kept(r)) :
                 /\ Trunk!Wanted(r, Trunk!Kept(r)[k].talkgroup)
                 /\ \E j \in DOMAIN req[r].observation.grants :
                       Trunk!Kept(r)[k] = req[r].observation.grants[j]
<1> DEFINE q == req[r]
           grants == q.observation.grants
           at == {k \in DOMAIN grants : Trunk!IsWatched(grants[k], q.system, q.watched)}
<1>1. /\ grants \in Seq(Grants) /\ q.only \in BOOLEAN
      /\ DOMAIN grants = 1 .. Len(grants)
  BY LenProperties DEF TrunkInv, TrunkTypes, RequestRecord
<1>2. (~q.only => q.sawAll) /\ q.watched \subseteq q.sawRows /\ q.system \in q.sawNames
  BY DEF TrunkInv, Saw
<1>3. CASE q.only
  <2>1. Trunk!Kept(r) = Picked(grants, at)
    BY <1>3 DEF Trunk!Kept, Trunk!Passing, Trunk!Picked, Picked
  <2>2. ASSUME NEW j \in at PROVE Trunk!Wanted(r, grants[j].talkgroup)
    BY <1>2, <2>2 DEF Trunk!IsWatched, Trunk!Wanted
  <2>0. grants = req[r].observation.grants
    OBVIOUS
  <2> HIDE DEF at, grants
  <2>3. /\ Picked(grants, at) \in Seq(Grants)
        /\ \A m \in 1 .. Len(Picked(grants, at)) :
              \E j \in 1 .. Len(grants) : j \in at /\ Picked(grants, at)[m] = grants[j]
    BY <1>1, PickedElements
  <2>4. QED
    BY <1>1, <2>0, <2>1, <2>2, <2>3
<1>4. CASE ~q.only
  <2>1. Trunk!Kept(r) = grants
    BY <1>4 DEF Trunk!Kept, Trunk!Passing
  <2>2. \A k \in 1 .. Len(grants) : Trunk!Wanted(r, grants[k].talkgroup)
    BY <1>2, <1>4 DEF Trunk!Wanted
  <2>3. QED
    BY <1>1, <2>1, <2>2
<1>5. QED
  BY <1>3, <1>4

\* Where a request retunes to.
LEMMA FollowedGrant ==
    ASSUME TrunkInv, NEW r \in Requests, req[r].at \in {"follow", "log"},
           Trunk!FollowOf(r) # <<>>
    PROVE  /\ Trunk!FollowOf(r) \in Where
           /\ Trunk!Kept(r) # <<>>
           /\ \/ Trunk!FollowOf(r) \in {<<req[r].observation.idens[k], Head(Trunk!Kept(r)).channel>> :
                                          k \in DOMAIN req[r].observation.idens}
              \/ Trunk!FollowOf(r) \in {<<table[Head(Trunk!Kept(r)).channel + 1]>> :
                                         table \in {t \in VoiceTables : Head(Trunk!Kept(r)).channel < Len(t)}}
<1> DEFINE idens == req[r].observation.idens
           kept == Trunk!Kept(r)
           c == Head(kept).channel
           voice == req[r].voice
<1>1. kept \in Seq(Grants) /\ idens \in Seq(STRING) /\ voice \in Voice
  BY KeptWanted DEF TrunkInv, TrunkTypes, RequestRecord
<1>2. kept # <<>>
  BY DEF Trunk!FollowOf, Trunk!FollowFrequency, Trunk!Nowhere
<1>3. Head(kept) \in Grants /\ c \in Nat
  <2>1. Head(kept) = kept[1] /\ 1 \in 1 .. Len(kept)
    BY <1>1, <1>2, HeadTailProperties, EmptySeq, LenProperties
  <2>2. kept[1] \in Grants
    BY <1>1, <2>1, ElementOfSeq
  <2>3. QED
    BY <2>1, <2>2 DEF Grants
<1>4. Trunk!FollowOf(r) = IF idens # <<>> THEN <<Head(idens), c>>
                          ELSE IF c < Len(voice) THEN <<voice[c + 1]>> ELSE <<>>
  BY <1>2 DEF Trunk!FollowOf, Trunk!FollowFrequency, Trunk!Nowhere
<1>5. CASE idens # <<>>
  <2>1. Head(idens) = idens[1] /\ 1 \in DOMAIN idens /\ idens[1] \in STRING
    BY <1>1, <1>5, HeadTailProperties, EmptySeq, LenProperties, ElementOfSeq
  <2>2. QED
    BY <1>2, <1>3, <1>4, <1>5, <2>1 DEF Where
<1>6. CASE idens = <<>>
  <2>1. c < Len(voice) /\ Trunk!FollowOf(r) = <<voice[c + 1]>>
    BY <1>4, <1>6
  <2>2. voice # <<>>
    BY <1>3, <2>1, EmptySeq
  <2>3. voice \in VoiceTables /\ voice \in Seq(STRING)
    BY <1>1, <2>2, InputsAssumption DEF Voice
  <2>4. voice[c + 1] \in STRING
    BY <1>3, <2>1, <2>3, ElementOfSeq, LenProperties
  <2>5. QED
    BY <1>2, <2>1, <2>3, <2>4 DEF Where
<1>7. QED
  BY <1>5, <1>6

LEMMA TrunkInitial == Trunk!TrunkInit => TrunkInv
<1> SUFFICES ASSUME Trunk!TrunkInit PROVE TrunkInv
  OBVIOUS
<1>1. <<>> \in Seq(Grants) /\ <<>> \in Seq(STRING) /\ <<>> \in Seq([talkgroup : Talkgroups, at : Where])
  BY EmptySeq
<1>2. QED
  BY <1>1 DEF Trunk!TrunkInit, Trunk!Idle, TrunkInv, TrunkTypes, Saw, System, Voice, Runtime, RequestRecord

\* A request sees the step that another makes.
LEMMA SeeingKeeps ==
    ASSUME TrunkInv, NEW runtime \in Runtime, NEW rows \in SUBSET Row,
           Trunk!Edit(runtime, rows)
    PROVE  TrunkInv'
<1>1. /\ trunk' = runtime /\ watched' = rows
      /\ req' = [r \in Requests |-> IF req[r].at = "idle" THEN req[r]
                                    ELSE Trunk!Seeing(req[r], runtime, rows)]
  BY DEF Trunk!Edit, Trunk!Witnessed
<1>2. \A r \in Requests : req[r] \in RequestRecord
  BY DEF TrunkInv, TrunkTypes
<1>3. runtime.only \in BOOLEAN /\ runtime.system \in System
  BY DEF Runtime
<1>4. ASSUME NEW r \in Requests, req[r].at # "idle"
      PROVE  /\ req'[r] \in RequestRecord
             /\ req'[r].at = req[r].at /\ req'[r].only = req[r].only
             /\ req'[r].watched = req[r].watched /\ req'[r].system = req[r].system
             /\ req'[r].sawAll = (req[r].sawAll \/ ~runtime.only)
             /\ req'[r].sawRows = req[r].sawRows \cup rows
             /\ req'[r].sawNames = req[r].sawNames \cup {runtime.system}
  <2> DEFINE q == req[r]
             all == q.sawAll \/ ~runtime.only
             seen == q.sawRows \cup rows
             names == q.sawNames \cup {runtime.system}
  <2>1. req'[r] = [q EXCEPT !.sawAll = all, !.sawRows = seen, !.sawNames = names]
    BY <1>1, <1>4, Zenon DEF Trunk!Seeing
  <2>2. q \in RequestRecord
    BY <1>2
  <2>3. all \in BOOLEAN /\ seen \in SUBSET Row /\ names \in SUBSET System
    BY <1>3, <2>2 DEF RequestRecord
  <2> HIDE DEF q, all, seen, names
  <2>4. /\ req'[r] \in RequestRecord
        /\ req'[r].at = q.at /\ req'[r].only = q.only
        /\ req'[r].watched = q.watched /\ req'[r].system = q.system
        /\ req'[r].sawAll = all /\ req'[r].sawRows = seen /\ req'[r].sawNames = names
    BY <2>1, <2>2, <2>3 DEF RequestRecord
  <2>5. QED
    BY <2>4 DEF q, all, seen, names
<1>5. \A r \in Requests : req[r].at = "idle" => req'[r] = req[r]
  BY <1>1
<1>6. TrunkTypes'
  <2>1. \A r \in Requests : req'[r] \in RequestRecord
    BY <1>2, <1>4, <1>5
  <2>2. DOMAIN req' = Requests /\ req' = [r \in Requests |-> req'[r]]
    BY <1>1
  <2>3. req' \in [Requests -> RequestRecord]
    BY <2>1, <2>2
  <2>4. QED
    BY <1>1, <2>3 DEF TrunkTypes
<1>7. ASSUME NEW r \in Requests PROVE Saw(req[r])'
  <2>1. Saw(req[r])
    BY DEF TrunkInv
  <2>2. CASE req[r].at = "idle"
    BY <1>5, <2>2 DEF Saw
  <2>3. CASE req[r].at # "idle"
    <3> DEFINE q == req[r]
               p == req'[r]
    <3>1. /\ p.at = q.at /\ p.only = q.only /\ p.watched = q.watched /\ p.system = q.system
          /\ p.sawAll = (q.sawAll \/ ~trunk'.only) /\ p.sawRows = q.sawRows \cup watched'
          /\ p.sawNames = q.sawNames \cup {trunk'.system}
      BY <1>1, <1>4, <2>3
    <3>2. Saw(q)
      BY <2>1
    <3> HIDE DEF q, p
    <3>3. (~trunk'.only => p.sawAll) /\ watched' \subseteq p.sawRows /\ trunk'.system \in p.sawNames
      BY <3>1
    <3>4. /\ p.at \in {"rows", "system", "follow", "log"} => (~p.only => p.sawAll)
          /\ p.at \in {"system", "follow", "log"} => p.watched \subseteq p.sawRows
          /\ p.at \in {"follow", "log"} => p.system \in p.sawNames
      BY <3>1, <3>2 DEF Saw
    <3>5. QED
      BY <3>3, <3>4 DEF Saw, p
  <2>4. QED
    BY <2>2, <2>3
<1>8. QED
  BY <1>6, <1>7 DEF TrunkInv

\* A step of one request leaves the others' alone.
LEMMA RequestKeeps ==
    ASSUME TrunkInv, NEW r \in Requests, NEW q \in RequestRecord,
           Saw(q), req' = [req EXCEPT ![r] = q], watched' = watched,
           trunk' \in Runtime,
           trunk'.only = trunk.only, trunk'.system = trunk.system
    PROVE  TrunkInv'
<1>1. TrunkTypes'
  BY DEF TrunkInv, TrunkTypes
<1>2. ASSUME NEW x \in Requests PROVE Saw(req[x])'
  <2>1. req'[x] = IF x = r THEN q ELSE req[x]
    BY DEF TrunkInv, TrunkTypes
  <2>2. Saw(req'[x])
    BY <2>1 DEF TrunkInv
  <2>3. QED
    BY <2>2 DEF Saw
<1>3. QED
  BY <1>1, <1>2 DEF TrunkInv

LEMMA ObserveKeeps ==
    ASSUME TrunkInv, NEW r \in Requests, Trunk!Observe(r)
    PROVE  TrunkInv'
<1>1. PICK o \in Observations :
          req' = [req EXCEPT ![r] =
                    Trunk!Seeing([Trunk!Idle EXCEPT !.at = "voice", !.observation = o], trunk, watched)]
  BY Zenon DEF Trunk!Observe
<1>2. /\ o \in [grants : Seq(Grants), idens : Seq(STRING)]
      /\ trunk \in Runtime /\ watched \subseteq Row
  BY InputsAssumption DEF TrunkInv, TrunkTypes, Grants
<1> DEFINE new == [Trunk!Idle EXCEPT !.at = "voice", !.observation = o]
           all == new.sawAll \/ ~trunk.only
           rows == new.sawRows \cup watched
           names == new.sawNames \cup {trunk.system}
           q == [new EXCEPT !.sawAll = all, !.sawRows = rows, !.sawNames = names]
<1>3. req' = [req EXCEPT ![r] = q]
  BY <1>1 DEF Trunk!Seeing
<1>4. /\ new \in RequestRecord
      /\ new.at = "voice" /\ new.sawAll = FALSE /\ new.sawRows = {} /\ new.sawNames = {}
  <2>1. <<>> \in Seq(Grants) /\ <<>> \in Seq(STRING)
    BY EmptySeq
  <2>2. QED
    BY <1>2, <2>1 DEF Trunk!Idle, RequestRecord, Voice, System
<1> HIDE DEF new
<1>5. all \in BOOLEAN /\ rows \in SUBSET Row /\ names \in SUBSET System
  BY <1>2, <1>4 DEF Runtime
<1>6. (~trunk.only => all) /\ watched \subseteq rows /\ trunk.system \in names
  BY <1>4
<1> HIDE DEF all, rows, names
<1>7. /\ q \in RequestRecord
      /\ q.at = "voice" /\ q.sawAll = all /\ q.sawRows = rows /\ q.sawNames = names
  BY <1>4, <1>5 DEF RequestRecord
<1> HIDE DEF q
<1>8. Saw(q)
  BY <1>6, <1>7 DEF Saw
<1>9. QED
  BY <1>2, <1>3, <1>7, <1>8, RequestKeeps DEF Trunk!Observe

LEMMA ReadsKeep ==
    ASSUME TrunkInv, NEW r \in Requests,
           \/ Trunk!ReadVoice(r) \/ Trunk!ReadOnly(r) \/ Trunk!ReadWatched(r) \/ Trunk!ReadSystem(r)
           \/ Trunk!Follow(r)
    PROVE  TrunkInv'
<1>1. /\ trunk \in Runtime /\ watched \in SUBSET Row /\ req[r] \in RequestRecord /\ Saw(req[r])
      /\ trunk' = trunk /\ watched' = watched
  BY DEF TrunkInv, TrunkTypes, Trunk!ReadVoice, Trunk!ReadOnly, Trunk!ReadWatched,
         Trunk!ReadSystem, Trunk!Follow, Trunk!Reads
<1>2. trunk.voice \in Voice /\ trunk.only \in BOOLEAN /\ trunk.system \in System
  BY <1>1 DEF Runtime
<1>3. PICK q \in RequestRecord : Saw(q) /\ req' = [req EXCEPT ![r] = q]
  <2>1. CASE Trunk!ReadVoice(r)
    <3> DEFINE q == [[req[r] EXCEPT !.voice = trunk.voice] EXCEPT !.at = "only"]
    <3>1. req' = [req EXCEPT ![r] = q] /\ req[r].at = "voice"
      BY <2>1 DEF Trunk!ReadVoice, Trunk!Reads
    <3>2. q \in RequestRecord
      BY <1>1, <1>2 DEF RequestRecord
    <3>3. Saw(q)
      BY <1>1, <3>1 DEF Saw, RequestRecord
    <3>4. QED
      BY <3>1, <3>2, <3>3
  <2>2. CASE Trunk!ReadOnly(r)
    <3> DEFINE q == [[req[r] EXCEPT !.only = trunk.only] EXCEPT !.at = "rows"]
    <3>1. req' = [req EXCEPT ![r] = q] /\ req[r].at = "only"
      BY <2>2 DEF Trunk!ReadOnly, Trunk!Reads
    <3>2. q \in RequestRecord
      BY <1>1, <1>2 DEF RequestRecord
    <3>3. Saw(q)
      BY <1>1, <3>1 DEF Saw, RequestRecord
    <3>4. QED
      BY <3>1, <3>2, <3>3
  <2>3. CASE Trunk!ReadWatched(r)
    <3>1. PICK rows \in {watched, {}} :
              /\ req' = [req EXCEPT ![r] = [[req[r] EXCEPT !.watched = rows] EXCEPT !.at = "system"]]
              /\ req[r].at = "rows"
      BY <2>3 DEF Trunk!ReadWatched, Trunk!Reads
    <3> DEFINE q == [[req[r] EXCEPT !.watched = rows] EXCEPT !.at = "system"]
    <3>2. rows \in SUBSET Row /\ rows \subseteq watched
      BY <1>1, <3>1
    <3>3. q \in RequestRecord
      BY <1>1, <3>2 DEF RequestRecord
    <3>4. Saw(q)
      BY <1>1, <3>1, <3>2 DEF Saw, RequestRecord
    <3>5. QED
      BY <3>1, <3>3, <3>4
  <2>4. CASE Trunk!ReadSystem(r)
    <3> DEFINE q == [[req[r] EXCEPT !.system = trunk.system] EXCEPT !.at = "follow"]
    <3>1. req' = [req EXCEPT ![r] = q] /\ req[r].at = "system"
      BY <2>4 DEF Trunk!ReadSystem, Trunk!Reads
    <3>2. q \in RequestRecord
      BY <1>1, <1>2 DEF RequestRecord
    <3>3. Saw(q)
      BY <1>1, <3>1 DEF Saw, RequestRecord
    <3>4. QED
      BY <3>1, <3>2, <3>3
  <2>5. CASE Trunk!Follow(r)
    <3> DEFINE q == [req[r] EXCEPT !.at = "log"]
    <3>1. req' = [req EXCEPT ![r] = q] /\ req[r].at = "follow"
      BY <2>5 DEF Trunk!Follow
    <3>2. q \in RequestRecord
      BY <1>1 DEF RequestRecord
    <3>3. Saw(q)
      BY <1>1, <3>1 DEF Saw, RequestRecord
    <3>4. QED
      BY <3>1, <3>2, <3>3
  <2>6. QED
    BY <2>1, <2>2, <2>3, <2>4, <2>5
<1>4. QED
  BY <1>1, <1>3, RequestKeeps

\* The calls a start logs: one for each grant that passes, after those logged.
LEMMA LogAdds ==
    ASSUME TrunkInv, NEW r \in Requests, Trunk!Log(r)
    PROVE  /\ trunk' \in Runtime /\ trunk'.only = trunk.only /\ trunk'.system = trunk.system
           /\ Len(trunk'.calls) = Len(trunk.calls) + Len(Trunk!Kept(r))
           /\ Len(trunk.calls) \in Nat /\ Len(Trunk!Kept(r)) \in Nat
           /\ \A k \in 1 .. Len(Trunk!Kept(r)) :
                 trunk'.calls[Len(trunk.calls) + k].talkgroup = Trunk!Kept(r)[k].talkgroup
<1> DEFINE kept == Trunk!Kept(r)
           at == Trunk!FollowOf(r)
           Call == [talkgroup : Talkgroups, at : Where]
           new == [k \in DOMAIN kept |-> [talkgroup |-> kept[k].talkgroup, at |-> at]]
           now == IF kept = <<>> THEN trunk.active ELSE kept[Len(kept)].talkgroup
<1>1. req[r].at = "log" /\ trunk \in Runtime
  BY DEF TrunkInv, TrunkTypes, Trunk!Log
<1>2. kept \in Seq(Grants)
  BY <1>1, KeptWanted
<1>3. at \in Where
  BY <1>1, FollowedGrant DEF Where
<1>4. trunk' = [trunk EXCEPT !.running = TRUE, !.active = now, !.calls = trunk.calls \o new]
  BY DEF Trunk!Log
<1> HIDE DEF kept, at
<1>5. Len(kept) \in Nat /\ DOMAIN kept = 1 .. Len(kept)
      /\ \A k \in 1 .. Len(kept) : kept[k].talkgroup \in Talkgroups
  <2>1. Len(kept) \in Nat /\ DOMAIN kept = 1 .. Len(kept)
    BY <1>2, LenProperties
  <2>2. \A k \in 1 .. Len(kept) : kept[k] \in Grants
    BY <1>2, ElementOfSeq
  <2>3. QED
    BY <2>1, <2>2 DEF Grants
<1>6. new \in Seq(Call) /\ Len(new) = Len(kept)
  <2>1. \A k \in 1 .. Len(kept) : [talkgroup |-> kept[k].talkgroup, at |-> at] \in Call
    BY <1>3, <1>5
  <2>2. new = [k \in 1 .. Len(kept) |-> [talkgroup |-> kept[k].talkgroup, at |-> at]]
    BY <1>5
  <2> HIDE DEF Call
  <2>3. new \in [1 .. Len(kept) -> Call]
    BY <2>1, <2>2
  <2>4. QED
    BY <1>5, <2>3
<1>7. now \in Talkgroups \cup {NotNamed}
  <2>1. CASE kept = <<>>
    BY <1>1, <2>1 DEF Runtime
  <2>2. CASE kept # <<>>
    <3>1. Len(kept) \in 1 .. Len(kept)
      BY <1>2, <1>5, <2>2, EmptySeq
    <3>2. QED
      BY <1>5, <2>2, <3>1
  <2>3. QED
    BY <2>1, <2>2
<1>8. trunk.calls \in Seq(Call)
  BY <1>1 DEF Runtime
<1> DEFINE calls == trunk.calls \o new
<1>9. /\ calls \in Seq(Call) /\ Len(calls) = Len(trunk.calls) + Len(kept)
      /\ Len(trunk.calls) \in Nat
      /\ \A k \in 1 .. Len(kept) : calls[Len(trunk.calls) + k] = new[k]
  <2>1. Len(trunk.calls) \in Nat
    BY <1>8, LenProperties
  <2> HIDE DEF new, Call
  <2>2. /\ calls \in Seq(Call) /\ Len(calls) = Len(trunk.calls) + Len(new)
        /\ \A i \in 1 .. Len(trunk.calls) + Len(new) :
              calls[i] = IF i <= Len(trunk.calls) THEN trunk.calls[i] ELSE new[i - Len(trunk.calls)]
    BY <1>6, <1>8, ConcatProperties
  <2> HIDE DEF calls
  <2>3. ASSUME NEW k \in 1 .. Len(kept) PROVE calls[Len(trunk.calls) + k] = new[k]
    <3>1. /\ Len(trunk.calls) + k \in 1 .. Len(trunk.calls) + Len(new)
          /\ ~(Len(trunk.calls) + k <= Len(trunk.calls))
          /\ (Len(trunk.calls) + k) - Len(trunk.calls) = k
      BY <1>5, <1>6, <2>1
    <3>2. QED
      BY <2>2, <3>1
  <2>4. QED
    BY <1>6, <2>1, <2>2, <2>3
<1>10. \A k \in 1 .. Len(kept) : new[k].talkgroup = kept[k].talkgroup
  BY <1>5
<1> HIDE DEF calls, now, new
<1>11. trunk' = [trunk EXCEPT !.running = TRUE, !.active = now, !.calls = calls]
  BY <1>4 DEF calls
<1>12. /\ trunk' \in Runtime /\ trunk'.calls = calls
       /\ trunk'.only = trunk.only /\ trunk'.system = trunk.system
  BY <1>1, <1>7, <1>9, <1>11 DEF Runtime
<1>13. QED
  BY <1>5, <1>9, <1>10, <1>12 DEF kept

LEMMA LogKeeps ==
    ASSUME TrunkInv, NEW r \in Requests, Trunk!Log(r)
    PROVE  TrunkInv'
<1>1. req' = [req EXCEPT ![r] = Trunk!Idle] /\ watched' = watched
  BY DEF Trunk!Log
<1>2. Saw(Trunk!Idle)
  BY DEF Saw, Trunk!Idle
<1>3. Trunk!Idle \in RequestRecord
  <2>1. <<>> \in Seq(Grants) /\ <<>> \in Seq(STRING)
    BY EmptySeq
  <2>2. QED
    BY <2>1 DEF Trunk!Idle, RequestRecord, Voice, System
<1>4. QED
  BY <1>1, <1>2, <1>3, LogAdds, RequestKeeps

LEMMA EditsKeep ==
    ASSUME TrunkInv,
           \/ \E s \in Systems, tg \in Talkgroups : Trunk!Toggle(s, tg)
           \/ \E enabled \in BOOLEAN : Trunk!WatchlistOnly(enabled)
           \/ \E s \in Systems \cup {NotNamed}, table \in VoiceTables : Trunk!Import(s, table)
           \/ Trunk!Stop
    PROVE  TrunkInv' /\ trunk'.calls = trunk.calls /\ followed' = followed
<1>1. trunk \in Runtime /\ watched \in SUBSET Row
  BY DEF TrunkInv, TrunkTypes
<1>2. PICK runtime \in Runtime, rows \in SUBSET Row :
          Trunk!Edit(runtime, rows) /\ runtime.calls = trunk.calls
  <2>1. ASSUME NEW s \in Systems, NEW tg \in Talkgroups, Trunk!Toggle(s, tg)
        PROVE  \E rows \in SUBSET Row : Trunk!Edit(trunk, rows)
    BY <1>1, <2>1 DEF Trunk!Toggle, Row
  <2>2. ASSUME NEW enabled \in BOOLEAN
        PROVE  [trunk EXCEPT !.only = enabled] \in Runtime /\ [trunk EXCEPT !.only = enabled].calls = trunk.calls
    BY <1>1 DEF Runtime
  <2>3. ASSUME NEW s \in System, NEW table \in VoiceTables
        PROVE  /\ [trunk EXCEPT !.system = s, !.voice = table] \in Runtime
               /\ [trunk EXCEPT !.system = s, !.voice = table].calls = trunk.calls
    BY <1>1 DEF Runtime, Voice
  <2>4. /\ [trunk EXCEPT !.running = FALSE, !.active = NotNamed] \in Runtime
        /\ [trunk EXCEPT !.running = FALSE, !.active = NotNamed].calls = trunk.calls
    BY <1>1 DEF Runtime
  <2>5. CASE \E s \in Systems, tg \in Talkgroups : Trunk!Toggle(s, tg)
    BY <1>1, <2>1, <2>5
  <2>6. CASE \E enabled \in BOOLEAN : Trunk!WatchlistOnly(enabled)
    BY <1>1, <2>2, <2>6 DEF Trunk!WatchlistOnly
  <2>7. CASE \E s \in Systems \cup {NotNamed}, table \in VoiceTables : Trunk!Import(s, table)
    BY <1>1, <2>3, <2>7, Zenon DEF Trunk!Import, System
  <2>8. CASE Trunk!Stop
    BY <1>1, <2>4, <2>8 DEF Trunk!Stop
  <2>9. QED
    BY <2>5, <2>6, <2>7, <2>8
<1>3. TrunkInv'
  BY <1>2, SeeingKeeps
<1>4. QED
  BY <1>2, <1>3 DEF Trunk!Edit

LEMMA TrunkStepKeeps ==
    ASSUME TrunkInv, Trunk!TrunkNext
    PROVE  TrunkInv' /\ Trunk!StepFollowsWanted
<1>1. ASSUME trunk'.calls = trunk.calls, followed' = followed
      PROVE  Trunk!StepFollowsWanted
  <2>1. Len(trunk.calls) \in Nat
    BY LenProperties DEF TrunkInv, TrunkTypes, Runtime
  <2>2. QED
    BY <1>1, <2>1 DEF Trunk!StepFollowsWanted
<1>2. CASE \E r \in Requests : Trunk!Observe(r)
  <2>1. TrunkInv'
    BY <1>2, ObserveKeeps
  <2>2. trunk' = trunk /\ followed' = followed
    BY <1>2 DEF Trunk!Observe
  <2>3. QED
    BY <1>1, <2>1, <2>2
<1>3. CASE \E r \in Requests : \/ Trunk!ReadVoice(r) \/ Trunk!ReadOnly(r)
                               \/ Trunk!ReadWatched(r) \/ Trunk!ReadSystem(r)
  <2>1. TrunkInv'
    BY <1>3, ReadsKeep
  <2>2. ASSUME NEW r \in Requests, NEW from, NEW to, NEW what, Trunk!Reads(r, from, to, what)
        PROVE  trunk' = trunk /\ followed' = followed
    BY <2>2 DEF Trunk!Reads
  <2>3. trunk' = trunk /\ followed' = followed
    BY <1>3, <2>2 DEF Trunk!ReadVoice, Trunk!ReadOnly, Trunk!ReadWatched, Trunk!ReadSystem
  <2>4. QED
    BY <1>1, <2>1, <2>3
<1>4. ASSUME NEW r \in Requests, Trunk!Follow(r) PROVE TrunkInv' /\ Trunk!StepFollowsWanted
  <2>1. /\ req[r].at = "follow" /\ req' = [req EXCEPT ![r].at = "log"] /\ trunk' = trunk
        /\ followed' = IF Trunk!FollowOf(r) = <<>> THEN followed ELSE Trunk!FollowOf(r)
    BY <1>4 DEF Trunk!Follow, Trunk!Nowhere
  <2>2. req'[r].at = "log"
    BY <2>1 DEF TrunkInv, TrunkTypes, RequestRecord
  <2>3. Len(trunk.calls) \in Nat
    BY LenProperties DEF TrunkInv, TrunkTypes, Runtime
  <2>4. ASSUME followed' # followed
        PROVE  \E grant \in {req[r].observation.grants[k] :
                                k \in DOMAIN req[r].observation.grants} :
                   /\ Trunk!Wanted(r, grant.talkgroup)
                   /\ followed' \in {<<req[r].observation.idens[k], grant.channel>> :
                                       k \in DOMAIN req[r].observation.idens}
                                    \cup {<<table[grant.channel + 1]>> :
                                            table \in {t \in VoiceTables :
                                                         grant.channel < Len(t)}}
    <3>1. Trunk!FollowOf(r) # <<>> /\ followed' = Trunk!FollowOf(r)
      BY <2>1, <2>4
    <3> DEFINE kept == Trunk!Kept(r)
    <3>2. kept \in Seq(Grants) /\ kept # <<>>
      BY <2>1, <3>1, KeptWanted, FollowedGrant
    <3>3. Head(kept) = kept[1] /\ 1 \in 1 .. Len(kept)
      BY <3>2, HeadTailProperties, EmptySeq, LenProperties
    <3>4. /\ Trunk!Wanted(r, Head(kept).talkgroup)
          /\ \E j \in DOMAIN req[r].observation.grants : Head(kept) = req[r].observation.grants[j]
      BY <2>1, <3>3, KeptWanted
    <3>5. \/ followed' \in {<<req[r].observation.idens[k], Head(kept).channel>> :
                              k \in DOMAIN req[r].observation.idens}
          \/ followed' \in {<<table[Head(kept).channel + 1]>> :
                              table \in {t \in VoiceTables : Head(kept).channel < Len(t)}}
      BY <2>1, <3>1, FollowedGrant
    <3> HIDE DEF kept
    <3>6. QED
      BY <3>4, <3>5
  <2>5. Trunk!StepFollowsWanted
    BY <2>1, <2>2, <2>3, <2>4 DEF Trunk!StepFollowsWanted
  <2>6. QED
    BY <1>4, <2>5, ReadsKeep
<1>5. ASSUME NEW r \in Requests, Trunk!Log(r) PROVE TrunkInv' /\ Trunk!StepFollowsWanted
  <2>1. req[r].at = "log" /\ followed' = followed /\ req'[r].at = "idle"
    BY <1>5 DEF TrunkInv, TrunkTypes, Trunk!Log, Trunk!Idle
  <2>2. ASSUME NEW k \in Len(trunk.calls) + 1 .. Len(trunk'.calls)
        PROVE  Trunk!Wanted(r, trunk'.calls[k].talkgroup)
    <3> DEFINE m == k - Len(trunk.calls)
    <3>1. /\ Len(trunk'.calls) = Len(trunk.calls) + Len(Trunk!Kept(r))
          /\ Len(trunk.calls) \in Nat /\ Len(Trunk!Kept(r)) \in Nat
          /\ \A i \in 1 .. Len(Trunk!Kept(r)) :
                trunk'.calls[Len(trunk.calls) + i].talkgroup = Trunk!Kept(r)[i].talkgroup
      BY <1>5, LogAdds
    <3>2. m \in 1 .. Len(Trunk!Kept(r)) /\ k = Len(trunk.calls) + m
      BY <3>1
    <3> HIDE DEF m
    <3>3. trunk'.calls[k].talkgroup = Trunk!Kept(r)[m].talkgroup
      BY <3>1, <3>2
    <3>4. Trunk!Wanted(r, Trunk!Kept(r)[m].talkgroup)
      BY <2>1, <3>2, KeptWanted
    <3>5. QED
      BY <3>3, <3>4
  <2>3. Trunk!StepFollowsWanted
    BY <2>1, <2>2 DEF Trunk!StepFollowsWanted
  <2>4. QED
    BY <1>5, <2>3, LogKeeps
<1>6. CASE \/ \E s \in Systems, tg \in Talkgroups : Trunk!Toggle(s, tg)
           \/ \E enabled \in BOOLEAN : Trunk!WatchlistOnly(enabled)
           \/ \E s \in Systems \cup {NotNamed}, table \in VoiceTables : Trunk!Import(s, table)
           \/ Trunk!Stop
  BY <1>1, <1>6, EditsKeep
<1>7. QED
  BY <1>2, <1>3, <1>4, <1>5, <1>6 DEF Trunk!TrunkNext

\* However the watch list, the switch and the system change while starts are
\* under way: what a start follows and logs was let through at some moment of it,
\* and it retunes to where the first of them was granted.
THEOREM StartsFollowWatched == Spec => OnlyWatchedFollowed
<1> DEFINE Inv == scene = "trunking" => TrunkInv
<1>1. Init => Inv
  BY TrunkInitial DEF Init
<1>2. Inv /\ [Next]_vars => Inv'
  <2> SUFFICES ASSUME Inv, [Next]_vars PROVE Inv'
    OBVIOUS
  <2>1. CASE TrunkStep
    BY <2>1, TrunkStepKeeps DEF TrunkStep
  <2>2. CASE BandsStep \/ WindowsStep \/ FeedStep \/ RecStep \/ InstallStep \/ SoundStep
    BY <2>2 DEF BandsStep, WindowsStep, FeedStep, RecStep, InstallStep, SoundStep
  <2>3. CASE UNCHANGED vars
    BY <2>3 DEF vars, trunkingVars, TrunkInv, TrunkTypes, Saw
  <2>4. QED
    BY <2>1, <2>2, <2>3 DEF Next
<1>3. Inv /\ [Next]_vars => [scene = "trunking" => Trunk!StepFollowsWanted]_vars
  <2> SUFFICES ASSUME Inv, Next, scene = "trunking" PROVE Trunk!StepFollowsWanted
    OBVIOUS
  <2>1. TrunkStep
    BY DEF Next, BandsStep, WindowsStep, FeedStep, RecStep, InstallStep, SoundStep
  <2>2. QED
    BY <2>1, TrunkStepKeeps DEF TrunkStep
<1>4. QED
  BY <1>1, <1>2, <1>3, PTL DEF Spec, OnlyWatchedFollowed

----------------------------------------------------------------------------
(* The banks an operator edits *)

Named(list, name) == \E i \in 1 .. Len(list) : list[i].name = name
First(list, name, bank) ==
    \E i \in 1 .. Len(list) :
        list[i] = bank /\ bank.name = name /\ \A j \in 1 .. i - 1 : list[j].name # name

\* What the operator made of a bank is the first bank of its name; one that was
\* deleted is gone, or is a shipped one.
Lasts(name, what, list) ==
    IF what # Bands!NoBand THEN First(list, name, what)
    ELSE Named(Shipped, name) \/ ~Named(list, name)

BankInv ==
    /\ ranges \in Seq(BankType) /\ bandsDisk \in Seq(BankType)
    /\ \A name \in DOMAIN wish : Lasts(name, wish[name], ranges) /\ Lasts(name, wish[name], bandsDisk)

LEMMA BankIsSome == ASSUME NEW b \in BankType PROVE b # Bands!NoBand
<1>1. "start" \in DOMAIN b
  BY DEF BankType
<1>2. "start" \notin DOMAIN Bands!NoBand
  BY DEF Bands!NoBand
<1>3. QED
  BY <1>1, <1>2

LEMMA NamesOf ==
    ASSUME NEW S, NEW list \in Seq(S), NEW name
    PROVE  name \in Bands!Names(list) <=> Named(list, name)
  BY LenProperties DEF Bands!Names, Named

\* The bank of a name is the first one.
LEMMA FirstOfName ==
    ASSUME NEW S, NEW list \in Seq(S), NEW name, NEW i \in 1 .. Len(list),
           list[i].name = name, \A j \in 1 .. i - 1 : list[j].name # name
    PROVE  Bands!FirstOf(list, name) = i
<1>1. Len(list) \in Nat /\ DOMAIN list = 1 .. Len(list)
  BY LenProperties
<1> DEFINE at == {k \in DOMAIN list : list[k].name = name}
           first == CHOOSE k \in at : \A j \in at : k <= j
<1>2. i \in at /\ \A j \in at : i <= j
  BY <1>1
<1>3. first \in at /\ \A j \in at : first <= j
  <2> HIDE DEF at
  <2>1. QED
    BY <1>2
<1>4. first = i
  <2>1. first <= i /\ i <= first
    BY <1>2, <1>3
  <2>2. first \in Int /\ i \in Int
    BY <1>1, <1>3
  <2> HIDE DEF first
  <2>3. QED
    BY <2>1, <2>2
<1>5. QED
  BY <1>4 DEF Bands!FirstOf

\* A bank that is the first of its name is the one looked up.
LEMMA FirstIsNamed ==
    ASSUME NEW S, NEW list \in Seq(S), NEW name, NEW bank, First(list, name, bank)
    PROVE  Named(list, name) /\ Bands!BandNamed(list, name) = bank
<1>1. PICK i \in 1 .. Len(list) :
          list[i] = bank /\ bank.name = name /\ \A j \in 1 .. i - 1 : list[j].name # name
  BY DEF First
<1>2. Bands!FirstOf(list, name) = i
  BY <1>1, FirstOfName
<1>3. QED
  BY <1>1, <1>2 DEF Bands!BandNamed, Named

\* A name that some bank has is looked up at the first of them.
LEMMA HasFirst ==
    ASSUME NEW S, NEW list \in Seq(S), NEW name, Named(list, name)
    PROVE  LET i == Bands!FirstOf(list, name)
           IN  /\ i \in 1 .. Len(list) /\ list[i].name = name
               /\ \A j \in 1 .. i - 1 : list[j].name # name
               /\ list[i] \in S
<1>1. Len(list) \in Nat
  BY LenProperties
<1> DEFINE at == {k \in 1 .. Len(list) : list[k].name = name}
<1>2. PICK i \in at : \A j \in at : i <= j
  <2>1. at \subseteq Nat /\ at # {}
    BY <1>1 DEF Named
  <2> HIDE DEF at
  <2>2. QED
    BY <2>1, LeastPlace
<1>3. i \in 1 .. Len(list) /\ list[i].name = name /\ \A j \in 1 .. i - 1 : list[j].name # name
  BY <1>1, <1>2
<1>4. Bands!FirstOf(list, name) = i
  BY <1>3, FirstOfName
<1>5. list[i] \in S
  BY <1>3, ElementOfSeq
<1>6. QED
  BY <1>3, <1>4, <1>5

LEMMA WithoutOne ==
    ASSUME NEW S, NEW list \in Seq(S), NEW gone
    PROVE  /\ Bands!Without(list, gone) \in Seq(S)
           /\ ~Named(Bands!Without(list, gone), gone)
           /\ \A name, bank : name # gone /\ First(list, name, bank)
                                => First(Bands!Without(list, gone), name, bank)
           /\ \A name : ~Named(list, name) => ~Named(Bands!Without(list, gone), name)
<1> DEFINE at == {i \in DOMAIN list : list[i].name # gone}
           p == Picked(list, at)
<1>1. Bands!Without(list, gone) = p
  BY DEF Bands!Without, Bands!Picked, Picked
<1>2. Len(list) \in Nat /\ DOMAIN list = 1 .. Len(list)
  BY LenProperties
<1>3. \A i \in 1 .. Len(list) : i \in at <=> list[i].name # gone
  BY <1>2
<1> HIDE DEF at
<1>4. /\ p \in Seq(S)
      /\ \A m \in 1 .. Len(p) : \E j \in 1 .. Len(list) : j \in at /\ p[m] = list[j]
      /\ \A i \in 1 .. Len(list) : i \in at =>
            \E m \in 1 .. Len(p) :
                /\ p[m] = list[i]
                /\ \A l \in 1 .. m - 1 : \E j \in 1 .. i - 1 : j \in at /\ p[l] = list[j]
  BY PickedElements
<1> HIDE DEF p
<1>5. ~Named(p, gone)
  <2>1. \A m \in 1 .. Len(p) : p[m].name # gone
    BY <1>3, <1>4
  <2>2. QED
    BY <2>1 DEF Named
<1>6. ASSUME NEW name, NEW bank, name # gone, First(list, name, bank) PROVE First(p, name, bank)
  <2>1. PICK i \in 1 .. Len(list) :
            list[i] = bank /\ bank.name = name /\ \A j \in 1 .. i - 1 : list[j].name # name
    BY <1>6 DEF First
  <2>2. i \in at
    BY <1>3, <1>6, <2>1
  <2>3. PICK m \in 1 .. Len(p) :
                /\ p[m] = list[i]
                /\ \A l \in 1 .. m - 1 : \E j \in 1 .. i - 1 : j \in at /\ p[l] = list[j]
    BY <1>4, <2>2
  <2>4. \A l \in 1 .. m - 1 : p[l].name # name
    BY <2>1, <2>3
  <2>5. QED
    BY <2>1, <2>3, <2>4 DEF First
<1>7. \A name : ~Named(list, name) => ~Named(p, name)
  BY <1>4 DEF Named
<1>8. QED
  BY <1>1, <1>4, <1>5, <1>6, <1>7

LEMMA AtTheEnd ==
    ASSUME NEW S, NEW list \in Seq(S), NEW more \in Seq(S)
    PROVE  /\ list \o more \in Seq(S)
           /\ \A name, bank : First(list, name, bank) => First(list \o more, name, bank)
           /\ \A name, bank : ~Named(list, name) /\ First(more, name, bank)
                                => First(list \o more, name, bank)
           /\ \A name : Named(list \o more, name) => Named(list, name) \/ Named(more, name)
<1> DEFINE all == list \o more
<1>1. /\ Len(list) \in Nat /\ Len(more) \in Nat
      /\ all \in Seq(S) /\ Len(all) = Len(list) + Len(more)
      /\ \A i \in 1 .. Len(list) + Len(more) :
            all[i] = IF i <= Len(list) THEN list[i] ELSE more[i - Len(list)]
  BY LenProperties, ConcatProperties
<1> HIDE DEF all
<1>2. \A i \in 1 .. Len(list) : i \in 1 .. Len(all) /\ all[i] = list[i]
  BY <1>1
<1>3. \A i \in 1 .. Len(more) : Len(list) + i \in 1 .. Len(all) /\ all[Len(list) + i] = more[i]
  <2> SUFFICES ASSUME NEW i \in 1 .. Len(more)
               PROVE  Len(list) + i \in 1 .. Len(all) /\ all[Len(list) + i] = more[i]
    OBVIOUS
  <2>1. /\ Len(list) + i \in 1 .. Len(list) + Len(more)
        /\ ~(Len(list) + i <= Len(list)) /\ (Len(list) + i) - Len(list) = i
    BY <1>1
  <2>2. QED
    BY <1>1, <2>1
<1>4. ASSUME NEW name, NEW bank, First(list, name, bank) PROVE First(all, name, bank)
  <2>1. PICK i \in 1 .. Len(list) :
            list[i] = bank /\ bank.name = name /\ \A j \in 1 .. i - 1 : list[j].name # name
    BY <1>4 DEF First
  <2>2. i \in 1 .. Len(all) /\ all[i] = bank
    BY <1>2, <2>1
  <2>3. \A j \in 1 .. i - 1 : all[j].name # name
    BY <1>1, <1>2, <2>1
  <2>4. QED
    BY <2>1, <2>2, <2>3 DEF First
<1>5. ASSUME NEW name, NEW bank, ~Named(list, name), First(more, name, bank)
      PROVE  First(all, name, bank)
  <2>1. PICK i \in 1 .. Len(more) :
            more[i] = bank /\ bank.name = name /\ \A j \in 1 .. i - 1 : more[j].name # name
    BY <1>5 DEF First
  <2>2. Len(list) + i \in 1 .. Len(all) /\ all[Len(list) + i] = bank
    BY <1>3, <2>1
  <2>3. ASSUME NEW j \in 1 .. (Len(list) + i) - 1 PROVE all[j].name # name
    <3>1. CASE j <= Len(list)
      BY <1>1, <1>2, <1>5, <3>1 DEF Named
    <3>2. CASE ~(j <= Len(list))
      <4>1. j - Len(list) \in 1 .. i - 1 /\ j \in 1 .. Len(list) + Len(more)
        BY <1>1, <2>1, <3>2
      <4>2. all[j] = more[j - Len(list)]
        BY <1>1, <3>2, <4>1
      <4>3. QED
        BY <2>1, <4>1, <4>2
    <3>3. QED
      BY <3>1, <3>2
  <2>4. QED
    BY <2>1, <2>2, <2>3 DEF First
<1>6. ASSUME NEW name, Named(all, name) PROVE Named(list, name) \/ Named(more, name)
  <2>1. PICK i \in 1 .. Len(list) + Len(more) : all[i].name = name
    BY <1>1, <1>6 DEF Named
  <2>2. CASE i <= Len(list)
    BY <1>1, <2>1, <2>2 DEF Named
  <2>3. CASE ~(i <= Len(list))
    <3>1. i - Len(list) \in 1 .. Len(more) /\ all[i] = more[i - Len(list)]
      BY <1>1, <2>3
    <3>2. QED
      BY <2>1, <3>1 DEF Named
  <2>4. QED
    BY <2>2, <2>3
<1>7. QED
  BY <1>1, <1>4, <1>5, <1>6 DEF all

\* A bank created replaces those of its name and leaves the others.
LEMMA CreatedOne ==
    ASSUME NEW S, NEW list \in Seq(S), NEW b \in S
    PROVE  /\ Bands!Created(list, b) \in Seq(S)
           /\ First(Bands!Created(list, b), b.name, b)
           /\ \A name, bank : name # b.name /\ First(list, name, bank)
                                => First(Bands!Created(list, b), name, bank)
           /\ \A name : name # b.name /\ ~Named(list, name) => ~Named(Bands!Created(list, b), name)
<1> DEFINE rest == Bands!Without(list, b.name)
           one == <<b>>
<1>1. rest \in Seq(S)
  BY WithoutOne
<1>2. one \in Seq(S) /\ Len(one) = 1 /\ one[1] = b
  OBVIOUS
<1>3. Bands!Created(list, b) = rest \o one
  <2> HIDE DEF rest
  <2>1. Append(rest, b) = rest \o one
    BY <1>1
  <2>2. Bands!Created(list, b) = Append(rest, b)
    BY DEF Bands!Created, rest
  <2>3. QED
    BY <2>1, <2>2
<1> HIDE DEF one
<1>4. First(one, b.name, b) /\ \A name : Named(one, name) => name = b.name
  BY <1>2 DEF First, Named
<1>5. /\ ~Named(rest, b.name)
      /\ \A name, bank : name # b.name /\ First(list, name, bank) => First(rest, name, bank)
      /\ \A name : ~Named(list, name) => ~Named(rest, name)
  BY WithoutOne
<1> HIDE DEF rest
<1>6. QED
  BY <1>1, <1>2, <1>3, <1>4, <1>5, AtTheEnd

LEMMA MergedOne ==
    ASSUME NEW S, NEW saved \in Seq(S), NEW shipped \in Seq(S)
    PROVE  /\ Bands!Merged(saved, shipped) \in Seq(S)
           /\ \A name, bank : First(saved, name, bank)
                                => First(Bands!Merged(saved, shipped), name, bank)
           /\ \A name : ~Named(saved, name) /\ ~Named(shipped, name)
                          => ~Named(Bands!Merged(saved, shipped), name)
<1> DEFINE at == {i \in DOMAIN shipped : shipped[i].name \notin Bands!Names(saved)}
           p == Picked(shipped, at)
<1>1. Bands!Merged(saved, shipped) = saved \o p
  BY DEF Bands!Merged, Bands!Picked, Picked
<1> HIDE DEF at
<1>2. /\ p \in Seq(S)
      /\ \A m \in 1 .. Len(p) : \E j \in 1 .. Len(shipped) : j \in at /\ p[m] = shipped[j]
  BY PickedElements
<1> HIDE DEF p
<1>3. \A name : Named(p, name) => Named(shipped, name)
  BY <1>2 DEF Named
<1>4. QED
  BY <1>1, <1>2, <1>3, AtTheEnd

LEMMA ImportedTwo ==
    ASSUME NEW list, NEW a, NEW b
    PROVE  Bands!Imported(list, <<a, b>>) = Bands!Created(Bands!Created(list, a), b)
<1> DEFINE bands == <<a, b>>
           Grows(f) == [n \in 0 .. Len(bands) |->
                          IF n = 0 THEN list ELSE Bands!Created(f[n - 1], bands[n])]
           g == [n \in 0 .. 2 |-> IF n = 0 THEN list ELSE IF n = 1 THEN Bands!Created(list, a)
                                  ELSE Bands!Created(Bands!Created(list, a), b)]
           k == CHOOSE f : f = Grows(f)
<1>1. Len(bands) = 2 /\ bands[1] = a /\ bands[2] = b
  OBVIOUS
<1>2. Bands!Imported(list, bands) = k[Len(bands)]
  BY DEF Bands!Imported
<1> HIDE DEF bands
<1>3. g = Grows(g)
  <2>1. g[0] = list /\ g[1] = Bands!Created(list, a) /\ g[2] = Bands!Created(Bands!Created(list, a), b)
    OBVIOUS
  <2>2. ASSUME NEW n \in 0 .. 2
        PROVE  g[n] = IF n = 0 THEN list ELSE Bands!Created(g[n - 1], bands[n])
    <3>1. n = 0 \/ n = 1 \/ n = 2
      OBVIOUS
    <3> HIDE DEF g
    <3>2. QED
      BY <1>1, <2>1, <3>1
  <2>3. g = [n \in 0 .. 2 |-> g[n]]
    OBVIOUS
  <2> HIDE DEF g
  <2>4. QED
    BY <1>1, <2>2, <2>3
<1>4. k = Grows(k)
  <2> HIDE DEF g, Grows
  <2>1. QED
    BY <1>3
<1>5. k[0] = list /\ k[1] = Bands!Created(k[0], a) /\ k[2] = Bands!Created(k[1], b)
  <2> HIDE DEF k
  <2>1. QED
    BY <1>1, <1>4
<1>6. QED
  <2> HIDE DEF k
  <2>1. QED
    BY <1>1, <1>2, <1>5 DEF bands

LEMMA BankInitial == Bands!BandInit => BankInv
<1> SUFFICES ASSUME Bands!BandInit PROVE BankInv
  OBVIOUS
<1>1. bandsDisk \in Seq(BankType) /\ ranges = Bands!Merged(bandsDisk, Shipped)
  BY InputsAssumption DEF Bands!BandInit
<1>2. ranges \in Seq(BankType)
  BY <1>1, MergedOne, InputsAssumption
<1>3. DOMAIN wish = {}
  BY DEF Bands!BandInit
<1>4. QED
  BY <1>1, <1>2, <1>3 DEF BankInv

\* An edit that makes of some banks what the operator asked for and leaves the
\* others.
LEMMA EditKeeps ==
    ASSUME BankInv, NEW list \in Seq(BankType), NEW edit,
           Bands!Edited(list, Bands!Wishing(edit)),
           \A name \in DOMAIN edit : Lasts(name, edit[name], list),
           \A name : name \notin DOMAIN edit =>
              /\ \A bank : First(ranges, name, bank) => First(list, name, bank)
              /\ ~Named(ranges, name) => ~Named(list, name)
    PROVE  BankInv'
<1>1. /\ ranges' = list /\ bandsDisk' = list
      /\ wish' = [name \in DOMAIN wish \cup DOMAIN edit |->
                     IF name \in DOMAIN edit THEN edit[name] ELSE wish[name]]
  BY DEF Bands!Edited, Bands!Wishing
<1>2. ASSUME NEW name \in DOMAIN wish' PROVE Lasts(name, wish'[name], list)
  <2>1. CASE name \in DOMAIN edit
    BY <1>1, <2>1
  <2>2. CASE name \notin DOMAIN edit
    <3>1. name \in DOMAIN wish /\ wish'[name] = wish[name]
      BY <1>1, <2>2
    <3>2. Lasts(name, wish[name], ranges)
      BY <3>1 DEF BankInv
    <3>3. Lasts(name, wish[name], list)
      BY <2>2, <3>2 DEF Lasts
    <3>4. QED
      BY <3>1, <3>3
  <2>3. QED
    BY <2>1, <2>2
<1>3. ranges' \in Seq(BankType) /\ bandsDisk' \in Seq(BankType)
  BY <1>1
<1>4. \A name \in DOMAIN wish' :
         Lasts(name, wish'[name], ranges') /\ Lasts(name, wish'[name], bandsDisk')
  BY <1>1, <1>2
<1>5. QED
  BY <1>3, <1>4 DEF BankInv

LEMMA CreateBankKeeps ==
    ASSUME BankInv, NEW b \in Written, Bands!CreateBank(b) PROVE BankInv'
<1> DEFINE edit == [name \in {b.name} |-> b]
<1>1. b \in BankType /\ ranges \in Seq(BankType)
  BY InputsAssumption DEF BankInv
<1>2. Bands!Edited(Bands!Created(ranges, b), Bands!Wishing(edit))
  BY DEF Bands!CreateBank
<1>3. DOMAIN edit = {b.name} /\ edit[b.name] = b
  OBVIOUS
<1> HIDE DEF edit
<1>4. \A name \in DOMAIN edit : Lasts(name, edit[name], Bands!Created(ranges, b))
  BY <1>1, <1>3, BankIsSome, CreatedOne DEF Lasts
<1>5. QED
  BY <1>1, <1>2, <1>3, <1>4, CreatedOne, EditKeeps

\* Of two banks imported, the second stays, and the first unless it has its name.
LEMMA ImportBanksKeeps ==
    ASSUME BankInv, NEW a \in Written, NEW b \in Written, Bands!ImportBanks(<<a, b>>)
    PROVE  BankInv'
<1> DEFINE bands == <<a, b>>
           late(name) == CHOOSE i \in DOMAIN bands :
                            /\ bands[i].name = name
                            /\ \A j \in DOMAIN bands : bands[j].name = name => j <= i
           edit == [name \in Bands!Names(bands) |-> bands[late(name)]]
           list == Bands!Created(ranges, a)
           both == Bands!Created(list, b)
<1>1. a \in BankType /\ b \in BankType /\ ranges \in Seq(BankType)
  BY InputsAssumption DEF BankInv
<1>2. DOMAIN bands = {1, 2} /\ bands[1] = a /\ bands[2] = b
  OBVIOUS
<1>3. Bands!Edited(both, Bands!Wishing(edit))
  BY <1>1, ImportedTwo DEF Bands!ImportBanks
<1>4. Bands!Names(bands) = {a.name, b.name}
  BY <1>2 DEF Bands!Names
<1> HIDE DEF bands
<1>5. late(b.name) = 2 /\ (a.name # b.name => late(a.name) = 1)
  BY <1>2
<1>6. /\ DOMAIN edit = {a.name, b.name} /\ edit[b.name] = b
      /\ a.name # b.name => edit[a.name] = a
  <2> HIDE DEF late
  <2>1. QED
    BY <1>2, <1>4, <1>5
<1>7. /\ both \in Seq(BankType) /\ First(both, b.name, b)
      /\ a.name # b.name => First(both, a.name, a)
      /\ \A name : name \notin {a.name, b.name} =>
            /\ \A bank : First(ranges, name, bank) => First(both, name, bank)
            /\ ~Named(ranges, name) => ~Named(both, name)
  <2>1. /\ list \in Seq(BankType) /\ First(list, a.name, a)
        /\ \A name, bank : name # a.name /\ First(ranges, name, bank) => First(list, name, bank)
        /\ \A name : name # a.name /\ ~Named(ranges, name) => ~Named(list, name)
    BY <1>1, CreatedOne
  <2> HIDE DEF list
  <2>2. /\ both \in Seq(BankType) /\ First(both, b.name, b)
        /\ \A name, bank : name # b.name /\ First(list, name, bank) => First(both, name, bank)
        /\ \A name : name # b.name /\ ~Named(list, name) => ~Named(both, name)
    BY <1>1, <2>1, CreatedOne
  <2> HIDE DEF both
  <2>3. QED
    BY <2>1, <2>2
<1> HIDE DEF edit, both
<1>8. \A name \in DOMAIN edit : Lasts(name, edit[name], both)
  BY <1>1, <1>6, <1>7, BankIsSome DEF Lasts
<1>9. QED
  BY <1>3, <1>6, <1>7, <1>8, EditKeeps

LEMMA DeleteBankKeeps ==
    ASSUME BankInv, NEW gone \in Touched, Bands!DeleteBank(gone) PROVE BankInv'
<1> DEFINE edit == [n \in {gone} |-> Bands!NoBand]
<1>1. ranges \in Seq(BankType)
  BY DEF BankInv
<1>2. Bands!Edited(Bands!Without(ranges, gone), Bands!Wishing(edit))
  BY DEF Bands!DeleteBank
<1>3. DOMAIN edit = {gone} /\ edit[gone] = Bands!NoBand
  OBVIOUS
<1> HIDE DEF edit
<1>4. \A name \in DOMAIN edit : Lasts(name, edit[name], Bands!Without(ranges, gone))
  BY <1>1, <1>3, WithoutOne DEF Lasts
<1>5. QED
  BY <1>1, <1>2, <1>3, <1>4, WithoutOne, EditKeeps

LEMMA EnableBankKeeps ==
    ASSUME BankInv, NEW name \in Touched, NEW on \in BOOLEAN, Bands!EnableBank(name, on)
    PROVE  BankInv'
<1> DEFINE i == Bands!FirstOf(ranges, name)
           new == [ranges[i] EXCEPT !.enabled = on]
           edit == [n \in {name} |-> new]
           list == Bands!SetEnabled(ranges, name, on)
<1>1. ranges \in Seq(BankType) /\ Len(ranges) \in Nat /\ DOMAIN ranges = 1 .. Len(ranges)
  BY LenProperties DEF BankInv
<1>2. Bands!Edited(list, Bands!Wishing(edit)) /\ Named(ranges, name)
  BY <1>1, NamesOf DEF Bands!EnableBank, Bands!BandNamed
<1>3. list = [ranges EXCEPT ![i] = new]
  BY DEF Bands!SetEnabled
<1>4. /\ i \in 1 .. Len(ranges) /\ ranges[i].name = name /\ ranges[i] \in BankType
      /\ \A j \in 1 .. i - 1 : ranges[j].name # name
  BY <1>1, <1>2, HasFirst
<1>5. new \in BankType /\ new.name = name
  BY <1>4 DEF BankType
<1> HIDE DEF i, new, list
<1>6. /\ list \in Seq(BankType) /\ Len(list) = Len(ranges) /\ list[i] = new
      /\ \A j \in 1 .. Len(ranges) : j # i => list[j] = ranges[j]
  BY <1>1, <1>3, <1>4, <1>5
<1>7. \A j \in 1 .. Len(ranges) : list[j].name = ranges[j].name
  BY <1>4, <1>5, <1>6
<1>8. \A k \in 1 .. Len(ranges) : \A j \in 1 .. k - 1 : list[j].name = ranges[j].name
  <2>1. \A k \in 1 .. Len(ranges) : \A j \in 1 .. k - 1 : j \in 1 .. Len(ranges)
    BY <1>1
  <2>2. QED
    BY <1>7, <2>1
<1>9. First(list, name, new)
  <2>1. \A j \in 1 .. i - 1 : list[j].name # name
    BY <1>4, <1>8
  <2>2. QED
    BY <1>4, <1>5, <1>6, <2>1 DEF First
<1>10. ASSUME NEW other, other # name
       PROVE  /\ \A bank : First(ranges, other, bank) => First(list, other, bank)
              /\ ~Named(ranges, other) => ~Named(list, other)
  <2>1. ASSUME NEW bank, First(ranges, other, bank) PROVE First(list, other, bank)
    <3>1. PICK k \in 1 .. Len(ranges) :
            ranges[k] = bank /\ bank.name = other /\ \A j \in 1 .. k - 1 : ranges[j].name # other
      BY <2>1 DEF First
    <3>2. list[k] = bank
      BY <1>4, <1>6, <1>10, <3>1
    <3>3. \A j \in 1 .. k - 1 : list[j].name # other
      BY <1>8, <3>1
    <3>4. QED
      BY <1>6, <3>1, <3>2, <3>3 DEF First
  <2>2. ~Named(ranges, other) => ~Named(list, other)
    BY <1>6, <1>7 DEF Named
  <2>3. QED
    BY <2>1, <2>2
<1>11. DOMAIN edit = {name} /\ edit[name] = new
  OBVIOUS
<1> HIDE DEF edit
<1>12. \A n \in DOMAIN edit : Lasts(n, edit[n], list)
  BY <1>5, <1>9, <1>11, BankIsSome DEF Lasts
<1>13. QED
  BY <1>2, <1>6, <1>10, <1>11, <1>12, EditKeeps

LEMMA BootKeeps == ASSUME BankInv, Bands!Restart PROVE BankInv'
<1>1. /\ ranges' = Bands!Merged(bandsDisk, Shipped) /\ bandsDisk' = bandsDisk /\ wish' = wish
      /\ bandsDisk \in Seq(BankType) /\ Shipped \in Seq(BankType)
  BY InputsAssumption DEF Bands!Restart, BankInv
<1> DEFINE list == Bands!Merged(bandsDisk, Shipped)
<1>2. /\ list \in Seq(BankType)
      /\ \A name, bank : First(bandsDisk, name, bank) => First(list, name, bank)
      /\ \A name : ~Named(bandsDisk, name) /\ ~Named(Shipped, name) => ~Named(list, name)
  BY <1>1, MergedOne
<1> HIDE DEF list
<1>3. \A name \in DOMAIN wish : Lasts(name, wish[name], list) /\ Lasts(name, wish[name], bandsDisk)
  BY <1>2 DEF BankInv, Lasts
<1>4. ranges' = list
  BY <1>1 DEF list
<1>5. QED
  BY <1>1, <1>2, <1>3, <1>4 DEF BankInv, Lasts, First, Named, Bands!NoBand

LEMMA BandStepKeeps == ASSUME BankInv, Bands!BandNext PROVE BankInv'
<1>1. ASSUME ranges' = ranges, bandsDisk' = bandsDisk, wish' = wish PROVE BankInv'
  BY <1>1 DEF BankInv, Lasts, First, Named, Bands!NoBand
<1>2. CASE \E c \in Clients, f \in Points :
              \/ Bands!TuneReceiver(c, f) \/ Bands!TuneDevice(c, f) \/ Bands!PlaceVfoOutside(c, f)
              \/ Bands!PlaceVfoInside(c, f)
  BY <1>1, <1>2
  DEF Bands!TuneReceiver, Bands!TuneDevice, Bands!PlaceVfoOutside, Bands!PlaceVfoInside,
      Bands!Tunes, Bands!config
<1>3. CASE \E c \in Clients : Bands!ChooseBank(c) \/ Bands!SendFollow(c)
  BY <1>1, <1>3 DEF Bands!ChooseBank, Bands!SendFollow, Bands!config
<1>4. CASE Bands!FollowRetune \/ Bands!SetVfoFrequency
  BY <1>1, <1>4 DEF Bands!FollowRetune, Bands!SetVfoFrequency, Bands!config
<1>5. CASE Bands!ScanEnabled \/ Bands!DecideSwitch \/ Bands!SwitchRange
  BY <1>1, <1>5 DEF Bands!ScanEnabled, Bands!DecideSwitch, Bands!SwitchRange, Bands!config
<1>6. QED
  BY <1>2, <1>3, <1>4, <1>5, CreateBankKeeps, ImportBanksKeeps, DeleteBankKeeps, EnableBankKeeps,
     BootKeeps
  DEF Bands!BandNext

\* For any banks, shipped, saved and written: what the operator made of a bank is
\* what the receiver has, through edits of others, imports, restarts and merges.
THEOREM BanksSurvive == Spec => []OperatorBanksSurvive
<1> DEFINE Inv == scene = "bands" => BankInv
<1>1. Init => Inv
  BY BankInitial DEF Init
<1>2. Inv /\ [Next]_vars => Inv'
  <2> SUFFICES ASSUME Inv, [Next]_vars PROVE Inv'
    OBVIOUS
  <2>1. CASE BandsStep
    BY <2>1, BandStepKeeps DEF BandsStep
  <2>2. CASE WindowsStep \/ FeedStep \/ RecStep \/ TrunkStep \/ InstallStep \/ SoundStep
    BY <2>2 DEF WindowsStep, FeedStep, RecStep, TrunkStep, InstallStep, SoundStep
  <2>3. CASE UNCHANGED vars
    <3>1. UNCHANGED <<scene, ranges, bandsDisk, wish>>
      BY <2>3 DEF vars, bandsVars
    <3>2. QED
      BY <3>1 DEF BankInv
  <2>4. QED
    BY <2>1, <2>2, <2>3 DEF Next
<1>3. Inv => OperatorBanksSurvive
  <2> SUFFICES ASSUME Inv, scene = "bands", NEW name \in DOMAIN wish
               PROVE  IF wish[name] # Bands!NoBand
                      THEN /\ name \in Bands!Names(ranges)
                           /\ Bands!BandNamed(ranges, name) = wish[name]
                      ELSE name \in Bands!Names(Shipped) \/ name \notin Bands!Names(ranges)
    BY DEF OperatorBanksSurvive, Bands!OperatorBanksSurvive
  <2>1. ranges \in Seq(BankType) /\ Shipped \in Seq(BankType) /\ Lasts(name, wish[name], ranges)
    BY InputsAssumption DEF BankInv
  <2>2. CASE wish[name] # Bands!NoBand
    BY <2>1, <2>2, FirstIsNamed, NamesOf DEF Lasts
  <2>3. CASE wish[name] = Bands!NoBand
    BY <2>1, <2>3, NamesOf DEF Lasts
  <2>4. QED
    BY <2>2, <2>3
<1>4. QED
  BY <1>1, <1>2, <1>3, PTL DEF Spec

----------------------------------------------------------------------------
(* The bank that follows the radio *)

\* A bank the receiver works with: one of the configuration, or a copy of what
\* was one before the operator edited them.
InForce(b, list, stale) == b \in OrderedBank /\ (stale \/ \E i \in 1 .. Len(list) : list[i] = b)
Wanted(b, list, stale) == b = Bands!NoBand \/ InForce(b, list, stale)

CommandType ==
    [kind : {"FollowRetune"}, center : Nat, range : OrderedBank \cup {Bands!NoBand}]
    \cup [kind : {"SetVfoFrequency"}, freq : Nat]
RequestType ==
    [phase : {"idle", "tuned", "chosen"}, center : Nat, range : OrderedBank \cup {Bands!NoBand},
     vfoTo : Nat]

FollowTypes ==
    /\ ranges \in Seq(OrderedBank) /\ bandsDisk \in Seq(OrderedBank) /\ edited \in BOOLEAN
    /\ ~edited => bandsDisk \in Saved /\ ranges = Bands!Merged(bandsDisk, Shipped)
    /\ radio \in Nat /\ rate \in Nat /\ vfo \in [freq : Nat, mode : STRING]
    /\ InForce(active, ranges, edited) /\ Wanted(step, ranges, edited)
    /\ cycle \in Seq(OrderedBank) /\ \A i \in 1 .. Len(cycle) : InForce(cycle[i], ranges, edited)
    /\ request \in [Clients -> RequestType]
    /\ \A c \in Clients : Wanted(request[c].range, ranges, edited)
    /\ commands \in Seq(CommandType)
    /\ \A i \in 1 .. Len(commands) :
          commands[i].kind = "FollowRetune" => Wanted(commands[i].range, ranges, edited)

Follow(center, range) == [kind |-> "FollowRetune", center |-> center, range |-> range]
SetVfo(f) == [kind |-> "SetVfoFrequency", freq |-> f]

\* Bank b is right for frequency f after the bank `old` was left: it holds what any
\* bank holds and, if the tables allow it, feeds the services there.
Fits(b, list, f) ==
    (\E i \in 1 .. Len(list) : Bands!Holds(list[i], f))
        => \/ Bands!Holds(b, f)
           \/ \E i \in 1 .. Len(list) : list[i].name = b.name /\ Bands!Holds(list[i], f)
Right(b, list, f, old, stale) ==
    /\ Fits(b, list, f)
    /\ Bands!TablesServe /\ ~stale /\ ~Bands!Holds(old, f) => Bands!Serves(list, b, f)

Near(f, center, span) ==
    LET away == IF f > center THEN f - center ELSE center - f IN away <= (span * 45) \div 100

Rightly(b) == Right(b, ranges, radio, left, edited)

\* How far the one retune under way has got.
AtRest == Bands!Quiet /\ Rightly(active) /\ Near(vfo.freq, radio, rate)
Retuning ==
    /\ step = Bands!NoBand /\ commands = <<>> /\ radio \in Points
    /\ \E c \in Clients :
          /\ \A d \in Clients \ {c} : request[d].phase = "idle"
          /\ request[c].vfoTo \in {0, radio}
          /\ \/ request[c].phase = "tuned" /\ left = active
             \/ /\ request[c].phase = "chosen" /\ request[c].center = radio
                /\ Rightly(Bands!FollowedBank(active, request[c].range))
Following ==
    /\ step = Bands!NoBand /\ Bands!AllIdle
    /\ \E range \in OrderedBank \cup {Bands!NoBand} :
          /\ Rightly(Bands!FollowedBank(active, range))
          /\ commands \in {<<Follow(radio, range)>>, <<Follow(radio, range), SetVfo(radio)>>}
Placing ==
    /\ step = Bands!NoBand /\ Bands!AllIdle /\ Rightly(active)
    /\ \E f \in Nat : Near(f, radio, rate) /\ commands = <<SetVfo(f)>>

FollowInv ==
    /\ FollowTypes
    /\ overlapped \/ step # Bands!NoBand \/ AtRest \/ Retuning \/ Following \/ Placing

LEMMA OrderedIs ==
    ASSUME NEW b \in OrderedBank
    PROVE  /\ b \in BankType /\ b.name # "none" /\ b # Bands!NoBand
           /\ b.start \in Nat /\ b.end \in Nat /\ b.start <= b.end
           /\ b.rate \in Nat /\ b.mode \in STRING
  BY BankIsSome DEF OrderedBank, BankType

LEMMA NoBandIs == Bands!NoBand.name = "none"
  BY DEF Bands!NoBand

LEMMA CenterInBank ==
    ASSUME NEW b \in OrderedBank, NEW span \in Nat, NEW center, center = Bands!InitialCenter(b, span)
    PROVE  center \in Nat /\ Bands!Holds(b, center)
  BY OrderedIs DEF Bands!InitialCenter, Bands!Holds

LEMMA NearItself == ASSUME NEW f \in Nat, NEW span \in Nat PROVE Near(f, f, span)
  BY DEF Near

\* Of places that hold a frequency one is first among the narrowest.
LEMMA NarrowestOne ==
    ASSUME NEW list \in Seq(OrderedBank), NEW at, at \subseteq 1 .. Len(list), at # {}
    PROVE  \E i \in at : Bands!Narrowest(list, at) = list[i]
<1>1. Len(list) \in Nat /\ \A i \in 1 .. Len(list) : list[i] \in OrderedBank
  BY LenProperties, ElementOfSeq
<1> DEFINE wide(i) == Bands!Width(list[i])
           widths == {wide(i) : i \in at}
<1>2. \A i \in at : wide(i) \in Nat
  BY <1>1, OrderedIs DEF Bands!Width
<1>3. PICK w \in widths : \A v \in widths : w <= v
  <2>1. widths \subseteq Nat /\ widths # {}
    BY <1>2
  <2> HIDE DEF widths
  <2>2. QED
    BY <2>1, LeastPlace
<1> DEFINE least == {i \in at : wide(i) = w}
<1>4. PICK i \in least : \A j \in least : i <= j
  <2>1. least \subseteq Nat /\ least # {}
    BY <1>1, <1>3
  <2> HIDE DEF least
  <2>2. QED
    BY <2>1, LeastPlace
<1>5. i \in at /\ wide(i) = w /\ w \in Nat
  BY <1>2, <1>4
<1>6. ASSUME NEW j \in at PROVE wide(i) < wide(j) \/ (wide(i) = wide(j) /\ i <= j)
  <2>1. w <= wide(j) /\ wide(j) \in Nat
    BY <1>2, <1>3
  <2>2. CASE wide(j) = w
    BY <1>4, <1>5, <2>2
  <2>3. CASE wide(j) # w
    <3> HIDE DEF wide
    <3>1. QED
      BY <1>5, <2>1, <2>3
  <2>4. QED
    BY <2>2, <2>3
<1> DEFINE first == CHOOSE k \in at : \A j \in at : wide(k) < wide(j) \/ (wide(k) = wide(j) /\ k <= j)
<1>7. first \in at
  <2> HIDE DEF wide
  <2>1. QED
    BY <1>5, <1>6
<1>8. Bands!Narrowest(list, at) = list[first]
  BY DEF Bands!Narrowest
<1> HIDE DEF first
<1>9. QED
  BY <1>7, <1>8

\* The bank picked for a frequency holds it; there is none when no bank does.
LEMMA PickedRange ==
    ASSUME NEW list \in Seq(OrderedBank), NEW f \in Nat, NEW current,
           NEW picked, picked = Bands!PickRange(list, f, current)
    PROVE  \/ picked = Bands!NoBand /\ \A i \in 1 .. Len(list) : ~Bands!Holds(list[i], f)
           \/ \E i \in 1 .. Len(list) : picked = list[i] /\ Bands!Holds(list[i], f)
<1>1. Len(list) \in Nat /\ DOMAIN list = 1 .. Len(list)
  BY LenProperties
<1> DEFINE holding == {i \in DOMAIN list : Bands!Holds(list[i], f)}
           kept == {i \in holding : list[i].name = current}
           enabled == {i \in holding : list[i].enabled}
<1>2. picked = IF kept # {} THEN list[CHOOSE i \in kept : \A j \in kept : i <= j]
               ELSE IF enabled # {} THEN Bands!Narrowest(list, enabled)
               ELSE IF holding # {} THEN Bands!Narrowest(list, holding)
               ELSE Bands!NoBand
  BY DEF Bands!PickRange
<1>3. \A i : i \in holding <=> i \in 1 .. Len(list) /\ Bands!Holds(list[i], f)
  BY <1>1
<1>4. kept \subseteq holding /\ enabled \subseteq holding /\ holding \subseteq 1 .. Len(list)
  BY <1>1
<1>5. holding \subseteq Nat
  BY <1>1
<1> HIDE DEF holding, kept, enabled
<1>6. CASE kept # {}
  <2> DEFINE least == CHOOSE i \in kept : \A j \in kept : i <= j
  <2>1. \E i \in kept : \A j \in kept : i <= j
    BY <1>4, <1>5, <1>6, LeastPlace
  <2>2. least \in kept
    BY <2>1
  <2>3. picked = list[least]
    BY <1>2, <1>6
  <2> HIDE DEF least
  <2>4. QED
    BY <1>3, <1>4, <2>2, <2>3
<1>7. CASE kept = {} /\ enabled # {}
  <2>1. PICK i \in enabled : Bands!Narrowest(list, enabled) = list[i]
    BY <1>4, <1>7, NarrowestOne
  <2>2. QED
    BY <1>2, <1>3, <1>4, <1>7, <2>1
<1>8. CASE kept = {} /\ enabled = {} /\ holding # {}
  <2>1. PICK i \in holding : Bands!Narrowest(list, holding) = list[i]
    BY <1>4, <1>8, NarrowestOne
  <2>2. QED
    BY <1>2, <1>3, <1>4, <1>8, <2>1
<1>9. CASE kept = {} /\ enabled = {} /\ holding = {}
  BY <1>2, <1>3, <1>9
<1>10. QED
  BY <1>6, <1>7, <1>8, <1>9

LEMMA EnabledOnes ==
    ASSUME NEW list \in Seq(OrderedBank), NEW on, on = Bands!Enabled(list)
    PROVE  /\ on \in Seq(OrderedBank)
           /\ \A m \in 1 .. Len(on) : \E i \in 1 .. Len(list) : on[m] = list[i]
<1> DEFINE at == {i \in DOMAIN list : list[i].enabled}
<1>1. on = Picked(list, at)
  BY DEF Bands!Enabled, Bands!Picked, Picked
<1> HIDE DEF at
<1>2. on \in Seq(OrderedBank) /\ FromPlaces(list, at, on)
  BY <1>1, PickedInOrder
<1>3. QED
  BY <1>2 DEF FromPlaces

\* The built-in table is never empty, so neither is a list merged with it.
LEMMA MergedSome ==
    ASSUME BanksOrdered, NEW saved \in Seq(OrderedBank), NEW all, all = Bands!Merged(saved, Shipped)
    PROVE  all \in Seq(OrderedBank) /\ 1 \in 1 .. Len(all)
<1>1. Shipped \in Seq(OrderedBank) /\ Shipped # <<>>
  BY InputsAssumption DEF BanksOrdered
<1>2. all \in Seq(OrderedBank)
  BY <1>1, MergedOne
<1> DEFINE at == {i \in DOMAIN Shipped : Shipped[i].name \notin Bands!Names(saved)}
<1>3. all = saved \o Picked(Shipped, at)
  BY DEF Bands!Merged, Bands!Picked, Picked
<1>4. Picked(Shipped, at) \in Seq(OrderedBank) /\ InOrder(Shipped, at, Picked(Shipped, at))
  <2> HIDE DEF at
  <2>1. QED
    BY <1>1, PickedInOrder
<1>5. CASE saved = <<>>
  <2>1. 1 \in at /\ 1 \in 1 .. Len(Shipped)
    BY <1>1, <1>5, LenProperties, EmptySeq DEF Bands!Names
  <2> HIDE DEF at
  <2>2. \E m \in 1 .. Len(Picked(Shipped, at)) : TRUE
    BY <1>4, <2>1 DEF InOrder
  <2>3. Len(all) = Len(saved) + Len(Picked(Shipped, at)) /\ Len(saved) \in Nat
        /\ Len(Picked(Shipped, at)) \in Nat
    BY <1>3, <1>4, ConcatProperties, LenProperties
  <2>4. QED
    BY <1>2, <2>2, <2>3
<1>6. CASE saved # <<>>
  <2> HIDE DEF at
  <2>1. Len(saved) \in Nat /\ Len(saved) # 0
    BY <1>6, LenProperties, EmptySeq
  <2>2. Len(all) = Len(saved) + Len(Picked(Shipped, at)) /\ Len(Picked(Shipped, at)) \in Nat
    BY <1>3, <1>4, ConcatProperties, LenProperties
  <2>3. QED
    BY <1>2, <2>1, <2>2
<1>7. QED
  BY <1>5, <1>6

LEMMA DefaultOne ==
    ASSUME NEW list \in Seq(OrderedBank), 1 \in 1 .. Len(list)
    PROVE  \E i \in 1 .. Len(list) : Bands!DefaultRange(list) = list[i]
<1>1. CASE "FM Broadcast" \in Bands!Names(list)
  <2>1. Named(list, "FM Broadcast")
    BY <1>1, NamesOf, Zenon
  <2>2. Bands!FirstOf(list, "FM Broadcast") \in 1 .. Len(list)
    BY <2>1, HasFirst, Zenon
  <2>3. QED
    BY <1>1, <2>2, Zenon DEF Bands!DefaultRange, Bands!BandNamed
<1>2. CASE "FM Broadcast" \notin Bands!Names(list)
  BY <1>2, Zenon DEF Bands!DefaultRange
<1>3. QED
  BY <1>1, <1>2, Zenon

LEMMA NextInCycle ==
    ASSUME cycle \in Seq(OrderedBank), active.name \in Bands!Names(cycle)
    PROVE  \E i \in 1 .. Len(cycle) : Bands!NextCycleRange = cycle[i]
<1> DEFINE at == CHOOSE i \in DOMAIN cycle : cycle[i].name = active.name
<1>1. Len(cycle) \in Nat /\ DOMAIN cycle = 1 .. Len(cycle)
  BY LenProperties
<1>2. at \in 1 .. Len(cycle)
  <2>1. \E i \in DOMAIN cycle : cycle[i].name = active.name
    BY DEF Bands!Names
  <2>2. QED
    BY <1>1, <2>1
<1>3. Bands!NextCycleRange = cycle[(at % Len(cycle)) + 1]
  BY DEF Bands!NextCycleRange
<1> HIDE DEF at
<1>4. (at % Len(cycle)) + 1 \in 1 .. Len(cycle)
  BY <1>1, <1>2
<1>5. QED
  BY <1>3, <1>4

\* The bank a retune chooses is right for where the radio is.
LEMMA ChosenRight ==
    ASSUME FollowTypes, radio \in Points, left = active
    PROVE  Rightly(Bands!FollowedBank(active, Bands!PickRange(ranges, radio, active.name)))
<1> DEFINE picked == Bands!PickRange(ranges, radio, active.name)
           then == Bands!FollowedBank(active, picked)
<1>1. ranges \in Seq(OrderedBank) /\ radio \in Nat /\ active \in OrderedBank
  BY DEF FollowTypes, InForce
<1>2. \/ picked = Bands!NoBand /\ \A i \in 1 .. Len(ranges) : ~Bands!Holds(ranges[i], radio)
      \/ \E i \in 1 .. Len(ranges) : picked = ranges[i] /\ Bands!Holds(ranges[i], radio)
  BY <1>1, PickedRange
<1> HIDE DEF picked
<1>3. Fits(then, ranges, radio)
  <2>1. CASE \A i \in 1 .. Len(ranges) : ~Bands!Holds(ranges[i], radio)
    BY <2>1 DEF Fits
  <2>2. CASE \E i \in 1 .. Len(ranges) : picked = ranges[i] /\ Bands!Holds(ranges[i], radio)
    <3>1. PICK i \in 1 .. Len(ranges) : picked = ranges[i] /\ Bands!Holds(ranges[i], radio)
      BY <2>2
    <3>2. picked.name # "none"
      BY <1>1, <3>1, ElementOfSeq, OrderedIs
    <3>3. CASE picked.name = active.name
      BY <3>1, <3>3 DEF Fits, Bands!FollowedBank
    <3>4. CASE picked.name # active.name
      BY <3>1, <3>2, <3>4 DEF Fits, Bands!FollowedBank
    <3>5. QED
      BY <3>3, <3>4
  <2>3. QED
    BY <1>2, <2>1, <2>2
<1>4. ASSUME Bands!TablesServe, ~edited, ~Bands!Holds(left, radio)
      PROVE  Bands!Serves(ranges, then, radio)
  <2>1. bandsDisk \in Saved /\ ranges = Bands!Merged(bandsDisk, Shipped)
    BY <1>4 DEF FollowTypes
  <2>2. PICK i \in 1 .. Len(ranges) : ranges[i] = active
    BY <1>4 DEF FollowTypes, InForce
  <2>3. i \in DOMAIN ranges
    BY <1>1, LenProperties
  <2>4. ~Bands!Holds(ranges[i], radio)
    BY <1>4, <2>2
  <2>5. Bands!Serves(ranges, Bands!FollowedBank(ranges[i], Bands!PickRange(ranges, radio, ranges[i].name)), radio)
    BY <1>4, <2>1, <2>3, <2>4 DEF Bands!TablesServe, Bands!TableServes
  <2>6. QED
    BY <2>2, <2>5 DEF picked
<1>5. QED
  BY <1>3, <1>4 DEF Rightly, Right, picked

LEMMA InForceIs ==
    ASSUME NEW b, NEW list, NEW stale, InForce(b, list, stale)
    PROVE  /\ b \in OrderedBank /\ b # Bands!NoBand
           /\ \A other : InForce(b, other, TRUE)
  BY OrderedIs DEF InForce

LEMMA StartsRight ==
    ASSUME NEW b, NEW list, NEW f, NEW stale, Bands!Holds(b, f)
    PROVE  Right(b, list, f, b, stale)
  BY DEF Right, Fits

LEMMA IdleTypes ==
    ASSUME NEW list, NEW stale
    PROVE  /\ [c \in Clients |-> Bands!Idle] \in [Clients -> RequestType]
           /\ \A c \in Clients : Wanted([d \in Clients |-> Bands!Idle][c].range, list, stale)
           /\ \A c \in Clients : [d \in Clients |-> Bands!Idle][c].phase = "idle"
  BY DEF Bands!Idle, RequestType, Wanted

\* A retune moves the radio; when all was quiet it is the one under way.
LEMMA TunesKeeps ==
    ASSUME FollowInv, BanksOrdered, NEW c \in Clients, NEW f \in Points, NEW r,
           r \in {[Bands!Idle EXCEPT !.phase = "tuned"],
                  [Bands!Idle EXCEPT !.phase = "tuned", !.vfoTo = f]},
           Bands!Tunes(c, f, r)
    PROVE  FollowInv'
<1>1. /\ radio' = f /\ request' = [request EXCEPT ![c] = r]
      /\ overlapped' = ~Bands!Quiet /\ left' = active
      /\ UNCHANGED <<ranges, bandsDisk, edited, rate, active, vfo, commands, cycle, step>>
  BY DEF Bands!Tunes, Bands!config
<1>2. f \in Nat
  BY InputsAssumption
<1>3. /\ r \in RequestType /\ r.phase = "tuned" /\ r.range = Bands!NoBand
      /\ r.vfoTo \in {0, f}
  <2>1. \/ r = [phase |-> "tuned", center |-> 0, range |-> Bands!NoBand, vfoTo |-> 0]
        \/ r = [phase |-> "tuned", center |-> 0, range |-> Bands!NoBand, vfoTo |-> f]
    BY DEF Bands!Idle
  <2>2. QED
    BY <1>2, <2>1 DEF RequestType
<1>4. /\ request' \in [Clients -> RequestType] /\ request'[c] = r
      /\ \A d \in Clients \ {c} : request'[d] = request[d]
  BY <1>1, <1>3 DEF FollowInv, FollowTypes
<1>5. FollowTypes'
  <2>1. \A d \in Clients : Wanted(request'[d].range, ranges, edited)
    BY <1>3, <1>4 DEF FollowInv, FollowTypes, Wanted
  <2>2. QED
    BY <1>1, <1>2, <1>4, <2>1 DEF FollowInv, FollowTypes
<1>6. CASE Bands!Quiet
  <2>1. \A d \in Clients \ {c} : request'[d].phase = "idle"
    BY <1>4, <1>6 DEF Bands!Quiet, Bands!AllIdle
  <2>2. Retuning'
    BY <1>1, <1>3, <1>4, <1>6, <2>1 DEF Retuning, Bands!Quiet
  <2>3. QED
    BY <1>5, <2>2 DEF FollowInv
<1>7. CASE ~Bands!Quiet
  BY <1>1, <1>5, <1>7 DEF FollowInv
<1>8. QED
  BY <1>6, <1>7

LEMMA AppendedCommand ==
    ASSUME FollowTypes, NEW q \in CommandType, NEW all, all = Append(commands, q),
           q.kind = "FollowRetune" => Wanted(q.range, ranges, edited)
    PROVE  /\ all \in Seq(CommandType)
           /\ \A i \in 1 .. Len(all) :
                 all[i].kind = "FollowRetune" => Wanted(all[i].range, ranges, edited)
<1>1. commands \in Seq(CommandType) /\ Len(commands) \in Nat
  BY LenProperties DEF FollowTypes
<1>2. /\ all \in Seq(CommandType) /\ Len(all) = Len(commands) + 1 /\ all[Len(commands) + 1] = q
      /\ \A i \in 1 .. Len(commands) : all[i] = commands[i]
  BY <1>1, AppendProperties
<1>3. ASSUME NEW i \in 1 .. Len(all), all[i].kind = "FollowRetune"
      PROVE  Wanted(all[i].range, ranges, edited)
  <2>1. CASE i = Len(commands) + 1
    BY <1>2, <1>3, <2>1
  <2>2. CASE i \in 1 .. Len(commands)
    BY <1>2, <1>3, <2>2 DEF FollowTypes
  <2>3. QED
    BY <1>1, <1>2, <2>1, <2>2
<1>4. QED
  BY <1>2, <1>3

LEMMA PlaceInsideKeeps ==
    ASSUME FollowInv, BanksOrdered, NEW c \in Clients, NEW f \in Points, Bands!PlaceVfoInside(c, f)
    PROVE  FollowInv'
<1>1. /\ Near(f, radio, rate) /\ commands' = Append(commands, SetVfo(f))
      /\ overlapped' = (overlapped \/ ~Bands!Quiet)
      /\ UNCHANGED <<ranges, bandsDisk, edited, radio, rate, active, vfo, cycle, step, request, left>>
  BY DEF Bands!PlaceVfoInside, Bands!InWindow, Near, SetVfo, Bands!config
<1>2. f \in Nat /\ SetVfo(f) \in CommandType /\ SetVfo(f).kind # "FollowRetune"
  BY InputsAssumption DEF SetVfo, CommandType
<1>3. FollowTypes'
  <2>1. /\ commands' \in Seq(CommandType)
        /\ \A i \in 1 .. Len(commands') :
              commands'[i].kind = "FollowRetune" => Wanted(commands'[i].range, ranges, edited)
    BY <1>1, <1>2, AppendedCommand DEF FollowInv
  <2>2. QED
    BY <1>1, <2>1 DEF FollowInv, FollowTypes
<1>4. CASE overlapped \/ ~Bands!Quiet
  BY <1>1, <1>3, <1>4 DEF FollowInv
<1>5. CASE ~overlapped /\ Bands!Quiet
  <2>1. AtRest
    BY <1>5 DEF FollowInv, Bands!Quiet, Retuning, Following, Placing, Bands!AllIdle
  <2>2. commands' = <<SetVfo(f)>>
    BY <1>1, <1>5 DEF Bands!Quiet
  <2>3. Placing'
    BY <1>1, <1>2, <1>5, <2>1, <2>2 DEF Placing, AtRest, Bands!Quiet, Bands!AllIdle, Rightly
  <2>4. QED
    BY <1>3, <2>3 DEF FollowInv
<1>6. QED
  BY <1>4, <1>5

LEMMA ChooseKeeps ==
    ASSUME FollowInv, NEW c \in Clients, Bands!ChooseBank(c)
    PROVE  FollowInv'
<1> DEFINE picked == Bands!PickRange(ranges, radio, active.name)
<1>1. /\ request[c].phase = "tuned"
      /\ request' = [request EXCEPT ![c].phase = "chosen", ![c].center = radio, ![c].range = picked]
      /\ UNCHANGED <<ranges, bandsDisk, edited, radio, rate, active, vfo, commands, cycle, step,
                     overlapped, left>>
  BY DEF Bands!ChooseBank, Bands!config
<1>2. /\ ranges \in Seq(OrderedBank) /\ radio \in Nat /\ request \in [Clients -> RequestType]
      /\ request[c] \in RequestType
  BY DEF FollowInv, FollowTypes
<1>3. picked \in OrderedBank \cup {Bands!NoBand} /\ Wanted(picked, ranges, edited)
  <2>1. \/ picked = Bands!NoBand
        \/ \E i \in 1 .. Len(ranges) : picked = ranges[i]
    BY <1>2, PickedRange
  <2> HIDE DEF picked
  <2>2. QED
    BY <1>2, <2>1, ElementOfSeq DEF Wanted, InForce
<1>4. Retuning /\ ~overlapped => left = active /\ Rightly(Bands!FollowedBank(active, picked))
  <2> SUFFICES ASSUME Retuning, ~overlapped
               PROVE  left = active /\ Rightly(Bands!FollowedBank(active, picked))
    OBVIOUS
  <2>1. left = active /\ radio \in Points
    BY <1>1 DEF Retuning
  <2>2. QED
    BY <2>1, ChosenRight DEF FollowInv
<1> HIDE DEF picked
<1>5. /\ request' \in [Clients -> RequestType]
      /\ request'[c].phase = "chosen" /\ request'[c].center = radio /\ request'[c].range = picked
      /\ request'[c].vfoTo = request[c].vfoTo
      /\ \A d \in Clients \ {c} : request'[d] = request[d]
  BY <1>1, <1>2, <1>3 DEF RequestType
<1>6. FollowTypes'
  <2>1. \A d \in Clients : Wanted(request'[d].range, ranges, edited)
    BY <1>3, <1>5 DEF FollowInv, FollowTypes
  <2>2. QED
    BY <1>1, <1>5, <2>1 DEF FollowInv, FollowTypes
<1>7. CASE overlapped \/ step # Bands!NoBand
  BY <1>1, <1>6, <1>7 DEF FollowInv
<1>8. CASE ~overlapped /\ step = Bands!NoBand
  <2>1. Retuning
    BY <1>1, <1>8 DEF FollowInv, AtRest, Following, Placing, Bands!Quiet, Bands!AllIdle
  <2>2. PICK d \in Clients :
          /\ \A e \in Clients \ {d} : request[e].phase = "idle"
          /\ request[d].vfoTo \in {0, radio}
    BY <2>1 DEF Retuning
  <2>3. d = c
    BY <1>1, <2>2
  <2>4. Rightly(Bands!FollowedBank(active, picked))
    BY <1>4, <1>8, <2>1
  <2>5. /\ \A e \in Clients \ {c} : request'[e].phase = "idle"
        /\ request'[c].vfoTo \in {0, radio}
    BY <1>5, <2>2, <2>3
  <2>6. Retuning'
    BY <1>1, <1>5, <2>1, <2>4, <2>5 DEF Retuning, Rightly
  <2>7. QED
    BY <1>6, <2>6 DEF FollowInv
<1>9. QED
  BY <1>7, <1>8

LEMMA AppendTwo ==
    ASSUME NEW S, NEW a \in S, NEW b \in S, NEW one \in Seq(S), one = <<a>>,
           NEW all, all = Append(one, b)
    PROVE  all = <<a, b>>
<1> DEFINE two == <<a, b>>
<1>1. Len(one) = 1 /\ one[1] = a
  OBVIOUS
<1>2. two \in Seq(S) /\ Len(two) = 2 /\ two[1] = a /\ two[2] = b
  OBVIOUS
<1> HIDE DEF two
<1>3. /\ all \in Seq(S) /\ Len(all) = Len(one) + 1 /\ all[Len(one) + 1] = b
      /\ \A i \in 1 .. Len(one) : all[i] = one[i]
  BY AppendProperties
<1>4. Len(all) = 2 /\ all[1] = a /\ all[2] = b
  BY <1>1, <1>3
<1>5. all = two
  BY <1>2, <1>3, <1>4, SeqEqual
<1>6. QED
  BY <1>5 DEF two

LEMMA TailOfTwo == ASSUME NEW a, NEW b PROVE Tail(<<a, b>>) = <<b>>
  OBVIOUS

LEMMA SendFollowKeeps ==
    ASSUME FollowInv, NEW c \in Clients, Bands!SendFollow(c)
    PROVE  FollowInv'
<1> DEFINE follow == Follow(request[c].center, request[c].range)
           place == SetVfo(request[c].vfoTo)
           sent == Append(commands, follow)
<1>1. /\ request[c].phase = "chosen"
      /\ commands' = sent \o (IF request[c].vfoTo = 0 THEN <<>> ELSE <<place>>)
      /\ request' = [request EXCEPT ![c] = Bands!Idle]
      /\ UNCHANGED <<ranges, bandsDisk, edited, radio, rate, active, vfo, cycle, step,
                     overlapped, left>>
  BY DEF Bands!SendFollow, Bands!config, Follow, SetVfo
<1>2. /\ request \in [Clients -> RequestType] /\ request[c] \in RequestType
      /\ Wanted(request[c].range, ranges, edited)
  BY DEF FollowInv, FollowTypes
<1>3. /\ follow \in CommandType /\ follow.range = request[c].range
      /\ place \in CommandType /\ place.kind # "FollowRetune"
  BY <1>2 DEF Follow, SetVfo, CommandType, RequestType
<1> HIDE DEF follow, place
<1>4. /\ sent \in Seq(CommandType)
      /\ \A i \in 1 .. Len(sent) :
            sent[i].kind = "FollowRetune" => Wanted(sent[i].range, ranges, edited)
  BY <1>2, <1>3, AppendedCommand DEF FollowInv
<1>5. /\ commands' \in Seq(CommandType)
      /\ \A i \in 1 .. Len(commands') :
            commands'[i].kind = "FollowRetune" => Wanted(commands'[i].range, ranges, edited)
  <2> HIDE DEF sent
  <2>1. CASE request[c].vfoTo = 0
    <3>1. commands' = sent
      BY <1>1, <1>4, <2>1
    <3>2. QED
      BY <1>4, <3>1
  <2>2. CASE request[c].vfoTo # 0
    <3>1. commands' = Append(sent, place)
      BY <1>1, <1>3, <1>4, <2>2
    <3>2. /\ commands' \in Seq(CommandType) /\ Len(commands') = Len(sent) + 1
          /\ commands'[Len(sent) + 1] = place /\ Len(sent) \in Nat
          /\ \A i \in 1 .. Len(sent) : commands'[i] = sent[i]
      BY <1>3, <1>4, <3>1, AppendProperties, LenProperties
    <3>3. ASSUME NEW i \in 1 .. Len(commands'), commands'[i].kind = "FollowRetune"
          PROVE  Wanted(commands'[i].range, ranges, edited)
      <4>1. i \in 1 .. Len(sent)
        BY <1>3, <3>2, <3>3
      <4>2. QED
        BY <1>4, <3>2, <3>3, <4>1
    <3>4. QED
      BY <3>2, <3>3
  <2>3. QED
    BY <2>1, <2>2
<1>6. /\ request' \in [Clients -> RequestType] /\ request'[c] = Bands!Idle
      /\ \A d \in Clients \ {c} : request'[d] = request[d]
      /\ request'[c].phase = "idle" /\ request'[c].range = Bands!NoBand
  BY <1>1, <1>2 DEF RequestType, Bands!Idle
<1>7. FollowTypes'
  <2>1. \A d \in Clients : Wanted(request'[d].range, ranges, edited)
    BY <1>6 DEF FollowInv, FollowTypes, Wanted
  <2>2. QED
    BY <1>1, <1>5, <1>6, <2>1 DEF FollowInv, FollowTypes
<1>8. CASE overlapped \/ step # Bands!NoBand
  BY <1>1, <1>7, <1>8 DEF FollowInv
<1>9. CASE ~overlapped /\ step = Bands!NoBand
  <2>1. Retuning
    BY <1>1, <1>9 DEF FollowInv, AtRest, Following, Placing, Bands!Quiet, Bands!AllIdle
  <2>2. PICK d \in Clients :
          /\ \A e \in Clients \ {d} : request[e].phase = "idle"
          /\ request[d].vfoTo \in {0, radio}
          /\ \/ request[d].phase = "tuned" /\ left = active
             \/ /\ request[d].phase = "chosen" /\ request[d].center = radio
                /\ Rightly(Bands!FollowedBank(active, request[d].range))
    BY <2>1 DEF Retuning
  <2>3. d = c
    BY <1>1, <2>2
  <2>4. /\ request[c].vfoTo \in {0, radio} /\ request[c].center = radio
        /\ Rightly(Bands!FollowedBank(active, request[c].range))
        /\ \A e \in Clients : request'[e].phase = "idle"
    BY <1>1, <1>6, <2>2, <2>3
  <2>5. commands' \in {<<Follow(radio, request[c].range)>>,
                       <<Follow(radio, request[c].range), SetVfo(radio)>>}
    <3>1. sent = <<follow>> /\ follow = Follow(radio, request[c].range)
      BY <2>1, <2>4 DEF Retuning, follow
    <3>2. CASE request[c].vfoTo = 0
      <4>1. commands' = <<follow>>
        BY <1>1, <3>1, <3>2
      <4>2. QED
        BY <3>1, <4>1
    <3>3. CASE request[c].vfoTo # 0
      <4>1. commands' = <<follow, place>>
        <5> HIDE DEF sent
        <5>1. commands' = sent \o <<place>>
          BY <1>1, <3>3
        <5>2. commands' = Append(sent, place)
          BY <1>3, <1>4, <5>1
        <5>3. sent \in Seq(CommandType) /\ follow \in CommandType /\ place \in CommandType
          BY <1>3, <1>4
        <5>4. sent = <<follow>>
          BY <3>1
        <5>5. QED
          BY <5>2, <5>3, <5>4, AppendTwo
      <4>2. request[c].vfoTo = radio
        BY <2>4, <3>3
      <4>3. place = SetVfo(radio)
        BY <4>2 DEF place
      <4>4. QED
        BY <3>1, <4>1, <4>3
    <3>4. QED
      BY <3>2, <3>3
  <2>6. request[c].range \in OrderedBank \cup {Bands!NoBand}
    BY <1>2 DEF RequestType
  <2>7. Following'
    BY <1>1, <1>9, <2>4, <2>5, <2>6 DEF Following, Bands!AllIdle, Rightly
  <2>8. QED
    BY <1>7, <2>7 DEF FollowInv
<1>10. QED
  BY <1>8, <1>9

LEMMA TakenCommand ==
    ASSUME FollowTypes, commands # <<>>
    PROVE  /\ Head(commands) \in CommandType
           /\ Head(commands).kind = "FollowRetune" => Wanted(Head(commands).range, ranges, edited)
           /\ Tail(commands) \in Seq(CommandType)
           /\ \A i \in 1 .. Len(Tail(commands)) :
                 Tail(commands)[i].kind = "FollowRetune"
                    => Wanted(Tail(commands)[i].range, ranges, edited)
<1>1. commands \in Seq(CommandType) /\ Len(commands) \in Nat /\ Len(commands) # 0
  BY LenProperties, EmptySeq DEF FollowTypes
<1>2. Head(commands) = commands[1] /\ 1 \in 1 .. Len(commands)
  BY <1>1
<1>3. /\ Tail(commands) \in Seq(CommandType) /\ Len(Tail(commands)) = Len(commands) - 1
      /\ \A i \in 1 .. Len(Tail(commands)) : Tail(commands)[i] = commands[i + 1]
  BY <1>1, HeadTailProperties
<1>4. \A i \in 1 .. Len(Tail(commands)) : i + 1 \in 1 .. Len(commands)
  BY <1>1, <1>3
<1>5. QED
  BY <1>1, <1>2, <1>3, <1>4, ElementOfSeq DEF FollowTypes

\* The scanner's slots are moved into the window that is now in force.
LEMMA RehomedNear ==
    ASSUME FollowTypes, NEW center \in Nat, NEW band \in OrderedBank
    PROVE  /\ Bands!Rehomed(center, band) \in [freq : Nat, mode : STRING]
           /\ Near(Bands!Rehomed(center, band).freq, center, rate)
<1>1. vfo \in [freq : Nat, mode : STRING] /\ rate \in Nat /\ band.mode \in STRING
  BY OrderedIs DEF FollowTypes
<1>2. CASE Near(vfo.freq, center, rate)
  <2>1. Bands!Rehomed(center, band) = vfo
    BY <1>1, <1>2 DEF Bands!Rehomed, Near
  <2>2. QED
    BY <1>1, <1>2, <2>1
<1>3. CASE ~Near(vfo.freq, center, rate)
  <2>1. Bands!Rehomed(center, band) = [freq |-> center, mode |-> band.mode]
    BY <1>1, <1>3 DEF Bands!Rehomed, Near
  <2>2. QED
    BY <1>1, <2>1, NearItself
<1>4. QED
  BY <1>2, <1>3

LEMMA FollowRetuneKeeps ==
    ASSUME FollowInv, Bands!FollowRetune
    PROVE  FollowInv'
<1> DEFINE range == Head(commands).range
           center == Head(commands).center
<1>1. /\ step = Bands!NoBand /\ commands # <<>> /\ Head(commands).kind = "FollowRetune"
      /\ active' = Bands!FollowedBank(active, range)
      /\ vfo' = Bands!Rehomed(center, active')
      /\ commands' = Tail(commands)
      /\ UNCHANGED <<ranges, bandsDisk, edited, radio, rate, cycle, step, request, overlapped, left>>
  BY DEF Bands!FollowRetune, Bands!config
<1>2. /\ Head(commands) \in CommandType /\ Wanted(range, ranges, edited)
      /\ Tail(commands) \in Seq(CommandType)
      /\ \A i \in 1 .. Len(Tail(commands)) :
            Tail(commands)[i].kind = "FollowRetune"
               => Wanted(Tail(commands)[i].range, ranges, edited)
  BY <1>1, TakenCommand DEF FollowInv
<1>3. center \in Nat
  BY <1>1, <1>2 DEF CommandType
<1>4. InForce(active', ranges, edited)
  BY <1>1, <1>2, NoBandIs DEF FollowInv, FollowTypes, Bands!FollowedBank, Wanted
<1>5. vfo' \in [freq : Nat, mode : STRING] /\ Near(vfo'.freq, center, rate)
  BY <1>1, <1>3, <1>4, RehomedNear DEF FollowInv, InForce
<1>6. FollowTypes'
  BY <1>1, <1>2, <1>4, <1>5 DEF FollowInv, FollowTypes
<1>7. CASE overlapped
  BY <1>1, <1>6, <1>7 DEF FollowInv
<1>8. CASE ~overlapped
  <2>1. Following
    <3>1. AtRest \/ Retuning \/ Following \/ Placing
      BY <1>1, <1>8 DEF FollowInv
    <3>2. ~AtRest /\ ~Retuning
      BY <1>1 DEF AtRest, Retuning, Bands!Quiet
    <3>3. ~Placing
      BY <1>1 DEF Placing, SetVfo
    <3>4. QED
      BY <3>1, <3>2, <3>3
  <2>2. PICK r \in OrderedBank \cup {Bands!NoBand} :
          /\ Rightly(Bands!FollowedBank(active, r))
          /\ commands \in {<<Follow(radio, r)>>, <<Follow(radio, r), SetVfo(radio)>>}
    BY <2>1 DEF Following
  <2>3. /\ Head(commands) = Follow(radio, r)
        /\ commands' = <<>> \/ commands' = <<SetVfo(radio)>>
    <3>1. radio \in Nat /\ Follow(radio, r) \in CommandType /\ SetVfo(radio) \in CommandType
      BY DEF FollowInv, FollowTypes, Follow, SetVfo, CommandType
    <3>2. CASE commands = <<Follow(radio, r)>>
      BY <1>1, <3>2
    <3>3. CASE commands = <<Follow(radio, r), SetVfo(radio)>>
      <4>1. Tail(commands) = <<SetVfo(radio)>>
        BY <3>1, <3>3, TailOfTwo
      <4>2. QED
        BY <1>1, <3>3, <4>1
    <3>4. QED
      BY <2>2, <3>2, <3>3
  <2>4. range = r /\ center = radio
    BY <2>3 DEF Follow
  <2>5. Right(active', ranges, radio, left, edited) /\ Near(vfo'.freq, radio, rate)
    BY <1>1, <1>5, <2>2, <2>4 DEF Rightly
  <2>6. radio \in Nat /\ rate \in Nat /\ Near(radio, radio, rate)
    BY NearItself DEF FollowInv, FollowTypes
  <2> HIDE DEF range, center
  <2>7. CASE commands' = <<>>
    <3>1. AtRest'
      BY <1>1, <2>1, <2>5, <2>7 DEF AtRest, Following, Rightly, Bands!Quiet, Bands!AllIdle
    <3>2. QED
      BY <1>6, <3>1 DEF FollowInv
  <2>8. CASE commands' = <<SetVfo(radio)>>
    <3>1. Placing'
      BY <1>1, <2>1, <2>5, <2>6, <2>8 DEF Placing, Following, Rightly, Bands!AllIdle
    <3>2. QED
      BY <1>6, <3>1 DEF FollowInv
  <2>9. QED
    BY <2>3, <2>7, <2>8
<1>9. QED
  BY <1>7, <1>8

LEMMA SetVfoKeeps ==
    ASSUME FollowInv, Bands!SetVfoFrequency
    PROVE  FollowInv'
<1>1. /\ step = Bands!NoBand /\ commands # <<>> /\ Head(commands).kind = "SetVfoFrequency"
      /\ vfo' = [vfo EXCEPT !.freq = Head(commands).freq]
      /\ commands' = Tail(commands)
      /\ UNCHANGED <<ranges, bandsDisk, edited, radio, rate, active, cycle, step, request,
                     overlapped, left>>
  BY DEF Bands!SetVfoFrequency, Bands!config
<1>2. /\ Head(commands) \in CommandType
      /\ Tail(commands) \in Seq(CommandType)
      /\ \A i \in 1 .. Len(Tail(commands)) :
            Tail(commands)[i].kind = "FollowRetune"
               => Wanted(Tail(commands)[i].range, ranges, edited)
  BY <1>1, TakenCommand DEF FollowInv
<1>3. vfo' \in [freq : Nat, mode : STRING] /\ vfo'.freq = Head(commands).freq
  BY <1>1, <1>2 DEF FollowInv, FollowTypes, CommandType
<1>4. FollowTypes'
  BY <1>1, <1>2, <1>3 DEF FollowInv, FollowTypes
<1>5. CASE overlapped
  BY <1>1, <1>4, <1>5 DEF FollowInv
<1>6. CASE ~overlapped
  <2>1. Placing
    <3>1. AtRest \/ Retuning \/ Following \/ Placing
      BY <1>1, <1>6 DEF FollowInv
    <3>2. ~AtRest /\ ~Retuning
      BY <1>1 DEF AtRest, Retuning, Bands!Quiet
    <3>3. ~Following
      BY <1>1 DEF Following, Follow
    <3>4. QED
      BY <3>1, <3>2, <3>3
  <2>2. PICK f \in Nat : Near(f, radio, rate) /\ commands = <<SetVfo(f)>>
    BY <2>1 DEF Placing
  <2>3. vfo'.freq = f /\ commands' = <<>>
    BY <1>1, <1>3, <2>2 DEF SetVfo
  <2>4. AtRest'
    BY <1>1, <2>1, <2>2, <2>3 DEF AtRest, Placing, Rightly, Bands!Quiet, Bands!AllIdle
  <2>5. QED
    BY <1>4, <2>4 DEF FollowInv
<1>7. QED
  BY <1>5, <1>6

\* The scanner started over in a bank: the radio is in it, the slot at its centre.
LEMMA StartedAtRest ==
    ASSUME NEW b \in OrderedBank, Bands!Holds(b, radio'), radio' \in Nat, rate' \in Nat,
           Bands!StartedIn(b, radio'), left' = active', Bands!Quiet'
    PROVE  AtRest' /\ vfo' \in [freq : Nat, mode : STRING] /\ active' = b
<1>1. /\ active' = b /\ vfo' = [freq |-> radio', mode |-> b.mode] /\ b.mode \in STRING
  BY OrderedIs DEF Bands!StartedIn
<1>2. Right(b, ranges', radio', b, edited')
  BY StartsRight
<1>3. Near(radio', radio', rate')
  BY NearItself
<1>4. QED
  BY <1>1, <1>2, <1>3 DEF AtRest, Rightly

LEMMA ScanEnabledKeeps ==
    ASSUME FollowInv, Bands!ScanEnabled
    PROVE  FollowInv'
<1> DEFINE on == Bands!Enabled(ranges)
           band == Head(on)
           needed == IF rate > band.rate THEN rate ELSE band.rate
           center == Bands!InitialCenter(band, (needed * 9) \div 10)
<1>1. /\ Bands!Quiet /\ on # <<>> /\ rate' = needed /\ radio' = center
      /\ Bands!StartedIn(band, center)
      /\ cycle' = on /\ left' = active'
      /\ UNCHANGED <<ranges, bandsDisk, edited, commands, step, request, overlapped>>
  BY DEF Bands!ScanEnabled, Bands!config
<1>2. /\ ranges \in Seq(OrderedBank) /\ rate \in Nat
  BY DEF FollowInv, FollowTypes
<1>3. /\ on \in Seq(OrderedBank)
      /\ \A m \in 1 .. Len(on) : \E i \in 1 .. Len(ranges) : on[m] = ranges[i]
  BY <1>2, EnabledOnes
<1> HIDE DEF on
<1>4. \A m \in 1 .. Len(on) : InForce(on[m], ranges, edited)
  BY <1>3, ElementOfSeq DEF InForce
<1>5. band \in OrderedBank /\ InForce(band, ranges, edited)
  <2>1. band = on[1] /\ 1 \in 1 .. Len(on)
    BY <1>1, <1>3
  <2>2. QED
    BY <1>4, <2>1 DEF InForce
<1> HIDE DEF band
<1>6. needed \in Nat /\ (needed * 9) \div 10 \in Nat
  BY <1>2, <1>5, OrderedIs
<1> HIDE DEF needed
<1>7. center \in Nat /\ Bands!Holds(band, center)
  BY <1>5, <1>6, CenterInBank
<1> HIDE DEF center
<1>8. Bands!Quiet'
  BY <1>1 DEF Bands!Quiet, Bands!AllIdle
<1>9. AtRest' /\ vfo' \in [freq : Nat, mode : STRING] /\ active' = band
  BY <1>1, <1>5, <1>6, <1>7, <1>8, StartedAtRest
<1>10. FollowTypes'
  BY <1>1, <1>3, <1>4, <1>5, <1>6, <1>7, <1>9 DEF FollowInv, FollowTypes
<1>11. QED
  BY <1>9, <1>10 DEF FollowInv

LEMMA DecideKeeps ==
    ASSUME FollowInv, Bands!DecideSwitch
    PROVE  FollowInv'
<1>1. /\ active.name \in Bands!Names(cycle) /\ step' = Bands!NextCycleRange
      /\ UNCHANGED <<ranges, bandsDisk, edited, radio, rate, active, vfo, commands, cycle, request,
                     overlapped, left>>
  BY DEF Bands!DecideSwitch, Bands!config
<1>2. cycle \in Seq(OrderedBank) /\ \A i \in 1 .. Len(cycle) : InForce(cycle[i], ranges, edited)
  BY DEF FollowInv, FollowTypes
<1>3. PICK i \in 1 .. Len(cycle) : step' = cycle[i]
  BY <1>1, <1>2, NextInCycle
<1>4. InForce(step', ranges, edited)
  BY <1>2, <1>3
<1>5. FollowTypes'
  BY <1>1, <1>4 DEF FollowInv, FollowTypes, Wanted
<1>6. QED
  BY <1>4, <1>5, InForceIs DEF FollowInv

LEMMA SwitchKeeps ==
    ASSUME FollowInv, Bands!SwitchRange
    PROVE  FollowInv'
<1> DEFINE needed == IF rate > step.rate THEN rate ELSE step.rate
           center == Bands!InitialCenter(step, (needed * 9) \div 10)
<1>1. /\ step # Bands!NoBand /\ rate' = needed /\ radio' = center
      /\ Bands!StartedIn(step, radio') /\ step' = Bands!NoBand
      /\ overlapped' = (overlapped \/ commands # <<>> \/ ~Bands!AllIdle)
      /\ left' = active'
      /\ UNCHANGED <<ranges, bandsDisk, edited, commands, cycle, request>>
  BY DEF Bands!SwitchRange, Bands!config
<1>2. step \in OrderedBank /\ InForce(step, ranges, edited) /\ rate \in Nat
  BY <1>1 DEF FollowInv, FollowTypes, Wanted, InForce
<1>3. needed \in Nat /\ (needed * 9) \div 10 \in Nat
  BY <1>2, OrderedIs
<1> HIDE DEF needed
<1>4. center \in Nat /\ Bands!Holds(step, center)
  BY <1>2, <1>3, CenterInBank
<1> HIDE DEF center
<1>5. active' = step /\ vfo' \in [freq : Nat, mode : STRING]
  BY <1>1, <1>2, <1>4, OrderedIs DEF Bands!StartedIn
<1>6. FollowTypes'
  BY <1>1, <1>2, <1>3, <1>4, <1>5 DEF FollowInv, FollowTypes, Wanted
<1>7. CASE commands # <<>> \/ ~Bands!AllIdle
  BY <1>1, <1>6, <1>7 DEF FollowInv
<1>8. CASE commands = <<>> /\ Bands!AllIdle
  <2>1. Bands!Quiet'
    BY <1>1, <1>8 DEF Bands!Quiet, Bands!AllIdle
  <2>2. AtRest'
    BY <1>1, <1>2, <1>3, <1>4, <2>1, StartedAtRest
  <2>3. QED
    BY <1>6, <2>2 DEF FollowInv
<1>9. QED
  BY <1>7, <1>8

LEMMA RestartsRight ==
    ASSUME FollowInv, BanksOrdered, Bands!Restart
    PROVE  FollowInv'
<1> DEFINE list == Bands!Merged(bandsDisk, Shipped)
           band == Bands!DefaultRange(list)
           center == Bands!InitialCenter(band, band.rate)
<1>1. /\ ranges' = list /\ rate' = band.rate /\ radio' = center /\ Bands!StartedIn(band, center)
      /\ commands' = <<>> /\ cycle' = <<>> /\ step' = Bands!NoBand
      /\ request' = [c \in Clients |-> Bands!Idle]
      /\ left' = active' /\ UNCHANGED <<bandsDisk, edited>>
  BY DEF Bands!Restart
<1>2. bandsDisk \in Seq(OrderedBank) /\ (~edited => bandsDisk \in Saved) /\ edited \in BOOLEAN
  BY DEF FollowInv, FollowTypes
<1>3. list \in Seq(OrderedBank) /\ 1 \in 1 .. Len(list)
  BY <1>2, MergedSome
<1>4. \E i \in 1 .. Len(list) : band = list[i]
  <2> HIDE DEF list
  <2>1. QED
    BY <1>3, DefaultOne
<1> HIDE DEF band
<1>5. band \in OrderedBank /\ band.rate \in Nat /\ InForce(band, list, edited)
  <2> HIDE DEF list
  <2>1. QED
    BY <1>3, <1>4, ElementOfSeq, OrderedIs DEF InForce
<1>6. center \in Nat /\ Bands!Holds(band, center)
  BY <1>5, CenterInBank
<1> HIDE DEF center
<1>7. /\ request' \in [Clients -> RequestType]
      /\ \A c \in Clients : Wanted(request'[c].range, ranges', edited')
      /\ \A c \in Clients : request'[c].phase = "idle"
  BY <1>1, IdleTypes
<1>8. Bands!Quiet'
  BY <1>1, <1>7 DEF Bands!Quiet, Bands!AllIdle
<1>9. AtRest' /\ vfo' \in [freq : Nat, mode : STRING] /\ active' = band
  BY <1>1, <1>5, <1>6, <1>8, StartedAtRest
<1>10. FollowTypes'
  <2>1. ranges' \in Seq(OrderedBank) /\ bandsDisk' \in Seq(OrderedBank) /\ edited' \in BOOLEAN
    BY <1>1, <1>2, <1>3
  <2>2. ~edited' => bandsDisk' \in Saved /\ ranges' = Bands!Merged(bandsDisk', Shipped)
    BY <1>1, <1>2
  <2> HIDE DEF list
  <2>3. radio' \in Nat /\ rate' \in Nat /\ InForce(active', ranges', edited')
        /\ Wanted(step', ranges', edited')
    BY <1>1, <1>5, <1>6, <1>9 DEF Wanted
  <2>4. cycle' \in Seq(OrderedBank) /\ commands' \in Seq(CommandType) /\ Len(cycle') = 0
        /\ Len(commands') = 0
    BY <1>1, EmptySeq
  <2>5. QED
    BY <1>7, <1>9, <2>1, <2>2, <2>3, <2>4 DEF FollowTypes
<1>11. QED
  BY <1>9, <1>10 DEF FollowInv

LEMMA FollowInitial == ASSUME BanksOrdered, Bands!BandInit PROVE FollowInv
<1> DEFINE list == Bands!Merged(bandsDisk, Shipped)
<1>1. /\ bandsDisk \in Saved /\ ranges = list /\ active = Bands!DefaultRange(list)
      /\ rate = active.rate /\ radio = Bands!InitialCenter(active, active.rate)
      /\ vfo = [freq |-> radio, mode |-> active.mode]
      /\ commands = <<>> /\ cycle = <<>> /\ step = Bands!NoBand
      /\ request = [c \in Clients |-> Bands!Idle] /\ edited = FALSE /\ left = active
  BY DEF Bands!BandInit
<1>2. bandsDisk \in Seq(OrderedBank)
  BY <1>1 DEF BanksOrdered
<1>3. list \in Seq(OrderedBank) /\ 1 \in 1 .. Len(list)
  BY <1>2, MergedSome
<1> HIDE DEF list
<1>4. PICK i \in 1 .. Len(list) : active = list[i]
  BY <1>1, <1>3, DefaultOne
<1>5. /\ active \in OrderedBank /\ active.rate \in Nat /\ active.mode \in STRING
      /\ InForce(active, ranges, edited)
  BY <1>1, <1>3, <1>4, ElementOfSeq, OrderedIs DEF InForce
<1>6. radio \in Nat /\ Bands!Holds(active, radio)
  BY <1>1, <1>5, CenterInBank
<1>7. /\ request \in [Clients -> RequestType]
      /\ \A c \in Clients : Wanted(request[c].range, ranges, edited)
      /\ Bands!Quiet
  BY <1>1, IdleTypes DEF Bands!Quiet, Bands!AllIdle
<1>8. AtRest
  <2>1. Rightly(active)
    BY <1>1, <1>6, StartsRight DEF Rightly
  <2>2. Near(vfo.freq, radio, rate)
    BY <1>1, <1>5, <1>6, NearItself
  <2>3. QED
    BY <1>7, <2>1, <2>2 DEF AtRest
<1>9. FollowTypes
  <2>1. cycle \in Seq(OrderedBank) /\ commands \in Seq(CommandType) /\ Len(cycle) = 0
        /\ Len(commands) = 0
    BY <1>1, EmptySeq
  <2>2. ~edited => bandsDisk \in Saved /\ ranges = Bands!Merged(bandsDisk, Shipped)
    BY <1>1 DEF list
  <2>3. /\ ranges \in Seq(OrderedBank) /\ edited \in BOOLEAN /\ radio \in Nat /\ rate \in Nat
        /\ vfo \in [freq : Nat, mode : STRING] /\ Wanted(step, ranges, edited)
    BY <1>1, <1>3, <1>5, <1>6 DEF Wanted
  <2>4. QED
    BY <1>2, <1>5, <1>7, <2>1, <2>2, <2>3 DEF FollowTypes
<1>10. QED
  BY <1>8, <1>9 DEF FollowInv

\* While the operator edits, nothing is claimed of the bank in force but that it
\* is one.
LEMMA EditedFollows ==
    ASSUME FollowInv, NEW list \in Seq(OrderedBank), NEW wishes, Bands!Edited(list, wishes)
    PROVE  FollowInv'
<1>1. /\ ranges' = list /\ bandsDisk' = list /\ edited' = TRUE /\ overlapped' = TRUE
      /\ UNCHANGED <<radio, rate, active, vfo, commands, cycle, step, request>>
  BY DEF Bands!Edited
<1>2. /\ InForce(active', list, TRUE) /\ Wanted(step', list, TRUE)
      /\ \A i \in 1 .. Len(cycle) : InForce(cycle'[i], list, TRUE)
      /\ \A c \in Clients : Wanted(request'[c].range, list, TRUE)
      /\ \A i \in 1 .. Len(commands') :
            commands'[i].kind = "FollowRetune" => Wanted(commands'[i].range, list, TRUE)
  BY <1>1, InForceIs DEF FollowInv, FollowTypes, Wanted
<1>3. FollowTypes'
  BY <1>1, <1>2 DEF FollowInv, FollowTypes
<1>4. QED
  BY <1>1, <1>3 DEF FollowInv

LEMMA EditsFollow ==
    ASSUME FollowInv, BanksOrdered,
           \/ \E b \in Written : Bands!CreateBank(b)
           \/ \E a, b \in Written : Bands!ImportBanks(<<a, b>>)
           \/ \E name \in Touched : Bands!DeleteBank(name) \/ \E on \in BOOLEAN : Bands!EnableBank(name, on)
    PROVE  FollowInv'
<1>1. ranges \in Seq(OrderedBank) /\ Written \subseteq OrderedBank
  BY DEF FollowInv, FollowTypes, BanksOrdered
<1>2. ASSUME NEW b \in Written, Bands!CreateBank(b) PROVE FollowInv'
  <2>1. Bands!Created(ranges, b) \in Seq(OrderedBank)
    BY <1>1, CreatedOne
  <2>2. QED
    BY <1>2, <2>1, EditedFollows DEF Bands!CreateBank
<1>3. ASSUME NEW a \in Written, NEW b \in Written, Bands!ImportBanks(<<a, b>>) PROVE FollowInv'
  <2>1. Bands!Created(ranges, a) \in Seq(OrderedBank)
    BY <1>1, CreatedOne
  <2>2. Bands!Created(Bands!Created(ranges, a), b) \in Seq(OrderedBank)
    BY <1>1, <2>1, CreatedOne
  <2>3. Bands!Imported(ranges, <<a, b>>) \in Seq(OrderedBank)
    BY <2>2, ImportedTwo
  <2>4. QED
    BY <1>3, <2>3, EditedFollows DEF Bands!ImportBanks
<1>4. ASSUME NEW name \in Touched, Bands!DeleteBank(name) PROVE FollowInv'
  <2>1. Bands!Without(ranges, name) \in Seq(OrderedBank)
    BY <1>1, WithoutOne
  <2>2. QED
    BY <1>4, <2>1, EditedFollows DEF Bands!DeleteBank
<1>5. ASSUME NEW name \in Touched, NEW on \in BOOLEAN, Bands!EnableBank(name, on) PROVE FollowInv'
  <2> DEFINE i == Bands!FirstOf(ranges, name)
             new == [ranges[i] EXCEPT !.enabled = on]
             list == Bands!SetEnabled(ranges, name, on)
  <2>1. name \in Bands!Names(ranges)
    BY <1>5 DEF Bands!EnableBank
  <2>2. i \in 1 .. Len(ranges) /\ ranges[i] \in OrderedBank
    BY <1>1, <2>1, NamesOf, HasFirst
  <2>3. new \in OrderedBank
    BY <2>2 DEF OrderedBank, BankType
  <2>4. list = [ranges EXCEPT ![i] = new]
    BY DEF Bands!SetEnabled
  <2> HIDE DEF i, new
  <2>5. list \in Seq(OrderedBank)
    BY <1>1, <2>2, <2>3, <2>4, ExceptSeq
  <2> HIDE DEF list
  <2>6. QED
    BY <1>5, <2>5, EditedFollows DEF Bands!EnableBank, list
<1>6. QED
  BY <1>2, <1>3, <1>4, <1>5

LEMMA FollowStepKeeps == ASSUME FollowInv, BanksOrdered, Bands!BandNext PROVE FollowInv'
<1>1. ASSUME NEW c \in Clients, NEW f \in Points,
             Bands!TuneReceiver(c, f) \/ Bands!TuneDevice(c, f) \/ Bands!PlaceVfoOutside(c, f)
      PROVE  FollowInv'
  <2> DEFINE tuned == [Bands!Idle EXCEPT !.phase = "tuned"]
             placed == [Bands!Idle EXCEPT !.phase = "tuned", !.vfoTo = f]
  <2>1. Bands!Tunes(c, f, tuned) \/ Bands!Tunes(c, f, placed)
    BY <1>1 DEF Bands!TuneReceiver, Bands!TuneDevice, Bands!PlaceVfoOutside
  <2>2. QED
    BY <2>1, TunesKeeps, Zenon
<1>2. CASE \E c \in Clients, f \in Points : Bands!PlaceVfoInside(c, f)
  BY <1>2, PlaceInsideKeeps
<1>3. CASE \E c \in Clients : Bands!ChooseBank(c) \/ Bands!SendFollow(c)
  BY <1>3, ChooseKeeps, SendFollowKeeps
<1>4. CASE Bands!FollowRetune \/ Bands!SetVfoFrequency
  BY <1>4, FollowRetuneKeeps, SetVfoKeeps
<1>5. CASE Bands!ScanEnabled \/ Bands!DecideSwitch \/ Bands!SwitchRange
  BY <1>5, ScanEnabledKeeps, DecideKeeps, SwitchKeeps
<1>6. CASE \/ \E b \in Written : Bands!CreateBank(b)
           \/ \E a, b \in Written : Bands!ImportBanks(<<a, b>>)
           \/ \E name \in Touched :
                 Bands!DeleteBank(name) \/ \E on \in BOOLEAN : Bands!EnableBank(name, on)
  BY <1>6, EditsFollow
<1>7. CASE Bands!Restart
  BY <1>7, RestartsRight
<1>8. QED
  BY <1>1, <1>2, <1>3, <1>4, <1>5, <1>6, <1>7 DEF Bands!BandNext

FollowInvariant == scene = "bands" => FollowInv

LEMMA FollowAlways == ASSUME BanksOrdered PROVE Spec => []FollowInvariant
<1>1. Init => FollowInvariant
  BY FollowInitial DEF Init, FollowInvariant
<1>2. FollowInvariant /\ [Next]_vars => FollowInvariant'
  <2> SUFFICES ASSUME FollowInvariant, [Next]_vars PROVE FollowInvariant'
    OBVIOUS
  <2>1. CASE BandsStep
    BY <2>1, FollowStepKeeps DEF BandsStep, FollowInvariant
  <2>2. CASE WindowsStep \/ FeedStep \/ RecStep \/ TrunkStep \/ InstallStep \/ SoundStep
    BY <2>2 DEF WindowsStep, FeedStep, RecStep, TrunkStep, InstallStep, SoundStep, FollowInvariant
  <2>3. CASE UNCHANGED vars
    BY <2>3 DEF vars, bandsVars, FollowInvariant, FollowInv, FollowTypes, AtRest, Retuning, Following,
       Placing, Rightly, Bands!Quiet, Bands!AllIdle
  <2>4. QED
    BY <2>1, <2>2, <2>3 DEF Next
<1>3. QED
  BY <1>1, <1>2, PTL DEF Spec

LEMMA SettledIsRight ==
    ASSUME FollowInv, Bands!Settled
    PROVE  /\ Bands!BankHoldsRadio /\ Bands!InWindow(vfo.freq)
           /\ Bands!TablesServe => Bands!ServiceSelected
<1>1. AtRest
  BY DEF FollowInv, Bands!Settled, Bands!Quiet, Bands!AllIdle, Retuning, Following, Placing
<1>2. DOMAIN ranges = 1 .. Len(ranges)
  BY LenProperties DEF FollowInv, FollowTypes
<1>3. QED
  BY <1>1, <1>2 DEF AtRest, Rightly, Right, Fits, Near, Bands!BankHoldsRadio, Bands!InWindow,
     Bands!ServiceSelected

\* For any banks that are intervals, whatever clients and the operator do: when a
\* retune that nothing disturbed has settled, the scanner's bank is one that holds
\* the radio, if any does, and its slot is where it can be channelized.
THEOREM BankFollowsRadio ==
    ASSUME BanksOrdered
    PROVE  Spec => [](scene = "bands" /\ Bands!Settled => Bands!BankHoldsRadio /\ Bands!InWindow(vfo.freq))
<1>1. FollowInvariant
        => (scene = "bands" /\ Bands!Settled => Bands!BankHoldsRadio /\ Bands!InWindow(vfo.freq))
  BY SettledIsRight DEF FollowInvariant
<1>2. QED
  BY <1>1, FollowAlways, PTL

\* If moreover the tables alone lead from any bank to one whose decoders are those
\* of the point tuned to, no order of steps keeps a retune from reaching them.
THEOREM RetunesSettle ==
    ASSUME BanksOrdered, Bands!TablesServe
    PROVE  Spec => []RetuneSettles
<1>1. FollowInvariant => RetuneSettles
  BY SettledIsRight DEF FollowInvariant, RetuneSettles, Bands!RetuneSettles
<1>2. QED
  BY <1>1, FollowAlways, PTL

----------------------------------------------------------------------------
(* Windows of the native decoders *)

UnitType == [burst : Nat, part : Nat]

\* How many parts of a burst were transmitted, and whether more will be.
Sent(b) == IF b = Len(bursts) THEN part ELSE bursts[b]
Going(b) == b = Len(bursts) /\ part < bursts[b]

\* Parts 1 .. n of burst b stand in s in their order; if more are to come they
\* are the last that s holds.
Stands(b, n, going, s) ==
    \E i \in 1 .. Len(s) :
        /\ i + n - 1 <= Len(s)
        /\ \A k \in 1 .. n : s[i + k - 1] = [burst |-> b, part |-> k]
        /\ going => i + n - 1 = Len(s)

\* What is in the window or on the air was transmitted.
Sendable(u, sizes, p) ==
    \/ u = [burst |-> 0, part |-> 0]
    \/ /\ u.burst \in 1 .. Len(sizes)
       /\ u.part \in 1 .. IF u.burst = Len(sizes) THEN p ELSE sizes[u.burst]

WindowTypes ==
    /\ kind \in Kinds
    /\ window \in Seq(UnitType) /\ air \in Seq(UnitType) /\ Len(air) <= ChunkUnits[kind]
    /\ bursts \in Seq(Nat \ {0})
    /\ heard \in Seq(Nat) /\ Len(heard) = Len(bursts)
    /\ part \in Nat
    /\ bursts # <<>> => part \in 1 .. bursts[Len(bursts)]
    /\ \A i \in 1 .. Len(window \o air) : Sendable((window \o air)[i], bursts, part)

\* Where chunks are no longer than half the window, another one never makes a
\* window of packets exceed its cap: nothing is cut off at its old end.  A window
\* of text is not full, or no longer than a chunk.
WindowSize ==
    IF kind \in {"rds", "hf"} THEN Len(window) + 1 <= Cap[kind] \/ Len(window) <= ChunkUnits[kind]
    ELSE 2 * ChunkUnits[kind] <= Cap[kind] => Len(window) + ChunkUnits[kind] <= Cap[kind]

\* A burst nothing spoiled is published, or stands in window and air as far as
\* it was transmitted.
StillThere(b) ==
    b \notin spoiled /\ Windows!Fits(b) /\ heard[b] = 0 => Stands(b, Sent(b), Going(b), window \o air)

\* A packet that was published has no beginning left to be found again.
HeardOnce(b) ==
    kind \notin {"rds", "hf"} =>
        /\ heard[b] <= 1
        /\ heard[b] > 0 =>
              \A i \in 1 .. Len(window \o air) : (window \o air)[i] # [burst |-> b, part |-> 1]

\* The text published last: the end of a burst is in it when the burst was whole.
LastText ==
    kind = "hf" =>
        /\ last \in Seq(UnitType)
        /\ \A i \in 1 .. Len(last) : last[i].burst \in 1 .. Len(bursts)
        /\ \A i \in 1 .. Len(last) : \A b \in 1 .. Len(bursts) :
              last[i] = [burst |-> b, part |-> bursts[b]] /\ Windows!Fits(b)
                  => heard[b] > 0 \/ b \in spoiled

LastStation ==
    kind = "rds" => last = <<>> \/ \E b \in 1 .. Len(bursts) : last = <<b>> /\ heard[b] > 0

WindowInv ==
    /\ WindowTypes /\ WindowSize /\ LastText /\ LastStation
    /\ \A b \in 1 .. Len(bursts) : StillThere(b) /\ HeardOnce(b)

----------------------------------------------------------------------------
(* Bursts that stand in a window *)

LEMMA StandsNoEnd ==
    ASSUME NEW b, NEW n \in Nat, NEW going \in BOOLEAN, NEW s, Stands(b, n, going, s)
    PROVE  Stands(b, n, FALSE, s)
  BY DEF Stands

\* A newer part that is long enough keeps a burst that is the last in s.
LEMMA StandsInNewest ==
    ASSUME NEW s \in Seq(UnitType), NEW m \in 1 .. Len(s), NEW b, NEW n \in 1 .. m,
           NEW going \in BOOLEAN, Stands(b, n, TRUE, s)
    PROVE  Stands(b, n, going, Windows!NewestOf(s, m))
<1> DEFINE t == Windows!NewestOf(s, m)
<1>1. Len(s) \in Nat /\ \A i \in 1 .. Len(s) : s[i] \in UnitType
  BY LenProperties, ElementOfSeq
<1>2. t = SubSeq(s, Len(s) - m + 1, Len(s)) /\ Len(s) - m + 1 \in 1 .. Len(s)
  BY <1>1 DEF Windows!NewestOf
<1>3. /\ Len(t) = m
      /\ \A i \in 1 .. m : t[i] = s[(Len(s) - m + 1) + i - 1]
  <2>1. Len(s) - m + 1 \in Int /\ Len(s) \in Int /\ Len(s) - (Len(s) - m + 1) + 1 = m
    BY <1>1
  <2>2. \A i \in (Len(s) - m + 1) .. Len(s) : s[i] \in UnitType
    BY <1>1
  <2>3. QED
    BY <1>2, <2>1, <2>2, SubSeqProperties
<1>4. PICK i \in 1 .. Len(s) :
        /\ i + n - 1 = Len(s)
        /\ \A k \in 1 .. n : s[i + k - 1] = [burst |-> b, part |-> k]
  BY DEF Stands
<1>0. m \in Nat /\ n \in Nat /\ 1 <= n /\ n <= m /\ m <= Len(s)
  BY <1>1
<1>5. PICK j \in 1 .. m : j = m - n + 1
  BY <1>0
<1> HIDE DEF t
<1>6. ASSUME NEW k \in 1 .. n PROVE t[j + k - 1] = [burst |-> b, part |-> k]
  <2>0. k \in Nat /\ 1 <= k /\ k <= n /\ i \in Nat /\ i = Len(s) - n + 1
    BY <1>0, <1>1, <1>4
  <2>1. j + k - 1 \in 1 .. m /\ (Len(s) - m + 1) + (j + k - 1) - 1 = i + k - 1
    BY <1>0, <1>1, <1>5, <2>0
  <2>2. QED
    BY <1>3, <1>4, <2>1
<1>7. Stands(b, n, going, t)
  <2>0. Len(t) = m
    BY <1>3
  <2>1. j \in 1 .. Len(t) /\ j + n - 1 = Len(t) /\ j + n - 1 <= Len(t)
    BY <1>0, <1>5, <2>0
  <2>2. \A k \in 1 .. n : t[j + k - 1] = [burst |-> b, part |-> k]
    BY <1>6
  <2>3. \E h \in 1 .. Len(t) :
            /\ h + n - 1 <= Len(t)
            /\ \A k \in 1 .. n : t[h + k - 1] = [burst |-> b, part |-> k]
            /\ going => h + n - 1 = Len(t)
    BY <2>1, <2>2, Zenon
  <2>4. QED
    BY <2>3 DEF Stands
<1>8. QED
  BY <1>7 DEF t

\* One more unit after s.
LEMMA StandsBefore ==
    ASSUME NEW s \in Seq(UnitType), NEW u \in UnitType, NEW b, NEW n \in Nat \ {0},
           Stands(b, n, FALSE, s)
    PROVE  Stands(b, n, FALSE, Append(s, u))
<1>1. /\ Len(s) \in Nat /\ Len(Append(s, u)) = Len(s) + 1
      /\ \A i \in 1 .. Len(s) : Append(s, u)[i] = s[i]
  BY LenProperties, AppendProperties
<1>2. PICK i \in 1 .. Len(s) :
        /\ i + n - 1 <= Len(s)
        /\ \A k \in 1 .. n : s[i + k - 1] = [burst |-> b, part |-> k]
  BY DEF Stands
<1>3. \A k \in 1 .. n : Append(s, u)[i + k - 1] = [burst |-> b, part |-> k]
  <2>1. \A k \in 1 .. n : i + k - 1 \in 1 .. Len(s)
    BY <1>1, <1>2
  <2>2. QED
    BY <1>1, <1>2, <2>1
<1>4. i \in 1 .. Len(Append(s, u)) /\ i + n - 1 <= Len(Append(s, u))
  BY <1>1, <1>2
<1>5. QED
  BY <1>3, <1>4 DEF Stands

LEMMA StandsGrows ==
    ASSUME NEW s \in Seq(UnitType), NEW b \in Nat, NEW n \in Nat \ {0}, NEW going \in BOOLEAN,
           Stands(b, n, TRUE, s)
    PROVE  Stands(b, n + 1, going, Append(s, [burst |-> b, part |-> n + 1]))
<1> DEFINE u == [burst |-> b, part |-> n + 1]
           t == Append(s, u)
<1>1. u \in UnitType
  BY DEF UnitType
<1>2. /\ Len(s) \in Nat /\ Len(t) = Len(s) + 1 /\ t[Len(s) + 1] = u
      /\ \A i \in 1 .. Len(s) : t[i] = s[i]
  <2> HIDE DEF u
  <2>1. QED
    BY <1>1, LenProperties, AppendProperties
<1>3. PICK i \in 1 .. Len(s) :
        /\ i + n - 1 = Len(s)
        /\ \A k \in 1 .. n : s[i + k - 1] = [burst |-> b, part |-> k]
  BY DEF Stands
<1> HIDE DEF t
<1>4. ASSUME NEW k \in 1 .. n + 1 PROVE t[i + k - 1] = [burst |-> b, part |-> k]
  <2>1. CASE k = n + 1
    BY <1>2, <1>3, <2>1
  <2>2. CASE k \in 1 .. n
    <3>1. i + k - 1 \in 1 .. Len(s)
      BY <1>2, <1>3, <2>2
    <3>2. QED
      BY <1>2, <1>3, <2>2, <3>1
  <2>3. QED
    BY <2>1, <2>2
<1>5. i \in 1 .. Len(t) /\ i + (n + 1) - 1 = Len(t)
  BY <1>2, <1>3
<1>6. Stands(b, n + 1, going, t)
  BY <1>2, <1>4, <1>5 DEF Stands
<1>7. QED
  BY <1>6 DEF t

LEMMA StandsBegins ==
    ASSUME NEW s \in Seq(UnitType), NEW b \in Nat, NEW going \in BOOLEAN
    PROVE  Stands(b, 1, going, Append(s, [burst |-> b, part |-> 1]))
<1> DEFINE u == [burst |-> b, part |-> 1]
           t == Append(s, u)
<1>1. u \in UnitType
  BY DEF UnitType
<1>2. Len(s) \in Nat /\ Len(t) = Len(s) + 1 /\ t[Len(s) + 1] = u
  <2> HIDE DEF u
  <2>1. QED
    BY <1>1, LenProperties, AppendProperties
<1> HIDE DEF t
<1>3. PICK i \in 1 .. Len(t) : i = Len(s) + 1 /\ i + 1 - 1 = Len(t) /\ i + 1 - 1 <= Len(t)
  BY <1>2
<1>4. \A k \in 1 .. 1 : t[i + k - 1] = [burst |-> b, part |-> k]
  BY <1>2, <1>3
<1>5. Stands(b, 1, going, t)
  BY <1>3, <1>4 DEF Stands
<1>6. QED
  BY <1>5 DEF t

LEMMA StandsIsIn ==
    ASSUME NEW s \in Seq(UnitType), NEW b \in Nat \ {0}, NEW n \in Nat \ {0}, NEW going \in BOOLEAN,
           Stands(b, n, going, s)
    PROVE  /\ b \in Windows!BurstsIn(s)
           /\ \E i \in 1 .. Len(s) : s[i] = [burst |-> b, part |-> 1]
<1>1. PICK i \in 1 .. Len(s) : \A k \in 1 .. n : s[i + k - 1] = [burst |-> b, part |-> k]
  BY DEF Stands
<1>2. s[i] = [burst |-> b, part |-> 1]
  <2>1. 1 \in 1 .. n /\ i + 1 - 1 = i
    BY LenProperties
  <2>2. QED
    BY <1>1, <2>1
<1>3. i \in DOMAIN s
  BY LenProperties
<1>4. QED
  BY <1>2, <1>3 DEF Windows!BurstsIn

\* A burst of which nothing is in the chunk that ends s stands before it.
LEMMA StandsWithout ==
    ASSUME NEW w \in Seq(UnitType), NEW a \in Seq(UnitType), NEW b \in Nat \ {0}, NEW n \in Nat \ {0},
           NEW going \in BOOLEAN, Stands(b, n, going, w \o a), b \notin Windows!BurstsIn(a),
           Len(a) # 0
    PROVE  ~going /\ Stands(b, n, FALSE, w)
<1>1. /\ Len(w) \in Nat /\ Len(a) \in Nat \ {0} /\ Len(w \o a) = Len(w) + Len(a)
      /\ DOMAIN a = 1 .. Len(a)
      /\ \A i \in 1 .. Len(w) + Len(a) : (w \o a)[i] = IF i <= Len(w) THEN w[i] ELSE a[i - Len(w)]
  BY LenProperties, ConcatProperties
<1>2. \A i \in 1 .. Len(a) : a[i].burst # b
  BY <1>1 DEF Windows!BurstsIn
<1>3. PICK i \in 1 .. Len(w \o a) :
        /\ i + n - 1 <= Len(w \o a)
        /\ \A k \in 1 .. n : (w \o a)[i + k - 1] = [burst |-> b, part |-> k]
        /\ going => i + n - 1 = Len(w \o a)
  BY DEF Stands
<1>4. ASSUME NEW k \in 1 .. n PROVE i + k - 1 \in 1 .. Len(w) /\ w[i + k - 1] = [burst |-> b, part |-> k]
  <2>1. i + k - 1 \in 1 .. Len(w) + Len(a)
    BY <1>1, <1>3
  <2>2. CASE i + k - 1 > Len(w)
    <3>1. (i + k - 1) - Len(w) \in 1 .. Len(a)
      BY <1>1, <2>1, <2>2
    <3>2. a[(i + k - 1) - Len(w)] = [burst |-> b, part |-> k]
      BY <1>1, <1>3, <2>1, <2>2
    <3>3. a[(i + k - 1) - Len(w)].burst = b
      BY <3>2
    <3>4. QED
      BY <1>2, <3>1, <3>3
  <2>3. CASE i + k - 1 <= Len(w)
    BY <1>1, <1>3, <2>1, <2>3
  <2>4. QED
    BY <1>1, <2>1, <2>2, <2>3
<1>5. i + n - 1 <= Len(w) /\ i \in 1 .. Len(w)
  <2>1. n \in 1 .. n /\ 1 \in 1 .. n /\ i + 1 - 1 = i
    BY <1>1
  <2>2. i + n - 1 \in 1 .. Len(w) /\ i + 1 - 1 \in 1 .. Len(w)
    BY <1>4, <2>1
  <2>3. QED
    BY <1>1, <2>1, <2>2
<1>6. Stands(b, n, FALSE, w)
  BY <1>4, <1>5 DEF Stands
<1>7. i + n - 1 # Len(w \o a)
  BY <1>1, <1>5
<1>8. QED
  BY <1>3, <1>6, <1>7

----------------------------------------------------------------------------
(* What the decoders find *)

LEMMA FirstHeadIs ==
    ASSUME NEW s \in Seq(UnitType), Windows!Heads(s) # {}
    PROVE  /\ Windows!FirstHead(s) \in 1 .. Len(s) /\ s[Windows!FirstHead(s)].part = 1
           /\ \A i \in 1 .. Len(s) : s[i].part = 1 => Windows!FirstHead(s) <= i
<1>1. Windows!Heads(s) = {i \in 1 .. Len(s) : s[i].part = 1}
  BY LenProperties DEF Windows!Heads
<1>2. Windows!Heads(s) \subseteq Nat
  BY <1>1
<1>3. \E i \in Windows!Heads(s) : \A j \in Windows!Heads(s) : i <= j
  BY <1>2, LeastPlace
<1>4. /\ Windows!FirstHead(s) \in Windows!Heads(s)
      /\ \A j \in Windows!Heads(s) : Windows!FirstHead(s) <= j
  BY <1>3 DEF Windows!FirstHead
<1>5. QED
  BY <1>1, <1>4

\* Parts that fill more than half of a window outnumber every other station's.
LEMMA MostIsDominant ==
    ASSUME NEW s \in Seq(UnitType), NEW b \in Nat \ {0}, NEW n \in Nat \ {0},
           NEW going \in BOOLEAN, Stands(b, n, going, s), 2 * n > Len(s)
    PROVE  Windows!Dominant(s) = {b}
<1> DEFINE Of(c) == {i \in DOMAIN s : s[i].burst = c}
<1>1. Len(s) \in Nat /\ DOMAIN s = 1 .. Len(s)
  BY LenProperties
<1>2. IsFiniteSet(1 .. Len(s)) /\ Cardinality(1 .. Len(s)) = Len(s)
  <2>0. 1 \in Int /\ Len(s) \in Int
    BY <1>1
  <2>1. /\ IsFiniteSet(1 .. Len(s))
        /\ Cardinality(1 .. Len(s)) = IF 1 > Len(s) THEN 0 ELSE Len(s) - 1 + 1
    BY <2>0, FS_Interval, Zenon
  <2>2. QED
    BY <1>1, <2>1
<1>3. \A c : IsFiniteSet(Of(c)) /\ Cardinality(Of(c)) \in Nat
  <2> TAKE c
  <2>1. Of(c) \subseteq 1 .. Len(s)
    BY <1>1
  <2> HIDE DEF Of
  <2>2. QED
    BY <1>2, <2>1, FS_Subset, FS_CardinalityType
<1>4. Cardinality(Of(b)) >= n
  <2>1. PICK i \in 1 .. Len(s) :
          /\ i + n - 1 <= Len(s)
          /\ \A k \in 1 .. n : s[i + k - 1] = [burst |-> b, part |-> k]
    BY DEF Stands
  <2>2. i .. i + n - 1 \subseteq Of(b)
    <3> SUFFICES ASSUME NEW j \in i .. i + n - 1 PROVE j \in DOMAIN s /\ s[j].burst = b
      OBVIOUS
    <3>1. j - i + 1 \in 1 .. n /\ i + (j - i + 1) - 1 = j /\ j \in 1 .. Len(s)
      BY <1>1, <2>1
    <3>2. s[j] = [burst |-> b, part |-> j - i + 1]
      BY <2>1, <3>1
    <3>3. QED
      BY <1>1, <3>1, <3>2
  <2>3. Cardinality(i .. i + n - 1) = n
    <3>1. /\ i \in Int /\ i + n - 1 \in Int
          /\ n = IF i > i + n - 1 THEN 0 ELSE (i + n - 1) - i + 1
      BY <1>1, <2>1
    <3>2. QED
      BY <3>1, FS_Interval
  <2> HIDE DEF Of
  <2>4. Cardinality(i .. i + n - 1) <= Cardinality(Of(b))
    BY <1>3, <2>2, FS_Subset
  <2>5. QED
    BY <1>3, <2>3, <2>4
<1>5. ASSUME NEW c, c # b PROVE Cardinality(Of(c)) < Cardinality(Of(b))
  <2>1. Of(b) \cup Of(c) \subseteq 1 .. Len(s) /\ Of(b) \cap Of(c) = {}
    BY <1>1, <1>5
  <2> HIDE DEF Of
  <2>2. /\ Cardinality(Of(b) \cup Of(c))
              = Cardinality(Of(b)) + Cardinality(Of(c)) - Cardinality({})
        /\ IsFiniteSet(Of(b) \cup Of(c))
    BY <1>3, <2>1, FS_Union
  <2>3. Cardinality({}) = 0
    BY FS_EmptySet
  <2>4. Cardinality(Of(b) \cup Of(c)) <= Len(s)
    BY <1>2, <2>1, FS_Subset
  <2>5. QED
    BY <1>1, <1>3, <1>4, <2>2, <2>3, <2>4
<1>6. \A c : Windows!Groups(c, s) = Cardinality(Of(c))
  BY DEF Windows!Groups, Windows!Cardinality, Cardinality
<1> HIDE DEF Of
<1>7. b \in Windows!BurstsIn(s)
  BY StandsIsIn
<1>8. \A c : Windows!Groups(c, s) <= Windows!Groups(b, s)
  BY <1>3, <1>5, <1>6
<1>9. \A c \in Windows!Dominant(s) : c = b
  <2> SUFFICES ASSUME NEW c \in Windows!Dominant(s), c # b PROVE FALSE
    OBVIOUS
  <2>1. Windows!Groups(b, s) <= Windows!Groups(c, s)
    BY <1>7 DEF Windows!Dominant
  <2>2. QED
    BY <1>3, <1>5, <1>6, <2>1
<1>10. b \in Windows!Dominant(s)
  BY <1>7, <1>8 DEF Windows!Dominant
<1>11. QED
  BY <1>9, <1>10

LEMMA StandsWhole ==
    ASSUME NEW s \in Seq(UnitType), NEW b
    PROVE  Windows!Whole(b, s) <=> Stands(b, bursts[b], FALSE, s)
<1>1. DOMAIN s = 1 .. Len(s)
  BY LenProperties
<1>2. QED
  BY <1>1 DEF Windows!Whole, Stands

LEMMA CountedIs ==
    ASSUME WindowTypes, NEW found, heard' = Windows!Counted(found)
    PROVE  /\ heard' \in Seq(Nat) /\ Len(heard') = Len(heard)
           /\ \A b \in 1 .. Len(bursts) :
                 heard'[b] = IF b \in found THEN heard[b] + 1 ELSE heard[b]
<1>1. heard \in Seq(Nat) /\ DOMAIN heard = 1 .. Len(heard) /\ Len(heard) \in Nat
  BY LenProperties DEF WindowTypes
<1>2. \A b \in 1 .. Len(heard) : heard[b] \in Nat
  BY <1>1, ElementOfSeq
<1>3. heard' = [b \in 1 .. Len(heard) |-> heard[b] + (IF b \in found THEN 1 ELSE 0)]
  BY <1>1 DEF Windows!Counted
<1>4. heard' \in [1 .. Len(heard) -> Nat]
  BY <1>2, <1>3
<1>5. heard' \in Seq(Nat)
  BY <1>1, <1>4, SeqDef
<1>6. Len(heard') = Len(heard)
  BY <1>1, <1>3, <1>5, LenProperties
<1>7. Len(heard) = Len(bursts)
  BY DEF WindowTypes
<1>8. \A b \in 1 .. Len(heard) : heard'[b] = IF b \in found THEN heard[b] + 1 ELSE heard[b]
  BY <1>2, <1>3
<1>9. QED
  BY <1>5, <1>6, <1>7, <1>8

\* The window and what is on the air, before a step.
LEMMA WindowFacts ==
    ASSUME WindowInv
    PROVE  /\ window \o air \in Seq(UnitType)
           /\ Len(window) \in Nat /\ Len(air) \in Nat
           /\ Len(window \o air) = Len(window) + Len(air)
           /\ Len(bursts) \in Nat /\ part \in Nat
           /\ \A b \in 1 .. Len(bursts) :
                 /\ heard[b] \in Nat /\ bursts[b] \in Nat \ {0}
                 /\ Sent(b) \in 1 .. bursts[b] /\ Going(b) \in BOOLEAN
                 /\ ~Going(b) => Sent(b) = bursts[b]
                 /\ Going(b) => Sent(b) < bursts[b]
           /\ ChunkUnits[kind] \in Nat \ {0} /\ Cap[kind] \in Nat
           /\ Len(air) <= ChunkUnits[kind]
<1>1. /\ window \o air \in Seq(UnitType) /\ Len(window \o air) = Len(window) + Len(air)
      /\ Len(window) \in Nat /\ Len(air) \in Nat
  BY ConcatProperties, LenProperties DEF WindowInv, WindowTypes
<1>2. Len(bursts) \in Nat /\ part \in Nat
  BY LenProperties DEF WindowInv, WindowTypes
<1>3. ASSUME NEW b \in 1 .. Len(bursts)
      PROVE  /\ heard[b] \in Nat /\ bursts[b] \in Nat \ {0}
             /\ Sent(b) \in 1 .. bursts[b] /\ Going(b) \in BOOLEAN
             /\ ~Going(b) => Sent(b) = bursts[b]
             /\ Going(b) => Sent(b) < bursts[b]
  <2>1. heard[b] \in Nat /\ bursts[b] \in Nat \ {0}
    BY ElementOfSeq DEF WindowInv, WindowTypes
  <2>2. bursts # <<>>
    BY EmptySeq
  <2>3. part \in 1 .. bursts[Len(bursts)]
    BY <2>2 DEF WindowInv, WindowTypes
  <2>4. QED
    BY <1>2, <2>1, <2>3 DEF Sent, Going
<1>4. /\ ChunkUnits[kind] \in Nat \ {0} /\ Cap[kind] \in Nat
      /\ Len(air) <= ChunkUnits[kind]
  BY WindowsAssumption DEF WindowInv, WindowTypes
<1>5. QED
  BY <1>1, <1>2, <1>3, <1>4

\* What is left of the window holds nothing new.
LEMMA NewerHalfIs ==
    ASSUME NEW s \in Seq(UnitType)
    PROVE  /\ Len(s) \in Nat
           /\ Windows!NewerHalf(s) = Windows!NewestOf(s, Len(s) - Len(s) \div 2)
           /\ Windows!NewerHalf(s) \in Seq(UnitType)
           /\ Len(Windows!NewerHalf(s)) = Len(s) - Len(s) \div 2
           /\ \A i \in 1 .. Len(Windows!NewerHalf(s)) :
                 \E j \in 1 .. Len(s) : Windows!NewerHalf(s)[i] = s[j]
<1>1. Len(s) \in Nat /\ \A i \in 1 .. Len(s) : s[i] \in UnitType
  BY LenProperties, ElementOfSeq
<1> DEFINE n == Len(s) \div 2
           t == SubSeq(s, n + 1, Len(s))
<1>2. n \in Nat /\ n <= Len(s)
  BY <1>1
<1>3. Windows!NewerHalf(s) = Windows!NewestOf(s, Len(s) - n)
  BY DEF Windows!NewerHalf
<1>4. Windows!NewestOf(s, Len(s) - n) = t
  <2>1. Len(s) - (Len(s) - n) + 1 = n + 1
    BY <1>1, <1>2
  <2>2. QED
    BY <2>1 DEF Windows!NewestOf
<1> HIDE DEF n
<1>5. /\ t \in Seq(UnitType) /\ Len(t) = Len(s) - n
      /\ \A i \in 1 .. Len(s) - n : t[i] = s[(n + 1) + i - 1]
  <2>1. \A i \in n + 1 .. Len(s) : s[i] \in UnitType
    BY <1>1, <1>2
  <2>2. n + 1 \in Int /\ Len(s) \in Int /\ Len(s) - (n + 1) + 1 = Len(s) - n
    BY <1>1, <1>2
  <2>3. /\ t \in Seq(UnitType) /\ Len(t) = (IF n + 1 <= Len(s) THEN Len(s) - (n + 1) + 1 ELSE 0)
        /\ \A i \in 1 .. Len(s) - (n + 1) + 1 : t[i] = s[(n + 1) + i - 1]
    BY <2>1, <2>2, SubSeqProperties
  <2> HIDE DEF t
  <2>4. Len(t) = Len(s) - n
    BY <1>1, <1>2, <2>3
  <2>5. \A i \in 1 .. Len(s) - n : t[i] = s[(n + 1) + i - 1]
    BY <2>2, <2>3, Zenon
  <2>6. QED
    BY <2>3, <2>4, <2>5, Zenon
<1> HIDE DEF t
<1>6. \A i \in 1 .. Len(t) : \E j \in 1 .. Len(s) : t[i] = s[j]
  <2> TAKE i \in 1 .. Len(t)
  <2>1. (n + 1) + i - 1 \in 1 .. Len(s) /\ t[i] = s[(n + 1) + i - 1]
    BY <1>1, <1>2, <1>5
  <2>2. QED
    BY <2>1
<1>7. QED
  BY <1>1, <1>3, <1>4, <1>5, <1>6 DEF n

----------------------------------------------------------------------------
(* The steps of the air *)

LEMMA WindowInitial == Windows!WindowInit => WindowInv
<1> SUFFICES ASSUME Windows!WindowInit PROVE WindowInv
  OBVIOUS
<1>1. kind \in Kinds /\ window = <<>> /\ last = <<>> /\ heard = <<>> /\ air = <<>> /\ bursts = <<>> /\ part = 0
  BY DEF Windows!WindowInit
<1>2. window \o air = <<>> /\ Len(window) = 0 /\ Len(bursts) = 0 /\ Len(window \o air) = 0
  <2>1. <<>> \in Seq(UnitType) /\ Len(<<>>) = 0
    BY EmptySeq
  <2>2. QED
    BY <1>1, <2>1, ConcatEmptySeq
<1>3. ChunkUnits[kind] \in Nat \ {0} /\ Cap[kind] \in Nat
  BY <1>1, WindowsAssumption
<1>4. WindowTypes
  <2>1. <<>> \in Seq(UnitType) /\ <<>> \in Seq(Nat \ {0}) /\ <<>> \in Seq(Nat) /\ Len(<<>>) = 0
    BY EmptySeq
  <2>2. Len(air) <= ChunkUnits[kind]
    BY <1>1, <1>3, <2>1
  <2>3. QED
    BY <1>1, <1>2, <2>1, <2>2 DEF WindowTypes
<1>5. WindowSize
  BY <1>2, <1>3 DEF WindowSize
<1>6. LastText /\ LastStation
  <2>1. <<>> \in Seq(UnitType) /\ Len(<<>>) = 0
    BY EmptySeq
  <2>2. QED
    BY <1>1, <2>1 DEF LastText, LastStation
<1>7. QED
  BY <1>2, <1>4, <1>5, <1>6 DEF WindowInv

LEMMA Transmitted ==
    ASSUME WindowInv, NEW u \in UnitType, Windows!Transmits(u)
    PROVE  /\ window' \in Seq(UnitType) /\ air' \in Seq(UnitType) /\ Len(air') <= ChunkUnits[kind']
           /\ window' \o air' = Append(window \o air, u)
           /\ Len(window' \o air') = Len(window \o air) + 1
           /\ (window' \o air')[Len(window \o air) + 1] = u
           /\ \A i \in 1 .. Len(window \o air) : (window' \o air')[i] = (window \o air)[i]
           /\ UNCHANGED <<kind, window, last, spoiled>>
<1>1. /\ Len(air) < ChunkUnits[kind] /\ air' = Append(air, u)
      /\ UNCHANGED <<kind, window, last, spoiled>>
  BY DEF Windows!Transmits
<1>2. window \in Seq(UnitType) /\ air \in Seq(UnitType)
  BY DEF WindowInv, WindowTypes
<1>3. window \o air \in Seq(UnitType) /\ Len(window \o air) \in Nat /\ ChunkUnits[kind] \in Nat
      /\ Len(air) \in Nat
  BY WindowFacts
<1>4. air' \in Seq(UnitType) /\ Len(air') = Len(air) + 1
  BY <1>1, <1>2, AppendProperties
<1>5. window' \o air' = Append(window \o air, u)
  <2>1. air' = air \o <<u>> /\ Append(window \o air, u) = (window \o air) \o <<u>>
    BY <1>1, <1>2, <1>3, AppendIsConcat
  <2>2. <<u>> \in Seq(UnitType)
    OBVIOUS
  <2>3. QED
    BY <1>1, <1>2, <2>1, <2>2, ConcatAssociative
<1>6. /\ Len(window' \o air') = Len(window \o air) + 1
      /\ (window' \o air')[Len(window \o air) + 1] = u
      /\ \A i \in 1 .. Len(window \o air) : (window' \o air')[i] = (window \o air)[i]
  BY <1>3, <1>5, AppendProperties
<1>7. QED
  BY <1>1, <1>2, <1>3, <1>4, <1>5, <1>6

LEMMA RestKeeps == ASSUME WindowInv, Windows!Rest PROVE WindowInv'
<1> DEFINE s == window \o air
           u == Windows!Silence
<1>1. u \in UnitType /\ u.part # 1 /\ u.part = 0
  BY DEF Windows!Silence, UnitType
<1>2. Windows!Transmits(u) /\ ~Windows!Underway /\ UNCHANGED <<bursts, part, heard>>
  BY DEF Windows!Rest
<1>3. /\ window' \in Seq(UnitType) /\ air' \in Seq(UnitType) /\ Len(air') <= ChunkUnits[kind']
      /\ window' \o air' = Append(s, u) /\ Len(window' \o air') = Len(s) + 1
      /\ (window' \o air')[Len(s) + 1] = u
      /\ \A i \in 1 .. Len(s) : (window' \o air')[i] = s[i]
      /\ UNCHANGED <<kind, window, last, spoiled>>
  BY <1>1, <1>2, Transmitted
<1>4. /\ s \in Seq(UnitType) /\ Len(s) \in Nat
      /\ \A b \in 1 .. Len(bursts) : Sent(b) \in Nat \ {0} /\ bursts[b] \in Nat /\ Going(b) \in BOOLEAN
  <2>1. /\ s \in Seq(UnitType) /\ Len(s) \in Nat
        /\ \A b \in 1 .. Len(bursts) :
              Sent(b) \in 1 .. bursts[b] /\ bursts[b] \in Nat \ {0} /\ Going(b) \in BOOLEAN
    BY WindowFacts, LenProperties
  <2>2. QED
    BY <2>1
<1>5. \A b \in 1 .. Len(bursts) :
        Sent(b)' = Sent(b) /\ Going(b)' = Going(b) /\ Windows!Fits(b)' = Windows!Fits(b)
  BY <1>2, <1>3 DEF Sent, Going, Windows!Fits
<1>6. \A b \in 1 .. Len(bursts) : Going(b) = FALSE
  <2>1. bursts # <<>> => ~(part < bursts[Len(bursts)])
    BY <1>2 DEF Windows!Underway, Windows!Last
  <2>2. ASSUME NEW b \in 1 .. Len(bursts) PROVE bursts # <<>>
    BY EmptySeq
  <2>3. QED
    BY <2>1, <2>2 DEF Going
<1> HIDE DEF s, u
<1>7. \A i \in 1 .. Len(window' \o air') : Sendable((window' \o air')[i], bursts', part')
  <2>1. \A i \in 1 .. Len(s) : Sendable(s[i], bursts, part)
    BY DEF WindowInv, WindowTypes, s
  <2>3. \A i \in 1 .. Len(window' \o air') : i \in 1 .. Len(s) \/ i = Len(s) + 1
    BY <1>3, <1>4
  <2>4. Sendable(u, bursts, part)
    BY DEF Sendable, u, Windows!Silence
  <2>5. QED
    BY <1>2, <1>3, <2>1, <2>3, <2>4
<1>8. WindowTypes'
  BY <1>2, <1>3, <1>7 DEF WindowInv, WindowTypes
<1>9. WindowSize' /\ LastStation' /\ LastText'
  <2>1. WindowSize'
    BY <1>3 DEF WindowInv, WindowSize
  <2>2. LastStation'
    BY <1>2, <1>3 DEF WindowInv, LastStation
  <2>3. LastText'
    BY <1>2, <1>3, <1>5 DEF WindowInv, LastText
  <2>4. QED
    BY <2>1, <2>2, <2>3
<1>10. ASSUME NEW b \in 1 .. Len(bursts) PROVE StillThere(b)' /\ HeardOnce(b)'
  <2>1. StillThere(b) /\ HeardOnce(b)
    BY DEF WindowInv
  <2>2. Stands(b, Sent(b), Going(b), s) => Stands(b, Sent(b), Going(b), Append(s, u))
    BY <1>1, <1>4, <1>6, StandsBefore
  <2>3. StillThere(b)'
    BY <1>2, <1>3, <1>5, <2>1, <2>2 DEF StillThere, s
  <2>4. \A i \in 1 .. Len(window' \o air') : i \in 1 .. Len(s) \/ i = Len(s) + 1
    BY <1>3, <1>4
  <2>5. u # [burst |-> b, part |-> 1]
    BY <1>1
  <2>6. HeardOnce(b)'
    BY <1>2, <1>3, <2>1, <2>4, <2>5 DEF HeardOnce, s
  <2>7. QED
    BY <2>3, <2>6
<1>11. QED
  BY <1>2, <1>8, <1>9, <1>10 DEF WindowInv

LEMMA BurstGoesOnKeeps == ASSUME WindowInv, Windows!BurstGoesOn PROVE WindowInv'
<1>0. PICK m \in Nat : m = Len(bursts)
  BY WindowFacts
<1> DEFINE s == window \o air
           u == [burst |-> m, part |-> part + 1]
<1>1. /\ bursts # <<>> /\ part < bursts[m] /\ Windows!Transmits(u)
      /\ part' = part + 1 /\ UNCHANGED <<bursts, heard>>
  BY <1>0 DEF Windows!BurstGoesOn, Windows!Underway, Windows!Last
<1>2. /\ s \in Seq(UnitType) /\ Len(s) \in Nat /\ part \in Nat /\ part >= 1
      /\ m \in Nat \ {0}
      /\ \A b \in 1 .. m : Sent(b) \in Nat \ {0} /\ bursts[b] \in Nat /\ Going(b) \in BOOLEAN
  <2>1. /\ s \in Seq(UnitType) /\ Len(s) \in Nat /\ part \in Nat
        /\ \A b \in 1 .. m :
              Sent(b) \in 1 .. bursts[b] /\ bursts[b] \in Nat \ {0} /\ Going(b) \in BOOLEAN
    BY <1>0, WindowFacts, LenProperties
  <2>2. m \in Nat \ {0}
    BY <1>0, <1>1, EmptySeq DEF WindowInv, WindowTypes
  <2>3. part \in 1 .. bursts[m] /\ bursts[m] \in Nat
    BY <1>0, <1>1, <2>1, <2>2 DEF WindowInv, WindowTypes
  <2>4. QED
    BY <2>1, <2>2, <2>3
<1>3. u \in UnitType /\ u.part # 1
  BY <1>0, <1>2 DEF UnitType
<1>4. /\ window' \in Seq(UnitType) /\ air' \in Seq(UnitType) /\ Len(air') <= ChunkUnits[kind']
      /\ window' \o air' = Append(s, u) /\ Len(window' \o air') = Len(s) + 1
      /\ (window' \o air')[Len(s) + 1] = u
      /\ \A i \in 1 .. Len(s) : (window' \o air')[i] = s[i]
      /\ UNCHANGED <<kind, window, last, spoiled>>
  BY <1>0, <1>1, <1>3, Transmitted
<1>5. \A b \in 1 .. m :
        /\ Windows!Fits(b)' = Windows!Fits(b)
        /\ b # m => Sent(b)' = Sent(b) /\ Going(b)' = FALSE /\ Going(b) = FALSE
  BY <1>0, <1>1, <1>4 DEF Sent, Going, Windows!Fits
<1>6. Sent(m) = part /\ Going(m) = TRUE /\ Sent(m)' = part + 1 /\ Going(m)' \in BOOLEAN
  BY <1>0, <1>1 DEF Sent, Going
<1>7. \A i \in 1 .. Len(window' \o air') : i \in 1 .. Len(s) \/ i = Len(s) + 1
  <2>1. Len(s) \in Nat /\ Len(window' \o air') = Len(s) + 1
    BY <1>2, <1>4
  <2> HIDE DEF s
  <2>2. QED
    BY <2>1
<1>8. \A i \in 1 .. Len(window' \o air') : Sendable((window' \o air')[i], bursts', part')
  <2>1. \A i \in 1 .. Len(s) : Sendable(s[i], bursts, part)
    BY <1>0 DEF WindowInv, WindowTypes, s
  <2>2. ASSUME NEW v, Sendable(v, bursts, part) PROVE Sendable(v, bursts', part')
    <3>1. CASE v = [burst |-> 0, part |-> 0]
      BY <3>1 DEF Sendable
    <3>2. CASE v.burst \in 1 .. m /\ v.part \in 1 .. Sent(v.burst)
      <4>1. v.part \in 1 .. Sent(v.burst)'
        BY <1>0, <1>2, <1>5, <1>6, <3>2
      <4>2. QED
        BY <1>0, <1>1, <3>2, <4>1 DEF Sendable, Sent
    <3>3. QED
      BY <1>0, <2>2, <3>1, <3>2 DEF Sendable, Sent
  <2>3. Sendable(u, bursts', part')
    <3>1. u.burst = m /\ u.part = part + 1 /\ m \in 1 .. m /\ part + 1 \in 1 .. part + 1
      BY <1>0, <1>2
    <3>2. QED
      BY <1>0, <1>1, <1>6, <3>1 DEF Sendable, Sent
  <2> HIDE DEF u, s
  <2>4. QED
    BY <1>0, <1>4, <1>7, <2>1, <2>2, <2>3
<1>9. WindowTypes'
  <2>1. part' \in 1 .. bursts'[Len(bursts')] /\ part' \in Nat
    BY <1>0, <1>1, <1>2
  <2>2. QED
    BY <1>0, <1>1, <1>4, <1>8, <2>1 DEF WindowInv, WindowTypes
<1>10. WindowSize' /\ LastStation' /\ LastText'
  <2>1. WindowSize'
    BY <1>0, <1>4 DEF WindowInv, WindowSize
  <2>2. LastStation'
    BY <1>0, <1>1, <1>4 DEF WindowInv, LastStation
  <2>3. LastText'
    BY <1>0, <1>1, <1>4, <1>5 DEF WindowInv, LastText
  <2>4. QED
    BY <2>1, <2>2, <2>3
<1> HIDE DEF s
<1>11. ASSUME NEW b \in 1 .. m PROVE StillThere(b)' /\ HeardOnce(b)'
  <2>1. StillThere(b) /\ HeardOnce(b)
    BY <1>0 DEF WindowInv
  <2>2. Stands(b, Sent(b), Going(b), s) => Stands(b, Sent(b)', Going(b)', Append(s, u))
    <3>1. CASE b = m
      BY <1>0, <1>2, <1>6, <3>1, StandsGrows
    <3>2. CASE b # m
      <4>1. Sent(b)' = Sent(b) /\ Going(b)' = FALSE /\ Going(b) = FALSE /\ Sent(b) \in Nat \ {0}
        BY <1>0, <1>2, <1>5, <3>2
      <4> HIDE DEF u
      <4>2. QED
        BY <1>0, <1>2, <1>3, <4>1, StandsBefore
    <3>3. QED
      BY <3>1, <3>2
  <2> HIDE DEF u
  <2>3. StillThere(b)'
    BY <1>0, <1>1, <1>4, <1>5, <2>1, <2>2 DEF StillThere, s
  <2>4. u # [burst |-> b, part |-> 1]
    BY <1>0, <1>3
  <2>5. HeardOnce(b)'
    BY <1>0, <1>1, <1>4, <1>7, <2>1, <2>4 DEF HeardOnce, s
  <2>6. QED
    BY <2>3, <2>5
<1>12. QED
  BY <1>0, <1>1, <1>9, <1>10, <1>11 DEF WindowInv

LEMMA BurstBeginsKeeps ==
    ASSUME WindowInv, NEW n \in 1 .. MaxLength, Windows!BurstBegins(n) PROVE WindowInv'
<1>0. PICK m \in Nat : m = Len(bursts) + 1
  BY WindowFacts
<1> DEFINE s == window \o air
           u == [burst |-> m, part |-> 1]
<1>1. /\ ~Windows!Underway /\ Windows!Transmits(u)
      /\ bursts' = Append(bursts, n) /\ heard' = Append(heard, 0) /\ part' = 1
  BY <1>0 DEF Windows!BurstBegins
<1>2. /\ s \in Seq(UnitType) /\ Len(s) \in Nat /\ m \in Nat \ {0} /\ n \in Nat \ {0}
      /\ \A b \in 1 .. Len(bursts) :
            /\ Sent(b) \in 1 .. bursts[b] /\ Sent(b) \in Nat \ {0}
            /\ bursts[b] \in Nat /\ Going(b) = FALSE /\ Sent(b) = bursts[b]
  <2>1. /\ s \in Seq(UnitType) /\ Len(s) \in Nat
        /\ \A b \in 1 .. Len(bursts) :
              Sent(b) \in 1 .. bursts[b] /\ bursts[b] \in Nat \ {0} /\ (~Going(b) => Sent(b) = bursts[b])
    BY WindowFacts, LenProperties
  <2>2. Len(bursts) \in Nat /\ n \in Nat \ {0}
    BY WindowFacts, WindowsAssumption
  <2>3. bursts # <<>> => ~(part < bursts[Len(bursts)])
    BY <1>0, <1>1 DEF Windows!Underway, Windows!Last
  <2>4. ASSUME NEW b \in 1 .. Len(bursts) PROVE bursts # <<>>
    BY EmptySeq
  <2>5. \A b \in 1 .. Len(bursts) : Going(b) = FALSE
    BY <2>3, <2>4 DEF Going
  <2>6. QED
    BY <1>0, <2>1, <2>2, <2>5
<1>3. u \in UnitType
  BY <1>0, <1>2 DEF UnitType
<1>4. /\ window' \in Seq(UnitType) /\ air' \in Seq(UnitType) /\ Len(air') <= ChunkUnits[kind']
      /\ window' \o air' = Append(s, u) /\ Len(window' \o air') = Len(s) + 1
      /\ (window' \o air')[Len(s) + 1] = u
      /\ \A i \in 1 .. Len(s) : (window' \o air')[i] = s[i]
      /\ UNCHANGED <<kind, window, last, spoiled>>
  BY <1>0, <1>1, <1>3, Transmitted
<1>5. /\ bursts' \in Seq(Nat \ {0}) /\ Len(bursts') = m /\ bursts'[m] = n
      /\ \A b \in 1 .. Len(bursts) : bursts'[b] = bursts[b]
      /\ heard' \in Seq(Nat) /\ Len(heard') = m /\ heard'[m] = 0
      /\ \A b \in 1 .. Len(bursts) : heard'[b] = heard[b]
  <2>1. /\ bursts \in Seq(Nat \ {0}) /\ heard \in Seq(Nat) /\ Len(heard) = Len(bursts) /\ 0 \in Nat
    BY DEF WindowInv, WindowTypes
  <2>2. QED
    BY <1>0, <1>1, <1>2, <2>1, AppendProperties
<1>6. /\ \A b \in 1 .. Len(bursts) :
            /\ Windows!Fits(b)' = Windows!Fits(b)
            /\ Sent(b)' = Sent(b) /\ Going(b)' = FALSE
      /\ Sent(m)' = 1 /\ Going(m)' \in BOOLEAN
  <2>1. \A b \in 1 .. Len(bursts) : b # m
    BY <1>0, <1>2
  <2>2. \A b \in 1 .. Len(bursts) : Windows!Fits(b)' = Windows!Fits(b)
    BY <1>0, <1>4, <1>5 DEF Windows!Fits
  <2>3. \A b \in 1 .. Len(bursts) : Sent(b)' = Sent(b) /\ Going(b)' = FALSE
    BY <1>0, <1>2, <1>5, <2>1 DEF Sent, Going
  <2>4. QED
    BY <1>0, <1>1, <1>5, <2>2, <2>3 DEF Sent, Going
<1>7. \A i \in 1 .. Len(window' \o air') : i \in 1 .. Len(s) \/ i = Len(s) + 1
  <2>1. Len(s) \in Nat /\ Len(window' \o air') = Len(s) + 1
    BY <1>2, <1>4
  <2> HIDE DEF s
  <2>2. QED
    BY <2>1
<1>8. \A i \in 1 .. Len(s) : Sendable(s[i], bursts, part)
  BY <1>0 DEF WindowInv, WindowTypes, s
<1>9. \A i \in 1 .. Len(window' \o air') : Sendable((window' \o air')[i], bursts', part')
  <2>1. ASSUME NEW v, Sendable(v, bursts, part) PROVE Sendable(v, bursts', part')
    <3>1. CASE v = [burst |-> 0, part |-> 0]
      BY <3>1 DEF Sendable
    <3>2. CASE v.burst \in 1 .. Len(bursts) /\ v.part \in 1 .. Sent(v.burst)
      <4>1. v.part \in 1 .. Sent(v.burst)' /\ v.burst \in 1 .. m
        BY <1>0, <1>2, <1>6, <3>2
      <4>2. QED
        BY <1>0, <1>5, <4>1 DEF Sendable, Sent
    <3>3. QED
      BY <2>1, <3>1, <3>2 DEF Sendable, Sent
  <2>2. Sendable(u, bursts', part')
    <3>1. u.burst = m /\ u.part = 1 /\ m \in 1 .. m /\ 1 \in 1 .. 1
      BY <1>0, <1>2
    <3>2. QED
      BY <1>0, <1>5, <1>6, <3>1 DEF Sendable, Sent
  <2> HIDE DEF u, s
  <2>3. QED
    BY <1>0, <1>4, <1>7, <1>8, <2>1, <2>2
<1>10. WindowTypes'
  <2>1. part' \in 1 .. bursts'[Len(bursts')] /\ part' \in Nat
    BY <1>0, <1>1, <1>2, <1>5
  <2>2. kind' \in Kinds
    BY <1>0, <1>4 DEF WindowInv, WindowTypes
  <2>3. QED
    BY <1>0, <1>4, <1>5, <1>9, <2>1, <2>2 DEF WindowTypes
<1>11. WindowSize' /\ LastStation' /\ LastText'
  <2>0. \A b \in 1 .. Len(bursts) : b \in 1 .. Len(bursts')
    BY <1>0, <1>2, <1>5
  <2>1. WindowSize'
    BY <1>0, <1>4 DEF WindowInv, WindowSize
  <2>2. LastStation'
    BY <1>0, <1>4, <1>5, <2>0 DEF WindowInv, LastStation
  <2>3. LastText'
    <3> SUFFICES ASSUME kind = "hf" PROVE LastText'
      BY <1>0, <1>4 DEF LastText
    <3>1. /\ last \in Seq(UnitType) /\ \A i \in 1 .. Len(last) : last[i].burst \in 1 .. Len(bursts)
          /\ \A i \in 1 .. Len(last) : \A b \in 1 .. Len(bursts) :
                last[i] = [burst |-> b, part |-> bursts[b]] /\ Windows!Fits(b)
                    => heard[b] > 0 \/ b \in spoiled
      BY DEF WindowInv, LastText
    <3>2. ASSUME NEW i \in 1 .. Len(last), NEW b \in 1 .. m,
                 last[i] = [burst |-> b, part |-> bursts'[b]], Windows!Fits(b)'
          PROVE  heard'[b] > 0 \/ b \in spoiled
      <4>1. last[i].burst = b
        BY <3>2
      <4>2. b \in 1 .. Len(bursts)
        BY <3>1, <4>1
      <4>3. QED
        BY <1>0, <1>5, <1>6, <3>1, <3>2, <4>2
    <3>3. QED
      BY <1>0, <1>4, <1>5, <2>0, <3>1, <3>2 DEF LastText
  <2>4. QED
    BY <2>1, <2>2, <2>3
<1> HIDE DEF s
<1>12. ASSUME NEW b \in 1 .. m PROVE StillThere(b)' /\ HeardOnce(b)'
  <2>1. CASE b = m
    <3>1. Stands(m, 1, Going(m)', Append(s, u))
      BY <1>0, <1>2, <1>6, StandsBegins
    <3>2. StillThere(m)'
      BY <1>0, <1>4, <1>6, <3>1 DEF StillThere
    <3>3. HeardOnce(m)'
      BY <1>0, <1>5 DEF HeardOnce
    <3>4. QED
      BY <2>1, <3>2, <3>3
  <2>2. CASE b # m
    <3>0. b \in 1 .. Len(bursts)
      BY <1>0, <1>2, <2>2
    <3>1. StillThere(b) /\ HeardOnce(b)
      BY <3>0 DEF WindowInv
    <3>2. Sent(b)' = Sent(b) /\ Going(b)' = FALSE /\ Going(b) = FALSE /\ Sent(b) \in Nat \ {0}
      BY <1>0, <1>2, <1>6, <3>0
    <3>3. u # [burst |-> b, part |-> 1]
      BY <2>2
    <3> HIDE DEF u
    <3>4. Stands(b, Sent(b), FALSE, s) => Stands(b, Sent(b), FALSE, Append(s, u))
      BY <1>0, <1>2, <1>3, <3>2, StandsBefore
    <3>5. StillThere(b)'
      BY <1>0, <1>4, <1>5, <1>6, <3>0, <3>1, <3>2, <3>4 DEF StillThere, s
    <3>6. HeardOnce(b)'
      BY <1>0, <1>4, <1>5, <1>7, <3>0, <3>1, <3>3 DEF HeardOnce, s
    <3>7. QED
      BY <3>5, <3>6
  <2>3. QED
    BY <2>1, <2>2
<1>13. QED
  BY <1>0, <1>5, <1>10, <1>11, <1>12 DEF WindowInv

----------------------------------------------------------------------------
(* Lost chunks and decoders that start over *)

\* Whatever keeps the bursts and what was heard of them, and only spoils more.
LEMMA NoMoreHeard ==
    ASSUME WindowInv, UNCHANGED <<kind, heard, bursts, part>>, spoiled \subseteq spoiled',
           last' = last \/ last' = <<>>,
           window' \in Seq(UnitType), air' = <<>>, WindowSize',
           \A i \in 1 .. Len(window') : \E j \in 1 .. Len(window \o air) : window'[i] = (window \o air)[j],
           \A b \in 1 .. Len(bursts) : StillThere(b)'
    PROVE  WindowInv'
<1>1. window' \o air' = window'
  BY ConcatEmptySeq
<1>2. \A b \in 1 .. Len(bursts) : Windows!Fits(b)' = Windows!Fits(b)
  BY DEF Windows!Fits
<1>3. WindowTypes'
  <2>1. \A i \in 1 .. Len(window') : Sendable(window'[i], bursts, part)
    BY DEF WindowInv, WindowTypes
  <2>2. ChunkUnits[kind] \in Nat /\ Len(<<>>) = 0 /\ <<>> \in Seq(UnitType)
    BY WindowFacts, EmptySeq
  <2>3. QED
    BY <1>1, <2>1, <2>2 DEF WindowInv, WindowTypes
<1>4. LastText' /\ LastStation'
  <2>1. <<>> \in Seq(UnitType) /\ Len(<<>>) = 0
    BY EmptySeq
  <2>2. CASE last' = <<>>
    BY <2>1, <2>2 DEF LastText, LastStation
  <2>3. CASE last' = last
    BY <1>2, <2>3 DEF WindowInv, LastText, LastStation
  <2>4. QED
    BY <2>2, <2>3
<1>5. ASSUME NEW b \in 1 .. Len(bursts) PROVE HeardOnce(b)'
  <2>1. HeardOnce(b)
    BY DEF WindowInv
  <2>2. QED
    BY <1>1, <2>1 DEF HeardOnce
<1>6. QED
  BY <1>3, <1>4, <1>5 DEF WindowInv

LEMMA ChunkLostKeeps == ASSUME WindowInv, Windows!ChunkLost PROVE WindowInv'
<1>1. /\ Len(air) = ChunkUnits[kind] /\ air' = <<>>
      /\ spoiled' = spoiled \cup Windows!BurstsIn(air)
      /\ UNCHANGED <<kind, window, last, heard, bursts, part>>
  BY DEF Windows!ChunkLost
<1>2. /\ window \in Seq(UnitType) /\ air \in Seq(UnitType)
  BY DEF WindowInv, WindowTypes
<1>3. Len(window) \in Nat /\ Len(air) \in Nat \ {0}
      /\ Len(window \o air) = Len(window) + Len(air)
      /\ \A i \in 1 .. Len(window) : (window \o air)[i] = window[i]
  <2>1. Len(window) \in Nat /\ Len(air) \in Nat \ {0}
    BY <1>1, WindowFacts
  <2>2. /\ Len(window \o air) = Len(window) + Len(air)
        /\ \A i \in 1 .. Len(window) + Len(air) :
              (window \o air)[i] = IF i <= Len(window) THEN window[i] ELSE air[i - Len(window)]
    BY <1>2, ConcatProperties
  <2>3. QED
    BY <2>1, <2>2
<1>4. WindowSize'
  BY <1>1 DEF WindowInv, WindowSize
<1>5. ASSUME NEW b \in 1 .. Len(bursts) PROVE StillThere(b)'
  <2> SUFFICES ASSUME b \notin spoiled', Windows!Fits(b)', heard[b] = 0
               PROVE  Stands(b, Sent(b)', Going(b)', window' \o air')
    BY <1>1 DEF StillThere
  <2>1. Windows!Fits(b) /\ Sent(b)' = Sent(b) /\ Going(b)' = Going(b)
    BY <1>1 DEF Windows!Fits, Sent, Going
  <2>2. b \notin spoiled /\ b \notin Windows!BurstsIn(air)
    BY <1>1
  <2>3. Stands(b, Sent(b), Going(b), window \o air)
    BY <2>1, <2>2 DEF WindowInv, StillThere
  <2>4. Sent(b) \in Nat \ {0} /\ Going(b) \in BOOLEAN /\ b \in Nat \ {0}
    <3>1. /\ Sent(b) \in 1 .. bursts[b] /\ bursts[b] \in Nat \ {0} /\ Going(b) \in BOOLEAN
          /\ Len(bursts) \in Nat
      BY WindowFacts
    <3>2. QED
      BY <3>1
  <2>5. ~Going(b) /\ Stands(b, Sent(b), FALSE, window)
    BY <1>2, <1>3, <2>2, <2>3, <2>4, StandsWithout
  <2>6. window' \o air' = window /\ Going(b) = FALSE
    BY <1>1, <1>2, <2>4, <2>5, ConcatEmptySeq
  <2>7. QED
    BY <2>1, <2>5, <2>6
<1>6. \A i \in 1 .. Len(window') : \E j \in 1 .. Len(window \o air) : window'[i] = (window \o air)[j]
  BY <1>1, <1>3
<1>7. QED
  BY <1>1, <1>2, <1>4, <1>5, <1>6, NoMoreHeard

LEMMA ResetKeeps == ASSUME WindowInv, Windows!Reset PROVE WindowInv'
<1>1. /\ window' = <<>> /\ last' = <<>> /\ air' = <<>>
      /\ spoiled' = spoiled \cup Windows!BurstsIn(window) \cup Windows!BurstsIn(air)
      /\ UNCHANGED <<kind, heard, bursts, part>>
  BY DEF Windows!Reset
<1>2. window \in Seq(UnitType) /\ air \in Seq(UnitType) /\ window \o air \in Seq(UnitType)
  BY WindowFacts DEF WindowInv, WindowTypes
<1>3. <<>> \in Seq(UnitType) /\ Len(<<>>) = 0
  BY EmptySeq
<1>4. WindowSize'
  <2>1. ChunkUnits[kind] \in Nat \ {0} /\ Cap[kind] \in Nat
    BY WindowFacts
  <2>2. QED
    BY <1>1, <1>3, <2>1 DEF WindowSize
<1>5. ASSUME NEW b \in 1 .. Len(bursts) PROVE StillThere(b)'
  <2> SUFFICES ASSUME b \notin spoiled', Windows!Fits(b)', heard[b] = 0
               PROVE  FALSE
    BY <1>1 DEF StillThere
  <2>1. Windows!Fits(b) /\ b \notin spoiled
    BY <1>1 DEF Windows!Fits
  <2>2. Stands(b, Sent(b), Going(b), window \o air)
    BY <2>1 DEF WindowInv, StillThere
  <2>3. Sent(b) \in Nat \ {0} /\ Going(b) \in BOOLEAN /\ b \in Nat \ {0}
    <3>1. /\ Sent(b) \in 1 .. bursts[b] /\ bursts[b] \in Nat \ {0} /\ Going(b) \in BOOLEAN
          /\ Len(bursts) \in Nat
      BY WindowFacts
    <3>2. QED
      BY <3>1
  <2>4. PICK i \in 1 .. Len(window \o air) : (window \o air)[i].burst = b
    <3> DEFINE s == window \o air
    <3>0. s \in Seq(UnitType) /\ Stands(b, Sent(b), Going(b), s)
      BY <1>2, <2>2
    <3> HIDE DEF s
    <3>a. \E i \in 1 .. Len(s) : s[i] = [burst |-> b, part |-> 1]
      BY <2>3, <3>0, StandsIsIn
    <3>1. PICK i \in 1 .. Len(window \o air) : (window \o air)[i] = [burst |-> b, part |-> 1]
      BY <3>a DEF s
    <3>2. (window \o air)[i].burst = b
      BY <3>1
    <3>3. QED
      BY <3>2
  <2>5. /\ Len(window) \in Nat /\ Len(air) \in Nat
        /\ Len(window \o air) = Len(window) + Len(air)
        /\ (window \o air)[i] = IF i <= Len(window) THEN window[i] ELSE air[i - Len(window)]
        /\ DOMAIN window = 1 .. Len(window) /\ DOMAIN air = 1 .. Len(air)
    <3>1. /\ Len(window) \in Nat /\ Len(air) \in Nat
          /\ Len(window \o air) = Len(window) + Len(air)
          /\ \A j \in 1 .. Len(window) + Len(air) :
              (window \o air)[j] = IF j <= Len(window) THEN window[j] ELSE air[j - Len(window)]
          /\ DOMAIN window = 1 .. Len(window) /\ DOMAIN air = 1 .. Len(air)
      BY <1>2, ConcatProperties, LenProperties
    <3>2. QED
      BY <3>1
  <2>6. b \in Windows!BurstsIn(window) \cup Windows!BurstsIn(air)
    <3>1. CASE i <= Len(window)
      BY <2>3, <2>4, <2>5, <3>1 DEF Windows!BurstsIn
    <3>2. CASE ~(i <= Len(window))
      <4>1. i - Len(window) \in DOMAIN air
        BY <2>5, <3>2
      <4>2. QED
        BY <2>3, <2>4, <2>5, <3>2, <4>1 DEF Windows!BurstsIn
    <3>3. QED
      BY <3>1, <3>2
  <2>7. QED
    BY <1>1, <2>6
<1>6. \A i \in 1 .. Len(window') : \E j \in 1 .. Len(window \o air) : window'[i] = (window \o air)[j]
  BY <1>1, <1>3
<1>7. window' \in Seq(UnitType) /\ spoiled \subseteq spoiled'
  BY <1>1, <1>3
<1>8. QED
  BY <1>1, <1>4, <1>5, <1>6, <1>7, NoMoreHeard

----------------------------------------------------------------------------
(* Packets *)

LEMMA QuarterFits ==
    ASSUME NEW n \in Nat, NEW cap \in Nat, NEW len \in Nat, NEW half \in Nat,
           n <= cap \div 4, 2 * len + 1 >= cap, 2 * half >= len
    PROVE  n <= half
  OBVIOUS

LEMMA MostOf ==
    ASSUME NEW n \in Nat, NEW cap \in Nat, NEW len \in Nat, NEW chunk \in Nat,
           2 * n >= cap + chunk, n > chunk, len + 1 <= cap + chunk \/ len <= 2 * chunk
    PROVE  2 * n > len
  OBVIOUS

LEMMA FeedPacketsKeeps ==
    ASSUME WindowInv, Windows!Feed, kind \notin {"rds", "hf"}, 2 * ChunkUnits[kind] <= Cap[kind]
    PROVE  WindowInv'
<1> DEFINE s == window \o air
           enough == Len(s) >= Least[kind]
           found == IF enough THEN Windows!Found(s) ELSE {}
<1>1. /\ Len(air) = ChunkUnits[kind] /\ air' = <<>>
      /\ Windows!FeedPackets /\ UNCHANGED <<kind, bursts, part>>
  BY DEF Windows!Feed, Windows!TextKinds
<1>2. /\ s \in Seq(UnitType) /\ Len(s) \in Nat /\ Len(s) <= Cap[kind]
      /\ Cap[kind] \in Nat /\ ChunkUnits[kind] \in Nat \ {0} /\ 2 * ChunkUnits[kind] <= Cap[kind]
      /\ Least[kind] \in Nat /\ 2 * Least[kind] <= Cap[kind]
  <2>1. /\ s \in Seq(UnitType) /\ Len(window) \in Nat /\ Len(air) \in Nat
        /\ Len(s) = Len(window) + Len(air)
        /\ Cap[kind] \in Nat /\ ChunkUnits[kind] \in Nat \ {0}
    BY WindowFacts
  <2>2. Len(window) + ChunkUnits[kind] <= Cap[kind]
    BY DEF WindowInv, WindowSize
  <2>3. Least[kind] \in Nat /\ 2 * Least[kind] <= Cap[kind]
    BY WindowsAssumption DEF WindowInv, WindowTypes
  <2> HIDE DEF s
  <2>4. QED
    BY <1>1, <2>1, <2>2, <2>3
<1>3. Windows!Capped(s, Cap[kind]) = s
  BY <1>2 DEF Windows!Capped
<1>4. /\ heard' = Windows!Counted(found)
      /\ window' = IF found # {} THEN <<>>
                   ELSE IF enough THEN Windows!Kept(s, Cap[kind]) ELSE s
      /\ spoiled' = spoiled \cup (IF enough THEN Windows!Hidden(s) ELSE {})
      /\ UNCHANGED last
  BY <1>1, <1>3 DEF Windows!FeedPackets
<1> HIDE DEF s
<1>5. /\ heard' \in Seq(Nat) /\ Len(heard') = Len(heard)
      /\ \A b \in 1 .. Len(bursts) : heard'[b] = IF b \in found THEN heard[b] + 1 ELSE heard[b]
  <2>1. WindowTypes
    BY DEF WindowInv
  <2> HIDE DEF found
  <2>2. QED
    BY <1>4, <2>1, CountedIs
<1>6. \/ window' = <<>>
      \/ found = {} /\ window' = s
      \/ /\ found = {} /\ enough /\ 2 * Len(s) + 1 >= Cap[kind]
         /\ window' = Windows!NewerHalf(s)
  <2>1. CASE found # {}
    BY <1>4, <2>1
  <2>2. CASE found = {} /\ ~enough
    BY <1>4, <2>2
  <2>3. CASE found = {} /\ enough
    <3>1. window' = Windows!Kept(s, Cap[kind])
      BY <1>4, <2>3
    <3>2. Len(s) >= Cap[kind] \div 2 => 2 * Len(s) + 1 >= Cap[kind]
      BY <1>2
    <3> HIDE DEF found, enough
    <3>3. QED
      BY <2>3, <3>1, <3>2 DEF Windows!Kept
  <2>4. QED
    BY <2>1, <2>2, <2>3
<1>7. /\ Len(Windows!NewerHalf(s)) = Len(s) - Len(s) \div 2
      /\ Windows!NewerHalf(s) \in Seq(UnitType)
      /\ Windows!NewerHalf(s) = Windows!NewestOf(s, Len(s) - Len(s) \div 2)
      /\ \A i \in 1 .. Len(Windows!NewerHalf(s)) : \E j \in 1 .. Len(s) : Windows!NewerHalf(s)[i] = s[j]
  BY <1>2, NewerHalfIs
<1>8. /\ window' \in Seq(UnitType) /\ window' \o air' = window'
      /\ \A i \in 1 .. Len(window') : \E j \in 1 .. Len(s) : window'[i] = s[j]
  <2>1. <<>> \in Seq(UnitType) /\ Len(<<>>) = 0
    BY EmptySeq
  <2>2. window' \in Seq(UnitType)
    BY <1>2, <1>6, <1>7, <2>1
  <2>3. \A i \in 1 .. Len(window') : \E j \in 1 .. Len(s) : window'[i] = s[j]
    <3>1. CASE window' = <<>>
      BY <2>1, <3>1
    <3>2. CASE window' = s
      BY <3>2
    <3>3. CASE window' = Windows!NewerHalf(s)
      BY <1>7, <3>3
    <3>4. QED
      BY <1>6, <3>1, <3>2, <3>3
  <2>4. QED
    BY <1>1, <2>2, <2>3, ConcatEmptySeq
<1>9. WindowSize'
  <2>1. Len(window') + ChunkUnits[kind] <= Cap[kind]
    <3>1. CASE window' = <<>>
      BY <1>2, <3>1, EmptySeq
    <3>2. CASE found = {} /\ window' = s /\ ~enough
      BY <1>2, <3>2
    <3>3. CASE found = {} /\ window' = s /\ enough
      <4>1. s = Windows!Kept(s, Cap[kind])
        BY <1>4, <3>3
      <4>2. CASE Len(s) >= Cap[kind] \div 2
        <5>1. Len(s) = Len(s) - Len(s) \div 2
          BY <1>7, <4>1, <4>2 DEF Windows!Kept
        <5>2. Len(s) <= 1
          BY <1>2, <5>1
        <5>3. Cap[kind] >= 2
          BY <1>2
        <5>4. CASE Cap[kind] = 2
          <6>1. ChunkUnits[kind] = 1
            BY <1>2, <5>4
          <6>2. QED
            BY <1>2, <3>3, <5>2, <5>4, <6>1
        <5>5. CASE Cap[kind] > 2
          <6>1. ChunkUnits[kind] + 1 <= Cap[kind]
            BY <1>2, <5>5
          <6>2. QED
            BY <1>2, <3>3, <5>2, <6>1
        <5>6. QED
          BY <1>2, <5>3, <5>4, <5>5
      <4>3. CASE ~(Len(s) >= Cap[kind] \div 2)
        BY <1>2, <3>3, <4>3
      <4>4. QED
        BY <4>2, <4>3
    <3>4. CASE window' = Windows!NewerHalf(s)
      BY <1>2, <1>7, <3>4
    <3>5. QED
      BY <1>6, <3>1, <3>2, <3>3, <3>4
  <2>2. QED
    BY <1>1, <2>1 DEF WindowSize
<1>10. WindowTypes'
  <2>1. \A i \in 1 .. Len(s) : Sendable(s[i], bursts, part)
    BY DEF WindowInv, WindowTypes, s
  <2>2. \A i \in 1 .. Len(window' \o air') : Sendable((window' \o air')[i], bursts', part')
    BY <1>1, <1>8, <2>1
  <2>3. Len(air') <= ChunkUnits[kind'] /\ air' \in Seq(UnitType)
    BY <1>1, <1>2, EmptySeq
  <2>4. QED
    BY <1>1, <1>5, <1>8, <2>2, <2>3 DEF WindowInv, WindowTypes
<1>11. LastText' /\ LastStation'
  BY <1>1 DEF LastText, LastStation
<1>12. Windows!Heads(s) = {i \in 1 .. Len(s) : s[i].part = 1}
  BY <1>2, LenProperties DEF Windows!Heads
<1>13. ASSUME NEW b \in 1 .. Len(bursts) PROVE HeardOnce(b)'
  <2>1. /\ heard[b] \in Nat /\ heard[b] <= 1
        /\ heard[b] > 0 => \A i \in 1 .. Len(s) : s[i] # [burst |-> b, part |-> 1]
    BY WindowFacts DEF WindowInv, HeardOnce, s
  <2>2. CASE b \in found
    <3>1. /\ Windows!Heads(s) # {} /\ b = s[Windows!FirstHead(s)].burst
      BY <2>2 DEF Windows!Found
    <3>2. Windows!FirstHead(s) \in 1 .. Len(s) /\ s[Windows!FirstHead(s)].part = 1
      BY <1>2, <3>1, FirstHeadIs
    <3>3. s[Windows!FirstHead(s)] \in UnitType
      BY <1>2, <3>2, ElementOfSeq
    <3>4. s[Windows!FirstHead(s)] = [burst |-> b, part |-> 1]
      BY <3>1, <3>2, <3>3 DEF UnitType
    <3>5. heard'[b] = 1
      <4>1. heard[b] = 0
        BY <2>1, <3>2, <3>4
      <4> HIDE DEF found
      <4>2. QED
        BY <1>5, <2>2, <4>1
    <3>6. window' = <<>>
      <4> HIDE DEF found
      <4>1. QED
        BY <1>4, <2>2
    <3>7. Len(window' \o air') = 0
      BY <1>8, <3>6, EmptySeq
    <3>8. QED
      BY <3>5, <3>7 DEF HeardOnce
  <2>3. CASE b \notin found
    <3>1. heard'[b] = heard[b]
      <4> HIDE DEF found
      <4>1. QED
        BY <1>5, <2>3
    <3>2. QED
      BY <1>8, <2>1, <3>1 DEF HeardOnce
  <2>4. QED
    BY <2>2, <2>3
<1>14. ASSUME NEW b \in 1 .. Len(bursts) PROVE StillThere(b)'
  <2> SUFFICES ASSUME b \notin spoiled', Windows!Fits(b)', heard'[b] = 0
               PROVE  Stands(b, Sent(b)', Going(b)', window')
    BY <1>8 DEF StillThere
  <2>1. Windows!Fits(b) /\ Sent(b)' = Sent(b) /\ Going(b)' = Going(b) /\ b \notin spoiled
    BY <1>1, <1>4 DEF Windows!Fits, Sent, Going
  <2>2. /\ heard[b] \in Nat /\ Sent(b) \in 1 .. bursts[b] /\ bursts[b] \in Nat \ {0}
        /\ Sent(b) \in Nat \ {0} /\ b \in Nat \ {0}
        /\ Going(b) \in BOOLEAN /\ (~Going(b) => Sent(b) = bursts[b])
    <3>1. /\ heard[b] \in Nat /\ Sent(b) \in 1 .. bursts[b] /\ bursts[b] \in Nat \ {0}
          /\ Going(b) \in BOOLEAN /\ (~Going(b) => Sent(b) = bursts[b]) /\ Len(bursts) \in Nat
      BY WindowFacts
    <3>2. QED
      BY <3>1
  <2>3. heard[b] = 0 /\ b \notin found
    <3> HIDE DEF found
    <3>1. QED
      BY <1>5, <2>2
  <2>4. Stands(b, Sent(b), Going(b), s)
    BY <2>1, <2>3 DEF WindowInv, StillThere, s
  <2>5. PICK h \in 1 .. Len(s) :
          /\ h + Sent(b) - 1 <= Len(s) /\ s[h] = [burst |-> b, part |-> 1]
          /\ Going(b) => h + Sent(b) - 1 = Len(s)
    <3>1. PICK h \in 1 .. Len(s) :
            /\ h + Sent(b) - 1 <= Len(s)
            /\ \A k \in 1 .. Sent(b) : s[h + k - 1] = [burst |-> b, part |-> k]
            /\ Going(b) => h + Sent(b) - 1 = Len(s)
      BY <2>4 DEF Stands
    <3>2. 1 \in 1 .. Sent(b) /\ h + 1 - 1 = h
      BY <1>2, <2>2
    <3>3. s[h] = [burst |-> b, part |-> 1]
      BY <3>1, <3>2
    <3>4. QED
      BY <3>1, <3>3
  <2>6. b \in Windows!BurstsIn(s)
    <3>1. s \in Seq(UnitType)
      BY <1>2
    <3> HIDE DEF s
    <3>2. QED
      BY <2>2, <2>4, <3>1, StandsIsIn
  <2>7. h \in Windows!Heads(s)
    BY <1>12, <2>5
  <2>8. CASE ~enough
    <3>1. window' = s
      BY <1>4, <2>8
    <3>2. QED
      BY <2>1, <2>4, <3>1
  <2>9. CASE enough
    <3> DEFINE first == Windows!FirstHead(s)
    <3>1. first \in 1 .. Len(s) /\ s[first].part = 1 /\ first <= h
      <4>1. s[h].part = 1
        BY <2>5
      <4>2. QED
        BY <1>2, <2>7, <4>1, FirstHeadIs
    <3>2. b \notin Windows!Hidden(s) /\ found = Windows!Found(s)
      BY <1>4, <2>9
    <3>3. Windows!Found(s) = {}
      BY <2>3, <2>6, <3>2 DEF Windows!Hidden
    <3>4. s[first].burst = b
      BY <2>6, <2>7, <3>2, <3>3 DEF Windows!Hidden
    <3>5. ~Windows!Complete(s)
      BY <2>7, <3>3 DEF Windows!Found
    <3>6. CASE window' = s
      BY <2>1, <2>4, <3>6
    <3>7. CASE window' = Windows!NewerHalf(s) /\ 2 * Len(s) + 1 >= Cap[kind]
      <4> DEFINE half == Len(s) - Len(s) \div 2
      <4>1. half \in 1 .. Len(s) /\ 2 * half >= Len(s) /\ half \in Nat
        BY <1>2
      <4> HIDE DEF half
      <4>2. h + Sent(b) - 1 = Len(s) /\ Sent(b) <= half
        <5>1. CASE kind = "lora"
          <6>1. ~(first < Len(s))
            BY <3>5, <5>1 DEF Windows!Complete
          <6>2. h = Len(s)
            BY <1>2, <3>1, <6>1
          <6>3. QED
            BY <1>2, <2>2, <2>5, <4>1, <6>2
        <5>2. CASE kind # "lora"
          <6>1. ~Windows!Whole(b, s)
            BY <3>4, <3>5, <5>2 DEF Windows!Complete
          <6>2. ~Stands(b, bursts[b], FALSE, s)
            BY <1>2, <6>1, StandsWhole
          <6>3. Going(b)
            BY <2>2, <2>4, <6>2, StandsNoEnd
          <6>4. bursts[b] <= Cap[kind] \div 4
            BY <2>1 DEF Windows!Fits
          <6>5. Len(s) \in Nat /\ Cap[kind] \in Nat /\ bursts[b] \in Nat
            BY <1>2, <2>2
          <6>7. bursts[b] <= half
            BY <3>7, <4>1, <6>4, <6>5, QuarterFits
          <6>6. QED
            BY <2>2, <2>5, <4>1, <6>3, <6>7
        <5>3. QED
          BY <5>1, <5>2
      <4>3. Stands(b, Sent(b), TRUE, s)
        <5>1. PICK i \in 1 .. Len(s) :
                /\ i + Sent(b) - 1 <= Len(s)
                /\ \A k \in 1 .. Sent(b) : s[i + k - 1] = [burst |-> b, part |-> k]
                /\ Going(b) => i + Sent(b) - 1 = Len(s)
          BY <2>4 DEF Stands
        <5>2. i + Sent(b) - 1 = Len(s)
          <6>1. CASE Going(b)
            BY <5>1, <6>1
          <6>2. CASE ~Going(b)
            <7>1. s[i].part = 1 /\ s[i].burst = b
              <8>1. 1 \in 1 .. Sent(b) /\ i + 1 - 1 = i
                BY <1>2, <2>2
              <8>2. s[i] = [burst |-> b, part |-> 1]
                BY <5>1, <8>1
              <8>3. QED
                BY <8>2
            <7>2. kind = "lora"
              <8>1. SUFFICES ASSUME kind # "lora" PROVE FALSE
                OBVIOUS
              <8>2. ~Windows!Whole(b, s)
                BY <3>4, <3>5, <8>1 DEF Windows!Complete
              <8>3. QED
                BY <1>2, <2>2, <2>4, <6>2, <8>2, StandsWhole, StandsNoEnd
            <7>3. ~(first < Len(s))
              BY <3>5, <7>2 DEF Windows!Complete
            <7>4. first <= i
              BY <1>2, <2>7, <7>1, FirstHeadIs
            <7>5. QED
              BY <1>2, <2>2, <3>1, <5>1, <7>3, <7>4
          <6>3. QED
            BY <6>1, <6>2
        <5>3. QED
          BY <5>1, <5>2 DEF Stands
      <4>4. Sent(b) \in 1 .. half
        BY <2>2, <4>1, <4>2
      <4>5. Stands(b, Sent(b), Going(b), Windows!NewestOf(s, half))
        BY <1>2, <2>2, <4>1, <4>3, <4>4, StandsInNewest
      <4>6. QED
        BY <1>7, <2>1, <3>7, <4>5 DEF half
    <3>8. CASE window' = <<>>
      <4>1. window' = Windows!Kept(s, Cap[kind])
        BY <1>4, <2>9, <3>2, <3>3
      <4>2. window' = s \/ window' = Windows!NewerHalf(s)
        BY <4>1 DEF Windows!Kept
      <4>3. Len(s) # 0 /\ Len(s) - Len(s) \div 2 # 0
        BY <1>2, <2>5
      <4>4. QED
        BY <1>7, <3>8, <4>2, <4>3, EmptySeq
    <3>9. QED
      BY <1>6, <3>6, <3>7, <3>8
  <2>10. QED
    BY <2>8, <2>9
<1>15. QED
  BY <1>1, <1>9, <1>10, <1>11, <1>13, <1>14 DEF WindowInv

\* The newest of a sequence holds nothing new.
LEMMA NewestIs ==
    ASSUME NEW s \in Seq(UnitType), NEW m \in Nat, m <= Len(s)
    PROVE  /\ Windows!NewestOf(s, m) \in Seq(UnitType)
           /\ \A i \in 1 .. Len(Windows!NewestOf(s, m)) :
                 \E j \in 1 .. Len(s) : Windows!NewestOf(s, m)[i] = s[j]
<1> DEFINE from == Len(s) - m + 1
           t == SubSeq(s, from, Len(s))
<1>1. Len(s) \in Nat /\ \A i \in 1 .. Len(s) : s[i] \in UnitType
  BY LenProperties, ElementOfSeq
<1>2. Windows!NewestOf(s, m) = t
  BY DEF Windows!NewestOf
<1>3. from \in 1 .. Len(s) + 1 /\ from \in Int /\ Len(s) \in Int /\ Len(s) - from + 1 = m
  BY <1>1
<1> HIDE DEF from
<1>4. /\ t \in Seq(UnitType) /\ Len(t) = (IF from <= Len(s) THEN Len(s) - from + 1 ELSE 0)
      /\ \A i \in 1 .. Len(s) - from + 1 : t[i] = s[from + i - 1]
  <2>1. \A i \in from .. Len(s) : s[i] \in UnitType
    BY <1>1, <1>3
  <2>2. QED
    BY <1>3, <2>1, SubSeqProperties
<1> HIDE DEF t
<1>5. Len(t) = Len(s) - from + 1
  BY <1>1, <1>3, <1>4
<1>6. \A i \in 1 .. Len(t) : \E j \in 1 .. Len(s) : t[i] = s[j]
  <2> TAKE i \in 1 .. Len(t)
  <2>1. from + i - 1 \in 1 .. Len(s) /\ i \in 1 .. Len(s) - from + 1
    BY <1>1, <1>3, <1>5
  <2>2. t[i] = s[from + i - 1]
    BY <1>4, <2>1
  <2>3. QED
    BY <2>1, <2>2
<1>7. QED
  BY <1>2, <1>4, <1>6

\* Chunks longer than half a window may push a packet out of it unseen; what is
\* published is published once all the same.
LEMMA FeedLongChunkKeeps ==
    ASSUME WindowInv, Windows!Feed, kind \notin {"rds", "hf"}, ~(2 * ChunkUnits[kind] <= Cap[kind])
    PROVE  WindowInv'
<1> DEFINE s == window \o air
           t == Windows!Capped(s, Cap[kind])
           enough == Len(t) >= Least[kind]
           found == IF enough THEN Windows!Found(t) ELSE {}
<1>1. /\ air' = <<>> /\ UNCHANGED <<kind, bursts, part, last>>
      /\ heard' = Windows!Counted(found)
      /\ window' = IF found # {} THEN <<>>
                   ELSE IF enough THEN Windows!Kept(t, Cap[kind]) ELSE t
  BY DEF Windows!Feed, Windows!TextKinds, Windows!FeedPackets
<1>2. /\ s \in Seq(UnitType) /\ Len(s) \in Nat
      /\ Cap[kind] \in Nat /\ ChunkUnits[kind] \in Nat \ {0}
  BY WindowFacts
<1>3. /\ \A i \in 1 .. Len(s) : Sendable(s[i], bursts, part)
      /\ \A b \in 1 .. Len(bursts) :
            /\ heard[b] \in Nat /\ heard[b] <= 1
            /\ heard[b] > 0 => \A i \in 1 .. Len(s) : s[i] # [burst |-> b, part |-> 1]
  <2>1. \A b \in 1 .. Len(bursts) : heard[b] \in Nat
    BY WindowFacts
  <2>2. QED
    BY <2>1 DEF WindowInv, WindowTypes, HeardOnce
<1> HIDE DEF s
<1>4. t \in Seq(UnitType) /\ \A i \in 1 .. Len(t) : \E j \in 1 .. Len(s) : t[i] = s[j]
  <2>1. CASE Len(s) > Cap[kind]
    <3>1. t = Windows!NewestOf(s, Cap[kind]) /\ Cap[kind] <= Len(s)
      BY <1>2, <2>1 DEF Windows!Capped
    <3> HIDE DEF t
    <3>2. QED
      BY <1>2, <3>1, NewestIs
  <2>2. CASE ~(Len(s) > Cap[kind])
    BY <1>2, <2>2 DEF Windows!Capped
  <2>3. QED
    BY <2>1, <2>2
<1> HIDE DEF t
<1>5. /\ heard' \in Seq(Nat) /\ Len(heard') = Len(heard)
      /\ \A b \in 1 .. Len(bursts) : heard'[b] = IF b \in found THEN heard[b] + 1 ELSE heard[b]
  <2>1. WindowTypes
    BY DEF WindowInv
  <2> HIDE DEF found
  <2>2. QED
    BY <1>1, <2>1, CountedIs
<1>6. window' = <<>> \/ window' = t \/ window' = Windows!NewerHalf(t)
  <2> HIDE DEF found, enough
  <2>1. QED
    BY <1>1 DEF Windows!Kept
<1>7. /\ window' \in Seq(UnitType) /\ window' \o air' = window'
      /\ \A i \in 1 .. Len(window') : \E j \in 1 .. Len(s) : window'[i] = s[j]
  <2>1. /\ window' \in Seq(UnitType)
        /\ \A i \in 1 .. Len(window') : \E j \in 1 .. Len(t) : window'[i] = t[j]
    <3>1. CASE window' = <<>>
      <4>1. window' \in Seq(UnitType) /\ Len(window') = 0
        BY <3>1, EmptySeq
      <4>2. QED
        BY <4>1
    <3>2. CASE window' = t
      BY <1>4, <3>2
    <3>3. CASE window' = Windows!NewerHalf(t)
      BY <1>4, <3>3, NewerHalfIs
    <3>4. QED
      BY <1>6, <3>1, <3>2, <3>3
  <2>2. window' \o air' = window'
    BY <1>1, <2>1, ConcatEmptySeq
  <2>3. QED
    BY <1>4, <2>1, <2>2
<1>8. WindowTypes'
  <2>1. \A i \in 1 .. Len(window' \o air') : Sendable((window' \o air')[i], bursts', part')
    BY <1>1, <1>3, <1>7
  <2>2. Len(air') <= ChunkUnits[kind'] /\ air' \in Seq(UnitType)
    BY <1>1, <1>2, EmptySeq
  <2>3. QED
    BY <1>1, <1>5, <1>7, <2>1, <2>2 DEF WindowInv, WindowTypes
<1>9. WindowSize' /\ LastText' /\ LastStation'
  BY <1>1 DEF WindowSize, LastText, LastStation
<1>10. ASSUME NEW b \in 1 .. Len(bursts) PROVE HeardOnce(b)'
  <2>1. CASE b \in found
    <3>1. Windows!Heads(t) # {} /\ b = t[Windows!FirstHead(t)].burst
      BY <2>1 DEF Windows!Found
    <3>2. Windows!FirstHead(t) \in 1 .. Len(t) /\ t[Windows!FirstHead(t)].part = 1
      BY <1>4, <3>1, FirstHeadIs
    <3>3. t[Windows!FirstHead(t)] \in UnitType
      BY <1>4, <3>2, ElementOfSeq
    <3>4. t[Windows!FirstHead(t)] = [burst |-> b, part |-> 1]
      BY <3>1, <3>2, <3>3 DEF UnitType
    <3>5. PICK j \in 1 .. Len(s) : s[j] = [burst |-> b, part |-> 1]
      BY <1>4, <3>2, <3>4
    <3>6. heard[b] = 0
      BY <1>3, <3>5
    <3> HIDE DEF found
    <3>7. heard'[b] = 1 /\ window' = <<>>
      BY <1>1, <1>5, <2>1, <3>6
    <3>8. Len(window' \o air') = 0
      BY <1>7, <3>7, EmptySeq
    <3>9. QED
      BY <3>7, <3>8 DEF HeardOnce
  <2>2. CASE b \notin found
    <3>1. heard'[b] = heard[b]
      <4> HIDE DEF found
      <4>1. QED
        BY <1>5, <2>2
    <3>2. QED
      BY <1>3, <1>7, <3>1 DEF HeardOnce
  <2>3. QED
    BY <2>1, <2>2
<1>11. ASSUME NEW b \in 1 .. Len(bursts) PROVE StillThere(b)'
  BY <1>1 DEF StillThere, Windows!Fits
<1>12. QED
  BY <1>1, <1>8, <1>9, <1>10, <1>11 DEF WindowInv

----------------------------------------------------------------------------
(* Text *)

LEMMA StationIs ==
    ASSUME kind = "rds", NEW s, NEW reading \in Windows!Readings(s)
    PROVE  \/ reading = <<>> /\ Windows!BurstsIn(s) = {}
           \/ \E b \in Windows!Dominant(s) : reading = <<b>>
  BY DEF Windows!Readings

LEMMA TextIs ==
    ASSUME kind = "hf", NEW s \in Seq(UnitType), NEW reading \in Windows!Readings(s)
    PROVE  /\ reading \in Seq(UnitType)
           /\ \A i \in 1 .. Len(reading) :
                 \E j \in 1 .. Len(s) : reading[i] = s[j] /\ s[j] # Windows!Silence
           /\ \A j \in 1 .. Len(s) : s[j] # Windows!Silence =>
                 \E i \in 1 .. Len(reading) : reading[i] = s[j]
<1>1. DOMAIN s = 1 .. Len(s)
  BY LenProperties
<1> DEFINE at == {i \in DOMAIN s : s[i] # Windows!Silence}
<1>2. reading = Picked(s, at)
  <2>1. Windows!Readings(s) = {Windows!Picked(s, at)}
    BY DEF Windows!Readings
  <2>2. QED
    BY <2>1 DEF Windows!Picked, Picked
<1>3. \A j \in 1 .. Len(s) : j \in at <=> s[j] # Windows!Silence
  BY <1>1
<1> HIDE DEF at
<1>4. Picked(s, at) \in Seq(UnitType) /\ FromPlaces(s, at, Picked(s, at)) /\ InOrder(s, at, Picked(s, at))
  BY PickedInOrder
<1>5. QED
  BY <1>2, <1>3, <1>4 DEF FromPlaces, InOrder

LEMMA FeedTextKeeps ==
    ASSUME WindowInv, Windows!Feed, kind \in {"rds", "hf"}
    PROVE  WindowInv'
<1> DEFINE s == window \o air
           full == Len(s) >= Cap[kind]
<1>1. /\ Len(air) = ChunkUnits[kind] /\ air' = <<>>
      /\ Windows!FeedText /\ UNCHANGED <<kind, bursts, part>>
  BY DEF Windows!Feed, Windows!TextKinds
<1>2. PICK reading \in IF full THEN Windows!Readings(s) ELSE {<<>>} :
        /\ IF reading # <<>> /\ reading # last
           THEN last' = reading /\ heard' = Windows!Counted(Windows!HeardIn(reading, s))
           ELSE UNCHANGED <<last, heard>>
        /\ window' = IF full THEN Windows!NewerHalf(s) ELSE s
        /\ UNCHANGED spoiled
  BY <1>1 DEF Windows!FeedText
<1> DEFINE published == reading # <<>> /\ reading # last
           found == IF published THEN Windows!HeardIn(reading, s) ELSE {}
<1>3. /\ s \in Seq(UnitType) /\ Len(s) \in Nat \ {0}
      /\ Len(s) + 1 <= Cap[kind] + ChunkUnits[kind] \/ Len(s) <= 2 * ChunkUnits[kind]
      /\ Cap[kind] \in Nat /\ ChunkUnits[kind] \in Nat \ {0}
  <2>1. /\ s \in Seq(UnitType) /\ Len(window) \in Nat /\ Len(air) \in Nat
        /\ Len(s) = Len(window) + Len(air)
        /\ Cap[kind] \in Nat /\ ChunkUnits[kind] \in Nat \ {0}
    BY WindowFacts
  <2>2. Len(window) + 1 <= Cap[kind] \/ Len(window) <= ChunkUnits[kind]
    BY DEF WindowInv, WindowSize
  <2> HIDE DEF s
  <2>3. QED
    BY <1>1, <2>1, <2>2
<1>4. /\ heard' \in Seq(Nat) /\ Len(heard') = Len(heard)
      /\ \A b \in 1 .. Len(bursts) :
            heard[b] \in Nat /\ heard'[b] = IF b \in found THEN heard[b] + 1 ELSE heard[b]
  <2>1. WindowTypes /\ heard \in Seq(Nat) /\ \A b \in 1 .. Len(bursts) : heard[b] \in Nat
    BY WindowFacts DEF WindowInv, WindowTypes
  <2>2. CASE published
    <3>1. heard' = Windows!Counted(found)
      BY <1>2, <2>2
    <3> HIDE DEF found
    <3>2. QED
      BY <2>1, <3>1, CountedIs
  <2>3. CASE ~published
    BY <1>2, <2>1, <2>3
  <2>4. QED
    BY <2>2, <2>3
<1>5. /\ Len(Windows!NewerHalf(s)) = Len(s) - Len(s) \div 2
      /\ Windows!NewerHalf(s) \in Seq(UnitType)
      /\ Windows!NewerHalf(s) = Windows!NewestOf(s, Len(s) - Len(s) \div 2)
      /\ \A i \in 1 .. Len(Windows!NewerHalf(s)) : \E j \in 1 .. Len(s) : Windows!NewerHalf(s)[i] = s[j]
  BY <1>3, NewerHalfIs
<1>6. /\ window' \in Seq(UnitType) /\ window' \o air' = window'
      /\ \A i \in 1 .. Len(window') : \E j \in 1 .. Len(s) : window'[i] = s[j]
  <2>1. window' \in Seq(UnitType)
    BY <1>2, <1>3, <1>5
  <2>2. \A i \in 1 .. Len(window') : \E j \in 1 .. Len(s) : window'[i] = s[j]
    <3> HIDE DEF s
    <3>1. CASE full
      BY <1>2, <1>5, <3>1
    <3>2. CASE ~full
      BY <1>2, <3>2
    <3>3. QED
      BY <3>1, <3>2
  <2>3. QED
    BY <1>1, <2>1, <2>2, ConcatEmptySeq
<1>7. \A i \in 1 .. Len(s) : Sendable(s[i], bursts, part)
  BY DEF WindowInv, WindowTypes
<1>8. Len(bursts) \in Nat /\ part \in Nat
      /\ \A b \in 1 .. Len(bursts) :
            /\ bursts[b] \in Nat \ {0} /\ Sent(b) \in 1 .. bursts[b] /\ Going(b) \in BOOLEAN
            /\ ~Going(b) => Sent(b) = bursts[b]
            /\ Going(b) => Sent(b) < bursts[b]
  BY WindowFacts
<1> HIDE DEF s
<1>a. full => \/ kind = "rds" /\ reading = <<>> /\ Windows!BurstsIn(s) = {}
              \/ kind = "rds" /\ \E b \in Windows!Dominant(s) : reading = <<b>>
              \/ kind = "hf"
  <2> SUFFICES ASSUME full, kind = "rds"
               PROVE  \/ reading = <<>> /\ Windows!BurstsIn(s) = {}
                      \/ \E b \in Windows!Dominant(s) : reading = <<b>>
    OBVIOUS
  <2>1. reading \in Windows!Readings(s)
    BY <1>2
  <2>2. QED
    BY <2>1, StationIs
<1>9. WindowSize'
  <2>1. Len(window') + 1 <= Cap[kind] \/ Len(window') <= ChunkUnits[kind]
    <3>1. CASE full
      <4>1. Len(window') = Len(s) - Len(s) \div 2
        BY <1>2, <1>5, <3>1
      <4>2. QED
        BY <1>3, <4>1
    <3>2. CASE ~full
      BY <1>2, <1>3, <3>2
    <3>3. QED
      BY <3>1, <3>2
  <2>2. QED
    BY <1>1, <2>1 DEF WindowSize
<1>10. WindowTypes'
  <2>1. \A i \in 1 .. Len(window' \o air') : Sendable((window' \o air')[i], bursts', part')
    BY <1>1, <1>6, <1>7
  <2>2. Len(air') <= ChunkUnits[kind'] /\ air' \in Seq(UnitType)
    BY <1>1, <1>3, EmptySeq
  <2>3. QED
    BY <1>1, <1>4, <1>6, <2>1, <2>2 DEF WindowInv, WindowTypes
<1>11. \A b \in 1 .. Len(bursts) :
        /\ Windows!Fits(b)' = Windows!Fits(b) /\ Sent(b)' = Sent(b) /\ Going(b)' = Going(b)
        /\ heard[b] > 0 => heard'[b] > 0
        /\ b \in found => heard'[b] > 0
        /\ b \in spoiled' <=> b \in spoiled
  <2>1. \A b \in 1 .. Len(bursts) :
          Windows!Fits(b)' = Windows!Fits(b) /\ Sent(b)' = Sent(b) /\ Going(b)' = Going(b)
    BY <1>1 DEF Windows!Fits, Sent, Going
  <2> HIDE DEF found
  <2>2. QED
    BY <1>2, <1>4, <2>1
\* A burst in a full window that is all of it there is published now or was.
<1>12. ASSUME full, NEW b \in 1 .. Len(bursts), Windows!Fits(b), b \notin spoiled, heard'[b] = 0
       PROVE  kind = "hf" => ~Stands(b, bursts[b], FALSE, s)
  <2> SUFFICES ASSUME kind = "hf", Stands(b, bursts[b], FALSE, s) PROVE FALSE
    OBVIOUS
  <2>1. PICK i \in 1 .. Len(s) :
          /\ i + bursts[b] - 1 <= Len(s)
          /\ \A k \in 1 .. bursts[b] : s[i + k - 1] = [burst |-> b, part |-> k]
    BY DEF Stands
  <2>2. PICK j \in 1 .. Len(s) : s[j] = [burst |-> b, part |-> bursts[b]]
    <3>1. bursts[b] \in Nat \ {0} /\ i + bursts[b] - 1 <= Len(s) /\ Len(s) \in Nat
      BY <1>3, <1>8, <2>1
    <3>2. bursts[b] \in 1 .. bursts[b] /\ i + bursts[b] - 1 \in 1 .. Len(s)
      BY <3>1
    <3>3. QED
      BY <2>1, <3>2
  <2>3. reading \in Windows!Readings(s)
    BY <1>2, <1>12
  <2>4. PICK l \in 1 .. Len(reading) : reading[l] = s[j]
    <3>1. s[j] # Windows!Silence
      <4>1. s[j].burst # 0
        BY <1>8, <2>2
      <4>2. QED
        BY <4>1 DEF Windows!Silence
    <3>2. QED
      BY <1>3, <2>3, <3>1, TextIs
  <2>5. reading # <<>>
    BY <2>4, EmptySeq
  <2>6. heard[b] = 0 /\ b \notin found
    BY <1>4, <1>11, <1>12
  <2>7. CASE reading = last
    <3>1. last[l] = [burst |-> b, part |-> bursts[b]] /\ l \in 1 .. Len(last)
      BY <2>2, <2>4, <2>7
    <3>2. heard[b] > 0 \/ b \in spoiled
      BY <1>12, <3>1 DEF WindowInv, LastText
    <3>3. QED
      BY <1>12, <2>6, <3>2
  <2>8. CASE reading # last
    <3>1. found = Windows!HeardIn(reading, s)
      BY <2>5, <2>8
    <3>2. Windows!Whole(b, s) /\ b \in Windows!BurstsIn(s)
      <4>1. b \in Nat \ {0} /\ bursts[b] \in Nat \ {0} /\ FALSE \in BOOLEAN
        BY <1>8
      <4>2. b \in Windows!BurstsIn(s)
        BY <1>3, <4>1, StandsIsIn
      <4>3. QED
        BY <1>3, <4>2, StandsWhole
    <3>3. b \in found
      BY <3>1, <3>2 DEF Windows!HeardIn
    <3>4. QED
      BY <2>6, <3>3
  <2>9. QED
    BY <2>7, <2>8
<1>13. LastText'
  <2> SUFFICES ASSUME kind = "hf" PROVE LastText'
    BY <1>1 DEF LastText
  <2>1. LastText
    BY DEF WindowInv
  <2>2. CASE ~published
    BY <1>1, <1>2, <1>11, <2>1, <2>2 DEF LastText
  <2>3. CASE published
    <3>1. full /\ reading \in Windows!Readings(s) /\ last' = reading
      BY <1>2, <2>3
    <3>2. /\ reading \in Seq(UnitType)
          /\ \A i \in 1 .. Len(reading) : \E j \in 1 .. Len(s) : reading[i] = s[j] /\ s[j] # Windows!Silence
      BY <1>3, <3>1, TextIs
    <3>3. \A i \in 1 .. Len(reading) : reading[i].burst \in 1 .. Len(bursts)
      <4> TAKE i \in 1 .. Len(reading)
      <4>1. PICK j \in 1 .. Len(s) : reading[i] = s[j] /\ s[j] # Windows!Silence
        BY <3>2
      <4>2. Sendable(s[j], bursts, part)
        BY <1>7
      <4>3. s[j].burst \in 1 .. Len(bursts)
        BY <4>1, <4>2 DEF Sendable, Windows!Silence
      <4>4. QED
        BY <4>1, <4>3
    <3>4. ASSUME NEW i \in 1 .. Len(reading), NEW b \in 1 .. Len(bursts),
                 reading[i] = [burst |-> b, part |-> bursts[b]], Windows!Fits(b)
          PROVE  heard'[b] > 0 \/ b \in spoiled
      <4> SUFFICES ASSUME heard'[b] = 0, b \notin spoiled PROVE FALSE
        <5>1. heard'[b] \in Nat
          BY <1>4
        <5>2. QED
          BY <5>1
      <4>1. heard[b] = 0
        <5> HIDE DEF found, published
        <5>1. heard[b] \in Nat /\ (heard'[b] = IF b \in found THEN heard[b] + 1 ELSE heard[b])
          BY <1>4
        <5>2. QED
          BY <5>1
      <4>2. Stands(b, Sent(b), Going(b), s)
        BY <3>4, <4>1 DEF WindowInv, StillThere, s
      <4>3. PICK j \in 1 .. Len(s) : s[j] = [burst |-> b, part |-> bursts[b]]
        BY <3>2, <3>4
      <4>4. bursts[b] <= Sent(b)
        <5>1. s[j].burst = b /\ s[j].part = bursts[b] /\ b # 0
          BY <1>8, <4>3
        <5>2. Sendable(s[j], bursts, part)
          BY <1>7
        <5>3. bursts[b] \in 1 .. Sent(b)
          BY <5>1, <5>2 DEF Sendable, Sent
        <5>4. QED
          BY <1>8, <5>3
      <4>5. Sent(b) = bursts[b]
        BY <1>8, <4>4
      <4>6. Stands(b, bursts[b], FALSE, s)
        BY <1>8, <4>2, <4>5, StandsNoEnd
      <4>7. QED
        BY <1>12, <3>1, <3>4, <4>6
    <3>5. QED
      BY <1>1, <1>11, <3>1, <3>2, <3>3, <3>4 DEF LastText
  <2>4. QED
    BY <2>2, <2>3
<1>14. LastStation'
  <2> SUFFICES ASSUME kind = "rds" PROVE LastStation'
    BY <1>1 DEF LastStation
  <2>1. LastStation
    BY DEF WindowInv
  <2>2. CASE ~published
    BY <1>1, <1>2, <1>11, <2>1, <2>2 DEF LastStation
  <2>3. CASE published
    <3>1. full /\ reading \in Windows!Readings(s) /\ last' = reading /\ reading # <<>>
      BY <1>2, <2>3
    <3>2. PICK b \in Windows!Dominant(s) : reading = <<b>>
      BY <1>a, <3>1
    <3>3. b \in 1 .. Len(bursts)
      <4>1. b \in Windows!BurstsIn(s)
        BY DEF Windows!Dominant
      <4>2. PICK j \in 1 .. Len(s) : s[j].burst = b /\ b # 0
        BY <1>3, <4>1, LenProperties DEF Windows!BurstsIn
      <4>3. Sendable(s[j], bursts, part)
        BY <1>7
      <4>4. QED
        BY <4>2, <4>3 DEF Sendable
    <3>4. b \in found
      <4>1. found = Windows!HeardIn(reading, s)
        BY <2>3
      <4>2. Windows!HeardIn(reading, s) = Windows!ToSet(<<b>>)
        BY <3>2 DEF Windows!HeardIn
      <4>3. b \in Windows!ToSet(<<b>>)
        BY DEF Windows!ToSet
      <4>4. QED
        BY <4>1, <4>2, <4>3
    <3>5. QED
      BY <1>1, <1>11, <3>1, <3>2, <3>3, <3>4 DEF LastStation
  <2>4. QED
    BY <2>2, <2>3
<1>15. ASSUME NEW b \in 1 .. Len(bursts) PROVE HeardOnce(b)'
  BY <1>1 DEF HeardOnce
<1>16. ASSUME NEW b \in 1 .. Len(bursts) PROVE StillThere(b)'
  <2> SUFFICES ASSUME b \notin spoiled, Windows!Fits(b), heard'[b] = 0
               PROVE  Stands(b, Sent(b), Going(b), window')
    BY <1>6, <1>11 DEF StillThere
  <2>1. heard[b] = 0 /\ b \notin found
    BY <1>4, <1>11
  <2>2. Stands(b, Sent(b), Going(b), s)
    BY <2>1 DEF WindowInv, StillThere, s
  <2>3. CASE ~full
    BY <1>2, <2>2, <2>3
  <2>4. CASE full
    <3> DEFINE half == Len(s) - Len(s) \div 2
    <3>1. Len(s) >= Cap[kind] /\ half \in 1 .. Len(s) /\ 2 * half >= Len(s) /\ half \in Nat
      BY <1>3, <2>4
    <3>2. window' = Windows!NewestOf(s, half)
      BY <1>2, <1>5, <2>4
    <3> HIDE DEF half
    <3>3. Sent(b) \in Nat \ {0} /\ b \in Nat \ {0} /\ Going(b) \in BOOLEAN
      BY <1>8
    <3>4. Going(b) /\ Sent(b) <= half
      <4>1. CASE kind = "hf"
        <5>1. Going(b)
          BY <1>8, <1>12, <2>2, <2>4, <4>1, StandsNoEnd
        <5>2. bursts[b] <= Cap[kind] \div 2
          BY <4>1 DEF Windows!Fits
        <5>3. Sent(b) <= half
          BY <1>3, <1>8, <3>1, <5>1, <5>2
        <5>4. QED
          BY <5>1, <5>3
      <4>2. CASE kind = "rds"
        <5>1. ~(2 * Sent(b) > Len(s))
          <6> SUFFICES ASSUME 2 * Sent(b) > Len(s) PROVE FALSE
            OBVIOUS
          <6>1. Windows!Dominant(s) = {b}
            BY <1>3, <2>2, <3>3, MostIsDominant
          <6>2. b \in Windows!BurstsIn(s)
            BY <1>3, <2>2, <3>3, StandsIsIn
          <6>4. reading = <<b>>
            BY <1>a, <2>4, <4>2, <6>1, <6>2
          <6>5. CASE reading = last
            <7>0. last = <<b>> /\ LastStation
              BY <6>4, <6>5 DEF WindowInv
            <7>1. PICK c \in 1 .. Len(bursts) : last = <<c>> /\ heard[c] > 0
              BY <4>2, <7>0 DEF LastStation
            <7>2. c = b
              BY <6>4, <6>5, <7>1
            <7>3. QED
              BY <2>1, <7>1, <7>2
          <6>6. CASE reading # last
            <7>1. found = Windows!ToSet(<<b>>)
              BY <4>2, <6>4, <6>6 DEF Windows!HeardIn
            <7>2. b \in found
              BY <7>1 DEF Windows!ToSet
            <7>3. QED
              BY <2>1, <7>2
          <6>7. QED
            BY <6>5, <6>6
        <5>2. Going(b)
          <6> SUFFICES ASSUME ~Going(b) PROVE FALSE
            BY <3>3
          <6>1. /\ 2 * bursts[b] >= Cap[kind] + ChunkUnits[kind] /\ bursts[b] > ChunkUnits[kind]
                /\ Sent(b) = bursts[b]
            BY <1>8, <4>2 DEF Windows!Fits
          <6>2. /\ Len(s) \in Nat /\ Cap[kind] \in Nat /\ ChunkUnits[kind] \in Nat
                /\ Len(s) + 1 <= Cap[kind] + ChunkUnits[kind] \/ Len(s) <= 2 * ChunkUnits[kind]
                /\ bursts[b] \in Nat
            BY <1>3, <1>8
          <6>3. 2 * bursts[b] > Len(s)
            BY <6>1, <6>2, MostOf
          <6>4. QED
            BY <5>1, <6>1, <6>3
        <5>3. Sent(b) <= half
          BY <1>3, <3>1, <3>3, <5>1
        <5>4. QED
          BY <5>2, <5>3
      <4>3. QED
        BY <4>1, <4>2
    <3>5. Stands(b, Sent(b), TRUE, s)
      <4>1. Going(b) = TRUE
        BY <3>3, <3>4
      <4>2. QED
        BY <2>2, <4>1
    <3>6. Sent(b) \in 1 .. half
      BY <3>1, <3>3, <3>4
    <3>7. QED
      BY <1>3, <3>1, <3>2, <3>3, <3>5, <3>6, StandsInNewest
  <2>5. QED
    BY <2>3, <2>4
<1>17. QED
  BY <1>1, <1>9, <1>10, <1>13, <1>14, <1>15, <1>16 DEF WindowInv

LEMMA WindowStands ==
    ASSUME WindowInv, UNCHANGED <<kind, window, last, heard, air, bursts, part, spoiled>>
    PROVE  WindowInv'
<1>1. \A b : (StillThere(b)' <=> StillThere(b)) /\ (HeardOnce(b)' <=> HeardOnce(b))
  <2> TAKE b
  <2>1. Windows!Fits(b)' <=> Windows!Fits(b)
    BY DEF Windows!Fits
  <2>2. Sent(b)' = Sent(b) /\ Going(b)' = Going(b)
    BY DEF Sent, Going
  <2>3. QED
    BY <2>1, <2>2 DEF StillThere, HeardOnce
<1>2. \A b : Windows!Fits(b)' <=> Windows!Fits(b)
  BY DEF Windows!Fits
<1>3. LastText' /\ LastStation'
  BY <1>2 DEF WindowInv, LastText, LastStation
<1>4. WindowTypes' /\ WindowSize'
  BY DEF WindowInv, WindowTypes, WindowSize
<1>5. QED
  BY <1>1, <1>3, <1>4 DEF WindowInv

LEMMA WindowStepKeeps == ASSUME WindowInv, Windows!WindowNext PROVE WindowInv'
<1>1. CASE Windows!Rest
  BY <1>1, RestKeeps
<1>2. CASE Windows!BurstGoesOn
  BY <1>2, BurstGoesOnKeeps
<1>3. CASE \E n \in 1 .. MaxLength : Windows!BurstBegins(n)
  BY <1>3, BurstBeginsKeeps
<1>4. CASE Windows!Feed
  <2>1. CASE kind \in {"rds", "hf"}
    BY <1>4, <2>1, FeedTextKeeps
  <2>2. CASE kind \notin {"rds", "hf"} /\ 2 * ChunkUnits[kind] <= Cap[kind]
    BY <1>4, <2>2, FeedPacketsKeeps
  <2>3. CASE kind \notin {"rds", "hf"} /\ ~(2 * ChunkUnits[kind] <= Cap[kind])
    BY <1>4, <2>3, FeedLongChunkKeeps
  <2>4. QED
    BY <2>1, <2>2, <2>3
<1>5. CASE Windows!ChunkLost
  BY <1>5, ChunkLostKeeps
<1>6. CASE Windows!Reset
  BY <1>6, ResetKeeps
<1>7. QED
  BY <1>1, <1>2, <1>3, <1>4, <1>5, <1>6 DEF Windows!WindowNext

LEMMA WindowHears == ASSUME WindowInv PROVE Windows!BurstsHeard
<1>1. DOMAIN bursts = 1 .. Len(bursts)
  BY LenProperties DEF WindowInv, WindowTypes
<1> SUFFICES ASSUME NEW b \in 1 .. Len(bursts)
             PROVE  /\ kind \notin Windows!TextKinds => heard[b] <= 1
                    /\ b < Len(bursts) \/ ~Windows!Underway
                         => \/ b \in spoiled \/ ~Windows!Fits(b) \/ heard[b] > 0
                            \/ Windows!Whole(b, window \o air)
  BY <1>1 DEF Windows!BurstsHeard
<1>2. kind \notin Windows!TextKinds => heard[b] <= 1
  BY DEF WindowInv, HeardOnce, Windows!TextKinds
<1>3. ASSUME b < Len(bursts) \/ ~Windows!Underway, b \notin spoiled, Windows!Fits(b), ~(heard[b] > 0)
      PROVE  Windows!Whole(b, window \o air)
  <2> DEFINE s == window \o air
  <2>1. /\ heard[b] \in Nat /\ Sent(b) \in Nat /\ Going(b) \in BOOLEAN
        /\ (~Going(b) => Sent(b) = bursts[b]) /\ Len(bursts) \in Nat
        /\ s \in Seq(UnitType)
    <3>1. /\ heard[b] \in Nat /\ Sent(b) \in 1 .. bursts[b] /\ Going(b) \in BOOLEAN
          /\ (~Going(b) => Sent(b) = bursts[b]) /\ Len(bursts) \in Nat
          /\ s \in Seq(UnitType)
      BY WindowFacts
    <3>2. QED
      BY <3>1
  <2>2. ~Going(b)
    <3>1. CASE b < Len(bursts)
      BY <2>1, <3>1 DEF Going
    <3>2. CASE ~Windows!Underway
      <4>1. bursts # <<>>
        BY EmptySeq
      <4>2. QED
        BY <3>2, <4>1 DEF Going, Windows!Underway, Windows!Last
    <3>3. QED
      BY <1>3, <3>1, <3>2
  <2>3. heard[b] = 0
    BY <1>3, <2>1
  <2>4. Stands(b, Sent(b), Going(b), s)
    BY <1>3, <2>3 DEF WindowInv, StillThere
  <2> HIDE DEF s
  <2>5. Stands(b, bursts[b], FALSE, s)
    BY <2>1, <2>2, <2>4, StandsNoEnd
  <2>6. Windows!Whole(b, s)
    BY <2>1, <2>5, StandsWhole
  <2>7. QED
    BY <2>6 DEF s
<1>4. QED
  BY <1>2, <1>3

\* However long the bursts, whatever else is on the air and wherever the chunks
\* cut it: a burst that reached its decoder whole, that no other hid and that is
\* as long as its decoder's windows can take, is published or still waits whole
\* in the window, and a packet is published only once.
THEOREM BurstsAreHeard == Spec => []BurstsHeard
<1> DEFINE Inv == scene = "windows" => WindowInv
<1>1. Init => Inv
  BY WindowInitial DEF Init
<1>2. Inv /\ [Next]_vars => Inv'
  <2> SUFFICES ASSUME Inv, [Next]_vars PROVE Inv'
    OBVIOUS
  <2>1. CASE WindowsStep
    BY <2>1, WindowStepKeeps DEF WindowsStep
  <2>2. CASE BandsStep \/ FeedStep \/ SoundStep \/ RecStep \/ TrunkStep \/ InstallStep
    BY <2>2 DEF BandsStep, FeedStep, SoundStep, RecStep, TrunkStep, InstallStep
  <2>3. CASE UNCHANGED vars
    <3>1. /\ scene' = scene
          /\ UNCHANGED <<kind, window, last, heard, air, bursts, part, spoiled>>
      BY <2>3 DEF vars, windowsVars
    <3>2. QED
      BY <3>1, WindowStands
  <2>4. QED
    BY <2>1, <2>2, <2>3 DEF Next
<1>3. Inv => BurstsHeard
  BY WindowHears DEF BurstsHeard
<1>4. QED
  BY <1>1, <1>2, <1>3, PTL DEF Spec

=============================================================================
