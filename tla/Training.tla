---- MODULE Training ----
(***************************************************************************)
(* The fine-tuning of the contract model on Colab: contracts/train_qa.py   *)
(* and the notebooks cuad_finetune and cuad_onnx_export around it.  A      *)
(* runtime can be cut at any moment and takes its disk with it: the MLflow *)
(* file store with its runs and its registry, the bundle and the ONNX      *)
(* directories.  Only the checkpoints are on Google Drive.                 *)
(*                                                                         *)
(* The cells of a notebook are run in its order: a cell is run after the   *)
(* one before it has succeeded, and training again starts all over.        *)
(***************************************************************************)
EXTENDS Naturals, FiniteSets, Sequences

CONSTANTS
  Steps,      \* the training steps of the schedule
  SaveSteps,  \* a checkpoint every so many steps
  SaveLimit,  \* how many checkpoints are kept
  MaxRuns,    \* bound: runs, versions and exports of one runtime
  MaxBad,     \* bound: failures, and runtimes cut before a new checkpoint
  None

ASSUME TrainingAssumption ==
  /\ Steps \in Nat \ {0} /\ SaveSteps \in Nat \ {0} /\ SaveLimit \in Nat \ {0}
  /\ MaxRuns \in Nat /\ MaxBad \in Nat
  /\ None \notin Nat

VARIABLES
  gpu,       \* of the runtime: none, bf16, other
  doing,     \* what the training cell does, or idle
  step,      \* the steps the weights in memory were trained for
  drive,     \* of each checkpoint on Google Drive: none, partial, whole
  reached,   \* the last checkpoint that was ever whole
  fresh,     \* did this runtime complete a checkpoint
  bad,       \* the failures so far
  runs,      \* the artifact "bundle" of each MLflow run, in order of start
  versions,  \* the runs registered as cuad-extractor
  bundle,    \* the directory cuad-extractor-bundle
  stage,     \* the last cell that succeeded
  onnx,      \* the weights in the fp32 and the int8 directory
  exports,   \* the runs of cuad-onnx-export: version they name, weights
  served     \* the exports registered as cuad-extractor-onnx-int8

diskVars == <<runs, versions, bundle, stage, onnx, exports, served>>
trainingVars == <<gpu, doing, step, drive, reached, fresh, bad, diskVars>>

Empty == [model |-> None, metrics |-> None]

TrainingInit ==
  /\ gpu = "none" /\ doing = "idle" /\ step = 0
  /\ drive = [n \in 1 .. Steps |-> "none"]
  /\ reached = 0 /\ fresh = FALSE /\ bad = 0
  /\ runs = <<>> /\ versions = <<>> /\ exports = <<>> /\ served = <<>>
  /\ bundle = Empty /\ onnx = [fp32 |-> None, int8 |-> None]
  /\ stage = "none"

----------------------------------------------------------------------------
(* Colab.                                                                  *)

Boot ==
  /\ gpu = "none" /\ gpu' \in {"bf16", "other"}
  /\ UNCHANGED <<doing, step, drive, reached, fresh, bad, diskVars>>

\* The runtime is lost: it timed out, or another type is chosen.
Lose(n) ==
  /\ bad' = bad + n
  /\ doing' = "idle" /\ step' = 0 /\ fresh' = FALSE /\ stage' = "none"
  /\ runs' = <<>> /\ versions' = <<>> /\ exports' = <<>> /\ served' = <<>>
  /\ bundle' = Empty /\ onnx' = [fp32 |-> None, int8 |-> None]
  /\ UNCHANGED <<drive, reached>>

Cut ==
  /\ gpu # "none" /\ (fresh \/ bad < MaxBad)
  /\ gpu' = "none"
  /\ Lose(IF fresh THEN 0 ELSE 1)

----------------------------------------------------------------------------
(* train_qa.py.                                                            *)

\* bf16 is the precision of the configuration: it is refused elsewhere.
Supported == gpu = "bf16"

ChangeRuntime ==
  /\ gpu # "none" /\ ~Supported
  /\ gpu' = "bf16"
  /\ Lose(0)

SaveDue(n) == n % SaveSteps = 0 \/ n = Steps

Checkpoints(d) == {n \in 1 .. Steps : d[n] # "none"}

Highest(S) == CHOOSE n \in S : \A m \in S : m <= n

\* Faulty variants: the oldest checkpoint, and none.
FindFirstCheckpoint ==
  IF Checkpoints(drive) = {} THEN 0
  ELSE CHOOSE n \in Checkpoints(drive) : \A m \in Checkpoints(drive) : n <= m
FindNoCheckpoint == 0

\* The checkpoint of the highest number, whole or not, or 0 to start fresh.
FindLastCheckpoint ==
  IF Checkpoints(drive) = {} THEN 0 ELSE Highest(Checkpoints(drive))

\* The oldest checkpoints beyond the limit are deleted.
Rotated(d) == [n \in 1 .. Steps |->
  IF Cardinality({m \in Checkpoints(d) : m > n}) >= SaveLimit THEN "none" ELSE d[n]]

\* A new run logs its parameters; a checkpoint that is not whole makes the
\* trainer raise, and the run stays without a bundle.
StartTraining ==
  /\ Supported /\ doing = "idle" /\ Len(runs) < MaxRuns
  /\ runs' = Append(runs, Empty)
  /\ step' = FindLastCheckpoint
  /\ doing' = IF step' > 0 /\ drive[step'] = "partial" THEN "idle" ELSE "train"
  /\ stage' = "none"
  /\ UNCHANGED <<gpu, drive, reached, fresh, bad, versions, bundle, onnx, exports,
                 served>>

\* A due checkpoint is begun at once, in its own directory.
TrainStep ==
  /\ doing = "train" /\ step < Steps
  /\ step' = step + 1
  /\ IF SaveDue(step')
     THEN doing' = "save" /\ drive' = [drive EXCEPT ![step'] = "partial"]
     ELSE UNCHANGED <<doing, drive>>
  /\ UNCHANGED <<gpu, reached, fresh, bad, diskVars>>

FinishCheckpoint ==
  /\ doing = "save"
  /\ drive' = Rotated([drive EXCEPT ![step] = "whole"])
  /\ reached' = step /\ fresh' = TRUE
  /\ doing' = "train"
  /\ UNCHANGED <<gpu, step, bad, diskVars>>

Saved == [run |-> Len(runs), steps |-> step]

\* The model is evaluated, then the bundle is written over the last one:
\* the model, then the metrics of this evaluation.
SaveModel ==
  /\ doing = "train" /\ step = Steps
  /\ bundle' = [bundle EXCEPT !.model = Saved]
  /\ doing' = "metrics"
  /\ UNCHANGED <<gpu, step, drive, reached, fresh, bad, runs, versions, stage,
                 onnx, exports, served>>

SaveMetrics ==
  /\ doing = "metrics"
  /\ bundle' = [bundle EXCEPT !.metrics = Saved]
  /\ doing' = "log"
  /\ UNCHANGED <<gpu, step, drive, reached, fresh, bad, runs, versions, stage,
                 onnx, exports, served>>

LogBundle ==
  /\ doing = "log"
  /\ runs' = [runs EXCEPT ![Len(runs)] = bundle]
  /\ doing' = "idle" /\ stage' = "trained"
  /\ UNCHANGED <<gpu, step, drive, reached, fresh, bad, versions, bundle, onnx,
                 exports, served>>

\* Anything that is raised in the training cell ends it, and its run with it.
Raise ==
  /\ doing # "idle" /\ bad < MaxBad
  /\ bad' = bad + 1 /\ doing' = "idle"
  /\ UNCHANGED <<gpu, step, drive, reached, fresh, diskVars>>

----------------------------------------------------------------------------
(* The cells that follow.                                                  *)

\* The cells of the export notebook, and those that follow cell c.
ExportCells == <<"downloaded", "exported", "quantized", "logged", "done">>
From(c) == {ExportCells[n] : n \in c .. Len(ExportCells)}

\* A cell may be run again, and all that follow it after it.
Cell(from, to) ==
  /\ doing = "idle" /\ stage \in from /\ stage' = to
  /\ UNCHANGED <<gpu, doing, step, drive, reached, fresh, bad, runs>>

\* Faulty variant: ordered by start_time, the oldest first.
FirstRun(S) == 1

\* The runs ordered by start_time, the newest first: the first of them.
LatestRun(S) == Len(S)

Register ==
  /\ Len(versions) < MaxRuns
  /\ Cell({"trained", "registered"}, "registered")
  /\ versions' = Append(versions, LatestRun(runs))
  /\ UNCHANGED <<bundle, onnx, exports, served>>

ModelVersion == 1

\* Faulty variant: what is there already is not downloaded again.
DownloadMissing ==
  /\ Len(versions) >= ModelVersion
  /\ Cell({"none", "trained", "registered"} \union From(1), "downloaded")
  /\ bundle' = IF bundle.model = None THEN runs[versions[ModelVersion]] ELSE bundle
  /\ UNCHANGED <<versions, onnx, exports, served>>

\* Into the directory of the same name, over what training left there.
Download ==
  /\ Len(versions) >= ModelVersion
  /\ Cell({"none", "trained", "registered"} \union From(1), "downloaded")
  /\ bundle' = runs[versions[ModelVersion]]
  /\ UNCHANGED <<versions, onnx, exports, served>>

ExportFp32 ==
  /\ Cell(From(1), "exported")
  /\ onnx' = [onnx EXCEPT !.fp32 = bundle.model]
  /\ UNCHANGED <<versions, bundle, exports, served>>

Quantize ==
  /\ Cell(From(2), "quantized")
  /\ onnx' = [onnx EXCEPT !.int8 = onnx.fp32]
  /\ UNCHANGED <<versions, bundle, exports, served>>

LogExport ==
  /\ Len(exports) < MaxRuns
  /\ Cell(From(3), "logged")
  /\ exports' = Append(exports, [version |-> ModelVersion, int8 |-> onnx.int8])
  /\ UNCHANGED <<versions, bundle, onnx, served>>

RegisterExport ==
  /\ Len(served) < MaxRuns
  /\ Cell(From(4), "done")
  /\ served' = Append(served, LatestRun(exports))
  /\ UNCHANGED <<versions, bundle, onnx, exports>>

\* A download, an export or a quantisation that fails leaves part of a file
\* behind; it is the next cell that is run.
CellFails ==
  /\ doing = "idle" /\ bad < MaxBad /\ bad' = bad + 1
  /\ \/ bundle' = Empty /\ UNCHANGED onnx
        /\ versions # <<>> /\ stage' \in {"trained", "registered"} \intersect {stage}
     \/ onnx' = [onnx EXCEPT !.fp32 = None] /\ UNCHANGED bundle
        /\ stage \in From(1) /\ stage' = "downloaded"
     \/ onnx' = [onnx EXCEPT !.int8 = None] /\ UNCHANGED bundle
        /\ stage \in From(2) /\ stage' = "exported"
  /\ UNCHANGED <<gpu, doing, step, drive, reached, fresh, runs, versions, exports,
                 served>>

----------------------------------------------------------------------------

TrainingCell ==
  TrainStep \/ FinishCheckpoint \/ SaveModel \/ SaveMetrics \/ LogBundle

TrainingNext ==
  \/ Boot \/ Cut \/ ChangeRuntime
  \/ StartTraining \/ TrainingCell \/ Raise
  \/ Register \/ Download \/ ExportFp32 \/ Quantize \/ LogExport \/ RegisterExport
  \/ CellFails

\* A cell runs on, and the notebook is run again on a new runtime until it has
\* trained: that it is worth doing so is what is promised.
TrainingSpec ==
  /\ TrainingInit /\ [][TrainingNext]_trainingVars
  /\ WF_trainingVars(TrainingCell)
  /\ WF_trainingVars(Boot) /\ WF_trainingVars(ChangeRuntime) /\ WF_trainingVars(StartTraining)

----------------------------------------------------------------------------
(* Properties.                                                             *)

Weights == [run : 1 .. MaxRuns, steps : 0 .. Steps]
Bundles == [model : Weights \union {None}, metrics : Weights \union {None}]

TrainingTypeOK ==
  /\ gpu \in {"none", "bf16", "other"}
  /\ doing \in {"idle", "train", "save", "metrics", "log"}
  /\ step \in 0 .. Steps /\ reached \in 0 .. Steps
  /\ drive \in [1 .. Steps -> {"none", "partial", "whole"}]
  /\ fresh \in BOOLEAN /\ bad \in 0 .. MaxBad
  /\ stage \in {"none", "trained", "registered"} \union From(1)
  /\ runs \in Seq(Bundles) /\ Len(runs) <= MaxRuns /\ bundle \in Bundles
  /\ versions \in Seq(1 .. MaxRuns) /\ served \in Seq(1 .. MaxRuns)
  /\ onnx \in [{"fp32", "int8"} -> Weights \union {None}]
  /\ exports \in Seq([version : Nat, int8 : Weights \union {None}])
  /\ Len(exports) <= MaxRuns

\* Every version of cuad-extractor is a model that went through the whole
\* schedule, across however many runtimes, with the metrics of that model: no
\* run that was cut, raised or was refused its checkpoint is ever registered.
VersionsAreTrained ==
  \A v \in 1 .. Len(versions) :
    LET b == runs[versions[v]] IN
      b.model = b.metrics /\ b.model = [run |-> versions[v], steps |-> Steps]

\* What was saved once is never trained again: the last whole checkpoint stays
\* on Drive, and no run trains from an earlier step.
ProgressIsKept ==
  /\ reached > 0 => drive[reached] = "whole"
  /\ doing # "idle" => step >= reached

\* A model that is registered for serving is the version that its run names,
\* whatever a training or a failed cell left in the directories on the way.
ExportsAreOfVersion ==
  \A i \in 1 .. Len(served) :
    LET e == exports[served[i]] IN e.int8 = runs[versions[e.version]].model

\* A cut or a failure has left the newest checkpoint half-way: no run gets past it.
Blocked ==
  /\ doing = "idle" /\ Checkpoints(drive) # {}
  /\ drive[Highest(Checkpoints(drive))] = "partial"

\* Runtimes may be cut for ever, if each completes a checkpoint first: the next
\* one goes on from it, so the training ends all the same, unless a runtime is
\* lost, or its cell raises, while it writes a checkpoint.
TrainingEnds ==
  <>(Blocked \/ \E r \in 1 .. Len(runs) : runs[r].model # None)

----------------------------------------------------------------------------
(* The inductive invariant.                                                *)

\* The bundle of run r, when it went through the whole schedule.
Trained(r) == [model |-> [run |-> r, steps |-> Steps],
               metrics |-> [run |-> r, steps |-> Steps]]

\* A training trains on from all checkpoints there are; the one that it is
\* writing is its own.
DriveInv ==
  /\ reached > 0 => drive[reached] = "whole"
  /\ doing # "idle" => \A n \in Checkpoints(drive) : n <= step
  /\ doing = "save" => step > 0

\* A training is of the last run, and no cell but its own has succeeded since it
\* began; the bundle is that of this training as far as it is written.
BundleInv ==
  /\ doing # "idle" => runs # <<>> /\ stage = "none"
  /\ doing \in {"metrics", "log"} => step = Steps /\ bundle.model = Saved
  /\ doing = "log" => bundle.metrics = Saved

\* A run is registered in the state that the last cell of its training left.
VersionInv ==
  /\ stage \in {"trained", "registered"} =>
       runs # <<>> /\ runs[Len(runs)] = Trained(Len(runs))
  /\ \A v \in 1 .. Len(versions) :
       versions[v] <= Len(runs) /\ runs[versions[v]] = Trained(versions[v])

\* The weights of the version that is asked for, if there is one.
Wanted == [run |-> versions[ModelVersion], steps |-> Steps]

\* Each cell of the export hands on the weights that the cell before it left.
ExportInv ==
  /\ stage \in From(1) => Len(versions) >= ModelVersion /\ bundle.model = Wanted
  /\ stage \in From(2) => onnx.fp32 = Wanted
  /\ stage \in From(3) => onnx.int8 = Wanted
  /\ stage \in From(4) => exports # <<>>
  /\ exports # <<>> => Len(versions) >= ModelVersion
  /\ \A i \in 1 .. Len(exports) :
       exports[i] = [version |-> ModelVersion, int8 |-> Wanted]
  /\ \A i \in 1 .. Len(served) : served[i] <= Len(exports)

TrainingInv ==
  TrainingTypeOK /\ DriveInv /\ BundleInv /\ VersionInv /\ ExportInv

====
