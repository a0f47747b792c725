---- MODULE Delivery ----
(***************************************************************************)
(* How a KIE model gets from a training to the service: the bundle that    *)
(* kie/train.py writes on Colab, its import into the registry              *)
(* (kie/import_run.py), the benchmark that exports, quantises, scores and  *)
(* registers it (optimize/run_benchmark.py), and the first requests of the *)
(* service, which load it (kie/backend.py).  Files are followed by where   *)
(* they come from: the training of a bundle's file, the version of a       *)
(* downloaded one.                                                         *)
(***************************************************************************)
EXTENDS Naturals, Sequences

CONSTANTS
  MaxTrainings,  \* bound: trainings begun
  MaxVersions,   \* bound: versions of each registered model
  Names,         \* the values that kie_registered_model_name may have
  MaxFails,      \* bound: steps that raise, and crashes of the service
  Loaders,       \* the first requests, each in a thread of its own
  Absent,        \* no file, or a part of one that cannot be read
  Holed          \* a file of full length with a gap of zeros in it

ASSUME DeliveryAssumption ==
  /\ MaxTrainings \in Nat /\ MaxVersions \in Nat \ {0} /\ MaxFails \in Nat
  /\ Absent \notin Nat /\ Holed \notin Nat /\ Absent # Holed
  /\ Absent \notin [graph : 1 .. MaxVersions \union {Holed}, labels : 1 .. MaxVersions]

\* save_bundle writes these in this order.
BundleFiles == <<"model", "processor", "label_map", "metrics">>
BundleFile == {BundleFiles[n] : n \in 1 .. Len(BundleFiles)}

\* What onnx-int8 holds: model_quantized.onnx, and the labels in config.json.
OnnxFile == {"graph", "labels"}

\* The samples that are scored are encoded with these files of the bundle.
SampleFile == {"processor", "label_map"}

\* The models that the benchmark compares.
Configs == {"torch-fp32", "onnx-fp32", "onnx-int8"}

Missing(files) == [f \in files |-> Absent]

\* Each file is the old one, the new one, or a part of it.
Mixed(old, new) ==
  {m \in [DOMAIN new -> UNION {{old[f], new[f], Absent} : f \in DOMAIN new}] :
     \A f \in DOMAIN new : m[f] \in {old[f], new[f], Absent}}

VARIABLES
  fails,
  trained,    \* the trainings begun
  saving,     \* the files of the bundle that this training has written, or Absent
  bundle,     \* the bundle directory on Colab
  unzipped,   \* the bundle directory on the laptop
  versions,   \* the versions of each registered KIE model
  bench,      \* the last step that the benchmark has made
  source,     \* the registered model that it is run on
  work,       \* its directories: bundle, fp32, int8
  scores,     \* what it measured of each model: which model, on which samples
  onnx,       \* the versions of kie_onnx_registered_model_name
  pin,        \* kie_onnx_model_version
  local,      \* the version copied to kie_onnx_local_path, or Absent
  dest,       \* the model directory of the service: version of each file
  opener,     \* the last request that opened each file, which truncates it
  loader,     \* of a first request: its step, its files, what it read
  backend     \* app.state.kie_backend: the versions of graph and labels

colabVars == <<trained, saving, bundle>>
benchVars == <<bench, source, work, scores, onnx>>
serveVars == <<pin, local, dest, opener, loader, backend>>
deliveryVars == <<fails, colabVars, unzipped, versions, benchVars, serveVars>>

Asleep == [at |-> "idle", has |-> {}, labels |-> Absent, graph |-> Absent]

DeliveryInit ==
  /\ fails = 0
  /\ trained = 0 /\ saving = Absent
  /\ bundle = Missing(BundleFile) /\ unzipped = Missing(BundleFile)
  /\ versions = [n \in Names |-> <<>>] /\ onnx = <<>>
  /\ bench = "idle" /\ source \in Names
  /\ work = [bundle |-> Missing(BundleFile), fp32 |-> Absent,
             int8 |-> Missing(OnnxFile)]
  /\ scores = Absent
  /\ pin = 1 /\ local = Absent
  /\ dest = Missing(OnnxFile) /\ opener = Missing(OnnxFile)
  /\ loader = [l \in Loaders |-> Asleep]
  /\ backend = Absent

----------------------------------------------------------------------------
(* Colab: kie/train.py and the notebook.                                   *)

\* The trainer runs; a training starts from the base model, never from a
\* checkpoint, and another one may follow.
RunTraining ==
  /\ saving = Absent /\ trained < MaxTrainings
  /\ trained' = trained + 1
  /\ saving' = 0
  /\ UNCHANGED <<fails, bundle, unzipped, versions, benchVars, serveVars>>

\* Faulty variant: a file that is there is not written again.
SaveMissing ==
  /\ saving \in 0 .. Len(BundleFiles) - 1
  /\ saving' = saving + 1
  /\ bundle' = [bundle EXCEPT ![BundleFiles[saving']] = IF @ = Absent THEN trained ELSE @]
  /\ UNCHANGED <<fails, trained, unzipped, versions, benchVars, serveVars>>

\* Over the bundle of an earlier training.
SaveBundle ==
  /\ saving \in 0 .. Len(BundleFiles) - 1
  /\ saving' = saving + 1
  /\ bundle' = [bundle EXCEPT ![BundleFiles[saving']] = trained]
  /\ UNCHANGED <<fails, trained, unzipped, versions, benchVars, serveVars>>

\* The cell raises: the cell that zips the bundle is not run.
TrainingFails ==
  /\ saving # Absent /\ fails < MaxFails
  /\ fails' = fails + 1
  /\ saving' = Absent
  /\ UNCHANGED <<trained, bundle, unzipped, versions, benchVars, serveVars>>

\* The bundle is zipped, downloaded and unzipped over an earlier one.
DownloadZip ==
  /\ saving = Len(BundleFiles)
  /\ unzipped' = bundle
  /\ saving' = Absent
  /\ UNCHANGED <<fails, trained, bundle, versions, benchVars, serveVars>>

----------------------------------------------------------------------------
(* The laptop: import_run.py, then run_benchmark.py.                       *)

\* Under the name of the settings; a run without its registration shows nowhere.
ImportBundle ==
  /\ unzipped["label_map"] # Absent /\ unzipped["metrics"] # Absent
  /\ \E n \in Names :
       /\ Len(versions[n]) < MaxVersions
       /\ versions' = [versions EXCEPT ![n] = Append(@, unzipped)]
  /\ UNCHANGED <<fails, colabVars, unzipped, benchVars, serveVars>>

\* BenchmarkConfig leaves it at its default.
SourceVersion == 1

\* The source that the settings name, in working directories that are the same
\* for all sources.
BeginBenchmark ==
  /\ bench = "idle" /\ Len(onnx) < MaxVersions
  /\ bench' = "begun"
  /\ source' \in {n \in Names : Len(versions[n]) >= SourceVersion}
  /\ UNCHANGED <<fails, colabVars, unzipped, versions, work, scores, onnx, serveVars>>

Step(from, to) ==
  /\ bench = from /\ bench' = to
  /\ UNCHANGED <<fails, colabVars, unzipped, versions, source, serveVars>>

DownloadRegistered ==
  /\ Step("begun", "bundle")
  /\ work' = [work EXCEPT !.bundle = versions[source][SourceVersion]]
  /\ UNCHANGED <<scores, onnx>>

\* Faulty variant: an export that is there is used.
ExportMissing ==
  /\ Step("bundle", "fp32")
  /\ work' = [work EXCEPT !.fp32 = IF @ = Absent THEN work.bundle["model"] ELSE @]
  /\ UNCHANGED <<scores, onnx>>

ExportOnnx ==
  /\ Step("bundle", "fp32")
  /\ work' = [work EXCEPT !.fp32 = work.bundle["model"]]
  /\ UNCHANGED <<scores, onnx>>

Quantized == [f \in OnnxFile |-> work.fp32]

QuantizeInt8 ==
  /\ Step("fp32", "int8")
  /\ work' = [work EXCEPT !.int8 = Quantized]
  /\ UNCHANGED <<scores, onnx>>

\* The test split, encoded and labelled by the files of a bundle.
Samples(files) == [f \in SampleFile |-> files[f]]

\* The model in the directory of each configuration.
Compared(c) ==
  CASE c = "torch-fp32" -> work.bundle["model"]
    [] c = "onnx-fp32" -> work.fp32
    [] OTHER -> work.int8["graph"]

\* What a model scores: as many of its predictions as the labels agree with.
Score(model, samples) == [model |-> model, samples |-> samples]

Evaluate ==
  /\ Step("int8", "scored")
  /\ scores' = [c \in Configs |-> Score(Compared(c), Samples(work.bundle))]
  /\ UNCHANGED <<work, onnx>>

\* All scores are logged with the int8 model, which is then registered.
RegisterOnnx ==
  /\ Step("scored", "idle")
  /\ onnx' = Append(onnx, [source |-> source, files |-> work.int8, scores |-> scores])
  /\ scores' = Absent
  /\ UNCHANGED work

\* A step raises, and leaves part of what it was writing.
BenchmarkFails ==
  /\ bench # "idle" /\ fails < MaxFails
  /\ fails' = fails + 1
  /\ bench' = "idle" /\ scores' = Absent
  /\ \/ /\ bench = "begun"
        /\ \E m \in Mixed(work.bundle, versions[source][SourceVersion]) :
             work' = [work EXCEPT !.bundle = m]
     \/ /\ bench = "bundle"
        /\ \E m \in {work.fp32, Absent} : work' = [work EXCEPT !.fp32 = m]
     \/ /\ bench = "fp32"
        /\ \E m \in Mixed(work.int8, Quantized) : work' = [work EXCEPT !.int8 = m]
     \/ bench \in {"int8", "scored"} /\ UNCHANGED work
  /\ UNCHANGED <<colabVars, unzipped, versions, source, onnx, serveVars>>

----------------------------------------------------------------------------
(* The service: get_kie_backend, LayoutLMv3OnnxBackend.load.               *)

Serves(l, to) ==
  /\ loader' = [loader EXCEPT ![l] = to]
  /\ UNCHANGED <<fails, colabVars, unzipped, versions, benchVars, pin, local>>

\* A first request finds no backend and loads one.  Bound: the service is
\* looked at when all versions are there, of which it reads one that stays.
BeginLoad(l) ==
  /\ Len(onnx) = MaxVersions
  /\ backend = Absent /\ loader[l].at = "idle"
  /\ Serves(l, [loader[l] EXCEPT !.at = "resolve"])
  /\ UNCHANGED <<dest, opener, backend>>

\* Faulty variant: a file that is there is not downloaded.
DueIfMissing(l, f) == local = Absent /\ f \notin loader[l].has /\ dest[f] = Absent

\* Every load downloads every file, unless a local directory is given.
Due(l, f) == local = Absent /\ f \notin loader[l].has

\* The file is truncated, under whoever else is writing it ...
OpenFile(l, f) ==
  /\ loader[l].at = "resolve" /\ Due(l, f)
  /\ Serves(l, [loader[l] EXCEPT !.at = f])
  /\ dest' = [dest EXCEPT ![f] = Absent]
  /\ opener' = [opener EXCEPT ![f] = l]
  /\ UNCHANGED backend

\* ... and whole again when the one that truncated it last has written all of it.
\* Others go on at their own offsets: the end that they write may follow a gap.
CloseFile(l, f) ==
  /\ loader[l].at = f
  /\ Serves(l, [loader[l] EXCEPT !.at = "resolve", !.has = @ \union {f}])
  /\ \E c \in IF opener[f] = l \/ dest[f] = pin THEN {pin} ELSE {pin, Holed} :
       dest' = [dest EXCEPT ![f] = c]
  /\ UNCHANGED <<opener, backend>>

Content(f) == IF local = Absent THEN dest[f] ELSE local

AllThere(l) == loader[l].at = "resolve" /\ \A f \in OnnxFile : ~Due(l, f)

ReadLabels(l) ==
  /\ AllThere(l) /\ Content("labels") \notin {Absent, Holed}
  /\ Serves(l, [loader[l] EXCEPT !.at = "read", !.labels = Content("labels")])
  /\ UNCHANGED <<dest, opener, backend>>

\* A graph with a gap may be opened: the gap may lie among the weights.
OpenSession(l) ==
  /\ loader[l].at = "read" /\ Content("graph") # Absent
  /\ Serves(l, [loader[l] EXCEPT !.at = "session", !.graph = Content("graph")])
  /\ UNCHANGED <<dest, opener, backend>>

\* Faulty variant: whoever fails cleans up the directory.
LoadRaisesAndCleans(l) ==
  /\ \/ AllThere(l) /\ Content("labels") \in {Absent, Holed}
     \/ loader[l].at = "read" /\ Content("graph") \in {Absent, Holed}
  /\ Serves(l, [Asleep EXCEPT !.at = "failed"])
  /\ dest' = Missing(OnnxFile)
  /\ UNCHANGED <<opener, backend>>

\* A file is missing, or another thread is writing it, or has left it with a gap.
LoadRaises(l) ==
  /\ \/ AllThere(l) /\ Content("labels") \in {Absent, Holed}
     \/ loader[l].at = "read" /\ Content("graph") \in {Absent, Holed}
  /\ Serves(l, [Asleep EXCEPT !.at = "failed"])
  /\ UNCHANGED <<dest, opener, backend>>

\* The processor is there too; the last one that loads sets app.state.kie_backend.
KeepBackend(l) ==
  /\ loader[l].at = "session"
  /\ Serves(l, [Asleep EXCEPT !.at = "loaded"])
  /\ backend' = [graph |-> loader[l].graph, labels |-> loader[l].labels]
  /\ UNCHANGED <<dest, opener>>

\* The registry does not answer, and a file that was begun stays as it is; or the
\* hub, from which the processor is loaded.
DownloadFails(l) ==
  /\ \/ loader[l].at \in {"resolve"} \union OnnxFile /\ \E f \in OnnxFile : Due(l, f)
     \/ loader[l].at = "session"
  /\ fails < MaxFails /\ fails' = fails + 1
  /\ loader' = [loader EXCEPT ![l] = [Asleep EXCEPT !.at = "refused"]]
  /\ UNCHANGED <<colabVars, unzipped, versions, benchVars, pin, local, dest, opener,
                 backend>>

\* The service is stopped at any moment and started with other settings.
Restart ==
  /\ Len(onnx) = MaxVersions
  /\ pin' \in 1 .. MaxVersions /\ local' \in {Absent} \union 1 .. MaxVersions
  /\ loader' = [l \in Loaders |-> Asleep]
  /\ opener' = Missing(OnnxFile)
  /\ backend' = Absent
  /\ UNCHANGED <<fails, colabVars, unzipped, versions, benchVars, dest>>

----------------------------------------------------------------------------

DeliveryNext ==
  \/ RunTraining \/ SaveBundle \/ TrainingFails \/ DownloadZip
  \/ ImportBundle
  \/ BeginBenchmark \/ DownloadRegistered \/ ExportOnnx \/ QuantizeInt8 \/ Evaluate \/ RegisterOnnx
  \/ BenchmarkFails
  \/ Restart
  \/ \E l \in Loaders :
       \/ BeginLoad(l) \/ ReadLabels(l) \/ OpenSession(l)
       \/ LoadRaises(l) \/ KeepBackend(l) \/ DownloadFails(l)
       \/ \E f \in OnnxFile : OpenFile(l, f) \/ CloseFile(l, f)

DeliverySpec == DeliveryInit /\ [][DeliveryNext]_deliveryVars

----------------------------------------------------------------------------
(* Properties.                                                             *)

Origin == 1 .. MaxTrainings \union {Absent}
Version == 1 .. MaxVersions \union {Absent, Holed}
Bundle == [BundleFile -> Origin]
Scores == [Configs -> [model : Origin, samples : [SampleFile -> Origin]]]
Work == [bundle : Bundle, fp32 : Origin, int8 : [OnnxFile -> Origin]]
Export == [source : Names, files : [OnnxFile -> Origin], scores : Scores]
Active == {"resolve", "read", "session"} \union OnnxFile
LoaderState ==
  [at : {"idle", "loaded", "failed", "refused"} \union Active,
   has : SUBSET OnnxFile, labels : Version, graph : Version]

DeliveryTypeOK ==
  /\ fails \in 0 .. MaxFails /\ trained \in 0 .. MaxTrainings
  /\ saving \in 0 .. Len(BundleFiles) \union {Absent}
  /\ bundle \in Bundle /\ unzipped \in Bundle
  /\ versions \in [Names -> Seq(Bundle)]
  /\ bench \in {"idle", "begun", "bundle", "fp32", "int8", "scored"}
  /\ source \in Names
  /\ work \in Work /\ onnx \in Seq(Export)
  /\ bench = "scored" => scores \in Scores
  /\ pin \in 1 .. MaxVersions /\ local \in 1 .. MaxVersions \union {Absent}
  /\ dest \in [OnnxFile -> Version]
  /\ opener \in [OnnxFile -> Loaders \union {Absent}]
  /\ loader \in [Loaders -> LoaderState]
  /\ backend = Absent \/ backend \in [graph : Version, labels : Version]

\* All files of a version of the registry come from one training, whatever
\* training raised half-way through writing its bundle over the last one.
VersionIsWhole ==
  \A n \in Names : \A v \in 1 .. Len(versions[n]) : \E t \in 1 .. MaxTrainings :
    \A f \in BundleFile : versions[n][v][f] = t

\* A registered ONNX model is the model that its run names as its source, and
\* each of the three scores beside it is of this model, on samples that its own
\* bundle encodes, whatever benchmarks of other sources, finished or broken off
\* at any step, have left in the same working directories.
OnnxIsOfSource ==
  \A i \in 1 .. Len(onnx) :
    LET of == versions[onnx[i].source][SourceVersion]
    IN /\ \A f \in OnnxFile : onnx[i].files[f] = of["model"]
       /\ \A c \in Configs : onnx[i].scores[c] = Score(of["model"], Samples(of))

\* The version that the service is configured with.
Configured == IF local = Absent THEN pin ELSE local

\* At most one first request was made since the service was started.
Alone == \A k, l \in Loaders : loader[k].at # "idle" /\ loader[l].at # "idle" => k = l

\* What was opened is the graph that the service is configured with; only
\* downloads that overlap can leave a gap in it.
GraphOK(g) == g = Configured \/ (g = Holed /\ local = Absent /\ ~Alone)

\* A backend that serves has the graph and the labels that it was configured
\* with: of neither an earlier configuration nor a download that broke off in an
\* earlier life of the service.  Two first requests may spoil the graph for each
\* other, but not so that it is another one, and never the labels.
LoadedIsPinned ==
  backend # Absent => backend.labels = Configured /\ GraphOK(backend.graph)

\* First requests may spoil each other's files, but not all of them fail for it:
\* where registry and hub answered, one has loaded the backend by the end.
OneOfThemLoads ==
  /\ \E l \in Loaders : loader[l].at = "failed"
  /\ \A l \in Loaders : loader[l].at \in {"idle", "loaded", "failed"}
  => backend # Absent

----------------------------------------------------------------------------
(* The inductive invariant.                                                *)

OfOne(files) == \E t \in 1 .. MaxTrainings : \A f \in BundleFile : files[f] = t

\* What is written of the bundle is of this training; the zip of a bundle is
\* only taken when all of it is.
BundleInv ==
  /\ saving \in 0 .. Len(BundleFiles) =>
       /\ trained > 0
       /\ \A n \in 1 .. saving : bundle[BundleFiles[n]] = trained
  /\ unzipped = Missing(BundleFile) \/ OfOne(unzipped)
  /\ VersionIsWhole

\* The version that is the source of a benchmark of model n, and its scores.
Source(n) == versions[n][SourceVersion]
ScoresOf(files) == [c \in Configs |-> Score(files["model"], Samples(files))]

\* Each step of the benchmark hands on the model that the step before it left.
BenchInv ==
  /\ bench # "idle" => Len(versions[source]) >= SourceVersion
  /\ bench \in {"bundle", "fp32", "int8", "scored"} => work.bundle = Source(source)
  /\ bench \in {"fp32", "int8", "scored"} => work.fp32 = Source(source)["model"]
  /\ bench \in {"int8", "scored"} =>
       \A f \in OnnxFile : work.int8[f] = Source(source)["model"]
  /\ bench = "scored" => scores = ScoresOf(Source(source))
  /\ \A i \in 1 .. Len(onnx) :
       /\ Len(versions[onnx[i].source]) >= SourceVersion
       /\ \A f \in OnnxFile : onnx[i].files[f] = Source(onnx[i].source)["model"]
       /\ onnx[i].scores = ScoresOf(Source(onnx[i].source))

\* A file that was opened in this life of the service is there, or the one that
\* truncated it last is writing it, or some download broke off.
Held(f) ==
  /\ dest[f] \in {pin, Absent, Holed}
  /\ \/ dest[f] = pin
     \/ \E k \in Loaders : opener[f] = k /\ loader[k].at = f
     \/ \E k \in Loaders : loader[k].at = "refused"

\* What a loader writes or has downloaded is held, and what it has read is what
\* the service is configured with.
LoadInv ==
  /\ LoadedIsPinned
  /\ \A l \in Loaders :
       /\ loader[l].at \in OnnxFile \/ loader[l].has # {} => local = Absent
       /\ \A f \in OnnxFile : loader[l].at = f \/ f \in loader[l].has => Held(f)
       /\ loader[l].at \in {"read", "session"} =>
            /\ loader[l].labels = Configured
            /\ local = Absent => loader[l].has = OnnxFile
       /\ loader[l].at = "session" => GraphOK(loader[l].graph)

\* A loader fails only while another one writes, which then goes on.
FailInv ==
  (\E l \in Loaders : loader[l].at = "failed") =>
    \/ backend # Absent
    \/ \E l \in Loaders : loader[l].at \in Active \union {"refused"}

DeliveryInv ==
  DeliveryTypeOK /\ BundleInv /\ BenchInv /\ LoadInv /\ FailInv

====
