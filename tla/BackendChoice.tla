--------------------------- MODULE BackendChoice ---------------------------
(***************************************************************************)
(* The [backend] and [model] tables of the configuration under the commands*)
(* that edit them: `config set` and `unset`, `cloud configure`, the setups *)
(* of a runtime and of a model.  A command whose candidate is not accepted *)
(* saves nothing; how a candidate is saved is ConfigEdit's matter.  Vulkan *)
(* and HIP are as CUDA, and threads, fallback and the cloud's own keys are *)
(* left out.                                                               *)
(***************************************************************************)
EXTENDS Naturals

CONSTANTS
  Model,      \* the catalog
  BackendOf,  \* the backend of each model
  FamilyOf,   \* its asr_family
  DefaultOf,  \* the catalog's default for each backend
  MaxSaves    \* bound: the commands that save

Runtime == {"default", "openvino", "cuda"}
Device == {"auto", "cpu", "gpu", "npu", "remote"}
Kind == {"audiocpp", "whispercpp", "openvino-genai", "cloud"}

\* catalog::MODELS and default_model: every model is one of a local backend, and every local
\* backend has its default.
CatalogAssumption ==
  LET Local == Kind \ {"cloud"} IN
  /\ BackendOf \in [Model -> Local] /\ DefaultOf \in [Local -> Model]
  /\ \A kind \in Local : BackendOf[DefaultOf[kind]] = kind
ASSUME CatalogAssumption

VARIABLES
  backend,    \* the two tables; a library goes with the backend it was given for
  by,         \* the command that saved them last
  saves       \* how many have

backendVars == <<backend, by, saves>>

NoLibrary == <<"none", "none">>
NoFamily == "none"
Custom == "custom"

\* Config::default
DefaultBackend ==
  [kind |-> "audiocpp", runtime |-> "default", device |-> "cpu", id |-> 0,
   library |-> NoLibrary, family |-> NoFamily, model |-> DefaultOf["audiocpp"]]

BackendInit == backend = DefaultBackend /\ by = "nobody" /\ saves = 0

-----------------------------------------------------------------------------
\* canonical_device
Fits(runtime, device) ==
  device \in CASE runtime = "default" -> {"auto", "cpu"}
               [] runtime = "cuda" -> {"auto", "gpu"}
               [] runtime = "openvino" -> {"cpu", "gpu", "npu"}

\* BackendConfig::canonical_device: a cloud may run on a remote device.
Canonical(b) ==
  Fits(b.runtime, b.device) \/ (b.kind = "cloud" /\ b.runtime = "default" /\ b.device = "remote")

\* BackendConfig::validate_shape
Shaped(b) == Canonical(b) /\ (b.runtime # "cuda" => b.id = 0)

\* ModelSpec::compatible_with
Compatible(model, kind, runtime, device) ==
  /\ BackendOf[model] = kind /\ Fits(runtime, device)
  /\ runtime \in CASE kind = "audiocpp" -> {"default", "cuda"}
                   [] kind = "openvino-genai" -> {"openvino"}
                   [] kind = "whispercpp" -> {"default"}

CompatibleWith(model, b) ==
  b.kind # "cloud" /\ model \in Model /\ Compatible(model, b.kind, b.runtime, b.device)

Family(model) == IF BackendOf[model] = "audiocpp" THEN FamilyOf[model] ELSE NoFamily

\* ModelSpec::activate: the provider stays if it is one for the model.
Activate(model, b) ==
  LET kept == IF CompatibleWith(model, b) THEN b
              ELSE [b EXCEPT !.library = NoLibrary, !.device = "cpu", !.id = 0,
                             !.runtime = IF BackendOf[model] = "openvino-genai" THEN "openvino" ELSE "default"]
  IN [kept EXCEPT !.kind = BackendOf[model], !.family = Family(model), !.model = model]

-----------------------------------------------------------------------------
\* runtime_selection_candidate
KindFor(b, runtime) ==
  CASE runtime = "openvino" -> "openvino-genai"
    [] runtime = "default" /\ b.kind = "whispercpp" -> "whispercpp"
    [] OTHER -> "audiocpp"

\* setup_model
SetupModelOf(b) == IF CompatibleWith(b.model, b) THEN b.model ELSE DefaultOf[b.kind]

\* The model first, then the provider, which stays only if nothing has changed for it;
\* the device number, unless one is given, is not that of another runtime.
RuntimeCandidate(b, runtime, device, ids, directory) ==
  LET kind == KindFor(b, runtime)
      withModel == IF b.model \in Model /\ Compatible(b.model, kind, runtime, device) THEN b
                   ELSE Activate(DefaultOf[kind], b)
      cleared == IF withModel.kind # kind \/ withModel.runtime # runtime
                   THEN [withModel EXCEPT !.library = NoLibrary] ELSE withModel
      chosen == [cleared EXCEPT
                  !.kind = kind, !.runtime = runtime, !.device = device,
                  !.id = IF runtime # "cuda" THEN 0
                         ELSE IF ids # {} THEN CHOOSE n \in ids : TRUE
                         ELSE IF b.kind = kind /\ b.runtime = runtime THEN b.id ELSE 0,
                  !.library = IF directory THEN <<kind, runtime>> ELSE @]
  IN [chosen EXCEPT !.family = IF kind = "audiocpp" THEN Family(SetupModelOf(chosen)) ELSE NoFamily]

\* The default of the backend must be one for the runtime and device.
Selectable(b, runtime, device) ==
  LET kind == KindFor(b, runtime) IN Compatible(DefaultOf[kind], kind, runtime, device)

-----------------------------------------------------------------------------
Saves(candidate, command) ==
  /\ saves < MaxSaves /\ saves' = saves + 1
  /\ backend' = candidate /\ by' = command

\* set_config and unset_config: one key.
Changed(b) ==
  {[b EXCEPT !.kind = k, !.library = IF @ = NoLibrary THEN @ ELSE <<k, b.runtime>>] : k \in Kind}
    \cup {[b EXCEPT !.runtime = r] : r \in Runtime}
    \cup {[b EXCEPT !.device = d] : d \in Device}
    \cup {[b EXCEPT !.id = n] : n \in {0, 1}}
    \cup {[b EXCEPT !.library = l] : l \in {NoLibrary, <<b.kind, b.runtime>>}}
    \cup {[b EXCEPT !.model = m] : m \in {Custom, DefaultOf["audiocpp"]}}
    \cup {[b EXCEPT !.family = NoFamily]}

\* config_mutation: another runtime starts from its own defaults.  Whoever names
\* another kind keeps the library knowingly.
ConfigSet ==
  \E c \in Changed(backend) :
    LET mutated == IF c.runtime = backend.runtime THEN c
                   ELSE [c EXCEPT !.device = IF c.runtime = "openvino" THEN "cpu" ELSE "auto",
                                  !.library = NoLibrary, !.family = NoFamily, !.id = 0]
    IN Shaped(mutated) /\ Saves(mutated, "config")

\* configure_with leaves the library where it is.
CloudConfigure ==
  Saves([backend EXCEPT !.kind = "cloud", !.runtime = "default", !.device = "remote",
                        !.id = 0, !.family = NoFamily], "cloud")

\* configure_runtime_from_flags_with and guided_runtime_with; the provider can be
\* loaded, the cache prepared, and the candidate hears its probe.  Without a device
\* that of the same runtime stays.
DeviceFor(runtime) ==
  IF runtime = backend.runtime /\ Canonical(backend) THEN backend.device ELSE "cpu"

SetupRuntime ==
  \E runtime \in Runtime, device \in Device, ids \in {{}, {0}, {1}}, directory \in BOOLEAN :
    /\ device \in {DeviceFor(runtime)} \cup {d \in Device : Fits(runtime, d)}
    /\ Selectable(backend, runtime, device)
    /\ LET c == RuntimeCandidate(backend, runtime, device, ids, directory) IN
       Shaped(c) /\ Saves(c, "setup")

\* activate_model, of a model chosen from a menu or by its name.
SetupModel ==
  \E model \in Model : Saves(Activate(model, backend), "setup")

BackendStep == ConfigSet \/ CloudConfigure \/ SetupRuntime \/ SetupModel

-----------------------------------------------------------------------------
\* What a setup leaves fits together: the device and its number the runtime, the
\* model and its family the backend, and the library the backend it was given for;
\* whatever was saved before by hand, for a cloud or for another runtime.
SetupCoherent ==
  by = "setup" =>
    /\ Shaped(backend)
    /\ CompatibleWith(backend.model, backend) /\ backend.family = Family(backend.model)
    /\ backend.library \in {NoLibrary, <<backend.kind, backend.runtime>>}
=============================================================================
