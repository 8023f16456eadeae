----------------------------- MODULE GuidedSetup -----------------------------
(***************************************************************************)
(* The setup in tabs (guided_tabbed_setup over setup/tabbed.rs): Runtime,  *)
(* Device, Model, Microphone, Apply.  What a page offers depends on what   *)
(* was picked on the pages before it; nothing is saved before Apply, which *)
(* works on the configuration that was loaded when the screen was opened.  *)
(***************************************************************************)
EXTENDS BackendChoice, Sequences, FiniteSetsExt

CONSTANTS
  Models,       \* the catalog in its order
  Microphones,  \* the selectors of the inventory, in their order
  MaxBacks      \* bound: the returns to an earlier page, and the recommendations asked for

ASSUME MenuAssumption == Models \in Seq(Model) /\ Microphones \in Seq(STRING)

Runtimes == <<"default", "openvino", "cuda">>
DevicesOf(runtime) ==
  CASE runtime = "default" -> <<"cpu">>
    [] runtime = "openvino" -> <<"npu", "gpu", "cpu">>
    [] runtime = "cuda" -> <<"auto", "gpu">>

Tabs == 1 .. 5
Review == 5
Unpicked == 0

VARIABLES
  screen,     \* "closed", "loop", "keys" (the page is shown), "apply", "broken"
  tab, hover,
  shown,      \* the tab that was synced last
  choices,    \* of each tab
  base,       \* the configuration as it was loaded
  saved,      \* there was one
  advice,     \* the recommendation of the hardware inventory
  ready,      \* the models that can be downloaded or are verified
  microphone, \* the one that is configured
  reviewed,   \* what the last page has shown
  backs

screenVars == <<screen, tab, hover, shown, choices, base, saved, advice, ready, reviewed, backs>>
guidedVars == <<backendVars, screenVars, microphone>>

Position(x, s) ==
  IF \E i \in DOMAIN s : s[i] = x THEN CHOOSE i \in DOMAIN s : s[i] = x ELSE 0
PositionOr(x, s, n) == IF Position(x, s) = 0 THEN n ELSE Position(x, s)

Fresh == [t \in Tabs |-> Unpicked]
Advices == {[runtime |-> "default", device |-> "cpu"], [runtime |-> "openvino", device |-> "npu"],
            [runtime |-> "cuda", device |-> "auto"]}
NoReview == [runtime |-> "none", device |-> "none", model |-> "none", microphone |-> "none"]

Closed ==
  /\ screen = "closed" /\ tab = 1 /\ hover = 1 /\ shown = 0 /\ choices = Fresh
  /\ base = DefaultBackend /\ saved = FALSE /\ advice = [runtime |-> "default", device |-> "cpu"]
  /\ ready = {} /\ reviewed = NoReview /\ backs = 0

GuidedInit == BackendInit /\ Closed /\ microphone = Microphones[1]

-----------------------------------------------------------------------------
(* The pages *)

InitialRuntime == PositionOr(IF saved THEN base.runtime ELSE advice.runtime, Runtimes, 1)
RuntimeOf(picks) == Runtimes[IF picks[1] = Unpicked THEN InitialRuntime ELSE picks[1]]
Devices(picks) == DevicesOf(RuntimeOf(picks))
DeviceIndex(picks) == IF picks[2] = Unpicked THEN 1 ELSE picks[2]
DeviceOf(picks) == Devices(picks)[DeviceIndex(picks)]
CandidateOf(picks) == RuntimeCandidate(base, RuntimeOf(picks), DeviceOf(picks), {}, FALSE)

\* The model of the recommended plan.
Advised ==
  SetupModelOf(RuntimeCandidate(base, advice.runtime, advice.device, {}, FALSE))

RuntimePage ==
  [size |-> Len(Runtimes), enabled |-> 1 .. Len(Runtimes), preferred |-> InitialRuntime,
   recommended |-> PositionOr(advice.runtime, Runtimes, 1)]

DevicePage(picks) ==
  LET runtime == RuntimeOf(picks)
      wanted == IF saved /\ runtime = base.runtime THEN base.device
                ELSE IF runtime = advice.runtime THEN advice.device ELSE "none"
  IN [size |-> Len(Devices(picks)), enabled |-> 1 .. Len(Devices(picks)),
      preferred |-> PositionOr(wanted, Devices(picks), 1),
      recommended |-> PositionOr(advice.device, Devices(picks), 1)]

ModelPage(picks) ==
  LET runtime == RuntimeOf(picks)
      device == DeviceOf(picks)
      candidate == CandidateOf(picks)
      recommended == IF runtime = advice.runtime /\ device = advice.device
                       THEN Position(Advised, Models) ELSE PositionOr(candidate.model, Models, 1)
  IN [size |-> Len(Models),
      enabled |-> {i \in DOMAIN Models : Models[i] \in ready /\ Compatible(Models[i], candidate.kind, runtime, device)},
      preferred |-> IF saved /\ runtime = base.runtime
                      THEN PositionOr(base.model, Models, recommended) ELSE recommended,
      recommended |-> recommended]

MicrophonePage ==
  LET configured == PositionOr(microphone, Microphones, 1) IN
  [size |-> Len(Microphones), enabled |-> 1 .. Len(Microphones),
   preferred |-> configured, recommended |-> configured]

ReviewPage == [size |-> 1, enabled |-> {1}, preferred |-> 1, recommended |-> 1]

Page(t, picks) ==
  CASE t = 1 -> RuntimePage
    [] t = 2 -> DevicePage(picks)
    [] t = 3 -> ModelPage(picks)
    [] t = 4 -> MicrophonePage
    [] t = Review -> ReviewPage

\* "select a model", "select a microphone"
Renders(t, picks) == t = Review => picks[3] # Unpicked /\ picks[4] # Unpicked

-----------------------------------------------------------------------------
(* tabbed::run *)

Open ==
  /\ screen = "closed" /\ screen' = "loop" /\ saves < MaxSaves
  /\ base' = backend /\ saved' \in (IF by = "nobody" THEN {FALSE} ELSE {TRUE})
  /\ advice' \in Advices /\ ready' \in {Model, Model \ {DefaultOf["openvino-genai"]}}
  /\ UNCHANGED <<backendVars, tab, hover, shown, choices, microphone, reviewed, backs>>

Close ==
  /\ screen' = "closed" /\ tab' = 1 /\ hover' = 1 /\ shown' = 0 /\ choices' = Fresh
  /\ base' = DefaultBackend /\ saved' = FALSE /\ advice' = [runtime |-> "default", device |-> "cpu"]
  /\ ready' = {} /\ reviewed' = NoReview /\ backs' = 0

\* Where the cursor enters a page: at its choice, its preference or its first item.
Entered(page, picked) ==
  IF picked \in page.enabled THEN picked
  ELSE IF page.preferred \in page.enabled THEN page.preferred ELSE Min(page.enabled)

\* A page that was not shown last is entered and has that item chosen; one that offers
\* nothing ends the setup.
Show ==
  /\ screen = "loop" /\ Renders(tab, choices)
  /\ Page(tab, choices).enabled # {} \/ shown = tab
  /\ LET on == Entered(Page(tab, choices), choices[tab])
     IN /\ screen' = "keys" /\ shown' = tab
        /\ hover' = IF shown = tab THEN hover ELSE on
        /\ choices' = IF shown # tab /\ tab < Review /\ choices[tab] = Unpicked
                        THEN [choices EXCEPT ![tab] = on] ELSE choices
        /\ reviewed' = IF tab # Review THEN reviewed
                       ELSE [runtime |-> RuntimeOf(choices), device |-> DeviceOf(choices),
                             model |-> Models[choices[3]], microphone |-> Microphones[choices[4]]]
  /\ UNCHANGED <<backendVars, tab, base, saved, advice, ready, microphone, backs>>

\* No such page, or nothing on it.
Unshown ==
  /\ screen = "loop"
  /\ ~Renders(tab, choices) \/ (Page(tab, choices).enabled = {} /\ shown # tab)
  /\ Close /\ UNCHANGED <<backendVars, microphone>>

Pressed(t, h, picks) ==
  /\ tab' = t /\ hover' = h /\ choices' = picks
  /\ screen' = IF shown' = t THEN "keys" ELSE "loop"
  /\ backs' = IF t < tab \/ shown' = 0 THEN backs + 1 ELSE backs
  /\ UNCHANGED <<backendVars, base, saved, advice, ready, microphone, reviewed>>

\* Up and Down pass over what is not enabled; Home and End do not.  The page stays.
Reached(page) == {Min(page.enabled), Max(page.enabled), (hover % page.size) + 1,
                  IF hover = 1 THEN page.size ELSE hover - 1}
Move ==
  /\ screen = "keys" /\ UNCHANGED shown
  /\ \E h \in Reached(Page(tab, choices)) : Pressed(tab, h, choices)

\* A slip: what was picked on the later pages stays.
SpaceKeeps ==
  /\ screen = "keys" /\ hover \in Page(tab, choices).enabled /\ UNCHANGED shown
  /\ Pressed(tab, hover, [choices EXCEPT ![tab] = hover])

Space ==
  /\ screen = "keys" /\ hover \in Page(tab, choices).enabled /\ UNCHANGED shown
  /\ Pressed(tab, hover, [t \in Tabs |-> IF t = tab THEN hover
                                         ELSE IF t > tab /\ choices[tab] # hover THEN Unpicked ELSE choices[t]])

\* Left, Right and Enter; Enter picks nothing by itself.
Turn ==
  /\ screen = "keys" /\ UNCHANGED shown
  /\ \/ tab > 1 /\ backs < MaxBacks /\ Pressed(tab - 1, hover, choices)
     \/ tab < Review /\ choices[tab] # Unpicked /\ Pressed(tab + 1, hover, choices)

\* r: the recommendations of all pages, each in view of those before it.
Best(page) == IF page.recommended \in page.enabled THEN page.recommended
              ELSE IF page.enabled = {} THEN Unpicked ELSE Min(page.enabled)
Recommended(t, picks) == [picks EXCEPT ![t] = Best(Page(t, picks))]
Defaults ==
  LET pick[t \in 0 .. 4] == IF t = 0 THEN Fresh ELSE Recommended(t, pick[t - 1]) IN pick[4]

Recommend ==
  /\ screen = "keys" /\ backs < MaxBacks
  /\ IF Defaults[3] = Unpicked THEN Close /\ UNCHANGED <<backendVars, microphone>>
     ELSE shown' = 0 /\ Pressed(Review, 1, Defaults)

Cancel ==
  /\ screen = "keys" /\ Close
  /\ UNCHANGED <<backendVars, microphone>>

Finish ==
  /\ screen = "keys" /\ tab = Review /\ screen' = "apply"
  /\ UNCHANGED <<backendVars, tab, hover, shown, choices, base, saved, advice, ready, microphone, reviewed, backs>>

\* What the tabs return: of one without a pick, its first item.
Returned == [t \in Tabs |-> IF choices[t] = Unpicked THEN 1 ELSE choices[t]]

\* The provider is loaded, the model activated and, by Setup, installed and saved;
\* or one of these fails.
Applied == Activate(Models[Returned[3]], CandidateOf(Returned))
Apply ==
  /\ screen = "apply"
  /\ \/ /\ Saves(Applied, "setup") /\ microphone' = Microphones[Returned[4]]
        /\ screen' = "applied" /\ UNCHANGED <<tab, hover, shown, choices, base, saved, advice, ready, reviewed, backs>>
     \/ Close /\ UNCHANGED <<backendVars, microphone>>

Leave ==
  /\ screen = "applied" /\ Close
  /\ UNCHANGED <<backendVars, microphone>>

\* The commands come one after another: what one saves beside another is ConfigEdit's
\* matter.
GuidedStep ==
  \/ Open \/ Show \/ Unshown \/ Move \/ Space \/ Turn \/ Recommend \/ Cancel \/ Finish \/ Apply \/ Leave
  \/ screen = "closed" /\ BackendStep /\ UNCHANGED <<screenVars, microphone>>

GuidedSpec == GuidedInit /\ [][GuidedStep]_guidedVars

-----------------------------------------------------------------------------
\* A page never meets a pick that was made for another runtime: the device is one of
\* the list, and what is saved is what the last page has shown, however the keys went
\* forth and back (State::handle, review_defaults); and it fits together, as whatever a
\* setup saves does.
ReviewedIsSaved ==
  /\ screen # "closed" => DeviceIndex(choices) \in DOMAIN Devices(choices)
  /\ screen = "applied" =>
       [runtime |-> backend.runtime, device |-> backend.device, model |-> backend.model,
        microphone |-> microphone] = reviewed
  /\ SetupCoherent
=============================================================================
