---------------------------- MODULE FrameConfigs ----------------------------
(***************************************************************************)
(* The per-frame configurations of one MetalFX context of the              *)
(* frame-generation provider (dlls/amd_fidelityfx_framegeneration_dx12/    *)
(* main.c).  Configure stores the HUD-less resource of a frame id; the     *)
(* generation of a frame selects the newest stored configuration at or     *)
(* below its id; a completed generation retires the configurations that no *)
(* later frame can select.                                                 *)
(*                                                                         *)
(* The list is guarded by dispatch_lock, held over single steps.  The      *)
(* application configures under configure_lock while the presenter (or a   *)
(* thread of the application, without swapchain notification) generates.   *)
(* The native swapchain is external: a Present carries the frame id of the *)
(* last set_config, and presented frames are generated in order.           *)
(***************************************************************************)
EXTENDS FrameIds, FiniteSets

CONSTANTS
  Resources,   \* HUD-less resources
  MaxConfigs   \* 64 in snapshot_frame_config

ASSUME NoneAssumption == None \notin Resources
ASSUME MaxConfigsAssumption == MaxConfigs \in Nat \ {0}

VARIABLES
  configs,  \* context->frame_configs, by frame id
  every,    \* history: the same list, had nothing been retired
  direct,   \* configured with NO_SWAPCHAIN_CONTEXT_NOTIFY
  on,       \* the swapchain was last told to generate
  next,     \* no frame below this one is submitted for generation any more
  queued,   \* frames presented and not yet generated
  app,      \* the configuration in progress under configure_lock
  gen       \* the generation in progress

listVars == <<configs, every, direct, on, next, queued, app, gen>>

-----------------------------------------------------------------------------
ConfigList == [Frames -> Resources \cup {None}]
Empty == [f \in Frames |-> None]
Stored(cs) == {f \in Frames : cs[f] # None}

(* find_frame_config, and the floor of retire_frame_configs: the newest    *)
(* configuration at or below f, if any.                                    *)
Selected(cs, f) ==
  {g \in Stored(cs) : g <= f /\ \A h \in Stored(cs) : h <= f => h <= g}

(* retire_frame_configs *)
Retired_Floor(cs, f) ==
  [g \in Frames |-> IF \E h \in Selected(cs, f) : g <= h THEN None ELSE cs[g]]
Retired(cs, f) ==
  [g \in Frames |-> IF \E h \in Selected(cs, f) : g < h THEN None ELSE cs[g]]

Full_OffByOne == Cardinality(Stored(configs)) > MaxConfigs
Full == Cardinality(Stored(configs)) >= MaxConfigs

ListInit ==
  /\ configs = Empty /\ every = Empty
  /\ direct \in BOOLEAN
  /\ on = FALSE
  /\ next = 0 /\ queued = {}
  /\ app = [pc |-> "idle"]
  /\ gen = [pc |-> "idle"]

-----------------------------------------------------------------------------
(* Configure with generation enabled: snapshot_frame_config publishes the  *)
(* snapshot before set_config; it replaces the one with the same id.  With *)
(* a full list, or no memory, Configure fails and changes nothing.         *)
Publish(f, r) ==
  /\ configs' = [configs EXCEPT ![f] = r]
  /\ every' = [every EXCEPT ![f] = r]

SnapshotFrameConfig(f, r, changed) ==
  /\ app.pc = "idle"
  /\ f >= next
  /\ configs[f] # None \/ ~Full
  /\ Publish(f, r)
  /\ app' = [pc |-> "published", frame |-> f, changed |-> changed]
  /\ UNCHANGED <<direct, on, next, queued, gen>>

Drained == queued = {} /\ gen.pc = "idle"

(* set_config waits for the presents in progress when the callback binding *)
(* changes; the retired binding's configurations go afterwards.            *)
SetConfig ==
  /\ app.pc = "published" /\ ~direct
  /\ app.changed => Drained
  /\ next' = app.frame
  /\ on' = TRUE
  /\ app' = IF app.changed THEN [pc |-> "retire", frame |-> app.frame]
                           ELSE [pc |-> "idle"]
  /\ UNCHANGED <<configs, every, direct, queued, gen>>

RetireBinding ==
  /\ app.pc = "retire"
  /\ configs' = Retired(configs, app.frame)
  /\ app' = [pc |-> "idle"]
  /\ UNCHANGED <<every, direct, on, next, queued, gen>>

(* Without notification there is no swapchain to configure. *)
DirectConfigured ==
  /\ app.pc = "published" /\ direct
  /\ app' = [pc |-> "idle"]
  /\ UNCHANGED <<configs, every, direct, on, next, queued, gen>>

-----------------------------------------------------------------------------
(* Configure with generation disabled, or detach_swapchain: the swapchain  *)
(* is told first, ...                                                      *)
TurnOff ==
  /\ app.pc = "idle"
  /\ on' = FALSE
  /\ app' = [pc |-> "off"]
  /\ UNCHANGED <<configs, every, direct, next, queued, gen>>

(* ... and clear_frame_configs comes after wait_for_presents.  Without a   *)
(* swapchain nothing is waited for.                                        *)
PresentsDrained_Skipped == TRUE
PresentsDrained == direct \/ Drained
Clear ==
  /\ app.pc = "off"
  /\ PresentsDrained
  /\ configs' = Empty /\ every' = Empty
  /\ app' = [pc |-> "idle"]
  /\ UNCHANGED <<direct, on, next, queued, gen>>

(* The wait, or without notification configure_translation, fails: the     *)
(* error leaves the configurations in place.                               *)
OffFails ==
  /\ app.pc = "off"
  /\ app' = [pc |-> "idle"]
  /\ UNCHANGED <<configs, every, direct, on, next, queued, gen>>

-----------------------------------------------------------------------------
(* The application presents a frame. *)
Present ==
  /\ on /\ ~direct
  /\ next \in Frames
  /\ queued' = queued \cup {next}
  /\ UNCHANGED <<configs, every, direct, on, next, app, gen>>

(* The swapchain's presenter enters generation_callback. *)
GenerationCallback(f) ==
  /\ gen.pc = "idle"
  /\ f \in queued /\ \A g \in queued : f <= g
  /\ queued' = queued \ {f}
  /\ gen' = [pc |-> "generate", frame |-> f]
  /\ UNCHANGED <<configs, every, direct, on, next, app>>

(* Without notification the application calls ffxDispatch itself. *)
DirectDispatch(f) ==
  /\ gen.pc = "idle"
  /\ direct
  /\ f >= next
  /\ next' = f
  /\ gen' = [pc |-> "generate", frame |-> f]
  /\ UNCHANGED <<configs, every, direct, on, queued, app>>

(* translated_dispatch has selected its configuration and has recorded the *)
(* work, or failed.  After a direct dispatch only success retires.         *)
Dispatched ==
  /\ gen.pc = "generate"
  /\ \/ gen' = [gen EXCEPT !.pc = "retire"]
     \/ direct /\ gen' = [pc |-> "idle"]
  /\ UNCHANGED <<configs, every, direct, on, next, queued, app>>

(* retire_frame_configs(frame), at the end of generation_callback and of a *)
(* direct dispatch.                                                        *)
Generated ==
  /\ gen.pc = "retire"
  /\ configs' = Retired(configs, gen.frame)
  /\ gen' = [pc |-> "idle"]
  /\ UNCHANGED <<every, direct, on, next, queued, app>>

-----------------------------------------------------------------------------
Configure ==
  \/ \E f \in Frames, r \in Resources, changed \in BOOLEAN :
       SnapshotFrameConfig(f, r, changed)
  \/ SetConfig \/ RetireBinding \/ DirectConfigured
  \/ TurnOff \/ Clear \/ OffFails

Generate ==
  \/ Present
  \/ \E f \in Frames : GenerationCallback(f) \/ DirectDispatch(f)
  \/ Dispatched \/ Generated

ListNext == Configure \/ Generate

ListSpec == ListInit /\ [][ListNext]_listVars

-----------------------------------------------------------------------------
(* Every variable has its type, and no more than MaxConfigs HUD-less       *)
(* resources are retained (snapshot_frame_config, main.c:403).             *)
ListTypeOK ==
  /\ configs \in ConfigList /\ every \in ConfigList
  /\ direct \in BOOLEAN /\ on \in BOOLEAN
  /\ next \in Nat /\ queued \in SUBSET Frames
  /\ \/ app \in [pc : {"idle", "off"}]
     \/ app \in [pc : {"published"}, frame : Frames, changed : BOOLEAN]
     \/ app \in [pc : {"retire"}, frame : Frames]
  /\ \/ gen \in [pc : {"idle"}]
     \/ gen \in [pc : {"generate", "retire"}, frame : Frames]
  /\ IsFiniteSet(Stored(configs)) /\ Cardinality(Stored(configs)) <= MaxConfigs

(* A frame whose generation has not selected its configuration yet. *)
Live(f) ==
  \/ f \in queued
  \/ f >= next
  \/ gen.pc = "generate" /\ gen.frame = f

(* Retirement is invisible: every frame that can still be generated        *)
(* selects the configuration it would have selected had nothing been       *)
(* retired, however retirements by callbacks and by binding changes        *)
(* interleave with Configure (comment at main.c:430).                      *)
RetirementInvisible ==
  \A f \in Frames :
    Live(f) =>
      /\ Selected(configs, f) = Selected(every, f)
      /\ \A g \in Selected(configs, f) : configs[g] = every[g]

(* What an unfinished generation will select changes only by a new         *)
(* configuration of that very frame: configuring, retiring or clearing     *)
(* others never reaches a presented frame (README: pending per-frame       *)
(* HUD-less snapshots survive ordinary Configure calls).                   *)
Unselected ==
  queued \cup (IF gen.pc = "generate" THEN {gen.frame} ELSE {})
Choice(f) == {<<g, configs[g]>> : g \in Selected(configs, f)}
PendingSurvives ==
  [][\A f \in Unselected \cap Unselected' :
       \/ direct
       \/ Choice(f)' = Choice(f)
       \/ app'.pc = "published" /\ app'.frame = f]_listVars

-----------------------------------------------------------------------------
(* The inductive invariant behind RetirementInvisible. *)

(* Presented frames are generated in order and below the next one; the     *)
(* frames about to be retired are at or below every live frame.            *)
InOrder ==
  /\ direct => queued = {}
  /\ \A f \in queued : f <= next
  /\ gen.pc # "idle" => gen.frame <= next /\ \A f \in queued : gen.frame <= f
  /\ app.pc = "published" => app.frame >= next \/ direct
  /\ app.pc = "retire" => \A f \in Frames : Live(f) => app.frame <= f

(* A missing configuration is hidden from all live frames by a later one. *)
Covered ==
  /\ \A g \in Stored(configs) : every[g] = configs[g]
  /\ \A g \in Stored(every) \ Stored(configs) :
       \E h \in Stored(configs) : g < h /\ \A f \in Frames : Live(f) => h <= f

RetireInv == ListTypeOK /\ InOrder /\ Covered
=============================================================================
