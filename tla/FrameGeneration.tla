--------------------------- MODULE FrameGeneration ---------------------------
(***************************************************************************)
(* The history of one translated frame-generation context: the packets     *)
(* that the provider builds (main.c: translated_prepare,                   *)
(* translated_dispatch and the two ways generation is turned off) and the  *)
(* native translator that acts on them (fsr-framegeneration.mm: api and    *)
(* PreparedFrame::encode).                                                 *)
(*                                                                         *)
(* Prepare stores a snapshot under its frame ID, Dispatch takes it and     *)
(* records a command, and the command is encoded later, on the thread that *)
(* replays the command list: possibly after another command of a later     *)
(* frame, twice, or after generation was turned off.  An encode            *)
(* interpolates from the history the last encode left, or resets it.       *)
(*                                                                         *)
(* dispatch_lock orders the provider's calls, State::mutex the api and     *)
(* State::executionMutex the encodes, so each action is one locked         *)
(* section.  A call that is refused before it changes anything is a        *)
(* stuttering step and is left out.                                        *)
(***************************************************************************)
EXTENDS FrameIds, Sequences, FiniteSets, Functions

CONSTANTS
  Configs,       \* values sameConfiguration and sameHistoryValues tell apart
  FrameLimit,    \* the 64 prepared frames a context may hold
  Increasing,    \* the application never reuses or lowers a frame ID
  MaxPrepares    \* bound: accepted Prepare calls

ASSUME LimitAssumption == FrameLimit \in Nat \ {0} /\ MaxPrepares \in Nat
ASSUME IncreasingAssumption == Increasing \in BOOLEAN

VARIABLES
  notify,            \* generation is driven by a swapchain's callbacks
  enabled,           \* context->enabled; with notify, the swapchain calls back
  turningOff,        \* OFF is between its two steps
  lastPrepare,       \* last_prepare_frame_id, None without a valid one
  generationEnabled,
  retired,
  frames,            \* State::frames: the snapshots by frame ID
  prepared,          \* preparedFrame and whose jitter it is, or None
  history,           \* history, historyFrame and the values they belong to
  recorded,          \* recorded Generate commands that may still be encoded
  accepted,          \* history: the accepted Prepare calls, in order
  undrained,         \* history: an OFF could not wait for the presents
  late               \* history: the commands recorded when the last OFF came

vars == <<notify, enabled, turningOff, lastPrepare, generationEnabled,
          retired, frames, prepared, history, recorded, accepted, undrained, late>>

-----------------------------------------------------------------------------
(* A snapshot remembers the Prepare it came from by its place in accepted; *)
(* jitter is the place of the Prepare whose jitter it would cancel.        *)
Snapshot ==
  [serial : 1..MaxPrepares, reset : BOOLEAN, jitter : 0..MaxPrepares \cup {None}]

Command == [frame : Frames, config : Configs, reset : BOOLEAN, snapshot : Snapshot]

Init ==
  /\ notify \in BOOLEAN
  /\ enabled = FALSE
  /\ turningOff = FALSE
  /\ lastPrepare = None
  /\ generationEnabled = TRUE
  /\ retired = FALSE
  /\ frames = <<>>
  /\ prepared = None
  /\ history = None
  /\ recorded = {}
  /\ accepted = <<>>
  /\ undrained = FALSE
  /\ late = {}

-----------------------------------------------------------------------------
(* Prepare. *)

(* What the application may pass as the next frame ID. *)
NextFrame(f) ==
  Increasing => \A i \in 1..Len(accepted) : accepted[i].frame < f

(* packet.reset of translated_prepare. *)
PrepareResets(f, r) == r \/ (lastPrepare # None /\ f # lastPrepare + 1)

(* hasPreviousJitter and the jitter it stands for. *)
PreviousJitter_AnyFrame(f, r) == IF prepared # None /\ ~r THEN prepared.serial ELSE None
PreviousJitter(f, r) ==
  IF prepared # None /\ prepared.frame + 1 = f /\ ~r
  THEN prepared.serial ELSE None

(* The checks of the api before it changes the state. *)
MayPrepare(f) ==
  /\ ~retired
  /\ f \notin DOMAIN frames
  /\ generationEnabled => Cardinality(DOMAIN frames) < FrameLimit

With(f, s) == [g \in DOMAIN frames \cup {f} |-> IF g = f THEN s ELSE frames[g]]

Prepare(f, r) ==
  LET reset == PrepareResets(f, r)
      serial == Len(accepted) + 1
  IN /\ Len(accepted) < MaxPrepares
     /\ NextFrame(f)
     /\ MayPrepare(f)
     /\ prepared' = [frame |-> f, serial |-> serial]
     /\ frames' = IF generationEnabled
                  THEN With(f, [serial |-> serial, reset |-> reset,
                                jitter |-> PreviousJitter(f, reset)])
                  ELSE frames
     /\ lastPrepare' = f
     /\ accepted' = Append(accepted, [frame |-> f, reset |-> r])
     /\ UNCHANGED <<notify, enabled, turningOff, generationEnabled, retired,
                    history, recorded, undrained, late>>

(* record fails: the frame is erased again, the jitter stays.  Its Prepare *)
(* has no place among the accepted ones.                                   *)
PrepareFails(f, r) ==
  /\ NextFrame(f)
  /\ MayPrepare(f)
  /\ prepared' = [frame |-> f, serial |-> 0]
  /\ UNCHANGED <<notify, enabled, turningOff, lastPrepare,
                 generationEnabled, retired, frames, history, recorded,
                 accepted, undrained, late>>

-----------------------------------------------------------------------------
(* Dispatch and encode. *)

(* packet.reset of translated_dispatch. *)
DispatchResets(f, r) == r \/ (lastPrepare # None /\ f # lastPrepare)

(* The frame leaves the map once its command is recorded.  On a notified   *)
(* context Dispatch is called by the swapchain's generation callback only, *)
(* which is silent while generation is off.                                *)
Dispatch(f, r, c) ==
  /\ ~retired
  /\ notify => enabled
  /\ f \in DOMAIN frames
  /\ recorded' = recorded \cup
       {[frame |-> f, config |-> c, reset |-> DispatchResets(f, r),
         snapshot |-> frames[f]]}
  /\ frames' = Restrict(frames, DOMAIN frames \ {f})
  /\ UNCHANGED <<notify, enabled, turningOff, lastPrepare,
                 generationEnabled, retired, prepared, history,
                 accepted, undrained, late>>

EncodeResets_NoFrame(c) ==
  c.reset \/ c.snapshot.reset \/ history = None \/ history.config # c.config
EncodeResets(c) ==
  \/ c.reset
  \/ c.snapshot.reset
  \/ history = None
  \/ history.config # c.config
  \/ history.frame + 1 # c.frame

(* The history a command leaves. *)
HistoryOf(c) == [frame |-> c.frame, config |-> c.config, serial |-> c.snapshot.serial]

(* A Generate command is encoded to its end; one that fails on the way     *)
(* leaves the history as it was.                                           *)
Encode(c) ==
  /\ c \in recorded
  /\ history' = HistoryOf(c)
  /\ UNCHANGED <<notify, enabled, turningOff, lastPrepare,
                 generationEnabled, retired, frames, prepared, recorded,
                 accepted, undrained, late>>

(* The command list is reset. *)
Forget(c) ==
  /\ c \in recorded
  /\ recorded' = recorded \ {c}
  /\ UNCHANGED <<notify, enabled, turningOff, lastPrepare,
                 generationEnabled, retired, frames, prepared, history,
                 accepted, undrained, late>>

-----------------------------------------------------------------------------
(* Configure. *)

(* YAAGL_FSR_FG_CONFIGURE with enabled = 0. *)
Disabled ==
  /\ generationEnabled' = FALSE
  /\ frames' = <<>>
  /\ prepared' = None
  /\ history' = None
  /\ late' = recorded

TurnOn ==
  /\ ~retired
  /\ ~turningOff
  /\ generationEnabled' = TRUE
  /\ enabled' = TRUE
  /\ late' = {}
  /\ UNCHANGED <<notify, turningOff, lastPrepare, retired, frames, prepared,
                 history, recorded,
                 accepted, undrained>>

(* A later step of turning on fails, and the translation is turned off     *)
(* again without clear_frame_configs.                                      *)
TurnOnRolledBack ==
  /\ ~retired
  /\ ~turningOff
  /\ ~enabled
  /\ Disabled
  /\ UNCHANGED <<notify, enabled, turningOff, lastPrepare, retired, recorded,
                 accepted, undrained>>

(* A context without notification: the translation first, then             *)
(* clear_frame_configs.  Nothing waits for the recorded commands.          *)
TurnOffDirect ==
  /\ ~notify
  /\ ~retired
  /\ ~turningOff
  /\ Disabled
  /\ turningOff' = TRUE
  /\ UNCHANGED <<notify, enabled, lastPrepare, retired, recorded,
                 accepted, undrained>>

ClearFrameConfigs ==
  /\ turningOff
  /\ ~notify
  /\ lastPrepare' = None
  /\ enabled' = FALSE
  /\ turningOff' = FALSE
  /\ UNCHANGED <<notify, generationEnabled, retired, frames,
                 prepared, history, recorded,
                 accepted, undrained, late>>

(* The presents wait_for_presents waits for have executed their commands.  *)
WaitedForPresents_Skipped == recorded' = recorded
WaitedForPresents == recorded' = {}

(* A notified context: the swapchain is silenced and drained and the       *)
(* provider's frames cleared, then the translation is turned off.          *)
TurnOffNotified ==
  /\ notify
  /\ ~retired
  /\ ~turningOff
  /\ enabled' = FALSE
  /\ WaitedForPresents
  /\ lastPrepare' = None
  /\ turningOff' = TRUE
  /\ UNCHANGED <<notify, generationEnabled, retired, frames, prepared, history,
                 accepted, undrained, late>>

(* wait_for_presents fails: the swapchain is silent, and that is all. *)
TurnOffUndrained ==
  /\ notify
  /\ ~retired
  /\ ~turningOff
  /\ enabled' = FALSE
  /\ undrained' = TRUE
  /\ UNCHANGED <<notify, turningOff, lastPrepare, generationEnabled, retired,
                 frames, prepared, history, recorded, accepted, late>>

OffBridge(ok) ==
  /\ turningOff
  /\ notify
  /\ IF ok THEN Disabled
           ELSE UNCHANGED <<generationEnabled, frames, prepared, history, late>>
  /\ turningOff' = FALSE
  /\ UNCHANGED <<notify, enabled, lastPrepare, retired, recorded, accepted>>
  /\ undrained' = (undrained /\ ~ok)

(* YAAGL_FSR_FG_DESTROY; the State lives on while commands refer to it. *)
Destroy ==
  /\ ~retired
  /\ ~turningOff
  /\ notify => ~enabled
  /\ retired' = TRUE
  /\ frames' = <<>>
  /\ UNCHANGED <<notify, enabled, turningOff, lastPrepare, generationEnabled,
                 prepared, history, recorded,
                 accepted, undrained, late>>

-----------------------------------------------------------------------------
Next ==
  \/ \E f \in Frames, r \in BOOLEAN : Prepare(f, r) \/ PrepareFails(f, r)
  \/ \E f \in Frames, r \in BOOLEAN, c \in Configs : Dispatch(f, r, c)
  \/ \E c \in recorded : Encode(c) \/ Forget(c)
  \/ TurnOn \/ TurnOnRolledBack
  \/ TurnOffDirect \/ ClearFrameConfigs
  \/ TurnOffNotified \/ TurnOffUndrained \/ \E ok \in BOOLEAN : OffBridge(ok)
  \/ Destroy

Spec == Init /\ [][Next]_vars

-----------------------------------------------------------------------------
TypeOK ==
  /\ notify \in BOOLEAN /\ enabled \in BOOLEAN /\ turningOff \in BOOLEAN
  /\ generationEnabled \in BOOLEAN /\ retired \in BOOLEAN
  /\ lastPrepare \in Frames \cup {None}
  /\ DOMAIN frames \subseteq Frames /\ Range(frames) \subseteq Snapshot
  /\ prepared \in [frame : Frames, serial : 0..MaxPrepares] \cup {None}
  /\ history \in {None} \cup
       [frame : Frames, config : Configs, serial : 1..MaxPrepares]
  /\ recorded \subseteq Command /\ late \subseteq Command

(* The Prepare at place i breaks the sequence: an explicit reset, or a     *)
(* frame ID that does not follow the one before.                           *)
Breaks(i) ==
  \/ accepted[i].reset
  \/ i > 1 /\ accepted[i].frame # accepted[i - 1].frame + 1

(* Whichever recorded command is encoded next, in whatever order and after *)
(* whatever ON, OFF or failed OFF: if it does not reset, then it           *)
(* interpolates from the colour of the frame prepared just before its own, *)
(* with the same configuration, and neither asked for a reset.             *)
ContinuousHistory ==
  \A c \in recorded : ~EncodeResets(c) =>
    /\ history.config = c.config
    /\ c.snapshot.serial = history.serial + 1
    /\ ~Breaks(c.snapshot.serial)

(* The motion of an interpolation that does not reset is corrected by the  *)
(* jitter of the very frame it interpolates from, or not at all, never by  *)
(* the jitter of a Prepare that failed or belongs to another frame.        *)
JitterOfHistory ==
  \A c \in recorded :
    ~EncodeResets(c) /\ c.snapshot.jitter # None => c.snapshot.jitter = history.serial

(* OFF forgets: while generation is off no frame waits for a Dispatch that *)
(* cannot come, and on a notified context whose presents were waited for   *)
(* there is no history.  On a direct context, or after a failed wait, a    *)
(* command that was recorded before OFF may still be encoded and bring a   *)
(* history back: its own, and no other.                                    *)
OffForgets ==
  ~generationEnabled =>
    /\ frames = <<>>
    /\ notify /\ ~undrained => history = None
    /\ history # None => \E c \in late : history = HistoryOf(c)
=============================================================================
