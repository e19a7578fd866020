------------------------------ MODULE Upscaler ------------------------------
(***************************************************************************)
(* One upscaling context: the translator's choice of a MetalFX feature per *)
(* output size (fsr-translator.mm: State, dispatch, destroy) and the       *)
(* feature's choice of a temporal scaler per frame (metalfx-backend.mm:    *)
(* ensureScaler, Feature::prepare, PreparedFrame::encode).                 *)
(*                                                                         *)
(* A scaler keeps the history of the frames it encoded.  Dispatch runs     *)
(* under State::mutex and records a frame; the frame is encoded later,     *)
(* under ScalerGeneration::encodeMutex, when its command list is replayed: *)
(* in the order of recording, or not, or twice, or never, and it may fail. *)
(* A dispatch refused before it changes anything is left out.              *)
(*                                                                         *)
(* Extents are reduced to one dimension and to the sizes that decide the   *)
(* limits of scale; formats and masks to one value.                        *)
(***************************************************************************)
EXTENDS Integers, Sequences

CONSTANTS
  Outputs,        \* output sizes, with their device and compiler
  Inputs,         \* active input sizes
  Formats,        \* texture formats and masks a scaler is made for
  Generations,    \* addresses of ScalerGeneration objects
  None,           \* nullptr
  MaxScale,       \* the largest scale of the temporal scaler; the least is 1
  InactiveSlots,  \* the 3 inactive backends of a context
  MaxRecorded,    \* bound: recorded frames not yet released
  MaxRuns         \* bound: changes of the output size

ASSUME SizeAssumption ==
  Outputs \subseteq Nat \ {0} /\ Inputs \subseteq Nat \ {0} /\ None \notin Nat
ASSUME SlotAssumption ==
  /\ MaxScale \in Nat \ {0} /\ InactiveSlots \in Nat \ {0}
  /\ MaxRecorded \in Nat /\ MaxRuns \in Nat

VARIABLES
  current,       \* State::backend and its generation keys
  inactive,      \* State::inactiveBackends
  nextEviction,
  needsReset,    \* State::generationNeedsReset
  retired,
  scalers,       \* the ScalerGeneration objects
  recorded,      \* the PreparedFrames of recorded commands
  run,           \* history: the number of changes of the output size
  disturbed      \* history: frames were not encoded in order, once, with success

vars == <<current, inactive, nextEviction, needsReset, retired, scalers,
          recorded, run, disturbed>>

-----------------------------------------------------------------------------
(* A backend holds the size it serves (output), the size its feature was   *)
(* created for (made) and the feature's current scaler.                    *)
Backend == [output : Outputs, made : Outputs, scaler : Generations \cup {None}]

(* history and historyRun: the extent and the run of the last frame that   *)
(* went into the scaler's history.                                         *)
Scaler ==
  [capacity : Inputs, output : Nat, format : Formats, fresh : BOOLEAN,
   last : Inputs \cup {None}, history : Inputs \cup {None}, historyRun : 0..MaxRuns]

PreparedFrame ==
  [scaler : Generations, input : Inputs, output : Outputs, format : Formats,
   reset : BOOLEAN, run : 1..MaxRuns]

ASSUME NoneAssumption ==
  None \notin Generations /\ None \notin Backend /\ None \notin Scaler

Init ==
  /\ current = None
  /\ inactive = [i \in 0..(InactiveSlots - 1) |-> None]
  /\ nextEviction = 0
  /\ needsReset = FALSE
  /\ retired = FALSE
  /\ scalers = [g \in Generations |-> None]
  /\ recorded = <<>>
  /\ run = 0
  /\ disturbed = FALSE

Slots == DOMAIN inactive
Held(b, g) == b # None /\ b.scaler = g

(* The shared_ptrs of features and recorded frames. *)
Referenced(g) ==
  \/ Held(current, g)
  \/ \E i \in Slots : Held(inactive[i], g)
  \/ \E i \in 1..Len(recorded) : recorded[i].scaler = g

(* A scaler lives as long as something refers to it. *)
Kept(s) == [g \in Generations |-> IF Referenced(g)' THEN s[g] ELSE None]

-----------------------------------------------------------------------------
(* dispatch, first part: the backend for the output size. *)

NewGeneration(out) == current = None \/ current.output # out
CachedAt(out) == {i \in Slots : inactive[i] # None /\ inactive[i].output = out}

(* A cached backend and the current one change places. *)
Swapped_BackendOnly(i) ==
  [current |-> [inactive[i] EXCEPT !.output = current.output],
   inactive |-> [inactive EXCEPT ![i] = [current EXCEPT !.output = inactive[i].output]],
   next |-> nextEviction]
Swapped(i) ==
  [current |-> inactive[i], inactive |-> [inactive EXCEPT ![i] = current],
   next |-> nextEviction]

(* A new backend; the current one goes to the slot of the next eviction. *)
Created(out) ==
  LET b == [output |-> out, made |-> out, scaler |-> None]
  IN IF current = None
     THEN [current |-> b, inactive |-> inactive, next |-> nextEviction]
     ELSE [current |-> b, inactive |-> [inactive EXCEPT ![nextEviction] = current],
           next |-> (nextEviction + 1) % InactiveSlots]

(* What the translator may select for out. *)
Selections(out) ==
  IF ~NewGeneration(out)
  THEN {[current |-> current, inactive |-> inactive, next |-> nextEviction]}
  ELSE IF CachedAt(out) # {} THEN {Swapped(i) : i \in CachedAt(out)}
  ELSE {Created(out)}

-----------------------------------------------------------------------------
(* Feature::prepare: the scaler for the frame. *)

(* temporalOutputLayout: the output, capped at the largest scale. *)
Temporal(out, in) == IF out > MaxScale * in THEN MaxScale * in ELSE out

Matches(s, out, in, fmt) ==
  /\ in <= s.capacity
  /\ s.format = fmt
  /\ s.output = Temporal(out, in)

(* The high-water capacity, unless its scale is not supported. *)
Capacity_HighWater(old, out, in) ==
  IF old = None \/ old.capacity < in THEN in ELSE old.capacity
Capacity(old, out, in) ==
  IF old = None \/ old.capacity < in \/ old.capacity > Temporal(out, in)
  THEN in ELSE old.capacity

FreshScaler(old, out, in, fmt) ==
  [capacity |-> Capacity(old, out, in), output |-> Temporal(out, in),
   format |-> fmt, fresh |-> TRUE, last |-> None, history |-> None,
   historyRun |-> 0]

(* ensureScaler: generation g serves the frame, as it is or made anew. *)
EnsureScaler(b, g, out, in, fmt) ==
  LET old == IF b.scaler = None THEN None ELSE scalers[b.scaler]
  IN IF old # None /\ Matches(old, out, in, fmt)
     THEN g = b.scaler /\ scalers' = Kept(scalers)
     ELSE /\ ~Referenced(g)
          /\ scalers' = Kept([scalers EXCEPT ![g] = FreshScaler(old, out, in, fmt)])

-----------------------------------------------------------------------------
(* dispatch as a whole, up to where it succeeds or fails. *)

Select(out, sel) ==
  /\ ~retired
  /\ sel \in Selections(out)
  /\ inactive' = sel.inactive
  /\ nextEviction' = sel.next
  /\ run' = IF NewGeneration(out) THEN run + 1 ELSE run
  /\ run' <= MaxRuns

PendingReset(out) == needsReset \/ NewGeneration(out)

(* A resource cannot be mapped or the frame cannot be prepared. *)
DispatchUnprepared(out) ==
  \E sel \in Selections(out) :
    /\ Select(out, sel)
    /\ current' = sel.current
    /\ needsReset' = PendingReset(out)
    /\ UNCHANGED <<retired, recorded, disturbed>>
    /\ scalers' = Kept(scalers)

(* The frame has its scaler, but no execution resources or no command. *)
ResetAfterFailure_Dropped(out) == FALSE
ResetAfterFailure(out) == PendingReset(out)

DispatchUnrecorded(out, in, fmt) ==
  \E sel \in Selections(out), g \in Generations :
    /\ Select(out, sel)
    /\ current' = [sel.current EXCEPT !.scaler = g]
    /\ needsReset' = ResetAfterFailure(out)
    /\ UNCHANGED <<retired, recorded, disturbed>>
    /\ EnsureScaler(sel.current, g, out, in, fmt)

Dispatch(out, in, fmt, r) ==
  \E sel \in Selections(out), g \in Generations :
    /\ Len(recorded) < MaxRecorded
    /\ Select(out, sel)
    /\ current' = [sel.current EXCEPT !.scaler = g]
    /\ recorded' = Append(recorded,
         [scaler |-> g, input |-> in, output |-> out, format |-> fmt,
          reset |-> r \/ PendingReset(out), run |-> run'])
    /\ needsReset' = FALSE
    /\ EnsureScaler(sel.current, g, out, in, fmt)
    /\ UNCHANGED <<retired, disturbed>>

(* The features go; recorded frames keep their scalers. *)
Destroy ==
  /\ ~retired
  /\ retired' = TRUE
  /\ current' = None
  /\ inactive' = [i \in Slots |-> None]
  /\ UNCHANGED <<nextEviction, needsReset, recorded, run, disturbed>>
  /\ scalers' = Kept(scalers)

-----------------------------------------------------------------------------
(* PreparedFrame::encode *)

EffectiveReset(f) ==
  LET s == scalers[f.scaler]
  IN f.reset \/ s.fresh \/ (s.last # None /\ s.last # f.input)

Without(i) == SubSeq(recorded, 1, i - 1) \o SubSeq(recorded, i + 1, Len(recorded))

(* The scaler takes the frame into its history; the generation notes it    *)
(* only when the passes after the scaler succeed too.                      *)
Encoded(f, ok) ==
  LET s == [scalers[f.scaler] EXCEPT !.history = f.input, !.historyRun = f.run]
  IN [scalers EXCEPT ![f.scaler] =
        IF ok THEN [s EXCEPT !.fresh = FALSE, !.last = f.input] ELSE s]

(* Frame i is encoded, and its list reset or kept for another replay. *)
Encode(i, ok, again) ==
  /\ recorded' = IF again THEN recorded ELSE Without(i)
  /\ disturbed' = (disturbed \/ i # 1 \/ ~ok \/ again)
  /\ UNCHANGED <<current, inactive, nextEviction, needsReset, retired, run>>
  /\ scalers' = Kept(Encoded(recorded[i], ok))

(* The list is never executed, or the encode fails before the scaler. *)
Drop(i) ==
  /\ recorded' = Without(i)
  /\ disturbed' = TRUE
  /\ UNCHANGED <<current, inactive, nextEviction, needsReset, retired, run>>
  /\ scalers' = Kept(scalers)

-----------------------------------------------------------------------------
Next ==
  \/ \E out \in Outputs : DispatchUnprepared(out)
  \/ \E out \in Outputs, in \in Inputs, fmt \in Formats :
       /\ in <= out
       /\ \/ DispatchUnrecorded(out, in, fmt)
          \/ \E r \in BOOLEAN : Dispatch(out, in, fmt, r)
  \/ Destroy
  \/ \E i \in 1..Len(recorded) :
       \/ \E ok, again \in BOOLEAN : Encode(i, ok, again)
       \/ Drop(i)

Spec == Init /\ [][Next]_vars

-----------------------------------------------------------------------------
TypeOK ==
  /\ current \in Backend \cup {None}
  /\ inactive \in [0..(InactiveSlots - 1) -> Backend \cup {None}]
  /\ nextEviction \in 0..(InactiveSlots - 1)
  /\ scalers \in [Generations -> Scaler \cup {None}]
  /\ recorded \in Seq(PreparedFrame)

(* The slots tell the truth: after any sequence of switches, evictions and *)
(* failures every backend is filed under the size its feature was created  *)
(* for, and no size has two of them.                                       *)
CacheCoherent ==
  LET live == {i \in Slots : inactive[i] # None}
  IN /\ current # None => current.made = current.output
     /\ \A i \in live :
          /\ inactive[i].made = inactive[i].output
          /\ inactive[i].output # current.output
          /\ \A j \in live : inactive[i].output = inactive[j].output => i = j

(* Every recorded frame, however old, still has a scaler of its own        *)
(* format and output that its input fits into, at a supported scale.       *)
ScalerFits ==
  \A i \in 1..Len(recorded) :
    LET f == recorded[i]
        s == scalers[f.scaler]
    IN /\ s.format = f.format
       /\ s.output = Temporal(f.output, f.input)
       /\ f.input <= s.capacity
       /\ s.capacity <= s.output /\ s.output <= MaxScale * f.input

(* A frame that is encoded without a reset finds in its scaler the history *)
(* of the same run of one output size and of the same input extent.        *)
ContinuesRun(f) ==
  ~EffectiveReset(f) =>
    /\ scalers[f.scaler].historyRun = f.run
    /\ scalers[f.scaler].history = f.input

(* Switching back resets history: as long as frames are encoded in the     *)
(* order they were recorded in and none fails, the next one never          *)
(* continues the history of an earlier run, also when dispatches failed    *)
(* between the switch and the frame.                                       *)
SwitchResets ==
  ~disturbed /\ recorded # <<>> => ContinuesRun(Head(recorded))
=============================================================================
