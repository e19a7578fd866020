------------------------ MODULE FrameGenerationProofs ------------------------
(***************************************************************************)
(* Proofs about FrameGeneration, for any frame IDs, configurations and     *)
(* limits: for an application whose frame IDs grow, an encode that does    *)
(* not reset interpolates between neighbours, with the right jitter; and   *)
(* after OFF the history is empty or that of a command recorded before.    *)
(*                                                                         *)
(* The first two rest on one fact: a snapshot, a recorded command, the     *)
(* history and the jitter each remember a place in the accepted Prepare    *)
(* calls, and the frame ID at that place is their own.  As frame IDs grow, *)
(* neighbouring IDs are then neighbouring places.                          *)
(*                                                                         *)
(* The second part is about the other half of a frame's input, the list of *)
(* frame configurations of module FrameConfigs, whose specification is     *)
(* ListSpec.                                                               *)
(***************************************************************************)
EXTENDS FrameGeneration, FrameConfigs, FiniteSetTheorems, TLAPS

-----------------------------------------------------------------------------
(* Types. *)

Accepted == [frame : Frames, reset : BOOLEAN]
Prepared == [frame : Frames, serial : 0..MaxPrepares]
History == [frame : Frames, config : Configs, serial : 1..MaxPrepares]

Types ==
  /\ notify \in BOOLEAN /\ enabled \in BOOLEAN /\ turningOff \in BOOLEAN
  /\ generationEnabled \in BOOLEAN /\ retired \in BOOLEAN
  /\ undrained \in BOOLEAN
  /\ lastPrepare \in Frames \cup {None}
  /\ DOMAIN frames \subseteq Frames
  /\ \A f \in DOMAIN frames : frames[f] \in Snapshot
  /\ prepared \in Prepared \cup {None}
  /\ history \in History \cup {None}
  /\ recorded \subseteq Command /\ late \subseteq Command
  /\ accepted \in Seq(Accepted) /\ Len(accepted) <= MaxPrepares

USE FramesAssumption, LimitAssumption, IncreasingAssumption

(* No frame waits. *)
LEMMA EmptyFacts == DOMAIN <<>> = {}
OBVIOUS

(* The frames that wait, after a Dispatch. *)
LEMMA RestrictFacts ==
  ASSUME NEW f
  PROVE  LET r == Restrict(frames, DOMAIN frames \ {f})
         IN /\ DOMAIN r = DOMAIN frames \ {f}
            /\ \A g \in DOMAIN r : r[g] = frames[g]
BY DEF Restrict

(* The snapshot a Prepare stores. *)
StoredSnapshot(f, r) ==
  [serial |-> Len(accepted) + 1, reset |-> PrepareResets(f, r),
   jitter |-> PreviousJitter(f, PrepareResets(f, r))]

LEMMA StoredFacts ==
  ASSUME Types, NEW f \in Frames, NEW r \in BOOLEAN, Len(accepted) < MaxPrepares
  PROVE  /\ StoredSnapshot(f, r) \in Snapshot
         /\ StoredSnapshot(f, r).serial = Len(accepted) + 1
         /\ r => StoredSnapshot(f, r).reset
         /\ StoredSnapshot(f, r).jitter # None =>
              /\ prepared # None /\ prepared.frame + 1 = f
              /\ StoredSnapshot(f, r).jitter = prepared.serial
<1>1. PrepareResets(f, r) \in BOOLEAN /\ (r => PrepareResets(f, r))
  BY Zenon DEF PrepareResets
<1> DEFINE b == PrepareResets(f, r)
           j == PreviousJitter(f, b)
<1>2. /\ j \in 0..MaxPrepares \cup {None}
      /\ j # None =>
           prepared # None /\ prepared.frame + 1 = f /\ j = prepared.serial
  BY DEF PreviousJitter, Types, Prepared
<1>3. Len(accepted) + 1 \in 1..MaxPrepares
  BY DEF Types
<1>4. StoredSnapshot(f, r) = [serial |-> Len(accepted) + 1, reset |-> b, jitter |-> j]
  BY DEF StoredSnapshot
<1> HIDE DEF b, j
<1>5. b \in BOOLEAN /\ (r => b)
  BY <1>1 DEF b
<1> QED BY <1>2, <1>3, <1>4, <1>5 DEF Snapshot

-----------------------------------------------------------------------------
(* The inductive invariants. *)

(* An application whose frame IDs grow. *)
Growing ==
  \A i, j \in 1..Len(accepted) : i < j => accepted[i].frame < accepted[j].frame

(* A snapshot for frame f is of an accepted Prepare of f, and resets if    *)
(* that one asked for it.  If it has a jitter, then the frame before f can *)
(* only be the one of the jitter.                                          *)
OfPrepare(calls, s, f) ==
  /\ s.serial <= Len(calls)
  /\ calls[s.serial].frame = f
  /\ calls[s.serial].reset => s.reset
  /\ s.jitter # None =>
       \A i \in 1..Len(calls) : calls[i].frame + 1 = f => i = s.jitter

Remembered ==
  /\ \A f \in DOMAIN frames : OfPrepare(accepted, frames[f], f)
  /\ \A c \in recorded : OfPrepare(accepted, c.snapshot, c.frame)
  /\ history # None =>
       history.serial <= Len(accepted) /\ accepted[history.serial].frame = history.frame
  /\ prepared # None =>
       \A i \in 1..Len(accepted) :
         accepted[i].frame = prepared.frame => i = prepared.serial

(* While generation is off no command is recorded that was not when OFF    *)
(* came.  With a swapchain: while its callbacks are off nothing is         *)
(* recorded, and generation is off only while they are, unless a drain has *)
(* failed.                                                                 *)
Quiet ==
  /\ ~generationEnabled => frames = <<>>
  /\ notify /\ turningOff => ~enabled
  /\ notify /\ ~generationEnabled => ~enabled
  /\ notify /\ ~enabled /\ (turningOff \/ ~undrained) => recorded = {}
  /\ ~generationEnabled /\ notify /\ ~undrained => history = None
  /\ ~generationEnabled => recorded \subseteq late
  /\ ~generationEnabled /\ history # None => \E c \in late : history = HistoryOf(c)

-----------------------------------------------------------------------------
LEMMA TypesInit == Init => Types
<1> SUFFICES ASSUME Init PROVE Types
  OBVIOUS
<1>1. accepted \in Seq(Accepted) /\ Len(accepted) <= MaxPrepares
  BY DEF Init
<1>2. DOMAIN frames = {}
  BY EmptyFacts DEF Init
<1> QED BY <1>1, <1>2 DEF Init, Types

LEMMA RememberedInit == Init => Growing /\ Remembered /\ Quiet
BY DEF Init, Growing, Remembered, Quiet

(* Every step preserves the types. *)
LEMMA TypesStep == Types /\ [Next]_vars => Types'
<1> SUFFICES ASSUME Types, [Next]_vars PROVE Types'
  OBVIOUS
<1> USE DEF Types
<1>1. ASSUME NEW f \in Frames, NEW r \in BOOLEAN, Prepare(f, r) PROVE Types'
  <2>1. /\ Len(accepted) < MaxPrepares
        /\ frames' = IF generationEnabled THEN With(f, StoredSnapshot(f, r)) ELSE frames
        /\ prepared' = [frame |-> f, serial |-> Len(accepted) + 1]
        /\ accepted' = Append(accepted, [frame |-> f, reset |-> r])
    BY <1>1 DEF Prepare, StoredSnapshot
  <2>2. /\ DOMAIN frames' \subseteq Frames
        /\ \A g \in DOMAIN frames' : frames'[g] \in Snapshot
    <3>1. CASE generationEnabled
      <4>1. frames' = With(f, StoredSnapshot(f, r)) /\ StoredSnapshot(f, r) \in Snapshot
        BY <2>1, <3>1, StoredFacts
      <4> DEFINE s == StoredSnapshot(f, r)
      <4> HIDE DEF s
      <4>2. frames' = With(f, s) /\ s \in Snapshot
        BY <4>1 DEF s
      <4>3. /\ DOMAIN frames' = DOMAIN frames \cup {f}
            /\ frames'[f] = s
            /\ \A g \in DOMAIN frames \ {f} : frames'[g] = frames[g]
        BY <4>2 DEF With
      <4> QED BY <4>2, <4>3
    <3>2. CASE ~generationEnabled
      BY <2>1, <3>2
    <3> QED BY <3>1, <3>2
  <2>3. accepted' \in Seq(Accepted) /\ Len(accepted') <= MaxPrepares
    BY <2>1 DEF Accepted
  <2>4. prepared' \in Prepared
    BY <2>1 DEF Prepared
  <2> QED BY <1>1, <2>2, <2>3, <2>4 DEF Prepare
<1>2. ASSUME NEW f \in Frames, NEW r \in BOOLEAN, PrepareFails(f, r) PROVE Types'
  BY <1>2 DEF PrepareFails, Prepared
<1>3. ASSUME NEW f \in Frames, NEW r \in BOOLEAN, NEW k \in Configs, Dispatch(f, r, k)
      PROVE  Types'
  <2>1. DispatchResets(f, r) \in BOOLEAN
    BY Zenon DEF DispatchResets
  <2>2. recorded' \subseteq Command
    BY <1>3, <2>1 DEF Dispatch, Command
  <2>3. /\ DOMAIN frames' \subseteq Frames
        /\ \A g \in DOMAIN frames' : frames'[g] \in Snapshot
    BY <1>3, RestrictFacts DEF Dispatch
  <2> QED BY <1>3, <2>2, <2>3 DEF Dispatch
<1>4. ASSUME NEW c \in recorded, Encode(c) PROVE Types'
  BY <1>4 DEF Encode, HistoryOf, Command, History, Snapshot
<1>5. ASSUME NEW c \in recorded, Forget(c) PROVE Types'
  BY <1>5 DEF Forget
<1>6. CASE TurnOn
  BY <1>6 DEF TurnOn
<1>7. CASE TurnOnRolledBack
  BY <1>7, EmptyFacts DEF TurnOnRolledBack, Disabled
<1>8. CASE TurnOffDirect
  BY <1>8, EmptyFacts DEF TurnOffDirect, Disabled
<1>9. CASE ClearFrameConfigs
  BY <1>9 DEF ClearFrameConfigs
<1>10. CASE TurnOffNotified
  BY <1>10 DEF TurnOffNotified, WaitedForPresents
<1>11. CASE TurnOffUndrained
  BY <1>11 DEF TurnOffUndrained
<1>12. ASSUME NEW ok \in BOOLEAN, OffBridge(ok) PROVE Types'
  <2>1. undrained' \in BOOLEAN
    BY <1>12, Zenon DEF OffBridge
  <2> QED BY <1>12, <2>1, EmptyFacts DEF OffBridge, Disabled
<1>13. CASE Destroy
  BY <1>13, EmptyFacts DEF Destroy
<1>14. CASE UNCHANGED vars
  BY <1>14 DEF vars
<1> QED BY <1>1, <1>2, <1>3, <1>4, <1>5, <1>6, <1>7, <1>8, <1>9, <1>10, <1>11,
      <1>12, <1>13, <1>14 DEF Next

(* A Prepare that is accepted comes last, and its frame is the greatest. *)
LEMMA AppendFacts ==
  ASSUME Types, Growing, Increasing, NEW f \in Frames, NEW r \in BOOLEAN, NextFrame(f),
         accepted' = Append(accepted, [frame |-> f, reset |-> r])
  PROVE  /\ Len(accepted') = Len(accepted) + 1
         /\ \A i \in 1..Len(accepted) :
              accepted'[i] = accepted[i] /\ accepted[i].frame \in Nat
              /\ accepted[i].frame < f
         /\ accepted'[Len(accepted) + 1] = [frame |-> f, reset |-> r]
         /\ Len(accepted) \in Nat
<1>1. accepted \in Seq(Accepted) /\ [frame |-> f, reset |-> r] \in Accepted
  BY DEF Types, Accepted
<1>2. \A i \in 1..Len(accepted) : accepted[i] \in Accepted
  BY <1>1
<1>3. \A i \in 1..Len(accepted) : accepted[i].frame \in Nat /\ accepted[i].frame < f
  BY <1>2 DEF Accepted, NextFrame
<1> QED BY <1>1, <1>3

(* A snapshot stays one of an accepted Prepare when another one follows. *)
LEMMA OfPrepareKept ==
  ASSUME Types, Growing, Increasing, NEW f \in Frames, NEW r \in BOOLEAN, NextFrame(f),
         accepted' = Append(accepted, [frame |-> f, reset |-> r]),
         NEW s \in Snapshot, NEW g \in Frames, OfPrepare(accepted, s, g)
  PROVE  OfPrepare(accepted', s, g)
<1>1. s.serial \in 1..Len(accepted) /\ g < f
  BY AppendFacts DEF OfPrepare, Snapshot
<1>2. f \in Nat /\ g \in Nat
  BY FramesAssumption
<1>3. /\ Len(accepted') = Len(accepted) + 1 /\ Len(accepted) \in Nat
      /\ \A i \in 1..Len(accepted) : accepted'[i] = accepted[i]
      /\ accepted'[Len(accepted) + 1].frame = f
  BY AppendFacts
<1>4. /\ s.serial <= Len(accepted') /\ accepted'[s.serial].frame = g
      /\ accepted'[s.serial].reset => s.reset
  BY <1>1, <1>3 DEF OfPrepare
<1>5. ASSUME s.jitter # None, NEW i \in 1..Len(accepted'), accepted'[i].frame + 1 = g
      PROVE  i = s.jitter
  <2>1. i # Len(accepted) + 1
    BY <1>1, <1>2, <1>3, <1>5
  <2>2. i \in 1..Len(accepted) /\ accepted[i].frame + 1 = g
    BY <1>3, <1>5, <2>1
  <2> QED BY <1>5, <2>2 DEF OfPrepare
<1> QED BY <1>4, <1>5 DEF OfPrepare

(* Every step keeps what is remembered true to the accepted Prepare calls. *)
LEMMA RememberedStep ==
  ASSUME Increasing
  PROVE  Types /\ Growing /\ Remembered /\ [Next]_vars => Growing' /\ Remembered'
<1> SUFFICES ASSUME Types, Growing, Remembered, [Next]_vars
             PROVE  Growing' /\ Remembered'
  OBVIOUS
<1>1. ASSUME NEW f \in Frames, NEW r \in BOOLEAN, Prepare(f, r)
      PROVE  Growing' /\ Remembered'
  <2>1. /\ Len(accepted) < MaxPrepares /\ NextFrame(f)
        /\ frames' = IF generationEnabled THEN With(f, StoredSnapshot(f, r)) ELSE frames
        /\ prepared' = [frame |-> f, serial |-> Len(accepted) + 1]
        /\ accepted' = Append(accepted, [frame |-> f, reset |-> r])
        /\ history' = history /\ recorded' = recorded
    BY <1>1 DEF Prepare, StoredSnapshot
  <2>2. /\ Len(accepted') = Len(accepted) + 1
        /\ \A i \in 1..Len(accepted) :
             accepted'[i] = accepted[i] /\ accepted[i].frame \in Nat
             /\ accepted[i].frame < f
        /\ accepted'[Len(accepted) + 1] = [frame |-> f, reset |-> r]
        /\ Len(accepted) \in Nat
    BY <2>1, AppendFacts
  <2>3. Growing'
    BY <2>2 DEF Growing
  <2>4. ASSUME NEW s \in Snapshot, NEW g \in Frames, OfPrepare(accepted, s, g)
        PROVE  OfPrepare(accepted', s, g)
    BY <2>1, <2>4, OfPrepareKept
  <2>5. OfPrepare(accepted', StoredSnapshot(f, r), f)
    <3> DEFINE s == StoredSnapshot(f, r)
    <3>1. /\ s \in Snapshot /\ s.serial = Len(accepted) + 1
          /\ r => s.reset
          /\ s.jitter # None => /\ prepared # None /\ prepared.frame + 1 = f
                                /\ s.jitter = prepared.serial
      BY <2>1, StoredFacts
    <3> HIDE DEF s
    <3>2. /\ s.serial <= Len(accepted') /\ accepted'[s.serial].frame = f
          /\ accepted'[s.serial].reset => s.reset
      BY <2>2, <3>1
    <3>3. ASSUME s.jitter # None, NEW i \in 1..Len(accepted'), accepted'[i].frame + 1 = f
          PROVE  i = s.jitter
      <4>1. i \in 1..Len(accepted)
        BY <2>2, <3>3
      <4>2. accepted[i].frame = prepared.frame
        <5>1. accepted[i].frame + 1 = f /\ accepted[i].frame \in Nat
          BY <2>2, <3>3, <4>1
        <5>2. prepared.frame \in Nat
          BY <3>1, <3>3 DEF Types, Prepared
        <5> QED BY <3>1, <3>3, <5>1, <5>2
      <4> QED BY <3>1, <3>3, <4>1, <4>2 DEF Remembered
    <3> QED BY <3>2, <3>3 DEF s, OfPrepare
  <2>6. \A g \in DOMAIN frames' : OfPrepare(accepted', frames'[g], g)
    <3>1. \A g \in DOMAIN frames : OfPrepare(accepted', frames[g], g)
      BY <2>4 DEF Types, Remembered
    <3>2. CASE generationEnabled
      <4> DEFINE s == StoredSnapshot(f, r)
      <4>1. OfPrepare(accepted', s, f)
        BY <2>5
      <4> HIDE DEF s
      <4>2. frames' = With(f, s)
        BY <2>1, <3>2 DEF s
      <4>3. /\ DOMAIN frames' = DOMAIN frames \cup {f}
            /\ frames'[f] = s
            /\ \A g \in DOMAIN frames \ {f} : frames'[g] = frames[g]
        BY <4>2 DEF With
      <4> QED BY <3>1, <4>1, <4>3
    <3>3. CASE ~generationEnabled
      BY <2>1, <3>1, <3>3
    <3> QED BY <3>2, <3>3
  <2>7. \A c \in recorded' : OfPrepare(accepted', c.snapshot, c.frame)
    BY <2>1, <2>4 DEF Types, Remembered, Command
  <2>8. history' # None =>
          /\ history'.serial <= Len(accepted')
          /\ accepted'[history'.serial].frame = history'.frame
    BY <2>1, <2>2 DEF Types, Remembered, History
  <2>9. \A i \in 1..Len(accepted') :
          accepted'[i].frame = prepared'.frame => i = prepared'.serial
    BY <2>1, <2>2
  <2> QED BY <2>3, <2>6, <2>7, <2>8, <2>9 DEF Remembered
<1>2. ASSUME NEW f \in Frames, NEW r \in BOOLEAN, PrepareFails(f, r)
      PROVE  Growing' /\ Remembered'
  <2>1. /\ prepared' = [frame |-> f, serial |-> 0] /\ NextFrame(f)
        /\ UNCHANGED <<accepted, frames, recorded, history>>
    BY <1>2 DEF PrepareFails
  <2>2. \A i \in 1..Len(accepted) : accepted[i].frame # f
    <3>1. \A i \in 1..Len(accepted) : accepted[i] \in Accepted
      BY DEF Types
    <3> QED BY <2>1, <3>1 DEF NextFrame, Accepted
  <2> QED BY <2>1, <2>2 DEF Growing, Remembered, OfPrepare
<1>3. ASSUME NEW f \in Frames, NEW r \in BOOLEAN, NEW k \in Configs, Dispatch(f, r, k)
      PROVE  Growing' /\ Remembered'
  <2>1. \A c \in recorded' : OfPrepare(accepted, c.snapshot, c.frame)
    BY <1>3 DEF Dispatch, Remembered
  <2>2. \A g \in DOMAIN frames' : OfPrepare(accepted, frames'[g], g)
    BY <1>3, RestrictFacts DEF Dispatch, Remembered
  <2> QED BY <1>3, <2>1, <2>2 DEF Dispatch, Growing, Remembered, OfPrepare
<1>4. ASSUME NEW c \in recorded, Encode(c) PROVE Growing' /\ Remembered'
  BY <1>4 DEF Encode, HistoryOf, Growing, Remembered, OfPrepare
<1>5. ASSUME NEW c \in recorded, Forget(c) PROVE Growing' /\ Remembered'
  BY <1>5 DEF Forget, Growing, Remembered, OfPrepare
<1>6. CASE UNCHANGED <<frames, prepared, history, recorded, accepted>>
  BY <1>6 DEF Growing, Remembered, OfPrepare
<1>7. CASE Disabled /\ UNCHANGED <<recorded, accepted>>
  BY <1>7, EmptyFacts DEF Disabled, Growing, Remembered, OfPrepare
<1>8. CASE TurnOffNotified
  BY <1>8 DEF TurnOffNotified, WaitedForPresents, Growing, Remembered, OfPrepare
<1>9. CASE Destroy
  BY <1>9, EmptyFacts DEF Destroy, Growing, Remembered, OfPrepare
<1>10. TurnOn \/ ClearFrameConfigs \/ TurnOffUndrained \/ UNCHANGED vars =>
         UNCHANGED <<frames, prepared, history, recorded, accepted>>
  BY DEF TurnOn, ClearFrameConfigs, TurnOffUndrained, vars
<1>11. TurnOnRolledBack \/ TurnOffDirect => Disabled /\ UNCHANGED <<recorded, accepted>>
  BY DEF TurnOnRolledBack, TurnOffDirect
<1>12. \A ok \in BOOLEAN :
         OffBridge(ok) => \/ Disabled /\ UNCHANGED <<recorded, accepted>>
                          \/ UNCHANGED <<frames, prepared, history, recorded, accepted>>
  BY DEF OffBridge
<1> QED BY <1>1, <1>2, <1>3, <1>4, <1>5, <1>6, <1>7, <1>8, <1>9, <1>10, <1>11,
      <1>12
      DEF Next

(* Every step keeps a silenced context quiet. *)
LEMMA QuietStep == Types /\ Quiet /\ [Next]_vars => Quiet'
<1> SUFFICES ASSUME Types, Quiet, [Next]_vars PROVE Quiet'
  OBVIOUS
<1> USE DEF Types, Quiet
<1>1. ASSUME NEW f \in Frames, NEW r \in BOOLEAN, Prepare(f, r) PROVE Quiet'
  BY <1>1 DEF Prepare
<1>2. ASSUME NEW f \in Frames, NEW r \in BOOLEAN, PrepareFails(f, r) PROVE Quiet'
  BY <1>2 DEF PrepareFails
<1>3. ASSUME NEW f \in Frames, NEW r \in BOOLEAN, NEW k \in Configs, Dispatch(f, r, k)
      PROVE  Quiet'
  BY <1>3, EmptyFacts DEF Dispatch
<1>4. ASSUME NEW c \in recorded, Encode(c) PROVE Quiet'
  BY <1>4 DEF Encode
<1>5. ASSUME NEW c \in recorded, Forget(c) PROVE Quiet'
  BY <1>5 DEF Forget
<1>6. CASE TurnOn
  BY <1>6 DEF TurnOn
<1>7. CASE TurnOnRolledBack
  BY <1>7 DEF TurnOnRolledBack, Disabled
<1>8. CASE TurnOffDirect
  BY <1>8 DEF TurnOffDirect, Disabled
<1>9. CASE ClearFrameConfigs
  BY <1>9 DEF ClearFrameConfigs
<1>10. CASE TurnOffNotified
  BY <1>10 DEF TurnOffNotified, WaitedForPresents
<1>11. CASE TurnOffUndrained
  BY <1>11 DEF TurnOffUndrained
<1>12. ASSUME NEW ok \in BOOLEAN, OffBridge(ok) PROVE Quiet'
  BY <1>12 DEF OffBridge, Disabled
<1>13. CASE Destroy
  BY <1>13 DEF Destroy
<1>14. CASE UNCHANGED vars
  BY <1>14 DEF vars
<1> QED BY <1>1, <1>2, <1>3, <1>4, <1>5, <1>6, <1>7, <1>8, <1>9, <1>10, <1>11,
      <1>12, <1>13, <1>14 DEF Next

-----------------------------------------------------------------------------
(* The types hold in every reachable state. *)
LEMMA TypesHold == Spec => []Types
BY TypesInit, TypesStep, PTL DEF Spec

(* The packets, snapshots, commands and history have their types in every  *)
(* reachable state.                                                        *)
THEOREM TypeCorrect == Spec => []TypeOK
<1>1. Types => TypeOK
  BY DEF Types, TypeOK, Prepared, History, Range
<1> QED BY <1>1, TypesHold, PTL

(* What is remembered is true, if frame IDs grow. *)
LEMMA RememberedHolds ==
  ASSUME Increasing
  PROVE  Spec => [](Growing /\ Remembered)
BY RememberedInit, RememberedStep, TypesHold, PTL DEF Spec

(* The neighbour of a command's frame is at the place before its own. *)
LEMMA Neighbours ==
  ASSUME Types, Growing, Remembered, NEW c \in recorded, ~EncodeResets(c)
  PROVE  /\ history # None /\ history.config = c.config
         /\ history.serial \in 1..Len(accepted)
         /\ c.snapshot.serial = history.serial + 1
         /\ accepted[history.serial].frame + 1 = c.frame
         /\ accepted[c.snapshot.serial].frame = c.frame
         /\ ~accepted[c.snapshot.serial].reset
<1>1. /\ history # None /\ history.config = c.config /\ history.frame + 1 = c.frame
      /\ ~c.snapshot.reset
  BY DEF EncodeResets
<1>2. c.snapshot \in Snapshot /\ OfPrepare(accepted, c.snapshot, c.frame) /\ history \in History
  BY <1>1 DEF Types, Remembered, Command
<1> DEFINE h == history.serial
           n == c.snapshot.serial
<1>3. /\ h \in 1..Len(accepted) /\ n \in 1..Len(accepted)
      /\ accepted[h].frame = history.frame /\ accepted[n].frame = c.frame
      /\ ~accepted[n].reset
  BY <1>1, <1>2 DEF Remembered, OfPrepare, Snapshot, History
<1>4. \A i \in 1..Len(accepted) : accepted[i].frame \in Nat
  <2>1. \A i \in 1..Len(accepted) : accepted[i] \in Accepted
    BY DEF Types
  <2> QED BY <2>1 DEF Accepted
<1>5. Len(accepted) \in Nat
  BY DEF Types
<1> HIDE DEF h, n
<1>6. accepted[h].frame + 1 = accepted[n].frame
  BY <1>1, <1>3
<1>7. h < n
  BY <1>3, <1>4, <1>5, <1>6 DEF Growing
<1>8. n = h + 1
  <2> SUFFICES ASSUME h + 1 < n PROVE FALSE
    BY <1>3, <1>5, <1>7
  <2>1. h + 1 \in 1..Len(accepted)
    BY <1>3, <1>5
  <2>2. accepted[h].frame < accepted[h + 1].frame /\ accepted[h + 1].frame < accepted[n].frame
    BY <1>3, <1>5, <2>1 DEF Growing
  <2> QED BY <1>3, <1>4, <1>6, <2>1, <2>2
<1> QED BY <1>1, <1>3, <1>6, <1>8 DEF h, n

(* For an application whose frame IDs grow: whatever was recorded, encoded *)
(* and turned on or off before, an encode that does not reset interpolates *)
(* from the frame prepared just before its own, neither asking for a reset.*)
THEOREM HistoryContinuous ==
  ASSUME Increasing
  PROVE  Spec => []ContinuousHistory
<1>1. Types /\ Growing /\ Remembered => ContinuousHistory
  <2> SUFFICES ASSUME Types, Growing, Remembered, NEW c \in recorded, ~EncodeResets(c)
               PROVE  /\ history.config = c.config
                      /\ c.snapshot.serial = history.serial + 1
                      /\ ~Breaks(c.snapshot.serial)
    BY DEF ContinuousHistory
  <2>1. history.serial \in Nat /\ (history.serial + 1) - 1 = history.serial
    BY Neighbours DEF Types
  <2> QED BY <2>1, Neighbours DEF Breaks
<1> QED BY <1>1, TypesHold, RememberedHolds, PTL

(* Its motion vectors are corrected by the jitter of the frame it          *)
(* interpolates from, or not at all.                                       *)
THEOREM JitterCorrect ==
  ASSUME Increasing
  PROVE  Spec => []JitterOfHistory
<1>1. Types /\ Growing /\ Remembered => JitterOfHistory
  <2> SUFFICES ASSUME Types, Growing, Remembered, NEW c \in recorded, ~EncodeResets(c),
                      c.snapshot.jitter # None
               PROVE  c.snapshot.jitter = history.serial
    BY DEF JitterOfHistory
  <2>1. OfPrepare(accepted, c.snapshot, c.frame)
    BY DEF Remembered
  <2> QED BY <2>1, Neighbours DEF OfPrepare
<1> QED BY <1>1, TypesHold, RememberedHolds, PTL

(* With any frame IDs: while generation is off no frame waits for a        *)
(* Dispatch; a notified context that was drained has no history; and a     *)
(* late encode, on a direct context or after a failed wait_for_presents,   *)
(* brings back the history of a command recorded before OFF only.          *)
THEOREM OffIsForgetful == Spec => []OffForgets
<1>1. Init => Quiet
  BY RememberedInit
<1>2. Quiet => OffForgets
  BY DEF Quiet, OffForgets
<1> QED BY <1>1, <1>2, TypesHold, QuietStep, PTL DEF Spec

-----------------------------------------------------------------------------
(* The list of frame configurations (module FrameConfigs) from which a     *)
(* generated frame takes its HUD-less resource, for every set of frame ids *)
(* and resources and every capacity: the list stays within its bound and   *)
(* retirement never changes what a frame that can still be generated       *)
(* selects.                                                                *)

(* The state reached by ListInit is an inductive one. *)
LEMMA InitRetireInv ==
  ASSUME ListInit
  PROVE  RetireInv
<1>1. Stored(configs) = {} /\ Stored(every) = {}
  BY DEF ListInit, Stored, Empty
<1>2. /\ IsFiniteSet(Stored(configs))
      /\ Cardinality(Stored(configs)) <= MaxConfigs
  BY <1>1, FS_EmptySet, NoneAssumption, MaxConfigsAssumption
<1>3. ListTypeOK
  BY <1>2 DEF ListInit, ListTypeOK, ConfigList, Empty
<1>4. InOrder
  BY DEF ListInit, InOrder
<1>5. Covered
  BY <1>1 DEF Covered
<1> QED BY <1>3, <1>4, <1>5 DEF RetireInv

(* retire_frame_configs only removes: what stays keeps its value, and what *)
(* goes is below a configuration that stays and is at or below the frame.  *)
LEMMA RetiredFacts ==
  ASSUME NEW cs \in ConfigList, NEW f \in Nat
  PROVE  /\ Retired(cs, f) \in ConfigList
         /\ Stored(Retired(cs, f)) \subseteq Stored(cs)
         /\ \A g \in Stored(Retired(cs, f)) : Retired(cs, f)[g] = cs[g]
         /\ \A g \in Stored(cs) \ Stored(Retired(cs, f)) :
              \E h \in Stored(Retired(cs, f)) : g < h /\ h <= f
<1> DEFINE R == Retired(cs, f)
<1>1. R \in ConfigList
  BY DEF Retired, ConfigList
<1>2. \A g \in Frames : R[g] = IF \E h \in Selected(cs, f) : g < h THEN None ELSE cs[g]
  BY DEF Retired
<1>3. Stored(R) \subseteq Stored(cs) /\ \A g \in Stored(R) : R[g] = cs[g]
  BY <1>2 DEF Stored
<1>4. ASSUME NEW g \in Stored(cs), g \notin Stored(R)
      PROVE  \E h \in Stored(R) : g < h /\ h <= f
  <2>1. PICK h \in Selected(cs, f) : g < h
    BY <1>2, <1>4 DEF Stored
  <2>2. h \in Stored(cs) /\ h <= f /\ h \in Nat
    BY FramesAssumption DEF Selected, Stored
  <2>3. ASSUME NEW i \in Selected(cs, f), h < i
        PROVE  FALSE
    <3>1. i \in Nat /\ i \in Stored(cs) /\ i <= f
      BY FramesAssumption DEF Selected, Stored
    <3>2. i <= h
      BY <3>1 DEF Selected
    <3> QED BY <2>2, <2>3, <3>1, <3>2
  <2>4. h \in Stored(R)
    BY <1>2, <2>2, <2>3 DEF Stored
  <2> QED BY <2>1, <2>2, <2>4
<1> QED BY <1>1, <1>3, <1>4

(* A frame id at or below every live frame may be retired: Covered holds   *)
(* of the list that remains.                                               *)
LEMMA RetirePreservesCovered ==
  ASSUME RetireInv, NEW f \in Frames,
         \A g \in Frames : Live(g)' => Live(g) /\ f <= g,
         configs' = Retired(configs, f), every' = every
  PROVE  Covered'
<1>1. /\ configs \in ConfigList
      /\ f \in Nat
      /\ Covered
  BY FramesAssumption DEF RetireInv, ListTypeOK
<1>2. /\ Stored(configs') \subseteq Stored(configs)
      /\ \A g \in Stored(configs') : configs'[g] = configs[g]
      /\ \A g \in Stored(configs) \ Stored(configs') :
           \E h \in Stored(configs') : g < h /\ h <= f
  BY <1>1, RetiredFacts
<1>3. /\ Stored(configs)' = Stored(configs')
      /\ Stored(every)' = Stored(every)
  BY DEF Stored
<1>4. \A g \in Stored(configs') : every[g] = configs'[g]
  BY <1>1, <1>2 DEF Covered
<1>5. ASSUME NEW g \in Stored(every), g \notin Stored(configs')
      PROVE  \E h \in Stored(configs') : g < h /\ \A i \in Frames : Live(i)' => h <= i
  <2>0. Stored(configs) \subseteq Nat /\ g \in Nat
    BY FramesAssumption DEF Stored
  <2>1. CASE g \in Stored(configs)
    <3>1. PICK h \in Stored(configs') : g < h /\ h <= f
      BY <1>2, <1>5, <2>1
    <3> QED BY <1>1, <1>2, <2>0, <3>1, FramesAssumption
  <2>2. CASE g \notin Stored(configs)
    <3>1. PICK k \in Stored(configs) : g < k /\ \A i \in Frames : Live(i) => k <= i
      BY <1>1, <1>5, <2>2 DEF Covered
    <3>2. CASE k \in Stored(configs')
      BY <3>1, <3>2
    <3>3. CASE k \notin Stored(configs')
      <4>1. PICK h \in Stored(configs') : k < h /\ h <= f
        BY <1>2, <3>3
      <4>2. g < h
        BY <1>2, <2>0, <3>1, <4>1
      <4>3. \A i \in Frames : Live(i)' => h <= i
        BY <1>1, <1>2, <2>0, <4>1, FramesAssumption
      <4> QED BY <4>2, <4>3
    <3> QED BY <3>2, <3>3
  <2> QED BY <2>1, <2>2
<1> QED BY <1>3, <1>4, <1>5 DEF Covered

(* Retirement keeps the list within its bound. *)
LEMMA RetirePreservesBound ==
  ASSUME ListTypeOK, NEW f \in Frames, configs' = Retired(configs, f)
  PROVE  /\ configs' \in ConfigList
         /\ IsFiniteSet(Stored(configs'))
         /\ Cardinality(Stored(configs')) <= MaxConfigs
<1>1. configs' \in ConfigList /\ Stored(configs') \subseteq Stored(configs)
  BY RetiredFacts, FramesAssumption DEF ListTypeOK
<1>2. /\ IsFiniteSet(Stored(configs'))
      /\ Cardinality(Stored(configs')) <= Cardinality(Stored(configs))
  BY <1>1, FS_Subset DEF ListTypeOK
<1>3. /\ Cardinality(Stored(configs')) \in Nat
      /\ Cardinality(Stored(configs)) \in Nat
  BY <1>2, FS_CardinalityType DEF ListTypeOK
<1> QED BY <1>1, <1>2, <1>3, NoneAssumption, MaxConfigsAssumption DEF ListTypeOK

(* Steps that leave the list alone and create no live frame below the      *)
(* configurations that cover retired ones keep Covered.                    *)
LEMMA CoveredUnchanged ==
  ASSUME Covered, UNCHANGED <<configs, every>>,
         \A f \in Frames : Live(f)' => Live(f)
  PROVE  Covered'
BY DEF Covered, Stored

(* snapshot_frame_config: publishing keeps the bound and Covered. *)
LEMMA SnapshotPreserves ==
  ASSUME RetireInv, NEW f \in Frames, NEW r \in Resources,
         NEW changed \in BOOLEAN,
         SnapshotFrameConfig(f, r, changed)
  PROVE  RetireInv'
<1> USE DEF SnapshotFrameConfig, Publish
<1>1. /\ configs \in ConfigList /\ every \in ConfigList
      /\ ListTypeOK /\ InOrder /\ Covered
  BY DEF RetireInv, ListTypeOK
<1>2. r # None
  BY NoneAssumption, MaxConfigsAssumption
<1>3. configs' \in ConfigList /\ every' \in ConfigList
  BY <1>1 DEF ConfigList
<1>4. /\ Stored(configs') = Stored(configs) \cup {f}
      /\ Stored(every') = Stored(every) \cup {f}
  BY <1>1, <1>2 DEF Stored, ConfigList
<1>5. /\ IsFiniteSet(Stored(configs'))
      /\ Cardinality(Stored(configs')) <= MaxConfigs
  <2>1. CASE configs[f] # None
    <3>1. f \in Stored(configs)
      BY <2>1 DEF Stored
    <3>2. Stored(configs') = Stored(configs)
      BY <1>4, <3>1
    <3> QED BY <1>1, <3>2 DEF ListTypeOK
  <2>2. CASE configs[f] = None
    <3>1. ~Full /\ f \notin Stored(configs)
      BY <2>2 DEF Stored
    <3>2. /\ IsFiniteSet(Stored(configs))
          /\ Cardinality(Stored(configs)) \in Nat
      BY <1>1, FS_CardinalityType DEF ListTypeOK
    <3>3. /\ IsFiniteSet(Stored(configs) \cup {f})
          /\ Cardinality(Stored(configs) \cup {f}) = Cardinality(Stored(configs)) + 1
      BY ONLY <3>1, <3>2, FS_AddElement
    <3>4. ~(Cardinality(Stored(configs)) >= MaxConfigs)
      BY <3>1 DEF Full
    <3>5. /\ IsFiniteSet(Stored(configs'))
          /\ Cardinality(Stored(configs')) = Cardinality(Stored(configs)) + 1
      BY ONLY <1>4, <3>3, Zenon
    <3> QED BY <3>2, <3>4, <3>5, NoneAssumption, MaxConfigsAssumption
  <2> QED BY <2>1, <2>2
<1>6. ListTypeOK'
  BY <1>1, <1>3, <1>5 DEF ListTypeOK
<1>7. \A g \in Frames : Live(g)' => Live(g)
  BY DEF Live
<1>8. InOrder'
  <2>1. app'.pc = "published" /\ app'.frame = f
    OBVIOUS
  <2> QED BY <1>1, <2>1 DEF InOrder
<1>9. Covered'
  <2>1. \A g \in Stored(configs') : every'[g] = configs'[g]
    BY <1>1, <1>4 DEF Covered, ConfigList, Stored
  <2>2. ASSUME NEW g \in Stored(every'), g \notin Stored(configs')
        PROVE  \E h \in Stored(configs') : g < h /\ \A i \in Frames : Live(i)' => h <= i
    <3>1. g \in Stored(every) \ Stored(configs)
      BY <1>4, <2>2
    <3>2. PICK h \in Stored(configs) : g < h /\ \A i \in Frames : Live(i) => h <= i
      BY <1>1, <3>1 DEF Covered
    <3> QED BY <1>4, <1>7, <3>2
  <2>3. /\ Stored(configs)' = Stored(configs')
        /\ Stored(every)' = Stored(every')
    BY DEF Stored
  <2> QED BY <2>1, <2>2, <2>3 DEF Covered
<1> QED BY <1>6, <1>8, <1>9 DEF RetireInv

(* clear_frame_configs: the empty list covers the empty history. *)
LEMMA ClearPreserves ==
  ASSUME RetireInv, Clear
  PROVE  RetireInv'
<1> USE DEF Clear
<1>1. ListTypeOK /\ InOrder
  BY DEF RetireInv
<1>2. Stored(configs') = {} /\ Stored(every') = {}
  BY DEF Stored, Empty
<1>3. /\ IsFiniteSet(Stored(configs'))
      /\ Cardinality(Stored(configs')) <= MaxConfigs
  BY <1>2, FS_EmptySet, NoneAssumption, MaxConfigsAssumption
<1>4. ListTypeOK'
  BY <1>1, <1>3 DEF ListTypeOK, ConfigList, Empty
<1>5. InOrder'
  BY <1>1 DEF InOrder
<1>6. Covered'
  BY <1>2 DEF Covered, Stored
<1> QED BY <1>4, <1>5, <1>6 DEF RetireInv

(* The retirement at the end of a generation: the presented frames that    *)
(* are left, and those to come, are not below the generated one.           *)
LEMMA GeneratedPreserves ==
  ASSUME RetireInv, Generated
  PROVE  RetireInv'
<1> USE DEF Generated
<1>1. ListTypeOK /\ InOrder /\ gen.frame \in Frames
  BY DEF RetireInv, ListTypeOK
<1>2. ListTypeOK'
  <2>1. /\ configs' \in ConfigList
        /\ IsFiniteSet(Stored(configs'))
        /\ Cardinality(Stored(configs')) <= MaxConfigs
    BY <1>1, RetirePreservesBound
  <2> QED BY <1>1, <2>1 DEF ListTypeOK
<1>3. \A g \in Frames : Live(g)' => Live(g) /\ gen.frame <= g
  <2> SUFFICES ASSUME NEW g \in Frames, Live(g)'
               PROVE  Live(g) /\ gen.frame <= g
    OBVIOUS
  <2>1. g \in Nat /\ next \in Nat /\ gen.frame \in Nat /\ gen.frame <= next
    BY <1>1, FramesAssumption DEF InOrder, ListTypeOK
  <2>2. g \in queued \/ g >= next
    BY DEF Live
  <2>3. gen.frame <= g
    BY <1>1, <2>1, <2>2 DEF InOrder
  <2> QED BY <2>2, <2>3 DEF Live
<1>4. InOrder'
  BY <1>1, <1>3 DEF InOrder
<1>5. Covered'
  BY <1>1, <1>3, RetirePreservesCovered
<1> QED BY <1>2, <1>4, <1>5 DEF RetireInv

(* The retirement after a change of binding. *)
LEMMA RetireBindingPreserves ==
  ASSUME RetireInv, RetireBinding
  PROVE  RetireInv'
<1> USE DEF RetireBinding
<1>1. ListTypeOK /\ InOrder /\ app.frame \in Frames
  BY DEF RetireInv, ListTypeOK
<1>2. ListTypeOK'
  <2>1. /\ configs' \in ConfigList
        /\ IsFiniteSet(Stored(configs'))
        /\ Cardinality(Stored(configs')) <= MaxConfigs
    BY <1>1, RetirePreservesBound
  <2> QED BY <1>1, <2>1 DEF ListTypeOK
<1>3. \A g \in Frames : Live(g)' => Live(g) /\ app.frame <= g
  BY <1>1 DEF Live, InOrder
<1>4. InOrder'
  BY <1>1 DEF InOrder
<1>5. Covered'
  BY <1>1, <1>3, RetirePreservesCovered
<1> QED BY <1>2, <1>4, <1>5 DEF RetireInv

(* set_config: from now on frames are submitted from the configured one    *)
(* on; with a changed binding no earlier one is left.                      *)
LEMMA SetConfigPreserves ==
  ASSUME RetireInv, SetConfig
  PROVE  RetireInv'
<1> USE DEF SetConfig
<1>1. ListTypeOK /\ InOrder /\ Covered
  BY DEF RetireInv
<1>2. /\ app.frame \in Frames /\ app.frame \in Nat /\ next \in Nat
      /\ app.frame >= next /\ app.changed \in BOOLEAN
      /\ queued \subseteq Nat
  BY <1>1, FramesAssumption DEF ListTypeOK, InOrder
<1>3. ListTypeOK'
  BY <1>1, <1>2 DEF ListTypeOK
<1>4. \A g \in Frames : Live(g)' => Live(g)
  <2> SUFFICES ASSUME NEW g \in Frames, Live(g)'
               PROVE  Live(g)
    OBVIOUS
  <2>1. g \in queued \/ g >= app.frame \/ (gen.pc = "generate" /\ gen.frame = g)
    BY DEF Live
  <2>2. g \in Nat /\ (g >= app.frame => g >= next)
    BY <1>2, FramesAssumption
  <2> QED BY <2>1, <2>2 DEF Live
<1>5. InOrder'
  <2>1. \A f \in queued' : f <= next'
    BY <1>1, <1>2 DEF InOrder
  <2>2. gen'.pc # "idle" => gen'.frame <= next' /\ \A f \in queued' : gen'.frame <= f
    <3> SUFFICES ASSUME gen.pc # "idle"
                 PROVE  gen.frame <= app.frame /\ \A f \in queued : gen.frame <= f
      OBVIOUS
    <3>1. gen.frame \in Nat /\ gen.frame <= next /\ \A f \in queued : gen.frame <= f
      BY <1>1, FramesAssumption DEF InOrder, ListTypeOK
    <3> QED BY <1>2, <3>1
  <2>3. ~(app'.pc = "published")
    OBVIOUS
  <2>4. app'.pc = "retire" => \A f \in Frames : Live(f)' => app'.frame <= f
    <3> SUFFICES ASSUME app'.pc = "retire", NEW f \in Frames, Live(f)'
                 PROVE  app'.frame <= f
      OBVIOUS
    <3>1. app.changed /\ Drained /\ app'.frame = app.frame
      BY <1>2
    <3> QED BY <1>2, <3>1, FramesAssumption DEF Live, Drained
  <2> QED BY <1>1, <2>1, <2>2, <2>3, <2>4 DEF InOrder
<1>6. Covered'
  BY <1>1, <1>4, CoveredUnchanged
<1> QED BY <1>3, <1>5, <1>6 DEF RetireInv

(* A Present submits the frame configured last. *)
LEMMA PresentPreserves ==
  ASSUME RetireInv, Present
  PROVE  RetireInv'
<1> USE DEF Present
<1>1. ListTypeOK /\ InOrder /\ Covered /\ next \in Nat
  BY DEF RetireInv, ListTypeOK
<1>2. ListTypeOK'
  BY <1>1 DEF ListTypeOK
<1>3. \A g \in Frames : Live(g)' => Live(g)
  BY <1>1 DEF Live
<1>4. InOrder'
  BY <1>1, <1>3 DEF InOrder
<1>5. Covered'
  BY <1>1, <1>3, CoveredUnchanged
<1> QED BY <1>2, <1>4, <1>5 DEF RetireInv

(* The presenter takes the oldest presented frame. *)
LEMMA GenerationCallbackPreserves ==
  ASSUME RetireInv, NEW f \in Frames, GenerationCallback(f)
  PROVE  RetireInv'
<1> USE DEF GenerationCallback
<1>1. ListTypeOK /\ InOrder /\ Covered
  BY DEF RetireInv
<1>2. ListTypeOK'
  BY <1>1 DEF ListTypeOK
<1>3. \A g \in Frames : Live(g)' => Live(g)
  BY <1>1 DEF Live
<1>4. InOrder'
  BY <1>1, <1>3 DEF InOrder
<1>5. Covered'
  BY <1>1, <1>3, CoveredUnchanged
<1> QED BY <1>2, <1>4, <1>5 DEF RetireInv

(* The application generates a frame itself, at or above the last one. *)
LEMMA DirectDispatchPreserves ==
  ASSUME RetireInv, NEW f \in Frames, DirectDispatch(f)
  PROVE  RetireInv'
<1> USE DEF DirectDispatch
<1>1. ListTypeOK /\ InOrder /\ Covered /\ next \in Nat /\ f \in Nat /\ queued = {}
  BY FramesAssumption DEF RetireInv, ListTypeOK, InOrder
<1>2. ListTypeOK'
  BY <1>1 DEF ListTypeOK
<1>3. \A g \in Frames : Live(g)' => Live(g)
  BY <1>1, FramesAssumption DEF Live
<1>4. InOrder'
  BY <1>1, <1>3 DEF InOrder
<1>5. Covered'
  BY <1>1, <1>3, CoveredUnchanged
<1> QED BY <1>2, <1>4, <1>5 DEF RetireInv

(* The remaining steps of Configure leave the lists and the live frames.   *)
LEMMA OtherConfigurePreserves ==
  ASSUME RetireInv,
         DirectConfigured \/ TurnOff \/ OffFails
  PROVE  RetireInv'
<1> USE DEF DirectConfigured, TurnOff, OffFails
<1>1. ListTypeOK /\ InOrder /\ Covered
  BY DEF RetireInv
<1>2. ListTypeOK'
  <2>1. CASE DirectConfigured
    BY <1>1, <2>1 DEF ListTypeOK
  <2>2. CASE TurnOff
    BY <1>1, <2>2 DEF ListTypeOK
  <2>3. CASE OffFails
    BY <1>1, <2>3 DEF ListTypeOK
  <2> QED BY <2>1, <2>2, <2>3
<1>3. \A g \in Frames : Live(g)' => Live(g)
  BY DEF Live
<1>4. InOrder'
  BY <1>1 DEF InOrder
<1>5. Covered'
  BY <1>1, <1>3, CoveredUnchanged
<1> QED BY <1>2, <1>4, <1>5 DEF RetireInv

(* A dispatched frame is live no more. *)
LEMMA DispatchedPreserves ==
  ASSUME RetireInv, Dispatched
  PROVE  RetireInv'
<1> USE DEF Dispatched
<1>1. ListTypeOK /\ InOrder /\ Covered /\ gen.frame \in Frames
  BY DEF RetireInv, ListTypeOK
<1>2. gen' = [pc |-> "retire", frame |-> gen.frame] \/ gen' = [pc |-> "idle"]
  BY <1>1 DEF ListTypeOK
<1>3. ListTypeOK'
  BY <1>1, <1>2 DEF ListTypeOK
<1>4. \A g \in Frames : Live(g)' => Live(g)
  BY <1>2 DEF Live
<1>5. InOrder'
  BY <1>1, <1>2, <1>4 DEF InOrder
<1>6. Covered'
  BY <1>1, <1>4, CoveredUnchanged
<1> QED BY <1>3, <1>5, <1>6 DEF RetireInv

(* Every step keeps the invariant. *)
LEMMA NextRetireInv ==
  ASSUME RetireInv, [ListNext]_listVars
  PROVE  RetireInv'
<1>1. CASE Configure
  BY <1>1, SnapshotPreserves, SetConfigPreserves, RetireBindingPreserves,
     ClearPreserves, OtherConfigurePreserves DEF Configure
<1>2. CASE Generate
  BY <1>2, PresentPreserves, GenerationCallbackPreserves,
    DirectDispatchPreserves,
     DispatchedPreserves, GeneratedPreserves DEF Generate
<1>3. CASE UNCHANGED listVars
  BY <1>3 DEF listVars, RetireInv, ListTypeOK, InOrder,
    Covered, Live, Stored
<1> QED BY <1>1, <1>2, <1>3 DEF ListNext

(* Covered is what makes retirement invisible: a newest stored             *)
(* configuration below a live frame is a newest one of the whole history.  *)
LEMMA CoveredInvisible == RetireInv => RetirementInvisible
<1> SUFFICES ASSUME RetireInv, NEW f \in Frames, Live(f)
             PROVE  /\ Selected(configs, f) = Selected(every, f)
                    /\ \A g \in Selected(configs, f) : configs[g] = every[g]
  BY DEF RetirementInvisible
<1>1. /\ Covered /\ f \in Nat
      /\ Stored(configs) \subseteq Nat /\ Stored(every) \subseteq Nat
  BY FramesAssumption DEF RetireInv, Stored
<1>2. Stored(configs) \subseteq Stored(every)
  BY <1>1 DEF Covered, Stored
<1>3. \A g \in Stored(every) \ Stored(configs) :
        \E h \in Stored(configs) : g < h /\ h <= f
  BY <1>1 DEF Covered
<1>4. ASSUME NEW g \in Selected(configs, f) PROVE g \in Selected(every, f)
  <2>1. g \in Stored(configs) /\ g <= f /\ \A h \in Stored(configs) : h <= f => h <= g
    BY <1>4 DEF Selected
  <2>2. ASSUME NEW h \in Stored(every), h <= f PROVE h <= g
    <3>1. CASE h \in Stored(configs)
      BY <2>1, <2>2, <3>1
    <3>2. CASE h \notin Stored(configs)
      <4>1. PICK i \in Stored(configs) : h < i /\ i <= f
        BY <1>3, <3>2
      <4> QED BY <1>1, <2>1, <4>1
    <3> QED BY <3>1, <3>2
  <2> QED BY <1>2, <2>1, <2>2 DEF Selected
<1>5. ASSUME NEW g \in Selected(every, f) PROVE g \in Selected(configs, f)
  <2>1. g \in Stored(every) /\ g <= f /\ \A h \in Stored(every) : h <= f => h <= g
    BY <1>5 DEF Selected
  <2>2. g \in Stored(configs)
    <3> SUFFICES ASSUME g \notin Stored(configs) PROVE FALSE
      OBVIOUS
    <3>1. PICK i \in Stored(configs) : g < i /\ i <= f
      BY <1>3, <2>1
    <3> QED BY <1>1, <1>2, <2>1, <3>1
  <2> QED BY <1>2, <2>1, <2>2 DEF Selected
<1>6. \A g \in Selected(configs, f) : configs[g] = every[g]
  BY <1>1 DEF Covered, Selected
<1> QED BY <1>4, <1>5, <1>6

(* The list of frame configurations is typed and never exceeds its bound   *)
(* (snapshot_frame_config), and the retirement invariant holds always.     *)
THEOREM RetireInvariant == ListSpec => []RetireInv
<1>1. ListInit => RetireInv
  BY InitRetireInv
<1>2. RetireInv /\ [ListNext]_listVars => RetireInv'
  BY NextRetireInv
<1> QED BY <1>1, <1>2, PTL DEF ListSpec

(* Retirement never changes what a frame that can still be generated       *)
(* selects (retire_frame_configs against find_frame_config).               *)
THEOREM RetirementIsInvisible == ListSpec => []RetirementInvisible
<1>1. ListSpec => []RetireInv
  BY RetireInvariant
<1> QED BY <1>1, CoveredInvisible, PTL

(* Retiring up to a frame at or below f does not change what f selects. *)
LEMMA RetiredChoice ==
  ASSUME NEW cs \in ConfigList, NEW k \in Frames, NEW f \in Frames, k <= f
  PROVE  /\ Selected(Retired(cs, k), f) = Selected(cs, f)
         /\ \A g \in Selected(cs, f) : Retired(cs, k)[g] = cs[g]
<1>1. PICK rs : rs = Retired(cs, k)
  OBVIOUS
<1>2. /\ Stored(rs) \subseteq Stored(cs)
      /\ \A g \in Stored(rs) : rs[g] = cs[g]
      /\ \A g \in Stored(cs) \ Stored(rs) : \E h \in Stored(rs) : g < h /\ h <= k
  BY <1>1, RetiredFacts, FramesAssumption
<1>3. Stored(cs) \subseteq Nat /\ k \in Nat /\ f \in Nat
  BY FramesAssumption DEF Stored
<1>4. ASSUME NEW g \in Selected(cs, f) PROVE g \in Selected(rs, f)
  <2>1. g \in Stored(cs) /\ g <= f /\ \A h \in Stored(cs) : h <= f => h <= g
    BY <1>4 DEF Selected
  <2>2. g \in Stored(rs)
    BY <1>2, <1>3, <2>1
  <2> QED BY <1>2, <2>1, <2>2 DEF Selected
<1>5. ASSUME NEW g \in Selected(rs, f) PROVE g \in Selected(cs, f)
  <2>1. g \in Stored(rs) /\ g <= f /\ \A h \in Stored(rs) : h <= f => h <= g
    BY <1>5 DEF Selected
  <2>2. ASSUME NEW h \in Stored(cs), h <= f PROVE h <= g
    <3>1. CASE h \in Stored(rs)
      BY <2>1, <2>2, <3>1
    <3>2. CASE h \notin Stored(rs)
      <4>1. PICK i \in Stored(rs) : h < i /\ i <= k
        BY <1>2, <3>2
      <4> QED BY <1>2, <1>3, <2>1, <4>1
    <3> QED BY <3>1, <3>2
  <2> QED BY <1>2, <2>1, <2>2 DEF Selected
<1>6. \A g \in Selected(rs, f) : rs[g] = cs[g]
  BY <1>2 DEF Selected
<1> QED BY <1>1, <1>4, <1>5, <1>6

(* What frame f selects, as Choice says it, depends on the list only. *)
LEMMA SameChoice ==
  ASSUME NEW f, Selected(configs', f) = Selected(configs, f),
         \A g \in Selected(configs, f) : configs'[g] = configs[g]
  PROVE  Choice(f)' = Choice(f)
<1>1. Selected(configs, f)' = Selected(configs', f)
  BY DEF Selected, Stored
<1> QED BY <1>1 DEF Choice

(* One step, for PendingSurvives. *)
LEMMA ChoiceStep ==
  ASSUME RetireInv, [ListNext]_listVars, NEW f \in Unselected,
         f \in Unselected', ~direct
  PROVE  Choice(f)' = Choice(f) \/ (app'.pc = "published" /\ app'.frame = f)
<1>1. /\ configs \in ConfigList /\ next \in Nat /\ f \in Frames /\ f <= next /\ Live(f)
      /\ ~Drained
  BY DEF RetireInv, ListTypeOK, InOrder, Unselected,
    Live, Drained
<1>2. CASE configs' = configs
  <2>1. Choice(f)' = Choice(f)
    BY <1>2, SameChoice
  <2> QED BY <2>1
<1>3. ASSUME NEW g \in Frames, NEW r \in Resources, NEW changed \in BOOLEAN,
             SnapshotFrameConfig(g, r, changed), g # f
      PROVE  Choice(f)' = Choice(f)
  <2>1. /\ \A h \in Frames : h # g => configs'[h] = configs[h]
        /\ g > f /\ f \in Nat /\ Frames \subseteq Nat
    BY <1>1, <1>3, FramesAssumption DEF SnapshotFrameConfig, Publish,
      ConfigList
  <2>2. \A h \in Frames : h <= f => (h \in Stored(configs') <=> h \in Stored(configs))
    BY <2>1 DEF Stored
  <2>3. Selected(configs', f) = Selected(configs, f)
    <3>1. Stored(configs') \subseteq Frames /\ Stored(configs) \subseteq Frames
      BY DEF Stored
    <3> QED BY <2>2, <3>1 DEF Selected
  <2>4. \A h \in Selected(configs, f) : configs'[h] = configs[h]
    BY <2>1 DEF Selected, Stored
  <2> QED BY <2>3, <2>4, SameChoice
<1>4. ASSUME NEW k \in Frames, k <= f, configs' = Retired(configs, k)
      PROVE  Choice(f)' = Choice(f)
  BY <1>1, <1>4, RetiredChoice, SameChoice
<1>5. CASE RetireBinding
  <2>1. app.frame \in Frames /\ app.frame <= f /\ configs' = Retired(configs, app.frame)
    BY <1>1, <1>5 DEF RetireBinding, RetireInv, ListTypeOK,
      InOrder
  <2> QED BY <1>4, <2>1
<1>6. CASE Generated
  <2>1. f \in queued
    BY <1>6 DEF Generated, Unselected
  <2>2. gen.frame \in Frames /\ gen.frame <= f /\ configs' = Retired(configs, gen.frame)
    BY <1>6, <2>1 DEF Generated, RetireInv, ListTypeOK,
      InOrder
  <2> QED BY <1>4, <2>2
<1>7. CASE Clear
  BY <1>1, <1>7 DEF Clear, PresentsDrained
<1>8. ASSUME NEW g \in Frames, NEW r \in Resources, NEW changed \in BOOLEAN,
             SnapshotFrameConfig(g, r, changed)
      PROVE  Choice(f)' = Choice(f) \/ (app'.pc = "published" /\ app'.frame = f)
  <2>1. app'.pc = "published" /\ app'.frame = g
    BY <1>8 DEF SnapshotFrameConfig
  <2> QED BY <1>3, <1>8, <2>1
<1>9. CASE \/ SetConfig \/ DirectConfigured \/ TurnOff \/ OffFails
           \/ Present \/ Dispatched \/ UNCHANGED listVars
           \/ \E g \in Frames : GenerationCallback(g) \/ DirectDispatch(g)
  BY <1>2, <1>9 DEF SetConfig, DirectConfigured, TurnOff,
    OffFails, Present, Dispatched,
                    GenerationCallback, DirectDispatch, listVars
<1> QED BY <1>5, <1>6, <1>7, <1>8, <1>9 DEF ListNext, Configure,
      Generate

(* A presented frame keeps the configuration it will select until it is    *)
(* generated, unless that very frame is configured anew: later Configure   *)
(* calls, retirements and clearing never reach it (main.c:430).            *)
THEOREM PendingKept == ListSpec => PendingSurvives
<1>1. RetireInv /\ [ListNext]_listVars =>
        [\A f \in Unselected \cap Unselected' :
           \/ direct
           \/ Choice(f)' = Choice(f)
           \/ app'.pc = "published" /\ app'.frame = f]_listVars
  BY ChoiceStep
<1>2. ListSpec => []RetireInv
  BY RetireInvariant
<1> QED BY <1>1, <1>2, PTL DEF ListSpec, PendingSurvives
=============================================================================
