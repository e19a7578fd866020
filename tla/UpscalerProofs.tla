--------------------------- MODULE UpscalerProofs ---------------------------
(***************************************************************************)
(* Proofs about Upscaler, for any sizes, formats, limits and numbers of    *)
(* switches: the cache of backends is coherent, every recorded frame fits  *)
(* its scaler, and the history of an earlier run is never continued.       *)
(***************************************************************************)
EXTENDS Upscaler, SequenceTheorems, TLAPS

USE SizeAssumption, SlotAssumption, NoneAssumption

-----------------------------------------------------------------------------
(* Types. *)

Positions == 0..(InactiveSlots - 1)
Types ==
  /\ current \in Backend \cup {None}
  /\ inactive \in [Positions -> Backend \cup {None}]
  /\ nextEviction \in Positions
  /\ needsReset \in BOOLEAN /\ retired \in BOOLEAN /\ disturbed \in BOOLEAN
  /\ scalers \in [Generations -> Scaler \cup {None}]
  /\ recorded \in Seq(PreparedFrame)
  /\ run \in 0..MaxRuns
  /\ current \in Backend => run > 0

(* The output of the temporal scaler is between the input and its largest  *)
(* scale.                                                                  *)
LEMMA TemporalFacts ==
  ASSUME NEW out \in Outputs, NEW in \in Inputs
  PROVE  /\ Temporal(out, in) \in Nat
         /\ Temporal(out, in) <= MaxScale * in
         /\ in <= out => in <= Temporal(out, in)
<1>1. out \in Nat /\ in \in Nat /\ MaxScale \in Nat /\ MaxScale >= 1
  OBVIOUS
<1>2. MaxScale * in \in Nat /\ in <= MaxScale * in
  BY <1>1
<1> QED BY <1>1, <1>2 DEF Temporal

(* Releasing a frame closes the gap. *)
LEMMA WithoutFacts ==
  ASSUME recorded \in Seq(PreparedFrame), NEW i \in 1..Len(recorded)
  PROVE  /\ Without(i) \in Seq(PreparedFrame)
         /\ Len(Without(i)) = Len(recorded) - 1
         /\ \A k \in 1..(Len(recorded) - 1) :
              Without(i)[k] = IF k < i THEN recorded[k] ELSE recorded[k + 1]
<1> DEFINE a == SubSeq(recorded, 1, i - 1)
           b == SubSeq(recorded, i + 1, Len(recorded))
           n == Len(recorded)
<1>0. n \in Nat
  OBVIOUS
<1>1. /\ a \in Seq(PreparedFrame) /\ Len(a) = i - 1
      /\ \A k \in 1..(i - 1) : a[k] = recorded[k]
  BY <1>0, SubSeqProperties
<1>2. /\ b \in Seq(PreparedFrame) /\ Len(b) = n - i
      /\ \A k \in 1..(n - i) : b[k] = recorded[i + k]
  BY <1>0, SubSeqProperties
<1>3. Without(i) = a \o b
  BY DEF Without
<1> HIDE DEF a, b
<1>4. /\ a \o b \in Seq(PreparedFrame) /\ Len(a \o b) = Len(a) + Len(b)
      /\ \A k \in 1..(Len(a) + Len(b)) :
           (a \o b)[k] = IF k <= Len(a) THEN a[k] ELSE b[k - Len(a)]
  BY <1>1, <1>2, ConcatProperties
<1> QED BY <1>0, <1>1, <1>2, <1>3, <1>4

(* A scaler made anew for a frame. *)
LEMMA FreshFacts ==
  ASSUME NEW old \in Scaler \cup {None}, NEW out \in Outputs, NEW in \in Inputs,
         NEW fmt \in Formats, in <= out
  PROVE  LET s == FreshScaler(old, out, in, fmt)
         IN /\ s \in Scaler
            /\ s.fresh = TRUE
            /\ Matches(s, out, in, fmt)
            /\ s.capacity <= s.output
<1>1. /\ Capacity(old, out, in) \in Inputs
      /\ in <= Capacity(old, out, in)
      /\ Capacity(old, out, in) <= Temporal(out, in)
  <2>1. /\ in \in Nat /\ Temporal(out, in) \in Nat /\ in <= Temporal(out, in)
        /\ old # None => old.capacity \in Inputs /\ old.capacity \in Nat
    BY TemporalFacts DEF Scaler
  <2> QED BY <2>1 DEF Capacity
<1> QED BY <1>1, TemporalFacts DEF FreshScaler, Scaler, Matches

(* A scaler is dropped when nothing refers to it any more. *)
LEMMA KeptFacts ==
  ASSUME NEW t, NEW g \in Generations
  PROVE  Kept(t)[g] = IF Referenced(g)' THEN t[g] ELSE None
BY DEF Kept

-----------------------------------------------------------------------------
(* The cache of backends. *)

(* A current backend c and inactive ones q. *)
Coherent(c, q) ==
  /\ c # None => c.made = c.output
  /\ c = None => \A i \in Positions : q[i] = None
  /\ \A i \in Positions : q[i] # None =>
       /\ q[i].made = q[i].output
       /\ q[i].output # c.output
       /\ \A j \in Positions : q[j] # None /\ q[i].output = q[j].output => i = j

CacheInv == Coherent(current, inactive)

(* Selecting a backend for out keeps the types and the cache coherent, and *)
(* brings in no scaler that was not referred to.                           *)
LEMMA SelectionFacts ==
  ASSUME Types, CacheInv, NEW out \in Outputs, NEW sel \in Selections(out)
  PROVE  /\ sel.current \in Backend /\ sel.current.output = out
         /\ sel.inactive \in [Positions -> Backend \cup {None}]
         /\ sel.next \in Positions
         /\ Coherent(sel.current, sel.inactive)
         /\ ~NewGeneration(out) => sel.current = current
         /\ \A g \in Generations :
              Held(sel.current, g) \/ (\E i \in Positions : Held(sel.inactive[i], g)) =>
                Referenced(g)
<1>0. DOMAIN inactive = Positions
  BY DEF Types
<1>1. CASE ~NewGeneration(out)
  <2>1. sel = [current |-> current, inactive |-> inactive, next |-> nextEviction]
    BY <1>1 DEF Selections
  <2>2. current # None /\ current.output = out
    BY <1>1 DEF NewGeneration
  <2> QED BY <1>0, <2>1, <2>2 DEF Types, CacheInv, Referenced, Slots
<1>2. CASE NewGeneration(out) /\ CachedAt(out) # {}
  <2>1. PICK i \in CachedAt(out) : sel = Swapped(i)
    BY <1>2 DEF Selections
  <2>2. i \in Positions /\ inactive[i] \in Backend /\ inactive[i].output = out
    BY <1>0 DEF CachedAt, Slots, Types
  <2>3. current \in Backend
    BY <2>2 DEF CacheInv, Coherent, Types
  <2>4. /\ sel.current = inactive[i] /\ sel.inactive = [inactive EXCEPT ![i] = current]
        /\ sel.next = nextEviction
    BY <2>1 DEF Swapped
  <2>5. Coherent(sel.current, sel.inactive)
    BY <2>2, <2>3, <2>4 DEF CacheInv, Coherent, Types
  <2>6. \A j \in Positions : sel.inactive[j] = IF j = i THEN current ELSE inactive[j]
    BY <2>4 DEF Types
  <2>7. \A g \in Generations :
          Held(sel.current, g) \/ (\E j \in Positions : Held(sel.inactive[j], g)) =>
            Referenced(g)
    BY <1>0, <2>2, <2>4, <2>6 DEF Referenced, Slots
  <2> QED BY <1>2, <2>2, <2>3, <2>4, <2>5, <2>7 DEF Types
<1>3. CASE NewGeneration(out) /\ CachedAt(out) = {}
  <2> DEFINE b == [output |-> out, made |-> out, scaler |-> None]
  <2>1. sel = Created(out)
    BY <1>3 DEF Selections
  <2>2. b \in Backend /\ b.output = out /\ b.made = out /\ \A g \in Generations : ~Held(b, g)
    BY DEF Backend, Held
  <2>3. \A i \in Positions : inactive[i] # None => inactive[i].output # out
    BY <1>0, <1>3 DEF CachedAt, Slots
  <2>4. CASE current = None
    <3>1. sel.current = b /\ sel.inactive = inactive /\ sel.next = nextEviction
      BY <2>1, <2>4 DEF Created
    <3> HIDE DEF b
    <3> QED BY <1>0, <1>3, <2>2, <2>3, <2>4, <3>1 DEF Types, CacheInv,
          Coherent, Referenced, Slots
  <2>5. CASE current # None
    <3>1. /\ sel.current = b /\ sel.inactive = [inactive EXCEPT ![nextEviction] = current]
          /\ sel.next = (nextEviction + 1) % InactiveSlots
      BY <2>1, <2>5 DEF Created
    <3> HIDE DEF b
    <3>2. \A j \in Positions :
            sel.inactive[j] = IF j = nextEviction THEN current ELSE inactive[j]
      BY <3>1 DEF Types
    <3>3. current \in Backend /\ current.output # out
      BY <1>3, <2>5 DEF Types, NewGeneration
    <3>4. Coherent(sel.current, sel.inactive)
      BY <2>2, <2>3, <3>1, <3>2, <3>3 DEF CacheInv, Coherent, Types
    <3>5. sel.next \in Positions
      BY <3>1 DEF Types, Positions
    <3>6. \A g \in Generations :
            Held(sel.current, g) \/ (\E j \in Positions : Held(sel.inactive[j], g)) =>
              Referenced(g)
      BY <1>0, <2>2, <3>1, <3>2 DEF Referenced, Slots
    <3> QED BY <1>3, <2>2, <3>1, <3>3, <3>4, <3>5, <3>6 DEF Types
  <2> QED BY <2>4, <2>5
<1> QED BY <1>1, <1>2, <1>3

(* Selecting a backend, and noting the scaler g in it, keeps types and     *)
(* coherence.                                                              *)
LEMMA SelectStep ==
  ASSUME Types, CacheInv, NEW out \in Outputs, NEW sel \in Selections(out),
         Select(out, sel), NEW g \in Generations,
         current' = sel.current \/ current' = [sel.current EXCEPT !.scaler = g]
  PROVE  /\ current' \in Backend /\ current'.output = out
         /\ inactive' \in [Positions -> Backend \cup {None}]
         /\ nextEviction' \in Positions
         /\ run' \in 0..MaxRuns /\ run' > 0
         /\ ~NewGeneration(out) => run' = run
         /\ CacheInv'
<1>1. /\ sel.current \in Backend /\ sel.current.output = out
      /\ sel.inactive \in [Positions -> Backend \cup {None}]
      /\ sel.next \in Positions
      /\ Coherent(sel.current, sel.inactive)
  BY SelectionFacts
<1>2. inactive' = sel.inactive /\ nextEviction' = sel.next
  BY DEF Select
<1>3. run' \in 0..MaxRuns /\ run' > 0 /\ (~NewGeneration(out) => run' = run)
  BY DEF Select, Types, NewGeneration
<1>4. [sel.current EXCEPT !.scaler = g] \in Backend
  BY <1>1 DEF Backend
<1>5. /\ [sel.current EXCEPT !.scaler = g].output = sel.current.output
      /\ [sel.current EXCEPT !.scaler = g].made = sel.current.made
  BY <1>1 DEF Backend
<1>6. /\ current' \in Backend /\ current'.output = sel.current.output
      /\ current'.made = sel.current.made
  BY <1>1, <1>4, <1>5
<1>7. Coherent(current', sel.inactive)
  BY <1>1, <1>6 DEF Coherent
<1> QED BY <1>1, <1>2, <1>3, <1>6, <1>7 DEF CacheInv, Coherent, Positions

-----------------------------------------------------------------------------
(* The scalers. *)

(* A scaler's capacity is within its output, and every recorded frame      *)
(* still has a scaler that matches it.                                     *)
Bounded(sc) == \A g \in Generations : sc[g] # None => sc[g].capacity <= sc[g].output
Served(f, sc) == sc[f.scaler] # None /\ Matches(sc[f.scaler], f.output, f.input, f.format)
ScalerInv ==
  /\ Bounded(scalers)
  /\ \A i \in 1..Len(recorded) : Served(recorded[i], scalers)

Inv == Types /\ CacheInv /\ ScalerInv

(* ensureScaler leaves every referenced scaler as it is, and the one it    *)
(* settles on matches the frame.                                           *)
Ensured(b, g, t) ==
  /\ t \in [Generations -> Scaler \cup {None}]
  /\ scalers' = Kept(t)
  /\ Bounded(t)
  /\ t[g] # None
  /\ \A h \in Generations : h # g \/ Referenced(g) => t[h] = scalers[h]
  /\ (g = b.scaler /\ t = scalers) \/ (~Referenced(g) /\ t[g].fresh)

(* What ensuring a backend returns and keeps. *)
LEMMA EnsureFacts ==
  ASSUME Inv, NEW b \in Backend, NEW g \in Generations, NEW out \in Outputs,
         NEW in \in Inputs, NEW fmt \in Formats, in <= out,
         EnsureScaler(b, g, out, in, fmt)
  PROVE  \E t : Ensured(b, g, t) /\ Matches(t[g], out, in, fmt)
<1> DEFINE old == IF b.scaler = None THEN None ELSE scalers[b.scaler]
           t == [scalers EXCEPT ![g] = FreshScaler(old, out, in, fmt)]
<1>0. b.scaler \in Generations \cup {None} /\ old \in Scaler \cup {None}
  BY DEF Backend, Inv, Types
<1>1. CASE old # None /\ Matches(old, out, in, fmt)
  <2>1. g = b.scaler /\ scalers' = Kept(scalers)
    BY <1>1 DEF EnsureScaler
  <2> QED BY <1>0, <1>1, <2>1 DEF Ensured, Inv, Types, ScalerInv
<1>2. CASE ~(old # None /\ Matches(old, out, in, fmt))
  <2>1. ~Referenced(g) /\ scalers' = Kept(t)
    BY <1>2 DEF EnsureScaler
  <2> HIDE DEF old
  <2>2. /\ FreshScaler(old, out, in, fmt) \in Scaler
        /\ FreshScaler(old, out, in, fmt).fresh = TRUE
        /\ Matches(FreshScaler(old, out, in, fmt), out, in, fmt)
        /\ FreshScaler(old, out, in, fmt).capacity <= FreshScaler(old, out, in, fmt).output
    BY <1>0, FreshFacts
  <2>3. /\ t \in [Generations -> Scaler \cup {None}]
        /\ t[g] = FreshScaler(old, out, in, fmt)
        /\ \A h \in Generations : h # g => t[h] = scalers[h]
    BY <2>2 DEF Inv, Types
  <2> HIDE DEF t
  <2>4. Bounded(t)
    BY <2>2, <2>3 DEF Bounded, Inv, ScalerInv
  <2> QED BY <2>1, <2>2, <2>3, <2>4 DEF Ensured
<1> QED BY <1>1, <1>2

(* What is kept of a well-typed, bounded t is well typed and bounded, and  *)
(* a frame still recorded is served if t served it.                        *)
LEMMA KeptStep ==
  ASSUME NEW t \in [Generations -> Scaler \cup {None}], Bounded(t),
         recorded' \in Seq(PreparedFrame), scalers' = Kept(t),
         \A i \in 1..Len(recorded') : Served(recorded'[i], t)
  PROVE  /\ scalers' \in [Generations -> Scaler \cup {None}]
         /\ ScalerInv'
         /\ \A i \in 1..Len(recorded') :
              scalers'[recorded'[i].scaler] = t[recorded'[i].scaler]
<1>1. scalers' \in [Generations -> Scaler \cup {None}]
  BY DEF Kept
<1>2. \A g \in Generations : scalers'[g] = IF Referenced(g)' THEN t[g] ELSE None
  BY DEF Kept
<1>3. Bounded(scalers')
  BY <1>2 DEF Bounded
<1>4. ASSUME NEW i \in 1..Len(recorded')
      PROVE  /\ scalers'[recorded'[i].scaler] = t[recorded'[i].scaler]
             /\ Served(recorded'[i], scalers')
  <2>1. recorded'[i] \in PreparedFrame
    BY <1>4
  <2>2. PICK g \in Generations : g = recorded'[i].scaler
    BY <2>1 DEF PreparedFrame
  <2>3. Referenced(g)'
    BY <1>4, <2>2 DEF Referenced
  <2>4. scalers'[recorded'[i].scaler] = t[recorded'[i].scaler]
    BY <1>2, <2>2, <2>3
  <2> QED BY <1>4, <2>4 DEF Served
<1> QED BY <1>1, <1>3, <1>4 DEF ScalerInv, Bounded, Served

(* Encoding a frame changes nothing of its scaler but its history, and no  *)
(* other scaler.                                                           *)
LEMMA EncodedFacts ==
  ASSUME Inv, NEW i \in 1..Len(recorded), NEW ok \in BOOLEAN
  PROVE  LET f == recorded[i]
             t == Encoded(f, ok)
         IN /\ t \in [Generations -> Scaler \cup {None}]
            /\ Bounded(t)
            /\ \A k \in 1..Len(recorded) : Served(recorded[k], t)
            /\ f.scaler \in Generations /\ f.input \in Inputs
            /\ \A g \in Generations : g # f.scaler => t[g] = scalers[g]
            /\ t[f.scaler].history = f.input /\ t[f.scaler].historyRun = f.run
            /\ ok => t[f.scaler].fresh = FALSE /\ t[f.scaler].last = f.input
<1> DEFINE f == recorded[i]
           s == scalers[f.scaler]
           u == [s EXCEPT !.history = f.input, !.historyRun = f.run]
           n == [u EXCEPT !.fresh = FALSE, !.last = f.input]
           e == IF ok THEN n ELSE u
           t == Encoded(f, ok)
<1>1. f \in PreparedFrame
  BY DEF Inv, Types
<1>2. f.scaler \in Generations /\ f.input \in Inputs /\ f.run \in 0..MaxRuns
  BY <1>1 DEF PreparedFrame
<1>3. s \in Scaler
  <2>1. s # None
    BY DEF Inv, ScalerInv, Served
  <2> QED BY <1>2, <2>1 DEF Inv, Types
<1>4. /\ e \in Scaler
      /\ e.capacity = s.capacity /\ e.output = s.output /\ e.format = s.format
      /\ e.history = f.input /\ e.historyRun = f.run
      /\ ok => e.fresh = FALSE /\ e.last = f.input
  <2> HIDE DEF s, f
  <2>1. /\ u \in Scaler
        /\ u.capacity = s.capacity /\ u.output = s.output /\ u.format = s.format
        /\ u.history = f.input /\ u.historyRun = f.run
    BY <1>2, <1>3 DEF Scaler
  <2> HIDE DEF u
  <2>2. /\ n \in Scaler
        /\ n.capacity = u.capacity /\ n.output = u.output /\ n.format = u.format
        /\ n.history = u.history /\ n.historyRun = u.historyRun
        /\ n.fresh = FALSE /\ n.last = f.input
    BY <1>2, <2>1 DEF Scaler
  <2> HIDE DEF n
  <2>3. CASE ok
    BY <2>1, <2>2, <2>3
  <2>4. CASE ~ok
    BY <2>1, <2>4
  <2> QED BY <2>3, <2>4
<1>5. t = [scalers EXCEPT ![f.scaler] = e]
  BY DEF Encoded
<1> HIDE DEF e, t, f, s
<1>6. /\ t \in [Generations -> Scaler \cup {None}] /\ t[f.scaler] = e
      /\ \A g \in Generations : g # f.scaler => t[g] = scalers[g]
  BY <1>2, <1>4, <1>5 DEF Inv, Types
<1>7. Bounded(t)
  BY <1>2, <1>3, <1>4, <1>6 DEF Bounded, Inv, ScalerInv, s
<1>8. ASSUME NEW k \in 1..Len(recorded)
      PROVE  Served(recorded[k], t)
  <2>1. recorded[k] \in PreparedFrame /\ Served(recorded[k], scalers)
    BY <1>8 DEF Inv, ScalerInv, Types
  <2>2. recorded[k].scaler \in Generations
    BY <2>1 DEF PreparedFrame
  <2>3. CASE recorded[k].scaler = f.scaler
    <3>1. e # None
      BY <1>4
    <3> QED BY <1>4, <1>6, <2>1, <2>3, <3>1 DEF Served, Matches, s
  <2> QED BY <1>6, <2>1, <2>2, <2>3 DEF Served
<1> QED BY <1>2, <1>4, <1>6, <1>7, <1>8 DEF t, f

-----------------------------------------------------------------------------
(* One step lemma per action. *)

(* A dispatch that is refused before its backend is prepared. *)
LEMMA UnpreparedStep ==
  ASSUME Inv, NEW out \in Outputs, DispatchUnprepared(out)
  PROVE  Inv'
<1>1. PICK sel \in Selections(out) :
        /\ Select(out, sel)
        /\ current' = sel.current
        /\ needsReset' = PendingReset(out)
        /\ UNCHANGED <<retired, recorded, disturbed>>
        /\ scalers' = Kept(scalers)
  BY DEF DispatchUnprepared
<1>2. ScalerInv' /\ scalers' \in [Generations -> Scaler \cup {None}]
  <2>1. Bounded(scalers) /\ scalers \in [Generations -> Scaler \cup {None}]
    BY DEF Inv, Types, ScalerInv
  <2>2. recorded' \in Seq(PreparedFrame) /\ \A i \in 1..Len(recorded') : Served(recorded'[i], scalers)
    BY <1>1 DEF Inv, Types, ScalerInv
  <2> QED BY <1>1, <2>1, <2>2, KeptStep
<1>3. needsReset' \in BOOLEAN
  BY <1>1, Zenon DEF PendingReset, NewGeneration, Inv, Types
<1> QED BY <1>1, <1>2, <1>3, SelectStep, SelectionFacts DEF Inv, Types, Select,
      CacheInv

(* The destruction of a context. *)
LEMMA DestroyStep ==
  ASSUME Inv, Destroy
  PROVE  Inv'
<1>1. ScalerInv' /\ scalers' \in [Generations -> Scaler \cup {None}]
  <2>1. Bounded(scalers) /\ scalers \in [Generations -> Scaler \cup {None}]
    BY DEF Inv, Types, ScalerInv
  <2>2. recorded' \in Seq(PreparedFrame) /\ \A i \in 1..Len(recorded') : Served(recorded'[i], scalers)
    BY DEF Inv, Types, ScalerInv, Destroy
  <2> QED BY <2>1, <2>2, KeptStep DEF Destroy
<1>2. inactive' = [i \in Positions |-> None]
  BY DEF Destroy, Slots, Inv, Types
<1>3. CacheInv'
  BY <1>2 DEF Destroy, CacheInv, Coherent, Positions
<1>4. Types'
  BY <1>1, <1>2 DEF Destroy, Inv, Types, Positions
<1> QED BY <1>1, <1>3, <1>4 DEF Inv

(* A dispatch that prepares its backend and records nothing. *)
LEMMA UnrecordedStep ==
  ASSUME Inv, NEW out \in Outputs, NEW in \in Inputs, NEW fmt \in Formats, in <= out,
         DispatchUnrecorded(out, in, fmt)
  PROVE  Inv'
<1>1. PICK sel \in Selections(out), g \in Generations :
        /\ Select(out, sel)
        /\ current' = [sel.current EXCEPT !.scaler = g]
        /\ needsReset' = ResetAfterFailure(out)
        /\ UNCHANGED <<retired, recorded, disturbed>>
        /\ EnsureScaler(sel.current, g, out, in, fmt)
  BY DEF DispatchUnrecorded
<1>2. sel.current \in Backend
  BY SelectionFacts DEF Inv
<1>3. PICK t : Ensured(sel.current, g, t) /\ Matches(t[g], out, in, fmt)
  BY <1>1, <1>2, EnsureFacts
<1>4. ScalerInv' /\ scalers' \in [Generations -> Scaler \cup {None}]
  <2>1. Bounded(t) /\ t \in [Generations -> Scaler \cup {None}] /\ scalers' = Kept(t)
    BY <1>3 DEF Ensured
  <2>2. recorded' \in Seq(PreparedFrame)
    BY <1>1 DEF Inv, Types
  <2>3. ASSUME NEW i \in 1..Len(recorded)
        PROVE  Served(recorded[i], t)
    <3>1. recorded[i] \in PreparedFrame /\ Served(recorded[i], scalers)
      BY <2>3 DEF Inv, ScalerInv, Types
    <3>2. recorded[i].scaler \in Generations
      BY <3>1 DEF PreparedFrame
    <3>3. recorded[i].scaler = g => Referenced(g)
      BY DEF Referenced
    <3> QED BY <1>3, <3>1, <3>2, <3>3 DEF Ensured, Served
  <2>4. \A i \in 1..Len(recorded') : Served(recorded'[i], t)
    BY <1>1, <2>3
  <2> QED BY <2>1, <2>2, <2>4, KeptStep
<1>5. needsReset' \in BOOLEAN
  BY <1>1, Zenon DEF ResetAfterFailure, PendingReset, NewGeneration, Inv, Types
<1> QED BY <1>1, <1>4, <1>5, SelectStep DEF Inv, Types

(* A dispatch that is recorded. *)
LEMMA DispatchStep ==
  ASSUME Inv, NEW out \in Outputs, NEW in \in Inputs, NEW fmt \in Formats, in <= out,
         NEW r \in BOOLEAN, Dispatch(out, in, fmt, r)
  PROVE  Inv'
<1>1. PICK sel \in Selections(out), g \in Generations :
        /\ Select(out, sel)
        /\ current' = [sel.current EXCEPT !.scaler = g]
        /\ recorded' = Append(recorded,
             [scaler |-> g, input |-> in, output |-> out, format |-> fmt,
              reset |-> r \/ PendingReset(out), run |-> run'])
        /\ needsReset' = FALSE
        /\ EnsureScaler(sel.current, g, out, in, fmt)
        /\ UNCHANGED <<retired, disturbed>>
  BY DEF Dispatch
<1> DEFINE z == r \/ PendingReset(out)
           f == [scaler |-> g, input |-> in, output |-> out, format |-> fmt,
                 reset |-> z, run |-> run']
<1>2. sel.current \in Backend
  BY SelectionFacts DEF Inv
<1>3. PICK t : Ensured(sel.current, g, t) /\ Matches(t[g], out, in, fmt)
  BY <1>1, <1>2, EnsureFacts
<1>4. run' \in 1..MaxRuns
  BY <1>1, SelectStep DEF Inv
<1>5. z \in BOOLEAN
  BY Zenon
<1>6. recorded' = Append(recorded, f)
  BY <1>1
<1>7. /\ f \in PreparedFrame
      /\ f.scaler = g /\ f.input = in /\ f.output = out /\ f.format = fmt
  <2> HIDE DEF z
  <2> QED BY <1>4, <1>5 DEF PreparedFrame
<1> HIDE DEF f
<1>8. /\ recorded' \in Seq(PreparedFrame) /\ Len(recorded') = Len(recorded) + 1
      /\ Len(recorded) \in Nat
      /\ recorded'[Len(recorded) + 1] = f
      /\ \A i \in 1..Len(recorded) : recorded'[i] = recorded[i]
  BY <1>6, <1>7 DEF Inv, Types
<1>9. ScalerInv' /\ scalers' \in [Generations -> Scaler \cup {None}]
  <2>1. Bounded(t) /\ t \in [Generations -> Scaler \cup {None}] /\ scalers' = Kept(t)
    BY <1>3 DEF Ensured
  <2>3. ASSUME NEW i \in 1..Len(recorded)
        PROVE  Served(recorded[i], t)
    <3>1. recorded[i] \in PreparedFrame /\ Served(recorded[i], scalers)
      BY <2>3 DEF Inv, ScalerInv, Types
    <3>2. recorded[i].scaler \in Generations
      BY <3>1 DEF PreparedFrame
    <3>3. recorded[i].scaler = g => Referenced(g)
      BY DEF Referenced
    <3> QED BY <1>3, <3>1, <3>2, <3>3 DEF Ensured, Served
  <2>4. Served(f, t)
    BY <1>3, <1>7 DEF Ensured, Served
  <2>5. \A i \in 1..Len(recorded') : Served(recorded'[i], t)
    BY <1>8, <2>3, <2>4
  <2> QED BY <1>8, <2>1, <2>5, KeptStep
<1> QED BY <1>1, <1>8, <1>9, SelectStep DEF Inv, Types

(* A frame leaves the sequence, or is kept for another replay; t are the   *)
(* scalers before those no longer referred to are dropped.                 *)
LEMMA ReplayStep ==
  ASSUME Inv, NEW i \in 1..Len(recorded), recorded' = recorded \/ recorded' = Without(i),
         disturbed' \in BOOLEAN,
         UNCHANGED <<current, inactive, nextEviction, needsReset, retired, run>>,
         NEW t \in [Generations -> Scaler \cup {None}], Bounded(t), scalers' = Kept(t),
         \A k \in 1..Len(recorded) : Served(recorded[k], t)
  PROVE  Inv'
<1>1. recorded \in Seq(PreparedFrame) /\ Len(recorded) \in Nat
  BY DEF Inv, Types
<1>2. /\ recorded' \in Seq(PreparedFrame)
      /\ \A j \in 1..Len(recorded') : \E k \in 1..Len(recorded) : recorded'[j] = recorded[k]
  <2>1. CASE recorded' = recorded
    BY <1>1, <2>1
  <2>2. CASE recorded' = Without(i)
    <3>1. /\ recorded' \in Seq(PreparedFrame) /\ Len(recorded') = Len(recorded) - 1
          /\ \A k \in 1..(Len(recorded) - 1) :
               recorded'[k] = IF k < i THEN recorded[k] ELSE recorded[k + 1]
      BY <1>1, <2>2, WithoutFacts
    <3>2. ASSUME NEW j \in 1..Len(recorded')
          PROVE  \E k \in 1..Len(recorded) : recorded'[j] = recorded[k]
      <4>1. CASE j < i
        <5>1. j \in 1..Len(recorded) /\ recorded'[j] = recorded[j]
          BY <1>1, <3>1, <4>1
        <5> QED BY <5>1
      <4>2. CASE ~(j < i)
        <5>1. j + 1 \in 1..Len(recorded) /\ recorded'[j] = recorded[j + 1]
          BY <1>1, <3>1, <4>2
        <5> QED BY <5>1
      <4> QED BY <4>1, <4>2
    <3> QED BY <3>1, <3>2
  <2> QED BY <2>1, <2>2
<1>3. \A j \in 1..Len(recorded') : Served(recorded'[j], t)
  BY <1>2
<1>4. ScalerInv' /\ scalers' \in [Generations -> Scaler \cup {None}]
  BY <1>2, <1>3, KeptStep
<1>5. CacheInv'
  BY DEF Inv, CacheInv, Coherent, Positions
<1> QED BY <1>2, <1>4, <1>5 DEF Inv, Types, Positions

(* The encoding of a recorded frame. *)
LEMMA EncodeStep ==
  ASSUME Inv, NEW i \in 1..Len(recorded), NEW ok \in BOOLEAN, NEW again \in BOOLEAN,
         Encode(i, ok, again)
  PROVE  Inv'
<1> DEFINE t == Encoded(recorded[i], ok)
<1>1. /\ t \in [Generations -> Scaler \cup {None}] /\ Bounded(t)
      /\ \A k \in 1..Len(recorded) : Served(recorded[k], t)
  BY EncodedFacts
<1>2. scalers' = Kept(t) /\ (recorded' = recorded \/ recorded' = Without(i))
  BY DEF Encode
<1>3. disturbed' \in BOOLEAN
  BY Zenon DEF Encode
<1>4. UNCHANGED <<current, inactive, nextEviction, needsReset, retired, run>>
  BY DEF Encode
<1> HIDE DEF t
<1> QED BY <1>1, <1>2, <1>3, <1>4, ReplayStep

(* A command list that is dropped. *)
LEMMA DropStep ==
  ASSUME Inv, NEW i \in 1..Len(recorded), Drop(i)
  PROVE  Inv'
<1>1. /\ scalers \in [Generations -> Scaler \cup {None}] /\ Bounded(scalers)
      /\ \A k \in 1..Len(recorded) : Served(recorded[k], scalers)
  BY DEF Inv, Types, ScalerInv
<1>2. recorded' = Without(i) /\ disturbed' \in BOOLEAN /\ scalers' = Kept(scalers)
  BY DEF Drop
<1>3. UNCHANGED <<current, inactive, nextEviction, needsReset, retired, run>>
  BY DEF Drop
<1> QED BY <1>1, <1>2, <1>3, ReplayStep

(* The invariant holds initially. *)
LEMMA InvInit == Init => Inv
<1> SUFFICES ASSUME Init PROVE Inv
  OBVIOUS
<1>1. Types
  <2>1. inactive \in [Positions -> Backend \cup {None}] /\ nextEviction \in Positions
    BY DEF Init, Positions
  <2>2. recorded \in Seq(PreparedFrame)
    BY DEF Init
  <2>3. /\ scalers \in [Generations -> Scaler \cup {None}] /\ run \in 0..MaxRuns
        /\ current = None /\ current \notin Backend
    BY DEF Init
  <2> QED BY <2>1, <2>2, <2>3 DEF Init, Types
<1>2. CacheInv
  BY DEF Init, CacheInv, Coherent, Positions
<1>3. ScalerInv
  BY DEF Init, ScalerInv, Bounded
<1> QED BY <1>1, <1>2, <1>3 DEF Inv

(* Every step preserves the invariant. *)
LEMMA InvStep == Inv /\ [Next]_vars => Inv'
<1> SUFFICES ASSUME Inv, [Next]_vars PROVE Inv'
  OBVIOUS
<1>1. CASE UNCHANGED vars
  BY <1>1 DEF vars, Inv, Types, CacheInv, ScalerInv
<1>2. CASE Next
  BY <1>2, UnpreparedStep, UnrecordedStep, DispatchStep, DestroyStep,
    EncodeStep,
     DropStep DEF Next
<1> QED BY <1>1, <1>2

(* The invariant holds always. *)
LEMMA InvAlways == Spec => []Inv
BY InvInit, InvStep, PTL DEF Spec

-----------------------------------------------------------------------------

(* Type correctness of a context, its backends, scalers and frames. *)
THEOREM TypeCorrect == Spec => []TypeOK
<1>1. Inv => TypeOK
  BY DEF Inv, Types, TypeOK, Positions
<1> QED BY <1>1, InvAlways, PTL

(* The slots tell the truth after any sequence of dispatches, switches,    *)
(* evictions and failures (State::backend, State::inactiveBackends).       *)
THEOREM BackendsCoherent == Spec => []CacheCoherent
<1>1. Inv => CacheCoherent
  <2> SUFFICES ASSUME Inv PROVE CacheCoherent
    OBVIOUS
  <2>1. DOMAIN inactive = Positions
    BY DEF Inv, Types
  <2> QED BY <2>1 DEF Inv, CacheInv, Coherent, CacheCoherent, Slots
<1> QED BY <1>1, InvAlways, PTL

(* A recorded frame, however late it is replayed, finds its scaler alive,  *)
(* of its own format and output, and large enough for it.                  *)
THEOREM FramesFit == Spec => []ScalerFits
<1>1. Inv => ScalerFits
  <2> SUFFICES ASSUME Inv, NEW i \in 1..Len(recorded)
               PROVE  LET f == recorded[i]
                          s == scalers[f.scaler]
                      IN /\ s.format = f.format
                         /\ s.output = Temporal(f.output, f.input)
                         /\ f.input <= s.capacity
                         /\ s.capacity <= s.output /\ s.output <= MaxScale * f.input
    BY DEF ScalerFits
  <2>1. recorded[i] \in PreparedFrame
    BY DEF Inv, Types
  <2>2. /\ recorded[i].scaler \in Generations /\ recorded[i].output \in Outputs
        /\ recorded[i].input \in Inputs
    BY <2>1 DEF PreparedFrame
  <2>3. Served(recorded[i], scalers) /\ Bounded(scalers)
    BY DEF Inv, ScalerInv
  <2>4. Temporal(recorded[i].output, recorded[i].input) <= MaxScale * recorded[i].input
    BY <2>2, TemporalFacts
  <2> QED BY <2>2, <2>3, <2>4 DEF Served, Matches, Bounded
<1> QED BY <1>1, InvAlways, PTL

-----------------------------------------------------------------------------
(* The histories. *)

(* The first n frames of q, encoded in order with the scalers sc, leave    *)
(* scaler g with a history of run r, or with none: the last of them for g  *)
(* is of run r, or there is none and g is fresh or has such a history.     *)
Agrees(q, sc, n, g, r) ==
  /\ \A i \in 1..n :
       q[i].scaler = g /\ (\A k \in (i + 1)..n : q[k].scaler # g) => q[i].run = r
  /\ (\A i \in 1..n : q[i].scaler # g) => sc[g].fresh \/ sc[g].historyRun = r

(* A frame recorded without a reset will continue its own run; so would    *)
(* the next frame of the current backend, unless a reset is pending; and a *)
(* scaler that is not fresh has noted the extent of its history.           *)
Noted(sc) ==
  \A g \in Generations : sc[g] # None /\ ~sc[g].fresh =>
    sc[g].last # None /\ sc[g].history = sc[g].last
Frames(q, sc) ==
  \A j \in 1..Len(q) : q[j].reset \/ Agrees(q, sc, j - 1, q[j].scaler, q[j].run)
Upcoming(q, sc) ==
  current # None /\ current.scaler # None /\ ~needsReset =>
    Agrees(q, sc, Len(q), current.scaler, run)
HistoryInv ==
  ~disturbed => Noted(scalers) /\ Frames(recorded, scalers) /\ Upcoming(recorded, scalers)

(* Only the scaler of g and the first n frames matter. *)
LEMMA AgreesSame ==
  ASSUME NEW q, NEW p, NEW s, NEW t, NEW n \in Nat, NEW g, NEW r,
         \A i \in 1..n : p[i] = q[i],
         (\A i \in 1..n : q[i].scaler # g) => t[g] = s[g],
         Agrees(q, s, n, g, r)
  PROVE  Agrees(p, t, n, g, r)
<1>1. \A i \in 1..n : \A k \in (i + 1)..n : k \in 1..n
  OBVIOUS
<1> QED BY <1>1 DEF Agrees

(* A scaler no frame of q uses agrees with any run while it is fresh. *)
LEMMA AgreesFresh ==
  ASSUME NEW q, NEW s, NEW n \in Nat, NEW g, NEW r,
         \A i \in 1..n : q[i].scaler # g, s[g].fresh
  PROVE  Agrees(q, s, n, g, r)
BY DEF Agrees

(* After a frame for g of run r, g has a history of run r. *)
LEMMA AgreesLast ==
  ASSUME NEW q, NEW s, NEW n \in Nat, NEW g, NEW r,
         q[n + 1].scaler = g, q[n + 1].run = r
  PROVE  Agrees(q, s, n + 1, g, r)
<1>1. ASSUME NEW i \in 1..(n + 1), q[i].scaler = g,
             \A k \in (i + 1)..(n + 1) : q[k].scaler # g
      PROVE  q[i].run = r
  <2>1. i = n + 1
    <3>1. CASE i # n + 1
      <4>1. n + 1 \in (i + 1)..(n + 1)
        BY <1>1, <3>1
      <4> QED BY <1>1, <4>1
    <3> QED BY <3>1
  <2> QED BY <1>1, <2>1
<1>2. n + 1 \in 1..(n + 1)
  OBVIOUS
<1> QED BY <1>1, <1>2 DEF Agrees

(* The first frame is encoded: what agreed before agrees after. *)
LEMMA AgreesShift ==
  ASSUME NEW q, NEW p, NEW s, NEW t, NEW n \in Nat, NEW g, NEW r,
         \A i \in 1..n : p[i] = q[i + 1],
         q[1].scaler = g => t[g].historyRun = q[1].run,
         q[1].scaler # g => t[g] = s[g],
         Agrees(q, s, n + 1, g, r)
  PROVE  Agrees(p, t, n, g, r)
<1>1. ASSUME NEW i \in 1..n, p[i].scaler = g, \A k \in (i + 1)..n : p[k].scaler # g
      PROVE  p[i].run = r
  <2>1. i + 1 \in 1..(n + 1) /\ p[i] = q[i + 1]
    BY <1>1
  <2>2. ASSUME NEW k \in ((i + 1) + 1)..(n + 1)
        PROVE  q[k].scaler # g
    <3>1. (k - 1) \in (i + 1)..n /\ (k - 1) \in 1..n /\ (k - 1) + 1 = k
      BY <2>2
    <3>2. p[k - 1] = q[(k - 1) + 1]
      BY <3>1
    <3> QED BY <1>1, <3>1, <3>2
  <2> QED BY <1>1, <2>1, <2>2 DEF Agrees
<1>2. ASSUME \A i \in 1..n : p[i].scaler # g
      PROVE  t[g].fresh \/ t[g].historyRun = r
  <2>1. ASSUME NEW k \in 2..(n + 1)
        PROVE  q[k].scaler # g
    <3>1. (k - 1) \in 1..n /\ (k - 1) + 1 = k
      BY <2>1
    <3>2. p[k - 1] = q[(k - 1) + 1]
      BY <3>1
    <3> QED BY <1>2, <3>1, <3>2
  <2>2. CASE q[1].scaler = g
    <3>1. 1 \in 1..(n + 1) /\ \A k \in (1 + 1)..(n + 1) : q[k].scaler # g
      BY <2>1
    <3>2. q[1].run = r
      BY <2>2, <3>1 DEF Agrees
    <3> QED BY <2>2, <3>2
  <2>3. CASE q[1].scaler # g
    <3>1. \A k \in 1..(n + 1) : q[k].scaler # g
      BY <2>1, <2>3
    <3> QED BY <2>3, <3>1 DEF Agrees
  <2> QED BY <2>2, <2>3
<1> QED BY <1>1, <1>2 DEF Agrees

(* What is kept of t: the scalers of recorded frames and of the current    *)
(* backend.                                                                *)
LEMMA KeptScalers ==
  ASSUME NEW t, scalers' = Kept(t)
  PROVE  /\ Noted(t) => Noted(scalers')
         /\ \A j \in 1..Len(recorded') : recorded'[j].scaler \in Generations =>
              scalers'[recorded'[j].scaler] = t[recorded'[j].scaler]
         /\ current' # None /\ current'.scaler \in Generations =>
              scalers'[current'.scaler] = t[current'.scaler]
<1>1. \A g \in Generations : scalers'[g] = IF Referenced(g)' THEN t[g] ELSE None
  BY DEF Kept
<1>2. ASSUME NEW j \in 1..Len(recorded'), recorded'[j].scaler \in Generations
      PROVE  scalers'[recorded'[j].scaler] = t[recorded'[j].scaler]
  <2>1. PICK g \in Generations : g = recorded'[j].scaler
    BY <1>2
  <2>2. Referenced(g)'
    BY <1>2, <2>1 DEF Referenced
  <2> QED BY <1>1, <2>1, <2>2
<1>3. ASSUME current' # None, current'.scaler \in Generations
      PROVE  scalers'[current'.scaler] = t[current'.scaler]
  <2>1. PICK g \in Generations : g = current'.scaler
    BY <1>3
  <2>2. Referenced(g)'
    BY <1>3, <2>1 DEF Referenced, Held
  <2> QED BY <1>1, <2>1, <2>2
<1>4. Noted(t) => Noted(scalers')
  BY <1>1 DEF Noted
<1> QED BY <1>2, <1>3, <1>4

(* Frames recorded before keep what they found, as long as their scalers   *)
(* are left alone.                                                         *)
LEMMA FramesStay ==
  ASSUME Inv, Frames(recorded, scalers), NEW t, scalers' = Kept(t),
         recorded' \in Seq(PreparedFrame), Len(recorded) <= Len(recorded'),
         \A i \in 1..Len(recorded) : recorded'[i] = recorded[i],
         \A i \in 1..Len(recorded) : t[recorded[i].scaler] = scalers[recorded[i].scaler]
  PROVE  \A j \in 1..Len(recorded) :
           recorded'[j].reset
             \/ Agrees(recorded', scalers', j - 1, recorded'[j].scaler, recorded'[j].run)
<1> TAKE j \in 1..Len(recorded)
<1>0. recorded \in Seq(PreparedFrame) /\ Len(recorded) \in Nat /\ Len(recorded') \in Nat
  BY DEF Inv, Types
<1>1. j \in 1..Len(recorded') /\ recorded'[j] = recorded[j] /\ j - 1 \in Nat
  BY <1>0
<1>2. recorded[j] \in PreparedFrame
  BY <1>0
<1>3. recorded[j].scaler \in Generations
  BY <1>2 DEF PreparedFrame
<1>4. scalers'[recorded[j].scaler] = scalers[recorded[j].scaler]
  BY <1>1, <1>3, KeptScalers
<1>5. \A i \in 1..(j - 1) : recorded'[i] = recorded[i]
  BY <1>0
<1> DEFINE g == recorded[j].scaler
           r == recorded[j].run
<1> HIDE DEF g, r
<1>6. Agrees(recorded, scalers, j - 1, g, r) => Agrees(recorded', scalers', j - 1, g, r)
  <2>1. scalers'[g] = scalers[g]
    BY <1>4 DEF g
  <2> QED BY <1>1, <1>5, <2>1, AgreesSame
<1>7. recorded[j].reset \/ Agrees(recorded, scalers, j - 1, g, r)
  BY DEF Frames, g, r
<1> QED BY <1>1, <1>6, <1>7 DEF g, r

(* A refused dispatch leaves the history as it is. *)
LEMMA HistoryUnprepared ==
  ASSUME Inv, HistoryInv, NEW out \in Outputs, DispatchUnprepared(out), ~disturbed'
  PROVE  Noted(scalers') /\ Frames(recorded', scalers') /\ Upcoming(recorded, scalers)'
<1>1. PICK sel \in Selections(out) :
        /\ Select(out, sel)
        /\ current' = sel.current
        /\ needsReset' = PendingReset(out)
        /\ UNCHANGED <<retired, recorded, disturbed>>
        /\ scalers' = Kept(scalers)
  BY DEF DispatchUnprepared
<1>2. Noted(scalers) /\ Frames(recorded, scalers) /\ Upcoming(recorded, scalers)
  BY <1>1 DEF HistoryInv
<1>3. recorded \in Seq(PreparedFrame) /\ Len(recorded) \in Nat
  BY DEF Inv, Types
<1>4. Noted(scalers')
  BY <1>1, <1>2, KeptScalers
<1>5. Frames(recorded', scalers')
  BY <1>1, <1>2, <1>3, FramesStay DEF Frames
<1>6. Upcoming(recorded, scalers)'
  <2> SUFFICES ASSUME current' # None, current'.scaler # None, ~needsReset'
               PROVE  Agrees(recorded', scalers', Len(recorded'), current'.scaler, run')
    BY DEF Upcoming
  <2>1. ~needsReset /\ ~NewGeneration(out)
    BY <1>1 DEF PendingReset
  <2>2. current' = current /\ run' = run
    BY <1>1, <2>1, SelectionFacts DEF Select, Inv
  <2>3. current.scaler \in Generations
    BY <2>2 DEF Inv, Types, Backend
  <2>4. scalers'[current.scaler] = scalers[current.scaler]
    BY <1>1, <2>2, <2>3, KeptScalers
  <2>5. Agrees(recorded, scalers, Len(recorded), current.scaler, run)
    BY <1>2, <2>1, <2>2 DEF Upcoming
  <2> DEFINE g == current.scaler
  <2> HIDE DEF g
  <2>6. Agrees(recorded, scalers, Len(recorded), g, run) /\ scalers'[g] = scalers[g]
    BY <2>4, <2>5 DEF g
  <2>7. Agrees(recorded', scalers', Len(recorded), g, run)
    BY <1>1, <1>3, <2>6, AgreesSame
  <2> QED BY <1>1, <2>2, <2>7 DEF g
<1> QED BY <1>4, <1>5, <1>6

(* The scaler a dispatch settles on: the other scalers of recorded frames  *)
(* are left alone, and unless a reset is pending the frame continues the   *)
(* current run.                                                            *)
LEMMA EnsuredHistory ==
  ASSUME Inv, Noted(scalers), Upcoming(recorded, scalers), NEW out \in Outputs,
         NEW sel \in Selections(out), NEW g \in Generations, NEW t,
         Ensured(sel.current, g, t)
  PROVE  /\ Noted(t)
         /\ \A i \in 1..Len(recorded) : t[recorded[i].scaler] = scalers[recorded[i].scaler]
         /\ ~PendingReset(out) => Agrees(recorded, t, Len(recorded), g, run)
<1>0. recorded \in Seq(PreparedFrame) /\ Len(recorded) \in Nat
  BY DEF Inv, Types
<1>1. ASSUME NEW i \in 1..Len(recorded)
      PROVE  recorded[i].scaler \in Generations
  <2>1. recorded[i] \in PreparedFrame
    BY <1>0, <1>1
  <2> QED BY <2>1 DEF PreparedFrame
<1>2. ~Referenced(g) => \A i \in 1..Len(recorded) : recorded[i].scaler # g
  BY DEF Referenced
<1>3. \A i \in 1..Len(recorded) : t[recorded[i].scaler] = scalers[recorded[i].scaler]
  BY <1>1, <1>2 DEF Ensured
<1>4. Noted(t)
  BY DEF Noted, Ensured
<1>5. ASSUME ~PendingReset(out)
      PROVE  Agrees(recorded, t, Len(recorded), g, run)
  <2>1. CASE g = sel.current.scaler /\ t = scalers
    <3>1. sel.current = current /\ current # None /\ ~needsReset
      BY <1>5, SelectionFacts DEF PendingReset, NewGeneration, Inv
    <3> QED BY <2>1, <3>1 DEF Upcoming
  <2>2. CASE ~Referenced(g) /\ t[g].fresh
    BY <1>0, <1>2, <2>2, AgreesFresh
  <2> QED BY <2>1, <2>2 DEF Ensured
<1> QED BY <1>3, <1>4, <1>5

(* A dispatch that is not recorded keeps the reset it owes. *)
LEMMA HistoryUnrecorded ==
  ASSUME Inv, HistoryInv, NEW out \in Outputs, NEW in \in Inputs, NEW fmt \in Formats,
         in <= out, DispatchUnrecorded(out, in, fmt), ~disturbed'
  PROVE  Noted(scalers') /\ Frames(recorded', scalers') /\ Upcoming(recorded, scalers)'
<1>1. PICK sel \in Selections(out), g \in Generations :
        /\ Select(out, sel)
        /\ current' = [sel.current EXCEPT !.scaler = g]
        /\ needsReset' = ResetAfterFailure(out)
        /\ UNCHANGED <<retired, recorded, disturbed>>
        /\ EnsureScaler(sel.current, g, out, in, fmt)
  BY DEF DispatchUnrecorded
<1>2. sel.current \in Backend
  BY SelectionFacts DEF Inv
<1>3. PICK t : Ensured(sel.current, g, t) /\ Matches(t[g], out, in, fmt)
  BY <1>1, <1>2, EnsureFacts
<1>4. Noted(scalers) /\ Frames(recorded, scalers) /\ Upcoming(recorded, scalers)
  BY <1>1 DEF HistoryInv
<1>5. recorded \in Seq(PreparedFrame) /\ Len(recorded) \in Nat
  BY DEF Inv, Types
<1>6. /\ Noted(t)
      /\ \A i \in 1..Len(recorded) : t[recorded[i].scaler] = scalers[recorded[i].scaler]
      /\ ~PendingReset(out) => Agrees(recorded, t, Len(recorded), g, run)
  BY <1>3, <1>4, EnsuredHistory
<1>7. scalers' = Kept(t)
  BY <1>3 DEF Ensured
<1>8. Noted(scalers')
  BY <1>6, <1>7, KeptScalers
<1>9. Frames(recorded', scalers')
  BY <1>1, <1>4, <1>5, <1>6, <1>7, FramesStay DEF Frames
<1>10. current' # None /\ current'.scaler = g
  BY <1>1, <1>2, SelectStep DEF Inv, Backend
<1>11. scalers'[g] = t[g]
  BY <1>7, <1>10, KeptScalers
<1>12. Upcoming(recorded, scalers)'
  <2> SUFFICES ASSUME ~needsReset'
               PROVE  Agrees(recorded', scalers', Len(recorded'), current'.scaler, run')
    BY DEF Upcoming
  <2>1. ~PendingReset(out)
    BY <1>1 DEF ResetAfterFailure
  <2>2. run' = run
    BY <1>1, <2>1 DEF PendingReset, Select
  <2>3. Agrees(recorded', scalers', Len(recorded), g, run)
    BY <1>1, <1>5, <1>6, <1>11, <2>1, AgreesSame
  <2> QED BY <1>1, <1>10, <2>2, <2>3
<1> QED BY <1>8, <1>9, <1>12

(* A recorded dispatch notes the reset it owes. *)
LEMMA HistoryDispatch ==
  ASSUME Inv, HistoryInv, NEW out \in Outputs, NEW in \in Inputs, NEW fmt \in Formats,
         in <= out, NEW r \in BOOLEAN, Dispatch(out, in, fmt, r), ~disturbed'
  PROVE  Noted(scalers') /\ Frames(recorded', scalers') /\ Upcoming(recorded, scalers)'
<1>1. PICK sel \in Selections(out), g \in Generations :
        /\ Select(out, sel)
        /\ current' = [sel.current EXCEPT !.scaler = g]
        /\ recorded' = Append(recorded,
             [scaler |-> g, input |-> in, output |-> out, format |-> fmt,
              reset |-> r \/ PendingReset(out), run |-> run'])
        /\ needsReset' = FALSE
        /\ EnsureScaler(sel.current, g, out, in, fmt)
        /\ UNCHANGED <<retired, disturbed>>
  BY DEF Dispatch
<1> DEFINE n == Len(recorded)
<1>2. sel.current \in Backend
  BY SelectionFacts DEF Inv
<1>3. PICK t : Ensured(sel.current, g, t) /\ Matches(t[g], out, in, fmt)
  BY <1>1, <1>2, EnsureFacts
<1>4. Noted(scalers) /\ Frames(recorded, scalers) /\ Upcoming(recorded, scalers)
  BY <1>1 DEF HistoryInv
<1>5. recorded' \in Seq(PreparedFrame)
  BY DispatchStep DEF Inv, Types
<1>6. /\ n \in Nat /\ Len(recorded') = n + 1
      /\ recorded'[n + 1] = [scaler |-> g, input |-> in, output |-> out, format |-> fmt,
                             reset |-> r \/ PendingReset(out), run |-> run']
      /\ \A i \in 1..n : recorded'[i] = recorded[i]
  BY <1>1 DEF Inv, Types
<1>7. /\ recorded'[n + 1].scaler = g /\ recorded'[n + 1].run = run'
      /\ recorded'[n + 1].reset = (r \/ PendingReset(out))
  BY <1>6
<1> HIDE DEF n
<1>8. /\ Noted(t)
      /\ \A i \in 1..n : t[recorded[i].scaler] = scalers[recorded[i].scaler]
      /\ ~PendingReset(out) => Agrees(recorded, t, n, g, run)
  BY <1>3, <1>4, EnsuredHistory DEF n
<1>9. scalers' = Kept(t)
  BY <1>3 DEF Ensured
<1>10. Noted(scalers')
  BY <1>8, <1>9, KeptScalers
<1>11. current' # None /\ current'.scaler = g
  BY <1>1, <1>2, SelectStep DEF Inv, Backend
<1>12. scalers'[g] = t[g]
  BY <1>9, <1>11, KeptScalers
<1>13. Frames(recorded', scalers')
  <2>1. \A j \in 1..n :
          recorded'[j].reset
            \/ Agrees(recorded', scalers', j - 1, recorded'[j].scaler, recorded'[j].run)
    BY <1>4, <1>5, <1>6, <1>8, <1>9, FramesStay DEF n
  <2>2. recorded'[n + 1].reset \/ Agrees(recorded', scalers', n, g, run')
    <3>1. CASE PendingReset(out)
      BY <1>7, <3>1
    <3>2. CASE ~PendingReset(out)
      <4>1. run' = run
        BY <1>1, <3>2 DEF PendingReset, Select
      <4>2. Agrees(recorded', scalers', n, g, run)
        BY <1>6, <1>8, <1>12, <3>2, AgreesSame
      <4> QED BY <4>1, <4>2
    <3> QED BY <3>1, <3>2
  <2>3. ASSUME NEW j \in 1..Len(recorded')
        PROVE  recorded'[j].reset
                 \/ Agrees(recorded', scalers', j - 1, recorded'[j].scaler, recorded'[j].run)
    <3>1. CASE j \in 1..n
      BY <2>1, <3>1
    <3>2. CASE j = n + 1
      <4>1. j - 1 = n
        BY <1>6, <3>2
      <4> QED BY <1>7, <2>2, <3>2, <4>1
    <3> QED BY <1>6, <3>1, <3>2
  <2> QED BY <2>3 DEF Frames
<1>14. Upcoming(recorded, scalers)'
  <2>1. Agrees(recorded', scalers', n + 1, g, run')
    BY <1>6, <1>7, AgreesLast
  <2> QED BY <1>6, <1>11, <2>1 DEF Upcoming
<1> QED BY <1>10, <1>13, <1>14

(* A destroyed context owes nothing. *)
LEMMA HistoryDestroy ==
  ASSUME Inv, HistoryInv, Destroy, ~disturbed'
  PROVE  Noted(scalers') /\ Frames(recorded', scalers') /\ Upcoming(recorded, scalers)'
<1>1. recorded' = recorded /\ scalers' = Kept(scalers) /\ ~disturbed /\ current' = None
  BY DEF Destroy
<1>2. Noted(scalers) /\ Frames(recorded, scalers)
  BY <1>1 DEF HistoryInv
<1>3. recorded \in Seq(PreparedFrame) /\ Len(recorded) \in Nat
  BY DEF Inv, Types
<1>4. Noted(scalers')
  BY <1>1, <1>2, KeptScalers
<1>5. Frames(recorded', scalers')
  BY <1>1, <1>2, <1>3, FramesStay DEF Frames
<1> QED BY <1>1, <1>4, <1>5 DEF Upcoming

(* Encoding a frame moves the history forward. *)
LEMMA HistoryEncode ==
  ASSUME Inv, HistoryInv, NEW i \in 1..Len(recorded), NEW ok \in BOOLEAN,
         NEW again \in BOOLEAN, Encode(i, ok, again), ~disturbed'
  PROVE  Noted(scalers') /\ Frames(recorded', scalers') /\ Upcoming(recorded, scalers)'
<1> DEFINE f == recorded[1]
           n == Len(recorded)
           t == Encoded(f, ok)
<1>1. i = 1 /\ ok /\ ~again /\ ~disturbed
  BY DEF Encode
<1>2. Noted(scalers) /\ Frames(recorded, scalers) /\ Upcoming(recorded, scalers)
  BY <1>1 DEF HistoryInv
<1>3. recorded \in Seq(PreparedFrame) /\ n \in Nat /\ 1 \in 1..n
  BY <1>1 DEF Inv, Types
<1>4. /\ t \in [Generations -> Scaler \cup {None}]
      /\ f.scaler \in Generations /\ f.input \in Inputs
      /\ \A g \in Generations : g # f.scaler => t[g] = scalers[g]
      /\ t[f.scaler].history = f.input /\ t[f.scaler].historyRun = f.run
      /\ t[f.scaler].fresh = FALSE /\ t[f.scaler].last = f.input
  BY <1>1, <1>3, EncodedFacts
<1>5. scalers' = Kept(t) /\ recorded' = Without(1)
  BY <1>1 DEF Encode
<1>6. UNCHANGED <<current, needsReset, run>>
  BY DEF Encode
<1>7. /\ recorded' \in Seq(PreparedFrame) /\ Len(recorded') = n - 1 /\ n - 1 \in Nat
      /\ \A k \in 1..(n - 1) : recorded'[k] = recorded[k + 1]
  <2>1. /\ Without(1) \in Seq(PreparedFrame) /\ Len(Without(1)) = n - 1
        /\ \A k \in 1..(n - 1) :
             Without(1)[k] = IF k < 1 THEN recorded[k] ELSE recorded[k + 1]
    BY <1>3, WithoutFacts
  <2> QED BY <1>3, <1>5, <2>1
<1> HIDE DEF t, f, n
<1>8. Noted(scalers')
  <2>1. Noted(t)
    BY <1>2, <1>4 DEF Noted
  <2> QED BY <1>5, <2>1, KeptScalers
<1>9. ASSUME NEW m \in Nat, m <= n - 1, NEW g \in Generations, NEW r,
             scalers'[g] = t[g], Agrees(recorded, scalers, m + 1, g, r)
      PROVE  Agrees(recorded', scalers', m, g, r)
  <2>1. \A k \in 1..m : recorded'[k] = recorded[k + 1]
    BY <1>7, <1>9
  <2>2. recorded[1].scaler = g => scalers'[g].historyRun = recorded[1].run
    BY <1>4, <1>9 DEF f
  <2>3. recorded[1].scaler # g => scalers'[g] = scalers[g]
    BY <1>4, <1>9 DEF f
  <2> QED BY <1>9, <2>1, <2>2, <2>3, AgreesShift
<1>10. Frames(recorded', scalers')
  <2> SUFFICES ASSUME NEW j \in 1..Len(recorded'), ~recorded'[j].reset
               PROVE  Agrees(recorded', scalers', j - 1, recorded'[j].scaler,
                             recorded'[j].run)
    BY DEF Frames
  <2>1. /\ j \in Nat /\ j - 1 \in Nat /\ j - 1 <= n - 1 /\ (j - 1) + 1 = j
        /\ (j + 1) - 1 = j /\ j + 1 \in 1..n /\ recorded'[j] = recorded[j + 1]
    BY <1>3, <1>7
  <2>2. recorded'[j] \in PreparedFrame
    BY <1>7
  <2>3. PICK g \in Generations : g = recorded'[j].scaler
    BY <2>2 DEF PreparedFrame
  <2>4. Agrees(recorded, scalers, j, g, recorded'[j].run)
    BY <1>2, <2>1, <2>3 DEF Frames, n
  <2>5. scalers'[g] = t[g]
    BY <1>5, <2>3, KeptScalers
  <2> QED BY <1>9, <2>1, <2>3, <2>4, <2>5
<1>11. Upcoming(recorded, scalers)'
  <2> SUFFICES ASSUME current' # None, current'.scaler # None, ~needsReset'
               PROVE  Agrees(recorded', scalers', Len(recorded'), current'.scaler, run')
    BY DEF Upcoming
  <2>1. PICK g \in Generations : g = current'.scaler
    BY <1>6 DEF Inv, Types, Backend
  <2>2. scalers'[g] = t[g]
    BY <1>5, <2>1, KeptScalers
  <2>3. Agrees(recorded, scalers, n, g, run)
    BY <1>2, <1>6, <2>1 DEF Upcoming, n
  <2>4. (n - 1) + 1 = n /\ n - 1 <= n - 1
    BY <1>3, <1>7
  <2>5. Agrees(recorded', scalers', n - 1, g, run)
    BY <1>7, <1>9, <2>2, <2>3, <2>4
  <2> QED BY <1>6, <1>7, <2>1, <2>5
<1> QED BY <1>8, <1>10, <1>11

(* Every step preserves the history. *)
LEMMA HistoryStep == Inv /\ HistoryInv /\ [Next]_vars => HistoryInv'
<1> SUFFICES ASSUME Inv, HistoryInv, [Next]_vars, ~disturbed'
             PROVE  Noted(scalers') /\ Frames(recorded', scalers')
                      /\ Upcoming(recorded, scalers)'
  BY DEF HistoryInv, Noted, Frames, Upcoming
<1>1. CASE UNCHANGED vars
  BY <1>1 DEF vars, HistoryInv, Upcoming
<1>2. CASE Next
  <2>1. ASSUME NEW i \in 1..Len(recorded), Drop(i)
        PROVE  FALSE
    BY <2>1 DEF Drop
  <2> QED BY <1>2, <2>1, HistoryUnprepared, HistoryUnrecorded, HistoryDispatch,
             HistoryDestroy, HistoryEncode DEF Next
<1> QED BY <1>1, <1>2

(* As long as frames are encoded in the order they were recorded in, once  *)
(* and with success, the next frame never continues the history of an      *)
(* earlier run: State::generationNeedsReset survives failed dispatches.    *)
THEOREM SwitchesReset == Spec => []SwitchResets
<1>1. Init => HistoryInv
  BY DEF Init, HistoryInv, Noted, Frames, Upcoming
<1>2. Inv /\ HistoryInv => SwitchResets
  <2> SUFFICES ASSUME Inv, HistoryInv, ~disturbed, recorded # <<>>,
                      ~EffectiveReset(Head(recorded))
               PROVE  /\ scalers[Head(recorded).scaler].historyRun = Head(recorded).run
                      /\ scalers[Head(recorded).scaler].history = Head(recorded).input
    BY DEF SwitchResets, ContinuesRun
  <2>1. recorded \in Seq(PreparedFrame) /\ 1 \in 1..Len(recorded)
          /\ Head(recorded) = recorded[1]
    BY DEF Inv, Types
  <2>2. recorded[1] \in PreparedFrame
    BY <2>1
  <2>3. PICK g \in Generations : g = recorded[1].scaler
    BY <2>2 DEF PreparedFrame
  <2>4. scalers[g] # None
    BY <2>1, <2>3 DEF Inv, ScalerInv, Served
  <2>5. /\ ~recorded[1].reset /\ ~scalers[g].fresh
        /\ scalers[g].last = None \/ scalers[g].last = recorded[1].input
    BY <2>1, <2>3 DEF EffectiveReset
  <2>6. scalers[g].history = recorded[1].input
    BY <2>4, <2>5 DEF HistoryInv, Noted
  <2>7. Agrees(recorded, scalers, 0, g, recorded[1].run)
    <3>1. 1 - 1 = 0
      OBVIOUS
    <3> QED BY <2>1, <2>3, <2>5, <3>1 DEF HistoryInv, Frames
  <2>8. scalers[g].historyRun = recorded[1].run
    BY <2>5, <2>7 DEF Agrees
  <2> QED BY <2>1, <2>3, <2>6, <2>8
<1>3. Inv /\ HistoryInv /\ [Next]_vars => HistoryInv'
  BY HistoryStep
<1> QED BY <1>1, <1>2, <1>3, InvAlways, PTL DEF Spec
=============================================================================
