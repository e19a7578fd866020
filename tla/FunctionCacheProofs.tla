------------------------- MODULE FunctionCacheProofs -------------------------
(***************************************************************************)
(* Proofs about FunctionCache, for any number of threads, devices,         *)
(* libraries, scopes and entries and any nesting: waits form no cycle and  *)
(* lose no wake-up, what is mapped is cached or in production, functions   *)
(* of a dead library are never returned for a new one, and the cache       *)
(* implements the per-device memo DeviceMemo.                              *)
(***************************************************************************)
EXTENDS FunctionCache, TLAPS

-----------------------------------------------------------------------------
(* The inductive invariant. *)

Flying == {"retaining", "creating", "snapshot"}
Waits == {"asleep", "awake"}
Holding == Producing \cup Waits \cup {"copying"}

(* A call that uses its scope has one, and one that uses an entry, too. *)
LocalsOK(f) ==
  /\ f.pc \in Holding \cup {"lookup"} => f.scope \in Scopes /\ f.library \in Libraries
  /\ f.pc \in Holding => f.entry \in Entries

FramesOK ==
  \A t \in Threads :
    /\ Len(stack[t]) <= MaxDepth
    /\ \A i \in 1..Len(stack[t]) :
         /\ LocalsOK(stack[t][i])
         /\ i < Len(stack[t]) => stack[t][i].pc \in Foreign

(* Who waits produces nothing, and who sleeps has a producer. *)
WaiterInv ==
  \A t \in Threads : \A i \in 1..Len(stack[t]) :
    /\ stack[t][i].pc \in Waits =>
         \A j \in 1..Len(stack[t]) : stack[t][j].pc \notin Producing
    /\ stack[t][i].pc = "asleep" =>
         \E u \in Threads : \E j \in 1..Len(stack[u]) :
           stack[u][j].pc \in Producing /\ stack[u][j].entry = stack[t][i].entry

(* An entry in flight is pending, mapped where its one producer looked it  *)
(* up, and keeps its library from the retain on.                           *)
FlyingMapped ==
  \A t \in Threads : \A i \in 1..Len(stack[t]) : stack[t][i].pc \in Flying =>
    /\ outcome[stack[t][i].entry] = "pending"
    /\ entries[stack[t][i].scope][stack[t][i].library] = stack[t][i].entry
    /\ stack[t][i].pc # "retaining" => retained[stack[t][i].entry] = stack[t][i].library
    /\ \A u \in Threads : \A j \in 1..Len(stack[u]) :
         stack[u][j].pc \in Flying /\ stack[u][j].entry = stack[t][i].entry
           => u = t /\ j = i

PendingFlown ==
  \A e \in Entries : outcome[e] = "pending" =>
    \E t \in Threads : \E i \in 1..Len(stack[t]) :
      stack[t][i].pc \in Flying /\ stack[t][i].entry = e

(* What an allocated scope maps is in flight for that key, or cached and   *)
(* keeps the library of the key; it was made from the library now at the   *)
(* address.                                                                *)
MappedInv ==
  \A s \in Scopes : \A l \in Libraries :
    ScopeAllocated(s) /\ entries[s][l] # None =>
      /\ \/ /\ outcome[entries[s][l]] = "cached"
            /\ retained[entries[s][l]] = l
         \/ \E t \in Threads : \E i \in 1..Len(stack[t]) :
              /\ stack[t][i].pc \in Flying
              /\ stack[t][i].scope = s /\ stack[t][i].library = l
      /\ madeFrom[entries[s][l]] = uses[l]

MappedOnce ==
  \A a, b \in Scopes : \A k, l \in Libraries :
    ScopeAllocated(a) /\ ScopeAllocated(b) /\ entries[a][k] # None
      /\ entries[a][k] = entries[b][l] => a = b /\ k = l

(* What a call waits for or copies was made from its library. *)
HeldInv ==
  \A t \in Threads : \A i \in 1..Len(stack[t]) :
    stack[t][i].pc \in Waits \cup {"copying"} =>
      madeFrom[stack[t][i].entry] = uses[stack[t][i].library]

(* Devices do not share scopes, and one that is being retired has none. *)
ScopesInv ==
  /\ \A c, d \in Devices : scopes[c] # None /\ scopes[c] = scopes[d] => c = d
  /\ \A r \in retirements : scopes[r.device] = None
  /\ \A t \in Threads : \A i \in 1..Len(stack[t]) :
       stack[t][i].pc \in {"detached", "retired"} =>
         [owner |-> t, depth |-> i, device |-> stack[t][i].device] \in retirements

FlightInv ==
  /\ FlyingMapped /\ PendingFlown /\ MappedInv /\ MappedOnce /\ HeldInv /\ ScopesInv

FunctionInv == TypeOK /\ FramesOK /\ WaiterInv /\ FlightInv
-----------------------------------------------------------------------------
(* What the stack operations do, index by index. *)

(* The innermost frame of t replaced by f. *)
Changed(t, f) == [stack EXCEPT ![t][Len(stack[t])] = f]
AtEntry(t, pc, e) == [Top(t) EXCEPT !.pc = pc, !.entry = e]
Unscoped(t) == [Top(t) EXCEPT !.pc = "retired", !.scope = None]

(* A thread calls, returns, or goes on in its innermost call. *)
PushStep(t, f) ==
  /\ Len(stack'[t]) = Len(stack[t]) + 1
  /\ stack'[t][Len(stack[t]) + 1] = f
  /\ \A i \in 1..Len(stack[t]) : stack'[t][i] = stack[t][i]
  /\ \A u \in Threads : u # t => stack'[u] = stack[u]
PopStep(t) ==
  /\ Len(stack'[t]) = Len(stack[t]) - 1
  /\ \A i \in 1..(Len(stack[t]) - 1) : stack'[t][i] = stack[t][i]
  /\ \A u \in Threads : u # t => stack'[u] = stack[u]
MoveStep(t, f) ==
  /\ Len(stack'[t]) = Len(stack[t])
  /\ stack'[t][Len(stack[t])] = f
  /\ \A i \in 1..(Len(stack[t]) - 1) : stack'[t][i] = stack[t][i]
  /\ \A u \in Threads : u # t => stack'[u] = stack[u]

StacksTyped == stack' \in [Threads -> Seq(Frame)]

(* Pushed adds a frame above the others and leaves other threads alone. *)
LEMMA PushFacts ==
  ASSUME TypeOK, NEW t \in Threads, NEW f \in Frame, stack' = Pushed(t, f)
  PROVE  StacksTyped /\ PushStep(t, f)
<1>1. stack[t] \in Seq(Frame) /\ stack'[t] = Append(stack[t], f)
  BY DEF TypeOK, Pushed
<1>2. stack'[t] \in Seq(Frame)
  BY <1>1
<1>3. stack' \in [Threads -> Seq(Frame)]
  BY <1>2 DEF TypeOK, Pushed
<1>4. \A u \in Threads : u # t => stack'[u] = stack[u]
  BY DEF TypeOK, Pushed
<1> QED BY <1>1, <1>3, <1>4 DEF StacksTyped, PushStep

(* Popped removes the innermost frame only. *)
LEMMA PopFacts ==
  ASSUME TypeOK, NEW t \in Threads, Depth(t) > 0, stack' = Popped(t)
  PROVE  StacksTyped /\ PopStep(t)
<1>1. /\ stack[t] \in Seq(Frame)
      /\ Len(stack[t]) \in Nat
      /\ Len(stack[t]) > 0
      /\ stack'[t] = SubSeq(stack[t], 1, Len(stack[t]) - 1)
  BY DEF TypeOK, Popped, Depth
<1>2. stack'[t] \in Seq(Frame)
  BY <1>1
<1>3. stack' \in [Threads -> Seq(Frame)]
  BY <1>2 DEF TypeOK, Popped
<1>4. \A u \in Threads : u # t => stack'[u] = stack[u]
  BY DEF TypeOK, Popped
<1>5. /\ Len(stack'[t]) = Len(stack[t]) - 1
      /\ \A i \in 1..(Len(stack[t]) - 1) : stack'[t][i] = stack[t][i]
  BY <1>1
<1> QED BY <1>3, <1>4, <1>5 DEF StacksTyped, PopStep

(* Changed replaces the innermost frame only. *)
LEMMA ChangeFacts ==
  ASSUME TypeOK, NEW t \in Threads, NEW f \in Frame, Depth(t) > 0,
         stack' = Changed(t, f)
  PROVE  StacksTyped /\ MoveStep(t, f)
<1>1. /\ stack[t] \in Seq(Frame)
      /\ Len(stack[t]) \in Nat
      /\ Len(stack[t]) > 0
      /\ stack'[t] = [stack[t] EXCEPT ![Len(stack[t])] = f]
  BY DEF TypeOK, Changed, Depth
<1>2. stack'[t] \in Seq(Frame) /\ Len(stack'[t]) = Len(stack[t])
  BY <1>1
<1>3. stack' \in [Threads -> Seq(Frame)]
  BY <1>2 DEF TypeOK, Changed
<1>4. \A u \in Threads : u # t => stack'[u] = stack[u]
  BY DEF TypeOK, Changed
<1>5. /\ stack'[t][Len(stack[t])] = f
      /\ \A i \in 1..(Len(stack[t]) - 1) : stack'[t][i] = stack[t][i]
  BY <1>1
<1> QED BY <1>2, <1>3, <1>4, <1>5 DEF StacksTyped, MoveStep

(* The innermost frame of a thread inside the cache is a frame. *)
LEMMA TopFacts ==
  ASSUME TypeOK, FramesOK, NEW t \in Threads, Depth(t) > 0
  PROVE  /\ Len(stack[t]) \in Nat /\ Len(stack[t]) > 0 /\ Depth(t) = Len(stack[t])
         /\ Len(stack[t]) \in 1..Len(stack[t])
         /\ Top(t) \in Frame
         /\ Top(t) = stack[t][Len(stack[t])]
         /\ LocalsOK(Top(t))
<1>1. Len(stack[t]) \in Nat /\ Len(stack[t]) > 0 /\ stack[t] \in Seq(Frame)
  BY DEF TypeOK, Depth
<1>2. Len(stack[t]) \in 1..Len(stack[t])
  BY <1>1
<1> QED BY <1>1, <1>2 DEF FramesOK, Top, Depth

(* A frame of a thread has the type of frames. *)
LEMMA FrameTyped ==
  ASSUME TypeOK, NEW t \in Threads, NEW i \in 1..Len(stack[t])
  PROVE  /\ stack[t][i] \in Frame
         /\ stack[t][i].pc \in PC
         /\ stack[t][i].scope \in Scopes \cup {None}
         /\ stack[t][i].device \in Devices
         /\ stack[t][i].library \in Libraries \cup {None}
         /\ stack[t][i].entry \in Entries \cup {None}
<1>1. stack[t][i] \in Frame
  BY DEF TypeOK
<1> QED BY <1>1 DEF Frame

(* A call that goes on keeps its device and library. *)
LEMMA AtEntryFacts ==
  ASSUME NEW t \in Threads, Top(t) \in Frame, NEW pc \in PC, NEW e \in Entries \cup {None}
  PROVE  /\ AtEntry(t, pc, e) \in Frame
         /\ AtEntry(t, pc, e).pc = pc
         /\ AtEntry(t, pc, e).entry = e
         /\ AtEntry(t, pc, e).scope = Top(t).scope
         /\ AtEntry(t, pc, e).library = Top(t).library
         /\ AtEntry(t, pc, e).device = Top(t).device
<1>1. ASSUME NEW f \in Frame
      PROVE  LET g == [f EXCEPT !.pc = pc, !.entry = e]
             IN /\ g \in Frame
                /\ g.pc = pc
                /\ g.entry = e
                /\ g.scope = f.scope
                /\ g.library = f.library
                /\ g.device = f.device
  BY DEF Frame
<1> QED BY <1>1 DEF AtEntry

(* A call that released its scope has none. *)
LEMMA UnscopedFacts ==
  ASSUME NEW t \in Threads, Top(t) \in Frame
  PROVE  /\ Unscoped(t) \in Frame
         /\ Unscoped(t).pc = "retired"
         /\ Unscoped(t).entry = Top(t).entry
         /\ Unscoped(t).scope = None
         /\ Unscoped(t).library = Top(t).library
         /\ Unscoped(t).device = Top(t).device
<1>1. ASSUME NEW f \in Frame
      PROVE  LET g == [f EXCEPT !.pc = "retired", !.scope = None]
             IN /\ g \in Frame
                /\ g.pc = "retired"
                /\ g.entry = f.entry
                /\ g.scope = None
                /\ g.library = f.library
                /\ g.device = f.device
  BY DEF Frame, PC, Foreign, Retiring
<1> QED BY <1>1 DEF Unscoped

(* A new frame, field by field. *)
LEMMA NewFrameFacts ==
  ASSUME NEW pc \in PC, NEW d \in Devices, NEW l \in Libraries \cup {None},
         NEW s \in Scopes \cup {None}
  PROVE  /\ NewFrame(pc, d, l, s) \in Frame
         /\ NewFrame(pc, d, l, s).pc = pc
         /\ NewFrame(pc, d, l, s).device = d
         /\ NewFrame(pc, d, l, s).library = l
         /\ NewFrame(pc, d, l, s).scope = s
         /\ NewFrame(pc, d, l, s).entry = None
BY DEF NewFrame, Frame

(* Goto and GotoEntry replace the innermost frame. *)
LEMMA GotoChanged ==
  ASSUME TypeOK, FramesOK, NEW t \in Threads, Depth(t) > 0, NEW pc, NEW e
  PROVE  /\ Goto(t, pc) = Changed(t, AtEntry(t, pc, Top(t).entry))
         /\ GotoEntry(t, pc, e) = Changed(t, AtEntry(t, pc, e))
<1>1. Depth(t) = Len(stack[t]) /\ Top(t) = stack[t][Len(stack[t])] /\ Top(t) \in Frame
  BY TopFacts
<1>2. GotoEntry(t, pc, e) = Changed(t, AtEntry(t, pc, e))
  BY <1>1 DEF GotoEntry, Changed, AtEntry
<1>3. ASSUME NEW f \in Frame
      PROVE  [f EXCEPT !.pc = pc] = [f EXCEPT !.pc = pc, !.entry = f.entry]
  BY DEF Frame
<1>4. [Top(t) EXCEPT !.pc = pc] = AtEntry(t, pc, Top(t).entry)
  BY <1>1, <1>3 DEF AtEntry
<1>5. Goto(t, pc) = Changed(t, [Top(t) EXCEPT !.pc = pc])
  BY <1>1 DEF Goto, Changed
<1> QED BY <1>2, <1>4, <1>5
-----------------------------------------------------------------------------
(* Types, and the shape of the stacks. *)

(* A thread calls only from foreign code, and within the bound. *)
LEMMA PushFrames ==
  ASSUME TypeOK, FramesOK, NEW t \in Threads, NEW f \in Frame, LocalsOK(f), CanCall(t),
         stack' = Pushed(t, f)
  PROVE  StacksTyped /\ FramesOK'
<1>1. StacksTyped /\ PushStep(t, f)
  BY PushFacts
<1>2. Len(stack[t]) \in Nat /\ Len(stack[t]) < MaxDepth /\ MaxDepth \in Nat
  BY BoundAssumption DEF TypeOK, CanCall, Depth
<1>3. Len(stack[t]) > 0 => stack[t][Len(stack[t])].pc \in Foreign
  BY DEF CanCall, Depth, Top
<1>4. Len(stack'[t]) <= MaxDepth
  BY <1>1, <1>2 DEF PushStep
<1>5. ASSUME NEW i \in 1..Len(stack'[t])
      PROVE  /\ LocalsOK(stack'[t][i])
             /\ i < Len(stack'[t]) => stack'[t][i].pc \in Foreign
  <2>1. CASE i = Len(stack[t]) + 1
    BY <1>1, <1>2, <2>1 DEF PushStep
  <2>2. CASE i \in 1..Len(stack[t])
    <3>1. stack'[t][i] = stack[t][i] /\ LocalsOK(stack[t][i])
      BY <1>1, <2>2 DEF PushStep, FramesOK
    <3>2. stack[t][i].pc \in Foreign
      BY <1>2, <1>3, <2>2 DEF FramesOK
    <3> QED BY <3>1, <3>2
  <2> QED BY <1>1, <1>2, <2>1, <2>2 DEF PushStep
<1>6. ASSUME NEW u \in Threads, u # t
      PROVE  stack'[u] = stack[u]
  BY <1>1, <1>6 DEF PushStep
<1>7. ASSUME NEW u \in Threads
      PROVE  /\ Len(stack'[u]) <= MaxDepth
             /\ \A i \in 1..Len(stack'[u]) :
                  /\ LocalsOK(stack'[u][i])
                  /\ i < Len(stack'[u]) => stack'[u][i].pc \in Foreign
  <2>1. CASE u = t
    BY <2>1, <1>4, <1>5
  <2>2. CASE u # t
    BY <2>2, <1>6 DEF FramesOK
  <2> QED BY <2>1, <2>2
<1>8. FramesOK'
  BY <1>7 DEF FramesOK, LocalsOK
<1> QED BY <1>1, <1>8

(* The frame under a returning call is in foreign code. *)
LEMMA PopFrames ==
  ASSUME TypeOK, FramesOK, NEW t \in Threads, Depth(t) > 0, stack' = Popped(t)
  PROVE  StacksTyped /\ FramesOK'
<1>1. StacksTyped /\ PopStep(t)
  BY PopFacts
<1>2. Len(stack[t]) \in Nat /\ Len(stack[t]) > 0 /\ MaxDepth \in Nat
      /\ Len(stack[t]) <= MaxDepth
  BY BoundAssumption DEF TypeOK, Depth, FramesOK
<1>3. ASSUME NEW u \in Threads
      PROVE  /\ Len(stack'[u]) <= MaxDepth
             /\ \A i \in 1..Len(stack'[u]) :
                  /\ LocalsOK(stack'[u][i])
                  /\ i < Len(stack'[u]) => stack'[u][i].pc \in Foreign
  <2>1. CASE u = t
    <3>1. Len(stack'[t]) <= MaxDepth
      BY <1>1, <1>2 DEF PopStep
    <3>2. ASSUME NEW i \in 1..Len(stack'[t])
          PROVE  /\ i \in 1..Len(stack[t]) /\ i < Len(stack[t])
                 /\ stack'[t][i] = stack[t][i]
      BY <1>1, <1>2 DEF PopStep
    <3> QED BY <2>1, <3>1, <3>2 DEF FramesOK
  <2>2. CASE u # t
    BY <2>2, <1>1 DEF FramesOK, PopStep
  <2> QED BY <2>1, <2>2
<1>4. FramesOK'
  BY <1>3 DEF FramesOK, LocalsOK
<1> QED BY <1>1, <1>4

(* The innermost call goes on. *)
LEMMA ChangeFrames ==
  ASSUME TypeOK, FramesOK, NEW t \in Threads, NEW f \in Frame, LocalsOK(f), Depth(t) > 0,
         stack' = Changed(t, f)
  PROVE  StacksTyped /\ FramesOK'
<1>1. StacksTyped /\ MoveStep(t, f)
  BY ChangeFacts
<1>2. Len(stack[t]) \in Nat /\ Len(stack[t]) > 0
  BY DEF TypeOK, Depth
<1>3. ASSUME NEW u \in Threads
      PROVE  /\ Len(stack'[u]) <= MaxDepth
             /\ \A i \in 1..Len(stack'[u]) :
                  /\ LocalsOK(stack'[u][i])
                  /\ i < Len(stack'[u]) => stack'[u][i].pc \in Foreign
  <2>1. CASE u = t
    <3>1. Len(stack'[t]) <= MaxDepth
      BY <1>1, <1>2 DEF MoveStep, FramesOK
    <3>2. ASSUME NEW i \in 1..Len(stack'[t])
          PROVE  /\ LocalsOK(stack'[t][i])
                 /\ i < Len(stack'[t]) => stack'[t][i].pc \in Foreign
      <4>1. CASE i = Len(stack[t])
        BY <1>1, <1>2, <4>1 DEF MoveStep
      <4>2. CASE i # Len(stack[t])
        <5>1. /\ i \in 1..Len(stack[t]) /\ i < Len(stack[t])
              /\ stack'[t][i] = stack[t][i]
          BY <1>1, <1>2, <4>2 DEF MoveStep
        <5> QED BY <5>1 DEF FramesOK
      <4> QED BY <4>1, <4>2
    <3> QED BY <2>1, <3>1, <3>2
  <2>2. CASE u # t
    BY <2>2, <1>1 DEF FramesOK, MoveStep
  <2> QED BY <2>1, <2>2
<1>4. FramesOK'
  BY <1>3 DEF FramesOK, LocalsOK
<1> QED BY <1>1, <1>4

(***************************************************************************)
(* notify_all: who sleeps on the entry wakes, and the notifying call       *)
(* returns or goes on without the entry.                                   *)
(***************************************************************************)
Notified(t, u, i) ==
  /\ stack'[u][i] = AfterNotify(t, u, i)
  /\ AfterNotify(t, u, i) \in Frame
  /\ AfterNotify(t, u, i).device = stack[u][i].device
  /\ AfterNotify(t, u, i).library = stack[u][i].library
  /\ AfterNotify(t, u, i).scope = stack[u][i].scope
  /\ AfterNotify(t, u, i).entry = stack[u][i].entry
  /\ \/ /\ stack[u][i].pc = "asleep" /\ stack[u][i].entry = Top(t).entry
        /\ AfterNotify(t, u, i).pc = "awake"
     \/ /\ u = t /\ i = Len(stack[t]) /\ At(t, "abandon")
        /\ AfterNotify(t, u, i).pc = "direct"
     \/ /\ ~(u = t /\ i = Len(stack[t]))
        /\ ~(stack[u][i].pc = "asleep" /\ stack[u][i].entry = Top(t).entry)
        /\ AfterNotify(t, u, i).pc = stack[u][i].pc

NotifyStep(t) ==
  /\ \A u \in Threads : u # t => Len(stack'[u]) = Len(stack[u])
  /\ Len(stack'[t]) = IF At(t, "notify") THEN Len(stack[t]) - 1 ELSE Len(stack[t])
  /\ \A u \in Threads : \A i \in 1..Len(stack'[u]) :
       i \in 1..Len(stack[u]) /\ Notified(t, u, i)

(* A function on 1..n is a sequence of length n. *)
LEMMA FunctionIsSeq ==
  ASSUME NEW S, NEW n \in Nat, NEW g \in [1..n -> S]
  PROVE  g \in Seq(S) /\ Len(g) = n
OBVIOUS

(* What notify_all does, frame by frame. *)
LEMMA NotifyFacts ==
  ASSUME TypeOK, FramesOK, NEW t \in Threads, NotifyAll(t)
  PROVE  StacksTyped /\ NotifyStep(t)
<1>1. Depth(t) > 0 /\ (At(t, "notify") \/ At(t, "abandon"))
  BY DEF NotifyAll, At
<1>2. /\ Len(stack[t]) \in Nat /\ Len(stack[t]) > 0 /\ Depth(t) = Len(stack[t])
      /\ Top(t) = stack[t][Len(stack[t])]
  BY <1>1, TopFacts
<1> DEFINE n(u) == IF u = t /\ At(t, "notify") THEN Len(stack[u]) - 1 ELSE Len(stack[u])
<1>3. stack' = [u \in Threads |-> [i \in 1..n(u) |-> AfterNotify(t, u, i)]]
  BY DEF NotifyAll, Depth
<1>4. ASSUME NEW u \in Threads
      PROVE  n(u) \in Nat /\ n(u) <= Len(stack[u]) /\ Len(stack[u]) \in Nat
  <2>1. Len(stack[u]) \in Nat
    BY DEF TypeOK
  <2> QED BY <1>2, <2>1
<1>5. ASSUME NEW u \in Threads
      PROVE  stack'[u] = [i \in 1..n(u) |-> AfterNotify(t, u, i)]
  BY <1>3
<1> HIDE DEF n
<1>6. ASSUME NEW u \in Threads, NEW i \in 1..Len(stack[u])
      PROVE  /\ AfterNotify(t, u, i) \in Frame
             /\ AfterNotify(t, u, i).device = stack[u][i].device
             /\ AfterNotify(t, u, i).library = stack[u][i].library
             /\ AfterNotify(t, u, i).scope = stack[u][i].scope
             /\ AfterNotify(t, u, i).entry = stack[u][i].entry
             /\ AfterNotify(t, u, i).pc =
                  IF stack[u][i].pc = "asleep" /\ stack[u][i].entry = Top(t).entry
                  THEN "awake"
                  ELSE IF u = t /\ i = Len(stack[t]) THEN "direct" ELSE stack[u][i].pc
  <2> DEFINE f == stack[u][i]
  <2>1. f \in Frame
    BY DEF TypeOK
  <2>2. AfterNotify(t, u, i) =
          IF f.pc = "asleep" /\ f.entry = Top(t).entry
          THEN [f EXCEPT !.pc = "awake"]
          ELSE IF u = t /\ i = Len(stack[t]) THEN [f EXCEPT !.pc = "direct"] ELSE f
    BY <1>2 DEF AfterNotify
  <2> HIDE DEF f
  <2>3. ASSUME NEW pc \in {"awake", "direct"}
        PROVE  /\ [f EXCEPT !.pc = pc] \in Frame
               /\ [f EXCEPT !.pc = pc].device = f.device
               /\ [f EXCEPT !.pc = pc].library = f.library
               /\ [f EXCEPT !.pc = pc].scope = f.scope
               /\ [f EXCEPT !.pc = pc].entry = f.entry
               /\ [f EXCEPT !.pc = pc].pc = pc
    BY <2>1 DEF Frame, PC, Foreign
  <2>4. CASE f.pc = "asleep" /\ f.entry = Top(t).entry
    BY <2>2, <2>3, <2>4 DEF f
  <2>5. CASE ~(f.pc = "asleep" /\ f.entry = Top(t).entry) /\ u = t /\ i = Len(stack[t])
    <3>1. AfterNotify(t, u, i) = [f EXCEPT !.pc = "direct"]
      BY <2>2, <2>5
    <3> QED BY <2>3, <2>5, <3>1 DEF f
  <2>6. CASE ~(f.pc = "asleep" /\ f.entry = Top(t).entry) /\ ~(u = t /\ i = Len(stack[t]))
    <3>1. AfterNotify(t, u, i) = f
      BY <2>2, <2>6
    <3> QED BY <2>1, <2>6, <3>1 DEF f
  <2> QED BY <2>4, <2>5, <2>6
<1>7. ASSUME NEW u \in Threads
      PROVE  stack'[u] \in Seq(Frame) /\ Len(stack'[u]) = n(u)
  <2>1. \A i \in 1..n(u) : AfterNotify(t, u, i) \in Frame
    BY <1>4, <1>6
  <2>2. n(u) \in Nat
    BY <1>4
  <2>3. stack'[u] \in [1..n(u) -> Frame]
    BY <1>5, <2>1
  <2> QED BY <2>2, <2>3, FunctionIsSeq
<1>8. StacksTyped
  BY <1>3, <1>7 DEF StacksTyped
<1>9. ASSUME NEW u \in Threads, NEW i \in 1..Len(stack'[u])
      PROVE  i \in 1..Len(stack[u]) /\ Notified(t, u, i)
  <2>1. i \in 1..Len(stack[u]) /\ i \in 1..n(u)
    BY <1>4, <1>7
  <2>2. stack'[u][i] = AfterNotify(t, u, i)
    BY <1>5, <2>1
  <2>3. u = t /\ i = Len(stack[t]) => At(t, "abandon") /\ stack[u][i].pc = "abandon"
    <3>1. u = t /\ i = Len(stack[t]) => ~At(t, "notify")
      BY <1>2, <2>1 DEF n
    <3> QED BY <1>1, <1>2, <3>1 DEF At
  <2>4. /\ AfterNotify(t, u, i) \in Frame
        /\ AfterNotify(t, u, i).device = stack[u][i].device
        /\ AfterNotify(t, u, i).library = stack[u][i].library
        /\ AfterNotify(t, u, i).scope = stack[u][i].scope
        /\ AfterNotify(t, u, i).entry = stack[u][i].entry
    BY <1>6, <2>1
  <2>5. AfterNotify(t, u, i).pc =
          IF stack[u][i].pc = "asleep" /\ stack[u][i].entry = Top(t).entry
          THEN "awake"
          ELSE IF u = t /\ i = Len(stack[t]) THEN "direct" ELSE stack[u][i].pc
    BY <1>6, <2>1
  <2>6. \/ /\ stack[u][i].pc = "asleep" /\ stack[u][i].entry = Top(t).entry
           /\ AfterNotify(t, u, i).pc = "awake"
        \/ /\ u = t /\ i = Len(stack[t]) /\ At(t, "abandon")
           /\ AfterNotify(t, u, i).pc = "direct"
        \/ /\ ~(u = t /\ i = Len(stack[t]))
           /\ ~(stack[u][i].pc = "asleep" /\ stack[u][i].entry = Top(t).entry)
           /\ AfterNotify(t, u, i).pc = stack[u][i].pc
    BY <2>3, <2>5
  <2> QED BY <2>1, <2>2, <2>4, <2>6 DEF Notified
<1>10. NotifyStep(t)
  BY <1>7, <1>9 DEF NotifyStep, n
<1> QED BY <1>8, <1>10

(* Stacks stay within the bound, and foreign below the top. *)
LEMMA NotifyFrames ==
  ASSUME TypeOK, FramesOK, NEW t \in Threads, NotifyAll(t)
  PROVE  StacksTyped /\ FramesOK'
<1>1. StacksTyped /\ NotifyStep(t)
  BY NotifyFacts
<1>2. \A u \in Threads : Len(stack[u]) \in Nat /\ Len(stack'[u]) \in Nat
  BY <1>1 DEF TypeOK, StacksTyped
<1>3. ASSUME NEW u \in Threads
      PROVE  Len(stack'[u]) <= Len(stack[u]) /\ Len(stack[u]) <= MaxDepth
  BY <1>1, <1>2 DEF NotifyStep, FramesOK
<1>4. ASSUME NEW u \in Threads, NEW i \in 1..Len(stack'[u])
      PROVE  /\ LocalsOK(stack'[u][i])
             /\ i < Len(stack'[u]) => stack'[u][i].pc \in Foreign
  <2>1. i \in 1..Len(stack[u]) /\ Notified(t, u, i)
    BY <1>1 DEF NotifyStep
  <2>2. LocalsOK(stack[u][i])
    BY <2>1 DEF FramesOK
  <2>3. i < Len(stack'[u]) => stack[u][i].pc \in Foreign
    BY <2>1, <1>2, <1>3 DEF FramesOK
  <2> DEFINE f == stack[u][i]
             g == stack'[u][i]
  <2>4. /\ g.library = f.library /\ g.scope = f.scope /\ g.entry = f.entry
        /\ \/ f.pc = "asleep" /\ g.pc = "awake"
           \/ g.pc = "direct"
           \/ g.pc = f.pc
    BY <2>1 DEF Notified
  <2> HIDE DEF f, g
  <2>5. LocalsOK(f)
    BY <2>2 DEF f
  <2>6. LocalsOK(g)
    BY <2>4, <2>5 DEF LocalsOK, Holding, Waits, Producing
  <2>7. f.pc \in Foreign => g.pc \in Foreign
    BY <2>4 DEF Foreign, Retiring
  <2> QED BY <2>3, <2>6, <2>7 DEF f, g
<1>5. FramesOK'
  <2>1. \A u \in Threads : Len(stack'[u]) <= MaxDepth
    BY <1>2, <1>3, BoundAssumption
  <2> QED BY <1>4, <2>1 DEF FramesOK, LocalsOK
<1> QED BY <1>1, <1>5
-----------------------------------------------------------------------------
(* The steps of one thread: it calls, returns, or goes on. *)

Calls(t, f) == CanCall(t) /\ f \in Frame /\ LocalsOK(f) /\ stack' = Pushed(t, f)
Returns(t) == Depth(t) > 0 /\ stack' = Popped(t)
Moves(t, f) == Depth(t) > 0 /\ f \in Frame /\ LocalsOK(f) /\ stack' = Changed(t, f)

Ending == {"detached", "retired"}
Using == Waits \cup {"copying"}

(* Frame g goes on from frame f: it neither begins nor ends a flight or a  *)
(* retirement, and takes up only an entry that its lookup finds.           *)
Continues(g, f) ==
  /\ g.device = f.device /\ g.library = f.library
  /\ g.scope \in {f.scope, None}
  /\ g.pc \in Flying => f.pc \in Flying
  /\ f.pc \in Flying => g.pc \in Flying /\ g.entry = f.entry /\ g.scope = f.scope
  /\ g.pc \in Flying \ {"retaining"} =>
       f.pc # "retaining" \/ retained'[f.entry] = f.library
  /\ g.pc \in Ending => f.pc \in Ending
  /\ f.pc \in Ending => g.pc \in Ending
  /\ g.pc \in Using =>
       \/ f.pc \in Using /\ g.entry = f.entry
       \/ f.pc = "lookup" /\ g.entry = entries[f.scope][f.library]

(* Frame g is a new call. *)
Begins(g) ==
  /\ g.pc \notin Holding \cup Ending
  /\ g.scope \in {scopes[g.device], None}

QuietMove(t) ==
  \/ \E f : Calls(t, f) /\ Begins(f)
  \/ Returns(t) /\ Top(t).pc \notin Flying \cup Ending
  \/ \E f : Moves(t, f) /\ Continues(f, Top(t))

(* Frame g waits or produces as frame f does. *)
Onward(g, f) ==
  /\ g.pc \in Waits => f.pc \in Waits
  /\ g.pc = "asleep" => f.pc = "asleep" /\ g.entry = f.entry
  /\ g.pc \in Producing => f.pc \in Producing
  /\ f.pc \in Producing => g.pc \in Producing /\ g.entry = f.entry

CalmMove(t) ==
  \/ \E f : Calls(t, f) /\ f.pc \notin Producing \cup Waits
  \/ Returns(t) /\ Top(t).pc \notin Producing
  \/ \E f : Moves(t, f) /\ Onward(f, Top(t))

(* Such a step keeps the types and the shape of the stacks. *)
LEMMA MoveTyped ==
  ASSUME TypeOK, FramesOK, NEW t \in Threads, QuietMove(t) \/ CalmMove(t)
  PROVE  StacksTyped /\ FramesOK'
<1>1. \/ \E f : Calls(t, f)
      \/ Returns(t)
      \/ \E f : Moves(t, f)
  BY DEF QuietMove, CalmMove
<1>2. ASSUME NEW f, Calls(t, f) PROVE StacksTyped /\ FramesOK'
  BY <1>2, PushFrames DEF Calls
<1>3. ASSUME Returns(t) PROVE StacksTyped /\ FramesOK'
  BY <1>3, PopFrames DEF Returns
<1>4. ASSUME NEW f, Moves(t, f) PROVE StacksTyped /\ FramesOK'
  BY <1>4, ChangeFrames DEF Moves
<1> QED BY <1>1, <1>2, <1>3, <1>4

(* GotoEntry as a move. *)
LEMMA GotoMoves ==
  ASSUME TypeOK, FramesOK, NEW t \in Threads, Depth(t) > 0, NEW pc \in PC,
         NEW e \in Entries \cup {None}, stack' = GotoEntry(t, pc, e),
         pc \in Holding => e \in Entries,
         Top(t).pc \in Holding \cup {"lookup"} \/ pc \notin Holding \cup {"lookup"}
  PROVE  /\ Moves(t, AtEntry(t, pc, e))
         /\ AtEntry(t, pc, e).pc = pc
         /\ AtEntry(t, pc, e).entry = e
         /\ AtEntry(t, pc, e).scope = Top(t).scope
         /\ AtEntry(t, pc, e).library = Top(t).library
         /\ AtEntry(t, pc, e).device = Top(t).device
<1>1. Top(t) \in Frame /\ LocalsOK(Top(t))
  BY TopFacts
<1>2. stack' = Changed(t, AtEntry(t, pc, e))
  BY GotoChanged
<1> DEFINE f == AtEntry(t, pc, e)
<1>3. /\ f \in Frame /\ f.pc = pc /\ f.entry = e /\ f.scope = Top(t).scope
      /\ f.library = Top(t).library /\ f.device = Top(t).device
  BY <1>1, AtEntryFacts
<1> HIDE DEF f
<1>4. LocalsOK(f)
  BY <1>1, <1>3 DEF LocalsOK
<1>5. Moves(t, f)
  BY <1>2, <1>3, <1>4 DEF Moves, f
<1> QED BY <1>3, <1>5 DEF f

(* Goto is a move to the entry the call already has. *)
LEMMA GotoSame ==
  ASSUME TypeOK, FramesOK, NEW t \in Threads, Depth(t) > 0, NEW pc, stack' = Goto(t, pc)
  PROVE  stack' = GotoEntry(t, pc, Top(t).entry) /\ Top(t).entry \in Entries \cup {None}
<1>1. Top(t) \in Frame
  BY TopFacts
<1>2. Top(t).entry \in Entries \cup {None}
  BY <1>1 DEF Frame
<1> QED BY <1>2, GotoChanged

(* What a lookup finds is an entry. *)
LEMMA FoundFacts ==
  ASSUME TypeOK, FramesOK, NEW t \in Threads, At(t, "lookup")
  PROVE  /\ Depth(t) > 0 /\ Top(t).pc = "lookup"
         /\ Top(t).scope \in Scopes /\ Top(t).library \in Libraries
         /\ Found(t) = entries[Top(t).scope][Top(t).library]
         /\ Found(t) \in Entries \cup {None}
<1>1. Depth(t) > 0 /\ Top(t).pc = "lookup"
  BY DEF At
<1>2. LocalsOK(Top(t))
  BY <1>1, TopFacts
<1>3. Top(t).scope \in Scopes /\ Top(t).library \in Libraries
  BY <1>1, <1>2 DEF LocalsOK
<1> QED BY <1>1, <1>3 DEF Found, TypeOK

(* Which values pc has. *)
LEMMA PCs ==
  /\ PC = {"copying", "retaining", "creating", "snapshot", "direct", "detached",
           "retired", "forgetting", "notify", "abandon", "lookup", "asleep", "awake"}
  /\ Holding = {"retaining", "creating", "snapshot", "notify", "abandon", "asleep",
                "awake", "copying"}
  /\ Producing = {"retaining", "creating", "snapshot", "notify", "abandon"}
  /\ Flying = {"retaining", "creating", "snapshot"}
  /\ Waits = {"asleep", "awake"}
  /\ Using = {"asleep", "awake", "copying"}
  /\ Ending = {"detached", "retired"}
BY DEF PC, Foreign, Producing, Holding, Retiring, Waits, Using, Ending, Flying

(* Calls that find their scope, or get none. *)
LEMMA FoundQuiet ==
  ASSUME TypeOK, FramesOK, NEW t \in Threads, NEW d \in Devices, NEW l \in Libraries,
         ScopeRefused(t, d, l) \/ ScopeFound(t, d, l)
  PROVE  QuietMove(t) /\ CalmMove(t)
<1>1. \/ stack' = Pushed(t, NewFrame("direct", d, l, None))
      \/ scopes[d] # None /\ stack' = Pushed(t, NewFrame("lookup", d, l, scopes[d]))
  BY DEF ScopeRefused, ScopeFound
<1>2. CanCall(t)
  BY DEF ScopeRefused, ScopeFound
<1>3. ASSUME NEW pc \in {"direct", "lookup"}, NEW s \in Scopes \cup {None},
             pc = "lookup" => s \in Scopes, s \in {scopes[d], None},
             stack' = Pushed(t, NewFrame(pc, d, l, s))
      PROVE  QuietMove(t) /\ CalmMove(t)
  <2> DEFINE f == NewFrame(pc, d, l, s)
  <2>1. /\ f \in Frame /\ f.pc = pc /\ f.device = d /\ f.library = l /\ f.scope = s
    BY NewFrameFacts, PCs
  <2>2. stack' = Pushed(t, f)
    BY <1>3
  <2> HIDE DEF f
  <2>3. LocalsOK(f)
    BY <1>3, <2>1, PCs DEF LocalsOK
  <2>4. Begins(f)
    BY <1>3, <2>1, PCs DEF Begins
  <2>5. f.pc \notin Producing \cup Waits
    BY <2>1, PCs
  <2>6. Calls(t, f)
    BY <1>2, <2>1, <2>2, <2>3 DEF Calls
  <2> QED BY <2>4, <2>5, <2>6 DEF QuietMove, CalmMove
<1>4. scopes[d] \in Scopes \cup {None}
  BY DEF TypeOK
<1> QED BY <1>1, <1>3, <1>4

(* Moves to a pc, as quiet steps: what must be said of the step. *)
LEMMA MoveQuiet ==
  ASSUME TypeOK, FramesOK, NEW t \in Threads, Depth(t) > 0, NEW pc \in PC,
         NEW e \in Entries \cup {None}, stack' = GotoEntry(t, pc, e),
         pc \in Holding => e \in Entries,
         Top(t).pc \in Holding \cup {"lookup"},
         pc \notin Ending,
         pc \in Flying <=> Top(t).pc \in Flying,
         pc \in Flying => e = Top(t).entry,
         pc \in Flying \ {"retaining"} =>
           Top(t).pc # "retaining" \/ retained'[Top(t).entry] = Top(t).library,
         pc \in Using => \/ Top(t).pc \in Using /\ e = Top(t).entry
                         \/ Top(t).pc = "lookup" /\ e = Found(t)
  PROVE  QuietMove(t)
<1> DEFINE f == AtEntry(t, pc, e)
<1>1. /\ Moves(t, f) /\ f.pc = pc /\ f.entry = e /\ f.scope = Top(t).scope
      /\ f.library = Top(t).library /\ f.device = Top(t).device
  BY GotoMoves
<1> HIDE DEF f
<1>2. Top(t).pc \notin Ending
  BY PCs
<1>3. Continues(f, Top(t))
  BY <1>1, <1>2 DEF Continues, Found
<1> QED BY <1>1, <1>3 DEF QuietMove

(* Moves to a pc, as calm steps. *)
LEMMA MoveCalm ==
  ASSUME TypeOK, FramesOK, NEW t \in Threads, Depth(t) > 0, NEW pc \in PC,
         NEW e \in Entries \cup {None}, stack' = GotoEntry(t, pc, e),
         pc \in Holding => e \in Entries,
         Top(t).pc \in Holding \cup {"lookup"},
         pc \notin Waits,
         pc \in Producing <=> Top(t).pc \in Producing,
         pc \in Producing => e = Top(t).entry
  PROVE  CalmMove(t)
<1> DEFINE f == AtEntry(t, pc, e)
<1>1. Moves(t, f) /\ f.pc = pc /\ f.entry = e
  BY GotoMoves
<1> HIDE DEF f
<1>2. "asleep" \in Waits
  BY PCs
<1>3. Onward(f, Top(t))
  BY <1>1, <1>2 DEF Onward
<1> QED BY <1>1, <1>3 DEF CalmMove
(* Lookups that make no entry. *)
LEMMA LookupQuiet ==
  ASSUME TypeOK, FramesOK, NEW t \in Threads,
         EntryAllocFails(t) \/ Bypass(t) \/ Wait(t) \/ Hit(t)
  PROVE  QuietMove(t) /\ (~Wait(t) => CalmMove(t))
<1>1. At(t, "lookup")
  BY DEF EntryAllocFails, Bypass, Wait, Hit
<1>2. /\ Depth(t) > 0 /\ Top(t).pc = "lookup" /\ Found(t) \in Entries \cup {None}
  BY <1>1, FoundFacts
<1>3. CASE EntryAllocFails(t)
  <2>1. stack' = GotoEntry(t, "direct", Top(t).entry) /\ Top(t).entry \in Entries \cup {None}
    BY <1>2, <1>3, GotoSame DEF EntryAllocFails
  <2> QED BY <1>2, <2>1, PCs, MoveQuiet, MoveCalm
<1>4. CASE Bypass(t)
  <2>1. stack' = GotoEntry(t, "direct", Found(t))
    BY <1>4 DEF Bypass
  <2> QED BY <1>2, <2>1, PCs, MoveQuiet, MoveCalm
<1>5. CASE Wait(t)
  <2>1. stack' = GotoEntry(t, "asleep", Found(t)) /\ Found(t) \in Entries
    BY <1>2, <1>5 DEF Wait
  <2> QED BY <1>2, <1>5, <2>1, PCs, MoveQuiet
<1>6. CASE Hit(t)
  <2>1. stack' = GotoEntry(t, "copying", Found(t)) /\ Found(t) \in Entries
    BY <1>2, <1>6 DEF Hit
  <2> QED BY <1>2, <2>1, PCs, MoveQuiet, MoveCalm
<1> QED BY <1>3, <1>4, <1>5, <1>6

(* A waiter that goes on. *)
LEMMA ResumeQuiet ==
  ASSUME TypeOK, FramesOK, NEW t \in Threads, Resume(t)
  PROVE  QuietMove(t) /\ CalmMove(t)
<1>1. Depth(t) > 0 /\ Top(t).pc = "awake"
  BY DEF Resume, At
<1>2. Top(t).entry \in Entries
  BY <1>1, TopFacts, PCs DEF LocalsOK
<1>3. \/ stack' = Popped(t)
      \/ stack' = GotoEntry(t, "copying", Top(t).entry)
      \/ stack' = GotoEntry(t, "lookup", None)
  BY DEF Resume, Completed
<1>4. CASE stack' = Popped(t)
  BY <1>1, <1>4, PCs DEF QuietMove, CalmMove, Returns
<1>5. CASE stack' = GotoEntry(t, "copying", Top(t).entry)
  BY <1>1, <1>2, <1>5, PCs, MoveQuiet, MoveCalm
<1>6. CASE stack' = GotoEntry(t, "lookup", None)
  BY <1>1, <1>6, PCs, MoveQuiet, MoveCalm
<1> QED BY <1>3, <1>4, <1>5, <1>6

(* Returns from foreign code that leave the maps alone. *)
LEMMA ReturnQuiet ==
  ASSUME TypeOK, FramesOK, NEW t \in Threads,
         CopyReturns(t) \/ CreateReturns(t) \/ RetainReturns(t) \/ DirectReturns(t)
           \/ ForgetReturns(t)
  PROVE  QuietMove(t) /\ CalmMove(t)
<1>1. ASSUME NEW pc \in {"copying", "direct", "forgetting"}, At(t, pc), stack' = Popped(t)
      PROVE  QuietMove(t) /\ CalmMove(t)
  BY <1>1, PCs DEF QuietMove, CalmMove, Returns, At
<1>2. CASE DirectReturns(t)
  BY <1>1, <1>2 DEF DirectReturns
<1>3. CASE ForgetReturns(t)
  BY <1>1, <1>3 DEF ForgetReturns
<1>4. CASE CopyReturns(t)
  <2>1. At(t, "copying") /\ (stack' = Popped(t) \/ stack' = Goto(t, "direct"))
    BY <1>4 DEF CopyReturns
  <2>2. CASE stack' = Popped(t)
    BY <1>1, <2>1, <2>2
  <2>3. CASE stack' = Goto(t, "direct")
    <3>1. Depth(t) > 0 /\ Top(t).pc = "copying"
      BY <2>1 DEF At
    <3>2. stack' = GotoEntry(t, "direct", Top(t).entry)
          /\ Top(t).entry \in Entries \cup {None}
      BY <2>3, <3>1, GotoSame
    <3> QED BY <3>1, <3>2, PCs, MoveQuiet, MoveCalm
  <2> QED BY <2>1, <2>2, <2>3
<1>5. CASE CreateReturns(t) \/ RetainReturns(t)
  <2>1. PICK pc \in {"creating", "snapshot"} : stack' = Goto(t, pc)
    BY <1>5 DEF CreateReturns, RetainReturns
  <2>2. Depth(t) > 0 /\ Top(t).pc \in {"retaining", "creating"}
    BY <1>5 DEF CreateReturns, RetainReturns, At
  <2>3. stack' = GotoEntry(t, pc, Top(t).entry)
    BY <2>1, <2>2, GotoSame
  <2>4. Top(t).entry \in Entries
    BY <2>2, TopFacts, PCs DEF LocalsOK
  <2>5. Top(t).pc # "retaining" \/ retained'[Top(t).entry] = Top(t).library
    BY <1>5, <2>4 DEF CreateReturns, RetainReturns, At, Retained, TypeOK
  <2> QED BY <2>2, <2>3, <2>4, <2>5, PCs, MoveQuiet, MoveCalm
<1> QED BY <1>2, <1>3, <1>4, <1>5

(* A retirement that releases its scope. *)
LEMMA ReleaseQuiet ==
  ASSUME TypeOK, FramesOK, NEW t \in Threads, ReleaseForgotten(t)
  PROVE  QuietMove(t) /\ CalmMove(t)
<1>1. Depth(t) > 0 /\ Top(t).pc = "detached"
  BY DEF ReleaseForgotten, At
<1>2. Depth(t) = Len(stack[t]) /\ Top(t) = stack[t][Len(stack[t])] /\ Top(t) \in Frame
  BY <1>1, TopFacts
<1>3. stack' = Changed(t, Unscoped(t))
  BY <1>2 DEF ReleaseForgotten, Changed, Unscoped
<1> DEFINE f == Unscoped(t)
<1>4. /\ f \in Frame /\ f.pc = "retired" /\ f.scope = None
      /\ f.library = Top(t).library /\ f.device = Top(t).device
  BY <1>2, UnscopedFacts
<1>5. stack' = Changed(t, f)
  BY <1>3
<1> HIDE DEF f
<1>6. LocalsOK(f)
  BY <1>4, PCs DEF LocalsOK
<1>7. Moves(t, f)
  BY <1>1, <1>4, <1>5, <1>6 DEF Moves
<1>8. Continues(f, Top(t))
  BY <1>1, <1>4, PCs DEF Continues
<1>9. Onward(f, Top(t))
  BY <1>1, <1>4, PCs DEF Onward
<1> QED BY <1>7, <1>8, <1>9 DEF QuietMove, CalmMove

-----------------------------------------------------------------------------
(* Steps that leave scopes, maps and retirements alone. *)

QuietStack ==
  /\ \A u \in Threads : \A i \in 1..Len(stack'[u]) :
       \/ i \in 1..Len(stack[u]) /\ Continues(stack'[u][i], stack[u][i])
       \/ Begins(stack'[u][i])
  /\ \A u \in Threads : \A i \in 1..Len(stack[u]) :
       stack[u][i].pc \in Flying \cup Ending =>
         i \in 1..Len(stack'[u]) /\ Continues(stack'[u][i], stack[u][i])

(* A frame goes on from itself. *)
LEMMA ContinuesSelf == ASSUME NEW f PROVE Continues(f, f)
BY DEF Continues

(* The steps of one thread, frame by frame. *)
LEMMA QuietMoveStack ==
  ASSUME TypeOK, FramesOK, NEW t \in Threads, QuietMove(t)
  PROVE  QuietStack
<1> USE DEF QuietStack
<1>0. ASSUME NEW u \in Threads PROVE Len(stack[u]) \in Nat
  BY DEF TypeOK
<1>1. ASSUME NEW f, Calls(t, f), Begins(f) PROVE QuietStack
  <2>1. PushStep(t, f)
    BY <1>1, PushFacts DEF Calls
  <2>2. ASSUME NEW u \in Threads, NEW i \in 1..Len(stack[u])
        PROVE  i \in 1..Len(stack'[u]) /\ stack'[u][i] = stack[u][i]
    BY <1>0, <2>1 DEF PushStep
  <2>3. ASSUME NEW u \in Threads, NEW i \in 1..Len(stack'[u])
        PROVE  i \in 1..Len(stack[u]) \/ stack'[u][i] = f
    BY <1>0, <2>1 DEF PushStep
  <2> QED BY <1>1, <2>2, <2>3, ContinuesSelf
<1>2. ASSUME Returns(t), Top(t).pc \notin Flying \cup Ending PROVE QuietStack
  <2>1. PopStep(t)
    BY <1>2, PopFacts DEF Returns
  <2>2. Top(t) = stack[t][Len(stack[t])] /\ Len(stack[t]) > 0
    BY <1>2, TopFacts DEF Returns
  <2>3. ASSUME NEW u \in Threads, NEW i \in 1..Len(stack'[u])
        PROVE  i \in 1..Len(stack[u]) /\ stack'[u][i] = stack[u][i]
    BY <1>0, <2>1, <2>2 DEF PopStep
  <2>4. ASSUME NEW u \in Threads, NEW i \in 1..Len(stack[u]),
               stack[u][i].pc \in Flying \cup Ending
        PROVE  i \in 1..Len(stack'[u])
    <3>1. ~(u = t /\ i = Len(stack[t]))
      BY <1>2, <2>2, <2>4
    <3> QED BY <1>0, <2>1, <2>2, <3>1 DEF PopStep
  <2> QED BY <2>3, <2>4, ContinuesSelf
<1>3. ASSUME NEW f, Moves(t, f), Continues(f, Top(t)) PROVE QuietStack
  <2>1. MoveStep(t, f)
    BY <1>3, ChangeFacts DEF Moves
  <2>2. Top(t) = stack[t][Len(stack[t])] /\ Len(stack[t]) > 0
    BY <1>3, TopFacts DEF Moves
  <2>3. ASSUME NEW u \in Threads PROVE Len(stack'[u]) = Len(stack[u])
    BY <2>1 DEF MoveStep
  <2>4. ASSUME NEW u \in Threads, NEW i \in 1..Len(stack[u])
        PROVE  Continues(stack'[u][i], stack[u][i])
    <3>1. CASE u = t /\ i = Len(stack[t])
      BY <1>3, <2>1, <2>2, <3>1 DEF MoveStep
    <3>2. CASE ~(u = t /\ i = Len(stack[t]))
      <4>1. stack'[u][i] = stack[u][i]
        BY <1>0, <2>1, <3>2 DEF MoveStep
      <4> QED BY <4>1, ContinuesSelf
    <3> QED BY <3>1, <3>2
  <2> QED BY <2>3, <2>4
<1> QED BY <1>1, <1>2, <1>3 DEF QuietMove

(* notify_all, frame by frame. *)
LEMMA NotifyQuiet ==
  ASSUME TypeOK, FramesOK, NEW t \in Threads, NotifyAll(t)
  PROVE  QuietStack
<1>1. StacksTyped /\ NotifyStep(t)
  BY NotifyFacts
<1>2. ASSUME NEW u \in Threads PROVE Len(stack[u]) \in Nat /\ Len(stack'[u]) \in Nat
  BY <1>1 DEF TypeOK, StacksTyped
<1>3. Depth(t) > 0 /\ Top(t).pc \in {"notify", "abandon"}
  BY DEF NotifyAll, At
<1>4. Top(t) = stack[t][Len(stack[t])] /\ Len(stack[t]) > 0
  BY <1>3, TopFacts
<1>5. ASSUME NEW u \in Threads, NEW i \in 1..Len(stack'[u])
      PROVE  i \in 1..Len(stack[u]) /\ Continues(stack'[u][i], stack[u][i])
  <2>1. i \in 1..Len(stack[u]) /\ Notified(t, u, i)
    BY <1>1 DEF NotifyStep
  <2> DEFINE f == stack[u][i]
             g == stack'[u][i]
  <2>2. /\ g.device = f.device /\ g.library = f.library /\ g.scope = f.scope
        /\ g.entry = f.entry
        /\ \/ f.pc = "asleep" /\ g.pc = "awake"
           \/ f.pc = "abandon" /\ g.pc = "direct"
           \/ g.pc = f.pc
    BY <2>1, <1>4 DEF Notified, At
  <2> HIDE DEF f, g
  <2>3. Continues(g, f)
    BY <2>2, PCs DEF Continues
  <2> QED BY <2>1, <2>3 DEF f, g
<1>6. ASSUME NEW u \in Threads, NEW i \in 1..Len(stack[u]),
             stack[u][i].pc \in Flying \cup Ending
      PROVE  i \in 1..Len(stack'[u])
  <2>1. ~(u = t /\ i = Len(stack[t]))
    BY <1>3, <1>4, <1>6, PCs
  <2> QED BY <1>1, <1>2, <2>1 DEF NotifyStep
<1> QED BY <1>5, <1>6 DEF QuietStack
(* Such a step allocates no scope. *)
LEMMA QuietAllocates ==
  ASSUME TypeOK, TypeOK', QuietStack, scopes' = scopes, NEW s \in Scopes,
         ScopeAllocated(s)'
  PROVE  ScopeAllocated(s)
<1>1. CASE \E d \in Devices : scopes'[d] = s
  BY <1>1 DEF ScopeAllocated
<1>2. CASE \E u \in Threads : \E i \in 1..Len(stack'[u]) : stack'[u][i].scope = s
  <2>1. PICK u \in Threads : \E i \in 1..Len(stack'[u]) : stack'[u][i].scope = s
    BY <1>2
  <2>2. PICK i \in 1..Len(stack'[u]) : stack'[u][i].scope = s
    BY <2>1
  <2>3. s # None
    BY NoneAssumption
  <2>4. CASE i \in 1..Len(stack[u]) /\ Continues(stack'[u][i], stack[u][i])
    <3>1. stack[u][i].scope = s
      BY <2>2, <2>3, <2>4 DEF Continues
    <3> QED BY <2>4, <3>1 DEF ScopeAllocated, Depth
  <2>5. CASE Begins(stack'[u][i])
    <3>1. stack'[u][i] \in Frame
      BY DEF TypeOK
    <3>2. stack'[u][i].device \in Devices
      BY <3>1 DEF Frame
    <3> QED BY <2>2, <2>3, <2>5, <3>2 DEF Begins, ScopeAllocated
  <2> QED BY <2>4, <2>5 DEF QuietStack
<1> QED BY <1>1, <1>2 DEF ScopeAllocated, Depth

(* A flying frame keeps its entry's library from the retain on. *)
FlyingRetained ==
  \A t \in Threads : \A i \in 1..Len(stack[t]) :
    stack[t][i].pc \in Flying \ {"retaining"} =>
      retained[stack[t][i].entry] = stack[t][i].library

(***************************************************************************)
(* What the steps that neither begin nor end a flight have in common: the  *)
(* calls go on or new ones begin, and the maps of allocated scopes stay    *)
(* as they are.                                                            *)
(***************************************************************************)
KeptStack ==
  /\ \A u \in Threads : \A i \in 1..Len(stack'[u]) :
       \/ i \in 1..Len(stack[u]) /\ Continues(stack'[u][i], stack[u][i])
       \/ stack'[u][i].pc \notin Holding
  /\ \A u \in Threads : \A i \in 1..Len(stack[u]) : stack[u][i].pc \in Flying =>
       i \in 1..Len(stack'[u]) /\ Continues(stack'[u][i], stack[u][i])

ScopesKept ==
  \A s \in Scopes :
    /\ ScopeAllocated(s) => entries'[s] = entries[s]
    /\ ScopeAllocated(s)' => ScopeAllocated(s) \/ entries'[s] = NoEntries

(* A frame that is flying in the next state was so before. *)
LEMMA KeptFlying ==
  ASSUME KeptStack, NEW t \in Threads, NEW i \in 1..Len(stack'[t]),
         stack'[t][i].pc \in Flying
  PROVE  /\ i \in 1..Len(stack[t]) /\ stack[t][i].pc \in Flying
         /\ stack'[t][i].entry = stack[t][i].entry
         /\ stack'[t][i].scope = stack[t][i].scope
         /\ stack'[t][i].library = stack[t][i].library
         /\ Continues(stack'[t][i], stack[t][i])
<1>1. stack'[t][i].pc \in Holding
  BY PCs
<1>2. i \in 1..Len(stack[t]) /\ Continues(stack'[t][i], stack[t][i])
  BY <1>1 DEF KeptStack
<1> QED BY <1>2 DEF Continues

(* A flying frame stays flying. *)
LEMMA KeptFlies ==
  ASSUME KeptStack, NEW t \in Threads, NEW i \in 1..Len(stack[t]),
         stack[t][i].pc \in Flying
  PROVE  /\ i \in 1..Len(stack'[t]) /\ stack'[t][i].pc \in Flying
         /\ stack'[t][i].entry = stack[t][i].entry
         /\ stack'[t][i].scope = stack[t][i].scope
         /\ stack'[t][i].library = stack[t][i].library
<1>1. i \in 1..Len(stack'[t]) /\ Continues(stack'[t][i], stack[t][i])
  BY DEF KeptStack
<1> QED BY <1>1 DEF Continues

(* An entry has one producer. *)
LEMMA FlownOnce ==
  ASSUME FlightInv, NEW t \in Threads, NEW i \in 1..Len(stack[t]),
         NEW u \in Threads, NEW j \in 1..Len(stack[u]),
         stack[t][i].pc \in Flying, stack[u][j].pc \in Flying,
         stack[u][j].entry = stack[t][i].entry
  PROVE  u = t /\ j = i
BY DEF FlightInv, FlyingMapped

(* What an allocated scope maps, it mapped before. *)
LEMMA KeptMapped ==
  ASSUME ScopesKept, NEW s \in Scopes, NEW l \in Libraries, ScopeAllocated(s)',
         entries'[s][l] # None
  PROVE  ScopeAllocated(s) /\ entries'[s][l] = entries[s][l]
<1>1. entries'[s] # NoEntries
  BY DEF NoEntries
<1> QED BY <1>1 DEF ScopesKept

(* Steps that only move calls, and perhaps retain the library of an entry  *)
(* that is not cached, preserve the invariant.                             *)
LEMMA KeptFlight ==
  ASSUME TypeOK, TypeOK', FramesOK, FramesOK', FlightInv, KeptStack, ScopesKept,
         UNCHANGED <<outcome, uses, madeFrom>>, ScopesInv',
         \A e \in Entries : outcome[e] = "cached" => retained'[e] = retained[e],
         FlyingRetained'
  PROVE  FlightInv'
<1>1. FlyingMapped'
  <2> SUFFICES ASSUME NEW t \in Threads, NEW i \in 1..Len(stack'[t]),
                      stack'[t][i].pc \in Flying
               PROVE  /\ outcome'[stack'[t][i].entry] = "pending"
                      /\ entries'[stack'[t][i].scope][stack'[t][i].library]
                           = stack'[t][i].entry
                      /\ stack'[t][i].pc # "retaining" =>
                           retained'[stack'[t][i].entry] = stack'[t][i].library
                      /\ \A u \in Threads : \A j \in 1..Len(stack'[u]) :
                           stack'[u][j].pc \in Flying
                             /\ stack'[u][j].entry = stack'[t][i].entry
                             => u = t /\ j = i
    BY DEF FlyingMapped
  <2>1. /\ i \in 1..Len(stack[t]) /\ stack[t][i].pc \in Flying
        /\ stack'[t][i].entry = stack[t][i].entry
        /\ stack'[t][i].scope = stack[t][i].scope
        /\ stack'[t][i].library = stack[t][i].library
    BY KeptFlying
  <2>2. /\ outcome[stack[t][i].entry] = "pending"
        /\ entries'[stack[t][i].scope][stack[t][i].library] = stack[t][i].entry
    <3>1. /\ outcome[stack[t][i].entry] = "pending"
          /\ entries[stack[t][i].scope][stack[t][i].library] = stack[t][i].entry
      BY <2>1 DEF FlightInv, FlyingMapped
    <3>2. LocalsOK(stack[t][i])
      BY <2>1 DEF FramesOK
    <3>3. stack[t][i].scope \in Scopes
      BY <2>1, <3>2, PCs DEF LocalsOK
    <3>4. ScopeAllocated(stack[t][i].scope)
      BY <2>1 DEF ScopeAllocated, Depth
    <3> QED BY <3>1, <3>3, <3>4 DEF ScopesKept
  <2>3. stack'[t][i].pc # "retaining" =>
          retained'[stack'[t][i].entry] = stack'[t][i].library
    BY DEF FlyingRetained
  <2>4. ASSUME NEW u \in Threads, NEW j \in 1..Len(stack'[u]),
               stack'[u][j].pc \in Flying, stack'[u][j].entry = stack'[t][i].entry
        PROVE  u = t /\ j = i
    <3>1. /\ j \in 1..Len(stack[u]) /\ stack[u][j].pc \in Flying
          /\ stack'[u][j].entry = stack[u][j].entry
      BY <2>4, KeptFlying
    <3>2. stack[u][j].entry = stack[t][i].entry
      BY <2>1, <2>4, <3>1
    <3> QED BY <2>1, <3>1, <3>2, FlownOnce
  <2> QED BY <2>1, <2>2, <2>3, <2>4
<1>2. PendingFlown'
  <2> SUFFICES ASSUME NEW e \in Entries, outcome[e] = "pending"
               PROVE  \E t \in Threads : \E i \in 1..Len(stack'[t]) :
                        stack'[t][i].pc \in Flying /\ stack'[t][i].entry = e
    BY DEF PendingFlown
  <2>1. PICK t \in Threads : \E i \in 1..Len(stack[t]) :
          stack[t][i].pc \in Flying /\ stack[t][i].entry = e
    BY DEF FlightInv, PendingFlown
  <2>2. PICK i \in 1..Len(stack[t]) : stack[t][i].pc \in Flying /\ stack[t][i].entry = e
    BY <2>1
  <2>3. i \in 1..Len(stack'[t]) /\ stack'[t][i].pc \in Flying /\ stack'[t][i].entry = e
    BY <2>2, KeptFlies
  <2> QED BY <2>3
<1>3. MappedInv'
  <2> SUFFICES ASSUME NEW s \in Scopes, NEW l \in Libraries, ScopeAllocated(s)',
                      entries'[s][l] # None
               PROVE  /\ \/ /\ outcome[entries'[s][l]] = "cached"
                            /\ retained'[entries'[s][l]] = l
                         \/ \E t \in Threads : \E i \in 1..Len(stack'[t]) :
                              /\ stack'[t][i].pc \in Flying
                              /\ stack'[t][i].scope = s /\ stack'[t][i].library = l
                      /\ madeFrom[entries'[s][l]] = uses[l]
    BY DEF MappedInv
  <2>1. ScopeAllocated(s) /\ entries'[s][l] = entries[s][l]
    BY KeptMapped
  <2>2. entries[s][l] \in Entries
    BY <2>1 DEF TypeOK
  <2>3. madeFrom[entries[s][l]] = uses[l]
    BY <2>1 DEF FlightInv, MappedInv
  <2>4. CASE outcome[entries[s][l]] = "cached" /\ retained[entries[s][l]] = l
    BY <2>1, <2>2, <2>3, <2>4
  <2>5. CASE \E t \in Threads : \E i \in 1..Len(stack[t]) :
               /\ stack[t][i].pc \in Flying
               /\ stack[t][i].scope = s /\ stack[t][i].library = l
    <3>1. PICK t \in Threads : \E i \in 1..Len(stack[t]) :
               /\ stack[t][i].pc \in Flying
               /\ stack[t][i].scope = s /\ stack[t][i].library = l
      BY <2>5
    <3>2. PICK i \in 1..Len(stack[t]) :
               /\ stack[t][i].pc \in Flying
               /\ stack[t][i].scope = s /\ stack[t][i].library = l
      BY <3>1
    <3>3. /\ i \in 1..Len(stack'[t]) /\ stack'[t][i].pc \in Flying
          /\ stack'[t][i].scope = s /\ stack'[t][i].library = l
      BY <3>2, KeptFlies
    <3> QED BY <2>1, <2>3, <3>3
  <2>6. entries[s][l] # None
    BY <2>1
  <2> QED BY <2>1, <2>4, <2>5, <2>6 DEF FlightInv, MappedInv
<1>4. MappedOnce'
  BY KeptMapped DEF MappedOnce, FlightInv
<1>5. HeldInv'
  <2> SUFFICES ASSUME NEW t \in Threads, NEW i \in 1..Len(stack'[t]),
                      stack'[t][i].pc \in Using
               PROVE  madeFrom[stack'[t][i].entry] = uses[stack'[t][i].library]
    BY DEF HeldInv, Using
  <2>1. stack'[t][i].pc \in Holding
    BY PCs
  <2>2. i \in 1..Len(stack[t]) /\ Continues(stack'[t][i], stack[t][i])
    BY <2>1 DEF KeptStack
  <2>3. stack'[t][i].library = stack[t][i].library
    BY <2>2 DEF Continues
  <2>4. CASE stack[t][i].pc \in Using /\ stack'[t][i].entry = stack[t][i].entry
    BY <2>2, <2>3, <2>4 DEF FlightInv, HeldInv, Using
  <2>5. CASE /\ stack[t][i].pc = "lookup"
             /\ stack'[t][i].entry = entries[stack[t][i].scope][stack[t][i].library]
    <3>1. LocalsOK(stack[t][i]) /\ LocalsOK(stack'[t][i])
      <4>1. LocalsOK(stack[t][i])
        BY <2>2 DEF FramesOK
      <4>2. LocalsOK(stack'[t][i])
        BY DEF FramesOK, LocalsOK
      <4> QED BY <4>1, <4>2
    <3>2. stack[t][i].scope \in Scopes /\ stack[t][i].library \in Libraries
      BY <2>5, <3>1 DEF LocalsOK
    <3>3. stack'[t][i].entry \in Entries
      BY <3>1, PCs DEF LocalsOK
    <3>4. stack'[t][i].entry # None
      BY <3>3, NoneAssumption
    <3>5. ScopeAllocated(stack[t][i].scope)
      BY <2>2 DEF ScopeAllocated, Depth
    <3> QED BY <2>3, <2>5, <3>2, <3>4, <3>5 DEF FlightInv, MappedInv
  <2> QED BY <2>2, <2>4, <2>5 DEF Continues
<1> QED BY <1>1, <1>2, <1>3, <1>4, <1>5 DEF FlightInv

(* When nothing is retained or released, what is retained stays so. *)
LEMMA StillRetained ==
  ASSUME FlightInv, KeptStack, retained' = retained
  PROVE  FlyingRetained'
<1> SUFFICES ASSUME NEW t \in Threads, NEW i \in 1..Len(stack'[t]),
                    stack'[t][i].pc \in Flying \ {"retaining"}
             PROVE  retained'[stack'[t][i].entry] = stack'[t][i].library
  BY DEF FlyingRetained
<1>1. /\ i \in 1..Len(stack[t]) /\ stack[t][i].pc \in Flying
      /\ stack'[t][i].entry = stack[t][i].entry
      /\ stack'[t][i].library = stack[t][i].library
      /\ Continues(stack'[t][i], stack[t][i])
  BY KeptFlying
<1>2. CASE stack[t][i].pc # "retaining"
  BY <1>1, <1>2 DEF FlightInv, FlyingMapped
<1> QED BY <1>1, <1>2 DEF Continues

(* Quiet steps keep what the others keep, and the retirements. *)
LEMMA QuietKept ==
  ASSUME TypeOK, TypeOK', FlightInv, QuietStack, UNCHANGED <<scopes, retirements, entries>>
  PROVE  KeptStack /\ ScopesKept /\ ScopesInv'
<1>1. KeptStack
  BY DEF KeptStack, QuietStack, Begins
<1>2. ScopesKept
  BY QuietAllocates DEF ScopesKept
<1>3. ScopesInv'
  <2>1. ASSUME NEW t \in Threads, NEW i \in 1..Len(stack'[t]),
               stack'[t][i].pc \in Ending
        PROVE  [owner |-> t, depth |-> i, device |-> stack'[t][i].device] \in retirements
    <3>1. i \in 1..Len(stack[t]) /\ Continues(stack'[t][i], stack[t][i])
      BY <2>1 DEF QuietStack, Begins
    <3>2. stack[t][i].pc \in Ending /\ stack'[t][i].device = stack[t][i].device
      BY <2>1, <3>1 DEF Continues
    <3> QED BY <3>1, <3>2 DEF FlightInv, ScopesInv, Ending
  <2>2. \A c, d \in Devices : scopes'[c] # None /\ scopes'[c] = scopes'[d] => c = d
    BY DEF FlightInv, ScopesInv
  <2>3. \A r \in retirements' : scopes'[r.device] = None
    BY DEF FlightInv, ScopesInv
  <2> QED BY <2>1, <2>2, <2>3 DEF ScopesInv, Ending
<1> QED BY <1>1, <1>2, <1>3
(* A quiet step that changes nothing but the stacks. *)
LEMMA QuietKeeps ==
  ASSUME TypeOK, FramesOK, FlightInv, QuietStack, StacksTyped, FramesOK',
         UNCHANGED shared
  PROVE  TypeOK' /\ FlightInv'
<1>1. TypeOK'
  BY DEF TypeOK, StacksTyped, shared
<1>2. KeptStack /\ ScopesKept /\ ScopesInv'
  BY <1>1, QuietKept DEF shared
<1>3. FlyingRetained'
  BY <1>2, StillRetained DEF shared
<1>4. \A e \in Entries : outcome[e] = "cached" => retained'[e] = retained[e]
  BY DEF shared
<1>5. UNCHANGED <<outcome, uses, madeFrom>>
  BY DEF shared
<1> QED BY <1>1, <1>2, <1>3, <1>4, <1>5, KeptFlight

-----------------------------------------------------------------------------
(* Steps that change scopes, maps, retirements or libraries. *)

(* [library retain] returns: the entry in flight keeps its library. *)
LEMMA RetainFlight ==
  ASSUME TypeOK, FramesOK, FlightInv, NEW t \in Threads, RetainReturns(t)
  PROVE  TypeOK' /\ FramesOK' /\ FlightInv'
<1>1. QuietMove(t)
  BY ReturnQuiet
<1>2. QuietStack /\ StacksTyped /\ FramesOK'
  BY <1>1, QuietMoveStack, MoveTyped
<1>3. Depth(t) > 0 /\ Top(t).pc = "retaining"
  BY DEF RetainReturns, At
<1>4. /\ Len(stack[t]) \in 1..Len(stack[t]) /\ Top(t) = stack[t][Len(stack[t])]
      /\ LocalsOK(Top(t))
  BY <1>3, TopFacts
<1>5. Top(t).entry \in Entries /\ Top(t).library \in Libraries
  BY <1>3, <1>4, PCs DEF LocalsOK
<1>6. retained' = [retained EXCEPT ![Top(t).entry] = Top(t).library]
  BY DEF RetainReturns, Retained
<1>7. UNCHANGED <<scopes, retirements, entries, outcome, uses, madeFrom>>
  BY DEF RetainReturns
<1>8. TypeOK'
  BY <1>2, <1>5, <1>6, <1>7 DEF TypeOK, StacksTyped
<1>9. KeptStack /\ ScopesKept /\ ScopesInv'
  BY <1>2, <1>7, <1>8, QuietKept
<1>10. outcome[Top(t).entry] = "pending"
  BY <1>3, <1>4, PCs DEF FlightInv, FlyingMapped
<1>11. \A e \in Entries : outcome[e] = "cached" => retained'[e] = retained[e]
  BY <1>6, <1>10 DEF TypeOK
<1>12. FlyingRetained'
  <2> SUFFICES ASSUME NEW u \in Threads, NEW i \in 1..Len(stack'[u]),
                      stack'[u][i].pc \in Flying \ {"retaining"}
               PROVE  retained'[stack'[u][i].entry] = stack'[u][i].library
    BY DEF FlyingRetained
  <2>1. /\ i \in 1..Len(stack[u]) /\ stack[u][i].pc \in Flying
        /\ stack'[u][i].entry = stack[u][i].entry
        /\ stack'[u][i].library = stack[u][i].library
        /\ Continues(stack'[u][i], stack[u][i])
    BY <1>9, KeptFlying
  <2>2. CASE stack[u][i].pc # "retaining"
    <3>1. stack[u][i].entry # Top(t).entry
      <4>1. SUFFICES ASSUME stack[u][i].entry = Top(t).entry PROVE FALSE
        OBVIOUS
      <4>2. stack[t][Len(stack[t])].pc \in Flying
        BY <1>3, <1>4, PCs
      <4>3. u = t /\ i = Len(stack[t])
        BY <1>4, <2>1, <4>1, <4>2, FlownOnce
      <4> QED BY <1>3, <1>4, <2>2, <4>3
    <3>2. LocalsOK(stack[u][i])
      BY <2>1 DEF FramesOK
    <3>3. stack[u][i].entry \in Entries
      BY <2>1, <3>2, PCs DEF LocalsOK
    <3>4. retained'[stack[u][i].entry] = retained[stack[u][i].entry]
      BY <1>6, <3>1, <3>3 DEF TypeOK
    <3>5. retained[stack[u][i].entry] = stack[u][i].library
      BY <2>1, <2>2 DEF FlightInv, FlyingMapped
    <3> QED BY <2>1, <3>4, <3>5
  <2> QED BY <2>1, <2>2 DEF Continues
<1>13. FlightInv'
  BY <1>2, <1>7, <1>8, <1>9, <1>11, <1>12, KeptFlight
<1> QED BY <1>2, <1>8, <1>13

(* A call that begins without an entry keeps the other calls. *)
LEMMA PushKept ==
  ASSUME TypeOK, NEW t \in Threads, NEW f, PushStep(t, f), f.pc \notin Holding
  PROVE  KeptStack
<1>1. \A u \in Threads : Len(stack[u]) \in Nat
  BY DEF TypeOK
<1>2. ASSUME NEW u \in Threads, NEW i \in 1..Len(stack[u])
      PROVE  i \in 1..Len(stack'[u]) /\ stack'[u][i] = stack[u][i]
  BY <1>1 DEF PushStep
<1>3. ASSUME NEW u \in Threads, NEW i \in 1..Len(stack'[u])
      PROVE  i \in 1..Len(stack[u]) \/ stack'[u][i] = f
  BY <1>1 DEF PushStep
<1> QED BY <1>2, <1>3, ContinuesSelf DEF KeptStack

(* The scopes that are allocated once t has called with frame f. *)
LEMMA PushAllocates ==
  ASSUME TypeOK, NEW t \in Threads, NEW f, PushStep(t, f), NEW s \in Scopes
  PROVE  ScopeAllocated(s)' <=>
           \/ f.scope = s
           \/ \E d \in Devices : scopes'[d] = s
           \/ \E u \in Threads : \E i \in 1..Len(stack[u]) : stack[u][i].scope = s
<1>1. \A u \in Threads : Len(stack[u]) \in Nat
  BY DEF TypeOK
<1>2. ASSUME NEW u \in Threads, NEW i \in 1..Len(stack[u])
      PROVE  i \in 1..Len(stack'[u]) /\ stack'[u][i] = stack[u][i]
  BY <1>1 DEF PushStep
<1>3. ASSUME NEW u \in Threads, NEW i \in 1..Len(stack'[u])
      PROVE  (i \in 1..Len(stack[u]) /\ stack'[u][i] = stack[u][i]) \/ stack'[u][i] = f
  BY <1>1 DEF PushStep
<1>4. Len(stack[t]) + 1 \in 1..Len(stack'[t]) /\ stack'[t][Len(stack[t]) + 1] = f
  BY <1>1 DEF PushStep
<1>5. (\E u \in Threads : \E i \in 1..Len(stack'[u]) : stack'[u][i].scope = s)
      <=> \/ f.scope = s
          \/ \E u \in Threads : \E i \in 1..Len(stack[u]) : stack[u][i].scope = s
  <2>1. ASSUME NEW u \in Threads, NEW i \in 1..Len(stack'[u]), stack'[u][i].scope = s
        PROVE  \/ f.scope = s
               \/ \E v \in Threads : \E j \in 1..Len(stack[v]) : stack[v][j].scope = s
    BY <1>3, <2>1
  <2>2. ASSUME f.scope = s
        PROVE  \E u \in Threads : \E i \in 1..Len(stack'[u]) : stack'[u][i].scope = s
    BY <1>4, <2>2
  <2>3. ASSUME NEW u \in Threads, NEW i \in 1..Len(stack[u]), stack[u][i].scope = s
        PROVE  \E v \in Threads : \E j \in 1..Len(stack'[v]) : stack'[v][j].scope = s
    <3>1. i \in 1..Len(stack'[u]) /\ stack'[u][i].scope = s
      BY <1>2, <2>3
    <3> QED BY <3>1
  <2> QED BY <2>1, <2>2, <2>3
<1> QED BY <1>5 DEF ScopeAllocated, Depth

(* A new scope was held by nobody, and begins empty. *)
LEMMA ScopeCreatedFlight ==
  ASSUME TypeOK, FramesOK, FlightInv, NEW t \in Threads, NEW d \in Devices,
         NEW l \in Libraries, ScopeCreated(t, d, l)
  PROVE  TypeOK' /\ FramesOK' /\ FlightInv' /\ CalmMove(t)
<1>1. PICK s \in Scopes :
        /\ ~ScopeAllocated(s)
        /\ scopes' = [scopes EXCEPT ![d] = s]
        /\ entries' = [entries EXCEPT ![s] = NoEntries]
        /\ stack' = Pushed(t, NewFrame("lookup", d, l, s))
  BY DEF ScopeCreated
<1>2. /\ CanCall(t) /\ ~IsRetired(d) /\ scopes[d] = None
      /\ UNCHANGED <<retirements, outcome, retained, uses, madeFrom>>
  BY DEF ScopeCreated
<1> DEFINE f == NewFrame("lookup", d, l, s)
<1>3. f \in Frame /\ f.pc = "lookup" /\ f.device = d /\ f.library = l /\ f.scope = s
  BY NewFrameFacts, PCs
<1>4. stack' = Pushed(t, f)
  BY <1>1
<1> HIDE DEF f
<1>5. LocalsOK(f) /\ f.pc \notin Holding
  BY <1>3, PCs DEF LocalsOK
<1>6. StacksTyped /\ FramesOK'
  BY <1>2, <1>3, <1>4, <1>5, PushFrames
<1>7. NoEntries \in [Libraries -> Entries \cup {None}]
  BY DEF NoEntries
<1>8. TypeOK'
  BY <1>1, <1>2, <1>6, <1>7 DEF TypeOK, StacksTyped
<1>9. CalmMove(t)
  BY <1>2, <1>3, <1>4, <1>5, PCs DEF CalmMove, Calls
<1>10. PushStep(t, f)
  BY <1>3, <1>4, PushFacts
<1>11. KeptStack
  BY <1>5, <1>10, PushKept
<1>12. \A c \in Devices : scopes[c] # s
  BY <1>1 DEF ScopeAllocated
<1>13. ScopesKept
  <2> SUFFICES ASSUME NEW a \in Scopes
               PROVE  /\ ScopeAllocated(a) => entries'[a] = entries[a]
                      /\ ScopeAllocated(a)' => ScopeAllocated(a) \/ entries'[a] = NoEntries
    BY DEF ScopesKept
  <2>1. CASE a = s
    BY <1>1, <2>1 DEF TypeOK
  <2>2. CASE a # s
    <3>1. entries'[a] = entries[a]
      BY <1>1, <2>2 DEF TypeOK
    <3>2. (\E c \in Devices : scopes'[c] = a) => \E c \in Devices : scopes[c] = a
      BY <1>1, <2>2 DEF TypeOK
    <3>3. ScopeAllocated(a)' => ScopeAllocated(a)
      BY <1>3, <1>10, <2>2, <3>2, PushAllocates DEF ScopeAllocated, Depth
    <3> QED BY <3>1, <3>3
  <2> QED BY <2>1, <2>2
<1>14. ScopesInv'
  <2>1. \A b, c \in Devices : scopes'[b] # None /\ scopes'[b] = scopes'[c] => b = c
    BY <1>1, <1>12 DEF FlightInv, ScopesInv, TypeOK
  <2>2. \A r \in retirements' : scopes'[r.device] = None
    <3> SUFFICES ASSUME NEW r \in retirements PROVE scopes'[r.device] = None
      BY <1>2
    <3>1. r.device # d /\ scopes[r.device] = None
      BY <1>2 DEF IsRetired, FlightInv, ScopesInv
    <3>2. r.device \in Devices
      BY DEF TypeOK, Retirement
    <3> QED BY <1>1, <3>1, <3>2 DEF TypeOK
  <2>3. ASSUME NEW u \in Threads, NEW i \in 1..Len(stack'[u]), stack'[u][i].pc \in Ending
        PROVE  [owner |-> u, depth |-> i, device |-> stack'[u][i].device] \in retirements'
    <3>1. Len(stack[u]) \in Nat
      BY DEF TypeOK
    <3>2. stack'[u][i] # f
      BY <1>3, <2>3, PCs
    <3>3. i \in 1..Len(stack[u]) /\ stack'[u][i] = stack[u][i]
      BY <1>10, <3>1, <3>2 DEF PushStep
    <3> QED BY <1>2, <2>3, <3>3 DEF FlightInv, ScopesInv, Ending
  <2> QED BY <2>1, <2>2, <2>3 DEF ScopesInv, Ending
<1>15. FlyingRetained'
  BY <1>2, <1>11, StillRetained
<1>16. FlightInv'
  BY <1>2, <1>6, <1>8, <1>11, <1>13, <1>14, <1>15, KeptFlight
<1> QED BY <1>6, <1>8, <1>9, <1>16
(* forgetDevice and withDeviceRetired take the scope out of the table; the *)
(* call keeps it.                                                          *)
LEMMA DetachFlight ==
  ASSUME TypeOK, FramesOK, FlightInv, NEW t \in Threads, NEW d \in Devices,
         ForgetDevice(t, d) \/ WithDeviceRetired(t, d)
  PROVE  TypeOK' /\ FramesOK' /\ FlightInv' /\ CalmMove(t)
<1>1. PICK pc \in {"forgetting", "detached"} :
        /\ stack' = Pushed(t, NewFrame(pc, d, None, scopes[d]))
        /\ pc = "forgetting" => retirements' = retirements
        /\ pc = "detached" => retirements' = retirements \cup
             {[owner |-> t, depth |-> Depth(t) + 1, device |-> d]}
  BY DEF ForgetDevice, WithDeviceRetired
<1>2. /\ CanCall(t) /\ scopes' = [scopes EXCEPT ![d] = None]
      /\ UNCHANGED <<entries, outcome, retained, uses, madeFrom>>
  BY DEF ForgetDevice, WithDeviceRetired
<1> DEFINE f == NewFrame(pc, d, None, scopes[d])
<1>3. f \in Frame /\ f.pc = pc /\ f.device = d /\ f.scope = scopes[d]
  <2>1. scopes[d] \in Scopes \cup {None}
    BY DEF TypeOK
  <2> QED BY <2>1, NewFrameFacts, PCs
<1>4. stack' = Pushed(t, f)
  BY <1>1
<1> HIDE DEF f
<1>5. LocalsOK(f) /\ f.pc \notin Holding
  BY <1>3, PCs DEF LocalsOK
<1>6. StacksTyped /\ FramesOK'
  BY <1>2, <1>3, <1>4, <1>5, PushFrames
<1>7. retirements' \subseteq Retirement
  <2>1. Depth(t) \in Nat /\ Depth(t) + 1 \in 1..MaxDepth
    BY <1>2, BoundAssumption DEF CanCall, Depth, TypeOK
  <2>2. [owner |-> t, depth |-> Depth(t) + 1, device |-> d] \in Retirement
    BY <2>1 DEF Retirement
  <2> QED BY <1>1, <2>2 DEF TypeOK
<1>8. TypeOK'
  BY <1>2, <1>6, <1>7 DEF TypeOK, StacksTyped
<1>9. CalmMove(t)
  BY <1>2, <1>3, <1>4, <1>5, PCs DEF CalmMove, Calls
<1>10. PushStep(t, f)
  BY <1>3, <1>4, PushFacts
<1>11. KeptStack
  BY <1>5, <1>10, PushKept
<1>12. ASSUME NEW c \in Devices PROVE scopes'[c] = IF c = d THEN None ELSE scopes[c]
  BY <1>2 DEF TypeOK
<1>13. ScopesKept
  <2> SUFFICES ASSUME NEW a \in Scopes, ScopeAllocated(a)' PROVE ScopeAllocated(a)
    BY <1>2 DEF ScopesKept
  <2>1. a # None
    BY NoneAssumption
  <2>2. (\E c \in Devices : scopes'[c] = a) => \E c \in Devices : scopes[c] = a
    BY <1>12, <2>1
  <2>3. \/ f.scope = a
        \/ \E c \in Devices : scopes'[c] = a
        \/ \E u \in Threads : \E i \in 1..Len(stack[u]) : stack[u][i].scope = a
    BY <1>10, PushAllocates
  <2> QED BY <1>3, <2>2, <2>3 DEF ScopeAllocated, Depth
<1>14. ScopesInv'
  <2>1. \A b, c \in Devices : scopes'[b] # None /\ scopes'[b] = scopes'[c] => b = c
    BY <1>12 DEF FlightInv, ScopesInv
  <2>2. ASSUME NEW r \in retirements' PROVE scopes'[r.device] = None
    <3>1. r.device \in Devices
      BY <1>7 DEF Retirement
    <3>2. r \in retirements \/ r.device = d
      BY <1>1
    <3> QED BY <1>12, <3>1, <3>2 DEF FlightInv, ScopesInv
  <2>3. ASSUME NEW u \in Threads, NEW i \in 1..Len(stack'[u]), stack'[u][i].pc \in Ending
        PROVE  [owner |-> u, depth |-> i, device |-> stack'[u][i].device] \in retirements'
    <3>1. Len(stack[u]) \in Nat /\ Depth(t) = Len(stack[t])
      BY DEF TypeOK, Depth
    <3>2. CASE i \in 1..Len(stack[u]) /\ stack'[u][i] = stack[u][i]
      <4>1. [owner |-> u, depth |-> i, device |-> stack[u][i].device] \in retirements
        BY <2>3, <3>2 DEF FlightInv, ScopesInv, Ending
      <4> QED BY <1>1, <3>2, <4>1
    <3>3. CASE u = t /\ i = Len(stack[t]) + 1 /\ stack'[u][i] = f
      <4>1. pc = "detached"
        BY <1>3, <2>3, <3>3, PCs
      <4> QED BY <1>1, <1>3, <3>1, <3>3, <4>1
    <3> QED BY <1>10, <3>1, <3>2, <3>3 DEF PushStep
  <2> QED BY <2>1, <2>2, <2>3 DEF ScopesInv, Ending
<1>15. FlyingRetained'
  BY <1>2, <1>11, StillRetained
<1>16. FlightInv'
  BY <1>2, <1>6, <1>8, <1>11, <1>13, <1>14, <1>15, KeptFlight
<1> QED BY <1>6, <1>8, <1>9, <1>16

(* The end of a retirement removes that retirement only. *)
LEMMA EndFlight ==
  ASSUME TypeOK, FramesOK, FlightInv, NEW t \in Threads, EndRetirement(t)
  PROVE  TypeOK' /\ FramesOK' /\ FlightInv' /\ CalmMove(t)
<1>1. /\ Depth(t) > 0 /\ Top(t).pc = "retired" /\ stack' = Popped(t)
      /\ retirements' = retirements \
           {[owner |-> t, depth |-> Depth(t), device |-> Top(t).device]}
      /\ UNCHANGED <<scopes, entries, outcome, retained, uses, madeFrom>>
  BY DEF EndRetirement, At
<1>2. /\ Len(stack[t]) \in Nat /\ Len(stack[t]) > 0 /\ Depth(t) = Len(stack[t])
      /\ Top(t) = stack[t][Len(stack[t])]
  BY <1>1, TopFacts
<1>3. StacksTyped /\ FramesOK'
  BY <1>1, PopFrames
<1>4. TypeOK'
  BY <1>1, <1>3 DEF TypeOK, StacksTyped
<1>5. CalmMove(t)
  BY <1>1, PCs DEF CalmMove, Returns
<1>6. PopStep(t)
  BY <1>1, PopFacts
<1>7. ASSUME NEW u \in Threads, NEW i \in 1..Len(stack'[u])
      PROVE  /\ i \in 1..Len(stack[u]) /\ stack'[u][i] = stack[u][i]
             /\ ~(u = t /\ i = Len(stack[t]))
  BY <1>2, <1>6 DEF PopStep
<1>8. ASSUME NEW u \in Threads, NEW i \in 1..Len(stack[u]), stack[u][i].pc \in Flying
      PROVE  i \in 1..Len(stack'[u])
  <2>1. ~(u = t /\ i = Len(stack[t]))
    BY <1>1, <1>2, <1>8, PCs
  <2> QED BY <1>2, <1>6, <2>1 DEF PopStep
<1>9. KeptStack
  BY <1>7, <1>8, ContinuesSelf DEF KeptStack
<1>10. ScopesKept
  <2> SUFFICES ASSUME NEW a \in Scopes, ScopeAllocated(a)' PROVE ScopeAllocated(a)
    BY <1>1 DEF ScopesKept
  <2>1. CASE \E c \in Devices : scopes'[c] = a
    BY <1>1, <2>1 DEF ScopeAllocated
  <2>2. CASE \E u \in Threads : \E i \in 1..Len(stack'[u]) : stack'[u][i].scope = a
    <3>1. \E u \in Threads : \E i \in 1..Len(stack[u]) : stack[u][i].scope = a
      BY <1>7, <2>2
    <3> QED BY <3>1 DEF ScopeAllocated, Depth
  <2> QED BY <2>1, <2>2 DEF ScopeAllocated, Depth
<1>11. ScopesInv'
  <2>1. \A b, c \in Devices : scopes'[b] # None /\ scopes'[b] = scopes'[c] => b = c
    BY <1>1 DEF FlightInv, ScopesInv
  <2>2. ASSUME NEW r \in retirements' PROVE scopes'[r.device] = None
    BY <1>1 DEF FlightInv, ScopesInv
  <2>3. ASSUME NEW u \in Threads, NEW i \in 1..Len(stack'[u]), stack'[u][i].pc \in Ending
        PROVE  [owner |-> u, depth |-> i, device |-> stack'[u][i].device] \in retirements'
    <3>1. [owner |-> u, depth |-> i, device |-> stack'[u][i].device] \in retirements
      BY <1>7, <2>3 DEF FlightInv, ScopesInv, Ending
    <3>2. [owner |-> u, depth |-> i, device |-> stack'[u][i].device]
            # [owner |-> t, depth |-> Depth(t), device |-> Top(t).device]
      BY <1>2, <1>7
    <3> QED BY <1>1, <3>1, <3>2
  <2> QED BY <2>1, <2>2, <2>3 DEF ScopesInv, Ending
<1>12. FlyingRetained'
  BY <1>1, <1>9, StillRetained
<1>13. FlightInv'
  BY <1>1, <1>3, <1>4, <1>9, <1>10, <1>11, <1>12, KeptFlight
<1> QED BY <1>3, <1>4, <1>5, <1>13

(* A library whose address is reused is used by no call, so no scope maps  *)
(* an entry for it: a cached one would retain it.                          *)
LEMMA ReplacedFlight ==
  ASSUME TypeOK, FramesOK, FlightInv, NEW l \in Libraries, LibraryReplaced(l)
  PROVE  TypeOK' /\ FramesOK' /\ FlightInv'
<1>1. /\ \A t \in Threads : \A i \in 1..Len(stack[t]) : stack[t][i].library # l
      /\ \A e \in Entries : retained[e] = l => ~EntryAllocated(e)
      /\ uses' = [uses EXCEPT ![l] = @ + 1]
      /\ UNCHANGED <<scopes, retirements, entries, outcome, retained, stack, madeFrom>>
  BY DEF LibraryReplaced, Depth
<1>2. TypeOK'
  BY <1>1 DEF TypeOK
<1>3. FramesOK'
  BY <1>1 DEF FramesOK, LocalsOK
<1>4. ASSUME NEW k \in Libraries, k # l PROVE uses'[k] = uses[k]
  BY <1>1, <1>4 DEF TypeOK
<1>5. ASSUME NEW s \in Scopes, ScopeAllocated(s) PROVE entries[s][l] = None
  <2> SUFFICES ASSUME entries[s][l] # None PROVE FALSE
    OBVIOUS
  <2>1. entries[s][l] \in Entries
    BY DEF TypeOK
  <2>2. \/ outcome[entries[s][l]] = "cached" /\ retained[entries[s][l]] = l
        \/ \E t \in Threads : \E i \in 1..Len(stack[t]) : stack[t][i].library = l
    BY <1>5 DEF FlightInv, MappedInv
  <2>3. retained[entries[s][l]] = l
    BY <1>1, <2>2
  <2>4. EntryAllocated(entries[s][l])
    BY <1>5 DEF EntryAllocated
  <2> QED BY <1>1, <2>1, <2>3, <2>4
<1>6. ASSUME NEW s \in Scopes PROVE ScopeAllocated(s)' <=> ScopeAllocated(s)
  BY <1>1 DEF ScopeAllocated, Depth
<1>7. FlyingMapped' /\ PendingFlown' /\ ScopesInv'
  BY <1>1 DEF FlightInv, FlyingMapped, PendingFlown, ScopesInv
<1>8. MappedOnce'
  BY <1>1, <1>6 DEF FlightInv, MappedOnce
<1>9. MappedInv'
  <2> SUFFICES ASSUME NEW s \in Scopes, NEW k \in Libraries, ScopeAllocated(s),
                      entries[s][k] # None
               PROVE  /\ \/ /\ outcome[entries[s][k]] = "cached"
                            /\ retained[entries[s][k]] = k
                         \/ \E t \in Threads : \E i \in 1..Len(stack[t]) :
                              /\ stack[t][i].pc \in Flying
                              /\ stack[t][i].scope = s /\ stack[t][i].library = k
                      /\ madeFrom[entries[s][k]] = uses'[k]
    BY <1>1, <1>6 DEF MappedInv
  <2>1. k # l
    BY <1>5
  <2> QED BY <1>4, <2>1 DEF FlightInv, MappedInv
<1>10. HeldInv'
  <2> SUFFICES ASSUME NEW t \in Threads, NEW i \in 1..Len(stack[t]),
                      stack[t][i].pc \in Waits \cup {"copying"}
               PROVE  madeFrom[stack[t][i].entry] = uses'[stack[t][i].library]
    BY <1>1 DEF HeldInv
  <2>1. LocalsOK(stack[t][i])
    BY DEF FramesOK
  <2>2. stack[t][i].library \in Libraries /\ stack[t][i].library # l
    BY <1>1, <2>1, PCs DEF LocalsOK
  <2> QED BY <1>4, <2>2 DEF FlightInv, HeldInv
<1>11. FlightInv'
  BY <1>7, <1>8, <1>9, <1>10 DEF FlightInv
<1> QED BY <1>2, <1>3, <1>11
-----------------------------------------------------------------------------
(* Flights. *)

(* When a thread goes on, the other frames stay as they are. *)
LEMMA MovedFrames ==
  ASSUME TypeOK, NEW t \in Threads, NEW f, MoveStep(t, f), Len(stack[t]) > 0
  PROVE  /\ \A u \in Threads : Len(stack'[u]) = Len(stack[u])
         /\ Len(stack[t]) \in 1..Len(stack[t]) /\ stack'[t][Len(stack[t])] = f
         /\ \A u \in Threads : \A i \in 1..Len(stack[u]) :
              u # t \/ i # Len(stack[t]) => stack'[u][i] = stack[u][i]
<1>1. \A u \in Threads : Len(stack[u]) \in Nat
  BY DEF TypeOK
<1> QED BY <1>1 DEF MoveStep

(* A call that goes on in its scope keeps it. *)
LEMMA MoveAllocates ==
  ASSUME TypeOK, NEW t \in Threads, NEW f, MoveStep(t, f), Len(stack[t]) > 0,
         f.scope = stack[t][Len(stack[t])].scope, scopes' = scopes, NEW a \in Scopes
  PROVE  ScopeAllocated(a)' <=> ScopeAllocated(a)
<1>1. /\ \A u \in Threads : Len(stack'[u]) = Len(stack[u])
      /\ stack'[t][Len(stack[t])] = f
      /\ \A u \in Threads : \A i \in 1..Len(stack[u]) :
           u # t \/ i # Len(stack[t]) => stack'[u][i] = stack[u][i]
  BY MovedFrames
<1>2. ASSUME NEW u \in Threads, NEW i \in 1..Len(stack[u])
      PROVE  stack'[u][i].scope = stack[u][i].scope
  <2>1. CASE u = t /\ i = Len(stack[t])
    BY <1>1, <2>1
  <2>2. CASE u # t \/ i # Len(stack[t])
    BY <1>1, <2>2
  <2> QED BY <2>1, <2>2
<1>3. (\E u \in Threads : \E i \in 1..Len(stack'[u]) : stack'[u][i].scope = a)
      <=> \E u \in Threads : \E i \in 1..Len(stack[u]) : stack[u][i].scope = a
  BY <1>1, <1>2
<1> QED BY <1>3 DEF ScopeAllocated, Depth

(* Retirements and the table of scopes, when a call goes on that does not  *)
(* retire a device.                                                        *)
LEMMA MoveScopesInv ==
  ASSUME TypeOK, FlightInv, NEW t \in Threads, NEW f, MoveStep(t, f), Len(stack[t]) > 0,
         f.pc \notin Ending, UNCHANGED <<scopes, retirements>>
  PROVE  ScopesInv'
<1>1. /\ \A u \in Threads : Len(stack'[u]) = Len(stack[u])
      /\ stack'[t][Len(stack[t])] = f
      /\ \A u \in Threads : \A i \in 1..Len(stack[u]) :
           u # t \/ i # Len(stack[t]) => stack'[u][i] = stack[u][i]
  BY MovedFrames
<1>2. \A b, c \in Devices : scopes'[b] # None /\ scopes'[b] = scopes'[c] => b = c
  BY DEF FlightInv, ScopesInv
<1>3. \A r \in retirements' : scopes'[r.device] = None
  BY DEF FlightInv, ScopesInv
<1>4. ASSUME NEW u \in Threads, NEW i \in 1..Len(stack'[u]), stack'[u][i].pc \in Ending
      PROVE  [owner |-> u, depth |-> i, device |-> stack'[u][i].device] \in retirements'
  <2>1. i \in 1..Len(stack[u]) /\ (u # t \/ i # Len(stack[t]))
    BY <1>1, <1>4
  <2>2. stack'[u][i] = stack[u][i]
    BY <1>1, <2>1
  <2>3. stack[u][i].pc \in {"detached", "retired"}
    BY <1>4, <2>2 DEF Ending
  <2> QED BY <2>1, <2>2, <2>3 DEF FlightInv, ScopesInv
<1> QED BY <1>2, <1>3, <1>4 DEF ScopesInv, Ending

(* A call that becomes the producer maps an entry nobody knew. *)
LEMMA ProduceFlight ==
  ASSUME TypeOK, FramesOK, FlightInv, NEW t \in Threads, Produce(t)
  PROVE  TypeOK' /\ FramesOK' /\ FlightInv'
<1>1. /\ Depth(t) > 0 /\ Top(t).pc = "lookup" /\ Found(t) = None
      /\ Top(t).scope \in Scopes /\ Top(t).library \in Libraries
      /\ Found(t) = entries[Top(t).scope][Top(t).library]
  <2>1. At(t, "lookup") /\ Found(t) = None
    BY DEF Produce
  <2> QED BY <2>1, FoundFacts
<1>2. PICK e \in Entries :
        /\ ~EntryAllocated(e)
        /\ entries' = [entries EXCEPT ![Top(t).scope][Top(t).library] = e]
        /\ outcome' = [outcome EXCEPT ![e] = "pending"]
        /\ retained' = [retained EXCEPT ![e] = None]
        /\ madeFrom' = [madeFrom EXCEPT ![e] = uses[Top(t).library]]
        /\ stack' = GotoEntry(t, "retaining", e)
  BY DEF Produce
<1>3. UNCHANGED <<scopes, retirements, uses>>
  BY DEF Produce
<1>4. PICK s \in Scopes : s = Top(t).scope
  BY <1>1
<1>5. PICK l \in Libraries : l = Top(t).library
  BY <1>1
<1>6. PICK n : n = Len(stack[t])
  OBVIOUS
<1>7. n > 0 /\ n \in 1..Len(stack[t]) /\ Top(t) = stack[t][n]
  BY <1>1, <1>6, TopFacts
<1>8. PICK f : f = AtEntry(t, "retaining", e)
  OBVIOUS
<1>9. /\ Moves(t, f) /\ f.pc = "retaining" /\ f.entry = e /\ f.scope = s /\ f.library = l
  BY <1>1, <1>2, <1>4, <1>5, <1>8, GotoMoves, PCs
<1>10. StacksTyped /\ FramesOK'
  BY <1>9, ChangeFrames DEF Moves
<1>11. TypeOK'
  BY <1>1, <1>2, <1>3, <1>10 DEF TypeOK, StacksTyped, Outcome
<1>12. MoveStep(t, f)
  BY <1>9, ChangeFacts DEF Moves
<1>13. /\ \A u \in Threads : Len(stack'[u]) = Len(stack[u])
       /\ stack'[t][n] = f
       /\ \A u \in Threads : \A i \in 1..Len(stack[u]) :
            u # t \/ i # n => stack'[u][i] = stack[u][i]
  BY <1>6, <1>7, <1>12, MovedFrames
<1>14. \A a \in Scopes : ScopeAllocated(a)' <=> ScopeAllocated(a)
  BY <1>3, <1>4, <1>6, <1>7, <1>9, <1>12, MoveAllocates
<1>15. \A u \in Threads : \A i \in 1..Len(stack[u]) : stack[u][i].entry # e
  BY <1>2 DEF EntryAllocated, Depth
<1>16. ASSUME NEW a \in Scopes, NEW k \in Libraries, ScopeAllocated(a)
       PROVE  entries[a][k] # e
  BY <1>2, <1>16 DEF EntryAllocated
<1>17. ASSUME NEW a \in Scopes, NEW k \in Libraries
       PROVE  entries'[a][k] = IF a = s /\ k = l THEN e ELSE entries[a][k]
  BY <1>2, <1>4, <1>5 DEF TypeOK
<1>18. ASSUME NEW x \in Entries
       PROVE  /\ outcome'[x] = IF x = e THEN "pending" ELSE outcome[x]
              /\ retained'[x] = IF x = e THEN None ELSE retained[x]
              /\ madeFrom'[x] = IF x = e THEN uses[l] ELSE madeFrom[x]
  BY <1>2, <1>5 DEF TypeOK
<1>19. entries[s][l] = None
  BY <1>1, <1>4, <1>5
<1>20. ASSUME NEW u \in Threads, NEW i \in 1..Len(stack[u]), stack[u][i].pc \in Flying
       PROVE  /\ u # t \/ i # n
              /\ stack'[u][i] = stack[u][i] /\ stack[u][i].entry \in Entries
              /\ stack[u][i].scope \in Scopes /\ stack[u][i].library \in Libraries
  <2>1. u # t \/ i # n
    BY <1>1, <1>7, <1>20, PCs
  <2>2. LocalsOK(stack[u][i])
    BY DEF FramesOK
  <2> QED BY <1>13, <1>20, <2>1, <2>2, PCs DEF LocalsOK
<1>21. ASSUME NEW u \in Threads, NEW i \in 1..Len(stack'[u])
       PROVE  /\ i \in 1..Len(stack[u])
              /\ \/ u = t /\ i = n /\ stack'[u][i] = f
                 \/ (u # t \/ i # n) /\ stack'[u][i] = stack[u][i]
  BY <1>13
<1>22. FlyingMapped'
  <2> SUFFICES ASSUME NEW u \in Threads, NEW i \in 1..Len(stack'[u]),
                      stack'[u][i].pc \in Flying
               PROVE  /\ outcome'[stack'[u][i].entry] = "pending"
                      /\ entries'[stack'[u][i].scope][stack'[u][i].library]
                           = stack'[u][i].entry
                      /\ stack'[u][i].pc # "retaining" =>
                           retained'[stack'[u][i].entry] = stack'[u][i].library
                      /\ \A v \in Threads : \A j \in 1..Len(stack'[v]) :
                           stack'[v][j].pc \in Flying
                             /\ stack'[v][j].entry = stack'[u][i].entry
                             => v = u /\ j = i
    BY DEF FlyingMapped
  <2>1. CASE u = t /\ i = n /\ stack'[u][i] = f
    <3>1. outcome'[e] = "pending" /\ entries'[s][l] = e
      BY <1>17, <1>18
    <3>2. ASSUME NEW v \in Threads, NEW j \in 1..Len(stack'[v]), stack'[v][j].entry = e
          PROVE  v = t /\ j = n
      BY <1>15, <1>21, <3>2
    <3> QED BY <1>9, <2>1, <3>1, <3>2
  <2>2. CASE (u # t \/ i # n) /\ stack'[u][i] = stack[u][i]
    <3>1. i \in 1..Len(stack[u]) /\ stack[u][i].pc \in Flying
      BY <1>21, <2>2
    <3>2. PICK x \in Entries : x = stack[u][i].entry
      BY <1>20, <3>1
    <3>3. PICK a \in Scopes : a = stack[u][i].scope
      BY <1>20, <3>1
    <3>4. PICK k \in Libraries : k = stack[u][i].library
      BY <1>20, <3>1
    <3>5. x # e
      BY <1>15, <3>1, <3>2
    <3>6. /\ outcome[x] = "pending" /\ entries[a][k] = x
          /\ stack[u][i].pc # "retaining" => retained[x] = k
      BY <3>1, <3>2, <3>3, <3>4 DEF FlightInv, FlyingMapped
    <3>7. ~(a = s /\ k = l)
      BY <1>19, <3>6, NoneAssumption
    <3>8. /\ outcome'[x] = "pending" /\ entries'[a][k] = x
          /\ stack[u][i].pc # "retaining" => retained'[x] = k
      BY <1>17, <1>18, <3>5, <3>6, <3>7
    <3>9. ASSUME NEW v \in Threads, NEW j \in 1..Len(stack'[v]),
                 stack'[v][j].pc \in Flying, stack'[v][j].entry = x
          PROVE  v = u /\ j = i
      <4>1. j \in 1..Len(stack[v]) /\ stack'[v][j] = stack[v][j]
        BY <1>9, <1>21, <3>5, <3>9
      <4> QED BY <3>1, <3>2, <3>9, <4>1, FlownOnce
    <3> QED BY <2>2, <3>2, <3>3, <3>4, <3>8, <3>9
  <2> QED BY <1>21, <2>1, <2>2
<1>23. PendingFlown'
  <2> SUFFICES ASSUME NEW x \in Entries, outcome'[x] = "pending"
               PROVE  \E u \in Threads : \E i \in 1..Len(stack'[u]) :
                        stack'[u][i].pc \in Flying /\ stack'[u][i].entry = x
    BY DEF PendingFlown
  <2>1. CASE x = e
    <3>1. n \in 1..Len(stack'[t]) /\ stack'[t][n].pc \in Flying /\ stack'[t][n].entry = e
      BY <1>7, <1>9, <1>13, PCs
    <3> QED BY <2>1, <3>1
  <2>2. CASE x # e
    <3>1. outcome[x] = "pending"
      BY <1>18, <2>2
    <3>2. PICK u \in Threads : \E i \in 1..Len(stack[u]) :
            stack[u][i].pc \in Flying /\ stack[u][i].entry = x
      BY <3>1 DEF FlightInv, PendingFlown
    <3>3. PICK i \in 1..Len(stack[u]) : stack[u][i].pc \in Flying /\ stack[u][i].entry = x
      BY <3>2
    <3>4. i \in 1..Len(stack'[u]) /\ stack'[u][i] = stack[u][i]
      BY <1>13, <1>20, <3>3
    <3> QED BY <3>3, <3>4
  <2> QED BY <2>1, <2>2
<1>24. MappedInv'
  <2> SUFFICES ASSUME NEW a \in Scopes, NEW k \in Libraries, ScopeAllocated(a),
                      entries'[a][k] # None
               PROVE  /\ \/ /\ outcome'[entries'[a][k]] = "cached"
                            /\ retained'[entries'[a][k]] = k
                         \/ \E u \in Threads : \E i \in 1..Len(stack'[u]) :
                              /\ stack'[u][i].pc \in Flying
                              /\ stack'[u][i].scope = a /\ stack'[u][i].library = k
                      /\ madeFrom'[entries'[a][k]] = uses'[k]
    BY <1>14 DEF MappedInv
  <2>1. CASE a = s /\ k = l
    <3>1. /\ n \in 1..Len(stack'[t]) /\ stack'[t][n].pc \in Flying
          /\ stack'[t][n].scope = a /\ stack'[t][n].library = k
      BY <1>7, <1>9, <1>13, <2>1, PCs
    <3>2. madeFrom'[entries'[a][k]] = uses'[k]
      BY <1>3, <1>17, <1>18, <2>1
    <3> QED BY <3>1, <3>2
  <2>2. CASE ~(a = s /\ k = l)
    <3>1. entries'[a][k] = entries[a][k] /\ entries[a][k] # None
      BY <1>17, <2>2
    <3>2. PICK x \in Entries : x = entries[a][k]
      BY <3>1 DEF TypeOK
    <3>3. x # e
      BY <1>16, <3>2
    <3>4. /\ outcome'[x] = outcome[x] /\ retained'[x] = retained[x]
          /\ madeFrom'[x] = madeFrom[x]
      BY <1>18, <3>3
    <3>5. madeFrom[x] = uses[k]
      BY <3>1, <3>2 DEF FlightInv, MappedInv
    <3>6. CASE outcome[x] = "cached" /\ retained[x] = k
      BY <1>3, <3>1, <3>2, <3>4, <3>5, <3>6
    <3>7. ASSUME NEW u \in Threads, NEW i \in 1..Len(stack[u]), stack[u][i].pc \in Flying,
                 stack[u][i].scope = a, stack[u][i].library = k
          PROVE  /\ i \in 1..Len(stack'[u]) /\ stack'[u][i].pc \in Flying
                 /\ stack'[u][i].scope = a /\ stack'[u][i].library = k
      BY <1>13, <1>20, <3>7
    <3>8. \/ outcome[x] = "cached" /\ retained[x] = k
          \/ \E u \in Threads : \E i \in 1..Len(stack[u]) :
               /\ stack[u][i].pc \in Flying
               /\ stack[u][i].scope = a /\ stack[u][i].library = k
      BY <3>1, <3>2 DEF FlightInv, MappedInv
    <3> QED BY <1>3, <3>1, <3>2, <3>4, <3>5, <3>6, <3>7, <3>8
  <2> QED BY <2>1, <2>2
<1>25. MappedOnce'
  <2> SUFFICES ASSUME NEW a \in Scopes, NEW b \in Scopes, NEW k \in Libraries,
                      NEW m \in Libraries, ScopeAllocated(a), ScopeAllocated(b),
                      entries'[a][k] # None, entries'[a][k] = entries'[b][m]
               PROVE  a = b /\ k = m
    BY <1>14 DEF MappedOnce
  <2>1. entries[a][k] # e /\ entries[b][m] # e
    BY <1>16
  <2> QED BY <1>17, <2>1 DEF FlightInv, MappedOnce
<1>26. HeldInv'
  <2> SUFFICES ASSUME NEW u \in Threads, NEW i \in 1..Len(stack'[u]),
                      stack'[u][i].pc \in Using
               PROVE  madeFrom'[stack'[u][i].entry] = uses'[stack'[u][i].library]
    BY DEF HeldInv, Using
  <2>1. i \in 1..Len(stack[u]) /\ stack'[u][i] = stack[u][i]
    BY <1>9, <1>21, PCs
  <2>2. LocalsOK(stack[u][i])
    BY <2>1 DEF FramesOK
  <2>3. stack[u][i].entry \in Entries /\ stack[u][i].entry # e
    BY <1>15, <2>1, <2>2, PCs DEF LocalsOK
  <2>4. madeFrom[stack[u][i].entry] = uses[stack[u][i].library]
    BY <2>1 DEF FlightInv, HeldInv, Using
  <2> QED BY <1>3, <1>18, <2>1, <2>3, <2>4
<1>27. ScopesInv'
  BY <1>3, <1>6, <1>7, <1>9, <1>12, MoveScopesInv, PCs
<1>28. FlightInv'
  BY <1>22, <1>23, <1>24, <1>25, <1>26, <1>27 DEF FlightInv
<1> QED BY <1>10, <1>11, <1>28
(* The end of a flight. *)
Lands(t, o, pc) ==
  /\ Depth(t) > 0 /\ Top(t).pc \in Flying
  /\ o \in Outcome \ {"pending"} /\ pc \in {"notify", "abandon"}
  /\ o = "cached" => Top(t).pc = "snapshot"
  /\ Publish(t, o, pc)

(* Every publication is one. *)
LEMMA PublishLands ==
  ASSUME NEW t \in Threads, RetainFails(t) \/ CreateUncached(t) \/ SnapshotReturns(t)
  PROVE  \E o, pc : Lands(t, o, pc)
<1>1. CASE RetainFails(t)
  BY <1>1, PCs DEF RetainFails, At, Lands, Outcome
<1>2. CASE CreateUncached(t)
  BY <1>2, PCs DEF CreateUncached, At, Lands, Outcome
<1>3. CASE SnapshotReturns(t)
  BY <1>3, PCs DEF SnapshotReturns, At, Lands, Outcome
<1> QED BY <1>1, <1>2, <1>3

(* The publishing call goes on with its entry. *)
LEMMA LandMoves ==
  ASSUME TypeOK, FramesOK, NEW t \in Threads, NEW o, NEW pc, Lands(t, o, pc)
  PROVE  /\ Top(t).scope \in Scopes /\ Top(t).library \in Libraries
         /\ Top(t).entry \in Entries
         /\ Moves(t, AtEntry(t, pc, Top(t).entry))
         /\ AtEntry(t, pc, Top(t).entry).pc = pc
         /\ AtEntry(t, pc, Top(t).entry).scope = Top(t).scope
         /\ AtEntry(t, pc, Top(t).entry).library = Top(t).library
         /\ AtEntry(t, pc, Top(t).entry).device = Top(t).device
         /\ AtEntry(t, pc, Top(t).entry).entry = Top(t).entry
         /\ CalmMove(t)
<1>1. /\ Depth(t) > 0 /\ Top(t).pc \in Flying /\ pc \in {"notify", "abandon"}
      /\ stack' = Goto(t, pc)
  BY DEF Lands, Publish
<1>2. LocalsOK(Top(t))
  BY <1>1, TopFacts
<1>3. /\ Top(t).scope \in Scopes /\ Top(t).library \in Libraries
      /\ Top(t).entry \in Entries
  BY <1>1, <1>2, PCs DEF LocalsOK
<1>4. stack' = GotoEntry(t, pc, Top(t).entry)
  BY <1>1, GotoSame
<1>5. CalmMove(t)
  BY <1>1, <1>3, <1>4, PCs, MoveCalm
<1> DEFINE f == AtEntry(t, pc, Top(t).entry)
<1>6. /\ Moves(t, f) /\ f.pc = pc /\ f.scope = Top(t).scope /\ f.library = Top(t).library
      /\ f.device = Top(t).device /\ f.entry = Top(t).entry
  BY <1>1, <1>3, <1>4, PCs, GotoMoves
<1> QED BY <1>3, <1>5, <1>6

(* What publication writes. *)
LEMMA LandWrites ==
  ASSUME TypeOK, FramesOK, FlightInv, NEW t \in Threads, NEW o, NEW pc, Lands(t, o, pc)
  PROVE  /\ entries[Top(t).scope][Top(t).library] = Top(t).entry
         /\ outcome[Top(t).entry] = "pending"
         /\ o = "cached" => retained[Top(t).entry] = Top(t).library
         /\ \A a \in Scopes : \A k \in Libraries :
              entries'[a][k] = IF a = Top(t).scope /\ k = Top(t).library /\ o # "cached"
                               THEN None ELSE entries[a][k]
         /\ \A x \in Entries : outcome'[x] = IF x = Top(t).entry THEN o ELSE outcome[x]
         /\ UNCHANGED <<scopes, retirements, retained, uses, madeFrom>>
<1>1. /\ Depth(t) > 0 /\ Top(t).pc \in Flying
      /\ o = "cached" => Top(t).pc = "snapshot"
      /\ outcome' = [outcome EXCEPT ![Top(t).entry] = o]
      /\ entries' = ErasedUnlessCached(t, o)
      /\ UNCHANGED <<scopes, retirements, retained, uses, madeFrom>>
  BY DEF Lands, Publish
<1>2. /\ Top(t).scope \in Scopes /\ Top(t).library \in Libraries /\ Top(t).entry \in Entries
  BY LandMoves
<1>3. Len(stack[t]) \in 1..Len(stack[t]) /\ Top(t) = stack[t][Len(stack[t])]
  BY <1>1, TopFacts
<1>4. /\ entries[Top(t).scope][Top(t).library] = Top(t).entry
      /\ outcome[Top(t).entry] = "pending"
      /\ Top(t).pc # "retaining" => retained[Top(t).entry] = Top(t).library
  BY <1>1, <1>3 DEF FlightInv, FlyingMapped
<1>5. \A x \in Entries : outcome'[x] = IF x = Top(t).entry THEN o ELSE outcome[x]
  BY <1>1 DEF TypeOK
<1>6. \A a \in Scopes : \A k \in Libraries :
        entries'[a][k] = IF a = Top(t).scope /\ k = Top(t).library /\ o # "cached"
                         THEN None ELSE entries[a][k]
  BY <1>1, <1>2, <1>4 DEF ErasedUnlessCached, TypeOK
<1> QED BY <1>1, <1>4, <1>5, <1>6

(* A publication maps its entry on only when it is cached, and then the    *)
(* entry keeps its library.                                                *)
LEMMA LandFlight ==
  ASSUME TypeOK, FramesOK, FlightInv, NEW t \in Threads, NEW o, NEW pc, Lands(t, o, pc)
  PROVE  TypeOK' /\ FramesOK' /\ FlightInv'
<1>1. /\ Depth(t) > 0 /\ Top(t).pc \in Flying /\ pc \in {"notify", "abandon"}
      /\ o \in Outcome \ {"pending"}
  BY DEF Lands
<1>2. PICK s \in Scopes : s = Top(t).scope
  BY LandMoves
<1>3. PICK l \in Libraries : l = Top(t).library
  BY LandMoves
<1>4. PICK e \in Entries : e = Top(t).entry
  BY LandMoves
<1>5. PICK f : f = AtEntry(t, pc, Top(t).entry)
  OBVIOUS
<1>6. Moves(t, f) /\ f.pc = pc /\ f.scope = s /\ f.library = l /\ f.entry = e
  BY <1>2, <1>3, <1>4, <1>5, LandMoves
<1>7. /\ entries[s][l] = e /\ outcome[e] = "pending"
      /\ o = "cached" => retained[e] = l
  BY <1>2, <1>3, <1>4, LandWrites
<1>8. ASSUME NEW a \in Scopes, NEW k \in Libraries
      PROVE  entries'[a][k] = IF a = s /\ k = l /\ o # "cached" THEN None ELSE entries[a][k]
  BY <1>2, <1>3, LandWrites
<1>9. ASSUME NEW x \in Entries PROVE outcome'[x] = IF x = e THEN o ELSE outcome[x]
  BY <1>4, LandWrites
<1>10. UNCHANGED <<scopes, retirements, retained, uses, madeFrom>>
  BY LandWrites
<1>11. PICK n : n = Len(stack[t])
  OBVIOUS
<1>12. n > 0 /\ n \in 1..Len(stack[t]) /\ Top(t) = stack[t][n]
  BY <1>1, <1>11, TopFacts
<1>13. StacksTyped /\ FramesOK'
  BY <1>6, ChangeFrames DEF Moves
<1>14. TypeOK'
  <2>1. outcome' = [outcome EXCEPT ![e] = o] /\ entries' = ErasedUnlessCached(t, o)
    BY <1>4 DEF Lands, Publish
  <2>2. outcome' \in [Entries -> Outcome]
    BY <1>1, <2>1 DEF TypeOK
  <2>3. entries' \in [Scopes -> [Libraries -> Entries \cup {None}]]
    BY <1>2, <1>3, <2>1 DEF TypeOK, ErasedUnlessCached
  <2> QED BY <1>10, <1>13, <2>2, <2>3 DEF TypeOK, StacksTyped
<1>15. MoveStep(t, f)
  BY <1>6, ChangeFacts DEF Moves
<1>16. /\ \A u \in Threads : Len(stack'[u]) = Len(stack[u])
       /\ stack'[t][n] = f
       /\ \A u \in Threads : \A i \in 1..Len(stack[u]) :
            u # t \/ i # n => stack'[u][i] = stack[u][i]
  BY <1>11, <1>12, <1>15, MovedFrames
<1>17. \A a \in Scopes : ScopeAllocated(a)' <=> ScopeAllocated(a)
  BY <1>2, <1>6, <1>10, <1>11, <1>12, <1>15, MoveAllocates
<1>18. ASSUME NEW u \in Threads, NEW i \in 1..Len(stack'[u])
       PROVE  /\ i \in 1..Len(stack[u])
              /\ \/ u = t /\ i = n /\ stack'[u][i] = f
                 \/ (u # t \/ i # n) /\ stack'[u][i] = stack[u][i]
  BY <1>16
<1>19. ASSUME NEW u \in Threads, NEW i \in 1..Len(stack[u]), stack[u][i].pc \in Flying
       PROVE  /\ stack[u][i].entry \in Entries
              /\ stack[u][i].scope \in Scopes /\ stack[u][i].library \in Libraries
              /\ stack[u][i].entry = e => u = t /\ i = n
              /\ entries[stack[u][i].scope][stack[u][i].library] = stack[u][i].entry
  <2>1. LocalsOK(stack[u][i])
    BY DEF FramesOK
  <2>2. stack[u][i].entry = e => u = t /\ i = n
    BY <1>1, <1>4, <1>12, <1>19, FlownOnce
  <2>3. entries[stack[u][i].scope][stack[u][i].library] = stack[u][i].entry
    BY <1>19 DEF FlightInv, FlyingMapped
  <2> QED BY <1>19, <2>1, <2>2, <2>3, PCs DEF LocalsOK
<1>20. FlyingMapped'
  <2> SUFFICES ASSUME NEW u \in Threads, NEW i \in 1..Len(stack'[u]),
                      stack'[u][i].pc \in Flying
               PROVE  /\ outcome'[stack'[u][i].entry] = "pending"
                      /\ entries'[stack'[u][i].scope][stack'[u][i].library]
                           = stack'[u][i].entry
                      /\ stack'[u][i].pc # "retaining" =>
                           retained'[stack'[u][i].entry] = stack'[u][i].library
                      /\ \A v \in Threads : \A j \in 1..Len(stack'[v]) :
                           stack'[v][j].pc \in Flying
                             /\ stack'[v][j].entry = stack'[u][i].entry
                             => v = u /\ j = i
    BY DEF FlyingMapped
  <2>1. f.pc \notin Flying
    BY <1>1, <1>6, PCs
  <2>2. /\ i \in 1..Len(stack[u]) /\ (u # t \/ i # n) /\ stack'[u][i] = stack[u][i]
        /\ stack[u][i].pc \in Flying
    BY <1>18, <2>1
  <2>3. PICK x \in Entries : x = stack[u][i].entry
    BY <1>19, <2>2
  <2>4. PICK a \in Scopes : a = stack[u][i].scope
    BY <1>19, <2>2
  <2>5. PICK k \in Libraries : k = stack[u][i].library
    BY <1>19, <2>2
  <2>6. x # e /\ entries[a][k] = x
    BY <1>19, <2>2, <2>3, <2>4, <2>5
  <2>7. ~(a = s /\ k = l)
    BY <1>7, <2>6
  <2>8. outcome[x] = "pending" /\ (stack[u][i].pc # "retaining" => retained[x] = k)
    BY <2>2, <2>3, <2>5 DEF FlightInv, FlyingMapped
  <2>9. /\ outcome'[x] = "pending" /\ entries'[a][k] = x
        /\ stack[u][i].pc # "retaining" => retained'[x] = k
    BY <1>8, <1>9, <1>10, <2>6, <2>7, <2>8
  <2>10. ASSUME NEW v \in Threads, NEW j \in 1..Len(stack'[v]),
               stack'[v][j].pc \in Flying, stack'[v][j].entry = x
         PROVE  v = u /\ j = i
    <3>1. j \in 1..Len(stack[v]) /\ stack'[v][j] = stack[v][j]
      BY <1>18, <2>1, <2>10
    <3> QED BY <2>2, <2>3, <2>10, <3>1, FlownOnce
  <2> QED BY <2>2, <2>3, <2>4, <2>5, <2>9, <2>10
<1>21. PendingFlown'
  <2> SUFFICES ASSUME NEW x \in Entries, outcome'[x] = "pending"
               PROVE  \E u \in Threads : \E i \in 1..Len(stack'[u]) :
                        stack'[u][i].pc \in Flying /\ stack'[u][i].entry = x
    BY DEF PendingFlown
  <2>1. x # e /\ outcome[x] = "pending"
    BY <1>1, <1>9
  <2>2. PICK u \in Threads : \E i \in 1..Len(stack[u]) :
          stack[u][i].pc \in Flying /\ stack[u][i].entry = x
    BY <2>1 DEF FlightInv, PendingFlown
  <2>3. PICK i \in 1..Len(stack[u]) : stack[u][i].pc \in Flying /\ stack[u][i].entry = x
    BY <2>2
  <2>4. u # t \/ i # n
    BY <1>4, <1>12, <2>1, <2>3
  <2>5. i \in 1..Len(stack'[u]) /\ stack'[u][i] = stack[u][i]
    BY <1>16, <2>4
  <2> QED BY <2>3, <2>5
<1>22. ScopeAllocated(s)
  BY <1>2, <1>12 DEF ScopeAllocated, Depth
<1>23. MappedInv'
  <2> SUFFICES ASSUME NEW a \in Scopes, NEW k \in Libraries, ScopeAllocated(a),
                      entries'[a][k] # None
               PROVE  /\ \/ /\ outcome'[entries'[a][k]] = "cached"
                            /\ retained'[entries'[a][k]] = k
                         \/ \E u \in Threads : \E i \in 1..Len(stack'[u]) :
                              /\ stack'[u][i].pc \in Flying
                              /\ stack'[u][i].scope = a /\ stack'[u][i].library = k
                      /\ madeFrom'[entries'[a][k]] = uses'[k]
    BY <1>17 DEF MappedInv
  <2>1. entries'[a][k] = entries[a][k] /\ entries[a][k] # None
    BY <1>8
  <2>2. madeFrom'[entries'[a][k]] = uses'[k]
    BY <1>10, <2>1 DEF FlightInv, MappedInv
  <2>3. CASE a = s /\ k = l
    <3>1. o = "cached"
      BY <1>8, <2>3
    <3>2. outcome'[entries'[a][k]] = "cached" /\ retained'[entries'[a][k]] = k
      BY <1>7, <1>9, <1>10, <2>1, <2>3, <3>1
    <3> QED BY <2>2, <3>2
  <2>4. CASE ~(a = s /\ k = l)
    <3>1. PICK x \in Entries : x = entries[a][k]
      BY <2>1 DEF TypeOK
    <3>2. x # e
      BY <1>7, <1>22, <2>1, <2>4, <3>1 DEF FlightInv, MappedOnce
    <3>3. outcome'[x] = outcome[x] /\ retained'[x] = retained[x]
      BY <1>9, <1>10, <3>2
    <3>4. CASE outcome[x] = "cached" /\ retained[x] = k
      BY <2>1, <2>2, <3>1, <3>3, <3>4
    <3>5. ASSUME NEW u \in Threads, NEW i \in 1..Len(stack[u]), stack[u][i].pc \in Flying,
                 stack[u][i].scope = a, stack[u][i].library = k
          PROVE  /\ i \in 1..Len(stack'[u]) /\ stack'[u][i].pc \in Flying
                 /\ stack'[u][i].scope = a /\ stack'[u][i].library = k
      <4>1. u # t \/ i # n
        BY <1>2, <1>3, <1>12, <2>4, <3>5
      <4> QED BY <1>16, <3>5, <4>1
    <3>6. \/ outcome[x] = "cached" /\ retained[x] = k
          \/ \E u \in Threads : \E i \in 1..Len(stack[u]) :
               /\ stack[u][i].pc \in Flying
               /\ stack[u][i].scope = a /\ stack[u][i].library = k
      BY <2>1, <3>1 DEF FlightInv, MappedInv
    <3> QED BY <2>2, <3>4, <3>5, <3>6
  <2> QED BY <2>3, <2>4
<1>24. MappedOnce'
  <2> SUFFICES ASSUME NEW a \in Scopes, NEW b \in Scopes, NEW k \in Libraries,
                      NEW m \in Libraries, ScopeAllocated(a), ScopeAllocated(b),
                      entries'[a][k] # None, entries'[a][k] = entries'[b][m]
               PROVE  a = b /\ k = m
    BY <1>17 DEF MappedOnce
  <2>1. entries'[a][k] = entries[a][k] /\ entries'[b][m] = entries[b][m]
    BY <1>8
  <2> QED BY <2>1 DEF FlightInv, MappedOnce
<1>25. HeldInv'
  <2> SUFFICES ASSUME NEW u \in Threads, NEW i \in 1..Len(stack'[u]),
                      stack'[u][i].pc \in Using
               PROVE  madeFrom'[stack'[u][i].entry] = uses'[stack'[u][i].library]
    BY DEF HeldInv, Using
  <2>1. i \in 1..Len(stack[u]) /\ stack'[u][i] = stack[u][i]
    BY <1>1, <1>6, <1>18, PCs
  <2>2. madeFrom[stack[u][i].entry] = uses[stack[u][i].library]
    BY <2>1 DEF FlightInv, HeldInv, Using
  <2> QED BY <1>10, <2>1, <2>2
<1>26. ScopesInv'
  <2>1. f.pc \notin Ending
    BY <1>1, <1>6, PCs
  <2> QED BY <1>10, <1>11, <1>12, <1>15, <2>1, MoveScopesInv
<1>27. FlightInv'
  BY <1>20, <1>21, <1>23, <1>24, <1>25, <1>26 DEF FlightInv
<1> QED BY <1>13, <1>14, <1>27
-----------------------------------------------------------------------------
(* Waiters. *)

CalmStack ==
  /\ \A u \in Threads : \A i \in 1..Len(stack'[u]) :
       \/ i \in 1..Len(stack[u]) /\ Onward(stack'[u][i], stack[u][i])
       \/ stack'[u][i].pc \notin Producing \cup Waits
  /\ \A u \in Threads : \A i \in 1..Len(stack[u]) : stack[u][i].pc \in Producing =>
       i \in 1..Len(stack'[u]) /\ Onward(stack'[u][i], stack[u][i])

(* A frame waits or produces as itself. *)
LEMMA OnwardSelf == ASSUME NEW f PROVE Onward(f, f)
BY DEF Onward

(* Calm steps, frame by frame. *)
LEMMA CalmMoveStack ==
  ASSUME TypeOK, FramesOK, NEW t \in Threads, CalmMove(t)
  PROVE  CalmStack
<1> USE DEF CalmStack
<1>0. ASSUME NEW u \in Threads PROVE Len(stack[u]) \in Nat
  BY DEF TypeOK
<1>1. ASSUME NEW f, Calls(t, f), f.pc \notin Producing \cup Waits PROVE CalmStack
  <2>1. PushStep(t, f)
    BY <1>1, PushFacts DEF Calls
  <2>2. ASSUME NEW u \in Threads, NEW i \in 1..Len(stack[u])
        PROVE  i \in 1..Len(stack'[u]) /\ stack'[u][i] = stack[u][i]
    BY <1>0, <2>1 DEF PushStep
  <2>3. ASSUME NEW u \in Threads, NEW i \in 1..Len(stack'[u])
        PROVE  i \in 1..Len(stack[u]) \/ stack'[u][i] = f
    BY <1>0, <2>1 DEF PushStep
  <2> QED BY <1>1, <2>2, <2>3, OnwardSelf
<1>2. ASSUME Returns(t), Top(t).pc \notin Producing PROVE CalmStack
  <2>1. PopStep(t)
    BY <1>2, PopFacts DEF Returns
  <2>2. Top(t) = stack[t][Len(stack[t])] /\ Len(stack[t]) > 0
    BY <1>2, TopFacts DEF Returns
  <2>3. ASSUME NEW u \in Threads, NEW i \in 1..Len(stack'[u])
        PROVE  i \in 1..Len(stack[u]) /\ stack'[u][i] = stack[u][i]
    BY <1>0, <2>1, <2>2 DEF PopStep
  <2>4. ASSUME NEW u \in Threads, NEW i \in 1..Len(stack[u]), stack[u][i].pc \in Producing
        PROVE  i \in 1..Len(stack'[u])
    <3>1. ~(u = t /\ i = Len(stack[t]))
      BY <1>2, <2>2, <2>4
    <3> QED BY <1>0, <2>1, <2>2, <3>1 DEF PopStep
  <2> QED BY <2>3, <2>4, OnwardSelf
<1>3. ASSUME NEW f, Moves(t, f), Onward(f, Top(t)) PROVE CalmStack
  <2>1. MoveStep(t, f)
    BY <1>3, ChangeFacts DEF Moves
  <2>2. Top(t) = stack[t][Len(stack[t])] /\ Len(stack[t]) > 0
    BY <1>3, TopFacts DEF Moves
  <2>3. ASSUME NEW u \in Threads PROVE Len(stack'[u]) = Len(stack[u])
    BY <2>1 DEF MoveStep
  <2>4. ASSUME NEW u \in Threads, NEW i \in 1..Len(stack[u])
        PROVE  Onward(stack'[u][i], stack[u][i])
    <3>1. CASE u = t /\ i = Len(stack[t])
      BY <1>3, <2>1, <2>2, <3>1 DEF MoveStep
    <3>2. CASE ~(u = t /\ i = Len(stack[t]))
      <4>1. stack'[u][i] = stack[u][i]
        BY <1>0, <2>1, <3>2 DEF MoveStep
      <4> QED BY <4>1, OnwardSelf
    <3> QED BY <3>1, <3>2
  <2> QED BY <2>3, <2>4
<1> QED BY <1>1, <1>2, <1>3 DEF CalmMove

(* Steps that neither wait nor begin or end a production. *)
LEMMA CalmWaiters ==
  ASSUME TypeOK, FramesOK, WaiterInv, NEW t \in Threads, CalmMove(t)
  PROVE  WaiterInv'
<1>1. CalmStack
  BY CalmMoveStack
<1>2. ASSUME NEW u \in Threads, NEW i \in 1..Len(stack'[u]), stack'[u][i].pc \in Waits
      PROVE  /\ i \in 1..Len(stack[u]) /\ stack[u][i].pc \in Waits
             /\ stack'[u][i].pc = "asleep" =>
                  stack[u][i].pc = "asleep" /\ stack'[u][i].entry = stack[u][i].entry
  BY <1>1, <1>2 DEF CalmStack, Onward
<1>3. ASSUME NEW u \in Threads, NEW i \in 1..Len(stack'[u]), stack'[u][i].pc \in Producing
      PROVE  i \in 1..Len(stack[u]) /\ stack[u][i].pc \in Producing
  BY <1>1, <1>3 DEF CalmStack, Onward
<1>4. ASSUME NEW u \in Threads, NEW i \in 1..Len(stack'[u]), stack'[u][i].pc \in Waits,
             NEW j \in 1..Len(stack'[u])
      PROVE  stack'[u][j].pc \notin Producing
  BY <1>2, <1>3, <1>4 DEF WaiterInv
<1>5. ASSUME NEW u \in Threads, NEW i \in 1..Len(stack'[u]), stack'[u][i].pc = "asleep"
      PROVE  \E v \in Threads : \E j \in 1..Len(stack'[v]) :
               stack'[v][j].pc \in Producing /\ stack'[v][j].entry = stack'[u][i].entry
  <2>1. /\ i \in 1..Len(stack[u]) /\ stack[u][i].pc = "asleep"
        /\ stack'[u][i].entry = stack[u][i].entry
    BY <1>2, <1>5, PCs
  <2>2. PICK v \in Threads : \E j \in 1..Len(stack[v]) :
          stack[v][j].pc \in Producing /\ stack[v][j].entry = stack[u][i].entry
    BY <2>1 DEF WaiterInv
  <2>3. PICK j \in 1..Len(stack[v]) :
          stack[v][j].pc \in Producing /\ stack[v][j].entry = stack[u][i].entry
    BY <2>2
  <2>4. /\ j \in 1..Len(stack'[v]) /\ stack'[v][j].pc \in Producing
        /\ stack'[v][j].entry = stack[v][j].entry
    BY <1>1, <2>3 DEF CalmStack, Onward
  <2> QED BY <2>1, <2>3, <2>4
<1> QED BY <1>4, <1>5 DEF WaiterInv

(* A call waits only outside every production, for an entry in flight. *)
LEMMA WaitWaiters ==
  ASSUME TypeOK, FramesOK, FlightInv, WaiterInv, NEW t \in Threads, Wait(t)
  PROVE  WaiterInv'
<1>1. /\ Depth(t) > 0 /\ Top(t).pc = "lookup"
      /\ outcome[Found(t)] = "pending" /\ ~InProducer(t)
      /\ stack' = GotoEntry(t, "asleep", Found(t))
  BY DEF Wait, At
<1>2. PICK e \in Entries : e = Found(t)
  <2>1. At(t, "lookup") /\ Found(t) # None
    BY DEF Wait
  <2>2. Found(t) \in Entries
    BY <2>1, FoundFacts
  <2> QED BY <2>2
<1>3. PICK f : f = AtEntry(t, "asleep", Found(t))
  OBVIOUS
<1>4. Moves(t, f) /\ f.pc = "asleep" /\ f.entry = e
  BY <1>1, <1>2, <1>3, GotoMoves, PCs
<1>5. PICK n : n = Len(stack[t])
  OBVIOUS
<1>6. n > 0 /\ n \in 1..Len(stack[t]) /\ Top(t) = stack[t][n]
  BY <1>1, <1>5, TopFacts
<1>7. /\ \A u \in Threads : Len(stack'[u]) = Len(stack[u])
      /\ stack'[t][n] = f
      /\ \A u \in Threads : \A i \in 1..Len(stack[u]) :
           u # t \/ i # n => stack'[u][i] = stack[u][i]
  <2>1. MoveStep(t, f)
    BY <1>4, ChangeFacts DEF Moves
  <2> QED BY <1>5, <1>6, <2>1, MovedFrames
<1>8. ASSUME NEW u \in Threads, NEW i \in 1..Len(stack[u]), stack[u][i].pc \in Producing
      PROVE  i \in 1..Len(stack'[u]) /\ stack'[u][i] = stack[u][i]
  <2>1. u # t \/ i # n
    BY <1>1, <1>6, <1>8, PCs
  <2> QED BY <1>7, <2>1
<1>9. \A i \in 1..Len(stack'[t]) : stack'[t][i].pc \notin Producing
  <2> SUFFICES ASSUME NEW i \in 1..Len(stack'[t]), stack'[t][i].pc \in Producing
               PROVE  FALSE
    OBVIOUS
  <2>1. i \in 1..Len(stack[t]) /\ i # n
    BY <1>4, <1>7, PCs
  <2>2. stack[t][i].pc \in Producing
    BY <1>7, <2>1
  <2> QED BY <1>1, <2>1, <2>2 DEF InProducer, Depth
<1>10. ASSUME NEW u \in Threads, NEW i \in 1..Len(stack'[u]), stack'[u][i].pc \in Waits,
              NEW j \in 1..Len(stack'[u])
       PROVE  stack'[u][j].pc \notin Producing
  <2>1. CASE u = t
    BY <1>9, <2>1
  <2>2. CASE u # t
    BY <1>7, <1>10, <2>2 DEF WaiterInv
  <2> QED BY <2>1, <2>2
<1>11. ASSUME NEW u \in Threads, NEW i \in 1..Len(stack'[u]), stack'[u][i].pc = "asleep"
       PROVE  \E v \in Threads : \E j \in 1..Len(stack'[v]) :
                stack'[v][j].pc \in Producing /\ stack'[v][j].entry = stack'[u][i].entry
  <2>1. \E v \in Threads : \E j \in 1..Len(stack[v]) :
          stack[v][j].pc \in Producing /\ stack[v][j].entry = stack'[u][i].entry
    <3>1. CASE u = t /\ i = n
      <4>1. \E v \in Threads : \E j \in 1..Len(stack[v]) :
              stack[v][j].pc \in Flying /\ stack[v][j].entry = e
        BY <1>1, <1>2 DEF FlightInv, PendingFlown
      <4> QED BY <1>4, <1>7, <3>1, <4>1, PCs
    <3>2. CASE u # t \/ i # n
      <4>1. i \in 1..Len(stack[u]) /\ stack'[u][i] = stack[u][i]
        BY <1>7, <3>2
      <4> QED BY <1>11, <4>1 DEF WaiterInv
    <3> QED BY <3>1, <3>2
  <2>2. PICK v \in Threads : \E j \in 1..Len(stack[v]) :
          stack[v][j].pc \in Producing /\ stack[v][j].entry = stack'[u][i].entry
    BY <2>1
  <2>3. PICK j \in 1..Len(stack[v]) :
          stack[v][j].pc \in Producing /\ stack[v][j].entry = stack'[u][i].entry
    BY <2>2
  <2>4. j \in 1..Len(stack'[v]) /\ stack'[v][j] = stack[v][j]
    BY <1>8, <2>3
  <2> QED BY <2>3, <2>4
<1> QED BY <1>10, <1>11 DEF WaiterInv

(* A call that becomes a producer does not wait. *)
LEMMA ProduceWaiters ==
  ASSUME TypeOK, FramesOK, WaiterInv, NEW t \in Threads, Produce(t)
  PROVE  WaiterInv'
<1>1. Depth(t) > 0 /\ Top(t).pc = "lookup"
  BY DEF Produce, At
<1>2. PICK e \in Entries : stack' = GotoEntry(t, "retaining", e)
  BY DEF Produce
<1>3. PICK f : f = AtEntry(t, "retaining", e)
  OBVIOUS
<1>4. Moves(t, f) /\ f.pc = "retaining"
  BY <1>1, <1>2, <1>3, GotoMoves, PCs
<1>5. PICK n : n = Len(stack[t])
  OBVIOUS
<1>6. n > 0 /\ n \in 1..Len(stack[t]) /\ Top(t) = stack[t][n]
  BY <1>1, <1>5, TopFacts
<1>7. /\ \A u \in Threads : Len(stack'[u]) = Len(stack[u])
      /\ stack'[t][n] = f
      /\ \A u \in Threads : \A i \in 1..Len(stack[u]) :
           u # t \/ i # n => stack'[u][i] = stack[u][i]
  <2>1. MoveStep(t, f)
    BY <1>4, ChangeFacts DEF Moves
  <2> QED BY <1>5, <1>6, <2>1, MovedFrames
<1>8. ASSUME NEW u \in Threads, NEW i \in 1..Len(stack'[u]), stack'[u][i].pc \in Waits
      PROVE  u # t /\ i \in 1..Len(stack[u]) /\ stack'[u] = stack[u]
  <2>1. i # n \/ u # t
    BY <1>4, <1>7, <1>8, PCs
  <2>2. CASE u = t
    <3>1. i \in 1..Len(stack[t]) /\ i < Len(stack[t])
      BY <1>5, <1>6, <1>7, <2>1, <2>2
    <3>2. stack[t][i].pc \in Foreign
      BY <3>1 DEF FramesOK
    <3>3. stack[t][i].pc \in Waits
      BY <1>7, <1>8, <2>1, <2>2, <3>1
    <3> QED BY <3>2, <3>3, PCs DEF Foreign, Retiring
  <2>3. CASE u # t
    <3>1. MoveStep(t, f)
      BY <1>4, ChangeFacts DEF Moves
    <3> QED BY <1>7, <2>3, <3>1 DEF MoveStep
  <2> QED BY <2>2, <2>3
<1>9. ASSUME NEW u \in Threads, NEW i \in 1..Len(stack'[u]), stack'[u][i].pc \in Waits,
             NEW j \in 1..Len(stack'[u])
      PROVE  stack'[u][j].pc \notin Producing
  BY <1>8, <1>9 DEF WaiterInv
<1>10. ASSUME NEW u \in Threads, NEW i \in 1..Len(stack'[u]), stack'[u][i].pc = "asleep"
       PROVE  \E v \in Threads : \E j \in 1..Len(stack'[v]) :
                stack'[v][j].pc \in Producing /\ stack'[v][j].entry = stack'[u][i].entry
  <2>1. i \in 1..Len(stack[u]) /\ stack'[u] = stack[u]
    BY <1>8, <1>10, PCs
  <2>2. PICK v \in Threads : \E j \in 1..Len(stack[v]) :
          stack[v][j].pc \in Producing /\ stack[v][j].entry = stack[u][i].entry
    BY <1>10, <2>1 DEF WaiterInv
  <2>3. PICK j \in 1..Len(stack[v]) :
          stack[v][j].pc \in Producing /\ stack[v][j].entry = stack[u][i].entry
    BY <2>2
  <2>4. v # t \/ j # n
    BY <1>1, <1>6, <2>3, PCs
  <2>5. j \in 1..Len(stack'[v]) /\ stack'[v][j] = stack[v][j]
    BY <1>7, <2>4
  <2> QED BY <2>1, <2>3, <2>5
<1> QED BY <1>9, <1>10 DEF WaiterInv

(* notify_all leaves nobody asleep on its entry. *)
LEMMA NotifyWaiters ==
  ASSUME TypeOK, FramesOK, WaiterInv, NEW t \in Threads, NotifyAll(t)
  PROVE  WaiterInv'
<1>1. StacksTyped /\ NotifyStep(t)
  BY NotifyFacts
<1>2. Depth(t) > 0 /\ Top(t).pc \in {"notify", "abandon"}
  BY DEF NotifyAll, At
<1>3. /\ Len(stack[t]) \in Nat /\ Len(stack[t]) > 0 /\ Top(t) = stack[t][Len(stack[t])]
      /\ Len(stack[t]) \in 1..Len(stack[t])
  BY <1>2, TopFacts
<1>4. ASSUME NEW u \in Threads, NEW i \in 1..Len(stack'[u])
      PROVE  /\ i \in 1..Len(stack[u])
             /\ stack'[u][i].entry = stack[u][i].entry
             /\ \/ stack[u][i].pc = "asleep" /\ stack'[u][i].pc = "awake"
                \/ stack'[u][i].pc = "direct"
                \/ /\ stack'[u][i].pc = stack[u][i].pc
                   /\ ~(stack[u][i].pc = "asleep" /\ stack[u][i].entry = Top(t).entry)
  BY <1>1 DEF NotifyStep, Notified
<1>5. ASSUME NEW u \in Threads, NEW i \in 1..Len(stack[u]), stack[u][i].pc \in Producing,
             stack[u][i].entry # Top(t).entry
      PROVE  i \in 1..Len(stack'[u]) /\ stack'[u][i].pc = stack[u][i].pc
  <2>1. u # t \/ i # Len(stack[t])
    BY <1>3, <1>5
  <2>2. Len(stack[u]) \in Nat
    BY DEF TypeOK
  <2>3. i \in 1..Len(stack'[u])
    BY <1>1, <1>3, <2>1, <2>2 DEF NotifyStep
  <2>4. Notified(t, u, i)
    BY <1>1, <2>3 DEF NotifyStep
  <2>5. stack[u][i].pc # "asleep"
    BY <1>5, PCs
  <2> QED BY <2>1, <2>3, <2>4, <2>5 DEF Notified
<1>6. ASSUME NEW u \in Threads, NEW i \in 1..Len(stack'[u]), stack'[u][i].pc \in Waits,
             NEW j \in 1..Len(stack'[u])
      PROVE  stack'[u][j].pc \notin Producing
  <2>1. i \in 1..Len(stack[u]) /\ stack[u][i].pc \in Waits
    BY <1>4, <1>6, PCs
  <2>2. j \in 1..Len(stack[u]) /\ stack[u][j].pc \notin Producing
    BY <1>4, <2>1 DEF WaiterInv
  <2> QED BY <1>4, <2>2, PCs
<1>7. ASSUME NEW u \in Threads, NEW i \in 1..Len(stack'[u]), stack'[u][i].pc = "asleep"
      PROVE  \E v \in Threads : \E j \in 1..Len(stack'[v]) :
               stack'[v][j].pc \in Producing /\ stack'[v][j].entry = stack'[u][i].entry
  <2>1. /\ i \in 1..Len(stack[u]) /\ stack[u][i].pc = "asleep"
        /\ stack[u][i].entry # Top(t).entry /\ stack'[u][i].entry = stack[u][i].entry
    BY <1>4, <1>7
  <2>2. PICK v \in Threads : \E j \in 1..Len(stack[v]) :
          stack[v][j].pc \in Producing /\ stack[v][j].entry = stack[u][i].entry
    BY <2>1 DEF WaiterInv
  <2>3. PICK j \in 1..Len(stack[v]) :
          stack[v][j].pc \in Producing /\ stack[v][j].entry = stack[u][i].entry
    BY <2>2
  <2>4. j \in 1..Len(stack'[v]) /\ stack'[v][j].pc = stack[v][j].pc
    BY <1>5, <2>1, <2>3
  <2>5. stack'[v][j].entry = stack[v][j].entry
    BY <1>4, <2>4
  <2> QED BY <2>1, <2>3, <2>4, <2>5
<1> QED BY <1>6, <1>7 DEF WaiterInv
-----------------------------------------------------------------------------
(* The invariant, step by step. *)

(* Nothing runs at first. *)
LEMMA InitInv == Init => FunctionInv
<1> SUFFICES ASSUME Init PROVE FunctionInv
  OBVIOUS
<1>1. \A t \in Threads : stack[t] = <<>> /\ Len(stack[t]) = 0
  BY DEF Init
<1>2. TypeOK
  <2>1. /\ scopes \in [Devices -> Scopes \cup {None}]
        /\ retirements \subseteq Retirement
        /\ entries \in [Scopes -> [Libraries -> Entries \cup {None}]]
        /\ outcome \in [Entries -> Outcome]
        /\ retained \in [Entries -> Libraries \cup {None}]
        /\ uses \in [Libraries -> Nat]
        /\ madeFrom \in [Entries -> Nat]
    BY DEF Init, NoEntries, Outcome
  <2>2. stack \in [Threads -> Seq(Frame)]
    BY DEF Init
  <2> QED BY <2>1, <2>2 DEF TypeOK
<1>3. FramesOK
  <2> SUFFICES ASSUME NEW t \in Threads
               PROVE  /\ Len(stack[t]) <= MaxDepth
                      /\ \A i \in 1..Len(stack[t]) :
                           /\ LocalsOK(stack[t][i])
                           /\ i < Len(stack[t]) => stack[t][i].pc \in Foreign
    BY DEF FramesOK
  <2>1. Len(stack[t]) = 0
    BY <1>1
  <2>2. 1..Len(stack[t]) = {}
    BY <2>1
  <2>3. Len(stack[t]) <= MaxDepth
    BY <2>1, BoundAssumption
  <2> QED BY <2>2, <2>3
<1>4. WaiterInv
  BY <1>1 DEF WaiterInv
<1>5. FlyingMapped /\ HeldInv
  BY <1>1 DEF FlyingMapped, HeldInv
<1>6. PendingFlown
  BY DEF PendingFlown, Init
<1>7. MappedInv /\ MappedOnce
  BY DEF MappedInv, MappedOnce, Init, NoEntries
<1>8. ScopesInv
  BY <1>1 DEF ScopesInv, Init
<1> QED BY <1>2, <1>3, <1>4, <1>5, <1>6, <1>7, <1>8 DEF FunctionInv, FlightInv

(* Quiet and calm steps preserve the invariant. *)
LEMMA MoveInv ==
  ASSUME FunctionInv, NEW t \in Threads, QuietMove(t), CalmMove(t), UNCHANGED shared
  PROVE  FunctionInv'
<1> USE DEF FunctionInv
<1>1. QuietStack /\ StacksTyped /\ FramesOK'
  BY QuietMoveStack, MoveTyped
<1>2. TypeOK' /\ FlightInv'
  BY <1>1, QuietKeeps
<1>3. WaiterInv'
  BY CalmWaiters
<1> QED BY <1>1, <1>2, <1>3

(* Every call of getOrCreate preserves the invariant. *)
LEMMA CallInv ==
  ASSUME FunctionInv, NEW t \in Threads, Call(t)
  PROVE  FunctionInv'
<1>1. PICK d \in Devices, l \in Libraries :
        ScopeRefused(t, d, l) \/ ScopeFound(t, d, l) \/ ScopeCreated(t, d, l)
  BY DEF Call
<1>2. TypeOK /\ FramesOK /\ FlightInv /\ WaiterInv
  BY DEF FunctionInv
<1>3. CASE ScopeRefused(t, d, l) \/ ScopeFound(t, d, l)
  <2>1. QuietMove(t) /\ CalmMove(t)
    BY <1>2, <1>3, FoundQuiet
  <2>2. UNCHANGED shared
    BY <1>3 DEF ScopeRefused, ScopeFound
  <2> QED BY <2>1, <2>2, MoveInv
<1>4. CASE ScopeCreated(t, d, l)
  <2>1. TypeOK' /\ FramesOK' /\ FlightInv' /\ CalmMove(t)
    BY <1>2, <1>4, ScopeCreatedFlight
  <2>2. WaiterInv'
    BY <1>2, <2>1, CalmWaiters
  <2> QED BY <2>1, <2>2 DEF FunctionInv
<1> QED BY <1>1, <1>3, <1>4

(* Every step inside getOrCreate preserves the invariant. *)
LEMMA StepInv ==
  ASSUME FunctionInv, NEW t \in Threads, Step(t)
  PROVE  FunctionInv'
<1>1. TypeOK /\ FramesOK /\ FlightInv /\ WaiterInv
  BY DEF FunctionInv
<1>2. CASE Produce(t)
  <2>1. TypeOK' /\ FramesOK' /\ FlightInv'
    BY <1>1, <1>2, ProduceFlight
  <2>2. WaiterInv'
    BY <1>1, <1>2, ProduceWaiters
  <2> QED BY <2>1, <2>2 DEF FunctionInv
<1>3. CASE EntryAllocFails(t) \/ Bypass(t) \/ Hit(t)
  <2>1. ~Wait(t)
    <3>1. ASSUME Wait(t) PROVE FALSE
      <4>1. /\ At(t, "lookup") /\ Found(t) # None /\ outcome[Found(t)] = "pending"
            /\ ~InProducer(t)
        BY <3>1 DEF Wait
      <4> QED BY <1>3, <4>1 DEF EntryAllocFails, Bypass, Hit
    <3> QED BY <3>1
  <2>2. QuietMove(t) /\ CalmMove(t)
    BY <1>1, <1>3, <2>1, LookupQuiet
  <2>3. UNCHANGED shared
    BY <1>3 DEF EntryAllocFails, Bypass, Hit
  <2> QED BY <2>2, <2>3, MoveInv
<1>4. CASE Wait(t)
  <2>1. QuietMove(t)
    BY <1>1, <1>4, LookupQuiet
  <2>2. QuietStack /\ StacksTyped /\ FramesOK'
    BY <1>1, <2>1, QuietMoveStack, MoveTyped
  <2>3. UNCHANGED shared
    BY <1>4 DEF Wait
  <2>4. TypeOK' /\ FlightInv'
    BY <1>1, <2>2, <2>3, QuietKeeps
  <2>5. WaiterInv'
    BY <1>1, <1>4, WaitWaiters
  <2> QED BY <2>2, <2>4, <2>5 DEF FunctionInv
<1>5. CASE Resume(t)
  <2>1. QuietMove(t) /\ CalmMove(t)
    BY <1>1, <1>5, ResumeQuiet
  <2>2. UNCHANGED shared
    BY <1>5 DEF Resume
  <2> QED BY <2>1, <2>2, MoveInv
<1>6. CASE NotifyAll(t)
  <2>1. QuietStack
    BY <1>1, <1>6, NotifyQuiet
  <2>2. StacksTyped /\ FramesOK'
    BY <1>1, <1>6, NotifyFrames
  <2>3. UNCHANGED shared
    BY <1>6 DEF NotifyAll
  <2>4. TypeOK' /\ FlightInv'
    BY <1>1, <2>1, <2>2, <2>3, QuietKeeps
  <2>5. WaiterInv'
    BY <1>1, <1>6, NotifyWaiters
  <2> QED BY <2>2, <2>4, <2>5 DEF FunctionInv
<1> QED BY <1>2, <1>3, <1>4, <1>5, <1>6 DEF Step

(* Every return from foreign code preserves the invariant. *)
LEMMA ForeignInv ==
  ASSUME FunctionInv, NEW t \in Threads, ForeignReturns(t)
  PROVE  FunctionInv'
<1>1. TypeOK /\ FramesOK /\ FlightInv /\ WaiterInv
  BY DEF FunctionInv
<1>2. CASE CopyReturns(t) \/ CreateReturns(t) \/ DirectReturns(t) \/ ForgetReturns(t)
  <2>1. QuietMove(t) /\ CalmMove(t)
    BY <1>1, <1>2, ReturnQuiet
  <2>2. UNCHANGED shared
    BY <1>2 DEF CopyReturns, CreateReturns, DirectReturns, ForgetReturns
  <2> QED BY <2>1, <2>2, MoveInv
<1>3. CASE ReleaseForgotten(t)
  <2>1. QuietMove(t) /\ CalmMove(t)
    BY <1>1, <1>3, ReleaseQuiet
  <2>2. UNCHANGED shared
    BY <1>3 DEF ReleaseForgotten
  <2> QED BY <2>1, <2>2, MoveInv
<1>4. CASE RetainReturns(t)
  <2>1. TypeOK' /\ FramesOK' /\ FlightInv'
    BY <1>1, <1>4, RetainFlight
  <2>2. CalmMove(t)
    BY <1>1, <1>4, ReturnQuiet
  <2> QED BY <1>1, <2>1, <2>2, CalmWaiters DEF FunctionInv
<1>5. CASE RetainFails(t) \/ CreateUncached(t) \/ SnapshotReturns(t)
  <2>1. PICK o, pc : Lands(t, o, pc)
    BY <1>5, PublishLands
  <2>2. TypeOK' /\ FramesOK' /\ FlightInv'
    BY <1>1, <2>1, LandFlight
  <2>3. CalmMove(t)
    BY <1>1, <2>1, LandMoves
  <2> QED BY <1>1, <2>2, <2>3, CalmWaiters DEF FunctionInv
<1>6. CASE EndRetirement(t)
  <2>1. TypeOK' /\ FramesOK' /\ FlightInv' /\ CalmMove(t)
    BY <1>1, <1>6, EndFlight
  <2> QED BY <1>1, <2>1, CalmWaiters DEF FunctionInv
<1> QED BY <1>2, <1>3, <1>4, <1>5, <1>6 DEF ForeignReturns

(* Every step preserves the invariant. *)
LEMMA NextInv == FunctionInv /\ [Next]_vars => FunctionInv'
<1> SUFFICES ASSUME FunctionInv, [Next]_vars PROVE FunctionInv'
  OBVIOUS
<1>1. TypeOK /\ FramesOK /\ FlightInv /\ WaiterInv
  BY DEF FunctionInv
<1>2. ASSUME NEW t \in Threads, Call(t) \/ Step(t) \/ ForeignReturns(t)
      PROVE  FunctionInv'
  BY <1>2, CallInv, StepInv, ForeignInv
<1>3. ASSUME NEW t \in Destroyers, Retire(t) PROVE FunctionInv'
  <2>1. t \in Threads
    BY DestroyerAssumption
  <2>2. PICK d \in Devices : ForgetDevice(t, d) \/ WithDeviceRetired(t, d)
    BY <1>3 DEF Retire
  <2>3. TypeOK' /\ FramesOK' /\ FlightInv' /\ CalmMove(t)
    BY <1>1, <2>1, <2>2, DetachFlight
  <2> QED BY <1>1, <2>1, <2>3, CalmWaiters DEF FunctionInv
<1>4. ASSUME NEW l \in Libraries, LibraryReplaced(l) PROVE FunctionInv'
  <2>1. TypeOK' /\ FramesOK' /\ FlightInv'
    BY <1>1, <1>4, ReplacedFlight
  <2>2. stack' = stack
    BY <1>4 DEF LibraryReplaced
  <2>3. WaiterInv'
    BY <1>1, <2>2 DEF WaiterInv
  <2> QED BY <2>1, <2>3 DEF FunctionInv
<1>5. ASSUME UNCHANGED vars PROVE FunctionInv'
  <2>1. /\ scopes' = scopes /\ retirements' = retirements /\ entries' = entries
        /\ outcome' = outcome /\ retained' = retained /\ stack' = stack
        /\ uses' = uses /\ madeFrom' = madeFrom
    BY <1>5 DEF vars
  <2>2. TypeOK'
    BY <1>1, <2>1 DEF TypeOK
  <2>3. FramesOK' /\ WaiterInv'
    BY <1>1, <2>1 DEF FramesOK, LocalsOK, WaiterInv
  <2>4. FlyingMapped' /\ PendingFlown' /\ HeldInv' /\ ScopesInv'
    BY <1>1, <2>1 DEF FlightInv, FlyingMapped, PendingFlown, HeldInv, ScopesInv
  <2>5. MappedInv' /\ MappedOnce'
    BY <1>1, <2>1 DEF FlightInv, MappedInv, MappedOnce, ScopeAllocated, Depth
  <2> QED BY <2>2, <2>3, <2>4, <2>5 DEF FunctionInv, FlightInv
<1> QED BY <1>2, <1>3, <1>4, <1>5 DEF Next

(* The invariant holds in every reachable state. *)
THEOREM InvCorrect == Spec => []FunctionInv
BY InitInv, NextInv, PTL DEF Spec

(* The cache keeps its types. *)
THEOREM TypeCorrect == Spec => []TypeOK
<1>1. FunctionInv => TypeOK
  BY DEF FunctionInv
<1> QED BY <1>1, InvCorrect, PTL

-----------------------------------------------------------------------------
(* What follows from the invariant. *)

(* The invariant rules out waiting producers and unattended sleepers. *)
LEMMA InvWaiters == FunctionInv => WaitersSafe
<1> SUFFICES ASSUME FunctionInv, NEW t \in Threads
             PROVE  /\ Waiting(t) => \A i \in 1..Depth(t) : stack[t][i].pc \notin Producing
                    /\ At(t, "asleep") =>
                         \E u \in Threads \ {t} : \E i \in 1..Depth(u) :
                           /\ stack[u][i].pc \in Producing
                           /\ stack[u][i].entry = Top(t).entry
  BY DEF WaitersSafe
<1>1. TypeOK /\ FramesOK /\ WaiterInv
  BY DEF FunctionInv
<1>2. ASSUME Waiting(t) PROVE \A i \in 1..Depth(t) : stack[t][i].pc \notin Producing
  <2>1. Depth(t) > 0 /\ Top(t).pc \in Waits
    BY <1>2, PCs DEF Waiting
  <2>2. Len(stack[t]) \in 1..Len(stack[t]) /\ Top(t) = stack[t][Len(stack[t])]
    BY <1>1, <2>1, TopFacts
  <2> QED BY <1>1, <2>1, <2>2 DEF WaiterInv, Depth
<1>3. ASSUME At(t, "asleep")
      PROVE  \E u \in Threads \ {t} : \E i \in 1..Depth(u) :
               /\ stack[u][i].pc \in Producing
               /\ stack[u][i].entry = Top(t).entry
  <2>1. Depth(t) > 0 /\ Top(t).pc = "asleep"
    BY <1>3 DEF At
  <2>2. Len(stack[t]) \in 1..Len(stack[t]) /\ Top(t) = stack[t][Len(stack[t])]
    BY <1>1, <2>1, TopFacts
  <2>3. PICK u \in Threads : \E i \in 1..Len(stack[u]) :
          stack[u][i].pc \in Producing /\ stack[u][i].entry = Top(t).entry
    BY <1>1, <2>1, <2>2 DEF WaiterInv
  <2>4. \A i \in 1..Depth(t) : stack[t][i].pc \notin Producing
    BY <1>2, <2>1 DEF Waiting
  <2>5. u # t
    BY <2>3, <2>4 DEF Depth
  <2> QED BY <2>3, <2>5 DEF Depth
<1> QED BY <1>2, <1>3

(***************************************************************************)
(* getOrCreate: a thread that waits is inside no producer, at any depth,   *)
(* so waits form no cycle; and whoever sleeps will still be notified by    *)
(* another thread.                                                         *)
(***************************************************************************)
THEOREM WaitersCorrect == Spec => []WaitersSafe
BY InvCorrect, InvWaiters, PTL

(* The invariant gives every mapped entry its producer, and only one. *)
LEMMA InvMapped == FunctionInv => MappedIsCachedOrFlying
<1> SUFFICES ASSUME FunctionInv PROVE MappedIsCachedOrFlying
  OBVIOUS
<1>1. TypeOK /\ FramesOK /\ FlightInv
  BY DEF FunctionInv
<1> SUFFICES ASSUME NEW s \in Scopes, NEW l \in Libraries
             PROVE  LET e == entries[s][l]
                        Producers ==
                          {p \in Threads \X (1..MaxDepth) :
                             /\ p[2] <= Depth(p[1])
                             /\ stack[p[1]][p[2]].pc \in
                                  {"retaining", "creating", "snapshot"}
                             /\ stack[p[1]][p[2]].scope = s
                             /\ stack[p[1]][p[2]].library = l}
                    IN /\ ScopeAllocated(s) /\ e # None /\ outcome[e] # "cached" =>
                            Producers # {}
                       /\ \A p, q \in Producers : p = q
  BY DEF MappedIsCachedOrFlying
<1> DEFINE Producers ==
             {p \in Threads \X (1..MaxDepth) :
                /\ p[2] <= Depth(p[1])
                /\ stack[p[1]][p[2]].pc \in {"retaining", "creating", "snapshot"}
                /\ stack[p[1]][p[2]].scope = s
                /\ stack[p[1]][p[2]].library = l}
<1>2. ASSUME ScopeAllocated(s), entries[s][l] # None, outcome[entries[s][l]] # "cached"
      PROVE  Producers # {}
  <2>1. PICK t \in Threads : \E i \in 1..Len(stack[t]) :
          /\ stack[t][i].pc \in Flying
          /\ stack[t][i].scope = s /\ stack[t][i].library = l
    BY <1>1, <1>2 DEF FlightInv, MappedInv
  <2>2. PICK i \in 1..Len(stack[t]) :
          /\ stack[t][i].pc \in Flying
          /\ stack[t][i].scope = s /\ stack[t][i].library = l
    BY <2>1
  <2>3. Len(stack[t]) \in Nat /\ Len(stack[t]) <= MaxDepth /\ MaxDepth \in Nat
    BY <1>1, BoundAssumption DEF TypeOK, FramesOK
  <2>4. i \in 1..MaxDepth /\ i <= Depth(t)
    BY <2>3 DEF Depth
  <2>5. <<t, i>> \in Producers
    BY <2>2, <2>4 DEF Flying
  <2> QED BY <2>5
<1>3. ASSUME NEW p \in Producers
      PROVE  /\ p = <<p[1], p[2]>> /\ p[1] \in Threads /\ p[2] \in 1..Len(stack[p[1]])
             /\ stack[p[1]][p[2]].pc \in Flying
             /\ stack[p[1]][p[2]].entry = entries[s][l]
  <2>1. /\ p = <<p[1], p[2]>> /\ p[1] \in Threads /\ p[2] \in 1..MaxDepth
        /\ p[2] <= Depth(p[1])
    OBVIOUS
  <2>2. /\ stack[p[1]][p[2]].pc \in Flying
        /\ stack[p[1]][p[2]].scope = s /\ stack[p[1]][p[2]].library = l
    BY DEF Flying
  <2>3. p[2] \in 1..Len(stack[p[1]])
    <3>1. Len(stack[p[1]]) \in Nat
      BY <1>1, <2>1 DEF TypeOK
    <3> QED BY <2>1, <3>1, BoundAssumption DEF Depth
  <2>4. stack[p[1]][p[2]].entry = entries[s][l]
    BY <1>1, <2>1, <2>2, <2>3 DEF FlightInv, FlyingMapped
  <2> QED BY <2>1, <2>2, <2>3, <2>4
<1>4. ASSUME NEW p \in Producers, NEW q \in Producers PROVE p = q
  <2>1. /\ p[1] \in Threads /\ p[2] \in 1..Len(stack[p[1]])
        /\ stack[p[1]][p[2]].pc \in Flying /\ stack[p[1]][p[2]].entry = entries[s][l]
        /\ p = <<p[1], p[2]>>
    BY <1>3
  <2>2. /\ q[1] \in Threads /\ q[2] \in 1..Len(stack[q[1]])
        /\ stack[q[1]][q[2]].pc \in Flying /\ stack[q[1]][q[2]].entry = entries[s][l]
        /\ q = <<q[1], q[2]>>
    BY <1>3
  <2>3. q[1] = p[1] /\ q[2] = p[2]
    BY <1>1, <2>1, <2>2, FlownOnce
  <2> QED BY <2>1, <2>2, <2>3
<1> HIDE DEF Producers
<1>5. /\ ScopeAllocated(s) /\ entries[s][l] # None /\ outcome[entries[s][l]] # "cached" =>
           Producers # {}
      /\ \A p, q \in Producers : p = q
  BY <1>2, <1>4
<1> QED BY <1>5 DEF Producers

(***************************************************************************)
(* getOrCreate: what a reachable scope maps is cached or in production,    *)
(* and a key has at most one producer; exceptions and unusable results are *)
(* erased by the step that publishes them.                                 *)
(***************************************************************************)
THEOREM MappedCorrect == Spec => []MappedIsCachedOrFlying
BY InvCorrect, InvMapped, PTL

(* The invariant ties what a call uses to the library it passed. *)
LEMMA InvIdentity == FunctionInv => LibraryIdentity
<1> SUFFICES ASSUME FunctionInv, NEW t \in Threads, NEW i \in 1..Len(stack[t])
             PROVE  /\ stack[t][i].pc = "lookup"
                         /\ entries[stack[t][i].scope][stack[t][i].library] # None =>
                         madeFrom[entries[stack[t][i].scope][stack[t][i].library]]
                           = uses[stack[t][i].library]
                    /\ stack[t][i].pc \in {"asleep", "awake", "copying"} =>
                         madeFrom[stack[t][i].entry] = uses[stack[t][i].library]
  BY DEF LibraryIdentity, Depth
<1>1. FramesOK /\ FlightInv
  BY DEF FunctionInv
<1>2. LocalsOK(stack[t][i])
  BY <1>1 DEF FramesOK
<1>3. ASSUME stack[t][i].pc = "lookup",
             entries[stack[t][i].scope][stack[t][i].library] # None
      PROVE  madeFrom[entries[stack[t][i].scope][stack[t][i].library]]
               = uses[stack[t][i].library]
  <2>1. stack[t][i].scope \in Scopes /\ stack[t][i].library \in Libraries
    BY <1>2, <1>3 DEF LocalsOK
  <2>2. ScopeAllocated(stack[t][i].scope)
    BY DEF ScopeAllocated, Depth
  <2> QED BY <1>1, <1>3, <2>1, <2>2 DEF FlightInv, MappedInv
<1>4. stack[t][i].pc \in {"asleep", "awake", "copying"} =>
        madeFrom[stack[t][i].entry] = uses[stack[t][i].library]
  BY <1>1, PCs DEF FlightInv, HeldInv
<1> QED BY <1>3, <1>4

(***************************************************************************)
(* Library addresses are reused, but whatever a call finds, waits for or   *)
(* copies was extracted from the library object its caller passed: a       *)
(* cached entry retains its library, and a call keeps its own alive.       *)
(***************************************************************************)
THEOREM IdentityCorrect == Spec => []LibraryIdentity
BY InvCorrect, InvIdentity, PTL
-----------------------------------------------------------------------------
(***************************************************************************)
(* The cache implements DeviceMemo.  Most steps do not change what is      *)
(* known of any key, nor which devices are being destroyed: they stutter.  *)
(***************************************************************************)
Table == [d \in Devices |-> [l \in Libraries |-> Known(d, l)]]
Doomed == {d \in Devices : Destroying(d)}

(* The entry in the current scope of a device. *)
Current(d, l) == IF scopes[d] = None THEN None ELSE entries[scopes[d]][l]

(* What is known of a key is a function of its entry and the outcome. *)
LEMMA KnownFacts ==
  ASSUME NEW d \in Devices, NEW l \in Libraries
  PROVE  /\ Current(d, l) = None => Known(d, l) = "absent"
         /\ Current(d, l) # None /\ outcome[Current(d, l)] = "pending" =>
              Known(d, l) = "making"
         /\ Current(d, l)' = None => Known(d, l)' = "absent"
         /\ Current(d, l)' # None /\ outcome'[Current(d, l)'] = "pending" =>
              Known(d, l)' = "making"
         /\ Current(d, l)' # None /\ outcome'[Current(d, l)'] = "cached" =>
              Known(d, l)' = "made"
         /\ Current(d, l)' = Current(d, l)
              /\ (Current(d, l) # None =>
                    outcome'[Current(d, l)] = outcome[Current(d, l)]) =>
              Known(d, l)' = Known(d, l)
BY DEF Known, Current

(* What the steps of DeviceMemo are, in terms of Table and Doomed. *)
LEMMA MemoSteps ==
  ASSUME NEW d \in Devices
  PROVE  /\ UNCHANGED <<Table, Doomed>> => UNCHANGED Memo!vars
         /\ \A l \in Libraries : d \notin Doomed /\ Table[d][l] = "absent"
              /\ Table' = [Table EXCEPT ![d][l] = "making"] /\ UNCHANGED Doomed =>
              Memo!Next
         /\ \A l \in Libraries : Table[d][l] = "making"
              /\ (\/ Table' = [Table EXCEPT ![d][l] = "made"]
                  \/ Table' = [Table EXCEPT ![d][l] = "absent"])
              /\ UNCHANGED Doomed => Memo!Next
         /\ Table' = [Table EXCEPT ![d] = [l \in Libraries |-> "absent"]]
              /\ (UNCHANGED Doomed \/ Doomed' = Doomed \cup {d}) => Memo!Next
         /\ Doomed' = Doomed \ {d} /\ UNCHANGED Table => Memo!Next
BY DEF Table, Doomed, Memo!vars, Memo!Next, Memo!Begin, Memo!Succeed,
       Memo!Fail, Memo!Turns, Memo!Forget, Memo!Retire, Memo!Retired, Memo!Empty

(* Steps that change no scope, map or outcome leave the table alone. *)
LEMMA TableKept ==
  ASSUME UNCHANGED <<scopes, entries, outcome>>
  PROVE  Table' = Table
BY DEF Table, Known

(* Quiet steps destroy the same devices. *)
LEMMA QuietDoomed ==
  ASSUME QuietStack
  PROVE  Doomed' = Doomed
<1>1. ASSUME NEW d \in Devices, Destroying(d)' PROVE Destroying(d)
  <2>1. PICK u \in Threads : \E i \in 1..Len(stack'[u]) :
          stack'[u][i].device = d /\ stack'[u][i].pc \in Ending
    BY <1>1 DEF Destroying, Depth, Ending
  <2>2. PICK i \in 1..Len(stack'[u]) :
          stack'[u][i].device = d /\ stack'[u][i].pc \in Ending
    BY <2>1
  <2>3. i \in 1..Len(stack[u]) /\ Continues(stack'[u][i], stack[u][i])
    BY <2>2 DEF QuietStack, Begins
  <2>4. stack[u][i].device = d /\ stack[u][i].pc \in {"detached", "retired"}
    BY <2>2, <2>3 DEF Continues, Ending
  <2> QED BY <2>3, <2>4 DEF Destroying, Depth
<1>2. ASSUME NEW d \in Devices, Destroying(d) PROVE Destroying(d)'
  <2>1. PICK u \in Threads : \E i \in 1..Len(stack[u]) :
          stack[u][i].device = d /\ stack[u][i].pc \in Ending
    BY <1>2 DEF Destroying, Depth, Ending
  <2>2. PICK i \in 1..Len(stack[u]) : stack[u][i].device = d /\ stack[u][i].pc \in Ending
    BY <2>1
  <2>3. i \in 1..Len(stack'[u]) /\ Continues(stack'[u][i], stack[u][i])
    BY <2>2 DEF QuietStack
  <2>4. stack'[u][i].device = d /\ stack'[u][i].pc \in {"detached", "retired"}
    BY <2>2, <2>3 DEF Continues, Ending
  <2> QED BY <2>3, <2>4 DEF Destroying, Depth
<1> QED BY <1>1, <1>2 DEF Doomed

(* So does a call that goes on without retiring a device. *)
LEMMA MoveDoomed ==
  ASSUME TypeOK, NEW t \in Threads, NEW f, MoveStep(t, f), Len(stack[t]) > 0,
         f.pc \notin Ending, stack[t][Len(stack[t])].pc \notin Ending
  PROVE  Doomed' = Doomed
<1>1. PICK n : n = Len(stack[t])
  OBVIOUS
<1>2. /\ \A u \in Threads : Len(stack'[u]) = Len(stack[u])
      /\ stack'[t][n] = f
      /\ \A u \in Threads : \A i \in 1..Len(stack[u]) :
           u # t \/ i # n => stack'[u][i] = stack[u][i]
  BY <1>1, MovedFrames
<1>3. ASSUME NEW d \in Devices, NEW u \in Threads, NEW i \in 1..Len(stack[u])
      PROVE  /\ stack'[u][i].device = d /\ stack'[u][i].pc \in {"detached", "retired"} =>
                  stack[u][i].device = d /\ stack[u][i].pc \in {"detached", "retired"}
             /\ stack[u][i].device = d /\ stack[u][i].pc \in {"detached", "retired"} =>
                  stack'[u][i].device = d /\ stack'[u][i].pc \in {"detached", "retired"}
  <2>1. CASE u = t /\ i = n
    BY <1>1, <1>2, <2>1 DEF Ending
  <2>2. CASE u # t \/ i # n
    BY <1>2, <2>2
  <2> QED BY <2>1, <2>2
<1>4. ASSUME NEW d \in Devices PROVE Destroying(d)' <=> Destroying(d)
  <2>1. Destroying(d) <=> \E u \in Threads : \E i \in 1..Len(stack[u]) :
          stack[u][i].device = d /\ stack[u][i].pc \in {"detached", "retired"}
    BY DEF Destroying, Depth
  <2>2. Destroying(d)' <=> \E u \in Threads : \E i \in 1..Len(stack'[u]) :
          stack'[u][i].device = d /\ stack'[u][i].pc \in {"detached", "retired"}
    BY DEF Destroying, Depth
  <2>3. ASSUME NEW u \in Threads
        PROVE  (\E i \in 1..Len(stack'[u]) :
                  stack'[u][i].device = d /\ stack'[u][i].pc \in {"detached", "retired"})
               <=> \E i \in 1..Len(stack[u]) :
                  stack[u][i].device = d /\ stack[u][i].pc \in {"detached", "retired"}
    BY <1>2, <1>3
  <2> QED BY <2>1, <2>2, <2>3
<1> QED BY <1>4 DEF Doomed

(* A new call destroys its device, or none. *)
LEMMA PushDoomed ==
  ASSUME TypeOK, NEW t \in Threads, NEW f, PushStep(t, f), f.device \in Devices
  PROVE  Doomed' = IF f.pc \in Ending THEN Doomed \cup {f.device} ELSE Doomed
<1>1. \A u \in Threads : Len(stack[u]) \in Nat
  BY DEF TypeOK
<1>2. ASSUME NEW u \in Threads, NEW i \in 1..Len(stack[u])
      PROVE  i \in 1..Len(stack'[u]) /\ stack'[u][i] = stack[u][i]
  BY <1>1 DEF PushStep
<1>3. ASSUME NEW u \in Threads, NEW i \in 1..Len(stack'[u])
      PROVE  (i \in 1..Len(stack[u]) /\ stack'[u][i] = stack[u][i]) \/ stack'[u][i] = f
  BY <1>1 DEF PushStep
<1>4. Len(stack[t]) + 1 \in 1..Len(stack'[t]) /\ stack'[t][Len(stack[t]) + 1] = f
  BY <1>1 DEF PushStep
<1>5. ASSUME NEW d \in Devices, Destroying(d)'
      PROVE  Destroying(d) \/ (f.pc \in Ending /\ d = f.device)
  <2>1. PICK u \in Threads : \E i \in 1..Len(stack'[u]) :
          stack'[u][i].device = d /\ stack'[u][i].pc \in {"detached", "retired"}
    BY <1>5 DEF Destroying, Depth
  <2>2. PICK i \in 1..Len(stack'[u]) :
          stack'[u][i].device = d /\ stack'[u][i].pc \in {"detached", "retired"}
    BY <2>1
  <2>3. CASE stack'[u][i] = f
    BY <2>2, <2>3 DEF Ending
  <2>4. CASE i \in 1..Len(stack[u]) /\ stack'[u][i] = stack[u][i]
    BY <2>2, <2>4 DEF Destroying, Depth
  <2> QED BY <1>3, <2>3, <2>4
<1>6. ASSUME NEW d \in Devices, Destroying(d) PROVE Destroying(d)'
  <2>1. PICK u \in Threads : \E i \in 1..Len(stack[u]) :
          stack[u][i].device = d /\ stack[u][i].pc \in {"detached", "retired"}
    BY <1>6 DEF Destroying, Depth
  <2>2. PICK i \in 1..Len(stack[u]) :
          stack[u][i].device = d /\ stack[u][i].pc \in {"detached", "retired"}
    BY <2>1
  <2>3. /\ i \in 1..Len(stack'[u])
        /\ stack'[u][i].device = d /\ stack'[u][i].pc \in {"detached", "retired"}
    BY <1>2, <2>2
  <2> QED BY <2>3 DEF Destroying, Depth
<1>7. ASSUME f.pc \in Ending PROVE Destroying(f.device)'
  BY <1>4, <1>7 DEF Destroying, Depth, Ending
<1> QED BY <1>5, <1>6, <1>7 DEF Doomed

(* Only the current scope of a device is seen: a step that changes the     *)
(* entry e of scope s and key l changes what is known of at most one key.  *)
LEMMA KnownOnce ==
  ASSUME FunctionInv, NEW s \in Scopes, NEW l \in Libraries, NEW e \in Entries,
         scopes' = scopes,
         \A a \in Scopes : \A k \in Libraries :
           ~(a = s /\ k = l) => entries'[a][k] = entries[a][k],
         \A x \in Entries : x # e => outcome'[x] = outcome[x],
         \A a \in Scopes : \A k \in Libraries :
           ScopeAllocated(a) /\ ~(a = s /\ k = l) => entries[a][k] # e
  PROVE  \/ Table' = Table
         \/ \E d \in Devices :
              /\ scopes[d] = s
              /\ Table' = [Table EXCEPT ![d][l] = Known(d, l)']
<1>1. ASSUME NEW c \in Devices, NEW k \in Libraries, ~(scopes[c] = s /\ k = l)
      PROVE  Known(c, k)' = Known(c, k)
  <2>1. scopes[c] \in Scopes \cup {None}
    BY DEF FunctionInv, TypeOK
  <2>2. CASE scopes[c] = None
    <3>1. Current(c, k) = None /\ Current(c, k)' = None
      BY <2>2 DEF Current
    <3> QED BY <3>1, KnownFacts
  <2>3. CASE scopes[c] # None
    <3>1. PICK a \in Scopes : a = scopes[c]
      BY <2>1, <2>3
    <3>2. ScopeAllocated(a)
      BY <3>1 DEF ScopeAllocated
    <3>3. Current(c, k) = entries[a][k] /\ Current(c, k)' = entries'[a][k]
      BY <2>3, <3>1 DEF Current
    <3>4. entries'[a][k] = entries[a][k] /\ entries[a][k] # e
      BY <1>1, <3>1, <3>2
    <3>5. entries[a][k] \in Entries \cup {None}
      BY DEF FunctionInv, TypeOK
    <3> QED BY <3>3, <3>4, <3>5, KnownFacts
  <2> QED BY <2>2, <2>3
<1>2. CASE \A c \in Devices : scopes[c] # s
  <2>1. \A c \in Devices : \A k \in Libraries : Known(c, k)' = Known(c, k)
    BY <1>1, <1>2
  <2> QED BY <2>1 DEF Table
<1>3. CASE \E d \in Devices : scopes[d] = s
  <2>1. PICK d \in Devices : scopes[d] = s
    BY <1>3
  <2>2. s # None
    BY NoneAssumption
  <2>3. \A c \in Devices : scopes[c] = s => c = d
    BY <2>1, <2>2 DEF FunctionInv, FlightInv, ScopesInv
  <2>4. PICK w : w = Known(d, l)'
    OBVIOUS
  <2>5. \A c \in Devices : \A k \in Libraries :
          Known(c, k)' = IF c = d /\ k = l THEN w ELSE Known(c, k)
    BY <1>1, <2>3, <2>4
  <2>6. Table' = [Table EXCEPT ![d][l] = w]
    <3>1. Table' = [c \in Devices |-> [k \in Libraries |-> Known(c, k)']]
      BY DEF Table
    <3>2. Table' = [c \in Devices |-> [k \in Libraries |->
                      IF c = d /\ k = l THEN w ELSE Known(c, k)]]
      BY <2>5, <3>1
    <3>3. PICK T : T = Table
      OBVIOUS
    <3>4. PICK U : U = Table'
      OBVIOUS
    <3>5. /\ T = [c \in Devices |-> T[c]]
          /\ \A c \in Devices : T[c] = [k \in Libraries |-> Known(c, k)]
      BY <3>3 DEF Table
    <3>6. [T EXCEPT ![d][l] = w] =
            [c \in Devices |-> IF c = d THEN [T[d] EXCEPT ![l] = w] ELSE T[c]]
      BY <3>5
    <3>7. [T[d] EXCEPT ![l] = w] = [k \in Libraries |-> IF k = l THEN w ELSE Known(d, k)]
      BY <3>5
    <3>8. U = [c \in Devices |-> IF c = d THEN [T[d] EXCEPT ![l] = w] ELSE T[c]]
      <4>1. U = [c \in Devices |-> [k \in Libraries |->
                   IF c = d /\ k = l THEN w ELSE Known(c, k)]]
        BY <3>2, <3>4
      <4>2. ASSUME NEW c \in Devices
            PROVE  [k \in Libraries |-> IF c = d /\ k = l THEN w ELSE Known(c, k)]
                     = IF c = d THEN [T[d] EXCEPT ![l] = w] ELSE T[c]
        <5>1. CASE c = d
          BY <3>7, <5>1
        <5>2. CASE c # d
          BY <3>5, <5>2
        <5> QED BY <5>1, <5>2
      <4> QED BY <4>1, <4>2
    <3> QED BY <3>3, <3>4, <3>6, <3>8
  <2> QED BY <2>1, <2>4, <2>6
<1> QED BY <1>2, <1>3
(* A device with a current scope is not being destroyed. *)
LEMMA ScopedNotDoomed ==
  ASSUME FunctionInv, NEW d \in Devices, scopes[d] # None
  PROVE  d \notin Doomed
<1> SUFFICES ASSUME NEW u \in Threads, NEW i \in 1..Len(stack[u]),
                    stack[u][i].device = d, stack[u][i].pc \in {"detached", "retired"}
             PROVE  FALSE
  BY DEF Doomed, Destroying, Depth
<1> DEFINE r == [owner |-> u, depth |-> i, device |-> stack[u][i].device]
<1>1. r \in retirements
  BY DEF FunctionInv, FlightInv, ScopesInv
<1>2. r.device = d
  OBVIOUS
<1> HIDE DEF r
<1> QED BY <1>1, <1>2 DEF FunctionInv, FlightInv, ScopesInv

(* Calls that get a scope, or none. *)
LEMMA CallMemo ==
  ASSUME FunctionInv, NEW t \in Threads, Call(t)
  PROVE  UNCHANGED <<Table, Doomed>>
<1>1. PICK d \in Devices, l \in Libraries :
        ScopeRefused(t, d, l) \/ ScopeFound(t, d, l) \/ ScopeCreated(t, d, l)
  BY DEF Call
<1>2. TypeOK /\ FramesOK
  BY DEF FunctionInv
<1>3. CASE ScopeRefused(t, d, l) \/ ScopeFound(t, d, l)
  <2>1. QuietMove(t)
    BY <1>2, <1>3, FoundQuiet
  <2>2. Doomed' = Doomed
    BY <1>2, <2>1, QuietMoveStack, QuietDoomed
  <2>3. Table' = Table
    BY <1>3, TableKept DEF ScopeRefused, ScopeFound, shared
  <2> QED BY <2>2, <2>3
<1>4. CASE ScopeCreated(t, d, l)
  <2>1. PICK s \in Scopes :
          /\ ~ScopeAllocated(s)
          /\ scopes' = [scopes EXCEPT ![d] = s]
          /\ entries' = [entries EXCEPT ![s] = NoEntries]
          /\ stack' = Pushed(t, NewFrame("lookup", d, l, s))
    BY <1>4 DEF ScopeCreated
  <2>2. scopes[d] = None /\ UNCHANGED outcome
    BY <1>4 DEF ScopeCreated
  <2>3. ASSUME NEW c \in Devices, NEW k \in Libraries
        PROVE  Current(c, k)' = Current(c, k)
    <3>1. CASE c = d
      BY <1>2, <2>1, <2>2, <3>1 DEF Current, NoEntries, TypeOK
    <3>2. CASE c # d
      <4>1. scopes'[c] = scopes[c] /\ scopes[c] # s /\ scopes[c] \in Scopes \cup {None}
        BY <1>2, <2>1, <3>2 DEF ScopeAllocated, TypeOK
      <4> QED BY <1>2, <2>1, <4>1 DEF Current, TypeOK
    <3> QED BY <3>1, <3>2
  <2>4. \A c \in Devices, k \in Libraries : Known(c, k)' = Known(c, k)
    BY <2>2, <2>3, KnownFacts
  <2>5. Table' = Table
    BY <2>4 DEF Table
  <2> DEFINE f == NewFrame("lookup", d, l, s)
  <2>6. f \in Frame /\ f.pc = "lookup" /\ f.device = d
    BY NewFrameFacts, PCs
  <2>7. stack' = Pushed(t, f)
    BY <2>1
  <2> HIDE DEF f
  <2>8. PushStep(t, f)
    BY <1>2, <2>6, <2>7, PushFacts
  <2>9. Doomed' = Doomed
    BY <1>2, <2>6, <2>8, PushDoomed, PCs
  <2> QED BY <2>5, <2>9
<1> QED BY <1>1, <1>3, <1>4

(* Steps that change only the stacks. *)
LEMMA QuietMemo ==
  ASSUME FunctionInv, QuietStack, UNCHANGED <<scopes, entries, outcome>>
  PROVE  UNCHANGED <<Table, Doomed>>
BY QuietDoomed, TableKept

(* A production begins in a current scope, or out of sight. *)
LEMMA ProduceMemo ==
  ASSUME FunctionInv, NEW t \in Threads, Produce(t)
  PROVE  Memo!Next \/ UNCHANGED <<Table, Doomed>>
<1>0. TypeOK /\ FramesOK /\ FlightInv
  BY DEF FunctionInv
<1>1. /\ Depth(t) > 0 /\ Top(t).pc = "lookup" /\ Found(t) = None
      /\ Top(t).scope \in Scopes /\ Top(t).library \in Libraries
      /\ Found(t) = entries[Top(t).scope][Top(t).library]
  <2>1. At(t, "lookup") /\ Found(t) = None
    BY DEF Produce
  <2> QED BY <1>0, <2>1, FoundFacts
<1>2. PICK s \in Scopes : s = Top(t).scope
  BY <1>1
<1>3. PICK l \in Libraries : l = Top(t).library
  BY <1>1
<1>4. PICK e \in Entries :
        /\ ~EntryAllocated(e)
        /\ entries' = [entries EXCEPT ![s][l] = e]
        /\ outcome' = [outcome EXCEPT ![e] = "pending"]
        /\ stack' = GotoEntry(t, "retaining", e)
  BY <1>2, <1>3 DEF Produce
<1>5. scopes' = scopes
  BY DEF Produce
<1>6. PICK f : f = AtEntry(t, "retaining", e)
  OBVIOUS
<1>7. Moves(t, f) /\ f.pc = "retaining"
  BY <1>0, <1>1, <1>4, <1>6, GotoMoves, PCs
<1>8. Doomed' = Doomed
  <2>1. MoveStep(t, f)
    BY <1>0, <1>7, ChangeFacts DEF Moves
  <2>2. Len(stack[t]) > 0 /\ Top(t) = stack[t][Len(stack[t])]
    BY <1>0, <1>1, TopFacts
  <2>3. f.pc \notin Ending /\ stack[t][Len(stack[t])].pc \notin Ending
    BY <1>1, <1>7, <2>2, PCs
  <2> QED BY <1>0, <2>1, <2>2, <2>3, MoveDoomed
<1>9. \A a \in Scopes : \A k \in Libraries :
        entries'[a][k] = IF a = s /\ k = l THEN e ELSE entries[a][k]
  BY <1>0, <1>4 DEF TypeOK
<1>10. \A x \in Entries : outcome'[x] = IF x = e THEN "pending" ELSE outcome[x]
  BY <1>0, <1>4 DEF TypeOK
<1>11. \A a \in Scopes : \A k \in Libraries : ScopeAllocated(a) => entries[a][k] # e
  BY <1>4 DEF EntryAllocated
<1>12. \/ Table' = Table
       \/ \E d \in Devices :
            scopes[d] = s /\ Table' = [Table EXCEPT ![d][l] = Known(d, l)']
  BY <1>5, <1>9, <1>10, <1>11, KnownOnce
<1>13. ASSUME NEW d \in Devices, scopes[d] = s,
              Table' = [Table EXCEPT ![d][l] = Known(d, l)']
       PROVE  Memo!Next
  <2>1. s # None /\ e # None
    BY NoneAssumption
  <2>2. entries[s][l] = None /\ entries'[s][l] = e /\ outcome'[e] = "pending"
    BY <1>1, <1>2, <1>3, <1>9, <1>10
  <2>3. Current(d, l) = None /\ Current(d, l)' = e
    BY <1>5, <1>13, <2>1, <2>2 DEF Current
  <2>4. Known(d, l) = "absent" /\ Known(d, l)' = "making"
    BY <2>1, <2>2, <2>3, KnownFacts
  <2>5. Table[d][l] = "absent" /\ Table' = [Table EXCEPT ![d][l] = "making"]
    BY <1>13, <2>4 DEF Table
  <2>6. d \notin Doomed
    BY <1>13, <2>1, ScopedNotDoomed
  <2> QED BY <1>8, <2>5, <2>6, MemoSteps
<1> QED BY <1>8, <1>12, <1>13

(* A production ends in the map it began in, even when the scope has been  *)
(* detached meanwhile.                                                     *)
LEMMA LandMemo ==
  ASSUME FunctionInv, NEW t \in Threads, NEW o, NEW pc, Lands(t, o, pc)
  PROVE  Memo!Next \/ UNCHANGED <<Table, Doomed>>
<1>0. TypeOK /\ FramesOK /\ FlightInv
  BY DEF FunctionInv
<1>1. /\ Depth(t) > 0 /\ Top(t).pc \in Flying /\ pc \in {"notify", "abandon"}
      /\ o \in Outcome \ {"pending"}
  BY DEF Lands
<1>2. PICK s \in Scopes : s = Top(t).scope
  BY <1>0, LandMoves
<1>3. PICK l \in Libraries : l = Top(t).library
  BY <1>0, LandMoves
<1>4. PICK e \in Entries : e = Top(t).entry
  BY <1>0, LandMoves
<1>5. PICK f : f = AtEntry(t, pc, Top(t).entry)
  OBVIOUS
<1>6. Moves(t, f) /\ f.pc = pc
  BY <1>0, <1>5, LandMoves
<1>7. entries[s][l] = e /\ outcome[e] = "pending"
  BY <1>0, <1>2, <1>3, <1>4, LandWrites
<1>8. \A a \in Scopes : \A k \in Libraries :
        entries'[a][k] = IF a = s /\ k = l /\ o # "cached" THEN None ELSE entries[a][k]
  BY <1>0, <1>2, <1>3, LandWrites
<1>9. \A x \in Entries : outcome'[x] = IF x = e THEN o ELSE outcome[x]
  BY <1>0, <1>4, LandWrites
<1>10. scopes' = scopes
  BY <1>0, LandWrites
<1>11. Len(stack[t]) > 0 /\ Len(stack[t]) \in 1..Len(stack[t])
       /\ Top(t) = stack[t][Len(stack[t])]
  BY <1>0, <1>1, TopFacts
<1>12. Doomed' = Doomed
  <2>1. MoveStep(t, f)
    BY <1>0, <1>6, ChangeFacts DEF Moves
  <2>2. f.pc \notin Ending /\ stack[t][Len(stack[t])].pc \notin Ending
    BY <1>1, <1>6, <1>11, PCs
  <2> QED BY <1>0, <1>11, <2>1, <2>2, MoveDoomed
<1>13. s # None /\ e # None
  BY NoneAssumption
<1>14. ScopeAllocated(s)
  BY <1>2, <1>11 DEF ScopeAllocated, Depth
<1>15. ASSUME NEW a \in Scopes, NEW k \in Libraries, ScopeAllocated(a), ~(a = s /\ k = l)
       PROVE  entries[a][k] # e
  BY <1>0, <1>7, <1>13, <1>14, <1>15 DEF FlightInv, MappedOnce
<1>16. \/ Table' = Table
       \/ \E d \in Devices :
            scopes[d] = s /\ Table' = [Table EXCEPT ![d][l] = Known(d, l)']
  BY <1>8, <1>9, <1>10, <1>15, KnownOnce
<1>17. ASSUME NEW d \in Devices, scopes[d] = s,
              Table' = [Table EXCEPT ![d][l] = Known(d, l)']
       PROVE  Memo!Next
  <2>1. Current(d, l) = e /\ Current(d, l)' = IF o = "cached" THEN e ELSE None
    BY <1>7, <1>8, <1>10, <1>13, <1>17 DEF Current
  <2>2. Known(d, l) = "making"
    BY <1>7, <1>13, <2>1, KnownFacts
  <2>3. Known(d, l)' \in {"made", "absent"}
    <3>1. CASE o = "cached"
      <4>1. Current(d, l)' = e /\ outcome'[e] = "cached"
        BY <1>9, <2>1, <3>1
      <4> QED BY <1>13, <4>1, KnownFacts
    <3>2. CASE o # "cached"
      BY <2>1, <3>2, KnownFacts
    <3> QED BY <3>1, <3>2
  <2>4. \/ Table' = [Table EXCEPT ![d][l] = "made"]
        \/ Table' = [Table EXCEPT ![d][l] = "absent"]
    BY <1>17, <2>3
  <2>5. Table[d][l] = "making"
    BY <2>2 DEF Table
  <2> QED BY <1>12, <2>4, <2>5, MemoSteps
<1> QED BY <1>12, <1>16, <1>17

(* Forgetting or retiring a device empties its row of the table. *)
LEMMA DetachMemo ==
  ASSUME FunctionInv, NEW t \in Threads, Retire(t)
  PROVE  Memo!Next
<1>0. TypeOK
  BY DEF FunctionInv
<1>1. PICK d \in Devices : ForgetDevice(t, d) \/ WithDeviceRetired(t, d)
  BY DEF Retire
<1>2. scopes' = [scopes EXCEPT ![d] = None] /\ UNCHANGED <<entries, outcome>>
  BY <1>1 DEF ForgetDevice, WithDeviceRetired
<1>3. Table' = [Table EXCEPT ![d] = [l \in Libraries |-> "absent"]]
  <2>1. ASSUME NEW c \in Devices, NEW l \in Libraries
        PROVE  Known(c, l)' = IF c = d THEN "absent" ELSE Known(c, l)
    <3>1. scopes'[c] = IF c = d THEN None ELSE scopes[c]
      BY <1>0, <1>2 DEF TypeOK
    <3>2. Current(c, l)' = IF c = d THEN None ELSE Current(c, l)
      BY <1>2, <3>1 DEF Current
    <3> QED BY <1>2, <3>2, KnownFacts
  <2> QED BY <2>1 DEF Table
<1>4. PICK pc \in {"forgetting", "detached"} :
        stack' = Pushed(t, NewFrame(pc, d, None, scopes[d]))
  BY <1>1 DEF ForgetDevice, WithDeviceRetired
<1> DEFINE f == NewFrame(pc, d, None, scopes[d])
<1>5. f \in Frame /\ f.pc = pc /\ f.device = d
  <2>1. scopes[d] \in Scopes \cup {None}
    BY <1>0 DEF TypeOK
  <2> QED BY <2>1, NewFrameFacts, PCs
<1>6. stack' = Pushed(t, f)
  BY <1>4
<1> HIDE DEF f
<1>7. PushStep(t, f)
  BY <1>0, <1>5, <1>6, PushFacts
<1>8. Doomed' = Doomed \/ Doomed' = Doomed \cup {d}
  BY <1>0, <1>5, <1>7, PushDoomed
<1> QED BY <1>3, <1>8, MemoSteps

(* The last retirement of a device to end makes its address usable again. *)
LEMMA EndMemo ==
  ASSUME FunctionInv, NEW t \in Threads, EndRetirement(t)
  PROVE  Memo!Next \/ UNCHANGED <<Table, Doomed>>
<1>0. TypeOK /\ FramesOK
  BY DEF FunctionInv
<1>1. /\ Depth(t) > 0 /\ stack' = Popped(t) /\ UNCHANGED <<scopes, entries, outcome>>
  BY DEF EndRetirement, At
<1>2. /\ Len(stack[t]) \in Nat /\ Len(stack[t]) > 0 /\ Len(stack[t]) \in 1..Len(stack[t])
      /\ Top(t) = stack[t][Len(stack[t])]
  BY <1>0, <1>1, TopFacts
<1>3. PICK d \in Devices : d = Top(t).device
  BY <1>0, <1>2, FrameTyped
<1>4. Table' = Table
  BY <1>1, TableKept
<1>5. PopStep(t)
  BY <1>0, <1>1, PopFacts
<1>6. ASSUME NEW u \in Threads, NEW i \in 1..Len(stack'[u])
      PROVE  i \in 1..Len(stack[u]) /\ stack'[u][i] = stack[u][i]
  BY <1>2, <1>5 DEF PopStep
<1>7. ASSUME NEW c \in Devices, Destroying(c)' PROVE Destroying(c)
  BY <1>6, <1>7 DEF Destroying, Depth
<1>8. ASSUME NEW c \in Devices, c # d, Destroying(c) PROVE Destroying(c)'
  <2>1. PICK u \in Threads : \E i \in 1..Len(stack[u]) :
          stack[u][i].device = c /\ stack[u][i].pc \in {"detached", "retired"}
    BY <1>8 DEF Destroying, Depth
  <2>2. PICK i \in 1..Len(stack[u]) :
          stack[u][i].device = c /\ stack[u][i].pc \in {"detached", "retired"}
    BY <2>1
  <2>3. u # t \/ i # Len(stack[t])
    BY <1>2, <1>3, <1>8, <2>2
  <2>4. i \in 1..Len(stack'[u]) /\ stack'[u][i] = stack[u][i]
    BY <1>2, <1>5, <2>3 DEF PopStep
  <2> QED BY <2>2, <2>4 DEF Destroying, Depth
<1>9. Doomed' = Doomed \/ Doomed' = Doomed \ {d}
  BY <1>7, <1>8 DEF Doomed
<1> QED BY <1>4, <1>9, MemoSteps

(* Every step of every thread is a step of the memo or invisible. *)
LEMMA MemoStep == FunctionInv /\ [Next]_vars => [Memo!Next]_(Memo!vars)
<1> SUFFICES ASSUME FunctionInv, [Next]_vars
             PROVE  Memo!Next \/ UNCHANGED Memo!vars
  OBVIOUS
<1>0. TypeOK /\ FramesOK
  BY DEF FunctionInv
<1>1. ASSUME UNCHANGED <<Table, Doomed>> PROVE UNCHANGED Memo!vars
  BY <1>1 DEF Table, Doomed, Memo!vars
<1>2. ASSUME NEW t \in Threads, QuietMove(t), UNCHANGED <<scopes, entries, outcome>>
      PROVE  UNCHANGED Memo!vars
  BY <1>0, <1>1, <1>2, QuietMoveStack, QuietMemo
<1>3. ASSUME NEW t \in Threads, Call(t) PROVE UNCHANGED Memo!vars
  BY <1>1, <1>3, CallMemo
<1>4. ASSUME NEW t \in Destroyers, Retire(t) PROVE Memo!Next
  BY <1>4, DetachMemo, DestroyerAssumption
<1>5. ASSUME NEW t \in Threads, Step(t) PROVE Memo!Next \/ UNCHANGED Memo!vars
  <2>1. CASE Produce(t)
    BY <1>1, <2>1, ProduceMemo
  <2>2. CASE EntryAllocFails(t) \/ Bypass(t) \/ Wait(t) \/ Hit(t)
    <3>1. QuietMove(t)
      BY <1>0, <2>2, LookupQuiet
    <3>2. UNCHANGED <<scopes, entries, outcome>>
      BY <2>2 DEF EntryAllocFails, Bypass, Wait, Hit, shared
    <3> QED BY <1>2, <3>1, <3>2
  <2>3. CASE Resume(t)
    <3>1. QuietMove(t)
      BY <1>0, <2>3, ResumeQuiet
    <3>2. UNCHANGED <<scopes, entries, outcome>>
      BY <2>3 DEF Resume, shared
    <3> QED BY <1>2, <3>1, <3>2
  <2>4. CASE NotifyAll(t)
    <3>1. QuietStack
      BY <1>0, <2>4, NotifyQuiet
    <3>2. UNCHANGED <<scopes, entries, outcome>>
      BY <2>4 DEF NotifyAll, shared
    <3> QED BY <1>1, <3>1, <3>2, QuietMemo
  <2> QED BY <1>5, <2>1, <2>2, <2>3, <2>4 DEF Step
<1>6. ASSUME NEW t \in Threads, ForeignReturns(t) PROVE Memo!Next \/ UNCHANGED Memo!vars
  <2>1. CASE CopyReturns(t) \/ CreateReturns(t) \/ RetainReturns(t) \/ DirectReturns(t)
               \/ ForgetReturns(t)
    <3>1. QuietMove(t)
      BY <1>0, <2>1, ReturnQuiet
    <3>2. UNCHANGED <<scopes, entries, outcome>>
      BY <2>1 DEF CopyReturns, CreateReturns, RetainReturns, DirectReturns, ForgetReturns,
                  shared
    <3> QED BY <1>2, <3>1, <3>2
  <2>2. CASE ReleaseForgotten(t)
    <3>1. QuietMove(t)
      BY <1>0, <2>2, ReleaseQuiet
    <3>2. UNCHANGED <<scopes, entries, outcome>>
      BY <2>2 DEF ReleaseForgotten, shared
    <3> QED BY <1>2, <3>1, <3>2
  <2>3. CASE RetainFails(t) \/ CreateUncached(t) \/ SnapshotReturns(t)
    <3>1. PICK o, pc : Lands(t, o, pc)
      BY <2>3, PublishLands
    <3> QED BY <1>1, <3>1, LandMemo
  <2>4. CASE EndRetirement(t)
    BY <1>1, <2>4, EndMemo
  <2> QED BY <1>6, <2>1, <2>2, <2>3, <2>4 DEF ForeignReturns
<1>7. ASSUME UNCHANGED <<scopes, entries, outcome, stack>> PROVE UNCHANGED Memo!vars
  <2>1. QuietStack
    BY <1>7, ContinuesSelf DEF QuietStack
  <2> QED BY <1>1, <1>7, <2>1, QuietMemo
<1>8. ASSUME NEW l \in Libraries, LibraryReplaced(l) PROVE UNCHANGED Memo!vars
  BY <1>7, <1>8 DEF LibraryReplaced
<1>9. CASE UNCHANGED vars
  BY <1>7, <1>9 DEF vars
<1> QED BY <1>3, <1>4, <1>5, <1>6, <1>8, <1>9 DEF Next

(***************************************************************************)
(* The function cache implements the per-device memo: seen through the     *)
(* current scopes, every step of every thread is one of DeviceMemo's steps *)
(* or invisible.                                                           *)
(***************************************************************************)
THEOREM CacheImplementsMemo == Spec => ImplementsMemo
<1>1. Init => Memo!Init
  <2> SUFFICES ASSUME Init PROVE Memo!Init
    OBVIOUS
  <2>1. \A d \in Devices, l \in Libraries : Known(d, l) = "absent"
    BY DEF Init, Known
  <2>2. \A d \in Devices : ~Destroying(d)
    BY DEF Init, Destroying, Depth
  <2> QED BY <2>1, <2>2 DEF Memo!Init, Memo!Empty
<1> QED BY <1>1, MemoStep, InvCorrect, PTL DEF Spec, ImplementsMemo, Memo!Spec

=============================================================================
