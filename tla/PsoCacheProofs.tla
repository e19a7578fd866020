--------------------------- MODULE PsoCacheProofs ---------------------------
(***************************************************************************)
(* Proofs about PsoCache, for any number of threads, devices, keys and     *)
(* entries and any nesting depth: its types, the soundness of the cycle    *)
(* search and from it the absence of deadlock and of lost wake-ups; then   *)
(* that creations of one key never overlap, that the lives of a device     *)
(* address are kept apart, that the raw pointers of the cycle search never *)
(* dangle, and that the cache implements the per-device memo DeviceMemo.   *)
(***************************************************************************)
EXTENDS PsoCache, TLAPS

-----------------------------------------------------------------------------
(* What the three stack operations do, index by index. *)

(* Pushed adds a frame above the others and leaves other threads alone. *)
LEMMA PushFacts ==
  ASSUME TypeOK, NEW t \in Threads, NEW f \in Frame, stack' = Pushed(t, f)
  PROVE  /\ stack' \in [Threads -> Seq(Frame)]
         /\ Len(stack'[t]) = Len(stack[t]) + 1
         /\ stack'[t][Len(stack[t]) + 1] = f
         /\ \A i \in 1..Len(stack[t]) : stack'[t][i] = stack[t][i]
         /\ \A u \in Threads : u # t => stack'[u] = stack[u]
<1>1. stack[t] \in Seq(Frame) /\ stack'[t] = Append(stack[t], f)
  BY DEF TypeOK, Pushed
<1>2. stack'[t] \in Seq(Frame)
  BY <1>1
<1>3. stack' \in [Threads -> Seq(Frame)]
  BY <1>2 DEF TypeOK, Pushed
<1>4. \A u \in Threads : u # t => stack'[u] = stack[u]
  BY DEF TypeOK, Pushed
<1> QED BY <1>1, <1>3, <1>4

(* Popped removes the innermost frame only. *)
LEMMA PopFacts ==
  ASSUME TypeOK, NEW t \in Threads, Depth(t) > 0, stack' = Popped(t)
  PROVE  /\ stack' \in [Threads -> Seq(Frame)]
         /\ Len(stack'[t]) = Len(stack[t]) - 1
         /\ \A i \in 1..(Len(stack[t]) - 1) : stack'[t][i] = stack[t][i]
         /\ \A u \in Threads : u # t => stack'[u] = stack[u]
<1>1. /\ stack[t] \in Seq(Frame)
      /\ Len(stack[t]) \in Nat
      /\ Len(stack[t]) > 0
      /\ stack'[t] = SubSeq(stack[t], 1, Len(stack[t]) - 1)
  BY DEF TypeOK, Popped, Depth
<1>2. stack'[t] \in Seq(Frame)
  BY <1>1
<1>3. stack' \in [Threads -> Seq(Frame)]
  BY <1>2 DEF TypeOK, Popped
<1>4. \A u \in Threads : u # t => stack'[u] = stack[u]
  BY DEF TypeOK, Popped
<1>5. /\ Len(stack'[t]) = Len(stack[t]) - 1
      /\ \A i \in 1..(Len(stack[t]) - 1) : stack'[t][i] = stack[t][i]
  BY <1>1
<1> QED BY <1>3, <1>4, <1>5

(* Changed replaces the innermost frame only. *)
LEMMA ChangeFacts ==
  ASSUME TypeOK, NEW t \in Threads, NEW f \in Frame, Depth(t) > 0,
         stack' = Changed(t, f)
  PROVE  /\ stack' \in [Threads -> Seq(Frame)]
         /\ Len(stack'[t]) = Len(stack[t])
         /\ stack'[t][Len(stack[t])] = f
         /\ \A i \in 1..(Len(stack[t]) - 1) : stack'[t][i] = stack[t][i]
         /\ \A u \in Threads : u # t => stack'[u] = stack[u]
<1>1. /\ stack[t] \in Seq(Frame)
      /\ Len(stack[t]) \in Nat
      /\ Len(stack[t]) > 0
      /\ stack'[t] = [stack[t] EXCEPT ![Len(stack[t])] = f]
  BY DEF TypeOK, Changed, Depth
<1>2. stack'[t] \in Seq(Frame) /\ Len(stack'[t]) = Len(stack[t])
  BY <1>1
<1>3. stack' \in [Threads -> Seq(Frame)]
  BY <1>2 DEF TypeOK, Changed
<1>4. \A u \in Threads : u # t => stack'[u] = stack[u]
  BY DEF TypeOK, Changed
<1>5. /\ stack'[t][Len(stack[t])] = f
      /\ \A i \in 1..(Len(stack[t]) - 1) : stack'[t][i] = stack[t][i]
  BY <1>1
<1> QED BY <1>2, <1>3, <1>4, <1>5

(* The innermost frame of a thread inside the cache is a frame. *)
LEMMA TopFacts ==
  ASSUME TypeOK, NEW t \in Threads, Depth(t) > 0
  PROVE  /\ Depth(t) \in Nat /\ Depth(t) = Len(stack[t])
         /\ Top(t) \in Frame
         /\ Top(t) = stack[t][Len(stack[t])]
BY DEF TypeOK, Top, Depth

-----------------------------------------------------------------------------
(* Types. *)

(* A new frame has the type of frames. *)
LEMMA NewFrameType ==
  ASSUME TypeOK, NEW pc \in PC \ Holding, NEW d \in Devices,
         NEW k \in Keys \cup {None}, NEW s \in Scopes \cup {None},
         pc = "lookup" => k \in Keys /\ s \in Scopes
  PROVE  NewFrame(pc, d, k, s) \in Frame
<1>1. life[d] \in Nat
  BY DEF TypeOK
<1>2. NewFrame(pc, d, k, s) \in Locals
  BY <1>1 DEF NewFrame, Locals
<1> QED BY <1>2 DEF NewFrame, Frame

(* What a call that goes on with an entry keeps and changes. *)
LEMMA AtEntryFacts ==
  ASSUME TypeOK, NEW t \in Threads, Depth(t) > 0, NEW pc \in PC,
         NEW e \in Entries \cup {None},
         pc \in Holding \cup {"lookup"} =>
           Top(t).scope \in Scopes /\ Top(t).key \in Keys,
         pc \in Holding => e \in Entries
  PROVE  /\ AtEntry(t, pc, e) \in Frame
         /\ AtEntry(t, pc, e).pc = pc
         /\ AtEntry(t, pc, e).entry = e
         /\ AtEntry(t, pc, e).previous = Top(t).previous
         /\ AtEntry(t, pc, e).scope = Top(t).scope
         /\ AtEntry(t, pc, e).key = Top(t).key
         /\ AtEntry(t, pc, e).device = Top(t).device
         /\ AtEntry(t, pc, e).life = Top(t).life
<1>1. ASSUME NEW f \in Frame
      PROVE  LET g == [f EXCEPT !.pc = pc, !.entry = e]
             IN /\ g \in Locals
                /\ g.pc = pc
                /\ g.entry = e
                /\ g.previous = f.previous
                /\ g.scope = f.scope
                /\ g.key = f.key
                /\ g.device = f.device
                /\ g.life = f.life
  BY <1>1 DEF Frame, Locals
<1>2. Top(t) \in Frame
  BY TopFacts
<1> DEFINE g == [Top(t) EXCEPT !.pc = pc, !.entry = e]
<1>3. /\ g \in Locals
      /\ g.pc = pc
      /\ g.entry = e
      /\ g.previous = Top(t).previous
      /\ g.scope = Top(t).scope
      /\ g.key = Top(t).key
      /\ g.device = Top(t).device
      /\ g.life = Top(t).life
  BY <1>1, <1>2
<1>4. AtEntry(t, pc, e) = g
  BY DEF AtEntry
<1> HIDE DEF g
<1> QED BY <1>3, <1>4 DEF Frame

(* What a call that becomes a producer keeps and changes. *)
LEMMA AsProducerFacts ==
  ASSUME TypeOK, NEW t \in Threads, Depth(t) > 0, NEW e \in Entries,
         Top(t).pc = "lookup"
  PROVE  /\ AsProducer(t, e) \in Frame
         /\ AsProducer(t, e).pc = "creating"
         /\ AsProducer(t, e).entry = e
         /\ AsProducer(t, e).previous = activeProducer[t]
         /\ AsProducer(t, e).scope = Top(t).scope
         /\ AsProducer(t, e).key = Top(t).key
         /\ AsProducer(t, e).device = Top(t).device
         /\ AsProducer(t, e).life = Top(t).life
<1>1. ASSUME NEW f \in Frame, NEW p \in Entries \cup {None}
      PROVE  LET g == [f EXCEPT !.pc = "creating", !.entry = e, !.previous = p]
             IN /\ g \in Locals
                /\ g.pc = "creating"
                /\ g.entry = e
                /\ g.previous = p
                /\ g.scope = f.scope
                /\ g.key = f.key
                /\ g.device = f.device
                /\ g.life = f.life
  BY <1>1 DEF Frame, Locals, PC, Producing
<1>2. Top(t) \in Frame /\ activeProducer[t] \in Entries \cup {None}
  BY TopFacts DEF TypeOK
<1> DEFINE g == [Top(t) EXCEPT !.pc = "creating", !.entry = e,
                               !.previous = activeProducer[t]]
<1>3. /\ g \in Locals
      /\ g.pc = "creating"
      /\ g.entry = e
      /\ g.previous = activeProducer[t]
      /\ g.scope = Top(t).scope
      /\ g.key = Top(t).key
      /\ g.device = Top(t).device
      /\ g.life = Top(t).life
  BY <1>1, <1>2
<1>4. AsProducer(t, e) = g
  BY DEF AsProducer
<1> HIDE DEF g
<1>5. Top(t).scope \in Scopes /\ Top(t).key \in Keys
  BY <1>2 DEF Frame
<1> QED BY <1>3, <1>4, <1>5 DEF Frame

(* What withDeviceRetired keeps once it has released the old scope. *)
LEMMA UnscopedFacts ==
  ASSUME TypeOK, NEW t \in Threads, Depth(t) > 0
  PROVE  /\ Unscoped(t) \in Frame
         /\ Unscoped(t).pc = "retired"
         /\ Unscoped(t).scope = None
         /\ Unscoped(t).key = Top(t).key
         /\ Unscoped(t).device = Top(t).device
         /\ Unscoped(t).life = Top(t).life
<1>1. ASSUME NEW f \in Frame
      PROVE  LET g == [f EXCEPT !.pc = "retired", !.scope = None]
             IN /\ g \in Locals
                /\ g.pc = "retired"
                /\ g.scope = None
                /\ g.key = f.key
                /\ g.device = f.device
                /\ g.life = f.life
  BY <1>1 DEF Frame, Locals, PC, Foreign
<1>2. Top(t) \in Frame
  BY TopFacts
<1> DEFINE g == [Top(t) EXCEPT !.pc = "retired", !.scope = None]
<1>3. /\ g \in Locals
      /\ g.pc = "retired"
      /\ g.scope = None
      /\ g.key = Top(t).key
      /\ g.device = Top(t).device
      /\ g.life = Top(t).life
  BY <1>1, <1>2
<1>4. Unscoped(t) = g
  BY DEF Unscoped
<1> HIDE DEF g
<1> QED BY <1>3, <1>4 DEF Frame, Holding, Producing

(* What notify_all does to one frame: only the program counters of the     *)
(* sleepers on the entry and of its notifier change.                       *)
LEMMA NotifiedFacts ==
  ASSUME NEW t \in Threads, NEW f \in Frame
  PROVE  /\ Notified(t, f) \in Frame
         /\ Notified(t, f).entry = f.entry
         /\ Notified(t, f).previous = f.previous
         /\ Notified(t, f).scope = f.scope
         /\ Notified(t, f).key = f.key
         /\ Notified(t, f).device = f.device
         /\ Notified(t, f).life = f.life
         /\ Notified(t, f).pc =
              IF f.entry = Top(t).entry /\ f.pc = "asleep" THEN "awake"
              ELSE IF f.entry = Top(t).entry /\ f.pc = "notify" THEN "leave"
              ELSE f.pc
<1>1. ASSUME NEW pc \in {"awake", "leave"}, f.pc \in Holding
      PROVE  LET g == [f EXCEPT !.pc = pc]
             IN /\ g \in Frame
                /\ g.entry = f.entry
                /\ g.previous = f.previous
                /\ g.scope = f.scope
                /\ g.key = f.key
                /\ g.device = f.device
                /\ g.life = f.life
                /\ g.pc = pc
  <2> DEFINE g == [f EXCEPT !.pc = pc]
  <2>1. /\ g \in Locals
        /\ g.entry = f.entry
        /\ g.previous = f.previous
        /\ g.scope = f.scope
        /\ g.key = f.key
        /\ g.device = f.device
        /\ g.life = f.life
        /\ g.pc = pc
    BY <1>1 DEF Frame, Locals, PC, Producing
  <2> HIDE DEF g
  <2>2. g \in Frame
    BY <1>1, <2>1 DEF Frame
  <2> QED BY <2>1, <2>2 DEF g
<1>2. CASE f.entry = Top(t).entry /\ f.pc = "asleep"
  BY <1>1, <1>2 DEF Notified, Holding
<1>3. CASE f.entry = Top(t).entry /\ f.pc = "notify"
  BY <1>1, <1>3 DEF Notified, Holding, Producing
<1>4. CASE ~(f.entry = Top(t).entry /\ f.pc \in {"asleep", "notify"})
  BY <1>4 DEF Notified
<1> QED BY <1>2, <1>3, <1>4

(* Calling the cache or retiring a device preserves the types. *)
LEMMA CallType ==
  ASSUME TypeOK, NEW t \in Threads, Call(t) \/ Retire(t)
  PROVE  TypeOK'
<1>1. {"direct", "lookup", "forgetting", "detached"} \subseteq PC \ Holding
  BY DEF PC, Foreign, Holding, Producing
<1>2. ASSUME NEW d \in Devices, NEW pc \in PC \ Holding,
             NEW k \in Keys \cup {None}, NEW s \in Scopes \cup {None},
             pc = "lookup" => k \in Keys /\ s \in Scopes,
             stack' = Pushed(t, NewFrame(pc, d, k, s))
      PROVE  stack' \in [Threads -> Seq(Frame)]
  BY <1>2, NewFrameType, PushFacts
<1>3. ASSUME NEW d \in Devices, NEW k \in Keys,
             ScopeRefused(t, d, k) \/ ScopeAllocFails(t, d, k)
      PROVE  TypeOK'
  BY <1>1, <1>2, <1>3 DEF ScopeRefused, ScopeAllocFails, TypeOK
<1>4. ASSUME NEW d \in Devices, NEW k \in Keys, ScopeFound(t, d, k)
      PROVE  TypeOK'
  BY <1>1, <1>2, <1>4 DEF ScopeFound, TypeOK
<1>5. ASSUME NEW d \in Devices, NEW k \in Keys, ScopeCreated(t, d, k)
      PROVE  TypeOK'
  BY <1>1, <1>2, <1>5 DEF ScopeCreated, TypeOK, NoEntries
<1>6. ASSUME NEW d \in Devices, ForgetDevice(t, d)
      PROVE  TypeOK'
  BY <1>1, <1>2, <1>6 DEF ForgetDevice, TypeOK
<1>7. ASSUME NEW d \in Devices, WithDeviceRetired(t, d)
      PROVE  TypeOK'
  <2>1. Depth(t) + 1 \in 1..MaxDepth
    BY <1>7, BoundAssumption DEF WithDeviceRetired, CanCall, Depth, TypeOK
  <2>2. retirements' \subseteq Retirement
    BY <1>7, <2>1 DEF WithDeviceRetired, Retirement, TypeOK
  <2>3. stack' \in [Threads -> Seq(Frame)]
    BY <1>1, <1>2, <1>7 DEF WithDeviceRetired, TypeOK
  <2> QED BY <1>7, <2>2, <2>3 DEF WithDeviceRetired, TypeOK
<1> QED BY <1>3, <1>4, <1>5, <1>6, <1>7 DEF Call, Retire

(* The frame of a call inside the lookup, or of one that holds an entry,   *)
(* has a scope and a key.                                                  *)
LEMMA TopScoped ==
  ASSUME TypeOK, NEW t \in Threads, Depth(t) > 0,
         Top(t).pc \in Holding \cup {"lookup"}
  PROVE  Top(t).scope \in Scopes /\ Top(t).key \in Keys
BY TopFacts DEF Frame

(* Every step of a thread inside the cache preserves the types. *)
LEMMA StepType ==
  ASSUME TypeOK, NEW t \in Threads, Step(t)
  PROVE  TypeOK'
<1>1. CASE Produce(t)
  <2>1. Depth(t) > 0 /\ Top(t) \in Frame /\ Top(t).pc = "lookup"
    BY <1>1, TopFacts DEF Produce, At
  <2>2. PICK e \in Entries :
          /\ entries' = [entries EXCEPT ![Top(t).scope][Top(t).key] = e]
          /\ outcome' = [outcome EXCEPT ![e] = "pending"]
          /\ waitingOn' = GuardLinked(t, e)
          /\ activeProducer' = [activeProducer EXCEPT ![t] = e]
          /\ stack' = Changed(t, AsProducer(t, e))
          /\ bornIn' = [bornIn EXCEPT ![e] = Top(t).life]
    BY <1>1 DEF Produce
  <2>3. stack' \in [Threads -> Seq(Frame)]
    BY <2>1, <2>2, ChangeFacts, AsProducerFacts
  <2>4. entries' \in [Scopes -> [Keys -> Entries \cup {None}]]
    BY <2>1, <2>2 DEF TypeOK
  <2>5. waitingOn' \in [Entries -> Entries \cup {None}]
    BY <2>2 DEF GuardLinked, TypeOK
  <2>6. bornIn' \in [Entries -> Nat]
    BY <2>1, <2>2 DEF TypeOK, Frame, Locals
  <2>7. outcome' \in [Entries -> Outcome]
    BY <2>2 DEF TypeOK, Outcome
  <2>8. activeProducer' \in [Threads -> Entries \cup {None}]
    BY <2>2 DEF TypeOK
  <2> QED BY <1>1, <2>3, <2>4, <2>5, <2>6, <2>7, <2>8 DEF Produce, TypeOK
<1>2. CASE EntryAllocFails(t)
  <2>1. Depth(t) > 0 /\ Top(t).entry \in Entries \cup {None}
    BY <1>2, TopFacts DEF EntryAllocFails, At, Frame, Locals
  <2>2. stack' = Changed(t, AtEntry(t, "direct", Top(t).entry))
    BY <1>2 DEF EntryAllocFails, Goto
  <2>3. "direct" \in PC /\ "direct" \notin Holding \cup {"lookup"}
    BY DEF PC, Foreign, Holding, Producing
  <2>4. stack' \in [Threads -> Seq(Frame)]
    BY <2>1, <2>2, <2>3, AtEntryFacts, ChangeFacts
  <2> QED BY <1>2, <2>4 DEF EntryAllocFails, TypeOK
<1>3. CASE WaitForProducer(t) \/ BypassCycle(t)
  <2>1. Depth(t) > 0 /\ Top(t).pc = "lookup" /\ Found(t) # None
    BY <1>3 DEF WaitForProducer, BypassCycle, At
  <2>2. Top(t).scope \in Scopes /\ Top(t).key \in Keys
    BY <2>1, TopScoped
  <2>3. Found(t) \in Entries
    BY <2>1, <2>2 DEF Found, TypeOK
  <2>4. "direct" \in PC /\ "asleep" \in PC
    BY DEF PC, Foreign
  <2>5. PICK pc \in PC : stack' = Changed(t, AtEntry(t, pc, Found(t)))
    BY <1>3, <2>4 DEF WaitForProducer, BypassCycle, GotoEntry
  <2>6. stack' \in [Threads -> Seq(Frame)]
    BY <2>1, <2>2, <2>3, <2>5, AtEntryFacts, ChangeFacts
  <2>7. waitingOn' \in [Entries -> Entries \cup {None}]
    BY <1>3, <2>3 DEF WaitForProducer, BypassCycle, TypeOK
  <2> QED BY <1>3, <2>6, <2>7 DEF WaitForProducer, BypassCycle, TypeOK
<1>4. CASE Hit(t)
  BY <1>4, PopFacts DEF Hit, At, TypeOK
<1>5. CASE Resume(t)
  <2>1. stack' \in [Threads -> Seq(Frame)]
    BY <1>5, PopFacts DEF Resume, At
  <2>2. waitingOn' \in [Entries -> Entries \cup {None}]
    BY <1>5 DEF Resume, WaitUnlinked, TypeOK
  <2> QED BY <1>5, <2>1, <2>2 DEF Resume, TypeOK
<1>6. CASE NotifyAll(t)
  <2>1. ASSUME NEW u \in Threads
        PROVE  [i \in 1..Depth(u) |-> Notified(t, stack[u][i])] \in Seq(Frame)
    <3>1. Depth(u) \in Nat /\ \A i \in 1..Depth(u) : stack[u][i] \in Frame
      BY DEF TypeOK, Depth
    <3>2. \A i \in 1..Depth(u) : Notified(t, stack[u][i]) \in Frame
      BY <3>1, NotifiedFacts
    <3> QED BY <3>1, <3>2
  <2>2. stack' \in [Threads -> Seq(Frame)]
    BY <1>6, <2>1 DEF NotifyAll
  <2> QED BY <1>6, <2>2 DEF NotifyAll, TypeOK
<1>7. CASE Leave(t)
  <2>1. Depth(t) > 0 /\ Top(t).previous \in Entries \cup {None}
    BY <1>7, TopFacts DEF Leave, At, Frame, Locals
  <2>2. stack' \in [Threads -> Seq(Frame)]
    BY <1>7, <2>1, PopFacts DEF Leave
  <2>3. waitingOn' \in [Entries -> Entries \cup {None}]
    BY <1>7 DEF Leave, TypeOK
  <2>4. activeProducer' \in [Threads -> Entries \cup {None}]
    BY <1>7, <2>1 DEF Leave, TypeOK
  <2> QED BY <1>7, <2>2, <2>3, <2>4 DEF Leave, TypeOK
<1> QED BY <1>1, <1>2, <1>3, <1>4, <1>5, <1>6, <1>7 DEF Step, Lookup

(* Every return of foreign code preserves the types. *)
LEMMA CreateReturnsType ==
  ASSUME TypeOK, NEW t \in Threads, CreateReturns(t)
  PROVE  TypeOK'
<1>1. ASSUME NEW o \in Outcome \ {"pending"}, Publish(t, o)
      PROVE  TypeOK'
  <2>1. Depth(t) > 0 /\ Top(t).pc = "creating"
    BY <1>1 DEF Publish, At
  <2>2. "creating" \in Holding /\ "notify" \in PC
    BY DEF Holding, Producing, PC
  <2>3. /\ Top(t).scope \in Scopes /\ Top(t).key \in Keys
        /\ Top(t).entry \in Entries
    BY <2>1, <2>2, TopFacts DEF Frame
  <2>4. stack' = Changed(t, AtEntry(t, "notify", Top(t).entry))
    BY <1>1 DEF Publish, Goto
  <2>5. stack' \in [Threads -> Seq(Frame)]
    BY <2>1, <2>2, <2>3, <2>4, AtEntryFacts, ChangeFacts
  <2>6. entries' \in [Scopes -> [Keys -> Entries \cup {None}]]
    <3> DEFINE old == entries[Top(t).scope][Top(t).key]
               new == IF o # "success" /\ old = Top(t).entry THEN None ELSE old
    <3>1. entries' = [entries EXCEPT ![Top(t).scope][Top(t).key] = new]
      BY <1>1 DEF Publish, ErasedUnless
    <3>2. new \in Entries \cup {None}
      BY <2>3 DEF TypeOK
    <3> HIDE DEF new
    <3> QED BY <3>1, <3>2 DEF TypeOK
  <2>7. outcome' \in [Entries -> Outcome]
    BY <1>1 DEF Publish, TypeOK
  <2> QED BY <1>1, <2>5, <2>6, <2>7 DEF Publish, TypeOK
<1>2. CASE DirectReturns(t) \/ ForgetReturns(t)
  BY <1>2, PopFacts DEF DirectReturns, ForgetReturns, At, TypeOK
<1>3. CASE ReleaseForgotten(t)
  BY <1>3, UnscopedFacts, ChangeFacts DEF ReleaseForgotten, At, TypeOK
<1>4. CASE EndRetirement(t)
  <2>1. stack' \in [Threads -> Seq(Frame)]
    BY <1>4, PopFacts DEF EndRetirement, At
  <2>2. life' \in [Devices -> Nat]
    <3>1. Top(t).device \in Devices
      BY <1>4, TopFacts DEF EndRetirement, At, Frame, Locals
    <3> DEFINE n == IF \E r \in retirements' : r.device = Top(t).device
                    THEN life[Top(t).device] ELSE life[Top(t).device] + 1
    <3>2. life' = [life EXCEPT ![Top(t).device] = n]
      BY <1>4 DEF EndRetirement
    <3>3. n \in Nat
      BY <3>1 DEF TypeOK
    <3> HIDE DEF n
    <3> QED BY <3>2, <3>3 DEF TypeOK
  <2> QED BY <1>4, <2>1, <2>2 DEF EndRetirement, TypeOK
<1> QED BY <1>1, <1>2, <1>3, <1>4 DEF CreateReturns

(* Types are preserved by every step of the cache. *)
LEMMA TypeStep == TypeOK /\ [Next]_vars => TypeOK'
<1>1. TypeOK /\ Next => TypeOK'
  BY CallType, StepType, CreateReturnsType, DestroyerAssumption DEF Next
<1>2. TypeOK /\ UNCHANGED vars => TypeOK'
  BY DEF TypeOK, vars
<1> QED BY <1>1, <1>2

(* The cache's maps, entries, thread-locals and call stacks keep their     *)
(* types in every run of cache.mm.                                         *)
THEOREM TypeCorrect == Spec => []TypeOK
<1>1. Init => TypeOK
  <2>1. ASSUME Init PROVE stack \in [Threads -> Seq(Frame)]
    BY <2>1 DEF Init
  <2> QED BY <2>1 DEF Init, TypeOK, NoEntries, Outcome
<1> QED BY <1>1, TypeStep, PTL DEF Spec

-----------------------------------------------------------------------------
(* Steps that neither produce, wait nor publish. *)

(***************************************************************************)
(* Passive(t): thread t moves between frames that hold no entry in         *)
(* production and does not fall asleep.                                    *)
(***************************************************************************)
Passive(t) ==
  /\ \A u \in Threads : u # t => stack'[u] = stack[u]
  /\ \A i \in 1..Len(stack[t]) : stack[t][i].pc \in Producing =>
       i \in 1..Len(stack'[t]) /\ stack'[t][i] = stack[t][i]
  /\ \A i \in 1..Len(stack'[t]) : stack'[t][i].pc \in Producing =>
       i \in 1..Len(stack[t]) /\ stack'[t][i] = stack[t][i]
  /\ Len(stack'[t]) > 0 => stack'[t][Len(stack'[t])].pc # "asleep"
  /\ \A i \in 1..(Len(stack'[t]) - 1) : stack'[t][i].pc \in Foreign

(* After a passive step every thread has exactly the producing frames it   *)
(* had before, at the same depths.                                         *)
LEMMA PassiveFrames ==
  ASSUME TypeOK, TypeOK', NEW t \in Threads, Passive(t), NEW u \in Threads
  PROVE  /\ Len(stack[u]) \in Nat /\ Len(stack'[u]) \in Nat
         /\ \A i \in 1..Len(stack[u]) : stack[u][i].pc \in Producing =>
              i \in 1..Len(stack'[u]) /\ stack'[u][i] = stack[u][i]
         /\ \A i \in 1..Len(stack'[u]) : stack'[u][i].pc \in Producing =>
              i \in 1..Len(stack[u]) /\ stack'[u][i] = stack[u][i]
         /\ At(u, "asleep")' => At(u, "asleep") /\ Top(u)' = Top(u)
<1>1. Len(stack[u]) \in Nat /\ Len(stack'[u]) \in Nat
  BY DEF TypeOK
<1>2. CASE u = t
  BY <1>1, <1>2 DEF Passive, At, Top, Depth
<1>3. CASE u # t
  BY <1>1, <1>3 DEF Passive, At, Top, Depth
<1> QED BY <1>1, <1>2, <1>3

(* The entry of a producing frame is an entry. *)
LEMMA ProducingEntry ==
  ASSUME TypeOK, NEW u \in Threads, NEW i \in 1..Len(stack[u]),
         stack[u][i].pc \in Producing
  PROVE  stack[u][i].entry \in Entries
<1>1. stack[u][i] \in Frame
  BY DEF TypeOK
<1> QED BY <1>1 DEF Frame, Holding

(* A thread's active producer is no entry of another thread's, and no      *)
(* entry of its own that it is not the innermost producer of.              *)
LEMMA ActiveOwner ==
  ASSUME TypeOK, StackInv, NEW t \in Threads, NEW u \in Threads,
         NEW i \in 1..Len(stack[u]), stack[u][i].pc \in Producing,
         stack[u][i].entry # activeProducer[u]
  PROVE  stack[u][i].entry # activeProducer[t]
<1> SUFFICES ASSUME stack[u][i].entry = activeProducer[t] PROVE FALSE
  OBVIOUS
<1>1. activeProducer[t] # None
  BY ProducingEntry, NoneAssumption
<1>2. PICK j \in 1..Len(stack[t]) : /\ stack[t][j].pc \in Producing
                                   /\ stack[t][j].entry = activeProducer[t]
  BY <1>1 DEF StackInv, ActiveIsProducing, IsProducing, Depth
<1>3. t = u
  BY <1>2 DEF StackInv, OneProducerPerEntry, IsProducing, Depth
<1> QED BY <1>3

(***************************************************************************)
(* SameProducers: every thread keeps its producing frames, at the same     *)
(* depths, with their entries; only their program counters may change.     *)
(***************************************************************************)
SameProducers ==
  \A u \in Threads :
    /\ \A i \in 1..Len(stack[u]) : stack[u][i].pc \in Producing =>
         /\ i \in 1..Len(stack'[u])
         /\ stack'[u][i].pc \in Producing
    /\ \A i \in 1..Len(stack'[u]) : stack'[u][i].pc \in Producing =>
         /\ i \in 1..Len(stack[u])
         /\ stack[u][i].pc \in Producing
         /\ stack'[u][i].entry = stack[u][i].entry
         /\ stack'[u][i].previous = stack[u][i].previous

(* A step that changes no producing frame, and of the links only the one   *)
(* of its thread's innermost entry, preserves the rest of StackInv.        *)
LEMMA SameProducersStack ==
  ASSUME TypeOK, TypeOK', StackInv, SameProducers, NEW t \in Threads,
         UNCHANGED activeProducer,
         \A x \in Entries : x # activeProducer[t] => waitingOn'[x] = waitingOn[x],
         ForeignBelowTop', SleeperLinked'
  PROVE  StackInv'
<1>2. OneProducerPerEntry'
  <2> SUFFICES ASSUME NEW u \in Threads, NEW v \in Threads,
                      NEW i \in 1..Len(stack'[u]), NEW j \in 1..Len(stack'[v]),
                      stack'[u][i].pc \in Producing,
                      stack'[v][j].pc \in Producing,
                      stack'[u][i].entry = stack'[v][j].entry
               PROVE  u = v /\ i = j
    BY DEF OneProducerPerEntry, IsProducing, Depth
  <2> QED BY DEF SameProducers, OneProducerPerEntry, IsProducing, Depth, StackInv
<1>3. PreviousIsBelow'
  <2> SUFFICES ASSUME NEW u \in Threads, NEW j \in 1..Len(stack'[u]),
                      stack'[u][j].pc \in Producing, stack'[u][j].previous # None
               PROVE  \E i \in 1..(j - 1) :
                        /\ stack'[u][i].pc \in Producing
                        /\ stack'[u][i].entry = stack'[u][j].previous
    BY DEF PreviousIsBelow, IsProducing, Depth
  <2>1. /\ j \in 1..Len(stack[u])
        /\ stack[u][j].pc \in Producing
        /\ stack'[u][j].previous = stack[u][j].previous
    BY DEF SameProducers
  <2>2. PICK i \in 1..(j - 1) : /\ stack[u][i].pc \in Producing
                               /\ stack[u][i].entry = stack[u][j].previous
    BY <2>1 DEF PreviousIsBelow, IsProducing, Depth, StackInv
  <2>3. Len(stack[u]) \in Nat /\ i \in 1..Len(stack[u])
    BY <2>1 DEF TypeOK
  <2>4. stack'[u][i].pc \in Producing /\ stack'[u][i].entry = stack[u][i].entry
    BY <2>2, <2>3 DEF SameProducers
  <2> QED BY <2>1, <2>2, <2>4
<1>4. ActiveIsProducing'
  <2> SUFFICES ASSUME NEW u \in Threads, activeProducer[u] # None
               PROVE  \E i \in 1..Len(stack'[u]) :
                        /\ stack'[u][i].pc \in Producing
                        /\ stack'[u][i].entry = activeProducer[u]
    BY DEF ActiveIsProducing, IsProducing, Depth
  <2>1. PICK i \in 1..Len(stack[u]) : /\ stack[u][i].pc \in Producing
                                     /\ stack[u][i].entry = activeProducer[u]
    BY DEF ActiveIsProducing, IsProducing, Depth, StackInv
  <2> QED BY <2>1 DEF SameProducers
<1>5. EnclosingLinked'
  <2> SUFFICES ASSUME NEW u \in Threads, NEW i \in 1..Len(stack'[u]),
                      stack'[u][i].pc \in Producing,
                      stack'[u][i].entry # activeProducer[u]
               PROVE  \E j \in (i + 1)..Len(stack'[u]) :
                        /\ stack'[u][j].pc \in Producing
                        /\ stack'[u][j].previous = stack'[u][i].entry
                        /\ waitingOn'[stack'[u][i].entry] = stack'[u][j].entry
    BY DEF EnclosingLinked, IsProducing, Depth
  <2>1. /\ i \in 1..Len(stack[u])
        /\ stack[u][i].pc \in Producing
        /\ stack'[u][i].entry = stack[u][i].entry
    BY DEF SameProducers
  <2>2. PICK j \in (i + 1)..Len(stack[u]) :
          /\ stack[u][j].pc \in Producing
          /\ stack[u][j].previous = stack[u][i].entry
          /\ waitingOn[stack[u][i].entry] = stack[u][j].entry
    BY <2>1 DEF EnclosingLinked, IsProducing, Depth, StackInv
  <2>3. /\ Len(stack[u]) \in Nat /\ Len(stack'[u]) \in Nat
        /\ j \in 1..Len(stack[u])
    BY <2>1 DEF TypeOK
  <2>4. /\ j \in 1..Len(stack'[u])
        /\ stack'[u][j].pc \in Producing
        /\ stack'[u][j].entry = stack[u][j].entry
        /\ stack'[u][j].previous = stack[u][j].previous
    BY <2>2, <2>3 DEF SameProducers
  <2>5. stack[u][i].entry \in Entries
    BY <2>1, ProducingEntry
  <2>6. stack[u][i].entry # activeProducer[t]
    BY <2>1, <2>5, ActiveOwner
  <2>7. waitingOn'[stack[u][i].entry] = waitingOn[stack[u][i].entry]
    BY <2>5, <2>6
  <2> QED BY <2>1, <2>2, <2>3, <2>4, <2>7
<1> QED BY <1>2, <1>3, <1>4, <1>5 DEF StackInv

(* A passive step preserves the shape of the stacks and their links. *)
LEMMA PassiveStack ==
  ASSUME TypeOK, TypeOK', StackInv, NEW t \in Threads, Passive(t),
         UNCHANGED <<waitingOn, activeProducer>>
  PROVE  StackInv'
<1>1. ForeignBelowTop'
  BY DEF ForeignBelowTop, Passive, Depth, StackInv
<1>2. SleeperLinked'
  BY PassiveFrames DEF SleeperLinked, StackInv
<1>3. SameProducers
  BY PassiveFrames DEF SameProducers
<1> QED BY <1>1, <1>2, <1>3, SameProducersStack

(* A passive step leaves nobody asleep without a producer. *)
LEMMA PassiveWait ==
  ASSUME TypeOK, TypeOK', WaitInv, NEW t \in Threads, Passive(t),
         UNCHANGED <<waitingOn, activeProducer, outcome>>
  PROVE  WaitInv'
<1>1. StackInv'
  BY PassiveStack DEF WaitInv
<1>2. Acyclic'
  BY DEF WaitInv, Acyclic
<1>3. {"creating", "notify"} \subseteq Producing
  BY DEF Producing
<1>4. PendingHasProducer'
  <2> SUFFICES ASSUME NEW e \in Entries, outcome[e] = "pending"
               PROVE  \E u \in Threads : \E i \in 1..Len(stack'[u]) :
                        stack'[u][i].pc = "creating" /\ stack'[u][i].entry = e
    BY DEF PendingHasProducer, Depth
  <2>1. PICK u \in Threads : \E i \in 1..Len(stack[u]) :
          stack[u][i].pc = "creating" /\ stack[u][i].entry = e
    BY DEF WaitInv, PendingHasProducer, Depth
  <2> QED BY <1>3, <2>1, PassiveFrames
<1>5. NoOrphanWaiter'
  <2> SUFFICES ASSUME NEW w \in Threads, At(w, "asleep")'
               PROVE  \E u \in Threads : \E i \in 1..Len(stack'[u]) :
                        /\ stack'[u][i].pc \in {"creating", "notify"}
                        /\ stack'[u][i].entry = Top(w)'.entry
    BY DEF NoOrphanWaiter, Depth
  <2>1. At(w, "asleep") /\ Top(w)' = Top(w)
    BY PassiveFrames
  <2>2. PICK u \in Threads : \E i \in 1..Len(stack[u]) :
          /\ stack[u][i].pc \in {"creating", "notify"}
          /\ stack[u][i].entry = Top(w).entry
    BY <2>1 DEF WaitInv, NoOrphanWaiter, Depth
  <2> QED BY <1>3, <2>1, <2>2, PassiveFrames
<1> QED BY <1>1, <1>2, <1>4, <1>5 DEF WaitInv

(* Entering the cache or one of its retirement functions is passive. *)
LEMMA PushIsPassive ==
  ASSUME TypeOK, ForeignBelowTop, NEW t \in Threads, CanCall(t),
         NEW f \in Frame, f.pc \notin Holding, stack' = Pushed(t, f)
  PROVE  Passive(t)
<1>1. Len(stack[t]) \in Nat
  BY DEF TypeOK
<1>2. \A i \in 1..Len(stack[t]) : stack[t][i].pc \in Foreign
  BY <1>1 DEF ForeignBelowTop, CanCall, Depth, Top
<1>3. "asleep" \in Holding /\ Producing \subseteq Holding
  BY DEF Holding
<1>4. /\ Len(stack'[t]) = Len(stack[t]) + 1
      /\ stack'[t][Len(stack[t]) + 1] = f
      /\ \A i \in 1..Len(stack[t]) : stack'[t][i] = stack[t][i]
      /\ \A u \in Threads : u # t => stack'[u] = stack[u]
  BY PushFacts
<1> QED BY <1>1, <1>2, <1>3, <1>4 DEF Passive

(* Returning from a frame that produces nothing is passive. *)
LEMMA PopIsPassive ==
  ASSUME TypeOK, ForeignBelowTop, NEW t \in Threads, Depth(t) > 0,
         Top(t).pc \notin Producing, stack' = Popped(t)
  PROVE  Passive(t)
<1>1. Len(stack[t]) \in Nat /\ Len(stack[t]) > 0
  BY DEF TypeOK, Depth
<1>2. \A i \in 1..(Len(stack[t]) - 1) :
        stack[t][i].pc \in Foreign /\ stack[t][i].pc # "asleep"
  BY <1>1 DEF ForeignBelowTop, Depth, Foreign
<1>3. stack[t][Len(stack[t])].pc \notin Producing
  BY DEF Top, Depth
<1>4. /\ Len(stack'[t]) = Len(stack[t]) - 1
      /\ \A i \in 1..(Len(stack[t]) - 1) : stack'[t][i] = stack[t][i]
      /\ \A u \in Threads : u # t => stack'[u] = stack[u]
  BY PopFacts
<1> QED BY <1>1, <1>2, <1>3, <1>4 DEF Passive

(* Moving between two frames that produce nothing is passive. *)
LEMMA ChangeIsPassive ==
  ASSUME TypeOK, ForeignBelowTop, NEW t \in Threads, Depth(t) > 0,
         Top(t).pc \notin Producing, NEW f \in Frame, f.pc \notin Holding,
         stack' = Changed(t, f)
  PROVE  Passive(t)
<1>1. Len(stack[t]) \in Nat /\ Len(stack[t]) > 0
  BY DEF TypeOK, Depth
<1>2. \A i \in 1..(Len(stack[t]) - 1) : stack[t][i].pc \in Foreign
  BY <1>1 DEF ForeignBelowTop, Depth
<1>3. stack[t][Len(stack[t])].pc \notin Producing
  BY DEF Top, Depth
<1>4. "asleep" \in Holding /\ Producing \subseteq Holding
  BY DEF Holding
<1>5. /\ Len(stack'[t]) = Len(stack[t])
      /\ stack'[t][Len(stack[t])] = f
      /\ \A i \in 1..(Len(stack[t]) - 1) : stack'[t][i] = stack[t][i]
      /\ \A u \in Threads : u # t => stack'[u] = stack[u]
  BY ChangeFacts
<1> QED BY <1>1, <1>2, <1>3, <1>4, <1>5 DEF Passive

(* Calls of the cache and of its retirement functions keep the invariant. *)
LEMMA CallWait ==
  ASSUME TypeOK, TypeOK', WaitInv, NEW t \in Threads, Call(t) \/ Retire(t)
  PROVE  WaitInv'
<1>1. {"direct", "lookup", "forgetting", "detached"} \subseteq PC \ Holding
  BY DEF PC, Foreign, Holding, Producing
<1>2. ASSUME NEW d \in Devices, NEW pc \in PC \ Holding,
             NEW k \in Keys \cup {None}, NEW s \in Scopes \cup {None},
             pc = "lookup" => k \in Keys /\ s \in Scopes, CanCall(t),
             stack' = Pushed(t, NewFrame(pc, d, k, s))
      PROVE  Passive(t)
  <2>1. NewFrame(pc, d, k, s) \in Frame
    BY <1>2, NewFrameType
  <2>2. NewFrame(pc, d, k, s).pc \notin Holding
    BY DEF NewFrame
  <2> QED BY <1>2, <2>1, <2>2, PushIsPassive DEF WaitInv, StackInv
<1>3. Passive(t)
  <2>1. ASSUME NEW d \in Devices, NEW k \in Keys,
               ScopeRefused(t, d, k) \/ ScopeAllocFails(t, d, k)
        PROVE  Passive(t)
    BY <1>1, <1>2, <2>1 DEF ScopeRefused, ScopeAllocFails
  <2>2. ASSUME NEW d \in Devices, NEW k \in Keys,
               ScopeFound(t, d, k) \/ ScopeCreated(t, d, k)
        PROVE  Passive(t)
    BY <1>1, <1>2, <2>2 DEF ScopeFound, ScopeCreated, TypeOK
  <2>3. ASSUME NEW d \in Devices, ForgetDevice(t, d) \/ WithDeviceRetired(t, d)
        PROVE  Passive(t)
    BY <1>1, <1>2, <2>3 DEF ForgetDevice, WithDeviceRetired, TypeOK
  <2> QED BY <2>1, <2>2, <2>3 DEF Call, Retire
<1>4. UNCHANGED <<waitingOn, activeProducer, outcome>>
  BY DEF Call, Retire, ScopeRefused, ScopeAllocFails, ScopeFound, ScopeCreated,
         ForgetDevice, WithDeviceRetired
<1> QED BY <1>3, <1>4, PassiveWait

(* So do a hit, a bypass, a failed allocation and the returns of foreign   *)
(* code that produced nothing.                                             *)
LEMMA BypassWait ==
  ASSUME TypeOK, TypeOK', WaitInv, NEW t \in Threads,
         \/ EntryAllocFails(t) \/ BypassCycle(t) \/ Hit(t) \/ DirectReturns(t)
         \/ ForgetReturns(t) \/ ReleaseForgotten(t) \/ EndRetirement(t)
  PROVE  WaitInv'
<1> USE DEF WaitInv, StackInv
<1>1. /\ "lookup" \notin Producing /\ "direct" \notin Producing
      /\ "forgetting" \notin Producing /\ "detached" \notin Producing
      /\ "retired" \notin Producing
      /\ "direct" \in PC /\ "direct" \notin Holding \cup {"lookup"}
      /\ "retired" \notin Holding
  BY DEF Producing, Holding, PC, Foreign
<1>2. CASE EntryAllocFails(t)
  <2>1. Depth(t) > 0 /\ Top(t).pc = "lookup" /\ Top(t).entry \in Entries \cup {None}
    BY <1>2, TopFacts DEF EntryAllocFails, At, Frame, Locals
  <2>2. stack' = Changed(t, AtEntry(t, "direct", Top(t).entry))
    BY <1>2 DEF EntryAllocFails, Goto
  <2>3. Passive(t)
    BY <1>1, <2>1, <2>2, AtEntryFacts, ChangeIsPassive
  <2> QED BY <1>2, <2>3, PassiveWait DEF EntryAllocFails
<1>3. CASE BypassCycle(t)
  <2>1. Depth(t) > 0 /\ Top(t).pc = "lookup" /\ Found(t) # None
    BY <1>3 DEF BypassCycle, At
  <2>2. Found(t) \in Entries
    BY <2>1, TopScoped DEF Found, TypeOK
  <2>3. stack' = Changed(t, AtEntry(t, "direct", Found(t)))
    BY <1>3 DEF BypassCycle, GotoEntry
  <2>4. Passive(t)
    BY <1>1, <2>1, <2>2, <2>3, AtEntryFacts, ChangeIsPassive
  <2> QED BY <1>3, <2>4, PassiveWait DEF BypassCycle
<1>4. CASE Hit(t) \/ DirectReturns(t) \/ ForgetReturns(t) \/ EndRetirement(t)
  <2>1. Depth(t) > 0 /\ Top(t).pc \notin Producing /\ stack' = Popped(t)
    BY <1>1, <1>4 DEF Hit, DirectReturns, ForgetReturns, EndRetirement, At
  <2>2. UNCHANGED <<waitingOn, activeProducer, outcome>>
    BY <1>4 DEF Hit, DirectReturns, ForgetReturns, EndRetirement
  <2> QED BY <2>1, <2>2, PopIsPassive, PassiveWait
<1>5. CASE ReleaseForgotten(t)
  <2>1. Depth(t) > 0 /\ Top(t).pc \notin Producing
    BY <1>1, <1>5 DEF ReleaseForgotten, At
  <2>2. Passive(t)
    BY <1>1, <1>5, <2>1, UnscopedFacts, ChangeIsPassive DEF ReleaseForgotten
  <2> QED BY <1>5, <2>2, PassiveWait DEF ReleaseForgotten
<1> QED BY <1>2, <1>3, <1>4, <1>5

-----------------------------------------------------------------------------
(* The dependency graph. *)

(***************************************************************************)
(* The heart of the argument: the search of WaitDependency is sound.  If   *)
(* it does not find w from e, some set R holds e, is closed under          *)
(* waitingOn and leaves w out.  A cycle S of the new graph that uses the   *)
(* new link passes through e, and S \cap R is then a cycle of the old one. *)
(***************************************************************************)
LEMMA LinkKeepsAcyclic ==
  ASSUME TypeOK, Acyclic, NEW w \in Entries, NEW e \in Entries, ~Reaches(e, w),
         waitingOn' = [x \in Entries |-> IF x = w THEN e ELSE waitingOn[x]]
  PROVE  Acyclic'
<1> SUFFICES ASSUME NEW S \in (SUBSET Entries) \ {{}},
                    \A x \in S : waitingOn'[x] \in S
             PROVE  FALSE
  BY DEF Acyclic
<1>1. PICK R \in SUBSET Entries : e \in R /\ ClosedUnderWaiting(R) /\ w \notin R
  BY DEF Reaches
<1>2. None \notin Entries
  BY NoneAssumption
<1>3. CASE w \notin S
  <2>1. \A x \in S : waitingOn[x] \in S
    BY <1>3
  <2> QED BY <2>1 DEF Acyclic
<1>4. CASE w \in S
  <2> DEFINE C == S \cap R
  <2>1. e \in C
    BY <1>1, <1>4
  <2>2. \A x \in C : waitingOn[x] \in C
    <3> SUFFICES ASSUME NEW x \in C PROVE waitingOn[x] \in C
      OBVIOUS
    <3>1. x # w /\ waitingOn'[x] = waitingOn[x] /\ waitingOn[x] \in S
      BY <1>1
    <3>2. waitingOn[x] # None
      BY <1>2, <3>1
    <3> QED BY <1>1, <3>1, <3>2 DEF ClosedUnderWaiting
  <2>3. C \in (SUBSET Entries) \ {{}}
    BY <2>1
  <2> QED BY <2>2, <2>3 DEF Acyclic
<1> QED BY <1>3, <1>4

(* Removing links, or linking to an entry that waits on nothing, makes no  *)
(* cycle.                                                                  *)
LEMMA UnlinkKeepsAcyclic ==
  ASSUME TypeOK, Acyclic,
         \A x \in Entries : waitingOn'[x] = waitingOn[x] \/ waitingOn'[x] = None
  PROVE  Acyclic'
<1> SUFFICES ASSUME NEW S \in (SUBSET Entries) \ {{}},
                    \A x \in S : waitingOn'[x] \in S
             PROVE  FALSE
  BY DEF Acyclic
<1>1. \A x \in S : waitingOn[x] \in S
  BY NoneAssumption
<1> QED BY <1>1 DEF Acyclic

(* ProducerGuard's link to a new entry makes no cycle. *)
LEMMA GuardKeepsAcyclic ==
  ASSUME TypeOK, Acyclic, NEW t \in Threads, NEW e \in Entries,
         activeProducer[t] # e, waitingOn' = GuardLinked(t, e)
  PROVE  Acyclic'
<1> SUFFICES ASSUME NEW S \in (SUBSET Entries) \ {{}},
                    \A x \in S : waitingOn'[x] \in S
             PROVE  FALSE
  BY DEF Acyclic
<1>1. e \notin S
  BY NoneAssumption DEF GuardLinked
<1>2. \A x \in S : x # activeProducer[t]
  BY <1>1 DEF GuardLinked
<1>3. \A x \in S : waitingOn[x] \in S
  BY <1>1, <1>2 DEF GuardLinked
<1> QED BY <1>3 DEF Acyclic

-----------------------------------------------------------------------------
(* Steps that wait, produce, publish, notify or leave. *)

(* Two threads have different active producers. *)
LEMMA ActiveDistinct ==
  ASSUME TypeOK, StackInv, NEW t \in Threads, NEW u \in Threads, t # u,
         activeProducer[u] # None
  PROVE  activeProducer[u] \in Entries /\ activeProducer[u] # activeProducer[t]
<1>1. PICK i \in 1..Len(stack[u]) : /\ stack[u][i].pc \in Producing
                                   /\ stack[u][i].entry = activeProducer[u]
  BY DEF StackInv, ActiveIsProducing, IsProducing, Depth
<1>2. activeProducer[u] \in Entries
  BY <1>1, ProducingEntry
<1> SUFFICES ASSUME activeProducer[u] = activeProducer[t] PROVE FALSE
  BY <1>2
<1>3. PICK j \in 1..Len(stack[t]) : /\ stack[t][j].pc \in Producing
                                   /\ stack[t][j].entry = activeProducer[t]
  BY DEF StackInv, ActiveIsProducing, IsProducing, Depth
<1> QED BY <1>1, <1>3 DEF StackInv, OneProducerPerEntry, IsProducing, Depth

(* Falling asleep is recorded before anyone else can search the graph. *)
LEMMA WaitForProducerWait ==
  ASSUME TypeOK, TypeOK', WaitInv, NEW t \in Threads, WaitForProducer(t)
  PROVE  WaitInv'
<1> DEFINE n == Len(stack[t])
<1>1. n \in Nat /\ n > 0 /\ Depth(t) > 0 /\ Top(t) = stack[t][n] /\ Top(t).pc = "lookup"
  BY DEF WaitForProducer, At, TypeOK, Depth, Top
<1>2. Found(t) \in Entries /\ outcome[Found(t)] = "pending"
  <2>1. Found(t) # None /\ outcome[Found(t)] = "pending"
    BY DEF WaitForProducer
  <2> QED BY <1>1, <2>1, TopScoped DEF Found, TypeOK
<1>3. /\ "asleep" \in PC /\ "asleep" \notin Producing
      /\ "lookup" \notin Producing /\ {"creating", "notify"} \subseteq Producing
      /\ "asleep" \notin Foreign
  BY DEF PC, Producing, Foreign
<1>4. stack' = Changed(t, AtEntry(t, "asleep", Found(t)))
  BY DEF WaitForProducer, GotoEntry
<1>5. /\ AtEntry(t, "asleep", Found(t)) \in Frame
      /\ AtEntry(t, "asleep", Found(t)).pc = "asleep"
      /\ AtEntry(t, "asleep", Found(t)).entry = Found(t)
  BY <1>1, <1>2, <1>3, TopScoped, AtEntryFacts
<1>6. /\ Len(stack'[t]) = n
      /\ stack'[t][n].pc = "asleep"
      /\ stack'[t][n].entry = Found(t)
      /\ \A i \in 1..(n - 1) : stack'[t][i] = stack[t][i]
      /\ \A u \in Threads : u # t => stack'[u] = stack[u]
  BY <1>1, <1>4, <1>5, ChangeFacts
<1>7. SameProducers
  BY <1>1, <1>3, <1>6 DEF SameProducers
<1>8. ForeignBelowTop'
  BY <1>1, <1>6 DEF ForeignBelowTop, Depth, WaitInv, StackInv
<1>9. /\ UNCHANGED <<activeProducer, outcome>>
      /\ waitingOn' = [x \in Entries |-> IF x = activeProducer[t] THEN Found(t)
                                         ELSE waitingOn[x]]
  BY DEF WaitForProducer
<1>10. SleeperLinked'
  <2> SUFFICES ASSUME NEW u \in Threads, At(u, "asleep")', activeProducer[u] # None
               PROVE  waitingOn'[activeProducer[u]] = Top(u)'.entry
    BY <1>9 DEF SleeperLinked
  <2>1. CASE u = t
    <3>1. activeProducer[t] \in Entries
      BY <2>1 DEF TypeOK
    <3> QED BY <1>6, <1>9, <2>1, <3>1 DEF Top, Depth
  <2>2. CASE u # t
    <3>1. At(u, "asleep") /\ Top(u)' = Top(u)
      BY <1>6, <2>2 DEF At, Top, Depth
    <3>2. waitingOn[activeProducer[u]] = Top(u).entry
      BY <3>1 DEF WaitInv, StackInv, SleeperLinked
    <3>3. activeProducer[u] \in Entries /\ activeProducer[u] # activeProducer[t]
      BY <2>2, ActiveDistinct DEF WaitInv
    <3> QED BY <1>9, <3>1, <3>2, <3>3
  <2> QED BY <2>1, <2>2
<1>11. StackInv'
  BY <1>7, <1>8, <1>9, <1>10, SameProducersStack DEF WaitInv
<1>12. Acyclic'
  <2>1. CASE activeProducer[t] = None
    <3>1. \A x \in Entries : waitingOn'[x] = waitingOn[x]
      BY <1>9, <2>1, NoneAssumption
    <3> QED BY <3>1, UnlinkKeepsAcyclic DEF WaitInv
  <2>2. CASE activeProducer[t] # None
    <3>1. activeProducer[t] \in Entries
      BY <2>2 DEF TypeOK
    <3>2. ~Reaches(Found(t), activeProducer[t])
      BY <2>2 DEF WaitForProducer, Cyclic
    <3> QED BY <1>2, <1>9, <3>1, <3>2, LinkKeepsAcyclic DEF WaitInv
  <2> QED BY <2>1, <2>2
<1>13. ASSUME NEW u \in Threads, NEW i \in 1..Len(stack[u]),
              stack[u][i].pc \in {"creating", "notify"}
       PROVE  i \in 1..Len(stack'[u]) /\ stack'[u][i] = stack[u][i]
  BY <1>1, <1>6, <1>13
<1>14. PendingHasProducer'
  BY <1>9, <1>13 DEF WaitInv, PendingHasProducer, Depth
<1>15. NoOrphanWaiter'
  <2> SUFFICES ASSUME NEW w \in Threads, At(w, "asleep")'
               PROVE  \E u \in Threads : \E i \in 1..Len(stack'[u]) :
                        /\ stack'[u][i].pc \in {"creating", "notify"}
                        /\ stack'[u][i].entry = Top(w)'.entry
    BY DEF NoOrphanWaiter, Depth
  <2>1. \E u \in Threads : \E i \in 1..Len(stack[u]) :
          /\ stack[u][i].pc \in {"creating", "notify"}
          /\ stack[u][i].entry = Top(w)'.entry
    <3>1. CASE w = t
      <4>1. Top(w)'.entry = Found(t)
        BY <1>6, <3>1 DEF Top, Depth
      <4> QED BY <1>2, <4>1 DEF WaitInv, PendingHasProducer, Depth
    <3>2. CASE w # t
      <4>1. At(w, "asleep") /\ Top(w)' = Top(w)
        BY <1>6, <3>2 DEF At, Top, Depth
      <4> QED BY <4>1 DEF WaitInv, NoOrphanWaiter, Depth
    <3> QED BY <3>1, <3>2
  <2> QED BY <1>13, <2>1
<1> QED BY <1>11, <1>12, <1>14, <1>15 DEF WaitInv

(* A waiter that resumes takes its link away. *)
LEMMA ResumeWait ==
  ASSUME TypeOK, TypeOK', WaitInv, NEW t \in Threads, Resume(t)
  PROVE  WaitInv'
<1> DEFINE n == Len(stack[t])
<1>1. /\ n \in Nat /\ n > 0 /\ Depth(t) > 0 /\ Top(t) = stack[t][n]
      /\ Top(t).pc = "awake"
  BY DEF Resume, At, TypeOK, Depth, Top
<1>2. "awake" \notin Producing /\ {"creating", "notify"} \subseteq Producing
  BY DEF Producing
<1>3. /\ Len(stack'[t]) = n - 1
      /\ \A i \in 1..(n - 1) : stack'[t][i] = stack[t][i]
      /\ \A u \in Threads : u # t => stack'[u] = stack[u]
  BY <1>1, PopFacts DEF Resume
<1>4. SameProducers
  <2> SUFFICES ASSUME NEW u \in Threads
               PROVE  /\ \A i \in 1..Len(stack[u]) : stack[u][i].pc \in Producing =>
                           /\ i \in 1..Len(stack'[u])
                           /\ stack'[u][i] = stack[u][i]
                      /\ \A i \in 1..Len(stack'[u]) :
                           /\ i \in 1..Len(stack[u])
                           /\ stack'[u][i] = stack[u][i]
    BY DEF SameProducers
  <2>1. CASE u = t
    BY <1>1, <1>2, <1>3, <2>1
  <2>2. CASE u # t
    BY <1>3, <2>2
  <2> QED BY <2>1, <2>2
<1>5. ForeignBelowTop'
  BY <1>1, <1>3 DEF ForeignBelowTop, Depth, WaitInv, StackInv
<1>6. /\ UNCHANGED <<activeProducer, outcome>>
      /\ waitingOn' = [x \in Entries |-> IF x = activeProducer[t] THEN None
                                         ELSE waitingOn[x]]
  BY DEF Resume, WaitUnlinked
<1>7. ASSUME NEW u \in Threads, At(u, "asleep")'
      PROVE  u # t /\ At(u, "asleep") /\ Top(u)' = Top(u)
  <2>1. u # t
    <3> SUFFICES ASSUME u = t PROVE FALSE
      OBVIOUS
    <3>1. n - 1 \in 1..(n - 1) /\ stack'[t][n - 1].pc = "asleep"
      BY <1>1, <1>3, <1>7 DEF At, Top, Depth
    <3>2. stack[t][n - 1].pc \in Foreign
      BY <1>1, <3>1 DEF WaitInv, StackInv, ForeignBelowTop, Depth
    <3> QED BY <1>3, <3>1, <3>2 DEF Foreign
  <2> QED BY <1>3, <1>7, <2>1 DEF At, Top, Depth
<1>8. SleeperLinked'
  <2> SUFFICES ASSUME NEW u \in Threads, At(u, "asleep")', activeProducer[u] # None
               PROVE  waitingOn'[activeProducer[u]] = Top(u)'.entry
    BY <1>6 DEF SleeperLinked
  <2>1. u # t /\ At(u, "asleep") /\ Top(u)' = Top(u)
    BY <1>7
  <2>2. activeProducer[u] \in Entries /\ activeProducer[u] # activeProducer[t]
    BY <2>1, ActiveDistinct DEF WaitInv
  <2> QED BY <1>6, <2>1, <2>2 DEF WaitInv, StackInv, SleeperLinked
<1>9. StackInv'
  BY <1>4, <1>5, <1>6, <1>8, SameProducersStack DEF WaitInv
<1>10. Acyclic'
  BY <1>6, UnlinkKeepsAcyclic DEF WaitInv
<1>11. ASSUME NEW u \in Threads, NEW i \in 1..Len(stack[u]),
              stack[u][i].pc \in {"creating", "notify"}
       PROVE  i \in 1..Len(stack'[u]) /\ stack'[u][i] = stack[u][i]
  BY <1>1, <1>3, <1>11
<1>12. PendingHasProducer'
  BY <1>6, <1>11 DEF WaitInv, PendingHasProducer, Depth
<1>13. NoOrphanWaiter'
  BY <1>7, <1>11 DEF WaitInv, NoOrphanWaiter, Depth
<1> QED BY <1>9, <1>10, <1>12, <1>13 DEF WaitInv

(* Publication moves the producer to notify_all: it still owes its         *)
(* sleepers a wake-up.                                                     *)
LEMMA PublishWait ==
  ASSUME TypeOK, TypeOK', WaitInv, NEW t \in Threads,
         NEW o \in Outcome \ {"pending"}, Publish(t, o)
  PROVE  WaitInv'
<1> DEFINE n == Len(stack[t])
           e == stack[t][n].entry
<1>1. /\ n \in Nat /\ n > 0 /\ Depth(t) > 0 /\ Top(t) = stack[t][n]
      /\ Top(t).pc = "creating"
  BY DEF Publish, At, TypeOK, Depth, Top
<1>2. /\ "creating" \in Holding /\ "notify" \in PC /\ "notify" \in Producing
      /\ "creating" \in Producing
  BY DEF Producing, Holding, PC
<1>3. e \in Entries
  BY <1>1, <1>2, ProducingEntry
<1>4. stack' = Changed(t, AtEntry(t, "notify", e))
  BY <1>1 DEF Publish, Goto
<1>5. /\ AtEntry(t, "notify", e) \in Frame
      /\ AtEntry(t, "notify", e).pc = "notify"
      /\ AtEntry(t, "notify", e).entry = e
      /\ AtEntry(t, "notify", e).previous = stack[t][n].previous
  BY <1>1, <1>2, <1>3, TopScoped, AtEntryFacts
<1>6. /\ Len(stack'[t]) = n
      /\ stack'[t][n].pc = "notify"
      /\ stack'[t][n].entry = e
      /\ stack'[t][n].previous = stack[t][n].previous
      /\ \A i \in 1..(n - 1) : stack'[t][i] = stack[t][i]
      /\ \A u \in Threads : u # t => stack'[u] = stack[u]
  BY <1>1, <1>4, <1>5, ChangeFacts
<1> HIDE DEF n, e
<1>7. e = stack[t][n].entry /\ n = Len(stack[t])
  BY DEF n, e
<1>8. SameProducers
  <2> SUFFICES ASSUME NEW u \in Threads
               PROVE  /\ Len(stack'[u]) = Len(stack[u])
                      /\ \A i \in 1..Len(stack[u]) :
                           /\ stack'[u][i].entry = stack[u][i].entry
                           /\ stack'[u][i].previous = stack[u][i].previous
                           /\ stack'[u][i].pc \in Producing
                                <=> stack[u][i].pc \in Producing
    BY DEF SameProducers
  <2>1. CASE u = t
    BY <1>1, <1>2, <1>6, <1>7, <2>1
  <2>2. CASE u # t
    BY <1>6, <2>2
  <2> QED BY <2>1, <2>2
<1>9. ForeignBelowTop'
  BY <1>1, <1>6, <1>7 DEF ForeignBelowTop, Depth, WaitInv, StackInv
<1>10. /\ UNCHANGED <<activeProducer, waitingOn>>
       /\ outcome' = [outcome EXCEPT ![e] = o]
  BY <1>1, <1>7 DEF Publish
<1>11. ASSUME NEW u \in Threads, At(u, "asleep")'
       PROVE  u # t /\ At(u, "asleep") /\ Top(u)' = Top(u)
  BY <1>6, <1>7, <1>11 DEF At, Top, Depth
<1>12. SleeperLinked'
  BY <1>10, <1>11 DEF SleeperLinked, WaitInv, StackInv
<1>13. StackInv'
  BY <1>8, <1>9, <1>10, <1>12, SameProducersStack DEF WaitInv
<1>14. Acyclic'
  BY <1>10 DEF WaitInv, Acyclic
<1>15. PendingHasProducer'
  <2> SUFFICES ASSUME NEW x \in Entries, outcome'[x] = "pending"
               PROVE  \E u \in Threads : \E i \in 1..Len(stack'[u]) :
                        stack'[u][i].pc = "creating" /\ stack'[u][i].entry = x
    BY DEF PendingHasProducer, Depth
  <2>1. x # e /\ outcome[x] = "pending"
    BY <1>3, <1>10 DEF TypeOK
  <2>2. PICK u \in Threads : \E i \in 1..Len(stack[u]) :
          stack[u][i].pc = "creating" /\ stack[u][i].entry = x
    BY <2>1 DEF WaitInv, PendingHasProducer, Depth
  <2>3. PICK i \in 1..Len(stack[u]) :
          stack[u][i].pc = "creating" /\ stack[u][i].entry = x
    BY <2>2
  <2>4. i \in 1..Len(stack'[u]) /\ stack'[u][i] = stack[u][i]
    BY <1>1, <1>6, <1>7, <2>1, <2>3
  <2> QED BY <2>3, <2>4
<1>16. NoOrphanWaiter'
  <2> SUFFICES ASSUME NEW w \in Threads, At(w, "asleep")'
               PROVE  \E u \in Threads : \E i \in 1..Len(stack'[u]) :
                        /\ stack'[u][i].pc \in {"creating", "notify"}
                        /\ stack'[u][i].entry = Top(w)'.entry
    BY DEF NoOrphanWaiter, Depth
  <2>1. At(w, "asleep") /\ Top(w)' = Top(w)
    BY <1>11
  <2>2. PICK u \in Threads : \E i \in 1..Len(stack[u]) :
          /\ stack[u][i].pc \in {"creating", "notify"}
          /\ stack[u][i].entry = Top(w).entry
    BY <2>1 DEF WaitInv, NoOrphanWaiter, Depth
  <2>3. PICK i \in 1..Len(stack[u]) :
          /\ stack[u][i].pc \in {"creating", "notify"}
          /\ stack[u][i].entry = Top(w).entry
    BY <2>2
  <2>4. /\ i \in 1..Len(stack'[u])
        /\ stack'[u][i].pc \in {"creating", "notify"}
        /\ stack'[u][i].entry = stack[u][i].entry
    <3>1. CASE u = t /\ i = n
      BY <1>1, <1>6, <1>7, <3>1
    <3>2. CASE ~(u = t /\ i = n)
      BY <1>1, <1>6, <1>7, <2>3, <3>2
    <3> QED BY <3>1, <3>2
  <2> QED BY <2>1, <2>3, <2>4
<1> QED BY <1>13, <1>14, <1>15, <1>16 DEF WaitInv

(* notify_all leaves no sleeper on its entry behind. *)
LEMMA NotifyAllWait ==
  ASSUME TypeOK, TypeOK', WaitInv, NEW t \in Threads, NotifyAll(t)
  PROVE  WaitInv'
<1>1. ASSUME NEW u \in Threads
      PROVE  /\ Len(stack[u]) \in Nat
             /\ Len(stack'[u]) = Len(stack[u])
             /\ \A i \in 1..Len(stack[u]) :
                  /\ stack[u][i] \in Frame
                  /\ stack'[u][i] = Notified(t, stack[u][i])
  <2>1. Len(stack[u]) \in Nat /\ \A i \in 1..Len(stack[u]) : stack[u][i] \in Frame
    BY DEF TypeOK
  <2>2. stack'[u] = [i \in 1..Len(stack[u]) |-> Notified(t, stack[u][i])]
    BY DEF NotifyAll, Depth
  <2>3. stack'[u] \in Seq(Frame)
    BY DEF TypeOK
  <2>4. DOMAIN stack'[u] = 1..Len(stack[u])
    BY <2>2
  <2>5. Len(stack'[u]) = Len(stack[u])
    BY <2>1, <2>3, <2>4
  <2> QED BY <2>1, <2>2, <2>5
<1>2. ASSUME NEW u \in Threads, NEW i \in 1..Len(stack[u])
      PROVE  /\ stack'[u][i].entry = stack[u][i].entry
             /\ stack'[u][i].previous = stack[u][i].previous
             /\ stack'[u][i].pc =
                  IF stack[u][i].entry = Top(t).entry /\ stack[u][i].pc = "asleep"
                  THEN "awake"
                  ELSE IF stack[u][i].entry = Top(t).entry
                          /\ stack[u][i].pc = "notify"
                  THEN "leave"
                  ELSE stack[u][i].pc
  BY <1>1, NotifiedFacts
<1>3. SameProducers
  <2> SUFFICES ASSUME NEW u \in Threads
               PROVE  /\ Len(stack'[u]) = Len(stack[u])
                      /\ \A i \in 1..Len(stack[u]) :
                           /\ stack'[u][i].entry = stack[u][i].entry
                           /\ stack'[u][i].previous = stack[u][i].previous
                           /\ stack'[u][i].pc \in Producing
                                <=> stack[u][i].pc \in Producing
    BY DEF SameProducers
  <2> QED BY <1>1, <1>2 DEF Producing
<1>4. ForeignBelowTop'
  <2> SUFFICES ASSUME NEW u \in Threads, NEW i \in 1..(Len(stack'[u]) - 1)
               PROVE  stack'[u][i].pc \in Foreign
    BY DEF ForeignBelowTop, Depth
  <2>1. i \in 1..Len(stack[u]) /\ i \in 1..(Len(stack[u]) - 1)
    BY <1>1
  <2>2. stack[u][i].pc \in Foreign
    BY <2>1 DEF WaitInv, StackInv, ForeignBelowTop, Depth
  <2> QED BY <1>2, <2>1, <2>2 DEF Foreign
<1>5. UNCHANGED <<activeProducer, waitingOn, outcome>>
  BY DEF NotifyAll
<1>6. ASSUME NEW u \in Threads, At(u, "asleep")'
      PROVE  /\ At(u, "asleep")
             /\ Top(u)'.entry = Top(u).entry
             /\ Top(u).entry # Top(t).entry
  <2>1. Len(stack[u]) \in 1..Len(stack[u]) /\ Len(stack'[u]) = Len(stack[u])
    BY <1>1, <1>6 DEF At, Depth
  <2> QED BY <1>2, <1>6, <2>1 DEF At, Top, Depth
<1>7. SleeperLinked'
  BY <1>5, <1>6 DEF SleeperLinked, WaitInv, StackInv
<1>8. StackInv'
  BY <1>3, <1>4, <1>5, <1>7, SameProducersStack DEF WaitInv
<1>9. Acyclic'
  BY <1>5 DEF WaitInv, Acyclic
<1>10. PendingHasProducer'
  <2> SUFFICES ASSUME NEW x \in Entries, outcome[x] = "pending"
               PROVE  \E u \in Threads : \E i \in 1..Len(stack'[u]) :
                        stack'[u][i].pc = "creating" /\ stack'[u][i].entry = x
    BY <1>5 DEF PendingHasProducer, Depth
  <2>1. PICK u \in Threads : \E i \in 1..Len(stack[u]) :
          stack[u][i].pc = "creating" /\ stack[u][i].entry = x
    BY DEF WaitInv, PendingHasProducer, Depth
  <2> QED BY <1>1, <1>2, <2>1
<1>11. NoOrphanWaiter'
  <2> SUFFICES ASSUME NEW w \in Threads, At(w, "asleep")'
               PROVE  \E u \in Threads : \E i \in 1..Len(stack'[u]) :
                        /\ stack'[u][i].pc \in {"creating", "notify"}
                        /\ stack'[u][i].entry = Top(w)'.entry
    BY DEF NoOrphanWaiter, Depth
  <2>1. At(w, "asleep") /\ Top(w)'.entry = Top(w).entry /\ Top(w).entry # Top(t).entry
    BY <1>6
  <2>2. PICK u \in Threads : \E i \in 1..Len(stack[u]) :
          /\ stack[u][i].pc \in {"creating", "notify"}
          /\ stack[u][i].entry = Top(w).entry
    BY <2>1 DEF WaitInv, NoOrphanWaiter, Depth
  <2>3. PICK i \in 1..Len(stack[u]) :
          /\ stack[u][i].pc \in {"creating", "notify"}
          /\ stack[u][i].entry = Top(w).entry
    BY <2>2
  <2>4. /\ i \in 1..Len(stack'[u])
        /\ stack'[u][i].pc = stack[u][i].pc
        /\ stack'[u][i].entry = stack[u][i].entry
    BY <1>1, <1>2, <2>1, <2>3
  <2> QED BY <2>1, <2>3, <2>4
<1> QED BY <1>8, <1>9, <1>10, <1>11 DEF WaitInv

(* Leaving restores the enclosing producer and removes the link to the     *)
(* entry that is finished.                                                 *)
LEMMA LeaveWait ==
  ASSUME TypeOK, TypeOK', WaitInv, NEW t \in Threads, Leave(t)
  PROVE  WaitInv'
<1> DEFINE n == Len(stack[t])
           e == stack[t][n].entry
           p == stack[t][n].previous
<1>1. /\ n \in Nat /\ n > 0 /\ n \in 1..n /\ Depth(t) > 0
      /\ Top(t) = stack[t][n] /\ stack[t][n].pc = "leave"
  BY DEF Leave, At, TypeOK, Depth, Top
<1>2. "leave" \in Producing /\ {"creating", "notify"} \subseteq Producing
  BY DEF Producing
<1>3. e \in Entries
  BY <1>1, <1>2, ProducingEntry
<1>4. /\ Len(stack'[t]) = n - 1
      /\ \A i \in 1..(n - 1) : stack'[t][i] = stack[t][i]
      /\ \A u \in Threads : u # t => stack'[u] = stack[u]
  BY <1>1, PopFacts DEF Leave
<1>5. /\ activeProducer' = [activeProducer EXCEPT ![t] = p]
      /\ waitingOn' = [x \in Entries |-> IF x = p /\ waitingOn[x] = e
                                         THEN None ELSE waitingOn[x]]
      /\ UNCHANGED outcome
  BY <1>1 DEF Leave
<1>6. activeProducer[t] = e
  BY <1>1, <1>2 DEF WaitInv, StackInv, EnclosingLinked, IsProducing, Depth
<1> HIDE DEF n, e, p
<1>7. e = stack[t][n].entry /\ n = Len(stack[t]) /\ p = stack[t][n].previous
  BY DEF n, e, p
<1>8. ASSUME NEW u \in Threads, NEW i \in 1..Len(stack'[u])
      PROVE  /\ Len(stack[u]) \in Nat /\ Len(stack'[u]) \in Nat
             /\ i \in 1..Len(stack[u]) /\ stack'[u][i] = stack[u][i]
             /\ ~(u = t /\ i = n)
  <2>1. Len(stack[u]) \in Nat /\ Len(stack'[u]) \in Nat
    BY DEF TypeOK
  <2>2. CASE u = t
    BY <1>1, <1>4, <1>7, <2>1, <2>2
  <2>3. CASE u # t
    BY <1>4, <2>1, <2>3
  <2> QED BY <2>1, <2>2, <2>3
<1>9. ASSUME NEW u \in Threads, NEW i \in 1..Len(stack[u]), ~(u = t /\ i = n)
      PROVE  i \in 1..Len(stack'[u]) /\ stack'[u][i] = stack[u][i]
  BY <1>1, <1>4, <1>7, <1>9
<1>10. p = None \/ \E i \in 1..(n - 1) : /\ stack[t][i].pc \in Producing
                                       /\ stack[t][i].entry = p
  BY <1>1, <1>2, <1>7 DEF WaitInv, StackInv, PreviousIsBelow, IsProducing, Depth
<1>11. ASSUME NEW u \in Threads, NEW i \in 1..Len(stack[u]), u # t,
              stack[u][i].pc \in Producing
       PROVE  stack[u][i].entry # p
  <2>1. stack[u][i].entry # None
    BY <1>11, ProducingEntry, NoneAssumption
  <2> QED BY <1>1, <1>7, <1>10, <1>11, <2>1
          DEF WaitInv, StackInv, OneProducerPerEntry, IsProducing, Depth
<1>12. ForeignBelowTop'
  BY <1>1, <1>4, <1>7 DEF ForeignBelowTop, Depth, WaitInv, StackInv
<1>13. OneProducerPerEntry'
  <2> SUFFICES ASSUME NEW u \in Threads, NEW v \in Threads,
                      NEW i \in 1..Len(stack'[u]), NEW j \in 1..Len(stack'[v]),
                      stack'[u][i].pc \in Producing,
                      stack'[v][j].pc \in Producing,
                      stack'[u][i].entry = stack'[v][j].entry
               PROVE  u = v /\ i = j
    BY DEF OneProducerPerEntry, IsProducing, Depth
  <2>1. i \in 1..Len(stack[u]) /\ stack'[u][i] = stack[u][i]
    BY <1>8
  <2>2. j \in 1..Len(stack[v]) /\ stack'[v][j] = stack[v][j]
    BY <1>8
  <2> QED BY <2>1, <2>2 DEF OneProducerPerEntry, IsProducing, Depth, WaitInv, StackInv
<1>14. PreviousIsBelow'
  <2> SUFFICES ASSUME NEW u \in Threads, NEW j \in 1..Len(stack'[u]),
                      stack'[u][j].pc \in Producing, stack'[u][j].previous # None
               PROVE  \E i \in 1..(j - 1) :
                        /\ stack'[u][i].pc \in Producing
                        /\ stack'[u][i].entry = stack'[u][j].previous
    BY DEF PreviousIsBelow, IsProducing, Depth
  <2>1. j \in 1..Len(stack[u]) /\ stack'[u][j] = stack[u][j]
    BY <1>8
  <2>2. PICK i \in 1..(j - 1) : /\ stack[u][i].pc \in Producing
                               /\ stack[u][i].entry = stack[u][j].previous
    BY <2>1 DEF PreviousIsBelow, IsProducing, Depth, WaitInv, StackInv
  <2>3. i \in 1..Len(stack'[u])
    BY <1>8
  <2> QED BY <1>8, <2>1, <2>2, <2>3
<1>15. ActiveIsProducing'
  <2> SUFFICES ASSUME NEW u \in Threads, activeProducer'[u] # None
               PROVE  \E i \in 1..Len(stack'[u]) :
                        /\ stack'[u][i].pc \in Producing
                        /\ stack'[u][i].entry = activeProducer'[u]
    BY DEF ActiveIsProducing, IsProducing, Depth
  <2>1. CASE u = t
    <3>1. activeProducer'[t] = p
      BY <1>5 DEF TypeOK
    <3> QED BY <1>1, <1>4, <1>10, <2>1, <3>1
  <2>2. CASE u # t
    <3>1. activeProducer'[u] = activeProducer[u] /\ stack'[u] = stack[u]
      BY <1>4, <1>5, <2>2 DEF TypeOK
    <3> QED BY <3>1 DEF WaitInv, StackInv, ActiveIsProducing, IsProducing, Depth
  <2> QED BY <2>1, <2>2
<1>16. ASSUME NEW u \in Threads, At(u, "asleep")'
       PROVE  u # t /\ At(u, "asleep") /\ Top(u)' = Top(u)
  <2>1. u # t
    <3> SUFFICES ASSUME u = t PROVE FALSE
      OBVIOUS
    <3>1. n - 1 \in 1..(n - 1) /\ stack'[t][n - 1].pc = "asleep"
      BY <1>1, <1>4, <1>16 DEF At, Top, Depth
    <3>2. stack[t][n - 1].pc \in Foreign
      BY <1>1, <1>7, <3>1 DEF WaitInv, StackInv, ForeignBelowTop, Depth
    <3> QED BY <1>4, <3>1, <3>2 DEF Foreign
  <2> QED BY <1>4, <1>16, <2>1 DEF At, Top, Depth
<1>17. SleeperLinked'
  <2> SUFFICES ASSUME NEW u \in Threads, At(u, "asleep")', activeProducer'[u] # None
               PROVE  waitingOn'[activeProducer'[u]] = Top(u)'.entry
    BY DEF SleeperLinked
  <2>1. u # t /\ At(u, "asleep") /\ Top(u)' = Top(u)
    BY <1>16
  <2>2. activeProducer'[u] = activeProducer[u]
    BY <1>5, <2>1 DEF TypeOK
  <2>3. PICK i \in 1..Len(stack[u]) : /\ stack[u][i].pc \in Producing
                                     /\ stack[u][i].entry = activeProducer[u]
    BY <2>2 DEF WaitInv, StackInv, ActiveIsProducing, IsProducing, Depth
  <2>4. activeProducer[u] \in Entries /\ activeProducer[u] # p
    BY <1>11, <2>1, <2>3, ProducingEntry
  <2>5. waitingOn[activeProducer[u]] = Top(u).entry
    BY <2>1, <2>2 DEF WaitInv, StackInv, SleeperLinked
  <2> QED BY <1>5, <2>1, <2>2, <2>4, <2>5
<1>18. EnclosingLinked'
  <2> SUFFICES ASSUME NEW u \in Threads, NEW i \in 1..Len(stack'[u]),
                      stack'[u][i].pc \in Producing,
                      stack'[u][i].entry # activeProducer'[u]
               PROVE  \E j \in (i + 1)..Len(stack'[u]) :
                        /\ stack'[u][j].pc \in Producing
                        /\ stack'[u][j].previous = stack'[u][i].entry
                        /\ waitingOn'[stack'[u][i].entry] = stack'[u][j].entry
    BY DEF EnclosingLinked, IsProducing, Depth
  <2>1. /\ i \in 1..Len(stack[u]) /\ stack'[u][i] = stack[u][i]
        /\ ~(u = t /\ i = n)
    BY <1>8
  <2>2. activeProducer'[u] = IF u = t THEN p ELSE activeProducer[u]
    BY <1>5 DEF TypeOK
  <2>3. stack[u][i].entry # activeProducer[u]
    BY <1>1, <1>2, <1>6, <1>7, <2>1, <2>2
       DEF WaitInv, StackInv, OneProducerPerEntry, IsProducing, Depth
  <2>4. PICK j \in (i + 1)..Len(stack[u]) :
          /\ stack[u][j].pc \in Producing
          /\ stack[u][j].previous = stack[u][i].entry
          /\ waitingOn[stack[u][i].entry] = stack[u][j].entry
    BY <2>1, <2>3 DEF EnclosingLinked, IsProducing, Depth, WaitInv, StackInv
  <2>5. ~(u = t /\ j = n)
    BY <1>7, <2>1, <2>2, <2>4
  <2>6. /\ Len(stack[u]) \in Nat /\ Len(stack'[u]) \in Nat
        /\ j \in 1..Len(stack[u])
    BY <1>8, <2>1
  <2>7. j \in 1..Len(stack'[u]) /\ stack'[u][j] = stack[u][j]
    BY <1>9, <2>5, <2>6
  <2>8. stack[u][i].entry \in Entries /\ stack[u][i].entry # p
    BY <1>11, <2>1, <2>2, ProducingEntry
  <2>9. waitingOn'[stack[u][i].entry] = waitingOn[stack[u][i].entry]
    BY <1>5, <2>8
  <2> QED BY <2>1, <2>4, <2>6, <2>7, <2>9
<1>19. Acyclic'
  BY <1>5, UnlinkKeepsAcyclic DEF WaitInv
<1>20. ASSUME NEW u \in Threads, NEW i \in 1..Len(stack[u]),
              stack[u][i].pc \in {"creating", "notify"}
       PROVE  i \in 1..Len(stack'[u]) /\ stack'[u][i] = stack[u][i]
  BY <1>1, <1>9, <1>20
<1>21. PendingHasProducer'
  BY <1>5, <1>20 DEF WaitInv, PendingHasProducer, Depth
<1>22. NoOrphanWaiter'
  BY <1>16, <1>20 DEF WaitInv, NoOrphanWaiter, Depth
<1> QED BY <1>12, <1>13, <1>14, <1>15, <1>17, <1>18, <1>19, <1>21, <1>22
        DEF WaitInv, StackInv

(* Becoming a producer links the enclosing entry to the new one. *)
LEMMA ProduceWait ==
  ASSUME TypeOK, TypeOK', WaitInv, NEW t \in Threads, Produce(t)
  PROVE  WaitInv'
<1> DEFINE n == Len(stack[t])
           a == activeProducer[t]
<1>1. /\ n \in Nat /\ n > 0 /\ n \in 1..n /\ Depth(t) > 0
      /\ Top(t) = stack[t][n] /\ Top(t).pc = "lookup"
  BY DEF Produce, At, TypeOK, Depth, Top
<1>2. "lookup" \notin Producing /\ "creating" \in Producing
  BY DEF Producing
<1>3. PICK e \in Entries :
        /\ ~EntryAllocated(e)
        /\ outcome' = [outcome EXCEPT ![e] = "pending"]
        /\ waitingOn' = GuardLinked(t, e)
        /\ activeProducer' = [activeProducer EXCEPT ![t] = e]
        /\ stack' = Changed(t, AsProducer(t, e))
  BY DEF Produce
<1>4. ASSUME NEW u \in Threads, NEW i \in 1..Len(stack[u])
      PROVE  stack[u][i].entry # e
  BY <1>3 DEF EntryAllocated, HeldByFrame, Depth
<1>5. /\ Len(stack'[t]) = n
      /\ stack'[t][n].pc = "creating"
      /\ stack'[t][n].entry = e
      /\ stack'[t][n].previous = a
      /\ \A i \in 1..(n - 1) : stack'[t][i] = stack[t][i]
      /\ \A u \in Threads : u # t => stack'[u] = stack[u]
  BY <1>1, <1>3, AsProducerFacts, ChangeFacts
<1>6. a # None => \E i \in 1..(n - 1) : /\ stack[t][i].pc \in Producing
                                      /\ stack[t][i].entry = a
  BY <1>1, <1>2 DEF WaitInv, StackInv, ActiveIsProducing, IsProducing, Depth
<1>7. a \in Entries \cup {None} /\ a # e
  BY <1>1, <1>3, <1>4, <1>6, NoneAssumption DEF TypeOK
<1>8. /\ activeProducer'[t] = e
      /\ \A u \in Threads : u # t => activeProducer'[u] = activeProducer[u]
      /\ \A x \in Entries : waitingOn'[x] = IF x = a THEN e
                                           ELSE IF x = e THEN None ELSE waitingOn[x]
  BY <1>3 DEF TypeOK, GuardLinked
<1> HIDE DEF n, a
<1>9. n = Len(stack[t]) /\ a = activeProducer[t]
  BY DEF n, a
<1>10. ASSUME NEW u \in Threads, NEW i \in 1..Len(stack'[u])
       PROVE  /\ Len(stack[u]) \in Nat /\ Len(stack'[u]) = Len(stack[u])
              /\ i \in 1..Len(stack[u])
              /\ ~(u = t /\ i = n) => stack'[u][i] = stack[u][i]
  <2>1. Len(stack[u]) \in Nat
    BY DEF TypeOK
  <2>2. CASE u = t
    BY <1>1, <1>5, <1>9, <2>1, <2>2
  <2>3. CASE u # t
    BY <1>5, <2>1, <2>3
  <2> QED BY <2>1, <2>2, <2>3
<1>11. ASSUME NEW u \in Threads, NEW i \in 1..Len(stack[u]), stack[u][i].pc # "lookup"
       PROVE  i \in 1..Len(stack'[u]) /\ stack'[u][i] = stack[u][i]
  BY <1>1, <1>5, <1>9, <1>11
<1>12. ForeignBelowTop'
  BY <1>1, <1>5, <1>9 DEF ForeignBelowTop, Depth, WaitInv, StackInv
<1>13. OneProducerPerEntry'
  <2> SUFFICES ASSUME NEW u \in Threads, NEW v \in Threads,
                      NEW i \in 1..Len(stack'[u]), NEW j \in 1..Len(stack'[v]),
                      stack'[u][i].pc \in Producing,
                      stack'[v][j].pc \in Producing,
                      stack'[u][i].entry = stack'[v][j].entry
               PROVE  u = v /\ i = j
    BY DEF OneProducerPerEntry, IsProducing, Depth
  <2>1. i \in 1..Len(stack[u]) /\ (~(u = t /\ i = n) => stack'[u][i] = stack[u][i])
    BY <1>10
  <2>2. j \in 1..Len(stack[v]) /\ (~(v = t /\ j = n) => stack'[v][j] = stack[v][j])
    BY <1>10
  <2>3. CASE (u = t /\ i = n) \/ (v = t /\ j = n)
    BY <1>4, <1>5, <2>1, <2>2, <2>3
  <2>4. CASE ~(u = t /\ i = n) /\ ~(v = t /\ j = n)
    <3>1. stack'[u][i] = stack[u][i] /\ stack'[v][j] = stack[v][j]
      BY <2>1, <2>2, <2>4
    <3>2. /\ stack[u][i].pc \in Producing /\ stack[v][j].pc \in Producing
          /\ stack[u][i].entry = stack[v][j].entry
      BY <3>1
    <3>3. OneProducerPerEntry
      BY DEF WaitInv, StackInv
    <3> QED BY <2>1, <2>2, <3>2, <3>3 DEF OneProducerPerEntry, IsProducing, Depth
  <2> QED BY <2>3, <2>4
<1>14. PreviousIsBelow'
  <2> SUFFICES ASSUME NEW u \in Threads, NEW j \in 1..Len(stack'[u]),
                      stack'[u][j].pc \in Producing, stack'[u][j].previous # None
               PROVE  \E i \in 1..(j - 1) :
                        /\ stack'[u][i].pc \in Producing
                        /\ stack'[u][i].entry = stack'[u][j].previous
    BY DEF PreviousIsBelow, IsProducing, Depth
  <2>1. CASE u = t /\ j = n
    BY <1>1, <1>5, <1>6, <2>1
  <2>2. CASE ~(u = t /\ j = n)
    <3>1. /\ j \in 1..Len(stack[u]) /\ stack'[u][j] = stack[u][j]
          /\ Len(stack[u]) \in Nat
      BY <1>10, <2>2
    <3>2. PICK i \in 1..(j - 1) : /\ stack[u][i].pc \in Producing
                                 /\ stack[u][i].entry = stack[u][j].previous
      BY <3>1 DEF PreviousIsBelow, IsProducing, Depth, WaitInv, StackInv
    <3>3. i \in 1..Len(stack[u]) /\ stack[u][i].pc # "lookup"
      BY <1>2, <3>1, <3>2
    <3> QED BY <1>11, <3>1, <3>2, <3>3
  <2> QED BY <2>1, <2>2
<1>15. ActiveIsProducing'
  <2> SUFFICES ASSUME NEW u \in Threads, activeProducer'[u] # None
               PROVE  \E i \in 1..Len(stack'[u]) :
                        /\ stack'[u][i].pc \in Producing
                        /\ stack'[u][i].entry = activeProducer'[u]
    BY DEF ActiveIsProducing, IsProducing, Depth
  <2>1. CASE u = t
    BY <1>1, <1>2, <1>5, <1>8, <2>1
  <2>2. CASE u # t
    <3>1. activeProducer'[u] = activeProducer[u] /\ stack'[u] = stack[u]
      BY <1>5, <1>8, <2>2
    <3> QED BY <3>1 DEF WaitInv, StackInv, ActiveIsProducing, IsProducing, Depth
  <2> QED BY <2>1, <2>2
<1>16. ASSUME NEW u \in Threads, At(u, "asleep")'
       PROVE  u # t /\ At(u, "asleep") /\ Top(u)' = Top(u)
  BY <1>5, <1>9, <1>16 DEF At, Top, Depth
<1>17. SleeperLinked'
  <2> SUFFICES ASSUME NEW u \in Threads, At(u, "asleep")', activeProducer'[u] # None
               PROVE  waitingOn'[activeProducer'[u]] = Top(u)'.entry
    BY DEF SleeperLinked
  <2>1. u # t /\ At(u, "asleep") /\ Top(u)' = Top(u)
    BY <1>16
  <2>2. activeProducer'[u] = activeProducer[u]
    BY <1>8, <2>1
  <2>3. activeProducer[u] \in Entries /\ activeProducer[u] # a
    BY <1>9, <2>1, <2>2, ActiveDistinct DEF WaitInv
  <2>4. activeProducer[u] # e
    BY <1>4, <2>2 DEF WaitInv, StackInv, ActiveIsProducing, Depth
  <2>5. waitingOn[activeProducer[u]] = Top(u).entry
    BY <2>1, <2>2 DEF WaitInv, StackInv, SleeperLinked
  <2> QED BY <1>8, <2>1, <2>2, <2>3, <2>4, <2>5
<1>18. EnclosingLinked'
  <2> SUFFICES ASSUME NEW u \in Threads, NEW i \in 1..Len(stack'[u]),
                      stack'[u][i].pc \in Producing,
                      stack'[u][i].entry # activeProducer'[u]
               PROVE  \E j \in (i + 1)..Len(stack'[u]) :
                        /\ stack'[u][j].pc \in Producing
                        /\ stack'[u][j].previous = stack'[u][i].entry
                        /\ waitingOn'[stack'[u][i].entry] = stack'[u][j].entry
    BY DEF EnclosingLinked, IsProducing, Depth
  <2>1. /\ Len(stack[u]) \in Nat /\ Len(stack'[u]) = Len(stack[u])
        /\ ~(u = t /\ i = n)
        /\ i \in 1..Len(stack[u]) /\ stack'[u][i] = stack[u][i]
    <3>1. ~(u = t /\ i = n)
      BY <1>5, <1>8
    <3> QED BY <1>10, <3>1
  <2>2. stack[u][i].entry \in Entries /\ stack[u][i].entry # e
    BY <1>4, <2>1, ProducingEntry
  <2>3. CASE u = t /\ stack[u][i].entry = a
    <3>1. n \in (i + 1)..Len(stack'[u])
      BY <1>1, <1>9, <2>1, <2>3
    <3> QED BY <1>2, <1>5, <1>8, <2>1, <2>2, <2>3, <3>1
  <2>4. CASE ~(u = t /\ stack[u][i].entry = a)
    <3>1. stack[u][i].entry # activeProducer[u]
      BY <1>8, <1>9, <2>1, <2>4
    <3>2. PICK j \in (i + 1)..Len(stack[u]) :
            /\ stack[u][j].pc \in Producing
            /\ stack[u][j].previous = stack[u][i].entry
            /\ waitingOn[stack[u][i].entry] = stack[u][j].entry
      BY <2>1, <3>1 DEF EnclosingLinked, IsProducing, Depth, WaitInv, StackInv
    <3>3. j \in 1..Len(stack[u])
      BY <2>1
    <3>4. stack'[u][j] = stack[u][j]
      BY <1>2, <1>11, <3>2, <3>3
    <3>5. stack[u][i].entry # a
      BY <1>9, <2>1, <3>1, ActiveOwner DEF WaitInv
    <3>6. waitingOn'[stack[u][i].entry] = waitingOn[stack[u][i].entry]
      BY <1>8, <2>2, <3>5
    <3> QED BY <2>1, <3>2, <3>4, <3>6
  <2> QED BY <2>3, <2>4
<1>19. Acyclic'
  BY <1>3, <1>7, <1>9, GuardKeepsAcyclic DEF WaitInv
<1>20. PendingHasProducer'
  <2> SUFFICES ASSUME NEW x \in Entries, outcome'[x] = "pending"
               PROVE  \E u \in Threads : \E i \in 1..Len(stack'[u]) :
                        stack'[u][i].pc = "creating" /\ stack'[u][i].entry = x
    BY DEF PendingHasProducer, Depth
  <2>1. CASE x = e
    BY <1>1, <1>5, <2>1
  <2>2. CASE x # e
    <3>1. outcome[x] = "pending"
      BY <1>3, <2>2 DEF TypeOK
    <3>2. PICK u \in Threads : \E i \in 1..Len(stack[u]) :
            stack[u][i].pc = "creating" /\ stack[u][i].entry = x
      BY <3>1 DEF WaitInv, PendingHasProducer, Depth
    <3> QED BY <1>11, <3>2
  <2> QED BY <2>1, <2>2
<1>21. NoOrphanWaiter'
  <2> SUFFICES ASSUME NEW w \in Threads, At(w, "asleep")'
               PROVE  \E u \in Threads : \E i \in 1..Len(stack'[u]) :
                        /\ stack'[u][i].pc \in {"creating", "notify"}
                        /\ stack'[u][i].entry = Top(w)'.entry
    BY DEF NoOrphanWaiter, Depth
  <2>1. At(w, "asleep") /\ Top(w)' = Top(w)
    BY <1>16
  <2>2. PICK u \in Threads : \E i \in 1..Len(stack[u]) :
          /\ stack[u][i].pc \in {"creating", "notify"}
          /\ stack[u][i].entry = Top(w).entry
    BY <2>1 DEF WaitInv, NoOrphanWaiter, Depth
  <2>3. PICK i \in 1..Len(stack[u]) :
          /\ stack[u][i].pc \in {"creating", "notify"}
          /\ stack[u][i].entry = Top(w).entry
    BY <2>2
  <2>4. i \in 1..Len(stack'[u]) /\ stack'[u][i] = stack[u][i]
    BY <1>11, <2>3
  <2> QED BY <2>1, <2>3, <2>4
<1> QED BY <1>12, <1>13, <1>14, <1>15, <1>17, <1>18, <1>19, <1>20, <1>21
        DEF WaitInv, StackInv

-----------------------------------------------------------------------------
(* The theorems. *)

(* The inductive invariant of cache.mm's waiting: cycle-free links that    *)
(* record every wait.                                                      *)
THEOREM WaitInvariant == Spec => []WaitInv
<1>1. Init => WaitInv
  <2> SUFFICES ASSUME Init PROVE WaitInv
    OBVIOUS
  <2>1. \A t \in Threads : stack[t] = <<>> /\ Depth(t) = 0 /\ activeProducer[t] = None
    BY DEF Init, Depth
  <2>2. \A e \in Entries : waitingOn[e] = None /\ outcome[e] = "success"
    BY DEF Init
  <2>3. StackInv
    BY <2>1 DEF StackInv, ForeignBelowTop, OneProducerPerEntry, PreviousIsBelow,
                ActiveIsProducing, SleeperLinked, EnclosingLinked, At
  <2>4. Acyclic
    BY <2>2, NoneAssumption DEF Acyclic
  <2>5. PendingHasProducer /\ NoOrphanWaiter
    BY <2>1, <2>2 DEF PendingHasProducer, NoOrphanWaiter, At
  <2> QED BY <2>3, <2>4, <2>5 DEF WaitInv
<1>2. TypeOK /\ TypeOK' /\ WaitInv /\ [Next]_vars => WaitInv'
  <2> SUFFICES ASSUME TypeOK, TypeOK', WaitInv, [Next]_vars PROVE WaitInv'
    OBVIOUS
  <2>1. ASSUME NEW t \in Threads, Call(t) PROVE WaitInv'
    BY <2>1, CallWait
  <2>2. ASSUME NEW t \in Destroyers, Retire(t) PROVE WaitInv'
    BY <2>2, CallWait, DestroyerAssumption
  <2>3. ASSUME NEW t \in Threads, Step(t) PROVE WaitInv'
    BY <2>3, ProduceWait, BypassWait, WaitForProducerWait, ResumeWait,
       NotifyAllWait, LeaveWait DEF Step, Lookup
  <2>4. ASSUME NEW t \in Threads, CreateReturns(t) PROVE WaitInv'
    BY <2>4, PublishWait, BypassWait DEF CreateReturns
  <2>5. CASE UNCHANGED vars
    BY <2>5 DEF vars, WaitInv, StackInv, ForeignBelowTop, OneProducerPerEntry,
       PreviousIsBelow, ActiveIsProducing, SleeperLinked, EnclosingLinked,
       Acyclic, PendingHasProducer, NoOrphanWaiter, IsProducing, At, Top, Depth
  <2> QED BY <2>1, <2>2, <2>3, <2>4, <2>5 DEF Next
<1> QED BY <1>1, <1>2, TypeCorrect, PTL DEF Spec

(* The wait graph without cycles excludes every set of mutually waiting    *)
(* threads: the entries those threads produce would be a cycle.            *)
LEMMA AcyclicMeansNoDeadlock == TypeOK /\ WaitInv => NoWaitCycle
<1> SUFFICES ASSUME TypeOK, WaitInv, NEW S \in (SUBSET Threads) \ {{}},
                    \A t \in S :
                      /\ At(t, "asleep")
                      /\ \E u \in S : \E i \in 1..Depth(u) :
                           /\ stack[u][i].pc = "creating"
                           /\ stack[u][i].entry = Top(t).entry
             PROVE  FALSE
  BY DEF NoWaitCycle
<1> DEFINE C == {e \in Entries : \E t \in S : \E i \in 1..Depth(t) :
                   stack[t][i].pc = "creating" /\ stack[t][i].entry = e}
<1>1. "creating" \in Producing
  BY DEF Producing
<1>2. ASSUME NEW t \in S, NEW i \in 1..Depth(t), stack[t][i].pc = "creating"
      PROVE  stack[t][i].entry \in C
  BY <1>1, <1>2, ProducingEntry DEF Depth
<1>3. C # {}
  <2>1. PICK t \in S : TRUE
    OBVIOUS
  <2>2. PICK u \in S : \E i \in 1..Depth(u) : stack[u][i].pc = "creating"
    BY <2>1
  <2> QED BY <1>2, <2>2
<1>4. \A e \in C : waitingOn[e] \in C
  <2> SUFFICES ASSUME NEW e \in C PROVE waitingOn[e] \in C
    OBVIOUS
  <2>1. PICK t \in S : \E i \in 1..Depth(t) :
          stack[t][i].pc = "creating" /\ stack[t][i].entry = e
    OBVIOUS
  <2>2. PICK i \in 1..Depth(t) :
          stack[t][i].pc = "creating" /\ stack[t][i].entry = e
    BY <2>1
  <2>3. t \in Threads /\ Depth(t) \in Nat /\ At(t, "asleep")
    BY DEF TypeOK, Depth
  <2>4. CASE e = activeProducer[t]
    <3>1. e # None
      BY NoneAssumption
    <3>2. waitingOn[e] = Top(t).entry
      BY <2>3, <2>4, <3>1 DEF WaitInv, StackInv, SleeperLinked
    <3>3. PICK u \in S : \E j \in 1..Depth(u) :
            /\ stack[u][j].pc = "creating"
            /\ stack[u][j].entry = Top(t).entry
      OBVIOUS
    <3> QED BY <1>2, <3>2, <3>3
  <2>5. CASE e # activeProducer[t]
    <3>1. PICK j \in (i + 1)..Depth(t) :
            /\ stack[t][j].pc \in Producing
            /\ waitingOn[e] = stack[t][j].entry
      BY <1>1, <2>2, <2>3, <2>5
         DEF WaitInv, StackInv, EnclosingLinked, IsProducing
    <3>2. stack[t][Depth(t)].pc = "asleep"
      BY <2>3 DEF At, Top
    <3>3. j \in 1..(Depth(t) - 1)
      BY <2>3, <3>1, <3>2 DEF Producing
    <3>4. stack[t][j].pc \in Foreign
      BY <2>3, <3>3 DEF WaitInv, StackInv, ForeignBelowTop
    <3>5. stack[t][j].pc = "creating"
      BY <3>1, <3>4 DEF Foreign, Producing
    <3>6. j \in 1..Depth(t)
      BY <2>3, <3>3
    <3> QED BY <1>2, <3>1, <3>5, <3>6
  <2> QED BY <2>4, <2>5
<1> HIDE DEF C
<1>5. C \in (SUBSET Entries) \ {{}}
  BY <1>3 DEF C
<1> QED BY <1>4, <1>5 DEF WaitInv, Acyclic

(* The pipeline cache never deadlocks: no set of threads is blocked in     *)
(* getOrCreate waiting for one another, however creations nest.            *)
THEOREM NoDeadlock == Spec => []NoWaitCycle
BY TypeCorrect, WaitInvariant, AcyclicMeansNoDeadlock, PTL

(* The pipeline cache never loses a wake-up: whoever sleeps on an entry    *)
(* has a thread that will still call notify_all on it.                     *)
THEOREM NoLostWakeup == Spec => []NoOrphanWaiter
<1>1. WaitInv => NoOrphanWaiter
  BY DEF WaitInv
<1> QED BY <1>1, WaitInvariant, PTL



-----------------------------------------------------------------------------
(***************************************************************************)
(* Scopes, entries and the lives of devices.                               *)
(***************************************************************************)

(* An entry in creation is mapped where its creator looked it up, and is   *)
(* pending.                                                                *)
CreatingMapped ==
  \A t \in Threads : \A i \in 1..Len(stack[t]) : stack[t][i].pc = "creating" =>
    /\ entries[stack[t][i].scope][stack[t][i].key] = stack[t][i].entry
    /\ outcome[stack[t][i].entry] = "pending"

(* An entry is mapped at one key of one scope. *)
MappedOnce ==
  \A a, b \in Scopes : \A k, l \in Keys :
    ScopeAllocated(a) /\ ScopeAllocated(b) /\ entries[a][k] # None
      /\ entries[a][k] = entries[b][l] => a = b /\ k = l

ScopesDistinct ==
  \A c, d \in Devices : scopes[c] # None /\ scopes[c] = scopes[d] => c = d

(* All that is in a scope, and all calls that use it, belong to one life   *)
(* of the device.                                                          *)
OneLife ==
  \A t \in Threads : \A i \in 1..Len(stack[t]) : stack[t][i].scope # None =>
    /\ \A k \in Keys : entries[stack[t][i].scope][k] # None =>
         bornIn[entries[stack[t][i].scope][k]] = stack[t][i].life
    /\ \A u \in Threads : \A j \in 1..Len(stack[u]) :
         stack[u][j].scope = stack[t][i].scope => stack[u][j].life = stack[t][i].life

HeldLife ==
  \A t \in Threads : \A i \in 1..Len(stack[t]) : stack[t][i].pc \in Holding =>
    bornIn[stack[t][i].entry] = stack[t][i].life

(* The current scope of a device belongs to its current life and keeps no  *)
(* failure.                                                                *)
CurrentLife ==
  \A d \in Devices : scopes[d] # None =>
    /\ \A k \in Keys : entries[scopes[d]][k] # None =>
         /\ bornIn[entries[scopes[d]][k]] = life[d]
         /\ outcome[entries[scopes[d]][k]] # "failure"
    /\ \A t \in Threads : \A i \in 1..Len(stack[t]) :
         stack[t][i].scope = scopes[d] => stack[t][i].life = life[d]

(* A device with a retirement in progress has no scope. *)
RetiredUnscoped ==
  /\ \A r \in retirements : scopes[r.device] = None
  /\ \A t \in Threads : \A i \in 1..Len(stack[t]) :
       stack[t][i].pc \in {"detached", "retired"} =>
         [owner |-> t, depth |-> i, device |-> stack[t][i].device] \in retirements

FlightInv ==
  /\ CreatingMapped
  /\ MappedOnce
  /\ ScopesDistinct
  /\ OneLife
  /\ HeldLife
  /\ CurrentLife
  /\ RetiredUnscoped

(* A frame of a thread has the type of frames. *)
LEMMA FrameTyped ==
  ASSUME TypeOK, NEW t \in Threads, NEW i \in 1..Len(stack[t])
  PROVE  /\ stack[t][i] \in Frame
         /\ stack[t][i].scope \in Scopes \cup {None} /\ stack[t][i].device \in Devices
         /\ stack[t][i].pc \in Holding \cup {"lookup"} =>
              stack[t][i].scope \in Scopes /\ stack[t][i].key \in Keys
         /\ stack[t][i].pc \in Holding => stack[t][i].entry \in Entries
<1>1. stack[t][i] \in Frame
  BY DEF TypeOK
<1> QED BY <1>1 DEF Frame, Locals

-----------------------------------------------------------------------------
(* Steps that leave scopes, maps and retirements alone. *)

(* Frame g goes on from frame f. *)
Continues(g, f) ==
  /\ g.device = f.device /\ g.life = f.life /\ g.key = f.key
  /\ g.scope \in {f.scope, None}
  /\ g.pc = "creating" => f.pc = "creating" /\ g.scope = f.scope /\ g.entry = f.entry
  /\ g.pc \in Holding =>
       /\ g.scope = f.scope
       /\ \/ f.pc \in Holding /\ g.entry = f.entry
          \/ g.entry = entries[f.scope][f.key]
  /\ g.pc \in {"detached", "retired"} => f.pc \in {"detached", "retired"}

(* Frame g is a new call. *)
Begins(g) ==
  /\ g.pc \notin Holding \cup {"detached", "retired"}
  /\ g.life = life[g.device]
  /\ g.scope \in {scopes[g.device], None}

QuietStack ==
  \A u \in Threads : \A i \in 1..Len(stack'[u]) :
    \/ i \in 1..Len(stack[u]) /\ Continues(stack'[u][i], stack[u][i])
    \/ Begins(stack'[u][i])

(* Such a step allocates no scope. *)
LEMMA QuietAllocates ==
  ASSUME TypeOK, TypeOK', QuietStack, scopes' = scopes, NEW s \in Scopes,
         ScopeAllocated(s)'
  PROVE  ScopeAllocated(s)
<1>1. CASE \E d \in Devices : scopes'[d] = s
  BY <1>1 DEF ScopeAllocated
<1>2. CASE \E u \in Threads : \E i \in 1..Len(stack'[u]) : stack'[u][i].scope = s
  <2>1. PICK u \in Threads : \E i \in 1..Len(stack'[u]) : stack'[u][i].scope = s
    BY <1>2
  <2>2. PICK i \in 1..Len(stack'[u]) : stack'[u][i].scope = s
    BY <2>1
  <2>3. s # None
    BY NoneAssumption
  <2>4. CASE i \in 1..Len(stack[u]) /\ Continues(stack'[u][i], stack[u][i])
    <3>1. stack[u][i].scope = s
      BY <2>2, <2>3, <2>4 DEF Continues
    <3> QED BY <2>4, <3>1 DEF ScopeAllocated, Depth
  <2>5. CASE Begins(stack'[u][i])
    <3>1. stack'[u][i] \in Frame
      BY DEF TypeOK
    <3>2. stack'[u][i].device \in Devices
      BY <3>1 DEF Frame, Locals
    <3> QED BY <2>2, <2>3, <2>5, <3>2 DEF Begins, ScopeAllocated
  <2> QED BY <2>4, <2>5 DEF QuietStack
<1> QED BY <1>1, <1>2 DEF ScopeAllocated, Depth

(* Such steps preserve the invariant when the maps stay as they are. *)
LEMMA QuietFlight ==
  ASSUME TypeOK, TypeOK', FlightInv, QuietStack,
         UNCHANGED <<scopes, retirements, entries, outcome, life, bornIn>>
  PROVE  FlightInv'
<1>0. ASSUME NEW u \in Threads, NEW i \in 1..Len(stack'[u])
      PROVE  /\ stack'[u][i] \in Frame
             /\ stack'[u][i].device \in Devices
             /\ stack'[u][i].scope \in Scopes \cup {None}
             /\ stack'[u][i].pc \in Holding =>
                  stack'[u][i].entry \in Entries /\ stack'[u][i].scope \in Scopes
  <2>1. stack'[u][i] \in Frame
    BY DEF TypeOK
  <2> QED BY <2>1 DEF Frame, Locals
<1>1. "creating" \in Holding
  BY DEF Holding, Producing
<1>2. CreatingMapped'
  <2> SUFFICES ASSUME NEW t \in Threads, NEW i \in 1..Len(stack'[t]),
                      stack'[t][i].pc = "creating"
               PROVE  /\ entries'[stack'[t][i].scope][stack'[t][i].key] = stack'[t][i].entry
                      /\ outcome'[stack'[t][i].entry] = "pending"
    BY DEF CreatingMapped
  <2>1. i \in 1..Len(stack[t]) /\ Continues(stack'[t][i], stack[t][i])
    BY <1>1 DEF QuietStack, Begins
  <2>2. /\ stack[t][i].pc = "creating" /\ stack'[t][i].scope = stack[t][i].scope
        /\ stack'[t][i].key = stack[t][i].key /\ stack'[t][i].entry = stack[t][i].entry
    BY <2>1 DEF Continues
  <2> QED BY <2>1, <2>2 DEF FlightInv, CreatingMapped
<1>3. MappedOnce'
  BY QuietAllocates DEF MappedOnce, FlightInv
<1>4. ScopesDistinct'
  BY DEF ScopesDistinct, FlightInv
<1>5. ASSUME NEW t \in Threads, NEW i \in 1..Len(stack'[t]), stack'[t][i].scope # None
      PROVE  \/ /\ i \in 1..Len(stack[t]) /\ stack[t][i].scope = stack'[t][i].scope
                /\ stack[t][i].life = stack'[t][i].life
             \/ /\ stack'[t][i].scope = scopes[stack'[t][i].device]
                /\ stack'[t][i].life = life[stack'[t][i].device]
  <2>1. CASE i \in 1..Len(stack[t]) /\ Continues(stack'[t][i], stack[t][i])
    BY <1>5, <2>1 DEF Continues
  <2>2. CASE Begins(stack'[t][i])
    BY <1>5, <2>2 DEF Begins
  <2> QED BY <2>1, <2>2 DEF QuietStack
<1>6. OneLife'
  <2> SUFFICES ASSUME NEW t \in Threads, NEW i \in 1..Len(stack'[t]),
                      stack'[t][i].scope # None
               PROVE  /\ \A k \in Keys : entries'[stack'[t][i].scope][k] # None =>
                           bornIn'[entries'[stack'[t][i].scope][k]] = stack'[t][i].life
                      /\ \A u \in Threads : \A j \in 1..Len(stack'[u]) :
                           stack'[u][j].scope = stack'[t][i].scope =>
                             stack'[u][j].life = stack'[t][i].life
    BY DEF OneLife
  <2>1. \A k \in Keys : entries'[stack'[t][i].scope][k] # None =>
          bornIn'[entries'[stack'[t][i].scope][k]] = stack'[t][i].life
    <3> DEFINE s == stack'[t][i].scope
               d == stack'[t][i].device
    <3>1. d \in Devices /\ s # None
      BY <1>0
    <3>2. \/ /\ i \in 1..Len(stack[t]) /\ stack[t][i].scope = s
             /\ stack[t][i].life = stack'[t][i].life
          \/ s = scopes[d] /\ stack'[t][i].life = life[d]
      BY <1>5
    <3> HIDE DEF s, d
    <3>3. \A k \in Keys : entries[s][k] # None => bornIn[entries[s][k]] = stack'[t][i].life
      BY <3>1, <3>2 DEF FlightInv, OneLife, CurrentLife
    <3> QED BY <3>3 DEF s
  <2>2. ASSUME NEW u \in Threads, NEW j \in 1..Len(stack'[u]),
               stack'[u][j].scope = stack'[t][i].scope
        PROVE  stack'[u][j].life = stack'[t][i].life
    <3> DEFINE c == stack'[t][i].device
               d == stack'[u][j].device
               s == stack'[t][i].scope
    <3>1. c \in Devices /\ d \in Devices
      BY <1>0
    <3>2. \/ /\ i \in 1..Len(stack[t]) /\ stack[t][i].scope = s
             /\ stack[t][i].life = stack'[t][i].life
          \/ s = scopes[c] /\ stack'[t][i].life = life[c]
      BY <1>5
    <3>3. \/ /\ j \in 1..Len(stack[u]) /\ stack[u][j].scope = s
             /\ stack[u][j].life = stack'[u][j].life
          \/ s = scopes[d] /\ stack'[u][j].life = life[d]
      BY <1>5, <2>2
    <3>4. s # None
      OBVIOUS
    <3> HIDE DEF c, d, s
    <3> QED BY <3>1, <3>2, <3>3, <3>4 DEF FlightInv, OneLife, CurrentLife, ScopesDistinct
  <2> QED BY <2>1, <2>2
<1>7. HeldLife'
  <2> SUFFICES ASSUME NEW t \in Threads, NEW i \in 1..Len(stack'[t]),
                      stack'[t][i].pc \in Holding
               PROVE  bornIn'[stack'[t][i].entry] = stack'[t][i].life
    BY DEF HeldLife
  <2>1. i \in 1..Len(stack[t]) /\ Continues(stack'[t][i], stack[t][i])
    BY DEF QuietStack, Begins
  <2>2. /\ stack'[t][i].scope = stack[t][i].scope /\ stack'[t][i].life = stack[t][i].life
        /\ \/ stack[t][i].pc \in Holding /\ stack'[t][i].entry = stack[t][i].entry
           \/ stack'[t][i].entry = entries[stack[t][i].scope][stack[t][i].key]
    BY <2>1 DEF Continues
  <2>3. stack'[t][i].entry # None /\ stack'[t][i].scope # None
    BY <1>0, NoneAssumption
  <2>4. stack[t][i].key \in Keys
    <3>1. stack'[t][i] \in Frame
      BY <1>0
    <3>2. stack'[t][i].key \in Keys
      BY <3>1 DEF Frame
    <3> QED BY <2>1, <3>2 DEF Continues
  <2> QED BY <2>1, <2>2, <2>3, <2>4 DEF FlightInv, HeldLife, OneLife
<1>8. CurrentLife'
  <2> SUFFICES ASSUME NEW d \in Devices, scopes[d] # None
               PROVE  \A t \in Threads : \A i \in 1..Len(stack'[t]) :
                        stack'[t][i].scope = scopes[d] => stack'[t][i].life = life[d]
    BY DEF CurrentLife, FlightInv
  <2> SUFFICES ASSUME NEW t \in Threads, NEW i \in 1..Len(stack'[t]),
                      stack'[t][i].scope = scopes[d]
               PROVE  stack'[t][i].life = life[d]
    OBVIOUS
  <2>1. stack'[t][i].device \in Devices
    BY <1>0
  <2> QED BY <1>5, <2>1 DEF FlightInv, CurrentLife, ScopesDistinct
<1>9. RetiredUnscoped'
  <2> SUFFICES ASSUME NEW t \in Threads, NEW i \in 1..Len(stack'[t]),
                      stack'[t][i].pc \in {"detached", "retired"}
               PROVE  [owner |-> t, depth |-> i, device |-> stack'[t][i].device]
                        \in retirements
    BY DEF RetiredUnscoped, FlightInv
  <2>1. i \in 1..Len(stack[t]) /\ Continues(stack'[t][i], stack[t][i])
    BY DEF QuietStack, Begins
  <2>2. /\ stack[t][i].pc \in {"detached", "retired"}
        /\ stack'[t][i].device = stack[t][i].device
    BY <2>1 DEF Continues
  <2> QED BY <2>1, <2>2 DEF FlightInv, RetiredUnscoped
<1> QED BY <1>2, <1>3, <1>4, <1>6, <1>7, <1>8, <1>9 DEF FlightInv

(* A frame goes on from itself. *)
LEMMA ContinuesSelf == ASSUME NEW f PROVE Continues(f, f)
BY DEF Continues

(* The three stack operations, as quiet steps. *)
LEMMA PushQuiet ==
  ASSUME TypeOK, NEW t \in Threads, NEW f \in Frame, stack' = Pushed(t, f), Begins(f)
  PROVE  QuietStack
<1> SUFFICES ASSUME NEW u \in Threads, NEW i \in 1..Len(stack'[u])
             PROVE  \/ i \in 1..Len(stack[u]) /\ Continues(stack'[u][i], stack[u][i])
                    \/ Begins(stack'[u][i])
  BY DEF QuietStack
<1>1. /\ Len(stack'[t]) = Len(stack[t]) + 1
      /\ stack'[t][Len(stack[t]) + 1] = f
      /\ \A j \in 1..Len(stack[t]) : stack'[t][j] = stack[t][j]
      /\ \A v \in Threads : v # t => stack'[v] = stack[v]
  BY PushFacts
<1>2. Len(stack[t]) \in Nat
  BY DEF TypeOK
<1>3. CASE u = t /\ i = Len(stack[t]) + 1
  BY <1>1, <1>3
<1>4. CASE ~(u = t /\ i = Len(stack[t]) + 1)
  <2>1. i \in 1..Len(stack[u]) /\ stack'[u][i] = stack[u][i]
    BY <1>1, <1>2, <1>4
  <2> QED BY <2>1, ContinuesSelf
<1> QED BY <1>3, <1>4

(* A call that returns is a quiet step. *)
LEMMA PopQuiet ==
  ASSUME TypeOK, NEW t \in Threads, Depth(t) > 0, stack' = Popped(t)
  PROVE  QuietStack
<1> SUFFICES ASSUME NEW u \in Threads, NEW i \in 1..Len(stack'[u])
             PROVE  i \in 1..Len(stack[u]) /\ Continues(stack'[u][i], stack[u][i])
  BY DEF QuietStack
<1>1. /\ Len(stack'[t]) = Len(stack[t]) - 1
      /\ \A j \in 1..(Len(stack[t]) - 1) : stack'[t][j] = stack[t][j]
      /\ \A v \in Threads : v # t => stack'[v] = stack[v]
  BY PopFacts
<1>2. Len(stack[t]) \in Nat
  BY DEF TypeOK
<1>3. i \in 1..Len(stack[u]) /\ stack'[u][i] = stack[u][i]
  BY <1>1, <1>2
<1> QED BY <1>3, ContinuesSelf

(* A call that goes on is a quiet step. *)
LEMMA ChangeQuiet ==
  ASSUME TypeOK, NEW t \in Threads, NEW f \in Frame, Depth(t) > 0,
         stack' = Changed(t, f), Continues(f, Top(t))
  PROVE  QuietStack
<1> SUFFICES ASSUME NEW u \in Threads, NEW i \in 1..Len(stack'[u])
             PROVE  i \in 1..Len(stack[u]) /\ Continues(stack'[u][i], stack[u][i])
  BY DEF QuietStack
<1>1. /\ Len(stack'[t]) = Len(stack[t])
      /\ stack'[t][Len(stack[t])] = f
      /\ \A j \in 1..(Len(stack[t]) - 1) : stack'[t][j] = stack[t][j]
      /\ \A v \in Threads : v # t => stack'[v] = stack[v]
  BY ChangeFacts
<1>2. Len(stack[t]) \in Nat /\ Top(t) = stack[t][Len(stack[t])]
  BY TopFacts DEF TypeOK
<1>3. CASE u = t /\ i = Len(stack[t])
  BY <1>1, <1>2, <1>3
<1>4. CASE ~(u = t /\ i = Len(stack[t]))
  <2>1. i \in 1..Len(stack[u]) /\ stack'[u][i] = stack[u][i]
    BY <1>1, <1>2, <1>4
  <2> QED BY <2>1, ContinuesSelf
<1> QED BY <1>3, <1>4

(* A new frame, field by field. *)
LEMMA NewFrameFacts ==
  ASSUME NEW pc, NEW d, NEW k, NEW s
  PROVE  /\ NewFrame(pc, d, k, s).pc = pc /\ NewFrame(pc, d, k, s).device = d
         /\ NewFrame(pc, d, k, s).key = k /\ NewFrame(pc, d, k, s).scope = s
         /\ NewFrame(pc, d, k, s).life = life[d]
BY DEF NewFrame

(* Calls that find their scope, or get none. *)
LEMMA FoundQuiet ==
  ASSUME TypeOK, NEW t \in Threads, NEW d \in Devices, NEW k \in Keys,
         ScopeRefused(t, d, k) \/ ScopeFound(t, d, k) \/ ScopeAllocFails(t, d, k)
  PROVE  QuietStack
<1>1. {"direct", "lookup"} \subseteq PC \ Holding
  BY DEF PC, Foreign, Holding, Producing
<1>2. \/ stack' = Pushed(t, NewFrame("direct", d, k, None))
      \/ scopes[d] # None /\ stack' = Pushed(t, NewFrame("lookup", d, k, scopes[d]))
  BY DEF ScopeRefused, ScopeFound, ScopeAllocFails
<1>3. ASSUME NEW pc \in {"direct", "lookup"}, NEW s \in Scopes \cup {None},
             pc = "lookup" => s \in Scopes, s \in {scopes[d], None},
             stack' = Pushed(t, NewFrame(pc, d, k, s))
      PROVE  QuietStack
  <2>1. NewFrame(pc, d, k, s) \in Frame
    BY <1>1, <1>3, NewFrameType
  <2>2. Begins(NewFrame(pc, d, k, s))
    BY <1>1, <1>3, NewFrameFacts DEF Begins
  <2> QED BY <1>3, <2>1, <2>2, PushQuiet
<1>4. scopes[d] \in Scopes \cup {None}
  BY DEF TypeOK
<1> QED BY <1>2, <1>3, <1>4

(* Lookups that make no entry, and steps that release one. *)
LEMMA MovedQuiet ==
  ASSUME TypeOK, NEW t \in Threads,
         EntryAllocFails(t) \/ WaitForProducer(t) \/ BypassCycle(t)
           \/ ReleaseForgotten(t)
  PROVE  QuietStack
<1>1. CASE EntryAllocFails(t)
  <2>1. Depth(t) > 0 /\ Top(t).entry \in Entries \cup {None}
    BY <1>1, TopFacts DEF EntryAllocFails, At, Frame, Locals
  <2>2. stack' = Changed(t, AtEntry(t, "direct", Top(t).entry))
    BY <1>1 DEF EntryAllocFails, Goto
  <2>3. "direct" \in PC /\ "direct" \notin Holding \cup {"lookup"}
    BY DEF PC, Foreign, Holding, Producing
  <2> DEFINE f == AtEntry(t, "direct", Top(t).entry)
  <2>4. /\ f \in Frame /\ f.pc = "direct" /\ f.scope = Top(t).scope
        /\ f.key = Top(t).key /\ f.device = Top(t).device /\ f.life = Top(t).life
    BY <2>1, <2>3, AtEntryFacts
  <2> HIDE DEF f
  <2>5. Continues(f, Top(t))
    BY <2>3, <2>4 DEF Continues
  <2> QED BY <2>1, <2>2, <2>4, <2>5, ChangeQuiet DEF f
<1>2. CASE WaitForProducer(t) \/ BypassCycle(t)
  <2>1. Depth(t) > 0 /\ Top(t).pc = "lookup" /\ Found(t) # None
    BY <1>2 DEF WaitForProducer, BypassCycle, At
  <2>2. Top(t).scope \in Scopes /\ Top(t).key \in Keys
    BY <2>1, TopScoped
  <2>3. Found(t) \in Entries /\ Found(t) = entries[Top(t).scope][Top(t).key]
    BY <2>1, <2>2 DEF Found, TypeOK
  <2>4. PICK pc \in {"direct", "asleep"} : stack' = Changed(t, AtEntry(t, pc, Found(t)))
    BY <1>2 DEF WaitForProducer, BypassCycle, GotoEntry
  <2>5. pc \in PC
    BY DEF PC, Foreign
  <2> DEFINE f == AtEntry(t, pc, Found(t))
  <2>6. /\ f \in Frame /\ f.pc = pc /\ f.scope = Top(t).scope /\ f.entry = Found(t)
        /\ f.key = Top(t).key /\ f.device = Top(t).device /\ f.life = Top(t).life
    BY <2>1, <2>2, <2>3, <2>5, AtEntryFacts
  <2> HIDE DEF f
  <2>7. Continues(f, Top(t))
    BY <2>3, <2>6 DEF Continues
  <2> QED BY <2>1, <2>4, <2>6, <2>7, ChangeQuiet DEF f
<1>3. CASE ReleaseForgotten(t)
  <2>1. Depth(t) > 0 /\ Top(t).pc = "detached" /\ stack' = Changed(t, Unscoped(t))
    BY <1>3 DEF ReleaseForgotten, At
  <2> DEFINE f == Unscoped(t)
  <2>2. /\ f \in Frame /\ f.pc = "retired" /\ f.scope = None
        /\ f.key = Top(t).key /\ f.device = Top(t).device /\ f.life = Top(t).life
    BY <2>1, UnscopedFacts
  <2> HIDE DEF f
  <2>3. Continues(f, Top(t))
    BY <2>1, <2>2 DEF Continues, Holding, Producing
  <2> QED BY <2>1, <2>2, <2>3, ChangeQuiet DEF f
<1> QED BY <1>1, <1>2, <1>3

(* notify_all is a quiet step. *)
LEMMA NotifyQuiet ==
  ASSUME TypeOK, NEW t \in Threads, NotifyAll(t)
  PROVE  QuietStack
<1> SUFFICES ASSUME NEW u \in Threads, NEW i \in 1..Len(stack'[u])
             PROVE  i \in 1..Len(stack[u]) /\ Continues(stack'[u][i], stack[u][i])
  BY DEF QuietStack
<1>1. Len(stack[u]) \in Nat /\ stack'[u] = [j \in 1..Len(stack[u]) |-> Notified(t, stack[u][j])]
  BY DEF NotifyAll, Depth, TypeOK
<1>2. Len(stack'[u]) = Len(stack[u])
  BY <1>1
<1>3. i \in 1..Len(stack[u]) /\ stack'[u][i] = Notified(t, stack[u][i])
  BY <1>1, <1>2
<1>4. stack[u][i] \in Frame
  BY <1>3 DEF TypeOK
<1> DEFINE f == stack[u][i]
           g == Notified(t, f)
<1>5. /\ g.entry = f.entry /\ g.scope = f.scope /\ g.key = f.key
      /\ g.device = f.device /\ g.life = f.life
      /\ g.pc = IF f.entry = Top(t).entry /\ f.pc = "asleep" THEN "awake"
                ELSE IF f.entry = Top(t).entry /\ f.pc = "notify" THEN "leave"
                ELSE f.pc
  BY <1>4, NotifiedFacts
<1> HIDE DEF f, g
<1>6. Continues(g, f)
  BY <1>5 DEF Continues, Holding, Producing
<1> QED BY <1>3, <1>6 DEF f, g

-----------------------------------------------------------------------------
(* Steps that change scopes, maps or retirements. *)

(* A new scope was held by nobody, and begins empty. *)
LEMMA ScopeCreatedFlight ==
  ASSUME TypeOK, TypeOK', FlightInv, NEW t \in Threads, NEW d \in Devices, NEW k \in Keys,
         ScopeCreated(t, d, k)
  PROVE  FlightInv'
<1>1. PICK s \in Scopes :
        /\ ~ScopeAllocated(s)
        /\ scopes' = [scopes EXCEPT ![d] = s]
        /\ entries' = [entries EXCEPT ![s] = NoEntries]
        /\ stack' = Pushed(t, NewFrame("lookup", d, k, s))
  BY DEF ScopeCreated
<1>2. /\ ~IsRetired(d) /\ scopes[d] = None
      /\ UNCHANGED <<retirements, outcome, life, bornIn>>
  BY DEF ScopeCreated
<1> DEFINE n == Len(stack[t]) + 1
           f == NewFrame("lookup", d, k, s)
<1>3. /\ f \in Frame /\ f.pc = "lookup" /\ f.scope = s /\ f.device = d /\ f.life = life[d]
  <2>1. "lookup" \in PC \ Holding
    BY DEF PC, Holding, Producing
  <2> QED BY <2>1, NewFrameType, NewFrameFacts
<1> HIDE DEF f
<1>4. /\ Len(stack'[t]) = n /\ stack'[t][n] = f
      /\ \A i \in 1..Len(stack[t]) : stack'[t][i] = stack[t][i]
      /\ \A u \in Threads : u # t => stack'[u] = stack[u]
  BY <1>1, <1>3, PushFacts DEF f
<1>5. ASSUME NEW u \in Threads, NEW i \in 1..Len(stack'[u]), ~(u = t /\ i = n)
      PROVE  i \in 1..Len(stack[u]) /\ stack'[u][i] = stack[u][i]
  <2>1. Len(stack[t]) \in Nat
    BY DEF TypeOK
  <2> QED BY <1>4, <1>5, <2>1
<1>6. \A u \in Threads : \A i \in 1..Len(stack[u]) : stack[u][i].scope # s
  BY <1>1 DEF ScopeAllocated, Depth
<1>7. /\ \A c \in Devices : scopes[c] # s
      /\ \A c \in Devices : scopes'[c] = IF c = d THEN s ELSE scopes[c]
  BY <1>1 DEF ScopeAllocated, TypeOK
<1>8. /\ \A a \in Scopes : a # s => entries'[a] = entries[a]
      /\ \A l \in Keys : entries'[s][l] = None
  BY <1>1 DEF TypeOK, NoEntries
<1>9. s # None
  BY NoneAssumption
<1>10. CreatingMapped'
  <2> SUFFICES ASSUME NEW u \in Threads, NEW i \in 1..Len(stack'[u]),
                      stack'[u][i].pc = "creating"
               PROVE  /\ entries'[stack'[u][i].scope][stack'[u][i].key] = stack'[u][i].entry
                      /\ outcome'[stack'[u][i].entry] = "pending"
    BY DEF CreatingMapped
  <2>1. i \in 1..Len(stack[u]) /\ stack'[u][i] = stack[u][i]
    BY <1>3, <1>4, <1>5
  <2>2. stack[u][i].scope \in Scopes /\ stack[u][i].scope # s
    BY <1>6, <2>1, FrameTyped DEF Holding, Producing
  <2> QED BY <1>2, <1>8, <2>1, <2>2 DEF FlightInv, CreatingMapped
<1>11. \A a \in Scopes : a # s /\ ScopeAllocated(a)' => ScopeAllocated(a)
  <2> SUFFICES ASSUME NEW a \in Scopes, a # s, ScopeAllocated(a)'
               PROVE  ScopeAllocated(a)
    OBVIOUS
  <2>1. CASE \E c \in Devices : scopes'[c] = a
    BY <1>7, <2>1 DEF ScopeAllocated
  <2>2. CASE \E u \in Threads : \E i \in 1..Len(stack'[u]) : stack'[u][i].scope = a
    BY <1>3, <1>4, <1>5, <2>2 DEF ScopeAllocated, Depth
  <2> QED BY <2>1, <2>2 DEF ScopeAllocated, Depth
<1>12. MappedOnce'
  BY <1>8, <1>11 DEF MappedOnce, FlightInv
<1>13. ScopesDistinct'
  BY <1>7 DEF ScopesDistinct, FlightInv
<1>14. ASSUME NEW u \in Threads, NEW i \in 1..Len(stack'[u]), stack'[u][i].scope = s
       PROVE  stack'[u][i].life = life[d]
  BY <1>3, <1>4, <1>5, <1>6, <1>14
<1>15. ASSUME NEW u \in Threads, NEW i \in 1..Len(stack'[u]), stack'[u][i].scope # s
       PROVE  i \in 1..Len(stack[u]) /\ stack'[u][i] = stack[u][i]
  BY <1>3, <1>4, <1>5, <1>15
<1>16. OneLife'
  <2> SUFFICES ASSUME NEW u \in Threads, NEW i \in 1..Len(stack'[u]),
                      stack'[u][i].scope # None
               PROVE  /\ \A l \in Keys : entries'[stack'[u][i].scope][l] # None =>
                           bornIn'[entries'[stack'[u][i].scope][l]] = stack'[u][i].life
                      /\ \A v \in Threads : \A j \in 1..Len(stack'[v]) :
                           stack'[v][j].scope = stack'[u][i].scope =>
                             stack'[v][j].life = stack'[u][i].life
    BY DEF OneLife
  <2>1. CASE stack'[u][i].scope = s
    BY <1>8, <1>14, <2>1
  <2>2. CASE stack'[u][i].scope # s
    <3>1. i \in 1..Len(stack[u]) /\ stack'[u][i] = stack[u][i]
      BY <1>15, <2>2
    <3>2. stack[u][i].scope \in Scopes
      BY <3>1, FrameTyped
    <3>3. entries'[stack'[u][i].scope] = entries[stack[u][i].scope]
      BY <1>8, <2>2, <3>1, <3>2
    <3>4. ASSUME NEW v \in Threads, NEW j \in 1..Len(stack'[v]),
                 stack'[v][j].scope = stack'[u][i].scope
          PROVE  stack'[v][j].life = stack'[u][i].life
      <4>1. j \in 1..Len(stack[v]) /\ stack'[v][j] = stack[v][j]
        BY <1>15, <2>2, <3>4
      <4> QED BY <3>1, <3>4, <4>1 DEF FlightInv, OneLife
    <3> QED BY <1>2, <3>1, <3>3, <3>4 DEF FlightInv, OneLife
  <2> QED BY <2>1, <2>2
<1>17. HeldLife'
  <2> SUFFICES ASSUME NEW u \in Threads, NEW i \in 1..Len(stack'[u]),
                      stack'[u][i].pc \in Holding
               PROVE  bornIn'[stack'[u][i].entry] = stack'[u][i].life
    BY DEF HeldLife
  <2>1. i \in 1..Len(stack[u]) /\ stack'[u][i] = stack[u][i]
    BY <1>3, <1>4, <1>5 DEF Holding, Producing
  <2> QED BY <1>2, <2>1 DEF FlightInv, HeldLife
<1>18. CurrentLife'
  <2> SUFFICES ASSUME NEW c \in Devices, scopes'[c] # None
               PROVE  /\ \A l \in Keys : entries'[scopes'[c]][l] # None =>
                           /\ bornIn'[entries'[scopes'[c]][l]] = life'[c]
                           /\ outcome'[entries'[scopes'[c]][l]] # "failure"
                      /\ \A u \in Threads : \A i \in 1..Len(stack'[u]) :
                           stack'[u][i].scope = scopes'[c] => stack'[u][i].life = life'[c]
    BY DEF CurrentLife
  <2>1. CASE c = d
    BY <1>2, <1>7, <1>8, <1>14, <2>1
  <2>2. CASE c # d
    <3>1. scopes'[c] = scopes[c] /\ scopes[c] \in Scopes /\ scopes[c] # s
      BY <1>7, <2>2 DEF TypeOK
    <3>2. entries'[scopes'[c]] = entries[scopes[c]]
      BY <1>8, <3>1
    <3>3. ASSUME NEW u \in Threads, NEW i \in 1..Len(stack'[u]),
                 stack'[u][i].scope = scopes'[c]
          PROVE  stack'[u][i].life = life'[c]
      <4>1. i \in 1..Len(stack[u]) /\ stack'[u][i] = stack[u][i]
        BY <1>15, <3>1, <3>3
      <4> QED BY <1>2, <3>1, <3>3, <4>1 DEF FlightInv, CurrentLife
    <3> QED BY <1>2, <3>1, <3>2, <3>3 DEF FlightInv, CurrentLife
  <2> QED BY <2>1, <2>2
<1>19. RetiredUnscoped'
  <2>1. \A r \in retirements : r.device \in Devices
    BY DEF TypeOK, Retirement
  <2>2. \A r \in retirements' : scopes'[r.device] = None
    BY <1>2, <1>7, <2>1 DEF FlightInv, RetiredUnscoped, IsRetired
  <2>3. ASSUME NEW u \in Threads, NEW i \in 1..Len(stack'[u]),
               stack'[u][i].pc \in {"detached", "retired"}
        PROVE  [owner |-> u, depth |-> i, device |-> stack'[u][i].device] \in retirements'
    <3>1. i \in 1..Len(stack[u]) /\ stack'[u][i] = stack[u][i]
      BY <1>3, <1>4, <1>5, <2>3
    <3> QED BY <1>2, <2>3, <3>1 DEF FlightInv, RetiredUnscoped
  <2> QED BY <2>2, <2>3 DEF RetiredUnscoped
<1> QED BY <1>10, <1>12, <1>13, <1>16, <1>17, <1>18, <1>19 DEF FlightInv

(* The call that forgets or retires a device takes its scope over. *)
LEMMA DetachFlight ==
  ASSUME TypeOK, TypeOK', FlightInv, NEW t \in Threads, NEW d \in Devices,
         ForgetDevice(t, d) \/ WithDeviceRetired(t, d)
  PROVE  FlightInv'
<1> DEFINE n == Len(stack[t]) + 1
<1>1. PICK pc \in {"forgetting", "detached"} :
        /\ stack' = Pushed(t, NewFrame(pc, d, None, scopes[d]))
        /\ retirements' = retirements \cup
             (IF pc = "detached" THEN {[owner |-> t, depth |-> n, device |-> d]} ELSE {})
  BY DEF ForgetDevice, WithDeviceRetired, Depth
<1>2. /\ scopes' = [scopes EXCEPT ![d] = None]
      /\ UNCHANGED <<entries, outcome, life, bornIn>>
  BY DEF ForgetDevice, WithDeviceRetired
<1> DEFINE f == NewFrame(pc, d, None, scopes[d])
<1>3. /\ f \in Frame /\ f.pc = pc /\ f.scope = scopes[d] /\ f.device = d /\ f.life = life[d]
  <2>1. pc \in PC \ Holding /\ pc # "lookup" /\ scopes[d] \in Scopes \cup {None}
    BY DEF PC, Foreign, Holding, Producing, TypeOK
  <2> QED BY <2>1, NewFrameType, NewFrameFacts
<1> HIDE DEF f
<1>4. /\ Len(stack'[t]) = n /\ stack'[t][n] = f
      /\ \A i \in 1..Len(stack[t]) : stack'[t][i] = stack[t][i]
      /\ \A u \in Threads : u # t => stack'[u] = stack[u]
  BY <1>1, <1>3, PushFacts DEF f
<1>5. ASSUME NEW u \in Threads, NEW i \in 1..Len(stack'[u]), ~(u = t /\ i = n)
      PROVE  i \in 1..Len(stack[u]) /\ stack'[u][i] = stack[u][i]
  <2>1. Len(stack[t]) \in Nat
    BY DEF TypeOK
  <2> QED BY <1>4, <1>5, <2>1
<1> HIDE DEF n
<1>6. \A c \in Devices : scopes'[c] = IF c = d THEN None ELSE scopes[c]
  BY <1>2 DEF TypeOK
<1>7. CreatingMapped'
  <2> SUFFICES ASSUME NEW u \in Threads, NEW i \in 1..Len(stack'[u]),
                      stack'[u][i].pc = "creating"
               PROVE  /\ entries'[stack'[u][i].scope][stack'[u][i].key] = stack'[u][i].entry
                      /\ outcome'[stack'[u][i].entry] = "pending"
    BY DEF CreatingMapped
  <2>1. i \in 1..Len(stack[u]) /\ stack'[u][i] = stack[u][i]
    BY <1>3, <1>4, <1>5
  <2> QED BY <1>2, <2>1 DEF FlightInv, CreatingMapped
<1>8. \A a \in Scopes : ScopeAllocated(a)' => ScopeAllocated(a)
  <2> SUFFICES ASSUME NEW a \in Scopes, ScopeAllocated(a)'
               PROVE  ScopeAllocated(a)
    OBVIOUS
  <2>1. CASE \E c \in Devices : scopes'[c] = a
    BY <1>6, <2>1, NoneAssumption DEF ScopeAllocated
  <2>2. CASE \E u \in Threads : \E i \in 1..Len(stack'[u]) : stack'[u][i].scope = a
    BY <1>3, <1>4, <1>5, <2>2 DEF ScopeAllocated, Depth
  <2> QED BY <2>1, <2>2 DEF ScopeAllocated, Depth
<1>9. MappedOnce'
  BY <1>2, <1>8 DEF MappedOnce, FlightInv
<1>10. ScopesDistinct'
  BY <1>6 DEF ScopesDistinct, FlightInv
<1>11. ASSUME NEW u \in Threads, NEW i \in 1..Len(stack'[u]), stack'[u][i].scope # None
       PROVE  \/ /\ i \in 1..Len(stack[u]) /\ stack[u][i].scope = stack'[u][i].scope
                 /\ stack[u][i].life = stack'[u][i].life
              \/ stack'[u][i].scope = scopes[d] /\ stack'[u][i].life = life[d]
  BY <1>3, <1>4, <1>5, <1>11
<1>12. OneLife'
  <2> SUFFICES ASSUME NEW u \in Threads, NEW i \in 1..Len(stack'[u]),
                      stack'[u][i].scope # None
               PROVE  /\ \A k \in Keys : entries'[stack'[u][i].scope][k] # None =>
                           bornIn'[entries'[stack'[u][i].scope][k]] = stack'[u][i].life
                      /\ \A v \in Threads : \A j \in 1..Len(stack'[v]) :
                           stack'[v][j].scope = stack'[u][i].scope =>
                             stack'[v][j].life = stack'[u][i].life
    BY DEF OneLife
  <2> DEFINE a == stack'[u][i].scope
             l == stack'[u][i].life
  <2>1. \/ i \in 1..Len(stack[u]) /\ stack[u][i].scope = a /\ stack[u][i].life = l
        \/ a = scopes[d] /\ l = life[d]
    BY <1>11
  <2>2. a # None
    OBVIOUS
  <2>3. ASSUME NEW v \in Threads, NEW j \in 1..Len(stack'[v]), stack'[v][j].scope = a
        PROVE  stack'[v][j].life = l
    <3>1. \/ /\ j \in 1..Len(stack[v]) /\ stack[v][j].scope = a
             /\ stack[v][j].life = stack'[v][j].life
          \/ a = scopes[d] /\ stack'[v][j].life = life[d]
      BY <1>11, <2>3
    <3> HIDE DEF a, l
    <3>2. CASE a = scopes[d]
      <4>1. l = life[d]
        BY <2>1, <2>2, <3>2 DEF FlightInv, CurrentLife
      <4>2. stack'[v][j].life = life[d]
        BY <2>2, <3>1, <3>2 DEF FlightInv, CurrentLife
      <4> QED BY <4>1, <4>2
    <3>3. CASE a # scopes[d]
      <4>1. i \in 1..Len(stack[u]) /\ stack[u][i].scope = a /\ stack[u][i].life = l
        BY <2>1, <3>3
      <4>2. /\ j \in 1..Len(stack[v]) /\ stack[v][j].scope = a
            /\ stack[v][j].life = stack'[v][j].life
        BY <3>1, <3>3
      <4>3. OneLife
        BY DEF FlightInv
      <4>4. stack[u][i].scope # None /\ stack[v][j].scope = stack[u][i].scope
        BY <2>2, <4>1, <4>2
      <4>5. stack[v][j].life = stack[u][i].life
        BY ONLY <4>1, <4>2, <4>3, <4>4, u \in Threads, v \in Threads DEF OneLife
      <4> QED BY <4>1, <4>2, <4>5
    <3> QED BY <3>2, <3>3
  <2>4. \A k \in Keys : entries[a][k] # None => bornIn[entries[a][k]] = l
    <3> HIDE DEF a, l
    <3> QED BY <2>1, <2>2 DEF FlightInv, OneLife, CurrentLife
  <2> QED BY <1>2, <2>3, <2>4
<1>13. HeldLife'
  <2> SUFFICES ASSUME NEW u \in Threads, NEW i \in 1..Len(stack'[u]),
                      stack'[u][i].pc \in Holding
               PROVE  bornIn'[stack'[u][i].entry] = stack'[u][i].life
    BY DEF HeldLife
  <2>1. i \in 1..Len(stack[u]) /\ stack'[u][i] = stack[u][i]
    BY <1>3, <1>4, <1>5 DEF Holding, Producing
  <2> QED BY <1>2, <2>1 DEF FlightInv, HeldLife
<1>14. CurrentLife'
  <2> SUFFICES ASSUME NEW c \in Devices, scopes'[c] # None
               PROVE  /\ \A k \in Keys : entries'[scopes'[c]][k] # None =>
                           /\ bornIn'[entries'[scopes'[c]][k]] = life'[c]
                           /\ outcome'[entries'[scopes'[c]][k]] # "failure"
                      /\ \A u \in Threads : \A i \in 1..Len(stack'[u]) :
                           stack'[u][i].scope = scopes'[c] => stack'[u][i].life = life'[c]
    BY DEF CurrentLife
  <2>1. c # d /\ scopes'[c] = scopes[c]
    BY <1>6
  <2>2. scopes[c] # scopes[d]
    BY <2>1 DEF FlightInv, ScopesDistinct
  <2>3. ASSUME NEW u \in Threads, NEW i \in 1..Len(stack'[u]),
               stack'[u][i].scope = scopes'[c]
        PROVE  stack'[u][i].life = life'[c]
    BY <1>2, <1>11, <2>1, <2>2, <2>3 DEF FlightInv, CurrentLife
  <2> QED BY <1>2, <2>1, <2>3 DEF FlightInv, CurrentLife
<1>15. RetiredUnscoped'
  <2>1. \A r \in retirements : r.device \in Devices
    BY DEF TypeOK, Retirement
  <2>2. \A r \in retirements' : scopes'[r.device] = None
    BY <1>1, <1>6, <2>1 DEF FlightInv, RetiredUnscoped
  <2>3. ASSUME NEW u \in Threads, NEW i \in 1..Len(stack'[u]),
               stack'[u][i].pc \in {"detached", "retired"}
        PROVE  [owner |-> u, depth |-> i, device |-> stack'[u][i].device] \in retirements'
    <3>1. CASE u = t /\ i = n
      BY <1>1, <1>3, <1>4, <2>3, <3>1
    <3>2. CASE ~(u = t /\ i = n)
      <4>1. i \in 1..Len(stack[u]) /\ stack'[u][i] = stack[u][i]
        BY <1>5, <3>2
      <4> QED BY <1>1, <2>3, <4>1 DEF FlightInv, RetiredUnscoped
    <3> QED BY <3>1, <3>2
  <2> QED BY <2>2, <2>3 DEF RetiredUnscoped
<1> QED BY <1>7, <1>9, <1>10, <1>12, <1>13, <1>14, <1>15 DEF FlightInv

(* A retirement that ends leaves no scope behind, so the next life of the  *)
(* address begins with none.                                               *)
LEMMA EndRetirementFlight ==
  ASSUME TypeOK, TypeOK', FlightInv, NEW t \in Threads, EndRetirement(t)
  PROVE  FlightInv'
<1> DEFINE n == Len(stack[t])
           d == Top(t).device
           r0 == [owner |-> t, depth |-> n, device |-> d]
<1>1. /\ Depth(t) > 0 /\ n \in Nat /\ n \in 1..n /\ n > 0
      /\ Top(t) = stack[t][n] /\ Top(t).pc = "retired"
  BY TopFacts DEF EndRetirement, At, Depth, TypeOK
<1>2. /\ retirements' = retirements \ {r0}
      /\ stack' = Popped(t)
      /\ UNCHANGED <<scopes, entries, outcome, bornIn>>
  BY DEF EndRetirement, Depth
<1>3. d \in Devices
  BY <1>1, FrameTyped
<1>4. /\ Len(stack'[t]) = n - 1
      /\ \A i \in 1..(n - 1) : stack'[t][i] = stack[t][i]
      /\ \A u \in Threads : u # t => stack'[u] = stack[u]
  BY <1>1, <1>2, PopFacts
<1>5. ASSUME NEW u \in Threads, NEW i \in 1..Len(stack'[u])
      PROVE  i \in 1..Len(stack[u]) /\ stack'[u][i] = stack[u][i] /\ ~(u = t /\ i = n)
  BY <1>1, <1>4
<1>6. r0 \in retirements /\ scopes[d] = None
  <2>1. [owner |-> t, depth |-> n, device |-> stack[t][n].device] \in retirements
    BY <1>1 DEF FlightInv, RetiredUnscoped
  <2>2. r0 \in retirements
    BY <1>1, <2>1
  <2>3. r0.device = d
    OBVIOUS
  <2> QED BY <2>2, <2>3 DEF FlightInv, RetiredUnscoped
<1>7. \A c \in Devices : scopes[c] # None => life'[c] = life[c]
  BY <1>6 DEF EndRetirement, TypeOK
<1> HIDE DEF n, d, r0
<1>8. \A a \in Scopes : ScopeAllocated(a)' => ScopeAllocated(a)
  BY <1>2, <1>5 DEF ScopeAllocated, Depth
<1>9. CreatingMapped'
  BY <1>2, <1>5 DEF FlightInv, CreatingMapped
<1>10. MappedOnce'
  BY <1>2, <1>8 DEF FlightInv, MappedOnce
<1>11. ScopesDistinct'
  BY <1>2 DEF FlightInv, ScopesDistinct
<1>12. OneLife'
  <2> SUFFICES ASSUME NEW u \in Threads, NEW i \in 1..Len(stack'[u]),
                      stack'[u][i].scope # None
               PROVE  /\ \A k \in Keys : entries'[stack'[u][i].scope][k] # None =>
                           bornIn'[entries'[stack'[u][i].scope][k]] = stack'[u][i].life
                      /\ \A v \in Threads : \A j \in 1..Len(stack'[v]) :
                           stack'[v][j].scope = stack'[u][i].scope =>
                             stack'[v][j].life = stack'[u][i].life
    BY DEF OneLife
  <2>1. i \in 1..Len(stack[u]) /\ stack'[u][i] = stack[u][i]
    BY <1>5
  <2>2. ASSUME NEW v \in Threads, NEW j \in 1..Len(stack'[v]),
               stack'[v][j].scope = stack'[u][i].scope
        PROVE  stack'[v][j].life = stack'[u][i].life
    <3>1. j \in 1..Len(stack[v]) /\ stack'[v][j] = stack[v][j]
      BY <1>5
    <3> QED BY <2>1, <2>2, <3>1 DEF FlightInv, OneLife
  <2> QED BY <1>2, <2>1, <2>2 DEF FlightInv, OneLife
<1>13. HeldLife'
  BY <1>2, <1>5 DEF FlightInv, HeldLife
<1>14. CurrentLife'
  <2> SUFFICES ASSUME NEW c \in Devices, scopes'[c] # None
               PROVE  /\ \A k \in Keys : entries'[scopes'[c]][k] # None =>
                           /\ bornIn'[entries'[scopes'[c]][k]] = life'[c]
                           /\ outcome'[entries'[scopes'[c]][k]] # "failure"
                      /\ \A u \in Threads : \A i \in 1..Len(stack'[u]) :
                           stack'[u][i].scope = scopes'[c] => stack'[u][i].life = life'[c]
    BY DEF CurrentLife
  <2>1. scopes'[c] = scopes[c] /\ life'[c] = life[c] /\ scopes[c] # None
    BY <1>2, <1>7
  <2> QED BY <1>2, <1>5, <2>1 DEF FlightInv, CurrentLife
<1>15. RetiredUnscoped'
  <2>1. \A r \in retirements' : scopes'[r.device] = None
    BY <1>2 DEF FlightInv, RetiredUnscoped
  <2>2. ASSUME NEW u \in Threads, NEW i \in 1..Len(stack'[u]),
               stack'[u][i].pc \in {"detached", "retired"}
        PROVE  [owner |-> u, depth |-> i, device |-> stack'[u][i].device] \in retirements'
    <3>1. i \in 1..Len(stack[u]) /\ stack'[u][i] = stack[u][i] /\ ~(u = t /\ i = n)
      BY <1>5
    <3>2. [owner |-> u, depth |-> i, device |-> stack'[u][i].device] \in retirements
      BY <2>2, <3>1 DEF FlightInv, RetiredUnscoped
    <3>3. [owner |-> u, depth |-> i, device |-> stack'[u][i].device] # r0
      BY <3>1 DEF r0
    <3> QED BY <1>2, <3>2, <3>3
  <2> QED BY <2>1, <2>2 DEF RetiredUnscoped
<1> QED BY <1>9, <1>10, <1>11, <1>12, <1>13, <1>14, <1>15 DEF FlightInv

(* A new entry was held and mapped nowhere; it is mapped at an empty key   *)
(* and belongs to the life of the call that makes it.                      *)
LEMMA ProduceFlight ==
  ASSUME TypeOK, TypeOK', FlightInv, NEW t \in Threads, Produce(t)
  PROVE  FlightInv'
<1> DEFINE n == Len(stack[t])
           s == Top(t).scope
           k == Top(t).key
<1>1. /\ Depth(t) > 0 /\ n \in Nat /\ n \in 1..n
      /\ Top(t) = stack[t][n] /\ Top(t).pc = "lookup" /\ Found(t) = None
  BY TopFacts DEF Produce, At, Depth, TypeOK
<1>2. s \in Scopes /\ k \in Keys /\ s # None /\ entries[s][k] = None
  BY <1>1, TopScoped, NoneAssumption DEF Found
<1>3. PICK e \in Entries :
        /\ ~EntryAllocated(e)
        /\ entries' = [entries EXCEPT ![s][k] = e]
        /\ outcome' = [outcome EXCEPT ![e] = "pending"]
        /\ stack' = Changed(t, AsProducer(t, e))
        /\ bornIn' = [bornIn EXCEPT ![e] = Top(t).life]
  BY DEF Produce
<1>4. UNCHANGED <<scopes, retirements, life>>
  BY DEF Produce
<1> DEFINE f == AsProducer(t, e)
<1>5. /\ f \in Frame /\ f.pc = "creating" /\ f.entry = e /\ f.scope = s /\ f.key = k
      /\ f.device = Top(t).device /\ f.life = Top(t).life
  BY <1>1, AsProducerFacts
<1> HIDE DEF f
<1>6. /\ Len(stack'[t]) = n /\ stack'[t][n] = f
      /\ \A i \in 1..(n - 1) : stack'[t][i] = stack[t][i]
      /\ \A u \in Threads : u # t => stack'[u] = stack[u]
  BY <1>1, <1>3, <1>5, ChangeFacts DEF f
<1>7. ASSUME NEW u \in Threads, NEW i \in 1..Len(stack'[u])
      PROVE  /\ i \in 1..Len(stack[u])
             /\ ~(u = t /\ i = n) => stack'[u][i] = stack[u][i]
             /\ stack'[u][i].scope = stack[u][i].scope
             /\ stack'[u][i].life = stack[u][i].life
             /\ stack'[u][i].device = stack[u][i].device
  <2>1. CASE u = t /\ i = n
    BY <1>1, <1>5, <1>6, <2>1
  <2>2. CASE ~(u = t /\ i = n)
    <3>1. i \in 1..Len(stack[u]) /\ stack'[u][i] = stack[u][i]
      BY <1>1, <1>6, <2>2
    <3> QED BY <2>2, <3>1
  <2> QED BY <2>1, <2>2
<1>8. /\ \A a \in Scopes, l \in Keys :
           entries'[a][l] = IF a = s /\ l = k THEN e ELSE entries[a][l]
      /\ \A x \in Entries : outcome'[x] = IF x = e THEN "pending" ELSE outcome[x]
      /\ \A x \in Entries : bornIn'[x] = IF x = e THEN Top(t).life ELSE bornIn[x]
  BY <1>2, <1>3 DEF TypeOK
<1>9. ASSUME NEW a \in Scopes, NEW l \in Keys, ScopeAllocated(a)
      PROVE  entries[a][l] # e
  BY <1>3, <1>9 DEF EntryAllocated
<1>10. ASSUME NEW u \in Threads, NEW i \in 1..Len(stack[u])
       PROVE  stack[u][i].entry # e
  BY <1>3 DEF EntryAllocated, HeldByFrame, Depth
<1>11. ASSUME NEW u \in Threads, NEW i \in 1..Len(stack[u]), stack[u][i].scope # None
       PROVE  stack[u][i].scope \in Scopes /\ ScopeAllocated(stack[u][i].scope)
  BY <1>11, FrameTyped DEF ScopeAllocated, Depth
<1>12. \A a \in Scopes : ScopeAllocated(a)' => ScopeAllocated(a)
  BY <1>4, <1>7 DEF ScopeAllocated, Depth
<1>13. Top(t).life = stack[t][n].life /\ stack[t][n].scope = s /\ ScopeAllocated(s)
  BY <1>1, <1>2, <1>11
<1>21. \A a \in Scopes, l \in Keys : entries[a][l] \in Entries \cup {None}
  BY DEF TypeOK
<1> HIDE DEF n, s, k
<1>14. CreatingMapped'
  <2> SUFFICES ASSUME NEW u \in Threads, NEW i \in 1..Len(stack'[u]),
                      stack'[u][i].pc = "creating"
               PROVE  /\ entries'[stack'[u][i].scope][stack'[u][i].key] = stack'[u][i].entry
                      /\ outcome'[stack'[u][i].entry] = "pending"
    BY DEF CreatingMapped
  <2>1. CASE u = t /\ i = n
    BY <1>2, <1>5, <1>6, <1>8, <2>1
  <2>2. CASE ~(u = t /\ i = n)
    <3>1. i \in 1..Len(stack[u]) /\ stack'[u][i] = stack[u][i]
      BY <1>7, <2>2
    <3>2. /\ stack[u][i].scope \in Scopes /\ stack[u][i].key \in Keys
          /\ stack[u][i].entry \in Entries
      BY <3>1, FrameTyped DEF Holding, Producing
    <3>3. /\ entries[stack[u][i].scope][stack[u][i].key] = stack[u][i].entry
          /\ outcome[stack[u][i].entry] = "pending"
      BY <3>1 DEF FlightInv, CreatingMapped
    <3> QED BY <1>2, <1>8, <3>1, <3>2, <3>3, NoneAssumption
  <2> QED BY <2>1, <2>2
<1>15. MappedOnce'
  <2> SUFFICES ASSUME NEW a \in Scopes, NEW b \in Scopes, NEW l \in Keys, NEW m \in Keys,
                      ScopeAllocated(a)', ScopeAllocated(b)', entries'[a][l] # None,
                      entries'[a][l] = entries'[b][m]
               PROVE  a = b /\ l = m
    BY DEF MappedOnce
  <2>1. ScopeAllocated(a) /\ ScopeAllocated(b)
    BY <1>12
  <2>2. entries[a][l] # e /\ entries[b][m] # e
    BY <1>9, <2>1
  <2> QED BY <1>8, <2>1, <2>2 DEF FlightInv, MappedOnce
<1>16. ScopesDistinct'
  BY <1>4 DEF FlightInv, ScopesDistinct
<1>17. OneLife'
  <2> SUFFICES ASSUME NEW u \in Threads, NEW i \in 1..Len(stack'[u]),
                      stack'[u][i].scope # None
               PROVE  /\ \A l \in Keys : entries'[stack'[u][i].scope][l] # None =>
                           bornIn'[entries'[stack'[u][i].scope][l]] = stack'[u][i].life
                      /\ \A v \in Threads : \A j \in 1..Len(stack'[v]) :
                           stack'[v][j].scope = stack'[u][i].scope =>
                             stack'[v][j].life = stack'[u][i].life
    BY DEF OneLife
  <2>1. /\ i \in 1..Len(stack[u]) /\ stack'[u][i].scope = stack[u][i].scope
        /\ stack'[u][i].life = stack[u][i].life
    BY <1>7
  <2>2. ASSUME NEW v \in Threads, NEW j \in 1..Len(stack'[v]),
               stack'[v][j].scope = stack'[u][i].scope
        PROVE  stack'[v][j].life = stack'[u][i].life
    <3>1. /\ j \in 1..Len(stack[v]) /\ stack'[v][j].scope = stack[v][j].scope
          /\ stack'[v][j].life = stack[v][j].life
      BY <1>7
    <3>2. stack[u][i].scope # None /\ stack[v][j].scope = stack[u][i].scope
      BY <2>1, <2>2, <3>1
    <3>3. stack[v][j].life = stack[u][i].life
      BY <2>1, <3>1, <3>2 DEF FlightInv, OneLife
    <3> QED BY <2>1, <3>1, <3>3
  <2>3. ASSUME NEW l \in Keys, entries'[stack'[u][i].scope][l] # None
        PROVE  bornIn'[entries'[stack'[u][i].scope][l]] = stack'[u][i].life
    <3> DEFINE a == stack[u][i].scope
    <3>1. a \in Scopes /\ a # None /\ ScopeAllocated(a)
      BY <1>11, <2>1
    <3>2. CASE a = s /\ l = k
      <4>1. stack[u][i].life = Top(t).life
        BY <1>1, <1>2, <1>13, <2>1, <3>2 DEF FlightInv, OneLife, n
      <4> QED BY <1>8, <2>1, <3>1, <3>2, <4>1
    <3>3. CASE ~(a = s /\ l = k)
      <4>1. entries'[a][l] = entries[a][l] /\ entries[a][l] # e
        BY <1>8, <1>9, <3>1, <3>3
      <4>2. entries[a][l] # None /\ entries[a][l] \in Entries
        BY <1>21, <2>1, <2>3, <3>1, <4>1
      <4>3. bornIn[entries[a][l]] = stack[u][i].life
        BY <2>1, <3>1, <4>2 DEF FlightInv, OneLife
      <4> QED BY <1>8, <2>1, <4>1, <4>2, <4>3
    <3> QED BY <3>2, <3>3
  <2> QED BY <2>2, <2>3
<1>18. HeldLife'
  <2> SUFFICES ASSUME NEW u \in Threads, NEW i \in 1..Len(stack'[u]),
                      stack'[u][i].pc \in Holding
               PROVE  bornIn'[stack'[u][i].entry] = stack'[u][i].life
    BY DEF HeldLife
  <2>1. CASE u = t /\ i = n
    BY <1>5, <1>6, <1>8, <2>1
  <2>2. CASE ~(u = t /\ i = n)
    <3>1. i \in 1..Len(stack[u]) /\ stack'[u][i] = stack[u][i]
      BY <1>7, <2>2
    <3>2. stack[u][i].entry \in Entries /\ stack[u][i].entry # e
      BY <1>10, <3>1, FrameTyped
    <3> QED BY <1>8, <3>1, <3>2 DEF FlightInv, HeldLife
  <2> QED BY <2>1, <2>2
<1>19. CurrentLife'
  <2> SUFFICES ASSUME NEW d \in Devices, scopes[d] # None
               PROVE  /\ \A l \in Keys : entries'[scopes[d]][l] # None =>
                           /\ bornIn'[entries'[scopes[d]][l]] = life[d]
                           /\ outcome'[entries'[scopes[d]][l]] # "failure"
                      /\ \A u \in Threads : \A i \in 1..Len(stack'[u]) :
                           stack'[u][i].scope = scopes[d] => stack'[u][i].life = life[d]
    BY <1>4 DEF CurrentLife
  <2>1. scopes[d] \in Scopes /\ ScopeAllocated(scopes[d])
    BY DEF TypeOK, ScopeAllocated
  <2>2. ASSUME NEW l \in Keys, entries'[scopes[d]][l] # None
        PROVE  /\ bornIn'[entries'[scopes[d]][l]] = life[d]
               /\ outcome'[entries'[scopes[d]][l]] # "failure"
    <3>1. CASE scopes[d] = s /\ l = k
      <4>1. Top(t).life = life[d]
        BY <1>1, <1>13, <3>1 DEF FlightInv, CurrentLife, n
      <4> QED BY <1>8, <2>1, <3>1, <4>1
    <3>2. CASE ~(scopes[d] = s /\ l = k)
      <4>1. entries'[scopes[d]][l] = entries[scopes[d]][l] /\ entries[scopes[d]][l] # e
        BY <1>8, <1>9, <2>1, <3>2
      <4>2. entries[scopes[d]][l] # None /\ entries[scopes[d]][l] \in Entries
        BY <1>21, <2>1, <2>2, <4>1
      <4>3. /\ bornIn[entries[scopes[d]][l]] = life[d]
            /\ outcome[entries[scopes[d]][l]] # "failure"
        BY <4>2 DEF FlightInv, CurrentLife
      <4> QED BY <1>8, <4>1, <4>2, <4>3
    <3> QED BY <3>1, <3>2
  <2>3. ASSUME NEW u \in Threads, NEW i \in 1..Len(stack'[u]), stack'[u][i].scope = scopes[d]
        PROVE  stack'[u][i].life = life[d]
    <3>1. /\ i \in 1..Len(stack[u]) /\ stack'[u][i].scope = stack[u][i].scope
          /\ stack'[u][i].life = stack[u][i].life
      BY <1>7
    <3> QED BY <2>3, <3>1 DEF FlightInv, CurrentLife
  <2> QED BY <2>2, <2>3
<1>20. RetiredUnscoped'
  <2> SUFFICES ASSUME NEW u \in Threads, NEW i \in 1..Len(stack'[u]),
                      stack'[u][i].pc \in {"detached", "retired"}
               PROVE  [owner |-> u, depth |-> i, device |-> stack'[u][i].device]
                        \in retirements
    BY <1>4 DEF RetiredUnscoped, FlightInv
  <2>1. i \in 1..Len(stack[u]) /\ stack'[u][i] = stack[u][i]
    BY <1>5, <1>6, <1>7
  <2> QED BY <2>1 DEF FlightInv, RetiredUnscoped
<1> QED BY <1>14, <1>15, <1>16, <1>17, <1>18, <1>19, <1>20 DEF FlightInv

(* The creator of an entry publishes it; a failure is unmapped by the same *)
(* step.                                                                   *)
LEMMA PublishFlight ==
  ASSUME TypeOK, TypeOK', WaitInv, FlightInv, NEW t \in Threads,
         NEW o \in Outcome \ {"pending"}, Publish(t, o)
  PROVE  FlightInv'
<1> DEFINE n == Len(stack[t])
           e == Top(t).entry
           s == Top(t).scope
           k == Top(t).key
<1>1. /\ Depth(t) > 0 /\ n \in Nat /\ n \in 1..n
      /\ Top(t) = stack[t][n] /\ Top(t).pc = "creating"
  BY TopFacts DEF Publish, At, Depth, TypeOK
<1>2. "creating" \in Holding /\ "creating" \in Producing /\ "notify" \in PC
  BY DEF Holding, Producing, PC
<1>3. /\ s \in Scopes /\ k \in Keys /\ e \in Entries /\ s # None
      /\ stack[t][n].scope = s /\ stack[t][n].entry = e
  BY <1>1, <1>2, FrameTyped, NoneAssumption
<1>4. entries[s][k] = e
  BY <1>1 DEF FlightInv, CreatingMapped
<1>5. /\ outcome' = [outcome EXCEPT ![e] = o]
      /\ entries' = ErasedUnless(t, o)
      /\ stack' = Changed(t, AtEntry(t, "notify", e))
      /\ UNCHANGED <<scopes, retirements, life, bornIn>>
  BY DEF Publish, Goto
<1> DEFINE f == AtEntry(t, "notify", e)
<1>6. /\ f \in Frame /\ f.pc = "notify" /\ f.entry = e /\ f.scope = s /\ f.key = k
      /\ f.device = Top(t).device /\ f.life = Top(t).life
  BY <1>1, <1>2, <1>3, AtEntryFacts
<1> HIDE DEF f
<1>7. /\ Len(stack'[t]) = n /\ stack'[t][n] = f
      /\ \A i \in 1..(n - 1) : stack'[t][i] = stack[t][i]
      /\ \A u \in Threads : u # t => stack'[u] = stack[u]
  BY <1>1, <1>5, <1>6, ChangeFacts DEF f
<1>8. ASSUME NEW u \in Threads, NEW i \in 1..Len(stack'[u])
      PROVE  /\ i \in 1..Len(stack[u])
             /\ ~(u = t /\ i = n) => stack'[u][i] = stack[u][i]
             /\ stack'[u][i].scope = stack[u][i].scope
             /\ stack'[u][i].life = stack[u][i].life
             /\ stack'[u][i].entry = stack[u][i].entry
  <2>1. CASE u = t /\ i = n
    BY <1>1, <1>6, <1>7, <2>1
  <2>2. CASE ~(u = t /\ i = n)
    <3>1. i \in 1..Len(stack[u]) /\ stack'[u][i] = stack[u][i]
      BY <1>1, <1>7, <2>2
    <3> QED BY <2>2, <3>1
  <2> QED BY <2>1, <2>2
<1>9. /\ \A a \in Scopes, l \in Keys :
           entries'[a][l] = IF a = s /\ l = k
                            THEN (IF o = "success" THEN e ELSE None) ELSE entries[a][l]
      /\ \A x \in Entries : outcome'[x] = IF x = e THEN o ELSE outcome[x]
  <2> DEFINE new == IF o # "success" /\ entries[s][k] = e THEN None ELSE entries[s][k]
  <2>1. entries' = [entries EXCEPT ![s][k] = new]
    BY <1>5 DEF ErasedUnless
  <2>2. new = IF o = "success" THEN e ELSE None
    BY <1>4
  <2> HIDE DEF new
  <2> QED BY <1>3, <1>5, <2>1, <2>2 DEF TypeOK
<1>10. ScopeAllocated(s)
  BY <1>1 DEF ScopeAllocated, Depth
<1>11. \A a \in Scopes : ScopeAllocated(a)' => ScopeAllocated(a)
  BY <1>5, <1>8 DEF ScopeAllocated, Depth
<1>12. ASSUME NEW a \in Scopes, NEW l \in Keys, ScopeAllocated(a), ~(a = s /\ l = k)
       PROVE  entries[a][l] # e
  <2>1. entries[s][k] # None
    BY <1>3, <1>4, NoneAssumption
  <2> QED BY <1>3, <1>4, <1>10, <1>12, <2>1 DEF FlightInv, MappedOnce
<1>13. ASSUME NEW a \in Scopes, NEW l \in Keys, entries'[a][l] # None
       PROVE  entries'[a][l] = entries[a][l]
  BY <1>4, <1>9, <1>13
<1> HIDE DEF n, e, s, k
<1>14. CreatingMapped'
  <2> SUFFICES ASSUME NEW u \in Threads, NEW i \in 1..Len(stack'[u]),
                      stack'[u][i].pc = "creating"
               PROVE  /\ entries'[stack'[u][i].scope][stack'[u][i].key] = stack'[u][i].entry
                      /\ outcome'[stack'[u][i].entry] = "pending"
    BY DEF CreatingMapped
  <2>1. ~(u = t /\ i = n)
    BY <1>6, <1>7
  <2>2. i \in 1..Len(stack[u]) /\ stack'[u][i] = stack[u][i]
    BY <1>8, <2>1
  <2>3. /\ stack[u][i].scope \in Scopes /\ stack[u][i].key \in Keys
        /\ stack[u][i].entry \in Entries
    BY <1>2, <2>2, FrameTyped
  <2>4. stack[u][i].entry # e
    BY <1>1, <1>2, <1>3, <2>1, <2>2
       DEF WaitInv, StackInv, OneProducerPerEntry, IsProducing, Depth, n
  <2>5. /\ entries[stack[u][i].scope][stack[u][i].key] = stack[u][i].entry
        /\ outcome[stack[u][i].entry] = "pending"
    BY <2>2 DEF FlightInv, CreatingMapped
  <2> QED BY <1>4, <1>9, <2>2, <2>3, <2>4, <2>5
<1>15. MappedOnce'
  BY <1>11, <1>13 DEF FlightInv, MappedOnce
<1>16. ScopesDistinct'
  BY <1>5 DEF FlightInv, ScopesDistinct
<1>17. OneLife'
  <2> SUFFICES ASSUME NEW u \in Threads, NEW i \in 1..Len(stack'[u]),
                      stack'[u][i].scope # None
               PROVE  /\ \A l \in Keys : entries'[stack'[u][i].scope][l] # None =>
                           bornIn'[entries'[stack'[u][i].scope][l]] = stack'[u][i].life
                      /\ \A v \in Threads : \A j \in 1..Len(stack'[v]) :
                           stack'[v][j].scope = stack'[u][i].scope =>
                             stack'[v][j].life = stack'[u][i].life
    BY DEF OneLife
  <2>1. /\ i \in 1..Len(stack[u]) /\ stack'[u][i].scope = stack[u][i].scope
        /\ stack'[u][i].life = stack[u][i].life /\ stack[u][i].scope # None
    BY <1>8
  <2>2. ASSUME NEW v \in Threads, NEW j \in 1..Len(stack'[v]),
               stack'[v][j].scope = stack'[u][i].scope
        PROVE  stack'[v][j].life = stack'[u][i].life
    <3>1. /\ j \in 1..Len(stack[v]) /\ stack'[v][j].scope = stack[v][j].scope
          /\ stack'[v][j].life = stack[v][j].life
      BY <1>8
    <3>2. stack[v][j].scope = stack[u][i].scope
      BY <2>1, <2>2, <3>1
    <3>3. stack[v][j].life = stack[u][i].life
      BY <2>1, <3>1, <3>2 DEF FlightInv, OneLife
    <3> QED BY <2>1, <3>1, <3>3
  <2>3. ASSUME NEW l \in Keys, entries'[stack'[u][i].scope][l] # None
        PROVE  bornIn'[entries'[stack'[u][i].scope][l]] = stack'[u][i].life
    <3>1. stack[u][i].scope \in Scopes
      BY <2>1, FrameTyped
    <3>2. entries'[stack[u][i].scope][l] = entries[stack[u][i].scope][l]
      BY <1>13, <2>1, <2>3, <3>1
    <3> QED BY <1>5, <2>1, <2>3, <3>2 DEF FlightInv, OneLife
  <2> QED BY <2>2, <2>3
<1>18. HeldLife'
  <2> SUFFICES ASSUME NEW u \in Threads, NEW i \in 1..Len(stack'[u]),
                      stack'[u][i].pc \in Holding
               PROVE  bornIn'[stack'[u][i].entry] = stack'[u][i].life
    BY DEF HeldLife
  <2>1. /\ i \in 1..Len(stack[u]) /\ stack'[u][i].entry = stack[u][i].entry
        /\ stack'[u][i].life = stack[u][i].life
    BY <1>8
  <2>2. stack[u][i].pc \in Holding
    BY <1>1, <1>2, <1>8 DEF n
  <2> QED BY <1>5, <2>1, <2>2 DEF FlightInv, HeldLife
<1>19. CurrentLife'
  <2> SUFFICES ASSUME NEW d \in Devices, scopes[d] # None
               PROVE  /\ \A l \in Keys : entries'[scopes[d]][l] # None =>
                           /\ bornIn'[entries'[scopes[d]][l]] = life[d]
                           /\ outcome'[entries'[scopes[d]][l]] # "failure"
                      /\ \A u \in Threads : \A i \in 1..Len(stack'[u]) :
                           stack'[u][i].scope = scopes[d] => stack'[u][i].life = life[d]
    BY <1>5 DEF CurrentLife
  <2>1. scopes[d] \in Scopes /\ ScopeAllocated(scopes[d])
    BY DEF TypeOK, ScopeAllocated
  <2>2. ASSUME NEW l \in Keys, entries'[scopes[d]][l] # None
        PROVE  /\ bornIn'[entries'[scopes[d]][l]] = life[d]
               /\ outcome'[entries'[scopes[d]][l]] # "failure"
    <3>1. entries'[scopes[d]][l] = entries[scopes[d]][l]
      BY <1>13, <2>1, <2>2
    <3>2. /\ bornIn[entries[scopes[d]][l]] = life[d]
          /\ outcome[entries[scopes[d]][l]] # "failure"
          /\ entries[scopes[d]][l] \in Entries
      BY <2>1, <2>2, <3>1 DEF FlightInv, CurrentLife, TypeOK
    <3>3. CASE scopes[d] = s /\ l = k
      <4>1. o = "success"
        BY <1>9, <2>1, <2>2, <3>3
      <4> QED BY <1>5, <1>9, <3>1, <3>2, <4>1
    <3>4. CASE ~(scopes[d] = s /\ l = k)
      <4>1. entries[scopes[d]][l] # e
        BY <1>12, <2>1, <3>4
      <4> QED BY <1>5, <1>9, <3>1, <3>2, <4>1
    <3> QED BY <3>3, <3>4
  <2>3. ASSUME NEW u \in Threads, NEW i \in 1..Len(stack'[u]), stack'[u][i].scope = scopes[d]
        PROVE  stack'[u][i].life = life[d]
    <3>1. /\ i \in 1..Len(stack[u]) /\ stack'[u][i].scope = stack[u][i].scope
          /\ stack'[u][i].life = stack[u][i].life
      BY <1>8
    <3> QED BY <2>3, <3>1 DEF FlightInv, CurrentLife
  <2> QED BY <2>2, <2>3
<1>20. RetiredUnscoped'
  <2> SUFFICES ASSUME NEW u \in Threads, NEW i \in 1..Len(stack'[u]),
                      stack'[u][i].pc \in {"detached", "retired"}
               PROVE  [owner |-> u, depth |-> i, device |-> stack'[u][i].device]
                        \in retirements
    BY <1>5 DEF RetiredUnscoped, FlightInv
  <2>1. i \in 1..Len(stack[u]) /\ stack'[u][i] = stack[u][i]
    BY <1>6, <1>7, <1>8
  <2> QED BY <2>1 DEF FlightInv, RetiredUnscoped
<1> QED BY <1>14, <1>15, <1>16, <1>17, <1>18, <1>19, <1>20 DEF FlightInv

-----------------------------------------------------------------------------
(* The invariant, and what follows from it. *)

(* The invariant holds of the empty cache. *)
LEMMA FlightInit == Init => FlightInv
<1> SUFFICES ASSUME Init PROVE FlightInv
  OBVIOUS
<1>1. \A t \in Threads : stack[t] = <<>> /\ Len(stack[t]) = 0
  BY DEF Init
<1>2. \A s \in Scopes, k \in Keys : entries[s][k] = None
  BY DEF Init, NoEntries
<1>3. (\A d \in Devices : scopes[d] = None) /\ retirements = {}
  BY DEF Init
<1> QED BY <1>1, <1>2, <1>3 DEF FlightInv, CreatingMapped, MappedOnce, ScopesDistinct,
           OneLife, HeldLife, CurrentLife, RetiredUnscoped

(* Every step of every thread preserves the invariant. *)
LEMMA FlightStep == TypeOK /\ TypeOK' /\ WaitInv /\ FlightInv /\ [Next]_vars => FlightInv'
<1> SUFFICES ASSUME TypeOK, TypeOK', WaitInv, FlightInv, [Next]_vars PROVE FlightInv'
  OBVIOUS
<1>1. ASSUME NEW t \in Threads, Call(t) PROVE FlightInv'
  <2>1. ASSUME NEW d \in Devices, NEW k \in Keys,
               ScopeRefused(t, d, k) \/ ScopeFound(t, d, k) \/ ScopeAllocFails(t, d, k)
        PROVE  FlightInv'
    <3>1. UNCHANGED <<scopes, retirements, entries, outcome, life, bornIn>>
      BY <2>1 DEF ScopeRefused, ScopeFound, ScopeAllocFails
    <3> QED BY <2>1, <3>1, FoundQuiet, QuietFlight
  <2> QED BY <1>1, <2>1, ScopeCreatedFlight DEF Call
<1>2. ASSUME NEW t \in Destroyers, Retire(t) PROVE FlightInv'
  BY <1>2, DetachFlight, DestroyerAssumption DEF Retire
<1>3. ASSUME NEW t \in Threads,
             EntryAllocFails(t) \/ WaitForProducer(t) \/ BypassCycle(t) \/ ReleaseForgotten(t)
      PROVE  FlightInv'
  <2>1. UNCHANGED <<scopes, retirements, entries, outcome, life, bornIn>>
    BY <1>3 DEF EntryAllocFails, WaitForProducer, BypassCycle, ReleaseForgotten
  <2> QED BY <1>3, <2>1, MovedQuiet, QuietFlight
<1>4. ASSUME NEW t \in Threads,
             Hit(t) \/ Resume(t) \/ Leave(t) \/ DirectReturns(t) \/ ForgetReturns(t)
      PROVE  FlightInv'
  <2>1. UNCHANGED <<scopes, retirements, entries, outcome, life, bornIn>>
    BY <1>4 DEF Hit, Resume, Leave, DirectReturns, ForgetReturns
  <2>2. Depth(t) > 0 /\ stack' = Popped(t)
    BY <1>4 DEF Hit, Resume, Leave, DirectReturns, ForgetReturns, At
  <2> QED BY <2>1, <2>2, PopQuiet, QuietFlight
<1>5. ASSUME NEW t \in Threads, NotifyAll(t)
      PROVE  FlightInv'
  <2>1. UNCHANGED <<scopes, retirements, entries, outcome, life, bornIn>>
    BY <1>5 DEF NotifyAll
  <2> QED BY <1>5, <2>1, NotifyQuiet, QuietFlight
<1>6. ASSUME NEW t \in Threads, Step(t) PROVE FlightInv'
  BY <1>3, <1>4, <1>5, <1>6, ProduceFlight DEF Step, Lookup
<1>7. ASSUME NEW t \in Threads, CreateReturns(t) PROVE FlightInv'
  BY <1>3, <1>4, <1>7, PublishFlight, EndRetirementFlight DEF CreateReturns
<1>8. CASE UNCHANGED vars
  BY <1>8 DEF vars, FlightInv, CreatingMapped, MappedOnce, ScopesDistinct, OneLife,
     HeldLife, CurrentLife, RetiredUnscoped, ScopeAllocated, Depth
<1> QED BY <1>1, <1>2, <1>6, <1>7, <1>8 DEF Next

(* The invariant holds always. *)
LEMMA FlightAlways == Spec => []FlightInv
BY FlightInit, FlightStep, TypeCorrect, WaitInvariant, PTL DEF Spec

(* Two creations through the cache for one scope and key never overlap:    *)
(* both would be the producer of the entry mapped there.                   *)
THEOREM CreationsNeverOverlap == Spec => []SingleFlight
<1>1. TypeOK /\ WaitInv /\ FlightInv => SingleFlight
  <2> SUFFICES ASSUME TypeOK, WaitInv, FlightInv, NEW t \in Threads, NEW u \in Threads,
                      NEW i \in 1..Depth(t), NEW j \in 1..Depth(u),
                      stack[t][i].pc = "creating", stack[u][j].pc = "creating",
                      stack[t][i].scope = stack[u][j].scope,
                      stack[t][i].key = stack[u][j].key
               PROVE  t = u /\ i = j
    BY DEF SingleFlight
  <2>1. stack[t][i].entry = stack[u][j].entry
    BY DEF FlightInv, CreatingMapped, Depth
  <2>2. "creating" \in Producing
    BY DEF Producing
  <2> QED BY <2>1, <2>2 DEF WaitInv, StackInv, OneProducerPerEntry, IsProducing
<1> QED BY <1>1, TypeCorrect, WaitInvariant, FlightAlways, PTL

(* A pipeline made for one life of a device address is never found or      *)
(* awaited by a call of another life, whatever scopes are reused.          *)
THEOREM LivesIsolated == Spec => []LifeIsolation
<1>1. TypeOK /\ FlightInv => LifeIsolation
  <2> SUFFICES ASSUME TypeOK, FlightInv, NEW t \in Threads, NEW i \in 1..Depth(t)
               PROVE  /\ stack[t][i].pc = "lookup" =>
                           \A k \in Keys : entries[stack[t][i].scope][k] # None =>
                             bornIn[entries[stack[t][i].scope][k]] = stack[t][i].life
                      /\ stack[t][i].pc \in {"asleep", "awake"} =>
                           bornIn[stack[t][i].entry] = stack[t][i].life
    BY DEF LifeIsolation
  <2>1. i \in 1..Len(stack[t])
    BY DEF Depth
  <2>2. stack[t][i].pc = "lookup" => stack[t][i].scope # None
    BY <2>1, FrameTyped, NoneAssumption
  <2>3. {"asleep", "awake"} \subseteq Holding
    BY DEF Holding
  <2> QED BY <2>1, <2>2, <2>3 DEF FlightInv, OneLife, HeldLife
<1> QED BY <1>1, TypeCorrect, FlightAlways, PTL

-----------------------------------------------------------------------------
(* The raw pointers of the wait graph. *)

(* In the calls q of a thread with active producer a, frame i produces e   *)
(* and frame j accounts for e's pointer to w: it produces w nested in e,   *)
(* or waits for w on behalf of e.                                          *)
Waits == {"asleep", "awake"}
Accounts(q, a, i, j, e, w) ==
  /\ q[i].pc \in Producing /\ q[i].entry = e
  /\ q[j].entry = w
  /\ \/ q[j].pc \in Producing /\ q[j].previous = e
     \/ q[j].pc \in Waits /\ a = e

LinksHeld ==
  \A e \in Entries : waitingOn[e] # None =>
    \E t \in Threads : \E j \in 1..Len(stack[t]) : \E i \in 1..(j - 1) :
      Accounts(stack[t], activeProducer[t], i, j, e, waitingOn[e])

(* Frame g holds what f held, in the same role. *)
SameHold(g, f) ==
  /\ g.entry = f.entry /\ g.previous = f.previous
  /\ f.pc \in Producing => g.pc \in Producing
  /\ f.pc \in Waits => g.pc \in Waits

HeldKept(u, j) ==
  j \in 1..Len(stack'[u]) /\ SameHold(stack'[u][j], stack[u][j])

(* A pointer survives while both its frames do. *)
LEMMA AccountKept ==
  ASSUME NEW u \in Threads, NEW i, NEW j, NEW e, NEW w,
         Accounts(stack[u], activeProducer[u], i, j, e, w),
         HeldKept(u, i), HeldKept(u, j),
         activeProducer'[u] = activeProducer[u] \/ stack[u][j].pc \notin Waits
  PROVE  Accounts(stack'[u], activeProducer'[u], i, j, e, w)
BY DEF Accounts, HeldKept, SameHold

(* Links survive a step that keeps the calls that hold entries. *)
LEMMA LinksKept ==
  ASSUME TypeOK, LinksHeld, UNCHANGED <<waitingOn, activeProducer>>,
         \A u \in Threads : \A j \in 1..Len(stack[u]) :
           stack[u][j].pc \in Holding => HeldKept(u, j)
  PROVE  LinksHeld'
<1> SUFFICES ASSUME NEW e \in Entries, waitingOn'[e] # None
             PROVE  \E t \in Threads : \E j \in 1..Len(stack'[t]) : \E i \in 1..(j - 1) :
                      Accounts(stack'[t], activeProducer'[t], i, j, e, waitingOn'[e])
  BY DEF LinksHeld
<1>1. PICK t \in Threads : \E j \in 1..Len(stack[t]) : \E i \in 1..(j - 1) :
        Accounts(stack[t], activeProducer[t], i, j, e, waitingOn[e])
  BY DEF LinksHeld
<1>7. PICK j \in 1..Len(stack[t]) : \E i \in 1..(j - 1) :
        Accounts(stack[t], activeProducer[t], i, j, e, waitingOn[e])
  BY <1>1
<1>2. PICK i \in 1..(j - 1) :
        Accounts(stack[t], activeProducer[t], i, j, e, waitingOn[e])
  BY <1>7
<1>3. i \in 1..Len(stack[t]) /\ Len(stack[t]) \in Nat
  BY DEF TypeOK
<1>4. stack[t][i].pc \in Holding /\ stack[t][j].pc \in Holding
  BY <1>2 DEF Accounts, Holding, Waits
<1>5. HeldKept(t, i) /\ HeldKept(t, j)
  BY <1>3, <1>4
<1>6. Accounts(stack'[t], activeProducer'[t], i, j, e, waitingOn[e])
  BY <1>2, <1>5, AccountKept
<1> QED BY <1>5, <1>6 DEF HeldKept

(* The stack operations that touch no frame that holds an entry. *)
LEMMA PushHolds ==
  ASSUME TypeOK, NEW t \in Threads, NEW f \in Frame, stack' = Pushed(t, f)
  PROVE  \A u \in Threads : \A j \in 1..Len(stack[u]) : HeldKept(u, j)
<1>1. /\ Len(stack'[t]) = Len(stack[t]) + 1
      /\ \A i \in 1..Len(stack[t]) : stack'[t][i] = stack[t][i]
      /\ \A u \in Threads : u # t => stack'[u] = stack[u]
  BY PushFacts
<1>2. Len(stack[t]) \in Nat
  BY DEF TypeOK
<1> QED BY <1>1, <1>2 DEF HeldKept, SameHold

(* A call that returns keeps the calls below it. *)
LEMMA PopHolds ==
  ASSUME TypeOK, NEW t \in Threads, Depth(t) > 0, stack' = Popped(t)
  PROVE  \A u \in Threads : \A j \in 1..Len(stack[u]) :
           u # t \/ j # Len(stack[t]) => HeldKept(u, j)
<1>1. /\ Len(stack'[t]) = Len(stack[t]) - 1
      /\ \A i \in 1..(Len(stack[t]) - 1) : stack'[t][i] = stack[t][i]
      /\ \A u \in Threads : u # t => stack'[u] = stack[u]
  BY PopFacts
<1>2. Len(stack[t]) \in Nat
  BY DEF TypeOK
<1> QED BY <1>1, <1>2 DEF HeldKept, SameHold

(* A call that goes on keeps all others, and itself if it holds on. *)
LEMMA ChangeHolds ==
  ASSUME TypeOK, NEW t \in Threads, NEW f \in Frame, Depth(t) > 0,
         stack' = Changed(t, f)
  PROVE  \A u \in Threads : \A j \in 1..Len(stack[u]) :
           u # t \/ j # Len(stack[t]) \/ SameHold(f, Top(t)) => HeldKept(u, j)
<1>1. /\ Len(stack'[t]) = Len(stack[t])
      /\ stack'[t][Len(stack[t])] = f
      /\ \A i \in 1..(Len(stack[t]) - 1) : stack'[t][i] = stack[t][i]
      /\ \A u \in Threads : u # t => stack'[u] = stack[u]
  BY ChangeFacts
<1>2. Len(stack[t]) \in Nat /\ Top(t) = stack[t][Len(stack[t])]
  BY TopFacts DEF TypeOK
<1> SUFFICES ASSUME NEW u \in Threads, NEW j \in 1..Len(stack[u]),
                    u # t \/ j # Len(stack[t]) \/ SameHold(f, Top(t))
             PROVE  HeldKept(u, j)
  OBVIOUS
<1>3. CASE u = t /\ j = Len(stack[t])
  BY <1>1, <1>2, <1>3 DEF HeldKept
<1>4. CASE ~(u = t /\ j = Len(stack[t]))
  <2>1. j \in 1..Len(stack'[u]) /\ stack'[u][j] = stack[u][j]
    BY <1>1, <1>2, <1>4
  <2> QED BY <2>1 DEF HeldKept, SameHold
<1> QED BY <1>3, <1>4

(* Calls, lookups without a new link, returns of foreign code. *)
LEMMA CallLinks ==
  ASSUME TypeOK, LinksHeld, NEW t \in Threads, Call(t) \/ Retire(t)
  PROVE  LinksHeld'
<1>1. UNCHANGED <<waitingOn, activeProducer>>
  BY DEF Call, Retire, ScopeRefused, ScopeFound, ScopeCreated, ScopeAllocFails,
         ForgetDevice, WithDeviceRetired
<1>2. \E f \in Frame : stack' = Pushed(t, f)
  <2>1. {"direct", "lookup", "forgetting", "detached"} \subseteq PC \ Holding
    BY DEF PC, Foreign, Holding, Producing
  <2>2. PICK pc \in PC \ Holding, d \in Devices, k \in Keys \cup {None},
             s \in Scopes \cup {None} :
               /\ pc = "lookup" => k \in Keys /\ s \in Scopes
               /\ stack' = Pushed(t, NewFrame(pc, d, k, s))
    BY <2>1 DEF Call, Retire, ScopeRefused, ScopeFound, ScopeCreated, ScopeAllocFails,
                ForgetDevice, WithDeviceRetired, TypeOK
  <2>3. NewFrame(pc, d, k, s) \in Frame
    BY <2>2, NewFrameType
  <2> QED BY <2>2, <2>3
<1> QED BY <1>1, <1>2, PushHolds, LinksKept

(* Returns of calls that hold no entry. *)
LEMMA ReturnLinks ==
  ASSUME TypeOK, LinksHeld, NEW t \in Threads,
         Hit(t) \/ DirectReturns(t) \/ ForgetReturns(t) \/ EndRetirement(t)
  PROVE  LinksHeld'
<1>1. UNCHANGED <<waitingOn, activeProducer>>
  BY DEF Hit, DirectReturns, ForgetReturns, EndRetirement
<1>2. /\ Depth(t) > 0 /\ stack' = Popped(t)
      /\ Top(t).pc \in {"lookup", "direct", "forgetting", "retired"}
  BY DEF Hit, DirectReturns, ForgetReturns, EndRetirement, At
<1>3. Top(t) = stack[t][Len(stack[t])] /\ Top(t).pc \notin Holding
  BY <1>2, TopFacts DEF Holding, Producing
<1> QED BY <1>1, <1>2, <1>3, PopHolds, LinksKept

(* Calls that go on to run create() without an entry. *)
LEMMA MovedLinks ==
  ASSUME TypeOK, LinksHeld, NEW t \in Threads,
         EntryAllocFails(t) \/ BypassCycle(t) \/ ReleaseForgotten(t)
  PROVE  LinksHeld'
<1>1. UNCHANGED <<waitingOn, activeProducer>>
  BY DEF EntryAllocFails, BypassCycle, ReleaseForgotten
<1>2. Depth(t) > 0 /\ Top(t).pc \in {"lookup", "detached"}
  BY DEF EntryAllocFails, BypassCycle, ReleaseForgotten, At
<1>3. Top(t) = stack[t][Len(stack[t])] /\ Top(t).pc \notin Holding
  BY <1>2, TopFacts DEF Holding, Producing
<1>4. \E f \in Frame : stack' = Changed(t, f)
  <2>1. "direct" \in PC /\ "direct" \notin Holding \cup {"lookup"}
    BY DEF PC, Foreign, Holding, Producing
  <2>2. CASE EntryAllocFails(t)
    <3>1. Top(t).entry \in Entries \cup {None}
      BY <1>2, TopFacts DEF Frame, Locals
    <3> QED BY <1>2, <2>1, <2>2, <3>1, AtEntryFacts DEF EntryAllocFails, Goto
  <2>3. CASE BypassCycle(t)
    <3>1. Top(t).scope \in Scopes /\ Top(t).key \in Keys
      BY <1>2, <2>3, TopScoped DEF BypassCycle, At
    <3>2. Found(t) \in Entries \cup {None}
      BY <3>1 DEF Found, TypeOK
    <3> QED BY <1>2, <2>1, <2>3, <3>2, AtEntryFacts DEF BypassCycle, GotoEntry
  <2>4. CASE ReleaseForgotten(t)
    BY <1>2, <2>4, UnscopedFacts DEF ReleaseForgotten
  <2> QED BY <2>2, <2>3, <2>4
<1> QED BY <1>1, <1>2, <1>3, <1>4, ChangeHolds, LinksKept

(* Publication keeps the producer and its entry. *)
LEMMA PublishLinks ==
  ASSUME TypeOK, LinksHeld, NEW t \in Threads, NEW o, Publish(t, o)
  PROVE  LinksHeld'
<1>1. UNCHANGED <<waitingOn, activeProducer>>
  BY DEF Publish
<1>2. /\ Depth(t) > 0 /\ Top(t).pc = "creating"
      /\ stack' = Changed(t, AtEntry(t, "notify", Top(t).entry))
  BY DEF Publish, At, Goto
<1>3. {"creating", "notify"} \subseteq Producing /\ Producing \subseteq Holding
        /\ "notify" \in PC
  BY DEF Holding, Producing, PC
<1>4. Top(t).scope \in Scopes /\ Top(t).key \in Keys /\ Top(t).entry \in Entries
  BY <1>2, <1>3, TopFacts DEF Frame
<1> DEFINE f == AtEntry(t, "notify", Top(t).entry)
<1>5. /\ f \in Frame /\ f.pc = "notify" /\ f.entry = Top(t).entry
      /\ f.previous = Top(t).previous
  BY <1>2, <1>3, <1>4, AtEntryFacts
<1> HIDE DEF f
<1>6. SameHold(f, Top(t))
  BY <1>2, <1>3, <1>5 DEF SameHold, Waits
<1> QED BY <1>1, <1>2, <1>5, <1>6, ChangeHolds, LinksKept DEF f

(* Notified calls hold what they held. *)
LEMMA NotifyLinks ==
  ASSUME TypeOK, LinksHeld, NEW t \in Threads, NotifyAll(t)
  PROVE  LinksHeld'
<1>1. UNCHANGED <<waitingOn, activeProducer>>
  BY DEF NotifyAll
<1>2. ASSUME NEW u \in Threads, NEW j \in 1..Len(stack[u])
      PROVE  HeldKept(u, j)
  <2>1. /\ Len(stack[u]) \in Nat
        /\ stack'[u] = [i \in 1..Len(stack[u]) |-> Notified(t, stack[u][i])]
    BY DEF NotifyAll, Depth, TypeOK
  <2>2. Len(stack'[u]) = Len(stack[u]) /\ stack'[u][j] = Notified(t, stack[u][j])
    BY <2>1
  <2>3. stack[u][j] \in Frame
    BY DEF TypeOK
  <2> DEFINE f == stack[u][j]
             g == Notified(t, f)
  <2>4. /\ g.entry = f.entry /\ g.previous = f.previous
        /\ g.pc = IF f.entry = Top(t).entry /\ f.pc = "asleep" THEN "awake"
                  ELSE IF f.entry = Top(t).entry /\ f.pc = "notify" THEN "leave"
                  ELSE f.pc
    BY <2>3, NotifiedFacts
  <2> HIDE DEF f, g
  <2>5. SameHold(g, f)
    BY <2>4 DEF SameHold, Waits, Producing
  <2> QED BY <2>2, <2>5 DEF HeldKept, f, g
<1> QED BY <1>1, <1>2, LinksKept

(* The frame of the active producer is below a top that does not produce. *)
LEMMA ActiveBelow ==
  ASSUME TypeOK, WaitInv, NEW t \in Threads, Depth(t) > 0, Top(t).pc \notin Producing,
         activeProducer[t] # None
  PROVE  \E i \in 1..(Len(stack[t]) - 1) :
           stack[t][i].pc \in Producing /\ stack[t][i].entry = activeProducer[t]
<1>1. PICK i \in 1..Len(stack[t]) :
        stack[t][i].pc \in Producing /\ stack[t][i].entry = activeProducer[t]
  BY DEF WaitInv, StackInv, ActiveIsProducing, IsProducing, Depth
<1>2. Top(t) = stack[t][Len(stack[t])] /\ Len(stack[t]) \in Nat
  BY TopFacts DEF TypeOK
<1>3. i \in 1..(Len(stack[t]) - 1)
  BY <1>1, <1>2
<1> QED BY <1>1, <1>3

(* Nothing below the top waits. *)
LEMMA WaitsOnTop ==
  ASSUME TypeOK, WaitInv, NEW t \in Threads, NEW j \in 1..Len(stack[t]),
         stack[t][j].pc \in Waits
  PROVE  j = Len(stack[t])
<1>1. Len(stack[t]) \in Nat
  BY DEF TypeOK
<1>2. stack[t][j].pc \notin Foreign
  BY DEF Waits, Foreign
<1>3. j \notin 1..(Len(stack[t]) - 1)
  BY <1>2 DEF WaitInv, StackInv, ForeignBelowTop, Depth
<1> QED BY <1>1, <1>3

(* A new waiter holds the entry its producer is linked to. *)
LEMMA WaitLinks ==
  ASSUME TypeOK, TypeOK', WaitInv, LinksHeld, NEW t \in Threads, WaitForProducer(t)
  PROVE  LinksHeld'
<1> DEFINE n == Len(stack[t])
           a == activeProducer[t]
           w == Found(t)
<1>1. Depth(t) > 0 /\ Top(t).pc = "lookup" /\ w # None
  BY DEF WaitForProducer, At
<1>2. Top(t).scope \in Scopes /\ Top(t).key \in Keys
  BY <1>1, TopScoped
<1>3. w \in Entries
  BY <1>1, <1>2 DEF Found, TypeOK
<1>4. /\ stack' = Changed(t, AtEntry(t, "asleep", w)) /\ activeProducer' = activeProducer
      /\ \A x \in Entries : waitingOn'[x] = IF x = a THEN w ELSE waitingOn[x]
  BY DEF WaitForProducer, GotoEntry
<1>5. "lookup" \notin Holding /\ "asleep" \in PC /\ "asleep" \in Holding
  BY DEF PC, Holding, Producing
<1> DEFINE f == AtEntry(t, "asleep", w)
<1>6. f \in Frame /\ f.pc = "asleep" /\ f.entry = w
  BY <1>1, <1>2, <1>3, <1>5, AtEntryFacts
<1> HIDE DEF f
<1>7. n \in Nat /\ n \in 1..n /\ Top(t) = stack[t][n]
  BY <1>1, TopFacts DEF TypeOK, Depth
<1>8. Len(stack'[t]) = n /\ stack'[t][n] = f
        /\ \A i \in 1..(n - 1) : stack'[t][i] = stack[t][i]
  BY <1>1, <1>4, <1>6, ChangeFacts DEF f
<1>9. \A u \in Threads : \A j \in 1..Len(stack[u]) :
        stack[u][j].pc \in Holding => HeldKept(u, j)
  BY <1>1, <1>4, <1>5, <1>6, <1>7, ChangeHolds DEF f
<1> HIDE DEF n, a, w
<1> SUFFICES ASSUME NEW e \in Entries, waitingOn'[e] # None
             PROVE  \E u \in Threads : \E j \in 1..Len(stack'[u]) : \E i \in 1..(j - 1) :
                      Accounts(stack'[u], activeProducer'[u], i, j, e, waitingOn'[e])
  BY DEF LinksHeld
<1>10. CASE e = a
  <2>1. PICK i \in 1..(n - 1) : stack[t][i].pc \in Producing /\ stack[t][i].entry = e
    BY <1>1, <1>5, <1>10, ActiveBelow, NoneAssumption DEF n, a, Holding
  <2>2. stack'[t][i] = stack[t][i] /\ n \in 1..Len(stack'[t])
    BY <1>7, <1>8
  <2>3. Accounts(stack'[t], activeProducer'[t], i, n, e, waitingOn'[e])
    BY <1>4, <1>6, <1>8, <1>10, <2>1, <2>2 DEF Accounts, Waits, a
  <2> QED BY <2>2, <2>3
<1>11. CASE e # a
  <2>1. waitingOn'[e] = waitingOn[e]
    BY <1>4, <1>11
  <2>2. PICK u \in Threads : \E j \in 1..Len(stack[u]) : \E i \in 1..(j - 1) :
          Accounts(stack[u], activeProducer[u], i, j, e, waitingOn[e])
    BY <2>1 DEF LinksHeld
  <2>3. PICK j \in 1..Len(stack[u]) : \E i \in 1..(j - 1) :
          Accounts(stack[u], activeProducer[u], i, j, e, waitingOn[e])
    BY <2>2
  <2>4. PICK i \in 1..(j - 1) : Accounts(stack[u], activeProducer[u], i, j, e, waitingOn[e])
    BY <2>3
  <2>5. i \in 1..Len(stack[u]) /\ Len(stack[u]) \in Nat
    BY DEF TypeOK
  <2>6. HeldKept(u, i) /\ HeldKept(u, j)
    BY <1>9, <2>4, <2>5 DEF Accounts, Holding, Waits
  <2>7. Accounts(stack'[u], activeProducer'[u], i, j, e, waitingOn[e])
    BY <1>4, <2>4, <2>6, AccountKept
  <2> QED BY <2>1, <2>6, <2>7 DEF HeldKept
<1> QED BY <1>10, <1>11

(* Becoming a producer, leaving a wait and leaving a production: every     *)
(* pointer that is not rewritten keeps its two frames.                     *)
LEMMA RelinkedHeld ==
  ASSUME TypeOK, WaitInv, LinksHeld, NEW t \in Threads, NEW e \in Entries,
         waitingOn'[e] # None, waitingOn'[e] = waitingOn[e],
         \A u \in Threads : \A j \in 1..Len(stack[u]) :
           (u # t \/ j # Len(stack[t])) => HeldKept(u, j),
         \A u \in Threads : u # t => activeProducer'[u] = activeProducer[u],
         \A i \in 1..(Len(stack[t]) - 1) :
           ~Accounts(stack[t], activeProducer[t], i, Len(stack[t]), e, waitingOn[e])
  PROVE  \E u \in Threads : \E j \in 1..Len(stack'[u]) : \E i \in 1..(j - 1) :
           Accounts(stack'[u], activeProducer'[u], i, j, e, waitingOn'[e])
<1>1. PICK u \in Threads : \E j \in 1..Len(stack[u]) : \E i \in 1..(j - 1) :
        Accounts(stack[u], activeProducer[u], i, j, e, waitingOn[e])
  BY DEF LinksHeld
<1>2. PICK j \in 1..Len(stack[u]) : \E i \in 1..(j - 1) :
        Accounts(stack[u], activeProducer[u], i, j, e, waitingOn[e])
  BY <1>1
<1>3. PICK i \in 1..(j - 1) : Accounts(stack[u], activeProducer[u], i, j, e, waitingOn[e])
  BY <1>2
<1>4. Len(stack[u]) \in Nat /\ i \in 1..Len(stack[u]) /\ i # Len(stack[u])
  BY DEF TypeOK
<1>5. u # t \/ j # Len(stack[t])
  BY <1>3
<1>6. HeldKept(u, i) /\ HeldKept(u, j)
  BY <1>4, <1>5
<1>7. activeProducer'[u] = activeProducer[u] \/ stack[u][j].pc \notin Waits
  BY <1>5, WaitsOnTop
<1>8. Accounts(stack'[u], activeProducer'[u], i, j, e, waitingOn[e])
  BY <1>3, <1>6, <1>7, AccountKept
<1> QED BY <1>6, <1>8 DEF HeldKept

(* A new producer holds the entry the enclosing one is linked to. *)
LEMMA ProduceLinks ==
  ASSUME TypeOK, TypeOK', WaitInv, LinksHeld, NEW t \in Threads, Produce(t)
  PROVE  LinksHeld'
<1> DEFINE n == Len(stack[t])
           a == activeProducer[t]
<1>1. /\ Depth(t) > 0 /\ n \in Nat /\ n \in 1..n
      /\ Top(t) = stack[t][n] /\ Top(t).pc = "lookup"
  BY TopFacts DEF Produce, At, Depth, TypeOK
<1>2. PICK x \in Entries :
        /\ waitingOn' = GuardLinked(t, x)
        /\ activeProducer' = [activeProducer EXCEPT ![t] = x]
        /\ stack' = Changed(t, AsProducer(t, x))
  BY DEF Produce
<1> DEFINE f == AsProducer(t, x)
<1>3. f \in Frame /\ f.pc = "creating" /\ f.entry = x /\ f.previous = a
  BY <1>1, AsProducerFacts
<1> HIDE DEF f
<1>4. /\ Len(stack'[t]) = n /\ stack'[t][n] = f
      /\ \A i \in 1..(n - 1) : stack'[t][i] = stack[t][i]
  BY <1>1, <1>2, <1>3, ChangeFacts DEF f
<1>5. \A u \in Threads : \A j \in 1..Len(stack[u]) :
        (u # t \/ j # n) => HeldKept(u, j)
  BY <1>1, <1>2, <1>3, ChangeHolds DEF f
<1>6. \A u \in Threads : u # t => activeProducer'[u] = activeProducer[u]
  BY <1>2 DEF TypeOK
<1>7. \A e \in Entries : waitingOn'[e] = IF e = a THEN x ELSE IF e = x THEN None
                                        ELSE waitingOn[e]
  BY <1>2 DEF GuardLinked
<1>8. "lookup" \notin Producing /\ "lookup" \notin Waits /\ "creating" \in Producing
  BY DEF Producing, Waits
<1> HIDE DEF n, a
<1> SUFFICES ASSUME NEW e \in Entries, waitingOn'[e] # None
             PROVE  \E u \in Threads : \E j \in 1..Len(stack'[u]) : \E i \in 1..(j - 1) :
                      Accounts(stack'[u], activeProducer'[u], i, j, e, waitingOn'[e])
  BY DEF LinksHeld
<1>9. CASE e = a
  <2>1. PICK i \in 1..(n - 1) : stack[t][i].pc \in Producing /\ stack[t][i].entry = e
    BY <1>1, <1>8, <1>9, ActiveBelow, NoneAssumption DEF n, a
  <2>2. stack'[t][i] = stack[t][i] /\ n \in 1..Len(stack'[t])
    BY <1>1, <1>4
  <2>3. Accounts(stack'[t], activeProducer'[t], i, n, e, waitingOn'[e])
    BY <1>3, <1>4, <1>7, <1>8, <1>9, <2>1, <2>2 DEF Accounts
  <2> QED BY <2>2, <2>3
<1>10. CASE e # a
  <2>1. waitingOn'[e] = waitingOn[e]
    BY <1>7, <1>10
  <2>2. \A i \in 1..(n - 1) : ~Accounts(stack[t], activeProducer[t], i, n, e, waitingOn[e])
    BY <1>1, <1>8 DEF Accounts, n
  <2> QED BY <1>5, <1>6, <2>1, <2>2, RelinkedHeld DEF n
<1> QED BY <1>9, <1>10

(* A waiter that returns unlinks its producer first. *)
LEMMA ResumeLinks ==
  ASSUME TypeOK, TypeOK', WaitInv, LinksHeld, NEW t \in Threads, Resume(t)
  PROVE  LinksHeld'
<1> DEFINE n == Len(stack[t])
<1>1. /\ Depth(t) > 0 /\ n \in Nat /\ n \in 1..n
      /\ Top(t) = stack[t][n] /\ Top(t).pc = "awake"
  BY TopFacts DEF Resume, At, Depth, TypeOK
<1>2. stack' = Popped(t) /\ activeProducer' = activeProducer
  BY DEF Resume
<1>3. \A e \in Entries : waitingOn'[e] = IF e = activeProducer[t] THEN None ELSE waitingOn[e]
  BY DEF Resume, WaitUnlinked
<1>4. \A u \in Threads : \A j \in 1..Len(stack[u]) :
        (u # t \/ j # n) => HeldKept(u, j)
  BY <1>1, <1>2, PopHolds
<1>5. "awake" \notin Producing
  BY DEF Producing
<1> SUFFICES ASSUME NEW e \in Entries, waitingOn'[e] # None
             PROVE  \E u \in Threads : \E j \in 1..Len(stack'[u]) : \E i \in 1..(j - 1) :
                      Accounts(stack'[u], activeProducer'[u], i, j, e, waitingOn'[e])
  BY DEF LinksHeld
<1>6. e # activeProducer[t] /\ waitingOn'[e] = waitingOn[e]
  BY <1>3
<1>7. \A i \in 1..(n - 1) : ~Accounts(stack[t], activeProducer[t], i, n, e, waitingOn[e])
  BY <1>1, <1>5, <1>6 DEF Accounts
<1> QED BY <1>2, <1>4, <1>6, <1>7, RelinkedHeld

(* A producer that returns unlinks the enclosing one first. *)
LEMMA LeaveLinks ==
  ASSUME TypeOK, TypeOK', WaitInv, LinksHeld, NEW t \in Threads, Leave(t)
  PROVE  LinksHeld'
<1> DEFINE n == Len(stack[t])
<1>1. /\ Depth(t) > 0 /\ n \in Nat /\ n \in 1..n
      /\ Top(t) = stack[t][n] /\ Top(t).pc = "leave"
  BY TopFacts DEF Leave, At, Depth, TypeOK
<1>2. /\ stack' = Popped(t)
      /\ activeProducer' = [activeProducer EXCEPT ![t] = Top(t).previous]
      /\ \A e \in Entries :
           waitingOn'[e] = IF e = Top(t).previous /\ waitingOn[e] = Top(t).entry
                           THEN None ELSE waitingOn[e]
  BY DEF Leave
<1>3. \A u \in Threads : \A j \in 1..Len(stack[u]) :
        (u # t \/ j # n) => HeldKept(u, j)
  BY <1>1, <1>2, PopHolds
<1>4. \A u \in Threads : u # t => activeProducer'[u] = activeProducer[u]
  BY <1>2 DEF TypeOK
<1>5. "leave" \notin Waits
  BY DEF Waits
<1> SUFFICES ASSUME NEW e \in Entries, waitingOn'[e] # None
             PROVE  \E u \in Threads : \E j \in 1..Len(stack'[u]) : \E i \in 1..(j - 1) :
                      Accounts(stack'[u], activeProducer'[u], i, j, e, waitingOn'[e])
  BY DEF LinksHeld
<1>6. /\ waitingOn'[e] = waitingOn[e]
      /\ ~(e = Top(t).previous /\ waitingOn[e] = Top(t).entry)
  BY <1>2
<1>7. \A i \in 1..(n - 1) : ~Accounts(stack[t], activeProducer[t], i, n, e, waitingOn[e])
  BY <1>1, <1>5, <1>6 DEF Accounts
<1> QED BY <1>3, <1>4, <1>6, <1>7, RelinkedHeld

(* Every step of every thread keeps the links held. *)
LEMMA LinksStep == TypeOK /\ TypeOK' /\ WaitInv /\ LinksHeld /\ [Next]_vars => LinksHeld'
<1> SUFFICES ASSUME TypeOK, TypeOK', WaitInv, LinksHeld, [Next]_vars PROVE LinksHeld'
  OBVIOUS
<1>1. ASSUME NEW t \in Threads, Call(t) PROVE LinksHeld'
  BY <1>1, CallLinks
<1>2. ASSUME NEW t \in Destroyers, Retire(t) PROVE LinksHeld'
  BY <1>2, CallLinks, DestroyerAssumption
<1>3. ASSUME NEW t \in Threads, Step(t) PROVE LinksHeld'
  BY <1>3, ProduceLinks, MovedLinks, WaitLinks, ReturnLinks, ResumeLinks, NotifyLinks,
     LeaveLinks DEF Step, Lookup
<1>4. ASSUME NEW t \in Threads, CreateReturns(t) PROVE LinksHeld'
  BY <1>4, PublishLinks, ReturnLinks, MovedLinks DEF CreateReturns
<1>5. CASE UNCHANGED vars
  BY <1>5 DEF vars, LinksHeld
<1> QED BY <1>1, <1>2, <1>3, <1>4, <1>5 DEF Next

(* Raw pointers never dangle: waitingOn and activeProducer point to        *)
(* entries that the calls of the thread that wrote the pointer hold.       *)
THEOREM PointersNeverDangle == Spec => []PointersHeld
<1>1. Init => LinksHeld
  BY DEF Init, LinksHeld
<1>2. TypeOK /\ WaitInv /\ LinksHeld => PointersHeld
  <2> SUFFICES ASSUME TypeOK, WaitInv, LinksHeld PROVE PointersHeld
    OBVIOUS
  <2>1. \A t \in Threads : activeProducer[t] # None =>
          \E i \in 1..Depth(t) : stack[t][i].entry = activeProducer[t]
    BY DEF WaitInv, StackInv, ActiveIsProducing
  <2>2. ASSUME NEW e \in Entries, waitingOn[e] # None
        PROVE  \E t \in Threads : \E i, j \in 1..Depth(t) :
                 /\ IsProducing(t, i) /\ stack[t][i].entry = e
                 /\ stack[t][j].entry = waitingOn[e]
    <3>1. PICK t \in Threads : \E j \in 1..Len(stack[t]) : \E i \in 1..(j - 1) :
            Accounts(stack[t], activeProducer[t], i, j, e, waitingOn[e])
      BY <2>2 DEF LinksHeld
    <3>2. PICK j \in 1..Len(stack[t]) : \E i \in 1..(j - 1) :
            Accounts(stack[t], activeProducer[t], i, j, e, waitingOn[e])
      BY <3>1
    <3>3. PICK i \in 1..(j - 1) : Accounts(stack[t], activeProducer[t], i, j, e, waitingOn[e])
      BY <3>2
    <3>4. i \in 1..Depth(t) /\ j \in 1..Depth(t)
      BY DEF TypeOK, Depth
    <3> QED BY <3>3, <3>4 DEF Accounts, IsProducing
  <2> QED BY <2>1, <2>2 DEF PointersHeld
<1> QED BY <1>1, <1>2, LinksStep, TypeCorrect, WaitInvariant, PTL DEF Spec

-----------------------------------------------------------------------------
(***************************************************************************)
(* The cache implements DeviceMemo.  Most steps do not change what is      *)
(* known of any key, nor which devices are being destroyed: they stutter.  *)
(***************************************************************************)
Table == [d \in Devices |-> [k \in Keys |-> Known(d, k)]]
Retiring == {d \in Devices : Destroying(d)}

(* The entry in the current scope of a device. *)
Current(d, k) == IF scopes[d] = None THEN None ELSE entries[scopes[d]][k]
Destroys == {"detached", "retired"}

(* What is known of a key is a function of its entry and the outcome. *)
LEMMA KnownFacts ==
  ASSUME NEW d \in Devices, NEW k \in Keys
  PROVE  /\ Current(d, k) = None => Known(d, k) = "absent"
         /\ Current(d, k) # None /\ outcome[Current(d, k)] = "pending" =>
              Known(d, k) = "making"
         /\ Current(d, k) # None /\ outcome[Current(d, k)] = "success" =>
              Known(d, k) = "made"
         /\ Current(d, k)' = None => Known(d, k)' = "absent"
         /\ Current(d, k)' # None /\ outcome'[Current(d, k)'] = "pending" =>
              Known(d, k)' = "making"
         /\ Current(d, k)' # None /\ outcome'[Current(d, k)'] = "success" =>
              Known(d, k)' = "made"
         /\ Current(d, k)' = Current(d, k)
              /\ (Current(d, k) # None =>
                    outcome'[Current(d, k)] = outcome[Current(d, k)]) =>
              Known(d, k)' = Known(d, k)
BY DEF Known, Current

(* The frames of calls that destroy a device stay where they are. *)
SameDestroyers ==
  \A u \in Threads :
    /\ \A i \in 1..Len(stack[u]) : stack[u][i].pc \in Destroys =>
         /\ i \in 1..Len(stack'[u]) /\ stack'[u][i].pc \in Destroys
         /\ stack'[u][i].device = stack[u][i].device
    /\ \A i \in 1..Len(stack'[u]) : stack'[u][i].pc \in Destroys =>
         /\ i \in 1..Len(stack[u]) /\ stack[u][i].pc \in Destroys
         /\ stack'[u][i].device = stack[u][i].device

(* Then the same devices are being destroyed. *)
LEMMA RetiringKept ==
  ASSUME SameDestroyers
  PROVE  Retiring' = Retiring
<1>1. ASSUME NEW d \in Devices
      PROVE  Destroying(d)' <=> Destroying(d)
  BY DEF SameDestroyers, Destroying, Destroys, Depth
<1> QED BY <1>1 DEF Retiring

(* A new call that destroys nothing. *)
LEMMA PushDestroyers ==
  ASSUME TypeOK, NEW t \in Threads, NEW f \in Frame, stack' = Pushed(t, f),
         f.pc \notin Destroys
  PROVE  SameDestroyers
<1>1. /\ Len(stack[t]) \in Nat /\ Len(stack'[t]) = Len(stack[t]) + 1
      /\ stack'[t][Len(stack[t]) + 1] = f
      /\ \A i \in 1..Len(stack[t]) : stack'[t][i] = stack[t][i]
      /\ \A u \in Threads : u # t => stack'[u] = stack[u]
  BY PushFacts DEF TypeOK
<1> SUFFICES ASSUME NEW u \in Threads
             PROVE  /\ \A i \in 1..Len(stack[u]) : stack[u][i].pc \in Destroys =>
                         /\ i \in 1..Len(stack'[u]) /\ stack'[u][i].pc \in Destroys
                         /\ stack'[u][i].device = stack[u][i].device
                    /\ \A i \in 1..Len(stack'[u]) : stack'[u][i].pc \in Destroys =>
                         /\ i \in 1..Len(stack[u]) /\ stack[u][i].pc \in Destroys
                         /\ stack'[u][i].device = stack[u][i].device
  BY DEF SameDestroyers
<1>2. CASE u # t
  BY <1>1, <1>2
<1>3. CASE u = t
  <2>1. ASSUME NEW i \in 1..Len(stack'[t]), stack'[t][i].pc \in Destroys
        PROVE  i \in 1..Len(stack[t]) /\ stack'[t][i] = stack[t][i]
    BY <1>1, <2>1
  <2> QED BY <1>1, <1>3, <2>1
<1> QED BY <1>2, <1>3

(* The return of a call that destroys nothing. *)
LEMMA PopDestroyers ==
  ASSUME TypeOK, NEW t \in Threads, Depth(t) > 0, stack' = Popped(t),
         Top(t).pc \notin Destroys
  PROVE  SameDestroyers
<1>1. /\ Len(stack[t]) \in Nat /\ Len(stack'[t]) = Len(stack[t]) - 1
      /\ stack[t][Len(stack[t])].pc \notin Destroys
      /\ \A i \in 1..(Len(stack[t]) - 1) : stack'[t][i] = stack[t][i]
      /\ \A u \in Threads : u # t => stack'[u] = stack[u]
  BY PopFacts, TopFacts DEF TypeOK
<1> SUFFICES ASSUME NEW u \in Threads
             PROVE  /\ \A i \in 1..Len(stack[u]) : stack[u][i].pc \in Destroys =>
                         /\ i \in 1..Len(stack'[u]) /\ stack'[u][i].pc \in Destroys
                         /\ stack'[u][i].device = stack[u][i].device
                    /\ \A i \in 1..Len(stack'[u]) : stack'[u][i].pc \in Destroys =>
                         /\ i \in 1..Len(stack[u]) /\ stack[u][i].pc \in Destroys
                         /\ stack'[u][i].device = stack[u][i].device
  BY DEF SameDestroyers
<1>2. CASE u # t
  BY <1>1, <1>2
<1>3. CASE u = t
  <2>1. ASSUME NEW i \in 1..Len(stack[t]), stack[t][i].pc \in Destroys
        PROVE  i \in 1..Len(stack'[t]) /\ stack'[t][i] = stack[t][i]
    BY <1>1, <2>1
  <2>2. ASSUME NEW i \in 1..Len(stack'[t])
        PROVE  i \in 1..Len(stack[t]) /\ stack'[t][i] = stack[t][i]
    BY <1>1
  <2> QED BY <1>3, <2>1, <2>2
<1> QED BY <1>2, <1>3

(* A call that goes on, destroying if it did. *)
LEMMA ChangeDestroyers ==
  ASSUME TypeOK, NEW t \in Threads, NEW f \in Frame, Depth(t) > 0,
         stack' = Changed(t, f), f.device = Top(t).device,
         f.pc \in Destroys <=> Top(t).pc \in Destroys
  PROVE  SameDestroyers
<1> DEFINE n == Len(stack[t])
<1>1. /\ n \in Nat /\ n \in 1..n /\ Len(stack'[t]) = n
      /\ stack'[t][n] = f /\ stack[t][n] = Top(t)
      /\ \A i \in 1..(n - 1) : stack'[t][i] = stack[t][i]
      /\ \A u \in Threads : u # t => stack'[u] = stack[u]
  BY ChangeFacts, TopFacts DEF TypeOK
<1> HIDE DEF n
<1>2. ASSUME NEW i \in 1..n
      PROVE  /\ stack'[t][i].device = stack[t][i].device
             /\ stack'[t][i].pc \in Destroys <=> stack[t][i].pc \in Destroys
  <2>1. i = n \/ i \in 1..(n - 1)
    BY <1>1
  <2> QED BY <1>1, <2>1
<1> SUFFICES ASSUME NEW u \in Threads
             PROVE  /\ Len(stack'[u]) = Len(stack[u])
                    /\ \A i \in 1..Len(stack[u]) :
                         /\ stack'[u][i].device = stack[u][i].device
                         /\ stack'[u][i].pc \in Destroys <=> stack[u][i].pc \in Destroys
  BY DEF SameDestroyers
<1>3. CASE u # t
  BY <1>1, <1>3
<1>4. CASE u = t
  BY <1>1, <1>2, <1>4 DEF n
<1> QED BY <1>3, <1>4

(* What the steps of DeviceMemo are, in terms of Table and Retiring. *)
LEMMA MemoSteps ==
  ASSUME NEW d \in Devices
  PROVE  /\ Memo!Init <=> Table = [c \in Devices |-> [k \in Keys |-> "absent"]]
                           /\ Retiring = {}
         /\ UNCHANGED <<Table, Retiring>> => UNCHANGED Memo!vars
         /\ \A k \in Keys : d \notin Retiring /\ Table[d][k] = "absent"
              /\ Table' = [Table EXCEPT ![d][k] = "making"] /\ UNCHANGED Retiring =>
              Memo!Next
         /\ \A k \in Keys : Table[d][k] = "making"
              /\ (\/ Table' = [Table EXCEPT ![d][k] = "made"]
                  \/ Table' = [Table EXCEPT ![d][k] = "absent"])
              /\ UNCHANGED Retiring => Memo!Next
         /\ Table' = [Table EXCEPT ![d] = [k \in Keys |-> "absent"]]
              /\ (UNCHANGED Retiring \/ Retiring' = Retiring \cup {d}) => Memo!Next
         /\ Retiring' = Retiring \ {d} /\ UNCHANGED Table => Memo!Next
BY DEF Table, Retiring, Memo!Init, Memo!vars, Memo!Next, Memo!Begin, Memo!Succeed,
       Memo!Fail, Memo!Turns, Memo!Forget, Memo!Retire, Memo!Retired, Memo!Empty

(* Steps that change no scope, map or outcome leave the table alone. *)
LEMMA TableKept ==
  ASSUME UNCHANGED <<scopes, entries, outcome>>
  PROVE  Table' = Table
BY DEF Table, Known

(* Calls that get a scope, or none. *)
LEMMA CallMemo ==
  ASSUME TypeOK, NEW t \in Threads, Call(t)
  PROVE  UNCHANGED <<Table, Retiring>>
<1>1. PICK d \in Devices, k \in Keys :
        \/ ScopeRefused(t, d, k) \/ ScopeFound(t, d, k)
        \/ ScopeCreated(t, d, k) \/ ScopeAllocFails(t, d, k)
  BY DEF Call
<1>2. {"direct", "lookup"} \subseteq PC \ Holding /\ scopes[d] \in Scopes \cup {None}
  BY DEF PC, Foreign, Holding, Producing, TypeOK
<1>3. \E pc \in {"direct", "lookup"} : \E s \in Scopes \cup {None} :
        /\ pc = "lookup" => s \in Scopes
        /\ stack' = Pushed(t, NewFrame(pc, d, k, s))
  BY <1>1, <1>2 DEF ScopeRefused, ScopeFound, ScopeCreated, ScopeAllocFails
<1>4. PICK pc \in {"direct", "lookup"} : \E s \in Scopes \cup {None} :
        /\ pc = "lookup" => s \in Scopes
        /\ stack' = Pushed(t, NewFrame(pc, d, k, s))
  BY <1>3
<1>5. PICK s \in Scopes \cup {None} :
        /\ pc = "lookup" => s \in Scopes
        /\ stack' = Pushed(t, NewFrame(pc, d, k, s))
  BY <1>4
<1>6. NewFrame(pc, d, k, s) \in Frame
  BY <1>2, <1>5, NewFrameType
<1>7. NewFrame(pc, d, k, s).pc \notin Destroys
  BY NewFrameFacts DEF Destroys
<1>8. UNCHANGED Retiring
  BY <1>5, <1>6, <1>7, PushDestroyers, RetiringKept
<1>9. CASE ~ScopeCreated(t, d, k)
  <2>1. UNCHANGED <<scopes, entries, outcome>>
    BY <1>1, <1>9 DEF ScopeRefused, ScopeFound, ScopeAllocFails
  <2> QED BY <1>8, <2>1, TableKept
<1>10. CASE ScopeCreated(t, d, k)
  <2>1. PICK z \in Scopes :
          /\ ~ScopeAllocated(z)
          /\ scopes' = [scopes EXCEPT ![d] = z]
          /\ entries' = [entries EXCEPT ![z] = NoEntries]
    BY <1>10 DEF ScopeCreated
  <2>2. scopes[d] = None /\ UNCHANGED outcome
    BY <1>10 DEF ScopeCreated
  <2>3. ASSUME NEW c \in Devices, NEW l \in Keys
        PROVE  Current(c, l)' = Current(c, l)
    <3>1. CASE c = d
      BY <2>1, <2>2, <3>1 DEF Current, NoEntries, TypeOK
    <3>2. CASE c # d
      <4>1. scopes'[c] = scopes[c] /\ scopes[c] # z /\ scopes[c] \in Scopes \cup {None}
        BY <2>1, <3>2 DEF ScopeAllocated, TypeOK
      <4> QED BY <2>1, <4>1 DEF Current, TypeOK
    <3> QED BY <3>1, <3>2
  <2>4. \A c \in Devices, l \in Keys : Known(c, l)' = Known(c, l)
    BY <2>2, <2>3, KnownFacts
  <2>5. Table' = Table
    BY <2>4 DEF Table
  <2> QED BY <1>8, <2>5
<1> QED BY <1>9, <1>10

(* Steps of a call that change only the stack and the links. *)
LEMMA QuietMemo ==
  ASSUME TypeOK, NEW t \in Threads,
         \/ EntryAllocFails(t) \/ WaitForProducer(t) \/ BypassCycle(t) \/ Hit(t)
         \/ Resume(t) \/ NotifyAll(t) \/ Leave(t)
         \/ DirectReturns(t) \/ ForgetReturns(t) \/ ReleaseForgotten(t)
  PROVE  UNCHANGED <<Table, Retiring>>
<1>1. Table' = Table
  <2>1. UNCHANGED <<scopes, entries, outcome>>
    BY DEF EntryAllocFails, WaitForProducer, BypassCycle, Hit, Resume, NotifyAll, Leave,
           DirectReturns, ForgetReturns, ReleaseForgotten
  <2> QED BY <2>1, TableKept
<1>2. CASE Hit(t) \/ Resume(t) \/ Leave(t) \/ DirectReturns(t) \/ ForgetReturns(t)
  <2>1. Depth(t) > 0 /\ stack' = Popped(t) /\ Top(t).pc \notin Destroys
    BY <1>2 DEF Hit, Resume, Leave, DirectReturns, ForgetReturns, At, Destroys
  <2> QED BY <1>1, <2>1, PopDestroyers, RetiringKept
<1>3. CASE EntryAllocFails(t)
  <2>1. Depth(t) > 0 /\ Top(t).entry \in Entries \cup {None} /\ Top(t).pc = "lookup"
    BY <1>3, TopFacts DEF EntryAllocFails, At, Frame, Locals
  <2>2. stack' = Changed(t, AtEntry(t, "direct", Top(t).entry))
    BY <1>3 DEF EntryAllocFails, Goto
  <2>3. "direct" \in PC /\ "direct" \notin Holding \cup {"lookup"}
    BY DEF PC, Foreign, Holding, Producing
  <2> DEFINE f == AtEntry(t, "direct", Top(t).entry)
  <2>4. f \in Frame /\ f.pc = "direct" /\ f.device = Top(t).device
    BY <2>1, <2>3, AtEntryFacts
  <2> HIDE DEF f
  <2>5. f.pc \in Destroys <=> Top(t).pc \in Destroys
    BY <2>1, <2>4 DEF Destroys
  <2>6. SameDestroyers
    BY <2>1, <2>2, <2>4, <2>5, ChangeDestroyers DEF f
  <2> QED BY <1>1, <2>6, RetiringKept
<1>4. CASE WaitForProducer(t) \/ BypassCycle(t)
  <2>1. Depth(t) > 0 /\ Top(t).pc = "lookup" /\ Found(t) # None
    BY <1>4 DEF WaitForProducer, BypassCycle, At
  <2>2. Top(t).scope \in Scopes /\ Top(t).key \in Keys
    BY <2>1, TopScoped
  <2>3. Found(t) \in Entries
    BY <2>1, <2>2 DEF Found, TypeOK
  <2>4. PICK pc \in {"direct", "asleep"} : stack' = Changed(t, AtEntry(t, pc, Found(t)))
    BY <1>4 DEF WaitForProducer, BypassCycle, GotoEntry
  <2>5. pc \in PC
    BY DEF PC, Foreign
  <2> DEFINE f == AtEntry(t, pc, Found(t))
  <2>6. f \in Frame /\ f.pc = pc /\ f.device = Top(t).device
    BY <2>1, <2>2, <2>3, <2>5, AtEntryFacts
  <2> HIDE DEF f
  <2>7. f.pc \in Destroys <=> Top(t).pc \in Destroys
    BY <2>1, <2>6 DEF Destroys
  <2>8. SameDestroyers
    BY <2>1, <2>4, <2>6, <2>7, ChangeDestroyers DEF f
  <2> QED BY <1>1, <2>8, RetiringKept
<1>5. CASE ReleaseForgotten(t)
  <2>1. Depth(t) > 0 /\ Top(t).pc = "detached" /\ stack' = Changed(t, Unscoped(t))
    BY <1>5 DEF ReleaseForgotten, At
  <2> DEFINE f == Unscoped(t)
  <2>2. f \in Frame /\ f.pc = "retired" /\ f.device = Top(t).device
    BY <2>1, UnscopedFacts
  <2> HIDE DEF f
  <2>3. f.pc \in Destroys <=> Top(t).pc \in Destroys
    BY <2>1, <2>2 DEF Destroys
  <2>4. SameDestroyers
    BY <2>1, <2>2, <2>3, ChangeDestroyers DEF f
  <2> QED BY <1>1, <2>4, RetiringKept
<1>6. CASE NotifyAll(t)
  <2>1. ASSUME NEW u \in Threads
        PROVE  /\ Len(stack'[u]) = Len(stack[u])
               /\ \A i \in 1..Len(stack[u]) :
                    /\ stack'[u][i].device = stack[u][i].device
                    /\ stack'[u][i].pc \in Destroys <=> stack[u][i].pc \in Destroys
    <3>1. /\ Len(stack[u]) \in Nat
          /\ stack'[u] = [j \in 1..Len(stack[u]) |-> Notified(t, stack[u][j])]
      BY <1>6 DEF NotifyAll, Depth, TypeOK
    <3>2. Len(stack'[u]) = Len(stack[u])
      BY <3>1
    <3>3. ASSUME NEW i \in 1..Len(stack[u])
          PROVE  /\ stack'[u][i].device = stack[u][i].device
                 /\ stack'[u][i].pc \in Destroys <=> stack[u][i].pc \in Destroys
      <4>1. stack'[u][i] = Notified(t, stack[u][i]) /\ stack[u][i] \in Frame
        BY <3>1 DEF TypeOK
      <4> DEFINE f == stack[u][i]
                 g == Notified(t, f)
      <4>2. /\ g.device = f.device
            /\ g.pc = IF f.entry = Top(t).entry /\ f.pc = "asleep" THEN "awake"
                      ELSE IF f.entry = Top(t).entry /\ f.pc = "notify" THEN "leave"
                      ELSE f.pc
        BY <4>1, NotifiedFacts
      <4> HIDE DEF f, g
      <4>3. g.pc \in Destroys <=> f.pc \in Destroys
        BY <4>2 DEF Destroys
      <4> QED BY <4>1, <4>2, <4>3 DEF f, g
    <3> QED BY <3>2, <3>3
  <2>2. SameDestroyers
    BY <2>1 DEF SameDestroyers
  <2> QED BY <1>1, <2>2, RetiringKept
<1> QED BY <1>2, <1>3, <1>4, <1>5, <1>6

(* A new entry in the current scope of a device begins a creation there;   *)
(* in a detached scope it is invisible.                                    *)
LEMMA ProduceMemo ==
  ASSUME TypeOK, FlightInv, NEW t \in Threads, Produce(t)
  PROVE  Memo!Next \/ UNCHANGED <<Table, Retiring>>
<1> DEFINE n == Len(stack[t])
           s == Top(t).scope
           k == Top(t).key
<1>1. /\ Depth(t) > 0 /\ n \in Nat /\ n \in 1..n
      /\ Top(t) = stack[t][n] /\ Top(t).pc = "lookup" /\ Found(t) = None
  BY TopFacts DEF Produce, At, Depth, TypeOK
<1>2. s \in Scopes /\ k \in Keys /\ s # None /\ entries[s][k] = None
  BY <1>1, TopScoped, NoneAssumption DEF Found
<1>3. PICK e \in Entries :
        /\ ~EntryAllocated(e)
        /\ entries' = [entries EXCEPT ![s][k] = e]
        /\ outcome' = [outcome EXCEPT ![e] = "pending"]
        /\ stack' = Changed(t, AsProducer(t, e))
  BY DEF Produce
<1>4. scopes' = scopes
  BY DEF Produce
<1> DEFINE f == AsProducer(t, e)
<1>5. f \in Frame /\ f.pc = "creating" /\ f.device = Top(t).device
  BY <1>1, AsProducerFacts
<1> HIDE DEF f
<1>6. f.pc \in Destroys <=> Top(t).pc \in Destroys
  BY <1>1, <1>5 DEF Destroys
<1>7. Retiring' = Retiring
  <2>1. SameDestroyers
    BY <1>1, <1>3, <1>5, <1>6, ChangeDestroyers DEF f
  <2> QED BY <2>1, RetiringKept
<1>8. /\ \A a \in Scopes, l \in Keys :
           entries'[a][l] = IF a = s /\ l = k THEN e ELSE entries[a][l]
      /\ \A x \in Entries : outcome'[x] = IF x = e THEN "pending" ELSE outcome[x]
  BY <1>2, <1>3 DEF TypeOK
<1>9. ASSUME NEW a \in Scopes, NEW l \in Keys, ScopeAllocated(a)
      PROVE  entries[a][l] # e /\ entries[a][l] \in Entries \cup {None}
  BY <1>3, <1>9 DEF EntryAllocated, TypeOK
<1> HIDE DEF n, s, k
<1>10. ASSUME NEW c \in Devices, NEW l \in Keys, ~(scopes[c] = s /\ l = k)
       PROVE  Known(c, l)' = Known(c, l)
  <2>1. scopes[c] \in Scopes \cup {None}
    BY DEF TypeOK
  <2>2. Current(c, l)' = Current(c, l)
    BY <1>4, <1>8, <1>10, <2>1 DEF Current
  <2>3. Current(c, l) # None => outcome'[Current(c, l)] = outcome[Current(c, l)]
    <3>1. ASSUME scopes[c] # None
          PROVE  /\ Current(c, l) = entries[scopes[c]][l]
                 /\ Current(c, l) # e /\ Current(c, l) \in Entries \cup {None}
      <4>1. ScopeAllocated(scopes[c])
        BY DEF ScopeAllocated
      <4> QED BY <1>9, <2>1, <3>1, <4>1 DEF Current
    <3>2. scopes[c] = None => Current(c, l) = None
      BY DEF Current
    <3> QED BY <1>8, <3>1, <3>2
  <2> QED BY <2>2, <2>3, KnownFacts
<1>11. CASE \A c \in Devices : scopes[c] # s
  <2>1. \A c \in Devices, l \in Keys : Known(c, l)' = Known(c, l)
    BY <1>10, <1>11
  <2>2. Table' = Table
    BY <2>1 DEF Table
  <2> QED BY <1>7, <2>2
<1>12. CASE \E d \in Devices : scopes[d] = s
  <2>0. PICK y \in Keys : y = k
    BY <1>2
  <2>1. PICK d \in Devices : scopes[d] = s
    BY <1>12
  <2>2. \A c \in Devices : scopes[c] = s => c = d
    BY <1>2, <2>1 DEF FlightInv, ScopesDistinct
  <2>3. d \notin Retiring
    <3> SUFFICES ASSUME NEW u \in Threads, NEW i \in 1..Len(stack[u]),
                        stack[u][i].device = d, stack[u][i].pc \in {"detached", "retired"}
                 PROVE  FALSE
      BY DEF Retiring, Destroying, Depth
    <3> DEFINE r == [owner |-> u, depth |-> i, device |-> stack[u][i].device]
    <3>1. r \in retirements
      BY DEF FlightInv, RetiredUnscoped
    <3>2. r.device = d
      OBVIOUS
    <3> HIDE DEF r
    <3> QED BY <1>2, <2>1, <3>1, <3>2 DEF FlightInv, RetiredUnscoped
  <2>4. Current(d, y) = None /\ Current(d, y)' = e
    BY <1>2, <1>4, <1>8, <2>1, <2>0 DEF Current
  <2>5. Known(d, y) = "absent" /\ Known(d, y)' = "making"
    <3>1. e # None /\ outcome'[e] = "pending"
      BY <1>8, NoneAssumption
    <3> QED BY <1>2, <2>4, <3>1, KnownFacts
  <2>6. \A c \in Devices, l \in Keys :
          Known(c, l)' = IF c = d /\ l = y THEN "making" ELSE Known(c, l)
    BY <1>10, <2>2, <2>5, <2>0
  <2>7. Table' = [Table EXCEPT ![d][y] = "making"]
    BY <1>2, <2>6 DEF Table
  <2>8. Table[d][y] = "absent"
    BY <1>2, <2>5 DEF Table
  <2> QED BY <1>2, <1>7, <2>3, <2>7, <2>8, MemoSteps
<1> QED BY <1>11, <1>12

(* A creation ends in the map it began in, even when the scope has been    *)
(* detached meanwhile.                                                     *)
LEMMA PublishMemo ==
  ASSUME TypeOK, FlightInv, NEW t \in Threads, NEW o \in Outcome \ {"pending"},
         Publish(t, o)
  PROVE  Memo!Next \/ UNCHANGED <<Table, Retiring>>
<1> DEFINE n == Len(stack[t])
           e == Top(t).entry
           s == Top(t).scope
           k == Top(t).key
<1>1. /\ Depth(t) > 0 /\ n \in Nat /\ n \in 1..n
      /\ Top(t) = stack[t][n] /\ Top(t).pc = "creating"
  BY TopFacts DEF Publish, At, Depth, TypeOK
<1>2. "creating" \in Holding /\ "notify" \in PC
  BY DEF Holding, Producing, PC
<1>3. /\ s \in Scopes /\ k \in Keys /\ e \in Entries /\ s # None /\ e # None
      /\ stack[t][n].scope = s
  BY <1>1, <1>2, FrameTyped, NoneAssumption
<1>4. entries[s][k] = e /\ outcome[e] = "pending"
  BY <1>1 DEF FlightInv, CreatingMapped
<1>5. /\ outcome' = [outcome EXCEPT ![e] = o]
      /\ entries' = ErasedUnless(t, o)
      /\ stack' = Changed(t, AtEntry(t, "notify", e))
      /\ scopes' = scopes
  BY DEF Publish, Goto
<1> DEFINE f == AtEntry(t, "notify", e)
<1>6. f \in Frame /\ f.pc = "notify" /\ f.device = Top(t).device
  BY <1>1, <1>2, <1>3, AtEntryFacts
<1> HIDE DEF f
<1>7. Retiring' = Retiring
  <2>1. f.pc \in Destroys <=> Top(t).pc \in Destroys
    BY <1>1, <1>6 DEF Destroys
  <2>2. SameDestroyers
    BY <1>1, <1>5, <1>6, <2>1, ChangeDestroyers DEF f
  <2> QED BY <2>2, RetiringKept
<1>8. /\ \A a \in Scopes, l \in Keys :
           entries'[a][l] = IF a = s /\ l = k
                            THEN (IF o = "success" THEN e ELSE None) ELSE entries[a][l]
      /\ \A x \in Entries : outcome'[x] = IF x = e THEN o ELSE outcome[x]
  <2> DEFINE new == IF o # "success" /\ entries[s][k] = e THEN None ELSE entries[s][k]
  <2>1. entries' = [entries EXCEPT ![s][k] = new]
    BY <1>5 DEF ErasedUnless
  <2>2. new = IF o = "success" THEN e ELSE None
    BY <1>4
  <2> HIDE DEF new
  <2> QED BY <1>3, <1>5, <2>1, <2>2 DEF TypeOK
<1>9. ScopeAllocated(s)
  BY <1>1 DEF ScopeAllocated, Depth
<1> HIDE DEF n, e, s, k
<1>10. ASSUME NEW c \in Devices, NEW l \in Keys, ~(scopes[c] = s /\ l = k)
       PROVE  Known(c, l)' = Known(c, l)
  <2>1. scopes[c] \in Scopes \cup {None}
    BY DEF TypeOK
  <2>2. Current(c, l)' = Current(c, l)
    BY <1>5, <1>8, <1>10, <2>1 DEF Current
  <2>3. Current(c, l) # None => outcome'[Current(c, l)] = outcome[Current(c, l)]
    <3> SUFFICES ASSUME Current(c, l) # None
                 PROVE  Current(c, l) # e /\ Current(c, l) \in Entries
      BY <1>8
    <3>1. scopes[c] \in Scopes /\ Current(c, l) = entries[scopes[c]][l]
      BY <2>1 DEF Current
    <3>2. ScopeAllocated(scopes[c])
      BY DEF ScopeAllocated
    <3>3. Current(c, l) \in Entries
      BY <3>1 DEF TypeOK
    <3> QED BY <1>3, <1>4, <1>9, <1>10, <3>1, <3>2, <3>3 DEF FlightInv, MappedOnce
  <2> QED BY <2>2, <2>3, KnownFacts
<1>11. CASE \A c \in Devices : scopes[c] # s
  <2>1. \A c \in Devices, l \in Keys : Known(c, l)' = Known(c, l)
    BY <1>10, <1>11
  <2>2. Table' = Table
    BY <2>1 DEF Table
  <2> QED BY <1>7, <2>2
<1>12. CASE \E d \in Devices : scopes[d] = s
  <2>0. PICK y \in Keys : y = k
    BY <1>3
  <2>1. PICK d \in Devices : scopes[d] = s
    BY <1>12
  <2>2. \A c \in Devices : scopes[c] = s => c = d
    BY <1>3, <2>1 DEF FlightInv, ScopesDistinct
  <2>3. Current(d, y) = e /\ Current(d, y)' = IF o = "success" THEN e ELSE None
    BY <1>3, <1>4, <1>5, <1>8, <2>1, <2>0 DEF Current
  <2>4. Known(d, y) = "making"
    BY <1>3, <1>4, <2>3, KnownFacts
  <2>5. PICK w \in {"made", "absent"} : Known(d, y)' = w
    <3>1. CASE o = "success"
      <4>1. Current(d, y)' = e /\ outcome'[e] = "success"
        BY <1>3, <1>8, <2>3, <3>1
      <4>2. Known(d, y)' = "made"
        BY <1>3, <4>1, KnownFacts
      <4> QED BY <4>2
    <3>2. CASE o # "success"
      <4>1. Known(d, y)' = "absent"
        BY <1>3, <2>3, <3>2, KnownFacts
      <4> QED BY <4>1
    <3> QED BY <3>1, <3>2
  <2>6. \A c \in Devices, l \in Keys :
          Known(c, l)' = IF c = d /\ l = y THEN w ELSE Known(c, l)
    BY <1>10, <2>2, <2>5, <2>0
  <2>7. Table' = [Table EXCEPT ![d][y] = w]
    BY <1>3, <2>6 DEF Table
  <2>8. Table[d][y] = "making"
    BY <1>3, <2>4 DEF Table
  <2> QED BY <1>3, <1>7, <2>5, <2>7, <2>8, MemoSteps
<1> QED BY <1>11, <1>12

(* Forgetting or retiring a device empties its row of the table. *)
LEMMA DetachMemo ==
  ASSUME TypeOK, NEW t \in Threads, Retire(t)
  PROVE  Memo!Next
<1>1. PICK d \in Devices : ForgetDevice(t, d) \/ WithDeviceRetired(t, d)
  BY DEF Retire
<1>2. scopes' = [scopes EXCEPT ![d] = None] /\ UNCHANGED <<entries, outcome>>
  BY <1>1 DEF ForgetDevice, WithDeviceRetired
<1>3. Table' = [Table EXCEPT ![d] = [k \in Keys |-> "absent"]]
  <2>1. ASSUME NEW c \in Devices, NEW k \in Keys
        PROVE  Known(c, k)' = IF c = d THEN "absent" ELSE Known(c, k)
    <3>1. scopes'[c] = IF c = d THEN None ELSE scopes[c]
      BY <1>2 DEF TypeOK
    <3>2. Current(c, k)' = IF c = d THEN None ELSE Current(c, k)
      BY <1>2, <3>1 DEF Current
    <3> QED BY <1>2, <3>2, KnownFacts
  <2> QED BY <2>1 DEF Table
<1>4. {"forgetting", "detached"} \subseteq PC \ (Holding \cup {"lookup"})
  BY DEF PC, Foreign, Holding, Producing
<1>5. scopes[d] \in Scopes \cup {None}
  BY DEF TypeOK
<1>6. CASE ForgetDevice(t, d)
  <2> DEFINE f == NewFrame("forgetting", d, None, scopes[d])
  <2>1. f \in Frame /\ f.pc = "forgetting"
    BY <1>4, <1>5, NewFrameType, NewFrameFacts
  <2>2. stack' = Pushed(t, f)
    BY <1>6 DEF ForgetDevice
  <2> HIDE DEF f
  <2>3. SameDestroyers
    BY <2>1, <2>2, PushDestroyers DEF Destroys
  <2> QED BY <1>3, <2>3, RetiringKept, MemoSteps
<1>7. CASE WithDeviceRetired(t, d)
  <2> DEFINE f == NewFrame("detached", d, None, scopes[d])
             n == Len(stack[t]) + 1
  <2>1. f \in Frame /\ f.pc = "detached" /\ f.device = d
    BY <1>4, <1>5, NewFrameType, NewFrameFacts
  <2>2. stack' = Pushed(t, f)
    BY <1>7 DEF WithDeviceRetired
  <2> HIDE DEF f
  <2>3. /\ Len(stack[t]) \in Nat /\ Len(stack'[t]) = n /\ stack'[t][n] = f
        /\ \A i \in 1..Len(stack[t]) : stack'[t][i] = stack[t][i]
        /\ \A u \in Threads : u # t => stack'[u] = stack[u]
    BY <2>1, <2>2, PushFacts DEF TypeOK
  <2>4. ASSUME NEW c \in Devices
        PROVE  Destroying(c)' <=> c = d \/ Destroying(c)
    <3>1. ASSUME Destroying(c)' PROVE c = d \/ Destroying(c)
      <4>1. PICK u \in Threads : \E i \in 1..Len(stack'[u]) :
              stack'[u][i].device = c /\ stack'[u][i].pc \in {"detached", "retired"}
        BY <3>1 DEF Destroying, Depth
      <4>2. PICK i \in 1..Len(stack'[u]) :
              stack'[u][i].device = c /\ stack'[u][i].pc \in {"detached", "retired"}
        BY <4>1
      <4>3. CASE u = t /\ i = n
        BY <2>1, <2>3, <4>2, <4>3
      <4>4. CASE ~(u = t /\ i = n)
        <5>1. i \in 1..Len(stack[u]) /\ stack'[u][i] = stack[u][i]
          BY <2>3, <4>4
        <5> QED BY <4>2, <5>1 DEF Destroying, Depth
      <4> QED BY <4>3, <4>4
    <3>2. ASSUME c = d PROVE Destroying(c)'
      <4>1. n \in 1..Len(stack'[t])
        BY <2>3
      <4> QED BY <2>1, <2>3, <3>2, <4>1 DEF Destroying, Depth
    <3>3. ASSUME Destroying(c) PROVE Destroying(c)'
      BY <2>3, <3>3 DEF Destroying, Depth
    <3> QED BY <3>1, <3>2, <3>3
  <2>5. Retiring' = Retiring \cup {d}
    BY <2>4 DEF Retiring
  <2> QED BY <1>3, <2>5, MemoSteps
<1> QED BY <1>1, <1>6, <1>7

(* The last retirement of a device to end makes its address usable again. *)
LEMMA EndMemo ==
  ASSUME TypeOK, NEW t \in Threads, EndRetirement(t)
  PROVE  Memo!Next \/ UNCHANGED <<Table, Retiring>>
<1> DEFINE n == Len(stack[t])
           d == Top(t).device
<1>1. /\ Depth(t) > 0 /\ n \in Nat /\ n \in 1..n
      /\ Top(t) = stack[t][n] /\ stack' = Popped(t)
  BY TopFacts DEF EndRetirement, At, Depth, TypeOK
<1>2. d \in Devices
  BY <1>1, FrameTyped
<1>3. Table' = Table
  BY TableKept DEF EndRetirement
<1>4. /\ Len(stack'[t]) = n - 1
      /\ \A i \in 1..(n - 1) : stack'[t][i] = stack[t][i]
      /\ \A u \in Threads : u # t => stack'[u] = stack[u]
  BY <1>1, PopFacts
<1>5. stack[t][n].device = d
  BY <1>1
<1> HIDE DEF n, d
<1>6. ASSUME NEW c \in Devices, Destroying(c)' PROVE Destroying(c)
  <2>1. ASSUME NEW u \in Threads, NEW i \in 1..Len(stack'[u])
        PROVE  i \in 1..Len(stack[u]) /\ stack'[u][i] = stack[u][i]
    <3>1. CASE u = t
      BY <1>1, <1>4, <3>1 DEF n
    <3>2. CASE u # t
      BY <1>4, <3>2
    <3> QED BY <3>1, <3>2
  <2> QED BY <1>6, <2>1 DEF Destroying, Depth
<1>7. ASSUME NEW c \in Devices, c # d, Destroying(c) PROVE Destroying(c)'
  <2>1. PICK u \in Threads : \E i \in 1..Len(stack[u]) :
          stack[u][i].device = c /\ stack[u][i].pc \in {"detached", "retired"}
    BY <1>7 DEF Destroying, Depth
  <2>2. PICK i \in 1..Len(stack[u]) :
          stack[u][i].device = c /\ stack[u][i].pc \in {"detached", "retired"}
    BY <2>1
  <2>3. i \in 1..Len(stack'[u]) /\ stack'[u][i] = stack[u][i]
    <3>1. CASE u = t
      <4>1. i # n
        BY <1>5, <1>7, <2>2, <3>1
      <4> QED BY <1>1, <1>4, <3>1, <4>1 DEF n
    <3>2. CASE u # t
      BY <1>4, <3>2
    <3> QED BY <3>1, <3>2
  <2> QED BY <2>2, <2>3 DEF Destroying, Depth
<1>8. Retiring' = Retiring \/ Retiring' = Retiring \ {d}
  BY <1>6, <1>7 DEF Retiring
<1> QED BY <1>2, <1>3, <1>8, MemoSteps

(* Every step of every thread is a step of the memo or invisible. *)
LEMMA MemoStep ==
  TypeOK /\ FlightInv /\ [Next]_vars => [Memo!Next]_(Memo!vars)
<1> SUFFICES ASSUME TypeOK, FlightInv, [Next]_vars
             PROVE  Memo!Next \/ UNCHANGED Memo!vars
  OBVIOUS
<1>1. ASSUME UNCHANGED <<Table, Retiring>> PROVE UNCHANGED Memo!vars
  BY <1>1 DEF Table, Retiring, Memo!vars
<1>2. ASSUME NEW t \in Threads, Call(t) PROVE UNCHANGED Memo!vars
  BY <1>1, <1>2, CallMemo
<1>3. ASSUME NEW t \in Destroyers, Retire(t) PROVE Memo!Next
  BY <1>3, DetachMemo, DestroyerAssumption
<1>4. ASSUME NEW t \in Threads, Step(t) PROVE Memo!Next \/ UNCHANGED Memo!vars
  BY <1>1, <1>4, ProduceMemo, QuietMemo DEF Step, Lookup
<1>5. ASSUME NEW t \in Threads, CreateReturns(t) PROVE Memo!Next \/ UNCHANGED Memo!vars
  BY <1>1, <1>5, PublishMemo, QuietMemo, EndMemo DEF CreateReturns
<1>6. CASE UNCHANGED vars
  <2>1. Table' = Table
    BY <1>6, TableKept DEF vars
  <2>2. SameDestroyers
    BY <1>6 DEF vars, SameDestroyers
  <2> QED BY <1>1, <2>1, <2>2, RetiringKept
<1> QED BY <1>2, <1>3, <1>4, <1>5, <1>6 DEF Next

(* The cache implements the per-device memo: seen through the current      *)
(* scopes, every step of every thread is one of DeviceMemo's steps or      *)
(* invisible.                                                              *)
THEOREM CacheImplementsMemo == Spec => ImplementsMemo
<1>1. Init => Memo!Init
  <2> SUFFICES ASSUME Init PROVE Memo!Init
    OBVIOUS
  <2>1. \A d \in Devices, k \in Keys : Known(d, k) = "absent"
    BY DEF Init, Known
  <2>2. \A d \in Devices : ~Destroying(d)
    BY DEF Init, Destroying, Depth
  <2> QED BY <2>1, <2>2 DEF Memo!Init, Memo!Empty
<1> QED BY <1>1, MemoStep, TypeCorrect, FlightAlways, PTL DEF Spec, ImplementsMemo, Memo!Spec
=============================================================================
