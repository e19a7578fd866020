------------------------------ MODULE PsoCache ------------------------------
(***************************************************************************)
(* The pipeline-state cache of the D3DMetal sidecar                        *)
(* (d3dmetal-pso-cache/cache.mm): a single-flight cache with one map per   *)
(* device.  A call either returns a cached pipeline, waits for the thread  *)
(* that is creating it, or creates it.  create() is foreign code: it may   *)
(* call the cache again, so every thread has a stack of calls, and the     *)
(* cache must not let threads wait for one another in a circle.            *)
(*                                                                         *)
(* Each action is one critical section of the code (scopesMutex_,          *)
(* DeviceScope::mutex, or dependencyMutex alone) together with the         *)
(* thread-local work around it.                                            *)
(***************************************************************************)
EXTENDS Integers, Sequences

CONSTANTS
  Threads,
  Destroyers,   \* the threads that also retire or forget devices
  Devices,      \* device addresses; an address is reused after a retirement
  Keys,
  Scopes,       \* addresses of DeviceScope objects
  Entries,      \* addresses of Entry objects
  None,         \* nullptr
  MaxDepth,     \* bound: nesting of calls on one thread
  MaxLife       \* bound: how often one device address is retired

ASSUME NoneAssumption ==
  None \notin Threads \cup Devices \cup Keys \cup Scopes \cup Entries
ASSUME DestroyerAssumption == Destroyers \subseteq Threads
ASSUME BoundAssumption == MaxDepth \in Nat \ {0} /\ MaxLife \in Nat

VARIABLES
  scopes,          \* scopes_: the current scope of each device
  retirements,     \* retirements_: the linked Retirement objects
  entries,         \* DeviceScope::entries of each scope
  outcome,         \* Entry::complete, result and exceptions, as one value
  waitingOn,       \* Entry::waitingOn
  activeProducer,  \* thread_local activeProducer
  stack,           \* the calls in progress on each thread, innermost last
  life,            \* history: completed retirements of each device address
  bornIn           \* history: the life of the device an entry was made in

vars == <<scopes, retirements, entries, outcome, waitingOn, activeProducer,
          stack, life, bornIn>>

-----------------------------------------------------------------------------
(* "failure" is an exception, a nil state or a result with an error. *)
Outcome == {"pending", "success", "failure"}

(***************************************************************************)
(* A frame is a call of the cache in progress:                             *)
(*   lookup      getOrCreate has its scope, not yet the scope's mutex      *)
(*   asleep      blocked in ready.wait                                     *)
(*   awake       notified, not yet through ready.wait                      *)
(*   creating    the producer of entry, inside create()                    *)
(*   notify      entry published, notify_all not yet called                *)
(*   leave       notified, ProducerGuard not yet destroyed                 *)
(*   direct      inside create() without an entry                          *)
(*   detached    withDeviceRetired is releasing the old scope              *)
(*   retired     withDeviceRetired is running its action                   *)
(*   forgetting  forgetDevice is releasing the old scope                   *)
(***************************************************************************)
Producing == {"creating", "notify", "leave"}
Foreign == {"creating", "direct", "detached", "retired", "forgetting"}
Holding == Producing \cup {"asleep", "awake"}
PC == Producing \cup Foreign \cup {"lookup", "asleep", "awake"}

Retirement == [owner : Threads, depth : 1..MaxDepth, device : Devices]

Locals ==
  [pc : PC, device : Devices, key : Keys \cup {None},
   scope : Scopes \cup {None}, entry : Entries \cup {None},
   previous : Entries \cup {None}, life : Nat]

Frame ==
  {f \in Locals :
     /\ f.pc \in Holding \cup {"lookup"} => f.scope \in Scopes /\ f.key \in Keys
     /\ f.pc \in Holding => f.entry \in Entries}

NewFrame(pc, d, k, s) ==
  [pc |-> pc, device |-> d, key |-> k, scope |-> s, entry |-> None,
   previous |-> None, life |-> life[d]]

Depth(t) == Len(stack[t])
Top(t) == stack[t][Depth(t)]
At(t, pc) == Depth(t) > 0 /\ Top(t).pc = pc

(* Foreign code runs on t, and may call the cache. *)
CanCall(t) ==
  /\ Depth(t) < MaxDepth
  /\ Depth(t) > 0 => Top(t).pc \in Foreign

Pushed(t, f) == [stack EXCEPT ![t] = Append(@, f)]
Popped(t) == [stack EXCEPT ![t] = SubSeq(@, 1, Len(@) - 1)]
Changed(t, f) == [stack EXCEPT ![t][Depth(t)] = f]

(* The innermost call goes on at pc, holding entry e. *)
AtEntry(t, pc, e) == [Top(t) EXCEPT !.pc = pc, !.entry = e]
Goto(t, pc) == Changed(t, AtEntry(t, pc, Top(t).entry))
GotoEntry(t, pc, e) == Changed(t, AtEntry(t, pc, e))
AsProducer(t, e) == [Top(t) EXCEPT !.pc = "creating", !.entry = e,
                                   !.previous = activeProducer[t]]

(* The shared_ptrs that keep a scope or an entry allocated. *)
HeldByFrame(e) ==
  \E t \in Threads : \E i \in 1..Depth(t) : stack[t][i].entry = e
ScopeAllocated(s) ==
  \/ \E d \in Devices : scopes[d] = s
  \/ \E t \in Threads : \E i \in 1..Depth(t) : stack[t][i].scope = s
EntryAllocated(e) ==
  \/ HeldByFrame(e)
  \/ \E s \in Scopes : ScopeAllocated(s) /\ \E k \in Keys : entries[s][k] = e

IsRetired_LastOnly(d) == \E r \in retirements : retirements = {r} /\ r.device = d
IsRetired_Never(d) == FALSE
IsRetired(d) == \E r \in retirements : r.device = d

NoEntries == [k \in Keys |-> None]

Init ==
  /\ scopes = [d \in Devices |-> None]
  /\ retirements = {}
  /\ entries = [s \in Scopes |-> NoEntries]
  /\ outcome = [e \in Entries |-> "success"]
  /\ waitingOn = [e \in Entries |-> None]
  /\ activeProducer = [t \in Threads |-> None]
  /\ stack = [t \in Threads |-> <<>>]
  /\ life = [d \in Devices |-> 0]
  /\ bornIn = [e \in Entries |-> 0]

-----------------------------------------------------------------------------
(* getOrCreate, first half: scopeFor under scopesMutex_. *)

(* Retired device: no scope, create() is called directly. *)
ScopeRefused(t, d, k) ==
  /\ CanCall(t)
  /\ IsRetired(d)
  /\ stack' = Pushed(t, NewFrame("direct", d, k, None))
  /\ UNCHANGED <<scopes, retirements, entries, outcome, waitingOn,
                 activeProducer, life, bornIn>>

ScopeFound(t, d, k) ==
  /\ CanCall(t)
  /\ ~IsRetired(d)
  /\ scopes[d] # None
  /\ stack' = Pushed(t, NewFrame("lookup", d, k, scopes[d]))
  /\ UNCHANGED <<scopes, retirements, entries, outcome, waitingOn,
                 activeProducer, life, bornIn>>

ScopeCreated(t, d, k) ==
  /\ CanCall(t)
  /\ ~IsRetired(d)
  /\ scopes[d] = None
  /\ \E s \in Scopes :
       /\ ~ScopeAllocated(s)
       /\ scopes' = [scopes EXCEPT ![d] = s]
       /\ entries' = [entries EXCEPT ![s] = NoEntries]
       /\ stack' = Pushed(t, NewFrame("lookup", d, k, s))
  /\ UNCHANGED <<retirements, outcome, waitingOn, activeProducer, life, bornIn>>

(* std::bad_alloc while making the scope. *)
ScopeAllocFails(t, d, k) ==
  /\ CanCall(t)
  /\ ~IsRetired(d)
  /\ scopes[d] = None
  /\ stack' = Pushed(t, NewFrame("direct", d, k, None))
  /\ UNCHANGED <<scopes, retirements, entries, outcome, waitingOn,
                 activeProducer, life, bornIn>>

-----------------------------------------------------------------------------
(* getOrCreate, second half: the lookup under DeviceScope::mutex. *)

Found_IgnoresPending(t) ==
  LET e == entries[Top(t).scope][Top(t).key]
  IN IF e # None /\ outcome[e] = "pending" THEN None ELSE e
Found(t) == entries[Top(t).scope][Top(t).key]

(* ProducerGuard's constructor links the enclosing producer to e. *)
GuardLinked_Unlinked(t, e) == [waitingOn EXCEPT ![e] = None]
GuardLinked(t, e) ==
  [x \in Entries |-> IF x = activeProducer[t] THEN e
                     ELSE IF x = e THEN None ELSE waitingOn[x]]

(* No entry: make one and become its producer. *)
Produce(t) ==
  /\ At(t, "lookup")
  /\ Found(t) = None
  /\ \E e \in Entries :
       /\ ~EntryAllocated(e)
       /\ entries' = [entries EXCEPT ![Top(t).scope][Top(t).key] = e]
       /\ outcome' = [outcome EXCEPT ![e] = "pending"]
       /\ waitingOn' = GuardLinked(t, e)
       /\ activeProducer' = [activeProducer EXCEPT ![t] = e]
       /\ stack' = Changed(t, AsProducer(t, e))
       /\ bornIn' = [bornIn EXCEPT ![e] = Top(t).life]
  /\ UNCHANGED <<scopes, retirements, life>>

(* std::bad_alloc while making or inserting the entry. *)
EntryAllocFails(t) ==
  /\ At(t, "lookup")
  /\ Found(t) = None
  /\ stack' = Goto(t, "direct")
  /\ UNCHANGED <<scopes, retirements, entries, outcome, waitingOn,
                 activeProducer, life, bornIn>>

(***************************************************************************)
(* The loop of WaitDependency's constructor: it visits target and what     *)
(* follows it along waitingOn, that is, the least set that holds target    *)
(* and is closed under waitingOn.                                          *)
(***************************************************************************)
ClosedUnderWaiting(R) ==
  \A x \in R : waitingOn[x] # None => waitingOn[x] \in R

Reaches(target, waiter) ==
  \A R \in SUBSET Entries :
    target \in R /\ ClosedUnderWaiting(R) => waiter \in R

Cyclic_SelfOnly(t, target) == target = activeProducer[t]
Cyclic(t, target) ==
  activeProducer[t] # None /\ Reaches(target, activeProducer[t])

(* An entry in production by somebody this thread may wait for. *)
WaitForProducer(t) ==
  /\ At(t, "lookup")
  /\ Found(t) # None
  /\ outcome[Found(t)] = "pending"
  /\ ~Cyclic(t, Found(t))
  /\ waitingOn' = [x \in Entries |-> IF x = activeProducer[t] THEN Found(t)
                                     ELSE waitingOn[x]]
  /\ stack' = GotoEntry(t, "asleep", Found(t))
  /\ UNCHANGED <<scopes, retirements, entries, outcome, activeProducer, life,
                 bornIn>>

(* Waiting would close a cycle: create() is called directly. *)
BypassCycle(t) ==
  /\ At(t, "lookup")
  /\ Found(t) # None
  /\ outcome[Found(t)] = "pending"
  /\ Cyclic(t, Found(t))
  /\ stack' = GotoEntry(t, "direct", Found(t))
  /\ UNCHANGED <<scopes, retirements, entries, outcome, waitingOn,
                 activeProducer, life, bornIn>>

(* A complete entry: its result is copied, or its exception rethrown. *)
Hit(t) ==
  /\ At(t, "lookup")
  /\ Found(t) # None
  /\ outcome[Found(t)] # "pending"
  /\ stack' = Popped(t)
  /\ UNCHANGED <<scopes, retirements, entries, outcome, waitingOn,
                 activeProducer, life, bornIn>>

(* WaitDependency's destructor. *)
WaitUnlinked_Kept(t) == waitingOn
WaitUnlinked(t) ==
  [x \in Entries |-> IF x = activeProducer[t] THEN None ELSE waitingOn[x]]

(* ready.wait returns, WaitDependency is destroyed, the result returned. *)
Resume(t) ==
  /\ At(t, "awake")
  /\ outcome[Top(t).entry] # "pending"
  /\ waitingOn' = WaitUnlinked(t)
  /\ stack' = Popped(t)
  /\ UNCHANGED <<scopes, retirements, entries, outcome, activeProducer, life,
                 bornIn>>

-----------------------------------------------------------------------------
(* getOrCreate, the producer after create(). *)

(* eraseIfCurrent, called for every outcome but success. *)
ErasedUnless(t, o) ==
  [entries EXCEPT ![Top(t).scope][Top(t).key] =
     IF o # "success" /\ @ = Top(t).entry THEN None ELSE @]

(* Publication under DeviceScope::mutex. *)
Publish_NoResult(t, o) ==
  /\ At(t, "creating")
  /\ outcome' = [outcome EXCEPT ![Top(t).entry] = "no result"]
  /\ entries' = ErasedUnless(t, o)
  /\ stack' = Goto(t, "notify")
  /\ UNCHANGED <<scopes, retirements, waitingOn, activeProducer, life, bornIn>>
Publish(t, o) ==
  /\ At(t, "creating")
  /\ outcome' = [outcome EXCEPT ![Top(t).entry] = o]
  /\ entries' = ErasedUnless(t, o)
  /\ stack' = Goto(t, "notify")
  /\ UNCHANGED <<scopes, retirements, waitingOn, activeProducer, life, bornIn>>

(* What notify_all by t makes of a frame: the notifier itself goes on, the *)
(* sleepers on its entry wake up.                                          *)
Notified(t, f) ==
  IF f.entry # Top(t).entry THEN f
  ELSE IF f.pc = "asleep" THEN [f EXCEPT !.pc = "awake"]
  ELSE IF f.pc = "notify" THEN [f EXCEPT !.pc = "leave"]
  ELSE f

(* ready.notify_all, after the mutex is released. *)
NotifyAll_Skipped(t) ==
  /\ At(t, "notify")
  /\ stack' = Goto(t, "leave")
  /\ UNCHANGED <<scopes, retirements, entries, outcome, waitingOn,
                 activeProducer, life, bornIn>>
NotifyAll(t) ==
  /\ At(t, "notify")
  /\ stack' = [u \in Threads |->
                 [i \in 1..Depth(u) |-> Notified(t, stack[u][i])]]
  /\ UNCHANGED <<scopes, retirements, entries, outcome, waitingOn,
                 activeProducer, life, bornIn>>

(* ProducerGuard's destructor under dependencyMutex; the call returns. *)
Leave(t) ==
  LET previous == Top(t).previous
  IN /\ At(t, "leave")
     /\ activeProducer' = [activeProducer EXCEPT ![t] = previous]
     /\ waitingOn' = [x \in Entries |->
                        IF x = previous /\ waitingOn[x] = Top(t).entry
                        THEN None ELSE waitingOn[x]]
     /\ stack' = Popped(t)
     /\ UNCHANGED <<scopes, retirements, entries, outcome, life, bornIn>>

(* A create() made without an entry returns or throws to the caller. *)
DirectReturns(t) ==
  /\ At(t, "direct")
  /\ stack' = Popped(t)
  /\ UNCHANGED <<scopes, retirements, entries, outcome, waitingOn,
                 activeProducer, life, bornIn>>

-----------------------------------------------------------------------------
(* Device retirement. *)

ForgetDevice(t, d) ==
  /\ CanCall(t)
  /\ stack' = Pushed(t, NewFrame("forgetting", d, None, scopes[d]))
  /\ scopes' = [scopes EXCEPT ![d] = None]
  /\ UNCHANGED <<retirements, entries, outcome, waitingOn, activeProducer,
                 life, bornIn>>

ForgetReturns(t) ==
  /\ At(t, "forgetting")
  /\ stack' = Popped(t)
  /\ UNCHANGED <<scopes, retirements, entries, outcome, waitingOn,
                 activeProducer, life, bornIn>>

WithDeviceRetired(t, d) ==
  /\ CanCall(t)
  /\ life[d] < MaxLife
  /\ retirements' = retirements \cup
       {[owner |-> t, depth |-> Depth(t) + 1, device |-> d]}
  /\ stack' = Pushed(t, NewFrame("detached", d, None, scopes[d]))
  /\ scopes' = [scopes EXCEPT ![d] = None]
  /\ UNCHANGED <<entries, outcome, waitingOn, activeProducer, life, bornIn>>

(* forgotten.reset(): entries die, outside every mutex. *)
Unscoped(t) == [Top(t) EXCEPT !.pc = "retired", !.scope = None]
ReleaseForgotten(t) ==
  /\ At(t, "detached")
  /\ stack' = Changed(t, Unscoped(t))
  /\ UNCHANGED <<scopes, retirements, entries, outcome, waitingOn,
                 activeProducer, life, bornIn>>

(* The action has run; RetirementGuard unlinks its own Retirement. *)
EndRetirement(t) ==
  /\ At(t, "retired")
  /\ retirements' = retirements \
       {[owner |-> t, depth |-> Depth(t), device |-> Top(t).device]}
  /\ life' = [life EXCEPT ![Top(t).device] =
                IF \E r \in retirements' : r.device = Top(t).device
                THEN @ ELSE @ + 1]
  /\ stack' = Popped(t)
  /\ UNCHANGED <<scopes, entries, outcome, waitingOn, activeProducer, bornIn>>

-----------------------------------------------------------------------------
Call(t) ==
  \E d \in Devices, k \in Keys :
    \/ ScopeRefused(t, d, k)
    \/ ScopeFound(t, d, k)
    \/ ScopeCreated(t, d, k)
    \/ ScopeAllocFails(t, d, k)

Retire(t) ==
  \E d \in Devices : ForgetDevice(t, d) \/ WithDeviceRetired(t, d)

Lookup(t) ==
  \/ Produce(t)
  \/ EntryAllocFails(t)
  \/ WaitForProducer(t)
  \/ BypassCycle(t)
  \/ Hit(t)

CreateReturns(t) ==
  \/ \E o \in Outcome \ {"pending"} : Publish(t, o)
  \/ DirectReturns(t)
  \/ ForgetReturns(t)
  \/ ReleaseForgotten(t)
  \/ EndRetirement(t)

Step(t) == Lookup(t) \/ Resume(t) \/ NotifyAll(t) \/ Leave(t)

Next ==
  \/ \E t \in Threads : Call(t) \/ Step(t) \/ CreateReturns(t)
  \/ \E t \in Destroyers : Retire(t)

Spec == Init /\ [][Next]_vars

(***************************************************************************)
(* A thread inside the cache keeps running; foreign code (create(), a      *)
(* destroy action, a destructor) returns at every depth it was called at.  *)
(***************************************************************************)
Fairness ==
  \A t \in Threads :
    /\ WF_vars(Step(t))
    /\ \A n \in 1..MaxDepth : SF_vars(Depth(t) = n /\ CreateReturns(t))

FairSpec == Spec /\ Fairness

-----------------------------------------------------------------------------
TypeOK ==
  /\ scopes \in [Devices -> Scopes \cup {None}]
  /\ retirements \subseteq Retirement
  /\ entries \in [Scopes -> [Keys -> Entries \cup {None}]]
  /\ outcome \in [Entries -> Outcome]
  /\ waitingOn \in [Entries -> Entries \cup {None}]
  /\ activeProducer \in [Threads -> Entries \cup {None}]
  /\ stack \in [Threads -> Seq(Frame)]
  /\ life \in [Devices -> Nat]
  /\ bornIn \in [Entries -> Nat]

IsProducing(t, i) == stack[t][i].pc \in Producing

(* The waitingOn graph has no cycle, so the loop in WaitDependency's       *)
(* constructor always ends: no non-empty set of entries in which every     *)
(* entry waits on another of the set.                                      *)
Acyclic ==
  ~\E S \in (SUBSET Entries) \ {{}} : \A e \in S : waitingOn[e] \in S

(* No set of threads is blocked in ready.wait on entries that only threads *)
(* of the same set could complete: nested and cross-thread creation never  *)
(* deadlocks the cache.                                                    *)
NoWaitCycle ==
  ~\E S \in (SUBSET Threads) \ {{}} :
     \A t \in S :
       /\ At(t, "asleep")
       /\ \E u \in S : \E i \in 1..Depth(u) :
            stack[u][i].pc = "creating" /\ stack[u][i].entry = Top(t).entry

(* No lost wake-up: a thread asleep in ready.wait has a thread that will   *)
(* still call notify_all on its entry.                                     *)
NoOrphanWaiter ==
  \A t \in Threads : At(t, "asleep") =>
    \E u \in Threads : \E i \in 1..Depth(u) :
      /\ stack[u][i].pc \in {"creating", "notify"}
      /\ stack[u][i].entry = Top(t).entry

(* Raw pointers never dangle: whatever waitingOn or activeProducer points  *)
(* to is kept alive by a shared_ptr on the stack of the thread that wrote  *)
(* the pointer.                                                            *)
PointersHeld ==
  /\ \A t \in Threads : activeProducer[t] # None =>
       \E i \in 1..Depth(t) : stack[t][i].entry = activeProducer[t]
  /\ \A e \in Entries : waitingOn[e] # None =>
       \E t \in Threads : \E i, j \in 1..Depth(t) :
         /\ IsProducing(t, i) /\ stack[t][i].entry = e
         /\ stack[t][j].entry = waitingOn[e]

(* Single flight: two calls of create() that go through the cache for the  *)
(* same scope and key never overlap, whatever fails or is retired          *)
(* meanwhile.                                                              *)
SingleFlight ==
  \A t, u \in Threads : \A i \in 1..Depth(t), j \in 1..Depth(u) :
    /\ stack[t][i].pc = "creating"
    /\ stack[u][j].pc = "creating"
    /\ stack[t][i].scope = stack[u][j].scope
    /\ stack[t][i].key = stack[u][j].key
    => t = u /\ i = j

(* A pipeline made for one life of a device address is never handed to a   *)
(* caller of the next device at that address: whatever a call can find in  *)
(* its scope, or waits for, was made in the life the call began in.        *)
LifeIsolation ==
  \A t \in Threads : \A i \in 1..Depth(t) :
    LET f == stack[t][i]
    IN /\ f.pc = "lookup" =>
            \A k \in Keys : entries[f.scope][k] # None =>
              bornIn[entries[f.scope][k]] = f.life
       /\ f.pc \in {"asleep", "awake"} => bornIn[f.entry] = f.life

-----------------------------------------------------------------------------
(***************************************************************************)
(* The inductive invariant behind Acyclic, NoWaitCycle and NoOrphanWaiter. *)
(***************************************************************************)
ForeignBelowTop ==
  \A t \in Threads : \A i \in 1..(Depth(t) - 1) : stack[t][i].pc \in Foreign

OneProducerPerEntry ==
  \A t, u \in Threads : \A i \in 1..Depth(t), j \in 1..Depth(u) :
    IsProducing(t, i) /\ IsProducing(u, j)
      /\ stack[t][i].entry = stack[u][j].entry => t = u /\ i = j

PreviousIsBelow ==
  \A t \in Threads : \A j \in 1..Depth(t) :
    IsProducing(t, j) /\ stack[t][j].previous # None =>
      \E i \in 1..(j - 1) :
        IsProducing(t, i) /\ stack[t][i].entry = stack[t][j].previous

ActiveIsProducing ==
  \A t \in Threads : activeProducer[t] # None =>
    \E i \in 1..Depth(t) :
      IsProducing(t, i) /\ stack[t][i].entry = activeProducer[t]

SleeperLinked ==
  \A t \in Threads : At(t, "asleep") /\ activeProducer[t] # None =>
    waitingOn[activeProducer[t]] = Top(t).entry

EnclosingLinked ==
  \A t \in Threads : \A i \in 1..Depth(t) : IsProducing(t, i) =>
    \/ stack[t][i].entry = activeProducer[t]
    \/ \E j \in (i + 1)..Depth(t) :
         /\ IsProducing(t, j)
         /\ stack[t][j].previous = stack[t][i].entry
         /\ waitingOn[stack[t][i].entry] = stack[t][j].entry

PendingHasProducer ==
  \A e \in Entries : outcome[e] = "pending" =>
    \E t \in Threads : \E i \in 1..Depth(t) :
      stack[t][i].pc = "creating" /\ stack[t][i].entry = e

StackInv ==
  /\ ForeignBelowTop
  /\ OneProducerPerEntry
  /\ PreviousIsBelow
  /\ ActiveIsProducing
  /\ SleeperLinked
  /\ EnclosingLinked

(* What makes the cycle search sound: a sleeping thread's wait is linked   *)
(* from the entry it is producing, entries in production on one thread are *)
(* linked from the outermost to the innermost, each has one producer, and  *)
(* the links form no cycle.                                                *)
WaitInv ==
  /\ StackInv
  /\ Acyclic
  /\ PendingHasProducer
  /\ NoOrphanWaiter

(* Every call returns, provided the foreign code it runs or waits for      *)
(* returns: no waiter sleeps through its notification, and no nesting of   *)
(* creations on several threads blocks for ever.                           *)
EveryCallReturns ==
  \A t \in Threads : \A n \in 1..MaxDepth :
    (Depth(t) >= n) ~> (Depth(t) < n)

-----------------------------------------------------------------------------
(* What DeviceMemo knows of a key: the entry in the current scope of the   *)
(* device.  Detached scopes and the calls that still use them are hidden.  *)
Known(d, k) ==
  LET e == IF scopes[d] = None THEN None ELSE entries[scopes[d]][k]
  IN CASE e = None -> "absent"
       [] e # None /\ outcome[e] = "pending" -> "making"
       [] e # None /\ outcome[e] = "success" -> "made"
       [] OTHER -> "failed"

Destroying(d) ==
  \E t \in Threads : \E i \in 1..Depth(t) :
    stack[t][i].device = d /\ stack[t][i].pc \in {"detached", "retired"}

Memo == INSTANCE DeviceMemo WITH
  table <- [d \in Devices |-> [k \in Keys |-> Known(d, k)]],
  retiring <- {d \in Devices : Destroying(d)}

(* The cache implements the per-device memo of DeviceMemo: one creation of *)
(* a key at a time, a success kept until the device is forgotten, nothing  *)
(* kept of a failure, and nothing begun while the device is destroyed,     *)
(* whichever threads still work on scopes that were detached.              *)
ImplementsMemo == Memo!Spec

=============================================================================
