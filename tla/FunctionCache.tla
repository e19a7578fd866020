---------------------------- MODULE FunctionCache ----------------------------
(***************************************************************************)
(* The extracted-function cache of the D3DMetal sidecar                    *)
(* (d3dmetal-pso-cache/function-cache.mm).  Unlike the pipeline cache it   *)
(* keeps no dependency graph: a thread that is inside any producer call    *)
(* (producerDepth) never waits.  A result is cached only when its array is *)
(* reusable and could be copied; waiters of any other result start over.   *)
(* Keys hold the address of a Metal library, so an entry must keep its     *)
(* library alive for as long as the key can be found.                      *)
(*                                                                         *)
(* A key is identified with the library address in it; the rest of the key *)
(* only adds further keys of the same library.                             *)
(***************************************************************************)
EXTENDS Integers, Sequences

CONSTANTS
  Threads,
  Destroyers,   \* the threads that also retire or forget devices
  Devices,
  Libraries,    \* library addresses; an address is reused once free
  Scopes,       \* addresses of DeviceScope objects
  Entries,      \* addresses of Entry objects
  None,         \* nullptr
  MaxDepth,     \* bound: nesting of calls on one thread
  MaxUses       \* bound: how often a library address is reused

ASSUME NoneAssumption ==
  None \notin Threads \cup Devices \cup Libraries \cup Scopes \cup Entries
ASSUME DestroyerAssumption == Destroyers \subseteq Threads
ASSUME BoundAssumption == MaxDepth \in Nat \ {0} /\ MaxUses \in Nat

VARIABLES
  scopes,       \* scopes_: the current scope of each device
  retirements,  \* retirements_
  entries,      \* DeviceScope::entries of each scope
  outcome,      \* Entry::complete, cached and the exceptions
  retained,     \* Entry::library is set
  stack,        \* the calls in progress on each thread, innermost last
  uses,         \* history: how often each library address was reused
  madeFrom      \* history: the use of the address an entry was made from

vars == <<scopes, retirements, entries, outcome, retained, stack, uses, madeFrom>>
shared == <<scopes, retirements, entries, outcome, retained, uses, madeFrom>>

-----------------------------------------------------------------------------
(* "uncached" is complete without a value; "thrown" is complete with an    *)
(* exception for the waiters.                                              *)
Outcome == {"pending", "cached", "uncached", "thrown"}

(***************************************************************************)
(*   lookup     getOrCreate has its scope, not yet the scope's mutex       *)
(*   asleep     blocked in ready.wait                                      *)
(*   awake      notified, not yet through ready.wait                       *)
(*   copying    a hit, inside mutableCopy                                  *)
(*   retaining  the producer, inside [library retain]                      *)
(*   creating   the producer, inside create()                              *)
(*   snapshot   the producer, inside copy                                  *)
(*   notify     entry complete, notify_all not yet called, then return     *)
(*   abandon    as notify, but then create() without an entry              *)
(*   direct     inside create() without an entry                           *)
(*   detached, retired, forgetting   as in PsoCache                        *)
(***************************************************************************)
Retiring == {"detached", "retired", "forgetting"}
Producing == {"retaining", "creating", "snapshot", "notify", "abandon"}
Foreign == {"copying", "retaining", "creating", "snapshot", "direct"} \cup Retiring
PC == Foreign \cup Producing \cup {"lookup", "asleep", "awake"}

Retirement == [owner : Threads, depth : 1..MaxDepth, device : Devices]

Frame ==
  [pc : PC, device : Devices, library : Libraries \cup {None},
   scope : Scopes \cup {None}, entry : Entries \cup {None}]

NewFrame(pc, d, l, s) ==
  [pc |-> pc, device |-> d, library |-> l, scope |-> s, entry |-> None]

Depth(t) == Len(stack[t])
Top(t) == stack[t][Depth(t)]
At(t, pc) == Depth(t) > 0 /\ Top(t).pc = pc
CanCall(t) ==
  /\ Depth(t) < MaxDepth
  /\ Depth(t) > 0 => Top(t).pc \in Foreign

Pushed(t, f) == [stack EXCEPT ![t] = Append(@, f)]
Popped(t) == [stack EXCEPT ![t] = SubSeq(@, 1, Len(@) - 1)]
Goto(t, pc) == [stack EXCEPT ![t][Depth(t)].pc = pc]
GotoEntry(t, pc, e) ==
  [stack EXCEPT ![t][Depth(t)] = [@ EXCEPT !.pc = pc, !.entry = e]]

(* producerDepth # 0: a ProducerGuard is alive on t. *)
InProducer_CreateOnly(t) ==
  \E i \in 1..Depth(t) : stack[t][i].pc = "direct"
InProducer(t) ==
  \E i \in 1..Depth(t) : stack[t][i].pc \in Producing \cup {"copying", "direct"}

ScopeAllocated(s) ==
  \/ \E d \in Devices : scopes[d] = s
  \/ \E t \in Threads : \E i \in 1..Depth(t) : stack[t][i].scope = s
EntryAllocated(e) ==
  \/ \E t \in Threads : \E i \in 1..Depth(t) : stack[t][i].entry = e
  \/ \E s \in Scopes : ScopeAllocated(s) /\ \E l \in Libraries : entries[s][l] = e

IsRetired(d) == \E r \in retirements : r.device = d
NoEntries == [l \in Libraries |-> None]

Init ==
  /\ scopes = [d \in Devices |-> None]
  /\ retirements = {}
  /\ entries = [s \in Scopes |-> NoEntries]
  /\ outcome = [e \in Entries |-> "uncached"]
  /\ retained = [e \in Entries |-> None]
  /\ stack = [t \in Threads |-> <<>>]
  /\ uses = [l \in Libraries |-> 0]
  /\ madeFrom = [e \in Entries |-> 0]

(* The application and Metal: a library no call is using and no entry      *)
(* retains is freed, and another one gets its address.                     *)
LibraryReplaced(l) ==
  /\ uses[l] < MaxUses
  /\ \A t \in Threads : \A i \in 1..Depth(t) : stack[t][i].library # l
  /\ \A e \in Entries : retained[e] = l => ~EntryAllocated(e)
  /\ uses' = [uses EXCEPT ![l] = @ + 1]
  /\ UNCHANGED <<scopes, retirements, entries, outcome, retained, stack, madeFrom>>

-----------------------------------------------------------------------------
(* getOrCreate, first half: scopeFor under scopesMutex_. *)

(* Retired device, or std::bad_alloc while making the scope. *)
ScopeRefused(t, d, l) ==
  /\ CanCall(t)
  /\ IsRetired(d) \/ scopes[d] = None
  /\ stack' = Pushed(t, NewFrame("direct", d, l, None))
  /\ UNCHANGED shared

ScopeFound(t, d, l) ==
  /\ CanCall(t)
  /\ ~IsRetired(d)
  /\ scopes[d] # None
  /\ stack' = Pushed(t, NewFrame("lookup", d, l, scopes[d]))
  /\ UNCHANGED shared

ScopeCreated(t, d, l) ==
  /\ CanCall(t)
  /\ ~IsRetired(d)
  /\ scopes[d] = None
  /\ \E s \in Scopes :
       /\ ~ScopeAllocated(s)
       /\ scopes' = [scopes EXCEPT ![d] = s]
       /\ entries' = [entries EXCEPT ![s] = NoEntries]
       /\ stack' = Pushed(t, NewFrame("lookup", d, l, s))
  /\ UNCHANGED <<retirements, outcome, retained, uses, madeFrom>>

-----------------------------------------------------------------------------
(* getOrCreate, the loop: the lookup under DeviceScope::mutex. *)

Found(t) == entries[Top(t).scope][Top(t).library]

(* No entry: make one and become its producer. *)
Produce(t) ==
  /\ At(t, "lookup")
  /\ Found(t) = None
  /\ \E e \in Entries :
       /\ ~EntryAllocated(e)
       /\ entries' = [entries EXCEPT ![Top(t).scope][Top(t).library] = e]
       /\ outcome' = [outcome EXCEPT ![e] = "pending"]
       /\ retained' = [retained EXCEPT ![e] = None]
       /\ madeFrom' = [madeFrom EXCEPT ![e] = uses[Top(t).library]]
       /\ stack' = GotoEntry(t, "retaining", e)
  /\ UNCHANGED <<scopes, retirements, uses>>

(* std::bad_alloc while making or inserting the entry. *)
EntryAllocFails(t) ==
  /\ At(t, "lookup")
  /\ Found(t) = None
  /\ stack' = Goto(t, "direct")
  /\ UNCHANGED shared

(* Somebody else is producing, and this thread is inside a producer. *)
Bypass(t) ==
  /\ At(t, "lookup")
  /\ Found(t) # None
  /\ outcome[Found(t)] = "pending"
  /\ InProducer(t)
  /\ stack' = GotoEntry(t, "direct", Found(t))
  /\ UNCHANGED shared

Wait(t) ==
  /\ At(t, "lookup")
  /\ Found(t) # None
  /\ outcome[Found(t)] = "pending"
  /\ ~InProducer(t)
  /\ stack' = GotoEntry(t, "asleep", Found(t))
  /\ UNCHANGED shared

(* The entry e this call looked up or waited for is complete: its          *)
(* exception is thrown, its snapshot copied, or the loop starts over.      *)
Completed(t, e) ==
  \/ /\ outcome[e] = "thrown"
     /\ stack' = Popped(t)
  \/ /\ outcome[e] = "cached"
     /\ stack' = GotoEntry(t, "copying", e)
  \/ /\ outcome[e] = "uncached"
     /\ stack' = GotoEntry(t, "lookup", None)

(* A complete entry that is still mapped is a cached one. *)
Hit(t) ==
  /\ At(t, "lookup")
  /\ Found(t) # None
  /\ outcome[Found(t)] = "cached"
  /\ stack' = GotoEntry(t, "copying", Found(t))
  /\ UNCHANGED shared

Resume(t) ==
  /\ At(t, "awake")
  /\ Completed(t, Top(t).entry)
  /\ UNCHANGED shared

(* mutableCopy succeeds or throws; or it is out of memory, and create() is *)
(* called directly.                                                        *)
CopyReturns(t) ==
  /\ At(t, "copying")
  /\ stack' \in {Popped(t), Goto(t, "direct")}
  /\ UNCHANGED shared

-----------------------------------------------------------------------------
(* getOrCreate, the producer. *)

(* eraseIfCurrent, called for every outcome but a cached one. *)
ErasedUnlessCached_Never(t, o) == entries
ErasedUnlessCached(t, o) ==
  [entries EXCEPT ![Top(t).scope][Top(t).library] =
     IF o # "cached" /\ @ = Top(t).entry THEN None ELSE @]

(* publishException, finishWithoutValue or the normal publication: under   *)
(* DeviceScope::mutex.                                                     *)
Publish(t, o, pc) ==
  /\ outcome' = [outcome EXCEPT ![Top(t).entry] = o]
  /\ entries' = ErasedUnlessCached(t, o)
  /\ stack' = Goto(t, pc)
  /\ UNCHANGED <<scopes, retirements, retained, uses, madeFrom>>

(* [library retain] keeps the library alive with the entry. *)
Retained_Skipped(t) == retained
Retained(t) == [retained EXCEPT ![Top(t).entry] = Top(t).library]

RetainReturns(t) ==
  /\ At(t, "retaining")
  /\ retained' = Retained(t)
  /\ stack' = Goto(t, "creating")
  /\ UNCHANGED <<scopes, retirements, entries, outcome, uses, madeFrom>>

(* [library retain] is out of memory (the flight ends without a value and  *)
(* create() is called directly), or throws.                                *)
RetainFails(t) ==
  /\ At(t, "retaining")
  /\ Publish(t, "uncached", "abandon") \/ Publish(t, "thrown", "notify")

(* create() returns a reusable array: the next step copies it. *)
CreateReturns(t) ==
  /\ At(t, "creating")
  /\ stack' = Goto(t, "snapshot")
  /\ UNCHANGED shared

(* create() returns nil or an array not to be reused, or throws. *)
CreateUncached(t) ==
  /\ At(t, "creating")
  /\ Publish(t, "uncached", "notify") \/ Publish(t, "thrown", "notify")

(* copy returns, is out of memory, or throws. *)
SnapshotReturns(t) ==
  /\ At(t, "snapshot")
  /\ \E o \in Outcome \ {"pending"} : Publish(t, o, "notify")

(* notify_all, after the mutex is released; then the call returns, or goes *)
(* on with create().                                                       *)
AfterNotify(t, u, i) ==
  LET f == stack[u][i]
  IN IF f.pc = "asleep" /\ f.entry = Top(t).entry
     THEN [f EXCEPT !.pc = "awake"]
     ELSE IF u = t /\ i = Depth(t) THEN [f EXCEPT !.pc = "direct"]
     ELSE f

NotifyAll(t) ==
  LET n(u) == IF u = t /\ At(t, "notify") THEN Depth(u) - 1 ELSE Depth(u)
  IN /\ At(t, "notify") \/ At(t, "abandon")
     /\ stack' = [u \in Threads |-> [i \in 1..n(u) |-> AfterNotify(t, u, i)]]
     /\ UNCHANGED shared

DirectReturns(t) ==
  /\ At(t, "direct")
  /\ stack' = Popped(t)
  /\ UNCHANGED shared

-----------------------------------------------------------------------------
(* Device retirement. *)

ForgetDevice(t, d) ==
  /\ CanCall(t)
  /\ stack' = Pushed(t, NewFrame("forgetting", d, None, scopes[d]))
  /\ scopes' = [scopes EXCEPT ![d] = None]
  /\ UNCHANGED <<retirements, entries, outcome, retained, uses, madeFrom>>

WithDeviceRetired(t, d) ==
  /\ CanCall(t)
  /\ retirements' = retirements \cup
       {[owner |-> t, depth |-> Depth(t) + 1, device |-> d]}
  /\ stack' = Pushed(t, NewFrame("detached", d, None, scopes[d]))
  /\ scopes' = [scopes EXCEPT ![d] = None]
  /\ UNCHANGED <<entries, outcome, retained, uses, madeFrom>>

(* forgotten.reset(): the scope's entries die, outside every mutex. *)
ReleaseForgotten(t) ==
  /\ At(t, "detached")
  /\ stack' = [stack EXCEPT ![t][Depth(t)] =
                 [@ EXCEPT !.pc = "retired", !.scope = None]]
  /\ UNCHANGED shared

ForgetReturns(t) ==
  /\ At(t, "forgetting")
  /\ stack' = Popped(t)
  /\ UNCHANGED shared

EndRetirement_All(t) ==
  /\ At(t, "retired")
  /\ retirements' = {r \in retirements : r.device # Top(t).device}
  /\ stack' = Popped(t)
  /\ UNCHANGED <<scopes, entries, outcome, retained, uses, madeFrom>>
EndRetirement(t) ==
  /\ At(t, "retired")
  /\ retirements' = retirements \
       {[owner |-> t, depth |-> Depth(t), device |-> Top(t).device]}
  /\ stack' = Popped(t)
  /\ UNCHANGED <<scopes, entries, outcome, retained, uses, madeFrom>>

-----------------------------------------------------------------------------
Call(t) ==
  \E d \in Devices, l \in Libraries :
    \/ ScopeRefused(t, d, l)
    \/ ScopeFound(t, d, l)
    \/ ScopeCreated(t, d, l)

Retire(t) ==
  \E d \in Devices : ForgetDevice(t, d) \/ WithDeviceRetired(t, d)

Step(t) ==
  \/ Produce(t)
  \/ EntryAllocFails(t)
  \/ Bypass(t)
  \/ Wait(t)
  \/ Hit(t)
  \/ Resume(t)
  \/ NotifyAll(t)

ForeignReturns(t) ==
  \/ CopyReturns(t)
  \/ RetainReturns(t)
  \/ RetainFails(t)
  \/ CreateReturns(t)
  \/ CreateUncached(t)
  \/ SnapshotReturns(t)
  \/ DirectReturns(t)
  \/ ReleaseForgotten(t)
  \/ ForgetReturns(t)
  \/ EndRetirement(t)

Next ==
  \/ \E t \in Threads : Call(t) \/ Step(t) \/ ForeignReturns(t)
  \/ \E t \in Destroyers : Retire(t)
  \/ \E l \in Libraries : LibraryReplaced(l)

Spec == Init /\ [][Next]_vars

-----------------------------------------------------------------------------
TypeOK ==
  /\ scopes \in [Devices -> Scopes \cup {None}]
  /\ retirements \subseteq Retirement
  /\ entries \in [Scopes -> [Libraries -> Entries \cup {None}]]
  /\ outcome \in [Entries -> Outcome]
  /\ retained \in [Entries -> Libraries \cup {None}]
  /\ stack \in [Threads -> Seq(Frame)]
  /\ uses \in [Libraries -> Nat]
  /\ madeFrom \in [Entries -> Nat]

Waiting(t) == Depth(t) > 0 /\ Top(t).pc \in {"asleep", "awake"}

(* A thread that waits is nobody's producer at any depth, and somebody     *)
(* else will still notify it: waits form no cycle, and no wake-up is lost. *)
WaitersSafe ==
  \A t \in Threads :
    /\ Waiting(t) => \A i \in 1..Depth(t) : stack[t][i].pc \notin Producing
    /\ At(t, "asleep") =>
         \E u \in Threads \ {t} : \E i \in 1..Depth(u) :
           stack[u][i].pc \in Producing /\ stack[u][i].entry = Top(t).entry

(* What a reachable scope maps is cached, or in production by exactly one  *)
(* call; so exceptions and unusable results never outlive their waiters,   *)
(* and creations of one key through the cache never overlap.               *)
MappedIsCachedOrFlying ==
  \A s \in Scopes, l \in Libraries :
    LET e == entries[s][l]
        Producers == {p \in Threads \X (1..MaxDepth) :
                        /\ p[2] <= Depth(p[1])
                        /\ stack[p[1]][p[2]].pc \in {"retaining", "creating", "snapshot"}
                        /\ stack[p[1]][p[2]].scope = s
                        /\ stack[p[1]][p[2]].library = l}
    IN /\ ScopeAllocated(s) /\ e # None /\ outcome[e] # "cached" => Producers # {}
       /\ \A p, q \in Producers : p = q

(* Functions of a dead library are never returned for a new library at the *)
(* same address: whatever a call finds, waits for or copies was extracted  *)
(* from the library object the caller passed.                              *)
LibraryIdentity ==
  \A t \in Threads : \A i \in 1..Depth(t) :
    LET f == stack[t][i]
    IN /\ f.pc = "lookup" /\ entries[f.scope][f.library] # None =>
            madeFrom[entries[f.scope][f.library]] = uses[f.library]
       /\ f.pc \in {"asleep", "awake", "copying"} =>
            madeFrom[f.entry] = uses[f.library]

-----------------------------------------------------------------------------
(* What DeviceMemo knows of a key, in the current scope of the device. *)
Known(d, l) ==
  LET e == IF scopes[d] = None THEN None ELSE entries[scopes[d]][l]
  IN CASE e = None -> "absent"
       [] e # None /\ outcome[e] = "pending" -> "making"
       [] e # None /\ outcome[e] = "cached" -> "made"
       [] OTHER -> "failed"

Destroying(d) ==
  \E t \in Threads : \E i \in 1..Depth(t) :
    stack[t][i].device = d /\ stack[t][i].pc \in {"detached", "retired"}

Memo == INSTANCE DeviceMemo WITH
  Keys <- Libraries,
  table <- [d \in Devices |-> [l \in Libraries |-> Known(d, l)]],
  retiring <- {d \in Devices : Destroying(d)}

(* The function cache keeps the same promise as the pipeline cache: one    *)
(* extraction of a key at a time, results kept until the device is         *)
(* forgotten, unusable results not at all, and nothing while a thread is   *)
(* destroying the device, also when destructions nest or overlap.          *)
ImplementsMemo == Memo!Spec

=============================================================================
