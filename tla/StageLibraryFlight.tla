------------------------- MODULE StageLibraryFlight -------------------------
(***************************************************************************)
(* Single-flight creation of Metal libraries                               *)
(* (getAndRetainLibrarySingleFlight, d3dmetal-pso-cache/stage-cache.mm).   *)
(* One thread at a time runs the native original() for a stage result and  *)
(* device; the others wait.  When the owner fails, its Flight stays        *)
(* registered for the waiters, and the first one to run takes it over.     *)
(*                                                                         *)
(* Each action is one critical section of gLibraryMutex, or the unlocked   *)
(* load of the library slot.  A key stands for stageResult, metalDevice.   *)
(***************************************************************************)
EXTENDS Integers, Sequences, FiniteSets

CONSTANTS
  Threads,
  Keys,
  Flights,   \* addresses of shared Flight objects
  None,      \* nullptr
  MaxDepth   \* bound: nesting of calls on one thread

VARIABLES
  registry,  \* gLibraryFlights: the Flight registered for each key
  flight,    \* the Flight objects
  library,   \* the keys whose library slot is set by native code
  stack      \* the calls in progress on each thread, innermost last

vars == <<registry, flight, library, stack>>

-----------------------------------------------------------------------------
Flight ==
  [running : BOOLEAN, succeeded : BOOLEAN, waiters : Nat,
   owner : Threads \cup {None}]

(***************************************************************************)
(*   search   the slot was empty; gLibraryMutex not yet taken              *)
(*   asleep   waiting for the Flight held                                  *)
(*   awake    notified, gLibraryMutex not yet reacquired                   *)
(*   owner    inside original(), as the owner of the Flight held           *)
(*   direct   inside original(), without a Flight                          *)
(***************************************************************************)
Call ==
  [pc : {"search", "asleep", "awake", "owner", "direct"}, key : Keys,
   held : Flights \cup {None}]

Depth(t) == Len(stack[t])
Top(t) == stack[t][Depth(t)]
At(t, pc) == Depth(t) > 0 /\ Top(t).pc = pc
Goto(t, pc, f) == [stack EXCEPT ![t][Depth(t)] = [@ EXCEPT !.pc = pc, !.held = f]]
Popped(t) == [stack EXCEPT ![t] = SubSeq(@, 1, Len(@) - 1)]

Held(f) == \E t \in Threads : \E i \in 1..Depth(t) : stack[t][i].held = f
Allocated(f) == Held(f) \/ \E k \in Keys : registry[k] = f

(* LibraryCallScope::depth of thread t is not zero. *)
InLibraryCall(t) == \E i \in 1..Depth(t) : stack[t][i].pc = "owner"

Init ==
  /\ registry = [k \in Keys |-> None]
  /\ flight = [f \in Flights |-> [running |-> FALSE, succeeded |-> FALSE,
                                  waiters |-> 0, owner |-> None]]
  /\ library = {}
  /\ stack = [t \in Threads |-> <<>>]

-----------------------------------------------------------------------------
(* The unlocked acquire load of the library slot. *)
GetAndRetainLibrary(t, k) ==
  /\ Depth(t) < MaxDepth
  /\ Depth(t) > 0 => Top(t).pc \in {"owner", "direct"}
  /\ stack' = [stack EXCEPT ![t] = Append(@,
       [pc |-> IF k \in library THEN "direct" ELSE "search",
        key |-> k, held |-> None])]
  /\ UNCHANGED <<registry, flight, library>>

(* No Flight is registered: register one and own it. *)
OwnNew(t) ==
  /\ At(t, "search")
  /\ registry[Top(t).key] = None
  /\ \E f \in Flights :
       /\ ~Allocated(f)
       /\ registry' = [registry EXCEPT ![Top(t).key] = f]
       /\ flight' = [flight EXCEPT ![f] =
            [running |-> TRUE, succeeded |-> FALSE, waiters |-> 0, owner |-> t]]
       /\ stack' = Goto(t, "owner", f)
  /\ UNCHANGED library

Bypasses(t, f) ==
  flight[f].running /\ (flight[f].owner = t \/ InLibraryCall(t))

(* A wait that could close a cycle: original() is called directly. *)
Bypass(t) ==
  LET f == registry[Top(t).key]
  IN /\ At(t, "search")
     /\ f # None
     /\ Bypasses(t, f)
     /\ stack' = Goto(t, "direct", None)
     /\ UNCHANGED <<registry, flight, library>>

(* ++waiters, and the wait for the owner. *)
Wait(t) ==
  LET f == registry[Top(t).key]
  IN /\ At(t, "search")
     /\ f # None
     /\ flight[f].running
     /\ ~Bypasses(t, f)
     /\ flight' = [flight EXCEPT ![f].waiters = @ + 1]
     /\ stack' = Goto(t, "asleep", f)
     /\ UNCHANGED <<registry, library>>

(* Woken, but another waiter has taken the Flight over: wait again. *)
WaitAgain(t) ==
  /\ At(t, "awake")
  /\ flight[Top(t).held].running
  /\ stack' = Goto(t, "asleep", Top(t).held)
  /\ UNCHANGED <<registry, flight, library>>

(* Woken by a success: original() finds the library. *)
WokenBySuccess(t) ==
  LET f == Top(t).held
  IN /\ At(t, "awake")
     /\ ~flight[f].running
     /\ flight[f].succeeded
     /\ flight' = [flight EXCEPT ![f].waiters = @ - 1]
     /\ stack' = Goto(t, "direct", None)
     /\ UNCHANGED <<registry, library>>

(* A failed Flight gets a new owner. *)
TakenOver_NotRunning(t, f) == [flight[f] EXCEPT !.owner = t]
TakenOver(t, f) == [flight[f] EXCEPT !.owner = t, !.running = TRUE]

(* Woken by a failure: this waiter becomes the owner. *)
TakeOver(t) ==
  LET f == Top(t).held
  IN /\ At(t, "awake")
     /\ ~flight[f].running
     /\ ~flight[f].succeeded
     /\ flight' = [flight EXCEPT ![f] = [TakenOver(t, f) EXCEPT !.waiters = @ - 1]]
     /\ stack' = Goto(t, "owner", f)
     /\ UNCHANGED <<registry, library>>

(* A failed Flight, found before its waiters have run: the wait returns    *)
(* without releasing the mutex, and this call becomes the owner at once,   *)
(* even when it is nested in another one.                                  *)
TakeOverFound(t) ==
  LET f == registry[Top(t).key]
  IN /\ At(t, "search")
     /\ f # None
     /\ ~flight[f].running
     /\ ~flight[f].succeeded
     /\ flight' = [flight EXCEPT ![f] = TakenOver(t, f)]
     /\ stack' = Goto(t, "owner", f)
     /\ UNCHANGED <<registry, library>>

(* eraseLibraryFlight(f), when the condition erase holds. *)
Erased(f, erase) ==
  [k \in Keys |-> IF erase /\ registry[k] = f THEN None ELSE registry[k]]

(* notify_all: the call itself returns, the sleepers on f wake up. *)
NotifiedAndReturned(t, f) ==
  [u \in Threads |->
     [i \in 1..(IF u = t THEN Depth(t) - 1 ELSE Depth(u)) |->
        IF stack[u][i].pc = "asleep" /\ stack[u][i].held = f
        THEN [stack[u][i] EXCEPT !.pc = "awake"] ELSE stack[u][i]]]

(* original() returns a library (ok), or nil or throws: native code does   *)
(* not fail once the slot is set, and sets it when it succeeds.            *)
Native(k, ok) ==
  /\ k \in library => ok
  /\ library' = IF ok THEN library \cup {k} ELSE library

EraseAfter_OnSuccessOnly(f, ok) == ok
EraseAfter(f, ok) == ok \/ flight[f].waiters = 0

(* The owner's original() is over: publish, erase and notify. *)
OwnerReturns(t, ok) ==
  LET f == Top(t).held
  IN /\ At(t, "owner")
     /\ Native(Top(t).key, ok)
     /\ flight' = [flight EXCEPT ![f].running = FALSE, ![f].succeeded = ok]
     /\ registry' = Erased(f, EraseAfter(f, ok))
     /\ stack' = NotifiedAndReturned(t, f)

DirectReturns(t, ok) ==
  /\ At(t, "direct")
  /\ Native(Top(t).key, ok)
  /\ stack' = Popped(t)
  /\ UNCHANGED <<registry, flight>>

-----------------------------------------------------------------------------
Step(t) ==
  \/ OwnNew(t)
  \/ Bypass(t)
  \/ Wait(t)
  \/ WaitAgain(t)
  \/ WokenBySuccess(t)
  \/ TakeOver(t)
  \/ TakeOverFound(t)

OriginalReturns(t) ==
  \E ok \in BOOLEAN : OwnerReturns(t, ok) \/ DirectReturns(t, ok)

Next ==
  \E t \in Threads :
    \/ \E k \in Keys : GetAndRetainLibrary(t, k)
    \/ Step(t)
    \/ OriginalReturns(t)

Spec == Init /\ [][Next]_vars

-----------------------------------------------------------------------------
TypeOK ==
  /\ registry \in [Keys -> Flights \cup {None}]
  /\ flight \in [Flights -> Flight]
  /\ library \subseteq Keys
  /\ stack \in [Threads -> Seq(Call)]

Waiting(t) == Depth(t) > 0 /\ Top(t).pc \in {"asleep", "awake"}
WaitersOf(f) == {t \in Threads : Waiting(t) /\ Top(t).held = f}
OwnersOf(f) ==
  {a \in Threads \X (1..MaxDepth) :
     /\ a[2] <= Depth(a[1])
     /\ stack[a[1]][a[2]].pc = "owner"
     /\ stack[a[1]][a[2]].held = f}

(* A Flight is running exactly while one thread is inside original() for   *)
(* it as the owner, also across failures and takeovers, and that thread is *)
(* the recorded owner.                                                     *)
OneOwnerPerFlight ==
  \A f \in Flights :
    /\ flight[f].running <=> OwnersOf(f) # {}
    /\ \A a, b \in OwnersOf(f) : a = b
    /\ \A a \in OwnersOf(f) : flight[f].owner = a[1]

(* Two threads never run original() as owners for the same key: a failed   *)
(* Flight's successor is the Flight itself, never a second one.            *)
OneOwnerPerKey ==
  \A t, u \in Threads : \A i \in 1..Depth(t), j \in 1..Depth(u) :
    /\ stack[t][i].pc = "owner"
    /\ stack[u][j].pc = "owner"
    /\ stack[t][i].key = stack[u][j].key
    => t = u /\ i = j

(* gLibraryFlights does not leak: a registered Flight has an owner, or a   *)
(* waiter that has been woken to take it over; the waiters field counts    *)
(* the waiting threads exactly.                                            *)
RegisteredHasFuture ==
  /\ \A f \in Flights : flight[f].waiters = Cardinality(WaitersOf(f))
  /\ \A k \in Keys :
       LET f == registry[k]
       IN f # None /\ ~flight[f].running =>
            \E t \in WaitersOf(f) : Top(t).pc = "awake"
=============================================================================
