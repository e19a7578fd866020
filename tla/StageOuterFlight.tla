-------------------------- MODULE StageOuterFlight --------------------------
(***************************************************************************)
(* Coalescing of stage compiles (d3dmetal-pso-cache/stage-cache.mm).       *)
(* compileStages puts an OuterScope on the C++ stack and calls the native  *)
(* compiler; when the native code computes its stage key, the key hook     *)
(* either registers the scope's Flight for that key, waits for the Flight  *)
(* another thread has registered, or goes on without coalescing.  Flights  *)
(* live in stack frames: finish() must keep its frame until no waiter can  *)
(* touch the Flight any more.                                              *)
(*                                                                         *)
(* Each action is one critical section of gOuterMutex.  A key stands for   *)
(* the triple cache, graphics, key bytes that sameKey compares.            *)
(***************************************************************************)
EXTENDS Integers, Sequences, FiniteSets

CONSTANTS
  Threads,
  Keys,
  None,      \* nullptr
  MaxDepth   \* bound: nesting of compiles on one thread

VARIABLES
  flights,   \* gOuterFlights: the addresses of the registered Flights
  stack      \* the OuterScopes of each thread, innermost last

vars == <<flights, stack>>

-----------------------------------------------------------------------------
(* The address of a Flight is the stack slot of its OuterScope. *)
Address == Threads \X (1..MaxDepth)

(***************************************************************************)
(* An OuterScope with its Flight and the position of its thread:           *)
(*   compiling  in native code                                             *)
(*   asleep     in registerOuterKey's wait for the Flight at on            *)
(*   awake      notified there, gOuterMutex not yet reacquired             *)
(*   draining   in finish()'s wait for its own waiters to leave            *)
(*   drained    notified there, gOuterMutex not yet reacquired             *)
(***************************************************************************)
OuterScope ==
  [pc : {"compiling", "asleep", "awake", "draining", "drained"},
   key : Keys \cup {None}, owned : BOOLEAN, running : BOOLEAN,
   succeeded : BOOLEAN, waiters : Nat,
   on : Address \cup {None}, want : Keys \cup {None}]

NewScope ==
  [pc |-> "compiling", key |-> None, owned |-> FALSE, running |-> TRUE,
   succeeded |-> FALSE, waiters |-> 0, on |-> None, want |-> None]

Depth(t) == Len(stack[t])
Top(t) == stack[t][Depth(t)]
At(t, pc) == Depth(t) > 0 /\ Top(t).pc = pc
Here(t) == <<t, Depth(t)>>
Flight(a) == stack[a[1]][a[2]]

Popped(st, t) == [st EXCEPT ![t] = SubSeq(@, 1, Len(@) - 1)]

Init ==
  /\ flights = {}
  /\ stack = [t \in Threads |-> <<>>]

(* The search through gOuterFlights by sameKey. *)
Registered(k) == {a \in flights : Flight(a).key = k}

(* Waiting could close a cycle: the flight is this thread's own, or this   *)
(* compile is nested in another one.                                       *)
Bypasses_OwnOnly(t, a) == Flight(a).running /\ a[1] = t
Bypasses(t, a) == Flight(a).running /\ (a[1] = t \/ Depth(t) > 1)

(* What completed.notify_all at address a does to a scope at b. *)
Notified(a, b, f) ==
  IF f.pc = "asleep" /\ f.on = a THEN [f EXCEPT !.pc = "awake"]
  ELSE IF f.pc = "draining" /\ a = b THEN [f EXCEPT !.pc = "drained"]
  ELSE f

NotifiedAll(st, a) ==
  [t \in Threads |->
     [i \in 1..Len(st[t]) |-> Notified(a, <<t, i>>, st[t][i])]]

-----------------------------------------------------------------------------
(* compileStages constructs its OuterScope and calls the native compiler. *)
Compile(t) ==
  /\ Depth(t) < MaxDepth
  /\ Depth(t) > 0 => Top(t).pc = "compiling"
  /\ stack' = [stack EXCEPT ![t] = Append(@, NewScope)]
  /\ UNCHANGED flights

(* registerOuterKey's loop body, on the stacks st. *)
Own_NoSearch(st, t, k) ==
  /\ flights' = flights \cup {Here(t)}
  /\ stack' = [st EXCEPT ![t][Depth(t)] =
                 [@ EXCEPT !.pc = "compiling", !.key = k, !.owned = TRUE,
                           !.on = None, !.want = None]]
Own(st, t, k) ==
  /\ Registered(k) = {}
  /\ flights' = flights \cup {Here(t)}
  /\ stack' = [st EXCEPT ![t][Depth(t)] =
                 [@ EXCEPT !.pc = "compiling", !.key = k, !.owned = TRUE,
                           !.on = None, !.want = None]]

Wait(st, t, k) ==
  \E a \in Registered(k) :
    /\ ~Bypasses(t, a)
    /\ stack' = [st EXCEPT
         ![a[1]][a[2]].waiters = @ + 1,
         ![t][Depth(t)] = [@ EXCEPT !.pc = "asleep", !.on = a, !.want = k]]
    /\ UNCHANGED flights

(* registerOuterKey, for a scope that owns no flight yet. *)
RegisterKey(t, k) ==
  /\ At(t, "compiling")
  /\ ~Top(t).owned
  /\ \/ Own(stack, t, k)
     \/ Wait(stack, t, k)
     \/ /\ \E a \in Registered(k) : Bypasses(t, a)
        /\ UNCHANGED vars

(* A woken waiter leaves the Flight; the last one notifies its owner. *)
LeftFlight(t) ==
  LET a == Top(t).on
      st == [stack EXCEPT ![a[1]][a[2]].waiters = @ - 1]
  IN IF st[a[1]][a[2]].waiters = 0 THEN NotifiedAll(st, a) ELSE st

(* The wait of registerOuterKey returns: the compile proceeds after a      *)
(* success, and searches again after a failure.                            *)
Woken(t) ==
  /\ At(t, "awake")
  /\ ~Flight(Top(t).on).running
  /\ \/ /\ Flight(Top(t).on).succeeded
        /\ stack' = [LeftFlight(t) EXCEPT ![t][Depth(t)] =
                       [@ EXCEPT !.pc = "compiling", !.on = None,
                                 !.want = None]]
        /\ UNCHANGED flights
     \/ /\ ~Flight(Top(t).on).succeeded
        /\ \/ Own(LeftFlight(t), t, Top(t).want)
           \/ Wait(LeftFlight(t), t, Top(t).want)

(* The native compiler returns a result (ok), or nil, or throws: finish()  *)
(* of a scope that owns no flight does nothing.                            *)
FinishUnowned(t) ==
  /\ At(t, "compiling")
  /\ ~Top(t).owned
  /\ stack' = Popped(stack, t)
  /\ UNCHANGED flights

Finished(t, ok) ==
  NotifiedAll([stack EXCEPT ![t][Depth(t)] =
                 [@ EXCEPT !.running = FALSE, !.succeeded = ok]], Here(t))

(* finish() of an owner: the scope dies at once, or once drained. *)
Finish_NoDrain(t, ok) ==
  /\ At(t, "compiling")
  /\ Top(t).owned
  /\ flights' = flights \ {Here(t)}
  /\ stack' = Popped(Finished(t, ok), t)
Finish(t, ok) ==
  /\ At(t, "compiling")
  /\ Top(t).owned
  /\ flights' = flights \ {Here(t)}
  /\ stack' = IF Top(t).waiters = 0 THEN Popped(Finished(t, ok), t)
              ELSE [Finished(t, ok) EXCEPT ![t][Depth(t)].pc = "draining"]

Drained(t) ==
  /\ At(t, "drained")
  /\ Top(t).waiters = 0
  /\ stack' = Popped(stack, t)
  /\ UNCHANGED flights

-----------------------------------------------------------------------------
NativeReturns(t) == FinishUnowned(t) \/ \E ok \in BOOLEAN : Finish(t, ok)

Resume(t) == Woken(t) \/ Drained(t)

Next ==
  \E t \in Threads :
    \/ Compile(t)
    \/ \E k \in Keys : RegisterKey(t, k)
    \/ Resume(t)
    \/ NativeReturns(t)

Spec == Init /\ [][Next]_vars

-----------------------------------------------------------------------------
TypeOK ==
  /\ flights \subseteq Address
  /\ stack \in [Threads -> Seq(OuterScope)]

Waiting(t) == Depth(t) > 0 /\ Top(t).pc \in {"asleep", "awake"}
WaitersOf(a) == {t \in Threads : Waiting(t) /\ Top(t).on = a}

(* No waiter ever touches a Flight whose stack frame is gone, or was       *)
(* reused by another compile: the Flight it waits on belongs to a live     *)
(* scope that owns the waiter's key, and each Flight's waiters counts      *)
(* exactly the threads that will still touch it.                           *)
FlightOutlivesWaiters ==
  \A t \in Threads :
    /\ Waiting(t) =>
         LET a == Top(t).on
         IN /\ a[2] <= Depth(a[1])
            /\ Flight(a).owned
            /\ Flight(a).key = Top(t).want
    /\ \A i \in 1..Depth(t) :
         stack[t][i].waiters = Cardinality(WaitersOf(<<t, i>>))

(* One owner per key: of all compiles of a key that go through the hook,   *)
(* one at a time is in the native compiler as its owner, also when a       *)
(* failed owner's waiters contend for the retry; and what is registered is *)
(* exactly what is running.                                                *)
OneOwnerPerKey ==
  /\ \A a, b \in flights : Flight(a).key = Flight(b).key => a = b
  /\ flights = {a \in Address : /\ a[2] <= Depth(a[1])
                                /\ Flight(a).owned
                                /\ Flight(a).running}
=============================================================================
