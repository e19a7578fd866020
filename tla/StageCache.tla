----------------------------- MODULE StageCache -----------------------------
(***************************************************************************)
(* The two single-flight layers of d3dmetal-pso-cache/stage-cache.mm       *)
(* together, on the same threads: the native compiler that an outer flight *)
(* runs asks for Metal libraries, and so does native code outside of any   *)
(* compile (ray tracing).  Each layer avoids wait cycles by looking at its *)
(* own calls only (OuterScope::previous, LibraryCallScope::depth).         *)
(*                                                                         *)
(* Native code makes a library from a finished stage result and compiles   *)
(* no stages meanwhile: while a thread has a library call in progress it   *)
(* takes no step of the outer layer.                                       *)
(***************************************************************************)
EXTENDS Integers, Sequences, FiniteSets

CONSTANTS
  Threads,
  Keys,      \* stage keys
  Results,   \* stage results, with their device
  Flights,   \* addresses of shared library Flights
  None,      \* nullptr
  MaxDepth   \* bound: nesting of compiles and library calls on one thread

ASSUME DepthAssumption == MaxDepth \in Nat \ {0}
ASSUME NoneAssumption ==
  None \notin Threads \cup Keys \cup Results \cup Flights
              \cup (Threads \X (1..MaxDepth))

VARIABLES flights, scopes, registry, flight, library, calls

Outer == INSTANCE StageOuterFlight WITH stack <- scopes
Library == INSTANCE StageLibraryFlight WITH stack <- calls, Keys <- Results

outerVars == <<flights, scopes>>
libraryVars == <<registry, flight, library, calls>>
vars == <<outerVars, libraryVars>>

Init == Outer!Init /\ Library!Init

-----------------------------------------------------------------------------
Nesting(t) == Len(scopes[t]) + Len(calls[t])

(* Native code that may compile stages runs on t. *)
MayCompile(t) == calls[t] = <<>>

CompileStages(t) ==
  /\ MayCompile(t)
  /\ \/ Nesting(t) < MaxDepth /\ Outer!Compile(t)
     \/ \E k \in Keys : Outer!RegisterKey(t, k)
     \/ Outer!NativeReturns(t)
  /\ UNCHANGED libraryVars

ResumeCompile(t) == Outer!Resume(t) /\ UNCHANGED libraryVars

(* From the native compiler, or outside of every compile. *)
CallLibrary(t) ==
  /\ scopes[t] # <<>> => Outer!At(t, "compiling")
  /\ Nesting(t) < MaxDepth
  /\ \E r \in Results : Library!GetAndRetainLibrary(t, r)
  /\ UNCHANGED outerVars

StepLibrary(t) ==
  /\ Library!Step(t) \/ Library!OriginalReturns(t)
  /\ UNCHANGED outerVars

Next ==
  \E t \in Threads :
    CompileStages(t) \/ ResumeCompile(t) \/ CallLibrary(t) \/ StepLibrary(t)

Spec == Init /\ [][Next]_vars

-----------------------------------------------------------------------------
(* No waiter of a stage compile touches a Flight whose stack frame is gone *)
(* or was reused, and waiters is exact: finish() drains its waiters.       *)
FlightOutlivesWaiters == Outer!FlightOutlivesWaiters

(* One owner per stage key, also when the waiters of a failed owner        *)
(* contend for the retry; and what is registered is what is running.       *)
OneOwnerPerKey == Outer!OneOwnerPerKey

(* One thread at a time is inside original() as the owner for a stage      *)
(* result, across failures and takeovers of its Flight, and the Flight     *)
(* names it.                                                               *)
OneOwnerPerResult == Library!OneOwnerPerFlight /\ Library!OneOwnerPerKey

(* gLibraryFlights does not leak: a Flight that stays registered after a   *)
(* failure has a waiter that was woken to take it over.                    *)
RegisteredHasFuture == Library!RegisteredHasFuture

(* The threads one of which must move before t can. *)
BlockedOn(t) ==
  IF Library!At(t, "asleep") THEN {flight[Library!Top(t).held].owner}
  ELSE IF Outer!At(t, "asleep") THEN {Outer!Top(t).on[1]}
  ELSE IF Outer!At(t, "draining") THEN Outer!WaitersOf(Outer!Here(t))
  ELSE {}

(* No thread is stuck, in either layer or across them: whoever sleeps has  *)
(* somebody who is still to wake it, and no set of threads waits only for  *)
(* one another, although each layer looks for cycles in its own calls only.*)
NoStuckThread ==
  /\ \A t \in Threads :
       /\ Library!At(t, "asleep") => flight[Library!Top(t).held].running
       /\ Outer!At(t, "asleep") => Outer!Flight(Outer!Top(t).on).running
       /\ Outer!At(t, "draining") => BlockedOn(t) # {}
  /\ ~\E S \in (SUBSET Threads) \ {{}} :
        \A t \in S : BlockedOn(t) \cap S # {}

=============================================================================
