-------------------------- MODULE StageCacheProofs --------------------------
(***************************************************************************)
(* Proofs about StageCache, for any number of threads, keys, stage results *)
(* and Flights and any depth of nesting: Flights on the stack outlive      *)
(* their waiters, there is one owner per stage key and per stage result,   *)
(* the registry of library Flights does not leak, and no thread is stuck.  *)
(*                                                                         *)
(* The invariants of the two layers are stated of values, the registered   *)
(* Flights and the stacks, rather than of the variables: a step that       *)
(* leaves one Flight and registers or waits for another is then two steps  *)
(* that each keep the invariant.                                           *)
(***************************************************************************)
EXTENDS StageCache, FiniteSetTheorems, SequenceTheorems, TLAPS

-----------------------------------------------------------------------------
(* The outer layer. *)

Addresses == Threads \X (1..MaxDepth)
Stacks == [Threads -> Seq(Outer!OuterScope)]
Places(st) == {a \in Addresses : a[2] <= Len(st[a[1]])}
Scope(st, a) == st[a[1]][a[2]]

(* A thread waits in its outermost compile only. *)
Waits(st, t) == Len(st[t]) = 1 /\ st[t][1].pc \in {"asleep", "awake"}
WaitersAt(st, a) == {t \in Threads : Waits(st, t) /\ st[t][1].on = a}

(* Only the innermost scope of a thread waits or drains. *)
ScopeShape(st) ==
  \A t \in Threads :
    /\ Len(st[t]) <= MaxDepth
    /\ \A i \in 1..Len(st[t]) :
         /\ i < Len(st[t]) => st[t][i].pc = "compiling"
         /\ st[t][i].pc \in {"asleep", "awake"} => Len(st[t]) = 1 /\ ~st[t][i].owned
         /\ st[t][i].running <=> st[t][i].pc \notin {"draining", "drained"}
         /\ ~st[t][i].running => st[t][i].owned

(* A waiter waits for a live scope that owns its key; while it sleeps the  *)
(* scope is running.                                                       *)
WaitTargets(st) ==
  \A t \in Threads : Waits(st, t) =>
    /\ st[t][1].on \in Places(st)
    /\ Scope(st, st[t][1].on).owned
    /\ Scope(st, st[t][1].on).key = st[t][1].want
    /\ st[t][1].pc = "asleep" => Scope(st, st[t][1].on).running

(* What is registered is what runs as an owner, once per key. *)
FlightOwners(fl, st) ==
  /\ fl = {a \in Places(st) : Scope(st, a).owned /\ Scope(st, a).running}
  /\ \A a, b \in fl : Scope(st, a).key = Scope(st, b).key => a = b

(* Flight::waiters is exact, and who drains has waiters. *)
WaiterCounts(st) ==
  \A a \in Places(st) :
    /\ IsFiniteSet(WaitersAt(st, a))
    /\ Scope(st, a).waiters = Cardinality(WaitersAt(st, a))
    /\ Scope(st, a).pc = "draining" => WaitersAt(st, a) # {}

OuterOK(fl, st) ==
  /\ st \in Stacks
  /\ ScopeShape(st) /\ WaitTargets(st) /\ FlightOwners(fl, st) /\ WaiterCounts(st)

-----------------------------------------------------------------------------
(* The library layer. *)

CallStacks == [Threads -> Seq(Library!Call)]
Owns(st, t, i, f) == st[t][i].pc = "owner" /\ st[t][i].held = f
Last(q) == q[Len(q)]
Sleeps(st, t) == Len(st[t]) > 0 /\ Last(st[t]).pc \in {"asleep", "awake"}
Sleepers(st, f) == {t \in Threads : Sleeps(st, t) /\ Last(st[t]).held = f}

(* Only the innermost call searches or waits, and an owner never waits. *)
CallShape(st) ==
  \A t \in Threads :
    /\ Len(st[t]) <= MaxDepth
    /\ \A i \in 1..Len(st[t]) :
         /\ i < Len(st[t]) => st[t][i].pc \in {"owner", "direct"}
         /\ st[t][i].pc \in {"asleep", "awake", "owner"} <=> st[t][i].held # None
         /\ Sleeps(st, t) => st[t][i].pc # "owner"

(* A Flight is registered once, and not once it has succeeded. *)
RegistryOnce(reg, fl) ==
  /\ \A k, j \in Results : reg[k] = reg[j] /\ reg[k] # None => k = j
  /\ \A k \in Results : reg[k] # None => ~fl[reg[k]].succeeded

(* An owner runs the Flight registered for its key, alone. *)
OwnerCalls(reg, fl, st) ==
  /\ \A t \in Threads : \A i \in 1..Len(st[t]) : st[t][i].pc = "owner" =>
       /\ reg[st[t][i].key] = st[t][i].held
       /\ fl[st[t][i].held].running
       /\ fl[st[t][i].held].owner = t
       /\ \A u \in Threads : \A j \in 1..Len(st[u]) :
            Owns(st, u, j, st[t][i].held) => u = t /\ j = i
  /\ \A f \in Flights : fl[f].running =>
       \E t \in Threads : \E i \in 1..Len(st[t]) : Owns(st, t, i, f)

(* A waiter sleeps while its Flight runs, and keeps it registered until it *)
(* succeeds.                                                               *)
SleeperFlights(reg, fl, st) ==
  \A t \in Threads : Sleeps(st, t) =>
    /\ Last(st[t]).pc = "asleep" => fl[Last(st[t]).held].running
    /\ \/ reg[Last(st[t]).key] = Last(st[t]).held
       \/ fl[Last(st[t]).held].succeeded /\ ~fl[Last(st[t]).held].running

(* Flight::waiters is exact, and a failed Flight that stays registered has *)
(* a waiter that is awake.                                                 *)
SleeperCounts(reg, fl, st) ==
  /\ \A f \in Flights : /\ IsFiniteSet(Sleepers(st, f))
                        /\ fl[f].waiters = Cardinality(Sleepers(st, f))
  /\ \A k \in Results : reg[k] # None /\ ~fl[reg[k]].running =>
       \E t \in Sleepers(st, reg[k]) : Last(st[t]).pc = "awake"

LibraryOK(reg, fl, st) ==
  /\ reg \in [Results -> Flights \cup {None}]
  /\ fl \in [Flights -> Library!Flight]
  /\ st \in CallStacks
  /\ CallShape(st) /\ RegistryOnce(reg, fl) /\ OwnerCalls(reg, fl, st)
  /\ SleeperFlights(reg, fl, st) /\ SleeperCounts(reg, fl, st)

-----------------------------------------------------------------------------
(* The composition: a thread with a library call is in native code of its  *)
(* innermost compile.                                                      *)
CallsCompile ==
  \A t \in Threads : calls[t] # <<>> /\ scopes[t] # <<>> =>
    Last(scopes[t]).pc = "compiling"

OuterInv == OuterOK(flights, scopes)
LibraryInv == LibraryOK(registry, flight, calls)
StageInv == OuterInv /\ LibraryInv /\ CallsCompile

-----------------------------------------------------------------------------
(* What updates of stacks do, place by place. *)

(* r is st with f at the place i of thread u. *)
Sets(S, st, r, u, i, f) ==
  /\ r \in [Threads -> Seq(S)]
  /\ \A v \in Threads : Len(r[v]) = Len(st[v])
  /\ r[u][i] = f
  /\ \A v \in Threads : \A j \in 1..Len(st[v]) : v # u \/ j # i => r[v][j] = st[v][j]

(* Assigning one place of a stack. *)
LEMMA SetAt ==
  ASSUME NEW S, NEW st \in [Threads -> Seq(S)], NEW u \in Threads,
         NEW i \in 1..Len(st[u]), NEW f \in S, NEW r, r = [st EXCEPT ![u][i] = f]
  PROVE  Sets(S, st, r, u, i, f)
<1>1. st[u] \in Seq(S) /\ r[u] = [st[u] EXCEPT ![i] = f]
  OBVIOUS
<1>2. r[u] \in Seq(S) /\ Len(r[u]) = Len(st[u])
  BY <1>1
<1>3. \A v \in Threads : v # u => r[v] = st[v]
  OBVIOUS
<1>4. r \in [Threads -> Seq(S)]
  BY <1>2
<1>5. r[u][i] = f /\ \A j \in 1..Len(st[u]) : j # i => r[u][j] = st[u][j]
  BY <1>1
<1> QED BY <1>2, <1>3, <1>4, <1>5 DEF Sets

(* Counting one more waiter, or one less, at a place. *)
LEMMA CountAt ==
  ASSUME NEW st \in Stacks, NEW a \in Places(st), NEW n \in Nat, NEW r,
         r = [st EXCEPT ![a[1]][a[2]].waiters = n]
  PROVE  Sets(Outer!OuterScope, st, r, a[1], a[2], [Scope(st, a) EXCEPT !.waiters = n])
<1>1. a[1] \in Threads /\ a[2] \in 1..Len(st[a[1]])
  BY DEF Places, Addresses, Stacks
<1>2. Scope(st, a) \in Outer!OuterScope
  BY <1>1 DEF Scope, Stacks
<1>3. [Scope(st, a) EXCEPT !.waiters = n] \in Outer!OuterScope
  BY <1>2 DEF Outer!OuterScope
<1>4. r = [st EXCEPT ![a[1]][a[2]] = [Scope(st, a) EXCEPT !.waiters = n]]
  BY <1>1 DEF Scope
<1> QED BY <1>1, <1>3, <1>4, SetAt DEF Stacks

(* The fields of a scope have their types. *)
LEMMA ScopeFields ==
  ASSUME NEW st \in Stacks, NEW t \in Threads, NEW i \in 1..Len(st[t])
  PROVE  /\ st[t][i] \in Outer!OuterScope
         /\ st[t][i].pc \in {"compiling", "asleep", "awake", "draining", "drained"}
         /\ st[t][i].owned \in BOOLEAN /\ st[t][i].running \in BOOLEAN
         /\ st[t][i].waiters \in Nat /\ Len(st[t]) \in Nat
<1>1. st[t] \in Seq(Outer!OuterScope)
  BY DEF Stacks
<1>2. st[t][i] \in Outer!OuterScope /\ Len(st[t]) \in Nat
  BY <1>1
<1> QED BY <1>2 DEF Outer!OuterScope

(* A place is a thread and an index into its stack. *)
LEMMA PlaceFacts ==
  ASSUME NEW st \in Stacks, NEW t \in Threads, NEW i
  PROVE  /\ Len(st[t]) \in Nat
         /\ <<t, i>> \in Places(st) <=> i \in 1..MaxDepth /\ i <= Len(st[t])
         /\ Scope(st, <<t, i>>) = st[t][i]
<1>1. st[t] \in Seq(Outer!OuterScope)
  BY DEF Stacks
<1> QED BY <1>1, DepthAssumption DEF Places, Addresses, Scope

(* Every place is of that form. *)
LEMMA PlaceIs ==
  ASSUME NEW st \in Stacks, NEW a \in Places(st)
  PROVE  \E t \in Threads : \E i \in 1..Len(st[t]) : a = <<t, i>>
<1>1. PICK t \in Threads, i \in 1..MaxDepth : a = <<t, i>>
  BY DEF Places, Addresses
<1>2. i <= Len(st[t]) /\ Len(st[t]) \in Nat
  BY <1>1, PlaceFacts
<1> QED BY <1>1, <1>2, DepthAssumption

(* compileStages puts a new scope on the stack. *)
LEMMA PushOK ==
  ASSUME NEW fl, NEW st, OuterOK(fl, st), NEW t \in Threads, Len(st[t]) < MaxDepth,
         Len(st[t]) > 0 => st[t][Len(st[t])].pc = "compiling", NEW r,
         r = [st EXCEPT ![t] = Append(@, Outer!NewScope)]
  PROVE  OuterOK(fl, r)
<1>0. st \in Stacks /\ ScopeShape(st) /\ WaitTargets(st) /\ FlightOwners(fl, st)
      /\ WaiterCounts(st)
  BY DEF OuterOK
<1> DEFINE n == Len(st[t])
           new == Outer!NewScope
<1>1. /\ new \in Outer!OuterScope /\ new.pc = "compiling" /\ ~new.owned /\ new.running
      /\ new.waiters = 0
  BY DEF Outer!NewScope, Outer!OuterScope
<1>2. st[t] \in Seq(Outer!OuterScope) /\ n \in Nat /\ r[t] = Append(st[t], new)
  BY <1>0 DEF Stacks
<1> HIDE DEF new
<1>3. r[t] \in Seq(Outer!OuterScope)
  BY <1>1, <1>2
<1>4. r \in Stacks
  BY <1>0, <1>3 DEF Stacks
<1>5. /\ Len(r[t]) = n + 1 /\ r[t][n + 1] = new
      /\ \A i \in 1..n : r[t][i] = st[t][i]
      /\ \A v \in Threads : v # t => r[v] = st[v]
  BY <1>0, <1>1, <1>2 DEF Stacks
<1> HIDE DEF n
<1>6. ScopeShape(r)
  <2> SUFFICES ASSUME NEW v \in Threads
               PROVE  /\ Len(r[v]) <= MaxDepth
                      /\ \A i \in 1..Len(r[v]) :
                           /\ i < Len(r[v]) => r[v][i].pc = "compiling"
                           /\ r[v][i].pc \in {"asleep", "awake"} =>
                                Len(r[v]) = 1 /\ ~r[v][i].owned
                           /\ r[v][i].running <=> r[v][i].pc \notin {"draining", "drained"}
                           /\ ~r[v][i].running => r[v][i].owned
    BY DEF ScopeShape
  <2>1. CASE v # t
    BY <1>0, <1>5, <2>1 DEF ScopeShape
  <2>2. CASE v = t
    <3>1. Len(r[t]) <= MaxDepth
      BY <1>2, <1>5, DepthAssumption DEF n
    <3>2. ASSUME NEW i \in 1..Len(r[t])
          PROVE  /\ i < Len(r[t]) => r[t][i].pc = "compiling"
                 /\ r[t][i].pc \in {"asleep", "awake"} => Len(r[t]) = 1 /\ ~r[t][i].owned
                 /\ r[t][i].running <=> r[t][i].pc \notin {"draining", "drained"}
                 /\ ~r[t][i].running => r[t][i].owned
      <4>1. CASE i = n + 1
        BY <1>1, <1>2, <1>5, <4>1
      <4>2. CASE i # n + 1
        <5>1. i \in 1..n /\ r[t][i] = st[t][i] /\ n > 0
          BY <1>2, <1>5, <4>2
        <5>2. st[t][i].pc = "compiling"
          BY <1>0, <1>2, <5>1 DEF ScopeShape, n
        <5> QED BY <1>0, <5>1, <5>2 DEF ScopeShape, n
      <4> QED BY <4>1, <4>2
    <3> QED BY <2>2, <3>1, <3>2
  <2> QED BY <2>1, <2>2
<1>7. \A v \in Threads : (Waits(r, v) <=> Waits(st, v)) /\ (Waits(st, v) => r[v] = st[v])
  <2>1. ~Waits(r, t)
    BY <1>1, <1>2, <1>5 DEF Waits
  <2>2. ~Waits(st, t)
    BY <1>2 DEF Waits, n
  <2> QED BY <1>5, <2>1, <2>2 DEF Waits
<1>8. \A a : WaitersAt(r, a) = WaitersAt(st, a)
  BY <1>7 DEF WaitersAt
<1>9. /\ \A a \in Places(st) : a \in Places(r) /\ Scope(r, a) = Scope(st, a)
      /\ \A a \in Places(r) : a \in Places(st) \/ a = <<t, n + 1>>
      /\ Scope(r, <<t, n + 1>>) = new /\ <<t, n + 1>> \notin Places(st)
  <2>1. ASSUME NEW a \in Places(st)
        PROVE  a \in Places(r) /\ Scope(r, a) = Scope(st, a)
    <3>1. PICK v \in Threads : \E i \in 1..Len(st[v]) : a = <<v, i>>
      BY <1>0, PlaceIs
    <3>2. PICK i \in 1..Len(st[v]) : a = <<v, i>>
      BY <3>1
    <3>3. i \in 1..MaxDepth /\ i <= Len(r[v]) /\ r[v][i] = st[v][i]
      BY <1>0, <1>2, <1>5, <3>2, PlaceFacts DEF n
    <3>4. <<v, i>> \in Places(r) /\ Scope(r, <<v, i>>) = r[v][i]
      BY <1>4, <3>3, PlaceFacts
    <3>5. Scope(st, <<v, i>>) = st[v][i]
      BY <1>0, PlaceFacts
    <3> QED BY <3>2, <3>3, <3>4, <3>5
  <2>2. ASSUME NEW a \in Places(r) PROVE a \in Places(st) \/ a = <<t, n + 1>>
    <3>1. PICK v \in Threads : \E i \in 1..Len(r[v]) : a = <<v, i>>
      BY <1>4, PlaceIs
    <3>2. PICK i \in 1..Len(r[v]) : a = <<v, i>>
      BY <3>1
    <3>3. i \in 1..MaxDepth
      BY <1>4, <3>2, PlaceFacts
    <3>4. i <= Len(st[v]) \/ (v = t /\ i = n + 1)
      BY <1>2, <1>5, <3>2, <3>3 DEF n
    <3> QED BY <1>0, <3>2, <3>3, <3>4, PlaceFacts
  <2>3. Scope(r, <<t, n + 1>>) = new /\ <<t, n + 1>> \notin Places(st)
    <3>1. Scope(r, <<t, n + 1>>) = r[t][n + 1]
      BY <1>4, PlaceFacts
    <3>2. n + 1 > Len(st[t])
      BY <1>2 DEF n
    <3>3. <<t, n + 1>> \notin Places(st)
      BY <1>0, <3>2, PlaceFacts
    <3> QED BY <1>5, <3>1, <3>3
  <2> QED BY <2>1, <2>2, <2>3
<1>10. WaitTargets(r)
  BY <1>0, <1>7, <1>9 DEF WaitTargets
<1>11. FlightOwners(fl, r)
  <2>1. fl = {a \in Places(st) : Scope(st, a).owned /\ Scope(st, a).running}
    BY <1>0 DEF FlightOwners
  <2>2. fl = {a \in Places(r) : Scope(r, a).owned /\ Scope(r, a).running}
    BY <1>1, <1>9, <2>1
  <2>3. \A a \in fl : Scope(r, a) = Scope(st, a)
    BY <1>9, <2>1
  <2> QED BY <1>0, <2>2, <2>3 DEF FlightOwners
<1>12. WaiterCounts(r)
  <2>1. WaitersAt(st, <<t, n + 1>>) = {}
    BY <1>0, <1>9 DEF WaitTargets, WaitersAt
  <2>2. IsFiniteSet({}) /\ Cardinality({}) = 0
    BY FS_EmptySet
  <2> QED BY <1>0, <1>1, <1>8, <1>9, <2>1, <2>2 DEF WaiterCounts
<1> QED BY <1>4, <1>6, <1>10, <1>11, <1>12 DEF OuterOK

(* The same, by place. *)
LEMMA SetsScope ==
  ASSUME NEW st \in Stacks, NEW r, NEW u \in Threads, NEW i \in 1..Len(st[u]), NEW f,
         Sets(Outer!OuterScope, st, r, u, i, f)
  PROVE  /\ r \in Stacks /\ Places(r) = Places(st)
         /\ Scope(r, <<u, i>>) = f
         /\ \A a \in Places(st) : a # <<u, i>> => Scope(r, a) = Scope(st, a)
<1>1. r \in Stacks
  BY DEF Sets, Stacks
<1>2. Places(r) = Places(st)
  <2>1. \A a \in Addresses : Len(r[a[1]]) = Len(st[a[1]])
    BY DEF Sets, Addresses
  <2> QED BY <2>1 DEF Places
<1>3. Scope(r, <<u, i>>) = f
  BY DEF Sets, Scope
<1>4. ASSUME NEW a \in Places(st), a # <<u, i>> PROVE Scope(r, a) = Scope(st, a)
  <2>1. PICK v \in Threads : \E j \in 1..Len(st[v]) : a = <<v, j>>
    BY PlaceIs
  <2>2. PICK j \in 1..Len(st[v]) : a = <<v, j>>
    BY <2>1
  <2>3. r[v][j] = st[v][j]
    BY <1>4, <2>2 DEF Sets
  <2>4. Scope(r, <<v, j>>) = r[v][j] /\ Scope(st, <<v, j>>) = st[v][j]
    BY <1>1, PlaceFacts
  <2> QED BY <2>2, <2>3, <2>4
<1> QED BY <1>1, <1>2, <1>3, <1>4

(* The key hook registers the Flight of the innermost scope. *)
LEMMA OwnOK ==
  ASSUME NEW fl, NEW st, OuterOK(fl, st), NEW t \in Threads, NEW n, n = Len(st[t]),
         n > 0, NEW k, st[t][n].pc = "compiling", ~st[t][n].owned,
         \A a \in fl : Scope(st, a).key # k,
         NEW f, f.pc = "compiling", f.key = k, f.owned,
         f.running = st[t][n].running, f.waiters = st[t][n].waiters,
         NEW r, Sets(Outer!OuterScope, st, r, t, n, f)
  PROVE  OuterOK(fl \cup {<<t, n>>}, r)
<1>0. st \in Stacks /\ ScopeShape(st) /\ WaitTargets(st) /\ FlightOwners(fl, st)
      /\ WaiterCounts(st)
  BY DEF OuterOK
<1> DEFINE p == <<t, n>>
<1>1. n \in Nat /\ n \in 1..n /\ n <= MaxDepth
  BY <1>0, PlaceFacts DEF ScopeShape
<1>2. p \in Places(st) /\ Scope(st, p) = st[t][n]
  BY <1>0, <1>1, PlaceFacts, DepthAssumption
<1>3. /\ r \in Stacks /\ Places(r) = Places(st) /\ Scope(r, p) = f
      /\ \A a \in Places(st) : a # p => Scope(r, a) = Scope(st, a)
  BY <1>0, <1>1, SetsScope
<1>4. /\ \A v \in Threads : Len(r[v]) = Len(st[v])
      /\ r[t][n] = f
      /\ \A v \in Threads : \A j \in 1..Len(st[v]) : v # t \/ j # n => r[v][j] = st[v][j]
  BY DEF Sets
<1>5. st[t][n].pc = "compiling" /\ ~st[t][n].owned
  OBVIOUS
<1>6. st[t][n].running /\ f.running
  BY <1>0, <1>1, <1>5 DEF ScopeShape
<1>7. ScopeShape(r)
  <2> SUFFICES ASSUME NEW v \in Threads
               PROVE  /\ Len(r[v]) <= MaxDepth
                      /\ \A i \in 1..Len(r[v]) :
                           /\ i < Len(r[v]) => r[v][i].pc = "compiling"
                           /\ r[v][i].pc \in {"asleep", "awake"} =>
                                Len(r[v]) = 1 /\ ~r[v][i].owned
                           /\ r[v][i].running <=> r[v][i].pc \notin {"draining", "drained"}
                           /\ ~r[v][i].running => r[v][i].owned
    BY DEF ScopeShape
  <2>1. Len(r[v]) <= MaxDepth
    BY <1>0, <1>4 DEF ScopeShape
  <2>2. ASSUME NEW i \in 1..Len(r[v])
        PROVE  /\ i < Len(r[v]) => r[v][i].pc = "compiling"
               /\ r[v][i].pc \in {"asleep", "awake"} => Len(r[v]) = 1 /\ ~r[v][i].owned
               /\ r[v][i].running <=> r[v][i].pc \notin {"draining", "drained"}
               /\ ~r[v][i].running => r[v][i].owned
    <3>1. CASE v = t /\ i = n
      BY <1>4, <1>6, <3>1
    <3>2. CASE ~(v = t /\ i = n)
      <4>1. r[v][i] = st[v][i] /\ i \in 1..Len(st[v]) /\ Len(r[v]) = Len(st[v])
        BY <1>4, <3>2
      <4> QED BY <1>0, <4>1 DEF ScopeShape
    <3> QED BY <3>1, <3>2
  <2> QED BY <2>1, <2>2
<1>8. \A v \in Threads : (Waits(r, v) <=> Waits(st, v)) /\ (Waits(st, v) => r[v][1] = st[v][1])
  <2> SUFFICES ASSUME NEW v \in Threads
               PROVE  (Waits(r, v) <=> Waits(st, v)) /\ (Waits(st, v) => r[v][1] = st[v][1])
    OBVIOUS
  <2>1. CASE v = t
    BY <1>4, <1>5, <2>1 DEF Waits
  <2>2. CASE v # t
    BY <1>4, <2>2 DEF Waits
  <2> QED BY <2>1, <2>2
<1>9. \A a : WaitersAt(r, a) = WaitersAt(st, a)
  BY <1>8 DEF WaitersAt
<1>10. WaitTargets(r)
  <2>1. \A v \in Threads : Waits(st, v) => st[v][1].on # p
    BY <1>0, <1>2, <1>5 DEF WaitTargets
  <2> HIDE DEF p
  <2> QED BY <1>0, <1>3, <1>8, <2>1 DEF WaitTargets
<1>11. FlightOwners(fl \cup {p}, r)
  <2>1. fl = {a \in Places(st) : Scope(st, a).owned /\ Scope(st, a).running}
    BY <1>0 DEF FlightOwners
  <2>2. p \notin fl
    BY <1>2, <1>5, <2>1
  <2> HIDE DEF p
  <2>3. fl \cup {p} = {a \in Places(r) : Scope(r, a).owned /\ Scope(r, a).running}
    BY <1>2, <1>3, <1>6, <2>1
  <2>4. \A a \in fl : Scope(r, a) = Scope(st, a) /\ Scope(r, a).key # k
    BY <1>3, <2>1, <2>2
  <2>5. \A a, b \in fl \cup {p} : Scope(r, a).key = Scope(r, b).key => a = b
    BY <1>0, <1>3, <2>4 DEF FlightOwners
  <2> QED BY <2>3, <2>5 DEF FlightOwners
<1>12. WaiterCounts(r)
  <2> HIDE DEF p
  <2> QED BY <1>0, <1>2, <1>3, <1>9 DEF WaiterCounts
<1> QED BY <1>3, <1>7, <1>10, <1>11, <1>12 DEF OuterOK

(* r has the scopes of st, with the same keys, owners and state. *)
Alike(st, r) ==
  /\ r \in Stacks
  /\ \A v \in Threads : Len(r[v]) = Len(st[v])
  /\ \A v \in Threads : \A j \in 1..Len(st[v]) :
       /\ r[v][j].key = st[v][j].key
       /\ r[v][j].owned = st[v][j].owned
       /\ r[v][j].running = st[v][j].running

(* Stacks that are alike have the same places and registered Flights. *)
LEMMA AlikeOwners ==
  ASSUME NEW fl, NEW st \in Stacks, NEW r, Alike(st, r), FlightOwners(fl, st)
  PROVE  /\ Places(r) = Places(st)
         /\ \A a \in Places(st) : /\ Scope(r, a).key = Scope(st, a).key
                                  /\ Scope(r, a).owned = Scope(st, a).owned
                                  /\ Scope(r, a).running = Scope(st, a).running
         /\ FlightOwners(fl, r)
<1>1. Places(r) = Places(st)
  <2>1. \A a \in Addresses : Len(r[a[1]]) = Len(st[a[1]])
    BY DEF Alike, Addresses
  <2> QED BY <2>1 DEF Places
<1>2. ASSUME NEW a \in Places(st)
      PROVE  /\ Scope(r, a).key = Scope(st, a).key
             /\ Scope(r, a).owned = Scope(st, a).owned
             /\ Scope(r, a).running = Scope(st, a).running
  <2>1. PICK v \in Threads : \E j \in 1..Len(st[v]) : a = <<v, j>>
    BY PlaceIs
  <2>2. PICK j \in 1..Len(st[v]) : a = <<v, j>>
    BY <2>1
  <2>3. Scope(r, <<v, j>>) = r[v][j] /\ Scope(st, <<v, j>>) = st[v][j]
    BY PlaceFacts DEF Alike
  <2> QED BY <2>2, <2>3 DEF Alike
<1>3. fl = {a \in Places(r) : Scope(r, a).owned /\ Scope(r, a).running}
  BY <1>1, <1>2 DEF FlightOwners
<1>4. \A a \in fl : a \in Places(st)
  BY DEF FlightOwners
<1>5. \A a, b \in fl : Scope(r, a).key = Scope(r, b).key => a = b
  BY <1>2, <1>4 DEF FlightOwners
<1> QED BY <1>1, <1>2, <1>3, <1>5 DEF FlightOwners

(* r is st after thread t has gone to sleep on the Flight at u, i, for k. *)
Sleep(st, r, t, u, i, k) ==
  /\ Alike(st, r)
  /\ r[t][1].pc = "asleep" /\ r[t][1].on = <<u, i>> /\ r[t][1].want = k
  /\ r[t][1].waiters = st[t][1].waiters
  /\ r[u][i].pc = st[u][i].pc /\ r[u][i].waiters = st[u][i].waiters + 1
  /\ \A v \in Threads : \A j \in 1..Len(st[v]) :
       v # t /\ <<v, j>> # <<u, i>> => r[v][j] = st[v][j]

(* The key hook waits for another thread's Flight. *)
LEMMA WaitOK ==
  ASSUME NEW fl, NEW st, OuterOK(fl, st), NEW t \in Threads, Len(st[t]) = 1,
         st[t][1].pc = "compiling", ~st[t][1].owned,
         NEW u \in Threads, NEW i \in 1..Len(st[u]), u # t, <<u, i>> \in fl,
         NEW r, Sleep(st, r, t, u, i, st[u][i].key)
  PROVE  OuterOK(fl, r)
<1> USE DEF Sleep
<1>0. st \in Stacks /\ ScopeShape(st) /\ WaitTargets(st) /\ FlightOwners(fl, st)
      /\ WaiterCounts(st) /\ r \in Stacks
  BY DEF OuterOK, Alike
<1> DEFINE a == <<u, i>>
<1>1. /\ Places(r) = Places(st) /\ FlightOwners(fl, r)
      /\ \A b \in Places(st) : /\ Scope(r, b).key = Scope(st, b).key
                               /\ Scope(r, b).owned = Scope(st, b).owned
                               /\ Scope(r, b).running = Scope(st, b).running
  BY <1>0, AlikeOwners
<1>2. a \in Places(st) /\ Scope(st, a) = st[u][i] /\ Scope(r, a) = r[u][i]
      /\ Scope(st, a).owned /\ Scope(st, a).running
  BY <1>0, PlaceFacts DEF FlightOwners
<1>3. Len(r[t]) = 1 /\ \A v \in Threads : Len(r[v]) = Len(st[v])
  BY DEF Alike
<1>4. st[u][i].pc \notin {"asleep", "awake"}
  BY <1>0, <1>2 DEF ScopeShape
<1>5. ScopeShape(r)
  <2> SUFFICES ASSUME NEW v \in Threads
               PROVE  /\ Len(r[v]) <= MaxDepth
                      /\ \A j \in 1..Len(r[v]) :
                           /\ j < Len(r[v]) => r[v][j].pc = "compiling"
                           /\ r[v][j].pc \in {"asleep", "awake"} =>
                                Len(r[v]) = 1 /\ ~r[v][j].owned
                           /\ r[v][j].running <=> r[v][j].pc \notin {"draining", "drained"}
                           /\ ~r[v][j].running => r[v][j].owned
    BY DEF ScopeShape
  <2>1. Len(r[v]) <= MaxDepth
    BY <1>0, <1>3 DEF ScopeShape
  <2>2. ASSUME NEW j \in 1..Len(r[v])
        PROVE  /\ j < Len(r[v]) => r[v][j].pc = "compiling"
               /\ r[v][j].pc \in {"asleep", "awake"} => Len(r[v]) = 1 /\ ~r[v][j].owned
               /\ r[v][j].running <=> r[v][j].pc \notin {"draining", "drained"}
               /\ ~r[v][j].running => r[v][j].owned
    <3>0. /\ j \in 1..Len(st[v]) /\ Len(r[v]) = Len(st[v])
          /\ r[v][j].owned = st[v][j].owned /\ r[v][j].running = st[v][j].running
      BY <1>3 DEF Alike
    <3>1. CASE v = t
      <4>0. j \in 1..1
        BY <3>0, <3>1
      <4>1. j = 1
        BY <4>0
      <4>2. st[t][1].running
        BY <1>0, <3>0, <3>1, <4>1 DEF ScopeShape
      <4>3. r[v][j].running /\ r[v][j].pc = "asleep" /\ Len(r[v]) = 1
        BY <1>3, <3>0, <3>1, <4>1, <4>2
      <4>4. ~r[v][j].owned
        BY <3>0, <3>1, <4>1
      <4> QED BY <4>1, <4>3, <4>4
    <3>2. CASE v # t
      <4>1. r[v][j].pc = st[v][j].pc
        BY <3>0, <3>2
      <4> QED BY <1>0, <3>0, <4>1 DEF ScopeShape
    <3> QED BY <3>1, <3>2
  <2> QED BY <2>1, <2>2
<1>6. Waits(r, t) /\ ~Waits(st, t)
  BY <1>3 DEF Waits
<1>7. ASSUME NEW v \in Threads, v # t
      PROVE  (Waits(r, v) <=> Waits(st, v)) /\ (Waits(st, v) => r[v][1] = st[v][1])
  <2>1. CASE v = u /\ i = 1
    BY <1>3, <1>4, <2>1 DEF Waits
  <2>2. CASE ~(v = u /\ i = 1)
    <3>1. Len(st[v]) = 1 => r[v][1] = st[v][1]
      BY <1>7, <2>2
    <3> QED BY <1>3, <3>1 DEF Waits
  <2> QED BY <2>1, <2>2
<1> HIDE DEF a
<1>8. WaitersAt(r, a) = WaitersAt(st, a) \cup {t} /\ t \notin WaitersAt(st, a)
  BY <1>6, <1>7 DEF WaitersAt, a
<1>9. \A b : b # a => WaitersAt(r, b) = WaitersAt(st, b)
  BY <1>6, <1>7 DEF WaitersAt, a
<1>10. WaitTargets(r)
  <2> SUFFICES ASSUME NEW v \in Threads, Waits(r, v)
               PROVE  /\ r[v][1].on \in Places(r)
                      /\ Scope(r, r[v][1].on).owned
                      /\ Scope(r, r[v][1].on).key = r[v][1].want
                      /\ r[v][1].pc = "asleep" => Scope(r, r[v][1].on).running
    BY DEF WaitTargets
  <2>1. CASE v = t
    <3>1. r[t][1].on = a /\ r[t][1].want = Scope(st, a).key
      BY <1>2 DEF a
    <3> QED BY <1>1, <1>2, <2>1, <3>1
  <2>2. CASE v # t
    BY <1>0, <1>1, <1>7, <2>2 DEF WaitTargets
  <2> QED BY <2>1, <2>2
<1>11. WaiterCounts(r)
  <2> SUFFICES ASSUME NEW b \in Places(st)
               PROVE  /\ IsFiniteSet(WaitersAt(r, b))
                      /\ Scope(r, b).waiters = Cardinality(WaitersAt(r, b))
                      /\ Scope(r, b).pc = "draining" => WaitersAt(r, b) # {}
    BY <1>1 DEF WaiterCounts
  <2>0. /\ IsFiniteSet(WaitersAt(st, b))
        /\ Scope(st, b).waiters = Cardinality(WaitersAt(st, b))
        /\ Scope(st, b).pc = "draining" => WaitersAt(st, b) # {}
    BY <1>0 DEF WaiterCounts
  <2>1. CASE b = a
    <3>1. /\ IsFiniteSet(WaitersAt(r, a))
          /\ Cardinality(WaitersAt(r, a)) = Cardinality(WaitersAt(st, a)) + 1
      BY <1>8, <2>0, <2>1, FS_AddElement
    <3>2. Scope(r, a).waiters = Scope(st, a).waiters + 1
      BY <1>2
    <3>3. WaitersAt(r, a) # {}
      BY <1>8
    <3> QED BY <2>0, <2>1, <3>1, <3>2, <3>3
  <2>2. CASE b # a
    <3>1. PICK v \in Threads : \E j \in 1..Len(st[v]) : b = <<v, j>>
      BY <1>0, PlaceIs
    <3>2. PICK j \in 1..Len(st[v]) : b = <<v, j>>
      BY <3>1
    <3>3. Scope(r, b) = r[v][j] /\ Scope(st, b) = st[v][j]
      BY <1>0, <3>2, PlaceFacts
    <3>4. /\ Scope(r, b).waiters = Scope(st, b).waiters
          /\ Scope(r, b).pc \in {Scope(st, b).pc, "asleep"}
      <4>1. CASE v = t
        <5>0. j \in 1..1
          BY <3>2, <4>1
        <5>1. j = 1
          BY <5>0
        <5> QED BY <3>3, <4>1, <5>1
      <4>2. CASE v # t
        BY <2>2, <3>2, <3>3, <4>2 DEF a
      <4> QED BY <4>1, <4>2
    <3> QED BY <1>9, <2>0, <2>2, <3>4
  <2> QED BY <2>1, <2>2
<1> QED BY <1>0, <1>1, <1>5, <1>10, <1>11 DEF OuterOK

(* A woken waiter leaves the Flight; the last one ends its owner's drain. *)
LEMMA LeaveOK ==
  ASSUME NEW fl, NEW st, OuterOK(fl, st), NEW t \in Threads, Waits(st, t),
         NEW u \in Threads, NEW i \in 1..Len(st[u]), u # t, st[t][1].on = <<u, i>>,
         NEW r, Alike(st, r),
         r[t][1].pc = "compiling", r[t][1].waiters = st[t][1].waiters,
         r[u][i].waiters = st[u][i].waiters - 1,
         r[u][i].pc = IF r[u][i].waiters = 0 /\ st[u][i].pc = "draining"
                      THEN "drained" ELSE st[u][i].pc,
         \A v \in Threads : \A j \in 1..Len(st[v]) :
            v # t /\ <<v, j>> # <<u, i>> => r[v][j] = st[v][j]
  PROVE  OuterOK(fl, r)
<1>0. st \in Stacks /\ ScopeShape(st) /\ WaitTargets(st) /\ FlightOwners(fl, st)
      /\ WaiterCounts(st) /\ r \in Stacks
  BY DEF OuterOK, Alike
<1> DEFINE a == <<u, i>>
<1>1. /\ Places(r) = Places(st) /\ FlightOwners(fl, r)
      /\ \A b \in Places(st) : /\ Scope(r, b).key = Scope(st, b).key
                               /\ Scope(r, b).owned = Scope(st, b).owned
                               /\ Scope(r, b).running = Scope(st, b).running
  BY <1>0, AlikeOwners
<1>2. a \in Places(st) /\ Scope(st, a) = st[u][i] /\ Scope(r, a) = r[u][i]
      /\ Scope(st, a).owned
  BY <1>0, PlaceFacts DEF WaitTargets
<1>3. Len(st[t]) = 1 /\ Len(r[t]) = 1 /\ \A v \in Threads : Len(r[v]) = Len(st[v])
  BY DEF Alike, Waits
<1>4. st[u][i].pc \notin {"asleep", "awake"}
  BY <1>0, <1>2 DEF ScopeShape
<1>5. ScopeShape(r)
  <2> SUFFICES ASSUME NEW v \in Threads
               PROVE  /\ Len(r[v]) <= MaxDepth
                      /\ \A j \in 1..Len(r[v]) :
                           /\ j < Len(r[v]) => r[v][j].pc = "compiling"
                           /\ r[v][j].pc \in {"asleep", "awake"} =>
                                Len(r[v]) = 1 /\ ~r[v][j].owned
                           /\ r[v][j].running <=> r[v][j].pc \notin {"draining", "drained"}
                           /\ ~r[v][j].running => r[v][j].owned
    BY DEF ScopeShape
  <2>1. Len(r[v]) <= MaxDepth
    BY <1>0, <1>3 DEF ScopeShape
  <2>2. ASSUME NEW j \in 1..Len(r[v])
        PROVE  /\ j < Len(r[v]) => r[v][j].pc = "compiling"
               /\ r[v][j].pc \in {"asleep", "awake"} => Len(r[v]) = 1 /\ ~r[v][j].owned
               /\ r[v][j].running <=> r[v][j].pc \notin {"draining", "drained"}
               /\ ~r[v][j].running => r[v][j].owned
    <3>0. /\ j \in 1..Len(st[v]) /\ Len(r[v]) = Len(st[v])
          /\ r[v][j].owned = st[v][j].owned /\ r[v][j].running = st[v][j].running
      BY <1>3 DEF Alike
    <3>1. CASE v = t
      <4>0. j \in 1..1
        BY <1>3, <3>0, <3>1
      <4>1. j = 1
        BY <4>0
      <4>2. st[t][1].running
        BY <1>0, <3>0, <3>1, <4>1 DEF ScopeShape, Waits
      <4>3. r[v][j].running /\ r[v][j].pc = "compiling" /\ Len(r[v]) = 1
        BY <1>3, <3>0, <3>1, <4>1, <4>2
      <4> QED BY <4>1, <4>3
    <3>2. CASE v # t
      <4>1. CASE r[v][j].pc = st[v][j].pc
        BY <1>0, <3>0, <4>1 DEF ScopeShape
      <4>2. CASE r[v][j].pc # st[v][j].pc
        <5>1. st[v][j].pc = "draining" /\ r[v][j].pc = "drained"
          BY <3>0, <3>2, <4>2
        <5> QED BY <1>0, <3>0, <5>1 DEF ScopeShape
      <4> QED BY <4>1, <4>2
    <3> QED BY <3>1, <3>2
  <2> QED BY <2>1, <2>2
<1>6. ~Waits(r, t)
  BY <1>3 DEF Waits
<1>7. ASSUME NEW v \in Threads, v # t
      PROVE  (Waits(r, v) <=> Waits(st, v)) /\ (Waits(st, v) => r[v][1] = st[v][1])
  <2>1. CASE v = u /\ i = 1
    <3>1. r[u][i].pc \notin {"asleep", "awake"}
      BY <1>4
    <3> QED BY <1>3, <1>4, <2>1, <3>1 DEF Waits
  <2>2. CASE ~(v = u /\ i = 1)
    <3>1. Len(st[v]) = 1 => r[v][1] = st[v][1]
      BY <1>7, <2>2
    <3> QED BY <1>3, <3>1 DEF Waits
  <2> QED BY <2>1, <2>2
<1> HIDE DEF a
<1>8. WaitersAt(r, a) = WaitersAt(st, a) \ {t} /\ t \in WaitersAt(st, a)
  BY <1>6, <1>7 DEF WaitersAt, a
<1>9. \A b : b # a => WaitersAt(r, b) = WaitersAt(st, b)
  BY <1>6, <1>7 DEF WaitersAt, a
<1>10. WaitTargets(r)
  <2> SUFFICES ASSUME NEW v \in Threads, Waits(r, v)
               PROVE  /\ r[v][1].on \in Places(r)
                      /\ Scope(r, r[v][1].on).owned
                      /\ Scope(r, r[v][1].on).key = r[v][1].want
                      /\ r[v][1].pc = "asleep" => Scope(r, r[v][1].on).running
    BY DEF WaitTargets
  <2>1. v # t
    BY <1>6
  <2> QED BY <1>0, <1>1, <1>7, <2>1 DEF WaitTargets
<1>11. WaiterCounts(r)
  <2> SUFFICES ASSUME NEW b \in Places(st)
               PROVE  /\ IsFiniteSet(WaitersAt(r, b))
                      /\ Scope(r, b).waiters = Cardinality(WaitersAt(r, b))
                      /\ Scope(r, b).pc = "draining" => WaitersAt(r, b) # {}
    BY <1>1 DEF WaiterCounts
  <2>0. /\ IsFiniteSet(WaitersAt(st, b))
        /\ Scope(st, b).waiters = Cardinality(WaitersAt(st, b))
        /\ Scope(st, b).pc = "draining" => WaitersAt(st, b) # {}
    BY <1>0 DEF WaiterCounts
  <2>1. CASE b = a
    <3>1. /\ IsFiniteSet(WaitersAt(r, a))
          /\ Cardinality(WaitersAt(r, a)) = Cardinality(WaitersAt(st, a)) - 1
      BY <1>8, <2>0, <2>1, FS_RemoveElement
    <3>2. Scope(r, a).waiters = Scope(st, a).waiters - 1
      BY <1>2
    <3>3. Scope(r, a).waiters = Cardinality(WaitersAt(r, a))
      BY <2>0, <2>1, <3>1, <3>2
    <3>4. WaitersAt(r, a) = {} => Scope(r, a).waiters = 0
      BY <3>3, FS_EmptySet
    <3>5. Scope(r, a).waiters = 0 => Scope(r, a).pc # "draining"
      BY <1>2
    <3> QED BY <2>1, <3>1, <3>3, <3>4, <3>5
  <2>2. CASE b # a
    <3>1. PICK v \in Threads : \E j \in 1..Len(st[v]) : b = <<v, j>>
      BY <1>0, PlaceIs
    <3>2. PICK j \in 1..Len(st[v]) : b = <<v, j>>
      BY <3>1
    <3>3. Scope(r, b) = r[v][j] /\ Scope(st, b) = st[v][j]
      BY <1>0, <3>2, PlaceFacts
    <3>4. Scope(r, b).waiters = Scope(st, b).waiters
          /\ Scope(r, b).pc \in {Scope(st, b).pc, "compiling"}
      <4>1. CASE v = t
        <5>0. j \in 1..1
          BY <1>3, <3>2, <4>1
        <5>1. j = 1
          BY <5>0
        <5> QED BY <3>3, <4>1, <5>1
      <4>2. CASE v # t
        BY <2>2, <3>2, <3>3, <4>2 DEF a
      <4> QED BY <4>1, <4>2
    <3> QED BY <1>9, <2>0, <2>2, <3>4
  <2> QED BY <2>1, <2>2
<1> QED BY <1>0, <1>1, <1>5, <1>10, <1>11 DEF OuterOK

(* r is st without the innermost scope of t. *)
Pops(st, r, t, n) ==
  /\ r \in Stacks /\ Len(r[t]) = n - 1
  /\ \A i \in 1..(n - 1) : r[t][i] = st[t][i]
  /\ \A v \in Threads : v # t => r[v] = st[v]

(* A scope that nobody waits for, and that owns no running Flight, is      *)
(* destroyed.                                                              *)
LEMMA PopOK ==
  ASSUME NEW fl, NEW st, OuterOK(fl, st), NEW t \in Threads, NEW n, n = Len(st[t]),
         n > 0, st[t][n].pc \notin {"asleep", "awake"}, st[t][n].waiters = 0,
         <<t, n>> \notin fl, NEW r, Pops(st, r, t, n)
  PROVE  OuterOK(fl, r)
<1> USE DEF Pops
<1>0. st \in Stacks /\ ScopeShape(st) /\ WaitTargets(st) /\ FlightOwners(fl, st)
      /\ WaiterCounts(st)
  BY DEF OuterOK
<1>1. n \in Nat /\ n \in 1..n /\ n <= MaxDepth
  BY <1>0, PlaceFacts DEF ScopeShape
<1> DEFINE p == <<t, n>>
<1>2. p \in Places(st) /\ Scope(st, p) = st[t][n] /\ p \notin Places(r)
  <2>1. p \in Places(st) /\ Scope(st, p) = st[t][n]
    BY <1>0, <1>1, PlaceFacts, DepthAssumption
  <2>2. ~(n <= Len(r[t]))
    BY <1>1
  <2> QED BY <2>1, <2>2, PlaceFacts
<1>3. WaitersAt(st, p) = {}
  <2>1. IsFiniteSet(WaitersAt(st, p)) /\ Cardinality(WaitersAt(st, p)) = 0
    BY <1>0, <1>2 DEF WaiterCounts
  <2> QED BY <2>1, FS_EmptySet
<1>4. \A i \in 1..(n - 1) : i \in 1..n /\ r[t][i] = st[t][i] /\ st[t][i].pc = "compiling"
  <2> SUFFICES ASSUME NEW i \in 1..(n - 1)
               PROVE  i \in 1..n /\ r[t][i] = st[t][i] /\ st[t][i].pc = "compiling"
    OBVIOUS
  <2>1. i \in 1..n /\ i < n
    BY <1>1
  <2> QED BY <1>0, <2>1 DEF ScopeShape
<1>5. ScopeShape(r)
  <2> SUFFICES ASSUME NEW v \in Threads
               PROVE  /\ Len(r[v]) <= MaxDepth
                      /\ \A j \in 1..Len(r[v]) :
                           /\ j < Len(r[v]) => r[v][j].pc = "compiling"
                           /\ r[v][j].pc \in {"asleep", "awake"} =>
                                Len(r[v]) = 1 /\ ~r[v][j].owned
                           /\ r[v][j].running <=> r[v][j].pc \notin {"draining", "drained"}
                           /\ ~r[v][j].running => r[v][j].owned
    BY DEF ScopeShape
  <2>1. CASE v # t
    BY <1>0, <2>1 DEF ScopeShape
  <2>2. CASE v = t
    <3>1. Len(r[t]) <= MaxDepth
      BY <1>1, DepthAssumption
    <3>2. ASSUME NEW j \in 1..Len(r[t])
          PROVE  /\ r[t][j].pc = "compiling"
                 /\ r[t][j].running <=> r[t][j].pc \notin {"draining", "drained"}
                 /\ ~r[t][j].running => r[t][j].owned
      <4>1. j \in 1..n /\ r[t][j] = st[t][j] /\ st[t][j].pc = "compiling"
        BY <1>4
      <4> QED BY <1>0, <4>1 DEF ScopeShape
    <3> QED BY <2>2, <3>1, <3>2
  <2> QED BY <2>1, <2>2
<1>6. \A v \in Threads : (Waits(r, v) <=> Waits(st, v)) /\ (Waits(st, v) => r[v] = st[v])
  <2>1. ~Waits(st, t)
    BY DEF Waits
  <2>2. ~Waits(r, t)
    <3>1. SUFFICES ASSUME Len(r[t]) = 1 PROVE r[t][1].pc = "compiling"
      BY DEF Waits
    <3>a. n - 1 = 1
      BY <3>1
    <3>2. 1 \in 1..(n - 1)
      BY <3>a
    <3> QED BY <1>4, <3>2
  <2> QED BY <2>1, <2>2 DEF Waits
<1>7. \A a : WaitersAt(r, a) = WaitersAt(st, a)
  BY <1>6 DEF WaitersAt
<1>8. \A a \in Places(st) : a = p \/ (a \in Places(r) /\ Scope(r, a) = Scope(st, a))
  <2> SUFFICES ASSUME NEW a \in Places(st), a # p
               PROVE  a \in Places(r) /\ Scope(r, a) = Scope(st, a)
    OBVIOUS
  <2>1. PICK v \in Threads : \E i \in 1..Len(st[v]) : a = <<v, i>>
    BY <1>0, PlaceIs
  <2>2. PICK i \in 1..Len(st[v]) : a = <<v, i>>
    BY <2>1
  <2>3. i \in 1..MaxDepth
    BY <1>0, <2>2, PlaceFacts
  <2>4. i <= Len(r[v]) /\ r[v][i] = st[v][i]
    <3>1. CASE v = t
      <4>1. i # n /\ i \in 1..n
        BY <2>2, <3>1
      <4>2. i \in 1..(n - 1)
        BY <1>1, <4>1
      <4> QED BY <3>1, <4>2
    <3>2. CASE v # t
      <4>1. Len(st[v]) \in Nat
        BY <1>0, PlaceFacts
      <4> QED BY <3>2, <4>1
    <3> QED BY <3>1, <3>2
  <2>5. <<v, i>> \in Places(r) /\ Scope(r, <<v, i>>) = r[v][i]
    BY <2>3, <2>4, PlaceFacts
  <2>6. Scope(st, <<v, i>>) = st[v][i]
    BY <1>0, PlaceFacts
  <2> QED BY <2>2, <2>4, <2>5, <2>6
<1>9. \A a \in Places(r) : a \in Places(st) /\ a # p /\ Scope(r, a) = Scope(st, a)
  <2> SUFFICES ASSUME NEW a \in Places(r) PROVE a \in Places(st)
    BY <1>2, <1>8
  <2>1. PICK v \in Threads : \E i \in 1..Len(r[v]) : a = <<v, i>>
    BY PlaceIs
  <2>2. PICK i \in 1..Len(r[v]) : a = <<v, i>>
    BY <2>1
  <2>3. i \in 1..MaxDepth
    BY <2>2, PlaceFacts
  <2>4. i <= Len(st[v])
    <3>1. CASE v = t
      BY <1>1, <2>2, <3>1
    <3>2. CASE v # t
      <4>1. Len(st[v]) \in Nat
        BY <1>0, PlaceFacts
      <4> QED BY <3>2, <4>1
    <3> QED BY <3>1, <3>2
  <2> QED BY <1>0, <2>2, <2>3, <2>4, PlaceFacts
<1>10. p \notin fl
  OBVIOUS
<1> HIDE DEF p
<1>11. WaitTargets(r)
  <2>1. \A v \in Threads : Waits(st, v) => st[v][1].on # p
    BY <1>3 DEF WaitersAt
  <2> QED BY <1>0, <1>6, <1>8, <2>1 DEF WaitTargets
<1>12. FlightOwners(fl, r)
  <2>1. fl = {a \in Places(st) : Scope(st, a).owned /\ Scope(st, a).running}
    BY <1>0 DEF FlightOwners
  <2>2. fl = {a \in Places(r) : Scope(r, a).owned /\ Scope(r, a).running}
    BY <1>8, <1>9, <1>10, <2>1
  <2>3. \A a \in fl : Scope(r, a) = Scope(st, a)
    BY <1>9, <2>2
  <2> QED BY <1>0, <2>2, <2>3 DEF FlightOwners
<1>13. WaiterCounts(r)
  BY <1>0, <1>7, <1>9 DEF WaiterCounts
<1> QED BY <1>5, <1>11, <1>12, <1>13 DEF OuterOK

(* r is st after finish() of the owner at t, n. *)
Finishes(st, r, t, n) ==
  /\ r \in Stacks
  /\ \A v \in Threads : Len(r[v]) = Len(st[v])
  /\ ~r[t][n].running /\ r[t][n].owned /\ r[t][n].key = st[t][n].key
  /\ r[t][n].waiters = st[t][n].waiters
  /\ r[t][n].pc \in {"draining", "drained"}
  /\ r[t][n].pc = "draining" => r[t][n].waiters # 0
  /\ \A v \in Threads : \A j \in 1..Len(st[v]) : v # t \/ j # n =>
       r[v][j] = IF st[v][j].pc = "asleep" /\ st[v][j].on = <<t, n>>
                 THEN [st[v][j] EXCEPT !.pc = "awake"] ELSE st[v][j]

(* finish() of an owner: its Flight is no longer registered or running,    *)
(* its sleepers are awake, and it drains if it has waiters.                *)
LEMMA FinishOK ==
  ASSUME NEW fl, NEW st, OuterOK(fl, st), NEW t \in Threads, NEW n, n = Len(st[t]),
         n > 0, st[t][n].pc = "compiling", st[t][n].owned,
         NEW r, Finishes(st, r, t, n)
  PROVE  OuterOK(fl \ {<<t, n>>}, r)
<1> USE DEF Finishes
<1>0. st \in Stacks /\ ScopeShape(st) /\ WaitTargets(st) /\ FlightOwners(fl, st)
      /\ WaiterCounts(st)
  BY DEF OuterOK
<1>1. n \in Nat /\ n \in 1..n /\ n <= MaxDepth
  BY <1>0, PlaceFacts DEF ScopeShape
<1> DEFINE p == <<t, n>>
<1>2. p \in Places(st) /\ Scope(st, p) = st[t][n] /\ Scope(r, p) = r[t][n]
  BY <1>0, <1>1, PlaceFacts, DepthAssumption
<1>3. Places(r) = Places(st)
  <2>1. \A a \in Addresses : Len(r[a[1]]) = Len(st[a[1]])
    BY DEF Addresses
  <2> QED BY <2>1 DEF Places
<1>4. ASSUME NEW v \in Threads, NEW j \in 1..Len(st[v]), v # t \/ j # n
      PROVE  /\ r[v][j].key = st[v][j].key /\ r[v][j].owned = st[v][j].owned
             /\ r[v][j].running = st[v][j].running /\ r[v][j].waiters = st[v][j].waiters
             /\ r[v][j].on = st[v][j].on /\ r[v][j].want = st[v][j].want
             /\ r[v][j].pc = IF st[v][j].pc = "asleep" /\ st[v][j].on = p
                             THEN "awake" ELSE st[v][j].pc
  <2>1. st[v][j] \in Outer!OuterScope
    BY <1>0, ScopeFields
  <2>2. r[v][j] = IF st[v][j].pc = "asleep" /\ st[v][j].on = p
                  THEN [st[v][j] EXCEPT !.pc = "awake"] ELSE st[v][j]
    BY <1>4
  <2> HIDE DEF p
  <2> QED BY <2>1, <2>2 DEF Outer!OuterScope
<1>5. ScopeShape(r)
  <2> SUFFICES ASSUME NEW v \in Threads
               PROVE  /\ Len(r[v]) <= MaxDepth
                      /\ \A j \in 1..Len(r[v]) :
                           /\ j < Len(r[v]) => r[v][j].pc = "compiling"
                           /\ r[v][j].pc \in {"asleep", "awake"} =>
                                Len(r[v]) = 1 /\ ~r[v][j].owned
                           /\ r[v][j].running <=> r[v][j].pc \notin {"draining", "drained"}
                           /\ ~r[v][j].running => r[v][j].owned
    BY DEF ScopeShape
  <2>1. Len(r[v]) <= MaxDepth
    BY <1>0 DEF ScopeShape
  <2>2. ASSUME NEW j \in 1..Len(r[v])
        PROVE  /\ j < Len(r[v]) => r[v][j].pc = "compiling"
               /\ r[v][j].pc \in {"asleep", "awake"} => Len(r[v]) = 1 /\ ~r[v][j].owned
               /\ r[v][j].running <=> r[v][j].pc \notin {"draining", "drained"}
               /\ ~r[v][j].running => r[v][j].owned
    <3>0. j \in 1..Len(st[v]) /\ Len(r[v]) = Len(st[v])
      OBVIOUS
    <3>1. CASE v = t /\ j = n
      BY <1>1, <3>1
    <3>2. CASE ~(v = t /\ j = n)
      <4>1. /\ r[v][j].owned = st[v][j].owned /\ r[v][j].running = st[v][j].running
            /\ r[v][j].pc = st[v][j].pc
               \/ (st[v][j].pc = "asleep" /\ r[v][j].pc = "awake")
        BY <1>4, <3>0, <3>2
      <4> QED BY <1>0, <3>0, <4>1 DEF ScopeShape
    <3> QED BY <3>1, <3>2
  <2> QED BY <2>1, <2>2
<1>6. ASSUME NEW v \in Threads
      PROVE  /\ Waits(r, v) <=> Waits(st, v)
             /\ Waits(st, v) => /\ r[v][1].on = st[v][1].on /\ r[v][1].want = st[v][1].want
                                /\ r[v][1].pc = "asleep" =>
                                     st[v][1].pc = "asleep" /\ st[v][1].on # p
  <2>1. CASE v = t
    <3>1. ~Waits(st, t)
      BY DEF Waits
    <3>2. ~Waits(r, t)
      BY DEF Waits
    <3> QED BY <2>1, <3>1, <3>2
  <2>2. CASE v # t
    <3>1. Len(st[v]) = 1 =>
             /\ r[v][1].on = st[v][1].on /\ r[v][1].want = st[v][1].want
             /\ r[v][1].pc = IF st[v][1].pc = "asleep" /\ st[v][1].on = p
                             THEN "awake" ELSE st[v][1].pc
      BY <1>4, <2>2
    <3> HIDE DEF p
    <3> QED BY <3>1 DEF Waits
  <2> QED BY <2>1, <2>2
<1>7. \A a : WaitersAt(r, a) = WaitersAt(st, a)
  BY <1>6 DEF WaitersAt
<1>8. ASSUME NEW a \in Places(st), a # p
      PROVE  /\ Scope(r, a).key = Scope(st, a).key /\ Scope(r, a).owned = Scope(st, a).owned
             /\ Scope(r, a).running = Scope(st, a).running
             /\ Scope(r, a).waiters = Scope(st, a).waiters
             /\ Scope(r, a).pc = "draining" => Scope(st, a).pc = "draining"
  <2>1. PICK v \in Threads : \E i \in 1..Len(st[v]) : a = <<v, i>>
    BY <1>0, PlaceIs
  <2>2. PICK i \in 1..Len(st[v]) : a = <<v, i>>
    BY <2>1
  <2>3. Scope(r, a) = r[v][i] /\ Scope(st, a) = st[v][i]
    BY <1>0, <2>2, PlaceFacts
  <2>4. v # t \/ i # n
    BY <1>8, <2>2
  <2> HIDE DEF p
  <2> QED BY <1>4, <2>3, <2>4
<1>9. ~Scope(r, p).running /\ Scope(r, p).owned /\ Scope(r, p).key = Scope(st, p).key
      /\ Scope(r, p).waiters = Scope(st, p).waiters
      /\ (Scope(r, p).pc = "draining" => Scope(r, p).waiters # 0)
  BY <1>2
<1> HIDE DEF p
<1>10. WaitTargets(r)
  <2> SUFFICES ASSUME NEW v \in Threads, Waits(r, v)
               PROVE  /\ r[v][1].on \in Places(r)
                      /\ Scope(r, r[v][1].on).owned
                      /\ Scope(r, r[v][1].on).key = r[v][1].want
                      /\ r[v][1].pc = "asleep" => Scope(r, r[v][1].on).running
    BY DEF WaitTargets
  <2>1. /\ st[v][1].on \in Places(st)
        /\ Scope(st, st[v][1].on).owned
        /\ Scope(st, st[v][1].on).key = st[v][1].want
        /\ st[v][1].pc = "asleep" => Scope(st, st[v][1].on).running
        /\ r[v][1].on = st[v][1].on /\ r[v][1].want = st[v][1].want
        /\ r[v][1].pc = "asleep" => st[v][1].pc = "asleep" /\ st[v][1].on # p
    BY <1>0, <1>6 DEF WaitTargets
  <2>2. CASE st[v][1].on = p
    BY <1>3, <1>9, <2>1, <2>2
  <2>3. CASE st[v][1].on # p
    BY <1>3, <1>8, <2>1, <2>3
  <2> QED BY <2>2, <2>3
<1>11. FlightOwners(fl \ {p}, r)
  <2>1. fl = {a \in Places(st) : Scope(st, a).owned /\ Scope(st, a).running}
    BY <1>0 DEF FlightOwners
  <2>2. fl \ {p} = {a \in Places(r) : Scope(r, a).owned /\ Scope(r, a).running}
    BY <1>3, <1>8, <1>9, <2>1
  <2>3. \A a \in fl \ {p} : a \in fl /\ Scope(r, a).key = Scope(st, a).key
    BY <1>8, <2>1
  <2> QED BY <1>0, <2>2, <2>3 DEF FlightOwners
<1>12. WaiterCounts(r)
  <2> SUFFICES ASSUME NEW b \in Places(st)
               PROVE  /\ IsFiniteSet(WaitersAt(r, b))
                      /\ Scope(r, b).waiters = Cardinality(WaitersAt(r, b))
                      /\ Scope(r, b).pc = "draining" => WaitersAt(r, b) # {}
    BY <1>3 DEF WaiterCounts
  <2>0. /\ IsFiniteSet(WaitersAt(st, b))
        /\ Scope(st, b).waiters = Cardinality(WaitersAt(st, b))
        /\ Scope(st, b).pc = "draining" => WaitersAt(st, b) # {}
    BY <1>0 DEF WaiterCounts
  <2>1. CASE b = p
    <3>1. WaitersAt(r, p) = {} => Scope(r, p).waiters = 0
      BY <1>7, <1>9, <2>0, <2>1, FS_EmptySet
    <3> QED BY <1>7, <1>9, <2>0, <2>1, <3>1
  <2>2. CASE b # p
    BY <1>7, <1>8, <2>0, <2>2
  <2> QED BY <2>1, <2>2
<1>13. OuterOK(fl \ {p}, r)
  BY <1>5, <1>10, <1>11, <1>12 DEF OuterOK
<1> QED BY <1>13 DEF p

(* r is st after notify_all at a. *)
Wakes(st, r, a) ==
  /\ r \in Stacks
  /\ \A v \in Threads : Len(r[v]) = Len(st[v])
  /\ \A v \in Threads : \A j \in 1..Len(st[v]) :
       r[v][j] = Outer!Notified(a, <<v, j>>, st[v][j])

(* notify_all, place by place. *)
LEMMA NotifiedAt ==
  ASSUME NEW st \in Stacks, NEW a
  PROVE  Wakes(st, Outer!NotifiedAll(st, a), a)
<1> DEFINE r == Outer!NotifiedAll(st, a)
<1> DEFINE q(v) == [j \in 1..Len(st[v]) |-> Outer!Notified(a, <<v, j>>, st[v][j])]
<1>1. r = [v \in Threads |-> q(v)]
  BY DEF Outer!NotifiedAll
<1>2. ASSUME NEW v \in Threads
      PROVE  /\ q(v) \in Seq(Outer!OuterScope) /\ Len(q(v)) = Len(st[v])
             /\ \A j \in 1..Len(st[v]) : q(v)[j] = Outer!Notified(a, <<v, j>>, st[v][j])
  <2>1. Len(st[v]) \in Nat
    BY PlaceFacts
  <2>2. ASSUME NEW j \in 1..Len(st[v])
        PROVE  Outer!Notified(a, <<v, j>>, st[v][j]) \in Outer!OuterScope
    <3>1. st[v][j] \in Outer!OuterScope
      BY ScopeFields
    <3> QED BY <3>1 DEF Outer!Notified, Outer!OuterScope
  <2>3. q(v) \in [1..Len(st[v]) -> Outer!OuterScope]
    BY <2>2
  <2>4. q(v) \in Seq(Outer!OuterScope)
    BY <2>1, <2>3, SeqDef
  <2>5. DOMAIN q(v) = 1..Len(q(v)) /\ Len(q(v)) \in Nat
    BY <2>4, LenProperties
  <2>6. Len(q(v)) = Len(st[v])
    BY <2>1, <2>3, <2>5
  <2> QED BY <2>4, <2>6
<1> HIDE DEF q, r
<1>3. \A v \in Threads : r[v] = q(v)
  BY <1>1
<1>4. r \in [Threads -> Seq(Outer!OuterScope)]
  BY <1>1, <1>2
<1>5. Wakes(st, r, a)
  BY <1>2, <1>3, <1>4 DEF Stacks, Wakes
<1> QED BY <1>5 DEF r

(* Counting a waiter at a place and putting the thread to sleep on it. *)
LEMMA SleepAt ==
  ASSUME NEW st \in Stacks, NEW t \in Threads, NEW n, n = 1, Len(st[t]) = 1,
         NEW k \in Keys \cup {None},
         NEW u \in Threads, NEW i \in 1..Len(st[u]), u # t, i \in 1..MaxDepth,
         NEW a, a = <<u, i>>, NEW r,
         r = [st EXCEPT ![a[1]][a[2]].waiters = @ + 1,
                        ![t][n] = [@ EXCEPT !.pc = "asleep", !.on = a, !.want = k]]
  PROVE  Sleep(st, r, t, u, i, k)
<1> DEFINE m == st[u][i].waiters + 1
           q == [st EXCEPT ![a[1]][a[2]].waiters = m]
           f == [st[t][1] EXCEPT !.pc = "asleep", !.on = a, !.want = k]
<1>1. a[1] = u /\ a[2] = i /\ a \in Places(st) /\ Scope(st, a) = st[u][i]
  BY PlaceFacts
<1>2. st[u][i] \in Outer!OuterScope /\ m \in Nat
  BY ScopeFields
<1>3. 1 \in 1..Len(st[t])
  OBVIOUS
<1>4. st[t][1] \in Outer!OuterScope
  BY <1>3, ScopeFields
<1>5. a \in Outer!Address
  BY <1>1 DEF Outer!Address
<1>6. f \in Outer!OuterScope
  BY <1>4, <1>5 DEF Outer!OuterScope
<1>7. q[t] = st[t]
  BY <1>1
<1>8. r = [q EXCEPT ![t][1] = f]
  BY <1>1, <1>7
<1>9. Sets(Outer!OuterScope, st, q, u, i, [st[u][i] EXCEPT !.waiters = m])
  <2> HIDE DEF m
  <2> QED BY <1>1, <1>2, CountAt
<1> HIDE DEF q, m, f
<1>10. q \in Stacks /\ 1 \in 1..Len(q[t])
  BY <1>3, <1>7, <1>9 DEF Sets, Stacks
<1>11. Sets(Outer!OuterScope, q, r, t, 1, f)
  BY <1>6, <1>8, <1>10, SetAt DEF Stacks
<1>12. r \in Stacks /\ \A v \in Threads : Len(r[v]) = Len(st[v])
  BY <1>9, <1>11 DEF Sets, Stacks
<1>13. r[t][1] = f
  BY <1>11 DEF Sets
<1>14. r[u][i] = [st[u][i] EXCEPT !.waiters = m]
  BY <1>9, <1>11 DEF Sets
<1>15. ASSUME NEW v \in Threads, NEW j \in 1..Len(st[v]), v # t, <<v, j>> # <<u, i>>
       PROVE  r[v][j] = st[v][j]
  <2>1. q[v][j] = st[v][j] /\ j \in 1..Len(q[v])
    BY <1>9, <1>15 DEF Sets
  <2> QED BY <1>11, <1>15, <2>1 DEF Sets
<1>16. /\ f.key = st[t][1].key /\ f.owned = st[t][1].owned /\ f.running = st[t][1].running
       /\ f.waiters = st[t][1].waiters
       /\ f.pc = "asleep" /\ f.on = a /\ f.want = k
  BY <1>4 DEF f, Outer!OuterScope
<1>17. /\ r[u][i].key = st[u][i].key /\ r[u][i].owned = st[u][i].owned
       /\ r[u][i].running = st[u][i].running /\ r[u][i].pc = st[u][i].pc
       /\ r[u][i].waiters = m
  BY <1>2, <1>14 DEF Outer!OuterScope
<1>18. Alike(st, r)
  <2> SUFFICES ASSUME NEW v \in Threads, NEW j \in 1..Len(st[v])
               PROVE  /\ r[v][j].key = st[v][j].key
                      /\ r[v][j].owned = st[v][j].owned
                      /\ r[v][j].running = st[v][j].running
    BY <1>12 DEF Alike
  <2>1. CASE v = t
    <3>0. j \in 1..1
      BY <2>1
    <3>1. j = 1
      BY <3>0
    <3> QED BY <1>13, <1>16, <2>1, <3>1
  <2>2. CASE <<v, j>> = <<u, i>>
    BY <1>17, <2>2
  <2>3. CASE v # t /\ <<v, j>> # <<u, i>>
    BY <1>15, <2>3
  <2> QED BY <2>1, <2>2, <2>3
<1> QED BY <1>13, <1>15, <1>16, <1>17, <1>18 DEF m, Sleep

(* What a woken waiter waits for: an owned scope of another thread, with   *)
(* waiters.                                                                *)
LEMMA WaitedFor ==
  ASSUME NEW fl, NEW st, OuterOK(fl, st), NEW t \in Threads, Waits(st, t)
  PROVE  \E u \in Threads : \E i \in 1..Len(st[u]) :
           /\ st[t][1].on = <<u, i>> /\ u # t /\ i \in 1..MaxDepth
           /\ st[u][i].owned /\ st[u][i].key = st[t][1].want
           /\ st[u][i].waiters \in Nat \ {0}
<1>0. st \in Stacks /\ ScopeShape(st) /\ WaitTargets(st) /\ WaiterCounts(st)
  BY DEF OuterOK
<1>1. /\ st[t][1].on \in Places(st)
      /\ Scope(st, st[t][1].on).owned /\ Scope(st, st[t][1].on).key = st[t][1].want
  BY <1>0 DEF WaitTargets
<1>2. PICK u \in Threads : \E i \in 1..Len(st[u]) : st[t][1].on = <<u, i>>
  BY <1>0, <1>1, PlaceIs
<1>3. PICK i \in 1..Len(st[u]) : st[t][1].on = <<u, i>>
  BY <1>2
<1>4. i \in 1..MaxDepth /\ Scope(st, <<u, i>>) = st[u][i]
  BY <1>0, <1>1, <1>3, PlaceFacts
<1>5. st[u][i].owned /\ st[u][i].key = st[t][1].want
  BY <1>1, <1>3, <1>4
<1>6. u # t
  <2> SUFFICES ASSUME u = t PROVE FALSE
    OBVIOUS
  <2>0. i \in 1..1
    BY <1>3 DEF Waits
  <2>1. i = 1
    BY <2>0
  <2>2. ~st[t][1].owned
    BY <1>0, <1>3, <2>1 DEF ScopeShape, Waits
  <2> QED BY <1>5, <2>1, <2>2
<1>7. st[u][i].waiters \in Nat \ {0}
  <2> DEFINE W == WaitersAt(st, <<u, i>>)
  <2>1. t \in W
    BY <1>3 DEF WaitersAt
  <2>2. IsFiniteSet(W) /\ st[u][i].waiters = Cardinality(W)
    BY <1>0, <1>1, <1>3, <1>4 DEF WaiterCounts
  <2> HIDE DEF W
  <2>3. Cardinality(W) \in Nat /\ Cardinality(W) # 0
    BY <2>1, <2>2, FS_CardinalityType, FS_EmptySet
  <2> QED BY <2>2, <2>3
<1> QED BY <1>3, <1>4, <1>5, <1>6, <1>7

(* r is st after a waiter has left the Flight at u, i. *)
Leaves(st, r, u, i) ==
  /\ Alike(st, r)
  /\ r[u][i].waiters = st[u][i].waiters - 1
  /\ r[u][i].pc = IF r[u][i].waiters = 0 /\ st[u][i].pc = "draining"
                  THEN "drained" ELSE st[u][i].pc
  /\ \A v \in Threads : \A j \in 1..Len(st[v]) :
       <<v, j>> # <<u, i>> => r[v][j] = st[v][j]

(* A woken waiter of a finished Flight leaves it: one waiter less, and a   *)
(* draining owner that has no more is notified.                            *)
LEMMA LeftAt ==
  ASSUME NEW fl, NEW st, OuterOK(fl, st), NEW t \in Threads, Waits(st, t),
         NEW u \in Threads, NEW i \in 1..Len(st[u]), i \in 1..MaxDepth, u # t,
         NEW a, a = <<u, i>>, st[t][1].on = a, ~st[u][i].running,
         st[u][i].waiters \in Nat \ {0},
         NEW q, q = [st EXCEPT ![a[1]][a[2]].waiters = @ - 1],
         NEW r, r = IF q[a[1]][a[2]].waiters = 0 THEN Outer!NotifiedAll(q, a) ELSE q
  PROVE  Leaves(st, r, u, i)
<1>0. st \in Stacks /\ ScopeShape(st) /\ WaitTargets(st)
  BY DEF OuterOK
<1> DEFINE m == st[u][i].waiters - 1
           f == [st[u][i] EXCEPT !.waiters = m]
<1>1. a[1] = u /\ a[2] = i /\ a \in Places(st) /\ Scope(st, a) = st[u][i]
  BY <1>0, PlaceFacts
<1>2. st[u][i] \in Outer!OuterScope /\ m \in Nat
  BY <1>0, ScopeFields
<1>3. f.waiters = m /\ f.pc = st[u][i].pc /\ f.key = st[u][i].key
      /\ f.owned = st[u][i].owned /\ f.running = st[u][i].running /\ f \in Outer!OuterScope
  BY <1>2 DEF Outer!OuterScope
<1>4. q = [st EXCEPT ![a[1]][a[2]].waiters = m]
  BY <1>1
<1>5. Sets(Outer!OuterScope, st, q, u, i, f)
  <2> HIDE DEF m
  <2> QED BY <1>0, <1>1, <1>2, <1>4, CountAt
<1> HIDE DEF f, m
<1>6. /\ q \in Stacks /\ \A v \in Threads : Len(q[v]) = Len(st[v])
      /\ q[u][i] = f
      /\ \A v \in Threads : \A j \in 1..Len(st[v]) :
           <<v, j>> # <<u, i>> => q[v][j] = st[v][j]
  BY <1>5 DEF Sets, Stacks
<1>7. /\ r \in Stacks /\ \A v \in Threads : Len(r[v]) = Len(st[v])
      /\ r[u][i].waiters = m /\ r[u][i].key = f.key /\ r[u][i].owned = f.owned
      /\ r[u][i].running = f.running
      /\ r[u][i].pc = IF m = 0 /\ f.pc = "draining" THEN "drained" ELSE f.pc
      /\ \A v \in Threads : \A j \in 1..Len(st[v]) :
           <<v, j>> # <<u, i>> => r[v][j] = st[v][j]
  <2>1. CASE m # 0
    BY <1>1, <1>3, <1>6, <2>1
  <2>2. CASE m = 0
    <3>1. r = Outer!NotifiedAll(q, a)
      BY <1>1, <1>3, <1>6, <2>2
    <3>2. Wakes(q, r, a)
      BY <1>6, <3>1, NotifiedAt
    <3>a. i \in 1..Len(q[u])
      BY <1>6
    <3>b. r[u][i] = Outer!Notified(a, <<u, i>>, q[u][i])
      BY <3>2, <3>a DEF Wakes
    <3>3. r[u][i] = Outer!Notified(a, a, f)
      BY <1>6, <3>b
    <3>4. f.pc # "asleep"
      BY <1>0, <1>3 DEF ScopeShape
    <3>5. /\ r[u][i].waiters = m /\ r[u][i].key = f.key /\ r[u][i].owned = f.owned
          /\ r[u][i].running = f.running
          /\ r[u][i].pc = IF f.pc = "draining" THEN "drained" ELSE f.pc
      BY <1>3, <3>3, <3>4 DEF Outer!Notified, Outer!OuterScope
    <3>6. ASSUME NEW v \in Threads, NEW j \in 1..Len(st[v]), <<v, j>> # <<u, i>>
          PROVE  r[v][j] = st[v][j]
      <4>1. q[v][j] = st[v][j] /\ j \in 1..Len(q[v])
        BY <1>6, <3>6
      <4>a. r[v][j] = Outer!Notified(a, <<v, j>>, q[v][j])
        BY <3>2, <4>1 DEF Wakes
      <4>2. r[v][j] = Outer!Notified(a, <<v, j>>, st[v][j])
        BY <4>1, <4>a
      <4>3. ~(st[v][j].pc = "asleep" /\ st[v][j].on = a)
        <5> SUFFICES ASSUME st[v][j].pc = "asleep", st[v][j].on = a PROVE FALSE
          OBVIOUS
        <5>0. Len(st[v]) = 1
          BY <1>0 DEF ScopeShape
        <5>1. j \in 1..1
          BY <5>0
        <5>2. j = 1
          BY <5>1
        <5>3. Scope(st, a).running
          BY <1>0, <5>0, <5>2 DEF WaitTargets, Waits
        <5> QED BY <1>1, <5>3
      <4>4. a # <<v, j>>
        BY <3>6
      <4> QED BY <4>2, <4>3, <4>4 DEF Outer!Notified
    <3>7. r \in Stacks /\ \A v \in Threads : Len(r[v]) = Len(st[v])
      BY <1>6, <3>2 DEF Wakes
    <3> QED BY <2>2, <3>5, <3>6, <3>7
  <2> QED BY <2>1, <2>2
<1>8. Alike(st, r)
  <2> SUFFICES ASSUME NEW v \in Threads, NEW j \in 1..Len(st[v])
               PROVE  /\ r[v][j].key = st[v][j].key
                      /\ r[v][j].owned = st[v][j].owned
                      /\ r[v][j].running = st[v][j].running
    BY <1>7 DEF Alike
  <2>1. CASE <<v, j>> = <<u, i>>
    BY <1>3, <1>7, <2>1
  <2>2. CASE <<v, j>> # <<u, i>>
    BY <1>7, <2>2
  <2> QED BY <2>1, <2>2
<1> QED BY <1>3, <1>7, <1>8 DEF m, Leaves

(* lf is st but for the place n of thread t, where it may stand and wait   *)
(* elsewhere.                                                              *)
AlikeBut(st, lf, t, n) ==
  /\ lf \in Stacks
  /\ \A v \in Threads : Len(lf[v]) = Len(st[v])
  /\ \A v \in Threads : \A j \in 1..Len(st[v]) : v # t \/ j # n => lf[v][j] = st[v][j]
  /\ lf[t][n].key = st[t][n].key /\ lf[t][n].owned = st[t][n].owned
  /\ lf[t][n].running = st[t][n].running /\ lf[t][n].waiters = st[t][n].waiters

(* Threads other than t keep their scopes, and stay in native code. *)
Calm(st, r, t) ==
  \A v \in Threads : v # t =>
    /\ Len(r[v]) = Len(st[v])
    /\ \A j \in 1..Len(st[v]) : st[v][j].pc = "compiling" => r[v][j].pc = "compiling"

(* Two steps of t that leave the other threads in native code. *)
LEMMA CalmTwice ==
  ASSUME NEW st, NEW q, NEW r, NEW t, Calm(st, q, t), Calm(q, r, t)
  PROVE  Calm(st, r, t)
<1> SUFFICES ASSUME NEW v \in Threads, v # t
             PROVE  /\ Len(r[v]) = Len(st[v])
                    /\ \A j \in 1..Len(st[v]) :
                         st[v][j].pc = "compiling" => r[v][j].pc = "compiling"
  BY DEF Calm
<1>1. Len(q[v]) = Len(st[v]) /\ Len(r[v]) = Len(q[v])
  BY DEF Calm
<1>2. ASSUME NEW j \in 1..Len(st[v]), st[v][j].pc = "compiling"
      PROVE  r[v][j].pc = "compiling"
  <2>1. q[v][j].pc = "compiling" /\ j \in 1..Len(q[v])
    BY <1>1, <1>2 DEF Calm
  <2> QED BY <2>1 DEF Calm
<1> QED BY <1>1, <1>2

(* Own: the key hook registers the innermost scope. *)
LEMMA OwnFrom ==
  ASSUME NEW fl, NEW st, OuterOK(fl, st), NEW t \in Threads, NEW n, n = Len(st[t]),
         n > 0, NEW k \in Keys \cup {None}, st[t][n].pc = "compiling", ~st[t][n].owned,
         \A a \in fl : Scope(st, a).key # k,
         NEW lf, AlikeBut(st, lf, t, n), NEW r,
         r = [lf EXCEPT ![t][n] = [@ EXCEPT !.pc = "compiling", !.key = k, !.owned = TRUE,
                                            !.on = None, !.want = None]]
  PROVE  OuterOK(fl \cup {<<t, n>>}, r) /\ Calm(st, r, t)
<1>0. st \in Stacks /\ lf \in Stacks /\ n \in 1..Len(lf[t]) /\ n \in 1..Len(st[t])
  <2>1. st \in Stacks
    BY DEF OuterOK
  <2>2. n \in Nat
    BY <2>1, PlaceFacts
  <2> QED BY <2>1, <2>2 DEF AlikeBut
<1> DEFINE f == [lf[t][n] EXCEPT !.pc = "compiling", !.key = k, !.owned = TRUE,
                                 !.on = None, !.want = None]
<1>1. lf[t][n] \in Outer!OuterScope
  BY <1>0, ScopeFields
<1>2. /\ f \in Outer!OuterScope /\ f.pc = "compiling" /\ f.key = k /\ f.owned
      /\ f.running = lf[t][n].running /\ f.waiters = lf[t][n].waiters
  BY <1>1 DEF Outer!OuterScope
<1>3. r = [lf EXCEPT ![t][n] = f]
  OBVIOUS
<1> HIDE DEF f
<1>4. Sets(Outer!OuterScope, lf, r, t, n, f)
  BY <1>0, <1>2, <1>3, SetAt DEF Stacks
<1>5. Sets(Outer!OuterScope, st, r, t, n, f)
  BY <1>4 DEF Sets, AlikeBut
<1>6. f.running = st[t][n].running /\ f.waiters = st[t][n].waiters
  BY <1>2 DEF AlikeBut
<1>7. OuterOK(fl \cup {<<t, n>>}, r)
  BY <1>2, <1>5, <1>6, OwnOK
<1>8. Calm(st, r, t)
  BY <1>5 DEF Sets, Calm
<1> QED BY <1>7, <1>8

(* Wait: the key hook waits for the Flight registered at a. *)
LEMMA WaitFrom ==
  ASSUME NEW fl, NEW st, OuterOK(fl, st), NEW t \in Threads, NEW n, n = Len(st[t]), n = 1,
         st[t][n].pc = "compiling", ~st[t][n].owned,
         NEW a \in fl, a[1] # t, NEW k \in Keys \cup {None}, Scope(st, a).key = k,
         NEW lf, AlikeBut(st, lf, t, n), NEW r,
         r = [lf EXCEPT ![a[1]][a[2]].waiters = @ + 1,
                        ![t][n] = [@ EXCEPT !.pc = "asleep", !.on = a, !.want = k]]
  PROVE  OuterOK(fl, r) /\ Calm(st, r, t)
<1>0. st \in Stacks /\ lf \in Stacks /\ Len(lf[t]) = 1 /\ Len(st[t]) = 1
      /\ \A v \in Threads : Len(lf[v]) = Len(st[v])
  BY DEF OuterOK, AlikeBut
<1>1. a \in Places(st)
  BY DEF OuterOK, FlightOwners
<1>2. PICK u \in Threads : \E i \in 1..Len(st[u]) : a = <<u, i>>
  BY <1>0, <1>1, PlaceIs
<1>3. PICK i \in 1..Len(st[u]) : a = <<u, i>>
  BY <1>2
<1>4. u # t /\ i \in 1..MaxDepth /\ Scope(st, a) = st[u][i] /\ i \in 1..Len(lf[u])
  BY <1>0, <1>1, <1>3, PlaceFacts
<1>5. Sleep(lf, r, t, u, i, k)
  BY <1>0, <1>3, <1>4, SleepAt
<1>6. lf[u][i] = st[u][i]
  BY <1>4 DEF AlikeBut
<1>7. lf[t][1].key = st[t][1].key /\ lf[t][1].owned = st[t][1].owned
      /\ lf[t][1].running = st[t][1].running /\ lf[t][1].waiters = st[t][1].waiters
  BY DEF AlikeBut
<1>8. Alike(st, r)
  <2>0. Alike(lf, r)
    BY <1>5 DEF Sleep
  <2> SUFFICES ASSUME NEW v \in Threads, NEW j \in 1..Len(st[v])
               PROVE  /\ r[v][j].key = st[v][j].key
                      /\ r[v][j].owned = st[v][j].owned
                      /\ r[v][j].running = st[v][j].running
    BY <1>0, <2>0 DEF Alike
  <2>1. /\ r[v][j].key = lf[v][j].key
        /\ r[v][j].owned = lf[v][j].owned
        /\ r[v][j].running = lf[v][j].running
    BY <1>0, <2>0 DEF Alike
  <2>2. CASE v = t /\ j = 1
    BY <1>7, <2>1, <2>2
  <2>3. CASE ~(v = t /\ j = 1)
    <3>1. lf[v][j] = st[v][j]
      BY <2>3 DEF AlikeBut
    <3> QED BY <2>1, <3>1
  <2> QED BY <2>2, <2>3
<1>9. ASSUME NEW v \in Threads, NEW j \in 1..Len(st[v]), v # t, <<v, j>> # <<u, i>>
      PROVE  r[v][j] = st[v][j]
  <2>1. lf[v][j] = st[v][j] /\ j \in 1..Len(lf[v])
    BY <1>0, <1>9 DEF AlikeBut
  <2> QED BY <1>5, <1>9, <2>1 DEF Sleep
<1>10. st[t][1].pc = "compiling" /\ ~st[t][1].owned
  OBVIOUS
<1>11. k = st[u][i].key /\ <<u, i>> \in fl
  BY <1>3, <1>4
<1>12. Sleep(st, r, t, u, i, st[u][i].key)
  BY <1>5, <1>6, <1>7, <1>8, <1>9, <1>11 DEF Sleep
<1>13. OuterOK(fl, r)
  BY <1>0, <1>4, <1>10, <1>11, <1>12, WaitOK
<1>14. Calm(st, r, t)
  <2>1. ASSUME NEW v \in Threads, v # t, NEW j \in 1..Len(st[v])
        PROVE  r[v][j].pc = st[v][j].pc
    <3>1. CASE <<v, j>> = <<u, i>>
      BY <1>12, <3>1 DEF Sleep
    <3>2. CASE <<v, j>> # <<u, i>>
      BY <1>9, <2>1, <3>2
    <3> QED BY <3>1, <3>2
  <2> QED BY <1>8, <2>1 DEF Calm, Alike
<1> QED BY <1>13, <1>14

(* The search through gOuterFlights, by place. *)
LEMMA RegisteredIs ==
  ASSUME NEW k
  PROVE  Outer!Registered(k) = {a \in flights : Scope(scopes, a).key = k}
BY DEF Outer!Registered, Outer!Flight, Scope

(* compileStages keeps the invariant. *)
LEMMA CompileKeeps ==
  ASSUME OuterInv, NEW t \in Threads, Outer!Compile(t)
  PROVE  OuterInv' /\ Calm(scopes, scopes', t)
<1>1. /\ Len(scopes[t]) < MaxDepth
      /\ Len(scopes[t]) > 0 => scopes[t][Len(scopes[t])].pc = "compiling"
      /\ scopes' = [scopes EXCEPT ![t] = Append(@, Outer!NewScope)] /\ flights' = flights
  BY DEF Outer!Compile, Outer!Depth, Outer!Top
<1>2. OuterOK(flights, scopes)
  BY DEF OuterInv
<1>3. OuterOK(flights, scopes')
  BY <1>1, <1>2, PushOK
<1>4. Calm(scopes, scopes', t)
  BY <1>1, <1>2 DEF Calm, OuterOK, Stacks
<1> QED BY <1>1, <1>3, <1>4 DEF OuterInv

(* The key hook keeps the invariant. *)
LEMMA RegisterKeyKeeps ==
  ASSUME OuterInv, NEW t \in Threads, NEW k \in Keys, Outer!RegisterKey(t, k)
  PROVE  OuterInv' /\ Calm(scopes, scopes', t)
<1>0. OuterOK(flights, scopes) /\ scopes \in Stacks
  BY DEF OuterInv, OuterOK
<1>1. PICK n : n = Len(scopes[t])
  OBVIOUS
<1>2. /\ n > 0 /\ scopes[t][n].pc = "compiling" /\ ~scopes[t][n].owned
      /\ \/ Outer!Own(scopes, t, k)
         \/ Outer!Wait(scopes, t, k)
         \/ flights' = flights /\ scopes' = scopes
  BY <1>1 DEF Outer!RegisterKey, Outer!At, Outer!Depth, Outer!Top, Outer!vars
<1>3. AlikeBut(scopes, scopes, t, n)
  BY <1>0 DEF AlikeBut
<1>4. CASE Outer!Own(scopes, t, k)
  <2>1. /\ flights' = flights \cup {<<t, n>>}
        /\ scopes' = [scopes EXCEPT ![t][n] =
                        [@ EXCEPT !.pc = "compiling", !.key = k, !.owned = TRUE,
                                  !.on = None, !.want = None]]
        /\ \A a \in flights : Scope(scopes, a).key # k
    BY <1>1, <1>4, RegisteredIs DEF Outer!Own, Outer!Depth, Outer!Here
  <2>a. n = Len(scopes[t]) /\ n > 0 /\ scopes[t][n].pc = "compiling" /\ ~scopes[t][n].owned
    BY <1>1, <1>2
  <2>2. OuterOK(flights \cup {<<t, n>>}, scopes')
    BY <1>0, <1>3, <2>1, <2>a, OwnFrom
  <2>3. Calm(scopes, scopes', t)
    BY <1>0, <1>3, <2>1, <2>a, OwnFrom
  <2> QED BY <2>1, <2>2, <2>3 DEF OuterInv
<1>5. CASE Outer!Wait(scopes, t, k)
  <2>1. PICK a \in Outer!Registered(k) :
          /\ ~Outer!Bypasses(t, a)
          /\ scopes' = [scopes EXCEPT ![a[1]][a[2]].waiters = @ + 1,
                          ![t][n] = [@ EXCEPT !.pc = "asleep", !.on = a, !.want = k]]
          /\ flights' = flights
    BY <1>1, <1>5 DEF Outer!Wait, Outer!Depth
  <2>2. a \in flights /\ Scope(scopes, a).key = k
    BY RegisteredIs
  <2>3. Scope(scopes, a).running
    BY <1>0, <2>2 DEF OuterOK, FlightOwners
  <2>4. a[1] # t /\ ~(n > 1)
    BY <1>1, <2>1, <2>3 DEF Outer!Bypasses, Outer!Flight, Scope, Outer!Depth
  <2>5. n \in Nat
    BY <1>0, <1>1, PlaceFacts
  <2>6. n = 1
    BY <1>2, <2>4, <2>5
  <2>7. OuterOK(flights, scopes') /\ Calm(scopes, scopes', t)
    BY <1>0, <1>1, <1>2, <1>3, <2>1, <2>2, <2>4, <2>6, WaitFrom
  <2> QED BY <2>1, <2>7 DEF OuterInv
<1>6. CASE flights' = flights /\ scopes' = scopes
  BY <1>0, <1>6 DEF OuterInv, Calm
<1> QED BY <1>2, <1>4, <1>5, <1>6

(* The return of registerOuterKey's wait keeps the invariant: the waiter   *)
(* leaves its Flight, and then proceeds, owns the key, or waits again.     *)
LEMMA WokenKeeps ==
  ASSUME OuterInv, NEW t \in Threads, Outer!Woken(t)
  PROVE  OuterInv' /\ Calm(scopes, scopes', t)
<1>0. OuterOK(flights, scopes) /\ scopes \in Stacks /\ ScopeShape(scopes)
  BY DEF OuterInv, OuterOK
<1>1. Outer!At(t, "awake") /\ ~Outer!Flight(Outer!Top(t).on).running
  BY DEF Outer!Woken
<1>2. Waits(scopes, t) /\ Len(scopes[t]) = 1
  <2>1. PICK n : n = Len(scopes[t])
    OBVIOUS
  <2>2. n > 0 /\ scopes[t][n].pc = "awake" /\ n \in Nat
    BY <1>0, <1>1, <2>1, PlaceFacts DEF Outer!At, Outer!Depth, Outer!Top
  <2>3. n \in 1..Len(scopes[t])
    BY <2>1, <2>2
  <2>4. n = 1
    BY <1>0, <2>1, <2>2, <2>3 DEF ScopeShape
  <2> QED BY <2>1, <2>2, <2>4 DEF Waits
<1>3. PICK a : a = scopes[t][1].on
  OBVIOUS
<1>4. Outer!Top(t) = scopes[t][1] /\ Outer!Depth(t) = 1 /\ Outer!Top(t).on = a
  BY <1>2, <1>3 DEF Outer!Top, Outer!Depth
<1>5. PICK u \in Threads : \E i \in 1..Len(scopes[u]) :
           /\ a = <<u, i>> /\ u # t /\ i \in 1..MaxDepth
           /\ scopes[u][i].owned /\ scopes[u][i].key = scopes[t][1].want
           /\ scopes[u][i].waiters \in Nat \ {0}
  BY <1>0, <1>2, <1>3, WaitedFor
<1>6. PICK i \in 1..Len(scopes[u]) :
           /\ a = <<u, i>> /\ u # t /\ i \in 1..MaxDepth
           /\ scopes[u][i].owned /\ scopes[u][i].key = scopes[t][1].want
           /\ scopes[u][i].waiters \in Nat \ {0}
  BY <1>5
<1>7. ~scopes[u][i].running
  BY <1>1, <1>4, <1>6 DEF Outer!Flight
<1>8. PICK q : q = [scopes EXCEPT ![a[1]][a[2]].waiters = @ - 1]
  OBVIOUS
<1>9. PICK lf : lf = IF q[a[1]][a[2]].waiters = 0 THEN Outer!NotifiedAll(q, a) ELSE q
  OBVIOUS
<1>10. Outer!LeftFlight(t) = lf
  BY <1>4, <1>8, <1>9 DEF Outer!LeftFlight
<1>11. Leaves(scopes, lf, u, i)
  BY <1>0, <1>2, <1>3, <1>6, <1>7, <1>8, <1>9, LeftAt
<1> DEFINE f == [lf[t][1] EXCEPT !.pc = "compiling", !.on = None, !.want = None]
<1>12. PICK mid : mid = [lf EXCEPT ![t][1] = f]
  OBVIOUS
<1>13. lf \in Stacks /\ Len(lf[t]) = 1 /\ \A v \in Threads : Len(lf[v]) = Len(scopes[v])
  BY <1>2, <1>11 DEF Alike, Leaves
<1>14. 1 \in 1..Len(lf[t]) /\ 1 \in 1..Len(scopes[t])
  BY <1>2, <1>13
<1>15. lf[t][1] \in Outer!OuterScope /\ lf[t][1] = scopes[t][1]
  <2>1. <<t, 1>> # <<u, i>>
    BY <1>6
  <2>2. lf[t][1] = scopes[t][1]
    BY <1>11, <1>14, <2>1 DEF Leaves
  <2>3. lf[t][1] \in Outer!OuterScope
    BY <1>13, <1>14, ScopeFields
  <2> QED BY <2>2, <2>3
<1>16. /\ f \in Outer!OuterScope /\ f.pc = "compiling" /\ f.key = lf[t][1].key
       /\ f.owned = lf[t][1].owned /\ f.running = lf[t][1].running
       /\ f.waiters = lf[t][1].waiters
  BY <1>15 DEF Outer!OuterScope
<1>17. [lf EXCEPT ![t][1] = [@ EXCEPT !.pc = "compiling", !.on = None, !.want = None]] = mid
  BY <1>12
<1> HIDE DEF f
<1>18. Sets(Outer!OuterScope, lf, mid, t, 1, f)
  BY <1>12, <1>13, <1>14, <1>16, SetAt DEF Stacks
<1>19. /\ mid \in Stacks /\ \A v \in Threads : Len(mid[v]) = Len(scopes[v])
       /\ mid[t][1] = f
       /\ \A v \in Threads : \A j \in 1..Len(scopes[v]) : v # t \/ j # 1 => mid[v][j] = lf[v][j]
  BY <1>13, <1>18 DEF Sets, Stacks
<1>20. mid[u][i] = lf[u][i]
  BY <1>6, <1>19
<1>21. ASSUME NEW v \in Threads, NEW j \in 1..Len(scopes[v]), v # t, <<v, j>> # <<u, i>>
       PROVE  mid[v][j] = scopes[v][j]
  <2>1. mid[v][j] = lf[v][j]
    BY <1>19, <1>21
  <2>2. lf[v][j] = scopes[v][j]
    BY <1>11, <1>21 DEF Leaves
  <2> QED BY <2>1, <2>2
<1>22. Alike(scopes, mid)
  <2> SUFFICES ASSUME NEW v \in Threads, NEW j \in 1..Len(scopes[v])
               PROVE  /\ mid[v][j].key = scopes[v][j].key
                      /\ mid[v][j].owned = scopes[v][j].owned
                      /\ mid[v][j].running = scopes[v][j].running
    BY <1>19 DEF Alike
  <2>1. CASE v = t /\ j = 1
    BY <1>15, <1>16, <1>19, <2>1
  <2>2. CASE ~(v = t /\ j = 1)
    <3>1. mid[v][j] = lf[v][j]
      BY <1>19, <2>2
    <3> QED BY <1>11, <3>1 DEF Alike, Leaves
  <2> QED BY <2>1, <2>2
<1>23. OuterOK(flights, mid)
  <2>1. mid[t][1].pc = "compiling" /\ mid[t][1].waiters = scopes[t][1].waiters
    BY <1>15, <1>16, <1>19
  <2>2. /\ mid[u][i].waiters = scopes[u][i].waiters - 1
        /\ mid[u][i].pc = IF mid[u][i].waiters = 0 /\ scopes[u][i].pc = "draining"
                          THEN "drained" ELSE scopes[u][i].pc
    <3>1. /\ lf[u][i].waiters = scopes[u][i].waiters - 1
          /\ lf[u][i].pc = IF lf[u][i].waiters = 0 /\ scopes[u][i].pc = "draining"
                           THEN "drained" ELSE scopes[u][i].pc
      BY <1>11 DEF Leaves
    <3> QED BY <1>20, <3>1
  <2>3. scopes[t][1].on = <<u, i>>
    BY <1>3, <1>6
  <2> QED BY <1>0, <1>2, <1>6, <1>21, <1>22, <2>1, <2>2, <2>3, LeaveOK
<1>24. AlikeBut(mid, lf, t, 1)
  BY <1>13, <1>16, <1>19 DEF AlikeBut
<1>25. mid[t][1].pc = "compiling" /\ ~mid[t][1].owned /\ Len(mid[t]) = 1
  <2>1. ~scopes[t][1].owned
    BY <1>0, <1>2, <1>14 DEF ScopeShape, Waits
  <2> QED BY <1>2, <1>15, <1>16, <1>19, <2>1
<1>26. \A b \in flights : Scope(mid, b).key = Scope(scopes, b).key
  <2>1. flights \subseteq Places(scopes)
    BY <1>0 DEF OuterOK, FlightOwners
  <2>2. FlightOwners(flights, scopes)
    BY <1>0 DEF OuterOK
  <2> QED BY <1>0, <1>22, <2>1, <2>2, AlikeOwners
<1>a. Calm(scopes, mid, t)
  <2>1. ASSUME NEW v \in Threads, v # t, NEW j \in 1..Len(scopes[v]),
               scopes[v][j].pc = "compiling"
        PROVE  mid[v][j].pc = "compiling"
    <3>1. CASE <<v, j>> = <<u, i>>
      <4>1. lf[u][i].pc = "compiling"
        BY <1>11, <2>1, <3>1 DEF Leaves
      <4> QED BY <1>20, <3>1, <4>1
    <3>2. CASE <<v, j>> # <<u, i>>
      BY <1>21, <2>1, <3>2
    <3> QED BY <3>1, <3>2
  <2> QED BY <1>19, <2>1 DEF Calm
<1>27. PICK k : k = scopes[t][1].want
  OBVIOUS
<1>28. k \in Keys \cup {None}
  <2>1. scopes[t][1] \in Outer!OuterScope
    BY <1>0, <1>14, ScopeFields
  <2> QED BY <1>27, <2>1 DEF Outer!OuterScope
<1>29. CASE scopes' = mid /\ flights' = flights
  BY <1>23, <1>29, <1>a DEF OuterInv
<1>30. CASE Outer!Own(lf, t, k)
  <2>1. /\ flights' = flights \cup {<<t, 1>>}
        /\ scopes' = [lf EXCEPT ![t][1] =
                        [@ EXCEPT !.pc = "compiling", !.key = k, !.owned = TRUE,
                                  !.on = None, !.want = None]]
        /\ \A b \in flights : Scope(scopes, b).key # k
    BY <1>4, <1>30, RegisteredIs DEF Outer!Own, Outer!Here
  <2>a. \A b \in flights : Scope(mid, b).key # k
    BY <1>26, <2>1
  <2>b. 1 = Len(mid[t]) /\ 1 > 0 /\ mid[t][1].pc = "compiling" /\ ~mid[t][1].owned
    BY <1>25
  <2>2. OuterOK(flights \cup {<<t, 1>>}, scopes') /\ Calm(mid, scopes', t)
    BY <1>23, <1>24, <1>28, <2>1, <2>a, <2>b, OwnFrom
  <2>3. Calm(scopes, scopes', t)
    BY <1>a, <2>2, CalmTwice
  <2> QED BY <2>1, <2>2, <2>3 DEF OuterInv
<1>31. CASE Outer!Wait(lf, t, k)
  <2>1. PICK b \in Outer!Registered(k) :
          /\ ~Outer!Bypasses(t, b)
          /\ scopes' = [lf EXCEPT ![b[1]][b[2]].waiters = @ + 1,
                          ![t][1] = [@ EXCEPT !.pc = "asleep", !.on = b, !.want = k]]
          /\ flights' = flights
    BY <1>4, <1>31 DEF Outer!Wait
  <2>2. b \in flights /\ Scope(scopes, b).key = k
    BY RegisteredIs
  <2>3. Scope(scopes, b).running
    BY <1>0, <2>2 DEF OuterOK, FlightOwners
  <2>4. b[1] # t
    BY <2>1, <2>3 DEF Outer!Bypasses, Outer!Flight, Scope
  <2>5. Scope(mid, b).key = k
    BY <1>26, <2>2
  <2>6. OuterOK(flights, scopes') /\ Calm(mid, scopes', t)
    <3>1. 1 = Len(mid[t]) /\ 1 = 1 /\ mid[t][1].pc = "compiling" /\ ~mid[t][1].owned
      BY <1>25
    <3>2. PICK r : r = scopes'
      OBVIOUS
    <3>3. r = [lf EXCEPT ![b[1]][b[2]].waiters = @ + 1,
                         ![t][1] = [@ EXCEPT !.pc = "asleep", !.on = b, !.want = k]]
      BY <2>1, <3>2
    <3>4. b \in flights /\ b[1] # t /\ Scope(mid, b).key = k /\ k \in Keys \cup {None}
      BY <1>28, <2>2, <2>4, <2>5
    <3>5. OuterOK(flights, r) /\ Calm(mid, r, t)
      BY <1>23, <1>24, <3>1, <3>3, <3>4, WaitFrom
    <3> QED BY <3>2, <3>5
  <2>7. Calm(scopes, scopes', t)
    BY <1>a, <2>6, CalmTwice
  <2> QED BY <2>1, <2>6, <2>7 DEF OuterInv
<1>32. \/ scopes' = mid /\ flights' = flights
       \/ Outer!Own(lf, t, k)
       \/ Outer!Wait(lf, t, k)
  BY <1>4, <1>10, <1>17, <1>27 DEF Outer!Woken
<1> QED BY <1>29, <1>30, <1>31, <1>32

(* The end of a scope, place by place. *)
LEMMA PoppedAt ==
  ASSUME NEW st \in Stacks, NEW t \in Threads, NEW n, n = Len(st[t]), n > 0
  PROVE  Pops(st, Outer!Popped(st, t), t, n)
<1> DEFINE r == Outer!Popped(st, t)
           q == SubSeq(st[t], 1, n - 1)
<1>1. r = [st EXCEPT ![t] = q]
  BY DEF Outer!Popped
<1>2. st[t] \in Seq(Outer!OuterScope) /\ n \in Nat
  BY DEF Stacks
<1>3. /\ q \in Seq(Outer!OuterScope) /\ Len(q) = n - 1
      /\ \A i \in 1..(n - 1) : q[i] = st[t][i]
  BY <1>2
<1> HIDE DEF q, r
<1>4. r \in Stacks
  BY <1>1, <1>3 DEF Stacks
<1>5. r[t] = q /\ \A v \in Threads : v # t => r[v] = st[v]
  BY <1>1 DEF Stacks
<1>6. Pops(st, r, t, n)
  BY <1>3, <1>4, <1>5 DEF Pops
<1> QED BY <1>6 DEF r

(* r is q with the scope at t, n, which finish() has notified, at pc. *)
Ended(st, q, r, t, n, pc) ==
  /\ q \in Stacks /\ r \in Stacks /\ Len(q[t]) = n /\ Len(r[t]) = n
  /\ \A v \in Threads : v # t => r[v] = q[v]
  /\ \A i \in 1..(n - 1) : r[t][i] = q[t][i]
  /\ r[t][n].waiters = st[t][n].waiters /\ r[t][n].pc = pc

(* The Flight f of a scope that has finished. *)
Over(f, old) ==
  /\ f \in Outer!OuterScope /\ f.pc = "compiling" /\ ~f.running /\ f.owned
  /\ f.key = old.key /\ f.waiters = old.waiters

(* finish() stores f, notifies, and leaves the scope at pc. *)
FinishSteps(st, t, n, f, q, r, pc) ==
  /\ q = Outer!NotifiedAll([st EXCEPT ![t][n] = f], <<t, n>>)
  /\ r = [q EXCEPT ![t][n].pc = pc]

(* finish() of an owner, up to the drain or the end of the scope. *)
LEMMA FinishedAt ==
  ASSUME NEW fl, NEW st, OuterOK(fl, st), NEW t \in Threads, NEW n, n = Len(st[t]),
         n > 0, st[t][n].pc = "compiling", st[t][n].owned,
         NEW pc \in {"draining", "drained"}, pc = "draining" => st[t][n].waiters # 0,
         NEW f, Over(f, st[t][n]), NEW q, NEW r, FinishSteps(st, t, n, f, q, r, pc)
  PROVE  OuterOK(fl \ {<<t, n>>}, r) /\ Ended(st, q, r, t, n, pc) /\ Calm(st, r, t)
<1>0. st \in Stacks /\ ScopeShape(st) /\ WaitTargets(st)
  BY DEF OuterOK
<1>1. n \in 1..Len(st[t]) /\ n \in Nat /\ 1..(n - 1) \subseteq 1..n
  <2>1. n \in Nat
    BY <1>0, PlaceFacts
  <2>2. n \in 1..n
    BY <2>1
  <2>3. 1..(n - 1) \subseteq 1..n
    BY <2>1
  <2> QED BY <2>1, <2>2, <2>3
<1> DEFINE h == [f EXCEPT !.pc = pc]
           p == <<t, n>>
<1>3. /\ f \in Outer!OuterScope /\ f.pc = "compiling" /\ ~f.running /\ f.owned
      /\ f.key = st[t][n].key /\ f.waiters = st[t][n].waiters
  BY DEF Over
<1>4. PICK g : g = [st EXCEPT ![t][n] = f]
  OBVIOUS
<1>5. /\ h \in Outer!OuterScope /\ h.pc = pc /\ ~h.running /\ h.owned
      /\ h.key = st[t][n].key /\ h.waiters = st[t][n].waiters
  BY <1>3 DEF Outer!OuterScope
<1>6. Sets(Outer!OuterScope, st, g, t, n, f)
  BY <1>0, <1>1, <1>3, <1>4, SetAt DEF Stacks
<1>7. /\ g \in Stacks /\ \A v \in Threads : Len(g[v]) = Len(st[v])
      /\ g[t][n] = f
      /\ \A v \in Threads : \A j \in 1..Len(st[v]) : v # t \/ j # n => g[v][j] = st[v][j]
  BY <1>6 DEF Sets, Stacks
<1>8. Wakes(g, q, p)
  BY <1>4, <1>7, NotifiedAt DEF FinishSteps
<1>9. q \in Stacks /\ \A v \in Threads : Len(q[v]) = Len(st[v])
  BY <1>7, <1>8 DEF Wakes
<1>10. q[t][n] = f
  <2>1. n \in 1..Len(g[t])
    BY <1>1, <1>7
  <2>2. q[t][n] = Outer!Notified(p, <<t, n>>, g[t][n])
    BY <1>8, <2>1 DEF Wakes
  <2>3. q[t][n] = Outer!Notified(p, <<t, n>>, f)
    BY <1>7, <2>2
  <2> QED BY <1>3, <2>3 DEF Outer!Notified
<1>11. ASSUME NEW v \in Threads, NEW j \in 1..Len(st[v]), v # t \/ j # n
       PROVE  q[v][j] = IF st[v][j].pc = "asleep" /\ st[v][j].on = p
                        THEN [st[v][j] EXCEPT !.pc = "awake"] ELSE st[v][j]
  <2>1. j \in 1..Len(g[v]) /\ g[v][j] = st[v][j]
    BY <1>7, <1>11
  <2>2. q[v][j] = Outer!Notified(p, <<v, j>>, g[v][j])
    BY <1>8, <2>1 DEF Wakes
  <2>3. q[v][j] = Outer!Notified(p, <<v, j>>, st[v][j])
    BY <2>1, <2>2
  <2>4. p # <<v, j>>
    BY <1>11
  <2> HIDE DEF p
  <2> QED BY <2>3, <2>4 DEF Outer!Notified
<1>12. r = [q EXCEPT ![t][n] = h]
  BY <1>9, <1>10 DEF FinishSteps
<1> HIDE DEF h
<1>13. Sets(Outer!OuterScope, q, r, t, n, h)
  BY <1>1, <1>5, <1>9, <1>12, SetAt DEF Stacks
<1>14. /\ r \in Stacks /\ \A v \in Threads : Len(r[v]) = Len(st[v])
       /\ r[t][n] = h
       /\ \A v \in Threads : \A j \in 1..Len(st[v]) : v # t \/ j # n => r[v][j] = q[v][j]
  <2>1. r \in Stacks /\ \A v \in Threads : Len(r[v]) = Len(st[v])
    BY <1>9, <1>13 DEF Sets, Stacks
  <2>2. r[t][n] = h
    BY <1>13 DEF Sets
  <2>3. ASSUME NEW v \in Threads, NEW j \in 1..Len(st[v]), v # t \/ j # n
        PROVE  r[v][j] = q[v][j]
    <3>1. j \in 1..Len(q[v])
      BY <1>9
    <3> QED BY <1>13, <2>3, <3>1 DEF Sets
  <2> QED BY <2>1, <2>2, <2>3
<1>15. ASSUME NEW v \in Threads, NEW j \in 1..Len(st[v]), v # t \/ j # n
       PROVE  r[v][j] = IF st[v][j].pc = "asleep" /\ st[v][j].on = <<t, n>>
                        THEN [st[v][j] EXCEPT !.pc = "awake"] ELSE st[v][j]
  <2>1. r[v][j] = q[v][j]
    BY <1>14, <1>15
  <2> QED BY <1>11, <1>15, <2>1
<1>16. /\ ~r[t][n].running /\ r[t][n].owned /\ r[t][n].key = st[t][n].key
       /\ r[t][n].waiters = st[t][n].waiters /\ r[t][n].pc \in {"draining", "drained"}
       /\ r[t][n].pc = "draining" => r[t][n].waiters # 0
  <2>1. r[t][n] = h
    BY <1>14
  <2>2. h.pc \in {"draining", "drained"} /\ (h.pc = "draining" => h.waiters # 0)
    BY <1>5
  <2> QED BY <1>5, <2>1, <2>2
<1>a. Finishes(st, r, t, n)
  BY <1>14, <1>15, <1>16 DEF Finishes
<1>17. OuterOK(fl \ {<<t, n>>}, r)
  BY <1>a, FinishOK
<1>18. \A v \in Threads : v # t => r[v] = q[v]
  BY <1>9, <1>12 DEF Stacks
<1>19. \A i \in 1..(n - 1) : r[t][i] = q[t][i]
  <2> SUFFICES ASSUME NEW i \in 1..(n - 1) PROVE r[t][i] = q[t][i]
    OBVIOUS
  <2>1. i \in 1..Len(st[t]) /\ i # n
    BY <1>1
  <2> QED BY <1>14, <2>1
<1>20. Calm(st, r, t)
  <2>1. ASSUME NEW v \in Threads, v # t, NEW j \in 1..Len(st[v]), st[v][j].pc = "compiling"
        PROVE  r[v][j].pc = "compiling"
    BY <1>15, <2>1
  <2> QED BY <1>14, <2>1 DEF Calm
<1>21. Ended(st, q, r, t, n, pc)
  BY <1>5, <1>9, <1>14, <1>18, <1>19 DEF Ended
<1> QED BY <1>17, <1>20, <1>21

(* The native compiler returns to a scope that owns no Flight. *)
LEMMA FinishUnownedKeeps ==
  ASSUME OuterInv, NEW t \in Threads, Outer!FinishUnowned(t)
  PROVE  OuterInv' /\ Calm(scopes, scopes', t)
<1>0. OuterOK(flights, scopes) /\ scopes \in Stacks
  BY DEF OuterInv, OuterOK
<1>1. PICK n : n = Len(scopes[t])
  OBVIOUS
<1>2. /\ n > 0 /\ scopes[t][n].pc = "compiling" /\ ~scopes[t][n].owned
      /\ scopes' = Outer!Popped(scopes, t) /\ flights' = flights
  BY <1>1 DEF Outer!FinishUnowned, Outer!At, Outer!Depth, Outer!Top
<1>3. n \in Nat /\ n \in 1..Len(scopes[t]) /\ n \in 1..MaxDepth
  <2>1. n \in Nat
    BY <1>0, <1>1, PlaceFacts
  <2>2. n <= MaxDepth
    BY <1>0, <1>1 DEF OuterOK, ScopeShape
  <2> QED BY <1>1, <1>2, <2>1, <2>2, DepthAssumption
<1>4. <<t, n>> \in Places(scopes) /\ Scope(scopes, <<t, n>>) = scopes[t][n]
  BY <1>0, <1>1, <1>3, PlaceFacts
<1>5. <<t, n>> \notin flights
  BY <1>0, <1>2, <1>4 DEF OuterOK, FlightOwners
<1>6. scopes[t][n].waiters = 0
  <2>1. WaitersAt(scopes, <<t, n>>) = {}
    BY <1>0, <1>2, <1>4 DEF OuterOK, WaitTargets, WaitersAt
  <2>2. scopes[t][n].waiters = Cardinality(WaitersAt(scopes, <<t, n>>))
    BY <1>0, <1>4 DEF OuterOK, WaiterCounts
  <2> QED BY <2>1, <2>2, FS_EmptySet
<1>7. Pops(scopes, scopes', t, n)
  BY <1>0, <1>1, <1>2, PoppedAt
<1>8. OuterOK(flights, scopes')
  BY <1>0, <1>1, <1>2, <1>5, <1>6, <1>7, PopOK
<1>9. Calm(scopes, scopes', t)
  BY <1>7 DEF Pops, Calm
<1> QED BY <1>2, <1>8, <1>9 DEF OuterInv

(* The owner returns once its waiters have left. *)
LEMMA DrainedKeeps ==
  ASSUME OuterInv, NEW t \in Threads, Outer!Drained(t)
  PROVE  OuterInv' /\ Calm(scopes, scopes', t)
<1>0. OuterOK(flights, scopes) /\ scopes \in Stacks
  BY DEF OuterInv, OuterOK
<1>1. PICK n : n = Len(scopes[t])
  OBVIOUS
<1>2. /\ n > 0 /\ scopes[t][n].pc = "drained" /\ scopes[t][n].waiters = 0
      /\ scopes' = Outer!Popped(scopes, t) /\ flights' = flights
  BY <1>1 DEF Outer!Drained, Outer!At, Outer!Depth, Outer!Top
<1>3. n \in Nat /\ n \in 1..Len(scopes[t]) /\ n \in 1..MaxDepth
  <2>1. n \in Nat
    BY <1>0, <1>1, PlaceFacts
  <2>2. n <= MaxDepth
    BY <1>0, <1>1 DEF OuterOK, ScopeShape
  <2> QED BY <1>1, <1>2, <2>1, <2>2, DepthAssumption
<1>4. Scope(scopes, <<t, n>>) = scopes[t][n] /\ ~scopes[t][n].running
  BY <1>0, <1>1, <1>2, <1>3, PlaceFacts DEF OuterOK, ScopeShape
<1>5. <<t, n>> \notin flights
  BY <1>0, <1>4 DEF OuterOK, FlightOwners
<1>6. Pops(scopes, scopes', t, n)
  BY <1>0, <1>1, <1>2, PoppedAt
<1>7. OuterOK(flights, scopes')
  BY <1>0, <1>1, <1>2, <1>5, <1>6, PopOK
<1>8. Calm(scopes, scopes', t)
  BY <1>6 DEF Pops, Calm
<1> QED BY <1>2, <1>7, <1>8 DEF OuterInv

(* finish() of an owner. *)
LEMMA FinishKeeps ==
  ASSUME OuterInv, NEW t \in Threads, NEW ok \in BOOLEAN, Outer!Finish(t, ok)
  PROVE  OuterInv' /\ Calm(scopes, scopes', t)
<1>0. OuterOK(flights, scopes) /\ scopes \in Stacks
  BY DEF OuterInv, OuterOK
<1>1. PICK n : n = Len(scopes[t])
  OBVIOUS
<1>a. PICK f : f = [scopes[t][n] EXCEPT !.running = FALSE, !.succeeded = ok]
  OBVIOUS
<1>2. PICK g : g = [scopes EXCEPT ![t][n] = f]
  OBVIOUS
<1>3. PICK q : q = Outer!NotifiedAll(g, <<t, n>>)
  OBVIOUS
<1>4. Outer!Finished(t, ok) = q
  <2>1. [scopes EXCEPT ![t][n] = [@ EXCEPT !.running = FALSE, !.succeeded = ok]] = g
    BY <1>a, <1>2
  <2> QED BY <1>1, <1>3, <2>1 DEF Outer!Finished, Outer!Depth, Outer!Here
<1>5. /\ n > 0 /\ scopes[t][n].pc = "compiling" /\ scopes[t][n].owned
      /\ flights' = flights \ {<<t, n>>}
      /\ scopes' = IF scopes[t][n].waiters = 0 THEN Outer!Popped(q, t)
                   ELSE [q EXCEPT ![t][n].pc = "draining"]
  BY <1>1, <1>4 DEF Outer!Finish, Outer!At, Outer!Depth, Outer!Top, Outer!Here
<1>b. Over(f, scopes[t][n])
  <2>1. n \in Nat
    BY <1>0, <1>1, PlaceFacts
  <2>2. n \in 1..Len(scopes[t])
    BY <1>1, <1>5, <2>1
  <2>3. scopes[t][n] \in Outer!OuterScope
    BY <1>0, <2>2, ScopeFields
  <2> QED BY <1>a, <1>5, <2>3 DEF Outer!OuterScope, Over
<1>6. CASE scopes[t][n].waiters # 0
  <2>1. scopes' = [q EXCEPT ![t][n].pc = "draining"]
    BY <1>5, <1>6
  <2>a. FinishSteps(scopes, t, n, f, q, scopes', "draining")
    BY <1>2, <1>3, <2>1 DEF FinishSteps
  <2>2. OuterOK(flights \ {<<t, n>>}, scopes') /\ Calm(scopes, scopes', t)
    BY <1>0, <1>1, <1>5, <1>6, <1>b, <2>a, FinishedAt
  <2> QED BY <1>5, <2>2 DEF OuterInv
<1>7. CASE scopes[t][n].waiters = 0
  <2>1. PICK r : r = [q EXCEPT ![t][n].pc = "drained"]
    OBVIOUS
  <2>b. FinishSteps(scopes, t, n, f, q, r, "drained")
    BY <1>2, <1>3, <2>1 DEF FinishSteps
  <2>2. /\ OuterOK(flights \ {<<t, n>>}, r) /\ Ended(scopes, q, r, t, n, "drained")
        /\ Calm(scopes, r, t)
    BY <1>0, <1>1, <1>5, <1>b, <2>b, FinishedAt
  <2>3. scopes' = Outer!Popped(q, t)
    BY <1>5, <1>7
  <2>4. Pops(q, scopes', t, n)
    BY <1>5, <2>2, <2>3, PoppedAt DEF Ended
  <2>5. Pops(r, scopes', t, n)
    BY <2>2, <2>4 DEF Pops, Ended
  <2>a. n = Len(r[t]) /\ r[t][n].pc \notin {"asleep", "awake"} /\ r[t][n].waiters = 0
    BY <1>7, <2>2 DEF Ended
  <2>6. <<t, n>> \notin flights \ {<<t, n>>}
    OBVIOUS
  <2>7. OuterOK(flights \ {<<t, n>>}, scopes')
    BY <1>5, <2>2, <2>5, <2>6, <2>a, PopOK
  <2>c. Calm(r, scopes', t)
    BY <2>5 DEF Pops, Calm
  <2>8. Calm(scopes, scopes', t)
    BY <2>2, <2>c, CalmTwice
  <2> QED BY <1>5, <2>7, <2>8 DEF OuterInv
<1> QED BY <1>6, <1>7

(* Every step of the outer layer keeps its invariant. *)
LEMMA OuterStep ==
  ASSUME OuterInv, NEW t \in Threads,
         \/ Outer!Compile(t)
         \/ \E k \in Keys : Outer!RegisterKey(t, k)
         \/ Outer!NativeReturns(t)
         \/ Outer!Resume(t)
  PROVE  OuterInv' /\ Calm(scopes, scopes', t)
<1>1. CASE Outer!Compile(t)
  BY <1>1, CompileKeeps
<1>2. CASE \E k \in Keys : Outer!RegisterKey(t, k)
  BY <1>2, RegisterKeyKeeps
<1>3. CASE Outer!FinishUnowned(t)
  BY <1>3, FinishUnownedKeeps
<1>4. CASE \E ok \in BOOLEAN : Outer!Finish(t, ok)
  BY <1>4, FinishKeeps
<1>5. CASE Outer!Woken(t)
  BY <1>5, WokenKeeps
<1>6. CASE Outer!Drained(t)
  BY <1>6, DrainedKeeps
<1> QED BY <1>1, <1>2, <1>3, <1>4, <1>5, <1>6 DEF Outer!NativeReturns, Outer!Resume

-----------------------------------------------------------------------------
(* The library layer's steps. *)

(* The fields of a call have their types. *)
LEMMA CallFields ==
  ASSUME NEW st \in CallStacks, NEW t \in Threads, NEW i \in 1..Len(st[t])
  PROVE  /\ st[t][i] \in Library!Call /\ Len(st[t]) \in Nat
         /\ st[t][i].pc \in {"search", "asleep", "awake", "owner", "direct"}
         /\ st[t][i].key \in Results /\ st[t][i].held \in Flights \cup {None}
<1>1. st[t] \in Seq(Library!Call)
  BY DEF CallStacks
<1>2. st[t][i] \in Library!Call /\ Len(st[t]) \in Nat
  BY <1>1
<1> QED BY <1>2 DEF Library!Call

(* The depth of a thread, and its innermost call. *)
LEMMA CallDepth ==
  ASSUME NEW st \in CallStacks, NEW t \in Threads, NEW n, n = Len(st[t])
  PROVE  n \in Nat /\ (n > 0 => n \in 1..n /\ n \in 1..Len(st[t]))
<1>1. st[t] \in Seq(Library!Call)
  BY DEF CallStacks
<1>2. n \in Nat
  BY <1>1
<1> QED BY <1>2

(* r is st with the innermost call of t, at n, replaced by c. *)
TopIs(st, r, t, n, c) ==
  /\ r \in CallStacks
  /\ \A v \in Threads : v # t => r[v] = st[v]
  /\ Len(r[t]) = n /\ r[t][n] = c
  /\ \A j \in 1..n : j # n => r[t][j] = st[t][j]

(* Goto, place by place. *)
LEMMA TopSet ==
  ASSUME NEW st \in CallStacks, NEW t \in Threads, NEW n, n = Len(st[t]), n > 0,
         NEW c \in Library!Call
  PROVE  TopIs(st, [st EXCEPT ![t][n] = c], t, n, c)
<1> DEFINE r == [st EXCEPT ![t][n] = c]
<1>1. n \in 1..Len(st[t])
  BY CallDepth
<1>2. Sets(Library!Call, st, r, t, n, c)
  BY <1>1, SetAt DEF CallStacks
<1>3. \A v \in Threads : v # t => r[v] = st[v]
  BY DEF CallStacks
<1> HIDE DEF r
<1>4. TopIs(st, r, t, n, c)
  BY <1>2, <1>3 DEF Sets, TopIs, CallStacks
<1> QED BY <1>4 DEF r

(* The shape of the calls survives a change of the innermost one that does *)
(* not let an owner sleep.                                                 *)
LEMMA TopShape ==
  ASSUME NEW st \in CallStacks, CallShape(st), NEW t \in Threads, NEW n, n = Len(st[t]),
         n > 0, NEW c, c.pc \in {"asleep", "awake", "owner"} <=> c.held # None,
         c.pc \in {"asleep", "awake"} => \A i \in 1..n : i # n => st[t][i].pc # "owner",
         NEW r, TopIs(st, r, t, n, c)
  PROVE  CallShape(r)
<1> SUFFICES ASSUME NEW v \in Threads
             PROVE  /\ Len(r[v]) <= MaxDepth
                    /\ \A i \in 1..Len(r[v]) :
                         /\ i < Len(r[v]) => r[v][i].pc \in {"owner", "direct"}
                         /\ r[v][i].pc \in {"asleep", "awake", "owner"} <=> r[v][i].held # None
                         /\ Sleeps(r, v) => r[v][i].pc # "owner"
  BY DEF CallShape
<1>1. CASE v # t
  <2>1. r[v] = st[v] /\ (Sleeps(r, v) <=> Sleeps(st, v))
    BY <1>1 DEF TopIs, Sleeps
  <2> QED BY <2>1 DEF CallShape
<1>2. CASE v = t
  <2>0. Len(r[t]) = n /\ r[t][n] = c /\ n \in Nat /\ n <= MaxDepth
    BY CallDepth DEF TopIs, CallShape
  <2>1. Sleeps(r, t) => c.pc \in {"asleep", "awake"}
    BY <2>0 DEF Sleeps, Last
  <2>2. ASSUME NEW i \in 1..n
        PROVE  /\ i < n => r[t][i].pc \in {"owner", "direct"}
               /\ r[t][i].pc \in {"asleep", "awake", "owner"} <=> r[t][i].held # None
               /\ Sleeps(r, t) => r[t][i].pc # "owner"
    <3>1. CASE i = n
      <4>1. r[t][i] = c /\ ~(i < n)
        BY <2>0, <3>1
      <4> QED BY <2>1, <4>1
    <3>2. CASE i # n
      <4>1. r[t][i] = st[t][i]
        BY <3>2 DEF TopIs
      <4>2. /\ i < n => st[t][i].pc \in {"owner", "direct"}
            /\ st[t][i].pc \in {"asleep", "awake", "owner"} <=> st[t][i].held # None
        BY DEF CallShape
      <4> QED BY <2>1, <3>2, <4>1, <4>2
    <3> QED BY <3>1, <3>2
  <2> QED BY <1>2, <2>0, <2>2
<1> QED BY <1>1, <1>2

(* Who sleeps after such a change. *)
LEMMA TopSleeps ==
  ASSUME NEW st \in CallStacks, NEW t \in Threads, NEW n, n = Len(st[t]), n > 0,
         NEW c, NEW r, TopIs(st, r, t, n, c)
  PROVE  /\ Last(r[t]) = c /\ Last(st[t]) = st[t][n]
         /\ Sleeps(r, t) <=> c.pc \in {"asleep", "awake"}
         /\ Sleeps(st, t) <=> st[t][n].pc \in {"asleep", "awake"}
         /\ \A v \in Threads : v # t => r[v] = st[v] /\ (Sleeps(r, v) <=> Sleeps(st, v))
<1>1. Last(r[t]) = c /\ Last(st[t]) = st[t][n] /\ Len(r[t]) = n
  BY DEF TopIs, Last
<1>2. \A v \in Threads : v # t => r[v] = st[v] /\ (Sleeps(r, v) <=> Sleeps(st, v))
  BY DEF TopIs, Sleeps
<1>3. Sleeps(r, t) <=> c.pc \in {"asleep", "awake"}
  BY <1>1 DEF Sleeps
<1>4. Sleeps(st, t) <=> st[t][n].pc \in {"asleep", "awake"}
  BY <1>1 DEF Sleeps
<1> QED BY <1>1, <1>2, <1>3, <1>4

(* An owner holds a Flight. *)
LEMMA OwnerHolds ==
  ASSUME NEW st \in CallStacks, CallShape(st), NEW t \in Threads, NEW i \in 1..Len(st[t]),
         st[t][i].pc = "owner"
  PROVE  st[t][i].held \in Flights /\ st[t][i].held # None /\ st[t][i].key \in Results
<1>1. st[t][i].held # None
  BY DEF CallShape
<1> QED BY <1>1, CallFields

(* The owners after a change of the innermost call: none is lost, and a    *)
(* new one owns a Flight that nobody was running.                          *)
LEMMA TopOwners ==
  ASSUME NEW reg, NEW fl, NEW st \in CallStacks, CallShape(st), OwnerCalls(reg, fl, st),
         NEW t \in Threads, NEW n, n = Len(st[t]), n > 0, st[t][n].pc # "owner",
         NEW c, NEW r, TopIs(st, r, t, n, c), NEW rg, NEW fs,
         \A g \in Flights : c.pc # "owner" \/ g # c.held =>
            fs[g].running = fl[g].running /\ fs[g].owner = fl[g].owner,
         \A k \in Results : reg[k] # None => rg[k] = reg[k],
         c.pc = "owner" => /\ c.held \in Flights /\ ~fl[c.held].running
                           /\ fs[c.held].running /\ fs[c.held].owner = t
                           /\ rg[c.key] = c.held
  PROVE  OwnerCalls(rg, fs, r)
<1>0. /\ \A v \in Threads : v # t => r[v] = st[v]
      /\ Len(r[t]) = n /\ r[t][n] = c /\ n \in Nat /\ n \in 1..n
      /\ \A j \in 1..n : j # n => r[t][j] = st[t][j]
  BY CallDepth DEF TopIs
<1>1. ASSUME NEW v \in Threads, NEW i \in 1..Len(r[v]), r[v][i].pc = "owner",
             ~(v = t /\ i = n)
      PROVE  /\ i \in 1..Len(st[v]) /\ r[v][i] = st[v][i]
             /\ r[v][i].held \in Flights /\ r[v][i].key \in Results
             /\ reg[r[v][i].key] = r[v][i].held /\ r[v][i].held # None
             /\ fl[r[v][i].held].running /\ fl[r[v][i].held].owner = v
             /\ c.pc = "owner" => r[v][i].held # c.held
  <2>1. i \in 1..Len(st[v]) /\ r[v][i] = st[v][i]
    <3>1. CASE v = t
      BY <1>0, <1>1, <3>1
    <3>2. CASE v # t
      BY <1>0, <3>2
    <3> QED BY <3>1, <3>2
  <2>2. st[v][i].pc = "owner"
    BY <1>1, <2>1
  <2>3. /\ st[v][i].held \in Flights /\ st[v][i].held # None
        /\ st[v][i].key \in Results
    BY <2>1, <2>2, OwnerHolds
  <2>4. /\ reg[st[v][i].key] = st[v][i].held
        /\ fl[st[v][i].held].running /\ fl[st[v][i].held].owner = v
    BY <2>1, <2>2 DEF OwnerCalls
  <2> QED BY <2>1, <2>3, <2>4
<1>2. ASSUME NEW v \in Threads, NEW i \in 1..Len(r[v]), r[v][i].pc = "owner"
      PROVE  /\ rg[r[v][i].key] = r[v][i].held
             /\ fs[r[v][i].held].running
             /\ fs[r[v][i].held].owner = v
             /\ \A u \in Threads : \A j \in 1..Len(r[u]) :
                  Owns(r, u, j, r[v][i].held) => u = v /\ j = i
  <2>1. CASE v = t /\ i = n
    <3>1. r[v][i] = c /\ c.pc = "owner"
      BY <1>0, <1>2, <2>1
    <3>2. ASSUME NEW u \in Threads, NEW j \in 1..Len(r[u]), Owns(r, u, j, c.held)
          PROVE  u = v /\ j = i
      <4>1. r[u][j].pc = "owner" /\ r[u][j].held = c.held
        BY <3>2 DEF Owns
      <4>2. u = t /\ j = n
        BY <1>1, <3>1, <4>1
      <4> QED BY <2>1, <4>2
    <3> QED BY <2>1, <3>1, <3>2
  <2>2. CASE ~(v = t /\ i = n)
    <3>1. /\ i \in 1..Len(st[v]) /\ r[v][i] = st[v][i]
          /\ r[v][i].held \in Flights /\ r[v][i].key \in Results
          /\ reg[r[v][i].key] = r[v][i].held /\ r[v][i].held # None
          /\ fl[r[v][i].held].running /\ fl[r[v][i].held].owner = v
          /\ c.pc = "owner" => r[v][i].held # c.held
      BY <1>1, <1>2, <2>2
    <3>2. fs[r[v][i].held].running /\ fs[r[v][i].held].owner = v
      BY <3>1
    <3>3. rg[r[v][i].key] = r[v][i].held
      BY <3>1
    <3>4. ASSUME NEW u \in Threads, NEW j \in 1..Len(r[u]), Owns(r, u, j, r[v][i].held)
          PROVE  u = v /\ j = i
      <4>1. r[u][j].pc = "owner" /\ r[u][j].held = r[v][i].held
        BY <3>4 DEF Owns
      <4>2. ~(u = t /\ j = n)
        BY <1>0, <3>1, <4>1
      <4>3. j \in 1..Len(st[u]) /\ r[u][j] = st[u][j]
        BY <1>1, <4>1, <4>2
      <4>4. Owns(st, u, j, st[v][i].held)
        BY <3>1, <4>1, <4>3 DEF Owns
      <4>5. st[v][i].pc = "owner"
        BY <1>2, <3>1
      <4> QED BY <3>1, <4>3, <4>4, <4>5 DEF OwnerCalls
    <3> QED BY <3>2, <3>3, <3>4
  <2> QED BY <2>1, <2>2
<1>3. ASSUME NEW g \in Flights, fs[g].running
      PROVE  \E v \in Threads : \E i \in 1..Len(r[v]) : Owns(r, v, i, g)
  <2>1. CASE c.pc = "owner" /\ g = c.held
    <3>1. n \in 1..Len(r[t]) /\ Owns(r, t, n, g)
      BY <1>0, <2>1 DEF Owns
    <3> QED BY <3>1
  <2>2. CASE ~(c.pc = "owner" /\ g = c.held)
    <3>1. fl[g].running
      BY <1>3, <2>2
    <3>2. PICK v \in Threads : \E i \in 1..Len(st[v]) : Owns(st, v, i, g)
      BY <3>1 DEF OwnerCalls
    <3>3. PICK i \in 1..Len(st[v]) : Owns(st, v, i, g)
      BY <3>2
    <3>4. ~(v = t /\ i = n)
      BY <3>3 DEF Owns
    <3>5. i \in 1..Len(r[v]) /\ r[v][i] = st[v][i]
      <4>1. CASE v = t
        BY <1>0, <3>3, <3>4, <4>1
      <4>2. CASE v # t
        BY <1>0, <4>2
      <4> QED BY <4>1, <4>2
    <3>6. Owns(r, v, i, g)
      BY <3>3, <3>5 DEF Owns
    <3> QED BY <3>5, <3>6
  <2> QED BY <2>1, <2>2
<1> QED BY <1>2, <1>3 DEF OwnerCalls

(* A change of the innermost call that neither starts nor ends a wait      *)
(* keeps the sleepers.                                                     *)
LEMMA SameSleepers ==
  ASSUME NEW st \in CallStacks, NEW t \in Threads, NEW n, n = Len(st[t]), n > 0,
         NEW c, NEW r, TopIs(st, r, t, n, c),
         st[t][n].pc \notin {"asleep", "awake"}, c.pc \notin {"asleep", "awake"}
  PROVE  /\ \A g : Sleepers(r, g) = Sleepers(st, g)
         /\ \A v \in Threads : (Sleeps(r, v) <=> Sleeps(st, v)) /\ (Sleeps(st, v) => r[v] = st[v])
<1>1. \A v \in Threads : (Sleeps(r, v) <=> Sleeps(st, v)) /\ (Sleeps(st, v) => r[v] = st[v])
  BY TopSleeps
<1> QED BY <1>1 DEF Sleepers

(* What a sleeper holds and asks for. *)
LEMMA SleeperHolds ==
  ASSUME NEW st \in CallStacks, CallShape(st), NEW t \in Threads, Sleeps(st, t)
  PROVE  /\ Last(st[t]).held \in Flights /\ Last(st[t]).held # None
         /\ Last(st[t]).key \in Results /\ Last(st[t]).pc \in {"asleep", "awake"}
<1>1. PICK n : n = Len(st[t])
  OBVIOUS
<1>2. n > 0 /\ Last(st[t]) = st[t][n] /\ st[t][n].pc \in {"asleep", "awake"}
  BY <1>1 DEF Sleeps, Last
<1>3. n \in 1..Len(st[t])
  BY <1>1, <1>2, CallDepth
<1>4. st[t][n].held # None
  BY <1>2, <1>3 DEF CallShape
<1> QED BY <1>2, <1>3, <1>4, CallFields

(* The parts of the library layer's invariant. *)
LEMMA LibraryParts ==
  ASSUME LibraryInv
  PROVE  /\ registry \in [Results -> Flights \cup {None}]
         /\ flight \in [Flights -> Library!Flight]
         /\ calls \in CallStacks /\ CallShape(calls)
         /\ RegistryOnce(registry, flight) /\ OwnerCalls(registry, flight, calls)
         /\ SleeperFlights(registry, flight, calls)
         /\ SleeperCounts(registry, flight, calls)
BY DEF LibraryInv, LibraryOK

(* A call at pc, on its own. *)
LEMMA LibraryAt ==
  ASSUME LibraryInv, NEW t \in Threads, NEW pc, Library!At(t, pc), NEW n, n = Len(calls[t])
  PROVE  /\ n > 0 /\ n \in 1..n /\ n \in 1..Len(calls[t]) /\ n <= MaxDepth
         /\ Library!Top(t) = calls[t][n] /\ Library!Depth(t) = n
         /\ calls[t][n].pc = pc /\ calls[t][n] \in Library!Call
<1>1. n > 0 /\ Library!Top(t) = calls[t][n] /\ Library!Depth(t) = n /\ calls[t][n].pc = pc
  BY DEF Library!At, Library!Top, Library!Depth
<1>2. n \in 1..n /\ n \in 1..Len(calls[t]) /\ n <= MaxDepth
  BY <1>1, LibraryParts, CallDepth DEF CallShape
<1> QED BY <1>1, <1>2, LibraryParts, CallFields

(* Goto gives the innermost call a pc and a Flight. *)
LEMMA GotoIs ==
  ASSUME LibraryInv, NEW t \in Threads, NEW n, n = Len(calls[t]), n > 0,
         NEW pc \in {"search", "asleep", "awake", "owner", "direct"},
         NEW f \in Flights \cup {None}
  PROVE  \E c \in Library!Call :
           /\ TopIs(calls, Library!Goto(t, pc, f), t, n, c)
           /\ c.pc = pc /\ c.held = f /\ c.key = calls[t][n].key
<1> DEFINE c == [calls[t][n] EXCEPT !.pc = pc, !.held = f]
<1>1. n \in 1..Len(calls[t]) /\ calls \in CallStacks
  BY LibraryParts, CallDepth
<1>2. calls[t][n] \in Library!Call
  BY <1>1, CallFields
<1>3. c \in Library!Call /\ c.pc = pc /\ c.held = f /\ c.key = calls[t][n].key
  BY <1>2 DEF Library!Call
<1>4. Library!Goto(t, pc, f) = [calls EXCEPT ![t][n] = c]
  BY DEF Library!Goto, Library!Depth
<1> HIDE DEF c
<1>5. TopIs(calls, [calls EXCEPT ![t][n] = c], t, n, c)
  BY <1>1, <1>3, TopSet
<1> QED BY <1>3, <1>4, <1>5

(* A wait that could close a cycle is bypassed. *)
LEMMA BypassKeeps ==
  ASSUME LibraryInv, NEW t \in Threads, Library!Bypass(t)
  PROVE  LibraryInv'
<1>0. /\ registry \in [Results -> Flights \cup {None}]
      /\ flight \in [Flights -> Library!Flight]
      /\ calls \in CallStacks /\ CallShape(calls)
      /\ RegistryOnce(registry, flight) /\ OwnerCalls(registry, flight, calls)
      /\ SleeperFlights(registry, flight, calls) /\ SleeperCounts(registry, flight, calls)
  BY LibraryParts
<1>1. PICK n : n = Len(calls[t])
  OBVIOUS
<1>2. /\ Library!At(t, "search") /\ calls' = Library!Goto(t, "direct", None)
      /\ registry' = registry /\ flight' = flight
  BY DEF Library!Bypass
<1>3. n > 0 /\ calls[t][n].pc = "search"
  BY <1>1, <1>2, LibraryAt
<1>4. PICK c \in Library!Call : /\ TopIs(calls, calls', t, n, c)
                                /\ c.pc = "direct" /\ c.held = None
  BY <1>1, <1>2, <1>3, GotoIs
<1>5. CallShape(calls') /\ calls' \in CallStacks
  BY <1>0, <1>1, <1>3, <1>4, TopShape DEF TopIs
<1>6. OwnerCalls(registry, flight, calls')
  BY <1>0, <1>1, <1>3, <1>4, TopOwners
<1>7. /\ \A g : Sleepers(calls', g) = Sleepers(calls, g)
      /\ \A v \in Threads : /\ Sleeps(calls', v) <=> Sleeps(calls, v)
                            /\ Sleeps(calls, v) => calls'[v] = calls[v]
  BY <1>0, <1>1, <1>3, <1>4, SameSleepers
<1>8. SleeperFlights(registry, flight, calls')
  BY <1>0, <1>7 DEF SleeperFlights
<1>9. SleeperCounts(registry, flight, calls')
  BY <1>0, <1>7 DEF SleeperCounts, Sleepers
<1>10. LibraryOK(registry, flight, calls')
  BY <1>0, <1>5, <1>6, <1>8, <1>9 DEF LibraryOK
<1> QED BY <1>2, <1>10 DEF LibraryInv

(* A new Flight is registered and owned. *)
LEMMA OwnNewKeeps ==
  ASSUME LibraryInv, NEW t \in Threads, Library!OwnNew(t)
  PROVE  LibraryInv'
<1>0. /\ registry \in [Results -> Flights \cup {None}]
      /\ flight \in [Flights -> Library!Flight]
      /\ calls \in CallStacks /\ CallShape(calls)
      /\ RegistryOnce(registry, flight) /\ OwnerCalls(registry, flight, calls)
      /\ SleeperFlights(registry, flight, calls) /\ SleeperCounts(registry, flight, calls)
  BY LibraryParts
<1>1. PICK n : n = Len(calls[t])
  OBVIOUS
<1>2. Library!At(t, "search") /\ registry[Library!Top(t).key] = None
  BY DEF Library!OwnNew
<1>3. n > 0 /\ calls[t][n].pc = "search" /\ Library!Top(t) = calls[t][n]
      /\ n \in 1..Len(calls[t])
  BY <1>1, <1>2, LibraryAt
<1>4. PICK k \in Results : k = calls[t][n].key
  BY <1>0, <1>3, CallFields
<1>5. PICK x : x = [running |-> TRUE, succeeded |-> FALSE, waiters |-> 0, owner |-> t]
  OBVIOUS
<1>6. PICK f \in Flights : /\ ~Library!Allocated(f)
                           /\ registry' = [registry EXCEPT ![k] = f]
                           /\ flight' = [flight EXCEPT ![f] = x]
                           /\ calls' = Library!Goto(t, "owner", f)
  BY <1>3, <1>4, <1>5 DEF Library!OwnNew
<1>7. registry[k] = None
  BY <1>2, <1>3, <1>4
<1>8. /\ \A v \in Threads : \A i \in 1..Len(calls[v]) : calls[v][i].held # f
      /\ \A j \in Results : registry[j] # f
  BY <1>6 DEF Library!Allocated, Library!Held, Library!Depth
<1>9. x \in Library!Flight /\ x.running /\ ~x.succeeded /\ x.waiters = 0 /\ x.owner = t
  BY <1>5 DEF Library!Flight
<1>10. f # None
  BY NoneAssumption
<1>11. PICK c \in Library!Call : /\ TopIs(calls, calls', t, n, c)
                                 /\ c.pc = "owner" /\ c.held = f /\ c.key = k
  BY <1>1, <1>3, <1>4, <1>6, GotoIs
<1>12. /\ flight' \in [Flights -> Library!Flight] /\ flight'[f] = x
       /\ \A g \in Flights : g # f => flight'[g] = flight[g]
  BY <1>0, <1>6, <1>9
<1>13. /\ registry' \in [Results -> Flights \cup {None}] /\ registry'[k] = f
       /\ \A j \in Results : j # k => registry'[j] = registry[j]
  BY <1>0, <1>6
<1>14. ~flight[f].running
  BY <1>0, <1>8 DEF OwnerCalls, Owns
<1>15. CallShape(calls') /\ calls' \in CallStacks
  BY <1>0, <1>1, <1>3, <1>10, <1>11, TopShape DEF TopIs
<1>16. OwnerCalls(registry', flight', calls')
  <2>1. \A g \in Flights : c.pc # "owner" \/ g # c.held =>
           flight'[g].running = flight[g].running /\ flight'[g].owner = flight[g].owner
    BY <1>11, <1>12
  <2>2. \A j \in Results : registry[j] # None => registry'[j] = registry[j]
    BY <1>7, <1>13
  <2>3. /\ c.held \in Flights /\ ~flight[c.held].running
        /\ flight'[c.held].running /\ flight'[c.held].owner = t
        /\ registry'[c.key] = c.held
    BY <1>9, <1>11, <1>12, <1>13, <1>14
  <2> QED BY <1>0, <1>1, <1>3, <1>11, <2>1, <2>2, <2>3, TopOwners
<1>17. /\ \A g : Sleepers(calls', g) = Sleepers(calls, g)
       /\ \A v \in Threads : /\ Sleeps(calls', v) <=> Sleeps(calls, v)
                             /\ Sleeps(calls, v) => calls'[v] = calls[v]
  BY <1>0, <1>1, <1>3, <1>11, SameSleepers
<1>18. ASSUME NEW v \in Threads, Sleeps(calls, v)
       PROVE  /\ Last(calls[v]).held \in Flights /\ Last(calls[v]).held # None
              /\ Last(calls[v]).key \in Results /\ Last(calls[v]).held # f
  <2>1. PICK m : m = Len(calls[v])
    OBVIOUS
  <2>2. m > 0 /\ Last(calls[v]) = calls[v][m]
    BY <1>18, <2>1 DEF Sleeps, Last
  <2>3. m \in 1..Len(calls[v])
    BY <1>0, <2>1, <2>2, CallDepth
  <2>4. Last(calls[v]).held # f
    BY <1>8, <2>2, <2>3
  <2> QED BY <1>0, <1>18, <2>4, SleeperHolds
<1>19. SleeperFlights(registry', flight', calls')
  <2> SUFFICES ASSUME NEW v \in Threads, Sleeps(calls, v)
               PROVE  /\ Last(calls[v]).pc = "asleep" => flight'[Last(calls[v]).held].running
                      /\ \/ registry'[Last(calls[v]).key] = Last(calls[v]).held
                         \/ /\ flight'[Last(calls[v]).held].succeeded
                            /\ ~flight'[Last(calls[v]).held].running
    BY <1>17 DEF SleeperFlights
  <2>1. flight'[Last(calls[v]).held] = flight[Last(calls[v]).held]
    BY <1>12, <1>18
  <2>2. registry[Last(calls[v]).key] = Last(calls[v]).held =>
          registry'[Last(calls[v]).key] = Last(calls[v]).held
    BY <1>7, <1>13, <1>18
  <2> QED BY <1>0, <2>1, <2>2 DEF SleeperFlights
<1>20. SleeperCounts(registry', flight', calls')
  <2>1. Sleepers(calls, f) = {}
    BY <1>18 DEF Sleepers
  <2>2. ASSUME NEW g \in Flights
        PROVE  /\ IsFiniteSet(Sleepers(calls', g))
               /\ flight'[g].waiters = Cardinality(Sleepers(calls', g))
    <3>1. CASE g = f
      BY <1>9, <1>12, <1>17, <2>1, <3>1, FS_EmptySet
    <3>2. CASE g # f
      BY <1>0, <1>12, <1>17, <3>2 DEF SleeperCounts
    <3> QED BY <3>1, <3>2
  <2>3. ASSUME NEW j \in Results, registry'[j] # None, ~flight'[registry'[j]].running
        PROVE  \E v \in Sleepers(calls', registry'[j]) : Last(calls'[v]).pc = "awake"
    <3>1. j # k
      BY <1>9, <1>12, <1>13, <2>3
    <3>2. registry'[j] = registry[j] /\ registry[j] \in Flights /\ registry[j] # f
      BY <1>0, <1>8, <1>13, <2>3, <3>1
    <3>3. ~flight[registry[j]].running
      BY <1>12, <2>3, <3>2
    <3>4. PICK v \in Sleepers(calls, registry[j]) : Last(calls[v]).pc = "awake"
      BY <1>0, <2>3, <3>2, <3>3 DEF SleeperCounts
    <3>5. v \in Sleepers(calls', registry'[j]) /\ calls'[v] = calls[v]
      BY <1>17, <3>2, <3>4 DEF Sleepers
    <3> QED BY <3>4, <3>5
  <2> QED BY <2>2, <2>3 DEF SleeperCounts
<1>21. RegistryOnce(registry', flight')
  <2>1. ASSUME NEW i \in Results, NEW j \in Results, registry'[i] = registry'[j],
               registry'[i] # None
        PROVE  i = j
    BY <1>0, <1>8, <1>13, <2>1 DEF RegistryOnce
  <2>2. ASSUME NEW j \in Results, registry'[j] # None
        PROVE  ~flight'[registry'[j]].succeeded
    <3>1. CASE j = k
      BY <1>9, <1>12, <1>13, <3>1
    <3>2. CASE j # k
      <4>1. registry'[j] = registry[j] /\ registry[j] \in Flights /\ registry[j] # f
        BY <1>0, <1>8, <1>13, <2>2, <3>2
      <4> QED BY <1>0, <1>12, <2>2, <4>1 DEF RegistryOnce
    <3> QED BY <3>1, <3>2
  <2> QED BY <2>1, <2>2 DEF RegistryOnce
<1> QED BY <1>12, <1>13, <1>15, <1>16, <1>19, <1>20, <1>21 DEF LibraryInv, LibraryOK

(* t owns the Flight f, which becomes x. *)
TakesOver(t, f, x) ==
  /\ registry' = registry
  /\ flight' = [flight EXCEPT ![f] = x]
  /\ calls' = Library!Goto(t, "owner", f)

(* A failed Flight gets thread t as its new owner, who may have been one   *)
(* of its waiters.                                                         *)
LEMMA TakeOverOK ==
  ASSUME LibraryInv, NEW t \in Threads, NEW n, n = Len(calls[t]), n > 0,
         calls[t][n].pc # "owner", NEW f \in Flights, registry[calls[t][n].key] = f,
         ~flight[f].running, NEW x \in Library!Flight, x.running, ~x.succeeded, x.owner = t,
         TakesOver(t, f, x),
         IsFiniteSet(Sleepers(calls', f)), x.waiters = Cardinality(Sleepers(calls', f)),
         \A g \in Flights : g # f => Sleepers(calls', g) = Sleepers(calls, g)
  PROVE  LibraryInv'
<1>0. /\ registry \in [Results -> Flights \cup {None}]
      /\ flight \in [Flights -> Library!Flight]
      /\ calls \in CallStacks /\ CallShape(calls)
      /\ RegistryOnce(registry, flight) /\ OwnerCalls(registry, flight, calls)
      /\ SleeperFlights(registry, flight, calls) /\ SleeperCounts(registry, flight, calls)
  BY LibraryParts
<1>1. n \in 1..Len(calls[t])
  BY <1>0, CallDepth
<1>2. PICK k \in Results : k = calls[t][n].key
  BY <1>0, <1>1, CallFields
<1>3. f # None
  BY NoneAssumption
<1>4. PICK c \in Library!Call : /\ TopIs(calls, calls', t, n, c)
                                /\ c.pc = "owner" /\ c.held = f /\ c.key = k
  BY <1>2, GotoIs DEF TakesOver
<1>5. /\ flight' \in [Flights -> Library!Flight] /\ flight'[f] = x
      /\ \A g \in Flights : g # f => flight'[g] = flight[g]
  BY <1>0 DEF TakesOver
<1>6. CallShape(calls') /\ calls' \in CallStacks
  BY <1>0, <1>3, <1>4, TopShape DEF TopIs
<1>7. OwnerCalls(registry, flight', calls')
  <2>1. \A g \in Flights : c.pc # "owner" \/ g # c.held =>
           flight'[g].running = flight[g].running /\ flight'[g].owner = flight[g].owner
    BY <1>4, <1>5
  <2>2. \A j \in Results : registry[j] # None => registry[j] = registry[j]
    OBVIOUS
  <2>3. /\ c.held \in Flights /\ ~flight[c.held].running
        /\ flight'[c.held].running /\ flight'[c.held].owner = t
        /\ registry[c.key] = c.held
    BY <1>2, <1>4, <1>5
  <2> QED BY <1>0, <1>4, <2>1, <2>2, <2>3, TopOwners
<1>8. \A v \in Threads : Sleeps(calls', v) => Sleeps(calls, v) /\ calls'[v] = calls[v]
  BY <1>0, <1>4, TopSleeps
<1>9. SleeperFlights(registry, flight', calls')
  <2> SUFFICES ASSUME NEW v \in Threads, Sleeps(calls', v)
               PROVE  /\ Last(calls[v]).pc = "asleep" => flight'[Last(calls[v]).held].running
                      /\ \/ registry[Last(calls[v]).key] = Last(calls[v]).held
                         \/ /\ flight'[Last(calls[v]).held].succeeded
                            /\ ~flight'[Last(calls[v]).held].running
    BY <1>8 DEF SleeperFlights
  <2>1. Sleeps(calls, v)
    BY <1>8
  <2>2. Last(calls[v]).held \in Flights
    BY <1>0, <2>1, SleeperHolds
  <2>3. CASE Last(calls[v]).held = f
    <3>1. ~flight[f].succeeded
      BY <1>0, <1>2, <1>3 DEF RegistryOnce
    <3> QED BY <1>0, <1>5, <2>1, <2>3, <3>1 DEF SleeperFlights
  <2>4. CASE Last(calls[v]).held # f
    BY <1>0, <1>5, <2>1, <2>2, <2>4 DEF SleeperFlights
  <2> QED BY <2>3, <2>4
<1>10. SleeperCounts(registry, flight', calls')
  <2>1. ASSUME NEW g \in Flights
        PROVE  /\ IsFiniteSet(Sleepers(calls', g))
               /\ flight'[g].waiters = Cardinality(Sleepers(calls', g))
    <3>1. CASE g = f
      BY <1>5, <3>1
    <3>2. CASE g # f
      BY <1>0, <1>5, <3>2 DEF SleeperCounts
    <3> QED BY <3>1, <3>2
  <2>2. ASSUME NEW j \in Results, registry[j] # None, ~flight'[registry[j]].running
        PROVE  \E v \in Sleepers(calls', registry[j]) : Last(calls'[v]).pc = "awake"
    <3>1. registry[j] \in Flights /\ registry[j] # f
      BY <1>0, <1>5, <2>2
    <3>2. ~flight[registry[j]].running
      BY <1>5, <2>2, <3>1
    <3>3. PICK v \in Sleepers(calls, registry[j]) : Last(calls[v]).pc = "awake"
      BY <1>0, <2>2, <3>2 DEF SleeperCounts
    <3>4. v \in Sleepers(calls', registry[j])
      BY <3>1, <3>3
    <3>5. calls'[v] = calls[v]
      BY <1>8, <3>4 DEF Sleepers
    <3> QED BY <3>3, <3>4, <3>5
  <2> QED BY <2>1, <2>2 DEF SleeperCounts
<1>11. RegistryOnce(registry, flight')
  <2>1. ASSUME NEW j \in Results, registry[j] # None
        PROVE  ~flight'[registry[j]].succeeded
    <3>1. registry[j] \in Flights
      BY <1>0, <2>1
    <3> QED BY <1>0, <1>5, <2>1, <3>1 DEF RegistryOnce
  <2> QED BY <1>0, <2>1 DEF RegistryOnce
<1>12. LibraryOK(registry, flight', calls')
  BY <1>0, <1>5, <1>6, <1>7, <1>9, <1>10, <1>11 DEF LibraryOK
<1>13. registry' = registry
  BY DEF TakesOver
<1> QED BY <1>12, <1>13 DEF LibraryInv

(* A failed Flight is found before its waiters have run. *)
LEMMA TakeOverFoundKeeps ==
  ASSUME LibraryInv, NEW t \in Threads, Library!TakeOverFound(t)
  PROVE  LibraryInv'
<1>0. /\ registry \in [Results -> Flights \cup {None}]
      /\ flight \in [Flights -> Library!Flight] /\ calls \in CallStacks
      /\ SleeperCounts(registry, flight, calls)
  BY LibraryParts
<1>1. PICK n : n = Len(calls[t])
  OBVIOUS
<1>2. Library!At(t, "search")
  BY DEF Library!TakeOverFound
<1>3. n > 0 /\ calls[t][n].pc = "search" /\ Library!Top(t) = calls[t][n]
      /\ calls[t][n].key \in Results
  BY <1>0, <1>1, <1>2, LibraryAt, CallFields
<1>4. PICK f : f = registry[calls[t][n].key]
  OBVIOUS
<1>5. PICK x : x = Library!TakenOver(t, f)
  OBVIOUS
<1>6. /\ f # None /\ ~flight[f].running /\ ~flight[f].succeeded
      /\ flight' = [flight EXCEPT ![f] = x]
      /\ calls' = Library!Goto(t, "owner", f) /\ registry' = registry
  BY <1>3, <1>4, <1>5 DEF Library!TakeOverFound
<1>7. f \in Flights
  BY <1>0, <1>3, <1>4, <1>6
<1>8. x \in Library!Flight /\ x.running /\ ~x.succeeded /\ x.owner = t
      /\ x.waiters = flight[f].waiters
  <2>1. flight[f] \in Library!Flight
    BY <1>0, <1>7
  <2> QED BY <1>5, <1>6, <2>1 DEF Library!Flight, Library!TakenOver
<1>9. PICK c \in Library!Call : TopIs(calls, calls', t, n, c) /\ c.pc = "owner"
  BY <1>1, <1>3, <1>6, <1>7, GotoIs
<1>10. \A g : Sleepers(calls', g) = Sleepers(calls, g)
  BY <1>0, <1>1, <1>3, <1>9, SameSleepers
<1>11. IsFiniteSet(Sleepers(calls', f)) /\ x.waiters = Cardinality(Sleepers(calls', f))
  BY <1>0, <1>7, <1>8, <1>10 DEF SleeperCounts
<1>12. calls[t][n].pc # "owner" /\ registry[calls[t][n].key] = f
  BY <1>3, <1>4
<1>13. TakesOver(t, f, x)
  BY <1>6 DEF TakesOver
<1>14. \A g \in Flights : g # f => Sleepers(calls', g) = Sleepers(calls, g)
  BY <1>10
<1> QED BY <1>1, <1>3, <1>6, <1>7, <1>8, <1>11, <1>12, <1>13, <1>14, TakeOverOK

(* The end of a wait: the thread leaves the sleepers of its Flight. *)
LEMMA WaitEnds ==
  ASSUME LibraryInv, NEW t \in Threads, NEW n, n = Len(calls[t]), n > 0,
         calls[t][n].pc = "awake", NEW f, f = calls[t][n].held,
         NEW c, NEW r, TopIs(calls, r, t, n, c), c.pc \notin {"asleep", "awake"}
  PROVE  /\ f \in Flights /\ flight[f].waiters \in Nat \ {0}
         /\ IsFiniteSet(Sleepers(r, f)) /\ Cardinality(Sleepers(r, f)) = flight[f].waiters - 1
         /\ \A g : g # f => Sleepers(r, g) = Sleepers(calls, g)
         /\ \A v \in Threads : /\ Sleeps(r, v) <=> v # t /\ Sleeps(calls, v)
                               /\ v # t => r[v] = calls[v]
         /\ Sleeps(calls, t) /\ Last(calls[t]) = calls[t][n]
<1>0. calls \in CallStacks /\ CallShape(calls) /\ SleeperCounts(registry, flight, calls)
  BY LibraryParts
<1>1. /\ Last(calls[t]) = calls[t][n] /\ ~Sleeps(r, t) /\ Sleeps(calls, t)
      /\ \A v \in Threads : v # t => r[v] = calls[v] /\ (Sleeps(r, v) <=> Sleeps(calls, v))
  BY <1>0, TopSleeps
<1>2. f \in Flights
  BY <1>0, <1>1, SleeperHolds
<1>3. Sleepers(r, f) = Sleepers(calls, f) \ {t} /\ t \in Sleepers(calls, f)
  BY <1>1 DEF Sleepers
<1>4. \A g : g # f => Sleepers(r, g) = Sleepers(calls, g)
  BY <1>1 DEF Sleepers
<1>5. IsFiniteSet(Sleepers(calls, f)) /\ flight[f].waiters = Cardinality(Sleepers(calls, f))
  BY <1>0, <1>2 DEF SleeperCounts
<1>6. /\ IsFiniteSet(Sleepers(r, f))
      /\ Cardinality(Sleepers(r, f)) = Cardinality(Sleepers(calls, f)) - 1
  BY <1>3, <1>5, FS_RemoveElement
<1>7. Cardinality(Sleepers(calls, f)) \in Nat /\ Cardinality(Sleepers(calls, f)) # 0
  BY <1>3, <1>5, FS_CardinalityType, FS_EmptySet
<1> QED BY <1>1, <1>2, <1>4, <1>5, <1>6, <1>7

(* A waiter woken by a failure becomes the owner. *)
LEMMA TakeOverKeeps ==
  ASSUME LibraryInv, NEW t \in Threads, Library!TakeOver(t)
  PROVE  LibraryInv'
<1>0. /\ flight \in [Flights -> Library!Flight] /\ calls \in CallStacks /\ CallShape(calls)
      /\ SleeperFlights(registry, flight, calls) /\ SleeperCounts(registry, flight, calls)
  BY LibraryParts
<1>1. PICK n : n = Len(calls[t])
  OBVIOUS
<1>2. Library!At(t, "awake")
  BY DEF Library!TakeOver
<1>3. n > 0 /\ calls[t][n].pc = "awake" /\ Library!Top(t) = calls[t][n]
  BY <1>1, <1>2, LibraryAt
<1>4. PICK f : f = calls[t][n].held
  OBVIOUS
<1>5. PICK x : x = [Library!TakenOver(t, f) EXCEPT !.waiters = @ - 1]
  OBVIOUS
<1>6. /\ ~flight[f].running /\ ~flight[f].succeeded
      /\ flight' = [flight EXCEPT ![f] = x]
      /\ calls' = Library!Goto(t, "owner", f) /\ registry' = registry
  BY <1>3, <1>4, <1>5 DEF Library!TakeOver
<1>7. f \in Flights
  <2>1. Sleeps(calls, t) /\ Last(calls[t]) = calls[t][n]
    BY <1>1, <1>3 DEF Sleeps, Last
  <2> QED BY <1>0, <1>4, <2>1, SleeperHolds
<1>8. PICK c \in Library!Call : TopIs(calls, calls', t, n, c) /\ c.pc = "owner"
  BY <1>1, <1>3, <1>6, <1>7, GotoIs
<1>9. /\ flight[f].waiters \in Nat \ {0}
      /\ IsFiniteSet(Sleepers(calls', f))
      /\ Cardinality(Sleepers(calls', f)) = flight[f].waiters - 1
      /\ \A g : g # f => Sleepers(calls', g) = Sleepers(calls, g)
      /\ Sleeps(calls, t) /\ Last(calls[t]) = calls[t][n]
  BY <1>1, <1>3, <1>4, <1>8, WaitEnds
<1>10. x \in Library!Flight /\ x.running /\ ~x.succeeded /\ x.owner = t
       /\ x.waiters = flight[f].waiters - 1
  <2>1. flight[f] \in Library!Flight
    BY <1>0, <1>7
  <2>2. flight[f].waiters - 1 \in Nat
    BY <1>9
  <2> QED BY <1>5, <1>6, <2>1, <2>2 DEF Library!Flight, Library!TakenOver
<1>11. registry[calls[t][n].key] = f
  BY <1>0, <1>4, <1>6, <1>9 DEF SleeperFlights
<1>12. x.waiters = Cardinality(Sleepers(calls', f)) /\ calls[t][n].pc # "owner"
  BY <1>3, <1>9, <1>10
<1>13. TakesOver(t, f, x)
  BY <1>6 DEF TakesOver
<1>14. \A g \in Flights : g # f => Sleepers(calls', g) = Sleepers(calls, g)
  BY <1>9
<1> QED BY <1>1, <1>3, <1>6, <1>7, <1>9, <1>10, <1>11, <1>12, <1>13, <1>14, TakeOverOK

(* A waiter woken by a success leaves the Flight. *)
LEMMA WokenBySuccessKeeps ==
  ASSUME LibraryInv, NEW t \in Threads, Library!WokenBySuccess(t)
  PROVE  LibraryInv'
<1>0. /\ registry \in [Results -> Flights \cup {None}]
      /\ flight \in [Flights -> Library!Flight]
      /\ calls \in CallStacks /\ CallShape(calls)
      /\ RegistryOnce(registry, flight) /\ OwnerCalls(registry, flight, calls)
      /\ SleeperFlights(registry, flight, calls) /\ SleeperCounts(registry, flight, calls)
  BY LibraryParts
<1>1. PICK n : n = Len(calls[t])
  OBVIOUS
<1>2. Library!At(t, "awake")
  BY DEF Library!WokenBySuccess
<1>3. n > 0 /\ calls[t][n].pc = "awake" /\ Library!Top(t) = calls[t][n]
  BY <1>1, <1>2, LibraryAt
<1>4. PICK f : f = calls[t][n].held
  OBVIOUS
<1>5. /\ ~flight[f].running /\ flight[f].succeeded
      /\ flight' = [flight EXCEPT ![f].waiters = @ - 1]
      /\ calls' = Library!Goto(t, "direct", None) /\ registry' = registry
  BY <1>3, <1>4 DEF Library!WokenBySuccess
<1>6. PICK c \in Library!Call : /\ TopIs(calls, calls', t, n, c)
                                /\ c.pc = "direct" /\ c.held = None
  BY <1>1, <1>3, <1>5, GotoIs
<1>7. /\ f \in Flights /\ flight[f].waiters \in Nat \ {0}
      /\ IsFiniteSet(Sleepers(calls', f))
      /\ Cardinality(Sleepers(calls', f)) = flight[f].waiters - 1
      /\ \A g : g # f => Sleepers(calls', g) = Sleepers(calls, g)
      /\ \A v \in Threads : /\ Sleeps(calls', v) <=> v # t /\ Sleeps(calls, v)
                            /\ v # t => calls'[v] = calls[v]
  BY <1>1, <1>3, <1>4, <1>6, WaitEnds
<1>8. /\ flight' \in [Flights -> Library!Flight]
      /\ flight'[f].waiters = flight[f].waiters - 1
      /\ \A g \in Flights : /\ flight'[g].running = flight[g].running
                            /\ flight'[g].succeeded = flight[g].succeeded
                            /\ flight'[g].owner = flight[g].owner
                            /\ g # f => flight'[g] = flight[g]
  <2>1. flight[f] \in Library!Flight /\ flight[f].waiters - 1 \in Nat
    BY <1>0, <1>7
  <2>2. PICK x : x = [flight[f] EXCEPT !.waiters = @ - 1]
    OBVIOUS
  <2>3. /\ x \in Library!Flight /\ x.waiters = flight[f].waiters - 1
        /\ x.running = flight[f].running /\ x.succeeded = flight[f].succeeded
        /\ x.owner = flight[f].owner
    BY <2>1, <2>2 DEF Library!Flight
  <2>4. flight' = [flight EXCEPT ![f] = x]
    BY <1>5, <2>2
  <2> QED BY <1>0, <1>7, <2>3, <2>4
<1>9. CallShape(calls') /\ calls' \in CallStacks
  BY <1>0, <1>1, <1>3, <1>6, TopShape DEF TopIs
<1>10. OwnerCalls(registry, flight', calls')
  <2>1. \A g \in Flights : c.pc # "owner" \/ g # c.held =>
           flight'[g].running = flight[g].running /\ flight'[g].owner = flight[g].owner
    BY <1>8
  <2> QED BY <1>0, <1>1, <1>3, <1>6, <2>1, TopOwners
<1>11. ASSUME NEW v \in Threads, Sleeps(calls', v)
       PROVE  /\ Sleeps(calls, v) /\ calls'[v] = calls[v] /\ Last(calls[v]).held \in Flights
  <2>1. Sleeps(calls, v) /\ calls'[v] = calls[v]
    BY <1>7, <1>11
  <2> QED BY <1>0, <2>1, SleeperHolds
<1>12. SleeperFlights(registry, flight', calls')
  BY <1>0, <1>8, <1>11 DEF SleeperFlights
<1>13. \A j \in Results : registry[j] # None => registry[j] \in Flights /\ registry[j] # f
  BY <1>0, <1>5 DEF RegistryOnce
<1>14. SleeperCounts(registry, flight', calls')
  <2>1. ASSUME NEW g \in Flights
        PROVE  /\ IsFiniteSet(Sleepers(calls', g))
               /\ flight'[g].waiters = Cardinality(Sleepers(calls', g))
    <3>1. CASE g = f
      BY <1>7, <1>8, <3>1
    <3>2. CASE g # f
      BY <1>0, <1>7, <1>8, <3>2 DEF SleeperCounts
    <3> QED BY <3>1, <3>2
  <2>2. ASSUME NEW j \in Results, registry[j] # None, ~flight'[registry[j]].running
        PROVE  \E v \in Sleepers(calls', registry[j]) : Last(calls'[v]).pc = "awake"
    <3>1. registry[j] \in Flights /\ registry[j] # f
      BY <1>13, <2>2
    <3>2. ~flight[registry[j]].running
      BY <1>8, <2>2, <3>1
    <3>3. PICK v \in Sleepers(calls, registry[j]) : Last(calls[v]).pc = "awake"
      BY <1>0, <2>2, <3>2 DEF SleeperCounts
    <3>4. v \in Sleepers(calls', registry[j])
      BY <1>7, <3>1, <3>3
    <3>5. calls'[v] = calls[v]
      BY <1>11, <3>4 DEF Sleepers
    <3> QED BY <3>3, <3>4, <3>5
  <2> QED BY <2>1, <2>2 DEF SleeperCounts
<1>15. RegistryOnce(registry, flight')
  BY <1>0, <1>8, <1>13 DEF RegistryOnce
<1>16. LibraryOK(registry, flight', calls')
  BY <1>0, <1>8, <1>9, <1>10, <1>12, <1>14, <1>15 DEF LibraryOK
<1> QED BY <1>5, <1>16 DEF LibraryInv

(* A waiter sleeps again on a Flight that another one has taken over. *)
LEMMA WaitAgainKeeps ==
  ASSUME LibraryInv, NEW t \in Threads, Library!WaitAgain(t)
  PROVE  LibraryInv'
<1>0. /\ registry \in [Results -> Flights \cup {None}]
      /\ flight \in [Flights -> Library!Flight]
      /\ calls \in CallStacks /\ CallShape(calls)
      /\ RegistryOnce(registry, flight) /\ OwnerCalls(registry, flight, calls)
      /\ SleeperFlights(registry, flight, calls) /\ SleeperCounts(registry, flight, calls)
  BY LibraryParts
<1>1. PICK n : n = Len(calls[t])
  OBVIOUS
<1>2. Library!At(t, "awake")
  BY DEF Library!WaitAgain
<1>3. n > 0 /\ calls[t][n].pc = "awake" /\ Library!Top(t) = calls[t][n]
  BY <1>1, <1>2, LibraryAt
<1>4. PICK f : f = calls[t][n].held
  OBVIOUS
<1>5. /\ flight[f].running /\ calls' = Library!Goto(t, "asleep", f)
      /\ registry' = registry /\ flight' = flight
  BY <1>3, <1>4 DEF Library!WaitAgain
<1>6. Sleeps(calls, t) /\ Last(calls[t]) = calls[t][n]
  BY <1>1, <1>3 DEF Sleeps, Last
<1>7. f \in Flights /\ f # None
  BY <1>0, <1>4, <1>6, SleeperHolds
<1>8. PICK c \in Library!Call : /\ TopIs(calls, calls', t, n, c)
                                /\ c.pc = "asleep" /\ c.held = f /\ c.key = calls[t][n].key
  BY <1>1, <1>3, <1>5, <1>7, GotoIs
<1>9. \A i \in 1..n : i # n => calls[t][i].pc # "owner"
  BY <1>0, <1>1, <1>6 DEF CallShape
<1>10. CallShape(calls') /\ calls' \in CallStacks
  BY <1>0, <1>1, <1>3, <1>7, <1>8, <1>9, TopShape DEF TopIs
<1>11. OwnerCalls(registry, flight, calls')
  BY <1>0, <1>1, <1>3, <1>8, TopOwners
<1>12. /\ Last(calls'[t]) = c /\ Sleeps(calls', t)
       /\ \A v \in Threads : v # t => /\ calls'[v] = calls[v]
                                      /\ Sleeps(calls', v) <=> Sleeps(calls, v)
  BY <1>0, <1>1, <1>3, <1>8, TopSleeps
<1>13. \A g : Sleepers(calls', g) = Sleepers(calls, g)
  BY <1>4, <1>6, <1>8, <1>12 DEF Sleepers
<1>14. SleeperFlights(registry, flight, calls')
  <2>1. ASSUME NEW v \in Threads, Sleeps(calls', v)
        PROVE  /\ Last(calls'[v]).pc = "asleep" => flight[Last(calls'[v]).held].running
               /\ \/ registry[Last(calls'[v]).key] = Last(calls'[v]).held
                  \/ /\ flight[Last(calls'[v]).held].succeeded
                     /\ ~flight[Last(calls'[v]).held].running
    <3>1. CASE v = t
      <4>1. registry[calls[t][n].key] = f \/ (flight[f].succeeded /\ ~flight[f].running)
        BY <1>0, <1>4, <1>6 DEF SleeperFlights
      <4> QED BY <1>5, <1>8, <1>12, <3>1, <4>1
    <3>2. CASE v # t
      BY <1>0, <1>12, <2>1, <3>2 DEF SleeperFlights
    <3> QED BY <3>1, <3>2
  <2> QED BY <2>1 DEF SleeperFlights
<1>15. SleeperCounts(registry, flight, calls')
  <2>1. ASSUME NEW j \in Results, registry[j] # None, ~flight[registry[j]].running
        PROVE  \E v \in Sleepers(calls', registry[j]) : Last(calls'[v]).pc = "awake"
    <3>1. registry[j] # f
      BY <1>5, <2>1
    <3>2. PICK v \in Sleepers(calls, registry[j]) : Last(calls[v]).pc = "awake"
      BY <1>0, <2>1 DEF SleeperCounts
    <3>3. v # t
      BY <1>4, <1>6, <3>1, <3>2 DEF Sleepers
    <3>4. v \in Sleepers(calls', registry[j]) /\ calls'[v] = calls[v]
      BY <1>12, <1>13, <3>2, <3>3 DEF Sleepers
    <3> QED BY <3>2, <3>4
  <2> QED BY <1>0, <1>13, <2>1 DEF SleeperCounts
<1>16. LibraryOK(registry, flight, calls')
  BY <1>0, <1>10, <1>11, <1>14, <1>15 DEF LibraryOK
<1> QED BY <1>5, <1>16 DEF LibraryInv

(* A caller that owns no Flight waits for the registered one. *)
LEMMA WaitKeeps ==
  ASSUME LibraryInv, NEW t \in Threads, Library!Wait(t)
  PROVE  LibraryInv'
<1>0. /\ registry \in [Results -> Flights \cup {None}]
      /\ flight \in [Flights -> Library!Flight]
      /\ calls \in CallStacks /\ CallShape(calls)
      /\ RegistryOnce(registry, flight) /\ OwnerCalls(registry, flight, calls)
      /\ SleeperFlights(registry, flight, calls) /\ SleeperCounts(registry, flight, calls)
  BY LibraryParts
<1>1. PICK n : n = Len(calls[t])
  OBVIOUS
<1>2. Library!At(t, "search")
  BY DEF Library!Wait
<1>3. n > 0 /\ calls[t][n].pc = "search" /\ Library!Top(t) = calls[t][n]
      /\ Library!Depth(t) = n /\ n \in 1..Len(calls[t])
  BY <1>1, <1>2, LibraryAt
<1>4. PICK k \in Results : k = calls[t][n].key
  BY <1>0, <1>3, CallFields
<1>5. PICK f : f = registry[k]
  OBVIOUS
<1>6. /\ f # None /\ flight[f].running /\ ~Library!Bypasses(t, f)
      /\ flight' = [flight EXCEPT ![f].waiters = @ + 1]
      /\ calls' = Library!Goto(t, "asleep", f) /\ registry' = registry
  BY <1>3, <1>4, <1>5 DEF Library!Wait
<1>7. f \in Flights
  BY <1>0, <1>4, <1>5, <1>6
<1>8. PICK c \in Library!Call : /\ TopIs(calls, calls', t, n, c)
                                /\ c.pc = "asleep" /\ c.held = f /\ c.key = k
  BY <1>1, <1>3, <1>4, <1>6, <1>7, GotoIs
<1>9. \A i \in 1..n : calls[t][i].pc # "owner"
  BY <1>3, <1>6 DEF Library!Bypasses, Library!InLibraryCall
<1>10. CallShape(calls') /\ calls' \in CallStacks
  BY <1>0, <1>1, <1>3, <1>6, <1>8, <1>9, TopShape DEF TopIs
<1>11. /\ flight' \in [Flights -> Library!Flight]
       /\ flight'[f].waiters = flight[f].waiters + 1 /\ flight[f].waiters \in Nat
       /\ \A g \in Flights : /\ flight'[g].running = flight[g].running
                             /\ flight'[g].succeeded = flight[g].succeeded
                             /\ flight'[g].owner = flight[g].owner
                             /\ g # f => flight'[g] = flight[g]
  <2>1. flight[f] \in Library!Flight
    BY <1>0, <1>7
  <2>2. PICK x : x = [flight[f] EXCEPT !.waiters = @ + 1]
    OBVIOUS
  <2>3. /\ x \in Library!Flight /\ x.waiters = flight[f].waiters + 1
        /\ x.running = flight[f].running /\ x.succeeded = flight[f].succeeded
        /\ x.owner = flight[f].owner /\ flight[f].waiters \in Nat
    BY <2>1, <2>2 DEF Library!Flight
  <2>4. flight' = [flight EXCEPT ![f] = x]
    BY <1>6, <2>2
  <2> QED BY <1>0, <1>7, <2>3, <2>4
<1>12. OwnerCalls(registry, flight', calls')
  <2>1. \A g \in Flights : c.pc # "owner" \/ g # c.held =>
           flight'[g].running = flight[g].running /\ flight'[g].owner = flight[g].owner
    BY <1>11
  <2> QED BY <1>0, <1>1, <1>3, <1>8, <2>1, TopOwners
<1>13. /\ Last(calls'[t]) = c /\ Sleeps(calls', t) /\ ~Sleeps(calls, t)
       /\ \A v \in Threads : v # t => /\ calls'[v] = calls[v]
                                      /\ Sleeps(calls', v) <=> Sleeps(calls, v)
  BY <1>0, <1>1, <1>3, <1>8, TopSleeps
<1>14. /\ Sleepers(calls', f) = Sleepers(calls, f) \cup {t} /\ t \notin Sleepers(calls, f)
       /\ \A g : g # f => Sleepers(calls', g) = Sleepers(calls, g)
  BY <1>8, <1>13 DEF Sleepers
<1>15. SleeperFlights(registry, flight', calls')
  <2>1. ASSUME NEW v \in Threads, Sleeps(calls', v)
        PROVE  /\ Last(calls'[v]).pc = "asleep" => flight'[Last(calls'[v]).held].running
               /\ \/ registry[Last(calls'[v]).key] = Last(calls'[v]).held
                  \/ /\ flight'[Last(calls'[v]).held].succeeded
                     /\ ~flight'[Last(calls'[v]).held].running
    <3>1. CASE v = t
      BY <1>5, <1>6, <1>7, <1>8, <1>11, <1>13, <3>1
    <3>2. CASE v # t
      <4>1. Sleeps(calls, v) /\ calls'[v] = calls[v]
        BY <1>13, <2>1, <3>2
      <4>2. Last(calls[v]).held \in Flights
        BY <1>0, <4>1, SleeperHolds
      <4> QED BY <1>0, <1>11, <4>1, <4>2 DEF SleeperFlights
    <3> QED BY <3>1, <3>2
  <2> QED BY <2>1 DEF SleeperFlights
<1>16. SleeperCounts(registry, flight', calls')
  <2>1. ASSUME NEW g \in Flights
        PROVE  /\ IsFiniteSet(Sleepers(calls', g))
               /\ flight'[g].waiters = Cardinality(Sleepers(calls', g))
    <3>0. IsFiniteSet(Sleepers(calls, g)) /\ flight[g].waiters = Cardinality(Sleepers(calls, g))
      BY <1>0 DEF SleeperCounts
    <3>1. CASE g = f
      <4>1. /\ IsFiniteSet(Sleepers(calls', f))
            /\ Cardinality(Sleepers(calls', f)) = Cardinality(Sleepers(calls, f)) + 1
        BY <1>14, <3>0, <3>1, FS_AddElement
      <4> QED BY <1>11, <3>0, <3>1, <4>1
    <3>2. CASE g # f
      BY <1>11, <1>14, <3>0, <3>2
    <3> QED BY <3>1, <3>2
  <2>2. ASSUME NEW j \in Results, registry[j] # None, ~flight'[registry[j]].running
        PROVE  \E v \in Sleepers(calls', registry[j]) : Last(calls'[v]).pc = "awake"
    <3>1. registry[j] \in Flights
      BY <1>0, <2>2
    <3>2. ~flight[registry[j]].running
      BY <1>11, <2>2, <3>1
    <3>3. PICK v \in Sleepers(calls, registry[j]) : Last(calls[v]).pc = "awake"
      BY <1>0, <2>2, <3>2 DEF SleeperCounts
    <3>4. v # t /\ v \in Threads /\ Sleeps(calls, v) /\ Last(calls[v]).held = registry[j]
      BY <1>13, <3>3 DEF Sleepers
    <3>5. v \in Sleepers(calls', registry[j]) /\ calls'[v] = calls[v]
      BY <1>13, <3>4 DEF Sleepers
    <3> QED BY <3>3, <3>5
  <2> QED BY <2>1, <2>2 DEF SleeperCounts
<1>17. RegistryOnce(registry, flight')
  <2>1. \A j \in Results : registry[j] # None => registry[j] \in Flights
    BY <1>0
  <2> QED BY <1>0, <1>11, <2>1 DEF RegistryOnce
<1>18. LibraryOK(registry, flight', calls')
  BY <1>0, <1>10, <1>11, <1>12, <1>15, <1>16, <1>17 DEF LibraryOK
<1> QED BY <1>6, <1>18 DEF LibraryInv

(* r is st after a new call c of t. *)
Pushes(st, r, t, n, c) ==
  /\ r \in CallStacks /\ Len(r[t]) = n + 1 /\ r[t][n + 1] = c /\ n \in Nat
  /\ \A i \in 1..n : r[t][i] = st[t][i]
  /\ \A v \in Threads : v # t => r[v] = st[v]

(* The new call, place by place. *)
LEMMA CallPushed ==
  ASSUME NEW st \in CallStacks, NEW t \in Threads, NEW n, n = Len(st[t]),
         NEW c \in Library!Call, NEW r, r = [st EXCEPT ![t] = Append(@, c)]
  PROVE  Pushes(st, r, t, n, c)
<1>1. st[t] \in Seq(Library!Call) /\ n \in Nat /\ r[t] = Append(st[t], c)
  BY DEF CallStacks
<1>2. r[t] \in Seq(Library!Call)
  BY <1>1
<1>3. r \in CallStacks
  BY <1>2 DEF CallStacks
<1>4. Len(r[t]) = n + 1 /\ r[t][n + 1] = c /\ \A i \in 1..n : r[t][i] = st[t][i]
  BY <1>1
<1>5. \A v \in Threads : v # t => r[v] = st[v]
  BY DEF CallStacks
<1> QED BY <1>1, <1>3, <1>4, <1>5 DEF Pushes

(* getAndRetainLibrary begins a call. *)
LEMMA CallKeeps ==
  ASSUME LibraryInv, NEW t \in Threads, NEW k \in Results, Library!GetAndRetainLibrary(t, k)
  PROVE  LibraryInv'
<1>0. /\ registry \in [Results -> Flights \cup {None}]
      /\ flight \in [Flights -> Library!Flight]
      /\ calls \in CallStacks /\ CallShape(calls)
      /\ RegistryOnce(registry, flight) /\ OwnerCalls(registry, flight, calls)
      /\ SleeperFlights(registry, flight, calls) /\ SleeperCounts(registry, flight, calls)
  BY LibraryParts
<1>1. PICK n : n = Len(calls[t])
  OBVIOUS
<1>2. PICK c : c = [pc |-> IF k \in library THEN "direct" ELSE "search",
                    key |-> k, held |-> None]
  OBVIOUS
<1>3. /\ n < MaxDepth /\ (n > 0 => calls[t][n].pc \in {"owner", "direct"})
      /\ calls' = [calls EXCEPT ![t] = Append(@, c)]
      /\ registry' = registry /\ flight' = flight
  BY <1>1, <1>2 DEF Library!GetAndRetainLibrary, Library!Depth, Library!Top
<1>4. c \in Library!Call /\ c.pc \in {"direct", "search"} /\ c.held = None
  BY <1>2 DEF Library!Call
<1>5. /\ calls' \in CallStacks /\ Len(calls'[t]) = n + 1 /\ calls'[t][n + 1] = c /\ n \in Nat
      /\ \A i \in 1..n : calls'[t][i] = calls[t][i]
      /\ \A v \in Threads : v # t => calls'[v] = calls[v]
  <2>1. Pushes(calls, calls', t, n, c)
    BY <1>0, <1>1, <1>3, <1>4, CallPushed
  <2> QED BY <2>1 DEF Pushes
<1>6. ~Sleeps(calls', t) /\ ~Sleeps(calls, t)
  <2>1. Last(calls'[t]) = c
    BY <1>5 DEF Last
  <2>2. n > 0 => Last(calls[t]).pc \notin {"asleep", "awake"}
    BY <1>1, <1>3 DEF Last
  <2> QED BY <1>1, <1>4, <2>1, <2>2 DEF Sleeps
<1>7. \A v \in Threads : /\ Sleeps(calls', v) <=> Sleeps(calls, v)
                         /\ Sleeps(calls, v) => calls'[v] = calls[v]
  BY <1>5, <1>6 DEF Sleeps
<1>8. \A g : Sleepers(calls', g) = Sleepers(calls, g)
  BY <1>7 DEF Sleepers
<1>9. CallShape(calls')
  <2> SUFFICES ASSUME NEW v \in Threads
               PROVE  /\ Len(calls'[v]) <= MaxDepth
                      /\ \A i \in 1..Len(calls'[v]) :
                           /\ i < Len(calls'[v]) => calls'[v][i].pc \in {"owner", "direct"}
                           /\ calls'[v][i].pc \in {"asleep", "awake", "owner"}
                                <=> calls'[v][i].held # None
                           /\ Sleeps(calls', v) => calls'[v][i].pc # "owner"
    BY DEF CallShape
  <2>1. CASE v # t
    <3>1. calls'[v] = calls[v] /\ (Sleeps(calls', v) <=> Sleeps(calls, v))
      BY <1>5, <1>7, <2>1
    <3> QED BY <1>0, <3>1 DEF CallShape
  <2>2. CASE v = t
    <3>1. Len(calls'[t]) <= MaxDepth
      BY <1>3, <1>5, DepthAssumption
    <3>2. ASSUME NEW i \in 1..Len(calls'[t])
          PROVE  /\ i < n + 1 => calls'[t][i].pc \in {"owner", "direct"}
                 /\ calls'[t][i].pc \in {"asleep", "awake", "owner"}
                      <=> calls'[t][i].held # None
      <4>1. CASE i = n + 1
        <5>1. calls'[t][i] = c /\ ~(i < n + 1)
          BY <1>5, <4>1
        <5> QED BY <1>4, <5>1
      <4>2. CASE i # n + 1
        <5>1. i \in 1..n /\ i \in 1..Len(calls[t]) /\ (i < n \/ i = n) /\ n > 0
          BY <1>1, <1>5, <4>2
        <5>2. calls'[t][i] = calls[t][i]
          BY <1>5, <5>1
        <5>3. /\ i < n => calls[t][i].pc \in {"owner", "direct"}
              /\ calls[t][i].pc \in {"asleep", "awake", "owner"} <=> calls[t][i].held # None
          BY <1>0, <1>1, <5>1 DEF CallShape
        <5> QED BY <1>3, <5>1, <5>2, <5>3
      <4> QED BY <4>1, <4>2
    <3> QED BY <1>5, <1>6, <2>2, <3>1, <3>2
  <2> QED BY <2>1, <2>2
<1>10. /\ \A v \in Threads : \A i \in 1..Len(calls'[v]) : calls'[v][i].pc = "owner" =>
            i \in 1..Len(calls[v]) /\ calls'[v][i] = calls[v][i]
       /\ \A v \in Threads : \A i \in 1..Len(calls[v]) :
            i \in 1..Len(calls'[v]) /\ calls'[v][i] = calls[v][i]
  <2>1. ASSUME NEW v \in Threads, NEW i \in 1..Len(calls'[v]), calls'[v][i].pc = "owner"
        PROVE  i \in 1..Len(calls[v]) /\ calls'[v][i] = calls[v][i]
    <3>1. CASE v # t
      BY <1>5, <3>1
    <3>2. CASE v = t
      <4>1. i # n + 1
        BY <1>4, <1>5, <2>1, <3>2
      <4>2. i \in 1..n
        BY <1>5, <3>2, <4>1
      <4> QED BY <1>1, <1>5, <3>2, <4>2
    <3> QED BY <3>1, <3>2
  <2>2. ASSUME NEW v \in Threads, NEW i \in 1..Len(calls[v])
        PROVE  i \in 1..Len(calls'[v]) /\ calls'[v][i] = calls[v][i]
    <3>1. CASE v # t
      BY <1>5, <3>1
    <3>2. CASE v = t
      BY <1>1, <1>5, <3>2
    <3> QED BY <3>1, <3>2
  <2> QED BY <2>1, <2>2
<1>11. OwnerCalls(registry, flight, calls')
  <2>1. ASSUME NEW v \in Threads, NEW i \in 1..Len(calls'[v]), calls'[v][i].pc = "owner"
        PROVE  /\ registry[calls'[v][i].key] = calls'[v][i].held
               /\ flight[calls'[v][i].held].running
               /\ flight[calls'[v][i].held].owner = v
               /\ \A u \in Threads : \A j \in 1..Len(calls'[u]) :
                    Owns(calls', u, j, calls'[v][i].held) => u = v /\ j = i
    <3>1. i \in 1..Len(calls[v]) /\ calls'[v][i] = calls[v][i] /\ calls[v][i].pc = "owner"
      BY <1>10, <2>1
    <3>2. /\ registry[calls[v][i].key] = calls[v][i].held
          /\ flight[calls[v][i].held].running
          /\ flight[calls[v][i].held].owner = v
          /\ \A u \in Threads : \A j \in 1..Len(calls[u]) :
               Owns(calls, u, j, calls[v][i].held) => u = v /\ j = i
      BY <1>0, <3>1 DEF OwnerCalls
    <3>3. ASSUME NEW u \in Threads, NEW j \in 1..Len(calls'[u]),
                 Owns(calls', u, j, calls[v][i].held)
          PROVE  u = v /\ j = i
      <4>1. j \in 1..Len(calls[u]) /\ Owns(calls, u, j, calls[v][i].held)
        BY <1>10, <3>3 DEF Owns
      <4> QED BY <3>2, <4>1
    <3> QED BY <3>1, <3>2, <3>3
  <2>2. ASSUME NEW g \in Flights, flight[g].running
        PROVE  \E v \in Threads : \E i \in 1..Len(calls'[v]) : Owns(calls', v, i, g)
    <3>1. PICK v \in Threads : \E i \in 1..Len(calls[v]) : Owns(calls, v, i, g)
      BY <1>0, <2>2 DEF OwnerCalls
    <3>2. PICK i \in 1..Len(calls[v]) : Owns(calls, v, i, g)
      BY <3>1
    <3> QED BY <1>10, <3>2 DEF Owns
  <2> QED BY <2>1, <2>2 DEF OwnerCalls
<1>12. SleeperFlights(registry, flight, calls')
  BY <1>0, <1>7 DEF SleeperFlights
<1>13. SleeperCounts(registry, flight, calls')
  BY <1>0, <1>7, <1>8 DEF SleeperCounts, Sleepers
<1>14. LibraryOK(registry, flight, calls')
  BY <1>0, <1>5, <1>9, <1>11, <1>12, <1>13 DEF LibraryOK
<1> QED BY <1>3, <1>14 DEF LibraryInv

(* r is st after the innermost call of t, at n, has returned, and the      *)
(* sleepers on f were notified.                                            *)
Returns(st, r, t, n, f) ==
  /\ r \in CallStacks /\ Len(r[t]) = n - 1
  /\ \A v \in Threads : v # t => Len(r[v]) = Len(st[v])
  /\ \A v \in Threads : \A j \in 1..Len(r[v]) :
       r[v][j] = IF st[v][j].pc = "asleep" /\ st[v][j].held = f
                 THEN [st[v][j] EXCEPT !.pc = "awake"] ELSE st[v][j]

(* The calls that are left, and how they may differ. *)
LEMMA ReturnsAt ==
  ASSUME NEW st \in CallStacks, NEW t \in Threads, NEW n, n = Len(st[t]), n > 0, NEW f,
         NEW r, Returns(st, r, t, n, f), NEW v \in Threads, NEW j \in 1..Len(r[v])
  PROVE  /\ j \in 1..Len(st[v]) /\ ~(v = t /\ j = n)
         /\ r[v][j].key = st[v][j].key /\ r[v][j].held = st[v][j].held
         /\ r[v][j].pc = IF st[v][j].pc = "asleep" /\ st[v][j].held = f
                         THEN "awake" ELSE st[v][j].pc
<1>0. n \in Nat
  BY CallDepth
<1>1. j \in 1..Len(st[v]) /\ ~(v = t /\ j = n)
  <2>1. CASE v = t
    <3>1. j \in 1..(n - 1)
      BY <2>1 DEF Returns
    <3> QED BY <1>0, <2>1, <3>1
  <2>2. CASE v # t
    BY <2>2 DEF Returns
  <2> QED BY <2>1, <2>2
<1>2. st[v][j] \in Library!Call
  BY <1>1, CallFields
<1>3. r[v][j] = IF st[v][j].pc = "asleep" /\ st[v][j].held = f
                THEN [st[v][j] EXCEPT !.pc = "awake"] ELSE st[v][j]
  BY DEF Returns
<1> QED BY <1>1, <1>2, <1>3 DEF Library!Call

(* The calls and sleepers after a return. *)
LEMMA ReturnShape ==
  ASSUME NEW st \in CallStacks, CallShape(st), NEW t \in Threads, NEW n, n = Len(st[t]),
         n > 0, st[t][n].pc \in {"owner", "direct"}, NEW f, NEW r, Returns(st, r, t, n, f)
  PROVE  /\ CallShape(r)
         /\ \A v \in Threads : /\ Sleeps(r, v) <=> Sleeps(st, v)
                               /\ Sleeps(st, v) =>
                                    /\ Last(r[v]).key = Last(st[v]).key
                                    /\ Last(r[v]).held = Last(st[v]).held
                                    /\ Last(r[v]).pc =
                                         IF Last(st[v]).pc = "asleep" /\ Last(st[v]).held = f
                                         THEN "awake" ELSE Last(st[v]).pc
         /\ \A g : Sleepers(r, g) = Sleepers(st, g)
<1>0. n \in Nat /\ n <= MaxDepth
  BY CallDepth DEF CallShape
<1>1. ~Sleeps(st, t)
  BY DEF Sleeps, Last
<1>2. \A j \in 1..(n - 1) : j \in 1..Len(st[t]) /\ st[t][j].pc \in {"owner", "direct"}
  <2> SUFFICES ASSUME NEW j \in 1..(n - 1)
               PROVE  j \in 1..Len(st[t]) /\ st[t][j].pc \in {"owner", "direct"}
    OBVIOUS
  <2>1. j \in 1..n /\ j < n
    BY <1>0
  <2> QED BY <2>1 DEF CallShape
<1>3. \A j \in 1..(n - 1) : r[t][j].pc \in {"owner", "direct"}
  <2> SUFFICES ASSUME NEW j \in 1..(n - 1) PROVE r[t][j].pc \in {"owner", "direct"}
    OBVIOUS
  <2>1. j \in 1..Len(r[t])
    BY DEF Returns
  <2> QED BY <1>2, <2>1, ReturnsAt
<1>4. ~Sleeps(r, t)
  <2> SUFFICES ASSUME Len(r[t]) > 0 PROVE Last(r[t]).pc \in {"owner", "direct"}
    BY DEF Sleeps
  <2>1. Len(r[t]) = n - 1
    BY DEF Returns
  <2>2. n - 1 \in 1..(n - 1)
    BY <1>0, <2>1
  <2> QED BY <1>3, <2>1, <2>2 DEF Last
<1>5. ASSUME NEW v \in Threads, v # t
      PROVE  /\ Sleeps(r, v) <=> Sleeps(st, v)
             /\ Sleeps(st, v) =>
                  /\ Last(r[v]).key = Last(st[v]).key
                  /\ Last(r[v]).held = Last(st[v]).held
                  /\ Last(r[v]).pc = IF Last(st[v]).pc = "asleep" /\ Last(st[v]).held = f
                                     THEN "awake" ELSE Last(st[v]).pc
  <2>1. PICK m : m = Len(st[v])
    OBVIOUS
  <2>2. Len(r[v]) = m /\ Last(r[v]) = r[v][m] /\ Last(st[v]) = st[v][m]
    BY <1>5, <2>1 DEF Returns, Last
  <2>3. CASE m > 0
    <3>1. m \in 1..Len(r[v])
      BY <2>1, <2>2, <2>3, CallDepth
    <3>2. /\ r[v][m].key = st[v][m].key /\ r[v][m].held = st[v][m].held
          /\ r[v][m].pc = IF st[v][m].pc = "asleep" /\ st[v][m].held = f
                          THEN "awake" ELSE st[v][m].pc
      BY <3>1, ReturnsAt
    <3> QED BY <2>1, <2>2, <3>2 DEF Sleeps
  <2>4. CASE ~(m > 0)
    BY <2>1, <2>2, <2>4 DEF Sleeps
  <2> QED BY <2>3, <2>4
<1>6. \A v \in Threads : /\ Sleeps(r, v) <=> Sleeps(st, v)
                         /\ Sleeps(st, v) =>
                              /\ Last(r[v]).key = Last(st[v]).key
                              /\ Last(r[v]).held = Last(st[v]).held
                              /\ Last(r[v]).pc =
                                   IF Last(st[v]).pc = "asleep" /\ Last(st[v]).held = f
                                   THEN "awake" ELSE Last(st[v]).pc
  BY <1>1, <1>4, <1>5
<1>7. \A g : Sleepers(r, g) = Sleepers(st, g)
  BY <1>6 DEF Sleepers
<1>8. CallShape(r)
  <2> SUFFICES ASSUME NEW v \in Threads
               PROVE  /\ Len(r[v]) <= MaxDepth
                      /\ \A i \in 1..Len(r[v]) :
                           /\ i < Len(r[v]) => r[v][i].pc \in {"owner", "direct"}
                           /\ r[v][i].pc \in {"asleep", "awake", "owner"}
                                <=> r[v][i].held # None
                           /\ Sleeps(r, v) => r[v][i].pc # "owner"
    BY DEF CallShape
  <2>1. Len(r[v]) <= MaxDepth
    <3>1. CASE v = t
      BY <1>0, <3>1, DepthAssumption DEF Returns
    <3>2. CASE v # t
      BY <3>2 DEF Returns, CallShape
    <3> QED BY <3>1, <3>2
  <2>2. ASSUME NEW i \in 1..Len(r[v])
        PROVE  /\ i < Len(r[v]) => r[v][i].pc \in {"owner", "direct"}
               /\ r[v][i].pc \in {"asleep", "awake", "owner"} <=> r[v][i].held # None
               /\ Sleeps(r, v) => r[v][i].pc # "owner"
    <3>1. /\ i \in 1..Len(st[v]) /\ r[v][i].held = st[v][i].held
          /\ r[v][i].pc = st[v][i].pc \/ (st[v][i].pc = "asleep" /\ r[v][i].pc = "awake")
      BY ReturnsAt
    <3>2. /\ i < Len(st[v]) => st[v][i].pc \in {"owner", "direct"}
          /\ st[v][i].pc \in {"asleep", "awake", "owner"} <=> st[v][i].held # None
          /\ Sleeps(st, v) => st[v][i].pc # "owner"
      BY <3>1 DEF CallShape
    <3>3. i < Len(r[v]) => i < Len(st[v])
      <4>1. CASE v = t
        BY <1>0, <4>1 DEF Returns
      <4>2. CASE v # t
        BY <4>2 DEF Returns
      <4> QED BY <4>1, <4>2
    <3> QED BY <1>6, <3>1, <3>2, <3>3
  <2> QED BY <2>1, <2>2
<1> QED BY <1>6, <1>7, <1>8

(* The owners after a return: the ones before, but for the call that       *)
(* returned, whose Flight stops running.                                   *)
LEMMA ReturnOwners ==
  ASSUME NEW reg, NEW fl, NEW st \in CallStacks, CallShape(st), OwnerCalls(reg, fl, st),
         NEW t \in Threads, NEW n, n = Len(st[t]), n > 0, NEW f, NEW r, Returns(st, r, t, n, f),
         NEW rg, NEW fs, st[t][n].pc = "owner" => st[t][n].held = f /\ ~fs[f].running,
         \A g \in Flights : st[t][n].pc # "owner" \/ g # f =>
            fs[g].running = fl[g].running /\ fs[g].owner = fl[g].owner,
         \A k \in Results : st[t][n].pc # "owner" \/ reg[k] # f => rg[k] = reg[k]
  PROVE  OwnerCalls(rg, fs, r)
<1>0. n \in Nat /\ n \in 1..Len(st[t])
  BY CallDepth
<1>1. ASSUME NEW v \in Threads, NEW i \in 1..Len(r[v]), r[v][i].pc = "owner"
      PROVE  /\ i \in 1..Len(st[v]) /\ ~(v = t /\ i = n)
             /\ st[v][i].pc = "owner" /\ r[v][i].key = st[v][i].key
             /\ r[v][i].held = st[v][i].held
             /\ st[v][i].held \in Flights /\ st[v][i].key \in Results
             /\ st[t][n].pc = "owner" => st[v][i].held # f
  <2>1. /\ i \in 1..Len(st[v]) /\ ~(v = t /\ i = n)
        /\ st[v][i].pc = "owner" /\ r[v][i].key = st[v][i].key
        /\ r[v][i].held = st[v][i].held
    BY <1>1, ReturnsAt
  <2>2. st[v][i].held \in Flights /\ st[v][i].key \in Results
    BY <2>1, OwnerHolds
  <2>3. ASSUME st[t][n].pc = "owner", st[v][i].held = f PROVE FALSE
    <3>1. Owns(st, v, i, st[t][n].held)
      BY <2>1, <2>3 DEF Owns
    <3>2. v = t /\ i = n
      BY <1>0, <2>1, <2>3, <3>1 DEF OwnerCalls
    <3> QED BY <2>1, <3>2
  <2> QED BY <2>1, <2>2, <2>3
<1>2. ASSUME NEW v \in Threads, NEW i \in 1..Len(r[v]), r[v][i].pc = "owner"
      PROVE  /\ rg[r[v][i].key] = r[v][i].held
             /\ fs[r[v][i].held].running
             /\ fs[r[v][i].held].owner = v
             /\ \A u \in Threads : \A j \in 1..Len(r[u]) :
                  Owns(r, u, j, r[v][i].held) => u = v /\ j = i
  <2>1. /\ i \in 1..Len(st[v]) /\ ~(v = t /\ i = n)
        /\ st[v][i].pc = "owner" /\ r[v][i].key = st[v][i].key
        /\ r[v][i].held = st[v][i].held
        /\ st[v][i].held \in Flights /\ st[v][i].key \in Results
        /\ st[t][n].pc = "owner" => st[v][i].held # f
    BY <1>1, <1>2
  <2>2. /\ reg[st[v][i].key] = st[v][i].held
        /\ fl[st[v][i].held].running
        /\ fl[st[v][i].held].owner = v
        /\ \A u \in Threads : \A j \in 1..Len(st[u]) :
             Owns(st, u, j, st[v][i].held) => u = v /\ j = i
    BY <2>1 DEF OwnerCalls
  <2>3. fs[st[v][i].held].running /\ fs[st[v][i].held].owner = v
    BY <2>1, <2>2
  <2>4. rg[st[v][i].key] = st[v][i].held
    BY <2>1, <2>2
  <2>5. ASSUME NEW u \in Threads, NEW j \in 1..Len(r[u]), Owns(r, u, j, st[v][i].held)
        PROVE  u = v /\ j = i
    <3>1. j \in 1..Len(st[u]) /\ Owns(st, u, j, st[v][i].held)
      BY <1>1, <2>5 DEF Owns
    <3> QED BY <2>2, <3>1
  <2> QED BY <2>1, <2>3, <2>4, <2>5
<1>3. ASSUME NEW g \in Flights, fs[g].running
      PROVE  \E v \in Threads : \E i \in 1..Len(r[v]) : Owns(r, v, i, g)
  <2>1. st[t][n].pc = "owner" => g # f
    BY <1>3
  <2>2. fl[g].running
    BY <1>3, <2>1
  <2>3. PICK v \in Threads : \E i \in 1..Len(st[v]) : Owns(st, v, i, g)
    BY <2>2 DEF OwnerCalls
  <2>4. PICK i \in 1..Len(st[v]) : Owns(st, v, i, g)
    BY <2>3
  <2>5. ~(v = t /\ i = n)
    BY <2>1, <2>4 DEF Owns
  <2>6. i \in 1..Len(r[v])
    <3>1. CASE v = t
      BY <1>0, <2>4, <2>5, <3>1 DEF Returns
    <3>2. CASE v # t
      BY <3>2 DEF Returns
    <3> QED BY <3>1, <3>2
  <2>7. r[v][i].pc = st[v][i].pc /\ r[v][i].held = st[v][i].held
    BY <2>4, <2>6, ReturnsAt DEF Owns
  <2> QED BY <2>4, <2>6, <2>7 DEF Owns
<1> QED BY <1>2, <1>3 DEF OwnerCalls

(* The end of a direct call, place by place: nobody sleeps on nullptr. *)
LEMMA DirectReturned ==
  ASSUME LibraryInv, NEW t \in Threads, NEW n, n = Len(calls[t]), n > 0
  PROVE  Returns(calls, Library!Popped(t), t, n, None)
<1>0. calls \in CallStacks /\ CallShape(calls)
  BY LibraryParts
<1> DEFINE r == Library!Popped(t)
           q == SubSeq(calls[t], 1, n - 1)
<1>1. r = [calls EXCEPT ![t] = q]
  BY DEF Library!Popped
<1>2. calls[t] \in Seq(Library!Call) /\ n \in Nat
  BY <1>0 DEF CallStacks
<1>3. /\ q \in Seq(Library!Call) /\ Len(q) = n - 1
      /\ \A i \in 1..(n - 1) : q[i] = calls[t][i] /\ i \in 1..n
  BY <1>2
<1> HIDE DEF q, r
<1>4. r \in CallStacks
  BY <1>0, <1>1, <1>3 DEF CallStacks
<1>5. r[t] = q /\ \A v \in Threads : v # t => r[v] = calls[v]
  BY <1>0, <1>1 DEF CallStacks
<1>6. ASSUME NEW v \in Threads, NEW j \in 1..Len(r[v])
      PROVE  /\ r[v][j] = calls[v][j]
             /\ ~(calls[v][j].pc = "asleep" /\ calls[v][j].held = None)
  <2>1. r[v][j] = calls[v][j] /\ j \in 1..Len(calls[v])
    BY <1>3, <1>5
  <2> QED BY <1>0, <2>1 DEF CallShape
<1>7. Returns(calls, r, t, n, None)
  BY <1>3, <1>4, <1>5, <1>6 DEF Returns
<1> QED BY <1>7 DEF r

(* original() returns to a call without a Flight. *)
LEMMA DirectReturnsKeeps ==
  ASSUME LibraryInv, NEW t \in Threads, NEW ok, Library!DirectReturns(t, ok)
  PROVE  LibraryInv'
<1>0. /\ registry \in [Results -> Flights \cup {None}]
      /\ flight \in [Flights -> Library!Flight]
      /\ calls \in CallStacks /\ CallShape(calls)
      /\ RegistryOnce(registry, flight) /\ OwnerCalls(registry, flight, calls)
      /\ SleeperFlights(registry, flight, calls) /\ SleeperCounts(registry, flight, calls)
  BY LibraryParts
<1>1. PICK n : n = Len(calls[t])
  OBVIOUS
<1>2. /\ Library!At(t, "direct") /\ calls' = Library!Popped(t)
      /\ registry' = registry /\ flight' = flight
  BY DEF Library!DirectReturns
<1>3. n > 0 /\ calls[t][n].pc = "direct"
  BY <1>1, <1>2, LibraryAt
<1>4. Returns(calls, calls', t, n, None)
  BY <1>1, <1>2, <1>3, DirectReturned
<1>5. /\ CallShape(calls')
      /\ \A v \in Threads : /\ Sleeps(calls', v) <=> Sleeps(calls, v)
                            /\ Sleeps(calls, v) =>
                                 /\ Last(calls'[v]).key = Last(calls[v]).key
                                 /\ Last(calls'[v]).held = Last(calls[v]).held
                                 /\ Last(calls'[v]).pc =
                                      IF Last(calls[v]).pc = "asleep" /\ Last(calls[v]).held = None
                                      THEN "awake" ELSE Last(calls[v]).pc
      /\ \A g : Sleepers(calls', g) = Sleepers(calls, g)
  BY <1>0, <1>1, <1>3, <1>4, ReturnShape
<1>6. OwnerCalls(registry, flight, calls')
  BY <1>0, <1>1, <1>3, <1>4, ReturnOwners
<1>7. SleeperFlights(registry, flight, calls')
  BY <1>0, <1>5 DEF SleeperFlights
<1>8. SleeperCounts(registry, flight, calls')
  <2>1. ASSUME NEW j \in Results, registry[j] # None, ~flight[registry[j]].running
        PROVE  \E v \in Sleepers(calls', registry[j]) : Last(calls'[v]).pc = "awake"
    <3>1. PICK v \in Sleepers(calls, registry[j]) : Last(calls[v]).pc = "awake"
      BY <1>0, <2>1 DEF SleeperCounts
    <3>2. v \in Sleepers(calls', registry[j]) /\ Last(calls'[v]).pc = "awake"
      BY <1>5, <3>1 DEF Sleepers
    <3> QED BY <3>2
  <2> QED BY <1>0, <1>5, <2>1 DEF SleeperCounts
<1>9. calls' \in CallStacks
  BY <1>4 DEF Returns
<1>10. LibraryOK(registry, flight, calls')
  BY <1>0, <1>5, <1>6, <1>7, <1>8, <1>9 DEF LibraryOK
<1> QED BY <1>2, <1>10 DEF LibraryInv

(* The end of an owner's call, place by place. *)
LEMMA OwnerReturned ==
  ASSUME LibraryInv, NEW t \in Threads, NEW n, n = Len(calls[t]), n > 0, NEW f
  PROVE  Returns(calls, Library!NotifiedAndReturned(t, f), t, n, f)
<1>0. calls \in CallStacks
  BY LibraryParts
<1> DEFINE r == Library!NotifiedAndReturned(t, f)
           w(x) == IF x.pc = "asleep" /\ x.held = f THEN [x EXCEPT !.pc = "awake"] ELSE x
           m(u) == IF u = t THEN n - 1 ELSE Len(calls[u])
           q(u) == [i \in 1..m(u) |-> w(calls[u][i])]
<1>1. r = [u \in Threads |-> q(u)]
  BY DEF Library!NotifiedAndReturned, Library!Depth
<1>2. ASSUME NEW u \in Threads
      PROVE  /\ q(u) \in Seq(Library!Call) /\ Len(q(u)) = m(u)
             /\ \A i \in 1..m(u) : q(u)[i] = w(calls[u][i])
  <2>1. m(u) \in Nat /\ \A i \in 1..m(u) : i \in 1..Len(calls[u])
    <3>1. n \in Nat /\ Len(calls[u]) \in Nat
      BY <1>0, CallDepth
    <3> QED BY <3>1
  <2>2. ASSUME NEW i \in 1..m(u) PROVE w(calls[u][i]) \in Library!Call
    <3>1. calls[u][i] \in Library!Call
      BY <1>0, <2>1, CallFields
    <3> QED BY <3>1 DEF Library!Call
  <2> HIDE DEF w, m
  <2>3. q(u) \in [1..m(u) -> Library!Call]
    BY <2>2
  <2>4. q(u) \in Seq(Library!Call)
    BY <2>1, <2>3, SeqDef
  <2>5. DOMAIN q(u) = 1..Len(q(u)) /\ Len(q(u)) \in Nat
    BY <2>4, LenProperties
  <2>6. Len(q(u)) = m(u)
    BY <2>1, <2>3, <2>5
  <2> QED BY <2>4, <2>6
<1> HIDE DEF q, r
<1>3. \A u \in Threads : r[u] = q(u)
  BY <1>1
<1>4. r \in CallStacks
  BY <1>1, <1>2 DEF CallStacks
<1>5. Len(r[t]) = n - 1 /\ \A v \in Threads : v # t => Len(r[v]) = Len(calls[v])
  BY <1>2, <1>3
<1>6. ASSUME NEW v \in Threads, NEW j \in 1..Len(r[v]) PROVE r[v][j] = w(calls[v][j])
  BY <1>2, <1>3
<1>7. Returns(calls, r, t, n, f)
  BY <1>4, <1>5, <1>6 DEF Returns
<1> QED BY <1>7 DEF r

(* The owner's original() is over: its Flight stays registered only after  *)
(* a failure with waiters, and they are awake.                             *)
LEMMA OwnerReturnsKeeps ==
  ASSUME LibraryInv, NEW t \in Threads, NEW ok \in BOOLEAN, Library!OwnerReturns(t, ok)
  PROVE  LibraryInv'
<1>0. /\ registry \in [Results -> Flights \cup {None}]
      /\ flight \in [Flights -> Library!Flight]
      /\ calls \in CallStacks /\ CallShape(calls)
      /\ RegistryOnce(registry, flight) /\ OwnerCalls(registry, flight, calls)
      /\ SleeperFlights(registry, flight, calls) /\ SleeperCounts(registry, flight, calls)
  BY LibraryParts
<1>1. PICK n : n = Len(calls[t])
  OBVIOUS
<1>2. Library!At(t, "owner")
  BY DEF Library!OwnerReturns
<1>3. n > 0 /\ calls[t][n].pc = "owner" /\ Library!Top(t) = calls[t][n]
      /\ n \in 1..Len(calls[t])
  BY <1>1, <1>2, LibraryAt
<1>4. PICK f : f = calls[t][n].held
  OBVIOUS
<1>5. f \in Flights /\ f # None
  BY <1>0, <1>3, <1>4, OwnerHolds
<1>6. PICK x : x = [flight[f] EXCEPT !.running = FALSE, !.succeeded = ok]
  OBVIOUS
<1>7. /\ flight' = [flight EXCEPT ![f] = x]
      /\ registry' = Library!Erased(f, Library!EraseAfter(f, ok))
      /\ calls' = Library!NotifiedAndReturned(t, f)
  BY <1>3, <1>4, <1>6 DEF Library!OwnerReturns
<1>8. flight[f] \in Library!Flight
  BY <1>0, <1>5
<1>9. x \in Library!Flight /\ ~x.running /\ x.waiters = flight[f].waiters
      /\ (x.succeeded <=> ok)
  BY <1>6, <1>8 DEF Library!Flight
<1>10. /\ flight' \in [Flights -> Library!Flight] /\ flight'[f] = x
       /\ \A g \in Flights : g # f => flight'[g] = flight[g]
  BY <1>0, <1>5, <1>7, <1>9
<1>11. /\ registry' \in [Results -> Flights \cup {None}]
       /\ \A j \in Results :
            registry'[j] = IF (ok \/ flight[f].waiters = 0) /\ registry[j] = f
                           THEN None ELSE registry[j]
  BY <1>0, <1>7 DEF Library!Erased, Library!EraseAfter
<1>12. Returns(calls, calls', t, n, f)
  BY <1>1, <1>3, <1>7, OwnerReturned
<1>13. /\ CallShape(calls')
       /\ \A v \in Threads : /\ Sleeps(calls', v) <=> Sleeps(calls, v)
                             /\ Sleeps(calls, v) =>
                                  /\ Last(calls'[v]).key = Last(calls[v]).key
                                  /\ Last(calls'[v]).held = Last(calls[v]).held
                                  /\ Last(calls'[v]).pc =
                                       IF Last(calls[v]).pc = "asleep" /\ Last(calls[v]).held = f
                                       THEN "awake" ELSE Last(calls[v]).pc
       /\ \A g : Sleepers(calls', g) = Sleepers(calls, g)
  BY <1>0, <1>1, <1>3, <1>12, ReturnShape
<1>14. OwnerCalls(registry', flight', calls')
  <2>1. calls[t][n].held = f /\ ~flight'[f].running
    BY <1>4, <1>9, <1>10
  <2>2. \A g \in Flights : calls[t][n].pc # "owner" \/ g # f =>
           flight'[g].running = flight[g].running /\ flight'[g].owner = flight[g].owner
    BY <1>3, <1>10
  <2>3. \A k \in Results : calls[t][n].pc # "owner" \/ registry[k] # f =>
           registry'[k] = registry[k]
    BY <1>3, <1>11
  <2> QED BY <1>0, <1>1, <1>3, <1>12, <2>1, <2>2, <2>3, ReturnOwners
<1>15. ASSUME NEW v \in Threads, Sleeps(calls, v)
       PROVE  /\ Last(calls[v]).held \in Flights /\ Last(calls[v]).held # None
              /\ Last(calls[v]).key \in Results /\ Last(calls[v]).pc \in {"asleep", "awake"}
              /\ Last(calls[v]).pc = "asleep" => flight[Last(calls[v]).held].running
              /\ \/ registry[Last(calls[v]).key] = Last(calls[v]).held
                 \/ /\ flight[Last(calls[v]).held].succeeded
                    /\ ~flight[Last(calls[v]).held].running
              /\ Last(calls[v]).held = f => flight[f].waiters # 0
  <2>1. /\ Last(calls[v]).held \in Flights /\ Last(calls[v]).held # None
        /\ Last(calls[v]).key \in Results /\ Last(calls[v]).pc \in {"asleep", "awake"}
    BY <1>0, <1>15, SleeperHolds
  <2>2. /\ Last(calls[v]).pc = "asleep" => flight[Last(calls[v]).held].running
        /\ \/ registry[Last(calls[v]).key] = Last(calls[v]).held
           \/ /\ flight[Last(calls[v]).held].succeeded
              /\ ~flight[Last(calls[v]).held].running
    BY <1>0, <1>15 DEF SleeperFlights
  <2>3. ASSUME Last(calls[v]).held = f PROVE flight[f].waiters # 0
    <3>1. v \in Sleepers(calls, f)
      BY <1>15, <2>3 DEF Sleepers
    <3>2. IsFiniteSet(Sleepers(calls, f)) /\ flight[f].waiters = Cardinality(Sleepers(calls, f))
      BY <1>0, <1>5 DEF SleeperCounts
    <3> QED BY <3>1, <3>2, FS_EmptySet
  <2> QED BY <2>1, <2>2, <2>3
<1>16. SleeperFlights(registry', flight', calls')
  <2>1. ASSUME NEW v \in Threads, Sleeps(calls, v)
        PROVE  /\ Last(calls'[v]).pc = "asleep" => flight'[Last(calls[v]).held].running
               /\ \/ registry'[Last(calls[v]).key] = Last(calls[v]).held
                  \/ /\ flight'[Last(calls[v]).held].succeeded
                     /\ ~flight'[Last(calls[v]).held].running
    <3>1. CASE Last(calls[v]).held = f
      <4>1. Last(calls'[v]).pc # "asleep"
        BY <1>13, <2>1, <3>1
      <4>2. CASE ok
        BY <1>9, <1>10, <3>1, <4>1, <4>2
      <4>3. CASE ~ok
        <5>1. flight[f].running
          BY <1>0, <1>3, <1>4 DEF OwnerCalls
        <5>2. registry[Last(calls[v]).key] = f /\ flight[f].waiters # 0
          BY <1>15, <2>1, <3>1, <5>1
        <5>3. registry'[Last(calls[v]).key] = f
          BY <1>11, <1>15, <2>1, <4>3, <5>2
        <5> QED BY <3>1, <4>1, <5>3
      <4> QED BY <4>2, <4>3
    <3>2. CASE Last(calls[v]).held # f
      <4>1. flight'[Last(calls[v]).held] = flight[Last(calls[v]).held]
        BY <1>10, <1>15, <2>1, <3>2
      <4>2. Last(calls'[v]).pc = Last(calls[v]).pc
        BY <1>13, <2>1, <3>2
      <4>3. registry[Last(calls[v]).key] = Last(calls[v]).held =>
              registry'[Last(calls[v]).key] = Last(calls[v]).held
        BY <1>11, <1>15, <2>1, <3>2
      <4> QED BY <1>15, <2>1, <4>1, <4>2, <4>3
    <3> QED BY <3>1, <3>2
  <2> QED BY <1>13, <2>1 DEF SleeperFlights
<1>17. SleeperCounts(registry', flight', calls')
  <2>1. ASSUME NEW g \in Flights
        PROVE  /\ IsFiniteSet(Sleepers(calls', g))
               /\ flight'[g].waiters = Cardinality(Sleepers(calls', g))
    <3>1. flight'[g].waiters = flight[g].waiters
      BY <1>9, <1>10
    <3> QED BY <1>0, <1>13, <3>1 DEF SleeperCounts
  <2>2. ASSUME NEW j \in Results, registry'[j] # None, ~flight'[registry'[j]].running
        PROVE  \E v \in Sleepers(calls', registry'[j]) : Last(calls'[v]).pc = "awake"
    <3>1. registry'[j] = registry[j]
      BY <1>11, <2>2
    <3>2. CASE registry[j] = f
      <4>1. flight[f].waiters # 0
        BY <1>11, <2>2, <3>2
      <4>2. IsFiniteSet(Sleepers(calls, f)) /\ flight[f].waiters = Cardinality(Sleepers(calls, f))
        BY <1>0, <1>5 DEF SleeperCounts
      <4>3. Sleepers(calls, f) # {}
        BY <4>1, <4>2, FS_EmptySet
      <4>4. PICK v \in Sleepers(calls, f) : TRUE
        BY <4>3
      <4>5. v \in Threads /\ Sleeps(calls, v) /\ Last(calls[v]).held = f
        BY <4>4 DEF Sleepers
      <4>6. Last(calls'[v]).pc = "awake"
        BY <1>13, <1>15, <4>5
      <4>7. v \in Sleepers(calls', registry'[j])
        BY <1>13, <3>1, <3>2, <4>4
      <4> QED BY <4>6, <4>7
    <3>3. CASE registry[j] # f
      <4>1. registry[j] \in Flights /\ registry[j] # None
        BY <1>0, <2>2, <3>1
      <4>2. ~flight[registry[j]].running
        BY <1>10, <2>2, <3>1, <3>3, <4>1
      <4>3. PICK v \in Sleepers(calls, registry[j]) : Last(calls[v]).pc = "awake"
        BY <1>0, <4>1, <4>2 DEF SleeperCounts
      <4>4. v \in Threads /\ Sleeps(calls, v)
        BY <4>3 DEF Sleepers
      <4>5. Last(calls'[v]).pc = "awake"
        BY <1>13, <4>3, <4>4
      <4>6. v \in Sleepers(calls', registry'[j])
        BY <1>13, <3>1, <4>3
      <4> QED BY <4>5, <4>6
    <3> QED BY <3>2, <3>3
  <2> QED BY <2>1, <2>2 DEF SleeperCounts
<1>18. RegistryOnce(registry', flight')
  <2>1. ASSUME NEW i \in Results, NEW j \in Results, registry'[i] = registry'[j],
               registry'[i] # None
        PROVE  i = j
    <3>1. registry'[i] = registry[i] /\ registry'[j] = registry[j]
      BY <1>11, <2>1
    <3> QED BY <1>0, <2>1, <3>1 DEF RegistryOnce
  <2>2. ASSUME NEW j \in Results, registry'[j] # None
        PROVE  ~flight'[registry'[j]].succeeded
    <3>1. registry'[j] = registry[j] /\ registry[j] # None /\ registry[j] \in Flights
      BY <1>0, <1>11, <2>2
    <3>2. CASE registry[j] = f
      <4>1. ~ok
        BY <1>11, <2>2, <3>2
      <4> QED BY <1>9, <1>10, <3>1, <3>2, <4>1
    <3>3. CASE registry[j] # f
      BY <1>0, <1>10, <3>1, <3>3 DEF RegistryOnce
    <3> QED BY <3>2, <3>3
  <2> QED BY <2>1, <2>2 DEF RegistryOnce
<1>19. calls' \in CallStacks
  BY <1>12 DEF Returns
<1> QED BY <1>10, <1>11, <1>13, <1>14, <1>16, <1>17, <1>18, <1>19 DEF LibraryInv, LibraryOK

(* Every step of the library layer keeps its invariant. *)
LEMMA LibraryStep ==
  ASSUME LibraryInv, NEW t \in Threads,
         \/ \E r \in Results : Library!GetAndRetainLibrary(t, r)
         \/ Library!Step(t)
         \/ Library!OriginalReturns(t)
  PROVE  LibraryInv'
<1>1. CASE \E r \in Results : Library!GetAndRetainLibrary(t, r)
  BY <1>1, CallKeeps
<1>2. CASE Library!OwnNew(t)
  BY <1>2, OwnNewKeeps
<1>3. CASE Library!Bypass(t)
  BY <1>3, BypassKeeps
<1>4. CASE Library!Wait(t)
  BY <1>4, WaitKeeps
<1>5. CASE Library!WaitAgain(t)
  BY <1>5, WaitAgainKeeps
<1>6. CASE Library!WokenBySuccess(t)
  BY <1>6, WokenBySuccessKeeps
<1>7. CASE Library!TakeOver(t)
  BY <1>7, TakeOverKeeps
<1>8. CASE Library!TakeOverFound(t)
  BY <1>8, TakeOverFoundKeeps
<1>9. CASE \E ok \in BOOLEAN : Library!OwnerReturns(t, ok)
  BY <1>9, OwnerReturnsKeeps
<1>10. CASE \E ok \in BOOLEAN : Library!DirectReturns(t, ok)
  BY <1>10, DirectReturnsKeeps
<1> QED BY <1>1, <1>2, <1>3, <1>4, <1>5, <1>6, <1>7, <1>8, <1>9, <1>10
        DEF Library!Step, Library!OriginalReturns

-----------------------------------------------------------------------------
(* The composition. *)

(* A sequence is empty exactly when its length is 0. *)
LEMMA EmptyIs ==
  ASSUME NEW S, NEW q \in Seq(S)
  PROVE  /\ q = <<>> <=> Len(q) = 0
         /\ Len(q) \in Nat
BY EmptySeq, LenProperties

(* Only a thread with a call steps in the library layer, and the others    *)
(* keep the number of their calls.                                         *)
LEMMA LibraryOthers ==
  ASSUME LibraryInv, NEW t \in Threads, Library!Step(t) \/ Library!OriginalReturns(t)
  PROVE  /\ calls[t] # <<>>
         /\ \A v \in Threads : v # t => Len(calls'[v]) = Len(calls[v])
<1>0. calls \in CallStacks /\ registry \in [Results -> Flights \cup {None}]
  BY LibraryParts
<1>1. PICK n : n = Len(calls[t])
  OBVIOUS
<1>2. PICK pc : Library!At(t, pc)
  BY DEF Library!Step, Library!OriginalReturns, Library!OwnNew, Library!Bypass, Library!Wait,
         Library!WaitAgain, Library!WokenBySuccess, Library!TakeOver, Library!TakeOverFound,
         Library!OwnerReturns, Library!DirectReturns
<1>3. n > 0 /\ Library!Top(t) = calls[t][n] /\ calls[t][n] \in Library!Call
  BY <1>1, <1>2, LibraryAt
<1>4. calls[t] # <<>>
  BY <1>0, <1>1, <1>3, EmptyIs DEF CallStacks
<1>5. calls[t][n].key \in Results /\ calls[t][n].held \in Flights \cup {None}
  BY <1>3 DEF Library!Call
<1>6. registry[calls[t][n].key] \in Flights \cup {None}
  BY <1>0, <1>5
<1>7. CASE Library!Step(t)
  <2>1. \E pc2 \in {"search", "asleep", "awake", "owner", "direct"},
           f \in Flights \cup {None} : calls' = Library!Goto(t, pc2, f)
    BY <1>3, <1>5, <1>6, <1>7
       DEF Library!Step, Library!OwnNew, Library!Bypass, Library!Wait, Library!WaitAgain,
           Library!WokenBySuccess, Library!TakeOver, Library!TakeOverFound
  <2>2. PICK c \in Library!Call : TopIs(calls, calls', t, n, c)
    BY <1>1, <1>3, <2>1, GotoIs
  <2> QED BY <1>4, <2>2 DEF TopIs
<1>8. CASE Library!OriginalReturns(t)
  <2>1. PICK f : Returns(calls, calls', t, n, f)
    <3>1. \/ \E f : calls' = Library!NotifiedAndReturned(t, f)
          \/ calls' = Library!Popped(t)
      BY <1>8 DEF Library!OriginalReturns, Library!OwnerReturns, Library!DirectReturns
    <3>2. CASE \E f : calls' = Library!NotifiedAndReturned(t, f)
      BY <1>1, <1>3, <3>2, OwnerReturned
    <3>3. CASE calls' = Library!Popped(t)
      BY <1>1, <1>3, <3>3, DirectReturned
    <3> QED BY <3>1, <3>2, <3>3
  <2> QED BY <1>4, <2>1 DEF Returns
<1> QED BY <1>7, <1>8

(* A step of the outer layer leaves a thread with calls in native code:    *)
(* the thread that steps has none.                                         *)
LEMMA OuterCallsCompile ==
  ASSUME StageInv, OuterInv', calls' = calls, NEW t \in Threads, calls[t] = <<>>,
         Calm(scopes, scopes', t)
  PROVE  CallsCompile'
<1>1. scopes \in Stacks /\ scopes' \in Stacks
  BY DEF StageInv, OuterInv, OuterOK
<1> SUFFICES ASSUME NEW v \in Threads, calls[v] # <<>>, scopes'[v] # <<>>
             PROVE  Last(scopes'[v]).pc = "compiling"
  BY DEF CallsCompile
<1>2. v # t
  OBVIOUS
<1>3. PICK n : n = Len(scopes[v])
  OBVIOUS
<1>4. Len(scopes'[v]) = n
  BY <1>2, <1>3 DEF Calm
<1>5. n \in Nat /\ n # 0 /\ scopes[v] # <<>>
  BY <1>1, <1>3, <1>4, EmptyIs DEF Stacks
<1>6. scopes[v][n].pc = "compiling"
  BY <1>3, <1>5 DEF StageInv, CallsCompile, Last
<1>7. n \in 1..Len(scopes[v])
  BY <1>3, <1>5
<1>8. scopes'[v][n].pc = "compiling"
  BY <1>2, <1>6, <1>7 DEF Calm
<1> QED BY <1>4, <1>8 DEF Last

(* A step of the library layer, too: a thread calls from native code.      *)
LEMMA LibraryCallsCompile ==
  ASSUME StageInv, LibraryInv', scopes' = scopes, NEW t \in Threads,
         \A v \in Threads : v # t => Len(calls'[v]) = Len(calls[v]),
         scopes[t] # <<>> => Last(scopes[t]).pc = "compiling"
  PROVE  CallsCompile'
<1>1. calls \in CallStacks /\ calls' \in CallStacks
  BY DEF StageInv, LibraryInv, LibraryOK
<1> SUFFICES ASSUME NEW v \in Threads, calls'[v] # <<>>, scopes[v] # <<>>
             PROVE  Last(scopes[v]).pc = "compiling"
  BY DEF CallsCompile
<1>2. CASE v = t
  BY <1>2
<1>3. CASE v # t
  <2>1. Len(calls'[v]) = Len(calls[v])
    BY <1>3
  <2>2. calls[v] # <<>>
    BY <1>1, <2>1, EmptyIs DEF CallStacks
  <2> QED BY <2>2 DEF StageInv, CallsCompile
<1> QED BY <1>2, <1>3

(* A thread that waits or drains in the outer layer has no library call.   *)
LEMMA NoCallAt ==
  ASSUME StageInv, NEW t \in Threads, NEW pc, Outer!At(t, pc), pc # "compiling"
  PROVE  calls[t] = <<>>
<1>1. scopes \in Stacks
  BY DEF StageInv, OuterInv, OuterOK
<1>2. Len(scopes[t]) > 0 /\ Last(scopes[t]).pc = pc
  BY DEF Outer!At, Outer!Top, Outer!Depth, Last
<1>3. scopes[t] # <<>>
  BY <1>1, <1>2, EmptyIs DEF Stacks
<1> QED BY <1>2, <1>3 DEF StageInv, CallsCompile

(* No thread compiles or calls at first. *)
LEMMA StageInit ==
  ASSUME Init
  PROVE  StageInv
<1>1. /\ flights = {} /\ scopes = [t \in Threads |-> <<>>]
      /\ registry = [k \in Results |-> None] /\ calls = [t \in Threads |-> <<>>]
      /\ flight = [f \in Flights |-> [running |-> FALSE, succeeded |-> FALSE,
                                      waiters |-> 0, owner |-> None]]
  BY DEF Init, Outer!Init, Library!Init
<1>2. \A t \in Threads : Len(scopes[t]) = 0 /\ Len(calls[t]) = 0
  BY <1>1
<1>3. /\ scopes \in Stacks /\ calls \in CallStacks
      /\ registry \in [Results -> Flights \cup {None}]
      /\ flight \in [Flights -> Library!Flight]
  BY <1>1 DEF Stacks, CallStacks, Library!Flight
<1>4. Places(scopes) = {}
  BY <1>2 DEF Places, Addresses
<1>5. OuterInv
  <2>1. ScopeShape(scopes)
    BY <1>2, DepthAssumption DEF ScopeShape
  <2>2. WaitTargets(scopes)
    BY <1>2 DEF WaitTargets, Waits
  <2>3. FlightOwners(flights, scopes) /\ WaiterCounts(scopes)
    BY <1>1, <1>4 DEF FlightOwners, WaiterCounts
  <2> QED BY <1>3, <2>1, <2>2, <2>3 DEF OuterInv, OuterOK
<1>6. LibraryInv
  <2>1. CallShape(calls)
    BY <1>2, DepthAssumption DEF CallShape
  <2>2. \A k \in Results : registry[k] = None
    BY <1>1
  <2>3. \A f \in Flights : ~flight[f].running /\ flight[f].waiters = 0
    BY <1>1
  <2>4. \A t \in Threads : ~Sleeps(calls, t)
    BY <1>2 DEF Sleeps
  <2>5. \A f \in Flights : Sleepers(calls, f) = {}
    BY <2>4 DEF Sleepers
  <2>6. RegistryOnce(registry, flight)
    BY <2>2 DEF RegistryOnce
  <2>7. OwnerCalls(registry, flight, calls)
    BY <1>2, <2>3 DEF OwnerCalls
  <2>8. SleeperFlights(registry, flight, calls)
    BY <2>4 DEF SleeperFlights
  <2>9. SleeperCounts(registry, flight, calls)
    BY <2>2, <2>3, <2>5, FS_EmptySet DEF SleeperCounts
  <2> QED BY <1>3, <2>1, <2>6, <2>7, <2>8, <2>9 DEF LibraryInv, LibraryOK
<1>7. CallsCompile
  BY <1>1 DEF CallsCompile
<1> QED BY <1>5, <1>6, <1>7 DEF StageInv

(* Every step of either layer keeps the invariant of the whole. *)
LEMMA StageStep ==
  ASSUME StageInv, [Next]_vars
  PROVE  StageInv'
<1>0. OuterInv /\ LibraryInv /\ CallsCompile
  BY DEF StageInv
<1>1. CASE vars' = vars
  <2>1. /\ flights' = flights /\ scopes' = scopes /\ registry' = registry
        /\ flight' = flight /\ calls' = calls
    BY <1>1 DEF vars, outerVars, libraryVars
  <2>2. OuterInv' /\ LibraryInv'
    BY <1>0, <2>1 DEF OuterInv, LibraryInv
  <2>3. CallsCompile'
    BY <1>0, <2>1 DEF CallsCompile
  <2> QED BY <2>2, <2>3 DEF StageInv
<1>2. ASSUME NEW t \in Threads, CompileStages(t) \/ ResumeCompile(t)
      PROVE  StageInv'
  <2>1. /\ registry' = registry /\ flight' = flight /\ calls' = calls
    BY <1>2 DEF CompileStages, ResumeCompile, libraryVars
  <2>2. OuterInv' /\ Calm(scopes, scopes', t)
    BY <1>0, <1>2, OuterStep DEF CompileStages, ResumeCompile
  <2>3. LibraryInv'
    BY <1>0, <2>1 DEF LibraryInv
  <2>4. calls[t] = <<>>
    <3>1. CASE CompileStages(t)
      BY <3>1 DEF CompileStages, MayCompile
    <3>2. CASE ResumeCompile(t)
      <4>1. Outer!At(t, "awake") \/ Outer!At(t, "drained")
        BY <3>2 DEF ResumeCompile, Outer!Resume, Outer!Woken, Outer!Drained
      <4> QED BY <4>1, NoCallAt
    <3> QED BY <1>2, <3>1, <3>2
  <2>5. CallsCompile'
    BY <2>1, <2>2, <2>4, OuterCallsCompile
  <2> QED BY <2>2, <2>3, <2>5 DEF StageInv
<1>3. ASSUME NEW t \in Threads, CallLibrary(t)
      PROVE  StageInv'
  <2>1. flights' = flights /\ scopes' = scopes
    BY <1>3 DEF CallLibrary, outerVars
  <2>2. LibraryInv'
    BY <1>0, <1>3, LibraryStep DEF CallLibrary
  <2>3. OuterInv'
    BY <1>0, <2>1 DEF OuterInv
  <2>4. scopes[t] # <<>> => Last(scopes[t]).pc = "compiling"
    BY <1>3 DEF CallLibrary, Outer!At, Outer!Top, Outer!Depth, Last
  <2>5. \A v \in Threads : v # t => Len(calls'[v]) = Len(calls[v])
    <3>1. calls \in CallStacks
      BY <1>0, LibraryParts
    <3>2. \E c : calls' = [calls EXCEPT ![t] = c]
      BY <1>3 DEF CallLibrary, Library!GetAndRetainLibrary
    <3> QED BY <3>1, <3>2 DEF CallStacks
  <2>6. CallsCompile'
    BY <2>1, <2>2, <2>4, <2>5, LibraryCallsCompile
  <2> QED BY <2>2, <2>3, <2>6 DEF StageInv
<1>4. ASSUME NEW t \in Threads, StepLibrary(t)
      PROVE  StageInv'
  <2>1. flights' = flights /\ scopes' = scopes
    BY <1>4 DEF StepLibrary, outerVars
  <2>2. LibraryInv'
    BY <1>0, <1>4, LibraryStep DEF StepLibrary
  <2>3. OuterInv'
    BY <1>0, <2>1 DEF OuterInv
  <2>4. calls[t] # <<>> /\ \A v \in Threads : v # t => Len(calls'[v]) = Len(calls[v])
    BY <1>0, <1>4, LibraryOthers DEF StepLibrary
  <2>5. scopes[t] # <<>> => Last(scopes[t]).pc = "compiling"
    BY <1>0, <2>4 DEF CallsCompile
  <2>6. CallsCompile'
    BY <2>1, <2>2, <2>4, <2>5, LibraryCallsCompile
  <2> QED BY <2>2, <2>3, <2>6 DEF StageInv
<1> QED BY <1>1, <1>2, <1>3, <1>4 DEF Next

(* The two layers together keep their invariants at every step of every    *)
(* thread: compileStages, the key hook, finish() and the waits of the one, *)
(* getAndRetainLibrarySingleFlight and its waits of the other.             *)
THEOREM StageInvariant == Spec => []StageInv
<1>1. Init => StageInv
  BY StageInit
<1>2. StageInv /\ [Next]_vars => StageInv'
  BY StageStep
<1> QED BY <1>1, <1>2, PTL DEF Spec

-----------------------------------------------------------------------------
(* What the invariant says. *)

(* Who waits in the key hook, in the words of the module and of the        *)
(* invariant.                                                              *)
LEMMA WaitingIs ==
  ASSUME OuterInv, NEW t \in Threads
  PROVE  /\ Outer!Waiting(t) <=> Waits(scopes, t)
         /\ Waits(scopes, t) => Outer!Top(t) = scopes[t][1] /\ Outer!Depth(t) = 1
<1>1. scopes \in Stacks /\ ScopeShape(scopes)
  BY DEF OuterInv, OuterOK
<1>2. PICK n : n = Len(scopes[t])
  OBVIOUS
<1>3. n \in Nat
  BY <1>1, <1>2 DEF Stacks
<1>4. ASSUME n > 0, scopes[t][n].pc \in {"asleep", "awake"}
      PROVE  n = 1
  <2>1. n \in 1..Len(scopes[t])
    BY <1>2, <1>3, <1>4
  <2> QED BY <1>1, <1>2, <1>4, <2>1 DEF ScopeShape
<1>5. Outer!Waiting(t) <=> n > 0 /\ scopes[t][n].pc \in {"asleep", "awake"}
  BY <1>2 DEF Outer!Waiting, Outer!Top, Outer!Depth
<1>6. Waits(scopes, t) <=> n = 1 /\ scopes[t][1].pc \in {"asleep", "awake"}
  BY <1>2 DEF Waits
<1> QED BY <1>2, <1>3, <1>4, <1>5, <1>6 DEF Outer!Top, Outer!Depth

(* The waiters of a Flight are those that the invariant counts. *)
LEMMA WaitersAre ==
  ASSUME OuterInv, NEW a
  PROVE  Outer!WaitersOf(a) = WaitersAt(scopes, a)
<1>1. ASSUME NEW t \in Threads
      PROVE  Outer!Waiting(t) /\ Outer!Top(t).on = a <=> Waits(scopes, t) /\ scopes[t][1].on = a
  BY WaitingIs
<1> QED BY <1>1 DEF Outer!WaitersOf, WaitersAt

(* The instances count as this module does. *)
LEMMA SameCount ==
  ASSUME NEW S
  PROVE  Outer!Cardinality(S) = Cardinality(S) /\ Library!Cardinality(S) = Cardinality(S)
BY DEF Outer!Cardinality, Library!Cardinality, Cardinality

(* The invariant contains FlightOutlivesWaiters. *)
LEMMA OutlivesFromInv ==
  ASSUME OuterInv
  PROVE  FlightOutlivesWaiters
<1>0. scopes \in Stacks /\ ScopeShape(scopes) /\ WaitTargets(scopes) /\ WaiterCounts(scopes)
  BY DEF OuterInv, OuterOK
<1>1. ASSUME NEW t \in Threads, Outer!Waiting(t)
      PROVE  /\ Outer!Top(t).on[2] <= Outer!Depth(Outer!Top(t).on[1])
             /\ Outer!Flight(Outer!Top(t).on).owned
             /\ Outer!Flight(Outer!Top(t).on).key = Outer!Top(t).want
  <2>1. Waits(scopes, t) /\ Outer!Top(t) = scopes[t][1]
    BY <1>1, WaitingIs
  <2>2. PICK a : a = scopes[t][1].on
    OBVIOUS
  <2>3. a \in Places(scopes) /\ Scope(scopes, a).owned
        /\ Scope(scopes, a).key = scopes[t][1].want
    BY <1>0, <2>1, <2>2 DEF WaitTargets
  <2> QED BY <2>1, <2>2, <2>3 DEF Places, Scope, Outer!Depth, Outer!Flight
<1>2. ASSUME NEW t \in Threads, NEW i \in 1..Len(scopes[t])
      PROVE  scopes[t][i].waiters = Cardinality(Outer!WaitersOf(<<t, i>>))
  <2>1. <<t, i>> \in Places(scopes) /\ Scope(scopes, <<t, i>>) = scopes[t][i]
    <3>1. Len(scopes[t]) \in Nat /\ Len(scopes[t]) <= MaxDepth
      BY <1>0 DEF ScopeShape, Stacks
    <3> QED BY <3>1, DepthAssumption DEF Places, Addresses, Scope
  <2>2. Outer!WaitersOf(<<t, i>>) = WaitersAt(scopes, <<t, i>>)
    BY WaitersAre
  <2> QED BY <1>0, <2>1, <2>2 DEF WaiterCounts
<1>3. \A t \in Threads : \A i \in 1..Outer!Depth(t) :
        scopes[t][i].waiters = Outer!Cardinality(Outer!WaitersOf(<<t, i>>))
  BY <1>2, SameCount DEF Outer!Depth
<1> QED BY <1>1, <1>3 DEF FlightOutlivesWaiters, Outer!FlightOutlivesWaiters

(* The invariant contains OneOwnerPerKey. *)
LEMMA OneOwnerFromInv ==
  ASSUME OuterInv
  PROVE  OneOwnerPerKey
<1>0. FlightOwners(flights, scopes)
  BY DEF OuterInv, OuterOK
<1>1. \A a : Outer!Flight(a) = Scope(scopes, a)
  BY DEF Outer!Flight, Scope
<1>2. \A a, b \in flights : Outer!Flight(a).key = Outer!Flight(b).key => a = b
  BY <1>0, <1>1 DEF FlightOwners
<1>3. flights = {a \in Outer!Address : /\ a[2] <= Outer!Depth(a[1])
                                       /\ Outer!Flight(a).owned
                                       /\ Outer!Flight(a).running}
  BY <1>0, <1>1 DEF FlightOwners, Places, Addresses, Outer!Address, Outer!Depth
<1> QED BY <1>2, <1>3 DEF OneOwnerPerKey, Outer!OneOwnerPerKey

(* The invariant contains OneOwnerPerResult. *)
LEMMA OneResultFromInv ==
  ASSUME LibraryInv
  PROVE  OneOwnerPerResult
<1>0. calls \in CallStacks /\ CallShape(calls) /\ OwnerCalls(registry, flight, calls)
  BY LibraryParts
<1>1. ASSUME NEW t \in Threads, NEW i \in 1..Len(calls[t]), calls[t][i].pc = "owner"
      PROVE  /\ registry[calls[t][i].key] = calls[t][i].held
             /\ flight[calls[t][i].held].running
             /\ flight[calls[t][i].held].owner = t
             /\ \A u \in Threads : \A j \in 1..Len(calls[u]) :
                  Owns(calls, u, j, calls[t][i].held) => u = t /\ j = i
  BY <1>0, <1>1 DEF OwnerCalls
<1>2. ASSUME NEW f \in Flights, NEW a \in Library!OwnersOf(f)
      PROVE  /\ a[1] \in Threads /\ a[2] \in 1..Len(calls[a[1]]) /\ a = <<a[1], a[2]>>
             /\ calls[a[1]][a[2]].pc = "owner" /\ calls[a[1]][a[2]].held = f
  BY <1>0, DepthAssumption DEF Library!OwnersOf, Library!Depth, CallStacks
<1>3. Library!OneOwnerPerFlight
  <2> SUFFICES ASSUME NEW f \in Flights
               PROVE  /\ flight[f].running <=> Library!OwnersOf(f) # {}
                      /\ \A a, b \in Library!OwnersOf(f) : a = b
                      /\ \A a \in Library!OwnersOf(f) : flight[f].owner = a[1]
    BY DEF Library!OneOwnerPerFlight
  <2>1. ASSUME flight[f].running PROVE Library!OwnersOf(f) # {}
    <3>1. PICK t \in Threads : \E i \in 1..Len(calls[t]) : Owns(calls, t, i, f)
      BY <1>0, <2>1 DEF OwnerCalls
    <3>2. PICK i \in 1..Len(calls[t]) : Owns(calls, t, i, f)
      BY <3>1
    <3>3. Len(calls[t]) \in Nat /\ Len(calls[t]) <= MaxDepth
      BY <1>0 DEF CallShape, CallStacks
    <3>4. <<t, i>> \in Threads \X (1..MaxDepth) /\ i <= Len(calls[t])
      BY <3>3, DepthAssumption
    <3>5. <<t, i>> \in Library!OwnersOf(f)
      BY <3>2, <3>4 DEF Library!OwnersOf, Library!Depth, Owns
    <3> QED BY <3>5
  <2>2. ASSUME NEW a \in Library!OwnersOf(f)
        PROVE  flight[f].running /\ flight[f].owner = a[1]
    BY <1>1, <1>2
  <2>3. ASSUME NEW a \in Library!OwnersOf(f), NEW b \in Library!OwnersOf(f)
        PROVE  a = b
    <3>1. a[1] = b[1] /\ a[2] = b[2]
      BY <1>1, <1>2 DEF Owns
    <3>2. a = <<a[1], a[2]>> /\ b = <<b[1], b[2]>>
      BY <1>2
    <3> QED BY <3>1, <3>2
  <2> QED BY <2>1, <2>2, <2>3
<1>4. Library!OneOwnerPerKey
  <2>1. ASSUME NEW t \in Threads, NEW u \in Threads,
               NEW i \in 1..Len(calls[t]), NEW j \in 1..Len(calls[u]),
               calls[t][i].pc = "owner", calls[u][j].pc = "owner",
               calls[t][i].key = calls[u][j].key
        PROVE  t = u /\ i = j
    <3>1. calls[t][i].held = calls[u][j].held
      BY <1>1, <2>1
    <3>2. Owns(calls, u, j, calls[t][i].held)
      BY <2>1, <3>1 DEF Owns
    <3> QED BY <1>1, <2>1, <3>2
  <2> QED BY <2>1 DEF Library!OneOwnerPerKey, Library!Depth
<1> QED BY <1>3, <1>4 DEF OneOwnerPerResult

(* The invariant contains RegisteredHasFuture. *)
LEMMA FutureFromInv ==
  ASSUME LibraryInv
  PROVE  RegisteredHasFuture
<1>0. registry \in [Results -> Flights \cup {None}] /\ SleeperCounts(registry, flight, calls)
  BY LibraryParts
<1>1. \A t \in Threads : Library!Top(t) = Last(calls[t])
                         /\ (Library!Waiting(t) <=> Sleeps(calls, t))
  BY DEF Library!Waiting, Library!Top, Library!Depth, Sleeps, Last
<1>2. \A f : Library!WaitersOf(f) = Sleepers(calls, f)
  BY <1>1 DEF Library!WaitersOf, Sleepers
<1>3. \A f \in Flights : flight[f].waiters = Library!Cardinality(Library!WaitersOf(f))
  BY <1>0, <1>2, SameCount DEF SleeperCounts
<1>4. ASSUME NEW k \in Results, registry[k] # None, ~flight[registry[k]].running
      PROVE  \E t \in Library!WaitersOf(registry[k]) : Library!Top(t).pc = "awake"
  <2>1. PICK t \in Sleepers(calls, registry[k]) : Last(calls[t]).pc = "awake"
    BY <1>0, <1>4 DEF SleeperCounts
  <2>2. t \in Threads
    BY DEF Sleepers
  <2> QED BY <1>1, <1>2, <2>1, <2>2
<1> QED BY <1>3, <1>4 DEF RegisteredHasFuture, Library!RegisteredHasFuture

(* An owner of a library Flight waits for nobody. *)
LEMMA SleeperBlocked ==
  ASSUME StageInv, NEW t \in Threads, Library!At(t, "asleep"), NEW u \in BlockedOn(t)
  PROVE  BlockedOn(u) = {} /\ flight[Library!Top(t).held].running
<1>0. /\ LibraryInv /\ calls \in CallStacks /\ CallShape(calls)
      /\ OwnerCalls(registry, flight, calls) /\ SleeperFlights(registry, flight, calls)
  BY LibraryParts DEF StageInv
<1>1. Library!Top(t) = Last(calls[t]) /\ Len(calls[t]) > 0 /\ Last(calls[t]).pc = "asleep"
  BY DEF Library!At, Library!Top, Library!Depth, Last
<1>2. PICK f : f = Library!Top(t).held
  OBVIOUS
<1>3. flight[f].running
  BY <1>0, <1>1, <1>2 DEF SleeperFlights, Sleeps
<1>4. f \in Flights
  <2>1. PICK n : n = Len(calls[t])
    OBVIOUS
  <2>2. n \in 1..Len(calls[t]) /\ calls[t][n].pc = "asleep" /\ calls[t][n].held = f
    BY <1>0, <1>1, <1>2, <2>1, CallDepth DEF Last
  <2>3. f \in Flights \cup {None} /\ f # None
    BY <1>0, <2>2, CallFields DEF CallShape
  <2> QED BY <2>3
<1>5. PICK v \in Threads : \E i \in 1..Len(calls[v]) : Owns(calls, v, i, f)
  BY <1>0, <1>3, <1>4 DEF OwnerCalls
<1>6. PICK i \in 1..Len(calls[v]) : Owns(calls, v, i, f)
  BY <1>5
<1>7. flight[f].owner = v
  BY <1>0, <1>6 DEF OwnerCalls, Owns
<1>8. u = v
  BY <1>2, <1>7 DEF BlockedOn
<1>9. ~Library!At(v, "asleep")
  <2>1. ~Sleeps(calls, v)
    BY <1>0, <1>6 DEF CallShape, Owns
  <2> QED BY <2>1 DEF Sleeps, Last, Library!At, Library!Top, Library!Depth
<1>10. calls[v] # <<>>
  BY <1>0, <1>6, EmptyIs DEF CallStacks
<1>11. ~Outer!At(v, "asleep") /\ ~Outer!At(v, "draining")
  BY <1>10, NoCallAt
<1>12. BlockedOn(v) = {}
  BY <1>9, <1>11 DEF BlockedOn
<1> QED BY <1>2, <1>3, <1>8, <1>12

(* A thread that waits or drains in the outer layer sleeps in no call. *)
LEMMA OuterNotLibrary ==
  ASSUME StageInv, NEW t \in Threads, NEW pc, Outer!At(t, pc), pc # "compiling"
  PROVE  ~Library!At(t, "asleep")
<1>1. calls[t] = <<>>
  BY NoCallAt
<1>2. Len(calls[t]) = 0
  BY <1>1
<1> QED BY <1>2 DEF Library!At, Library!Depth

(* Who drains waits for threads that were woken and wait for nobody, and   *)
(* there is one.                                                           *)
LEMMA DrainingBlocked ==
  ASSUME StageInv, NEW t \in Threads, Outer!At(t, "draining")
  PROVE  BlockedOn(t) # {} /\ \A u \in BlockedOn(t) : BlockedOn(u) = {}
<1>0. /\ OuterInv /\ scopes \in Stacks /\ ScopeShape(scopes) /\ WaitTargets(scopes)
      /\ WaiterCounts(scopes)
  BY DEF StageInv, OuterInv, OuterOK
<1>1. PICK n : n = Len(scopes[t])
  OBVIOUS
<1>2. n \in Nat /\ n <= MaxDepth
  BY <1>0, <1>1 DEF Stacks, ScopeShape
<1>3. n > 0 /\ scopes[t][n].pc = "draining"
  BY <1>1 DEF Outer!At, Outer!Top, Outer!Depth
<1>4. n \in 1..Len(scopes[t]) /\ <<t, n>> \in Places(scopes)
      /\ Scope(scopes, <<t, n>>) = scopes[t][n]
  BY <1>1, <1>2, <1>3, DepthAssumption DEF Places, Addresses, Scope
<1>5. ~Library!At(t, "asleep") /\ ~Outer!At(t, "asleep")
  BY <1>1, <1>3, OuterNotLibrary DEF Outer!At, Outer!Top, Outer!Depth
<1>6. BlockedOn(t) = WaitersAt(scopes, <<t, n>>)
  <2>1. BlockedOn(t) = Outer!WaitersOf(Outer!Here(t))
    BY <1>5 DEF BlockedOn
  <2>2. Outer!Here(t) = <<t, n>>
    BY <1>1 DEF Outer!Here, Outer!Depth
  <2> QED BY <1>0, <2>1, <2>2, WaitersAre
<1>7. BlockedOn(t) # {}
  BY <1>0, <1>3, <1>4, <1>6 DEF WaiterCounts
<1>8. ~scopes[t][n].running
  BY <1>0, <1>3, <1>4 DEF ScopeShape
<1>9. ASSUME NEW u \in BlockedOn(t) PROVE BlockedOn(u) = {}
  <2>1. u \in Threads /\ Waits(scopes, u) /\ scopes[u][1].on = <<t, n>>
    BY <1>6 DEF WaitersAt
  <2>2. scopes[u][1].pc # "asleep"
    BY <1>0, <1>4, <1>8, <2>1 DEF WaitTargets
  <2>3. Len(scopes[u]) = 1 /\ scopes[u][1].pc = "awake"
    BY <2>1, <2>2 DEF Waits
  <2>4. Outer!At(u, "awake") /\ ~Outer!At(u, "asleep") /\ ~Outer!At(u, "draining")
    BY <2>3 DEF Outer!At, Outer!Top, Outer!Depth
  <2>5. ~Library!At(u, "asleep")
    BY <2>1, <2>4, OuterNotLibrary
  <2> QED BY <2>4, <2>5 DEF BlockedOn
<1> QED BY <1>7, <1>9

(* Who sleeps in the key hook waits for a thread that does not: an owner   *)
(* never waits for another key.                                            *)
LEMMA AsleepBlocked ==
  ASSUME StageInv, NEW t \in Threads, Outer!At(t, "asleep")
  PROVE  /\ Outer!Flight(Outer!Top(t).on).running
         /\ \A u \in BlockedOn(t) : u \in Threads /\ ~Outer!At(u, "asleep")
<1>0. OuterInv /\ scopes \in Stacks /\ ScopeShape(scopes) /\ WaitTargets(scopes)
  BY DEF StageInv, OuterInv, OuterOK
<1>1. Outer!Waiting(t) /\ Outer!Top(t).pc = "asleep"
  BY DEF Outer!At, Outer!Waiting
<1>2. Waits(scopes, t) /\ Outer!Top(t) = scopes[t][1]
  BY <1>0, <1>1, WaitingIs
<1>3. PICK a : a = scopes[t][1].on
  OBVIOUS
<1>4. a \in Places(scopes) /\ Scope(scopes, a).owned /\ Scope(scopes, a).running
  BY <1>0, <1>1, <1>2, <1>3 DEF WaitTargets
<1>5. PICK u \in Threads : \E i \in 1..Len(scopes[u]) : a = <<u, i>>
  BY <1>0, <1>4, PlaceIs
<1>6. PICK i \in 1..Len(scopes[u]) : a = <<u, i>>
  BY <1>5
<1>7. BlockedOn(t) = {u}
  <2>1. ~Library!At(t, "asleep")
    BY OuterNotLibrary
  <2> QED BY <1>2, <1>3, <1>6, <2>1 DEF BlockedOn
<1>8. ~Outer!At(u, "asleep")
  <2> SUFFICES ASSUME Outer!At(u, "asleep") PROVE FALSE
    OBVIOUS
  <2>1. Outer!Waiting(u)
    BY DEF Outer!At, Outer!Waiting
  <2>2. Waits(scopes, u)
    BY <1>0, <2>1, WaitingIs
  <2>3. Len(scopes[u]) = 1 /\ scopes[u][1].pc \in {"asleep", "awake"}
    BY <2>2 DEF Waits
  <2>4. i \in 1..1
    BY <1>6, <2>3
  <2>5. i = 1
    BY <2>4
  <2>6. scopes[u][1].owned
    BY <1>4, <1>6, <2>5 DEF Scope
  <2>7. ~scopes[u][1].owned
    BY <1>0, <2>3, <2>4, <2>5 DEF ScopeShape
  <2> QED BY <2>6, <2>7
<1> QED BY <1>2, <1>3, <1>4, <1>7, <1>8 DEF Outer!Flight, Scope

(* Chains of waiting threads are short: a sleeper of the outer layer, then *)
(* one that drains or sleeps in the library layer, then one that can move. *)
LEMMA ShortChains ==
  ASSUME StageInv, NEW t \in Threads, NEW u \in Threads, NEW w \in Threads,
         u \in BlockedOn(t), w \in BlockedOn(u)
  PROVE  BlockedOn(w) = {}
<1>1. ASSUME NEW v \in Threads, ~Outer!At(v, "asleep") \/ Library!At(v, "asleep"),
             NEW x \in BlockedOn(v)
      PROVE  BlockedOn(x) = {}
  <2>1. CASE Library!At(v, "asleep")
    BY <1>1, <2>1, SleeperBlocked
  <2>2. CASE ~Library!At(v, "asleep")
    <3>1. Outer!At(v, "draining")
      BY <1>1, <2>2 DEF BlockedOn
    <3> QED BY <1>1, <3>1, DrainingBlocked
  <2> QED BY <2>1, <2>2
<1>2. CASE ~Outer!At(t, "asleep") \/ Library!At(t, "asleep")
  <2>1. BlockedOn(u) = {}
    BY <1>1, <1>2
  <2> QED BY <2>1
<1>3. CASE Outer!At(t, "asleep")
  <2>1. ~Outer!At(u, "asleep")
    BY <1>3, AsleepBlocked
  <2> QED BY <1>1, <2>1
<1> QED BY <1>2, <1>3

(* The invariant contains NoStuckThread. *)
LEMMA NoStuckFromInv ==
  ASSUME StageInv
  PROVE  NoStuckThread
<1>1. ASSUME NEW t \in Threads, Library!At(t, "asleep")
      PROVE  flight[Library!Top(t).held].running
  <2>1. BlockedOn(t) = {flight[Library!Top(t).held].owner}
    BY <1>1 DEF BlockedOn
  <2>2. flight[Library!Top(t).held].owner \in BlockedOn(t)
    BY <2>1
  <2> QED BY <1>1, <2>2, SleeperBlocked
<1>2. ASSUME NEW t \in Threads, Outer!At(t, "asleep")
      PROVE  Outer!Flight(Outer!Top(t).on).running
  BY <1>2, AsleepBlocked
<1>3. ASSUME NEW t \in Threads, Outer!At(t, "draining")
      PROVE  BlockedOn(t) # {}
  BY <1>3, DrainingBlocked
<1>4. ASSUME NEW S \in (SUBSET Threads) \ {{}}, \A t \in S : BlockedOn(t) \cap S # {}
      PROVE  FALSE
  <2>1. PICK t \in S : TRUE
    OBVIOUS
  <2>2. PICK u \in S : u \in BlockedOn(t)
    BY <1>4
  <2>3. PICK w \in S : w \in BlockedOn(u)
    BY <1>4
  <2>4. BlockedOn(w) # {}
    BY <1>4
  <2>5. t \in Threads /\ u \in Threads /\ w \in Threads
    OBVIOUS
  <2> QED BY <2>2, <2>3, <2>4, <2>5, ShortChains
<1> QED BY <1>1, <1>2, <1>3, <1>4 DEF NoStuckThread

-----------------------------------------------------------------------------
(* No waiter in registerOuterKey touches a Flight whose frame is gone or   *)
(* was reused, because finish() drains its waiters: for any number of      *)
(* threads and keys and any nesting of compiles.                           *)
THEOREM FlightSafety == Spec => []FlightOutlivesWaiters
<1>1. StageInv => FlightOutlivesWaiters
  BY OutlivesFromInv DEF StageInv
<1> QED BY <1>1, StageInvariant, PTL

(* At any time at most one compile of a stage key runs as its owner, also  *)
(* when the waiters of a failed owner contend for the retry, and           *)
(* gOuterFlights lists exactly the running owners.                         *)
THEOREM KeyOwnership == Spec => []OneOwnerPerKey
<1>1. StageInv => OneOwnerPerKey
  BY OneOwnerFromInv DEF StageInv
<1> QED BY <1>1, StageInvariant, PTL

(* At any time at most one thread runs original() as the owner for a stage *)
(* result, across failures and takeovers, and its Flight names it.         *)
THEOREM ResultOwnership == Spec => []OneOwnerPerResult
<1>1. StageInv => OneOwnerPerResult
  BY OneResultFromInv DEF StageInv
<1> QED BY <1>1, StageInvariant, PTL

(* A library Flight that a failure leaves in gLibraryFlights always has a  *)
(* waiter that was woken to take it over, and waiters is exact.            *)
THEOREM RegistryDrains == Spec => []RegisteredHasFuture
<1>1. StageInv => RegisteredHasFuture
  BY FutureFromInv DEF StageInv
<1> QED BY <1>1, StageInvariant, PTL

(* No thread is stuck across the two layers, although each looks for       *)
(* cycles in its own calls only: the depth tests of registerOuterKey and   *)
(* getAndRetainLibrarySingleFlight keep the chains of waits short.         *)
THEOREM DeadlockFreedom == Spec => []NoStuckThread
<1>1. StageInv => NoStuckThread
  BY NoStuckFromInv
<1> QED BY <1>1, StageInvariant, PTL
=============================================================================
