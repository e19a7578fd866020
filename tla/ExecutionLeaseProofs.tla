------------------------ MODULE ExecutionLeaseProofs ------------------------
(***************************************************************************)
(* Proofs about ExecutionLease, for any number of workers, owners, buffers *)
(* and slots: leases outlive the GPU work, gPending holds no expired       *)
(* reference, and a commit leaves none of its slots behind in it.          *)
(*                                                                         *)
(* The inductive invariant LeaseInv says where a slot can be: referred to  *)
(* by the one buffer it was reserved for, by one commit, or retiring.      *)
(***************************************************************************)
EXTENDS ExecutionLease, FiniteSetTheorems, WellFoundedInduction, TLAPS

-----------------------------------------------------------------------------
(* The library gives induction as well-foundedness of < only; that is      *)
(* enough for the least member of a set, and so for induction over a set.  *)
LEMMA Least ==
  ASSUME NEW T \in SUBSET Nat, T # {}
  PROVE  \E x \in T : \A y \in T : x <= y
<1>1. PICK x \in T : \A y \in T : <<y, x>> \notin OpToRel(<, Nat)
  BY WFMin, NatLessThanWellFounded, Zenon
<1>2. \A y \in T : ~(y < x)
  <2> SUFFICES ASSUME NEW y \in T, y < x PROVE FALSE
    OBVIOUS
  <2>1. <<y, x>> \in OpToRel(<, Nat)
    BY Zenon DEF OpToRel
  <2> QED BY <1>1, <2>1, Zenon
<1> QED BY <1>2

(* Induction, for a set of naturals. *)
LEMMA Induct ==
  ASSUME NEW T \in SUBSET Nat, 0 \in T, \A n \in T : n + 1 \in T
  PROVE  T = Nat
<1> SUFFICES ASSUME Nat \ T # {} PROVE FALSE
  OBVIOUS
<1>1. PICK x \in Nat \ T : \A y \in Nat \ T : x <= y
  BY Least
<1>2. x - 1 \in Nat /\ x - 1 \in T
  BY <1>1
<1> QED BY <1>1, <1>2

Occurs(q, x) == \E i \in 1..Len(q) : q[i] = x
Distinct(q) == \A i, j \in 1..Len(q) : q[i] = q[j] => i = j

(* What std::erase_if leaves: every reference that is not dead, once if it *)
(* was there once.                                                         *)
LEMMA ErasedFacts ==
  ASSUME NEW S, NEW q \in Seq(S), NEW dead
  PROVE  /\ Erased(q, dead) \in Seq(S)
         /\ \A x : Occurs(Erased(q, dead), x) <=> Occurs(q, x) /\ x \notin dead
         /\ Distinct(q) => Distinct(Erased(q, dead))
<1> DEFINE n == Len(q)
           Pass(f, i) == IF i = 0 THEN <<>>
                         ELSE IF q[i] \in dead THEN f[i - 1] ELSE Append(f[i - 1], q[i])
           Good(f, m) == f \in [0..m -> Seq(S)] /\ \A i \in 0..m : f[i] = Pass(f, i)
           left == CHOOSE f : f = [i \in 0..n |-> Pass(f, i)]
<1> HIDE DEF Good
<1>1. n \in Nat /\ \A i \in 1..n : q[i] \in S
  OBVIOUS
<1>2. \E f : Good(f, n)
  <2> DEFINE T == {m \in Nat : m <= n => \E f : Good(f, m)}
  <2>1. 0 \in T
    <3>1. Good([i \in 0..0 |-> <<>>], 0)
      BY DEF Good
    <3> QED BY <3>1
  <2>2. ASSUME NEW m \in T PROVE m + 1 \in T
    <3>0. m \in Nat /\ (m <= n => \E f : Good(f, m))
      BY <2>2
    <3> SUFFICES ASSUME m + 1 <= n PROVE \E f : Good(f, m + 1)
      BY <3>0
    <3>5. \E f : Good(f, m)
      BY <1>1, <3>0
    <3>6. PICK f : Good(f, m)
      BY <3>5
    <3>1. f \in [0..m -> Seq(S)] /\ \A i \in 0..m : f[i] = Pass(f, i)
      BY <3>6 DEF Good
    <3> DEFINE g == [i \in 0..(m + 1) |-> IF i <= m THEN f[i] ELSE Pass(f, i)]
    <3>2. Pass(f, m + 1) \in Seq(S)
      <4>1. f[m] \in Seq(S) /\ q[m + 1] \in S
        BY <1>1, <3>0, <3>1
      <4> QED BY <3>0, <4>1
    <3>3. g \in [0..(m + 1) -> Seq(S)]
      <4>1. ASSUME NEW i \in 0..(m + 1)
            PROVE  (IF i <= m THEN f[i] ELSE Pass(f, i)) \in Seq(S)
        <5>1. CASE i <= m
          BY <3>0, <3>1, <5>1
        <5>2. CASE i = m + 1
          <6> HIDE DEF Pass
          <6> QED BY <3>0, <3>2, <5>2
        <5> QED BY <3>0, <5>1, <5>2
      <4> HIDE DEF Pass
      <4> QED BY <4>1
    <3>4. ASSUME NEW i \in 0..(m + 1) PROVE g[i] = Pass(g, i)
      <4>1. CASE i = 0
        BY <3>0, <3>1, <4>1
      <4>2. CASE i # 0
        <5>1. g[i] = Pass(f, i)
          <6> HIDE DEF Pass
          <6>1. g[i] = IF i <= m THEN f[i] ELSE Pass(f, i)
            OBVIOUS
          <6>2. i <= m => i \in 0..m
            BY <3>0
          <6> QED BY <3>1, <6>1, <6>2
        <5>2. g[i - 1] = f[i - 1]
          BY <3>0, <4>2
        <5> QED BY <4>2, <5>1, <5>2
      <4> QED BY <4>1, <4>2
    <3>7. Good(g, m + 1)
      <4> HIDE DEF g, Pass
      <4> QED BY <3>3, <3>4 DEF Good
    <3> QED BY <3>7
  <2>3. T = Nat
    <3> HIDE DEF T
    <3>1. T \in SUBSET Nat
      BY DEF T
    <3> QED BY <2>1, <2>2, <3>1, Induct
  <2> QED BY <1>1, <2>3
<1>3. left = [i \in 0..n |-> Pass(left, i)]
  <2>1. PICK f : Good(f, n)
    BY <1>2
  <2>2. f = [i \in 0..n |-> Pass(f, i)]
    BY <2>1 DEF Good
  <2> QED BY <2>2
<1>4. Erased(q, dead) = left[n]
  BY DEF Erased
<1> HIDE DEF left
<1>5. \A i \in 0..n : left[i] = Pass(left, i)
  BY <1>3
<1> DEFINE Right(m) ==
             /\ left[m] \in Seq(S)
             /\ \A x : Occurs(left[m], x) <=> \E i \in 1..m : q[i] = x /\ x \notin dead
             /\ Distinct(q) => Distinct(left[m])
<1>6. Right(n)
  <2> DEFINE T == {m \in Nat : m <= n => Right(m)}
  <2>1. 0 \in T
    <3>1. left[0] = <<>>
      BY <1>1, <1>5
    <3>2. Right(0)
      BY <3>1 DEF Occurs, Distinct
    <3> HIDE DEF Right
    <3> QED BY <3>2
  <2>2. ASSUME NEW m \in T PROVE m + 1 \in T
    <3>0. m \in Nat /\ (m <= n => Right(m))
      <4> HIDE DEF Right
      <4> QED BY <2>2
    <3> SUFFICES ASSUME m + 1 <= n PROVE Right(m + 1)
      <4> HIDE DEF Right
      <4> QED BY <3>0
    <3>1. /\ left[m] \in Seq(S) /\ q[m + 1] \in S /\ m \in Nat
          /\ \A x : Occurs(left[m], x) <=> \E i \in 1..m : q[i] = x /\ x \notin dead
          /\ Distinct(q) => Distinct(left[m])
      BY <1>1, <3>0
    <3>2. left[m + 1] = IF q[m + 1] \in dead THEN left[m] ELSE Append(left[m], q[m + 1])
      <4>1. m + 1 \in 0..n /\ (m + 1) - 1 = m
        BY <1>1
      <4> QED BY <1>5, <4>1
    <3> DEFINE a == left[m]
               c == left[m + 1]
    <3> HIDE DEF a, c
    <3>3. CASE q[m + 1] \in dead
      <4>1. c = a
        BY <3>2, <3>3 DEF a, c
      <4>2. \A x : (\E i \in 1..(m + 1) : q[i] = x /\ x \notin dead) <=>
                   (\E i \in 1..m : q[i] = x /\ x \notin dead)
        BY <3>1, <3>3
      <4> QED BY <3>1, <4>1, <4>2 DEF a, c
    <3>4. CASE q[m + 1] \notin dead
      <4>1. /\ c \in Seq(S) /\ Len(c) = Len(a) + 1 /\ Len(a) \in Nat
            /\ c[Len(a) + 1] = q[m + 1]
            /\ \A i \in 1..Len(a) : c[i] = a[i]
        BY <3>1, <3>2, <3>4 DEF a, c
      <4>2. \A x : Occurs(c, x) <=> Occurs(a, x) \/ x = q[m + 1]
        BY <4>1 DEF Occurs
      <4>3. \A x : (\E i \in 1..(m + 1) : q[i] = x /\ x \notin dead) <=>
                   (\E i \in 1..m : q[i] = x /\ x \notin dead) \/ x = q[m + 1]
        BY <3>1, <3>4
      <4>4. ASSUME Distinct(q) PROVE Distinct(c)
        <5>1. ~Occurs(a, q[m + 1])
          <6>1. \A i \in 1..m : q[i] # q[m + 1]
            BY <1>1, <3>1, <4>4 DEF Distinct
          <6> QED BY <3>1, <6>1 DEF a
        <5>2. Distinct(a)
          BY <3>1, <4>4 DEF a
        <5> QED BY <4>1, <5>1, <5>2 DEF Distinct, Occurs
      <4> QED BY <3>1, <4>1, <4>2, <4>3, <4>4 DEF a, c
    <3> QED BY <3>3, <3>4
  <2>3. T = Nat
    <3> HIDE DEF T
    <3>1. T \in SUBSET Nat
      BY DEF T
    <3> QED BY <2>1, <2>2, <3>1, Induct
  <2> HIDE DEF Right
  <2>4. n \in T
    BY <1>1, <2>3
  <2> QED BY <1>1, <2>4
<1> QED BY <1>4, <1>6 DEF Occurs

-----------------------------------------------------------------------------
(* The slots that the encoding or the commit of buffer b still refers to. *)
Uses(b, s) ==
  \/ s \in buffer[b].work \cup buffer[b].handlers
  \/ buffer[b].held = s
  \/ s \in Pending(b)
  \/ \E w \in Workers : worker[w] # None /\ worker[w].buffer = b /\ worker[w].slot = s

(* The slots that commit c still refers to. *)
Runs(c, s) == s \in c.handlers \/ (~c.done /\ s \in c.work)

Stored(s) == slot[s].owner # None /\ s \in store[slot[s].owner]

(* A slot is referred to by one buffer, or by one commit, or is retiring. *)
PlaceInv ==
  /\ \A b \in Buffers, s \in Slots : Uses(b, s) =>
       /\ slot[s].buffer = b
       /\ s \notin retiring
       /\ \A c \in inflight : ~Runs(c, s)
  /\ \A s \in Slots, c \in inflight : Runs(c, s) =>
       /\ s \notin retiring
       /\ \A d \in inflight : Runs(d, s) => d = c

(* Slots of work that is not yet done are in the store of their owner. *)
StoreInv ==
  /\ \A o \in Owners : \A s \in store[o] : slot[s].owner = o
  /\ \A b \in Buffers : \A s \in buffer[b].work : Stored(s) /\ slot[s].lease
  /\ \A b \in Buffers : \A s \in Pending(b) : Stored(s)
  /\ \A c \in inflight : ~c.done => \A s \in c.work : Stored(s) /\ slot[s].lease

ReplayInv ==
  \A w \in Workers : worker[w] # None =>
    /\ slot[worker[w].slot].owner = worker[w].owner
    /\ worker[w].slot \in store[worker[w].owner]
    /\ buffer[worker[w].buffer].pc = "open"
    /\ buffer[worker[w].buffer].transport = "legacy" =>
         worker[w].slot \notin Pending(worker[w].buffer)

BufferInv ==
  \A b \in Buffers :
    /\ buffer[b].pc = "idle" => buffer[b].work = {} /\ buffer[b].handlers = {}
    /\ buffer[b].held # None => buffer[b].pc = "committing"
    /\ buffer[b].held \notin Pending(b)
    /\ buffer[b].handlers \cap Pending(b) = {}
    /\ buffer[b].transport = "legacy" => buffer[b].work \cap Pending(b) = {}

PendingInv ==
  \A b \in Buffers :
    /\ \A i, j \in 1..Len(pending[b]) : pending[b][i] = pending[b][j] => i = j
    /\ pending[b] # <<>> => nonempty

LeaseInv == PlaceInv /\ StoreInv /\ ReplayInv /\ BufferInv /\ PendingInv

-----------------------------------------------------------------------------
(* Types. *)

(* The slots that survive a step are as they were. *)
LEMMA KeptFacts ==
  ASSUME NEW slots \in [Slots -> Slot], slot' = Kept(slots)
  PROVE  /\ slot' \in [Slots -> Slot]
         /\ \A s \in Slots : Allocated(s)' => slot'[s] = slots[s]
BY DEF Kept, FreeSlot, Slot

(* What becomes of a buffer, field by field. *)
Becomes(b, pc, transport, work, held, handlers) ==
  /\ buffer' \in [Buffers -> Buffer]
  /\ buffer'[b].pc = pc /\ buffer'[b].transport = transport
  /\ buffer'[b].work = work /\ buffer'[b].held = held
  /\ buffer'[b].handlers = handlers
  /\ \A c \in Buffers : c # b => buffer'[c] = buffer[c]

(* The fields of a buffer have their types. *)
LEMMA BufferFields ==
  ASSUME TypeOK, NEW b \in Buffers
  PROVE  /\ buffer[b].pc \in {"idle", "open", "committing"}
         /\ buffer[b].transport \in Transports \cup {None}
         /\ buffer[b].work \subseteq Slots /\ buffer[b].handlers \subseteq Slots
         /\ buffer[b].held \in Slots \cup {None}
         /\ pending[b] \in Seq(Slots) /\ Len(pending[b]) \in Nat
BY DEF TypeOK, Buffer

(* So do those of a replay. *)
LEMMA ReplayFields ==
  ASSUME TypeOK, NEW w \in Workers, worker[w] # None
  PROVE  /\ worker[w].owner \in Owners /\ worker[w].buffer \in Buffers
         /\ worker[w].slot \in Slots
BY DEF TypeOK, Replay

(* The operations on a buffer. *)
LEMMA OpenEffect ==
  ASSUME TypeOK, NEW b \in Buffers, NEW transport \in Transports, Open(b, transport)
  PROVE  Becomes(b, "open", transport, buffer[b].work, buffer[b].held, buffer[b].handlers)
BY DEF Open, Becomes, TypeOK, Buffer

(* Encoding appends GPU work. *)
LEMMA EncodeEffect ==
  ASSUME TypeOK, NEW w \in Workers, Encode(w), NEW b \in Buffers, worker[w].buffer = b
  PROVE  Becomes(b, buffer[b].pc, buffer[b].transport, buffer[b].work \cup {worker[w].slot},
                 buffer[b].held, buffer[b].handlers)
<1>1. worker[w] # None /\ worker[w].slot \in Slots
  BY ReplayFields DEF Encode
<1> QED BY <1>1 DEF Encode, Becomes, TypeOK, Buffer

(* A handler captures the held slot, or not. *)
LEMMA AddHandlerEffect ==
  ASSUME TypeOK, NEW b \in Buffers, NEW ok \in BOOLEAN, AddHandler(b, ok)
  PROVE  Becomes(b, buffer[b].pc, buffer[b].transport, buffer[b].work, None,
                 IF ok THEN buffer[b].handlers \cup {buffer[b].held} ELSE buffer[b].handlers)
<1>1. buffer[b].held \in Slots
  BY BufferFields DEF AddHandler
<1> QED BY <1>1 DEF AddHandler, Becomes, TypeOK, Buffer

(* A commit begins. *)
LEMMA CommittingEffect ==
  ASSUME TypeOK, NEW b \in Buffers, buffer' = [buffer EXCEPT ![b].pc = "committing"]
  PROVE  Becomes(b, "committing", buffer[b].transport, buffer[b].work, buffer[b].held,
                 buffer[b].handlers)
BY DEF Becomes, TypeOK, Buffer

(* A commit takes a slot from gPending. *)
LEMMA HoldEffect ==
  ASSUME TypeOK, NEW b \in Buffers, NEW s \in Slots \cup {None}, buffer' = [buffer EXCEPT ![b].held = s]
  PROVE  Becomes(b, buffer[b].pc, buffer[b].transport, buffer[b].work, s,
                 buffer[b].handlers)
BY DEF Becomes, TypeOK, Buffer

(* A legacy buffer gets a completion handler. *)
LEMMA LegacyEffect ==
  ASSUME TypeOK, NEW b \in Buffers, NEW hs \in SUBSET Slots,
     buffer' = [buffer EXCEPT ![b].handlers = hs]
  PROVE  Becomes(b, buffer[b].pc, buffer[b].transport, buffer[b].work, buffer[b].held, hs)
BY DEF Becomes, TypeOK, Buffer

(* A buffer is committed or dropped. *)
LEMMA IdleEffect ==
  ASSUME TypeOK, NEW b \in Buffers, buffer' = [buffer EXCEPT ![b] = IdleBuffer]
  PROVE  Becomes(b, "idle", None, {}, None, {})
BY DEF Becomes, TypeOK, Buffer, IdleBuffer

(* A commit in flight is built from the buffer. *)
Batch(b) == [work |-> buffer[b].work, handlers |-> buffer[b].handlers, done |-> FALSE]

LEMMA SubmittedFacts ==
  ASSUME TypeOK, NEW b \in Buffers
  PROVE  /\ Batch(b) \in Commit
         /\ Submitted(b) \subseteq inflight \cup {Batch(b)}
         /\ Submitted(b) \subseteq Commit
<1>1. Batch(b) \in Commit
  BY BufferFields DEF Batch, Commit
<1>2. Submitted(b) \subseteq inflight \cup {Batch(b)}
  BY DEF Submitted, Batch
<1> QED BY <1>1, <1>2 DEF TypeOK

(* Steps of workers keep the types. *)
LEMMA WorkerType ==
  ASSUME TypeOK, NEW w \in Workers,
         \/ \E o \in Owners, b \in Buffers :
              Reserve(w, o, b) \/ \E ok \in BOOLEAN : ReserveLegacy(w, o, b, ok)
         \/ Encode(w) \/ EncodeNothing(w)
  PROVE  TypeOK'
<1>1. CASE Encode(w)
  <2>1. worker[w] # None /\ worker[w].slot \in Slots /\ worker[w].buffer \in Buffers
    BY <1>1, ReplayFields DEF Encode
  <2>2. buffer' \in [Buffers -> Buffer]
    BY <1>1, <2>1, EncodeEffect DEF Becomes
  <2>3. slot' \in [Slots -> Slot]
    BY <1>1, <2>1 DEF Encode, TypeOK, Slot
  <2>4. worker' \in [Workers -> Replay]
    BY <1>1 DEF Encode, TypeOK, Replay
  <2> QED BY <1>1, <2>2, <2>3, <2>4 DEF Encode, TypeOK
<1>2. CASE EncodeNothing(w)
  BY <1>2 DEF EncodeNothing, TypeOK, Replay
<1>3. ASSUME NEW o \in Owners, NEW b \in Buffers, Reserve(w, o, b)
      PROVE  TypeOK'
  <2>1. PICK s \in Slots :
          /\ slot' = [slot EXCEPT ![s] = [owner |-> o, buffer |-> b, lease |-> FALSE]]
          /\ store' = [store EXCEPT ![o] = @ \cup {s}]
          /\ pending' = [pending EXCEPT ![b] = Append(@, s)]
          /\ worker' = [worker EXCEPT ![w] = [owner |-> o, buffer |-> b, slot |-> s]]
    BY <1>3 DEF Reserve
  <2>2. slot' \in [Slots -> Slot] /\ worker' \in [Workers -> Replay]
    BY <2>1 DEF TypeOK, Slot, Replay
  <2>3. pending' \in [Buffers -> Seq(Slots)] /\ store' \in [Owners -> SUBSET Slots]
    BY <2>1 DEF TypeOK
  <2> QED BY <1>3, <2>2, <2>3 DEF Reserve, TypeOK
<1>4. ASSUME NEW o \in Owners, NEW b \in Buffers, NEW ok \in BOOLEAN,
             ReserveLegacy(w, o, b, ok)
      PROVE  TypeOK'
  <2>1. PICK s \in Slots :
          /\ slot' = [slot EXCEPT ![s] = [owner |-> o, buffer |-> b, lease |-> FALSE]]
          /\ store' = [store EXCEPT ![o] = @ \cup {s}]
          /\ worker' = [worker EXCEPT ![w] = [owner |-> o, buffer |-> b, slot |-> s]]
          /\ buffer' = [buffer EXCEPT ![b].handlers = IF ok THEN @ \cup {s} ELSE @]
    BY <1>4 DEF ReserveLegacy
  <2>2. slot' \in [Slots -> Slot] /\ worker' \in [Workers -> Replay]
    BY <2>1 DEF TypeOK, Slot, Replay
  <2>3. store' \in [Owners -> SUBSET Slots]
    BY <2>1 DEF TypeOK
  <2> DEFINE hs == IF ok THEN buffer[b].handlers \cup {s} ELSE buffer[b].handlers
  <2>4. hs \in SUBSET Slots /\ buffer' = [buffer EXCEPT ![b].handlers = hs]
    BY <2>1, BufferFields
  <2> HIDE DEF hs
  <2>5. buffer' \in [Buffers -> Buffer]
    BY <2>4, LegacyEffect DEF Becomes
  <2> QED BY <1>4, <2>2, <2>3, <2>5 DEF ReserveLegacy, TypeOK
<1> QED BY <1>1, <1>2, <1>3, <1>4

(* Taking the last reference from gPending. *)
Last(b) == pending[b][Len(pending[b])]
LEMMA PopEffect ==
  ASSUME TypeOK, NEW b \in Buffers, CommitPop(b)
  PROVE  /\ Len(pending[b]) > 0 /\ Last(b) \in Slots
         /\ pending' \in [Buffers -> Seq(Slots)]
         /\ Len(pending'[b]) = Len(pending[b]) - 1
         /\ \A i \in 1..(Len(pending[b]) - 1) : pending'[b][i] = pending[b][i]
         /\ \A c \in Buffers : c # b => pending'[c] = pending[c]
         /\ nonempty' \in BOOLEAN
         /\ nonempty /\ (\E c \in Buffers : pending'[c] # <<>>) => nonempty'
         /\ Becomes(b, buffer[b].pc, buffer[b].transport, buffer[b].work,
                    IF Allocated(Last(b)) THEN Last(b) ELSE None, buffer[b].handlers)
<1> DEFINE n == Len(pending[b])
           rest == [pending EXCEPT ![b] = SubSeq(@, 1, n - 1)]
           held == IF Allocated(Last(b)) THEN Last(b) ELSE None
<1>1. pending[b] \in Seq(Slots) /\ n \in Nat /\ n > 0 /\ Last(b) \in Slots
  BY DEF CommitPop, TypeOK, Last
<1>2. /\ rest \in [Buffers -> Seq(Slots)] /\ Len(rest[b]) = n - 1
      /\ \A i \in 1..(n - 1) : rest[b][i] = pending[b][i]
      /\ \A c \in Buffers : c # b => rest[c] = pending[c]
  <2>1. SubSeq(pending[b], 1, n - 1) \in Seq(Slots)
    BY <1>1
  <2>2. /\ Len(SubSeq(pending[b], 1, n - 1)) = n - 1
        /\ \A i \in 1..(n - 1) : SubSeq(pending[b], 1, n - 1)[i] = pending[b][i]
    BY <1>1
  <2> QED BY <2>1, <2>2 DEF TypeOK
<1>3. pending' = rest /\ nonempty' = FlagAfterPop(b, rest)
  BY DEF CommitPop
<1>4. buffer' = [buffer EXCEPT ![b].held = held]
  BY DEF CommitPop, Last
<1>5. held \in Slots \cup {None}
  BY <1>1
<1> HIDE DEF rest, held
<1>6. Becomes(b, buffer[b].pc, buffer[b].transport, buffer[b].work, held, buffer[b].handlers)
  BY <1>4, <1>5, HoldEffect
<1>7. /\ nonempty' \in BOOLEAN
      /\ nonempty /\ (\E c \in Buffers : pending'[c] # <<>>) => nonempty'
  BY <1>3 DEF FlagAfterPop, AllEmpty
<1> QED BY <1>1, <1>2, <1>3, <1>6, <1>7 DEF held

(* Commits keep the types. *)
LEMMA CommitType ==
  ASSUME TypeOK, NEW b \in Buffers,
         \/ \E transport \in Transports : Open(b, transport)
         \/ Abandon(b) \/ CommitBegin(b) \/ CommitStep(b)
  PROVE  TypeOK'
<1>0. slot \in [Slots -> Slot]
  BY DEF TypeOK
<1>1. ASSUME NEW transport \in Transports, Open(b, transport) PROVE TypeOK'
  <2>1. buffer' \in [Buffers -> Buffer]
    BY <1>1, OpenEffect DEF Becomes
  <2> QED BY <1>1, <2>1 DEF Open, TypeOK
<1>2. CASE Abandon(b)
  <2>1. slot' \in [Slots -> Slot]
    BY <1>0, <1>2, KeptFacts DEF Abandon
  <2>2. buffer' \in [Buffers -> Buffer]
    BY <1>2, IdleEffect DEF Abandon, Becomes
  <2> QED BY <1>2, <2>1, <2>2 DEF Abandon, TypeOK
<1>3. CASE CommitBegin(b)
  <2>1. buffer' \in [Buffers -> Buffer]
    BY <1>3, IdleEffect, CommittingEffect DEF CommitBegin, Becomes
  <2>2. inflight' \subseteq Commit
    BY <1>3, SubmittedFacts DEF CommitBegin, TypeOK
  <2> QED BY <1>3, <2>1, <2>2 DEF CommitBegin, TypeOK
<1>4. CASE CommitPop(b)
  <2>1. /\ pending' \in [Buffers -> Seq(Slots)] /\ nonempty' \in BOOLEAN
        /\ buffer' \in [Buffers -> Buffer]
    BY <1>4, PopEffect DEF Becomes
  <2> QED BY <1>4, <2>1 DEF CommitPop, TypeOK
<1>5. ASSUME NEW ok \in BOOLEAN, AddHandler(b, ok) PROVE TypeOK'
  <2>1. slot' \in [Slots -> Slot]
    BY <1>0, <1>5, KeptFacts DEF AddHandler
  <2>2. buffer' \in [Buffers -> Buffer]
    BY <1>5, AddHandlerEffect DEF Becomes
  <2> QED BY <1>5, <2>1, <2>2 DEF AddHandler, TypeOK
<1>6. CASE NativeCommit(b)
  <2>1. buffer' \in [Buffers -> Buffer] /\ inflight' \subseteq Commit
    BY <1>6, IdleEffect, SubmittedFacts DEF NativeCommit, Becomes
  <2> QED BY <1>6, <2>1 DEF NativeCommit, TypeOK
<1> QED BY <1>1, <1>2, <1>3, <1>4, <1>5, <1>6 DEF CommitStep

(* The GPU is done with a commit. *)
Finished(c) == [c EXCEPT !.done = TRUE]
LEMMA GpuDoneFacts ==
  ASSUME TypeOK, NEW c \in inflight, GpuDone(c)
  PROVE  /\ Finished(c) \in Commit /\ Finished(c).done
         /\ Finished(c).handlers = c.handlers
         /\ inflight' \subseteq (inflight \ {c}) \cup {Finished(c)}
         /\ inflight' \subseteq Commit
<1>1. c \in Commit
  BY DEF TypeOK
<1>2. /\ [c EXCEPT !.done = TRUE] \in Commit
      /\ [c EXCEPT !.done = TRUE].done = TRUE
      /\ [c EXCEPT !.done = TRUE].handlers = c.handlers
  BY <1>1 DEF Commit
<1>3. inflight' \subseteq (inflight \ {c}) \cup {Finished(c)}
  BY DEF GpuDone, Finished
<1> QED BY <1>2, <1>3 DEF Finished, TypeOK

(* A handler of a commit runs. *)
Handled(c, s) == [c EXCEPT !.handlers = @ \ {s}]
LEMMA FeedbackFacts ==
  ASSUME TypeOK, NEW c \in inflight, NEW s \in Slots, Feedback(c, s)
  PROVE  /\ c.done /\ s \in c.handlers
         /\ Handled(c, s) \in Commit /\ Handled(c, s).done
         /\ Handled(c, s).handlers = c.handlers \ {s}
         /\ inflight' \subseteq (inflight \ {c}) \cup {Handled(c, s)}
         /\ inflight' \subseteq Commit
         /\ slot' \in [Slots -> Slot]
         /\ \A z \in Slots : slot'[z].owner = slot[z].owner /\ slot'[z].buffer = slot[z].buffer
         /\ \A z \in Slots : z # s => slot'[z].lease = slot[z].lease
<1>1. c \in Commit /\ c.done /\ s \in c.handlers
  BY DEF TypeOK, Feedback, FeedbackReady
<1>2. /\ [c EXCEPT !.handlers = @ \ {s}] \in Commit
      /\ [c EXCEPT !.handlers = @ \ {s}].done = c.done
      /\ [c EXCEPT !.handlers = @ \ {s}].handlers = c.handlers \ {s}
  BY <1>1 DEF Commit
<1>3. inflight' \subseteq (inflight \ {c}) \cup {Handled(c, s)}
  BY DEF Feedback, Handled
<1>4. slot' = [slot EXCEPT ![s].lease = FALSE]
  BY DEF Feedback
<1>5. slot' \in [Slots -> Slot]
  BY <1>4 DEF TypeOK, Slot
<1>6. \A z \in Slots : z # s => slot'[z] = slot[z]
  BY <1>4 DEF TypeOK
<1>7. slot'[s].owner = slot[s].owner /\ slot'[s].buffer = slot[s].buffer
  BY <1>4 DEF TypeOK, Slot
<1> QED BY <1>1, <1>2, <1>3, <1>5, <1>6, <1>7 DEF Handled, TypeOK

(* An owner dies: its slots leave gPending, and forget it. *)
Orphaned(o) ==
  [s \in Slots |-> IF slot[s].owner = o THEN [slot[s] EXCEPT !.owner = None] ELSE slot[s]]

LEMMA ResetEffect ==
  ASSUME TypeOK, NEW o \in Owners, Reset(o)
  PROVE  /\ pending' \in [Buffers -> Seq(Slots)]
         /\ \A b \in Buffers, s \in Slots : Occurs(pending'[b], s) =>
              Occurs(pending[b], s) /\ ~(s \in store[o] /\ slot[s].buffer = b)
         /\ \A b \in Buffers : Distinct(pending[b]) => Distinct(pending'[b])
         /\ Orphaned(o) \in [Slots -> Slot]
         /\ \A s \in Slots : Orphaned(o)[s].buffer = slot[s].buffer
         /\ \A s \in Slots : slot[s].owner # o => Orphaned(o)[s] = slot[s]
         /\ slot' = Kept(Orphaned(o))
<1>1. ASSUME NEW b \in Buffers
      PROVE  /\ pending'[b] \in Seq(Slots)
             /\ \A s \in Slots : Occurs(pending'[b], s) =>
                  Occurs(pending[b], s) /\ ~(s \in store[o] /\ slot[s].buffer = b)
             /\ Distinct(pending[b]) => Distinct(pending'[b])
  <2> DEFINE mine == {s \in store[o] : slot[s].buffer = b}
             dead == {s \in Slots : ~Allocated(s)} \cup mine
  <2>1. pending'[b] = IF mine = {} THEN pending[b] ELSE Erased(pending[b], dead)
    BY DEF Reset, Unregistered
  <2>2. pending[b] \in Seq(Slots)
    BY DEF TypeOK
  <2>3. CASE mine = {}
    BY <2>1, <2>2, <2>3
  <2>4. CASE mine # {}
    <3>1. pending'[b] = Erased(pending[b], dead)
      BY <2>1, <2>4
    <3>2. \A s : s \in mine => s \in dead
      OBVIOUS
    <3> HIDE DEF dead
    <3>3. /\ Erased(pending[b], dead) \in Seq(Slots)
          /\ \A x : Occurs(Erased(pending[b], dead), x) <=>
               Occurs(pending[b], x) /\ x \notin dead
          /\ Distinct(pending[b]) => Distinct(Erased(pending[b], dead))
      BY <2>2, ErasedFacts
    <3> QED BY <3>1, <3>2, <3>3
  <2> QED BY <2>3, <2>4
<1>2. pending' \in [Buffers -> Seq(Slots)]
  <2>1. pending' = Unregistered(store[o])
    BY DEF Reset
  <2>2. pending' = [b \in Buffers |-> pending'[b]]
    BY <2>1 DEF Unregistered
  <2> QED BY <1>1, <2>2
<1>3. /\ Orphaned(o) \in [Slots -> Slot]
      /\ \A s \in Slots : Orphaned(o)[s].buffer = slot[s].buffer
      /\ \A s \in Slots : slot[s].owner # o => Orphaned(o)[s] = slot[s]
  <2>1. ASSUME NEW s \in Slots
        PROVE  [slot[s] EXCEPT !.owner = None] \in Slot
               /\ [slot[s] EXCEPT !.owner = None].buffer = slot[s].buffer
    BY DEF TypeOK, Slot
  <2>2. slot \in [Slots -> Slot]
    BY DEF TypeOK
  <2> QED BY <2>1, <2>2 DEF Orphaned
<1>4. slot' = Kept(Orphaned(o))
  BY DEF Reset, Orphaned
<1> QED BY <1>1, <1>2, <1>3, <1>4

LEMMA TypeStep == TypeOK /\ [Next]_vars => TypeOK'
<1> SUFFICES ASSUME TypeOK, [Next]_vars PROVE TypeOK'
  OBVIOUS
<1>1. ASSUME NEW o \in Owners, NEW transport \in Transports, Record(o, transport)
      PROVE  TypeOK'
  BY <1>1 DEF Record, TypeOK
<1>2. ASSUME NEW o \in Owners, Reset(o) PROVE TypeOK'
  <2>1. slot' \in [Slots -> Slot] /\ pending' \in [Buffers -> Seq(Slots)]
    BY <1>2, ResetEffect, KeptFacts
  <2>2. nonempty' \in BOOLEAN
    BY <1>2 DEF Reset
  <2> QED BY <1>2, <2>1, <2>2 DEF Reset, TypeOK
<1>3. ASSUME NEW c \in inflight, GpuDone(c) PROVE TypeOK'
  <2>1. inflight' \subseteq Commit
    BY <1>3, GpuDoneFacts
  <2> QED BY <1>3, <2>1 DEF GpuDone, TypeOK
<1>4. ASSUME NEW s \in Slots, NEW c \in inflight, Feedback(c, s) PROVE TypeOK'
  <2>1. inflight' \subseteq Commit /\ slot' \in [Slots -> Slot]
    BY <1>4, FeedbackFacts
  <2> QED BY <1>4, <2>1 DEF Feedback, TypeOK
<1>5. ASSUME NEW s \in Slots, RetireFromStore(s) PROVE TypeOK'
  <2>1. slot' \in [Slots -> Slot]
    BY <1>5, KeptFacts DEF RetireFromStore, TypeOK
  <2>2. store' \in [Owners -> SUBSET Slots]
    BY <1>5 DEF RetireFromStore, Unstored, TypeOK
  <2> QED BY <1>5, <2>1, <2>2 DEF RetireFromStore, TypeOK
<1>6. CASE UNCHANGED vars
  BY <1>6 DEF vars, TypeOK
<1> QED BY <1>1, <1>2, <1>3, <1>4, <1>5, <1>6, WorkerType, CommitType
    DEF Next, GpuStep, HandlerRuns

(* Every variable keeps its type. *)
THEOREM TypeCorrect == Spec => []TypeOK
<1>1. Init => TypeOK
  <2> SUFFICES ASSUME Init PROVE TypeOK
    OBVIOUS
  <2>1. FreeSlot \in Slot /\ IdleBuffer \in Buffer /\ <<>> \in Seq(Slots)
    BY DEF FreeSlot, Slot, IdleBuffer, Buffer
  <2> QED BY <2>1 DEF Init, TypeOK, Replay
<1> QED BY <1>1, TypeStep, PTL DEF Spec

-----------------------------------------------------------------------------
(* Where slots are. *)

LEMMA InPending ==
  ASSUME NEW b \in Buffers, NEW s
  PROVE  /\ s \in Pending(b) <=> Occurs(pending[b], s)
         /\ s \in Pending(b)' <=> Occurs(pending'[b], s)
BY DEF Pending, Occurs

(* A slot that buffer b refers to is allocated. *)
LEMMA UsedIsAllocated ==
  ASSUME TypeOK, TypeOK', NEW b \in Buffers, NEW s \in Slots
  PROVE  /\ StoreInv /\ Uses(b, s) => Allocated(s)
         /\ StoreInv' /\ Uses(b, s)' => Allocated(s)'
<1>1. \A z \in Slots : slot[z].owner \in Owners \cup {None}
                       /\ slot'[z].owner \in Owners \cup {None}
  BY DEF TypeOK, Slot
<1>2. StoreInv /\ Uses(b, s) => Allocated(s)
  BY <1>1 DEF StoreInv, Stored, Uses, Allocated
<1>3. StoreInv' /\ Uses(b, s)' => Allocated(s)'
  BY <1>1 DEF StoreInv, Stored, Uses, Allocated
<1> QED BY <1>2, <1>3

(* Nothing refers to a slot that is not allocated. *)
LEMMA FreshFacts ==
  ASSUME TypeOK, LeaseInv, NEW s \in Slots, ~Allocated(s)
  PROVE  /\ \A b \in Buffers : ~Uses(b, s)
         /\ \A c \in inflight : ~Runs(c, s)
         /\ s \notin retiring
         /\ \A o \in Owners : s \notin store[o]
<1>1. \A z \in Slots : slot[z].owner \in Owners \cup {None}
  BY DEF TypeOK, Slot
<1>2. \A b \in Buffers : ~Uses(b, s)
  BY <1>1 DEF LeaseInv, StoreInv, Stored, Uses, Allocated
<1>3. \A c \in inflight : ~Runs(c, s)
  BY <1>1 DEF LeaseInv, StoreInv, Stored, Runs, Allocated
<1> QED BY <1>2, <1>3 DEF Allocated

(* Steps that leave slots, stores and commits alone, and add nothing to    *)
(* what buffers refer to.                                                  *)
LEMMA QuietPlaces ==
  ASSUME TypeOK, LeaseInv, UNCHANGED <<slot, store, inflight, retiring>>,
         \A b \in Buffers, s \in Slots : Uses(b, s)' => Uses(b, s),
         \A b \in Buffers : /\ buffer'[b].work \subseteq buffer[b].work
                            /\ Pending(b)' \subseteq Pending(b)
  PROVE  PlaceInv' /\ StoreInv'
<1>1. PlaceInv'
  BY DEF LeaseInv, PlaceInv, Runs
<1>2. StoreInv'
  BY DEF LeaseInv, StoreInv, Stored
<1> QED BY <1>1, <1>2

(* The native queue begins to encode into an idle buffer. *)
LEMMA OpenLease ==
  ASSUME TypeOK, LeaseInv, NEW b \in Buffers, NEW transport \in Transports,
         Open(b, transport)
  PROVE  LeaseInv'
<1>1. /\ buffer'[b].pc = "open" /\ buffer'[b].transport = transport
      /\ buffer'[b].work = buffer[b].work /\ buffer'[b].held = buffer[b].held
      /\ buffer'[b].handlers = buffer[b].handlers
      /\ \A c \in Buffers : c # b => buffer'[c] = buffer[c]
  BY OpenEffect DEF Becomes
<1>2. /\ buffer[b].pc = "idle"
      /\ UNCHANGED <<recorded, store, slot, pending, nonempty, worker, inflight, retiring>>
  BY DEF Open
<1>3. \A c \in Buffers : /\ buffer'[c].work = buffer[c].work
                         /\ buffer'[c].handlers = buffer[c].handlers
                         /\ buffer'[c].held = buffer[c].held
                         /\ Pending(c)' = Pending(c)
  BY <1>1, <1>2 DEF Pending
<1>4. PlaceInv' /\ StoreInv'
  <2>1. \A c \in Buffers, s \in Slots : Uses(c, s)' => Uses(c, s)
    BY <1>2, <1>3 DEF Uses
  <2> QED BY <1>2, <1>3, <2>1, QuietPlaces
<1>5. ReplayInv'
  <2> SUFFICES ASSUME NEW w \in Workers, worker[w] # None
               PROVE  /\ slot[worker[w].slot].owner = worker[w].owner
                      /\ worker[w].slot \in store[worker[w].owner]
                      /\ buffer'[worker[w].buffer].pc = "open"
                      /\ buffer'[worker[w].buffer].transport = "legacy" =>
                           worker[w].slot \notin Pending(worker[w].buffer)
    BY <1>2 DEF ReplayInv, Pending
  <2>1. worker[w].buffer # b /\ worker[w].buffer \in Buffers
    BY <1>2, ReplayFields DEF LeaseInv, ReplayInv
  <2> QED BY <1>1, <2>1 DEF LeaseInv, ReplayInv
<1>6. BufferInv'
  BY <1>1, <1>2, <1>3 DEF LeaseInv, BufferInv
<1>7. PendingInv'
  BY <1>2 DEF LeaseInv, PendingInv
<1> QED BY <1>4, <1>5, <1>6, <1>7 DEF LeaseInv

(* A backend that fails before it publishes a lease. *)
LEMMA EncodeNothingLease ==
  ASSUME TypeOK, LeaseInv, NEW w \in Workers, EncodeNothing(w)
  PROVE  LeaseInv'
<1>1. UNCHANGED <<recorded, store, slot, pending, nonempty, buffer, inflight, retiring>>
  BY DEF EncodeNothing
<1>2. \A v \in Workers : worker'[v] = IF v = w THEN None ELSE worker[v]
  BY DEF EncodeNothing, TypeOK
<1>3. \A c \in Buffers : Pending(c)' = Pending(c)
  BY <1>1 DEF Pending
<1>4. PlaceInv' /\ StoreInv'
  <2>1. \A c \in Buffers, s \in Slots : Uses(c, s)' => Uses(c, s)
    BY <1>1, <1>2, <1>3 DEF Uses
  <2> QED BY <1>1, <1>3, <2>1, QuietPlaces
<1>5. ReplayInv'
  BY <1>1, <1>2 DEF LeaseInv, ReplayInv, Pending
<1>6. BufferInv' /\ PendingInv'
  BY <1>1, <1>3 DEF LeaseInv, BufferInv, PendingInv
<1> QED BY <1>4, <1>5, <1>6 DEF LeaseInv

(* A commit that finds gPending not empty. *)
LEMMA CommittingLease ==
  ASSUME TypeOK, LeaseInv, NEW b \in Buffers, ~Encoding(b), buffer[b].pc = "open",
         buffer' = [buffer EXCEPT ![b].pc = "committing"],
         UNCHANGED <<store, slot, pending, nonempty, worker, inflight, retiring>>
  PROVE  LeaseInv'
<1>1. /\ buffer'[b].pc = "committing" /\ buffer'[b].transport = buffer[b].transport
      /\ buffer'[b].work = buffer[b].work /\ buffer'[b].held = buffer[b].held
      /\ buffer'[b].handlers = buffer[b].handlers
      /\ \A c \in Buffers : c # b => buffer'[c] = buffer[c]
  BY CommittingEffect DEF Becomes
<1>3. \A c \in Buffers : /\ buffer'[c].work = buffer[c].work
                         /\ buffer'[c].handlers = buffer[c].handlers
                         /\ buffer'[c].held = buffer[c].held
                         /\ buffer'[c].transport = buffer[c].transport
                         /\ Pending(c)' = Pending(c)
  BY <1>1 DEF Pending
<1>4. PlaceInv' /\ StoreInv'
  <2>1. \A c \in Buffers, s \in Slots : Uses(c, s)' => Uses(c, s)
    BY <1>3 DEF Uses
  <2> QED BY <1>3, <2>1, QuietPlaces
<1>5. ReplayInv'
  <2> SUFFICES ASSUME NEW w \in Workers, worker[w] # None
               PROVE  /\ slot[worker[w].slot].owner = worker[w].owner
                      /\ worker[w].slot \in store[worker[w].owner]
                      /\ buffer'[worker[w].buffer].pc = "open"
                      /\ buffer'[worker[w].buffer].transport = "legacy" =>
                           worker[w].slot \notin Pending(worker[w].buffer)
    BY DEF ReplayInv, Pending
  <2>1. worker[w].buffer # b /\ worker[w].buffer \in Buffers
    BY ReplayFields DEF Encoding
  <2> QED BY <1>1, <2>1 DEF LeaseInv, ReplayInv
<1>6. BufferInv'
  BY <1>1, <1>3 DEF LeaseInv, BufferInv
<1>7. PendingInv'
  BY DEF LeaseInv, PendingInv
<1> QED BY <1>4, <1>5, <1>6, <1>7 DEF LeaseInv

(* A commit takes the last reference of its buffer, which is alive. *)
LEMMA PopLease ==
  ASSUME TypeOK, TypeOK', LeaseInv, NEW b \in Buffers, CommitPop(b)
  PROVE  LeaseInv'
<1> DEFINE n == Len(pending[b])
           s == Last(b)
<1>1. /\ n \in Nat /\ n > 0 /\ s \in Slots /\ Len(pending'[b]) = n - 1
      /\ \A i \in 1..(n - 1) : pending'[b][i] = pending[b][i]
      /\ \A c \in Buffers : c # b => pending'[c] = pending[c]
      /\ nonempty /\ (\E c \in Buffers : pending'[c] # <<>>) => nonempty'
  BY PopEffect, BufferFields
<1>2. UNCHANGED <<store, slot, worker, inflight, retiring>> /\ buffer[b].pc = "committing"
  BY DEF CommitPop
<1>3. s \in Pending(b) /\ s = pending[b][n] /\ n \in 1..n
  BY <1>1 DEF Last, Pending
<1>4. Allocated(s)
  <2>1. Uses(b, s)
    BY <1>3 DEF Uses
  <2> QED BY <1>1, <2>1, UsedIsAllocated DEF LeaseInv
<1>5. /\ buffer'[b].pc = "committing" /\ buffer'[b].transport = buffer[b].transport
      /\ buffer'[b].work = buffer[b].work /\ buffer'[b].held = s
      /\ buffer'[b].handlers = buffer[b].handlers
      /\ \A c \in Buffers : c # b => buffer'[c] = buffer[c]
  BY <1>2, <1>4, PopEffect DEF Becomes
<1>6. /\ \A c \in Buffers : Pending(c)' \subseteq Pending(c)
      /\ s \notin Pending(b)'
  <2>1. \A i, j \in 1..n : pending[b][i] = pending[b][j] => i = j
    BY DEF LeaseInv, PendingInv
  <2> HIDE DEF n, s
  <2>2. ASSUME NEW x \in Pending(b)' PROVE x \in Pending(b) /\ x # s
    <3>1. PICK i \in 1..(n - 1) : x = pending'[b][i]
      BY <1>1, <2>2 DEF Pending
    <3>2. i \in 1..n /\ x = pending[b][i] /\ i # n
      BY <1>1, <3>1
    <3> QED BY <1>3, <2>1, <3>2 DEF Pending, n
  <2>3. \A c \in Buffers : c # b => Pending(c)' = Pending(c)
    BY <1>1 DEF Pending
  <2> QED BY <2>2, <2>3
<1> HIDE DEF n, s
<1>7. PlaceInv' /\ StoreInv'
  <2>1. \A c \in Buffers, z \in Slots : Uses(c, z)' => Uses(c, z)
    BY <1>2, <1>3, <1>5, <1>6 DEF Uses
  <2>2. \A c \in Buffers : buffer'[c].work \subseteq buffer[c].work
    BY <1>5
  <2> QED BY <1>2, <1>6, <2>1, <2>2, QuietPlaces
<1>8. ReplayInv'
  <2> SUFFICES ASSUME NEW w \in Workers, worker[w] # None
               PROVE  /\ slot[worker[w].slot].owner = worker[w].owner
                      /\ worker[w].slot \in store[worker[w].owner]
                      /\ buffer'[worker[w].buffer].pc = "open"
                      /\ buffer'[worker[w].buffer].transport = "legacy" =>
                           ~Occurs(pending'[worker[w].buffer], worker[w].slot)
    BY <1>2 DEF ReplayInv, Pending, Occurs
  <2>1. worker[w].buffer # b /\ worker[w].buffer \in Buffers
    BY <1>2, ReplayFields DEF LeaseInv, ReplayInv
  <2>2. pending'[worker[w].buffer] = pending[worker[w].buffer]
    BY <1>1, <2>1
  <2> QED BY <1>5, <2>1, <2>2 DEF LeaseInv, ReplayInv, Pending, Occurs
<1>9. BufferInv'
  <2> SUFFICES ASSUME NEW c \in Buffers
               PROVE  /\ buffer'[c].pc = "idle" =>
                           buffer'[c].work = {} /\ buffer'[c].handlers = {}
                      /\ buffer'[c].held # None => buffer'[c].pc = "committing"
                      /\ buffer'[c].held \notin Pending(c)'
                      /\ buffer'[c].handlers \cap Pending(c)' = {}
                      /\ buffer'[c].transport = "legacy" =>
                           buffer'[c].work \cap Pending(c)' = {}
    BY DEF BufferInv
  <2>1. CASE c = b
    BY <1>5, <1>6, <2>1 DEF LeaseInv, BufferInv
  <2>2. CASE c # b
    <3>1. buffer'[c] = buffer[c]
      BY <1>5, <2>2
    <3> QED BY <1>6, <3>1 DEF LeaseInv, BufferInv
  <2> QED BY <2>1, <2>2
<1>10. PendingInv'
  <2> SUFFICES ASSUME NEW c \in Buffers
               PROVE  /\ \A i, j \in 1..Len(pending'[c]) :
                           pending'[c][i] = pending'[c][j] => i = j
                      /\ pending'[c] # <<>> => nonempty'
    BY DEF PendingInv
  <2>1. nonempty
    BY <1>1 DEF LeaseInv, PendingInv, n
  <2>2. pending'[c] # <<>> => nonempty'
    BY <1>1, <2>1
  <2>3. CASE c # b
    BY <1>1, <2>2, <2>3 DEF LeaseInv, PendingInv
  <2>4. CASE c = b
    <3>1. ASSUME NEW i \in 1..Len(pending'[b]), NEW j \in 1..Len(pending'[b]),
                 pending'[b][i] = pending'[b][j]
          PROVE  i = j
      <4>1. /\ i \in 1..n /\ j \in 1..n /\ pending'[b][i] = pending[b][i]
            /\ pending'[b][j] = pending[b][j]
        BY <1>1
      <4> QED BY <3>1, <4>1 DEF LeaseInv, PendingInv, n
    <3> QED BY <2>2, <2>4, <3>1
  <2> QED BY <2>3, <2>4
<1> QED BY <1>7, <1>8, <1>9, <1>10 DEF LeaseInv

(* A backend publishes the lease of its slot and appends GPU work. *)
LEMMA EncodeLease ==
  ASSUME TypeOK, TypeOK', LeaseInv, NEW w \in Workers, Encode(w)
  PROVE  LeaseInv'
<1>0. worker[w] # None
  BY DEF Encode
<1>1. PICK s \in Slots, b \in Buffers, o \in Owners :
        s = worker[w].slot /\ b = worker[w].buffer /\ o = worker[w].owner
  BY <1>0, ReplayFields
<1>2. /\ buffer'[b].pc = buffer[b].pc /\ buffer'[b].transport = buffer[b].transport
      /\ buffer'[b].work = buffer[b].work \cup {s} /\ buffer'[b].held = buffer[b].held
      /\ buffer'[b].handlers = buffer[b].handlers
      /\ \A c \in Buffers : c # b => buffer'[c] = buffer[c]
  BY <1>1, EncodeEffect DEF Becomes
<1>3. UNCHANGED <<store, pending, nonempty, inflight, retiring>>
  BY DEF Encode
<1>4. \A v \in Workers : worker'[v] = IF v = w THEN None ELSE worker[v]
  BY DEF Encode, TypeOK
<1>5. /\ \A z \in Slots : slot'[z].owner = slot[z].owner /\ slot'[z].buffer = slot[z].buffer
      /\ \A z \in Slots : z # s => slot'[z].lease = slot[z].lease
      /\ slot'[s].lease = TRUE
  <2>1. slot' = [slot EXCEPT ![s].lease = TRUE]
    BY <1>1 DEF Encode
  <2>2. \A z \in Slots : z # s => slot'[z] = slot[z]
    BY <2>1 DEF TypeOK
  <2>3. /\ slot'[s].owner = slot[s].owner /\ slot'[s].buffer = slot[s].buffer
        /\ slot'[s].lease = TRUE
    BY <2>1 DEF TypeOK, Slot
  <2> QED BY <2>2, <2>3
<1>6. /\ slot[s].owner = o /\ s \in store[o] /\ buffer[b].pc = "open"
      /\ buffer[b].transport = "legacy" => s \notin Pending(b)
  BY <1>0, <1>1 DEF LeaseInv, ReplayInv
<1>7. \A c \in Buffers : Pending(c)' = Pending(c)
  BY <1>3 DEF Pending
<1>8. Uses(b, s)
  BY <1>0, <1>1 DEF Uses
<1>9. \A c \in Buffers, z \in Slots : Uses(c, z)' => Uses(c, z)
  <2> SUFFICES ASSUME NEW c \in Buffers, NEW z \in Slots, Uses(c, z)'
               PROVE  Uses(c, z)
    OBVIOUS
  <2>1. CASE c = b /\ z = s
    BY <1>8, <2>1
  <2>2. CASE ~(c = b /\ z = s)
    BY <1>2, <1>4, <1>7, <2>2 DEF Uses
  <2> QED BY <2>1, <2>2
<1>10. PlaceInv'
  BY <1>3, <1>5, <1>9 DEF LeaseInv, PlaceInv, Runs
<1>11. StoreInv'
  <2>1. \A z \in Slots : Stored(z)' <=> Stored(z)
    BY <1>3, <1>5 DEF Stored
  <2>2. \A p \in Owners : \A z \in store'[p] : slot'[z].owner = p
    BY <1>3, <1>5 DEF LeaseInv, StoreInv, TypeOK
  <2>3. \A c \in Buffers : \A z \in buffer'[c].work : Stored(z)' /\ slot'[z].lease
    <3> SUFFICES ASSUME NEW c \in Buffers, NEW z \in buffer'[c].work
                 PROVE  Stored(z)' /\ slot'[z].lease
      OBVIOUS
    <3>1. CASE z = s
      <4>1. Stored(s)
        BY <1>6, NoneAssumption DEF Stored
      <4> QED BY <1>5, <2>1, <3>1, <4>1
    <3>2. CASE z # s
      <4>1. z \in buffer[c].work /\ z \in Slots
        BY <1>2, <3>2, BufferFields
      <4> QED BY <1>5, <2>1, <3>2, <4>1 DEF LeaseInv, StoreInv
    <3> QED BY <3>1, <3>2
  <2>4. \A c \in Buffers : \A z \in Pending(c)' : Stored(z)'
    <3>1. \A c \in Buffers : Pending(c) \subseteq Slots
      BY DEF Pending, TypeOK
    <3> QED BY <1>7, <2>1, <3>1 DEF LeaseInv, StoreInv
  <2>5. \A c \in inflight' : ~c.done => \A z \in c.work : Stored(z)' /\ slot'[z].lease
    <3>1. \A c \in inflight : c.work \subseteq Slots
      BY DEF TypeOK, Commit
    <3> QED BY <1>3, <1>5, <2>1, <3>1 DEF LeaseInv, StoreInv
  <2> QED BY <2>2, <2>3, <2>4, <2>5 DEF StoreInv
<1>12. ReplayInv'
  <2> SUFFICES ASSUME NEW v \in Workers, worker'[v] # None
               PROVE  /\ slot'[worker'[v].slot].owner = worker'[v].owner
                      /\ worker'[v].slot \in store'[worker'[v].owner]
                      /\ buffer'[worker'[v].buffer].pc = "open"
                      /\ buffer'[worker'[v].buffer].transport = "legacy" =>
                           ~Occurs(pending'[worker'[v].buffer], worker'[v].slot)
    BY DEF ReplayInv, Pending, Occurs
  <2>1. worker'[v] = worker[v] /\ worker[v] # None
    BY <1>4
  <2>2. worker[v].slot \in Slots /\ worker[v].buffer \in Buffers
    BY <2>1, ReplayFields
  <2> QED BY <1>2, <1>3, <1>5, <2>1, <2>2 DEF LeaseInv, ReplayInv, Pending, Occurs
<1>13. BufferInv'
  BY <1>2, <1>6, <1>7 DEF LeaseInv, BufferInv
<1>14. PendingInv'
  BY <1>3 DEF LeaseInv, PendingInv
<1> QED BY <1>10, <1>11, <1>12, <1>13, <1>14 DEF LeaseInv

(* Steps that drop references: what is still referred to is kept. *)
LEMMA DropPlaces ==
  ASSUME TypeOK, TypeOK', LeaseInv, slot' = Kept(slot), inflight' = inflight,
         retiring' \subseteq retiring,
         \A o \in Owners : store'[o] \subseteq store[o],
         \A b \in Buffers, s \in Slots : Uses(b, s)' => Uses(b, s),
         \A b \in Buffers : /\ buffer'[b].work \subseteq buffer[b].work
                            /\ Pending(b)' \subseteq Pending(b),
         \A o \in Owners : \A s \in store[o] : s \in store'[o] \/ s \in retiring
  PROVE  /\ PlaceInv' /\ StoreInv'
         /\ \A b \in Buffers, s \in Slots : Uses(b, s)' => slot'[s] = slot[s]
<1>1. \A s \in Slots : Allocated(s)' => slot'[s] = slot[s]
  BY KeptFacts DEF TypeOK
<1>2. \A s \in Slots : slot[s].owner \in Owners \cup {None}
  BY DEF TypeOK, Slot
<1>3. ASSUME NEW s \in Slots, Stored(s), s \notin retiring
      PROVE  Stored(s)' /\ slot'[s] = slot[s]
  <2>1. slot[s].owner \in Owners /\ s \in store'[slot[s].owner]
    BY <1>2, <1>3 DEF Stored
  <2>2. Allocated(s)'
    BY <2>1 DEF Allocated
  <2> QED BY <1>1, <1>3, <2>1, <2>2 DEF Stored
<1>4. StoreInv'
  <2>1. ASSUME NEW o \in Owners, NEW s \in store'[o] PROVE slot'[s].owner = o
    <3>1. s \in store[o] /\ s \in Slots /\ Allocated(s)'
      BY DEF TypeOK, Allocated
    <3> QED BY <1>1, <3>1 DEF LeaseInv, StoreInv
  <2>2. ASSUME NEW b \in Buffers, NEW s \in buffer'[b].work
        PROVE  Stored(s)' /\ slot'[s].lease
    <3>1. s \in buffer[b].work /\ s \in Slots /\ Uses(b, s)
      BY BufferFields DEF Uses
    <3> QED BY <1>3, <3>1 DEF LeaseInv, StoreInv, PlaceInv
  <2>3. ASSUME NEW b \in Buffers, NEW s \in Pending(b)' PROVE Stored(s)'
    <3>0. Pending(b) \subseteq Slots
      BY DEF Pending, TypeOK
    <3>1. s \in Pending(b) /\ s \in Slots /\ Uses(b, s)
      BY <3>0 DEF Uses
    <3> QED BY <1>3, <3>1 DEF LeaseInv, StoreInv, PlaceInv
  <2>4. ASSUME NEW c \in inflight', ~c.done, NEW s \in c.work
        PROVE  Stored(s)' /\ slot'[s].lease
    <3>1. c \in inflight /\ s \in Slots /\ Runs(c, s)
      BY <2>4 DEF TypeOK, Commit, Runs
    <3> QED BY <1>3, <2>4, <3>1 DEF LeaseInv, StoreInv, PlaceInv
  <2> QED BY <2>1, <2>2, <2>3, <2>4 DEF StoreInv
<1>5. \A b \in Buffers, s \in Slots : Uses(b, s)' => slot'[s] = slot[s]
  BY <1>1, <1>4, UsedIsAllocated
<1>6. PlaceInv'
  BY <1>5 DEF LeaseInv, PlaceInv, Runs
<1> QED BY <1>4, <1>5, <1>6

(* A buffer is dropped without being committed. *)
LEMMA AbandonLease ==
  ASSUME TypeOK, TypeOK', LeaseInv, NEW b \in Buffers, Abandon(b)
  PROVE  LeaseInv'
<1>1. /\ buffer'[b].pc = "idle" /\ buffer'[b].transport = None
      /\ buffer'[b].work = {} /\ buffer'[b].held = None /\ buffer'[b].handlers = {}
      /\ \A c \in Buffers : c # b => buffer'[c] = buffer[c]
  BY IdleEffect DEF Abandon, Becomes
<1>2. /\ UNCHANGED <<store, pending, nonempty, worker, inflight, retiring>>
      /\ ~Encoding(b) /\ slot' = Kept(slot)
  BY DEF Abandon
<1>3. \A c \in Buffers : Pending(c)' = Pending(c)
  BY <1>2 DEF Pending
<1>4. \A c \in Buffers, z \in Slots : Uses(c, z)' => Uses(c, z)
  <2> SUFFICES ASSUME NEW c \in Buffers, NEW z \in Slots, Uses(c, z)'
               PROVE  Uses(c, z)
    OBVIOUS
  <2>1. CASE c = b
    BY <1>1, <1>2, <1>3, <2>1, NoneAssumption DEF Uses
  <2>2. CASE c # b
    BY <1>1, <1>2, <1>3, <2>2 DEF Uses
  <2> QED BY <2>1, <2>2
<1>5. \A c \in Buffers : buffer'[c].work \subseteq buffer[c].work
  BY <1>1
<1>6. /\ PlaceInv' /\ StoreInv'
      /\ \A c \in Buffers, z \in Slots : Uses(c, z)' => slot'[z] = slot[z]
  BY <1>2, <1>3, <1>4, <1>5, DropPlaces
<1>7. ReplayInv'
  <2> SUFFICES ASSUME NEW w \in Workers, worker[w] # None
               PROVE  /\ slot'[worker[w].slot].owner = worker[w].owner
                      /\ worker[w].slot \in store[worker[w].owner]
                      /\ buffer'[worker[w].buffer].pc = "open"
                      /\ buffer'[worker[w].buffer].transport = "legacy" =>
                           worker[w].slot \notin Pending(worker[w].buffer)
    BY <1>2 DEF ReplayInv, Pending
  <2>1. PICK z \in Slots, c \in Buffers : z = worker[w].slot /\ c = worker[w].buffer
    BY ReplayFields
  <2>2. Uses(c, z)' /\ c # b
    BY <1>2, <2>1 DEF Uses, Encoding
  <2> QED BY <1>1, <1>6, <2>1, <2>2 DEF LeaseInv, ReplayInv
<1>8. BufferInv'
  <2>1. None \notin Pending(b)
    BY NoneAssumption DEF Pending, TypeOK
  <2> QED BY <1>1, <1>3, <2>1 DEF LeaseInv, BufferInv
<1>9. PendingInv'
  BY <1>2 DEF LeaseInv, PendingInv
<1> QED BY <1>6, <1>7, <1>8, <1>9 DEF LeaseInv

(* A feedback handler captures the slot, or the slot stays with its owner. *)
LEMMA AddHandlerLease ==
  ASSUME TypeOK, TypeOK', LeaseInv, NEW b \in Buffers, NEW ok \in BOOLEAN,
         AddHandler(b, ok)
  PROVE  LeaseInv'
<1>1. /\ buffer'[b].pc = buffer[b].pc /\ buffer'[b].transport = buffer[b].transport
      /\ buffer'[b].work = buffer[b].work /\ buffer'[b].held = None
      /\ buffer'[b].handlers \subseteq buffer[b].handlers \cup {buffer[b].held}
      /\ \A c \in Buffers : c # b => buffer'[c] = buffer[c]
  BY AddHandlerEffect DEF Becomes
<1>2. /\ UNCHANGED <<store, pending, nonempty, worker, inflight, retiring>>
      /\ buffer[b].held # None /\ slot' = Kept(slot)
  BY DEF AddHandler
<1>3. \A c \in Buffers : Pending(c)' = Pending(c)
  BY <1>2 DEF Pending
<1>4. \A c \in Buffers, z \in Slots : Uses(c, z)' => Uses(c, z)
  <2> SUFFICES ASSUME NEW c \in Buffers, NEW z \in Slots, Uses(c, z)'
               PROVE  Uses(c, z)
    OBVIOUS
  <2>1. CASE c = b
    BY <1>1, <1>2, <1>3, <2>1, NoneAssumption DEF Uses
  <2>2. CASE c # b
    BY <1>1, <1>2, <1>3, <2>2 DEF Uses
  <2> QED BY <2>1, <2>2
<1>5. \A c \in Buffers : buffer'[c].work \subseteq buffer[c].work
  BY <1>1
<1>6. /\ PlaceInv' /\ StoreInv'
      /\ \A c \in Buffers, z \in Slots : Uses(c, z)' => slot'[z] = slot[z]
  BY <1>2, <1>3, <1>4, <1>5, DropPlaces
<1>7. ReplayInv'
  <2> SUFFICES ASSUME NEW w \in Workers, worker[w] # None
               PROVE  /\ slot'[worker[w].slot].owner = worker[w].owner
                      /\ worker[w].slot \in store[worker[w].owner]
                      /\ buffer'[worker[w].buffer].pc = "open"
                      /\ buffer'[worker[w].buffer].transport = "legacy" =>
                           worker[w].slot \notin Pending(worker[w].buffer)
    BY <1>2 DEF ReplayInv, Pending
  <2>1. PICK z \in Slots, c \in Buffers : z = worker[w].slot /\ c = worker[w].buffer
    BY ReplayFields
  <2>2. Uses(c, z)'
    BY <1>2, <2>1 DEF Uses
  <2>3. buffer'[c].pc = buffer[c].pc /\ buffer'[c].transport = buffer[c].transport
    BY <1>1
  <2> QED BY <1>6, <2>1, <2>2, <2>3 DEF LeaseInv, ReplayInv
<1>8. BufferInv'
  <2>1. None \notin Pending(b)
    BY NoneAssumption DEF Pending, TypeOK
  <2>2. buffer[b].pc = "committing"
    BY <1>2 DEF LeaseInv, BufferInv
  <2> QED BY <1>1, <1>3, <2>1, <2>2 DEF LeaseInv, BufferInv
<1>9. PendingInv'
  BY <1>2 DEF LeaseInv, PendingInv
<1> QED BY <1>6, <1>7, <1>8, <1>9 DEF LeaseInv

(* The second half of retire(): the slot leaves the store of its owner. *)
LEMMA RetireLease ==
  ASSUME TypeOK, TypeOK', LeaseInv, NEW s \in Slots, RetireFromStore(s)
  PROVE  LeaseInv'
<1>1. /\ s \in retiring /\ retiring' = retiring \ {s} /\ slot' = Kept(slot)
      /\ UNCHANGED <<pending, nonempty, worker, buffer, inflight>>
  BY DEF RetireFromStore
<1>2. \A o \in Owners : store'[o] \subseteq store[o] /\ store[o] \ {s} \subseteq store'[o]
  BY DEF RetireFromStore, Unstored
<1>3. \A c \in Buffers : Pending(c)' = Pending(c)
  BY <1>1 DEF Pending
<1>4. \A c \in Buffers, z \in Slots : Uses(c, z)' => Uses(c, z)
  BY <1>1, <1>3 DEF Uses
<1>5. /\ PlaceInv' /\ StoreInv'
      /\ \A c \in Buffers, z \in Slots : Uses(c, z)' => slot'[z] = slot[z]
  <2>1. \A c \in Buffers : buffer'[c].work \subseteq buffer[c].work
    BY <1>1
  <2>2. retiring' \subseteq retiring /\ \A o \in Owners : store'[o] \subseteq store[o]
    BY <1>1, <1>2
  <2>3. \A o \in Owners : \A z \in store[o] : z \in store'[o] \/ z \in retiring
    BY <1>1, <1>2
  <2> QED BY <1>1, <1>3, <1>4, <2>1, <2>2, <2>3, DropPlaces
<1>6. ReplayInv'
  <2> SUFFICES ASSUME NEW w \in Workers, worker[w] # None
               PROVE  /\ slot'[worker[w].slot].owner = worker[w].owner
                      /\ worker[w].slot \in store'[worker[w].owner]
                      /\ buffer[worker[w].buffer].pc = "open"
                      /\ buffer[worker[w].buffer].transport = "legacy" =>
                           worker[w].slot \notin Pending(worker[w].buffer)
    BY <1>1 DEF ReplayInv, Pending
  <2>1. PICK z \in Slots, c \in Buffers, o \in Owners :
          z = worker[w].slot /\ c = worker[w].buffer /\ o = worker[w].owner
    BY ReplayFields
  <2>2. Uses(c, z) /\ Uses(c, z)'
    BY <1>1, <2>1 DEF Uses
  <2>3. z # s
    BY <1>1, <2>2 DEF LeaseInv, PlaceInv
  <2> QED BY <1>2, <1>5, <2>1, <2>2, <2>3 DEF LeaseInv, ReplayInv
<1>7. BufferInv' /\ PendingInv'
  BY <1>1, <1>3 DEF LeaseInv, BufferInv, PendingInv
<1> QED BY <1>5, <1>6, <1>7 DEF LeaseInv

(* A new slot, in the store of its owner and with one buffer. *)
LEMMA ReservePlaces ==
  ASSUME TypeOK, TypeOK', LeaseInv, NEW s \in Slots, NEW b \in Buffers, NEW o \in Owners,
         ~Allocated(s),
         slot' = [slot EXCEPT ![s] = [owner |-> o, buffer |-> b, lease |-> FALSE]],
         store' = [store EXCEPT ![o] = @ \cup {s}],
         UNCHANGED <<inflight, retiring>>,
         \A c \in Buffers, z \in Slots : Uses(c, z)' => Uses(c, z) \/ (c = b /\ z = s),
         \A c \in Buffers : /\ buffer'[c].work = buffer[c].work
                            /\ Pending(c)' \subseteq Pending(c) \cup {s}
  PROVE  PlaceInv' /\ StoreInv'
<1>1. /\ \A c \in Buffers : ~Uses(c, s)
      /\ \A c \in inflight : ~Runs(c, s)
      /\ s \notin retiring
      /\ \A p \in Owners : s \notin store[p]
  BY FreshFacts
<1>2. /\ \A z \in Slots : z # s => slot'[z] = slot[z]
      /\ slot'[s].owner = o /\ slot'[s].buffer = b
      /\ \A p \in Owners : store'[p] = IF p = o THEN store[p] \cup {s} ELSE store[p]
  BY DEF TypeOK
<1>3. ASSUME NEW z \in Slots, Stored(z) PROVE Stored(z)' /\ slot'[z] = slot[z]
  <2>1. slot[z].owner \in Owners /\ z \in store[slot[z].owner]
    BY <1>3 DEF Stored, TypeOK, Slot
  <2>2. z # s /\ z \in store'[slot[z].owner]
    BY <1>1, <1>2, <2>1
  <2> QED BY <1>2, <1>3, <2>1, <2>2 DEF Stored
<1>4. PlaceInv'
  BY <1>1, <1>2 DEF LeaseInv, PlaceInv, Runs
<1>5. StoreInv'
  <2>1. ASSUME NEW p \in Owners, NEW z \in store'[p] PROVE slot'[z].owner = p
    <3>1. z \in Slots
      BY DEF TypeOK
    <3> QED BY <1>1, <1>2, <2>1, <3>1 DEF LeaseInv, StoreInv
  <2>2. ASSUME NEW c \in Buffers, NEW z \in buffer'[c].work
        PROVE  Stored(z)' /\ slot'[z].lease
    <3>1. z \in buffer[c].work /\ z \in Slots
      BY BufferFields
    <3> QED BY <1>3, <3>1 DEF LeaseInv, StoreInv
  <2>3. ASSUME NEW c \in Buffers, NEW z \in Pending(c)' PROVE Stored(z)'
    <3>1. CASE z = s
      <4>1. s \in store'[o] /\ slot'[s].owner = o
        BY <1>2
      <4>2. o # None
        BY NoneAssumption
      <4>3. Stored(s)'
        BY <4>1, <4>2 DEF Stored
      <4> QED BY <3>1, <4>3
    <3>2. CASE z # s
      <4>1. Pending(c) \subseteq Slots
        BY DEF Pending, TypeOK
      <4>2. z \in Pending(c) /\ z \in Slots
        BY <3>2, <4>1
      <4> QED BY <1>3, <4>2 DEF LeaseInv, StoreInv
    <3> QED BY <3>1, <3>2
  <2>4. ASSUME NEW c \in inflight', ~c.done, NEW z \in c.work
        PROVE  Stored(z)' /\ slot'[z].lease
    <3>1. c \in inflight /\ z \in Slots
      BY DEF TypeOK, Commit
    <3> QED BY <1>3, <2>4, <3>1 DEF LeaseInv, StoreInv
  <2> QED BY <2>1, <2>2, <2>3, <2>4 DEF StoreInv
<1> QED BY <1>4, <1>5

(* The replays in progress do not see the new slot. *)
LEMMA ReserveReplays ==
  ASSUME TypeOK, LeaseInv, NEW w \in Workers, NEW s \in Slots, NEW b \in Buffers,
         NEW o \in Owners, ~Allocated(s),
         slot' = [slot EXCEPT ![s] = [owner |-> o, buffer |-> b, lease |-> FALSE]],
         store' = [store EXCEPT ![o] = @ \cup {s}],
         worker' = [worker EXCEPT ![w] = [owner |-> o, buffer |-> b, slot |-> s]],
         \A c \in Buffers : /\ buffer'[c].pc = buffer[c].pc
                            /\ buffer'[c].transport = buffer[c].transport
                            /\ Pending(c)' \subseteq Pending(c) \cup {s},
         buffer[b].pc = "open",
         buffer[b].transport = "legacy" => s \notin Pending(b)'
  PROVE  ReplayInv'
<1>1. /\ \A z \in Slots : z # s => slot'[z] = slot[z]
      /\ slot'[s].owner = o
      /\ \A p \in Owners : store'[p] = IF p = o THEN store[p] \cup {s} ELSE store[p]
      /\ \A v \in Workers : v # w => worker'[v] = worker[v]
      /\ worker'[w].owner = o /\ worker'[w].buffer = b /\ worker'[w].slot = s
  BY DEF TypeOK
<1> SUFFICES ASSUME NEW v \in Workers, worker'[v] # None
             PROVE  /\ slot'[worker'[v].slot].owner = worker'[v].owner
                    /\ worker'[v].slot \in store'[worker'[v].owner]
                    /\ buffer'[worker'[v].buffer].pc = "open"
                    /\ buffer'[worker'[v].buffer].transport = "legacy" =>
                         ~Occurs(pending'[worker'[v].buffer], worker'[v].slot)
  BY DEF ReplayInv, Pending, Occurs
<1>2. \A c \in Buffers : \A x : x \in Pending(c)' <=> Occurs(pending'[c], x)
  BY DEF Pending, Occurs
<1>3. CASE v = w
  <2>1. /\ slot'[s].owner = o /\ s \in store'[o] /\ buffer'[b].pc = "open"
        /\ buffer'[b].transport = "legacy" => ~Occurs(pending'[b], s)
    BY <1>1, <1>2
  <2> QED BY <1>1, <1>3, <2>1
<1>4. CASE v # w
  <2>1. worker'[v] = worker[v] /\ worker[v] # None
    BY <1>1, <1>4
  <2>2. PICK z \in Slots, c \in Buffers, p \in Owners :
          z = worker[v].slot /\ c = worker[v].buffer /\ p = worker[v].owner
    BY <2>1, ReplayFields
  <2>3. /\ slot[z].owner = p /\ z \in store[p] /\ buffer[c].pc = "open"
        /\ buffer[c].transport = "legacy" => z \notin Pending(c)
    BY <2>1, <2>2 DEF LeaseInv, ReplayInv
  <2>4. z # s
    BY <2>3 DEF Allocated
  <2>5. buffer'[c].transport = "legacy" => z \notin Pending(c)'
    BY <2>3, <2>4
  <2> QED BY <1>1, <1>2, <2>1, <2>2, <2>3, <2>4, <2>5
<1> QED BY <1>3, <1>4

(* encode() on Metal 4 reserves a slot. *)
LEMMA ReserveLease ==
  ASSUME TypeOK, TypeOK', LeaseInv, NEW w \in Workers, NEW o \in Owners, NEW b \in Buffers,
         Reserve(w, o, b)
  PROVE  LeaseInv'
<1>1. PICK s \in Slots :
        /\ ~Allocated(s)
        /\ slot' = [slot EXCEPT ![s] = [owner |-> o, buffer |-> b, lease |-> FALSE]]
        /\ store' = [store EXCEPT ![o] = @ \cup {s}]
        /\ pending' = [pending EXCEPT ![b] = Append(@, s)]
        /\ worker' = [worker EXCEPT ![w] = [owner |-> o, buffer |-> b, slot |-> s]]
  BY DEF Reserve
<1>2. /\ UNCHANGED <<buffer, inflight, retiring>> /\ nonempty' = TRUE
      /\ buffer[b].pc = "open" /\ buffer[b].transport = "metal4" /\ worker[w] = None
  BY DEF Reserve, Encodable
<1>3. \A c \in Buffers : ~Uses(c, s)
  BY <1>1, FreshFacts
<1> DEFINE n == Len(pending[b])
<1>4. /\ n \in Nat /\ Len(pending'[b]) = n + 1 /\ pending'[b][n + 1] = s
      /\ \A i \in 1..n : pending'[b][i] = pending[b][i]
      /\ \A c \in Buffers : c # b => pending'[c] = pending[c]
  BY <1>1, BufferFields DEF TypeOK
<1>5. /\ \A c \in Buffers : Pending(c)' \subseteq Pending(c) \cup {s}
      /\ \A c \in Buffers : c # b => Pending(c)' = Pending(c)
  <2>1. \A c \in Buffers : c # b => Pending(c)' = Pending(c)
    BY <1>4 DEF Pending
  <2>2. Pending(b)' \subseteq Pending(b) \cup {s}
    BY <1>4 DEF Pending
  <2> QED BY <2>1, <2>2
<1>6. /\ \A v \in Workers : v # w => worker'[v] = worker[v]
      /\ worker'[w].buffer = b /\ worker'[w].slot = s
  BY <1>1 DEF TypeOK
<1> HIDE DEF n
<1>7. \A c \in Buffers, z \in Slots : Uses(c, z)' => Uses(c, z) \/ (c = b /\ z = s)
  BY <1>2, <1>5, <1>6 DEF Uses
<1>8. PlaceInv' /\ StoreInv'
  <2>1. \A c \in Buffers : buffer'[c].work = buffer[c].work
    BY <1>2
  <2> QED BY <1>1, <1>2, <1>5, <1>7, <2>1, ReservePlaces
<1>9. ReplayInv'
  <2>1. \A c \in Buffers : /\ buffer'[c].pc = buffer[c].pc
                           /\ buffer'[c].transport = buffer[c].transport
    BY <1>2
  <2> QED BY <1>1, <1>2, <1>5, <2>1, ReserveReplays
<1>10. BufferInv'
  <2>1. s \notin buffer[b].handlers /\ buffer[b].held # s
    BY <1>3 DEF Uses
  <2>2. \A c \in Buffers : c # b =>
          /\ buffer[c].pc = "idle" => buffer[c].work = {} /\ buffer[c].handlers = {}
          /\ buffer[c].held # None => buffer[c].pc = "committing"
          /\ buffer[c].held \notin Pending(c)'
          /\ buffer[c].handlers \cap Pending(c)' = {}
          /\ buffer[c].transport = "legacy" => buffer[c].work \cap Pending(c)' = {}
    BY <1>5 DEF LeaseInv, BufferInv
  <2>3. /\ buffer[b].pc = "idle" => buffer[b].work = {} /\ buffer[b].handlers = {}
        /\ buffer[b].held # None => buffer[b].pc = "committing"
        /\ buffer[b].held \notin Pending(b)'
        /\ buffer[b].handlers \cap Pending(b)' = {}
        /\ buffer[b].transport = "legacy" => buffer[b].work \cap Pending(b)' = {}
    BY <1>2, <1>5, <2>1 DEF LeaseInv, BufferInv
  <2> QED BY <1>2, <2>2, <2>3 DEF BufferInv
<1>11. PendingInv'
  <2>1. \A i \in 1..n : pending[b][i] # s
    BY <1>3 DEF Uses, Pending, n
  <2>2. ASSUME NEW i \in 1..Len(pending'[b]), NEW j \in 1..Len(pending'[b]),
               pending'[b][i] = pending'[b][j]
        PROVE  i = j
    <3>1. (i \in 1..n \/ i = n + 1) /\ (j \in 1..n \/ j = n + 1)
      BY <1>4
    <3>2. \A k, l \in 1..n : pending[b][k] = pending[b][l] => k = l
      BY DEF LeaseInv, PendingInv, n
    <3> QED BY <1>4, <2>1, <2>2, <3>1, <3>2
  <2>3. \A c \in Buffers : c # b =>
          \A i, j \in 1..Len(pending'[c]) : pending'[c][i] = pending'[c][j] => i = j
    BY <1>4 DEF LeaseInv, PendingInv
  <2> QED BY <1>2, <2>2, <2>3 DEF PendingInv
<1> QED BY <1>8, <1>9, <1>10, <1>11 DEF LeaseInv

(* encode() on a legacy buffer reserves a slot, with or without a handler. *)
LEMMA ReserveLegacyLease ==
  ASSUME TypeOK, TypeOK', LeaseInv, NEW w \in Workers, NEW o \in Owners, NEW b \in Buffers,
         NEW ok \in BOOLEAN, ReserveLegacy(w, o, b, ok)
  PROVE  LeaseInv'
<1>1. PICK s \in Slots :
        /\ ~Allocated(s)
        /\ slot' = [slot EXCEPT ![s] = [owner |-> o, buffer |-> b, lease |-> FALSE]]
        /\ store' = [store EXCEPT ![o] = @ \cup {s}]
        /\ worker' = [worker EXCEPT ![w] = [owner |-> o, buffer |-> b, slot |-> s]]
        /\ buffer' = [buffer EXCEPT ![b].handlers = IF ok THEN @ \cup {s} ELSE @]
  BY DEF ReserveLegacy
<1>2. /\ UNCHANGED <<pending, nonempty, inflight, retiring>>
      /\ buffer[b].pc = "open" /\ worker[w] = None
  BY DEF ReserveLegacy, Encodable
<1>3. \A c \in Buffers : ~Uses(c, s)
  BY <1>1, FreshFacts
<1> DEFINE hs == IF ok THEN buffer[b].handlers \cup {s} ELSE buffer[b].handlers
<1>4. /\ hs \in SUBSET Slots /\ buffer' = [buffer EXCEPT ![b].handlers = hs]
      /\ hs \subseteq buffer[b].handlers \cup {s}
  BY <1>1, BufferFields
<1> HIDE DEF hs
<1>5. /\ buffer'[b].pc = buffer[b].pc /\ buffer'[b].transport = buffer[b].transport
      /\ buffer'[b].work = buffer[b].work /\ buffer'[b].held = buffer[b].held
      /\ buffer'[b].handlers \subseteq buffer[b].handlers \cup {s}
      /\ \A c \in Buffers : c # b => buffer'[c] = buffer[c]
  BY <1>4, LegacyEffect DEF Becomes
<1>6. \A c \in Buffers : Pending(c)' = Pending(c)
  BY <1>2 DEF Pending
<1>7. /\ \A v \in Workers : v # w => worker'[v] = worker[v]
      /\ worker'[w].buffer = b /\ worker'[w].slot = s
  BY <1>1 DEF TypeOK
<1>8. \A c \in Buffers, z \in Slots : Uses(c, z)' => Uses(c, z) \/ (c = b /\ z = s)
  BY <1>5, <1>6, <1>7 DEF Uses
<1>9. PlaceInv' /\ StoreInv'
  <2>1. \A c \in Buffers : /\ buffer'[c].work = buffer[c].work
                           /\ Pending(c)' \subseteq Pending(c) \cup {s}
    BY <1>5, <1>6
  <2> QED BY <1>1, <1>2, <1>8, <2>1, ReservePlaces
<1>10. s \notin Pending(b)
  BY <1>3 DEF Uses
<1>11. ReplayInv'
  <2>1. \A c \in Buffers : /\ buffer'[c].pc = buffer[c].pc
                           /\ buffer'[c].transport = buffer[c].transport
                           /\ Pending(c)' \subseteq Pending(c) \cup {s}
    BY <1>5, <1>6
  <2>2. s \notin Pending(b)'
    BY <1>6, <1>10
  <2> QED BY <1>1, <1>2, <2>1, <2>2, ReserveReplays
<1>12. BufferInv'
  BY <1>2, <1>5, <1>6, <1>10 DEF LeaseInv, BufferInv
<1>13. PendingInv'
  BY <1>2 DEF LeaseInv, PendingInv
<1> QED BY <1>9, <1>11, <1>12, <1>13 DEF LeaseInv

(* The native commit: what the buffer referred to, the commit refers to. *)
LEMMA SubmitLease ==
  ASSUME TypeOK, TypeOK', LeaseInv, NEW b \in Buffers, ~Encoding(b),
         buffer[b].work \cap Pending(b) = {},
         buffer' = [buffer EXCEPT ![b] = IdleBuffer], inflight' = Submitted(b),
         UNCHANGED <<store, slot, pending, nonempty, worker, retiring>>
  PROVE  LeaseInv'
<1>1. /\ buffer'[b].pc = "idle" /\ buffer'[b].transport = None
      /\ buffer'[b].work = {} /\ buffer'[b].held = None /\ buffer'[b].handlers = {}
      /\ \A c \in Buffers : c # b => buffer'[c] = buffer[c]
  BY IdleEffect DEF Becomes
<1>2. PICK new : new = Batch(b)
  OBVIOUS
<1>3. /\ inflight' \subseteq inflight \cup {new}
      /\ new.work = buffer[b].work /\ new.handlers = buffer[b].handlers /\ ~new.done
  BY <1>2, SubmittedFacts DEF Batch
<1>4. \A c \in Buffers : Pending(c)' = Pending(c)
  BY DEF Pending
<1>5. \A z \in Slots : Uses(b, z)' => z \in Pending(b)
  BY <1>1, <1>4, NoneAssumption DEF Uses, Encoding
<1>6. \A c \in Buffers, z \in Slots : Uses(c, z)' => Uses(c, z)
  <2> SUFFICES ASSUME NEW c \in Buffers, NEW z \in Slots, Uses(c, z)'
               PROVE  Uses(c, z)
    OBVIOUS
  <2>1. CASE c = b
    BY <1>5, <2>1 DEF Uses
  <2>2. CASE c # b
    BY <1>1, <1>4, <2>2 DEF Uses
  <2> QED BY <2>1, <2>2
<1>7. \A z \in Slots : Runs(new, z) => Uses(b, z) /\ z \notin Pending(b)
  BY <1>3 DEF Runs, Uses, LeaseInv, BufferInv
<1>8. \A z \in Slots : Runs(new, z) =>
        /\ z \notin retiring
        /\ \A c \in Buffers : ~Uses(c, z)'
        /\ \A d \in inflight : ~Runs(d, z)
  <2> SUFFICES ASSUME NEW z \in Slots, Runs(new, z)
               PROVE  /\ z \notin retiring
                      /\ \A c \in Buffers : ~Uses(c, z)'
                      /\ \A d \in inflight : ~Runs(d, z)
    OBVIOUS
  <2>1. Uses(b, z) /\ z \notin Pending(b)
    BY <1>7
  <2>2. z \notin retiring /\ slot[z].buffer = b /\ \A d \in inflight : ~Runs(d, z)
    BY <2>1 DEF LeaseInv, PlaceInv
  <2>3. \A c \in Buffers : Uses(c, z) => c = b
    BY <2>2 DEF LeaseInv, PlaceInv
  <2> QED BY <1>5, <1>6, <2>1, <2>2, <2>3
<1>9. PlaceInv'
  <2>1. ASSUME NEW c \in Buffers, NEW z \in Slots, Uses(c, z)'
        PROVE  /\ slot[z].buffer = c /\ z \notin retiring
               /\ \A d \in inflight' : ~Runs(d, z)
    <3>1. Uses(c, z)
      BY <1>6, <2>1
    <3> QED BY <1>3, <1>8, <2>1, <3>1 DEF LeaseInv, PlaceInv
  <2>2. ASSUME NEW z \in Slots, NEW c \in inflight', Runs(c, z)
        PROVE  z \notin retiring /\ \A d \in inflight' : Runs(d, z) => d = c
    BY <1>3, <1>8, <2>2 DEF LeaseInv, PlaceInv
  <2> QED BY <2>1, <2>2 DEF PlaceInv
<1>10. StoreInv'
  <2>1. \A c \in Buffers : \A z \in buffer'[c].work : Stored(z)' /\ slot'[z].lease
    BY <1>1 DEF LeaseInv, StoreInv, Stored
  <2>2. \A c \in Buffers : \A z \in Pending(c)' : Stored(z)'
    BY <1>4 DEF LeaseInv, StoreInv, Stored
  <2>3. \A c \in inflight' : ~c.done => \A z \in c.work : Stored(z)' /\ slot'[z].lease
    BY <1>3 DEF LeaseInv, StoreInv, Stored
  <2>4. \A p \in Owners : \A z \in store'[p] : slot'[z].owner = p
    BY DEF LeaseInv, StoreInv
  <2> QED BY <2>1, <2>2, <2>3, <2>4 DEF StoreInv
<1>11. ReplayInv'
  <2> SUFFICES ASSUME NEW w \in Workers, worker[w] # None
               PROVE  /\ slot[worker[w].slot].owner = worker[w].owner
                      /\ worker[w].slot \in store[worker[w].owner]
                      /\ buffer'[worker[w].buffer].pc = "open"
                      /\ buffer'[worker[w].buffer].transport = "legacy" =>
                           worker[w].slot \notin Pending(worker[w].buffer)
    BY DEF ReplayInv, Pending
  <2>1. worker[w].buffer # b /\ worker[w].buffer \in Buffers
    BY ReplayFields DEF Encoding
  <2> QED BY <1>1, <2>1 DEF LeaseInv, ReplayInv
<1>12. BufferInv'
  <2>1. None \notin Pending(b)
    BY NoneAssumption DEF Pending, TypeOK
  <2> QED BY <1>1, <1>4, <2>1 DEF LeaseInv, BufferInv
<1>13. PendingInv'
  BY DEF LeaseInv, PendingInv
<1> QED BY <1>9, <1>10, <1>11, <1>12, <1>13 DEF LeaseInv

(* The unlocked test of gPendingNonempty is enough. *)
LEMMA CommitBeginLease ==
  ASSUME TypeOK, TypeOK', LeaseInv, NEW b \in Buffers, CommitBegin(b)
  PROVE  LeaseInv'
<1>1. /\ buffer[b].pc = "open" /\ ~Encoding(b)
      /\ UNCHANGED <<store, slot, pending, nonempty, worker, retiring>>
  BY DEF CommitBegin
<1>2. CASE /\ buffer' = [buffer EXCEPT ![b].pc = "committing"]
           /\ inflight' = inflight
  BY <1>1, <1>2, CommittingLease
<1>3. CASE /\ ~nonempty \/ buffer[b].transport = "legacy"
           /\ buffer' = [buffer EXCEPT ![b] = IdleBuffer]
           /\ inflight' = Submitted(b)
  <2>1. CASE ~nonempty
    <3>1. pending[b] = <<>>
      BY <2>1 DEF LeaseInv, PendingInv
    <3>2. buffer[b].work \cap Pending(b) = {}
      BY <3>1 DEF Pending
    <3> QED BY <1>1, <1>3, <3>2, SubmitLease
  <2>2. CASE buffer[b].transport = "legacy"
    <3>1. buffer[b].work \cap Pending(b) = {}
      BY <2>2 DEF LeaseInv, BufferInv
    <3> QED BY <1>1, <1>3, <3>1, SubmitLease
  <2> QED BY <1>3, <2>1, <2>2
<1> QED BY <1>2, <1>3 DEF CommitBegin

(* The commit after the loop over gPending. *)
LEMMA NativeCommitLease ==
  ASSUME TypeOK, TypeOK', LeaseInv, NEW b \in Buffers, NativeCommit(b)
  PROVE  LeaseInv'
<1>1. /\ buffer[b].pc = "committing" /\ pending[b] = <<>>
      /\ inflight' = Submitted(b) /\ buffer' = [buffer EXCEPT ![b] = IdleBuffer]
      /\ UNCHANGED <<store, slot, pending, nonempty, worker, retiring>>
  BY DEF NativeCommit
<1>2. ~Encoding(b)
  BY <1>1 DEF Encoding, LeaseInv, ReplayInv
<1>3. buffer[b].work \cap Pending(b) = {}
  BY <1>1 DEF Pending
<1> QED BY <1>1, <1>2, <1>3, SubmitLease

(* The GPU is done with a commit. *)
LEMMA GpuDoneLease ==
  ASSUME TypeOK, TypeOK', LeaseInv, NEW c \in inflight, GpuDone(c)
  PROVE  LeaseInv'
<1>1. PICK new : new = Finished(c)
  OBVIOUS
<1>2. /\ inflight' \subseteq (inflight \ {c}) \cup {new}
      /\ new.handlers = c.handlers /\ new.done
  BY <1>1, GpuDoneFacts
<1>3. UNCHANGED <<store, slot, pending, nonempty, worker, buffer, retiring>>
  BY DEF GpuDone
<1>4. \A b \in Buffers : Pending(b)' = Pending(b)
  BY <1>3 DEF Pending
<1>5. \A b \in Buffers, z \in Slots : Uses(b, z)' <=> Uses(b, z)
  BY <1>3, <1>4 DEF Uses
<1>6. \A z \in Slots : Runs(new, z) => Runs(c, z)
  BY <1>2 DEF Runs
<1>7. PlaceInv'
  <2>1. ASSUME NEW b \in Buffers, NEW z \in Slots, Uses(b, z)
        PROVE  /\ slot[z].buffer = b /\ z \notin retiring
               /\ \A d \in inflight' : ~Runs(d, z)
    BY <1>2, <1>6, <2>1 DEF LeaseInv, PlaceInv
  <2>2. ASSUME NEW z \in Slots, NEW d \in inflight', Runs(d, z)
        PROVE  z \notin retiring /\ \A e \in inflight' : Runs(e, z) => e = d
    BY <1>2, <1>6, <2>2 DEF LeaseInv, PlaceInv
  <2> QED BY <1>3, <1>5, <2>1, <2>2 DEF PlaceInv
<1>8. StoreInv'
  BY <1>2, <1>3, <1>4 DEF LeaseInv, StoreInv, Stored
<1>9. ReplayInv'
  BY <1>3 DEF LeaseInv, ReplayInv, Pending
<1>10. BufferInv' /\ PendingInv'
  BY <1>3, <1>4 DEF LeaseInv, BufferInv, PendingInv
<1> QED BY <1>7, <1>8, <1>9, <1>10 DEF LeaseInv

(* The first half of retire(): a feedback handler drops the lease of a     *)
(* slot that no other commit and no buffer refers to.                      *)
LEMMA FeedbackLease ==
  ASSUME TypeOK, TypeOK', LeaseInv, NEW c \in inflight, NEW s \in Slots, Feedback(c, s)
  PROVE  LeaseInv'
<1>1. PICK new : new = Handled(c, s)
  OBVIOUS
<1>2. /\ inflight' \subseteq (inflight \ {c}) \cup {new}
      /\ new.handlers = c.handlers \ {s} /\ new.done /\ c.done /\ s \in c.handlers
  BY <1>1, FeedbackFacts
<1>3. /\ UNCHANGED <<store, pending, nonempty, worker, buffer>>
      /\ retiring' = retiring \cup {s}
  BY DEF Feedback
<1>4. /\ \A z \in Slots : slot'[z].owner = slot[z].owner /\ slot'[z].buffer = slot[z].buffer
      /\ \A z \in Slots : z # s => slot'[z].lease = slot[z].lease
  BY FeedbackFacts
<1>5. \A b \in Buffers : Pending(b)' = Pending(b) /\ Pending(b) \subseteq Slots
  BY <1>3 DEF Pending, TypeOK
<1>6. \A b \in Buffers, z \in Slots : Uses(b, z)' <=> Uses(b, z)
  BY <1>3, <1>5 DEF Uses
<1>7. \A z \in Slots : Runs(new, z) => Runs(c, z) /\ z # s
  BY <1>2 DEF Runs
<1>8. /\ \A b \in Buffers : ~Uses(b, s)
      /\ \A d \in inflight : Runs(d, s) => d = c
  <2>1. Runs(c, s)
    BY <1>2 DEF Runs
  <2> QED BY <2>1 DEF LeaseInv, PlaceInv
<1>9. PlaceInv'
  <2>1. ASSUME NEW b \in Buffers, NEW z \in Slots, Uses(b, z)
        PROVE  /\ slot'[z].buffer = b /\ z \notin retiring'
               /\ \A d \in inflight' : ~Runs(d, z)
    <3>1. z # s
      BY <1>8, <2>1
    <3>2. slot[z].buffer = b /\ z \notin retiring /\ \A d \in inflight : ~Runs(d, z)
      BY <2>1 DEF LeaseInv, PlaceInv
    <3> QED BY <1>2, <1>3, <1>4, <1>7, <3>1, <3>2
  <2>2. ASSUME NEW z \in Slots, NEW d \in inflight', Runs(d, z)
        PROVE  z \notin retiring' /\ \A e \in inflight' : Runs(e, z) => e = d
    <3>1. z # s
      BY <1>2, <1>7, <1>8, <2>2
    <3>2. z \notin retiring /\ \A e \in inflight' : Runs(e, z) => e = d
      BY <1>2, <1>7, <2>2 DEF LeaseInv, PlaceInv
    <3> QED BY <1>3, <3>1, <3>2
  <2> QED BY <1>6, <2>1, <2>2 DEF PlaceInv
<1>10. StoreInv'
  <2>1. \A z \in Slots : Stored(z)' <=> Stored(z)
    BY <1>3, <1>4 DEF Stored
  <2>2. \A p \in Owners : \A z \in store'[p] : slot'[z].owner = p
    BY <1>3, <1>4 DEF LeaseInv, StoreInv, TypeOK
  <2>3. ASSUME NEW b \in Buffers, NEW z \in buffer'[b].work
        PROVE  Stored(z)' /\ slot'[z].lease
    <3>1. z \in buffer[b].work /\ z \in Slots
      BY <1>3, BufferFields
    <3>2. z # s
      BY <1>8, <3>1 DEF Uses
    <3> QED BY <1>4, <2>1, <3>1, <3>2 DEF LeaseInv, StoreInv
  <2>4. \A b \in Buffers : \A z \in Pending(b)' : Stored(z)'
    BY <1>5, <2>1 DEF LeaseInv, StoreInv
  <2>5. ASSUME NEW d \in inflight', ~d.done, NEW z \in d.work
        PROVE  Stored(z)' /\ slot'[z].lease
    <3>1. d \in inflight /\ d # c
      BY <1>2, <2>5
    <3>2. z \in Slots /\ Runs(d, z)
      BY <2>5, <3>1 DEF TypeOK, Commit, Runs
    <3>3. z # s
      BY <1>8, <3>1, <3>2
    <3> QED BY <1>4, <2>1, <2>5, <3>1, <3>2, <3>3 DEF LeaseInv, StoreInv
  <2> QED BY <2>2, <2>3, <2>4, <2>5 DEF StoreInv
<1>11. ReplayInv'
  <2> SUFFICES ASSUME NEW w \in Workers, worker[w] # None
               PROVE  /\ slot'[worker[w].slot].owner = worker[w].owner
                      /\ worker[w].slot \in store[worker[w].owner]
                      /\ buffer[worker[w].buffer].pc = "open"
                      /\ buffer[worker[w].buffer].transport = "legacy" =>
                           worker[w].slot \notin Pending(worker[w].buffer)
    BY <1>3 DEF ReplayInv, Pending
  <2> QED BY <1>4, ReplayFields DEF LeaseInv, ReplayInv
<1>12. BufferInv' /\ PendingInv'
  BY <1>3, <1>5 DEF LeaseInv, BufferInv, PendingInv
<1> QED BY <1>9, <1>10, <1>11, <1>12 DEF LeaseInv

(* ~OwnerState: the slots it lists leave gPending with it, and no work of  *)
(* its slots is left.                                                      *)
LEMMA ResetLease ==
  ASSUME TypeOK, TypeOK', LeaseInv, NEW o \in Owners, Reset(o)
  PROVE  LeaseInv'
<1>1. /\ ~Replaying(o)
      /\ \A b \in Buffers : \A s \in buffer[b].work : slot[s].owner # o
      /\ \A c \in inflight : c.done \/ \A s \in c.work : slot[s].owner # o
      /\ nonempty' = (nonempty /\ (pending' = pending \/ ~AllEmpty(pending')))
      /\ UNCHANGED <<worker, buffer, inflight, retiring>>
  BY DEF Reset
<1>2. \A p \in Owners : store'[p] = IF p = o THEN {} ELSE store[p]
  BY DEF Reset, TypeOK
<1>3. /\ \A s \in Slots : Allocated(s)' => slot'[s].buffer = slot[s].buffer
      /\ \A s \in Slots : Allocated(s)' /\ slot[s].owner # o => slot'[s] = slot[s]
  <2>1. \A s \in Slots : Allocated(s)' => slot'[s] = Orphaned(o)[s]
    BY ResetEffect, KeptFacts
  <2> QED BY <2>1, ResetEffect
<1>4. \A b \in Buffers : /\ Pending(b) \subseteq Slots /\ Pending(b)' \subseteq Slots
  BY DEF Pending, TypeOK
<1>5. \A b \in Buffers, s \in Slots : s \in Pending(b)' =>
        s \in Pending(b) /\ ~(s \in store[o] /\ slot[s].buffer = b)
  BY ResetEffect, InPending
<1>6. ASSUME NEW b \in Buffers, NEW s \in Pending(b)'
      PROVE  s \in Slots /\ Stored(s) /\ slot[s].owner # o
  <2>1. s \in Slots
    BY <1>4
  <2>2. s \in Pending(b)
    BY <1>5, <2>1
  <2>3. Stored(s)
    BY <2>2 DEF LeaseInv, StoreInv
  <2>4. slot[s].buffer = b
    <3>1. Uses(b, s)
      BY <2>2 DEF Uses
    <3> QED BY <2>1, <3>1 DEF LeaseInv, PlaceInv
  <2>5. s \notin store[o]
    BY <1>5, <2>1, <2>4
  <2> QED BY <2>1, <2>3, <2>5 DEF Stored
<1>7. ASSUME NEW s \in Slots, Stored(s), slot[s].owner # o
      PROVE  Stored(s)' /\ slot'[s] = slot[s]
  <2>1. PICK p \in Owners : slot[s].owner = p /\ s \in store[p] /\ p # o /\ p # None
    BY <1>7 DEF Stored, TypeOK, Slot
  <2>2. s \in store'[p]
    BY <1>2, <2>1
  <2>3. Allocated(s)'
    BY <2>2 DEF Allocated
  <2>4. slot'[s] = slot[s]
    BY <1>3, <1>7, <2>3
  <2>5. Stored(s)'
    BY <2>1, <2>2, <2>4 DEF Stored
  <2> QED BY <2>4, <2>5
<1>8. \A b \in Buffers, s \in Slots : Uses(b, s)' => Uses(b, s)
  BY <1>1, <1>5 DEF Uses
<1>9. StoreInv'
  <2>1. ASSUME NEW p \in Owners, NEW s \in store'[p] PROVE slot'[s].owner = p
    <3>1. s \in Slots /\ s \in store[p] /\ p # o
      BY <1>2 DEF TypeOK
    <3>2. slot[s].owner = p
      BY <3>1 DEF LeaseInv, StoreInv
    <3>3. Allocated(s)'
      BY DEF Allocated
    <3>4. slot'[s] = slot[s]
      BY <1>3, <3>1, <3>2, <3>3
    <3> QED BY <3>2, <3>4
  <2>2. ASSUME NEW b \in Buffers, NEW s \in buffer'[b].work
        PROVE  Stored(s)' /\ slot'[s].lease
    <3>1. s \in buffer[b].work /\ s \in Slots
      BY <1>1, BufferFields
    <3>2. Stored(s) /\ slot[s].lease /\ slot[s].owner # o
      BY <1>1, <3>1 DEF LeaseInv, StoreInv
    <3> QED BY <1>7, <3>1, <3>2
  <2>3. ASSUME NEW b \in Buffers, NEW s \in Pending(b)' PROVE Stored(s)'
    BY <1>6, <1>7
  <2>4. ASSUME NEW c \in inflight', ~c.done, NEW s \in c.work
        PROVE  Stored(s)' /\ slot'[s].lease
    <3>1. c \in inflight /\ s \in Slots
      BY <1>1 DEF TypeOK, Commit
    <3>2. Stored(s) /\ slot[s].lease /\ slot[s].owner # o
      BY <1>1, <2>4, <3>1 DEF LeaseInv, StoreInv
    <3> QED BY <1>7, <3>1, <3>2
  <2> QED BY <2>1, <2>2, <2>3, <2>4 DEF StoreInv
<1>10. PlaceInv'
  <2>1. ASSUME NEW b \in Buffers, NEW s \in Slots, Uses(b, s)'
        PROVE  /\ slot'[s].buffer = b /\ s \notin retiring'
               /\ \A d \in inflight' : ~Runs(d, s)
    <3>1. Uses(b, s) /\ Allocated(s)'
      BY <1>8, <1>9, <2>1, UsedIsAllocated
    <3> QED BY <1>1, <1>3, <3>1 DEF LeaseInv, PlaceInv
  <2>2. \A s \in Slots, c \in inflight' : Runs(c, s) =>
          s \notin retiring' /\ \A d \in inflight' : Runs(d, s) => d = c
    BY <1>1 DEF LeaseInv, PlaceInv
  <2> QED BY <2>1, <2>2 DEF PlaceInv
<1>11. ReplayInv'
  <2> SUFFICES ASSUME NEW w \in Workers, worker[w] # None
               PROVE  /\ slot'[worker[w].slot].owner = worker[w].owner
                      /\ worker[w].slot \in store'[worker[w].owner]
                      /\ buffer[worker[w].buffer].pc = "open"
                      /\ buffer[worker[w].buffer].transport = "legacy" =>
                           ~Occurs(pending'[worker[w].buffer], worker[w].slot)
    BY <1>1 DEF ReplayInv, Pending, Occurs
  <2>1. PICK s \in Slots, b \in Buffers, p \in Owners :
          s = worker[w].slot /\ b = worker[w].buffer /\ p = worker[w].owner
    BY ReplayFields
  <2>2. /\ slot[s].owner = p /\ s \in store[p] /\ buffer[b].pc = "open"
        /\ buffer[b].transport = "legacy" => s \notin Pending(b)
    BY <2>1 DEF LeaseInv, ReplayInv
  <2>3. p # o /\ p # None
    BY <1>1, <2>1, NoneAssumption DEF Replaying
  <2>4. Stored(s)
    BY <2>2, <2>3 DEF Stored
  <2>5. slot'[s] = slot[s]
    BY <1>7, <2>2, <2>3, <2>4
  <2>6. s \in store'[p]
    BY <1>2, <2>2, <2>3
  <2>7. buffer[b].transport = "legacy" => ~Occurs(pending'[b], s)
    BY <1>5, <2>2, InPending
  <2> QED BY <2>1, <2>2, <2>5, <2>6, <2>7
<1>12. BufferInv'
  <2>1. \A b \in Buffers : Pending(b)' \subseteq Pending(b)
    BY <1>4, <1>5
  <2> QED BY <1>1, <2>1 DEF LeaseInv, BufferInv
<1>13. PendingInv'
  <2> SUFFICES ASSUME NEW b \in Buffers
               PROVE  /\ \A i, j \in 1..Len(pending'[b]) :
                           pending'[b][i] = pending'[b][j] => i = j
                      /\ pending'[b] # <<>> => nonempty'
    BY DEF PendingInv
  <2>1. Distinct(pending'[b])
    <3>1. Distinct(pending[b])
      BY DEF LeaseInv, PendingInv, Distinct
    <3> QED BY <3>1, ResetEffect
  <2>2. ASSUME pending'[b] # <<>> PROVE nonempty'
    <3>1. pending'[b] \in Seq(Slots) /\ Len(pending'[b]) # 0 /\ Len(pending'[b]) \in Nat
      BY <2>2 DEF TypeOK
    <3>2. Occurs(pending'[b], pending'[b][1]) /\ pending'[b][1] \in Slots
      BY <3>1 DEF Occurs
    <3>3. Occurs(pending[b], pending'[b][1])
      BY <3>2, ResetEffect
    <3>4. pending[b] # <<>>
      BY <3>3 DEF Occurs
    <3>5. nonempty /\ ~AllEmpty(pending')
      BY <2>2, <3>4 DEF LeaseInv, PendingInv, AllEmpty
    <3> QED BY <1>1, <3>5, Zenon
  <2> QED BY <2>1, <2>2 DEF Distinct
<1> QED BY <1>9, <1>10, <1>11, <1>12, <1>13 DEF LeaseInv

-----------------------------------------------------------------------------
(* LeaseInv holds at the start. *)
LEMMA LeaseInit == Init => LeaseInv
<1> SUFFICES ASSUME Init PROVE LeaseInv
  OBVIOUS
<1>1. /\ \A b \in Buffers : pending[b] = <<>> /\ buffer[b] = IdleBuffer
      /\ \A w \in Workers : worker[w] = None
      /\ \A o \in Owners : store[o] = {}
      /\ inflight = {} /\ retiring = {}
  BY DEF Init
<1>2. \A b \in Buffers : Pending(b) = {} /\ Len(pending[b]) = 0
  BY <1>1 DEF Pending
<1>3. \A b \in Buffers : /\ buffer[b].work = {} /\ buffer[b].handlers = {}
                         /\ buffer[b].held = None
  BY <1>1 DEF IdleBuffer
<1>4. \A b \in Buffers, s \in Slots : ~Uses(b, s)
  BY <1>1, <1>2, <1>3, NoneAssumption DEF Uses
<1>5. PlaceInv
  BY <1>1, <1>4 DEF PlaceInv
<1>6. StoreInv /\ ReplayInv
  BY <1>1, <1>2, <1>3 DEF StoreInv, ReplayInv
<1>7. BufferInv /\ PendingInv
  BY <1>1, <1>2, <1>3 DEF BufferInv, PendingInv
<1> QED BY <1>5, <1>6, <1>7 DEF LeaseInv

(* And every step keeps it. *)
LEMMA LeaseStep == TypeOK /\ TypeOK' /\ LeaseInv /\ [Next]_vars => LeaseInv'
<1> SUFFICES ASSUME TypeOK, TypeOK', LeaseInv, [Next]_vars PROVE LeaseInv'
  OBVIOUS
<1>1. CASE UNCHANGED <<store, slot, pending, nonempty, worker, buffer, inflight, retiring>>
  <2>1. \A b \in Buffers : Pending(b)' = Pending(b)
    BY <1>1 DEF Pending
  <2>2. \A b \in Buffers, s \in Slots : Uses(b, s)' <=> Uses(b, s)
    BY <1>1, <2>1 DEF Uses
  <2>3. PlaceInv' /\ StoreInv'
    BY <1>1, <2>1, <2>2, QuietPlaces
  <2>4. ReplayInv'
    BY <1>1 DEF LeaseInv, ReplayInv, Pending
  <2>5. BufferInv' /\ PendingInv'
    BY <1>1, <2>1 DEF LeaseInv, BufferInv, PendingInv
  <2> QED BY <2>3, <2>4, <2>5 DEF LeaseInv
<1>2. ASSUME NEW o \in Owners, NEW transport \in Transports, Record(o, transport)
      PROVE  LeaseInv'
  BY <1>1, <1>2 DEF Record
<1>3. CASE UNCHANGED vars
  BY <1>1, <1>3 DEF vars
<1>4. ASSUME NEW b \in Buffers, CommitStep(b) PROVE LeaseInv'
  BY <1>4, PopLease, AddHandlerLease, NativeCommitLease DEF CommitStep
<1>5. ASSUME NEW s \in Slots, HandlerRuns(s) PROVE LeaseInv'
  BY <1>5, RetireLease, FeedbackLease DEF HandlerRuns
<1>6. CASE GpuStep
  BY <1>6, GpuDoneLease DEF GpuStep
<1> QED BY <1>2, <1>3, <1>4, <1>5, <1>6, ResetLease, OpenLease, AbandonLease,
           CommitBeginLease, ReserveLease, ReserveLegacyLease, EncodeLease,
           EncodeNothingLease DEF Next

(* The inductive invariant. *)
THEOREM LeaseAlways == Spec => [](TypeOK /\ LeaseInv)
<1>1. Init => LeaseInv
  BY LeaseInit
<1>2. TypeOK /\ TypeOK' /\ LeaseInv /\ [Next]_vars => LeaseInv'
  BY LeaseStep
<1> QED BY <1>1, <1>2, TypeCorrect, PTL DEF Spec

(* The lease on what GPU work uses is held from before encode() appends    *)
(* the work until the GPU is done, whatever handler registration, Reset    *)
(* and the reuse of addresses do meanwhile.                                *)
THEOREM LeasesOutliveWork == Spec => []LeaseHeldWhileOnGPU
<1>1. TypeOK /\ LeaseInv => LeaseHeldWhileOnGPU
  <2> SUFFICES ASSUME TypeOK, LeaseInv PROVE LeaseHeldWhileOnGPU
    OBVIOUS
  <2>1. ASSUME NEW s \in Slots, Stored(s) PROVE Allocated(s)
    BY <2>1 DEF Stored, Allocated, TypeOK, Slot
  <2>2. ASSUME NEW b \in Buffers, NEW s \in buffer[b].work
        PROVE  Allocated(s) /\ slot[s].lease
    <3>1. s \in Slots /\ Stored(s) /\ slot[s].lease
      BY BufferFields DEF LeaseInv, StoreInv
    <3> QED BY <2>1, <3>1
  <2>3. ASSUME NEW c \in inflight, ~c.done, NEW s \in c.work
        PROVE  Allocated(s) /\ slot[s].lease
    <3>1. s \in Slots /\ Stored(s) /\ slot[s].lease
      BY <2>3 DEF LeaseInv, StoreInv, TypeOK, Commit
    <3> QED BY <2>1, <3>1
  <2> QED BY <2>2, <2>3 DEF LeaseHeldWhileOnGPU
<1> QED BY <1>1, LeaseAlways, PTL

(* A commit leaves none of its slots in gPending: the slots of work that   *)
(* the GPU has not finished are not listed under any buffer address.       *)
THEOREM CommitsForgetNothing == Spec => []CommittedNotPending
<1>1. TypeOK /\ LeaseInv => CommittedNotPending
  <2> SUFFICES ASSUME TypeOK, LeaseInv, NEW c \in inflight, ~c.done, NEW s \in c.work,
                      NEW b \in Buffers, s \in Pending(b)
               PROVE  FALSE
    BY DEF CommittedNotPending
  <2>1. s \in Slots /\ Runs(c, s)
    BY DEF TypeOK, Commit, Runs
  <2>2. Uses(b, s)
    BY DEF Uses
  <2> QED BY <2>1, <2>2 DEF LeaseInv, PlaceInv
<1> QED BY <1>1, LeaseAlways, PTL

(* A sequence without repetitions has as many members as places. *)
LEMMA DistinctSize ==
  ASSUME NEW S, NEW q \in Seq(S), Distinct(q)
  PROVE  Cardinality({q[i] : i \in 1..Len(q)}) = Len(q)
<1> DEFINE D == 1..Len(q)
           R == {q[i] : i \in D}
           f == [i \in D |-> q[i]]
<1>0. Len(q) \in Nat
  OBVIOUS
<1>1. f \in Bijection(D, R)
  BY DEF Distinct, Bijection, Injection, IsInjective, Surjection
<1>2. IsFiniteSet(D) /\ Cardinality(D) = Len(q)
  <2>1. Cardinality(D) = IF 1 > Len(q) THEN 0 ELSE Len(q) - 1 + 1
    BY <1>0, FS_Interval
  <2> QED BY <1>0, <2>1, FS_Interval
<1>3. ExistsBijection(D, R)
  BY <1>1 DEF ExistsBijection
<1> HIDE DEF D, R
<1>4. Cardinality(D) = Cardinality(R)
  BY <1>2, <1>3, FS_Bijection
<1> QED BY <1>2, <1>4 DEF R, D

(* gPending holds no expired reference and no reference twice: a listed    *)
(* slot is still in the store of its owner, under its own buffer.          *)
THEOREM PendingAlive == Spec => []PendingIsStored
<1>1. TypeOK /\ LeaseInv => PendingIsStored
  <2> SUFFICES ASSUME TypeOK, LeaseInv, NEW b \in Buffers
               PROVE  /\ Cardinality(Pending(b)) = Len(pending[b])
                      /\ \A s \in Pending(b) : /\ slot[s].buffer = b
                                               /\ slot[s].owner # None
                                               /\ s \in store[slot[s].owner]
    BY DEF PendingIsStored
  <2>1. pending[b] \in Seq(Slots) /\ Distinct(pending[b])
    BY DEF TypeOK, LeaseInv, PendingInv, Distinct
  <2>2. Cardinality(Pending(b)) = Len(pending[b])
    BY <2>1, DistinctSize DEF Pending
  <2>3. ASSUME NEW s \in Pending(b) PROVE slot[s].buffer = b /\ Stored(s)
    <3>1. s \in Slots
      BY <2>1 DEF Pending
    <3>2. Uses(b, s)
      BY DEF Uses
    <3> QED BY <3>1, <3>2 DEF LeaseInv, PlaceInv, StoreInv
  <2> QED BY <2>2, <2>3 DEF Stored
<1> QED BY <1>1, LeaseAlways, PTL
=============================================================================
