--------------------------- MODULE ExecutionLease ---------------------------
(***************************************************************************)
(* Lifetime of recorded MetalFX work on the Metal 4 transport              *)
(* (d3dmetal-pso-cache/d3dmetal-transport.mm and .hpp) and on the legacy   *)
(* one (d3dmetal-transport-legacy.mm).                                     *)
(*                                                                         *)
(* record() hands an owner (OwnerState) to the native command allocator,   *)
(* which releases it in Reset.  Each replay of the owner into a command    *)
(* buffer makes an ExecutionSlot that holds the lease on the resources the *)
(* GPU work uses.  A slot is kept by its owner's ExecutionLeaseStore, and  *)
(* is listed in gPending, by weak reference, under the buffer's address.   *)
(* commitRecordedBatch moves the slots of a buffer to feedback handlers,   *)
(* which drop the leases when the GPU is done, without waiting for Reset.  *)
(* A legacy buffer has its completion handlers installed as it is encoded, *)
(* and does not appear in gPending.                                        *)
(***************************************************************************)
EXTENDS Integers, Sequences, FiniteSets

CONSTANTS
  Workers,   \* native threads that replay command lists
  Owners,    \* addresses of OwnerState objects
  Buffers,   \* addresses of command buffers; reused as soon as committed
  Slots,     \* addresses of ExecutionSlot objects
  None       \* nullptr

ASSUME NoneAssumption == None \notin Workers \cup Owners \cup Buffers \cup Slots

VARIABLES
  recorded,  \* the owners held by their command allocator, by transport
  store,     \* OwnerState::leases of each owner
  slot,      \* the ExecutionSlot objects
  pending,   \* gPending: for each buffer a vector of weak references
  nonempty,  \* gPendingNonempty
  worker,    \* the replay each worker is in
  buffer,    \* the command buffers being encoded or committed
  inflight,  \* commits whose feedback handlers have not all begun
  retiring   \* slots between the two halves of retire()

vars == <<recorded, store, slot, pending, nonempty, worker, buffer, inflight,
          retiring>>

-----------------------------------------------------------------------------
Transports == {"metal4", "legacy"}

(* owner is the weak_ptr to the store of the owner. *)
Slot ==
  [owner : Owners \cup {None}, buffer : Buffers \cup {None}, lease : BOOLEAN]

(* A replay: encode() of owner into buffer, with its slot reserved. *)
Replay == [owner : Owners, buffer : Buffers, slot : Slots] \cup {None}

(* work: the slots whose GPU work the buffer holds.  held: the slot popped *)
(* from gPending but not yet given to a handler.  handlers: the slots      *)
(* captured by feedback handlers of the commit being prepared.             *)
Buffer ==
  [pc : {"idle", "open", "committing"}, transport : Transports \cup {None},
   work : SUBSET Slots, held : Slots \cup {None}, handlers : SUBSET Slots]

Commit == [work : SUBSET Slots, handlers : SUBSET Slots, done : BOOLEAN]

IdleBuffer ==
  [pc |-> "idle", transport |-> None, work |-> {}, held |-> None, handlers |-> {}]

FreeSlot == [owner |-> None, buffer |-> None, lease |-> FALSE]

Init ==
  /\ recorded = [o \in Owners |-> None]
  /\ store = [o \in Owners |-> {}]
  /\ slot = [s \in Slots |-> FreeSlot]
  /\ pending = [b \in Buffers |-> <<>>]
  /\ nonempty = FALSE
  /\ worker = [w \in Workers |-> None]
  /\ buffer = [b \in Buffers |-> IdleBuffer]
  /\ inflight = {}
  /\ retiring = {}

(* The strong references to a slot. *)
Allocated(s) ==
  \/ \E o \in Owners : s \in store[o]
  \/ \E w \in Workers : worker[w] # None /\ worker[w].slot = s
  \/ \E b \in Buffers : buffer[b].held = s \/ s \in buffer[b].handlers
  \/ \E c \in inflight : s \in c.handlers
  \/ s \in retiring

(* The last reference destroys the slot and drops its lease. *)
Kept(slots) == [s \in Slots |-> IF Allocated(s)' THEN slots[s] ELSE FreeSlot]

Pending(b) == {pending[b][i] : i \in 1..Len(pending[b])}
Replaying(o) == \E w \in Workers : worker[w] # None /\ worker[w].owner = o
Encoding(b) == \E w \in Workers : worker[w] # None /\ worker[w].buffer = b
AllEmpty(p) == \A b \in Buffers : p[b] = <<>>

-----------------------------------------------------------------------------
(* record(): the owner's +1 goes to the command allocator. *)
Record(o, transport) ==
  /\ recorded[o] = None
  /\ recorded' = [recorded EXCEPT ![o] = transport]
  /\ UNCHANGED <<store, slot, pending, nonempty, worker, buffer, inflight, retiring>>

(* A buffer that encode() of owner may now write into. *)
Encodable(w, o, b) ==
  /\ worker[w] = None
  /\ recorded[o] = buffer[b].transport /\ ~Replaying(o)
  /\ buffer[b].pc = "open" /\ ~Encoding(b)

(* The native queue begins encoding into a command buffer. *)
Open(b, transport) ==
  /\ buffer[b].pc = "idle"
  /\ buffer' = [buffer EXCEPT ![b].pc = "open", ![b].transport = transport]
  /\ UNCHANGED <<recorded, store, slot, pending, nonempty, worker, inflight, retiring>>

(* encode() under leaseLock: reserveExecutionSlot puts an empty slot in    *)
(* the owner's store and in gPending before any GPU work.                  *)
Reserve(w, o, b) ==
  /\ Encodable(w, o, b)
  /\ buffer[b].transport = "metal4"
  /\ \E s \in Slots :
       /\ ~Allocated(s)
       /\ slot' = [slot EXCEPT ![s] = [owner |-> o, buffer |-> b, lease |-> FALSE]]
       /\ store' = [store EXCEPT ![o] = @ \cup {s}]
       /\ pending' = [pending EXCEPT ![b] = Append(@, s)]
       /\ worker' = [worker EXCEPT ![w] = [owner |-> o, buffer |-> b, slot |-> s]]
  /\ nonempty' = TRUE
  /\ UNCHANGED <<recorded, buffer, inflight, retiring>>

(* The legacy encode() under leaseLock: the slot goes to the owner's store *)
(* and to a completion handler of the buffer; if that cannot be added, the *)
(* slot stays with the owner until Reset.                                  *)
ReserveLegacy(w, o, b, ok) ==
  /\ Encodable(w, o, b)
  /\ buffer[b].transport = "legacy"
  /\ \E s \in Slots :
       /\ ~Allocated(s)
       /\ slot' = [slot EXCEPT ![s] = [owner |-> o, buffer |-> b, lease |-> FALSE]]
       /\ store' = [store EXCEPT ![o] = @ \cup {s}]
       /\ worker' = [worker EXCEPT ![w] = [owner |-> o, buffer |-> b, slot |-> s]]
       /\ buffer' = [buffer EXCEPT ![b].handlers = IF ok THEN @ \cup {s} ELSE @]
  /\ UNCHANGED <<recorded, pending, nonempty, inflight, retiring>>

(* The backend publishes the lease and appends GPU work, whether or not    *)
(* it then reports success.                                                *)
Encode(w) ==
  /\ worker[w] # None
  /\ slot' = [slot EXCEPT ![worker[w].slot].lease = TRUE]
  /\ buffer' = [buffer EXCEPT ![worker[w].buffer].work = @ \cup {worker[w].slot}]
  /\ worker' = [worker EXCEPT ![w] = None]
  /\ UNCHANGED <<recorded, store, pending, nonempty, inflight, retiring>>

(* The backend fails before it publishes a lease: encode() returns false   *)
(* and the empty slot stays where it is.                                   *)
EncodeNothing(w) ==
  /\ worker[w] # None
  /\ worker' = [worker EXCEPT ![w] = None]
  /\ UNCHANGED <<recorded, store, slot, pending, nonempty, buffer, inflight, retiring>>

(* The buffer is dropped without being committed. *)
Abandon(b) ==
  /\ buffer[b].pc = "open" /\ ~Encoding(b)
  /\ buffer' = [buffer EXCEPT ![b] = IdleBuffer]
  /\ UNCHANGED <<recorded, store, pending, nonempty, worker, inflight, retiring>>
  /\ slot' = Kept(slot)

-----------------------------------------------------------------------------
(* commitRecordedBatch. *)

(* The native commit; a commit without recorded work is not followed. *)
Submitted(b) ==
  LET c == [work |-> buffer[b].work, handlers |-> buffer[b].handlers, done |-> FALSE]
  IN inflight \cup (IF c.work \cup c.handlers = {} THEN {} ELSE {c})

(* The unlocked test of gPendingNonempty; without pending slots the buffer *)
(* is committed as it is.  Commits of legacy buffers are not hooked.       *)
CommitBegin(b) ==
  /\ buffer[b].pc = "open" /\ ~Encoding(b)
  /\ \/ /\ nonempty /\ buffer[b].transport = "metal4"
        /\ buffer' = [buffer EXCEPT ![b].pc = "committing"]
        /\ UNCHANGED inflight
     \/ /\ ~nonempty \/ buffer[b].transport = "legacy"
        /\ buffer' = [buffer EXCEPT ![b] = IdleBuffer]
        /\ inflight' = Submitted(b)
  /\ UNCHANGED <<recorded, store, slot, pending, nonempty, worker, retiring>>

(* The flag is cleared when the last entry of gPending is erased. *)
FlagAfterPop_AnyEntry(b, rest) == nonempty /\ rest[b] # <<>>
FlagAfterPop(b, rest) == nonempty /\ ~AllEmpty(rest)

(* One turn of the loop under gPendingLock: pop the last reference that is *)
(* still alive.                                                            *)
CommitPop(b) ==
  LET n == Len(pending[b])
      rest == [pending EXCEPT ![b] = SubSeq(@, 1, n - 1)]
  IN /\ buffer[b].pc = "committing"
     /\ buffer[b].held = None
     /\ n > 0
     /\ pending' = rest
     /\ nonempty' = FlagAfterPop(b, rest)
     /\ buffer' = [buffer EXCEPT ![b].held =
                     IF Allocated(pending[b][n]) THEN pending[b][n] ELSE None]
     /\ UNCHANGED <<recorded, store, slot, worker, inflight, retiring>>

(* addFeedbackHandler captures the slot; if it throws, the slot stays with *)
(* its owner until Reset.                                                  *)
AddHandler(b, ok) ==
  /\ buffer[b].held # None
  /\ buffer' = [buffer EXCEPT
       ![b].held = None,
       ![b].handlers = IF ok THEN @ \cup {buffer[b].held} ELSE @]
  /\ UNCHANGED <<recorded, store, pending, nonempty, worker, inflight, retiring>>
  /\ slot' = Kept(slot)

(* The buffer's entry is gone from gPending: the native commit. *)
NativeCommit(b) ==
  /\ buffer[b].pc = "committing"
  /\ buffer[b].held = None /\ pending[b] = <<>>
  /\ inflight' = Submitted(b)
  /\ buffer' = [buffer EXCEPT ![b] = IdleBuffer]
  /\ UNCHANGED <<recorded, store, slot, pending, nonempty, worker, retiring>>

-----------------------------------------------------------------------------
(* The GPU finishes a commit; its feedback handlers run some time later. *)
GpuDone(c) ==
  /\ ~c.done
  /\ inflight' = (inflight \ {c}) \cup
       (IF c.handlers = {} THEN {} ELSE {[c EXCEPT !.done = TRUE]})
  /\ UNCHANGED <<recorded, store, slot, pending, nonempty, worker, buffer, retiring>>

(* ExecutionSlot::retire, first half: drop the lease under the slot's mutex. *)
FeedbackReady_AtCommit(c) == TRUE
FeedbackReady(c) == c.done
Feedback(c, s) ==
  /\ FeedbackReady(c)
  /\ s \in c.handlers
  /\ slot' = [slot EXCEPT ![s].lease = FALSE]
  /\ retiring' = retiring \cup {s}
  /\ inflight' = (inflight \ {c}) \cup
       (IF c.handlers = {s} THEN {}
        ELSE {[c EXCEPT !.handlers = @ \ {s}]})
  /\ UNCHANGED <<recorded, store, pending, nonempty, worker, buffer>>

(* Second half: owner.lock(), and ExecutionLeaseStore::retire. *)
Unstored_Kept(s) == store
Unstored(s) ==
  [o \in Owners |-> IF slot[s].owner = o THEN store[o] \ {s} ELSE store[o]]
RetireFromStore(s) ==
  /\ s \in retiring
  /\ store' = Unstored(s)
  /\ retiring' = retiring \ {s}
  /\ UNCHANGED <<recorded, pending, nonempty, worker, buffer, inflight>>
  /\ slot' = Kept(slot)

(* std::erase_if on a vector of references: what is left without dead. *)
Erased(q, dead) ==
  LET left[i \in 0..Len(q)] ==
        IF i = 0 THEN <<>>
        ELSE IF q[i] \in dead THEN left[i - 1] ELSE Append(left[i - 1], q[i])
  IN left[Len(q)]

(* unregisterSlot for every slot of a dying store: the slot, and expired   *)
(* references, go from the vector of its buffer.                           *)
Unregistered_Kept(S) == pending
Unregistered(S) ==
  [b \in Buffers |->
     LET mine == {s \in S : slot[s].buffer = b}
     IN IF mine = {} THEN pending[b]
        ELSE Erased(pending[b], {s \in Slots : ~Allocated(s)} \cup mine)]

(* Allocator Reset releases the owner: ~OwnerState.  Under the rules of    *)
(* D3D12 none of its work is still to be executed or being executed.       *)
Reset(o) ==
  /\ recorded[o] # None
  /\ ~Replaying(o)
  /\ \A b \in Buffers : \A s \in buffer[b].work : slot[s].owner # o
  /\ \A c \in inflight : c.done \/ \A s \in c.work : slot[s].owner # o
  /\ recorded' = [recorded EXCEPT ![o] = None]
  /\ pending' = Unregistered(store[o])
  /\ nonempty' = (nonempty /\ (pending' = pending \/ ~AllEmpty(pending')))
  /\ store' = [store EXCEPT ![o] = {}]
  /\ UNCHANGED <<worker, buffer, inflight, retiring>>
  /\ slot' = Kept([s \in Slots |-> IF slot[s].owner = o
                                  THEN [slot[s] EXCEPT !.owner = None] ELSE slot[s]])

-----------------------------------------------------------------------------
HandlerRuns(s) ==
  \/ RetireFromStore(s)
  \/ \E c \in inflight : Feedback(c, s)

CommitStep(b) ==
  \/ CommitPop(b)
  \/ \E ok \in BOOLEAN : AddHandler(b, ok)
  \/ NativeCommit(b)

GpuStep == \E c \in inflight : GpuDone(c)

Next ==
  \/ \E o \in Owners :
       \/ \E transport \in Transports : Record(o, transport)
       \/ Reset(o)
  \/ \E b \in Buffers :
       \/ \E transport \in Transports : Open(b, transport)
       \/ Abandon(b)
       \/ CommitBegin(b)
       \/ CommitStep(b)
  \/ \E w \in Workers :
       \/ \E o \in Owners, b \in Buffers :
            Reserve(w, o, b) \/ \E ok \in BOOLEAN : ReserveLegacy(w, o, b, ok)
       \/ Encode(w)
       \/ EncodeNothing(w)
  \/ GpuStep
  \/ \E s \in Slots : HandlerRuns(s)

Spec == Init /\ [][Next]_vars

(* A commit goes through, the GPU makes progress on what is committed and  *)
(* Metal calls the handlers.  Nothing is assumed of Reset.                 *)
Fairness ==
  /\ \A b \in Buffers : WF_vars(CommitStep(b))
  /\ \A s \in Slots :
       /\ WF_vars(\E c \in inflight : s \in c.handlers /\ GpuDone(c))
       /\ WF_vars(HandlerRuns(s))

FairSpec == Spec /\ Fairness

-----------------------------------------------------------------------------
TypeOK ==
  /\ recorded \in [Owners -> Transports \cup {None}]
  /\ store \in [Owners -> SUBSET Slots]
  /\ slot \in [Slots -> Slot]
  /\ pending \in [Buffers -> Seq(Slots)]
  /\ nonempty \in BOOLEAN
  /\ worker \in [Workers -> Replay]
  /\ buffer \in [Buffers -> Buffer]
  /\ inflight \subseteq Commit
  /\ retiring \subseteq Slots

(* The lease on what GPU work uses is held from before the work is         *)
(* appended until the GPU is done with it: while a buffer is encoded, and  *)
(* while its commit runs, whatever handler registration, Reset and address *)
(* reuse do meanwhile.                                                     *)
LeaseHeldWhileOnGPU ==
  /\ \A b \in Buffers : \A s \in buffer[b].work : Allocated(s) /\ slot[s].lease
  /\ \A c \in inflight : ~c.done =>
       \A s \in c.work : Allocated(s) /\ slot[s].lease

(* gPending never holds an expired reference, so an address in it cannot   *)
(* come to mean another slot: each listed slot is listed once, under its   *)
(* own buffer, and is still in the store of its owner.                     *)
PendingIsStored ==
  \A b \in Buffers :
    /\ Cardinality(Pending(b)) = Len(pending[b])
    /\ \A s \in Pending(b) :
         /\ slot[s].buffer = b
         /\ slot[s].owner # None
         /\ s \in store[slot[s].owner]

(* The lock-free flag never lets a commit overlook a slot, and a commit    *)
(* leaves none of its own behind while others register: slots of committed *)
(* work are with a handler, or with their owner, but not in gPending,      *)
(* where the next commit of the same buffer address would retire them.     *)
CommittedNotPending ==
  \A c \in inflight : ~c.done =>
    \A s \in c.work : \A b \in Buffers : s \notin Pending(b)

(* Completed leases are retired without allocator Reset: a slot captured   *)
(* by a feedback handler is eventually freed, even if no owner is reset.   *)
CapturedIsFreed ==
  \A s \in Slots :
    (\E c \in inflight : s \in c.handlers) ~> ~Allocated(s)

=============================================================================
