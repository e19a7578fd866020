----------------------------- MODULE DeviceMemo -----------------------------
(***************************************************************************)
(* What the pipeline and the function cache promise of each device: for    *)
(* every key at most one creation is in progress, a success is kept until  *)
(* the device is forgotten, a failure leaves nothing behind, and while the *)
(* device is being destroyed nothing is kept at all.  Scopes, entries,     *)
(* waiting threads and nested calls are left out; they must be invisible.  *)
(***************************************************************************)
CONSTANTS Devices, Keys

VARIABLES
  table,     \* what is known of each key of each device
  retiring   \* the devices being destroyed

vars == <<table, retiring>>

Empty == [k \in Keys |-> "absent"]

Init ==
  /\ table = [d \in Devices |-> Empty]
  /\ retiring = {}

Turns(d, k, from, to) ==
  /\ table[d][k] = from
  /\ table' = [table EXCEPT ![d][k] = to]
  /\ UNCHANGED retiring

Begin(d, k) == d \notin retiring /\ Turns(d, k, "absent", "making")
Succeed(d, k) == Turns(d, k, "making", "made")
Fail(d, k) == Turns(d, k, "making", "absent")

Forget(d) ==
  /\ table' = [table EXCEPT ![d] = Empty]
  /\ UNCHANGED retiring

Retire(d) ==
  /\ table' = [table EXCEPT ![d] = Empty]
  /\ retiring' = retiring \cup {d}

(* The address may belong to another device from now on. *)
Retired(d) ==
  /\ retiring' = retiring \ {d}
  /\ UNCHANGED table

Next ==
  \E d \in Devices :
    \/ \E k \in Keys : Begin(d, k) \/ Succeed(d, k) \/ Fail(d, k)
    \/ Forget(d)
    \/ Retire(d)
    \/ Retired(d)

Spec == Init /\ [][Next]_vars
=============================================================================
