# Verification of the D3DMetal sidecar, the FidelityFX providers and the installer

The repository is a Wine 11.17 tree with its own additions for running a
Direct3D 12 game on Apple's D3DMetal: a native sidecar
(`src/d3dmetal-pso-cache/`), two FidelityFX provider DLLs
(`src/dlls/amd_fidelityfx_*_dx12/`), an installer, and scripts. This directory
holds TLA+ models of the parts of those additions that have state worth arguing
about, TLC runs, and TLAPS proofs. Vendored Wine is not modelled.

## The system

| Component | State | Operations | Hard behaviour |
|---|---|---|---|
| Pipeline cache (`cache.mm`) | scopes per device, entries per key, retirements, `waitingOn` links | `getOrCreate`, `forgetDevice`, `withDeviceRetired` | create callbacks re-enter the cache; device addresses are reused; entries fail |
| Function cache (`function-cache.mm`) | scopes, entries with a retained library and a snapshot | the same | library addresses are reused; every Objective-C call may re-enter or throw |
| Stage flights (`stage-cache.mm`) | flights on owners' stacks, registered by key | `compileStages`, `registerOuterKey` | a flight must outlive its waiters; nested compilations |
| Library flights (`stage-cache.mm`) | shared flights by stage result and device | `getAndRetainLibrarySingleFlight` | takeover by a waiter after a failure |
| Transport (`d3dmetal-transport.mm`, `d3dmetal-transport-legacy.mm`) | slots, stores per owner, `gPending`, `gPendingNonempty` | `record`, `encode`, `commitRecordedBatch`, feedback and completion handlers, owner reset | GPU completion, reset and commit in any order; an unlocked fast path; handlers that cannot be installed |
| Frame-generation provider (`main.c`) | contexts with a mode, a claimed swapchain, a callback binding, references, frame configurations, the last prepared frame | `ffxCreateContext`, `ffxConfigure`, `ffxDispatch`, `ffxQuery`, `ffxDestroyContext`, two callbacks | locks held across waits for callbacks; partial failure; destruction against calls in progress |
| Frame-generation translator (`fsr-framegeneration.mm`) | prepared frames, jitter, history | Prepare, Dispatch, Configure, Destroy, `PreparedFrame::encode` | commands encoded late, twice or out of order, also after OFF |
| Upscaling translator and backend (`fsr-translator.mm`, `metalfx-backend.mm`) | a current and three inactive backends, a pending reset; a scaler per backend | `dispatch`, `destroy`, `prepare`, `encode` | failures between a switch and the frame that must reset; scalers replaced under recorded frames |
| Installer (`InstallerEngine.swift`, `ResourceRegistration.swift`, `RegistrationMain.swift`) | the launcher's folder: runtime, backups, selection, frontend, helper | install, restore, registration on update | any operation throws, also in the rollback; crashes; attempts after attempts |
| Bridge, hooks, keys, upscaling provider, scripts | see `PROJECT.json` | | not modelled |

How they interact. The bridge calls the pipeline cache and the function cache
for a device; D3DMetal's native creation code, called back from a cache, goes
through the stage hooks and may come back to the caches. Destruction of a
device retires it in the function cache, then in the pipeline cache, and then
runs the native destructor. The frame-generation provider sends packets to the
native translator, which records commands through the transport; the host's
replayer encodes them later and its commit path hands slots to completion
handlers. The application's swapchain calls the provider back from presenter
threads.

What makes each part correct: one creation per key at a time, no cycle of
waits, no lost wake-up, no failure or dead device served from a cache; leases
held while the GPU uses them; a callback binding and a context alive while a
swapchain may call them; one provider per frame; the right configuration for
each frame; interpolation and upscaling only from a history that belongs to the
frame; and a user's runtime that no failed or interrupted installation loses.

## Modules

* `PsoCache`: `cache.mm`. A thread's state is a stack of calls, because
  `create()` is foreign code that calls back; each lock section is one action.
  `activeProducer` and `waitingOn` are the code's links; `outcome` is an entry's
  result. `life` and `bornIn` are history: which device an address meant when an
  entry was made. `PsoCacheProofs` has the proofs.
* `DeviceMemo`: what both caches promise, without scopes, entries, waits and
  nesting: a table from device and key to absent, making or made, and the set of
  devices being destroyed. `PsoCache` and `FunctionCache` instantiate it with
  their refinement mappings (`Memo == INSTANCE DeviceMemo WITH ...`) and check it
  as `ImplementsMemo`: a failure leaves nothing behind, a retired device keeps
  nothing until its last retirement has ended, and every change of the mapped
  entries is one step of the memo.
* `StageOuterFlight`: the flights of `compileStages`. A flight's address is a
  thread and a depth: it is a local of the owner's scope.
* `StageLibraryFlight`: the flights of `getAndRetainLibrarySingleFlight`.
* `StageCache`: the composition of these two on the same threads. The native
  compiler run by an outer flight asks for libraries; each layer looks for wait
  cycles among its own calls only. The composition rests on one assumption about
  native code (`MayCompile`): making a library from a finished stage result
  compiles no stages. `StageCacheProofs` has the proofs.
* `FunctionCache`: `function-cache.mm`; the pcs of a producer are retain,
  create, snapshot and publish, each of which may fail or re-enter.
  `FunctionCacheProofs` has the proofs.
* `ExecutionLease`: slots from reservation to retirement, on both transports. A
  Metal 4 slot is listed in `gPending` and given to a feedback handler at commit;
  a legacy one has its completion handler installed as it is encoded. The GPU and
  the opening and discarding of command buffers are external, and an allocator is
  reset only when none of its work is outstanding, as D3D12 demands. `Erased` is
  `std::erase_if`, written as a recursive function so that it can be proved
  about. `ExecutionLeaseProofs` has the proofs.
* `FgContext`: contexts of the frame-generation provider. `contexts_lock` and
  `dispatch_lock` are held over single steps and are not variables;
  `configure_lock` is held across waits and is one (`holder`). The native
  provider and its swapchain are external: `native.configure`, `set_config` and
  `wait_for_presents` wait for the callbacks in progress, and may fail. A MetalFX
  context gives the swapchain a `callback_binding`, which wraps the application's
  callbacks (`EnterCallback`); a native one gives it these callbacks themselves
  (`EnterUnwrapped`), in which `in_callback` is false (`main.c:546`). The first
  Prepare is two steps, because `dispatch_lock` is released (`main.c:980`) before
  the mode is stored (`main.c:989`): `FirstPrepare` and `MetalFXChosen`. Assumed of
  the application: it does not configure or destroy contexts inside an unwrapped
  callback (the refusal at `main.c:1674` does not see these), and dispatches there
  for the context of the callback only. Contexts that wrap a swapchain only
  forward calls and are left out. `FgContextProofs` has the proofs.
* `FrameConfigs`: the list `frame_configs` of one context, which `FgContext`
  abstracts to "empty or not". External: the application's frame ids do not
  decrease, a Present carries the id last configured, presents are generated in
  order, and one context is either notified or dispatched directly, not both.
  Its specification is `ListSpec`, its names are distinct from those of
  `FrameGeneration`, and the proofs about it are the second part of
  `FrameGenerationProofs`, which extends both. `FrameIds` declares the frame ids
  the two modules share.
* `FrameGeneration`: one context across the bridge: the packets of
  `translated_prepare` and `translated_dispatch` with their resets, and the
  translator's prepared frames, jitter and history. `accepted` (the Prepare
  calls, in order), `undrained` (an OFF that could not wait) and `late` (the
  commands recorded when generation was turned off) are history variables; a
  snapshot names its Prepare by its place in `accepted`, which is what the
  properties compare. A configuration is an opaque value. That a notified context
  is dispatched only while its configuration is on is no check of the code: it is
  an assumption about the native presenter, which calls the generation callback.
  `FrameGenerationProofs` has the proofs.
* `Upscaler`: one context of the upscaling translator with the scalers of its
  features. Sizes are one-dimensional; `MaxScale` is MetalFX's limit. `run` counts
  changes of the output size, `disturbed` says that frames were encoded out of
  order, twice, unsuccessfully or not at all; both are history. `UpscalerProofs`
  has the proofs.
* `Installer`: one action per file operation of `install`, its rollback,
  `restore` and the update helper. The fault model: up to `MaxFaults` operations
  of an attempt throw, including those of the rollback; a removal that throws may
  have removed a part; the process dies between any two operations; between
  attempts the user selects another runtime or updates the frontend. `past` is
  history. `InstallerProofs` has the proofs.

`MC*` modules add symmetry sets, descriptor sets and a view for TLC.
`ExecutionLease` is run without one. The view of `FgLifecycle` (`View`) drops
`failed`, which no property of that run reads, the frame of a call that has only
its reference left to release, and the work of native contexts for which MetalFX
never ran. Operators named `X_Suffix` before an operator `X` are
variants of it with a plausible mistake; each property of a run is violated when
one of them replaces its original.

## Runs

| Run | Shows | Bounds |
|---|---|---|
| PsoCycle | no wait cycle, no orphaned waiter, links point to held entries, one flight per key, every call returns | 2 threads, 2 keys, nesting 2 |
| PsoRetire | nothing of a destroyed device is served to its successor; the cache implements `DeviceMemo` | a destroyer and another thread, nesting 2, 1 reuse of the address |
| StageCache | flights outlive waiters, one owner per key and per result, registered flights have a future, no thread is stuck in or across the layers | 3 threads, 2 keys, 2 results, nesting 2 |
| FunctionSafety | waiters are safe, mapped entries are cached or flying, a cached library is the one its key means; the cache implements `DeviceMemo` | 2 threads, nesting 2, 1 reuse of a library address |
| Lease | leases are held while on the GPU, pending slots are stored, committed work is not pending, captured slots are freed | 2 owners, 2 buffers, 2 slots, both transports |
| FgLifecycle | exact references, live bindings, one context per swapchain, no native pass after MetalFX except in the window named below | 2 application threads, 1 presenter, 2 contexts, 1 swapchain |
| FgPartial | the bridge agrees with the context after any failure; every call returns, but for the native deadlock named below | 1 application thread, 1 presenter, 2 swapchains |
| FgDestroyRace | **violated**: a freed context is called back | 2 application threads, 1 presenter |
| FrameConfigs | retirement is invisible, pending configurations survive, the bound and the inductive invariant | 5 frames, 2 resources, 3 configurations |
| FrameGeneration | an interpolation that does not reset continues the frame before, with that frame's jitter; what OFF forgets, and what may come back | 4 frames, 3 Prepares, 2 configurations, 2 prepared frames |
| Upscaler | backends are filed under their size, scalers fit their frames, a switch resets | 3 output and 2 input sizes, 1 inactive slot, 2 recorded frames, 4 switches |
| Installer | the original runtime survives, a failed installation rolls back, a registered frontend can be restored, a restoration is exact | 4 attempts, 2 throwing operations each, crashes, 2 stock runtimes, 2 frontend versions |

The larger runs have between 0.3 and 2.1 million states (`FrameGeneration`).

Why the bounds suffice. Two threads and two keys at nesting 2 are the least with
which two producers wait for each other; longer cycles are excluded by proof. A
takeover is contended with three threads, and a compile above a library call
uses nesting 2. Two slots put two pending slots on one buffer, or one on each.
Three configurations and five frames let the list fill, a fallback be kept and
future frames be stored at once. Two nested retirements and one reuse of an
address show both orders of ending them. Two contexts of
`FgLifecycle` are the least with which a callback of one dispatches for the other.
Three Prepares are a history frame, the frame after it and one that breaks the
sequence, with a fourth frame ID to skip.
One inactive slot makes every third output size evict, and the sizes contain a
scale above the limit, so that the capped output shrinks below a capacity. Four
attempts are a first installation, a failed one, another one and a restoration,
and two faults let a rollback fail too.

The `Fg*` runs, `FrameGeneration` and `Upscaler` do not check deadlock: an
application that has destroyed its contexts stops, and so does one at the bound
of its calls. All other runs do.

Exceptions that the properties state, because the code does not prevent them:

* `OffForgets`. A notified context whose presents were waited for has no history
  while generation is off. A direct context drains nothing (`main.c:1266-1270`),
  and an OFF whose `wait_for_presents` failed (`main.c:1402`) may be followed by a
  rolled-back ON that turns the bridge off with work outstanding. In both cases a
  late encode (`fsr-framegeneration.mm:1067`) brings a history back; the property
  says that it is the one of a command recorded before the OFF. `ContinuousHistory`
  has no exception. `JitterOfHistory` permits motion that is not corrected at all.
* `NoSecondPass`. MetalFX takes the first frame under `dispatch_lock`
  (`main.c:978-980`) and the mode is stored after that lock is released
  (`main.c:989`). Between the two, a thread in the callback of another context,
  which skips `configure_lock` (`main.c:955`), still sees `MODE_PENDING` and runs
  `native.dispatch` (`main.c:1002-1005`). The property says that nothing else does.
* `EveryCallReturns` of `FgContext` excepts `NativeDeadlock`: see Observations.
* `FrameGeneration` is run with frame IDs that increase. `SwitchResets` holds
  while frames are encoded in order, once, with success: the pending reset is
  cleared when the frame is recorded (`fsr-translator.mm:384`), so dropping that
  frame's list, or failing its encode, loses the reset.
* `RestoreExact` excepts backup files without a `wine.bak`, left by a failed
  attempt or by an installation into a launcher without a runtime: a later
  installation keeps them and pairs them with another runtime. `RollsBack` (the
  claim of the repository's `README.md:20`) allows a damaged runtime whenever
  there was a backup before: the displaced one is then deleted, and a deletion
  that fails midway (`InstallerEngine.swift:654`) is followed by moving back what
  is left. Of the helper it says only that there is one if there was one.
  `Restorable` is suspended after a crash, or after an attempt in which two
  operations threw, until an attempt succeeds. After a crash between
  moving the runtime away and storing it, `OriginalSurvives` only says that it is
  still in the folder: nothing in the installer looks for it there.

Fairness is stated for three runs. In `PsoCycle` and `FgPartial` threads inside
the modelled code keep running (weak fairness of their own steps), and foreign
code (a native creation, a destructor, a callback) returns: strong fairness at
each depth of the stack, because the same thread may call again at a greater
depth in between. In `Lease` a commit that has begun goes through, the GPU
completes committed work and Metal runs the handlers. Nothing is assumed of new
calls or of allocator resets. `EveryCallReturns` of `FgContext` needs no fairness
of the application beyond returning from its own callbacks, wrapped or not, and
does not count on errors: a `wait_for_presents` that gives up, a `native.configure`
that fails and a dispatch that is refused are steps without fairness
(`ErrorStep`). Of a swapchain it assumes that it is without a running callback
again and again, or starts no more of them; without it two presenters could keep
a waiting `set_config` from ever finding it idle. `NoStuckThread` of `StageCache` is the
safety side of progress: nobody sleeps without someone who will wake it.

## Finding

`FgDestroyRace`. A context whose provider is not chosen yet has a stored
configuration and no claimed swapchain. A thread in `ffxDispatch` has acquired
its reference; another calls `ffxDestroyContext`, which sets `closing`, and
`detach_swapchain` returns at once (`main.c:1147`). The dispatch does not look at
`closing` again, as `ffxConfigure` does (`main.c:1803`): its first Prepare
selects MetalFX and installs the stored configuration on the swapchain.
Destruction then sees the last reference go and frees the context, while the
swapchain still holds its binding. The comment at `main.c:1694` states the intent
that the context stays owned by the caller while callback data may be live.

## Observations

The code disagrees here with what its comments or its README intend, in cases
that the properties state as exceptions:

* Native callbacks and `configure_lock`. `native.configure` (`main.c:1342-1351`)
  and `detach_swapchain` (`main.c:1149-1168`) wait for the application's callbacks
  with `configure_lock` held. On a native context these run unwrapped, so that an
  `ffxDispatch` in one of them waits for that lock (`main.c:955-957`), and both
  threads wait for each other. `main.c:1959` says: "Normal Prepare/Dispatch
  callback reentry is required and remains permitted." That the native provider
  waits for callbacks in progress is what the comment above `detach_swapchain`
  says of `set_config`.
* A second pass. A dispatch from the callback of another context between
  `main.c:980` and `main.c:989` runs the native provider for a context whose first
  frame MetalFX has taken; the repository's `README.md:57` excludes that.

One that no run checks: `README.md:60` allows 64 distinct pending
configurations. The list of 64 also holds the fallback that a completion keeps,
so after the first completion 63 pending ones fit.

## Proofs

TLAPS proves, for every set of threads, devices, keys, entries and every nesting
depth (`PsoCacheProofs`):

* `TypeCorrect`: `Spec => []TypeOK`.
* `WaitInvariant`: `Spec => []WaitInv`, the inductive invariant. `NoWaitCycle`
  alone is not inductive: that closing a cycle is detected depends on what the
  links say of the stacks. `WaitInv` adds that an entry has at most one producing
  frame and a pending one has exactly one; that `activeProducer` is the topmost
  producing frame; that a sleeper's producer, and every enclosing producer, is
  linked to what it waits for; that only the top of a stack is in the cache's own
  code; and that the links are acyclic.
* `NoDeadlock`: `Spec => []NoWaitCycle`, from `WaitInv`.
* `NoLostWakeup`: `Spec => []NoOrphanWaiter`.

On top of these, the same module proves with a second inductive invariant,
`FlightInv` (a call that creates is the producer of the entry mapped at its scope
and key; an entry is mapped once; scopes of different devices are distinct; an
entry, the scope it is mapped in and the calls that hold it belong to one life of
the device; a scope being retired is no current scope):

* `CreationsNeverOverlap`: `Spec => []SingleFlight`;
* `LivesIsolated`: `Spec => []LifeIsolation`;
* `PointersNeverDangle`: `Spec => []PointersHeld`, from `LinksHeld`, which says
  which frame of the thread accounts for a link: the wait itself, or a nested
  producer that remembers it;
* `CacheImplementsMemo`: `Spec => ImplementsMemo`, the refinement of `DeviceMemo`.
  The initial states map to its initial states, and one lemma per action of the
  cache names the step of the memo it maps to, or shows that it stutters. The
  hard cases are publication and failure of a producer whose device was retired
  meanwhile (`FlightInv` tells that its entry is in no current scope) and the
  first and last of nested retirements.

For every set of threads, devices, libraries, entries and scopes and every
nesting depth (`FunctionCacheProofs`), from the inductive invariant `FunctionInv`
(`InvCorrect`):

* `TypeCorrect`; `WaitersCorrect`: `Spec => []WaitersSafe`;
* `MappedCorrect`: `Spec => []MappedIsCachedOrFlying`;
* `IdentityCorrect`: `Spec => []LibraryIdentity`;
* `CacheImplementsMemo`: `Spec => ImplementsMemo`, one lemma per action, as for
  `PsoCache`.

`FunctionInv` says that only the innermost call of a thread is in the cache's own
code (`FramesOK`); that an entry in flight has one producer and is mapped where
that call looked it up, and a pending entry is in flight (`FlyingMapped`,
`PendingFlown`), which is why a thread that finds a pending entry has somebody to
wait for; that a mapped entry is in flight or cached with its library retained,
and was made from the object now at the library's address (`MappedInv`): an
address cannot be reused while an entry made from it can be found, because that
entry, or its producer's caller, keeps the library alive; that an entry is mapped
once (`MappedOnce`), so that erasing a failure removes no other call's entry; and
that devices share no scope and one being retired has none (`ScopesInv`), which
the refinement needs for publications that come after a retirement.

For every set of threads, contexts, swapchains and bindings (`FgContextProofs`),
from the inductive invariant `FgInv` (`InvCorrect`):

* `TypeCorrect`; `ReferencesCorrect`: `Spec => []ReferencesExact`;
* `BindingsCorrect`: `Spec => []BindingLive`;
* `ClaimsCorrect`: `Spec => []SwapchainExclusive`;
* `TranslationCorrect`: `Spec => []TranslationMatches`;
* `NoSecondPassCorrect`: `Spec => NoSecondPass`, an action property: native code
  runs for a context after MetalFX only while the mode is not stored (`Unstored`),
  and only from a callback of another context.

`FgInv` has two halves. `Core` is about the calls themselves: which call may be
nested in which, that a call past `configure_lock` is its holder (`LocksHeld`),
that a context's references are one plus the calls inside it, a finite number,
and that after the drain of a destruction only callbacks are inside
(`RefsCounted`), and that a context has one destroyer and stays listed until it is
done (`OneDestroyer`). `Data` is what the lock protects: bindings and swapchains
belong to contexts that were created (`BindingsOwned`, `ChainOwned`), listed
contexts claim different swapchains (`ClaimsDistinct`), a call that waits in the
middle of installing or detaching finds what it left there (`CallsReady`), a
swapchain keeps its binding under a callback (`CallbackBound`), and nothing is
enabled before the mode is decided (`Undecided`). `WorkDone` says that a context
whose frame MetalFX took has that mode or is in the step before the store, and
`Chosen` that a dispatch outside of callbacks runs with a decided mode; with the
nesting of calls (an unwrapped callback dispatches for its own context, which is
native) they leave the callback of another context as the only way to native
code. A step of one thread
keeps another's `CallsReady` because both cannot hold the lock of one context, and
contexts that differ claim different swapchains. The theorems speak of
listed contexts and of bindings; they do not exclude the callback on a freed
context of the finding above.

For every set of frame ids and resources and every capacity
(`FrameConfigs`, in the second part of `FrameGenerationProofs`):

* `RetireInvariant`: `ListSpec => []RetireInv`. It adds to the types and the bound
  that presented frames are in order and at or above any frame about to be
  retired (`InOrder`), and that a configuration missing from the list is hidden
  from every live frame by a later one that is present (`Covered`).
* `RetirementIsInvisible`: `ListSpec => []RetirementInvisible`; a newest stored
  configuration below a live frame is, by `Covered`, the newest of the history.
* `PendingKept`: `ListSpec => PendingSurvives`, an action property: one step of any
  action, from a state with `RetireInv`, keeps what a presented frame will select.

For every set of workers, owners, buffers and slots (`ExecutionLeaseProofs`), from
the inductive invariant `LeaseInv`, which says where a slot can be: it is used by
the one buffer it was reserved for, or by one commit, or is retiring
(`PlaceInv`); while it is listed, or its work is not done, it is in the store of
its owner (`StoreInv`); replays, buffers and `gPending` agree with each other
(`ReplayInv`, `BufferInv`), and `gPendingNonempty` covers every entry
(`PendingInv`):

* `TypeCorrect`; `LeasesOutliveWork`: `Spec => []LeaseHeldWhileOnGPU`;
* `PendingAlive`: `Spec => []PendingIsStored`;
* `CommitsForgetNothing`: `Spec => []CommittedNotPending`.

None of the three is inductive. Dropping a lease in a feedback handler is safe
only because no other commit and no buffer uses the slot, and that is so only
because a commit empties its vector of `gPending` before the address of the buffer
can be reused.

For every set of threads, keys, results and Flights and every nesting depth
(`StageCacheProofs`), from the inductive invariant `StageInv`
(`StageInvariant`):

* `FlightSafety` (`FlightOutlivesWaiters`), `KeyOwnership` (`OneOwnerPerKey`),
  `ResultOwnership` (`OneOwnerPerResult`), `RegistryDrains`
  (`RegisteredHasFuture`) and `DeadlockFreedom` (`NoStuckThread`).

`StageInv` has one part per layer and `CallsCompile`, which ties them: a thread
with a library call is in native code of its innermost compile. The parts are
operators of the registered Flights and the stacks, not of the variables, so that
a woken waiter, which leaves one Flight and registers or waits for another in one
critical section, is two changes that each keep them. They add what the
properties do not say: only the innermost scope or call of a thread waits, a
waiting scope is the thread's only one and owns nothing, an owner's thread never
waits in the library layer, and a failed library Flight stays registered as long
as somebody waits for it. `NoStuckThread` follows because a chain of waiting
threads is at most a sleeper of the outer layer, then a thread that drains or
sleeps in a library call, then one that can move (`ShortChains`).

For every number of frames, sizes and backend slots (`UpscalerProofs`):
`TypeCorrect`, `BackendsCoherent` (`CacheCoherent`), `FramesFit` (`ScalerFits`)
and `SwitchesReset` (`SwitchResets`); the last needs that a history older than
the current run implies a pending reset or a recorded frame that resets, in the
order of the recording.

For every set of frame ids and every bound (`FrameGenerationProofs`):
`TypeCorrect`, `OffIsForgetful` (`OffForgets`, for direct and notified contexts:
the invariant adds that while generation is off every command that may still be
encoded is in `late`), and, with the hypothesis
`Increasing` (the constant, true in the run, that says the application's frame ids
grow), `HistoryContinuous` (`ContinuousHistory`) and `JitterCorrect`
(`JitterOfHistory`).

For every number of faults and versions (`InstallerProofs`): `TypeCorrect`,
`OriginalIsKept` (`OriginalSurvives`), `RollbackCorrect` (`RollsBack`),
`RegistrationRestorable` (`Restorable`) and `RestorationExact` (`RestoreExact`).
Their invariants say, for each pc of an installation, a rollback or a
restoration, what has already been moved and where the original is.

Assumptions: `None` is none of the modelled objects, names of files and states are
distinct, frame ids are naturals, capacities and slot counts are positive, bounds
are naturals; each is named in its module and evaluated by the runs.

The provers cannot instantiate the library's induction theorems. Where induction
is needed (what `Erased` leaves of a vector), it is done from the
well-foundedness of `<`: a set of naturals without a least member is empty
(`Least`, `Induct` of `ExecutionLeaseProofs`).

Only model-checked: the liveness properties, `EveryCallReturns` of `PsoCache` and of
`FgContext` and `CapturedIsFreed` of `ExecutionLease` (fairness and ENABLED are out
of the prover's reach). Every other property of the passing runs is a theorem.

## Not modelled

* Vendored Wine, the Wine patches, third-party headers, build scripts.
* `key.mm`, `rt-key.mm`: stateless encoding of descriptors; keys are opaque here.
* Shaders and the arithmetic of `fsr-contract.cpp`.
* `initializeStageHooks` and other start-up patching, which finishes before a
  hook can run; `persistent-cache.mm`, which only advises the file system.
* The bridge and the hooks forward calls and keep no state after start-up; the
  upscaling provider chooses a provider at creation and forwards.
* In the frame-generation provider: loading of the native DLL, version queries,
  debug messages. In its translator: the registry of contexts, the capability
  probe, the cache of interpolator configurations and the passes on the GPU. In
  the upscaler: parameter validation, queries, textures and passes, and the
  device's least scale, for which the model has 1.
* In the transport: the guards of `commitRecordedBatch` against missing arguments
  and older systems (`d3dmetal-transport.mm:806-807`) and its outermost catch (`:837`).
* In the installer: download, unpacking, archive patching, the check for running
  processes (a launcher started after it would race the installer), the views.

## Plan

The planned modules are written and the safety properties and refinements of their
runs are proved. Three hazards listed in `PROJECT.json` have no property, each with
its reason: frame ids that repeat or go down, a reset lost with a dropped command
list, and a backup or a removal of the installer that throws midway.
