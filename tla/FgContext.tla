------------------------------ MODULE FgContext ------------------------------
(***************************************************************************)
(* Contexts of the frame-generation provider                               *)
(* (dlls/amd_fidelityfx_framegeneration_dx12/main.c): selection of the     *)
(* MetalFX or the native provider, installation of callbacks on a          *)
(* swapchain, and destruction, while application threads call the API and  *)
(* presenter threads run callbacks.                                        *)
(*                                                                         *)
(* contexts_lock and dispatch_lock are held over single steps only and are *)
(* not variables.  configure_lock is held while set_config and             *)
(* wait_for_presents wait for callbacks, and is one.  Frame configurations *)
(* are in module FrameConfigs; here it only matters whether there are any. *)
(*                                                                         *)
(* On a MetalFX context a swapchain calls back a callback_binding, which   *)
(* wraps the application's callbacks in a callback_scope.  On a native one *)
(* it calls the application's callbacks themselves.                        *)
(***************************************************************************)
EXTENDS Integers, Sequences, FiniteSets

CONSTANTS
  Apps,        \* application threads
  Presenters,  \* presenter threads of the native swapchains
  Contexts,    \* fg_context objects, each created once
  Swapchains,
  Bindings,    \* addresses of callback_binding objects
  Descs,       \* the frame-generation configurations the application uses
  None         \* nullptr

Threads == Apps \cup Presenters

(* The callbacks of the application for a native context, unwrapped. *)
Callbacks == {d.callbacks : d \in Descs}
Unwrapped == Contexts \X Callbacks

ASSUME NoneAssumption ==
  /\ None \notin Threads \cup Contexts \cup Swapchains \cup Bindings \cup Unwrapped
  /\ Unwrapped \cap Bindings = {}

(* swapchain: None with NO_SWAPCHAIN_CONTEXT_NOTIFY.  callbacks: what      *)
(* binding_matches compares.  native: extensions or flags that only the    *)
(* native provider supports.                                               *)
ASSUME DescAssumption ==
  \A d \in Descs :
    /\ d.swapchain \in Swapchains \cup {None}
    /\ d.on \in BOOLEAN /\ d.native \in BOOLEAN
    /\ "callbacks" \in DOMAIN d

VARIABLES
  context,  \* the fg_context objects
  holder,   \* the thread that holds configure_lock
  binding,  \* the callback_binding objects
  chain,    \* what each swapchain calls back: a binding or unwrapped callbacks
  work,     \* history: the providers that have dispatched for a context
  failed,   \* history: the last configuration or detachment reported an error
  stack     \* the API calls and callbacks in progress on each thread

vars == <<context, holder, binding, chain, work, failed, stack>>

-----------------------------------------------------------------------------
Mode == {"pending", "metalfx", "native"}

(* config is None unless native_config_valid; translated, translating: the *)
(* context behind the bridge exists, and was told that generation is on;   *)
(* snapshots: frame_configs is not empty.                                  *)
Context ==
  [state : {"absent", "listed", "freed"}, mode : Mode, refs : Nat,
   closing : BOOLEAN, swapchain : Swapchains \cup {None},
   binding : Bindings \cup {None}, config : Descs \cup {None},
   enabled : BOOLEAN, translated : BOOLEAN, translating : BOOLEAN,
   snapshots : BOOLEAN]

AbsentContext ==
  [state |-> "absent", mode |-> "native", refs |-> 0, closing |-> FALSE,
   swapchain |-> None, binding |-> None, config |-> None, enabled |-> FALSE,
   translated |-> FALSE, translating |-> FALSE, snapshots |-> FALSE]

(* A callback_binding; context is None while the address is free. *)
Binding == [context : Contexts \cup {None}, callbacks : Callbacks \cup {None}]
FreeBinding == [context |-> None, callbacks |-> None]

(***************************************************************************)
(*   configure     ffxConfigure has a reference, not yet configure_lock    *)
(*   dispatch      ffxDispatch has one, mode not yet chosen                *)
(*   dispatching   mode is chosen, dispatch_lock not yet taken             *)
(*   release       the call is over but for release_context                *)
(*   callback      a present or generation callback that has entered       *)
(*   unwrapped     the application's own callback, on a native context     *)
(*   destroy       ffxDestroyContext has set closing                       *)
(* with configure_lock held:                                               *)
(*   configuring   in configure_frame_generation with desc (None: another  *)
(*                 type of configuration), to be followed by after         *)
(*   set_config    at the set_config that installs binding                 *)
(*   installed     after it                                                *)
(*   native_config at native.configure, which sets the swapchain's config  *)
(*   prepared      MetalFX took the first frame, mode not yet stored       *)
(*   off           at wait_for_presents, to turn generation off            *)
(*   detach        detach_swapchain, at set_config                         *)
(*   detaching     detach_swapchain, at wait_for_presents                  *)
(* and, in ffxDestroyContext, after configure_lock is released:            *)
(*   detached      the swapchain is about to be tested                     *)
(*   unreferenced  waiting for the references of other threads             *)
(*   destroying    at destroy_translation and native.destroy               *)
(***************************************************************************)
Locked == {"configuring", "set_config", "installed", "off", "detach", "detaching",
           "native_config", "prepared"}
PC == {"configure", "dispatch", "dispatching", "release", "callback", "unwrapped",
       "destroy", "detached", "unreferenced", "destroying"} \cup Locked

Frame ==
  [pc : PC, op : {"configure", "dispatch", "destroy", "query", "callback", "unwrapped"},
   context : Contexts, desc : Descs \cup {None}, after : Descs \cup {None},
   binding : Bindings \cup {None}, swapchain : Swapchains \cup {None}]

NewFrame(op, pc, c) ==
  [pc |-> pc, op |-> op, context |-> c, desc |-> None, after |-> None,
   binding |-> None, swapchain |-> None]

Depth(t) == Len(stack[t])
Top(t) == stack[t][Depth(t)]
At(t, pc) == Depth(t) > 0 /\ Top(t).pc = pc
Here(t) == Top(t).context
Ctx(t) == context[Here(t)]

Pushed(t, f) == [stack EXCEPT ![t] = Append(@, f)]
Popped(t) == [stack EXCEPT ![t] = SubSeq(@, 1, Len(@) - 1)]
Goto(t, pc) == [stack EXCEPT ![t][Depth(t)].pc = pc]

(* in_callback(): a callback_scope is in the thread's TLS slot.  There is  *)
(* none in an unwrapped callback.                                          *)
InCallback(t) == \E i \in 1..Depth(t) : stack[t][i].pc = "callback"

CanCall(t) == (t \in Apps /\ Depth(t) = 0) \/ At(t, "callback") \/ At(t, "unwrapped")

Init ==
  /\ context = [c \in Contexts |-> AbsentContext]
  /\ holder = [c \in Contexts |-> None]
  /\ binding = [b \in Bindings |-> FreeBinding]
  /\ chain = [s \in Swapchains |-> None]
  /\ work = [c \in Contexts |-> {}]
  /\ failed = [c \in Contexts |-> FALSE]
  /\ stack = [t \in Threads |-> <<>>]

-----------------------------------------------------------------------------
(* The native swapchain. *)

Running(s) ==
  {t \in Threads : \E i \in 1..Depth(t) :
     stack[t][i].pc \in {"callback", "unwrapped"} /\ stack[t][i].swapchain = s}

(* The context a swapchain calls back. *)
Caller(s) == IF chain[s] \in Bindings THEN binding[chain[s]].context ELSE chain[s][1]

(* set_config waits for the callbacks in progress only when it changes     *)
(* them.                                                                   *)
SetConfig(s, b) ==
  /\ b # chain[s] => Running(s) = {}
  /\ chain' = [chain EXCEPT ![s] = b]

(* wait_for_presents: returns TRUE once no callback runs, or fails. *)
WaitForPresents(s, ok) == ok => Running(s) = {}

-----------------------------------------------------------------------------
(* References. *)

Acquirable(c) == context[c].state = "listed" /\ ~context[c].closing
Referenced(c) == [context EXCEPT ![c].refs = @ + 1]
Released(c) == [context EXCEPT ![c].refs = @ - 1]

(* release_context, at the end of ffxConfigure, ffxDispatch and ffxQuery. *)
Release(t) ==
  /\ At(t, "release")
  /\ context' = Released(Here(t))
  /\ stack' = Popped(t)
  /\ UNCHANGED <<holder, binding, chain, work, failed>>

(* ffxQuery, and configure_debug: nothing modelled here changes. *)
FfxQuery(t, c) ==
  /\ CanCall(t)
  /\ Acquirable(c)
  /\ context' = Referenced(c)
  /\ stack' = Pushed(t, NewFrame("query", "release", c))
  /\ UNCHANGED <<holder, binding, chain, work, failed>>

(* ffxCreateContext succeeds: with a bridge context the provider is chosen *)
(* later, otherwise (ineligible, or native_only) it is the native one.     *)
FfxCreateContext(t, c) ==
  /\ CanCall(t)
  /\ context[c].state = "absent"
  /\ \E bridge \in BOOLEAN :
       context' = [context EXCEPT ![c] =
         [AbsentContext EXCEPT
            !.state = "listed", !.refs = 1, !.translated = bridge,
            !.mode = IF bridge THEN "pending" ELSE "native"]]
  /\ UNCHANGED <<holder, binding, chain, work, stack, failed>>

-----------------------------------------------------------------------------
(* Callbacks. *)

(* The swapchain calls back on a presenter, or from inside the set_config  *)
(* that replaces the callbacks.                                            *)
CallsBack(t, s) ==
  \/ t \in Presenters /\ Depth(t) = 0
  \/ (At(t, "set_config") \/ At(t, "native_config")) /\ Top(t).swapchain = s

(* enter_callback. *)
EnterCallback_NoReference(t, s) ==
  /\ CallsBack(t, s)
  /\ chain[s] \in Bindings
  /\ stack' = Pushed(t, [NewFrame("callback", "callback", Caller(s)) EXCEPT
                           !.binding = chain[s], !.swapchain = s])
  /\ UNCHANGED <<context, holder, binding, chain, work, failed>>
EnterCallback(t, s) ==
  /\ CallsBack(t, s)
  /\ chain[s] \in Bindings
  /\ context' = Referenced(Caller(s))
  /\ stack' = Pushed(t, [NewFrame("callback", "callback", Caller(s)) EXCEPT
                           !.binding = chain[s], !.swapchain = s])
  /\ UNCHANGED <<holder, binding, chain, work, failed>>

(* leave_callback: the fallback configuration is kept by the retirement,   *)
(* so frame_configs does not become empty.                                 *)
LeaveCallback(t) ==
  /\ At(t, "callback")
  /\ context' = Released(Here(t))
  /\ stack' = Popped(t)
  /\ UNCHANGED <<holder, binding, chain, work, failed>>

(* On a native context the swapchain runs the application's code directly: *)
(* no callback_scope, no reference.                                        *)
EnterUnwrapped(t, s) ==
  /\ CallsBack(t, s)
  /\ chain[s] \in Unwrapped
  /\ stack' = Pushed(t, [NewFrame("unwrapped", "unwrapped", Caller(s)) EXCEPT
                           !.swapchain = s])
  /\ UNCHANGED <<context, holder, binding, chain, work, failed>>

LeaveUnwrapped(t) ==
  /\ At(t, "unwrapped")
  /\ stack' = Popped(t)
  /\ UNCHANGED <<context, holder, binding, chain, work, failed>>

-----------------------------------------------------------------------------
(* ffxConfigure. *)

(* Refused inside a wrapped callback.  In an unwrapped one the code cannot *)
(* tell; the application is assumed not to try.                            *)
MayConfigure(t) == t \in Apps /\ Depth(t) = 0

FfxConfigure(t, c, d) ==
  /\ MayConfigure(t)
  /\ Acquirable(c)
  /\ context' = Referenced(c)
  /\ stack' = Pushed(t, [NewFrame("configure", "configure", c) EXCEPT !.desc = d])
  /\ UNCHANGED <<holder, binding, chain, work, failed>>

(* configure_lock; a context that is being destroyed is left alone. *)
ConfigureLock(t) ==
  /\ At(t, "configure")
  /\ holder[Here(t)] = None
  /\ \/ /\ Ctx(t).closing
        /\ stack' = Goto(t, "release")
        /\ UNCHANGED holder
     \/ /\ ~Ctx(t).closing
        /\ holder' = [holder EXCEPT ![Here(t)] = t]
        /\ stack' = Goto(t, "configuring")
  /\ UNCHANGED <<context, binding, chain, work, failed>>

(* The call fails, or has nothing left to do: release configure_lock. *)
Unlocked(t, pc, error) ==
  /\ holder' = [holder EXCEPT ![Here(t)] = None]
  /\ failed' = [failed EXCEPT ![Here(t)] = error]
  /\ stack' = Goto(t, pc)
Failed(t) == Unlocked(t, "release", TRUE)

(* configure_frame_generation returns OK. *)
Configured(t) ==
  \/ /\ Top(t).after = None
     /\ Unlocked(t, "release", FALSE)
  \/ /\ Top(t).after # None
     /\ stack' = [stack EXCEPT ![t][Depth(t)] =
                    [@ EXCEPT !.pc = "configuring", !.desc = Top(t).after, !.after = None]]
     /\ UNCHANGED <<holder, failed>>

SetContext(t, x) == context' = [context EXCEPT ![Here(t)] = x]

(* A parameter the descriptor validation refuses, no memory, not a stable  *)
(* swapchain, another swapchain while generation is on, a swapchain of     *)
(* another context, or something only the native provider supports.        *)
ConfigureRejected(t) ==
  /\ At(t, "configuring")
  /\ Failed(t)
  /\ UNCHANGED <<context, binding, chain, work>>

(* The provider is not chosen yet: store_native_config. *)
StorePending(t) ==
  LET d == Top(t).desc
  IN /\ At(t, "configuring")
     /\ Ctx(t).mode = "pending"
     /\ d # None /\ ~d.native
     /\ SetContext(t, [Ctx(t) EXCEPT !.config = d])
     /\ Configured(t)
     /\ UNCHANGED <<binding, chain, work>>

(* select_native: from here on the context is native, and a stored         *)
(* configuration is applied before next.                                   *)
SelectNative(t, next) ==
  /\ SetContext(t, [Ctx(t) EXCEPT !.mode = "native"])
  /\ \/ /\ Ctx(t).config # None
        /\ holder' = [holder EXCEPT ![Here(t)] = t]
        /\ stack' = [stack EXCEPT ![t][Depth(t)] =
             [@ EXCEPT !.pc = "configuring", !.desc = Ctx(t).config, !.after = next]]
        /\ UNCHANGED failed
     \/ /\ Ctx(t).config = None /\ next # None
        /\ stack' = [stack EXCEPT ![t][Depth(t)] =
             [@ EXCEPT !.pc = "configuring", !.desc = next]]
        /\ UNCHANGED <<holder, failed>>
     \/ /\ Ctx(t).config = None /\ next = None
        /\ Unlocked(t, "release", FALSE)

ConfigureSelectsNative(t) ==
  LET d == Top(t).desc
  IN /\ At(t, "configuring")
     /\ Ctx(t).mode = "pending"
     /\ d # None => d.native
     /\ SelectNative(t, d)
     /\ UNCHANGED <<binding, chain, work>>

(* Another type of configuration goes to the native provider. *)
ConfigureOther(t) ==
  /\ At(t, "configuring")
  /\ Top(t).desc = None
  /\ Ctx(t).mode = "native"
  /\ Configured(t)
  /\ UNCHANGED <<context, binding, chain, work>>

(* configure_translation over the bridge: it fails without effect, always  *)
(* once the bridge context is gone.                                        *)
Bridge(x, on, ok) == ok => x.translated

(* The native translation once snapshot_frame_config has failed: told back *)
(* to the old state, if that call works.                                   *)
RolledBack_Off(x, ok) == [x EXCEPT !.translating = FALSE]
RolledBack(x, ok) == [x EXCEPT !.translating = IF ok THEN x.enabled ELSE TRUE]

Translates(t) ==
  /\ At(t, "configuring")
  /\ Top(t).desc # None
  /\ Ctx(t).mode = "metalfx"
  /\ ~Top(t).desc.native

(* NO_SWAPCHAIN_CONTEXT_NOTIFY, generation on or off. *)
ConfigureDirect(t) ==
  LET d == Top(t).desc
  IN /\ Translates(t)
     /\ d.swapchain = None
     /\ Bridge(Ctx(t), d.on, TRUE)
     /\ SetContext(t, [Ctx(t) EXCEPT !.config = d, !.enabled = d.on,
                                     !.translating = d.on, !.snapshots = d.on])
     /\ Configured(t)
     /\ UNCHANGED <<binding, chain, work>>

(* claim_swapchain. *)
Claimable_Always(c, s) == TRUE
Claimable(c, s) ==
  \A other \in Contexts \ {c} :
    context[other].state = "listed" => context[other].swapchain # s

(* desc names the claimed swapchain, or one that can be claimed. *)
OnSwapchain(t) ==
  LET s == Top(t).desc.swapchain
  IN /\ s # None
     /\ \/ Ctx(t).swapchain = s
        \/ Ctx(t).swapchain = None /\ Claimable(Here(t), s)

(* configure_translation(TRUE) worked, snapshot_frame_config did not. *)
SnapshotFails(t) ==
  /\ Translates(t)
  /\ Top(t).desc.on
  /\ Top(t).desc.swapchain = None \/ OnSwapchain(t)
  /\ Ctx(t).translated
  /\ \E ok \in BOOLEAN : SetContext(t, RolledBack(Ctx(t), ok))
  /\ Failed(t)
  /\ UNCHANGED <<binding, chain, work>>

(* The native provider configures itself.  Without a notification nothing  *)
(* is stored, and no swapchain is involved.                                *)
ConfigureNative(t) ==
  LET d == Top(t).desc
  IN /\ At(t, "configuring")
     /\ d # None
     /\ Ctx(t).mode = "native"
     /\ \/ /\ d.swapchain = None
           /\ UNCHANGED context
           /\ Configured(t) \/ Failed(t)
        \/ /\ OnSwapchain(t)
           /\ SetContext(t, [Ctx(t) EXCEPT !.swapchain = d.swapchain])
           /\ stack' = [stack EXCEPT ![t][Depth(t)] =
                          [@ EXCEPT !.pc = "native_config", !.swapchain = d.swapchain]]
           /\ UNCHANGED <<holder, failed>>
     /\ UNCHANGED <<binding, chain, work>>

(* native.configure has given the swapchain the application's callbacks,   *)
(* still under configure_lock; or it fails, and a new claim stays.         *)
NativeConfigured(t) ==
  LET d == Top(t).desc
  IN /\ At(t, "native_config")
     /\ SetConfig(Top(t).swapchain, <<Here(t), d.callbacks>>)
     /\ SetContext(t, [Ctx(t) EXCEPT !.config = d, !.enabled = d.on])
     /\ Configured(t)
     /\ UNCHANGED <<binding, work>>

NativeConfigFails(t) ==
  /\ At(t, "native_config")
  /\ Failed(t)
  /\ UNCHANGED <<context, binding, chain, work>>

(* A disabled context moves to another swapchain: detach first. *)
ConfigureMoves(t) ==
  LET d == Top(t).desc
  IN /\ At(t, "configuring")
     /\ d # None
     /\ Ctx(t).mode = "native" \/ Translates(t)
     /\ d.swapchain # None
     /\ Ctx(t).swapchain \notin {None, d.swapchain}
     /\ ~Ctx(t).enabled
     /\ stack' = [stack EXCEPT ![t][Depth(t)] =
                    [@ EXCEPT !.pc = "detach", !.swapchain = Ctx(t).swapchain]]
     /\ UNCHANGED <<context, holder, binding, chain, work, failed>>

(* A new binding; the old one stays until set_config has returned. *)
Made_FreesOld(t, b) ==
  [a \in Bindings |->
     IF a = b THEN [context |-> Here(t), callbacks |-> Top(t).desc.callbacks]
     ELSE IF a = Ctx(t).binding THEN FreeBinding ELSE binding[a]]
Made(t, b) ==
  [binding EXCEPT ![b] = [context |-> Here(t), callbacks |-> Top(t).desc.callbacks]]

(* The claim, the bridge, the snapshot; a binding is made unless the old   *)
(* one still matches.                                                      *)
ConfigureInstalls(t) ==
  LET d == Top(t).desc
      old == Ctx(t).binding
      matches == old # None /\ binding[old].callbacks = d.callbacks
  IN /\ Translates(t)
     /\ OnSwapchain(t)
     /\ d.on => Bridge(Ctx(t), TRUE, TRUE)
     /\ SetContext(t, [Ctx(t) EXCEPT !.swapchain = d.swapchain,
                                     !.translating = @ \/ d.on,
                                     !.snapshots = @ \/ d.on])
     /\ \E b \in Bindings :
          /\ IF matches THEN b = old /\ UNCHANGED binding
             ELSE binding[b] = FreeBinding /\ binding' = Made(t, b)
          /\ stack' = [stack EXCEPT ![t][Depth(t)] =
               [@ EXCEPT !.pc = "set_config", !.binding = b, !.swapchain = d.swapchain]]
     /\ UNCHANGED <<holder, chain, work, failed>>

InstallConfig(t) ==
  /\ At(t, "set_config")
  /\ SetConfig(Top(t).swapchain, Top(t).binding)
  /\ stack' = Goto(t, "installed")
  /\ UNCHANGED <<context, holder, binding, work, failed>>

(* The replaced binding is freed. *)
Freed(old, new) ==
  IF old \in {None, new} THEN binding ELSE [binding EXCEPT ![old] = FreeBinding]

Installed(t) ==
  LET d == Top(t).desc
  IN /\ At(t, "installed")
     /\ binding' = Freed(Ctx(t).binding, Top(t).binding)
     /\ SetContext(t, [Ctx(t) EXCEPT !.binding = Top(t).binding,
                                     !.enabled = d.on, !.config = d])
     /\ \/ d.on /\ Configured(t)
        \/ ~d.on /\ stack' = Goto(t, "off") /\ UNCHANGED <<holder, failed>>
     /\ UNCHANGED <<chain, work>>

(* wait_for_presents, clear_frame_configs and configure_translation(FALSE),*)
(* each of the calls may fail.                                             *)
TurnOff(t, waited) ==
  /\ At(t, "off")
  /\ \E ok \in BOOLEAN :
       /\ WaitForPresents(Top(t).swapchain, waited)
       /\ ok => waited
       /\ Bridge(Ctx(t), FALSE, ok)
       /\ SetContext(t, [Ctx(t) EXCEPT !.snapshots = @ /\ ~waited,
                                       !.translating = @ /\ ~ok])
       /\ IF ok THEN Configured(t) ELSE Failed(t)
  /\ UNCHANGED <<binding, chain, work>>

-----------------------------------------------------------------------------
(* detach_swapchain, for ffxConfigure and ffxDestroyContext. *)

(* set_config without callbacks; before it, on a native context,           *)
(* native.configure without callbacks.                                     *)
Detach(t) ==
  /\ At(t, "detach")
  /\ SetConfig(Top(t).swapchain, None)
  /\ stack' = Goto(t, "detaching")
  /\ UNCHANGED <<context, holder, binding, work, failed>>

AfterDetach(t, ok) ==
  \/ /\ Top(t).op = "destroy"
     /\ Unlocked(t, "detached", ~ok)
  \/ /\ Top(t).op # "destroy" /\ ok
     /\ stack' = Goto(t, "configuring")
     /\ UNCHANGED <<holder, failed>>
  \/ /\ Top(t).op # "destroy" /\ ~ok
     /\ Failed(t)

(* A failed wait leaves the claim and the binding alone.  Otherwise both   *)
(* are dropped, even when a later call reports an error.                   *)
Detached(t, waited, ok) ==
  IF waited
  THEN [Ctx(t) EXCEPT !.swapchain = None, !.binding = None, !.config = None,
                      !.snapshots = FALSE, !.enabled = FALSE,
                      !.translating = @ /\ ~(Ctx(t).mode = "metalfx" /\ ok)]
  ELSE Ctx(t)

DetachWait(t, waited) ==
  /\ At(t, "detaching")
  /\ \E ok \in BOOLEAN :
       /\ WaitForPresents(Top(t).swapchain, waited)
       /\ ok => waited
       /\ Ctx(t).mode = "metalfx" => Bridge(Ctx(t), FALSE, ok)
       /\ SetContext(t, Detached(t, waited, ok))
       /\ binding' = IF waited THEN Freed(Ctx(t).binding, None) ELSE binding
       /\ AfterDetach(t, ok)
  /\ UNCHANGED <<chain, work>>

-----------------------------------------------------------------------------
(* ffxDispatch. *)

(* An unwrapped callback is assumed to dispatch for its own context only.  *)
FfxDispatch(t, c) ==
  /\ CanCall(t)
  /\ At(t, "unwrapped") => c = Here(t)
  /\ Acquirable(c)
  /\ context' = Referenced(c)
  /\ stack' = Pushed(t, NewFrame("dispatch", "dispatch", c))
  /\ UNCHANGED <<holder, binding, chain, work, failed>>

(* validate_public_dispatch refuses the descriptor. *)
DispatchRejected(t) ==
  /\ At(t, "dispatch")
  /\ stack' = Goto(t, "release")
  /\ UNCHANGED <<context, holder, binding, chain, work, failed>>

(* A thread in a callback does not wait for configure_lock, whose holder   *)
(* may be waiting for the callback.                                        *)
SkipsLock_Never(t) == FALSE
SkipsLock(t) == InCallback(t)

ModeChosen(t) ==
  /\ At(t, "dispatch")
  /\ SkipsLock(t) \/ (holder[Here(t)] = None /\ Ctx(t).mode # "pending")
  /\ stack' = Goto(t, "dispatching")
  /\ UNCHANGED <<context, holder, binding, chain, work, failed>>

(* The first Prepare, under configure_lock: it fails and nothing is        *)
(* chosen; or native code is chosen before MetalFX records anything, and a *)
(* stored configuration applied; or MetalFX took the frame, under          *)
(* dispatch_lock, and mode does not say so yet.                            *)
FirstPrepare(t) ==
  /\ At(t, "dispatch")
  /\ ~SkipsLock(t)
  /\ holder[Here(t)] = None
  /\ Ctx(t).mode = "pending"
  /\ \/ /\ stack' = Goto(t, "release")
        /\ UNCHANGED <<context, holder, work, failed>>
     \/ /\ SelectNative(t, None)
        /\ work' = [work EXCEPT ![Here(t)] = @ \cup {"native"}]
     \/ /\ work' = [work EXCEPT ![Here(t)] = @ \cup {"metalfx"}]
        /\ holder' = [holder EXCEPT ![Here(t)] = t]
        /\ stack' = Goto(t, "prepared")
        /\ UNCHANGED <<context, failed>>
  /\ UNCHANGED <<binding, chain>>

(* dispatch_lock is released; mode is stored, and a stored configuration   *)
(* applied.                                                                *)
MetalFXChosen(t) ==
  /\ At(t, "prepared")
  /\ SetContext(t, [Ctx(t) EXCEPT !.mode = "metalfx"])
  /\ \/ /\ Ctx(t).config = None
        /\ Unlocked(t, "release", FALSE)
     \/ /\ Ctx(t).config # None
        /\ stack' = [stack EXCEPT ![t][Depth(t)] =
             [@ EXCEPT !.pc = "configuring", !.desc = Ctx(t).config]]
        /\ UNCHANGED <<holder, failed>>
  /\ UNCHANGED <<binding, chain, work>>

(* The providers that run for one dispatch; a MetalFX error is final. *)
Runs_FallsBack(t) == IF Ctx(t).mode = "metalfx" THEN {"metalfx", "native"} ELSE {"native"}
Runs(t) == IF Ctx(t).mode = "metalfx" THEN {"metalfx"} ELSE {"native"}

(* dispatch_context under dispatch_lock. *)
Dispatch(t) ==
  /\ At(t, "dispatching")
  /\ work' = [work EXCEPT ![Here(t)] = @ \cup Runs(t)]
  /\ stack' = Goto(t, "release")
  /\ UNCHANGED <<context, holder, binding, chain, failed>>

-----------------------------------------------------------------------------
(* ffxDestroyContext. *)

FfxDestroyContext(t, c) ==
  /\ MayConfigure(t)
  /\ Acquirable(c)
  /\ context' = [context EXCEPT ![c].closing = TRUE]
  /\ stack' = Pushed(t, NewFrame("destroy", "destroy", c))
  /\ UNCHANGED <<holder, binding, chain, work, failed>>

DestroyLock(t) ==
  /\ At(t, "destroy")
  /\ holder[Here(t)] = None
  /\ \/ /\ Ctx(t).swapchain = None
        /\ stack' = Goto(t, "detached")
        /\ UNCHANGED holder
     \/ /\ Ctx(t).swapchain # None
        /\ holder' = [holder EXCEPT ![Here(t)] = t]
        /\ stack' = [stack EXCEPT ![t][Depth(t)] =
                       [@ EXCEPT !.pc = "detach", !.swapchain = Ctx(t).swapchain]]
  /\ UNCHANGED <<context, binding, chain, work, failed>>

(* The call fails; the context stays with the application. *)
DestroyFails(t, x) ==
  /\ SetContext(t, [x EXCEPT !.closing = FALSE])
  /\ stack' = Popped(t)

(* The unlocked test of context->swapchain. *)
DestroyTest(t) ==
  /\ At(t, "detached")
  /\ \/ /\ Ctx(t).swapchain # None
        /\ DestroyFails(t, Ctx(t))
     \/ /\ Ctx(t).swapchain = None
        /\ stack' = Goto(t, "unreferenced")
        /\ UNCHANGED context
  /\ UNCHANGED <<holder, binding, chain, work, failed>>

(* The wait for contexts_changed. *)
LastReference(x) == x.refs = 1
DestroyWait(t) ==
  /\ At(t, "unreferenced")
  /\ LastReference(Ctx(t))
  /\ stack' = Goto(t, "destroying")
  /\ UNCHANGED <<context, holder, binding, chain, work, failed>>

(* destroy_translation fails; or only native.destroy does; or the context  *)
(* is unlinked and freed.                                                  *)
DestroyNative(t) ==
  /\ At(t, "destroying")
  /\ \/ /\ Ctx(t).translated
        /\ DestroyFails(t, Ctx(t))
     \/ DestroyFails(t, [Ctx(t) EXCEPT !.translated = FALSE, !.translating = FALSE])
     \/ /\ SetContext(t, [Ctx(t) EXCEPT !.state = "freed", !.translated = FALSE,
                                        !.translating = FALSE, !.snapshots = FALSE])
        /\ stack' = Popped(t)
  /\ UNCHANGED <<holder, binding, chain, work, failed>>

-----------------------------------------------------------------------------
Call(t) ==
  \E c \in Contexts :
    \/ FfxCreateContext(t, c)
    \/ FfxQuery(t, c)
    \/ FfxDispatch(t, c)
    \/ FfxDestroyContext(t, c)
    \/ \E d \in Descs \cup {None} : FfxConfigure(t, c, d)

ConfigureStep(t) ==
  \/ ConfigureRejected(t)
  \/ StorePending(t)
  \/ ConfigureSelectsNative(t)
  \/ ConfigureOther(t)
  \/ SnapshotFails(t)
  \/ ConfigureDirect(t)
  \/ ConfigureNative(t)
  \/ ConfigureMoves(t)
  \/ ConfigureInstalls(t)
  \/ Installed(t)

(* The steps that take configure_lock, or wait for other threads. *)
WaitingStep(t) ==
  \/ ConfigureLock(t)
  \/ ModeChosen(t)
  \/ FirstPrepare(t)
  \/ DestroyLock(t)
  \/ InstallConfig(t)
  \/ TurnOff(t, TRUE)
  \/ NativeConfigured(t)
  \/ Detach(t)
  \/ DetachWait(t, TRUE)
  \/ DestroyWait(t)

(* Errors no thread may count on: wait_for_presents gives up, native code  *)
(* fails, or a dispatch is refused.                                        *)
ErrorStep(t) ==
  \/ NativeConfigFails(t)
  \/ TurnOff(t, FALSE)
  \/ DetachWait(t, FALSE)
  \/ DispatchRejected(t)

Step(t) ==
  \/ ConfigureStep(t)
  \/ MetalFXChosen(t)
  \/ Dispatch(t)
  \/ DestroyTest(t)
  \/ DestroyNative(t)
  \/ Release(t)

Next ==
  \E t \in Threads :
    \/ Call(t)
    \/ Step(t)
    \/ WaitingStep(t)
    \/ ErrorStep(t)
    \/ \E s \in Swapchains : EnterCallback(t, s) \/ EnterUnwrapped(t, s)
    \/ LeaveCallback(t)
    \/ LeaveUnwrapped(t)

Spec == Init /\ [][Next]_vars

(* Threads run, callbacks return unless a call in them does not,           *)
(* configure_lock is fair, a swapchain that keeps starting callbacks is    *)
(* idle again and again, and every release_context wakes a thread that     *)
(* waits for references.  That ErrorStep happens is never assumed.         *)
Fairness ==
  /\ \A t \in Threads :
       /\ WF_vars(Step(t) \/ (InCallback(t) /\ ModeChosen(t)))
       /\ SF_vars(LeaveCallback(t) \/ LeaveUnwrapped(t))
       /\ SF_vars(~InCallback(t) /\ WaitingStep(t))
  /\ \A s \in Swapchains :
       \/ []<>(Running(s) = {})
       \/ <>[][~\E t \in Threads : EnterCallback(t, s) \/ EnterUnwrapped(t, s)]_vars

FairSpec == Spec /\ Fairness

-----------------------------------------------------------------------------
TypeOK ==
  /\ context \in [Contexts -> Context]
  /\ holder \in [Contexts -> Threads \cup {None}]
  /\ binding \in [Bindings -> Binding]
  /\ chain \in [Swapchains -> Bindings \cup Unwrapped \cup {None}]
  /\ failed \in [Contexts -> BOOLEAN]
  /\ work \in [Contexts -> SUBSET {"metalfx", "native"}]
  /\ stack \in [Threads -> Seq(Frame)]

(* These hold no reference. *)
Uncounted == {"destroy", "unwrapped"}

Inside(c) ==
  {p \in Threads \X (1..3) :
     /\ p[2] <= Depth(p[1])
     /\ stack[p[1]][p[2]].context = c
     /\ stack[p[1]][p[2]].op \notin Uncounted}

(* The reference count is exact: one for the application, and one for      *)
(* every call and every wrapped callback on the context, so a context is   *)
(* destroyed and freed only when nobody is inside it.                      *)
ReferencesExact ==
  \A c \in Contexts :
    /\ context[c].state # "absent" => context[c].refs = 1 + Cardinality(Inside(c))
    /\ (context[c].state = "freed" \/
        \E t \in Threads : At(t, "destroying") /\ Here(t) = c)
         => \A p \in Inside(c) : stack[p[1]][p[2]].op = "callback"

(* A callback_binding is freed only when the swapchain no longer calls     *)
(* back on it and no callback uses it: the set_config that replaces it has *)
(* drained them, or wait_for_presents has.                                 *)
BindingLive ==
  /\ \A s \in Swapchains : chain[s] \in Bindings => binding[chain[s]].context # None
  /\ \A t \in Threads : \A i \in 1..Depth(t) :
       stack[t][i].pc = "callback" =>
         binding[stack[t][i].binding].context = stack[t][i].context

(* Two contexts never claim one swapchain, and the callbacks a swapchain   *)
(* makes for a context that has not been freed belong to the claimant.     *)
SwapchainExclusive ==
  /\ \A c, o \in Contexts :
       /\ context[c].state = "listed" /\ context[o].state = "listed"
       /\ context[c].swapchain = context[o].swapchain
       /\ context[c].swapchain # None
       => c = o
  /\ \A s \in Swapchains :
       chain[s] # None /\ context[Caller(s)].state = "listed" =>
         context[Caller(s)].swapchain = s

(* What the application was told about generation is what the bridge was:  *)
(* while it is enabled the translation is on, also after a configuration   *)
(* that failed half-way; and after one that did not fail, the translation  *)
(* is off and no frame configuration is left unless it is enabled.         *)
TranslationMatches ==
  \A c \in Contexts :
    LET x == context[c]
    IN x.mode = "metalfx" /\ x.state = "listed" /\ x.translated =>
         /\ x.enabled => x.translating
         /\ holder[c] = None /\ ~failed[c] /\ ~x.enabled
              => ~x.translating /\ ~x.snapshots

(* MetalFX has taken a frame of c and the mode of c is not stored yet. *)
Unstored(c) == \E t \in Threads : At(t, "prepared") /\ Here(t) = c

(* README.md: "Once MetalFX has recorded work for a frame, an error does   *)
(* not run a second native interpolation pass."  After MetalFX took a      *)
(* frame of a context, native code starts to run for it in one case only:  *)
(* the mode is not stored yet and the dispatch comes from a callback of    *)
(* another context, which does not wait for configure_lock.                *)
NoSecondPass ==
  [][\A c \in Contexts :
       "metalfx" \in work[c] /\ "native" \in work'[c] \ work[c] =>
         /\ Unstored(c)
         /\ \E t \in Threads :
              /\ At(t, "dispatching") /\ Here(t) = c
              /\ \E i \in 1..Depth(t) :
                   stack[t][i].pc = "callback" /\ stack[t][i].context # c]_vars

(* A thread holds the configure_lock of a native context while the         *)
(* swapchain waits for a callback of the application that dispatches for   *)
(* the same context: in_callback() is FALSE, and it waits for the lock.    *)
NativeDeadlock ==
  \E u, v \in Threads : \E i \in 1..Depth(v) :
    LET f == stack[v][i]
    IN /\ f.pc \in {"native_config", "detach"}
       /\ u = v \/ f.pc = "detach" \/ chain[f.swapchain] # <<f.context, f.desc.callbacks>>
       /\ At(u, "dispatch") /\ Here(u) = f.context /\ Depth(u) > 1
       /\ stack[u][Depth(u) - 1].pc = "unwrapped"
       /\ stack[u][Depth(u) - 1].swapchain = f.swapchain

(* Every API call and callback returns, although Configure and Destroy     *)
(* wait for callbacks, callbacks call the API, and Destroy waits for every *)
(* call; unless native callbacks and configure_lock wait for each other.   *)
EveryCallReturns ==
  \A t \in Threads : (Depth(t) > 0) ~> (Depth(t) = 0 \/ NativeDeadlock)

(* main.c, ffxDestroyContext: "A failed wait cannot prove that callback    *)
(* user data is no longer live.  Leave the context owned by the caller so  *)
(* destruction can be retried."  A freed context is thus one that no       *)
(* swapchain can call back.                                                *)
FreedNotCalledBack ==
  \A s \in Swapchains :
    chain[s] # None => context[Caller(s)].state # "freed"

=============================================================================
