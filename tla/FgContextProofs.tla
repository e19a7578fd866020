--------------------------- MODULE FgContextProofs ---------------------------
(***************************************************************************)
(* Proofs about FgContext, for any number of threads, contexts, swapchains *)
(* and bindings and any configurations: the reference count is exact and   *)
(* nobody is inside a context that is destroyed, bindings outlive their    *)
(* callbacks, a swapchain has one claimant, what the bridge was told       *)
(* matches what the application was, and native code overtakes MetalFX in  *)
(* one case only.                                                          *)
(*                                                                         *)
(* The inductive invariant has two halves.  Core is about the calls in     *)
(* progress: how they nest, who holds configure_lock, who is counted in    *)
(* refs, who destroys.  Data is about what the lock protects: bindings,    *)
(* claims, the translation and the provider.                               *)
(***************************************************************************)
EXTENDS FgContext, FiniteSetTheorems, TLAPS

-----------------------------------------------------------------------------
(* Calls in progress. *)

Destroying == {"destroy", "detached", "unreferenced", "destroying"}
InCalls == {"dispatch", "dispatching", "release"}

(* Callbacks, and the places they may come from besides a presenter. *)
Backs == {"callback", "unwrapped"}
Sets == {"set_config", "native_config"}

USE DEF Backs, Sets, Uncounted

FrameOK(f) ==
  /\ f \in Frame
  /\ f.pc = "callback" <=> f.op = "callback"
  /\ f.pc = "unwrapped" <=> f.op = "unwrapped"
  /\ f.pc \in {"dispatch", "dispatching"} => f.op = "dispatch"
  /\ f.pc \in Destroying => f.op = "destroy"
  /\ f.op = "destroy" => f.pc \in Destroying \cup {"detach", "detaching"}
  /\ f.pc \in {"set_config", "installed", "off", "native_config"} => f.desc \in Descs

(* An unwrapped callback dispatches for its own context. *)
OwnDispatch(f, below) ==
  below.pc = "unwrapped" /\ f.op = "dispatch" => f.context = below.context

(* A callback runs on a presenter or inside set_config; a call inside a    *)
(* callback holds no lock.                                                 *)
Nested(t, i) ==
  \/ i = 2 /\ stack[t][i].pc \in Backs /\ stack[t][1].pc \in Sets
  \/ /\ stack[t][i].pc \in InCalls /\ stack[t][i - 1].pc \in Backs
     /\ OwnDispatch(stack[t][i], stack[t][i - 1])

StacksOK ==
  \A t \in Threads :
    /\ Depth(t) <= 3
    /\ \A i \in 1..Depth(t) : FrameOK(stack[t][i])
    /\ \A i \in 2..Depth(t) : Nested(t, i)

LocksHeld ==
  \A t \in Threads : \A i \in 1..Depth(t) :
    stack[t][i].pc \in Locked => holder[stack[t][i].context] = t

(* Someone is at destroy_translation and native.destroy. *)
Dying(c) == \E t \in Threads : At(t, "destroying") /\ Here(t) = c

Counted(c) ==
  /\ IsFiniteSet(Inside(c))
  /\ context[c].state = "absent" => Inside(c) = {}
  /\ context[c].state # "absent" => context[c].refs = 1 + Cardinality(Inside(c))
  /\ context[c].state = "freed" \/ Dying(c) =>
       \A p \in Inside(c) : stack[p[1]][p[2]].op = "callback"

RefsCounted == \A c \in Contexts : Counted(c)

(* A context has one destroyer, and is listed until it is done. *)
OneDestroyer ==
  \A t \in Threads : \A i \in 1..Depth(t) : stack[t][i].op = "destroy" =>
    /\ context[stack[t][i].context].state = "listed"
    /\ context[stack[t][i].context].closing
    /\ \A u \in Threads : \A j \in 1..Depth(u) :
         stack[u][j].op = "destroy" /\ stack[u][j].context = stack[t][i].context => u = t

Core == TypeOK /\ StacksOK /\ LocksHeld /\ RefsCounted /\ OneDestroyer

-----------------------------------------------------------------------------
(* What configure_lock protects. *)

BindingsOwned ==
  /\ \A c \in Contexts :
       context[c].binding # None => binding[context[c].binding].context = c
  /\ \A b \in Bindings :
       binding[b].context # None => context[binding[b].context].state # "absent"

(* A swapchain calls back a context that exists, through a binding if it   *)
(* is a MetalFX one.                                                       *)
ChainOwned ==
  \A s \in Swapchains : chain[s] # None =>
    /\ Caller(s) \in Contexts
    /\ context[Caller(s)].state # "absent"
    /\ chain[s] \in Bindings => context[Caller(s)].mode = "metalfx"
    /\ chain[s] \in Unwrapped => context[Caller(s)].mode = "native"
    /\ context[Caller(s)].state = "listed" => context[Caller(s)].swapchain = s

ClaimsDistinct ==
  \A c, o \in Contexts :
    /\ context[c].state = "listed" /\ context[o].state = "listed"
    /\ context[c].swapchain = context[o].swapchain
    /\ context[c].swapchain # None
    => c = o

(* A swapchain does not change its binding under a callback. *)
CallbackBound(f) ==
  /\ f.pc \in Backs => context[f.context].state # "absent"
  /\ f.pc = "unwrapped" => context[f.context].mode = "native"
  /\ f.pc = "callback" =>
       /\ context[f.context].mode = "metalfx"
       /\ f.swapchain # None /\ f.binding # None
       /\ chain[f.swapchain] = f.binding
       /\ binding[f.binding].context = f.context

(* What a call that installs or detaches relies on. *)
CallReady(f) ==
  /\ f.pc \in {"set_config", "installed"} =>
       /\ f.binding # None
       /\ binding[f.binding].context = f.context
       /\ context[f.context].mode = "metalfx"
       /\ f.desc.on /\ context[f.context].translated => context[f.context].translating
  /\ f.pc \in {"set_config", "installed", "detach", "detaching", "native_config"} =>
       f.swapchain # None /\ context[f.context].swapchain = f.swapchain
  /\ f.pc = "native_config" => context[f.context].mode = "native"
  /\ f.pc = "prepared" => context[f.context].mode = "pending"
  /\ f.pc = "installed" => chain[f.swapchain] = f.binding
  /\ f.pc = "detaching" => chain[f.swapchain] = None
  /\ f.pc = "off" => ~context[f.context].enabled

CallsReady ==
  \A t \in Threads : \A i \in 1..Depth(t) :
    CallbackBound(stack[t][i]) /\ CallReady(stack[t][i])

Undecided ==
  \A c \in Contexts : context[c].mode = "pending" =>
    ~context[c].enabled /\ ~context[c].translating /\ ~context[c].snapshots

(* MetalFX takes frames of a MetalFX context, or of one that is about to   *)
(* become one.                                                             *)
WorkDone ==
  \A c \in Contexts :
    /\ "metalfx" \in work[c] => context[c].mode = "metalfx" \/ Unstored(c)
    /\ context[c].mode = "metalfx" => context[c].state # "absent"

(* A thread that is in no callback dispatches once the mode is chosen. *)
Chosen ==
  \A t \in Threads : Depth(t) > 0 /\ stack[t][1].pc = "dispatching" =>
    context[stack[t][1].context].mode # "pending"

Data ==
  /\ BindingsOwned /\ ChainOwned /\ ClaimsDistinct /\ CallsReady
  /\ Undecided /\ WorkDone /\ TranslationMatches /\ Chosen

FgInv == Core /\ Data
-----------------------------------------------------------------------------
(* What the stack operations do, frame by frame. *)

(* Thread t alone changes its calls, which stay calls. *)
OnlyStack(t) ==
  /\ stack' \in [Threads -> Seq(Frame)]
  /\ \A u \in Threads : u # t => stack'[u] = stack[u]

PushStep(t, f) ==
  /\ OnlyStack(t)
  /\ Len(stack'[t]) = Len(stack[t]) + 1
  /\ stack'[t][Len(stack[t]) + 1] = f
  /\ \A i \in 1..Len(stack[t]) : stack'[t][i] = stack[t][i]

PopStep(t) ==
  /\ OnlyStack(t)
  /\ Len(stack[t]) > 0
  /\ Len(stack'[t]) = Len(stack[t]) - 1
  /\ \A i \in 1..(Len(stack[t]) - 1) : stack'[t][i] = stack[t][i]

MoveStep(t, f) ==
  /\ OnlyStack(t)
  /\ Len(stack[t]) > 0
  /\ Len(stack'[t]) = Len(stack[t])
  /\ stack'[t][Len(stack[t])] = f
  /\ \A i \in 1..(Len(stack[t]) - 1) : stack'[t][i] = stack[t][i]

(* Pushed puts a frame on top. *)
LEMMA PushFacts ==
  ASSUME TypeOK, NEW t \in Threads, NEW f \in Frame, stack' = Pushed(t, f)
  PROVE  PushStep(t, f)
<1>1. stack[t] \in Seq(Frame) /\ stack'[t] = Append(stack[t], f)
  BY DEF TypeOK, Pushed
<1>2. stack'[t] \in Seq(Frame)
  BY <1>1
<1>3. stack' \in [Threads -> Seq(Frame)]
  BY <1>2 DEF TypeOK, Pushed
<1>4. \A u \in Threads : u # t => stack'[u] = stack[u]
  BY DEF TypeOK, Pushed
<1>5. /\ Len(stack'[t]) = Len(stack[t]) + 1
      /\ stack'[t][Len(stack[t]) + 1] = f
      /\ \A i \in 1..Len(stack[t]) : stack'[t][i] = stack[t][i]
  BY <1>1
<1> QED BY <1>3, <1>4, <1>5 DEF PushStep, OnlyStack

(* Popped takes the top frame off. *)
LEMMA PopFacts ==
  ASSUME TypeOK, NEW t \in Threads, Depth(t) > 0, stack' = Popped(t)
  PROVE  PopStep(t)
<1>1. stack[t] \in Seq(Frame) /\ stack'[t] = SubSeq(stack[t], 1, Len(stack[t]) - 1)
  BY DEF TypeOK, Popped
<1>2. Len(stack[t]) \in Nat /\ Len(stack[t]) > 0
  BY <1>1 DEF Depth
<1>3. stack'[t] \in Seq(Frame)
  BY <1>1, <1>2
<1>4. stack' \in [Threads -> Seq(Frame)]
  BY <1>3 DEF TypeOK, Popped
<1>5. \A u \in Threads : u # t => stack'[u] = stack[u]
  BY DEF TypeOK, Popped
<1>6. /\ Len(stack'[t]) = Len(stack[t]) - 1
      /\ \A i \in 1..(Len(stack[t]) - 1) : stack'[t][i] = stack[t][i]
  BY <1>1, <1>2
<1> QED BY <1>2, <1>4, <1>5, <1>6 DEF PopStep, OnlyStack

(* The top frame is replaced. *)
Changed(t, f) == [stack EXCEPT ![t][Depth(t)] = f]

(* Changed replaces the top frame only. *)
LEMMA MoveFacts ==
  ASSUME TypeOK, NEW t \in Threads, NEW f \in Frame, Depth(t) > 0,
         stack' = Changed(t, f)
  PROVE  MoveStep(t, f)
<1>1. /\ stack[t] \in Seq(Frame) /\ Len(stack[t]) \in Nat /\ Len(stack[t]) > 0
      /\ stack'[t] = [stack[t] EXCEPT ![Len(stack[t])] = f]
  BY DEF TypeOK, Changed, Depth
<1>2. stack'[t] \in Seq(Frame) /\ Len(stack'[t]) = Len(stack[t])
  BY <1>1
<1>3. stack' \in [Threads -> Seq(Frame)]
  BY <1>2 DEF TypeOK, Changed
<1>4. \A u \in Threads : u # t => stack'[u] = stack[u]
  BY DEF TypeOK, Changed
<1>5. /\ stack'[t][Len(stack[t])] = f
      /\ \A i \in 1..(Len(stack[t]) - 1) : stack'[t][i] = stack[t][i]
  BY <1>1
<1> QED BY <1>1, <1>2, <1>3, <1>4, <1>5 DEF MoveStep, OnlyStack

(* The innermost call is a frame. *)
LEMMA TopFacts ==
  ASSUME TypeOK, NEW t \in Threads, Depth(t) > 0
  PROVE  /\ Depth(t) \in Nat /\ Depth(t) \in 1..Depth(t)
         /\ Top(t) \in Frame /\ Top(t) = stack[t][Depth(t)]
         /\ Here(t) \in Contexts /\ Here(t) = Top(t).context
         /\ Ctx(t) \in Context /\ Ctx(t) = context[Here(t)]
<1>1. stack[t] \in Seq(Frame)
  BY DEF TypeOK
<1>2. Depth(t) \in Nat /\ Depth(t) \in 1..Depth(t)
  BY <1>1 DEF Depth
<1>3. Top(t) \in Frame /\ Top(t) = stack[t][Depth(t)]
  BY <1>1, <1>2 DEF Top, Depth
<1>4. Here(t) \in Contexts /\ Here(t) = Top(t).context
  BY <1>3 DEF Here, Frame
<1> QED BY <1>2, <1>3, <1>4 DEF Ctx, TypeOK

(* Goto changes the place in the code only. *)
LEMMA GotoFacts ==
  ASSUME TypeOK, NEW t \in Threads, Depth(t) > 0, NEW pc \in PC, stack' = Goto(t, pc)
  PROVE  MoveStep(t, [Top(t) EXCEPT !.pc = pc]) /\ [Top(t) EXCEPT !.pc = pc] \in Frame
<1>1. Top(t) \in Frame /\ Top(t) = stack[t][Depth(t)]
  BY TopFacts
<1>2. [Top(t) EXCEPT !.pc = pc] \in Frame
  BY <1>1 DEF Frame
<1>3. stack' = Changed(t, [Top(t) EXCEPT !.pc = pc])
  BY <1>1 DEF Goto, Changed
<1> QED BY <1>2, <1>3, MoveFacts

-----------------------------------------------------------------------------
(* How calls nest. *)

(* All but callbacks and calls made in them are outermost. *)
LEMMA NestFacts ==
  ASSUME TypeOK, StacksOK, NEW t \in Threads, Depth(t) > 0
  PROVE  /\ FrameOK(Top(t))
         /\ Top(t).pc \notin InCalls \cup Backs => Depth(t) = 1
         /\ Top(t).pc \in Backs => Depth(t) <= 2
<1>1. Depth(t) \in Nat /\ Depth(t) \in 1..Depth(t) /\ Top(t) = stack[t][Depth(t)]
  BY TopFacts
<1>2. Depth(t) # 1 => Nested(t, Depth(t))
  BY <1>1 DEF StacksOK
<1>3. FrameOK(Top(t))
  BY <1>1 DEF StacksOK
<1>4. Top(t).pc \notin InCalls \cup Backs => Depth(t) = 1
  BY <1>1, <1>2 DEF Nested
<1>5. Top(t).pc \in Backs => Depth(t) <= 2
  BY <1>1, <1>2 DEF Nested, InCalls
<1> QED BY <1>3, <1>4, <1>5

(* A frame may go on top. *)
Fits(t, f) ==
  /\ FrameOK(f)
  /\ \/ Depth(t) = 0
     \/ Depth(t) > 0 /\ f.pc \in Backs /\ Top(t).pc \in Sets
     \/ /\ Depth(t) > 0 /\ f.pc \in InCalls /\ Top(t).pc \in Backs
        /\ OwnDispatch(f, Top(t))

(* A frame that fits keeps the nesting. *)
LEMMA PushStacks ==
  ASSUME TypeOK, StacksOK, NEW t \in Threads, NEW f, PushStep(t, f), Fits(t, f)
  PROVE  StacksOK'
<1>n. PICK n \in Nat : n = Len(stack[t])
  BY DEF TypeOK
<1>1. n \in Nat /\ Depth(t) = n
  BY <1>n DEF TypeOK, Depth
<1>a. n > 0 => Top(t) = stack[t][n]
  BY <1>1, TopFacts
<1>b. /\ n > 0 /\ Top(t).pc \in Sets => n = 1
      /\ n > 0 /\ Top(t).pc \in Backs => n <= 2
  BY <1>1, NestFacts DEF InCalls
<1>c. n = 0 \/ (n > 0 /\ f.pc \in Backs /\ Top(t).pc \in Sets)
        \/ (n > 0 /\ f.pc \in InCalls /\ Top(t).pc \in Backs /\ OwnDispatch(f, Top(t)))
  BY <1>1 DEF Fits
<1>2. /\ n > 0 /\ f.pc \in Backs => n = 1 /\ stack[t][1].pc \in Sets
      /\ n > 0 /\ f.pc \notin Backs =>
           /\ n <= 2 /\ f.pc \in InCalls /\ stack[t][n].pc \in Backs
           /\ OwnDispatch(f, stack[t][n])
  BY <1>1, <1>a, <1>b, <1>c DEF InCalls
<1>3. /\ Len(stack'[t]) = n + 1
      /\ stack'[t][n + 1] = f
      /\ \A i \in 1..n : stack'[t][i] = stack[t][i]
  BY <1>n DEF PushStep
<1>4. \A i \in 2..n : Nested(t, i)'
  BY <1>1, <1>3 DEF StacksOK, Nested, Depth
<1>5. n > 0 => Nested(t, n + 1)'
  <2>1. CASE f.pc \in Backs
    BY <1>1, <1>2, <1>3, <2>1 DEF Nested
  <2>2. CASE f.pc \notin Backs
    <3>1. n > 0 => /\ stack'[t][n + 1].pc \in InCalls /\ stack'[t][n].pc \in Backs
                   /\ OwnDispatch(stack'[t][n + 1], stack'[t][n])
      BY <1>1, <1>2, <1>3, <2>2
    <3>2. n + 1 - 1 = n
      BY <1>1
    <3> QED BY <3>1, <3>2 DEF Nested
  <2> QED BY <2>1, <2>2
<1>6. \A i \in 2..(n + 1) : Nested(t, i)'
  <2> SUFFICES ASSUME NEW i \in 2..(n + 1) PROVE Nested(t, i)'
    OBVIOUS
  <2>1. i \in 2..n \/ (i = n + 1 /\ n > 0)
    BY <1>1
  <2> QED BY <1>4, <1>5, <2>1
<1>7. \A i \in 1..(n + 1) : FrameOK(stack'[t][i])
  BY <1>1, <1>3 DEF StacksOK, Fits, Depth
<1>8. n + 1 <= 3
  <2>1. n = 0 \/ n = 1 \/ n <= 2
    BY <1>b, <1>c
  <2> QED BY <2>1
<1>9. ASSUME NEW u \in Threads, u # t
      PROVE  /\ Depth(u)' <= 3
             /\ \A i \in 1..Depth(u)' : FrameOK(stack'[u][i])
             /\ \A i \in 2..Depth(u)' : Nested(u, i)'
  BY <1>9 DEF StacksOK, PushStep, OnlyStack, Depth, Nested
<1>10. Depth(t)' = n + 1
  BY <1>3 DEF Depth
<1> QED BY <1>6, <1>7, <1>8, <1>9, <1>10 DEF StacksOK

(* So does the return of a call. *)
LEMMA PopStacks ==
  ASSUME TypeOK, StacksOK, NEW t \in Threads, PopStep(t)
  PROVE  StacksOK'
<1>n. PICK n \in Nat : n = Len(stack[t])
  BY DEF TypeOK
<1>1. n \in Nat /\ Depth(t) = n
  BY <1>n DEF TypeOK, Depth
<1>2. Depth(t)' = n - 1 /\ \A i \in 1..(n - 1) : stack'[t][i] = stack[t][i]
  BY <1>n DEF PopStep, Depth
<1>3. \A i \in 2..(n - 1) : Nested(t, i)'
  BY <1>1, <1>2 DEF StacksOK, Nested
<1>4. \A i \in 1..(n - 1) : FrameOK(stack'[t][i])
  BY <1>1, <1>2 DEF StacksOK
<1>5. ASSUME NEW u \in Threads, u # t
      PROVE  /\ Depth(u)' <= 3
             /\ \A i \in 1..Depth(u)' : FrameOK(stack'[u][i])
             /\ \A i \in 2..Depth(u)' : Nested(u, i)'
  BY <1>5 DEF StacksOK, PopStep, OnlyStack, Depth, Nested
<1>6. n - 1 <= 3
  BY <1>1 DEF StacksOK
<1> QED BY <1>2, <1>3, <1>4, <1>5, <1>6 DEF StacksOK

(* A call goes on: it keeps its context and its operation, and inside a    *)
(* callback it takes no lock.                                              *)
GoesOn(t, f) ==
  /\ FrameOK(f)
  /\ f.op = Top(t).op /\ f.context = Top(t).context
  /\ f.pc \notin Backs /\ Top(t).pc \notin Backs
  /\ Depth(t) = 1 \/ f.pc \in InCalls

(* So does a call that goes on. *)
LEMMA MoveStacks ==
  ASSUME TypeOK, StacksOK, NEW t \in Threads, NEW f, MoveStep(t, f), GoesOn(t, f)
  PROVE  StacksOK'
<1>n. PICK n \in Nat : n = Len(stack[t])
  BY DEF TypeOK
<1>0. n > 0
  BY <1>n DEF MoveStep
<1>1. n \in Nat /\ n > 0 /\ Depth(t) = n /\ Depth(t)' = n
  BY <1>n DEF TypeOK, Depth, MoveStep
<1>2. stack'[t][n] = f /\ \A i \in 1..(n - 1) : stack'[t][i] = stack[t][i]
  BY <1>n DEF MoveStep
<1>3. \A i \in 2..(n - 1) : Nested(t, i)'
  BY <1>1, <1>2 DEF StacksOK, Nested
<1>4. n # 1 => Nested(t, n)'
  <2> SUFFICES ASSUME n # 1 PROVE Nested(t, n)'
    OBVIOUS
  <2>0. n \in 2..n /\ n - 1 \in 1..(n - 1)
    BY <1>0
  <2>1. Nested(t, n)
    BY <1>1, <2>0 DEF StacksOK
  <2>2. /\ stack[t][n].pc \notin Backs /\ f.pc \in InCalls
        /\ f.op = stack[t][n].op /\ f.context = stack[t][n].context
    BY <1>1 DEF GoesOn, Top
  <2>3. stack[t][n - 1].pc \in Backs /\ OwnDispatch(stack[t][n], stack[t][n - 1])
    BY <2>1, <2>2 DEF Nested
  <2>4. stack'[t][n - 1] = stack[t][n - 1]
    BY <1>2, <2>0
  <2>5. OwnDispatch(f, stack[t][n - 1])
    BY <2>2, <2>3 DEF OwnDispatch
  <2> QED BY <1>2, <2>2, <2>3, <2>4, <2>5 DEF Nested
<1>5. ASSUME NEW i \in 2..n PROVE Nested(t, i)'
  <2>1. i \in 2..(n - 1) \/ (i = n /\ n # 1)
    BY <1>0
  <2> QED BY <1>3, <1>4, <2>1
<1>6. \A i \in 1..n : FrameOK(stack'[t][i])
  BY <1>1, <1>2 DEF StacksOK, GoesOn
<1>7. ASSUME NEW u \in Threads, u # t
      PROVE  /\ Depth(u)' <= 3
             /\ \A i \in 1..Depth(u)' : FrameOK(stack'[u][i])
             /\ \A i \in 2..Depth(u)' : Nested(u, i)'
  BY <1>7 DEF StacksOK, MoveStep, OnlyStack, Depth, Nested
<1> QED BY <1>1, <1>5, <1>6, <1>7 DEF StacksOK

-----------------------------------------------------------------------------
(* The calls inside a context. *)

(* The stack is one of frames. *)
LEMMA StackTyped ==
  ASSUME TypeOK, NEW u \in Threads
  PROVE  /\ Len(stack[u]) \in Nat
         /\ \A i \in 1..Len(stack[u]) :
              stack[u][i] \in Frame /\ stack[u][i].context \in Contexts
<1>1. stack[u] \in Seq(Frame)
  BY DEF TypeOK
<1>2. Len(stack[u]) \in Nat /\ \A i \in 1..Len(stack[u]) : stack[u][i] \in Frame
  BY <1>1
<1> QED BY <1>2 DEF Frame

(* A new call is inside its context, unless it holds no reference. *)
LEMMA InsidePush ==
  ASSUME TypeOK, NEW t \in Threads, NEW f, PushStep(t, f), Depth(t) <= 2,
         NEW c \in Contexts
  PROVE  /\ <<t, Depth(t) + 1>> \notin Inside(c)
         /\ \A p \in Inside(c) : stack'[p[1]][p[2]] = stack[p[1]][p[2]]
         /\ f.context = c /\ f.op \notin Uncounted =>
              Inside(c)' = Inside(c) \cup {<<t, Depth(t) + 1>>}
         /\ f.context # c \/ f.op \in Uncounted => Inside(c)' = Inside(c)
<1>n. PICK n \in Nat : n = Len(stack[t])
  BY DEF TypeOK
<1>1. Depth(t) = n /\ n <= 2
  BY <1>n DEF Depth
<1>2. /\ Len(stack'[t]) = n + 1
      /\ stack'[t][n + 1] = f
      /\ \A i \in 1..n : stack'[t][i] = stack[t][i]
      /\ \A u \in Threads : u # t => stack'[u] = stack[u]
  BY <1>n DEF PushStep, OnlyStack
<1> DEFINE In(p) == p[2] <= Len(stack[p[1]]) /\ stack[p[1]][p[2]].context = c
                      /\ stack[p[1]][p[2]].op \notin Uncounted
           InNext(p) == p[2] <= Len(stack'[p[1]]) /\ stack'[p[1]][p[2]].context = c
                      /\ stack'[p[1]][p[2]].op \notin Uncounted
<1>3. /\ Inside(c) = {p \in Threads \X (1..3) : In(p)}
      /\ Inside(c)' = {p \in Threads \X (1..3) : InNext(p)}
  BY DEF Inside, Depth
<1>4. ASSUME NEW u \in Threads, NEW i \in 1..3, <<u, i>> # <<t, n + 1>>
      PROVE  /\ In(<<u, i>>) <=> InNext(<<u, i>>)
             /\ In(<<u, i>>) => stack'[u][i] = stack[u][i]
  <2>1. CASE u # t
    BY <1>2, <2>1
  <2>2. CASE u = t /\ i <= n
    <3>1. stack'[u][i] = stack[u][i] /\ i <= Len(stack'[u]) /\ i <= Len(stack[u])
      BY <1>2, <1>n, <2>2
    <3> QED BY <3>1
  <2>3. CASE u = t /\ i > n
    <3>1. i # n + 1
      BY <1>4, <2>3
    <3>2. ~(i <= Len(stack'[u])) /\ ~(i <= Len(stack[u]))
      BY <1>2, <1>n, <2>3, <3>1
    <3> QED BY <3>2
  <2> QED BY <2>1, <2>2, <2>3
<1>5. <<t, n + 1>> \in Threads \X (1..3) /\ ~In(<<t, n + 1>>)
  BY <1>1, <1>n
<1>6. InNext(<<t, n + 1>>) <=> f.context = c /\ f.op \notin Uncounted
  BY <1>2
<1> HIDE DEF In, InNext
<1>7. \A p \in Threads \X (1..3) : p # <<t, n + 1>> =>
        /\ In(p) <=> InNext(p)
        /\ In(p) => stack'[p[1]][p[2]] = stack[p[1]][p[2]]
  <2> SUFFICES ASSUME NEW p \in Threads \X (1..3), p # <<t, n + 1>>
               PROVE  /\ In(p) <=> InNext(p)
                      /\ In(p) => stack'[p[1]][p[2]] = stack[p[1]][p[2]]
    OBVIOUS
  <2>1. PICK u \in Threads, i \in 1..3 : p = <<u, i>>
    OBVIOUS
  <2>2. p[1] = u /\ p[2] = i
    BY <2>1
  <2> QED BY <1>4, <2>1, <2>2
<1> QED BY <1>1, <1>3, <1>5, <1>6, <1>7

(* A call that has returned is not inside. *)
LEMMA InsidePop ==
  ASSUME TypeOK, StacksOK, NEW t \in Threads, PopStep(t), NEW c \in Contexts
  PROVE  /\ \A p \in Inside(c)' : stack'[p[1]][p[2]] = stack[p[1]][p[2]]
         /\ Top(t).context = c /\ Top(t).op \notin Uncounted =>
              /\ <<t, Depth(t)>> \in Inside(c)
              /\ Inside(c)' = Inside(c) \ {<<t, Depth(t)>>}
         /\ Top(t).context # c \/ Top(t).op \in Uncounted => Inside(c)' = Inside(c)
<1>n. PICK n \in Nat : n = Len(stack[t])
  BY DEF TypeOK
<1>1. Depth(t) = n /\ n <= 3 /\ n > 0 /\ Top(t) = stack[t][n]
  BY <1>n DEF Depth, StacksOK, Top, PopStep
<1>2. /\ Len(stack'[t]) = n - 1
      /\ \A i \in 1..(n - 1) : stack'[t][i] = stack[t][i]
      /\ \A u \in Threads : u # t => stack'[u] = stack[u]
  BY <1>n DEF PopStep, OnlyStack
<1> DEFINE In(p) == p[2] <= Len(stack[p[1]]) /\ stack[p[1]][p[2]].context = c
                      /\ stack[p[1]][p[2]].op \notin Uncounted
           InNext(p) == p[2] <= Len(stack'[p[1]]) /\ stack'[p[1]][p[2]].context = c
                      /\ stack'[p[1]][p[2]].op \notin Uncounted
<1>3. /\ Inside(c) = {p \in Threads \X (1..3) : In(p)}
      /\ Inside(c)' = {p \in Threads \X (1..3) : InNext(p)}
  BY DEF Inside, Depth
<1>4. ASSUME NEW u \in Threads, NEW i \in 1..3, <<u, i>> # <<t, n>>
      PROVE  /\ In(<<u, i>>) <=> InNext(<<u, i>>)
             /\ InNext(<<u, i>>) => stack'[u][i] = stack[u][i]
  <2>1. CASE u # t
    BY <1>2, <2>1
  <2>2. CASE u = t /\ i < n
    <3>1. stack'[u][i] = stack[u][i] /\ i <= Len(stack'[u]) /\ i <= Len(stack[u])
      BY <1>2, <1>n, <2>2
    <3> QED BY <3>1
  <2>3. CASE u = t /\ i >= n
    <3>1. i # n
      BY <1>4, <2>3
    <3>2. ~(i <= Len(stack'[u])) /\ ~(i <= Len(stack[u]))
      BY <1>2, <1>n, <2>3, <3>1
    <3> QED BY <3>2
  <2> QED BY <2>1, <2>2, <2>3
<1>5. <<t, n>> \in Threads \X (1..3) /\ ~InNext(<<t, n>>)
  BY <1>1, <1>2
<1>6. In(<<t, n>>) <=> Top(t).context = c /\ Top(t).op \notin Uncounted
  BY <1>1, <1>n
<1> HIDE DEF In, InNext
<1>7. \A p \in Threads \X (1..3) : p # <<t, n>> =>
        /\ In(p) <=> InNext(p)
        /\ InNext(p) => stack'[p[1]][p[2]] = stack[p[1]][p[2]]
  <2> SUFFICES ASSUME NEW p \in Threads \X (1..3), p # <<t, n>>
               PROVE  /\ In(p) <=> InNext(p)
                      /\ InNext(p) => stack'[p[1]][p[2]] = stack[p[1]][p[2]]
    OBVIOUS
  <2>1. PICK u \in Threads, i \in 1..3 : p = <<u, i>>
    OBVIOUS
  <2>2. p[1] = u /\ p[2] = i
    BY <2>1
  <2> QED BY <1>4, <2>1, <2>2
<1> QED BY <1>1, <1>3, <1>5, <1>6, <1>7

(* A call that goes on stays where it is. *)
LEMMA InsideMove ==
  ASSUME TypeOK, NEW t \in Threads, NEW f, MoveStep(t, f), GoesOn(t, f),
         NEW c \in Contexts
  PROVE  /\ Inside(c)' = Inside(c)
         /\ \A p \in Inside(c) : stack'[p[1]][p[2]].op = stack[p[1]][p[2]].op
<1>n. PICK n \in Nat : n = Len(stack[t])
  BY DEF TypeOK
<1>1. Top(t) = stack[t][n] /\ n > 0
  BY <1>n DEF Depth, Top, MoveStep
<1>2. /\ Len(stack'[t]) = n
      /\ stack'[t][n] = f
      /\ \A i \in 1..(n - 1) : stack'[t][i] = stack[t][i]
      /\ \A u \in Threads : u # t => stack'[u] = stack[u]
  BY <1>n DEF MoveStep, OnlyStack
<1>3. ASSUME NEW u \in Threads, NEW i \in 1..3, i <= Len(stack[u])
      PROVE  /\ stack'[u][i].op = stack[u][i].op
             /\ stack'[u][i].context = stack[u][i].context
  <2>1. CASE u # t
    BY <1>2, <2>1
  <2>2. CASE u = t /\ i = n
    BY <1>1, <1>2, <2>2 DEF GoesOn
  <2>3. CASE u = t /\ i # n
    <3>1. i \in 1..(n - 1)
      BY <1>3, <1>n, <2>3
    <3> QED BY <1>2, <2>3, <3>1
  <2> QED BY <2>1, <2>2, <2>3
<1>4. \A u \in Threads : Len(stack'[u]) = Len(stack[u])
  BY <1>2, <1>n
<1>5. \A p \in Threads \X (1..3) :
        p[2] <= Len(stack[p[1]]) =>
          /\ stack'[p[1]][p[2]].op = stack[p[1]][p[2]].op
          /\ stack'[p[1]][p[2]].context = stack[p[1]][p[2]].context
  BY <1>3
<1>6. \A p \in Threads \X (1..3) : Len(stack'[p[1]]) = Len(stack[p[1]])
  BY <1>4
<1> QED BY <1>5, <1>6 DEF Inside, Depth

-----------------------------------------------------------------------------
(* The core invariant, kind of step by kind of step. *)

RestTyped ==
  /\ holder \in [Contexts -> Threads \cup {None}]
  /\ binding \in [Bindings -> Binding]
  /\ chain \in [Swapchains -> Bindings \cup Unwrapped \cup {None}]
  /\ failed \in [Contexts -> BOOLEAN]
  /\ work \in [Contexts -> SUBSET {"metalfx", "native"}]

ContextsTyped == context \in [Contexts -> Context]

(* The types, in parts. *)
LEMMA TypeParts ==
  /\ TypeOK <=> ContextsTyped /\ RestTyped /\ stack \in [Threads -> Seq(Frame)]
  /\ TypeOK' <=> ContextsTyped' /\ RestTyped' /\ stack' \in [Threads -> Seq(Frame)]
BY DEF TypeOK, ContextsTyped, RestTyped

(* The frames of the next state, but for new ones, are frames of this one. *)
OldFrames(t, n) ==
  \A u \in Threads : \A i \in 1..Depth(u)' : u # t \/ i # n =>
    /\ i \in 1..Depth(u)
    /\ stack'[u][i] = stack[u][i]

(* All old frames stay, below the new one. *)
LEMMA PushFrames ==
  ASSUME TypeOK, NEW t \in Threads, NEW f, PushStep(t, f)
  PROVE  /\ OldFrames(t, Depth(t) + 1)
         /\ Depth(t)' = Depth(t) + 1 /\ Depth(t) \in Nat
         /\ stack'[t][Depth(t)'] = f
<1>n. PICK n \in Nat : n = Len(stack[t])
  BY DEF TypeOK
<1>1. Depth(t) = n /\ Depth(t)' = n + 1 /\ stack'[t][n + 1] = f
  BY <1>n DEF Depth, PushStep
<1>2. ASSUME NEW u \in Threads, NEW i \in 1..Depth(u)', u # t \/ i # n + 1
      PROVE  i \in 1..Depth(u) /\ stack'[u][i] = stack[u][i]
  <2>1. CASE u = t
    <3>1. i \in 1..n
      BY <1>1, <1>2, <2>1
    <3> QED BY <1>1, <1>n, <2>1, <3>1 DEF PushStep
  <2>2. CASE u # t
    BY <2>2 DEF PushStep, OnlyStack, Depth
  <2> QED BY <2>1, <2>2
<1> QED BY <1>1, <1>2 DEF OldFrames

(* A return leaves old frames only. *)
LEMMA PopFrames ==
  ASSUME TypeOK, NEW t \in Threads, PopStep(t)
  PROVE  /\ OldFrames(t, 0) /\ OldFrames(t, Depth(t))
         /\ Depth(t) > 0
<1>n. PICK n \in Nat : n = Len(stack[t])
  BY DEF TypeOK
<1>1. Depth(t) = n /\ Depth(t)' = n - 1 /\ n > 0
  BY <1>n DEF Depth, PopStep
<1>2. ASSUME NEW u \in Threads, NEW i \in 1..Depth(u)'
      PROVE  i \in 1..Depth(u) /\ stack'[u][i] = stack[u][i]
  <2>1. CASE u = t
    <3>1. i \in 1..(n - 1) /\ i \in 1..n
      BY <1>1, <2>1
    <3> QED BY <1>1, <1>n, <2>1, <3>1 DEF PopStep
  <2>2. CASE u # t
    BY <2>2 DEF PopStep, OnlyStack, Depth
  <2> QED BY <2>1, <2>2
<1> QED BY <1>1, <1>2 DEF OldFrames

(* A call that goes on leaves the others alone. *)
LEMMA MoveFrames ==
  ASSUME TypeOK, NEW t \in Threads, NEW f, MoveStep(t, f)
  PROVE  /\ OldFrames(t, Depth(t))
         /\ Depth(t)' = Depth(t) /\ Depth(t) \in Nat /\ Depth(t) > 0
         /\ stack'[t][Depth(t)'] = f
<1>n. PICK n \in Nat : n = Len(stack[t])
  BY DEF TypeOK
<1>1. Depth(t) = n /\ Depth(t)' = n /\ n > 0 /\ stack'[t][n] = f
  BY <1>n DEF Depth, MoveStep
<1>2. ASSUME NEW u \in Threads, NEW i \in 1..Depth(u)', u # t \/ i # n
      PROVE  i \in 1..Depth(u) /\ stack'[u][i] = stack[u][i]
  <2>1. CASE u = t
    <3>1. i \in 1..(n - 1) /\ i \in 1..n
      BY <1>1, <1>2, <2>1
    <3> QED BY <1>1, <1>n, <2>1, <3>1 DEF MoveStep
  <2>2. CASE u # t
    BY <2>2 DEF MoveStep, OnlyStack, Depth
  <2> QED BY <2>1, <2>2
<1> QED BY <1>1, <1>2 DEF OldFrames

(* Who was not at the end of a destruction is not, unless the step brings  *)
(* it there.                                                               *)
LEMMA DyingBefore ==
  ASSUME TypeOK, StacksOK, NEW t \in Threads, NEW n, OldFrames(t, n),
         NEW c \in Contexts, Dying(c)',
         \A i \in 1..Depth(t)' : i = n =>
           stack'[t][i].pc # "destroying" \/ stack'[t][i].context # c,
         \A u \in Threads : Depth(u)' \in Nat
  PROVE  \E u \in Threads : \E i \in 1..Depth(u) :
           /\ stack[u][i].pc = "destroying" /\ stack[u][i].op = "destroy"
           /\ stack[u][i].context = c
           /\ At(u, "destroying") /\ Here(u) = c
<1>1. PICK u \in Threads : At(u, "destroying")' /\ Here(u)' = c
  BY DEF Dying
<1>2. /\ Depth(u)' \in 1..Depth(u)'
      /\ stack'[u][Depth(u)'].pc = "destroying" /\ stack'[u][Depth(u)'].context = c
  BY <1>1 DEF At, Here, Top
<1> PICK m : m = Depth(u)'
  OBVIOUS
<1>3. m \in 1..Depth(u)' /\ stack'[u][m].pc = "destroying" /\ stack'[u][m].context = c
  BY <1>2
<1>4. m \in 1..Depth(u) /\ stack'[u][m] = stack[u][m]
  <2>1. u # t \/ m # n
    BY <1>3
  <2> QED BY <1>3, <2>1 DEF OldFrames
<1>5. stack[u][m].pc = "destroying" /\ stack[u][m].context = c /\ FrameOK(stack[u][m])
  BY <1>3, <1>4 DEF StacksOK
<1>6. Depth(u) \in Nat
  BY StackTyped DEF Depth
<1>7. m = Depth(u)
  <2> SUFFICES ASSUME m # Depth(u) PROVE FALSE
    OBVIOUS
  <2>1. m + 1 \in 2..Depth(u) /\ m + 1 - 1 = m
    BY <1>4, <1>6
  <2>2. Nested(u, m + 1)
    BY <2>1 DEF StacksOK
  <2>3. stack[u][m].pc \in Backs \/ (m + 1 = 2 /\ stack[u][1].pc \in Sets)
    BY <2>1, <2>2 DEF Nested
  <2>4. m + 1 = 2 => m = 1
    BY <1>4, <1>6
  <2> QED BY <1>5, <2>3, <2>4
<1>8. At(u, "destroying") /\ Here(u) = c
  BY <1>4, <1>5, <1>6, <1>7 DEF At, Here, Top
<1> QED BY <1>4, <1>5, <1>8 DEF FrameOK, Destroying

(* configure_lock changes hands only through its holder, or when free. *)
HandsOver(t, n) ==
  \/ holder' = holder
  \/ /\ Depth(t)' = 1 /\ n = 1
     /\ \A c \in Contexts : holder'[c] = holder[c] \/ holder[c] \in {None, t}

(* Locks stay held. *)
LEMMA LocksStep ==
  ASSUME TypeOK, StacksOK, LocksHeld, NEW t \in Threads, NEW n, OldFrames(t, n),
         HandsOver(t, n),
         \A i \in 1..Depth(t)' : i = n =>
           (stack'[t][i].pc \in Locked => holder'[stack'[t][i].context] = t)
  PROVE  LocksHeld'
<1> SUFFICES ASSUME NEW u \in Threads, NEW i \in 1..Depth(u)',
                    stack'[u][i].pc \in Locked
             PROVE  holder'[stack'[u][i].context] = u
  BY DEF LocksHeld
<1>1. CASE u = t /\ i = n
  BY <1>1
<1>2. CASE ~(u = t /\ i = n)
  <2>1. i \in 1..Depth(u) /\ stack'[u][i] = stack[u][i]
    BY <1>2 DEF OldFrames
  <2> PICK c : c = stack[u][i].context
    OBVIOUS
  <2>2. holder[c] = u /\ c \in Contexts
    BY <2>1, StackTyped DEF LocksHeld, Depth
  <2>3. holder'[c] = holder[c]
    <3>1. CASE holder' = holder
      BY <3>1
    <3>2. CASE holder' # holder
      <4>1. n = 1 /\ Depth(t)' = 1
        BY <3>2 DEF HandsOver
      <4>2. u # t
        BY <1>2, <4>1
      <4>3. u # None
        BY NoneAssumption
      <4> QED BY <2>2, <3>2, <4>2, <4>3 DEF HandsOver
    <3> QED BY <3>1, <3>2
  <2> QED BY <2>1, <2>2, <2>3
<1> QED BY <1>1, <1>2

(* A context keeps its destroyer. *)
LEMMA DestroyerStep ==
  ASSUME TypeOK, OneDestroyer, NEW t \in Threads, NEW n, OldFrames(t, n),
         \A i \in 1..Depth(t)' : i = n =>
           \/ stack'[t][i].op # "destroy"
           \/ /\ i \in 1..Depth(t)
              /\ stack[t][i].op = "destroy"
              /\ stack[t][i].context = stack'[t][i].context,
         \A c \in Contexts : context[c].state = "listed" /\ context[c].closing =>
           context'[c].state = "listed" /\ context'[c].closing
  PROVE  OneDestroyer'
<1>1. ASSUME NEW u \in Threads, NEW i \in 1..Depth(u)', stack'[u][i].op = "destroy"
      PROVE  /\ i \in 1..Depth(u)
             /\ stack[u][i].op = "destroy"
             /\ stack[u][i].context = stack'[u][i].context
  <2>1. CASE u = t /\ i = n
    BY <1>1, <2>1
  <2>2. CASE ~(u = t /\ i = n)
    BY <1>1, <2>2 DEF OldFrames
  <2> QED BY <2>1, <2>2
<1> SUFFICES ASSUME NEW u \in Threads, NEW i \in 1..Depth(u)',
                    stack'[u][i].op = "destroy"
             PROVE  /\ context'[stack'[u][i].context].state = "listed"
                    /\ context'[stack'[u][i].context].closing
                    /\ \A v \in Threads : \A j \in 1..Depth(v)' :
                         stack'[v][j].op = "destroy"
                           /\ stack'[v][j].context = stack'[u][i].context => v = u
  BY DEF OneDestroyer
<1> PICK c : c = stack'[u][i].context
  OBVIOUS
<1>2. i \in 1..Depth(u) /\ stack[u][i].op = "destroy" /\ stack[u][i].context = c
  BY <1>1
<1>3. context[c].state = "listed" /\ context[c].closing /\ c \in Contexts
  BY <1>2, StackTyped DEF OneDestroyer, Depth
<1>4. context'[c].state = "listed" /\ context'[c].closing
  BY <1>3
<1>5. ASSUME NEW v \in Threads, NEW j \in 1..Depth(v)',
             stack'[v][j].op = "destroy", stack'[v][j].context = c
      PROVE  v = u
  <2>1. j \in 1..Depth(v) /\ stack[v][j].op = "destroy" /\ stack[v][j].context = c
    BY <1>1, <1>5
  <2> QED BY <1>2, <2>1 DEF OneDestroyer
<1> QED BY <1>4, <1>5

(* Depths are numbers in the next state too. *)
LEMMA DepthNext ==
  ASSUME NEW t \in Threads, OnlyStack(t)
  PROVE  \A u \in Threads : Depth(u)' \in Nat
BY DEF OnlyStack, Depth

(* A reference is taken by a call on a context that is listed and not      *)
(* closing, or by a callback.                                              *)
LEMMA PushCore ==
  ASSUME Core, NEW t \in Threads, NEW c \in Contexts, NEW f, PushStep(t, f), Fits(t, f),
         f.context = c, f.pc \notin Locked, f.op \notin Uncounted,
         context[c].state # "absent", f.op = "callback" \/ Acquirable(c),
         context' = Referenced(c), UNCHANGED <<holder, binding, chain, failed, work>>
  PROVE  Core'
<1>1. TypeOK /\ StacksOK /\ LocksHeld /\ RefsCounted /\ OneDestroyer
  BY DEF Core
<1> PICK n : n = Depth(t)
  OBVIOUS
<1>2. /\ OldFrames(t, n + 1) /\ Depth(t)' = n + 1 /\ stack'[t][n + 1] = f
      /\ n \in Nat
  BY <1>1, PushFrames
<1>3. StacksOK'
  BY <1>1, PushStacks
<1>4. n <= 2
  BY <1>2, <1>3 DEF StacksOK
<1>5. LocksHeld'
  <2>1. HandsOver(t, n + 1)
    BY DEF HandsOver
  <2> QED BY <1>1, <1>2, <2>1, LocksStep
<1>6. context \in [Contexts -> Context] /\ context[c] \in Context
  BY <1>1 DEF TypeOK
<1>7. context'[c] = [context[c] EXCEPT !.refs = @ + 1]
      /\ \A d \in Contexts : d # c => context'[d] = context[d]
  BY <1>6 DEF Referenced
<1>8. /\ context'[c] \in Context
      /\ context'[c].refs = context[c].refs + 1
      /\ context'[c].state = context[c].state
      /\ context'[c].closing = context[c].closing
  BY <1>6, <1>7 DEF Context
<1>9. TypeOK'
  <2>1. context' \in [Contexts -> Context]
    BY <1>6, <1>8 DEF Referenced
  <2> QED BY <1>1, <2>1 DEF TypeOK, PushStep, OnlyStack
<1>10. OneDestroyer'
  <2>1. \A d \in Contexts : context'[d].state = context[d].state
                              /\ context'[d].closing = context[d].closing
    BY <1>7, <1>8
  <2>2. \A i \in 1..Depth(t)' : i = n + 1 => stack'[t][i].op # "destroy"
    BY <1>2
  <2> QED BY <1>1, <1>2, <2>1, <2>2, DestroyerStep
<1>11. \A u \in Threads : Depth(u)' \in Nat
  BY DepthNext DEF PushStep
<1>12. ASSUME NEW d \in Contexts PROVE Counted(d)'
  <2>1. Counted(d)
    BY <1>1 DEF RefsCounted
  <2>2. Dying(d)' => Dying(d) /\ context[d].closing
    <3> SUFFICES ASSUME Dying(d)' PROVE Dying(d) /\ context[d].closing
      OBVIOUS
    <3>1. \A i \in 1..Depth(t)' : i = n + 1 => stack'[t][i].pc # "destroying"
      BY <1>2 DEF Fits, FrameOK, Destroying
    <3>2. PICK u \in Threads : \E i \in 1..Depth(u) :
            /\ stack[u][i].pc = "destroying" /\ stack[u][i].op = "destroy"
            /\ stack[u][i].context = d
            /\ At(u, "destroying") /\ Here(u) = d
      BY <1>1, <1>2, <1>11, <3>1, DyingBefore
    <3> QED BY <1>1, <3>2 DEF OneDestroyer, Dying
  <2> PICK e : e = <<t, n + 1>>
    OBVIOUS
  <2>3. /\ e \notin Inside(d)
        /\ \A p \in Inside(d) : stack'[p[1]][p[2]] = stack[p[1]][p[2]]
        /\ d = c => Inside(d)' = Inside(d) \cup {e}
        /\ d # c => Inside(d)' = Inside(d)
    BY <1>1, <1>4, InsidePush
  <2>4. CASE d # c
    <3>1. context'[d] = context[d] /\ Inside(d)' = Inside(d)
      BY <1>7, <2>3, <2>4
    <3>2. /\ IsFiniteSet(Inside(d)')
          /\ context'[d].state = "absent" => Inside(d)' = {}
          /\ context'[d].state # "absent" => context'[d].refs = 1 + Cardinality(Inside(d)')
      BY <2>1, <3>1 DEF Counted
    <3>3. context'[d].state = "freed" \/ Dying(d)' =>
            \A p \in Inside(d)' : stack'[p[1]][p[2]].op = "callback"
      BY <2>1, <2>2, <2>3, <3>1 DEF Counted
    <3> QED BY <3>2, <3>3 DEF Counted
  <2>5. CASE d = c
    <3>1. Inside(c)' = Inside(c) \cup {e} /\ e \notin Inside(c) /\ IsFiniteSet(Inside(c))
      BY <2>1, <2>3, <2>5 DEF Counted
    <3>2. /\ IsFiniteSet(Inside(c)')
          /\ Cardinality(Inside(c)') = Cardinality(Inside(c)) + 1
      <4>1. /\ IsFiniteSet(Inside(c) \cup {e})
            /\ Cardinality(Inside(c) \cup {e}) = Cardinality(Inside(c)) + 1
        BY <3>1, FS_AddElement
      <4> QED BY <3>1, <4>1
    <3>3. Cardinality(Inside(c)) \in Nat
      BY <3>1, FS_CardinalityType
    <3>4. context'[c].refs = 1 + Cardinality(Inside(c)')
      <4>1. context[c].refs = 1 + Cardinality(Inside(c))
        BY <2>1, <2>5 DEF Counted
      <4> QED BY <1>8, <3>2, <3>3, <4>1
    <3>5. ASSUME context'[c].state = "freed" \/ Dying(c)'
          PROVE  \A p \in Inside(c)' : stack'[p[1]][p[2]].op = "callback"
      <4>1. context[c].state = "freed" \/ (Dying(c) /\ context[c].closing)
        BY <1>8, <2>2, <2>5, <3>5
      <4>2. f.op = "callback"
        BY <4>1 DEF Acquirable
      <4>3. \A p \in Inside(c) : stack'[p[1]][p[2]].op = "callback"
        BY <2>1, <2>3, <2>5, <4>1 DEF Counted
      <4>4. stack'[e[1]][e[2]].op = "callback"
        BY <1>2, <4>2
      <4> QED BY <3>1, <4>3, <4>4
    <3> QED BY <1>8, <2>5, <3>2, <3>4, <3>5 DEF Counted
  <2> QED BY <2>4, <2>5
<1> QED BY <1>3, <1>5, <1>9, <1>10, <1>12 DEF Core, RefsCounted

(* ffxDestroyContext is not counted; it closes a context nobody else is    *)
(* closing.                                                                *)
LEMMA PushDestroyCore ==
  ASSUME Core, NEW t \in Threads, NEW c \in Contexts, NEW f, PushStep(t, f), Fits(t, f),
         f.context = c, f.pc = "destroy", f.op = "destroy", Acquirable(c),
         context' = [context EXCEPT ![c].closing = TRUE],
         UNCHANGED <<holder, binding, chain, failed, work>>
  PROVE  Core'
<1>1. TypeOK /\ StacksOK /\ LocksHeld /\ RefsCounted /\ OneDestroyer
  BY DEF Core
<1> PICK n : n = Depth(t)
  OBVIOUS
<1>2. /\ OldFrames(t, n + 1) /\ Depth(t)' = n + 1 /\ stack'[t][n + 1] = f
      /\ n \in Nat
  BY <1>1, PushFrames
<1>3. StacksOK'
  BY <1>1, PushStacks
<1>4. n <= 2
  BY <1>2, <1>3 DEF StacksOK
<1>5. LocksHeld'
  <2>1. HandsOver(t, n + 1)
    BY DEF HandsOver
  <2>2. f.pc \notin Locked
    BY DEF Locked
  <2> QED BY <1>1, <1>2, <2>1, <2>2, LocksStep
<1>6. context \in [Contexts -> Context] /\ context[c] \in Context
  BY <1>1 DEF TypeOK
<1>7. context'[c] = [context[c] EXCEPT !.closing = TRUE]
      /\ \A d \in Contexts : d # c => context'[d] = context[d]
  BY <1>6
<1>8. /\ context'[c] \in Context
      /\ context'[c].refs = context[c].refs
      /\ context'[c].state = context[c].state
      /\ context'[c].closing = TRUE
  BY <1>6, <1>7 DEF Context
<1>9. TypeOK'
  <2>1. context' \in [Contexts -> Context]
    BY <1>6, <1>8
  <2> QED BY <1>1, <2>1 DEF TypeOK, PushStep, OnlyStack
<1>10. OneDestroyer'
  <2>0. context[c].state = "listed" /\ ~context[c].closing
    BY DEF Acquirable
  <2>1. ASSUME NEW u \in Threads, NEW i \in 1..Depth(u)', u # t \/ i # n + 1,
               stack'[u][i].op = "destroy"
        PROVE  /\ i \in 1..Depth(u) /\ stack'[u][i] = stack[u][i]
               /\ stack[u][i].context # c /\ stack[u][i].context \in Contexts
    <3>1. i \in 1..Depth(u) /\ stack'[u][i] = stack[u][i]
      BY <1>2, <2>1 DEF OldFrames
    <3>2. context[stack[u][i].context].closing
      BY <1>1, <2>1, <3>1 DEF OneDestroyer
    <3>3. stack[u][i].context \in Contexts
      BY <1>1, <3>1, StackTyped DEF Depth
    <3> QED BY <2>0, <3>1, <3>2, <3>3
  <2>2. ASSUME NEW u \in Threads, NEW i \in 1..Depth(u)', stack'[u][i].op = "destroy"
        PROVE  /\ context'[stack'[u][i].context].state = "listed"
               /\ context'[stack'[u][i].context].closing
               /\ \A v \in Threads : \A j \in 1..Depth(v)' :
                    stack'[v][j].op = "destroy"
                      /\ stack'[v][j].context = stack'[u][i].context => v = u
    <3>1. CASE u = t /\ i = n + 1
      <4>1. stack'[u][i].context = c
        BY <1>2, <3>1
      <4>2. \A v \in Threads : \A j \in 1..Depth(v)' :
              stack'[v][j].op = "destroy" /\ stack'[v][j].context = c => v = u
        BY <2>1, <3>1
      <4> QED BY <1>8, <2>0, <4>1, <4>2
    <3>2. CASE ~(u = t /\ i = n + 1)
      <4>1. /\ i \in 1..Depth(u) /\ stack'[u][i] = stack[u][i]
            /\ stack[u][i].context # c /\ stack[u][i].context \in Contexts
        BY <2>1, <2>2, <3>2
      <4> PICK d : d = stack[u][i].context
        OBVIOUS
      <4>2. context[d].state = "listed" /\ context[d].closing /\ context'[d] = context[d]
        BY <1>1, <1>7, <2>2, <4>1 DEF OneDestroyer
      <4>3. ASSUME NEW v \in Threads, NEW j \in 1..Depth(v)',
                   stack'[v][j].op = "destroy", stack'[v][j].context = d
            PROVE  v = u
        <5>1. ~(v = t /\ j = n + 1)
          BY <1>2, <4>1, <4>3
        <5>2. j \in 1..Depth(v) /\ stack'[v][j] = stack[v][j]
          BY <2>1, <4>3, <5>1
        <5> QED BY <1>1, <2>2, <4>1, <4>3, <5>2 DEF OneDestroyer
      <4> QED BY <4>1, <4>2, <4>3
    <3> QED BY <3>1, <3>2
  <2> QED BY <2>2 DEF OneDestroyer
<1>11. \A u \in Threads : Depth(u)' \in Nat
  BY DepthNext DEF PushStep
<1>12. ASSUME NEW d \in Contexts PROVE Counted(d)'
  <2>1. Counted(d)
    BY <1>1 DEF RefsCounted
  <2>2. Dying(d)' => Dying(d)
    <3> SUFFICES ASSUME Dying(d)' PROVE Dying(d)
      OBVIOUS
    <3>1. \A i \in 1..Depth(t)' : i = n + 1 => stack'[t][i].pc # "destroying"
      BY <1>2
    <3> QED BY <1>1, <1>2, <1>11, <3>1, DyingBefore DEF Dying
  <2>3. /\ \A p \in Inside(d) : stack'[p[1]][p[2]] = stack[p[1]][p[2]]
        /\ Inside(d)' = Inside(d)
    BY <1>1, <1>4, InsidePush
  <2>4. context'[d].state = context[d].state /\ context'[d].refs = context[d].refs
    BY <1>7, <1>8
  <2>5. /\ IsFiniteSet(Inside(d)')
        /\ context'[d].state = "absent" => Inside(d)' = {}
        /\ context'[d].state # "absent" => context'[d].refs = 1 + Cardinality(Inside(d)')
    BY <2>1, <2>3, <2>4 DEF Counted
  <2>6. context'[d].state = "freed" \/ Dying(d)' =>
          \A p \in Inside(d)' : stack'[p[1]][p[2]].op = "callback"
    BY <2>1, <2>2, <2>3, <2>4 DEF Counted
  <2> QED BY <2>5, <2>6 DEF Counted
<1> QED BY <1>3, <1>5, <1>9, <1>10, <1>12 DEF Core, RefsCounted

(* release_context and leave_callback. *)
LEMMA PopCore ==
  ASSUME Core, NEW t \in Threads, PopStep(t), Top(t).op \notin Uncounted,
         context' = Released(Here(t)), UNCHANGED <<holder, binding, chain, failed, work>>
  PROVE  Core'
<1>1. TypeOK /\ StacksOK /\ LocksHeld /\ RefsCounted /\ OneDestroyer
  BY DEF Core
<1> PICK n : n = Depth(t)
  OBVIOUS
<1>2. OldFrames(t, n) /\ n > 0
  BY <1>1, PopFrames
<1>3. StacksOK'
  BY <1>1, PopStacks
<1>4. LocksHeld'
  <2>1. OldFrames(t, 0) /\ HandsOver(t, 0)
    BY <1>1, PopFrames DEF HandsOver
  <2>2. \A i \in 1..Depth(t)' : i # 0
    BY DepthNext DEF PopStep
  <2> QED BY <1>1, <2>1, <2>2, LocksStep
<1> PICK c : c = Here(t)
  OBVIOUS
<1>5. c \in Contexts /\ Top(t).context = c /\ n \in Nat /\ Ctx(t) = context[c]
  BY <1>1, <1>2, TopFacts
<1>6. context \in [Contexts -> Context] /\ context[c] \in Context
  BY <1>1, <1>5 DEF TypeOK
<1>7. context'[c] = [context[c] EXCEPT !.refs = @ - 1]
      /\ \A d \in Contexts : d # c => context'[d] = context[d]
  BY <1>5, <1>6 DEF Released
<1>8. /\ context'[c].refs = context[c].refs - 1
      /\ context'[c].state = context[c].state
      /\ context'[c].closing = context[c].closing
  BY <1>6, <1>7 DEF Context
<1>9. \A u \in Threads : Depth(u)' \in Nat
  BY DepthNext DEF PopStep
<1>10. \A i \in 1..Depth(t)' : i # 0
  BY <1>9
<1>11. OneDestroyer'
  <2>1. \A d \in Contexts : context'[d].state = context[d].state
                              /\ context'[d].closing = context[d].closing
    BY <1>7, <1>8
  <2> QED BY <1>1, <1>10, <2>1, PopFrames, DestroyerStep
<1> PICK e : e = <<t, n>>
  OBVIOUS
<1>12. /\ e \in Inside(c) /\ Inside(c)' = Inside(c) \ {e}
       /\ \A d \in Contexts : d # c => Inside(d)' = Inside(d)
       /\ \A d \in Contexts : \A p \in Inside(d)' : stack'[p[1]][p[2]] = stack[p[1]][p[2]]
  BY <1>1, <1>5, InsidePop
<1>13. IsFiniteSet(Inside(c)) /\ context[c].state # "absent"
         /\ context[c].refs = 1 + Cardinality(Inside(c))
  BY <1>1, <1>5, <1>12 DEF RefsCounted, Counted
<1>14. /\ IsFiniteSet(Inside(c) \ {e})
       /\ Cardinality(Inside(c) \ {e}) = Cardinality(Inside(c)) - 1
  BY <1>12, <1>13, FS_RemoveElement
<1>15. Cardinality(Inside(c)) \in Nat /\ Cardinality(Inside(c) \ {e}) \in Nat
  BY <1>13, <1>14, FS_CardinalityType
<1>16. context'[c].refs \in Nat /\ context'[c].refs = 1 + Cardinality(Inside(c) \ {e})
  BY <1>8, <1>13, <1>14, <1>15
<1>17. TypeOK'
  <2>1. context'[c] \in Context
    BY <1>6, <1>7, <1>8, <1>16 DEF Context
  <2>2. context' \in [Contexts -> Context]
    BY <1>6, <1>7, <2>1 DEF Released
  <2> QED BY <1>1, <2>2 DEF TypeOK, PopStep, OnlyStack
<1>18. ASSUME NEW d \in Contexts PROVE Counted(d)'
  <2>1. Counted(d)
    BY <1>1 DEF RefsCounted
  <2>2. Dying(d)' => Dying(d)
    <3> SUFFICES ASSUME Dying(d)' PROVE Dying(d)
      OBVIOUS
    <3>1. OldFrames(t, 0)
      BY <1>1, PopFrames
    <3> QED BY <1>1, <1>9, <1>10, <3>1, DyingBefore DEF Dying
  <2>3. Inside(d)' \subseteq Inside(d)
    BY <1>12
  <2>4. context'[d].state = context[d].state
    BY <1>7, <1>8
  <2>5. /\ IsFiniteSet(Inside(d)')
        /\ context'[d].state # "absent" => context'[d].refs = 1 + Cardinality(Inside(d)')
    <3>1. CASE d = c
      BY <1>12, <1>14, <1>16, <3>1
    <3>2. CASE d # c
      BY <1>7, <1>12, <2>1, <3>2 DEF Counted
    <3> QED BY <3>1, <3>2
  <2>6. context'[d].state = "absent" => Inside(d)' = {}
    BY <2>1, <2>3, <2>4 DEF Counted
  <2>7. context'[d].state = "freed" \/ Dying(d)' =>
          \A p \in Inside(d)' : stack'[p[1]][p[2]].op = "callback"
    BY <1>12, <2>1, <2>2, <2>3, <2>4 DEF Counted
  <2> QED BY <2>5, <2>6, <2>7 DEF Counted
<1> QED BY <1>3, <1>4, <1>11, <1>17, <1>18 DEF Core, RefsCounted

(* ffxDestroyContext returns: the context is open again, or freed. *)
LEMMA PopDestroyCore ==
  ASSUME Core, NEW t \in Threads, PopStep(t), Top(t).op = "destroy",
         NEW x \in Context, context' = [context EXCEPT ![Here(t)] = x],
         x.refs = Ctx(t).refs,
         x.state = "listed" \/ (x.state = "freed" /\ Top(t).pc = "destroying"),
         UNCHANGED <<holder, binding, chain, failed, work>>
  PROVE  Core'
<1>1. TypeOK /\ StacksOK /\ LocksHeld /\ RefsCounted /\ OneDestroyer
  BY DEF Core
<1>2. OldFrames(t, 0) /\ Depth(t) > 0
  BY <1>1, PopFrames
<1>3. StacksOK'
  BY <1>1, PopStacks
<1>4. \A u \in Threads : Depth(u)' \in Nat
  BY DepthNext DEF PopStep
<1>5. \A i \in 1..Depth(t)' : i # 0
  BY <1>4
<1>6. LocksHeld'
  <2>1. HandsOver(t, 0)
    BY DEF HandsOver
  <2> QED BY <1>1, <1>2, <1>5, <2>1, LocksStep
<1> PICK c : c = Here(t)
  OBVIOUS
<1> PICK n : n = Depth(t)
  OBVIOUS
<1>7. /\ c \in Contexts /\ Top(t).context = c /\ n \in Nat /\ Ctx(t) = context[c]
      /\ n \in 1..Depth(t) /\ Top(t) = stack[t][n]
  BY <1>1, <1>2, TopFacts
<1>8. context \in [Contexts -> Context] /\ context'[c] = x
        /\ \A d \in Contexts : d # c => context'[d] = context[d]
  BY <1>1, <1>7 DEF TypeOK
<1>9. TypeOK'
  <2>1. context' \in [Contexts -> Context]
    BY <1>7, <1>8
  <2> QED BY <1>1, <2>1 DEF TypeOK, PopStep, OnlyStack
<1>10. n = 1
  BY <1>1, <1>2, <1>7, NestFacts DEF FrameOK, InCalls, Destroying
<1>11. context[c].state = "listed"
  BY <1>1, <1>7 DEF OneDestroyer
<1>12. ASSUME NEW u \in Threads, NEW i \in 1..Depth(u)', stack'[u][i].op = "destroy"
       PROVE  /\ i \in 1..Depth(u) /\ stack'[u][i] = stack[u][i]
              /\ stack[u][i].context # c /\ stack[u][i].context \in Contexts
  <2>1. i \in 1..Depth(u) /\ stack'[u][i] = stack[u][i]
    BY <1>2, <1>5, <1>12 DEF OldFrames
  <2>2. u # t
    <3>1. Depth(t)' = 0
      BY <1>10 DEF PopStep, Depth
    <3> QED BY <3>1
  <2>3. stack[u][i].context # c
    BY <1>1, <1>7, <1>12, <2>1, <2>2 DEF OneDestroyer
  <2>4. stack[u][i].context \in Contexts
    BY <1>1, <2>1, StackTyped DEF Depth
  <2> QED BY <2>1, <2>3, <2>4
<1>13. OneDestroyer'
  <2> SUFFICES ASSUME NEW u \in Threads, NEW i \in 1..Depth(u)',
                      stack'[u][i].op = "destroy"
               PROVE  /\ context'[stack'[u][i].context].state = "listed"
                      /\ context'[stack'[u][i].context].closing
                      /\ \A v \in Threads : \A j \in 1..Depth(v)' :
                           stack'[v][j].op = "destroy"
                             /\ stack'[v][j].context = stack'[u][i].context => v = u
    BY DEF OneDestroyer
  <2>1. /\ i \in 1..Depth(u) /\ stack'[u][i] = stack[u][i]
        /\ stack[u][i].context # c /\ stack[u][i].context \in Contexts
    BY <1>12
  <2>2. /\ context'[stack'[u][i].context].state = "listed"
        /\ context'[stack'[u][i].context].closing
    BY <1>1, <1>8, <2>1 DEF OneDestroyer
  <2>3. ASSUME NEW v \in Threads, NEW j \in 1..Depth(v)',
               stack'[v][j].op = "destroy", stack'[v][j].context = stack'[u][i].context
        PROVE  v = u
    <3>1. j \in 1..Depth(v) /\ stack'[v][j] = stack[v][j]
      BY <1>12, <2>3
    <3> QED BY <1>1, <2>1, <2>3, <3>1 DEF OneDestroyer
  <2> QED BY <2>2, <2>3
<1>14. ASSUME NEW d \in Contexts PROVE Counted(d)'
  <2>1. Counted(d)
    BY <1>1 DEF RefsCounted
  <2>2. Dying(d)' => Dying(d)
    <3> SUFFICES ASSUME Dying(d)' PROVE Dying(d)
      OBVIOUS
    <3> QED BY <1>1, <1>2, <1>4, <1>5, DyingBefore DEF Dying
  <2>3. /\ Inside(d)' = Inside(d)
        /\ \A p \in Inside(d)' : stack'[p[1]][p[2]] = stack[p[1]][p[2]]
    BY <1>1, InsidePop
  <2>4. /\ context'[d].refs = context[d].refs
        /\ context'[d].state = "absent" <=> context[d].state = "absent"
    BY <1>7, <1>8, <1>11
  <2>5. context'[d].state = "freed" => context[d].state = "freed" \/ Dying(d)
    BY <1>2, <1>7, <1>8 DEF Dying, At
  <2>6. /\ IsFiniteSet(Inside(d)')
        /\ context'[d].state = "absent" => Inside(d)' = {}
        /\ context'[d].state # "absent" => context'[d].refs = 1 + Cardinality(Inside(d)')
    BY <2>1, <2>3, <2>4 DEF Counted
  <2>7. context'[d].state = "freed" \/ Dying(d)' =>
          \A p \in Inside(d)' : stack'[p[1]][p[2]].op = "callback"
    BY <2>1, <2>2, <2>3, <2>5 DEF Counted
  <2> QED BY <2>6, <2>7 DEF Counted
<1> QED BY <1>3, <1>6, <1>9, <1>13, <1>14 DEF Core, RefsCounted

(* An unwrapped callback takes no reference. *)
LEMMA PushUnwrappedCore ==
  ASSUME Core, NEW t \in Threads, NEW f, PushStep(t, f), Fits(t, f), f.op = "unwrapped",
         UNCHANGED <<context, holder, binding, chain, failed, work>>
  PROVE  Core'
<1>1. TypeOK /\ StacksOK /\ LocksHeld /\ RefsCounted /\ OneDestroyer
  BY DEF Core
<1> PICK n : n = Depth(t)
  OBVIOUS
<1>2. /\ OldFrames(t, n + 1) /\ Depth(t)' = n + 1 /\ stack'[t][n + 1] = f
      /\ n \in Nat
  BY <1>1, PushFrames
<1>3. StacksOK'
  BY <1>1, PushStacks
<1>4. n <= 2 /\ f.pc = "unwrapped"
  BY <1>2, <1>3 DEF StacksOK, Fits, FrameOK
<1>5. LocksHeld'
  <2>1. HandsOver(t, n + 1) /\ f.pc \notin Locked
    BY <1>4 DEF HandsOver, Locked
  <2> QED BY <1>1, <1>2, <2>1, LocksStep
<1>6. TypeOK'
  BY <1>1 DEF TypeOK, PushStep, OnlyStack
<1>7. OneDestroyer'
  <2>1. \A i \in 1..Depth(t)' : i = n + 1 => stack'[t][i].op # "destroy"
    BY <1>2
  <2> QED BY <1>1, <1>2, <2>1, DestroyerStep
<1>8. \A u \in Threads : Depth(u)' \in Nat
  BY DepthNext DEF PushStep
<1>9. ASSUME NEW d \in Contexts PROVE Counted(d)'
  <2>1. Counted(d)
    BY <1>1 DEF RefsCounted
  <2>2. Dying(d)' => Dying(d)
    <3> SUFFICES ASSUME Dying(d)' PROVE Dying(d)
      OBVIOUS
    <3>1. \A i \in 1..Depth(t)' : i = n + 1 => stack'[t][i].pc # "destroying"
      BY <1>2, <1>4
    <3> QED BY <1>1, <1>2, <1>8, <3>1, DyingBefore DEF Dying
  <2>3. /\ \A p \in Inside(d) : stack'[p[1]][p[2]] = stack[p[1]][p[2]]
        /\ Inside(d)' = Inside(d)
    BY <1>1, <1>4, InsidePush
  <2> QED BY <2>1, <2>2, <2>3 DEF Counted
<1> QED BY <1>3, <1>5, <1>6, <1>7, <1>9 DEF Core, RefsCounted

(* Nor does it give one back. *)
LEMMA PopUnwrappedCore ==
  ASSUME Core, NEW t \in Threads, PopStep(t), Top(t).op = "unwrapped",
         UNCHANGED <<context, holder, binding, chain, failed, work>>
  PROVE  Core'
<1>1. TypeOK /\ StacksOK /\ LocksHeld /\ RefsCounted /\ OneDestroyer
  BY DEF Core
<1>2. OldFrames(t, 0)
  BY <1>1, PopFrames
<1>3. StacksOK'
  BY <1>1, PopStacks
<1>4. \A u \in Threads : Depth(u)' \in Nat
  BY DepthNext DEF PopStep
<1>5. \A i \in 1..Depth(t)' : i # 0
  BY <1>4
<1>6. LocksHeld'
  <2>1. HandsOver(t, 0)
    BY DEF HandsOver
  <2> QED BY <1>1, <1>2, <1>5, <2>1, LocksStep
<1>7. TypeOK'
  BY <1>1 DEF TypeOK, PopStep, OnlyStack
<1>8. OneDestroyer'
  BY <1>1, <1>2, <1>5, DestroyerStep
<1>9. ASSUME NEW d \in Contexts PROVE Counted(d)'
  <2>1. Counted(d)
    BY <1>1 DEF RefsCounted
  <2>2. Dying(d)' => Dying(d)
    <3> SUFFICES ASSUME Dying(d)' PROVE Dying(d)
      OBVIOUS
    <3> QED BY <1>1, <1>2, <1>4, <1>5, DyingBefore DEF Dying
  <2>3. /\ Inside(d)' = Inside(d)
        /\ \A p \in Inside(d)' : stack'[p[1]][p[2]] = stack[p[1]][p[2]]
    BY <1>1, InsidePop
  <2> QED BY <2>1, <2>2, <2>3 DEF Counted
<1> QED BY <1>3, <1>6, <1>7, <1>8, <1>9 DEF Core, RefsCounted

(* What references and destruction look at. *)
LifeKept(c) ==
  /\ context'[c].state = context[c].state
  /\ context'[c].refs = context[c].refs
  /\ context'[c].closing = context[c].closing

(* A call that goes on.  It comes to destroy_translation when nobody else  *)
(* is inside.                                                              *)
LEMMA MoveCore ==
  ASSUME Core, NEW t \in Threads, NEW f, MoveStep(t, f), GoesOn(t, f),
         ContextsTyped', RestTyped', \A c \in Contexts : LifeKept(c),
         HandsOver(t, Depth(t)), f.pc \in Locked => holder'[f.context] = t,
         f.pc = "destroying" => Ctx(t).refs = 1
  PROVE  Core'
<1>1. TypeOK /\ StacksOK /\ LocksHeld /\ RefsCounted /\ OneDestroyer
  BY DEF Core
<1> PICK n : n = Depth(t)
  OBVIOUS
<1>2. /\ OldFrames(t, n) /\ Depth(t)' = n /\ n \in Nat /\ n > 0
      /\ stack'[t][n] = f
  BY <1>1, MoveFrames
<1>3. StacksOK'
  BY <1>1, MoveStacks
<1>4. LocksHeld'
  BY <1>1, <1>2, LocksStep
<1>5. TypeOK'
  BY <1>1, TypeParts DEF MoveStep, OnlyStack
<1>6. /\ Here(t) \in Contexts /\ f.context = Here(t) /\ Ctx(t) = context[Here(t)]
      /\ Top(t) = stack[t][n] /\ n \in 1..Depth(t)
  BY <1>1, <1>2, TopFacts DEF GoesOn
<1>7. OneDestroyer'
  <2>1. \A i \in 1..Depth(t)' : i = n =>
          \/ stack'[t][i].op # "destroy"
          \/ /\ i \in 1..Depth(t)
             /\ stack[t][i].op = "destroy"
             /\ stack[t][i].context = stack'[t][i].context
    BY <1>2, <1>6 DEF GoesOn
  <2>2. \A c \in Contexts : context[c].state = "listed" /\ context[c].closing =>
          context'[c].state = "listed" /\ context'[c].closing
    BY DEF LifeKept
  <2> QED BY <1>1, <1>2, <2>1, <2>2, DestroyerStep
<1>8. \A u \in Threads : Depth(u)' \in Nat
  BY DepthNext DEF MoveStep
<1>9. ASSUME NEW d \in Contexts PROVE Counted(d)'
  <2>1. Counted(d)
    BY <1>1 DEF RefsCounted
  <2>2. /\ Inside(d)' = Inside(d)
        /\ \A p \in Inside(d) : stack'[p[1]][p[2]].op = stack[p[1]][p[2]].op
    BY <1>1, InsideMove
  <2>3. context'[d].state = context[d].state /\ context'[d].refs = context[d].refs
    BY DEF LifeKept
  <2>4. /\ IsFiniteSet(Inside(d)')
        /\ context'[d].state = "absent" => Inside(d)' = {}
        /\ context'[d].state # "absent" => context'[d].refs = 1 + Cardinality(Inside(d)')
    BY <2>1, <2>2, <2>3 DEF Counted
  <2>5. CASE f.pc = "destroying" /\ f.context = d
    <3>1. context[d].refs = 1 /\ f.op = "destroy"
      BY <1>6, <2>5 DEF GoesOn, FrameOK, Destroying
    <3>2. context[d].state = "listed"
      <4>1. stack[t][n].op = "destroy" /\ stack[t][n].context = d
        BY <1>6, <2>5, <3>1 DEF GoesOn
      <4> QED BY <1>1, <1>6, <4>1 DEF OneDestroyer
    <3>3. Cardinality(Inside(d)) = 0
      <4>1. 1 = 1 + Cardinality(Inside(d)) /\ IsFiniteSet(Inside(d))
        BY <2>1, <3>1, <3>2 DEF Counted
      <4>2. Cardinality(Inside(d)) \in Nat
        BY <4>1, FS_CardinalityType
      <4> QED BY <4>1, <4>2
    <3>4. Inside(d) = {}
      BY <2>1, <3>3, FS_EmptySet DEF Counted
    <3> QED BY <2>2, <2>4, <3>4 DEF Counted
  <2>6. CASE ~(f.pc = "destroying" /\ f.context = d)
    <3>1. Dying(d)' => Dying(d)
      <4> SUFFICES ASSUME Dying(d)' PROVE Dying(d)
        OBVIOUS
      <4> QED BY <1>1, <1>2, <1>8, <2>6, DyingBefore DEF Dying
    <3>2. context'[d].state = "freed" \/ Dying(d)' =>
            \A p \in Inside(d)' : stack'[p[1]][p[2]].op = "callback"
      BY <2>1, <2>2, <2>3, <3>1 DEF Counted
    <3> QED BY <2>4, <3>2 DEF Counted
  <2> QED BY <2>5, <2>6
<1> QED BY <1>3, <1>4, <1>5, <1>7, <1>9 DEF Core, RefsCounted

(* ffxCreateContext: nobody is inside yet. *)
LEMMA CreateCore ==
  ASSUME Core, NEW t \in Threads, NEW c \in Contexts, FfxCreateContext(t, c)
  PROVE  /\ Core'
         /\ \A d \in Contexts : d # c => context'[d] = context[d]
         /\ context[c].state = "absent" /\ context'[c].state = "listed"
         /\ context'[c].swapchain = None /\ context'[c].binding = None
         /\ ~context'[c].enabled /\ ~context'[c].translating /\ ~context'[c].snapshots
         /\ context'[c].mode # "metalfx"
<1>1. TypeOK /\ StacksOK /\ LocksHeld /\ RefsCounted /\ OneDestroyer
  BY DEF Core
<1>2. /\ context[c].state = "absent" /\ stack' = stack
      /\ UNCHANGED <<holder, binding, chain, failed, work>>
  BY DEF FfxCreateContext
<1>3. PICK bridge \in BOOLEAN :
        context' = [context EXCEPT ![c] =
          [AbsentContext EXCEPT
             !.state = "listed", !.refs = 1, !.translated = bridge,
             !.mode = IF bridge THEN "pending" ELSE "native"]]
  BY DEF FfxCreateContext
<1> PICK m : m = IF bridge THEN "pending" ELSE "native"
  OBVIOUS
<1>4. m \in {"pending", "native"}
  OBVIOUS
<1>5. context \in [Contexts -> Context]
  BY <1>1 DEF TypeOK
<1>6. /\ context'[c] =
           [AbsentContext EXCEPT
              !.state = "listed", !.refs = 1, !.translated = bridge, !.mode = m]
      /\ \A d \in Contexts : d # c => context'[d] = context[d]
  BY <1>3, <1>5
<1>7. /\ context'[c] \in Context
      /\ context'[c].state = "listed" /\ context'[c].refs = 1
      /\ context'[c].swapchain = None /\ context'[c].binding = None
      /\ ~context'[c].enabled /\ ~context'[c].translating /\ ~context'[c].snapshots
      /\ context'[c].mode = m
  <2>1. context'[c] =
          [state |-> "listed", mode |-> m, refs |-> 1, closing |-> FALSE,
           swapchain |-> None, binding |-> None, config |-> None, enabled |-> FALSE,
           translated |-> bridge, translating |-> FALSE, snapshots |-> FALSE]
    BY <1>6 DEF AbsentContext
  <2>2. context'[c] \in Context
    BY <1>4, <2>1 DEF Context, Mode
  <2> QED BY <2>1, <2>2
<1>8. TypeOK'
  <2>1. context' \in [Contexts -> Context]
    BY <1>3, <1>5, <1>7
  <2> QED BY <1>1, <1>2, <2>1 DEF TypeOK
<1>9. StacksOK'
  BY <1>1, <1>2 DEF StacksOK, Depth, Nested
<1>10. LocksHeld'
  BY <1>1, <1>2 DEF LocksHeld, Depth
<1>11. OneDestroyer'
  <2>1. ASSUME NEW u \in Threads, NEW i \in 1..Depth(u), stack[u][i].op = "destroy"
        PROVE  context'[stack[u][i].context] = context[stack[u][i].context]
    <3>1. stack[u][i].context \in Contexts /\ context[stack[u][i].context].state = "listed"
      BY <1>1, <2>1, StackTyped DEF OneDestroyer, Depth
    <3>2. stack[u][i].context # c
      BY <1>2, <3>1
    <3> QED BY <1>6, <3>1, <3>2
  <2>2. stack' = stack /\ \A u \in Threads : Depth(u)' = Depth(u)
    BY <1>2 DEF Depth
  <2> QED BY <1>1, <2>1, <2>2 DEF OneDestroyer
<1>12. ASSUME NEW d \in Contexts PROVE Counted(d)'
  <2>1. Counted(d)
    BY <1>1 DEF RefsCounted
  <2>2. Inside(d)' = Inside(d) /\ (Dying(d)' <=> Dying(d)) /\ stack' = stack
    BY <1>2 DEF Inside, Dying, At, Here, Top, Depth
  <2>3. CASE d = c
    <3>1. Inside(d) = {}
      BY <1>2, <2>1, <2>3 DEF Counted
    <3>2. Cardinality(Inside(d)) = 0
      BY <3>1, FS_EmptySet
    <3> QED BY <1>7, <2>1, <2>2, <2>3, <3>1, <3>2 DEF Counted
  <2>4. CASE d # c
    BY <1>6, <2>1, <2>2, <2>4 DEF Counted
  <2> QED BY <2>3, <2>4
<1> QED BY <1>2, <1>4, <1>6, <1>7, <1>8, <1>9, <1>10, <1>11, <1>12
         DEF Core, RefsCounted

-----------------------------------------------------------------------------
(* The data, kind of step by kind of step. *)

(* A context with a call in it is listed. *)
LEMMA CallListed ==
  ASSUME Core, NEW t \in Threads, NEW i \in 1..Depth(t), stack[t][i].op \notin Backs
  PROVE  context[stack[t][i].context].state = "listed"
<1>1. TypeOK /\ StacksOK /\ RefsCounted /\ OneDestroyer
  BY DEF Core
<1>2. i <= 3 /\ i \in 1..3 /\ Depth(t) \in Nat
  BY <1>1, StackTyped DEF StacksOK, Depth
<1> PICK c : c = stack[t][i].context
  OBVIOUS
<1>3. c \in Contexts
  BY <1>1, StackTyped DEF Depth
<1>4. CASE stack[t][i].op = "destroy"
  BY <1>1, <1>4 DEF OneDestroyer
<1>5. CASE stack[t][i].op # "destroy"
  <2> PICK e : e = <<t, i>>
    OBVIOUS
  <2>1. e \in Threads \X (1..3) /\ e[1] = t /\ e[2] = i
    BY <1>2
  <2>2. e \in Inside(c)
    BY <1>2, <1>5, <2>1 DEF Inside
  <2>3. Counted(c)
    BY <1>1, <1>3 DEF RefsCounted
  <2>4. context[c].state # "absent" /\ context[c].state # "freed"
    BY <2>1, <2>2, <2>3 DEF Counted
  <2>5. context[c].state \in {"absent", "listed", "freed"}
    BY <1>1, <1>3 DEF TypeOK, Context
  <2> QED BY <2>4, <2>5
<1> QED BY <1>4, <1>5

(* The calls whose frames say something about the data. *)
Telling == {"callback", "unwrapped", "set_config", "installed", "off", "detach",
            "detaching", "native_config", "prepared"}

(* All other frames say nothing. *)
LEMMA NotTelling ==
  ASSUME NEW f, f.pc \notin Telling
  PROVE  /\ CallbackBound(f) /\ CallReady(f)
         /\ CallbackBound(f)' /\ CallReady(f)'
BY DEF CallbackBound, CallReady, Telling

(* Frame by frame. *)
LEMMA ReadyNext ==
  ASSUME \A u \in Threads : \A i \in 1..Depth(u)' : \A f :
           f = stack'[u][i] => CallbackBound(f)' /\ CallReady(f)'
  PROVE  CallsReady'
<1> SUFFICES ASSUME NEW u \in Threads, NEW i \in 1..Depth(u)'
             PROVE  CallbackBound(stack[u][i])' /\ CallReady(stack[u][i])'
  BY DEF CallsReady
<1>1. PICK f : f = stack'[u][i]
  OBVIOUS
<1>2. CallbackBound(f)' /\ CallReady(f)'
  BY <1>1
<1> QED BY <1>1, <1>2 DEF CallbackBound, CallReady

(* Whom a swapchain calls back. *)
LEMMA CallerFacts ==
  ASSUME TypeOK, NEW s \in Swapchains, chain[s] # None
  PROVE  /\ chain[s] \in Bindings \cup Unwrapped
         /\ chain[s] \in Bindings =>
              /\ chain[s] \notin Unwrapped
              /\ Caller(s) = binding[chain[s]].context
              /\ Caller(s) \in Contexts \cup {None}
         /\ chain[s] \in Unwrapped => Caller(s) = chain[s][1] /\ Caller(s) \in Contexts
<1>1. chain[s] \in Bindings \cup Unwrapped
  BY DEF TypeOK
<1>2. Unwrapped \cap Bindings = {}
  BY NoneAssumption
<1>3. \A b \in Bindings : binding[b].context \in Contexts \cup {None}
  BY DEF TypeOK, Binding
<1>4. \A w \in Unwrapped : w[1] \in Contexts
  BY DEF Unwrapped
<1> QED BY <1>1, <1>2, <1>3, <1>4 DEF Caller

(* A swapchain that keeps its callbacks calls back the same context. *)
LEMMA CallerKept ==
  ASSUME NEW s \in Swapchains, chain'[s] = chain[s],
         chain[s] \in Bindings => binding'[chain[s]].context = binding[chain[s]].context
  PROVE  Caller(s)' = Caller(s)
BY DEF Caller

(* What a step may change in a context that it does not configure. *)
DataKept(c) ==
  /\ context'[c].mode = context[c].mode
  /\ context'[c].swapchain = context[c].swapchain
  /\ context'[c].binding = context[c].binding
  /\ context'[c].enabled = context[c].enabled
  /\ context'[c].state = "listed" => context[c].state = "listed"
  /\ context[c].state # "absent" => context'[c].state # "absent"
  /\ context'[c].translated =>
       /\ context[c].translated
       /\ context'[c].translating = context[c].translating
       /\ context'[c].snapshots = context[c].snapshots
  /\ context'[c].translating => context[c].translating
  /\ context'[c].snapshots => context[c].snapshots

(* A call ends without an error only if it did before. *)
NoNewSuccess ==
  \A c \in Contexts :
    holder'[c] = None /\ ~failed'[c] => holder[c] = None /\ ~failed[c]

WorkKept ==
  \A c \in Contexts : "metalfx" \in work'[c] =>
    "metalfx" \in work[c] \/ context'[c].mode = "metalfx" \/ Unstored(c)'

(* The provider that took frames is the one of the mode, before and after. *)
LEMMA WorkDoneStep ==
  ASSUME TypeOK, WorkDone, NEW t \in Threads, OnlyStack(t), WorkKept,
         At(t, "prepared") => context'[Here(t)].mode = "metalfx",
         \A c \in Contexts :
           /\ context[c].mode = "metalfx" => context'[c].mode = "metalfx"
           /\ context'[c].mode = "metalfx" => context'[c].state # "absent"
  PROVE  WorkDone'
<1> SUFFICES ASSUME NEW c \in Contexts, "metalfx" \in work'[c],
                    context'[c].mode # "metalfx", ~Unstored(c)'
             PROVE  FALSE
  BY DEF WorkDone
<1>1. Unstored(c)
  BY DEF WorkDone, WorkKept
<1>2. PICK u \in Threads : At(u, "prepared") /\ Here(u) = c
  BY <1>1 DEF Unstored
<1>3. u # t
  BY <1>2
<1>4. stack'[u] = stack[u]
  BY <1>3 DEF OnlyStack
<1>5. At(u, "prepared")' /\ Here(u)' = c
  BY <1>2, <1>4 DEF At, Here, Top, Depth
<1> QED BY <1>5 DEF Unstored

(* An outermost call that gets to dispatch does so when the mode is        *)
(* chosen.                                                                 *)
NewChosen(t, n) ==
  \A i \in 1..Depth(t)' : i = n /\ i = 1 /\ stack'[t][i].pc = "dispatching" =>
    context'[stack'[t][i].context].mode # "pending"

(* A mode that is chosen stays so while calls are in progress. *)
LEMMA ChosenStep ==
  ASSUME Core, Chosen, NEW t \in Threads, NEW n, OldFrames(t, n), NewChosen(t, n),
         \A u \in Threads : Depth(u)' \in Nat,
         \A c \in Contexts : context[c].state = "listed" /\ context[c].mode # "pending" =>
           context'[c].mode # "pending"
  PROVE  Chosen'
<1> SUFFICES ASSUME NEW u \in Threads, Depth(u)' > 0, stack'[u][1].pc = "dispatching"
             PROVE  context'[stack'[u][1].context].mode # "pending"
  BY DEF Chosen
<1>1. 1 \in 1..Depth(u)'
  OBVIOUS
<1>2. CASE u = t /\ n = 1
  BY <1>1, <1>2 DEF NewChosen
<1>3. CASE ~(u = t /\ n = 1)
  <2>1. 1 \in 1..Depth(u) /\ stack'[u][1] = stack[u][1]
    BY <1>1, <1>3 DEF OldFrames
  <2>2. TypeOK /\ StacksOK
    BY DEF Core
  <2>3. stack[u][1].context \in Contexts /\ FrameOK(stack[u][1])
    BY <2>1, <2>2, StackTyped DEF StacksOK, Depth
  <2>4. context[stack[u][1].context].state = "listed"
    <3>1. stack[u][1].op \notin Backs
      BY <2>1, <2>3 DEF FrameOK
    <3> QED BY <2>1, <3>1, CallListed
  <2>5. context[stack[u][1].context].mode # "pending"
    <3>1. Depth(u) > 0
      BY <2>1, <2>2, StackTyped DEF Depth
    <3> QED BY <2>1, <3>1 DEF Chosen
  <2> QED BY <2>1, <2>3, <2>4, <2>5
<1> QED BY <1>2, <1>3

(* Steps that configure nothing. *)
LEMMA QuietReady ==
  ASSUME Core, Data, NEW t \in Threads, NEW n, OldFrames(t, n), OnlyStack(t),
         ~At(t, "prepared"), NewChosen(t, n),
         \A i \in 1..Depth(t)' : \A f :
           i = n /\ f = stack'[t][i] => CallbackBound(f)' /\ CallReady(f)',
         \A c \in Contexts : DataKept(c),
         UNCHANGED <<binding, chain>>, NoNewSuccess, WorkKept
  PROVE  Data'
<1>1. /\ BindingsOwned /\ ChainOwned /\ ClaimsDistinct /\ CallsReady
      /\ Undecided /\ WorkDone /\ TranslationMatches /\ Chosen
  BY DEF Data
<1>2. TypeOK /\ \A b \in Bindings : binding[b].context \in Contexts \cup {None}
  BY DEF Core, TypeOK, Binding
<1>4. BindingsOwned'
  <2>1. \A c \in Contexts :
          context'[c].binding # None => binding'[context'[c].binding].context = c
    BY <1>1 DEF BindingsOwned, DataKept
  <2>2. \A b \in Bindings :
          binding'[b].context # None => context'[binding'[b].context].state # "absent"
    BY <1>1, <1>2 DEF BindingsOwned, DataKept
  <2> QED BY <2>1, <2>2 DEF BindingsOwned
<1>5. ChainOwned'
  <2> SUFFICES ASSUME NEW s \in Swapchains, chain[s] # None
               PROVE  /\ Caller(s)' \in Contexts
                      /\ context'[Caller(s)'].state # "absent"
                      /\ chain[s] \in Bindings => context'[Caller(s)'].mode = "metalfx"
                      /\ chain[s] \in Unwrapped => context'[Caller(s)'].mode = "native"
                      /\ context'[Caller(s)'].state = "listed" =>
                           context'[Caller(s)'].swapchain = s
    BY DEF ChainOwned
  <2>1. Caller(s)' = Caller(s)
    BY CallerKept
  <2>2. /\ Caller(s) \in Contexts /\ context[Caller(s)].state # "absent"
        /\ chain[s] \in Bindings => context[Caller(s)].mode = "metalfx"
        /\ chain[s] \in Unwrapped => context[Caller(s)].mode = "native"
        /\ context[Caller(s)].state = "listed" => context[Caller(s)].swapchain = s
    BY <1>1 DEF ChainOwned
  <2>3. DataKept(Caller(s))
    BY <2>2
  <2> QED BY <2>1, <2>2, <2>3 DEF DataKept
<1>6. ClaimsDistinct'
  <2> SUFFICES ASSUME NEW c \in Contexts, NEW o \in Contexts,
                      context'[c].state = "listed", context'[o].state = "listed",
                      context'[c].swapchain = context'[o].swapchain,
                      context'[c].swapchain # None
               PROVE  c = o
    BY DEF ClaimsDistinct
  <2> QED BY <1>1 DEF ClaimsDistinct, DataKept
<1>7. CallsReady'
  <2> SUFFICES ASSUME NEW u \in Threads, NEW i \in 1..Depth(u)', NEW f,
                      f = stack'[u][i]
               PROVE  CallbackBound(f)' /\ CallReady(f)'
    BY ReadyNext
  <2>1. CASE u = t /\ i = n
    BY <2>1
  <2>2. CASE ~(u = t /\ i = n)
    <3>1. i \in 1..Depth(u) /\ stack[u][i] = f
      BY <2>2 DEF OldFrames
    <3>2. CallbackBound(f) /\ CallReady(f)
      BY <1>1, <3>1 DEF CallsReady
    <3>4. f.context \in Contexts
      BY <1>2, <3>1, StackTyped DEF Depth
    <3>3. CallbackBound(f)'
      BY <3>2, <3>4 DEF CallbackBound, DataKept
    <3>5. CallReady(f)'
      BY <3>2, <3>4 DEF CallReady, DataKept
    <3> QED BY <3>3, <3>5
  <2> QED BY <2>1, <2>2
<1>8. Undecided'
  BY <1>1 DEF Undecided, DataKept
<1>9. WorkDone'
  <2>1. \A c \in Contexts :
          /\ context[c].mode = "metalfx" => context'[c].mode = "metalfx"
          /\ context'[c].mode = "metalfx" => context'[c].state # "absent"
    BY <1>1 DEF WorkDone, DataKept
  <2> QED BY <1>1, <1>2, <2>1, WorkDoneStep
<1>10. TranslationMatches'
  <2> SUFFICES ASSUME NEW c \in Contexts, context'[c].mode = "metalfx",
                      context'[c].state = "listed", context'[c].translated
               PROVE  /\ context'[c].enabled => context'[c].translating
                      /\ holder'[c] = None /\ ~failed'[c] /\ ~context'[c].enabled
                           => ~context'[c].translating /\ ~context'[c].snapshots
    BY DEF TranslationMatches
  <2>1. /\ context[c].mode = "metalfx" /\ context[c].state = "listed"
        /\ context[c].translated
        /\ context'[c].enabled = context[c].enabled
        /\ context'[c].translating = context[c].translating
        /\ context'[c].snapshots = context[c].snapshots
    BY DEF DataKept
  <2>2. /\ context[c].enabled => context[c].translating
        /\ holder[c] = None /\ ~failed[c] /\ ~context[c].enabled
             => ~context[c].translating /\ ~context[c].snapshots
    BY <1>1, <2>1 DEF TranslationMatches
  <2>3. holder'[c] = None /\ ~failed'[c] => holder[c] = None /\ ~failed[c]
    BY DEF NoNewSuccess
  <2> QED BY <2>1, <2>2, <2>3
<1>11. Chosen'
  BY <1>1, DepthNext, ChosenStep DEF DataKept
<1> QED BY <1>4, <1>5, <1>6, <1>7, <1>8, <1>9, <1>10, <1>11 DEF Data

(* And that leave a call where it says nothing. *)
LEMMA QuietData ==
  ASSUME Core, Data, NEW t \in Threads, NEW n, OldFrames(t, n), OnlyStack(t),
         ~At(t, "prepared"), NewChosen(t, n),
         \A i \in 1..Depth(t)' : i = n => stack'[t][i].pc \notin Telling,
         \A c \in Contexts : DataKept(c),
         UNCHANGED <<binding, chain>>, NoNewSuccess, WorkKept
  PROVE  Data'
<1>1. \A i \in 1..Depth(t)' : \A f :
        i = n /\ f = stack'[t][i] => CallbackBound(f)' /\ CallReady(f)'
  BY NotTelling
<1> QED BY <1>1, QuietReady

(* The one call that may configure a context. *)
MayChange(t, c) ==
  Depth(t) = 1 /\ Here(t) = c /\ Top(t).op \notin Backs /\ holder[c] \in {None, t}

(* No other call has configure_lock. *)
LEMMA Alone ==
  ASSUME Core, NEW t \in Threads, NEW c \in Contexts, MayChange(t, c),
         NEW u \in Threads, NEW i \in 1..Depth(u), u # t \/ i # 1,
         stack[u][i].pc \in Telling \ Backs
  PROVE  stack[u][i].context # c
<1>1. TypeOK /\ StacksOK /\ LocksHeld
  BY DEF Core
<1> SUFFICES ASSUME stack[u][i].context = c PROVE FALSE
  OBVIOUS
<1>2. holder[c] = u
  BY <1>1 DEF LocksHeld, Locked, Telling
<1>3. u # None
  BY NoneAssumption
<1>4. u = t
  BY <1>2, <1>3 DEF MayChange
<1>5. i = 1
  BY <1>4 DEF MayChange
<1> QED BY <1>4, <1>5

(* The bindings of other contexts, and those that swapchains call back on, *)
(* are left alone.                                                         *)
BindingsKept(c) ==
  /\ \A b \in Bindings : binding'[b].context \in {binding[b].context, None, c}
  /\ \A b \in Bindings : binding[b].context \notin {c, None} =>
       binding'[b].context = binding[b].context
  /\ \A s \in Swapchains : chain[s] \in Bindings =>
       binding'[chain[s]].context = binding[chain[s]].context

(* A claim that is new is of an unclaimed swapchain, and one that goes is  *)
(* not called back.                                                        *)
ClaimKept(c, s) ==
  \/ s = context[c].swapchain
  \/ /\ s = None \/ Claimable(c, s)
     /\ \A r \in Swapchains : chain[r] # None => Caller(r) # c

TranslationKept(c) ==
  context'[c].mode = "metalfx" /\ context'[c].translated =>
    /\ context'[c].enabled => context'[c].translating
    /\ holder'[c] = None /\ ~failed'[c] /\ ~context'[c].enabled
         => ~context'[c].translating /\ ~context'[c].snapshots

(* A mode is chosen once, and MetalFX's first frame chooses it. *)
ModeKept(t, c) ==
  /\ context[c].mode # "pending" => context'[c].mode = context[c].mode
  /\ At(t, "prepared") => context'[c].mode = "metalfx"

(* What a step of the configuring call does to its own context. *)
Turns(t, c, f) ==
  /\ MayChange(t, c)
  /\ MoveStep(t, f)
  /\ f.pc \notin Backs \cup {"dispatching"}
  /\ chain' = chain
  /\ BindingsKept(c)
  /\ \A d \in Contexts : d # c =>
       context'[d] = context[d] /\ holder'[d] = holder[d] /\ failed'[d] = failed[d]
  /\ context'[c].state = context[c].state
  /\ context'[c].binding # None => binding'[context'[c].binding].context = c
  /\ ClaimKept(c, context'[c].swapchain)
  /\ context'[c].mode = "pending" =>
       ~context'[c].enabled /\ ~context'[c].translating /\ ~context'[c].snapshots

(* The part of Data that does not mention swapchains, for a step that      *)
(* changes one context.                                                    *)
LEMMA OthersData ==
  ASSUME Core, Data, NEW t \in Threads, NEW c \in Contexts, NEW f,
         MayChange(t, c), MoveStep(t, f), f.pc # "dispatching", ModeKept(t, c), WorkKept,
         TranslationKept(c), context'[c].state = context[c].state,
         context'[c].mode = "pending" =>
           ~context'[c].enabled /\ ~context'[c].translating /\ ~context'[c].snapshots,
         \A d \in Contexts : d # c =>
           context'[d] = context[d] /\ holder'[d] = holder[d] /\ failed'[d] = failed[d]
  PROVE  /\ context[c].state = "listed"
         /\ Undecided' /\ WorkDone' /\ TranslationMatches' /\ Chosen'
<1>1. TypeOK /\ StacksOK /\ Undecided /\ WorkDone /\ TranslationMatches /\ Chosen
  BY DEF Core, Data
<1>2. context[c].state = "listed"
  <2>1. 1 \in 1..Depth(t) /\ stack[t][1].op \notin Backs /\ stack[t][1].context = c
    BY DEF MayChange, Here, Top
  <2> QED BY <2>1, CallListed
<1>3. Undecided'
  <2> SUFFICES ASSUME NEW d \in Contexts, context'[d].mode = "pending"
               PROVE  ~context'[d].enabled /\ ~context'[d].translating
                        /\ ~context'[d].snapshots
    BY DEF Undecided
  <2>1. CASE d = c
    BY <2>1
  <2>2. CASE d # c
    BY <1>1, <2>2 DEF Undecided
  <2> QED BY <2>1, <2>2
<1>4. WorkDone'
  <2>1. ASSUME NEW d \in Contexts
        PROVE  /\ context[d].mode = "metalfx" => context'[d].mode = "metalfx"
               /\ context'[d].mode = "metalfx" => context'[d].state # "absent"
    <3>1. CASE d = c
      BY <1>2, <3>1 DEF ModeKept
    <3>2. CASE d # c
      BY <1>1, <3>2 DEF WorkDone
    <3> QED BY <3>1, <3>2
  <2>2. OnlyStack(t)
    BY DEF MoveStep
  <2>3. At(t, "prepared") => context'[Here(t)].mode = "metalfx"
    BY DEF ModeKept, MayChange
  <2> QED BY <1>1, <2>1, <2>2, <2>3, WorkDoneStep
<1>5. TranslationMatches'
  <2> SUFFICES ASSUME NEW d \in Contexts, context'[d].mode = "metalfx",
                      context'[d].state = "listed", context'[d].translated
               PROVE  /\ context'[d].enabled => context'[d].translating
                      /\ holder'[d] = None /\ ~failed'[d] /\ ~context'[d].enabled
                           => ~context'[d].translating /\ ~context'[d].snapshots
    BY DEF TranslationMatches
  <2>1. CASE d = c
    BY <2>1 DEF TranslationKept
  <2>2. CASE d # c
    <3>1. context'[d] = context[d] /\ holder'[d] = holder[d] /\ failed'[d] = failed[d]
      BY <2>2
    <3>2. /\ context[d].enabled => context[d].translating
          /\ holder[d] = None /\ ~failed[d] /\ ~context[d].enabled
               => ~context[d].translating /\ ~context[d].snapshots
      BY <1>1, <3>1 DEF TranslationMatches
    <3> QED BY <3>1, <3>2
  <2> QED BY <2>1, <2>2
<1>6. Chosen'
  <2>1. OldFrames(t, 1) /\ NewChosen(t, 1)
    <3>1. OldFrames(t, Depth(t)) /\ stack'[t][Depth(t)'] = f /\ Depth(t)' = Depth(t)
      BY <1>1, MoveFrames
    <3>2. Depth(t) = 1
      BY DEF MayChange
    <3>3. stack'[t][1].pc # "dispatching"
      BY <3>1, <3>2
    <3> QED BY <3>1, <3>2, <3>3 DEF NewChosen
  <2>2. \A u \in Threads : Depth(u)' \in Nat
    BY DepthNext DEF MoveStep
  <2>3. \A d \in Contexts : context[d].state = "listed" /\ context[d].mode # "pending" =>
          context'[d].mode # "pending"
    BY DEF ModeKept
  <2> QED BY <1>1, <2>1, <2>2, <2>3, ChosenStep
<1> QED BY <1>2, <1>3, <1>4, <1>5, <1>6

(* Steps that configure a context. *)
LEMMA TurnData ==
  ASSUME Core, Data, NEW t \in Threads, NEW c \in Contexts, NEW f,
         Turns(t, c, f), TranslationKept(c), CallReady(f)', WorkKept, ModeKept(t, c)
  PROVE  Data'
<1>1. /\ BindingsOwned /\ ChainOwned /\ ClaimsDistinct /\ CallsReady
  BY DEF Data
<1>2. /\ MayChange(t, c) /\ MoveStep(t, f) /\ f.pc \notin Backs \cup {"dispatching"}
      /\ chain' = chain /\ BindingsKept(c)
      /\ context'[c].state = context[c].state
      /\ context'[c].binding # None => binding'[context'[c].binding].context = c
      /\ ClaimKept(c, context'[c].swapchain)
  BY DEF Turns
<1>3. \A d \in Contexts : d # c =>
        context'[d] = context[d] /\ holder'[d] = holder[d] /\ failed'[d] = failed[d]
  BY DEF Turns
<1>4. TypeOK /\ StacksOK
  BY DEF Core
<1>5. /\ \A b \in Bindings : binding[b].context \in Contexts \cup {None}
      /\ \A d \in Contexts : context[d].binding \in Bindings \cup {None}
  BY <1>4 DEF TypeOK, Binding, Context
<1>6. c # None
  BY NoneAssumption
<1>7. context[c].state = "listed" /\ Undecided' /\ WorkDone' /\ TranslationMatches' /\ Chosen'
  BY <1>2, <1>3, OthersData DEF Turns
<1>8. BindingsOwned'
  <2>1. ASSUME NEW d \in Contexts, context'[d].binding # None
        PROVE  binding'[context'[d].binding].context = d
    <3>1. CASE d = c
      BY <1>2, <2>1, <3>1
    <3>2. CASE d # c
      <4>1. context[d].binding # None /\ context'[d].binding = context[d].binding
        BY <1>3, <2>1, <3>2
      <4>2. binding[context[d].binding].context = d /\ context[d].binding \in Bindings
        BY <1>1, <1>5, <4>1 DEF BindingsOwned
      <4>3. d \notin {c, None}
        BY <3>2, NoneAssumption
      <4>4. binding'[context[d].binding].context = d
        BY <1>2, <4>2, <4>3 DEF BindingsKept
      <4> QED BY <4>1, <4>4
    <3> QED BY <3>1, <3>2
  <2>2. ASSUME NEW b \in Bindings, binding'[b].context # None
        PROVE  context'[binding'[b].context].state # "absent"
    <3>1. CASE binding'[b].context = c
      BY <1>2, <1>7, <3>1
    <3>2. CASE binding'[b].context # c
      <4>1. binding'[b].context = binding[b].context
        BY <1>2, <2>2, <3>2 DEF BindingsKept
      <4> QED BY <1>1, <1>3, <1>5, <2>2, <3>2, <4>1 DEF BindingsOwned
    <3> QED BY <3>1, <3>2
  <2> QED BY <2>1, <2>2 DEF BindingsOwned
<1>9. ChainOwned'
  <2> SUFFICES ASSUME NEW s \in Swapchains, chain[s] # None
               PROVE  /\ Caller(s)' \in Contexts
                      /\ context'[Caller(s)'].state # "absent"
                      /\ chain[s] \in Bindings => context'[Caller(s)'].mode = "metalfx"
                      /\ chain[s] \in Unwrapped => context'[Caller(s)'].mode = "native"
                      /\ context'[Caller(s)'].state = "listed" =>
                           context'[Caller(s)'].swapchain = s
    BY <1>2 DEF ChainOwned
  <2> PICK d : d = Caller(s)
    OBVIOUS
  <2>1. /\ d \in Contexts /\ context[d].state # "absent"
        /\ chain[s] \in Bindings => context[d].mode = "metalfx"
        /\ chain[s] \in Unwrapped => context[d].mode = "native"
        /\ context[d].state = "listed" => context[d].swapchain = s
    BY <1>1 DEF ChainOwned
  <2>2. Caller(s)' = d
    BY <1>2, CallerKept DEF BindingsKept
  <2>3. CASE d # c
    BY <1>3, <2>1, <2>2, <2>3
  <2>4. CASE d = c
    <3>1. context'[c].swapchain = context[c].swapchain
      BY <1>2, <2>1, <2>4 DEF ClaimKept
    <3>2. context[c].mode # "pending" => context'[c].mode = context[c].mode
      BY DEF ModeKept
    <3> QED BY <1>2, <1>7, <2>1, <2>2, <2>4, <3>1, <3>2
  <2> QED BY <2>3, <2>4
<1>10. ClaimsDistinct'
  <2>1. ASSUME NEW o \in Contexts, o # c, context[o].state = "listed",
               context'[c].swapchain = context[o].swapchain, context'[c].swapchain # None
        PROVE  FALSE
    <3>1. CASE context'[c].swapchain = context[c].swapchain
      BY <1>1, <1>7, <2>1, <3>1 DEF ClaimsDistinct
    <3>2. CASE context'[c].swapchain # context[c].swapchain
      <4>1. Claimable(c, context'[c].swapchain)
        BY <1>2, <2>1, <3>2 DEF ClaimKept
      <4>2. PICK s : s = context'[c].swapchain
        OBVIOUS
      <4>3. Claimable(c, s)
        BY <4>1, <4>2
      <4> QED BY <2>1, <4>2, <4>3 DEF Claimable
    <3> QED BY <3>1, <3>2
  <2> SUFFICES ASSUME NEW d \in Contexts, NEW o \in Contexts, d # o,
                      context'[d].state = "listed", context'[o].state = "listed",
                      context'[d].swapchain = context'[o].swapchain,
                      context'[d].swapchain # None
               PROVE  FALSE
    BY DEF ClaimsDistinct
  <2>2. CASE d = c
    <3>1. context'[o] = context[o]
      BY <1>3, <2>2
    <3> QED BY <2>1, <2>2, <3>1
  <2>3. CASE o = c
    <3>1. context'[d] = context[d]
      BY <1>3, <2>3
    <3> QED BY <2>1, <2>3, <3>1
  <2>4. CASE d # c /\ o # c
    <3>1. context'[d] = context[d] /\ context'[o] = context[o]
      BY <1>3, <2>4
    <3> QED BY <1>1, <3>1 DEF ClaimsDistinct
  <2> QED BY <2>2, <2>3, <2>4
<1>11. CallsReady'
  <2> SUFFICES ASSUME NEW u \in Threads, NEW i \in 1..Depth(u)', NEW g,
                      g = stack'[u][i]
               PROVE  CallbackBound(g)' /\ CallReady(g)'
    BY ReadyNext
  <2>0. Depth(t) = 1 /\ OldFrames(t, 1) /\ stack'[t][1] = f
    BY <1>2, <1>4, MoveFrames DEF MayChange
  <2>1. CASE u = t /\ i = 1
    <3>1. g = f
      BY <2>0, <2>1
    <3> QED BY <1>2, <3>1 DEF CallbackBound
  <2>2. CASE ~(u = t /\ i = 1)
    <3>1. i \in 1..Depth(u) /\ stack[u][i] = g
      BY <2>0, <2>2 DEF OldFrames
    <3>2. CallbackBound(g) /\ CallReady(g) /\ g \in Frame /\ g.context \in Contexts
      BY <1>1, <1>4, <3>1, StackTyped DEF CallsReady, Depth
    <3>3. g.binding \in Bindings \cup {None} /\ g.swapchain \in Swapchains \cup {None}
      BY <3>2 DEF Frame
    <3>4. CallbackBound(g)'
      <4>0. /\ context'[g.context].state = context[g.context].state
            /\ context[g.context].mode # "pending" =>
                 context'[g.context].mode = context[g.context].mode
        BY <1>2, <1>3, <3>2 DEF ModeKept
      <4>1. g.pc = "callback" => binding'[g.binding].context = binding[g.binding].context
        <5> SUFFICES ASSUME g.pc = "callback"
                     PROVE  binding'[g.binding].context = binding[g.binding].context
          OBVIOUS
        <5>1. g.swapchain # None /\ g.binding # None /\ chain[g.swapchain] = g.binding
          BY <3>2 DEF CallbackBound
        <5> QED BY <1>2, <3>3, <5>1 DEF BindingsKept
      <4> QED BY <1>2, <3>2, <4>0, <4>1 DEF CallbackBound
    <3>5. CallReady(g)'
      <4>1. CASE g.pc \notin Telling
        BY <4>1, NotTelling
      <4>2. CASE g.pc \in Backs
        BY <4>2 DEF CallReady
      <4>3. CASE g.pc \in Telling \ Backs
        <5>1. g.context # c
          BY <1>2, <2>2, <3>1, <4>3, Alone
        <5>2. context'[g.context] = context[g.context]
          BY <1>3, <3>2, <5>1
        <5>3. g.pc \in {"set_config", "installed"} => binding'[g.binding].context = g.context
          <6> SUFFICES ASSUME g.pc \in {"set_config", "installed"}
                       PROVE  binding'[g.binding].context = g.context
            OBVIOUS
          <6>1. g.binding # None /\ binding[g.binding].context = g.context
            BY <3>2 DEF CallReady
          <6>2. g.context \notin {c, None}
            BY <3>2, <5>1, NoneAssumption
          <6> QED BY <1>2, <3>3, <6>1, <6>2 DEF BindingsKept
        <5> QED BY <1>2, <3>2, <5>2, <5>3 DEF CallReady
      <4> QED BY <4>1, <4>2, <4>3
    <3> QED BY <3>4, <3>5
  <2> QED BY <2>1, <2>2
<1> QED BY <1>7, <1>8, <1>9, <1>10, <1>11 DEF Data

(* The frames of callbacks. *)
CallbackOn(c, b, s) ==
  [NewFrame("callback", "callback", c) EXCEPT !.binding = b, !.swapchain = s]
UnwrappedOn(c, s) == [NewFrame("unwrapped", "unwrapped", c) EXCEPT !.swapchain = s]

(* They say what is called back, and for whom. *)
LEMMA CallbackFrame ==
  ASSUME NEW c \in Contexts, NEW b \in Bindings, NEW s \in Swapchains, NEW f,
         f = CallbackOn(c, b, s)
  PROVE  /\ f \in Frame
         /\ f.pc = "callback" /\ f.op = "callback" /\ f.context = c
         /\ f.binding = b /\ f.swapchain = s
<1>1. NewFrame("callback", "callback", c) \in Frame
  BY DEF NewFrame, Frame, PC
<1>2. NewFrame("callback", "callback", c).pc = "callback"
        /\ NewFrame("callback", "callback", c).op = "callback"
        /\ NewFrame("callback", "callback", c).context = c
  BY DEF NewFrame
<1> QED BY <1>1, <1>2 DEF Frame, CallbackOn

(* So does that of an unwrapped one. *)
LEMMA UnwrappedFrame ==
  ASSUME NEW c \in Contexts, NEW s \in Swapchains, NEW f, f = UnwrappedOn(c, s)
  PROVE  f \in Frame /\ f.pc = "unwrapped" /\ f.op = "unwrapped" /\ f.context = c
<1>1. NewFrame("unwrapped", "unwrapped", c) \in Frame
  BY DEF NewFrame, Frame, PC
<1>2. NewFrame("unwrapped", "unwrapped", c).pc = "unwrapped"
        /\ NewFrame("unwrapped", "unwrapped", c).op = "unwrapped"
        /\ NewFrame("unwrapped", "unwrapped", c).context = c
  BY DEF NewFrame
<1> QED BY <1>1, <1>2 DEF Frame, UnwrappedOn

(* A frame on top of a presenter or of a call that sets callbacks. *)
LEMMA CallsBackFacts ==
  ASSUME Core, NEW t \in Threads, NEW s, CallsBack(t, s), NEW f, f \in Frame,
         f.pc \in Backs, f.op = f.pc, PushStep(t, f)
  PROVE  /\ Fits(t, f) /\ ~At(t, "prepared") /\ OnlyStack(t)
         /\ \E n : OldFrames(t, n) /\ NewChosen(t, n) /\ stack'[t][n] = f
<1>1. TypeOK
  BY DEF Core
<1>2. FrameOK(f)
  BY DEF FrameOK, Destroying
<1>3. Fits(t, f)
  BY <1>2 DEF Fits, CallsBack, At
<1>4. ~At(t, "prepared") /\ OnlyStack(t)
  BY DEF CallsBack, At, PushStep
<1>5. OldFrames(t, Depth(t) + 1) /\ stack'[t][Depth(t) + 1] = f
  BY <1>1, PushFrames
<1>6. NewChosen(t, Depth(t) + 1)
  BY <1>5 DEF NewChosen
<1> QED BY <1>3, <1>4, <1>5, <1>6

(* A callback enters with the binding its swapchain has. *)
LEMMA EnterData ==
  ASSUME Core, Data, NEW t \in Threads, NEW s \in Swapchains, EnterCallback(t, s)
  PROVE  Core' /\ Data'
<1>1. TypeOK /\ ChainOwned
  BY DEF Core, Data
<1> PICK b : b = chain[s]
  OBVIOUS
<1> PICK c : c = Caller(s)
  OBVIOUS
<1> PICK f : f = CallbackOn(c, b, s)
  OBVIOUS
<1>2. /\ CallsBack(t, s) /\ b \in Bindings /\ context' = Referenced(c)
      /\ stack' = Pushed(t, f)
      /\ UNCHANGED <<holder, binding, chain, work, failed>>
  BY DEF EnterCallback, CallbackOn
<1>3. b # None
  BY <1>2, NoneAssumption
<1>4. /\ c \in Contexts /\ context[c].state # "absent" /\ context[c].mode = "metalfx"
      /\ binding[b].context = c
  BY <1>1, <1>2, <1>3 DEF ChainOwned, Caller
<1>5. /\ f \in Frame /\ f.pc = "callback" /\ f.op = "callback" /\ f.context = c
      /\ f.binding = b /\ f.swapchain = s
  BY <1>2, <1>4, CallbackFrame
<1>6. PushStep(t, f)
  BY <1>1, <1>2, <1>5, PushFacts
<1>7. Fits(t, f) /\ ~At(t, "prepared") /\ OnlyStack(t)
  BY <1>2, <1>5, <1>6, CallsBackFacts
<1>8. PICK n : OldFrames(t, n) /\ NewChosen(t, n) /\ stack'[t][n] = f
  BY <1>2, <1>5, <1>6, CallsBackFacts
<1>9. Core'
  <2>1. f.pc \notin Locked /\ f.op \notin Uncounted
    BY <1>5 DEF Locked
  <2> QED BY <1>2, <1>4, <1>5, <1>6, <1>7, <2>1, PushCore
<1>10. \A d \in Contexts : DataKept(d)
  <2>1. \A d \in Contexts :
         /\ context'[d].mode = context[d].mode /\ context'[d].state = context[d].state
         /\ context'[d].swapchain = context[d].swapchain
         /\ context'[d].binding = context[d].binding
         /\ context'[d].enabled = context[d].enabled
         /\ context'[d].translated = context[d].translated
         /\ context'[d].translating = context[d].translating
         /\ context'[d].snapshots = context[d].snapshots
    BY <1>1, <1>2, <1>4 DEF Referenced, TypeOK, Context
  <2> QED BY <2>1 DEF DataKept
<1>11. CallbackBound(f)' /\ CallReady(f)'
  <2>1. context'[c].state # "absent" /\ context'[c].mode = "metalfx"
    BY <1>4, <1>10 DEF DataKept
  <2>2. s # None
    BY NoneAssumption
  <2> QED BY <1>2, <1>3, <1>4, <1>5, <2>1, <2>2 DEF CallbackBound, CallReady
<1>12. NoNewSuccess /\ WorkKept
  BY <1>2 DEF NoNewSuccess, WorkKept
<1>13. \A i \in 1..Depth(t)' : \A g :
         i = n /\ g = stack'[t][i] => CallbackBound(g)' /\ CallReady(g)'
  BY <1>8, <1>11
<1> QED BY <1>2, <1>7, <1>8, <1>9, <1>10, <1>12, <1>13, QuietReady

(* Contexts that do not change. *)
LEMMA SameContexts ==
  ASSUME context' = context
  PROVE  \A c \in Contexts : DataKept(c)
BY DEF DataKept

(* An unwrapped callback enters. *)
LEMMA EnterUnwrappedStep ==
  ASSUME Core, Data, NEW t \in Threads, NEW s \in Swapchains, EnterUnwrapped(t, s)
  PROVE  Core' /\ Data'
<1>1. TypeOK /\ ChainOwned
  BY DEF Core, Data
<1> PICK c : c = Caller(s)
  OBVIOUS
<1> PICK f : f = UnwrappedOn(c, s)
  OBVIOUS
<1>2. /\ CallsBack(t, s) /\ chain[s] \in Unwrapped /\ stack' = Pushed(t, f)
      /\ UNCHANGED <<context, holder, binding, chain, work, failed>>
  BY DEF EnterUnwrapped, UnwrappedOn
<1>3. chain[s] # None
  BY <1>2, NoneAssumption
<1>4. c \in Contexts /\ context[c].state # "absent" /\ context[c].mode = "native"
  BY <1>1, <1>2, <1>3 DEF ChainOwned
<1>5. f \in Frame /\ f.pc = "unwrapped" /\ f.op = "unwrapped" /\ f.context = c
  BY <1>4, UnwrappedFrame
<1>6. PushStep(t, f)
  BY <1>1, <1>2, <1>5, PushFacts
<1>7. Fits(t, f) /\ ~At(t, "prepared") /\ OnlyStack(t)
  BY <1>2, <1>5, <1>6, CallsBackFacts
<1>8. PICK n : OldFrames(t, n) /\ NewChosen(t, n) /\ stack'[t][n] = f
  BY <1>2, <1>5, <1>6, CallsBackFacts
<1>9. Core'
  BY <1>2, <1>5, <1>6, <1>7, PushUnwrappedCore
<1>10. CallbackBound(f)' /\ CallReady(f)'
  BY <1>2, <1>4, <1>5 DEF CallbackBound, CallReady
<1>11. NoNewSuccess /\ WorkKept /\ \A d \in Contexts : DataKept(d)
  BY <1>2, SameContexts DEF NoNewSuccess, WorkKept
<1>12. \A i \in 1..Depth(t)' : \A g :
         i = n /\ g = stack'[t][i] => CallbackBound(g)' /\ CallReady(g)'
  BY <1>8, <1>10
<1> QED BY <1>2, <1>7, <1>8, <1>9, <1>11, <1>12, QuietReady

(* And leaves. *)
LEMMA LeaveUnwrappedStep ==
  ASSUME Core, Data, NEW t \in Threads, LeaveUnwrapped(t)
  PROVE  Core' /\ Data'
<1>1. TypeOK /\ StacksOK
  BY DEF Core
<1>2. /\ Depth(t) > 0 /\ Top(t).pc = "unwrapped" /\ stack' = Popped(t)
      /\ UNCHANGED <<context, holder, binding, chain, work, failed>>
  BY DEF LeaveUnwrapped, At
<1>3. PopStep(t)
  BY <1>1, <1>2, PopFacts
<1>4. Top(t).op = "unwrapped"
  BY <1>1, <1>2, NestFacts DEF FrameOK
<1>5. Core'
  BY <1>2, <1>3, <1>4, PopUnwrappedCore
<1>6. OldFrames(t, 0) /\ OnlyStack(t) /\ ~At(t, "prepared")
  BY <1>1, <1>2, <1>3, PopFrames DEF PopStep, At
<1>7. \A i \in 1..Depth(t)' : i # 0
  BY <1>6, DepthNext
<1>8. NewChosen(t, 0) /\ \A i \in 1..Depth(t)' : i = 0 => stack'[t][i].pc \notin Telling
  BY <1>7 DEF NewChosen
<1>9. NoNewSuccess /\ WorkKept /\ \A d \in Contexts : DataKept(d)
  BY <1>2, SameContexts DEF NoNewSuccess, WorkKept
<1> QED BY <1>2, <1>5, <1>6, <1>8, <1>9, QuietData

-----------------------------------------------------------------------------
(* How a call leaves a step: with configure_lock or without. *)

LockOutcome(t, f) ==
  /\ holder' \in [Contexts -> Threads \cup {None}]
  /\ failed' \in [Contexts -> BOOLEAN]
  /\ \A d \in Contexts : d # Here(t) => holder'[d] = holder[d] /\ failed'[d] = failed[d]
  /\ HandsOver(t, Depth(t))
  /\ f.pc \in Locked => holder'[f.context] = t

(* The call goes on with frame f, and the lock is where f says. *)
Continues(t, f) ==
  /\ MoveStep(t, f) /\ GoesOn(t, f) /\ LockOutcome(t, f)
  /\ f.pc \notin {"destroying", "dispatching"}

(* Only the place in the code changes. *)
LEMMA GotoContinues ==
  ASSUME TypeOK, StacksOK, NEW t \in Threads, Depth(t) > 0, NEW pc \in PC,
         stack' = Goto(t, pc), pc \notin Backs, Top(t).pc \notin Backs,
         pc \notin {"set_config", "installed", "off", "native_config"} \/ Top(t).desc \in Descs,
         pc \in {"dispatch", "dispatching"} => Top(t).op = "dispatch",
         pc \in Destroying => Top(t).op = "destroy",
         Top(t).op = "destroy" => pc \in Destroying \cup {"detach", "detaching"},
         Depth(t) = 1 \/ pc \in InCalls
  PROVE  \E f : /\ f = [Top(t) EXCEPT !.pc = pc]
                /\ MoveStep(t, f) /\ GoesOn(t, f) /\ f.pc = pc /\ f.desc = Top(t).desc
                /\ f.binding = Top(t).binding /\ f.swapchain = Top(t).swapchain
                /\ f.context = Here(t)
<1>1. Top(t) \in Frame /\ FrameOK(Top(t)) /\ Here(t) = Top(t).context
  BY TopFacts, NestFacts
<1>2. PICK f : f = [Top(t) EXCEPT !.pc = pc]
  OBVIOUS
<1>3. MoveStep(t, f) /\ f \in Frame
  BY <1>2, GotoFacts
<1>4. /\ f.pc = pc /\ f.op = Top(t).op /\ f.context = Top(t).context
      /\ f.desc = Top(t).desc /\ f.binding = Top(t).binding
      /\ f.swapchain = Top(t).swapchain
  BY <1>1, <1>2 DEF Frame
<1>5. FrameOK(f)
  BY <1>1, <1>3, <1>4 DEF FrameOK
<1>6. GoesOn(t, f)
  BY <1>4, <1>5 DEF GoesOn
<1> QED BY <1>1, <1>2, <1>3, <1>4, <1>6

(* configure_lock is given back. *)
LEMMA UnlockedFacts ==
  ASSUME TypeOK, StacksOK, NEW t \in Threads, Depth(t) = 1,
         holder[Here(t)] \in {None, t},
         NEW pc \in {"release", "detached"}, NEW e \in BOOLEAN, Unlocked(t, pc, e),
         Top(t).pc \notin Backs, Top(t).op = "destroy" <=> pc = "detached"
  PROVE  /\ holder'[Here(t)] = None /\ (failed'[Here(t)] <=> e)
         /\ \E f : Continues(t, f) /\ f.pc = pc /\ f.context = Here(t)
<1>1. /\ holder' = [holder EXCEPT ![Here(t)] = None]
      /\ failed' = [failed EXCEPT ![Here(t)] = e]
      /\ stack' = Goto(t, pc)
  BY DEF Unlocked
<1>2. Here(t) \in Contexts /\ Depth(t) > 0
  BY TopFacts
<1>3. pc \in PC /\ pc \notin Locked /\ pc \notin {"destroying", "dispatching"}
  BY DEF PC, Locked
<1>4. PICK f : /\ MoveStep(t, f) /\ GoesOn(t, f) /\ f.pc = pc /\ f.context = Here(t)
  <2>1. /\ pc \notin Backs /\ pc \notin {"set_config", "installed", "off", "native_config"}
        /\ pc \notin {"dispatch", "dispatching"}
        /\ pc \in Destroying => Top(t).op = "destroy"
        /\ Top(t).op = "destroy" => pc \in Destroying \cup {"detach", "detaching"}
    BY DEF Destroying
  <2> QED BY <1>1, <1>2, <1>3, <2>1, GotoContinues
<1>5. /\ holder' \in [Contexts -> Threads \cup {None}]
      /\ failed' \in [Contexts -> BOOLEAN]
      /\ \A d \in Contexts : d # Here(t) => holder'[d] = holder[d] /\ failed'[d] = failed[d]
      /\ holder'[Here(t)] = None /\ failed'[Here(t)] = e
  BY <1>1, <1>2 DEF TypeOK
<1>6. HandsOver(t, Depth(t))
  <2>1. Depth(t)' = 1
    BY <1>4, MoveFrames
  <2> QED BY <1>5, <2>1 DEF HandsOver
<1>7. LockOutcome(t, f)
  BY <1>3, <1>4, <1>5, <1>6 DEF LockOutcome
<1> QED BY <1>3, <1>4, <1>5, <1>7 DEF Continues

(* It is kept, or taken. *)
LEMMA LockedFacts ==
  ASSUME TypeOK, StacksOK, NEW t \in Threads, Depth(t) = 1, NEW f,
         MoveStep(t, f), GoesOn(t, f), f.pc \in Locked, failed' = failed,
         \/ holder' = holder /\ holder[Here(t)] = t
         \/ holder' = [holder EXCEPT ![Here(t)] = t] /\ holder[Here(t)] \in {None, t}
  PROVE  Continues(t, f) /\ holder'[Here(t)] = t
<1>1. Here(t) \in Contexts /\ Depth(t) > 0 /\ f.context = Here(t)
  BY TopFacts DEF GoesOn
<1>2. /\ holder' \in [Contexts -> Threads \cup {None}]
      /\ failed' \in [Contexts -> BOOLEAN]
      /\ \A d \in Contexts : d # Here(t) => holder'[d] = holder[d] /\ failed'[d] = failed[d]
      /\ holder'[Here(t)] = t
  BY <1>1 DEF TypeOK
<1>3. HandsOver(t, Depth(t))
  <2>1. Depth(t)' = 1
    BY MoveFrames
  <2> QED BY <1>2, <2>1 DEF HandsOver
<1>4. f.pc \notin {"destroying", "dispatching"}
  BY DEF Locked
<1> QED BY <1>1, <1>2, <1>3, <1>4 DEF LockOutcome, Continues

(* The call with another desc and the next one. *)
Reconfigures(t, d, a) ==
  [Top(t) EXCEPT !.pc = "configuring", !.desc = d, !.after = a]

(* It configures, and says nothing of the data yet. *)
LEMMA ReconfiguresFacts ==
  ASSUME TypeOK, StacksOK, NEW t \in Threads, Depth(t) = 1,
         NEW d \in Descs \cup {None}, NEW a \in Descs \cup {None},
         Top(t).pc \notin Backs, Top(t).op # "destroy",
         stack' = Changed(t, Reconfigures(t, d, a))
  PROVE  \E f : /\ MoveStep(t, f) /\ GoesOn(t, f) /\ f.pc = "configuring"
                /\ f.context = Here(t)
<1>1. Top(t) \in Frame /\ FrameOK(Top(t)) /\ Here(t) = Top(t).context /\ Depth(t) > 0
  BY TopFacts, NestFacts
<1>2. PICK f : f = Reconfigures(t, d, a)
  OBVIOUS
<1>3. /\ f \in Frame /\ f.pc = "configuring" /\ f.op = Top(t).op
      /\ f.context = Top(t).context
  BY <1>1, <1>2 DEF Frame, PC, Locked, Reconfigures
<1>4. MoveStep(t, f)
  BY <1>1, <1>2, <1>3, MoveFacts
<1>5. FrameOK(f)
  BY <1>1, <1>3 DEF FrameOK, Destroying
<1>6. GoesOn(t, f)
  BY <1>3, <1>5 DEF GoesOn
<1> QED BY <1>1, <1>3, <1>4, <1>6

(* The call is over, or configures again: it says nothing of the data. *)
Ends(t) ==
  \E f : Continues(t, f) /\ f.pc \notin Telling /\ f.context = Here(t)

(* configure_frame_generation returns OK. *)
LEMMA ConfiguredEnds ==
  ASSUME TypeOK, StacksOK, NEW t \in Threads, Depth(t) = 1, holder[Here(t)] = t,
         Top(t).pc \notin Backs, Top(t).op # "destroy", Configured(t)
  PROVE  Ends(t)
<1>1. Top(t) \in Frame /\ Depth(t) > 0 /\ Top(t) = stack[t][Depth(t)]
  BY TopFacts
<1>2. CASE Top(t).after = None /\ Unlocked(t, "release", FALSE)
  <2>1. PICK f : Continues(t, f) /\ f.pc = "release" /\ f.context = Here(t)
    BY <1>2, UnlockedFacts
  <2> QED BY <2>1 DEF Ends, Telling
<1>3. CASE /\ Top(t).after # None
           /\ stack' = [stack EXCEPT ![t][Depth(t)] =
                    [@ EXCEPT !.pc = "configuring", !.desc = Top(t).after, !.after = None]]
           /\ UNCHANGED <<holder, failed>>
  <2>1. Top(t).after \in Descs \cup {None}
    BY <1>1 DEF Frame
  <2>2. stack' = Changed(t, Reconfigures(t, Top(t).after, None))
    BY <1>1, <1>3 DEF Changed, Reconfigures
  <2>3. PICK f : /\ MoveStep(t, f) /\ GoesOn(t, f) /\ f.pc = "configuring"
                 /\ f.context = Here(t)
    BY <2>1, <2>2, ReconfiguresFacts
  <2>4. Continues(t, f)
    BY <1>3, <2>3, LockedFacts DEF Locked
  <2> QED BY <2>3, <2>4 DEF Ends, Telling
<1> QED BY <1>2, <1>3 DEF Configured

(* It returns an error. *)
LEMMA FailedEnds ==
  ASSUME TypeOK, StacksOK, NEW t \in Threads, Depth(t) = 1, holder[Here(t)] \in {None, t},
         Top(t).pc \notin Backs, Top(t).op # "destroy", Failed(t)
  PROVE  Ends(t) /\ failed'[Here(t)]
<1>1. Unlocked(t, "release", TRUE)
  BY DEF Failed
<1>2. failed'[Here(t)] /\ \E f : Continues(t, f) /\ f.pc = "release" /\ f.context = Here(t)
  BY <1>1, UnlockedFacts
<1> QED BY <1>2 DEF Ends, Telling

-----------------------------------------------------------------------------
(* Steps under configure_lock. *)

(* The call that holds it. *)
Holding(t) ==
  /\ Depth(t) = 1 /\ holder[Here(t)] = t
  /\ Top(t).pc \notin Backs /\ Top(t).op \notin Backs
  /\ Top(t).op = "destroy" => Top(t).pc \in {"detach", "detaching"}
  /\ Here(t) \in Contexts /\ MayChange(t, Here(t))
  /\ Ctx(t) = context[Here(t)] /\ Ctx(t) \in Context /\ Ctx(t).state = "listed"
  /\ Top(t) \in Frame /\ Top(t) = stack[t][1] /\ Here(t) = Top(t).context
  /\ FrameOK(Top(t)) /\ CallReady(Top(t))

(* A call at a place under the lock is that call. *)
LEMMA HoldingFacts ==
  ASSUME Core, Data, NEW t \in Threads, NEW pc \in Locked, At(t, pc)
  PROVE  Holding(t) /\ Top(t).pc = pc
<1>1. TypeOK /\ StacksOK /\ LocksHeld
  BY DEF Core
<1>2. Depth(t) > 0 /\ Top(t).pc = pc
  BY DEF At
<1>3. /\ Here(t) \in Contexts /\ Top(t) \in Frame /\ Here(t) = Top(t).context
      /\ Ctx(t) = context[Here(t)] /\ Ctx(t) \in Context
      /\ Top(t) = stack[t][Depth(t)] /\ FrameOK(Top(t))
  BY <1>1, <1>2, TopFacts, NestFacts
<1>4. Depth(t) = 1
  <2>1. Top(t).pc \notin InCalls \cup Backs
    BY <1>2 DEF InCalls, Locked
  <2> QED BY <1>1, <1>2, <2>1, NestFacts
<1>5. holder[Here(t)] = t
  BY <1>1, <1>2, <1>3, <1>4 DEF LocksHeld
<1>6. /\ Top(t).pc \notin Backs /\ Top(t).op \notin Backs
      /\ Top(t).op = "destroy" => Top(t).pc \in {"detach", "detaching"}
  BY <1>2, <1>3 DEF FrameOK, Locked, Destroying
<1>7. MayChange(t, Here(t))
  BY <1>4, <1>5, <1>6 DEF MayChange
<1>8. CallReady(Top(t))
  BY <1>3, <1>4 DEF Data, CallsReady
<1>9. Ctx(t).state = "listed"
  <2>1. 1 \in 1..Depth(t) /\ stack[t][1].op \notin Backs
    BY <1>3, <1>4, <1>6
  <2> QED BY <1>3, <1>4, <2>1, CallListed
<1> QED BY <1>2, <1>3, <1>4, <1>5, <1>6, <1>7, <1>8, <1>9 DEF Holding

(* What a swapchain may be told to call back for a context. *)
Serves(b, c) ==
  /\ b \in Bindings \cup Unwrapped \cup {None}
  /\ b \in Bindings => binding[b].context = c /\ context[c].mode = "metalfx"
  /\ b \in Unwrapped => b[1] = c /\ context[c].mode = "native"

(* A swapchain gets other callbacks when none of the old ones runs, and    *)
(* it is this context's.                                                   *)
LEMMA ChainData ==
  ASSUME Core, Data, NEW t \in Threads, NEW f, NEW b, Holding(t),
         Top(t).pc \in {"set_config", "detach", "native_config"}, MoveStep(t, f),
         f.pc \notin Backs \cup {"dispatching"}, CallReady(f)',
         Serves(b, Here(t)), SetConfig(Top(t).swapchain, b),
         \A d \in Contexts : d # Here(t) =>
           context'[d] = context[d] /\ holder'[d] = holder[d] /\ failed'[d] = failed[d],
         context'[Here(t)].state = Ctx(t).state,
         context'[Here(t)].mode = Ctx(t).mode,
         context'[Here(t)].swapchain = Ctx(t).swapchain,
         context'[Here(t)].binding = Ctx(t).binding,
         Ctx(t).mode = "native" \/ UNCHANGED <<context, holder, failed>>,
         UNCHANGED <<binding, work>>
  PROVE  Data' /\ chain' \in [Swapchains -> Bindings \cup Unwrapped \cup {None}]
<1>1. BindingsOwned /\ ChainOwned /\ ClaimsDistinct /\ CallsReady
  BY DEF Data
<1>2. TypeOK /\ StacksOK
  BY DEF Core
<1> PICK c : c = Here(t)
  OBVIOUS
<1> PICK s : s = Top(t).swapchain
  OBVIOUS
<1>3. /\ Depth(t) = 1 /\ MayChange(t, c) /\ c \in Contexts /\ Ctx(t) = context[c]
      /\ context[c].state = "listed" /\ Top(t) \in Frame /\ CallReady(Top(t))
      /\ Top(t).context = c
  BY DEF Holding
<1>4. s # None /\ s \in Swapchains /\ context[c].swapchain = s
  BY <1>3 DEF CallReady, Frame
<1>5. \A d \in Contexts :
        /\ context'[d].state = context[d].state /\ context'[d].mode = context[d].mode
        /\ context'[d].swapchain = context[d].swapchain
        /\ context'[d].binding = context[d].binding
  BY <1>3
<1>6. /\ chain'[s] = b
      /\ \A r \in Swapchains : r # s => chain'[r] = chain[r]
      /\ chain' \in [Swapchains -> Bindings \cup Unwrapped \cup {None}]
      /\ b # chain[s] => Running(s) = {}
  BY <1>2, <1>4 DEF SetConfig, TypeOK, Serves
<1>7. Undecided' /\ WorkDone' /\ TranslationMatches' /\ Chosen'
  <2>1. TranslationKept(c)
    <3>1. CASE Ctx(t).mode = "native"
      BY <1>3, <3>1 DEF TranslationKept
    <3>2. CASE UNCHANGED <<context, holder, failed>>
      BY <1>3, <3>2 DEF TranslationKept, Data, TranslationMatches
    <3> QED BY <3>1, <3>2
  <2>2. context'[c].mode = "pending" =>
          ~context'[c].enabled /\ ~context'[c].translating /\ ~context'[c].snapshots
    BY <1>3 DEF Data, Undecided
  <2>3. ModeKept(t, c) /\ WorkKept
    BY <1>3 DEF ModeKept, WorkKept, At
  <2> QED BY <1>3, <1>5, <2>1, <2>2, <2>3, OthersData
<1>8. BindingsOwned' /\ ClaimsDistinct'
  <2>1. \A a \in Bindings : binding[a].context \in Contexts \cup {None}
    BY <1>2 DEF TypeOK, Binding
  <2>2. BindingsOwned'
    BY <1>1, <1>5, <2>1 DEF BindingsOwned
  <2>3. ClaimsDistinct'
    BY <1>1, <1>5 DEF ClaimsDistinct
  <2> QED BY <2>2, <2>3
<1>9. ChainOwned'
  <2> SUFFICES ASSUME NEW r \in Swapchains, chain'[r] # None
               PROVE  /\ Caller(r)' \in Contexts
                      /\ context'[Caller(r)'].state # "absent"
                      /\ chain'[r] \in Bindings => context'[Caller(r)'].mode = "metalfx"
                      /\ chain'[r] \in Unwrapped => context'[Caller(r)'].mode = "native"
                      /\ context'[Caller(r)'].state = "listed" =>
                           context'[Caller(r)'].swapchain = r
    BY DEF ChainOwned
  <2>1. CASE r = s
    <3>1. b \in Bindings \/ b \in Unwrapped
      BY <1>6, <2>1 DEF Serves
    <3>2. Unwrapped \cap Bindings = {}
      BY NoneAssumption
    <3>3. Caller(r)' = c
      BY <1>6, <2>1, <3>1, <3>2 DEF Caller, Serves
    <3>4. /\ chain'[r] \in Bindings => context[c].mode = "metalfx"
          /\ chain'[r] \in Unwrapped => context[c].mode = "native"
      BY <1>6, <2>1 DEF Serves
    <3> QED BY <1>3, <1>4, <1>5, <2>1, <3>3, <3>4
  <2>2. CASE r # s
    <3>1. chain'[r] = chain[r] /\ chain[r] # None
      BY <1>6, <2>2
    <3>2. Caller(r)' = Caller(r)
      BY <3>1, CallerKept
    <3>3. /\ Caller(r) \in Contexts /\ context[Caller(r)].state # "absent"
          /\ chain[r] \in Bindings => context[Caller(r)].mode = "metalfx"
          /\ chain[r] \in Unwrapped => context[Caller(r)].mode = "native"
          /\ context[Caller(r)].state = "listed" => context[Caller(r)].swapchain = r
      BY <1>1, <3>1 DEF ChainOwned
    <3> QED BY <1>5, <3>1, <3>2, <3>3
  <2> QED BY <2>1, <2>2
<1>10. CallsReady'
  <2> SUFFICES ASSUME NEW u \in Threads, NEW i \in 1..Depth(u)', NEW g,
                      g = stack'[u][i]
               PROVE  CallbackBound(g)' /\ CallReady(g)'
    BY ReadyNext
  <2>0. OldFrames(t, 1) /\ stack'[t][1] = f
    BY <1>2, <1>3, MoveFrames
  <2>1. CASE u = t /\ i = 1
    <3>1. g = f
      BY <2>0, <2>1
    <3>2. CallbackBound(f)'
      BY DEF CallbackBound
    <3> QED BY <3>1, <3>2
  <2>2. CASE ~(u = t /\ i = 1)
    <3>1. i \in 1..Depth(u) /\ stack[u][i] = g
      BY <2>0, <2>2 DEF OldFrames
    <3>2. CallbackBound(g) /\ CallReady(g) /\ g \in Frame /\ g.context \in Contexts
      BY <1>1, <1>2, <3>1, StackTyped DEF CallsReady, Depth
    <3>3. g.swapchain \in Swapchains \cup {None}
      BY <3>2 DEF Frame
    <3>4. CallbackBound(g)'
      <4>1. g.pc = "callback" => chain'[g.swapchain] = chain[g.swapchain]
        <5> SUFFICES ASSUME g.pc = "callback"
                     PROVE  chain'[g.swapchain] = chain[g.swapchain]
          OBVIOUS
        <5>1. g.swapchain # None
          BY <3>2 DEF CallbackBound
        <5>2. g.swapchain = s => u \in Running(s)
          BY <3>1 DEF Running
        <5> QED BY <1>6, <3>3, <5>1, <5>2
      <4> QED BY <1>5, <3>2, <4>1 DEF CallbackBound
    <3>5. CallReady(g)'
      <4>1. CASE g.pc \notin Telling
        BY <4>1, NotTelling
      <4>2. CASE g.pc \in Backs
        BY <4>2 DEF CallReady
      <4>3. CASE g.pc \in Telling \ Backs
        <5>1. g.context # c
          BY <1>3, <2>2, <3>1, <4>3, Alone
        <5>2. g.pc \in {"installed", "detaching"} => chain'[g.swapchain] = chain[g.swapchain]
          <6> SUFFICES ASSUME g.pc \in {"installed", "detaching"}
                       PROVE  chain'[g.swapchain] = chain[g.swapchain]
            OBVIOUS
          <6>1. g.swapchain # None /\ context[g.context].swapchain = g.swapchain
            BY <3>2 DEF CallReady
          <6>2. FrameOK(g)
            BY <1>2, <3>1 DEF StacksOK
          <6>3. context[g.context].state = "listed"
            BY <3>1, <6>2, CallListed DEF FrameOK
          <6>4. g.swapchain # s
            BY <1>1, <1>3, <1>4, <3>2, <5>1, <6>1, <6>3 DEF ClaimsDistinct
          <6> QED BY <1>6, <3>3, <6>1, <6>4
        <5>3. context'[g.context] = context[g.context]
          BY <3>2, <5>1
        <5> QED BY <3>2, <5>2, <5>3 DEF CallReady
      <4> QED BY <4>1, <4>2, <4>3
    <3> QED BY <3>4, <3>5
  <2> QED BY <2>1, <2>2
<1> QED BY <1>6, <1>7, <1>8, <1>9, <1>10 DEF Data

(* What a configuration leaves alone in its context. *)
Keeps(t, x) ==
  /\ x \in Context
  /\ x.state = Ctx(t).state /\ x.refs = Ctx(t).refs /\ x.closing = Ctx(t).closing

(* Modes are chosen once, by MetalFX's first frame if it took one, and a   *)
(* translation is only told things after.                                  *)
ModeOK(t, x) ==
  /\ x.mode = "pending" => ~x.enabled /\ ~x.translating /\ ~x.snapshots
  /\ Ctx(t).mode # "pending" => x.mode = Ctx(t).mode
  /\ Top(t).pc = "prepared" => x.mode = "metalfx"

(* What the application and the bridge were told, at the end of a step. *)
ToldOK(t, x) ==
  x.mode = "metalfx" /\ x.translated =>
    /\ x.enabled => x.translating
    /\ holder'[Here(t)] = None /\ ~failed'[Here(t)] /\ ~x.enabled
         => ~x.translating /\ ~x.snapshots

WorkStep(t, x) ==
  /\ work' \in [Contexts -> SUBSET {"metalfx", "native"}]
  /\ \A d \in Contexts :
       "metalfx" \in work'[d] =>
         "metalfx" \in work[d] \/ (d = Here(t) /\ x.mode = "metalfx") \/ Unstored(d)'

(* A step of a call that configures its context, in general. *)
LEMMA Configures ==
  ASSUME Core, Data, NEW t \in Threads, NEW x, NEW f, MayChange(t, Here(t)),
         Continues(t, f), CallReady(f)',
         SetContext(t, x), Keeps(t, x), ModeOK(t, x), ToldOK(t, x), WorkStep(t, x),
         chain' = chain, BindingsKept(Here(t)), binding' \in [Bindings -> Binding],
         x.binding # None => binding'[x.binding].context = Here(t),
         ClaimKept(Here(t), x.swapchain)
  PROVE  Core' /\ Data'
<1>1. TypeOK /\ StacksOK
  BY DEF Core
<1>2. /\ MoveStep(t, f) /\ GoesOn(t, f) /\ LockOutcome(t, f)
      /\ f.pc \notin {"destroying", "dispatching"}
  BY DEF Continues
<1>3. Here(t) \in Contexts /\ Ctx(t) = context[Here(t)] /\ Depth(t) > 0
  BY <1>1, TopFacts DEF MayChange
<1> PICK c : c = Here(t)
  OBVIOUS
<1>4. /\ context'[c] = x /\ \A d \in Contexts : d # c => context'[d] = context[d]
      /\ context' \in [Contexts -> Context]
  BY <1>1, <1>3 DEF SetContext, TypeOK, Keeps
<1>5. RestTyped' /\ ContextsTyped'
  BY <1>1, <1>2, <1>4 DEF RestTyped, ContextsTyped, LockOutcome, WorkStep, TypeOK
<1>6. \A d \in Contexts : LifeKept(d)
  BY <1>3, <1>4 DEF LifeKept, Keeps
<1>7. Core'
  BY <1>2, <1>5, <1>6, MoveCore DEF LockOutcome
<1>8. Turns(t, c, f)
  <2>1. f.pc \notin Backs \cup {"dispatching"}
    BY <1>2 DEF GoesOn
  <2>2. \A d \in Contexts : d # c =>
          context'[d] = context[d] /\ holder'[d] = holder[d] /\ failed'[d] = failed[d]
    BY <1>2, <1>4 DEF LockOutcome
  <2>3. context'[c].state = context[c].state
    BY <1>3, <1>4 DEF Keeps
  <2>4. context'[c].mode = "pending" =>
          ~context'[c].enabled /\ ~context'[c].translating /\ ~context'[c].snapshots
    BY <1>4 DEF ModeOK
  <2>5. context'[c].binding # None => binding'[context'[c].binding].context = c
    BY <1>4
  <2>6. ClaimKept(c, context'[c].swapchain)
    BY <1>4
  <2> QED BY <1>2, <2>1, <2>2, <2>3, <2>4, <2>5, <2>6 DEF Turns
<1>9. TranslationKept(c)
  BY <1>4 DEF TranslationKept, ToldOK
<1>10. WorkKept
  BY <1>4 DEF WorkStep, WorkKept
<1>11. ModeKept(t, c)
  BY <1>3, <1>4 DEF ModeOK, ModeKept, At
<1>12. Data'
  BY <1>3, <1>8, <1>9, <1>10, <1>11, TurnData
<1> QED BY <1>7, <1>12

(* Bindings that do not change are kept. *)
LEMMA SameBindings ==
  ASSUME NEW c, binding' = binding
  PROVE  BindingsKept(c)
BY DEF BindingsKept

(* A step that ends, without a change of bindings. *)
LEMMA EndStep ==
  ASSUME Core, Data, NEW t \in Threads, NEW x, MayChange(t, Here(t)), Ends(t),
         SetContext(t, x), Keeps(t, x), ModeOK(t, x), ToldOK(t, x), WorkStep(t, x),
         UNCHANGED <<binding, chain>>, x.binding = Ctx(t).binding,
         ClaimKept(Here(t), x.swapchain)
  PROVE  Core' /\ Data'
<1>1. TypeOK
  BY DEF Core
<1>2. PICK f : Continues(t, f) /\ f.pc \notin Telling
  BY DEF Ends
<1>3. CallReady(f)'
  BY <1>2, NotTelling
<1>4. Here(t) \in Contexts /\ Ctx(t) = context[Here(t)]
  BY <1>1, TopFacts DEF MayChange
<1>5. BindingsKept(Here(t)) /\ binding' \in [Bindings -> Binding]
  BY <1>1, SameBindings DEF TypeOK
<1>6. x.binding # None => binding'[x.binding].context = Here(t)
  BY <1>4 DEF Data, BindingsOwned
<1> QED BY <1>2, <1>3, <1>5, <1>6, Configures

(* A claim that does not change. *)
LEMMA SameClaim ==
  ASSUME NEW c, NEW s, s = context[c].swapchain
  PROVE  ClaimKept(c, s)
BY DEF ClaimKept

(* The swapchain of desc is claimed, or may be. *)
LEMMA NewClaim ==
  ASSUME Core, Data, NEW t \in Threads, Holding(t), OnSwapchain(t)
  PROVE  ClaimKept(Here(t), Top(t).desc.swapchain)
<1> PICK c : c = Here(t)
  OBVIOUS
<1> PICK s : s = Top(t).desc.swapchain
  OBVIOUS
<1>1. context[c].swapchain = s \/ (context[c].swapchain = None /\ Claimable(c, s))
  BY DEF OnSwapchain, Holding
<1>2. CASE context[c].swapchain = s
  BY <1>2, SameClaim
<1>3. CASE context[c].swapchain = None /\ Claimable(c, s)
  <2>1. ASSUME NEW r \in Swapchains, chain[r] # None, Caller(r) = c
        PROVE  FALSE
    <3>1. context[c].swapchain = r
      BY <2>1 DEF Holding, Data, ChainOwned
    <3> QED BY <1>3, <3>1, NoneAssumption
  <2> QED BY <1>3, <2>1 DEF ClaimKept
<1> QED BY <1>1, <1>2, <1>3

(* No dispatch. *)
LEMMA SameWork ==
  ASSUME TypeOK, NEW t, NEW x, work' = work
  PROVE  WorkStep(t, x)
BY DEF WorkStep, TypeOK

(* The bridge has been told what the application was. *)
LEMMA Told ==
  ASSUME Data, NEW t \in Threads, Holding(t), Ctx(t).mode = "metalfx", Ctx(t).translated
  PROVE  Ctx(t).enabled => Ctx(t).translating
BY DEF Data, TranslationMatches, Holding

(* Modes do not change. *)
LEMMA SameMode ==
  ASSUME Data, NEW t \in Threads, Here(t) \in Contexts, Ctx(t) = context[Here(t)],
         Top(t).pc # "prepared"
  PROVE  ModeOK(t, Ctx(t))
BY DEF Data, Undecided, ModeOK

(* A step that ends and leaves the context alone. *)
LEMMA EndsUnchanged ==
  ASSUME Core, Data, NEW t \in Threads, Holding(t), Ends(t), Top(t).pc # "prepared",
         failed'[Here(t)] \/ Ctx(t).mode # "metalfx",
         UNCHANGED <<context, binding, chain, work>>
  PROVE  Core' /\ Data'
<1>1. TypeOK
  BY DEF Core
<1> PICK x : x = Ctx(t)
  OBVIOUS
<1>2. /\ MayChange(t, Here(t)) /\ Here(t) \in Contexts /\ x = context[Here(t)]
      /\ x \in Context
  BY DEF Holding
<1>3. SetContext(t, x)
  BY <1>1, <1>2 DEF SetContext, TypeOK
<1>4. Keeps(t, x) /\ WorkStep(t, x) /\ ClaimKept(Here(t), x.swapchain)
  BY <1>1, <1>2, SameWork, SameClaim DEF Keeps
<1>5. ModeOK(t, x)
  BY <1>2, SameMode
<1>6. ToldOK(t, x)
  BY Told DEF ToldOK
<1> QED BY <1>2, <1>3, <1>4, <1>5, <1>6, EndStep

(* A parameter is refused. *)
LEMMA ConfigureRejectedStep ==
  ASSUME Core, Data, NEW t \in Threads, ConfigureRejected(t)
  PROVE  Core' /\ Data'
<1>1. At(t, "configuring") /\ Failed(t) /\ UNCHANGED <<context, binding, chain, work>>
  BY DEF ConfigureRejected
<1>2. Holding(t) /\ Top(t).pc = "configuring"
  BY <1>1, HoldingFacts DEF Locked
<1>3. Ends(t) /\ failed'[Here(t)]
  BY <1>1, <1>2, FailedEnds DEF Holding, Core
<1> QED BY <1>1, <1>2, <1>3, EndsUnchanged

(* Another type of configuration. *)
LEMMA ConfigureOtherStep ==
  ASSUME Core, Data, NEW t \in Threads, ConfigureOther(t)
  PROVE  Core' /\ Data'
<1>1. /\ At(t, "configuring") /\ Configured(t) /\ Ctx(t).mode = "native"
      /\ UNCHANGED <<context, binding, chain, work>>
  BY DEF ConfigureOther
<1>2. Holding(t) /\ Top(t).pc = "configuring"
  BY <1>1, HoldingFacts DEF Locked
<1>3. Ends(t)
  BY <1>1, <1>2, ConfiguredEnds DEF Holding, Core
<1> QED BY <1>1, <1>2, <1>3, EndsUnchanged

(* store_native_config. *)
LEMMA StorePendingStep ==
  ASSUME Core, Data, NEW t \in Threads, StorePending(t)
  PROVE  Core' /\ Data'
<1> PICK d : d = Top(t).desc
  OBVIOUS
<1> PICK x : x = [Ctx(t) EXCEPT !.config = d]
  OBVIOUS
<1>1. /\ At(t, "configuring") /\ Configured(t) /\ Ctx(t).mode = "pending" /\ d # None
      /\ SetContext(t, x) /\ UNCHANGED <<binding, chain, work>>
  BY DEF StorePending
<1>2. Holding(t) /\ Top(t).pc = "configuring"
  BY <1>1, HoldingFacts DEF Locked
<1>3. Ends(t)
  BY <1>1, <1>2, ConfiguredEnds DEF Holding, Core
<1>4. /\ MayChange(t, Here(t)) /\ Ctx(t) = context[Here(t)] /\ Ctx(t) \in Context
      /\ d \in Descs \cup {None} /\ Here(t) \in Contexts
  BY <1>2 DEF Holding, Frame
<1>5. /\ x \in Context /\ x.state = Ctx(t).state /\ x.refs = Ctx(t).refs
      /\ x.closing = Ctx(t).closing /\ x.mode = Ctx(t).mode
      /\ x.binding = Ctx(t).binding /\ x.swapchain = Ctx(t).swapchain
      /\ x.enabled = Ctx(t).enabled /\ x.translating = Ctx(t).translating
      /\ x.snapshots = Ctx(t).snapshots
  BY <1>4 DEF Context
<1>6. Keeps(t, x) /\ WorkStep(t, x) /\ ClaimKept(Here(t), x.swapchain)
  BY <1>1, <1>4, <1>5, SameWork, SameClaim DEF Keeps, Core
<1>7. ModeOK(t, x)
  <2>1. ModeOK(t, Ctx(t))
    BY <1>2, <1>4, SameMode
  <2> QED BY <1>5, <2>1 DEF ModeOK
<1>8. ToldOK(t, x)
  BY <1>1, <1>5 DEF ToldOK
<1> QED BY <1>1, <1>3, <1>4, <1>5, <1>6, <1>7, <1>8, EndStep

(* The call with another desc only. *)
Redirects(t, d) == [Top(t) EXCEPT !.pc = "configuring", !.desc = d]

(* It configures, and says nothing of the data yet. *)
LEMMA RedirectsFacts ==
  ASSUME TypeOK, StacksOK, NEW t \in Threads, Depth(t) = 1,
         NEW d \in Descs \cup {None}, Top(t).pc \notin Backs, Top(t).op # "destroy",
         stack' = Changed(t, Redirects(t, d))
  PROVE  \E f : /\ MoveStep(t, f) /\ GoesOn(t, f) /\ f.pc = "configuring"
                /\ f.context = Here(t)
<1>1. Top(t) \in Frame /\ FrameOK(Top(t)) /\ Here(t) = Top(t).context /\ Depth(t) > 0
  BY TopFacts, NestFacts
<1>2. PICK f : f = Redirects(t, d)
  OBVIOUS
<1>3. /\ f \in Frame /\ f.pc = "configuring" /\ f.op = Top(t).op
      /\ f.context = Top(t).context
  BY <1>1, <1>2 DEF Frame, PC, Locked, Redirects
<1>4. MoveStep(t, f)
  BY <1>1, <1>2, <1>3, MoveFacts
<1>5. FrameOK(f)
  BY <1>1, <1>3 DEF FrameOK, Destroying
<1>6. GoesOn(t, f)
  BY <1>3, <1>5 DEF GoesOn
<1> QED BY <1>1, <1>3, <1>4, <1>6

(* The rest of select_native: a stored configuration first, then next. *)
AppliesStored(t, next) ==
  \/ /\ Ctx(t).config # None
     /\ holder' = [holder EXCEPT ![Here(t)] = t]
     /\ stack' = [stack EXCEPT ![t][Depth(t)] =
          [@ EXCEPT !.pc = "configuring", !.desc = Ctx(t).config, !.after = next]]
     /\ UNCHANGED failed
  \/ /\ Ctx(t).config = None /\ next # None
     /\ stack' = [stack EXCEPT ![t][Depth(t)] =
          [@ EXCEPT !.pc = "configuring", !.desc = next]]
     /\ UNCHANGED <<holder, failed>>
  \/ /\ Ctx(t).config = None /\ next = None
     /\ Unlocked(t, "release", FALSE)

(* It leaves the call configuring, or over. *)
LEMMA SelectEnds ==
  ASSUME TypeOK, StacksOK, NEW t \in Threads, Depth(t) = 1,
         holder[Here(t)] \in {None, t}, NEW next \in Descs \cup {None},
         next # None => holder[Here(t)] = t,
         Top(t).pc \notin Backs, Top(t).op # "destroy", AppliesStored(t, next)
  PROVE  Ends(t)
<1>1. /\ Top(t) = stack[t][Depth(t)] /\ Ctx(t) \in Context /\ Depth(t) > 0
      /\ Ctx(t).config \in Descs \cup {None}
  BY TopFacts DEF Context
<1>2. CASE /\ Ctx(t).config # None
           /\ holder' = [holder EXCEPT ![Here(t)] = t]
           /\ stack' = [stack EXCEPT ![t][Depth(t)] =
                [@ EXCEPT !.pc = "configuring", !.desc = Ctx(t).config, !.after = next]]
           /\ UNCHANGED failed
  <2>1. stack' = Changed(t, Reconfigures(t, Ctx(t).config, next))
    BY <1>1, <1>2 DEF Changed, Reconfigures
  <2>2. PICK f : /\ MoveStep(t, f) /\ GoesOn(t, f) /\ f.pc = "configuring"
                 /\ f.context = Here(t)
    BY <1>1, <2>1, ReconfiguresFacts
  <2>3. Continues(t, f)
    BY <1>2, <2>2, LockedFacts DEF Locked
  <2> QED BY <2>2, <2>3 DEF Ends, Telling
<1>3. CASE /\ Ctx(t).config = None /\ next # None
           /\ stack' = [stack EXCEPT ![t][Depth(t)] =
                [@ EXCEPT !.pc = "configuring", !.desc = next]]
           /\ UNCHANGED <<holder, failed>>
  <2>1. stack' = Changed(t, Redirects(t, next))
    BY <1>1, <1>3 DEF Changed, Redirects
  <2>2. PICK f : /\ MoveStep(t, f) /\ GoesOn(t, f) /\ f.pc = "configuring"
                 /\ f.context = Here(t)
    BY <2>1, RedirectsFacts
  <2>3. Continues(t, f)
    BY <1>3, <2>2, LockedFacts DEF Locked
  <2> QED BY <2>2, <2>3 DEF Ends, Telling
<1>4. CASE Ctx(t).config = None /\ next = None /\ Unlocked(t, "release", FALSE)
  <2>1. PICK f : Continues(t, f) /\ f.pc = "release" /\ f.context = Here(t)
    BY <1>4, UnlockedFacts
  <2> QED BY <2>1 DEF Ends, Telling
<1> QED BY <1>2, <1>3, <1>4 DEF AppliesStored

(* The context becomes native, under the lock or with the lock free. *)
LEMMA SelectNativeStep ==
  ASSUME Core, Data, NEW t \in Threads, NEW next \in Descs \cup {None},
         MayChange(t, Here(t)), Top(t).op # "destroy",
         Top(t).pc \notin Backs \cup {"prepared"},
         next # None => holder[Here(t)] = t, Ctx(t).mode = "pending",
         SelectNative(t, next), UNCHANGED <<binding, chain>>,
         work' \in [Contexts -> SUBSET {"metalfx", "native"}],
         \A d \in Contexts : "metalfx" \in work'[d] => "metalfx" \in work[d]
  PROVE  Core' /\ Data'
<1>1. TypeOK /\ StacksOK
  BY DEF Core
<1> PICK x : x = [Ctx(t) EXCEPT !.mode = "native"]
  OBVIOUS
<1>2. SetContext(t, x) /\ AppliesStored(t, next)
  BY DEF SelectNative, AppliesStored
<1>3. Ends(t)
  BY <1>1, <1>2, SelectEnds DEF MayChange
<1>4. Ctx(t) = context[Here(t)] /\ Ctx(t) \in Context /\ Here(t) \in Contexts
  BY <1>1, TopFacts DEF MayChange
<1>5. /\ x \in Context /\ x.state = Ctx(t).state /\ x.refs = Ctx(t).refs
      /\ x.closing = Ctx(t).closing /\ x.mode = "native"
      /\ x.binding = Ctx(t).binding /\ x.swapchain = Ctx(t).swapchain
  BY <1>4 DEF Context, Mode
<1>6. Keeps(t, x) /\ ClaimKept(Here(t), x.swapchain)
  BY <1>4, <1>5, SameClaim DEF Keeps
<1>7. ModeOK(t, x) /\ ToldOK(t, x) /\ WorkStep(t, x)
  BY <1>5 DEF ModeOK, ToldOK, WorkStep
<1> QED BY <1>2, <1>3, <1>5, <1>6, <1>7, EndStep

(* select_native in ffxConfigure. *)
LEMMA ConfigureSelectsNativeStep ==
  ASSUME Core, Data, NEW t \in Threads, ConfigureSelectsNative(t)
  PROVE  Core' /\ Data'
<1>1. /\ At(t, "configuring") /\ Ctx(t).mode = "pending" /\ SelectNative(t, Top(t).desc)
      /\ UNCHANGED <<binding, chain, work>>
  BY DEF ConfigureSelectsNative
<1>2. Holding(t) /\ Top(t).pc = "configuring"
  BY <1>1, HoldingFacts DEF Locked
<1>3. /\ Top(t).desc \in Descs \cup {None} /\ MayChange(t, Here(t))
      /\ Top(t).op # "destroy" /\ holder[Here(t)] = t
  BY <1>2 DEF Holding, Frame
<1>4. work' \in [Contexts -> SUBSET {"metalfx", "native"}]
  BY <1>1 DEF Core, TypeOK
<1> QED BY <1>1, <1>2, <1>3, <1>4, SelectNativeStep

(* The call translates a description. *)
LEMMA TranslatesFacts ==
  ASSUME Core, Data, NEW t \in Threads, Translates(t)
  PROVE  /\ Holding(t) /\ Top(t).pc = "configuring" /\ Ctx(t).mode = "metalfx"
         /\ Top(t).desc \in Descs /\ Top(t).op # "destroy"
         /\ Top(t).desc.on \in BOOLEAN
         /\ Top(t).desc.swapchain \in Swapchains \cup {None}
         /\ Top(t).desc.callbacks \in {d.callbacks : d \in Descs}
<1>1. At(t, "configuring") /\ Top(t).desc # None /\ Ctx(t).mode = "metalfx"
  BY DEF Translates
<1>2. Holding(t) /\ Top(t).pc = "configuring"
  BY <1>1, HoldingFacts DEF Locked
<1>3. Top(t).desc \in Descs /\ Top(t).op # "destroy"
  BY <1>1, <1>2 DEF Holding, Frame
<1> QED BY <1>1, <1>2, <1>3, DescAssumption

(* snapshot_frame_config fails and the translation is told back. *)
LEMMA SnapshotFailsStep ==
  ASSUME Core, Data, NEW t \in Threads, SnapshotFails(t)
  PROVE  Core' /\ Data'
<1>1. PICK ok \in BOOLEAN : SetContext(t, RolledBack(Ctx(t), ok))
  BY DEF SnapshotFails
<1>2. Translates(t) /\ Failed(t) /\ UNCHANGED <<binding, chain, work>>
  BY DEF SnapshotFails
<1>3. /\ Holding(t) /\ Top(t).pc = "configuring" /\ Ctx(t).mode = "metalfx"
      /\ Top(t).op # "destroy"
  BY <1>2, TranslatesFacts
<1>4. Ends(t) /\ failed'[Here(t)]
  BY <1>2, <1>3, FailedEnds DEF Holding, Core
<1> PICK x : x = RolledBack(Ctx(t), ok)
  OBVIOUS
<1>5. /\ MayChange(t, Here(t)) /\ Ctx(t) = context[Here(t)] /\ Ctx(t) \in Context
      /\ Here(t) \in Contexts
  BY <1>3 DEF Holding
<1> PICK y : y = IF ok THEN Ctx(t).enabled ELSE TRUE
  OBVIOUS
<1>6. y \in BOOLEAN /\ (Ctx(t).enabled => y) /\ x = [Ctx(t) EXCEPT !.translating = y]
  BY <1>5 DEF Context, RolledBack
<1>7. /\ x \in Context /\ x.state = Ctx(t).state /\ x.refs = Ctx(t).refs
      /\ x.closing = Ctx(t).closing /\ x.mode = Ctx(t).mode
      /\ x.binding = Ctx(t).binding /\ x.swapchain = Ctx(t).swapchain
      /\ x.enabled = Ctx(t).enabled /\ x.translating = y
  BY <1>5, <1>6 DEF Context
<1>8. Keeps(t, x) /\ WorkStep(t, x) /\ ClaimKept(Here(t), x.swapchain)
  BY <1>2, <1>5, <1>7, SameWork, SameClaim DEF Keeps, Core
<1>9. ModeOK(t, x) /\ ToldOK(t, x)
  BY <1>3, <1>4, <1>6, <1>7 DEF ModeOK, ToldOK
<1> QED BY <1>1, <1>2, <1>4, <1>5, <1>7, <1>8, <1>9, EndStep

(* On or off without notification. *)
LEMMA ConfigureDirectStep ==
  ASSUME Core, Data, NEW t \in Threads, ConfigureDirect(t)
  PROVE  Core' /\ Data'
<1> PICK d : d = Top(t).desc
  OBVIOUS
<1> PICK x : x = [Ctx(t) EXCEPT !.config = d, !.enabled = d.on,
                                !.translating = d.on, !.snapshots = d.on]
  OBVIOUS
<1>1. /\ Translates(t) /\ SetContext(t, x) /\ Configured(t)
      /\ UNCHANGED <<binding, chain, work>>
  BY DEF ConfigureDirect
<1>2. /\ Holding(t) /\ Top(t).pc = "configuring" /\ Ctx(t).mode = "metalfx"
      /\ Top(t).op # "destroy" /\ d \in Descs /\ d.on \in BOOLEAN
  BY <1>1, TranslatesFacts
<1>3. Ends(t)
  BY <1>1, <1>2, ConfiguredEnds DEF Holding, Core
<1>4. /\ MayChange(t, Here(t)) /\ Ctx(t) = context[Here(t)] /\ Ctx(t) \in Context
      /\ Here(t) \in Contexts
  BY <1>2 DEF Holding
<1>5. /\ x \in Context /\ x.state = Ctx(t).state /\ x.refs = Ctx(t).refs
      /\ x.closing = Ctx(t).closing /\ x.mode = Ctx(t).mode
      /\ x.binding = Ctx(t).binding /\ x.swapchain = Ctx(t).swapchain
      /\ x.enabled = d.on /\ x.translating = d.on /\ x.snapshots = d.on
  BY <1>2, <1>4 DEF Context
<1>6. Keeps(t, x) /\ WorkStep(t, x) /\ ClaimKept(Here(t), x.swapchain)
  BY <1>1, <1>4, <1>5, SameWork, SameClaim DEF Keeps, Core
<1>7. ModeOK(t, x) /\ ToldOK(t, x)
  BY <1>2, <1>5 DEF ModeOK, ToldOK
<1> QED BY <1>1, <1>3, <1>4, <1>5, <1>6, <1>7, EndStep

(* The call that lets the native provider set the callbacks. *)
NativeSets(t) ==
  [Top(t) EXCEPT !.pc = "native_config", !.swapchain = Top(t).desc.swapchain]

(* The native provider configures itself, up to the swapchain. *)
LEMMA ConfigureNativeStep ==
  ASSUME Core, Data, NEW t \in Threads, ConfigureNative(t)
  PROVE  Core' /\ Data'
<1> PICK d : d = Top(t).desc
  OBVIOUS
<1>1. /\ At(t, "configuring") /\ d # None /\ Ctx(t).mode = "native"
      /\ UNCHANGED <<binding, chain, work>>
  BY DEF ConfigureNative
<1>2. Holding(t) /\ Top(t).pc = "configuring"
  BY <1>1, HoldingFacts DEF Locked
<1>3. /\ MayChange(t, Here(t)) /\ Ctx(t) = context[Here(t)] /\ Ctx(t) \in Context
      /\ Here(t) \in Contexts /\ Top(t).op # "destroy" /\ d \in Descs
      /\ Depth(t) = 1 /\ holder[Here(t)] = t /\ Top(t) \in Frame
      /\ Top(t) = stack[t][1] /\ Here(t) = Top(t).context
      /\ FrameOK(Top(t)) /\ Top(t).pc \notin Backs
  BY <1>1, <1>2 DEF Holding, Frame
<1>4. d.swapchain \in Swapchains \cup {None}
  BY <1>3, DescAssumption
<1>5. TypeOK /\ StacksOK
  BY DEF Core
<1>6. CASE UNCHANGED context /\ (Configured(t) \/ Failed(t))
  <2>1. Ends(t)
    BY <1>3, <1>5, <1>6, FailedEnds, ConfiguredEnds
  <2> QED BY <1>1, <1>2, <1>6, <2>1, EndsUnchanged
<1>7. CASE /\ OnSwapchain(t)
           /\ SetContext(t, [Ctx(t) EXCEPT !.swapchain = d.swapchain])
           /\ stack' = [stack EXCEPT ![t][Depth(t)] =
                          [@ EXCEPT !.pc = "native_config", !.swapchain = d.swapchain]]
           /\ UNCHANGED <<holder, failed>>
  <2> PICK x : x = [Ctx(t) EXCEPT !.swapchain = d.swapchain]
    OBVIOUS
  <2>1. /\ x \in Context /\ x.state = Ctx(t).state /\ x.refs = Ctx(t).refs
        /\ x.closing = Ctx(t).closing /\ x.mode = "native"
        /\ x.binding = Ctx(t).binding /\ x.swapchain = d.swapchain
    BY <1>1, <1>3, <1>4 DEF Context
  <2>2. SetContext(t, x) /\ context'[Here(t)] = x
    BY <1>3, <1>5, <1>7 DEF SetContext, TypeOK
  <2> PICK f : f = NativeSets(t)
    OBVIOUS
  <2>3. /\ f \in Frame /\ f.pc = "native_config" /\ f.op = Top(t).op
        /\ f.context = Here(t) /\ f.swapchain = d.swapchain /\ f.desc = d
    BY <1>3, <1>4 DEF Frame, PC, Locked, NativeSets
  <2>4. MoveStep(t, f)
    <3>1. stack' = Changed(t, f)
      BY <1>3, <1>7 DEF Changed, NativeSets
    <3> QED BY <1>3, <1>5, <2>3, <3>1, MoveFacts
  <2>5. GoesOn(t, f)
    <3>1. FrameOK(f)
      BY <1>3, <2>3 DEF FrameOK, Destroying
    <3> QED BY <1>3, <2>3, <3>1 DEF GoesOn
  <2>6. Continues(t, f)
    BY <1>3, <1>5, <1>7, <2>3, <2>4, <2>5, LockedFacts DEF Locked
  <2>7. CallReady(f)'
    <3>1. d.swapchain # None
      BY <1>7 DEF OnSwapchain
    <3> QED BY <2>1, <2>2, <2>3, <3>1 DEF CallReady
  <2>8. ClaimKept(Here(t), x.swapchain)
    BY <1>2, <1>7, <2>1, NewClaim
  <2>9. Keeps(t, x) /\ WorkStep(t, x)
    BY <1>1, <1>5, <2>1, SameWork DEF Keeps
  <2>10. ModeOK(t, x) /\ ToldOK(t, x)
    BY <1>1, <1>2, <2>1 DEF ModeOK, ToldOK
  <2>11. BindingsKept(Here(t)) /\ binding' \in [Bindings -> Binding]
    BY <1>1, <1>5, SameBindings DEF TypeOK
  <2>12. x.binding # None => binding'[x.binding].context = Here(t)
    BY <1>1, <1>3, <2>1 DEF Data, BindingsOwned
  <2> QED BY <1>1, <1>3, <2>2, <2>6, <2>7, <2>8, <2>9, <2>10, <2>11, <2>12, Configures
<1> QED BY <1>6, <1>7 DEF ConfigureNative

(* native.configure fails. *)
LEMMA NativeConfigFailsStep ==
  ASSUME Core, Data, NEW t \in Threads, NativeConfigFails(t)
  PROVE  Core' /\ Data'
<1>1. At(t, "native_config") /\ Failed(t) /\ UNCHANGED <<context, binding, chain, work>>
  BY DEF NativeConfigFails
<1>2. Holding(t) /\ Top(t).pc = "native_config"
  BY <1>1, HoldingFacts DEF Locked
<1>3. Ends(t) /\ failed'[Here(t)]
  BY <1>1, <1>2, FailedEnds DEF Holding, Core
<1> QED BY <1>1, <1>2, <1>3, EndsUnchanged

(* It sets the application's callbacks. *)
LEMMA NativeConfiguredStep ==
  ASSUME Core, Data, NEW t \in Threads, NativeConfigured(t)
  PROVE  Core' /\ Data'
<1> PICK d : d = Top(t).desc
  OBVIOUS
<1> PICK b : b = <<Here(t), d.callbacks>>
  OBVIOUS
<1> PICK x : x = [Ctx(t) EXCEPT !.config = d, !.enabled = d.on]
  OBVIOUS
<1>1. /\ At(t, "native_config") /\ SetConfig(Top(t).swapchain, b) /\ SetContext(t, x)
      /\ Configured(t) /\ UNCHANGED <<binding, work>>
  BY DEF NativeConfigured
<1>2. Holding(t) /\ Top(t).pc = "native_config"
  BY <1>1, HoldingFacts DEF Locked
<1>3. /\ Ctx(t) = context[Here(t)] /\ Ctx(t) \in Context /\ Here(t) \in Contexts
      /\ Here(t) = Top(t).context /\ d \in Descs /\ Ctx(t).mode = "native"
  BY <1>2 DEF Holding, FrameOK, CallReady
<1>4. TypeOK /\ StacksOK
  BY DEF Core
<1>5. PICK f : Continues(t, f) /\ f.pc \notin Telling /\ f.context = Here(t)
  BY <1>1, <1>2, <1>4, ConfiguredEnds DEF Ends, Holding
<1>6. MoveStep(t, f) /\ GoesOn(t, f) /\ LockOutcome(t, f)
        /\ f.pc \notin Backs \cup {"dispatching", "destroying"}
  BY <1>5 DEF Continues, GoesOn
<1>7. /\ x \in Context /\ x.state = Ctx(t).state /\ x.refs = Ctx(t).refs
      /\ x.closing = Ctx(t).closing /\ x.mode = Ctx(t).mode
      /\ x.binding = Ctx(t).binding /\ x.swapchain = Ctx(t).swapchain
  BY <1>3, DescAssumption DEF Context
<1>8. /\ context'[Here(t)] = x /\ context' \in [Contexts -> Context]
      /\ \A c \in Contexts : c # Here(t) => context'[c] = context[c]
  BY <1>1, <1>3, <1>4, <1>7 DEF SetContext, TypeOK
<1>9. Serves(b, Here(t))
  <2>1. b \in Unwrapped /\ b[1] = Here(t)
    BY <1>3 DEF Unwrapped, Callbacks
  <2>2. b \notin Bindings
    BY <2>1, NoneAssumption
  <2> QED BY <1>3, <2>1, <2>2 DEF Serves
<1>10. CallReady(f)'
  BY <1>5, NotTelling
<1>11. Data' /\ chain' \in [Swapchains -> Bindings \cup Unwrapped \cup {None}]
  <2>1. \A c \in Contexts : c # Here(t) =>
          context'[c] = context[c] /\ holder'[c] = holder[c] /\ failed'[c] = failed[c]
    BY <1>6, <1>8 DEF LockOutcome
  <2> QED BY <1>1, <1>2, <1>3, <1>6, <1>7, <1>8, <1>9, <1>10, <2>1, ChainData
<1>12. RestTyped' /\ ContextsTyped' /\ \A c \in Contexts : LifeKept(c)
  BY <1>1, <1>3, <1>4, <1>6, <1>7, <1>8, <1>11
     DEF RestTyped, ContextsTyped, LifeKept, LockOutcome, TypeOK
<1>13. Core'
  BY <1>6, <1>12, MoveCore DEF LockOutcome
<1> QED BY <1>11, <1>13

(* The call that will detach its context from its swapchain. *)
Detaches(t) == [Top(t) EXCEPT !.pc = "detach", !.swapchain = Ctx(t).swapchain]

(* It is ready to. *)
LEMMA DetachesFacts ==
  ASSUME TypeOK, StacksOK, NEW t \in Threads, Depth(t) = 1,
         Top(t).pc \notin Backs, Ctx(t).swapchain # None, UNCHANGED <<context, failed>>,
         stack' = Changed(t, Detaches(t)),
         \/ holder' = holder /\ holder[Here(t)] = t
         \/ holder' = [holder EXCEPT ![Here(t)] = t] /\ holder[Here(t)] \in {None, t}
  PROVE  \E f : Continues(t, f) /\ CallReady(f)' /\ holder'[Here(t)] = t
<1>1. /\ Top(t) \in Frame /\ FrameOK(Top(t)) /\ Here(t) = Top(t).context /\ Depth(t) > 0
      /\ Ctx(t) \in Context /\ Ctx(t) = context[Here(t)]
  BY TopFacts, NestFacts
<1>2. PICK f : f = Detaches(t)
  OBVIOUS
<1>3. /\ f \in Frame /\ f.pc = "detach" /\ f.op = Top(t).op
      /\ f.context = Top(t).context /\ f.swapchain = Ctx(t).swapchain
  BY <1>1, <1>2 DEF Frame, PC, Locked, Detaches, Context
<1>4. MoveStep(t, f)
  BY <1>1, <1>2, <1>3, MoveFacts
<1>5. FrameOK(f)
  BY <1>1, <1>3 DEF FrameOK, Destroying
<1>6. GoesOn(t, f)
  BY <1>3, <1>5 DEF GoesOn
<1>7. f.pc \in Locked
  BY <1>3 DEF Locked
<1>8. Continues(t, f) /\ holder'[Here(t)] = t
  BY <1>4, <1>6, <1>7, LockedFacts
<1>9. CallReady(f)'
  BY <1>1, <1>3 DEF CallReady
<1> QED BY <1>8, <1>9

(* A step that leaves the context alone and keeps or takes the lock. *)
LEMMA LockedUnchanged ==
  ASSUME Core, Data, NEW t \in Threads, NEW f, MayChange(t, Here(t)),
         Continues(t, f), CallReady(f)', holder'[Here(t)] = t,
         Top(t).pc # "prepared", WorkStep(t, Ctx(t)), UNCHANGED <<context, binding, chain>>
  PROVE  Core' /\ Data'
<1>1. TypeOK
  BY DEF Core
<1> PICK x : x = Ctx(t)
  OBVIOUS
<1>2. /\ Here(t) \in Contexts /\ x = context[Here(t)] /\ x \in Context
  BY <1>1, TopFacts DEF MayChange
<1>3. SetContext(t, x)
  BY <1>1, <1>2 DEF SetContext, TypeOK
<1>4. Keeps(t, x) /\ ClaimKept(Here(t), x.swapchain)
  BY <1>2, SameClaim DEF Keeps
<1>5. ModeOK(t, x)
  BY <1>2, SameMode
<1>6. ToldOK(t, x)
  <2>1. x.state = "listed"
    <3>1. 1 \in 1..Depth(t) /\ stack[t][1].op \notin Backs
            /\ stack[t][1].context = Here(t)
      BY DEF MayChange, Here, Top
    <3> QED BY <1>2, <3>1, CallListed
  <2>2. x.mode = "metalfx" /\ x.translated => (x.enabled => x.translating)
    BY <1>2, <2>1 DEF Data, TranslationMatches
  <2>3. t # None
    BY NoneAssumption
  <2> QED BY <2>2, <2>3 DEF ToldOK
<1>7. BindingsKept(Here(t)) /\ binding' \in [Bindings -> Binding]
  BY <1>1, SameBindings DEF TypeOK
<1>8. x.binding # None => binding'[x.binding].context = Here(t)
  BY <1>2 DEF Data, BindingsOwned
<1> QED BY <1>3, <1>4, <1>5, <1>6, <1>7, <1>8, Configures

(* A disabled context moves to another swapchain. *)
LEMMA ConfigureMovesStep ==
  ASSUME Core, Data, NEW t \in Threads, ConfigureMoves(t)
  PROVE  Core' /\ Data'
<1>1. /\ At(t, "configuring") /\ Ctx(t).swapchain # None
      /\ stack' = [stack EXCEPT ![t][Depth(t)] =
                    [@ EXCEPT !.pc = "detach", !.swapchain = Ctx(t).swapchain]]
      /\ UNCHANGED <<context, holder, binding, chain, work, failed>>
  BY DEF ConfigureMoves
<1>2. Holding(t) /\ Top(t).pc = "configuring"
  BY <1>1, HoldingFacts DEF Locked
<1>3. TypeOK /\ StacksOK
  BY DEF Core
<1>4. /\ Depth(t) = 1 /\ holder[Here(t)] = t /\ Top(t).pc \notin Backs
      /\ MayChange(t, Here(t)) /\ Top(t) = stack[t][1]
  BY <1>2 DEF Holding
<1>5. stack' = Changed(t, Detaches(t))
  BY <1>1, <1>4 DEF Changed, Detaches
<1>6. PICK f : Continues(t, f) /\ CallReady(f)' /\ holder'[Here(t)] = t
  BY <1>1, <1>3, <1>4, <1>5, DetachesFacts
<1>7. WorkStep(t, Ctx(t))
  BY <1>1, <1>3, SameWork
<1> QED BY <1>1, <1>2, <1>4, <1>6, <1>7, LockedUnchanged

(* A binding is made at a free address. *)
LEMMA MadeFacts ==
  ASSUME Core, Data, NEW t \in Threads, Holding(t), Top(t).desc \in Descs,
         NEW b \in Bindings, binding[b] = FreeBinding, binding' = Made(t, b)
  PROVE  /\ BindingsKept(Here(t)) /\ binding' \in [Bindings -> Binding]
         /\ binding'[b].context = Here(t)
         /\ \A a \in Bindings : a # b => binding'[a] = binding[a]
<1>1. TypeOK
  BY DEF Core
<1>2. Here(t) \in Contexts /\ binding[b].context = None
  BY DEF Holding, FreeBinding
<1> PICK m : m = [context |-> Here(t), callbacks |-> Top(t).desc.callbacks]
  OBVIOUS
<1>3. m \in Binding /\ m.context = Here(t)
  BY <1>2 DEF Binding, Callbacks
<1>4. /\ binding' \in [Bindings -> Binding] /\ binding'[b] = m
      /\ \A a \in Bindings : a # b => binding'[a] = binding[a]
  BY <1>1, <1>3 DEF Made, TypeOK
<1>5. ASSUME NEW s \in Swapchains, chain[s] \in Bindings
      PROVE  chain[s] # b
  <2>1. chain[s] # None
    BY <1>5, NoneAssumption
  <2>2. binding[chain[s]].context \in Contexts
    BY <1>5, <2>1 DEF Data, ChainOwned, Caller
  <2> QED BY <1>2, <2>2, NoneAssumption
<1>6. BindingsKept(Here(t))
  BY <1>2, <1>3, <1>4, <1>5 DEF BindingsKept
<1> QED BY <1>3, <1>4, <1>6

(* A binding is freed that no swapchain calls back on. *)
LEMMA FreedFacts ==
  ASSUME Core, Data, NEW c \in Contexts, NEW old \in Bindings \cup {None},
         NEW new \in Bindings \cup {None}, binding' = Freed(old, new),
         old # None => binding[old].context = c,
         \A s \in Swapchains : chain[s] \in Bindings => chain[s] # old \/ old = new
  PROVE  /\ BindingsKept(c) /\ binding' \in [Bindings -> Binding]
         /\ new # None => binding'[new] = binding[new]
<1>1. TypeOK
  BY DEF Core
<1>2. CASE old \in {None, new}
  <2>1. binding' = binding
    BY <1>2 DEF Freed
  <2> QED BY <1>1, <2>1, SameBindings DEF TypeOK
<1>3. CASE old \notin {None, new}
  <2>1. binding' = [binding EXCEPT ![old] = FreeBinding] /\ old \in Bindings
    BY <1>3 DEF Freed
  <2>2. FreeBinding \in Binding /\ FreeBinding.context = None
    BY DEF FreeBinding, Binding
  <2>3. /\ binding' \in [Bindings -> Binding] /\ binding'[old].context = None
        /\ \A a \in Bindings : a # old => binding'[a] = binding[a]
    BY <1>1, <2>1, <2>2 DEF TypeOK
  <2>4. \A s \in Swapchains : chain[s] \in Bindings => chain[s] # old
    BY <1>3
  <2>5. BindingsKept(c)
    BY <1>3, <2>3, <2>4 DEF BindingsKept
  <2> QED BY <1>3, <2>3, <2>5
<1> QED BY <1>2, <1>3

(* The call that will install binding b. *)
Installs(t, b) ==
  [Top(t) EXCEPT !.pc = "set_config", !.binding = b, !.swapchain = Top(t).desc.swapchain]

(* The claim, the bridge, the snapshot and the binding. *)
LEMMA ConfigureInstallsStep ==
  ASSUME Core, Data, NEW t \in Threads, ConfigureInstalls(t)
  PROVE  Core' /\ Data'
<1> PICK d : d = Top(t).desc
  OBVIOUS
<1> PICK old : old = Ctx(t).binding
  OBVIOUS
<1> PICK x : x = [Ctx(t) EXCEPT !.swapchain = d.swapchain,
                                !.translating = @ \/ d.on,
                                !.snapshots = @ \/ d.on]
  OBVIOUS
<1>1. /\ Translates(t) /\ OnSwapchain(t) /\ SetContext(t, x)
      /\ UNCHANGED <<holder, chain, work, failed>>
  BY DEF ConfigureInstalls
<1>2. PICK b \in Bindings :
        /\ \/ b = old /\ UNCHANGED binding
           \/ binding[b] = FreeBinding /\ binding' = Made(t, b)
        /\ stack' = [stack EXCEPT ![t][Depth(t)] =
             [@ EXCEPT !.pc = "set_config", !.binding = b, !.swapchain = d.swapchain]]
  BY DEF ConfigureInstalls
<1>3. /\ Holding(t) /\ Top(t).pc = "configuring" /\ Ctx(t).mode = "metalfx"
      /\ d \in Descs /\ Top(t).op # "destroy" /\ d.on \in BOOLEAN
      /\ d.swapchain \in Swapchains \cup {None}
  BY <1>1, TranslatesFacts
<1>4. /\ MayChange(t, Here(t)) /\ Ctx(t) = context[Here(t)] /\ Ctx(t) \in Context
      /\ Here(t) \in Contexts /\ Depth(t) = 1 /\ holder[Here(t)] = t
      /\ Top(t) \in Frame /\ Top(t) = stack[t][1] /\ Here(t) = Top(t).context
      /\ FrameOK(Top(t)) /\ Top(t).pc \notin Backs
  BY <1>3 DEF Holding
<1>5. TypeOK /\ StacksOK
  BY DEF Core
<1>6. /\ x \in Context /\ x.state = Ctx(t).state /\ x.refs = Ctx(t).refs
      /\ x.closing = Ctx(t).closing /\ x.mode = Ctx(t).mode
      /\ x.binding = old /\ x.swapchain = d.swapchain
      /\ x.enabled = Ctx(t).enabled /\ x.translated = Ctx(t).translated
      /\ x.translating = (Ctx(t).translating \/ d.on)
  <2> PICK y : y = (Ctx(t).translating \/ d.on)
    OBVIOUS
  <2> PICK z : z = (Ctx(t).snapshots \/ d.on)
    OBVIOUS
  <2>1. y \in BOOLEAN
    OBVIOUS
  <2>2. z \in BOOLEAN
    OBVIOUS
  <2>3. x = [Ctx(t) EXCEPT !.swapchain = d.swapchain, !.translating = y, !.snapshots = z]
    OBVIOUS
  <2>4. /\ x \in Context /\ x.state = Ctx(t).state /\ x.refs = Ctx(t).refs
        /\ x.closing = Ctx(t).closing /\ x.mode = Ctx(t).mode
        /\ x.binding = old /\ x.swapchain = d.swapchain
        /\ x.enabled = Ctx(t).enabled /\ x.translated = Ctx(t).translated
        /\ x.translating = y
    BY <1>3, <1>4, <2>1, <2>2, <2>3 DEF Context
  <2> QED BY <2>4
<1>7. d.swapchain # None
  BY <1>1 DEF OnSwapchain
<1>8. old # None => old \in Bindings /\ binding[old].context = Here(t)
  BY <1>4, <1>5 DEF Data, BindingsOwned, Context
<1>9. /\ BindingsKept(Here(t)) /\ binding' \in [Bindings -> Binding]
      /\ binding'[b].context = Here(t)
      /\ x.binding # None => binding'[x.binding].context = Here(t)
  <2>1. CASE b = old /\ UNCHANGED binding
    <3>1. b # None
      BY <1>2, NoneAssumption
    <3> QED BY <1>5, <1>6, <1>8, <2>1, <3>1, SameBindings DEF TypeOK
  <2>2. CASE binding[b] = FreeBinding /\ binding' = Made(t, b)
    <3>1. /\ BindingsKept(Here(t)) /\ binding' \in [Bindings -> Binding]
          /\ binding'[b].context = Here(t)
          /\ \A a \in Bindings : a # b => binding'[a] = binding[a]
      BY <1>2, <1>3, <2>2, MadeFacts
    <3> QED BY <1>6, <1>8, <3>1
  <2> QED BY <1>2, <2>1, <2>2
<1>10. PICK f : f = Installs(t, b)
  OBVIOUS
<1>11. /\ f \in Frame /\ f.pc = "set_config" /\ f.op = Top(t).op
       /\ f.context = Here(t) /\ f.swapchain = d.swapchain /\ f.binding = b
       /\ f.desc = d
  BY <1>3, <1>4, <1>10 DEF Frame, PC, Locked, Installs
<1>12. MoveStep(t, f)
  <2>1. stack' = Changed(t, f)
    BY <1>2, <1>4, <1>10 DEF Changed, Installs
  <2> QED BY <1>4, <1>5, <1>11, <2>1, MoveFacts
<1>13. FrameOK(f)
  BY <1>3, <1>4, <1>11 DEF FrameOK, Destroying
<1>14. GoesOn(t, f)
  BY <1>4, <1>11, <1>13 DEF GoesOn
<1>15. Continues(t, f) /\ holder'[Here(t)] = t
  BY <1>1, <1>4, <1>5, <1>11, <1>12, <1>14, LockedFacts DEF Locked
<1>16. context'[Here(t)] = x
  BY <1>1, <1>4, <1>5 DEF SetContext, TypeOK
<1>17. CallReady(f)'
  <2>1. b # None
    BY <1>2, NoneAssumption
  <2>2. d.on => x.translating
    BY <1>6
  <2> QED BY <1>3, <1>6, <1>7, <1>9, <1>11, <1>16, <2>1, <2>2 DEF CallReady
<1>18. Keeps(t, x) /\ WorkStep(t, x)
  BY <1>1, <1>5, <1>6, SameWork DEF Keeps
<1>19. ClaimKept(Here(t), x.swapchain)
  BY <1>1, <1>3, <1>6, NewClaim
<1>20. ModeOK(t, x)
  BY <1>3, <1>6 DEF ModeOK
<1>21. ToldOK(t, x)
  <2>1. t # None
    BY NoneAssumption
  <2>2. x.translated /\ x.enabled => x.translating
    BY <1>3, <1>6, Told
  <2> QED BY <1>15, <2>1, <2>2 DEF ToldOK
<1> QED BY <1>1, <1>4, <1>9, <1>15, <1>17, <1>18, <1>19, <1>20, <1>21, Configures

(* Frames move on at set_config. *)
LEMMA InstallConfigStep ==
  ASSUME Core, Data, NEW t \in Threads, InstallConfig(t)
  PROVE  Core' /\ Data'
<1>1. /\ At(t, "set_config") /\ SetConfig(Top(t).swapchain, Top(t).binding)
      /\ stack' = Goto(t, "installed")
      /\ UNCHANGED <<context, holder, binding, work, failed>>
  BY DEF InstallConfig
<1>2. Holding(t) /\ Top(t).pc = "set_config"
  BY <1>1, HoldingFacts DEF Locked
<1>3. /\ TypeOK /\ StacksOK /\ Depth(t) = 1 /\ holder[Here(t)] = t
      /\ Top(t) \in Frame /\ Top(t).desc \in Descs /\ Top(t).op # "destroy"
      /\ Here(t) = Top(t).context
  BY <1>2 DEF Core, Holding, FrameOK
<1>4. PICK f : /\ MoveStep(t, f) /\ GoesOn(t, f) /\ f.pc = "installed"
               /\ f.desc = Top(t).desc
               /\ f.binding = Top(t).binding /\ f.swapchain = Top(t).swapchain
               /\ f.context = Here(t)
  <2>1. "installed" \in PC /\ "installed" \notin Destroying
    BY DEF PC, Locked, Destroying
  <2> QED BY <1>1, <1>2, <1>3, <2>1, GotoContinues
<1>5. /\ Top(t).binding \in Bindings /\ Serves(Top(t).binding, Here(t))
      /\ CallReady(Top(t)) /\ Top(t).swapchain \in Swapchains
  <2>1. CallReady(Top(t)) /\ Ctx(t) = context[Here(t)]
    BY <1>2 DEF Holding
  <2>2. Top(t).binding \in Bindings /\ Top(t).swapchain \in Swapchains
    BY <1>2, <1>3, <2>1 DEF Frame, CallReady
  <2>3. Top(t).binding \notin Unwrapped
    BY <2>2, NoneAssumption
  <2> QED BY <1>2, <1>3, <2>1, <2>2, <2>3 DEF Serves, CallReady
<1>6. Data' /\ RestTyped'
  <2>1. chain'[Top(t).swapchain] = Top(t).binding
    BY <1>1, <1>3, <1>5 DEF SetConfig, TypeOK
  <2>2. CallReady(f)'
    BY <1>1, <1>2, <1>3, <1>4, <1>5, <2>1 DEF CallReady
  <2>3. Data' /\ chain' \in [Swapchains -> Bindings \cup Unwrapped \cup {None}]
    BY <1>1, <1>2, <1>4, <1>5, <2>2, ChainData DEF Holding
  <2> QED BY <1>1, <1>3, <2>3 DEF RestTyped, TypeOK
<1>7. Continues(t, f)
  BY <1>1, <1>3, <1>4, LockedFacts DEF Locked
<1>8. ContextsTyped' /\ \A c \in Contexts : LifeKept(c)
  BY <1>1, <1>3 DEF ContextsTyped, TypeOK, LifeKept
<1>9. Core'
  BY <1>6, <1>7, <1>8, MoveCore DEF Continues, LockOutcome
<1> QED BY <1>6, <1>9

(* detach_swapchain, at set_config. *)
LEMMA DetachStep ==
  ASSUME Core, Data, NEW t \in Threads, Detach(t)
  PROVE  Core' /\ Data'
<1>1. /\ At(t, "detach") /\ SetConfig(Top(t).swapchain, None)
      /\ stack' = Goto(t, "detaching")
      /\ UNCHANGED <<context, holder, binding, work, failed>>
  BY DEF Detach
<1>2. Holding(t) /\ Top(t).pc = "detach"
  BY <1>1, HoldingFacts DEF Locked
<1>3. /\ TypeOK /\ StacksOK /\ Depth(t) = 1 /\ holder[Here(t)] = t
      /\ Top(t) \in Frame /\ Here(t) = Top(t).context
  BY <1>2 DEF Core, Holding
<1>4. PICK f : /\ MoveStep(t, f) /\ GoesOn(t, f) /\ f.pc = "detaching"
               /\ f.desc = Top(t).desc
               /\ f.binding = Top(t).binding /\ f.swapchain = Top(t).swapchain
               /\ f.context = Here(t)
  <2>1. "detaching" \in PC /\ "detaching" \notin Destroying
    BY DEF PC, Locked, Destroying
  <2> QED BY <1>1, <1>2, <1>3, <2>1, GotoContinues
<1>5. Data' /\ RestTyped'
  <2>1. CallReady(Top(t)) /\ Top(t).swapchain \in Swapchains
    BY <1>2, <1>3 DEF Holding, Frame, CallReady
  <2>2. chain'[Top(t).swapchain] = None
    BY <1>1, <1>3, <2>1 DEF SetConfig, TypeOK
  <2>3. CallReady(f)'
    BY <1>1, <1>2, <1>3, <1>4, <2>1, <2>2 DEF CallReady
  <2>4. Serves(None, Here(t))
    BY NoneAssumption DEF Serves
  <2>5. Data' /\ chain' \in [Swapchains -> Bindings \cup Unwrapped \cup {None}]
    BY <1>1, <1>2, <1>4, <2>3, <2>4, ChainData DEF Holding
  <2> QED BY <1>1, <1>3, <2>5 DEF RestTyped, TypeOK
<1>6. Continues(t, f)
  BY <1>1, <1>3, <1>4, LockedFacts DEF Locked
<1>7. ContextsTyped' /\ \A c \in Contexts : LifeKept(c)
  BY <1>1, <1>3 DEF ContextsTyped, TypeOK, LifeKept
<1>8. Core'
  BY <1>5, <1>6, <1>7, MoveCore DEF Continues, LockOutcome
<1> QED BY <1>5, <1>8

(* set_config has returned: the old binding goes. *)
LEMMA InstalledStep ==
  ASSUME Core, Data, NEW t \in Threads, Installed(t)
  PROVE  Core' /\ Data'
<1> PICK d : d = Top(t).desc
  OBVIOUS
<1> PICK old : old = Ctx(t).binding
  OBVIOUS
<1> PICK nb : nb = Top(t).binding
  OBVIOUS
<1> PICK x : x = [Ctx(t) EXCEPT !.binding = nb, !.enabled = d.on, !.config = d]
  OBVIOUS
<1>1. /\ At(t, "installed") /\ binding' = Freed(old, nb) /\ SetContext(t, x)
      /\ UNCHANGED <<chain, work>>
      /\ \/ d.on /\ Configured(t)
         \/ ~d.on /\ stack' = Goto(t, "off") /\ UNCHANGED <<holder, failed>>
  BY DEF Installed
<1>2. Holding(t) /\ Top(t).pc = "installed"
  BY <1>1, HoldingFacts DEF Locked
<1>3. /\ MayChange(t, Here(t)) /\ Ctx(t) = context[Here(t)] /\ Ctx(t) \in Context
      /\ Here(t) \in Contexts /\ Depth(t) = 1 /\ holder[Here(t)] = t
      /\ Top(t) \in Frame /\ Here(t) = Top(t).context /\ Ctx(t).state = "listed"
      /\ FrameOK(Top(t)) /\ CallReady(Top(t)) /\ Top(t).pc \notin Backs
      /\ Top(t).op # "destroy"
  BY <1>2 DEF Holding
<1>4. TypeOK /\ StacksOK
  BY DEF Core
<1>5. d \in Descs /\ d.on \in BOOLEAN
  BY <1>2, <1>3, DescAssumption DEF FrameOK
<1>6. /\ nb # None /\ nb \in Bindings /\ binding[nb].context = Here(t)
      /\ Ctx(t).mode = "metalfx" /\ (d.on /\ Ctx(t).translated => Ctx(t).translating)
      /\ Ctx(t).swapchain = Top(t).swapchain
      /\ chain[Top(t).swapchain] = nb
  BY <1>2, <1>3 DEF CallReady, Frame
<1>7. /\ old \in Bindings \cup {None}
      /\ old # None => binding[old].context = Here(t)
  BY <1>3 DEF Context, Data, BindingsOwned
<1>8. ASSUME NEW s \in Swapchains, chain[s] \in Bindings, chain[s] = old
      PROVE  old = nb
  <2>1. Caller(s) = Here(t) /\ chain[s] # None
    BY <1>7, <1>8, NoneAssumption DEF Caller
  <2>2. Ctx(t).swapchain = s
    BY <1>3, <1>8, <2>1 DEF Data, ChainOwned
  <2> QED BY <1>6, <1>8, <2>2
<1>9. /\ BindingsKept(Here(t)) /\ binding' \in [Bindings -> Binding]
      /\ binding'[nb] = binding[nb]
  BY <1>1, <1>3, <1>6, <1>7, <1>8, FreedFacts
<1>10. /\ x \in Context /\ x.state = Ctx(t).state /\ x.refs = Ctx(t).refs
       /\ x.closing = Ctx(t).closing /\ x.mode = "metalfx"
       /\ x.binding = nb /\ x.swapchain = Ctx(t).swapchain
       /\ x.enabled = d.on /\ x.translated = Ctx(t).translated
       /\ x.translating = Ctx(t).translating
  BY <1>3, <1>5, <1>6 DEF Context
<1>11. Keeps(t, x) /\ WorkStep(t, x) /\ ClaimKept(Here(t), x.swapchain)
  BY <1>1, <1>3, <1>4, <1>10, SameWork, SameClaim DEF Keeps
<1>12. ModeOK(t, x) /\ (x.binding # None => binding'[x.binding].context = Here(t))
  BY <1>2, <1>6, <1>9, <1>10 DEF ModeOK
<1>13. context'[Here(t)] = x
  BY <1>1, <1>3, <1>4 DEF SetContext, TypeOK
<1>14. CASE d.on /\ Configured(t)
  <2>1. PICK f : Continues(t, f) /\ f.pc \notin Telling
    BY <1>3, <1>4, <1>14, ConfiguredEnds DEF Ends
  <2>2. CallReady(f)'
    BY <2>1, NotTelling
  <2>3. ToldOK(t, x)
    BY <1>6, <1>10, <1>14 DEF ToldOK
  <2> QED BY <1>1, <1>3, <1>9, <1>11, <1>12, <2>1, <2>2, <2>3, Configures
<1>15. CASE ~d.on /\ stack' = Goto(t, "off") /\ UNCHANGED <<holder, failed>>
  <2>1. PICK f : /\ MoveStep(t, f) /\ GoesOn(t, f) /\ f.pc = "off"
                 /\ f.context = Here(t)
    <3>1. "off" \in PC /\ "off" \notin Destroying
      BY DEF PC, Locked, Destroying
    <3> QED BY <1>3, <1>4, <1>5, <1>15, <3>1, GotoContinues
  <2>2. Continues(t, f) /\ holder'[Here(t)] = t
    BY <1>3, <1>4, <1>15, <2>1, LockedFacts DEF Locked
  <2>3. CallReady(f)'
    BY <1>10, <1>13, <1>15, <2>1 DEF CallReady
  <2>4. ToldOK(t, x)
    <3>1. t # None
      BY NoneAssumption
    <3> QED BY <1>10, <1>15, <2>2, <3>1 DEF ToldOK
  <2> QED BY <1>1, <1>3, <1>9, <1>11, <1>12, <2>2, <2>3, <2>4, Configures
<1> QED BY <1>1, <1>14, <1>15

(* Generation is turned off. *)
LEMMA TurnOffStep ==
  ASSUME Core, Data, NEW t \in Threads, NEW waited \in BOOLEAN, TurnOff(t, waited)
  PROVE  Core' /\ Data'
<1>1. At(t, "off") /\ UNCHANGED <<binding, chain, work>>
  BY DEF TurnOff
<1>2. PICK ok \in BOOLEAN :
        /\ ok => waited
        /\ SetContext(t, [Ctx(t) EXCEPT !.snapshots = @ /\ ~waited,
                                        !.translating = @ /\ ~ok])
        /\ IF ok THEN Configured(t) ELSE Failed(t)
  BY DEF TurnOff
<1>3. Holding(t) /\ Top(t).pc = "off"
  BY <1>1, HoldingFacts DEF Locked
<1>4. /\ MayChange(t, Here(t)) /\ Ctx(t) = context[Here(t)] /\ Ctx(t) \in Context
      /\ Here(t) \in Contexts /\ Depth(t) = 1 /\ holder[Here(t)] = t
      /\ Here(t) = Top(t).context /\ Top(t).pc \notin Backs /\ Top(t).op # "destroy"
      /\ CallReady(Top(t))
  BY <1>3 DEF Holding
<1>5. TypeOK /\ StacksOK
  BY DEF Core
<1>6. ~Ctx(t).enabled
  BY <1>3, <1>4 DEF CallReady
<1> PICK y : y = (Ctx(t).snapshots /\ ~waited)
  OBVIOUS
<1> PICK z : z = (Ctx(t).translating /\ ~ok)
  OBVIOUS
<1>7. y \in BOOLEAN
  OBVIOUS
<1>8. z \in BOOLEAN
  OBVIOUS
<1>9. (y => Ctx(t).snapshots) /\ (z => Ctx(t).translating) /\ (ok => ~y /\ ~z)
  BY <1>2
<1> PICK x : x = [Ctx(t) EXCEPT !.snapshots = y, !.translating = z]
  OBVIOUS
<1>10. SetContext(t, x)
  BY <1>2
<1>11. /\ x \in Context /\ x.state = Ctx(t).state /\ x.refs = Ctx(t).refs
       /\ x.closing = Ctx(t).closing /\ x.mode = Ctx(t).mode
       /\ x.binding = Ctx(t).binding /\ x.swapchain = Ctx(t).swapchain
       /\ x.enabled = Ctx(t).enabled /\ x.translating = z /\ x.snapshots = y
  BY <1>4, <1>7, <1>8 DEF Context
<1>12. Keeps(t, x) /\ WorkStep(t, x) /\ ClaimKept(Here(t), x.swapchain)
  BY <1>1, <1>4, <1>5, <1>11, SameWork, SameClaim DEF Keeps
<1>13. ModeOK(t, x)
  BY <1>3, <1>4, <1>9, <1>11, SameMode DEF ModeOK
<1>14. Ends(t) /\ (ok \/ failed'[Here(t)])
  BY <1>2, <1>4, <1>5, ConfiguredEnds, FailedEnds
<1>15. ToldOK(t, x)
  BY <1>6, <1>9, <1>11, <1>14 DEF ToldOK
<1> QED BY <1>1, <1>4, <1>10, <1>11, <1>12, <1>13, <1>14, <1>15, EndStep

(* detach_swapchain returns: the call is over only without an error. *)
LEMMA AfterDetachEnds ==
  ASSUME TypeOK, StacksOK, NEW t \in Threads, Holding(t), Top(t).pc = "detaching",
         NEW ok \in BOOLEAN, AfterDetach(t, ok)
  PROVE  Ends(t) /\ (holder'[Here(t)] = None /\ ~failed'[Here(t)] => ok)
<1>1. /\ Depth(t) = 1 /\ holder[Here(t)] = t /\ Top(t).pc \notin Backs
      /\ Here(t) = Top(t).context
  BY DEF Holding
<1>2. /\ "release" \notin Telling /\ "detached" \notin Telling /\ "configuring" \notin Telling
      /\ "configuring" \in PC /\ "configuring" \in Locked
      /\ "configuring" \notin Destroying
  BY DEF Telling, PC, Locked, Destroying
<1>3. CASE Top(t).op = "destroy" /\ Unlocked(t, "detached", ~ok)
  <2>1. PICK e \in BOOLEAN : e = ~ok
    OBVIOUS
  <2>2. Unlocked(t, "detached", e)
    BY <1>3, <2>1
  <2>3. /\ holder'[Here(t)] = None /\ (failed'[Here(t)] <=> e)
        /\ \E f : Continues(t, f) /\ f.pc = "detached" /\ f.context = Here(t)
    BY <1>1, <1>3, <2>2, UnlockedFacts
  <2> QED BY <1>2, <2>1, <2>3 DEF Ends
<1>4. CASE /\ Top(t).op # "destroy" /\ ok
           /\ stack' = Goto(t, "configuring")
           /\ UNCHANGED <<holder, failed>>
  <2>1. PICK f : /\ MoveStep(t, f) /\ GoesOn(t, f) /\ f.pc = "configuring"
                 /\ f.context = Here(t)
    BY <1>1, <1>2, <1>4, GotoContinues
  <2>2. Continues(t, f)
    BY <1>1, <1>2, <1>4, <2>1, LockedFacts
  <2> QED BY <1>2, <1>4, <2>1, <2>2 DEF Ends
<1>5. CASE Top(t).op # "destroy" /\ ~ok /\ Failed(t)
  BY <1>1, <1>5, FailedEnds
<1> QED BY <1>3, <1>4, <1>5 DEF AfterDetach

(* A context that is detaching is not called back. *)
LEMMA DetachingQuiet ==
  ASSUME Core, Data, NEW t \in Threads, Holding(t), Top(t).pc = "detaching"
  PROVE  \A s \in Swapchains : chain[s] # None => Caller(s) # Here(t)
<1>1. /\ Ctx(t) = context[Here(t)] /\ Here(t) = Top(t).context /\ CallReady(Top(t))
      /\ Ctx(t).state = "listed"
  BY DEF Holding
<1>2. chain[Ctx(t).swapchain] = None
  BY <1>1 DEF CallReady
<1> QED BY <1>1, <1>2 DEF Data, ChainOwned

(* detach_swapchain, after wait_for_presents. *)
LEMMA DetachWaitStep ==
  ASSUME Core, Data, NEW t \in Threads, NEW waited \in BOOLEAN, DetachWait(t, waited)
  PROVE  Core' /\ Data'
<1>1. At(t, "detaching") /\ UNCHANGED <<chain, work>>
  BY DEF DetachWait
<1>2. PICK ok \in BOOLEAN :
        /\ ok => waited
        /\ SetContext(t, Detached(t, waited, ok))
        /\ binding' = IF waited THEN Freed(Ctx(t).binding, None) ELSE binding
        /\ AfterDetach(t, ok)
  BY DEF DetachWait
<1>3. Holding(t) /\ Top(t).pc = "detaching"
  BY <1>1, HoldingFacts DEF Locked
<1>4. /\ MayChange(t, Here(t)) /\ Ctx(t) = context[Here(t)] /\ Ctx(t) \in Context
      /\ Here(t) \in Contexts
  BY <1>3 DEF Holding
<1>5. TypeOK /\ StacksOK
  BY DEF Core
<1>6. PICK f : /\ Continues(t, f) /\ f.pc \notin Telling
               /\ (holder'[Here(t)] = None /\ ~failed'[Here(t)] => ok)
  BY <1>2, <1>3, <1>5, AfterDetachEnds DEF Ends
<1>7. CallReady(f)'
  BY <1>6, NotTelling
<1>8. CASE waited
  <2> PICK y : y = (Ctx(t).translating /\ ~(Ctx(t).mode = "metalfx" /\ ok))
    OBVIOUS
  <2>1. y \in BOOLEAN
    OBVIOUS
  <2>2. (y => Ctx(t).translating) /\ (Ctx(t).mode = "metalfx" /\ ok => ~y)
    OBVIOUS
  <2> PICK x : x = [Ctx(t) EXCEPT !.swapchain = None, !.binding = None, !.config = None,
                      !.snapshots = FALSE, !.enabled = FALSE, !.translating = y]
    OBVIOUS
  <2>3. SetContext(t, x)
    BY <1>2, <1>8 DEF Detached
  <2>4. /\ x \in Context /\ x.state = Ctx(t).state /\ x.refs = Ctx(t).refs
        /\ x.closing = Ctx(t).closing /\ x.mode = Ctx(t).mode
        /\ x.binding = None /\ x.swapchain = None
        /\ x.enabled = FALSE /\ x.translating = y /\ x.snapshots = FALSE
    BY <1>4, <2>1 DEF Context
  <2>5. \A s \in Swapchains : chain[s] # None => Caller(s) # Here(t)
    BY <1>3, DetachingQuiet
  <2>6. /\ Ctx(t).binding \in Bindings \cup {None}
        /\ Ctx(t).binding # None => binding[Ctx(t).binding].context = Here(t)
    BY <1>4 DEF Context, Data, BindingsOwned
  <2>7. BindingsKept(Here(t)) /\ binding' \in [Bindings -> Binding]
    <3>1. \A s \in Swapchains : chain[s] \in Bindings => chain[s] # Ctx(t).binding
      BY <2>5, <2>6, NoneAssumption DEF Caller
    <3> QED BY <1>2, <1>4, <1>8, <2>6, <3>1, FreedFacts
  <2>8. Keeps(t, x) /\ WorkStep(t, x)
    BY <1>1, <1>4, <1>5, <2>4, SameWork DEF Keeps
  <2>9. ClaimKept(Here(t), x.swapchain)
    BY <2>4, <2>5 DEF ClaimKept
  <2>10. ModeOK(t, x)
    BY <1>3, <1>4, <2>2, <2>4, SameMode DEF ModeOK
  <2>11. ToldOK(t, x)
    BY <1>6, <2>2, <2>4 DEF ToldOK
  <2> QED BY <1>1, <1>4, <1>6, <1>7, <2>3, <2>4, <2>7, <2>8, <2>9, <2>10, <2>11, Configures
<1>9. CASE ~waited
  <2>1. Ends(t)
    BY <1>2, <1>3, <1>5, AfterDetachEnds
  <2>2. failed'[Here(t)] \/ holder'[Here(t)] # None
    BY <1>2, <1>6, <1>9
  <2>3. SetContext(t, Ctx(t)) /\ binding' = binding
    BY <1>2, <1>9 DEF Detached
  <2>4. Keeps(t, Ctx(t)) /\ WorkStep(t, Ctx(t)) /\ ClaimKept(Here(t), Ctx(t).swapchain)
    BY <1>1, <1>4, <1>5, SameWork, SameClaim DEF Keeps
  <2>5. ModeOK(t, Ctx(t))
    BY <1>3, <1>4, SameMode
  <2>6. ToldOK(t, Ctx(t))
    BY <1>3, <2>2, Told DEF ToldOK
  <2> QED BY <1>1, <1>4, <2>1, <2>3, <2>4, <2>5, <2>6, EndStep
<1> QED BY <1>8, <1>9

-----------------------------------------------------------------------------
(* Steps that configure nothing. *)

(* A call goes on and says nothing of the data. *)
LEMMA QuietMove ==
  ASSUME Core, Data, NEW t \in Threads, NEW f, MoveStep(t, f), GoesOn(t, f),
         f.pc \notin Telling, f.pc = "destroying" => Ctx(t).refs = 1,
         Top(t).pc # "prepared",
         f.pc = "dispatching" /\ Depth(t) = 1 => context[f.context].mode # "pending",
         HandsOver(t, Depth(t)), f.pc \in Locked => holder'[f.context] = t,
         UNCHANGED <<context, binding, chain>>, RestTyped', NoNewSuccess, WorkKept
  PROVE  Core' /\ Data'
<1>1. TypeOK
  BY DEF Core
<1>2. ContextsTyped' /\ \A c \in Contexts : LifeKept(c) /\ DataKept(c)
  BY <1>1 DEF ContextsTyped, TypeOK, LifeKept, DataKept
<1>3. Core'
  BY <1>2, MoveCore
<1>4. OldFrames(t, Depth(t)) /\ Depth(t)' = Depth(t) /\ stack'[t][Depth(t)'] = f
  BY <1>1, MoveFrames
<1>5. \A i \in 1..Depth(t)' : i = Depth(t) => stack'[t][i].pc \notin Telling
  BY <1>4
<1>6. NewChosen(t, Depth(t)) /\ OnlyStack(t) /\ ~At(t, "prepared")
  BY <1>4 DEF NewChosen, MoveStep, At
<1>7. Data'
  BY <1>1, <1>2, <1>4, <1>5, <1>6, QuietData
<1> QED BY <1>3, <1>7

(* Places a call goes to without the lock. *)
Resting == {"release", "dispatching", "detached", "unreferenced", "destroying"}

(* A call goes on without the lock. *)
LEMMA QuietGoto ==
  ASSUME Core, Data, NEW t \in Threads, Depth(t) > 0, NEW pc \in Resting,
         stack' = Goto(t, pc), Top(t).pc \notin Backs \cup {"prepared"},
         Top(t).op = "destroy" <=> pc \in Destroying,
         Depth(t) = 1 \/ pc \in InCalls, pc = "destroying" => Ctx(t).refs = 1,
         pc = "dispatching" => /\ Top(t).op = "dispatch"
                               /\ Depth(t) = 1 => Ctx(t).mode # "pending",
         UNCHANGED <<context, holder, binding, chain, failed>>,
         work' \in [Contexts -> SUBSET {"metalfx", "native"}], WorkKept
  PROVE  Core' /\ Data'
<1>1. TypeOK /\ StacksOK
  BY DEF Core
<1>2. /\ pc \in PC /\ pc \notin Backs /\ pc # "dispatch"
      /\ pc \notin {"set_config", "installed", "off", "native_config"}
      /\ pc \notin Telling /\ pc \notin Locked
  BY DEF Resting, PC, Telling, Locked
<1>3. PICK f : /\ MoveStep(t, f) /\ GoesOn(t, f) /\ f.pc = pc /\ f.context = Here(t)
  BY <1>1, <1>2, GotoContinues
<1>4. RestTyped' /\ HandsOver(t, Depth(t)) /\ NoNewSuccess
  BY <1>1 DEF TypeOK, RestTyped, HandsOver, NoNewSuccess
<1>5. f.pc = "dispatching" /\ Depth(t) = 1 => context[f.context].mode # "pending"
  BY <1>3 DEF Ctx
<1> QED BY <1>2, <1>3, <1>4, <1>5, QuietMove

(* No work is done. *)
LEMMA NoWork ==
  ASSUME TypeOK, UNCHANGED <<context, work>>
  PROVE  WorkKept /\ work' \in [Contexts -> SUBSET {"metalfx", "native"}]
BY DEF WorkKept, TypeOK

(* A call on top is not destroying unless it is there. *)
LEMMA OpFacts ==
  ASSUME Core, NEW t \in Threads, NEW pc, At(t, pc), pc \notin Backs
  PROVE  /\ Depth(t) > 0 /\ Top(t).pc = pc /\ FrameOK(Top(t)) /\ Top(t).op \notin Backs
         /\ pc \in Destroying => Top(t).op = "destroy"
         /\ pc \notin Destroying \cup {"detach", "detaching"} => Top(t).op # "destroy"
         /\ pc \notin InCalls => Depth(t) = 1
<1>1. Depth(t) > 0 /\ Top(t).pc = pc
  BY DEF At
<1>2. /\ FrameOK(Top(t))
      /\ Top(t).pc \notin InCalls \cup Backs => Depth(t) = 1
  BY <1>1, NestFacts DEF Core
<1> QED BY <1>1, <1>2 DEF FrameOK

(* configure_lock is taken, or the context is closing. *)
LEMMA ConfigureLockStep ==
  ASSUME Core, Data, NEW t \in Threads, ConfigureLock(t)
  PROVE  Core' /\ Data'
<1>1. /\ At(t, "configure") /\ holder[Here(t)] = None
      /\ UNCHANGED <<context, binding, chain, work, failed>>
  BY DEF ConfigureLock
<1>2. /\ Depth(t) > 0 /\ Top(t).pc = "configure" /\ FrameOK(Top(t))
      /\ Top(t).op # "destroy" /\ Depth(t) = 1 /\ Top(t).op \notin Backs
  BY <1>1, OpFacts DEF Destroying, InCalls
<1>3. TypeOK /\ StacksOK
  BY DEF Core
<1>4. WorkKept /\ work' \in [Contexts -> SUBSET {"metalfx", "native"}]
  BY <1>1, <1>3, NoWork
<1>5. CASE stack' = Goto(t, "release") /\ UNCHANGED holder
  <2>1. "release" \in Resting /\ "release" \notin Destroying
    BY DEF Resting, Destroying
  <2> QED BY <1>1, <1>2, <1>4, <1>5, <2>1, QuietGoto
<1>6. CASE holder' = [holder EXCEPT ![Here(t)] = t] /\ stack' = Goto(t, "configuring")
  <2>1. /\ "configuring" \in PC /\ "configuring" \notin Telling
        /\ "configuring" \notin Destroying /\ "configuring" \in Locked
    BY DEF PC, Telling, Destroying, Locked
  <2>2. PICK f : /\ MoveStep(t, f) /\ GoesOn(t, f) /\ f.pc = "configuring"
                 /\ f.context = Here(t)
    BY <1>2, <1>3, <1>6, <2>1, GotoContinues
  <2>3. Continues(t, f) /\ holder'[Here(t)] = t
    BY <1>1, <1>2, <1>3, <1>6, <2>1, <2>2, LockedFacts
  <2>4. CallReady(f)'
    BY <2>1, <2>2, NotTelling
  <2>5. MayChange(t, Here(t)) /\ WorkStep(t, Ctx(t))
    BY <1>1, <1>2, <1>3, SameWork DEF MayChange
  <2> QED BY <1>1, <1>2, <2>3, <2>4, <2>5, LockedUnchanged
<1> QED BY <1>5, <1>6 DEF ConfigureLock

(* A dispatch is refused. *)
LEMMA DispatchRejectedStep ==
  ASSUME Core, Data, NEW t \in Threads, DispatchRejected(t)
  PROVE  Core' /\ Data'
<1>1. /\ At(t, "dispatch") /\ stack' = Goto(t, "release")
      /\ UNCHANGED <<context, holder, binding, chain, work, failed>>
  BY DEF DispatchRejected
<1>2. Depth(t) > 0 /\ Top(t).pc = "dispatch" /\ Top(t).op # "destroy"
  BY <1>1, OpFacts DEF Destroying
<1>3. WorkKept /\ work' \in [Contexts -> SUBSET {"metalfx", "native"}]
  BY <1>1, NoWork DEF Core
<1>4. "release" \in Resting /\ "release" \notin Destroying /\ "release" \in InCalls
  BY DEF Resting, Destroying, InCalls
<1> QED BY <1>1, <1>2, <1>3, <1>4, QuietGoto

(* The mode was chosen before. *)
LEMMA ModeChosenStep ==
  ASSUME Core, Data, NEW t \in Threads, ModeChosen(t)
  PROVE  Core' /\ Data'
<1>1. /\ At(t, "dispatch") /\ stack' = Goto(t, "dispatching")
      /\ UNCHANGED <<context, holder, binding, chain, work, failed>>
  BY DEF ModeChosen
<1>2. /\ Depth(t) > 0 /\ Top(t).pc = "dispatch" /\ Top(t).op # "destroy"
      /\ Top(t).op = "dispatch"
  BY <1>1, OpFacts DEF Destroying, FrameOK
<1>3. WorkKept /\ work' \in [Contexts -> SUBSET {"metalfx", "native"}]
  BY <1>1, NoWork DEF Core
<1>4. /\ "dispatching" \in Resting /\ "dispatching" \notin Destroying
      /\ "dispatching" \in InCalls
  BY DEF Resting, Destroying, InCalls
<1>5. Depth(t) = 1 => Ctx(t).mode # "pending"
  <2>1. Depth(t) = 1 => ~InCallback(t)
    BY <1>2 DEF InCallback, Top
  <2> QED BY <2>1 DEF ModeChosen, SkipsLock
<1> QED BY <1>1, <1>2, <1>3, <1>4, <1>5, QuietGoto

(* One provider runs. *)
LEMMA DispatchStep ==
  ASSUME Core, Data, NEW t \in Threads, Dispatch(t)
  PROVE  Core' /\ Data'
<1>1. /\ At(t, "dispatching") /\ stack' = Goto(t, "release")
      /\ work' = [work EXCEPT ![Here(t)] = @ \cup Runs(t)]
      /\ UNCHANGED <<context, holder, binding, chain, failed>>
  BY DEF Dispatch
<1>2. Depth(t) > 0 /\ Top(t).pc = "dispatching" /\ Top(t).op # "destroy"
  BY <1>1, OpFacts DEF Destroying
<1>3. TypeOK
  BY DEF Core
<1>4. Here(t) \in Contexts /\ Ctx(t) = context[Here(t)]
  BY <1>2, <1>3, TopFacts
<1>5. /\ Runs(t) \subseteq {"metalfx", "native"}
      /\ "metalfx" \in Runs(t) => Ctx(t).mode = "metalfx"
  BY DEF Runs
<1>6. work' \in [Contexts -> SUBSET {"metalfx", "native"}]
  BY <1>1, <1>3, <1>4, <1>5 DEF TypeOK
<1>7. WorkKept
  BY <1>1, <1>3, <1>4, <1>5 DEF WorkKept, TypeOK
<1>8. "release" \in Resting /\ "release" \notin Destroying /\ "release" \in InCalls
  BY DEF Resting, Destroying, InCalls
<1> QED BY <1>1, <1>2, <1>6, <1>7, <1>8, QuietGoto

(* ffxDestroyContext takes the lock to detach, if there is a claim. *)
LEMMA DestroyLockStep ==
  ASSUME Core, Data, NEW t \in Threads, DestroyLock(t)
  PROVE  Core' /\ Data'
<1>1. /\ At(t, "destroy") /\ holder[Here(t)] = None
      /\ UNCHANGED <<context, binding, chain, work, failed>>
  BY DEF DestroyLock
<1>2. /\ Depth(t) > 0 /\ Top(t).pc = "destroy" /\ Top(t).op = "destroy"
      /\ Depth(t) = 1 /\ Top(t).op \notin Backs
  BY <1>1, OpFacts DEF Destroying, InCalls
<1>3. TypeOK /\ StacksOK
  BY DEF Core
<1>4. WorkKept /\ work' \in [Contexts -> SUBSET {"metalfx", "native"}]
  BY <1>1, <1>3, NoWork
<1>5. CASE stack' = Goto(t, "detached") /\ UNCHANGED holder
  <2>1. "detached" \in Resting /\ "detached" \in Destroying
    BY DEF Resting, Destroying
  <2> QED BY <1>1, <1>2, <1>4, <1>5, <2>1, QuietGoto
<1>6. CASE /\ Ctx(t).swapchain # None
           /\ holder' = [holder EXCEPT ![Here(t)] = t]
           /\ stack' = [stack EXCEPT ![t][Depth(t)] =
                          [@ EXCEPT !.pc = "detach", !.swapchain = Ctx(t).swapchain]]
  <2>1. stack' = Changed(t, Detaches(t))
    <3>1. Top(t) = stack[t][Depth(t)]
      BY DEF Top
    <3> QED BY <1>6, <3>1 DEF Changed, Detaches
  <2>2. PICK f : Continues(t, f) /\ CallReady(f)' /\ holder'[Here(t)] = t
    BY <1>1, <1>2, <1>3, <1>6, <2>1, DetachesFacts
  <2>3. MayChange(t, Here(t)) /\ WorkStep(t, Ctx(t))
    BY <1>1, <1>2, <1>3, SameWork DEF MayChange
  <2> QED BY <1>1, <1>2, <2>2, <2>3, LockedUnchanged
<1> QED BY <1>5, <1>6 DEF DestroyLock

(* Everybody else has left. *)
LEMMA DestroyWaitStep ==
  ASSUME Core, Data, NEW t \in Threads, DestroyWait(t)
  PROVE  Core' /\ Data'
<1>1. /\ At(t, "unreferenced") /\ Ctx(t).refs = 1 /\ stack' = Goto(t, "destroying")
      /\ UNCHANGED <<context, holder, binding, chain, work, failed>>
  BY DEF DestroyWait, LastReference
<1>2. /\ Depth(t) > 0 /\ Top(t).pc = "unreferenced" /\ Top(t).op = "destroy"
      /\ Depth(t) = 1
  BY <1>1, OpFacts DEF Destroying, InCalls
<1>3. WorkKept /\ work' \in [Contexts -> SUBSET {"metalfx", "native"}]
  BY <1>1, NoWork DEF Core
<1>4. "destroying" \in Resting /\ "destroying" \in Destroying
  BY DEF Resting, Destroying
<1> QED BY <1>1, <1>2, <1>3, <1>4, QuietGoto

(* The call dispatches outside callbacks, and nobody configures. *)
LEMMA FirstPrepareFacts ==
  ASSUME Core, Data, NEW t \in Threads, At(t, "dispatch"), ~SkipsLock(t),
         holder[Here(t)] = None, Ctx(t).mode = "pending"
  PROVE  /\ Depth(t) = 1 /\ Top(t).op # "destroy" /\ Top(t).op \notin Backs
         /\ Top(t).pc = "dispatch" /\ MayChange(t, Here(t))
         /\ Here(t) \in Contexts /\ Ctx(t) = context[Here(t)] /\ Ctx(t) \in Context
<1>1. /\ Depth(t) > 0 /\ Top(t).pc = "dispatch" /\ Top(t).op # "destroy"
      /\ Top(t).op \notin Backs /\ Top(t).op = "dispatch"
  BY OpFacts DEF Destroying, FrameOK
<1>2. TypeOK /\ StacksOK
  BY DEF Core
<1>3. /\ Here(t) \in Contexts /\ Ctx(t) = context[Here(t)] /\ Ctx(t) \in Context
      /\ Top(t) = stack[t][Depth(t)] /\ Depth(t) \in Nat /\ Here(t) = Top(t).context
  BY <1>1, <1>2, TopFacts
<1>4. Depth(t) = 1
  <2> SUFFICES ASSUME Depth(t) # 1 PROVE FALSE
    OBVIOUS
  <2> PICK n : n = Depth(t)
    OBVIOUS
  <2>1. n \in 2..n /\ n - 1 \in 1..n /\ n \in Nat
    BY <1>1, <1>3
  <2>2. Nested(t, n)
    BY <1>2, <2>1 DEF StacksOK
  <2>3. stack[t][n - 1].pc \in Backs /\ OwnDispatch(stack[t][n], stack[t][n - 1])
    BY <1>1, <1>3, <2>2 DEF Nested
  <2>4. stack[t][n - 1].pc # "callback"
    BY <2>1 DEF SkipsLock, InCallback
  <2>5. stack[t][n - 1].context = Here(t)
    BY <1>1, <1>3, <2>3, <2>4 DEF OwnDispatch
  <2>6. CallbackBound(stack[t][n - 1])
    BY <2>1 DEF Data, CallsReady
  <2> QED BY <1>3, <2>3, <2>4, <2>5, <2>6 DEF CallbackBound
<1>5. MayChange(t, Here(t))
  BY <1>1, <1>4 DEF MayChange
<1> QED BY <1>1, <1>3, <1>4, <1>5

(* MetalFX takes the first frame. *)
LEMMA FirstMetalFX ==
  ASSUME Core, Data, NEW t \in Threads, At(t, "dispatch"), ~SkipsLock(t),
         holder[Here(t)] = None, Ctx(t).mode = "pending",
         work' = [work EXCEPT ![Here(t)] = @ \cup {"metalfx"}],
         holder' = [holder EXCEPT ![Here(t)] = t], stack' = Goto(t, "prepared"),
         UNCHANGED <<context, failed, binding, chain>>
  PROVE  Core' /\ Data'
<1>1. /\ Depth(t) = 1 /\ Top(t).op # "destroy" /\ Top(t).op \notin Backs
      /\ Top(t).pc = "dispatch" /\ MayChange(t, Here(t))
      /\ Here(t) \in Contexts /\ Ctx(t) = context[Here(t)] /\ Ctx(t) \in Context
  BY FirstPrepareFacts
<1>2. TypeOK /\ StacksOK
  BY DEF Core
<1>3. /\ "prepared" \in PC /\ "prepared" \notin Backs /\ "prepared" \in Locked
      /\ "prepared" \notin Destroying
  BY DEF PC, Destroying, Locked
<1>4. PICK f : /\ MoveStep(t, f) /\ GoesOn(t, f) /\ f.pc = "prepared"
               /\ f.context = Here(t)
  BY <1>1, <1>2, <1>3, GotoContinues
<1>5. Continues(t, f) /\ holder'[Here(t)] = t
  BY <1>1, <1>2, <1>3, <1>4, LockedFacts
<1>6. CallReady(f)'
  BY <1>1, <1>4 DEF CallReady
<1>7. WorkStep(t, Ctx(t))
  <2>1. work \in [Contexts -> SUBSET {"metalfx", "native"}]
    BY <1>2 DEF TypeOK
  <2>2. work' \in [Contexts -> SUBSET {"metalfx", "native"}]
    BY <1>1, <2>1
  <2>3. \A d \in Contexts : d # Here(t) => work'[d] = work[d]
    BY <1>1, <2>1
  <2>4. At(t, "prepared")' /\ Here(t)' = Here(t)
    <3>1. Depth(t)' = 1 /\ stack'[t][1] = f
      BY <1>1, <1>4 DEF MoveStep, Depth
    <3> QED BY <1>4, <3>1 DEF At, Here, Top
  <2>5. ASSUME NEW d \in Contexts, d = Here(t)
        PROVE  Unstored(d)'
    BY <2>4, <2>5 DEF Unstored
  <2> QED BY <2>2, <2>3, <2>5 DEF WorkStep
<1> QED BY <1>1, <1>5, <1>6, <1>7, LockedUnchanged

(* Its mode is stored. *)
LEMMA MetalFXChosenStep ==
  ASSUME Core, Data, NEW t \in Threads, MetalFXChosen(t)
  PROVE  Core' /\ Data'
<1>1. /\ At(t, "prepared") /\ SetContext(t, [Ctx(t) EXCEPT !.mode = "metalfx"])
      /\ UNCHANGED <<binding, chain, work>>
  BY DEF MetalFXChosen
<1>2. TypeOK /\ StacksOK
  BY DEF Core
<1>3. Holding(t) /\ Top(t).pc = "prepared"
  BY <1>1, HoldingFacts DEF Locked
<1>4. /\ Depth(t) = 1 /\ Top(t).op # "destroy" /\ MayChange(t, Here(t))
      /\ Here(t) \in Contexts /\ Ctx(t) = context[Here(t)] /\ Ctx(t) \in Context
      /\ Top(t) = stack[t][1] /\ holder[Here(t)] = t
  BY <1>3 DEF Holding
<1>5. Ctx(t).mode = "pending"
  BY <1>3 DEF Holding, CallReady
<1> PICK x : x = [Ctx(t) EXCEPT !.mode = "metalfx"]
  OBVIOUS
<1>6. /\ x \in Context /\ x.state = Ctx(t).state /\ x.refs = Ctx(t).refs
      /\ x.closing = Ctx(t).closing /\ x.mode = "metalfx"
      /\ x.binding = Ctx(t).binding /\ x.swapchain = Ctx(t).swapchain
      /\ x.enabled = Ctx(t).enabled /\ x.translating = Ctx(t).translating
      /\ x.snapshots = Ctx(t).snapshots
  BY <1>4 DEF Context, Mode
<1>7. SetContext(t, x)
  BY <1>1
<1>8. /\ Keeps(t, x) /\ ClaimKept(Here(t), x.swapchain) /\ ModeOK(t, x)
      /\ WorkStep(t, x)
  BY <1>1, <1>2, <1>4, <1>5, <1>6, SameClaim, SameWork DEF Keeps, ModeOK
<1>9. ~x.enabled /\ ~x.translating /\ ~x.snapshots
  BY <1>4, <1>5, <1>6 DEF Data, Undecided
<1>10. ToldOK(t, x)
  BY <1>9 DEF ToldOK
<1>11. CASE Ctx(t).config = None /\ Unlocked(t, "release", FALSE)
  <2>1. \E f : Continues(t, f) /\ f.pc = "release" /\ f.context = Here(t)
    BY <1>2, <1>3, <1>4, <1>11, UnlockedFacts
  <2>2. Ends(t)
    BY <2>1 DEF Ends, Telling
  <2> QED BY <1>1, <1>4, <1>6, <1>7, <1>8, <1>10, <2>2, EndStep
<1>12. CASE /\ stack' = [stack EXCEPT ![t][Depth(t)] =
                 [@ EXCEPT !.pc = "configuring", !.desc = Ctx(t).config]]
            /\ UNCHANGED <<holder, failed>>
  <2>1. stack' = Changed(t, Redirects(t, Ctx(t).config))
    BY <1>4, <1>12 DEF Changed, Redirects
  <2>2. Ctx(t).config \in Descs \cup {None}
    BY <1>4 DEF Context
  <2>3. PICK f : /\ MoveStep(t, f) /\ GoesOn(t, f) /\ f.pc = "configuring"
                 /\ f.context = Here(t)
    BY <1>2, <1>3, <1>4, <2>1, <2>2, RedirectsFacts
  <2>4. Continues(t, f)
    BY <1>2, <1>4, <1>12, <2>3, LockedFacts DEF Locked
  <2>5. Ends(t)
    BY <2>3, <2>4 DEF Ends, Telling
  <2> QED BY <1>1, <1>4, <1>6, <1>7, <1>8, <1>10, <2>5, EndStep
<1> QED BY <1>11, <1>12 DEF MetalFXChosen

(* The first Prepare. *)
LEMMA FirstPrepareStep ==
  ASSUME Core, Data, NEW t \in Threads, FirstPrepare(t)
  PROVE  Core' /\ Data'
<1>1. /\ At(t, "dispatch") /\ ~SkipsLock(t) /\ holder[Here(t)] = None
      /\ Ctx(t).mode = "pending" /\ UNCHANGED <<binding, chain>>
  BY DEF FirstPrepare
<1>2. /\ Depth(t) = 1 /\ Top(t).op # "destroy" /\ Top(t).op \notin Backs
      /\ Top(t).pc = "dispatch" /\ MayChange(t, Here(t)) /\ Here(t) \in Contexts
  BY <1>1, FirstPrepareFacts
<1>3. TypeOK
  BY DEF Core
<1>4. CASE stack' = Goto(t, "release") /\ UNCHANGED <<context, holder, work, failed>>
  <2>1. WorkKept /\ work' \in [Contexts -> SUBSET {"metalfx", "native"}]
    BY <1>3, <1>4, NoWork
  <2>2. "release" \in Resting /\ "release" \notin Destroying
    BY DEF Resting, Destroying
  <2> QED BY <1>1, <1>2, <1>4, <2>1, <2>2, QuietGoto
<1>5. CASE /\ SelectNative(t, None)
           /\ work' = [work EXCEPT ![Here(t)] = @ \cup {"native"}]
  <2>1. /\ work' \in [Contexts -> SUBSET {"metalfx", "native"}]
        /\ \A d \in Contexts : "metalfx" \in work'[d] => "metalfx" \in work[d]
    BY <1>2, <1>3, <1>5 DEF TypeOK
  <2> QED BY <1>1, <1>2, <1>5, <2>1, SelectNativeStep
<1>6. CASE /\ work' = [work EXCEPT ![Here(t)] = @ \cup {"metalfx"}]
           /\ holder' = [holder EXCEPT ![Here(t)] = t]
           /\ stack' = Goto(t, "prepared")
           /\ UNCHANGED <<context, failed>>
  BY <1>1, <1>6, FirstMetalFX
<1> QED BY <1>4, <1>5, <1>6 DEF FirstPrepare

-----------------------------------------------------------------------------
(* Calls begin and return. *)

(* The frame of a new call. *)
LEMMA NewFrameFacts ==
  ASSUME NEW op, NEW pc, NEW c \in Contexts,
         <<op, pc>> \in {<<"query", "release">>, <<"dispatch", "dispatch">>,
                         <<"destroy", "destroy">>},
         NEW f, f = NewFrame(op, pc, c)
  PROVE  FrameOK(f) /\ f.op = op /\ f.pc = pc /\ f.context = c
<1>1. /\ op \in {"configure", "dispatch", "destroy", "query", "callback", "unwrapped"}
      /\ pc \in PC
      /\ op \notin Backs /\ pc \notin Backs
      /\ op = "destroy" <=> pc \in Destroying
      /\ pc \in {"dispatch", "dispatching"} => op = "dispatch"
      /\ pc \notin {"set_config", "installed", "off", "native_config"}
  BY DEF PC, Destroying
<1>2. f \in Frame /\ f.op = op /\ f.pc = pc /\ f.context = c
  BY <1>1 DEF NewFrame, Frame
<1> QED BY <1>1, <1>2 DEF FrameOK

(* The frame of ffxConfigure. *)
ConfigureOn(c, d) == [NewFrame("configure", "configure", c) EXCEPT !.desc = d]

(* It waits for configure_lock. *)
LEMMA ConfigureFrame ==
  ASSUME NEW c \in Contexts, NEW d \in Descs \cup {None}, NEW f, f = ConfigureOn(c, d)
  PROVE  FrameOK(f) /\ f.op = "configure" /\ f.pc = "configure" /\ f.context = c
<1>1. f \in Frame /\ f.op = "configure" /\ f.pc = "configure" /\ f.context = c
  BY DEF ConfigureOn, NewFrame, Frame, PC
<1> QED BY <1>1 DEF FrameOK, Destroying

(* A count that changes leaves the data alone. *)
LEMMA CountedData ==
  ASSUME TypeOK, NEW c \in Contexts, NEW n,
         context' = [context EXCEPT ![c].refs = n] 
  PROVE  \A d \in Contexts : DataKept(d)
<1>1. \A d \in Contexts : context[d] \in Context
  BY DEF TypeOK
<1>2. \A d \in Contexts : d # c => context'[d] = context[d]
  BY DEF TypeOK
<1>3. context'[c] = [context[c] EXCEPT !.refs = n]
  BY DEF TypeOK
<1>4. DataKept(c)
  BY <1>1, <1>3 DEF DataKept, Context
<1> QED BY <1>2, <1>4 DEF DataKept

(* No call ends, nothing is dispatched, no binding changes. *)
LEMMA NothingElse ==
  ASSUME UNCHANGED <<holder, work, failed>>
  PROVE  NoNewSuccess /\ WorkKept
BY DEF NoNewSuccess, WorkKept

(* A call takes a reference. *)
LEMMA CallStep ==
  ASSUME Core, Data, NEW t \in Threads, NEW c \in Contexts, NEW f, FrameOK(f),
         \/ Depth(t) = 0
         \/ /\ f.pc \in InCalls /\ (At(t, "callback") \/ At(t, "unwrapped"))
            /\ OwnDispatch(f, Top(t)),
         f.context = c, f.pc \notin Telling \cup Locked \cup {"dispatching"},
         f.op # "destroy",
         Acquirable(c), context' = Referenced(c), stack' = Pushed(t, f),
         UNCHANGED <<holder, binding, chain, work, failed>>
  PROVE  Core' /\ Data'
<1>1. TypeOK /\ f \in Frame
  BY DEF Core, FrameOK
<1>2. PushStep(t, f)
  BY <1>1, PushFacts
<1>3. Fits(t, f) /\ ~At(t, "prepared") /\ OnlyStack(t)
  BY <1>2 DEF Fits, At, PushStep
<1>4. context[c].state # "absent"
  BY DEF Acquirable
<1>a. f.op \notin Uncounted
  BY DEF FrameOK, Telling
<1>5. Core'
  BY <1>2, <1>3, <1>4, <1>a, PushCore
<1>6. /\ OldFrames(t, Depth(t) + 1) /\ Depth(t)' = Depth(t) + 1
      /\ stack'[t][Depth(t)'] = f
  BY <1>1, <1>2, PushFrames
<1>7. \A d \in Contexts : DataKept(d)
  BY <1>1, CountedData DEF Referenced
<1>8. NewChosen(t, Depth(t) + 1)
  BY <1>6 DEF NewChosen
<1>9. Data'
  BY <1>1, <1>3, <1>6, <1>7, <1>8, NothingElse, QuietData
<1> QED BY <1>5, <1>9

(* Who may call is in no call, or in a callback. *)
LEMMA CanCallFacts ==
  ASSUME TypeOK, NEW t \in Threads, CanCall(t)
  PROVE  Depth(t) = 0 \/ At(t, "callback") \/ At(t, "unwrapped")
BY DEF CanCall

(* ffxQuery. *)
LEMMA FfxQueryStep ==
  ASSUME Core, Data, NEW t \in Threads, NEW c \in Contexts, FfxQuery(t, c)
  PROVE  Core' /\ Data'
<1>1. PICK f : f = NewFrame("query", "release", c)
  OBVIOUS
<1>2. FrameOK(f) /\ f.op = "query" /\ f.pc = "release" /\ f.context = c
  BY <1>1, NewFrameFacts
<1>3. /\ f.pc \in InCalls /\ f.pc \notin Telling \cup Locked \cup {"dispatching"}
      /\ OwnDispatch(f, Top(t))
  BY <1>2 DEF InCalls, Telling, Locked, OwnDispatch
<1> QED BY <1>1, <1>2, <1>3, CallStep, CanCallFacts DEF FfxQuery, Core

(* ffxDispatch. *)
LEMMA FfxDispatchStep ==
  ASSUME Core, Data, NEW t \in Threads, NEW c \in Contexts, FfxDispatch(t, c)
  PROVE  Core' /\ Data'
<1>1. PICK f : f = NewFrame("dispatch", "dispatch", c)
  OBVIOUS
<1>2. FrameOK(f) /\ f.op = "dispatch" /\ f.pc = "dispatch" /\ f.context = c
  BY <1>1, NewFrameFacts
<1>3. f.pc \in InCalls /\ f.pc \notin Telling \cup Locked \cup {"dispatching"}
  BY <1>2 DEF InCalls, Telling, Locked
<1>4. Depth(t) > 0 => OwnDispatch(f, Top(t))
  BY <1>2 DEF FfxDispatch, OwnDispatch, At, Here
<1> QED BY <1>1, <1>2, <1>3, <1>4, CallStep, CanCallFacts DEF FfxDispatch, Core, At

(* ffxConfigure. *)
LEMMA FfxConfigureStep ==
  ASSUME Core, Data, NEW t \in Threads, NEW c \in Contexts, NEW d \in Descs \cup {None},
         FfxConfigure(t, c, d)
  PROVE  Core' /\ Data'
<1>1. PICK f : f = ConfigureOn(c, d)
  OBVIOUS
<1>2. FrameOK(f) /\ f.op = "configure" /\ f.pc = "configure" /\ f.context = c
  BY <1>1, ConfigureFrame
<1>3. f.pc \notin Telling \cup Locked \cup {"dispatching"}
  BY <1>2 DEF Telling, Locked
<1>4. /\ MayConfigure(t) /\ Acquirable(c) /\ context' = Referenced(c)
      /\ stack' = Pushed(t, f) /\ UNCHANGED <<holder, binding, chain, work, failed>>
  BY <1>1 DEF FfxConfigure, ConfigureOn
<1>5. Depth(t) = 0
  BY <1>4 DEF MayConfigure
<1> QED BY <1>2, <1>3, <1>4, <1>5, CallStep

(* ffxDestroyContext. *)
LEMMA FfxDestroyContextStep ==
  ASSUME Core, Data, NEW t \in Threads, NEW c \in Contexts, FfxDestroyContext(t, c)
  PROVE  Core' /\ Data'
<1>1. PICK f : f = NewFrame("destroy", "destroy", c)
  OBVIOUS
<1>2. FrameOK(f) /\ f.op = "destroy" /\ f.pc = "destroy" /\ f.context = c
  BY <1>1, NewFrameFacts
<1>3. /\ MayConfigure(t) /\ Acquirable(c)
      /\ context' = [context EXCEPT ![c].closing = TRUE]
      /\ stack' = Pushed(t, f) /\ UNCHANGED <<holder, binding, chain, work, failed>>
  BY <1>1 DEF FfxDestroyContext
<1>4. TypeOK /\ f \in Frame /\ Depth(t) = 0 /\ ~At(t, "prepared")
  BY <1>2, <1>3 DEF MayConfigure, FrameOK, Core, At
<1>5. PushStep(t, f) /\ Fits(t, f)
  BY <1>2, <1>3, <1>4, PushFacts DEF Fits
<1>6. Core'
  BY <1>2, <1>3, <1>5, PushDestroyCore
<1>7. /\ OldFrames(t, Depth(t) + 1) /\ Depth(t)' = Depth(t) + 1
      /\ stack'[t][Depth(t)'] = f
  BY <1>4, <1>5, PushFrames
<1>8. \A d \in Contexts : DataKept(d)
  <2>1. \A d \in Contexts : d # c => context'[d] = context[d]
    BY <1>3, <1>4 DEF TypeOK
  <2>2. context'[c] = [context[c] EXCEPT !.closing = TRUE] /\ context[c] \in Context
    BY <1>3, <1>4 DEF TypeOK
  <2>3. DataKept(c)
    BY <2>2 DEF DataKept, Context
  <2> QED BY <2>1, <2>3 DEF DataKept
<1>9. /\ f.pc \notin Telling /\ OnlyStack(t)
      /\ NewChosen(t, Depth(t) + 1)
  BY <1>2, <1>5, <1>7 DEF Telling, PushStep, NewChosen
<1>10. Data'
  BY <1>3, <1>4, <1>7, <1>8, <1>9, NothingElse, QuietData
<1> QED BY <1>6, <1>10

(* ffxCreateContext: nobody refers to the context yet. *)
LEMMA FfxCreateContextStep ==
  ASSUME Core, Data, NEW t \in Threads, NEW c \in Contexts, FfxCreateContext(t, c)
  PROVE  Core' /\ Data'
<1>1. /\ Core'
      /\ \A d \in Contexts : d # c => context'[d] = context[d]
      /\ context[c].state = "absent" /\ context'[c].state = "listed"
      /\ context'[c].swapchain = None /\ context'[c].binding = None
      /\ ~context'[c].enabled /\ ~context'[c].translating /\ ~context'[c].snapshots
      /\ context'[c].mode # "metalfx"
  BY CreateCore
<1>2. UNCHANGED <<holder, binding, chain, work, stack, failed>>
  BY DEF FfxCreateContext
<1>3. /\ BindingsOwned /\ ChainOwned /\ ClaimsDistinct /\ CallsReady
      /\ Undecided /\ WorkDone /\ TranslationMatches /\ Chosen
  BY DEF Data
<1>4. TypeOK /\ StacksOK
  BY DEF Core
<1>5. /\ \A b \in Bindings : binding[b].context \in Contexts \cup {None}
      /\ \A d \in Contexts : context[d].binding \in Bindings \cup {None}
  BY <1>4 DEF TypeOK, Binding, Context
<1>6. BindingsOwned'
  BY <1>1, <1>2, <1>3, <1>5 DEF BindingsOwned
<1>7. ChainOwned'
  <2>1. ASSUME NEW s \in Swapchains, chain[s] # None
        PROVE  Caller(s)' = Caller(s) /\ context'[Caller(s)] = context[Caller(s)]
    BY <1>1, <1>2, <1>3, <2>1, CallerKept DEF ChainOwned
  <2> QED BY <1>2, <1>3, <2>1 DEF ChainOwned
<1>8. ClaimsDistinct'
  BY <1>1, <1>3 DEF ClaimsDistinct
<1>9. CallsReady'
  <2> SUFFICES ASSUME NEW u \in Threads, NEW i \in 1..Depth(u)', NEW g, g = stack'[u][i]
               PROVE  CallbackBound(g)' /\ CallReady(g)'
    BY ReadyNext
  <2>1. i \in 1..Depth(u) /\ g = stack[u][i]
    BY <1>2 DEF Depth
  <2>2. CallbackBound(g) /\ CallReady(g) /\ FrameOK(g)
    BY <1>3, <1>4, <2>1 DEF CallsReady, StacksOK
  <2>3. context[g.context].state # "absent"
    BY <2>1, <2>2, CallListed DEF FrameOK, CallbackBound
  <2>4. context'[g.context] = context[g.context]
    BY <1>1, <2>2, <2>3 DEF FrameOK, Frame
  <2> QED BY <1>2, <2>2, <2>4 DEF CallbackBound, CallReady
<1>10. Undecided'
  BY <1>1, <1>3 DEF Undecided
<1>11. WorkDone'
  <2>1. \A d \in Contexts : Unstored(d)' <=> Unstored(d)
    BY <1>2 DEF Unstored, At, Here, Top, Depth
  <2> QED BY <1>1, <1>2, <1>3, <2>1 DEF WorkDone
<1>12. TranslationMatches'
  BY <1>1, <1>2, <1>3 DEF TranslationMatches
<1>13. Chosen'
  <2>1. OldFrames(t, 0) /\ \A u \in Threads : Depth(u)' \in Nat
    BY <1>2, <1>4 DEF OldFrames, Depth, TypeOK
  <2>2. NewChosen(t, 0)
    BY <2>1 DEF NewChosen
  <2> QED BY <1>1, <1>3, <2>1, <2>2, ChosenStep
<1> QED BY <1>1, <1>6, <1>7, <1>8, <1>9, <1>10, <1>11, <1>12, <1>13 DEF Data

(* A call returns its reference. *)
LEMMA ReturnStep ==
  ASSUME Core, Data, NEW t \in Threads, Depth(t) > 0, Top(t).op \notin Uncounted,
         Top(t).pc # "prepared", context' = Released(Here(t)), stack' = Popped(t),
         UNCHANGED <<holder, binding, chain, work, failed>>
  PROVE  Core' /\ Data'
<1>1. TypeOK /\ PopStep(t)
  BY PopFacts DEF Core
<1>2. Core'
  BY <1>1, PopCore
<1>3. OldFrames(t, 0) /\ OnlyStack(t) /\ ~At(t, "prepared")
  BY <1>1, PopFrames DEF PopStep, At
<1>4. Here(t) \in Contexts
  BY <1>1, TopFacts
<1>5. PICK n : n = context[Here(t)].refs - 1
  OBVIOUS
<1>6. context' = [context EXCEPT ![Here(t)].refs = n]
  BY <1>5 DEF Released
<1>7. \A d \in Contexts : DataKept(d)
  BY <1>1, <1>4, <1>6, CountedData
<1>8. NewChosen(t, 0) /\ \A i \in 1..Depth(t)' : i = 0 => stack'[t][i].pc \notin Telling
  BY <1>3, DepthNext DEF NewChosen
<1>9. Data'
  BY <1>1, <1>3, <1>7, <1>8, NothingElse, QuietData
<1> QED BY <1>2, <1>9

(* release_context. *)
LEMMA ReleaseStep ==
  ASSUME Core, Data, NEW t \in Threads, Release(t)
  PROVE  Core' /\ Data'
<1>1. Depth(t) > 0 /\ Top(t).op \notin Uncounted /\ Top(t).pc # "prepared"
  BY OpFacts DEF Release, Destroying
<1> QED BY <1>1, ReturnStep DEF Release

(* leave_callback. *)
LEMMA LeaveCallbackStep ==
  ASSUME Core, Data, NEW t \in Threads, LeaveCallback(t)
  PROVE  Core' /\ Data'
<1>1. Depth(t) > 0 /\ Top(t).pc = "callback"
  BY DEF LeaveCallback, At
<1>2. FrameOK(Top(t))
  BY <1>1, NestFacts DEF Core
<1> QED BY <1>1, <1>2, ReturnStep DEF LeaveCallback, FrameOK

(* ffxDestroyContext returns. *)
LEMMA DestroyReturns ==
  ASSUME Core, Data, NEW t \in Threads, NEW pc \in Destroying, At(t, pc),
         NEW x \in Context, SetContext(t, x), stack' = Popped(t),
         x.refs = Ctx(t).refs,
         x.state = "listed" \/ (x.state = "freed" /\ pc = "destroying"),
         x.mode = Ctx(t).mode, x.swapchain = Ctx(t).swapchain,
         x.binding = Ctx(t).binding, x.enabled = Ctx(t).enabled,
         x.translated =>
           /\ Ctx(t).translated
           /\ x.translating = Ctx(t).translating
           /\ x.snapshots = Ctx(t).snapshots,
         x.translating => Ctx(t).translating, x.snapshots => Ctx(t).snapshots,
         UNCHANGED <<holder, binding, chain, work, failed>>
  PROVE  Core' /\ Data'
<1>1. /\ Depth(t) > 0 /\ Top(t).pc = pc /\ Top(t).op = "destroy"
  BY OpFacts DEF Destroying
<1>2. TypeOK /\ PopStep(t)
  BY <1>1, PopFacts DEF Core
<1>3. Core'
  BY <1>1, <1>2, PopDestroyCore DEF SetContext
<1>4. OldFrames(t, 0) /\ OnlyStack(t) /\ ~At(t, "prepared")
  BY <1>1, <1>2, PopFrames DEF PopStep, At, Destroying
<1>5. /\ Here(t) \in Contexts /\ Ctx(t) = context[Here(t)] /\ Here(t) = Top(t).context
      /\ Depth(t) \in 1..Depth(t) /\ Top(t) = stack[t][Depth(t)]
  BY <1>1, <1>2, TopFacts
<1>6. Ctx(t).state = "listed"
  BY <1>1, <1>5 DEF Core, OneDestroyer
<1>7. /\ context'[Here(t)] = x
      /\ \A d \in Contexts : d # Here(t) => context'[d] = context[d]
  BY <1>2, <1>5 DEF SetContext, TypeOK
<1>8. DataKept(Here(t))
  BY <1>5, <1>6, <1>7 DEF DataKept
<1>9. \A d \in Contexts : DataKept(d)
  BY <1>7, <1>8 DEF DataKept
<1>10. NewChosen(t, 0) /\ \A i \in 1..Depth(t)' : i = 0 => stack'[t][i].pc \notin Telling
  BY <1>4, DepthNext DEF NewChosen
<1>11. Data'
  BY <1>2, <1>4, <1>9, <1>10, NothingElse, QuietData
<1> QED BY <1>3, <1>11

(* The call that destroys is on a listed context. *)
LEMMA DestroyerFacts ==
  ASSUME Core, NEW t \in Threads, NEW pc \in Destroying, At(t, pc)
  PROVE  /\ Depth(t) = 1 /\ Top(t).pc = pc /\ Top(t).op = "destroy"
         /\ Ctx(t) \in Context /\ Ctx(t).state = "listed"
<1>1. Depth(t) > 0 /\ Top(t).pc = pc /\ Top(t).op = "destroy" /\ Depth(t) = 1
  BY OpFacts DEF Destroying, InCalls
<1>2. /\ Ctx(t) = context[Here(t)] /\ Here(t) = Top(t).context /\ Ctx(t) \in Context
      /\ Depth(t) \in 1..Depth(t) /\ Top(t) = stack[t][Depth(t)]
  BY <1>1, TopFacts DEF Core
<1> QED BY <1>1, <1>2 DEF Core, OneDestroyer

(* The unlocked test of the swapchain. *)
LEMMA DestroyTestStep ==
  ASSUME Core, Data, NEW t \in Threads, DestroyTest(t)
  PROVE  Core' /\ Data'
<1>1. At(t, "detached") /\ UNCHANGED <<holder, binding, chain, work, failed>>
  BY DEF DestroyTest
<1>2. /\ Depth(t) = 1 /\ Top(t).pc = "detached" /\ Top(t).op = "destroy"
      /\ Ctx(t) \in Context /\ Ctx(t).state = "listed" /\ "detached" \in Destroying
  BY <1>1, DestroyerFacts DEF Destroying
<1>3. CASE DestroyFails(t, Ctx(t))
  <2> PICK x : x = [Ctx(t) EXCEPT !.closing = FALSE]
    OBVIOUS
  <2>1. /\ x \in Context /\ x.refs = Ctx(t).refs /\ x.state = "listed"
        /\ x.mode = Ctx(t).mode /\ x.swapchain = Ctx(t).swapchain
        /\ x.binding = Ctx(t).binding /\ x.enabled = Ctx(t).enabled
        /\ x.translated = Ctx(t).translated
        /\ x.translating = Ctx(t).translating /\ x.snapshots = Ctx(t).snapshots
    BY <1>2 DEF Context
  <2> QED BY <1>1, <1>2, <1>3, <2>1, DestroyReturns DEF DestroyFails
<1>4. CASE stack' = Goto(t, "unreferenced") /\ UNCHANGED context
  <2>1. WorkKept /\ work' \in [Contexts -> SUBSET {"metalfx", "native"}]
    BY <1>1, <1>4, NoWork DEF Core
  <2>2. "unreferenced" \in Resting /\ "unreferenced" \in Destroying
    BY DEF Resting, Destroying
  <2> QED BY <1>1, <1>2, <1>4, <2>1, <2>2, QuietGoto
<1> QED BY <1>3, <1>4 DEF DestroyTest

(* destroy_translation and native.destroy. *)
LEMMA DestroyNativeStep ==
  ASSUME Core, Data, NEW t \in Threads, DestroyNative(t)
  PROVE  Core' /\ Data'
<1>1. At(t, "destroying") /\ UNCHANGED <<holder, binding, chain, work, failed>>
  BY DEF DestroyNative
<1>2. /\ Depth(t) = 1 /\ Top(t).pc = "destroying" /\ Top(t).op = "destroy"
      /\ Ctx(t) \in Context /\ Ctx(t).state = "listed" /\ "destroying" \in Destroying
  BY <1>1, DestroyerFacts DEF Destroying
<1>3. CASE DestroyFails(t, Ctx(t))
  <2> PICK x : x = [Ctx(t) EXCEPT !.closing = FALSE]
    OBVIOUS
  <2>1. /\ x \in Context /\ x.refs = Ctx(t).refs /\ x.state = "listed"
        /\ x.mode = Ctx(t).mode /\ x.swapchain = Ctx(t).swapchain
        /\ x.binding = Ctx(t).binding /\ x.enabled = Ctx(t).enabled
        /\ x.translated = Ctx(t).translated
        /\ x.translating = Ctx(t).translating /\ x.snapshots = Ctx(t).snapshots
    BY <1>2 DEF Context
  <2> QED BY <1>1, <1>2, <1>3, <2>1, DestroyReturns DEF DestroyFails
<1>4. CASE DestroyFails(t, [Ctx(t) EXCEPT !.translated = FALSE, !.translating = FALSE])
  <2> PICK w : w = [Ctx(t) EXCEPT !.translated = FALSE, !.translating = FALSE]
    OBVIOUS
  <2> PICK x : x = [w EXCEPT !.closing = FALSE]
    OBVIOUS
  <2>1. /\ w \in Context /\ w.refs = Ctx(t).refs /\ w.state = "listed"
        /\ w.mode = Ctx(t).mode /\ w.swapchain = Ctx(t).swapchain
        /\ w.binding = Ctx(t).binding /\ w.enabled = Ctx(t).enabled
        /\ w.translated = FALSE /\ w.translating = FALSE /\ w.snapshots = Ctx(t).snapshots
    BY <1>2 DEF Context
  <2>2. /\ x \in Context /\ x.refs = Ctx(t).refs /\ x.state = "listed"
        /\ x.mode = Ctx(t).mode /\ x.swapchain = Ctx(t).swapchain
        /\ x.binding = Ctx(t).binding /\ x.enabled = Ctx(t).enabled
        /\ x.translated = FALSE /\ x.translating = FALSE /\ x.snapshots = Ctx(t).snapshots
    BY <2>1 DEF Context
  <2>3. SetContext(t, x) /\ stack' = Popped(t)
    BY <1>4 DEF DestroyFails
  <2> QED BY <1>1, <1>2, <2>2, <2>3, DestroyReturns
<1>5. CASE /\ SetContext(t, [Ctx(t) EXCEPT !.state = "freed", !.translated = FALSE,
                                           !.translating = FALSE, !.snapshots = FALSE])
           /\ stack' = Popped(t)
  <2> PICK x : x = [Ctx(t) EXCEPT !.state = "freed", !.translated = FALSE,
                                  !.translating = FALSE, !.snapshots = FALSE]
    OBVIOUS
  <2>1. /\ x \in Context /\ x.refs = Ctx(t).refs /\ x.state = "freed"
        /\ x.mode = Ctx(t).mode /\ x.swapchain = Ctx(t).swapchain
        /\ x.binding = Ctx(t).binding /\ x.enabled = Ctx(t).enabled
        /\ x.translated = FALSE /\ x.translating = FALSE /\ x.snapshots = FALSE
    BY <1>2 DEF Context
  <2>2. SetContext(t, x)
    BY <1>5
  <2> QED BY <1>1, <1>2, <1>5, <2>1, <2>2, DestroyReturns
<1> QED BY <1>3, <1>4, <1>5 DEF DestroyNative

-----------------------------------------------------------------------------
(* The theorems. *)

(* Nothing exists yet. *)
LEMMA InitCore ==
  ASSUME Init
  PROVE  Core /\ Data
<1>1. /\ context = [c \in Contexts |-> AbsentContext]
      /\ holder = [c \in Contexts |-> None]
      /\ binding = [b \in Bindings |-> FreeBinding]
      /\ chain = [s \in Swapchains |-> None]
      /\ work = [c \in Contexts |-> {}]
      /\ failed = [c \in Contexts |-> FALSE]
      /\ stack = [t \in Threads |-> <<>>]
  BY DEF Init
<1>2. AbsentContext \in Context /\ FreeBinding \in Binding
  BY DEF AbsentContext, Context, Mode, FreeBinding, Binding
<1>3. /\ AbsentContext.state = "absent" /\ AbsentContext.mode = "native"
      /\ AbsentContext.binding = None /\ FreeBinding.context = None
  BY DEF AbsentContext, FreeBinding
<1>4. TypeOK
  <2>1. context \in [Contexts -> Context] /\ binding \in [Bindings -> Binding]
    BY <1>1, <1>2
  <2>2. stack \in [Threads -> Seq(Frame)]
    BY <1>1
  <2>3. /\ holder \in [Contexts -> Threads \cup {None}]
        /\ chain \in [Swapchains -> Bindings \cup Unwrapped \cup {None}]
        /\ failed \in [Contexts -> BOOLEAN]
        /\ work \in [Contexts -> SUBSET {"metalfx", "native"}]
    BY <1>1
  <2> QED BY <2>1, <2>2, <2>3 DEF TypeOK
<1>5. \A t \in Threads : Depth(t) = 0
  BY <1>1 DEF Depth
<1>6. \A t \in Threads : \A i \in 1..Depth(t) : FALSE
  BY <1>5
<1>7. StacksOK /\ LocksHeld /\ OneDestroyer /\ CallsReady
  BY <1>5, <1>6 DEF StacksOK, LocksHeld, OneDestroyer, CallsReady
<1>8. RefsCounted
  <2> SUFFICES ASSUME NEW c \in Contexts
               PROVE  Counted(c)
    BY DEF RefsCounted
  <2>1. Inside(c) = {}
    BY <1>5 DEF Inside
  <2>2. context[c].state = "absent"
    BY <1>1, <1>3
  <2>3. IsFiniteSet(Inside(c))
    BY <2>1, FS_EmptySet
  <2>4. ~Dying(c)
    BY <1>5 DEF Dying, At
  <2> QED BY <2>1, <2>2, <2>3, <2>4 DEF Counted
<1>9. BindingsOwned /\ ChainOwned /\ ClaimsDistinct
  BY <1>1, <1>3 DEF BindingsOwned, ChainOwned, ClaimsDistinct
<1>10. Undecided /\ WorkDone /\ TranslationMatches /\ Chosen
  BY <1>1, <1>3, <1>5 DEF Undecided, WorkDone, TranslationMatches, Chosen
<1> QED BY <1>4, <1>7, <1>8, <1>9, <1>10 DEF Core, Data

(* A new call keeps the invariant. *)
LEMMA CallsKeep ==
  ASSUME Core, Data, NEW t \in Threads, Call(t)
  PROVE  Core' /\ Data'
<1>1. PICK c \in Contexts :
        \/ FfxCreateContext(t, c)
        \/ FfxQuery(t, c)
        \/ FfxDispatch(t, c)
        \/ FfxDestroyContext(t, c)
        \/ \E d \in Descs \cup {None} : FfxConfigure(t, c, d)
  BY DEF Call
<1> QED BY <1>1, FfxCreateContextStep, FfxQueryStep, FfxDispatchStep,
           FfxDestroyContextStep, FfxConfigureStep

(* So does a configuration. *)
LEMMA ConfigureKeeps ==
  ASSUME Core, Data, NEW t \in Threads, ConfigureStep(t)
  PROVE  Core' /\ Data'
BY ConfigureRejectedStep, StorePendingStep, ConfigureSelectsNativeStep,
   ConfigureOtherStep, SnapshotFailsStep, ConfigureDirectStep, ConfigureNativeStep,
   ConfigureMovesStep, ConfigureInstallsStep, InstalledStep
   DEF ConfigureStep

(* So does a step that takes the lock or has waited. *)
LEMMA WaitingKeeps ==
  ASSUME Core, Data, NEW t \in Threads, WaitingStep(t) \/ ErrorStep(t)
  PROVE  Core' /\ Data'
<1>1. CASE TurnOff(t, TRUE) \/ TurnOff(t, FALSE)
  BY <1>1, TurnOffStep
<1>2. CASE DetachWait(t, TRUE) \/ DetachWait(t, FALSE)
  BY <1>2, DetachWaitStep
<1> QED BY <1>1, <1>2, ConfigureLockStep, ModeChosenStep, FirstPrepareStep,
           DestroyLockStep, InstallConfigStep, DetachStep, DestroyWaitStep,
           DispatchRejectedStep, NativeConfiguredStep, NativeConfigFailsStep
           DEF WaitingStep, ErrorStep

(* Every step keeps the invariant. *)
LEMMA NextKeeps ==
  ASSUME FgInv, [Next]_vars
  PROVE  FgInv'
<1>1. Core /\ Data
  BY DEF FgInv
<1>2. CASE Next
  <2>1. PICK t \in Threads :
          \/ Call(t)
          \/ Step(t)
          \/ WaitingStep(t)
          \/ ErrorStep(t)
          \/ \E s \in Swapchains : EnterCallback(t, s) \/ EnterUnwrapped(t, s)
          \/ LeaveCallback(t)
          \/ LeaveUnwrapped(t)
    BY <1>2 DEF Next
  <2>2. CASE Step(t)
    BY <1>1, <2>2, ConfigureKeeps, DispatchStep, DestroyTestStep, DestroyNativeStep,
       ReleaseStep, MetalFXChosenStep
       DEF Step, FgInv
  <2> QED BY <1>1, <2>1, <2>2, CallsKeep, WaitingKeeps, EnterData, LeaveCallbackStep,
             EnterUnwrappedStep, LeaveUnwrappedStep
             DEF FgInv
<1>3. CASE UNCHANGED vars
  <2>1. Core'
    <3>1. stack' = stack /\ context' = context /\ holder' = holder
      BY <1>3 DEF vars
    <3>2. TypeOK'
      BY <1>1, <1>3 DEF vars, Core, TypeOK
    <3>3. StacksOK' /\ LocksHeld' /\ OneDestroyer'
      BY <1>1, <3>1 DEF Core, StacksOK, Nested, LocksHeld, OneDestroyer, Depth
    <3>4. RefsCounted'
      <4> SUFFICES ASSUME NEW c \in Contexts
                   PROVE  Counted(c)'
        BY DEF RefsCounted
      <4>1. Inside(c)' = Inside(c) /\ Dying(c)' = Dying(c)
        BY <3>1 DEF Inside, Dying, At, Here, Top, Depth
      <4>2. Counted(c)
        BY <1>1 DEF Core, RefsCounted
      <4> QED BY <3>1, <4>1, <4>2 DEF Counted
    <3> QED BY <3>2, <3>3, <3>4 DEF Core
  <2>2. CallsReady'
    BY <1>1, <1>3 DEF vars, Data, CallsReady, CallbackBound, CallReady, Depth
  <2>3. \A c \in Contexts : Unstored(c)' <=> Unstored(c)
    BY <1>3 DEF vars, Unstored, At, Here, Top, Depth
  <2>4. \A s \in Swapchains : Caller(s)' = Caller(s)
    BY <1>3 DEF vars, Caller
  <2>5. Data'
    BY <1>1, <1>3, <2>2, <2>3, <2>4 DEF vars, Data, BindingsOwned, ChainOwned,
       ClaimsDistinct, Undecided, WorkDone, TranslationMatches, Chosen, Depth
  <2> QED BY <2>1, <2>5 DEF FgInv
<1> QED BY <1>2, <1>3

(* The inductive invariant holds in every reachable state. *)
THEOREM InvCorrect == Spec => []FgInv
<1>1. Init => FgInv
  BY InitCore DEF FgInv
<1>2. FgInv /\ [Next]_vars => FgInv'
  BY NextKeeps
<1> QED BY <1>1, <1>2, PTL DEF Spec

(* Contexts, bindings, locks and calls have their types. *)
THEOREM TypeCorrect == Spec => []TypeOK
<1>1. FgInv => TypeOK
  BY DEF FgInv, Core
<1> QED BY <1>1, InvCorrect, PTL

(* acquire_context, release_context and the callbacks keep the reference   *)
(* count exact, and destroy_translation and native.destroy find no call    *)
(* inside the context.                                                     *)
THEOREM ReferencesCorrect == Spec => []ReferencesExact
<1>1. FgInv => ReferencesExact
  BY DEF FgInv, Core, RefsCounted, Counted, Dying, ReferencesExact
<1> QED BY <1>1, InvCorrect, PTL

(* A callback_binding outlives the swapchain's use of it and every         *)
(* callback on it, whatever the presenters do while it is replaced.        *)
THEOREM BindingsCorrect == Spec => []BindingLive
<1>1. ASSUME FgInv
      PROVE  BindingLive
  <2>1. ChainOwned /\ CallsReady /\ TypeOK
    BY <1>1 DEF FgInv, Data, Core
  <2>2. \A s \in Swapchains : chain[s] \in Bindings => binding[chain[s]].context # None
    BY <2>1, CallerFacts, NoneAssumption DEF ChainOwned
  <2> QED BY <2>1, <2>2 DEF CallsReady, CallbackBound, BindingLive
<1> QED BY <1>1, InvCorrect, PTL

(* claim_swapchain: one context per swapchain, which calls back nobody     *)
(* else.                                                                   *)
THEOREM ClaimsCorrect == Spec => []SwapchainExclusive
<1>1. FgInv => SwapchainExclusive
  BY DEF FgInv, Data, ChainOwned, ClaimsDistinct, SwapchainExclusive
<1> QED BY <1>1, InvCorrect, PTL

(* What the bridge was told is what the application was, after errors at   *)
(* any of the calls of a configuration.                                    *)
THEOREM TranslationCorrect == Spec => []TranslationMatches
<1>1. FgInv => TranslationMatches
  BY DEF FgInv, Data
<1> QED BY <1>1, InvCorrect, PTL

(* A frame of c that native code takes after MetalFX: the mode of c is not *)
(* stored yet, and the dispatch comes from a callback of another context.  *)
Overtakes(c) ==
  /\ Unstored(c)
  /\ \E t \in Threads :
       /\ At(t, "dispatching") /\ Here(t) = c
       /\ \E i \in 1..Depth(t) :
            stack[t][i].pc = "callback" /\ stack[t][i].context # c

(* The thread that has not stored the mode has the lock. *)
LEMMA UnstoredFacts ==
  ASSUME FgInv, NEW c \in Contexts, "metalfx" \in work[c], context[c].mode # "metalfx"
  PROVE  Unstored(c) /\ context[c].mode = "pending" /\ holder[c] # None
<1>1. Core /\ Data /\ Unstored(c)
  BY DEF FgInv, Data, WorkDone
<1>2. PICK u \in Threads : At(u, "prepared") /\ Here(u) = c
  BY <1>1 DEF Unstored
<1>3. Holding(u) /\ Top(u).pc = "prepared"
  BY <1>1, <1>2, HoldingFacts DEF Locked
<1>4. context[c].mode = "pending" /\ holder[c] = u
  BY <1>2, <1>3 DEF Holding, CallReady
<1> QED BY <1>1, <1>4, NoneAssumption

(* A dispatch outside callbacks waits for the lock, and one in a callback  *)
(* of the context itself finds the mode stored.                            *)
LEMMA LateDispatch ==
  ASSUME FgInv, NEW t \in Threads, At(t, "dispatching"), Ctx(t).mode # "metalfx",
         "metalfx" \in work[Here(t)]
  PROVE  Overtakes(Here(t))
<1>1. Core /\ Data /\ TypeOK /\ StacksOK
  BY DEF FgInv, Core
<1>2. Depth(t) > 0 /\ Top(t).pc = "dispatching"
  BY DEF At
<1> PICK n : n = Depth(t)
  OBVIOUS
<1>3. /\ Here(t) \in Contexts /\ Ctx(t) = context[Here(t)] /\ Here(t) = Top(t).context
      /\ Top(t) = stack[t][n] /\ n \in Nat /\ FrameOK(Top(t))
  BY <1>1, <1>2, TopFacts, NestFacts
<1>4. Unstored(Here(t)) /\ Ctx(t).mode = "pending"
  BY <1>3, UnstoredFacts
<1>5. n # 1
  BY <1>1, <1>2, <1>3, <1>4 DEF Data, Chosen
<1>6. n \in 2..n /\ n - 1 \in 1..n
  BY <1>2, <1>3, <1>5
<1>7. Nested(t, n)
  BY <1>1, <1>6 DEF StacksOK
<1>8. stack[t][n - 1].pc \in Backs /\ OwnDispatch(stack[t][n], stack[t][n - 1])
  BY <1>2, <1>3, <1>7 DEF Nested
<1>9. CallbackBound(stack[t][n - 1])
  BY <1>1, <1>6 DEF Data, CallsReady
<1>10. stack[t][n - 1].pc # "unwrapped"
  BY <1>2, <1>3, <1>4, <1>8, <1>9 DEF OwnDispatch, FrameOK, CallbackBound
<1>11. stack[t][n - 1].pc = "callback" /\ stack[t][n - 1].context # Here(t)
  BY <1>3, <1>4, <1>8, <1>9, <1>10 DEF CallbackBound
<1> QED BY <1>4, <1>6, <1>11 DEF Overtakes

(* Which steps dispatch, and for whom. *)
LEMMA WorkChanges ==
  ASSUME FgInv, [Next]_vars, NEW c \in Contexts, "metalfx" \in work[c],
         "native" \in work'[c] \ work[c]
  PROVE  Overtakes(c)
<1>1. TypeOK /\ work \in [Contexts -> SUBSET {"metalfx", "native"}]
  BY DEF FgInv, Core, TypeOK
<1>2. ASSUME NEW t \in Threads, Dispatch(t)
      PROVE  Overtakes(c)
  <2>1. At(t, "dispatching") /\ work' = [work EXCEPT ![Here(t)] = @ \cup Runs(t)]
    BY <1>2 DEF Dispatch
  <2>2. Here(t) \in Contexts
    BY <1>1, <2>1, TopFacts DEF At
  <2>3. Here(t) = c /\ "native" \in Runs(t)
    BY <1>1, <2>1, <2>2
  <2> QED BY <2>1, <2>3, LateDispatch DEF Runs
<1>3. ASSUME NEW t \in Threads, FirstPrepare(t)
      PROVE  FALSE
  <2>1. /\ At(t, "dispatch") /\ Ctx(t).mode = "pending" /\ holder[Here(t)] = None
        /\ \/ work' = work
           \/ work' = [work EXCEPT ![Here(t)] = @ \cup {"native"}]
           \/ work' = [work EXCEPT ![Here(t)] = @ \cup {"metalfx"}]
    BY <1>3 DEF FirstPrepare
  <2>2. Here(t) \in Contexts /\ Ctx(t) = context[Here(t)]
    BY <1>1, <2>1, TopFacts DEF At
  <2>3. Here(t) = c
    BY <1>1, <2>1, <2>2
  <2> QED BY <2>1, <2>2, <2>3, UnstoredFacts
<1>4. ASSUME NEW t \in Threads, Call(t)
      PROVE  work' = work
  BY <1>4 DEF Call, FfxCreateContext, FfxQuery, FfxDispatch, FfxDestroyContext,
     FfxConfigure
<1>5. ASSUME NEW t \in Threads, ConfigureStep(t)
      PROVE  work' = work
  BY <1>5 DEF ConfigureStep, ConfigureRejected, StorePending, ConfigureSelectsNative,
     ConfigureOther, SnapshotFails, ConfigureDirect, ConfigureNative, ConfigureMoves,
     ConfigureInstalls, Installed
<1>6. ASSUME NEW t \in Threads,
             \/ ConfigureLock(t) \/ ModeChosen(t) \/ DestroyLock(t) \/ InstallConfig(t)
             \/ TurnOff(t, TRUE) \/ NativeConfigured(t) \/ Detach(t)
             \/ DetachWait(t, TRUE) \/ DestroyWait(t) \/ ErrorStep(t)
             \/ MetalFXChosen(t) \/ DestroyTest(t) \/ DestroyNative(t) \/ Release(t)
             \/ LeaveCallback(t) \/ LeaveUnwrapped(t)
             \/ \E s \in Swapchains : EnterCallback(t, s) \/ EnterUnwrapped(t, s)
      PROVE  work' = work
  BY <1>6 DEF ConfigureLock, ModeChosen, DestroyLock, InstallConfig, TurnOff,
     NativeConfigured, NativeConfigFails, Detach, DetachWait, DestroyWait, ErrorStep,
     DispatchRejected, MetalFXChosen, DestroyTest, DestroyNative, Release,
     LeaveCallback, LeaveUnwrapped, EnterCallback, EnterUnwrapped
<1>7. CASE Next
  <2>1. PICK t \in Threads :
          \/ Call(t)
          \/ Step(t)
          \/ WaitingStep(t)
          \/ ErrorStep(t)
          \/ \E s \in Swapchains : EnterCallback(t, s) \/ EnterUnwrapped(t, s)
          \/ LeaveCallback(t)
          \/ LeaveUnwrapped(t)
    BY <1>7 DEF Next
  <2>2. \/ Dispatch(t) \/ FirstPrepare(t) \/ work' = work
    BY <1>4, <1>5, <1>6, <2>1 DEF Step, WaitingStep
  <2> QED BY <1>2, <1>3, <2>2
<1>8. CASE UNCHANGED vars
  BY <1>8 DEF vars
<1> QED BY <1>7, <1>8

(* After MetalFX has recorded a frame, dispatch_context runs the native    *)
(* provider only between translated_prepare and the store of the mode, and *)
(* only from a callback of another context: every other dispatch waits for *)
(* configure_lock or finds the mode stored.                                *)
THEOREM NoSecondPassCorrect == Spec => NoSecondPass
<1>1. FgInv /\ [Next]_vars =>
        [\A c \in Contexts :
           "metalfx" \in work[c] /\ "native" \in work'[c] \ work[c] =>
             /\ Unstored(c)
             /\ \E t \in Threads :
                  /\ At(t, "dispatching") /\ Here(t) = c
                  /\ \E i \in 1..Depth(t) :
                       stack[t][i].pc = "callback" /\ stack[t][i].context # c]_vars
  BY WorkChanges DEF Overtakes
<1> QED BY <1>1, InvCorrect, PTL DEF Spec, NoSecondPass
=============================================================================
