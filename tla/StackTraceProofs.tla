-------------------------- MODULE StackTraceProofs --------------------------
(***************************************************************************)
(* Proofs about StackTrace for every set of functions, every call graph    *)
(* and every stack depth: in a program that does not throw, the tree holds *)
(* exactly the traced objects that are alive; when moreover all calls are  *)
(* direct, a function is pruned only if no cast needs its object.  (The    *)
(* run stack_indirect shows why.)  An exception leaves entries behind, and *)
(* still a traced object that is alive has its own type in the tree.       *)
(***************************************************************************)
EXTENDS StackTrace, TLAPS

-----------------------------------------------------------------------------
(* The inductive invariant *)

\* The pass erased the calls of the functions it should have, so far.
PrunedRight ==
  pruned = {f \in visited : IsInvokeStack(f) /\ ~IsAnyCalleesInvokeCast(f)}

\* No two frames start at the same address: the stack grows by whole frames.
FramesApart ==
  \A i, j \in DOMAIN stack : i < j => stack[i].addr < stack[j].addr

\* Whoever runs was reached from every frame below by direct calls.
FramesReached ==
  program.indirect = {} =>
    \A i, j \in DOMAIN stack : i <= j => stack[j].fn \in Reachable(stack[i].fn)

CompiledFirst == stack # << >> => Compiled

\* Only functions that have a local object construct one.
ObjectsAreLocals ==
  \A i \in DOMAIN stack :
    stack[i].object # "absent" => stack[i].fn \in program.locals

StackInv == TypeOK /\ CompiledFirst /\ FramesApart /\ TreeMirrorsStack

PruningInv == PrunedRight /\ FramesReached /\ ObjectsAreLocals

-----------------------------------------------------------------------------
(* Lemmas *)

\* The depth-first search finds the function itself and, with a function, all
\* that it calls.
LEMMA ReachableClosed ==
  ASSUME TypeOK, NEW f \in Functions
  PROVE  /\ f \in Reachable(f)
         /\ \A h \in Reachable(f) : Calls(h) \subseteq Reachable(f)
<1>1. f \in Reachable(f)
  BY DEF Reachable
<1>2. ASSUME NEW h \in Reachable(f), NEW g \in Calls(h) PROVE g \in Reachable(f)
  <2>1. g \in Functions
    BY <1>2, ProgramsAssumption DEF TypeOK, Calls, Reachable
  <2>2. ASSUME NEW S \in SUBSET Functions, f \in S, Closed(S) PROVE g \in S
    <3>1. h \in S
      BY <2>2 DEF Reachable
    <3> QED
      BY <1>2, <2>2, <3>1 DEF Closed
  <2> QED
    BY <2>1, <2>2 DEF Reachable
<1> QED
  BY <1>1, <1>2

LEMMA TopIsFrame ==
  ASSUME TypeOK, stack # << >>
  PROVE  /\ Len(stack) \in DOMAIN stack
         /\ Top \in FrameType
         /\ Top.fn \in Functions /\ Top.addr \in Nat
         /\ FrameSize[Top.fn] \in Nat \ {0}
<1>1. stack \in Seq(FrameType)
  BY DEF TypeOK
<1>2. Len(stack) \in DOMAIN stack /\ Top \in FrameType
  BY <1>1 DEF Top
<1> QED
  BY <1>2, ProgramsAssumption DEF FrameType

LEMMA FramesTyped ==
  ASSUME TypeOK
  PROVE  \A i \in DOMAIN stack : stack[i].fn \in Functions /\ stack[i].addr \in Nat
<1>1. \A i \in DOMAIN stack : stack[i] \in FrameType
  BY DEF TypeOK
<1> QED
  BY <1>1 DEF FrameType

\* What a change of the top object's state does to the stack.
LEMMA SetTopChanges ==
  ASSUME TypeOK, stack # << >>, NEW s \in {"absent", "raw", "live"}, SetTop(s)
  PROVE  /\ stack' \in Seq(FrameType)
         /\ DOMAIN stack' = DOMAIN stack
         /\ \A i \in DOMAIN stack :
              /\ stack'[i].fn = stack[i].fn
              /\ stack'[i].addr = stack[i].addr
              /\ i # Len(stack) => stack'[i].object = stack[i].object
         /\ stack'[Len(stack)].object = s
<1>1. stack \in Seq(FrameType) /\ Len(stack) \in DOMAIN stack
  BY TopIsFrame DEF TypeOK
<1>2. \A i \in DOMAIN stack : stack[i] \in FrameType
  BY <1>1
<1>3. stack' = [stack EXCEPT ![Len(stack)].object = s]
  BY DEF SetTop
<1>4. [stack[Len(stack)] EXCEPT !.object = s] \in FrameType
  BY <1>1, <1>2 DEF FrameType
<1>5. stack' = [stack EXCEPT ![Len(stack)] = [stack[Len(stack)] EXCEPT !.object = s]]
  BY <1>1, <1>3
<1>6. stack' \in Seq(FrameType)
  BY <1>1, <1>4, <1>5
<1>7. \A i \in DOMAIN stack : i # Len(stack) => stack'[i] = stack[i]
  BY <1>1, <1>5
<1>8. stack'[Len(stack)] = [stack[Len(stack)] EXCEPT !.object = s]
  BY <1>1, <1>5
<1>9. DOMAIN stack' = DOMAIN stack
  BY <1>5
<1> QED
  BY <1>1, <1>2, <1>6, <1>7, <1>8, <1>9 DEF FrameType

LEMMA BelowIsPrefix ==
  ASSUME TypeOK, NEW n \in 0 .. Len(stack), stack' = SubSeq(stack, 1, n)
  PROVE  /\ stack' \in Seq(FrameType)
         /\ DOMAIN stack' = 1 .. n /\ 1 .. n \subseteq DOMAIN stack
         /\ \A i \in 1 .. n : stack'[i] = stack[i]
BY DEF TypeOK

-----------------------------------------------------------------------------
(* Type correctness *)

LEMMA TypeInit == Init => TypeOK
BY DEF Init, TypeOK

\* Every frame, entry and pass decision keeps its type, whatever the program.
THEOREM TypeCorrect == Spec => []TypeOK
<1>1. Init => TypeOK
  BY TypeInit
<1>2. TypeOK /\ [Next]_vars => TypeOK'
  <2> SUFFICES ASSUME TypeOK, [Next]_vars PROVE TypeOK'
    OBVIOUS
  <2>1. CASE UNCHANGED vars
    BY <2>1 DEF TypeOK, vars, FrameType, Map!Entries
  <2>2. ASSUME NEW f \in Functions, RunOnFunction(f) PROVE TypeOK'
    BY <2>2 DEF TypeOK, RunOnFunction, SetVisited
  <2>3. ASSUME NEW g \in Functions, Call(g) PROVE TypeOK'
    <3>1. Top.addr + FrameSize[Top.fn] \in Nat
      BY <2>3, TopIsFrame DEF Call
    <3>2. Frame(g, Top.addr + FrameSize[Top.fn]) \in FrameType
      BY <3>1 DEF Frame, FrameType
    <3>3. stack' \in Seq(FrameType)
      BY <2>3, <3>2 DEF Call, TypeOK
    <3> QED
      BY <2>3, <3>3 DEF Call, TypeOK
  <2>4. CASE Start
    <3>1. Frame(Main, 0) \in FrameType
      BY ProgramsAssumption DEF Frame, FrameType
    <3> QED
      BY <2>4, <3>1 DEF Start, TypeOK
  <2>5. CASE Construct
    BY <2>5, SetTopChanges DEF Construct, TypeOK
  <2>6. CASE Enter
    <3>1. stack' \in Seq(FrameType)
      BY <2>6, SetTopChanges DEF Enter
    <3>2. Top.addr \in Nat /\ SizeOf(Top.fn) \in Nat /\ Top.fn \in Functions
      BY <2>6, TopIsFrame DEF Enter, SizeOf
    <3>3. entries' \subseteq Map!Entries
      BY <2>6, <3>2 DEF Enter, Registered, Map!Register, Map!At, Map!Entries, TypeOK
    <3> QED
      BY <2>6, <3>1, <3>3 DEF Enter, TypeOK
  <2>7. CASE Exit
    <3>1. stack' \in Seq(FrameType)
      BY <2>7, SetTopChanges DEF Exit
    <3>2. entries' \subseteq Map!Entries
      BY <2>7 DEF Exit, Unregistered, Map!Unregister, Map!At, TypeOK
    <3> QED
      BY <2>7, <3>1, <3>2 DEF Exit, TypeOK
  <2>8. CASE Return
    <3>1. Len(stack) - 1 \in 0 .. Len(stack)
      BY <2>8, TopIsFrame DEF Return, TypeOK
    <3>2. stack' \in Seq(FrameType)
      BY <2>8, <3>1, BelowIsPrefix DEF Return, Below
    <3> QED
      BY <2>8, <3>2 DEF Return, TypeOK
  <2>9. ASSUME NEW depth \in 1 .. MaxDepth, Unwind(depth) PROVE TypeOK'
    <3>1. depth \in 0 .. Len(stack)
      BY <2>9 DEF Unwind, TypeOK
    <3>2. stack' \in Seq(FrameType)
      BY <2>9, <3>1, BelowIsPrefix DEF Unwind
    <3> QED
      BY <2>9, <3>2 DEF Unwind, TypeOK
  <2> QED
    BY <2>1, <2>2, <2>3, <2>4, <2>5, <2>6, <2>7, <2>8, <2>9 DEF Next
<1> QED
  BY <1>1, <1>2, PTL DEF Spec

-----------------------------------------------------------------------------
(* The tree mirrors the stack *)

LEMMA MirrorIsTraced ==
  ASSUME ~program.throws
  PROVE  TreeMirrorsStack <=> entries = {EntryOf(i) : i \in Traced}
BY DEF TreeMirrorsStack

\* When the top object changes state, only its own entry is affected.
LEMMA TracedElsewhere ==
  ASSUME TypeOK, stack # << >>, NEW s \in {"absent", "raw", "live"}, SetTop(s),
         UNCHANGED << program, pruned >>
  PROVE  /\ \A i \in DOMAIN stack : EntryOf(i)' = EntryOf(i)
         /\ s = "live" /\ IsTraced(Top.fn) =>
              Traced' = Traced \cup {Len(stack)}
         /\ ~(s = "live" /\ IsTraced(Top.fn)) =>
              Traced' = Traced \ {Len(stack)}
<1>1. Len(stack) \in DOMAIN stack
  BY TopIsFrame
<1>2. /\ DOMAIN stack' = DOMAIN stack
      /\ \A i \in DOMAIN stack :
           /\ stack'[i].fn = stack[i].fn
           /\ stack'[i].addr = stack[i].addr
           /\ i # Len(stack) => stack'[i].object = stack[i].object
      /\ stack'[Len(stack)].object = s
  BY SetTopChanges
<1>3. \A i \in DOMAIN stack : EntryOf(i)' = EntryOf(i)
  BY <1>2 DEF EntryOf
<1>4. \A i \in DOMAIN stack : i # Len(stack) => (i \in Traced' <=> i \in Traced)
  BY <1>2 DEF Traced, IsTraced
<1>5. Len(stack) \in Traced' <=> s = "live" /\ IsTraced(Top.fn)
  BY <1>1, <1>2 DEF Traced, IsTraced, Top
<1>6. Traced \subseteq DOMAIN stack /\ Traced' \subseteq DOMAIN stack
  BY <1>2 DEF Traced
<1> QED
  BY <1>1, <1>3, <1>4, <1>5, <1>6

\* Only the top frame's object can have an entry at the top frame's address.
LEMMA EntryAtTop ==
  ASSUME StackInv, stack # << >>, NEW i \in Traced
  PROVE  EntryOf(i).addr = Top.addr <=> i = Len(stack)
<1>1. i \in DOMAIN stack /\ Len(stack) \in DOMAIN stack /\ i \in Nat /\ i <= Len(stack)
  BY TopIsFrame DEF Traced, StackInv, TypeOK
<1>2. stack[i].addr \in Nat /\ Top.addr \in Nat
  BY <1>1, TopIsFrame, FramesTyped DEF StackInv
<1>3. i < Len(stack) => stack[i].addr < Top.addr
  BY <1>1 DEF StackInv, FramesApart, Top
<1>4. i < Len(stack) \/ i = Len(stack)
  BY <1>1
<1> QED
  BY <1>2, <1>3, <1>4 DEF EntryOf, Top

\* A prefix of the stack keeps what StackInv says of the frames.
LEMMA PrefixKeeps ==
  ASSUME StackInv, NEW n \in 0 .. Len(stack), stack' = SubSeq(stack, 1, n),
         UNCHANGED << program, pruned, visited >>
  PROVE  /\ FramesApart' /\ CompiledFirst'
         /\ Traced' = Traced \cap (1 .. n)
         /\ \A i \in Traced' : EntryOf(i)' = EntryOf(i)
<1>1. /\ DOMAIN stack' = 1 .. n /\ 1 .. n \subseteq DOMAIN stack
      /\ \A i \in 1 .. n : stack'[i] = stack[i]
  BY BelowIsPrefix DEF StackInv
<1>2. FramesApart'
  BY <1>1 DEF StackInv, FramesApart
<1>3. CompiledFirst'
  BY <1>1 DEF StackInv, CompiledFirst, Compiled, TypeOK
<1>4. Traced' = Traced \cap (1 .. n)
  BY <1>1 DEF Traced, IsTraced
<1>5. \A i \in Traced' : EntryOf(i)' = EntryOf(i)
  BY <1>1, <1>4 DEF EntryOf
<1> QED
  BY <1>2, <1>3, <1>4, <1>5

LEMMA StackInvInit == Init => StackInv
BY TypeInit
DEF Init, StackInv, CompiledFirst, FramesApart, TreeMirrorsStack, Traced

\* No action lets two frames overlap, or runs before the pass is through.
LEMMA FramesStep ==
  ASSUME StackInv, [Next]_vars
  PROVE  FramesApart' /\ CompiledFirst'
<1> USE DEF StackInv
<1>1. CASE UNCHANGED vars
  BY <1>1 DEF vars, CompiledFirst, Compiled, FramesApart
<1>2. ASSUME NEW f \in Functions, RunOnFunction(f)
      PROVE  FramesApart' /\ CompiledFirst'
  BY <1>2 DEF RunOnFunction, CompiledFirst, Compiled, FramesApart
<1>3. ASSUME NEW g \in Functions, Call(g) PROVE FramesApart' /\ CompiledFirst'
  <2> DEFINE new == Frame(g, Top.addr + FrameSize[Top.fn])
  <2>1. stack # << >> /\ stack' = Append(stack, new)
        /\ UNCHANGED visited
    BY <1>3 DEF Call
  <2>2. /\ DOMAIN stack' = DOMAIN stack \cup {Len(stack) + 1}
        /\ \A i \in DOMAIN stack : stack'[i] = stack[i]
        /\ stack'[Len(stack) + 1] = new
    BY <2>1 DEF TypeOK
  <2>3. Len(stack) \in Nat /\ DOMAIN stack = 1 .. Len(stack)
    BY DEF TypeOK
  <2>4. \A i \in DOMAIN stack : stack[i].addr < new.addr
    <3>1. Top.addr \in Nat /\ FrameSize[Top.fn] \in Nat \ {0}
      BY <2>1, TopIsFrame
    <3>2. new.addr = Top.addr + FrameSize[Top.fn]
      BY DEF Frame
    <3>3. Top.addr < new.addr
      BY <3>1, <3>2
    <3>4. ASSUME NEW i \in DOMAIN stack PROVE stack[i].addr <= Top.addr
      <4>1. i < Len(stack) \/ i = Len(stack)
        BY <2>3
      <4>2. stack[i].addr \in Nat
        BY FramesTyped
      <4>3. i < Len(stack) => stack[i].addr < Top.addr
        BY <2>1, TopIsFrame DEF FramesApart, Top
      <4> QED
        BY <3>1, <4>1, <4>2, <4>3 DEF Top
    <3>5. \A i \in DOMAIN stack : stack[i].addr \in Nat
      BY FramesTyped
    <3> QED
      BY <3>1, <3>2, <3>3, <3>4, <3>5
  <2>5. FramesApart'
    <3> SUFFICES ASSUME NEW i \in DOMAIN stack', NEW j \in DOMAIN stack', i < j
                 PROVE  stack'[i].addr < stack'[j].addr
      BY DEF FramesApart
    <3>1. i \in DOMAIN stack
      BY <2>2, <2>3
    <3>2. CASE j \in DOMAIN stack
      BY <2>2, <3>1, <3>2 DEF FramesApart
    <3>3. CASE j = Len(stack) + 1
      BY <2>2, <2>4, <3>1, <3>3
    <3> QED
      BY <2>2, <3>2, <3>3
  <2> QED
    BY <2>1, <2>5 DEF CompiledFirst, Compiled
<1>4. CASE Start
  <2>1. DOMAIN stack' = {1}
    BY <1>4 DEF Start
  <2> QED
    BY <1>4, <2>1 DEF FramesApart, Start, CompiledFirst, Compiled
<1>5. ASSUME NEW s \in {"absent", "raw", "live"}, stack # << >>, SetTop(s),
             UNCHANGED << program, visited, pruned >>
      PROVE  FramesApart' /\ CompiledFirst'
  <2>1. /\ DOMAIN stack' = DOMAIN stack
        /\ \A i \in DOMAIN stack : stack'[i].addr = stack[i].addr
    BY <1>5, SetTopChanges
  <2> QED
    BY <1>5, <2>1 DEF FramesApart, CompiledFirst, Compiled
<1>6. CASE Construct
  BY <1>5, <1>6 DEF Construct
<1>7. CASE Enter
  BY <1>5, <1>7 DEF Enter
<1>8. CASE Exit
  BY <1>5, <1>8 DEF Exit
<1>9. CASE Return
  <2>1. Len(stack) - 1 \in 0 .. Len(stack)
    BY <1>9, TopIsFrame DEF Return, TypeOK
  <2> QED
    BY <1>9, <2>1, PrefixKeeps DEF Return, Below
<1>10. ASSUME NEW depth \in 1 .. MaxDepth, Unwind(depth)
       PROVE  FramesApart' /\ CompiledFirst'
  <2>1. depth \in 0 .. Len(stack)
    BY <1>10 DEF Unwind, TypeOK
  <2> QED
    BY <1>10, <2>1, PrefixKeeps DEF Unwind
<1> QED
  BY <1>1, <1>2, <1>3, <1>4, <1>6, <1>7, <1>8, <1>9, <1>10 DEF Next

LEMMA MirrorStep ==
  ASSUME StackInv, ~program.throws, [Next]_vars
  PROVE  TreeMirrorsStack'
<1> USE DEF StackInv
<1>1. CASE UNCHANGED vars
  BY <1>1 DEF vars, TreeMirrorsStack, Traced, EntryOf, IsTraced
<1>2. ASSUME NEW f \in Functions, RunOnFunction(f) PROVE TreeMirrorsStack'
  <2>1. stack = << >>
    BY <1>2 DEF RunOnFunction, CompiledFirst, Compiled
  <2>2. stack' = << >> /\ entries' = entries
    BY <1>2, <2>1 DEF RunOnFunction
  <2>3. entries = {}
    BY <2>1 DEF TreeMirrorsStack, Traced
  <2> QED
    BY <2>2, <2>3 DEF TreeMirrorsStack, Traced
<1>3. ASSUME NEW g \in Functions, Call(g) PROVE TreeMirrorsStack'
  <2> DEFINE new == Frame(g, Top.addr + FrameSize[Top.fn])
  <2>1. stack # << >> /\ stack' = Append(stack, new)
        /\ UNCHANGED << program, visited, pruned, entries >>
    BY <1>3 DEF Call
  <2>2. /\ DOMAIN stack' = DOMAIN stack \cup {Len(stack) + 1}
        /\ \A i \in DOMAIN stack : stack'[i] = stack[i]
        /\ stack'[Len(stack) + 1] = new
    BY <2>1 DEF TypeOK
  <2>3. Len(stack) \in Nat /\ DOMAIN stack = 1 .. Len(stack)
    BY DEF TypeOK
  <2>4. Traced' = Traced
    <3>1. new.object # "live"
      BY DEF Frame
    <3> QED
      BY <2>1, <2>2, <2>3, <3>1 DEF Traced, IsTraced
  <2>5. \A i \in Traced : EntryOf(i)' = EntryOf(i)
    BY <2>2 DEF Traced, EntryOf
  <2>6. entries' = {EntryOf(i)' : i \in Traced'}
    BY <2>1, <2>4, <2>5, MirrorIsTraced
  <2> QED
    BY <2>6 DEF TreeMirrorsStack
<1>4. CASE Start
  <2>1. stack' = << Frame(Main, 0) >> /\ entries' = entries /\ stack = << >>
    BY <1>4 DEF Start
  <2>2. entries = {}
    BY <2>1 DEF TreeMirrorsStack, Traced
  <2>3. DOMAIN stack' = {1} /\ stack'[1].object = "absent"
    BY <2>1 DEF Frame
  <2> QED
    BY <2>1, <2>2, <2>3 DEF TreeMirrorsStack, Traced
<1>6. CASE Construct
  <2>1. stack # << >> /\ SetTop("raw") /\ Top.object = "absent"
        /\ UNCHANGED << program, visited, pruned, entries >>
    BY <1>6 DEF Construct
  <2>2. /\ \A i \in DOMAIN stack : EntryOf(i)' = EntryOf(i)
        /\ Traced' = Traced \ {Len(stack)}
    BY <2>1, TracedElsewhere
  <2>3. Len(stack) \notin Traced
    BY <2>1 DEF Traced, Top
  <2>4. entries' = {EntryOf(i)' : i \in Traced'}
    BY <2>1, <2>2, <2>3, MirrorIsTraced DEF Traced
  <2> QED
    BY <2>4 DEF TreeMirrorsStack
<1>7. CASE Enter
  <2>1. stack # << >> /\ SetTop("live") /\ Top.object = "raw"
        /\ UNCHANGED << program, visited, pruned >>
    BY <1>7 DEF Enter
  <2>2. Len(stack) \notin Traced
    BY <2>1 DEF Traced, Top
  <2>3. \A i \in DOMAIN stack : EntryOf(i)' = EntryOf(i)
    BY <2>1, TracedElsewhere
  <2>4. ASSUME IsTraced(Top.fn) PROVE TreeMirrorsStack'
    <3>1. Traced' = Traced \cup {Len(stack)}
      BY <2>1, <2>4, TracedElsewhere
    <3>2. Map!At(Top.addr) = {}
      BY <2>1, <2>2, EntryAtTop, MirrorIsTraced DEF Map!At
    <3>3. entries' = entries \cup {EntryOf(Len(stack))}
      BY <1>7, <2>4, <3>2
      DEF Enter, Registered, SizeOf, Map!Register, EntryOf, Top
    <3>4. Len(stack) \in DOMAIN stack /\ Traced \subseteq DOMAIN stack
      BY <2>1, TopIsFrame DEF Traced
    <3>5. entries' = {EntryOf(i)' : i \in Traced'}
      BY <2>3, <3>1, <3>3, <3>4, MirrorIsTraced
    <3> QED
      BY <3>5 DEF TreeMirrorsStack
  <2>5. ASSUME ~IsTraced(Top.fn) PROVE TreeMirrorsStack'
    <3>1. Traced' = Traced
      BY <2>1, <2>2, <2>5, TracedElsewhere
    <3>2. entries' = entries
      BY <1>7, <2>5 DEF Enter
    <3>3. entries' = {EntryOf(i)' : i \in Traced'}
      BY <2>3, <3>1, <3>2, MirrorIsTraced DEF Traced
    <3> QED
      BY <3>3 DEF TreeMirrorsStack, Traced
  <2> QED
    BY <2>4, <2>5
<1>8. CASE Exit
  <2>1. stack # << >> /\ SetTop("absent") /\ Top.object = "live"
        /\ UNCHANGED << program, visited, pruned >>
    BY <1>8 DEF Exit
  <2>2. /\ \A i \in DOMAIN stack : EntryOf(i)' = EntryOf(i)
        /\ Traced' = Traced \ {Len(stack)}
    BY <2>1, TracedElsewhere
  <2>3. entries' = {EntryOf(i) : i \in Traced \ {Len(stack)}}
    <3>1. CASE IsTraced(Top.fn)
      <4>1. entries' = {e \in entries : e.addr # Top.addr}
        BY <1>8, <3>1 DEF Exit, Unregistered, Map!Unregister, Map!At
      <4> QED
        BY <2>1, <4>1, EntryAtTop, MirrorIsTraced
    <3>2. CASE ~IsTraced(Top.fn)
      <4>1. Len(stack) \notin Traced
        BY <3>2 DEF Traced, Top
      <4>2. entries' = entries
        BY <1>8, <3>2 DEF Exit
      <4> QED
        BY <4>1, <4>2, MirrorIsTraced
    <3> QED
      BY <3>1, <3>2
  <2>4. entries' = {EntryOf(i)' : i \in Traced'}
    BY <2>2, <2>3 DEF Traced
  <2> QED
    BY <2>4 DEF TreeMirrorsStack
<1>9. CASE Return
  <2>1. stack # << >> /\ Top.object = "absent" /\ stack' = SubSeq(stack, 1, Len(stack) - 1)
        /\ UNCHANGED << program, visited, pruned, entries >>
    BY <1>9 DEF Return, Below
  <2>2. Len(stack) - 1 \in 0 .. Len(stack) /\ Len(stack) \in Nat
    BY <2>1, TopIsFrame DEF TypeOK
  <2>3. /\ FramesApart' /\ CompiledFirst'
        /\ Traced' = Traced \cap (1 .. Len(stack) - 1)
        /\ \A i \in Traced' : EntryOf(i)' = EntryOf(i)
    BY <2>1, <2>2, PrefixKeeps
  <2>4. Len(stack) \notin Traced
    BY <2>1 DEF Traced, Top
  <2>5. ASSUME NEW i \in Traced PROVE i \in 1 .. Len(stack) - 1
    <3>1. i \in 1 .. Len(stack)
      BY DEF Traced, TypeOK
    <3>2. i # Len(stack)
      BY <2>4
    <3> QED
      BY <2>2, <3>1, <3>2
  <2>6. Traced' = Traced
    BY <2>3, <2>5
  <2>7. entries' = {EntryOf(i)' : i \in Traced'}
    BY <2>1, <2>3, <2>6, MirrorIsTraced
  <2> QED
    BY <2>7 DEF TreeMirrorsStack
<1>10. ASSUME NEW depth \in 1 .. MaxDepth, Unwind(depth) PROVE TreeMirrorsStack'
  BY <1>10 DEF Unwind
<1> QED
  BY <1>1, <1>2, <1>3, <1>4, <1>6, <1>7, <1>8, <1>9, <1>10 DEF Next

LEMMA StackInvStep ==
  ASSUME StackInv, TypeOK', [Next]_vars
  PROVE  StackInv'
<1>1. CASE ~program.throws
  BY <1>1, FramesStep, MirrorStep DEF StackInv
<1>2. CASE program.throws
  <2>1. program' = program
    BY DEF Next, vars, RunOnFunction, Call, Start, Construct, Enter, Exit, Return,
       Unwind
  <2>2. TreeMirrorsStack'
    BY <1>2, <2>1 DEF TreeMirrorsStack
  <2> QED
    BY <2>2, FramesStep DEF StackInv
<1> QED
  BY <1>1, <1>2

\* In a program that does not throw, the tree of a thread is exactly the live
\* objects of the functions that were not pruned.
THEOREM MirrorCorrect == Spec => []TreeMirrorsStack
<1>1. Init => StackInv
  BY StackInvInit
<1>2. StackInv /\ TypeOK' /\ [Next]_vars => StackInv'
  BY StackInvStep
<1>3. StackInv => TreeMirrorsStack
  BY DEF StackInv
<1> QED
  BY <1>1, <1>2, <1>3, TypeCorrect, PTL DEF Spec

-----------------------------------------------------------------------------
(* Pruning loses no check *)

LEMMA PruningInvInit == Init => PruningInv
BY DEF Init, PruningInv, PrunedRight, FramesReached, ObjectsAreLocals

\* A step of the run that only changes the state of the top object, or cuts
\* frames off the top.
LEMMA PruningInvFrames ==
  ASSUME PruningInv, UNCHANGED << program, visited, pruned >>,
         DOMAIN stack' \subseteq DOMAIN stack,
         \A i \in DOMAIN stack' :
           /\ stack'[i].fn = stack[i].fn
           /\ stack'[i].object # "absent" => stack[i].fn \in program.locals
  PROVE  PruningInv'
<1>1. PrunedRight'
  BY DEF PruningInv, PrunedRight, IsInvokeStack, IsAnyCalleesInvokeCast,
     Reachable, Closed, Calls
<1>2. ObjectsAreLocals'
  BY DEF PruningInv, ObjectsAreLocals
<1>3. FramesReached'
  BY DEF PruningInv, FramesReached, Reachable, Closed, Calls
<1> QED
  BY <1>1, <1>2, <1>3 DEF PruningInv

LEMMA PruningInvSetTop ==
  ASSUME TypeOK, PruningInv, stack # << >>, Top.fn \in program.locals,
         NEW s \in {"absent", "raw", "live"}, SetTop(s),
         UNCHANGED << program, visited, pruned >>
  PROVE  PruningInv'
<1>1. /\ DOMAIN stack' = DOMAIN stack
      /\ \A i \in DOMAIN stack :
           /\ stack'[i].fn = stack[i].fn
           /\ i # Len(stack) => stack'[i].object = stack[i].object
  BY SetTopChanges
<1>2. \A i \in DOMAIN stack' :
        stack'[i].object # "absent" => stack[i].fn \in program.locals
  BY <1>1 DEF PruningInv, ObjectsAreLocals, Top
<1> QED
  BY <1>1, <1>2, PruningInvFrames

LEMMA PruningInvStep ==
  ASSUME StackInv, PruningInv, [Next]_vars
  PROVE  PruningInv'
<1> USE DEF StackInv
<1>1. CASE UNCHANGED vars
  BY <1>1, PruningInvFrames DEF vars, PruningInv, ObjectsAreLocals
<1>2. ASSUME NEW f \in Functions, RunOnFunction(f) PROVE PruningInv'
  <2>1. stack = << >> /\ stack' = << >>
    BY <1>2 DEF RunOnFunction, CompiledFirst, Compiled
  <2>2. PrunedRight'
    <3>1. /\ visited' = visited \cup {f} /\ f \notin visited
          /\ pruned' = IF IsInvokeStack(f) /\ ~IsAnyCalleesInvokeCast(f)
                         THEN pruned \cup {f} ELSE pruned
          /\ program' = program
      BY <1>2 DEF RunOnFunction, SetVisited
    <3>2. \A g \in Functions :
            /\ IsInvokeStack(g)' <=> IsInvokeStack(g)
            /\ IsAnyCalleesInvokeCast(g)' <=> IsAnyCalleesInvokeCast(g)
      BY <3>1 DEF IsInvokeStack, IsAnyCalleesInvokeCast, Reachable, Closed, Calls
    <3>3. visited' \subseteq Functions
      BY <3>1 DEF TypeOK
    <3>4. pruned' = {g \in visited' : IsInvokeStack(g) /\ ~IsAnyCalleesInvokeCast(g)}
      BY <3>1 DEF PruningInv, PrunedRight
    <3> QED
      BY <3>2, <3>3, <3>4 DEF PrunedRight
  <2>3. FramesReached' /\ ObjectsAreLocals'
    BY <2>1 DEF FramesReached, ObjectsAreLocals
  <2> QED
    BY <2>2, <2>3 DEF PruningInv
<1>3. ASSUME NEW g \in Functions, Call(g) PROVE PruningInv'
  <2> DEFINE new == Frame(g, Top.addr + FrameSize[Top.fn])
  <2>1. stack # << >> /\ stack' = Append(stack, new)
        /\ UNCHANGED << program, visited, pruned >>
    BY <1>3 DEF Call
  <2>2. /\ DOMAIN stack' = DOMAIN stack \cup {Len(stack) + 1}
        /\ \A i \in DOMAIN stack : stack'[i] = stack[i]
        /\ stack'[Len(stack) + 1] = new
    BY <2>1 DEF TypeOK
  <2>3. Len(stack) \in Nat /\ DOMAIN stack = 1 .. Len(stack)
    BY DEF TypeOK
  <2>4. new.fn = g /\ new.object = "absent"
    BY DEF Frame
  <2>5. program.indirect = {} => g \in Calls(Top.fn)
    BY <1>3 DEF Call
  <2>6. ASSUME program.indirect = {}, NEW i \in DOMAIN stack
        PROVE  g \in Reachable(stack[i].fn)
    <3>1. Top.fn \in Reachable(stack[i].fn)
      BY <2>1, <2>3, <2>6, TopIsFrame DEF PruningInv, FramesReached, Top
    <3>2. stack[i].fn \in Functions
      BY FramesTyped
    <3> QED
      BY <2>5, <2>6, <3>1, <3>2, ReachableClosed
  <2>7. g \in Reachable(g)
    BY ReachableClosed
  <2>9. FramesReached'
    <3> SUFFICES ASSUME program.indirect = {},
                        NEW i \in DOMAIN stack', NEW j \in DOMAIN stack', i <= j
                 PROVE  stack'[j].fn \in Reachable(stack'[i].fn)
      BY <2>1 DEF FramesReached, Reachable, Closed, Calls
    <3>1. CASE j \in DOMAIN stack
      <4>1. i \in DOMAIN stack
        BY <2>2, <2>3, <3>1
      <4>2. stack[j].fn \in Reachable(stack[i].fn)
        BY <3>1, <4>1 DEF PruningInv, FramesReached
      <4>3. stack[i].fn \in Functions /\ stack'[i] = stack[i] /\ stack'[j] = stack[j]
        BY <2>2, <3>1, <4>1, FramesTyped
      <4> QED
        BY <4>2, <4>3
    <3>2. CASE j = Len(stack) + 1 /\ i \in DOMAIN stack
      <4>1. stack[i].fn \in Functions /\ stack'[i] = stack[i] /\ stack'[j].fn = g
        BY <2>2, <2>4, <3>2, FramesTyped
      <4> QED
        BY <2>6, <3>2, <4>1
    <3>3. CASE j = Len(stack) + 1 /\ i = Len(stack) + 1
      <4>1. stack'[i].fn = g /\ stack'[j].fn = g
        BY <2>2, <2>4, <3>3
      <4> QED
        BY <2>7, <4>1
    <3> QED
      BY <2>2, <3>1, <3>2, <3>3
  <2>10. ObjectsAreLocals'
    BY <2>1, <2>2, <2>4 DEF PruningInv, ObjectsAreLocals
  <2>11. PrunedRight'
    BY <2>1 DEF PruningInv, PrunedRight, IsInvokeStack, IsAnyCalleesInvokeCast,
       Reachable, Closed, Calls
  <2> QED
    BY <2>9, <2>10, <2>11 DEF PruningInv
<1>4. CASE Start
  <2>1. stack' = << Frame(Main, 0) >> /\ UNCHANGED << program, visited, pruned >>
    BY <1>4 DEF Start
  <2>2. DOMAIN stack' = {1} /\ stack'[1].object = "absent" /\ stack'[1].fn = Main
    BY <2>1 DEF Frame
  <2>3. Reachable(Main)' = Reachable(Main) /\ Main \in Reachable(Main)
    BY <2>1, ReachableClosed, ProgramsAssumption DEF Reachable, Closed, Calls
  <2>4. FramesReached'
    BY <2>2, <2>3 DEF FramesReached
  <2>5. ObjectsAreLocals'
    BY <2>2 DEF ObjectsAreLocals
  <2>6. PrunedRight'
    BY <2>1 DEF PruningInv, PrunedRight, IsInvokeStack, IsAnyCalleesInvokeCast,
       Reachable, Closed, Calls
  <2> QED
    BY <2>4, <2>5, <2>6 DEF PruningInv
<1>5. CASE Construct
  BY <1>5, PruningInvSetTop DEF Construct
<1>6. ASSUME stack # << >>, Top.object # "absent" PROVE Top.fn \in program.locals
  BY <1>6, TopIsFrame DEF PruningInv, ObjectsAreLocals, Top
<1>7. CASE Enter
  BY <1>6, <1>7, PruningInvSetTop DEF Enter
<1>8. CASE Exit
  BY <1>6, <1>8, PruningInvSetTop DEF Exit
<1>9. CASE Return
  <2>1. stack # << >> /\ stack' = SubSeq(stack, 1, Len(stack) - 1)
        /\ UNCHANGED << program, visited, pruned >>
    BY <1>9 DEF Return, Below
  <2>2. Len(stack) - 1 \in 0 .. Len(stack)
    BY <2>1, TopIsFrame DEF TypeOK
  <2>3. /\ DOMAIN stack' \subseteq DOMAIN stack
        /\ \A i \in DOMAIN stack' : stack'[i] = stack[i]
    BY <2>1, <2>2, BelowIsPrefix
  <2> QED
    BY <2>1, <2>3, PruningInvFrames DEF PruningInv, ObjectsAreLocals
<1>10. ASSUME NEW depth \in 1 .. MaxDepth, Unwind(depth) PROVE PruningInv'
  <2>1. depth \in 0 .. Len(stack)
    BY <1>10 DEF Unwind, TypeOK
  <2>2. /\ DOMAIN stack' \subseteq DOMAIN stack
        /\ \A i \in DOMAIN stack' : stack'[i] = stack[i]
    BY <1>10, <2>1, BelowIsPrefix DEF Unwind
  <2> QED
    BY <1>10, <2>2, PruningInvFrames DEF Unwind, PruningInv, ObjectsAreLocals
<1> QED
  BY <1>1, <1>2, <1>3, <1>4, <1>5, <1>7, <1>8, <1>9, <1>10 DEF Next

\* A frame's function reaches the function that runs, so if that one casts the
\* pass has kept the frame's object.
LEMMA PruningKeepsObjects == StackInv /\ PruningInv => PruningIsSafe
<1> SUFFICES ASSUME StackInv, PruningInv, ~program.throws, program.indirect = {},
                    stack # << >>, Top.fn \in program.casts,
                    NEW i \in DOMAIN stack, stack[i].object = "live"
             PROVE  EntryOf(i) \in entries
  BY DEF PruningIsSafe, CastsSeeLiveObjects
<1>1. Len(stack) \in DOMAIN stack /\ i <= Len(stack)
  BY TopIsFrame DEF StackInv, TypeOK
<1>2. Top.fn \in Reachable(stack[i].fn)
  BY <1>1 DEF PruningInv, FramesReached, Top
<1>3. stack[i].fn \notin pruned
  BY <1>2 DEF PruningInv, PrunedRight, IsAnyCalleesInvokeCast
<1>4. stack[i].fn \in program.locals
  BY DEF PruningInv, ObjectsAreLocals
<1>5. i \in Traced
  BY <1>3, <1>4 DEF Traced, IsTraced
<1> QED
  BY <1>5, MirrorIsTraced DEF StackInv

\* In a program without exceptions whose calls are all direct, every live
\* object of every caller is in the tree when a function may cast: the pass
\* erases no tracing that a check depends on, whatever the call graph.
THEOREM PruningCorrect == Spec => []PruningIsSafe
<1>1. Init => StackInv /\ PruningInv
  BY StackInvInit, PruningInvInit
<1>2. StackInv /\ PruningInv /\ TypeOK' /\ [Next]_vars => (StackInv /\ PruningInv)'
  BY StackInvStep, PruningInvStep
<1>3. StackInv /\ PruningInv => PruningIsSafe
  BY PruningKeepsObjects
<1> QED
  BY <1>1, <1>2, <1>3, TypeCorrect, PTL DEF Spec
-----------------------------------------------------------------------------
(* What an exception leaves *)

\* An entry of the tree that shows frame i's object under its own type.
Shown(i) ==
  \E e \in entries : e.addr = stack[i].addr /\ e.value = stack[i].fn

\* A frame is shown as long as its entry, or one with its address and type, is
\* in the tree.
LEMMA ShownStays ==
  ASSUME NEW i \in Traced, LiveObjectsHaveTheirType, EntryOf(i)' = EntryOf(i),
         \A e \in entries : e.addr = stack[i].addr => e \in entries'
  PROVE  Shown(i)'
<1>1. PICK e \in entries : e.addr = stack[i].addr /\ e.value = stack[i].fn
  BY DEF LiveObjectsHaveTheirType
<1>2. stack'[i].addr = stack[i].addr /\ stack'[i].fn = stack[i].fn
  BY DEF EntryOf
<1>3. e \in entries'
  BY <1>1
<1> QED
  BY <1>1, <1>2, <1>3 DEF Shown

\* What the tree has at an address once an object was registered there.
LEMMA RegisteredIsShown ==
  ASSUME TypeOK, NEW a, NEW s, NEW f, Registered(a, s, f)
  PROVE  /\ \E e \in entries' : e.addr = a /\ e.value = f
         /\ \A e \in entries : e.addr # a => e \in entries'
<1>1. CASE Map!At(a) = {}
  <2> DEFINE new == [addr |-> a, size |-> s, value |-> f]
  <2>1. entries' = entries \cup {new}
    BY <1>1 DEF Registered, Map!Register
  <2>2. new \in entries' /\ new.addr = a /\ new.value = f
    BY <2>1
  <2> QED
    BY <2>1, <2>2
<1>2. CASE Map!At(a) # {}
  <2>1. PICK old : old \in Map!At(a)
    BY <1>2
  <2> DEFINE new == [old EXCEPT !.value = f]
  <2>2. entries' = (entries \ Map!At(a)) \cup {[e EXCEPT !.value = f] : e \in Map!At(a)}
    BY <1>2 DEF Registered, Map!Register
  <2>3. old \in Map!Entries /\ old.addr = a
    BY <2>1 DEF Map!At, TypeOK
  <2>4. new \in entries' /\ new.addr = a /\ new.value = f
    BY <2>1, <2>2, <2>3 DEF Map!Entries
  <2>5. \A e \in entries : e.addr # a => e \in entries'
    BY <2>2 DEF Map!At
  <2> QED
    BY <2>4, <2>5
<1> QED
  BY <1>1, <1>2

LEMMA ShownStep ==
  ASSUME StackInv, TypeOK', LiveObjectsHaveTheirType, [Next]_vars
  PROVE  LiveObjectsHaveTheirType'
<1> USE DEF StackInv
<1> SUFFICES ASSUME NEW i \in Traced' PROVE Shown(i)'
  BY DEF LiveObjectsHaveTheirType, Shown
<1>1. CASE UNCHANGED vars
  BY <1>1, ShownStays DEF vars, Traced, EntryOf, IsTraced
<1>2. ASSUME NEW f \in Functions, RunOnFunction(f) PROVE Shown(i)'
  <2>1. stack = << >> /\ stack' = stack
    BY <1>2 DEF RunOnFunction, CompiledFirst, Compiled
  <2> QED
    BY <2>1 DEF Traced
<1>3. ASSUME NEW g \in Functions, Call(g) PROVE Shown(i)'
  <2> DEFINE new == Frame(g, Top.addr + FrameSize[Top.fn])
  <2>1. stack' = Append(stack, new) /\ UNCHANGED << program, pruned, entries >>
    BY <1>3 DEF Call
  <2>2. /\ DOMAIN stack' = DOMAIN stack \cup {Len(stack) + 1}
        /\ \A j \in DOMAIN stack : stack'[j] = stack[j]
        /\ stack'[Len(stack) + 1] = new
    BY <2>1 DEF TypeOK
  <2>3. i \in Traced
    BY <2>1, <2>2 DEF Traced, IsTraced, Frame
  <2>4. EntryOf(i)' = EntryOf(i)
    BY <2>2, <2>3 DEF Traced, EntryOf
  <2> QED
    BY <2>1, <2>3, <2>4, ShownStays
<1>4. CASE Start
  <2>1. DOMAIN stack' = {1} /\ stack'[1].object = "absent"
    BY <1>4 DEF Start, Frame
  <2> QED
    BY <2>1 DEF Traced
<1>5. CASE Construct
  <2>1. stack # << >> /\ SetTop("raw") /\ UNCHANGED << program, pruned, entries >>
    BY <1>5 DEF Construct
  <2>2. i \in Traced /\ EntryOf(i)' = EntryOf(i)
    BY <2>1, TracedElsewhere DEF Traced
  <2> QED
    BY <2>1, <2>2, ShownStays
<1>6. CASE Enter
  <2>1. stack # << >> /\ SetTop("live") /\ Top.object = "raw"
        /\ UNCHANGED << program, pruned >>
    BY <1>6 DEF Enter
  <2>2. /\ \A j \in DOMAIN stack : EntryOf(j)' = EntryOf(j)
        /\ IsTraced(Top.fn) => Traced' = Traced \cup {Len(stack)}
        /\ ~IsTraced(Top.fn) => Traced' = Traced \ {Len(stack)}
    BY <2>1, TracedElsewhere
  <2>3. CASE ~IsTraced(Top.fn)
    <3>1. i \in Traced /\ EntryOf(i)' = EntryOf(i) /\ entries' = entries
      BY <1>6, <2>2, <2>3 DEF Enter, Traced
    <3> QED
      BY <3>1, ShownStays
  <2>4. CASE IsTraced(Top.fn)
    <3>1. /\ \E e \in entries' : e.addr = Top.addr /\ e.value = Top.fn
          /\ \A e \in entries : e.addr # Top.addr => e \in entries'
      BY <1>6, <2>4, RegisteredIsShown DEF Enter
    <3>2. CASE i = Len(stack)
      <4>1. stack'[i].addr = Top.addr /\ stack'[i].fn = Top.fn
        BY <2>1, <3>2, SetTopChanges, TopIsFrame DEF Top
      <4> QED
        BY <3>1, <4>1 DEF Shown
    <3>3. CASE i # Len(stack)
      <4>1. i \in Traced /\ EntryOf(i)' = EntryOf(i)
        BY <2>2, <2>4, <3>3 DEF Traced
      <4>2. stack[i].addr # Top.addr
        BY <2>1, <3>3, <4>1, EntryAtTop DEF EntryOf
      <4>3. \A e \in entries : e.addr = stack[i].addr => e \in entries'
        BY <3>1, <4>2
      <4> QED
        BY <4>1, <4>3, ShownStays
    <3> QED
      BY <3>2, <3>3
  <2> QED
    BY <2>3, <2>4
<1>7. CASE Exit
  <2>1. stack # << >> /\ SetTop("absent") /\ UNCHANGED << program, pruned >>
    BY <1>7 DEF Exit
  <2>2. i \in Traced \ {Len(stack)} /\ EntryOf(i)' = EntryOf(i)
    BY <2>1, TracedElsewhere DEF Traced
  <2>3. stack[i].addr # Top.addr
    BY <2>1, <2>2, EntryAtTop DEF EntryOf
  <2>4. \A e \in entries : e.addr = stack[i].addr => e \in entries'
    BY <1>7, <2>3 DEF Exit, Unregistered, Map!Unregister, Map!At
  <2> QED
    BY <2>2, <2>4, ShownStays
<1>8. ASSUME NEW n \in 0 .. Len(stack), stack' = SubSeq(stack, 1, n),
             UNCHANGED << program, pruned, visited, entries >>
      PROVE  Shown(i)'
  <2>1. i \in Traced /\ EntryOf(i)' = EntryOf(i)
    BY <1>8, PrefixKeeps
  <2> QED
    BY <1>8, <2>1, ShownStays
<1>9. CASE Return
  <2>1. Len(stack) - 1 \in 0 .. Len(stack)
    BY <1>9, TopIsFrame DEF Return, TypeOK
  <2> QED
    BY <1>8, <1>9, <2>1 DEF Return, Below
<1>10. ASSUME NEW depth \in 1 .. MaxDepth, Unwind(depth) PROVE Shown(i)'
  <2>1. depth \in 0 .. Len(stack)
    BY <1>10 DEF Unwind, TypeOK
  <2> QED
    BY <1>8, <1>10, <2>1 DEF Unwind
<1> QED
  BY <1>1, <1>2, <1>3, <1>4, <1>5, <1>6, <1>7, <1>9, <1>10 DEF Next

\* Exceptions or not: a live object that is traced is in the tree under its own
\* type, whatever the frames that were unwound left at its address.
THEOREM ShownCorrect == Spec => []LiveObjectsHaveTheirType
<1>1. Init => StackInv /\ LiveObjectsHaveTheirType
  BY StackInvInit DEF Init, LiveObjectsHaveTheirType, Traced
<1>2. StackInv /\ LiveObjectsHaveTheirType /\ TypeOK' /\ [Next]_vars
        => (StackInv /\ LiveObjectsHaveTheirType)'
  BY StackInvStep, ShownStep
<1> QED
  BY <1>1, <1>2, TypeCorrect, PTL DEF Spec
=============================================================================
