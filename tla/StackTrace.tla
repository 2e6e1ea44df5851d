----------------------------- MODULE StackTrace -----------------------------
(***************************************************************************)
(* How the tree of a thread's stack objects follows the stack, from the    *)
(* instrumentation clang emits (CGDecl.cpp) and the pass that prunes it    *)
(* (CverPruneStack.cpp) to __cver_handle_stack_enter and _exit.            *)
(*                                                                         *)
(* A program is compiled: the pass decides, function by function, whether  *)
(* the calls that trace its local object are erased.  Then it runs: a      *)
(* stack of frames grows and shrinks, and frames of different functions    *)
(* come to lie at the same addresses.  A function has at most one local    *)
(* object of class type, which lives at the start of its frame.            *)
(***************************************************************************)
EXTENDS Naturals, Sequences

CONSTANTS
  Functions,
  Main,       \* the function the program starts in
  FrameSize,  \* of each function; its object is as large
  Programs,   \* see ProgramsAssumption
  MaxDepth    \* bound: frames on the stack

\* calls: the functions a function calls directly.  locals: the functions with
\* a local object.  casts: those that call __cver_handle_cast themselves.
\* indirect: those that also call through pointers, or out of the module.
\* throws: whether exceptions may unwind the stack.
ASSUME ProgramsAssumption ==
  /\ Main \in Functions
  /\ FrameSize \in [Functions -> Nat \ {0}]
  /\ Programs \subseteq [calls : [Functions -> SUBSET Functions],
                         locals : SUBSET Functions,
                         casts : SUBSET Functions,
                         indirect : SUBSET Functions,
                         throws : BOOLEAN]
  /\ MaxDepth \in Nat \ {0}

VARIABLES
  program,   \* chosen once
  visited,   \* functions the pass has been run on
  pruned,    \* functions whose tracing calls were erased
  stack,     \* frames, the main function's first
  entries    \* the thread's tree, as the map RbTree implements

vars == << program, visited, pruned, stack, entries >>

Map == INSTANCE IntervalMap WITH
  Addrs <- Nat, Sizes <- Nat, TypeTables <- Functions

Calls(f) == program.calls[f]
Compiled == visited = Functions

-----------------------------------------------------------------------------
Init ==
  /\ program \in Programs
  /\ visited = {}
  /\ pruned = {}
  /\ stack = << >>
  /\ entries = {}

(* The pass *)

\* Mutant: only the callees of the function itself are looked at.
Reachable_Callees(f) == {f} \cup Calls(f)

Closed(S) == \A g \in S : Calls(g) \subseteq S

\* The functions a depth-first search over direct calls visits from f.
Reachable(f) ==
  {g \in Functions : \A S \in SUBSET Functions : f \in S /\ Closed(S) => g \in S}

\* Mutant: the pass forgets what it ran on.
SetVisited_Forgets(f) == visited' = {f}

SetVisited(f) == visited' = visited \cup {f}

IsInvokeStack(f) == f \in program.locals
IsAnyCalleesInvokeCast(f) == Reachable(f) \cap program.casts # {}

RunOnFunction(f) ==
  /\ f \notin visited
  /\ SetVisited(f)
  /\ pruned' = IF IsInvokeStack(f) /\ ~IsAnyCalleesInvokeCast(f)
                 THEN pruned \cup {f} ELSE pruned
  /\ UNCHANGED << program, stack, entries >>

-----------------------------------------------------------------------------
(* The run *)

Top == stack[Len(stack)]
Below == SubSeq(stack, 1, Len(stack) - 1)

\* An object is "absent" outside its scope, "raw" while it is constructed and
\* "live" until its destructor has run.
Frame(f, a) == [fn |-> f, addr |-> a, object |-> "absent"]

SetTop(state) == stack' = [stack EXCEPT ![Len(stack)].object = state]

IsTraced(f) == f \in program.locals /\ f \notin pruned

Start ==
  /\ Compiled /\ stack = << >>
  /\ stack' = << Frame(Main, 0) >>
  /\ UNCHANGED << program, visited, pruned, entries >>

Call(g) ==
  /\ stack # << >> /\ Len(stack) < MaxDepth
  /\ g \in Calls(Top.fn) \/ Top.fn \in program.indirect
  /\ stack' = Append(stack, Frame(g, Top.addr + FrameSize[Top.fn]))
  /\ UNCHANGED << program, visited, pruned, entries >>

\* EmitAutoVarInit: the constructor runs before the object is registered.
Construct ==
  /\ stack # << >> /\ Top.fn \in program.locals /\ Top.object = "absent"
  /\ SetTop("raw")
  /\ UNCHANGED << program, visited, pruned, entries >>

\* Mutant: the tree is told another size.
SizeOf_Long(f) == FrameSize[f] + 1
\* Mutant: stack_exit is not reached.
Unregistered_Not(a) == UNCHANGED entries
\* Mutant: a known address keeps the type it was first registered with.
Registered_Once(a, s, f) ==
  IF Map!At(a) = {} THEN Map!Register(a, s, f) ELSE UNCHANGED entries

SizeOf(f) == FrameSize[f]
Unregistered(a) == Map!Unregister(a)
Registered(a, s, f) == Map!Register(a, s, f)

\* __cver_handle_stack_enter, unless the call was erased
Enter ==
  /\ stack # << >> /\ Top.object = "raw"
  /\ SetTop("live")
  /\ IF IsTraced(Top.fn)
       THEN Registered(Top.addr, SizeOf(Top.fn), Top.fn)
       ELSE UNCHANGED entries
  /\ UNCHANGED << program, visited, pruned >>

\* The end of the scope: the destructor, then __cver_handle_stack_exit.
Exit ==
  /\ stack # << >> /\ Top.object = "live"
  /\ SetTop("absent")
  /\ IF IsTraced(Top.fn) THEN Unregistered(Top.addr) ELSE UNCHANGED entries
  /\ UNCHANGED << program, visited, pruned >>

Return ==
  /\ stack # << >> /\ Top.object = "absent"
  /\ stack' = Below
  /\ UNCHANGED << program, visited, pruned, entries >>

\* An exception unwinds to some caller.  The exit is a NormalCleanup: it is not
\* among the cleanups that run.
Unwind(depth) ==
  /\ program.throws /\ depth < Len(stack)
  /\ stack' = SubSeq(stack, 1, depth)
  /\ UNCHANGED << program, visited, pruned, entries >>

Next ==
  \/ \E f \in Functions : RunOnFunction(f) \/ Call(f)
  \/ Start \/ Construct \/ Enter \/ Exit \/ Return
  \/ \E depth \in 1 .. MaxDepth : Unwind(depth)

Spec == Init /\ [][Next]_vars

-----------------------------------------------------------------------------
(* Properties *)

FrameType ==
  [fn : Functions, addr : Nat, object : {"absent", "raw", "live"}]

TypeOK ==
  /\ program \in Programs
  /\ visited \subseteq Functions
  /\ pruned \subseteq visited
  /\ stack \in Seq(FrameType)
  /\ entries \subseteq Map!Entries

EntryOf(i) ==
  [addr |-> stack[i].addr, size |-> FrameSize[stack[i].fn],
   value |-> stack[i].fn]

Traced ==
  {i \in DOMAIN stack : stack[i].object = "live" /\ IsTraced(stack[i].fn)}

\* Without exceptions, the tree is exactly the live objects of the functions
\* that were not pruned, each with its own size and type: no frame finds what
\* an earlier frame at the same address left behind.
TreeMirrorsStack ==
  ~program.throws => entries = {EntryOf(i) : i \in Traced}

\* Pruning loses no check ("Implies all of callees of this function never
\* invoke __cver_handle_cast"): whenever the running function may cast, the
\* live objects of all its callers are in the tree.
CastsSeeLiveObjects ==
  stack # << >> /\ Top.fn \in program.casts =>
    \A i \in DOMAIN stack :
      stack[i].object = "live" => EntryOf(i) \in entries

\* Pruning keeps that promise when all calls are direct.
PruningIsSafe ==
  ~program.throws /\ program.indirect = {} => CastsSeeLiveObjects

\* What an exception cannot spoil: a live object that is traced has its own
\* type at its own address, though frames that were unwound left their entries
\* there (the size may still be that of such a frame).
LiveObjectsHaveTheirType ==
  \A i \in Traced :
    \E e \in entries : e.addr = stack[i].addr /\ e.value = stack[i].fn
=============================================================================
