----------------------------- MODULE RunnerScope -----------------------------
(***************************************************************************)
(* The client of SharedHandles that the repository has: DecentWasmMain     *)
(* (src/DecentMain.hpp) keeps its handles in the C++ scopes of two         *)
(* MainRunners, one after the other, inside the scope of the runtime, and  *)
(* leaves them normally or by an exception.                                *)
(***************************************************************************)
EXTENDS SharedHandles, SequencesExt, FiniteSets

VARIABLES
  locals, \* the handles in scope, in the order of their construction
  stage,  \* "construct", "run", "leave", "unwind" or "done"
  runner  \* which of the two blocks the thread is in

scopeVars == <<locals, stage, runner>>

allVars == <<vars, scopeVars>>

Runners == 1 .. 2

\* What DecentWasmMain and, behind the runtime, the constructor of MainRunner
\* build, in this order; the members of MainRunner are declared in it too.
Order == <<"runtime", "module", "instance", "env">>

ScopeTypeOK ==
  /\ TypeOK
  /\ locals \in Seq(Objects)
  /\ Len(locals) <= Len(Order)
  /\ stage  \in {"construct", "run", "leave", "unwind", "done"}
  /\ runner \in Runners

ScopeInit ==
  /\ Init
  /\ locals = <<>>
  /\ stage = "construct"
  /\ runner = 1

\* The next handle of Order comes into scope.
Construct(o) ==
  /\ stage = "construct"
  /\ LET built == Len(locals) IN
       /\ IF built = 0
          THEN CreateRuntime(o)
          ELSE Create(o, Order[built + 1], Last(locals))
       /\ stage' = IF built + 1 = Len(Order) THEN "run" ELSE stage
  /\ locals' = Append(locals, o)
  /\ UNCHANGED runner

\* WAMR refuses (bad bytecode, no memory in the pool), or a part of the run
\* throws: the scopes unwind to the catch clause of DecentWasmMain.
Throws ==
  /\ ClientRuns
  /\ stage \in {"construct", "run"}
  /\ stage' = "unwind"
  /\ UNCHANGED <<vars, locals, runner>>

\* The five iterations of this runner are over.
RunFinishes ==
  /\ ClientRuns
  /\ stage = "run"
  /\ stage' = "leave"
  /\ UNCHANGED <<vars, locals, runner>>

\* A variant of BetweenRunners without an end to the runners.
BetweenAnyRunners == stage = "leave" /\ Len(locals) = 1

\* The block of the first runner is left, the runtime still in scope.
BetweenRunners == stage = "leave" /\ runner = 1 /\ Len(locals) = 1

\* A variant of LeaveScope that destroys the oldest handle first.
LeaveScopeInOrder ==
  /\ stage \in {"leave", "unwind"}
  /\ locals # <<>>
  /\ ~BetweenRunners
  /\ DropHandle(Head(locals))
  /\ locals' = Tail(locals)
  /\ UNCHANGED <<stage, runner>>

\* Locals and members are destroyed in the reverse order of construction.
LeaveScope ==
  /\ stage \in {"leave", "unwind"}
  /\ locals # <<>>
  /\ ~BetweenRunners
  /\ DropHandle(Last(locals))
  /\ locals' = Front(locals)
  /\ UNCHANGED <<stage, runner>>

\* A variant of NextBlock for a first runner that is still in scope.
NextBlockInScope ==
  /\ ClientRuns
  /\ stage = "leave"
  /\ Len(locals) = Len(Order)
  /\ runner = 1
  /\ runner' = 2
  /\ stage' = "construct"
  /\ locals' = SubSeq(locals, 1, 1)
  /\ UNCHANGED vars

\* The block of the second runner is entered.
NextBlock ==
  /\ ClientRuns
  /\ BetweenRunners
  /\ runner' = runner + 1
  /\ stage' = "construct"
  /\ UNCHANGED <<vars, locals>>

\* DecentWasmMain returns.
Return ==
  /\ ClientRuns
  /\ stage \in {"leave", "unwind"}
  /\ locals = <<>>
  /\ stage' = "done"
  /\ UNCHANGED <<vars, locals, runner>>

Leave ==
  \/ LeaveScope
  \/ NextBlock
  \/ Return

\* The thread in a destructor.
Destructor == DestructorStep /\ UNCHANGED scopeVars

ScopeNext ==
  \/ \E o \in Objects : Construct(o)
  \/ Throws
  \/ RunFinishes
  \/ Leave
  \/ Destructor

\* The thread keeps running; nothing is said of a guest that computes forever.
ScopeSpec ==
  ScopeInit /\ [][ScopeNext]_allVars /\ WF_allVars(Leave \/ Destructor)

-----------------------------------------------------------------------------
(* Properties.                                                             *)

\* The pool of the runtime (70 MB) has room for one module instance (1 MB of
\* stack and 64 MB of heap): the first is gone before the second is made.
OneInstanceAtATime ==
  Cardinality({o \in Objects : kind[o] = "instance" /\ native[o]}) <= 1

\* Wherever an exception comes from, DecentWasmMain returns with every native
\* resource destroyed: the enclave's next call starts from nothing.
NothingLeftAtReturn == stage = "done" => \A o \in Objects : ~native[o]

\* The scopes of the repository keep the order that the destructors of
\* WasmModule, WasmModuleInstance and WasmExecEnv do not: no native resource
\* outlives the one it was created from.
ScopesOrderDestruction == [][ParentOutlivesChildStep]_allVars

\* The resources that exist, for ResourceTree.
OpenResources ==
  {[place |-> o, kind |-> kind[o], on |-> parent[o]] : o \in {p \in Objects : native[p]}}

Tree == INSTANCE ResourceTree WITH
  Places <- Objects, NoPlace <- NoObject, open <- OpenResources

\* DecentWasmMain, whatever throws in it, uses the WAMR of the process as one
\* resource of each kind, made on the one below and destroyed before it.
ImplementsResourceTree == Tree!Spec

\* An exception reaches the catch clause, and its clean-up ends.
UnwindingEnds == stage = "unwind" ~> stage = "done"
=============================================================================
