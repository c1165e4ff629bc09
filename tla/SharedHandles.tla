---------------------------- MODULE SharedHandles ----------------------------
(***************************************************************************)
(* Lifetimes: the shared handles of include/DecentWasmRuntime (SharedWasm- *)
(* Runtime, SharedWasmModule, SharedWasmModuleInstance, SharedWasmExecEnv, *)
(* and InstMemPtr for guest memory), the objects they share and the native *)
(* WAMR resource each object owns, for a client that creates, copies and   *)
(* drops handles as it likes.                                              *)
(*                                                                         *)
(* An object keeps a std::shared_ptr to the object it was created from, so *)
(* objects form a forest: runtime <- module <- instance <- env or mem.     *)
(* Destructors run one member at a time, and releasing the last reference  *)
(* to a parent runs the parent's destructor inside the child's.            *)
(***************************************************************************)
EXTENDS Integers, Sequences

CONSTANTS
  Objects,    \* places for objects on the heap
  NoObject,   \* no place
  MaxHandles  \* bound on the handles a client has to one object

ASSUME NoObjectAssumption   == NoObject \notin Objects
ASSUME MaxHandlesAssumption == MaxHandles \in Nat \ {0}

Kinds == {"runtime", "module", "instance", "env", "mem"}

\* The kind of object each kind is created from.
ParentKind ==
  [module |-> "runtime", instance |-> "module",
   env |-> "instance", mem |-> "instance"]

\* The classes whose destructor destroys the native resource in its body.
\* The others leave it to their base class WamrUniquePtr, which runs after
\* the members, the reference to the parent among them, are destroyed.
DestroysInBody == {"runtime", "mem"}

VARIABLES
  kind,    \* the kind of object in each place, or "free"
  parent,  \* the object it was created from
  linked,  \* it still has its reference to the parent
  handles, \* how many handles the client has to it
  native,  \* its native resource exists
  stack    \* the objects in destruction, innermost first

vars == <<kind, parent, linked, handles, native, stack>>

TypeOK ==
  /\ kind    \in [Objects -> Kinds \cup {"free"}]
  /\ parent  \in [Objects -> Objects \cup {NoObject}]
  /\ linked  \in [Objects -> BOOLEAN]
  /\ handles \in [Objects -> 0 .. MaxHandles]
  /\ native  \in [Objects -> BOOLEAN]
  /\ stack   \in Seq(Objects)

Init ==
  /\ kind    = [o \in Objects |-> "free"]
  /\ parent  = [o \in Objects |-> NoObject]
  /\ linked  = [o \in Objects |-> FALSE]
  /\ handles = [o \in Objects |-> 0]
  /\ native  = [o \in Objects |-> FALSE]
  /\ stack   = <<>>

\* The use count of the std::shared_ptrs to o is not zero, when the client
\* has the handles h and the objects in l have their reference to the parent.
Counted(o, h, l) ==
  \/ h[o] > 0
  \/ \E c \in Objects : l[c] /\ parent[c] = o

Referenced(o) == Counted(o, handles, linked)

\* The one thread of the program is in the client, not in a destructor.
ClientRuns == stack = <<>>

-----------------------------------------------------------------------------
(* The client.                                                             *)

\* A variant of Allocate whose object does not keep its parent.
AllocateUnlinked(o, k, p) ==
  /\ ClientRuns
  /\ kind[o] = "free"
  /\ kind'    = [kind EXCEPT ![o] = k]
  /\ parent'  = [parent EXCEPT ![o] = p]
  /\ handles' = [handles EXCEPT ![o] = 1]
  /\ native'  = [native EXCEPT ![o] = TRUE]
  /\ UNCHANGED <<linked, stack>>

\* A new object of kind k in place o, with its native resource, and the only
\* handle to it.
Allocate(o, k, p) ==
  /\ ClientRuns
  /\ kind[o] = "free"
  /\ kind'    = [kind EXCEPT ![o] = k]
  /\ parent'  = [parent EXCEPT ![o] = p]
  /\ linked'  = [linked EXCEPT ![o] = p # NoObject]
  /\ handles' = [handles EXCEPT ![o] = 1]
  /\ native'  = [native EXCEPT ![o] = TRUE]
  /\ UNCHANGED stack

\* WasmRuntimeStaticHeap: WAMR has one runtime per process, and the program
\* makes no second one while it has the first.
CreateRuntime(o) ==
  /\ \A r \in Objects : kind[r] # "runtime"
  /\ Allocate(o, "runtime", NoObject)

\* LoadModule, Instantiate, CreateExecEnv and NewMem through a handle to p.
Create(o, k, p) ==
  /\ handles[p] > 0
  /\ kind[p] = ParentKind[k]
  /\ Allocate(o, k, p)

\* The copy constructor of SharedObject; guest memory has a unique owner.
CopyHandle(o) ==
  /\ ClientRuns
  /\ handles[o] \in 1 .. MaxHandles - 1
  /\ kind[o] # "mem"
  /\ handles' = [handles EXCEPT ![o] = @ + 1]
  /\ UNCHANGED <<kind, parent, linked, native, stack>>

\* std::shared_ptr runs the destructor of an object nobody refers to.
StartDestructor(o) ==
  IF Counted(o, handles', linked')
  THEN UNCHANGED stack
  ELSE stack' = <<o>> \o stack

\* A variant of DropHandle that also releases what a moved-from handle has not.
DropHandleTwice(o) ==
  /\ ClientRuns
  /\ handles' = [handles EXCEPT ![o] = @ - 1]
  /\ UNCHANGED <<kind, parent, linked, native>>
  /\ StartDestructor(o)

\* A variant of DropHandle that forgets the pointer instead of releasing it.
DropHandleForgets(o) ==
  /\ ClientRuns
  /\ handles[o] > 0
  /\ handles' = [handles EXCEPT ![o] = @ - 1]
  /\ UNCHANGED <<kind, parent, linked, native, stack>>

\* The destructor of SharedObject, and the half of its assignments that
\* releases the old value.
DropHandle(o) ==
  /\ ClientRuns
  /\ handles[o] > 0
  /\ handles' = [handles EXCEPT ![o] = @ - 1]
  /\ UNCHANGED <<kind, parent, linked, native>>
  /\ StartDestructor(o)

-----------------------------------------------------------------------------
(* Destructors.                                                            *)

\* A variant of NativeFirst with InstMemPtr built like the other classes.
RuntimeOnlyNativeFirst(o) == kind[o] = "runtime"

\* The native resource goes before the reference to the parent, or after it.
NativeFirst(o) == kind[o] \in DestroysInBody

\* A variant of ReleaseParent that does not let go.
ReleaseParentKeepsLink(o) ==
  /\ linked[o]
  /\ NativeFirst(o) => ~native[o]
  /\ UNCHANGED <<kind, parent, linked, handles, native>>
  /\ StartDestructor(parent[o])

\* A variant of ReleaseParent that forgets the pointer instead of releasing it.
ReleaseParentForgets(o) ==
  /\ linked[o]
  /\ NativeFirst(o) => ~native[o]
  /\ linked' = [linked EXCEPT ![o] = FALSE]
  /\ UNCHANGED <<kind, parent, handles, native, stack>>

\* The object releases its reference to its parent, whose destructor may run.
ReleaseParent(o) ==
  /\ linked[o]
  /\ NativeFirst(o) => ~native[o]
  /\ linked' = [linked EXCEPT ![o] = FALSE]
  /\ UNCHANGED <<kind, parent, handles, native>>
  /\ StartDestructor(parent[o])

\* wasm_runtime_destroy, _unload, _deinstantiate, _destroy_exec_env or
\* _module_free.
DestroyNative(o) ==
  /\ native[o]
  /\ ~NativeFirst(o) => ~linked[o]
  /\ native' = [native EXCEPT ![o] = FALSE]
  /\ UNCHANGED <<kind, parent, linked, handles, stack>>

\* The destructor returns and the place is free.
Deallocate(o) ==
  /\ ~native[o]
  /\ ~linked[o]
  /\ kind'   = [kind EXCEPT ![o] = "free"]
  /\ parent' = [parent EXCEPT ![o] = NoObject]
  /\ stack'  = Tail(stack)
  /\ UNCHANGED <<linked, handles, native>>

DestructorStep ==
  /\ stack # <<>>
  /\ \/ ReleaseParent(Head(stack))
     \/ DestroyNative(Head(stack))
     \/ Deallocate(Head(stack))

ClientStep ==
  \E o \in Objects :
    \/ CreateRuntime(o)
    \/ \E k \in DOMAIN ParentKind, p \in Objects : Create(o, k, p)
    \/ CopyHandle(o)
    \/ DropHandle(o)

Next == ClientStep \/ DestructorStep

Spec == Init /\ [][Next]_vars

-----------------------------------------------------------------------------
(* Properties.                                                             *)

Parent(o) == IF o \in Objects THEN parent[o] ELSE NoObject

\* What o was created from, up to the runtime.
Ancestors(o) ==
  {Parent(o), Parent(Parent(o)), Parent(Parent(Parent(o)))} \ {NoObject}

\* Whoever has a handle can use it: while a client can reach an object, its
\* native resource and those of everything it was created from exist, even
\* when the client has long dropped its handles to those.
HandleKeepsChainAlive ==
  \A o \in Objects :
    handles[o] > 0 => native[o] /\ \A a \in Ancestors(o) : native[a]

\* When the client runs, everything that exists is reachable from a handle:
\* the last handle takes the whole chain with it, however the handles were
\* dropped.
NoLeak ==
  ClientRuns => \A o \in Objects : kind[o] # "free" => Referenced(o)

\* Guest memory is given back to an instance that still exists, with its
\* module and runtime, although the InstMemPtr may own the last reference.
MemFreedInLiveInstance ==
  [][ \A o \in Objects :
        kind[o] = "mem" /\ native[o] /\ ~native'[o]
          => \A a \in Ancestors(o) : native[a] ]_vars

\* A step that destroys no native resource behind one it was created from.
ParentOutlivesChildStep ==
  \A o \in Objects :
    native[o] /\ ~native'[o] => \A a \in Ancestors(o) : native[a]

\* A native resource is destroyed while those it was created from exist: what
\* the reference to the parent is for, and what a destructor whose body
\* destroyed the resource would keep.
ParentOutlivesChild == [][ParentOutlivesChildStep]_vars
=============================================================================
