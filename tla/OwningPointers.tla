--------------------------- MODULE OwningPointers ---------------------------
(***************************************************************************)
(* The classes that own a resource of WAMR through WamrUniquePtr, in the    *)
(* variables of a client that makes, moves, assigns, resets and destroys    *)
(* them in any order: WasmModule, WasmModuleInstance and WasmExecEnv        *)
(* (include/DecentWasmRuntime).  Each has the resource in its base class,   *)
(* and as members a reference to the parent the resource was created from   *)
(* and, but for the instance, an object of its own: a module has the bytes  *)
(* it was loaded from, an environment its user data.                        *)
(*                                                                         *)
(* A move assignment and a destructor take two steps, one for the base      *)
(* class and one for the members: the one may destroy a resource, the other *)
(* the parent.                                                              *)
(***************************************************************************)
CONSTANTS
  Slots,   \* the client's variables
  Natives, \* addresses of resources of WAMR
  Parents, \* the objects they are created from
  Owned,   \* the objects behind m_wasm and m_userData
  Null

ASSUME NullAssumption ==
  /\ Null \notin Natives
  /\ Null \notin Parents
  /\ Null \notin Owned
  /\ Null \notin Slots

VARIABLES
  kind,      \* the class of the client's variables, fixed
  live,      \* the variables within their lifetime
  m_ptr,     \* the resource of each
  m_parent,  \* its m_runtime, m_module or m_moduleInst
  m_owned,   \* its m_wasm or m_userData
  alive,     \* the resources that exist
  createdOn, \* the parent each of them was created from
  given,     \* the m_wasm or m_userData it was given last
  userData,  \* the object its user data names
  held,      \* the parents the client has a handle of
  op         \* the operation that has done its first step, or Idle

vars == <<kind, live, m_ptr, m_parent, m_owned, alive, createdOn, given,
          userData, held, op>>
fields == <<live, m_ptr, m_parent, m_owned>>
natives == <<alive, createdOn, given, userData>>

Idle == [name |-> "none", to |-> Null, from |-> Null]

Operations ==
  [name : {"none", "assign", "destroy", "crashed"},
   to : Slots \cup {Null}, from : Slots \cup {Null}]

\* A variable out of use holds nothing, and neither does one whose members a
\* destructor has destroyed, but for its resource.
TypeOK ==
  /\ kind      \in {"module", "instance", "env"}
  /\ live      \subseteq Slots
  /\ m_ptr     \in [Slots -> Natives \cup {Null}]
  /\ m_parent  \in [Slots -> Parents \cup {Null}]
  /\ m_owned   \in [Slots -> Owned \cup {Null}]
  /\ alive     \subseteq Natives
  /\ createdOn \in [Natives -> Parents \cup {Null}]
  /\ given     \in [Natives -> Owned \cup {Null}]
  /\ userData  \in [Natives -> Slots \cup {Null}]
  /\ held      \subseteq Parents
  /\ op        \in Operations
  /\ \A s \in Slots :
       /\ s \notin live => m_ptr[s] = Null
       /\ s \notin live \/ (op.name = "destroy" /\ op.to = s)
            => m_parent[s] = Null /\ m_owned[s] = Null

Init ==
  /\ kind \in {"module", "instance", "env"}
  /\ live = {}
  /\ m_ptr    = [s \in Slots |-> Null]
  /\ m_parent = [s \in Slots |-> Null]
  /\ m_owned  = [s \in Slots |-> Null]
  /\ alive = {}
  /\ createdOn = [n \in Natives |-> Null]
  /\ given     = [n \in Natives |-> Null]
  /\ userData  = [n \in Natives |-> Null]
  /\ held = Parents
  /\ op = Idle

\* A parent lives as long as a handle or a member refers to it.
Referenced(p) == p \in held \/ \E s \in Slots : m_parent[s] = p

-----------------------------------------------------------------------------
(* The handles of the client, not of these classes.                        *)

DropParent(p) ==
  /\ op = Idle
  /\ held' = held \ {p}
  /\ UNCHANGED <<kind, fields, natives, op>>

MakeParent(p) ==
  /\ op = Idle
  /\ ~Referenced(p)
  /\ held' = held \cup {p}
  /\ UNCHANGED <<kind, fields, natives, op>>

-----------------------------------------------------------------------------
(* Construction.                                                           *)

\* Load, Instantiate and Create with the constructor that takes the pointer;
\* one that fails throws and leaves nothing.
Create(s, n, p) ==
  /\ op = Idle
  /\ s \notin live /\ n \notin alive /\ p \in held
  /\ live' = live \cup {s}
  /\ alive' = alive \cup {n}
  /\ m_ptr' = [m_ptr EXCEPT ![s] = n]
  /\ m_parent' = [m_parent EXCEPT ![s] = p]
  /\ createdOn' = [createdOn EXCEPT ![n] = p]
  /\ \E d \in IF kind = "module" THEN Owned ELSE {Null} :
       /\ \A t \in Slots : d # Null => m_owned[t] # d
       /\ m_owned' = [m_owned EXCEPT ![s] = d]
       /\ given' = [given EXCEPT ![n] = d]
  /\ userData' = IF kind = "env" THEN [userData EXCEPT ![n] = s] ELSE userData
  /\ UNCHANGED <<kind, held, op>>

\* SetUserData, only of an environment.
SetUserData(s, d) ==
  /\ op = Idle
  /\ kind = "env" /\ s \in live
  /\ \A t \in Slots : m_owned[t] # d
  /\ m_owned' = [m_owned EXCEPT ![s] = d]
  /\ given' = IF m_ptr[s] = Null THEN given ELSE [given EXCEPT ![m_ptr[s]] = d]
  /\ UNCHANGED <<kind, live, m_ptr, m_parent, alive, createdOn, userData, held, op>>

\* A variant of NamesOwner that is forgotten.
NoUserData(s, n) == UNCHANGED userData

\* wasm_runtime_set_user_data(get(), this), with s for this.
NamesOwner(s, n) ==
  userData' = IF kind = "env" THEN [userData EXCEPT ![n] = s] ELSE userData

\* A variant of MoveMembers that leaves m_owned where it is.
MoveParentOnly(s, t) ==
  /\ m_parent' = [m_parent EXCEPT ![s] = m_parent[t], ![t] = Null]
  /\ UNCHANGED m_owned

\* What the moves of m_parent and m_owned from t to s leave.
MoveMembers(s, t) ==
  /\ m_parent' = [m_parent EXCEPT ![s] = m_parent[t], ![t] = Null]
  /\ m_owned'  = [m_owned EXCEPT ![s] = m_owned[t], ![t] = Null]

\* Moving an environment that a move has emptied sets the user data of a null
\* pointer.
MovesNull(t) == kind = "env" /\ m_ptr[t] = Null

MoveConstruct(s, t) ==
  /\ op = Idle
  /\ s \notin live /\ t \in live /\ ~MovesNull(t)
  /\ live' = live \cup {s}
  /\ m_ptr' = [m_ptr EXCEPT ![s] = m_ptr[t], ![t] = Null]
  /\ MoveMembers(s, t)
  /\ NamesOwner(s, m_ptr[t])
  /\ UNCHANGED <<kind, alive, createdOn, given, held, op>>

MoveConstructNull(s, t) ==
  /\ op = Idle
  /\ s \notin live /\ t \in live /\ MovesNull(t)
  /\ op' = [name |-> "crashed", to |-> s, from |-> t]
  /\ UNCHANGED <<kind, fields, natives, held>>

-----------------------------------------------------------------------------
(* Move assignment.                                                        *)

\* A variant of ResetTo that overwrites a resource.
ResetToKeeping(s, n) == alive' = alive

\* reset(n): the resource of s is destroyed, whatever n is.
ResetTo(s, n) == alive' = alive \ {m_ptr[s]}

\* A variant of MoveAssignBase that follows the members.
MoveAssignMembersFirst(s, t) ==
  /\ op = Idle
  /\ s \in live /\ t \in live /\ s # t
  /\ MoveMembers(s, t)
  /\ op' = [name |-> "assign", to |-> s, from |-> t]
  /\ UNCHANGED <<kind, live, m_ptr, natives, held>>

\* Base::operator=.  An object assigned to itself loses its resource.
MoveAssignBase(s, t) ==
  /\ op = Idle
  /\ s \in live /\ t \in live
  /\ ResetTo(s, m_ptr[t])
  /\ m_ptr' = [m_ptr EXCEPT ![s] = m_ptr[t], ![t] = Null]
  /\ op' = [name |-> "assign", to |-> s, from |-> t]
  /\ UNCHANGED <<kind, live, m_parent, m_owned, createdOn, given, userData, held>>

\* The members; those of an object assigned to itself stay.
MoveAssignMembers(s, t) ==
  /\ op = [name |-> "assign", to |-> s, from |-> t]
  /\ s # t
  /\ ~MovesNull(s)
  /\ MoveMembers(s, t)
  /\ NamesOwner(s, m_ptr[s])
  /\ op' = Idle
  /\ UNCHANGED <<kind, live, m_ptr, alive, createdOn, given, held>>

MoveAssignToItself(s) ==
  /\ op = [name |-> "assign", to |-> s, from |-> s]
  /\ op' = Idle
  /\ UNCHANGED <<kind, fields, natives, held>>

MoveAssignNull(s, t) ==
  /\ op = [name |-> "assign", to |-> s, from |-> t]
  /\ s # t
  /\ MovesNull(s)
  /\ op' = [op EXCEPT !.name = "crashed"]
  /\ UNCHANGED <<kind, fields, natives, held>>

-----------------------------------------------------------------------------
(* The end of a resource.                                                  *)

\* reset().
Reset(s) ==
  /\ op = Idle
  /\ s \in live
  /\ ResetTo(s, Null)
  /\ m_ptr' = [m_ptr EXCEPT ![s] = Null]
  /\ UNCHANGED <<kind, live, m_parent, m_owned, createdOn, given, userData, held, op>>

\* A variant of DestroyMembers that forgets m_owned.
DestroyParentOnly(s) ==
  /\ op = Idle
  /\ s \in live
  /\ m_parent' = [m_parent EXCEPT ![s] = Null]
  /\ op' = [name |-> "destroy", to |-> s, from |-> Null]
  /\ UNCHANGED <<kind, live, m_ptr, m_owned, natives, held>>

\* The destructor: first the members,
DestroyMembers(s) ==
  /\ op = Idle
  /\ s \in live
  /\ m_parent' = [m_parent EXCEPT ![s] = Null]
  /\ m_owned' = [m_owned EXCEPT ![s] = Null]
  /\ op' = [name |-> "destroy", to |-> s, from |-> Null]
  /\ UNCHANGED <<kind, live, m_ptr, natives, held>>

\* then the base class.
DestroyBase(s) ==
  /\ op = [name |-> "destroy", to |-> s, from |-> Null]
  /\ ResetTo(s, Null)
  /\ live' = live \ {s}
  /\ m_ptr' = [m_ptr EXCEPT ![s] = Null]
  /\ op' = Idle
  /\ UNCHANGED <<kind, m_parent, m_owned, createdOn, given, userData, held>>

Next ==
  \/ \E p \in Parents : DropParent(p) \/ MakeParent(p)
  \/ \E s \in Slots :
       \/ \E n \in Natives, p \in Parents : Create(s, n, p)
       \/ \E d \in Owned : SetUserData(s, d)
       \/ \E t \in Slots : MoveConstruct(s, t)
       \/ \E t \in Slots : MoveConstructNull(s, t)
       \/ \E t \in Slots : MoveAssignBase(s, t)
       \/ \E t \in Slots : MoveAssignMembers(s, t)
       \/ \E t \in Slots : MoveAssignNull(s, t)
       \/ MoveAssignToItself(s)
       \/ Reset(s)
       \/ DestroyMembers(s)
       \/ DestroyBase(s)

Spec == Init /\ [][Next]_vars

-----------------------------------------------------------------------------
(* Properties.                                                             *)

\* Every resource that exists has exactly one owner, at every step of a move:
\* none leaks, none is destroyed twice or used after it was destroyed.  That
\* includes an object assigned to itself, which loses its resource.
OneOwner ==
  /\ \A n \in alive : \E s \in Slots : m_ptr[s] = n
  /\ \A s \in Slots : m_ptr[s] \in alive \cup {Null}
  /\ \A s, t \in Slots : s # t /\ m_ptr[s] # Null => m_ptr[s] # m_ptr[t]

\* Between two operations FromUserData finds, for every environment, the
\* object that owns it: the natives never see a moved-from or dead object.
UserDataNamesOwner ==
  kind = "env" /\ op = Idle =>
    \A s \in Slots : m_ptr[s] # Null => userData[m_ptr[s]] = s

\* Between two operations an object refers to the parent its resource was
\* created from, and has the bytes or the user data it was given: the guest
\* never finds the event or the start time of another environment.
MembersBelong ==
  op = Idle =>
    \A s \in Slots : m_ptr[s] # Null =>
      /\ m_parent[s] = createdOn[m_ptr[s]]
      /\ m_owned[s] = given[m_ptr[s]]

\* A resource outlives its parent, or a module the bytes it was loaded from,
\* only within the destructor of its owner, which destroys the members before
\* the base class; a move assignment, which takes the other order, always
\* destroys the resource first.
OrphanedByDestructorOnly ==
  \A n \in alive :
    \/ /\ Referenced(createdOn[n])
       /\ given[n] # Null => \E s \in Slots : m_owned[s] = given[n]
    \/ op.name = "destroy" /\ m_ptr[op.to] = n
=============================================================================
