----------------------------- MODULE InstMemory -----------------------------
(***************************************************************************)
(* Guest memory owned by the host: InstMemPtrObject and InstMemPtrArray    *)
(* (include/DecentWasmRuntime/InstMemPtr.hpp) in the variables of a client *)
(* that makes, moves, assigns, resets and destroys them in any order.      *)
(*                                                                         *)
(* An access the language leaves undefined ends the behaviour: status says *)
(* which it was.  Reading m_numItems before it has a value gives any value.*)
(***************************************************************************)
EXTENDS Integers

CONSTANTS
  Slots,       \* the client's variables
  Blocks,      \* the addresses wasm_runtime_module_malloc hands out
  Null,        \* the wasm_pointer 0 and the null pointer
  Counts,      \* numbers of items, asked for or found in uninitialised memory
  ItemSize,    \* sizeof(value_type)
  SizeModulus, \* the number of values of size_t, 2^64 in the code
  WasmMax      \* the largest wasm_size, 2^32 - 1 in the code

ASSUME NullAssumption   == Null \notin Blocks
ASSUME CountsAssumption == Counts \subseteq Nat
ASSUME ItemAssumption   == ItemSize \in 1 .. WasmMax
ASSUME SizesAssumption  == SizeModulus \in Nat /\ WasmMax \in 0 .. SizeModulus - 1

VARIABLES
  slot,      \* the pointer in each variable
  allocated, \* the blocks in use
  size,      \* how large each of them is
  trivial,   \* value_type's destructor does nothing, fixed
  status     \* "running" or the undefined access that was made

vars == <<slot, allocated, size, trivial, status>>

Classes == {"none", "object", "array"}

Pointers ==
  [ cls       : Classes,
    wasmPtr   : Blocks \cup {Null},
    nativePtr : Blocks \cup {Null},
    wasmSize  : 0 .. WasmMax,
    numItems  : Counts \cup {0},
    modInst   : BOOLEAN ]

UndefinedAccesses ==
  {"null destroyed", "outside destroyed", "null copied", "outside copied"}

TypeOK ==
  /\ slot      \in [Slots -> Pointers]
  /\ allocated \subseteq Blocks
  /\ size      \in [Blocks -> 0 .. WasmMax]
  /\ trivial   \in BOOLEAN
  /\ status    \in {"running"} \cup UndefinedAccesses

\* A variable whose lifetime has not begun or has ended.
Vacant ==
  [cls |-> "none", wasmPtr |-> Null, nativePtr |-> Null, wasmSize |-> 0,
   numItems |-> 0, modInst |-> FALSE]

Init ==
  /\ slot = [s \in Slots |-> Vacant]
  /\ allocated = {}
  /\ size = [b \in Blocks |-> 0]
  /\ trivial \in BOOLEAN
  /\ status = "running"

Alive(s) == slot[s].cls # "none"

\* What a move leaves: m_numItems of an array stays.
Emptied(p) ==
  [p EXCEPT !.wasmPtr = Null, !.nativePtr = Null, !.wasmSize = 0,
            !.modInst = FALSE]

\* A variant of ResetPtr that leaves the native pointer behind.
ResetPtrKeepsNative(p) == [p EXCEPT !.wasmPtr = Null]

\* reset() but for the call of wasm_runtime_module_free; m_wasmSize stays.
ResetPtr(p) == [p EXCEPT !.wasmPtr = Null, !.nativePtr = Null]

-----------------------------------------------------------------------------
(* MakeInstMemPtr.  One that throws, also from the constructor of the      *)
(* value, frees what it allocated and changes nothing.                     *)

\* A variant of Malloc that does not compare bytes with wasm_size.
MallocUnchecked(s, cls, bytes, numItems) ==
  /\ status = "running"
  /\ ~Alive(s)
  /\ \E b \in Blocks \ allocated :
       /\ allocated' = allocated \cup {b}
       /\ size' = [size EXCEPT ![b] = bytes]
       /\ slot' = [slot EXCEPT ![s] =
            [cls |-> cls, wasmPtr |-> b, nativePtr |-> b, wasmSize |-> bytes,
             numItems |-> numItems, modInst |-> TRUE]]
  /\ UNCHANGED <<trivial, status>>

\* Malloc of bytes into the new pointer of s; numItems is for an array.
Malloc(s, cls, bytes, numItems) ==
  /\ status = "running"
  /\ ~Alive(s)
  /\ bytes <= WasmMax
  /\ \E b \in Blocks \ allocated :
       /\ allocated' = allocated \cup {b}
       /\ size' = [size EXCEPT ![b] = bytes]
       /\ slot' = [slot EXCEPT ![s] =
            [cls |-> cls, wasmPtr |-> b, nativePtr |-> b, wasmSize |-> bytes,
             numItems |-> numItems, modInst |-> TRUE]]
  /\ UNCHANGED <<trivial, status>>

MakeObject(s) == Malloc(s, "object", ItemSize, 0)

\* n * sizeof(value_type) in size_t.
TotalSize(n) == (n * ItemSize) % SizeModulus

MakeArray(s, n) == Malloc(s, "array", TotalSize(n), n)

-----------------------------------------------------------------------------
(* Moves.                                                                  *)

\* The move constructors; that of the array leaves m_numItems uninitialised.
MoveConstruct(s, t) ==
  /\ status = "running"
  /\ ~Alive(s) /\ Alive(t)
  /\ \E n \in IF slot[t].cls = "array" THEN Counts ELSE {0} :
       slot' = [slot EXCEPT ![s] = [slot[t] EXCEPT !.numItems = n],
                            ![t] = Emptied(slot[t])]
  /\ UNCHANGED <<allocated, size, trivial, status>>

\* A variant of MoveAssign that does not reset the pointer it overwrites.
MoveAssignOver(s, t) ==
  /\ status = "running"
  /\ Alive(s) /\ slot[s].cls = slot[t].cls
  /\ s # t
  /\ slot' = [slot EXCEPT ![s] = [slot[t] EXCEPT !.numItems = slot[s].numItems],
                          ![t] = Emptied(slot[t])]
  /\ UNCHANGED <<allocated, size, trivial, status>>

\* The move assignments: nothing happens to a pointer assigned to itself; an
\* array keeps its own m_numItems.
MoveAssign(s, t) ==
  /\ status = "running"
  /\ Alive(s) /\ slot[s].cls = slot[t].cls
  /\ s # t
  /\ allocated' = allocated \ {slot[s].wasmPtr}
  /\ slot' = [slot EXCEPT ![s] = [slot[t] EXCEPT !.numItems = slot[s].numItems],
                          ![t] = Emptied(slot[t])]
  /\ UNCHANGED <<size, trivial, status>>

-----------------------------------------------------------------------------
(* The end of a value.                                                     *)

Reset(s) ==
  /\ status = "running"
  /\ Alive(s)
  /\ allocated' = allocated \ {slot[s].wasmPtr}
  /\ slot' = [slot EXCEPT ![s] = ResetPtr(@)]
  /\ UNCHANGED <<size, trivial, status>>

\* How many values the destructor of the derived class destroys.
Destroyed(p) == IF p.cls = "object" THEN 1 ELSE p.numItems

\* n values from p on are not all inside the block.
Outside(p, n) == p.nativePtr # Null /\ n * ItemSize > size[p.nativePtr]

\* The destructor of the derived class meets no value to destroy, or those it
\* destroys lie in the block; then reset() of the base class.
Destroy(s) ==
  /\ status = "running"
  /\ Alive(s)
  /\ \/ trivial
     \/ Destroyed(slot[s]) = 0
     \/ slot[s].nativePtr # Null /\ ~Outside(slot[s], Destroyed(slot[s]))
  /\ allocated' = allocated \ {slot[s].wasmPtr}
  /\ slot' = [slot EXCEPT ![s] = Vacant]
  /\ UNCHANGED <<size, trivial, status>>

\* It destroys values at the null pointer or outside the block.
DestroyUndefined(s) ==
  /\ status = "running"
  /\ Alive(s)
  /\ ~trivial
  /\ Destroyed(slot[s]) > 0
  /\ \/ slot[s].nativePtr = Null /\ status' = "null destroyed"
     \/ Outside(slot[s], Destroyed(slot[s])) /\ status' = "outside destroyed"
  /\ UNCHANGED <<slot, allocated, size, trivial>>

\* CopyContainer with n items that ends badly; one that does not, or throws
\* because n is not m_numItems, changes no pointer.
CopyUndefined(s, n) ==
  /\ status = "running"
  /\ slot[s].cls = "array"
  /\ n = slot[s].numItems
  /\ n > 0
  /\ \/ slot[s].nativePtr = Null /\ status' = "null copied"
     \/ Outside(slot[s], n) /\ status' = "outside copied"
  /\ UNCHANGED <<slot, allocated, size, trivial>>

Next ==
  \E s \in Slots :
    \/ MakeObject(s)
    \/ \E n \in Counts : MakeArray(s, n)
    \/ \E t \in Slots : MoveConstruct(s, t)
    \/ \E t \in Slots : MoveAssign(s, t)
    \/ Reset(s)
    \/ Destroy(s)
    \/ DestroyUndefined(s)
    \/ \E n \in Counts : CopyUndefined(s, n)

Spec == Init /\ [][Next]_vars

-----------------------------------------------------------------------------
(* Properties.                                                             *)

\* However pointers are moved, assigned, reset and destroyed, every block in
\* use has exactly one owner: none leaks, none is freed twice, and none is
\* used after it was freed.
OneOwner ==
  /\ \A b \in allocated : \E s \in Slots : slot[s].wasmPtr = b
  /\ \A s \in Slots : slot[s].wasmPtr \in allocated \cup {Null}
  /\ \A s, t \in Slots :
       s # t /\ slot[s].wasmPtr # Null => slot[s].wasmPtr # slot[t].wasmPtr

\* The four members of a pointer stay together over moves and resets: both
\* addresses name the same block, whose size is known and whose instance,
\* where reset() will free it, is still referenced.
MembersAgree ==
  \A s \in Slots :
    /\ slot[s].nativePtr = slot[s].wasmPtr
    /\ slot[s].wasmPtr # Null =>
         slot[s].modInst /\ slot[s].wasmSize = size[slot[s].wasmPtr]

\* reset() looks out for a pointer that "had been emptied by a move operation",
\* which has lost its instance too; the destructor of the derived class, which
\* runs before reset(), destroys no value through such a pointer either.
EmptiedIsLeftAlone ==
  [][ \A s \in Slots :
        DestroyUndefined(s) /\ status' = "null destroyed"
          => slot[s].modInst ]_vars
=============================================================================
