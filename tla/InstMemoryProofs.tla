-------------------------- MODULE InstMemoryProofs --------------------------
(***************************************************************************)
(* Proofs about InstMemory, for any number of pointers and blocks and any  *)
(* widths of size_t and wasm_size.                                         *)
(***************************************************************************)
EXTENDS InstMemory, TLAPS

\* Ownership is inductive together with the agreement of the members.
OInv == TypeOK /\ OneOwner /\ MembersAgree

\* What one pointer is, field by field.
LEMMA PointerFields ==
  ASSUME TypeOK, NEW s \in Slots
  PROVE  /\ slot[s] \in Pointers
         /\ slot[s].cls \in Classes
         /\ slot[s].wasmPtr \in Blocks \cup {Null}
         /\ slot[s].nativePtr \in Blocks \cup {Null}
         /\ slot[s].wasmSize \in 0 .. WasmMax
         /\ slot[s].numItems \in Counts \cup {0}
         /\ slot[s].modInst \in BOOLEAN
BY DEF TypeOK, Pointers

\* An empty pointer is a pointer.
LEMMA VacantTyped == Vacant \in Pointers
BY SizesAssumption DEF Vacant, Pointers, Classes

\* The size that passes the comparison in Malloc is a wasm_size.
LEMMA TotalSizeTyped ==
  ASSUME NEW n \in Counts, TotalSize(n) <= WasmMax
  PROVE  TotalSize(n) \in 0 .. WasmMax
<1>1. n \in Nat /\ ItemSize \in Nat /\ WasmMax \in Nat
  BY CountsAssumption, ItemAssumption, SizesAssumption
<1>2. SizeModulus \in Nat \ {0}
  BY SizesAssumption
<1>3. n * ItemSize \in Nat
  BY <1>1
<1>4. \A a \in Nat, m \in Nat \ {0} : a % m \in Nat
  OBVIOUS
<1>5. TotalSize(n) \in Nat
  BY <1>2, <1>3, <1>4 DEF TotalSize
<1> QED
  BY <1>1, <1>5

-----------------------------------------------------------------------------
(* One lemma for each thing that can happen to a pointer.                  *)

\* Malloc gives a fresh block to a variable that had none.
LEMMA MallocKeepsOwners ==
  ASSUME OInv, NEW s \in Slots, NEW cls \in Classes,
         NEW bytes \in 0 .. WasmMax, NEW numItems \in Counts \cup {0},
         slot[s].wasmPtr = Null,
         Malloc(s, cls, bytes, numItems)
  PROVE  OInv'
<1> USE DEF OInv
<1>1. PICK b \in Blocks \ allocated :
        /\ allocated' = allocated \cup {b}
        /\ size' = [size EXCEPT ![b] = bytes]
        /\ slot' = [slot EXCEPT ![s] =
             [cls |-> cls, wasmPtr |-> b, nativePtr |-> b, wasmSize |-> bytes,
              numItems |-> numItems, modInst |-> TRUE]]
  BY DEF Malloc
<1>2. b # Null
  BY NullAssumption
<1> DEFINE new == [cls |-> cls, wasmPtr |-> b, nativePtr |-> b,
                   wasmSize |-> bytes, numItems |-> numItems,
                   modInst |-> TRUE]
<1>3. new \in Pointers
  BY DEF Pointers
<1>4. slot'[s] = new /\ \A t \in Slots \ {s} : slot'[t] = slot[t]
  BY <1>1 DEF TypeOK
<1>5. TypeOK'
  BY <1>1, <1>3 DEF TypeOK, Malloc
<1>6. size'[b] = bytes /\ \A c \in Blocks \ {b} : size'[c] = size[c]
  BY <1>1 DEF TypeOK
<1>7. \A t \in Slots : slot[t].wasmPtr # b
  BY <1>2 DEF OneOwner
<1>8. OneOwner'
  <2>1. \A c \in allocated' : \E t \in Slots : slot'[t].wasmPtr = c
    <3>1. SUFFICES ASSUME NEW c \in allocated', c # b
                   PROVE  \E t \in Slots : slot'[t].wasmPtr = c
      BY <1>4
    <3>2. c \in allocated /\ c # Null
      BY <3>1, <1>1, NullAssumption DEF TypeOK
    <3>3. PICK t \in Slots : slot[t].wasmPtr = c
      BY <3>2 DEF OneOwner
    <3>4. slot'[t] = slot[t]
      BY <3>2, <3>3, <1>4
    <3> QED
      BY <3>3, <3>4
  <2>2. \A t \in Slots : slot'[t].wasmPtr \in allocated' \cup {Null}
    BY <1>1, <1>4 DEF OneOwner
  <2>3. \A t, u \in Slots :
          t # u /\ slot'[t].wasmPtr # Null => slot'[t].wasmPtr # slot'[u].wasmPtr
    BY <1>4, <1>7 DEF OneOwner
  <2> QED
    BY <2>1, <2>2, <2>3 DEF OneOwner
<1>9. MembersAgree'
  <2>1. \A t \in Slots : slot'[t].nativePtr = slot'[t].wasmPtr
    BY <1>4 DEF MembersAgree
  <2>2. ASSUME NEW t \in Slots, slot'[t].wasmPtr # Null
        PROVE  slot'[t].modInst /\ slot'[t].wasmSize = size'[slot'[t].wasmPtr]
    <3>1. CASE t = s
      BY <3>1, <1>4, <1>6
    <3>2. CASE t # s
      <4>1. slot'[t] = slot[t]
        BY <3>2, <1>4
      <4>2. slot[t].wasmPtr \in Blocks \ {b}
        BY <2>2, <4>1, <1>7, PointerFields
      <4> QED
        BY <2>2, <4>1, <4>2, <1>6 DEF MembersAgree
    <3> QED
      BY <3>1, <3>2
  <2> QED
    BY <2>1, <2>2 DEF MembersAgree
<1> QED
  BY <1>5, <1>8, <1>9

\* What Emptied makes of a pointer.
LEMMA EmptiedFields ==
  ASSUME NEW p \in Pointers
  PROVE  /\ Emptied(p) \in Pointers
         /\ Emptied(p).cls = p.cls
         /\ Emptied(p).wasmPtr = Null
         /\ Emptied(p).nativePtr = Null
<1>1. 0 \in 0 .. WasmMax
  BY SizesAssumption
<1> QED
  BY <1>1 DEF Emptied, Pointers

\* What a move takes over from a pointer.
LEMMA TakenFields ==
  ASSUME NEW p \in Pointers, NEW n \in Counts \cup {0}
  PROVE  /\ [p EXCEPT !.numItems = n] \in Pointers
         /\ [p EXCEPT !.numItems = n].cls = p.cls
         /\ [p EXCEPT !.numItems = n].wasmPtr = p.wasmPtr
         /\ [p EXCEPT !.numItems = n].nativePtr = p.nativePtr
         /\ [p EXCEPT !.numItems = n].wasmSize = p.wasmSize
         /\ [p EXCEPT !.numItems = n].modInst = p.modInst
BY DEF Pointers

\* A block goes from t to s, and the block s had is freed: owners stay unique.
LEMMA TransferredOwner ==
  ASSUME OneOwner, NEW s \in Slots, NEW t \in Slots, s # t,
         allocated' = allocated \ {slot[s].wasmPtr},
         slot'[s].wasmPtr = slot[t].wasmPtr,
         slot'[t].wasmPtr = Null,
         \A u \in Slots \ {s, t} : slot'[u].wasmPtr = slot[u].wasmPtr
  PROVE  OneOwner'
<1>1. \A c \in allocated : \E u \in Slots : slot[u].wasmPtr = c
  BY DEF OneOwner
<1>2. \A u \in Slots : slot[u].wasmPtr \in allocated \/ slot[u].wasmPtr = Null
  BY DEF OneOwner
<1>3. \A u, v \in Slots :
        u # v /\ slot[u].wasmPtr # Null => slot[u].wasmPtr # slot[v].wasmPtr
  BY DEF OneOwner
<1>4. ASSUME NEW c \in allocated'
      PROVE  \E u \in Slots : slot'[u].wasmPtr = c
  <2>1. PICK u \in Slots : slot[u].wasmPtr = c
    BY <1>1, <1>4
  <2>2. u # s
    BY <1>4, <2>1
  <2>3. CASE u = t
    BY <2>1, <2>3
  <2>4. CASE u # t
    BY <2>1, <2>2, <2>4
  <2> QED
    BY <2>3, <2>4
<1>5. ASSUME NEW u \in Slots
      PROVE  slot'[u].wasmPtr \in allocated' \/ slot'[u].wasmPtr = Null
  <2>1. CASE u = t
    BY <2>1
  <2>2. CASE u = s
    BY <2>2, <1>2, <1>3
  <2>3. CASE u # s /\ u # t
    BY <2>3, <1>2, <1>3
  <2> QED
    BY <2>1, <2>2, <2>3
<1>6. ASSUME NEW u \in Slots, NEW v \in Slots, u # v, slot'[u].wasmPtr # Null
      PROVE  slot'[u].wasmPtr # slot'[v].wasmPtr
  <2>1. u # t
    BY <1>6
  <2>2. CASE v = t
    BY <1>6, <2>2
  <2>3. CASE v # t /\ u = s
    BY <1>3, <1>6, <2>3
  <2>4. CASE v # t /\ u # s
    BY <1>3, <1>6, <2>1, <2>4
  <2> QED
    BY <2>2, <2>3, <2>4
<1> QED
  BY <1>4, <1>5, <1>6 DEF OneOwner

\* A pointer taken from t goes to s, whose own block is freed: s may be a new
\* variable, which has none, or one that is assigned.
LEMMA TransferKeepsOwners ==
  ASSUME OInv, NEW s \in Slots, NEW t \in Slots, s # t,
         NEW n \in Counts \cup {0},
         allocated' = allocated \ {slot[s].wasmPtr},
         slot' = [slot EXCEPT ![s] = [slot[t] EXCEPT !.numItems = n],
                              ![t] = Emptied(slot[t])],
         UNCHANGED <<size, trivial, status>>
  PROVE  OInv'
<1> USE DEF OInv
<1>1. slot[t] \in Pointers
  BY PointerFields
<1>2. /\ slot'[s] = [slot[t] EXCEPT !.numItems = n]
      /\ slot'[t] = Emptied(slot[t])
      /\ \A u \in Slots \ {s, t} : slot'[u] = slot[u]
  BY DEF TypeOK
<1>3. /\ slot'[s].wasmPtr = slot[t].wasmPtr
      /\ slot'[s].nativePtr = slot[t].nativePtr
      /\ slot'[s].wasmSize = slot[t].wasmSize
      /\ slot'[s].modInst = slot[t].modInst
      /\ slot'[t].wasmPtr = Null
      /\ slot'[t].nativePtr = Null
  <2>1. /\ [slot[t] EXCEPT !.numItems = n].wasmPtr = slot[t].wasmPtr
        /\ [slot[t] EXCEPT !.numItems = n].nativePtr = slot[t].nativePtr
        /\ [slot[t] EXCEPT !.numItems = n].wasmSize = slot[t].wasmSize
        /\ [slot[t] EXCEPT !.numItems = n].modInst = slot[t].modInst
    BY <1>1, TakenFields
  <2>2. Emptied(slot[t]).wasmPtr = Null /\ Emptied(slot[t]).nativePtr = Null
    BY <1>1, EmptiedFields
  <2> QED
    BY <2>1, <2>2, <1>2
<1>4. TypeOK'
  BY <1>1, TakenFields, EmptiedFields DEF TypeOK
<1>5. OneOwner'
  <2>1. OneOwner
    OBVIOUS
  <2>2. \A u \in Slots \ {s, t} : slot'[u].wasmPtr = slot[u].wasmPtr
    BY <1>2
  <2>3. slot'[s].wasmPtr = slot[t].wasmPtr /\ slot'[t].wasmPtr = Null
    BY <1>3
  <2> QED
    BY <2>1, <2>2, <2>3, TransferredOwner
<1>6. ASSUME NEW u \in Slots
      PROVE  /\ slot'[u].nativePtr = slot'[u].wasmPtr
             /\ slot'[u].wasmPtr # Null =>
                  slot'[u].modInst /\ slot'[u].wasmSize = size'[slot'[u].wasmPtr]
  <2>1. CASE u = t
    BY <2>1, <1>3
  <2>2. CASE u = s
    BY <2>2, <1>3 DEF MembersAgree
  <2>3. CASE u # s /\ u # t
    BY <2>3, <1>2 DEF MembersAgree
  <2> QED
    BY <2>1, <2>2, <2>3
<1> QED
  BY <1>4, <1>5, <1>6 DEF MembersAgree

\* The block of s is freed and s keeps a pointer without addresses: reset and
\* the destructors.
LEMMA FreeKeepsOwners ==
  ASSUME OInv, NEW s \in Slots, NEW p \in Pointers,
         p.wasmPtr = Null, p.nativePtr = Null,
         allocated' = allocated \ {slot[s].wasmPtr},
         slot' = [slot EXCEPT ![s] = p],
         UNCHANGED <<size, trivial, status>>
  PROVE  OInv'
<1> USE DEF OInv
<1>1. slot'[s] = p /\ \A u \in Slots \ {s} : slot'[u] = slot[u]
  BY DEF TypeOK
<1>2. TypeOK'
  BY DEF TypeOK
<1>3. OneOwner'
  <2>1. ASSUME NEW c \in allocated'
        PROVE  \E u \in Slots : slot'[u].wasmPtr = c
    <3>1. PICK u \in Slots : slot[u].wasmPtr = c
      BY <2>1 DEF OneOwner
    <3> QED
      BY <2>1, <3>1, <1>1
  <2>2. \A u \in Slots : slot'[u].wasmPtr \in allocated' \cup {Null}
    BY <1>1 DEF OneOwner
  <2>3. \A u, v \in Slots :
          u # v /\ slot'[u].wasmPtr # Null => slot'[u].wasmPtr # slot'[v].wasmPtr
    BY <1>1 DEF OneOwner
  <2> QED
    BY <2>1, <2>2, <2>3 DEF OneOwner
<1>4. MembersAgree'
  BY <1>1 DEF MembersAgree
<1> QED
  BY <1>2, <1>3, <1>4

-----------------------------------------------------------------------------
(* The theorems.                                                           *)

\* A variable without a pointer has no address: the variables that MakeInstMemPtr
\* and the move constructors start the life of own nothing.
VacantOwnsNothing == \A s \in Slots : ~Alive(s) => slot[s] = Vacant

IInv == OInv /\ VacantOwnsNothing

\* Initially nothing is owned.
LEMMA InitIInv == Init => IInv
<1> SUFFICES ASSUME Init PROVE IInv
  OBVIOUS
<1>1. TypeOK
  BY VacantTyped, SizesAssumption DEF Init, TypeOK
<1>2. \A s \in Slots : slot[s] = Vacant
  BY DEF Init
<1>3. OneOwner /\ MembersAgree
  BY <1>2 DEF Init, Vacant, OneOwner, MembersAgree
<1> QED
  BY <1>1, <1>2, <1>3 DEF IInv, OInv, VacantOwnsNothing

\* Every step keeps ownership.
LEMMA NextOInv ==
  ASSUME IInv, Next
  PROVE  OInv'
<1> USE DEF IInv
<1>1. PICK s \in Slots :
        \/ MakeObject(s)
        \/ \E n \in Counts : MakeArray(s, n)
        \/ \E t \in Slots : MoveConstruct(s, t)
        \/ \E t \in Slots : MoveAssign(s, t)
        \/ Reset(s)
        \/ Destroy(s)
        \/ DestroyUndefined(s)
        \/ \E n \in Counts : CopyUndefined(s, n)
  BY DEF Next
<1>2. TypeOK
  BY DEF OInv
<1>3. ~Alive(s) => slot[s].wasmPtr = Null
  BY DEF VacantOwnsNothing, Vacant
<1>4. CASE MakeObject(s)
  <2>1. Malloc(s, "object", ItemSize, 0) /\ ~Alive(s)
    BY <1>4 DEF MakeObject, Malloc
  <2>2. ItemSize \in 0 .. WasmMax
    BY ItemAssumption, SizesAssumption
  <2> QED
    BY <2>1, <2>2, <1>3, MallocKeepsOwners DEF Classes
<1>5. ASSUME NEW n \in Counts, MakeArray(s, n)
      PROVE  OInv'
  <2>1. Malloc(s, "array", TotalSize(n), n) /\ ~Alive(s)
    BY <1>5 DEF MakeArray, Malloc
  <2>2. TotalSize(n) \in 0 .. WasmMax
    BY <2>1, TotalSizeTyped DEF Malloc
  <2> QED
    BY <2>1, <2>2, <1>3, MallocKeepsOwners DEF Classes
<1>6. ASSUME NEW t \in Slots, MoveConstruct(s, t)
      PROVE  OInv'
  <2>1. s # t /\ slot[s].wasmPtr = Null
    BY <1>3, <1>6 DEF MoveConstruct
  <2>2. allocated' = allocated \ {slot[s].wasmPtr}
    BY <2>1, <1>2, <1>6, NullAssumption DEF MoveConstruct, TypeOK
  <2>3. PICK n \in Counts \cup {0} :
          slot' = [slot EXCEPT ![s] = [slot[t] EXCEPT !.numItems = n],
                               ![t] = Emptied(slot[t])]
    BY <1>6 DEF MoveConstruct
  <2> QED
    BY <2>1, <2>2, <2>3, <1>6, TransferKeepsOwners DEF MoveConstruct
<1>7. ASSUME NEW t \in Slots, MoveAssign(s, t)
      PROVE  OInv'
  <2>1. slot[s].numItems \in Counts \cup {0}
    BY <1>2, PointerFields
  <2> QED
    BY <2>1, <1>7, TransferKeepsOwners DEF MoveAssign
<1>8. CASE Reset(s)
  <2>1. /\ ResetPtr(slot[s]) \in Pointers
        /\ ResetPtr(slot[s]).wasmPtr = Null
        /\ ResetPtr(slot[s]).nativePtr = Null
    BY <1>2, PointerFields DEF ResetPtr, Pointers
  <2> QED
    BY <2>1, <1>8, FreeKeepsOwners DEF Reset
<1>9. CASE Destroy(s)
  <2>1. Vacant.wasmPtr = Null /\ Vacant.nativePtr = Null
    BY DEF Vacant
  <2> QED
    BY <2>1, <1>9, VacantTyped, FreeKeepsOwners DEF Destroy
<1>10. ASSUME UNCHANGED <<slot, allocated, size, trivial>>,
              status' \in UndefinedAccesses
       PROVE  OInv'
  BY <1>10 DEF OInv, TypeOK, OneOwner, MembersAgree
<1>11. CASE DestroyUndefined(s)
  BY <1>10, <1>11 DEF DestroyUndefined, UndefinedAccesses
<1>12. ASSUME NEW n \in Counts, CopyUndefined(s, n)
       PROVE  OInv'
  BY <1>10, <1>12 DEF CopyUndefined, UndefinedAccesses
<1> QED
  BY <1>1, <1>4, <1>5, <1>6, <1>7, <1>8, <1>9, <1>11, <1>12

\* Every step leaves the other variables alone and ends lives with Vacant.
LEMMA NextVacant ==
  ASSUME IInv, Next
  PROVE  VacantOwnsNothing'
<1> SUFFICES ASSUME NEW u \in Slots, slot'[u].cls = "none"
             PROVE  slot'[u] = Vacant
  BY DEF VacantOwnsNothing, Alive
<1>1. PICK s \in Slots :
        \/ MakeObject(s)
        \/ \E n \in Counts : MakeArray(s, n)
        \/ \E t \in Slots : MoveConstruct(s, t)
        \/ \E t \in Slots : MoveAssign(s, t)
        \/ Reset(s)
        \/ Destroy(s)
        \/ DestroyUndefined(s)
        \/ \E n \in Counts : CopyUndefined(s, n)
  BY DEF Next
<1>2. TypeOK /\ slot[u] \in Pointers /\ slot[s] \in Pointers
  BY PointerFields DEF IInv, OInv
<1>3. slot[u].cls = "none" => slot[u] = Vacant
  BY DEF IInv, VacantOwnsNothing, Alive
<1>4. CASE MakeObject(s) \/ \E n \in Counts : MakeArray(s, n)
  BY <1>2, <1>3, <1>4 DEF MakeObject, MakeArray, Malloc, TypeOK
<1>5. ASSUME NEW t \in Slots, NEW n,
             Alive(t),
             s # t,
             slot' = [slot EXCEPT ![s] = [slot[t] EXCEPT !.numItems = n],
                                  ![t] = Emptied(slot[t])]
      PROVE  slot'[u] = Vacant
  <2>1. slot[t] \in Pointers
    BY <1>2, PointerFields
  <2>2. /\ [slot[t] EXCEPT !.numItems = n].cls = slot[t].cls
        /\ Emptied(slot[t]).cls = slot[t].cls
    BY <2>1 DEF Emptied, Pointers
  <2>3. u # s /\ u # t
    BY <1>2, <1>5, <2>2 DEF Alive, TypeOK
  <2> QED
    BY <1>2, <1>3, <1>5, <2>3 DEF TypeOK
<1>6. CASE \E t \in Slots : MoveConstruct(s, t)
  BY <1>5, <1>6 DEF MoveConstruct
<1>7. CASE \E t \in Slots : MoveAssign(s, t)
  BY <1>5, <1>7 DEF MoveAssign, Alive
<1>8. CASE Reset(s)
  <2>1. ResetPtr(slot[s]).cls = slot[s].cls
    BY <1>2 DEF ResetPtr, Pointers
  <2> QED
    BY <1>2, <1>3, <1>8, <2>1 DEF Reset, Alive, TypeOK
<1>9. CASE Destroy(s)
  BY <1>2, <1>3, <1>9 DEF Destroy, TypeOK
<1>10. CASE DestroyUndefined(s) \/ \E n \in Counts : CopyUndefined(s, n)
  BY <1>3, <1>10 DEF DestroyUndefined, CopyUndefined
<1> QED
  BY <1>1, <1>4, <1>6, <1>7, <1>8, <1>9, <1>10

\* The invariant on owners, members and variables out of life.
THEOREM MemoryInvariance == Spec => []IInv
<1>1. IInv /\ [Next]_vars => IInv'
  <2>1. ASSUME IInv, UNCHANGED vars
        PROVE  IInv'
    BY <2>1 DEF IInv, OInv, VacantOwnsNothing, Alive, vars, TypeOK, OneOwner,
                MembersAgree
  <2> QED
    BY <2>1, NextOInv, NextVacant DEF IInv
<1> QED
  BY InitIInv, <1>1, PTL DEF Spec

\* Types.
THEOREM MemoryTypes == Spec => []TypeOK
<1>1. IInv => TypeOK
  BY DEF IInv, OInv
<1> QED
  BY MemoryInvariance, <1>1, PTL

\* Every block of guest memory has exactly one owner, whatever the client does
\* with its pointers.
THEOREM BlocksAreOwnedOnce == Spec => []OneOwner
<1>1. IInv => OneOwner
  BY DEF IInv, OInv
<1> QED
  BY MemoryInvariance, <1>1, PTL

\* The members of a pointer agree with each other and with the block.
THEOREM PointersStayWhole == Spec => []MembersAgree
<1>1. IInv => MembersAgree
  BY DEF IInv, OInv
<1> QED
  BY MemoryInvariance, <1>1, PTL

-----------------------------------------------------------------------------
(* Room for the values.                                                    *)

\* The block of an object is as large as the object.
ObjectFits(p) == p.cls = "object" /\ p.nativePtr # Null => p.wasmSize = ItemSize

ObjectsFit == \A s \in Slots : ObjectFits(slot[s])

\* The destructor of an object finds it inside its block.
ObjectsHaveRoom ==
  \A s \in Slots : slot[s].cls = "object" => ~Outside(slot[s], Destroyed(slot[s]))

\* Objects keep their size over moves and resets.
LEMMA NextObjectsFit ==
  ASSUME IInv, ObjectsFit, [Next]_vars
  PROVE  ObjectsFit'
<1> SUFFICES ASSUME NEW u \in Slots PROVE ObjectFits(slot'[u])
  BY DEF ObjectsFit
<1>1. ObjectFits(slot[u])
  BY DEF ObjectsFit
<1>2. TypeOK
  BY DEF IInv, OInv
<1>3. ASSUME NEW s \in Slots, NEW cls, NEW bytes, NEW n,
             Malloc(s, cls, bytes, n), cls = "object" => bytes = ItemSize
      PROVE  ObjectFits(slot'[u])
  BY <1>1, <1>2, <1>3 DEF Malloc, ObjectFits, TypeOK
<1>4. ASSUME NEW s \in Slots, NEW t \in Slots, NEW n,
             slot' = [slot EXCEPT ![s] = [slot[t] EXCEPT !.numItems = n],
                                  ![t] = Emptied(slot[t])]
      PROVE  ObjectFits(slot'[u])
  <2>1. slot[t] \in Pointers /\ ObjectFits(slot[t])
    BY <1>2, PointerFields DEF ObjectsFit
  <2>2. ObjectFits([slot[t] EXCEPT !.numItems = n]) /\ ObjectFits(Emptied(slot[t]))
    BY <2>1 DEF ObjectFits, Emptied, Pointers
  <2>3. \/ slot'[u] = slot[u]
        \/ slot'[u] = [slot[t] EXCEPT !.numItems = n]
        \/ slot'[u] = Emptied(slot[t])
    BY <1>2, <1>4 DEF TypeOK
  <2> QED
    BY <1>1, <2>2, <2>3
<1>5. ASSUME NEW s \in Slots, Reset(s) \/ Destroy(s)
      PROVE  ObjectFits(slot'[u])
  <2>1. slot[s] \in Pointers
    BY <1>2, PointerFields
  <2>2. ObjectFits(ResetPtr(slot[s])) /\ ObjectFits(Vacant)
    BY <2>1 DEF ObjectFits, ResetPtr, Vacant, Pointers
  <2>3. \/ slot'[u] = slot[u]
        \/ slot'[u] = ResetPtr(slot[s])
        \/ slot'[u] = Vacant
    BY <1>2, <1>5 DEF Reset, Destroy, TypeOK
  <2> QED
    BY <1>1, <2>2, <2>3
<1>6. CASE slot' = slot
  BY <1>1, <1>6
<1> QED
  BY <1>3, <1>4, <1>5, <1>6
  DEF Next, MakeObject, MakeArray, MoveConstruct, MoveAssign, DestroyUndefined,
      CopyUndefined, vars

\* However objects are moved, assigned and reset, their destructor stays inside
\* the block: values outside are destroyed or copied only through arrays, whose
\* m_numItems the moves do not carry along.
THEOREM ObjectsStayInside == Spec => []ObjectsHaveRoom
<1>1. Init => ObjectsFit
  BY DEF Init, ObjectsFit, ObjectFits, Vacant
<1>2. IInv /\ ObjectsFit /\ [Next]_vars => ObjectsFit'
  BY NextObjectsFit
<1>3. IInv /\ ObjectsFit => ObjectsHaveRoom
  <2> SUFFICES ASSUME IInv, ObjectsFit, NEW s \in Slots, slot[s].cls = "object",
                      slot[s].nativePtr # Null
               PROVE  ~(1 * ItemSize > size[slot[s].nativePtr])
    BY DEF ObjectsHaveRoom, Outside, Destroyed
  <2>1. size[slot[s].nativePtr] = ItemSize
    BY DEF IInv, OInv, MembersAgree, ObjectsFit, ObjectFits
  <2> QED
    BY <2>1, ItemAssumption, SizesAssumption
<1> QED
  BY <1>1, <1>2, <1>3, MemoryInvariance, PTL DEF Spec

\* The product in MakeInstMemPtr<T[]> wraps around.
Wraps(n) == n * ItemSize >= SizeModulus

\* A new array has no room for its values exactly if the product wrapped around.
NewArraysFit ==
  \A s \in Slots, n \in Counts :
    MakeArray(s, n) => (Outside(slot[s], Destroyed(slot[s]))' <=> Wraps(n))

\* What % leaves of a size.
LEMMA Remainders ==
  ASSUME NEW a \in Nat, NEW m \in Nat \ {0}
  PROVE  a % m \in 0 .. m - 1 /\ (a < m => a % m = a)
OBVIOUS

\* MakeInstMemPtr compares with wasm_size what is left of the product: an array
\* of so many items that the product wraps around is made with too small a
\* block, and no other array is.
THEOREM OnlyWrappedArraysLackRoom == Spec => [][NewArraysFit]_vars
<1>1. ASSUME IInv, NEW s \in Slots, NEW n \in Counts, MakeArray(s, n)
      PROVE  Outside(slot[s], Destroyed(slot[s]))' <=> Wraps(n)
  <2>1. PICK b \in Blocks :
          /\ size' = [size EXCEPT ![b] = TotalSize(n)]
          /\ slot' = [slot EXCEPT ![s] =
               [cls |-> "array", wasmPtr |-> b, nativePtr |-> b,
                wasmSize |-> TotalSize(n), numItems |-> n, modInst |-> TRUE]]
    BY <1>1 DEF MakeArray, Malloc
  <2>2. /\ slot'[s].cls = "array" /\ slot'[s].numItems = n
        /\ slot'[s].nativePtr = b /\ b # Null
        /\ size'[b] = TotalSize(n)
    BY <1>1, <2>1, NullAssumption DEF IInv, OInv, TypeOK
  <2>3. Outside(slot[s], Destroyed(slot[s]))' <=> n * ItemSize > TotalSize(n)
    BY <2>2 DEF Outside, Destroyed
  <2>4. PICK a \in Nat : a = n * ItemSize
    <3>1. n \in Nat /\ ItemSize \in Nat
      BY CountsAssumption, ItemAssumption, SizesAssumption
    <3> QED
      BY <3>1
  <2>5. /\ SizeModulus \in Nat \ {0}
        /\ a % SizeModulus \in 0 .. SizeModulus - 1
        /\ a < SizeModulus => a % SizeModulus = a
    <3>1. SizeModulus \in Nat \ {0}
      BY SizesAssumption
    <3> QED
      BY <2>4, <3>1, Remainders, Zenon
  <2>6. PICK r \in Nat : r = a % SizeModulus
    BY <2>5
  <2>7. a > r <=> a >= SizeModulus
    BY <2>5, <2>6
  <2> QED
    BY <2>3, <2>4, <2>6, <2>7 DEF TotalSize, Wraps
<1>2. IInv /\ [Next]_vars => [NewArraysFit]_vars
  BY <1>1 DEF NewArraysFit
<1> QED
  BY <1>2, MemoryInvariance, PTL DEF Spec
=============================================================================
