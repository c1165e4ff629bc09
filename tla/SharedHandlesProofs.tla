------------------------- MODULE SharedHandlesProofs -------------------------
(***************************************************************************)
(* Proofs about SharedHandles, for any number of objects and handles.      *)
(***************************************************************************)
EXTENDS SharedHandles, TLAPS

-----------------------------------------------------------------------------
(* The inductive invariant.                                                *)

Created == DOMAIN ParentKind

\* A reference to a parent leads to an object of the right kind.
LinksTyped ==
  \A o \in Objects :
    /\ linked[o] => /\ kind[o] \in Created
                    /\ parent[o] \in Objects
                    /\ kind[parent[o]] = ParentKind[kind[o]]
    /\ kind[o] \notin Created => parent[o] = NoObject

\* Nothing of the object has been destroyed yet.
Intact(o) ==
  /\ kind[o] # "free"
  /\ native[o]
  /\ kind[o] \in Created => linked[o]

ReferencedIntact == \A o \in Objects : Referenced(o) => Intact(o)

InDestruction(o) == \E i \in 1 .. Len(stack) : stack[i] = o

\* Only objects without references are in destruction.
DestructedUnreferenced ==
  \A o \in Objects : InDestruction(o) => ~Referenced(o)

\* What is not referenced is in destruction.
NothingForgotten ==
  \A o \in Objects :
    kind[o] # "free" => Referenced(o) \/ InDestruction(o)

\* Guest memory has its instance as long as it is allocated.
MemKeepsInstance ==
  \A o \in Objects : kind[o] = "mem" /\ native[o] => linked[o]

HInv ==
  /\ TypeOK
  /\ LinksTyped
  /\ ReferencedIntact
  /\ DestructedUnreferenced
  /\ NothingForgotten
  /\ MemKeepsInstance

-----------------------------------------------------------------------------
(* The stack of destructors.                                               *)

\* What pushing an object does.
LEMMA PushStack ==
  ASSUME NEW s \in Seq(Objects), NEW o \in Objects
  PROVE  /\ <<o>> \o s \in Seq(Objects)
         /\ Len(s) \in Nat
         /\ Len(<<o>> \o s) = Len(s) + 1
         /\ (<<o>> \o s)[1] = o
         /\ \A i \in 1 .. Len(s) : (<<o>> \o s)[i + 1] = s[i]
OBVIOUS

\* What popping one does.
LEMMA PopStack ==
  ASSUME NEW s \in Seq(Objects), s # <<>>
  PROVE  /\ Head(s) \in Objects
         /\ Len(s) \in Nat \ {0}
         /\ Head(s) = s[1]
         /\ Tail(s) \in Seq(Objects)
         /\ Len(Tail(s)) = Len(s) - 1
         /\ \A i \in 1 .. Len(s) - 1 : Tail(s)[i] = s[i + 1]
OBVIOUS

\* Pushed, o joins the objects in destruction.
LEMMA PushInDestruction ==
  ASSUME TypeOK, NEW o \in Objects, stack' = <<o>> \o stack
  PROVE  /\ stack' \in Seq(Objects)
         /\ \A x \in Objects : InDestruction(x)' <=> x = o \/ InDestruction(x)
<1>1. /\ stack' \in Seq(Objects)
      /\ Len(stack) \in Nat
      /\ Len(stack') = Len(stack) + 1
      /\ stack'[1] = o
      /\ \A i \in 1 .. Len(stack) : stack'[i + 1] = stack[i]
  BY PushStack DEF TypeOK
<1>2. ASSUME NEW x \in Objects
      PROVE  InDestruction(x)' <=> x = o \/ InDestruction(x)
  <2>1. ASSUME NEW i \in 1 .. Len(stack'), stack'[i] = x
        PROVE  x = o \/ InDestruction(x)
    <3>1. i = 1 \/ (i - 1 \in 1 .. Len(stack) /\ stack'[i] = stack[i - 1])
      BY <1>1
    <3> QED
      BY <1>1, <2>1, <3>1 DEF InDestruction
  <2>2. x = o => InDestruction(x)'
    BY <1>1 DEF InDestruction
  <2>3. ASSUME NEW i \in 1 .. Len(stack), stack[i] = x
        PROVE  InDestruction(x)'
    <3>1. i + 1 \in 1 .. Len(stack') /\ stack'[i + 1] = x
      BY <1>1, <2>3
    <3> QED
      BY <3>1 DEF InDestruction
  <2> QED
    BY <2>1, <2>2, <2>3 DEF InDestruction
<1> QED
  BY <1>1, <1>2

\* Popped, only the innermost object may leave.
LEMMA PopInDestruction ==
  ASSUME TypeOK, stack # <<>>, stack' = Tail(stack)
  PROVE  /\ stack' \in Seq(Objects)
         /\ \A x \in Objects : InDestruction(x)' => InDestruction(x)
         /\ \A x \in Objects :
              InDestruction(x) => x = Head(stack) \/ InDestruction(x)'
<1>1. /\ Len(stack) \in Nat \ {0}
      /\ Head(stack) = stack[1]
      /\ stack' \in Seq(Objects)
      /\ Len(stack') = Len(stack) - 1
      /\ \A i \in 1 .. Len(stack) - 1 : stack'[i] = stack[i + 1]
  BY PopStack DEF TypeOK
<1>2. ASSUME NEW x \in Objects, NEW i \in 1 .. Len(stack'), stack'[i] = x
      PROVE  InDestruction(x)
  <2>1. i + 1 \in 1 .. Len(stack) /\ stack[i + 1] = x
    BY <1>1, <1>2
  <2> QED
    BY <2>1 DEF InDestruction
<1>3. ASSUME NEW x \in Objects, NEW i \in 1 .. Len(stack), stack[i] = x
      PROVE  x = Head(stack) \/ InDestruction(x)'
  <2>1. i = 1 \/ (i - 1 \in 1 .. Len(stack') /\ stack'[i - 1] = stack[i])
    BY <1>1
  <2> QED
    BY <1>1, <1>3, <2>1 DEF InDestruction
<1> QED
  BY <1>1, <1>2, <1>3 DEF InDestruction

\* The innermost object in destruction is one.
LEMMA HeadInDestruction ==
  ASSUME TypeOK, stack # <<>>
  PROVE  Head(stack) \in Objects /\ InDestruction(Head(stack))
BY PopStack DEF TypeOK, InDestruction

\* While the client runs nothing is in destruction.
LEMMA NothingInDestruction ==
  ASSUME ClientRuns, NEW o \in Objects
  PROVE  ~InDestruction(o)
BY DEF ClientRuns, InDestruction

\* When references only go away, and only those to o, starting its destructor
\* if none is left keeps the stack and the references in step.
LEMMA StartDestructorStack ==
  ASSUME TypeOK, NEW o \in Objects, StartDestructor(o),
         UNCHANGED <<kind, parent>>,
         DestructedUnreferenced, NothingForgotten,
         \A x \in Objects : Referenced(x)' => Referenced(x),
         \A x \in Objects \ {o} : Referenced(x) => Referenced(x)'
  PROVE  stack' \in Seq(Objects) /\ DestructedUnreferenced' /\ NothingForgotten'
<1>0. Counted(o, handles', linked') <=> Referenced(o)'
  BY DEF Counted, Referenced
<1>1. CASE Referenced(o)'
  <2>1. stack' = stack
    BY <1>0, <1>1 DEF StartDestructor
  <2>2. \A x \in Objects : InDestruction(x)' <=> InDestruction(x)
    BY <2>1 DEF InDestruction
  <2> QED
    BY <1>1, <2>1, <2>2 DEF TypeOK, DestructedUnreferenced, NothingForgotten
<1>2. CASE ~Referenced(o)'
  <2>1. stack' = <<o>> \o stack
    BY <1>0, <1>2 DEF StartDestructor
  <2> QED
    BY <1>2, <2>1, PushInDestruction
    DEF DestructedUnreferenced, NothingForgotten
<1> QED
  BY <1>1, <1>2

-----------------------------------------------------------------------------
(* The steps of the client.                                                *)

\* A new object is intact, and referenced by its handle only.
LEMMA AllocateKeepsInv ==
  ASSUME HInv, NEW o \in Objects, NEW k \in Kinds, NEW p,
         Allocate(o, k, p),
         \/ k = "runtime" /\ p = NoObject
         \/ /\ k \in Created
            /\ p \in Objects
            /\ handles[p] > 0
            /\ kind[p] = ParentKind[k]
  PROVE  HInv'
<1> USE DEF HInv
<1>1. kind[o] = "free" /\ ~Referenced(o)
  BY DEF Allocate, ReferencedIntact, Intact
<1>2. /\ kind' \in [Objects -> Kinds \cup {"free"}]
      /\ kind'[o] = k
      /\ \A x \in Objects \ {o} : kind'[x] = kind[x]
      /\ parent'[o] = p
      /\ \A x \in Objects \ {o} : parent'[x] = parent[x]
      /\ linked'[o] = (p # NoObject)
      /\ \A x \in Objects \ {o} : linked'[x] = linked[x]
      /\ handles'[o] = 1
      /\ \A x \in Objects \ {o} : handles'[x] = handles[x]
      /\ native'[o] = TRUE
      /\ \A x \in Objects \ {o} : native'[x] = native[x]
      /\ stack' = stack /\ ClientRuns
  BY DEF Allocate, TypeOK
<1>3. TypeOK'
  BY MaxHandlesAssumption DEF Allocate, TypeOK
<1>4. p # o
  BY <1>1, NoObjectAssumption DEF Referenced, Counted
<1>5. ASSUME NEW c \in Objects, linked[c]
      PROVE  c # o /\ parent[c] # o
  BY <1>1, <1>5 DEF LinksTyped, Referenced, Counted, Created, ParentKind
<1>6. LinksTyped'
  <2> SUFFICES ASSUME NEW x \in Objects
               PROVE  /\ linked'[x] => /\ kind'[x] \in Created
                                       /\ parent'[x] \in Objects
                                       /\ kind'[parent'[x]] = ParentKind[kind'[x]]
                      /\ kind'[x] \notin Created => parent'[x] = NoObject
    BY DEF LinksTyped
  <2>1. CASE x = o
    BY <1>2, <1>4, <2>1, NoObjectAssumption DEF Created, ParentKind
  <2>2. CASE x # o
    BY <1>2, <1>5, <2>2 DEF LinksTyped
  <2> QED
    BY <2>1, <2>2
<1>7. \A x \in Objects \ {o} : Referenced(x)' <=> Referenced(x)
  <2> SUFFICES ASSUME NEW x \in Objects \ {o}
               PROVE  Referenced(x)' <=> Referenced(x)
    OBVIOUS
  <2>1. ASSUME NEW c \in Objects, linked'[c], parent'[c] = x
        PROVE  Referenced(x)
    <3>1. CASE c = o
      BY <1>2, <2>1, <3>1, NoObjectAssumption DEF Referenced, Counted
    <3>2. CASE c # o
      BY <1>2, <2>1, <3>2 DEF Referenced, Counted
    <3> QED
      BY <3>1, <3>2
  <2>2. ASSUME NEW c \in Objects, linked[c], parent[c] = x
        PROVE  linked'[c] /\ parent'[c] = x
    BY <1>2, <1>5, <2>2
  <2> QED
    BY <1>2, <2>1, <2>2 DEF Referenced, Counted
<1>8. Referenced(o)' /\ Intact(o)'
  <2>1. handles'[o] > 0
    BY <1>2
  <2>2. k # "free"
    BY DEF Kinds
  <2>3. k \in Created => linked'[o]
    BY <1>2, NoObjectAssumption DEF Created, ParentKind
  <2> QED
    BY <1>2, <2>1, <2>2, <2>3 DEF Referenced, Counted, Intact
<1>9. ReferencedIntact'
  BY <1>2, <1>7, <1>8 DEF ReferencedIntact, Intact
<1>10. DestructedUnreferenced' /\ NothingForgotten'
  <2>1. \A x \in Objects : ~InDestruction(x) /\ ~InDestruction(x)'
    BY <1>2, NothingInDestruction DEF InDestruction
  <2> QED
    BY <1>2, <1>7, <1>8, <2>1 DEF DestructedUnreferenced, NothingForgotten
<1>11. MemKeepsInstance'
  BY <1>2, <1>8 DEF MemKeepsInstance, Intact, Created, ParentKind
<1> QED
  BY <1>3, <1>6, <1>9, <1>10, <1>11

\* One more handle to an object that has one changes no reference.
LEMMA CopyKeepsInv ==
  ASSUME HInv, NEW o \in Objects, CopyHandle(o)
  PROVE  HInv'
<1> USE DEF HInv
<1>1. TypeOK'
  BY MaxHandlesAssumption DEF CopyHandle, TypeOK
<1>2. \A x \in Objects : handles'[x] > 0 <=> handles[x] > 0
  BY MaxHandlesAssumption DEF CopyHandle, TypeOK
<1>3. \A x \in Objects : Referenced(x)' <=> Referenced(x)
  BY <1>2 DEF CopyHandle, Referenced, Counted
<1>4. UNCHANGED <<kind, parent, linked, native, stack>>
  BY DEF CopyHandle
<1>5. \A x \in Objects : InDestruction(x)' <=> InDestruction(x)
  BY <1>4 DEF InDestruction
<1> QED
  BY <1>1, <1>3, <1>4, <1>5
  DEF LinksTyped, ReferencedIntact, Intact, DestructedUnreferenced,
      NothingForgotten, MemKeepsInstance

\* One handle less leaves the object referenced, or starts its destructor.
LEMMA DropKeepsInv ==
  ASSUME HInv, NEW o \in Objects, DropHandle(o)
  PROVE  HInv'
<1> USE DEF HInv
<1>1. /\ handles' \in [Objects -> 0 .. MaxHandles]
      /\ \A x \in Objects \ {o} : handles'[x] = handles[x]
      /\ handles[o] > 0
      /\ UNCHANGED <<kind, parent, linked, native>>
      /\ StartDestructor(o)
  BY MaxHandlesAssumption DEF DropHandle, TypeOK
<1>2. \A x \in Objects : Referenced(x)' => Referenced(x)
  BY <1>1 DEF Referenced, Counted
<1>3. \A x \in Objects \ {o} : Referenced(x) => Referenced(x)'
  BY <1>1 DEF Referenced, Counted
<1>4. stack' \in Seq(Objects) /\ DestructedUnreferenced' /\ NothingForgotten'
  BY <1>1, <1>2, <1>3, StartDestructorStack
<1>5. TypeOK'
  BY <1>1, <1>4 DEF TypeOK
<1> QED
  BY <1>1, <1>2, <1>4, <1>5
  DEF LinksTyped, ReferencedIntact, Intact, MemKeepsInstance

-----------------------------------------------------------------------------
(* The steps of the destructors.                                           *)

\* An object in destruction is referenced by nobody.
LEMMA HeadUnreferenced ==
  ASSUME HInv, stack # <<>>
  PROVE  Head(stack) \in Objects /\ ~Referenced(Head(stack))
BY HeadInDestruction DEF HInv, DestructedUnreferenced

\* Releasing the parent leaves the parent referenced, or starts its
\* destructor.
LEMMA ReleaseKeepsInv ==
  ASSUME HInv, stack # <<>>, ReleaseParent(Head(stack))
  PROVE  HInv'
<1> DEFINE o == Head(stack)
<1> USE DEF HInv
<1>1. o \in Objects /\ ~Referenced(o)
  BY HeadUnreferenced
<1>2. parent[o] \in Objects
  BY <1>1 DEF ReleaseParent, LinksTyped
<1>3. /\ linked' \in [Objects -> BOOLEAN]
      /\ linked'[o] = FALSE
      /\ \A x \in Objects \ {o} : linked'[x] = linked[x]
      /\ UNCHANGED <<kind, parent, handles, native>>
      /\ StartDestructor(parent[o])
  BY <1>1 DEF ReleaseParent, TypeOK
<1>4. \A x \in Objects : Referenced(x)' => Referenced(x)
  BY <1>3 DEF Referenced, Counted
<1>5. \A x \in Objects \ {parent[o]} : Referenced(x) => Referenced(x)'
  BY <1>3 DEF Referenced, Counted
<1>6. stack' \in Seq(Objects) /\ DestructedUnreferenced' /\ NothingForgotten'
  BY <1>2, <1>3, <1>4, <1>5, StartDestructorStack
<1>7. TypeOK'
  BY <1>3, <1>6 DEF TypeOK
<1>8. LinksTyped'
  BY <1>1, <1>3 DEF LinksTyped
<1>9. ReferencedIntact'
  BY <1>1, <1>3, <1>4 DEF ReferencedIntact, Intact
<1>10. MemKeepsInstance'
  <2>1. kind[o] = "mem" => ~native[o]
    BY DEF ReleaseParent, NativeFirst, DestroysInBody
  <2> QED
    BY <1>1, <1>3, <2>1 DEF MemKeepsInstance
<1> QED
  BY <1>6, <1>7, <1>8, <1>9, <1>10

\* Destroying the native resource of an unreferenced object breaks no
\* referenced one.
LEMMA DestroyKeepsInv ==
  ASSUME HInv, stack # <<>>, DestroyNative(Head(stack))
  PROVE  HInv'
<1> DEFINE o == Head(stack)
<1> USE DEF HInv
<1>1. o \in Objects /\ ~Referenced(o)
  BY HeadUnreferenced
<1>2. /\ native' \in [Objects -> BOOLEAN]
      /\ native'[o] = FALSE
      /\ \A x \in Objects \ {o} : native'[x] = native[x]
      /\ UNCHANGED <<kind, parent, linked, handles, stack>>
  BY <1>1 DEF DestroyNative, TypeOK
<1>3. \A x \in Objects : /\ Referenced(x)' <=> Referenced(x)
                         /\ InDestruction(x)' <=> InDestruction(x)
  BY <1>2 DEF Referenced, Counted, InDestruction
<1> QED
  BY <1>1, <1>2, <1>3
  DEF TypeOK, LinksTyped, ReferencedIntact, Intact, DestructedUnreferenced,
      NothingForgotten, MemKeepsInstance

\* Freeing the place of an unreferenced object leaves no reference dangling.
LEMMA DeallocateKeepsInv ==
  ASSUME HInv, stack # <<>>, Deallocate(Head(stack))
  PROVE  HInv'
<1> DEFINE o == Head(stack)
<1> USE DEF HInv
<1>1. o \in Objects /\ ~Referenced(o)
  BY HeadUnreferenced
<1>2. /\ kind' \in [Objects -> Kinds \cup {"free"}]
      /\ kind'[o] = "free"
      /\ \A x \in Objects \ {o} : kind'[x] = kind[x]
      /\ parent' \in [Objects -> Objects \cup {NoObject}]
      /\ parent'[o] = NoObject
      /\ \A x \in Objects \ {o} : parent'[x] = parent[x]
      /\ ~linked[o]
      /\ stack' = Tail(stack)
      /\ UNCHANGED <<linked, handles, native>>
  BY <1>1 DEF Deallocate, TypeOK
<1>3. \A x \in Objects : Referenced(x)' <=> Referenced(x)
  BY <1>1, <1>2, NoObjectAssumption DEF Referenced, Counted
<1>4. /\ stack' \in Seq(Objects)
      /\ \A x \in Objects : InDestruction(x)' => InDestruction(x)
      /\ \A x \in Objects : InDestruction(x) => x = o \/ InDestruction(x)'
  BY <1>2, PopInDestruction
<1>5. TypeOK'
  BY <1>2, <1>4 DEF TypeOK
<1>6. LinksTyped'
  <2>1. \A c \in Objects : linked[c] => c # o /\ parent[c] # o
    BY <1>1, <1>2 DEF Referenced, Counted
  <2>2. "free" \notin Created
    BY DEF Created, ParentKind
  <2> QED
    BY <1>1, <1>2, <2>1, <2>2 DEF LinksTyped
<1>7. ReferencedIntact'
  BY <1>1, <1>2, <1>3 DEF ReferencedIntact, Intact
<1>8. DestructedUnreferenced' /\ NothingForgotten'
  BY <1>1, <1>2, <1>3, <1>4 DEF DestructedUnreferenced, NothingForgotten
<1>9. MemKeepsInstance'
  BY <1>1, <1>2 DEF MemKeepsInstance
<1> QED
  BY <1>5, <1>6, <1>7, <1>8, <1>9

-----------------------------------------------------------------------------
(* The invariant, and what it says.                                        *)

\* Initially there are no objects.
LEMMA HandlesInit == Init => HInv
<1> SUFFICES ASSUME Init PROVE HInv
  OBVIOUS
<1>1. TypeOK
  BY MaxHandlesAssumption DEF Init, TypeOK
<1>2. ASSUME NEW o \in Objects
      PROVE  ~Referenced(o) /\ ~InDestruction(o)
  <2>1. ~Referenced(o)
    BY DEF Init, Referenced, Counted
  <2>2. ~InDestruction(o)
    BY NothingInDestruction DEF Init, ClientRuns
  <2> QED
    BY <2>1, <2>2
<1>3. LinksTyped /\ MemKeepsInstance
  BY DEF Init, LinksTyped, MemKeepsInstance
<1>4. ReferencedIntact /\ DestructedUnreferenced /\ NothingForgotten
  BY <1>2
  DEF Init, ReferencedIntact, DestructedUnreferenced, NothingForgotten
<1> QED
  BY <1>1, <1>3, <1>4 DEF HInv

\* The invariant is inductive.
LEMMA HandlesStep ==
  ASSUME HInv, [Next]_vars
  PROVE  HInv'
<1>1. ASSUME NEW o \in Objects, CreateRuntime(o)
      PROVE  HInv'
  BY <1>1, AllocateKeepsInv DEF CreateRuntime, Kinds
<1>2. ASSUME NEW o \in Objects, NEW k \in DOMAIN ParentKind,
             NEW p \in Objects, Create(o, k, p)
      PROVE  HInv'
  <2>1. k \in Kinds
    BY DEF Kinds, ParentKind
  <2> QED
    BY <1>2, <2>1, AllocateKeepsInv DEF Create, Created
<1>3. ASSUME NEW o \in Objects, CopyHandle(o)
      PROVE  HInv'
  BY <1>3, CopyKeepsInv
<1>4. ASSUME NEW o \in Objects, DropHandle(o)
      PROVE  HInv'
  BY <1>4, DropKeepsInv
<1>5. CASE DestructorStep
  BY <1>5, ReleaseKeepsInv, DestroyKeepsInv, DeallocateKeepsInv
  DEF DestructorStep
<1>6. CASE UNCHANGED vars
  BY <1>6
  DEF vars, HInv, TypeOK, LinksTyped, ReferencedIntact, Intact, Referenced,
      Counted, DestructedUnreferenced, NothingForgotten, InDestruction,
      MemKeepsInstance
<1> QED
  BY <1>1, <1>2, <1>3, <1>4, <1>5, <1>6 DEF Next, ClientStep

\* The inductive invariant holds in every reachable state.
THEOREM HandlesInvariance == Spec => []HInv
<1>1. HInv /\ [Next]_vars => HInv'
  BY HandlesStep
<1> QED
  BY <1>1, HandlesInit, PTL DEF Spec

\* What is referenced has everything it was created from.
LEMMA ChainAlive ==
  ASSUME HInv, NEW o \in Objects, kind[o] \in Created => linked[o]
  PROVE  \A a \in Ancestors(o) : native[a]
<1> USE DEF HInv
<1>1. ASSUME NEW x \in Objects, kind[x] \in Created => linked[x],
             Parent(x) # NoObject
      PROVE  /\ Parent(x) \in Objects
             /\ native[Parent(x)]
             /\ kind[Parent(x)] \in Created => linked[Parent(x)]
  <2>1. linked[x] /\ parent[x] \in Objects
    BY <1>1 DEF Parent, LinksTyped
  <2>2. Referenced(parent[x])
    BY <2>1 DEF Referenced, Counted
  <2> QED
    BY <2>1, <2>2 DEF Parent, ReferencedIntact, Intact
<1>2. Parent(NoObject) = NoObject
  BY NoObjectAssumption DEF Parent
<1>3. Parent(o) # NoObject =>
        /\ Parent(o) \in Objects
        /\ native[Parent(o)]
        /\ kind[Parent(o)] \in Created => linked[Parent(o)]
  BY <1>1
<1>4. Parent(Parent(o)) # NoObject =>
        /\ Parent(Parent(o)) \in Objects
        /\ native[Parent(Parent(o))]
        /\ kind[Parent(Parent(o))] \in Created => linked[Parent(Parent(o))]
  BY <1>1, <1>2, <1>3
<1>5. Parent(Parent(Parent(o))) # NoObject =>
        native[Parent(Parent(Parent(o)))]
  BY <1>1, <1>2, <1>4
<1> QED
  BY <1>3, <1>4, <1>5 DEF Ancestors

\* A handle is all a client needs to keep the chain of native resources below
\* it alive.
THEOREM HandlesKeepChains == Spec => []HandleKeepsChainAlive
<1>1. HInv => HandleKeepsChainAlive
  <2> SUFFICES ASSUME HInv, NEW o \in Objects, handles[o] > 0
               PROVE  native[o] /\ \A a \in Ancestors(o) : native[a]
    BY DEF HandleKeepsChainAlive
  <2>1. Intact(o)
    BY DEF HInv, ReferencedIntact, Referenced, Counted
  <2> QED
    BY <2>1, ChainAlive DEF Intact
<1> QED
  BY <1>1, HandlesInvariance, PTL

\* The last handle takes everything with it.
THEOREM NothingLeaks == Spec => []NoLeak
<1>1. HInv => NoLeak
  BY NothingInDestruction DEF HInv, NoLeak, NothingForgotten
<1> QED
  BY <1>1, HandlesInvariance, PTL

\* Guest memory is freed in an instance that still exists.
THEOREM MemFreedFirst == Spec => MemFreedInLiveInstance
<1>1. ASSUME HInv, [Next]_vars
      PROVE  [ \A o \in Objects :
                 kind[o] = "mem" /\ native[o] /\ ~native'[o]
                   => \A a \in Ancestors(o) : native[a] ]_vars
  <2> SUFFICES ASSUME NEW o \in Objects, kind[o] = "mem", native[o]
               PROVE  \A a \in Ancestors(o) : native[a]
    OBVIOUS
  <2>1. linked[o]
    BY <1>1 DEF HInv, MemKeepsInstance
  <2> QED
    BY <1>1, <2>1, ChainAlive
<1> QED
  BY <1>1, HandlesInvariance, PTL DEF Spec, MemFreedInLiveInstance

\* Places, links, handles and the stack of destructors keep their type: no
\* handle is released more often than it was made.
THEOREM HandlesTyped == Spec => []TypeOK
<1>1. HInv => TypeOK
  BY DEF HInv
<1> QED
  BY <1>1, HandlesInvariance, PTL

-----------------------------------------------------------------------------
(* Destructors within destructors.                                         *)

\* How far an object is above those nothing is created from.
Level == [runtime |-> 4, module |-> 3, instance |-> 2, env |-> 1, mem |-> 1]

LevelOf(o) == Level[kind[o]]

\* A destructor that runs in another is that of the parent, whose last
\* reference the other one has just released.
Nested ==
  /\ \A i \in 1 .. Len(stack) :
       kind[stack[i]] \in Kinds /\ LevelOf(stack[i]) = LevelOf(stack[1]) - (i - 1)
  /\ \A i \in 2 .. Len(stack) :
       ~linked[stack[i]] /\ parent[stack[i]] = stack[i - 1]

\* A place that is free has no resource in it.
FreeIsEmpty == \A o \in Objects : kind[o] = "free" => ~native[o]

\* No object is in destruction twice, and no more than four are at all.
DestroyedOnce ==
  /\ Len(stack) <= 4
  /\ \A i, j \in 1 .. Len(stack) : stack[i] = stack[j] => i = j

\* A resource that is left without one it was created from is that of a module,
\* an instance or an environment, within its destructor.
OrphansInDestruction ==
  \A o \in Objects :
    native[o] /\ (\E a \in Ancestors(o) : ~native[a]) =>
      InDestruction(o) /\ ~linked[o] /\ kind[o] \in {"module", "instance", "env"}

\* The destructors that may still begin inside the innermost one.
LevelsLeft ==
  IF stack # <<>> /\ linked[Head(stack)] THEN 4 - LevelOf(Head(stack)) ELSE 0

\* What is left of the innermost destructor itself.
NativeLeft == IF stack # <<>> /\ native[Head(stack)] THEN 1 ELSE 0

\* The lexicographic order of the three, which has no infinite descent.
Destructs ==
  \/ LevelsLeft' < LevelsLeft
  \/ /\ LevelsLeft' = LevelsLeft
     /\ \/ Len(stack') < Len(stack)
        \/ Len(stack') = Len(stack) /\ NativeLeft' < NativeLeft

\* What an object is created from is one level above it.
LEMMA LevelFacts ==
  /\ \A k \in Kinds : Level[k] \in 1 .. 4
  /\ \A k \in Created : k \in Kinds /\ Level[k] <= 3
                         /\ Level[ParentKind[k]] = Level[k] + 1
<1>1. Kinds = {"runtime", "module", "instance", "env", "mem"}
      /\ Created = {"module", "instance", "env", "mem"}
  BY DEF Kinds, Created, ParentKind
<1>2. Level["runtime"] = 4 /\ Level["module"] = 3 /\ Level["instance"] = 2
      /\ Level["env"] = 1 /\ Level["mem"] = 1
  BY DEF Level
<1>3. ParentKind["module"] = "runtime" /\ ParentKind["instance"] = "module"
      /\ ParentKind["env"] = "instance" /\ ParentKind["mem"] = "instance"
  BY DEF ParentKind
<1> QED
  BY <1>1, <1>2, <1>3

\* The stack of destructors by its places.
LEMMA StackFacts ==
  ASSUME HInv, stack # <<>>
  PROVE  /\ Len(stack) \in Nat \ {0}
         /\ Head(stack) = stack[1]
         /\ \A i \in 1 .. Len(stack) : stack[i] \in Objects
BY PopStack DEF HInv, TypeOK

\* The levels of the objects in destruction tell them apart.
LEMMA NestedApart ==
  ASSUME HInv, Nested
  PROVE  DestroyedOnce
<1>1. CASE stack = <<>>
  BY <1>1 DEF DestroyedOnce
<1>2. CASE stack # <<>>
  <2>1. Len(stack) \in Nat \ {0} /\ \A i \in 1 .. Len(stack) : stack[i] \in Objects
    BY <1>2, StackFacts
  <2>2. \A i \in 1 .. Len(stack) :
          /\ LevelOf(stack[i]) \in 1 .. 4
          /\ LevelOf(stack[i]) = LevelOf(stack[1]) - (i - 1)
    BY LevelFacts DEF Nested, LevelOf
  <2> HIDE DEF LevelOf
  <2>3. 1 \in 1 .. Len(stack) /\ Len(stack) \in 1 .. Len(stack)
    BY <2>1
  <2>4. LevelOf(stack[1]) \in 1 .. 4 /\ LevelOf(stack[Len(stack)]) \in 1 .. 4
        /\ LevelOf(stack[Len(stack)]) = LevelOf(stack[1]) - (Len(stack) - 1)
    BY <2>2, <2>3
  <2>5. Len(stack) <= 4
    BY <2>1, <2>4
  <2>6. ASSUME NEW i \in 1 .. Len(stack), NEW j \in 1 .. Len(stack), stack[i] = stack[j]
        PROVE  i = j
    <3>1. LevelOf(stack[1]) - (i - 1) = LevelOf(stack[1]) - (j - 1)
      BY <2>2, <2>6
    <3> QED
      BY <2>4, <3>1
  <2> QED
    BY <2>5, <2>6 DEF DestroyedOnce
<1> QED
  BY <1>1, <1>2

\* The first destructor of a client's step is the only one.
LEMMA DropNests ==
  ASSUME HInv, NEW o \in Objects, DropHandle(o)
  PROVE  Nested'
<1>1. stack = <<>> /\ UNCHANGED <<kind, parent, linked>>
      /\ (stack' = stack \/ stack' = <<o>> \o stack)
  BY DEF DropHandle, ClientRuns, StartDestructor
<1>2. kind[o] \in Kinds
  BY DEF HInv, DropHandle, Referenced, Counted, ReferencedIntact, Intact, TypeOK
<1>3. CASE stack' = stack
  BY <1>1, <1>3 DEF Nested
<1>4. CASE stack' = <<o>> \o stack
  <2>1. Len(stack') = 1 /\ stack'[1] = o
    BY <1>1, <1>4
  <2>2. LevelOf(o)' \in 1 .. 4
    BY <1>1, <1>2, LevelFacts DEF LevelOf
  <2> QED
    BY <1>1, <1>2, <2>1, <2>2 DEF Nested
<1> QED
  BY <1>1, <1>3, <1>4

\* The destructor of a parent begins one level above.
LEMMA ReleaseNests ==
  ASSUME HInv, Nested, stack # <<>>, ReleaseParent(Head(stack))
  PROVE  /\ Nested'
         /\ LevelsLeft' < LevelsLeft
<1> DEFINE o == Head(stack)
           p == parent[o]
<1>1. /\ o \in Objects /\ o = stack[1] /\ Len(stack) \in Nat \ {0}
      /\ \A i \in 1 .. Len(stack) : stack[i] \in Objects
  BY StackFacts, PopStack DEF HInv, TypeOK
<1>2. /\ linked[o] /\ kind[o] \in Created
      /\ p \in Objects /\ kind[p] = ParentKind[kind[o]]
  BY <1>1 DEF ReleaseParent, HInv, LinksTyped
<1>3. /\ linked' \in [Objects -> BOOLEAN] /\ ~linked'[o]
      /\ \A x \in Objects : linked'[x] => linked[x]
      /\ UNCHANGED <<kind, parent>>
      /\ stack' = stack \/ stack' = <<p>> \o stack
  BY <1>1 DEF ReleaseParent, StartDestructor, HInv, TypeOK
<1>4. /\ kind[p] \in Kinds /\ LevelOf(p) \in 1 .. 4 /\ LevelOf(o) \in 1 .. 3
      /\ LevelOf(p) = LevelOf(o) + 1
  <2>1. kind[p] \in Kinds /\ kind[o] \in Kinds
    BY <1>2 DEF Created, ParentKind, Kinds
  <2>2. Level[kind[p]] \in 1 .. 4 /\ Level[kind[o]] \in 1 .. 4 /\ Level[kind[o]] <= 3
        /\ Level[kind[p]] = Level[kind[o]] + 1
    BY <1>2, <2>1, LevelFacts
  <2> QED
    BY <2>1, <2>2 DEF LevelOf
<1>5. \A x \in Objects : LevelOf(x)' = LevelOf(x)
  BY <1>3 DEF LevelOf
<1>6. LevelsLeft = 4 - LevelOf(o)
  BY <1>2 DEF LevelsLeft
<1>7. CASE stack' = stack
  <2>1. Nested'
    BY <1>1, <1>3, <1>7 DEF Nested, LevelOf
  <2>2. LevelsLeft' = 0
    BY <1>3, <1>7 DEF LevelsLeft
  <2> QED
    BY <1>4, <1>6, <2>1, <2>2
<1>8. CASE stack' = <<p>> \o stack
  <2>1. /\ stack' \in Seq(Objects) /\ Len(stack') = Len(stack) + 1
        /\ stack'[1] = p /\ \A i \in 1 .. Len(stack) : stack'[i + 1] = stack[i]
    BY <1>2, <1>8, PushStack DEF HInv, TypeOK
  <2>2. \A i \in 1 .. Len(stack') :
          i = 1 \/ (i - 1 \in 1 .. Len(stack) /\ stack'[i] = stack[i - 1])
    BY <1>1, <2>1
  <2>3. ASSUME NEW i \in 1 .. Len(stack')
        PROVE  /\ kind'[stack'[i]] \in Kinds
               /\ Level[kind'[stack'[i]]] = Level[kind'[stack'[1]]] - (i - 1)
    <3>1. CASE i = 1
      BY <1>3, <1>4, <2>1, <3>1 DEF LevelOf
    <3>2. CASE i # 1
      <4>1. i - 1 \in 1 .. Len(stack) /\ stack'[i] = stack[i - 1]
        BY <2>2, <3>2
      <4>2. kind[stack[i - 1]] \in Kinds
            /\ LevelOf(stack[i - 1]) = LevelOf(o) - ((i - 1) - 1)
        BY <1>1, <4>1 DEF Nested
      <4>3. Level[kind'[stack'[i]]] = LevelOf(stack[i - 1])
            /\ Level[kind'[stack'[1]]] = LevelOf(p)
        BY <1>3, <2>1, <4>1 DEF LevelOf
      <4> HIDE DEF LevelOf
      <4>4. LevelOf(stack[i - 1]) = LevelOf(p) - (i - 1)
        BY <1>4, <4>1, <4>2
      <4> QED
        BY <1>3, <4>1, <4>2, <4>3, <4>4
    <3> QED
      BY <3>1, <3>2
  <2>4. ASSUME NEW i \in 2 .. Len(stack')
        PROVE  ~linked'[stack'[i]] /\ parent'[stack'[i]] = stack'[i - 1]
    <3>1. CASE i = 2
      BY <1>1, <1>3, <2>1, <2>2, <3>1
    <3>2. CASE i # 2
      <4>1. i - 1 \in 2 .. Len(stack) /\ i - 2 \in 1 .. Len(stack)
        BY <1>1, <2>1, <3>2
      <4>2. stack'[i] = stack[i - 1] /\ stack'[i - 1] = stack[i - 2]
        BY <1>1, <2>1, <2>2, <4>1
      <4>3. ~linked[stack[i - 1]] /\ parent[stack[i - 1]] = stack[i - 2]
            /\ stack[i - 1] \in Objects
        BY <1>1, <4>1 DEF Nested
      <4> QED
        BY <1>3, <4>2, <4>3
    <3> QED
      BY <3>1, <3>2
  <2>5. Nested'
    BY <2>3, <2>4 DEF Nested, LevelOf
  <2>6. Head(stack') = p
    BY <2>1
  <2>7. LevelsLeft' = 0 \/ LevelsLeft' = 4 - LevelOf(p)
    BY <1>2, <1>5, <2>6 DEF LevelsLeft
  <2> QED
    BY <1>4, <1>6, <2>5, <2>7
<1> QED
  BY <1>3, <1>7, <1>8

\* Destroying the resource is a step within the innermost destructor.
LEMMA DestroyNests ==
  ASSUME HInv, Nested, stack # <<>>, DestroyNative(Head(stack))
  PROVE  Nested' /\ Destructs
<1>1. Head(stack) \in Objects
  BY HeadUnreferenced
<1>2. native[Head(stack)] /\ ~native'[Head(stack)]
      /\ UNCHANGED <<kind, parent, linked, handles, stack>>
  BY <1>1 DEF DestroyNative, HInv, TypeOK
<1>3. Nested'
  BY <1>2 DEF Nested, LevelOf
<1>4. LevelsLeft' = LevelsLeft /\ NativeLeft = 1 /\ NativeLeft' = 0
  BY <1>2 DEF LevelsLeft, LevelOf, NativeLeft
<1> QED
  BY <1>2, <1>3, <1>4 DEF Destructs

\* The end of a destructor leaves the one it ran in, which has no parent to
\* release any more.
LEMMA DeallocateNests ==
  ASSUME HInv, Nested, stack # <<>>, Deallocate(Head(stack))
  PROVE  Nested' /\ Destructs
<1> DEFINE o == Head(stack)
<1>1. /\ o \in Objects /\ o = stack[1] /\ Len(stack) \in Nat \ {0}
      /\ \A i \in 1 .. Len(stack) : stack[i] \in Objects
      /\ Len(stack') = Len(stack) - 1
      /\ \A i \in 1 .. Len(stack) - 1 : stack'[i] = stack[i + 1]
  BY StackFacts, PopStack DEF HInv, TypeOK, Deallocate
<1>2. /\ ~linked[o] /\ linked' = linked
      /\ \A x \in Objects \ {o} : kind'[x] = kind[x] /\ parent'[x] = parent[x]
  BY <1>1 DEF Deallocate, HInv, TypeOK
<1>3. \A i \in 2 .. Len(stack) : stack[i] \in Objects \ {o}
  <2>1. DestroyedOnce
    BY NestedApart
  <2> QED
    BY <1>1, <2>1 DEF DestroyedOnce
<1>4. ASSUME NEW i \in 1 .. Len(stack')
      PROVE  /\ i + 1 \in 2 .. Len(stack) /\ stack'[i] = stack[i + 1]
             /\ kind'[stack'[i]] = kind[stack[i + 1]]
             /\ parent'[stack'[i]] = parent[stack[i + 1]]
             /\ ~linked'[stack'[i]]
  <2>1. i + 1 \in 2 .. Len(stack) /\ stack'[i] = stack[i + 1]
    BY <1>1
  <2>2. stack[i + 1] \in Objects \ {o} /\ ~linked[stack[i + 1]]
    BY <1>3, <2>1 DEF Nested
  <2> QED
    BY <1>2, <2>1, <2>2
<1>5. ASSUME NEW i \in 1 .. Len(stack')
      PROVE  /\ kind'[stack'[i]] \in Kinds
             /\ Level[kind'[stack'[i]]] = Level[kind'[stack'[1]]] - (i - 1)
  <2>1. 1 \in 1 .. Len(stack') /\ i + 1 \in 1 .. Len(stack) /\ 2 \in 1 .. Len(stack)
        /\ 1 \in 1 .. Len(stack)
    BY <1>1
  <2>2. Level[kind'[stack'[i]]] = LevelOf(stack[i + 1])
        /\ Level[kind'[stack'[1]]] = LevelOf(stack[1 + 1])
    BY <1>4, <2>1 DEF LevelOf
  <2>3. /\ kind[stack[i + 1]] \in Kinds
        /\ LevelOf(stack[i + 1]) = LevelOf(stack[1]) - ((i + 1) - 1)
        /\ LevelOf(stack[2]) = LevelOf(stack[1]) - (2 - 1)
        /\ kind[stack[1]] \in Kinds
    BY <2>1 DEF Nested
  <2>4. LevelOf(stack[1]) \in 1 .. 4
    BY <2>3, LevelFacts DEF LevelOf
  <2> HIDE DEF LevelOf
  <2>5. LevelOf(stack[i + 1]) = LevelOf(stack[2]) - (i - 1)
    BY <2>1, <2>3, <2>4
  <2> QED
    BY <1>4, <2>2, <2>3, <2>5
<1>6. ASSUME NEW i \in 2 .. Len(stack')
      PROVE  ~linked'[stack'[i]] /\ parent'[stack'[i]] = stack'[i - 1]
  <2>1. i \in 1 .. Len(stack') /\ i - 1 \in 1 .. Len(stack') /\ i - 1 + 1 = i
        /\ i + 1 - 1 = i /\ i + 1 \in 2 .. Len(stack)
    BY <1>1
  <2>2. parent[stack[i + 1]] = stack[i]
    BY <2>1 DEF Nested
  <2> QED
    BY <1>1, <1>4, <2>1, <2>2
<1>7. Nested'
  BY <1>5, <1>6 DEF Nested, LevelOf
<1>8. LevelsLeft = 0
  BY <1>2 DEF LevelsLeft
<1>9. LevelsLeft' = 0
  <2>1. CASE stack' = <<>>
    BY <2>1 DEF LevelsLeft
  <2>2. CASE stack' # <<>>
    <3>1. stack' \in Seq(Objects)
      BY DeallocateKeepsInv DEF HInv, TypeOK
    <3>2. Head(stack') = stack'[1] /\ Len(stack') \in Nat \ {0}
      BY <2>2, <3>1, PopStack
    <3>3. ~linked'[Head(stack')]
      BY <1>4, <3>2
    <3> QED
      BY <3>3 DEF LevelsLeft
  <2> QED
    BY <2>1, <2>2
<1> QED
  BY <1>1, <1>7, <1>8, <1>9 DEF Destructs

\* Destructors nest after every step.
LEMMA NestedStep == HInv /\ Nested /\ [Next]_vars => Nested'
<1> SUFFICES ASSUME HInv, Nested, [Next]_vars PROVE Nested'
  OBVIOUS
<1>1. ASSUME NEW o \in Objects, DropHandle(o)
      PROVE  Nested'
  BY <1>1, DropNests
<1>2. CASE DestructorStep
  BY <1>2, ReleaseNests, DestroyNests, DeallocateNests DEF DestructorStep
<1>3. CASE stack' = <<>>
  BY <1>3 DEF Nested
<1>4. CASE UNCHANGED vars
  BY <1>4 DEF vars, Nested, LevelOf
<1> QED
  BY <1>1, <1>2, <1>3, <1>4
  DEF Next, ClientStep, CreateRuntime, Create, Allocate, CopyHandle, ClientRuns

\* A destructor runs inside another only for the parent whose last reference
\* that one gave up.
THEOREM DestructorsNest == Spec => []Nested
<1>1. Init => Nested
  BY DEF Init, Nested
<1> QED
  BY <1>1, NestedStep, HandlesInvariance, PTL DEF Spec

\* No object is destroyed while it is being destroyed, and destructors are
\* never more than four deep, however many objects there are.
THEOREM NoneDestroyedTwice == Spec => []DestroyedOnce
<1>1. HInv /\ Nested => DestroyedOnce
  BY NestedApart
<1> QED
  BY <1>1, DestructorsNest, HandlesInvariance, PTL

\* Every step of a destructor leaves less to destroy: dropping a handle comes
\* to an end.
THEOREM DestructorsProgress == Spec => [][stack # <<>> => Destructs]_vars
<1>1. HInv /\ Nested /\ [Next]_vars => [stack # <<>> => Destructs]_vars
  <2> SUFFICES ASSUME HInv, Nested, Next, stack # <<>> PROVE Destructs
    OBVIOUS
  <2>1. DestructorStep
    BY DEF Next, ClientStep, CreateRuntime, Create, Allocate, CopyHandle,
           DropHandle, ClientRuns
  <2>2. CASE ReleaseParent(Head(stack))
    BY <2>2, ReleaseNests DEF Destructs
  <2> QED
    BY <2>1, <2>2, DestroyNests, DeallocateNests DEF DestructorStep
<1> QED
  BY <1>1, DestructorsNest, HandlesInvariance, PTL DEF Spec

-----------------------------------------------------------------------------
(* Resources without a parent.                                             *)

\* A place is freed only behind its resource.
THEOREM FreePlacesEmpty == Spec => []FreeIsEmpty
<1>1. Init => FreeIsEmpty
  BY DEF Init, FreeIsEmpty
<1>2. HInv /\ FreeIsEmpty /\ [Next]_vars => FreeIsEmpty'
  <2> SUFFICES ASSUME HInv, FreeIsEmpty, [Next]_vars PROVE FreeIsEmpty'
    OBVIOUS
  <2>1. ASSUME NEW o \in Objects, NEW k \in Kinds, NEW p, Allocate(o, k, p)
        PROVE  FreeIsEmpty'
    <3>1. k # "free"
      BY DEF Kinds
    <3> QED
      BY <2>1, <3>1 DEF Allocate, FreeIsEmpty, HInv, TypeOK
  <2>2. CASE DestructorStep
    <3>1. Head(stack) \in Objects
      BY <2>2, HeadUnreferenced DEF DestructorStep
    <3> QED
      BY <2>2, <3>1 DEF DestructorStep, ReleaseParent, DestroyNative, Deallocate,
         FreeIsEmpty, HInv, TypeOK
  <2>3. CASE UNCHANGED <<kind, native>>
    BY <2>3 DEF FreeIsEmpty
  <2>4. \/ \E o \in Objects, k \in Kinds, p \in Objects \cup {NoObject} : Allocate(o, k, p)
        \/ DestructorStep
        \/ UNCHANGED <<kind, native>>
    BY DEF Next, ClientStep, CreateRuntime, Create, CopyHandle, DropHandle, vars,
           Kinds, ParentKind
  <2> QED
    BY <2>1, <2>2, <2>3, <2>4
<1> QED
  BY <1>1, <1>2, HandlesInvariance, PTL DEF Spec

\* Whatever the order in which a client drops its handles, a resource is
\* without its parent only within its own destructor, never while the client
\* runs: this is how far ParentOutlivesChild can be violated.
THEOREM OrphansAreInDestruction == Spec => []OrphansInDestruction
<1>1. HInv /\ FreeIsEmpty => OrphansInDestruction
  <2> SUFFICES ASSUME HInv, FreeIsEmpty, NEW o \in Objects, native[o],
                      \E a \in Ancestors(o) : ~native[a]
               PROVE  /\ InDestruction(o) /\ ~linked[o]
                      /\ kind[o] \in {"module", "instance", "env"}
    BY DEF OrphansInDestruction
  <2>1. ~(kind[o] \in Created => linked[o])
    BY ChainAlive
  <2>2. ~Referenced(o)
    BY <2>1 DEF HInv, ReferencedIntact, Intact
  <2>3. kind[o] # "mem"
    BY <2>1 DEF HInv, MemKeepsInstance
  <2> QED
    BY <2>1, <2>2, <2>3 DEF HInv, NothingForgotten, FreeIsEmpty, Created, ParentKind
<1> QED
  BY <1>1, FreePlacesEmpty, HandlesInvariance, PTL
=============================================================================
