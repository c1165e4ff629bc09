------------------------- MODULE RunnerScopeProofs -------------------------
(***************************************************************************)
(* Proofs about RunnerScope: a client of SharedHandles whose handles are   *)
(* one chain, for any number of places on the heap.                        *)
(***************************************************************************)
EXTENDS RunnerScope, SharedHandlesProofs, FiniteSetTheorems

-----------------------------------------------------------------------------
(* The inductive invariant.                                                *)

InScope(o) == \E i \in 1 .. Len(locals) : locals[i] = o

\* The handles in scope are the only ones to a chain in the order of
\* construction.
ScopesChain ==
  \A i \in 1 .. Len(locals) :
    /\ kind[locals[i]] = Order[i]
    /\ handles[locals[i]] = 1
    /\ i > 1 => parent[locals[i]] = locals[i - 1]

OnlyInScope == \A o \in Objects : handles[o] > 0 => InScope(o)

\* At most the object above the chain is in destruction.
OneInDestruction ==
  ~ClientRuns =>
    /\ Len(stack) = 1
    /\ Len(locals) < Len(Order)
    /\ kind[Head(stack)] = Order[Len(locals) + 1]
    /\ locals # <<>> => parent[Head(stack)] = Last(locals)

NothingElse ==
  \A o \in Objects : kind[o] # "free" => InScope(o) \/ InDestruction(o)

StageAgrees ==
  /\ stage \in {"construct", "run", "done"} => ClientRuns
  /\ stage = "construct" => Len(locals) < Len(Order)
  /\ stage = "done" => locals = <<>>

SInv ==
  /\ HInv
  /\ ScopeTypeOK
  /\ ScopesChain
  /\ OnlyInScope
  /\ OneInDestruction
  /\ NothingElse
  /\ FreeIsEmpty
  /\ StageAgrees

-----------------------------------------------------------------------------
(* Sequences and the order of construction.                                *)

LEMMA OrderFacts ==
  /\ Len(Order) = 4
  /\ Order[1] = "runtime" /\ Order[2] = "module"
  /\ Order[3] = "instance" /\ Order[4] = "env"
  /\ \A i, j \in 1 .. 4 : Order[i] = Order[j] => i = j
  /\ \A i \in 1 .. 4 : Order[i] \in Kinds /\ Order[i] # "free"
  /\ \A i \in 2 .. 4 : Order[i] \in Created /\ ParentKind[Order[i]] = Order[i - 1]
BY DEF Order, Kinds, Created, ParentKind

\* Few numbers.
LEMMA SmallNumbers ==
  ASSUME NEW n \in Nat
  PROVE  /\ n <= 4 /\ n # 0 => n \in 1 .. 4
         /\ n < 4 => n \in 0 .. 3
         /\ n < 4 /\ n # 0 => n + 1 \in 2 .. 4
OBVIOUS

LEMMA NextNumber ==
  ASSUME NEW n \in 0 .. 3
  PROVE  n + 1 \in 1 .. 4 /\ \A i \in 1 .. n : i \in 1 .. 4 /\ i # n + 1
OBVIOUS

\* What leaving the last scope does to the handles in scope.
LEMMA LastScope ==
  ASSUME NEW s \in Seq(Objects), s # <<>>
  PROVE  /\ Len(s) \in Nat \ {0}
         /\ Last(s) = s[Len(s)] /\ Last(s) \in Objects
         /\ Front(s) \in Seq(Objects)
         /\ Len(Front(s)) = Len(s) - 1
         /\ \A i \in 1 .. Len(s) - 1 : Front(s)[i] = s[i]
<1>1. Len(s) \in Nat \ {0}
  OBVIOUS
<1>2. Last(s) = s[Len(s)] /\ Last(s) \in Objects
  BY <1>1 DEF Last
<1>3. PICK n \in Nat : n = Len(s) - 1 /\ \A i \in 1 .. n : s[i] \in Objects
  BY <1>1
<1>4. /\ SubSeq(s, 1, n) \in Seq(Objects)
      /\ Len(SubSeq(s, 1, n)) = n
      /\ \A i \in 1 .. n : SubSeq(s, 1, n)[i] = s[i]
  BY <1>3
<1> QED
  BY <1>1, <1>2, <1>3, <1>4 DEF Front

\* What entering one does.
LEMMA NextScope ==
  ASSUME NEW s \in Seq(Objects), NEW o \in Objects
  PROVE  /\ Len(s) \in Nat
         /\ Append(s, o) \in Seq(Objects)
         /\ Len(Append(s, o)) = Len(s) + 1
         /\ \A i \in 1 .. Len(s) : Append(s, o)[i] = s[i]
         /\ Append(s, o)[Len(s) + 1] = o
OBVIOUS

\* The handles in scope, by their places.
LEMMA ScopeFacts ==
  ASSUME SInv, locals # <<>>
  PROVE  /\ Len(locals) \in 1 .. 4
         /\ Last(locals) = locals[Len(locals)]
         /\ \A i \in 1 .. Len(locals) :
              /\ locals[i] \in Objects
              /\ kind[locals[i]] = Order[i]
              /\ handles[locals[i]] = 1
              /\ i > 1 => parent[locals[i]] = locals[i - 1]
         /\ \A i, j \in 1 .. Len(locals) : locals[i] = locals[j] => i = j
<1>1. locals \in Seq(Objects) /\ Len(locals) <= 4
  BY OrderFacts DEF SInv, ScopeTypeOK
<1>2. Len(locals) \in 1 .. 4 /\ \A i \in 1 .. Len(locals) : locals[i] \in Objects
  <2>1. Len(locals) \in Nat \ {0}
    BY <1>1, LastScope
  <2>2. \A i \in 1 .. Len(locals) : locals[i] \in Objects
    BY <1>1
  <2>3. Len(locals) \in 1 .. 4
    BY <1>1, <2>1, SmallNumbers
  <2> QED
    BY <2>2, <2>3
<1>3. Last(locals) = locals[Len(locals)]
  BY <1>1, LastScope
<1>4. ASSUME NEW i \in 1 .. Len(locals), NEW j \in 1 .. Len(locals),
             locals[i] = locals[j]
      PROVE  i = j
  <2>1. Order[i] = Order[j]
    BY <1>4 DEF SInv, ScopesChain
  <2>2. i \in 1 .. 4 /\ j \in 1 .. 4
    BY <1>2
  <2> QED
    BY <2>1, <2>2, OrderFacts
<1> QED
  BY <1>2, <1>3, <1>4 DEF SInv, ScopesChain

\* One object of each kind exists.
LEMMA KindsDiffer ==
  ASSUME SInv, NEW o \in Objects, NEW p \in Objects,
         kind[o] # "free", kind[o] = kind[p]
  PROVE  o = p
<1>1. Len(locals) \in Nat /\ Len(locals) <= 4
  BY OrderFacts DEF SInv, ScopeTypeOK
<1>2. ASSUME NEW x \in Objects, kind[x] # "free"
      PROVE  \/ \E i \in 1 .. Len(locals) : locals[i] = x /\ kind[x] = Order[i]
             \/ x = stack[1] /\ kind[x] = Order[Len(locals) + 1] /\ Len(locals) < 4
  <2>1. CASE InScope(x)
    BY <2>1 DEF InScope, SInv, ScopesChain
  <2>2. CASE InDestruction(x)
    <3>1. ~ClientRuns
      BY <2>2, NothingInDestruction
    <3>2. Len(stack) = 1 /\ Head(stack) = stack[1] /\ x = stack[1]
      <4>1. stack \in Seq(Objects) /\ stack # <<>> /\ Len(stack) = 1
        BY <3>1 DEF SInv, HInv, TypeOK, ClientRuns, OneInDestruction
      <4> QED
        BY <2>2, <4>1 DEF InDestruction
    <3> QED
      BY <3>1, <3>2, OrderFacts DEF SInv, OneInDestruction
  <2> QED
    BY <1>2, <2>1, <2>2 DEF SInv, NothingElse
<1> QED
  BY <1>1, <1>2, OrderFacts

-----------------------------------------------------------------------------
(* The steps of the scopes.                                                *)

\* What is in destruction, and what is in scope.
LEMMA InDestructionIsHead ==
  ASSUME SInv, ~ClientRuns
  PROVE  /\ Head(stack) \in Objects
         /\ \A o \in Objects : InDestruction(o) <=> o = Head(stack)
<1>1. stack \in Seq(Objects) /\ stack # <<>> /\ Len(stack) = 1
  BY DEF SInv, HInv, TypeOK, ClientRuns, OneInDestruction
<1>2. Head(stack) = stack[1] /\ Head(stack) \in Objects
  BY <1>1, PopStack
<1> QED
  BY <1>1, <1>2 DEF InDestruction

\* A new handle continues the chain.
LEMMA AllocateKeepsScopes ==
  ASSUME SInv, HInv', NEW o \in Objects, NEW k, NEW p, Allocate(o, k, p),
         Len(locals) < 4,
         k = Order[Len(locals) + 1],
         locals # <<>> => p = Last(locals),
         locals' = Append(locals, o),
         stage' \in {"construct", "run"},
         stage' = "construct" => Len(locals) + 1 < 4,
         runner' = runner
  PROVE  SInv'
<1> USE DEF SInv
<1> DEFINE n == Len(locals)
<1>1. /\ kind'[o] = k
      /\ \A x \in Objects \ {o} : kind'[x] = kind[x]
      /\ parent'[o] = p
      /\ \A x \in Objects \ {o} : parent'[x] = parent[x]
      /\ handles'[o] = 1
      /\ \A x \in Objects \ {o} : handles'[x] = handles[x]
      /\ \A x \in Objects \ {o} : native'[x] = native[x]
      /\ kind[o] = "free" /\ stack' = stack /\ stack = <<>>
  BY DEF Allocate, HInv, TypeOK, ClientRuns
<1>2. /\ n \in Nat
      /\ locals \in Seq(Objects)
      /\ locals' \in Seq(Objects)
      /\ Len(locals') = n + 1
      /\ \A i \in 1 .. n : locals'[i] = locals[i] /\ locals[i] \in Objects
      /\ locals'[n + 1] = o
  BY NextScope DEF ScopeTypeOK
<1>3. \A i \in 1 .. n : locals[i] # o
  BY <1>1, <1>2, OrderFacts DEF ScopesChain
<1>4. ScopesChain'
  <2> SUFFICES ASSUME NEW i \in 1 .. n + 1
               PROVE  /\ kind'[locals'[i]] = Order[i]
                      /\ handles'[locals'[i]] = 1
                      /\ i > 1 => parent'[locals'[i]] = locals'[i - 1]
    BY <1>2 DEF ScopesChain
  <2>1. CASE i = n + 1
    <3>1. i > 1 => locals # <<>> /\ Last(locals) = locals[n] /\ n \in 1 .. n
      BY <1>2, <2>1, LastScope
    <3> QED
      BY <1>1, <1>2, <2>1, <3>1
  <2>2. CASE i \in 1 .. n
    <3>1. i > 1 => i - 1 \in 1 .. n
      BY <1>2, <2>2
    <3> QED
      BY <1>1, <1>2, <1>3, <2>2, <3>1 DEF ScopesChain
  <2> QED
    BY <1>2, <2>1, <2>2
<1>5. \A x \in Objects : InScope(x) \/ x = o => InScope(x)'
  <2>1. \A i \in 1 .. n : i \in 1 .. Len(locals') /\ locals'[i] = locals[i]
    BY <1>2
  <2>2. n + 1 \in 1 .. Len(locals') /\ locals'[n + 1] = o
    BY <1>2
  <2> QED
    BY <2>1, <2>2 DEF InScope
<1>6. OnlyInScope'
  BY <1>1, <1>5 DEF OnlyInScope
<1>7. NothingElse'
  <2>1. \A x \in Objects : ~InDestruction(x)
    BY <1>1, NothingInDestruction DEF ClientRuns
  <2> QED
    BY <1>1, <1>5, <2>1 DEF NothingElse
<1>8. FreeIsEmpty'
  <2>1. k # "free"
    BY <1>2, OrderFacts
  <2> QED
    BY <1>1, <2>1 DEF FreeIsEmpty
<1>9. OneInDestruction' /\ StageAgrees'
  BY <1>1, <1>2, OrderFacts DEF OneInDestruction, StageAgrees, ClientRuns
<1>10. ScopeTypeOK'
  BY <1>2, OrderFacts DEF ScopeTypeOK, HInv
<1> QED
  BY <1>4, <1>6, <1>7, <1>8, <1>9, <1>10

\* The last handle is the only reference to its object.
LEMMA LastUnreferenced ==
  ASSUME SInv, ClientRuns, locals # <<>>, NEW c \in Objects, linked[c]
  PROVE  parent[c] # Last(locals)
<1> DEFINE n == Len(locals)
<1>1. n \in 1 .. 4 /\ Last(locals) = locals[n]
  BY ScopeFacts
<1>2. kind[c] \in Created /\ kind[c] # "runtime" /\ kind[c] # "free"
  BY DEF SInv, HInv, LinksTyped, Created, ParentKind
<1>3. PICK i \in 1 .. n : locals[i] = c
  BY <1>2, NothingInDestruction DEF SInv, NothingElse, InScope
<1>4. i > 1
  BY <1>1, <1>2, <1>3, OrderFacts DEF SInv, ScopesChain
<1>5. parent[c] = locals[i - 1] /\ kind[locals[i - 1]] = Order[i - 1]
  BY <1>1, <1>3, <1>4 DEF SInv, ScopesChain
<1>6. kind[Last(locals)] = Order[n]
  BY <1>1 DEF SInv, ScopesChain
<1> QED
  BY <1>1, <1>4, <1>5, <1>6, OrderFacts

\* Leaving a scope starts the destructor of what its handle was to.
LEMMA LeaveKeepsScopes ==
  ASSUME SInv, HInv', LeaveScope
  PROVE  SInv'
<1> USE DEF SInv
<1> DEFINE n == Len(locals)
<1>0. PICK o \in Objects : o = Last(locals)
  BY LastScope DEF LeaveScope, ScopeTypeOK
<1>1. /\ locals # <<>> /\ locals \in Seq(Objects)
      /\ locals' = Front(locals)
      /\ DropHandle(o) /\ ClientRuns
      /\ stage \in {"leave", "unwind"}
      /\ UNCHANGED <<stage, runner>>
  BY <1>0 DEF LeaveScope, ScopeTypeOK, DropHandle
<1>2. /\ n \in 1 .. 4
      /\ o = locals[n]
      /\ locals' \in Seq(Objects)
      /\ Len(locals') = n - 1
      /\ \A i \in 1 .. n - 1 : locals'[i] = locals[i]
      /\ \A i \in 1 .. n : locals[i] \in Objects
  <2>1. /\ n \in 1 .. 4
        /\ o = locals[n]
        /\ \A i \in 1 .. n : locals[i] \in Objects
    BY <1>0, <1>1, ScopeFacts
  <2>2. /\ Front(locals) \in Seq(Objects)
        /\ Len(Front(locals)) = n - 1
        /\ \A i \in 1 .. n - 1 : Front(locals)[i] = locals[i]
    BY <1>1, LastScope
  <2> QED
    BY <1>1, <2>1, <2>2
<1>3. /\ handles'[o] = 0
      /\ \A x \in Objects \ {o} : handles'[x] = handles[x]
      /\ UNCHANGED <<kind, parent, linked, native>>
      /\ StartDestructor(o)
  BY <1>1, <1>2, MaxHandlesAssumption DEF DropHandle, HInv, TypeOK, ScopesChain
<1>4. ~Counted(o, handles', linked')
  BY <1>0, <1>1, <1>3, LastUnreferenced DEF Counted
<1>5. Len(stack') = 1 /\ stack'[1] = o /\ Head(stack') = o
  <2>1. stack' = <<o>> \o <<>>
    BY <1>1, <1>3, <1>4 DEF StartDestructor, ClientRuns
  <2> QED
    BY <1>2, <2>1
<1>6. \A i \in 1 .. n - 1 : locals[i] # o
  <2>1. \A i \in 1 .. n - 1 : i \in 1 .. n /\ n \in 1 .. n /\ i # n
    BY <1>2
  <2> QED
    BY <1>1, <1>2, <2>1, ScopeFacts
<1>7. ScopesChain'
  <2> SUFFICES ASSUME NEW i \in 1 .. n - 1
               PROVE  /\ kind'[locals'[i]] = Order[i]
                      /\ handles'[locals'[i]] = 1
                      /\ i > 1 => parent'[locals'[i]] = locals'[i - 1]
    BY <1>2 DEF ScopesChain
  <2>1. i \in 1 .. n /\ (i > 1 => i - 1 \in 1 .. n - 1)
    BY <1>2
  <2> QED
    BY <1>2, <1>3, <1>6, <2>1 DEF ScopesChain
<1>8. ASSUME NEW x \in Objects \ {o}, InScope(x)
      PROVE  InScope(x)'
  <2>1. PICK i \in 1 .. n : locals[i] = x
    BY <1>8 DEF InScope
  <2>2. i \in 1 .. Len(locals') /\ locals'[i] = x
    BY <1>2, <1>8, <2>1
  <2> QED
    BY <2>2 DEF InScope
<1>9. InDestruction(o)'
  BY <1>5 DEF InDestruction
<1>10. OnlyInScope'
  BY <1>3, <1>8 DEF OnlyInScope
<1>11. NothingElse'
  <2>1. \A x \in Objects : ~InDestruction(x)
    BY <1>1, NothingInDestruction
  <2> QED
    BY <1>3, <1>8, <1>9, <2>1 DEF NothingElse
<1>12. OneInDestruction'
  <2>2. kind'[o] = Order[Len(locals') + 1] /\ Len(locals') < 4
    BY <1>2, <1>3 DEF ScopesChain
  <2>3. ASSUME locals' # <<>>
        PROVE  parent'[o] = Last(locals')
    <3>1. Last(locals') = locals'[n - 1] /\ n > 1
      BY <1>2, <2>3, LastScope
    <3> QED
      BY <1>2, <1>3, <3>1 DEF ScopesChain
  <2> QED
    BY <1>5, <2>2, <2>3, OrderFacts DEF OneInDestruction
<1>13. ScopeTypeOK' /\ FreeIsEmpty' /\ StageAgrees'
  BY <1>1, <1>2, <1>3, OrderFacts DEF ScopeTypeOK, HInv, FreeIsEmpty, StageAgrees
<1> QED
  BY <1>7, <1>10, <1>11, <1>12, <1>13

-----------------------------------------------------------------------------
(* The steps of the destructors.                                           *)

\* What is in destruction lies above the chain.
LEMMA HeadAboveChain ==
  ASSUME SInv, ~ClientRuns
  PROVE  /\ Head(stack) \in Objects /\ ~Referenced(Head(stack))
         /\ Len(stack) = 1 /\ stack \in Seq(Objects)
         /\ Len(locals) \in 0 .. 3
         /\ kind[Head(stack)] = Order[Len(locals) + 1]
         /\ IF locals = <<>>
            THEN parent[Head(stack)] = NoObject /\ ~linked[Head(stack)]
            ELSE /\ parent[Head(stack)] = Last(locals)
                 /\ Last(locals) \in Objects /\ handles[Last(locals)] = 1
         /\ ~InScope(Head(stack))
<1> USE DEF SInv
<1>1. stack # <<>> /\ stack \in Seq(Objects) /\ Len(stack) = 1
  BY DEF ClientRuns, HInv, TypeOK, OneInDestruction
<1>2. Head(stack) \in Objects /\ ~Referenced(Head(stack))
  BY <1>1, HeadUnreferenced
<1>3. Len(locals) \in 0 .. 3
  <2>1. Len(locals) \in Nat /\ Len(locals) < 4
    BY OrderFacts DEF ScopeTypeOK, OneInDestruction
  <2> QED
    BY <2>1, SmallNumbers
<1>4. kind[Head(stack)] = Order[Len(locals) + 1]
  BY DEF OneInDestruction
<1>5. CASE locals = <<>>
  <2>1. kind[Head(stack)] \notin Created
    BY <1>4, <1>5, OrderFacts DEF Created, ParentKind
  <2>2. ~InScope(Head(stack))
    BY <1>5 DEF InScope
  <2> QED
    BY <1>1, <1>2, <1>3, <1>4, <1>5, <2>1, <2>2 DEF HInv, LinksTyped
<1>6. CASE locals # <<>>
  <2>1. Last(locals) \in Objects /\ handles[Last(locals)] = 1
    <3>1. Len(locals) \in 1 .. Len(locals)
      BY <1>6, ScopeFacts
    <3> QED
      BY <1>6, <3>1, ScopeFacts
  <2>2. parent[Head(stack)] = Last(locals)
    BY <1>6 DEF OneInDestruction
  <2>3. ~InScope(Head(stack))
    BY <1>2, <1>6, ScopeFacts DEF InScope, Referenced, Counted
  <2> QED
    BY <1>1, <1>2, <1>3, <1>4, <1>6, <2>1, <2>2, <2>3
<1> QED
  BY <1>5, <1>6

\* Releasing the parent leaves it to its handle.
LEMMA ReleaseKeepsScopes ==
  ASSUME SInv, HInv', ~ClientRuns, ReleaseParent(Head(stack)), UNCHANGED scopeVars
  PROVE  SInv' /\ UNCHANGED <<kind, parent, native>>
<1> USE DEF SInv
<1>1. parent[Head(stack)] \in Objects /\ handles[parent[Head(stack)]] = 1
  BY HeadAboveChain DEF ReleaseParent
<1>2. /\ UNCHANGED <<kind, parent, handles, native>>
      /\ StartDestructor(parent[Head(stack)])
  BY DEF ReleaseParent
<1>3. stack' = stack
  BY <1>1, <1>2 DEF StartDestructor, Counted
<1> QED
  BY <1>2, <1>3
  DEF scopeVars, ScopeTypeOK, HInv, ScopesChain, OnlyInScope, OneInDestruction,
      NothingElse, FreeIsEmpty, StageAgrees, InScope, InDestruction, ClientRuns

\* Destroying the native resource changes nothing in scope.
LEMMA DestroyKeepsScopes ==
  ASSUME SInv, HInv', ~ClientRuns, DestroyNative(Head(stack)), UNCHANGED scopeVars
  PROVE  SInv'
<1> USE DEF SInv
<1>1. /\ \A o \in Objects : native'[o] => native[o]
      /\ UNCHANGED <<kind, parent, handles, stack>>
  BY HeadAboveChain DEF DestroyNative, HInv, TypeOK
<1> QED
  BY <1>1
  DEF scopeVars, ScopeTypeOK, HInv, ScopesChain, OnlyInScope, OneInDestruction,
      NothingElse, FreeIsEmpty, StageAgrees, InScope, InDestruction, ClientRuns

\* The end of the destructor leaves the chain, and nothing else.
LEMMA DeallocateKeepsScopes ==
  ASSUME SInv, HInv', ~ClientRuns, Deallocate(Head(stack)), UNCHANGED scopeVars
  PROVE  SInv'
<1> USE DEF SInv
<1>0. PICK h \in Objects : h = Head(stack)
  BY HeadAboveChain
<1>1. /\ kind'[h] = "free"
      /\ \A x \in Objects \ {h} : kind'[x] = kind[x] /\ parent'[x] = parent[x]
      /\ ~native[h]
      /\ UNCHANGED <<handles, native, locals, stage, runner>>
      /\ stack' = Tail(stack)
  BY <1>0 DEF Deallocate, HInv, TypeOK, scopeVars
<1>2. stack' = <<>>
  BY <1>1, HeadAboveChain
<1>3. \A x \in Objects : InScope(x) => x # h
  BY <1>0, HeadAboveChain
<1>4. \A x \in Objects : InScope(x)' <=> InScope(x)
  BY <1>1 DEF InScope
<1>5. ScopesChain'
  <2>1. \A i \in 1 .. Len(locals) : locals[i] \in Objects /\ locals[i] # h
    BY <1>3 DEF InScope, ScopeTypeOK
  <2> QED
    BY <1>1, <2>1 DEF ScopesChain
<1>6. NothingElse'
  BY <1>0, <1>1, <1>4, InDestructionIsHead DEF NothingElse
<1> QED
  BY <1>1, <1>2, <1>4, <1>5, <1>6
  DEF ScopeTypeOK, HInv, OnlyInScope, OneInDestruction, FreeIsEmpty,
      StageAgrees, ClientRuns

-----------------------------------------------------------------------------
(* The invariant, and the client of SharedHandles.                         *)

\* What a construction is made on.
LEMMA ConstructAllocates ==
  ASSUME SInv, NEW o \in Objects, Construct(o)
  PROVE  /\ Len(locals) \in 0 .. 3 /\ ClientRuns
         /\ IF locals = <<>>
            THEN CreateRuntime(o) /\ Allocate(o, Order[Len(locals) + 1], NoObject)
            ELSE /\ Last(locals) \in Objects /\ handles[Last(locals)] = 1
                 /\ kind[Last(locals)] = ParentKind[Order[Len(locals) + 1]]
                 /\ Order[Len(locals) + 1] \in DOMAIN ParentKind
                 /\ Create(o, Order[Len(locals) + 1], Last(locals))
                 /\ Allocate(o, Order[Len(locals) + 1], Last(locals))
<1> DEFINE n == Len(locals)
<1>1. n \in Nat /\ n < 4 /\ n \in 0 .. 3 /\ ClientRuns /\ locals \in Seq(Objects)
  <2>1. n \in Nat /\ n < 4
    BY OrderFacts DEF SInv, ScopeTypeOK, StageAgrees, Construct
  <2> QED
    BY <2>1, SmallNumbers DEF SInv, ScopeTypeOK, StageAgrees, Construct
<1>2. CASE locals = <<>>
  BY <1>1, <1>2, OrderFacts DEF Construct, CreateRuntime
<1>3. CASE locals # <<>>
  <2>1. n # 0
    BY <1>1, <1>3
  <2>2. Last(locals) \in Objects /\ handles[Last(locals)] = 1
    BY <1>3, LastScope, ScopeFacts DEF SInv, ScopeTypeOK
  <2>3. Order[n + 1] \in DOMAIN ParentKind
    <3>1. n + 1 \in 2 .. 4
      BY <1>1, <2>1, SmallNumbers
    <3> QED
      BY <3>1, OrderFacts DEF Created
  <2> QED
    BY <1>1, <1>3, <2>1, <2>2, <2>3 DEF Construct, Create
<1> QED
  BY <1>2, <1>3

\* Initially there is nothing in scope.
LEMMA ScopeStart == ScopeInit => SInv
<1> SUFFICES ASSUME ScopeInit PROVE SInv
  OBVIOUS
<1>1. HInv
  BY HandlesInit DEF ScopeInit
<1>2. locals = <<>> /\ Len(locals) = 0 /\ stack = <<>>
  BY DEF ScopeInit, Init
<1> QED
  BY <1>1, <1>2, OrderFacts
  DEF ScopeInit, Init, SInv, HInv, ScopeTypeOK, ScopesChain, OnlyInScope,
      OneInDestruction, NothingElse, FreeIsEmpty, StageAgrees, ClientRuns, Runners

\* Every step of the scopes is one a client of SharedHandles may take.
LEMMA ScopeStepIsClientStep ==
  ASSUME SInv, [ScopeNext]_allVars
  PROVE  [Next]_vars
<1>1. ASSUME NEW o \in Objects, Construct(o)
      PROVE  Next
  BY <1>1, ConstructAllocates DEF Next, ClientStep
<1>2. CASE LeaveScope
  <2>1. Last(locals) \in Objects
    BY <1>2, LastScope DEF LeaveScope, SInv, ScopeTypeOK
  <2> QED
    BY <1>2, <2>1 DEF LeaveScope, Next, ClientStep
<1>3. CASE Throws \/ RunFinishes \/ NextBlock \/ Return \/ UNCHANGED allVars
  BY <1>3 DEF Throws, RunFinishes, NextBlock, Return, allVars
<1>4. CASE Destructor
  BY <1>4 DEF Destructor, Next
<1> QED
  BY <1>1, <1>2, <1>3, <1>4 DEF ScopeNext, Leave

\* The invariant is inductive.
LEMMA ScopeStep ==
  ASSUME SInv, [ScopeNext]_allVars
  PROVE  SInv'
<1>0. HInv'
  BY ScopeStepIsClientStep, HandlesStep DEF SInv
<1>1. ASSUME NEW o \in Objects, Construct(o)
      PROVE  SInv'
  <2>1. /\ Len(locals) \in 0 .. 3
        /\ locals' = Append(locals, o) /\ runner' = runner
        /\ stage' = IF Len(locals) + 1 = 4 THEN "run" ELSE "construct"
    BY <1>1, ConstructAllocates, OrderFacts DEF Construct
  <2>2. /\ Len(locals) < 4
        /\ stage' \in {"construct", "run"}
        /\ stage' = "construct" => Len(locals) + 1 < 4
    BY <2>1
  <2>3. CASE locals = <<>>
    BY <1>0, <1>1, <2>1, <2>2, <2>3, ConstructAllocates, AllocateKeepsScopes
  <2>4. CASE locals # <<>>
    BY <1>0, <1>1, <2>1, <2>2, <2>4, ConstructAllocates, AllocateKeepsScopes
  <2> QED
    BY <2>3, <2>4
<1>2. CASE LeaveScope
  BY <1>0, <1>2, LeaveKeepsScopes
<1>3. CASE Throws \/ RunFinishes \/ NextBlock \/ Return \/ UNCHANGED allVars
  <2>1. UNCHANGED <<vars, locals>>
    BY <1>3 DEF Throws, RunFinishes, NextBlock, Return, allVars, scopeVars
  <2>2. runner' \in Runners
    BY <1>3 DEF Throws, RunFinishes, NextBlock, BetweenRunners, Return, allVars,
                scopeVars, SInv, ScopeTypeOK, Runners
  <2>3. /\ stage' \in {"construct", "run", "leave", "unwind", "done"}
        /\ StageAgrees'
    <3>1. CASE NextBlock
      <4>1. ClientRuns' /\ Len(locals') = 1 /\ stage' = "construct"
        BY <3>1, <2>1 DEF NextBlock, BetweenRunners, vars, ClientRuns
      <4> QED
        BY <4>1, OrderFacts DEF StageAgrees
    <3>2. CASE Throws \/ RunFinishes \/ Return \/ UNCHANGED allVars
      BY <3>2, <2>1
      DEF Throws, RunFinishes, Return, allVars, vars, scopeVars, SInv,
          ScopeTypeOK, StageAgrees, ClientRuns
    <3> QED
      BY <1>3, <3>1, <3>2
  <2> QED
    BY <1>0, <2>1, <2>2, <2>3
    DEF vars, SInv, HInv, ScopeTypeOK, ScopesChain, OnlyInScope,
        OneInDestruction, NothingElse, FreeIsEmpty, InScope, InDestruction,
        ClientRuns
<1>4. CASE Destructor
  BY <1>0, <1>4, ReleaseKeepsScopes, DestroyKeepsScopes, DeallocateKeepsScopes
  DEF Destructor, DestructorStep, ClientRuns
<1> QED
  BY <1>1, <1>2, <1>3, <1>4 DEF ScopeNext, Leave

\* The inductive invariant holds in every reachable state.
THEOREM ScopeInvariance == ScopeSpec => []SInv
<1>1. SInv /\ [ScopeNext]_allVars => SInv'
  BY ScopeStep
<1> QED
  BY <1>1, ScopeStart, PTL DEF ScopeSpec

\* DecentWasmMain is a client of the shared handles: what is proved of every
\* client holds for it.
THEOREM ScopesUseHandles == ScopeSpec => Spec
<1>1. ScopeInit => Init
  BY DEF ScopeInit
<1>2. SInv /\ [ScopeNext]_allVars => [Next]_vars
  BY ScopeStepIsClientStep
<1> QED
  BY <1>1, <1>2, ScopeInvariance, PTL DEF ScopeSpec, Spec

-----------------------------------------------------------------------------
(* What the invariant says.                                                *)

\* Scopes, stages and everything they are made of keep their type.
THEOREM ScopesTyped == ScopeSpec => []ScopeTypeOK
<1>1. SInv => ScopeTypeOK
  BY DEF SInv
<1> QED
  BY <1>1, ScopeInvariance, PTL

\* The pool never holds two instances.
THEOREM OneInstance == ScopeSpec => []OneInstanceAtATime
<1>1. ASSUME SInv
      PROVE  OneInstanceAtATime
  <2> DEFINE S == {o \in Objects : kind[o] = "instance" /\ native[o]}
  <2>1. CASE S = {}
    BY <2>1, FS_EmptySet DEF OneInstanceAtATime
  <2>2. CASE S # {}
    <3>1. PICK x \in Objects : kind[x] = "instance" /\ native[x]
      BY <2>2
    <3>2. S = {x}
      BY <1>1, <3>1, KindsDiffer
    <3>3. Cardinality({x}) = 1
      BY FS_Singleton
    <3> QED
      BY <3>2, <3>3 DEF OneInstanceAtATime
  <2> QED
    BY <2>1, <2>2
<1> QED
  BY <1>1, ScopeInvariance, PTL

\* However DecentWasmMain is left, every native resource is destroyed.
THEOREM NothingIsLeft == ScopeSpec => []NothingLeftAtReturn
<1>1. ASSUME SInv, stage = "done"
      PROVE  \A o \in Objects : ~native[o]
  <2>0. ClientRuns /\ locals = <<>>
    BY <1>1 DEF SInv, StageAgrees
  <2>1. \A o \in Objects : ~InScope(o)
    BY <2>0 DEF InScope
  <2>2. \A o \in Objects : ~InDestruction(o)
    BY <2>0, NothingInDestruction
  <2> QED
    BY <1>1, <2>1, <2>2 DEF SInv, NothingElse, FreeIsEmpty
<1> QED
  BY <1>1, ScopeInvariance, PTL DEF NothingLeftAtReturn

\* Only the destructor's own resource goes.
LEMMA DestroyedIsHead ==
  ASSUME SInv, [ScopeNext]_allVars, NEW o \in Objects, native[o], ~native'[o]
  PROVE  ~ClientRuns /\ o = Head(stack) /\ DestroyNative(o)
<1>1. SInv => TypeOK
  BY DEF SInv, HInv
<1>2. ASSUME NEW x \in Objects, Construct(x)
      PROVE  native'[o]
  BY <1>1, <1>2, ConstructAllocates DEF Allocate, TypeOK
<1>3. CASE LeaveScope \/ Throws \/ RunFinishes \/ NextBlock \/ Return
             \/ UNCHANGED allVars
  BY <1>3
  DEF LeaveScope, DropHandle, Throws, RunFinishes, NextBlock, Return, allVars, vars
<1>4. CASE Destructor
  BY <1>1, <1>4 DEF Destructor, DestructorStep, ReleaseParent, DestroyNative,
                    Deallocate, ClientRuns, TypeOK
<1> QED
  BY <1>2, <1>3, <1>4 DEF ScopeNext, Leave

\* In these scopes no native resource outlives the one it was created from.
THEOREM ScopesKeepOrder == ScopeSpec => ScopesOrderDestruction
<1>1. ASSUME SInv, [ScopeNext]_allVars
      PROVE  [ParentOutlivesChildStep]_allVars
  <2> SUFFICES ASSUME NEW o \in Objects, native[o], ~native'[o]
               PROVE  \A a \in Ancestors(o) : native[a]
    BY DEF ParentOutlivesChildStep
  <2>1. ~ClientRuns /\ o = Head(stack)
    BY <1>1, DestroyedIsHead
  <2>2. CASE locals = <<>>
    BY <1>1, <2>1, <2>2, HeadAboveChain, NoObjectAssumption DEF Ancestors, Parent
  <2>3. CASE locals # <<>>
    <3> DEFINE p == Last(locals)
    <3>1. p \in Objects /\ handles[p] = 1 /\ parent[o] = p
      BY <1>1, <2>1, <2>3, HeadAboveChain
    <3>2. Intact(p)
      BY <1>1, <3>1 DEF SInv, HInv, ReferencedIntact, Referenced, Counted
    <3>3. native[p] /\ \A a \in Ancestors(p) : native[a]
      BY <1>1, <3>1, <3>2, ChainAlive DEF SInv, Intact
    <3> HIDE DEF p
    <3> QED
      BY <3>1, <3>3 DEF Ancestors, Parent
  <2> QED
    BY <2>2, <2>3
<1> QED
  BY <1>1, ScopeInvariance, PTL DEF ScopeSpec, ScopesOrderDestruction

-----------------------------------------------------------------------------
(* The end of DecentWasmMain.                                              *)

StageRank == [construct |-> 4, run |-> 3, leave |-> 2, unwind |-> 1, done |-> 0]

\* The stages that are still to come: those of the second runner after those of
\* the first, and after an exception only the way out.
StagesLeft ==
  IF stage \in {"construct", "run", "leave"}
  THEN StageRank[stage] + 3 * (2 - runner) ELSE StageRank[stage]

\* The handles that are still to come into scope, or to leave it.
ScopesLeft == IF stage = "construct" THEN Len(Order) - Len(locals) ELSE Len(locals)

\* A step of the scopes leaves fewer stages, or fewer scopes of this stage, or
\* less of the destructors that the scope before has begun.
ScopesShrink ==
  \/ StagesLeft' < StagesLeft
  \/ /\ StagesLeft' = StagesLeft
     /\ \/ ScopesLeft' < ScopesLeft
        \/ ScopesLeft' = ScopesLeft /\ Destructs

\* What is left of the scopes is counted by natural numbers.
LEMMA ScopesLeftTyped ==
  SInv => StagesLeft \in 0 .. 7 /\ ScopesLeft \in 0 .. 4
<1> SUFFICES ASSUME SInv PROVE StagesLeft \in 0 .. 7 /\ ScopesLeft \in 0 .. 4
  OBVIOUS
<1>1. /\ stage \in {"construct", "run", "leave", "unwind", "done"}
      /\ runner \in 1 .. 2
      /\ Len(locals) \in Nat /\ Len(locals) <= 4
  BY OrderFacts DEF SInv, ScopeTypeOK, Runners
<1>2. StagesLeft \in 0 .. 7
  BY <1>1 DEF StagesLeft, StageRank
<1>3. ScopesLeft \in 0 .. 4
  <2>1. PICK n \in Nat : n = Len(locals) /\ n <= 4
    BY <1>1
  <2>2. 4 - n \in 0 .. 4 /\ n \in 0 .. 4
    BY <2>1
  <2> QED
    BY <2>1, <2>2, OrderFacts DEF ScopesLeft
<1> QED
  BY <1>2, <1>3

\* DecentWasmMain and the destructors it runs come to an end whatever throws in
\* it: every step leaves less to do, so a thread that keeps running returns.
THEOREM ScopesProgress == ScopeSpec => [][ScopesShrink]_allVars
<1>1. SInv /\ SInv' /\ Nested /\ [ScopeNext]_allVars => [ScopesShrink]_allVars
  <2> SUFFICES ASSUME SInv, SInv', Nested, ScopeNext PROVE ScopesShrink
    OBVIOUS
  <2>1. /\ stage \in {"construct", "run", "leave", "unwind", "done"}
        /\ runner \in 1 .. 2
        /\ locals \in Seq(Objects) /\ Len(locals) \in Nat
    BY OrderFacts DEF SInv, ScopeTypeOK, Runners
  <2>2. ASSUME NEW o \in Objects, Construct(o)
        PROVE  ScopesShrink
    <3>1. Len(locals') = Len(locals) + 1
      BY <2>1, <2>2, NextScope DEF Construct
    <3>2. stage = "construct" /\ stage' \in {"construct", "run"} /\ runner' = runner
      BY <2>2 DEF Construct
    <3>3. CASE stage' = "run"
      BY <2>1, <3>2, <3>3 DEF ScopesShrink, StagesLeft, StageRank
    <3>4. CASE stage' = "construct"
      BY <2>1, <3>1, <3>2, <3>4, OrderFacts
      DEF ScopesShrink, StagesLeft, ScopesLeft
    <3> QED
      BY <3>2, <3>3, <3>4
  <2>3. CASE LeaveScope
    <3>1. locals # <<>> /\ locals' = Front(locals) /\ UNCHANGED <<stage, runner>>
          /\ stage \in {"leave", "unwind"}
      BY <2>3 DEF LeaveScope
    <3>2. Len(locals') = Len(locals) - 1
      BY <2>1, <3>1, LastScope
    <3> QED
      BY <2>1, <3>1, <3>2 DEF ScopesShrink, StagesLeft, ScopesLeft
  <2>4. CASE Throws \/ RunFinishes \/ Return
    BY <2>1, <2>4
    DEF Throws, RunFinishes, Return, ScopesShrink, StagesLeft, StageRank
  <2>5. CASE NextBlock
    BY <2>1, <2>5 DEF NextBlock, BetweenRunners, ScopesShrink, StagesLeft, StageRank
  <2>6. CASE Destructor
    <3>1. StagesLeft' = StagesLeft /\ ScopesLeft' = ScopesLeft
      BY <2>6 DEF Destructor, scopeVars, StagesLeft, ScopesLeft
    <3>2. Destructs
      BY <2>6, ReleaseNests, DestroyNests, DeallocateNests
      DEF SInv, Destructor, DestructorStep, Destructs
    <3> QED
      BY <3>1, <3>2 DEF ScopesShrink
  <2> QED
    BY <2>2, <2>3, <2>4, <2>5, <2>6 DEF ScopeNext, Leave
<1> QED
  BY <1>1, ScopeInvariance, ScopesUseHandles, DestructorsNest, PTL DEF ScopeSpec

-----------------------------------------------------------------------------
(* The refinement of ResourceTree.                                         *)

Resource(o) == [place |-> o, kind |-> kind[o], on |-> parent[o]]

LEMMA OpenIsNative ==
  /\ \A o \in Objects : native[o] => Resource(o) \in OpenResources
  /\ \A q \in OpenResources :
       \E o \in Objects : native[o] /\ q = Resource(o) /\ q.place = o
                         /\ q.kind = kind[o] /\ q.on = parent[o]
BY DEF OpenResources, Resource

\* Kinds and what they are created on agree with ResourceTree.
LEMMA TreeKinds ==
  /\ \A i \in 1 .. 4 : Order[i] \in {"runtime"} \cup DOMAIN Tree!Below
  /\ \A k \in DOMAIN ParentKind :
       k # "mem" => k \in DOMAIN Tree!Below /\ Tree!Below[k] = ParentKind[k]
  /\ \A i \in 1 .. 4 : Order[i] # "mem"
BY DEF Order, ParentKind, Tree!Below

\* A construction acquires a resource.
LEMMA ConstructAcquires ==
  ASSUME SInv, NEW o \in Objects, Construct(o)
  PROVE  Tree!Next
<1> DEFINE n == Len(locals)
<1>1. PICK p \in Objects \cup {NoObject} :
        /\ Allocate(o, Order[n + 1], p)
        /\ n \in 0 .. 3 /\ ClientRuns
        /\ \/ locals = <<>> /\ p = NoObject
           \/ /\ p = Last(locals) /\ p \in Objects /\ handles[p] = 1
              /\ kind[p] = ParentKind[Order[n + 1]]
              /\ Order[n + 1] \in DOMAIN ParentKind
  BY ConstructAllocates
<1> DEFINE r == [place |-> o, kind |-> Order[n + 1], on |-> p]
<1>2. n + 1 \in 1 .. 4 /\ \A i \in 1 .. n : i \in 1 .. 4 /\ i # n + 1
  BY <1>1, NextNumber
<1>3. /\ kind' = [kind EXCEPT ![o] = Order[n + 1]]
      /\ parent' = [parent EXCEPT ![o] = p]
      /\ native' = [native EXCEPT ![o] = TRUE]
      /\ kind[o] = "free" /\ ~native[o]
  BY <1>1 DEF Allocate, SInv, FreeIsEmpty
<1>4. OpenResources' = OpenResources \cup {r}
  <2>1. TypeOK
    BY DEF SInv, HInv
  <2>2. /\ native'[o] /\ Resource(o)' = r
        /\ \A x \in Objects \ {o} : native'[x] = native[x] /\ Resource(x)' = Resource(x)
    BY <1>3, <2>1 DEF TypeOK, Resource
  <2>3. OpenResources = {Resource(x) : x \in {y \in Objects : native[y]}}
    BY DEF OpenResources, Resource
  <2>4. OpenResources' = {Resource(x)' : x \in {y \in Objects : native'[y]}}
    BY DEF OpenResources, Resource
  <2> QED
    BY <1>3, <2>2, <2>3, <2>4
<1>5. Tree!Grounded(r)
  <2>1. CASE locals = <<>> /\ p = NoObject
    BY <2>1, OrderFacts DEF Tree!Grounded
  <2>2. CASE /\ p \in Objects /\ handles[p] = 1
             /\ kind[p] = ParentKind[Order[n + 1]]
             /\ Order[n + 1] \in DOMAIN ParentKind
    <3>1. native[p]
      BY <2>2 DEF SInv, HInv, ReferencedIntact, Referenced, Counted, Intact
    <3>2. Resource(p) \in OpenResources /\ Resource(p).place = p
          /\ Resource(p).kind = kind[p]
      BY <2>2, <3>1, OpenIsNative DEF Resource
    <3>3. Order[n + 1] \in DOMAIN Tree!Below
          /\ Tree!Below[Order[n + 1]] = ParentKind[Order[n + 1]]
      BY <1>2, <2>2, TreeKinds
    <3> QED
      BY <2>2, <3>2, <3>3 DEF Tree!Grounded
  <2> QED
    BY <1>1, <2>1, <2>2
<1>6. ASSUME NEW q \in OpenResources
      PROVE  q.place # r.place /\ q.kind # r.kind
  <2>1. PICK x \in Objects : native[x] /\ q.place = x /\ q.kind = kind[x]
    BY OpenIsNative
  <2>2. x # o /\ kind[x] # "free"
    BY <1>3, <2>1 DEF SInv, FreeIsEmpty
  <2>3. PICK i \in 1 .. n : kind[x] = Order[i]
    BY <1>1, <2>2, NothingInDestruction DEF SInv, NothingElse, InScope, ScopesChain
  <2>4. Order[i] # Order[n + 1]
    BY <1>2, OrderFacts
  <2> QED
    BY <2>1, <2>2, <2>3, <2>4
<1>7. r \in Tree!Resources
  BY <1>2, TreeKinds DEF Tree!Resources
<1> QED
  BY <1>4, <1>5, <1>6, <1>7 DEF Tree!Next, Tree!Acquire

\* A destroyed native resource is released.
LEMMA DestroyReleases ==
  ASSUME SInv, ~ClientRuns, DestroyNative(Head(stack))
  PROVE  Tree!Next
<1> DEFINE n == Len(locals)
<1>0. PICK h \in Objects : h = Head(stack)
  BY HeadAboveChain
<1> DEFINE r == Resource(h)
<1>1. /\ native[h] /\ native' = [native EXCEPT ![h] = FALSE]
      /\ UNCHANGED <<kind, parent>>
  BY <1>0 DEF DestroyNative
<1>2. r \in OpenResources /\ r.place = h
  BY <1>1, OpenIsNative DEF Resource
<1>3. OpenResources' = OpenResources \ {r}
  <2>1. TypeOK
    BY DEF SInv, HInv
  <2>2. /\ ~native'[h]
        /\ \A x \in Objects \ {h} : native'[x] = native[x]
        /\ \A x \in Objects : Resource(x)' = Resource(x)
        /\ \A x \in Objects : Resource(x) = r => x = h
    BY <1>1, <2>1 DEF TypeOK, Resource
  <2>3. OpenResources = {Resource(x) : x \in {y \in Objects : native[y]}}
    BY DEF OpenResources, Resource
  <2>4. OpenResources' = {Resource(x)' : x \in {y \in Objects : native'[y]}}
    BY DEF OpenResources, Resource
  <2> QED
    BY <2>2, <2>3, <2>4
<1>4. ASSUME NEW q \in OpenResources
      PROVE  q.on # r.place
  <2>1. PICK x \in Objects : native[x] /\ q.on = parent[x]
    BY OpenIsNative
  <2>2. kind[x] # "free"
    BY <2>1 DEF SInv, FreeIsEmpty
  <2>3. ~Referenced(h) /\ handles[h] = 0
    BY <1>0, HeadAboveChain, MaxHandlesAssumption
    DEF Referenced, Counted, SInv, HInv, TypeOK
  <2>4. CASE x = h
    BY <1>0, <1>2, <2>1, <2>3, <2>4, HeadAboveChain, NoObjectAssumption
  <2>5. CASE InScope(x)
    <3>1. Referenced(x)
      BY <2>5 DEF InScope, SInv, ScopesChain, Referenced, Counted
    <3>2. Intact(x)
      BY <3>1 DEF SInv, HInv, ReferencedIntact
    <3> QED
      BY <1>2, <2>1, <2>3, <3>2, NoObjectAssumption
      DEF Intact, SInv, HInv, LinksTyped, Referenced, Counted
  <2> QED
    BY <1>0, <2>2, <2>4, <2>5, InDestructionIsHead DEF SInv, NothingElse
<1>5. r \in Tree!Resources
  <2>1. n + 1 \in 1 .. 4 /\ kind[h] = Order[n + 1]
    BY <1>0, HeadAboveChain, NextNumber
  <2>2. parent[h] \in Objects \cup {NoObject}
    BY DEF SInv, HInv, TypeOK
  <2> QED
    BY <2>1, <2>2, TreeKinds DEF Tree!Resources, Resource
<1> QED
  BY <1>2, <1>3, <1>4, <1>5 DEF Tree!Next, Tree!Release

\* DecentWasmMain implements the tree of resources.
THEOREM ScopesImplementTree == ScopeSpec => ImplementsResourceTree
<1>1. ScopeInit => Tree!Init
  BY DEF ScopeInit, Init, Tree!Init, OpenResources
<1>2. ASSUME SInv, [ScopeNext]_allVars
      PROVE  [Tree!Next]_OpenResources
  <2>1. ASSUME NEW o \in Objects, Construct(o)
        PROVE  Tree!Next
    BY <1>2, <2>1, ConstructAcquires
  <2>2. CASE LeaveScope \/ Throws \/ RunFinishes \/ NextBlock \/ Return
               \/ UNCHANGED allVars
    <3>1. UNCHANGED <<kind, parent, native>>
      BY <2>2
      DEF LeaveScope, DropHandle, Throws, RunFinishes, NextBlock, Return,
          allVars, vars
    <3> QED
      BY <3>1 DEF OpenResources
  <2>3. CASE Destructor
    <3>1. ~ClientRuns /\ UNCHANGED scopeVars
      BY <2>3 DEF Destructor, DestructorStep, ClientRuns
    <3>2. CASE ReleaseParent(Head(stack))
      BY <3>2 DEF ReleaseParent, OpenResources
    <3>3. CASE DestroyNative(Head(stack))
      BY <1>2, <3>1, <3>3, DestroyReleases
    <3>4. CASE Deallocate(Head(stack))
      <4>1. PICK h \in Objects : h = Head(stack)
        BY <1>2, <3>1, HeadAboveChain
      <4>2. /\ ~native[h] /\ native' = native
            /\ \A x \in Objects \ {h} : kind'[x] = kind[x] /\ parent'[x] = parent[x]
        BY <1>2, <3>4, <4>1 DEF Deallocate, SInv, HInv, TypeOK
      <4> QED
        BY <4>2 DEF OpenResources
    <3> QED
      BY <2>3, <3>2, <3>3, <3>4 DEF Destructor, DestructorStep
  <2> QED
    BY <1>2, <2>1, <2>2, <2>3 DEF ScopeNext, Leave
<1> QED
  BY <1>1, <1>2, ScopeInvariance, PTL DEF ScopeSpec, ImplementsResourceTree, Tree!Spec
=============================================================================
