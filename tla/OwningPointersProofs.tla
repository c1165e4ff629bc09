------------------------ MODULE OwningPointersProofs ------------------------
(***************************************************************************)
(* Proofs about OwningPointers, for any number of variables, resources and *)
(* parents.                                                                *)
(***************************************************************************)
EXTENDS OwningPointers, TLAPS

\* The variable that has the members of the resource of s: between the two
\* steps of an assignment they are still in the one assigned from.
Holder(s) == IF op.name = "assign" /\ op.to = s THEN op.from ELSE s

\* The operation under way is between two variables of the client; one that
\* is assigned from has lost its resource.
OperationsFit ==
  /\ op.name = "none" => op = Idle
  /\ op.name = "assign" =>
       op.to \in live /\ op.from \in live /\ m_ptr[op.from] = Null
  /\ op.name = "destroy" => op.to \in Slots

\* User data name the owner, or the one its resource was just taken from.
Named ==
  kind = "env" =>
    \A s \in Slots : m_ptr[s] # Null => userData[m_ptr[s]] = Holder(s)

\* The members of a resource are with its holder until a destructor.
Belongs ==
  \A s \in Slots : m_ptr[s] # Null =>
    \/ op.name = "destroy" /\ op.to = s
    \/ /\ m_parent[Holder(s)] = createdOn[m_ptr[s]]
       /\ m_owned[Holder(s)] = given[m_ptr[s]]

PInv == TypeOK /\ OneOwner /\ OperationsFit /\ Named /\ Belongs

\* Outside of an assignment every variable has its own members.
LEMMA HolderOfItself ==
  ASSUME NEW s \in Slots, op.name # "assign"
  PROVE  Holder(s) = s
BY DEF Holder

LEMMA InitialPointers == Init => PInv
<1> SUFFICES ASSUME Init PROVE PInv
  OBVIOUS
<1>1. TypeOK
  BY DEF Init, TypeOK, Idle, Operations
<1>2. OneOwner
  BY DEF Init, OneOwner
<1>3. OperationsFit
  BY DEF Init, OperationsFit, Idle
<1>4. Named /\ Belongs
  BY DEF Init, Named, Belongs
<1> QED
  BY <1>1, <1>2, <1>3, <1>4 DEF PInv

-----------------------------------------------------------------------------
(* One lemma for each kind of step.                                        *)

\* The handles of the client do not matter to what the objects hold.
LEMMA HandlesKeepInv ==
  ASSUME PInv, held' \subseteq Parents, UNCHANGED <<kind, fields, natives, op>>
  PROVE  PInv'
<1> USE DEF PInv, fields, natives
<1>1. TypeOK'
  BY DEF TypeOK
<1>2. OneOwner'
  BY DEF OneOwner
<1>3. OperationsFit' /\ Named' /\ Belongs'
  BY DEF OperationsFit, Named, Belongs, Holder
<1> QED
  BY <1>1, <1>2, <1>3

\* A step that only ends the program or the operation without a resource.
LEMMA EndedKeepsInv ==
  ASSUME PInv, UNCHANGED <<kind, fields, natives, held>>, op' \in Operations,
         op'.name = "crashed" \/ op' = Idle,
         op.name # "destroy",
         op.name = "assign" => m_ptr[op.to] = Null
  PROVE  PInv'
<1> USE DEF PInv, fields, natives
<1>1. op'.name # "assign" /\ op'.name # "destroy"
  BY DEF Idle
<1>2. \A s \in Slots : m_ptr[s] # Null => Holder(s) = s /\ Holder(s)' = s
  BY <1>1 DEF Holder, OperationsFit
<1>3. TypeOK'
  BY <1>1 DEF TypeOK
<1>4. OneOwner'
  BY DEF OneOwner
<1>5. OperationsFit'
  BY <1>1 DEF OperationsFit, Idle
<1>6. Named'
  BY <1>2 DEF Named
<1>7. Belongs'
  BY <1>2 DEF Belongs
<1> QED
  BY <1>3, <1>4, <1>5, <1>6, <1>7

\* A new resource has one owner, which has all that belongs to it.
LEMMA CreateKeepsInv ==
  ASSUME PInv, NEW s \in Slots, NEW n \in Natives, NEW p \in Parents,
         Create(s, n, p)
  PROVE  PInv'
<1> USE DEF PInv
<1>1. op = Idle /\ op' = Idle /\ s \notin live /\ n \notin alive
  BY DEF Create
<1>2. PICK d \in Owned \cup {Null} :
        /\ m_owned' = [m_owned EXCEPT ![s] = d]
        /\ given' = [given EXCEPT ![n] = d]
  BY DEF Create
<1>3. /\ m_ptr' = [m_ptr EXCEPT ![s] = n]
      /\ m_parent' = [m_parent EXCEPT ![s] = p]
      /\ createdOn' = [createdOn EXCEPT ![n] = p]
      /\ alive' = alive \cup {n}
      /\ live' = live \cup {s}
      /\ userData' = IF kind = "env" THEN [userData EXCEPT ![n] = s] ELSE userData
      /\ UNCHANGED <<kind, held>>
  BY DEF Create
<1>4. n # Null /\ m_ptr[s] = Null
  BY <1>1, NullAssumption DEF TypeOK
<1>5. \A t \in Slots : m_ptr[t] # n
  BY <1>1, <1>4 DEF OneOwner
<1>6. /\ m_ptr'[s] = n /\ m_parent'[s] = p /\ m_owned'[s] = d
      /\ \A t \in Slots \ {s} :
           m_ptr'[t] = m_ptr[t] /\ m_parent'[t] = m_parent[t] /\ m_owned'[t] = m_owned[t]
  BY <1>2, <1>3 DEF TypeOK
<1>7. /\ createdOn'[n] = p /\ given'[n] = d
      /\ kind = "env" => userData'[n] = s
      /\ \A m \in Natives \ {n} :
           /\ createdOn'[m] = createdOn[m] /\ given'[m] = given[m]
           /\ userData'[m] = userData[m]
  BY <1>2, <1>3 DEF TypeOK
<1>8. \A t \in Slots : Holder(t) = t /\ Holder(t)' = t
  BY <1>1 DEF Holder, Idle
<1>9. \A t \in Slots \ {s} : m_ptr'[t] # Null => m_ptr'[t] \in Natives \ {n}
  BY <1>5, <1>6 DEF TypeOK
<1>10. TypeOK'
  <2>1. /\ kind' \in {"module", "instance", "env"} /\ live' \subseteq Slots
        /\ alive' \subseteq Natives /\ held' \subseteq Parents
        /\ op' \in Operations
    BY <1>1, <1>3 DEF TypeOK
  <2>2. /\ m_ptr' \in [Slots -> Natives \cup {Null}]
        /\ m_parent' \in [Slots -> Parents \cup {Null}]
        /\ m_owned' \in [Slots -> Owned \cup {Null}]
    BY <1>2, <1>3 DEF TypeOK
  <2>3. /\ createdOn' \in [Natives -> Parents \cup {Null}]
        /\ given' \in [Natives -> Owned \cup {Null}]
        /\ userData' \in [Natives -> Slots \cup {Null}]
    BY <1>2, <1>3 DEF TypeOK
  <2>4. op'.name # "destroy"
    BY <1>1 DEF Idle
  <2>5. \A t \in Slots : t \notin live' =>
          m_ptr'[t] = Null /\ m_parent'[t] = Null /\ m_owned'[t] = Null
    BY <1>3, <1>6 DEF TypeOK
  <2> QED
    BY <2>1, <2>2, <2>3, <2>4, <2>5 DEF TypeOK
<1>11. OneOwner'
  <2>1. \A m \in alive : \E t \in Slots \ {s} : m_ptr[t] = m
    BY <1>4, NullAssumption DEF OneOwner, TypeOK
  <2>2. \A m \in alive' : \E t \in Slots : m_ptr'[t] = m
    BY <2>1, <1>3, <1>6
  <2>3. \A t \in Slots : m_ptr'[t] \in alive' \cup {Null}
    BY <1>3, <1>6 DEF OneOwner
  <2>4. \A t, u \in Slots : t # u /\ m_ptr'[t] # Null => m_ptr'[t] # m_ptr'[u]
    BY <1>5, <1>6 DEF OneOwner
  <2> QED
    BY <2>2, <2>3, <2>4 DEF OneOwner
<1>12. OperationsFit'
  BY <1>1 DEF OperationsFit, Idle
<1>13. Named'
  BY <1>3, <1>6, <1>7, <1>8, <1>9 DEF Named
<1>14. Belongs'
  <2>1. \A t \in Slots \ {s} : m_ptr[t] # Null =>
          m_parent[t] = createdOn[m_ptr[t]] /\ m_owned[t] = given[m_ptr[t]]
    BY <1>1, <1>8 DEF Belongs, Idle
  <2> QED
    BY <2>1, <1>6, <1>7, <1>8, <1>9 DEF Belongs
<1> QED
  BY <1>10, <1>11, <1>12, <1>13, <1>14

\* reset() leaves no owner of what it destroys, and the other owners.
LEMMA ResetKeepsOwners ==
  ASSUME OneOwner, m_ptr \in [Slots -> Natives \cup {Null}], NEW s \in Slots,
         alive' = alive \ {m_ptr[s]}, m_ptr' = [m_ptr EXCEPT ![s] = Null]
  PROVE  /\ OneOwner'
         /\ m_ptr'[s] = Null
         /\ \A u \in Slots \ {s} : m_ptr'[u] = m_ptr[u]
<1>1. m_ptr'[s] = Null /\ \A u \in Slots \ {s} : m_ptr'[u] = m_ptr[u]
  OBVIOUS
<1>2. \A n \in alive' : \E u \in Slots : m_ptr'[u] = n
  <2>1. SUFFICES ASSUME NEW n \in alive' PROVE \E u \in Slots : m_ptr'[u] = n
    OBVIOUS
  <2>2. PICK u \in Slots : m_ptr[u] = n
    BY DEF OneOwner
  <2>3. u # s
    BY <2>2
  <2> QED
    BY <1>1, <2>2, <2>3
<1>3. \A u \in Slots : m_ptr'[u] \in alive' \cup {Null}
  BY <1>1 DEF OneOwner
<1>4. \A u, v \in Slots : u # v /\ m_ptr'[u] # Null => m_ptr'[u] # m_ptr'[v]
  BY <1>1 DEF OneOwner
<1> QED
  BY <1>1, <1>2, <1>3, <1>4 DEF OneOwner

\* A resource goes from t to s, and that of s is destroyed.
LEMMA MoveKeepsOwners ==
  ASSUME OneOwner, m_ptr \in [Slots -> Natives \cup {Null}],
         NEW s \in Slots, NEW t \in Slots \ {s},
         alive' = alive \ {m_ptr[s]},
         m_ptr' = [m_ptr EXCEPT ![s] = m_ptr[t], ![t] = Null]
  PROVE  /\ OneOwner'
         /\ m_ptr'[s] = m_ptr[t] /\ m_ptr'[t] = Null
         /\ \A u \in Slots \ {s, t} : m_ptr'[u] = m_ptr[u]
<1>1. /\ m_ptr'[s] = m_ptr[t] /\ m_ptr'[t] = Null
      /\ \A u \in Slots \ {s, t} : m_ptr'[u] = m_ptr[u]
  OBVIOUS
<1>2. \A n \in alive' : \E u \in Slots : m_ptr'[u] = n
  <2>1. SUFFICES ASSUME NEW n \in alive' PROVE \E u \in Slots : m_ptr'[u] = n
    OBVIOUS
  <2>2. PICK u \in Slots : m_ptr[u] = n
    BY DEF OneOwner
  <2>3. u # s
    BY <2>2
  <2> QED
    BY <1>1, <2>2, <2>3
<1>3. \A u \in Slots : m_ptr'[u] \in alive' \cup {Null}
  BY <1>1 DEF OneOwner
<1>4. \A u, v \in Slots : u # v /\ m_ptr'[u] # Null => m_ptr'[u] # m_ptr'[v]
  BY <1>1 DEF OneOwner
<1> QED
  BY <1>1, <1>2, <1>3, <1>4 DEF OneOwner

\* What MoveMembers leaves where.
LEMMA MovedMembers ==
  ASSUME TypeOK, NEW s \in Slots, NEW t \in Slots \ {s}, MoveMembers(s, t)
  PROVE  /\ m_parent' \in [Slots -> Parents \cup {Null}]
         /\ m_owned' \in [Slots -> Owned \cup {Null}]
         /\ m_parent'[s] = m_parent[t] /\ m_owned'[s] = m_owned[t]
         /\ m_parent'[t] = Null /\ m_owned'[t] = Null
         /\ \A u \in Slots \ {s, t} :
              m_parent'[u] = m_parent[u] /\ m_owned'[u] = m_owned[u]
BY DEF TypeOK, MoveMembers

\* What wasm_runtime_set_user_data leaves.
LEMMA NamedOwner ==
  ASSUME TypeOK, NEW s \in Slots, NEW n \in Natives \cup {Null},
         kind = "env" => n # Null, NamesOwner(s, n)
  PROVE  /\ userData' \in [Natives -> Slots \cup {Null}]
         /\ kind = "env" =>
              userData'[n] = s /\ \A m \in Natives \ {n} : userData'[m] = userData[m]
BY DEF TypeOK, NamesOwner

LEMMA SetUserDataKeepsInv ==
  ASSUME PInv, NEW s \in Slots, NEW d \in Owned, SetUserData(s, d)
  PROVE  PInv'
<1> USE DEF PInv
<1>1. /\ op = Idle /\ op' = Idle /\ s \in live
      /\ m_owned' = [m_owned EXCEPT ![s] = d]
      /\ given' = IF m_ptr[s] = Null THEN given ELSE [given EXCEPT ![m_ptr[s]] = d]
      /\ UNCHANGED <<kind, live, m_ptr, m_parent, alive, createdOn, userData, held>>
  BY DEF SetUserData
<1>2. \A t \in Slots : Holder(t) = t /\ Holder(t)' = t
  BY <1>1 DEF Holder, Idle
<1>3. m_owned'[s] = d /\ \A t \in Slots \ {s} : m_owned'[t] = m_owned[t]
  BY <1>1 DEF TypeOK
<1>4. m_ptr[s] # Null => given'[m_ptr[s]] = d
  BY <1>1 DEF TypeOK
<1>5. \A n \in Natives : n # m_ptr[s] => given'[n] = given[n]
  BY <1>1 DEF TypeOK
<1>6. TypeOK'
  <2>1. m_owned' \in [Slots -> Owned \cup {Null}]
    BY <1>1 DEF TypeOK
  <2>2. given' \in [Natives -> Owned \cup {Null}]
    BY <1>1 DEF TypeOK
  <2>3. \A t \in Slots : t \notin live => m_owned'[t] = Null
    BY <1>1, <1>3 DEF TypeOK
  <2> QED
    BY <1>1, <2>1, <2>2, <2>3 DEF TypeOK, Idle
<1>7. OneOwner'
  BY <1>1 DEF OneOwner
<1>8. OperationsFit' /\ Named'
  BY <1>1, <1>2 DEF OperationsFit, Named, Idle
<1>9. Belongs'
  <2>1. ASSUME NEW t \in Slots, m_ptr[t] # Null
        PROVE  m_parent'[t] = createdOn'[m_ptr[t]] /\ m_owned'[t] = given'[m_ptr[t]]
    <3>1. m_parent[t] = createdOn[m_ptr[t]] /\ m_owned[t] = given[m_ptr[t]]
      BY <1>1, <1>2, <2>1 DEF Belongs, Idle
    <3>2. CASE t = s
      BY <3>1, <3>2, <1>1, <1>3, <1>4, <2>1
    <3>3. CASE t # s
      <4>1. m_ptr[t] \in Natives /\ m_ptr[t] # m_ptr[s]
        BY <2>1, <3>3 DEF OneOwner, TypeOK
      <4> QED
        BY <3>1, <3>3, <4>1, <1>1, <1>3, <1>5
    <3> QED
      BY <3>2, <3>3
  <2> QED
    BY <2>1, <1>1, <1>2 DEF Belongs
<1> QED
  BY <1>6, <1>7, <1>8, <1>9

LEMMA MoveConstructKeepsInv ==
  ASSUME PInv, NEW s \in Slots, NEW t \in Slots, MoveConstruct(s, t)
  PROVE  PInv'
<1> USE DEF PInv
<1>1. /\ op = Idle /\ op' = Idle /\ s \notin live /\ t \in live
      /\ live' = live \cup {s}
      /\ m_ptr' = [m_ptr EXCEPT ![s] = m_ptr[t], ![t] = Null]
      /\ MoveMembers(s, t) /\ NamesOwner(s, m_ptr[t])
      /\ UNCHANGED <<kind, alive, createdOn, given, held>>
  BY DEF MoveConstruct
<1>2. t \in Slots \ {s} /\ m_ptr[s] = Null
  BY <1>1 DEF TypeOK
<1>3. alive' = alive \ {m_ptr[s]}
  BY <1>1, <1>2, NullAssumption DEF TypeOK
<1>4. /\ OneOwner'
      /\ m_ptr'[s] = m_ptr[t] /\ m_ptr'[t] = Null
      /\ \A u \in Slots \ {s, t} : m_ptr'[u] = m_ptr[u]
  <2>1. OneOwner /\ m_ptr \in [Slots -> Natives \cup {Null}]
    BY DEF TypeOK
  <2>2. m_ptr' = [m_ptr EXCEPT ![s] = m_ptr[t], ![t] = Null]
    BY <1>1
  <2> HIDE DEF PInv
  <2> QED
    BY <1>2, <1>3, <2>1, <2>2, MoveKeepsOwners
<1>5. /\ m_parent' \in [Slots -> Parents \cup {Null}]
      /\ m_owned' \in [Slots -> Owned \cup {Null}]
      /\ m_parent'[s] = m_parent[t] /\ m_owned'[s] = m_owned[t]
      /\ m_parent'[t] = Null /\ m_owned'[t] = Null
      /\ \A u \in Slots \ {s, t} :
           m_parent'[u] = m_parent[u] /\ m_owned'[u] = m_owned[u]
  BY <1>1, <1>2, MovedMembers
<1>6. m_ptr[t] \in Natives \cup {Null} /\ (kind = "env" => m_ptr[t] # Null)
  BY DEF MoveConstruct, MovesNull, TypeOK
<1>7. /\ userData' \in [Natives -> Slots \cup {Null}]
      /\ kind = "env" =>
           /\ userData'[m_ptr[t]] = s
           /\ \A m \in Natives \ {m_ptr[t]} : userData'[m] = userData[m]
  BY <1>1, <1>6, NamedOwner
<1>8. \A u \in Slots : Holder(u) = u /\ Holder(u)' = u
  BY <1>1 DEF Holder, Idle
<1>9. TypeOK'
  <2>1. m_ptr' \in [Slots -> Natives \cup {Null}]
    BY <1>1, <1>6 DEF TypeOK
  <2>2. \A u \in Slots : u \notin live' =>
          m_ptr'[u] = Null /\ m_parent'[u] = Null /\ m_owned'[u] = Null
    BY <1>1, <1>4, <1>5 DEF TypeOK
  <2>3. live' \subseteq Slots
    BY <1>1 DEF TypeOK
  <2> QED
    BY <1>1, <1>5, <1>7, <2>1, <2>2, <2>3 DEF TypeOK, Idle
<1>10. OperationsFit'
  BY <1>1 DEF OperationsFit, Idle
<1>11. \A u \in Slots \ {s, t} :
         m_ptr[u] # Null => m_ptr[u] \in Natives \ {m_ptr[t]}
  BY DEF OneOwner, TypeOK
<1>12. Named'
  <2>1. SUFFICES ASSUME kind = "env", NEW u \in Slots, m_ptr'[u] # Null
                 PROVE  userData'[m_ptr'[u]] = u
    BY <1>1, <1>8 DEF Named
  <2>2. CASE u = s
    BY <2>1, <2>2, <1>4, <1>7
  <2>3. CASE u \in Slots \ {s, t}
    <3>1. userData[m_ptr[u]] = u
      BY <2>1, <2>3, <1>4, <1>8 DEF Named
    <3> QED
      BY <2>1, <2>3, <3>1, <1>4, <1>7, <1>11
  <2> QED
    BY <2>1, <2>2, <2>3, <1>4
<1>13. Belongs'
  <2>1. \A u \in Slots : m_ptr[u] # Null =>
          m_parent[u] = createdOn[m_ptr[u]] /\ m_owned[u] = given[m_ptr[u]]
    BY <1>1, <1>8 DEF Belongs, Idle
  <2> QED
    <3>1. SUFFICES ASSUME NEW u \in Slots, m_ptr'[u] # Null
                   PROVE  /\ m_parent'[u] = createdOn'[m_ptr'[u]]
                          /\ m_owned'[u] = given'[m_ptr'[u]]
      BY <1>8 DEF Belongs
    <3>2. CASE u = s
      BY <3>1, <3>2, <2>1, <1>1, <1>4, <1>5
    <3>3. CASE u \in Slots \ {s, t}
      BY <3>1, <3>3, <2>1, <1>1, <1>4, <1>5
    <3> QED
      BY <3>1, <3>2, <3>3, <1>4
<1> QED
  BY <1>4, <1>9, <1>10, <1>12, <1>13

LEMMA MoveAssignBaseKeepsInv ==
  ASSUME PInv, NEW s \in Slots, NEW t \in Slots, MoveAssignBase(s, t)
  PROVE  PInv'
<1> USE DEF PInv
<1>1. /\ op = Idle /\ s \in live /\ t \in live
      /\ alive' = alive \ {m_ptr[s]}
      /\ m_ptr' = [m_ptr EXCEPT ![s] = m_ptr[t], ![t] = Null]
      /\ op' = [name |-> "assign", to |-> s, from |-> t]
      /\ UNCHANGED <<kind, live, m_parent, m_owned, createdOn, given, userData, held>>
  BY DEF MoveAssignBase, ResetTo
<1>2. /\ OneOwner'
      /\ m_ptr'[s] = IF t = s THEN Null ELSE m_ptr[t]
      /\ m_ptr'[t] = Null
      /\ \A u \in Slots \ {s, t} : m_ptr'[u] = m_ptr[u]
  <2>1. CASE t = s
    <3>1. m_ptr' = [m_ptr EXCEPT ![s] = Null]
      BY <1>1, <2>1 DEF TypeOK
    <3> QED
      BY <1>1, <2>1, <3>1, ResetKeepsOwners DEF TypeOK
  <2>2. CASE t # s
    BY <1>1, <2>2, MoveKeepsOwners DEF TypeOK
  <2> QED
    BY <2>1, <2>2
<1>3. /\ \A u \in Slots : Holder(u) = u
      /\ Holder(s)' = t
      /\ \A u \in Slots \ {s} : Holder(u)' = u
  BY <1>1 DEF Holder, Idle
<1>4. TypeOK'
  <2>1. m_ptr' \in [Slots -> Natives \cup {Null}]
    BY <1>1 DEF TypeOK
  <2>2. op' \in Operations /\ op'.name # "destroy"
    BY <1>1 DEF Operations
  <2>3. \A u \in Slots : u \notin live' => m_ptr'[u] = Null
    BY <1>1, <1>2 DEF TypeOK
  <2>4. \A u \in Slots : u \notin live' => m_parent'[u] = Null /\ m_owned'[u] = Null
    BY <1>1 DEF TypeOK
  <2>5. alive' \subseteq Natives
    BY <1>1 DEF TypeOK
  <2> QED
    BY <1>1, <2>1, <2>2, <2>3, <2>4, <2>5 DEF TypeOK
<1>5. OperationsFit'
  BY <1>1, <1>2 DEF OperationsFit
<1>6. Named'
  <2>1. SUFFICES ASSUME kind = "env", NEW u \in Slots, m_ptr'[u] # Null
                 PROVE  userData[m_ptr'[u]] = Holder(u)'
    BY <1>1 DEF Named
  <2>2. CASE u = s
    BY <2>1, <2>2, <1>2, <1>3 DEF Named
  <2>3. CASE u \in Slots \ {s, t}
    BY <2>1, <2>3, <1>2, <1>3 DEF Named
  <2> QED
    BY <2>1, <2>2, <2>3, <1>2
<1>7. Belongs'
  <2>1. \A u \in Slots : m_ptr[u] # Null =>
          m_parent[u] = createdOn[m_ptr[u]] /\ m_owned[u] = given[m_ptr[u]]
    BY <1>1, <1>3 DEF Belongs, Idle
  <2> QED
    <3>1. SUFFICES ASSUME NEW u \in Slots, m_ptr'[u] # Null
                   PROVE  /\ m_parent[Holder(u)'] = createdOn[m_ptr'[u]]
                          /\ m_owned[Holder(u)'] = given[m_ptr'[u]]
      BY <1>1 DEF Belongs
    <3>2. CASE u = s
      BY <3>1, <3>2, <2>1, <1>2, <1>3
    <3>3. CASE u \in Slots \ {s, t}
      BY <3>1, <3>3, <2>1, <1>2, <1>3
    <3> QED
      BY <3>1, <3>2, <3>3, <1>2
<1> QED
  BY <1>2, <1>4, <1>5, <1>6, <1>7

LEMMA MoveAssignMembersKeepsInv ==
  ASSUME PInv, NEW s \in Slots, NEW t \in Slots, MoveAssignMembers(s, t)
  PROVE  PInv'
<1> USE DEF PInv
<1>1. /\ op = [name |-> "assign", to |-> s, from |-> t] /\ op' = Idle
      /\ t \in Slots \ {s}
      /\ MoveMembers(s, t) /\ NamesOwner(s, m_ptr[s])
      /\ UNCHANGED <<kind, live, m_ptr, alive, createdOn, given, held>>
  BY DEF MoveAssignMembers
<1>2. m_ptr[t] = Null
  BY <1>1 DEF OperationsFit
<1>3. /\ m_parent' \in [Slots -> Parents \cup {Null}]
      /\ m_owned' \in [Slots -> Owned \cup {Null}]
      /\ m_parent'[s] = m_parent[t] /\ m_owned'[s] = m_owned[t]
      /\ m_parent'[t] = Null /\ m_owned'[t] = Null
      /\ \A u \in Slots \ {s, t} :
           m_parent'[u] = m_parent[u] /\ m_owned'[u] = m_owned[u]
  BY <1>1, MovedMembers
<1>4. m_ptr[s] \in Natives \cup {Null} /\ (kind = "env" => m_ptr[s] # Null)
  BY DEF MoveAssignMembers, MovesNull, TypeOK
<1>5. /\ userData' \in [Natives -> Slots \cup {Null}]
      /\ kind = "env" =>
           /\ userData'[m_ptr[s]] = s
           /\ \A m \in Natives \ {m_ptr[s]} : userData'[m] = userData[m]
  BY <1>1, <1>4, NamedOwner
<1>6. /\ Holder(s) = t
      /\ \A u \in Slots \ {s} : Holder(u) = u
      /\ \A u \in Slots : Holder(u)' = u
  BY <1>1 DEF Holder, Idle
<1>7. TypeOK'
  <2>1. op' \in Operations /\ op'.name # "destroy"
    BY <1>1 DEF Operations, Idle
  <2>2. s \in live
    BY <1>1 DEF OperationsFit
  <2>3. \A u \in Slots : u \notin live' =>
          m_ptr'[u] = Null /\ m_parent'[u] = Null /\ m_owned'[u] = Null
    BY <1>1, <1>3, <2>2 DEF TypeOK
  <2> QED
    BY <1>1, <1>3, <1>5, <2>1, <2>3 DEF TypeOK
<1>8. OneOwner'
  BY <1>1 DEF OneOwner
<1>9. OperationsFit'
  BY <1>1 DEF OperationsFit, Idle
<1>10. \A u \in Slots \ {s} : m_ptr[u] # Null => m_ptr[u] \in Natives \ {m_ptr[s]}
  BY DEF OneOwner, TypeOK
<1>11. Named'
  BY <1>1, <1>4, <1>5, <1>6, <1>10 DEF Named
<1>12. Belongs'
  <2>1. /\ \A u \in Slots \ {s} : m_ptr[u] # Null =>
             m_parent[u] = createdOn[m_ptr[u]] /\ m_owned[u] = given[m_ptr[u]]
        /\ m_ptr[s] # Null =>
             m_parent[t] = createdOn[m_ptr[s]] /\ m_owned[t] = given[m_ptr[s]]
    BY <1>1, <1>6 DEF Belongs
  <2> QED
    BY <2>1, <1>1, <1>2, <1>3, <1>6 DEF Belongs
<1> QED
  BY <1>7, <1>8, <1>9, <1>11, <1>12

LEMMA ResetKeepsInv ==
  ASSUME PInv, NEW s \in Slots, Reset(s)
  PROVE  PInv'
<1> USE DEF PInv
<1>1. /\ op = Idle /\ op' = Idle
      /\ alive' = alive \ {m_ptr[s]} /\ m_ptr' = [m_ptr EXCEPT ![s] = Null]
      /\ UNCHANGED <<kind, live, m_parent, m_owned, createdOn, given, userData, held>>
  BY DEF Reset, ResetTo
<1>2. /\ OneOwner'
      /\ m_ptr'[s] = Null
      /\ \A u \in Slots \ {s} : m_ptr'[u] = m_ptr[u]
  BY <1>1, ResetKeepsOwners DEF TypeOK
<1>3. \A u \in Slots : Holder(u) = u /\ Holder(u)' = u
  BY <1>1 DEF Holder, Idle
<1>4. TypeOK'
  <2>1. m_ptr' \in [Slots -> Natives \cup {Null}] /\ alive' \subseteq Natives
    BY <1>1 DEF TypeOK
  <2>2. \A u \in Slots : u \notin live' =>
          m_ptr'[u] = Null /\ m_parent'[u] = Null /\ m_owned'[u] = Null
    BY <1>1, <1>2 DEF TypeOK
  <2> QED
    BY <1>1, <2>1, <2>2 DEF TypeOK, Idle
<1>5. OperationsFit'
  BY <1>1 DEF OperationsFit, Idle
<1>6. Named'
  BY <1>1, <1>2, <1>3 DEF Named
<1>7. Belongs'
  BY <1>1, <1>2, <1>3 DEF Belongs, Idle
<1> QED
  BY <1>2, <1>4, <1>5, <1>6, <1>7

LEMMA DestroyMembersKeepsInv ==
  ASSUME PInv, NEW s \in Slots, DestroyMembers(s)
  PROVE  PInv'
<1> USE DEF PInv
<1>1. /\ op = Idle /\ op' = [name |-> "destroy", to |-> s, from |-> Null]
      /\ m_parent' = [m_parent EXCEPT ![s] = Null]
      /\ m_owned' = [m_owned EXCEPT ![s] = Null]
      /\ UNCHANGED <<kind, live, m_ptr, alive, createdOn, given, userData, held>>
  BY DEF DestroyMembers, natives
<1>2. /\ m_parent'[s] = Null /\ m_owned'[s] = Null
      /\ \A u \in Slots \ {s} : m_parent'[u] = m_parent[u] /\ m_owned'[u] = m_owned[u]
  BY <1>1 DEF TypeOK
<1>3. \A u \in Slots : Holder(u) = u /\ Holder(u)' = u
  BY <1>1 DEF Holder, Idle
<1>4. op'.name = "destroy" /\ op'.to = s /\ op' \in Operations
  BY <1>1 DEF Operations
<1>5. TypeOK'
  <2>1. /\ m_parent' \in [Slots -> Parents \cup {Null}]
        /\ m_owned' \in [Slots -> Owned \cup {Null}]
    BY <1>1 DEF TypeOK
  <2>2. \A u \in Slots : u \notin live' \/ u = s =>
          m_parent'[u] = Null /\ m_owned'[u] = Null
    BY <1>1, <1>2 DEF TypeOK
  <2> QED
    BY <1>1, <1>4, <2>1, <2>2 DEF TypeOK
<1>6. OneOwner'
  BY <1>1 DEF OneOwner
<1>7. OperationsFit'
  BY <1>4 DEF OperationsFit
<1>8. Named'
  BY <1>1, <1>3 DEF Named
<1>9. Belongs'
  BY <1>1, <1>2, <1>3, <1>4 DEF Belongs, Idle
<1> QED
  BY <1>5, <1>6, <1>7, <1>8, <1>9

LEMMA DestroyBaseKeepsInv ==
  ASSUME PInv, NEW s \in Slots, DestroyBase(s)
  PROVE  PInv'
<1> USE DEF PInv
<1>1. /\ op = [name |-> "destroy", to |-> s, from |-> Null] /\ op' = Idle
      /\ live' = live \ {s}
      /\ alive' = alive \ {m_ptr[s]} /\ m_ptr' = [m_ptr EXCEPT ![s] = Null]
      /\ UNCHANGED <<kind, m_parent, m_owned, createdOn, given, userData, held>>
  BY DEF DestroyBase, ResetTo
<1>2. /\ OneOwner'
      /\ m_ptr'[s] = Null
      /\ \A u \in Slots \ {s} : m_ptr'[u] = m_ptr[u]
  BY <1>1, ResetKeepsOwners DEF TypeOK
<1>3. \A u \in Slots : Holder(u) = u /\ Holder(u)' = u
  BY <1>1 DEF Holder, Idle
<1>4. op.name = "destroy" /\ op.to = s
  BY <1>1
<1>5. TypeOK'
  <2>1. /\ m_ptr' \in [Slots -> Natives \cup {Null}]
        /\ alive' \subseteq Natives /\ live' \subseteq Slots
    BY <1>1 DEF TypeOK
  <2>2. op' \in Operations /\ op'.name # "destroy"
    BY <1>1 DEF Operations, Idle
  <2>3. \A u \in Slots : u \notin live' => u \notin live \/ u = s
    BY <1>1
  <2>4. \A u \in Slots : u \notin live' =>
          m_ptr'[u] = Null /\ m_parent'[u] = Null /\ m_owned'[u] = Null
    BY <1>1, <1>2, <1>4, <2>3 DEF TypeOK
  <2> QED
    BY <1>1, <2>1, <2>2, <2>4 DEF TypeOK
<1>6. OperationsFit'
  BY <1>1 DEF OperationsFit, Idle
<1>7. Named'
  BY <1>1, <1>2, <1>3 DEF Named
<1>8. Belongs'
  BY <1>1, <1>2, <1>3, <1>4 DEF Belongs
<1> QED
  BY <1>2, <1>5, <1>6, <1>7, <1>8

-----------------------------------------------------------------------------
(* The invariant and what follows from it.                                 *)

LEMMA PointersNext == PInv /\ [Next]_vars => PInv'
<1> SUFFICES ASSUME PInv, [Next]_vars PROVE PInv'
  OBVIOUS
<1> USE DEF fields, natives
<1>1. ASSUME NEW p \in Parents, DropParent(p) \/ MakeParent(p)
      PROVE  PInv'
  <2>1. held' \subseteq Parents
    BY <1>1 DEF DropParent, MakeParent, PInv, TypeOK
  <2> QED
    BY <1>1, <2>1, HandlesKeepInv DEF DropParent, MakeParent
<1>2. ASSUME NEW s \in Slots, NEW n \in Natives, NEW p \in Parents, Create(s, n, p)
      PROVE  PInv'
  BY <1>2, CreateKeepsInv
<1>3. ASSUME NEW s \in Slots, NEW d \in Owned, SetUserData(s, d)
      PROVE  PInv'
  BY <1>3, SetUserDataKeepsInv
<1>4. ASSUME NEW s \in Slots, NEW t \in Slots, MoveConstruct(s, t)
      PROVE  PInv'
  BY <1>4, MoveConstructKeepsInv
<1>5. ASSUME NEW s \in Slots, NEW t \in Slots,
             MoveConstructNull(s, t) \/ MoveAssignNull(s, t)
      PROVE  PInv'
  <2>1. op' \in Operations /\ op'.name = "crashed" /\ op.name # "destroy"
    BY <1>5 DEF MoveConstructNull, MoveAssignNull, Operations, Idle, PInv, TypeOK
  <2>2. op.name = "assign" => m_ptr[op.to] = Null
    BY <1>5 DEF MoveConstructNull, MoveAssignNull, MovesNull, Idle
  <2> QED
    BY <1>5, <2>1, <2>2, EndedKeepsInv DEF MoveConstructNull, MoveAssignNull
<1>6. ASSUME NEW s \in Slots, NEW t \in Slots, MoveAssignBase(s, t)
      PROVE  PInv'
  BY <1>6, MoveAssignBaseKeepsInv
<1>7. ASSUME NEW s \in Slots, NEW t \in Slots, MoveAssignMembers(s, t)
      PROVE  PInv'
  BY <1>7, MoveAssignMembersKeepsInv
<1>8. ASSUME NEW s \in Slots, MoveAssignToItself(s)
      PROVE  PInv'
  <2>1. op' \in Operations /\ op' = Idle /\ op.name # "destroy"
    BY <1>8 DEF MoveAssignToItself, Operations, Idle
  <2>2. m_ptr[op.to] = Null
    BY <1>8 DEF MoveAssignToItself, PInv, OperationsFit
  <2> QED
    BY <1>8, <2>1, <2>2, EndedKeepsInv DEF MoveAssignToItself
<1>9. ASSUME NEW s \in Slots, Reset(s)
      PROVE  PInv'
  BY <1>9, ResetKeepsInv
<1>10. ASSUME NEW s \in Slots, DestroyMembers(s)
       PROVE  PInv'
  BY <1>10, DestroyMembersKeepsInv
<1>11. ASSUME NEW s \in Slots, DestroyBase(s)
       PROVE  PInv'
  BY <1>11, DestroyBaseKeepsInv
<1>12. CASE UNCHANGED vars
  BY <1>12, HandlesKeepInv DEF vars, PInv, TypeOK
<1> QED
  BY <1>1, <1>2, <1>3, <1>4, <1>5, <1>6, <1>7, <1>8, <1>9, <1>10, <1>11, <1>12
     DEF Next

\* The inductive invariant of the owning classes: besides the properties, who
\* holds the members of a resource in the middle of an assignment.
THEOREM PointersInvariance == Spec => []PInv
BY InitialPointers, PointersNext, PTL DEF Spec

\* All state keeps its type, and a variable out of use holds nothing.
THEOREM PointersTyped == Spec => []TypeOK
BY PointersInvariance, PTL DEF PInv

\* Every resource of WAMR has exactly one owner at every step.
THEOREM ResourcesOwnedOnce == Spec => []OneOwner
BY PointersInvariance, PTL DEF PInv

\* FromUserData never returns a moved-from or destroyed environment.
THEOREM UserDataIsCurrent == Spec => []UserDataNamesOwner
<1>1. PInv => UserDataNamesOwner
  <2> SUFFICES ASSUME PInv, kind = "env", op = Idle,
                      NEW s \in Slots, m_ptr[s] # Null
               PROVE  userData[m_ptr[s]] = s
    BY DEF UserDataNamesOwner
  <2> QED
    BY HolderOfItself DEF PInv, Named, Idle
<1> QED
  BY <1>1, PointersInvariance, PTL

\* Parent, bytes and user data follow the resource they belong to.
THEOREM MembersFollow == Spec => []MembersBelong
<1>1. PInv => MembersBelong
  <2> SUFFICES ASSUME PInv, op = Idle, NEW s \in Slots, m_ptr[s] # Null
               PROVE  /\ m_parent[s] = createdOn[m_ptr[s]]
                      /\ m_owned[s] = given[m_ptr[s]]
    BY DEF MembersBelong
  <2> QED
    BY HolderOfItself DEF PInv, Belongs, Idle
<1> QED
  BY <1>1, PointersInvariance, PTL

\* Only a destructor lets a resource outlive its parent, never an assignment.
THEOREM AssignmentsKeepOrder == Spec => []OrphanedByDestructorOnly
<1>1. PInv => OrphanedByDestructorOnly
  <2> SUFFICES ASSUME PInv, NEW n \in alive,
                      ~(op.name = "destroy" /\ m_ptr[op.to] = n)
               PROVE  /\ Referenced(createdOn[n])
                      /\ given[n] # Null => \E s \in Slots : m_owned[s] = given[n]
    BY DEF OrphanedByDestructorOnly
  <2>1. PICK s \in Slots : m_ptr[s] = n
    BY DEF PInv, OneOwner
  <2>2. n # Null
    BY NullAssumption DEF PInv, TypeOK
  <2>3. Holder(s) \in Slots
    BY DEF Holder, PInv, OperationsFit, TypeOK
  <2>4. m_parent[Holder(s)] = createdOn[n] /\ m_owned[Holder(s)] = given[n]
    BY <2>1, <2>2 DEF PInv, Belongs
  <2> QED
    BY <2>3, <2>4 DEF Referenced
<1> QED
  BY <1>1, PointersInvariance, PTL
=============================================================================
