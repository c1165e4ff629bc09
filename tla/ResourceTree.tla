---------------------------- MODULE ResourceTree ----------------------------
(***************************************************************************)
(* What the native resources of WAMR promise to a program that keeps one   *)
(* runtime, one module, one instance and one environment: each is created  *)
(* on one that exists, each is the only one of its kind, and none is       *)
(* destroyed below another.  RunnerScope implements it.                    *)
(***************************************************************************)
CONSTANTS
  Places,   \* where resources may be
  NoPlace   \* where none is

VARIABLE
  open      \* the resources that exist

Below == [module |-> "runtime", instance |-> "module", env |-> "instance"]

Init == open = {}

\* The resource r is a runtime, or is created on one that exists.
Grounded(r) ==
  \/ r.kind = "runtime" /\ r.on = NoPlace
  \/ /\ r.kind \in DOMAIN Below
     /\ \E q \in open : q.place = r.on /\ q.kind = Below[r.kind]

Acquire(r) ==
  /\ Grounded(r)
  /\ \A q \in open : q.place # r.place /\ q.kind # r.kind
  /\ open' = open \cup {r}

Release(r) ==
  /\ r \in open
  /\ \A q \in open : q.on # r.place
  /\ open' = open \ {r}

Resources ==
  [place : Places, kind : {"runtime"} \cup DOMAIN Below, on : Places \cup {NoPlace}]

Next == \E r \in Resources : Acquire(r) \/ Release(r)

Spec == Init /\ [][Next]_open
=============================================================================
