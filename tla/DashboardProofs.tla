---------------------------- MODULE DashboardProofs ----------------------------
(****************************************************************************)
(* The optimistic lock of the dashboard is sound for any number of agents,  *)
(* any columns and any values.                                              *)
(****************************************************************************)
EXTENDS Dashboard, TLAPS

LEMMA MergeType ==
  ASSUME NEW old \in Content, NEW p \in Patches
  PROVE  Merge(old, p) \in Content
  <1>1. PICK D \in SUBSET Fields : p \in [D -> Values]
    BY DEF Patches
  <1>2. \A f \in DOMAIN p : p[f] \in Values
    BY <1>1
  <1> QED BY <1>2 DEF Merge, Content

\* A row is written over another only by Insert and Update; afterwards the
\* revision is new, so no agent's view can name it.
LEMMA WriteType ==
  ASSUME TypeOK,
         \/ \E new \in Content : Insert(new)
         \/ \E expected \in Nat, p \in Patches : Update(expected, p)
  PROVE  /\ rev' = rev + 1 /\ content' \in Content /\ Acceptable(content')
         /\ rev' \in Nat
  BY MergeType DEF TypeOK, Insert, Update

\* A plan that has been written waits for an answer that was lost, and its
\* agent's view is older than the row: sending the plan again will fail.
PlanIsSpent ==
  \A c \in Clients :
    /\ applied[c] <= 1
    /\ plan[c] # NoPlan /\ applied[c] = 1 => view[c].rev < rev

IInv == TypeOK /\ RevisionIdentifiesContent /\ PlanIsSpent

LEMMA InvInitially == Init => IInv
  BY DashboardAssumption
     DEF Init, IInv, TypeOK, RevisionIdentifiesContent, PlanIsSpent, NoContent,
         Content, Views

LEMMA InvStep == IInv /\ [Next]_vars => IInv'
  <1> SUFFICES ASSUME IInv, [Next]_vars PROVE IInv'
    OBVIOUS
  <1> USE DEF IInv, RevisionIdentifiesContent, PlanIsSpent
  <1>1. ASSUME NEW c \in Clients, StateGet(c)
        PROVE  IInv'
    <2>1. UNCHANGED <<rev, content>>
      BY <1>1 DEF StateGet
    <2>2. TypeOK'
      BY <1>1 DEF StateGet, TypeOK, Learn, Forget, Views, Acceptable
    <2>3. RevisionIdentifiesContent' /\ PlanIsSpent'
      BY <1>1, <2>1 DEF StateGet, TypeOK, Learn, Forget, Views
    <2> QED BY <2>2, <2>3
  <1>2. ASSUME NEW c \in Clients, NEW new \in Content, StatePut(c, new)
        PROVE  IInv'
    <2>1. /\ rev' = rev + 1 /\ content' \in Content /\ Acceptable(content')
          /\ rev' \in Nat
      BY <1>2, WriteType DEF StatePut
    <2>2. CASE Learn(c) /\ Forget(c)
      BY <2>1, <2>2 DEF TypeOK, Learn, Forget, Views, Acceptable
    <2>3. CASE UNCHANGED <<view, plan, applied>>
      BY <2>1, <2>3 DEF TypeOK, Views, Acceptable
    <2> QED BY <1>2, <2>2, <2>3 DEF StatePut
  <1>3. ASSUME NEW c \in Clients, NEW p \in Patches, Decide(c, p)
        PROVE  IInv'
    BY <1>3 DEF Decide, TypeOK, Views, Acceptable
  <1>4. ASSUME NEW c \in Clients, StatePatch(c)
        PROVE  IInv'
    <2>1. plan[c] \in Patches /\ view[c].rev \in Nat
      BY <1>4 DEF StatePatch, TypeOK, Views
    <2>2. /\ rev' = rev + 1 /\ content' \in Content /\ Acceptable(content')
          /\ rev' \in Nat /\ view[c].rev = rev
      BY <1>4, <2>1, WriteType DEF StatePatch, Update
    <2>a. applied \in [Clients -> Nat] /\ plan[c] # NoPlan
      BY <1>4 DEF StatePatch, TypeOK
    <2>b. applied[c] = 0
      BY <2>a, <2>2 DEF TypeOK
    <2>3. applied' = [applied EXCEPT ![c] = 1]
      BY <1>4, <2>a, <2>b DEF StatePatch
    <2>4. CASE Learn(c) /\ plan' = [plan EXCEPT ![c] = NoPlan]
      BY <2>2, <2>3, <2>4 DEF TypeOK, Learn, Views, Acceptable
    <2>5. CASE UNCHANGED <<view, plan>>
      BY <2>2, <2>3, <2>5 DEF TypeOK, Views, Acceptable
    <2> QED BY <1>4, <2>4, <2>5 DEF StatePatch
  <1>5. ASSUME NEW expected \in 1..MaxRevision, NEW p \in Patches,
               BlindPatch(expected, p)
        PROVE  IInv'
    <2>1. /\ rev' = rev + 1 /\ content' \in Content /\ Acceptable(content')
          /\ rev' \in Nat
      BY <1>5, WriteType DEF BlindPatch
    <2> QED BY <1>5, <2>1 DEF BlindPatch, TypeOK, Views, Acceptable
  <1>6. CASE UNCHANGED vars
    BY <1>6 DEF vars, TypeOK, Acceptable
  <1> QED BY <1>1, <1>2, <1>3, <1>4, <1>5, <1>6 DEF Next

\* The row, what the agents saw and what they plan keep their types, for any agents.
THEOREM TypeCorrect == Spec => []TypeOK
  <1>1. IInv => TypeOK
    BY DEF IInv
  <1> QED BY <1>1, InvInitially, InvStep, PTL DEF Spec

\* The revision of a dashboard identifies its content, for any agents.
THEOREM RevisionIsIdentity == Spec => []RevisionIdentifiesContent
  <1>1. IInv => RevisionIdentifiesContent
    BY DEF IInv
  <1> QED BY <1>1, InvInitially, InvStep, PTL DEF Spec

\* A patch is written at most once, however often it is sent.
THEOREM RetryIsHarmless == Spec => []AppliedAtMostOnce
  <1>1. IInv => AppliedAtMostOnce
    BY DEF IInv, PlanIsSpent, AppliedAtMostOnce
  <1> QED BY <1>1, InvInitially, InvStep, PTL DEF Spec

\* No update is lost: a patch is merged onto the very dashboard its agent read.
THEOREM NoUpdateIsLost == Spec => NoLostUpdate
  <1>1. ASSUME IInv, [Next]_vars
        PROVE  [\A c \in Clients : applied'[c] > applied[c] =>
                  content' = Merge(view[c].content, plan[c])]_vars
    <2> SUFFICES ASSUME NEW c \in Clients, applied'[c] > applied[c]
                 PROVE  content' = Merge(view[c].content, plan[c])
      OBVIOUS
    <2>0. applied \in [Clients -> Nat]
      BY <1>1 DEF IInv, TypeOK
    <2>1. ASSUME NEW d \in Clients,
                 applied' = [applied EXCEPT ![d] = 0] \/ UNCHANGED applied
          PROVE  FALSE
      BY <2>0, <2>1
    <2>2. UNCHANGED vars => FALSE
      BY <2>1 DEF vars
    <2>3. \E d \in Clients : StatePatch(d)
      BY <1>1, <2>1, <2>2
         DEF Next, StateGet, StatePut, Decide, BlindPatch, Forget
    <2>4. StatePatch(c)
      <3>1. PICK d \in Clients : StatePatch(d)
        BY <2>3
      <3>2. applied' = [applied EXCEPT ![d] = applied[d] + 1]
        BY <3>1 DEF StatePatch
      <3>3. c = d
        BY <2>0, <3>2
      <3> QED BY <3>1, <3>3
    <2> QED BY <1>1, <2>4
            DEF IInv, RevisionIdentifiesContent, StatePatch, Update
  <1> QED BY <1>1, InvInitially, InvStep, PTL DEF Spec, NoLostUpdate
=============================================================================
