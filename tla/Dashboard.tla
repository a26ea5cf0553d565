------------------------------ MODULE Dashboard ------------------------------
(****************************************************************************)
(* The dashboard of one task (the row of task_states) and the agents that   *)
(* share it: "state get", "state put" and "state patch".  A patch names the *)
(* revision it expects, is merged onto the stored fields under the lock     *)
(* that init_db took, and is refused if the revision has moved.             *)
(*                                                                          *)
(* Each command is one step: the writing commands hold SQLite's lock from   *)
(* init_db to commit (module TransitionSessions), and get is one SELECT.    *)
(* What lies between the commands of an agent is the agent's own time: it   *)
(* reads, decides on a patch, sends it, and may have to send it again       *)
(* because the answer was lost.                                             *)
(****************************************************************************)
EXTENDS Naturals

CONSTANTS
  Clients,      \* agents that work on the task
  Fields,       \* the columns of a dashboard that a patch may name
  Values,       \* what a column may hold, in its canonical form
  Empty,        \* the empty string, [] or NULL
  StepField,    \* current_step, the one column that may not be empty
  MaxRevision,  \* bound: no patch is sent for this revision
  NoPlan        \* the agent has decided on nothing

Content == [Fields -> Values]

\* The JSON object of a patch: any set of columns, each with a new value.
Patches == UNION {[D -> Values] : D \in SUBSET Fields}

ASSUME DashboardAssumption ==
  /\ StepField \in Fields
  /\ Empty \in Values
  /\ NoPlan \notin Patches
  /\ MaxRevision \in Nat

VARIABLES
  rev, content,  \* the row; revision 0 stands for no row, its content for nothing
  view,          \* what each agent knows of the row from the last answer it got
  plan,          \* the patch an agent has decided on, looking at its view
  applied        \* how often an agent's last plan has been written (history)

vars == <<rev, content, view, plan, applied>>

NoContent == [f \in Fields |-> Empty]

Init ==
  /\ rev = 0 /\ content = NoContent
  /\ view = [c \in Clients |-> [rev |-> 0, content |-> NoContent]]
  /\ plan = [c \in Clients |-> NoPlan]
  /\ applied = [c \in Clients |-> 0]

-------------------------------------------------------------------------------
\* merged.update(patch)
Merge(old, p) ==
  [f \in Fields |-> IF f \in DOMAIN p THEN p[f] ELSE old[f]]

\* validate_state_payload: current_step is required.
Acceptable(new) == new[StepField] # Empty

\* The answer of a command carries the whole row.
Learn(c) == view' = [view EXCEPT ![c] = [rev |-> rev', content |-> content']]

\* A new answer is a new start: what was planned before is dropped.
Forget(c) ==
  /\ plan' = [plan EXCEPT ![c] = NoPlan]
  /\ applied' = [applied EXCEPT ![c] = 0]

\* state get
StateGet(c) ==
  /\ rev > 0
  /\ UNCHANGED <<rev, content>>
  /\ Learn(c) /\ Forget(c)

\* The row is inserted with revision 1, or there is one and the command fails.
Insert(new) ==
  /\ rev = 0
  /\ Acceptable(new)
  /\ rev' = 1 /\ content' = new

\* Mutant: the patch is validated on its own, before it is merged.
UpdateUnchecked(expected, p) ==
  /\ rev > 0 /\ expected = rev
  /\ rev' = rev + 1
  /\ content' = Merge(content, p)

\* Mutant: the columns are written, the revision is not counted up.
UpdateSameRevision(expected, p) ==
  /\ rev > 0
  /\ Acceptable(Merge(content, p))
  /\ expected = rev /\ rev' = rev
  /\ content' = Merge(content, p)

\* Mutant: WHERE task_id = ?, without the revision.
UpdateAnyRevision(expected, p) ==
  /\ rev > 0
  /\ Acceptable(Merge(content, p))
  /\ expected \in Nat /\ rev < MaxRevision
  /\ rev' = rev + 1
  /\ content' = Merge(content, p)

\* UPDATE ... SET revision = revision + 1 ... WHERE revision = expected
Update(expected, p) ==
  /\ rev > 0
  /\ Acceptable(Merge(content, p))
  /\ expected = rev
  /\ rev' = rev + 1
  /\ content' = Merge(content, p)

\* state put: the agent gets the answer, or the answer is lost.
StatePut(c, new) ==
  /\ Insert(new)
  /\ \/ Learn(c) /\ Forget(c)
     \/ UNCHANGED <<view, plan, applied>>

\* An agent decides on a patch of the row it knows.
Decide(c, p) ==
  /\ plan[c] = NoPlan
  /\ view[c].rev \in 1..(MaxRevision - 1)
  /\ plan' = [plan EXCEPT ![c] = p]
  /\ applied' = [applied EXCEPT ![c] = 0]
  /\ UNCHANGED <<rev, content, view>>

\* state patch --expected-revision with the revision of the agent's view.  When
\* the answer is lost the agent still has its plan, and may send it again.
StatePatch(c) ==
  /\ plan[c] # NoPlan
  /\ Update(view[c].rev, plan[c])
  /\ applied' = [applied EXCEPT ![c] = @ + 1]
  /\ \/ Learn(c) /\ plan' = [plan EXCEPT ![c] = NoPlan]
     \/ UNCHANGED <<view, plan>>

\* A patch whose expected revision is a guess, or comes from somewhere else.
BlindPatch(expected, p) ==
  /\ expected < MaxRevision
  /\ Update(expected, p)
  /\ UNCHANGED <<view, plan, applied>>

Next ==
  \/ \E c \in Clients :
       \/ StateGet(c) \/ StatePatch(c)
       \/ \E new \in Content : StatePut(c, new)
       \/ \E p \in Patches : Decide(c, p)
  \/ \E expected \in 1..MaxRevision, p \in Patches : BlindPatch(expected, p)

Spec == Init /\ [][Next]_vars

-------------------------------------------------------------------------------
(* Properties                                                               *)

Views == [rev : Nat, content : Content]

\* The variables keep their types, and a stored dashboard has a current_step.
TypeOK ==
  /\ rev \in Nat /\ content \in Content
  /\ rev > 0 => Acceptable(content)
  /\ view \in [Clients -> Views]
  /\ plan \in [Clients -> Patches \cup {NoPlan}]
  /\ applied \in [Clients -> Nat]

\* A revision names one content for ever: agents that know the same revision
\* know the same dashboard, and an agent that knows the current revision knows
\* the current dashboard (what makes expected_revision a sound guard).
RevisionIdentifiesContent ==
  \A c \in Clients :
    /\ view[c].rev <= rev
    /\ view[c].rev = rev => view[c].content = content
    /\ \A d \in Clients :
         view[c].rev = view[d].rev => view[c].content = view[d].content

\* A patch that is sent again after a lost answer is not written twice.
AppliedAtMostOnce == \A c \in Clients : applied[c] <= 1

\* No lost update: what a patch writes is the agent's own fields on top of
\* exactly the dashboard the agent had read, so nobody's write since then is
\* silently overwritten (state.feature, concurrent patch conflict).
NoLostUpdate ==
  [][\A c \in Clients :
       applied'[c] > applied[c] => content' = Merge(view[c].content, plan[c])]_vars
=============================================================================
