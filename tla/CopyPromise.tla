---------------------------- MODULE CopyPromise ----------------------------
(***************************************************************************)
(* What the durable database copies of a capture promise its parents,      *)
(* without leases, claims, executors or faults.  A workflow collects its   *)
(* copy tasks while the capture drains, is sealed once, and from then on   *)
(* each task advances one batch at a time to a single final verdict.       *)
(* CopyTasks implements this specification.                                *)
(***************************************************************************)
EXTENDS Naturals

CONSTANTS
    Task,      \* CopyWorkTask rows
    Wf,        \* CopyWorkflow rows
    WfOf,      \* task.workflow_id
    Last,      \* tasks of a kind that waits for all others (CHAT_RENAME or CHAT_PRESENTATION)
    Batches    \* batches of a task's frozen manifest

VARIABLES
    stage,     \* workflow.state: "DRAINING", "WAITING", "CANCELLED" or "FAILED"
    copied,    \* batches of each task that are committed
    verdict    \* "OPEN", or the task's terminal state

vars == <<stage, copied, verdict>>

Init ==
    /\ stage = [w \in Wf |-> "DRAINING"]
    /\ copied = [t \in Task |-> 0]
    /\ verdict = [t \in Task |-> "OPEN"]

Seal(w) ==
    /\ stage[w] = "DRAINING"
    /\ stage' = [stage EXCEPT ![w] = "WAITING"]
    /\ UNCHANGED <<copied, verdict>>

\* A batch lands only in a sealed workflow, never twice, and a publication
\* batch only behind the verdicts of all its siblings.
Copy(t) ==
    /\ stage[WfOf[t]] = "WAITING"
    /\ verdict[t] = "OPEN"
    /\ t \in Last => \A u \in Task \ Last : WfOf[u] = WfOf[t] => verdict[u] # "OPEN"
    /\ copied' = [copied EXCEPT ![t] = @ + 1]
    /\ verdict' = [verdict EXCEPT ![t] = IF copied[t] + 1 = Batches[t] THEN "COMPLETED" ELSE @]
    /\ UNCHANGED stage

\* A task that gives up leaves its committed batches where they are.
GiveUp(t) ==
    /\ stage[WfOf[t]] = "WAITING"
    /\ verdict[t] = "OPEN"
    /\ \E v \in {"FAILED", "CANCELLED"} : verdict' = [verdict EXCEPT ![t] = v]
    /\ UNCHANGED <<stage, copied>>

\* Workflows are given up together with their open tasks: those of a cancelled
\* job at once, an abandoned one alone.
Cancel(ws) ==
    /\ \A w \in ws : stage[w] \in {"DRAINING", "WAITING"}
    /\ \E s \in {"CANCELLED", "FAILED"} : stage' = [w \in Wf |-> IF w \in ws THEN s ELSE stage[w]]
    /\ verdict' = [t \in Task |-> IF WfOf[t] \in ws /\ verdict[t] = "OPEN"
                                   THEN "CANCELLED" ELSE verdict[t]]
    /\ UNCHANGED copied

Next ==
    \/ \E w \in Wf : Seal(w)
    \/ \E ws \in SUBSET Wf : Cancel(ws)
    \/ \E t \in Task : Copy(t) \/ GiveUp(t)

Spec == Init /\ [][Next]_vars
=============================================================================
