---------------------------- MODULE StorageToggle ----------------------------
(***************************************************************************)
(* Moving the deployment to another storage backend: the submit and abort  *)
(* endpoints of api-gateway/routes/admin_storage.py, the consumer of       *)
(* services/storage_toggle_worker and its eight-phase run_toggle, with the *)
(* drain of the running jobs.                                              *)
(*                                                                         *)
(* Every statement commits by itself, so every statement is a step.  The   *)
(* advisory lock lets one worker run at a time; a standby takes over when  *)
(* it dies, and the broker delivers its message again.                     *)
(***************************************************************************)
EXTENDS Naturals

CONSTANTS
    Event,      \* storage_toggle_events ids
    Backend,    \* storage_backends rows that are enabled
    Job,        \* jobs; a job and the retries that replace it are one
    First,      \* the active backend at the start
    None,
    MaxFault    \* bound on crashes, lost connections and swallowed errors

ASSUME ToggleAssumption == First \in Backend /\ None \notin Event \cup Job /\ MaxFault \in Nat

VARIABLES
    sc,         \* the system_config row; cool: cooldown_until is in the future
    ev,         \* storage_toggle_events rows; "none" and "checked" are not inserted yet
    sending,    \* inserted events whose message is not published yet
    queue,      \* messages of each event that wait in storage.toggle
    api,        \* per event: an abort that still has its release to make
    claimed,    \* history: events the abort endpoint claimed
    reopened,   \* history: toggles that were run again after they had ended
    job,        \* "NONE", "LIVE", "CANCELLED", "RETRY" (live again, in a new row) or "DONE"
    wk,         \* the worker
    slip,       \* history: a failure was swallowed
    faults

vars == <<sc, ev, sending, queue, api, claimed, reopened, job, wk, slip, faults>>

\* run_toggle between two deliveries: its message, and the rows of the
\* drain that are still to be cut.
Idle == [pc |-> "idle", ev |-> None, held |-> FALSE, rows |-> {}, cut |-> None]

Init ==
    /\ sc = [active |-> First, transition |-> "stable", cool |-> FALSE]
    /\ ev = [e \in Event |-> [status |-> "none", from |-> First, to |-> First]]
    /\ queue = [e \in Event |-> 0]
    /\ sending = {} /\ api = {} /\ claimed = {} /\ reopened = {}
    /\ job = [j \in Job |-> "NONE"]
    /\ wk = Idle
    /\ slip = FALSE /\ faults = 0

Terminal == {"completed", "failed", "aborted"}
Absent == {"none", "checked"}
Fault == faults < MaxFault /\ faults' = faults + 1
Transition(state) == sc' = [sc EXCEPT !.transition = state]
Status(e, status) == ev' = [ev EXCEPT ![e].status = status]
Goto(pc) == wk' = [wk EXCEPT !.pc = pc]

\* Mutant: the live statuses are listed, and the list is too short.
MutListed(e) == \A x \in Event \ {e} : ev[x].status \notin {"started", "drain_started", "smoke_passed"}

\* No other toggle is live.
NoOther(e) == \A x \in Event \ {e} : ev[x].status \in Absent \cup Terminal

\* _release_transition_if_dirty and _release_transition_if_no_live_toggle.
Release(e) == sc' = IF NoOther(e) THEN [sc EXCEPT !.transition = "stable"] ELSE sc
-----------------------------------------------------------------------------
(***************************************************************************)
(* The endpoints.                                                          *)
(***************************************************************************)
\* submit_toggle reads, inserts and publishes; it may fail before the last.
Submit(e, b) ==
    /\ ev[e].status = "none"
    /\ sc.transition = "stable" /\ ~sc.cool /\ sc.active # b
    /\ ev' = [ev EXCEPT ![e] = [status |-> "checked", from |-> sc.active, to |-> b]]
    /\ UNCHANGED <<sc, sending, queue, api, claimed, reopened, job, wk, slip, faults>>

SubmitInsert(e) ==
    /\ ev[e].status = "checked"
    /\ Status(e, "started") /\ sending' = sending \cup {e}
    /\ UNCHANGED <<sc, queue, api, claimed, reopened, job, wk, slip, faults>>

SubmitPublish(e) ==
    /\ e \in sending /\ sending' = sending \ {e}
    /\ \/ queue' = [queue EXCEPT ![e] = @ + 1] /\ UNCHANGED <<slip, faults>>
       \/ Fault /\ slip' = TRUE /\ UNCHANGED queue
    /\ UNCHANGED <<sc, ev, api, claimed, reopened, job, wk>>

\* abort_toggle claims the event if the drain is not over, and goes on to the
\* release then, and also when the event had ended already.
Abort(e) ==
    /\ ev[e].status \in {"started"} \cup Terminal
    /\ IF ev[e].status = "started" THEN Status(e, "aborted") /\ claimed' = claimed \cup {e}
       ELSE UNCHANGED <<ev, claimed>>
    /\ api' = api \cup {e}
    /\ UNCHANGED <<sc, sending, queue, reopened, job, wk, slip, faults>>

AbortRelease(e) ==
    /\ e \in api
    /\ api' = api \ {e}
    /\ Release(e)
    /\ UNCHANGED <<ev, sending, queue, claimed, reopened, job, wk, slip, faults>>
-----------------------------------------------------------------------------
(***************************************************************************)
(* run_toggle.                                                             *)
(***************************************************************************)
Consume(e) ==
    /\ wk.pc = "idle" /\ queue[e] > 0
    /\ queue' = [queue EXCEPT ![e] = @ - 1]
    /\ wk' = [Idle EXCEPT !.pc = "check", !.ev = e, !.held = TRUE]
    /\ UNCHANGED <<sc, ev, sending, api, claimed, reopened, job, slip, faults>>

\* An aborted toggle is stood down; any other status starts from preflight.
Check ==
    /\ wk.pc = "check"
    /\ Goto(IF ev[wk.ev].status = "aborted" THEN "standdown" ELSE "preflight")
    /\ reopened' = IF ev[wk.ev].status \in {"completed", "failed"} THEN reopened \cup {wk.ev} ELSE reopened
    /\ UNCHANGED <<sc, ev, sending, queue, api, claimed, job, slip, faults>>

\* The probes of the target may fail as well.
Preflight ==
    /\ wk.pc = "preflight"
    /\ \E reachable \in BOOLEAN :
          wk' = [wk EXCEPT !.pc = IF sc.transition = "stable" /\ ~sc.cool /\ reachable
                                  THEN "draining" ELSE "refused"]
    /\ UNCHANGED <<sc, ev, sending, queue, api, claimed, reopened, job, slip, faults>>

\* Mutant: a refused toggle does not release what a dead worker left behind.
MutRefusedReturns ==
    /\ wk.pc = "refused"
    /\ Status(wk.ev, "aborted") /\ Goto("ack")
    /\ UNCHANGED <<sc, sending, queue, api, claimed, reopened, job, slip, faults>>

PreflightFailed ==
    /\ wk.pc = "refused"
    /\ Status(wk.ev, "aborted") /\ Goto("standdown")
    /\ UNCHANGED <<sc, sending, queue, api, claimed, reopened, job, slip, faults>>

StandDown ==
    /\ wk.pc = "standdown"
    /\ Release(wk.ev) /\ Goto("ack")
    /\ UNCHANGED <<ev, sending, queue, api, claimed, reopened, job, slip, faults>>

BeginDrain ==
    /\ wk.pc = "draining"
    /\ Transition("draining") /\ Goto("drain")
    /\ UNCHANGED <<ev, sending, queue, api, claimed, reopened, job, slip, faults>>

\* drain_inflight reads the status, then the live jobs, until a deadline; an
\* abort that commits after the first read is left to the end of the drain.
LiveJobs == {j \in Job : job[j] \in {"LIVE", "RETRY"}}
Drain ==
    /\ wk.pc = "drain"
    /\ \/ ev[wk.ev].status = "aborted" /\ Goto("undrain")
       \/ LiveJobs = {} /\ Goto("drained")
       \/ wk' = [wk EXCEPT !.pc = "cut", !.rows = LiveJobs]
    /\ UNCHANGED <<sc, ev, sending, queue, api, claimed, reopened, job, slip, faults>>

\* Each straggler is cancelled, whatever became of it since, and replaced.
CutStraggler ==
    /\ wk.pc = "cut"
    /\ \/ wk.rows = {} /\ Goto("drained") /\ UNCHANGED job
       \/ \E j \in wk.rows : /\ job' = [job EXCEPT ![j] = "CANCELLED"]
                             /\ wk' = [wk EXCEPT !.pc = "replace", !.rows = @ \ {j}, !.cut = j]
    /\ UNCHANGED <<sc, ev, sending, queue, api, claimed, reopened, slip, faults>>

ReplaceStraggler ==
    /\ wk.pc = "replace"
    /\ job' = [job EXCEPT ![wk.cut] = "RETRY"]
    /\ wk' = [wk EXCEPT !.pc = "cut", !.cut = None]
    /\ UNCHANGED <<sc, ev, sending, queue, api, claimed, reopened, slip, faults>>

\* Mutant: the end of the drain overwrites an abort.
MutClobbersAbort ==
    /\ wk.pc = "drained"
    /\ Status(wk.ev, "drain_completed") /\ Goto("promote")
    /\ UNCHANGED <<sc, sending, queue, api, claimed, reopened, job, slip, faults>>

Drained ==
    /\ wk.pc = "drained"
    /\ IF ev[wk.ev].status = "aborted" THEN Goto("undrain") /\ UNCHANGED ev
       ELSE Status(wk.ev, "drain_completed") /\ Goto("promote")
    /\ UNCHANGED <<sc, sending, queue, api, claimed, reopened, job, slip, faults>>

Undrain ==
    /\ wk.pc = "undrain"
    /\ Transition("stable") /\ Goto("ack")
    /\ UNCHANGED <<ev, sending, queue, api, claimed, reopened, job, slip, faults>>

\* Phases 3 to 5 (promote_target, flip_dns_to, restart_workers).
Phase(pc, status, next) ==
    /\ wk.pc = pc
    /\ \/ Status(wk.ev, status) /\ Goto(next)
       \/ Goto("rollback") /\ UNCHANGED ev
    /\ UNCHANGED <<sc, sending, queue, api, claimed, reopened, job, slip, faults>>
Phases == \/ Phase("promote", "db_promoted", "dns")
          \/ Phase("dns", "dns_flipped", "workers")
          \/ Phase("workers", "workers_restarted", "cutover")

\* Mutant: the active backend moves before the transition says so.
MutCutoverFirst ==
    /\ wk.pc = "cutover"
    /\ sc' = [sc EXCEPT !.active = ev[wk.ev].to] /\ Goto("activate")
    /\ UNCHANGED <<ev, sending, queue, api, claimed, reopened, job, slip, faults>>

Cutover ==
    /\ wk.pc = "cutover"
    /\ Transition("flipping") /\ Goto("activate")
    /\ UNCHANGED <<ev, sending, queue, api, claimed, reopened, job, slip, faults>>

SetActive ==
    /\ wk.pc = "activate"
    /\ sc' = [sc EXCEPT !.active = ev[wk.ev].to] /\ Goto("smoke")
    /\ UNCHANGED <<ev, sending, queue, api, claimed, reopened, job, slip, faults>>

Smoke ==
    /\ wk.pc = "smoke"
    /\ \/ Status(wk.ev, "smoke_passed") /\ Goto("open")
       \/ Goto("revert") /\ UNCHANGED ev
    /\ UNCHANGED <<sc, sending, queue, api, claimed, reopened, job, slip, faults>>

\* A failed smoke test reverts the cutover, clears the cooldown, rolls back.
Revert ==
    /\ wk.pc = "revert"
    /\ sc' = [sc EXCEPT !.active = ev[wk.ev].from] /\ Goto("uncool")
    /\ UNCHANGED <<ev, sending, queue, api, claimed, reopened, job, slip, faults>>

ClearCooldown ==
    /\ wk.pc = "uncool"
    /\ sc' = [sc EXCEPT !.cool = FALSE] /\ Goto("smokeback")
    /\ UNCHANGED <<ev, sending, queue, api, claimed, reopened, job, slip, faults>>

\* rollback, of phases 3 to 5 or of the smoke test.
Rollback ==
    /\ wk.pc \in {"rollback", "smokeback"}
    /\ Transition("stable") /\ Goto(IF wk.pc = "rollback" THEN "fail" ELSE "smokefail")
    /\ UNCHANGED <<ev, sending, queue, api, claimed, reopened, job, slip, faults>>

Fail ==
    /\ wk.pc \in {"fail", "smokefail"}
    /\ Status(wk.ev, "failed") /\ Goto("ack")
    /\ UNCHANGED <<sc, sending, queue, api, claimed, reopened, job, slip, faults>>

Open ==
    /\ \/ wk.pc = "open" /\ Transition("stable") /\ Goto("cool") /\ UNCHANGED ev
       \/ wk.pc = "cool" /\ sc' = [sc EXCEPT !.cool = TRUE] /\ Goto("complete") /\ UNCHANGED ev
       \/ wk.pc = "complete" /\ Status(wk.ev, "completed") /\ Goto("ack") /\ UNCHANGED sc
    /\ UNCHANGED <<sending, queue, api, claimed, reopened, job, slip, faults>>

\* Mutant: the worker keeps the last event.
MutAckKeepsEvent ==
    /\ wk.pc = "ack"
    /\ Goto("idle")
    /\ UNCHANGED <<sc, ev, sending, queue, api, claimed, reopened, job, slip, faults>>

Ack ==
    /\ wk.pc = "ack"
    /\ wk' = Idle
    /\ UNCHANGED <<sc, ev, sending, queue, api, claimed, reopened, job, slip, faults>>
-----------------------------------------------------------------------------
(***************************************************************************)
(* Faults, and the jobs.                                                   *)
(***************************************************************************)
\* A statement raises.  The handler of the smoke test goes on; elsewhere
\* consume logs the exception and acknowledges the message.
Error ==
    /\ wk.pc \notin {"idle", "ack", "promote", "dns", "workers", "smoke"}
    /\ Fault /\ slip' = TRUE
    /\ IF wk.pc \in {"smokeback", "smokefail"} THEN Status(wk.ev, "failed") \/ UNCHANGED ev
       ELSE UNCHANGED ev
    /\ Goto(IF wk.pc = "revert" THEN "uncool" ELSE IF wk.pc = "uncool" THEN "smokeback" ELSE "ack")
    /\ UNCHANGED <<sc, sending, queue, api, claimed, reopened, job>>

\* The worker dies; its message is delivered again.
Crash ==
    /\ wk.pc # "idle" /\ Fault
    /\ queue' = IF wk.held THEN [queue EXCEPT ![wk.ev] = @ + 1] ELSE queue
    /\ wk' = Idle
    /\ UNCHANGED <<sc, ev, sending, api, claimed, reopened, job, slip>>

\* The broker loses the connection under a running toggle.
ConnectionLost ==
    /\ wk.held /\ Fault
    /\ queue' = [queue EXCEPT ![wk.ev] = @ + 1]
    /\ wk' = [wk EXCEPT !.held = FALSE]
    /\ UNCHANGED <<sc, ev, sending, api, claimed, reopened, job, slip>>

CooldownElapses ==
    /\ sc.cool /\ sc' = [sc EXCEPT !.cool = FALSE]
    /\ UNCHANGED <<ev, sending, queue, api, claimed, reopened, job, wk, slip, faults>>

\* Jobs start and end at any time; their services do not look at the toggle.
JobRuns(j) ==
    /\ \/ job[j] = "NONE" /\ job' = [job EXCEPT ![j] = "LIVE"]
       \/ job[j] \in {"LIVE", "RETRY"} /\ job' = [job EXCEPT ![j] = "DONE"]
    /\ UNCHANGED <<sc, ev, sending, queue, api, claimed, reopened, wk, slip, faults>>

RunToggle == Check \/ Preflight \/ PreflightFailed \/ StandDown \/ BeginDrain \/ Drain \/ CutStraggler
             \/ ReplaceStraggler \/ Drained \/ Undrain \/ Phases \/ Cutover \/ SetActive \/ Smoke
             \/ Revert \/ ClearCooldown \/ Rollback \/ Fail \/ Open \/ Ack

Next ==
    \/ \E e \in Event : \/ \E b \in Backend : Submit(e, b)
                        \/ SubmitInsert(e) \/ SubmitPublish(e) \/ Abort(e) \/ AbortRelease(e) \/ Consume(e)
    \/ RunToggle
    \/ Error \/ Crash \/ ConnectionLost \/ CooldownElapses
    \/ \E j \in Job : JobRuns(j)

Spec == Init /\ [][Next]_vars

\* A request that inserted its event goes on to publish it, a worker is up
\* again after a crash, and run_toggle goes on.  Nobody has to press abort.
FairSpec ==
    /\ Spec
    /\ \A e \in Event : WF_vars(SubmitPublish(e))
    /\ WF_vars(RunToggle) /\ WF_vars(\E e \in Event : Consume(e))
-----------------------------------------------------------------------------
Statuses == {"none", "checked", "started", "drain_completed", "db_promoted", "dns_flipped",
             "workers_restarted", "smoke_passed"} \cup Terminal
Pcs == {"idle", "check", "preflight", "refused", "standdown", "draining", "drain", "cut", "replace", "drained",
        "undrain", "promote", "dns", "workers", "cutover", "activate", "smoke", "revert", "uncool",
        "smokeback", "smokefail", "rollback", "fail", "open", "cool", "complete", "ack"}
TypeOK ==
    /\ sc \in [active : Backend, transition : {"stable", "draining", "flipping"}, cool : BOOLEAN]
    /\ ev \in [Event -> [status : Statuses, from : Backend, to : Backend]]
    /\ queue \in [Event -> Nat]
    /\ sending \subseteq Event /\ api \subseteq Event /\ claimed \subseteq Event /\ reopened \subseteq Event
    /\ job \in [Job -> {"NONE", "LIVE", "CANCELLED", "RETRY", "DONE"}]
    /\ wk \in [pc : Pcs, ev : Event \cup {None}, held : BOOLEAN, rows : SUBSET Job, cut : Job \cup {None}]
    /\ wk.pc = "idle" <=> wk.ev = None
    /\ wk.held => wk.pc # "idle"
    /\ wk.pc = "replace" => wk.cut \in Job
    /\ slip \in BOOLEAN /\ faults \in 0..MaxFault

Driving == {"promote", "dns", "workers", "cutover", "activate", "smoke", "revert", "uncool"}

\* A toggle the operator aborted is never driven past the drain: whichever of
\* the abort's claim and the end of the drain commits first decides, on every
\* delivery of its message (abort_toggle: "a successful claim means no
\* promotion can follow").
AbortWins == wk.pc \in Driving => wk.ev \notin claimed

\* Nobody takes the transition from the toggle that drives it: not an abort of
\* another event, nor of an ended one, nor a redelivery.  (A toggle that had
\* ended and is delivered again is exposed: an abort of it that answered before
\* the delivery may still have its release to make.)
Fenced == wk.pc \in Driving /\ wk.ev \notin reopened => sc.transition # "stable"

\* The active backend moves, at the cutover and at its reversal, only while
\* router.get_active_store refuses writes; the same exception applies.
CutoverFenced == [][sc'.active # sc.active => sc.transition = "flipping" \/ wk.ev \in reopened]_vars

\* Whatever crashed, was delivered twice or aborted, writes are admitted again
\* in the end, unless an exception or a publication was swallowed.
Unblocks == (sc.transition # "stable") ~> (sc.transition = "stable" \/ slip)
=============================================================================
