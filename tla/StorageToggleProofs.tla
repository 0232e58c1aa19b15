------------------------- MODULE StorageToggleProofs -------------------------
(***************************************************************************)
(* An abort that claimed its toggle is final, and a toggle that drives the *)
(* cutover keeps the transition, for any number of toggles, backends and   *)
(* faults.                                                                 *)
(***************************************************************************)
EXTENDS StorageToggle, TLAPS

Draining == {"drain", "cut", "replace", "drained"}
Before == Draining \cup {"preflight", "draining"}
After == Driving \cup {"smokeback", "smokefail", "rollback", "fail", "open", "cool", "complete"}
Live == {"drain_completed", "db_promoted", "dns_flipped", "workers_restarted", "smoke_passed"}

\* A claim is never undone.
ClaimsKept == \A e \in claimed : ev[e].status = "aborted"

\* Only an inserted event has a message.
Inserted == \A e \in Event : queue[e] > 0 \/ e \in sending \/ wk.ev = e => ev[e].status \notin Absent

\* Before the end of the drain a toggle of a first delivery has not ended.
Waiting == wk.pc \in Before /\ wk.ev \notin reopened => ev[wk.ev].status \notin {"completed", "failed"}

\* After it, it is live, so that no other event's release can see it as ended.
Past == wk.pc \in After => ev[wk.ev].status \in Live

\* An abort on its way to its own release is of an event that has ended.
Pending == \A e \in api : e \notin reopened => ev[e].status \in Terminal

\* What the toggle put into system_config is still there.
Kept == wk.ev \notin reopened =>
    /\ wk.pc \in Draining => ev[wk.ev].status = "aborted" \/ sc.transition # "stable"
    /\ wk.pc \in {"promote", "dns", "workers", "cutover"} => sc.transition # "stable"
    /\ wk.pc \in {"activate", "smoke", "revert", "uncool"} => sc.transition = "flipping"

Carries == ClaimsKept /\ Inserted /\ Waiting /\ Past /\ Pending /\ Kept
IInv == TypeOK /\ Carries
-----------------------------------------------------------------------------
(***************************************************************************)
(* The inductive step: the types first, then what they leave.              *)
(***************************************************************************)
\* Every statement leaves rows, messages and worker well formed.
LEMMA TypeKept == TypeOK /\ [Next]_vars => TypeOK'
<1> SUFFICES ASSUME TypeOK, [Next]_vars PROVE TypeOK'
  OBVIOUS
<1> USE ToggleAssumption DEF TypeOK, Statuses, Pcs, Terminal, Absent, Transition, Status, Goto
<1>1. ASSUME NEW e \in Event, NEW b \in Backend, Submit(e, b) PROVE TypeOK'
  BY <1>1 DEF Submit
<1>2. ASSUME NEW e \in Event, SubmitInsert(e) PROVE TypeOK'
  BY <1>2 DEF SubmitInsert
<1>3. ASSUME NEW e \in Event, SubmitPublish(e) PROVE TypeOK'
  <2>1. queue' \in [Event -> Nat]
    BY <1>3 DEF SubmitPublish, Fault
  <2>2. slip' \in BOOLEAN
    BY <1>3, ZenonT(40) DEF SubmitPublish, Fault
  <2>3. faults' \in 0..MaxFault
    BY <1>3 DEF SubmitPublish, Fault
  <2>4. UNCHANGED <<sc, ev, api, claimed, reopened, job>> /\ sending' \subseteq Event
    BY <1>3 DEF SubmitPublish, Fault
  <2>5. UNCHANGED wk
    BY <1>3 DEF SubmitPublish, Fault
  <2> QED
    BY <2>1, <2>2, <2>3, <2>4, <2>5
<1>4. ASSUME NEW e \in Event, Abort(e) PROVE TypeOK'
  <2>1. CASE ev[e].status = "started"
    BY <1>4, <2>1 DEF Abort
  <2>2. CASE ev[e].status # "started"
    BY <1>4, <2>2 DEF Abort
  <2> QED
    BY <2>1, <2>2
<1>5. ASSUME NEW e \in Event, AbortRelease(e) PROVE TypeOK'
  BY <1>5 DEF AbortRelease, Release, NoOther
<1>6. ASSUME NEW e \in Event, Consume(e) PROVE TypeOK'
  <2>1. queue' \in [Event -> Nat]
    BY <1>6 DEF Consume
  <2>2. wk' = [pc |-> "check", ev |-> e, held |-> TRUE, rows |-> {}, cut |-> None]
    BY <1>6, ZenonT(40) DEF Consume, Idle
  <2>3. UNCHANGED <<sc, ev, sending, api, claimed, reopened, job, slip, faults>>
    BY <1>6 DEF Consume
  <2> QED
    BY <2>1, <2>2, <2>3
<1>7. CASE Check
  BY <1>7 DEF Check
<1>8. CASE Preflight
  BY <1>8 DEF Preflight
<1>9. CASE PreflightFailed
  BY <1>9 DEF PreflightFailed
<1>10. CASE StandDown
  BY <1>10 DEF StandDown, Release, NoOther
<1>11. CASE BeginDrain
  BY <1>11 DEF BeginDrain
<1>12. CASE Drain
  <2>1. CASE wk' = [wk EXCEPT !.pc = "undrain"] /\ ev[wk.ev].status = "aborted"
    BY <1>12, <2>1 DEF Drain
  <2>2. CASE wk' = [wk EXCEPT !.pc = "drained"]
    BY <1>12, <2>2 DEF Drain
  <2>3. CASE wk' = [wk EXCEPT !.pc = "cut", !.rows = LiveJobs]
    BY <1>12, <2>3, ZenonT(40) DEF Drain, LiveJobs
  <2> QED
    BY <1>12, <2>1, <2>2, <2>3 DEF Drain
<1>13. CASE CutStraggler
  <2>1. CASE wk' = [wk EXCEPT !.pc = "drained"] /\ UNCHANGED job
    BY <1>13, <2>1, ZenonT(40) DEF CutStraggler
  <2>2. ASSUME NEW j \in wk.rows, job' = [job EXCEPT ![j] = "CANCELLED"],
               wk' = [wk EXCEPT !.pc = "replace", !.rows = @ \ {j}, !.cut = j]
        PROVE TypeOK'
    BY <1>13, <2>2, ZenonT(40) DEF CutStraggler
  <2> QED
    BY <1>13, <2>1, <2>2, ZenonT(40) DEF CutStraggler
<1>14. CASE ReplaceStraggler
  BY <1>14, ZenonT(40) DEF ReplaceStraggler
<1>15. CASE Drained
  BY <1>15 DEF Drained
<1>16. CASE Undrain
  BY <1>16 DEF Undrain
<1>17. CASE Phases
  <2>1. CASE Phase("promote", "db_promoted", "dns")
    BY <1>17, <2>1 DEF Phase
  <2>2. CASE Phase("dns", "dns_flipped", "workers")
    BY <1>17, <2>2 DEF Phase
  <2>3. CASE Phase("workers", "workers_restarted", "cutover")
    BY <1>17, <2>3 DEF Phase
  <2> QED
    BY <1>17, <2>1, <2>2, <2>3 DEF Phases
<1>18. CASE Cutover
  BY <1>18 DEF Cutover
<1>19. CASE SetActive
  BY <1>19 DEF SetActive
<1>20. CASE Smoke
  BY <1>20 DEF Smoke
<1>21. CASE Revert
  BY <1>21 DEF Revert
<1>22. CASE ClearCooldown
  BY <1>22, ZenonT(40) DEF ClearCooldown
<1>23. CASE Rollback
  BY <1>23 DEF Rollback
<1>24. CASE Fail
  BY <1>24 DEF Fail
<1>25. CASE Open
  <2>1. ev' \in [Event -> [status : Statuses, from : Backend, to : Backend]]
    BY <1>25 DEF Open
  <2>2. sc' \in [active : Backend, transition : {"stable", "draining", "flipping"}, cool : BOOLEAN]
    BY <1>25, ZenonT(40) DEF Open
  <2>3. \E pc \in {"cool", "complete", "ack"} : wk' = [wk EXCEPT !.pc = pc] /\ wk.pc # "idle"
    BY <1>25 DEF Open
  <2> QED
    BY <1>25, <2>1, <2>2, <2>3 DEF Open
<1>26. CASE Ack
  BY <1>26 DEF Ack, Idle
<1>27. CASE Error
  BY <1>27 DEF Error, Fault
<1>28. CASE Crash
  BY <1>28 DEF Crash, Idle, Fault
<1>29. CASE ConnectionLost
  <2>1. queue' \in [Event -> Nat]
    BY <1>29 DEF ConnectionLost, Fault
  <2>2. slip' \in BOOLEAN
    BY <1>29 DEF ConnectionLost, Fault
  <2>3. faults' \in 0..MaxFault
    BY <1>29 DEF ConnectionLost, Fault
  <2>4. UNCHANGED <<sc, ev, api, claimed, reopened, job>> /\ sending' \subseteq Event
    BY <1>29 DEF ConnectionLost, Fault
  <2>5. wk' = [wk EXCEPT !.held = FALSE]
    BY <1>29 DEF ConnectionLost, Fault
  <2> QED
    BY <2>1, <2>2, <2>3, <2>4, <2>5, ZenonT(40)
<1>30. CASE CooldownElapses
  BY <1>30, ZenonT(40) DEF CooldownElapses
<1>31. ASSUME NEW j \in Job, JobRuns(j) PROVE TypeOK'
  BY <1>31 DEF JobRuns
<1>32. CASE UNCHANGED vars
  BY <1>32 DEF vars
<1> QED
  BY ZenonT(40), <1>1, <1>2, <1>3, <1>4, <1>5, <1>6, <1>7, <1>8, <1>9, <1>10, <1>11, <1>12, <1>13,
     <1>14, <1>15, <1>16, <1>17, <1>18, <1>19, <1>20, <1>21, <1>22, <1>23, <1>24, <1>25,
     <1>26, <1>27, <1>28, <1>29, <1>30, <1>31, <1>32 DEF Next, RunToggle

\* Claims are kept, a toggle between its drain and its end stays live, and the
\* transition it set stays: a release needs every other event to have ended,
\* and one of the toggle's own event is not on its way.
LEMMA StepKept == IInv /\ [Next]_vars => Carries'
<1> SUFFICES ASSUME IInv, [Next]_vars PROVE Carries'
  OBVIOUS
<1> USE ToggleAssumption DEF IInv, Carries, TypeOK, Statuses, Pcs, Terminal, Absent, Transition, Status, Goto,
        ClaimsKept, Inserted, Waiting, Past, Pending, Kept, Draining, Before, After, Live, Driving
<1>1. ASSUME NEW e \in Event, NEW b \in Backend, Submit(e, b) PROVE Carries'
  BY <1>1 DEF Submit
<1>2. ASSUME NEW e \in Event, SubmitInsert(e) PROVE Carries'
  BY <1>2 DEF SubmitInsert
<1>3. ASSUME NEW e \in Event, SubmitPublish(e) PROVE Carries'
  BY <1>3 DEF SubmitPublish, Fault
<1>4. ASSUME NEW e \in Event, Abort(e) PROVE Carries'
  BY <1>4 DEF Abort
<1>5. ASSUME NEW e \in Event, AbortRelease(e) PROVE Carries'
  BY <1>5 DEF AbortRelease, Release, NoOther
<1>6. ASSUME NEW e \in Event, Consume(e) PROVE Carries'
  BY <1>6 DEF Consume, Idle
<1>7. CASE Check
  BY <1>7 DEF Check
<1>8. CASE Preflight
  BY <1>8 DEF Preflight
<1>9. CASE PreflightFailed
  BY <1>9 DEF PreflightFailed
<1>10. CASE StandDown
  BY <1>10 DEF StandDown, Release, NoOther
<1>11. CASE BeginDrain
  BY <1>11 DEF BeginDrain
<1>12. CASE Drain
  <2>1. CASE wk' = [wk EXCEPT !.pc = "undrain"] /\ ev[wk.ev].status = "aborted"
    BY <1>12, <2>1 DEF Drain
  <2>2. CASE wk' = [wk EXCEPT !.pc = "drained"]
    BY <1>12, <2>2 DEF Drain
  <2>3. CASE wk' = [wk EXCEPT !.pc = "cut", !.rows = LiveJobs]
    BY <1>12, <2>3 DEF Drain
  <2> QED
    BY <1>12, <2>1, <2>2, <2>3 DEF Drain
<1>13. CASE CutStraggler
  <2>1. CASE wk' = [wk EXCEPT !.pc = "drained"] /\ UNCHANGED job
    BY <1>13, <2>1, ZenonT(40) DEF CutStraggler
  <2>2. ASSUME NEW j \in wk.rows, job' = [job EXCEPT ![j] = "CANCELLED"],
               wk' = [wk EXCEPT !.pc = "replace", !.rows = @ \ {j}, !.cut = j]
        PROVE Carries'
    <3>1. UNCHANGED <<sc, ev, sending, queue, api, claimed, reopened>> /\ wk.pc = "cut"
      BY <1>13, ZenonT(40) DEF CutStraggler
    <3> QED
      BY <2>2, <3>1, SMTT(30)
  <2> QED
    BY <1>13, <2>1, <2>2, ZenonT(40) DEF CutStraggler
<1>14. CASE ReplaceStraggler
  BY <1>14 DEF ReplaceStraggler
<1>15. CASE Drained
  BY <1>15, SMTT(30) DEF Drained
<1>16. CASE Undrain
  BY <1>16 DEF Undrain
<1>17. CASE Phases
  <2>1. CASE Phase("promote", "db_promoted", "dns")
    BY <1>17, <2>1 DEF Phase
  <2>2. CASE Phase("dns", "dns_flipped", "workers")
    BY <1>17, <2>2 DEF Phase
  <2>3. CASE Phase("workers", "workers_restarted", "cutover")
    BY <1>17, <2>3 DEF Phase
  <2> QED
    BY <1>17, <2>1, <2>2, <2>3 DEF Phases
<1>18. CASE Cutover
  BY <1>18 DEF Cutover
<1>19. CASE SetActive
  BY <1>19 DEF SetActive
<1>20. CASE Smoke
  BY <1>20 DEF Smoke
<1>21. CASE Revert
  BY <1>21 DEF Revert
<1>22. CASE ClearCooldown
  BY <1>22 DEF ClearCooldown
<1>23. CASE Rollback
  BY <1>23 DEF Rollback
<1>24. CASE Fail
  BY <1>24 DEF Fail
<1>25. CASE Open
  BY <1>25, SMTT(30) DEF Open
<1>26. CASE Ack
  BY <1>26 DEF Ack, Idle
<1>27. CASE Error
  BY <1>27 DEF Error, Fault
<1>28. CASE Crash
  BY <1>28 DEF Crash, Idle, Fault
<1>29. CASE ConnectionLost
  BY <1>29 DEF ConnectionLost, Fault
<1>30. CASE CooldownElapses
  BY <1>30 DEF CooldownElapses
<1>31. ASSUME NEW j \in Job, JobRuns(j) PROVE Carries'
  BY <1>31 DEF JobRuns
<1>32. CASE UNCHANGED vars
  BY <1>32 DEF vars
<1> QED
  BY ZenonT(40), <1>1, <1>2, <1>3, <1>4, <1>5, <1>6, <1>7, <1>8, <1>9, <1>10, <1>11, <1>12, <1>13,
     <1>14, <1>15, <1>16, <1>17, <1>18, <1>19, <1>20, <1>21, <1>22, <1>23, <1>24, <1>25,
     <1>26, <1>27, <1>28, <1>29, <1>30, <1>31, <1>32 DEF Next, RunToggle

\* An idle worker, a stable transition and no event.
LEMMA Initially == Init => IInv
<1> SUFFICES ASSUME Init PROVE IInv
  OBVIOUS
<1>1. sc \in [active : Backend, transition : {"stable", "draining", "flipping"}, cool : BOOLEAN]
  BY ToggleAssumption DEF Init
<1>2. ev \in [Event -> [status : Statuses, from : Backend, to : Backend]]
  BY ToggleAssumption DEF Init, Statuses
<1>3. wk \in [pc : Pcs, ev : Event \cup {None}, held : BOOLEAN, rows : SUBSET Job, cut : Job \cup {None}]
  BY DEF Init, Idle, Pcs
<1>4. faults \in 0..MaxFault
  BY ToggleAssumption DEF Init
<1>5. queue \in [Event -> Nat] /\ job \in [Job -> {"NONE", "LIVE", "CANCELLED", "RETRY", "DONE"}]
  BY DEF Init
<1>6. TypeOK
  BY <1>1, <1>2, <1>3, <1>4, <1>5, ZenonT(40) DEF Init, Idle, TypeOK
<1>7. Inserted
  BY ToggleAssumption DEF Init, Idle, Inserted
<1> QED
  BY <1>6, <1>7 DEF Init, Idle, IInv, Carries, ClaimsKept, Waiting, Past, Pending, Kept, Draining,
     Before, After, Driving
-----------------------------------------------------------------------------
\* The invariant holds throughout every run of the endpoints and the worker.
THEOREM ToggleInvariance == Spec => []IInv
<1>1. IInv /\ [Next]_vars => IInv'
  BY TypeKept, StepKept DEF IInv
<1> QED
  BY Initially, <1>1, PTL DEF Spec

\* The rows, the messages and the worker of run_toggle stay well formed.
THEOREM ToggleTypes == Spec => []TypeOK
<1>1. IInv => TypeOK
  BY DEF IInv
<1> QED
  BY ToggleInvariance, <1>1, PTL

\* No toggle that abort_toggle claimed is driven past the drain by run_toggle.
THEOREM AbortSafe == Spec => []AbortWins
<1>1. IInv => AbortWins
  BY DEF IInv, Carries, TypeOK, ClaimsKept, Past, AbortWins, After, Live, Driving
<1> QED
  BY ToggleInvariance, <1>1, PTL

\* Neither abort_toggle nor a redelivery takes the transition from a running
\* toggle.
THEOREM FenceSafe == Spec => []Fenced
<1>1. IInv => Fenced
  BY DEF IInv, Carries, Kept, Fenced, Driving
<1> QED
  BY ToggleInvariance, <1>1, PTL

\* _set_active writes only under 'flipping', on the way out and on the way back.
THEOREM CutoverSafe == Spec => CutoverFenced
<1>1. IInv /\ [Next]_vars => [sc'.active # sc.active => sc.transition = "flipping" \/ wk.ev \in reopened]_vars
  <2> SUFFICES ASSUME IInv, Next, sc'.active # sc.active, wk.ev \notin reopened
               PROVE  sc.transition = "flipping"
    OBVIOUS
  <2>1. SetActive \/ Revert
    BY ZenonT(40) DEF IInv, TypeOK, Next, RunToggle, Submit, SubmitInsert, SubmitPublish, Abort, AbortRelease, Consume,
       Check, Preflight, PreflightFailed, StandDown, BeginDrain, Drain, CutStraggler, ReplaceStraggler,
       Drained, Undrain, Phases, Phase, Cutover, Smoke, ClearCooldown, Rollback, Fail, Open, Ack, Error,
       Crash, ConnectionLost, CooldownElapses, JobRuns, Release, Transition
  <2> QED
    BY <2>1 DEF IInv, Carries, Kept, SetActive, Revert
<1> QED
  BY ToggleInvariance, <1>1, PTL DEF Spec, CutoverFenced
=============================================================================
