-------------------------- MODULE CopyTasksSteps --------------------------
(***************************************************************************)
(* The inductive invariant of CopyTasks, and that every action keeps it.   *)
(***************************************************************************)
EXTENDS CopyTasks, WellFoundedInduction, TLAPS

Row == [state : Terminal \cup {"READY", "RUNNING"}, holder : Slot \cup {None}, owner : Proc \cup {None},
        live : BOOLEAN, attempts : Nat, failures : Nat, cp : Nat, waited : Nat, due : BOOLEAN]
Turn == [pc : {"idle", "claimed", "executing", "settle", "orphan"}, task : Task \cup {None}, iter : Nat,
         plan : {"none", "release", "spend", "fail"}, ran : BOOLEAN]
Book == [ran : Nat, back : Nat]

Typed ==
    /\ wf \in [Wf -> {"DRAINING", "WAITING", "CANCELLED", "FAILED"}]
    /\ parent \in [Wf -> {"ACTIVE", "CANCELLED", "ENDED"}]
    /\ task \in [Task -> Row] /\ slot \in [Slot -> Turn] /\ book \in [Task -> Book]
    /\ \A s \in Slot : slot[s].pc # "idle" => slot[s].task \in Task

\* A row by itself, with its history: completed exactly at its last batch, live
\* only while claimed, and every execution paid for by a reservation.
GoodRow(n, r, b) ==
    /\ r.cp <= n /\ (r.cp = n <=> r.state = "COMPLETED")
    /\ r.live => r.state = "RUNNING"
    /\ b.ran <= r.attempts + b.back
    /\ b.ran <= 3 + b.back
RowInv == \A t \in Task : GoodRow(Batches[t], task[t], book[t])

\* A claim that has not executed yet still has its own reservation.
Unspent(s, r, b) == r.state = "RUNNING" /\ r.holder = s => b.ran + 1 <= r.attempts + b.back
ClaimInv ==
    \A s \in Slot : slot[s].pc # "idle" /\ ~slot[s].ran
        => Unspent(s, task[slot[s].task], book[slot[s].task])

\* The barrier a claim of a publication passed stays passed.
Behind(t, rows) == \A u \in Task \ Last : WfOf[u] = WfOf[t] => rows[u].state \in Terminal
LastInv == \A t \in Task \cap Last : task[t].state = "RUNNING" => Behind(t, task)

OpenInv == \A w \in Wf : parent[w] = "ACTIVE" => wf[w] \in {"DRAINING", "WAITING"}

IInv == Typed /\ RowInv /\ ClaimInv /\ LastInv /\ OpenInv /\ ExecutorOwns
-----------------------------------------------------------------------------
(* The operators of the model. *)

\* A nonempty set of naturals has a least element.
LEMMA HasLeast ==
    ASSUME NEW S \in SUBSET Nat, S # {}
    PROVE  \E x \in S : \A y \in S : x <= y
  <1> DEFINE R == OpToRel(<, Nat)
  <1>1. IsWellFoundedOn(R, Nat)
    BY NatLessThanWellFounded, ZenonT(40)
  <1>5. \A m, n \in Nat : m < n => <<m, n>> \in R
    BY DEF OpToRel
  <1> HIDE DEF R
  <1>2. \E x \in S : \A y \in S : ~(<<y, x>> \in R)
    BY <1>1, WFMin, ZenonT(40)
  <1>3. PICK x \in S : \A y \in S : ~(<<y, x>> \in R)
    BY <1>2
  <1>4. \A y \in S : x <= y
    <2> TAKE y \in S
    <2>1. x \in Nat /\ y \in Nat /\ ~(<<y, x>> \in R)
      BY <1>3
    <2>2. ~(y < x)
      BY <2>1, <1>5
    <2> QED
      BY <2>1, <2>2
  <1> QED
    BY <1>4

LEMMA LeastIn ==
    ASSUME NEW S \in SUBSET Nat, S # {}
    PROVE  LeastOf(S) \in S
  BY HasLeast, ZenonT(40) DEF LeastOf

LEMMA LeastLow ==
    ASSUME NEW S \in SUBSET Nat, NEW n \in S
    PROVE  LeastOf(S) \in Nat /\ LeastOf(S) <= n
  <1>1. LeastOf(S) \in S /\ \A y \in S : LeastOf(S) <= y
    BY HasLeast, ZenonT(40) DEF LeastOf
  <1> QED
    BY <1>1, ZenonT(40)

\* claim: a row past its wait ceiling fails, any other is reserved.
LEMMA ClaimedRow ==
    ASSUME NEW r \in Row, NEW s \in Slot, NEW n \in Nat
    PROVE  LET c == Claimed(r, s, n)
           IN  /\ c \in Row /\ c.cp = r.cp
               /\ \/ c.state = "FAILED" /\ c.live = r.live /\ c.attempts = r.attempts
                  \/ /\ c.state = "RUNNING" /\ c.holder = s /\ c.owner = ProcOf[s]
                     /\ c.attempts = r.attempts + 1
  <1> DEFINE w == IF r.state = "READY" THEN LeastOf({r.waited + n, WaitMax}) ELSE r.waited
  <1>1. w \in Nat
    <2>1. r.waited \in Nat /\ r.waited + n \in Nat /\ WaitMax \in Nat
      BY Placement DEF Row
    <2>2. LeastOf({r.waited + n, WaitMax}) \in {r.waited + n, WaitMax}
      BY <2>1, LeastIn
    <2> QED
      BY <2>1, <2>2
  <1>2. ProcOf[s] \in Proc
    BY Placement
  <1>3. Claimed(r, s, n) =
            IF WaitMax > 0 /\ w >= WaitMax
            THEN [r EXCEPT !.state = "FAILED", !.waited = w]
            ELSE [r EXCEPT !.state = "RUNNING", !.holder = s, !.owner = ProcOf[s], !.live = TRUE,
                           !.attempts = @ + 1, !.waited = w]
    BY DEF Claimed
  <1> HIDE DEF w
  <1>4. CASE WaitMax > 0 /\ w >= WaitMax
    <2> DEFINE c == [r EXCEPT !.state = "FAILED", !.waited = w]
    <2>1. c \in Row
      BY <1>1, ZenonT(40) DEF Row, Terminal
    <2>2. c.cp = r.cp /\ c.state = "FAILED" /\ c.live = r.live /\ c.attempts = r.attempts
      BY DEF Row
    <2> QED
      BY <1>3, <1>4, <2>1, <2>2
  <1>5. CASE ~(WaitMax > 0 /\ w >= WaitMax)
    <2> DEFINE a == [r EXCEPT !.state = "RUNNING", !.holder = s, !.owner = ProcOf[s]]
               more == r.attempts + 1
               c == [r EXCEPT !.state = "RUNNING", !.holder = s, !.owner = ProcOf[s], !.live = TRUE,
                              !.attempts = @ + 1, !.waited = w]
    <2>5. more \in Nat
      BY DEF Row
    <2>1. a \in Row /\ a.attempts = r.attempts
      BY <1>2, ZenonT(40) DEF Row, Terminal
    <2>2. c = [a EXCEPT !.live = TRUE, !.attempts = more, !.waited = w]
      BY DEF Row
    <2>3. c \in Row
      <3> HIDE DEF a, c, more
      <3> QED
        BY <1>1, <2>1, <2>2, <2>5, ZenonT(40) DEF Row
    <2>4. c.cp = r.cp /\ c.state = "RUNNING" /\ c.holder = s /\ c.owner = ProcOf[s]
          /\ c.attempts = r.attempts + 1
      BY DEF Row
    <2> QED
      BY <1>3, <1>5, <2>3, <2>4, ZenonT(40)
  <1> QED
    BY <1>4, <1>5

\* run_batch's commit.
CommitsTo(r, done, keep, c) ==
    /\ c \in Row /\ c.cp = r.cp + 1
    /\ \/ done /\ c.state = "COMPLETED" /\ ~c.live
       \/ /\ ~done /\ keep /\ c.state = r.state /\ c.holder = r.holder
          /\ c.owner = r.owner /\ c.live = r.live /\ c.attempts = 1
       \/ ~done /\ ~keep /\ c.state = "READY" /\ ~c.live

LEMMA CommittedRow ==
    ASSUME NEW r \in Row, NEW done \in BOOLEAN, NEW keep \in BOOLEAN
    PROVE  CommitsTo(r, done, keep, Committed(r, done, keep))
  <1> USE DEF CommitsTo
  <1> DEFINE moved == [r EXCEPT !.cp = @ + 1, !.failures = 0, !.attempts = 0]
             freed == [moved EXCEPT !.holder = None, !.owner = None, !.live = FALSE, !.due = TRUE]
  <1>1. /\ moved \in Row /\ moved.cp = r.cp + 1 /\ moved.state = r.state
        /\ moved.holder = r.holder /\ moved.owner = r.owner /\ moved.live = r.live
    <2> DEFINE more == r.cp + 1
    <2>1. more \in Nat /\ 0 \in Nat
      BY DEF Row
    <2>2. moved = [r EXCEPT !.cp = more, !.failures = 0, !.attempts = 0]
      BY DEF Row
    <2>3. more = r.cp + 1
      OBVIOUS
    <2> HIDE DEF more, moved
    <2>4. moved \in Row
      BY <2>1, <2>2, ZenonT(40) DEF Row
    <2> QED
      BY <2>2, <2>3, <2>4 DEF Row
  <1> HIDE DEF moved
  <1>2. freed \in Row /\ freed.cp = r.cp + 1 /\ freed.live = FALSE
    BY <1>1, ZenonT(40) DEF Row
  <1> HIDE DEF freed
  <1>3. Committed(r, done, keep) = IF done THEN [freed EXCEPT !.state = "COMPLETED"]
                                   ELSE IF keep THEN [moved EXCEPT !.attempts = 1]
                                   ELSE [freed EXCEPT !.state = "READY"]
    BY DEF Committed, moved, freed
  <1>4. CASE done
    BY <1>2, <1>3, <1>4 DEF Row, Terminal
  <1>5. CASE ~done /\ keep
    BY <1>1, <1>3, <1>5 DEF Row
  <1>6. CASE ~done /\ ~keep
    BY <1>2, <1>3, <1>6 DEF Row
  <1> QED
    BY <1>4, <1>5, <1>6

\* _settle_once: what a settled row keeps of the claimed one.
SettlesTo(r, plan, c) ==
    /\ c \in Row /\ c.cp = r.cp /\ ~c.live
    /\ c.state \in {"READY", "FAILED", "CANCELLED"}
    /\ \/ c.attempts = r.attempts
       \/ plan = "release" /\ c.attempts = Monus(r.attempts, 1)

LEMMA SettledRow ==
    ASSUME NEW r \in Row, NEW plan, NEW p, NEW n \in Nat
    PROVE  SettlesTo(r, plan, Settled(r, plan, p, n))
  <1> USE DEF SettlesTo
  <1> DEFINE f == IF plan = "spend" THEN Larger(r.failures, r.attempts - 1) + 1 ELSE r.failures
             w == LeastOf({r.waited + n, WaitMax})
             a == IF plan = "release" THEN Monus(r.attempts, 1) ELSE r.attempts
             st == IF f >= 3 \/ (WaitMax > 0 /\ w >= WaitMax) THEN "FAILED" ELSE "READY"
             freed == [r EXCEPT !.holder = None, !.owner = None, !.live = FALSE]
  <1>1. w \in Nat
    <2>1. r.waited + n \in Nat /\ WaitMax \in Nat
      BY Placement DEF Row
    <2> QED
      BY <2>1, LeastIn
  <1>2. f \in Nat
    BY DEF Row, Larger
  <1>3. a \in Nat
    BY DEF Row, Monus
  <1>4. freed \in Row /\ freed.cp = r.cp /\ freed.live = FALSE /\ freed.attempts = r.attempts
    BY ZenonT(40) DEF Row
  <1>5. Settled(r, plan, p, n) =
            CASE p = "CANCELLED" -> [freed EXCEPT !.state = "CANCELLED"]
              [] p = "ENDED" \/ (p # "CANCELLED" /\ plan = "fail") -> [freed EXCEPT !.state = "FAILED"]
              [] OTHER -> [freed EXCEPT !.state = st, !.failures = f, !.attempts = a,
                                        !.waited = w, !.due = FALSE]
    BY <1>4 DEF Settled
  <1>6. st \in {"FAILED", "READY"} /\ (a = r.attempts \/ (plan = "release" /\ a = Monus(r.attempts, 1)))
    OBVIOUS
  <1> HIDE DEF w, f, a, st, freed
  <1>7. CASE p = "CANCELLED"
    BY <1>4, <1>5, <1>7 DEF Row, Terminal
  <1>8. CASE p # "CANCELLED" /\ (p = "ENDED" \/ plan = "fail")
    BY <1>4, <1>5, <1>8 DEF Row, Terminal
  <1>9. CASE p # "CANCELLED" /\ ~(p = "ENDED" \/ plan = "fail")
    <2> DEFINE b == [freed EXCEPT !.state = st, !.failures = f]
               c == [b EXCEPT !.attempts = a, !.waited = w, !.due = FALSE]
    <2>1. b \in Row /\ b.cp = r.cp /\ b.live = FALSE /\ b.state = st
      BY <1>2, <1>4, <1>6, ZenonT(40) DEF Row, Terminal
    <2>2. Settled(r, plan, p, n) = c
      BY <1>4, <1>5, <1>9 DEF Row
    <2> HIDE DEF b
    <2>3. c \in Row /\ c.cp = r.cp /\ c.live = FALSE /\ c.state = st /\ c.attempts = a
      BY <1>1, <1>3, <2>1, ZenonT(40) DEF Row
    <2> QED
      BY <1>6, <2>2, <2>3
  <1> QED
    BY <1>7, <1>8, <1>9
-----------------------------------------------------------------------------
(* Three ways a step leaves the invariant alone. *)

\* A slot that goes idle, or on with the same claim but not into a batch.
Quiet(a, b) ==
    \/ b = a
    \/ b = Idle
    \/ /\ a.pc # "idle" /\ b.pc \in {"claimed", "settle", "orphan"}
       /\ b.task = a.task /\ b.ran = a.ran

\* Steps of the slots alone.
LEMMA QuietSlots ==
    ASSUME IInv, UNCHANGED <<wf, parent, task, book>>,
           slot' \in [Slot -> Turn], \A s \in Slot : Quiet(slot[s], slot'[s])
    PROVE  IInv'
  <1>1. \A s \in Slot : slot'[s].pc # "idle" =>
            slot[s].pc # "idle" /\ slot'[s].task = slot[s].task /\ slot'[s].ran = slot[s].ran
    BY DEF Quiet, Idle
  <1>2. \A s \in Slot : slot'[s].pc = "executing" => slot'[s] = slot[s]
    BY DEF Quiet, Idle
  <1>3. Typed'
    BY <1>1 DEF IInv, Typed
  <1>4. RowInv' /\ LastInv' /\ OpenInv'
    BY DEF IInv, RowInv, LastInv, OpenInv, Behind, GoodRow
  <1>5. ClaimInv'
    BY <1>1 DEF IInv, ClaimInv, Unspent
  <1>6. ExecutorOwns'
    BY <1>2 DEF IInv, ExecutorOwns, Owned
  <1> QED
    BY <1>3, <1>4, <1>5, <1>6 DEF IInv

\* How the slots may move when the row t becomes r, with the history b.
Follows(s, t, r, b) ==
    slot'[s].pc # "idle" =>
        /\ slot'[s].task \in Task
        /\ slot'[s].task = t /\ ~slot'[s].ran => Unspent(s, r, b)
        /\ slot'[s].task # t => Quiet(slot[s], slot'[s])
        /\ slot'[s].pc = "executing" =>
              /\ slot'[s] = slot[s]
              /\ slot[s].task = t => r.state = "RUNNING" /\ r.holder = s /\ r.owner = ProcOf[s]

\* Steps that write one row.
LEMMA OneRow ==
    ASSUME IInv, UNCHANGED <<wf, parent>>,
           NEW t \in Task, NEW r \in Row, NEW b \in Book,
           task' = [task EXCEPT ![t] = r], book' = [book EXCEPT ![t] = b],
           GoodRow(Batches[t], r, b),
           task[t].state \in Terminal => r.state \in Terminal,
           t \in Last /\ r.state = "RUNNING" => Behind(t, task),
           slot' \in [Slot -> Turn], \A s \in Slot : Follows(s, t, r, b)
    PROVE  IInv'
  <1>1. task'[t] = r /\ book'[t] = b
        /\ \A u \in Task \ {t} : task'[u] = task[u] /\ book'[u] = book[u]
    BY DEF IInv, Typed
  <1>2. Typed'
    BY DEF IInv, Typed, Follows
  <1>3. RowInv'
    BY <1>1 DEF IInv, RowInv
  <1>4. ClaimInv'
    <2> SUFFICES ASSUME NEW s \in Slot, slot'[s].pc # "idle", ~slot'[s].ran
                 PROVE  Unspent(s, task'[slot'[s].task], book'[slot'[s].task])
      BY DEF ClaimInv, Unspent
    <2>1. CASE slot'[s].task = t
      BY <1>1, <2>1 DEF Follows
    <2>2. CASE slot'[s].task # t
      <3>1. slot[s].pc # "idle" /\ slot[s].task = slot'[s].task /\ ~slot[s].ran
        BY <2>2 DEF Follows, Quiet, Idle
      <3>2. task'[slot'[s].task] = task[slot[s].task] /\ book'[slot'[s].task] = book[slot[s].task]
        BY <1>1, <2>2, <3>1 DEF Follows
      <3> QED
        BY <3>1, <3>2 DEF IInv, ClaimInv
    <2> QED
      BY <2>1, <2>2
  <1>5. \A u \in Task : task[u].state \in Terminal => task'[u].state \in Terminal
    BY <1>1
  <1>6. LastInv'
    <2> SUFFICES ASSUME NEW v \in Task \cap Last, task'[v].state = "RUNNING"
                 PROVE  Behind(v, task)
      BY <1>5 DEF LastInv, Behind
    <2> QED
      BY <1>1 DEF IInv, LastInv
  <1>7. OpenInv'
    BY DEF IInv, OpenInv
  <1>8. ExecutorOwns'
    <2> SUFFICES ASSUME NEW s \in Slot, slot'[s].pc = "executing"
                 PROVE  Owned(s)'
      BY DEF ExecutorOwns
    <2>1. slot'[s] = slot[s] /\ slot[s].task \in Task /\ Owned(s)
      BY DEF IInv, ExecutorOwns, Typed, Follows
    <2> QED
      BY <1>1, <2>1 DEF Owned, Follows
  <1> QED
    BY <1>2, <1>3, <1>4, <1>6, <1>7, <1>8 DEF IInv

\* Workflows given up with their open tasks, none of which is in a batch.
LEMMA GivenUp ==
    ASSUME IInv, NEW ws \in SUBSET Wf,
           \A w \in ws : ~WorkflowLocked(w),
           task' = Cancelled(ws), UNCHANGED <<slot, book>>,
           wf' \in [Wf -> {"DRAINING", "WAITING", "CANCELLED", "FAILED"}],
           parent' \in [Wf -> {"ACTIVE", "CANCELLED", "ENDED"}],
           \A w \in Wf \ ws : wf'[w] = wf[w] /\ parent'[w] = parent[w],
           \A w \in ws : parent'[w] # "ACTIVE"
    PROVE  IInv'
  <1>1. \A u \in Task : WfOf[u] \notin ws => task'[u] = task[u]
    BY ZenonT(40) DEF Cancelled
  <1>2. \A u \in Task :
            \/ task'[u] = task[u]
            \/ /\ task[u].state \notin Terminal
               /\ task'[u] \in Row /\ task'[u].state = "CANCELLED" /\ task'[u].live = FALSE
               /\ task'[u].cp = task[u].cp /\ task'[u].attempts = task[u].attempts
    <2> SUFFICES ASSUME NEW u \in Task
                 PROVE  \/ task'[u] = task[u]
                        \/ /\ task[u].state \notin Terminal
                           /\ task'[u] \in Row /\ task'[u].state = "CANCELLED" /\ task'[u].live = FALSE
                           /\ task'[u].cp = task[u].cp /\ task'[u].attempts = task[u].attempts
      BY ZenonT(40)
    <2>1. CASE WfOf[u] \in ws /\ task[u].state \notin Terminal
      <3>1. task'[u] = [task[u] EXCEPT !.state = "CANCELLED", !.holder = None, !.owner = None, !.live = FALSE]
        BY <2>1, ZenonT(40) DEF Cancelled
      <3>2. task[u] \in Row
        BY DEF IInv, Typed
      <3> QED
        BY <2>1, <3>1, <3>2, ZenonT(40) DEF Row, Terminal
    <2>2. CASE ~(WfOf[u] \in ws /\ task[u].state \notin Terminal)
      BY <2>2, ZenonT(40) DEF Cancelled
    <2> QED
      BY <2>1, <2>2, ZenonT(40)
  <1>3. Typed'
    <2>1. task' \in [Task -> Row]
      <3>1. \A u \in Task : task'[u] \in Row
        BY <1>2 DEF IInv, Typed
      <3> QED
        BY <3>1, ZenonT(40) DEF Cancelled
    <2> QED
      BY <2>1 DEF IInv, Typed
  <1>4. RowInv'
    <2> SUFFICES ASSUME NEW u \in Task
                 PROVE  GoodRow(Batches[u], task'[u], book[u])
      BY DEF RowInv
    <2>1. GoodRow(Batches[u], task[u], book[u])
      BY DEF IInv, RowInv
    <2> QED
      BY <1>2, <2>1 DEF GoodRow, Terminal
  <1>5. ClaimInv'
    <2> SUFFICES ASSUME NEW s \in Slot, slot[s].pc # "idle", ~slot[s].ran
                 PROVE  Unspent(s, task'[slot[s].task], book[slot[s].task])
      BY DEF ClaimInv, Unspent
    <2>1. slot[s].task \in Task /\ Unspent(s, task[slot[s].task], book[slot[s].task])
      BY DEF IInv, Typed, ClaimInv
    <2> QED
      BY <1>2, <2>1 DEF Unspent
  <1>6. LastInv'
    BY <1>2 DEF IInv, LastInv, Behind, Terminal
  <1>7. OpenInv'
    BY DEF IInv, OpenInv
  <1>8. ExecutorOwns'
    <2> SUFFICES ASSUME NEW s \in Slot, slot[s].pc = "executing"
                 PROVE  Owned(s)'
      BY DEF ExecutorOwns
    <2>1. slot[s].task \in Task /\ Owned(s)
      BY DEF IInv, ExecutorOwns, Typed
    <2>2. WfOf[slot[s].task] \in Wf \ ws
      BY <2>1, Placement DEF WorkflowLocked, Holding
    <2> QED
      BY <1>1, <2>1, <2>2 DEF Owned
  <1> QED
    BY <1>3, <1>4, <1>5, <1>6, <1>7, <1>8 DEF IInv
-----------------------------------------------------------------------------
(* The actions. *)

LEMMA InitInv ==
    ASSUME Init
    PROVE  IInv
  <1>1. FreshTask \in Row
    BY DEF FreshTask, Row
  <1>2. Idle \in Turn
    BY DEF Idle, Turn
  <1>3. Typed
    BY <1>1, <1>2 DEF Init, Typed, Book, Idle
  <1>4. RowInv
    BY Placement DEF Init, RowInv, GoodRow, FreshTask
  <1>5. ClaimInv /\ LastInv /\ OpenInv /\ ExecutorOwns
    BY DEF Init, ClaimInv, LastInv, OpenInv, ExecutorOwns, Idle, FreshTask
  <1> QED
    BY <1>3, <1>4, <1>5 DEF IInv

\* What a claim does to the rows and to its slot: nothing, or it takes one
\* candidate row that no batch has locked.
ClaimTakes(s, t, n) ==
    /\ t \in Candidates /\ ~RowLocked(t)
    /\ task' = [task EXCEPT ![t] = Claimed(@, s, n)]
    /\ slot' = IF task'[t].state = "RUNNING"
               THEN [slot EXCEPT ![s] = [Idle EXCEPT !.pc = "claimed", !.task = t]] ELSE slot

LEMMA ClaimEffect ==
    ASSUME NEW s \in Slot, Claim(s)
    PROVE  /\ UNCHANGED <<task, slot>> \/ \E t \in Task, n \in Nat : ClaimTakes(s, t, n)
           /\ slot[s].pc = "idle" /\ UNCHANGED <<wf, parent, book>>
  <1> DEFINE chosen == Chosen(Candidates)
             free == {t \in Candidates : QueueOf[t] = chosen[3] /\ ~RowLocked(t)}
  <1>1. IF free = {} THEN UNCHANGED <<task, slot>>
        ELSE \E t \in {LeastOf(free)}, n \in 0..LeastOf({1, WaitMax}) :
               /\ task' = [task EXCEPT ![t] = Claimed(@, s, n)]
               /\ slot' = IF task'[t].state = "RUNNING"
                          THEN [slot EXCEPT ![s] = [Idle EXCEPT !.pc = "claimed", !.task = t]] ELSE slot
    <2>1. \E c \in {Chosen(Candidates)} :
          \E f \in {{t \in Candidates : QueueOf[t] = c[3] /\ ~RowLocked(t)}} :
             IF f = {} THEN UNCHANGED <<task, slot>>
             ELSE \E t \in {LeastOf(f)}, n \in 0..LeastOf({1, WaitMax}) :
                    /\ task' = [task EXCEPT ![t] = Claimed(@, s, n)]
                    /\ slot' = IF task'[t].state = "RUNNING"
                               THEN [slot EXCEPT ![s] = [Idle EXCEPT !.pc = "claimed", !.task = t]] ELSE slot
      BY ZenonT(40) DEF Claim
    <2> QED
      BY <2>1, ZenonT(40)
  <1>5. free = {t \in Candidates : QueueOf[t] = chosen[3] /\ ~RowLocked(t)}
    OBVIOUS
  <1> HIDE DEF free, chosen
  <1>2. CASE free = {}
    BY <1>1, <1>2 DEF Claim
  <1>3. CASE free # {}
    <2>1. free \in SUBSET Nat /\ free \subseteq Task
      BY <1>5, QueueTree, ZenonT(40) DEF Candidates
    <2>2. LeastOf(free) \in free
      BY <1>3, <2>1, LeastIn
    <2>3. LeastOf(free) \in Task /\ LeastOf(free) \in Candidates /\ ~RowLocked(LeastOf(free))
      BY <1>5, <2>1, <2>2
    <2>4. LeastOf({1, WaitMax}) \in Nat
      BY Placement, LeastIn
    <2>5. \E n \in Nat : ClaimTakes(s, LeastOf(free), n)
      <3> DEFINE t == LeastOf(free)
      <3>1. PICK n \in 0..LeastOf({1, WaitMax}) :
               /\ task' = [task EXCEPT ![t] = Claimed(@, s, n)]
               /\ slot' = IF task'[t].state = "RUNNING"
                          THEN [slot EXCEPT ![s] = [Idle EXCEPT !.pc = "claimed", !.task = t]] ELSE slot
        BY <1>1, <1>3, ZenonT(40)
      <3>2. n \in Nat
        BY <2>4, <3>1
      <3>3. ClaimTakes(s, t, n)
        BY <2>3, <3>1, ZenonT(40) DEF ClaimTakes
      <3> QED
        BY <3>2, <3>3
    <2> QED
      BY <2>3, <2>5 DEF Claim
  <1> QED
    BY <1>2, <1>3

\* Nobody claims a row a batch is copying for.
LEMMA ClaimStep ==
    ASSUME IInv, NEW s \in Slot, Claim(s)
    PROVE  IInv'
  <1>1. CASE UNCHANGED <<task, slot>>
    <2>1. slot' \in [Slot -> Turn] /\ \A z \in Slot : Quiet(slot[z], slot'[z])
      BY <1>1 DEF IInv, Typed, Quiet
    <2> QED
      BY <1>1, <2>1, ClaimEffect, QuietSlots
  <1>2. ASSUME NEW t \in Task, NEW n \in Nat, ClaimTakes(s, t, n)
        PROVE  IInv'
    <2> DEFINE r == Claimed(task[t], s, n)
               b == book[t]
               taken == [Idle EXCEPT !.pc = "claimed", !.task = t]
    <2>1. task[t] \in Row /\ b \in Book /\ GoodRow(Batches[t], task[t], b)
      BY DEF IInv, Typed, RowInv
    <2>2. /\ r \in Row /\ r.cp = task[t].cp
          /\ \/ r.state = "FAILED" /\ r.live = task[t].live /\ r.attempts = task[t].attempts
             \/ r.state = "RUNNING" /\ r.holder = s /\ r.owner = ProcOf[s] /\ r.attempts = task[t].attempts + 1
      BY <2>1, ClaimedRow
    <2>3. task' = [task EXCEPT ![t] = r] /\ book' = [book EXCEPT ![t] = b]
      BY <1>2, ClaimEffect, ZenonT(40) DEF ClaimTakes, IInv, Typed
    <2>4. task'[t] = r
      BY <2>3 DEF IInv, Typed
    <2>5. slot' = IF r.state = "RUNNING" THEN [slot EXCEPT ![s] = taken] ELSE slot
      BY <1>2, <2>4 DEF ClaimTakes
    <2>6. taken \in Turn /\ taken.pc = "claimed" /\ taken.task = t /\ taken.ran = FALSE
      BY ZenonT(40) DEF Turn, Idle
    <2>7. /\ task[t].state \in {"READY", "RUNNING"} /\ (task[t].state = "RUNNING" => ~task[t].live)
          /\ t \in Last => Behind(t, task)
      BY <1>2 DEF ClaimTakes, Candidates, Behind
    <2>8. task[t].live = FALSE
      BY <2>1, <2>7 DEF GoodRow, Row
    <2>9. GoodRow(Batches[t], r, b)
      <3> HIDE DEF r, b
      <3>1. /\ task[t].cp \in Nat /\ Batches[t] \in Nat /\ task[t].attempts \in Nat /\ b.ran \in Nat /\ b.back \in Nat
            /\ r.cp = task[t].cp /\ r.state \in {"FAILED", "RUNNING"}
            /\ r.attempts \in {task[t].attempts, task[t].attempts + 1}
        BY <2>1, <2>2, Placement DEF Row, Book
      <3>2. r.live => r.state = "RUNNING"
        BY <2>2, <2>8, ZenonT(40)
      <3>3. /\ task[t].cp <= Batches[t] /\ task[t].cp # Batches[t]
            /\ b.ran <= task[t].attempts + b.back /\ b.ran <= 3 + b.back
        BY <2>1, <2>7 DEF GoodRow
      <3> QED
        BY <3>1, <3>2, <3>3 DEF GoodRow
    <2>10. \A z \in Slot : slot[z].pc = "executing" => slot[z].task # t
      BY <1>2 DEF ClaimTakes, RowLocked, Holding
    <2>11. slot[s].pc = "idle" /\ UNCHANGED <<wf, parent>>
      BY ClaimEffect
    <2>14. slot' \in [Slot -> Turn] /\ slot \in [Slot -> Turn]
      BY <2>5, <2>6 DEF IInv, Typed
    <2> HIDE DEF r, b, taken
    <2>12. r.state = "RUNNING" => Unspent(s, r, b)
      <3>1. task[t].attempts \in Nat /\ b.ran \in Nat /\ b.back \in Nat /\ b.ran <= task[t].attempts + b.back
        BY <2>1 DEF GoodRow, Row, Book
      <3>2. r.state = "RUNNING" => r.attempts = task[t].attempts + 1
        BY <2>2
      <3> QED
        BY <3>1, <3>2 DEF Unspent
    <2>13. ASSUME NEW z \in Slot
           PROVE  Follows(z, t, r, b)
      <3> SUFFICES ASSUME slot'[z].pc # "idle"
                   PROVE  Follows(z, t, r, b)
        BY ZenonT(40) DEF Follows
      <3>1. CASE z = s
        <4>1. slot'[z] = taken /\ r.state = "RUNNING"
          BY <2>5, <2>11, <2>14, <3>1
        <4> QED
          BY <4>1, <2>6, <2>12, <3>1 DEF Follows
      <3>2. CASE z # s
        <4>1. slot'[z] = slot[z]
          BY <2>5, <2>14, <3>2
        <4>2. slot[z].task \in Task
          BY <4>1 DEF IInv, Typed
        <4>3. Unspent(z, r, b)
          BY <2>2, <3>2 DEF Unspent
        <4> QED
          BY <2>10, <4>1, <4>2, <4>3 DEF Follows, Quiet
      <3> QED
        BY <3>1, <3>2
    <2>15. task[t].state \notin Terminal
      BY <2>7 DEF Terminal
    <2> QED
      BY <2>1, <2>2, <2>3, <2>7, <2>9, <2>11, <2>13, <2>14, <2>15, OneRow, ZenonT(40)
  <1> QED
    BY <1>1, <1>2, ClaimEffect

\* A slot that goes on to settle, and one that ends.
LEMMA SettlingQuiet ==
    ASSUME Typed, NEW s \in Slot, NEW plan \in {"release", "spend", "fail"},
           slot[s].pc # "idle", Settling(s, plan)
    PROVE  slot' \in [Slot -> Turn] /\ \A z \in Slot : Quiet(slot[z], slot'[z])
  <1> DEFINE b == [slot[s] EXCEPT !.pc = "settle", !.plan = plan]
  <1>1. slot[s] \in Turn
    BY DEF Typed
  <1>2. b \in Turn /\ b.pc = "settle" /\ b.task = slot[s].task /\ b.ran = slot[s].ran
    BY <1>1, ZenonT(40) DEF Turn
  <1>3. slot' = [slot EXCEPT ![s] = b]
    BY <1>1, ZenonT(40) DEF Settling, Typed, Turn
  <1> HIDE DEF b
  <1>4. slot' \in [Slot -> Turn] /\ slot'[s] = b /\ \A z \in Slot \ {s} : slot'[z] = slot[z]
    BY <1>2, <1>3 DEF Typed
  <1> QED
    BY <1>2, <1>4 DEF Quiet

LEMMA EndQuiet ==
    ASSUME Typed, NEW s \in Slot, slot' = [slot EXCEPT ![s] = Idle]
    PROVE  slot' \in [Slot -> Turn] /\ \A z \in Slot : Quiet(slot[z], slot'[z])
  <1>1. Idle \in Turn
    BY DEF Idle, Turn
  <1> QED
    BY <1>1 DEF Typed, Quiet

\* The steps of a slot that touch no row.
SlotStep(s) ==
    BeginBlocked(s) \/ BeginFenced(s) \/ BeginRefused(s) \/ StatementTimeout(s) \/ ExecutionError(s)
    \/ SettleGivesUp(s) \/ OrphanRollback(s)

LEMMA SlotStepKeeps ==
    ASSUME IInv, NEW s \in Slot, SlotStep(s)
    PROVE  IInv'
  <1>1. UNCHANGED <<wf, parent, task, book>> /\ slot[s].pc # "idle"
    BY DEF SlotStep, BeginBlocked, BeginFenced, BeginRefused, StatementTimeout, ExecutionError,
           SettleGivesUp, OrphanRollback
  <1>2. \/ \E plan \in {"release", "spend", "fail"} : Settling(s, plan)
        \/ slot' = [slot EXCEPT ![s] = Idle]
        \/ slot[s].iter < 3 /\ slot' = [slot EXCEPT ![s].pc = "claimed", ![s].iter = @ + 1]
    BY DEF SlotStep, BeginBlocked, BeginFenced, BeginRefused, StatementTimeout, ExecutionError,
           SettleGivesUp, OrphanRollback
  <1>3. Typed
    BY DEF IInv
  <1>4. ASSUME slot' = [slot EXCEPT ![s].pc = "claimed", ![s].iter = @ + 1]
        PROVE  slot' \in [Slot -> Turn] /\ \A z \in Slot : Quiet(slot[z], slot'[z])
    <2> DEFINE n == slot[s].iter + 1
               b == [slot[s] EXCEPT !.pc = "claimed", !.iter = n]
    <2>1. slot[s] \in Turn /\ n \in Nat
      BY <1>3 DEF Typed, Turn
    <2>2. slot' = [slot EXCEPT ![s] = b]
      BY <1>3, <1>4, <2>1 DEF Typed, Turn
    <2> HIDE DEF n
    <2>3. b \in Turn /\ b.pc = "claimed" /\ b.task = slot[s].task /\ b.ran = slot[s].ran
      BY <2>1, ZenonT(40) DEF Turn
    <2> HIDE DEF b
    <2>4. slot' \in [Slot -> Turn] /\ slot'[s] = b /\ \A z \in Slot \ {s} : slot'[z] = slot[z]
      BY <1>3, <2>2, <2>3 DEF Typed
    <2> QED
      BY <1>1, <2>3, <2>4 DEF Quiet
  <1>5. slot' \in [Slot -> Turn] /\ \A z \in Slot : Quiet(slot[z], slot'[z])
    BY <1>1, <1>2, <1>3, <1>4, SettlingQuiet, EndQuiet
  <1> QED
    BY <1>1, <1>5, QuietSlots

LEMMA CrashKeeps ==
    ASSUME IInv, NEW p, Crash(p)
    PROVE  IInv'
  <1>1. UNCHANGED <<wf, parent, task, book>>
    BY DEF Crash
  <1>2. Idle \in Turn
    BY DEF Idle, Turn
  <1>3. ASSUME NEW z \in Slot
        PROVE  slot'[z] \in Turn /\ Quiet(slot[z], slot'[z])
    <2>1. slot[z] \in Turn
      BY DEF IInv, Typed
    <2>2. slot'[z] \in {slot[z], Idle} \/ (slot[z].pc = "executing" /\ slot'[z] = [slot[z] EXCEPT !.pc = "orphan"])
      BY DEF Crash
    <2> QED
      BY <1>2, <2>1, <2>2 DEF Quiet, Turn
  <1>4. slot' \in [Slot -> Turn]
    BY <1>3 DEF Crash
  <1> QED
    BY <1>1, <1>3, <1>4, QuietSlots

\* The first statement of a batch runs under a reservation of its own.
LEMMA BeginExecutionKeeps ==
    ASSUME IInv, NEW s \in Slot, BeginExecution(s)
    PROVE  IInv'
  <1> DEFINE t == slot[s].task
             n == [slot[s] EXCEPT !.pc = "executing", !.ran = TRUE]
             b == IF slot[s].ran THEN book[t] ELSE [book[t] EXCEPT !.ran = @ + 1]
  <1>1. slot[s].pc = "claimed" /\ Owned(s) /\ task[t].attempts <= 3 /\ UNCHANGED <<wf, parent, task>>
    BY DEF BeginExecution
  <1>2. t \in Task /\ slot[s] \in Turn /\ task[t] \in Row /\ book[t] \in Book
        /\ GoodRow(Batches[t], task[t], book[t])
    BY <1>1 DEF IInv, Typed, RowInv
  <1>3. ~slot[s].ran => book[t].ran + 1 <= task[t].attempts + book[t].back
    BY <1>1 DEF IInv, ClaimInv, Unspent, Owned
  <1>4. b \in Book /\ GoodRow(Batches[t], task[t], b)
    <2>1. CASE slot[s].ran
      BY <1>2, <2>1
    <2>2. CASE ~slot[s].ran
      <3>1. book[t].ran \in Nat /\ book[t].back \in Nat /\ task[t].attempts \in Nat
        BY <1>2, ZenonT(40) DEF Book, Row
      <3>2. b \in Book /\ b.ran = book[t].ran + 1 /\ b.back = book[t].back
        BY <1>2, <2>2, <3>1 DEF Book
      <3>3. b.ran <= task[t].attempts + b.back /\ b.ran <= 3 + b.back
        BY <1>1, <1>3, <2>2, <3>1, <3>2
      <3> HIDE DEF b
      <3> QED
        BY <1>2, <3>2, <3>3, ZenonT(40) DEF GoodRow
    <2> QED
      BY <2>1, <2>2
  <1>5. slot' = [slot EXCEPT ![s] = n] /\ book' = [book EXCEPT ![t] = b]
    BY <1>2, ZenonT(40) DEF BeginExecution, IInv, Typed, Turn, Book
  <1>6. n \in Turn /\ n.pc = "executing" /\ n.task = t /\ n.ran = TRUE
    BY <1>2, ZenonT(40) DEF Turn
  <1>14. t = slot[s].task
    OBVIOUS
  <1> HIDE DEF t, n, b
  <1>7. /\ slot' \in [Slot -> Turn] /\ slot'[s] = n /\ \A z \in Slot \ {s} : slot'[z] = slot[z]
        /\ book' \in [Task -> Book] /\ book'[t] = b /\ \A u \in Task \ {t} : book'[u] = book[u]
    BY <1>2, <1>4, <1>5, <1>6, ZenonT(40) DEF IInv, Typed
  <1>8. Typed'
    BY <1>1, <1>2, <1>6, <1>7 DEF IInv, Typed
  <1>9. RowInv'
    BY <1>1, <1>4, <1>7 DEF IInv, RowInv
  <1>10. ClaimInv'
    <2> SUFFICES ASSUME NEW z \in Slot, slot'[z].pc # "idle", ~slot'[z].ran
                 PROVE  Unspent(z, task[slot'[z].task], book'[slot'[z].task])
      BY <1>1 DEF ClaimInv, Unspent
    <2>1. z # s /\ slot'[z] = slot[z]
      BY <1>6, <1>7
    <2>2. slot[z].task \in Task /\ Unspent(z, task[slot[z].task], book[slot[z].task])
      BY <2>1 DEF IInv, ClaimInv, Typed
    <2>3. task[t].holder # z
      BY <1>1, <1>14, <2>1 DEF Owned
    <2> QED
      BY <1>7, <2>1, <2>2, <2>3 DEF Unspent
  <1>11. LastInv' /\ OpenInv'
    BY <1>1 DEF IInv, LastInv, OpenInv, Behind
  <1>12. ExecutorOwns'
    <2> SUFFICES ASSUME NEW z \in Slot, slot'[z].pc = "executing"
                 PROVE  Owned(z)'
      BY DEF ExecutorOwns
    <2>1. slot'[z].task = slot[z].task /\ Owned(z)
      BY <1>1, <1>6, <1>7, <1>14 DEF IInv, ExecutorOwns
    <2> QED
      BY <1>1, <2>1 DEF Owned
  <1> QED
    BY <1>8, <1>9, <1>10, <1>11, <1>12 DEF IInv

\* What a batch in flight knows of its row.
LEMMA Executing ==
    ASSUME IInv, NEW s \in Slot, slot[s].pc = "executing"
    PROVE  LET t == slot[s].task
           IN  /\ t \in Task /\ task[t] \in Row /\ book[t] \in Book
               /\ wf[WfOf[t]] = "WAITING" /\ task[t].state = "RUNNING"
               /\ task[t].holder = s /\ task[t].owner = ProcOf[s]
               /\ task[t].cp < Batches[t]
               /\ t \in Last => Behind(t, task)
               /\ \A z \in Slot \ {s} : slot[z].pc = "executing" => slot[z].task # t
  <1> DEFINE t == slot[s].task
  <1>1. t \in Task /\ task[t] \in Row /\ book[t] \in Book /\ Owned(s)
    BY DEF IInv, Typed, ExecutorOwns
  <1>2. wf[WfOf[t]] = "WAITING" /\ task[t].state = "RUNNING" /\ task[t].holder = s /\ task[t].owner = ProcOf[s]
    BY <1>1 DEF Owned
  <1>3. task[t].cp < Batches[t]
    <2>1. GoodRow(Batches[t], task[t], book[t])
      BY <1>1 DEF IInv, RowInv
    <2> QED
      <3>1. task[t].cp \in Nat /\ Batches[t] \in Nat
        BY <1>1, Placement DEF Row
      <3>2. task[t].cp <= Batches[t] /\ task[t].cp # Batches[t]
        BY <1>2, <2>1 DEF GoodRow
      <3> QED
        BY <3>1, <3>2
  <1>4. t \in Last => Behind(t, task)
    BY <1>1, <1>2 DEF IInv, LastInv
  <1>5. \A z \in Slot \ {s} : slot[z].pc = "executing" => slot[z].task # t
    BY <1>2 DEF IInv, ExecutorOwns, Owned
  <1> QED
    BY <1>1, <1>2, <1>3, <1>4, <1>5

\* A batch, its checkpoint and its row land together.
LEMMA CommitKeeps ==
    ASSUME IInv, NEW s \in Slot, Commit(s)
    PROVE  IInv'
  <1> DEFINE t == slot[s].task
             done == task[t].cp + 1 = Batches[t]
             b == [ran |-> 0, back |-> 0]
             next == [Idle EXCEPT !.pc = "claimed", !.task = t]
  <1>1. slot[s].pc = "executing" /\ UNCHANGED <<wf, parent>> /\ book' = [book EXCEPT ![t] = b]
    BY DEF Commit
  <1>2. /\ t \in Task /\ task[t] \in Row /\ task[t].state = "RUNNING" /\ task[t].holder = s
        /\ task[t].owner = ProcOf[s]
        /\ task[t].cp < Batches[t] /\ (t \in Last => Behind(t, task))
        /\ \A z \in Slot \ {s} : slot[z].pc = "executing" => slot[z].task # t
    BY <1>1, Executing, ZenonT(40)
  <1>3. PICK keep \in {FALSE, task[t].live} :
            /\ task' = [task EXCEPT ![t] = Committed(@, done, keep)]
            /\ \/ slot' = [slot EXCEPT ![s] = IF keep /\ ~done THEN next ELSE Idle]
               \/ Settling(s, "fail")
    BY ZenonT(40) DEF Commit
  <1>4. keep \in BOOLEAN /\ done \in BOOLEAN
    BY <1>2, ZenonT(40) DEF Row
  <1> DEFINE r == Committed(task[t], done, keep)
  <1>5. task' = [task EXCEPT ![t] = r]
    BY <1>2, <1>3
  <1>6. /\ r \in Row /\ r.cp = task[t].cp + 1
        /\ \/ done /\ r.state = "COMPLETED" /\ ~r.live
           \/ ~done /\ keep /\ r.state = "RUNNING" /\ r.holder = s /\ r.attempts = 1
           \/ ~done /\ ~keep /\ r.state = "READY" /\ ~r.live
    <2> HIDE DEF done, t
    <2>1. CommitsTo(task[t], done, keep, r)
      BY <1>2, <1>4, CommittedRow, ZenonT(40)
    <2> HIDE DEF r
    <2> QED
      BY <1>2, <2>1, ZenonT(40) DEF CommitsTo
  <1>7. b \in Book /\ b.ran = 0 /\ b.back = 0
    BY DEF Book
  <1>8. GoodRow(Batches[t], r, b)
    <2>1. r.attempts \in Nat /\ r.cp \in Nat /\ task[t].cp \in Nat /\ Batches[t] \in Nat
      <3> HIDE DEF r
      <3> QED
        BY <1>2, <1>6, Placement, ZenonT(40) DEF Row
    <2> HIDE DEF r, b
    <2>2. r.cp <= Batches[t] /\ (r.cp = Batches[t] <=> done)
      <3>1. r.cp = task[t].cp + 1
        BY <1>6
      <3>2. task[t].cp < Batches[t]
        BY <1>2
      <3> HIDE DEF t
      <3> QED
        BY <2>1, <3>1, <3>2
    <2> HIDE DEF done
    <2> QED
      BY <1>6, <1>7, <2>1, <2>2 DEF GoodRow
  <1>9. next \in Turn /\ next.pc = "claimed" /\ next.task = t /\ Idle \in Turn /\ Idle.pc = "idle"
    BY <1>2, ZenonT(40) DEF Idle, Turn
  <1>15. t = slot[s].task /\ Typed
    BY DEF IInv
  <1> HIDE DEF done, r, b, next, t
  <1>10. \A z \in Slot : Unspent(z, r, b)
    BY <1>6, <1>7 DEF Unspent
  <1>11. /\ slot' \in [Slot -> Turn]
         /\ \A z \in Slot : slot'[z] = next \/ Quiet(slot[z], slot'[z])
         /\ \A z \in Slot \ {s} : slot'[z] = slot[z]
         /\ slot'[s].pc \in {"idle", "claimed", "settle"}
    <2>1. CASE slot' = [slot EXCEPT ![s] = IF keep /\ ~done THEN next ELSE Idle]
      BY <1>9, <1>15, <2>1 DEF Typed, Quiet
    <2>2. CASE Settling(s, "fail")
      <3>1. slot' \in [Slot -> Turn] /\ \A z \in Slot : Quiet(slot[z], slot'[z])
        BY <1>1, <1>15, <2>2, SettlingQuiet
      <3> QED
        BY <1>15, <2>2, <3>1 DEF Settling, Typed, Turn
    <2> QED
      BY <1>3, <2>1, <2>2
  <1>12. ASSUME NEW z \in Slot
         PROVE  Follows(z, t, r, b)
    <2> SUFFICES ASSUME slot'[z].pc # "idle"
                 PROVE  Follows(z, t, r, b)
      BY ZenonT(40) DEF Follows
    <2>1. slot'[z].task \in Task /\ (slot'[z].task # t => Quiet(slot[z], slot'[z]))
      <3>1. CASE slot'[z] = next
        BY <1>2, <1>9, <3>1, ZenonT(40)
      <3>2. CASE Quiet(slot[z], slot'[z])
        <4>1. slot[z].pc # "idle" /\ slot'[z].task = slot[z].task
          BY <1>9, <3>2, ZenonT(40) DEF Quiet
        <4> QED
          BY <1>15, <3>2, <4>1 DEF Typed
      <3> QED
        BY <1>11, <3>1, <3>2
    <2>2. slot'[z].pc = "executing" => slot'[z] = slot[z] /\ slot[z].task # t
      BY <1>2, <1>11
    <2> QED
      BY <1>10, <2>1, <2>2 DEF Follows
  <1>13. task[t].state \notin Terminal
    BY <1>2 DEF Terminal
  <1>14. slot' \in [Slot -> Turn]
    BY <1>11
  <1> QED
    BY <1>1, <1>2, <1>5, <1>6, <1>7, <1>8, <1>12, <1>13, <1>14, OneRow, ZenonT(40)

\* Rows written without moving a checkpoint or adding a claim: the slots are
\* quiet, and none of them is in a batch for the row unless it keeps its owner.
LEMMA TameRow ==
    ASSUME IInv, UNCHANGED <<wf, parent>>,
           NEW t \in Task, NEW r \in Row, NEW b \in Book,
           task' = [task EXCEPT ![t] = r], book' = [book EXCEPT ![t] = b],
           GoodRow(Batches[t], r, b),
           task[t].state \notin Terminal,
           r.state = "RUNNING" => /\ task[t].state = "RUNNING" /\ r.holder = task[t].holder
                                  /\ r.owner = task[t].owner
                                  /\ r.attempts = task[t].attempts /\ b = book[t],
           r.state # "RUNNING" => \A z \in Slot : slot[z].pc = "executing" /\ slot[z].task = t => slot'[z] = Idle,
           slot' \in [Slot -> Turn], \A z \in Slot : Quiet(slot[z], slot'[z])
    PROVE  IInv'
  <1>1. t \in Last /\ r.state = "RUNNING" => Behind(t, task)
    BY DEF IInv, LastInv
  <1>2. ASSUME NEW z \in Slot
        PROVE  Follows(z, t, r, b)
    <2> SUFFICES ASSUME slot'[z].pc # "idle"
                 PROVE  Follows(z, t, r, b)
      BY ZenonT(40) DEF Follows
    <2>1. slot[z].pc # "idle" /\ slot'[z].task = slot[z].task /\ slot'[z].ran = slot[z].ran
      BY DEF Quiet, Idle
    <2>2. slot'[z].task \in Task
      BY <2>1, ZenonT(40) DEF IInv, Typed
    <2>3. slot'[z].task = t /\ ~slot'[z].ran => Unspent(z, r, b)
      BY <2>1, ZenonT(40) DEF IInv, ClaimInv, Unspent
    <2>4. slot'[z].pc = "executing" =>
              /\ slot'[z] = slot[z]
              /\ slot[z].task = t => r.state = "RUNNING" /\ r.holder = z /\ r.owner = ProcOf[z]
      <3> SUFFICES ASSUME slot'[z].pc = "executing"
                   PROVE  /\ slot'[z] = slot[z]
                          /\ slot[z].task = t => r.state = "RUNNING" /\ r.holder = z /\ r.owner = ProcOf[z]
        OBVIOUS
      <3>1. slot'[z] = slot[z]
        BY DEF Quiet, Idle
      <3>4. Idle.pc # "executing"
        BY ZenonT(40) DEF Idle
      <3>2. slot[z].task = t => r.state = "RUNNING"
        BY <3>1, <3>4, ZenonT(40)
      <3>3. Owned(z)
        BY <3>1, ZenonT(40) DEF IInv, ExecutorOwns
      <3> QED
        BY <3>1, <3>2, <3>3, ZenonT(40) DEF Owned
    <2> QED
      BY <2>2, <2>3, <2>4, ZenonT(40) DEF Follows
  <1> QED
    BY <1>1, <1>2, OneRow, ZenonT(40)

\* A settlement writes only what its claim still owns, behind the locks of any
\* batch; a refund never gives back more than the claim reserved.
LEMMA SettleKeeps ==
    ASSUME IInv, NEW s \in Slot, SettleOnce(s)
    PROVE  IInv'
  <1> DEFINE t == slot[s].task
             plan == slot[s].plan
             b == IF plan = "release" /\ slot[s].ran THEN [book[t] EXCEPT !.back = @ + 1] ELSE book[t]
  <1>1. /\ slot[s].pc = "settle" /\ ~WorkflowLocked(WfOf[t]) /\ slot' = [slot EXCEPT ![s] = Idle]
        /\ UNCHANGED <<wf, parent>> /\ Typed
    BY DEF SettleOnce, IInv
  <1>2. slot' \in [Slot -> Turn] /\ \A z \in Slot : Quiet(slot[z], slot'[z])
    BY <1>1, EndQuiet, ZenonT(40)
  <1>3. CASE ~Owned(s)
    <2>1. UNCHANGED <<task, book>>
      BY <1>3 DEF SettleOnce
    <2> QED
      BY <1>1, <1>2, <2>1, QuietSlots, ZenonT(40)
  <1>4. CASE Owned(s)
    <2>1. PICK n \in 0..1 : task' = [task EXCEPT ![t] = Settled(@, plan, parent[WfOf[t]], n)]
      BY <1>4 DEF SettleOnce
    <2> DEFINE r == Settled(task[t], plan, parent[WfOf[t]], n)
    <2>2. t \in Task /\ task[t] \in Row /\ book[t] \in Book /\ GoodRow(Batches[t], task[t], book[t])
      BY <1>1, ZenonT(40) DEF Typed, IInv, RowInv
    <2>3. task' = [task EXCEPT ![t] = r] /\ book' = [book EXCEPT ![t] = b]
      BY <1>4, <2>1, <2>2 DEF SettleOnce, Typed, IInv, Book
    <2>4. /\ r \in Row /\ r.cp = task[t].cp /\ ~r.live
          /\ r.state \in {"READY", "FAILED", "CANCELLED"}
          /\ \/ r.attempts = task[t].attempts
             \/ plan = "release" /\ r.attempts = Monus(task[t].attempts, 1)
      <3>1. n \in Nat
        BY <2>1
      <3> HIDE DEF t, plan
      <3>2. SettlesTo(task[t], plan, r)
        BY <2>2, <3>1, SettledRow, ZenonT(40)
      <3> HIDE DEF r
      <3> QED
        BY <3>2 DEF SettlesTo
    <2>5. task[t].state = "RUNNING" /\ task[t].holder = s
      BY <1>4 DEF Owned
    <2>6. ~slot[s].ran => book[t].ran + 1 <= task[t].attempts + book[t].back
      BY <1>1, <2>5 DEF IInv, ClaimInv, Unspent
    <2>7. b \in Book /\ b.ran = book[t].ran
          /\ b.back = IF plan = "release" /\ slot[s].ran THEN book[t].back + 1 ELSE book[t].back
      BY <2>2 DEF Book
    <2> HIDE DEF r, b
    <2>8. b.ran <= r.attempts + b.back
      <3> DEFINE x == task[t].attempts
                 y == book[t].ran
                 z == book[t].back
                 refund == plan = "release"
      <3>1. x \in Nat /\ y \in Nat /\ z \in Nat /\ y <= x + z
        BY <2>2, ZenonT(40) DEF GoodRow, Row, Book
      <3>2. r.attempts = x \/ (refund /\ r.attempts = Monus(x, 1))
        BY <2>4
      <3>3. b.ran = y /\ b.back = IF refund /\ slot[s].ran THEN z + 1 ELSE z
        BY <2>7
      <3>4. ~slot[s].ran => y + 1 <= x + z
        BY <2>6
      <3> HIDE DEF x, y, z, refund
      <3>5. CASE slot[s].ran
        BY <3>1, <3>2, <3>3, <3>5 DEF Monus
      <3>6. CASE ~slot[s].ran
        BY <3>1, <3>2, <3>3, <3>4, <3>6 DEF Monus
      <3> QED
        BY <3>5, <3>6
    <2>9. b.ran <= 3 + b.back
      BY <2>2, <2>7 DEF GoodRow, Book
    <2>10. GoodRow(Batches[t], r, b)
      BY <2>2, <2>4, <2>5, <2>8, <2>9, ZenonT(40) DEF GoodRow
    <2>11. \A z \in Slot : slot[z].pc = "executing" => slot[z].task # t
      BY <1>1 DEF WorkflowLocked, Holding
    <2>12. task[t].state \notin Terminal /\ r.state # "RUNNING"
      BY <2>4, <2>5, ZenonT(40) DEF Terminal
    <2> HIDE DEF t, plan
    <2> QED
      BY <1>1, <1>2, <2>2, <2>3, <2>4, <2>7, <2>10, <2>11, <2>12, TameRow, ZenonT(40)
  <1> QED
    BY <1>3, <1>4

\* A shutdown releases what its slot still holds, and keeps the reservation.
LEMMA ReleaseKeeps ==
    ASSUME IInv, NEW s \in Slot, ReleaseCancelledClaim(s)
    PROVE  IInv'
  <1> DEFINE t == slot[s].task
             mine == task[t].state = "RUNNING" /\ task[t].holder = s /\ task[t].owner = ProcOf[s]
             r == [task[t] EXCEPT !.state = "READY", !.holder = None, !.owner = None,
                                  !.live = FALSE, !.due = TRUE]
             b == book[t]
  <1>1. /\ slot[s].pc # "idle" /\ slot' = [slot EXCEPT ![s] = Idle]
        /\ UNCHANGED <<wf, parent, book>> /\ Typed
    BY ZenonT(40) DEF ReleaseCancelledClaim, IInv
  <1>2. slot' \in [Slot -> Turn] /\ \A z \in Slot : Quiet(slot[z], slot'[z])
    BY <1>1, EndQuiet, ZenonT(40)
  <1>3. CASE ~mine
    <2>1. UNCHANGED task
      BY <1>3, ZenonT(40) DEF ReleaseCancelledClaim
    <2> QED
      BY <1>1, <1>2, <2>1, QuietSlots
  <1>4. CASE mine
    <2>1. t \in Task /\ task[t] \in Row /\ b \in Book /\ GoodRow(Batches[t], task[t], b)
      BY <1>1 DEF Typed, IInv, RowInv
    <2>2. task' = [task EXCEPT ![t] = r] /\ book' = [book EXCEPT ![t] = b]
      BY <1>1, <1>4, <2>1, ZenonT(40) DEF ReleaseCancelledClaim, Typed, Row
    <2>3. r \in Row /\ r.cp = task[t].cp /\ r.live = FALSE /\ r.state = "READY" /\ r.attempts = task[t].attempts
      BY <2>1, ZenonT(40) DEF Row, Terminal
    <2> HIDE DEF r
    <2>4. GoodRow(Batches[t], r, b)
      BY <1>4, <2>1, <2>3, ZenonT(40) DEF GoodRow
    <2>5. \A z \in Slot : slot[z].pc = "executing" /\ slot[z].task = t => slot'[z] = Idle
      <3>1. \A z \in Slot : slot[z].pc = "executing" /\ slot[z].task = t => z = s
        <4>1. ExecutorOwns
          BY ZenonT(40) DEF IInv
        <4>2. \A z \in Slot : slot[z].pc = "executing" => task[slot[z].task].holder = z
          BY <4>1, ZenonT(40) DEF ExecutorOwns, Owned
        <4> QED
          BY <1>4, <4>2
      <3> QED
        BY <1>1, <3>1 DEF Typed
    <2>6. task[t].state \notin Terminal /\ r.state # "RUNNING"
      BY <1>4, <2>3 DEF Terminal
    <2> HIDE DEF t, b
    <2> QED
      BY <1>1, <1>2, <2>1, <2>2, <2>3, <2>4, <2>5, <2>6, TameRow, ZenonT(40)
  <1> QED
    BY <1>3, <1>4

\* Time: a lease runs out, a deferral ends.
LEMMA TimeKeeps ==
    ASSUME IInv, NEW t \in Task, LeaseLapses(t) \/ BecomesDue(t)
    PROVE  IInv'
  <1> DEFINE b == book[t]
  <1>1. /\ UNCHANGED <<wf, parent, slot, book>> /\ Typed /\ task[t].state \in {"READY", "RUNNING"}
        /\ (LeaseLapses(t) => task[t].state = "RUNNING") /\ (~LeaseLapses(t) => task[t].state = "READY")
    BY DEF LeaseLapses, BecomesDue, IInv
  <1>2. task[t] \in Row /\ b \in Book /\ GoodRow(Batches[t], task[t], b)
    BY <1>1, ZenonT(40) DEF Typed, IInv, RowInv
  <1>3. slot' \in [Slot -> Turn] /\ (\A z \in Slot : Quiet(slot[z], slot'[z]))
        /\ book' = [book EXCEPT ![t] = b] /\ task[t].state \notin Terminal
    BY <1>1 DEF Typed, Quiet, Terminal
  <1>4. PICK r \in Row :
            /\ task' = [task EXCEPT ![t] = r]
            /\ r.state = task[t].state /\ r.holder = task[t].holder /\ r.owner = task[t].owner
            /\ r.cp = task[t].cp /\ r.attempts = task[t].attempts
            /\ r.live => task[t].live
    <2>1. CASE LeaseLapses(t)
      <3> DEFINE r == [task[t] EXCEPT !.live = FALSE]
      <3>1. task' = [task EXCEPT ![t] = r]
        BY <1>1, <1>2, <2>1 DEF LeaseLapses, Typed, Row
      <3>2. /\ r \in Row /\ r.state = task[t].state /\ r.holder = task[t].holder /\ r.owner = task[t].owner
            /\ r.cp = task[t].cp /\ r.attempts = task[t].attempts /\ (r.live => task[t].live)
        BY <1>2, ZenonT(40) DEF Row
      <3> HIDE DEF r
      <3> QED
        BY <3>1, <3>2, ZenonT(40)
    <2>2. CASE BecomesDue(t)
      <3> DEFINE r == [task[t] EXCEPT !.due = TRUE]
      <3>1. task' = [task EXCEPT ![t] = r]
        BY <1>1, <1>2, <2>2 DEF BecomesDue, Typed, Row
      <3>2. /\ r \in Row /\ r.state = task[t].state /\ r.holder = task[t].holder /\ r.owner = task[t].owner
            /\ r.cp = task[t].cp /\ r.attempts = task[t].attempts /\ (r.live => task[t].live)
        BY <1>2, ZenonT(40) DEF Row
      <3> HIDE DEF r
      <3> QED
        BY <3>1, <3>2, ZenonT(40)
    <2> QED
      BY <2>1, <2>2
  <1>5. GoodRow(Batches[t], r, b)
    BY <1>2, <1>4 DEF GoodRow
  <1>6. r.state # "RUNNING" => \A z \in Slot : slot[z].pc = "executing" /\ slot[z].task = t => slot'[z] = Idle
    <2> SUFFICES ASSUME NEW z \in Slot, slot[z].pc = "executing", slot[z].task = t
                 PROVE  r.state = "RUNNING"
      OBVIOUS
    <2>1. Owned(z)
      BY ZenonT(40) DEF IInv, ExecutorOwns
    <2> QED
      BY <1>4, <2>1 DEF Owned
  <1> HIDE DEF b
  <1>7. b = book[t]
    BY DEF b
  <1> QED
    BY <1>1, <1>2, <1>3, <1>4, <1>5, <1>6, <1>7, TameRow, ZenonT(40)

\* The parents: sealing, cancellation, a parent's end, recovery.
LEMMA ParentKeeps ==
    ASSUME IInv,
           \/ \E w \in Wf : Seal(w) \/ Abandon(w)
           \/ \E j : CancelCopyWork(j) \/ EndParent(j)
    PROVE  IInv'
  <1>1. ASSUME NEW w \in Wf, Seal(w)
        PROVE  IInv'
    <2>1. /\ UNCHANGED <<parent, task, slot, book>> /\ wf[w] = "DRAINING"
          /\ wf' = [wf EXCEPT ![w] = "WAITING"]
      BY <1>1, ZenonT(40) DEF Seal
    <2>2. Typed' /\ RowInv' /\ ClaimInv' /\ LastInv' /\ OpenInv'
      BY <2>1, ZenonT(40) DEF IInv, Typed, RowInv, ClaimInv, LastInv, OpenInv, Unspent, Behind, GoodRow
    <2>3. ExecutorOwns'
      BY <2>1, Placement DEF IInv, ExecutorOwns, Owned, Typed
    <2> QED
      BY <2>2, <2>3 DEF IInv
  <1>2. ASSUME NEW w \in Wf, Abandon(w)
        PROVE  IInv'
    <2>1. /\ task' = Cancelled({w}) /\ UNCHANGED <<parent, slot, book>> /\ ~WorkflowLocked(w)
          /\ parent[w] # "ACTIVE" /\ wf' = [wf EXCEPT ![w] = IF parent[w] = "CANCELLED" THEN "CANCELLED" ELSE "FAILED"]
      BY <1>2 DEF Abandon
    <2>2. /\ wf' \in [Wf -> {"DRAINING", "WAITING", "CANCELLED", "FAILED"}]
          /\ parent' \in [Wf -> {"ACTIVE", "CANCELLED", "ENDED"}]
          /\ \A v \in Wf \ {w} : wf'[v] = wf[v] /\ parent'[v] = parent[v]
      BY <2>1 DEF IInv, Typed
    <2> QED
      BY <2>1, <2>2, GivenUp
  <1>3. ASSUME NEW j, CancelCopyWork(j)
        PROVE  IInv'
    <2> DEFINE mine == {w \in Wf : SnapOf[w] = j}
    <2>1. /\ task' = Cancelled(mine) /\ UNCHANGED <<slot, book>> /\ (\A w \in mine : ~WorkflowLocked(w))
          /\ parent' = [w \in Wf |-> IF w \in mine THEN "CANCELLED" ELSE parent[w]]
          /\ wf' = [w \in Wf |-> IF w \in mine THEN "CANCELLED" ELSE wf[w]]
      BY <1>3, ZenonT(40) DEF CancelCopyWork
    <2>2. mine \in SUBSET Wf
      OBVIOUS
    <2> HIDE DEF mine
    <2>3. /\ wf' \in [Wf -> {"DRAINING", "WAITING", "CANCELLED", "FAILED"}]
          /\ parent' \in [Wf -> {"ACTIVE", "CANCELLED", "ENDED"}]
          /\ \A v \in Wf \ mine : wf'[v] = wf[v] /\ parent'[v] = parent[v]
          /\ \A w \in mine : parent'[w] # "ACTIVE"
      BY <2>1, <2>2 DEF IInv, Typed
    <2> QED
      BY <2>1, <2>2, <2>3, GivenUp
  <1>4. ASSUME NEW j, EndParent(j)
        PROVE  IInv'
    <2>1. /\ UNCHANGED <<wf, task, slot, book>>
          /\ \E p \in {"ENDED", "CANCELLED"} :
                parent' = [w \in Wf |-> IF w \in {v \in Wf : SnapOf[v] = j} THEN p ELSE parent[w]]
      BY <1>4 DEF EndParent
    <2>2. parent' \in [Wf -> {"ACTIVE", "CANCELLED", "ENDED"}]
          /\ \A w \in Wf : parent'[w] = "ACTIVE" => parent[w] = "ACTIVE"
      BY <2>1 DEF IInv, Typed
    <2>3. Typed' /\ RowInv' /\ ClaimInv' /\ LastInv' /\ OpenInv'
      BY <2>1, <2>2, ZenonT(40) DEF IInv, Typed, RowInv, ClaimInv, LastInv, OpenInv, Unspent, Behind, GoodRow
    <2>4. ExecutorOwns'
      BY <2>1, ZenonT(40) DEF IInv, ExecutorOwns, Owned
    <2> QED
      BY <2>3, <2>4 DEF IInv
  <1> QED
    BY <1>1, <1>2, <1>3, <1>4

LEMMA NextInv ==
    ASSUME IInv, [Next]_vars
    PROVE  IInv'
  <1>1. CASE UNCHANGED vars
    <2>1. UNCHANGED <<wf, parent, task, book>> /\ slot' \in [Slot -> Turn]
          /\ \A s \in Slot : Quiet(slot[s], slot'[s])
      BY <1>1 DEF vars, IInv, Typed, Quiet
    <2> QED
      BY <2>1, QuietSlots
  <1>2. ASSUME NEW s \in Slot, Step(s) \/ StatementTimeout(s) \/ ExecutionError(s)
                               \/ SettleGivesUp(s) \/ ReleaseCancelledClaim(s)
        PROVE  IInv'
    BY <1>2, ClaimStep, SlotStepKeeps, BeginExecutionKeeps, CommitKeeps, SettleKeeps, ReleaseKeeps
       DEF Step, SlotStep
  <1> QED
    BY <1>1, <1>2, ParentKeeps, CrashKeeps, TimeKeeps, ZenonT(40) DEF Next
=============================================================================
