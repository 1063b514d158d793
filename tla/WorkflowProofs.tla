--------------------------- MODULE WorkflowProofs ---------------------------
(***************************************************************************)
(* For every workflow, catalog of handlers, budget and number of            *)
(* overlapping operations: a handler is called only after what its step     *)
(* depends on, and a run that says completed is.                            *)
(*                                                                         *)
(* Neither is inductive.  What is: a copy of the run, wherever it is, calls *)
(* completed only what was done, and an operation that is at work on a step *)
(* chose it when all its dependencies were completed in its copy.           *)
(***************************************************************************)
EXTENDS WorkflowEngine, TLAPS

(* A copy of the run, given the steps that were done. *)
GoodRun(run, finished) ==
    /\ run \in Run
    /\ \A s \in Step : Status(run, s) = "pending" => ~Exhausted(run, s)
    /\ \A s \in Step : Status(run, s) = "completed" => s \in finished
    /\ run.status = "completed" => \A s \in Step : Status(run, s) = "completed"

(* The operation is between the choice of a step and the save of its result. *)
Working(op) ==
    \/ op.pc = "calling"
    \/ op.pc = "saving" /\ op.next \in {"call", "settle", "retry"}

GoodOp(op, finished) ==
    /\ op \in Operation
    /\ GoodRun(op.run, finished)
    /\ Working(op) => /\ op.step \in Step
                      /\ op.run.status = "running"
                      /\ DependsOn[op.step] \subseteq finished
    /\ op.pc = "saving" /\ op.next = "proceed" => op.run.status = "running"
    /\ op.pc = "saving" /\ op.next = "retry" => Status(op.run, op.step) = "pending"

HistoryOK ==
    /\ durable \in BOOLEAN
    /\ spent \in Nat /\ begun \in 0..MaxBegun /\ faults \in 0..MaxFaults
    /\ calls \in [Step -> Nat] /\ done \subseteq Step
    /\ returned \in RunStatuses \cup {"none"}
    /\ disturbed \subseteq {"overlap", "crash", "rejection", "cancel"}

WorkflowInv ==
    /\ HistoryOK
    /\ DOMAIN act = Activation /\ act = [a \in Activation |-> act[a]]
    /\ GoodRun(stored, done)
    /\ \A a \in Activation : GoodOp(act[a], done)

-----------------------------------------------------------------------------
(* What the operators on a copy of the run preserve. *)

(* What more is done does not spoil a run or an operation. *)
LEMMA GoodWithMore ==
    ASSUME NEW D, NEW E, D \subseteq E
    PROVE  /\ \A run : GoodRun(run, D) => GoodRun(run, E)
           /\ \A op : GoodOp(op, D) => GoodOp(op, E)
  BY DEF GoodRun, GoodOp

LEMMA FreshIsGood ==
    ASSUME NEW D
    PROVE  GoodRun(Fresh, D) /\ GoodOp(Idle, D)
<1>1. Fresh \in Run
  BY ValidDefinition DEF Fresh, Run, RunStatuses, StepStatuses
<1>2. GoodRun(Fresh, D)
  BY <1>1, ValidDefinition DEF GoodRun, Fresh, Status, Exhausted
<1>3. Idle \in Operation
  BY <1>1 DEF Idle, Operation, Nexts
<1> QED
  BY <1>2, <1>3 DEF GoodOp, Idle, Working

(* Changing the status of a run or of a step to one that claims nothing new.  *)
LEMMA MarkedIsGood ==
    ASSUME NEW D, NEW run, GoodRun(run, D), NEW s \in Step, NEW status \in StepStatuses,
           status = "pending" => ~Exhausted(run, s),
           status = "completed" => s \in D,
           run.status # "completed"
    PROVE  /\ GoodRun(Marked(run, s, status), D)
           /\ Marked(run, s, status).status = run.status
           /\ Status(Marked(run, s, status), s) = status
<1>1. run \in [status : RunStatuses, steps : [Step -> [status : StepStatuses, attempts : Nat]]]
  BY DEF GoodRun, Run
<1>2. Marked(run, s, status) =
         [status |-> run.status,
          steps |-> [t \in Step |->
             [status |-> IF t = s THEN status ELSE run.steps[t].status,
              attempts |-> run.steps[t].attempts]]]
  BY <1>1 DEF Marked
<1>3. Marked(run, s, status) \in Run
  BY <1>1, <1>2 DEF Run, GoodRun
<1> QED
  BY <1>1, <1>2, <1>3 DEF GoodRun, Status, Exhausted

LEMMA StatusIsGood ==
    ASSUME NEW D, NEW run, GoodRun(run, D), NEW status \in RunStatuses,
           status = "completed" => \A s \in Step : Status(run, s) = "completed"
    PROVE  GoodRun([run EXCEPT !.status = status], D)
<1>1. run \in [status : RunStatuses, steps : [Step -> [status : StepStatuses, attempts : Nat]]]
  BY DEF GoodRun, Run
<1>2. [run EXCEPT !.status = status] = [status |-> status, steps |-> run.steps]
  BY <1>1
<1>3. [run EXCEPT !.status = status] \in Run
  BY <1>1, <1>2 DEF Run, GoodRun
<1> QED
  BY <1>1, <1>2, <1>3 DEF GoodRun, Status, Exhausted

(* An attempt that is left may begin. *)
LEMMA AttemptBegunIsGood ==
    ASSUME NEW D, NEW run, GoodRun(run, D), NEW s \in Step, ~Exhausted(run, s),
           run.status # "completed"
    PROVE  /\ GoodRun(AttemptBegun(run, s), D)
           /\ AttemptBegun(run, s).status = run.status
<1>1. run \in [status : RunStatuses, steps : [Step -> [status : StepStatuses, attempts : Nat]]]
  BY DEF GoodRun, Run
<1>2. AttemptBegun(run, s) =
         [status |-> run.status,
          steps |-> [t \in Step |->
             [status |-> IF t = s THEN "running" ELSE run.steps[t].status,
              attempts |-> IF t = s THEN run.steps[t].attempts + 1 ELSE run.steps[t].attempts]]]
  BY <1>1 DEF AttemptBegun
<1>3. run.steps[s].attempts + 1 <= MaxAttempts[s]
  BY <1>1, ValidDefinition DEF Exhausted
<1>4. AttemptBegun(run, s) \in Run
  BY <1>1, <1>2, <1>3 DEF Run, GoodRun, StepStatuses
<1> QED
  BY <1>1, <1>2, <1>4 DEF GoodRun, Status, Exhausted

LEMMA FailedIsGood ==
    ASSUME NEW D, NEW run, GoodRun(run, D), NEW s \in Step, run.status # "completed"
    PROVE  GoodRun(Failed(run, s), D)
<1>1. GoodRun(Marked(run, s, "failed"), D)
  BY MarkedIsGood DEF StepStatuses
<1> QED
  BY <1>1, StatusIsGood DEF Failed, RunStatuses

LEMMA PausedIsGood ==
    ASSUME NEW D, NEW run, GoodRun(run, D), NEW s \in Step, run.status # "completed"
    PROVE  GoodRun(Paused(run, s), D)
<1>1. GoodRun(Marked(run, s, "awaiting_approval"), D)
  BY MarkedIsGood DEF StepStatuses
<1> QED
  BY <1>1, StatusIsGood DEF Paused, RunStatuses

LEMMA ClosedIsGood ==
    ASSUME NEW D, NEW run, GoodRun(run, D)
    PROVE  GoodRun(Closed(run), D)
  BY StatusIsGood DEF Closed, AllStepsCompleted, RunStatuses
-----------------------------------------------------------------------------
(* What the operators on an operation preserve. *)

LEMMA SavingIsGood ==
    ASSUME NEW D, NEW op \in Operation, NEW run, GoodRun(run, D),
           NEW s \in Step \cup {NoStep}, NEW next \in Nexts,
           next \in {"call", "settle", "retry"} =>
              s \in Step /\ run.status = "running" /\ DependsOn[s] \subseteq D,
           next = "proceed" => run.status = "running",
           next = "retry" => Status(run, s) = "pending"
    PROVE  GoodOp(Saving(op, run, s, next), D)
<1>1. run \in Run
  BY DEF GoodRun
<1>2. Saving(op, run, s, next) =
         [pc |-> "saving", run |-> run, step |-> s, handlers |-> op.handlers, next |-> next]
  BY DEF Saving
<1>3. Saving(op, run, s, next) \in Operation
  BY <1>1, <1>2 DEF Operation
<1> QED
  BY <1>2, <1>3 DEF GoodOp, Working

(* An operation at work on a step may begin an attempt that is left. *)
LEMMA AttemptIsGood ==
    ASSUME NEW D, NEW op \in Operation, GoodRun(op.run, D), op.run.status = "running",
           NEW s \in Step, ~Exhausted(op.run, s), DependsOn[s] \subseteq D
    PROVE  GoodOp(Attempt(op, s), D)
<1>1. CASE Denied(s)
  <2>1. GoodRun(Failed(op.run, s), D)
    BY FailedIsGood
  <2> QED
    BY <1>1, <2>1, SavingIsGood DEF Attempt, Nexts
<1>2. CASE ~Denied(s)
  <2>1. /\ GoodRun(AttemptBegun(op.run, s), D)
        /\ AttemptBegun(op.run, s).status = "running"
    BY AttemptBegunIsGood
  <2> QED
    BY <1>2, <2>1, SavingIsGood DEF Attempt, Nexts
<1> QED
  BY <1>1, <1>2

(* The way to the next save leads to a step whose dependencies were done. *)
LEMMA ProceedIsGood ==
    ASSUME NEW D, NEW op \in Operation, GoodRun(op.run, D), op.run.status = "running",
           NEW op2 \in Proceed(op)
    PROVE  GoodOp(op2, D)
<1>1. CASE Runnable(op.run) = {}
  <2>1. op2 = Saving(op, Closed(op.run), NoStep, "return")
    BY <1>1 DEF Proceed
  <2>2. GoodRun(Closed(op.run), D)
    BY ClosedIsGood
  <2> QED
    BY <2>1, <2>2, SavingIsGood DEF Nexts
<1>2. CASE Runnable(op.run) # {}
  <2>1. PICK s \in NextRunnable(op.run) :
           op2 = IF s \in Approval THEN Saving(op, Paused(op.run, s), s, "return")
                 ELSE IF s \notin op.handlers THEN Saving(op, Failed(op.run, s), s, "return")
                 ELSE Attempt(op, s)
    BY <1>2 DEF Proceed
  <2>2. /\ s \in Step /\ Status(op.run, s) = "pending"
        /\ \A d \in DependsOn[s] : Status(op.run, d) = "completed"
    BY DEF NextRunnable, Runnable
  <2>3. ~Exhausted(op.run, s) /\ DependsOn[s] \subseteq D
    BY <2>2, ValidDefinition DEF GoodRun
  <2>4. CASE s \in Approval
    <3>1. GoodRun(Paused(op.run, s), D)
      BY <2>2, PausedIsGood
    <3> QED
      BY <2>1, <2>2, <2>4, <3>1, SavingIsGood DEF Nexts
  <2>5. CASE s \notin Approval /\ s \notin op.handlers
    <3>1. GoodRun(Failed(op.run, s), D)
      BY <2>2, FailedIsGood
    <3> QED
      BY <2>1, <2>2, <2>5, <3>1, SavingIsGood DEF Nexts
  <2>6. CASE s \notin Approval /\ s \in op.handlers
    BY <2>1, <2>2, <2>3, <2>6, AttemptIsGood
  <2> QED
    BY <2>4, <2>5, <2>6
<1> QED
  BY <1>1, <1>2

(* The catch clause fails the step or leaves it pending with an attempt left. *)
LEMMA CaughtIsGood ==
    ASSUME NEW D, NEW op, GoodOp(op, D), Working(op)
    PROVE  GoodOp(Caught(op), D)
<1>1. /\ op \in Operation /\ GoodRun(op.run, D)
      /\ op.step \in Step /\ op.run.status = "running" /\ DependsOn[op.step] \subseteq D
  BY DEF GoodOp
<1>2. CASE Exhausted(op.run, op.step)
  <2>1. GoodRun(Failed(op.run, op.step), D)
    BY <1>1, FailedIsGood
  <2> QED
    BY <1>1, <1>2, <2>1, SavingIsGood DEF Caught, Nexts
<1>3. CASE ~Exhausted(op.run, op.step)
  <2>1. /\ GoodRun(Marked(op.run, op.step, "pending"), D)
        /\ Marked(op.run, op.step, "pending").status = "running"
        /\ Status(Marked(op.run, op.step, "pending"), op.step) = "pending"
    BY <1>1, <1>3, MarkedIsGood DEF StepStatuses
  <2> QED
    BY <1>1, <1>3, <2>1, SavingIsGood DEF Caught, Nexts
<1> QED
  BY <1>2, <1>3
-----------------------------------------------------------------------------
(* The invariant. *)

LEMMA WorkflowInit == Init => WorkflowInv
<1> SUFFICES ASSUME Init PROVE WorkflowInv
  OBVIOUS
<1>1. GoodRun(Fresh, done) /\ GoodOp(Idle, done)
  BY FreshIsGood
<1> QED
  BY <1>1, WorkflowConstants DEF Init, WorkflowInv, HistoryOK

(* A step that only changes what one operation does. *)
LEMMA OneOperation ==
    ASSUME WorkflowInv, NEW a \in Activation, NEW op, act' = [act EXCEPT ![a] = op],
           done \subseteq done', GoodOp(op, done'), GoodRun(stored', done'), HistoryOK'
    PROVE  WorkflowInv'
<1>1. \A b \in Activation : GoodOp(act'[b], done')
  BY GoodWithMore DEF WorkflowInv
<1> QED
  BY <1>1 DEF WorkflowInv

LEMMA BeginHistory ==
    ASSUME HistoryOK, begun < MaxBegun, begun' = begun + 1, done' \subseteq Step,
           disturbed' \subseteq {"overlap", "crash", "rejection", "cancel"},
           durable' = durable, spent' = spent, faults' = faults,
           calls' = calls, returned' = returned
    PROVE  HistoryOK'
  BY WorkflowConstants DEF HistoryOK

LEMMA BeginInv ==
    ASSUME WorkflowInv, NEW a \in Activation,
           NEW handlers \in Catalog \cup {{}}, NEW run, NEW next \in {"proceed", "reply"},
           Begin(a, run, handlers, next), done \subseteq done', GoodRun(run, done'),
           next = "proceed" => run.status = "running",
           stored' = stored, HistoryOK'
    PROVE  WorkflowInv'
<1> DEFINE op == [Idle EXCEPT !.handlers = handlers]
<1>1. op \in Operation
  BY FreshIsGood DEF GoodOp, GoodRun, Operation
<1>2. GoodOp(Saving(op, run, NoStep, next), done')
  BY <1>1, SavingIsGood DEF Nexts
<1>3. GoodRun(stored', done')
  BY GoodWithMore DEF WorkflowInv
<1>4. act' = [act EXCEPT ![a] = Saving(op, run, NoStep, next)]
  BY DEF Begin
<1> QED
  BY <1>2, <1>3, <1>4, OneOperation

LEMMA OperationsInv ==
    ASSUME WorkflowInv, NEW a \in Activation,
           \/ \E handlers \in Catalog : RunUntilBlocked(a, handlers)
           \/ \E s \in Step, p \in Person : ApproveStep(a, s, p)
           \/ Cancel(a)
    PROVE  WorkflowInv'
<1> USE DEF WorkflowInv
<1>1. ASSUME NEW handlers \in Catalog, RunUntilBlocked(a, handlers) PROVE WorkflowInv'
  <2>1. GoodRun([stored EXCEPT !.status = "running"], done)
    BY StatusIsGood DEF RunStatuses
  <2>2. HistoryOK'
    <3>1. /\ begun < MaxBegun /\ begun' = begun + 1
          /\ durable' = durable /\ spent' = spent /\ faults' = faults
          /\ calls' = calls /\ returned' = returned
      BY <1>1 DEF RunUntilBlocked, Begin
    <3>2. done' \subseteq Step
      BY <1>1 DEF RunUntilBlocked, HistoryOK
    <3>3. disturbed' \subseteq {"overlap", "crash", "rejection", "cancel"}
      BY <1>1 DEF RunUntilBlocked, HistoryOK, Overlap
    <3> QED
      BY <3>1, <3>2, <3>3, BeginHistory
  <2>3. [stored EXCEPT !.status = "running"].status = "running"
    BY DEF GoodRun, Run
  <2> QED
    BY <1>1, <2>1, <2>2, <2>3, BeginInv DEF RunUntilBlocked
<1>2. ASSUME NEW s \in Step, NEW p \in Person, ApproveStep(a, s, p) PROVE WorkflowInv'
  <2>1. stored.status # "completed"
    BY <1>2 DEF ApproveStep, GoodRun
  <2>2. done' = done \cup {s} /\ GoodRun(stored, done')
    BY <1>2, GoodWithMore DEF ApproveStep
  <2>3. GoodRun(Marked(stored, s, "completed"), done')
    BY <2>1, <2>2, MarkedIsGood DEF StepStatuses
  <2>4. GoodRun([Marked(stored, s, "completed") EXCEPT !.status = "running"], done')
    BY <2>3, StatusIsGood DEF RunStatuses
  <2>5. HistoryOK'
    <3>1. /\ begun < MaxBegun /\ begun' = begun + 1
          /\ durable' = durable /\ spent' = spent /\ faults' = faults
          /\ calls' = calls /\ returned' = returned
      BY <1>2 DEF ApproveStep, Begin
    <3>2. done' \subseteq Step
      BY <1>2 DEF ApproveStep, HistoryOK
    <3>3. disturbed' \subseteq {"overlap", "crash", "rejection", "cancel"}
      BY <1>2 DEF ApproveStep, HistoryOK, Overlap
    <3> QED
      BY <3>1, <3>2, <3>3, BeginHistory
  <2> QED
    BY <1>2, <2>2, <2>4, <2>5, BeginInv DEF ApproveStep
<1>3. ASSUME Cancel(a) PROVE WorkflowInv'
  <2>1. GoodRun([stored EXCEPT !.status = "failed"], done)
    BY StatusIsGood DEF RunStatuses
  <2>2. HistoryOK'
    <3>1. /\ begun < MaxBegun /\ begun' = begun + 1
          /\ durable' = durable /\ spent' = spent /\ faults' = faults
          /\ calls' = calls /\ returned' = returned
      BY <1>3 DEF Cancel, Begin
    <3>2. done' \subseteq Step
      BY <1>3 DEF Cancel, HistoryOK
    <3>3. disturbed' \subseteq {"overlap", "crash", "rejection", "cancel"}
      BY <1>3 DEF Cancel, HistoryOK, Overlap
    <3> QED
      BY <3>1, <3>2, <3>3, BeginHistory
  <2> QED
    BY <1>3, <2>1, <2>2, BeginInv DEF Cancel
<1> QED
  BY <1>1, <1>2, <1>3
(* A save arrives: what was in the operation's copy is in the store. *)
LEMMA SavesInv ==
    ASSUME WorkflowInv, NEW a \in Activation,
           \/ ProceedAfterSave(a) \/ CallAfterSave(a) \/ RetryAfterSave(a)
           \/ ReturnAfterSave(a) \/ ReplyAfterSave(a)
    PROVE  WorkflowInv'
<1>1. GoodOp(act[a], done) /\ GoodRun(act[a].run, done) /\ act[a] \in Operation
  BY DEF WorkflowInv, GoodOp
<1>2. ASSUME NEW next, SaveReturns(a, next), NEW op, act' = [act EXCEPT ![a] = op],
             GoodOp(op, done), calls' \in [Step -> Nat],
             returned' \in RunStatuses \cup {"none"}
      PROVE  WorkflowInv'
  <2>1. done' = done /\ GoodRun(stored', done')
    BY <1>1, <1>2 DEF SaveReturns
  <2>2. HistoryOK'
    BY <1>2 DEF SaveReturns, WorkflowInv, HistoryOK
  <2> QED
    BY <1>2, <2>1, <2>2, OneOperation
<1>3. calls \in [Step -> Nat] /\ returned \in RunStatuses \cup {"none"}
  BY DEF WorkflowInv, HistoryOK
<1>4. CASE ProceedAfterSave(a)
  <2>1. PICK next \in {"proceed", "settle"} : SaveReturns(a, next)
    BY <1>4 DEF ProceedAfterSave
  <2>2. PICK op \in Proceed(act[a]) : act' = [act EXCEPT ![a] = op]
    BY <1>4 DEF ProceedAfterSave
  <2>3. act[a].run.status = "running"
    BY <1>1, <2>1 DEF SaveReturns, GoodOp, Working
  <2>4. GoodOp(op, done)
    BY <1>1, <2>3, ProceedIsGood
  <2> QED
    BY <1>2, <1>3, <1>4, <2>1, <2>2, <2>4 DEF ProceedAfterSave
<1>5. CASE CallAfterSave(a)
  <2> DEFINE op == [act[a] EXCEPT !.pc = "calling"]
  <2>1. act' = [act EXCEPT ![a] = op]
    BY <1>5 DEF CallAfterSave
  <2>2. act[a].pc = "saving" /\ act[a].next = "call"
    BY <1>5 DEF CallAfterSave, SaveReturns
  <2>3. op = [pc |-> "calling", run |-> act[a].run, step |-> act[a].step,
              handlers |-> act[a].handlers, next |-> act[a].next]
    BY <1>1 DEF Operation
  <2>4. op \in Operation
    BY <1>1, <2>3 DEF Operation
  <2>5. GoodOp(op, done)
    BY <1>1, <2>2, <2>3, <2>4 DEF GoodOp, Working
  <2>6. act[a].step \in Step
    BY <1>1, <2>2 DEF GoodOp, Working
  <2>7. calls' \in [Step -> Nat]
    BY <1>3, <1>5, <2>6 DEF CallAfterSave
  <2> QED
    BY <1>2, <1>3, <1>5, <2>1, <2>5, <2>7 DEF CallAfterSave
<1>6. CASE RetryAfterSave(a)
  <2>1. act[a].pc = "saving" /\ act[a].next = "retry"
    BY <1>6 DEF RetryAfterSave, SaveReturns
  <2>2. /\ act[a].step \in Step /\ act[a].run.status = "running"
        /\ DependsOn[act[a].step] \subseteq done
        /\ ~Exhausted(act[a].run, act[a].step)
    BY <1>1, <2>1 DEF GoodOp, GoodRun, Working
  <2>3. GoodOp(Attempt(act[a], act[a].step), done)
    BY <1>1, <2>2, AttemptIsGood
  <2> QED
    BY <1>2, <1>3, <1>6, <2>3 DEF RetryAfterSave
<1>7. CASE ReturnAfterSave(a)
  <2>1. act[a].run.status \in RunStatuses
    BY <1>1 DEF GoodRun, Run
  <2> QED
    BY <1>2, <1>3, <1>7, <2>1, FreshIsGood DEF ReturnAfterSave
<1>8. CASE ReplyAfterSave(a)
  BY <1>2, <1>3, <1>8, FreshIsGood DEF ReplyAfterSave
<1> QED
  BY <1>4, <1>5, <1>6, <1>7, <1>8

(* A save is rejected, a handler returns or throws. *)
LEMMA OutcomesInv ==
    ASSUME WorkflowInv, NEW a \in Activation,
           SaveFails(a) \/ HandlerReturns(a) \/ HandlerThrows(a)
    PROVE  WorkflowInv'
<1>1. GoodOp(act[a], done) /\ GoodRun(act[a].run, done) /\ act[a] \in Operation
  BY DEF WorkflowInv, GoodOp
<1>2. GoodRun(stored, done)
  BY DEF WorkflowInv
<1>3. CASE SaveFails(a)
  <2>1. GoodOp(IF act[a].next = "settle" THEN Caught(act[a]) ELSE Idle, done)
    BY <1>1, <1>3, CaughtIsGood, FreshIsGood DEF SaveFails, Working
  <2>2. done' = done /\ GoodRun(stored', done')
    BY <1>1, <1>2, <1>3 DEF SaveFails
  <2>3. act' = [act EXCEPT ![a] =
                   IF act[a].next = "settle" THEN Caught(act[a]) ELSE Idle]
    BY <1>3 DEF SaveFails
  <2>4. faults' \in 0..MaxFaults
    BY <1>3, WorkflowConstants DEF SaveFails, WorkflowInv, HistoryOK
  <2>5. HistoryOK'
    BY <1>3, <2>4 DEF SaveFails, WorkflowInv, HistoryOK
  <2> QED
    BY <2>1, <2>2, <2>3, <2>5, OneOperation
<1>4. CASE HandlerReturns(a)
  <2> DEFINE s == act[a].step
  <2> DEFINE op == Saving(act[a], Marked(act[a].run, s, "completed"), s, "settle")
  <2>1. /\ s \in Step /\ act[a].run.status = "running"
        /\ DependsOn[s] \subseteq done
    BY <1>1, <1>4 DEF HandlerReturns, GoodOp, Working
  <2>2. done' = done \cup {s} /\ stored' = stored
    BY <1>4 DEF HandlerReturns
  <2>3. GoodRun(act[a].run, done') /\ GoodRun(stored', done')
    BY <1>1, <1>2, <2>2, GoodWithMore
  <2>4. /\ GoodRun(Marked(act[a].run, s, "completed"), done')
        /\ Marked(act[a].run, s, "completed").status = "running"
    BY <2>1, <2>2, <2>3, MarkedIsGood DEF StepStatuses
  <2>5. GoodOp(op, done')
    BY <1>1, <2>1, <2>2, <2>4, SavingIsGood DEF Nexts
  <2>6. act' = [act EXCEPT ![a] = op]
    BY <1>4 DEF HandlerReturns
  <2>7. spent' \in Nat
    BY <1>4, <2>1, WorkflowConstants DEF HandlerReturns, WorkflowInv, HistoryOK
  <2>8. HistoryOK'
    BY <1>4, <2>1, <2>2, <2>7 DEF HandlerReturns, WorkflowInv, HistoryOK
  <2> QED
    BY <2>2, <2>3, <2>5, <2>6, <2>8, OneOperation
<1>5. CASE HandlerThrows(a)
  <2>1. GoodOp(Caught(act[a]), done)
    BY <1>1, <1>5, CaughtIsGood DEF HandlerThrows, Working
  <2>2. HistoryOK'
    BY <1>5 DEF HandlerThrows, WorkflowInv, HistoryOK
  <2> QED
    BY <1>2, <1>5, <2>1, <2>2, OneOperation DEF HandlerThrows
<1> QED
  BY <1>3, <1>4, <1>5

LEMMA CrashInv ==
    ASSUME WorkflowInv, Crash
    PROVE  WorkflowInv'
<1>1. done' = done /\ stored' = stored /\ act' = [a \in Activation |-> Idle]
  BY DEF Crash
<1>2. \A a \in Activation : GoodOp(act'[a], done')
  BY <1>1, FreshIsGood
<1>3. faults' \in 0..MaxFaults
  BY WorkflowConstants DEF Crash, WorkflowInv, HistoryOK
<1>4. HistoryOK'
  BY <1>3 DEF Crash, WorkflowInv, HistoryOK
<1> QED
  BY <1>1, <1>2, <1>4 DEF WorkflowInv

LEMMA WorkflowStep == WorkflowInv /\ [Next]_vars => WorkflowInv'
<1> SUFFICES ASSUME WorkflowInv, [Next]_vars PROVE WorkflowInv'
  OBVIOUS
<1>1. CASE UNCHANGED vars
  BY <1>1 DEF vars, WorkflowInv, HistoryOK
<1>2. CASE Crash
  BY <1>2, CrashInv
<1>3. CASE \E a \in Activation :
              \/ \E handlers \in Catalog : RunUntilBlocked(a, handlers)
              \/ \E s \in Step, p \in Person : ApproveStep(a, s, p)
              \/ Cancel(a)
  BY <1>3, OperationsInv
<1>4. CASE \E a \in Activation :
              \/ ProceedAfterSave(a) \/ CallAfterSave(a) \/ RetryAfterSave(a)
              \/ ReturnAfterSave(a) \/ ReplyAfterSave(a)
  BY <1>4, SavesInv
<1>5. CASE \E a \in Activation : SaveFails(a) \/ HandlerReturns(a) \/ HandlerThrows(a)
  BY <1>5, OutcomesInv
<1> QED
  BY <1>1, <1>2, <1>3, <1>4, <1>5 DEF Next

-----------------------------------------------------------------------------
(* The invariant holds in every reachable state. *)
THEOREM WorkflowInvariant == Spec => []WorkflowInv
  BY WorkflowInit, WorkflowStep, PTL DEF Spec

(* The store and every operation's copy are runs of the workflow, no step of   *)
(* them began more attempts than it may, and a pending step has one left.     *)
THEOREM WorkflowTypeOK == Spec => []TypeOK
<1>1. WorkflowInv => TypeOK
  <2> SUFFICES ASSUME WorkflowInv PROVE TypeOK
    OBVIOUS
  <2>1. \A a \in Activation : act[a] \in Operation /\ GoodRun(act[a].run, done)
    BY DEF WorkflowInv, GoodOp
  <2>2. act \in [Activation -> Operation]
    BY <2>1 DEF WorkflowInv
  <2>3. stored \in Run
    BY DEF WorkflowInv, GoodRun
  <2>4. \A run \in Copies, s \in Step : Status(run, s) = "pending" => ~Exhausted(run, s)
    BY <2>1 DEF WorkflowInv, GoodRun, Copies
  <2> QED
    BY <2>2, <2>3, <2>4 DEF TypeOK, WorkflowInv, HistoryOK
<1> QED
  BY <1>1, WorkflowInvariant, PTL

(* However many operations overlap, crash, fail to save or cancel: a handler   *)
(* is called only after every dependency of its step succeeded or was approved *)
(* by one of its approvers (_nextRunnableStep, approveStep).                  *)
THEOREM HandlersWaitForDependencies == Spec => []DependenciesFirst
<1>1. WorkflowInv => DependenciesFirst
  BY DEF WorkflowInv, DependenciesFirst, Calling, GoodOp, Working
<1> QED
  BY <1>1, WorkflowInvariant, PTL

(* Neither the store nor an operation ever holds a run that says completed     *)
(* before every task succeeded and every approval was given.                  *)
THEOREM CompletedRunsAreDone == Spec => []CompletionHonest
<1>1. WorkflowInv => CompletionHonest
  <2> SUFFICES ASSUME WorkflowInv, NEW run \in Copies, run.status = "completed"
               PROVE  done = Step
    BY DEF CompletionHonest
  <2>1. GoodRun(run, done)
    BY DEF WorkflowInv, GoodOp, Copies
  <2>2. Step \subseteq done
    BY <2>1 DEF GoodRun
  <2> QED
    BY <2>2 DEF WorkflowInv, HistoryOK
<1> QED
  BY <1>1, WorkflowInvariant, PTL
-----------------------------------------------------------------------------
(***************************************************************************)
(* maxAttempts across crashes.  The store counts the attempts, not the      *)
(* calls; while operations do not overlap, every call is counted before it  *)
(* is made, in the store and in the copy of the operation that makes it.    *)
(***************************************************************************)
Counts(run, made) == \A s \in Step : made[s] <= run.steps[s].attempts

CountsOp(op, made) ==
    op.pc # "idle" =>
        /\ Counts(op.run, made)
        /\ op.pc = "saving" /\ op.next = "call" =>
              made[op.step] + 1 <= op.run.steps[op.step].attempts

CountInv ==
    "overlap" \notin disturbed =>
        /\ \A a, b \in Activation : act[a].pc # "idle" /\ act[b].pc # "idle" => a = b
        /\ Counts(stored, calls)
        /\ \A a \in Activation : CountsOp(act[a], calls)

(* A status says nothing of attempts. *)
LEMMA StatusKeepsCounts ==
    ASSUME NEW made, NEW run \in Run, Counts(run, made), NEW s \in Step,
           NEW status, NEW status2
    PROVE  /\ Counts([run EXCEPT !.status = status2], made)
           /\ Counts(Marked(run, s, status), made)
           /\ Counts([Marked(run, s, status) EXCEPT !.status = status2], made)
<1>1. run \in [status : RunStatuses, steps : [Step -> [status : StepStatuses, attempts : Nat]]]
  BY DEF Run
<1>2. /\ [run EXCEPT !.status = status2].steps = run.steps
      /\ [Marked(run, s, status) EXCEPT !.status = status2].steps = Marked(run, s, status).steps
  BY <1>1 DEF Marked
<1>3. \A t \in Step : Marked(run, s, status).steps[t].attempts = run.steps[t].attempts
  BY <1>1 DEF Marked
<1> QED
  BY <1>2, <1>3 DEF Counts

LEMMA AttemptCounts ==
    ASSUME NEW made \in [Step -> Nat], NEW op, op.run \in Run, Counts(op.run, made),
           NEW s \in Step
    PROVE  CountsOp(Attempt(op, s), made)
<1>1. CASE Denied(s)
  <2>1. Counts(Failed(op.run, s), made)
    BY StatusKeepsCounts DEF Failed
  <2> QED
    BY <1>1, <2>1 DEF Attempt, Saving, CountsOp
<1>2. CASE ~Denied(s)
  <2> DEFINE run == AttemptBegun(op.run, s)
  <2>1. op.run \in [status : RunStatuses,
                    steps : [Step -> [status : StepStatuses, attempts : Nat]]]
    BY DEF Run
  <2>2. \A t \in Step : run.steps[t].attempts =
           IF t = s THEN op.run.steps[t].attempts + 1 ELSE op.run.steps[t].attempts
    BY <2>1 DEF AttemptBegun
  <2>3. \A t \in Step : made[t] \in Nat /\ op.run.steps[t].attempts \in Nat
    BY <2>1
  <2>4. Counts(run, made) /\ made[s] + 1 <= run.steps[s].attempts
    BY <2>2, <2>3 DEF Counts
  <2>5. Attempt(op, s) = Saving(op, run, s, "call")
    BY <1>2 DEF Attempt
  <2> HIDE DEF run
  <2> QED
    BY <2>4, <2>5 DEF Saving, CountsOp
<1> QED
  BY <1>1, <1>2

LEMMA ProceedCounts ==
    ASSUME NEW made \in [Step -> Nat], NEW op, op.run \in Run, Counts(op.run, made),
           NEW op2 \in Proceed(op)
    PROVE  CountsOp(op2, made)
<1>1. CASE Runnable(op.run) = {}
  <2>1. op2 = Saving(op, Closed(op.run), NoStep, "return")
    BY <1>1 DEF Proceed
  <2>2. PICK s \in Step : TRUE
    BY ValidDefinition
  <2>3. Counts(Closed(op.run), made)
    BY <2>2, StatusKeepsCounts DEF Closed
  <2> QED
    BY <2>1, <2>3 DEF Saving, CountsOp
<1>2. CASE Runnable(op.run) # {}
  <2>1. PICK s \in NextRunnable(op.run) :
           op2 = IF s \in Approval THEN Saving(op, Paused(op.run, s), s, "return")
                 ELSE IF s \notin op.handlers THEN Saving(op, Failed(op.run, s), s, "return")
                 ELSE Attempt(op, s)
    BY <1>2 DEF Proceed
  <2>2. s \in Step
    BY DEF NextRunnable, Runnable
  <2>3. Counts(Paused(op.run, s), made) /\ Counts(Failed(op.run, s), made)
    BY <2>2, StatusKeepsCounts DEF Paused, Failed
  <2>4. CountsOp(Attempt(op, s), made)
    BY <2>2, AttemptCounts
  <2> QED
    BY <2>1, <2>3, <2>4 DEF Saving, CountsOp
<1> QED
  BY <1>1, <1>2

LEMMA CaughtCounts ==
    ASSUME NEW made, NEW op, op.run \in Run, op.step \in Step, Counts(op.run, made)
    PROVE  CountsOp(Caught(op), made)
<1>1. /\ Counts(Failed(op.run, op.step), made)
      /\ Counts(Marked(op.run, op.step, "pending"), made)
  BY StatusKeepsCounts DEF Failed
<1> QED
  BY <1>1 DEF Caught, Saving, CountsOp

LEMMA CountInit == Init => CountInv
<1> SUFFICES ASSUME Init PROVE CountInv
  OBVIOUS
<1>1. \A a \in Activation : act[a].pc = "idle"
  BY DEF Init, Idle
<1>2. Counts(stored, calls)
  BY DEF Init, Fresh, Counts
<1> QED
  BY <1>1, <1>2 DEF CountInv, CountsOp

(* A step of an operation that was alone. *)
LEMMA OneCounts ==
    ASSUME WorkflowInv, CountInv, NEW a \in Activation, NEW op,
           act' = [act EXCEPT ![a] = op],
           act[a].pc # "idle" \/ (\A b \in Activation : act[b].pc = "idle"),
           "overlap" \notin disturbed,
           Counts(stored', calls'), CountsOp(op, calls')
    PROVE  CountInv'
<1>1. \A b \in Activation \ {a} : act'[b].pc = "idle"
  BY DEF CountInv, WorkflowInv
<1>2. act'[a] = op
  BY DEF WorkflowInv
<1> QED
  BY <1>1, <1>2 DEF CountInv, CountsOp

LEMMA CountStep == WorkflowInv /\ CountInv /\ [Next]_vars => CountInv'
<1> SUFFICES ASSUME WorkflowInv, CountInv, [Next]_vars, "overlap" \notin disturbed'
             PROVE  CountInv'
  BY DEF CountInv
<1>a. /\ stored \in Run /\ calls \in [Step -> Nat]
      /\ \A b \in Activation : act[b] \in Operation /\ act[b].run \in Run
  BY DEF WorkflowInv, GoodRun, GoodOp, HistoryOK
<1>1. CASE UNCHANGED vars
  BY <1>1 DEF vars, CountInv
<1>2. CASE Crash
  <2>1. /\ act' = [a \in Activation |-> Idle] /\ stored' = stored /\ calls' = calls
        /\ "overlap" \notin disturbed
    BY <1>2 DEF Crash
  <2>2. \A a \in Activation : act'[a].pc = "idle"
    BY <2>1 DEF Idle
  <2> QED
    BY <2>1, <2>2 DEF CountInv, CountsOp
<1>3. ASSUME NEW a \in Activation, NEW run, NEW handlers, NEW next \in {"proceed", "reply"},
             Begin(a, run, handlers, next), Overlap \subseteq disturbed',
             disturbed \subseteq disturbed', stored' = stored, calls' = calls,
             Counts(stored, calls) => Counts(run, calls)
      PROVE  CountInv'
  <2> DEFINE op == Saving([Idle EXCEPT !.handlers = handlers], run, NoStep, next)
  <2>1. act' = [act EXCEPT ![a] = op]
    BY <1>3 DEF Begin
  <2>2. \A b \in Activation : act[b].pc = "idle"
    BY <1>3 DEF Overlap
  <2>3. Counts(stored, calls) /\ Counts(run, calls)
    BY <1>3 DEF CountInv
  <2>4. CountsOp(op, calls)
    BY <2>3 DEF Saving, CountsOp
  <2> HIDE DEF op
  <2> QED
    BY <1>3, <2>1, <2>2, <2>3, <2>4, OneCounts
<1>4. ASSUME NEW a \in Activation, NEW handlers \in Catalog, RunUntilBlocked(a, handlers)
      PROVE  CountInv'
  <2>1. PICK s \in Step : TRUE
    BY ValidDefinition
  <2>2. Counts(stored, calls) => Counts([stored EXCEPT !.status = "running"], calls)
    BY <1>a, <2>1, StatusKeepsCounts
  <2> QED
    BY <1>3, <1>4, <2>2 DEF RunUntilBlocked
<1>5. ASSUME NEW a \in Activation, NEW s \in Step, NEW p \in Person, ApproveStep(a, s, p)
      PROVE  CountInv'
  <2>1. Counts(stored, calls) =>
           Counts([Marked(stored, s, "completed") EXCEPT !.status = "running"], calls)
    BY <1>a, StatusKeepsCounts
  <2> QED
    BY <1>3, <1>5, <2>1 DEF ApproveStep
<1>6. ASSUME NEW a \in Activation, Cancel(a)
      PROVE  CountInv'
  <2>1. PICK s \in Step : TRUE
    BY ValidDefinition
  <2>2. Counts(stored, calls) => Counts([stored EXCEPT !.status = "failed"], calls)
    BY <1>a, <2>1, StatusKeepsCounts
  <2> QED
    BY <1>3, <1>6, <2>2 DEF Cancel
<1>7. ASSUME NEW a \in Activation, NEW next, SaveReturns(a, next), NEW op,
             act' = [act EXCEPT ![a] = op], calls' = calls,
             Counts(act[a].run, calls) => CountsOp(op, calls)
      PROVE  CountInv'
  <2>1. act[a].pc # "idle" /\ stored' = act[a].run /\ "overlap" \notin disturbed
    BY <1>7 DEF SaveReturns
  <2>2. Counts(act[a].run, calls)
    BY <2>1 DEF CountInv, CountsOp
  <2> QED
    BY <1>7, <2>1, <2>2, OneCounts
<1>8. ASSUME NEW a \in Activation, ProceedAfterSave(a)
      PROVE  CountInv'
  <2>1. PICK next \in {"proceed", "settle"} : SaveReturns(a, next)
    BY <1>8 DEF ProceedAfterSave
  <2>2. PICK op \in Proceed(act[a]) : act' = [act EXCEPT ![a] = op]
    BY <1>8 DEF ProceedAfterSave
  <2>3. Counts(act[a].run, calls) => CountsOp(op, calls)
    BY <1>a, ProceedCounts
  <2> QED
    BY <1>7, <1>8, <2>1, <2>2, <2>3 DEF ProceedAfterSave
<1>9. ASSUME NEW a \in Activation, CallAfterSave(a)
      PROVE  CountInv'
  <2> DEFINE op == [act[a] EXCEPT !.pc = "calling"]
  <2>1. /\ act[a].pc = "saving" /\ act[a].next = "call" /\ stored' = act[a].run
        /\ "overlap" \notin disturbed /\ act' = [act EXCEPT ![a] = op]
    BY <1>9 DEF CallAfterSave, SaveReturns
  <2>2. /\ Counts(act[a].run, calls)
        /\ calls[act[a].step] + 1 <= act[a].run.steps[act[a].step].attempts
    BY <2>1 DEF CountInv, CountsOp
  <2>3. \A t \in Step : calls'[t] = calls[t] \/ (t = act[a].step /\ calls'[t] = calls[t] + 1)
    BY <1>a, <1>9 DEF CallAfterSave
  <2>4. Counts(act[a].run, calls')
    BY <2>2, <2>3 DEF Counts
  <2>5. op.pc = "calling" /\ op.run = act[a].run
    BY <1>a DEF Operation
  <2>6. CountsOp(op, calls')
    BY <2>4, <2>5 DEF CountsOp
  <2> HIDE DEF op
  <2> QED
    BY <2>1, <2>4, <2>6, OneCounts
<1>10. ASSUME NEW a \in Activation, RetryAfterSave(a)
       PROVE  CountInv'
  <2>1. act[a].step \in Step
    BY <1>10 DEF RetryAfterSave, SaveReturns, WorkflowInv, GoodOp, Working
  <2>2. Counts(act[a].run, calls) => CountsOp(Attempt(act[a], act[a].step), calls)
    BY <1>a, <2>1, AttemptCounts
  <2> QED
    BY <1>7, <1>10, <2>2 DEF RetryAfterSave
<1>11. ASSUME NEW a \in Activation, ReturnAfterSave(a) \/ ReplyAfterSave(a)
       PROVE  CountInv'
  <2>1. CountsOp(Idle, calls)
    BY DEF CountsOp, Idle
  <2> QED
    BY <1>7, <1>11, <2>1 DEF ReturnAfterSave, ReplyAfterSave
<1>12. ASSUME NEW a \in Activation, SaveFails(a)
       PROVE  CountInv'
  <2> DEFINE op == IF act[a].next = "settle" THEN Caught(act[a]) ELSE Idle
  <2>1. /\ act[a].pc = "saving" /\ calls' = calls /\ "overlap" \notin disturbed
        /\ act' = [act EXCEPT ![a] = op]
    BY <1>12 DEF SaveFails
  <2>2. Counts(stored, calls) /\ Counts(act[a].run, calls)
    BY <2>1 DEF CountInv, CountsOp
  <2>3. stored' = stored \/ stored' = act[a].run
    BY <1>12 DEF SaveFails
  <2>4. CASE act[a].next = "settle"
    <3>1. act[a].step \in Step
      BY <2>1, <2>4 DEF WorkflowInv, GoodOp, Working
    <3>2. CountsOp(Caught(act[a]), calls)
      BY <1>a, <2>2, <3>1, CaughtCounts
    <3> QED
      BY <2>1, <2>2, <2>3, <2>4, <3>2, OneCounts
  <2>5. CASE act[a].next # "settle"
    <3>1. CountsOp(Idle, calls)
      BY DEF CountsOp, Idle
    <3> QED
      BY <2>1, <2>2, <2>3, <2>5, <3>1, OneCounts
  <2> QED
    BY <2>4, <2>5
<1>13. ASSUME NEW a \in Activation, HandlerReturns(a) \/ HandlerThrows(a)
       PROVE  CountInv'
  <2>1. /\ act[a].pc = "calling" /\ calls' = calls /\ stored' = stored
        /\ "overlap" \notin disturbed
    BY <1>13 DEF HandlerReturns, HandlerThrows
  <2>2. Counts(stored, calls) /\ Counts(act[a].run, calls)
    BY <2>1 DEF CountInv, CountsOp
  <2>3. act[a].step \in Step
    BY <2>1 DEF WorkflowInv, GoodOp, Working
  <2>4. CASE HandlerReturns(a)
    <3> DEFINE op == Saving(act[a], Marked(act[a].run, act[a].step, "completed"),
                            act[a].step, "settle")
    <3>1. Counts(Marked(act[a].run, act[a].step, "completed"), calls)
      BY <1>a, <2>2, <2>3, StatusKeepsCounts
    <3>2. CountsOp(op, calls)
      BY <3>1 DEF Saving, CountsOp
    <3>3. act' = [act EXCEPT ![a] = op]
      BY <2>4 DEF HandlerReturns
    <3> HIDE DEF op
    <3> QED
      BY <2>1, <2>2, <3>2, <3>3, OneCounts
  <2>5. CASE HandlerThrows(a)
    <3>1. CountsOp(Caught(act[a]), calls)
      BY <1>a, <2>2, <2>3, CaughtCounts
    <3> QED
      BY <2>1, <2>2, <2>5, <3>1, OneCounts DEF HandlerThrows
  <2> QED
    BY <1>13, <2>4, <2>5
<1> QED
  BY <1>1, <1>2, <1>4, <1>5, <1>6, <1>8, <1>9, <1>10, <1>11, <1>12, <1>13 DEF Next

(* While operations on a run do not overlap, no handler is called more often    *)
(* than maxAttempts of its step, in all the life of the run: crashes, rejected *)
(* saves, retries and resumptions included (_executeTaskStep).                *)
THEOREM HandlersKeepToTheirAttempts == Spec => []AttemptsBounded
<1>1. WorkflowInv /\ CountInv => AttemptsBounded
  <2> SUFFICES ASSUME WorkflowInv, CountInv, "overlap" \notin disturbed, NEW s \in Step
               PROVE  calls[s] <= MaxAttempts[s]
    BY DEF AttemptsBounded
  <2>1. calls[s] <= stored.steps[s].attempts
    BY DEF CountInv, Counts
  <2>2. stored.steps[s].attempts <= MaxAttempts[s]
    BY DEF WorkflowInv, GoodRun, Run
  <2>3. stored.steps[s].attempts \in Nat /\ MaxAttempts[s] \in Nat /\ calls[s] \in Nat
    BY ValidDefinition DEF WorkflowInv, GoodRun, Run, HistoryOK
  <2> QED
    BY <2>1, <2>2, <2>3
<1> QED
  BY <1>1, WorkflowInit, CountInit, WorkflowStep, CountStep, PTL DEF Spec
=============================================================================
