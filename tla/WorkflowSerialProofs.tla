------------------------ MODULE WorkflowSerialProofs ------------------------
(***************************************************************************)
(* What the workflow engine keeps while the operations on a run do not      *)
(* overlap, for every workflow, budget and number of faults: the budget, what *)
(* is settled, that no handler succeeds twice, and that runUntilBlocked     *)
(* returns nothing unfinished.  Then, whatever overlaps: that the engine     *)
(* implements WorkflowDag, and what becomes of a step its process died on.  *)
(***************************************************************************)
EXTENDS WorkflowProofs, FiniteSetTheorems, WellFoundedInduction

(***************************************************************************)
(* topologicalOrder.  That it lists every step means that the definition has *)
(* no cycle: among any steps there is one that depends on none of them.     *)
(***************************************************************************)

(* A set of natural numbers has a least one. *)
LEMMA LeastOf ==
    ASSUME NEW S, S \subseteq Nat, S # {}
    PROVE  \E n \in S : \A m \in S : n <= m
<1>1. IsWellFoundedOn({ss \in Nat \X Nat : ss[1] < ss[2]}, Nat)
  BY NatLessThanWellFounded DEF OpToRel
<1>2. PICK R : R = {ss \in Nat \X Nat : ss[1] < ss[2]} /\ IsWellFoundedOn(R, Nat)
  BY <1>1
<1>3. PICK n \in S : \A m \in S : ~(<<m, n>> \in R)
  BY <1>2, WFMin
<1>4. \A m \in S : <<m, n>> \in R <=> m < n
  BY <1>2
<1>5. \A m \in S : ~(m < n) /\ m \in Nat /\ n \in Nat
  BY <1>3, <1>4
<1>6. \A m, k \in Nat : ~(m < k) => k <= m
  OBVIOUS
<1> QED
  BY <1>5, <1>6

IsKahn(f, m) == f = [n \in 0..m |-> IF n = 0 THEN <<>> ELSE Extended(f[n - 1])]

LEMMA KahnExtends ==
    ASSUME NEW m \in Nat, NEW f, IsKahn(f, m)
    PROVE  \E g : IsKahn(g, m + 1)
<1> DEFINE g == [n \in 0..(m + 1) |-> IF n = m + 1 THEN Extended(f[m]) ELSE f[n]]
<1>1. ASSUME NEW n \in 0..(m + 1)
      PROVE  g[n] = IF n = 0 THEN <<>> ELSE Extended(g[n - 1])
  <2>1. CASE n = m + 1
    BY <2>1
  <2>2. CASE n # m + 1
    <3>1. n \in 0..m /\ (n # 0 => n - 1 \in 0..m /\ n - 1 # m + 1)
      BY <2>2
    <3>2. f[n] = IF n = 0 THEN <<>> ELSE Extended(f[n - 1])
      BY <3>1 DEF IsKahn
    <3> QED
      BY <2>2, <3>1, <3>2
  <2> QED
    BY <2>1, <2>2
<1>2. g = [n \in 0..(m + 1) |-> IF n = 0 THEN <<>> ELSE Extended(g[n - 1])]
  BY <1>1
<1> QED
  BY <1>2 DEF IsKahn

LEMMA KahnExists ==
    ASSUME NEW m \in Nat
    PROVE  \E f : IsKahn(f, m)
<1> DEFINE Bad == {n \in Nat : ~\E f : IsKahn(f, n)}
<1>1. 0 \notin Bad
  <2>1. IsKahn([n \in 0..0 |-> <<>>], 0)
    BY DEF IsKahn
  <2> QED
    BY <2>1
<1>2. ASSUME Bad # {} PROVE FALSE
  <2>1. PICK n \in Bad : \A k \in Bad : n <= k
    BY <1>2, LeastOf
  <2>2. n \in Nat /\ n # 0 /\ n - 1 \in Nat /\ n - 1 \notin Bad
    BY <1>1, <2>1
  <2>3. PICK f : IsKahn(f, n - 1)
    BY <2>2
  <2>4. \E g : IsKahn(g, (n - 1) + 1)
    BY <2>2, <2>3, KahnExtends
  <2>5. (n - 1) + 1 = n
    BY <2>2
  <2> QED
    BY <2>1, <2>4, <2>5
<1> QED
  BY <1>2

LEMMA KahnIs == IsKahn(Kahn, Cardinality(Step))
<1>1. \E f : IsKahn(f, Cardinality(Step))
  BY KahnExists, FS_CardinalityType, ValidDefinition
<1>2. Kahn = CHOOSE f : f = [n \in 0..Cardinality(Step) |->
                               IF n = 0 THEN <<>> ELSE Extended(f[n - 1])]
  BY Zenon DEF Kahn
<1> QED
  BY <1>1, <1>2, Zenon DEF IsKahn

(* What one round of topologicalOrder does to a list of distinct steps. *)
Distinct(list) ==
    list \in Seq(Step) /\ \A i, j \in DOMAIN list : list[i] = list[j] => i = j

LEMMA FirstDefinedIn ==
    ASSUME NEW S, S \subseteq Step, S # {}
    PROVE  FirstDefined(S) \in S
<1> DEFINE places == {Place[s] : s \in S}
<1>1. Place \in [Step -> Nat]
  BY ValidDefinition
<1>2. places \subseteq Nat /\ places # {}
  BY <1>1
<1>3. PICK n \in places : \A m \in places : n <= m
  BY <1>2, LeastOf
<1>4. PICK s \in S : Place[s] = n
  BY <1>3
<1>5. \A r \in S : Place[s] <= Place[r]
  BY <1>3, <1>4
<1> QED
  BY <1>5 DEF FirstDefined

LEMMA ExtendedIsDistinct ==
    ASSUME NEW list, Distinct(list), NEW new, new = Extended(list)
    PROVE  /\ Distinct(new)
           /\ \/ new = list
              \/ \E s \in Step : /\ Listed(new) = Listed(list) \cup {s}
                                 /\ DependsOn[s] \subseteq Listed(list)
<1>1. CASE Ready(list) = {}
  BY <1>1 DEF Extended
<1>2. CASE Ready(list) # {}
  <2>1. PICK s : s = FirstDefined(Ready(list))
    OBVIOUS
  <2>2. s \in Ready(list)
    BY <1>2, <2>1, FirstDefinedIn DEF Ready
  <2>3. s \in Step /\ s \notin Listed(list) /\ DependsOn[s] \subseteq Listed(list)
    BY <2>2 DEF Ready
  <2>4. new = Append(list, s)
    BY <1>2, <2>1 DEF Extended
  <2>5. /\ new \in Seq(Step) /\ Len(list) \in Nat
        /\ DOMAIN list = 1..Len(list) /\ DOMAIN new = 1..(Len(list) + 1)
        /\ \A i \in 1..Len(list) : new[i] = list[i]
        /\ new[Len(list) + 1] = s
    BY <2>3, <2>4 DEF Distinct
  <2>6. \A i \in 1..Len(list) : list[i] # s
    BY <2>3, <2>5 DEF Listed
  <2>7. \A i, j \in DOMAIN new : new[i] = new[j] => i = j
    <3> SUFFICES ASSUME NEW i \in DOMAIN new, NEW j \in DOMAIN new, new[i] = new[j]
                 PROVE  i = j
      OBVIOUS
    <3>1. /\ i \in 1..Len(list) \/ i = Len(list) + 1
          /\ j \in 1..Len(list) \/ j = Len(list) + 1
      BY <2>5
    <3> QED
      BY <2>5, <2>6, <3>1 DEF Distinct
  <2>8. Listed(new) = Listed(list) \cup {s}
    <3>1. \A x \in Listed(new) : x \in Listed(list) \cup {s}
      <4> SUFFICES ASSUME NEW i \in DOMAIN new PROVE new[i] \in Listed(list) \cup {s}
        BY DEF Listed
      <4>1. i \in 1..Len(list) \/ i = Len(list) + 1
        BY <2>5
      <4> QED
        BY <2>5, <4>1 DEF Listed
    <3>2. Listed(list) \subseteq Listed(new)
      BY <2>5 DEF Listed
    <3>3. s \in Listed(new)
      BY <2>5 DEF Listed
    <3> QED
      BY <3>1, <3>2, <3>3
  <2> QED
    BY <2>3, <2>5, <2>7, <2>8 DEF Distinct
<1> QED
  BY <1>1, <1>2

LEMMA KahnStep ==
    /\ Cardinality(Step) \in Nat
    /\ Kahn[0] = <<>>
    /\ \A n \in 1..Cardinality(Step) : n - 1 \in 0..Cardinality(Step) /\ Kahn[n] = Extended(Kahn[n - 1])
<1>1. Cardinality(Step) \in Nat
  BY FS_CardinalityType, ValidDefinition
<1> QED
  BY <1>1, KahnIs DEF IsKahn

LEMMA KahnDistinct == \A n \in 0..Cardinality(Step) : Distinct(Kahn[n])
<1> DEFINE Bad == {n \in 0..Cardinality(Step) : ~Distinct(Kahn[n])}
<1>1. ASSUME Bad # {} PROVE FALSE
  <2>1. Bad \subseteq Nat
    BY KahnStep
  <2>2. PICK n \in Bad : \A k \in Bad : n <= k
    BY <1>1, <2>1, LeastOf
  <2>3. Distinct(Kahn[0])
    BY KahnStep DEF Distinct
  <2>4. n \in 1..Cardinality(Step) /\ n - 1 \notin Bad
    BY <2>1, <2>2, <2>3, KahnStep
  <2>5. Distinct(Kahn[n - 1]) /\ Kahn[n] = Extended(Kahn[n - 1])
    BY <2>4, KahnStep
  <2>6. Distinct(Kahn[n])
    BY <2>5, ExtendedIsDistinct
  <2> QED
    BY <2>2, <2>6
<1> QED
  BY <1>1

LEMMA AllListed == Listed(Order) = Step
<1>1. Cardinality(Step) \in Nat /\ Distinct(Order) /\ Len(Order) = Cardinality(Step)
  BY KahnStep, KahnDistinct, ValidDefinition DEF Order
<1>2. Order \in [1..Cardinality(Step) -> Step] /\ DOMAIN Order = 1..Cardinality(Step)
  BY <1>1 DEF Distinct
<1>3. Order \in Injection(1..Cardinality(Step), Step)
  BY <1>1, <1>2 DEF Injection, IsInjective, Distinct
<1>4. Cardinality(1..Cardinality(Step)) = Cardinality(Step)
  BY <1>1, FS_Interval
<1>5. Order \in Surjection(1..Cardinality(Step), Step)
  BY <1>3, <1>4, FS_Injection, ValidDefinition
<1>6. \A s \in Step : \E i \in DOMAIN Order : Order[i] = s
  BY <1>2, <1>5 DEF Surjection
<1> QED
  BY <1>2, <1>6 DEF Listed

(* A list in which no step comes before one it depends on. *)
InOrder(list) ==
    \A i \in DOMAIN list : DependsOn[list[i]] \subseteq {list[j] : j \in 1..(i - 1)}

LEMMA ExtendedIsInOrder ==
    ASSUME NEW list, Distinct(list), InOrder(list)
    PROVE  InOrder(Extended(list))
<1>1. CASE Ready(list) = {}
  BY <1>1 DEF Extended
<1>2. CASE Ready(list) # {}
  <2>1. PICK s : s = FirstDefined(Ready(list))
    OBVIOUS
  <2>2. s \in Ready(list)
    BY <1>2, <2>1, FirstDefinedIn DEF Ready
  <2>3. s \in Step /\ DependsOn[s] \subseteq Listed(list)
    BY <2>2 DEF Ready
  <2>4. PICK new : new = Extended(list)
    OBVIOUS
  <2>5. new = Append(list, s)
    BY <1>2, <2>1, <2>4 DEF Extended
  <2>6. /\ Len(list) \in Nat
        /\ DOMAIN list = 1..Len(list) /\ DOMAIN new = 1..(Len(list) + 1)
        /\ \A i \in 1..Len(list) : new[i] = list[i]
        /\ new[Len(list) + 1] = s
    BY <2>3, <2>5 DEF Distinct
  <2>7. ASSUME NEW i \in 1..Len(list)
        PROVE  DependsOn[new[i]] \subseteq {new[j] : j \in 1..(i - 1)}
    <3>1. DependsOn[list[i]] \subseteq {list[j] : j \in 1..(i - 1)}
      BY <2>6 DEF InOrder
    <3>2. \A j \in 1..(i - 1) : new[j] = list[j]
      BY <2>6
    <3> QED
      BY <2>6, <3>1, <3>2
  <2>8. DependsOn[s] \subseteq {new[j] : j \in 1..Len(list)}
    BY <2>3, <2>6 DEF Listed
  <2>9. ASSUME NEW i \in DOMAIN new
        PROVE  DependsOn[new[i]] \subseteq {new[j] : j \in 1..(i - 1)}
    <3>1. CASE i \in 1..Len(list)
      BY <2>7, <3>1
    <3>2. CASE i = Len(list) + 1
      <4>1. i - 1 = Len(list) /\ new[i] = s
        BY <2>6, <3>2
      <4> QED
        BY <2>8, <4>1
    <3> QED
      BY <2>6, <3>1, <3>2
  <2> QED
    BY <2>4, <2>9 DEF InOrder
<1> QED
  BY <1>1, <1>2

LEMMA KahnInOrder == \A n \in 0..Cardinality(Step) : InOrder(Kahn[n])
<1> DEFINE Bad == {n \in 0..Cardinality(Step) : ~InOrder(Kahn[n])}
<1>1. ASSUME Bad # {} PROVE FALSE
  <2>1. Bad \subseteq Nat
    BY KahnStep
  <2>2. PICK n \in Bad : \A k \in Bad : n <= k
    BY <1>1, <2>1, LeastOf
  <2>3. InOrder(Kahn[0])
    BY KahnStep DEF InOrder
  <2>4. n \in 1..Cardinality(Step) /\ n - 1 \notin Bad
    BY <2>1, <2>2, <2>3, KahnStep
  <2>5. Distinct(Kahn[n - 1]) /\ InOrder(Kahn[n - 1]) /\ Kahn[n] = Extended(Kahn[n - 1])
    BY <2>4, KahnStep, KahnDistinct
  <2>6. InOrder(Kahn[n])
    BY <2>5, ExtendedIsInOrder
  <2> QED
    BY <2>2, <2>6
<1> QED
  BY <1>1

(* topologicalOrder returns every step of the definition once, and none       *)
(* before a step it depends on: createRun keeps this list as run.order, which *)
(* _nextRunnableStep and _allStepsCompleted walk: neither passes over a step. *)
THEOREM OrderIsTopological ==
    /\ Distinct(Order)
    /\ Listed(Order) = Step
    /\ InOrder(Order)
<1>1. Cardinality(Step) \in 0..Cardinality(Step)
  BY KahnStep
<1> QED
  BY <1>1, KahnDistinct, KahnInOrder, AllListed DEF Order

(* Among any steps there is one that depends on none of them. *)
LEMMA NoCycle ==
    ASSUME NEW S, S \subseteq Step, S # {}
    PROVE  \E s \in S : DependsOn[s] \cap S = {}
<1> DEFINE meets == {n \in 0..Cardinality(Step) : Listed(Kahn[n]) \cap S # {}}
<1>1. Cardinality(Step) \in meets
  BY AllListed, KahnStep DEF Order
<1>2. meets \subseteq Nat
  BY KahnStep
<1>3. PICK n \in meets : \A k \in meets : n <= k
  BY <1>1, <1>2, LeastOf
<1>4. Listed(Kahn[0]) = {}
  BY KahnStep DEF Listed
<1>5. n \in 1..Cardinality(Step) /\ n - 1 \in 0..Cardinality(Step) /\ n - 1 \notin meets
  BY <1>2, <1>3, <1>4, KahnStep
<1>6. Distinct(Kahn[n - 1]) /\ Kahn[n] = Extended(Kahn[n - 1]) /\ Listed(Kahn[n - 1]) \cap S = {}
  BY <1>5, KahnStep, KahnDistinct
<1>7. Kahn[n] # Kahn[n - 1]
  BY <1>3, <1>6
<1>8. PICK s \in Step : /\ Listed(Kahn[n]) = Listed(Kahn[n - 1]) \cup {s}
                        /\ DependsOn[s] \subseteq Listed(Kahn[n - 1])
  BY <1>6, <1>7, ExtendedIsDistinct
<1> QED
  BY <1>3, <1>6, <1>8

-----------------------------------------------------------------------------
(* What happened stays known, what was done is, and a run stays where it is kept. *)
LEMMA HistoryGrows ==
    [Next]_vars => disturbed \subseteq disturbed' /\ done \subseteq done' /\ durable' = durable
<1> SUFFICES ASSUME [Next]_vars PROVE disturbed \subseteq disturbed' /\ done \subseteq done' /\ durable' = durable
  OBVIOUS
<1>1. CASE UNCHANGED vars \/ Crash
  BY <1>1 DEF vars, Crash
<1>2. ASSUME NEW a \in Activation,
             \/ \E handlers \in Catalog : RunUntilBlocked(a, handlers)
             \/ \E s \in Step, p \in Person : ApproveStep(a, s, p)
             \/ Cancel(a)
      PROVE  disturbed \subseteq disturbed' /\ done \subseteq done' /\ durable' = durable
  BY <1>2 DEF RunUntilBlocked, ApproveStep, Cancel
<1>3. ASSUME NEW a \in Activation,
             \/ ProceedAfterSave(a) \/ CallAfterSave(a) \/ RetryAfterSave(a)
             \/ ReturnAfterSave(a) \/ ReplyAfterSave(a) \/ SaveFails(a)
             \/ HandlerReturns(a) \/ HandlerThrows(a)
      PROVE  disturbed \subseteq disturbed' /\ done \subseteq done' /\ durable' = durable
  BY <1>3 DEF ProceedAfterSave, CallAfterSave, RetryAfterSave, ReturnAfterSave, ReplyAfterSave,
              SaveReturns, SaveFails, HandlerReturns, HandlerThrows
<1> QED
  BY <1>1, <1>2, <1>3 DEF Next

(* An operation that has begun is alone. *)
LEMMA Alone ==
    ASSUME WorkflowInv, CountInv, "overlap" \notin disturbed,
           NEW a \in Activation, act[a].pc # "idle"
    PROVE  \A b \in Activation \ {a} : act[b].pc = "idle"
  BY DEF CountInv

(***************************************************************************)
(* The budget.  The check before an attempt covers the charge after it,     *)
(* since nothing is charged in between.                                     *)
(***************************************************************************)
AtCall(op) == op.pc = "calling" \/ (op.pc = "saving" /\ op.next = "call")

BudgetOp(op, total, charged) ==
    charged /\ AtCall(op) => total + Cost[op.step] <= Limit

BudgetInv ==
    "overlap" \notin disturbed /\ Limit > 0 =>
        spent <= Limit /\ \A a \in Activation : BudgetOp(act[a], spent, durable)

LEMMA AttemptIsCovered ==
    ASSUME HistoryOK, Limit > 0, spent <= Limit, NEW op, NEW s \in Step
    PROVE  BudgetOp(Attempt(op, s), spent, durable)
<1>1. CASE Denied(s)
  BY <1>1 DEF Attempt, Saving, BudgetOp, AtCall
<1>2. CASE ~Denied(s)
  <2>1. Attempt(op, s).step = s
    BY <1>2 DEF Attempt, Saving
  <2>2. Cost[s] \in Nat /\ spent \in Nat /\ Limit \in Nat
    BY WorkflowConstants DEF HistoryOK
  <2>3. durable => spent + Cost[s] <= Limit
    BY <1>2, <2>2 DEF Denied, Budgeted
  <2> QED
    BY <2>1, <2>3 DEF BudgetOp
<1> QED
  BY <1>1, <1>2

LEMMA ProceedIsCovered ==
    ASSUME HistoryOK, Limit > 0, spent <= Limit, NEW op, NEW op2 \in Proceed(op)
    PROVE  BudgetOp(op2, spent, durable)
<1>1. CASE Runnable(op.run) = {}
  BY <1>1 DEF Proceed, Saving, BudgetOp, AtCall
<1>2. CASE Runnable(op.run) # {}
  <2>1. PICK s \in NextRunnable(op.run) :
           op2 = IF s \in Approval THEN Saving(op, Paused(op.run, s), s, "return")
                 ELSE IF s \notin op.handlers THEN Saving(op, Failed(op.run, s), s, "return")
                 ELSE Attempt(op, s)
    BY <1>2 DEF Proceed
  <2>2. s \in Step
    BY DEF NextRunnable, Runnable
  <2>3. BudgetOp(Attempt(op, s), spent, durable)
    BY <2>2, AttemptIsCovered
  <2> QED
    BY <2>1, <2>3 DEF Saving, BudgetOp, AtCall
<1> QED
  BY <1>1, <1>2

LEMMA BudgetStep == WorkflowInv /\ CountInv /\ BudgetInv /\ [Next]_vars => BudgetInv'
<1> SUFFICES ASSUME WorkflowInv, CountInv, BudgetInv, [Next]_vars,
                    "overlap" \notin disturbed', Limit > 0
             PROVE  spent' <= Limit /\ \A a \in Activation : BudgetOp(act'[a], spent', durable')
  BY DEF BudgetInv
<1> DEFINE Kept == spent' <= Limit /\ \A a \in Activation : BudgetOp(act'[a], spent', durable')
<1>1. /\ "overlap" \notin disturbed /\ durable' = durable
      /\ HistoryOK /\ spent <= Limit /\ \A a \in Activation : BudgetOp(act[a], spent, durable)
  BY HistoryGrows DEF BudgetInv, WorkflowInv
<1>2. CASE UNCHANGED vars
  BY <1>1, <1>2 DEF vars
<1>3. CASE Crash
  BY <1>3, WorkflowConstants DEF Crash, BudgetOp, AtCall, Idle
<1>4. ASSUME NEW a \in Activation, NEW op, act' = [act EXCEPT ![a] = op], spent' = spent,
             BudgetOp(op, spent, durable)
      PROVE  Kept
  <2>1. \A b \in Activation : act'[b] = op \/ act'[b] = act[b]
    BY <1>4 DEF WorkflowInv
  <2> QED
    BY <1>1, <1>4, <2>1
<1>5. ASSUME NEW a \in Activation, NEW run, NEW handlers, NEW next \in {"proceed", "reply"},
             Begin(a, run, handlers, next), spent' = spent
      PROVE  Kept
  <2>1. PICK op : op = Saving([Idle EXCEPT !.handlers = handlers], run, NoStep, next)
    OBVIOUS
  <2>2. BudgetOp(op, spent, durable)
    BY <2>1 DEF Saving, BudgetOp, AtCall
  <2> QED
    BY <1>4, <1>5, <2>1, <2>2 DEF Begin
<1>6. ASSUME NEW a \in Activation,
             \/ \E handlers \in Catalog : RunUntilBlocked(a, handlers)
             \/ \E s \in Step, p \in Person : ApproveStep(a, s, p)
             \/ Cancel(a)
      PROVE  Kept
  BY <1>5, <1>6 DEF RunUntilBlocked, ApproveStep, Cancel
<1>7. ASSUME NEW a \in Activation, ProceedAfterSave(a)
      PROVE  Kept
  <2>1. PICK op \in Proceed(act[a]) : act' = [act EXCEPT ![a] = op]
    BY <1>7 DEF ProceedAfterSave
  <2>2. spent' = spent
    BY <1>7 DEF ProceedAfterSave, SaveReturns
  <2> QED
    BY <1>1, <1>4, <2>1, <2>2, ProceedIsCovered
<1>8. ASSUME NEW a \in Activation, CallAfterSave(a)
      PROVE  Kept
  <2>1. PICK op : op = [act[a] EXCEPT !.pc = "calling"]
    OBVIOUS
  <2>2. /\ act[a].pc = "saving" /\ act[a].next = "call"
        /\ act' = [act EXCEPT ![a] = op] /\ spent' = spent
    BY <1>8, <2>1 DEF CallAfterSave, SaveReturns
  <2>3. op.step = act[a].step
    BY <2>1 DEF WorkflowInv, GoodOp, Operation
  <2>4. BudgetOp(op, spent, durable)
    BY <1>1, <2>2, <2>3 DEF BudgetOp, AtCall
  <2> QED
    BY <1>4, <2>2, <2>4
<1>9. ASSUME NEW a \in Activation, RetryAfterSave(a)
      PROVE  Kept
  <2>1. act[a].step \in Step
    BY <1>9 DEF RetryAfterSave, SaveReturns, WorkflowInv, GoodOp, Working
  <2>2. BudgetOp(Attempt(act[a], act[a].step), spent, durable)
    BY <1>1, <2>1, AttemptIsCovered
  <2> QED
    BY <1>4, <1>9, <2>2 DEF RetryAfterSave, SaveReturns
<1>10. ASSUME NEW a \in Activation, ReturnAfterSave(a) \/ ReplyAfterSave(a)
       PROVE  Kept
  <2>1. BudgetOp(Idle, spent, durable)
    BY DEF BudgetOp, AtCall, Idle
  <2> QED
    BY <1>4, <1>10, <2>1 DEF ReturnAfterSave, ReplyAfterSave, SaveReturns
<1>11. ASSUME NEW a \in Activation, SaveFails(a) \/ HandlerThrows(a)
       PROVE  Kept
  <2>1. PICK op \in {Idle, Caught(act[a])} : act' = [act EXCEPT ![a] = op]
    BY <1>11 DEF SaveFails, HandlerThrows, WorkflowInv
  <2>2. BudgetOp(op, spent, durable)
    BY <2>1 DEF Caught, Saving, BudgetOp, AtCall, Idle
  <2> QED
    BY <1>4, <1>11, <2>1, <2>2 DEF SaveFails, HandlerThrows
<1>12. ASSUME NEW a \in Activation, HandlerReturns(a)
       PROVE  Kept
  <2>1. PICK op : op = Saving(act[a], Marked(act[a].run, act[a].step, "completed"),
                              act[a].step, "settle")
    OBVIOUS
  <2>2. /\ act' = [act EXCEPT ![a] = op] /\ act[a].pc = "calling"
        /\ spent' = IF durable THEN spent + Cost[act[a].step] ELSE spent
    BY <1>12, <2>1 DEF HandlerReturns
  <2>3. spent' <= Limit
    BY <1>1, <2>2 DEF BudgetOp, AtCall
  <2>4. act'[a] = op /\ \A b \in Activation \ {a} : act'[b] = act[b] /\ act[b].pc = "idle"
    BY <1>1, <2>2, Alone DEF WorkflowInv
  <2>5. op.pc = "saving" /\ op.next = "settle"
    BY <2>1 DEF Saving
  <2> QED
    BY <2>3, <2>4, <2>5 DEF BudgetOp, AtCall
<1> QED
  BY <1>2, <1>3, <1>6, <1>7, <1>8, <1>9, <1>10, <1>11, <1>12 DEF Next

LEMMA BudgetInit == Init => BudgetInv
  BY WorkflowConstants DEF Init, BudgetInv, BudgetOp, AtCall, Idle

(* While operations on the run do not overlap, the charges of its steps,        *)
(* repeated and retried ones included, stay within the session's token limit  *)
(* (_evaluateStepBudget, _recordStepBudgetSpend).                             *)
THEOREM ChargesStayWithinLimit == Spec => []BudgetKept
<1>1. BudgetInv => BudgetKept
  BY DEF BudgetInv, BudgetKept
<1> QED
  BY <1>1, WorkflowInit, CountInit, BudgetInit, WorkflowStep, CountStep, BudgetStep, PTL DEF Spec

(***************************************************************************)
(* What the engine's operators make of a copy's statuses.                   *)
(***************************************************************************)
LEMMA MarkedStatus ==
    ASSUME NEW run \in Run, NEW s \in Step, NEW status
    PROVE  /\ Marked(run, s, status).status = run.status
           /\ Status(Marked(run, s, status), s) = status
           /\ \A t \in Step \ {s} : Status(Marked(run, s, status), t) = Status(run, t)
           /\ \A st : [Marked(run, s, status) EXCEPT !.status = st].status = st
           /\ \A st : [Marked(run, s, status) EXCEPT !.status = st].steps
                        = Marked(run, s, status).steps
  BY DEF Run, Marked, Status

LEMMA RunStatus ==
    ASSUME NEW run \in Run, NEW status
    PROVE  /\ [run EXCEPT !.status = status].status = status
           /\ \A t \in Step : Status([run EXCEPT !.status = status], t) = Status(run, t)
  BY DEF Run, Status

LEMMA FailedStatus ==
    ASSUME NEW run \in Run, NEW s \in Step
    PROVE  /\ Failed(run, s).status = "failed" /\ Status(Failed(run, s), s) = "failed"
           /\ \A t \in Step \ {s} : Status(Failed(run, s), t) = Status(run, t)
<1>1. PICK m : m = Marked(run, s, "failed")
  OBVIOUS
<1>2. /\ Status(m, s) = "failed" /\ \A t \in Step \ {s} : Status(m, t) = Status(run, t)
      /\ [m EXCEPT !.status = "failed"].status = "failed"
      /\ [m EXCEPT !.status = "failed"].steps = m.steps
  BY <1>1, MarkedStatus
<1> QED
  BY <1>1, <1>2 DEF Failed, Status

LEMMA PausedStatus ==
    ASSUME NEW run \in Run, NEW s \in Step
    PROVE  /\ Paused(run, s).status = "paused" /\ Status(Paused(run, s), s) = "awaiting_approval"
           /\ \A t \in Step \ {s} : Status(Paused(run, s), t) = Status(run, t)
<1>1. PICK m : m = Marked(run, s, "awaiting_approval")
  OBVIOUS
<1>2. /\ Status(m, s) = "awaiting_approval"
      /\ \A t \in Step \ {s} : Status(m, t) = Status(run, t)
      /\ [m EXCEPT !.status = "paused"].status = "paused"
      /\ [m EXCEPT !.status = "paused"].steps = m.steps
  BY <1>1, MarkedStatus
<1> QED
  BY <1>1, <1>2 DEF Paused, Status

LEMMA BegunStatus ==
    ASSUME NEW run \in Run, NEW s \in Step
    PROVE  /\ AttemptBegun(run, s).status = run.status
           /\ Status(AttemptBegun(run, s), s) = "running"
           /\ \A t \in Step \ {s} : Status(AttemptBegun(run, s), t) = Status(run, t)
  BY DEF Run, AttemptBegun, Status

LEMMA ClosedStatus ==
    ASSUME NEW run \in Run
    PROVE  /\ \A t \in Step : Status(Closed(run), t) = Status(run, t)
           /\ AllStepsCompleted(run) => Closed(run).status = "completed"
  BY RunStatus DEF Closed

(* Where an operation comes from the head of the loop, or from an attempt. *)
LEMMA AttemptCases ==
    ASSUME NEW op, NEW s, NEW new, new = Attempt(op, s)
    PROVE  /\ new.pc = "saving" /\ new.step = s
           /\ \/ new.next = "return" /\ new.run = Failed(op.run, s)
              \/ new.next = "call" /\ new.run = AttemptBegun(op.run, s)
  BY DEF Attempt, Saving

LEMMA ProceedCases ==
    ASSUME NEW op, NEW new \in Proceed(op)
    PROVE  /\ new.pc = "saving"
           /\ \/ /\ Runnable(op.run) = {}
                 /\ new.next = "return" /\ new.run = Closed(op.run)
              \/ /\ new.step \in Runnable(op.run)
                 /\ \/ new.next = "return" /\ new.run = Paused(op.run, new.step)
                    \/ new.next = "return" /\ new.run = Failed(op.run, new.step)
                    \/ new.next = "call" /\ new.run = AttemptBegun(op.run, new.step)
<1>1. CASE Runnable(op.run) = {}
  BY <1>1 DEF Proceed, Saving
<1>2. CASE Runnable(op.run) # {}
  <2>1. PICK s \in NextRunnable(op.run) :
           new = IF s \in Approval THEN Saving(op, Paused(op.run, s), s, "return")
                 ELSE IF s \notin op.handlers THEN Saving(op, Failed(op.run, s), s, "return")
                 ELSE Attempt(op, s)
    BY <1>2 DEF Proceed
  <2>2. s \in Runnable(op.run)
    BY DEF NextRunnable
  <2>3. CASE s \in Approval \/ s \notin op.handlers
    BY <2>1, <2>2, <2>3 DEF Saving
  <2>4. CASE ~(s \in Approval \/ s \notin op.handlers)
    BY <2>1, <2>2, <2>4, AttemptCases
  <2> QED
    BY <2>3, <2>4
<1> QED
  BY <1>1, <1>2

LEMMA CaughtCases ==
    ASSUME NEW op, NEW new, new = Caught(op)
    PROVE  /\ new.pc = "saving" /\ new.step = op.step
           /\ \/ new.next = "return" /\ new.run = Failed(op.run, op.step)
              \/ new.next = "retry" /\ new.run = Marked(op.run, op.step, "pending")
  BY DEF Caught, Saving

(***************************************************************************)
(* What a step does while operations do not overlap: the operation a is      *)
(* alone, before and after.                                                 *)
(***************************************************************************)
Begun(a) ==
    /\ act[a].pc = "idle" /\ act'[a].pc = "saving"
    /\ stored' = stored /\ returned' = returned
    /\ \/ /\ act'[a].next = "proceed" /\ ~Restable(stored)
          /\ act'[a].run = [stored EXCEPT !.status = "running"] /\ done' = done
       \/ \E s \in Step :
             /\ act'[a].next = "reply" /\ Status(stored, s) = "awaiting_approval"
             /\ act'[a].run = [Marked(stored, s, "completed") EXCEPT !.status = "running"]
             /\ done' = done \cup {s}
       \/ /\ act'[a].next = "reply" /\ "cancel" \in disturbed'
          /\ act'[a].run = [stored EXCEPT !.status = "failed"] /\ done' = done

Arrived(a) ==
    /\ act[a].pc = "saving" /\ stored' = act[a].run /\ done' = done
    /\ \/ act[a].next \in {"proceed", "settle"} /\ act'[a] \in Proceed(act[a])
       \/ act[a].next = "call" /\ act'[a] = [act[a] EXCEPT !.pc = "calling"]
       \/ act[a].next = "retry" /\ act'[a] = Attempt(act[a], act[a].step)
       \/ act[a].next \in {"return", "reply"} /\ act'[a] = Idle
    /\ returned' = IF act[a].next = "return" THEN act[a].run.status ELSE returned

Lost(a) ==
    /\ act[a].pc = "saving" /\ "rejection" \in disturbed'
    /\ stored' = stored /\ done' = done /\ returned' = returned
    /\ act'[a] = Idle \/ (act[a].next = "settle" /\ act'[a] = Caught(act[a]))

Answered(a) ==
    /\ act[a].pc = "calling" /\ stored' = stored /\ returned' = returned
    /\ \/ /\ act'[a].pc = "saving" /\ act'[a].next = "settle"
          /\ act'[a].run = Marked(act[a].run, act[a].step, "completed")
          /\ done' = done \cup {act[a].step}
       \/ act'[a] = Caught(act[a]) /\ done' = done

OneAlone(a) ==
    /\ \A b \in Activation \ {a} : act[b].pc = "idle" /\ act'[b].pc = "idle"
    /\ Begun(a) \/ Arrived(a) \/ Lost(a) \/ Answered(a)

AllDie ==
    /\ "crash" \in disturbed' /\ \A a \in Activation : act'[a].pc = "idle"
    /\ stored' = stored /\ done' = done /\ returned' = returned

NothingMoves == UNCHANGED <<act, stored, done, returned>>

LEMMA SerialSteps ==
    WorkflowInv /\ CountInv /\ [Next]_vars /\ "overlap" \notin disturbed' =>
        /\ "overlap" \notin disturbed
        /\ NothingMoves \/ AllDie \/ \E a \in Activation : OneAlone(a)
<1> SUFFICES ASSUME WorkflowInv, CountInv, [Next]_vars, "overlap" \notin disturbed'
             PROVE  /\ "overlap" \notin disturbed
                    /\ NothingMoves \/ AllDie \/ \E a \in Activation : OneAlone(a)
  OBVIOUS
<1>1. "overlap" \notin disturbed
  BY HistoryGrows
<1>2. CASE UNCHANGED vars
  BY <1>1, <1>2 DEF vars, NothingMoves
<1>3. CASE Crash
  BY <1>1, <1>3 DEF Crash, AllDie, Idle, WorkflowInv, HistoryOK
<1>4. ASSUME NEW a \in Activation, NEW op, act' = [act EXCEPT ![a] = op],
             act[a].pc # "idle" \/ \A b \in Activation : act[b].pc = "idle"
      PROVE  /\ act'[a] = op
             /\ \A b \in Activation \ {a} : act[b].pc = "idle" /\ act'[b].pc = "idle"
  <2>1. \A b \in Activation \ {a} : act[b].pc = "idle"
    BY <1>1, <1>4, Alone
  <2> QED
    BY <1>4, <2>1 DEF WorkflowInv
<1>5. ASSUME NEW a \in Activation, NEW run, NEW handlers, NEW next,
             Begin(a, run, handlers, next), Overlap \subseteq disturbed'
      PROVE  /\ act[a].pc = "idle" /\ act'[a].pc = "saving"
             /\ act'[a].next = next /\ act'[a].run = run
             /\ \A b \in Activation \ {a} : act[b].pc = "idle" /\ act'[b].pc = "idle"
  <2>1. PICK op : op = Saving([Idle EXCEPT !.handlers = handlers], run, NoStep, next)
    OBVIOUS
  <2>2. op.pc = "saving" /\ op.next = next /\ op.run = run
    BY <2>1 DEF Saving
  <2>3. act[a].pc = "idle" /\ act' = [act EXCEPT ![a] = op]
    BY <1>5, <2>1 DEF Begin
  <2>4. \A b \in Activation : act[b].pc = "idle"
    BY <1>5 DEF Overlap
  <2> QED
    BY <1>4, <2>2, <2>3, <2>4
<1>6. ASSUME NEW a \in Activation, NEW handlers \in Catalog, RunUntilBlocked(a, handlers)
      PROVE  OneAlone(a)
  <2>1. /\ Begin(a, [stored EXCEPT !.status = "running"], handlers, "proceed")
        /\ Overlap \subseteq disturbed' /\ ~Restable(stored)
        /\ stored' = stored /\ returned' = returned /\ done' = done
    BY <1>6 DEF RunUntilBlocked
  <2> QED
    BY <1>5, <2>1 DEF OneAlone, Begun
<1>7. ASSUME NEW a \in Activation, NEW s \in Step, NEW p \in Person, ApproveStep(a, s, p)
      PROVE  OneAlone(a)
  <2>1. /\ Begin(a, [Marked(stored, s, "completed") EXCEPT !.status = "running"], {}, "reply")
        /\ Overlap \subseteq disturbed' /\ Status(stored, s) = "awaiting_approval"
        /\ stored' = stored /\ returned' = returned /\ done' = done \cup {s}
    BY <1>7 DEF ApproveStep
  <2> QED
    BY <1>5, <2>1 DEF OneAlone, Begun
<1>8. ASSUME NEW a \in Activation, Cancel(a)
      PROVE  OneAlone(a)
  <2>1. /\ Begin(a, [stored EXCEPT !.status = "failed"], {}, "reply")
        /\ Overlap \subseteq disturbed' /\ "cancel" \in disturbed'
        /\ stored' = stored /\ returned' = returned /\ done' = done
    BY <1>8 DEF Cancel
  <2> QED
    BY <1>5, <2>1 DEF OneAlone, Begun
<1>9. ASSUME NEW a \in Activation, NEW op, act' = [act EXCEPT ![a] = op], NEW next,
             SaveReturns(a, next),
             returned' = IF next = "return" THEN act[a].run.status ELSE returned,
             \/ next \in {"proceed", "settle"} /\ op \in Proceed(act[a])
             \/ next = "call" /\ op = [act[a] EXCEPT !.pc = "calling"]
             \/ next = "retry" /\ op = Attempt(act[a], act[a].step)
             \/ next \in {"return", "reply"} /\ op = Idle
      PROVE  OneAlone(a)
  <2>1. act[a].pc = "saving" /\ act[a].next = next /\ stored' = act[a].run /\ done' = done
    BY <1>9 DEF SaveReturns
  <2>2. /\ act'[a] = op
        /\ \A b \in Activation \ {a} : act[b].pc = "idle" /\ act'[b].pc = "idle"
    BY <1>4, <1>9, <2>1
  <2>3. Arrived(a)
    BY <1>9, <2>1, <2>2 DEF Arrived
  <2> QED
    BY <2>2, <2>3 DEF OneAlone
<1>10. ASSUME NEW a \in Activation, ProceedAfterSave(a)
       PROVE  OneAlone(a)
  <2>1. PICK next \in {"proceed", "settle"} : SaveReturns(a, next)
    BY <1>10 DEF ProceedAfterSave
  <2>2. PICK op \in Proceed(act[a]) : act' = [act EXCEPT ![a] = op]
    BY <1>10 DEF ProceedAfterSave
  <2>3. returned' = returned
    BY <1>10 DEF ProceedAfterSave
  <2> QED
    BY <1>9, <2>1, <2>2, <2>3
<1>11. ASSUME NEW a \in Activation, CallAfterSave(a)
       PROVE  OneAlone(a)
  <2>1. PICK op : op = [act[a] EXCEPT !.pc = "calling"]
    OBVIOUS
  <2>2. SaveReturns(a, "call") /\ act' = [act EXCEPT ![a] = op] /\ returned' = returned
    BY <1>11, <2>1 DEF CallAfterSave
  <2> QED
    BY <1>9, <2>1, <2>2
<1>12. ASSUME NEW a \in Activation, RetryAfterSave(a) \/ ReturnAfterSave(a) \/ ReplyAfterSave(a)
       PROVE  OneAlone(a)
  BY <1>9, <1>12 DEF RetryAfterSave, ReturnAfterSave, ReplyAfterSave
<1>13. ASSUME NEW a \in Activation, SaveFails(a)
       PROVE  OneAlone(a)
  <2>1. PICK op : op = IF act[a].next = "settle" THEN Caught(act[a]) ELSE Idle
    OBVIOUS
  <2>2. /\ act[a].pc = "saving" /\ act' = [act EXCEPT ![a] = op]
        /\ done' = done /\ returned' = returned /\ "rejection" \in disturbed'
    BY <1>13, <2>1 DEF SaveFails
  <2>3. /\ act'[a] = op
        /\ \A b \in Activation \ {a} : act[b].pc = "idle" /\ act'[b].pc = "idle"
    BY <1>4, <2>2
  <2>4. stored' = stored
    BY <1>13, <2>3 DEF SaveFails
  <2>5. act'[a] = Idle \/ (act[a].next = "settle" /\ act'[a] = Caught(act[a]))
    BY <2>1, <2>3
  <2> QED
    BY <2>2, <2>3, <2>4, <2>5 DEF OneAlone, Lost
<1>14. ASSUME NEW a \in Activation, HandlerReturns(a)
       PROVE  OneAlone(a)
  <2>1. PICK op : op = Saving(act[a], Marked(act[a].run, act[a].step, "completed"),
                              act[a].step, "settle")
    OBVIOUS
  <2>2. /\ act[a].pc = "calling" /\ act' = [act EXCEPT ![a] = op] /\ stored' = stored
        /\ done' = done \cup {act[a].step} /\ returned' = returned
    BY <1>14, <2>1 DEF HandlerReturns
  <2>3. /\ act'[a] = op
        /\ \A b \in Activation \ {a} : act[b].pc = "idle" /\ act'[b].pc = "idle"
    BY <1>4, <2>2
  <2>4. /\ op.pc = "saving" /\ op.next = "settle"
        /\ op.run = Marked(act[a].run, act[a].step, "completed")
    BY <2>1 DEF Saving
  <2>5. Answered(a)
    BY <2>2, <2>3, <2>4 DEF Answered
  <2> QED
    BY <2>3, <2>5 DEF OneAlone
<1>15. ASSUME NEW a \in Activation, HandlerThrows(a)
       PROVE  OneAlone(a)
  <2>1. /\ act[a].pc = "calling" /\ act' = [act EXCEPT ![a] = Caught(act[a])]
        /\ stored' = stored /\ done' = done /\ returned' = returned
    BY <1>15 DEF HandlerThrows
  <2> QED
    BY <1>4, <2>1 DEF OneAlone, Answered
<1> QED
  BY <1>1, <1>2, <1>3, <1>6, <1>7, <1>8, <1>10, <1>11, <1>12, <1>13, <1>14, <1>15 DEF Next

(***************************************************************************)
(* Settled runs.  Nobody is at work on one, and nobody can begin: a run that *)
(* waits for an approval is paused, and waits for one only.                 *)
(***************************************************************************)
Awaits(run, s) == Status(run, s) = "awaiting_approval"

OneWait(run) ==
    \A s \in Step : Awaits(run, s) =>
        run.status = "paused" /\ \A r \in Step : Awaits(run, r) => r = s

NoWait(run) == \A s \in Step : ~Awaits(run, s)

WaitOp(op) ==
    op.pc # "idle" =>
        IF op.pc = "saving" /\ op.next = "return" THEN OneWait(op.run)
        ELSE op.run.status = "running" /\ NoWait(op.run)

SettledInv ==
    disturbed \cap {"overlap", "cancel"} = {} =>
        /\ OneWait(stored)
        /\ \A a \in Activation :
              /\ WaitOp(act[a])
              /\ act[a].pc # "idle" => stored.status \notin {"completed", "failed"}

LEMMA NoWaitKept ==
    ASSUME NEW run \in Run, NoWait(run), NEW s \in Step
    PROVE  /\ OneWait(run) /\ OneWait(Paused(run, s)) /\ OneWait(Failed(run, s))
           /\ OneWait(Closed(run)) /\ NoWait(AttemptBegun(run, s))
           /\ NoWait(Marked(run, s, "pending")) /\ NoWait(Marked(run, s, "completed"))
           /\ AttemptBegun(run, s).status = run.status
           /\ Marked(run, s, "pending").status = run.status
           /\ Marked(run, s, "completed").status = run.status
<1>1. /\ Marked(run, s, "pending").status = run.status
      /\ Status(Marked(run, s, "pending"), s) = "pending"
      /\ \A t \in Step \ {s} : Status(Marked(run, s, "pending"), t) = Status(run, t)
  BY MarkedStatus
<1>2. /\ Marked(run, s, "completed").status = run.status
      /\ Status(Marked(run, s, "completed"), s) = "completed"
      /\ \A t \in Step \ {s} : Status(Marked(run, s, "completed"), t) = Status(run, t)
  BY MarkedStatus
<1>3. NoWait(Marked(run, s, "pending")) /\ NoWait(Marked(run, s, "completed"))
  BY <1>1, <1>2 DEF NoWait, Awaits
<1>4. NoWait(Failed(run, s)) /\ NoWait(Closed(run)) /\ NoWait(AttemptBegun(run, s))
  BY FailedStatus, ClosedStatus, BegunStatus DEF NoWait, Awaits
<1>5. OneWait(Paused(run, s))
  BY PausedStatus DEF OneWait, NoWait, Awaits
<1>6. \A r : NoWait(r) => OneWait(r)
  BY DEF OneWait, NoWait
<1> QED
  BY <1>1, <1>2, <1>3, <1>4, <1>5, <1>6, BegunStatus

(* The run an operation works on is one, and so is the status of its work. *)
LEMMA OpFacts ==
    ASSUME WorkflowInv, NEW a \in Activation
    PROVE  /\ stored \in Run /\ act[a] \in Operation /\ act[a].run \in Run
           /\ Working(act[a]) => act[a].step \in Step /\ act[a].run.status = "running"
           /\ act[a].pc = "saving" /\ act[a].next = "proceed" => act[a].run.status = "running"
           /\ act[a].pc = "calling" => Working(act[a])
           /\ act[a].pc = "saving" /\ act[a].next \in {"call", "settle", "retry"} =>
                 Working(act[a])
           /\ act[a].pc = "saving" =>
                 act[a].next \in {"proceed", "call", "settle", "retry", "return", "reply"}
  BY DEF WorkflowInv, GoodRun, GoodOp, Working, Operation, Nexts

LEMMA CallingKeeps ==
    ASSUME NEW op \in Operation, NEW new, new = [op EXCEPT !.pc = "calling"]
    PROVE  new.pc = "calling" /\ new.run = op.run /\ new.step = op.step /\ new.next = op.next
  BY DEF Operation

LEMMA SettledStep == WorkflowInv /\ CountInv /\ SettledInv /\ [Next]_vars => SettledInv'
<1> SUFFICES ASSUME WorkflowInv, CountInv, SettledInv, [Next]_vars,
                    disturbed' \cap {"overlap", "cancel"} = {}
             PROVE  /\ OneWait(stored')
                    /\ \A a \in Activation :
                          /\ WaitOp(act'[a])
                          /\ act'[a].pc # "idle" => stored'.status \notin {"completed", "failed"}
  BY DEF SettledInv
<1> DEFINE Kept == /\ OneWait(stored')
                   /\ \A a \in Activation :
                         /\ WaitOp(act'[a])
                         /\ act'[a].pc # "idle" => stored'.status \notin {"completed", "failed"}
<1>1. /\ disturbed \cap {"overlap", "cancel"} = {}
      /\ NothingMoves \/ AllDie \/ \E a \in Activation : OneAlone(a)
  BY HistoryGrows, SerialSteps
<1>2. /\ OneWait(stored)
      /\ \A a \in Activation :
            /\ WaitOp(act[a])
            /\ act[a].pc # "idle" => stored.status \notin {"completed", "failed"}
  BY <1>1 DEF SettledInv
<1>3. CASE NothingMoves
  BY <1>2, <1>3 DEF NothingMoves
<1>4. CASE AllDie
  BY <1>2, <1>4 DEF AllDie, WaitOp
<1>5. ASSUME NEW a \in Activation, OneAlone(a) PROVE Kept
  <2>1. ASSUME OneWait(stored'), WaitOp(act'[a]),
               act'[a].pc # "idle" => stored'.status \notin {"completed", "failed"}
        PROVE  Kept
    BY <1>5, <2>1 DEF OneAlone, WaitOp
  <2>2. /\ stored \in Run /\ act[a] \in Operation /\ act[a].run \in Run
        /\ WaitOp(act[a]) /\ OneWait(stored)
        /\ act[a].pc # "idle" => stored.status \notin {"completed", "failed"}
    BY <1>2, OpFacts
  <2>3. PICK any \in Step : TRUE
    BY ValidDefinition
  <2>4. CASE Begun(a)
    <3>1. CASE ~Restable(stored) /\ act'[a].run = [stored EXCEPT !.status = "running"]
               /\ act'[a].next = "proceed"
      <4>1. stored.status \notin {"completed", "failed", "paused"}
        BY <3>1 DEF Restable
      <4>2. NoWait(stored)
        BY <2>2, <4>1 DEF OneWait, NoWait
      <4>3. act'[a].run.status = "running" /\ NoWait(act'[a].run)
        BY <2>2, <3>1, <4>2, RunStatus DEF NoWait, Awaits
      <4> QED
        BY <2>1, <2>2, <2>4, <3>1, <4>1, <4>3 DEF Begun, WaitOp
    <3>2. ASSUME NEW s \in Step, Awaits(stored, s), act'[a].next = "reply",
                 act'[a].run = [Marked(stored, s, "completed") EXCEPT !.status = "running"]
          PROVE  Kept
      <4>1. stored.status = "paused" /\ \A r \in Step : Awaits(stored, r) => r = s
        BY <2>2, <3>2 DEF OneWait
      <4>2. PICK m : m = Marked(stored, s, "completed")
        OBVIOUS
      <4>3. /\ act'[a].run.status = "running" /\ act'[a].run.steps = m.steps
            /\ Status(m, s) = "completed"
            /\ \A t \in Step \ {s} : Status(m, t) = Status(stored, t)
        BY <2>2, <3>2, <4>2, MarkedStatus
      <4>4. /\ Status(act'[a].run, s) = "completed"
            /\ \A t \in Step \ {s} : Status(act'[a].run, t) = Status(stored, t)
        BY <4>3 DEF Status
      <4>5. NoWait(act'[a].run)
        BY <4>1, <4>4 DEF NoWait, Awaits
      <4> QED
        BY <2>1, <2>2, <2>4, <3>2, <4>1, <4>3, <4>5 DEF Begun, WaitOp
    <3>3. "cancel" \notin disturbed'
      OBVIOUS
    <3> QED
      BY <2>4, <3>1, <3>2, <3>3 DEF Begun, Awaits
  <2>5. CASE Arrived(a)
    <3>1. act[a].next = "return" \/ (act[a].run.status = "running" /\ NoWait(act[a].run))
      BY <2>2, <2>5 DEF Arrived, WaitOp
    <3>2. OneWait(stored')
      BY <2>2, <2>3, <2>5, <3>1, NoWaitKept DEF Arrived, WaitOp
    <3>3. CASE act'[a] = Idle
      BY <2>1, <3>2, <3>3 DEF Idle, WaitOp
    <3>4. CASE act'[a] # Idle
      <4>1. act[a].next \in {"proceed", "settle", "call", "retry"} /\ act[a].run.status = "running"
            /\ NoWait(act[a].run) /\ stored' = act[a].run
        BY <2>5, <3>1, <3>4 DEF Arrived
      <4>2. CASE act'[a] \in Proceed(act[a])
        <5>1. Runnable(act[a].run) \subseteq Step
          BY DEF Runnable
        <5>2. \A s \in Step :
                 /\ OneWait(Closed(act[a].run)) /\ OneWait(Failed(act[a].run, s))
                 /\ OneWait(Paused(act[a].run, s)) /\ NoWait(AttemptBegun(act[a].run, s))
                 /\ AttemptBegun(act[a].run, s).status = "running"
          BY <2>2, <4>1, NoWaitKept
        <5>3. WaitOp(act'[a])
          BY <2>3, <4>2, <5>1, <5>2, ProceedCases DEF WaitOp
        <5> QED
          BY <2>1, <3>2, <4>1, <5>3
      <4>3. CASE act'[a] = [act[a] EXCEPT !.pc = "calling"]
        <5>1. act'[a].run = act[a].run /\ act'[a].pc = "calling"
          BY <2>2, <4>3, CallingKeeps
        <5> QED
          BY <2>1, <3>2, <4>1, <5>1 DEF WaitOp
      <4>4. CASE act[a].next = "retry" /\ act'[a] = Attempt(act[a], act[a].step)
        <5>1. act[a].step \in Step
          BY <2>5, <4>4, OpFacts DEF Arrived
        <5>2. /\ OneWait(Failed(act[a].run, act[a].step))
              /\ NoWait(AttemptBegun(act[a].run, act[a].step))
              /\ AttemptBegun(act[a].run, act[a].step).status = "running"
          BY <2>2, <4>1, <5>1, NoWaitKept
        <5>3. WaitOp(act'[a])
          BY <4>4, <5>2, AttemptCases DEF WaitOp
        <5> QED
          BY <2>1, <3>2, <4>1, <5>3
      <4> QED
        BY <2>5, <3>4, <4>2, <4>3, <4>4 DEF Arrived
    <3> QED
      BY <3>3, <3>4
  <2>6. ASSUME act[a].step \in Step, act[a].run.status = "running", NoWait(act[a].run)
        PROVE  WaitOp(Caught(act[a]))
    <3>1. /\ OneWait(Failed(act[a].run, act[a].step))
          /\ NoWait(Marked(act[a].run, act[a].step, "pending"))
          /\ Marked(act[a].run, act[a].step, "pending").status = "running"
      BY <2>2, <2>6, NoWaitKept
    <3> QED
      BY <3>1, CaughtCases DEF WaitOp
  <2>7. CASE Lost(a)
    <3>1. CASE act'[a] = Idle
      BY <2>1, <2>2, <2>7, <3>1 DEF Lost, Idle, WaitOp
    <3>2. CASE act[a].next = "settle" /\ act'[a] = Caught(act[a])
      <4>1. act[a].step \in Step /\ act[a].run.status = "running" /\ NoWait(act[a].run)
        BY <2>2, <2>7, <3>2, OpFacts DEF Lost, WaitOp
      <4> QED
        BY <2>1, <2>2, <2>6, <2>7, <3>2, <4>1 DEF Lost
    <3> QED
      BY <2>7, <3>1, <3>2 DEF Lost
  <2>8. CASE Answered(a)
    <3>1. act[a].step \in Step /\ act[a].run.status = "running"
      BY <2>8, OpFacts DEF Answered
    <3>2. NoWait(act[a].run)
      BY <2>2, <2>8, <3>1 DEF Answered, WaitOp
    <3>3. /\ NoWait(Marked(act[a].run, act[a].step, "completed"))
          /\ Marked(act[a].run, act[a].step, "completed").status = "running"
      BY <2>2, <3>1, <3>2, NoWaitKept
    <3>4. WaitOp(act'[a])
      BY <2>6, <2>8, <3>1, <3>2, <3>3 DEF Answered, WaitOp
    <3>5. stored' = stored /\ act[a].pc # "idle"
      BY <2>8 DEF Answered
    <3> QED
      BY <2>1, <2>2, <3>4, <3>5
  <2> QED
    BY <1>5, <2>4, <2>5, <2>7, <2>8 DEF OneAlone
<1> QED
  BY <1>1, <1>3, <1>4, <1>5

LEMMA SettledInit == Init => SettledInv
<1> SUFFICES ASSUME Init PROVE SettledInv
  OBVIOUS
<1>1. OneWait(stored)
  BY DEF Init, Fresh, OneWait, Awaits, Status
<1>2. \A a \in Activation : act[a].pc = "idle"
  BY DEF Init, Idle
<1> QED
  BY <1>1, <1>2 DEF SettledInv, WaitOp

(* A run that is completed or failed keeps its status and its steps, crashes    *)
(* and rejected saves included, while operations do not overlap and nobody     *)
(* cancels (runUntilBlocked, approveStep).                                    *)
THEOREM SettledRunsStay == Spec => SettledStays
<1>1. WorkflowInv /\ CountInv /\ SettledInv /\ [Next]_vars =>
        [(/\ disturbed' \cap {"overlap", "cancel"} = {}
          /\ stored.status \in {"completed", "failed"}) => UNCHANGED stored]_vars
  <2> SUFFICES ASSUME WorkflowInv, CountInv, SettledInv, [Next]_vars,
                      disturbed' \cap {"overlap", "cancel"} = {},
                      stored.status \in {"completed", "failed"}
               PROVE  stored' = stored
    OBVIOUS
  <2>1. disturbed \cap {"overlap", "cancel"} = {}
    BY HistoryGrows
  <2>2. \A a \in Activation : act[a].pc = "idle"
    BY <2>1 DEF SettledInv
  <2>3. NothingMoves \/ AllDie \/ \E a \in Activation : OneAlone(a)
    BY SerialSteps
  <2> QED
    BY <2>2, <2>3 DEF NothingMoves, AllDie, OneAlone, Begun, Arrived, Lost, Answered
<1> QED
  BY <1>1, WorkflowInit, CountInit, SettledInit, WorkflowStep, CountStep, SettledStep, PTL
     DEF Spec, SettledStays

(***************************************************************************)
(* No handler succeeds twice.  What is done is pending in no copy, so that   *)
(* nobody chooses it: the store learns that a step runs before its handler   *)
(* is called.                                                               *)
(***************************************************************************)
NotPending(run, finished) == \A s \in finished : Status(run, s) # "pending"

OnceOp(op, store, finished) ==
    op.pc # "idle" =>
        /\ NotPending(op.run, finished)
        /\ AtCall(op) \/ (op.pc = "saving" /\ op.next = "retry") => op.step \notin finished
        /\ op.pc = "saving" /\ op.next = "call" => Status(op.run, op.step) # "pending"
        /\ op.pc = "calling" => Status(store, op.step) # "pending"

OnceInv ==
    disturbed \cap {"overlap", "rejection"} = {} =>
        /\ NotPending(stored, done)
        /\ \A a \in Activation : OnceOp(act[a], stored, done)

LEMMA NotPendingKept ==
    ASSUME NEW run \in Run, NEW finished \in SUBSET Step, NotPending(run, finished), NEW s \in Step
    PROVE  /\ NotPending(Failed(run, s), finished) /\ NotPending(Paused(run, s), finished)
           /\ NotPending(Closed(run), finished) /\ NotPending(AttemptBegun(run, s), finished)
           /\ Status(AttemptBegun(run, s), s) # "pending"
           /\ NotPending(Marked(run, s, "completed"), finished \cup {s})
           /\ s \notin finished => NotPending(Marked(run, s, "pending"), finished)
<1>1. NotPending(Failed(run, s), finished)
  BY FailedStatus DEF NotPending
<1>2. NotPending(Paused(run, s), finished)
  BY PausedStatus DEF NotPending
<1>3. NotPending(AttemptBegun(run, s), finished) /\ Status(AttemptBegun(run, s), s) # "pending"
  BY BegunStatus DEF NotPending
<1>4. NotPending(Closed(run), finished)
  BY ClosedStatus DEF NotPending
<1>5. /\ Status(Marked(run, s, "completed"), s) = "completed"
      /\ \A t \in Step \ {s} : Status(Marked(run, s, "completed"), t) = Status(run, t)
  BY MarkedStatus
<1>6. \A t \in Step \ {s} : Status(Marked(run, s, "pending"), t) = Status(run, t)
  BY MarkedStatus
<1> QED
  BY <1>1, <1>2, <1>3, <1>4, <1>5, <1>6 DEF NotPending

LEMMA OnceStep == WorkflowInv /\ CountInv /\ OnceInv /\ [Next]_vars => OnceInv'
<1> SUFFICES ASSUME WorkflowInv, CountInv, OnceInv, [Next]_vars,
                    disturbed' \cap {"overlap", "rejection"} = {}
             PROVE  /\ NotPending(stored', done')
                    /\ \A a \in Activation : OnceOp(act'[a], stored', done')
  BY DEF OnceInv
<1> DEFINE Kept == /\ NotPending(stored', done')
                   /\ \A a \in Activation : OnceOp(act'[a], stored', done')
<1>1. /\ disturbed \cap {"overlap", "rejection"} = {}
      /\ NothingMoves \/ AllDie \/ \E a \in Activation : OneAlone(a)
  BY HistoryGrows, SerialSteps
<1>2. NotPending(stored, done) /\ \A a \in Activation : OnceOp(act[a], stored, done)
  BY <1>1 DEF OnceInv
<1>3. CASE NothingMoves
  BY <1>2, <1>3 DEF NothingMoves
<1>4. CASE AllDie
  BY <1>2, <1>4 DEF AllDie, OnceOp
<1>5. ASSUME NEW a \in Activation, OneAlone(a) PROVE Kept
  <2>1. ASSUME NotPending(stored', done'), OnceOp(act'[a], stored', done') PROVE Kept
    BY <1>5, <2>1 DEF OneAlone, OnceOp
  <2>2. /\ stored \in Run /\ act[a] \in Operation /\ act[a].run \in Run /\ done \in SUBSET Step
        /\ OnceOp(act[a], stored, done) /\ NotPending(stored, done)
    BY <1>2, OpFacts DEF WorkflowInv, HistoryOK
  <2>3. PICK any \in Step : TRUE
    BY ValidDefinition
  <2>4. CASE Begun(a)
    <3>1. act'[a].pc = "saving" /\ act'[a].next \in {"proceed", "reply"} /\ stored' = stored
      BY <2>4 DEF Begun
    <3>2. ASSUME NEW status, act'[a].run = [stored EXCEPT !.status = status], done' = done
          PROVE  Kept
      <4>1. NotPending(act'[a].run, done')
        BY <2>2, <3>2, RunStatus DEF NotPending
      <4> QED
        BY <2>1, <2>2, <3>1, <3>2, <4>1 DEF OnceOp, AtCall
    <3>3. ASSUME NEW s \in Step, Status(stored, s) = "awaiting_approval",
                 act'[a].run = [Marked(stored, s, "completed") EXCEPT !.status = "running"],
                 done' = done \cup {s}
          PROVE  Kept
      <4>1. PICK m : m = Marked(stored, s, "completed")
        OBVIOUS
      <4>2. act'[a].run.steps = m.steps
        BY <2>2, <3>3, <4>1, MarkedStatus
      <4>3. NotPending(m, done')
        BY <2>2, <3>3, <4>1, NotPendingKept
      <4>4. NotPending(act'[a].run, done') /\ NotPending(stored', done')
        BY <2>2, <3>1, <3>3, <4>2, <4>3 DEF NotPending, Status
      <4> QED
        BY <2>1, <3>1, <4>4 DEF OnceOp, AtCall
    <3> QED
      BY <2>4, <3>2, <3>3 DEF Begun
  <2>5. CASE Arrived(a)
    <3>1. NotPending(stored', done') /\ stored' = act[a].run /\ done' = done
      BY <2>2, <2>5 DEF Arrived, OnceOp
    <3>2. CASE act'[a] = Idle
      BY <2>1, <3>1, <3>2 DEF Idle, OnceOp
    <3>3. CASE act'[a] \in Proceed(act[a])
      <4>1. \A s \in Runnable(act[a].run) : s \in Step /\ s \notin done
        BY <3>1 DEF Runnable, NotPending
      <4>2. \A s \in Step :
               /\ NotPending(Closed(act[a].run), done) /\ NotPending(Failed(act[a].run, s), done)
               /\ NotPending(Paused(act[a].run, s), done)
               /\ NotPending(AttemptBegun(act[a].run, s), done)
               /\ Status(AttemptBegun(act[a].run, s), s) # "pending"
        BY <2>2, <3>1, NotPendingKept
      <4>3. OnceOp(act'[a], stored', done)
        BY <2>3, <3>3, <4>1, <4>2, ProceedCases DEF OnceOp, AtCall
      <4> QED
        BY <2>1, <3>1, <4>3
    <3>4. CASE act[a].next = "call" /\ act'[a] = [act[a] EXCEPT !.pc = "calling"]
      <4>1. /\ act'[a].pc = "calling" /\ act'[a].run = act[a].run /\ act'[a].step = act[a].step
        BY <2>2, <3>4, CallingKeeps
      <4> QED
        BY <2>1, <2>2, <2>5, <3>1, <3>4, <4>1 DEF Arrived, OnceOp, AtCall
    <3>5. CASE act[a].next = "retry" /\ act'[a] = Attempt(act[a], act[a].step)
      <4>1. act[a].step \in Step /\ act[a].step \notin done /\ NotPending(act[a].run, done)
        BY <2>2, <2>5, <3>5, OpFacts DEF Arrived, OnceOp
      <4>2. /\ NotPending(Failed(act[a].run, act[a].step), done)
            /\ NotPending(AttemptBegun(act[a].run, act[a].step), done)
            /\ Status(AttemptBegun(act[a].run, act[a].step), act[a].step) # "pending"
        BY <2>2, <4>1, NotPendingKept
      <4>3. OnceOp(act'[a], stored', done)
        BY <3>5, <4>1, <4>2, AttemptCases DEF OnceOp, AtCall
      <4> QED
        BY <2>1, <3>1, <4>3
    <3> QED
      BY <2>5, <3>2, <3>3, <3>4, <3>5 DEF Arrived
  <2>6. CASE Lost(a)
    BY <2>6 DEF Lost
  <2>7. CASE Answered(a)
    <3>1. /\ act[a].step \in Step /\ act[a].step \notin done /\ NotPending(act[a].run, done)
          /\ Status(stored, act[a].step) # "pending" /\ stored' = stored
      BY <2>2, <2>7, OpFacts DEF Answered, OnceOp, AtCall
    <3>2. CASE act'[a] = Caught(act[a]) /\ done' = done
      <4>1. /\ NotPending(Failed(act[a].run, act[a].step), done)
            /\ NotPending(Marked(act[a].run, act[a].step, "pending"), done)
        BY <2>2, <3>1, NotPendingKept
      <4>2. OnceOp(act'[a], stored', done)
        BY <3>1, <3>2, <4>1, CaughtCases DEF OnceOp, AtCall
      <4> QED
        BY <2>1, <2>2, <3>1, <3>2, <4>2
    <3>3. CASE /\ act'[a].pc = "saving" /\ act'[a].next = "settle"
               /\ act'[a].run = Marked(act[a].run, act[a].step, "completed")
               /\ done' = done \cup {act[a].step}
      <4>1. NotPending(Marked(act[a].run, act[a].step, "completed"), done')
        BY <2>2, <3>1, <3>3, NotPendingKept
      <4>2. NotPending(stored', done')
        BY <2>2, <3>1, <3>3 DEF NotPending
      <4> QED
        BY <2>1, <3>3, <4>1, <4>2 DEF OnceOp, AtCall
    <3> QED
      BY <2>7, <3>2, <3>3 DEF Answered
  <2> QED
    BY <1>5, <2>4, <2>5, <2>6, <2>7 DEF OneAlone
<1> QED
  BY <1>1, <1>3, <1>4, <1>5

LEMMA OnceInit == Init => OnceInv
  BY DEF Init, OnceInv, OnceOp, NotPending, Idle

(* A handler that returned is not called again, in all the life of the run and  *)
(* across crashes, while operations do not overlap and saves arrive.          *)
THEOREM HandlersSucceedOnce == Spec => SucceedsOnce
<1>1. OnceInv' /\ [Next]_vars =>
        [disturbed' \cap {"overlap", "rejection"} = {} =>
           \A a \in Activation, s \in done : Calling(a, s)' => Calling(a, s)]_vars
  <2> SUFFICES ASSUME OnceInv', [Next]_vars, disturbed' \cap {"overlap", "rejection"} = {},
                      NEW a \in Activation, NEW s \in done, Calling(a, s)'
               PROVE  FALSE
    BY DEF vars
  <2>1. act'[a].pc = "calling" /\ act'[a].step = s /\ s \in done'
    BY HistoryGrows DEF Calling
  <2> QED
    BY <2>1 DEF OnceInv, OnceOp, AtCall
<1> QED
  BY <1>1, WorkflowInit, CountInit, OnceInit, WorkflowStep, CountStep, OnceStep, PTL
     DEF Spec, SucceedsOnce

(***************************************************************************)
(* What runUntilBlocked returns.  With neither crash nor rejected save, at   *)
(* most one step of a run is neither pending nor completed, and none is when *)
(* the loop looks for the next step.  So if none is runnable, none is        *)
(* pending, since the definition has no cycle: the run is completed.        *)
(***************************************************************************)
OddStep(run, s) == Status(run, s) \notin {"pending", "completed"}

NoneOdd(run) == \A s \in Step : ~OddStep(run, s)

OnlyOdd(run, s) == \A t \in Step : OddStep(run, t) => t = s

Clear(run) ==
    /\ \A s, t \in Step : OddStep(run, s) /\ OddStep(run, t) => s = t
    /\ run.status \in {"pending", "running"} => NoneOdd(run)

ReturnOp(op) ==
    /\ op.pc = "saving" /\ op.next \in {"proceed", "settle"} => NoneOdd(op.run)
    /\ AtCall(op) \/ (op.pc = "saving" /\ op.next = "retry") => OnlyOdd(op.run, op.step)
    /\ op.pc = "saving" /\ op.next = "return" =>
          Clear(op.run) /\ op.run.status \in {"paused", "completed", "failed"}
    /\ op.pc = "saving" /\ op.next = "reply" => Clear(op.run)

ReturnInv ==
    disturbed \cap {"overlap", "crash", "rejection"} = {} =>
        /\ returned \in {"none", "paused", "completed", "failed"}
        /\ (\A a \in Activation : act[a].pc = "idle") => Clear(stored)
        /\ \A a \in Activation : ReturnOp(act[a])

(* With nothing runnable and nothing odd, all is completed. *)
LEMMA NothingLeft ==
    ASSUME NEW run \in Run, NoneOdd(run), Runnable(run) = {}
    PROVE  AllStepsCompleted(run)
<1> DEFINE left == {s \in Step : Status(run, s) = "pending"}
<1>1. ASSUME left # {} PROVE FALSE
  <2>1. PICK s \in left : DependsOn[s] \cap left = {}
    BY <1>1, NoCycle
  <2>2. \A d \in DependsOn[s] : d \in Step
    BY <2>1, ValidDefinition
  <2>3. \A d \in DependsOn[s] : Status(run, d) = "completed"
    BY <2>1, <2>2 DEF NoneOdd, OddStep
  <2>4. s \in Runnable(run)
    BY <2>1, <2>3 DEF Runnable
  <2> QED
    BY <2>4
<1> QED
  BY <1>1 DEF AllStepsCompleted, NoneOdd, OddStep

LEMMA OddKept ==
    ASSUME NEW run \in Run, NEW s \in Step, OnlyOdd(run, s)
    PROVE  /\ Clear(Failed(run, s)) /\ Failed(run, s).status = "failed"
           /\ Clear(Paused(run, s)) /\ Paused(run, s).status = "paused"
           /\ OnlyOdd(AttemptBegun(run, s), s)
           /\ NoneOdd(Marked(run, s, "completed")) /\ NoneOdd(Marked(run, s, "pending"))
<1>1. OnlyOdd(Failed(run, s), s) /\ Failed(run, s).status = "failed"
  BY FailedStatus DEF OnlyOdd, OddStep
<1>2. OnlyOdd(Paused(run, s), s) /\ Paused(run, s).status = "paused"
  BY PausedStatus DEF OnlyOdd, OddStep
<1>3. OnlyOdd(AttemptBegun(run, s), s)
  BY BegunStatus DEF OnlyOdd, OddStep
<1>4. /\ Status(Marked(run, s, "completed"), s) = "completed"
      /\ \A t \in Step \ {s} : Status(Marked(run, s, "completed"), t) = Status(run, t)
  BY MarkedStatus
<1>5. /\ Status(Marked(run, s, "pending"), s) = "pending"
      /\ \A t \in Step \ {s} : Status(Marked(run, s, "pending"), t) = Status(run, t)
  BY MarkedStatus
<1>6. NoneOdd(Marked(run, s, "completed")) /\ NoneOdd(Marked(run, s, "pending"))
  BY <1>4, <1>5 DEF NoneOdd, OnlyOdd, OddStep
<1> QED
  BY <1>1, <1>2, <1>3, <1>6 DEF Clear, OnlyOdd

LEMMA NoneIsOnly ==
    ASSUME NEW run, NoneOdd(run)
    PROVE  Clear(run) /\ \A s : OnlyOdd(run, s)
  BY DEF Clear, NoneOdd, OnlyOdd

LEMMA ReturnStep == WorkflowInv /\ CountInv /\ ReturnInv /\ [Next]_vars => ReturnInv'
<1> SUFFICES ASSUME WorkflowInv, CountInv, ReturnInv, [Next]_vars,
                    disturbed' \cap {"overlap", "crash", "rejection"} = {}
             PROVE  /\ returned' \in {"none", "paused", "completed", "failed"}
                    /\ (\A a \in Activation : act'[a].pc = "idle") => Clear(stored')
                    /\ \A a \in Activation : ReturnOp(act'[a])
  BY DEF ReturnInv
<1> DEFINE Kept == /\ returned' \in {"none", "paused", "completed", "failed"}
                   /\ (\A a \in Activation : act'[a].pc = "idle") => Clear(stored')
                   /\ \A a \in Activation : ReturnOp(act'[a])
<1>1. /\ disturbed \cap {"overlap", "crash", "rejection"} = {}
      /\ NothingMoves \/ AllDie \/ \E a \in Activation : OneAlone(a)
  BY HistoryGrows, SerialSteps
<1>2. /\ returned \in {"none", "paused", "completed", "failed"}
      /\ (\A a \in Activation : act[a].pc = "idle") => Clear(stored)
      /\ \A a \in Activation : ReturnOp(act[a])
  BY <1>1 DEF ReturnInv
<1>3. CASE NothingMoves
  BY <1>2, <1>3 DEF NothingMoves
<1>4. CASE AllDie
  BY <1>4 DEF AllDie
<1>5. ASSUME NEW a \in Activation, OneAlone(a) PROVE Kept
  <2>1. ASSUME returned' \in {"none", "paused", "completed", "failed"}, ReturnOp(act'[a]),
               act'[a].pc = "idle" => Clear(stored')
        PROVE  Kept
    BY <1>5, <2>1 DEF OneAlone, ReturnOp, AtCall
  <2>2. /\ stored \in Run /\ act[a] \in Operation /\ act[a].run \in Run /\ ReturnOp(act[a])
        /\ returned \in {"none", "paused", "completed", "failed"}
    BY <1>2, OpFacts
  <2>3. PICK any \in Step : TRUE
    BY ValidDefinition
  <2>4. CASE Begun(a)
    <3>1. /\ act'[a].pc = "saving" /\ returned' = returned
          /\ \A b \in Activation : act[b].pc = "idle"
      BY <1>5, <2>4 DEF OneAlone, Begun
    <3>2. Clear(stored)
      BY <1>2, <3>1
    <3>3. CASE /\ act'[a].next = "proceed" /\ ~Restable(stored)
               /\ act'[a].run = [stored EXCEPT !.status = "running"]
      <4>1. stored.status \in {"pending", "running"}
        BY <2>2, <3>3 DEF Restable, Run, RunStatuses
      <4>2. NoneOdd(stored)
        BY <3>2, <4>1 DEF Clear
      <4>3. NoneOdd(act'[a].run)
        BY <2>2, <3>3, <4>2, RunStatus DEF NoneOdd, OddStep
      <4> QED
        BY <2>1, <2>2, <3>1, <3>3, <4>3 DEF ReturnOp, AtCall
    <3>4. ASSUME NEW s \in Step, act'[a].next = "reply", Status(stored, s) = "awaiting_approval",
                 act'[a].run = [Marked(stored, s, "completed") EXCEPT !.status = "running"]
          PROVE  Kept
      <4>1. OnlyOdd(stored, s)
        BY <3>2, <3>4 DEF Clear, OnlyOdd, OddStep
      <4>2. PICK m : m = Marked(stored, s, "completed")
        OBVIOUS
      <4>3. NoneOdd(m) /\ act'[a].run.steps = m.steps
        BY <2>2, <3>4, <4>1, <4>2, OddKept, MarkedStatus
      <4>4. NoneOdd(act'[a].run)
        BY <4>3 DEF NoneOdd, OddStep, Status
      <4>5. Clear(act'[a].run)
        BY <4>4, NoneIsOnly
      <4> QED
        BY <2>1, <2>2, <3>1, <3>4, <4>5 DEF ReturnOp, AtCall
    <3>5. CASE act'[a].next = "reply" /\ act'[a].run = [stored EXCEPT !.status = "failed"]
      <4>1. /\ act'[a].run.status = "failed"
            /\ \A t \in Step : Status(act'[a].run, t) = Status(stored, t)
        BY <2>2, <3>5, RunStatus
      <4>2. Clear(act'[a].run)
        BY <3>2, <4>1 DEF Clear, OddStep
      <4> QED
        BY <2>1, <2>2, <3>1, <3>5, <4>2 DEF ReturnOp, AtCall
    <3> QED
      BY <2>4, <3>3, <3>4, <3>5 DEF Begun
  <2>5. CASE Arrived(a)
    <3>1. /\ act[a].pc = "saving" /\ stored' = act[a].run
          /\ returned' \in {"none", "paused", "completed", "failed"}
      BY <2>2, <2>5 DEF Arrived, ReturnOp
    <3>2. CASE act[a].next \in {"return", "reply"} /\ act'[a] = Idle
      BY <2>1, <2>2, <3>1, <3>2 DEF Idle, ReturnOp, AtCall
    <3>3. CASE act[a].next \in {"proceed", "settle"} /\ act'[a] \in Proceed(act[a])
      <4>1. NoneOdd(act[a].run) /\ \A s : OnlyOdd(act[a].run, s)
        BY <2>2, <3>1, <3>3, NoneIsOnly DEF ReturnOp
      <4>2. ASSUME Runnable(act[a].run) = {}
            PROVE  Clear(Closed(act[a].run)) /\ Closed(act[a].run).status = "completed"
        <5>1. AllStepsCompleted(act[a].run)
          BY <2>2, <4>1, <4>2, NothingLeft
        <5>2. Closed(act[a].run).status = "completed"
          BY <2>2, <5>1, ClosedStatus
        <5>3. NoneOdd(Closed(act[a].run))
          BY <2>2, <4>1, ClosedStatus DEF NoneOdd, OddStep
        <5> QED
          BY <5>2, <5>3, NoneIsOnly
      <4>3. \A s \in Runnable(act[a].run) :
               /\ Clear(Failed(act[a].run, s)) /\ Failed(act[a].run, s).status = "failed"
               /\ Clear(Paused(act[a].run, s)) /\ Paused(act[a].run, s).status = "paused"
               /\ OnlyOdd(AttemptBegun(act[a].run, s), s)
        BY <2>2, <4>1, OddKept DEF Runnable
      <4>4. ReturnOp(act'[a]) /\ act'[a].pc = "saving"
        BY <3>3, <4>2, <4>3, ProceedCases DEF ReturnOp, AtCall
      <4> QED
        BY <2>1, <3>1, <4>4
    <3>4. CASE act[a].next = "call" /\ act'[a] = [act[a] EXCEPT !.pc = "calling"]
      <4>1. /\ act'[a].pc = "calling" /\ act'[a].run = act[a].run /\ act'[a].step = act[a].step
        BY <2>2, <3>4, CallingKeeps
      <4> QED
        BY <2>1, <2>2, <3>1, <3>4, <4>1 DEF ReturnOp, AtCall
    <3>5. CASE act[a].next = "retry" /\ act'[a] = Attempt(act[a], act[a].step)
      <4>1. act[a].step \in Step /\ OnlyOdd(act[a].run, act[a].step)
        BY <2>2, <3>1, <3>5, OpFacts DEF ReturnOp
      <4>2. /\ Clear(Failed(act[a].run, act[a].step))
            /\ Failed(act[a].run, act[a].step).status = "failed"
            /\ OnlyOdd(AttemptBegun(act[a].run, act[a].step), act[a].step)
        BY <2>2, <4>1, OddKept
      <4>3. ReturnOp(act'[a]) /\ act'[a].pc = "saving"
        BY <3>5, <4>2, AttemptCases DEF ReturnOp, AtCall
      <4> QED
        BY <2>1, <3>1, <4>3
    <3> QED
      BY <2>5, <3>2, <3>3, <3>4, <3>5 DEF Arrived
  <2>6. CASE Lost(a)
    BY <2>6 DEF Lost
  <2>7. CASE Answered(a)
    <3>1. act[a].step \in Step /\ OnlyOdd(act[a].run, act[a].step) /\ returned' = returned
      BY <2>2, <2>7, OpFacts DEF Answered, ReturnOp, AtCall
    <3>2. /\ Clear(Failed(act[a].run, act[a].step))
          /\ Failed(act[a].run, act[a].step).status = "failed"
          /\ NoneOdd(Marked(act[a].run, act[a].step, "completed"))
          /\ NoneOdd(Marked(act[a].run, act[a].step, "pending"))
      BY <2>2, <3>1, OddKept
    <3>3. OnlyOdd(Marked(act[a].run, act[a].step, "pending"), act[a].step)
      BY <3>2, NoneIsOnly
    <3>4. CASE act'[a] = Caught(act[a])
      <4>1. ReturnOp(act'[a]) /\ act'[a].pc = "saving"
        BY <3>2, <3>3, <3>4, CaughtCases DEF ReturnOp, AtCall
      <4> QED
        BY <2>1, <2>2, <3>1, <4>1
    <3>5. CASE /\ act'[a].pc = "saving" /\ act'[a].next = "settle"
               /\ act'[a].run = Marked(act[a].run, act[a].step, "completed")
      BY <2>1, <2>2, <3>1, <3>2, <3>5 DEF ReturnOp, AtCall
    <3> QED
      BY <2>7, <3>4, <3>5 DEF Answered
  <2> QED
    BY <1>5, <2>4, <2>5, <2>6, <2>7 DEF OneAlone
<1> QED
  BY <1>1, <1>3, <1>4, <1>5

LEMMA ReturnInit == Init => ReturnInv
<1> SUFFICES ASSUME Init PROVE ReturnInv
  OBVIOUS
<1>1. NoneOdd(stored)
  BY DEF Init, Fresh, NoneOdd, OddStep, Status
<1>2. Clear(stored)
  BY <1>1, NoneIsOnly
<1>3. \A a \in Activation : act[a].pc = "idle"
  BY DEF Init, Idle
<1> QED
  BY <1>2, <1>3 DEF Init, ReturnInv, ReturnOp, AtCall

(* While the process lives, saves arrive and operations do not overlap,         *)
(* runUntilBlocked returns a run that is settled or waits for an approval.    *)
THEOREM RunsReturnBlocked == Spec => []ReturnsBlocked
<1>1. ReturnInv => ReturnsBlocked
  BY DEF ReturnInv, ReturnsBlocked
<1> QED
  BY <1>1, WorkflowInit, CountInit, ReturnInit, WorkflowStep, CountStep, ReturnStep, PTL DEF Spec

-----------------------------------------------------------------------------
(***************************************************************************)
(* The engine walks the graph.  This holds whatever overlaps: a step waits   *)
(* for its approval in no copy before its dependencies are done, and every   *)
(* task that is done had its handler called.                                *)
(***************************************************************************)
WaitsInOrder(run, finished) ==
    \A s \in Step : Awaits(run, s) => DependsOn[s] \subseteq finished

DagOp(op, finished, begunSteps) ==
    /\ WaitsInOrder(op.run, finished)
    /\ Working(op) => op.step \in Task
    /\ op.pc = "calling" => op.step \in begunSteps

DagInv ==
    /\ WaitsInOrder(stored, done)
    /\ \A a \in Activation : DagOp(act[a], done, Called)
    /\ done \cap Task \subseteq Called

LEMMA WaitsInOrderKept ==
    ASSUME NEW run \in Run, NEW D, WaitsInOrder(run, D), NEW s \in Step
    PROVE  /\ DependsOn[s] \subseteq D => WaitsInOrder(Paused(run, s), D)
           /\ WaitsInOrder(Failed(run, s), D) /\ WaitsInOrder(Closed(run), D)
           /\ WaitsInOrder(AttemptBegun(run, s), D)
           /\ \A status \in {"pending", "completed"} : WaitsInOrder(Marked(run, s, status), D)
           /\ \A status : WaitsInOrder([run EXCEPT !.status = status], D)
           /\ \A E : D \subseteq E => WaitsInOrder(run, E)
<1>1. DependsOn[s] \subseteq D => WaitsInOrder(Paused(run, s), D)
  BY PausedStatus DEF WaitsInOrder, Awaits
<1>2. WaitsInOrder(Failed(run, s), D)
  BY FailedStatus DEF WaitsInOrder, Awaits
<1>3. WaitsInOrder(Closed(run), D) /\ WaitsInOrder(AttemptBegun(run, s), D)
  BY ClosedStatus, BegunStatus DEF WaitsInOrder, Awaits
<1>4. ASSUME NEW status \in {"pending", "completed"}
      PROVE  WaitsInOrder(Marked(run, s, status), D)
  <2>1. /\ Status(Marked(run, s, status), s) = status
        /\ \A t \in Step \ {s} : Status(Marked(run, s, status), t) = Status(run, t)
    BY MarkedStatus
  <2> QED
    BY <2>1 DEF WaitsInOrder, Awaits
<1>5. \A status : WaitsInOrder([run EXCEPT !.status = status], D)
  BY RunStatus DEF WaitsInOrder, Awaits
<1>6. \A E : D \subseteq E => WaitsInOrder(run, E)
  BY DEF WaitsInOrder
<1> QED
  BY <1>1, <1>2, <1>3, <1>4, <1>5, <1>6

LEMMA AttemptIsDag ==
    ASSUME NEW op \in Operation, NEW D, NEW C, WaitsInOrder(op.run, D), NEW s \in Task
    PROVE  DagOp(Attempt(op, s), D, C)
<1>1. PICK new : new = Attempt(op, s)
  OBVIOUS
<1>2. op.run \in Run /\ s \in Step
  BY DEF Operation, Task
<1>3. new.pc = "saving" /\ new.step = s /\ WaitsInOrder(new.run, D)
  BY <1>1, <1>2, AttemptCases, WaitsInOrderKept
<1> QED
  BY <1>1, <1>3 DEF DagOp

LEMMA ProceedIsDag ==
    ASSUME NEW op \in Operation, NEW D, NEW C, GoodRun(op.run, D), WaitsInOrder(op.run, D),
           NEW new \in Proceed(op)
    PROVE  DagOp(new, D, C)
<1>1. op.run \in Run /\ op.handlers \subseteq Task
  BY WorkflowConstants DEF Operation
<1>2. CASE Runnable(op.run) = {}
  <2>1. new = Saving(op, Closed(op.run), NoStep, "return")
    BY <1>2 DEF Proceed
  <2>2. new.pc = "saving" /\ new.next = "return" /\ new.run = Closed(op.run)
    BY <2>1 DEF Saving
  <2>3. WaitsInOrder(Closed(op.run), D)
    BY <1>1, ValidDefinition, ClosedStatus DEF WaitsInOrder, Awaits
  <2> QED
    BY <2>2, <2>3 DEF DagOp, Working
<1>3. CASE Runnable(op.run) # {}
  <2>1. PICK s \in NextRunnable(op.run) :
           new = IF s \in Approval THEN Saving(op, Paused(op.run, s), s, "return")
                 ELSE IF s \notin op.handlers THEN Saving(op, Failed(op.run, s), s, "return")
                 ELSE Attempt(op, s)
    BY <1>3 DEF Proceed
  <2>2. s \in Step /\ DependsOn[s] \subseteq D
    BY ValidDefinition DEF NextRunnable, Runnable, GoodRun
  <2>3. CASE s \in Approval \/ s \notin op.handlers
    <3>1. /\ new.pc = "saving" /\ new.next = "return"
          /\ new.run = Paused(op.run, s) \/ new.run = Failed(op.run, s)
      BY <2>1, <2>3 DEF Saving
    <3>2. WaitsInOrder(new.run, D)
      BY <1>1, <2>2, <3>1, WaitsInOrderKept
    <3> QED
      BY <3>1, <3>2 DEF DagOp, Working
  <2>4. CASE ~(s \in Approval \/ s \notin op.handlers)
    BY <1>1, <2>1, <2>4, AttemptIsDag
  <2> QED
    BY <2>3, <2>4
<1> QED
  BY <1>2, <1>3

LEMMA CaughtIsDag ==
    ASSUME NEW op \in Operation, NEW D, NEW C, DagOp(op, D, C), Working(op)
    PROVE  DagOp(Caught(op), D, C)
<1>1. PICK new : new = Caught(op)
  OBVIOUS
<1>2. op.run \in Run /\ op.step \in Task /\ op.step \in Step /\ WaitsInOrder(op.run, D)
  BY DEF Operation, DagOp, Task
<1>3. new.pc = "saving" /\ new.step = op.step
  BY <1>1, CaughtCases
<1>4. new.run = Failed(op.run, op.step) \/ new.run = Marked(op.run, op.step, "pending")
  BY <1>1, CaughtCases
<1>5. WaitsInOrder(new.run, D)
  BY <1>2, <1>4, WaitsInOrderKept
<1> QED
  BY <1>1, <1>2, <1>3, <1>5 DEF DagOp

LEMMA IdleIsDag == ASSUME NEW D, NEW C PROVE DagOp(Idle, D, C) /\ WaitsInOrder(Fresh, D)
  BY DEF DagOp, Idle, Fresh, WaitsInOrder, Awaits, Status, Working

LEMMA DagInit == Init => DagInv
  BY IdleIsDag DEF Init, DagInv

(* An operation that begins *)
LEMMA BegunIsDag ==
    ASSUME NEW D, NEW C, NEW run, WaitsInOrder(run, D), NEW handlers,
           NEW next \in {"proceed", "reply"}, NEW s
    PROVE  DagOp(Saving([Idle EXCEPT !.handlers = handlers], run, s, next), D, C)
<1>1. PICK op : op = Saving([Idle EXCEPT !.handlers = handlers], run, s, next)
  OBVIOUS
<1>2. op.pc = "saving" /\ op.run = run /\ op.next = next
  BY <1>1 DEF Saving
<1> QED
  BY <1>1, <1>2 DEF DagOp, Working

(***************************************************************************)
(* What a step of the engine is for the graph.                              *)
(***************************************************************************)
Reported == \E run \in Copies : run.status = "completed"

Unmoved == done' = done /\ Called' = Called

Starts == \E s \in Task :
    DependsOn[s] \subseteq done /\ Called' = Called \cup {s} /\ done' = done

Finishes == \E s \in Step :
    /\ DependsOn[s] \subseteq done /\ s \in Called \cup Approval
    /\ done' = done \cup {s} /\ Called' = Called

Walks == Unmoved \/ ((Starts \/ Finishes) /\ (Reported' => Reported))

(* One operation becomes op; the store keeps its copy or gets the operation's.  *)
LEMMA OneWalks ==
    ASSUME WorkflowInv, DagInv, NEW a \in Activation, NEW op, act' = [act EXCEPT ![a] = op],
           stored' \in {stored, act[a].run}, DagOp(op, done', Called'),
           Unmoved \/ ((Starts \/ Finishes) /\ op.run.status # "completed")
    PROVE  DagInv' /\ Walks
<1>1. done \subseteq done' /\ Called \subseteq Called' /\ done' \cap Task \subseteq Called'
  BY DEF Unmoved, Starts, Finishes, Task, DagInv
<1>2. \A b \in Activation : act'[b] = IF b = a THEN op ELSE act[b]
  BY DEF WorkflowInv
<1>3. \A b \in Activation : DagOp(act'[b], done', Called')
  BY <1>1, <1>2 DEF DagInv, DagOp, WaitsInOrder
<1>4. WaitsInOrder(stored', done')
  BY <1>1 DEF DagInv, DagOp, WaitsInOrder
<1>5. ASSUME op.run.status # "completed", Reported' PROVE Reported
  <2>1. PICK run \in Copies' : run.status = "completed"
    BY <1>5 DEF Reported
  <2>2. run = stored' \/ \E b \in Activation \ {a} : run = act[b].run
    BY <1>2, <1>5, <2>1 DEF Copies
  <2> QED
    BY <2>1, <2>2 DEF Reported, Copies
<1> QED
  BY <1>1, <1>3, <1>4, <1>5 DEF DagInv, Walks

LEMMA SameCalls == calls' = calls => Called' = Called
  BY DEF Called

LEMMA OperationsWalk ==
    ASSUME WorkflowInv, DagInv, NEW a \in Activation,
           \/ \E handlers \in Catalog : RunUntilBlocked(a, handlers)
           \/ \E s \in Step, p \in Person : ApproveStep(a, s, p)
           \/ Cancel(a)
    PROVE  DagInv' /\ Walks
<1>1. stored \in Run /\ WaitsInOrder(stored, done) /\ \E s \in Step : TRUE
  BY ValidDefinition DEF WorkflowInv, GoodRun, DagInv
<1>2. ASSUME NEW handlers, NEW status, NEW next \in {"proceed", "reply"},
             Begin(a, [stored EXCEPT !.status = status], handlers, next),
             UNCHANGED <<stored, done, calls>>
      PROVE  DagInv' /\ Walks
  <2>1. PICK op : op = Saving([Idle EXCEPT !.handlers = handlers],
                              [stored EXCEPT !.status = status], NoStep, next)
    OBVIOUS
  <2>2. act' = [act EXCEPT ![a] = op] /\ stored' = stored /\ Unmoved
    BY <1>2, <2>1, SameCalls DEF Begin, Unmoved
  <2>3. WaitsInOrder([stored EXCEPT !.status = status], done)
    BY <1>1, WaitsInOrderKept
  <2>4. DagOp(op, done', Called')
    BY <2>1, <2>2, <2>3, BegunIsDag DEF Unmoved
  <2> QED
    BY <2>2, <2>4, OneWalks
<1>3. ASSUME NEW handlers \in Catalog, RunUntilBlocked(a, handlers) PROVE DagInv' /\ Walks
  BY <1>2, <1>3 DEF RunUntilBlocked
<1>4. CASE Cancel(a)
  BY <1>2, <1>4 DEF Cancel
<1>5. ASSUME NEW s \in Step, NEW p \in Person, ApproveStep(a, s, p) PROVE DagInv' /\ Walks
  <2>1. PICK run : run = [Marked(stored, s, "completed") EXCEPT !.status = "running"]
    OBVIOUS
  <2>2. PICK op : op = Saving([Idle EXCEPT !.handlers = {}], run, NoStep, "reply")
    OBVIOUS
  <2>3. /\ act' = [act EXCEPT ![a] = op] /\ stored' = stored /\ calls' = calls
        /\ done' = done \cup {s} /\ s \in Approval /\ Awaits(stored, s)
    BY <1>5, <2>1, <2>2 DEF ApproveStep, Begin, Awaits
  <2>4. Finishes
    BY <1>1, <2>3, SameCalls DEF Finishes, WaitsInOrder
  <2>5. WaitsInOrder(run, done')
    <3>1. WaitsInOrder(Marked(stored, s, "completed"), done)
      BY <1>1, WaitsInOrderKept
    <3>2. WaitsInOrder(run, done)
      <4>1. run.steps = Marked(stored, s, "completed").steps
        BY <1>1, <2>1, MarkedStatus
      <4> QED
        BY <3>1, <4>1 DEF WaitsInOrder, Awaits, Status
    <3> QED
      BY <2>3, <3>2 DEF WaitsInOrder
  <2>6. DagOp(op, done', Called')
    BY <2>2, <2>5, BegunIsDag
  <2>7. op.run.status # "completed"
    <3>1. run.status = "running"
      BY <1>1, <2>1, MarkedStatus
    <3> QED
      BY <2>2, <3>1 DEF Saving
  <2> QED
    BY <2>3, <2>4, <2>6, <2>7, OneWalks
<1> QED
  BY <1>3, <1>4, <1>5

LEMMA AwaitsWalk ==
    ASSUME WorkflowInv, DagInv, NEW a \in Activation,
           \/ ProceedAfterSave(a) \/ CallAfterSave(a) \/ RetryAfterSave(a)
           \/ ReturnAfterSave(a) \/ ReplyAfterSave(a) \/ SaveFails(a)
           \/ HandlerReturns(a) \/ HandlerThrows(a)
    PROVE  DagInv' /\ Walks
<1>1. PICK op : op = act[a]
  OBVIOUS
<1>2. /\ op \in Operation /\ op.run \in Run /\ DagOp(op, done, Called)
      /\ GoodOp(op, done) /\ GoodRun(op.run, done) /\ WaitsInOrder(op.run, done)
  BY <1>1, OpFacts DEF WorkflowInv, DagInv, DagOp, GoodOp
<1>3. CASE ProceedAfterSave(a)
  <2>1. PICK new \in Proceed(op) : act' = [act EXCEPT ![a] = new]
    BY <1>1, <1>3 DEF ProceedAfterSave
  <2>2. stored' = op.run /\ Unmoved
    BY <1>1, <1>3, SameCalls DEF ProceedAfterSave, SaveReturns, Unmoved
  <2>3. DagOp(new, done', Called')
    BY <1>2, <2>2, ProceedIsDag DEF Unmoved
  <2> QED
    BY <1>1, <2>1, <2>2, <2>3, OneWalks
<1>4. CASE CallAfterSave(a)
  <2>1. PICK new : new = [op EXCEPT !.pc = "calling"]
    OBVIOUS
  <2>2. PICK s : s = op.step
    OBVIOUS
  <2>3. /\ act' = [act EXCEPT ![a] = new] /\ stored' = op.run /\ done' = done
        /\ calls' = [calls EXCEPT ![s] = IF calls[s] > MaxAttempts[s] THEN calls[s]
                                         ELSE calls[s] + 1]
        /\ op.pc = "saving" /\ op.next = "call"
    BY <1>1, <1>4, <2>1, <2>2 DEF CallAfterSave, SaveReturns
  <2>4. Working(op)
    BY <2>3 DEF Working
  <2>5. s \in Task /\ s \in Step /\ DependsOn[s] \subseteq done /\ op.run.status = "running"
    BY <1>2, <2>2, <2>4 DEF DagOp, GoodOp, Task
  <2>6. Called' = Called \cup {s}
    <3>1. /\ calls \in [Step -> Nat] /\ MaxAttempts[s] \in Nat \ {0}
          /\ \A t \in Step : calls'[t] = IF t # s THEN calls[t]
                                       ELSE IF calls[s] > MaxAttempts[s] THEN calls[s]
                                       ELSE calls[s] + 1
      BY <2>3, <2>5, ValidDefinition DEF WorkflowInv, HistoryOK
    <3>2. \A t \in Step : calls'[t] > 0 <=> calls[t] > 0 \/ t = s
      BY <2>5, <3>1
    <3> QED
      BY <2>5, <3>2 DEF Called
  <2>7. new.pc = "calling" /\ new.run = op.run /\ new.step = s
    BY <1>2, <2>1, <2>2, CallingKeeps
  <2>8. DagOp(new, done', Called')
    BY <1>2, <2>3, <2>5, <2>6, <2>7 DEF DagOp
  <2>9. Starts
    BY <2>3, <2>5, <2>6 DEF Starts
  <2> QED
    BY <1>1, <2>3, <2>5, <2>7, <2>8, <2>9, OneWalks
<1>5. CASE RetryAfterSave(a)
  <2>1. /\ act' = [act EXCEPT ![a] = Attempt(op, op.step)] /\ stored' = op.run /\ Unmoved
        /\ op.pc = "saving" /\ op.next = "retry"
    BY <1>1, <1>5, SameCalls DEF RetryAfterSave, SaveReturns, Unmoved
  <2>2. op.step \in Task
    BY <1>2, <2>1 DEF DagOp, Working
  <2>3. DagOp(Attempt(op, op.step), done', Called')
    BY <1>2, <2>1, <2>2, AttemptIsDag DEF Unmoved
  <2> QED
    BY <1>1, <2>1, <2>3, OneWalks
<1>6. CASE ReturnAfterSave(a) \/ ReplyAfterSave(a)
  <2>1. act' = [act EXCEPT ![a] = Idle] /\ stored' = op.run /\ Unmoved
    BY <1>1, <1>6, SameCalls DEF ReturnAfterSave, ReplyAfterSave, SaveReturns, Unmoved
  <2> QED
    BY <1>1, <2>1, IdleIsDag, OneWalks
<1>7. CASE SaveFails(a)
  <2>1. PICK new : new = IF op.next = "settle" THEN Caught(op) ELSE Idle
    OBVIOUS
  <2>2. /\ act' = [act EXCEPT ![a] = new] /\ stored' \in {stored, op.run} /\ Unmoved
        /\ op.pc = "saving"
    BY <1>1, <1>7, <2>1, SameCalls DEF SaveFails, Unmoved
  <2>3. op.next = "settle" => DagOp(Caught(op), done, Called)
    BY <1>2, <2>2, CaughtIsDag DEF Working
  <2>4. DagOp(new, done', Called')
    BY <2>1, <2>2, <2>3, IdleIsDag DEF Unmoved
  <2> QED
    BY <1>1, <2>2, <2>4, OneWalks
<1>8. CASE HandlerReturns(a)
  <2>1. PICK s, run : s = op.step /\ run = Marked(op.run, s, "completed")
    OBVIOUS
  <2>2. PICK new : new = Saving(op, run, s, "settle")
    OBVIOUS
  <2>3. /\ act' = [act EXCEPT ![a] = new] /\ stored' = stored /\ calls' = calls
        /\ done' = done \cup {s} /\ op.pc = "calling"
    BY <1>1, <1>8, <2>1, <2>2 DEF HandlerReturns
  <2>4. /\ s \in Task /\ s \in Step /\ s \in Called /\ DependsOn[s] \subseteq done
        /\ op.run.status = "running"
    BY <1>2, <2>1, <2>3 DEF DagOp, GoodOp, Working, Task
  <2>5. Finishes
    BY <2>3, <2>4, SameCalls DEF Finishes
  <2>6. new.pc = "saving" /\ new.step = s /\ new.run = run
    BY <2>2 DEF Saving
  <2>7. run.status = "running"
    BY <1>2, <2>1, <2>4, MarkedStatus
  <2>8. WaitsInOrder(run, done')
    <3>1. WaitsInOrder(run, done)
      BY <1>2, <2>1, <2>4, WaitsInOrderKept
    <3> QED
      BY <2>3, <3>1 DEF WaitsInOrder
  <2>9. DagOp(new, done', Called')
    BY <2>4, <2>6, <2>8 DEF DagOp
  <2> QED
    BY <1>1, <2>3, <2>5, <2>6, <2>7, <2>9, OneWalks
<1>9. CASE HandlerThrows(a)
  <2>1. act' = [act EXCEPT ![a] = Caught(op)] /\ stored' = stored /\ Unmoved /\ op.pc = "calling"
    BY <1>1, <1>9, SameCalls DEF HandlerThrows, Unmoved
  <2>2. DagOp(Caught(op), done', Called')
    BY <1>2, <2>1, CaughtIsDag DEF Working, Unmoved
  <2> QED
    BY <1>1, <2>1, <2>2, OneWalks
<1> QED
  BY <1>3, <1>4, <1>5, <1>6, <1>7, <1>8, <1>9

LEMMA DagStep == WorkflowInv /\ DagInv /\ [Next]_vars => DagInv' /\ Walks
<1> SUFFICES ASSUME WorkflowInv, DagInv, [Next]_vars PROVE DagInv' /\ Walks
  OBVIOUS
<1>1. CASE UNCHANGED vars
  BY <1>1 DEF vars, DagInv, Walks, Unmoved, Called
<1>2. CASE Crash
  <2>1. act' = [a \in Activation |-> Idle] /\ UNCHANGED <<stored, done, calls>>
    BY <1>2 DEF Crash
  <2> QED
    BY <2>1, SameCalls, IdleIsDag DEF DagInv, Walks, Unmoved
<1> QED
  BY <1>1, <1>2, OperationsWalk, AwaitsWalk DEF Next

(* Only what is done is reported. *)
ReportsHonest == Reported => done = Step

LEMMA ReportedIsDone == WorkflowInv => ReportsHonest
<1> SUFFICES ASSUME WorkflowInv, NEW run \in Copies, run.status = "completed"
             PROVE  done = Step
  BY DEF Reported, ReportsHonest
<1>1. GoodRun(run, done)
  BY DEF Copies, WorkflowInv, GoodOp
<1>2. \A s \in Step : s \in done
  BY <1>1 DEF GoodRun
<1> QED
  BY <1>2 DEF WorkflowInv, HistoryOK

(* A step of the engine is a step of the graph, or none. *)
LEMMA GraphStep ==
    ASSUME WorkflowInv, DagInv, Walks, ReportsHonest, ReportsHonest'
    PROVE  [Dag!DagNext]_(Dag!dagVars)
<1>1. (Reported => done = Step) /\ (Reported' => done' = Step)
  BY DEF ReportsHonest
<1>2. done \subseteq Step /\ done \cap Task \subseteq Called
  BY DEF WorkflowInv, HistoryOK, DagInv
<1>3. CASE Unmoved
  <2>1. CASE (Reported' <=> Reported)
    BY <1>3, <2>1 DEF Unmoved, Dag!dagVars, Reported
  <2>2. CASE ~(Reported' <=> Reported)
    <3>1. done = Step /\ (Reported' <=> ~Reported)
      BY <1>1, <1>3, <2>2 DEF Unmoved
    <3> QED
      BY <1>3, <3>1 DEF Unmoved, Dag!DagNext, Dag!Report, Reported
  <2> QED
    BY <2>1, <2>2
<1>4. CASE Starts /\ (Reported' <=> Reported)
  <2>1. PICK s \in Task : DependsOn[s] \subseteq done /\ Called' = Called \cup {s} /\ done' = done
    BY <1>4 DEF Starts
  <2>2. Dag!Start(s)
    BY <1>4, <2>1 DEF Dag!Start, Dag!DependenciesDone, Task, Reported
  <2> QED
    BY <2>1, <2>2 DEF Dag!DagNext, Task
<1>5. CASE Finishes /\ (Reported' <=> Reported)
  <2>1. PICK s \in Step : /\ DependsOn[s] \subseteq done /\ s \in Called \cup Approval
                          /\ done' = done \cup {s} /\ Called' = Called
    BY <1>5 DEF Finishes
  <2>2. Dag!Finish(s)
    BY <1>5, <2>1 DEF Dag!Finish, Dag!DependenciesDone, Reported
  <2> QED
    BY <2>1, <2>2 DEF Dag!DagNext
<1>6. CASE (Starts \/ Finishes) /\ Reported /\ ~Reported'
  <2>1. done = Step
    BY <1>1, <1>6
  <2>2. Unmoved
    BY <1>2, <1>6, <2>1 DEF Starts, Finishes, Unmoved, Task
  <2> QED
    BY <1>3, <2>2
<1> QED
  BY <1>3, <1>4, <1>5, <1>6 DEF Walks

(* The engine implements WorkflowDag for every workflow, catalog of handlers,    *)
(* budget and number of overlapping operations, crashes and failed saves.       *)
THEOREM EngineWalksTheGraph == Spec => WalksTheGraph
<1>1. Init => Dag!DagInit
  <2> SUFFICES ASSUME Init PROVE Dag!DagInit
    OBVIOUS
  <2>1. Called = {} /\ done = {}
    BY DEF Init, Called
  <2>2. \A run \in Copies : run = Fresh
    BY DEF Init, Copies, Idle
  <2>3. ~Reported
    BY <2>2 DEF Reported, Fresh
  <2> QED
    BY <2>1, <2>3 DEF Dag!DagInit, Reported
<1> QED
  BY <1>1, WorkflowInit, WorkflowStep, DagInit, DagStep, GraphStep, ReportedIsDone, PTL
     DEF Spec, WalksTheGraph, Dag!DagSpec

-----------------------------------------------------------------------------
(***************************************************************************)
(* What a dead process was at work on.                                      *)
(***************************************************************************)

(* A step that every copy of the run shows running, while no operation is at   *)
(* work on it: its process died between the save before the call and the save  *)
(* of the result, or that last save was lost.                                *)
Abandoned(s) ==
    /\ Status(stored, s) = "running"
    /\ \A a \in Activation : act[a].pc # "idle" =>
          /\ Status(act[a].run, s) = "running"
          /\ Working(act[a]) => act[a].step # s

(* Nothing takes an abandoned step up again: whoever runs, approves or cancels  *)
(* the run, with whatever handlers, the step stays as it is, its handler is     *)
(* not called, and the run never says completed (_nextRunnableStep).          *)
AbandonedStays ==
    [][\A s \in Step : Abandoned(s) =>
          /\ Abandoned(s)' /\ calls'[s] = calls[s]
          /\ stored'.status # "completed"]_vars

(* An operation that leaves s alone *)
LeavesAlone(op, s) ==
    op.pc # "idle" => Status(op.run, s) = "running" /\ (Working(op) => op.step # s)

LEMMA OthersStay ==
    ASSUME NEW run \in Run, NEW s \in Step, NEW t \in Step, Status(run, s) = "running"
    PROVE  /\ t # s => /\ Status(Paused(run, t), s) = "running"
                       /\ Status(Failed(run, t), s) = "running"
                       /\ Status(AttemptBegun(run, t), s) = "running"
                       /\ \A status : Status(Marked(run, t, status), s) = "running"
           /\ Status(Closed(run), s) = "running"
           /\ \A status : Status([run EXCEPT !.status = status], s) = "running"
  BY PausedStatus, FailedStatus, BegunStatus, MarkedStatus, ClosedStatus, RunStatus

LEMMA OperatorsLeaveAlone ==
    ASSUME NEW op \in Operation, NEW s \in Step, LeavesAlone(op, s), op.pc # "idle"
    PROVE  /\ \A new \in Proceed(op) : LeavesAlone(new, s)
           /\ Working(op) /\ op.step \in Step =>
                 LeavesAlone(Attempt(op, op.step), s) /\ LeavesAlone(Caught(op), s)
<1>1. op.run \in Run /\ Status(op.run, s) = "running"
  BY DEF Operation, LeavesAlone
<1>2. ASSUME NEW new \in Proceed(op) PROVE LeavesAlone(new, s)
  <2>1. CASE new.next = "return" /\ new.run = Closed(op.run)
    BY <1>1, <2>1, OthersStay, ProceedCases DEF LeavesAlone, Working
  <2>2. CASE new.step \in Runnable(op.run)
    <3>1. new.step \in Step /\ new.step # s
      BY <1>1, <2>2 DEF Runnable
    <3>2. \/ new.run = Closed(op.run) \/ new.run = Paused(op.run, new.step)
          \/ new.run = Failed(op.run, new.step) \/ new.run = AttemptBegun(op.run, new.step)
      BY ProceedCases
    <3>3. Status(new.run, s) = "running"
      BY <1>1, <3>1, <3>2, OthersStay
    <3> QED
      BY <3>1, <3>3 DEF LeavesAlone
  <2> QED
    BY <2>1, <2>2, ProceedCases
<1>3. ASSUME Working(op), op.step \in Step
      PROVE  LeavesAlone(Attempt(op, op.step), s) /\ LeavesAlone(Caught(op), s)
  <2>1. op.step # s
    BY <1>3 DEF LeavesAlone
  <2>2. ASSUME NEW new, new.step = op.step,
               \/ new.run = Failed(op.run, op.step) \/ new.run = AttemptBegun(op.run, op.step)
               \/ new.run = Marked(op.run, op.step, "pending")
        PROVE  LeavesAlone(new, s)
    <3>1. Status(new.run, s) = "running"
      BY <1>1, <1>3, <2>1, <2>2, OthersStay
    <3> QED
      BY <2>1, <2>2, <3>1 DEF LeavesAlone
  <2>3. LeavesAlone(Attempt(op, op.step), s)
    <3>1. PICK new : new = Attempt(op, op.step)
      OBVIOUS
    <3>2. new.step = op.step /\ (new.run = Failed(op.run, op.step) \/ new.run = AttemptBegun(op.run, op.step))
      BY <3>1, AttemptCases
    <3> QED
      BY <2>2, <3>1, <3>2
  <2>4. LeavesAlone(Caught(op), s)
    <3>1. PICK new : new = Caught(op)
      OBVIOUS
    <3>2. new.step = op.step /\ (new.run = Failed(op.run, op.step) \/ new.run = Marked(op.run, op.step, "pending"))
      BY <3>1, CaughtCases
    <3> QED
      BY <2>2, <3>1, <3>2
  <2> QED
    BY <2>3, <2>4
<1> QED
  BY <1>2, <1>3

(* One operation becomes op; the store keeps its copy or gets the operation's.  *)
LEMMA OneLeavesAlone ==
    ASSUME WorkflowInv, NEW s \in Step, Abandoned(s), NEW a \in Activation, NEW op,
           act' = [act EXCEPT ![a] = op], LeavesAlone(op, s),
           stored' = stored \/ (act[a].pc # "idle" /\ stored' = act[a].run)
    PROVE  Abandoned(s)'
<1>1. \A b \in Activation : act'[b] = IF b = a THEN op ELSE act[b]
  BY DEF WorkflowInv
<1> QED
  BY <1>1 DEF Abandoned, LeavesAlone, Working

LEMMA OperationsLeaveAlone ==
    ASSUME WorkflowInv, NEW s \in Step, Abandoned(s), NEW a \in Activation,
           \/ \E handlers \in Catalog : RunUntilBlocked(a, handlers)
           \/ \E t \in Step, p \in Person : ApproveStep(a, t, p)
           \/ Cancel(a)
    PROVE  Abandoned(s)' /\ calls' = calls
<1>1. stored \in Run /\ Status(stored, s) = "running"
  BY DEF WorkflowInv, GoodRun, Abandoned
<1>2. ASSUME NEW handlers, NEW run, NEW next \in {"proceed", "reply"},
             Begin(a, run, handlers, next), stored' = stored, Status(run, s) = "running"
      PROVE  Abandoned(s)'
  <2>1. PICK op : op = Saving([Idle EXCEPT !.handlers = handlers], run, NoStep, next)
    OBVIOUS
  <2>2. op.pc = "saving" /\ op.run = run /\ op.next = next
    BY <2>1 DEF Saving
  <2>3. LeavesAlone(op, s)
    BY <1>2, <2>2 DEF LeavesAlone, Working
  <2>4. act' = [act EXCEPT ![a] = op]
    BY <1>2, <2>1 DEF Begin
  <2> QED
    BY <1>2, <2>3, <2>4, OneLeavesAlone
<1>3. ASSUME NEW handlers \in Catalog, RunUntilBlocked(a, handlers)
      PROVE  Abandoned(s)' /\ calls' = calls
  <2>1. Status([stored EXCEPT !.status = "running"], s) = "running"
    BY <1>1, OthersStay
  <2> QED
    BY <1>2, <1>3, <2>1 DEF RunUntilBlocked
<1>4. CASE Cancel(a)
  <2>1. Status([stored EXCEPT !.status = "failed"], s) = "running"
    BY <1>1, OthersStay
  <2> QED
    BY <1>2, <1>4, <2>1 DEF Cancel
<1>5. ASSUME NEW t \in Step, NEW p \in Person, ApproveStep(a, t, p)
      PROVE  Abandoned(s)' /\ calls' = calls
  <2>1. t # s
    BY <1>1, <1>5 DEF ApproveStep
  <2>2. Status([Marked(stored, t, "completed") EXCEPT !.status = "running"], s) = "running"
    <3>1. [Marked(stored, t, "completed") EXCEPT !.status = "running"].steps
             = Marked(stored, t, "completed").steps
      BY <1>1, MarkedStatus
    <3>2. Status(Marked(stored, t, "completed"), s) = "running"
      BY <1>1, <2>1, OthersStay
    <3> QED
      BY <3>1, <3>2 DEF Status
  <2> QED
    BY <1>2, <1>5, <2>2 DEF ApproveStep
<1> QED
  BY <1>3, <1>4, <1>5

LEMMA AwaitsLeaveAlone ==
    ASSUME WorkflowInv, NEW s \in Step, Abandoned(s), NEW a \in Activation,
           \/ ProceedAfterSave(a) \/ CallAfterSave(a) \/ RetryAfterSave(a)
           \/ ReturnAfterSave(a) \/ ReplyAfterSave(a) \/ SaveFails(a)
           \/ HandlerReturns(a) \/ HandlerThrows(a)
    PROVE  Abandoned(s)' /\ calls'[s] = calls[s]
<1>1. PICK op : op = act[a]
  OBVIOUS
<1>2. /\ op \in Operation /\ op.run \in Run /\ LeavesAlone(op, s)
      /\ Working(op) => op.step \in Step /\ op.step # s
      /\ calls \in [Step -> Nat] /\ LeavesAlone(Idle, s)
  <2>1. op \in Operation /\ op.run \in Run /\ (Working(op) => op.step \in Step)
    BY <1>1, OpFacts
  <2>2. LeavesAlone(op, s) /\ (Working(op) => op.step # s)
    BY <1>1 DEF Abandoned, LeavesAlone, Working
  <2>3. LeavesAlone(Idle, s)
    BY DEF LeavesAlone, Idle
  <2> QED
    BY <2>1, <2>2, <2>3 DEF WorkflowInv, HistoryOK
<1>3. CASE ProceedAfterSave(a)
  <2>1. PICK new \in Proceed(op) : act' = [act EXCEPT ![a] = new]
    BY <1>1, <1>3 DEF ProceedAfterSave
  <2>2. stored' = op.run /\ calls' = calls /\ op.pc = "saving"
    BY <1>1, <1>3 DEF ProceedAfterSave, SaveReturns
  <2>3. LeavesAlone(new, s)
    BY <1>2, <2>2, OperatorsLeaveAlone
  <2> QED
    BY <1>1, <2>1, <2>2, <2>3, OneLeavesAlone
<1>4. CASE CallAfterSave(a)
  <2>1. PICK new : new = [op EXCEPT !.pc = "calling"]
    OBVIOUS
  <2>2. /\ act' = [act EXCEPT ![a] = new] /\ stored' = op.run
        /\ op.pc = "saving" /\ op.next = "call"
    BY <1>1, <1>4, <2>1 DEF CallAfterSave, SaveReturns
  <2>3. op.step \in Step /\ op.step # s /\ Status(op.run, s) = "running"
    BY <1>2, <2>2 DEF Working, LeavesAlone
  <2>4. new.run = op.run /\ new.step = op.step
    BY <1>2, <2>1, CallingKeeps
  <2>5. calls'[s] = calls[s]
    BY <1>1, <1>2, <1>4, <2>3 DEF CallAfterSave
  <2>6. LeavesAlone(new, s)
    BY <2>3, <2>4 DEF LeavesAlone
  <2> QED
    BY <1>1, <2>2, <2>5, <2>6, OneLeavesAlone
<1>5. CASE RetryAfterSave(a)
  <2>1. /\ act' = [act EXCEPT ![a] = Attempt(op, op.step)] /\ stored' = op.run /\ calls' = calls
        /\ op.pc = "saving" /\ op.next = "retry"
    BY <1>1, <1>5 DEF RetryAfterSave, SaveReturns
  <2>2. LeavesAlone(Attempt(op, op.step), s)
    BY <1>2, <2>1, OperatorsLeaveAlone DEF Working
  <2> QED
    BY <1>1, <2>1, <2>2, OneLeavesAlone
<1>6. CASE ReturnAfterSave(a) \/ ReplyAfterSave(a)
  <2>1. /\ act' = [act EXCEPT ![a] = Idle] /\ stored' = op.run /\ calls' = calls
        /\ op.pc = "saving"
    BY <1>1, <1>6 DEF ReturnAfterSave, ReplyAfterSave, SaveReturns
  <2> QED
    BY <1>1, <1>2, <2>1, OneLeavesAlone
<1>7. CASE SaveFails(a)
  <2>1. PICK new : new = IF op.next = "settle" THEN Caught(op) ELSE Idle
    OBVIOUS
  <2>2. /\ act' = [act EXCEPT ![a] = new] /\ stored' \in {stored, op.run} /\ calls' = calls
        /\ op.pc = "saving"
    BY <1>1, <1>7, <2>1 DEF SaveFails
  <2>3. op.next = "settle" => LeavesAlone(Caught(op), s)
    BY <1>2, <2>2, OperatorsLeaveAlone DEF Working
  <2>4. LeavesAlone(new, s)
    BY <1>2, <2>1, <2>3
  <2> QED
    BY <1>1, <2>2, <2>4, OneLeavesAlone
<1>8. CASE HandlerReturns(a)
  <2>1. PICK t, run : t = op.step /\ run = Marked(op.run, t, "completed")
    OBVIOUS
  <2>2. PICK new : new = Saving(op, run, t, "settle")
    OBVIOUS
  <2>3. /\ act' = [act EXCEPT ![a] = new] /\ stored' = stored /\ calls' = calls
        /\ op.pc = "calling"
    BY <1>1, <1>8, <2>1, <2>2 DEF HandlerReturns
  <2>4. t \in Step /\ t # s /\ Status(op.run, s) = "running"
    BY <1>2, <2>1, <2>3 DEF Working, LeavesAlone
  <2>5. new.step = t /\ new.run = run
    BY <2>2 DEF Saving
  <2>6. Status(run, s) = "running"
    BY <1>2, <2>1, <2>4, OthersStay
  <2>7. LeavesAlone(new, s)
    BY <2>4, <2>5, <2>6 DEF LeavesAlone
  <2> QED
    BY <2>3, <2>7, OneLeavesAlone
<1>9. CASE HandlerThrows(a)
  <2>1. /\ act' = [act EXCEPT ![a] = Caught(op)] /\ stored' = stored /\ calls' = calls
        /\ op.pc = "calling"
    BY <1>1, <1>9 DEF HandlerThrows
  <2>2. LeavesAlone(Caught(op), s)
    BY <1>2, <2>1, OperatorsLeaveAlone DEF Working
  <2> QED
    BY <2>1, <2>2, OneLeavesAlone
<1> QED
  BY <1>3, <1>4, <1>5, <1>6, <1>7, <1>8, <1>9

(* For every workflow: a step that was running when its process died is running *)
(* for ever, and with it the run, which no later call completes.              *)
THEOREM NobodyTakesUpAbandonedSteps == Spec => AbandonedStays
<1>1. ASSUME WorkflowInv, [Next]_vars, NEW s \in Step, Abandoned(s)
      PROVE  Abandoned(s)' /\ calls'[s] = calls[s]
  <2>1. CASE UNCHANGED vars
    BY <1>1, <2>1 DEF vars, Abandoned, Working
  <2>2. CASE Crash
    BY <1>1, <2>2 DEF Crash, Abandoned, Idle
  <2> QED
    BY <1>1, <2>1, <2>2, OperationsLeaveAlone, AwaitsLeaveAlone DEF Next
<1>2. ASSUME WorkflowInv', NEW s \in Step, Abandoned(s)'
      PROVE  stored'.status # "completed"
  BY <1>2 DEF WorkflowInv, GoodRun, Abandoned
<1>3. WorkflowInv /\ WorkflowInv' /\ [Next]_vars =>
         [\A s \in Step : Abandoned(s) =>
             /\ Abandoned(s)' /\ calls'[s] = calls[s]
             /\ stored'.status # "completed"]_vars
  BY <1>1, <1>2
<1> QED
  BY <1>3, WorkflowInvariant, PTL DEF Spec, AbandonedStays
=============================================================================
