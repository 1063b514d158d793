------------------------- MODULE ToolApprovalProofs -------------------------
(***************************************************************************)
(* For every number of prompts, stage loops, sessions and turns, all batches *)
(* and policies: a call is executed only with the operator's consent, a run  *)
(* whose request was answered with cancel does not call the model again, and *)
(* the resolve function always belongs to the request its loop waits for.     *)
(*                                                                         *)
(* None is inductive.  Consent rests on the display: the request the          *)
(* resolver answers is the one shown whenever it is a run's, because only     *)
(* one run is alive (it is the store's) and its ids are fresh; and on the     *)
(* bookkeeping of a loop, which may carry over only calls it had consent to.  *)
(* The last two parts state the safety halves of what TLC checks with           *)
(* fairness or refutes: no request waits unseen, and which cancellations stop   *)
(* the run they are meant for.                                              *)
(***************************************************************************)
EXTENDS ToolApproval, FiniteSetTheorems, TLAPS

(* The loop's own record: its requests are its own, and a cancel that was       *)
(* answered is in its kill switch or about to be.                            *)
LoopOK(l, rec) ==
    /\ rec \in LoopRecord
    /\ rec.pc \in {"asking", "recording"} => rec.batch # <<>>
    /\ \A q \in rec.asked : q.loop = l /\ q.n <= rec.n
    /\ rec.stopped => /\ rec.pc \in {"asking", "recording", "running"}
                      /\ rec.killed \/ (rec.pc = "recording" /\ rec.verdict = "cancel")

LoopsInv ==
    /\ loops \in [Loop -> LoopRecord]
    /\ \A l \in Loop : LoopOK(l, loops[l])

(* The ids that were handled are those of requests of runs, and none of them is  *)
(* one a loop will give to a request to come.                                *)
ToldOK ==
    \A q \in told : q.loop \in Run /\ q.n <= loops[q.loop].n

Consented(rec, q) ==
    q \in rec.seen \/ q.signature \in granted[rec.session] \cup strayed[rec.session]

(* What a run was allowed to execute, or is about to be, had the consent.       *)
CarriesConsent(l, rec) ==
    /\ \A q \in rec.todo : Consented(rec, q)
    /\ rec.pc = "recording" /\ rec.verdict = "yes" =>
          Consented(rec, Asked(l, rec.n, Head(rec.batch)))

Alive(r) == loops[r].pc \notin {"idle", "ended"}

(* Until a session is resumed, one run at most is alive, and the dialog is its.  *)
ConsentInv ==
    /\ \A r \in Run : Alive(r) => storeRun = r
    /\ resolver # NoRequest /\ resolver.loop \in Run => pending = resolver
    /\ \A s \in Session : rules[s] \subseteq granted[s] \cup strayed[s]
    /\ \A r \in Run : CarriesConsent(r, loops[r])

RestTyped ==
    /\ activeRun \in Run \cup {NoRun} /\ storeRun \in Run \cup {NoRun}
    /\ interrupted \in BOOLEAN
    /\ loopRef \in Run \cup {NoRun} /\ queued \in BOOLEAN
    /\ pending \in Request \cup {NoRequest} /\ resolver \in Request \cup {NoRequest}
    /\ told \subseteq Request /\ settled \subseteq Request
    /\ session \in Session
    /\ rules \in [Session -> SUBSET Signature]
    /\ granted \in [Session -> SUBSET Signature]
    /\ strayed \in [Session -> SUBSET Signature]
    /\ resuming \in {"no", "loading", "syncing", "done"}

QueueOK == queued => \E r \in Run : loops[r].pc = "idle"

ResolverOK ==
    resolver # NoRequest =>
        /\ loops[resolver.loop].pc = "asking"
        /\ resolver = Current(resolver.loop)

Inv ==
    /\ LoopsInv
    /\ RestTyped
    /\ QueueOK
    /\ ResolverOK
    /\ ToldOK
    /\ resuming = "no" => ConsentInv

LEMMA InvIsEnough == Inv => TypeOK /\ Consent /\ CancelAnswerStops
<1> SUFFICES ASSUME Inv PROVE TypeOK /\ Consent /\ CancelAnswerStops
  OBVIOUS
<1>1. TypeOK
  BY DEF Inv, LoopsInv, LoopOK, RestTyped, QueueOK, ResolverOK, TypeOK, Unstarted
<1>2. Consent
  BY DEF Inv, ConsentInv, CarriesConsent, Consented, Consent
<1>3. CancelAnswerStops
  BY DEF Inv, LoopsInv, LoopOK, CancelAnswerStops
<1> QED
  BY <1>1, <1>2, <1>3

-----------------------------------------------------------------------------
(* Records of loops *)

LEMMA IdleIsGood ==
    ASSUME NEW l \in Loop, NEW s \in Session,
           NEW pc \in {"idle", "preparing", "thinking", "capturing", "final", "ended", "lost"}
    PROVE  /\ LoopOK(l, [IdleLoop EXCEPT !.pc = pc])
           /\ LoopOK(l, [IdleLoop EXCEPT !.pc = pc, !.session = s])
<1>1. IdleLoop \in LoopRecord
  BY ToolApprovalConstants DEF IdleLoop, LoopRecord, Session
<1>2. IdleLoop.asked = {} /\ IdleLoop.stopped = FALSE
  BY DEF IdleLoop
<1>3. ASSUME NEW rec \in LoopRecord, rec.asked = {}, rec.stopped = FALSE
      PROVE  /\ LoopOK(l, [rec EXCEPT !.pc = pc])
             /\ LoopOK(l, [rec EXCEPT !.pc = pc, !.session = s])
  BY <1>3 DEF LoopRecord, LoopOK
<1> QED
  BY <1>1, <1>2, <1>3

LEMMA OneLoop ==
    ASSUME LoopsInv, NEW l \in Loop, NEW rec, LoopOK(l, rec),
           loops' = [loops EXCEPT ![l] = rec]
    PROVE  /\ LoopsInv'
           /\ loops'[l] = rec
           /\ \A k \in Loop : k # l => loops'[k] = loops[k]
<1>1. loops'[l] = rec /\ \A k \in Loop : k # l => loops'[k] = loops[k]
  BY DEF LoopsInv
<1>2. loops' \in [Loop -> LoopRecord]
  BY DEF LoopsInv, LoopOK
<1> QED
  BY <1>1, <1>2 DEF LoopsInv

AskedRecord(l, rec) ==
    LET q == Asked(l, rec.n + 1, Head(rec.batch))
        verdict == Verdict(rec, q.signature)
    IN  [rec EXCEPT !.n = q.n, !.asked = @ \cup {q}, !.verdict = verdict,
                    !.pc = IF verdict = "none" THEN "asking" ELSE "recording"]

LEMMA AskedIsGood ==
    ASSUME NEW l \in Loop, NEW rec \in LoopRecord, rec.batch # <<>>,
           \A q \in rec.asked : q.loop = l /\ q.n <= rec.n,
           rec.stopped => rec.killed
    PROVE  /\ LoopOK(l, AskedRecord(l, rec))
           /\ Asked(l, rec.n + 1, Head(rec.batch)) \in Request
           /\ AskedRecord(l, rec).n = rec.n + 1
           /\ AskedRecord(l, rec).batch = rec.batch
           /\ AskedRecord(l, rec).todo = rec.todo
           /\ AskedRecord(l, rec).seen = rec.seen
           /\ AskedRecord(l, rec).session = rec.session
           /\ AskedRecord(l, rec).verdict = Verdict(rec, Head(rec.batch))
           /\ AskedRecord(l, rec).pc =
                 IF Verdict(rec, Head(rec.batch)) = "none" THEN "asking" ELSE "recording"
<1> DEFINE q == Asked(l, rec.n + 1, Head(rec.batch))
           verdict == Verdict(rec, Head(rec.batch))
           pc == IF verdict = "none" THEN "asking" ELSE "recording"
<1>1. q \in Request /\ q.n = rec.n + 1 /\ q.loop = l /\ q.signature = Head(rec.batch)
  BY DEF Asked, Request, LoopRecord
<1>2. verdict \in {"none", "yes", "deny", "cancel"} /\ pc \in {"asking", "recording"}
  BY DEF Verdict
<1>3. AskedRecord(l, rec) =
        [rec EXCEPT !.n = rec.n + 1, !.asked = rec.asked \cup {q}, !.verdict = verdict, !.pc = pc]
  BY <1>1 DEF AskedRecord
<1> HIDE DEF q, verdict, pc
<1>4. \A a \in rec.asked \cup {q} : a.loop = l /\ a.n <= rec.n + 1
  BY <1>1 DEF LoopRecord, Request
<1> DEFINE a == AskedRecord(l, rec)
<1>5. a \in LoopRecord
  <2>1. rec.n + 1 \in Nat /\ rec.asked \cup {q} \in SUBSET Request
    BY <1>1 DEF LoopRecord
  <2>2. ASSUME NEW n \in Nat, NEW as \in SUBSET Request
        PROVE  [rec EXCEPT !.n = n, !.asked = as, !.verdict = verdict, !.pc = pc] \in LoopRecord
    BY <1>2 DEF LoopRecord
  <2> QED
    BY <2>1, <2>2, <1>3
<1>6. /\ a.n = rec.n + 1 /\ a.asked = rec.asked \cup {q} /\ a.verdict = verdict /\ a.pc = pc
      /\ a.batch = rec.batch /\ a.todo = rec.todo /\ a.seen = rec.seen
      /\ a.session = rec.session /\ a.stopped = rec.stopped /\ a.killed = rec.killed
  BY <1>3 DEF LoopRecord
<1> HIDE DEF a
<1>7. LoopOK(l, a)
  BY <1>2, <1>4, <1>5, <1>6 DEF LoopOK
<1> QED
  BY <1>1, <1>6, <1>7 DEF q, verdict, pc, a
-----------------------------------------------------------------------------
(* Kinds of steps *)

LEMMA ResolversLoop ==
    ASSUME Inv, resolver # NoRequest
    PROVE  resolver \in Request /\ resolver.loop \in Loop
  BY DEF Inv, RestTyped, Request

(* A loop that neither asks nor is asking goes on; the dialog may be closed or   *)
(* show something else only where a run alone is at work.                     *)
LEMMA LocalStep ==
    ASSUME Inv, NEW l \in Loop, NEW rec, LoopOK(l, rec), loops' = [loops EXCEPT ![l] = rec],
           loops[l].pc # "asking", rec.pc # "asking", rec.pc # "idle",
           l \in Run => loops[l].pc \notin {"idle", "ended"},
           UNCHANGED <<activeRun, storeRun, interrupted, queued, resolver, session, rules,
                       granted, strayed, resuming>>,
           loopRef' \in Run \cup {NoRun},
           pending' \in Request \cup {NoRequest},
           pending' = pending \/ l \in Run,
           told' \subseteq Request, settled' \subseteq Request,
           \/ told' = {}
           \/ l \notin Run /\ told' = told
           \/ /\ rec.n >= loops[l].n
              /\ \A q \in told' : q \in told \/ (l \in Run /\ q.loop = l /\ q.n <= rec.n),
           resuming = "no" /\ l \in Run => CarriesConsent(l, rec)
    PROVE  Inv'
<1>1. /\ LoopsInv' /\ loops'[l] = rec
      /\ \A k \in Loop : k # l => loops'[k] = loops[k]
  BY OneLoop DEF Inv
<1>2. RestTyped'
  BY DEF Inv, RestTyped
<1>3. QueueOK'
  BY <1>1 DEF Inv, QueueOK, Loop
<1>4. ResolverOK'
  BY <1>1, ResolversLoop DEF Inv, ResolverOK, Current, Asked
<1>5. ToldOK'
  <2>1. CASE told' = {}
    BY <2>1 DEF ToldOK
  <2>2. CASE l \notin Run /\ told' = told
    BY <2>2, <1>1 DEF Inv, ToldOK, Loop
  <2>3. CASE /\ rec.n >= loops[l].n
             /\ \A q \in told' : q \in told \/ (l \in Run /\ q.loop = l /\ q.n <= rec.n)
    <3> SUFFICES ASSUME NEW q \in told' PROVE q.loop \in Run /\ q.n <= loops'[q.loop].n
      BY DEF ToldOK
    <3>1. CASE q \in told
      <4>1. q.loop \in Run /\ q.n <= loops[q.loop].n /\ q.n \in Nat
        BY <3>1 DEF Inv, ToldOK, RestTyped, Request
      <4>2. CASE q.loop = l
        BY <2>3, <4>1, <4>2, <1>1 DEF Inv, LoopsInv, LoopOK, LoopRecord
      <4>3. CASE q.loop # l
        BY <4>1, <4>3, <1>1 DEF Loop
      <4> QED
        BY <4>2, <4>3
    <3>2. CASE l \in Run /\ q.loop = l /\ q.n <= rec.n
      BY <3>2, <1>1
    <3> QED
      BY <2>3, <3>1, <3>2
  <2> QED
    BY <2>1, <2>2, <2>3
<1>6. ASSUME resuming' = "no"
      PROVE  ConsentInv'
  <2>0. resuming = "no" /\ ConsentInv
    BY <1>6 DEF Inv
  <2>1. \A r \in Run : Alive(r)' => storeRun' = r
    BY <2>0, <1>1 DEF ConsentInv, Alive, Loop
  <2>2. (resolver # NoRequest /\ resolver.loop \in Run => pending = resolver)'
    <3> SUFFICES ASSUME resolver # NoRequest, resolver.loop \in Run PROVE pending' = resolver
      OBVIOUS
    <3>1. pending = resolver /\ loops[resolver.loop].pc = "asking"
      BY <2>0 DEF ConsentInv, Inv, ResolverOK
    <3>2. l \notin Run
      BY <2>0, <3>1 DEF ConsentInv, Alive
    <3> QED
      BY <3>1, <3>2
  <2>3. (\A s \in Session : rules[s] \subseteq granted[s] \cup strayed[s])'
    BY <2>0 DEF ConsentInv
  <2>4. \A r \in Run : CarriesConsent(r, loops[r])'
    BY <2>0, <1>1 DEF ConsentInv, CarriesConsent, Consented, Loop
  <2> QED
    BY <2>1, <2>2, <2>3, <2>4 DEF ConsentInv
<1> QED
  BY <1>1, <1>2, <1>3, <1>4, <1>5, <1>6 DEF Inv
-----------------------------------------------------------------------------
(* The loop of a run or of a stage *)

LEMMA EndStep ==
    ASSUME Inv, NEW l \in Loop, loops[l].pc \notin {"idle", "ended", "asking"}, End(l),
           UNCHANGED <<activeRun, storeRun, interrupted, queued, resolver, sessionVars>>,
           loopRef' \in Run \cup {NoRun},
           pending' \in Request \cup {NoRequest},
           pending' = pending \/ l \in Run
    PROVE  Inv'
<1> DEFINE pc == CASE l \in StageLoop -> "ended"
                   [] l \in Run /\ loops[l].session = session -> "capturing"
                   [] OTHER -> "final"
           rec == [IdleLoop EXCEPT !.pc = pc]
<1>1. pc \in {"ended", "capturing", "final"}
  BY ToolApprovalConstants DEF Loop
<1>2. loops' = [loops EXCEPT ![l] = rec]
  BY DEF End
<1>3. rec.pc = pc /\ rec.todo = {}
  BY DEF IdleLoop
<1> HIDE DEF pc
<1>4. LoopOK(l, rec)
  BY <1>1, IdleIsGood DEF Inv, RestTyped
<1> HIDE DEF rec
<1>5. CarriesConsent(l, rec)
  BY <1>1, <1>3 DEF CarriesConsent
<1>6. told' = {} \/ (l \notin Run /\ told' = told)
  BY DEF End
<1>7. told' \subseteq Request /\ settled' \subseteq Request
  BY DEF End, Inv, RestTyped
<1> QED
  BY <1>1, <1>2, <1>3, <1>4, <1>5, <1>6, <1>7, LocalStep DEF sessionVars

(* What a loop's record keeps when only its position changes *)
LEMMA MovedIsGood ==
    ASSUME NEW l \in Loop, NEW rec, LoopOK(l, rec),
           NEW pc \in {"thinking", "running"},
           pc = "thinking" => ~rec.stopped,
           pc = "running" /\ rec.stopped => rec.killed,
           NEW new, new = [rec EXCEPT !.pc = pc]
    PROVE  /\ LoopOK(l, new)
           /\ new.pc = pc
           /\ new.n = rec.n
           /\ new.todo = rec.todo
           /\ new.seen = rec.seen
           /\ new.session = rec.session
<1>1. rec \in LoopRecord
  BY DEF LoopOK
<1>2. new \in LoopRecord
  BY <1>1 DEF LoopRecord
<1>3. /\ new.pc = pc /\ new.n = rec.n /\ new.todo = rec.todo /\ new.seen = rec.seen
      /\ new.session = rec.session /\ new.asked = rec.asked /\ new.stopped = rec.stopped
      /\ new.killed = rec.killed
  BY <1>1 DEF LoopRecord
<1>4. LoopOK(l, new)
  BY <1>2, <1>3 DEF LoopOK
<1> QED
  BY <1>3, <1>4

LEMMA MoveStep ==
    ASSUME Inv, NEW l \in Loop, NEW pc \in {"thinking", "running"},
           loops[l].pc \notin {"idle", "ended", "asking"},
           ~loops[l].stopped,
           loops' = [loops EXCEPT ![l].pc = pc],
           UNCHANGED <<activeRun, storeRun, interrupted, queued, dialogVars, sessionVars>>,
           loopRef' \in Run \cup {NoRun}
    PROVE  Inv'
<1>1. LoopOK(l, loops[l])
  BY DEF Inv, LoopsInv
<1>p. PICK rec : rec = [loops[l] EXCEPT !.pc = pc]
  OBVIOUS
<1>2. /\ LoopOK(l, rec) /\ rec.pc = pc /\ rec.n = loops[l].n /\ rec.todo = loops[l].todo
      /\ rec.seen = loops[l].seen /\ rec.session = loops[l].session
  BY <1>1, <1>p, MovedIsGood
<1>3. loops' = [loops EXCEPT ![l] = rec]
  BY <1>p DEF Inv, LoopsInv
<1>4. resuming = "no" /\ l \in Run => CarriesConsent(l, rec)
  BY <1>2 DEF Inv, ConsentInv, CarriesConsent, Consented
<1>5. rec.n >= loops[l].n
  BY <1>1, <1>2 DEF LoopOK, LoopRecord
<1>6. /\ pending' = pending /\ pending \in Request \cup {NoRequest}
      /\ told' = told /\ told \subseteq Request
      /\ settled' = settled /\ settled \subseteq Request
  BY DEF Inv, RestTyped, dialogVars
<1> QED
  BY <1>2, <1>3, <1>4, <1>5, <1>6, LocalStep DEF dialogVars, sessionVars

LEMMA LoopSteps ==
    ASSUME Inv, NEW l \in Loop,
           \/ EndReply(l) \/ EndTurn(l)
           \/ l \in Run /\ (BuildLoop(l) \/ AbandonTools(l))
    PROVE  Inv'
<1>0. /\ LoopOK(l, loops[l])
      /\ pending \in Request \cup {NoRequest} /\ loopRef \in Run \cup {NoRun}
  BY DEF Inv, LoopsInv, RestTyped
<1>1. CASE EndReply(l)
  BY <1>0, <1>1, EndStep DEF EndReply, runVars
<1>2. CASE EndTurn(l)
  <2>1. CASE Stale(l) \/ loops[l].killed
    BY <1>0, <1>2, <2>1, EndStep DEF EndTurn, runVars
  <2>2. CASE ~(Stale(l) \/ loops[l].killed)
    <3>1. loops[l].pc = "running" /\ ~loops[l].stopped
      BY <1>0, <1>2, <2>2 DEF EndTurn, LoopOK
    <3> QED
      BY <1>0, <1>2, <2>2, <3>1, MoveStep DEF EndTurn, runVars, dialogVars
  <2> QED
    BY <2>1, <2>2
<1>3. CASE l \in Run /\ BuildLoop(l)
  <2>1. CASE Stale(l)
    BY <1>0, <1>3, <2>1, EndStep DEF BuildLoop
  <2>2. CASE ~Stale(l)
    <3>1. loops[l].pc = "preparing" /\ ~loops[l].stopped
      BY <1>0, <1>3 DEF BuildLoop, LoopOK
    <3> QED
      BY <1>0, <1>3, <2>2, <3>1, MoveStep DEF BuildLoop, dialogVars
  <2> QED
    BY <2>1, <2>2
<1>4. CASE l \in Run /\ AbandonTools(l)
  BY <1>0, <1>4, EndStep DEF AbandonTools, Recorded, runVars
<1> QED
  BY <1>1, <1>2, <1>3, <1>4

LEMMA StageStarts == ASSUME Inv, NEW w \in StageLoop, StartStage(w) PROVE Inv'
<1>1. PICK rec : rec = [IdleLoop EXCEPT !.pc = "thinking", !.session = session]
  OBVIOUS
<1>2. w \in Loop /\ w \notin Run /\ session \in Session
  BY ToolApprovalConstants DEF Loop, Inv, RestTyped
<1>3. LoopOK(w, rec)
  BY <1>1, <1>2, IdleIsGood
<1>4. rec.pc = "thinking"
  BY <1>1 DEF IdleLoop
<1>5. loops' = [loops EXCEPT ![w] = rec] /\ loops[w].pc = "idle"
  BY <1>1 DEF StartStage
<1>6. UNCHANGED <<runVars, dialogVars, sessionVars>>
  BY DEF StartStage
<1>7. /\ pending' = pending /\ pending \in Request \cup {NoRequest}
      /\ told' = told /\ told \subseteq Request
      /\ settled' = settled /\ settled \subseteq Request
      /\ loopRef' \in Run \cup {NoRun}
  BY <1>6 DEF Inv, RestTyped, dialogVars, runVars
<1> QED
  BY <1>2, <1>3, <1>4, <1>5, <1>6, <1>7, LocalStep DEF dialogVars, runVars, sessionVars

(* The decision of the operator, or of a rule, is booked in the loop's record. *)
LEMMA DecisionIsGood ==
    ASSUME Inv, NEW l \in Loop, loops[l].pc = "recording",
           NEW new, new = DecisionTaken(l)
    PROVE  /\ new \in LoopRecord
           /\ new.n = loops[l].n /\ new.asked = loops[l].asked
           /\ new.seen = loops[l].seen /\ new.session = loops[l].session
           /\ new.batch = Tail(loops[l].batch)
           /\ new.stopped \/ loops[l].killed => new.killed
           /\ \A q \in new.asked : q.loop = l /\ q.n <= new.n
           /\ resuming = "no" /\ l \in Run => \A q \in new.todo : Consented(new, q)
<1>1. LoopOK(l, loops[l]) /\ loops[l] \in LoopRecord /\ loops[l].batch # <<>>
  BY DEF Inv, LoopsInv, LoopOK
<1>2. Current(l) \in Request
  BY <1>1 DEF Current, Asked, Request, LoopRecord
<1>3. PICK todo : todo = IF loops[l].verdict = "yes" THEN loops[l].todo \cup {Current(l)}
                         ELSE loops[l].todo
  OBVIOUS
<1>4. todo \in SUBSET Request
  BY <1>1, <1>2, <1>3 DEF LoopRecord
<1>5. PICK batch : batch = Tail(loops[l].batch)
  OBVIOUS
<1>6. batch \in Seq(Signature)
  BY <1>1, <1>5 DEF LoopRecord
<1>7. Stops(l) \in BOOLEAN
  BY <1>1 DEF Stops, LoopRecord
<1>8. new = [loops[l] EXCEPT !.batch = batch, !.verdict = "none", !.todo = todo, !.killed = Stops(l)]
  BY <1>3, <1>5 DEF DecisionTaken
<1>9. new \in LoopRecord
  BY <1>1, <1>4, <1>6, <1>7, <1>8 DEF LoopRecord
<1>10. /\ new.n = loops[l].n /\ new.asked = loops[l].asked
       /\ new.seen = loops[l].seen /\ new.session = loops[l].session
       /\ new.batch = batch /\ new.todo = todo
       /\ new.stopped = loops[l].stopped /\ new.killed = Stops(l)
  BY <1>1, <1>8 DEF LoopRecord
<1>11. new.stopped \/ loops[l].killed => new.killed
  BY <1>1, <1>10 DEF LoopOK, Stops
<1>12. \A q \in new.asked : q.loop = l /\ q.n <= new.n
  BY <1>1, <1>10 DEF LoopOK
<1>13. ASSUME resuming = "no", l \in Run, NEW q \in new.todo
       PROVE  Consented(new, q)
  <2>1. CarriesConsent(l, loops[l])
    BY <1>13 DEF Inv, ConsentInv
  <2>2. q \in loops[l].todo \/ (loops[l].verdict = "yes" /\ q = Current(l))
    BY <1>13, <1>3, <1>10
  <2>3. Consented(loops[l], q)
    BY <2>1, <2>2 DEF CarriesConsent, Current
  <2> QED
    BY <2>3, <1>10 DEF Consented
<1> QED
  BY <1>5, <1>9, <1>10, <1>11, <1>12, <1>13

LEMMA ToolsStart == ASSUME Inv, NEW l \in Loop, StartTools(l) PROVE Inv'
<1>1. loops[l].pc = "recording"
  BY DEF StartTools, Recorded
<1>2. PICK taken : taken = DecisionTaken(l)
  OBVIOUS
<1>3. /\ taken \in LoopRecord
      /\ taken.n = loops[l].n /\ taken.asked = loops[l].asked
      /\ taken.stopped => taken.killed
      /\ \A q \in taken.asked : q.loop = l /\ q.n <= taken.n
      /\ resuming = "no" /\ l \in Run => \A q \in taken.todo : Consented(taken, q)
  BY <1>1, <1>2, DecisionIsGood
<1>4. PICK rec : rec = [taken EXCEPT !.pc = "running"]
  OBVIOUS
<1>5. rec \in LoopRecord
  BY <1>3, <1>4 DEF LoopRecord
<1>6. /\ rec.pc = "running" /\ rec.n = taken.n /\ rec.asked = taken.asked
      /\ rec.todo = taken.todo /\ rec.seen = taken.seen /\ rec.session = taken.session
      /\ rec.stopped = taken.stopped /\ rec.killed = taken.killed
  BY <1>3, <1>4 DEF LoopRecord
<1>7. LoopOK(l, rec)
  BY <1>3, <1>5, <1>6 DEF LoopOK
<1>8. resuming = "no" /\ l \in Run => CarriesConsent(l, rec)
  BY <1>3, <1>6 DEF CarriesConsent, Consented
<1>9. loops' = [loops EXCEPT ![l] = rec]
  BY <1>2, <1>4 DEF StartTools
<1>10. /\ loops[l].asked \subseteq Request
       /\ \A q \in loops[l].asked : q.loop = l /\ q.n <= rec.n
       /\ rec.n >= loops[l].n
  BY <1>3, <1>6 DEF LoopRecord
<1>11. /\ pending \in Request \cup {NoRequest} /\ loopRef \in Run \cup {NoRun}
       /\ told \subseteq Request /\ settled \subseteq Request
  BY DEF Inv, RestTyped
<1>12. UNCHANGED <<runVars, resolver, sessionVars>>
  BY DEF StartTools
<1>13. CASE l \in Run
  <2>1. told' = told \cup loops[l].asked /\ settled' = settled \cup loops[l].asked
    BY <1>13 DEF StartTools
  <2>2. pending' \in Request \cup {NoRequest}
    <3> DEFINE shown == (loops[l].asked \ told) \cap (settled \cup {Current(l)})
    <3>1. pending' = IF shown = {} THEN NoRequest ELSE CHOOSE q \in shown : TRUE
      BY <1>13 DEF StartTools
    <3>2. shown \subseteq Request
      BY <1>10
    <3> HIDE DEF shown
    <3> QED
      BY <3>1, <3>2
  <2>3. \A q \in told' : q \in told \/ (l \in Run /\ q.loop = l /\ q.n <= rec.n)
    BY <2>1, <1>10, <1>13
  <2>4. told' \subseteq Request /\ settled' \subseteq Request
    BY <2>1, <1>10, <1>11
  <2> QED
    BY <1>1, <1>6, <1>7, <1>8, <1>9, <1>10, <1>11, <1>12, <1>13, <2>2, <2>3, <2>4, LocalStep
    DEF runVars, sessionVars
<1>14. CASE l \notin Run
  <2>1. pending' = pending /\ told' = told /\ settled' = settled
    BY <1>14 DEF StartTools
  <2> QED
    BY <1>1, <1>6, <1>7, <1>8, <1>9, <1>11, <1>12, <1>14, <2>1, LocalStep
    DEF runVars, sessionVars
<1> QED
  BY <1>13, <1>14

LEMMA ToolRuns == ASSUME Inv, NEW l \in Loop, NEW q, RunTool(l, q) PROVE Inv'
<1>1. loops[l].pc = "running" /\ LoopOK(l, loops[l]) /\ loops[l] \in LoopRecord
  BY DEF RunTool, Inv, LoopsInv, LoopOK
<1>2. PICK todo : todo = loops[l].todo \ {q}
  OBVIOUS
<1>3. PICK rec : rec = [loops[l] EXCEPT !.todo = todo]
  OBVIOUS
<1>4. todo \in SUBSET Request
  BY <1>1, <1>2 DEF LoopRecord
<1>5. rec \in LoopRecord
  BY <1>1, <1>3, <1>4 DEF LoopRecord
<1>6. /\ rec.pc = "running" /\ rec.n = loops[l].n /\ rec.asked = loops[l].asked
      /\ rec.todo = todo /\ rec.seen = loops[l].seen /\ rec.session = loops[l].session
      /\ rec.stopped = loops[l].stopped /\ rec.killed = loops[l].killed
      /\ rec.n >= loops[l].n
  BY <1>1, <1>3 DEF LoopRecord
<1>7. LoopOK(l, rec)
  BY <1>1, <1>5, <1>6 DEF LoopOK
<1>8. resuming = "no" /\ l \in Run => CarriesConsent(l, rec)
  BY <1>2, <1>6 DEF Inv, ConsentInv, CarriesConsent, Consented
<1>9. loops' = [loops EXCEPT ![l] = rec]
  BY <1>2, <1>3 DEF RunTool, Inv, LoopsInv
<1>10. UNCHANGED <<runVars, dialogVars, sessionVars>>
  BY DEF RunTool
<1>11. /\ pending' = pending /\ pending \in Request \cup {NoRequest}
       /\ told' = told /\ told \subseteq Request
       /\ settled' = settled /\ settled \subseteq Request
       /\ loopRef' \in Run \cup {NoRun}
  BY <1>10 DEF Inv, RestTyped, dialogVars, runVars
<1> QED
  BY <1>1, <1>6, <1>7, <1>8, <1>9, <1>10, <1>11, LocalStep DEF dialogVars, runVars, sessionVars

-----------------------------------------------------------------------------
(* The dialog *)

(* A request of a run is fresh, so it is shown; of two loops that ask, a run's   *)
(* request is answered first only if no other loop took the dialog.           *)
LEMMA AskStep ==
    ASSUME Inv, NEW l \in Loop, NEW rec \in LoopRecord, rec.batch # <<>>,
           loops[l].pc \in {"thinking", "recording"}, rec.n = loops[l].n,
           \A q \in rec.asked : q.loop = l /\ q.n <= rec.n,
           rec.stopped => rec.killed,
           Ask(l, rec), settled' \subseteq Request, UNCHANGED <<runVars, sessionVars>>,
           resuming = "no" /\ l \in Run => \A q \in rec.todo : Consented(rec, q)
    PROVE  Inv'
<1>1. PICK q : q = Asked(l, rec.n + 1, Head(rec.batch))
  OBVIOUS
<1>2. PICK verdict : verdict = Verdict(rec, Head(rec.batch))
  OBVIOUS
<1>3. PICK new : new = AskedRecord(l, rec)
  OBVIOUS
<1>4. /\ LoopOK(l, new) /\ q \in Request
      /\ new.n = rec.n + 1 /\ new.batch = rec.batch /\ new.todo = rec.todo
      /\ new.seen = rec.seen /\ new.session = rec.session /\ new.verdict = verdict
      /\ new.pc = IF verdict = "none" THEN "asking" ELSE "recording"
  BY <1>1, <1>2, <1>3, AskedIsGood
<1>5. q.loop = l /\ q.n = rec.n + 1 /\ q.signature = Head(rec.batch) /\ rec.n \in Nat
  BY <1>1 DEF Asked, LoopRecord
<1>6. /\ loops' = [loops EXCEPT ![l] = new]
      /\ resolver' = IF verdict = "none" THEN q ELSE resolver
      /\ pending' = Displayed(q)
      /\ told' = IF l \in Run THEN told \cup {q} ELSE told
  BY <1>1, <1>2, <1>3, <1>5 DEF Ask, AskedRecord
<1>7. /\ LoopsInv' /\ loops'[l] = new
      /\ \A k \in Loop : k # l => loops'[k] = loops[k]
  BY <1>4, <1>6, OneLoop DEF Inv
<1>8. RestTyped'
  <2>1. pending' \in Request \cup {NoRequest} /\ resolver' \in Request \cup {NoRequest}
    BY <1>4, <1>6 DEF Inv, RestTyped, Displayed
  <2>2. told' \subseteq Request
    BY <1>4, <1>6 DEF Inv, RestTyped
  <2> QED
    BY <2>1, <2>2 DEF Inv, RestTyped, runVars, sessionVars
<1>9. QueueOK'
  BY <1>7 DEF Inv, QueueOK, runVars, Loop
<1>10. ResolverOK'
  <2>1. CASE verdict = "none"
    BY <2>1, <1>1, <1>4, <1>5, <1>6, <1>7 DEF ResolverOK, Current
  <2>2. CASE verdict # "none"
    BY <2>2, <1>6, <1>7, ResolversLoop DEF Inv, ResolverOK, Current, Asked
  <2> QED
    BY <2>1, <2>2
<1>11. ToldOK'
  <2> SUFFICES ASSUME NEW t \in told' PROVE t.loop \in Run /\ t.n <= loops'[t.loop].n
    BY DEF ToldOK
  <2>1. CASE t \in told
    <3>1. t.loop \in Run /\ t.n <= loops[t.loop].n /\ t.n \in Nat
      BY <2>1 DEF Inv, ToldOK, RestTyped, Request
    <3>2. CASE t.loop = l
      BY <3>1, <3>2, <1>4, <1>5, <1>7
    <3>3. CASE t.loop # l
      BY <3>1, <3>3, <1>7 DEF Loop
    <3> QED
      BY <3>2, <3>3
  <2>2. CASE t \notin told
    BY <2>2, <1>4, <1>5, <1>6, <1>7
  <2> QED
    BY <2>1, <2>2
<1>12. ASSUME resuming' = "no"
       PROVE  ConsentInv'
  <2>0. resuming = "no" /\ ConsentInv
    BY <1>12 DEF Inv, sessionVars
  <2>1. \A r \in Run : Alive(r)' => storeRun' = r
    BY <2>0, <1>7 DEF ConsentInv, Alive, Loop, runVars
  <2>2. (resolver # NoRequest /\ resolver.loop \in Run => pending = resolver)'
    <3>1. CASE verdict = "none"
      <4>1. l \in Run => q \notin told
        BY <1>5 DEF Inv, ToldOK
      <4> QED
        BY <3>1, <4>1, <1>5, <1>6 DEF Displayed
    <3>2. CASE verdict # "none"
      <4> SUFFICES ASSUME resolver # NoRequest, resolver.loop \in Run PROVE pending' = resolver
        BY <3>2, <1>6
      <4>1. pending = resolver /\ loops[resolver.loop].pc = "asking"
        BY <2>0 DEF ConsentInv, Inv, ResolverOK
      <4>2. l \notin Run
        BY <2>0, <4>1 DEF ConsentInv, Alive
      <4> QED
        BY <4>1, <4>2, <1>5, <1>6 DEF Displayed
    <3> QED
      BY <3>1, <3>2
  <2>3. (\A s \in Session : rules[s] \subseteq granted[s] \cup strayed[s])'
    BY <2>0 DEF ConsentInv, sessionVars
  <2>4. ASSUME NEW r \in Run
        PROVE  CarriesConsent(r, loops[r])'
    <3>1. CASE r = l
      <4>1. \A t \in new.todo : Consented(new, t)
        BY <2>0, <3>1, <1>4 DEF Consented
      <4>2. ASSUME verdict = "yes"
            PROVE  q.signature \in granted[new.session] \cup strayed[new.session]
        <5>1. q.signature \in rules[rec.session]
          BY <4>2, <1>2, <1>5 DEF Verdict
        <5>2. rec.session \in Session
          BY DEF LoopRecord
        <5> QED
          BY <2>0, <5>1, <5>2, <1>4 DEF ConsentInv
      <4>3. q = Asked(l, new.n, Head(new.batch))
        BY <1>1, <1>4
      <4> QED
        BY <3>1, <4>1, <4>2, <4>3, <1>4, <1>7 DEF CarriesConsent, Consented, sessionVars
    <3>2. CASE r # l
      BY <2>0, <3>2, <1>7 DEF ConsentInv, CarriesConsent, Consented, Loop, sessionVars
    <3> QED
      BY <3>1, <3>2
  <2> QED
    BY <2>1, <2>2, <2>3, <2>4 DEF ConsentInv
<1> QED
  BY <1>7, <1>8, <1>9, <1>10, <1>11, <1>12 DEF Inv

LEMMA ToolsCalled ==
    ASSUME Inv, NEW l \in Loop, NEW batch \in Batch, CallTools(l, batch)
    PROVE  Inv'
<1>1. loops[l].pc = "thinking" /\ loops[l].turns < MaxTurns /\ LoopOK(l, loops[l])
      /\ loops[l] \in LoopRecord
  BY DEF CallTools, Inv, LoopsInv, LoopOK
<1>2. batch \in Seq(Signature) /\ batch # <<>>
  BY ToolApprovalConstants
<1>3. PICK turns : turns = loops[l].turns + 1
  OBVIOUS
<1>4. turns \in 0..MaxTurns
  BY <1>1, <1>3, ToolApprovalConstants DEF LoopRecord
<1>5. PICK rec : rec = [loops[l] EXCEPT !.turns = turns, !.batch = batch, !.asked = {}]
  OBVIOUS
<1>6. rec \in LoopRecord
  BY <1>1, <1>2, <1>4, <1>5 DEF LoopRecord
<1>7. /\ rec.batch = batch /\ rec.n = loops[l].n /\ rec.asked = {}
      /\ rec.stopped = loops[l].stopped /\ rec.killed = loops[l].killed
      /\ rec.todo = loops[l].todo /\ rec.seen = loops[l].seen
      /\ rec.session = loops[l].session
  BY <1>1, <1>5 DEF LoopRecord
<1>8. Ask(l, rec)
  BY <1>3, <1>5 DEF CallTools
<1>9. rec.stopped => rec.killed
  BY <1>1, <1>7 DEF LoopOK
<1>10. resuming = "no" /\ l \in Run => \A q \in rec.todo : Consented(rec, q)
  BY <1>7 DEF Inv, ConsentInv, CarriesConsent, Consented
<1>11. settled' \subseteq Request /\ UNCHANGED <<runVars, sessionVars>>
  BY DEF CallTools, Inv, RestTyped
<1> QED
  BY <1>1, <1>2, <1>6, <1>7, <1>8, <1>9, <1>10, <1>11, AskStep

LEMMA NextAsked == ASSUME Inv, NEW l \in Loop, AskNext(l) PROVE Inv'
<1>1. /\ loops[l].pc = "recording" /\ Len(loops[l].batch) > 1
      /\ loops[l] \in LoopRecord /\ loops[l].batch # <<>>
  BY DEF AskNext, Recorded, MoreCalls, Inv, LoopsInv, LoopOK
<1>2. PICK taken : taken = DecisionTaken(l)
  OBVIOUS
<1>3. /\ taken \in LoopRecord /\ taken.n = loops[l].n
      /\ taken.batch = Tail(loops[l].batch)
      /\ taken.stopped => taken.killed
      /\ \A q \in taken.asked : q.loop = l /\ q.n <= taken.n
      /\ resuming = "no" /\ l \in Run => \A q \in taken.todo : Consented(taken, q)
  BY <1>1, <1>2, DecisionIsGood
<1>4. taken.batch # <<>>
  <2>1. loops[l].batch \in Seq(Signature)
    BY <1>1 DEF LoopRecord
  <2>2. Len(taken.batch) = Len(loops[l].batch) - 1
    BY <1>1, <1>3, <2>1
  <2> QED
    BY <1>1, <2>1, <2>2
<1>5. Current(l) \in Request
  BY <1>1 DEF Current, Asked, Request, LoopRecord
<1>6. settled' \subseteq Request
  BY <1>5 DEF AskNext, Inv, RestTyped
<1> QED
  BY <1>1, <1>2, <1>3, <1>4, <1>6, AskStep DEF AskNext

LEMMA AnswerGiven == ASSUME Inv, NEW scope \in Scope, Answer(scope) PROVE Inv'
<1> DEFINE l == resolver.loop
           yes == scope \in {"once", "session"}
           seen == IF yes /\ pending = resolver THEN loops[l].seen \cup {pending}
                  ELSE loops[l].seen
           verdict == IF yes THEN "yes" ELSE scope
           stopped == loops[l].stopped \/ scope = "cancel"
           new == [loops[l] EXCEPT !.pc = "recording", !.verdict = verdict,
                                   !.seen = seen, !.stopped = stopped]
<1>1. loops' = [loops EXCEPT ![l] = new]
  BY DEF Answer
<1>2. l = resolver.loop
  OBVIOUS
<1>3. new = [loops[l] EXCEPT !.pc = "recording", !.verdict = verdict,
                             !.seen = seen, !.stopped = stopped]
  OBVIOUS
<1> HIDE DEF l, new
<1>4. /\ l \in Loop /\ resolver \in Request /\ resolver # NoRequest
      /\ loops[l].pc = "asking" /\ resolver = Current(l)
      /\ LoopOK(l, loops[l]) /\ loops[l] \in LoopRecord /\ loops[l].batch # <<>>
  BY <1>2, ResolversLoop DEF Answer, Inv, ResolverOK, LoopsInv, LoopOK
<1>5. seen \in SUBSET Request
  BY <1>4 DEF LoopRecord
<1>6. verdict \in {"yes", "deny", "cancel"} /\ stopped \in BOOLEAN
  BY <1>4 DEF Scope, LoopRecord
<1>7. new \in LoopRecord
  BY <1>4, <1>3, <1>5, <1>6 DEF LoopRecord
<1>8. /\ new.pc = "recording" /\ new.verdict = verdict /\ new.seen = seen
       /\ new.stopped = stopped /\ new.batch = loops[l].batch /\ new.n = loops[l].n
       /\ new.asked = loops[l].asked /\ new.todo = loops[l].todo
       /\ new.session = loops[l].session /\ new.killed = loops[l].killed
  BY <1>4, <1>3 DEF LoopRecord
<1>9. stopped => new.killed \/ verdict = "cancel"
  BY <1>4, <1>8 DEF LoopOK
<1>10. LoopOK(l, new)
  BY <1>4, <1>7, <1>8, <1>9 DEF LoopOK
<1>11. /\ LoopsInv' /\ loops'[l] = new
       /\ \A k \in Loop : k # l => loops'[k] = loops[k]
  BY <1>4, <1>10, <1>1, OneLoop DEF Inv
<1>12. resolver' = NoRequest /\ pending' = NoRequest
       /\ UNCHANGED <<runVars, told, settled, session, resuming>>
  BY DEF Answer, ResolverTaken
<1>13. PICK s : s = loops[l].session
  OBVIOUS
<1>14. s \in Session /\ resolver.signature \in Signature
  BY <1>4, <1>13 DEF LoopRecord, Request
<1>15. /\ rules' = rules \/ rules' = [rules EXCEPT ![s] = @ \cup {resolver.signature}]
       /\ granted' = granted \/ granted' = [granted EXCEPT ![s] = @ \cup {resolver.signature}]
       /\ strayed' = strayed \/ strayed' = [strayed EXCEPT ![s] = @ \cup {resolver.signature}]
       /\ rules' # rules => /\ pending = resolver => granted' = [granted EXCEPT ![s] = @ \cup {resolver.signature}]
                            /\ l \in StageLoop => strayed' = [strayed EXCEPT ![s] = @ \cup {resolver.signature}]
  BY <1>2, <1>13 DEF Answer
<1>16. /\ rules' \in [Session -> SUBSET Signature]
       /\ granted' \in [Session -> SUBSET Signature]
       /\ strayed' \in [Session -> SUBSET Signature]
       /\ \A t \in Session : granted[t] \subseteq granted'[t] /\ strayed[t] \subseteq strayed'[t]
  BY <1>14, <1>15 DEF Inv, RestTyped
<1>17. RestTyped'
  BY <1>12, <1>16 DEF Inv, RestTyped, runVars
<1>18. QueueOK'
  <2>1. \A r \in Run : loops[r].pc = "idle" => loops'[r].pc = "idle"
    BY <1>4, <1>11 DEF Loop
  <2> QED
    BY <2>1, <1>12 DEF Inv, QueueOK, runVars
<1>19. ResolverOK'
  BY <1>12 DEF ResolverOK
<1>20. ToldOK'
  BY <1>8, <1>11, <1>12 DEF Inv, ToldOK, Loop
<1>21. ASSUME resuming' = "no"
       PROVE  ConsentInv'
  <2>0. resuming = "no" /\ ConsentInv
    BY <1>12, <1>21 DEF Inv
  <2>1. \A r \in Run : Alive(r)' => storeRun' = r
    BY <2>0, <1>4, <1>11, <1>12 DEF ConsentInv, Alive, Loop, runVars
  <2>2. ASSUME NEW r \in Run
        PROVE  CarriesConsent(r, loops[r])'
    <3>0. CarriesConsent(r, loops[r])
      BY <2>0 DEF ConsentInv
    <3>1. CASE r = l
      <4>1. pending = resolver
        BY <2>0, <3>1, <1>2, <1>4 DEF ConsentInv
      <4>2. yes => resolver \in new.seen
        BY <4>1, <1>8
      <4>3. verdict = "yes" => yes
        BY DEF Scope
      <4>4. resolver = Asked(l, new.n, Head(new.batch))
        BY <1>4, <1>8 DEF Current
      <4>5. \A q \in new.todo :
              q \in new.seen \/ q.signature \in granted'[new.session] \cup strayed'[new.session]
        BY <3>0, <3>1, <1>8, <1>13, <1>14, <1>16 DEF CarriesConsent, Consented
      <4> QED
        BY <3>1, <4>2, <4>3, <4>4, <4>5, <1>8, <1>11 DEF CarriesConsent, Consented
    <3>2. CASE r # l
      <4>1. loops'[r] = loops[r] /\ loops[r].session \in Session
        BY <3>2, <1>11 DEF Loop, Inv, LoopsInv, LoopRecord
      <4> QED
        BY <3>0, <4>1, <1>16 DEF CarriesConsent, Consented
    <3> QED
      BY <3>1, <3>2
  <2>3. \A t \in Session : rules'[t] \subseteq granted'[t] \cup strayed'[t]
    <3> SUFFICES ASSUME NEW t \in Session PROVE rules'[t] \subseteq granted'[t] \cup strayed'[t]
      OBVIOUS
    <3>1. rules[t] \subseteq granted[t] \cup strayed[t]
      BY <2>0 DEF ConsentInv
    <3>2. CASE rules' = rules
      BY <3>1, <3>2, <1>16
    <3>3. CASE rules' # rules
      <4>1. pending = resolver \/ l \in StageLoop
        BY <2>0, <1>2, <1>4 DEF ConsentInv, Loop
      <4>2. rules'[t] \subseteq rules[t] \cup (IF t = s THEN {resolver.signature} ELSE {})
        BY <3>3, <1>14, <1>15 DEF Inv, RestTyped
      <4>3. t = s => resolver.signature \in granted'[t] \cup strayed'[t]
        BY <3>3, <4>1, <1>14, <1>15 DEF Inv, RestTyped
      <4> QED
        BY <3>1, <4>2, <4>3, <1>16
    <3> QED
      BY <3>2, <3>3
  <2> QED
    BY <2>0, <2>1, <2>2, <2>3, <1>12 DEF ConsentInv
<1> QED
  BY <1>11, <1>17, <1>18, <1>19, <1>20, <1>21 DEF Inv

-----------------------------------------------------------------------------
(* Prompts and sessions *)

LEMMA KilledIsGood ==
    ASSUME Inv, loops' = Killed(loops)
    PROVE  /\ LoopsInv'
           /\ \A l \in Loop :
                 /\ loops'[l].pc = loops[l].pc /\ loops'[l].n = loops[l].n
                 /\ loops'[l].batch = loops[l].batch /\ loops'[l].todo = loops[l].todo
                 /\ loops'[l].seen = loops[l].seen /\ loops'[l].session = loops[l].session
                 /\ loops'[l].verdict = loops[l].verdict
<1>1. ASSUME NEW l \in Loop, NEW rec, rec = [loops[l] EXCEPT !.killed = TRUE]
      PROVE  /\ LoopOK(l, rec)
             /\ rec.pc = loops[l].pc /\ rec.n = loops[l].n /\ rec.batch = loops[l].batch
             /\ rec.todo = loops[l].todo /\ rec.seen = loops[l].seen
             /\ rec.session = loops[l].session /\ rec.verdict = loops[l].verdict
  <2>1. LoopOK(l, loops[l]) /\ loops[l] \in LoopRecord
    BY DEF Inv, LoopsInv, LoopOK
  <2>2. rec \in LoopRecord
    BY <1>1, <2>1 DEF LoopRecord
  <2>3. /\ rec.pc = loops[l].pc /\ rec.n = loops[l].n /\ rec.batch = loops[l].batch
        /\ rec.todo = loops[l].todo /\ rec.seen = loops[l].seen
        /\ rec.session = loops[l].session /\ rec.verdict = loops[l].verdict
        /\ rec.asked = loops[l].asked /\ rec.stopped = loops[l].stopped /\ rec.killed = TRUE
    BY <1>1, <2>1 DEF LoopRecord
  <2> QED
    BY <2>1, <2>2, <2>3 DEF LoopOK
<1>2. ASSUME NEW l \in Loop
      PROVE  /\ LoopOK(l, loops'[l])
             /\ loops'[l].pc = loops[l].pc /\ loops'[l].n = loops[l].n
             /\ loops'[l].batch = loops[l].batch /\ loops'[l].todo = loops[l].todo
             /\ loops'[l].seen = loops[l].seen /\ loops'[l].session = loops[l].session
             /\ loops'[l].verdict = loops[l].verdict
  <2>1. LoopOK(l, loops[l])
    BY DEF Inv, LoopsInv
  <2>2. loops'[l] = loops[l] \/ loops'[l] = [loops[l] EXCEPT !.killed = TRUE]
    BY DEF Killed
  <2> QED
    BY <1>1, <2>1, <2>2
<1>3. loops' \in [Loop -> LoopRecord]
  <2>1. loops' = [l \in Loop |-> loops'[l]]
    BY DEF Killed
  <2> QED
    BY <1>2, <2>1 DEF LoopOK
<1> QED
  BY <1>2, <1>3 DEF LoopsInv

LEMMA CancelStep == ASSUME Inv, Cancel PROVE Inv'
<1>1. loops' = Killed(loops)
  BY DEF Cancel
<1>2. /\ LoopsInv'
      /\ \A l \in Loop :
            /\ loops'[l].pc = loops[l].pc /\ loops'[l].n = loops[l].n
            /\ loops'[l].batch = loops[l].batch /\ loops'[l].todo = loops[l].todo
            /\ loops'[l].seen = loops[l].seen /\ loops'[l].session = loops[l].session
            /\ loops'[l].verdict = loops[l].verdict
  BY <1>1, KilledIsGood
<1>3. /\ interrupted' = TRUE /\ told' = {} /\ settled' = {}
      /\ UNCHANGED <<activeRun, storeRun, loopRef, queued, pending, resolver, sessionVars>>
  BY DEF Cancel
<1>4. RestTyped'
  BY <1>3 DEF Inv, RestTyped, sessionVars
<1>5. QueueOK'
  BY <1>2, <1>3 DEF Inv, QueueOK, Loop
<1>6. ResolverOK'
  BY <1>2, <1>3, ResolversLoop DEF Inv, ResolverOK, Current
<1>7. ToldOK'
  BY <1>3 DEF ToldOK
<1>8. resuming' = "no" => ConsentInv'
  BY <1>2, <1>3 DEF Inv, ConsentInv, Alive, CarriesConsent, Consented, sessionVars, Loop
<1> QED
  BY <1>2, <1>4, <1>5, <1>6, <1>7, <1>8 DEF Inv

LEMMA SessionSteps ==
    ASSUME Inv, ResetSession \/ ResumeBegin \/ ResumeSwitch \/ ResumeEnd
    PROVE  Inv'
<1>1. CASE ResetSession \/ ResumeSwitch
  <2>1. loops' = Killed(loops)
    BY <1>1 DEF ResetSession, ResumeSwitch
  <2>2. /\ LoopsInv'
        /\ \A l \in Loop :
              /\ loops'[l].pc = loops[l].pc /\ loops'[l].n = loops[l].n
              /\ loops'[l].batch = loops[l].batch /\ loops'[l].todo = loops[l].todo
              /\ loops'[l].seen = loops[l].seen /\ loops'[l].session = loops[l].session
              /\ loops'[l].verdict = loops[l].verdict
    BY <2>1, KilledIsGood
  <2>3. /\ session' = session + 1 /\ session < MaxSessions /\ resolver' = NoRequest
        /\ told' = {} /\ settled' = {} /\ queued' = FALSE /\ activeRun' = NoRun
        /\ UNCHANGED <<storeRun, interrupted, loopRef, pending>>
    BY <1>1 DEF ResetSession, ResumeSwitch
  <2>4. session \in Session /\ session' \in Session
    BY <2>3, ToolApprovalConstants DEF Inv, RestTyped, Session
  <2>5. /\ rules' \in [Session -> SUBSET Signature]
        /\ granted' \in [Session -> SUBSET Signature]
        /\ strayed' \in [Session -> SUBSET Signature]
        /\ resuming' \in {"no", "loading", "syncing", "done"}
    <3>1. CASE ResetSession
      BY <3>1, <2>4 DEF ResetSession, ClearedRules, Inv, RestTyped
    <3>2. CASE ResumeSwitch
      <4>1. PICK s \in 0..session : \E saved \in SUBSET rules[s] :
               /\ rules' = [rules EXCEPT ![session + 1] = saved]
               /\ granted' = [granted EXCEPT ![session + 1] = granted[s]]
               /\ strayed' = [strayed EXCEPT ![session + 1] = strayed[s]]
               /\ resuming' = "syncing"
        BY <3>2 DEF ResumeSwitch
      <4>0. PICK saved \in SUBSET rules[s] :
               /\ rules' = [rules EXCEPT ![session + 1] = saved]
               /\ granted' = [granted EXCEPT ![session + 1] = granted[s]]
               /\ strayed' = [strayed EXCEPT ![session + 1] = strayed[s]]
               /\ resuming' = "syncing"
        BY <4>1
      <4>2. s \in Session
        BY <2>4, ToolApprovalConstants DEF Session
      <4>3. /\ saved \in SUBSET Signature /\ granted[s] \in SUBSET Signature
              /\ strayed[s] \in SUBSET Signature
        BY <4>2 DEF Inv, RestTyped
      <4> QED
        BY <4>0, <4>3 DEF Inv, RestTyped
    <3> QED
      BY <1>1, <3>1, <3>2
  <2>6. RestTyped'
    BY <2>3, <2>4, <2>5 DEF Inv, RestTyped
  <2>7. QueueOK' /\ ResolverOK' /\ ToldOK'
    BY <2>3 DEF QueueOK, ResolverOK, ToldOK
  <2>8. ASSUME resuming' = "no"
        PROVE  ConsentInv'
    <3>1. ResetSession /\ resuming = "no" /\ ConsentInv
      BY <1>1, <2>8 DEF ResetSession, ResumeSwitch, Inv
    <3>2. \A s \in Session : rules'[s] \subseteq granted'[s] \cup strayed'[s]
      BY <3>1 DEF ResetSession, ClearedRules, Inv, RestTyped, ConsentInv
    <3>3. granted' = granted /\ strayed' = strayed
      BY <3>1 DEF ResetSession
    <3> QED
      BY <2>2, <2>3, <3>1, <3>2, <3>3
      DEF ConsentInv, Alive, CarriesConsent, Consented, Loop
  <2> QED
    BY <2>2, <2>6, <2>7, <2>8 DEF Inv
<1>2. CASE ResumeBegin \/ ResumeEnd
  <2>1. /\ resuming' \in {"loading", "done"}
        /\ storeRun' \in {storeRun, NoRun} /\ interrupted' \in {interrupted, FALSE}
        /\ pending' \in {pending, NoRequest}
        /\ UNCHANGED <<loops, activeRun, loopRef, queued, resolver, told, settled, session,
                       rules, granted, strayed>>
    BY <1>2 DEF ResumeBegin, ResumeEnd, runVars, dialogVars
  <2>2. RestTyped'
    BY <2>1 DEF Inv, RestTyped
  <2>3. LoopsInv' /\ QueueOK' /\ ResolverOK' /\ ToldOK'
    BY <2>1 DEF Inv, LoopsInv, QueueOK, ResolverOK, ToldOK, Current
  <2> QED
    BY <2>1, <2>2, <2>3 DEF Inv
<1> QED
  BY <1>1, <1>2

LEMMA UnstartedRuns ==
    /\ IsFiniteSet(Unstarted) /\ Cardinality(Unstarted) \in Nat
    /\ Cardinality(Unstarted) > 0 => NextRun \in Unstarted
    /\ Cardinality(Unstarted) > 1 => Unstarted \ {NextRun} # {}
<1>1. IsFiniteSet(Run)
  BY FS_Interval, ToolApprovalConstants DEF Run
<1>2. IsFiniteSet(Unstarted)
  BY <1>1, FS_Subset DEF Unstarted
<1>3. Cardinality(Unstarted) \in Nat
  BY <1>2, FS_CardinalityType
<1>4. Cardinality(Unstarted) > 0 => NextRun \in Unstarted
  BY FS_EmptySet DEF NextRun
<1>5. ASSUME Unstarted \ {NextRun} = {}
      PROVE  Cardinality(Unstarted) <= 1
  <2>1. Unstarted \subseteq {NextRun}
    BY <1>5
  <2>2. IsFiniteSet({NextRun}) /\ Cardinality({NextRun}) = 1
    BY FS_Singleton
  <2> QED
    BY <2>1, <2>2, FS_Subset
<1> QED
  BY <1>2, <1>3, <1>4, <1>5

(* A run begins where none of the store's is alive: when the prompt is submitted, *)
(* and at the end of the run before it.                                       *)
LEMMA RunBegins ==
    ASSUME Inv, NEW ls, NEW r \in Unstarted, r = NextRun, StartPromptRun(ls),
           ls \in [Loop -> LoopRecord], \A l \in Loop : LoopOK(l, ls[l]),
           NEW old \in Run \cup {NoRun}, old # r,
           \A l \in Loop : l # old => ls[l] = loops[l],
           old \in Run => /\ ls[old].pc = "ended" /\ loops[old].pc \in {"capturing", "final"}
                          /\ resuming = "no" => CarriesConsent(old, ls[old]),
           resuming = "no" => storeRun = old,
           loopRef' \in Run \cup {NoRun},
           queued' = FALSE \/ (queued' = queued /\ Unstarted \ {r} # {} /\ old = NoRun),
           pending' \in {pending, NoRequest},
           UNCHANGED <<resolver, sessionVars>>
    PROVE  Inv'
<1>1. PICK rec : rec = [IdleLoop EXCEPT !.pc = "preparing", !.session = session]
  OBVIOUS
<1>2. r \in Run /\ r \in Loop /\ loops[r].pc = "idle" /\ session \in Session
      /\ NoRun \notin Run
  BY ToolApprovalConstants DEF Unstarted, Loop, Inv, RestTyped
<1>3. LoopOK(r, rec)
  BY <1>1, <1>2, IdleIsGood
<1>4. rec.pc = "preparing" /\ rec.todo = {}
  BY <1>1 DEF IdleLoop
<1>5. /\ loops' = [ls EXCEPT ![r] = rec]
      /\ activeRun' = r /\ storeRun' = r /\ interrupted' = FALSE
      /\ told' = {} /\ settled' = {}
  BY <1>1 DEF StartPromptRun
<1>6. /\ loops'[r] = rec
      /\ \A l \in Loop : l # r => loops'[l] = ls[l]
  BY <1>2, <1>5
<1>7. LoopsInv'
  <2>1. loops' \in [Loop -> LoopRecord]
    BY <1>3, <1>5 DEF LoopOK
  <2> QED
    BY <2>1, <1>3, <1>6 DEF LoopsInv
<1>8. RestTyped'
  BY <1>2, <1>5 DEF Inv, RestTyped, sessionVars
<1>9. QueueOK'
  <2> SUFFICES ASSUME queued' PROVE \E k \in Run : loops'[k].pc = "idle"
    BY DEF QueueOK
  <2>1. PICK k \in Unstarted : k # r
    OBVIOUS
  <2>2. k \in Run /\ k \in Loop /\ loops[k].pc = "idle"
    BY DEF Unstarted, Loop
  <2>3. loops'[k] = loops[k]
    BY <2>1, <2>2, <1>2, <1>6
  <2> QED
    BY <2>2, <2>3
<1>10. ResolverOK'
  <2> SUFFICES ASSUME resolver # NoRequest
               PROVE  loops'[resolver.loop] = loops[resolver.loop]
    BY DEF Inv, ResolverOK, Current, sessionVars
  <2>1. resolver.loop \in Loop /\ loops[resolver.loop].pc = "asking"
    BY ResolversLoop DEF Inv, ResolverOK
  <2>2. resolver.loop # r /\ resolver.loop # old
    BY <2>1, <1>2, ToolApprovalConstants
  <2> QED
    BY <2>1, <2>2, <1>6
<1>11. ToldOK'
  BY <1>5 DEF ToldOK
<1>12. ASSUME resuming' = "no"
       PROVE  ConsentInv'
  <2>0. resuming = "no" /\ ConsentInv /\ storeRun = old
    BY <1>12 DEF Inv, sessionVars
  <2>1. \A k \in Run : k # r /\ k # old => ~Alive(k)
    BY <2>0 DEF ConsentInv
  <2>2. \A k \in Run : Alive(k)' => k = r
    BY <2>1, <1>6 DEF Alive, Loop
  <2>3. ~(resolver # NoRequest /\ resolver.loop \in Run)
    <3> SUFFICES ASSUME resolver # NoRequest, resolver.loop \in Run PROVE FALSE
      OBVIOUS
    <3>1. loops[resolver.loop].pc = "asking"
      BY DEF Inv, ResolverOK
    <3>2. resolver.loop # r /\ resolver.loop # old
      BY <3>1, <1>2
    <3> QED
      BY <2>1, <3>1, <3>2 DEF Alive
  <2>4. ASSUME NEW k \in Run
        PROVE  CarriesConsent(k, loops[k])'
    <3>1. CASE k = r
      BY <3>1, <1>4, <1>6 DEF CarriesConsent
    <3>2. CASE k = old
      BY <2>0, <3>2, <1>2, <1>6 DEF CarriesConsent, Consented, Loop, sessionVars
    <3>3. CASE k # r /\ k # old
      BY <2>0, <3>3, <1>6 DEF ConsentInv, CarriesConsent, Consented, Loop, sessionVars
    <3> QED
      BY <3>1, <3>2, <3>3
  <2> QED
    BY <2>0, <2>2, <2>3, <2>4, <1>5 DEF ConsentInv, sessionVars
<1> QED
  BY <1>7, <1>8, <1>9, <1>10, <1>11, <1>12 DEF Inv

LEMMA SubmitSteps == ASSUME Inv, Submit \/ SubmitQueued PROVE Inv'
<1>1. CASE Submit
  <2>1. /\ Cardinality(Unstarted) > IF queued THEN 1 ELSE 0
        /\ storeRun = NoRun /\ StartPromptRun(loops)
        /\ UNCHANGED <<loopRef, queued, pending, resolver, sessionVars>>
    BY <1>1 DEF Submit, Spare, Busy
  <2>2. NextRun \in Unstarted /\ (queued => Unstarted \ {NextRun} # {})
    BY <2>1, UnstartedRuns
  <2>3. NextRun # NoRun
    BY <2>2, ToolApprovalConstants DEF Unstarted, Loop
  <2>4. /\ loops \in [Loop -> LoopRecord] /\ \A l \in Loop : LoopOK(l, loops[l])
        /\ loopRef' \in Run \cup {NoRun} /\ NoRun \notin Run /\ queued \in BOOLEAN
    BY <2>1, ToolApprovalConstants DEF Inv, LoopsInv, RestTyped, Loop
  <2> QED
    BY <2>1, <2>2, <2>3, <2>4, RunBegins
<1>2. CASE SubmitQueued
  <2>1. /\ Cardinality(Unstarted) > 0
        /\ queued' = TRUE
        /\ UNCHANGED <<loops, activeRun, storeRun, interrupted, loopRef, dialogVars,
                       sessionVars>>
    BY <1>2 DEF SubmitQueued, Spare
  <2>2. \E r \in Run : loops[r].pc = "idle"
    BY <2>1, UnstartedRuns DEF Unstarted
  <2>3. RestTyped'
    BY <2>1 DEF Inv, RestTyped, dialogVars, sessionVars
  <2>4. LoopsInv' /\ QueueOK' /\ ResolverOK' /\ ToldOK'
    BY <2>1, <2>2
    DEF Inv, LoopsInv, QueueOK, ResolverOK, ToldOK, Current, dialogVars
  <2>5. resuming' = "no" => ConsentInv'
    BY <2>1 DEF Inv, ConsentInv, Alive, CarriesConsent, Consented, dialogVars, sessionVars
  <2> QED
    BY <2>3, <2>4, <2>5 DEF Inv
<1> QED
  BY <1>1, <1>2

LEMMA FinishStep == ASSUME Inv, NEW r \in Run, FinishRun(r) PROVE Inv'
<1>1. /\ loops[r].pc \in {"capturing", "final"} /\ r \in Loop
      /\ LoopOK(r, loops[r]) /\ loops[r] \in LoopRecord
  BY DEF FinishRun, Inv, LoopsInv, LoopOK, Loop
<1>2. PICK rec : rec = [loops[r] EXCEPT !.pc = "ended"]
  OBVIOUS
<1>3. rec \in LoopRecord
  BY <1>1, <1>2 DEF LoopRecord
<1>4. /\ rec.pc = "ended" /\ rec.n = loops[r].n /\ rec.asked = loops[r].asked
      /\ rec.todo = loops[r].todo /\ rec.seen = loops[r].seen
      /\ rec.session = loops[r].session /\ rec.stopped = loops[r].stopped
  BY <1>1, <1>2 DEF LoopRecord
<1>5. LoopOK(r, rec)
  BY <1>1, <1>3, <1>4 DEF LoopOK
<1>6. resuming = "no" => CarriesConsent(r, rec) /\ storeRun = r
  BY <1>1, <1>4 DEF Inv, ConsentInv, CarriesConsent, Consented, Alive
<1>7. PICK ended : ended = [loops EXCEPT ![r] = rec]
  OBVIOUS
<1>8. /\ ended \in [Loop -> LoopRecord] /\ ended[r] = rec
      /\ \A l \in Loop : l # r => ended[l] = loops[l]
      /\ \A l \in Loop : LoopOK(l, ended[l])
  <2>1. ended \in [Loop -> LoopRecord]
    BY <1>3, <1>7 DEF Inv, LoopsInv
  <2>2. ended[r] = rec /\ \A l \in Loop : l # r => ended[l] = loops[l]
    BY <1>1, <1>7 DEF Inv, LoopsInv
  <2> QED
    BY <2>1, <2>2, <1>5 DEF Inv, LoopsInv
<1>9. ended = [loops EXCEPT ![r].pc = "ended"]
  BY <1>2, <1>7 DEF Inv, LoopsInv
<1>10. /\ loopRef' = NoRun /\ pending' = NoRequest /\ queued' = FALSE
       /\ UNCHANGED <<resolver, sessionVars>>
  BY DEF FinishRun
<1>11. CASE queued
  <2>1. StartPromptRun(ended)
    BY <1>9, <1>11 DEF FinishRun
  <2>2. NextRun \in Unstarted
    BY <1>11 DEF Inv, QueueOK, Unstarted, NextRun
  <2>3. NextRun # r
    BY <2>2, <1>1 DEF Unstarted
  <2>4. PICK next : next = NextRun
    OBVIOUS
  <2>5. next \in Unstarted /\ r # next
    BY <2>2, <2>3, <2>4
  <2>6. r \in Run => /\ ended[r].pc = "ended" /\ loops[r].pc \in {"capturing", "final"}
                     /\ resuming = "no" => CarriesConsent(r, ended[r])
    BY <1>1, <1>4, <1>6, <1>8
  <2>7. resuming = "no" => storeRun = r
    BY <1>6
  <2>8. /\ loopRef' \in Run \cup {NoRun} /\ pending' \in {pending, NoRequest}
        /\ r \in Run \cup {NoRun}
    BY <1>10
  <2> QED
    BY <1>8, <1>10, <2>1, <2>4, <2>5, <2>6, <2>7, <2>8, RunBegins
<1>12. CASE ~queued
  <2>1. /\ loops' = ended /\ activeRun' = NoRun
        /\ storeRun' = IF storeRun = r THEN NoRun ELSE storeRun
        /\ interrupted' = (interrupted /\ storeRun # r)
        /\ UNCHANGED <<told, settled>>
    BY <1>9, <1>12 DEF FinishRun
  <2>2. LoopsInv'
    BY <1>8, <2>1 DEF LoopsInv
  <2>3. RestTyped'
    BY <1>10, <2>1 DEF Inv, RestTyped, sessionVars
  <2>4. QueueOK'
    BY <1>10 DEF QueueOK
  <2>5. ResolverOK'
    <3> SUFFICES ASSUME resolver # NoRequest
                 PROVE  loops'[resolver.loop] = loops[resolver.loop]
      BY <1>10 DEF Inv, ResolverOK, Current
    <3>1. resolver.loop \in Loop /\ loops[resolver.loop].pc = "asking"
      BY ResolversLoop DEF Inv, ResolverOK
    <3> QED
      BY <3>1, <1>1, <1>8, <2>1
  <2>6. ToldOK'
    BY <1>4, <1>8, <2>1 DEF Inv, ToldOK, Loop
  <2>7. ASSUME resuming' = "no"
        PROVE  ConsentInv'
    <3>0. resuming = "no" /\ ConsentInv /\ storeRun = r
      BY <2>7, <1>6, <1>10 DEF Inv, sessionVars
    <3>1. \A k \in Run : k # r => ~Alive(k)
      BY <3>0 DEF ConsentInv
    <3>2. \A k \in Run : ~Alive(k)'
      BY <3>1, <1>4, <1>8, <2>1 DEF Alive, Loop
    <3>3. ~(resolver # NoRequest /\ resolver.loop \in Run)
      BY <3>1, <1>1 DEF Inv, ResolverOK, Alive
    <3>4. \A k \in Run : CarriesConsent(k, loops[k])'
      BY <3>0, <1>6, <1>8, <1>10, <2>1
      DEF ConsentInv, CarriesConsent, Consented, Loop, sessionVars
    <3> QED
      BY <3>0, <3>2, <3>3, <3>4, <1>10 DEF ConsentInv, sessionVars
  <2> QED
    BY <2>2, <2>3, <2>4, <2>5, <2>6, <2>7 DEF Inv
<1> QED
  BY <1>11, <1>12

(* A run is lost in the middle: only its own record changes.                  *)
LEMMA Lose ==
    ASSUME Inv, NEW r \in Run, PrepareFails(r) \/ CaptureFails(r),
           NEW rec, rec = [loops[r] EXCEPT !.pc = "lost"]
    PROVE  /\ r \in Loop /\ LoopOK(r, rec)
           /\ loops' = [loops EXCEPT ![r] = rec]
           /\ loops'[r] = rec /\ \A k \in Loop : k # r => loops'[k] = loops[k]
           /\ rec.pc = "lost" /\ rec.n = loops[r].n /\ rec.todo = loops[r].todo
           /\ rec.seen = loops[r].seen /\ rec.session = loops[r].session
           /\ loops[r].pc \in {"preparing", "capturing"}
           /\ UNCHANGED <<runVars, dialogVars, sessionVars>>
<1>1. r \in Loop /\ loops \in [Loop -> LoopRecord] /\ LoopOK(r, loops[r])
  BY DEF Loop, Inv, LoopsInv
<1>2. /\ loops' = [loops EXCEPT ![r] = rec]
      /\ loops[r].pc \in {"preparing", "capturing"}
      /\ UNCHANGED <<runVars, dialogVars, sessionVars>>
  BY DEF PrepareFails, CaptureFails
<1>3. rec \in LoopRecord
  BY <1>1 DEF LoopRecord
<1>4. /\ rec.pc = "lost" /\ rec.n = loops[r].n /\ rec.todo = loops[r].todo
      /\ rec.seen = loops[r].seen /\ rec.session = loops[r].session
      /\ rec.asked = loops[r].asked /\ rec.stopped = loops[r].stopped
  BY <1>1 DEF LoopRecord
<1>5. LoopOK(r, rec)
  BY <1>1, <1>2, <1>3, <1>4 DEF LoopOK
<1> QED
  BY <1>1, <1>2, <1>4, <1>5

LEMMA LoseStep == ASSUME Inv, NEW r \in Run, PrepareFails(r) \/ CaptureFails(r) PROVE Inv'
<1>1. PICK rec : rec = [loops[r] EXCEPT !.pc = "lost"]
  OBVIOUS
<1>2. /\ r \in Loop /\ LoopOK(r, rec) /\ loops' = [loops EXCEPT ![r] = rec]
      /\ rec.pc = "lost" /\ rec.n = loops[r].n /\ rec.todo = loops[r].todo
      /\ rec.seen = loops[r].seen /\ rec.session = loops[r].session
      /\ loops[r].pc \in {"preparing", "capturing"}
      /\ UNCHANGED <<runVars, dialogVars, sessionVars>>
  BY <1>1, Lose
<1>3. resuming = "no" => CarriesConsent(r, rec)
  BY <1>2 DEF Inv, ConsentInv, CarriesConsent, Consented
<1>4. /\ activeRun' = activeRun /\ storeRun' = storeRun /\ interrupted' = interrupted
      /\ loopRef' = loopRef /\ queued' = queued /\ resolver' = resolver
      /\ pending' = pending /\ told' = told /\ settled' = settled
  BY <1>2 DEF runVars, dialogVars
<1>5. /\ session' = session /\ rules' = rules /\ granted' = granted /\ strayed' = strayed
      /\ resuming' = resuming
  BY <1>2 DEF sessionVars
<1>6. /\ pending \in Request \cup {NoRequest} /\ loopRef \in Run \cup {NoRun}
      /\ told \subseteq Request /\ settled \subseteq Request
      /\ rec.n >= loops[r].n
  BY <1>2 DEF Inv, RestTyped, LoopsInv, LoopRecord
<1> QED
  BY <1>2, <1>3, <1>4, <1>5, <1>6, LocalStep

-----------------------------------------------------------------------------
LEMMA InitInv == Init => Inv
<1> SUFFICES ASSUME Init PROVE Inv
  OBVIOUS
<1>1. session \in Session /\ 0 \in Session
  BY ToolApprovalConstants DEF Init, Session
<1>2. IdleLoop \in LoopRecord
  BY ToolApprovalConstants DEF IdleLoop, LoopRecord, Session
<1>3. /\ IdleLoop.pc = "idle" /\ IdleLoop.asked = {} /\ IdleLoop.stopped = FALSE
      /\ IdleLoop.todo = {}
  BY DEF IdleLoop
<1>4. loops = [l \in Loop |-> IdleLoop]
  BY DEF Init
<1>5. LoopsInv
  BY <1>2, <1>3, <1>4 DEF LoopsInv, LoopOK
<1>6. RestTyped
  BY <1>1 DEF Init, RestTyped
<1>7. QueueOK /\ ResolverOK /\ ToldOK
  BY DEF Init, QueueOK, ResolverOK, ToldOK
<1>8. \A r \in Run : ~Alive(r) /\ CarriesConsent(r, loops[r])
  BY <1>3, <1>4 DEF Alive, CarriesConsent, Loop
<1>9. ConsentInv
  BY <1>8 DEF Init, ConsentInv
<1> QED
  BY <1>5, <1>6, <1>7, <1>9 DEF Inv

LEMMA EveryStep == Inv /\ [Next]_vars => Inv'
<1> SUFFICES ASSUME Inv, [Next]_vars PROVE Inv'
  OBVIOUS
<1>1. CASE OperatorStep
  BY <1>1, SubmitSteps, CancelStep, SessionSteps, AnswerGiven DEF OperatorStep
<1>2. CASE ResumeStep
  BY <1>2, SessionSteps DEF ResumeStep
<1>3. CASE \E w \in StageLoop : StartStage(w)
  BY <1>3, StageStarts
<1>4. ASSUME NEW l \in Loop, LoopStep(l)
      PROVE  Inv'
  BY <1>4, LoopSteps, ToolsCalled, NextAsked, ToolsStart, ToolRuns DEF LoopStep
<1>5. ASSUME NEW r \in Run, RunStep(r)
      PROVE  Inv'
  <2>1. r \in Loop
    BY DEF Loop
  <2> QED
    BY <2>1, <1>5, LoopSteps, FinishStep, LoseStep DEF RunStep
<1>6. CASE UNCHANGED vars
  <2>1. UNCHANGED <<loops, runVars, dialogVars, sessionVars>>
    BY <1>6 DEF vars
  <2>2. RestTyped' /\ QueueOK' /\ ResolverOK' /\ ToldOK'
    BY <2>1 DEF Inv, RestTyped, QueueOK, ResolverOK, ToldOK, Current, runVars, dialogVars,
                sessionVars
  <2>3. LoopsInv' /\ (resuming' = "no" => ConsentInv')
    BY <2>1 DEF Inv, LoopsInv, ConsentInv, Alive, CarriesConsent, Consented, runVars,
                dialogVars, sessionVars
  <2> QED
    BY <2>2, <2>3 DEF Inv
<1> QED
  BY <1>1, <1>2, <1>3, <1>4, <1>5, <1>6 DEF Next

LEMMA AlwaysInv == Spec => []Inv
  BY InitInv, EveryStep, PTL DEF Spec

(* Every answer finds the loop it is for: the resolve function in the reference *)
(* belongs to the request its loop awaits (requestApproval, resolveApproval),  *)
(* and for a queued prompt a run is left.                                     *)
THEOREM TypeCorrect == Spec => []TypeOK
  BY AlwaysInv, InvIsEnough, PTL

(* Until a session is resumed, a run executes (_executeTools) only calls that    *)
(* the operator was shown and approved as shown, or whose exact signature was   *)
(* so approved for the run's session, or became a rule of it because a stage    *)
(* loop had taken the resolve function (resolveApproval).  No answer given to   *)
(* one call of a run lets another call of a run through.                      *)
THEOREM RunsOnlyWithConsent == Spec => []Consent
  BY AlwaysInv, InvIsEnough, PTL

(* A loop one of whose requests was answered with cancel does not call the     *)
(* model again, whatever the rest of its batch and the other loops do.       *)
THEOREM CancelledLoopStops == Spec => []CancelAnswerStops
  BY AlwaysInv, InvIsEnough, PTL

-----------------------------------------------------------------------------
(***************************************************************************)
(* While no stage loop was started and no session resumed, a run that waits  *)
(* for the operator has the dialog and the resolve function: the safety half *)
(* of EveryRunEnds, whose liveness half is left to TLC.                     *)
(***************************************************************************)
AskedIsShown ==
    ~Disturbed => \A r \in Run : loops[r].pc = "asking" =>
                      resolver = Current(r) /\ pending = Current(r)

(* What a step of the loop l does to it and to the dialog; others stay.        *)
Moved(l) ==
    /\ \A k \in Loop : k # l => loops'[k] = loops[k]
    /\ ~Over(l) /\ loops[l].pc \notin {"idle", "asking"}
    /\ loops'[l].pc \notin {"idle", "preparing"}
    /\ resuming' = resuming
    /\ loopRef' = IF loops[l].pc = "preparing" THEN l ELSE loopRef
    /\ loops[l].killed /\ loops[l].pc # "preparing" =>
          Over(l)' \/ (loops'[l].killed /\ loops'[l].pc # "thinking")
    /\ l \in Run /\ loops'[l].pc = "asking" =>
          resolver' = Current(l)' /\ pending' = Current(l)'

LEMMA EndMoves ==
    ASSUME Inv, NEW l \in Loop, End(l), ~Over(l), loops[l].pc \notin {"idle", "asking"},
           resuming' = resuming, loopRef' = IF loops[l].pc = "preparing" THEN l ELSE loopRef
    PROVE  Moved(l)
<1>1. PICK pc : pc = CASE l \in StageLoop -> "ended"
                        [] l \in Run /\ loops[l].session = session -> "capturing"
                        [] OTHER -> "final"
  OBVIOUS
<1>2. PICK rec : rec = [IdleLoop EXCEPT !.pc = pc]
  OBVIOUS
<1>3. rec.pc = pc
  BY <1>2 DEF IdleLoop
<1>4. loops' = [loops EXCEPT ![l] = rec]
  BY <1>1, <1>2 DEF End
<1>5. loops'[l] = rec /\ \A k \in Loop : k # l => loops'[k] = loops[k]
  BY <1>4 DEF Inv, LoopsInv
<1>6. pc \in {"ended", "capturing", "final"}
  BY <1>1, ToolApprovalConstants DEF Loop
<1> QED
  BY <1>3, <1>5, <1>6 DEF Moved, Over

LEMMA AskMoves ==
    ASSUME Inv, NEW l \in Loop, NEW rec \in LoopRecord, Ask(l, rec),
           rec.n = loops[l].n, loops[l].killed => rec.killed,
           loops[l].pc \in {"thinking", "recording"}, resuming' = resuming,
           loopRef' = loopRef
    PROVE  Moved(l)
<1>1. PICK q : q = Asked(l, rec.n + 1, Head(rec.batch))
  OBVIOUS
<1>2. PICK verdict : verdict = Verdict(rec, q.signature)
  OBVIOUS
<1>3. PICK asked : asked = rec.asked \cup {q}
  OBVIOUS
<1>4. PICK pc : pc = IF verdict = "none" THEN "asking" ELSE "recording"
  OBVIOUS
<1>5. PICK new : new = [rec EXCEPT !.n = q.n, !.asked = asked, !.verdict = verdict, !.pc = pc]
  OBVIOUS
<1>6. /\ loops' = [loops EXCEPT ![l] = new]
      /\ resolver' = IF verdict = "none" THEN q ELSE resolver
      /\ pending' = Displayed(q)
  BY <1>1, <1>2, <1>3, <1>4, <1>5 DEF Ask
<1>7. new.pc = pc /\ new.n = q.n /\ new.batch = rec.batch /\ new.killed = rec.killed
  BY <1>5 DEF LoopRecord
<1>8. loops'[l] = new /\ \A k \in Loop : k # l => loops'[k] = loops[k]
  BY <1>6 DEF Inv, LoopsInv
<1>9. q.loop = l /\ q.n = rec.n + 1 /\ rec.n \in Nat
  BY <1>1 DEF Asked, LoopRecord
<1>10. l \in Run => q \notin told
  BY <1>9 DEF Inv, ToldOK
<1>11. Current(l)' = q
  BY <1>1, <1>7, <1>8, <1>9 DEF Current, Asked
<1> QED
  BY <1>4, <1>6, <1>7, <1>8, <1>9, <1>10, <1>11 DEF Moved, Displayed, Over

LEMMA LoopMoves ==
    ASSUME Inv, NEW l \in Loop,
           LoopStep(l) \/ (l \in Run /\ (BuildLoop(l) \/ AbandonTools(l)))
    PROVE  Moved(l)
<1>0. loops \in [Loop -> LoopRecord] /\ loops[l] \in LoopRecord
  BY DEF Inv, LoopsInv
<1>1. CASE EndReply(l)
  BY <1>1, EndMoves DEF EndReply, sessionVars, runVars, Over
<1>2. ASSUME NEW batch \in Batch, CallTools(l, batch)
      PROVE  Moved(l)
  <2>1. /\ loops[l].pc = "thinking" /\ loops[l].turns < MaxTurns
        /\ resuming' = resuming /\ loopRef' = loopRef
    BY <1>2 DEF CallTools, sessionVars, runVars
  <2>2. PICK turns : turns = loops[l].turns + 1
    OBVIOUS
  <2>3. turns \in 0..MaxTurns /\ batch \in Seq(Signature)
    BY <1>0, <2>1, <2>2, ToolApprovalConstants DEF LoopRecord
  <2>4. PICK rec : rec = [loops[l] EXCEPT !.turns = turns, !.batch = batch, !.asked = {}]
    OBVIOUS
  <2>5. rec \in LoopRecord /\ rec.n = loops[l].n /\ rec.killed = loops[l].killed
    BY <1>0, <2>3, <2>4 DEF LoopRecord
  <2>6. Ask(l, rec)
    BY <1>2, <2>2, <2>4 DEF CallTools
  <2> QED
    BY <2>1, <2>5, <2>6, AskMoves
<1>3. CASE AskNext(l)
  <2>1. loops[l].pc = "recording" /\ resuming' = resuming /\ loopRef' = loopRef
    BY <1>3 DEF AskNext, Recorded, sessionVars, runVars
  <2>2. PICK taken : taken = DecisionTaken(l)
    OBVIOUS
  <2>3. taken \in LoopRecord /\ taken.n = loops[l].n /\ (loops[l].killed => taken.killed)
    BY <2>1, <2>2, DecisionIsGood
  <2> QED
    BY <1>3, <2>1, <2>2, <2>3, AskMoves DEF AskNext
<1>4. CASE StartTools(l)
  <2>1. loops[l].pc = "recording" /\ resuming' = resuming /\ loopRef' = loopRef
    BY <1>4 DEF StartTools, Recorded, sessionVars, runVars
  <2>2. PICK taken : taken = DecisionTaken(l)
    OBVIOUS
  <2>3. taken \in LoopRecord /\ (loops[l].killed => taken.killed)
    BY <2>1, <2>2, DecisionIsGood
  <2>4. PICK rec : rec = [taken EXCEPT !.pc = "running"]
    OBVIOUS
  <2>5. rec.pc = "running" /\ rec.killed = taken.killed
    BY <2>3, <2>4 DEF LoopRecord
  <2>6. loops' = [loops EXCEPT ![l] = rec]
    BY <1>4, <2>2, <2>4 DEF StartTools
  <2> QED
    BY <1>0, <2>1, <2>3, <2>5, <2>6 DEF Moved, Over
<1>5. ASSUME NEW q, RunTool(l, q)
      PROVE  Moved(l)
  <2>1. loops[l].pc = "running" /\ resuming' = resuming /\ loopRef' = loopRef
    BY <1>5 DEF RunTool, sessionVars, runVars
  <2>2. PICK todo : todo = loops[l].todo \ {q}
    OBVIOUS
  <2>3. PICK rec : rec = [loops[l] EXCEPT !.todo = todo]
    OBVIOUS
  <2>4. rec.pc = loops[l].pc /\ rec.killed = loops[l].killed
    BY <1>0, <2>3 DEF LoopRecord
  <2>5. loops' = [loops EXCEPT ![l] = rec]
    BY <1>5, <2>2, <2>3 DEF RunTool
  <2> QED
    BY <1>0, <2>1, <2>4, <2>5 DEF Moved, Over
<1>6. ASSUME loops[l].pc \in {"preparing", "running"}, resuming' = resuming,
             loopRef' = IF loops[l].pc = "preparing" THEN l ELSE loopRef,
             loops[l].pc = "running" => ~loops[l].killed,
             loops' = [loops EXCEPT ![l].pc = "thinking"]
      PROVE  Moved(l)
  <2>1. PICK rec : rec = [loops[l] EXCEPT !.pc = "thinking"]
    OBVIOUS
  <2>2. rec.pc = "thinking"
    BY <1>0, <2>1 DEF LoopRecord
  <2>3. loops' = [loops EXCEPT ![l] = rec]
    BY <1>6, <2>1
  <2> QED
    BY <1>0, <1>6, <2>2, <2>3 DEF Moved, Over
<1>7. CASE EndTurn(l)
  BY <1>6, <1>7, EndMoves DEF EndTurn, sessionVars, runVars, Over
<1>8. CASE BuildLoop(l)
  BY <1>6, <1>8, EndMoves DEF BuildLoop, sessionVars, Over
<1>9. CASE AbandonTools(l)
  BY <1>9, EndMoves DEF AbandonTools, Recorded, sessionVars, runVars, Over
<1> QED
  BY <1>1, <1>2, <1>3, <1>4, <1>5, <1>7, <1>8, <1>9 DEF LoopStep

(* No other loop comes to ask in a step in which none is alive but the run l.   *)
LEMMA NobodyElseAsks ==
    ASSUME Inv, ~Disturbed, NEW l \in Run, Alive(l),
           \A k \in Run : loops'[k].pc = "asking" => k # l /\ loops[k].pc = "asking"
    PROVE  \A k \in Run : loops'[k].pc # "asking"
<1>1. \A k \in Run : Alive(k) => storeRun = k
  BY DEF Inv, ConsentInv, Disturbed
<1> QED
  BY <1>1 DEF Alive

(* Where the dialog is closed, nobody asks.                                   *)
LEMMA ClosedDialog ==
    ASSUME Inv, AskedIsShown, ~Disturbed, pending = NoRequest
    PROVE  \A r \in Run : loops[r].pc # "asking"
<1> SUFFICES ASSUME NEW r \in Run, loops[r].pc = "asking" PROVE FALSE
  OBVIOUS
<1>1. r \in Loop /\ LoopOK(r, loops[r])
  BY DEF Inv, LoopsInv, Loop
<1>2. loops[r].batch # <<>> /\ loops[r].batch \in Seq(Signature) /\ loops[r].n \in Nat
  BY <1>1 DEF LoopOK, LoopRecord
<1>3. Current(r) \in Request
  BY <1>1, <1>2 DEF Current, Asked, Request
<1>4. pending = Current(r)
  BY DEF AskedIsShown
<1> QED
  BY <1>3, <1>4, NoRequestIsNone

LEMMA PromptBegins ==
    ASSUME NEW ls, DOMAIN ls = Loop, StartPromptRun(ls), NEW k \in Loop
    PROVE  \/ loops'[k] = ls[k]
           \/ ls[k] # loops'[k] /\ k = NextRun /\ loops'[k].pc = "preparing"
<1>1. PICK rec : rec = [IdleLoop EXCEPT !.pc = "preparing", !.session = session]
  OBVIOUS
<1>2. rec.pc = "preparing"
  BY <1>1 DEF IdleLoop
<1>3. loops' = [ls EXCEPT ![NextRun] = rec]
  BY <1>1 DEF StartPromptRun
<1> QED
  BY <1>2, <1>3

LEMMA ShownStep == Inv /\ AskedIsShown /\ [Next]_vars => AskedIsShown'
<1> SUFFICES ASSUME Inv, AskedIsShown, [Next]_vars, ~Disturbed'
             PROVE  \A r \in Run : loops'[r].pc = "asking" =>
                        resolver' = Current(r)' /\ pending' = Current(r)'
  BY DEF AskedIsShown
<1>0. /\ loops \in [Loop -> LoopRecord] /\ Run \subseteq Loop /\ StageLoop \subseteq Loop
      /\ Run \cap StageLoop = {}
  BY ToolApprovalConstants DEF Inv, LoopsInv, Loop
<1>1. ASSUME NEW l \in Loop, Moved(l)
      PROVE  \A r \in Run : loops'[r].pc = "asking" =>
                 resolver' = Current(r)' /\ pending' = Current(r)'
  <2>1. l \in Run
    BY <1>0, <1>1 DEF Moved, Disturbed, Loop
  <2>2. ~Disturbed
    BY <1>0, <1>1, <2>1 DEF Moved, Disturbed
  <2>3. Alive(l)
    BY <1>1 DEF Moved, Alive, Over
  <2>4. CASE loops'[l].pc = "asking"
    <3>1. \A r \in Run : Alive(r) => storeRun = r
      BY <2>2 DEF Inv, ConsentInv, Disturbed
    <3>2. \A r \in Run : r # l => loops'[r].pc # "asking"
      BY <1>0, <1>1, <2>1, <2>3, <3>1 DEF Moved, Alive
    <3> QED
      BY <1>1, <2>1, <2>4, <3>2 DEF Moved
  <2>5. CASE loops'[l].pc # "asking"
    <3>1. \A k \in Run : loops'[k].pc = "asking" => k # l /\ loops[k].pc = "asking"
      BY <1>0, <1>1, <2>5 DEF Moved
    <3> QED
      BY <2>1, <2>2, <2>3, <3>1, NobodyElseAsks
  <2> QED
    BY <2>4, <2>5
<1>2. ASSUME NEW l \in Loop, LoopStep(l)
      PROVE  Moved(l)
  BY <1>2, LoopMoves
<1>3. ASSUME NEW r \in Run, BuildLoop(r) \/ AbandonTools(r)
      PROVE  Moved(r) /\ r \in Loop
  BY <1>0, <1>3, LoopMoves
<1>4. ASSUME NEW l \in Run, FinishRun(l)
      PROVE  \A r \in Run : loops'[r].pc # "asking"
  <2>1. Alive(l) /\ resuming' = resuming
    BY <1>4 DEF FinishRun, Alive, sessionVars
  <2>2. PICK ended : ended = [loops EXCEPT ![l].pc = "ended"]
    OBVIOUS
  <2>3. PICK rec : rec = [loops[l] EXCEPT !.pc = "ended"]
    OBVIOUS
  <2>4. rec.pc = "ended"
    BY <1>0, <2>3 DEF LoopRecord
  <2>5. /\ DOMAIN ended = Loop /\ ended[l] = rec
        /\ \A k \in Loop : k # l => ended[k] = loops[k]
    BY <1>0, <2>2, <2>3
  <2>6. loops' = ended \/ StartPromptRun(ended)
    BY <1>4, <2>2 DEF FinishRun
  <2>7. \A k \in Loop : loops'[k] = ended[k] \/ (ended[k] # loops'[k] /\ k = NextRun /\ loops'[k].pc = "preparing")
    BY <2>5, <2>6, PromptBegins
  <2>8. \A k \in Run : loops'[k].pc = "asking" => k # l /\ loops[k].pc = "asking"
    BY <1>0, <2>4, <2>5, <2>7
  <2>9. \A w \in StageLoop : w # l /\ loops[w].pc # "idle" => loops'[w].pc # "idle"
    BY <1>0, <2>5, <2>7
  <2>10. ~Disturbed
    BY <1>0, <2>1, <2>9 DEF Disturbed
  <2> QED
    BY <2>1, <2>8, <2>10, NobodyElseAsks
<1>5. CASE Submit
  <2>1. \A k \in Loop : loops'[k] = loops[k] \/ loops'[k].pc = "preparing"
    BY <1>0, <1>5, PromptBegins DEF Submit
  <2>2. resuming' = resuming /\ pending = NoRequest
    BY <1>5 DEF Submit, Typing, sessionVars
  <2>3. ~Disturbed
    BY <1>0, <2>1, <2>2 DEF Disturbed
  <2> QED
    BY <1>0, <2>1, <2>2, <2>3, ClosedDialog
<1>6. CASE SubmitQueued \/ UNCHANGED vars
  <2>1. UNCHANGED <<loops, pending, resolver, resuming>>
    BY <1>6 DEF SubmitQueued, vars, dialogVars, sessionVars
  <2>2. ~Disturbed
    BY <2>1 DEF Disturbed
  <2> QED
    BY <2>1, <2>2 DEF AskedIsShown, Current
<1>7. CASE Cancel \/ ResetSession
  <2>1. loops' = Killed(loops) /\ resuming' = resuming /\ pending = NoRequest
    BY <1>7 DEF Cancel, ResetSession, Resting, Typing, sessionVars
  <2>2. \A l \in Loop : loops'[l].pc = loops[l].pc
    BY <2>1, KilledIsGood
  <2>3. ~Disturbed
    BY <1>0, <2>1, <2>2 DEF Disturbed
  <2> QED
    BY <1>0, <2>1, <2>2, <2>3, ClosedDialog
<1>8. CASE ResumeBegin \/ ResumeStep
  BY <1>8 DEF ResumeBegin, ResumeStep, ResumeSwitch, ResumeEnd, Disturbed
<1>9. ASSUME NEW scope \in Scope, Answer(scope)
      PROVE  \A r \in Run : loops'[r].pc # "asking"
  <2>1. resolver # NoRequest /\ resuming' = resuming
    BY <1>9 DEF Answer
  <2>2. PICK l \in Loop : l = resolver.loop
    BY <2>1, ResolversLoop
  <2>3. PICK rec : /\ loops' = [loops EXCEPT ![l] = rec]
                   /\ rec = [loops[l] EXCEPT
                        !.pc = "recording",
                        !.verdict = IF scope \in {"once", "session"} THEN "yes" ELSE scope,
                        !.seen = IF scope \in {"once", "session"} /\ pending = resolver
                                 THEN @ \cup {pending} ELSE @,
                        !.stopped = @ \/ scope = "cancel"]
    BY <1>9, <2>2 DEF Answer
  <2>4. rec.pc = "recording"
    BY <1>0, <2>3 DEF LoopRecord
  <2>5. loops'[l] = rec /\ \A k \in Loop : k # l => loops'[k] = loops[k]
    BY <1>0, <2>3
  <2>6. ~Disturbed
    <3>1. loops[l].pc = "asking"
      BY <2>1, <2>2 DEF Inv, ResolverOK
    <3> QED
      BY <1>0, <2>1, <2>4, <2>5, <3>1 DEF Disturbed
  <2>7. SUFFICES ASSUME NEW r \in Run, r # l, loops[r].pc = "asking" PROVE FALSE
    BY <1>0, <2>4, <2>5
  <2>8. resolver = Current(r)
    BY <2>6, <2>7 DEF AskedIsShown
  <2> QED
    BY <2>2, <2>7, <2>8 DEF Current, Asked
<1>10. ASSUME NEW w \in StageLoop, StartStage(w)
       PROVE  FALSE
  <2>1. PICK rec : rec = [IdleLoop EXCEPT !.pc = "thinking", !.session = session]
    OBVIOUS
  <2>2. rec.pc = "thinking"
    BY <2>1 DEF IdleLoop
  <2>3. loops' = [loops EXCEPT ![w] = rec]
    BY <1>10, <2>1 DEF StartStage
  <2> QED
    BY <1>0, <2>2, <2>3 DEF Disturbed
<1>11. ASSUME NEW l \in Run, PrepareFails(l) \/ CaptureFails(l)
       PROVE  \A r \in Run : loops'[r].pc # "asking"
  <2>1. PICK rec : rec = [loops[l] EXCEPT !.pc = "lost"]
    OBVIOUS
  <2>2. /\ loops'[l] = rec /\ rec.pc = "lost"
        /\ \A k \in Loop : k # l => loops'[k] = loops[k]
        /\ loops[l].pc \in {"preparing", "capturing"}
        /\ UNCHANGED sessionVars
    BY <1>11, <2>1, Lose
  <2>3. Alive(l)
    BY <2>2 DEF Alive
  <2>4. ~Disturbed
    BY <1>0, <2>2 DEF Disturbed, sessionVars
  <2>5. \A k \in Run : loops'[k].pc = "asking" => k # l /\ loops[k].pc = "asking"
    BY <1>0, <2>2
  <2> QED
    BY <2>3, <2>4, <2>5, NobodyElseAsks
<1> QED
  BY <1>1, <1>2, <1>3, <1>4, <1>5, <1>6, <1>7, <1>8, <1>9, <1>10, <1>11
     DEF Next, OperatorStep, RunStep

(* Unless a stage loop or a resumed session disturbs it, a run that waits for the *)
(* operator (requestApproval) is the one on display, and the resolve function  *)
(* is its: no request waits unseen, and no answer goes to another one.        *)
THEOREM NoRequestWaitsUnseen == Spec => []AskedIsShown
<1>1. Init => AskedIsShown
  BY DEF Init, AskedIsShown, IdleLoop, Loop
<1> QED
  BY <1>1, AlwaysInv, ShownStep, PTL DEF Spec

-----------------------------------------------------------------------------
(***************************************************************************)
(* Which cancellations are heard: those that come once the loop is built.      *)
(* Before that no reference holds it yet, and the cancellation is forgotten.  *)
(***************************************************************************)
(* The reference holds the one loop that was built; no loop is killed before.  *)
KillInv ==
    /\ \A l \in Loop :
          /\ loops[l].pc \in {"idle", "preparing"} => ~loops[l].killed /\ loopRef # l
          /\ loops[l].pc = "preparing" => l \in Run
    /\ resuming = "no" => \A r \in Run : Built(r) => loopRef = r

LEMMA KilledStays ==
    ASSUME Inv, KillInv, loops' = Killed(loops), loopRef' = loopRef,
           resuming' = "no" => resuming = "no"
    PROVE  KillInv' /\ (\A l \in Loop : StopsOn(l))
           /\ (loopRef \in Loop => loops'[loopRef].killed)
<1>1. \A l \in Loop : loops'[l].pc = loops[l].pc
  BY KilledIsGood
<1>2. ASSUME NEW l \in Loop
      PROVE  /\ l # loopRef => loops'[l] = loops[l]
             /\ l = loopRef => loops'[l].killed = TRUE
  <2>1. loops[l] \in LoopRecord
    BY DEF Inv, LoopsInv
  <2>2. PICK rec : rec = [loops[l] EXCEPT !.killed = TRUE]
    OBVIOUS
  <2>3. rec.killed = TRUE
    BY <2>1, <2>2 DEF LoopRecord
  <2> QED
    BY <2>2, <2>3 DEF Killed
<1> QED
  BY <1>1, <1>2 DEF KillInv, StopsOn, Stopping, Over, Built, Loop

(* One loop takes a step, or none does.                                      *)
LEMMA LoopStays ==
    ASSUME Inv, KillInv, NEW l \in Loop,
           Moved(l) \/ (/\ \A k \in Loop : k # l => loops'[k] = loops[k]
                        /\ loops[l].pc = "asking" /\ loops'[l].pc = "recording"
                        /\ loops'[l].killed = loops[l].killed
                        /\ UNCHANGED <<loopRef, resuming>>)
    PROVE  KillInv' /\ \A k \in Loop : StopsOn(k)
<1>1. CASE Moved(l)
  <2>1. \A k \in Loop : k # l => loops'[k] = loops[k]
    BY <1>1 DEF Moved
  <2>2. ASSUME NEW k \in Loop
        PROVE  StopsOn(k)
    <3>1. CASE k = l
      BY <1>1, <3>1 DEF Moved, KillInv, StopsOn, Stopping, Over
    <3>2. CASE k # l
      BY <2>1, <2>2, <3>2 DEF StopsOn, Stopping, Over
    <3> QED
      BY <3>1, <3>2
  <2>3. ASSUME NEW k \in Loop, loops'[k].pc \in {"idle", "preparing"}
        PROVE  ~loops'[k].killed /\ loopRef' # k /\ (loops'[k].pc = "preparing" => k \in Run)
    BY <1>1, <2>1, <2>3 DEF Moved, KillInv
  <2>4. ASSUME resuming' = "no", NEW r \in Run, Built(r)'
        PROVE  loopRef' = r
    <3>1. resuming = "no" /\ r \in Loop
      BY <1>1, <2>4 DEF Moved, Loop
    <3>2. \A k \in Run : Alive(k) => storeRun = k
      BY <3>1 DEF Inv, ConsentInv
    <3>3. CASE r = l
      BY <1>1, <3>1, <3>3 DEF Moved, KillInv, Built, Over
    <3>4. CASE r # l
      <4>1. Built(r) /\ Alive(r)
        BY <2>1, <2>4, <3>1, <3>4 DEF Built, Alive
      <4>2. loops[l].pc # "preparing"
        BY <1>1, <3>2, <3>4, <4>1 DEF Moved, KillInv, Alive, Over
      <4> QED
        BY <1>1, <3>1, <4>1, <4>2 DEF Moved, KillInv
    <3> QED
      BY <3>3, <3>4
  <2> QED
    BY <2>2, <2>3, <2>4 DEF KillInv
<1>2. CASE /\ \A k \in Loop : k # l => loops'[k] = loops[k]
           /\ loops[l].pc = "asking" /\ loops'[l].pc = "recording"
           /\ loops'[l].killed = loops[l].killed
           /\ UNCHANGED <<loopRef, resuming>>
  BY <1>2 DEF KillInv, StopsOn, Stopping, Over, Built, Loop
<1> QED
  BY <1>1, <1>2

(* A prompt starts a run that was idle, when the reference is empty and, unless a *)
(* session was resumed, no other run is alive.                                *)
LEMMA PromptStays ==
    ASSUME Inv, KillInv, NEW ls \in [Loop -> LoopRecord], loopRef' = NoRun, resuming' = resuming,
           loops' = ls \/ (StartPromptRun(ls) /\ NextRun \in Unstarted),
           NEW old, old # NoRun => /\ old \in Loop /\ ls[old].pc = "ended"
                                  /\ loops[old].pc \in {"capturing", "final"},
           \A l \in Loop : l # old => ls[l] = loops[l],
           resuming = "no" => \A r \in Run : Built(r) => r = old
    PROVE  KillInv' /\ \A l \in Loop : StopsOn(l)
<1>0. NoRun \notin Loop /\ Run \subseteq Loop
  BY ToolApprovalConstants DEF Loop
<1>1. PICK rec : rec = [IdleLoop EXCEPT !.pc = "preparing", !.session = session]
  OBVIOUS
<1>2. rec.pc = "preparing" /\ rec.killed = FALSE
  BY <1>1 DEF IdleLoop
<1>3. ASSUME NEW l \in Loop
      PROVE  \/ loops'[l] = ls[l]
             \/ loops'[l] = rec /\ l \in Run /\ loops[l].pc = "idle"
  BY <1>1, <1>3 DEF StartPromptRun, Unstarted
<1>4. \A l \in Loop : StopsOn(l)
  <2> SUFFICES ASSUME NEW l \in Loop, Stopping(l)
               PROVE  Stopping(l)' /\ (loops[l].pc # "thinking" => loops'[l].pc # "thinking")
    BY DEF StopsOn
  <2>1. loops'[l] = ls[l]
    BY <1>3 DEF KillInv, Stopping, Over
  <2> QED
    BY <1>0, <2>1 DEF Stopping, Over
<1>5. ASSUME NEW l \in Loop, loops'[l].pc \in {"idle", "preparing"}
      PROVE  ~loops'[l].killed /\ loopRef' # l /\ (loops'[l].pc = "preparing" => l \in Run)
  BY <1>0, <1>2, <1>3, <1>5 DEF KillInv
<1>6. ASSUME resuming' = "no", NEW r \in Run, Built(r)'
      PROVE  FALSE
  <2>1. r \in Loop /\ loops'[r] = ls[r]
    BY <1>0, <1>2, <1>3, <1>6 DEF Built
  <2>2. r # old
    BY <1>0, <1>6, <2>1 DEF Built
  <2> QED
    BY <1>6, <2>1, <2>2 DEF Built
<1> QED
  BY <1>4, <1>5, <1>6 DEF KillInv

LEMMA CancelHeardOnceBuilt ==
    ASSUME Inv, KillInv, Cancel, resuming = "no", NEW r \in Run, Built(r)
    PROVE  Stopping(r)'
<1>1. loops' = Killed(loops) /\ loopRef' = loopRef /\ resuming' = resuming
  BY DEF Cancel, sessionVars
<1>2. loopRef = r /\ r \in Loop
  BY DEF KillInv, Loop
<1> QED
  BY <1>1, <1>2, KilledStays DEF Stopping

LEMMA KillStep ==
    ASSUME Inv, KillInv, [Next]_vars
    PROVE  KillInv' /\ \A l \in Loop : StopsOn(l)
<1>0. /\ loops \in [Loop -> LoopRecord] /\ Run \subseteq Loop /\ StageLoop \subseteq Loop
      /\ NoRun \notin Loop /\ StageLoop \cap Run = {}
  BY ToolApprovalConstants DEF Inv, LoopsInv, Loop
<1>1. ASSUME NEW l \in Loop, LoopStep(l) \/ (l \in Run /\ (BuildLoop(l) \/ AbandonTools(l)))
      PROVE  KillInv' /\ \A k \in Loop : StopsOn(k)
  BY <1>1, LoopMoves, LoopStays
<1>2. CASE Cancel \/ ResetSession \/ ResumeSwitch
  <2>1. loops' = Killed(loops) /\ loopRef' = loopRef /\ (resuming' = "no" => resuming = "no")
    BY <1>2 DEF Cancel, ResetSession, ResumeSwitch, sessionVars
  <2> QED
    BY <2>1, KilledStays
<1>3. CASE SubmitQueued \/ ResumeBegin \/ ResumeEnd \/ UNCHANGED vars
  <2>1. loops' = loops /\ loopRef' = loopRef /\ (resuming' = "no" => resuming = "no")
    BY <1>3 DEF SubmitQueued, ResumeBegin, ResumeEnd, vars, runVars, sessionVars
  <2> QED
    BY <2>1 DEF KillInv, StopsOn, Stopping, Over, Built
<1>4. CASE Submit
  <2>1. /\ loopRef = NoRun /\ loopRef' = NoRun /\ resuming' = resuming
        /\ StartPromptRun(loops) /\ Spare
    BY <1>4 DEF Submit, Busy, sessionVars
  <2>2. NextRun \in Unstarted
    BY <2>1, UnstartedRuns DEF Spare
  <2>3. resuming = "no" => \A r \in Run : ~Built(r)
    BY <1>0, <2>1 DEF KillInv
  <2> QED
    BY <1>0, <2>1, <2>2, <2>3, PromptStays
<1>5. ASSUME NEW r \in Run, FinishRun(r)
      PROVE  KillInv' /\ \A l \in Loop : StopsOn(l)
  <2>1. /\ loops[r].pc \in {"capturing", "final"} /\ r \in Loop
        /\ loopRef' = NoRun /\ resuming' = resuming
    BY <1>0, <1>5 DEF FinishRun, sessionVars
  <2>2. PICK ended : ended = [loops EXCEPT ![r].pc = "ended"]
    OBVIOUS
  <2>3. PICK rec : rec = [loops[r] EXCEPT !.pc = "ended"]
    OBVIOUS
  <2>4. rec.pc = "ended" /\ rec \in LoopRecord
    BY <1>0, <2>1, <2>3 DEF LoopRecord
  <2>5. /\ ended \in [Loop -> LoopRecord] /\ ended[r] = rec
        /\ \A k \in Loop : k # r => ended[k] = loops[k]
    BY <1>0, <2>1, <2>2, <2>3, <2>4
  <2>6. loops' = ended \/ (StartPromptRun(ended) /\ queued)
    BY <1>5, <2>2 DEF FinishRun
  <2>7. queued => NextRun \in Unstarted
    BY DEF Inv, QueueOK, NextRun, Unstarted
  <2>8. resuming = "no" => \A k \in Run : Built(k) => k = r
    BY <2>1 DEF KillInv, Built
  <2> QED
    BY <1>0, <2>1, <2>4, <2>5, <2>6, <2>7, <2>8, PromptStays
<1>6. ASSUME NEW scope \in Scope, Answer(scope)
      PROVE  KillInv' /\ \A l \in Loop : StopsOn(l)
  <2>1. resolver # NoRequest /\ UNCHANGED <<loopRef, resuming>>
    BY <1>6 DEF Answer, runVars
  <2>2. PICK l \in Loop : l = resolver.loop
    BY <2>1, ResolversLoop
  <2>3. PICK rec : /\ loops' = [loops EXCEPT ![l] = rec]
                   /\ rec = [loops[l] EXCEPT
                        !.pc = "recording",
                        !.verdict = IF scope \in {"once", "session"} THEN "yes" ELSE scope,
                        !.seen = IF scope \in {"once", "session"} /\ pending = resolver
                                 THEN @ \cup {pending} ELSE @,
                        !.stopped = @ \/ scope = "cancel"]
    BY <1>6, <2>2 DEF Answer
  <2>4. rec.pc = "recording" /\ rec.killed = loops[l].killed
    BY <1>0, <2>3 DEF LoopRecord
  <2>5. loops'[l] = rec /\ \A k \in Loop : k # l => loops'[k] = loops[k]
    BY <1>0, <2>3
  <2>6. loops[l].pc = "asking"
    BY <2>1, <2>2 DEF Inv, ResolverOK
  <2> QED
    BY <2>1, <2>4, <2>5, <2>6, LoopStays
<1>7. ASSUME NEW w \in StageLoop, StartStage(w)
      PROVE  KillInv' /\ \A l \in Loop : StopsOn(l)
  <2>1. PICK rec : rec = [IdleLoop EXCEPT !.pc = "thinking", !.session = session]
    OBVIOUS
  <2>2. rec.pc = "thinking"
    BY <2>1 DEF IdleLoop
  <2>3. loops' = [loops EXCEPT ![w] = rec] /\ loops[w].pc = "idle"
    BY <1>7, <2>1 DEF StartStage
  <2>4. loops'[w] = rec /\ \A k \in Loop : k # w => loops'[k] = loops[k]
    BY <1>0, <2>3
  <2>5. loopRef' = loopRef /\ resuming' = resuming
    BY <1>7 DEF StartStage, runVars, sessionVars
  <2>6. ~Stopping(w)
    BY <1>0, <2>3 DEF KillInv, Stopping, Over
  <2>7. \A l \in Loop : StopsOn(l)
    BY <2>4, <2>6 DEF StopsOn, Stopping, Over
  <2> QED
    BY <1>0, <2>2, <2>4, <2>5, <2>7 DEF KillInv, Built
<1>8. ASSUME NEW r \in Run, PrepareFails(r) \/ CaptureFails(r)
      PROVE  KillInv' /\ \A l \in Loop : StopsOn(l)
  <2>1. PICK rec : rec = [loops[r] EXCEPT !.pc = "lost"]
    OBVIOUS
  <2>2. /\ loops'[r] = rec /\ rec.pc = "lost"
        /\ \A k \in Loop : k # r => loops'[k] = loops[k]
        /\ loops[r].pc \in {"preparing", "capturing"}
        /\ UNCHANGED <<runVars, sessionVars>>
    BY <1>8, <2>1, Lose
  <2>3. loopRef' = loopRef /\ resuming' = resuming
    BY <2>2 DEF runVars, sessionVars
  <2>4. \A l \in Loop : StopsOn(l)
    BY <2>2 DEF StopsOn, Stopping, Over
  <2> QED
    BY <1>0, <2>2, <2>3, <2>4 DEF KillInv, Built
<1> QED
  BY <1>0, <1>1, <1>2, <1>3, <1>4, <1>5, <1>6, <1>7, <1>8
     DEF Next, OperatorStep, ResumeStep, RunStep

(* Whether by cancel, by a session cleared or by an answer: a loop told to stop   *)
(* ends without another call of the model, and until a session is resumed a    *)
(* cancellation (killLoop) tells every run whose loop was built by then.       *)
THEOREM BuiltLoopsHearCancel == Spec => StopsForGood
<1>1. Init => KillInv
  <2> SUFFICES ASSUME Init PROVE KillInv
    OBVIOUS
  <2>1. IdleLoop.pc = "idle" /\ IdleLoop.killed = FALSE
    BY DEF IdleLoop
  <2> QED
    BY <2>1, ToolApprovalConstants DEF Init, KillInv, Built, Loop
<1>2. Inv /\ KillInv /\ [Next]_vars =>
        /\ KillInv'
        /\ [/\ \A l \in Loop : StopsOn(l)
            /\ Cancel /\ resuming = "no" => \A r \in Run : Built(r) => Stopping(r)']_vars
  BY KillStep, CancelHeardOnceBuilt
<1> QED
  BY <1>1, <1>2, AlwaysInv, PTL DEF Spec, StopsForGood

-----------------------------------------------------------------------------
(* While a lost run is the store's, nothing starts: the prompt is queued, and    *)
(* the commands that would clear or resume a session are refused.             *)
LEMMA NothingAfterLost ==
    ASSUME Inv, Lost, resuming = "no", [Next]_vars
    PROVE  resuming' = "no" /\ \A r \in Run : loops'[r].pc = loops[r].pc
<1>0. /\ Run \subseteq Loop /\ NoRun \notin Run /\ ConsentInv
      /\ StageLoop \cap Run = {} /\ loops \in [Loop -> LoopRecord]
  BY ToolApprovalConstants DEF Loop, Inv, LoopsInv
<1>1. PICK lost \in Run : loops[lost].pc = "lost"
  BY DEF Lost
<1>2. storeRun = lost /\ storeRun # NoRun
  BY <1>0, <1>1 DEF ConsentInv, Alive
<1>3. \A r \in Run : loops[r].pc \in {"idle", "ended", "lost"}
  BY <1>0, <1>1, <1>2 DEF ConsentInv, Alive
<1>4. CASE Submit \/ ResetSession \/ ResumeBegin
  BY <1>2, <1>4 DEF Submit, Busy, ResetSession, ResumeBegin, Resting
<1>5. CASE SubmitQueued \/ UNCHANGED vars
  BY <1>5 DEF SubmitQueued, vars, sessionVars
<1>6. CASE Cancel
  <2>1. loops' = Killed(loops) /\ resuming' = resuming
    BY <1>6 DEF Cancel, sessionVars
  <2> QED
    BY <1>0, <2>1, KilledIsGood
<1>7. CASE ResumeStep
  BY <1>7 DEF ResumeStep, ResumeSwitch, ResumeEnd
<1>8. ASSUME NEW scope \in Scope, Answer(scope)
      PROVE  resuming' = "no" /\ \A r \in Run : loops'[r].pc = loops[r].pc
  <2>1. resolver # NoRequest /\ resuming' = resuming
    BY <1>8 DEF Answer
  <2>2. loops[resolver.loop].pc = "asking"
    BY <2>1 DEF Inv, ResolverOK
  <2>3. \A r \in Run : r # resolver.loop
    BY <1>3, <2>2
  <2>4. \A k \in Loop : k # resolver.loop => loops'[k] = loops[k]
    BY <1>0, <1>8 DEF Answer
  <2> QED
    BY <1>0, <2>1, <2>3, <2>4
<1>9. ASSUME NEW w \in StageLoop, StartStage(w)
      PROVE  resuming' = "no" /\ \A r \in Run : loops'[r].pc = loops[r].pc
  <2>1. resuming' = resuming /\ \A k \in Loop : k # w => loops'[k] = loops[k]
    BY <1>0, <1>9 DEF StartStage, sessionVars
  <2> QED
    BY <1>0, <2>1
<1>10. ASSUME NEW l \in Loop, LoopStep(l)
       PROVE  resuming' = "no" /\ \A r \in Run : loops'[r].pc = loops[r].pc
  <2>1. Moved(l)
    BY <1>10, LoopMoves
  <2>2. l \notin Run
    BY <1>3, <2>1 DEF Moved, Over
  <2> QED
    BY <1>0, <2>1, <2>2 DEF Moved
<1>11. ASSUME NEW r \in Run, RunStep(r)
       PROVE  FALSE
  <2>1. loops[r].pc \in {"preparing", "recording", "capturing", "final"}
    BY <1>11 DEF RunStep, BuildLoop, AbandonTools, Recorded, FinishRun, PrepareFails, CaptureFails
  <2> QED
    BY <1>3, <2>1
<1> QED
  BY <1>4, <1>5, <1>6, <1>7, <1>8, <1>9, <1>10, <1>11 DEF Next, OperatorStep

(* A run whose preparation or whose last capture is rejected (startPromptRun)    *)
(* blocks the console: no prompt is run after it, and no session is resumed.  *)
THEOREM LostBlocks == Spec => LostForGood
<1>1. Inv /\ [Next]_vars =>
        [Lost /\ resuming = "no" =>
            resuming' = "no" /\ \A r \in Run : loops'[r].pc = loops[r].pc]_vars
  BY NothingAfterLost
<1> QED
  BY <1>1, AlwaysInv, PTL DEF Spec, LostForGood
=============================================================================
