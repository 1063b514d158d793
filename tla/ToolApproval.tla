---------------------------- MODULE ToolApproval ----------------------------
(***************************************************************************)
(* The approval of tool calls in the terminal console: prompts the operator *)
(* submits (src/ui/use-colony-loop.ts), the agent loop that works on each   *)
(* (src/runtime/loop.ts), the approval of the tool calls the model asks for *)
(* (src/runtime/approval.ts) and the one dialog, kept in the store and in a *)
(* reference to one resolve function, through which the operator answers.   *)
(*                                                                         *)
(* A run is one prompt with its loop, iterated by runStreaming.  A stage   *)
(* loop is one of a swarm stage: it shares the resolver and the session's   *)
(* rules, but shows nothing.  Between two awaits a loop runs alone.         *)
(*                                                                         *)
(* What the model and the tools say is left out, and so are timeouts,       *)
(* compaction, hooks and the security policy's AUDIT verdict, which no      *)
(* caste of the console gets.                                              *)
(***************************************************************************)
EXTENDS Integers, Sequences, FiniteSets

CONSTANTS
    NRuns,          \* bound: prompts that are run
    StageLoop,      \* loops of swarm stages
    Signature,      \* tool name and arguments of a call
    Refused,        \* signatures a policy denies before any prompt
    Batch,          \* the tool calls one reply may ask for, as sequences
    MaxTurns,       \* bound: replies with tool calls per loop
    MaxSessions,    \* bound: sessions cleared or resumed
    NoRun, NoRequest

Run == 1..NRuns
Loop == Run \cup StageLoop
Session == 0..MaxSessions

ASSUME ToolApprovalConstants ==
    /\ NRuns \in Nat /\ MaxTurns \in Nat /\ MaxSessions \in Nat
    /\ Refused \subseteq Signature
    /\ Batch \subseteq Seq(Signature) \ {<<>>}
    /\ StageLoop \cap Run = {}
    /\ NoRun \notin Loop

(* ApprovalRequest: a loop's n-th request and the signature of its call *)
Request == [loop : Loop, n : Nat, signature : Signature]

ASSUME NoRequestIsNone == NoRequest \notin Request

VARIABLES
    loops,          \* the agent loops
    activeRun,      \* activeRunIdRef
    storeRun,       \* the store's activeRunId
    interrupted,    \* the store's interruptRequested
    loopRef,        \* the loop that a cancellation would kill
    queued,         \* the queue's single prompt is there
    pending,        \* the store's pendingApproval: the request on display
    resolver,       \* approvalResolverRef: the request it resolves
    told, settled,  \* ids of the events already handled
    session,        \* the current runtime
    rules,          \* session -> its ExactSessionApprovalPolicy
    resuming,       \* where resumeSession is
    granted,        \* history: session -> signatures approved for it as shown
    strayed         \* history: session -> signatures approved for it by an answer
                    \* that was meant for another request and went to a stage loop's

dialogVars == <<pending, resolver, told, settled>>
sessionVars == <<session, rules, resuming, granted, strayed>>
runVars == <<activeRun, storeRun, interrupted, loopRef, queued>>
vars == <<loops, runVars, dialogVars, sessionVars>>

(* seen and stopped are history: the requests whose approval the operator gave *)
(* to what was on display, and whether an answer cancelled the loop's run.    *)
IdleLoop == [pc |-> "idle", session |-> 0, turns |-> 0, n |-> 0, batch |-> <<>>,
             asked |-> {}, verdict |-> "none", todo |-> {}, killed |-> FALSE,
             seen |-> {}, stopped |-> FALSE]

Init ==
    /\ loops = [l \in Loop |-> IdleLoop]
    /\ activeRun = NoRun /\ storeRun = NoRun /\ interrupted = FALSE
    /\ loopRef = NoRun /\ queued = FALSE
    /\ pending = NoRequest /\ resolver = NoRequest
    /\ told = {} /\ settled = {}
    /\ session = 0
    /\ rules = [s \in Session |-> {}]
    /\ granted = [s \in Session |-> {}]
    /\ strayed = [s \in Session |-> {}]
    /\ resuming = "no"

(* No finally block is in the middle of its synchronous part. *)
Quiet == \A l \in Loop : loops[l].pc # "final"

(* The consumer of the run's events finds that it is not the run any more. *)
Stale(l) == l \in Run /\ activeRun # l /\ storeRun # l

-----------------------------------------------------------------------------
(* Prompts. *)

Unstarted == {r \in Run : loops[r].pc = "idle"}

NextRun == CHOOSE r \in Unstarted : TRUE

(* startPromptRun up to the await of the memory context *)
StartPromptRun(ls) ==
    /\ loops' = [ls EXCEPT ![NextRun] = [IdleLoop EXCEPT !.pc = "preparing", !.session = session]]
    /\ activeRun' = NextRun /\ storeRun' = NextRun
    /\ interrupted' = FALSE
    /\ told' = {} /\ settled' = {}

(* Bound: a run is left for the prompt, and for the queued one. *)
Spare == Cardinality(Unstarted) > IF queued THEN 1 ELSE 0

Busy == interrupted \/ storeRun # NoRun \/ loopRef # NoRun

(* Text is not accepted while a request is on display. *)
Typing == Quiet /\ pending = NoRequest

Submit ==
    /\ Typing
    /\ ~Busy /\ Spare
    /\ StartPromptRun(loops)
    /\ UNCHANGED <<loopRef, queued, pending, resolver, sessionVars>>

SubmitQueued ==
    /\ Typing
    /\ Busy /\ ~queued /\ Spare
    /\ queued' = TRUE
    /\ UNCHANGED <<loops, activeRun, storeRun, interrupted, loopRef, dialogVars,
                   sessionVars>>

Killed(ls) == [l \in Loop |-> IF l = loopRef THEN [ls[l] EXCEPT !.killed = TRUE] ELSE ls[l]]

(* cancel: with no request on display resolveApproval does nothing. *)
Cancel ==
    /\ Typing
    /\ storeRun # NoRun /\ ~interrupted
    /\ interrupted' = TRUE
    /\ loops' = Killed(loops)
    /\ told' = {} /\ settled' = {}
    /\ UNCHANGED <<activeRun, storeRun, loopRef, queued, pending, resolver, sessionVars>>

-----------------------------------------------------------------------------
(* Sessions.  Both commands are refused while a run is active. *)

Resting == Typing /\ storeRun = NoRun /\ ~interrupted

(* A session's policy dies with its runtime. *)
ClearedRules == [rules EXCEPT ![session + 1] = {}]

ResetSession ==
    /\ Resting
    /\ session < MaxSessions
    /\ loops' = Killed(loops)
    /\ session' = session + 1
    /\ rules' = ClearedRules
    /\ resolver' = NoRequest
    /\ told' = {} /\ settled' = {}
    /\ queued' = FALSE
    /\ activeRun' = NoRun
    /\ UNCHANGED <<storeRun, interrupted, loopRef, pending, resuming, granted, strayed>>

(* resumeSession: the snapshot is loaded, ... *)
ResumeBegin ==
    /\ Resting
    /\ resuming \in {"no", "done"} /\ session < MaxSessions
    /\ resuming' = "loading"
    /\ UNCHANGED <<loops, runVars, dialogVars, session, rules, granted, strayed>>

(* ... the runtime is replaced with the rules of a session saved earlier, ... *)
ResumeSwitch ==
    /\ Quiet
    /\ resuming = "loading" /\ session < MaxSessions
    /\ resuming' = "syncing"
    /\ loops' = Killed(loops)
    /\ resolver' = NoRequest
    /\ told' = {} /\ settled' = {}
    /\ activeRun' = NoRun
    /\ queued' = FALSE
    /\ session' = session + 1
    /\ \E s \in 0..session : \E saved \in SUBSET rules[s] :
          /\ rules' = [rules EXCEPT ![session + 1] = saved]
          /\ granted' = [granted EXCEPT ![session + 1] = granted[s]]
          /\ strayed' = [strayed EXCEPT ![session + 1] = strayed[s]]
    /\ UNCHANGED <<storeRun, interrupted, loopRef, pending>>

(* ... and when the memory is in step the store is overwritten. *)
ResumeEnd ==
    /\ Quiet
    /\ resuming = "syncing"
    /\ resuming' = "done"
    /\ storeRun' = NoRun /\ interrupted' = FALSE
    /\ pending' = NoRequest
    /\ UNCHANGED <<loops, activeRun, loopRef, queued, resolver, told, settled, session,
                   rules, granted, strayed>>

-----------------------------------------------------------------------------
(* The loop of a run or of a stage. *)

Asked(l, n, signature) == [loop |-> l, n |-> n, signature |-> signature]

(* The request whose approval the loop awaits *)
Current(l) == Asked(l, loops[l].n, Head(loops[l].batch))

(* The slips below are each caught by a property at the end. *)

(* The rules outlive the session they were given in. *)
VerdictOfAnySession(rec, signature) ==
    CASE signature \in Refused -> "deny"
      [] signature \in UNION {rules[s] : s \in Session} \ Refused -> "yes"
      [] OTHER -> "none"

(* The dialog tells requests apart by what they ask, not by their id. *)
DisplayedOncePerCall(q) ==
    IF q.loop \in Run /\ \A t \in told : t.signature # q.signature THEN q ELSE pending

(* The resolve function stays in its reference after it was called. *)
ResolverKept == resolver

(* Only a call that was denied is told that the run is cancelled. *)
StopsNever(l) == loops[l].killed

(* Every decision sets the kill switch anew. *)
StopsByDecision(l) == loops[l].verdict = "cancel"

-----------------------------------------------------------------------------
(* What evaluate knows without asking: a policy denial, or an exact rule. *)
Verdict(rec, signature) ==
    CASE signature \in Refused -> "deny"
      [] signature \in rules[rec.session] \ Refused -> "yes"
      [] OTHER -> "none"

(* handleApprovalRequestEvent: a stage loop has no onUpdate to call it. *)
Displayed(q) == IF q.loop \in Run /\ q \notin told THEN q ELSE pending

(* createRequest, the approval_request event of a run, and evaluate up to its *)
(* first await: the audit trail, or the operator.                            *)
Ask(l, rec) ==
    LET q == Asked(l, rec.n + 1, Head(rec.batch))
        verdict == Verdict(rec, q.signature)
    IN  /\ loops' = [loops EXCEPT ![l] =
              [rec EXCEPT !.n = q.n, !.asked = @ \cup {q}, !.verdict = verdict,
                          !.pc = IF verdict = "none" THEN "asking" ELSE "recording"]]
        /\ resolver' = IF verdict = "none" THEN q ELSE resolver
        /\ pending' = Displayed(q)
        /\ told' = IF l \in Run THEN told \cup {q} ELSE told

(* The generator returns, or is abandoned: the finally block of startPromptRun *)
(* begins, and awaits captureSession if the runtime is still the run's.       *)
End(l) ==
    /\ loops' = [loops EXCEPT ![l] = [IdleLoop EXCEPT
          !.pc = CASE l \in StageLoop -> "ended"
                   [] l \in Run /\ loops[l].session = session -> "capturing"
                   [] OTHER -> "final"]]
    /\ IF l \in Run THEN told' = {} /\ settled' = {} ELSE UNCHANGED <<told, settled>>

(* The memory context is there: the loop is built and yields its first event. *)
BuildLoop(r) ==
    /\ Quiet
    /\ loops[r].pc = "preparing"
    /\ loopRef' = r
    /\ IF Stale(r) THEN End(r)
       ELSE loops' = [loops EXCEPT ![r].pc = "thinking"] /\ UNCHANGED <<told, settled>>
    /\ UNCHANGED <<activeRun, storeRun, interrupted, queued, pending, resolver,
                   sessionVars>>

(* The memory context, or saving it, is rejected before the try: there is no     *)
(* finally block, and the run stays the store's.                              *)
PrepareFails(r) ==
    /\ Quiet
    /\ loops[r].pc = "preparing"
    /\ loops' = [loops EXCEPT ![r].pc = "lost"]
    /\ UNCHANGED <<runVars, dialogVars, sessionVars>>

StartStage(w) ==
    /\ Quiet
    /\ loops[w].pc = "idle"
    /\ loops' = [loops EXCEPT ![w] = [IdleLoop EXCEPT !.pc = "thinking", !.session = session]]
    /\ UNCHANGED <<runVars, dialogVars, sessionVars>>

(* A reply without tool calls, an error, a limit, or the kill switch seen at a *)
(* chunk; a stale run ends with the first event.                             *)
EndReply(l) ==
    /\ Quiet
    /\ loops[l].pc = "thinking"
    /\ End(l)
    /\ UNCHANGED <<runVars, pending, resolver, sessionVars>>

CallTools(l, batch) ==
    /\ Quiet
    /\ loops[l].pc = "thinking" /\ ~Stale(l)
    /\ loops[l].turns < MaxTurns
    /\ Ask(l, [loops[l] EXCEPT !.turns = @ + 1, !.batch = batch, !.asked = {}])
    /\ UNCHANGED <<runVars, settled, sessionVars>>

ResolverTaken == NoRequest

(* resolveApproval: the dialog is closed and the resolver called, whichever      *)
(* request it belongs to; evaluate adds a session rule for that request.  The   *)
(* operator approved it as shown only if it was the one on display.           *)
Answer(scope) ==
    LET l == resolver.loop
        s == loops[l].session
        Grant(policy) == IF scope = "session"
                         THEN [policy EXCEPT ![s] = @ \cup {resolver.signature}] ELSE policy
        yes == scope \in {"once", "session"}
    IN  /\ Quiet
        /\ pending # NoRequest /\ resolver # NoRequest
        /\ loops' = [loops EXCEPT ![l] =
              [loops[l] EXCEPT
                 !.pc = "recording", !.verdict = IF yes THEN "yes" ELSE scope,
                 !.seen = IF yes /\ pending = resolver THEN @ \cup {pending} ELSE @,
                 !.stopped = @ \/ scope = "cancel"]]
        /\ rules' = Grant(rules)
        /\ granted' = IF pending = resolver THEN Grant(granted) ELSE granted
        /\ strayed' = IF l \in StageLoop THEN Grant(strayed) ELSE strayed
        /\ pending' = NoRequest /\ resolver' = ResolverTaken
        /\ UNCHANGED <<runVars, told, settled, session, resuming>>

Stops(l) == loops[l].killed \/ loops[l].verdict = "cancel"

(* The decision is in the audit trail: evaluate returns. *)
DecisionTaken(l) ==
    [loops[l] EXCEPT !.batch = Tail(@), !.verdict = "none",
                     !.todo = IF loops[l].verdict = "yes" THEN @ \cup {Current(l)} ELSE @,
                     !.killed = Stops(l)]

Recorded(l) == Quiet /\ loops[l].pc = "recording"

MoreCalls(l) == Len(loops[l].batch) > 1

(* The next call of the batch is asked for, whatever the answer was. *)
AskNext(l) ==
    /\ Recorded(l) /\ MoreCalls(l)
    /\ Ask(l, DecisionTaken(l))
    /\ settled' = IF l \in Run THEN settled \cup {Current(l)} ELSE settled
    /\ UNCHANGED <<runVars, sessionVars>>

(* The batch is decided.  A run yields its events once more: where the ids were *)
(* forgotten between the two events of a request, it is shown again.          *)
StartTools(l) ==
    LET settledNow == settled \cup {Current(l)}
        ShownAgain == (loops[l].asked \ told) \cap settledNow
    IN  /\ Recorded(l) /\ ~MoreCalls(l) /\ ~Stale(l)
        /\ loops' = [loops EXCEPT ![l] = [DecisionTaken(l) EXCEPT !.pc = "running"]]
        /\ IF l \in Run
           THEN /\ pending' = IF ShownAgain = {} THEN NoRequest
                              ELSE CHOOSE q \in ShownAgain : TRUE
                /\ told' = told \cup loops[l].asked
                /\ settled' = settled \cup loops[l].asked
           ELSE UNCHANGED <<pending, told, settled>>
        /\ UNCHANGED <<runVars, resolver, sessionVars>>

(* The first of those events finds the run stale. *)
AbandonTools(r) ==
    /\ Recorded(r) /\ ~MoreCalls(r) /\ Stale(r)
    /\ End(r)
    /\ pending' = NoRequest
    /\ UNCHANGED <<runVars, resolver, sessionVars>>

(* _executeTools: reads in parallel, then the others one by one *)
RunTool(l, q) ==
    /\ Quiet
    /\ loops[l].pc = "running" /\ q \in loops[l].todo
    /\ loops' = [loops EXCEPT ![l].todo = @ \ {q}]
    /\ UNCHANGED <<runVars, dialogVars, sessionVars>>

(* The results are yielded, and the head of the loop looks at the kill switch. *)
EndTurn(l) ==
    /\ Quiet
    /\ loops[l].pc = "running" /\ loops[l].todo = {}
    /\ IF Stale(l) \/ loops[l].killed THEN End(l)
       ELSE loops' = [loops EXCEPT ![l].pc = "thinking"] /\ UNCHANGED <<told, settled>>
    /\ UNCHANGED <<runVars, pending, resolver, sessionVars>>

(* The rest of the finally block: the run is taken from the store if it is the  *)
(* store's, the dialog is closed, and the queued prompt is started.           *)
FinishRun(r) ==
    LET ended == [loops EXCEPT ![r].pc = "ended"]
    IN  /\ loops[r].pc = "final" \/ (Quiet /\ loops[r].pc = "capturing")
        /\ loopRef' = NoRun
        /\ pending' = NoRequest
        /\ queued' = FALSE
        /\ IF queued
           THEN StartPromptRun(ended)
           ELSE /\ loops' = ended
                /\ activeRun' = NoRun
                /\ storeRun' = IF storeRun = r THEN NoRun ELSE storeRun
                /\ interrupted' = (interrupted /\ storeRun # r)
                /\ UNCHANGED <<told, settled>>
        /\ UNCHANGED <<resolver, sessionVars>>

(* captureSession is rejected, and with it the rest of the finally block. *)
CaptureFails(r) ==
    /\ Quiet
    /\ loops[r].pc = "capturing"
    /\ loops' = [loops EXCEPT ![r].pc = "lost"]
    /\ UNCHANGED <<runVars, dialogVars, sessionVars>>

-----------------------------------------------------------------------------
Scope == {"once", "session", "deny", "cancel"}

OperatorStep ==
    \/ Submit \/ SubmitQueued \/ Cancel
    \/ ResetSession \/ ResumeBegin
    \/ \E scope \in Scope : Answer(scope)

ResumeStep == ResumeSwitch \/ ResumeEnd

LoopStep(l) ==
    \/ EndReply(l)
    \/ \E batch \in Batch : CallTools(l, batch)
    \/ AskNext(l) \/ StartTools(l)
    \/ \E q \in loops[l].todo : RunTool(l, q)
    \/ EndTurn(l)

RunStep(r) ==
    \/ BuildLoop(r) \/ AbandonTools(r) \/ FinishRun(r)
    \/ PrepareFails(r) \/ CaptureFails(r)

Next ==
    \/ OperatorStep \/ ResumeStep
    \/ \E w \in StageLoop : StartStage(w)
    \/ \E l \in Loop : LoopStep(l)
    \/ \E r \in Run : RunStep(r)

Spec == Init /\ [][Next]_vars

(***************************************************************************)
(* Awaited calls of the model, of tools and of the store settle, and an    *)
(* operator who is shown a request sooner or later answers it.              *)
(***************************************************************************)
FairSpec ==
    /\ Spec
    /\ \A r \in Run : WF_vars(LoopStep(r) \/ RunStep(r))
    /\ WF_vars(\E scope \in Scope : Answer(scope))

-----------------------------------------------------------------------------
LoopRecord ==
    [pc : {"idle", "preparing", "thinking", "asking", "recording", "running",
           "capturing", "final", "ended", "lost"},
     session : Session, turns : 0..MaxTurns, n : Nat,
     batch : Seq(Signature), asked : SUBSET Request,
     verdict : {"none", "yes", "deny", "cancel"}, todo : SUBSET Request,
     killed : BOOLEAN, seen : SUBSET Request, stopped : BOOLEAN]

(* Type invariant; the resolver always belongs to the request its loop waits   *)
(* for now, so no answer is lost on a loop that has gone on (requestApproval, *)
(* resolveApproval), and for a queued prompt a run is left.                   *)
TypeOK ==
    /\ loops \in [Loop -> LoopRecord]
    /\ \A l \in Loop :
          loops[l].pc \in {"asking", "recording"} => loops[l].batch # <<>>
    /\ queued => Unstarted # {}
    /\ activeRun \in Run \cup {NoRun} /\ storeRun \in Run \cup {NoRun}
    /\ interrupted \in BOOLEAN
    /\ loopRef \in Run \cup {NoRun} /\ queued \in BOOLEAN
    /\ pending \in Request \cup {NoRequest} /\ resolver \in Request \cup {NoRequest}
    /\ told \subseteq Request /\ settled \subseteq Request
    /\ session \in Session
    /\ rules \in [Session -> SUBSET Signature]
    /\ granted \in [Session -> SUBSET Signature]
    /\ strayed \in [Session -> SUBSET Signature]
    /\ resuming \in {"no", "loading", "syncing", "done"}
    /\ resolver # NoRequest =>
          /\ loops[resolver.loop].pc = "asking"
          /\ resolver = Current(resolver.loop)

(* A call of a run goes to _executeTools only if it was shown to the operator   *)
(* and approved as shown, or its exact signature was so approved for the run's *)
(* session, with one exception: a stage loop had taken the resolve function,   *)
(* and the operator's answer to something else made a rule of its signature.   *)
(* An answer never lets another call of a run itself through.  Not so once a  *)
(* session was resumed while a prompt was on its way: two runs may then be at  *)
(* work, and an answer to one may go to the other.                           *)
Consent ==
    resuming = "no" =>
        \A r \in Run : loops[r].pc = "running" =>
            \A q \in loops[r].todo :
                \/ q \in loops[r].seen
                \/ q.signature \in granted[loops[r].session] \cup strayed[loops[r].session]

(* documentation/security.md, Approval gates: "Mutating tool calls require     *)
(* operator approval".  Every call a loop executes, a run's or a stage's, was   *)
(* approved as it was shown, or its signature was for the session.           *)
ApprovedAsShown ==
    \A l \in Loop : loops[l].pc = "running" =>
        \A q \in loops[l].todo :
            q \in loops[l].seen \/ q.signature \in granted[loops[l].session]

(* documentation/security.md, Approval gates, Esc: "Block this call, abort the *)
(* run".  A loop whose request was answered so does not call the model again, *)
(* however many calls of its batch were still to be decided or run.          *)
CancelAnswerStops ==
    \A l \in Loop : loops[l].pc = "thinking" => ~loops[l].stopped

(* A resumed session or a stage loop can take the dialog away from a run. *)
Disturbed == resuming # "no" \/ \E w \in StageLoop : loops[w].pc # "idle"

Lost == \E r \in Run : loops[r].pc = "lost"

(* Unless disturbed, every run comes to its end or is lost by a rejection        *)
(* (PrepareFails, CaptureFails), and until one is lost the queued prompt gets   *)
(* its turn or is dropped with its session: nothing is lost between the loop,  *)
(* the events, the dialog and the queue, and no batch is left waiting.        *)
EveryRunEnds ==
    \/ <>Disturbed
    \/ /\ \A r \in Run : loops[r].pc = "preparing" ~> loops[r].pc \in {"ended", "lost"}
       /\ queued ~> ~queued \/ Lost

Over(l) == loops[l].pc \in {"capturing", "final", "ended", "lost"}

Stopping(l) == loops[l].killed \/ Over(l)

Built(r) == loops[r].pc \notin {"idle", "preparing", "ended", "lost"}

(* A loop that was told to stop stays so, and does not call the model again.   *)
StopsOn(l) ==
    Stopping(l) => Stopping(l)' /\ (loops[l].pc # "thinking" => loops'[l].pc # "thinking")

(* Whether by cancel, by a session cleared or by an answer: a loop told to stop   *)
(* ends without another call of the model, and until a session is resumed a    *)
(* cancellation (killLoop) tells every run whose loop was built by then.       *)
(* documentation/cli.md has it cancel the active run; while the prompt is still *)
(* prepared there is no loop to tell, and the run is not cancelled.           *)
StopsForGood ==
    [][/\ \A l \in Loop : StopsOn(l)
       /\ Cancel /\ resuming = "no" => \A r \in Run : Built(r) => Stopping(r)']_vars

(* A lost run blocks the console: its finally block would have let the next      *)
(* prompt begin (startPromptRun).  Unless a session is being resumed, no prompt *)
(* is run after it, no session is resumed, and no run takes another step.     *)
LostForGood ==
    [][Lost /\ resuming = "no" =>
          resuming' = "no" /\ \A r \in Run : loops'[r].pc = loops[r].pc]_vars
=============================================================================
