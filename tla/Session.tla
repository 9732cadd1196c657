------------------------------ MODULE Session ------------------------------
(***************************************************************************)
(* One agent whose framework runs tools through an adapter: GateSession    *)
(* (integrations/base.py) below LangChain's callbacks or below the         *)
(* wrappers of CrewAI and LlamaIndex.  A sensitive tool is checked before  *)
(* it runs, on the evidence that the tools which have returned left in the *)
(* session.  Frameworks run tools in parallel and nothing takes a lock, so *)
(* the statements of two tool runs interleave as the actions below do.     *)
(*                                                                         *)
(* Runs are numbered in the order in which they start.  A tool's result    *)
(* stands for what JSON-decoding makes of it (coerce_result).  The gate is *)
(* one step here, whether in process or remote: Gate and Remote model it.  *)
(***************************************************************************)
EXTENDS Engine, FiniteSets

LOCAL INSTANCE SequencesExt

CONSTANTS
    Tool,
    Action,
    Patterns,     \* action_mapping: a sequence of [tools, action]
    PolicyOf,     \* the policy of each action, as Engine has it
    Extractor,    \* registered tool -> result -> items; an item whose
                  \* observed_at is None takes the one of the call
    Adapters,     \* "callbacks" (LangChain), "wrapped" (CrewAI, LlamaIndex)
    MaxRuns,      \* bound on tool runs
    MaxParallel,  \* tools the framework runs at once
    MaxSessions,  \* bound on sessions, one per turn of the agent
    MaxNow        \* bound on the session's clock

ASSUME SessionAssumption ==
    /\ None \notin Tool \cup Action \cup Effect \cup Nat \cup {"done"}
    /\ Patterns \in Seq([tools : SUBSET Tool, action : Action])
    /\ \A tool \in DOMAIN Extractor : None \notin DOMAIN Extractor[tool]
    /\ \A tool \in DOMAIN Extractor : \A result \in DOMAIN Extractor[tool] :
          LET items == Extractor[tool][result]
          IN  items \in Seq({items[i] : i \in DOMAIN items})
    /\ Adapters \subseteq {"callbacks", "wrapped"}
    /\ {MaxRuns, MaxParallel, MaxNow} \subseteq Nat
    /\ MaxSessions \in Nat \ {0}

ASSUME PolicyAssumption ==
    \A action \in Action :
        PolicyOf[action] # None =>
            \A rule \in PolicyOf[action] :
                /\ rule.effect_on_fail \in Effect
                /\ rule.effect_on_stale \in Effect \cup {None}

VARIABLES
    adapter,   \* how the framework reaches the session
    runs,      \* every tool run, in the order of their starts
    evidence,  \* GateSession.evidence: the runs recorded, by number
    pending,   \* EvidenceGateCallbackHandler._pending
    trail,     \* the verdicts the gate has audited
    session,   \* the number of the session, a new one for each turn
    now        \* the session's clock, which stands still if now is injected

vars == <<adapter, runs, evidence, pending, trail, session, now>>

-----------------------------------------------------------------------------
\* asking: the time has been read; answered: the port has returned; ended: the
\* result is stamped.
InFlightStages == {"asking", "answered", "running", "ended"}

Stage == InFlightStages \cup {"recorded", "denied", "failed", "errored"}

InFlight == {r \in DOMAIN runs : runs[r].stage \in InFlightStages}

\* GateSession.match_action: the first pattern that matches.
MatchAction(tool) ==
    LET matching == {i \in DOMAIN Patterns : tool \in Patterns[i].tools}
    IN  IF matching = {} THEN None
        ELSE Patterns[CHOOSE i \in matching : \A j \in matching : i <= j].action

Sensitive(r) == MatchAction(runs[r].tool) # None

\* A tool without an extractor returns something nobody looks at.
Results(tool) ==
    IF tool \in DOMAIN Extractor THEN DOMAIN Extractor[tool] ELSE {"done"}

\* ToolCall, as record makes it of a run that has ended.
ToolCall(r) == [tool |-> runs[r].tool, result |-> runs[r].result,
                observed_at |-> runs[r].at, zoned |-> TRUE]

\* The wrappers fall back on the tool's name, so calls of one tool share an id.
CallId(r) == IF adapter = "wrapped" THEN runs[r].tool ELSE r

Extract(call) ==
    IF call.tool \notin DOMAIN Extractor THEN <<>>
    ELSE IF call.result \notin DOMAIN Extractor[call.tool] THEN <<>>
    ELSE LET items == Extractor[call.tool][call.result]
         IN  [i \in DOMAIN items |->
                 IF items[i].observed_at # None THEN items[i]
                 ELSE [items[i] EXCEPT !.observed_at = call.observed_at,
                                       !.zoned = call.zoned]]

\* ManifestBuilder.build.
Build(calls) == FlattenSeq([i \in DOMAIN calls |-> Extract(calls[i])])

ManifestOf(seen) == Build([i \in DOMAIN seen |-> ToolCall(seen[i])])

Init ==
    /\ adapter \in Adapters
    /\ runs = <<>>
    /\ evidence = <<>>
    /\ pending = {}
    /\ trail = {}
    /\ session = 1
    /\ now = 0

-----------------------------------------------------------------------------
(* Before the tool runs: on_tool_start, or the wrapper, calls enforce.     *)

\* The run goes from one stage to the next, with some of its fields changed.
Move(r, from, fields) ==
    /\ runs[r].stage = from
    /\ runs' = [runs EXCEPT ![r] = fields]

\* The handler notes the run, sensitive or not; enforce reads the time, or
\* returns at once for a tool that maps to no action.
Start(tool) ==
    /\ Len(runs) < MaxRuns /\ Cardinality(InFlight) < MaxParallel
    /\ runs' = Append(runs,
          [tool |-> tool, session |-> session, start |-> now,
           stage |-> IF MatchAction(tool) = None THEN "running" ELSE "asking",
           beside |-> InFlight, seen |-> <<>>, effect |-> None,
           result |-> None, at |-> None])
    /\ pending' = IF adapter = "callbacks" THEN pending \cup {Len(runs) + 1}
                  ELSE pending
    /\ UNCHANGED <<adapter, evidence, trail, session, now>>

Verdict(r, seen) ==
    Evaluate(PolicyOf[MatchAction(runs[r].tool)], ManifestOf(seen), runs[r].start)

\* Mutation of AskGate: what the engine raises is taken for its verdict.
AskGateAnyway(r) ==
    /\ Move(r, "asking", [runs[r] EXCEPT !.stage = "answered", !.seen = evidence,
                                         !.effect = Verdict(r, evidence)])
    /\ trail' = trail \cup {[check |-> r, effect |-> runs'[r].effect]}
    /\ UNCHANGED <<adapter, evidence, pending, session, now>>

\* list(self.evidence) is evaluated and the port called: the manifest is built
\* of that copy, and the gate audits its verdict and answers.
AskGate(r) ==
    /\ Move(r, "asking", [runs[r] EXCEPT !.stage = "answered", !.seen = evidence,
                                         !.effect = Verdict(r, evidence)])
    /\ runs'[r].effect # "raises"
    /\ trail' = trail \cup {[check |-> r, effect |-> runs'[r].effect]}
    /\ UNCHANGED <<adapter, evidence, pending, session, now>>

\* The engine raises, and so does enforce.
EngineRaises(r) ==
    /\ Move(r, "asking", [runs[r] EXCEPT !.stage = "failed", !.seen = evidence])
    /\ Verdict(r, evidence) = "raises"
    /\ UNCHANGED <<adapter, evidence, pending, trail, session, now>>

\* The port raises, before or after the gate has audited its verdict.
PortRaises(r) ==
    /\ \/ Move(r, "asking", [runs[r] EXCEPT !.stage = "failed", !.seen = evidence])
       \/ Move(r, "answered", [runs[r] EXCEPT !.stage = "failed"])
    /\ UNCHANGED <<adapter, evidence, pending, trail, session, now>>

\* Mutation of Act: enforce raises on block only.
ActUnlessBlocked(r) ==
    /\ Move(r, "answered",
            [runs[r] EXCEPT !.stage =
                IF runs[r].effect = "block" THEN "denied" ELSE "running"])
    /\ UNCHANGED <<adapter, evidence, pending, trail, session, now>>

\* enforce raises ClearanceDenied on block and review, which keeps the tool
\* from running, and returns on the other two.
Act(r) ==
    /\ Move(r, "answered",
            [runs[r] EXCEPT !.stage =
                IF Executes(runs[r].effect) THEN "running" ELSE "denied"])
    /\ UNCHANGED <<adapter, evidence, pending, trail, session, now>>

-----------------------------------------------------------------------------
(* After the tool has run: on_tool_end and on_tool_error, or the wrapper.  *)

\* on_tool_end takes the run out of _pending and ignores one that is not
\* there; record decodes the result and stamps the call.  The framework reports
\* the end of a tool that ran: the handler would take one of a refused run too.
Finish(r) ==
    /\ adapter = "callbacks" => r \in pending
    /\ \E result \in Results(runs[r].tool) :
          Move(r, "running",
               [runs[r] EXCEPT !.stage = "ended", !.result = result, !.at = now])
    /\ pending' = pending \ {r}
    /\ UNCHANGED <<adapter, evidence, trail, session, now>>

\* Mutation of Record: a call replaces the earlier one with its id.
RecordByCallId(r) ==
    /\ Move(r, "ended", [runs[r] EXCEPT !.stage = "recorded"])
    /\ LET Other(q) == CallId(q) # CallId(r)
       IN  evidence' = Append(SelectSeq(evidence, Other), r)
    /\ UNCHANGED <<adapter, pending, trail, session, now>>

\* The call, stamped already, is appended and so becomes visible.
Record(r) ==
    /\ Move(r, "ended", [runs[r] EXCEPT !.stage = "recorded"])
    /\ evidence' = Append(evidence, r)
    /\ UNCHANGED <<adapter, pending, trail, session, now>>

\* Mutation of ToolRaises: the handler has no on_tool_error.
ToolRaisesUnheard(r) ==
    /\ Move(r, "running", [runs[r] EXCEPT !.stage = "errored"])
    /\ UNCHANGED <<adapter, evidence, pending, trail, session, now>>

\* The tool raises: the wrapper lets it through, the handler forgets the run.
ToolRaises(r) ==
    /\ Move(r, "running", [runs[r] EXCEPT !.stage = "errored"])
    /\ pending' = pending \ {r}
    /\ UNCHANGED <<adapter, evidence, trail, session, now>>

\* A framework may report the exception of enforce as an error of the tool;
\* nothing obliges it to, and LangChain's own tools do not.
ReportRefusal(r) ==
    /\ r \in pending /\ runs[r].stage \in {"denied", "failed"}
    /\ pending' = pending \ {r}
    /\ UNCHANGED <<adapter, runs, evidence, trail, session, now>>

-----------------------------------------------------------------------------
\* Mutation of NewSession: the handler is made once and used for every turn.
NewSessionOldHandler ==
    /\ session < MaxSessions /\ InFlight = {}
    /\ session' = session + 1
    /\ UNCHANGED <<adapter, runs, evidence, pending, trail, now>>

\* A turn is over, and the next one gets a fresh handler or session.
NewSession ==
    /\ session < MaxSessions /\ InFlight = {}
    /\ session' = session + 1
    /\ evidence' = <<>>
    /\ pending' = {}
    /\ UNCHANGED <<adapter, runs, trail, now>>

Tick ==
    /\ now < MaxNow
    /\ now' = now + 1
    /\ UNCHANGED <<adapter, runs, evidence, pending, trail, session>>

Enforce(r) == AskGate(r) \/ EngineRaises(r) \/ PortRaises(r) \/ Act(r)

Run(r) == Finish(r) \/ Record(r) \/ ToolRaises(r)

Next ==
    \/ \E tool \in Tool : Start(tool)
    \/ \E r \in DOMAIN runs : Enforce(r) \/ Run(r) \/ ReportRefusal(r)
    \/ NewSession
    \/ Tick

Spec == Init /\ [][Next]_vars

-----------------------------------------------------------------------------
(* Properties.                                                             *)

OptionalTime == 0 .. MaxNow \cup {None}

Result == UNION {Results(tool) : tool \in Tool}

ToolRun ==
    [tool : Tool, session : 1 .. MaxSessions, start : 0 .. MaxNow,
     stage : Stage, beside : SUBSET (1 .. MaxRuns), seen : Seq(1 .. MaxRuns),
     effect : Effect \cup {None}, result : Result \cup {None},
     at : OptionalTime]

TypeOK ==
    /\ adapter \in Adapters
    /\ runs \in Seq(ToolRun) /\ Len(runs) <= MaxRuns
    /\ evidence \in Seq(DOMAIN runs)
    /\ pending \subseteq DOMAIN runs
    /\ trail \subseteq [check : DOMAIN runs, effect : Effect]
    /\ session \in 1 .. MaxSessions
    /\ now \in 0 .. MaxNow

OfSession == {r \in DOMAIN runs : runs[r].session = session}

\* Evidence is what tools of this turn returned, each once: a call that was
\* denied, failed, raised or belongs to another turn leaves none, a sensitive
\* tool's result counts only if a recorded verdict let it run, and no run that
\* has returned is forgotten (base.py:137).
EvidenceIsEarned ==
    /\ ToSet(evidence) = {r \in OfSession : runs[r].stage = "recorded"}
    /\ Cardinality(ToSet(evidence)) = Len(evidence)
    /\ \A r \in ToSet(evidence) :
          /\ runs[r].result # None /\ runs[r].at # None
          /\ Sensitive(r) =>
                \E e \in Effect : Executes(e) /\ [check |-> r, effect |-> e] \in trail

\* The runs of which an end may still be reported.
Open == {r \in OfSession : runs[r].stage \in InFlightStages \ {"ended"}}

\* _pending never loses a run whose end is still to come, and what stays in it
\* for good are the runs that enforce refused (langchain.py:81).
PendingLeaksOnlyRefused ==
    adapter = "callbacks" =>
        /\ Open \subseteq pending
        /\ pending \subseteq
              Open \cup {r \in OfSession : runs[r].stage \in {"denied", "failed"}}

Asked == {r \in DOMAIN runs : Sensitive(r) /\ runs[r].stage # "asking"}

\* A check is decided on all that its session had recorded when it started,
\* and of later runs only on those that ran beside it; two checks of one
\* session never disagree on the order of the evidence (base.py:183).
SeesWhatCameBefore ==
    /\ \A r \in Asked : \A q \in DOMAIN runs :
          /\ (/\ q < r /\ q \notin runs[r].beside
              /\ runs[q].session = runs[r].session
              /\ runs[q].stage = "recorded") => q \in ToSet(runs[r].seen)
          /\ q \in ToSet(runs[r].seen) =>
                /\ runs[q].session = runs[r].session
                /\ q < r \/ r \in runs[q].beside
    /\ \A r, q \in Asked :
          runs[r].session = runs[q].session =>
              \/ IsPrefix(runs[r].seen, runs[q].seen)
              \/ IsPrefix(runs[q].seen, runs[r].seen)

-----------------------------------------------------------------------------
(* A session keeps the gate's promise: it implements Enforcement.          *)

Ledger == {[check |-> t.check, effect |-> t.effect, approver |-> None] : t \in trail}

OutcomeOf(c) ==
    IF c \notin DOMAIN runs THEN "pending"
    ELSE IF ~Sensitive(c) THEN "pending"
    ELSE CASE runs[c].stage \in {"asking", "answered"} -> "pending"
           [] runs[c].stage = "failed" -> "failed"
           [] runs[c].stage = "denied" ->
                 IF runs[c].effect = "review" THEN "parked" ELSE "refused"
           [] OTHER -> "executed"

Outcome == [c \in 1 .. MaxRuns |-> OutcomeOf(c)]

Promise == INSTANCE Enforcement WITH
               Check <- 1 .. MaxRuns, Resolution <- {},
               ledger <- Ledger, outcome <- Outcome

\* A sensitive tool runs, parks or is refused on the one verdict that the gate
\* has audited for it, however its run interleaves with others, and when the
\* port fails it does not run (base.py:185).
KeepsPromise == Promise!Spec

=============================================================================
