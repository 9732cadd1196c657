---------------------------- MODULE SessionProofs ----------------------------
(***************************************************************************)
(* Proofs about sessions, for any tools, patterns, policies and extractors *)
(* and any number of tools that run at once.                               *)
(***************************************************************************)
EXTENDS Session, EngineProofs

LOCAL INSTANCE SequencesExt

-----------------------------------------------------------------------------
(* The types of what the gate is asked and of what it answers.             *)

\* A sensitive tool has an action that some pattern names.
LEMMA MatchActionType ==
    ASSUME NEW tool, MatchAction(tool) # None
    PROVE  MatchAction(tool) \in Action
<1> DEFINE matching == {i \in DOMAIN Patterns : tool \in Patterns[i].tools}
           first == CHOOSE i \in matching : \A j \in matching : i <= j
<1>1. DOMAIN Patterns = 1 .. Len(Patterns) /\ Len(Patterns) \in Nat
    BY SessionAssumption
<1>2. matching # {}
    BY Zenon DEF MatchAction
<1>3. first \in matching
    <2>1. matching \in SUBSET Nat
        BY <1>1
    <2> HIDE DEF matching
    <2> QED
        BY <1>2, <2>1, Least
<1>4. MatchAction(tool) = Patterns[first].action
    BY <1>2, Zenon DEF MatchAction
<1>5. first \in DOMAIN Patterns
    BY <1>3
<1> HIDE DEF first, matching
<1> DEFINE Pattern == [tools : SUBSET Tool, action : Action]
<1>6. Patterns[first] \in Pattern
    <2>1. Patterns \in Seq(Pattern)
        BY SessionAssumption
    <2> HIDE DEF Pattern
    <2> QED
        BY <1>5, <2>1
<1>7. Patterns[first].action \in Action
    BY <1>6
<1> QED
    BY <1>4, <1>7

\* What is asked about a sensitive run is answered with an effect, if at all.
LEMMA VerdictType ==
    ASSUME NEW r, Sensitive(r), NEW seen
    PROVE  Verdict(r, seen) \in Effect \cup {"raises"}
<1>1. MatchAction(runs[r].tool) \in Action
    BY MatchActionType DEF Sensitive
<1>2. \A p : p = PolicyOf[MatchAction(runs[r].tool)] =>
          (p # None => \A rule \in p : HasEffects(rule))
    BY <1>1, PolicyAssumption DEF HasEffects
<1> QED
    BY <1>2, EvaluateType DEF Verdict

-----------------------------------------------------------------------------
(* Types.                                                                  *)

\* A step of one run leaves all others as they were.
LEMMA Moved ==
    ASSUME TypeOK, NEW r \in DOMAIN runs, NEW from, NEW fields \in ToolRun,
           Move(r, from, fields)
    PROVE  /\ runs' \in Seq(ToolRun) /\ Len(runs') = Len(runs)
           /\ DOMAIN runs' = DOMAIN runs
           /\ runs[r].stage = from
           /\ runs'[r] = fields
           /\ \A q \in DOMAIN runs : q # r => runs'[q] = runs[q]
BY DEF TypeOK, Move

\* A new run comes after all others.
LEMMA Started ==
    ASSUME TypeOK, NEW run \in ToolRun, runs' = Append(runs, run)
    PROVE  /\ runs' \in Seq(ToolRun) /\ Len(runs') = Len(runs) + 1
           /\ DOMAIN runs = 1 .. Len(runs) /\ Len(runs) \in Nat
           /\ DOMAIN runs' = 1 .. Len(runs) + 1
           /\ DOMAIN runs' = DOMAIN runs \cup {Len(runs) + 1}
           /\ runs'[Len(runs) + 1] = run
           /\ \A q \in DOMAIN runs : q \in Nat /\ q # Len(runs) + 1
                                      /\ runs'[q] = runs[q]
BY DEF TypeOK

\* What a step makes of a run is a run.
LEMMA RunFields ==
    ASSUME TypeOK, NEW r \in DOMAIN runs, NEW stage \in Stage
    PROVE  /\ [runs[r] EXCEPT !.stage = stage] \in ToolRun
           /\ [runs[r] EXCEPT !.stage = stage, !.seen = evidence] \in ToolRun
           /\ \A e \in Effect :
                 [runs[r] EXCEPT !.stage = stage, !.seen = evidence, !.effect = e]
                     \in ToolRun
           /\ \A result \in Results(runs[r].tool) :
                 [runs[r] EXCEPT !.stage = stage, !.result = result, !.at = now]
                     \in ToolRun
<1>1. runs[r] \in ToolRun
    BY DEF TypeOK
<1>2. evidence \in Seq(1 .. MaxRuns)
    <2>1. DOMAIN runs = 1 .. Len(runs) /\ Len(runs) \in Nat /\ MaxRuns \in Nat
        BY SessionAssumption DEF TypeOK
    <2> QED
        BY <2>1 DEF TypeOK
<1>3. now \in OptionalTime
    BY DEF TypeOK, OptionalTime
<1>4. Results(runs[r].tool) \subseteq Result
    BY <1>1 DEF ToolRun, Result
<1> QED
    BY <1>1, <1>2, <1>3, <1>4 DEF ToolRun

\* What the first steps of a run know: a run that is asking is sensitive.
AskingIsSensitive ==
    \A r \in DOMAIN runs : runs[r].stage = "asking" => Sensitive(r)

\* Some moves leave the other variables to their types.
LEMMA MoveType ==
    ASSUME TypeOK, NEW r \in DOMAIN runs, NEW from, NEW fields \in ToolRun,
           Move(r, from, fields), adapter' = adapter, session' = session, now' = now,
           evidence' = evidence \/ evidence' = Append(evidence, r),
           pending' \subseteq pending,
           trail' = trail \/ \E e \in Effect : trail' = trail \cup {[check |-> r, effect |-> e]}
    PROVE  TypeOK'
<1>1. runs' \in Seq(ToolRun) /\ Len(runs') = Len(runs) /\ DOMAIN runs' = DOMAIN runs
    BY Moved
<1>2. evidence' \in Seq(DOMAIN runs)
    BY DEF TypeOK
<1>3. trail' \subseteq [check : DOMAIN runs, effect : Effect]
    BY DEF TypeOK
<1> QED
    BY <1>1, <1>2, <1>3 DEF TypeOK

LEMMA StartType ==
    ASSUME TypeOK, NEW tool \in Tool, Start(tool)
    PROVE  /\ TypeOK'
           /\ runs' = Append(runs, runs'[Len(runs) + 1])
           /\ runs'[Len(runs) + 1] =
                 [tool |-> tool, session |-> session, start |-> now,
                  stage |-> IF MatchAction(tool) = None THEN "running" ELSE "asking",
                  beside |-> InFlight, seen |-> <<>>, effect |-> None,
                  result |-> None, at |-> None]
           /\ runs'[Len(runs) + 1] \in ToolRun
<1> DEFINE run == [tool |-> tool, session |-> session, start |-> now,
                   stage |-> IF MatchAction(tool) = None THEN "running" ELSE "asking",
                   beside |-> InFlight, seen |-> <<>>, effect |-> None,
                   result |-> None, at |-> None]
<1>1. run \in ToolRun
    <2>1. InFlight \subseteq 1 .. MaxRuns
        BY SessionAssumption DEF TypeOK, InFlight
    <2> QED
        BY <2>1 DEF ToolRun, TypeOK, Stage, InFlightStages, OptionalTime
<1> HIDE DEF run
<1>2. runs' = Append(runs, run)
    BY DEF Start, run
<1>3. runs'[Len(runs) + 1] = run
    BY <1>1, <1>2, Started
<1>4. runs' \in Seq(ToolRun) /\ Len(runs') <= MaxRuns
    BY <1>1, <1>2, Started, SessionAssumption DEF Start, TypeOK
<1>5. DOMAIN runs' = DOMAIN runs \cup {Len(runs) + 1}
    BY <1>1, <1>2, Started
<1>6. evidence' \in Seq(DOMAIN runs') /\ pending' \subseteq DOMAIN runs'
    BY <1>5 DEF Start, TypeOK
<1>7. trail' \subseteq [check : DOMAIN runs', effect : Effect]
    BY <1>5 DEF Start, TypeOK
<1> QED
    BY <1>1, <1>2, <1>3, <1>4, <1>6, <1>7 DEF run, TypeOK, Start

\* Stages of a run as the actions on it name them.
LEMMA Stages ==
    /\ {"asking", "answered", "running", "ended", "recorded", "denied", "failed",
        "errored"} = Stage
    /\ InFlightStages \subseteq Stage
BY DEF Stage, InFlightStages

LEMMA TypeStep == TypeOK /\ AskingIsSensitive /\ [Next]_vars => TypeOK'
<1> SUFFICES ASSUME TypeOK, AskingIsSensitive, [Next]_vars PROVE TypeOK'
    OBVIOUS
<1>1. ASSUME NEW tool \in Tool, Start(tool) PROVE TypeOK'
    BY <1>1, StartType
<1>2. ASSUME NEW r \in DOMAIN runs, AskGate(r) PROVE TypeOK'
    <2> DEFINE fields == [runs[r] EXCEPT !.stage = "answered", !.seen = evidence,
                                         !.effect = Verdict(r, evidence)]
    <2>1. runs[r].stage = "asking" /\ runs' = [runs EXCEPT ![r] = fields]
        BY <1>2 DEF AskGate, Move
    <2>2. Verdict(r, evidence) \in Effect \cup {"raises"}
        BY <2>1, VerdictType DEF AskingIsSensitive
    <2>3. runs'[r] = fields /\ runs[r] \in ToolRun
        BY <2>1 DEF TypeOK
    <2>4. runs'[r].effect = Verdict(r, evidence)
        BY <2>3 DEF ToolRun
    <2>5. Verdict(r, evidence) \in Effect
        BY <1>2, <2>2, <2>4 DEF AskGate
    <2>6. fields \in ToolRun
        BY <2>5, RunFields, Stages
    <2>7. Move(r, "asking", fields)
        BY <1>2 DEF AskGate
    <2>8. trail' = trail \cup {[check |-> r, effect |-> Verdict(r, evidence)]}
        BY <1>2, <2>4 DEF AskGate
    <2> HIDE DEF fields
    <2> QED
        BY <1>2, <2>5, <2>6, <2>7, <2>8, MoveType DEF AskGate
<1>3. ASSUME NEW r \in DOMAIN runs, EngineRaises(r) PROVE TypeOK'
    BY <1>3, RunFields, Stages, MoveType DEF EngineRaises
<1>4. ASSUME NEW r \in DOMAIN runs, PortRaises(r) PROVE TypeOK'
    BY <1>4, RunFields, Stages, MoveType DEF PortRaises
<1>5. ASSUME NEW r \in DOMAIN runs, Act(r) PROVE TypeOK'
    BY <1>5, RunFields, Stages, MoveType DEF Act
<1>6. ASSUME NEW r \in DOMAIN runs, Finish(r) PROVE TypeOK'
    BY <1>6, RunFields, Stages, MoveType DEF Finish
<1>7. ASSUME NEW r \in DOMAIN runs, Record(r) PROVE TypeOK'
    BY <1>7, RunFields, Stages, MoveType DEF Record
<1>8. ASSUME NEW r \in DOMAIN runs, ToolRaises(r) PROVE TypeOK'
    BY <1>8, RunFields, Stages, MoveType DEF ToolRaises
<1>9. ASSUME NEW r \in DOMAIN runs, ReportRefusal(r) PROVE TypeOK'
    BY <1>9 DEF ReportRefusal, TypeOK
<1>10. ASSUME NewSession PROVE TypeOK'
    BY <1>10, SessionAssumption DEF NewSession, TypeOK
<1>11. ASSUME Tick PROVE TypeOK'
    BY <1>11, SessionAssumption DEF Tick, TypeOK
<1>12. ASSUME UNCHANGED vars PROVE TypeOK'
    BY <1>12 DEF vars, TypeOK
<1> QED
    BY <1>1, <1>2, <1>3, <1>4, <1>5, <1>6, <1>7, <1>8, <1>9, <1>10, <1>11, <1>12
    DEF Next, Enforce, Run

-----------------------------------------------------------------------------
(* What the actions on one run do, in one place.                           *)

\* The verdict, once given, and the evidence it was given on stay.
Told(r) == runs'[r].seen = runs[r].seen /\ runs'[r].effect = runs[r].effect

RunStep(r) ==
    \/ /\ runs[r].stage = "asking" /\ runs'[r].stage = "answered"
       /\ runs'[r].seen = evidence /\ runs'[r].effect \in Effect
       /\ trail' = trail \cup {[check |-> r, effect |-> runs'[r].effect]}
       /\ UNCHANGED <<evidence, pending>>
    \/ /\ runs[r].stage = "asking" /\ runs'[r].stage = "failed"
       /\ runs'[r].seen = evidence
       /\ UNCHANGED <<evidence, pending, trail>>
    \/ /\ runs[r].stage = "answered" /\ Told(r)
       /\ \/ runs'[r].stage = "failed"
          \/ runs'[r].stage = "running" /\ Executes(runs[r].effect)
          \/ runs'[r].stage = "denied" /\ ~Executes(runs[r].effect)
       /\ UNCHANGED <<evidence, pending, trail>>
    \/ /\ runs[r].stage = "running" /\ Told(r)
       /\ \/ runs'[r].stage = "ended" /\ runs'[r].result # None /\ runs'[r].at # None
          \/ runs'[r].stage = "errored"
       /\ pending' = pending \ {r}
       /\ UNCHANGED <<evidence, trail>>
    \/ /\ runs[r].stage = "ended" /\ runs'[r].stage = "recorded" /\ Told(r)
       /\ runs'[r].result = runs[r].result /\ runs'[r].at = runs[r].at
       /\ evidence' = Append(evidence, r)
       /\ UNCHANGED <<pending, trail>>

\* The run keeps its name, and the rest of the world stands still.
Beside(r) ==
    /\ DOMAIN runs' = DOMAIN runs
    /\ \A q \in DOMAIN runs : q # r => runs'[q] = runs[q]
    /\ runs'[r].tool = runs[r].tool /\ runs'[r].session = runs[r].session
    /\ runs'[r].beside = runs[r].beside
    /\ UNCHANGED <<adapter, session>>

LEMMA OneMove ==
    ASSUME TypeOK, AskingIsSensitive, NEW r \in DOMAIN runs, Enforce(r) \/ Run(r)
    PROVE  RunStep(r) /\ Beside(r)
<1>0. runs[r] \in ToolRun
    BY DEF TypeOK
<1> DEFINE To(stage) == [runs[r] EXCEPT !.stage = stage]
<1>1. ASSUME NEW stage \in Stage, NEW from, Move(r, from, To(stage)),
             UNCHANGED <<adapter, session>>
      PROVE  /\ Beside(r) /\ Told(r)
             /\ runs[r].stage = from /\ runs'[r].stage = stage
             /\ runs'[r].result = runs[r].result /\ runs'[r].at = runs[r].at
    <2>1. To(stage) \in ToolRun
        BY RunFields
    <2>2. /\ DOMAIN runs' = DOMAIN runs /\ runs[r].stage = from
          /\ runs'[r] = To(stage)
          /\ \A q \in DOMAIN runs : q # r => runs'[q] = runs[q]
        BY <1>1, <2>1, Moved
    <2> QED
        BY <1>0, <1>1, <2>2 DEF Beside, Told, ToolRun
<1> HIDE DEF To
<1>2. ASSUME AskGate(r) PROVE RunStep(r) /\ Beside(r)
    <2> DEFINE fields == [runs[r] EXCEPT !.stage = "answered", !.seen = evidence,
                                         !.effect = Verdict(r, evidence)]
    <2>1. runs[r].stage = "asking" /\ runs' = [runs EXCEPT ![r] = fields]
        BY <1>2 DEF AskGate, Move
    <2>2. Verdict(r, evidence) \in Effect \cup {"raises"}
        BY <2>1, VerdictType DEF AskingIsSensitive
    <2>3. /\ DOMAIN runs' = DOMAIN runs /\ runs'[r] = fields
          /\ \A q \in DOMAIN runs : q # r => runs'[q] = runs[q]
        BY <2>1 DEF TypeOK
    <2>4. /\ runs'[r].effect = Verdict(r, evidence) /\ runs'[r].seen = evidence
          /\ runs'[r].stage = "answered" /\ runs'[r].tool = runs[r].tool
          /\ runs'[r].session = runs[r].session /\ runs'[r].beside = runs[r].beside
        BY <1>0, <2>3 DEF ToolRun
    <2> QED
        BY <1>2, <2>1, <2>2, <2>3, <2>4 DEF AskGate, RunStep, Beside
<1>3. ASSUME NEW from, Move(r, from, [runs[r] EXCEPT !.stage = "failed", !.seen = evidence]),
             UNCHANGED <<adapter, session>>
      PROVE  /\ Beside(r) /\ runs[r].stage = from
             /\ runs'[r].stage = "failed" /\ runs'[r].seen = evidence
    <2>1. [runs[r] EXCEPT !.stage = "failed", !.seen = evidence] \in ToolRun
        BY RunFields, Stages
    <2>2. /\ DOMAIN runs' = DOMAIN runs /\ runs[r].stage = from
          /\ runs'[r] = [runs[r] EXCEPT !.stage = "failed", !.seen = evidence]
          /\ \A q \in DOMAIN runs : q # r => runs'[q] = runs[q]
        BY <1>3, <2>1, Moved
    <2> QED
        BY <1>0, <1>3, <2>2 DEF Beside, ToolRun
<1>4. ASSUME EngineRaises(r) PROVE RunStep(r) /\ Beside(r)
    BY <1>3, <1>4 DEF EngineRaises, RunStep
<1>5. ASSUME PortRaises(r) PROVE RunStep(r) /\ Beside(r)
    BY <1>1, <1>3, <1>5, Stages DEF PortRaises, RunStep, To
<1>6. ASSUME Act(r) PROVE RunStep(r) /\ Beside(r)
    BY <1>1, <1>6, Stages DEF Act, RunStep, To
<1>7. ASSUME Finish(r) PROVE RunStep(r) /\ Beside(r)
    <2>1. PICK result \in Results(runs[r].tool) :
              Move(r, "running",
                   [runs[r] EXCEPT !.stage = "ended", !.result = result, !.at = now])
        BY <1>7 DEF Finish
    <2> DEFINE fields == [runs[r] EXCEPT !.stage = "ended", !.result = result, !.at = now]
    <2>2. fields \in ToolRun
        BY RunFields, Stages
    <2>3. /\ DOMAIN runs' = DOMAIN runs /\ runs[r].stage = "running" /\ runs'[r] = fields
          /\ \A q \in DOMAIN runs : q # r => runs'[q] = runs[q]
        BY <2>1, <2>2, Moved
    <2>4. result # None /\ now # None
        BY SessionAssumption DEF Results, TypeOK
    <2> QED
        BY <1>0, <1>7, <2>3, <2>4 DEF Finish, RunStep, Beside, Told, ToolRun
<1>8. ASSUME Record(r) PROVE RunStep(r) /\ Beside(r)
    BY <1>1, <1>8, Stages DEF Record, RunStep, To
<1>9. ASSUME ToolRaises(r) PROVE RunStep(r) /\ Beside(r)
    BY <1>1, <1>9, Stages DEF ToolRaises, RunStep, To
<1> QED
    BY <1>2, <1>4, <1>5, <1>6, <1>7, <1>8, <1>9 DEF Enforce, Run

-----------------------------------------------------------------------------
(* What is evidence, and what is pending.                                  *)

Checked(r) ==
    /\ runs[r].effect \in Effect
    /\ [check |-> r, effect |-> runs[r].effect] \in trail

\* What the stage of a run says about its fields and about the trail.
StageOK(r) ==
    /\ runs[r].session <= session
    /\ runs[r].stage \in InFlightStages => runs[r].session = session
    /\ runs[r].stage = "asking" => \A t \in trail : t.check # r
    /\ runs[r].stage \in {"asking", "answered", "denied"} => Sensitive(r)
    /\ runs[r].stage \in {"ended", "recorded"} =>
          runs[r].result # None /\ runs[r].at # None
    /\ Sensitive(r) =>
          /\ runs[r].stage \in {"answered", "denied", "running", "ended", "recorded"} =>
                Checked(r)
          /\ runs[r].stage \in {"running", "ended", "recorded"} =>
                Executes(runs[r].effect)
          /\ runs[r].stage = "denied" => ~Executes(runs[r].effect)

InEvidence(r) == \E i \in DOMAIN evidence : evidence[i] = r

\* Evidence holds each recorded run of the session once.
EvidenceOK ==
    /\ \A r \in DOMAIN runs :
          InEvidence(r) <=> runs[r].stage = "recorded" /\ runs[r].session = session
    /\ \A i, j \in DOMAIN evidence : evidence[i] = evidence[j] => i = j

SessionInv ==
    /\ TypeOK
    /\ \A r \in DOMAIN runs : StageOK(r)
    /\ EvidenceOK
    /\ PendingLeaksOnlyRefused

LEMMA InvAsking == SessionInv => TypeOK /\ AskingIsSensitive
BY DEF SessionInv, StageOK, AskingIsSensitive

LEMMA SessionInit == Init => SessionInv
<1> SUFFICES ASSUME Init PROVE SessionInv
    OBVIOUS
<1>1. TypeOK
    BY SessionAssumption DEF Init, TypeOK
<1>2. DOMAIN runs = {} /\ DOMAIN evidence = {} /\ pending = {}
    BY DEF Init
<1> QED
    BY <1>1, <1>2
    DEF SessionInv, EvidenceOK, PendingLeaksOnlyRefused, Open, OfSession

\* The evidence after a call has been recorded.
LEMMA EvidenceGrows ==
    ASSUME TypeOK, NEW r \in DOMAIN runs, evidence' = Append(evidence, r)
    PROVE  /\ DOMAIN evidence' = DOMAIN evidence \cup {Len(evidence) + 1}
           /\ Len(evidence) + 1 \notin DOMAIN evidence
           /\ evidence'[Len(evidence) + 1] = r
           /\ \A i \in DOMAIN evidence : evidence'[i] = evidence[i]
BY DEF TypeOK

LEMMA RunKeepsInv ==
    ASSUME SessionInv, TypeOK', NEW r \in DOMAIN runs, Enforce(r) \/ Run(r)
    PROVE  SessionInv'
<1>1. RunStep(r) /\ Beside(r)
    BY InvAsking, OneMove DEF SessionInv
<1>2. TypeOK /\ StageOK(r) /\ (\A q \in DOMAIN runs : StageOK(q)) /\ r \in DOMAIN runs
    BY DEF SessionInv
<1>3. \A q \in DOMAIN runs : Sensitive(q)' = Sensitive(q)
    BY <1>1 DEF Sensitive, Beside
<1>4. ASSUME NEW q \in DOMAIN runs PROVE StageOK(q)'
    <2>1. CASE q # r
        <3>1. runs'[q] = runs[q] /\ session' = session /\ (Sensitive(q)' <=> Sensitive(q))
            BY <1>1, <1>3, <2>1 DEF Beside
        <3>2. /\ trail \subseteq trail'
              /\ \A t \in trail' : t \in trail \/ t.check = r
            BY <1>1 DEF RunStep
        <3>3. StageOK(q)
            BY <1>2
        <3> QED
            BY <2>1, <3>1, <3>2, <3>3 DEF StageOK, Checked
    <2>2. CASE q = r
        <3>1. /\ runs'[r].session = runs[r].session /\ session' = session
              /\ (Sensitive(r)' <=> Sensitive(r))
            BY <1>1, <1>3 DEF Beside
        <3>2. StageOK(r)'
            BY <1>1, <1>2, <3>1
            DEF StageOK, Checked, RunStep, Told, InFlightStages
        <3> QED
            BY <2>2, <3>2
    <2> QED
        BY <2>1, <2>2
<1>5. EvidenceOK'
    <2>1. CASE evidence' = evidence /\ runs'[r].stage # "recorded" /\ runs[r].stage # "recorded"
        <3>1. \A q \in DOMAIN runs : InEvidence(q)' <=> InEvidence(q)
            BY <2>1 DEF InEvidence
        <3> QED
            BY <1>1, <2>1, <3>1 DEF EvidenceOK, Beside, SessionInv
    <2>2. CASE /\ evidence' = Append(evidence, r)
               /\ runs[r].stage = "ended" /\ runs'[r].stage = "recorded"
        <3>1. ~InEvidence(r)
            BY <2>2 DEF SessionInv, EvidenceOK
        <3>2. /\ DOMAIN evidence' = DOMAIN evidence \cup {Len(evidence) + 1}
              /\ Len(evidence) + 1 \notin DOMAIN evidence
              /\ evidence'[Len(evidence) + 1] = r
              /\ \A i \in DOMAIN evidence : evidence'[i] = evidence[i]
            BY <1>2, <2>2, EvidenceGrows
        <3>3. \A q \in DOMAIN runs : InEvidence(q)' <=> InEvidence(q) \/ q = r
            BY <3>2 DEF InEvidence
        <3>4. runs'[r].session = session'
            BY <1>1, <1>2, <2>2 DEF Beside, StageOK, InFlightStages
        <3>5. \A q \in DOMAIN runs :
                  InEvidence(q)' <=> runs'[q].stage = "recorded" /\ runs'[q].session = session'
            BY <1>1, <2>2, <3>3, <3>4 DEF Beside, SessionInv, EvidenceOK
        <3>6. \A i, j \in DOMAIN evidence' : evidence'[i] = evidence'[j] => i = j
            BY <3>1, <3>2 DEF SessionInv, EvidenceOK, InEvidence
        <3> QED
            BY <1>1, <3>5, <3>6 DEF EvidenceOK, Beside
    <2> QED
        BY <1>1, <2>1, <2>2 DEF RunStep
<1>6. PendingLeaksOnlyRefused'
    <2> SUFFICES ASSUME adapter = "callbacks"
                 PROVE  /\ Open' \subseteq pending'
                        /\ pending' \subseteq Open' \cup
                              {q \in OfSession' : runs'[q].stage \in {"denied", "failed"}}
        BY <1>1 DEF PendingLeaksOnlyRefused, Beside
    <2>1. OfSession' = OfSession
        BY <1>1 DEF OfSession, Beside
    <2>2. /\ Open \subseteq pending
          /\ pending \subseteq Open \cup
                {q \in OfSession : runs[q].stage \in {"denied", "failed"}}
        BY DEF SessionInv, PendingLeaksOnlyRefused
    <2>3. pending' = IF runs[r].stage = "running" THEN pending \ {r} ELSE pending
        BY <1>1 DEF RunStep
    <2>4. \A q \in OfSession \ {r} : runs'[q] = runs[q]
        BY <1>1 DEF OfSession, Beside
    <2>5. Open = {q \in OfSession : runs[q].stage \in {"asking", "answered", "running"}}
        BY DEF Open, InFlightStages
    <2>6. Open' = {q \in OfSession' : runs'[q].stage \in {"asking", "answered", "running"}}
        BY DEF Open, InFlightStages
    <2>7. \/ /\ runs[r].stage \in {"asking", "answered"}
             /\ runs'[r].stage \in {"answered", "running", "denied", "failed"}
          \/ /\ runs[r].stage = "running" /\ runs'[r].stage \in {"ended", "errored"}
          \/ /\ runs[r].stage = "ended" /\ runs'[r].stage = "recorded"
        BY <1>1 DEF RunStep
    <2> QED
        BY <2>1, <2>2, <2>3, <2>4, <2>5, <2>6, <2>7
<1> QED
    BY <1>1, <1>4, <1>5, <1>6 DEF SessionInv, Beside

LEMMA StartKeepsInv ==
    ASSUME SessionInv, NEW tool \in Tool, Start(tool)
    PROVE  SessionInv'
<1>0. PICK new \in Nat : new = Len(runs) + 1
    BY DEF SessionInv, TypeOK
<1>1. TypeOK /\ TypeOK' /\ (\A q \in DOMAIN runs : StageOK(q))
    BY StartType DEF SessionInv
<1>2. /\ DOMAIN runs' = DOMAIN runs \cup {new}
      /\ \A q \in DOMAIN runs : q # new /\ runs'[q] = runs[q]
    BY <1>0, StartType, Started DEF SessionInv
<1>3. /\ runs'[new].tool = tool /\ runs'[new].session = session
      /\ runs'[new].stage = IF MatchAction(tool) = None THEN "running" ELSE "asking"
    <2>1. runs'[new] =
              [tool |-> tool, session |-> session, start |-> now,
               stage |-> IF MatchAction(tool) = None THEN "running" ELSE "asking",
               beside |-> InFlight, seen |-> <<>>, effect |-> None,
               result |-> None, at |-> None]
        BY <1>0, StartType DEF SessionInv
    <2> QED
        BY <2>1
<1>4. /\ UNCHANGED <<adapter, evidence, trail, session>>
      /\ pending' = IF adapter = "callbacks" THEN pending \cup {new} ELSE pending
    BY <1>0 DEF Start
<1>5. ASSUME NEW q \in DOMAIN runs PROVE StageOK(q)'
    <2>1. runs'[q] = runs[q] /\ (Sensitive(q)' <=> Sensitive(q)) /\ StageOK(q)
        BY <1>1, <1>2 DEF Sensitive
    <2> QED
        BY <1>4, <2>1 DEF StageOK, Checked
<1>6. StageOK(new)'
    <2>1. Sensitive(new)' <=> MatchAction(tool) # None
        BY <1>3 DEF Sensitive
    <2>2. \A t \in trail : t.check # new
        BY <1>1, <1>2 DEF TypeOK
    <2>3. session <= session
        BY <1>1 DEF TypeOK
    <2> QED
        BY <1>3, <1>4, <2>1, <2>2, <2>3 DEF StageOK
<1>7. EvidenceOK'
    <2>1. \A q \in DOMAIN runs' : InEvidence(q)' <=> InEvidence(q)
        BY <1>4 DEF InEvidence
    <2>2. ~InEvidence(new)
        BY <1>1, <1>2 DEF InEvidence, TypeOK
    <2>3. runs'[new].stage # "recorded"
        BY <1>3
    <2>4. EvidenceOK
        BY DEF SessionInv
    <2> QED
        BY <1>2, <1>4, <2>1, <2>2, <2>3, <2>4 DEF EvidenceOK
<1>8. PendingLeaksOnlyRefused'
    <2>1. OfSession' = OfSession \cup {new}
        BY <1>2, <1>3, <1>4 DEF OfSession
    <2>2. \A q \in OfSession : q # new /\ runs'[q] = runs[q]
        BY <1>2 DEF OfSession
    <2>3. runs'[new].stage \in InFlightStages \ {"ended"}
        BY <1>3 DEF InFlightStages
    <2>4. Open' = Open \cup {new}
        BY <2>1, <2>2, <2>3 DEF Open
    <2>5. PendingLeaksOnlyRefused
        BY DEF SessionInv
    <2> QED
        BY <1>4, <2>1, <2>2, <2>4, <2>5 DEF PendingLeaksOnlyRefused
<1> QED
    BY <1>1, <1>2, <1>5, <1>6, <1>7, <1>8 DEF SessionInv

LEMMA SessionStep == SessionInv /\ [Next]_vars => SessionInv'
<1> SUFFICES ASSUME SessionInv, [Next]_vars PROVE SessionInv'
    OBVIOUS
<1>1. TypeOK'
    BY InvAsking, TypeStep
<1>2. ASSUME NEW tool \in Tool, Start(tool) PROVE SessionInv'
    BY <1>2, StartKeepsInv
<1>3. ASSUME NEW r \in DOMAIN runs, Enforce(r) \/ Run(r) PROVE SessionInv'
    BY <1>1, <1>3, RunKeepsInv
<1>4. ASSUME UNCHANGED <<adapter, runs, evidence, trail, session>>,
             PendingLeaksOnlyRefused'
      PROVE  SessionInv'
    <2>1. \A q \in DOMAIN runs : StageOK(q)' <=> StageOK(q)
        BY <1>4 DEF StageOK, Checked, Sensitive
    <2>2. EvidenceOK' <=> EvidenceOK
        BY <1>4 DEF EvidenceOK, InEvidence
    <2> QED
        BY <1>1, <1>4, <2>1, <2>2 DEF SessionInv
<1>5. ASSUME NEW r \in DOMAIN runs, ReportRefusal(r) PROVE SessionInv'
    <2>1. Open' = Open /\ OfSession' = OfSession /\ runs' = runs
        BY <1>5 DEF ReportRefusal, Open, OfSession
    <2>2. r \notin Open
        BY <1>5 DEF ReportRefusal, Open, InFlightStages
    <2>3. PendingLeaksOnlyRefused'
        BY <1>5, <2>1, <2>2 DEF SessionInv, PendingLeaksOnlyRefused, ReportRefusal
    <2> QED
        BY <1>4, <1>5, <2>3 DEF ReportRefusal
<1>6. ASSUME NewSession PROVE SessionInv'
    <2>1. /\ runs' = runs /\ trail' = trail /\ session' = session + 1
          /\ evidence' = <<>> /\ pending' = {} /\ InFlight = {}
        BY <1>6 DEF NewSession
    <2>2. session \in Nat /\ \A q \in DOMAIN runs : runs[q].session \in Nat
        <3>1. \A q \in DOMAIN runs : runs[q] \in ToolRun
            BY DEF SessionInv, TypeOK
        <3>2. \A run \in ToolRun : run.session \in 1 .. MaxSessions
            BY DEF ToolRun
        <3> QED
            BY <3>1, <3>2, SessionAssumption DEF SessionInv, TypeOK
    <2>3. \A q \in DOMAIN runs :
              runs[q].stage \notin InFlightStages /\ runs[q].session <= session
        BY <2>1 DEF SessionInv, StageOK, InFlight
    <2>4. \A q \in DOMAIN runs : StageOK(q)'
        BY <2>1, <2>2, <2>3 DEF SessionInv, StageOK, Checked, Sensitive
    <2>5. \A q \in DOMAIN runs : runs[q].session # session + 1
        BY <2>2, <2>3
    <2>6. EvidenceOK'
        BY <2>1, <2>5 DEF EvidenceOK, InEvidence
    <2>7. OfSession' = {}
        BY <2>1, <2>5 DEF OfSession
    <2>8. PendingLeaksOnlyRefused'
        BY <2>1, <2>7 DEF PendingLeaksOnlyRefused, Open
    <2> QED
        BY <1>1, <2>1, <2>4, <2>6, <2>8 DEF SessionInv
<1>7. ASSUME Tick \/ UNCHANGED vars PROVE SessionInv'
    <2>1. UNCHANGED <<adapter, runs, evidence, pending, trail, session>>
        BY <1>7 DEF Tick, vars
    <2>2. PendingLeaksOnlyRefused' <=> PendingLeaksOnlyRefused
        BY <2>1 DEF PendingLeaksOnlyRefused, Open, OfSession
    <2> QED
        BY <1>4, <2>1, <2>2 DEF SessionInv
<1> QED
    BY <1>2, <1>3, <1>5, <1>6, <1>7 DEF Next

LEMMA SessionAlways == Spec => []SessionInv
BY SessionInit, SessionStep, PTL DEF Spec

\* Every value is of its type in every reachable state.
THEOREM SessionTypes == Spec => []TypeOK
<1>1. SessionInv => TypeOK
    BY DEF SessionInv
<1> QED
    BY <1>1, SessionAlways, PTL

\* Whatever tools overlap, fail or are refused, _pending loses no run that is
\* still to end and keeps for good only runs that enforce refused.
THEOREM PendingIsTight == Spec => []PendingLeaksOnlyRefused
<1>1. SessionInv => PendingLeaksOnlyRefused
    BY DEF SessionInv
<1> QED
    BY <1>1, SessionAlways, PTL

\* Only what a permitted tool of this turn returned is evidence, and each such
\* result is evidence once, whatever tools overlap, raise or share a call id.
THEOREM EvidenceEarned == Spec => []EvidenceIsEarned
<1>1. SessionInv => EvidenceIsEarned
    <2> SUFFICES ASSUME SessionInv PROVE EvidenceIsEarned
        OBVIOUS
    <2>1. evidence \in Seq(DOMAIN runs)
        BY DEF SessionInv, TypeOK
    <2>2. Cardinality(ToSet(evidence)) = Len(evidence)
        BY <2>1, AllDistinct DEF SessionInv, EvidenceOK, ToSet
    <2>3. \A r : r \in ToSet(evidence) <=> InEvidence(r)
        BY DEF ToSet, InEvidence
    <2>4. ToSet(evidence) \subseteq DOMAIN runs
        BY <2>1 DEF ToSet
    <2>5. ToSet(evidence) = {r \in OfSession : runs[r].stage = "recorded"}
        BY <2>3, <2>4 DEF SessionInv, EvidenceOK, OfSession
    <2>6. ASSUME NEW r \in ToSet(evidence)
          PROVE  /\ runs[r].result # None /\ runs[r].at # None
                 /\ Sensitive(r) =>
                       \E e \in Effect : Executes(e) /\ [check |-> r, effect |-> e] \in trail
        BY <2>4, <2>5 DEF SessionInv, StageOK, Checked
    <2> QED
        BY <2>2, <2>5, <2>6 DEF EvidenceIsEarned
<1> QED
    BY <1>1, SessionAlways, PTL

-----------------------------------------------------------------------------
(* What a check sees.                                                      *)

\* s is how t begins.
Begins(s, t) == Len(s) <= Len(t) /\ \A i \in 1 .. Len(s) : s[i] = t[i]

LEMMA PrefixIsBeginning ==
    ASSUME NEW S, NEW s \in Seq(S), NEW t \in Seq(S), Begins(s, t)
    PROVE  IsPrefix(s, t)
BY DEF Begins, IsPrefix

\* Two beginnings of one sequence are comparable.
LEMMA BeginningsAgree ==
    ASSUME NEW S, NEW s \in Seq(S), NEW t \in Seq(S), NEW u \in Seq(S),
           Begins(s, u), Begins(t, u)
    PROVE  Begins(s, t) \/ Begins(t, s)
BY DEF Begins

LEMMA BeginningStays ==
    ASSUME NEW S, NEW s \in Seq(S), NEW t \in Seq(S), NEW x \in S, Begins(s, t)
    PROVE  Begins(s, Append(t, x))
BY DEF Begins

IsAsked(r) == Sensitive(r) /\ runs[r].stage # "asking"

Saw(r, q) == \E i \in DOMAIN runs[r].seen : runs[r].seen[i] = q

\* What a check saw: how the evidence of its session begins, all that had been
\* recorded when it started, and of later runs only those beside it.
SightOK(r) ==
    /\ \A q : Saw(r, q) => q \in DOMAIN runs
    /\ runs[r].session = session => Begins(runs[r].seen, evidence)
    /\ \A q \in DOMAIN runs :
          /\ (/\ q < r /\ q \notin runs[r].beside
              /\ runs[q].session = runs[r].session
              /\ runs[q].stage = "recorded") => Saw(r, q)
          /\ Saw(r, q) =>
                /\ runs[q].session = runs[r].session
                /\ q < r \/ r \in runs[q].beside

\* A run that was not under way when a later one started has ended for good.
BesideOK ==
    \A r, q \in DOMAIN runs :
        q < r /\ q \notin runs[r].beside => runs[q].stage \notin InFlightStages

ChecksAgree ==
    \A r, q \in DOMAIN runs :
        IsAsked(r) /\ IsAsked(q) /\ runs[r].session = runs[q].session =>
            Begins(runs[r].seen, runs[q].seen) \/ Begins(runs[q].seen, runs[r].seen)

SightInv ==
    /\ \A r \in DOMAIN runs : IsAsked(r) => SightOK(r)
    /\ BesideOK
    /\ ChecksAgree

\* Evidence and what a check saw are sequences of numbers.
LEMMA SeenType ==
    ASSUME TypeOK
    PROVE  /\ evidence \in Seq(1 .. MaxRuns)
           /\ DOMAIN runs \subseteq Nat /\ DOMAIN runs \subseteq 1 .. MaxRuns
           /\ \A r \in DOMAIN runs : runs[r].seen \in Seq(1 .. MaxRuns)
<1>1. DOMAIN runs = 1 .. Len(runs) /\ Len(runs) \in Nat /\ MaxRuns \in Nat
    BY SessionAssumption DEF TypeOK
<1>2. DOMAIN runs \subseteq Nat /\ DOMAIN runs \subseteq 1 .. MaxRuns
    BY <1>1 DEF TypeOK
<1>3. evidence \in Seq(1 .. MaxRuns)
    BY <1>1 DEF TypeOK
<1>4. \A r \in DOMAIN runs : runs[r] \in ToolRun
    BY DEF TypeOK
<1>5. \A run \in ToolRun : run.seen \in Seq(1 .. MaxRuns)
    BY DEF ToolRun
<1> QED
    BY <1>2, <1>3, <1>4, <1>5

\* The step that decides a check, or fails to.
LEMMA AskSees ==
    ASSUME SessionInv, TypeOK', SightInv, NEW r \in DOMAIN runs, RunStep(r), Beside(r),
           runs[r].stage = "asking"
    PROVE  SightInv'
<1>1. /\ runs'[r].seen = evidence /\ evidence' = evidence
      /\ runs'[r].stage \in {"answered", "failed"}
    BY DEF RunStep
<1>2. /\ DOMAIN runs' = DOMAIN runs /\ session' = session
      /\ \A q \in DOMAIN runs : q # r => runs'[q] = runs[q]
      /\ runs'[r].tool = runs[r].tool /\ runs'[r].session = runs[r].session
      /\ runs'[r].beside = runs[r].beside
    BY DEF Beside
<1>3. TypeOK /\ StageOK(r) /\ EvidenceOK
    BY DEF SessionInv
<1>4. runs[r].session = session /\ Sensitive(r)
    BY <1>3 DEF StageOK, InFlightStages
<1>5. \A q \in DOMAIN runs :
          /\ runs'[q].session = runs[q].session /\ runs'[q].beside = runs[q].beside
          /\ runs'[q].stage = "recorded" <=> runs[q].stage = "recorded"
          /\ runs'[q].stage \in InFlightStages => runs[q].stage \in InFlightStages
    BY <1>1, <1>2 DEF InFlightStages
<1>6. BesideOK'
    BY <1>2, <1>5 DEF BesideOK, SightInv
<1>7. /\ evidence \in Seq(1 .. MaxRuns) /\ DOMAIN runs \subseteq Nat
      /\ \A q \in DOMAIN runs : runs[q].seen \in Seq(1 .. MaxRuns)
    BY <1>3, SeenType
<1>8. \A q : Saw(r, q)' <=> InEvidence(q)
    BY <1>1 DEF Saw, InEvidence
<1>9. \A q : InEvidence(q) => q \in DOMAIN runs
    BY <1>3 DEF InEvidence, TypeOK
<1>10. SightOK(r)'
    <2>1. Begins(evidence, evidence)
        BY <1>7 DEF Begins
    <2>2. ASSUME NEW q \in DOMAIN runs, runs[q].stage = "recorded", runs[q].session = session
          PROVE  Saw(r, q)'
        BY <1>3, <1>8, <2>2 DEF EvidenceOK
    <2>3. ASSUME NEW q \in DOMAIN runs, Saw(r, q)'
          PROVE  runs[q].session = session /\ (q < r \/ r \in runs[q].beside)
        <3>1. runs[q].stage = "recorded" /\ runs[q].session = session
            BY <1>3, <1>8, <2>3 DEF EvidenceOK
        <3>2. q # r
            BY <3>1
        <3>3. r < q => r \in runs[q].beside
            BY DEF SightInv, BesideOK, InFlightStages
        <3> QED
            BY <1>7, <3>1, <3>2, <3>3
    <2> QED
        BY <1>1, <1>2, <1>4, <1>5, <1>8, <1>9, <2>1, <2>2, <2>3 DEF SightOK
<1>11. ASSUME NEW q \in DOMAIN runs, q # r, IsAsked(q)'
       PROVE  /\ IsAsked(q) /\ SightOK(q) /\ SightOK(q)'
              /\ runs'[q] = runs[q]
    <2>1. runs'[q] = runs[q]
        BY <1>2, <1>11
    <2>2. IsAsked(q)
        BY <1>11, <2>1 DEF IsAsked, Sensitive
    <2>3. SightOK(q)
        BY <2>2 DEF SightInv
    <2>4. \A p : Saw(q, p)' <=> Saw(q, p)
        BY <2>1 DEF Saw
    <2> QED
        BY <1>1, <1>2, <1>5, <2>1, <2>2, <2>3, <2>4 DEF SightOK
<1>12. ASSUME NEW q \in DOMAIN runs, q # r, IsAsked(q)', runs'[q].session = runs'[r].session
       PROVE  Begins(runs'[q].seen, runs'[r].seen) \/ Begins(runs'[r].seen, runs'[q].seen)
    BY <1>1, <1>2, <1>4, <1>11, <1>12 DEF SightOK
<1>13. Begins(runs'[r].seen, runs'[r].seen)
    BY <1>1, <1>7 DEF Begins
<1>14. ChecksAgree'
    <2> SUFFICES ASSUME NEW p \in DOMAIN runs, NEW q \in DOMAIN runs,
                        IsAsked(p)', IsAsked(q)', runs'[p].session = runs'[q].session
                 PROVE  \/ Begins(runs'[p].seen, runs'[q].seen)
                        \/ Begins(runs'[q].seen, runs'[p].seen)
        BY <1>2 DEF ChecksAgree
    <2>1. CASE p = r \/ q = r
        BY <1>12, <1>13, <2>1
    <2>2. CASE p # r /\ q # r
        BY <1>11, <2>2 DEF SightInv, ChecksAgree
    <2> QED
        BY <2>1, <2>2
<1> QED
    BY <1>2, <1>6, <1>10, <1>11, <1>14 DEF SightInv

\* A later step of a run, which tells no other check anything.
LEMMA LaterSees ==
    ASSUME SessionInv, TypeOK', SightInv, NEW r \in DOMAIN runs, RunStep(r), Beside(r),
           runs[r].stage # "asking"
    PROVE  SightInv'
<1>1. /\ runs'[r].seen = runs[r].seen
      /\ runs[r].stage \in InFlightStages /\ runs'[r].stage # "asking"
      /\ evidence' = evidence \/ evidence' = Append(evidence, r)
    BY DEF RunStep, Told, InFlightStages
<1>2. /\ DOMAIN runs' = DOMAIN runs /\ session' = session
      /\ \A q \in DOMAIN runs : q # r => runs'[q] = runs[q]
      /\ runs'[r].tool = runs[r].tool /\ runs'[r].session = runs[r].session
      /\ runs'[r].beside = runs[r].beside
    BY DEF Beside
<1>3. TypeOK
    BY DEF SessionInv
<1>4. \A q \in DOMAIN runs :
          /\ runs'[q].session = runs[q].session /\ runs'[q].beside = runs[q].beside
          /\ runs'[q].seen = runs[q].seen
          /\ runs'[q].stage \in InFlightStages => runs[q].stage \in InFlightStages
          /\ IsAsked(q)' <=> IsAsked(q)
    BY <1>1, <1>2 DEF InFlightStages, IsAsked, Sensitive
<1>5. BesideOK'
    BY <1>2, <1>4 DEF BesideOK, SightInv
<1>6. ChecksAgree'
    BY <1>2, <1>4 DEF ChecksAgree, SightInv
<1>7. ASSUME NEW p \in DOMAIN runs, IsAsked(p) PROVE SightOK(p)'
    <2>1. SightOK(p)
        BY <1>7 DEF SightInv
    <2>2. \A q : Saw(p, q)' <=> Saw(p, q)
        BY <1>4 DEF Saw
    <2>3. Begins(runs[p].seen, evidence) => Begins(runs[p].seen, evidence')
        <3>1. /\ evidence \in Seq(1 .. MaxRuns) /\ runs[p].seen \in Seq(1 .. MaxRuns) /\ r \in 1 .. MaxRuns
            BY <1>3, SeenType
        <3> QED
            BY <1>1, <3>1, BeginningStays
    <2>4. r < p => r \in runs[p].beside
        BY <1>1 DEF SightInv, BesideOK
    <2> QED
        BY <1>2, <1>4, <2>1, <2>2, <2>3, <2>4 DEF SightOK
<1> QED
    BY <1>2, <1>4, <1>5, <1>6, <1>7 DEF SightInv

LEMMA StartSees ==
    ASSUME SessionInv, SightInv, NEW tool \in Tool, Start(tool)
    PROVE  SightInv'
<1>0. PICK new \in Nat : new = Len(runs) + 1
    BY DEF SessionInv, TypeOK
<1>1. /\ DOMAIN runs' = DOMAIN runs \cup {new}
      /\ DOMAIN runs = 1 .. Len(runs)
      /\ \A q \in DOMAIN runs : q < new /\ q # new /\ runs'[q] = runs[q]
    <2>1. /\ DOMAIN runs' = DOMAIN runs \cup {new}
          /\ DOMAIN runs = 1 .. Len(runs) /\ Len(runs) \in Nat
          /\ \A q \in DOMAIN runs : runs'[q] = runs[q]
        BY <1>0, StartType, Started DEF SessionInv
    <2> QED
        BY <1>0, <2>1
<1>2. /\ runs'[new].tool = tool /\ runs'[new].session = session
      /\ runs'[new].beside = InFlight
      /\ runs'[new].stage = IF MatchAction(tool) = None THEN "running" ELSE "asking"
    <2>1. runs'[new] =
              [tool |-> tool, session |-> session, start |-> now,
               stage |-> IF MatchAction(tool) = None THEN "running" ELSE "asking",
               beside |-> InFlight, seen |-> <<>>, effect |-> None,
               result |-> None, at |-> None]
        BY <1>0, StartType DEF SessionInv
    <2> QED
        BY <2>1
<1>3. evidence' = evidence /\ session' = session
    BY DEF Start
<1>4. ~IsAsked(new)'
    BY <1>2 DEF IsAsked, Sensitive
<1>5. \A q \in DOMAIN runs : IsAsked(q)' <=> IsAsked(q)
    BY <1>1 DEF IsAsked, Sensitive
<1>6. \A q \in DOMAIN runs : q \notin InFlight => runs[q].stage \notin InFlightStages
    BY DEF InFlight
<1>7. \A q \in DOMAIN runs : ~(new < q)
    BY <1>0, <1>1
<1>8. BesideOK'
    <2> SUFFICES ASSUME NEW p \in DOMAIN runs', NEW q \in DOMAIN runs',
                        q < p, q \notin runs'[p].beside
                 PROVE  runs'[q].stage \notin InFlightStages
        BY DEF BesideOK
    <2>1. q \in DOMAIN runs
        BY <1>0, <1>1, <1>7
    <2>2. CASE p = new
        BY <1>1, <1>2, <1>6, <2>1, <2>2
    <2>3. CASE p \in DOMAIN runs
        BY <1>1, <2>1, <2>3 DEF SightInv, BesideOK
    <2> QED
        BY <1>1, <2>2, <2>3
<1>9. ChecksAgree'
    BY <1>1, <1>4, <1>5 DEF ChecksAgree, SightInv
<1>10. ASSUME NEW p \in DOMAIN runs, IsAsked(p) PROVE SightOK(p)'
    <2>1. SightOK(p)
        BY <1>10 DEF SightInv
    <2>2. \A q : Saw(p, q)' <=> Saw(p, q)
        BY <1>1 DEF Saw
    <2>3. ~Saw(p, new) /\ ~(new < p)
        BY <1>1, <1>7, <2>1 DEF SightOK
    <2> QED
        BY <1>1, <1>3, <2>1, <2>2, <2>3 DEF SightOK
<1> QED
    BY <1>1, <1>4, <1>5, <1>8, <1>9, <1>10 DEF SightInv

LEMMA SightStep == SessionInv /\ SightInv /\ [Next]_vars => SightInv'
<1> SUFFICES ASSUME SessionInv, SightInv, [Next]_vars PROVE SightInv'
    OBVIOUS
<1>1. TypeOK'
    BY InvAsking, TypeStep
<1>2. ASSUME NEW tool \in Tool, Start(tool) PROVE SightInv'
    BY <1>2, StartSees
<1>3. ASSUME NEW r \in DOMAIN runs, Enforce(r) \/ Run(r) PROVE SightInv'
    <2>1. RunStep(r) /\ Beside(r)
        BY <1>3, InvAsking, OneMove
    <2> QED
        BY <1>1, <2>1, AskSees, LaterSees
<1>4. ASSUME runs' = runs, \/ UNCHANGED <<evidence, session>>
                           \/ NewSession
      PROVE  SightInv'
    <2>1. BesideOK' /\ ChecksAgree'
        BY <1>4 DEF SightInv, BesideOK, ChecksAgree, IsAsked, Sensitive
    <2>2. ASSUME NEW p \in DOMAIN runs, IsAsked(p) PROVE SightOK(p)'
        <3>1. SightOK(p)
            BY <2>2 DEF SightInv
        <3>2. \A q : Saw(p, q)' <=> Saw(p, q)
            BY <1>4 DEF Saw
        <3>3. CASE UNCHANGED <<evidence, session>>
            BY <1>4, <3>1, <3>2, <3>3 DEF SightOK
        <3>4. CASE NewSession
            <4>1. session' = session + 1 /\ session \in Nat
                BY <3>4 DEF NewSession, SessionInv, TypeOK
            <4>2. runs[p].session \in Nat /\ runs[p].session <= session
                <5>1. runs[p] \in ToolRun
                    BY DEF SessionInv, TypeOK
                <5>2. \A run \in ToolRun : run.session \in 1 .. MaxSessions
                    BY DEF ToolRun
                <5> QED
                    BY <5>1, <5>2, SessionAssumption DEF SessionInv, StageOK
            <4>3. runs'[p].session # session'
                BY <1>4, <4>1, <4>2
            <4> QED
                BY <1>4, <3>1, <3>2, <4>3 DEF SightOK
        <3> QED
            BY <1>4, <3>3, <3>4
    <2>3. \A p \in DOMAIN runs : IsAsked(p)' <=> IsAsked(p)
        BY <1>4 DEF IsAsked, Sensitive
    <2> QED
        BY <1>4, <2>1, <2>2, <2>3 DEF SightInv
<1>5. ASSUME NEW r \in DOMAIN runs, ReportRefusal(r) PROVE SightInv'
    BY <1>4, <1>5 DEF ReportRefusal
<1>6. ASSUME NewSession PROVE SightInv'
    BY <1>4, <1>6 DEF NewSession
<1>7. ASSUME Tick \/ UNCHANGED vars PROVE SightInv'
    BY <1>4, <1>7 DEF Tick, vars
<1> QED
    BY <1>2, <1>3, <1>5, <1>6, <1>7 DEF Next

LEMMA SightInit == Init => SightInv
BY DEF Init, SightInv, BesideOK, ChecksAgree

\* A check is decided on all that was recorded in its session when it started,
\* and of later runs only on those beside it, and two checks of a session agree
\* on the order of the evidence, however many tools run at once.
THEOREM ChecksSeeWhatCameBefore == Spec => []SeesWhatCameBefore
<1>1. SessionInv /\ SightInv => SeesWhatCameBefore
    <2> SUFFICES ASSUME SessionInv, SightInv PROVE SeesWhatCameBefore
        OBVIOUS
    <2>1. \A r : r \in Asked <=> r \in DOMAIN runs /\ IsAsked(r)
        BY DEF Asked, IsAsked
    <2>2. \A r, q : q \in ToSet(runs[r].seen) <=> Saw(r, q)
        BY DEF ToSet, Saw
    <2>3. ASSUME NEW r \in Asked, NEW q \in DOMAIN runs
          PROVE  /\ (/\ q < r /\ q \notin runs[r].beside
                     /\ runs[q].session = runs[r].session
                     /\ runs[q].stage = "recorded") => q \in ToSet(runs[r].seen)
                 /\ q \in ToSet(runs[r].seen) =>
                       /\ runs[q].session = runs[r].session
                       /\ q < r \/ r \in runs[q].beside
        BY <2>1, <2>2 DEF SightInv, SightOK
    <2>4. ASSUME NEW r \in Asked, NEW q \in Asked, runs[r].session = runs[q].session
          PROVE  IsPrefix(runs[r].seen, runs[q].seen) \/ IsPrefix(runs[q].seen, runs[r].seen)
        <3>1. runs[r].seen \in Seq(1 .. MaxRuns) /\ runs[q].seen \in Seq(1 .. MaxRuns)
            BY <2>1, SeenType DEF SessionInv
        <3>2. \/ Begins(runs[r].seen, runs[q].seen)
              \/ Begins(runs[q].seen, runs[r].seen)
            BY <2>1, <2>4 DEF SightInv, ChecksAgree
        <3> QED
            BY <3>1, <3>2, PrefixIsBeginning
    <2> QED
        BY <2>3, <2>4 DEF SeesWhatCameBefore
<1> QED
    BY <1>1, SightInit, SightStep, SessionAlways, PTL DEF Spec

-----------------------------------------------------------------------------
(* A session implements Enforcement.                                       *)

LEMMA OutcomeIs ==
    ASSUME NEW r \in DOMAIN runs, Sensitive(r)
    PROVE  /\ runs[r].stage \in {"asking", "answered"} => OutcomeOf(r) = "pending"
           /\ runs[r].stage = "failed" => OutcomeOf(r) = "failed"
           /\ runs[r].stage = "denied" =>
                 OutcomeOf(r) = IF runs[r].effect = "review" THEN "parked" ELSE "refused"
           /\ runs[r].stage \in {"running", "ended", "recorded", "errored"} =>
                 OutcomeOf(r) = "executed"
BY DEF OutcomeOf

LEMMA OutcomeElse ==
    ASSUME NEW r, r \notin DOMAIN runs \/ ~Sensitive(r)
    PROVE  OutcomeOf(r) = "pending"
BY DEF OutcomeOf

\* A step that neither audits a verdict nor changes an outcome is invisible.
LEMMA Invisible ==
    ASSUME trail' = trail, \A c \in 1 .. MaxRuns : OutcomeOf(c)' = OutcomeOf(c)
    PROVE  UNCHANGED Promise!vars
<1>1. Ledger' = Ledger
    BY DEF Ledger
<1>2. Outcome' = Outcome
    BY DEF Outcome
<1> QED
    BY <1>1, <1>2 DEF Promise!vars

\* An audited verdict is one in the ledger.
LEMMA LedgerHolds ==
    ASSUME NEW r, NEW e, [check |-> r, effect |-> e] \in trail
    PROVE  Promise!Verdict(r, e) \in Ledger
BY DEF Ledger, Promise!Verdict

\* One more verdict audited is one more entry.
LEMMA LedgerGrows ==
    ASSUME NEW r, NEW e, trail' = trail \cup {[check |-> r, effect |-> e]}
    PROVE  Ledger' = Ledger \cup {Promise!Verdict(r, e)}
<1>1. ASSUME NEW x \in Ledger' PROVE x \in Ledger \cup {Promise!Verdict(r, e)}
    BY <1>1 DEF Ledger, Promise!Verdict
<1>2. ASSUME NEW x \in Ledger PROVE x \in Ledger'
    BY <1>2 DEF Ledger
<1>3. Promise!Verdict(r, e) \in Ledger'
    BY LedgerHolds DEF Ledger, Promise!Verdict
<1> QED
    BY <1>1, <1>2, <1>3

LEMMA PromiseRun ==
    ASSUME SessionInv, NEW r \in DOMAIN runs, RunStep(r), Beside(r)
    PROVE  Promise!Next \/ UNCHANGED Promise!vars
<1>1. TypeOK /\ StageOK(r) /\ r \in 1 .. MaxRuns
    BY SeenType DEF SessionInv
<1>2. /\ DOMAIN runs' = DOMAIN runs
      /\ \A q \in DOMAIN runs : q # r => runs'[q] = runs[q]
      /\ Sensitive(r)' <=> Sensitive(r)
    BY DEF Beside, Sensitive
<1>3. ASSUME NEW c, c # r PROVE OutcomeOf(c)' = OutcomeOf(c)
    <2>1. CASE c \in DOMAIN runs
        BY <1>2, <1>3, <2>1 DEF OutcomeOf, Sensitive
    <2>2. CASE c \notin DOMAIN runs
        BY <1>2, <2>2 DEF OutcomeOf
    <2> QED
        BY <2>1, <2>2
<1>4. ASSUME trail' = trail, OutcomeOf(r)' = OutcomeOf(r) PROVE UNCHANGED Promise!vars
    BY <1>3, <1>4, Invisible
<1>5. ASSUME trail' = trail, NEW end, OutcomeOf(r) = "pending", OutcomeOf(r)' = end
      PROVE  /\ Outcome[r] = "pending" /\ Ledger' = Ledger
             /\ Outcome' = [Outcome EXCEPT ![r] = end]
    <2>1. Ledger' = Ledger
        BY <1>5 DEF Ledger
    <2>2. Outcome' = [c \in 1 .. MaxRuns |-> OutcomeOf(c)']
        BY DEF Outcome
    <2> QED
        BY <1>1, <1>3, <1>5, <2>1, <2>2 DEF Outcome
<1>6. CASE ~Sensitive(r)
    <2>1. OutcomeOf(r) = "pending" /\ OutcomeOf(r)' = "pending"
        BY <1>2, <1>6, OutcomeElse DEF OutcomeOf
    <2>2. runs[r].stage \notin {"asking", "answered"}
        BY <1>1, <1>6 DEF StageOK
    <2>3. trail' = trail
        BY <2>2 DEF RunStep
    <2> QED
        BY <1>4, <2>1, <2>3
<1>7. CASE Sensitive(r) /\ runs[r].stage = "asking" /\ runs'[r].stage = "answered"
    <2>1. /\ runs'[r].effect \in Effect
          /\ trail' = trail \cup {[check |-> r, effect |-> runs'[r].effect]}
        BY <1>7 DEF RunStep
    <2>2. OutcomeOf(r) = "pending" /\ OutcomeOf(r)' = "pending"
        BY <1>2, <1>7 DEF OutcomeOf
    <2>3. Outcome' = Outcome /\ Outcome[r] = "pending"
        BY <1>1, <1>3, <2>2 DEF Outcome
    <2>4. \A e \in Effect : Promise!Verdict(r, e) \notin Ledger
        BY <1>1, <1>7 DEF StageOK, Ledger, Promise!Verdict
    <2>5. Ledger' = Ledger \cup {Promise!Verdict(r, runs'[r].effect)}
        BY <2>1, LedgerGrows
    <2>6. Promise!Decide(r)
        BY <2>1, <2>3, <2>4, <2>5 DEF Promise!Decide, Promise!Effect, Effect
    <2> QED
        BY <1>1, <2>6 DEF Promise!Next
<1>8. CASE Sensitive(r) /\ runs[r].stage \in {"asking", "answered"} /\ runs'[r].stage = "failed"
    <2>1. OutcomeOf(r) = "pending" /\ OutcomeOf(r)' = "failed" /\ trail' = trail
        BY <1>2, <1>8 DEF OutcomeOf, RunStep
    <2>2. /\ Outcome[r] = "pending" /\ Ledger' = Ledger
          /\ Outcome' = [Outcome EXCEPT ![r] = "failed"]
        BY <1>5, <2>1
    <2>3. Outcome' = [c \in 1 .. MaxRuns |-> IF c \in {r} THEN "failed" ELSE Outcome[c]]
        BY <2>2 DEF Outcome
    <2>4. {r} \in SUBSET {c \in 1 .. MaxRuns : Outcome[c] = "pending"}
        BY <1>1, <2>2
    <2>5. Promise!Fail
        BY <2>2, <2>3, <2>4 DEF Promise!Fail
    <2> QED
        BY <2>5 DEF Promise!Next
<1>9. CASE Sensitive(r) /\ runs[r].stage = "answered" /\ runs'[r].stage \in {"running", "denied"}
    <2>1. /\ trail' = trail /\ runs'[r].effect = runs[r].effect
          /\ runs'[r].stage = "running" => Executes(runs[r].effect)
          /\ runs'[r].stage = "denied" => ~Executes(runs[r].effect)
        BY <1>9 DEF RunStep, Told
    <2>2. runs[r].effect \in Effect /\ Promise!Verdict(r, runs[r].effect) \in Ledger
        BY <1>1, <1>9, LedgerHolds DEF StageOK, Checked
    <2>3. OutcomeOf(r) = "pending"
        BY <1>9, OutcomeIs
    <2>4. CASE runs'[r].stage = "running"
        <3>1. OutcomeOf(r)' = "executed"
            BY <1>2, <1>9, <2>4 DEF OutcomeOf
        <3>2. Promise!Execute(r)
            BY <1>5, <2>1, <2>2, <2>3, <2>4, <3>1
            DEF Promise!Execute, Promise!Finish, Promise!Effect, Effect,
                Promise!Executes, Executes
        <3> QED
            BY <1>1, <3>2 DEF Promise!Next
    <2>5. CASE runs'[r].stage = "denied" /\ runs[r].effect = "review"
        <3>1. OutcomeOf(r)' = "parked"
            BY <1>2, <1>9, <2>1, <2>5 DEF OutcomeOf
        <3>2. Promise!Park(r)
            BY <1>5, <2>1, <2>2, <2>3, <2>5, <3>1 DEF Promise!Park, Promise!Finish
        <3> QED
            BY <1>1, <3>2 DEF Promise!Next
    <2>6. CASE runs'[r].stage = "denied" /\ runs[r].effect # "review"
        <3>1. OutcomeOf(r)' = "refused"
            BY <1>2, <1>9, <2>1, <2>6 DEF OutcomeOf
        <3>2. runs[r].effect = "block"
            BY <2>1, <2>2, <2>6 DEF Effect, Executes
        <3>3. Promise!Refuse(r)
            BY <1>5, <2>1, <2>2, <2>3, <3>1, <3>2 DEF Promise!Refuse, Promise!Finish
        <3> QED
            BY <1>1, <3>3 DEF Promise!Next
    <2> QED
        BY <1>9, <2>4, <2>5, <2>6
<1>10. CASE Sensitive(r) /\ runs[r].stage \in {"running", "ended"}
    <2>1. /\ trail' = trail
          /\ runs'[r].stage \in {"ended", "recorded", "errored"}
        BY <1>10 DEF RunStep
    <2>2. OutcomeOf(r) = "executed" /\ OutcomeOf(r)' = "executed"
        BY <1>2, <1>10, <2>1 DEF OutcomeOf
    <2> QED
        BY <1>4, <2>1, <2>2
<1> QED
    BY <1>6, <1>7, <1>8, <1>9, <1>10 DEF RunStep

LEMMA PromiseStep == SessionInv /\ [Next]_vars => [Promise!Next]_(Promise!vars)
<1> SUFFICES ASSUME SessionInv, [Next]_vars
             PROVE  Promise!Next \/ UNCHANGED Promise!vars
    OBVIOUS
<1>1. ASSUME NEW tool \in Tool, Start(tool) PROVE UNCHANGED Promise!vars
    <2>0. PICK new \in Nat : new = Len(runs) + 1
        BY DEF SessionInv, TypeOK
    <2>1. /\ DOMAIN runs' = DOMAIN runs \cup {new} /\ new \notin DOMAIN runs
          /\ \A q \in DOMAIN runs : runs'[q] = runs[q]
        BY <1>1, <2>0, StartType, Started DEF SessionInv
    <2>2. runs'[new].tool = tool
          /\ runs'[new].stage = IF MatchAction(tool) = None THEN "running" ELSE "asking"
        <3>1. runs'[new] =
                  [tool |-> tool, session |-> session, start |-> now,
                   stage |-> IF MatchAction(tool) = None THEN "running" ELSE "asking",
                   beside |-> InFlight, seen |-> <<>>, effect |-> None,
                   result |-> None, at |-> None]
            BY <1>1, <2>0, StartType DEF SessionInv
        <3> QED
            BY <3>1
    <2>3. OutcomeOf(new) = "pending" /\ OutcomeOf(new)' = "pending"
        BY <2>1, <2>2 DEF OutcomeOf, Sensitive
    <2>4. \A c : c # new => OutcomeOf(c)' = OutcomeOf(c)
        BY <2>1 DEF OutcomeOf, Sensitive
    <2>5. trail' = trail
        BY <1>1 DEF Start
    <2> QED
        BY <2>3, <2>4, <2>5, Invisible
<1>2. ASSUME NEW r \in DOMAIN runs, Enforce(r) \/ Run(r)
      PROVE  Promise!Next \/ UNCHANGED Promise!vars
    BY <1>2, InvAsking, OneMove, PromiseRun
<1>3. ASSUME UNCHANGED <<runs, trail>> PROVE UNCHANGED Promise!vars
    <2>1. \A c : OutcomeOf(c)' = OutcomeOf(c)
        BY <1>3 DEF OutcomeOf, Sensitive
    <2> QED
        BY <1>3, <2>1, Invisible
<1>4. ASSUME \/ \E r \in DOMAIN runs : ReportRefusal(r)
             \/ NewSession \/ Tick \/ UNCHANGED vars
      PROVE  UNCHANGED <<runs, trail>>
    BY <1>4 DEF ReportRefusal, NewSession, Tick, vars
<1> QED
    BY <1>1, <1>2, <1>3, <1>4 DEF Next

LEMMA PromiseInit == Init => Promise!Init
<1> SUFFICES ASSUME Init PROVE Promise!Init
    OBVIOUS
<1>1. Ledger = {}
    BY DEF Init, Ledger
<1>2. \A c : OutcomeOf(c) = "pending"
    BY DEF Init, OutcomeOf
<1> QED
    BY <1>1, <1>2 DEF Promise!Init, Outcome

\* A session keeps the promise of Enforcement: every step of it is one that
\* Enforcement allows, or none, for any tools that overlap, fail or are refused.
THEOREM SessionImplementsEnforcement == Spec => KeepsPromise
BY PromiseInit, PromiseStep, SessionAlways, PTL DEF Spec, KeepsPromise, Promise!Spec

=============================================================================
