------------------------------- MODULE Replay -------------------------------
(***************************************************************************)
(* What "evidence-gate replay" makes of the framework's own log of a       *)
(* session: normalize, simulate and coverage of trace_adapters.py, as      *)
(* cli.py calls them.  They keep no state, so they are operators over the  *)
(* runs of Session, asked for in every state the agent can be in, with     *)
(* the runs that are still under way in the log as they are.               *)
(*                                                                         *)
(* A mapping says which of a run's times becomes observed_at (its start,   *)
(* as in the LANGSMITH and LANGFUSE presets, or its end), whether results  *)
(* are mapped (OPENAI has none) and whether the timestamps have a zone.    *)
(***************************************************************************)
EXTENDS Session

LOCAL INSTANCE SequencesExt

CONSTANT Mappings

TraceMapping == [observed_at : {"start", "at"}, result : BOOLEAN, zoned : BOOLEAN]

ASSUME MappingsAssumption == Mappings \subseteq TraceMapping

-----------------------------------------------------------------------------
\* normalize, for one record; call_id is the run.
CallOf(r, mapping) ==
    [call_id |-> r, tool |-> runs[r].tool,
     observed_at |-> runs[r][mapping.observed_at], zoned |-> mapping.zoned,
     result |-> IF mapping.result THEN runs[r].result ELSE None]

HasTime(call) == call.observed_at # None

\* normalize: a record without the time that is asked for is skipped.  The calls
\* are given by the numbers of their runs, and stand in that order.
Normalize(mapping) == {r \in DOMAIN runs : HasTime(CallOf(r, mapping))}

Skipped(mapping) == DOMAIN runs \ Normalize(mapping)

Gated(log) == {r \in log : Sensitive(r)}

\* Mutation of Turn: the evidence is not reset at a sensitive call.
EverythingBefore(log, r) == {q \in log \ Gated(log) : q < r}

\* simulate's list "evidence" when it comes to a sensitive call: what was
\* gathered since the one before, which consumed the evidence before it.
Turn(log, r) == {q \in log : q < r /\ Gated(log) \cap (q .. r - 1) = {}}

\* ManifestBuilder.build of some of the log's calls, in their order.
BuildOf(calls, mapping) ==
    FlattenSeq([q \in DOMAIN runs |->
                   IF q \in calls THEN Extract(CallOf(q, mapping)) ELSE <<>>])

EffectAt(log, r, mapping, time) ==
    Evaluate(PolicyOf[MatchAction(runs[r].tool)],
             BuildOf(Turn(log, r), mapping), time)

\* simulate: the effect reported for each sensitive call, all at one time; an
\* engine that raises takes the whole replay with it.
Simulate(log, mapping, time) ==
    LET effects == [r \in Gated(log) |-> EffectAt(log, r, mapping, time)]
    IN  IF \E r \in Gated(log) : effects[r] = "raises" THEN None ELSE effects

ToolsIn(log) == {runs[r].tool : r \in log}

\* Mutation of Coverage: the extractors are looked at first.
CoverageByExtractor(log) ==
    LET known == ToolsIn(log) \cap DOMAIN Extractor
        gated == {t \in ToolsIn(log) \ known : MatchAction(t) # None}
    IN  [gated |-> gated, recognized |-> known,
         unclassified |-> (ToolsIn(log) \ gated) \ known]

\* coverage: a tool is gated, or else recognized evidence, or else neither.
Coverage(log) ==
    LET gated == {t \in ToolsIn(log) : MatchAction(t) # None}
        known == (ToolsIn(log) \ gated) \cap DOMAIN Extractor
    IN  [gated |-> gated, recognized |-> known,
         unclassified |-> (ToolsIn(log) \ gated) \ known]

\* cmd_replay.
ReplayCommand(mapping, time) ==
    LET log == Normalize(mapping)
    IN  [skipped  |-> Skipped(mapping), reports |-> Simulate(log, mapping, time),
         coverage |-> Coverage(log)]

-----------------------------------------------------------------------------
(* Properties.                                                             *)

\* None of the first r runs overlapped another.
Sequential(r) == \A q \in DOMAIN runs : runs[q].beside \cap (1 .. r) = {}

\* The log has every run up to r, and the same time for what was recorded.
LogIsFaithful(r, mapping) ==
    /\ mapping.result /\ mapping.zoned
    /\ \A q \in 1 .. r : HasTime(CallOf(q, mapping))
    /\ \A q \in 1 .. r - 1 :
          runs[q].stage = "recorded" => runs[q][mapping.observed_at] = runs[q].at

\* The session of r began after the sensitive run before r.
TurnIsSession(r) ==
    \A q \in 1 .. r - 1 :
        runs[q].session = runs[r].session <=> \A p \in q .. r - 1 : ~Sensitive(p)

\* The verdict that a replay of the first r records reports for r at the time
\* at which it was asked live, or None when there is no report.
Replayed(r, mapping) ==
    LET log     == Normalize(mapping) \cap (1 .. r)
        reports == Simulate(log, mapping, runs[r].start)
    IN  IF reports = None THEN None ELSE reports[r]

\* A replay tells what the gate decided live (trace_adapters.py:91), if the
\* agent checks one sensitive call to a turn, its tools do not overlap and the
\* log has their results and the times at which the session recorded them.
ReplayAgreesPerTurn ==
    \A r \in DOMAIN runs : \A mapping \in Mappings :
        (/\ runs[r].effect # None
         /\ Sequential(r) /\ TurnIsSession(r) /\ LogIsFaithful(r, mapping))
        => Replayed(r, mapping) \in {runs[r].effect, None}

\* Coverage accounts for every record (trace_adapters.py:104): a tool is in one
\* class or its records are all skipped; the gated ones are those with reports;
\* and what is left unclassified was checked neither live nor in the replay,
\* and changes no report.
CoverageIsHonest ==
    \A mapping \in Mappings :
        LET log      == Normalize(mapping)
            replay   == ReplayCommand(mapping, now)
            residual == replay.coverage.unclassified
            kept     == {r \in log : runs[r].tool \notin residual}
        IN  /\ \A r \in DOMAIN runs \ replay.skipped :
                  Cardinality({class \in DOMAIN replay.coverage :
                                  runs[r].tool \in replay.coverage[class]}) = 1
            /\ replay.reports # None =>
                  replay.coverage.gated = ToolsIn(DOMAIN replay.reports)
            /\ \A r \in DOMAIN runs :
                  /\ runs[r].effect # None =>
                        runs[r].tool \in replay.coverage.gated \/ r \in replay.skipped
                  /\ runs[r].tool \in residual => Extract(ToolCall(r)) = <<>>
            /\ Simulate(kept, mapping, now) = replay.reports

=============================================================================
