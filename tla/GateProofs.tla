----------------------------- MODULE GateProofs -----------------------------
(***************************************************************************)
(* Proofs about Gate, for any sets of calls, any number of threads, any    *)
(* collaborators that fail and any number of crashes.                      *)
(***************************************************************************)
EXTENDS Gate, FiniteSetTheorems, TLAPS

-----------------------------------------------------------------------------
(* Types.                                                                  *)

\* What the locals of a call hold at each point, and which points a check and
\* a resolution can be at.  TypeOK alone is not inductive: only this says that
\* a record is never built from a local that is still None.
LocalsOK ==
    /\ \A c \in Check :
          /\ pc[c] \notin {"load", "update", "resolved"}
          /\ pc[c] \notin {"idle", "engine_failed"} =>
                job[c].effect \in Effect /\ job[c].check = c
    /\ \A r \in Resolution :
          /\ pc[r] \notin {"enqueue", "emit", "reply", "executed", "parked",
                           "refused", "engine_failed", "sink_failed"}
          /\ pc[r] # "idle" => job[r].effect \in Effect
          /\ pc[r] \in InAppend \cup {"update"} => job[r].check \in Check
          /\ pc[r] = "update" => job[r].ticket \in DOMAIN tickets

TypeInv == TypeOK /\ LocalsOK

\* The hash of the last record is a digest.
LEMMA LastHashType ==
    ASSUME NEW log \in Seq(Record)
    PROVE  LastHash(log) \in Seq(Body)
<1>1. <<>> \in Seq(Body)
    OBVIOUS
<1>2. ASSUME log # <<>> PROVE log[Len(log)].hash \in Seq(Body)
    <2>1. Len(log) \in DOMAIN log
        BY <1>2
    <2>2. log[Len(log)] \in Record
        BY <2>1
    <2> QED
        BY <2>2 DEF Record
<1> QED
    BY <1>1, <1>2 DEF LastHash, GENESIS_HASH

\* A record built from the locals of a call inside append is a record.
LEMMA AuditRecordType ==
    ASSUME TypeInv, NEW c \in Call, pc[c] \in InAppend
    PROVE  AuditRecord(job[c].prev, BodyOf(c)) \in Record
<1>1. job[c] \in Job
    BY DEF TypeInv, TypeOK
<1>2. job[c].effect \in Effect /\ job[c].check \in Check
    BY DEF TypeInv, LocalsOK, Call, InAppend
<1>3. Approver(c) \in Resolution \cup {None}
    BY DEF Approver
<1>4. BodyOf(c) \in Body
    BY <1>1, <1>2, <1>3 DEF BodyOf, Body, Job
<1>5. Append(job[c].prev, BodyOf(c)) \in Seq(Body)
    BY <1>1, <1>4 DEF Job
<1> QED
    BY <1>1, <1>4, <1>5 DEF AuditRecord, ChainHash, Record, Job

\* Assigning a local of a call leaves a well-typed set of locals.
LEMMA JobUpdate ==
    ASSUME NEW j \in Job
    PROVE  /\ \A e \in Effect, c \in Check :
                 [j EXCEPT !.effect = e, !.check = c] \in Job
           /\ \A e \in Effect, t \in Nat :
                 [j EXCEPT !.effect = e, !.ticket = t] \in Job
           /\ \A c \in Check : [j EXCEPT !.check = c] \in Job
           /\ \A p \in Seq(Body) : [j EXCEPT !.prev = p] \in Job
           /\ \A n \in Nat : [j EXCEPT !.seq = n] \in Job
<1>1. ASSUME NEW e \in Effect PROVE [j EXCEPT !.effect = e] \in Job
    BY DEF Job
<1>2. ASSUME NEW e \in Effect, NEW c \in Check
      PROVE  [j EXCEPT !.effect = e, !.check = c] \in Job
    BY <1>1 DEF Job
<1>3. ASSUME NEW e \in Effect, NEW t \in Nat
      PROVE  [j EXCEPT !.effect = e, !.ticket = t] \in Job
    BY DEF Job
<1>4. ASSUME NEW c \in Check PROVE [j EXCEPT !.check = c] \in Job
    BY DEF Job
<1>5. ASSUME NEW p \in Seq(Body) PROVE [j EXCEPT !.prev = p] \in Job
    BY DEF Job
<1>6. ASSUME NEW n \in Nat PROVE [j EXCEPT !.seq = n] \in Job
    BY DEF Job
<1> QED
    BY <1>2, <1>3, <1>4, <1>5, <1>6

\* Resolving a ticket leaves a ticket.
LEMMA TicketUpdate ==
    ASSUME NEW t \in Ticket
    PROVE  /\ \A r \in Resolution : [t EXCEPT !.approver = r] \in Ticket
           /\ \A e \in Effect : [t EXCEPT !.effect = e] \in Ticket
           /\ \A r \in Resolution, e \in Effect :
                 [[t EXCEPT !.effect = e] EXCEPT !.approver = r] \in Ticket
<1>1. ASSUME NEW u \in Ticket, NEW r \in Resolution
      PROVE  [u EXCEPT !.approver = r] \in Ticket
    BY DEF Ticket
<1>2. ASSUME NEW u \in Ticket, NEW e \in Effect
      PROVE  [u EXCEPT !.effect = e] \in Ticket
    BY DEF Ticket
<1> QED
    BY <1>1, <1>2

LEMMA TypeInit == Init => TypeInv
<1> SUFFICES ASSUME Init PROVE TypeInv
    OBVIOUS
<1>1. NoJob \in Job
    BY DEF NoJob, Job, GENESIS_HASH
<1>2. TypeOK
    BY <1>1, GateAssumption DEF Init, TypeOK, PC
<1>3. LocalsOK
    BY DEF Init, LocalsOK, Call, InAppend
<1> QED
    BY <1>2, <1>3 DEF TypeInv

\* The points of a call, spelled out.
LEMMA PCs == PC = {"idle", "lost", "read_prev", "build", "append", "write",
                   "enqueue", "emit", "reply", "load", "update", "executed",
                   "parked", "refused", "resolved", "engine_failed",
                   "file_failed", "queue_failed", "sink_failed", "unknown_ticket"}
BY DEF PC, Running, InAppend, Returned, Raised

LEMMA TypeStep == TypeInv /\ [Next]_vars => TypeInv'
<1> SUFFICES ASSUME TypeInv, [Next]_vars PROVE TypeInv'
    OBVIOUS
<1> USE PCs DEF TypeInv, TypeOK, LocalsOK, Goto
<1>1. ASSUME NEW c \in Check, Evaluate(c) PROVE TypeInv'
    <2>1. PICK e \in Effect :
             job' = [job EXCEPT ![c].effect = e, ![c].check = c]
        BY <1>1 DEF Evaluate
    <2>a. [job[c] EXCEPT !.effect = e, !.check = c] \in Job
        BY JobUpdate DEF Call
    <2>2. job' \in [Call -> Job]
        BY <2>1, <2>a DEF Call
    <2>3. /\ job'[c].effect = e /\ job'[c].check = c
          /\ \A d \in Call \ {c} : job'[d] = job[d]
        BY <2>1 DEF Call, Job
    <2>4. /\ pc' = [pc EXCEPT ![c] = "read_prev"]
          /\ UNCHANGED <<records, file, tickets, crashes>>
        BY <1>1 DEF Evaluate, Admit
    <2>5. TypeOK'
        BY <2>2, <2>4
    <2>6. LocalsOK'
        BY <2>3, <2>4, CallsAssumption DEF Call, InAppend
    <2> QED
        BY <2>5, <2>6
<1>2. ASSUME NEW c \in Check, EngineRaises(c) PROVE TypeInv'
    BY <1>2, CallsAssumption DEF EngineRaises, Admit, Call, InAppend
<1>3. ASSUME NEW r \in Resolution, StartResolve(r) PROVE TypeInv'
    <2>1. PICK t \in 1 .. Len(tickets) + 1, e \in Overrides :
             job' = [job EXCEPT ![r].effect = e, ![r].ticket = t]
        BY <1>3 DEF StartResolve
    <2>a. e \in Effect /\ t \in Nat
        BY GateAssumption
    <2>b. [job[r] EXCEPT !.effect = e, !.ticket = t] \in Job
        BY <2>a, JobUpdate DEF Call
    <2>2. job' \in [Call -> Job]
        BY <2>1, <2>b DEF Call
    <2>3. job'[r].effect = e /\ \A d \in Call \ {r} : job'[d] = job[d]
        BY <2>1 DEF Call, Job
    <2>4. pc' = [pc EXCEPT ![r] = "load"] /\ tickets' = tickets
        BY <1>3 DEF StartResolve, Admit
    <2>5. TypeOK'
        BY <1>3, <2>2, <2>4 DEF StartResolve
    <2>6. LocalsOK'
        BY <2>3, <2>4, <2>a, CallsAssumption DEF Call, InAppend
    <2> QED
        BY <2>5, <2>6
<1>4. ASSUME NEW c \in Call, ReadPrev(c) PROVE TypeInv'
    <2>a. [job[c] EXCEPT !.prev = LastHash(records)] \in Job
        BY LastHashType, JobUpdate
    <2>1. job' \in [Call -> Job]
        BY <1>4, <2>a DEF ReadPrev
    <2> QED
        BY <1>4, <2>1 DEF ReadPrev, Call, InAppend, Job
<1>5. ASSUME NEW c \in Call, BuildRecord(c) PROVE TypeInv'
    <2>a. [job[c] EXCEPT !.seq = Len(records)] \in Job
        <3>1. Len(records) \in Nat /\ job[c] \in Job
            OBVIOUS
        <3> QED
            BY <3>1, JobUpdate
    <2>1. job' \in [Call -> Job]
        BY <1>5, <2>a DEF BuildRecord
    <2> QED
        BY <1>5, <2>1 DEF BuildRecord, Call, InAppend, Job
<1>6. ASSUME NEW c \in Call, AppendRecord(c) PROVE TypeInv'
    <2>1. records' \in Seq(Record)
        BY <1>6, AuditRecordType DEF AppendRecord, InAppend
    <2>2. LocalsOK'
        BY <1>6, CallsAssumption DEF AppendRecord, AfterAppend, Call, InAppend
    <2> QED
        BY <1>6, <2>1, <2>2 DEF AppendRecord, AfterAppend
<1>7. ASSUME NEW c \in Call, WriteLine(c) PROVE TypeInv'
    <2>1. file' \in Seq(Record)
        BY <1>7, AuditRecordType DEF WriteLine, InAppend
    <2>2. LocalsOK'
        BY <1>7, CallsAssumption DEF WriteLine, AfterAppend, Call, InAppend
    <2> QED
        BY <1>7, <2>1, <2>2 DEF WriteLine, AfterAppend
<1>8. ASSUME NEW c \in Call, WriteFails(c) PROVE TypeInv'
    BY <1>8 DEF WriteFails, Call, InAppend
<1>9. ASSUME NEW c \in Check, Enqueue(c) PROVE TypeInv'
    <2>1. tickets' \in Seq(Ticket) /\ DOMAIN tickets \subseteq DOMAIN tickets'
        BY <1>9 DEF Enqueue, Ticket
    <2> QED
        BY <1>9, <2>1, CallsAssumption DEF Enqueue, Call, InAppend
<1>10. ASSUME NEW c \in Check, EnqueueFails(c) PROVE TypeInv'
    BY <1>10, CallsAssumption DEF EnqueueFails, Call, InAppend
<1>11. ASSUME NEW c \in Check, Emit(c) PROVE TypeInv'
    BY <1>11, CallsAssumption DEF Emit, Call, InAppend
<1>12. ASSUME NEW c \in Check, SinkRaises(c) PROVE TypeInv'
    BY <1>12, CallsAssumption DEF SinkRaises, Call, InAppend
<1>13. ASSUME NEW c \in Check, Reply(c) PROVE TypeInv'
    BY <1>13, CallsAssumption DEF Reply, Call, InAppend
<1>14. ASSUME NEW r \in Resolution, UnknownTicket(r) PROVE TypeInv'
    BY <1>14, CallsAssumption DEF UnknownTicket, Call, InAppend
<1>15. ASSUME NEW r \in Resolution, LoadTicket(r) PROVE TypeInv'
    <2>1. job[r].ticket \in DOMAIN tickets /\ tickets[job[r].ticket] \in Ticket
        BY <1>15 DEF LoadTicket
    <2>2. tickets[job[r].ticket].check \in Check
        BY <2>1 DEF Ticket
    <2>a. [job[r] EXCEPT !.check = tickets[job[r].ticket].check] \in Job
        BY <2>2, JobUpdate DEF Call
    <2>3. job' \in [Call -> Job]
        BY <1>15, <2>a DEF LoadTicket, Call
    <2>b. [tickets[job[r].ticket] EXCEPT !.approver = r] \in Ticket
        BY <2>1, TicketUpdate
    <2>4. tickets' \in Seq(Ticket) /\ DOMAIN tickets' = DOMAIN tickets
        BY <1>15, <2>1, <2>b DEF LoadTicket
    <2>5. TypeOK'
        BY <1>15, <2>3, <2>4 DEF LoadTicket
    <2>6. LocalsOK'
        BY <1>15, <2>2, <2>4, CallsAssumption DEF LoadTicket, Call, InAppend, Job
    <2> QED
        BY <2>5, <2>6
<1>16. ASSUME NEW r \in Resolution, UpdateTicket(r) PROVE TypeInv'
    <2>1. job[r].effect \in Effect /\ job[r].ticket \in Nat
        BY <1>16 DEF UpdateTicket, Call, Job
    <2>2. job[r].ticket \in DOMAIN tickets /\ tickets[job[r].ticket] \in Ticket
        BY <1>16 DEF UpdateTicket
    <2>3. tickets' \in Seq(Ticket) /\ DOMAIN tickets' = DOMAIN tickets
        <3>1. PICK t \in Ticket : tickets' = [tickets EXCEPT ![job[r].ticket] = t]
            BY <1>16, <2>1, <2>2, TicketUpdate DEF UpdateTicket
        <3> QED
            BY <3>1, <2>2
    <2>4. TypeOK'
        BY <1>16, <2>3 DEF UpdateTicket
    <2>5. LocalsOK'
        BY <1>16, <2>3, CallsAssumption DEF UpdateTicket, Call, InAppend
    <2> QED
        BY <2>4, <2>5
<1>17. ASSUME NEW r \in Resolution, UpdateFails(r) PROVE TypeInv'
    BY <1>17, CallsAssumption DEF UpdateFails, Call, InAppend
<1>18. ASSUME Crash PROVE TypeInv'
    BY <1>18, GateAssumption DEF Crash, Call, InAppend, Running
<1>19. ASSUME UNCHANGED vars PROVE TypeInv'
    BY <1>19 DEF vars, InAppend
<1> QED
    BY <1>1, <1>2, <1>3, <1>4, <1>5, <1>6, <1>7, <1>8, <1>9, <1>10, <1>11, <1>12,
       <1>13, <1>14, <1>15, <1>16, <1>17, <1>18, <1>19
    DEF Next, Arrive, Advance, Fail, AllEnded

LEMMA TypeAlways == Spec => []TypeInv
BY TypeInit, TypeStep, PTL DEF Spec

\* In every reachable state the variables of the gate have their types: no
\* record is built, and no ticket resolved, from a local that is not set.
THEOREM TypeCorrect == Spec => []TypeOK
BY TypeAlways, PTL DEF TypeInv

-----------------------------------------------------------------------------
(* How calls move, and what their moves do to the trail.                   *)

\* How a call may go on when it touches neither of the logs.
Edge(from, to) ==
    \/ from = "idle" /\ to \in {"read_prev", "engine_failed", "load"}
    \/ from = "read_prev" /\ to = "build"
    \/ from = "build" /\ to = "append"
    \/ from = "write" /\ to = "file_failed"
    \/ from = "enqueue" /\ to \in {"emit", "queue_failed"}
    \/ from = "emit" /\ to \in {"reply", "sink_failed"}
    \/ from = "reply" /\ to \in {"executed", "parked", "refused"}
    \/ from = "load" /\ to \in {"update", "unknown_ticket"}
    \/ from = "update" /\ to \in {"read_prev", "queue_failed"}

\* The call c goes from one point to another and nobody else moves.
Moves(c, to) ==
    /\ Edge(pc[c], to)
    /\ pc' = [pc EXCEPT ![c] = to]
    /\ \A d \in Call \ {c} : job'[d] = job[d]
    /\ UNCHANGED <<records, file, crashes>>

\* A step extends one of the logs, or is a crash, or moves one call on.
LEMMA OneMove ==
    ASSUME TypeInv, [Next]_vars
    PROVE  \/ \E c \in Call : AppendRecord(c) \/ WriteLine(c)
           \/ Crash
           \/ UNCHANGED vars
           \/ \E c \in Call, to \in PC : Moves(c, to)
<1> USE PCs DEF Goto, Moves, Edge
<1>0. pc \in [Call -> PC] /\ job \in [Call -> Job] /\ Call = Check \cup Resolution
    BY DEF TypeInv, TypeOK, Call
<1>1. ASSUME NEW c \in Check, Evaluate(c) \/ EngineRaises(c)
      PROVE  \E to \in PC : Moves(c, to)
    <2>1. CASE Evaluate(c)
        <3>1. PICK e \in Effect : job' = [job EXCEPT ![c].effect = e, ![c].check = c]
            BY <2>1 DEF Evaluate
        <3>2. \A d \in Call \ {c} : job'[d] = job[d]
            BY <1>0, <3>1
        <3>3. Moves(c, "read_prev")
            BY <2>1, <3>2 DEF Evaluate, Admit
        <3> QED
            BY <3>3
    <2>2. CASE EngineRaises(c)
        <3>1. Moves(c, "engine_failed")
            BY <2>2 DEF EngineRaises, Admit
        <3> QED
            BY <3>1
    <2> QED
        BY <1>1, <2>1, <2>2
<1>2. ASSUME NEW r \in Resolution, StartResolve(r)
      PROVE  \E to \in PC : Moves(r, to)
    <2>1. PICK t \in 1 .. Len(tickets) + 1, e \in Overrides :
             job' = [job EXCEPT ![r].effect = e, ![r].ticket = t]
        BY <1>2 DEF StartResolve
    <2>2. \A d \in Call \ {r} : job'[d] = job[d]
        BY <1>0, <2>1
    <2>3. Moves(r, "load")
        BY <1>2, <2>2 DEF StartResolve, Admit
    <2> QED
        BY <2>3
<1>3. ASSUME NEW c \in Call, ReadPrev(c) \/ BuildRecord(c) \/ WriteFails(c)
      PROVE  \E to \in PC : Moves(c, to)
    <2>1. \A d \in Call \ {c} : job'[d] = job[d]
        BY <1>0, <1>3 DEF ReadPrev, BuildRecord, WriteFails
    <2>2. \/ Moves(c, "build") \/ Moves(c, "append") \/ Moves(c, "file_failed")
        BY <1>3, <2>1 DEF ReadPrev, BuildRecord, WriteFails
    <2> QED
        BY <2>2
<1>4. ASSUME NEW c \in Check,
             Enqueue(c) \/ EnqueueFails(c) \/ Emit(c) \/ SinkRaises(c)
      PROVE  \E to \in PC : Moves(c, to)
    <2>1. \/ Moves(c, "emit") \/ Moves(c, "queue_failed")
          \/ Moves(c, "reply") \/ Moves(c, "sink_failed")
        BY <1>4 DEF Enqueue, EnqueueFails, Emit, SinkRaises
    <2> QED
        BY <2>1
<1>5. ASSUME NEW c \in Check, Reply(c)
      PROVE  \E to \in PC : Moves(c, to)
    <2>1. Moves(c, "executed") \/ Moves(c, "parked") \/ Moves(c, "refused")
        BY <1>5 DEF Reply
    <2> QED
        BY <2>1
<1>6. ASSUME NEW r \in Resolution,
             UnknownTicket(r) \/ LoadTicket(r) \/ UpdateTicket(r) \/ UpdateFails(r)
      PROVE  \E to \in PC : Moves(r, to)
    <2>1. \A d \in Call \ {r} : job'[d] = job[d]
        BY <1>0, <1>6 DEF UnknownTicket, LoadTicket, UpdateTicket, UpdateFails
    <2>2. \/ Moves(r, "unknown_ticket") \/ Moves(r, "update")
          \/ Moves(r, "read_prev") \/ Moves(r, "queue_failed")
        BY <1>6, <2>1 DEF UnknownTicket, LoadTicket, UpdateTicket, UpdateFails
    <2> QED
        BY <2>2
<1> QED
    BY <1>0, <1>1, <1>2, <1>3, <1>4, <1>5, <1>6
    DEF Next, Arrive, Advance, Fail, AllEnded

\* The append that reaches the trail: the one to the file when there is one.
Trails(c) == (Persist /\ WriteLine(c)) \/ (~Persist /\ AppendRecord(c))

\* Only a log with a path writes lines.
WritesFile == \A c \in Call : pc[c] = "write" => Persist

LEMMA WritesFileStep == TypeInv /\ WritesFile /\ [Next]_vars => WritesFile'
<1> SUFFICES ASSUME TypeInv, WritesFile, [Next]_vars, NEW d \in Call,
                    pc'[d] = "write"
             PROVE  Persist
    BY DEF WritesFile
<1>0. pc \in [Call -> PC]
    BY DEF TypeInv, TypeOK
<1>1. ASSUME NEW c \in Call, AppendRecord(c) \/ WriteLine(c) PROVE Persist
    BY <1>0, <1>1 DEF AppendRecord, WriteLine, Goto, AfterAppend, WritesFile
<1>2. ASSUME NEW c \in Call, NEW to \in PC, Moves(c, to) PROVE Persist
    BY <1>0, <1>2 DEF Moves, Edge, WritesFile
<1>3. CASE Crash \/ UNCHANGED vars
    BY <1>0, <1>3 DEF Crash, vars, WritesFile
<1> QED
    BY <1>1, <1>2, <1>3, OneMove

LEMMA WritesFileAlways == Spec => []WritesFile
<1>1. Init => WritesFile
    BY DEF Init, WritesFile
<1> QED
    BY <1>1, WritesFileStep, TypeAlways, PTL DEF Spec

\* The trail survives whatever does not end a process that has no file.
LEMMA TrailSteps ==
    ASSUME TypeInv, [Next]_vars, ~Crash \/ Persist
    PROVE  \/ Trail' = Trail
           \/ \E c \in Call :
                 /\ Trails(c)
                 /\ Trail' = Append(Trail, AuditRecord(job[c].prev, BodyOf(c)))
<1>1. ASSUME NEW c \in Call, AppendRecord(c) \/ WriteLine(c)
      PROVE  \/ Trail' = Trail
             \/ /\ Trails(c)
                /\ Trail' = Append(Trail, AuditRecord(job[c].prev, BodyOf(c)))
    BY <1>1 DEF AppendRecord, WriteLine, Trails, Trail
<1>2. ASSUME NEW c \in Call, NEW to \in PC, Moves(c, to) PROVE Trail' = Trail
    BY <1>2 DEF Moves, Trail
<1>3. CASE Crash \/ UNCHANGED vars
    BY <1>3 DEF Crash, vars, Trail
<1> QED
    BY <1>1, <1>2, <1>3, OneMove

\* A call that adds to the trail is inside append, and leaves it.
LEMMA TrailsFact ==
    ASSUME TypeInv, NEW c \in Call, Trails(c)
    PROVE  /\ pc[c] \in InAppend
           /\ pc' = [pc EXCEPT ![c] = AfterAppend(c)]
           /\ job' = job /\ tickets' = tickets /\ crashes' = crashes
           /\ AuditRecord(job[c].prev, BodyOf(c)) \in Record
           /\ Trail \in Seq(Record)
<1>1. pc[c] \in InAppend
    BY DEF Trails, WriteLine, AppendRecord, Goto, InAppend
<1> QED
    BY <1>1, AuditRecordType
    DEF Trails, WriteLine, AppendRecord, Goto, TypeInv, TypeOK, Trail

-----------------------------------------------------------------------------
(* What is in the trail, for as long as it is whole.                       *)

\* Where a check is once its record is in the trail.
Filed == {"enqueue", "emit", "reply", "executed", "parked", "refused",
          "queue_failed", "sink_failed"}

\* The call that wrote a record.
Maker(body) == IF body.approver = None THEN body.check ELSE body.approver

VerdictsFiled ==
    \A c \in Check :
        /\ pc[c] \in Filed => VerdictIn(Trail, c, job[c].effect)
        /\ pc[c] \in {"enqueue", "parked"} => job[c].effect = "review"
        /\ pc[c] = "refused" => job[c].effect = "block"
        /\ pc[c] = "executed" => Executes(job[c].effect)

\* Nobody is about to record an override of what was not recorded for review.
ReviewsFiled ==
    \A r \in Resolution :
        pc[r] \in InAppend \cup {"update"} =>
            VerdictIn(Trail, job[r].check, "review")

TicketsFiled ==
    \A t \in DOMAIN tickets : VerdictIn(Trail, tickets[t].check, "review")

\* A call that may still add to the trail has not added to it.
Unfiled ==
    \A c \in Call : pc[c] \in {"idle", "load", "update"} \cup InAppend =>
        \A i \in DOMAIN Trail : Maker(Trail[i].body) # c

TrailSays == VerdictsFiled /\ ReviewsFiled /\ TicketsFiled /\ Unfiled

TrailInv == TrailIsWhole => TrailSays

\* What a log says it goes on saying.
LEMMA VerdictStaysIn ==
    ASSUME NEW log \in Seq(Record), NEW rec \in Record, NEW c, NEW e,
           VerdictIn(log, c, e)
    PROVE  VerdictIn(Append(log, rec), c, e)
<1>1. PICK i \in DOMAIN log : /\ log[i].body.check = c
                             /\ log[i].body.approver = None
                             /\ log[i].body.effect = e
    BY DEF VerdictIn, RecordsOf
<1>2. i \in DOMAIN Append(log, rec) /\ Append(log, rec)[i] = log[i]
    OBVIOUS
<1> QED
    BY <1>1, <1>2 DEF VerdictIn, RecordsOf

\* The record a check adds holds its verdict.
LEMMA VerdictGained ==
    ASSUME TypeInv, NEW log \in Seq(Record), NEW c \in Check, pc[c] \in InAppend
    PROVE  VerdictIn(Append(log, AuditRecord(job[c].prev, BodyOf(c))),
                     c, job[c].effect)
<1> DEFINE rec == AuditRecord(job[c].prev, BodyOf(c))
<1>1. rec \in Record
    BY AuditRecordType DEF Call
<1>2. rec.body = BodyOf(c)
    BY DEF AuditRecord
<1>3. /\ BodyOf(c).check = c
      /\ BodyOf(c).approver = None
      /\ BodyOf(c).effect = job[c].effect
    BY CallsAssumption DEF BodyOf, Approver, TypeInv, LocalsOK, InAppend
<1>4. /\ Len(log) + 1 \in DOMAIN Append(log, rec)
      /\ Append(log, rec)[Len(log) + 1] = rec
    BY <1>1
<1> QED
    BY <1>2, <1>3, <1>4 DEF VerdictIn, RecordsOf

\* The maker of the line a call writes is that call.
LEMMA MakerOfBody ==
    ASSUME TypeInv, NEW c \in Call, pc[c] \in InAppend
    PROVE  Maker(BodyOf(c)) = c
BY CallsAssumption DEF Maker, BodyOf, Approver, Call, TypeInv, LocalsOK, InAppend

LEMMA TrailInit == Init => TrailInv
BY DEF Init, TrailInv, TrailSays, Trail, VerdictsFiled, ReviewsFiled, TicketsFiled, Unfiled, Filed,
       InAppend, Call

\* A trail that is whole after a step was whole before it.
LEMMA WholeBefore == TypeInv /\ [Next]_vars /\ TrailIsWhole' => TrailIsWhole
<1> SUFFICES ASSUME TypeInv, [Next]_vars, ~Persist, crashes' = 0 PROVE crashes = 0
    BY DEF TrailIsWhole
<1>1. ~Crash
    BY GateAssumption DEF Crash, TypeInv, TypeOK
<1>2. ASSUME NEW c \in Call, AppendRecord(c) \/ WriteLine(c) PROVE crashes' = crashes
    BY <1>2 DEF AppendRecord, WriteLine
<1> QED
    BY <1>1, <1>2, OneMove DEF Moves, vars

LEMMA TrailStep ==
    TypeInv /\ WritesFile /\ TrailInv /\ [Next]_vars => TrailInv'
<1> SUFFICES ASSUME TypeInv, WritesFile, TrailSays, [Next]_vars, TrailIsWhole'
             PROVE  TrailSays'
    BY WholeBefore DEF TrailInv
<1> USE CallsAssumption DEF Goto, Admit, TrailSays, Filed, InAppend, Call
<1>0. /\ pc \in [Call -> PC] /\ job \in [Call -> Job] /\ LocalsOK
      /\ tickets \in Seq(Ticket) /\ Trail \in Seq(Record)
    BY DEF TypeInv, TypeOK, Trail
<1>t. records' = records /\ file' = file => Trail' = Trail
    BY DEF Trail
<1>1. ASSUME NEW c \in Check, Evaluate(c) PROVE TrailSays'
    <2>1. PICK e \in Effect : job' = [job EXCEPT ![c].effect = e, ![c].check = c]
        BY <1>1 DEF Evaluate
    <2>2. \A d \in Call \ {c} : job'[d] = job[d]
        BY <1>0, <2>1
    <2> QED
        BY <1>0, <1>t, <1>1, <2>2 DEF Evaluate, VerdictsFiled, ReviewsFiled, TicketsFiled, Unfiled
<1>2. ASSUME NEW c \in Check, EngineRaises(c) PROVE TrailSays'
    BY <1>0, <1>t, <1>2 DEF EngineRaises, VerdictsFiled, ReviewsFiled, TicketsFiled, Unfiled
<1>3. ASSUME NEW r \in Resolution, StartResolve(r) PROVE TrailSays'
    <2>1. PICK t \in 1 .. Len(tickets) + 1, e \in Overrides :
             job' = [job EXCEPT ![r].effect = e, ![r].ticket = t]
        BY <1>3 DEF StartResolve
    <2>2. \A d \in Call \ {r} : job'[d] = job[d]
        BY <1>0, <2>1
    <2> QED
        BY <1>0, <1>t, <1>3, <2>2 DEF StartResolve, VerdictsFiled, ReviewsFiled, TicketsFiled, Unfiled
<1>4. ASSUME NEW c \in Call, ReadPrev(c) PROVE TrailSays'
    <2>1. \A d \in Call : job'[d].effect = job[d].effect /\ job'[d].check = job[d].check
        BY <1>0, <1>t, <1>4 DEF ReadPrev, Job
    <2> QED
        BY <1>0, <1>t, <1>4, <2>1 DEF ReadPrev, VerdictsFiled, ReviewsFiled, TicketsFiled, Unfiled
<1>5. ASSUME NEW c \in Call, BuildRecord(c) PROVE TrailSays'
    <2>1. \A d \in Call : job'[d].effect = job[d].effect /\ job'[d].check = job[d].check
        BY <1>0, <1>t, <1>5 DEF BuildRecord, Job
    <2> QED
        BY <1>0, <1>t, <1>5, <2>1 DEF BuildRecord, VerdictsFiled, ReviewsFiled, TicketsFiled, Unfiled
<1>6. ASSUME NEW c \in Call, AppendRecord(c), Persist PROVE TrailSays'
    <2>1. Trail' = Trail /\ pc' = [pc EXCEPT ![c] = "write"]
        BY <1>6 DEF AppendRecord, Trail
    <2> QED
        BY <1>0, <1>6, <2>1
        DEF AppendRecord, VerdictsFiled, ReviewsFiled, TicketsFiled, Unfiled
<1>7. ASSUME NEW c \in Call, Trails(c) PROVE TrailSays'
    <2> DEFINE rec == AuditRecord(job[c].prev, BodyOf(c))
    <2>1. rec \in Record /\ rec.body = BodyOf(c) /\ Maker(BodyOf(c)) = c
        BY <1>7, TrailsFact, MakerOfBody DEF AuditRecord
    <2>2. Trail' = Append(Trail, rec)
        BY <1>7 DEF Trails, WriteLine, AppendRecord, Trail
    <2>3. \A d, e : VerdictIn(Trail, d, e) => VerdictIn(Trail', d, e)
        BY <1>0, <2>1, <2>2, VerdictStaysIn
    <2>4. c \in Check => VerdictIn(Trail', c, job[c].effect)
        BY <1>0, <1>7, <2>2, TrailsFact, VerdictGained
    <2>5. /\ c \in Check => pc'[c] \in {"enqueue", "emit"}
          /\ c \in Check /\ pc'[c] = "enqueue" => job[c].effect = "review"
          /\ c \in Resolution => pc'[c] = "resolved"
          /\ \A d \in Call \ {c} : pc'[d] = pc[d]
        BY <1>0, <1>7, TrailsFact DEF AfterAppend
    <2>6. job' = job /\ tickets' = tickets
        BY <1>7, TrailsFact
    <2>7. VerdictsFiled'
        BY <2>3, <2>4, <2>5, <2>6 DEF VerdictsFiled
    <2>8. ReviewsFiled'
        BY <2>3, <2>5, <2>6 DEF ReviewsFiled
    <2>9. TicketsFiled'
        BY <2>3, <2>6 DEF TicketsFiled
    <2>10. Unfiled'
        <3> SUFFICES ASSUME NEW d \in Call,
                            pc'[d] \in {"idle", "load", "update"} \cup InAppend,
                            NEW i \in DOMAIN Trail'
                     PROVE  Maker(Trail'[i].body) # d
            BY DEF Unfiled
        <3>1. d # c
            BY <2>5
        <3>2. CASE i \in DOMAIN Trail
            BY <1>0, <2>1, <2>2, <2>5, <3>1, <3>2 DEF Unfiled
        <3>3. CASE i = Len(Trail) + 1
            BY <1>0, <2>1, <2>2, <3>1, <3>3
        <3> QED
            BY <1>0, <2>1, <2>2, <3>2, <3>3
    <2> QED
        BY <2>7, <2>8, <2>9, <2>10
<1>8. ASSUME NEW c \in Call, WriteFails(c) PROVE TrailSays'
    BY <1>0, <1>t, <1>8 DEF WriteFails, VerdictsFiled, ReviewsFiled, TicketsFiled, Unfiled
<1>9. ASSUME NEW c \in Check, Enqueue(c) PROVE TrailSays'
    <2>1. VerdictIn(Trail, c, "review")
        BY <1>9 DEF Enqueue, VerdictsFiled
    <2>2. ASSUME NEW t \in DOMAIN tickets'
          PROVE  \/ t \in DOMAIN tickets /\ tickets'[t] = tickets[t]
                 \/ tickets'[t].check = c
        BY <1>0, <1>t, <1>9 DEF Enqueue
    <2>3. TicketsFiled'
        BY <1>t, <1>9, <2>1, <2>2 DEF Enqueue, TicketsFiled
    <2> QED
        BY <1>0, <1>t, <1>9, <2>3 DEF Enqueue, VerdictsFiled, ReviewsFiled, Unfiled
<1>10. ASSUME NEW c \in Check, EnqueueFails(c) PROVE TrailSays'
    BY <1>0, <1>t, <1>10 DEF EnqueueFails, VerdictsFiled, ReviewsFiled, TicketsFiled, Unfiled
<1>11. ASSUME NEW c \in Check, Emit(c) PROVE TrailSays'
    BY <1>0, <1>t, <1>11 DEF Emit, VerdictsFiled, ReviewsFiled, TicketsFiled, Unfiled
<1>12. ASSUME NEW c \in Check, SinkRaises(c) PROVE TrailSays'
    BY <1>0, <1>t, <1>12 DEF SinkRaises, VerdictsFiled, ReviewsFiled, TicketsFiled, Unfiled
<1>13. ASSUME NEW c \in Check, Reply(c) PROVE TrailSays'
    <2>1. job[c].effect \in Effect
        BY <1>0, <1>t, <1>13 DEF Reply, LocalsOK
    <2> QED
        BY <1>0, <1>t, <1>13, <2>1
        DEF Reply, VerdictsFiled, ReviewsFiled, TicketsFiled, Unfiled, Effect, Executes
<1>14. ASSUME NEW r \in Resolution, UnknownTicket(r) PROVE TrailSays'
    BY <1>0, <1>t, <1>14 DEF UnknownTicket, VerdictsFiled, ReviewsFiled, TicketsFiled, Unfiled
<1>15. ASSUME NEW r \in Resolution, LoadTicket(r) PROVE TrailSays'
    <2>1. /\ DOMAIN tickets' = DOMAIN tickets
          /\ \A t \in DOMAIN tickets : tickets'[t].check = tickets[t].check
        BY <1>0, <1>t, <1>15 DEF LoadTicket, Ticket
    <2>2. /\ job'[r].check = tickets[job[r].ticket].check
          /\ \A d \in Call \ {r} : job'[d] = job[d]
        BY <1>0, <1>t, <1>15 DEF LoadTicket, Job
    <2>3. VerdictIn(Trail, job'[r].check, "review")
        BY <1>15, <2>2 DEF LoadTicket, TicketsFiled
    <2> QED
        BY <1>0, <1>t, <1>15, <2>1, <2>2, <2>3
        DEF LoadTicket, VerdictsFiled, ReviewsFiled, TicketsFiled, Unfiled
<1>16. ASSUME NEW r \in Resolution, UpdateTicket(r) PROVE TrailSays'
    <2>1. /\ DOMAIN tickets' = DOMAIN tickets
          /\ \A t \in DOMAIN tickets : tickets'[t].check = tickets[t].check
        BY <1>0, <1>t, <1>16 DEF UpdateTicket, Ticket
    <2> QED
        BY <1>0, <1>t, <1>16, <2>1
        DEF UpdateTicket, VerdictsFiled, ReviewsFiled, TicketsFiled, Unfiled
<1>17. ASSUME NEW r \in Resolution, UpdateFails(r) PROVE TrailSays'
    BY <1>0, <1>t, <1>17 DEF UpdateFails, VerdictsFiled, ReviewsFiled, TicketsFiled, Unfiled
<1>18. ASSUME Crash PROVE TrailSays'
    <2>0. Persist /\ Trail' = Trail
        BY <1>18, GateAssumption DEF Crash, Trail, TrailIsWhole, TypeInv, TypeOK
    <2>1. TicketsFiled'
        BY <1>18, <2>0 DEF Crash, TicketsFiled
    <2> QED
        BY <1>0, <1>18, <2>0, <2>1 DEF Crash, VerdictsFiled, ReviewsFiled, Unfiled, Running
<1>19. ASSUME UNCHANGED vars PROVE TrailSays'
    BY <1>t, <1>19 DEF vars, VerdictsFiled, ReviewsFiled, TicketsFiled, Unfiled
<1>20. ASSUME NEW c \in Call, AppendRecord(c) \/ WriteLine(c)
       PROVE  (AppendRecord(c) /\ Persist) \/ Trails(c)
    BY <1>20 DEF WritesFile, Trails, WriteLine
<1> QED
    BY <1>20, <1>1, <1>2, <1>3, <1>4, <1>5, <1>6, <1>7, <1>8, <1>9, <1>10, <1>11, <1>12,
       <1>13, <1>14, <1>15, <1>16, <1>17, <1>18, <1>19
    DEF Next, Arrive, Advance, Fail, AllEnded

LEMMA TrailAlways == Spec => []TrailInv
BY TrailInit, TrailStep, TypeAlways, WritesFileAlways, PTL DEF Spec

\* Nothing executes unrecorded: for any number of calls and threads and whatever
\* fails, a tool that ran has a verdict in the trail that allows it; in the file
\* however often the process crashes, in memory until it crashes.
THEOREM ExecutedIsRecorded == Spec => []NothingExecutesUnrecorded
<1>1. TypeInv /\ TrailInv => NothingExecutesUnrecorded
    BY DEF TypeInv, LocalsOK, TrailInv, TrailSays, VerdictsFiled, Filed,
           NothingExecutesUnrecorded
<1> QED
    BY <1>1, TypeAlways, TrailAlways, PTL

\* Audit comes before routing: a ticket stands behind a recorded review verdict.
THEOREM TicketsAreRecorded == Spec => []TicketFollowsRecord
<1>1. TrailInv => TicketFollowsRecord
    BY DEF TrailInv, TrailSays, TicketsFiled, TicketFollowsRecord
<1> QED
    BY <1>1, TrailAlways, PTL

-----------------------------------------------------------------------------
(* Overrides.                                                              *)

LEMMA OverrideStep ==
    TypeInv /\ TrailInv /\ OverrideFollowsReview /\ [Next]_vars
        => OverrideFollowsReview'
<1> SUFFICES ASSUME TypeInv, TrailSays, TrailIsWhole, TrailIsWhole',
                    OverrideFollowsReview, [Next]_vars, Trail' # Trail
             PROVE  OverrideFollowsReview'
    BY WholeBefore DEF OverrideFollowsReview, TrailInv
<1>0. ~Crash \/ Persist
    BY GateAssumption DEF Crash, TrailIsWhole, TypeInv, TypeOK
<1>1. PICK c \in Call :
         /\ Trails(c)
         /\ Trail' = Append(Trail, AuditRecord(job[c].prev, BodyOf(c)))
    BY <1>0, TrailSteps
<1> DEFINE rec == AuditRecord(job[c].prev, BodyOf(c))
<1>2. /\ rec \in Record /\ rec.body = BodyOf(c) /\ Trail \in Seq(Record)
      /\ Trail' = Append(Trail, rec)
    BY <1>1, TrailsFact DEF AuditRecord
<1>3. /\ DOMAIN Trail' = 1 .. Len(Trail) + 1
      /\ \A i \in DOMAIN Trail : Trail'[i] = Trail[i]
      /\ Trail'[Len(Trail) + 1] = rec
    BY <1>2
<1>4. ASSUME c \in Resolution
      PROVE  \E j \in DOMAIN Trail : /\ Trail[j].body.check = job[c].check
                                     /\ Trail[j].body.approver = None
                                     /\ Trail[j].body.effect = "review"
    BY <1>1, <1>4, TrailsFact DEF TrailSays, ReviewsFiled, VerdictIn, RecordsOf
<1> SUFFICES ASSUME NEW i \in DOMAIN Trail', Trail'[i].body.approver # None
             PROVE  \E j \in 1 .. i - 1 :
                       /\ Trail'[j].body.check = Trail'[i].body.check
                       /\ Trail'[j].body.approver = None
                       /\ Trail'[j].body.effect = "review"
    BY DEF OverrideFollowsReview
<1>5. CASE i \in DOMAIN Trail
    <2>1. \A j \in 1 .. i - 1 : Trail'[j] = Trail[j]
        BY <1>2, <1>3, <1>5
    <2> QED
        BY <1>3, <1>5, <2>1 DEF OverrideFollowsReview
<1>6. CASE i = Len(Trail) + 1
    <2>1. c \in Resolution /\ Trail'[i].body.check = job[c].check
        BY <1>2, <1>3, <1>6 DEF BodyOf, Approver
    <2> QED
        BY <1>2, <1>3, <1>4, <1>6, <2>1
<1> QED
    BY <1>2, <1>3, <1>5, <1>6

\* The trail never shows a human overriding what the gate did not send to
\* review: the review verdict stands before the override, in the same log.
THEOREM OverridesAreEarned == Spec => []OverrideFollowsReview
<1>1. Init => OverrideFollowsReview
    BY DEF Init, OverrideFollowsReview, Trail
<1> QED
    BY <1>1, OverrideStep, TypeAlways, TrailAlways, PTL DEF Spec

-----------------------------------------------------------------------------
(* What the logs hold, with a file and without, for any number of threads. *)

\* No call is recorded twice.
Once(log) ==
    \A i, j \in DOMAIN log : Maker(log[i].body) = Maker(log[j].body) => i = j

\* No record of the call is there.
Unmade(log, c) == \A i \in DOMAIN log : Maker(log[i].body) # c

\* Where a call is that has not appended its record yet.
Unlisted == {"idle", "load", "update", "read_prev", "build", "append"}

\* One record per check needs the same of every call, and that what is about to
\* be appended is not there yet: a restart empties one of the logs and not the
\* other, but it also ends the calls that were about to append.
OnceInv ==
    /\ Once(records) /\ Once(file)
    /\ \A c \in Call :
          /\ pc[c] \in Unlisted => Unmade(records, c)
          /\ pc[c] \in Unlisted \cup {"write"} => Unmade(file, c)

\* Before the first restart, a check that is past its append has its record.
Listed ==
    crashes = 0 => \A c \in Check :
        pc[c] \in Filed \cup {"write"} => RecordsOf(records, c) # {}

LEMMA OnceGrows ==
    ASSUME NEW log \in Seq(Record), NEW rec \in Record,
           Once(log), Unmade(log, Maker(rec.body))
    PROVE  /\ Once(Append(log, rec))
           /\ \A d : d # Maker(rec.body) /\ Unmade(log, d)
                         => Unmade(Append(log, rec), d)
<1>1. /\ DOMAIN Append(log, rec) = DOMAIN log \cup {Len(log) + 1}
      /\ \A i \in DOMAIN log : Append(log, rec)[i] = log[i]
      /\ Append(log, rec)[Len(log) + 1] = rec
    OBVIOUS
<1> QED
    BY <1>1 DEF Once, Unmade

\* The record a check appends is found under its name.
LEMMA RecordFound ==
    ASSUME TypeInv, NEW log \in Seq(Record), NEW c \in Check, pc[c] \in InAppend
    PROVE  RecordsOf(Append(log, AuditRecord(job[c].prev, BodyOf(c))), c) # {}
<1> DEFINE rec == AuditRecord(job[c].prev, BodyOf(c))
<1>1. rec \in Record
    BY AuditRecordType DEF Call
<1>2. rec.body.check = c /\ rec.body.approver = None
    BY CallsAssumption DEF AuditRecord, BodyOf, Approver, TypeInv, LocalsOK, InAppend
<1>3. /\ Len(log) + 1 \in DOMAIN Append(log, rec)
      /\ Append(log, rec)[Len(log) + 1] = rec
    BY <1>1
<1> QED
    BY <1>2, <1>3 DEF RecordsOf

LEMMA RecordStays ==
    ASSUME NEW log \in Seq(Record), NEW rec \in Record, NEW c,
           RecordsOf(log, c) # {}
    PROVE  RecordsOf(Append(log, rec), c) # {}
<1>1. PICK i \in DOMAIN log : log[i].body.check = c /\ log[i].body.approver = None
    BY DEF RecordsOf
<1>2. i \in DOMAIN Append(log, rec) /\ Append(log, rec)[i] = log[i]
    OBVIOUS
<1> QED
    BY <1>1, <1>2 DEF RecordsOf

LEMMA OnceStep ==
    TypeInv /\ OnceInv /\ Listed /\ [Next]_vars => OnceInv' /\ Listed'
<1> SUFFICES ASSUME TypeInv, OnceInv, Listed, [Next]_vars
             PROVE  OnceInv' /\ Listed'
    OBVIOUS
<1>0. /\ pc \in [Call -> PC] /\ records \in Seq(Record) /\ file \in Seq(Record)
      /\ Check \subseteq Call
    BY DEF TypeInv, TypeOK, Call
<1> USE DEF Goto, Unlisted, Filed, InAppend
<1>1. ASSUME NEW c \in Call, AppendRecord(c) PROVE OnceInv' /\ Listed'
    <2> DEFINE rec == AuditRecord(job[c].prev, BodyOf(c))
    <2>1. /\ rec \in Record /\ Maker(rec.body) = c
          /\ records' = Append(records, rec) /\ file' = file /\ crashes' = crashes
        BY <1>1, AuditRecordType, MakerOfBody DEF AppendRecord, AuditRecord
    <2>2. /\ pc'[c] \in {"write", "resolved", "enqueue", "emit"}
          /\ pc'[c] = "write" => pc[c] = "append"
          /\ \A d \in Call \ {c} : pc'[d] = pc[d]
        BY <1>0, <1>1 DEF AppendRecord, AfterAppend
    <2>3. Unmade(records, c) /\ Unmade(file, c)
        BY <1>1 DEF AppendRecord, OnceInv
    <2>4. Once(records') /\ \A d : d # c /\ Unmade(records, d) => Unmade(records', d)
        BY <1>0, <2>1, <2>3, OnceGrows DEF OnceInv
    <2>5. OnceInv'
        BY <2>1, <2>2, <2>3, <2>4 DEF OnceInv
    <2>6. Listed'
        <3> SUFFICES ASSUME crashes' = 0, NEW d \in Check,
                            pc'[d] \in Filed \cup {"write"}
                     PROVE  RecordsOf(records', d) # {}
            BY DEF Listed
        <3>1. CASE d = c
            BY <1>0, <1>1, <2>1, <3>1, RecordFound DEF AppendRecord
        <3>2. CASE d # c
            BY <1>0, <2>1, <2>2, <3>2, RecordStays DEF Listed
        <3> QED
            BY <3>1, <3>2
    <2> QED
        BY <2>5, <2>6
<1>2. ASSUME NEW c \in Call, WriteLine(c) PROVE OnceInv' /\ Listed'
    <2> DEFINE rec == AuditRecord(job[c].prev, BodyOf(c))
    <2>1. /\ rec \in Record /\ Maker(rec.body) = c
          /\ file' = Append(file, rec) /\ records' = records /\ crashes' = crashes
        BY <1>2, AuditRecordType, MakerOfBody DEF WriteLine, AuditRecord
    <2>2. /\ pc'[c] \in {"resolved", "enqueue", "emit"} /\ pc[c] = "write"
          /\ \A d \in Call \ {c} : pc'[d] = pc[d]
        BY <1>0, <1>2 DEF WriteLine, AfterAppend
    <2>3. Once(file') /\ \A d : d # c /\ Unmade(file, d) => Unmade(file', d)
        BY <1>0, <2>1, <2>2, OnceGrows DEF OnceInv
    <2>4. OnceInv'
        BY <2>1, <2>2, <2>3 DEF OnceInv
    <2>5. Listed'
        BY <1>0, <2>1, <2>2 DEF Listed
    <2> QED
        BY <2>4, <2>5
<1>3. ASSUME Crash PROVE OnceInv' /\ Listed'
    <2>1. /\ records' = <<>> /\ file' = file /\ crashes' # 0
          /\ \A c \in Call : pc'[c] \in Unlisted \cup {"write"} => pc'[c] = pc[c]
        BY <1>0, <1>3 DEF Crash, Running, TypeInv, TypeOK
    <2> QED
        BY <2>1 DEF OnceInv, Listed, Once, Unmade
<1>4. ASSUME UNCHANGED vars PROVE OnceInv' /\ Listed'
    BY <1>4 DEF vars, OnceInv, Listed
<1>5. ASSUME NEW c \in Call, NEW to \in PC, Moves(c, to) PROVE OnceInv' /\ Listed'
    <2>1. /\ pc'[c] \in Unlisted => pc[c] \in Unlisted
          /\ pc'[c] # "write"
          /\ pc'[c] \in Filed /\ c \in Check => pc[c] \in Filed
          /\ \A d \in Call \ {c} : pc'[d] = pc[d]
        BY <1>0, <1>5, CallsAssumption DEF Moves, Edge, TypeInv, LocalsOK
    <2>2. records' = records /\ file' = file /\ crashes' = crashes
        BY <1>5 DEF Moves
    <2> QED
        BY <1>0, <2>1, <2>2 DEF OnceInv, Listed
<1> QED
    BY <1>1, <1>2, <1>3, <1>4, <1>5, OneMove

LEMMA OnceAlways == Spec => [](OnceInv /\ Listed)
<1>1. Init => OnceInv /\ Listed
    BY DEF Init, OnceInv, Listed, Once, Unmade, Filed, Call
<1> QED
    BY <1>1, OnceStep, TypeAlways, PTL DEF Spec

\* A set in which any two elements are the same has at most one.
LEMMA AtMostOne ==
    ASSUME NEW S, \A x, y \in S : x = y
    PROVE  Cardinality(S) <= 1
<1>1. CASE S = {}
    BY <1>1, FS_EmptySet
<1>2. CASE S # {}
    <2>1. PICK x \in S : S = {x}
        BY <1>2
    <2> QED
        BY <2>1, FS_Singleton
<1> QED
    BY <1>1, <1>2

\* One check appends one record: however the threads interleave, whatever fails
\* and however often the process restarts, no verdict is in either log twice,
\* and before the first restart no check that was answered is without one.
THEOREM OneRecordEach == Spec => []OneRecordPerCheck
<1>1. OnceInv /\ Listed /\ TypeInv => OneRecordPerCheck
    <2> SUFFICES ASSUME OnceInv, Listed, TypeInv, NEW c \in Check
                 PROVE  /\ Cardinality(RecordsOf(records, c)) <= 1
                        /\ Cardinality(RecordsOf(file, c)) <= 1
                        /\ (/\ crashes = 0
                            /\ pc[c] \in Returned \cup {"sink_failed", "queue_failed"})
                              => RecordsOf(records, c) # {}
        BY DEF OneRecordPerCheck
    <2>1. ASSUME NEW log, Once(log), NEW i \in RecordsOf(log, c),
                 NEW j \in RecordsOf(log, c)
          PROVE  i = j
        BY <2>1 DEF Once, RecordsOf, Maker
    <2>2. pc[c] \in Returned \cup {"sink_failed", "queue_failed"} => pc[c] \in Filed
        BY DEF TypeInv, LocalsOK, Returned, Filed
    <2> QED
        BY <2>1, <2>2, AtMostOne DEF OnceInv, Listed
<1> QED
    BY <1>1, OnceAlways, TypeAlways, PTL

-----------------------------------------------------------------------------
(* Tickets.                                                                *)

\* What a step means to one call: it is the call's own, or a crash, or leaves
\* the call where it is.
LEMMA StepOf ==
    ASSUME TypeInv, [Next]_vars, NEW c \in Call
    PROVE  \/ c \in Check /\ (Evaluate(c) \/ EngineRaises(c))
           \/ c \in Resolution /\ StartResolve(c)
           \/ Advance(c)
           \/ Fail(c)
           \/ Crash
           \/ pc'[c] = pc[c] /\ job'[c] = job[c]
<1>0. pc \in [Call -> PC] /\ job \in [Call -> Job] /\ Call = Check \cup Resolution
    BY DEF TypeInv, TypeOK, Call
<1>1. ASSUME NEW d \in Check, Evaluate(d) \/ EngineRaises(d), d # c
      PROVE  pc'[c] = pc[c] /\ job'[c] = job[c]
    BY <1>0, <1>1 DEF Evaluate, EngineRaises, Admit, Goto
<1>2. ASSUME NEW d \in Resolution, StartResolve(d), d # c
      PROVE  pc'[c] = pc[c] /\ job'[c] = job[c]
    BY <1>0, <1>2 DEF StartResolve, Admit, Goto
<1>3. ASSUME NEW d \in Call, Advance(d), d # c
      PROVE  pc'[c] = pc[c] /\ job'[c] = job[c]
    BY <1>0, <1>3
    DEF Advance, Goto, ReadPrev, BuildRecord, AppendRecord, WriteLine, Enqueue,
        Emit, Reply, UnknownTicket, LoadTicket, UpdateTicket
<1>4. ASSUME NEW d \in Call, Fail(d), d # c
      PROVE  pc'[c] = pc[c] /\ job'[c] = job[c]
    BY <1>0, <1>4 DEF Fail, Goto, WriteFails, EnqueueFails, SinkRaises, UpdateFails
<1> QED
    BY <1>0, <1>1, <1>2, <1>3, <1>4 DEF Next, Arrive, AllEnded, vars

\* Tickets are handed out and assigned; none is taken back or put under another
\* check, unless the queue is in the memory of a process that dies.
LEMMA TicketsStay ==
    ASSUME TypeInv, [Next]_vars, ~Crash \/ DurableQueue
    PROVE  \A t \in DOMAIN tickets :
              t \in DOMAIN tickets' /\ tickets'[t].check = tickets[t].check
<1>0. tickets \in Seq(Ticket) /\ job \in [Call -> Job] /\ Resolution \subseteq Call
    BY DEF TypeInv, TypeOK, Call
<1>1. ASSUME NEW c \in Check, Enqueue(c)
      PROVE  \A t \in DOMAIN tickets : t \in DOMAIN tickets' /\ tickets'[t] = tickets[t]
    BY <1>0, <1>1 DEF Enqueue
<1>2. ASSUME NEW r \in Resolution, LoadTicket(r) \/ UpdateTicket(r)
      PROVE  \A t \in DOMAIN tickets :
                t \in DOMAIN tickets' /\ tickets'[t].check = tickets[t].check
    <2>1. CASE LoadTicket(r)
        BY <1>0, <2>1 DEF LoadTicket, Ticket
    <2>2. CASE UpdateTicket(r)
        BY <1>0, <2>2 DEF UpdateTicket, Ticket
    <2> QED
        BY <1>2, <2>1, <2>2
<1>3. CASE tickets' = tickets
    BY <1>3
<1>4. CASE tickets' # tickets
    <2>1. \/ \E c \in Check : Enqueue(c)
          \/ \E r \in Resolution : LoadTicket(r) \/ UpdateTicket(r)
        BY <1>4
        DEF Next, vars, Arrive, Advance, Fail, AllEnded, Evaluate, EngineRaises,
            StartResolve, ReadPrev, BuildRecord, AppendRecord, WriteLine, WriteFails,
            EnqueueFails, Emit, SinkRaises, Reply, UnknownTicket, UpdateFails, Crash
    <2> QED
        BY <1>1, <1>2, <2>1
<1> QED
    BY <1>3, <1>4

HasTicket(c) == \E t \in DOMAIN tickets : tickets[t].check = c

\* A check that goes on with a review verdict after the queue has its ticket.
Parking ==
    DurableQueue => \A c \in Check :
        \/ pc[c] \in {"emit", "reply"} /\ job[c].effect = "review"
        \/ pc[c] = "parked"
        => HasTicket(c)

LEMMA ParkingStep == TypeInv /\ Parking /\ [Next]_vars => Parking'
<1> SUFFICES ASSUME TypeInv, Parking, [Next]_vars, DurableQueue, NEW c \in Check,
                    \/ pc'[c] \in {"emit", "reply"} /\ job'[c].effect = "review"
                    \/ pc'[c] = "parked"
             PROVE  HasTicket(c)'
    BY DEF Parking
<1>0. /\ pc \in [Call -> PC] /\ job \in [Call -> Job] /\ tickets \in Seq(Ticket)
      /\ c \in Call /\ c \notin Resolution
    BY CallsAssumption DEF TypeInv, TypeOK, Call
<1>1. HasTicket(c) => HasTicket(c)'
    BY TicketsStay DEF HasTicket
<1>2. CASE pc'[c] = pc[c] /\ job'[c] = job[c]
    BY <1>1, <1>2 DEF Parking
<1>3. CASE Enqueue(c)
    <2>1. /\ Len(tickets) + 1 \in DOMAIN tickets'
          /\ tickets'[Len(tickets) + 1].check = c
        BY <1>0, <1>3 DEF Enqueue
    <2> QED
        BY <2>1 DEF HasTicket
<1>4. CASE Emit(c) \/ Reply(c)
    <2>1. /\ job'[c] = job[c] /\ pc[c] \in {"emit", "reply"}
          /\ pc'[c] = "parked" => job[c].effect = "review"
        BY <1>0, <1>4 DEF Emit, Reply, Goto
    <2>2. job[c].effect = "review"
        BY <1>0, <1>4, <2>1 DEF Emit, Reply, Goto
    <2> QED
        BY <1>1, <2>1, <2>2 DEF Parking
<1>5. CASE AppendRecord(c) \/ WriteLine(c)
    BY <1>0, <1>5 DEF AppendRecord, WriteLine, AfterAppend, Goto
<1>6. CASE \/ Evaluate(c) \/ EngineRaises(c) \/ ReadPrev(c) \/ BuildRecord(c)
           \/ Fail(c)
    BY <1>0, <1>6
    DEF Evaluate, EngineRaises, ReadPrev, BuildRecord, Admit, Goto, Fail, WriteFails,
        EnqueueFails, SinkRaises
<1>7. CASE Crash
    <2>1. pc'[c] = pc[c] /\ job' = job
        BY <1>0, <1>7 DEF Crash
    <2> QED
        BY <1>2, <2>1
<1> QED
    BY <1>0, <1>2, <1>3, <1>4, <1>5, <1>6, <1>7, StepOf DEF Advance

\* An agent that is told its action is parked has a ticket in the durable queue,
\* also after the queue has failed for others and after any number of restarts.
THEOREM ParkedIsQueued == Spec => []ParkedHasTicket
<1>1. Init => Parking
    BY DEF Init, Parking, Call
<1>2. Parking => ParkedHasTicket
    BY DEF Parking, HasTicket, ParkedHasTicket
<1> QED
    BY <1>1, <1>2, ParkingStep, TypeAlways, PTL DEF Spec

-----------------------------------------------------------------------------
(* Resolutions.                                                            *)

LEMMA OverrideStays ==
    ASSUME NEW log \in Seq(Record), NEW rec \in Record, NEW r, NEW c, NEW e,
           OverrideIn(log, r, c, e)
    PROVE  OverrideIn(Append(log, rec), r, c, e)
<1>1. PICK i \in DOMAIN log : /\ log[i].body.approver = r
                             /\ log[i].body.check = c
                             /\ log[i].body.effect = e
    BY DEF OverrideIn
<1>2. i \in DOMAIN Append(log, rec) /\ Append(log, rec)[i] = log[i]
    OBVIOUS
<1> QED
    BY <1>1, <1>2 DEF OverrideIn

\* The record a resolution appends is its override.
LEMMA OverrideGained ==
    ASSUME NEW log \in Seq(Record), NEW r \in Resolution,
           AuditRecord(job[r].prev, BodyOf(r)) \in Record
    PROVE  OverrideIn(Append(log, AuditRecord(job[r].prev, BodyOf(r))),
                      r, job[r].check, job[r].effect)
<1> DEFINE rec == AuditRecord(job[r].prev, BodyOf(r))
<1>1. /\ rec.body.approver = r
      /\ rec.body.check = job[r].check
      /\ rec.body.effect = job[r].effect
    BY DEF AuditRecord, BodyOf, Approver
<1>2. /\ Len(log) + 1 \in DOMAIN Append(log, rec)
      /\ Append(log, rec)[Len(log) + 1] = rec
    OBVIOUS
<1> QED
    BY <1>1, <1>2 DEF OverrideIn

\* A resolution that is about to write, or to record what it wrote, is about a
\* ticket of the check it names.
Resolving ==
    \A r \in Resolution :
        pc[r] \in InAppend \cup {"update"} =>
            /\ job[r].ticket \in DOMAIN tickets
            /\ tickets[job[r].ticket].check = job[r].check

\* A restart loses no record of a resolution that the queue keeps.
TrailOutlivesQueue == Persist \/ ~DurableQueue \/ MaxCrashes = 0

\* The approver a ticket names has come to it, for this ticket and this check,
\* and with the durable queue the ticket's effect is its choice; once done, its
\* override is in the trail.
ApprovedBy(t, r) ==
    /\ pc[r] \notin {"idle", "load", "unknown_ticket", "queue_failed"}
    /\ DurableQueue => pc[r] # "update"
    /\ job[r].ticket = t
    /\ job[r].check = tickets[t].check
    /\ DurableQueue => tickets[t].effect = job[r].effect
    /\ TrailOutlivesQueue /\ pc[r] = "resolved" =>
          OverrideIn(Trail, r, job[r].check, job[r].effect)

Approving ==
    \A t \in DOMAIN tickets : \A r \in Resolution :
        tickets[t].approver = r => ApprovedBy(t, r)

LEMMA ResolvingStep == TypeInv /\ Resolving /\ [Next]_vars => Resolving'
<1> SUFFICES ASSUME TypeInv, Resolving, [Next]_vars, NEW r \in Resolution,
                    pc'[r] \in InAppend \cup {"update"}
             PROVE  /\ job'[r].ticket \in DOMAIN tickets'
                    /\ tickets'[job'[r].ticket].check = job'[r].check
    BY DEF Resolving
<1>0. /\ pc \in [Call -> PC] /\ job \in [Call -> Job]
      /\ r \in Call /\ r \notin Check
    BY CallsAssumption DEF TypeInv, TypeOK, Call
<1> USE DEF InAppend, Goto
<1>1. ~Crash
    BY <1>0 DEF Crash, Running
<1>2. ASSUME pc[r] \in InAppend \cup {"update"},
             job'[r].ticket = job[r].ticket, job'[r].check = job[r].check
      PROVE  /\ job'[r].ticket \in DOMAIN tickets'
             /\ tickets'[job'[r].ticket].check = job'[r].check
    BY <1>1, <1>2, TicketsStay DEF Resolving
<1>3. CASE LoadTicket(r)
    <2>1. /\ job[r].ticket \in DOMAIN tickets
          /\ job'[r].ticket = job[r].ticket
          /\ job'[r].check = tickets[job[r].ticket].check
        BY <1>0, <1>3 DEF LoadTicket, Job
    <2> QED
        BY <1>1, <2>1, TicketsStay
<1>4. CASE \/ ReadPrev(r) \/ BuildRecord(r) \/ AppendRecord(r) \/ UpdateTicket(r)
    <2>1. /\ pc[r] \in InAppend \cup {"update"}
          /\ job'[r].ticket = job[r].ticket /\ job'[r].check = job[r].check
        BY <1>0, <1>4 DEF ReadPrev, BuildRecord, AppendRecord, UpdateTicket, Job
    <2> QED
        BY <1>2, <2>1
<1>5. CASE StartResolve(r) \/ WriteLine(r) \/ UnknownTicket(r) \/ Fail(r)
    BY <1>0, <1>5
    DEF StartResolve, Admit, WriteLine, AfterAppend, UnknownTicket, Fail, WriteFails,
        UpdateFails
<1>6. CASE pc'[r] = pc[r] /\ job'[r] = job[r]
    BY <1>2, <1>6
<1> QED
    BY <1>0, <1>1, <1>3, <1>4, <1>5, <1>6, StepOf DEF Advance

\* A ticket names an approver because it did so before, or because this step is
\* the approver's own.
LEMMA ApproverSteps ==
    ASSUME TypeInv, [Next]_vars, NEW t \in DOMAIN tickets', NEW r \in Resolution,
           tickets'[t].approver = r
    PROVE  \/ /\ t \in DOMAIN tickets /\ tickets[t].approver = r
              /\ DurableQueue => tickets'[t] = tickets[t]
           \/ ~DurableQueue /\ LoadTicket(r) /\ t = job[r].ticket
           \/ DurableQueue /\ UpdateTicket(r) /\ t = job[r].ticket
<1>0. /\ tickets \in Seq(Ticket) /\ job \in [Call -> Job] /\ Resolution \subseteq Call
      /\ r # None
    BY CallsAssumption DEF TypeInv, TypeOK, Call
<1>1. ASSUME NEW c \in Check, Enqueue(c)
      PROVE  t \in DOMAIN tickets /\ tickets'[t] = tickets[t]
    BY <1>0, <1>1 DEF Enqueue
<1>2. ASSUME NEW q \in Resolution, LoadTicket(q)
      PROVE  \/ t \in DOMAIN tickets /\ tickets'[t] = tickets[t]
             \/ ~DurableQueue /\ q = r /\ t = job[q].ticket
    BY <1>0, <1>2 DEF LoadTicket, Ticket
<1>3. ASSUME NEW q \in Resolution, UpdateTicket(q), DurableQueue
      PROVE  \/ t \in DOMAIN tickets /\ tickets'[t] = tickets[t]
             \/ q = r /\ t = job[q].ticket
    BY <1>0, <1>3 DEF UpdateTicket, Ticket
<1>4. ASSUME NEW q \in Resolution, UpdateTicket(q), ~DurableQueue
      PROVE  t \in DOMAIN tickets /\ tickets[t].approver = r
    BY <1>0, <1>4 DEF UpdateTicket, Ticket
<1>5. CASE Crash
    BY <1>5 DEF Crash
<1>6. CASE tickets' = tickets
    BY <1>6
<1> QED
    BY <1>1, <1>2, <1>3, <1>4, <1>5, <1>6
    DEF Next, vars, Arrive, Advance, Fail, AllEnded, Evaluate, EngineRaises,
        StartResolve, ReadPrev, BuildRecord, AppendRecord, WriteLine, WriteFails,
        EnqueueFails, Emit, SinkRaises, Reply, UnknownTicket, UpdateFails

LEMMA ApprovingStep ==
    TypeInv /\ WritesFile /\ Resolving /\ Approving /\ [Next]_vars => Approving'
<1> SUFFICES ASSUME TypeInv, WritesFile, Resolving, Approving, [Next]_vars,
                    NEW t \in DOMAIN tickets', NEW r \in Resolution,
                    tickets'[t].approver = r
             PROVE  ApprovedBy(t, r)'
    BY DEF Approving
<1>0. /\ pc \in [Call -> PC] /\ job \in [Call -> Job] /\ LocalsOK
      /\ tickets \in Seq(Ticket) /\ r \in Call /\ r \notin Check
    BY CallsAssumption DEF TypeInv, TypeOK, Call
<1> USE DEF Goto
<1>1. CASE ~DurableQueue /\ LoadTicket(r) /\ t = job[r].ticket
    <2>1. /\ pc'[r] = "update" /\ job'[r].ticket = t
          /\ job'[r].check = tickets[t].check
          /\ t \in DOMAIN tickets
        BY <1>0, <1>1 DEF LoadTicket, Job
    <2>2. ~Crash
        BY <1>0, <2>1 DEF Crash, Running
    <2>3. tickets'[t].check = tickets[t].check
        BY <2>1, <2>2, TicketsStay
    <2> QED
        BY <1>1, <2>1, <2>3 DEF ApprovedBy
<1>2. CASE DurableQueue /\ UpdateTicket(r) /\ t = job[r].ticket
    <2>1. /\ pc[r] = "update" /\ pc'[r] = "read_prev" /\ job' = job
          /\ t \in DOMAIN tickets /\ tickets[t].check = job[r].check
        BY <1>0, <1>2 DEF UpdateTicket, Resolving
    <2>2. tickets'[t].check = tickets[t].check
        BY <1>2, <2>1, TicketsStay
    <2>3. tickets'[t].effect = job[r].effect
        <3>1. tickets[t] \in Ticket
            BY <1>0, <2>1
        <3>2. tickets'[t] = [[tickets[t] EXCEPT !.effect = job[r].effect]
                                EXCEPT !.approver = r]
            BY <1>0, <1>2, <2>1 DEF UpdateTicket
        <3> QED
            BY <3>1, <3>2 DEF Ticket
    <2> QED
        BY <1>2, <2>1, <2>2, <2>3 DEF ApprovedBy
<1>3. CASE /\ t \in DOMAIN tickets /\ tickets[t].approver = r
           /\ DurableQueue => tickets'[t] = tickets[t]
    <2>1. ApprovedBy(t, r)
        BY <1>3 DEF Approving
    <2>2. ~Crash \/ DurableQueue
        BY DEF Crash
    <2>3. /\ tickets'[t].check = tickets[t].check
          /\ DurableQueue => tickets'[t].effect = tickets[t].effect
        BY <1>3, <2>2, TicketsStay
    <2>4. ASSUME TrailOutlivesQueue,
                 OverrideIn(Trail, r, job[r].check, job[r].effect)
          PROVE  OverrideIn(Trail', r, job[r].check, job[r].effect)
        <3>1. ~Crash \/ Persist
            BY <2>2, <2>4, GateAssumption DEF TrailOutlivesQueue, Crash, TypeInv, TypeOK
        <3>2. CASE Trail' = Trail
            BY <2>4, <3>2
        <3>3. ASSUME NEW c \in Call, Trails(c),
                     Trail' = Append(Trail, AuditRecord(job[c].prev, BodyOf(c)))
              PROVE  OverrideIn(Trail', r, job[r].check, job[r].effect)
            BY <2>4, <3>3, TrailsFact, OverrideStays
        <3> QED
            BY <3>1, <3>2, <3>3, TrailSteps
    <2>5. ASSUME pc'[r] = pc[r], job'[r] = job[r] PROVE ApprovedBy(t, r)'
        BY <2>1, <2>3, <2>4, <2>5 DEF ApprovedBy
    <2>6. ASSUME pc'[r] \notin {"idle", "load", "unknown_ticket", "queue_failed",
                                "update", "resolved"},
                 job'[r].ticket = job[r].ticket, job'[r].check = job[r].check,
                 job'[r].effect = job[r].effect
          PROVE  ApprovedBy(t, r)'
        BY <2>1, <2>3, <2>6 DEF ApprovedBy
    <2>7. CASE ReadPrev(r) \/ BuildRecord(r) \/ WriteFails(r)
        <3>1. /\ pc'[r] \in {"build", "append", "file_failed"}
              /\ job'[r].ticket = job[r].ticket /\ job'[r].check = job[r].check
              /\ job'[r].effect = job[r].effect
            BY <1>0, <2>7 DEF ReadPrev, BuildRecord, WriteFails, Job
        <3> QED
            BY <2>6, <3>1
    <2>8. CASE UpdateTicket(r)
        <3>1. pc[r] = "update" /\ pc'[r] = "read_prev" /\ job' = job
            BY <1>0, <2>8 DEF UpdateTicket
        <3> QED
            BY <2>6, <3>1
    <2>9. CASE Trails(r)
        <3>1. /\ pc'[r] = "resolved" /\ job' = job
              /\ Trail \in Seq(Record)
              /\ AuditRecord(job[r].prev, BodyOf(r)) \in Record
            BY <1>0, <2>9, TrailsFact DEF AfterAppend
        <3>2. Trail' = Append(Trail, AuditRecord(job[r].prev, BodyOf(r)))
            BY <2>9 DEF Trails, Trail, WriteLine, AppendRecord
        <3>3. OverrideIn(Trail', r, job[r].check, job[r].effect)
            BY <3>1, <3>2, OverrideGained
        <3> QED
            BY <2>1, <2>3, <3>1, <3>3 DEF ApprovedBy
    <2>10. CASE (AppendRecord(r) \/ WriteLine(r)) /\ ~Trails(r)
        <3>1. Persist /\ AppendRecord(r)
            BY <1>0, <2>10 DEF Trails, WritesFile, WriteLine
        <3>2. pc'[r] = "write" /\ job' = job
            BY <1>0, <3>1 DEF AppendRecord
        <3> QED
            BY <2>6, <3>2
    <2>11. CASE StartResolve(r) \/ UnknownTicket(r) \/ LoadTicket(r) \/ UpdateFails(r)
        BY <2>1, <2>11
        DEF ApprovedBy, StartResolve, Admit, UnknownTicket, LoadTicket, UpdateFails
    <2>12. CASE Crash
        <3>1. job' = job /\ pc'[r] \in {"lost", pc[r]}
            BY <1>0, <2>12 DEF Crash
        <3> QED
            BY <2>5, <2>6, <3>1
    <2> QED
        BY <1>0, <2>5, <2>7, <2>8, <2>9, <2>10, <2>11, <2>12, StepOf DEF Advance, Fail
<1> QED
    BY <1>1, <1>2, <1>3, ApproverSteps

LEMMA ApprovingAlways == Spec => [](Resolving /\ Approving)
<1>1. Init => Resolving /\ Approving
    BY DEF Init, Resolving, Approving, InAppend, Call
<1> QED
    BY <1>1, ResolvingStep, ApprovingStep, WritesFileAlways, TypeAlways, PTL DEF Spec

\* With the durable queue, whose UPDATE writes the row at once, a ticket always
\* names the approver and the effect of one resolution, for any number of
\* approvers at once.  In memory the two are assigned one after the other, and
\* nothing of the kind holds.
THEOREM ResolutionsAreWhole == DurableQueue => (Spec => []ResolutionIsWhole)
<1> SUFFICES ASSUME DurableQueue PROVE Spec => []ResolutionIsWhole
    OBVIOUS
<1>1. Approving => ResolutionIsWhole
    BY DEF Approving, ApprovedBy, ResolutionIsWhole
<1> QED
    BY <1>1, ApprovingAlways, PTL

\* The resolution is itself audited: an approver that a ticket names and whose
\* call has returned has its override in the trail.  The hypothesis leaves out
\* one configuration, a durable queue beside an audit log in memory: there a
\* restart keeps the resolution and loses its record.
THEOREM OverridesAreAudited == TrailOutlivesQueue => (Spec => []OverrideIsAudited)
<1> SUFFICES ASSUME TrailOutlivesQueue PROVE Spec => []OverrideIsAudited
    OBVIOUS
<1>1. TypeInv /\ Approving => OverrideIsAudited
    <2> SUFFICES ASSUME TypeInv, Approving, NEW t \in DOMAIN tickets,
                        NEW r \in Resolution, tickets[t].approver = r,
                        pc[r] \notin Running \cup {"lost", "file_failed"}
                 PROVE  OverrideIn(Trail, r, tickets[t].check, job[r].effect)
        BY DEF OverrideIsAudited
    <2>1. ApprovedBy(t, r)
        BY DEF Approving
    <2>2. pc[r] = "resolved"
        BY <2>1, PCs
        DEF ApprovedBy, TypeInv, TypeOK, LocalsOK, Call, Running, InAppend
    <2> QED
        BY <2>1, <2>2 DEF ApprovedBy
<1> QED
    BY <1>1, ApprovingAlways, TypeAlways, PTL

-----------------------------------------------------------------------------
(* A gate whose trail lasts implements Enforcement.  The ledger is what    *)
(* the records of the trail say, in no order and without the hashes: races *)
(* between threads and restarts, which break the chain, do not touch what  *)
(* this promise is about.                                                  *)

\* There is a file, or the process does not die.
TrailLasts == Persist \/ MaxCrashes = 0

LEMMA LastingIsWhole ==
    ASSUME TrailLasts, TypeInv
    PROVE  TrailIsWhole
BY DEF TrailLasts, TrailIsWhole, TypeInv, TypeOK

\* One more record is one more entry.
LEMMA LedgerGrows ==
    ASSUME NEW rec \in Record, Trail \in Seq(Record), Trail' = Append(Trail, rec)
    PROVE  Ledger' = Ledger \cup {EntryOf(rec.body)}
<1>1. /\ DOMAIN Trail' = DOMAIN Trail \cup {Len(Trail) + 1}
      /\ \A i \in DOMAIN Trail : Trail'[i] = Trail[i]
      /\ Trail'[Len(Trail) + 1] = rec
    OBVIOUS
<1>2. Ledger' = {EntryOf(Trail'[i].body) : i \in DOMAIN Trail'}
    BY DEF Ledger
<1>3. ASSUME NEW x \in Ledger' PROVE x \in Ledger \cup {EntryOf(rec.body)}
    BY <1>1, <1>2 DEF Ledger
<1>4. ASSUME NEW x \in Ledger PROVE x \in Ledger'
    BY <1>1, <1>2 DEF Ledger
<1>5. EntryOf(rec.body) \in Ledger'
    BY <1>1, <1>2
<1> QED
    BY <1>3, <1>4, <1>5

\* A verdict in the trail is a verdict in the ledger.
LEMMA LedgerHolds ==
    ASSUME NEW c, NEW e, VerdictIn(Trail, c, e)
    PROVE  Promise!Verdict(c, e) \in Ledger
<1>1. PICK i \in DOMAIN Trail : /\ Trail[i].body.check = c
                               /\ Trail[i].body.approver = None
                               /\ Trail[i].body.effect = e
    BY DEF VerdictIn, RecordsOf
<1>2. EntryOf(Trail[i].body) = Promise!Verdict(c, e)
    BY <1>1 DEF EntryOf, Promise!Verdict
<1> QED
    BY <1>2 DEF Ledger

\* Every entry comes from a record.
LEMMA LedgerLine ==
    ASSUME NEW x \in Ledger
    PROVE  \E i \in DOMAIN Trail : /\ x.check = Trail[i].body.check
                                   /\ x.effect = Trail[i].body.effect
                                   /\ x.approver = Trail[i].body.approver
BY DEF Ledger, EntryOf

\* A step that neither adds to the trail nor ends a check is invisible.
LEMMA Invisible ==
    ASSUME Trail' = Trail, \A d \in Check : OutcomeAt(pc'[d]) = OutcomeAt(pc[d])
    PROVE  UNCHANGED Promise!vars
<1>1. Ledger' = Ledger
    BY DEF Ledger
<1>2. Outcome' = Outcome
    BY DEF Outcome
<1> QED
    BY <1>1, <1>2 DEF Promise!vars

\* A step that adds nothing to the trail and in which checks come to nothing.
LEMMA Failure ==
    ASSUME Trail' = Trail, NEW lost \in SUBSET Check,
           \A d \in lost : OutcomeAt(pc[d]) = "pending" /\ OutcomeAt(pc'[d]) = "failed",
           \A d \in Check \ lost : OutcomeAt(pc'[d]) = OutcomeAt(pc[d])
    PROVE  Promise!Fail
<1>1. Ledger' = Ledger
    BY DEF Ledger
<1>2. lost \in SUBSET {d \in Check : Outcome[d] = "pending"}
    BY DEF Outcome
<1>3. Outcome' = [d \in Check |-> IF d \in lost THEN "failed" ELSE Outcome[d]]
    BY DEF Outcome
<1> QED
    BY <1>1, <1>2, <1>3 DEF Promise!Fail

LEMMA PromiseInit == Init => Promise!Init
<1> SUFFICES ASSUME Init PROVE Promise!Init
    OBVIOUS
<1>1. Ledger = {}
    BY DEF Init, Ledger, Trail
<1>2. Outcome = [c \in Check |-> "pending"]
    BY DEF Init, Outcome, OutcomeAt, Returned, Raised, Call
<1> QED
    BY <1>1, <1>2 DEF Promise!Init

LEMMA PromiseRecord ==
    ASSUME TypeInv, TrailSays, NEW c \in Call, Trails(c)
    PROVE  Promise!Next
<1> DEFINE rec == AuditRecord(job[c].prev, BodyOf(c))
           e   == job[c].effect
<1>0. /\ pc \in [Call -> PC] /\ LocalsOK /\ Trail \in Seq(Record)
      /\ pc[c] \in InAppend /\ pc' = [pc EXCEPT ![c] = AfterAppend(c)]
    BY TrailsFact DEF TypeInv, TypeOK
<1>1. rec \in Record /\ rec.body = BodyOf(c) /\ Trail' = Append(Trail, rec)
    BY TrailsFact DEF AuditRecord, Trails, WriteLine, AppendRecord, Trail
<1>2. Ledger' = Ledger \cup {EntryOf(BodyOf(c))}
    BY <1>0, <1>1, LedgerGrows
<1>3. Outcome' = Outcome
    <2>1. c \in Check => pc'[c] \in {"enqueue", "emit"}
        BY <1>0, CallsAssumption DEF AfterAppend
    <2>2. c \in Check => OutcomeAt(pc'[c]) = OutcomeAt(pc[c])
        BY <1>0, <2>1 DEF InAppend, OutcomeAt, Returned, Raised
    <2>3. \A d \in Check : OutcomeAt(pc'[d]) = OutcomeAt(pc[d])
        BY <1>0, <2>2 DEF Call
    <2> QED
        BY <2>3 DEF Outcome
<1>4. EntryOf(BodyOf(c)) = [check |-> job[c].check, effect |-> e, approver |-> Approver(c)]
    BY DEF EntryOf, BodyOf
<1>5. \A i \in DOMAIN Trail : Maker(Trail[i].body) # c
    BY <1>0 DEF TrailSays, Unfiled
<1>6. CASE c \in Check
    <2>1. EntryOf(BodyOf(c)) = Promise!Verdict(c, e) /\ e \in Effect
        BY <1>0, <1>4, <1>6, CallsAssumption
        DEF Promise!Verdict, Approver, LocalsOK, InAppend
    <2>2. Outcome[c] = "pending"
        BY <1>0, <1>6 DEF Outcome, OutcomeAt, Returned, Raised, InAppend
    <2>3. \A f \in Effect : Promise!Verdict(c, f) \notin Ledger
        BY <1>5, <1>6, LedgerLine DEF Maker, Promise!Verdict
    <2>4. Promise!Decide(c)
        BY <1>2, <1>3, <2>1, <2>2, <2>3 DEF Promise!Decide, Promise!Effect, Effect
    <2> QED
        BY <1>6, <2>4 DEF Promise!Next
<1>7. CASE c \in Resolution
    <2>1. /\ job[c].check \in Check /\ e \in Effect /\ Approver(c) = c
          /\ Promise!Verdict(job[c].check, "review") \in Ledger
        BY <1>0, <1>7, LedgerHolds
        DEF LocalsOK, InAppend, Approver, TrailSays, ReviewsFiled
    <2>2. \A x \in Ledger : x.approver # c
        BY <1>5, <1>7, LedgerLine, CallsAssumption DEF Maker
    <2>3. Promise!Override(c)
        BY <1>2, <1>3, <1>4, <2>1, <2>2 DEF Promise!Override, Promise!Effect, Effect
    <2> QED
        BY <1>7, <2>3 DEF Promise!Next
<1> QED
    BY <1>6, <1>7 DEF Call

LEMMA PromiseReply ==
    ASSUME TypeInv, TrailSays, NEW c \in Check, Reply(c)
    PROVE  Promise!Next
<1> DEFINE e == job[c].effect
<1>0. /\ pc \in [Call -> PC] /\ LocalsOK /\ pc[c] = "reply" /\ c \in Call
      /\ e \in Effect
    BY DEF TypeInv, TypeOK, LocalsOK, Reply, Goto, Call
<1>1. Ledger' = Ledger
    BY DEF Reply, Ledger, Trail
<1>2. Promise!Verdict(c, e) \in Ledger
    BY <1>0, LedgerHolds DEF TrailSays, VerdictsFiled, Filed
<1>3. Outcome[c] = "pending"
    BY <1>0 DEF Outcome, OutcomeAt, Returned, Raised
<1>4. ASSUME NEW end \in {"executed", "parked", "refused"}, pc' = [pc EXCEPT ![c] = end]
      PROVE  Promise!Finish(c, end)
    <2>1. Outcome' = [Outcome EXCEPT ![c] = end]
        BY <1>0, <1>4 DEF Outcome, OutcomeAt, Returned, Call
    <2> QED
        BY <1>1, <1>3, <2>1 DEF Promise!Finish
<1>5. CASE e = "block"
    BY <1>2, <1>4, <1>5 DEF Reply, Goto, Promise!Next, Promise!Refuse
<1>6. CASE e = "review"
    BY <1>2, <1>4, <1>6 DEF Reply, Goto, Promise!Next, Promise!Park
<1>7. CASE e \in {"allow", "restrict"}
    <2>1. Promise!Finish(c, "executed")
        BY <1>4, <1>7 DEF Reply, Goto
    <2>2. Promise!Execute(c)
        BY <1>0, <1>2, <1>7, <2>1 DEF Promise!Execute, Promise!Executes, Executes,
                                      Promise!Effect, Effect
    <2> QED
        BY <2>2 DEF Promise!Next
<1> QED
    BY <1>0, <1>5, <1>6, <1>7 DEF Effect

LEMMA PromiseStep ==
    TrailLasts /\ TypeInv /\ WritesFile /\ TrailInv /\ [Next]_vars
        => [Promise!Next]_(Promise!vars)
<1> SUFFICES ASSUME TrailLasts, TypeInv, WritesFile, TrailSays, [Next]_vars
             PROVE  Promise!Next \/ UNCHANGED Promise!vars
    BY LastingIsWhole DEF TrailInv
<1>t. records' = records /\ file' = file => Trail' = Trail
    BY DEF Trail
<1>0. pc \in [Call -> PC] /\ LocalsOK
    BY DEF TypeInv, TypeOK
<1> USE CallsAssumption DEF Goto, Admit, Call
<1>1. ASSUME NEW c \in Call, Trails(c) PROVE Promise!Next
    BY <1>1, PromiseRecord
<1>2. ASSUME NEW c \in Check, Reply(c) PROVE Promise!Next
    BY <1>2, PromiseReply
<1>3. ASSUME NEW c \in Check, pc[c] \in Running \cup {"idle"},
             NEW end \in Raised, pc' = [pc EXCEPT ![c] = end], Trail' = Trail
      PROVE  Promise!Next
    <2> DEFINE lost == {c}
    <2>1. \A d \in lost : OutcomeAt(pc[d]) = "pending" /\ OutcomeAt(pc'[d]) = "failed"
        BY <1>0, <1>3 DEF OutcomeAt, Returned, Raised, Running, InAppend
    <2>2. \A d \in Check \ lost : OutcomeAt(pc'[d]) = OutcomeAt(pc[d])
        BY <1>0, <1>3
    <2>3. lost \in SUBSET Check
        OBVIOUS
    <2>4. Promise!Fail
        BY <1>3, <2>1, <2>2, <2>3, Failure
    <2> QED
        BY <2>4 DEF Promise!Next
<1>4. ASSUME NEW c \in Call, pc[c] \in Running \cup {"idle"},
             NEW end \in Running, pc' = [pc EXCEPT ![c] = end], Trail' = Trail
      PROVE  UNCHANGED Promise!vars
    <2>1. OutcomeAt(pc[c]) = OutcomeAt(pc'[c])
        BY <1>0, <1>4 DEF OutcomeAt, Returned, Raised, Running, InAppend
    <2>2. \A d \in Check : OutcomeAt(pc'[d]) = OutcomeAt(pc[d])
        BY <1>0, <1>4, <2>1
    <2> QED
        BY <1>4, <2>2, Invisible
<1>5. ASSUME NEW r \in Resolution, NEW end \in PC, pc' = [pc EXCEPT ![r] = end],
             Trail' = Trail
      PROVE  UNCHANGED Promise!vars
    <2>1. \A d \in Check : OutcomeAt(pc'[d]) = OutcomeAt(pc[d])
        BY <1>0, <1>5
    <2> QED
        BY <1>5, <2>1, Invisible
<1>6. ASSUME Crash PROVE Promise!Next
    <2> DEFINE lost == {c \in Check : pc[c] \in Running}
    <2>1. \A d \in lost : OutcomeAt(pc[d]) = "pending" /\ OutcomeAt(pc'[d]) = "failed"
        BY <1>6 DEF Crash, OutcomeAt, Returned, Raised, Running, InAppend
    <2>2. \A d \in Check \ lost : OutcomeAt(pc'[d]) = OutcomeAt(pc[d])
        BY <1>6 DEF Crash
    <2> QED
        <3>1. Trail' = Trail
            BY <1>6, GateAssumption DEF Crash, Trail, TrailLasts, TypeInv, TypeOK
        <3> QED
            BY <2>1, <2>2, <3>1, Failure DEF Promise!Next
<1>7. ASSUME UNCHANGED vars PROVE UNCHANGED Promise!vars
    BY <1>t, <1>7, Invisible DEF vars
<1>8. ASSUME NEW c \in Check, Evaluate(c) \/ EngineRaises(c)
      PROVE  Promise!Next \/ UNCHANGED Promise!vars
    <2>1. CASE Evaluate(c)
        BY <1>t, <1>4, <2>1 DEF Evaluate, Running, InAppend
    <2>2. CASE EngineRaises(c)
        BY <1>t, <1>3, <2>2 DEF EngineRaises, Raised
    <2> QED
        BY <1>8, <2>1, <2>2
<1>9. ASSUME NEW c \in Call, ReadPrev(c) \/ BuildRecord(c)
      PROVE  UNCHANGED Promise!vars
    BY <1>t, <1>4, <1>9 DEF ReadPrev, BuildRecord, Running, InAppend
<1>13. ASSUME NEW c \in Call, AppendRecord(c), Persist
       PROVE  UNCHANGED Promise!vars
    <2>1. Trail' = Trail
        BY <1>13 DEF AppendRecord, Trail
    <2> QED
        BY <1>4, <1>13, <2>1 DEF AppendRecord, Running, InAppend
<1>14. ASSUME NEW c \in Call, AppendRecord(c) \/ WriteLine(c)
       PROVE  (AppendRecord(c) /\ Persist) \/ Trails(c)
    BY <1>14 DEF WritesFile, Trails, WriteLine
<1>10. ASSUME NEW c \in Check, Enqueue(c) \/ Emit(c) PROVE UNCHANGED Promise!vars
    BY <1>t, <1>4, <1>10 DEF Enqueue, Emit, Running, InAppend
<1>11. ASSUME NEW c \in Check, WriteFails(c) \/ EnqueueFails(c) \/ SinkRaises(c)
       PROVE  Promise!Next
    BY <1>t, <1>3, <1>11 DEF WriteFails, EnqueueFails, SinkRaises, Running, InAppend, Raised
<1>12. ASSUME NEW r \in Resolution,
              \/ StartResolve(r) \/ UnknownTicket(r) \/ LoadTicket(r)
              \/ UpdateTicket(r) \/ UpdateFails(r) \/ WriteFails(r)
       PROVE  UNCHANGED Promise!vars
    BY <1>t, <1>5, <1>12, PCs
    DEF StartResolve, UnknownTicket, LoadTicket, UpdateTicket, UpdateFails, WriteFails
<1> QED
    BY <1>1, <1>2, <1>6, <1>7, <1>8, <1>9, <1>10, <1>11, <1>12,
       <1>13, <1>14
    DEF Next, Arrive, Advance, Fail, AllEnded

\* A gate that has an audit file keeps the promise of Enforcement: every step
\* of it is one that Enforcement allows, or none, for any number of calls and
\* threads, any faults and any number of crashes.  A gate with its log in memory,
\* which is the default, keeps it as long as the process lives.
THEOREM GateImplementsEnforcement == TrailLasts => (Spec => KeepsPromise)
<1> SUFFICES ASSUME TrailLasts PROVE Spec => KeepsPromise
    OBVIOUS
<1>1. TypeInv /\ WritesFile /\ TrailInv /\ [Next]_vars
          => [Promise!Next]_(Promise!vars)
    BY PromiseStep
<1> QED
    BY <1>1, PromiseInit, TypeAlways, WritesFileAlways, TrailAlways, PTL
    DEF Spec, KeepsPromise, Promise!Spec

=============================================================================
