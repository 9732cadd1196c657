-------------------------------- MODULE Gate --------------------------------
(***************************************************************************)
(* The gate of one process (gate.py, with audit.py and review.py below     *)
(* it), called by the threads of a pool: service.py declares its handlers  *)
(* with plain "def", so the web framework runs each request in a thread.   *)
(* Nothing in the gate takes a lock.                                       *)
(*                                                                         *)
(* Every element of Check is one call of Gate.check made by the guard of   *)
(* Gate.enforce, which then runs, parks or refuses the tool; every element *)
(* of Resolution is one call of Gate.resolve_review, and stands for the    *)
(* approver who makes it.  A retry is a call of its own.  A call advances  *)
(* by the steps below, and two calls interleave between any two of them.   *)
(*                                                                         *)
(* The engine is abstract here: it answers with any effect, or raises.     *)
(***************************************************************************)
EXTENDS Effects, AuditLog, FiniteSets

CONSTANTS
    Check,          \* calls of Gate.check
    Resolution,     \* calls of Gate.resolve_review
    None,           \* Python's None
    Threads,        \* calls the pool runs at once
    Persist,        \* AuditLog was given a path
    DurableQueue,   \* SQLiteReviewQueue, else InMemoryReviewQueue
    Overrides,      \* the effects approvers choose from (the code takes any)
    Faults,         \* which collaborators may fail, see below
    MaxCrashes      \* bound on process crashes

Fault == {"engine", "file", "queue", "sink"}

ASSUME CallsAssumption ==
    /\ Check \cap Resolution = {}
    /\ None \notin Check \cup Resolution \cup Effect
    /\ IsFiniteSet(Check) /\ IsFiniteSet(Resolution)

ASSUME GateAssumption ==
    /\ Threads \in Nat \ {0}
    /\ Persist \in BOOLEAN
    /\ DurableQueue \in BOOLEAN
    /\ Overrides \subseteq Effect
    /\ Faults \subseteq Fault
    /\ MaxCrashes \in Nat

VARIABLES
    pc,       \* where each call is
    job,      \* the local variables of each call
    records,  \* AuditLog.records, in memory
    file,     \* the JSONL file at AuditLog.path
    tickets,  \* the review queue; a ticket's id is its position
    crashes   \* process crashes so far

vars == <<pc, job, records, file, tickets, crashes>>

-----------------------------------------------------------------------------
Call == Check \cup Resolution

\* In AuditLog.append: about to read records[-1].hash, about to read
\* len(records), about to append to the list, about to append to the file.
InAppend == {"read_prev", "build", "append", "write"}

Running == InAppend \cup {"enqueue", "emit", "reply", "load", "update"}

\* What the caller of check sees in the end, and what a call dies of.
Returned == {"executed", "parked", "refused", "resolved"}
Raised   == {"engine_failed", "file_failed", "queue_failed", "sink_failed",
             "unknown_ticket"}

PC == {"idle", "lost"} \cup Running \cup Returned \cup Raised

\* The content of a record: its position, the check it is about, the verdict
\* or the human's override, and the approver of an override.
Body == [seq : Nat, check : Check, effect : Effect,
         approver : Resolution \cup {None}]

Record == [body : Body, prev : Seq(Body), hash : Seq(Body)]

Ticket == [check : Check, approver : Resolution \cup {None},
           effect : Effect \cup {None}]

\* effect: the verdict, or the effect the approver chose.  check: the check
\* concerned.  ticket: the ticket to resolve.  prev, seq: what append has read.
Job == [effect : Effect \cup {None}, check : Check \cup {None},
        ticket : Nat, prev : Seq(Body), seq : Nat]

NoJob == [effect |-> None, check |-> None, ticket |-> 0,
          prev |-> GENESIS_HASH, seq |-> 0]

InFlight == {c \in Call : pc[c] \in Running}

Approver(c) == IF c \in Resolution THEN c ELSE None

BodyOf(c) == [seq |-> job[c].seq, check |-> job[c].check,
              effect |-> job[c].effect, approver |-> Approver(c)]

\* Control passes from one point of a call to the next.
Goto(c, from, to) ==
    /\ pc[c] = from
    /\ pc' = [pc EXCEPT ![c] = to]

\* The pool has a thread for a call that has just arrived.
Admit(c, to) ==
    /\ Cardinality(InFlight) < Threads
    /\ Goto(c, "idle", to)

Init ==
    /\ pc = [c \in Call |-> "idle"]
    /\ job = [c \in Call |-> NoJob]
    /\ records = <<>>
    /\ file = <<>>
    /\ tickets = <<>>
    /\ crashes = 0

-----------------------------------------------------------------------------
(* Gate.check, up to the audit.                                            *)

\* A missing manifest gives a synthetic block; otherwise the policy is looked
\* up and the engine gives its verdict.  All of it is local to the thread.
Evaluate(c) ==
    /\ Admit(c, "read_prev")
    /\ \E e \in Effect :
          job' = [job EXCEPT ![c].effect = e, ![c].check = c]
    /\ UNCHANGED <<records, file, tickets, crashes>>

\* The engine subtracts or compares timestamps of which only one has a zone.
EngineRaises(c) ==
    /\ "engine" \in Faults
    /\ Admit(c, "engine_failed")
    /\ UNCHANGED <<job, records, file, tickets, crashes>>

-----------------------------------------------------------------------------
(* AuditLog.append.                                                        *)

ReadPrev(c) ==
    /\ Goto(c, "read_prev", "build")
    /\ job' = [job EXCEPT ![c].prev = LastHash(records)]
    /\ UNCHANGED <<records, file, tickets, crashes>>

\* len(records) is read, and the record is built and hashed in the thread.
BuildRecord(c) ==
    /\ Goto(c, "build", "append")
    /\ job' = [job EXCEPT ![c].seq = Len(records)]
    /\ UNCHANGED <<records, file, tickets, crashes>>

\* Mutation of AfterAppend: whatever does not run the tool is parked.
AfterAppendParksBlock(c) ==
    IF c \in Resolution THEN "resolved"
    ELSE IF Executes(job[c].effect) THEN "emit"
    ELSE "enqueue"

\* Where a call goes on once append returns.
AfterAppend(c) ==
    IF c \in Resolution THEN "resolved"
    ELSE IF job[c].effect = "review" THEN "enqueue"
    ELSE "emit"

\* Mutation of AppendRecord: the position is corrected once the hash is made.
AppendRenumbered(c) ==
    /\ Goto(c, "append", IF Persist THEN "write" ELSE AfterAppend(c))
    /\ records' = Append(records,
          [AuditRecord(job[c].prev, BodyOf(c)) EXCEPT !.body.seq = Len(records)])
    /\ UNCHANGED <<job, file, tickets, crashes>>

\* Mutation of AppendRecord: it waits for the position it has read to be free.
AppendInTurn(c) ==
    /\ pc[c] = "append"
    /\ IF job[c].seq = Len(records)
       THEN /\ Goto(c, "append", IF Persist THEN "write" ELSE AfterAppend(c))
            /\ records' = Append(records, AuditRecord(job[c].prev, BodyOf(c)))
       ELSE UNCHANGED <<pc, records>>
    /\ UNCHANGED <<job, file, tickets, crashes>>

AppendRecord(c) ==
    /\ Goto(c, "append", IF Persist THEN "write" ELSE AfterAppend(c))
    /\ records' = Append(records, AuditRecord(job[c].prev, BodyOf(c)))
    /\ UNCHANGED <<job, file, tickets, crashes>>

\* One line, in one write to a file opened for appending.
WriteLine(c) ==
    /\ Goto(c, "write", AfterAppend(c))
    /\ file' = Append(file, AuditRecord(job[c].prev, BodyOf(c)))
    /\ UNCHANGED <<job, records, tickets, crashes>>

\* Mutation of WriteFails: the audit file is written on a best-effort basis.
WriteFailsQuietly(c) ==
    /\ "file" \in Faults
    /\ Goto(c, "write", AfterAppend(c))
    /\ UNCHANGED <<job, records, file, tickets, crashes>>

\* Mutation of WriteFails: append is tried again from the start.
WriteRetried(c) ==
    /\ "file" \in Faults
    /\ Goto(c, "write", "read_prev")
    /\ UNCHANGED <<job, records, file, tickets, crashes>>

\* The disk is full or the file cannot be opened: the exception leaves check
\* or resolve_review, and the record stays in the list.
WriteFails(c) ==
    /\ "file" \in Faults
    /\ Goto(c, "write", "file_failed")
    /\ UNCHANGED <<job, records, file, tickets, crashes>>

-----------------------------------------------------------------------------
(* Gate.check, after the audit, and the guard of Gate.enforce.             *)

\* One transaction of SQLiteReviewQueue; for InMemoryReviewQueue, the counter
\* is unique to the call and the entry of the dictionary appears at once.
Enqueue(c) ==
    /\ Goto(c, "enqueue", "emit")
    /\ tickets' = Append(tickets,
                         [check |-> c, approver |-> None, effect |-> None])
    /\ UNCHANGED <<job, records, file, crashes>>

\* Mutation of EnqueueFails: the exception is logged and check goes on.
EnqueueFailsQuietly(c) ==
    /\ "queue" \in Faults /\ DurableQueue
    /\ Goto(c, "enqueue", "emit")
    /\ UNCHANGED <<job, records, file, tickets, crashes>>

\* Another process holds the database for longer than the busy timeout.
EnqueueFails(c) ==
    /\ "queue" \in Faults /\ DurableQueue
    /\ Goto(c, "enqueue", "queue_failed")
    /\ UNCHANGED <<job, records, file, tickets, crashes>>

Emit(c) ==
    /\ Goto(c, "emit", "reply")
    /\ UNCHANGED <<job, records, file, tickets, crashes>>

\* Gate._emit does not guard the sink's emit.
SinkRaises(c) ==
    /\ "sink" \in Faults
    /\ Goto(c, "emit", "sink_failed")
    /\ UNCHANGED <<job, records, file, tickets, crashes>>

\* Mutation of Reply: the guard only looks for block.
ReplyUnlessBlocked(c) ==
    /\ Goto(c, "reply", IF job[c].effect = "block" THEN "refused" ELSE "executed")
    /\ UNCHANGED <<job, records, file, tickets, crashes>>

\* block raises ActionBlocked, review returns the pending result, and on the
\* other two the tool runs.
Reply(c) ==
    /\ Goto(c, "reply", CASE job[c].effect = "block"  -> "refused"
                          [] job[c].effect = "review" -> "parked"
                          [] OTHER                    -> "executed")
    /\ UNCHANGED <<job, records, file, tickets, crashes>>

-----------------------------------------------------------------------------
(* Gate.resolve_review, up to its audit.                                   *)

\* A human picks a ticket, which may not exist, and any effect.
StartResolve(r) ==
    /\ Admit(r, "load")
    /\ \E t \in 1 .. Len(tickets) + 1, e \in Overrides :
          job' = [job EXCEPT ![r].effect = e, ![r].ticket = t]
    /\ UNCHANGED <<records, file, tickets, crashes>>

UnknownTicket(r) ==
    /\ job[r].ticket \notin DOMAIN tickets
    /\ Goto(r, "load", "unknown_ticket")
    /\ UNCHANGED <<job, records, file, tickets, crashes>>

\* Mutation of LoadTicket: the ticket's check is not carried to the audit.
LoadTicketAnonymous(r) ==
    /\ job[r].ticket \in DOMAIN tickets
    /\ Goto(r, "load", "update")
    /\ tickets' = IF DurableQueue THEN tickets
                  ELSE [tickets EXCEPT ![job[r].ticket].approver = r]
    /\ UNCHANGED <<job, records, file, crashes>>

\* Mutation of LoadTicket: the approver claims the row in the database first.
LoadTicketClaims(r) ==
    /\ job[r].ticket \in DOMAIN tickets
    /\ Goto(r, "load", "update")
    /\ job' = [job EXCEPT ![r].check = tickets[job[r].ticket].check]
    /\ tickets' = [tickets EXCEPT ![job[r].ticket].approver = r]
    /\ UNCHANGED <<records, file, crashes>>

\* SQLite: the SELECT, which holds no lock once the row is read.  In memory:
\* the assignments of resolved and approver to the shared ticket.
LoadTicket(r) ==
    /\ job[r].ticket \in DOMAIN tickets
    /\ Goto(r, "load", "update")
    /\ job' = [job EXCEPT ![r].check = tickets[job[r].ticket].check]
    /\ tickets' = IF DurableQueue THEN tickets
                  ELSE [tickets EXCEPT ![job[r].ticket].approver = r]
    /\ UNCHANGED <<records, file, crashes>>

\* Mutation of UpdateTicket: resolve_review returns before its audit.
UpdateUnaudited(r) ==
    /\ Goto(r, "update", "resolved")
    /\ tickets' = [tickets EXCEPT ![job[r].ticket].effect = job[r].effect,
                                  ![job[r].ticket].approver = r]
    /\ UNCHANGED <<job, records, file, crashes>>

\* Mutation of UpdateTicket: UPDATE ... WHERE resolved = 0, rows not counted.
UpdateUnresolved(r) ==
    /\ Goto(r, "update", "read_prev")
    /\ tickets' = IF tickets[job[r].ticket].effect # None THEN tickets
                  ELSE [tickets EXCEPT ![job[r].ticket].effect = job[r].effect,
                                       ![job[r].ticket].approver = r]
    /\ UNCHANGED <<job, records, file, crashes>>

\* SQLite: the UPDATE of the whole row.  In memory: the assignment of
\* resolved_effect.  Neither asks whether the ticket is resolved already.
UpdateTicket(r) ==
    /\ Goto(r, "update", "read_prev")
    /\ LET ticket   == tickets[job[r].ticket]
           assigned == [ticket EXCEPT !.effect = job[r].effect]
           row      == [assigned EXCEPT !.approver = r]
       IN  tickets' = [tickets EXCEPT ![job[r].ticket] =
                           IF DurableQueue THEN row ELSE assigned]
    /\ UNCHANGED <<job, records, file, crashes>>

UpdateFails(r) ==
    /\ "queue" \in Faults /\ DurableQueue
    /\ Goto(r, "update", "queue_failed")
    /\ UNCHANGED <<job, records, file, tickets, crashes>>

-----------------------------------------------------------------------------
\* The process dies and is started again with the same path and database:
\* AuditLog starts with an empty list and never reads the file.
Crash ==
    /\ crashes < MaxCrashes
    /\ crashes' = crashes + 1
    /\ pc' = [c \in Call |-> IF pc[c] \in Running THEN "lost" ELSE pc[c]]
    /\ records' = <<>>
    /\ tickets' = IF DurableQueue THEN tickets ELSE <<>>
    /\ UNCHANGED <<job, file>>

\* Every call has ended, for better or worse: the model has no more to do.
AllEnded ==
    /\ \A c \in Call : pc[c] \notin Running \cup {"idle"}
    /\ UNCHANGED vars

\* The statements a call executes when nothing it uses fails.
Advance(c) ==
    \/ ReadPrev(c) \/ BuildRecord(c) \/ AppendRecord(c) \/ WriteLine(c)
    \/ c \in Check /\ (Enqueue(c) \/ Emit(c) \/ Reply(c))
    \/ c \in Resolution /\ (UnknownTicket(c) \/ LoadTicket(c) \/ UpdateTicket(c))

Fail(c) ==
    \/ WriteFails(c)
    \/ c \in Check /\ (EnqueueFails(c) \/ SinkRaises(c))
    \/ c \in Resolution /\ UpdateFails(c)

Arrive ==
    \/ \E c \in Check : Evaluate(c) \/ EngineRaises(c)
    \/ \E r \in Resolution : StartResolve(r)

Next ==
    \/ Arrive
    \/ \E c \in Call : Advance(c) \/ Fail(c)
    \/ Crash
    \/ AllEnded

Spec == Init /\ [][Next]_vars

\* The operating system runs every thread of the pool; nothing obliges a caller
\* to call, a collaborator to fail or the process to crash.
FairSpec == Spec /\ \A c \in Call : WF_vars(Advance(c))

-----------------------------------------------------------------------------
(* Properties.                                                             *)

TypeOK ==
    /\ pc \in [Call -> PC]
    /\ job \in [Call -> Job]
    /\ records \in Seq(Record)
    /\ file \in Seq(Record)
    /\ tickets \in Seq(Ticket)
    /\ crashes \in 0 .. MaxCrashes

\* The records that outlive the process, or the list when there is no file.
Trail == IF Persist THEN file ELSE records

\* The trail has every record made: it is on disk, or no process has died yet.
TrailIsWhole == Persist \/ crashes = 0

RecordsOf(log, c) ==
    {i \in DOMAIN log : log[i].body.check = c /\ log[i].body.approver = None}

VerdictIn(log, c, e) == \E i \in RecordsOf(log, c) : log[i].body.effect = e

OverrideIn(log, r, c, e) ==
    \E i \in DOMAIN log :
        /\ log[i].body.approver = r
        /\ log[i].body.check = c
        /\ log[i].body.effect = e

\* Nothing executes unrecorded (gate.py:109): a tool that ran did so on a
\* verdict that allows it, and that verdict is in the trail, whatever failed,
\* interleaved or, when there is a file, crashed since.
NothingExecutesUnrecorded ==
    TrailIsWhole => \A c \in Check :
        pc[c] = "executed" =>
            \E e \in Effect : Executes(e) /\ VerdictIn(Trail, c, e)

\* One check appends one record (DESIGN.md section 7): no verdict is recorded
\* twice, and in the process that made it only a raising engine or a call still
\* under way leaves a check with no record.
OneRecordPerCheck ==
    \A c \in Check :
        /\ Cardinality(RecordsOf(records, c)) <= 1
        /\ Cardinality(RecordsOf(file, c)) <= 1
        /\ crashes = 0 /\ pc[c] \in Returned \cup {"sink_failed", "queue_failed"}
              => RecordsOf(records, c) # {}

\* A pending result returned to the agent has its ticket in the durable queue,
\* so a human will see it (gate.py:112).
ParkedHasTicket ==
    DurableQueue => \A c \in Check :
        pc[c] = "parked" => \E t \in DOMAIN tickets : tickets[t].check = c

\* A ticket is only ever parked behind a recorded review verdict, even when the
\* process crashes between the two: audit comes before routing (gate.py:109).
TicketFollowsRecord ==
    TrailIsWhole => \A t \in DOMAIN tickets :
        VerdictIn(Trail, tickets[t].check, "review")

\* The chain of one process verifies (audit.py:94).
ChainIntact == Verify(records)

\* When threads interleave, each record still extends the genesis hash or a
\* record that stands before it in the list: the log is a tree, never a mess.
LogIsTree ==
    \A i \in DOMAIN records :
        /\ records[i].hash = ChainHash(records[i].prev, records[i].body)
        /\ \/ records[i].prev = GENESIS_HASH
           \/ \E j \in 1 .. i - 1 : records[j].hash = records[i].prev

\* Between failures of the disk, one thread leaves a file that verifies: the
\* file breaks only at a lost line or at a restart.
FileBreaksOnlyByFailure ==
    (crashes = 0 /\ \A c \in Call : pc[c] # "file_failed") => Verify(file)

\* What "audit verify" promises of a file nobody tampered with (README.md:310).
FileVerifies == Verify(file)

\* The resolution is itself audited (gate.py:144): an override that is in the
\* queue is in the trail, unless its call is still under way, crashed, or could
\* not write the line.
OverrideIsAudited ==
    \A t \in DOMAIN tickets : \A r \in Resolution :
        tickets[t].approver = r =>
            \/ pc[r] \in Running \cup {"lost", "file_failed"}
            \/ OverrideIn(Trail, r, tickets[t].check, job[r].effect)

\* A resolved ticket names the approver and the effect of one and the same
\* resolution, however many people resolve it at once.
ResolutionIsWhole ==
    \A t \in DOMAIN tickets : \A r \in Resolution :
        tickets[t].approver = r => tickets[t].effect = job[r].effect

\* With one thread and no failure the queue and the trail tell one story: when
\* nothing is under way, the last override recorded for a check is the one its
\* ticket holds, also after a second resolution of the same ticket.
LastOverrideIsTheTickets ==
    (InFlight = {} /\ \A c \in Call : pc[c] \notin {"lost", "file_failed"}) =>
        \A t \in DOMAIN tickets :
            LET overrides == {i \in DOMAIN Trail :
                                 /\ Trail[i].body.check = tickets[t].check
                                 /\ Trail[i].body.approver # None}
            IN  IF overrides = {}
                THEN tickets[t].approver = None
                ELSE \E i \in overrides :
                        /\ \A j \in overrides : j <= i
                        /\ Trail[i].body.approver = tickets[t].approver
                        /\ Trail[i].body.effect = tickets[t].effect

\* A trail never shows a human overriding what the gate did not park: every
\* override stands after the review verdict it overrides.
OverrideFollowsReview ==
    TrailIsWhole => \A i \in DOMAIN Trail :
        Trail[i].body.approver # None =>
            \E j \in 1 .. i - 1 :
                /\ Trail[j].body.check = Trail[i].body.check
                /\ Trail[j].body.approver = None
                /\ Trail[j].body.effect = "review"

\* Every call that a thread has taken comes to an end, whatever the other
\* threads do and whatever fails.
CallsEnd == \A c \in Call : pc[c] \in Running ~> pc[c] \notin Running

-----------------------------------------------------------------------------
(* The gate implements Enforcement when its audit log has a file, and      *)
(* without one as long as the process lives.                               *)

EntryOf(body) ==
    [check |-> body.check, effect |-> body.effect, approver |-> body.approver]

Ledger == {EntryOf(Trail[i].body) : i \in DOMAIN Trail}

OutcomeAt(p) ==
    IF p \in Returned THEN p
    ELSE IF p \in Raised \cup {"lost"} THEN "failed"
    ELSE "pending"

Outcome == [c \in Check |-> OutcomeAt(pc[c])]

Promise == INSTANCE Enforcement WITH ledger <- Ledger, outcome <- Outcome

\* With a file, or without crashes, every behaviour of the gate is one that
\* Enforcement allows: whatever the threads and the failures do, the tool runs,
\* parks or is refused on the one verdict the trail holds.
KeepsPromise == Promise!Spec

=============================================================================
