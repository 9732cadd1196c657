---------------------------- MODULE ChainProofs -----------------------------
(***************************************************************************)
(* Proofs about the hash chain, in memory and in the file, and about what  *)
(* a process that runs one call at a time guarantees beyond it; with any   *)
(* number of threads the chain is a tree and a check has one ticket.       *)
(***************************************************************************)
EXTENDS GateProofs

\* One call runs at a time.
Alone == \A c, d \in Call : pc[c] \in Running /\ pc[d] \in Running => c = d

\* The predecessor a call has read is still the last record: the step of
\* another call between the two is what breaks the chain.
PrevIsLast ==
    \A c \in Call : pc[c] \in {"build", "append"} => job[c].prev = LastHash(records)

ChainInv == Alone /\ PrevIsLast /\ ChainIntact

\* The pool of one thread admits a call only when none is running.
LEMMA AdmitAlone ==
    ASSUME Threads = 1, Cardinality(InFlight) < Threads
    PROVE  \A c \in Call : pc[c] \notin Running
<1>1. IsFiniteSet(Call)
    BY CallsAssumption, FS_Union DEF Call
<1>2. IsFiniteSet(InFlight)
    BY <1>1, FS_Subset DEF InFlight
<1>3. Cardinality(InFlight) = 0
    BY <1>2, FS_CardinalityType
<1>4. InFlight = {}
    BY <1>2, <1>3, FS_EmptySet
<1> QED
    BY <1>4 DEF InFlight

\* A record built on the hash of the last one keeps the chain.
LEMMA ChainGrows ==
    ASSUME NEW log \in Seq(Record), NEW body \in Body, Verify(log),
           AuditRecord(LastHash(log), body) \in Record
    PROVE  Verify(Append(log, AuditRecord(LastHash(log), body)))
<1> DEFINE rec == AuditRecord(LastHash(log), body)
           longer == Append(log, rec)
<1>1. /\ rec.prev = LastHash(log) /\ rec.hash = ChainHash(rec.prev, rec.body)
    BY DEF AuditRecord
<1>2. /\ DOMAIN longer = 1 .. Len(log) + 1
      /\ \A i \in DOMAIN log : longer[i] = log[i]
      /\ longer[Len(log) + 1] = rec
    OBVIOUS
<1> SUFFICES ASSUME NEW i \in DOMAIN longer
             PROVE  /\ longer[i].prev = IF i = 1 THEN GENESIS_HASH
                                        ELSE longer[i - 1].hash
                    /\ longer[i].hash = ChainHash(longer[i].prev, longer[i].body)
    BY DEF Verify
<1>3. CASE i \in DOMAIN log
    <2>1. i # 1 => i - 1 \in DOMAIN log
        BY <1>3
    <2> QED
        BY <1>2, <1>3, <2>1 DEF Verify
<1>4. CASE i = Len(log) + 1
    <2>1. CASE log = <<>>
        BY <1>1, <1>2, <1>4, <2>1 DEF LastHash
    <2>2. CASE log # <<>>
        <3>1. Len(log) \in DOMAIN log /\ i # 1 /\ i - 1 = Len(log)
            BY <1>4, <2>2
        <3> QED
            BY <1>1, <1>2, <1>4, <2>2, <3>1 DEF LastHash
    <2> QED
        BY <2>1, <2>2
<1> QED
    BY <1>2, <1>3, <1>4

LEMMA ChainInit == Init => ChainInv
BY DEF Init, ChainInv, Alone, PrevIsLast, ChainIntact, Verify, Running, InAppend

LEMMA ChainStep == Threads = 1 /\ TypeInv /\ ChainInv /\ [Next]_vars => ChainInv'
<1> SUFFICES ASSUME Threads = 1, TypeInv, ChainInv, [Next]_vars PROVE ChainInv'
    OBVIOUS
<1>0. /\ pc \in [Call -> PC] /\ job \in [Call -> Job] /\ LocalsOK
      /\ records \in Seq(Record)
    BY DEF TypeInv, TypeOK
<1> USE DEF Goto, ChainInv, Running, InAppend
<1>1. ASSUME NEW c \in Call, NEW to \in PC, Admit(c, to), to \notin {"build", "append"},
             records' = records, \A d \in Call \ {c} : job'[d] = job[d]
      PROVE  ChainInv'
    <2>1. \A d \in Call : pc[d] \notin Running
        BY <1>1, AdmitAlone DEF Admit
    <2>2. \A d \in Call \ {c} : pc'[d] \notin Running
        BY <1>0, <1>1, <2>1 DEF Admit
    <2>3. pc'[c] \notin {"build", "append"}
        BY <1>0, <1>1 DEF Admit
    <2>4. Alone'
        BY <2>2 DEF Alone
    <2>5. PrevIsLast'
        BY <2>2, <2>3 DEF PrevIsLast
    <2>6. ChainIntact'
        BY <1>1 DEF ChainIntact
    <2> QED
        BY <2>4, <2>5, <2>6
<1>2. ASSUME NEW c \in Call, pc[c] \in Running, NEW to \in PC,
             pc' = [pc EXCEPT ![c] = to]
      PROVE  Alone' /\ \A d \in Call \ {c} : pc'[d] \notin Running
    BY <1>0, <1>2 DEF Alone
<1>3. ASSUME NEW c \in Call, pc[c] \in Running, NEW to \in PC,
             pc' = [pc EXCEPT ![c] = to], to \notin {"build", "append"},
             records' = records
      PROVE  ChainInv'
    <2>1. \A d \in Call : pc'[d] \notin {"build", "append"}
        BY <1>0, <1>2, <1>3
    <2>2. PrevIsLast'
        BY <2>1 DEF PrevIsLast
    <2>3. ChainIntact'
        BY <1>3 DEF ChainIntact
    <2> QED
        BY <1>2, <1>3, <2>2, <2>3
<1>4. ASSUME NEW c \in Check, Evaluate(c) \/ EngineRaises(c) PROVE ChainInv'
    <2>1. CASE Evaluate(c)
        <3>1. \A d \in Call \ {c} : job'[d] = job[d]
            BY <1>0, <2>1 DEF Evaluate, Call
        <3> QED
            BY <1>1, <2>1, <3>1, PCs DEF Evaluate, Call
    <2>2. CASE EngineRaises(c)
        BY <1>1, <2>2, PCs DEF EngineRaises, Call
    <2> QED
        BY <1>4, <2>1, <2>2
<1>5. ASSUME NEW r \in Resolution, StartResolve(r) PROVE ChainInv'
    <2>1. \A d \in Call \ {r} : job'[d] = job[d]
        BY <1>0, <1>5 DEF StartResolve, Call
    <2> QED
        BY <1>1, <1>5, <2>1, PCs DEF StartResolve, Call
<1>6. ASSUME NEW c \in Call, ReadPrev(c) PROVE ChainInv'
    <2>1. Alone' /\ \A d \in Call \ {c} : pc'[d] \notin Running
        BY <1>2, <1>6, PCs DEF ReadPrev
    <2>2. job'[c].prev = LastHash(records)
        BY <1>0, <1>6 DEF ReadPrev, Job
    <2>3. PrevIsLast'
        BY <1>6, <2>1, <2>2 DEF ReadPrev, PrevIsLast
    <2>4. ChainIntact'
        BY <1>6 DEF ReadPrev, ChainIntact
    <2> QED
        BY <2>1, <2>3, <2>4
<1>7. ASSUME NEW c \in Call, BuildRecord(c) PROVE ChainInv'
    <2>1. Alone' /\ \A d \in Call \ {c} : pc'[d] \notin Running
        BY <1>2, <1>7, PCs DEF BuildRecord
    <2>2. job'[c].prev = LastHash(records)
        BY <1>0, <1>7 DEF BuildRecord, Job, PrevIsLast
    <2>3. PrevIsLast'
        BY <1>7, <2>1, <2>2 DEF BuildRecord, PrevIsLast
    <2>4. ChainIntact'
        BY <1>7 DEF BuildRecord, ChainIntact
    <2> QED
        BY <2>1, <2>3, <2>4
<1>8. ASSUME NEW c \in Call, AppendRecord(c) PROVE ChainInv'
    <2> DEFINE to == IF Persist THEN "write" ELSE AfterAppend(c)
    <2>1. to \in PC /\ to \notin {"build", "append"} /\ pc' = [pc EXCEPT ![c] = to]
        BY <1>8, PCs DEF AppendRecord, AfterAppend
    <2>2. Alone' /\ \A d \in Call \ {c} : pc'[d] \notin Running
        BY <1>2, <1>8, <2>1 DEF AppendRecord
    <2>3. PrevIsLast'
        <3>1. \A d \in Call : pc'[d] \notin {"build", "append"}
            BY <1>0, <2>1, <2>2
        <3> QED
            BY <3>1 DEF PrevIsLast
    <2>4. AuditRecord(job[c].prev, BodyOf(c)) \in Record
        BY <1>8, AuditRecordType DEF AppendRecord
    <2>5. BodyOf(c) \in Body /\ job[c].prev = LastHash(records)
        BY <1>8, <2>4 DEF AppendRecord, PrevIsLast, AuditRecord, Record
    <2>6. ChainIntact'
        BY <1>0, <1>8, <2>4, <2>5, ChainGrows DEF AppendRecord, ChainIntact
    <2> QED
        BY <2>2, <2>3, <2>6
<1>9. ASSUME NEW c \in Call, WriteLine(c) \/ WriteFails(c) PROVE ChainInv'
    BY <1>3, <1>9, PCs DEF WriteLine, WriteFails, AfterAppend
<1>10. ASSUME NEW c \in Check,
              Enqueue(c) \/ EnqueueFails(c) \/ Emit(c) \/ SinkRaises(c) \/ Reply(c)
       PROVE  ChainInv'
    BY <1>3, <1>10, PCs DEF Enqueue, EnqueueFails, Emit, SinkRaises, Reply, Call
<1>11. ASSUME NEW r \in Resolution,
              UnknownTicket(r) \/ LoadTicket(r) \/ UpdateTicket(r) \/ UpdateFails(r)
       PROVE  ChainInv'
    BY <1>3, <1>11, PCs DEF UnknownTicket, LoadTicket, UpdateTicket, UpdateFails, Call
<1>12. ASSUME Crash PROVE ChainInv'
    <2>1. \A c \in Call : pc'[c] \notin Running
        BY <1>12 DEF Crash
    <2>2. records' = <<>>
        BY <1>12 DEF Crash
    <2> QED
        BY <2>1, <2>2 DEF Alone, PrevIsLast, ChainIntact, Verify
<1>13. ASSUME UNCHANGED vars PROVE ChainInv'
    BY <1>13 DEF vars, Alone, PrevIsLast, ChainIntact
<1> QED
    BY <1>4, <1>5, <1>6, <1>7, <1>8, <1>9, <1>10, <1>11, <1>12, <1>13
    DEF Next, Arrive, Advance, Fail, AllEnded

\* The chain of a process that runs one call at a time verifies in every state,
\* also after failed writes, failed sinks and restarts.
THEOREM SingleThreadChain == Threads = 1 => (Spec => []ChainIntact)
<1> SUFFICES ASSUME Threads = 1 PROVE Spec => []ChainIntact
    OBVIOUS
<1>1. TypeInv /\ ChainInv /\ [Next]_vars => ChainInv'
    BY ChainStep
<1>2. ChainInv => ChainIntact
    BY DEF ChainInv
<1> QED
    BY <1>1, <1>2, ChainInit, TypeAlways, PTL DEF Spec

-----------------------------------------------------------------------------
(* The file of a process that runs one call at a time.                     *)

Unbroken == crashes = 0 /\ \A c \in Call : pc[c] # "file_failed"

\* With one thread the file is a copy of the list, or a line behind it while a
\* call stands between its two appends.
Mirror ==
    /\ ~Persist => file = <<>>
    /\ Persist /\ Unbroken =>
          \/ file = records /\ \A c \in Call : pc[c] # "write"
          \/ \E c \in Call :
                /\ pc[c] = "write"
                /\ records = Append(file, AuditRecord(job[c].prev, BodyOf(c)))

LEMMA MirrorStep ==
    TypeInv /\ WritesFile /\ Alone /\ Mirror /\ [Next]_vars => Mirror'
<1> SUFFICES ASSUME TypeInv, WritesFile, Alone, Mirror, [Next]_vars PROVE Mirror'
    OBVIOUS
<1>0. pc \in [Call -> PC]
    BY DEF TypeInv, TypeOK
<1> USE DEF Goto, Running, InAppend
<1>1. ASSUME NEW c \in Call, AppendRecord(c) PROVE Mirror'
    <2>1. \A d \in Call : pc[d] # "write"
        BY <1>1 DEF AppendRecord, Alone
    <2>2. ASSUME Persist
          PROVE  /\ pc'[c] = "write"
                 /\ \A d \in Call : pc[d] = "file_failed" => pc'[d] = "file_failed"
        BY <1>0, <1>1, <2>2 DEF AppendRecord
    <2>3. ASSUME Persist, Unbroken'
          PROVE  records' = Append(file', AuditRecord(job'[c].prev, BodyOf(c)'))
        <3>1. Unbroken
            BY <1>1, <2>2, <2>3 DEF AppendRecord, Unbroken
        <3>2. file = records
            BY <2>1, <2>3, <3>1 DEF Mirror
        <3> QED
            BY <1>1, <3>2 DEF AppendRecord, BodyOf
    <2> QED
        BY <1>1, <2>2, <2>3 DEF AppendRecord, Mirror
<1>2. ASSUME NEW c \in Call, WriteLine(c) PROVE Mirror'
    <2>1. Persist /\ pc[c] = "write" /\ \A d \in Call : pc[d] = "write" => d = c
        BY <1>2 DEF WriteLine, WritesFile, Alone
    <2>2. /\ \A d \in Call : pc'[d] # "write"
          /\ \A d \in Call : pc[d] = "file_failed" => pc'[d] = "file_failed"
        BY <1>0, <1>2, <2>1 DEF WriteLine, AfterAppend
    <2>3. ASSUME Unbroken' PROVE file' = records'
        <3>1. Unbroken
            BY <1>2, <2>2, <2>3 DEF WriteLine, Unbroken
        <3>2. records = Append(file, AuditRecord(job[c].prev, BodyOf(c)))
            BY <2>1, <3>1 DEF Mirror
        <3> QED
            BY <1>2, <3>2 DEF WriteLine
    <2> QED
        BY <2>1, <2>2, <2>3 DEF Mirror
<1>3. ASSUME NEW c \in Call, NEW to \in PC, Moves(c, to) PROVE Mirror'
    <2>1. /\ \A d \in Call \ {c} : pc'[d] = pc[d]
          /\ pc'[c] # "write" /\ pc[c] # "file_failed"
          /\ pc[c] = "write" => pc'[c] = "file_failed"
          /\ records' = records /\ file' = file /\ crashes' = crashes
        BY <1>0, <1>3 DEF Moves, Edge
    <2>2. \A d \in Call \ {c} : job'[d] = job[d] /\ BodyOf(d)' = BodyOf(d)
        BY <1>3 DEF Moves, BodyOf
    <2>3. ASSUME Persist, Unbroken'
          PROVE  \/ file' = records' /\ \A d \in Call : pc'[d] # "write"
                 \/ \E d \in Call :
                       /\ pc'[d] = "write"
                       /\ records' =
                             Append(file', AuditRecord(job'[d].prev, BodyOf(d)'))
        <3>1. Unbroken /\ pc[c] # "write"
            BY <2>1, <2>3 DEF Unbroken
        <3>2. CASE file = records /\ \A d \in Call : pc[d] # "write"
            BY <2>1, <3>2
        <3>3. ASSUME NEW d \in Call, pc[d] = "write",
                     records = Append(file, AuditRecord(job[d].prev, BodyOf(d)))
              PROVE  /\ pc'[d] = "write"
                     /\ records' =
                             Append(file', AuditRecord(job'[d].prev, BodyOf(d)'))
            <4>1. d \in Call \ {c}
                BY <3>1, <3>3
            <4> QED
                BY <2>1, <2>2, <3>3, <4>1
        <3> QED
            BY <2>3, <3>1, <3>2, <3>3 DEF Mirror
    <2> QED
        BY <2>1, <2>3 DEF Mirror
<1>4. CASE Crash
    <2>1. crashes' # 0 /\ file' = file
        BY <1>4 DEF Crash, TypeInv, TypeOK
    <2> QED
        BY <2>1 DEF Mirror, Unbroken
<1>5. CASE UNCHANGED vars
    BY <1>5 DEF vars, Mirror, Unbroken, BodyOf
<1> QED
    BY <1>1, <1>2, <1>3, <1>4, <1>5, OneMove

\* What comes before the last record of a chain is a chain.
LEMMA ChainPrefix ==
    ASSUME NEW log \in Seq(Record), NEW rec \in Record, Verify(Append(log, rec))
    PROVE  Verify(log)
<1> DEFINE longer == Append(log, rec)
<1>1. /\ DOMAIN log \subseteq DOMAIN longer
      /\ \A i \in DOMAIN log : longer[i] = log[i]
    OBVIOUS
<1>2. \A i \in DOMAIN log : i # 1 => i - 1 \in DOMAIN log
    OBVIOUS
<1> HIDE DEF longer
<1> QED
    BY <1>1, <1>2 DEF Verify, longer

\* A process that runs one call at a time, has not been restarted and has not
\* failed to write a line leaves a file that verifies, in every state: nothing
\* else breaks it, failing queues, sinks and engines included.
THEOREM FileBreaksByFailure ==
    Threads = 1 => (Spec => []FileBreaksOnlyByFailure)
<1> SUFFICES ASSUME Threads = 1 PROVE Spec => []FileBreaksOnlyByFailure
    OBVIOUS
<1>1. TypeInv /\ ChainInv /\ [Next]_vars => ChainInv'
    BY ChainStep
<1>2. Init => Mirror
    BY DEF Init, Mirror
<1>3. TypeInv /\ WritesFile /\ ChainInv /\ Mirror /\ [Next]_vars => Mirror'
    BY MirrorStep DEF ChainInv
<1>4. TypeInv /\ ChainInv /\ Mirror => FileBreaksOnlyByFailure
    <2> SUFFICES ASSUME TypeInv, Verify(records), Mirror, Unbroken PROVE Verify(file)
        BY DEF ChainInv, ChainIntact, FileBreaksOnlyByFailure, Unbroken
    <2>1. CASE ~Persist
        BY <2>1 DEF Mirror, Verify
    <2>2. CASE file = records
        BY <2>2
    <2>3. ASSUME NEW c \in Call, pc[c] = "write",
                 records = Append(file, AuditRecord(job[c].prev, BodyOf(c)))
          PROVE  Verify(file)
        <3>1. AuditRecord(job[c].prev, BodyOf(c)) \in Record
            BY <2>3, AuditRecordType DEF InAppend
        <3> QED
            BY <2>3, <3>1, ChainPrefix DEF TypeInv, TypeOK
    <2> QED
        BY <2>1, <2>2, <2>3 DEF Mirror
<1> QED
    BY <1>1, <1>2, <1>3, <1>4, ChainInit, WritesFileAlways, TypeAlways, PTL DEF Spec

-----------------------------------------------------------------------------
(* One ticket per check, for any number of threads.                        *)

\* A check that has not asked the queue for its ticket.
Early == {"idle", "enqueue"} \cup InAppend

\* A check has one ticket, none before it asks for it, and until then nobody
\* has overridden it.
OneTicketEach ==
    /\ \A t, u \in DOMAIN tickets : tickets[t].check = tickets[u].check => t = u
    /\ \A c \in Check : pc[c] \in Early =>
          /\ \A t \in DOMAIN tickets : tickets[t].check # c
          /\ \A i \in DOMAIN Trail :
                Trail[i].body.check = c => Trail[i].body.approver = None

\* A ticket is an old one, with its check, or the one a check has just got.
LEMMA TicketsKnown ==
    ASSUME TypeInv, [Next]_vars, NEW t \in DOMAIN tickets'
    PROVE  \/ t \in DOMAIN tickets /\ tickets'[t].check = tickets[t].check
           \/ \E c \in Check :
                 /\ Enqueue(c) /\ t = Len(tickets) + 1
                 /\ tickets'[t] = [check |-> c, approver |-> None, effect |-> None]
<1>0. tickets \in Seq(Ticket) /\ job \in [Call -> Job] /\ Resolution \subseteq Call
    BY DEF TypeInv, TypeOK, Call
<1>1. ASSUME NEW c \in Check, Enqueue(c)
      PROVE  \/ t \in DOMAIN tickets /\ tickets'[t].check = tickets[t].check
             \/ /\ t = Len(tickets) + 1
                /\ tickets'[t] = [check |-> c, approver |-> None, effect |-> None]
    BY <1>0, <1>1 DEF Enqueue
<1>2. ASSUME ~\E c \in Check : Enqueue(c)
      PROVE  t \in DOMAIN tickets
    <2>1. ASSUME NEW r \in Resolution, LoadTicket(r) PROVE t \in DOMAIN tickets
        BY <1>0, <2>1 DEF LoadTicket
    <2>2. ASSUME NEW r \in Resolution, UpdateTicket(r) PROVE t \in DOMAIN tickets
        BY <1>0, <2>2 DEF UpdateTicket
    <2>3. CASE Crash
        BY <2>3 DEF Crash
    <2>4. CASE tickets' = tickets
        BY <2>4
    <2> QED
        BY <1>2, <2>1, <2>2, <2>3, <2>4
        DEF Next, vars, Arrive, Advance, Fail, AllEnded, Evaluate, EngineRaises,
            StartResolve, ReadPrev, BuildRecord, AppendRecord, WriteLine, WriteFails,
            EnqueueFails, Emit, SinkRaises, Reply, UnknownTicket, UpdateFails
<1>3. ASSUME t \in DOMAIN tickets PROVE tickets'[t].check = tickets[t].check
    <2>1. ~Crash \/ DurableQueue
        BY DEF Crash
    <2> QED
        BY <1>3, <2>1, TicketsStay
<1> QED
    BY <1>1, <1>2, <1>3

\* What a call adds to the trail is an override only if it resolves a ticket.
LEMMA TrailsBody ==
    ASSUME NEW c \in Call
    PROVE  LET body == AuditRecord(job[c].prev, BodyOf(c)).body
           IN  /\ body.check = job[c].check
               /\ body.effect = job[c].effect
               /\ c \in Resolution => body.approver = c
               /\ c \notin Resolution => body.approver = None
BY DEF AuditRecord, BodyOf, Approver

LEMMA OneTicketStep ==
    TypeInv /\ Resolving /\ OneTicketEach /\ [Next]_vars => OneTicketEach'
<1> SUFFICES ASSUME TypeInv, Resolving, OneTicketEach, [Next]_vars
             PROVE  OneTicketEach'
    OBVIOUS
<1>0. /\ pc \in [Call -> PC] /\ tickets \in Seq(Ticket)
      /\ Check \subseteq Call /\ Check \cap Resolution = {}
    BY CallsAssumption DEF TypeInv, TypeOK, Call
<1>1. ASSUME NEW c \in Check, Enqueue(c)
      PROVE  /\ pc[c] \in Early /\ pc'[c] \notin Early
             /\ \A t \in DOMAIN tickets : tickets[t].check # c
    BY <1>0, <1>1 DEF Enqueue, Goto, Early, InAppend, OneTicketEach
<1>2. ASSUME NEW c \in Check, pc'[c] \in Early PROVE pc[c] \in Early
    <2>1. CASE pc'[c] = pc[c]
        BY <1>2, <2>1
    <2>2. CASE Evaluate(c) \/ EngineRaises(c)
        BY <2>2 DEF Evaluate, EngineRaises, Admit, Goto, Early
    <2>3. CASE Advance(c) \/ Fail(c)
        <3>1. CASE ReadPrev(c) \/ BuildRecord(c) \/ AppendRecord(c) \/ WriteLine(c)
                     \/ WriteFails(c)
            BY <3>1 DEF ReadPrev, BuildRecord, AppendRecord, WriteLine, WriteFails,
                        Goto, Early, InAppend
        <3>2. CASE Enqueue(c) \/ EnqueueFails(c)
            BY <3>2 DEF Enqueue, EnqueueFails, Goto, Early
        <3>3. CASE Emit(c) \/ SinkRaises(c) \/ Reply(c)
            BY <1>0, <1>2, <3>3 DEF Emit, SinkRaises, Reply, Goto, Early, InAppend
        <3> QED
            BY <1>0, <2>3, <3>1, <3>2, <3>3 DEF Advance, Fail
    <2>4. CASE Crash
        BY <1>0, <1>2, <2>4 DEF Crash, Early, InAppend, Running
    <2> QED
        BY <1>0, <2>1, <2>2, <2>3, <2>4, StepOf
<1>3. ASSUME NEW t \in DOMAIN tickets', NEW u \in DOMAIN tickets',
             tickets'[t].check = tickets'[u].check
      PROVE  t = u
    <2>1. CASE t \in DOMAIN tickets /\ tickets'[t].check = tickets[t].check
        <3>1. CASE u \in DOMAIN tickets /\ tickets'[u].check = tickets[u].check
            BY <1>3, <2>1, <3>1 DEF OneTicketEach
        <3>2. ASSUME NEW c \in Check, Enqueue(c), tickets'[u].check = c PROVE FALSE
            BY <1>1, <1>3, <2>1, <3>2
        <3> QED
            BY <3>1, <3>2, TicketsKnown
    <2>2. ASSUME NEW c \in Check, Enqueue(c), t = Len(tickets) + 1,
                 tickets'[t].check = c
          PROVE  t = u
        <3>1. ~(u \in DOMAIN tickets /\ tickets'[u].check = tickets[u].check)
            BY <1>1, <1>3, <2>2
        <3> QED
            BY <2>2, <3>1, TicketsKnown
    <2> QED
        BY <2>1, <2>2, TicketsKnown
<1>4. ASSUME NEW c \in Check, pc'[c] \in Early, NEW t \in DOMAIN tickets'
      PROVE  tickets'[t].check # c
    <2>1. CASE t \in DOMAIN tickets /\ tickets'[t].check = tickets[t].check
        BY <1>2, <1>4, <2>1 DEF OneTicketEach
    <2>2. ASSUME NEW d \in Check, Enqueue(d), tickets'[t].check = d
          PROVE  tickets'[t].check # c
        BY <1>1, <1>4, <2>2
    <2> QED
        BY <2>1, <2>2, TicketsKnown
<1>5. ASSUME NEW c \in Check, pc'[c] \in Early, NEW i \in DOMAIN Trail',
             Trail'[i].body.check = c
      PROVE  Trail'[i].body.approver = None
    <2>1. CASE Trail' = Trail
        BY <1>2, <1>5, <2>1 DEF OneTicketEach
    <2>2. ASSUME NEW d \in Call, Trails(d),
                 Trail' = Append(Trail, AuditRecord(job[d].prev, BodyOf(d)))
          PROVE  Trail'[i].body.approver = None
        <3>1. /\ Trail \in Seq(Record) /\ pc[d] \in InAppend
              /\ AuditRecord(job[d].prev, BodyOf(d)) \in Record
            BY <2>2, TrailsFact
        <3>2. CASE i \in DOMAIN Trail
            <4>1. Trail'[i] = Trail[i]
                BY <2>2, <3>1, <3>2
            <4> QED
                BY <1>2, <1>5, <3>2, <4>1 DEF OneTicketEach
        <3>3. CASE i = Len(Trail) + 1
            <4>1. Trail'[i] = AuditRecord(job[d].prev, BodyOf(d))
                BY <2>2, <3>1, <3>3
            <4>2. ASSUME d \in Resolution PROVE FALSE
                <5>1. /\ job[d].ticket \in DOMAIN tickets
                      /\ tickets[job[d].ticket].check = c
                    BY <1>5, <2>2, <3>1, <4>1, <4>2, TrailsBody DEF Resolving
                <5> QED
                    BY <1>2, <1>5, <5>1 DEF OneTicketEach
            <4> QED
                BY <2>2, <4>1, <4>2, TrailsBody
        <3> QED
            BY <1>5, <2>2, <3>1, <3>2, <3>3
    <2>3. CASE Crash /\ ~Persist
        BY <1>5, <2>3 DEF Crash, Trail
    <2> QED
        BY <2>1, <2>2, <2>3, TrailSteps
<1> QED
    BY <1>2, <1>3, <1>4, <1>5 DEF OneTicketEach

-----------------------------------------------------------------------------
(* The queue and the trail of a process that runs one call at a time.      *)

OverridesOf(log, c) ==
    {i \in DOMAIN log : log[i].body.check = c /\ log[i].body.approver # None}

\* The last override of the check is what the ticket holds.
Told(log, ticket) ==
    IF OverridesOf(log, ticket.check) = {}
    THEN ticket.approver = None
    ELSE \E i \in OverridesOf(log, ticket.check) :
            /\ \A j \in OverridesOf(log, ticket.check) : j <= i
            /\ log[i].body.approver = ticket.approver
            /\ log[i].body.effect = ticket.effect

\* A record that does not override the check leaves its story as it was.
LEMMA ToldStays ==
    ASSUME NEW log \in Seq(Record), NEW rec \in Record, NEW ticket,
           Told(log, ticket),
           rec.body.approver = None \/ rec.body.check # ticket.check
    PROVE  Told(Append(log, rec), ticket)
<1>1. /\ DOMAIN Append(log, rec) = DOMAIN log \cup {Len(log) + 1}
      /\ \A i \in DOMAIN log : Append(log, rec)[i] = log[i]
      /\ Append(log, rec)[Len(log) + 1] = rec
    OBVIOUS
<1>2. OverridesOf(Append(log, rec), ticket.check) = OverridesOf(log, ticket.check)
    BY <1>1 DEF OverridesOf
<1>3. \A i \in OverridesOf(log, ticket.check) : Append(log, rec)[i] = log[i]
    BY <1>1 DEF OverridesOf
<1> QED
    BY <1>2, <1>3 DEF Told

\* An override that says what the ticket says is the last one.
LEMMA ToldAnew ==
    ASSUME NEW log \in Seq(Record), NEW rec \in Record, NEW ticket,
           rec.body.approver # None, rec.body.check = ticket.check,
           rec.body.approver = ticket.approver, rec.body.effect = ticket.effect
    PROVE  Told(Append(log, rec), ticket)
<1> DEFINE last == Len(log) + 1
<1>1. /\ DOMAIN Append(log, rec) = 1 .. last /\ last \in 1 .. last
      /\ Append(log, rec)[last] = rec
    OBVIOUS
<1>2. last \in OverridesOf(Append(log, rec), ticket.check)
    BY <1>1 DEF OverridesOf
<1>3. \A j \in OverridesOf(Append(log, rec), ticket.check) : j <= last
    BY <1>1 DEF OverridesOf
<1> QED
    BY <1>1, <1>2, <1>3 DEF Told

\* The call that runs alone has the ticket it is recording to itself; in memory
\* it has put its name on it before it sets the effect.
Holding ==
    \A r \in Resolution :
        /\ pc[r] \in InAppend =>
              /\ tickets[job[r].ticket].approver = r
              /\ tickets[job[r].ticket].effect = job[r].effect
        /\ ~DurableQueue /\ pc[r] = "update" =>
              tickets[job[r].ticket].approver = r

\* While a call stands still that runs alone, nobody touches the queue.
LEMMA AloneTickets ==
    ASSUME TypeInv, Alone, [Next]_vars, NEW r \in Call, pc[r] \in Running,
           pc'[r] = pc[r]
    PROVE  tickets' = tickets
<1>0. pc \in [Call -> PC] /\ Call = Check \cup Resolution
    BY DEF TypeInv, TypeOK, Call
<1>1. ASSUME NEW c \in Check, Enqueue(c) PROVE FALSE
    BY <1>0, <1>1 DEF Enqueue, Goto, Alone, Running
<1>2. ASSUME NEW q \in Resolution, LoadTicket(q) \/ UpdateTicket(q) PROVE FALSE
    BY <1>0, <1>2 DEF LoadTicket, UpdateTicket, Goto, Alone, Running
<1>3. ~Crash
    BY <1>0 DEF Crash, Running, InAppend
<1> QED
    BY <1>1, <1>2, <1>3
    DEF Next, vars, Arrive, Advance, Fail, AllEnded, Evaluate, EngineRaises,
        StartResolve, ReadPrev, BuildRecord, AppendRecord, WriteLine, WriteFails,
        EnqueueFails, Emit, SinkRaises, Reply, UnknownTicket, UpdateFails

LEMMA HoldingStep ==
    TypeInv /\ Alone /\ Holding /\ [Next]_vars => Holding'
<1> SUFFICES ASSUME TypeInv, Alone, Holding, [Next]_vars, NEW r \in Resolution
             PROVE  /\ pc'[r] \in InAppend =>
                          /\ tickets'[job'[r].ticket].approver = r
                          /\ tickets'[job'[r].ticket].effect = job'[r].effect
                    /\ ~DurableQueue /\ pc'[r] = "update" =>
                          tickets'[job'[r].ticket].approver = r
    BY DEF Holding
<1>0. /\ pc \in [Call -> PC] /\ job \in [Call -> Job] /\ tickets \in Seq(Ticket)
      /\ LocalsOK /\ r \in Call /\ r \notin Check
    BY CallsAssumption DEF TypeInv, TypeOK, Call
<1> USE DEF InAppend, Goto
<1>1. CASE pc'[r] = pc[r] /\ job'[r] = job[r]
    BY <1>0, <1>1, AloneTickets DEF Holding, Running
<1>2. CASE ReadPrev(r) \/ BuildRecord(r) \/ AppendRecord(r)
    <2>1. /\ tickets' = tickets /\ pc[r] \in InAppend /\ pc'[r] # "update"
          /\ job'[r].ticket = job[r].ticket /\ job'[r].effect = job[r].effect
        BY <1>0, <1>2 DEF ReadPrev, BuildRecord, AppendRecord, AfterAppend, Job
    <2> QED
        BY <2>1 DEF Holding
<1>3. CASE LoadTicket(r)
    <2>1. /\ job[r].ticket \in DOMAIN tickets /\ pc'[r] = "update"
          /\ job'[r].ticket = job[r].ticket
        BY <1>0, <1>3 DEF LoadTicket, Job
    <2>2. ~DurableQueue => tickets'[job[r].ticket].approver = r
        <3>1. tickets[job[r].ticket] \in Ticket
            BY <1>0, <2>1
        <3> QED
            BY <1>0, <1>3, <2>1, <3>1 DEF LoadTicket, Ticket
    <2> QED
        BY <2>1, <2>2
<1>4. CASE UpdateTicket(r)
    <2> DEFINE t == job[r].ticket
    <2>1. t \in DOMAIN tickets /\ tickets[t] \in Ticket
        BY <1>0, <1>4 DEF UpdateTicket, LocalsOK
    <2>2. ~DurableQueue => tickets[t].approver = r
        BY <1>4 DEF UpdateTicket, Holding
    <2>3. tickets'[t] = IF DurableQueue
                        THEN [[tickets[t] EXCEPT !.effect = job[r].effect]
                                 EXCEPT !.approver = r]
                        ELSE [tickets[t] EXCEPT !.effect = job[r].effect]
        BY <1>0, <1>4, <2>1 DEF UpdateTicket
    <2>4. tickets'[t].approver = r /\ tickets'[t].effect = job[r].effect
        BY <2>1, <2>2, <2>3 DEF Ticket
    <2>5. pc'[r] = "read_prev" /\ job' = job
        BY <1>0, <1>4 DEF UpdateTicket
    <2> QED
        BY <2>4, <2>5
<1>5. CASE \/ StartResolve(r) \/ UnknownTicket(r) \/ Fail(r) \/ Crash
    BY <1>0, <1>5
    DEF StartResolve, Admit, UnknownTicket, Fail, WriteFails, UpdateFails, Crash,
        Running
<1>6. CASE WriteLine(r)
    BY <1>0, <1>6 DEF WriteLine, AfterAppend
<1> QED
    BY <1>0, <1>1, <1>2, <1>3, <1>4, <1>5, <1>6, StepOf DEF Advance

\* No call was cut short between the queue and the trail.
Quiet == \A c \in Call : pc[c] \notin {"lost", "file_failed"}

\* The call has written the ticket, or part of it, and not its record.
Busy(t, r) ==
    /\ job[r].ticket = t
    /\ pc[r] \in InAppend \/ (pc[r] = "update" /\ ~DurableQueue)

\* A ticket and the trail agree, or someone is about to make them agree.
Story ==
    Quiet => \A t \in DOMAIN tickets :
        Told(Trail, tickets[t]) \/ \E r \in Resolution : Busy(t, r)

\* What cuts a call short is final.
LEMMA QuietBefore == ASSUME TypeInv, [Next]_vars, Quiet' PROVE Quiet
<1> SUFFICES ASSUME NEW d \in Call, pc[d] \in {"lost", "file_failed"}
             PROVE  pc'[d] = pc[d]
    BY DEF Quiet
<1>0. pc \in [Call -> PC]
    BY DEF TypeInv, TypeOK
<1>1. ASSUME NEW c \in Call, AppendRecord(c) \/ WriteLine(c) PROVE pc'[d] = pc[d]
    BY <1>0, <1>1 DEF AppendRecord, WriteLine, Goto
<1>2. ASSUME NEW c \in Call, NEW to \in PC, Moves(c, to) PROVE pc'[d] = pc[d]
    BY <1>0, <1>2 DEF Moves, Edge
<1>3. CASE Crash \/ UNCHANGED vars
    BY <1>0, <1>3 DEF Crash, vars, Running, InAppend
<1> QED
    BY <1>1, <1>2, <1>3, OneMove

\* A call that is to make them agree does so or goes on being about to.
LEMMA BusyStays ==
    ASSUME TypeInv, WritesFile, [Next]_vars, Quiet', ~Crash,
           NEW t, NEW r \in Resolution, Busy(t, r), ~Trails(r)
    PROVE  Busy(t, r)'
<1>0. /\ pc \in [Call -> PC] /\ job \in [Call -> Job]
      /\ r \in Call /\ r \notin Check
    BY CallsAssumption DEF TypeInv, TypeOK, Call
<1> USE DEF InAppend, Goto, Busy
<1>1. CASE pc'[r] = pc[r] /\ job'[r] = job[r]
    BY <1>1
<1>2. CASE ReadPrev(r) \/ BuildRecord(r) \/ UpdateTicket(r)
    BY <1>0, <1>2 DEF ReadPrev, BuildRecord, UpdateTicket, Job
<1>3. CASE AppendRecord(r) \/ WriteLine(r)
    <2>1. Persist /\ AppendRecord(r)
        BY <1>0, <1>3 DEF Trails, WritesFile, WriteLine
    <2> QED
        BY <1>0, <2>1 DEF AppendRecord
<1>4. CASE Fail(r)
    BY <1>0, <1>4 DEF Fail, WriteFails, UpdateFails, Quiet
<1>5. CASE StartResolve(r) \/ UnknownTicket(r) \/ LoadTicket(r)
    BY <1>0, <1>5 DEF StartResolve, Admit, UnknownTicket, LoadTicket
<1> QED
    BY <1>0, <1>1, <1>2, <1>3, <1>4, <1>5, StepOf DEF Advance

LEMMA StoryStep ==
    /\ TrailOutlivesQueue
    /\ TypeInv /\ WritesFile /\ Alone /\ Resolving /\ OneTicketEach /\ Holding
    /\ Story /\ [Next]_vars
    => Story'
<1> SUFFICES ASSUME TrailOutlivesQueue, TypeInv, WritesFile, Alone, Resolving,
                    OneTicketEach, Holding, Story, [Next]_vars, Quiet',
                    NEW t \in DOMAIN tickets'
             PROVE  Told(Trail', tickets'[t]) \/ \E r \in Resolution : Busy(t, r)'
    BY DEF Story
<1>0. /\ pc \in [Call -> PC] /\ job \in [Call -> Job] /\ tickets \in Seq(Ticket)
      /\ Call = Check \cup Resolution /\ Check \cap Resolution = {}
    BY CallsAssumption DEF TypeInv, TypeOK, Call
<1>1. ASSUME t \in DOMAIN tickets
      PROVE  Told(Trail, tickets[t]) \/ \E r \in Resolution : Busy(t, r)
    BY <1>1, QuietBefore DEF Story
<1>2. CASE Crash
    <2>1. pc' = pc /\ job' = job
        BY <1>0, <1>2 DEF Crash, Quiet
    <2>2. t \in DOMAIN tickets /\ tickets' = tickets
        BY <1>2 DEF Crash
    <2>3. Trail' = Trail
        BY <1>2, <2>2, GateAssumption
        DEF Crash, TrailOutlivesQueue, Trail, TypeInv, TypeOK
    <2> QED
        BY <1>1, <2>1, <2>2, <2>3 DEF Busy
<1>3. ASSUME ~Crash, NEW c \in Call, Trails(c),
             Trail' = Append(Trail, AuditRecord(job[c].prev, BodyOf(c)))
      PROVE  Told(Trail', tickets'[t])
    <2> DEFINE rec == AuditRecord(job[c].prev, BodyOf(c))
    <2>1. /\ pc[c] \in InAppend /\ tickets' = tickets
          /\ rec \in Record /\ Trail \in Seq(Record)
        BY <1>3, TrailsFact
    <2>2. /\ rec.body.check = job[c].check /\ rec.body.effect = job[c].effect
          /\ c \in Resolution => rec.body.approver = c
          /\ c \notin Resolution => rec.body.approver = None
        BY <1>3, TrailsBody
    <2>3. CASE c \in Resolution /\ job[c].ticket = t
        <3>1. /\ tickets[t].approver = c /\ tickets[t].effect = job[c].effect
              /\ tickets[t].check = job[c].check
            BY <2>1, <2>3 DEF Holding, Resolving
        <3>2. c # None
            BY <2>3, CallsAssumption
        <3> QED
            BY <1>3, <2>1, <2>2, <2>3, <3>1, <3>2, ToldAnew
    <2>4. CASE ~(c \in Resolution /\ job[c].ticket = t)
        <3>1. \A r \in Resolution : ~Busy(t, r)
            BY <1>0, <2>1, <2>4 DEF Busy, Alone, Running, InAppend
        <3>2. Told(Trail, tickets[t])
            BY <1>1, <2>1, <3>1
        <3>3. rec.body.approver = None \/ rec.body.check # tickets[t].check
            BY <2>1, <2>2, <2>4 DEF Resolving, OneTicketEach
        <3> QED
            BY <1>3, <2>1, <3>2, <3>3, ToldStays
    <2> QED
        BY <2>3, <2>4
<1>4. ASSUME ~Crash, ~\E c \in Call : Trails(c), Trail' = Trail
      PROVE  Told(Trail', tickets'[t]) \/ \E r \in Resolution : Busy(t, r)'
    <2>1. ASSUME NEW r \in Resolution, Busy(t, r) PROVE Busy(t, r)'
        BY <1>0, <1>4, <2>1, BusyStays
    <2>2. CASE t \in DOMAIN tickets /\ tickets'[t] = tickets[t]
        BY <1>1, <1>4, <2>1, <2>2
    <2>3. ASSUME NEW c \in Check, Enqueue(c), t = Len(tickets) + 1,
                 tickets'[t] = [check |-> c, approver |-> None, effect |-> None]
          PROVE  Told(Trail', tickets'[t])
        <3>1. pc[c] \in Early
            BY <2>3 DEF Enqueue, Goto, Early
        <3>2. OverridesOf(Trail, c) = {}
            BY <3>1 DEF OneTicketEach, OverridesOf
        <3> QED
            BY <1>4, <2>3, <3>2 DEF Told
    <2>4. ASSUME NEW r \in Resolution, LoadTicket(r), t \in DOMAIN tickets
          PROVE  tickets'[t] = tickets[t] \/ Busy(t, r)'
        <3>1. pc'[r] = "update" /\ job'[r].ticket = job[r].ticket
            BY <1>0, <2>4 DEF LoadTicket, Goto, Job
        <3>2. \/ tickets'[t] = tickets[t]
              \/ ~DurableQueue /\ job[r].ticket = t
            BY <1>0, <2>4 DEF LoadTicket
        <3> QED
            BY <3>1, <3>2 DEF Busy
    <2>5. ASSUME NEW r \in Resolution, UpdateTicket(r), t \in DOMAIN tickets
          PROVE  tickets'[t] = tickets[t] \/ Busy(t, r)'
        <3>1. pc'[r] = "read_prev" /\ job' = job
            BY <1>0, <2>5 DEF UpdateTicket, Goto
        <3>2. tickets'[t] = tickets[t] \/ job[r].ticket = t
            BY <1>0, <2>5 DEF UpdateTicket
        <3> QED
            BY <3>1, <3>2 DEF Busy, InAppend
    <2>6. \/ t \in DOMAIN tickets
          \/ \E c \in Check :
                /\ Enqueue(c) /\ t = Len(tickets) + 1
                /\ tickets'[t] = [check |-> c, approver |-> None, effect |-> None]
        BY TicketsKnown
    <2>7. ASSUME t \in DOMAIN tickets, tickets'[t] # tickets[t]
          PROVE  \E r \in Resolution : LoadTicket(r) \/ UpdateTicket(r)
        <3>1. \A c \in Check : ~Enqueue(c)
            BY <1>0, <2>7 DEF Enqueue
        <3> QED
            BY <1>4, <2>7, <3>1
            DEF Next, vars, Arrive, Advance, Fail, AllEnded, Evaluate, EngineRaises,
                StartResolve, ReadPrev, BuildRecord, AppendRecord, WriteLine,
                WriteFails, EnqueueFails, Emit, SinkRaises, Reply, UnknownTicket,
                UpdateFails
    <2> QED
        BY <2>2, <2>3, <2>4, <2>5, <2>6, <2>7
<1>5. ASSUME NEW c \in Call, Trails(c)
      PROVE  Trail' = Append(Trail, AuditRecord(job[c].prev, BodyOf(c)))
    BY <1>5 DEF Trails, Trail, WriteLine, AppendRecord
<1> QED
    BY <1>2, <1>3, <1>4, <1>5, TrailSteps

\* With one thread the queue and the trail tell one story: when nothing is under
\* way and nothing was cut short, each ticket holds the last override that the
\* trail has for its check, also after a second resolution of the same ticket.
\* (TrailOutlivesQueue: see OverridesAreAudited.)
THEOREM QueueFollowsTrail ==
    Threads = 1 /\ TrailOutlivesQueue => (Spec => []LastOverrideIsTheTickets)
<1> SUFFICES ASSUME Threads = 1, TrailOutlivesQueue
             PROVE  Spec => []LastOverrideIsTheTickets
    OBVIOUS
<1>1. TypeInv /\ ChainInv /\ [Next]_vars => ChainInv'
    BY ChainStep
<1>2. ChainInv => Alone
    BY DEF ChainInv
<1>3. Init => OneTicketEach /\ Holding /\ Story
    BY DEF Init, OneTicketEach, Holding, Story, Trail, InAppend, Call
<1>4. TypeInv /\ WritesFile /\ Alone /\ Resolving
          /\ OneTicketEach /\ Holding /\ Story /\ [Next]_vars
          => OneTicketEach' /\ Holding' /\ Story'
    BY OneTicketStep, HoldingStep, StoryStep
<1>5. Story => LastOverrideIsTheTickets
    <2> SUFFICES ASSUME Story, InFlight = {}, Quiet, NEW t \in DOMAIN tickets
                 PROVE  Told(Trail, tickets[t])
        BY DEF LastOverrideIsTheTickets, Told, OverridesOf, Quiet
    <2>1. \A r \in Resolution : ~Busy(t, r)
        BY DEF InFlight, Busy, Running, InAppend, Call
    <2> QED
        BY <2>1 DEF Story
<1> QED
    BY <1>1, <1>2, <1>3, <1>4, <1>5, ChainInit, WritesFileAlways, ApprovingAlways,
       TypeAlways, PTL DEF Spec

-----------------------------------------------------------------------------
(* Any number of threads.                                                  *)

\* A digest that some record may be built on.
Known(log, prev) ==
    prev = GENESIS_HASH \/ \E j \in DOMAIN log : log[j].hash = prev

PrevIsKnown ==
    \A c \in Call : pc[c] \in {"build", "append"} => Known(records, job[c].prev)

TreeInv == PrevIsKnown /\ LogIsTree

LEMMA LastIsKnown ==
    ASSUME NEW log \in Seq(Record) PROVE Known(log, LastHash(log))
<1>1. CASE log = <<>>
    BY <1>1 DEF Known, LastHash
<1>2. CASE log # <<>>
    <2>1. Len(log) \in DOMAIN log
        BY <1>2
    <2> QED
        BY <1>2, <2>1 DEF Known, LastHash
<1> QED
    BY <1>1, <1>2

LEMMA TreeStep == TypeInv /\ TreeInv /\ [Next]_vars => TreeInv'
<1> SUFFICES ASSUME TypeInv, TreeInv, [Next]_vars PROVE TreeInv'
    OBVIOUS
<1>0. /\ pc \in [Call -> PC] /\ job \in [Call -> Job]
      /\ records \in Seq(Record)
    BY DEF TypeInv, TypeOK
<1> USE DEF Goto, TreeInv
<1>1. ASSUME NEW c \in Call, NEW to \in PC \ {"build", "append"},
             pc' = [pc EXCEPT ![c] = to], records' = records,
             \A d \in Call \ {c} : job'[d] = job[d]
      PROVE  TreeInv'
    <2>1. PrevIsKnown'
        BY <1>0, <1>1 DEF PrevIsKnown
    <2>2. LogIsTree'
        BY <1>1 DEF LogIsTree
    <2> QED
        BY <2>1, <2>2
<1>2. ASSUME NEW c \in Call, NEW to \in {"build", "append"},
             pc' = [pc EXCEPT ![c] = to], records' = records,
             \A d \in Call \ {c} : job'[d] = job[d],
             Known(records, job'[c].prev)
      PROVE  TreeInv'
    <2>1. PrevIsKnown'
        BY <1>0, <1>2 DEF PrevIsKnown
    <2>2. LogIsTree'
        BY <1>2 DEF LogIsTree
    <2> QED
        BY <2>1, <2>2
<1>3. ASSUME NEW c \in Call, AppendRecord(c) PROVE TreeInv'
    <2> DEFINE rec == AuditRecord(job[c].prev, BodyOf(c))
    <2>1. rec \in Record /\ records' = Append(records, rec)
        BY <1>3, AuditRecordType DEF AppendRecord, InAppend
    <2>2. /\ DOMAIN records' = 1 .. Len(records) + 1
          /\ \A i \in DOMAIN records : records'[i] = records[i]
          /\ records'[Len(records) + 1] = rec
        BY <1>0, <2>1
    <2>3. \A p : Known(records, p) => Known(records', p)
        BY <1>0, <2>2 DEF Known
    <2>4. \A d \in Call : pc'[d] \in {"build", "append"} => pc[d] = pc'[d]
        BY <1>0, <1>3 DEF AppendRecord, AfterAppend
    <2>5. PrevIsKnown'
        BY <1>3, <2>3, <2>4 DEF AppendRecord, PrevIsKnown
    <2>6. Known(records, rec.prev) /\ rec.hash = ChainHash(rec.prev, rec.body)
        BY <1>3 DEF AppendRecord, PrevIsKnown, AuditRecord
    <2>7. LogIsTree'
        <3> SUFFICES ASSUME NEW i \in DOMAIN records'
                     PROVE  /\ records'[i].hash =
                                 ChainHash(records'[i].prev, records'[i].body)
                            /\ \/ records'[i].prev = GENESIS_HASH
                               \/ \E j \in 1 .. i - 1 :
                                     records'[j].hash = records'[i].prev
            BY DEF LogIsTree
        <3>1. CASE i \in DOMAIN records
            <4>1. \A j \in 1 .. i - 1 : records'[j] = records[j]
                BY <1>0, <2>2, <3>1
            <4> QED
                BY <2>2, <3>1, <4>1 DEF LogIsTree
        <3>2. CASE i = Len(records) + 1
            BY <1>0, <2>2, <2>6, <3>2 DEF Known
        <3> QED
            BY <1>0, <2>2, <3>1, <3>2
    <2> QED
        BY <2>5, <2>7
<1>4. ASSUME NEW c \in Call, ReadPrev(c) PROVE TreeInv'
    <2>1. Known(records, job'[c].prev)
        BY <1>0, <1>4, LastIsKnown DEF ReadPrev, Job
    <2>2. \A d \in Call \ {c} : job'[d] = job[d]
        BY <1>0, <1>4 DEF ReadPrev
    <2> QED
        BY <1>2, <1>4, <2>1, <2>2 DEF ReadPrev
<1>5. ASSUME NEW c \in Call, BuildRecord(c) PROVE TreeInv'
    <2>1. job'[c].prev = job[c].prev
        BY <1>0, <1>5 DEF BuildRecord, Job
    <2>2. Known(records, job'[c].prev)
        BY <1>5, <2>1 DEF BuildRecord, PrevIsKnown
    <2>3. \A d \in Call \ {c} : job'[d] = job[d]
        BY <1>0, <1>5 DEF BuildRecord
    <2> QED
        BY <1>2, <1>5, <2>2, <2>3 DEF BuildRecord
<1>6. ASSUME NEW c \in Check, Evaluate(c) PROVE TreeInv'
    <2>1. \A d \in Call \ {c} : job'[d] = job[d]
        BY <1>0, <1>6 DEF Evaluate, Call
    <2> QED
        BY <1>1, <1>6, <2>1, PCs DEF Evaluate, Admit, Call
<1>7. ASSUME NEW r \in Resolution, StartResolve(r) \/ LoadTicket(r) PROVE TreeInv'
    <2>1. \A d \in Call \ {r} : job'[d] = job[d]
        BY <1>0, <1>7 DEF StartResolve, LoadTicket, Call
    <2> QED
        BY <1>1, <1>7, <2>1, PCs DEF StartResolve, LoadTicket, Admit, Call
<1>8. ASSUME NEW c \in Call, WriteLine(c) \/ WriteFails(c) PROVE TreeInv'
    BY <1>1, <1>8, PCs DEF WriteLine, WriteFails, AfterAppend
<1>9. ASSUME NEW c \in Check,
             \/ EngineRaises(c) \/ Enqueue(c) \/ EnqueueFails(c)
             \/ Emit(c) \/ SinkRaises(c) \/ Reply(c)
      PROVE  TreeInv'
    BY <1>1, <1>9, PCs
    DEF EngineRaises, Admit, Enqueue, EnqueueFails, Emit, SinkRaises, Reply, Call
<1>10. ASSUME NEW r \in Resolution,
              UnknownTicket(r) \/ UpdateTicket(r) \/ UpdateFails(r)
       PROVE  TreeInv'
    BY <1>1, <1>10, PCs DEF UnknownTicket, UpdateTicket, UpdateFails, Call
<1>11. ASSUME Crash PROVE TreeInv'
    <2>1. \A c \in Call : pc'[c] \notin {"build", "append"}
        BY <1>0, <1>11 DEF Crash, Running, InAppend
    <2>2. records' = <<>>
        BY <1>11 DEF Crash
    <2> QED
        BY <2>1, <2>2 DEF PrevIsKnown, LogIsTree
<1>12. ASSUME UNCHANGED vars PROVE TreeInv'
    BY <1>12 DEF vars, PrevIsKnown, LogIsTree
<1> QED
    BY <1>3, <1>4, <1>5, <1>6, <1>7, <1>8, <1>9, <1>10, <1>11, <1>12
    DEF Next, Arrive, Advance, Fail, AllEnded

\* However the threads interleave, every record extends the genesis hash or a
\* record before it: what a race breaks is the line, never the binding of a
\* record to some predecessor.
THEOREM ThreadsLeaveTree == Spec => []LogIsTree
<1>1. Init => TreeInv
    BY DEF Init, TreeInv, PrevIsKnown, LogIsTree
<1>2. TreeInv => LogIsTree
    BY DEF TreeInv
<1> QED
    BY <1>1, <1>2, TreeStep, TypeAlways, PTL DEF Spec

=============================================================================
