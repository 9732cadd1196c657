------------------------------- MODULE Remote -------------------------------
(***************************************************************************)
(* The gate over the wire: RemoteGate (client.py) asks the gate service    *)
(* (service.py), which records a verdict and, when it lets the tool run,   *)
(* answers with a signed clearance token (signing.py); the client runs the *)
(* tool, or its caller presents the token to a downstream function guarded *)
(* by require_clearance.  Requests and answers are lost, late or answered  *)
(* with an error, and the client's timeout does not stop the service.      *)
(*                                                                         *)
(* Every element of Call is one call of RemoteGate.check.  Asking again is *)
(* a call of its own with the same request id, made at any time: after an  *)
(* answer, after none, or beside the first call, as the wrappers' fallback *)
(* id brings about.  Gate.check is one step here, whose steps are Gate's.  *)
(*                                                                         *)
(* Time is counted in ticks, Second of them to the second, because exp is  *)
(* in whole seconds and the clocks are not.                                *)
(***************************************************************************)
EXTENDS Effects, Integers, FiniteSets

CONSTANTS
    Call,         \* calls of RemoteGate.check
    Request,      \* request ids
    Action,       \* the actions of policies and guards
    RequestOf,    \* the request id of a call
    ActionOf,     \* the action a call proposes
    None,         \* Python's None
    Key,          \* signing keys
    ServiceKey,   \* the service's Signer key, or None
    ClientKey,    \* the key of a call's Verifier, or None without one
    GuardKey,     \* the key of the downstream Verifier
    Guards,       \* the actions guards are bound to; None binds to any
    Offset,       \* how far the clock of a machine is ahead of true time
    Second,       \* ticks per second
    Ttl,          \* token_ttl_seconds
    MaxNow,       \* bound on time
    MaxUses       \* bound on the guarded calls that are let through

Machine == {"service", "client", "guard"}

ASSUME RemoteAssumption ==
    /\ RequestOf \in [Call -> Request]
    /\ ActionOf \in [Call -> Action]
    /\ None \notin Key \cup Action
    /\ ServiceKey \in Key \cup {None}
    /\ ClientKey \in [Call -> Key \cup {None}]
    /\ GuardKey \in Key
    /\ Guards \subseteq Action \cup {None}
    /\ Offset \in [Machine -> Int]
    /\ Second \in Nat \ {0}
    /\ Ttl \in Nat
    /\ MaxNow \in Nat
    /\ MaxUses \in Nat

VARIABLES
    now,        \* true time, in ticks
    stage,      \* where each call is
    token,      \* what RemoteResult.token holds
    requests,   \* calls whose request is on its way to the service
    replies,    \* the answer on its way back to each call, or None
    verdicts,   \* the audited verdicts of the service
    uses        \* the guarded calls that were let through

vars == <<now, stage, token, requests, replies, verdicts, uses>>

-----------------------------------------------------------------------------
Stage == {"idle", "waiting", "cleared", "executed", "pending", "denied",
          "unreachable"}

Token == [request : Request, action : Action, exp : Int, key : Key]

Reply == [status : {"ok", "rejected", "error"}, effect : Effect \cup {None},
          token : Token \cup {None}]

Refusal(status) == [status |-> status, effect |-> None, token |-> None]

Verdict == [call : Call, effect : Effect, at : Nat]

Clock(machine) == now + Offset[machine]

\* int(now.timestamp()), in ticks.
WholeSeconds(t) == t - (t % Second)

\* Mutation of Exp: the time is rounded up.
ExpRoundedUp(t) == WholeSeconds(t + Second - 1) + Ttl * Second

\* The exp claim of Signer.issue, in ticks.
Exp(t) == WholeSeconds(t) + Ttl * Second

\* create_app.check: a token for an effect that runs, when the signer is keyed.
Issue(c, e) ==
    IF ServiceKey # None /\ Executes(e)
    THEN [request |-> RequestOf[c], action |-> ActionOf[c],
          exp |-> Exp(Clock("service")), key |-> ServiceKey]
    ELSE None

\* Verifier.verify returns the claims.
Verifies(tok, key, t) == tok.key = key /\ t <= tok.exp

\* Mutation of Opens: the guard does not look at the action.
OpensForAny(guard, tok) ==
    /\ tok # None
    /\ Verifies(tok, GuardKey, Clock("guard"))

\* require_clearance calls the function it guards.
Opens(guard, tok) ==
    /\ tok # None
    /\ Verifies(tok, GuardKey, Clock("guard"))
    /\ guard # None => tok.action = guard

Init ==
    /\ now = 0
    /\ stage = [c \in Call |-> "idle"]
    /\ token = [c \in Call |-> None]
    /\ requests = {}
    /\ replies = [c \in Call |-> None]
    /\ verdicts = {}
    /\ uses = {}

-----------------------------------------------------------------------------
(* The client asks and the service answers.  A request or an answer that   *)
(* stays on its way for ever is a lost one: nothing makes these steps fair. *)

\* Nobody looks at the request id: whatever has become of other calls with it,
\* this one is posted.
Send(c) ==
    /\ stage[c] = "idle"
    /\ stage' = [stage EXCEPT ![c] = "waiting"]
    /\ requests' = requests \cup {c}
    /\ UNCHANGED <<now, token, replies, verdicts, uses>>

\* The validator of CheckRequest turns a manifest with tool calls down.
Reject(c) ==
    /\ c \in requests
    /\ requests' = requests \ {c}
    /\ replies' = [replies EXCEPT ![c] = Refusal("rejected")]
    /\ UNCHANGED <<now, stage, token, verdicts, uses>>

\* Mutation of Serve: the request stays on the wire and is delivered again.
ServeAgain(c) ==
    /\ c \in requests
    /\ \E e \in Effect :
          /\ verdicts' = verdicts \cup {[call |-> c, effect |-> e, at |-> now]}
          /\ replies' = [replies EXCEPT ![c] =
                [status |-> "ok", effect |-> e, token |-> Issue(c, e)]]
    /\ UNCHANGED <<now, stage, token, requests, uses>>

\* Gate.check reaches a verdict on the manifest that was sent, on the one built
\* from the tool calls, or, with neither, a block.
Serve(c) ==
    /\ c \in requests
    /\ requests' = requests \ {c}
    /\ \E e \in Effect :
          /\ verdicts' = verdicts \cup {[call |-> c, effect |-> e, at |-> now]}
          /\ replies' = [replies EXCEPT ![c] =
                [status |-> "ok", effect |-> e, token |-> Issue(c, e)]]
    /\ UNCHANGED <<now, stage, token, uses>>

\* Gate.check raises, before its audit or after: the answer is a 500.
ServeFails(c) ==
    /\ c \in requests
    /\ requests' = requests \ {c}
    /\ replies' = [replies EXCEPT ![c] = Refusal("error")]
    /\ \/ verdicts' = verdicts
       \/ \E e \in Effect :
             verdicts' = verdicts \cup {[call |-> c, effect |-> e, at |-> now]}
    /\ UNCHANGED <<now, stage, token, uses>>

-----------------------------------------------------------------------------
(* The client gets its answer, or does not.                                *)

\* Mutation of Timeout: it only covers the sending of the request.
TimeoutUnserved(c) ==
    /\ stage[c] = "waiting"
    /\ c \in requests
    /\ stage' = [stage EXCEPT ![c] = "unreachable"]
    /\ UNCHANGED <<now, token, requests, replies, verdicts, uses>>

\* httpx gives up: the caller cannot tell whether the service was reached.
Timeout(c) ==
    /\ stage[c] = "waiting"
    /\ stage' = [stage EXCEPT ![c] = "unreachable"]
    /\ UNCHANGED <<now, token, requests, replies, verdicts, uses>>

\* A client with a verifier refuses a token it cannot verify.
Trusts(c, reply) ==
    (reply.token # None /\ ClientKey[c] # None) =>
        Verifies(reply.token, ClientKey[c], Clock("client"))

\* How RemoteGate.check ends on an answer.
EndOn(c, reply) ==
    IF reply.status # "ok" THEN "unreachable"
    ELSE IF reply.effect = "block" THEN "denied"
    ELSE IF ~Trusts(c, reply) THEN "unreachable"
    ELSE IF reply.effect = "review" THEN "pending" ELSE "cleared"

\* Mutation of Receive: an error of the gate does not stand in the tool's way.
ReceiveOpenly(c) ==
    /\ stage[c] = "waiting"
    /\ replies[c] # None
    /\ stage' = [stage EXCEPT ![c] =
          IF replies[c].status = "error" THEN "cleared"
          ELSE EndOn(c, replies[c])]
    /\ token' = [token EXCEPT ![c] =
          IF stage'[c] = "cleared" THEN replies[c].token ELSE None]
    /\ replies' = [replies EXCEPT ![c] = None]
    /\ UNCHANGED <<now, requests, verdicts, uses>>

\* Mutation of Receive: the result holds the whole answer for a token.
ReceiveWhole(c) ==
    /\ stage[c] = "waiting"
    /\ replies[c] # None
    /\ stage' = [stage EXCEPT ![c] = EndOn(c, replies[c])]
    /\ token' = [token EXCEPT ![c] =
          IF stage'[c] = "cleared" THEN replies[c] ELSE None]
    /\ replies' = [replies EXCEPT ![c] = None]
    /\ UNCHANGED <<now, requests, verdicts, uses>>

Receive(c) ==
    /\ stage[c] = "waiting"
    /\ replies[c] # None
    /\ stage' = [stage EXCEPT ![c] = EndOn(c, replies[c])]
    /\ token' = [token EXCEPT ![c] =
          IF stage'[c] = "cleared" THEN replies[c].token ELSE None]
    /\ replies' = [replies EXCEPT ![c] = None]
    /\ UNCHANGED <<now, requests, verdicts, uses>>

\* The wrapper of enforce or auto_instrument calls the tool.
RunTool(c) ==
    /\ stage[c] = "cleared"
    /\ stage' = [stage EXCEPT ![c] = "executed"]
    /\ UNCHANGED <<now, token, requests, replies, verdicts, uses>>

\* A caller of check presents its token to a guarded function, now or later,
\* for the first time or again.
Present(c) ==
    /\ stage[c] = "cleared"
    /\ Cardinality(uses) < MaxUses
    /\ \E guard \in Guards :
          /\ Opens(guard, token[c])
          /\ uses' = uses \cup {[call |-> c, guard |-> guard, at |-> now]}
    /\ UNCHANGED <<now, stage, token, requests, replies, verdicts>>

Tick ==
    /\ now < MaxNow
    /\ now' = now + 1
    /\ UNCHANGED <<stage, token, requests, replies, verdicts, uses>>

Next ==
    \/ \E c \in Call :
          \/ Send(c) \/ Reject(c) \/ Serve(c) \/ ServeFails(c)
          \/ Timeout(c) \/ Receive(c) \/ RunTool(c) \/ Present(c)
    \/ Tick

Spec == Init /\ [][Next]_vars

\* httpx.Client always has a timeout (5 seconds by default).
FairSpec == Spec /\ \A c \in Call : WF_vars(Timeout(c))

-----------------------------------------------------------------------------
(* Properties.                                                             *)

Use == [call : Call, guard : Action \cup {None}, at : Nat]

TypeOK ==
    /\ now \in Nat
    /\ stage \in [Call -> Stage]
    /\ token \in [Call -> Token \cup {None}]
    /\ requests \subseteq Call
    /\ replies \in [Call -> Reply \cup {None}]
    /\ verdicts \subseteq Verdict
    /\ uses \subseteq Use

\* What the caller is told when the service reaches a verdict.
Told == [allow |-> {"cleared", "executed"}, restrict |-> {"cleared", "executed"},
         review |-> {"pending"}, block |-> {"denied"}]

Ended == {"cleared", "executed", "pending", "denied"}

\* Fail closed (client.py:15): whatever is lost, late or answered with an
\* error, a caller acts only on the verdict that the service has recorded for
\* this very call.
AnswerIsTheVerdict ==
    \A c \in Call : stage[c] \in Ended =>
        \E v \in verdicts : v.call = c /\ stage[c] \in Told[v.effect]

\* A guard opens only for what the gate has let run, and, but for the clocks'
\* disagreement, no later than the time to live after it (signing.py:140).
GuardOpensInWindow ==
    \A u \in uses : \E v \in verdicts :
        /\ Executes(v.effect)
        /\ u.guard # None => ActionOf[v.call] = u.guard
        /\ u.at - v.at <= Ttl * Second + Offset["service"] - Offset["guard"]

\* A token lives its time: when guard and service share a key and a clock, the
\* guard of its action opens until a second before the time to live is over,
\* the second exp loses to rounding, and never after it.
TokenLivesItsTtl ==
    (GuardKey = ServiceKey /\ Offset["service"] = Offset["guard"]) =>
        \A c \in Call : token[c] # None =>
            \E v \in verdicts :
                /\ v.call = c
                /\ now - v.at <= (Ttl - 1) * Second => Opens(ActionOf[c], token[c])
                /\ now - v.at > Ttl * Second => ~Opens(ActionOf[c], token[c])

\* A caller is never left waiting (client.py:104), whatever becomes of its
\* request and of the answer.
CallsReturn == \A c \in Call : stage[c] = "waiting" ~> stage[c] # "waiting"

-----------------------------------------------------------------------------
(* The gate's promise, kept over the wire.  The ledger is what the service *)
(* has audited.  A check whose caller has no answer to act on is open: to  *)
(* give up is the client's affair, and the service may decide after it.    *)

Ledger ==
    {[check |-> v.call, effect |-> v.effect, approver |-> None] : v \in verdicts}

OutcomeAt(s) ==
    CASE s = "executed" -> "executed"
      [] s = "pending"  -> "parked"
      [] s = "denied"   -> "refused"
      [] OTHER          -> "pending"

Outcome == [c \in Call |-> OutcomeAt(stage[c])]

Promise == INSTANCE Enforcement WITH
               Check <- Call, Resolution <- {},
               ledger <- Ledger, outcome <- Outcome

\* Each call is decided at most once, also when its caller has given up, and a
\* tool runs, parks or is refused on the one verdict audited for its own call
\* (client.py:165): never on that of another call with the same request id,
\* asked before it, beside it or after it.
KeepsPromise == Promise!Spec

=============================================================================
