---------------------------- MODULE RemoteProofs ----------------------------
(***************************************************************************)
(* What holds of the remote gate for any calls, keys, clocks and times:    *)
(* its types, fail closed, the window of the guards, and that it           *)
(* implements Enforcement.                                                 *)
(***************************************************************************)
EXTENDS Remote, TLAPS

\* Rounding down to whole seconds takes away less than a second
\* (signing.py:94).
LEMMA WholeSecondsFact ==
    ASSUME NEW t \in Int
    PROVE  /\ WholeSeconds(t) \in Int
           /\ WholeSeconds(t) <= t
           /\ t - WholeSeconds(t) < Second
  <1>1. t % Second \in Int /\ 0 <= t % Second /\ t % Second < Second
    BY RemoteAssumption
  <1> QED  BY <1>1, RemoteAssumption DEF WholeSeconds

\* A token says no more than the verdict it was issued on.
Minted(tok, v) ==
    tok # None =>
        /\ tok.action = ActionOf[v.call]
        /\ tok.exp = Exp(v.at + Offset["service"])
        /\ tok.key = ServiceKey
        /\ Executes(v.effect)

ReplyIsTrue(c) ==
    (replies[c] # None /\ replies[c].status = "ok") =>
        \E v \in verdicts :
            /\ v.call = c
            /\ v.effect = replies[c].effect
            /\ Minted(replies[c].token, v)

TokenIsTrue(c) ==
    token[c] # None => \E v \in verdicts : v.call = c /\ Minted(token[c], v)

AnswerIsTrue(c) ==
    stage[c] \in Ended =>
        \E v \in verdicts : v.call = c /\ stage[c] \in Told[v.effect]

\* The inductive invariant of fail closed: what is on its way to a caller, what
\* a caller holds and what it was told all go back to a recorded verdict.
Held == \A c \in Call : ReplyIsTrue(c) /\ TokenIsTrue(c) /\ AnswerIsTrue(c)

-----------------------------------------------------------------------------
\* The times that exp and the clocks yield are integers.
LEMMA ExpType ==
    ASSUME NEW t \in Int
    PROVE  Exp(t) \in Int
  <1>1. WholeSeconds(t) \in Int
    BY WholeSecondsFact
  <1>2. Ttl * Second \in Int
    BY RemoteAssumption
  <1> QED  BY <1>1, <1>2 DEF Exp

\* What the service issues is a token or nothing (service.py:104).
LEMMA IssueType ==
    ASSUME TypeOK, NEW c \in Call, NEW e \in Effect
    PROVE  Issue(c, e) \in Token \cup {None}
  <1>1. now + Offset["service"] \in Int
    BY RemoteAssumption DEF TypeOK, Machine
  <1>2. Exp(Clock("service")) \in Int
    BY <1>1, ExpType DEF Clock
  <1> QED  BY <1>2, RemoteAssumption DEF Issue, Token, TypeOK

\* The typing of the state is kept by every step.
LEMMA TypeStep == TypeOK /\ [Next]_vars => TypeOK'
<1> SUFFICES ASSUME TypeOK, [Next]_vars PROVE TypeOK'
  OBVIOUS
<1> USE DEF TypeOK
<1>1. ASSUME NEW c \in Call, Send(c) PROVE TypeOK'
  BY <1>1 DEF Send, Stage
<1>2. ASSUME NEW c \in Call, Reject(c) PROVE TypeOK'
  BY <1>2 DEF Reject, Refusal, Reply
<1>3. ASSUME NEW c \in Call, Serve(c) PROVE TypeOK'
  <2>1. PICK e \in Effect :
            /\ verdicts' = verdicts \cup {[call |-> c, effect |-> e, at |-> now]}
            /\ replies' = [replies EXCEPT ![c] =
                  [status |-> "ok", effect |-> e, token |-> Issue(c, e)]]
    BY <1>3 DEF Serve
  <2>2. [status |-> "ok", effect |-> e, token |-> Issue(c, e)] \in Reply
    BY IssueType DEF Reply
  <2>3. [call |-> c, effect |-> e, at |-> now] \in Verdict
    BY DEF Verdict
  <2> QED  BY <1>3, <2>1, <2>2, <2>3 DEF Serve
<1>4. ASSUME NEW c \in Call, ServeFails(c) PROVE TypeOK'
  BY <1>4 DEF ServeFails, Refusal, Reply, Verdict
<1>5. ASSUME NEW c \in Call, Timeout(c) PROVE TypeOK'
  BY <1>5 DEF Timeout, Stage
<1>6. ASSUME NEW c \in Call, Receive(c) PROVE TypeOK'
  <2>1. replies[c] \in Reply
    BY <1>6 DEF Receive
  <2>2. EndOn(c, replies[c]) \in Stage
    BY DEF EndOn, Stage
  <2>3. replies[c].token \in Token \cup {None}
    BY <2>1 DEF Reply
  <2> QED  BY <1>6, <2>2, <2>3 DEF Receive
<1>7. ASSUME NEW c \in Call, RunTool(c) PROVE TypeOK'
  BY <1>7 DEF RunTool, Stage
<1>8. ASSUME NEW c \in Call, Present(c) PROVE TypeOK'
  BY <1>8, RemoteAssumption DEF Present, Use
<1>9. CASE Tick
  BY <1>9 DEF Tick
<1>10. CASE UNCHANGED vars
  BY <1>10 DEF vars
<1> QED
  BY <1>1, <1>2, <1>3, <1>4, <1>5, <1>6, <1>7, <1>8, <1>9, <1>10 DEF Next

\* The remote gate keeps its types, for any calls, keys and clocks.
THEOREM TypeCorrect == Spec => []TypeOK
<1>1. Init => TypeOK
  BY DEF Init, TypeOK, Stage
<1> QED  BY <1>1, TypeStep, PTL DEF Spec

-----------------------------------------------------------------------------
(* Fail closed.                                                            *)

\* Verdicts are only ever added.
LEMMA VerdictsGrow == [Next]_vars => verdicts \subseteq verdicts'
BY DEF Next, vars, Send, Reject, Serve, ServeFails, Timeout, Receive, RunTool,
       Present, Tick

\* A verdict that vouches for a reply, a token or an answer goes on doing so:
\* a step matters to the calls whose reply, token or stage it changes.
LEMMA HeldFrame ==
    ASSUME Held, verdicts \subseteq verdicts', NEW c \in Call
    PROVE  /\ replies'[c] = replies[c] => ReplyIsTrue(c)'
           /\ token'[c] = token[c] => TokenIsTrue(c)'
           /\ stage'[c] = stage[c] => AnswerIsTrue(c)'
BY DEF Held, ReplyIsTrue, TokenIsTrue, AnswerIsTrue, Minted

\* Every step keeps replies, tokens and answers true.
LEMMA HeldStep == TypeOK /\ Held /\ [Next]_vars => Held'
<1> SUFFICES ASSUME TypeOK, Held, [Next]_vars, NEW d \in Call
             PROVE  ReplyIsTrue(d)' /\ TokenIsTrue(d)' /\ AnswerIsTrue(d)'
  BY DEF Held
<1> DEFINE Goal == ReplyIsTrue(d)' /\ TokenIsTrue(d)' /\ AnswerIsTrue(d)'
<1>0. verdicts \subseteq verdicts'
  BY VerdictsGrow
<1>1. ASSUME NEW c \in Call, Send(c) PROVE Goal
  <2>1. replies'[d] = replies[d] /\ token'[d] = token[d]
    BY <1>1 DEF Send
  <2>2. stage'[d] = stage[d] \/ stage'[d] = "waiting"
    BY <1>1 DEF Send, TypeOK
  <2> QED  BY <1>0, <2>1, <2>2, HeldFrame DEF AnswerIsTrue, Ended
<1>2. ASSUME NEW c \in Call, Reject(c) PROVE Goal
  <2>1. stage'[d] = stage[d] /\ token'[d] = token[d]
    BY <1>2 DEF Reject
  <2>2. replies'[d] = replies[d] \/ replies'[d] = Refusal("rejected")
    BY <1>2 DEF Reject, TypeOK
  <2> QED  BY <1>0, <2>1, <2>2, HeldFrame DEF ReplyIsTrue, Refusal
<1>3. ASSUME NEW c \in Call, Serve(c) PROVE Goal
  <2>1. stage'[d] = stage[d] /\ token'[d] = token[d]
    BY <1>3 DEF Serve
  <2>2. PICK e \in Effect :
            /\ verdicts' = verdicts \cup {[call |-> c, effect |-> e, at |-> now]}
            /\ replies' = [replies EXCEPT ![c] =
                  [status |-> "ok", effect |-> e, token |-> Issue(c, e)]]
    BY <1>3 DEF Serve
  <2>3. Minted(Issue(c, e), [call |-> c, effect |-> e, at |-> now])
    BY DEF Minted, Issue, Clock
  <2>4. ReplyIsTrue(c)'
    <3> DEFINE v == [call |-> c, effect |-> e, at |-> now]
    <3>1. /\ v \in verdicts' /\ v.call = c /\ v.effect = e
          /\ replies'[c].effect = e /\ replies'[c].token = Issue(c, e)
      BY <2>2 DEF TypeOK
    <3>2. Minted(replies'[c].token, v)
      BY <2>3, <3>1
    <3> HIDE DEF v
    <3> QED  BY <3>1, <3>2 DEF ReplyIsTrue, Minted
  <2>5. c # d => replies'[d] = replies[d]
    BY <2>2 DEF TypeOK
  <2> QED  BY <1>0, <2>1, <2>4, <2>5, HeldFrame
<1>4. ASSUME NEW c \in Call, ServeFails(c) PROVE Goal
  <2>1. stage'[d] = stage[d] /\ token'[d] = token[d]
    BY <1>4 DEF ServeFails
  <2>2. replies'[d] = replies[d] \/ replies'[d] = Refusal("error")
    BY <1>4 DEF ServeFails, TypeOK
  <2> QED  BY <1>0, <2>1, <2>2, HeldFrame DEF ReplyIsTrue, Refusal
<1>5. ASSUME NEW c \in Call, Timeout(c) PROVE Goal
  <2>1. replies'[d] = replies[d] /\ token'[d] = token[d]
    BY <1>5 DEF Timeout
  <2>2. stage'[d] = stage[d] \/ stage'[d] = "unreachable"
    BY <1>5 DEF Timeout, TypeOK
  <2> QED  BY <1>0, <2>1, <2>2, HeldFrame DEF AnswerIsTrue, Ended
<1>6. ASSUME NEW c \in Call, Receive(c) PROVE Goal
  <2>1. CASE c # d
    <3>1. replies'[d] = replies[d] /\ token'[d] = token[d] /\ stage'[d] = stage[d]
      BY <1>6, <2>1 DEF Receive, TypeOK
    <3> QED  BY <1>0, <3>1, HeldFrame
  <2>2. CASE c = d
    <3>1. /\ replies[d] \in Reply
          /\ replies'[d] = None
          /\ stage'[d] = EndOn(d, replies[d])
          /\ token'[d] \in {None, replies[d].token}
          /\ verdicts' = verdicts
          /\ token'[d] # None => stage'[d] = "cleared"
      BY <1>6, <2>2 DEF Receive, TypeOK
    <3>2. CASE replies[d].status # "ok"
      <4>1. stage'[d] = "unreachable"
        BY <3>1, <3>2 DEF EndOn
      <4> QED  BY <3>1, <4>1 DEF ReplyIsTrue, TokenIsTrue, AnswerIsTrue, Ended
    <3>3. CASE replies[d].status = "ok"
      <4>1. PICK v \in verdicts :
                v.call = d /\ v.effect = replies[d].effect /\ Minted(replies[d].token, v)
        BY <1>6, <2>2, <3>3 DEF Held, ReplyIsTrue, Receive
      <4>2. v.effect \in Effect
        BY DEF TypeOK, Verdict
      <4>3. stage'[d] \in Ended => stage'[d] \in Told[v.effect]
        BY <3>1, <3>3, <4>1, <4>2 DEF EndOn, Ended, Told, Effect
      <4>4. token'[d] # None => Minted(token'[d], v)
        BY <3>1, <4>1
      <4>5. TokenIsTrue(d)' /\ AnswerIsTrue(d)'
        BY <3>1, <4>1, <4>3, <4>4 DEF TokenIsTrue, AnswerIsTrue, Minted
      <4> QED  BY <3>1, <4>5 DEF ReplyIsTrue
    <3> QED  BY <3>2, <3>3
  <2> QED  BY <2>1, <2>2
<1>7. ASSUME NEW c \in Call, RunTool(c) PROVE Goal
  <2>1. replies'[d] = replies[d] /\ token'[d] = token[d] /\ verdicts' = verdicts
    BY <1>7 DEF RunTool
  <2>2. stage'[d] = stage[d] \/ (stage[d] = "cleared" /\ stage'[d] = "executed")
    BY <1>7 DEF RunTool, TypeOK
  <2>3. ASSUME stage[d] = "cleared", stage'[d] = "executed" PROVE AnswerIsTrue(d)'
    <3>1. PICK v \in verdicts : v.call = d /\ "cleared" \in Told[v.effect]
      BY <2>3 DEF Held, AnswerIsTrue, Ended
    <3>2. "executed" \in Told[v.effect]
      BY <3>1 DEF Told, TypeOK, Verdict, Effect
    <3> QED  BY <2>1, <2>3, <3>1, <3>2 DEF AnswerIsTrue
  <2> QED  BY <1>0, <2>1, <2>2, <2>3, HeldFrame
<1>8. ASSUME NEW c \in Call, Present(c) PROVE Goal
  BY <1>0, <1>8, HeldFrame DEF Present
<1>9. CASE Tick
  BY <1>0, <1>9, HeldFrame DEF Tick
<1>10. CASE UNCHANGED vars
  BY <1>0, <1>10, HeldFrame DEF vars
<1> QED
  BY <1>1, <1>2, <1>3, <1>4, <1>5, <1>6, <1>7, <1>8, <1>9, <1>10 DEF Next

LEMMA HeldAlways == Spec => [](TypeOK /\ Held)
<1>1. Init => Held
  BY DEF Init, Held, ReplyIsTrue, TokenIsTrue, AnswerIsTrue, Ended
<1> QED  BY <1>1, TypeCorrect, HeldStep, PTL DEF Spec

\* Fail closed: a caller acts only on a verdict that the service has recorded
\* for its call, whatever is lost, late or fails.
THEOREM FailsClosed == Spec => []AnswerIsTheVerdict
<1>1. Held => AnswerIsTheVerdict
  BY DEF Held, AnswerIsTrue, AnswerIsTheVerdict
<1> QED  BY <1>1, HeldAlways, PTL

-----------------------------------------------------------------------------
(* The guards.                                                             *)

\* A guard opens for a token of a verdict that lets the tool run, within the
\* time to live of that verdict.
LEMMA WindowStep ==
    TypeOK /\ Held /\ GuardOpensInWindow /\ [Next]_vars => GuardOpensInWindow'
<1> SUFFICES ASSUME TypeOK, Held, GuardOpensInWindow, [Next]_vars
             PROVE  GuardOpensInWindow'
  OBVIOUS
<1>0. verdicts \subseteq verdicts'
  BY VerdictsGrow
<1>1. ASSUME NEW c \in Call, Present(c) PROVE GuardOpensInWindow'
  <2>1. PICK guard \in Guards :
            /\ Opens(guard, token[c])
            /\ uses' = uses \cup {[call |-> c, guard |-> guard, at |-> now]}
    BY <1>1 DEF Present
  <2>2. verdicts' = verdicts /\ token[c] # None
    BY <1>1, <2>1 DEF Present, Opens
  <2>3. PICK v \in verdicts : v.call = c /\ Minted(token[c], v)
    BY <2>2 DEF Held, TokenIsTrue
  <2>4. Executes(v.effect) /\ (guard # None => ActionOf[v.call] = guard)
    BY <2>1, <2>2, <2>3 DEF Minted, Opens
  <2>5. now - v.at <= Ttl * Second + Offset["service"] - Offset["guard"]
    <3> DEFINE issued == v.at + Offset["service"]
               ttl == Ttl * Second
    <3>1. /\ v.at \in Int /\ now \in Int /\ ttl \in Int
          /\ Offset["service"] \in Int /\ Offset["guard"] \in Int
      BY RemoteAssumption DEF TypeOK, Verdict, Machine
    <3>2. WholeSeconds(issued) \in Int /\ WholeSeconds(issued) <= issued
      BY <3>1, WholeSecondsFact
    <3>3. now + Offset["guard"] <= WholeSeconds(issued) + ttl
      BY <2>1, <2>2, <2>3 DEF Opens, Verifies, Clock, Minted, Exp
    <3> HIDE DEF ttl
    <3>4. now - v.at <= ttl + Offset["service"] - Offset["guard"]
      BY <3>1, <3>2, <3>3
    <3> QED  BY <3>4 DEF ttl
  <2> QED  BY <2>1, <2>2, <2>4, <2>5 DEF GuardOpensInWindow
<1>2. ASSUME uses' = uses PROVE GuardOpensInWindow'
  BY <1>0, <1>2 DEF GuardOpensInWindow
<1> QED
  BY <1>1, <1>2
     DEF Next, vars, Send, Reject, Serve, ServeFails, Timeout, Receive, RunTool, Tick

\* The clearance window, for any time to live, any resolution of the clocks and
\* any disagreement between them.
THEOREM GuardsKeepTheWindow == Spec => []GuardOpensInWindow
<1>1. Init => GuardOpensInWindow
  BY DEF Init, GuardOpensInWindow
<1> QED  BY <1>1, WindowStep, HeldAlways, PTL DEF Spec

\* A token opens the guard of its action until less than a second before its
\* time to live is over, and not after it.
THEOREM TokensLiveTheirTtl == Spec => []TokenLivesItsTtl
<1>1. TypeOK /\ Held => TokenLivesItsTtl
  <2> SUFFICES ASSUME TypeOK, Held, GuardKey = ServiceKey,
                      Offset["service"] = Offset["guard"],
                      NEW c \in Call, token[c] # None
               PROVE  \E v \in verdicts :
                        /\ v.call = c
                        /\ now - v.at <= (Ttl - 1) * Second =>
                              Opens(ActionOf[c], token[c])
                        /\ now - v.at > Ttl * Second =>
                              ~Opens(ActionOf[c], token[c])
    BY DEF TokenLivesItsTtl
  <2>1. PICK v \in verdicts : v.call = c /\ Minted(token[c], v)
    BY DEF Held, TokenIsTrue
  <2> DEFINE issued == v.at + Offset["service"]
             ttl == Ttl * Second
             less == (Ttl - 1) * Second
  <2>2. /\ v.at \in Int /\ now \in Int /\ ttl \in Int /\ Second \in Int
        /\ Offset["service"] \in Int /\ Offset["guard"] \in Int
    BY RemoteAssumption DEF TypeOK, Verdict, Machine
  <2>3. less = ttl - Second
    BY RemoteAssumption
  <2>4. /\ WholeSeconds(issued) \in Int
        /\ WholeSeconds(issued) <= issued
        /\ issued - WholeSeconds(issued) < Second
    BY <2>2, WholeSecondsFact
  <2>5. Opens(ActionOf[c], token[c]) <=>
            now + Offset["guard"] <= WholeSeconds(issued) + ttl
    BY <2>1 DEF Opens, Verifies, Clock, Minted, Exp
  <2> HIDE DEF ttl, less
  <2>6. now - v.at <= less => Opens(ActionOf[c], token[c])
    BY <2>2, <2>3, <2>4, <2>5
  <2>7. now - v.at > ttl => ~Opens(ActionOf[c], token[c])
    BY <2>2, <2>4, <2>5
  <2> QED  BY <2>1, <2>6, <2>7 DEF ttl, less
<1> QED  BY <1>1, HeldAlways, PTL

-----------------------------------------------------------------------------
(* The promise, kept over the wire.                                        *)

\* A request is served once: until it has left the wire its call has no verdict.
ServedOnce ==
    \A c \in Call :
        /\ stage[c] = "idle" => c \notin requests
        /\ stage[c] = "idle" \/ c \in requests => \A v \in verdicts : v.call # c

LEMMA ServedOnceStep == TypeOK /\ ServedOnce /\ [Next]_vars => ServedOnce'
<1> SUFFICES ASSUME TypeOK, ServedOnce, [Next]_vars, NEW d \in Call
             PROVE  /\ stage'[d] = "idle" => d \notin requests'
                    /\ stage'[d] = "idle" \/ d \in requests' =>
                          \A v \in verdicts' : v.call # d
  BY DEF ServedOnce
<1> DEFINE Goal == /\ stage'[d] = "idle" => d \notin requests'
                   /\ stage'[d] = "idle" \/ d \in requests' =>
                         \A v \in verdicts' : v.call # d
<1>1. ASSUME NEW c \in Call, Send(c) PROVE Goal
  BY <1>1 DEF Send, TypeOK, ServedOnce
<1>2. ASSUME NEW c \in Call, Reject(c) PROVE Goal
  BY <1>2 DEF Reject, TypeOK, ServedOnce
<1>3. ASSUME NEW c \in Call, Serve(c) \/ ServeFails(c) PROVE Goal
  <2>1. /\ stage' = stage /\ requests' = requests \ {c} /\ c \in requests
        /\ \A v \in verdicts' : v \in verdicts \/ v.call = c
    BY <1>3 DEF Serve, ServeFails
  <2>2. stage[c] # "idle"
    BY <2>1 DEF ServedOnce
  <2> QED  BY <2>1, <2>2 DEF ServedOnce
<1>4. ASSUME NEW c \in Call, Timeout(c) PROVE Goal
  BY <1>4 DEF Timeout, TypeOK, ServedOnce
<1>5. ASSUME NEW c \in Call, Receive(c) PROVE Goal
  <2>1. EndOn(c, replies[c]) # "idle"
    BY DEF EndOn
  <2>2. /\ requests' = requests /\ verdicts' = verdicts
        /\ stage'[d] = stage[d] \/ stage'[d] # "idle"
    BY <1>5, <2>1 DEF Receive, TypeOK
  <2> QED  BY <2>2 DEF ServedOnce
<1>6. ASSUME NEW c \in Call, RunTool(c) PROVE Goal
  BY <1>6 DEF RunTool, TypeOK, ServedOnce
<1>7. ASSUME NEW c \in Call, Present(c) PROVE Goal
  BY <1>7 DEF Present, ServedOnce
<1>8. CASE Tick
  BY <1>8 DEF Tick, ServedOnce
<1>9. CASE UNCHANGED vars
  BY <1>9 DEF vars, ServedOnce
<1> QED
  BY <1>1, <1>2, <1>3, <1>4, <1>5, <1>6, <1>7, <1>8, <1>9 DEF Next

\* A step that audits nothing and on which nobody acts is invisible.
LEMMA Invisible ==
    ASSUME verdicts' = verdicts,
           \A d \in Call : OutcomeAt(stage'[d]) = OutcomeAt(stage[d])
    PROVE  UNCHANGED Promise!vars
<1>1. Ledger' = Ledger /\ Outcome' = Outcome
  BY DEF Ledger, Outcome
<1> QED  BY <1>1 DEF Promise!vars

\* The service audits its verdict for a call that had none.
LEMMA PromiseServe ==
    ASSUME TypeOK, ServedOnce, NEW c \in Call, c \in requests, NEW e \in Effect,
           verdicts' = verdicts \cup {[call |-> c, effect |-> e, at |-> now]},
           stage' = stage, OutcomeAt(stage[c]) = "pending"
    PROVE  Promise!Decide(c)
<1>1. Ledger' = Ledger \cup {Promise!Verdict(c, e)}
  <2> DEFINE EntryOf(v) == [check |-> v.call, effect |-> v.effect, approver |-> None]
             new == [call |-> c, effect |-> e, at |-> now]
  <2>1. EntryOf(new) = Promise!Verdict(c, e)
    BY DEF Promise!Verdict
  <2>2. Ledger = {EntryOf(v) : v \in verdicts} /\ Ledger' = {EntryOf(v) : v \in verdicts'}
    BY DEF Ledger
  <2> HIDE DEF EntryOf
  <2>3. Ledger' = Ledger \cup {EntryOf(new)}
    BY <2>2
  <2> QED  BY <2>1, <2>3
<1>2. Outcome' = Outcome /\ Outcome[c] = "pending"
  BY DEF Outcome
<1>3. \A f \in Effect : Promise!Verdict(c, f) \notin Ledger
  BY DEF ServedOnce, Ledger, Promise!Verdict
<1> QED
  BY <1>1, <1>2, <1>3 DEF Promise!Decide, Promise!Effect, Effect

\* A caller acts on its verdict.
LEMMA PromiseFinish ==
    ASSUME TypeOK, NEW c \in Call, NEW s \in Ended, OutcomeAt(stage[c]) = "pending",
           stage' = [stage EXCEPT ![c] = s], verdicts' = verdicts,
           AnswerIsTrue(c)', TypeOK'
    PROVE  Promise!Next \/ UNCHANGED Promise!vars
<1>1. Ledger' = Ledger
  BY DEF Ledger
<1>2. PICK e \in Effect : s \in Told[e] /\ Promise!Verdict(c, e) \in Ledger
  <2>1. PICK v \in verdicts : v.call = c /\ s \in Told[v.effect]
    BY DEF AnswerIsTrue, TypeOK
  <2>2. v.effect \in Effect /\ Promise!Verdict(c, v.effect) \in Ledger
    BY <2>1 DEF TypeOK, Verdict, Ledger, Promise!Verdict
  <2> QED  BY <2>1, <2>2
<1>3. Outcome' = [Outcome EXCEPT ![c] = OutcomeAt(s)] /\ Outcome[c] = "pending"
  BY DEF Outcome, TypeOK
<1>4. CASE s = "cleared"
  <2>1. \A d \in Call : OutcomeAt(stage'[d]) = OutcomeAt(stage[d])
    BY <1>4 DEF TypeOK, OutcomeAt
  <2> QED  BY <2>1, Invisible
<1>5. CASE s = "executed"
  <2>1. e \in {"allow", "restrict"}
    BY <1>2, <1>5 DEF Told, Effect
  <2>2. Promise!Execute(c)
    BY <1>1, <1>2, <1>3, <1>5, <2>1
    DEF OutcomeAt, Promise!Execute, Promise!Finish, Promise!Executes, Promise!Effect,
        Effect
  <2> QED  BY <2>2 DEF Promise!Next
<1>6. CASE s = "pending"
  <2>1. e = "review"
    BY <1>2, <1>6 DEF Told, Effect
  <2>2. Promise!Park(c)
    BY <1>1, <1>2, <1>3, <1>6, <2>1 DEF OutcomeAt, Promise!Park, Promise!Finish
  <2> QED  BY <2>2 DEF Promise!Next
<1>7. CASE s = "denied"
  <2>1. e = "block"
    BY <1>2, <1>7 DEF Told, Effect
  <2>2. Promise!Refuse(c)
    BY <1>1, <1>2, <1>3, <1>7, <2>1 DEF OutcomeAt, Promise!Refuse, Promise!Finish
  <2> QED  BY <2>2 DEF Promise!Next
<1> QED  BY <1>4, <1>5, <1>6, <1>7 DEF Ended

\* Every step of the remote gate is one that Enforcement allows, or none.
LEMMA PromiseStep ==
    TypeOK /\ Held /\ ServedOnce /\ [Next]_vars /\ TypeOK' /\ Held' =>
        Promise!Next \/ UNCHANGED Promise!vars
<1> SUFFICES ASSUME TypeOK, Held, ServedOnce, [Next]_vars, TypeOK', Held'
             PROVE  Promise!Next \/ UNCHANGED Promise!vars
  OBVIOUS
<1> DEFINE Goal == Promise!Next \/ UNCHANGED Promise!vars
<1>1. ASSUME NEW c \in Call, Send(c) PROVE Goal
  <2>1. \A d \in Call : OutcomeAt(stage'[d]) = OutcomeAt(stage[d])
    BY <1>1 DEF Send, TypeOK, OutcomeAt
  <2> QED  BY <1>1, <2>1, Invisible DEF Send
<1>2. ASSUME NEW c \in Call, Reject(c) PROVE Goal
  BY <1>2, Invisible DEF Reject
<1>3. ASSUME NEW c \in Call, c \in requests PROVE OutcomeAt(stage[c]) = "pending"
  <2>1. stage[c] \notin Ended
    BY <1>3 DEF ServedOnce, Held, AnswerIsTrue
  <2> QED  BY <2>1 DEF Ended, OutcomeAt
<1>4. ASSUME NEW c \in Call, Serve(c) PROVE Goal
  <2>1. Promise!Decide(c)
    BY <1>3, <1>4, PromiseServe DEF Serve
  <2> QED  BY <2>1 DEF Promise!Next
<1>5. ASSUME NEW c \in Call, ServeFails(c) PROVE Goal
  <2>1. CASE verdicts' = verdicts
    BY <1>5, <2>1, Invisible DEF ServeFails
  <2>2. CASE verdicts' # verdicts
    <3>1. Promise!Decide(c)
      BY <1>3, <1>5, <2>2, PromiseServe DEF ServeFails
    <3> QED  BY <3>1 DEF Promise!Next
  <2> QED  BY <2>1, <2>2
<1>6. ASSUME NEW c \in Call, Timeout(c) PROVE Goal
  <2>1. \A d \in Call : OutcomeAt(stage'[d]) = OutcomeAt(stage[d])
    BY <1>6 DEF Timeout, TypeOK, OutcomeAt
  <2> QED  BY <1>6, <2>1, Invisible DEF Timeout
<1>7. ASSUME NEW c \in Call, Receive(c) PROVE Goal
  <2> DEFINE s == EndOn(c, replies[c])
  <2>1. /\ stage' = [stage EXCEPT ![c] = s] /\ verdicts' = verdicts
        /\ stage[c] = "waiting" /\ OutcomeAt(stage[c]) = "pending"
    BY <1>7 DEF Receive, OutcomeAt
  <2>2. s \in Ended \cup {"unreachable"}
    BY DEF EndOn, Ended
  <2> HIDE DEF s
  <2>3. CASE s = "unreachable"
    <3>1. \A d \in Call : OutcomeAt(stage'[d]) = OutcomeAt(stage[d])
      BY <2>1, <2>3 DEF TypeOK, OutcomeAt
    <3> QED  BY <2>1, <3>1, Invisible
  <2>4. CASE s \in Ended
    <3>1. AnswerIsTrue(c)'
      BY DEF Held
    <3> QED  BY <2>1, <2>4, <3>1, PromiseFinish
  <2> QED  BY <2>2, <2>3, <2>4
<1>8. ASSUME NEW c \in Call, RunTool(c) PROVE Goal
  <2>1. /\ stage' = [stage EXCEPT ![c] = "executed"] /\ verdicts' = verdicts
        /\ OutcomeAt(stage[c]) = "pending" /\ "executed" \in Ended
    BY <1>8 DEF RunTool, OutcomeAt, Ended
  <2>2. AnswerIsTrue(c)'
    BY DEF Held
  <2> QED  BY <2>1, <2>2, PromiseFinish
<1>9. ASSUME NEW c \in Call, Present(c) PROVE Goal
  BY <1>9, Invisible DEF Present
<1>10. CASE Tick
  BY <1>10, Invisible DEF Tick
<1>11. CASE UNCHANGED vars
  BY <1>11, Invisible DEF vars
<1> QED
  BY <1>1, <1>2, <1>4, <1>5, <1>6, <1>7, <1>8, <1>9, <1>10, <1>11 DEF Next

\* The remote gate keeps the promise of the gate behind it: whatever the wire
\* loses or delays, and however many calls share a request id, one after the
\* other or at once, a tool runs, parks or is refused on the one verdict the
\* service has audited for its call (client.py:165).
THEOREM RemoteImplementsEnforcement == Spec => KeepsPromise
<1>1. Init => Promise!Init
  <2> SUFFICES ASSUME Init PROVE Promise!Init
    OBVIOUS
  <2>1. Ledger = {}
    BY DEF Init, Ledger
  <2>2. Outcome = [c \in Call |-> "pending"]
    BY DEF Init, Outcome, OutcomeAt
  <2> QED  BY <2>1, <2>2 DEF Promise!Init
<1>2. Init => ServedOnce
  BY DEF Init, ServedOnce
<1> QED
  BY <1>1, <1>2, HeldAlways, ServedOnceStep, PromiseStep, PTL
     DEF Spec, KeepsPromise, Promise!Spec

=============================================================================
