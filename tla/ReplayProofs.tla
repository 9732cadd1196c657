---------------------------- MODULE ReplayProofs ----------------------------
(***************************************************************************)
(* Proofs about replays, for any tools, patterns, policies and extractors, *)
(* any mappings and logs of any length.                                    *)
(***************************************************************************)
EXTENDS Replay, SessionProofs

LOCAL INSTANCE SequencesExt

-----------------------------------------------------------------------------
(* Concatenation, by induction over how many sequences there are.          *)

\* The first n members of f, one after the other.
FlatTo(f, n) == FlattenSeq([i \in 1 .. n |-> f[i]])

\* g is the function that FlattenSeq computes on the way.
Flattens(g, f, n) ==
    g = [i \in 1 .. n |-> IF i = 1 THEN f[i] ELSE g[i - 1] \o f[i]]

LEMMA FlatIsChosen ==
    ASSUME NEW f, NEW n \in Nat \ {0}
    PROVE  FlatTo(f, n) = (CHOOSE g : Flattens(g, f, n))[n]
<1> DEFINE ss == [i \in 1 .. n |-> f[i]]
<1>1. Len(ss) = n
    OBVIOUS
<1>2. FlattenSeq(ss) = (CHOOSE g : g = [i \in 1 .. Len(ss) |->
                            IF i = 1 THEN ss[i] ELSE g[i - 1] \o ss[i]])[Len(ss)]
    <2> HIDE DEF ss
    <2> QED
        BY <1>1 DEF FlattenSeq
<1>3. ASSUME NEW g
      PROVE  g = [i \in 1 .. n |-> IF i = 1 THEN ss[i] ELSE g[i - 1] \o ss[i]]
                 <=> Flattens(g, f, n)
    BY DEF Flattens
<1>4. (CHOOSE g : g = [i \in 1 .. n |-> IF i = 1 THEN ss[i] ELSE g[i - 1] \o ss[i]])
          = CHOOSE g : Flattens(g, f, n)
    <2> HIDE DEF ss
    <2> QED
        BY <1>3, Zenon
<1> HIDE DEF ss
<1>5. FlattenSeq(ss) = (CHOOSE g : Flattens(g, f, n))[n]
    BY <1>1, <1>2, <1>4
<1> QED
    BY <1>5 DEF FlatTo, ss

\* There is such a function for every number of sequences.
LEMMA FlattensExists ==
    ASSUME NEW f, NEW n \in Nat
    PROVE  \E g : Flattens(g, f, n)
<1> DEFINE Bad == {k \in Nat : ~\E g : Flattens(g, f, k)}
<1> SUFFICES ASSUME Bad # {} PROVE FALSE
    OBVIOUS
<1>1. PICK k \in Bad : \A j \in Bad : k <= j
    BY Least
<1>2. k # 0
    <2>1. Flattens(<<>>, f, 0)
        BY DEF Flattens
    <2> QED
        BY <2>1
<1>3. k - 1 \in Nat /\ k - 1 \notin Bad
    BY <1>1, <1>2
<1>4. PICK g : Flattens(g, f, k - 1)
    BY <1>3
<1> DEFINE h == [i \in 1 .. k |-> IF i < k THEN g[i]
                                  ELSE IF k = 1 THEN f[1] ELSE g[k - 1] \o f[k]]
<1>5. Flattens(h, f, k)
    <2>1. ASSUME NEW i \in 1 .. k
          PROVE  h[i] = IF i = 1 THEN f[i] ELSE h[i - 1] \o f[i]
        <3>1. CASE i < k
            <4>1. i \in 1 .. k - 1
                BY <3>1, <1>2
            <4>2. g[i] = IF i = 1 THEN f[i] ELSE g[i - 1] \o f[i]
                BY <1>4, <4>1 DEF Flattens
            <4>3. i # 1 => h[i - 1] = g[i - 1]
                BY <4>1
            <4> QED
                BY <3>1, <4>1, <4>2, <4>3
        <3>2. CASE i = k
            <4>1. k # 1 => h[k - 1] = g[k - 1]
                BY <1>2
            <4> QED
                BY <3>2, <4>1
        <3> QED
            BY <3>1, <3>2
    <2>2. h = [i \in 1 .. k |-> h[i]]
        OBVIOUS
    <2> HIDE DEF h
    <2> QED
        BY <2>1, <2>2 DEF Flattens
<1> QED
    BY <1>1, <1>5

\* And only one: two of them agree as far as both go.
LEMMA FlattensUnique ==
    ASSUME NEW f, NEW m \in Nat, NEW n \in Nat, m <= n, NEW g, NEW h,
           Flattens(g, f, m), Flattens(h, f, n)
    PROVE  \A i \in 1 .. m : g[i] = h[i]
<1> DEFINE Bad == {i \in 1 .. m : g[i] # h[i]}
<1> SUFFICES ASSUME Bad # {} PROVE FALSE
    OBVIOUS
<1>1. PICK i \in Bad : \A j \in Bad : i <= j
    <2>1. Bad \in SUBSET Nat
        OBVIOUS
    <2> HIDE DEF Bad
    <2> QED
        BY <2>1, Least
<1>2. i \in 1 .. m /\ i \in 1 .. n /\ g[i] # h[i]
    BY <1>1
<1>3. /\ g[i] = IF i = 1 THEN f[i] ELSE g[i - 1] \o f[i]
      /\ h[i] = IF i = 1 THEN f[i] ELSE h[i - 1] \o f[i]
    BY <1>2 DEF Flattens
<1>4. i # 1 => g[i - 1] = h[i - 1]
    <2>1. i # 1 => i - 1 \in 1 .. m /\ ~(i <= i - 1)
        BY <1>2
    <2> QED
        BY <1>1, <2>1
<1> QED
    BY <1>2, <1>3, <1>4

\* One more sequence comes after all the others.
LEMMA FlatStep ==
    ASSUME NEW S, NEW f, NEW n \in Nat, \A i \in 1 .. n + 1 : f[i] \in Seq(S),
           FlatTo(f, n) \in Seq(S)
    PROVE  FlatTo(f, n + 1) = FlatTo(f, n) \o f[n + 1]
<1> DEFINE g == CHOOSE g : Flattens(g, f, n + 1)
           h == CHOOSE h : Flattens(h, f, n)
<1>1. Flattens(g, f, n + 1)
    <2>1. n + 1 \in Nat
        OBVIOUS
    <2>2. \E x : Flattens(x, f, n + 1)
        BY <2>1, FlattensExists
    <2> QED
        BY <2>2, Zenon
<1>2. Flattens(h, f, n)
    <2>1. \E x : Flattens(x, f, n)
        BY FlattensExists
    <2> QED
        BY <2>1, Zenon
<1>3. FlatTo(f, n + 1) = g[n + 1]
    BY FlatIsChosen
<1>4. CASE n = 0
    <2>1. g[1] = f[1]
        <3> HIDE DEF g
        <3> QED
            BY <1>1, <1>4 DEF Flattens
    <2>2. FlatTo(f, 0) = <<>>
        BY DEF FlatTo, FlattenSeq
    <2>3. f[1] \in Seq(S)
        BY <1>4
    <2>4. <<>> \o f[1] = f[1]
        BY <2>3
    <2> QED
        BY <1>3, <1>4, <2>1, <2>2, <2>4
<1>5. CASE n # 0
    <2>1. FlatTo(f, n) = h[n]
        BY <1>5, FlatIsChosen
    <2> HIDE DEF g, h
    <2>2. g[n + 1] = g[n] \o f[n + 1]
        <3>1. n + 1 \in 1 .. n + 1 /\ n + 1 # 1 /\ (n + 1) - 1 = n
            BY <1>5
        <3>2. \A i \in 1 .. n + 1 : g[i] = IF i = 1 THEN f[i] ELSE g[i - 1] \o f[i]
            BY <1>1 DEF Flattens
        <3>3. g[n + 1] = g[(n + 1) - 1] \o f[n + 1]
            BY <3>1, <3>2, Zenon
        <3> QED
            BY <3>1, <3>3
    <2>3. g[n] = h[n]
        BY <1>1, <1>2, <1>5, FlattensUnique
    <2> QED
        BY <1>3, <2>1, <2>2, <2>3
<1> QED
    BY <1>4, <1>5

LEMMA FlatNone == ASSUME NEW f PROVE FlatTo(f, 0) = <<>>
BY DEF FlatTo, FlattenSeq

LEMMA FlatType ==
    ASSUME NEW S, NEW f, NEW n \in Nat, \A i \in 1 .. n : f[i] \in Seq(S)
    PROVE  FlatTo(f, n) \in Seq(S)
<1> DEFINE Bad == {k \in 0 .. n : FlatTo(f, k) \notin Seq(S)}
<1> SUFFICES ASSUME Bad # {} PROVE FALSE
    OBVIOUS
<1>1. PICK k \in Bad : \A j \in Bad : k <= j
    <2>1. Bad \in SUBSET Nat
        OBVIOUS
    <2> HIDE DEF Bad
    <2> QED
        BY <2>1, Least
<1>2. k \in 0 .. n /\ k # 0 /\ FlatTo(f, k) \notin Seq(S)
    <2>1. <<>> \in Seq(S)
        OBVIOUS
    <2> QED
        BY <1>1, <2>1, FlatNone
<1>3. k - 1 \in Nat /\ k - 1 \in 0 .. n /\ FlatTo(f, k - 1) \in Seq(S)
    BY <1>1, <1>2
<1>4. (k - 1) + 1 = k /\ \A i \in 1 .. k : f[i] \in Seq(S)
    BY <1>2
<1>5. FlatTo(f, k) = FlatTo(f, k - 1) \o f[k]
    BY <1>3, <1>4, FlatStep
<1> QED
    BY <1>2, <1>3, <1>4, <1>5

LEMMA FlatLast ==
    ASSUME NEW S, NEW f, NEW n \in Nat \ {0}, \A i \in 1 .. n : f[i] \in Seq(S)
    PROVE  FlatTo(f, n) = FlatTo(f, n - 1) \o f[n]
<1>1. PICK k \in Nat : n = k + 1
    <2>1. n - 1 \in Nat /\ n = (n - 1) + 1
        OBVIOUS
    <2> QED
        BY <2>1
<1>2. n - 1 = k /\ \A i \in 1 .. k : f[i] \in Seq(S)
    BY <1>1
<1>3. FlatTo(f, k) \in Seq(S)
    BY <1>2, FlatType
<1>4. FlatTo(f, k + 1) = FlatTo(f, k) \o f[k + 1]
    BY <1>1, <1>3, FlatStep
<1> QED
    BY <1>1, <1>2, <1>4

\* The members of G that s names, and nothing between them.
Thins(H, G, s, n) ==
    \A q \in 1 .. n : H[q] = IF \E i \in 1 .. Len(s) : s[i] = q THEN G[q] ELSE <<>>

\* Empty sequences between the others, the members of G that an increasing s
\* does not name, make no difference.
LEMMA FlatSkips ==
    ASSUME NEW S, NEW n \in Nat, NEW G, \A q \in 1 .. n : G[q] \in Seq(S),
           NEW s \in Seq(1 .. n), NEW H,
           \A i, j \in 1 .. Len(s) : i < j => s[i] < s[j],
           Thins(H, G, s, n)
    PROVE  FlatTo([i \in 1 .. Len(s) |-> G[s[i]]], Len(s)) = FlatTo(H, n)
<1> DEFINE f == [i \in 1 .. Len(s) |-> G[s[i]]]
           Below(k, m) == \A i \in 1 .. Len(s) : i <= k <=> s[i] <= m
           Bad == {m \in 0 .. n : \E k \in 0 .. Len(s) :
                      Below(k, m) /\ FlatTo(f, k) # FlatTo(H, m)}
<1>1. Len(s) \in Nat /\ \A i \in 1 .. Len(s) : s[i] \in 1 .. n
    OBVIOUS
<1>2. \A i \in 1 .. Len(s) : f[i] \in Seq(S)
    BY <1>1
<1>3. \A q \in 1 .. n : H[q] \in Seq(S)
    <2>1. <<>> \in Seq(S)
        OBVIOUS
    <2> QED
        BY <2>1 DEF Thins
<1> HIDE DEF f
<1>4. ASSUME Bad # {} PROVE FALSE
    <2>1. PICK m \in Bad : \A j \in Bad : m <= j
        <3>1. Bad \in SUBSET Nat
            OBVIOUS
        <3> HIDE DEF Bad
        <3> QED
            BY <1>4, <3>1, Least
    <2>2. m \in 0 .. n
        BY <2>1
    <2>3. PICK k \in 0 .. Len(s) : Below(k, m) /\ FlatTo(f, k) # FlatTo(H, m)
        BY <2>1
    <2>4. m # 0
        <3>1. SUFFICES ASSUME m = 0 PROVE FALSE
            OBVIOUS
        <3>2. k = 0
            BY <1>1, <2>3, <3>1
        <3> QED
            BY <2>3, <3>1, <3>2, FlatNone
    <2>5. m - 1 \in 0 .. n /\ m - 1 \notin Bad /\ m \in 1 .. n
        BY <2>1, <2>2, <2>4
    <2>6. FlatTo(H, m) = FlatTo(H, m - 1) \o H[m]
        <3>1. m \in Nat \ {0} /\ \A i \in 1 .. m : H[i] \in Seq(S)
            BY <1>3, <2>5
        <3> QED
            BY <3>1, FlatLast
    <2>7. CASE k # 0 /\ s[k] = m
        <3>1. k \in 1 .. Len(s) /\ k - 1 \in 0 .. Len(s)
            BY <2>3, <2>7
        <3>2. Below(k - 1, m - 1)
            <4> SUFFICES ASSUME NEW i \in 1 .. Len(s)
                         PROVE  i <= k - 1 <=> s[i] <= m - 1
                OBVIOUS
            <4>1. i < k => s[i] < s[k]
                BY <3>1
            <4>2. s[i] <= m => i <= k
                BY <2>3
            <4>3. s[i] \in Nat /\ m \in Nat /\ k \in Nat /\ i \in Nat
                BY <1>1, <2>5, <3>1
            <4> QED
                BY <2>7, <3>1, <4>1, <4>2, <4>3
        <3>3. FlatTo(f, k - 1) = FlatTo(H, m - 1)
            BY <2>5, <3>1, <3>2
        <3>4. FlatTo(f, k) = FlatTo(f, k - 1) \o f[k]
            <4>1. k \in Nat \ {0} /\ \A i \in 1 .. k : f[i] \in Seq(S)
                BY <1>1, <1>2, <3>1
            <4> QED
                BY <4>1, FlatLast
        <3>5. f[k] = H[m]
            BY <2>5, <2>7, <3>1 DEF f, Thins
        <3> QED
            BY <2>3, <2>6, <3>3, <3>4, <3>5
    <2>8. CASE k = 0 \/ s[k] # m
        <3>1. \A i \in 1 .. Len(s) : s[i] # m
            <4> SUFFICES ASSUME NEW i \in 1 .. Len(s), s[i] = m PROVE FALSE
                OBVIOUS
            <4>1. i <= k
                BY <2>3, <2>5
            <4>2. k \in 1 .. Len(s) /\ i < k
                BY <1>1, <2>3, <2>8, <4>1
            <4>3. s[i] < s[k] /\ s[k] <= m
                BY <2>3, <4>2
            <4> QED
                BY <1>1, <2>5, <4>2, <4>3
        <3>2. H[m] = <<>>
            BY <2>5, <3>1 DEF Thins
        <3>3. Below(k, m - 1)
            <4> SUFFICES ASSUME NEW i \in 1 .. Len(s)
                         PROVE  i <= k <=> s[i] <= m - 1
                OBVIOUS
            <4>1. s[i] \in Nat /\ m \in Nat /\ s[i] # m
                BY <1>1, <2>5, <3>1
            <4> QED
                BY <2>3, <4>1
        <3>4. FlatTo(f, k) = FlatTo(H, m - 1)
            BY <2>3, <2>5, <3>3
        <3>5. FlatTo(H, m - 1) \in Seq(S)
            <4>1. m - 1 \in Nat /\ \A i \in 1 .. m - 1 : H[i] \in Seq(S)
                BY <1>3, <2>5
            <4> QED
                BY <4>1, FlatType
        <3>6. FlatTo(H, m - 1) \o <<>> = FlatTo(H, m - 1)
            BY <3>5
        <3> QED
            BY <2>3, <2>6, <3>2, <3>4, <3>6
    <2> QED
        BY <2>7, <2>8
<1>5. Below(Len(s), n)
    BY <1>1
<1>6. Len(s) \in 0 .. Len(s) /\ n \in 0 .. n
    BY <1>1
<1>7. FlatTo(f, Len(s)) = FlatTo(H, n)
    BY <1>4, <1>5, <1>6
<1> QED
    BY <1>7 DEF f

-----------------------------------------------------------------------------
(* What a session leaves of its checks: verdicts that can be asked again.  *)

\* Runs as they were recorded, in the order of their starts but for those that
\* ran beside each other.
InOrder(s) ==
    /\ \A i \in 1 .. Len(s) : s[i] \in DOMAIN runs /\ runs[s[i]].stage = "recorded"
    /\ \A i, j \in 1 .. Len(s) :
          i < j => s[i] < s[j] \/ s[j] \in runs[s[i]].beside

\* A verdict is the engine's on what the check saw, and only runs that have
\* ended have results.
ToldOK(r) ==
    /\ runs[r].effect # None =>
          /\ Sensitive(r) /\ runs[r].stage # "asking"
          /\ runs[r].effect = Verdict(r, runs[r].seen)
    /\ runs[r].result # None => runs[r].stage \in {"ended", "recorded"}

LogInv ==
    /\ InOrder(evidence)
    /\ \A r \in DOMAIN runs : InOrder(runs[r].seen) /\ ToldOK(r)

\* What a step of a run may change of the fields that the log and the verdict
\* are made of.
Tells(r) ==
    /\ runs'[r].start = runs[r].start
    /\ \/ runs'[r].effect = runs[r].effect
       \/ /\ runs'[r].stage = "answered" /\ runs'[r].seen = evidence
          /\ runs'[r].effect = Verdict(r, evidence)
    /\ runs'[r].result = runs[r].result \/ runs'[r].stage = "ended"

LEMMA MoveTells ==
    ASSUME TypeOK, NEW r \in DOMAIN runs, Enforce(r) \/ Run(r)
    PROVE  Tells(r)
<1>1. runs[r] \in ToolRun
    BY DEF TypeOK
<1>2. ASSUME NEW from, NEW fields, Move(r, from, fields) PROVE runs'[r] = fields
    BY <1>2 DEF Move, TypeOK
<1>3. ASSUME AskGate(r) PROVE Tells(r)
    <2>1. runs'[r] = [runs[r] EXCEPT !.stage = "answered", !.seen = evidence,
                                     !.effect = Verdict(r, evidence)]
        BY <1>2, <1>3 DEF AskGate
    <2> QED
        BY <1>1, <2>1 DEF Tells, ToolRun
<1>4. ASSUME NEW from, NEW stage,
             \/ Move(r, from, [runs[r] EXCEPT !.stage = stage])
             \/ Move(r, from, [runs[r] EXCEPT !.stage = stage, !.seen = evidence])
      PROVE  Tells(r)
    <2>1. \/ runs'[r] = [runs[r] EXCEPT !.stage = stage]
          \/ runs'[r] = [runs[r] EXCEPT !.stage = stage, !.seen = evidence]
        BY <1>2, <1>4
    <2> QED
        BY <1>1, <2>1 DEF Tells, ToolRun
<1>5. ASSUME Finish(r) PROVE Tells(r)
    <2>1. PICK result \in Results(runs[r].tool) :
              Move(r, "running",
                   [runs[r] EXCEPT !.stage = "ended", !.result = result, !.at = now])
        BY <1>5 DEF Finish
    <2>2. runs'[r] = [runs[r] EXCEPT !.stage = "ended", !.result = result, !.at = now]
        BY <1>2, <2>1
    <2> QED
        BY <1>1, <2>2 DEF Tells, ToolRun
<1> QED
    BY <1>3, <1>4, <1>5
    DEF Enforce, Run, EngineRaises, PortRaises, Act, Record, ToolRaises

\* What has been recorded stays, and so does the order of it.
LEMMA OrderStays ==
    ASSUME DOMAIN runs \subseteq DOMAIN runs',
           \A q \in DOMAIN runs : runs[q].stage = "recorded" => runs'[q] = runs[q],
           NEW s, InOrder(s)
    PROVE  InOrder(s)' /\ \A i \in 1 .. Len(s) : runs'[s[i]] = runs[s[i]]
BY DEF InOrder

\* And so does the verdict on it.
LEMMA VerdictStays ==
    ASSUME NEW r, NEW n \in Nat, NEW s \in Seq(1 .. n),
           runs'[r].tool = runs[r].tool, runs'[r].start = runs[r].start,
           \A i \in 1 .. Len(s) : runs'[s[i]] = runs[s[i]]
    PROVE  Verdict(r, s)' = Verdict(r, s)
<1>1. DOMAIN s = 1 .. Len(s)
    OBVIOUS
<1>2. [i \in DOMAIN s |-> ToolCall(s[i])]' = [i \in DOMAIN s |-> ToolCall(s[i])]
    BY <1>1 DEF ToolCall
<1> QED
    BY <1>2 DEF Verdict, ManifestOf

\* A run whose check, seen runs and tool stay keeps its verdict.
LEMMA ToldStays ==
    ASSUME TypeOK, LogInv, DOMAIN runs \subseteq DOMAIN runs',
           \A q \in DOMAIN runs : runs[q].stage = "recorded" => runs'[q] = runs[q],
           NEW r \in DOMAIN runs, runs'[r] = runs[r]
    PROVE  InOrder(runs[r].seen)' /\ ToldOK(r)'
<1>1. PICK s \in Seq(1 .. MaxRuns) : s = runs[r].seen
    BY SeenType
<1>2. InOrder(s)' /\ \A i \in 1 .. Len(s) : runs'[s[i]] = runs[s[i]]
    BY <1>1, OrderStays DEF LogInv
<1>3. Verdict(r, s)' = Verdict(r, s)
    BY <1>2, VerdictStays, SessionAssumption
<1>4. Verdict(r, runs[r].seen)' = Verdict(r, s)'
    BY <1>1 DEF Verdict, ManifestOf, ToolCall
<1>5. InOrder(runs[r].seen)'
    BY <1>1, <1>2 DEF InOrder
<1>6. ToldOK(r)
    BY DEF LogInv
<1> QED
    BY <1>1, <1>3, <1>4, <1>5, <1>6 DEF ToldOK, Sensitive

LEMMA LogRun ==
    ASSUME SessionInv, SightInv, LogInv, NEW r \in DOMAIN runs, Enforce(r) \/ Run(r)
    PROVE  LogInv'
<1>1. RunStep(r) /\ Beside(r) /\ Tells(r) /\ TypeOK
    BY InvAsking, OneMove, MoveTells DEF SessionInv
<1>2. /\ DOMAIN runs' = DOMAIN runs
      /\ \A q \in DOMAIN runs : q # r => runs'[q] = runs[q]
      /\ runs'[r].tool = runs[r].tool /\ runs'[r].beside = runs[r].beside
      /\ Sensitive(r)' <=> Sensitive(r)
    BY <1>1 DEF Beside, Sensitive
<1>3. runs[r].stage # "recorded" /\ ToldOK(r) /\ InOrder(runs[r].seen) /\ InOrder(evidence)
    BY <1>1 DEF RunStep, LogInv
<1>4. \A q \in DOMAIN runs : runs[q].stage = "recorded" => runs'[q] = runs[q]
    BY <1>2, <1>3
<1>5. \A q \in DOMAIN runs : q # r => InOrder(runs[q].seen)' /\ ToldOK(q)'
    BY <1>1, <1>2, <1>4, ToldStays
<1>6. ASSUME NEW s \in Seq(1 .. MaxRuns), InOrder(s)
      PROVE  InOrder(s)' /\ Verdict(r, s)' = Verdict(r, s)
    <2>1. InOrder(s)' /\ \A i \in 1 .. Len(s) : runs'[s[i]] = runs[s[i]]
        BY <1>2, <1>4, <1>6, OrderStays
    <2>2. runs'[r].tool = runs[r].tool /\ runs'[r].start = runs[r].start
        BY <1>1, <1>2 DEF Tells
    <2> QED
        BY <2>1, <2>2, VerdictStays, SessionAssumption
<1>7. PICK s \in Seq(1 .. MaxRuns) : s = runs'[r].seen
    BY <1>1, SeenType DEF RunStep, Told
<1>8. InOrder(s)
    BY <1>1, <1>3, <1>7 DEF RunStep, Told
<1>9. InOrder(runs[r].seen)'
    BY <1>6, <1>7, <1>8 DEF InOrder
<1>10. ToldOK(r)'
    <2>1. Verdict(r, runs[r].seen)' = Verdict(r, s)
        <3>1. Verdict(r, runs[r].seen)' = Verdict(r, s)'
            BY <1>7 DEF Verdict, ManifestOf, ToolCall
        <3> QED
            BY <1>6, <1>8, <3>1
    <2>2. ASSUME runs'[r].effect # None
          PROVE  runs'[r].stage # "asking" /\ Sensitive(r)' /\ runs'[r].effect = Verdict(r, s)
        <3>1. CASE runs[r].stage = "asking"
            <4>1. Sensitive(r) /\ runs[r].effect = None
                BY <1>3, <3>1 DEF SessionInv, StageOK, ToldOK
            <4> QED
                BY <1>1, <1>2, <1>7, <2>2, <3>1, <4>1 DEF Tells, RunStep
        <3>2. CASE runs[r].stage # "asking"
            <4>1. runs'[r].effect = runs[r].effect /\ runs'[r].seen = runs[r].seen
                  /\ runs'[r].stage # "asking"
                BY <1>1, <3>2 DEF RunStep, Told
            <4> QED
                BY <1>2, <1>3, <1>7, <2>2, <4>1 DEF ToldOK
        <3> QED
            BY <3>1, <3>2
    <2>3. runs'[r].result # None => runs'[r].stage \in {"ended", "recorded"}
        BY <1>1, <1>3 DEF Tells, RunStep, ToldOK
    <2> QED
        BY <2>1, <2>2, <2>3 DEF ToldOK
<1>11. InOrder(evidence)'
    <2>1. PICK t \in Seq(1 .. MaxRuns) : t = evidence
        BY <1>1, SeenType
    <2>2. InOrder(t)'
        BY <1>3, <1>6, <2>1
    <2>3. CASE evidence' = evidence
        BY <2>1, <2>2, <2>3 DEF InOrder
    <2>4. CASE /\ evidence' = Append(evidence, r)
               /\ runs[r].stage = "ended" /\ runs'[r].stage = "recorded"
        <3>1. /\ Len(evidence') = Len(t) + 1 /\ Len(t) \in Nat
              /\ \A i \in 1 .. Len(t) : evidence'[i] = t[i]
              /\ evidence'[Len(t) + 1] = r
            BY <2>1, <2>4
        <3>2. ASSUME NEW i \in 1 .. Len(t) PROVE t[i] < r \/ r \in runs'[t[i]].beside
            <4>1. t[i] \in DOMAIN runs /\ runs[t[i]].stage = "recorded"
                BY <1>3, <2>1 DEF InOrder
            <4>2. t[i] # r /\ runs'[t[i]] = runs[t[i]]
                BY <1>4, <2>4, <4>1
            <4>3. r < t[i] => r \in runs[t[i]].beside
                BY <2>4, <4>1 DEF SightInv, BesideOK, InFlightStages
            <4>4. r \in Nat /\ t[i] \in Nat
                BY <1>1, <4>1, SeenType
            <4> QED
                BY <4>2, <4>3, <4>4
        <3>3. \A i \in 1 .. Len(t) : t[i] \in DOMAIN runs' /\ runs'[t[i]].stage = "recorded"
            BY <2>2 DEF InOrder
        <3>4. \A i, j \in 1 .. Len(t) : i < j => t[i] < t[j] \/ t[j] \in runs'[t[i]].beside
            BY <2>2 DEF InOrder
        <3>5. \A i \in 1 .. Len(t) + 1 :
                  evidence'[i] \in DOMAIN runs' /\ runs'[evidence'[i]].stage = "recorded"
            BY <1>2, <2>4, <3>1, <3>3
        <3>6. ASSUME NEW i \in 1 .. Len(t) + 1, NEW j \in 1 .. Len(t) + 1, i < j
              PROVE  evidence'[i] < evidence'[j] \/ evidence'[j] \in runs'[evidence'[i]].beside
            <4>1. i \in 1 .. Len(t) /\ evidence'[i] = t[i]
                BY <3>1, <3>6
            <4>2. CASE j = Len(t) + 1
                BY <3>1, <3>2, <4>1, <4>2
            <4>3. CASE j \in 1 .. Len(t)
                BY <3>1, <3>4, <3>6, <4>1, <4>3
            <4> QED
                BY <3>1, <4>2, <4>3
        <3> QED
            BY <3>1, <3>5, <3>6 DEF InOrder
    <2> QED
        BY <1>1, <2>3, <2>4 DEF RunStep
<1> QED
    BY <1>2, <1>5, <1>9, <1>10, <1>11 DEF LogInv

LEMMA LogStart ==
    ASSUME SessionInv, LogInv, NEW tool \in Tool, Start(tool)
    PROVE  LogInv'
<1>0. PICK new \in Nat : new = Len(runs) + 1
    BY DEF SessionInv, TypeOK
<1>1. /\ DOMAIN runs' = DOMAIN runs \cup {new} /\ TypeOK
      /\ \A q \in DOMAIN runs : runs'[q] = runs[q]
    BY <1>0, StartType, Started DEF SessionInv
<1>2. /\ runs'[new].seen = <<>> /\ runs'[new].effect = None /\ runs'[new].result = None
    <2>1. runs'[new] =
              [tool |-> tool, session |-> session, start |-> now,
               stage |-> IF MatchAction(tool) = None THEN "running" ELSE "asking",
               beside |-> InFlight, seen |-> <<>>, effect |-> None,
               result |-> None, at |-> None]
        BY <1>0, StartType DEF SessionInv
    <2> QED
        BY <2>1
<1>3. \A q \in DOMAIN runs : InOrder(runs[q].seen)' /\ ToldOK(q)'
    BY <1>1, ToldStays
<1>4. InOrder(runs[new].seen)' /\ ToldOK(new)'
    BY <1>2 DEF InOrder, ToldOK
<1>5. InOrder(evidence)'
    <2>1. evidence' = evidence /\ InOrder(evidence)
        BY DEF Start, LogInv
    <2>2. PICK t : t = evidence
        OBVIOUS
    <2>3. InOrder(t)'
        BY <1>1, <2>1, <2>2, OrderStays
    <2> QED
        BY <2>1, <2>2, <2>3 DEF InOrder
<1> QED
    BY <1>1, <1>3, <1>4, <1>5 DEF LogInv

LEMMA LogStep == SessionInv /\ SightInv /\ LogInv /\ [Next]_vars => LogInv'
<1> SUFFICES ASSUME SessionInv, SightInv, LogInv, [Next]_vars PROVE LogInv'
    OBVIOUS
<1>1. ASSUME runs' = runs, evidence' = evidence \/ evidence' = <<>> PROVE LogInv'
    <2>1. \A q \in DOMAIN runs : InOrder(runs[q].seen)' /\ ToldOK(q)'
        BY <1>1, ToldStays DEF SessionInv
    <2>2. InOrder(evidence)'
        BY <1>1 DEF LogInv, InOrder
    <2> QED
        BY <1>1, <2>1, <2>2 DEF LogInv
<1>2. ASSUME \/ \E r \in DOMAIN runs : ReportRefusal(r)
             \/ NewSession \/ Tick \/ UNCHANGED vars
      PROVE  runs' = runs /\ (evidence' = evidence \/ evidence' = <<>>)
    BY <1>2 DEF ReportRefusal, NewSession, Tick, vars
<1> QED
    BY <1>1, <1>2, LogRun, LogStart DEF Next

LEMMA LogInit == Init => LogInv
<1> SUFFICES ASSUME Init PROVE LogInv
    OBVIOUS
<1>1. Len(evidence) = 0 /\ DOMAIN runs = {}
    BY DEF Init
<1> QED
    BY <1>1 DEF LogInv, InOrder

LEMMA LogAlways == Spec => [](SessionInv /\ SightInv /\ LogInv)
BY SessionInit, SessionStep, SightInit, SightStep, LogInit, LogStep, PTL DEF Spec

-----------------------------------------------------------------------------
(* A replay agrees with the live gate.                                     *)

\* An extractor returns a list, stamped or not.
LEMMA ExtractType ==
    ASSUME NEW call
    PROVE  Extract(call) \in Seq({Extract(call)[i] : i \in DOMAIN Extract(call)})
<1>1. CASE \/ call.tool \notin DOMAIN Extractor
           \/ call.result \notin DOMAIN Extractor[call.tool]
    <2>1. Extract(call) = <<>>
        BY <1>1 DEF Extract
    <2> QED
        BY <2>1
<1>2. CASE call.tool \in DOMAIN Extractor /\ call.result \in DOMAIN Extractor[call.tool]
    <2> DEFINE items == Extractor[call.tool][call.result]
    <2>1. items \in Seq({items[i] : i \in DOMAIN items})
        BY <1>2, SessionAssumption
    <2>2. Extract(call) =
              [i \in DOMAIN items |->
                  IF items[i].observed_at # None THEN items[i]
                  ELSE [items[i] EXCEPT !.observed_at = call.observed_at,
                                        !.zoned = call.zoned]]
        BY <1>2 DEF Extract
    <2>3. DOMAIN items = 1 .. Len(items) /\ Len(items) \in Nat
        <3> HIDE DEF items
        <3> QED
            BY <2>1
    <2> HIDE DEF items
    <2>4. PICK n \in Nat : n = Len(items)
        BY <2>3
    <2>5. PICK list : list = Extract(call)
        OBVIOUS
    <2>6. list = [i \in 1 .. n |-> list[i]]
        BY <2>2, <2>3, <2>4, <2>5
    <2>7. list \in Seq({list[i] : i \in 1 .. n}) /\ DOMAIN list = 1 .. n
        BY <2>6
    <2> QED
        BY <2>5, <2>7
<1> QED
    BY <1>1, <1>2

\* Lists are lists over any larger set.
LEMMA SomeItems ==
    ASSUME NEW n \in Nat
    PROVE  \E S : \A q \in 1 .. n : Extract(ToolCall(q)) \in Seq(S)
<1> DEFINE Of(q) == {Extract(ToolCall(q))[i] : i \in DOMAIN Extract(ToolCall(q))}
           S == UNION {Of(q) : q \in 1 .. n}
<1>1. ASSUME NEW q \in 1 .. n PROVE Extract(ToolCall(q)) \in Seq(S)
    <2>1. Extract(ToolCall(q)) \in Seq(Of(q))
        BY ExtractType
    <2>2. Of(q) \subseteq S
        OBVIOUS
    <2> HIDE DEF Of, S
    <2> QED
        BY <2>1, <2>2
<1> QED
    BY <1>1

\* What is extracted does not depend on the call's id.
LEMMA SameExtract ==
    ASSUME NEW c, NEW d, c.tool = d.tool, c.result = d.result,
           c.observed_at = d.observed_at, c.zoned = d.zoned
    PROVE  Extract(c) = Extract(d)
BY DEF Extract

\* Without a result there is nothing to extract.
LEMMA NothingReturned ==
    ASSUME NEW call, call.result = None
    PROVE  Extract(call) = <<>>
BY SessionAssumption DEF Extract

\* The conditions under which ReplayAgreesPerTurn compares.
Comparable(r, mapping) ==
    /\ runs[r].effect # None
    /\ Sequential(r) /\ TurnIsSession(r) /\ LogIsFaithful(r, mapping)

\* A check of a sequential session has seen the recorded runs of its session,
\* in the order in which they are logged.
LEMMA SeenIsSorted ==
    ASSUME SessionInv, SightInv, LogInv, NEW r \in DOMAIN runs, IsAsked(r), Sequential(r),
           NEW s, s = runs[r].seen
    PROVE  /\ s \in Seq(1 .. Len(runs))
           /\ \A i, j \in 1 .. Len(s) : i < j => s[i] < s[j]
           /\ \A q \in DOMAIN runs :
                 (\E i \in 1 .. Len(s) : s[i] = q)
                     <=> /\ q < r /\ runs[q].session = runs[r].session
                         /\ runs[q].stage = "recorded"
<1>1. /\ s \in Seq(1 .. MaxRuns) /\ DOMAIN s = 1 .. Len(s)
      /\ DOMAIN runs = 1 .. Len(runs) /\ Len(runs) \in Nat /\ r \in Nat
    BY SeenType DEF SessionInv, TypeOK
<1>2. SightOK(r) /\ InOrder(s)
    BY DEF SightInv, LogInv
<1>3. \A q, p \in DOMAIN runs : p <= r => p \notin runs[q].beside
    BY <1>1 DEF Sequential
<1>4. ASSUME NEW i \in 1 .. Len(s)
      PROVE  /\ s[i] \in DOMAIN runs /\ s[i] < r
             /\ runs[s[i]].session = runs[r].session /\ runs[s[i]].stage = "recorded"
    <2>1. Saw(r, s[i]) /\ s[i] \in DOMAIN runs /\ runs[s[i]].stage = "recorded"
        BY <1>1, <1>2 DEF Saw, InOrder
    <2>2. r \notin runs[s[i]].beside
        BY <1>1, <1>3, <2>1
    <2> QED
        BY <1>2, <2>1, <2>2 DEF SightOK
<1>5. ASSUME NEW i \in 1 .. Len(s), NEW j \in 1 .. Len(s), i < j PROVE s[i] < s[j]
    <2>1. s[j] \notin runs[s[i]].beside
        BY <1>1, <1>3, <1>4
    <2> QED
        BY <1>2, <1>5, <2>1 DEF InOrder
<1>6. ASSUME NEW q \in DOMAIN runs, q < r, runs[q].session = runs[r].session,
             runs[q].stage = "recorded"
      PROVE  \E i \in 1 .. Len(s) : s[i] = q
    <2>1. q \notin runs[r].beside
        BY <1>1, <1>3, <1>6
    <2>2. Saw(r, q)
        BY <1>2, <1>6, <2>1 DEF SightOK
    <2> QED
        BY <1>1, <2>2 DEF Saw
<1>7. s \in Seq(1 .. Len(runs))
    BY <1>1, <1>4
<1> QED
    BY <1>4, <1>5, <1>6, <1>7

\* The turn of such a check in the log is its session.
LEMMA TurnOfSession ==
    ASSUME TypeOK, NEW r \in DOMAIN runs, NEW mapping, Sensitive(r), Comparable(r, mapping),
           NEW log, log = Normalize(mapping) \cap (1 .. r)
    PROVE  /\ r \in Gated(log)
           /\ \A q \in DOMAIN runs :
                 q \in Turn(log, r) <=> q < r /\ runs[q].session = runs[r].session
<1>1. DOMAIN runs = 1 .. Len(runs) /\ Len(runs) \in Nat /\ r \in Nat
    BY DEF TypeOK
<1>2. log = 1 .. r
    BY <1>1 DEF Comparable, LogIsFaithful, Normalize
<1>3. ASSUME NEW q \in 1 .. r - 1
      PROVE  Gated(log) \cap (q .. r - 1) = {} <=> \A p \in q .. r - 1 : ~Sensitive(p)
    <2>1. q .. r - 1 \subseteq log
        BY <1>1, <1>2
    <2> QED
        BY <2>1 DEF Gated
<1>4. ASSUME NEW q \in DOMAIN runs
      PROVE  q \in Turn(log, r) <=> q < r /\ runs[q].session = runs[r].session
    <2>1. CASE q < r
        <3>1. q \in 1 .. r - 1 /\ q \in log
            BY <1>1, <1>2, <2>1
        <3> QED
            BY <1>3, <2>1, <3>1 DEF Comparable, TurnIsSession, Turn
    <2>2. CASE ~(q < r)
        BY <2>2 DEF Turn
    <2> QED
        BY <2>1, <2>2
<1>5. r \in Gated(log)
    <2>1. r \in 1 .. r
        BY <1>1
    <2> QED
        BY <1>2, <2>1 DEF Gated
<1> QED
    BY <1>4, <1>5

\* What the log has of a run before r is what its session recorded of it, or
\* nothing when it left no evidence.
LEMMA LoggedIsRecorded ==
    ASSUME SessionInv, SightInv, LogInv, NEW r \in DOMAIN runs, IsAsked(r),
           NEW mapping \in TraceMapping, Comparable(r, mapping),
           NEW q \in DOMAIN runs, q < r
    PROVE  Extract(CallOf(q, mapping)) =
               IF runs[q].stage = "recorded" THEN Extract(ToolCall(q)) ELSE <<>>
<1>1. DOMAIN runs = 1 .. Len(runs) /\ Len(runs) \in Nat /\ r \in Nat /\ q \in Nat
    BY DEF SessionInv, TypeOK
<1>2. mapping.result = TRUE /\ mapping.zoned = TRUE
    BY DEF Comparable, LogIsFaithful, TraceMapping
<1>3. CallOf(q, mapping).result = runs[q].result
    BY <1>2 DEF CallOf
<1>4. CASE runs[q].stage = "recorded"
    <2>1. runs[q][mapping.observed_at] = runs[q].at
        <3>1. q \in 1 .. r - 1
            BY <1>1
        <3> QED
            BY <1>4, <3>1 DEF Comparable, LogIsFaithful
    <2> QED
        BY <1>2, <1>3, <1>4, <2>1, SameExtract DEF CallOf, ToolCall
<1>5. CASE runs[q].stage # "recorded"
    <2>1. q \notin runs[r].beside
        BY <1>1 DEF Comparable, Sequential
    <2>2. runs[q].stage \notin InFlightStages
        BY <2>1 DEF SightInv, BesideOK
    <2>3. runs[q].result = None
        BY <1>5, <2>2 DEF LogInv, ToldOK, InFlightStages
    <2> QED
        BY <1>3, <1>5, <2>3, NothingReturned
<1> QED
    BY <1>4, <1>5

\* So the manifests are the same, and so is the verdict.
LEMMA SameManifest ==
    ASSUME SessionInv, SightInv, LogInv, NEW r \in DOMAIN runs, IsAsked(r),
           NEW mapping \in TraceMapping, Comparable(r, mapping),
           NEW log, log = Normalize(mapping) \cap (1 .. r)
    PROVE  BuildOf(Turn(log, r), mapping) = ManifestOf(runs[r].seen)
<1>0. TypeOK /\ Sensitive(r)
    BY DEF SessionInv, IsAsked
<1>1. PICK n \in Nat : n = Len(runs)
    BY <1>0 DEF TypeOK
<1>2. PICK s : s = runs[r].seen
    OBVIOUS
<1>3. DOMAIN runs = 1 .. n
    BY <1>0, <1>1 DEF TypeOK
<1>4. /\ s \in Seq(1 .. n)
      /\ \A i, j \in 1 .. Len(s) : i < j => s[i] < s[j]
      /\ \A q \in DOMAIN runs :
            (\E i \in 1 .. Len(s) : s[i] = q)
                <=> /\ q < r /\ runs[q].session = runs[r].session
                    /\ runs[q].stage = "recorded"
    <2>1. Sequential(r)
        BY DEF Comparable
    <2>2. /\ s \in Seq(1 .. Len(runs))
          /\ \A i, j \in 1 .. Len(s) : i < j => s[i] < s[j]
          /\ \A q \in DOMAIN runs :
                (\E i \in 1 .. Len(s) : s[i] = q)
                    <=> /\ q < r /\ runs[q].session = runs[r].session
                        /\ runs[q].stage = "recorded"
        BY <1>2, <2>1, SeenIsSorted
    <2> QED
        BY <1>1, <2>2
<1>5. \A q \in DOMAIN runs :
          q \in Turn(log, r) <=> q < r /\ runs[q].session = runs[r].session
    BY <1>0, TurnOfSession
<1> DEFINE G == [q \in 1 .. n |-> Extract(ToolCall(q))]
           H == [q \in 1 .. n |-> IF q \in Turn(log, r)
                                  THEN Extract(CallOf(q, mapping)) ELSE <<>>]
<1>6. PICK S : \A q \in 1 .. n : G[q] \in Seq(S)
    BY SomeItems
<1>7. Thins(H, G, s, n)
    <2>1. ASSUME NEW q \in 1 .. n
          PROVE  H[q] = IF \E i \in 1 .. Len(s) : s[i] = q THEN G[q] ELSE <<>>
        <3>1. CASE q \notin Turn(log, r)
            BY <1>3, <1>4, <1>5, <3>1
        <3>2. CASE q \in Turn(log, r)
            <4>1. q < r /\ runs[q].session = runs[r].session
                BY <1>3, <1>5, <3>2
            <4>2. Extract(CallOf(q, mapping)) =
                      IF runs[q].stage = "recorded" THEN G[q] ELSE <<>>
                BY <1>3, <4>1, LoggedIsRecorded
            <4>3. (\E i \in 1 .. Len(s) : s[i] = q) <=> runs[q].stage = "recorded"
                BY <1>3, <1>4, <4>1
            <4> QED
                BY <3>2, <4>2, <4>3
        <3> QED
            BY <3>1, <3>2
    <2> HIDE DEF G, H
    <2> QED
        BY <2>1 DEF Thins
<1>8. ManifestOf(s) = FlatTo([i \in 1 .. Len(s) |-> G[s[i]]], Len(s))
    <2> DEFINE calls == [i \in DOMAIN s |-> ToolCall(s[i])]
               f == [i \in 1 .. Len(s) |-> G[s[i]]]
    <2>1. DOMAIN s = 1 .. Len(s) /\ \A i \in 1 .. Len(s) : s[i] \in 1 .. n
        BY <1>4
    <2>2. [i \in DOMAIN calls |-> Extract(calls[i])] = [i \in 1 .. Len(s) |-> f[i]]
        BY <2>1
    <2>3. ManifestOf(s) = FlattenSeq([i \in DOMAIN calls |-> Extract(calls[i])])
        BY DEF ManifestOf, Build
    <2>4. FlatTo(f, Len(s)) = FlattenSeq([i \in 1 .. Len(s) |-> f[i]])
        BY DEF FlatTo
    <2> HIDE DEF calls, f
    <2>5. ManifestOf(s) = FlatTo(f, Len(s))
        BY <2>2, <2>3, <2>4
    <2> QED
        BY <2>5 DEF f
<1>9. BuildOf(Turn(log, r), mapping) = FlatTo(H, n)
    <2>1. BuildOf(Turn(log, r), mapping) = FlattenSeq(H)
        BY <1>3 DEF BuildOf
    <2>2. H = [i \in 1 .. n |-> H[i]]
        OBVIOUS
    <2> HIDE DEF H
    <2> QED
        BY <2>1, <2>2 DEF FlatTo
<1> HIDE DEF G, H
<1>10. FlatTo([i \in 1 .. Len(s) |-> G[s[i]]], Len(s)) = FlatTo(H, n)
    BY <1>4, <1>6, <1>7, FlatSkips
<1> QED
    BY <1>2, <1>8, <1>9, <1>10

\* For any tools, policies and extractors and sessions of any length, a replay
\* of a faithful log of a sequential turn tells what the gate decided live.
THEOREM ReplayAgrees == Spec => []ReplayAgreesPerTurn
<1>1. SessionInv /\ SightInv /\ LogInv => ReplayAgreesPerTurn
    <2> SUFFICES ASSUME SessionInv, SightInv, LogInv, NEW r \in DOMAIN runs,
                        NEW mapping \in Mappings, Comparable(r, mapping)
                 PROVE  Replayed(r, mapping) \in {runs[r].effect, None}
        BY DEF ReplayAgreesPerTurn, Comparable
    <2>1. mapping \in TraceMapping
        BY MappingsAssumption
    <2>2. /\ IsAsked(r) /\ Sensitive(r)
          /\ runs[r].effect = Verdict(r, runs[r].seen)
        BY DEF Comparable, LogInv, ToldOK, IsAsked
    <2>3. PICK log : log = Normalize(mapping) \cap (1 .. r)
        OBVIOUS
    <2>4. PICK time : time = runs[r].start
        OBVIOUS
    <2>5. EffectAt(log, r, mapping, time) = runs[r].effect
        BY <2>1, <2>2, <2>3, <2>4, SameManifest DEF EffectAt, Verdict
    <2>6. r \in Gated(log)
        BY <2>2, <2>3, TurnOfSession DEF SessionInv
    <2> DEFINE effects == [q \in Gated(log) |-> EffectAt(log, q, mapping, time)]
    <2>7. effects[r] = runs[r].effect
        BY <2>5, <2>6
    <2>8. Simulate(log, mapping, time) \in {effects, None}
        BY DEF Simulate
    <2>9. Replayed(r, mapping) =
              IF Simulate(log, mapping, time) = None THEN None
              ELSE Simulate(log, mapping, time)[r]
        BY <2>3, <2>4 DEF Replayed
    <2> HIDE DEF effects
    <2> QED
        BY <2>7, <2>8, <2>9
<1> QED
    BY <1>1, LogAlways, PTL

-----------------------------------------------------------------------------
(* Coverage.                                                               *)

\* Calls that leave nothing may be left out of a turn.
LEMMA KeptTurn ==
    ASSUME NEW log, log \subseteq DOMAIN runs, NEW kept, kept \subseteq log,
           NEW mapping, NEW r, Gated(kept) = Gated(log),
           \A q \in log \ kept : Extract(CallOf(q, mapping)) = <<>>
    PROVE  BuildOf(Turn(kept, r), mapping) = BuildOf(Turn(log, r), mapping)
<1>1. \A q : q \in Turn(kept, r) <=> q \in kept /\ q \in Turn(log, r)
    BY DEF Turn
<1>2. Turn(log, r) \subseteq log
    BY DEF Turn
<1>3. ASSUME NEW q \in DOMAIN runs
      PROVE  (IF q \in Turn(kept, r) THEN Extract(CallOf(q, mapping)) ELSE <<>>)
                 = (IF q \in Turn(log, r) THEN Extract(CallOf(q, mapping)) ELSE <<>>)
    BY <1>1, <1>2
<1>4. [q \in DOMAIN runs |-> IF q \in Turn(kept, r) THEN Extract(CallOf(q, mapping)) ELSE <<>>]
          = [q \in DOMAIN runs |-> IF q \in Turn(log, r) THEN Extract(CallOf(q, mapping)) ELSE <<>>]
    BY <1>3
<1> QED
    BY <1>4 DEF BuildOf

\* Coverage accounts for every record, whatever the log: a tool is in one class
\* or its records are skipped, the gated ones have the reports, and what is
\* left unclassified was never checked and changes no report.
THEOREM CoverageHolds == Spec => []CoverageIsHonest
<1>1. LogInv => CoverageIsHonest
    <2> SUFFICES ASSUME LogInv, NEW mapping \in Mappings PROVE
            LET log      == Normalize(mapping)
                replay   == ReplayCommand(mapping, now)
                residual == replay.coverage.unclassified
                kept     == {r \in log : runs[r].tool \notin residual}
            IN  /\ \A r \in DOMAIN runs \ replay.skipped :
                      Cardinality({class \in DOMAIN replay.coverage :
                                      runs[r].tool \in replay.coverage[class]}) = 1
                /\ replay.reports # None =>
                      replay.coverage.gated = ToolsIn(DOMAIN replay.reports)
                /\ \A r \in DOMAIN runs :
                      /\ runs[r].effect # None =>
                            runs[r].tool \in replay.coverage.gated \/ r \in replay.skipped
                      /\ runs[r].tool \in residual => Extract(ToolCall(r)) = <<>>
                /\ Simulate(kept, mapping, now) = replay.reports
        BY Zenon DEF CoverageIsHonest
    <2> DEFINE log == Normalize(mapping)
               gated == {t \in ToolsIn(log) : MatchAction(t) # None}
               known == (ToolsIn(log) \ gated) \cap DOMAIN Extractor
               residual == (ToolsIn(log) \ gated) \ known
               coverage == [gated |-> gated, recognized |-> known, unclassified |-> residual]
               kept == {r \in log : runs[r].tool \notin residual}
    <2>1. /\ ReplayCommand(mapping, now).coverage = coverage
          /\ ReplayCommand(mapping, now).skipped = DOMAIN runs \ log
          /\ ReplayCommand(mapping, now).reports = Simulate(log, mapping, now)
        BY DEF ReplayCommand, Coverage, Skipped
    <2>2. /\ DOMAIN coverage = {"gated", "recognized", "unclassified"}
          /\ coverage.gated = gated /\ coverage.recognized = known
          /\ coverage.unclassified = residual
        OBVIOUS
    <2>3. log \subseteq DOMAIN runs /\ \A r \in log : runs[r].tool \in ToolsIn(log)
        BY DEF Normalize, ToolsIn
    <2>4. ASSUME NEW t, t \in residual
          PROVE  \A call : call.tool = t => Extract(call) = <<>>
        BY <2>4 DEF Extract
    <2>5. ASSUME NEW r \in log
          PROVE  Cardinality({class \in DOMAIN coverage : runs[r].tool \in coverage[class]}) = 1
        <3>1. PICK class : {c \in DOMAIN coverage : runs[r].tool \in coverage[c]} = {class}
            <4>1. runs[r].tool \in ToolsIn(log)
                BY <2>3
            <4>2. CASE runs[r].tool \in gated
                <5>1. {c \in DOMAIN coverage : runs[r].tool \in coverage[c]} = {"gated"}
                    BY <2>2, <4>2
                <5> QED
                    BY <5>1
            <4>3. CASE runs[r].tool \in known
                <5>1. {c \in DOMAIN coverage : runs[r].tool \in coverage[c]} = {"recognized"}
                    BY <2>2, <4>3
                <5> QED
                    BY <5>1
            <4>4. CASE runs[r].tool \in residual
                <5>1. {c \in DOMAIN coverage : runs[r].tool \in coverage[c]} = {"unclassified"}
                    BY <2>2, <4>4
                <5> QED
                    BY <5>1
            <4> QED
                BY <4>1, <4>2, <4>3, <4>4
        <3> QED
            BY <3>1, FS_Singleton
    <2>6. \A r : r \in Gated(log) <=> r \in log /\ runs[r].tool \in gated
        BY <2>3 DEF Gated, Sensitive
    <2>7. Gated(kept) = Gated(log)
        BY <2>6 DEF Gated
    <2>8. Simulate(log, mapping, now) # None => gated = ToolsIn(DOMAIN Simulate(log, mapping, now))
        <3>1. Simulate(log, mapping, now) # None =>
                  DOMAIN Simulate(log, mapping, now) = Gated(log)
            BY DEF Simulate
        <3>2. gated = ToolsIn(Gated(log))
            BY <2>3, <2>6 DEF ToolsIn
        <3> QED
            BY <3>1, <3>2
    <2>9. \A r \in DOMAIN runs : runs[r].effect # None => runs[r].tool \in gated \/ r \notin log
        BY <2>3 DEF LogInv, ToldOK, Sensitive
    <2>10. Simulate(kept, mapping, now) = Simulate(log, mapping, now)
        <3>1. \A q \in log \ kept : Extract(CallOf(q, mapping)) = <<>>
            BY <2>4 DEF CallOf
        <3>2. ASSUME NEW r
              PROVE  EffectAt(kept, r, mapping, now) = EffectAt(log, r, mapping, now)
            <4>1. BuildOf(Turn(kept, r), mapping) = BuildOf(Turn(log, r), mapping)
                BY <2>3, <2>7, <3>1, KeptTurn
            <4> QED
                BY <4>1 DEF EffectAt
        <3>3. [r \in Gated(kept) |-> EffectAt(kept, r, mapping, now)]
                  = [r \in Gated(log) |-> EffectAt(log, r, mapping, now)]
            BY <2>7, <3>2
        <3> QED
            BY <2>7, <3>3 DEF Simulate
    <2>11. \A r \in DOMAIN runs : runs[r].tool \in residual => Extract(ToolCall(r)) = <<>>
        BY <2>4 DEF ToolCall
    <2>12. \A r \in DOMAIN runs : r \notin DOMAIN runs \ log => r \in log
        OBVIOUS
    <2> HIDE DEF gated, known, residual, coverage
    <2> QED
        BY <2>1, <2>2, <2>5, <2>8, <2>9, <2>10, <2>11, <2>12
<1> QED
    BY <1>1, LogAlways, PTL

=============================================================================
