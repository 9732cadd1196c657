--------------------------- MODULE AuthoringProofs ---------------------------
(***************************************************************************)
(* What reaches enforcement from a directory of policies, for any commands,*)
(* texts and files, whatever is killed, read halfway or written at once.   *)
(***************************************************************************)
EXTENDS Authoring, TLAPS

\* A command past its draft holds a text, a signed one a text without errors.
DraftsOK ==
    \A c \in Command :
        /\ stage[c] \notin {"idle", "failed"} => draft[c] \in Text
        /\ stage[c] \in SignedStages => LintOk(draft[c])

\* A file holds what it was shipped with, an empty or torn text,
\* or a signed text for whose action it is named.
FileIsKnown(n) ==
    \/ dir[n] \in {Shipped[n], Empty, Torn}
    \/ /\ dir[n] \in Signed
       /\ dir[n] \in Text
       /\ LintOk(dir[n])
       /\ n = FileFor[PolicyIn[dir[n]].action]

DirectoryOK ==
    \A n \in File :
        /\ FileIsKnown(n)
        /\ Shipped[n] # None => dir[n] # None
        /\ n \in listing => dir[n] # None

\* A policy is a text the gate may decide by.
Known(text) ==
    \/ text \in ShippedTexts \cup {Torn}
    \/ text \in Signed /\ LintOk(text)

Reading == gate \in {"loading", "up"}

PoliciesOK ==
    Reading => \A a \in Action : policies[a] # None => Known(policies[a])

\* A shipped file is still to be read, or its action has a policy.
GovernedOK ==
    (Reading /\ NamesAreKept /\ \A a \in Action : policies[a] # Torn) =>
        \A n \in File : ShippedPack(n) =>
            n \in listing \/ policies[PolicyIn[Shipped[n]].action] # None

\* A file not written since the listing is still to be read, or in force.
InForceOK ==
    Reading => \A n \in File \ written : dir[n] # None =>
        \/ n \in listing
        \/ PolicyIn[dir[n]] # None /\ policies[PolicyIn[dir[n]].action] = dir[n]

\* Once it is up the gate has nothing left to read.
UpIsLoaded == gate = "up" => listing = {}

Inv == /\ TypeOK /\ DraftsOK /\ DirectoryOK /\ PoliciesOK
       /\ GovernedOK /\ InForceOK /\ UpIsLoaded

-----------------------------------------------------------------------------
\* Where a signed text is written: a file of the directory.
LEMMA TargetIsFile ==
    ASSUME TypeOK, DraftsOK, NEW c \in Command, stage[c] \in SignedStages
    PROVE  /\ draft[c] \in Text
           /\ LintOk(draft[c])
           /\ PolicyIn[draft[c]] \in Policy
           /\ PolicyIn[draft[c]].action \in Action
           /\ Target(c) \in File
  <1>1. draft[c] \in Text /\ LintOk(draft[c])
    BY DEF DraftsOK, SignedStages
  <1>2. PolicyIn[draft[c]] \in Policy
    BY <1>1, AuthoringAssumption DEF LintOk
  <1>3. PolicyIn[draft[c]].action \in Action
    BY <1>2 DEF Policy
  <1> QED
    BY <1>1, <1>2, <1>3, AuthoringAssumption DEF Target

\* The invariant holds of an untouched directory and a gate that is down.
LEMMA InitInv == Init => Inv
  <1> SUFFICES ASSUME Init PROVE Inv
    OBVIOUS
  <1>1. TypeOK
    BY AuthoringAssumption DEF Init, TypeOK, Stage, NoPolicies
  <1>2. DraftsOK
    BY DEF Init, DraftsOK, SignedStages
  <1>3. DirectoryOK
    BY DEF Init, DirectoryOK, FileIsKnown
  <1>4. PoliciesOK /\ GovernedOK /\ InForceOK /\ UpIsLoaded
    BY DEF Init, PoliciesOK, GovernedOK, InForceOK, UpIsLoaded, Reading
  <1> QED
    BY <1>1, <1>2, <1>3, <1>4 DEF Inv

-----------------------------------------------------------------------------
\* A signed text stays signed, whatever step is taken (compiler.py:180).
LEMMA SignedStays ==
    ASSUME Inv, [Next]_vars
    PROVE  \A text : text \in Signed => text \in Signed'
<1> SUFFICES ASSUME NEW text, text \in Signed PROVE text \in Signed'
  OBVIOUS
<1>1. PICK c \in Command : stage[c] \in SignedStages /\ text = draft[c]
  BY DEF Signed
<1>2. stage'[c] \in SignedStages /\ draft'[c] = draft[c]
  <2> USE DEF Inv, TypeOK, SignedStages
  <2>1. ASSUME NEW d \in Command, DraftFromSop(d)
        PROVE  stage'[c] \in SignedStages /\ draft'[c] = draft[c]
    BY <1>1, <2>1 DEF DraftFromSop
  <2>2. ASSUME NEW d \in Command,
               \/ DraftFails(d) \/ LeaveInert(d) \/ Approve(d) \/ OpenFile(d)
               \/ WriteFile(d) \/ TearFile(d) \/ Kill(d)
        PROVE  stage'[c] \in SignedStages /\ draft'[c] = draft[c]
    BY <1>1, <2>2
       DEF DraftFails, LeaveInert, Approve, OpenFile, WriteFile, TearFile, Kill
  <2>3. ASSUME \/ StartGate \/ FinishLoading \/ UNCHANGED vars
               \/ \E n \in File : LoadFile(n) \/ RefuseFile(n)
        PROVE  stage'[c] \in SignedStages /\ draft'[c] = draft[c]
    BY <1>1, <2>3 DEF StartGate, FinishLoading, vars, LoadFile, RefuseFile, gateVars
  <2> QED  BY <2>1, <2>2, <2>3 DEF Next
<1> QED  BY <1>1, <1>2 DEF Signed

\* The state keeps its types at every step.
LEMMA TypeStep == Inv /\ [Next]_vars => TypeOK'
<1> SUFFICES ASSUME Inv, [Next]_vars PROVE TypeOK'
  OBVIOUS
<1> USE DEF TypeOK, Stage
<1>a. TypeOK /\ DraftsOK
  BY DEF Inv
<1>1. ASSUME NEW c \in Command,
             \/ DraftFromSop(c) \/ DraftFails(c) \/ LeaveInert(c)
             \/ Approve(c) \/ Kill(c)
      PROVE  TypeOK'
  BY <1>a, <1>1, AuthoringAssumption
     DEF DraftFromSop, DraftFails, LeaveInert, Approve, Kill, gateVars
<1>2. ASSUME NEW c \in Command, OpenFile(c) PROVE TypeOK'
  <2>1. Target(c) \in File
    BY <1>a, <1>2, TargetIsFile DEF OpenFile, SignedStages
  <2> QED  BY <1>a, <1>2, <2>1, AuthoringAssumption DEF OpenFile, gateVars
<1>3. ASSUME NEW c \in Command, WriteFile(c) \/ TearFile(c) PROVE TypeOK'
  <2>1. Target(c) \in File /\ draft[c] \in Text
    BY <1>a, <1>3, TargetIsFile DEF WriteFile, TearFile, SignedStages
  <2>2. PICK text \in {draft[c], Torn} : dir' = [dir EXCEPT ![Target(c)] = text]
    BY <1>3 DEF WriteFile, TearFile
  <2>3. text \in Text
    BY <2>1, <2>2, AuthoringAssumption
  <2> QED  BY <1>a, <1>3, <2>1, <2>2, <2>3 DEF WriteFile, TearFile, gateVars
<1>4. ASSUME NEW n \in File, LoadFile(n) PROVE TypeOK'
  <2>1. dir[n] \in Text \cup {None}
    BY <1>a
  <2> QED  BY <1>a, <1>4, <2>1 DEF LoadFile
<1>5. ASSUME NEW n \in File, RefuseFile(n) PROVE TypeOK'
  BY <1>a, <1>5 DEF RefuseFile
<1>6. ASSUME StartGate PROVE TypeOK'
  BY <1>a, <1>6 DEF StartGate, NoPolicies
<1>7. ASSUME FinishLoading PROVE TypeOK'
  BY <1>a, <1>7 DEF FinishLoading
<1>8. ASSUME UNCHANGED vars PROVE TypeOK'
  BY <1>a, <1>8 DEF vars
<1> QED  BY <1>1, <1>2, <1>3, <1>4, <1>5, <1>6, <1>7, <1>8 DEF Next

\* Only a text that the linter passes gets past its draft (compiler.py:199).
LEMMA DraftsStep == Inv /\ [Next]_vars => DraftsOK'
<1> SUFFICES ASSUME Inv, [Next]_vars PROVE DraftsOK'
  OBVIOUS
<1>a. TypeOK /\ DraftsOK
  BY DEF Inv
<1> USE DEF TypeOK, DraftsOK, SignedStages
<1>1. ASSUME NEW c \in Command, DraftFromSop(c) PROVE DraftsOK'
  BY <1>a, <1>1, AuthoringAssumption DEF DraftFromSop
<1>2. ASSUME NEW c \in Command,
             \/ DraftFails(c) \/ LeaveInert(c) \/ Approve(c) \/ OpenFile(c)
             \/ WriteFile(c) \/ TearFile(c) \/ Kill(c)
      PROVE  DraftsOK'
  BY <1>a, <1>2
     DEF DraftFails, LeaveInert, Approve, OpenFile, WriteFile, TearFile, Kill
<1>3. ASSUME \/ StartGate \/ FinishLoading \/ UNCHANGED vars
             \/ \E n \in File : LoadFile(n) \/ RefuseFile(n)
      PROVE  DraftsOK'
  BY <1>a, <1>3 DEF StartGate, FinishLoading, vars, LoadFile, RefuseFile
<1> QED  BY <1>1, <1>2, <1>3 DEF Next

\* Only a command that is signed writes, and only the file of its action.
LEMMA DirectoryStep == Inv /\ [Next]_vars => DirectoryOK'
<1> SUFFICES ASSUME Inv, [Next]_vars PROVE DirectoryOK'
  OBVIOUS
<1>a. TypeOK /\ DraftsOK /\ DirectoryOK
  BY DEF Inv
<1>b. \A text : text \in Signed => text \in Signed'
  BY SignedStays
<1>1. ASSUME dir' = dir, listing' \subseteq listing \/ listing' = {n \in File : dir[n] # None}
      PROVE  DirectoryOK'
  BY <1>a, <1>b, <1>1 DEF DirectoryOK, FileIsKnown, LintOk
<1>2. ASSUME NEW c \in Command, OpenFile(c) PROVE DirectoryOK'
  <2>1. Target(c) \in File
    BY <1>a, <1>2, TargetIsFile DEF OpenFile, SignedStages
  <2>2. dir' = [dir EXCEPT ![Target(c)] = Empty] /\ listing' = listing
    BY <1>2 DEF OpenFile, gateVars
  <2>3. \A n \in File : n # Target(c) => dir'[n] = dir[n]
    BY <1>a, <2>2 DEF TypeOK
  <2>4. dir'[Target(c)] = Empty /\ Empty # None
    BY <1>a, <2>1, <2>2, AuthoringAssumption DEF TypeOK
  <2> QED  BY <1>a, <1>b, <2>2, <2>3, <2>4 DEF DirectoryOK, FileIsKnown, LintOk
<1>3. ASSUME NEW c \in Command, WriteFile(c) \/ TearFile(c) PROVE DirectoryOK'
  <2>1. /\ Target(c) \in File
        /\ draft[c] \in Text
        /\ LintOk(draft[c])
    BY <1>a, <1>3, TargetIsFile DEF WriteFile, TearFile, SignedStages
  <2>2. PICK text \in {draft[c], Torn} : dir' = [dir EXCEPT ![Target(c)] = text]
    BY <1>3 DEF WriteFile, TearFile
  <2>3. listing' = listing
    BY <1>3 DEF WriteFile, TearFile, gateVars
  <2>4. \A n \in File : n # Target(c) => dir'[n] = dir[n]
    BY <1>a, <2>2 DEF TypeOK
  <2>5. dir'[Target(c)] = text /\ text # None
    BY <1>a, <2>1, <2>2, AuthoringAssumption DEF TypeOK
  <2>6. draft[c] \in Signed'
    BY <1>3, <1>b DEF WriteFile, TearFile, Signed, SignedStages
  <2> QED
    BY <1>a, <1>b, <2>1, <2>2, <2>3, <2>4, <2>5, <2>6
       DEF DirectoryOK, FileIsKnown, LintOk, Target
<1> QED
  <2>1. ASSUME NEW c \in Command,
               \/ DraftFromSop(c) \/ DraftFails(c) \/ LeaveInert(c)
               \/ Approve(c) \/ Kill(c)
        PROVE  dir' = dir /\ listing' \subseteq listing
    BY <2>1 DEF DraftFromSop, DraftFails, LeaveInert, Approve, Kill, gateVars
  <2>2. ASSUME \/ FinishLoading \/ UNCHANGED vars
               \/ \E n \in File : LoadFile(n) \/ RefuseFile(n)
        PROVE  dir' = dir /\ listing' \subseteq listing
    BY <2>2 DEF FinishLoading, vars, LoadFile, RefuseFile
  <2>3. ASSUME StartGate
        PROVE  dir' = dir /\ listing' = {n \in File : dir[n] # None}
    BY <2>3 DEF StartGate
  <2> QED  BY <1>1, <1>2, <1>3, <2>1, <2>2, <2>3 DEF Next

-----------------------------------------------------------------------------
\* Loading a file puts its text in force for its action and changes nothing
\* else that is in force (policy.py:150).
LEMMA LoadFact ==
    ASSUME Inv, NEW n \in File, LoadFile(n)
    PROVE  /\ dir[n] \in Text
           /\ PolicyIn[dir[n]].action \in Action
           /\ policies' = [policies EXCEPT ![PolicyIn[dir[n]].action] = dir[n]]
           /\ policies'[PolicyIn[dir[n]].action] = dir[n]
           /\ policies[PolicyIn[dir[n]].action] = None
           /\ \A a \in Action : policies[a] # None => policies'[a] = policies[a]
<1>1. dir[n] \in Text
  BY DEF LoadFile, IsNextFile, Inv, TypeOK, DirectoryOK
<1>2. PolicyIn[dir[n]] \in Policy
  BY <1>1, AuthoringAssumption DEF LoadFile, Fits
<1>3. PolicyIn[dir[n]].action \in Action
  BY <1>2 DEF Policy
<1> QED  BY <1>1, <1>3 DEF LoadFile, Fits, Inv, TypeOK

\* What is in force stays known (compiler.py:16).
LEMMA PoliciesStep == Inv /\ [Next]_vars => PoliciesOK'
<1> SUFFICES ASSUME Inv, [Next]_vars PROVE PoliciesOK'
  OBVIOUS
<1>b. \A text : Known(text) => Known(text)'
  BY SignedStays DEF Known, LintOk
<1>1. ASSUME policies' = policies, gate' = gate \/ (gate = "loading" /\ gate' \in {"up", "refused"})
      PROVE  PoliciesOK'
  BY <1>1, <1>b DEF Inv, PoliciesOK, Reading
<1>2. ASSUME NEW n \in File, LoadFile(n) PROVE PoliciesOK'
  <2>1. gate = "loading" /\ gate' = gate
    BY <1>2 DEF LoadFile
  <2>2. \A a \in Action : policies'[a] = policies[a] \/ policies'[a] = dir[n]
    BY <1>2, LoadFact DEF Inv, TypeOK
  <2>3. Known(dir[n])
    <3>1. dir[n] # Empty /\ dir[n] # None
      BY <1>2, LoadFact, AuthoringAssumption DEF LoadFile, Fits
    <3> QED  BY <3>1 DEF Inv, DirectoryOK, FileIsKnown, Known, ShippedTexts
  <2> QED  BY <2>1, <2>2, <2>3, <1>b DEF Inv, PoliciesOK, Reading
<1>3. ASSUME StartGate PROVE PoliciesOK'
  BY <1>3 DEF StartGate, PoliciesOK, NoPolicies
<1> QED
  <2>1. ASSUME NEW c \in Command,
               \/ DraftFromSop(c) \/ DraftFails(c) \/ LeaveInert(c) \/ Approve(c)
               \/ OpenFile(c) \/ WriteFile(c) \/ TearFile(c) \/ Kill(c)
        PROVE  policies' = policies /\ gate' = gate
    BY <2>1 DEF DraftFromSop, DraftFails, LeaveInert, Approve, OpenFile,
                WriteFile, TearFile, Kill, gateVars
  <2>2. ASSUME NEW n \in File, RefuseFile(n)
        PROVE  policies' = policies /\ gate = "loading" /\ gate' \in {"up", "refused"}
    BY <2>2 DEF RefuseFile
  <2>3. ASSUME FinishLoading
        PROVE  policies' = policies /\ gate = "loading" /\ gate' \in {"up", "refused"}
    BY <2>3 DEF FinishLoading
  <2>4. ASSUME UNCHANGED vars PROVE policies' = policies /\ gate' = gate
    BY <2>4 DEF vars, gateVars
  <2> QED  BY <1>1, <1>2, <1>3, <2>1, <2>2, <2>3, <2>4 DEF Next

\* No step of a load, or of a command, takes a shipped action's policy away.
LEMMA GovernedStep == Inv /\ [Next]_vars => GovernedOK'
<1> SUFFICES ASSUME Inv, [Next]_vars,
                    Reading', NamesAreKept, \A a \in Action : policies'[a] # Torn,
                    NEW m \in File, ShippedPack(m)
             PROVE  m \in listing' \/ policies'[PolicyIn[Shipped[m]].action] # None
  BY DEF GovernedOK, NamesAreKept
<1>1. ASSUME policies' = policies, listing' = listing,
             gate' = gate \/ (gate = "loading" /\ gate' \in {"up", "refused"})
      PROVE  m \in listing' \/ policies'[PolicyIn[Shipped[m]].action] # None
  BY <1>1 DEF Inv, GovernedOK, Reading
<1>2. ASSUME NEW n \in File, LoadFile(n)
      PROVE  m \in listing' \/ policies'[PolicyIn[Shipped[m]].action] # None
  <2>1. gate = "loading" /\ listing' = listing \ {n}
    BY <1>2 DEF LoadFile
  <2>2. \A a \in Action : policies[a] # Torn
    BY <1>2, LoadFact, AuthoringAssumption DEF Inv, TypeOK
  <2>3. m \in listing \/ policies[PolicyIn[Shipped[m]].action] # None
    BY <2>1, <2>2 DEF Inv, GovernedOK, Reading
  <2>4. CASE m = n
    <3>a. dir[n] \in Text /\ PolicyIn[dir[n]] # None
      BY <1>2, LoadFact DEF LoadFile, Fits
    <3>b. dir[n] # Torn
      BY <1>2, LoadFact
    <3>1. dir[n] \notin {Empty, Torn, None}
      BY <3>a, <3>b, AuthoringAssumption
    <3>2. PolicyIn[Shipped[m]].action = PolicyIn[dir[n]].action
      <4>1. CASE dir[n] = Shipped[n]
        BY <4>1, <2>4
      <4>2. CASE n = FileFor[PolicyIn[dir[n]].action]
        BY <4>2, <2>4, <1>2, LoadFact DEF NamesAreKept
      <4> QED  BY <4>1, <4>2, <3>1 DEF Inv, DirectoryOK, FileIsKnown
    <3> QED  BY <3>1, <3>2, <1>2, LoadFact
  <2>5. CASE m # n
    <3>1. PolicyIn[Shipped[m]] \in Policy
      BY AuthoringAssumption DEF ShippedPack
    <3>2. PolicyIn[Shipped[m]].action \in Action
      BY <3>1 DEF Policy
    <3> QED  BY <3>2, <2>1, <2>3, <2>5, <1>2, LoadFact
  <2> QED  BY <2>4, <2>5
<1>3. ASSUME StartGate
      PROVE  m \in listing' \/ policies'[PolicyIn[Shipped[m]].action] # None
  BY <1>3 DEF StartGate, Inv, DirectoryOK, ShippedPack
<1> QED
  <2>1. ASSUME NEW c \in Command,
               \/ DraftFromSop(c) \/ DraftFails(c) \/ LeaveInert(c) \/ Approve(c)
               \/ OpenFile(c) \/ WriteFile(c) \/ TearFile(c) \/ Kill(c)
        PROVE  policies' = policies /\ listing' = listing /\ gate' = gate
    BY <2>1 DEF DraftFromSop, DraftFails, LeaveInert, Approve, OpenFile,
                WriteFile, TearFile, Kill, gateVars
  <2>2. ASSUME FinishLoading \/ \E n \in File : RefuseFile(n)
        PROVE  /\ policies' = policies /\ listing' = listing
               /\ gate = "loading" /\ gate' \in {"up", "refused"}
    BY <2>2 DEF RefuseFile, FinishLoading
  <2>3. ASSUME UNCHANGED vars
        PROVE  policies' = policies /\ listing' = listing /\ gate' = gate
    BY <2>3 DEF vars, gateVars
  <2> QED  BY <1>1, <1>2, <1>3, <2>1, <2>2, <2>3 DEF Next

\* What a load has read stays in force (policy.py:150).
LEMMA InForceStep == Inv /\ [Next]_vars => InForceOK'
<1> SUFFICES ASSUME Inv, [Next]_vars, Reading',
                    NEW m \in File, m \notin written', dir'[m] # None
             PROVE  \/ m \in listing'
                    \/ PolicyIn[dir'[m]] # None /\ policies'[PolicyIn[dir'[m]].action] = dir'[m]
  BY DEF InForceOK
<1> DEFINE Goal == \/ m \in listing'
                   \/ /\ PolicyIn[dir'[m]] # None
                      /\ policies'[PolicyIn[dir'[m]].action] = dir'[m]
<1>1. ASSUME policies' = policies, listing' = listing, dir'[m] = dir[m],
             written \subseteq written',
             gate' = gate \/ (gate = "loading" /\ gate' \in {"up", "refused"})
      PROVE  Goal
  <2>1. m \notin written /\ Reading
    BY <1>1 DEF Reading
  <2> QED  BY <1>1, <2>1 DEF Inv, InForceOK
<1>2. ASSUME NEW n \in File, LoadFile(n) PROVE Goal
  <2>1. /\ gate = "loading" /\ listing' = listing \ {n}
        /\ dir' = dir /\ written' = written
    BY <1>2 DEF LoadFile
  <2>2. CASE m = n
    BY <2>1, <2>2, <1>2, LoadFact DEF LoadFile, Fits
  <2>3. CASE m # n /\ m \notin listing
    <3>1. PolicyIn[dir[m]] # None /\ policies[PolicyIn[dir[m]].action] = dir[m]
      BY <2>1, <2>3 DEF Inv, InForceOK, Reading
    <3>2. PolicyIn[dir[m]].action \in Action
      <4>1. dir[m] \in Text
        BY <2>1 DEF Inv, TypeOK
      <4>2. PolicyIn[dir[m]] \in Policy
        BY <3>1, <4>1, AuthoringAssumption
      <4> QED  BY <4>2 DEF Policy
    <3> QED  BY <2>1, <3>1, <3>2, <1>2, LoadFact
  <2>4. CASE m # n /\ m \in listing
    BY <2>1, <2>4
  <2> QED  BY <2>2, <2>3, <2>4
<1>3. ASSUME StartGate PROVE Goal
  BY <1>3 DEF StartGate
<1>4. ASSUME NEW c \in Command, OpenFile(c) \/ WriteFile(c) \/ TearFile(c) PROVE Goal
  <2>1. /\ policies' = policies /\ listing' = listing /\ gate' = gate
        /\ written' = written \cup {Target(c)}
    BY <1>4 DEF OpenFile, WriteFile, TearFile, gateVars
  <2>2. \E text : dir' = [dir EXCEPT ![Target(c)] = text]
    BY <1>4 DEF OpenFile, WriteFile, TearFile
  <2>3. dir'[m] = dir[m]
    BY <2>1, <2>2 DEF Inv, TypeOK
  <2> QED  BY <1>1, <2>1, <2>3
<1> QED
  <2>1. ASSUME NEW c \in Command,
               \/ DraftFromSop(c) \/ DraftFails(c) \/ LeaveInert(c) \/ Approve(c)
               \/ Kill(c)
        PROVE  /\ policies' = policies /\ listing' = listing /\ gate' = gate
               /\ dir' = dir /\ written' = written
    BY <2>1 DEF DraftFromSop, DraftFails, LeaveInert, Approve, Kill, gateVars
  <2>2. ASSUME FinishLoading \/ \E n \in File : RefuseFile(n)
        PROVE  /\ policies' = policies /\ listing' = listing
               /\ dir' = dir /\ written' = written
               /\ gate = "loading" /\ gate' \in {"up", "refused"}
    BY <2>2 DEF RefuseFile, FinishLoading
  <2>3. ASSUME UNCHANGED vars
        PROVE  /\ policies' = policies /\ listing' = listing /\ gate' = gate
               /\ dir' = dir /\ written' = written
    BY <2>3 DEF vars, gateVars
  <2> QED  BY <1>1, <1>2, <1>3, <1>4, <2>1, <2>2, <2>3 DEF Next

\* The gate comes up only when nothing is left to read, and reads nothing then.
LEMMA UpStep == Inv /\ [Next]_vars => UpIsLoaded'
<1> USE DEF Inv, UpIsLoaded
<1>1. ASSUME UpIsLoaded, NEW c \in Command,
             \/ DraftFromSop(c) \/ DraftFails(c) \/ LeaveInert(c) \/ Approve(c)
             \/ OpenFile(c) \/ WriteFile(c) \/ TearFile(c) \/ Kill(c)
      PROVE  UpIsLoaded'
  BY <1>1 DEF DraftFromSop, DraftFails, LeaveInert, Approve, OpenFile,
              WriteFile, TearFile, Kill, gateVars
<1>2. ASSUME UpIsLoaded,
             \/ StartGate \/ FinishLoading \/ UNCHANGED vars
             \/ \E n \in File : LoadFile(n) \/ RefuseFile(n)
      PROVE  UpIsLoaded'
  BY <1>2 DEF StartGate, FinishLoading, vars, LoadFile, RefuseFile, gateVars
<1> QED  BY <1>1, <1>2 DEF Next

\* The invariant is inductive.
LEMMA Invariance == Spec => []Inv
<1>1. Inv /\ [Next]_vars => Inv'
  BY TypeStep, DraftsStep, DirectoryStep, PoliciesStep, GovernedStep,
     InForceStep, UpStep DEF Inv
<1> QED  BY InitInv, <1>1, PTL DEF Spec

-----------------------------------------------------------------------------
\* The state of the compiler, the directory and the gate keeps its types.
THEOREM TypeCorrect == Spec => []TypeOK
<1>1. Inv => TypeOK
  BY DEF Inv
<1> QED  BY Invariance, <1>1, PTL

\* Nothing but shipped, approved and torn texts is ever in force
\* (compiler.py:16).
THEOREM OnlySignedGoesLive == Spec => []LiveWasSigned
<1>1. Inv => LiveWasSigned
  BY DEF Inv, PoliciesOK, Known, Reading, LiveWasSigned
<1> QED  BY Invariance, <1>1, PTL

\* A gate that starts governs every action it was shipped to govern
\* (policy.py:145).
THEOREM ShippedActionsStayGoverned == Spec => []ShippedStaysGoverned
<1>1. Inv => ShippedStaysGoverned
  BY DEF Inv, GovernedOK, UpIsLoaded, Reading, ShippedStaysGoverned
<1> QED  BY Invariance, <1>1, PTL

\* A gate that starts has its whole directory in force (policy.py:145).
THEOREM DirectoryIsInForce == Spec => []NothingIsShadowed
<1>1. Inv => NothingIsShadowed
  BY DEF Inv, InForceOK, UpIsLoaded, Reading, NothingIsShadowed
<1> QED  BY Invariance, <1>1, PTL

=============================================================================
