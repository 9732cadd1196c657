------------------------------ MODULE Authoring ------------------------------
(***************************************************************************)
(* From a draft to the rules in force: the policy compiler (compiler.py)   *)
(* and its command (cli.py, "policy compile") write into the directory     *)
(* that PolicySet.from_dir (policy.py) reads when the gate is started.     *)
(*                                                                         *)
(* Every element of Command is one run of the command, a process of its    *)
(* own that can be killed; the gate is another process, which can be       *)
(* restarted at any time, also while a command writes.  A library's user   *)
(* who calls draft_from_sop, approve and activate takes the same steps.    *)
(*                                                                         *)
(* A text is what a YAML file holds, and what the model of the compiler    *)
(* answers with; the words it is made of are left out.                     *)
(***************************************************************************)
EXTENDS Naturals, FiniteSets

CONSTANTS
    Command,    \* runs of "policy compile"
    Action,     \* the actions that policies govern
    Text,       \* YAML texts
    None,       \* Python's None, or no file
    Empty,      \* the text of a file that has just been truncated
    Torn,       \* a text that is no draft: the start of one, or a mix of two
    Drafted,    \* the texts the LLM may answer with
    PolicyIn,   \* the policy that a text parses to, or None
    NumFiles,   \* files are numbered in the order of their sorted names
    FileFor,    \* the file that is named for an action
    Shipped     \* the directory before any draft

File == 1 .. NumFiles

\* in_range: every min_confidence lies between 0 and 1.
Policy == [action : Action, in_range : BOOLEAN]

ASSUME AuthoringAssumption ==
    /\ None \notin Text \cup Policy
    /\ Empty \in Text /\ Torn \in Text
    /\ Drafted \subseteq Text \ {Empty, Torn}
    /\ PolicyIn \in [Text -> Policy \cup {None}]
    /\ PolicyIn[Empty] = None
    /\ NumFiles \in Nat
    /\ FileFor \in [Action -> File]
    /\ \A a, b \in Action : FileFor[a] = FileFor[b] => a = b
    /\ Shipped \in [File -> (Text \ {Empty, Torn}) \cup {None}]

VARIABLES
    stage,      \* where each command is
    draft,      \* PolicyDraft.yaml_text of each command, or None
    dir,        \* what each file of the policy directory holds, or None
    gate,       \* the process of the gate
    listing,    \* the files that from_dir has still to read
    policies,   \* PolicySet.policies, as the texts they come from
    written     \* the files written since the directory was listed

vars == <<stage, draft, dir, gate, listing, policies, written>>

gateVars == <<gate, listing, policies>>

-----------------------------------------------------------------------------
Stage == {"idle", "failed", "drafted", "inert", "approved", "opened",
          "activated", "killed"}

\* Once these stages are reached the draft carries an approver.
SignedStages == {"approved", "opened", "activated", "killed"}

Signed == {draft[c] : c \in {d \in Command : stage[d] \in SignedStages}}

\* lint_policy_yaml finds no error: the text parses, fits the schema and has no
\* confidence out of range.
LintOk(text) ==
    /\ PolicyIn[text] # None
    /\ PolicyIn[text].in_range

\* The file that activate writes.
Target(c) == FileFor[PolicyIn[draft[c]].action]

NoPolicies == [a \in Action |-> None]

Init ==
    /\ stage = [c \in Command |-> "idle"]
    /\ draft = [c \in Command |-> None]
    /\ dir = Shipped
    /\ gate = "down"
    /\ listing = {}
    /\ policies = NoPolicies
    /\ written = {}

-----------------------------------------------------------------------------
(* The command.                                                            *)

DraftFromSop(c) ==
    /\ stage[c] = "idle"
    /\ \E text \in Drafted :
          /\ draft' = [draft EXCEPT ![c] = text]
          /\ stage' = [stage EXCEPT ![c] = "drafted"]
    /\ UNCHANGED <<dir, gateVars, written>>

\* No SOP text, no key or no answer: DraftError.
DraftFails(c) ==
    /\ stage[c] = "idle"
    /\ stage' = [stage EXCEPT ![c] = "failed"]
    /\ UNCHANGED <<draft, dir, gateVars, written>>

\* The draft has errors, or the command was given no --approve or no --out.
LeaveInert(c) ==
    /\ stage[c] = "drafted"
    /\ stage' = [stage EXCEPT ![c] = "inert"]
    /\ UNCHANGED <<draft, dir, gateVars, written>>

\* Mutation of Approve: warnings and errors of the linter are both advisory.
ApproveUnlinted(c) ==
    /\ stage[c] = "drafted"
    /\ PolicyIn[draft[c]] # None
    /\ stage' = [stage EXCEPT ![c] = "approved"]
    /\ UNCHANGED <<draft, dir, gateVars, written>>

Approve(c) ==
    /\ stage[c] = "drafted"
    /\ LintOk(draft[c])
    /\ stage' = [stage EXCEPT ![c] = "approved"]
    /\ UNCHANGED <<draft, dir, gateVars, written>>

\* activate, first half of write_text: the file is truncated, or made.
OpenFile(c) ==
    /\ stage[c] = "approved"
    /\ stage' = [stage EXCEPT ![c] = "opened"]
    /\ dir' = [dir EXCEPT ![Target(c)] = Empty]
    /\ written' = written \cup {Target(c)}
    /\ UNCHANGED <<draft, gateVars>>

\* Second half: the text is written from the start of the file.  Over a text
\* that another command has written meanwhile, a longer one, its end remains.
WriteFile(c) ==
    /\ stage[c] = "opened"
    /\ stage' = [stage EXCEPT ![c] = "activated"]
    /\ \E text \in {draft[c]} \cup (IF dir[Target(c)] = Empty THEN {} ELSE {Torn}) :
          dir' = [dir EXCEPT ![Target(c)] = text]
    /\ written' = written \cup {Target(c)}
    /\ UNCHANGED <<draft, gateVars>>

\* The disk is full, or the process dies, before all of the text is written: the
\* file holds the start of it, which may parse, with fewer rules.
TearFile(c) ==
    /\ stage[c] = "opened"
    /\ stage' = [stage EXCEPT ![c] = "killed"]
    /\ dir' = [dir EXCEPT ![Target(c)] = Torn]
    /\ written' = written \cup {Target(c)}
    /\ UNCHANGED <<draft, gateVars>>

\* The process dies, or the disk is full, with the draft approved and none of
\* its text written.
Kill(c) ==
    /\ stage[c] \in {"approved", "opened"}
    /\ stage' = [stage EXCEPT ![c] = "killed"]
    /\ UNCHANGED <<draft, dir, gateVars, written>>

-----------------------------------------------------------------------------
(* The gate.                                                               *)

\* from_dir lists the directory.
StartGate ==
    /\ gate' = "loading"
    /\ listing' = {n \in File : dir[n] # None}
    /\ policies' = NoPolicies
    /\ written' = {}
    /\ UNCHANGED <<stage, draft, dir>>

IsNextFile(n) == n \in listing /\ \A m \in listing : n <= m

\* Mutation of LoadFile: the second policy of an action replaces the first.
LoadFileOver(n) ==
    /\ gate = "loading"
    /\ IsNextFile(n)
    /\ PolicyIn[dir[n]] # None
    /\ policies' = [policies EXCEPT ![PolicyIn[dir[n]].action] = dir[n]]
    /\ listing' = listing \ {n}
    /\ UNCHANGED <<stage, draft, dir, gate, written>>

\* Mutation of LoadFile: a file that does not parse is skipped.
LoadFileIfAny(n) ==
    /\ gate = "loading"
    /\ IsNextFile(n)
    /\ listing' = listing \ {n}
    /\ IF PolicyIn[dir[n]] = None THEN UNCHANGED policies
       ELSE /\ policies[PolicyIn[dir[n]].action] = None
            /\ policies' = [policies EXCEPT ![PolicyIn[dir[n]].action] = dir[n]]
    /\ UNCHANGED <<stage, draft, dir, gate, written>>

\* A text parses, and its action has no policy yet.
Fits(text) ==
    /\ PolicyIn[text] # None
    /\ policies[PolicyIn[text].action] = None

\* Mutation of LoadFile: the set is filled with the ids that files declare.
LoadFileId(n) ==
    /\ gate = "loading"
    /\ IsNextFile(n)
    /\ Fits(dir[n])
    /\ policies' = [policies EXCEPT ![PolicyIn[dir[n]].action] =
                                  PolicyIn[dir[n]].action]
    /\ listing' = listing \ {n}
    /\ UNCHANGED <<stage, draft, dir, gate, written>>

\* The next file is read, parsed and held against the ones before it.  Nothing
\* lints it: a confidence out of range passes.
LoadFile(n) ==
    /\ gate = "loading"
    /\ IsNextFile(n)
    /\ Fits(dir[n])
    /\ policies' = [policies EXCEPT ![PolicyIn[dir[n]].action] = dir[n]]
    /\ listing' = listing \ {n}
    /\ UNCHANGED <<stage, draft, dir, gate, written>>

\* The file does not parse, or its action has a policy already: from_dir raises
\* and there is no gate.
RefuseFile(n) ==
    /\ gate = "loading"
    /\ IsNextFile(n)
    /\ ~Fits(dir[n])
    /\ gate' = "refused"
    /\ UNCHANGED <<stage, draft, dir, listing, policies, written>>

FinishLoading ==
    /\ gate = "loading"
    /\ listing = {}
    /\ gate' = "up"
    /\ UNCHANGED <<stage, draft, dir, listing, policies, written>>

Next ==
    \/ \E c \in Command :
          \/ DraftFromSop(c) \/ DraftFails(c) \/ LeaveInert(c) \/ Approve(c)
          \/ OpenFile(c) \/ WriteFile(c) \/ TearFile(c) \/ Kill(c)
    \/ \E n \in File : LoadFile(n) \/ RefuseFile(n)
    \/ StartGate
    \/ FinishLoading

Spec == Init /\ [][Next]_vars

-----------------------------------------------------------------------------
(* Properties.                                                             *)

TypeOK ==
    /\ stage \in [Command -> Stage]
    /\ draft \in [Command -> Text \cup {None}]
    /\ dir \in [File -> Text \cup {None}]
    /\ gate \in {"down", "loading", "up", "refused"}
    /\ listing \subseteq File
    /\ policies \in [Action -> Text \cup {None}]
    /\ written \subseteq File

ShippedTexts == {Shipped[n] : n \in File} \ {None}

\* A policy no human has approved cannot reach enforcement (compiler.py:16):
\* whatever is killed halfway, read while it is written or written at once, the
\* gate decides by texts that were shipped, or approved without an error of the
\* linter, or torn: cut off in the middle, or mixed by two commands that
\* collided on one file.
LiveWasSigned ==
    gate = "up" => \A a \in Action : policies[a] # None =>
        \/ policies[a] \in ShippedTexts \cup {Torn}
        \/ policies[a] \in Signed /\ LintOk(policies[a])

\* A file that was shipped with a policy.
ShippedPack(n) == Shipped[n] # None /\ PolicyIn[Shipped[n]] # None

\* No shipped policy sits in a file that is named for another action.
NamesAreKept ==
    \A n \in File, a \in Action :
        (ShippedPack(n) /\ n = FileFor[a]) => PolicyIn[Shipped[n]].action = a

\* An action that was shipped with a policy stays governed: no activation,
\* finished, killed or under way, lets the gate start without one
\* (policy.py:145), as long as no text in force is torn.
ShippedStaysGoverned ==
    (gate = "up" /\ NamesAreKept /\ \A a \in Action : policies[a] # Torn) =>
        \A n \in File : ShippedPack(n) =>
            policies[PolicyIn[Shipped[n]].action] # None

\* A gate that has started has every file of its directory in force, none
\* behind another (policy.py:145), but for what was written since it listed it.
NothingIsShadowed ==
    gate = "up" => \A n \in File \ written : dir[n] # None =>
        /\ PolicyIn[dir[n]] # None
        /\ policies[PolicyIn[dir[n]].action] = dir[n]

-----------------------------------------------------------------------------
\* Anything that activates is something the engine can run (README.md:330): a
\* gate is not refused by shipped and activated files, none of them written
\* while it starts, none cut off and none torn.
ActivatedLoads ==
    (gate = "refused" /\ written = {}) =>
        \E n \in File : dir[n] \in {Empty, Torn}

=============================================================================
