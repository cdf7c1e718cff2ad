-------------------------- MODULE CommitGate_proofs --------------------------
(***************************************************************************)
(* The theorems about CommitGate, for command lines of any length and any  *)
(* environment.  The inductive invariant relates the second walk over the  *)
(* command line to the first: every token the second one can be at is one  *)
(* the first let pass as an option, or the subcommand it found.            *)
(***************************************************************************)
EXTENDS CommitGate, TLAPS

\* The verdict is reached: the walk over the options is over.
Found == pc \in {"commit", "parse", "gate", "ready", "exec"}
Walking == pc \in {"start", "options"}

\* Where the walk over the options has got to.
Front == IF Walking THEN at ELSE sub

WidthOf(n) == IF GlobalTakesValue(argv[n]) THEN 2 ELSE 1

\* Each token let pass is an option of the list, followed by another or by
\* the front.
PassedAreSteps ==
  Found \/ Walking => \A n \in passed :
    /\ IsOption(argv[n])
    /\ IsBenignGlobal(argv[n]) \/ GlobalTakesValue(argv[n])
    /\ n + WidthOf(n) \in passed \cup {Front}

\* The first token, and all up to the front, are accounted for.
AllWalked ==
  Found \/ Walking =>
    /\ 1 \in passed \cup {Front}
    /\ \A n \in 1..Len(argv) : n < Front =>
         n \in passed \/ (n - 1 \in passed /\ GlobalTakesValue(argv[n - 1]))

\* The subcommand found is no option.
SubIsNoOption ==
  Found => sub >= 1 /\ (sub <= Len(argv) => ~ IsOption(argv[sub]))

\* The second walk is at a token of the first, and comes to its subcommand.
WalksAgree ==
  /\ pc = "parse" => at \in passed \cup {sub}
  /\ pc = "gate" => at = sub /\ Commits

\* The walk over the arguments of commit is one of a commit.
OfCommit == pc = "commit" => Commits

AuditedWhenReady == pc \in {"ready", "exec"} /\ Commits => audited

IInv == /\ TypeOK /\ PassedAreSteps /\ AllWalked /\ SubIsNoOption
        /\ WalksAgree /\ OfCommit /\ AuditedWhenReady

-----------------------------------------------------------------------------
\* The wrapper starts at the first token, with nothing let pass.
LEMMA InitIInv == Init => IInv
<1> SUFFICES ASSUME Init PROVE IInv
  OBVIOUS
<1>1. argv \in Seq(Token)
  BY MaxLenAssumption DEF Init
<1>2. Len(argv) \in Nat
  BY <1>1
<1>3. at \in 1..(Len(argv) + 2) /\ sub \in 0..(Len(argv) + 2) /\ passed \subseteq 1..Len(argv)
  BY <1>2 DEF Init
<1>4. TypeOK
  BY <1>1, <1>3 DEF Init, TypeOK, Ended
<1> QED
  BY <1>4 DEF Init, IInv, PassedAreSteps, AllWalked, SubIsNoOption, WalksAgree,
     OfCommit, AuditedWhenReady, Found, Walking, Front, Commits
\* Each action preserves the invariant; the cases follow the program.
LEMMA StartIInv == IInv /\ Start => IInv'
<1> SUFFICES ASSUME IInv, Start PROVE IInv'
  OBVIOUS
<1> USE DEF IInv, Start
<1>1. TypeOK'
  BY DEF TypeOK, Ended
<1>2. PassedAreSteps' /\ AllWalked'
  <2>1. CASE env.branch
    <3>1. Front' = Front
      BY <2>1 DEF Front, Walking
    <3> QED
      BY <3>1 DEF PassedAreSteps, AllWalked, Walking, WidthOf
  <2>2. CASE ~ env.branch
    BY <2>2 DEF PassedAreSteps, AllWalked, Found, Walking
  <2> QED
    BY <2>1, <2>2
<1> QED
  BY <1>1, <1>2 DEF SubIsNoOption, WalksAgree, OfCommit, AuditedWhenReady, Found

LEMMA PassOptionIInv == IInv /\ PassOption => IInv'
<1> SUFFICES ASSUME IInv, PassOption PROVE IInv'
  OBVIOUS
<1> USE DEF IInv, PassOption, AtOption
<1>1. Width \in 1..2 /\ at \in 1..Len(argv) /\ Len(argv) \in Nat
  BY DEF TypeOK, Width
<1>2. TypeOK'
  BY <1>1 DEF TypeOK, Ended
<1>3. Front = at /\ Front' = at + Width /\ ~ Found /\ ~ Found'
  BY DEF Front, Found, Walking
<1>4. PassedAreSteps'
  BY <1>1, <1>3 DEF TypeOK, PassedAreSteps, WidthOf, Width, Walking
<1>5. AllWalked'
  <2>1. 1 \in passed' \cup {Front'}
    BY <1>3 DEF AllWalked, Walking
  <2> SUFFICES ASSUME NEW n \in 1..Len(argv), n < at + Width
               PROVE n \in passed' \/ (n - 1 \in passed' /\ GlobalTakesValue(argv[n - 1]))
    BY <1>3, <2>1 DEF AllWalked, Walking
  <2>2. CASE n < at
    BY <1>3, <2>2 DEF AllWalked, Walking
  <2>3. CASE n >= at
    BY <1>1, <2>3 DEF Width
  <2> QED
    BY <1>1, <2>2, <2>3
<1> QED
  BY <1>2, <1>3, <1>4, <1>5 DEF SubIsNoOption, WalksAgree, OfCommit, AuditedWhenReady, Found

LEMMA DenyOptionIInv == IInv /\ DenyOption => IInv'
<1> SUFFICES ASSUME IInv, DenyOption PROVE IInv'
  OBVIOUS
<1>1. TypeOK'
  BY DEF IInv, DenyOption, TypeOK, Ended
<1>2. ~ Found' /\ ~ Walking' /\ pc' = "denied"
  BY DEF DenyOption, Found, Walking
<1> QED
  BY <1>1, <1>2 DEF IInv, PassedAreSteps, AllWalked, SubIsNoOption, WalksAgree,
     OfCommit, AuditedWhenReady

LEMMA CommandIInv == IInv /\ Command => IInv'
<1> SUFFICES ASSUME IInv, Command PROVE IInv'
  OBVIOUS
<1> USE DEF IInv, Command, AtOption
<1>1. Len(argv) \in Nat /\ at \in Nat /\ at >= 1 /\ at <= Len(argv) + 2
  BY DEF TypeOK
<1>2. TypeOK'
  BY <1>1 DEF TypeOK, Ended
<1>3. Front = at /\ sub' = at /\ ~ Found /\ Walking
  BY DEF Front, Found, Walking
<1>4. CASE pc' = "denied"
  BY <1>2, <1>4 DEF PassedAreSteps, AllWalked, SubIsNoOption, WalksAgree,
     OfCommit, AuditedWhenReady, Found, Walking
<1>5. CASE pc' \in {"commit", "parse"}
  <2>1. Front' = at /\ Found' /\ ~ Walking'
    BY <1>3, <1>5 DEF Front, Found, Walking
  <2>2. PassedAreSteps' /\ AllWalked'
    BY <1>3, <2>1 DEF PassedAreSteps, AllWalked, WidthOf
  <2>3. SubIsNoOption'
    BY <1>1, <1>3 DEF SubIsNoOption
  <2>4. WalksAgree'
    BY <1>3, <1>5, <2>1, <2>2 DEF WalksAgree, AllWalked
  <2>5. OfCommit'
    <3>1. CASE at <= Len(argv) /\ argv[at] = "commit"
      <4>1. pc' = "commit" /\ at' = at + 1
        BY <3>1
      <4> QED
        BY <1>1, <1>3, <3>1, <4>1 DEF OfCommit, Commits
    <3>2. CASE ~ (at <= Len(argv) /\ argv[at] = "commit")
      <4>1. pc' # "commit" /\ ~ Commits'
        BY <1>1, <1>3, <3>2 DEF Commits
      <4> QED
        BY <4>1 DEF OfCommit
    <3> QED
      BY <3>1, <3>2
  <2> QED
    BY <1>2, <1>5, <2>2, <2>3, <2>4, <2>5 DEF AuditedWhenReady
<1> QED
  BY <1>4, <1>5

LEMMA CommitArgumentIInv == IInv /\ CommitArgument => IInv'
<1> SUFFICES ASSUME IInv, CommitArgument PROVE IInv'
  OBVIOUS
<1> USE DEF IInv, CommitArgument
<1>1. /\ Len(argv) \in Nat /\ at \in Int /\ at > sub /\ at <= Len(argv) + 2
      /\ Commits /\ Found /\ ~ Walking /\ sub \in 1..Len(argv)
  BY DEF TypeOK, OfCommit, Commits, Found, Walking
<1>3. CASE pc' = "denied"
  <2>1. TypeOK'
    BY <1>3 DEF TypeOK, Ended
  <2> QED
    BY <1>3, <2>1 DEF PassedAreSteps, AllWalked, SubIsNoOption, WalksAgree,
       OfCommit, AuditedWhenReady, Found, Walking
<1>4. CASE pc' = "parse"
  <2>1. (at <= Len(argv) => argv[at] = "--") /\ at' = 1
    BY <1>4
  <2>2. TypeOK'
    BY <1>1, <1>4, <2>1 DEF TypeOK, Ended
  <2>3. Front' = Front /\ Front = sub /\ Found' /\ ~ Walking' /\ Commits'
    BY <1>1, <1>4 DEF Front, Found, Walking, Commits
  <2>4. PassedAreSteps' /\ AllWalked' /\ SubIsNoOption' /\ WalksAgree' /\ AuditedWhenReady'
    BY <1>1, <1>4, <2>1, <2>3 DEF PassedAreSteps, AllWalked, SubIsNoOption, WalksAgree,
       AuditedWhenReady, WidthOf
  <2>6. OfCommit'
    BY <1>4 DEF OfCommit
  <2> QED
    BY <2>2, <2>4, <2>6
<1>5. CASE pc' = "commit"
  <2>1. at' = at + 1 /\ at <= Len(argv) /\ argv[at] # "--" /\ ~ SkipsHooks(argv[at])
    BY <1>5 DEF TypeOK
  <2>2. TypeOK'
    BY <1>1, <1>5, <2>1 DEF TypeOK, Ended
  <2>3. Front' = Front /\ Found' /\ ~ Walking' /\ Commits'
    BY <1>1, <1>5 DEF Front, Found, Walking, Commits
  <2>4. PassedAreSteps' /\ AllWalked' /\ SubIsNoOption' /\ WalksAgree' /\ AuditedWhenReady'
    BY <1>1, <1>5, <2>3 DEF PassedAreSteps, AllWalked, SubIsNoOption, WalksAgree,
       AuditedWhenReady, WidthOf
  <2>6. OfCommit'
    BY <2>3 DEF OfCommit
  <2> QED
    BY <2>2, <2>4, <2>6
<1> QED
  BY <1>3, <1>4, <1>5

LEMMA SkipOptionIInv == IInv /\ SkipOption => IInv'
<1> SUFFICES ASSUME IInv, SkipOption PROVE IInv'
  OBVIOUS
<1> USE DEF IInv, SkipOption, AtOption
<1>1. Width \in 1..2 /\ at \in 1..Len(argv) /\ Len(argv) \in Nat
  BY DEF TypeOK, Width
<1>2. TypeOK'
  BY <1>1 DEF TypeOK, Ended
<1>3. Front = sub /\ Front' = sub /\ Found /\ Found' /\ ~ Walking'
  BY DEF Front, Found, Walking
<1>4. at \in passed
  BY <1>1, <1>3 DEF WalksAgree, SubIsNoOption
<1>5. at' \in passed \cup {sub}
  BY <1>3, <1>4 DEF PassedAreSteps, WidthOf, Width
<1>6. PassedAreSteps' /\ AllWalked' /\ SubIsNoOption'
  BY <1>3 DEF PassedAreSteps, AllWalked, SubIsNoOption, WidthOf
<1>7. OfCommit' /\ AuditedWhenReady'
  BY <1>3 DEF OfCommit, AuditedWhenReady, Commits
<1> QED
  BY <1>2, <1>5, <1>6, <1>7 DEF WalksAgree

LEMMA DispatchIInv == IInv /\ Dispatch => IInv'
<1> SUFFICES ASSUME IInv, Dispatch PROVE IInv'
  OBVIOUS
<1> USE DEF IInv, Dispatch, AtOption
<1>1. pc' \in {"gate", "ready"} /\ Found /\ Found' /\ ~ Walking /\ ~ Walking'
  BY DEF Found, Walking
<1>2. TypeOK'
  BY <1>1 DEF TypeOK, Ended
<1>3. at = sub
  <2>1. ASSUME at \in passed PROVE FALSE
    <3>1. IsOption(argv[at])
      BY <1>1, <2>1 DEF PassedAreSteps
    <3>2. at <= Len(argv)
      BY <2>1 DEF TypeOK
    <3> QED
      BY <3>1, <3>2
  <2> QED
    BY <2>1 DEF WalksAgree
<1>4. sub \in Nat /\ sub >= 1 /\ Len(argv) \in Nat
  BY <1>1 DEF TypeOK, SubIsNoOption
<1>5. Commits <=> pc' = "gate"
  BY <1>3, <1>4 DEF Commits
<1>6. PassedAreSteps' /\ AllWalked' /\ SubIsNoOption'
  BY <1>1 DEF PassedAreSteps, AllWalked, SubIsNoOption, WidthOf, Front
<1>7. WalksAgree' /\ AuditedWhenReady'
  BY <1>1, <1>3, <1>5 DEF WalksAgree, AuditedWhenReady, Commits
<1>8. OfCommit'
  BY <1>1 DEF OfCommit, Commits
<1> QED
  BY <1>2, <1>6, <1>7, <1>8

LEMMA RunCommitGateIInv == IInv /\ RunCommitGate => IInv'
<1> SUFFICES ASSUME IInv, RunCommitGate PROVE IInv'
  OBVIOUS
<1> USE DEF IInv, RunCommitGate
<1>1. TypeOK'
  <2>1. pc' \in {"ready", "denied"} /\ audited' \in BOOLEAN
    OBVIOUS
  <2> QED
    BY <2>1 DEF TypeOK, Ended
<1>2. CASE env.auditor = "passes"
  <2>1. /\ pc' = "ready" /\ audited' /\ Found /\ Found'
        /\ ~ Walking /\ ~ Walking'
    BY <1>2 DEF Found, Walking
  <2>2. PassedAreSteps' /\ AllWalked' /\ SubIsNoOption'
    BY <2>1 DEF PassedAreSteps, AllWalked, SubIsNoOption, WidthOf, Front
  <2> QED
    BY <1>1, <2>1, <2>2 DEF WalksAgree, OfCommit, AuditedWhenReady, Commits
<1>3. CASE env.auditor # "passes"
  <2>1. pc' = "denied" /\ ~ Found' /\ ~ Walking'
    BY <1>3 DEF Found, Walking
  <2> QED
    BY <1>1, <2>1 DEF PassedAreSteps, AllWalked, SubIsNoOption, WalksAgree,
       OfCommit, AuditedWhenReady
<1> QED
  BY <1>2, <1>3

LEMMA ExecIInv == IInv /\ Exec => IInv'
<1> SUFFICES ASSUME IInv, Exec PROVE IInv'
  OBVIOUS
<1> USE DEF IInv, Exec
<1>1. pc' \in {"exit2", "exit127", "exec"}
  BY DEF TypeOK, Env
<1>2. TypeOK'
  BY <1>1 DEF TypeOK, Ended
<1>3. CASE pc' = "exec"
  <2>1. Found /\ Found' /\ ~ Walking /\ ~ Walking'
    BY <1>3 DEF Found, Walking
  <2>2. PassedAreSteps' /\ AllWalked' /\ SubIsNoOption'
    BY <2>1 DEF PassedAreSteps, AllWalked, SubIsNoOption, WidthOf, Front
  <2> QED
    BY <1>2, <1>3, <2>1, <2>2 DEF WalksAgree, OfCommit, AuditedWhenReady, Commits
<1>4. CASE pc' # "exec"
  <2>1. ~ Found' /\ ~ Walking' /\ pc' \notin {"commit", "parse", "gate", "ready", "exec"}
    BY <1>1, <1>4 DEF Found, Walking
  <2> QED
    BY <1>2, <2>1 DEF PassedAreSteps, AllWalked, SubIsNoOption, WalksAgree,
       OfCommit, AuditedWhenReady
<1> QED
  BY <1>3, <1>4

LEMMA StutterIInv == IInv /\ UNCHANGED vars => IInv'
BY DEF IInv, vars, TypeOK, PassedAreSteps, AllWalked, SubIsNoOption, WalksAgree,
   OfCommit, AuditedWhenReady, Found, Walking, Front, WidthOf, Commits

-----------------------------------------------------------------------------
\* What the two walks over the command line have seen holds at every state.
THEOREM WalksInvariant == Spec => []IInv
<1>1. IInv /\ [Next]_vars => IInv'
  BY StartIInv, PassOptionIInv, DenyOptionIInv, CommandIInv, CommitArgumentIInv,
     SkipOptionIInv, DispatchIInv, RunCommitGateIInv, ExecIInv, StutterIInv DEF Next
<1> QED
  BY InitIInv, <1>1, PTL DEF Spec

\* Every variable of the wrapper has its type, whatever the command line.
THEOREM GateTypeCorrect == Spec => []TypeOK
<1>1. IInv => TypeOK
  BY DEF IInv
<1> QED
  BY WalksInvariant, <1>1, PTL

\* No commit reaches the real git without the audit gate (jeryu-git.rs:30-38).
THEOREM AuditedCommitsHolds == Spec => []AuditedCommits
<1>1. IInv => AuditedCommits
  BY DEF IInv, AuditedCommits, AuditedWhenReady, WalksAgree
<1> QED
  BY WalksInvariant, <1>1, PTL

\* Nothing the verdict did not let pass stands before the subcommand of a
\* command that reaches the real git (decision.rs:16-40).
THEOREM OptionsVettedHolds == Spec => []OptionsVetted
<1>1. ASSUME IInv, pc = "exec", NEW n \in 1..Len(argv), n < sub
      PROVE \/ n \in passed /\ (IsBenignGlobal(argv[n]) \/ GlobalTakesValue(argv[n]))
            \/ n - 1 \in passed /\ GlobalTakesValue(argv[n - 1])
  <2>1. Found /\ Front = sub
    BY <1>1 DEF Found, Front, Walking
  <2> QED
    BY <1>1, <2>1 DEF IInv, AllWalked, PassedAreSteps
<1>2. IInv => OptionsVetted
  BY <1>1 DEF OptionsVetted
<1> QED
  BY WalksInvariant, <1>2, PTL
=============================================================================
