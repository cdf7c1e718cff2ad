----------------------------- MODULE CommitGate -----------------------------
(***************************************************************************)
(* The jeryu-git wrapper (crates/jeryu-git-guard), the only git on an      *)
(* agent's PATH, on its way to one `git commit`.  It reads the command     *)
(* line twice: the verdict walks the leading options, denying those off    *)
(* its list, and then the arguments of the subcommand; a second walk,      *)
(* leading_subcommand, skips options of any kind and decides whether the   *)
(* audit gate is run.  Only then is the real git executed.                 *)
(*                                                                         *)
(* A token stands for those the code treats alike.  Subcommands other than *)
(* commit are allowed, denied, or decided by their own arguments; the last *)
(* are left to either outcome here.                                        *)
(***************************************************************************)
EXTENDS Integers, Sequences

CONSTANTS MaxLen  \* bound: tokens of a command line

ASSUME MaxLenAssumption == MaxLen \in Nat

Token == {"-C",          \* the global option that takes a value
          "--no-pager",  \* benign: --paginate, -P, --version, ...
          "-n",          \* a cluster of short options with an n
          "--no-verify",
          "--no-verif",  \* what git takes for --no-verify
          "--",
          "-m",          \* an option of commit with a value: -F, -c, -t, ...
          "--all",       \* any other option: --git-dir, --exec-path=, ...
          "commit",
          "status",      \* allowed local subcommands, and plain arguments
          "checkout",    \* subcommands decided by their arguments
          "push"}        \* denied and unknown subcommands

IsOption(t) == t \in {"-C", "--no-pager", "-n", "--no-verify", "--no-verif",
                      "--", "-m", "--all"}
GlobalTakesValue(t) == t = "-C"
IsBenignGlobal(t) == t = "--no-pager"
SkipsHooks(t) == t \in {"--no-verify", "-n"}

\* Whether the variables the wrapper needs are set, and what the auditor and
\* the real git do when they are started.
Env == [branch : BOOLEAN,
        auditor : {"unset", "unrunnable", "fails", "passes"},
        git : {"unset", "unrunnable", "runs"}]

VARIABLES
  argv,
  env,
  pc,
  at,      \* the token a walk is at
  sub,     \* history: where the verdict found the subcommand
  passed,  \* history: the options the verdict let pass
  audited  \* history: the audit gate was passed

vars == <<argv, env, pc, at, sub, passed, audited>>

Ended == {"denied", "exit2", "exit127", "exec"}

Init ==
  /\ argv \in UNION {[1..n -> Token] : n \in 0..MaxLen}
  /\ env \in Env
  /\ pc = "start"
  /\ at = 1
  /\ sub = 0
  /\ passed = {}
  /\ audited = FALSE

Start ==
  /\ pc = "start"
  /\ pc' = IF env.branch THEN "options" ELSE "exit2"
  /\ UNCHANGED <<argv, env, at, sub, passed, audited>>

AtOption == at <= Len(argv) /\ IsOption(argv[at])
Width == IF GlobalTakesValue(argv[at]) THEN 2 ELSE 1

-----------------------------------------------------------------------------
(* git_command_decision.                                                   *)

PassOption ==
  /\ pc = "options" /\ AtOption
  /\ GlobalTakesValue(argv[at]) \/ IsBenignGlobal(argv[at])
  /\ at' = at + Width
  /\ passed' = passed \cup {at}
  /\ UNCHANGED <<argv, env, pc, sub, audited>>

DenyOption ==
  /\ pc = "options" /\ AtOption
  /\ ~ GlobalTakesValue(argv[at]) /\ ~ IsBenignGlobal(argv[at])
  /\ pc' = "denied"
  /\ UNCHANGED <<argv, env, at, sub, passed, audited>>

\* Mutant: the arguments are taken from the subcommand on.
CommandHere ==
  /\ pc = "options" /\ ~ AtOption
  /\ sub' = at
  /\ IF at <= Len(argv) /\ argv[at] = "commit"
     THEN pc' = "commit" /\ at' = at
     ELSE \/ /\ at <= Len(argv) => argv[at] # "push"
             /\ pc' = "parse" /\ at' = 1
          \/ /\ at <= Len(argv) /\ argv[at] \in {"push", "checkout"}
             /\ pc' = "denied" /\ UNCHANGED at
  /\ UNCHANGED <<argv, env, passed, audited>>

\* Behind the options: no subcommand at all, which is allowed, or one that
\* is allowed, denied, or judged by its arguments.
Command ==
  /\ pc = "options" /\ ~ AtOption
  /\ sub' = at
  /\ IF at <= Len(argv) /\ argv[at] = "commit"
     THEN pc' = "commit" /\ at' = at + 1
     ELSE \/ /\ at <= Len(argv) => argv[at] # "push"
             /\ pc' = "parse" /\ at' = 1
          \/ /\ at <= Len(argv) /\ argv[at] \in {"push", "checkout"}
             /\ pc' = "denied" /\ UNCHANGED at
  /\ UNCHANGED <<argv, env, passed, audited>>

\* The verdict knows no values and no abbreviations: it stops at the first
\* `--` and looks for the two spellings.
CommitArgument ==
  /\ pc = "commit"
  /\ \/ /\ at <= Len(argv) => argv[at] = "--"
        /\ pc' = "parse" /\ at' = 1
     \/ /\ at <= Len(argv) /\ SkipsHooks(argv[at])
        /\ pc' = "denied" /\ UNCHANGED at
     \/ /\ at <= Len(argv) /\ argv[at] # "--" /\ ~ SkipsHooks(argv[at])
        /\ at' = at + 1 /\ UNCHANGED pc
  /\ UNCHANGED <<argv, env, sub, passed, audited>>

-----------------------------------------------------------------------------
(* The wrapper, once the verdict is to allow.                              *)

\* Mutant: the walk does not step over the value of an option.
SkipOptionOnly ==
  /\ pc = "parse" /\ AtOption
  /\ at' = at + 1
  /\ UNCHANGED <<argv, env, pc, sub, passed, audited>>

\* leading_subcommand steps over options of any kind.
SkipOption ==
  /\ pc = "parse" /\ AtOption
  /\ at' = at + Width
  /\ UNCHANGED <<argv, env, pc, sub, passed, audited>>

\* Only a commit goes through the gate.
Dispatch ==
  /\ pc = "parse" /\ ~ AtOption
  /\ pc' = IF at <= Len(argv) /\ argv[at] = "commit" THEN "gate" ELSE "ready"
  /\ UNCHANGED <<argv, env, at, sub, passed, audited>>

\* A missing or broken auditor refuses the commit, as findings do.
RunCommitGate ==
  /\ pc = "gate"
  /\ pc' = IF env.auditor = "passes" THEN "ready" ELSE "denied"
  /\ audited' = (env.auditor = "passes")
  /\ UNCHANGED <<argv, env, at, sub, passed>>

Exec ==
  /\ pc = "ready"
  /\ pc' = CASE env.git = "unset" -> "exit2"
             [] env.git = "unrunnable" -> "exit127"
             [] env.git = "runs" -> "exec"
  /\ UNCHANGED <<argv, env, at, sub, passed, audited>>

Next == \/ Start \/ PassOption \/ DenyOption \/ Command \/ CommitArgument
        \/ SkipOption \/ Dispatch \/ RunCommitGate \/ Exec

Spec == Init /\ [][Next]_vars

-----------------------------------------------------------------------------
(* Properties.                                                             *)

\* Every variable has its type; the arguments of commit are behind it.
TypeOK ==
  /\ argv \in Seq(Token)
  /\ env \in Env
  /\ pc \in {"start", "options", "commit", "parse", "gate", "ready"} \cup Ended
  /\ at \in 1..(Len(argv) + 2)
  /\ sub \in 0..(Len(argv) + 2)
  /\ passed \subseteq 1..Len(argv)
  /\ audited \in BOOLEAN
  /\ pc = "commit" => at > sub

Commits == sub \in 1..Len(argv) /\ argv[sub] = "commit"

\* How git reads the arguments of commit: an option with a value takes the
\* next token for it, whatever that is, an unambiguous beginning stands for
\* the option, and a `--` that is no value ends the options.
IsValue[n \in Nat] ==
  n > sub + 1 /\ argv[n - 1] \in {"-m", "-C"} /\ ~ IsValue[n - 1]

TurnsOffHooks(n) ==
  /\ SkipsHooks(argv[n]) \/ argv[n] = "--no-verif"
  /\ ~ IsValue[n]
  /\ \A k \in (sub + 1)..n : argv[k] = "--" => IsValue[k]

\* The two walks agree where it counts: the real git is never executed for
\* what the verdict took for a commit unless the audit gate was passed, and
\* the gate holds up nothing else (jeryu-git.rs:30-38).
AuditedCommits ==
  /\ pc = "exec" /\ Commits => audited
  /\ pc = "gate" => Commits

\* What the wrapper says of its verdict (jeryu-git.rs:29-30): a commit that
\* is executed leaves the hooks on, as git reads its arguments.  It does not
\* hold: the `--` that is the value of -m ends the verdict's search, and it
\* does not know the beginnings git accepts (decision.rs:74-86).
NeverUnverified ==
  pc = "exec" /\ Commits => \A n \in (sub + 1)..Len(argv) : ~ TurnsOffHooks(n)

\* What stands before the subcommand of a command that is executed was let
\* pass by the verdict token by token: a benign option, -C, or the value of
\* a -C that was itself let pass as an option.
OptionsVetted ==
  pc = "exec" =>
    \A n \in 1..Len(argv) : n < sub =>
      \/ n \in passed /\ (IsBenignGlobal(argv[n]) \/ GlobalTakesValue(argv[n]))
      \/ n - 1 \in passed /\ GlobalTakesValue(argv[n - 1])

=============================================================================
