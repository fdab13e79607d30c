---------------------------------- MODULE Exec ----------------------------------
(*****************************************************************************)
(* `cft exec <name> -- <command>`: reads one token from the Keychain, which  *)
(* other commands are changing, and replaces itself by the command with the  *)
(* token in its environment.  An environment is a sequence of entries, in    *)
(* which a variable may occur more than once.  Everything else the Keychain  *)
(* is asked for is as in KeychainStore.                                      *)
(*****************************************************************************)
EXTENDS KeychainStore, Integers

CONSTANTS
  EnvName,       \* "CLOUDFLARE_API_TOKEN"
  Environment,   \* [name, value]: what an entry may be
  Commands,      \* what may be run: the argv
  Invocations,   \* [before, dash, argv, env]: arguments before the "--", whether
                 \* there is one, those after it, os.Environ()
  NoCommand      \* not an exec, or nothing run yet

ASSUME InvocationsAreTyped ==
  /\ \A v \in Values : [name |-> EnvName, value |-> v] \in Environment
  /\ \A c \in Commands : c \in Seq(STRING)
  /\ Invocations \subseteq
       [before : Nat, dash : BOOLEAN, argv : Commands, env : Seq(Environment)]
  /\ "error" \notin Values /\ "killed" \notin Values /\ NoCommand \notin Invocations
  /\ NoCommand \notin [argv : Commands, env : Seq(Environment)]

VARIABLES
  asked,     \* the invocation of each client that is an exec
  child,     \* the command it became: [argv, env]
  held       \* history: per secret the values it has had

execVars == <<vars, asked, child, held>>

(* exec reads a managed token; so does apply, to see whether it is there.    *)
ReadsToken(o) == o.kind = "get" /\ o.key.service = "tokens"

ExecInit ==
  /\ Init
  /\ asked \in [Clients -> Invocations \cup {NoCommand}]
  /\ \A c \in Clients : asked[c] # NoCommand => ReadsToken(op[c])
  /\ child = [c \in Clients |-> NoCommand]
  /\ held = [k \in Keys |-> {item[Item(k)]} \cap Values]

(* splitExecArgs: one name, the separator, at least one word after it.       *)
DashIndex(a) == IF a.dash THEN a.before ELSE -1
WellFormed(a) == DashIndex(a) = 1 /\ Len(a.argv) > 0

(* Mutant of BuildEnv: the variable is appended and what it was is left.     *)
BuildEnv_Appends(base, value) == Append(base, [name |-> EnvName, value |-> value])

(* Every entry of the variable gets the value; there is one at least.        *)
BuildEnv(base, value) ==
  LET given == [name |-> EnvName, value |-> value]
      out == [i \in 1..Len(base) |-> IF base[i].name = EnvName THEN given ELSE base[i]]
  IN IF \E i \in 1..Len(base) : base[i].name = EnvName THEN out ELSE Append(out, given)

(* Malformed arguments and a name the index does not have end the command    *)
(* before the Keychain is asked.                                             *)
Refuse(c) ==
  /\ asked[c] # NoCommand /\ pc[c] = "query"
  /\ Return(c, "error") /\ UNCHANGED <<item, op, listed>>

ReadSecret(c) ==
  (asked[c] # NoCommand => WellFormed(asked[c])) /\ QueryItem(c)

(* What a Set was given is, once stored, a value its secret has had.         *)
Remember(c) == held' = [held EXCEPT ![op[c].key] =
  IF op[c].kind = "set" THEN @ \cup ({op[c].data} \cap {item'[At(c)]}) ELSE @]

(* syscall.Exec; if it fails, or the command is not found, nothing is run.   *)
Run(c) ==
  /\ asked[c] # NoCommand /\ child[c] = NoCommand
  /\ pc[c] = "done" /\ outcome[c] \in Values
  /\ child' = [child EXCEPT ![c] =
       [argv |-> asked[c].argv, env |-> BuildEnv(asked[c].env, outcome[c])]]
  /\ UNCHANGED <<vars, asked, held>>

ExecNext == \E c \in Clients :
  \/ Run(c)
  \/ /\ \/ ReadSecret(c) \/ Refuse(c) \/ AddItem(c) \/ UpdateItem(c) \/ DeleteItem(c)
        \/ CreateItem(c) \/ MatchItems(c) \/ Stop(c)
     /\ Remember(c) /\ UNCHANGED <<asked, child>>

ExecSpec == ExecInit /\ [][ExecNext]_execVars

-------------------------------------------------------------------------------
(* The command runs with a value its own secret has had, never another       *)
(* profile's or token's and never the caller's: every entry of the variable  *)
(* has it and there is one; the other entries stay as and where they are,    *)
(* and the command is what followed the "--" (exec.go:34-38, 85-86).         *)
HasToken(env, v) ==
  /\ \E i \in 1..Len(env) : env[i].name = EnvName
  /\ \A i \in 1..Len(env) : env[i].name = EnvName => env[i].value = v
KeepsTheRest(base, env) ==
  /\ Len(env) \in {Len(base), Len(base) + 1}
  /\ \A i \in 1..Len(base) : IF base[i].name = EnvName THEN env[i].name = EnvName
                                                       ELSE env[i] = base[i]
ChildHasItsToken == \A c \in Clients : child[c] # NoCommand =>
  /\ \E v \in held[op[c].key] : HasToken(child[c].env, v)
  /\ KeepsTheRest(asked[c].env, child[c].env)
  /\ Len(child[c].argv) > 0
=================================================================================
