---------------------------- MODULE TokenLifecycle ----------------------------
(*****************************************************************************)
(* The life of the managed tokens of one profile.  Every cft invocation is   *)
(* an operating-system process of its own; the invocations share three       *)
(* stores that no transaction covers: Cloudflare's tokens (remote), the      *)
(* macOS Keychain (keychain) and the index file (index).  Only the index     *)
(* file has a lock, an advisory flock, and only `apply` and the last step    *)
(* of `delete` take it: rotate, exec and the start of delete read the file   *)
(* without it.                                                               *)
(*                                                                           *)
(* One action is one call that leaves the process: a Cloudflare request, a   *)
(* Keychain call, one system call on the index file, an answer at the        *)
(* prompt.  A token's policy, scope and expiry are left out; the value of    *)
(* a token is the pair of its ID and the number of the issue it came from.   *)
(*****************************************************************************)
EXTENDS Naturals, Sequences, FiniteSets

CONSTANTS
  Procs,        \* the invocations; each runs one command and ends
  Names,        \* token names
  Ids,          \* IDs Cloudflare can give out (bounds the number of creates)
  SpecLists,    \* the name lists that spec files handed to apply can hold
  Seeds,        \* the starts: what exists at Cloudflare, what the index knows
  CommandsOf,   \* the commands each invocation may turn out to be
  MaxRetries,   \* extra attempts of the SDK after an unanswered request
  Faults,       \* which calls may fail: "api", "keychain", "file"
  Crashes,      \* whether an invocation may be killed
  Dashboard,    \* whether tokens may be deleted outside cft
  NoProc, NoId, NoName, NoSecret

Commands == {"apply", "dryrun", "rotate", "delete", "exec"}
FaultKinds == {"api", "keychain", "file"}
Entries == [Names -> Ids \cup {NoId}]
Secrets == [id : Ids, ver : Nat]
Actions == [op : {"create", "update", "adopt"}, id : Ids \cup {NoId}]
PCs == {"idle", "lock", "plan", "exec", "check", "keep", "commit", "write",
        "confirm", "call", "store", "forget", "fetch",
        "ok", "failed", "aborted", "crashed"}
Tokens == [status : {"unused", "live", "deleted"}, name : Names \cup {NoName}, ver : Nat]

ASSUME SentinelsAreFresh ==
  NoProc \notin Procs /\ NoId \notin Ids /\ NoName \notin Names /\ NoSecret \notin Secrets

ASSUME InputsAreTyped ==
  /\ SpecLists \subseteq Seq(Names)
  /\ CommandsOf \in [Procs -> SUBSET Commands]
  /\ MaxRetries \in Nat
  /\ Faults \subseteq FaultKinds
  /\ Crashes \in BOOLEAN /\ Dashboard \in BOOLEAN

(* A seed gives each name at most one token, and no ID to two names.         *)
ASSUME SeedsAreConsistent ==
  \A s \in Seeds :
    /\ s.token \in Entries /\ s.known \subseteq Names
    /\ \A m, n \in Names : s.token[m] = s.token[n] /\ m # n => s.token[m] = NoId

VARIABLES
  remote,    \* Cloudflare: per ID its status, name and current issue
  keychain,  \* per name the stored value, or NoSecret
  index,     \* the entries of the index file: per name an ID or NoId
  torn,      \* whether the file is a part of an index, which nobody can decode
  lock,      \* the process that holds the flock, or NoProc
  pc,        \* where each process is
  cmd, args, \* what it was asked to do
  target,    \* entry.ID, read from the index before the prompt
  mem,       \* the Index decoded under the lock, mutated by the callback
  plan,      \* the actions buildPlan chose so far
  applied,   \* how many of them executePlan has finished
  value,     \* a freshly issued value not yet in the Keychain
  tries      \* attempts of the current request that went unanswered

file == <<index, torn>>
world == <<remote, keychain, file>>
procVars == <<lock, pc, cmd, args, target, mem, plan, applied, value, tries>>
vars == <<world, procVars>>

Unused == [status |-> "unused", name |-> NoName, ver |-> 0]
NoEntries == [n \in Names |-> NoId]
Ended == {"ok", "failed", "aborted", "crashed"}

(* The tokens a listing filtered by exact name returns.                      *)
ResolveTokensByName(n) ==
  {id \in Ids : remote[id].status = "live" /\ remote[id].name = n}

-------------------------------------------------------------------------------
Init ==
  /\ \E s \in Seeds :
       /\ remote = [id \in Ids |->
            IF \E n \in Names : s.token[n] = id
            THEN [status |-> "live", name |-> CHOOSE n \in Names : s.token[n] = id, ver |-> 1]
            ELSE Unused]
       /\ index = [n \in Names |-> IF n \in s.known THEN s.token[n] ELSE NoId]
       /\ keychain = [n \in Names |->
            IF n \in s.known /\ s.token[n] # NoId
            THEN [id |-> s.token[n], ver |-> 1] ELSE NoSecret]
  /\ torn = FALSE /\ lock = NoProc
  /\ pc = [p \in Procs |-> "idle"]
  /\ cmd = [p \in Procs |-> "none"] /\ args = [p \in Procs |-> <<>>]
  /\ target = [p \in Procs |-> NoId] /\ mem = [p \in Procs |-> NoEntries]
  /\ plan = [p \in Procs |-> <<>>] /\ applied = [p \in Procs |-> 0]
  /\ value = [p \in Procs |-> NoSecret] /\ tries = [p \in Procs |-> 0]

Goto(p, s) == pc' = [pc EXCEPT ![p] = s]

(* Mutant of Exit: an error return that forgets to unlock.                   *)
Exit_KeepsLock(p, s) ==
  /\ Goto(p, s)
  /\ lock' = IF lock = p /\ s # "failed" THEN NoProc ELSE lock
  /\ cmd' = [cmd EXCEPT ![p] = "none"] /\ args' = [args EXCEPT ![p] = <<>>]
  /\ target' = [target EXCEPT ![p] = NoId] /\ mem' = [mem EXCEPT ![p] = NoEntries]
  /\ plan' = [plan EXCEPT ![p] = <<>>] /\ applied' = [applied EXCEPT ![p] = 0]
  /\ value' = [value EXCEPT ![p] = NoSecret] /\ tries' = [tries EXCEPT ![p] = 0]

(* The process ends: its memory is gone and closing the file drops the       *)
(* flock it may hold.                                                        *)
Exit(p, s) ==
  /\ Goto(p, s)
  /\ lock' = IF lock = p THEN NoProc ELSE lock
  /\ cmd' = [cmd EXCEPT ![p] = "none"] /\ args' = [args EXCEPT ![p] = <<>>]
  /\ target' = [target EXCEPT ![p] = NoId] /\ mem' = [mem EXCEPT ![p] = NoEntries]
  /\ plan' = [plan EXCEPT ![p] = <<>>] /\ applied' = [applied EXCEPT ![p] = 0]
  /\ value' = [value EXCEPT ![p] = NoSecret] /\ tries' = [tries EXCEPT ![p] = 0]

Name(p) == args[p][1]                  \* of rotate, delete and exec
Item(p) == args[p][applied[p] + 1]     \* the spec executePlan is at
Step(p) == plan[p][applied[p] + 1]     \* and its action
Executing(p, op) ==
  pc[p] = "exec" /\ applied[p] < Len(plan[p]) /\ Step(p).op = op

(* Mutant of StepFailed: no PartialError.                                    *)
StepFailed_AllOrNothing(p) == Exit(p, "failed")

(* How an error of the current call ends the command.  executePlan turns     *)
(* it into a PartialError once something succeeded, so that WithLock still   *)
(* writes the index; any other error leaves the file alone.                  *)
StepFailed(p) ==
  IF pc[p] \in {"exec", "keep"} /\ applied[p] > 0
  THEN /\ Goto(p, "commit")
       /\ value' = [value EXCEPT ![p] = NoSecret] /\ tries' = [tries EXCEPT ![p] = 0]
       /\ UNCHANGED <<lock, cmd, args, target, mem, plan, applied>>
  ELSE Exit(p, "failed")

(* A request whose answer arrives, and one that took effect but whose        *)
(* answer was lost: the SDK sends it again until its retries are used up.    *)
Answered(p, s, v) ==
  /\ Goto(p, s)
  /\ value' = [value EXCEPT ![p] = v] /\ tries' = [tries EXCEPT ![p] = 0]
  /\ UNCHANGED <<lock, cmd, args, target, mem, plan, applied>>

Unanswered(p) ==
  /\ "api" \in Faults
  /\ IF tries[p] < MaxRetries
     THEN /\ tries' = [tries EXCEPT ![p] = @ + 1]
          /\ UNCHANGED <<lock, pc, cmd, args, target, mem, plan, applied, value>>
     ELSE StepFailed(p)

-------------------------------------------------------------------------------
(* cft apply                                                                 *)

(* Mutant of ValidateAll: the specs are only checked one by one.             *)
ValidateAll_EachAlone(l) == TRUE

(* ValidateAll refuses two specs of one name before anything else runs.  The *)
(* load that follows, for the profile, refuses a torn file.                  *)
ValidateAll(l) == \A i, j \in DOMAIN l : l[i] = l[j] => i = j

StartApply(p) ==
  /\ pc[p] = "idle"
  /\ \E c \in CommandsOf[p] \cap {"apply", "dryrun"}, l \in SpecLists :
       IF ValidateAll(l) /\ ~torn
       THEN /\ cmd' = [cmd EXCEPT ![p] = c] /\ args' = [args EXCEPT ![p] = l]
            /\ Goto(p, "lock")
            /\ UNCHANGED <<lock, target, mem, plan, applied, value, tries>>
       ELSE Exit(p, "failed")
  /\ UNCHANGED world

(* Mutant of Acquire: nobody waits for the flock.                            *)
Acquire_NoFlock(p) ==
  /\ pc[p] = "lock"
  /\ \/ torn /\ Exit(p, "failed")
     \/ /\ ~torn /\ lock' = p
        /\ IF cmd[p] = "delete"
           THEN /\ mem' = [mem EXCEPT ![p] = [index EXCEPT ![Name(p)] = NoId]]
                /\ Goto(p, "commit")
           ELSE /\ mem' = [mem EXCEPT ![p] = index]
                /\ Goto(p, "plan")
        /\ UNCHANGED <<cmd, args, target, plan, applied, value, tries>>
  /\ UNCHANGED world

(* flock granted and file decoded; a torn file ends the command.  The        *)
(* callback of delete is only an in-memory removal, the one of apply starts  *)
(* planning.                                                                 *)
Acquire(p) ==
  /\ pc[p] = "lock" /\ lock = NoProc
  /\ \/ torn /\ Exit(p, "failed")
     \/ /\ ~torn /\ lock' = p
        /\ IF cmd[p] = "delete"
           THEN /\ mem' = [mem EXCEPT ![p] = [index EXCEPT ![Name(p)] = NoId]]
                /\ Goto(p, "commit")
           ELSE /\ mem' = [mem EXCEPT ![p] = index]
                /\ Goto(p, "plan")
        /\ UNCHANGED <<cmd, args, target, plan, applied, value, tries>>
  /\ UNCHANGED world

(* Mutant of Decision: a name the index misses is created unseen.            *)
Decision_NoLookup(p, n) ==
  IF mem[p][n] # NoId THEN {[op |-> "update", id |-> mem[p][n]]}
                      ELSE {[op |-> "create", id |-> NoId]}

(* An entry of the index is updated in place; for a name it misses the       *)
(* remote tokens of that name decide.                                        *)
Decision(p, n) ==
  LET found == ResolveTokensByName(n) IN
  CASE mem[p][n] # NoId        -> {[op |-> "update", id |-> mem[p][n]]}
    [] mem[p][n] = NoId /\ found = {}
                               -> {[op |-> "create", id |-> NoId]}
    [] OTHER                   -> {[op |-> "adopt", id |-> id] :
                                     id \in {i \in found : found = {i}}}

(* One round of buildPlan's loop; two remote tokens of one name end it.      *)
BuildPlan(p) ==
  /\ pc[p] = "plan" /\ Len(plan[p]) < Len(args[p])
  /\ LET found == Decision(p, args[p][Len(plan[p]) + 1]) IN
     \/ \E a \in found :
          /\ plan' = [plan EXCEPT ![p] = Append(@, a)]
          /\ UNCHANGED <<lock, pc, cmd, args, target, mem, applied, value, tries>>
     \/ found = {} /\ Exit(p, "failed")
  /\ UNCHANGED world

(* The plan is printed; a dry run returns nil from the callback here, and    *)
(* WithLock then writes the index it read back to the file.                  *)
PlanReady(p) ==
  /\ pc[p] = "plan" /\ Len(plan[p]) = Len(args[p])
  /\ Goto(p, IF cmd[p] = "dryrun" THEN "commit" ELSE "exec")
  /\ UNCHANGED <<world, lock, cmd, args, target, mem, plan, applied, value, tries>>

CreateToken(p) ==
  /\ Executing(p, "create")
  /\ \E id \in Ids :
       /\ remote[id].status = "unused"
       /\ remote' = [remote EXCEPT ![id] = [status |-> "live", name |-> Item(p), ver |-> 1]]
       /\ Answered(p, "keep", [id |-> id, ver |-> 1]) \/ Unanswered(p)
  /\ UNCHANGED <<keychain, file>>

(* Mutants of StoreCreated: the value recorded as the ID; the first name     *)
(* for every value; no entry.                                                *)
StoreCreated_ValueAsId(p) ==
  /\ pc[p] = "keep"
  /\ keychain' = [keychain EXCEPT ![Item(p)] = value[p]]
  /\ mem' = [mem EXCEPT ![p][Item(p)] = value[p]]
  /\ applied' = [applied EXCEPT ![p] = @ + 1]
  /\ value' = [value EXCEPT ![p] = NoSecret]
  /\ Goto(p, "exec")
  /\ UNCHANGED <<remote, file, lock, cmd, args, target, plan, tries>>

StoreCreated_FirstName(p) ==
  /\ pc[p] = "keep"
  /\ keychain' = [keychain EXCEPT ![args[p][1]] = value[p]]
  /\ mem' = [mem EXCEPT ![p][Item(p)] = value[p].id]
  /\ applied' = [applied EXCEPT ![p] = @ + 1]
  /\ value' = [value EXCEPT ![p] = NoSecret]
  /\ Goto(p, "exec")
  /\ UNCHANGED <<remote, file, lock, cmd, args, target, plan, tries>>

StoreCreated_NoEntry(p) ==
  /\ pc[p] = "keep"
  /\ keychain' = [keychain EXCEPT ![Item(p)] = value[p]]
  /\ applied' = [applied EXCEPT ![p] = @ + 1]
  /\ value' = [value EXCEPT ![p] = NoSecret]
  /\ Goto(p, "exec")
  /\ UNCHANGED <<remote, file, lock, cmd, args, target, mem, plan, tries>>

(* The only copy of the value goes to the Keychain, then the entry to mem.   *)
StoreCreated(p) ==
  /\ pc[p] = "keep"
  /\ keychain' = [keychain EXCEPT ![Item(p)] = value[p]]
  /\ mem' = [mem EXCEPT ![p][Item(p)] = value[p].id]
  /\ applied' = [applied EXCEPT ![p] = @ + 1]
  /\ value' = [value EXCEPT ![p] = NoSecret]
  /\ Goto(p, "exec")
  /\ UNCHANGED <<remote, file, lock, cmd, args, target, plan, tries>>

(* The entry goes to mem, and the loop to the next action.                   *)
RecordEntry(p) ==
  /\ mem' = [mem EXCEPT ![p][Item(p)] = Step(p).id]
  /\ applied' = [applied EXCEPT ![p] = @ + 1]
  /\ tries' = [tries EXCEPT ![p] = 0]
  /\ Goto(p, "exec")
  /\ UNCHANGED <<lock, cmd, args, target, plan, value>>

(* Update and adopt send the spec to a known ID; the value is not touched.   *)
(* An ID that is gone answers 404.                                           *)
UpdateToken(p) ==
  /\ Executing(p, "update") \/ Executing(p, "adopt")
  /\ IF remote[Step(p).id].status = "live"
     THEN /\ remote' = [remote EXCEPT ![Step(p).id].name = Item(p)]
          /\ \/ Step(p).op = "update" /\ Answered(p, "check", NoSecret)
             \/ Step(p).op = "adopt" /\ RecordEntry(p)
             \/ Unanswered(p)
     ELSE StepFailed(p) /\ UNCHANGED remote
  /\ UNCHANGED <<keychain, file>>

(* After an update the Keychain is read, only to warn if it has no value:    *)
(* an error of the read is ignored, but it may ask the user, lock in hand.   *)
CheckSecret(p) ==
  /\ pc[p] = "check" /\ RecordEntry(p)
  /\ UNCHANGED world

PlanExecuted(p) ==
  /\ pc[p] = "exec" /\ applied[p] = Len(plan[p])
  /\ Goto(p, "commit")
  /\ UNCHANGED <<world, lock, cmd, args, target, mem, plan, applied, value, tries>>

-------------------------------------------------------------------------------
(* rewrite: the file is emptied in place, then written.  Between the two a   *)
(* reader finds an empty file, which decodes as an empty index.              *)

Truncate(p) ==
  /\ pc[p] = "commit"
  /\ index' = NoEntries
  /\ Goto(p, "write")
  /\ UNCHANGED <<remote, keychain, torn, lock, cmd, args, target, mem, plan, applied, value, tries>>

Write(p) ==
  /\ pc[p] = "write"
  /\ index' = mem[p]
  /\ Exit(p, IF cmd[p] = "apply" /\ applied[p] < Len(args[p]) THEN "failed" ELSE "ok")
  /\ UNCHANGED <<remote, keychain, torn>>

(* A write that an error or a kill cuts short puts nothing into the file, a  *)
(* part, or everything, when only the sync is missing.                       *)
CutShort(p) ==
  \/ index' \in {index, mem[p]} /\ UNCHANGED torn
  \/ torn' = TRUE /\ UNCHANGED index

WriteFails(p) ==
  /\ pc[p] = "write" /\ "file" \in Faults
  /\ CutShort(p)
  /\ Exit(p, "failed")
  /\ UNCHANGED <<remote, keychain>>

-------------------------------------------------------------------------------
(* cft rotate, cft delete and cft exec start from an unlocked Load.          *)

StartOnToken(p) ==
  /\ pc[p] = "idle"
  /\ \E c \in CommandsOf[p] \cap {"rotate", "delete", "exec"}, n \in Names :
       IF torn \/ index[n] = NoId
       THEN Exit(p, "failed")
       ELSE /\ cmd' = [cmd EXCEPT ![p] = c] /\ args' = [args EXCEPT ![p] = <<n>>]
            /\ target' = [target EXCEPT ![p] = index[n]]
            /\ Goto(p, IF c = "exec" THEN "fetch" ELSE "confirm")
            /\ UNCHANGED <<lock, mem, plan, applied, value, tries>>
  /\ UNCHANGED world

(* Mutant of Confirm: the Keychain value is removed before the token.        *)
Confirm_ForgetFirst(p) ==
  /\ pc[p] = "confirm"
  /\ \/ /\ Goto(p, IF cmd[p] = "delete" THEN "forget" ELSE "call")
        /\ UNCHANGED <<lock, cmd, args, target, mem, plan, applied, value, tries>>
     \/ Exit(p, "aborted")
  /\ UNCHANGED world

Confirm(p) ==
  /\ pc[p] = "confirm"
  /\ \/ /\ Goto(p, "call")
        /\ UNCHANGED <<lock, cmd, args, target, mem, plan, applied, value, tries>>
     \/ Exit(p, "aborted")
  /\ UNCHANGED world

(* Mutant of RollToken: the value it had is returned, not the rolled one.    *)
RollToken_OldValue(p) ==
  /\ pc[p] = "call" /\ cmd[p] = "rotate"
  /\ LET t == remote[target[p]] IN
     IF t.status = "live"
     THEN /\ remote' = [remote EXCEPT ![target[p]].ver = @ + 1]
          /\ \/ Answered(p, "store", [id |-> target[p], ver |-> t.ver])
             \/ Unanswered(p)
     ELSE Exit(p, "failed") /\ UNCHANGED remote
  /\ UNCHANGED <<keychain, file>>

RollToken(p) ==
  /\ pc[p] = "call" /\ cmd[p] = "rotate"
  /\ LET t == remote[target[p]] IN
     IF t.status = "live"
     THEN /\ remote' = [remote EXCEPT ![target[p]].ver = @ + 1]
          /\ \/ Answered(p, "store", [id |-> target[p], ver |-> t.ver + 1])
             \/ Unanswered(p)
     ELSE Exit(p, "failed") /\ UNCHANGED remote
  /\ UNCHANGED <<keychain, file>>

StoreRolled(p) ==
  /\ pc[p] = "store"
  /\ keychain' = [keychain EXCEPT ![Name(p)] = value[p]]
  /\ Exit(p, "ok")
  /\ UNCHANGED <<remote, file>>

(* A 404 counts as done.                                                     *)
DeleteToken(p) ==
  /\ pc[p] = "call" /\ cmd[p] = "delete"
  /\ IF remote[target[p]].status = "live"
     THEN /\ remote' = [remote EXCEPT ![target[p]].status = "deleted"]
          /\ Answered(p, "forget", NoSecret) \/ Unanswered(p)
     ELSE Answered(p, "forget", NoSecret) /\ UNCHANGED remote
  /\ UNCHANGED <<keychain, file>>

DeleteSecret(p) ==
  /\ pc[p] = "forget"
  /\ keychain' = [keychain EXCEPT ![Name(p)] = NoSecret]
  /\ Goto(p, "lock")
  /\ UNCHANGED <<remote, file, lock, cmd, args, target, mem, plan, applied, value, tries>>

(* exec reads the value and becomes the child process.                       *)
FetchSecret(p) ==
  /\ pc[p] = "fetch"
  /\ Exit(p, IF keychain[Name(p)] = NoSecret THEN "failed" ELSE "ok")
  /\ UNCHANGED world

-------------------------------------------------------------------------------
(* Calls that fail without effect, kills, and the Cloudflare dashboard.      *)

Requests(p) ==        \* p is about to send a request, or waits for its answer
  \/ pc[p] = "call"
  \/ pc[p] = "plan" /\ Len(plan[p]) < Len(args[p])
  \/ pc[p] = "exec" /\ applied[p] < Len(plan[p])

CanFail(p) ==
  \/ "api" \in Faults /\ Requests(p)
  \/ "keychain" \in Faults /\ pc[p] \in {"keep", "store", "forget", "confirm", "fetch"}
  \/ "file" \in Faults /\ pc[p] \in {"lock", "commit"}

CallFails(p) == CanFail(p) /\ StepFailed(p) /\ UNCHANGED world

Crash(p) ==
  /\ Crashes /\ pc[p] \notin Ended \cup {"idle"}
  /\ IF pc[p] = "write" THEN CutShort(p) ELSE UNCHANGED file
  /\ Exit(p, "crashed")
  /\ UNCHANGED <<remote, keychain>>

(* Only a user can do away with a torn file, and then no index is left.      *)
(* This one waits until no command is about to open it.                      *)
RemoveTorn ==
  /\ torn /\ \A p \in Procs : pc[p] # "lock" /\ lock # p
  /\ torn' = FALSE
  /\ UNCHANGED <<remote, keychain, index, procVars>>

DashboardDelete ==
  /\ Dashboard
  /\ \E id \in Ids :
       /\ remote[id].status = "live"
       /\ remote' = [remote EXCEPT ![id].status = "deleted"]
  /\ UNCHANGED <<keychain, file, procVars>>

(* What a process does by itself, and what needs an answer: of Cloudflare,   *)
(* or of the Keychain, which may ask the user for Touch ID or a password.    *)
Work(p) ==
  \/ Acquire(p) \/ PlanReady(p) \/ PlanExecuted(p) \/ Truncate(p) \/ Write(p)
Call(p) ==
  \/ BuildPlan(p) \/ CreateToken(p) \/ StoreCreated(p) \/ UpdateToken(p) \/ CheckSecret(p)
  \/ RollToken(p) \/ StoreRolled(p) \/ DeleteToken(p) \/ DeleteSecret(p) \/ FetchSecret(p)

Next ==
  \/ \E p \in Procs :
       \/ StartApply(p) \/ StartOnToken(p) \/ Confirm(p) \/ Work(p) \/ Call(p)
       \/ CallFails(p) \/ WriteFails(p) \/ Crash(p)
  \/ DashboardDelete \/ RemoveTorn

Spec == Init /\ [][Next]_vars

(* A process goes on with what it does by itself, and gets a free lock; that *)
(* a call returns or that a user answers is not assumed.                     *)
FairSpec == Spec /\ \A p \in Procs : WF_vars(Work(p))
-------------------------------------------------------------------------------
(* Properties                                                                *)

(* The variables keep their types; in particular the index and the decoded   *)
(* copies of it hold IDs, the Keychain values (index.go:59, keychain.go).    *)
TypeOK ==
  /\ remote \in [Ids -> Tokens]
  /\ keychain \in [Names -> Secrets \cup {NoSecret}]
  /\ index \in Entries /\ torn \in BOOLEAN
  /\ lock \in Procs \cup {NoProc}
  /\ pc \in [Procs -> PCs]
  /\ cmd \in [Procs -> Commands \cup {"none"}]
  /\ args \in [Procs -> Seq(Names)]
  /\ target \in [Procs -> Ids \cup {NoId}]
  /\ mem \in [Procs -> Entries]
  /\ plan \in [Procs -> Seq(Actions)]
  /\ applied \in [Procs -> Nat]
  /\ value \in [Procs -> Secrets \cup {NoSecret}]
  /\ tries \in [Procs -> Nat]

Quiet == \A p \in Procs : pc[p] \in Ended \cup {"idle"}
Holds(p) == pc[p] \in {"plan", "exec", "check", "keep", "commit", "write"}

(* However applies, rotations, deletions, crashes and failures interleave,   *)
(* Cloudflare never has two live tokens of one managed name, as long as no   *)
(* request is sent twice: what buildPlan saw is still true when the create   *)
(* it planned is sent (apply.go:114-126, "a concurrent apply cannot race     *)
(* index reads against our cfapi mutations").                                *)
OneTokenPerName ==
  \A n \in Names : \A i, j \in ResolveTokensByName(n) : i = j

(* The index never points at one token of a name while another token of      *)
(* that name is alive: an entry may be stale (its token deleted), but it     *)
(* never hides a live token from update, rotate and delete (apply.go:161).   *)
IndexNotShadowed ==
  \A n \in Names : index[n] # NoId => ResolveTokensByName(n) \subseteq {index[n]}

(* A stored value was issued for a token of the very name it is stored       *)
(* under, whichever command stored it last, so exec never hands a child      *)
(* the secret of another token (apply.go:237, rotate.go:87, exec.go:55).     *)
SecretProvenance ==
  \A n \in Names : keychain[n] # NoSecret =>
    /\ remote[keychain[n].id].name = n
    /\ keychain[n].ver <= remote[keychain[n].id].ver

(* After any mix of crashes and failures of apply, rotate and exec, a new    *)
(* apply of any specs goes through as long as the file is not torn, or once  *)
(* someone removed it: an indexed name still has its token, and one that is  *)
(* not, or no longer, indexed has at most one to adopt (apply.go:161-180,    *)
(* index.go:199-202).                                                        *)
ApplyWouldSucceed ==
  ~torn => \A n \in Names :
    IF index[n] # NoId
    THEN index[n] \in ResolveTokensByName(n)
    ELSE Cardinality(ResolveTokensByName(n)) <= 1

(* What an apply is about to write is the file it read, with exactly the     *)
(* entries of the actions that went through replaced by tokens of their      *)
(* names; what a delete is about to write is the file less one entry.        *)
(* Nobody else's commit is overwritten (index.go:182-213, apply.go:217).     *)
CommitIsExact ==
  \A p \in Procs : pc[p] = "commit" =>
    LET done == IF cmd[p] = "delete" THEN {} ELSE {args[p][j] : j \in 1..applied[p]} IN
    \A n \in Names :
      CASE n \in done -> mem[p][n] # NoId /\ remote[mem[p][n]].name = n
        [] n \notin done /\ cmd[p] = "delete" /\ n = Name(p) -> mem[p][n] = NoId
        [] OTHER -> mem[p][n] = index[n]

(* Whenever the lock is free, every value in the Keychain belongs to a       *)
(* name the index knows, whatever requests and Keychain calls failed on      *)
(* the way: this is what PartialError is for (index.go:33-38).  A process    *)
(* killed between the Keychain and the index is beyond it.                   *)
NoForgottenSecret ==
  lock = NoProc /\ (\A p \in Procs : pc[p] # "crashed") =>
    \A n \in Names : keychain[n] # NoSecret => index[n] # NoId

(* When every command has ended, each live token of a managed name is the    *)
(* one the index records: local state has not drifted (delete.go:45).        *)
NoLostToken ==
  Quiet => \A id \in Ids : remote[id].status = "live" => index[remote[id].name] = id

(* When every command has ended, a stored value of a live token is the       *)
(* value Cloudflare accepts, not an older issue of it (rotate.go:42-44).     *)
KeychainIsCurrent ==
  Quiet => \A n \in Names :
    keychain[n] # NoSecret /\ remote[keychain[n].id].status = "live"
      => keychain[n].ver = remote[keychain[n].id].ver

(* ManagedTokens from outside: the IDs each name had, those that exist, and  *)
(* the index, which is the committed copy from the moment rewrite starts.    *)
IssuedTo == [n \in Names |-> {id \in Ids : remote[id].status # "unused" /\ remote[id].name = n}]
LiveIds == {id \in Ids : remote[id].status = "live"}
Recorded == IF lock # NoProc /\ pc[lock] = "write" THEN mem[lock] ELSE index
Managed == INSTANCE ManagedTokens WITH issued <- IssuedTo, live <- LiveIds, entry <- Recorded

(* However many invocations overlap, fail or are killed, the stores change   *)
(* only in the ways ManagedTokens allows: a whole apply, from the listing    *)
(* that planned a create to the commit of its entry, is safe against every   *)
(* other command, and the index never loses a part of its entries            *)
(* (apply.go:114-126, index.go:182-213).                                     *)
KeepsItsPromise == Managed!Spec

(* A rotate or delete is on the token of a name from the moment it reads the *)
(* entry; a rotate until it stored the new value, a delete until its commit. *)
(* Nothing in cft keeps two of them off one name (see StaleDelete and        *)
(* TwoRotations); a user who lets one end before the next starts does.       *)
OnToken(p) ==
  \/ pc[p] \in {"confirm", "call", "store", "forget"}
  \/ cmd[p] = "delete" /\ pc[p] \in {"lock", "commit"}
OneAtATime ==
  \A p, q \in Procs : OnToken(p) /\ OnToken(q) /\ Name(p) = Name(q) => p = q

(* While no write of the file fails and nothing is killed, every value in    *)
(* the Keychain is of the very token that the index has under its name,      *)
(* whatever calls fail, as long as one rotate or delete at a time is on a    *)
(* name: delete drops the value before the entry, apply stores it first      *)
(* (delete.go:97-108, apply.go:237-250).                                     *)
ValuesMatchEntries ==
  lock = NoProc => \A n \in Names : keychain[n] # NoSecret => index[n] = keychain[n].id

InForce(s) == s # NoSecret /\ remote[s.id].status = "live" /\ remote[s.id].ver = s.ver

(* No step overwrites or removes the Keychain's copy of a value that is in   *)
(* force: it exists nowhere else (apply.go:237, rotate.go:87,                *)
(* delete.go:97).                                                            *)
ValueInForceIsKept ==
  [][\A n \in Names : InForce(keychain[n]) => keychain'[n] = keychain[n]]_vars

Awaits(p) == Requests(p) \/ pc[p] \in {"check", "keep", "confirm", "store", "forget", "fetch"}

(* A command that is under way ends, whatever the others do, fail at or      *)
(* leave unanswered, unless it waits for ever for an answer of its own, or   *)
(* for a lock whose holder does: apply calls Cloudflare and the Keychain     *)
(* with the lock held (apply.go:117-133, 245).  Nothing else stops it: every *)
(* exit of WithLock, errors included, gives the lock back (index.go:195).    *)
CommandsEnd ==
  \A p \in Procs : pc[p] \notin Ended \cup {"idle"} ~>
    \/ pc[p] \in Ended
    \/ []Awaits(p)
    \/ [](pc[p] = "lock" /\ lock # NoProc /\ Awaits(lock))
===============================================================================
