-------------------------------- MODULE Profiles --------------------------------
(*****************************************************************************)
(* Profiles: which Cloudflare account a command acts on.  A profile ties a   *)
(* bootstrap token in the Keychain to the entries of one account in the      *)
(* index.  `login` and `profile add` store the bootstrap token; `profile     *)
(* add` and `profile use` move the current pointer of the index; `apply`     *)
(* loads the index, resolves its profile, fetches that profile's bootstrap   *)
(* token, and only then locks the index and records what it created.  `list` *)
(* and `profile current` show what they loaded; `profile list` loads the     *)
(* index and then asks the Keychain which profiles have a bootstrap token.   *)
(*                                                                           *)
(* A bootstrap token stands for its account, and so does the ID of a token   *)
(* created in it.  The Keychain is taken call by call.  The file appears as  *)
(* IndexRegister and the theorem LoadsInventNothing describe it: a value     *)
(* changed under the lock; a load that a rewrite overlaps may also find it   *)
(* empty, unreadable, or in pieces of two values.                            *)
(*****************************************************************************)
EXTENDS IndexData

CONSTANTS
  Procs,       \* the invocations; each runs one command and ends
  Requests,    \* what they may be asked: [cmd, name, env, token, anyApp]
  Starts,      \* what earlier commands left: [bootstrap, index]
  Pieces,      \* the profiles that pieces of two files may decode to
  Faults,      \* which calls may fail: "api", "keychain", "file"
  Crashes,     \* whether an invocation may be killed
  NoProc,
  NoToken,     \* no bootstrap token: none stored, none entered
  BadToken,    \* one that Cloudflare does not verify
  InactiveToken  \* one it verifies as disabled or expired, and serves nothing

Accounts == Ids
Bootstraps == Accounts \cup {NoToken, BadToken, InactiveToken}
Commands == {"login", "add", "use", "apply", "list", "current", "profiles"}
Request == [cmd : Commands, name : Profiles \cup {NoProfile},
            env : Profiles \cup {NoProfile}, token : Bootstraps, anyApp : BOOLEAN]
(* A command that ended "halfway" had deleted a Keychain item and did not    *)
(* create it again; one that ended "torn" was writing the index.             *)
Ended == {"ok", "failed", "halfway", "torn"}
PCs == Ended \cup {"idle", "verify", "store", "update", "create", "load", "read", "scan",
                  "fetch", "lock", "inside", "write"}

ASSUME SentinelsAreFresh ==
  /\ NoProc \notin Procs /\ {NoToken, BadToken, InactiveToken} \cap Ids = {}
  /\ NoToken # BadToken /\ InactiveToken \notin {NoToken, BadToken}
ASSUME InputsAreTyped ==
  /\ \A r \in Requests : /\ r \in Request /\ (r.anyApp => r.cmd = "login")
                         /\ r.cmd \in {"add", "use"} => r.name # NoProfile
  /\ Pieces \subseteq Partial(Profiles, Partial(Names, Ids))
  /\ Faults \subseteq {"api", "keychain", "file"} /\ Crashes \in BOOLEAN
  /\ Starts \subseteq [bootstrap : [Profiles -> Accounts \cup {NoToken}], index : Indexes]

(* An earlier command created the tokens of a profile with its bootstrap     *)
(* token, and moved the current pointer to a profile it had added.           *)
ASSUME StartsAreSound == \A s \in Starts :
  /\ s.index.current # NoProfile => HasProfile(s.index, s.index.current)
  /\ \A q \in Profiles : \A n \in DOMAIN All(s.index, q) : All(s.index, q)[n] = s.bootstrap[q]

VARIABLES
  bootstrap,   \* Keychain, service bootstrap: per profile a token or NoToken
  index,       \* the value of the index file, or Unreadable
  lock,        \* the process that holds the flock, or NoProc
  pc, req,     \* where each process is, and what it was asked
  target,      \* the profile it resolved
  account,     \* the account of its Cloudflare client
  mem,         \* the index it decoded, under the lock or to show it
  became,      \* `profile add` found no current profile and set it
  stored,      \* the profiles the Keychain listed to `profile list`
  known,       \* history: those that could be known when it loaded the index
  owners,      \* history: the accounts whose tokens a profile was given
  calm,        \* history: its load met no rewrite of the file
  pointers     \* history: the current pointers there were while it loads

stores == <<bootstrap, index>>
locals == <<req, target, account, mem, became, stored, known>>
watched == <<calm, pointers>>
vars == <<stores, lock, pc, locals, owners, watched>>

(* --profile, then $CFT_PROFILE, then the current pointer, then "default".   *)
ResolveProfile(flag, env, current) ==
  IF flag # NoProfile THEN flag
  ELSE IF env # NoProfile THEN env
  ELSE IF current # NoProfile THEN current ELSE Default

-------------------------------------------------------------------------------
Init ==
  /\ \E s \in Starts : bootstrap = s.bootstrap /\ index = s.index
  /\ lock = NoProc
  /\ pc = [p \in Procs |-> "idle"] /\ req \in [Procs -> Requests]
  /\ target = [p \in Procs |-> NoProfile]
  /\ account = [p \in Procs |-> NoToken] /\ mem = [p \in Procs |-> NewIndex]
  /\ became = [p \in Procs |-> FALSE]
  /\ stored = [p \in Procs |-> {}] /\ known = [p \in Procs |-> {}]
  /\ owners = [q \in Profiles |-> {bootstrap[q]} \ {NoToken}]
  /\ calm = [p \in Procs |-> TRUE] /\ pointers = [p \in Procs |-> {}]

Goto(p, s) == pc' = [pc EXCEPT ![p] = s]
Is(p, cmds) == req[p].cmd \in cmds

(* The process ends; the flock goes with its file descriptor.                *)
Exit(p, s) == Goto(p, s) /\ lock' = IF lock = p THEN NoProc ELSE lock

(* login resolves without the index; add and use are given a name; an empty  *)
(* token is refused before anything is sent.                                 *)
Start(p) ==
  /\ pc[p] = "idle"
  /\ \/ Is(p, {"login", "add"}) /\ req[p].token = NoToken /\ Goto(p, "failed")
     \/ Is(p, {"login", "add"}) /\ req[p].token # NoToken /\ Goto(p, "verify")
     \/ Is(p, {"use"}) /\ Goto(p, "lock")
     \/ Is(p, {"apply", "list", "current", "profiles"}) /\ Goto(p, "load")
  /\ target' = [target EXCEPT ![p] =
       CASE Is(p, {"login"}) -> ResolveProfile(req[p].name, req[p].env, NoProfile)
         [] Is(p, {"add", "use"}) -> req[p].name
         [] OTHER -> NoProfile]
  /\ UNCHANGED <<stores, lock, req, account, mem, became, stored, known>>

(* Mutant of Verify: the answer is not looked at.                            *)
Verify_Ignored(p) ==
  /\ pc[p] = "verify"
  /\ Goto(p, "store") /\ UNCHANGED <<stores, lock, locals>>

(* An error is looked at, the status in an answer is not.                    *)
Verify(p) ==
  /\ pc[p] = "verify"
  /\ Goto(p, IF req[p].token = BadToken THEN "failed" ELSE "store")
  /\ UNCHANGED <<stores, lock, locals>>

-------------------------------------------------------------------------------
(* Set puts the token into the Keychain, and the command goes on.            *)
Put(p) ==
  /\ bootstrap' = [bootstrap EXCEPT ![target[p]] = req[p].token]
  /\ owners' = [owners EXCEPT ![target[p]] = @ \cup ({req[p].token} \cap Accounts)]
  /\ Goto(p, IF Is(p, {"login"}) THEN "ok" ELSE "lock")
Keep(p, s) == Goto(p, s) /\ UNCHANGED <<bootstrap, owners>>

(* Set adds the item and, when there is one, updates it: if it is still      *)
(* there by then.                                                            *)
AddBootstrap(p) ==
  /\ pc[p] = "store" /\ ~req[p].anyApp
  /\ IF bootstrap[target[p]] = NoToken THEN Put(p) ELSE Keep(p, "update")
  /\ UNCHANGED <<index, lock, locals>>
UpdateBootstrap(p) ==
  /\ pc[p] = "update"
  /\ IF bootstrap[target[p]] = NoToken THEN Keep(p, "failed") ELSE Put(p)
  /\ UNCHANGED <<index, lock, locals>>

(* setAnyApp deletes the item and creates it anew: if none has come by then. *)
ClearBootstrap(p) ==
  /\ pc[p] = "store" /\ req[p].anyApp /\ Goto(p, "create")
  /\ bootstrap' = [bootstrap EXCEPT ![target[p]] = NoToken]
  /\ UNCHANGED <<index, lock, locals, owners>>
CreateBootstrap(p) ==
  /\ pc[p] = "create"
  /\ IF bootstrap[target[p]] = NoToken THEN Put(p) ELSE Keep(p, "halfway")
  /\ UNCHANGED <<index, lock, locals>>

SetBootstrap(p) ==
  AddBootstrap(p) \/ UpdateBootstrap(p) \/ ClearBootstrap(p) \/ CreateBootstrap(p)

-------------------------------------------------------------------------------
(* Load opens the file, and reads it, which may take more than one moment.   *)
(* A rewrite that overlaps may show it empty, or cut, or the pointer of one  *)
(* value above the profiles of another, which stands in the file below it.   *)
Rewriting == \E q \in Procs : pc[q] = "write"
Mixed(p) == {[current |-> c, profiles |-> f] : c \in pointers[p], f \in Pieces}
Loadable(p) ==
  {index} \cup (IF calm[p] THEN {} ELSE {NewIndex, Unreadable} \cup Mixed(p))

(* What a loaded index makes of the request; `profile current` follows       *)
(* neither the flag nor the environment.                                     *)
Selected(p, i) ==
  IF Is(p, {"current"}) THEN ResolveProfile(NoProfile, NoProfile, i.current)
                        ELSE ResolveProfile(req[p].name, req[p].env, i.current)
AfterLoad(p) ==
  IF Is(p, {"apply"}) THEN "fetch" ELSE IF Is(p, {"profiles"}) THEN "scan" ELSE "ok"

HasBootstrap == {q \in Profiles : bootstrap[q] # NoToken}
Indexed(i) == IF i = Unreadable THEN {} ELSE DOMAIN i.profiles

OpenIndex(p) ==
  /\ pc[p] = "load" /\ Goto(p, "read")
  /\ UNCHANGED <<stores, lock, locals>>

LoadIndex(p) ==
  /\ pc[p] = "read"
  /\ \E i \in Loadable(p) :
       IF i = Unreadable
       THEN Goto(p, "failed") /\ UNCHANGED <<target, mem>>
       ELSE /\ Goto(p, AfterLoad(p))
            /\ target' = [target EXCEPT ![p] = Selected(p, i)]
            /\ mem' = [mem EXCEPT ![p] = IF Is(p, {"list", "profiles"}) THEN i ELSE @]
  /\ known' = [known EXCEPT ![p] = HasBootstrap \cup (IF calm[p] THEN Indexed(index) ELSE {})]
  /\ UNCHANGED <<stores, lock, req, account, became, stored>>

(* gatherProfiles goes on to the Keychain.                                   *)
ListBootstraps(p) ==
  /\ pc[p] = "scan" /\ Goto(p, "ok")
  /\ stored' = [stored EXCEPT ![p] = HasBootstrap]
  /\ UNCHANGED <<stores, lock, req, target, account, mem, became, known>>

(* Mutant of Listed: a profile is shown only if the index has it.            *)
Listed_IndexOnly(p) == DOMAIN mem[p].profiles

(* The rows of `profile list`.                                               *)
Listed(p) == stored[p] \cup DOMAIN mem[p].profiles
Row(p, q) ==
  [current |-> q = mem[p].current, bootstrap |-> q \in stored[p],
   tokens |-> DOMAIN All(mem[p], q)]

(* Without a token, or with one that is not served, apply gets no further.   *)
FetchBootstrap(p) ==
  /\ pc[p] = "fetch"
  /\ Goto(p, IF bootstrap[target[p]] \in Accounts THEN "lock" ELSE "failed")
  /\ account' = [account EXCEPT ![p] = bootstrap[target[p]]]
  /\ UNCHANGED <<stores, lock, req, target, mem, became, stored, known>>

(* Mutant of Enter: the index is read and changed without the lock.          *)
Enter_NoFlock(p) ==
  /\ pc[p] = "lock"
  /\ IF index = Unreadable
     THEN Exit(p, "failed") /\ UNCHANGED mem
     ELSE Goto(p, "inside") /\ UNCHANGED lock /\ mem' = [mem EXCEPT ![p] = index]
  /\ UNCHANGED <<stores, req, target, account, became, stored, known>>

(* Mutant of Enter: the decoding error is not looked at.                     *)
Enter_Unchecked(p) ==
  /\ pc[p] = "lock" /\ lock = NoProc
  /\ Goto(p, "inside") /\ lock' = p /\ mem' = [mem EXCEPT ![p] = index]
  /\ UNCHANGED <<stores, req, target, account, became, stored, known>>

(* flock is granted and the file decoded; one that is unreadable ends it.    *)
Enter(p) ==
  /\ pc[p] = "lock" /\ lock = NoProc
  /\ IF index = Unreadable
     THEN Exit(p, "failed") /\ UNCHANGED mem
     ELSE Goto(p, "inside") /\ lock' = p /\ mem' = [mem EXCEPT ![p] = index]
  /\ UNCHANGED <<stores, req, target, account, became, stored, known>>

(* The names apply can create or update: an indexed ID of another account    *)
(* is not found there.                                                       *)
Foreign(p, q) ==
  {n \in DOMAIN All(mem[p], q) : All(mem[p], q)[n] # account[p]}
Apply(p, q) ==
  {Profile(mem[p], q)} \cup {Set(mem[p], q, [m \in {n} |-> account[p]]) : n \in Names \ Foreign(p, q)}

(* Mutant of Change: `profile use` moves the pointer and adds no profile.    *)
Change_OnlyPointer(p) ==
  CASE Is(p, {"add"}) -> {AddProfile(mem[p], target[p])}
    [] Is(p, {"use"}) -> {[mem[p] EXCEPT !.current = target[p]]}
    [] OTHER -> Apply(p, target[p])

(* Mutant of Change: apply records under the profile current by then.        *)
Change_CurrentProfile(p) ==
  CASE Is(p, {"add"}) -> {AddProfile(mem[p], target[p])}
    [] Is(p, {"use"}) -> {UseProfile(mem[p], target[p])}
    [] OTHER -> Apply(p, ResolveProfile(req[p].name, req[p].env, mem[p].current))

(* The callbacks.  apply has created or updated some token, or, in a dry     *)
(* run, none.                                                                *)
Change(p) ==
  CASE Is(p, {"add"}) -> {AddProfile(mem[p], target[p])}
    [] Is(p, {"use"}) -> {UseProfile(mem[p], target[p])}
    [] OTHER -> Apply(p, target[p])

(* The callback returns and the file is emptied.                             *)
Rewrite(p) ==
  /\ pc[p] = "inside" /\ Goto(p, "write")
  /\ index' \in Change(p)
  /\ became' = [became EXCEPT ![p] = Is(p, {"add"}) /\ mem[p].current = NoProfile]
  /\ UNCHANGED <<bootstrap, lock, req, target, account, mem, stored, known>>

NotFound(p) ==
  /\ pc[p] = "inside" /\ Is(p, {"apply"}) /\ Foreign(p, target[p]) # {}
  /\ Exit(p, "failed") /\ UNCHANGED <<stores, locals>>

Written(p) ==
  /\ pc[p] = "write" /\ Exit(p, "ok")
  /\ UNCHANGED <<stores, locals>>

FaultOf(s) ==
  CASE s = "verify" -> {"api"}
    [] s \in {"store", "update", "create", "scan"} -> {"keychain"}
    [] s = "fetch" -> {"keychain", "api"}
    [] s = "inside" -> {"api", "file"}
    [] s \in {"load", "read", "lock", "write"} -> {"file"}
    [] OTHER -> {}

(* An error ends the command, as does being killed; in the middle of the     *)
(* rewriting the index may be lost.                                          *)
Stop(p) ==
  /\ pc[p] \notin Ended /\ (Crashes \/ FaultOf(pc[p]) \cap Faults # {})
  /\ Exit(p, CASE pc[p] = "create" -> "halfway" [] pc[p] = "write" -> "torn"
                [] OTHER -> "failed")
  /\ IF pc[p] = "write" THEN index' \in {index, NewIndex, Unreadable}
                        ELSE UNCHANGED index
  /\ UNCHANGED <<bootstrap, locals>>

(* The history of the loads that run; what is decoded under the lock is      *)
(* whole.                                                                    *)
Watch ==
  /\ calm' = [p \in Procs |->
       CASE pc'[p] = "read" -> calm[p] /\ ~Rewriting'
         [] pc'[p] = "inside" -> TRUE
         [] OTHER -> calm[p]]
  /\ pointers' = [p \in Procs |->
       IF pc'[p] # "read" THEN {}
       ELSE pointers[p] \cup (IF index' = Unreadable THEN {} ELSE {index'.current})]

Next ==
  /\ \E p \in Procs :
       \/ SetBootstrap(p)
       \/ /\ \/ Start(p) \/ Verify(p) \/ OpenIndex(p) \/ LoadIndex(p) \/ FetchBootstrap(p)
             \/ ListBootstraps(p) \/ Enter(p) \/ Rewrite(p) \/ NotFound(p) \/ Written(p)
             \/ Stop(p)
          /\ UNCHANGED owners
  /\ Watch

Spec == Init /\ [][Next]_vars

-------------------------------------------------------------------------------
(* The variables keep their types.                                           *)
TypeOK ==
  /\ bootstrap \in [Profiles -> Bootstraps] /\ index \in Indexes \cup {Unreadable}
  /\ lock \in Procs \cup {NoProc} /\ pc \in [Procs -> PCs] /\ req \in [Procs -> Requests]
  /\ target \in [Procs -> Profiles \cup {NoProfile}]
  /\ stored \in [Procs -> SUBSET Profiles] /\ known \in [Procs -> SUBSET Profiles]
  /\ account \in [Procs -> Bootstraps] /\ mem \in [Procs -> Indexes]
  /\ became \in [Procs -> BOOLEAN] /\ owners \in [Profiles -> SUBSET Accounts]
  /\ calm \in [Procs -> BOOLEAN] /\ pointers \in [Procs -> SUBSET (Profiles \cup {NoProfile})]

(* The current pointer names a profile of the index, whatever is added, used *)
(* or lost at the same time (profile.go:117-124, 264-268).                   *)
CurrentIsKnown ==
  index # Unreadable /\ index.current # NoProfile => HasProfile(index, index.current)

(* "a bad token never lands on disk" (login.go:97): no stored bootstrap      *)
(* token is one Cloudflare refused, and no command runs with one.  One it    *)
(* calls disabled or expired may be stored: the status is not looked at.     *)
StoredWasVerified ==
  /\ \A q \in Profiles : bootstrap[q] # BadToken
  /\ \A p \in Procs : account[p] # BadToken

(* "Profile is one account's worth of managed tokens" (index.go:53): the     *)
(* tokens of a profile, in the index and in a `list` that no rewrite met,    *)
(* belong to the account of its bootstrap token, however the current pointer *)
(* moves while commands run; to two only once the bootstrap token was        *)
(* replaced by another account's: nothing ties an entry to its account.      *)
Owned(i) == \A q \in Profiles : \A n \in DOMAIN All(i, q) : All(i, q)[n] \in owners[q]
OneAccountPerProfile ==
  /\ index # Unreadable => Owned(index)
  /\ \A p \in Procs : calm[p] => Owned(mem[p])

(* No write of the index was cut short.                                      *)
NoTornWrite == \A p \in Procs : pc[p] # "torn"

(* Of all `profile add`s that report "set it current" at most one did so:    *)
(* the first profile becomes current and later ones leave it                 *)
(* (profile.go:104-106), also when they race and whatever calls fail.        *)
OneBecameCurrent ==
  NoTornWrite =>
    \A p, q \in Procs :
      became[p] /\ became[q] /\ pc[p] = "ok" /\ pc[q] = "ok" => p = q

(* The profiles whose item `login --allow-any-app` has deleted and not made  *)
(* again, yet or ever (acl_darwin.go:101-121), and those it may have.        *)
AnyApp(s) == {target[p] : p \in {r \in Procs : req[r].anyApp /\ pc[r] \in s}}
Cleared == AnyApp({"create", "halfway"})
Relaxed == AnyApp({"create", "halfway", "ok"})

(* A `profile add` that succeeded left a profile that can be used: the index *)
(* lists it, and its bootstrap token is stored (profile.go:107-124).  No     *)
(* other command takes either away, whatever calls fail, short of an index   *)
(* write cut short and of `login --allow-any-app` for that very name: while  *)
(* it has only deleted the item, and for good if it ended there.             *)
AddedIsUsable ==
  \A p \in Procs : Is(p, {"add"}) /\ pc[p] = "ok" =>
    /\ NoTornWrite => HasProfile(index, req[p].name)
    /\ bootstrap[req[p].name] # NoToken \/ req[p].name \in Cleared

(* gatherProfiles reads the index and the Keychain one after the other       *)
(* (profile.go:169-176) while other commands change both.  Still its list    *)
(* misses no profile that was known when it loaded the index.  If no rewrite *)
(* met the load it invents none, the profile marked current is among its     *)
(* rows, and, as the Keychain is read last, no row has tokens and no         *)
(* bootstrap token to have made them with.  A profile whose item is replaced *)
(* with --allow-any-app meanwhile is the exception: its item was not there   *)
(* for a moment.                                                             *)
ListingIsBracketed ==
  \A p \in Procs : Is(p, {"profiles"}) /\ pc[p] = "ok" =>
    /\ known[p] \ Relaxed \subseteq Listed(p)
    /\ calm[p] =>
         /\ NoTornWrite => Listed(p) \subseteq HasBootstrap \cup Indexed(index) \cup Relaxed
         /\ mem[p].current # NoProfile => \E q \in Listed(p) : Row(p, q).current
         /\ \A q \in Listed(p) \ Relaxed : Row(p, q).tokens # {} => Row(p, q).bootstrap
===============================================================================
