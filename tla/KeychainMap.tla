------------------------------ MODULE KeychainMap ------------------------------
(*****************************************************************************)
(* What the rest of the program takes keychain.Store to be: one variable per *)
(* profile's bootstrap token and per managed token of a profile, which Get,  *)
(* Set and Delete read and write in one step, or fail to, and List reads all *)
(* at once.  With the any-app option a Set may first empty the entry.        *)
(*****************************************************************************)
CONSTANTS
  Clients,   \* processes, one call each
  Keys,      \* the secrets: [service, profile, name]
  Values,    \* what may be stored
  Missing,   \* no entry
  AnyApp     \* the clients that use WithAllowAnyApp

VARIABLES
  entry,     \* per key the stored value, or Missing
  op,        \* what each client calls: [kind, key, data]
  outcome,   \* "none" until it returns; a Get that succeeds returns a value
  listed     \* the profiles a List returned

vars == <<entry, op, outcome, listed>>
Kinds == {"get", "set", "delete", "list"}
Calls == [kind : Kinds, key : Keys, data : Values]
WithBootstrap(e) == {k.profile : k \in {l \in Keys : l.service = "bootstrap" /\ e[l] # Missing}}

Init ==
  /\ entry \in [Keys -> Values \cup {Missing}] /\ op \in [Clients -> Calls]
  /\ outcome = [c \in Clients |-> "none"] /\ listed = [c \in Clients |-> {}]

Pending(c, kind) == outcome[c] = "none" /\ op[c].kind = kind
Return(c, s) == outcome' = [outcome EXCEPT ![c] = s] /\ UNCHANGED op
Put(c, v) == entry' = [entry EXCEPT ![op[c].key] = v]

Get(c) == Pending(c, "get") /\ Return(c, entry[op[c].key]) /\ UNCHANGED <<entry, listed>>
Set(c) == Pending(c, "set") /\ Put(c, op[c].data) /\ Return(c, "ok") /\ UNCHANGED listed
Delete(c) == Pending(c, "delete") /\ Put(c, Missing) /\ Return(c, "ok") /\ UNCHANGED listed
List(c) ==
  /\ Pending(c, "list") /\ Return(c, "ok") /\ UNCHANGED entry
  /\ listed' = [listed EXCEPT ![c] = WithBootstrap(entry)]
Empty(c) ==
  /\ c \in AnyApp /\ Pending(c, "set") /\ Put(c, Missing)
  /\ UNCHANGED <<op, outcome, listed>>
Give(c) ==
  /\ outcome[c] = "none" /\ (\E s \in {"error", "killed"} : Return(c, s))
  /\ UNCHANGED <<entry, listed>>

Next == \E c \in Clients :
  Get(c) \/ Set(c) \/ Delete(c) \/ List(c) \/ Empty(c) \/ Give(c)
Spec == Init /\ [][Next]_vars
================================================================================
