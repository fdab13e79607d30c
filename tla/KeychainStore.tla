------------------------------ MODULE KeychainStore ------------------------------
(*****************************************************************************)
(* keychain.Darwin: each action is one call of the Security framework, which *)
(* several cft processes may make at once, on the item a secret is kept in.  *)
(* Set adds the item and, told that it exists, updates it; with the any-app  *)
(* option it deletes the item and creates it anew.  Items are told apart by  *)
(* their service and account strings, and what is asked for is a profile's   *)
(* bootstrap token or a token of a profile: TokenAccount makes the account.  *)
(* A string is a sequence of symbols.  Access control and prompts are left   *)
(* out.                                                                      *)
(*****************************************************************************)
EXTENDS Sequences

CONSTANTS
  Clients, Values, Missing,
  Symbols,   \* the characters of names
  Slash,     \* "/"
  Default,   \* the profile BootstrapAccount
  Keys,      \* the secrets: [service, profile, name]
  Asks,      \* what a client may be asked for: [kind, key, data]
  AnyApp,    \* the clients that use WithAllowAnyApp
  Faults,    \* whether a framework call may fail (locked keychain, denied prompt)
  Crashes    \* whether a process may be killed

NoName == <<>>

(* A bootstrap token has no name but its profile's.  A profile may be called *)
(* anything, but none is resolved to ""; token names are DNS-1123.           *)
Secrets ==
  [service : {"bootstrap"}, profile : Seq(Symbols), name : {NoName}] \cup
  [service : {"tokens"}, profile : Seq(Symbols) \ {NoName}, name : Seq(Symbols \ {Slash})]

ASSUME MissingIsNoValue == Missing \notin Values
ASSUME OptionsAreTyped == AnyApp \subseteq Clients /\ Faults \in BOOLEAN /\ Crashes \in BOOLEAN
ASSUME NamesAreTyped ==
  Slash \in Symbols /\ Default \in Seq(Symbols) /\ (\A k \in Keys : k \in Secrets)

Kinds == {"get", "set", "delete", "list"}
Calls == [kind : Kinds, key : Keys, data : Values]
ASSUME AsksAreTyped == Asks \subseteq Calls

VARIABLES
  item,      \* per item its data, or Missing
  op,        \* what each client calls: [kind, key, data]
  pc,        \* the framework call it is about to make, or "done"
  outcome,   \* what its call returned
  listed     \* the accounts a List returned

vars == <<item, op, pc, outcome, listed>>
Steps == {"query", "add", "update", "clear", "create", "delete", "match"}

(* Mutant of TokenAccount: the separator is left out.                        *)
TokenAccount_NoSeparator(profile, name) ==
  IF profile \in {NoName, Default} THEN name ELSE profile \o name

TokenAccount(profile, name) ==
  IF profile \in {NoName, Default} THEN name ELSE profile \o <<Slash>> \o name

(* The item of a secret: writeBootstrap and gatherProfiles take the profile  *)
(* for the account.                                                          *)
Item(k) ==
  [service |-> k.service,
   account |-> IF k.service = "tokens" THEN TokenAccount(k.profile, k.name) ELSE k.profile]
Items == {Item(k) : k \in Keys}
At(c) == Item(op[c].key)

FirstStep(c) ==
  CASE op[c].kind = "get" -> "query"
    [] op[c].kind = "delete" -> "delete"
    [] op[c].kind = "list" -> "match"
    [] OTHER -> IF c \in AnyApp THEN "clear" ELSE "add"

Init ==
  /\ item \in [Items -> Values \cup {Missing}] /\ op \in [Clients -> Asks]
  /\ pc = [c \in Clients |-> FirstStep(c)]
  /\ outcome = [c \in Clients |-> "none"] /\ listed = [c \in Clients |-> {}]

Goto(c, s) == pc' = [pc EXCEPT ![c] = s] /\ UNCHANGED outcome
Return(c, s) ==
  pc' = [pc EXCEPT ![c] = "done"] /\ outcome' = [outcome EXCEPT ![c] = s]
Put(c, v) == item' = [item EXCEPT ![At(c)] = v]

(* Mutant of QueryItem: the first of no results.                             *)
QueryItem_NoCheck(c) ==
  /\ pc[c] = "query" /\ UNCHANGED <<item, op, listed>>
  /\ Return(c, IF item[At(c)] = Missing THEN "panic" ELSE item[At(c)])

(* Get: the data, or ErrNotFound for no item.                                *)
QueryItem(c) ==
  pc[c] = "query" /\ Return(c, item[At(c)]) /\ UNCHANGED <<item, op, listed>>

(* Mutant of AddItem: a duplicate counts as stored.                          *)
AddItem_KeepsOld(c) ==
  /\ pc[c] = "add" /\ UNCHANGED <<op, listed>>
  /\ Return(c, "ok")
  /\ Put(c, IF item[At(c)] = Missing THEN op[c].data ELSE item[At(c)])

AddItem(c) ==
  /\ pc[c] = "add" /\ UNCHANGED <<op, listed>>
  /\ IF item[At(c)] = Missing
     THEN Put(c, op[c].data) /\ Return(c, "ok")
     ELSE Goto(c, "update") /\ UNCHANGED item

(* The item may have been deleted since AddItem met it.                      *)
UpdateItem(c) ==
  /\ pc[c] = "update" /\ UNCHANGED <<op, listed>>
  /\ IF item[At(c)] = Missing
     THEN Return(c, "error") /\ UNCHANGED item
     ELSE Put(c, op[c].data) /\ Return(c, "ok")

(* Delete, called alone or by setAnyApp; no item is no error.                *)
DeleteItem(c) ==
  /\ pc[c] \in {"delete", "clear"} /\ Put(c, Missing) /\ UNCHANGED <<op, listed>>
  /\ IF pc[c] = "delete" THEN Return(c, "ok") ELSE Goto(c, "create")

CreateItem(c) ==
  /\ pc[c] = "create" /\ UNCHANGED <<op, listed>>
  /\ IF item[At(c)] = Missing
     THEN Put(c, op[c].data) /\ Return(c, "ok")
     ELSE Return(c, "error") /\ UNCHANGED item

(* List: the accounts of all items of the bootstrap service.                 *)
MatchItems(c) ==
  /\ pc[c] = "match" /\ Return(c, "ok") /\ UNCHANGED <<item, op>>
  /\ listed' = [listed EXCEPT ![c] =
       {i.account : i \in {j \in Items : j.service = "bootstrap" /\ item[j] # Missing}}]

Stop(c) ==
  /\ pc[c] # "done" /\ UNCHANGED <<item, op, listed>>
  /\ \/ Faults /\ Return(c, "error")
     \/ Crashes /\ Return(c, "killed")

Next == \E c \in Clients :
  \/ QueryItem(c) \/ AddItem(c) \/ UpdateItem(c) \/ DeleteItem(c) \/ CreateItem(c)
  \/ MatchItems(c) \/ Stop(c)
Spec == Init /\ [][Next]_vars

-------------------------------------------------------------------------------
(* The variables keep their types.                                           *)
TypeOK ==
  /\ item \in [Items -> Values \cup {Missing}] /\ op \in [Clients -> Calls]
  /\ pc \in [Clients -> Steps \cup {"done"}]
  /\ outcome \in [Clients -> Values \cup {Missing, "none", "ok", "error", "killed"}]
  /\ listed \in [Clients -> SUBSET {k.profile : k \in Keys}]

(* A secret is read and written in its item.                                 *)
Map == INSTANCE KeychainMap WITH entry <- [k \in Keys |-> item[Item(k)]]

(* No two secrets share an item, whatever a profile is called, and the       *)
(* two-call Set is still one step to every other process: whoever reads      *)
(* finds the old value or the new one, a Set that fails has changed nothing, *)
(* one that returns nil has stored its value, and no call touches another    *)
(* secret.  Only with the any-app option may the entry be gone for a while,  *)
(* or for good.                                                              *)
StoreIsAMap == Map!Spec
===============================================================================
