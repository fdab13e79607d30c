----------------------------- MODULE ManagedTokens -----------------------------
(*****************************************************************************)
(* What cft promises about the managed tokens of a profile, with no          *)
(* processes, locks, plans or files in it: a name gets a new token only when *)
(* it has none and the index records none, the index takes up a token of a   *)
(* name only where it has no entry, and it loses one entry (delete) or all   *)
(* of them (a write that broke off), never some.                             *)
(*****************************************************************************)
CONSTANTS Names, Ids, NoId

VARIABLES
  issued,   \* per name the IDs Cloudflare ever gave to its tokens
  live,     \* the IDs of the tokens that still exist
  entry     \* per name the ID the index records, or NoId

vars == <<issued, live, entry>>
Entries == [Names -> Ids \cup {NoId}]

Init ==
  /\ issued \in [Names -> SUBSET Ids] /\ live = UNION {issued[n] : n \in Names}
  /\ \A m, n \in Names : \A i \in issued[m], j \in issued[n] : m = n <=> i = j
  /\ entry \in Entries /\ \A n \in Names : entry[n] \in issued[n] \cup {NoId}

Create(n, id) ==
  /\ entry[n] = NoId /\ issued[n] \cap live = {}
  /\ \A m \in Names : id \notin issued[m]
  /\ issued' = [issued EXCEPT ![n] = @ \cup {id}] /\ live' = live \cup {id}
  /\ UNCHANGED entry

End(id) == live' = live \ {id} /\ UNCHANGED <<issued, entry>>

(* The commit of an apply: some names get their first entry.                 *)
Record ==
  /\ entry' \in Entries
  /\ \A n \in Names :
       entry'[n] = entry[n] \/ (entry[n] = NoId /\ entry'[n] \in issued[n])
  /\ UNCHANGED <<issued, live>>

(* The commit of a delete, whatever the entry has become by then.            *)
Forget(n) == entry' = [entry EXCEPT ![n] = NoId] /\ UNCHANGED <<issued, live>>

Lose == entry' = [n \in Names |-> NoId] /\ UNCHANGED <<issued, live>>

Next ==
  \/ \E n \in Names, id \in Ids : Create(n, id)
  \/ \E id \in Ids : End(id)
  \/ \E n \in Names : Forget(n)
  \/ Record \/ Lose

Spec == Init /\ [][Next]_vars
===============================================================================
