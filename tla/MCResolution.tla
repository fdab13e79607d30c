------------------------------ MODULE MCResolution ------------------------------
(* A small instance of Resolution for TLC: inputs for the index of           *)
(* permission groups, for the zones and for the validator.                   *)
EXTENDS Resolution, TLC

CONSTANTS dns, cache1, i1, i2, z1, z2, site, near, acc, accName

Group(id, name, scopes) == [id |-> id, name |-> name, scopes |-> scopes]
Ask(zone, account, user, permissions) ==
  [permissions |-> permissions, zone |-> zone, account |-> account, user |-> user,
   effect |-> ""]
UpTo(n, S) == UNION {[1..k -> S] : k \in 0..n}

(* A name listed for the account, a zone, both, a bucket, or without scope.  *)
ManyGroups ==
  {Group(i1, dns, {ScopeAccount}), Group(i2, dns, {ScopeZone}),
   Group(i2, dns, {ScopeAccount, ScopeZone}), Group(i1, dns, {}), Group(i2, dns, {}),
   Group(i1, NoName, {ScopeZone}), Group(i1, cache1, {"com.cloudflare.edge.r2.bucket"}),
   Group(i2, cache1, {ScopeAccount})}
AnyListing == UpTo(3, ManyGroups)
GroupFiles ==
  {<<Ask(z1, NoName, FALSE, <<dns>>)>>,
   <<Ask(NoName, acc, FALSE, <<dns, cache1>>)>>,
   <<Ask(NoName, acc, FALSE, <<dns>>), Ask(z1, NoName, FALSE, <<dns>>)>>}

(* Three policies on zones by name, by a similar name or by ID.              *)
OneListing == <<Group(i1, dns, {ScopeAccount, ScopeZone}), Group(i2, dns, {})>>
ZoneFiles == [1..3 -> {Ask(z, NoName, FALSE, <<dns>>) : z \in {site, near, z1}}]

(* Policies that set no scope, one or several, and other mistakes.           *)
Mistakes ==
  {Ask(z, a, u, <<dns>>) : z \in {NoName, z1}, a \in {NoName, acc, accName}, u \in BOOLEAN}
    \cup {Ask(z1, NoName, FALSE, <<>>), Ask(z1, NoName, FALSE, <<dns, NoName>>)}
    \cup {[Ask(z1, NoName, FALSE, <<dns>>) EXCEPT !.effect = e] : e \in {"deny", "block"}}
MistakenFiles == UpTo(2, Mistakes)

AnyInput ==
  [file : GroupFiles, listing : AnyListing]
    \cup [file : ZoneFiles \cup MistakenFiles, listing : {OneListing}]
================================================================================
