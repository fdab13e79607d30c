------------------------------- MODULE Resolution -------------------------------
(*****************************************************************************)
(* Resolution: how `apply` turns the policies of a spec file into the        *)
(* policies it sends to Cloudflare.  The file is validated; the permission   *)
(* groups are listed once and indexed by scope and name; then the policies   *)
(* of the tokens are translated one after another, zone names being looked   *)
(* up at Cloudflare and cached for the run.  Any error ends the command      *)
(* before it has sent anything.                                              *)
(*                                                                           *)
(* The spec file is the sequence of all its policies: where one token ends   *)
(* and the next begins changes no step.  Expiry dates are in Expiry.  Zones   *)
(* come and go at Cloudflare while the command runs.                         *)
(*****************************************************************************)
EXTENDS Naturals, Sequences, FiniteSets

CONSTANTS
  Inputs,        \* spec files, each with a listing of the permission groups
                 \* it may meet: [file, listing]
  GroupNames, GroupIds,
  ZoneNames, ZoneIds,
  AccountNames, AccountIds,
  NoName,        \* the empty string
  Faults         \* whether an API call may fail

ScopeAccount == "com.cloudflare.api.account"
ScopeZone == "com.cloudflare.api.account.zone"
ScopeUser == "com.cloudflare.api.user"
ScopeUnknown == ""
Scopes == {ScopeAccount, ScopeZone, ScopeUser, ScopeUnknown, "com.cloudflare.edge.r2.bucket"}

PermissionGroups == [id : GroupIds, name : GroupNames \cup {NoName},
                     scopes : SUBSET (Scopes \ {ScopeUnknown})]
Policies == [permissions : Seq(GroupNames \cup {NoName}),
             zone : ZoneNames \cup ZoneIds \cup {NoName},
             account : AccountNames \cup AccountIds \cup {NoName},
             user : BOOLEAN, effect : {"", "allow", "deny", "block"}]
TokenPolicies == [effect : {"allow", "deny"}, resource : Scopes \X (ZoneIds \cup AccountIds),
                  groups : Seq(GroupIds)]
Ended == {"done", "invalid", "ambiguous", "failed", "noscope"}

ASSUME InputsAreTyped ==
  /\ \A i \in Inputs : i.file \in Seq(Policies) /\ i.listing \in Seq(PermissionGroups)
  /\ Faults \in BOOLEAN /\ NoName \notin GroupNames
  /\ NoName \notin ZoneNames \cup ZoneIds \cup AccountNames \cup AccountIds
ASSUME IdsAreNotNames ==
  ZoneIds \cap ZoneNames = {} /\ AccountIds \cap AccountNames = {}

VARIABLES
  pc, file,
  listing, at,   \* the permission groups listed, how many are indexed
  groups,        \* apiResolver.groups: scope, then name, then ID
  cache,         \* apiResolver.zones: the zone names resolved so far
  out,           \* the policies translated so far
  zones,         \* Cloudflare's zones: the name of each existing ID
  seen           \* history: the zones that existed while it translated

vars == <<pc, file, listing, at, groups, cache, out, zones, seen>>

Partial(S, T) == UNION {[D -> T] : D \in SUBSET S}
Empty == [n \in {} |-> n]
Put(f, k, v) == [x \in DOMAIN f \cup {k} |-> IF x = k THEN v ELSE f[x]]
Items(s) == {s[k] : k \in DOMAIN s}
IdLike(x) == x \in ZoneIds \cup AccountIds    \* 32 hexadecimal digits

Scope(p) ==
  CASE p.zone # NoName -> "zone"
    [] p.zone = NoName /\ p.account # NoName -> "account"
    [] p.zone = NoName /\ p.account = NoName /\ p.user -> "user"
    [] OTHER -> ""
CfScopeFor(scope) ==
  CASE scope = "zone" -> ScopeZone
    [] scope = "account" -> ScopeAccount
    [] scope = "user" -> ScopeUser
    [] OTHER -> ScopeUnknown

NormalizedEffect(p) == IF p.effect = "" THEN "allow" ELSE p.effect

ScopesSet(p) == {f \in {"zone", "account", "user"} :
  CASE f = "zone" -> p.zone # NoName
    [] f = "account" -> p.account # NoName
    [] f = "user" -> p.user}

(* Mutant of Valid: a policy may set no scope at all.                        *)
Valid_AnyScope(p) ==
  /\ p.permissions # <<>> /\ NoName \notin Items(p.permissions)
  /\ Cardinality(ScopesSet(p)) <= 1
  /\ p.effect \in {"", "allow", "deny"}

Valid(p) ==
  /\ p.permissions # <<>> /\ NoName \notin Items(p.permissions)
  /\ Cardinality(ScopesSet(p)) = 1
  /\ p.effect \in {"", "allow", "deny"}

-------------------------------------------------------------------------------
Init ==
  /\ pc = "validate" /\ file \in {i.file : i \in Inputs} /\ listing = <<>> /\ at = 0
  /\ groups = [s \in Scopes |-> Empty] /\ cache = Empty /\ out = <<>>
  /\ zones \in Partial(ZoneIds, ZoneNames) /\ seen = {}

End(how) ==
  /\ pc' = how
  /\ UNCHANGED <<file, listing, at, groups, cache, out, zones, seen>>

Validate ==
  /\ pc = "validate"
  /\ End(IF \A p \in Items(file) : Valid(p) THEN "list" ELSE "invalid")

ListPermissionGroups ==
  /\ pc = "list" /\ pc' = "index"
  /\ listing' \in {i.listing : i \in {j \in Inputs : j.file = file}}
  /\ UNCHANGED <<file, at, groups, cache, out, zones, seen>>

Buckets(g) == IF g.scopes = {} THEN {ScopeUnknown} ELSE g.scopes

(* Mutant of Skipped: groups without a name are indexed like the others.     *)
Skipped_Never(g) == FALSE
Skipped(g) == g.name = NoName

(* Mutant of Clashes: groups without scopes are not compared.                *)
Clashes_NotUnknown(g, s) ==
  s # ScopeUnknown /\ g.name \in DOMAIN groups[s] /\ groups[s][g.name] # g.id

Clashes(g, s) == g.name \in DOMAIN groups[s] /\ groups[s][g.name] # g.id

(* One iteration of PermissionGroupIndex: a group without a name is passed   *)
(* over, one without scopes is indexed as of unknown scope; a name already   *)
(* indexed in one of its scopes for another ID is an error.                  *)
AddGroup ==
  /\ pc = "index" /\ at < Len(listing)
  /\ LET g == listing[at + 1] IN
       /\ \/ Skipped(g)
          \/ \A s \in Buckets(g) : ~Clashes(g, s)
       /\ groups' = [s \in Scopes |->
            IF ~Skipped(g) /\ s \in Buckets(g) THEN Put(groups[s], g.name, g.id)
                                               ELSE groups[s]]
  /\ at' = at + 1
  /\ UNCHANGED <<pc, file, listing, cache, out, zones, seen>>

DuplicateGroup ==
  /\ pc = "index" /\ at < Len(listing)
  /\ LET g == listing[at + 1] IN
       ~Skipped(g) /\ \E s \in Buckets(g) : Clashes(g, s)
  /\ End("ambiguous")

GroupsIndexed ==
  /\ pc = "index" /\ at = Len(listing)
  /\ pc' = "translate"
  /\ seen' = {<<z, zones[z]>> : z \in DOMAIN zones}
  /\ UNCHANGED <<file, listing, at, groups, cache, out, zones>>

HasGroup(name, s) == name \in DOMAIN groups[s]
Resolves(name, scope) == HasGroup(name, CfScopeFor(scope)) \/ HasGroup(name, ScopeUnknown)

(* Mutant of PermissionGroupID: the unknown scope first.                     *)
PermissionGroupID_UnknownFirst(name, scope) ==
  IF HasGroup(name, ScopeUnknown) THEN groups[ScopeUnknown][name]
                                  ELSE groups[CfScopeFor(scope)][name]

(* The policy's scope first, then the unknown scope.                         *)
PermissionGroupID(name, scope) ==
  IF HasGroup(name, CfScopeFor(scope)) THEN groups[CfScopeFor(scope)][name]
                                       ELSE groups[ScopeUnknown][name]

Policy == file[Len(out) + 1]
Translating == pc = "translate" /\ Len(out) < Len(file)
GroupsResolve == \A n \in Items(Policy.permissions) : Resolves(n, Scope(Policy))

Translated(resource) ==
  out' = Append(out, [effect |-> NormalizedEffect(Policy), resource |-> resource,
                      groups |-> [k \in DOMAIN Policy.permissions |->
                        PermissionGroupID(Policy.permissions[k], Scope(Policy))]])

UnknownGroup == Translating /\ ~GroupsResolve /\ End("failed")

(* An account is named by its ID; the user scope is refused.                 *)
AccountScope ==
  /\ Translating /\ GroupsResolve
  /\ Scope(Policy) = "account" /\ IdLike(Policy.account)
  /\ Translated(<<ScopeAccount, Policy.account>>)
  /\ UNCHANGED <<pc, file, listing, at, groups, cache, zones, seen>>

ScopeRefused ==
  /\ Translating /\ GroupsResolve
  /\ Scope(Policy) # "zone" /\ (Scope(Policy) = "account" => ~IdLike(Policy.account))
  /\ End(IF Scope(Policy) = "" THEN "noscope" ELSE "failed")

(* A zone is named by its ID, or by a name resolved before or resolved now.  *)
NamesAZone == Translating /\ GroupsResolve /\ Scope(Policy) = "zone"
ZoneKnown ==
  /\ NamesAZone
  /\ \/ IdLike(Policy.zone) /\ Translated(<<ScopeZone, Policy.zone>>)
     \/ Policy.zone \in DOMAIN cache /\ Translated(<<ScopeZone, cache[Policy.zone]>>)
  /\ UNCHANGED <<pc, file, listing, at, groups, cache, zones, seen>>

(* Mutant of Remember: no cache.                                             *)
Remember_Not(name, z) == cache

(* The call may return zones of similar names; only an exact match counts.   *)
Matches(listed, name) == {z \in listed : zones[z] = name}
Remember(name, z) == Put(cache, name, z)

ResolveZoneID ==
  /\ NamesAZone /\ ~IdLike(Policy.zone) /\ Policy.zone \notin DOMAIN cache
  /\ \E listed \in SUBSET DOMAIN zones :
       /\ {z \in DOMAIN zones : zones[z] = Policy.zone} \subseteq listed
       /\ LET found == Matches(listed, Policy.zone) IN
            \/ /\ Cardinality(found) # 1
               /\ End("failed")
            \/ /\ Cardinality(found) = 1
               /\ \E z \in found : /\ cache' = Remember(Policy.zone, z)
                                   /\ Translated(<<ScopeZone, z>>)
               /\ UNCHANGED <<pc, file, listing, at, groups, zones, seen>>

AllTranslated == pc = "translate" /\ Len(out) = Len(file) /\ End("done")

(* Listing the groups or looking a zone up fails.                            *)
CallFails ==
  /\ Faults
  /\ \/ pc = "list"
     \/ NamesAZone /\ ~IdLike(Policy.zone) /\ Policy.zone \notin DOMAIN cache
  /\ End("failed")

(* Cloudflare: a zone is added or removed.                                   *)
ZonesChange ==
  /\ pc = "translate"
  /\ \E z \in ZoneIds :
       \/ z \in DOMAIN zones /\ zones' = [y \in DOMAIN zones \ {z} |-> zones[y]]
       \/ z \notin DOMAIN zones /\ \E n \in ZoneNames : zones' = Put(zones, z, n)
  /\ seen' = seen \cup {<<z, zones'[z]>> : z \in DOMAIN zones'}
  /\ UNCHANGED <<pc, file, listing, at, groups, cache, out>>

Next ==
  \/ Validate \/ ListPermissionGroups \/ AddGroup \/ DuplicateGroup \/ GroupsIndexed
  \/ UnknownGroup \/ AccountScope \/ ScopeRefused \/ ZoneKnown \/ ResolveZoneID
  \/ AllTranslated \/ CallFails \/ ZonesChange

Spec == Init /\ [][Next]_vars

-------------------------------------------------------------------------------
(* Every variable has its type: the index maps names to group IDs scope by   *)
(* scope, the cache zone names to zone IDs.                                  *)
TypeOK ==
  /\ pc \in Ended \cup {"validate", "list", "index", "translate"}
  /\ \E i \in Inputs : file = i.file /\ listing \in {<<>>, i.listing}
  /\ at \in 0..Len(listing)
  /\ groups \in [Scopes -> Partial(GroupNames, GroupIds)]
  /\ cache \in Partial(ZoneNames, ZoneIds) /\ out \in Seq(TokenPolicies)
  /\ zones \in Partial(ZoneIds, ZoneNames) /\ seen \subseteq ZoneIds \X ZoneNames

(* What the listing means, whatever its order.                               *)
Listed == {g \in Items(listing) : g.name # NoName}
Offered(name, s) == {g \in Listed : g.name = name /\ s \in Buckets(g)}
Ambiguous(name, s) == \E g, h \in Offered(name, s) : g.id # h.id

(* PermissionGroupIndex fails exactly when two listed groups share a name    *)
(* and a scope but not the ID, and otherwise holds every named group under   *)
(* each of its scopes and nothing else, in whatever order they are listed.   *)
IndexIsOrderFree ==
  LET clash == \E n \in GroupNames, s \in Scopes : Ambiguous(n, s) IN
  /\ pc = "ambiguous" => clash
  /\ pc \in {"translate", "done"} =>
       /\ ~clash
       /\ \A n \in GroupNames, s \in Scopes :
            /\ HasGroup(n, s) <=> Offered(n, s) # {}
            /\ \A g \in Offered(n, s) : groups[s][n] = g.id

(* What a policy is translated to: its effect; for each permission, in       *)
(* order, a group of that name offered for the policy's scope, or without    *)
(* scope when none is; and the resource it names, by its ID or, for a zone   *)
(* name, a zone that had exactly that name while the command ran.            *)
IsFor(group, name, p) ==
  LET here == Offered(name, CfScopeFor(Scope(p))) IN
  \E g \in IF here # {} THEN here ELSE Offered(name, ScopeUnknown) : g.id = group
Means(tp, p) ==
  /\ tp.effect = "deny" <=> p.effect = "deny"
  /\ Len(tp.groups) = Len(p.permissions)
  /\ \A k \in DOMAIN tp.groups : IsFor(tp.groups[k], p.permissions[k], p)
  /\ \/ tp.resource = <<ScopeAccount, p.account>> /\ ScopesSet(p) = {"account"}
     \/ tp.resource = <<ScopeZone, p.zone>> /\ ScopesSet(p) = {"zone"}
     \/ tp.resource[1] = ScopeZone /\ <<tp.resource[2], p.zone>> \in seen
GrantsAreAsked == \A k \in DOMAIN out : Means(out[k], file[k])

(* Policies that name the same zone are granted on the same zone, even if    *)
(* Cloudflare's zones change between their translations (resolver.zones).    *)
ZoneIsStable ==
  \A j, k \in DOMAIN out :
    file[j].zone # NoName /\ file[j].zone = file[k].zone => out[j].resource = out[k].resource

(* The default branch of resolveScope, "policy has no scope (validator       *)
(* should have caught this)", is never reached.                              *)
ValidatorCaughtIt == pc # "noscope"
================================================================================
