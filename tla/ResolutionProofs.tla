---------------------------- MODULE ResolutionProofs ----------------------------
(*****************************************************************************)
(* Proofs about Resolution for every spec file, every listing of permission  *)
(* groups, whatever zones come and go, and whichever calls fail.             *)
(*****************************************************************************)
EXTENDS Resolution, FiniteSetTheorems, TLAPS

-------------------------------------------------------------------------------
(* Operators                                                                 *)

LEMMA PutTyped ==
  ASSUME NEW S, NEW T, NEW f \in Partial(S, T), NEW k \in S, NEW v \in T
  PROVE  /\ Put(f, k, v) \in Partial(S, T)
         /\ DOMAIN Put(f, k, v) = DOMAIN f \cup {k} /\ DOMAIN f \subseteq S
         /\ Put(f, k, v)[k] = v
         /\ \A x \in DOMAIN f : x # k => Put(f, k, v)[x] = f[x] /\ f[x] \in T
<1>1. DOMAIN f \subseteq S /\ f \in [DOMAIN f -> T]
  BY DEF Partial
<1>2. Put(f, k, v) \in [DOMAIN f \cup {k} -> T]
  BY <1>1 DEF Put
<1>3. DOMAIN f \cup {k} \in SUBSET S
  BY <1>1
<1> QED BY <1>1, <1>2, <1>3, Zenon DEF Partial, Put

LEMMA EmptyTyped == ASSUME NEW S, NEW T PROVE Empty \in Partial(S, T) /\ DOMAIN Empty = {}
<1>1. Empty \in [{} -> T] /\ {} \in SUBSET S
  BY DEF Empty
<1> QED BY <1>1 DEF Partial, Empty

(* A valid policy sets exactly the scope that Scope finds.                   *)
LEMMA ValidScope ==
  ASSUME NEW p \in Policies, Valid(p)
  PROVE  /\ Scope(p) \in {"zone", "account", "user"} /\ ScopesSet(p) = {Scope(p)}
         /\ p.effect \in {"", "allow", "deny"}
         /\ Scope(p) = "zone" => p.zone # NoName
<1>0. p.user \in BOOLEAN
  BY DEF Policies
<1>1. /\ "zone" \in ScopesSet(p) <=> p.zone # NoName
      /\ "account" \in ScopesSet(p) <=> p.account # NoName
      /\ "user" \in ScopesSet(p) <=> p.user
  BY DEF ScopesSet
<1>2. PICK x : ScopesSet(p) = {x}
  <2>1. IsFiniteSet({"zone", "account", "user"})
    <3>1. IsFiniteSet({"zone"} \cup {"account"})
      BY FS_Singleton, FS_AddElement
    <3>2. IsFiniteSet(({"zone"} \cup {"account"}) \cup {"user"})
      BY <3>1, FS_AddElement
    <3>3. {"zone", "account", "user"} = ({"zone"} \cup {"account"}) \cup {"user"}
      OBVIOUS
    <3> QED BY <3>2, <3>3
  <2>2. ScopesSet(p) \subseteq {"zone", "account", "user"}
    BY DEF ScopesSet
  <2>3. IsFiniteSet(ScopesSet(p))
    BY <2>1, <2>2, FS_Subset
  <2> QED BY <2>3, FS_Singleton DEF Valid
<1>3. x \in {"zone", "account", "user"}
  BY <1>2 DEF ScopesSet
<1>4. Scope(p) = x
  <2>1. CASE x = "zone"
    BY <1>1, <1>2, <2>1 DEF Scope
  <2>2. CASE x = "account"
    BY <1>1, <1>2, <2>2 DEF Scope
  <2>3. CASE x = "user"
    BY <1>0, <1>1, <1>2, <2>3 DEF Scope
  <2> QED BY <1>3, <2>1, <2>2, <2>3
<1> QED BY <1>1, <1>2, <1>3, <1>4 DEF Valid

LEMMA PolicyTyped ==
  ASSUME NEW p \in Policies
  PROVE  /\ p.permissions \in Seq(GroupNames \cup {NoName})
         /\ DOMAIN p.permissions = 1..Len(p.permissions) /\ Len(p.permissions) \in Nat
         /\ \A k \in DOMAIN p.permissions : p.permissions[k] \in GroupNames \cup {NoName}
<1>1. p.permissions \in Seq(GroupNames \cup {NoName})
  BY DEF Policies
<1> QED BY <1>1

LEMMA BucketsTyped ==
  ASSUME NEW g \in PermissionGroups
  PROVE  Buckets(g) \subseteq Scopes
  BY DEF PermissionGroups, Buckets, Scopes, ScopeUnknown

LEMMA CfScopeTyped == \A s : CfScopeFor(s) \in Scopes /\ ScopeUnknown \in Scopes
  BY DEF CfScopeFor, Scopes, ScopeAccount, ScopeZone, ScopeUser, ScopeUnknown

-------------------------------------------------------------------------------
(* The invariant                                                             *)

Stage ==
  /\ pc \in {"validate", "list"} => listing = <<>> /\ at = 0
  /\ pc \in {"validate", "list", "index"} => out = <<>> /\ DOMAIN cache = {}
  /\ pc \in {"list", "index", "translate"} => \A p \in Items(file) : Valid(p)
  /\ pc \in {"translate", "done"} => at = Len(listing)
  /\ Len(out) <= Len(file)
  /\ pc = "translate" => \A z \in DOMAIN zones : <<z, zones[z]>> \in seen
  /\ pc # "noscope"

(* The index holds what the groups passed so far offer, and no more.         *)
Holding ==
  /\ \A n \in GroupNames, s \in Scopes :
       HasGroup(n, s) => \E j \in 1..at : listing[j].name = n /\ s \in Buckets(listing[j])
                                          /\ groups[s][n] = listing[j].id
  /\ \A j \in 1..at : listing[j].name # NoName => \A s \in Buckets(listing[j]) :
       HasGroup(listing[j].name, s) /\ groups[s][listing[j].name] = listing[j].id
  /\ pc = "ambiguous" => \E n \in GroupNames, s \in Scopes : Ambiguous(n, s)

(* The resource of a policy on a zone is the ID it gives or the one cached.  *)
ZoneOf(r, p) ==
  Scope(p) = "zone" =>
    IF IdLike(p.zone) THEN r = <<ScopeZone, p.zone>>
                      ELSE p.zone \in DOMAIN cache /\ r = <<ScopeZone, cache[p.zone]>>
Grants ==
  /\ GrantsAreAsked
  /\ \A k \in DOMAIN out : Scope(file[k]) \in {"zone", "account", "user"} /\ ZoneOf(out[k].resource, file[k])
  /\ \A n \in DOMAIN cache : ~IdLike(n) /\ <<cache[n], n>> \in seen

Inv == TypeOK /\ Stage /\ Holding /\ Grants

LEMMA DataTyped ==
  ASSUME TypeOK
  PROVE  /\ file \in Seq(Policies) /\ listing \in Seq(PermissionGroups)
         /\ at \in Nat /\ at <= Len(listing)
         /\ \A s \in Scopes : groups[s] \in Partial(GroupNames, GroupIds)
<1>1. <<>> \in Seq(PermissionGroups)
  OBVIOUS
<1>2. listing \in Seq(PermissionGroups) /\ file \in Seq(Policies)
  BY <1>1, InputsAreTyped DEF TypeOK
<1> QED BY <1>2 DEF TypeOK

LEMMA InitInv == Init => Inv
<1> SUFFICES ASSUME Init PROVE Inv
  OBVIOUS
<1>1. TypeOK
  <2>1. groups \in [Scopes -> Partial(GroupNames, GroupIds)] /\ cache \in Partial(ZoneNames, ZoneIds)
    BY EmptyTyped DEF Init
  <2>2. \E i \in Inputs : file = i.file /\ listing \in {<<>>, i.listing}
    BY DEF Init
  <2>3. out \in Seq(TokenPolicies) /\ at \in 0..Len(listing)
    BY DEF Init
  <2> QED BY <2>1, <2>2, <2>3 DEF Init, TypeOK
<1>2. Stage
  BY <1>1, DataTyped, EmptyTyped DEF Init, Stage
<1>3. Holding
  BY EmptyTyped DEF Init, Holding, HasGroup
<1>4. Grants
  BY EmptyTyped DEF Init, Grants, GrantsAreAsked
<1> QED BY <1>1, <1>2, <1>3, <1>4 DEF Inv

(* An end changes nothing but how far the command is.                        *)
LEMMA EndKeeps ==
  ASSUME Inv, NEW how, End(how), how \in Ended \cup {"list"}, how # "noscope",
         how = "list" => pc = "validate" /\ \A p \in Items(file) : Valid(p),
         how = "done" => pc = "translate",
         how = "ambiguous" => \E n \in GroupNames, s \in Scopes : Ambiguous(n, s)
  PROVE  Inv'
<1>0. /\ pc' = how /\ file' = file /\ listing' = listing /\ at' = at /\ groups' = groups
      /\ cache' = cache /\ out' = out /\ zones' = zones /\ seen' = seen
  BY DEF End
<1>1. TypeOK'
  BY <1>0 DEF Inv, TypeOK
<1>2. Stage'
  BY <1>0 DEF Inv, Stage, Ended
<1>3. Holding'
  BY <1>0 DEF Inv, Holding, HasGroup, Ambiguous, Offered, Listed
<1>4. Grants'
  BY <1>0 DEF Inv, Grants, GrantsAreAsked, ZoneOf, Means, IsFor, Offered, Listed
<1> QED BY <1>1, <1>2, <1>3, <1>4 DEF Inv
LEMMA ValidateStep == ASSUME Inv, Validate PROVE Inv'
<1>1. CASE \A p \in Items(file) : Valid(p)
  BY <1>1, EndKeeps DEF Validate
<1>2. CASE ~\A p \in Items(file) : Valid(p)
  BY <1>2, EndKeeps DEF Validate, Ended
<1> QED BY <1>1, <1>2

LEMMA ListStep == ASSUME Inv, ListPermissionGroups PROVE Inv'
<1>0. /\ pc = "list" /\ pc' = "index" /\ file' = file /\ at' = at /\ groups' = groups
      /\ cache' = cache /\ out' = out /\ zones' = zones /\ seen' = seen
      /\ at = 0 /\ out = <<>>
      /\ \E i \in Inputs : file = i.file /\ listing' = i.listing
  BY DEF ListPermissionGroups, Inv, Stage
<1>1. TypeOK'
  <2>1. listing' \in Seq(PermissionGroups)
    BY <1>0, InputsAreTyped
  <2> QED BY <1>0, <2>1 DEF Inv, TypeOK
<1>2. Stage'
  BY <1>0 DEF Inv, Stage
<1>3. Holding'
  BY <1>0 DEF Inv, Holding, HasGroup
<1>4. Grants'
  BY <1>0 DEF Inv, Grants, GrantsAreAsked
<1> QED BY <1>1, <1>2, <1>3, <1>4 DEF Inv

(* One more group is indexed, under the name and the scopes it has.          *)
LEMMA AddGroupStep == ASSUME Inv, AddGroup PROVE Inv'
<1> DEFINE g == listing[at + 1]
<1>0. /\ pc = "index" /\ pc' = pc /\ file' = file /\ at' = at + 1 /\ listing' = listing
      /\ cache' = cache /\ out' = out /\ zones' = zones /\ seen' = seen
      /\ at < Len(listing)
      /\ Skipped(g) \/ \A s \in Buckets(g) : ~Clashes(g, s)
      /\ groups' = [s \in Scopes |->
            IF ~Skipped(g) /\ s \in Buckets(g) THEN Put(groups[s], g.name, g.id)
                                               ELSE groups[s]]
  BY DEF AddGroup
<1>1. /\ listing \in Seq(PermissionGroups) /\ at \in Nat /\ at + 1 \in 1..Len(listing)
      /\ \A s \in Scopes : groups[s] \in Partial(GroupNames, GroupIds)
  BY <1>0, DataTyped DEF Inv
<1>2. g \in PermissionGroups
  BY <1>1
<1> HIDE DEF g
<1>3. /\ g.id \in GroupIds /\ g.name \in GroupNames \cup {NoName} /\ Buckets(g) \subseteq Scopes
      /\ ~Skipped(g) => g.name \in GroupNames
  BY <1>2, BucketsTyped DEF PermissionGroups, Skipped
<1>4. ASSUME NEW s \in Scopes
      PROVE  /\ groups'[s] \in Partial(GroupNames, GroupIds)
             /\ ~(~Skipped(g) /\ s \in Buckets(g)) => groups'[s] = groups[s]
             /\ ~Skipped(g) /\ s \in Buckets(g) =>
                  /\ DOMAIN groups'[s] = DOMAIN groups[s] \cup {g.name}
                  /\ groups'[s][g.name] = g.id
                  /\ \A n \in DOMAIN groups[s] : n # g.name => groups'[s][n] = groups[s][n]
  <2>1. groups[s] \in Partial(GroupNames, GroupIds)
    BY <1>1
  <2>2. CASE ~Skipped(g) /\ s \in Buckets(g)
    <3>1. groups'[s] = Put(groups[s], g.name, g.id) /\ g.name \in GroupNames /\ g.id \in GroupIds
      BY <1>0, <1>3, <2>2
    <3>2. Put(groups[s], g.name, g.id) \in Partial(GroupNames, GroupIds)
      BY ONLY <2>1, <3>1, PutTyped
    <3>3. /\ DOMAIN Put(groups[s], g.name, g.id) = DOMAIN groups[s] \cup {g.name}
          /\ Put(groups[s], g.name, g.id)[g.name] = g.id
          /\ \A n \in DOMAIN groups[s] :
               n # g.name => Put(groups[s], g.name, g.id)[n] = groups[s][n]
      BY DEF Put
    <3> QED BY <2>2, <3>1, <3>2, <3>3
  <2>3. CASE ~(~Skipped(g) /\ s \in Buckets(g))
    BY <1>0, <2>1, <2>3
  <2> QED BY <2>2, <2>3
<1>5. TypeOK'
  <2>1. groups' \in [Scopes -> Partial(GroupNames, GroupIds)]
    BY <1>0, <1>4
  <2>2. at' \in 0..Len(listing')
    BY <1>0, <1>1
  <2> QED BY <1>0, <2>1, <2>2 DEF Inv, TypeOK
<1>6. Stage'
  BY <1>0 DEF Inv, Stage
<1>7. ASSUME NEW n \in GroupNames, NEW s \in Scopes, HasGroup(n, s)'
      PROVE  \E j \in 1..at' : listing[j].name = n /\ s \in Buckets(listing[j])
                                 /\ groups'[s][n] = listing[j].id
  <2>1. CASE ~Skipped(g) /\ s \in Buckets(g) /\ n = g.name
    <3>1. groups'[s][n] = g.id
      BY <1>4, <2>1
    <3>2. at + 1 \in 1..at'
      BY <1>0, <1>1
    <3> QED BY <2>1, <3>1, <3>2 DEF g
  <2>2. CASE ~(~Skipped(g) /\ s \in Buckets(g) /\ n = g.name)
    <3>1. HasGroup(n, s) /\ groups'[s][n] = groups[s][n]
      BY <1>4, <1>7, <2>2 DEF HasGroup
    <3>2. 1..at \subseteq 1..at'
      BY <1>0, <1>1
    <3> QED BY <3>1, <3>2 DEF Inv, Holding
  <2> QED BY <2>1, <2>2
<1>8. ASSUME NEW j \in 1..at', listing[j].name # NoName, NEW s \in Buckets(listing[j])
      PROVE  HasGroup(listing[j].name, s)' /\ groups'[s][listing[j].name] = listing[j].id
  <2>0. s \in Scopes
    BY <1>0, <1>1, <1>8, BucketsTyped
  <2>1. CASE j = at + 1
    <3>1. listing[j] = g /\ ~Skipped(g)
      BY <1>8, <2>1 DEF g, Skipped
    <3> QED BY <1>0, <1>4, <1>8, <2>0, <3>1 DEF HasGroup
  <2>2. CASE j # at + 1
    <3>1. j \in 1..at
      BY <1>0, <1>1, <2>2
    <3>2. HasGroup(listing[j].name, s) /\ groups[s][listing[j].name] = listing[j].id
      BY <1>8, <3>1 DEF Inv, Holding
    <3>3. ~Skipped(g) /\ s \in Buckets(g) /\ listing[j].name = g.name => listing[j].id = g.id
      BY <1>0, <3>2 DEF Clashes, HasGroup
    <3> QED BY <1>0, <1>4, <2>0, <3>2, <3>3 DEF HasGroup
  <2> QED BY <2>1, <2>2
<1>9. Holding'
  BY <1>0, <1>7, <1>8 DEF Holding
<1>10. Grants'
  BY <1>0 DEF Inv, Stage, Grants, GrantsAreAsked
<1> QED BY <1>5, <1>6, <1>9, <1>10 DEF Inv

(* A clash is between two listed groups, in whatever order.                  *)
LEMMA DuplicateStep == ASSUME Inv, DuplicateGroup PROVE Inv'
<1> DEFINE g == listing[at + 1]
<1>1. /\ listing \in Seq(PermissionGroups) /\ at \in Nat /\ at + 1 \in 1..Len(listing)
      /\ End("ambiguous") /\ ~Skipped(g)
  BY DataTyped DEF Inv, DuplicateGroup
<1>2. PICK s \in Buckets(g) : Clashes(g, s)
  BY DEF DuplicateGroup
<1>3. g \in PermissionGroups /\ g \in Items(listing)
  BY <1>1 DEF Items
<1>4. s \in Scopes /\ g.name \in GroupNames
  BY <1>1, <1>2, <1>3, BucketsTyped DEF PermissionGroups, Skipped
<1>5. PICK j \in 1..at : listing[j].name = g.name /\ s \in Buckets(listing[j])
                          /\ groups[s][g.name] = listing[j].id
  BY <1>2, <1>4 DEF Inv, Holding, Clashes, HasGroup
<1>6. listing[j] \in Items(listing) /\ listing[j].id # g.id
  BY <1>1, <1>2, <1>5 DEF Items, Clashes
<1>7. Ambiguous(g.name, s)
  BY <1>1, <1>2, <1>3, <1>5, <1>6 DEF Ambiguous, Offered, Listed, Skipped
<1> QED BY <1>1, <1>4, <1>7, EndKeeps DEF Ended

LEMMA IndexedStep == ASSUME Inv, GroupsIndexed PROVE Inv'
<1>0. /\ pc = "index" /\ pc' = "translate" /\ file' = file /\ at' = at /\ listing' = listing
      /\ groups' = groups /\ cache' = cache /\ out' = out /\ zones' = zones
      /\ seen' = {<<z, zones[z]>> : z \in DOMAIN zones} /\ at = Len(listing)
      /\ out = <<>> /\ DOMAIN cache = {}
  BY DEF GroupsIndexed, Inv, Stage
<1>1. TypeOK'
  <2>1. seen' \subseteq ZoneIds \X ZoneNames
    BY <1>0 DEF Inv, TypeOK, Partial
  <2> QED BY <1>0, <2>1 DEF Inv, TypeOK
<1>2. Stage'
  BY <1>0 DEF Inv, Stage
<1>3. Holding'
  BY <1>0 DEF Inv, Holding, HasGroup
<1>4. Grants'
  BY <1>0 DEF Grants, GrantsAreAsked
<1> QED BY <1>1, <1>2, <1>3, <1>4 DEF Inv

(* Zones that come and go take nothing away from what was seen.              *)
LEMMA ZonesStep == ASSUME Inv, ZonesChange PROVE Inv'
<1>0. /\ pc = "translate" /\ pc' = pc /\ file' = file /\ at' = at /\ listing' = listing
      /\ groups' = groups /\ cache' = cache /\ out' = out
      /\ seen' = seen \cup {<<z, zones'[z]>> : z \in DOMAIN zones'}
  BY DEF ZonesChange
<1>1. zones' \in Partial(ZoneIds, ZoneNames)
  <2>1. zones \in Partial(ZoneIds, ZoneNames)
    BY DEF Inv, TypeOK
  <2>2. PICK z \in ZoneIds :
       \/ z \in DOMAIN zones /\ zones' = [y \in DOMAIN zones \ {z} |-> zones[y]]
       \/ z \notin DOMAIN zones /\ \E n \in ZoneNames : zones' = Put(zones, z, n)
    BY DEF ZonesChange
  <2>3. CASE zones' = [y \in DOMAIN zones \ {z} |-> zones[y]]
    <3>1. DOMAIN zones \ {z} \in SUBSET ZoneIds /\ zones' \in [DOMAIN zones \ {z} -> ZoneNames]
      BY <2>1, <2>3 DEF Partial
    <3> QED BY <3>1, Zenon DEF Partial
  <2>4. CASE \E n \in ZoneNames : zones' = Put(zones, z, n)
    <3>1. PICK n \in ZoneNames : zones' = Put(zones, z, n)
      BY <2>4
    <3>2. Put(zones, z, n) \in Partial(ZoneIds, ZoneNames)
      BY ONLY <2>1, PutTyped
    <3> QED BY <3>1, <3>2
  <2> QED BY <2>2, <2>3, <2>4
<1>2. TypeOK'
  <2>1. seen' \subseteq ZoneIds \X ZoneNames
    BY <1>0, <1>1 DEF Inv, TypeOK, Partial
  <2> QED BY <1>0, <1>1, <2>1 DEF Inv, TypeOK
<1>3. Stage'
  BY <1>0 DEF Inv, Stage
<1>4. Holding'
  BY <1>0 DEF Inv, Holding, HasGroup
<1>5. Grants'
  <2>1. ASSUME NEW tp, NEW p, Means(tp, p) PROVE Means(tp, p)'
    BY <1>0, <2>1 DEF Means, IsFor, Offered, Listed
  <2>2. GrantsAreAsked'
    BY <1>0, <2>1 DEF Inv, Grants, GrantsAreAsked
  <2> QED BY <1>0, <2>2 DEF Inv, Grants, ZoneOf
<1> QED BY <1>2, <1>3, <1>4, <1>5 DEF Inv

-------------------------------------------------------------------------------
(* One policy translated                                                     *)

(* The group found for a name is one the listing offers for the scope, or    *)
(* without scope when none is.                                               *)
LEMMA GroupFound ==
  ASSUME Inv, pc = "translate", NEW p, NEW n \in GroupNames, Resolves(n, Scope(p))
  PROVE  PermissionGroupID(n, Scope(p)) \in GroupIds /\ IsFor(PermissionGroupID(n, Scope(p)), n, p)
<1> DEFINE s == CfScopeFor(Scope(p))
<1>0. /\ s \in Scopes /\ ScopeUnknown \in Scopes /\ at = Len(listing)
      /\ listing \in Seq(PermissionGroups)
  BY CfScopeTyped, DataTyped DEF Inv, Stage
<1>1. ASSUME NEW t \in Scopes, HasGroup(n, t)
      PROVE  /\ groups[t][n] \in GroupIds
             /\ \E g \in Offered(n, t) : g.id = groups[t][n]
  <2>1. PICK j \in 1..at : listing[j].name = n /\ t \in Buckets(listing[j])
                             /\ groups[t][n] = listing[j].id
    BY <1>1 DEF Inv, Holding
  <2>2. listing[j] \in Items(listing) /\ listing[j] \in PermissionGroups /\ n # NoName
    BY <1>0, <2>1, InputsAreTyped DEF Items
  <2> QED BY <2>1, <2>2 DEF Offered, Listed, PermissionGroups
<1>2. ASSUME Offered(n, s) # {} PROVE HasGroup(n, s)
  <2>1. PICK g \in Items(listing) : g.name = n /\ g.name # NoName /\ s \in Buckets(g)
    BY <1>2 DEF Offered, Listed
  <2>2. PICK j \in DOMAIN listing : listing[j] = g
    BY <2>1 DEF Items
  <2>3. j \in 1..at
    BY <1>0, <2>2
  <2> QED BY <2>1, <2>2, <2>3 DEF Inv, Holding
<1>3. CASE HasGroup(n, s)
  BY <1>0, <1>1, <1>3 DEF PermissionGroupID, IsFor
<1>4. CASE ~HasGroup(n, s)
  <2>1. HasGroup(n, ScopeUnknown) /\ Offered(n, s) = {}
    BY <1>2, <1>4 DEF Resolves
  <2> QED BY <1>0, <1>1, <1>4, <2>1 DEF PermissionGroupID, IsFor
<1> QED BY <1>3, <1>4

(* The invariant after a policy was translated onto a resource it means.     *)
LEMMA TranslatedKeeps ==
  ASSUME Inv, Translating, GroupsResolve, NEW r \in Scopes \X (ZoneIds \cup AccountIds),
         Translated(r), UNCHANGED <<pc, file, listing, at, groups, zones, seen>>,
         cache' \in Partial(ZoneNames, ZoneIds), Scope(Policy) # "user",
         \A n \in DOMAIN cache : n \in DOMAIN cache' /\ cache'[n] = cache[n],
         \A n \in DOMAIN cache' : ~IdLike(n) /\ <<cache'[n], n>> \in seen,
         \/ Scope(Policy) = "account" /\ r = <<ScopeAccount, Policy.account>>
         \/ Scope(Policy) = "zone" /\ IdLike(Policy.zone) /\ r = <<ScopeZone, Policy.zone>>
         \/ /\ Scope(Policy) = "zone" /\ ~IdLike(Policy.zone)
            /\ Policy.zone \in DOMAIN cache' /\ r = <<ScopeZone, cache'[Policy.zone]>>
  PROVE  Inv'
<1> DEFINE k0 == Len(out) + 1
           t == [effect |-> NormalizedEffect(Policy), resource |-> r,
                 groups |-> [k \in DOMAIN Policy.permissions |->
                   PermissionGroupID(Policy.permissions[k], Scope(Policy))]]
<1>0. /\ pc = "translate" /\ pc' = pc /\ file' = file /\ listing' = listing /\ at' = at
      /\ groups' = groups /\ zones' = zones /\ seen' = seen /\ out' = Append(out, t)
  BY DEF Translating, Translated
<1>1. /\ file \in Seq(Policies) /\ out \in Seq(TokenPolicies) /\ Len(out) < Len(file)
      /\ Policy \in Policies /\ Valid(Policy) /\ Policy = file[k0]
  <2>1. file \in Seq(Policies) /\ out \in Seq(TokenPolicies) /\ Len(out) < Len(file)
    BY DataTyped DEF Inv, TypeOK, Translating
  <2>2. k0 \in DOMAIN file
    BY <2>1
  <2> QED BY <1>0, <2>1, <2>2 DEF Policy, Items, Inv, Stage
<1>2. /\ t.effect = NormalizedEffect(Policy) /\ t.resource = r
      /\ t.groups = [k \in DOMAIN Policy.permissions |->
                      PermissionGroupID(Policy.permissions[k], Scope(Policy))]
      /\ t = [effect |-> t.effect, resource |-> t.resource, groups |-> t.groups]
  OBVIOUS
<1> HIDE DEF t
<1>3. ASSUME NEW k \in DOMAIN Policy.permissions
      PROVE  /\ t.groups[k] \in GroupIds
             /\ IsFor(t.groups[k], Policy.permissions[k], Policy)
  <2>1. Policy.permissions[k] \in Items(Policy.permissions)
    BY DEF Items
  <2>2. Policy.permissions[k] \in GroupNames /\ Resolves(Policy.permissions[k], Scope(Policy))
    BY <1>1, <2>1, PolicyTyped DEF Valid, GroupsResolve
  <2> QED BY <1>0, <1>2, <2>2, GroupFound
<1>4. t.groups \in Seq(GroupIds) /\ Len(t.groups) = Len(Policy.permissions)
      /\ DOMAIN t.groups = DOMAIN Policy.permissions
  <2>1. PICK n \in Nat : n = Len(Policy.permissions) /\ DOMAIN Policy.permissions = 1..n
    BY <1>1, PolicyTyped
  <2>2. t.groups \in [1..n -> GroupIds]
    BY ONLY <1>2, <1>3, <2>1
  <2> QED BY ONLY <2>1, <2>2
<1>5. /\ Policy.effect \in {"", "allow", "deny"} /\ ScopesSet(Policy) = {Scope(Policy)}
      /\ Scope(Policy) \in {"zone", "account", "user"}
  BY <1>1, ValidScope
<1>6. t \in TokenPolicies
  <2>1. t.effect \in {"allow", "deny"}
    BY <1>2, <1>5 DEF NormalizedEffect
  <2> QED BY <1>2, <1>4, <2>1 DEF TokenPolicies
<1>7. Means(t, Policy)
  <2>1. t.effect = "deny" <=> Policy.effect = "deny"
    BY <1>2, <1>5 DEF NormalizedEffect
  <2>2. \A k \in DOMAIN t.groups : IsFor(t.groups[k], Policy.permissions[k], Policy)
    BY <1>3, <1>4
  <2>3. \/ t.resource = <<ScopeAccount, Policy.account>> /\ ScopesSet(Policy) = {"account"}
        \/ t.resource = <<ScopeZone, Policy.zone>> /\ ScopesSet(Policy) = {"zone"}
        \/ t.resource[1] = ScopeZone /\ <<t.resource[2], Policy.zone>> \in seen
    <3>1. CASE Scope(Policy) = "account"
      BY <1>2, <1>5, <3>1
    <3>2. CASE Scope(Policy) = "zone" /\ IdLike(Policy.zone)
      BY <1>2, <1>5, <3>2
    <3>3. CASE Scope(Policy) = "zone" /\ ~IdLike(Policy.zone)
      <4>1. PICK z : z = cache'[Policy.zone]
        OBVIOUS
      <4>2. t.resource = <<ScopeZone, z>> /\ <<z, Policy.zone>> \in seen
        BY <1>2, <3>3, <4>1
      <4> QED BY ONLY <4>2
    <3> QED BY <1>5, <3>1, <3>2, <3>3
  <2> QED BY <1>4, <2>1, <2>2, <2>3 DEF Means
<1> HIDE DEF k0
<1>8. /\ DOMAIN out' = DOMAIN out \cup {k0} /\ DOMAIN out = 1..Len(out) /\ k0 = Len(out) + 1
      /\ out'[k0] = t /\ \A k \in DOMAIN out : out'[k] = out[k]
      /\ Len(out') = Len(out) + 1 /\ out' \in Seq(TokenPolicies)
  BY <1>0, <1>1, <1>6 DEF k0
<1>9. TypeOK'
  BY <1>0, <1>8 DEF Inv, TypeOK
<1>10. Stage'
  BY <1>0, <1>1, <1>8 DEF Inv, Stage
<1>11. Holding'
  BY <1>0 DEF Inv, Holding, HasGroup
<1>12. Grants'
  <2>1. ASSUME NEW tp, NEW p PROVE Means(tp, p)' <=> Means(tp, p)
    BY <1>0 DEF Means, IsFor, Offered, Listed
  <2>2. GrantsAreAsked'
    BY <1>0, <1>1, <1>7, <1>8, <2>1 DEF Inv, Grants, GrantsAreAsked
  <2>3. ASSUME NEW k \in DOMAIN out'
        PROVE  Scope(file[k]) \in {"zone", "account", "user"} /\ ZoneOf(out[k].resource, file[k])'
    <3>1. CASE k = k0
      BY <1>0, <1>1, <1>2, <1>5, <1>8, <3>1 DEF ZoneOf
    <3>2. CASE k \in DOMAIN out
      <4>1. Scope(file[k]) \in {"zone", "account", "user"} /\ ZoneOf(out[k].resource, file[k])
        BY <3>2 DEF Inv, Grants
      <4> QED BY <1>0, <1>8, <3>2, <4>1 DEF ZoneOf
    <3> QED BY <1>8, <3>1, <3>2
  <2> QED BY <1>0, <2>2, <2>3 DEF Grants
<1> QED BY <1>9, <1>10, <1>11, <1>12 DEF Inv
LEMMA PolicyIsValid ==
  ASSUME Inv, Translating
  PROVE  Policy \in Policies /\ Valid(Policy)
<1>1. file \in Seq(Policies) /\ Len(out) \in Nat /\ Len(out) < Len(file)
  BY DataTyped DEF Inv, TypeOK, Translating
<1>2. Len(out) + 1 \in DOMAIN file
  BY <1>1
<1> QED BY <1>1, <1>2 DEF Policy, Items, Inv, Stage, Translating

LEMMA AccountStep == ASSUME Inv, AccountScope PROVE Inv'
<1>0. /\ Translating /\ GroupsResolve /\ Scope(Policy) = "account" /\ IdLike(Policy.account)
      /\ Translated(<<ScopeAccount, Policy.account>>) /\ cache' = cache
      /\ UNCHANGED <<pc, file, listing, at, groups, zones, seen>>
  BY DEF AccountScope
<1>1. <<ScopeAccount, Policy.account>> \in Scopes \X (ZoneIds \cup AccountIds)
  BY <1>0 DEF IdLike, Scopes
<1>2. /\ cache' \in Partial(ZoneNames, ZoneIds)
      /\ \A n \in DOMAIN cache' : ~IdLike(n) /\ <<cache'[n], n>> \in seen
  BY <1>0 DEF Inv, TypeOK, Grants
<1> QED BY <1>0, <1>1, <1>2, TranslatedKeeps

LEMMA ZoneKnownStep == ASSUME Inv, ZoneKnown PROVE Inv'
<1>0. /\ Translating /\ GroupsResolve /\ Scope(Policy) = "zone" /\ cache' = cache
      /\ UNCHANGED <<pc, file, listing, at, groups, zones, seen>>
  BY DEF ZoneKnown, NamesAZone
<1>1. /\ cache \in Partial(ZoneNames, ZoneIds)
      /\ \A n \in DOMAIN cache : ~IdLike(n) /\ <<cache[n], n>> \in seen
      /\ seen \subseteq ZoneIds \X ZoneNames
  BY DEF Inv, TypeOK, Grants
<1>2. CASE IdLike(Policy.zone) /\ Translated(<<ScopeZone, Policy.zone>>)
  <2>1. <<ScopeZone, Policy.zone>> \in Scopes \X (ZoneIds \cup AccountIds)
    BY <1>2 DEF IdLike, Scopes
  <2> QED BY <1>0, <1>1, <1>2, <2>1, TranslatedKeeps
<1>3. CASE Policy.zone \in DOMAIN cache /\ Translated(<<ScopeZone, cache[Policy.zone]>>)
  <2>1. cache[Policy.zone] \in ZoneIds /\ ~IdLike(Policy.zone)
    BY <1>1, <1>3
  <2>2. <<ScopeZone, cache[Policy.zone]>> \in Scopes \X (ZoneIds \cup AccountIds)
    BY <2>1 DEF Scopes
  <2> QED BY <1>0, <1>1, <1>3, <2>1, <2>2, TranslatedKeeps
<1> QED BY <1>2, <1>3 DEF ZoneKnown

LEMMA ResolveZoneStep == ASSUME Inv, ResolveZoneID PROVE Inv'
<1>0. /\ Translating /\ GroupsResolve /\ Scope(Policy) = "zone" /\ ~IdLike(Policy.zone)
      /\ Policy.zone \notin DOMAIN cache
  BY DEF ResolveZoneID, NamesAZone
<1>1. PICK listed \in SUBSET DOMAIN zones :
         LET found == Matches(listed, Policy.zone) IN
            \/ /\ Cardinality(found) # 1
               /\ End("failed")
            \/ /\ Cardinality(found) = 1
               /\ \E z \in found : /\ cache' = Remember(Policy.zone, z)
                                   /\ Translated(<<ScopeZone, z>>)
               /\ UNCHANGED <<pc, file, listing, at, groups, zones, seen>>
  BY DEF ResolveZoneID
<1>2. CASE End("failed")
  BY <1>2, EndKeeps DEF Ended
<1>3. CASE ~End("failed")
  <2>1. PICK z \in Matches(listed, Policy.zone) :
          /\ cache' = Put(cache, Policy.zone, z) /\ Translated(<<ScopeZone, z>>)
          /\ UNCHANGED <<pc, file, listing, at, groups, zones, seen>>
    BY <1>1, <1>3 DEF Remember
  <2>2. z \in DOMAIN zones /\ zones[z] = Policy.zone /\ pc = "translate"
    BY <1>0, <2>1 DEF Matches, Translating
  <2>3. <<z, Policy.zone>> \in seen /\ z \in ZoneIds /\ Policy.zone \in ZoneNames
    <3>1. <<z, Policy.zone>> \in seen
      BY <2>2 DEF Inv, Stage
    <3> QED BY <3>1 DEF Inv, TypeOK
  <2>4. cache \in Partial(ZoneNames, ZoneIds)
    BY DEF Inv, TypeOK
  <2>5. Put(cache, Policy.zone, z) \in Partial(ZoneNames, ZoneIds)
    BY ONLY <2>3, <2>4, PutTyped
  <2>6. /\ DOMAIN cache' = DOMAIN cache \cup {Policy.zone} /\ cache'[Policy.zone] = z
        /\ \A n \in DOMAIN cache : cache'[n] = cache[n]
    BY <1>0, <2>1 DEF Put
  <2>7. /\ \A n \in DOMAIN cache : n \in DOMAIN cache' /\ cache'[n] = cache[n]
        /\ \A n \in DOMAIN cache' : ~IdLike(n) /\ <<cache'[n], n>> \in seen
    BY <1>0, <2>3, <2>6 DEF Inv, Grants
  <2>8. <<ScopeZone, z>> \in Scopes \X (ZoneIds \cup AccountIds)
    BY <2>3 DEF Scopes
  <2>9. cache' \in Partial(ZoneNames, ZoneIds) /\ Policy.zone \in DOMAIN cache'
        /\ <<ScopeZone, z>> = <<ScopeZone, cache'[Policy.zone]>>
    BY <2>1, <2>5, <2>6
  <2> QED BY <1>0, <2>1, <2>7, <2>8, <2>9, TranslatedKeeps
<1> QED BY <1>2, <1>3

LEMMA RefusedStep == ASSUME Inv, ScopeRefused PROVE Inv'
<1>1. Scope(Policy) # ""
  BY PolicyIsValid, ValidScope DEF ScopeRefused
<1>2. End("failed")
  BY <1>1 DEF ScopeRefused
<1> QED BY <1>2, EndKeeps DEF Ended

LEMMA StepInv == Inv /\ [Next]_vars => Inv'
<1> SUFFICES ASSUME Inv, [Next]_vars PROVE Inv'
  OBVIOUS
<1>1. CASE UnknownGroup \/ CallFails
  <2>1. End("failed")
    BY <1>1 DEF UnknownGroup, CallFails
  <2> QED BY <2>1, EndKeeps DEF Ended
<1>2. CASE AllTranslated
  <2>1. End("done") /\ pc = "translate"
    BY <1>2 DEF AllTranslated
  <2> QED BY <2>1, EndKeeps DEF Ended
<1>3. CASE UNCHANGED vars
  <2>0. /\ pc' = pc /\ file' = file /\ listing' = listing /\ at' = at /\ groups' = groups
        /\ cache' = cache /\ out' = out /\ zones' = zones /\ seen' = seen
    BY <1>3 DEF vars
  <2>1. TypeOK' /\ Stage'
    BY <2>0 DEF Inv, TypeOK, Stage
  <2>2. Holding'
    <3>1. \A n, s : Ambiguous(n, s)' <=> Ambiguous(n, s)
      BY <2>0 DEF Ambiguous, Offered, Listed
    <3> QED BY <2>0, <3>1 DEF Inv, Holding, HasGroup
  <2>3. Grants'
    <3>1. \A tp, p : Means(tp, p) => Means(tp, p)'
      BY <2>0 DEF Means, IsFor, Offered, Listed
    <3>2. GrantsAreAsked'
      BY <2>0, <3>1 DEF Inv, Grants, GrantsAreAsked
    <3> QED BY <2>0, <3>2 DEF Inv, Grants, ZoneOf
  <2> QED BY <2>1, <2>2, <2>3 DEF Inv
<1> QED
  BY <1>1, <1>2, <1>3, ValidateStep, ListStep, AddGroupStep, DuplicateStep, IndexedStep,
     AccountStep, RefusedStep, ZoneKnownStep, ResolveZoneStep, ZonesStep DEF Next

-------------------------------------------------------------------------------
(* TypeOK: every variable has its type.                                      *)
THEOREM TypeCorrect == Spec => []TypeOK
<1>1. Inv => TypeOK
  BY DEF Inv
<1> QED BY <1>1, InitInv, StepInv, PTL DEF Spec

(* IndexIsOrderFree: the index of permission groups is what the listing      *)
(* offers, in whatever order (permission_groups.go:63-94).                   *)
THEOREM IndexMeansTheListing == Spec => []IndexIsOrderFree
<1>1. ASSUME Inv PROVE IndexIsOrderFree
  <2>0. listing \in Seq(PermissionGroups) /\ NoName \notin GroupNames
    BY <1>1, DataTyped, InputsAreTyped DEF Inv
  <2>1. pc = "ambiguous" => \E n \in GroupNames, s \in Scopes : Ambiguous(n, s)
    BY <1>1 DEF Inv, Holding
  <2>2. ASSUME pc \in {"translate", "done"}, NEW n \in GroupNames, NEW s \in Scopes,
               NEW g \in Offered(n, s)
        PROVE  HasGroup(n, s) /\ groups[s][n] = g.id
    <3>1. PICK j \in DOMAIN listing : listing[j] = g
      BY DEF Offered, Listed, Items
    <3>2. j \in 1..at
      BY <1>1, <2>0, <2>2, <3>1 DEF Inv, Stage
    <3> QED BY <1>1, <2>2, <3>1, <3>2 DEF Inv, Holding, Offered, Listed
  <2>3. ASSUME pc \in {"translate", "done"}, NEW n \in GroupNames, NEW s \in Scopes, HasGroup(n, s)
        PROVE  Offered(n, s) # {}
    <3>1. PICK j \in 1..at : listing[j].name = n /\ s \in Buckets(listing[j])
      BY <1>1, <2>3 DEF Inv, Holding
    <3>2. j \in DOMAIN listing
      <4>1. at = Len(listing)
        BY <1>1, <2>3 DEF Inv, Stage
      <4> QED BY <2>0, <4>1
    <3>3. listing[j] \in Offered(n, s)
      BY <2>0, <3>1, <3>2 DEF Offered, Listed, Items
    <3> QED BY <3>3
  <2>4. ASSUME pc \in {"translate", "done"}, NEW n \in GroupNames, NEW s \in Scopes
        PROVE  ~Ambiguous(n, s)
    BY <2>2, <2>4 DEF Ambiguous
  <2> QED BY <2>1, <2>2, <2>3, <2>4 DEF IndexIsOrderFree
<1> QED BY <1>1, InitInv, StepInv, PTL DEF Spec

(* GrantsAreAsked: what apply sends is what the spec file asks for           *)
(* (translate.go:28-100).                                                    *)
THEOREM GrantsFollowTheFile == Spec => []GrantsAreAsked
<1>1. Inv => GrantsAreAsked
  BY DEF Inv, Grants
<1> QED BY <1>1, InitInv, StepInv, PTL DEF Spec

(* ValidatorCaughtIt: no policy without a scope gets past the validator, so  *)
(* resolveScope's last return is never reached (translate.go:28-100).        *)
THEOREM TranslationNeedsNoScopeCheck == Spec => []ValidatorCaughtIt
<1>1. Inv => ValidatorCaughtIt
  BY DEF Inv, Stage, ValidatorCaughtIt
<1> QED BY <1>1, InitInv, StepInv, PTL DEF Spec

(* ZoneIsStable: two policies on one zone name are sent with one zone ID,    *)
(* whatever happens to the zones meanwhile (resolver.go:59-95).              *)
THEOREM OneZonePerName == Spec => []ZoneIsStable
<1>1. ASSUME Inv, NEW j \in DOMAIN out, NEW k \in DOMAIN out,
             file[j].zone # NoName, file[j].zone = file[k].zone
      PROVE  out[j].resource = out[k].resource
  <2>1. Scope(file[j]) = "zone" /\ Scope(file[k]) = "zone"
    BY <1>1 DEF Scope
  <2> QED BY <1>1, <2>1 DEF Inv, Grants, ZoneOf
<1>2. Inv => ZoneIsStable
  BY <1>1 DEF ZoneIsStable
<1> QED BY <1>2, InitInv, StepInv, PTL DEF Spec
================================================================================
