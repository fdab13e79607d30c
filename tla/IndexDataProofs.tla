---------------------------- MODULE IndexDataProofs ----------------------------
(*****************************************************************************)
(* What the operators on indexes return, for any profiles, names and IDs.    *)
(*****************************************************************************)
EXTENDS IndexData, TLAPS

(* What it is to be a partial function.                                      *)
LEMMA PartialFunctions ==
  ASSUME NEW S, NEW T, NEW f
  PROVE  f \in Partial(S, T) <=>
           f = [x \in DOMAIN f |-> f[x]] /\ DOMAIN f \subseteq S /\ \A x \in DOMAIN f : f[x] \in T
BY DEF Partial

(* The function that is defined nowhere is partial.                          *)
LEMMA NothingIsPartial ==
  ASSUME NEW S, NEW T
  PROVE  NoTokens \in Partial(S, T)
<1>1. {} \in SUBSET S
  OBVIOUS
<1>2. NoTokens \in [{} -> T]
  BY DEF NoTokens
<1> QED
  BY <1>1, <1>2 DEF Partial

(* An index has the fields current and profiles and no other.                *)
LEMMA IndexFields ==
  ASSUME NEW i \in Indexes
  PROVE  /\ i.current \in Profiles \cup {NoProfile}
         /\ i.profiles \in Partial(Profiles, Partial(Names, Ids))
         /\ i = [current |-> i.current, profiles |-> i.profiles]
BY DEF Indexes

(* NewIndex (index.go:64-67) is an index.                                    *)
LEMMA NewIndexTyped == NewIndex \in Indexes
<1>1. NoTokens \in Partial(Profiles, Partial(Names, Ids))
  BY NothingIsPartial
<1> QED
  BY <1>1 DEF NewIndex, Indexes

(* Profile.All gives names their IDs, also for a profile that is not there.  *)
LEMMA AllTyped ==
  ASSUME NEW i \in Indexes, NEW q
  PROVE  All(i, q) \in Partial(Names, Ids)
<1>1. NoTokens \in Partial(Names, Ids)
  BY NothingIsPartial
<1>2. ASSUME HasProfile(i, q) PROVE i.profiles[q] \in Partial(Names, Ids)
  <2>1. i.profiles \in Partial(Profiles, Partial(Names, Ids))
    BY IndexFields
  <2> QED
    BY <1>2, <2>1, PartialFunctions DEF HasProfile
<1> QED
  BY <1>1, <1>2 DEF All

(* Index.Profile creates its profile and changes no other.                   *)
LEMMA ProfileTyped ==
  ASSUME NEW i \in Indexes, NEW q \in Profiles
  PROVE  /\ Profile(i, q) \in Indexes
         /\ q \in DOMAIN Profile(i, q).profiles
<1> DEFINE f == [r \in DOMAIN i.profiles \cup {q} |-> All(i, r)]
<1>1. DOMAIN i.profiles \subseteq Profiles
  BY IndexFields, PartialFunctions
<1>2. f \in Partial(Profiles, Partial(Names, Ids))
  <2>1. f = [x \in DOMAIN f |-> f[x]] /\ DOMAIN f \subseteq Profiles
    BY <1>1
  <2>2. \A x \in DOMAIN f : f[x] \in Partial(Names, Ids)
    BY AllTyped
  <2> HIDE DEF f
  <2> QED
    BY <2>1, <2>2, PartialFunctions
<1>3. Profile(i, q) = [current |-> i.current, profiles |-> f]
  BY IndexFields DEF Profile
<1>4. q \in DOMAIN f
  OBVIOUS
<1> HIDE DEF f
<1> QED
  BY <1>2, <1>3, <1>4, IndexFields DEF Indexes

(* Replacing the tokens of one profile leaves an index.                      *)
LEMMA WithTokens ==
  ASSUME NEW i \in Indexes, NEW q \in Profiles, NEW t \in Partial(Names, Ids)
  PROVE  [i EXCEPT !.profiles[q] = t] \in Indexes
<1> DEFINE f == [i.profiles EXCEPT ![q] = t]
<1>1. /\ i.profiles = [x \in DOMAIN i.profiles |-> i.profiles[x]]
      /\ DOMAIN i.profiles \subseteq Profiles
      /\ \A x \in DOMAIN i.profiles : i.profiles[x] \in Partial(Names, Ids)
  BY IndexFields, PartialFunctions
<1>2. f \in Partial(Profiles, Partial(Names, Ids))
  <2>1. DOMAIN f = DOMAIN i.profiles /\ f = [x \in DOMAIN f |-> f[x]]
    BY <1>1
  <2>2. \A x \in DOMAIN f : f[x] \in Partial(Names, Ids)
    BY <1>1
  <2> HIDE DEF f
  <2> QED
    BY <1>1, <2>1, <2>2, PartialFunctions
<1>3. [i EXCEPT !.profiles[q] = t] = [current |-> i.current, profiles |-> f]
  BY IndexFields
<1> HIDE DEF f
<1> QED
  BY <1>2, <1>3, IndexFields DEF Indexes

(* Profile.Set leaves an index.                                              *)
LEMMA SetTyped ==
  ASSUME NEW i \in Indexes, NEW q \in Profiles, NEW f \in Partial(Names, Ids)
  PROVE  Set(i, q, f) \in Indexes
<1> DEFINE j == Profile(i, q)
           u == j.profiles[q]
           t == [n \in DOMAIN u \cup DOMAIN f |-> IF n \in DOMAIN f THEN f[n] ELSE u[n]]
<1>1. j \in Indexes /\ q \in DOMAIN j.profiles
  BY ProfileTyped
<1>2. u \in Partial(Names, Ids)
  <2> HIDE DEF j
  <2> QED
    BY <1>1, IndexFields, PartialFunctions
<1>3. t \in Partial(Names, Ids)
  <2> HIDE DEF u
  <2>1. DOMAIN u \subseteq Names /\ DOMAIN f \subseteq Names
    BY <1>2, PartialFunctions
  <2>2. \A n \in DOMAIN t : t[n] \in Ids
    BY <1>2, PartialFunctions
  <2>3. t = [n \in DOMAIN t |-> t[n]] /\ DOMAIN t \subseteq Names
    BY <2>1
  <2> HIDE DEF t
  <2> QED
    BY <2>2, <2>3, PartialFunctions
<1>4. Set(i, q, f) = [j EXCEPT !.profiles[q] = t]
  BY DEF Set
<1> HIDE DEF j, u, t
<1> QED
  BY <1>1, <1>3, <1>4, WithTokens

(* Profile.Delete leaves an index.                                           *)
LEMMA DeleteTyped ==
  ASSUME NEW i \in Indexes, NEW q \in Profiles, NEW n
  PROVE  Delete(i, q, n) \in Indexes
<1> DEFINE j == Profile(i, q)
           u == j.profiles[q]
           t == [m \in DOMAIN u \ {n} |-> u[m]]
<1>1. j \in Indexes /\ q \in DOMAIN j.profiles
  BY ProfileTyped
<1>2. u \in Partial(Names, Ids)
  <2> HIDE DEF j
  <2> QED
    BY <1>1, IndexFields, PartialFunctions
<1>3. t \in Partial(Names, Ids)
  <2> HIDE DEF u
  <2>1. t = [m \in DOMAIN t |-> t[m]] /\ DOMAIN t \subseteq Names /\ \A m \in DOMAIN t : t[m] \in Ids
    BY <1>2, PartialFunctions
  <2> HIDE DEF t
  <2> QED
    BY <2>1, PartialFunctions
<1>4. Delete(i, q, n) = [j EXCEPT !.profiles[q] = t]
  BY DEF Delete
<1> HIDE DEF j, u, t
<1> QED
  BY <1>1, <1>3, <1>4, WithTokens

(* So does moving the current pointer.                                       *)
LEMMA UseTyped ==
  ASSUME NEW i \in Indexes, NEW q \in Profiles
  PROVE  UseProfile(i, q) \in Indexes
BY ProfileTyped, IndexFields DEF UseProfile, Indexes

(* Every callback turns an index into an index.                              *)
LEMMA MutationsTyped ==
  ASSUME NEW i \in Indexes
  PROVE  Mutations(i) \subseteq Indexes /\ Applied(i) \subseteq Indexes
BY SetTyped, DeleteTyped, UseTyped, ProfileTyped DEF Mutations, Applied, AddProfile

(* What `profile use`, `profile add` and apply do to an index: which         *)
(* profiles it has, which is current, and which tokens they have.            *)
LEMMA ProfileDoes ==
  ASSUME NEW i \in Indexes, NEW q \in Profiles
  PROVE  /\ Profile(i, q).current = i.current
         /\ DOMAIN Profile(i, q).profiles = DOMAIN i.profiles \cup {q}
         /\ \A r : All(Profile(i, q), r) = All(i, r)
<1>1. Profile(i, q) = [current |-> i.current,
                       profiles |-> [r \in DOMAIN i.profiles \cup {q} |-> All(i, r)]]
  BY IndexFields DEF Profile
<1>2. \A r : r \notin DOMAIN i.profiles => All(i, r) = NoTokens
  BY DEF All, HasProfile
<1> QED BY <1>1, <1>2 DEF All, HasProfile

LEMMA UseProfileDoes ==
  ASSUME NEW i \in Indexes, NEW q \in Profiles
  PROVE  /\ UseProfile(i, q) \in Indexes
         /\ UseProfile(i, q).current = q
         /\ DOMAIN UseProfile(i, q).profiles = DOMAIN i.profiles \cup {q}
         /\ \A r : All(UseProfile(i, q), r) = All(i, r)
<1>1. Profile(i, q) \in Indexes
  BY ProfileTyped
<1>2. UseProfile(i, q) = [current |-> q, profiles |-> Profile(i, q).profiles]
  BY <1>1, IndexFields DEF UseProfile
<1>3. UseProfile(i, q) \in Indexes
  BY <1>1, <1>2, IndexFields DEF Indexes
<1>4. \A r : All(UseProfile(i, q), r) = All(Profile(i, q), r)
  BY <1>2 DEF All, HasProfile
<1> QED BY <1>2, <1>3, <1>4, ProfileDoes

LEMMA AddProfileDoes ==
  ASSUME NEW i \in Indexes, NEW q \in Profiles
  PROVE  /\ AddProfile(i, q) \in Indexes
         /\ AddProfile(i, q).current = IF i.current = NoProfile THEN q ELSE i.current
         /\ DOMAIN AddProfile(i, q).profiles = DOMAIN i.profiles \cup {q}
         /\ \A r : All(AddProfile(i, q), r) = All(i, r)
<1>1. CASE i.current = NoProfile
  BY <1>1, UseProfileDoes DEF AddProfile
<1>2. CASE i.current # NoProfile
  BY <1>2, ProfileDoes, ProfileTyped DEF AddProfile
<1> QED BY <1>1, <1>2

LEMMA SetDoes ==
  ASSUME NEW i \in Indexes, NEW q \in Profiles, NEW f \in Partial(Names, Ids)
  PROVE  /\ Set(i, q, f) \in Indexes
         /\ Set(i, q, f).current = i.current
         /\ DOMAIN Set(i, q, f).profiles = DOMAIN i.profiles \cup {q}
         /\ \A r : r # q => All(Set(i, q, f), r) = All(i, r)
         /\ \A n \in DOMAIN All(Set(i, q, f), q) :
              \/ n \in DOMAIN f /\ All(Set(i, q, f), q)[n] = f[n]
              \/ n \in DOMAIN All(i, q) /\ All(Set(i, q, f), q)[n] = All(i, q)[n]
<1> DEFINE j == Profile(i, q)
           u == j.profiles[q]
           t == [n \in DOMAIN u \cup DOMAIN f |-> IF n \in DOMAIN f THEN f[n] ELSE u[n]]
<1>1. j \in Indexes /\ q \in DOMAIN j.profiles
  BY ProfileTyped
<1>2. j.current = i.current /\ DOMAIN j.profiles = DOMAIN i.profiles \cup {q}
      /\ \A r : All(j, r) = All(i, r)
  BY ProfileDoes
<1>3. u = All(i, q)
  <2> HIDE DEF j
  <2> QED BY <1>1, <1>2 DEF All, HasProfile
<1>4. Set(i, q, f) = [j EXCEPT !.profiles[q] = t]
  BY DEF Set
<1> HIDE DEF j, u, t
<1>5. Set(i, q, f) = [current |-> j.current, profiles |-> [j.profiles EXCEPT ![q] = t]]
  BY <1>1, <1>4, IndexFields
<1>6. j.profiles = [x \in DOMAIN j.profiles |-> j.profiles[x]]
  BY <1>1, IndexFields, PartialFunctions
<1>7. \A r : r # q => All(Set(i, q, f), r) = All(j, r)
  BY <1>5, <1>6 DEF All, HasProfile
<1>8. All(Set(i, q, f), q) = t
  BY <1>1, <1>5, <1>6 DEF All, HasProfile
<1>9. \A n \in DOMAIN t : (n \in DOMAIN f /\ t[n] = f[n]) \/ (n \in DOMAIN u /\ t[n] = u[n])
  BY DEF t
<1>10. Set(i, q, f).current = i.current /\ DOMAIN Set(i, q, f).profiles = DOMAIN i.profiles \cup {q}
  BY <1>2, <1>5, <1>6
<1>11. \A r : r # q => All(Set(i, q, f), r) = All(i, r)
  BY <1>2, <1>7
<1>12. \A n \in DOMAIN All(Set(i, q, f), q) :
         \/ n \in DOMAIN f /\ All(Set(i, q, f), q)[n] = f[n]
         \/ n \in DOMAIN All(i, q) /\ All(Set(i, q, f), q)[n] = All(i, q)[n]
  BY <1>3, <1>8, <1>9
<1> QED BY <1>10, <1>11, <1>12, SetTyped
================================================================================
