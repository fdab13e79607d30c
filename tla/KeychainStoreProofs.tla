--------------------------- MODULE KeychainStoreProofs ---------------------------
(*****************************************************************************)
(* KeychainStore implements KeychainMap, for any clients, names and values,  *)
(* with and without the any-app option; no two secrets share an item.        *)
(*****************************************************************************)
EXTENDS KeychainStore, SequenceTheorems, TLAPS

(* What is where in the account of a token of a profile.                     *)
LEMMA AccountParts ==
  ASSUME NEW p \in Seq(Symbols), NEW n \in Seq(Symbols \ {Slash})
  PROVE  LET a == p \o <<Slash>> \o n
         IN  /\ Len(a) = Len(p) + 1 + Len(n) /\ n \in Seq(Symbols)
             /\ \A i \in 1..Len(p) : a[i] = p[i]
             /\ a[Len(p) + 1] = Slash
             /\ \A i \in 1..Len(n) : a[Len(p) + 1 + i] = n[i]
<1> DEFINE b == p \o <<Slash>>
<1>1. <<Slash>> \in Seq(Symbols) /\ Len(<<Slash>>) = 1 /\ <<Slash>>[1] = Slash
  BY NamesAreTyped
<1>2. n \in Seq(Symbols)
  BY SeqMonotonic
<1>3. Len(p) \in Nat /\ Len(n) \in Nat
  BY LenProperties
<1>4. b \in Seq(Symbols) /\ Len(b) = Len(p) + 1
      /\ \A i \in 1..Len(p) + 1 : b[i] = IF i <= Len(p) THEN p[i] ELSE <<Slash>>[i - Len(p)]
  BY <1>1, ConcatProperties
<1>5. Len(b \o n) = Len(b) + Len(n)
      /\ \A i \in 1..Len(b) + Len(n) : (b \o n)[i] = IF i <= Len(b) THEN b[i] ELSE n[i - Len(b)]
  <2>1. b \in Seq(Symbols)
    BY <1>4
  <2> HIDE DEF b
  <2>2. \A s, t \in Seq(Symbols) : Len(s \o t) = Len(s) + Len(t)
          /\ \A i \in 1..Len(s) + Len(t) : (s \o t)[i] = IF i <= Len(s) THEN s[i] ELSE t[i - Len(s)]
    BY ConcatProperties
  <2> QED BY <1>2, <2>1, <2>2, Zenon
<1>6. (b \o n)[Len(p) + 1] = Slash
  <2>1. Len(p) + 1 \in 1..Len(b) + Len(n)
    BY <1>3, <1>4
  <2>2. b[Len(p) + 1] = <<Slash>>[1]
    BY <1>3, <1>4
  <2> HIDE DEF b
  <2> QED BY <1>1, <1>3, <1>4, <1>5, <2>1, <2>2
<1>7. ASSUME NEW i \in 1..Len(p) PROVE (b \o n)[i] = p[i]
  <2> HIDE DEF b
  <2> QED BY <1>3, <1>4, <1>5
<1>8. ASSUME NEW i \in 1..Len(n) PROVE (b \o n)[Len(p) + 1 + i] = n[i]
  <2> HIDE DEF b
  <2>1. Len(p) + 1 + i \in 1..Len(b) + Len(n) /\ ~(Len(p) + 1 + i <= Len(b))
        /\ Len(p) + 1 + i - Len(b) = i
    BY <1>3, <1>4
  <2> QED BY <1>5, <2>1
<1> QED BY <1>2, <1>3, <1>4, <1>5, <1>6, <1>7, <1>8

(* No account of one profile's token begins with a longer profile's name and *)
(* a separator: it would be within the token's name.                         *)
LEMMA NoLongerProfile ==
  ASSUME NEW p \in Seq(Symbols), NEW q \in Seq(Symbols),
         NEW m \in Seq(Symbols \ {Slash}), NEW n \in Seq(Symbols \ {Slash}),
         p \o <<Slash>> \o m = q \o <<Slash>> \o n
  PROVE  Len(q) <= Len(p)
<1> DEFINE a == p \o <<Slash>> \o m
<1> SUFFICES ASSUME Len(p) < Len(q) PROVE FALSE
  BY LenProperties
<1>1. Len(p) \in Nat /\ Len(q) \in Nat /\ Len(m) \in Nat /\ Len(n) \in Nat
  BY LenProperties
<1>2. Len(a) = Len(p) + 1 + Len(m) /\ \A i \in 1..Len(m) : a[Len(p) + 1 + i] = m[i]
  BY AccountParts
<1>3. Len(a) = Len(q) + 1 + Len(n) /\ a[Len(q) + 1] = Slash
  <2> DEFINE b == q \o <<Slash>> \o n
  <2>1. Len(b) = Len(q) + 1 + Len(n) /\ b[Len(q) + 1] = Slash
    BY AccountParts
  <2>2. a = b
    OBVIOUS
  <2> HIDE DEF a, b
  <2> QED BY <2>1, <2>2
<1> HIDE DEF a
<1>4. Len(q) - Len(p) \in 1..Len(m)
  BY <1>1, <1>2, <1>3
<1>5. a[Len(p) + 1 + (Len(q) - Len(p))] = m[Len(q) - Len(p)]
  BY <1>2, <1>4
<1>6. m[Len(q) - Len(p)] = Slash
  BY <1>1, <1>3, <1>5
<1> QED BY <1>4, <1>6, ElementOfSeq

(* TokenAccount gives tokens of different profiles or names different        *)
(* accounts, even if profile names contain the separator                     *)
(* (keychain.go:36-46: "the separator is unambiguous").                      *)
LEMMA AccountsDiffer ==
  ASSUME NEW p \in Seq(Symbols) \ {NoName}, NEW q \in Seq(Symbols) \ {NoName},
         NEW m \in Seq(Symbols \ {Slash}), NEW n \in Seq(Symbols \ {Slash}),
         TokenAccount(p, m) = TokenAccount(q, n)
  PROVE  p = q /\ m = n
<1>1. ASSUME NEW r \in Seq(Symbols), NEW k \in Seq(Symbols \ {Slash}),
             NEW l \in Seq(Symbols \ {Slash})
      PROVE  k # r \o <<Slash>> \o l
  <2> SUFFICES ASSUME k = r \o <<Slash>> \o l PROVE FALSE
    OBVIOUS
  <2>1. Len(k) = Len(r) + 1 + Len(l) /\ k[Len(r) + 1] = Slash
    BY AccountParts
  <2>2. Len(r) + 1 \in 1..Len(k)
    BY <2>1, LenProperties
  <2> QED BY <2>1, <2>2, ElementOfSeq
<1>2. CASE p = Default \/ q = Default
  BY <1>1, <1>2 DEF TokenAccount
<1>3. CASE p # Default /\ q # Default
  <2> DEFINE a == p \o <<Slash>> \o m
  <2> DEFINE b == q \o <<Slash>> \o n
  <2>1. a = b
    BY <1>3 DEF TokenAccount
  <2>2. Len(p) = Len(q)
    <3>1. Len(q) <= Len(p)
      BY <2>1, NoLongerProfile
    <3>2. Len(p) <= Len(q)
      BY <2>1, NoLongerProfile
    <3> QED BY <3>1, <3>2, LenProperties
  <2>3. /\ Len(a) = Len(p) + 1 + Len(m) /\ m \in Seq(Symbols)
        /\ \A i \in 1..Len(p) : a[i] = p[i]
        /\ \A i \in 1..Len(m) : a[Len(p) + 1 + i] = m[i]
    BY AccountParts
  <2>4. /\ Len(b) = Len(q) + 1 + Len(n) /\ n \in Seq(Symbols)
        /\ \A i \in 1..Len(q) : b[i] = q[i]
        /\ \A i \in 1..Len(n) : b[Len(q) + 1 + i] = n[i]
    BY AccountParts
  <2> HIDE DEF a, b
  <2>5. Len(m) = Len(n)
    BY <2>1, <2>2, <2>3, <2>4, LenProperties
  <2>6. p = q
    BY <2>1, <2>2, <2>3, <2>4, SeqEqual
  <2>7. m = n
    BY <2>1, <2>2, <2>3, <2>4, <2>5, SeqEqual
  <2> QED BY <2>6, <2>7
<1> QED BY <1>2, <1>3

(* No two secrets share an item.                                             *)
LEMMA ItemsDiffer == \A k, l \in Keys : Item(k) = Item(l) => k = l
<1> SUFFICES ASSUME NEW k \in Keys, NEW l \in Keys, Item(k) = Item(l) PROVE k = l
  OBVIOUS
<1>1. k \in Secrets /\ l \in Secrets /\ k.service = l.service
  BY NamesAreTyped DEF Item
<1>2. CASE k.service = "tokens"
  <2>1. /\ k.profile \in Seq(Symbols) \ {NoName} /\ l.profile \in Seq(Symbols) \ {NoName}
        /\ k.name \in Seq(Symbols \ {Slash}) /\ l.name \in Seq(Symbols \ {Slash})
    BY <1>1, <1>2 DEF Secrets
  <2>2. TokenAccount(k.profile, k.name) = TokenAccount(l.profile, l.name)
    BY <1>1, <1>2 DEF Item
  <2>3. k.profile = l.profile /\ k.name = l.name
    BY ONLY <2>1, <2>2, AccountsDiffer
  <2> QED BY <1>1, <2>3 DEF Secrets
<1>3. CASE k.service # "tokens"
  BY <1>1, <1>3 DEF Secrets, Item
<1> QED BY <1>2, <1>3

(* A client that has not returned is at a step of the call it makes.         *)
StepsOf(c) ==
  CASE op[c].kind = "get" -> {"query"}
    [] op[c].kind = "delete" -> {"delete"}
    [] op[c].kind = "list" -> {"match"}
    [] OTHER -> IF c \in AnyApp THEN {"clear", "create"} ELSE {"add", "update"}
StepInv == \A c \in Clients :
  pc[c] # "done" => outcome[c] = "none" /\ pc[c] \in StepsOf(c)

(* A step of a client, whatever makes it give up.                            *)
GivesUp(c) ==
  /\ pc[c] # "done" /\ UNCHANGED <<item, op, listed>>
  /\ \E s \in {"error", "killed"} : Return(c, s)
Call(c) ==
  \/ QueryItem(c) \/ AddItem(c) \/ UpdateItem(c) \/ DeleteItem(c) \/ CreateItem(c)
  \/ MatchItems(c) \/ GivesUp(c)

LEMMA NextIsCall == [Next]_vars => (\E c \in Clients : Call(c)) \/ UNCHANGED vars
BY DEF Next, Call, Stop, GivesUp

LEMMA InitInv == Init => TypeOK /\ StepInv
<1> SUFFICES ASSUME Init PROVE TypeOK /\ StepInv
  OBVIOUS
<1>1. op \in [Clients -> Calls]
  BY AsksAreTyped DEF Init
<1>2. \A c \in Clients : FirstStep(c) \in Steps /\ FirstStep(c) \in StepsOf(c)
  BY <1>1 DEF FirstStep, StepsOf, Steps, Calls, Kinds
<1> QED BY <1>1, <1>2 DEF Init, TypeOK, StepInv

(* What a client puts is put in its item, and kept by type.                  *)
LEMMA Puts ==
  ASSUME TypeOK, NEW c \in Clients
  PROVE  /\ At(c) \in Items /\ op[c].key \in Keys /\ op[c].data \in Values
         /\ \A v \in Values \cup {Missing} : Put(c, v) => item' \in [Items -> Values \cup {Missing}]
<1>1. op[c].key \in Keys /\ op[c].data \in Values
  BY DEF TypeOK, Calls
<1>2. At(c) \in Items
  BY <1>1 DEF At, Items
<1> QED BY <1>1, <1>2 DEF TypeOK, Put

(* Every call keeps the types.                                               *)
LEMMA TypeStep == ASSUME TypeOK, NEW c \in Clients, Call(c) PROVE TypeOK'
<1> DEFINE Data == [Items -> Values \cup {Missing}]
<1>1. item \in Data /\ At(c) \in Items /\ op[c].data \in Values
  BY Puts DEF TypeOK
<1>p. \A v \in Values \cup {Missing} : Put(c, v) => item' \in Data
  BY Puts
<1>2. ASSUME op' = op, listed' = listed, item' \in Data,
             NEW s \in Values \cup {Missing, "ok", "error", "killed"}, Return(c, s)
      PROVE  TypeOK'
  BY <1>2 DEF TypeOK, Return
<1>3. ASSUME op' = op, listed' = listed, item' \in Data, NEW s \in Steps, Goto(c, s)
      PROVE  TypeOK'
  BY <1>3 DEF TypeOK, Goto
<1>5. CASE QueryItem(c)
  <2>1. item[At(c)] \in Values \cup {Missing}
    BY <1>1
  <2> QED BY <1>1, <1>2, <1>5, <2>1 DEF QueryItem
<1>6. CASE AddItem(c)
  BY <1>1, <1>p, <1>2, <1>3, <1>6 DEF AddItem, Steps
<1>7. CASE UpdateItem(c)
  BY <1>1, <1>p, <1>2, <1>7 DEF UpdateItem
<1>8. CASE DeleteItem(c)
  BY <1>p, <1>2, <1>3, <1>8 DEF DeleteItem, Steps
<1>9. CASE CreateItem(c)
  BY <1>1, <1>p, <1>2, <1>9 DEF CreateItem
<1>10. CASE GivesUp(c)
  BY <1>1, <1>2, <1>10 DEF GivesUp
<1>11. CASE MatchItems(c)
  <2>1. \A j \in Items : j.service = "bootstrap" => \E k \in Keys : j.account = k.profile
    BY DEF Items, Item
  <2>2. {i.account : i \in {j \in Items : j.service = "bootstrap" /\ item[j] # Missing}}
          \in SUBSET {k.profile : k \in Keys}
    BY <2>1
  <2>3. listed' \in [Clients -> SUBSET {k.profile : k \in Keys}]
    BY <1>11, <2>2 DEF MatchItems, TypeOK
  <2> QED BY <1>1, <1>11, <2>3 DEF MatchItems, TypeOK, Return
<1> QED
  BY <1>5, <1>6, <1>7, <1>8, <1>9, <1>10, <1>11 DEF Call

(* Every call keeps StepInv.                                                 *)
LEMMA StepStep == ASSUME TypeOK, StepInv, NEW c \in Clients, Call(c) PROVE StepInv'
<1> SUFFICES ASSUME NEW d \in Clients, pc'[d] # "done"
             PROVE  outcome'[d] = "none" /\ pc'[d] \in StepsOf(d)'
  BY DEF StepInv
<1>1. op' = op
  BY DEF Call, QueryItem, AddItem, UpdateItem, DeleteItem, CreateItem, MatchItems, GivesUp
<1>a. StepsOf(d)' = StepsOf(d)
  BY <1>1 DEF StepsOf
<1>b. ASSUME NEW s, Return(c, s) PROVE pc' = [pc EXCEPT ![c] = "done"]
                                       /\ \A e \in Clients \ {c} : outcome'[e] = outcome[e]
  BY <1>b DEF Return, TypeOK
<1>c. CASE \E s : Return(c, s)
  BY <1>a, <1>b, <1>c DEF StepInv, TypeOK
<1>d. CASE AddItem(c) /\ Goto(c, "update")
  BY <1>a, <1>d DEF AddItem, Goto, StepInv, StepsOf, TypeOK
<1>e. CASE pc[c] = "clear" /\ Goto(c, "create")
  BY <1>a, <1>e DEF Goto, StepInv, StepsOf, TypeOK
<1>2. QueryItem(c) \/ UpdateItem(c) \/ CreateItem(c) \/ MatchItems(c) \/ GivesUp(c)
        => \E s : Return(c, s)
  BY DEF QueryItem, UpdateItem, CreateItem, MatchItems, GivesUp
<1>3. AddItem(c) => (\E s : Return(c, s)) \/ Goto(c, "update")
  BY DEF AddItem
<1>4. DeleteItem(c) => (\E s : Return(c, s)) \/ (pc[c] = "clear" /\ Goto(c, "create"))
  BY DEF DeleteItem
<1> QED
  BY <1>c, <1>d, <1>e, <1>2, <1>3, <1>4 DEF Call

(* TypeOK: the variables keep their types.                                   *)
THEOREM TypeCorrect == Spec => []TypeOK
<1>1. TypeOK /\ StepInv /\ [Next]_vars => TypeOK'
  <2>1. UNCHANGED vars /\ TypeOK => TypeOK'
    BY DEF vars, TypeOK
  <2> QED BY <2>1, NextIsCall, TypeStep
<1>2. TypeOK /\ StepInv /\ [Next]_vars => StepInv'
  <2>1. UNCHANGED vars /\ StepInv => StepInv'
    BY DEF vars, StepInv, StepsOf
  <2> QED BY <2>1, NextIsCall, StepStep
<1> QED BY <1>1, <1>2, InitInv, PTL DEF Spec

-------------------------------------------------------------------------------
(* The refinement.                                                           *)
Entry == [k \in Keys |-> item[Item(k)]]

LEMMA MapInit == Init => Map!Init
<1> SUFFICES ASSUME Init PROVE Map!Init
  OBVIOUS
<1>1. Entry \in [Keys -> Values \cup {Missing}]
  BY DEF Init, Items, Entry
<1> QED BY <1>1, AsksAreTyped DEF Init, Map!Init, Calls, Map!Calls, Kinds, Map!Kinds, Entry

(* What is put in a secret's item is put in no other's.                      *)
LEMMA PutsOne ==
  ASSUME TypeOK, NEW c \in Clients, NEW v, Put(c, v)
  PROVE  Map!Put(c, v)
<1>1. op[c].key \in Keys /\ At(c) = Item(op[c].key)
  BY Puts DEF At
<1>2. \A k \in Keys : Item(k) \in Items
  BY DEF Items
<1>3. \A k \in Keys : item'[Item(k)] = IF k = op[c].key THEN v ELSE item[Item(k)]
  BY <1>1, <1>2, ItemsDiffer DEF Put, TypeOK
<1> QED BY <1>1, <1>3 DEF Map!Put

(* A List finds the profiles whose bootstrap items exist.                    *)
LEMMA MatchesBootstraps ==
  {i.account : i \in {j \in Items : j.service = "bootstrap" /\ item[j] # Missing}}
    = Map!WithBootstrap(Entry)
<1>1. \A k \in Keys : Item(k).service = k.service
                      /\ (k.service = "bootstrap" => Item(k).account = k.profile)
  BY DEF Item
<1> DEFINE Kept(k) == k \in Keys /\ k.service = "bootstrap" /\ item[Item(k)] # Missing
<1>2. Map!WithBootstrap(Entry) = {k.profile : k \in {l \in Keys : Kept(l)}}
  BY DEF Map!WithBootstrap, Entry
<1>3. {j \in Items : j.service = "bootstrap" /\ item[j] # Missing} = {Item(k) : k \in {l \in Keys : Kept(l)}}
  BY <1>1 DEF Items
<1>4. \A k \in Keys : Kept(k) => Item(k).account = k.profile
  BY <1>1
<1> HIDE DEF Kept
<1> QED BY <1>2, <1>3, <1>4

(* Every step of the framework is a step of the map, or none.                *)
LEMMA CallRefines ==
  ASSUME TypeOK, StepInv, NEW c \in Clients, Call(c)
  PROVE  [Map!Next]_(Map!vars)
<1>0. op' = op
  BY DEF Call, QueryItem, AddItem, UpdateItem, DeleteItem, CreateItem, MatchItems, GivesUp
<1>1. pc[c] # "done" /\ outcome[c] = "none" /\ pc[c] \in StepsOf(c)
  BY DEF StepInv, Call, QueryItem, AddItem, UpdateItem, DeleteItem, CreateItem, MatchItems, GivesUp
<1>2. op[c].kind \in Kinds /\ op[c].key \in Keys
  BY DEF TypeOK, Calls
<1>3. ASSUME NEW s, Return(c, s) PROVE Map!Return(c, s)
  BY <1>0, <1>3 DEF Return, Map!Return
<1>4. pc[c] \in {"add", "update", "clear", "create"} => Map!Pending(c, "set")
  BY <1>1, <1>2 DEF StepsOf, Kinds, Map!Pending
<1>s. item' = item => Entry' = Entry
  BY DEF Entry
<1>5. CASE QueryItem(c)
  <2>1. Map!Pending(c, "get") /\ Entry[op[c].key] = item[At(c)]
    BY <1>1, <1>2, <1>5 DEF StepsOf, Kinds, Map!Pending, QueryItem, Entry, At
  <2> QED BY <1>s, <1>3, <1>5, <2>1 DEF QueryItem, Map!Get, Map!Next, Entry
<1>6. CASE AddItem(c)
  <2>1. CASE Put(c, op[c].data) /\ Return(c, "ok")
    BY <1>3, <1>4, <1>6, <2>1, PutsOne DEF AddItem, Map!Set, Map!Next
  <2>2. CASE Goto(c, "update") /\ UNCHANGED item
    BY <1>6, <2>2 DEF AddItem, Goto, Map!vars
  <2> QED BY <1>6, <2>1, <2>2 DEF AddItem
<1>7. CASE GivesUp(c)
  BY <1>s, <1>1, <1>3, <1>7 DEF GivesUp, Map!Give, Map!Next, Entry
<1>8. CASE UpdateItem(c)
  <2>1. CASE Put(c, op[c].data) /\ Return(c, "ok")
    BY <1>3, <1>4, <1>8, <2>1, PutsOne DEF UpdateItem, Map!Set, Map!Next
  <2>2. CASE Return(c, "error") /\ UNCHANGED item
    BY <1>s, <1>1, <1>3, <1>8, <2>2 DEF UpdateItem, Map!Give, Map!Next, Entry
  <2> QED BY <1>8, <2>1, <2>2 DEF UpdateItem
<1>9. CASE CreateItem(c)
  <2>1. CASE Put(c, op[c].data) /\ Return(c, "ok")
    BY <1>3, <1>4, <1>9, <2>1, PutsOne DEF CreateItem, Map!Set, Map!Next
  <2>2. CASE Return(c, "error") /\ UNCHANGED item
    BY <1>s, <1>1, <1>3, <1>9, <2>2 DEF CreateItem, Map!Give, Map!Next, Entry
  <2> QED BY <1>9, <2>1, <2>2 DEF CreateItem
<1>10. CASE DeleteItem(c)
  <2>p. Map!Put(c, Missing)
    BY <1>10, PutsOne DEF DeleteItem
  <2>1. CASE pc[c] = "delete"
    <3>1. Map!Pending(c, "delete")
      BY <1>1, <1>2, <2>1 DEF StepsOf, Kinds, Map!Pending
    <3> QED
      BY <1>3, <1>10, <2>p, <2>1, <3>1 DEF DeleteItem, Map!Delete, Map!Next
  <2>2. CASE pc[c] = "clear"
    <3>1. c \in AnyApp
      BY <1>1, <1>2, <2>2 DEF StepsOf, Kinds
    <3> QED
      BY <1>4, <1>10, <2>p, <2>2, <3>1 DEF DeleteItem, Goto, Map!Empty, Map!Next
  <2> QED
    BY <1>10, <2>1, <2>2 DEF DeleteItem
<1>11. CASE MatchItems(c)
  <2>1. Map!Pending(c, "list")
    BY <1>1, <1>2, <1>11 DEF StepsOf, Kinds, Map!Pending, MatchItems
  <2>2. listed' = [listed EXCEPT ![c] = Map!WithBootstrap(Entry)]
    BY <1>11, MatchesBootstraps DEF MatchItems
  <2> QED BY <1>s, <1>3, <1>11, <2>1, <2>2 DEF MatchItems, Map!List, Map!Next, Entry
<1> QED
  BY <1>5, <1>6, <1>7, <1>8, <1>9, <1>10, <1>11 DEF Call

(* StoreIsAMap: to every process every secret is one variable, although Set  *)
(* is two framework calls and secrets are told apart by their accounts only  *)
(* (keychain_darwin.go:62-87, acl_darwin.go:101-122, keychain.go:36-46).     *)
THEOREM StoreRefines == Spec => StoreIsAMap
<1>1. TypeOK /\ StepInv /\ [Next]_vars => [Map!Next]_(Map!vars)
  <2>1. UNCHANGED vars => UNCHANGED Map!vars
    BY DEF vars, Map!vars
  <2> QED BY <2>1, NextIsCall, CallRefines
<1>2. TypeOK /\ StepInv /\ [Next]_vars => TypeOK' /\ StepInv'
  <2>1. UNCHANGED vars /\ TypeOK /\ StepInv => TypeOK' /\ StepInv'
    BY DEF vars, TypeOK, StepInv, StepsOf
  <2> QED BY <2>1, NextIsCall, TypeStep, StepStep
<1> QED
  BY <1>1, <1>2, InitInv, MapInit, PTL DEF Spec, StoreIsAMap, Map!Spec
================================================================================
