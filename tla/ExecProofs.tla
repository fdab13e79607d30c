------------------------------- MODULE ExecProofs -------------------------------
(*****************************************************************************)
(* Whatever else happens to the Keychain, exec hands its command the token   *)
(* it was asked for, for any names, environments and numbers of processes.   *)
(*****************************************************************************)
EXTENDS Exec, KeychainStoreProofs

(* buildEnv (exec.go:85-103): the variable has the value, wherever and       *)
(* however often it was set before, and nothing else is touched.             *)
LEMMA BuildEnvGives ==
  ASSUME NEW base \in Seq(Environment), NEW v \in Values
  PROVE  HasToken(BuildEnv(base, v), v) /\ KeepsTheRest(base, BuildEnv(base, v))
<1> DEFINE given == [name |-> EnvName, value |-> v]
           out == [i \in 1..Len(base) |-> IF base[i].name = EnvName THEN given ELSE base[i]]
<1>1. given \in Environment /\ given.name = EnvName /\ given.value = v
  BY InvocationsAreTyped
<1>2. Len(base) \in Nat /\ \A i \in 1..Len(base) : base[i] \in Environment
  BY LenProperties, ElementOfSeq
<1>3. out \in Seq(Environment) /\ Len(out) = Len(base)
  <2> HIDE DEF given
  <2>1. \A i \in 1..Len(base) : out[i] \in Environment
    BY <1>1, <1>2
  <2> QED BY <1>2, <2>1, IsASeq, LenProperties
<1>4. \A i \in 1..Len(base) : out[i] = IF base[i].name = EnvName THEN given ELSE base[i]
  OBVIOUS
<1>5. CASE \E i \in 1..Len(base) : base[i].name = EnvName
  <2>1. BuildEnv(base, v) = out
    BY <1>5 DEF BuildEnv
  <2> HIDE DEF out, given
  <2> QED BY <1>1, <1>2, <1>3, <1>4, <1>5, <2>1 DEF HasToken, KeepsTheRest
<1>6. CASE ~\E i \in 1..Len(base) : base[i].name = EnvName
  <2>1. BuildEnv(base, v) = Append(out, given)
    BY <1>6 DEF BuildEnv
  <2> HIDE DEF out, given
  <2>2. /\ Len(Append(out, given)) = Len(out) + 1
        /\ \A i \in 1..Len(out) : Append(out, given)[i] = out[i]
        /\ Append(out, given)[Len(out) + 1] = given
    BY <1>1, <1>3, AppendProperties
  <2> QED BY <1>1, <1>2, <1>3, <1>4, <1>6, <2>1, <2>2 DEF HasToken, KeepsTheRest
<1> QED BY <1>5, <1>6

LEMMA BuildEnvIsTyped ==
  ASSUME NEW base \in Seq(Environment), NEW v \in Values
  PROVE  BuildEnv(base, v) \in Seq(Environment)
<1> DEFINE given == [name |-> EnvName, value |-> v]
           out == [i \in 1..Len(base) |-> IF base[i].name = EnvName THEN given ELSE base[i]]
<1>1. given \in Environment
  BY InvocationsAreTyped
<1>2. BuildEnv(base, v) = out \/ BuildEnv(base, v) = Append(out, given)
  BY DEF BuildEnv
<1> HIDE DEF given
<1>3. Len(base) \in Nat /\ \A i \in 1..Len(base) : out[i] \in Environment
  BY <1>1, LenProperties, ElementOfSeq
<1>4. out \in Seq(Environment)
  BY <1>3, IsASeq
<1> HIDE DEF out
<1> QED BY <1>1, <1>2, <1>4, AppendProperties

(* A secret's item holds a value the secret has had, and an exec that has    *)
(* read its token was well-formed and read such a value.                     *)
HeldInv ==
  /\ held \in [Keys -> SUBSET Values]
  /\ \A k \in Keys : item[Item(k)] \in held[k] \cup {Missing}
AskedInv ==
  /\ asked \in [Clients -> Invocations \cup {NoCommand}]
  /\ child \in [Clients -> [argv : Commands, env : Seq(Environment)] \cup {NoCommand}]
  /\ \A c \in Clients : asked[c] # NoCommand => op[c].kind = "get"
ReadInv ==
  \A c \in Clients : asked[c] # NoCommand /\ pc[c] = "done" =>
    \/ outcome[c] \in {"error", "killed"}
    \/ WellFormed(asked[c]) /\ outcome[c] \in held[op[c].key] \cup {Missing}
ExecInv == TypeOK /\ StepInv /\ HeldInv /\ AskedInv /\ ReadInv /\ ChildHasItsToken

LEMMA ExecInitInv == ExecInit => ExecInv
<1> SUFFICES ASSUME ExecInit PROVE ExecInv
  OBVIOUS
<1>1. TypeOK /\ StepInv
  BY InitInv DEF ExecInit
<1>2. \A k \in Keys : Item(k) \in Items
  BY DEF Items
<1>3. HeldInv
  BY <1>1, <1>2 DEF ExecInit, HeldInv, TypeOK
<1>4. AskedInv /\ ChildHasItsToken
  BY DEF ExecInit, AskedInv, ChildHasItsToken, ReadsToken
<1>5. \A c \in Clients : pc[c] # "done"
  BY <1>1 DEF ExecInit, Init, TypeOK, FirstStep
<1>6. ReadInv
  BY <1>5 DEF ReadInv
<1> QED BY <1>1, <1>3, <1>4, <1>6 DEF ExecInv

LEMMA ExecCalls ==
  ASSUME NEW c \in Clients,
         \/ ReadSecret(c) \/ Refuse(c) \/ AddItem(c) \/ UpdateItem(c) \/ DeleteItem(c)
         \/ CreateItem(c) \/ MatchItems(c) \/ Stop(c)
  PROVE  Call(c)
BY DEF ReadSecret, Refuse, Stop, Call, GivesUp

(* A step of a client puts in its item what its Set was given, or nothing.   *)
LEMMA WhatIsPut ==
  ASSUME TypeOK, StepInv, NEW c \in Clients, Call(c)
  PROVE  /\ op' = op
         /\ \/ item' = item
            \/ Put(c, Missing)
            \/ op[c].kind = "set" /\ Put(c, op[c].data)
<1>1. op' = op
  BY DEF Call, QueryItem, AddItem, UpdateItem, DeleteItem, CreateItem, MatchItems, GivesUp
<1>2. op[c].kind \in Kinds
  BY DEF TypeOK, Calls
<1>3. pc[c] \in {"add", "update", "create"} => op[c].kind = "set"
  BY <1>2 DEF StepInv, StepsOf, Kinds
<1> QED
  BY <1>1, <1>3 DEF Call, QueryItem, AddItem, UpdateItem, DeleteItem, CreateItem, MatchItems, GivesUp

LEMMA HeldStep ==
  ASSUME ExecInv, NEW c \in Clients, Call(c), Remember(c)
  PROVE  HeldInv' /\ \A k \in Keys : held[k] \subseteq held'[k]
<1>1. TypeOK /\ StepInv /\ HeldInv
  BY DEF ExecInv
<1>2. op[c].key \in Keys /\ op[c].data \in Values /\ At(c) = Item(op[c].key) /\ At(c) \in Items
  BY <1>1, Puts DEF At
<1>3. \A k \in Keys : Item(k) \in Items
  BY DEF Items
<1>4. held' \in [Keys -> SUBSET Values] /\ \A k \in Keys : held[k] \subseteq held'[k]
  BY <1>1, <1>2 DEF HeldInv, Remember
<1>5. CASE item' = item
  BY <1>1, <1>4, <1>5 DEF HeldInv
<1>6. CASE Put(c, Missing)
  BY <1>1, <1>3, <1>4, <1>6 DEF HeldInv, Put, TypeOK
<1>7. CASE op[c].kind = "set" /\ Put(c, op[c].data)
  <2>1. item'[At(c)] = op[c].data
    BY <1>1, <1>2, <1>7 DEF Put, TypeOK
  <2>2. op[c].data \in held'[op[c].key]
    BY <1>1, <1>2, <1>7, <2>1 DEF Remember, HeldInv
  <2>3. \A k \in Keys : k # op[c].key => item'[Item(k)] = item[Item(k)]
    BY <1>1, <1>2, <1>3, <1>7, ItemsDiffer DEF Put, TypeOK
  <2> QED BY <1>1, <1>2, <1>4, <2>1, <2>2, <2>3 DEF HeldInv
<1> QED BY <1>1, <1>4, <1>5, <1>6, <1>7, WhatIsPut

LEMMA CallKeepsExecInv ==
  ASSUME ExecInv, NEW c \in Clients, Remember(c), UNCHANGED <<asked, child>>,
         \/ ReadSecret(c) \/ Refuse(c) \/ AddItem(c) \/ UpdateItem(c) \/ DeleteItem(c)
         \/ CreateItem(c) \/ MatchItems(c) \/ Stop(c)
  PROVE  ExecInv'
<1>0. Call(c)
  BY ExecCalls
<1>1. TypeOK /\ StepInv /\ HeldInv /\ AskedInv /\ ReadInv /\ ChildHasItsToken
  BY DEF ExecInv
<1>2. TypeOK' /\ StepInv'
  BY <1>0, <1>1, TypeStep, StepStep
<1>3. HeldInv' /\ \A k \in Keys : held[k] \subseteq held'[k]
  BY <1>0, HeldStep
<1>4. op' = op /\ asked' = asked /\ child' = child /\ \A d \in Clients : op[d].key \in Keys
  BY <1>0, <1>1, WhatIsPut, Puts
<1>5. AskedInv'
  BY <1>1, <1>4 DEF AskedInv
<1>6. ChildHasItsToken'
  <2> SUFFICES ASSUME NEW d \in Clients, child[d] # NoCommand
               PROVE  \E v \in held'[op[d].key] : HasToken(child[d].env, v)
    BY <1>1, <1>4 DEF ChildHasItsToken
  <2> QED BY <1>1, <1>3, <1>4 DEF ChildHasItsToken
<1>7. ReadInv'
  <2> SUFFICES ASSUME NEW d \in Clients, asked[d] # NoCommand, pc'[d] = "done"
               PROVE  \/ outcome'[d] \in {"error", "killed"}
                      \/ WellFormed(asked[d]) /\ outcome'[d] \in held'[op[d].key] \cup {Missing}
    BY <1>4 DEF ReadInv
  <2>1. CASE pc'[d] = pc[d] /\ outcome'[d] = outcome[d]
    BY <1>1, <1>3, <1>4, <2>1 DEF ReadInv
  <2>2. CASE ~(pc'[d] = pc[d] /\ outcome'[d] = outcome[d])
    <3>1. d = c
      BY <1>1, <1>0, <2>2 DEF Call, QueryItem, AddItem, UpdateItem, DeleteItem, CreateItem,
         MatchItems, GivesUp, Return, Goto, TypeOK
    <3>2. op[c].kind = "get"
      BY <1>1, <3>1 DEF AskedInv
    <3>3. pc[c] = "query"
      BY <1>0, <1>1, <3>2 DEF StepInv, StepsOf, Call, QueryItem, AddItem, UpdateItem, DeleteItem,
         CreateItem, MatchItems, GivesUp
    <3>4. ReadSecret(c) \/ Refuse(c) \/ Stop(c)
      BY <3>3 DEF AddItem, UpdateItem, DeleteItem, CreateItem, MatchItems
    <3>5. CASE ReadSecret(c)
      <4>1. WellFormed(asked[c]) /\ outcome'[c] = item[Item(op[c].key)]
        BY <1>1, <3>1, <3>5 DEF ReadSecret, QueryItem, Return, At, TypeOK
      <4>2. item[Item(op[c].key)] \in held[op[c].key] \cup {Missing}
        BY <1>1, <1>4 DEF HeldInv
      <4> QED BY <1>3, <1>4, <3>1, <4>1, <4>2
    <3>6. CASE Refuse(c) \/ Stop(c)
      BY <1>1, <3>1, <3>6 DEF Refuse, Stop, Return, TypeOK
    <3> QED BY <3>4, <3>5, <3>6
  <2> QED BY <2>1, <2>2
<1> QED BY <1>2, <1>3, <1>5, <1>6, <1>7 DEF ExecInv

LEMMA RunKeepsExecInv ==
  ASSUME ExecInv, NEW c \in Clients, Run(c)
  PROVE  ExecInv'
<1>1. TypeOK /\ StepInv /\ HeldInv /\ AskedInv /\ ReadInv /\ ChildHasItsToken
  BY DEF ExecInv
<1>2. UNCHANGED vars /\ asked' = asked /\ held' = held
  BY DEF Run
<1>3. TypeOK' /\ StepInv' /\ HeldInv' /\ ReadInv'
  BY <1>1, <1>2 DEF vars, TypeOK, StepInv, StepsOf, HeldInv, ReadInv
<1>4. asked[c] \in Invocations /\ outcome[c] \in Values /\ WellFormed(asked[c])
      /\ outcome[c] \in held[op[c].key]
  BY <1>1, MissingIsNoValue, InvocationsAreTyped DEF AskedInv, ReadInv, Run
<1>5. asked[c].argv \in Commands /\ asked[c].env \in Seq(Environment) /\ Len(asked[c].argv) > 0
  BY <1>4, InvocationsAreTyped DEF WellFormed
<1> DEFINE e == BuildEnv(asked[c].env, outcome[c])
<1>6. HasToken(e, outcome[c]) /\ KeepsTheRest(asked[c].env, e)
  BY <1>4, <1>5, BuildEnvGives
<1>7. e \in Seq(Environment)
  BY <1>4, <1>5, BuildEnvIsTyped
<1>8. child' = [child EXCEPT ![c] = [argv |-> asked[c].argv, env |-> e]]
  BY DEF Run
<1> HIDE DEF e
<1>9. AskedInv'
  BY <1>1, <1>2, <1>5, <1>7, <1>8 DEF AskedInv, vars
<1>10. ChildHasItsToken'
  <2> SUFFICES ASSUME NEW d \in Clients, child'[d] # NoCommand
               PROVE  /\ \E v \in held[op[d].key] : HasToken(child'[d].env, v)
                      /\ KeepsTheRest(asked[d].env, child'[d].env)
                      /\ Len(child'[d].argv) > 0
    BY <1>2 DEF ChildHasItsToken, vars
  <2>1. CASE d # c
    <3>1. child'[d] = child[d]
      BY <1>1, <1>8, <2>1 DEF AskedInv
    <3> QED BY <1>1, <3>1 DEF ChildHasItsToken
  <2>2. CASE d = c
    <3>1. child'[d] = [argv |-> asked[c].argv, env |-> e]
      BY <1>1, <1>8, <2>2 DEF AskedInv
    <3> QED BY <1>4, <1>5, <1>6, <2>2, <3>1
  <2> QED BY <2>1, <2>2
<1> QED BY <1>1, <1>3, <1>9, <1>10 DEF ExecInv

LEMMA ExecStep == ExecInv /\ [ExecNext]_execVars => ExecInv'
<1> SUFFICES ASSUME ExecInv, [ExecNext]_execVars PROVE ExecInv'
  OBVIOUS
<1>1. CASE UNCHANGED execVars
  BY <1>1 DEF execVars, vars, ExecInv, TypeOK, StepInv, StepsOf, HeldInv, AskedInv, ReadInv,
     ChildHasItsToken
<1>2. CASE ExecNext
  BY <1>2, RunKeepsExecInv, CallKeepsExecInv DEF ExecNext
<1> QED BY <1>1, <1>2

(* ChildHasItsToken: a command runs with a value of the secret it was asked  *)
(* to run with, whatever profiles and tokens are called and whatever is done *)
(* to the Keychain meanwhile (exec.go:42-64, 85-103, keychain.go:36-46).     *)
THEOREM ChildrenHaveTheirTokens == ExecSpec => [](TypeOK /\ ChildHasItsToken)
<1>1. ExecInv => TypeOK /\ ChildHasItsToken
  BY DEF ExecInv
<1> QED BY <1>1, ExecInitInv, ExecStep, PTL DEF ExecSpec

(* StoreIsAMap, with execs among the callers.                                *)
THEOREM ExecRefines == ExecSpec => StoreIsAMap
<1>1. ExecInit => Map!Init
  BY MapInit DEF ExecInit
<1>2. ExecInv /\ [ExecNext]_execVars => [Map!Next]_(Map!vars)
  <2> SUFFICES ASSUME ExecInv, [ExecNext]_execVars PROVE [Map!Next]_(Map!vars)
    OBVIOUS
  <2>1. UNCHANGED vars => UNCHANGED Map!vars
    BY DEF vars, Map!vars
  <2>2. CASE UNCHANGED vars
    BY <2>1, <2>2
  <2>3. ASSUME NEW c \in Clients, Call(c) PROVE [Map!Next]_(Map!vars)
    BY <2>3, CallRefines DEF ExecInv
  <2> QED BY <2>2, <2>3, ExecCalls DEF ExecNext, Run, execVars
<1> QED BY <1>1, <1>2, ExecInitInv, ExecStep, PTL DEF ExecSpec, StoreIsAMap, Map!Spec
=================================================================================
