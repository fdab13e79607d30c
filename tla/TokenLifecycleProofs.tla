------------------------- MODULE TokenLifecycleProofs -------------------------
(*****************************************************************************)
(* Proofs about TokenLifecycle, for every set of processes, names and IDs,   *)
(* with crashes, failures, lost answers and deletions from outside.          *)
(*****************************************************************************)
EXTENDS TokenLifecycle, FiniteSetTheorems, TLAPS

USE DEF file
-------------------------------------------------------------------------------
(* Type correctness                                                          *)

(* What the types of the remote calls and of the loops over the specs rest   *)
(* on: the loop counters stay within the specs, a value that is about to     *)
(* be stored is there, and so is the ID a request is sent for.               *)
ShapeOK(p) ==
  /\ Len(plan[p]) <= Len(args[p]) /\ applied[p] <= Len(plan[p])
  /\ pc[p] \notin {"plan", "exec", "check", "keep", "commit", "write"} => plan[p] = <<>>
  /\ pc[p] \notin {"exec", "check", "keep", "commit", "write"} => applied[p] = 0
  /\ pc[p] \in {"check", "keep"} => applied[p] < Len(plan[p])
  /\ pc[p] = "check" => plan[p][applied[p] + 1].op # "create"
  /\ pc[p] \in {"keep", "store"} => value[p] \in Secrets
  /\ pc[p] \in {"confirm", "call"} => target[p] \in Ids

TypeInv == TypeOK /\ \A p \in Procs : ShapeOK(p)

(* The process-local half of TypeOK, and the half shared by the processes.   *)
LocalsOK ==
  /\ lock \in Procs \cup {NoProc}
  /\ pc \in [Procs -> PCs]
  /\ cmd \in [Procs -> Commands \cup {"none"}]
  /\ args \in [Procs -> Seq(Names)]
  /\ target \in [Procs -> Ids \cup {NoId}]
  /\ mem \in [Procs -> Entries]
  /\ plan \in [Procs -> Seq(Actions)]
  /\ applied \in [Procs -> Nat]
  /\ value \in [Procs -> Secrets \cup {NoSecret}]
  /\ tries \in [Procs -> Nat]

WorldOK ==
  /\ remote \in [Ids -> Tokens]
  /\ keychain \in [Names -> Secrets \cup {NoSecret}]
  /\ index \in Entries /\ torn \in BOOLEAN

(* TypeOK is the two halves.                                                 *)
LEMMA TypeSplit == TypeOK <=> LocalsOK /\ WorldOK
  BY DEF TypeOK, LocalsOK, WorldOK

(* What earlier commands left is well typed.                                 *)
LEMMA InitType == Init => TypeInv
<1> SUFFICES ASSUME Init PROVE TypeInv
  OBVIOUS
<1> USE DEF Init
<1>1. remote \in [Ids -> Tokens]
  <2>1. PICK s \in Seeds : remote = [id \in Ids |->
            IF \E n \in Names : s.token[n] = id
            THEN [status |-> "live", name |-> CHOOSE n \in Names : s.token[n] = id, ver |-> 1]
            ELSE Unused]
    OBVIOUS
  <2>2. ASSUME NEW id \in Ids PROVE remote[id] \in Tokens
    <3>1. CASE \E n \in Names : s.token[n] = id
      <4>1. (CHOOSE n \in Names : s.token[n] = id) \in Names
        BY <3>1
      <4> QED BY <2>1, <3>1, <4>1 DEF Tokens
    <3>2. CASE ~\E n \in Names : s.token[n] = id
      BY <2>1, <3>2 DEF Tokens, Unused
    <3> QED BY <3>1, <3>2
  <2> QED BY <2>1, <2>2
<1>2. index \in Entries /\ keychain \in [Names -> Secrets \cup {NoSecret}]
  BY SeedsAreConsistent DEF Entries, Secrets
<1>3. LocalsOK
  BY DEF LocalsOK, PCs, Entries, NoEntries
<1>4. ASSUME NEW p \in Procs PROVE ShapeOK(p)
  BY DEF ShapeOK
<1> QED BY <1>1, <1>2, <1>3, <1>4, TypeSplit DEF TypeInv, WorldOK

(* Ending a process is well typed.                                           *)
LEMMA ExitType ==
  ASSUME TypeInv, NEW p \in Procs, NEW s \in Ended, Exit(p, s)
  PROVE  LocalsOK' /\ \A q \in Procs : ShapeOK(q)'
<1> USE DEF TypeInv, Exit, Goto
<1>1. LocalsOK
  BY TypeSplit
<1>2. LocalsOK'
  BY <1>1 DEF LocalsOK, PCs, Ended, Commands, Entries, NoEntries
<1>3. ASSUME NEW q \in Procs PROVE ShapeOK(q)'
  <2>1. CASE q = p
    BY <2>1, <1>1 DEF ShapeOK, LocalsOK, Ended
  <2>2. CASE q # p
    BY <2>2, <1>1 DEF ShapeOK, LocalsOK
  <2> QED BY <2>1, <2>2
<1> QED BY <1>2, <1>3

(* An error is well typed whether it ends the command or not.                *)
LEMMA StepFailedType ==
  ASSUME TypeInv, NEW p \in Procs, StepFailed(p)
  PROVE  LocalsOK' /\ \A q \in Procs : ShapeOK(q)'
<1>1. CASE pc[p] \in {"exec", "keep"} /\ applied[p] > 0
  <2>0. /\ pc' = [pc EXCEPT ![p] = "commit"]
        /\ value' = [value EXCEPT ![p] = NoSecret] /\ tries' = [tries EXCEPT ![p] = 0]
        /\ UNCHANGED lock /\ UNCHANGED cmd /\ UNCHANGED args /\ UNCHANGED target
        /\ UNCHANGED mem /\ UNCHANGED plan /\ UNCHANGED applied
    BY <1>1 DEF StepFailed, Goto
  <2>1. LocalsOK'
    BY <2>0, TypeSplit DEF TypeInv, LocalsOK, PCs
  <2>2. ASSUME NEW q \in Procs PROVE ShapeOK(q)'
    BY <1>1, TypeSplit DEF TypeInv, StepFailed, Goto, LocalsOK, ShapeOK
  <2> QED BY <2>1, <2>2
<1>2. CASE ~(pc[p] \in {"exec", "keep"} /\ applied[p] > 0)
  BY <1>2, ExitType DEF StepFailed, Ended
<1> QED BY <1>1, <1>2

(* So is a request that goes unanswered, sent again or not.                  *)
LEMMA UnansweredType ==
  ASSUME TypeInv, NEW p \in Procs, Unanswered(p)
  PROVE  LocalsOK' /\ \A q \in Procs : ShapeOK(q)'
<1>1. CASE tries[p] < MaxRetries
  <2>0. /\ tries' = [tries EXCEPT ![p] = @ + 1]
        /\ UNCHANGED lock /\ UNCHANGED pc /\ UNCHANGED cmd /\ UNCHANGED args
        /\ UNCHANGED target /\ UNCHANGED mem /\ UNCHANGED plan /\ UNCHANGED applied
        /\ UNCHANGED value
    BY <1>1 DEF Unanswered
  <2>1. LocalsOK'
    BY <2>0, TypeSplit DEF TypeInv, LocalsOK
  <2>2. ASSUME NEW q \in Procs PROVE ShapeOK(q)'
    BY <1>1, TypeSplit DEF TypeInv, Unanswered, LocalsOK, ShapeOK
  <2> QED BY <2>1, <2>2
<1>2. CASE ~(tries[p] < MaxRetries)
  BY <1>2, StepFailedType DEF Unanswered
<1> QED BY <1>1, <1>2

(* And one that is answered, with the value it brings.                       *)
LEMMA AnsweredType ==
  ASSUME TypeInv, NEW p \in Procs, NEW s \in {"keep", "store", "forget", "check"}, NEW v,
         IF s \in {"forget", "check"} THEN v = NoSecret ELSE v \in Secrets,
         pc[p] = (IF s \in {"keep", "check"} THEN "exec" ELSE "call"),
         s \in {"keep", "check"} => applied[p] < Len(plan[p]),
         s = "check" => Step(p).op # "create",
         Answered(p, s, v)
  PROVE  LocalsOK' /\ \A q \in Procs : ShapeOK(q)'
<1>1. LocalsOK'
  BY TypeSplit DEF TypeInv, Answered, Goto, LocalsOK, PCs
<1>2. ASSUME NEW q \in Procs PROVE ShapeOK(q)'
  BY TypeSplit DEF TypeInv, Answered, Goto, LocalsOK, ShapeOK, Step
<1> QED BY <1>1, <1>2

(* The entry an action brings is an ID.                                      *)
LEMMA RecordType ==
  ASSUME TypeInv, NEW p \in Procs, pc[p] \in {"exec", "check"}, applied[p] < Len(plan[p]),
         RecordEntry(p)
  PROVE  LocalsOK' /\ \A q \in Procs : ShapeOK(q)'
<1>1. LocalsOK /\ ShapeOK(p)
  BY TypeSplit DEF TypeInv
<1>2. /\ mem' = [mem EXCEPT ![p][Item(p)] = Step(p).id]
      /\ applied' = [applied EXCEPT ![p] = @ + 1] /\ tries' = [tries EXCEPT ![p] = 0]
      /\ pc' = [pc EXCEPT ![p] = "exec"]
      /\ UNCHANGED lock /\ UNCHANGED cmd /\ UNCHANGED args /\ UNCHANGED target
      /\ UNCHANGED plan /\ UNCHANGED value
  BY DEF RecordEntry, Goto
<1>3. Step(p) \in Actions
  BY <1>1 DEF Step, ShapeOK, LocalsOK
<1>4. mem' \in [Procs -> Entries]
  BY <1>1, <1>2, <1>3 DEF LocalsOK, Entries, Actions
<1>5. LocalsOK'
  BY <1>1, <1>2, <1>4 DEF LocalsOK, PCs
<1>6. ASSUME NEW q \in Procs PROVE ShapeOK(q)'
  BY <1>1, <1>2 DEF TypeInv, LocalsOK, ShapeOK, Step
<1> QED BY <1>5, <1>6

(* A write cut short leaves the index as it is, or replaces it.              *)
LEMMA CutShortType ==
  ASSUME NEW p \in Procs, CutShort(p), torn \in BOOLEAN
  PROVE  index' \in {index, mem[p]} /\ torn' \in BOOLEAN
  BY DEF CutShort

(* Every action keeps the types and the shapes.                              *)
LEMMA StepType == TypeInv /\ [Next]_vars => TypeInv'
<1> SUFFICES ASSUME TypeInv, [Next]_vars PROVE TypeInv'
  OBVIOUS
<1> USE DEF TypeInv, Goto
<1>0. LocalsOK /\ WorldOK
  BY TypeSplit
<1>00. ASSUME LocalsOK', WorldOK', \A q \in Procs : ShapeOK(q)' PROVE TypeInv'
  BY <1>00 DEF TypeOK, LocalsOK, WorldOK
<1>1. ASSUME NEW p \in Procs, StartApply(p) PROVE TypeInv'
  <2>1. PICK c \in CommandsOf[p] \cap {"apply", "dryrun"}, l \in SpecLists :
       IF ValidateAll(l) /\ ~torn
       THEN /\ cmd' = [cmd EXCEPT ![p] = c] /\ args' = [args EXCEPT ![p] = l]
            /\ Goto(p, "lock")
            /\ UNCHANGED <<lock, target, mem, plan, applied, value, tries>>
       ELSE Exit(p, "failed")
    BY <1>1 DEF StartApply
  <2>2. WorldOK'
    BY <1>0, <1>1 DEF StartApply, world, WorldOK
  <2>3. CASE ValidateAll(l) /\ ~torn
    <3>1. l \in Seq(Names) /\ c \in Commands
      BY InputsAreTyped DEF Commands
    <3>2. LocalsOK'
      BY <1>0, <2>1, <2>3, <3>1 DEF LocalsOK, PCs
    <3>3. plan[p] = <<>> /\ applied[p] = 0
      BY <1>1 DEF StartApply, ShapeOK
    <3>4. \A q \in Procs : ShapeOK(q)'
      BY <1>0, <2>1, <2>3, <3>1, <3>3 DEF ShapeOK, LocalsOK
    <3> QED BY <1>00, <2>2, <3>2, <3>4
  <2>4. CASE ~(ValidateAll(l) /\ ~torn)
    BY <1>00, <2>1, <2>2, <2>4, ExitType DEF Ended
  <2> QED BY <2>3, <2>4
<1>2. ASSUME NEW p \in Procs, StartOnToken(p) PROVE TypeInv'
  <2>1. PICK c \in CommandsOf[p] \cap {"rotate", "delete", "exec"}, n \in Names :
       IF torn \/ index[n] = NoId
       THEN Exit(p, "failed")
       ELSE /\ cmd' = [cmd EXCEPT ![p] = c] /\ args' = [args EXCEPT ![p] = <<n>>]
            /\ target' = [target EXCEPT ![p] = index[n]]
            /\ Goto(p, IF c = "exec" THEN "fetch" ELSE "confirm")
            /\ UNCHANGED <<lock, mem, plan, applied, value, tries>>
    BY <1>2 DEF StartOnToken
  <2>2. WorldOK'
    BY <1>0, <1>2 DEF StartOnToken, world, WorldOK
  <2>3. CASE ~torn /\ index[n] # NoId
    <3>1. index[n] \in Ids /\ c \in Commands /\ <<n>> \in Seq(Names)
      BY <1>0, <2>3 DEF Commands, WorldOK, Entries
    <3> DEFINE s == IF c = "exec" THEN "fetch" ELSE "confirm"
    <3>2. /\ s \in {"fetch", "confirm"}
          /\ pc' = [pc EXCEPT ![p] = s]
          /\ cmd' = [cmd EXCEPT ![p] = c] /\ args' = [args EXCEPT ![p] = <<n>>]
          /\ target' = [target EXCEPT ![p] = index[n]]
          /\ UNCHANGED lock /\ UNCHANGED mem /\ UNCHANGED plan /\ UNCHANGED applied
          /\ UNCHANGED value /\ UNCHANGED tries
      BY <2>1, <2>3
    <3> HIDE DEF s
    <3>3. LocalsOK'
      BY <1>0, <3>1, <3>2 DEF LocalsOK, PCs
    <3>4. ASSUME NEW q \in Procs PROVE ShapeOK(q)'
      <4>1. ShapeOK(q) /\ pc[p] = "idle"
        BY <1>2 DEF StartOnToken
      <4>2. CASE q = p
        BY <1>0, <2>1, <2>3, <3>1, <3>2, <4>1, <4>2 DEF ShapeOK, LocalsOK
      <4>3. CASE q # p
        BY <1>0, <2>1, <2>3, <3>2, <4>1, <4>3 DEF ShapeOK, LocalsOK
      <4> QED BY <4>2, <4>3
    <3> QED BY <1>00, <2>2, <3>3, <3>4
  <2>4. CASE torn \/ index[n] = NoId
    BY <1>00, <2>1, <2>2, <2>4, ExitType DEF Ended
  <2> QED BY <2>3, <2>4
<1>3. ASSUME NEW p \in Procs, Confirm(p) PROVE TypeInv'
  <2>1. WorldOK'
    BY <1>0, <1>3 DEF Confirm, world, WorldOK
  <2>2. CASE Exit(p, "aborted")
    BY <1>00, <2>1, <2>2, ExitType DEF Ended
  <2>3. CASE /\ Goto(p, "call")
             /\ UNCHANGED <<lock, cmd, args, target, mem, plan, applied, value, tries>>
    BY <1>0, <1>00, <1>3, <2>1, <2>3 DEF Confirm, LocalsOK, PCs, ShapeOK
  <2> QED BY <1>3, <2>2, <2>3 DEF Confirm
<1>4. ASSUME NEW p \in Procs, Acquire(p) PROVE TypeInv'
  <2>1. WorldOK'
    BY <1>0, <1>4 DEF Acquire, world, WorldOK
  <2>2. index \in Entries /\ [index EXCEPT ![Name(p)] = NoId] \in Entries
    BY <1>0 DEF WorldOK, Entries
  <2>3. CASE torn
    BY <1>00, <1>4, <2>1, <2>3, ExitType DEF Acquire, Ended
  <2>4. CASE ~torn
    <3>1. LocalsOK'
      BY <1>0, <1>4, <2>2, <2>4 DEF Acquire, LocalsOK, PCs
    <3>2. \A q \in Procs : ShapeOK(q)'
      BY <1>0, <1>4, <2>4 DEF Acquire, LocalsOK, ShapeOK
    <3> QED BY <1>00, <2>1, <3>1, <3>2
  <2> QED BY <2>3, <2>4
<1>5. ASSUME NEW p \in Procs, BuildPlan(p) PROVE TypeInv'
  <2>1. WorldOK'
    BY <1>0, <1>5 DEF BuildPlan, world, WorldOK
  <2>2. CASE Exit(p, "failed")
    BY <1>00, <2>1, <2>2, ExitType DEF Ended
  <2>3. ASSUME NEW a \in Decision(p, args[p][Len(plan[p]) + 1]),
               plan' = [plan EXCEPT ![p] = Append(@, a)],
               UNCHANGED <<lock, pc, cmd, args, target, mem, applied, value, tries>>
        PROVE  TypeInv'
    <3>1. args[p][Len(plan[p]) + 1] \in Names
      BY <1>0, <1>5 DEF BuildPlan, LocalsOK
    <3>2. a \in Actions
      BY <1>0, <2>3, <3>1 DEF Decision, Actions, LocalsOK, Entries, ResolveTokensByName
    <3>3. LocalsOK'
      BY <1>0, <2>3, <3>2 DEF LocalsOK
    <3>4. \A q \in Procs : ShapeOK(q)'
      BY <1>0, <1>5, <2>3, <3>2 DEF BuildPlan, LocalsOK, ShapeOK
    <3> QED BY <1>00, <2>1, <3>3, <3>4
  <2> QED BY <1>5, <2>2, <2>3 DEF BuildPlan
<1>6. ASSUME NEW p \in Procs, PlanReady(p) PROVE TypeInv'
  BY <1>0, <1>00, <1>6 DEF PlanReady, world, WorldOK, LocalsOK, PCs, ShapeOK
<1>7. ASSUME NEW p \in Procs, CreateToken(p) PROVE TypeInv'
  <2>1. PICK id \in Ids :
          /\ remote' = [remote EXCEPT ![id] = [status |-> "live", name |-> Item(p), ver |-> 1]]
          /\ Answered(p, "keep", [id |-> id, ver |-> 1]) \/ Unanswered(p)
    BY <1>7 DEF CreateToken
  <2>2. Item(p) \in Names
    BY <1>0, <1>7 DEF CreateToken, Executing, Item, ShapeOK, LocalsOK
  <2>3. WorldOK'
    BY <1>0, <1>7, <2>1, <2>2 DEF CreateToken, WorldOK, Tokens
  <2>4. [id |-> id, ver |-> 1] \in Secrets
    BY DEF Secrets
  <2>5. CASE Answered(p, "keep", [id |-> id, ver |-> 1])
    BY <1>00, <1>7, <2>3, <2>4, <2>5, AnsweredType DEF CreateToken, Executing
  <2>6. CASE Unanswered(p)
    BY <1>00, <2>3, <2>6, UnansweredType
  <2> QED BY <2>1, <2>5, <2>6
<1>8. ASSUME NEW p \in Procs, StoreCreated(p) PROVE TypeInv'
  <2>1. /\ pc[p] = "keep"
        /\ keychain' = [keychain EXCEPT ![Item(p)] = value[p]]
        /\ mem' = [mem EXCEPT ![p][Item(p)] = value[p].id]
        /\ applied' = [applied EXCEPT ![p] = @ + 1]
        /\ value' = [value EXCEPT ![p] = NoSecret]
        /\ pc' = [pc EXCEPT ![p] = "exec"]
        /\ UNCHANGED lock /\ UNCHANGED cmd /\ UNCHANGED args /\ UNCHANGED target
        /\ UNCHANGED plan /\ UNCHANGED tries /\ UNCHANGED remote /\ UNCHANGED index
        /\ UNCHANGED torn
    BY <1>8 DEF StoreCreated
  <2>2. value[p] \in Secrets /\ value[p].id \in Ids
    BY <2>1 DEF ShapeOK, Secrets
  <2>3. WorldOK'
    BY <1>0, <2>1, <2>2 DEF WorldOK
  <2>4. mem' \in [Procs -> Entries]
    BY <1>0, <2>1, <2>2 DEF LocalsOK, Entries
  <2>5. LocalsOK'
    BY <1>0, <2>1, <2>4 DEF LocalsOK, PCs
  <2>6. \A q \in Procs : ShapeOK(q)'
    BY <1>0, <2>1 DEF LocalsOK, ShapeOK
  <2> QED BY <1>00, <2>3, <2>5, <2>6
<1>9. ASSUME NEW p \in Procs, UpdateToken(p) PROVE TypeInv'
  <2>1. Item(p) \in Names /\ Step(p) \in Actions /\ pc[p] = "exec" /\ applied[p] < Len(plan[p])
    BY <1>0, <1>9 DEF UpdateToken, Executing, Item, Step, ShapeOK, LocalsOK
  <2>2. Step(p).id \in Ids \cup {NoId}
    BY <2>1 DEF Actions
  <2>3. CASE remote[Step(p).id].status = "live"
    <3>1. remote' = [remote EXCEPT ![Step(p).id].name = Item(p)]
          /\ UNCHANGED keychain /\ UNCHANGED index /\ UNCHANGED torn
      BY <1>9, <2>3 DEF UpdateToken
    <3>2. WorldOK'
      BY <1>0, <2>1, <2>2, <3>1 DEF WorldOK, Tokens
    <3>3. CASE Step(p).op = "update" /\ Answered(p, "check", NoSecret)
      BY <1>00, <2>1, <3>2, <3>3, AnsweredType
    <3>4. CASE RecordEntry(p)
      BY <1>00, <2>1, <3>2, <3>4, RecordType
    <3>5. CASE Unanswered(p)
      BY <1>00, <3>2, <3>5, UnansweredType
    <3> QED BY <1>9, <2>3, <3>3, <3>4, <3>5 DEF UpdateToken
  <2>4. CASE remote[Step(p).id].status # "live"
    BY <1>0, <1>00, <1>9, <2>4, StepFailedType DEF UpdateToken, WorldOK
  <2> QED BY <2>3, <2>4
<1>10. ASSUME NEW p \in Procs, PlanExecuted(p) PROVE TypeInv'
  BY <1>0, <1>00, <1>10 DEF PlanExecuted, world, WorldOK, LocalsOK, PCs, ShapeOK
<1>11. ASSUME NEW p \in Procs, Truncate(p) PROVE TypeInv'
  BY <1>0, <1>00, <1>11 DEF Truncate, NoEntries, Entries, WorldOK, LocalsOK, PCs, ShapeOK
<1>12. ASSUME NEW p \in Procs, Write(p) PROVE TypeInv'
  <2>1. WorldOK'
    BY <1>0, <1>12 DEF Write, WorldOK, LocalsOK
  <2> QED BY <1>00, <1>12, <2>1, ExitType DEF Write, Ended
<1>13. ASSUME NEW p \in Procs, WriteFails(p) PROVE TypeInv'
  <2>1. WorldOK'
    BY <1>0, <1>13, CutShortType DEF WriteFails, WorldOK, LocalsOK
  <2> QED BY <1>00, <1>13, <2>1, ExitType DEF WriteFails, Ended
<1>14. ASSUME NEW p \in Procs, RollToken(p) PROVE TypeInv'
  <2>1. target[p] \in Ids /\ pc[p] = "call" /\ remote[target[p]] \in Tokens
    BY <1>0, <1>14 DEF RollToken, ShapeOK, WorldOK
  <2>2. WorldOK'
    BY <1>0, <1>14, <2>1 DEF RollToken, WorldOK, Tokens
  <2>3. CASE remote[target[p]].status = "live"
    <3> DEFINE v == [id |-> target[p], ver |-> remote[target[p]].ver + 1]
    <3>1. v \in Secrets
      BY <2>1 DEF Secrets, Tokens
    <3>2. Answered(p, "store", v) \/ Unanswered(p)
      BY <1>14, <2>3 DEF RollToken
    <3>3. CASE Answered(p, "store", v)
      BY <1>00, <2>1, <2>2, <3>1, <3>3, AnsweredType
    <3>4. CASE Unanswered(p)
      BY <1>00, <2>2, <3>4, UnansweredType
    <3> QED BY <3>2, <3>3, <3>4
  <2>4. CASE remote[target[p]].status # "live"
    BY <1>00, <1>14, <2>2, <2>4, ExitType DEF RollToken, Ended
  <2> QED BY <2>3, <2>4
<1>15. ASSUME NEW p \in Procs, StoreRolled(p) PROVE TypeInv'
  <2>1. WorldOK'
    BY <1>0, <1>15 DEF StoreRolled, WorldOK, LocalsOK
  <2> QED BY <1>00, <1>15, <2>1, ExitType DEF StoreRolled, Ended
<1>16. ASSUME NEW p \in Procs, DeleteToken(p) PROVE TypeInv'
  <2>1. WorldOK'
    BY <1>0, <1>16 DEF DeleteToken, WorldOK, Tokens
  <2>2. CASE Answered(p, "forget", NoSecret)
    BY <1>00, <1>16, <2>1, <2>2, AnsweredType DEF DeleteToken
  <2>3. CASE Unanswered(p)
    BY <1>00, <2>1, <2>3, UnansweredType
  <2> QED BY <1>16, <2>2, <2>3 DEF DeleteToken
<1>17. ASSUME NEW p \in Procs, DeleteSecret(p) PROVE TypeInv'
  <2>1. WorldOK'
    BY <1>0, <1>17 DEF DeleteSecret, WorldOK
  <2>2. LocalsOK' /\ \A q \in Procs : ShapeOK(q)'
    BY <1>0, <1>17 DEF DeleteSecret, LocalsOK, PCs, ShapeOK
  <2> QED BY <1>00, <2>1, <2>2
<1>18. ASSUME NEW p \in Procs, FetchSecret(p) PROVE TypeInv'
  <2>1. WorldOK'
    BY <1>0, <1>18 DEF FetchSecret, world, WorldOK
  <2> QED BY <1>00, <1>18, <2>1, ExitType DEF FetchSecret, Ended
<1>19. ASSUME NEW p \in Procs, CallFails(p) PROVE TypeInv'
  <2>1. WorldOK'
    BY <1>0, <1>19 DEF CallFails, world, WorldOK
  <2> QED BY <1>00, <1>19, <2>1, StepFailedType DEF CallFails
<1>20. ASSUME NEW p \in Procs, Crash(p) PROVE TypeInv'
  <2>1. WorldOK'
    BY <1>0, <1>20, CutShortType DEF Crash, WorldOK, LocalsOK
  <2> QED BY <1>00, <1>20, <2>1, ExitType DEF Crash, Ended
<1>21. CASE DashboardDelete
  <2>1. WorldOK'
    BY <1>0, <1>21 DEF DashboardDelete, WorldOK, Tokens
  <2>2. LocalsOK' /\ \A q \in Procs : ShapeOK(q)'
    BY <1>0, <1>21 DEF DashboardDelete, procVars, LocalsOK, ShapeOK
  <2> QED BY <1>00, <2>1, <2>2
<1>22. CASE RemoveTorn \/ UNCHANGED vars
  <2>1. WorldOK'
    BY <1>0, <1>22 DEF RemoveTorn, vars, world, WorldOK
  <2>2. LocalsOK' /\ \A q \in Procs : ShapeOK(q)'
    BY <1>0, <1>22 DEF RemoveTorn, vars, procVars, LocalsOK, ShapeOK, Step
  <2> QED BY <1>00, <2>1, <2>2
<1>23. ASSUME NEW p \in Procs, CheckSecret(p) PROVE TypeInv'
  <2>1. WorldOK'
    BY <1>0, <1>23 DEF CheckSecret, world, WorldOK
  <2>2. pc[p] = "check" /\ applied[p] < Len(plan[p]) /\ RecordEntry(p)
    BY <1>23 DEF CheckSecret, ShapeOK
  <2> QED BY <1>00, <2>1, <2>2, RecordType
<1> QED BY <1>1, <1>2, <1>3, <1>4, <1>5, <1>6, <1>7, <1>8, <1>9, <1>10, <1>11, <1>12,
           <1>13, <1>14, <1>15, <1>16, <1>17, <1>18, <1>19, <1>20, <1>21, <1>22, <1>23
        DEF Next, Work, Call

(* TypeOK is an invariant of the specification.                              *)
THEOREM TypeCorrect == Spec => []TypeOK
<1>1. Init => TypeInv
  BY InitType
<1>2. TypeInv /\ [Next]_vars => TypeInv'
  BY StepType
<1>3. TypeInv => TypeOK
  BY DEF TypeInv
<1> QED BY <1>1, <1>2, <1>3, PTL DEF Spec

-------------------------------------------------------------------------------
(* One token per name                                                        *)
(*                                                                           *)
(* The argument: only the holder of the lock creates tokens, and from the    *)
(* moment it read the index to the moment it writes it back, Cloudflare's    *)
(* tokens of the names it plans for can only disappear.  So a planned        *)
(* create still finds no token of its name, and a planned update has the     *)
(* only one.  The parts that say so need every request to be sent once; the  *)
(* others hold whatever the SDK repeats.                                     *)

RequestsSentOnce == MaxRetries = 0 \/ "api" \notin Faults
USE DEF RequestsSentOnce

Exists(id) == id \in Ids /\ remote[id].status # "unused"

(* The value was issued, some time, for a token of name n.                   *)
Issued(s, n) ==
  s \in Secrets /\ Exists(s.id) /\ remote[s.id].name = n /\ s.ver <= remote[s.id].ver

(* An entry for n names a token that has, or had, that name, and unless      *)
(* creates are repeated no other token of that name is alive.                *)
EntryOK(id, n) ==
  id # NoId =>
    /\ Exists(id) /\ remote[id].name = n
    /\ RequestsSentOnce => ResolveTokensByName(n) \subseteq {id}

SpecsOK(p) == ValidateAll(args[p]) /\ (pc[p] = "plan" => mem[p] = index)

(* What buildPlan decided is still right for the actions not yet executed.   *)
Ahead(p, j) ==
  j \in 1..Len(plan[p]) /\ (IF pc[p] = "keep" THEN j > applied[p] + 1 ELSE j > applied[p])
ActionOK(p, j) ==
  IF plan[p][j].op = "create"
  THEN /\ RequestsSentOnce => ResolveTokensByName(args[p][j]) = {}
       /\ mem[p][args[p][j]] = NoId /\ index[args[p][j]] = NoId
  ELSE /\ plan[p][j].id # NoId /\ EntryOK(plan[p][j].id, args[p][j])
       /\ index[args[p][j]] \in {NoId, plan[p][j].id}
PlanOK(p) ==
  pc[p] \in {"plan", "exec", "check", "keep"} => \A j \in 1..Len(plan[p]) : Ahead(p, j) => ActionOK(p, j)

MemOK(p) == Holds(p) => \A n \in Names : EntryOK(mem[p][n], n)
KeepOK(p) ==
  pc[p] = "keep" => Issued(value[p], Item(p)) /\ EntryOK(value[p].id, Item(p))
TargetOK(p) ==
  /\ pc[p] \in {"confirm", "call"} => Exists(target[p]) /\ remote[target[p]].name = Name(p)
  /\ pc[p] = "store" => Issued(value[p], Name(p))

ProcOK(p) == SpecsOK(p) /\ PlanOK(p) /\ MemOK(p) /\ KeepOK(p) /\ TargetOK(p)
Mutex == \A p \in Procs : Holds(p) <=> lock = p
StoresOK ==
  /\ RequestsSentOnce => OneTokenPerName
  /\ \A n \in Names : EntryOK(index[n], n)
  /\ \A n \in Names : keychain[n] # NoSecret => Issued(keychain[n], n)

(* The inductive invariant: whoever is between flock and close holds the     *)
(* lock alone, the stores agree, and what each process has read and planned  *)
(* under the lock is still true (apply.go:114-126).                          *)
IndInv == Mutex /\ StoresOK /\ \A p \in Procs : ProcOK(p)

(* What the steps of the others may do to the remote tokens.                 *)
Grows ==
  \A id \in Ids : remote[id].status # "unused" =>
    /\ remote'[id].status # "unused" /\ remote'[id].name = remote[id].name
    /\ remote[id].ver <= remote'[id].ver
Shrinks ==
  \A id \in Ids : remote'[id].status = "live" =>
    remote[id].status = "live" /\ remote'[id].name = remote[id].name
SameLocals(q) ==
  /\ pc'[q] = pc[q] /\ args'[q] = args[q] /\ target'[q] = target[q] /\ mem'[q] = mem[q]
  /\ plan'[q] = plan[q] /\ applied'[q] = applied[q] /\ value'[q] = value[q]

(* A step that creates and renames nothing finds no more by a name.          *)
LEMMA ShrinkingResolves ==
  ASSUME Shrinks, NEW n
  PROVE  ResolveTokensByName(n)' \subseteq ResolveTokensByName(n)
  BY DEF Shrinks, ResolveTokensByName

(* A value stays issued for its name: IDs keep their names.                  *)
LEMMA IssuedStays ==
  ASSUME WorldOK, WorldOK', Grows, NEW s, NEW n, Issued(s, n)
  PROVE  Issued(s, n)'
<1>1. s \in Secrets /\ s.id \in Ids /\ s.ver \in Nat
  BY DEF Issued, Secrets
<1>2. remote[s.id].ver \in Nat /\ remote'[s.id].ver \in Nat
  BY <1>1 DEF WorldOK, Tokens
<1> QED BY <1>1, <1>2 DEF Issued, Exists, Grows

(* An entry stays true when no token of its name appears.                    *)
LEMMA EntryStays ==
  ASSUME Grows, Shrinks, NEW id, NEW n, EntryOK(id, n)
  PROVE  EntryOK(id, n)'
  BY ShrinkingResolves DEF EntryOK, Exists, Grows

(* The stores stay consistent when only tokens disappear.                    *)
LEMMA StoresStay ==
  ASSUME WorldOK, WorldOK', StoresOK, Grows, Shrinks, index' = index, keychain' = keychain
  PROVE  StoresOK'
<1>1. RequestsSentOnce => OneTokenPerName'
  BY ShrinkingResolves DEF StoresOK, OneTokenPerName
<1>2. ASSUME NEW n \in Names PROVE EntryOK(index[n], n)'
  BY EntryStays DEF StoresOK
<1>3. ASSUME NEW n \in Names, keychain[n] # NoSecret PROVE Issued(keychain[n], n)'
  BY <1>3, IssuedStays DEF StoresOK
<1> QED BY <1>1, <1>2, <1>3 DEF StoresOK

(* A process that does nothing in a step keeps its invariant, provided       *)
(* that no token appears and the file stays as it is while it holds the      *)
(* lock.                                                                     *)
LEMMA OthersStay ==
  ASSUME TypeInv, WorldOK', NEW q \in Procs, ProcOK(q), SameLocals(q), Grows,
         Holds(q) => Shrinks /\ index' = index
  PROVE  ProcOK(q)'
<1> USE DEF SameLocals
<1>0. LocalsOK /\ WorldOK /\ ShapeOK(q)
  BY TypeSplit DEF TypeInv
<1>1. SpecsOK(q)'
  BY DEF ProcOK, SpecsOK, Holds, ValidateAll
<1>2. PlanOK(q)'
  <2>1. SUFFICES ASSUME pc[q] \in {"plan", "exec", "check", "keep"}, NEW j \in Nat, Ahead(q, j)
                 PROVE  ActionOK(q, j)'
    BY DEF PlanOK, Ahead
  <2>2. ActionOK(q, j) /\ Shrinks /\ index' = index
    BY <2>1 DEF ProcOK, PlanOK, Ahead, Holds
  <2>3. CASE plan[q][j].op = "create"
    BY <2>2, <2>3, ShrinkingResolves DEF ActionOK
  <2>4. CASE plan[q][j].op # "create"
    BY <2>2, <2>4, EntryStays DEF ActionOK
  <2> QED BY <2>3, <2>4
<1>3. MemOK(q)'
  BY EntryStays DEF ProcOK, MemOK, Holds
<1>4. KeepOK(q)'
  BY <1>0, EntryStays, IssuedStays DEF ProcOK, KeepOK, Holds, Item
<1>5. TargetOK(q)'
  BY <1>0, IssuedStays DEF ProcOK, TargetOK, Name, Exists, Grows
<1> QED BY <1>1, <1>2, <1>3, <1>4, <1>5 DEF ProcOK

(* What earlier commands left satisfies the invariant.                       *)
LEMMA InitInv == Init => IndInv
<1> SUFFICES ASSUME Init PROVE IndInv
  OBVIOUS
<1>1. PICK s \in Seeds :
       /\ remote = [id \in Ids |->
            IF \E n \in Names : s.token[n] = id
            THEN [status |-> "live", name |-> CHOOSE n \in Names : s.token[n] = id, ver |-> 1]
            ELSE Unused]
       /\ index = [n \in Names |-> IF n \in s.known THEN s.token[n] ELSE NoId]
       /\ keychain = [n \in Names |->
            IF n \in s.known /\ s.token[n] # NoId
            THEN [id |-> s.token[n], ver |-> 1] ELSE NoSecret]
  BY DEF Init
<1>2. ASSUME NEW n \in Names, s.token[n] # NoId
      PROVE  /\ s.token[n] \in Ids
             /\ remote[s.token[n]] = [status |-> "live", name |-> n, ver |-> 1]
  <2>1. s.token[n] \in Ids
    BY <1>2, SeedsAreConsistent DEF Entries
  <2>2. (CHOOSE m \in Names : s.token[m] = s.token[n]) = n
    BY <1>2, SeedsAreConsistent
  <2> QED BY <1>1, <2>1, <2>2
<1>3. ASSUME NEW n \in Names, NEW id \in ResolveTokensByName(n) PROVE s.token[n] = id
  <2>1. remote[id].status = "live" /\ remote[id].name = n /\ id \in Ids
    BY DEF ResolveTokensByName
  <2>2. PICK m \in Names : s.token[m] = id
    BY <1>1, <2>1 DEF Unused
  <2>3. s.token[m] # NoId
    BY <2>1, <2>2, SentinelsAreFresh
  <2>4. remote[s.token[m]] = [status |-> "live", name |-> m, ver |-> 1]
    BY <1>2, <2>3
  <2>5. m = n
    BY <2>1, <2>2, <2>4
  <2> QED BY <2>2, <2>5
<1>4. OneTokenPerName
  BY <1>3 DEF OneTokenPerName
<1>5. ASSUME NEW n \in Names PROVE EntryOK(index[n], n)
  <2>1. CASE index[n] # NoId
    <3>1. index[n] = s.token[n] /\ s.token[n] # NoId
      BY <1>1, <2>1
    <3>2. /\ index[n] \in Ids
          /\ remote[index[n]] = [status |-> "live", name |-> n, ver |-> 1]
      BY <1>2, <3>1
    <3>3. ResolveTokensByName(n) \subseteq {index[n]}
      BY <1>3, <3>1
    <3> QED BY <3>2, <3>3 DEF EntryOK, Exists
  <2>2. CASE index[n] = NoId
    BY <2>2 DEF EntryOK
  <2> QED BY <2>1, <2>2
<1>6. ASSUME NEW n \in Names, keychain[n] # NoSecret PROVE Issued(keychain[n], n)
  <2>1. keychain[n] = [id |-> s.token[n], ver |-> 1] /\ s.token[n] # NoId
    BY <1>1, <1>6
  <2>2. /\ s.token[n] \in Ids
        /\ remote[s.token[n]] = [status |-> "live", name |-> n, ver |-> 1]
    BY <1>2, <2>1
  <2> QED BY <2>1, <2>2 DEF Issued, Exists, Secrets
<1>7. Mutex
  BY SentinelsAreFresh DEF Init, Mutex, Holds
<1>8. ASSUME NEW p \in Procs PROVE ProcOK(p)
  BY DEF Init, ProcOK, SpecsOK, ValidateAll, PlanOK, MemOK, KeepOK, TargetOK, Holds
<1> QED BY <1>4, <1>5, <1>6, <1>7, <1>8 DEF IndInv, StoresOK

(* A process that ends frees the lock if it had it, and leaves nothing.      *)
LEMMA ExitStays ==
  ASSUME TypeInv, Mutex, NEW p \in Procs, NEW s \in Ended, Exit(p, s)
  PROVE  /\ Mutex' /\ ProcOK(p)'
         /\ \A q \in Procs \ {p} : SameLocals(q)
<1> USE DEF Exit, Goto
<1>0. LocalsOK
  BY TypeSplit DEF TypeInv
<1>1. Mutex'
  BY <1>0, SentinelsAreFresh DEF LocalsOK, Mutex, Holds, Ended
<1>2. ProcOK(p)'
  BY <1>0 DEF LocalsOK, ProcOK, SpecsOK, ValidateAll, PlanOK, MemOK, KeepOK, TargetOK, Holds, Ended
<1>3. \A q \in Procs \ {p} : SameLocals(q)
  BY <1>0 DEF LocalsOK, SameLocals
<1> QED BY <1>1, <1>2, <1>3

(* An error either ends the process or goes to the write of what was done.   *)
LEMMA StepFailedStays ==
  ASSUME TypeInv, IndInv, WorldOK', NEW p \in Procs, StepFailed(p), Grows,
         Holds(p) => \A n \in Names : EntryOK(mem[p][n], n)'
  PROVE  /\ Mutex' /\ ProcOK(p)'
         /\ \A q \in Procs \ {p} : SameLocals(q)
<1>0. LocalsOK /\ ProcOK(p) /\ Mutex
  BY TypeSplit DEF TypeInv, IndInv
<1>1. CASE pc[p] \in {"exec", "keep"} /\ applied[p] > 0
  <2>1. /\ pc' = [pc EXCEPT ![p] = "commit"]
        /\ value' = [value EXCEPT ![p] = NoSecret]
        /\ UNCHANGED lock /\ UNCHANGED args /\ UNCHANGED target
        /\ UNCHANGED mem /\ UNCHANGED plan /\ UNCHANGED applied
    BY <1>1 DEF StepFailed, Goto
  <2>2. Mutex'
    BY <1>0, <1>1, <2>1 DEF LocalsOK, Mutex, Holds
  <2>3. ProcOK(p)'
    BY <1>0, <1>1, <2>1 DEF LocalsOK, ProcOK, SpecsOK, ValidateAll, PlanOK, MemOK, KeepOK, TargetOK, Holds
  <2>4. \A q \in Procs \ {p} : SameLocals(q)
    BY <1>0, <2>1 DEF LocalsOK, SameLocals
  <2> QED BY <2>2, <2>3, <2>4
<1>2. CASE ~(pc[p] \in {"exec", "keep"} /\ applied[p] > 0)
  BY <1>0, <1>2, ExitStays DEF StepFailed, Ended
<1> QED BY <1>1, <1>2

(* An error of p goes to the write of what was done, or ends p.              *)
LEMMA StepFailedMoves ==
  ASSUME TypeInv, NEW p \in Procs, StepFailed(p)
  PROVE  /\ \/ pc'[p] = "failed"
            \/ /\ pc[p] \in {"exec", "keep"} /\ applied[p] > 0 /\ pc'[p] = "commit"
               /\ cmd' = cmd /\ args' = args /\ mem' = mem /\ applied' = applied
               /\ lock' = lock
         /\ \A q \in Procs \ {p} : SameLocals(q) /\ cmd'[q] = cmd[q]
<1>0. LocalsOK
  BY TypeSplit DEF TypeInv
<1>1. CASE pc[p] \in {"exec", "keep"} /\ applied[p] > 0
  BY <1>0, <1>1 DEF StepFailed, Goto, LocalsOK, SameLocals
<1>2. CASE ~(pc[p] \in {"exec", "keep"} /\ applied[p] > 0)
  BY <1>0, <1>2 DEF StepFailed, Exit, Goto, LocalsOK, SameLocals
<1> QED BY <1>1, <1>2

(* An unanswered request is an error, or is sent again: then only the count  *)
(* of the attempts changes.                                                  *)
LEMMA UnansweredMoves ==
  ASSUME TypeInv, NEW p \in Procs, Unanswered(p)
  PROVE  \/ StepFailed(p)
         \/ /\ ~RequestsSentOnce
            /\ pc' = pc /\ cmd' = cmd /\ args' = args /\ target' = target /\ mem' = mem
            /\ plan' = plan /\ applied' = applied /\ value' = value /\ lock' = lock
<1>1. CASE tries[p] < MaxRetries
  BY <1>1, TypeSplit DEF TypeInv, LocalsOK, Unanswered
<1>2. CASE ~(tries[p] < MaxRetries)
  BY <1>2 DEF Unanswered
<1> QED BY <1>1, <1>2

(* A request outside of the lock may go unanswered, and be sent again.       *)
LEMMA UnansweredStays ==
  ASSUME TypeInv, TypeInv', IndInv, NEW p \in Procs, Unanswered(p), Grows, ~Holds(p)
  PROVE  /\ Mutex' /\ ProcOK(p)'
         /\ \A q \in Procs \ {p} : SameLocals(q)
<1>1. WorldOK' /\ ProcOK(p)
  BY DEF TypeInv, TypeOK, WorldOK, IndInv
<1>2. CASE StepFailed(p)
  BY <1>1, <1>2, StepFailedStays
<1>3. CASE ~StepFailed(p)
  <2>1. /\ UNCHANGED pc /\ UNCHANGED lock /\ UNCHANGED args /\ UNCHANGED target
        /\ UNCHANGED mem /\ UNCHANGED plan /\ UNCHANGED applied /\ UNCHANGED value
    BY <1>3, UnansweredMoves
  <2>2. Mutex' /\ \A q \in Procs : SameLocals(q)
    BY <2>1 DEF IndInv, Mutex, Holds, SameLocals
  <2> QED BY <1>1, <2>2, OthersStay
<1> QED BY <1>2, <1>3

(* A step that leaves the stores alone grows and shrinks nothing.            *)
LEMMA SameWorld ==
  ASSUME TypeInv, UNCHANGED world
  PROVE  Grows /\ Shrinks /\ index' = index /\ keychain' = keychain
  BY TypeSplit DEF TypeInv, WorldOK, Tokens, world, Grows, Shrinks

(* The invariant after a step of p, from what p changed.                     *)
LEMMA PutTogether ==
  ASSUME TypeInv, TypeInv', IndInv, NEW p \in Procs,
         Mutex', StoresOK', ProcOK(p)', \A q \in Procs \ {p} : SameLocals(q),
         Grows, (Shrinks /\ index' = index) \/ Holds(p)
  PROVE  IndInv'
<1>1. ASSUME NEW q \in Procs \ {p} PROVE ProcOK(q)'
  <2>1. Holds(q) => Shrinks /\ index' = index
    BY DEF IndInv, Mutex
  <2>2. WorldOK'
    BY DEF TypeInv, TypeOK, WorldOK
  <2> QED BY <2>1, <2>2, OthersStay DEF IndInv
<1> QED BY <1>1 DEF IndInv

(* The same for a step that leaves the stores alone.                         *)
LEMMA PutTogetherSameWorld ==
  ASSUME TypeInv, TypeInv', IndInv, NEW p \in Procs, UNCHANGED world,
         Mutex', ProcOK(p)', \A q \in Procs \ {p} : SameLocals(q)
  PROVE  IndInv'
<1>1. WorldOK /\ WorldOK'
  BY DEF TypeInv, TypeOK, WorldOK
<1>2. StoresOK'
  BY <1>1, SameWorld, StoresStay DEF IndInv
<1> QED BY <1>2, SameWorld, PutTogether

(* Ending keeps the invariant.                                               *)
LEMMA ExitSameWorld ==
  ASSUME TypeInv, TypeInv', IndInv, NEW p \in Procs, NEW s \in Ended, Exit(p, s), UNCHANGED world
  PROVE  IndInv'
  BY ExitStays, PutTogetherSameWorld DEF IndInv

(* An error keeps the invariant.                                             *)
LEMMA FailedSameWorld ==
  ASSUME TypeInv, TypeInv', IndInv, NEW p \in Procs, StepFailed(p), UNCHANGED world
  PROVE  IndInv'
<1>1. WorldOK /\ WorldOK' /\ LocalsOK
  BY DEF TypeInv, TypeOK, WorldOK, LocalsOK
<1>2. CASE pc[p] \in {"exec", "keep"} /\ applied[p] > 0
  <2>1. UNCHANGED mem
    BY <1>2 DEF StepFailed
  <2>2. Holds(p) => \A n \in Names : EntryOK(mem[p][n], n)'
    BY <2>1 DEF IndInv, ProcOK, MemOK, EntryOK, Exists, ResolveTokensByName, world
  <2> QED BY <1>1, <2>2, SameWorld, StepFailedStays, PutTogetherSameWorld
<1>3. CASE ~(pc[p] \in {"exec", "keep"} /\ applied[p] > 0)
  BY <1>3, ExitSameWorld DEF StepFailed, Ended
<1> QED BY <1>2, <1>3

(* What the step of a create or an update is about.                          *)
LEMMA ItemOfStep ==
  ASSUME TypeInv, IndInv, NEW p \in Procs, pc[p] \in {"exec", "check"}, applied[p] < Len(plan[p])
  PROVE  /\ Item(p) \in Names
         /\ IF Step(p).op = "create"
            THEN /\ RequestsSentOnce => ResolveTokensByName(Item(p)) = {}
                 /\ index[Item(p)] = NoId
            ELSE /\ Step(p).id # NoId /\ EntryOK(Step(p).id, Item(p))
                 /\ index[Item(p)] \in {NoId, Step(p).id}
<1>1. LocalsOK /\ ShapeOK(p) /\ PlanOK(p)
  BY TypeSplit DEF TypeInv, IndInv, ProcOK
<1>2. applied[p] \in Nat /\ applied[p] + 1 \in 1..Len(plan[p]) /\ Len(plan[p]) <= Len(args[p])
  BY <1>1 DEF LocalsOK, ShapeOK
<1>3. Ahead(p, applied[p] + 1)
  BY <1>2 DEF Ahead
<1>4. ActionOK(p, applied[p] + 1)
  BY <1>1, <1>2, <1>3 DEF PlanOK
<1>5. args[p] \in Seq(Names)
  BY <1>1 DEF LocalsOK
<1> QED BY <1>2, <1>4, <1>5 DEF ActionOK, Item, Step

(* Entering the token of the current update keeps the invariant.             *)
LEMMA RecordStays ==
  ASSUME TypeInv, TypeInv', IndInv, NEW p \in Procs, pc[p] \in {"exec", "check"},
         applied[p] < Len(plan[p]), Step(p).op # "create", RecordEntry(p), UNCHANGED world
  PROVE  IndInv'
<1>0. LocalsOK /\ WorldOK /\ ShapeOK(p)
  BY TypeSplit DEF TypeInv
<1>1. /\ Holds(p) /\ applied[p] \in Nat /\ Len(plan[p]) <= Len(args[p])
      /\ Item(p) = args[p][applied[p] + 1]
  BY <1>0 DEF Item, Holds, ShapeOK, LocalsOK
<1>2. PICK n \in Names, id \in Ids : n = Item(p) /\ id = Step(p).id /\ EntryOK(id, n)
  BY ItemOfStep DEF EntryOK, Exists
<1>3. /\ mem' = [mem EXCEPT ![p][n] = id] /\ pc' = [pc EXCEPT ![p] = "exec"]
      /\ applied' = [applied EXCEPT ![p] = @ + 1]
      /\ UNCHANGED lock /\ UNCHANGED args /\ UNCHANGED remote /\ UNCHANGED index
      /\ UNCHANGED target /\ UNCHANGED plan /\ UNCHANGED value
  BY <1>2 DEF RecordEntry, Goto, world
<1>4. pc'[p] = "exec" /\ applied'[p] = applied[p] + 1 /\ mem'[p] = [mem[p] EXCEPT ![n] = id]
  BY <1>0, <1>3 DEF LocalsOK
<1>5. MemOK(p)'
  <2> SUFFICES ASSUME NEW m \in Names PROVE EntryOK(mem[p][m], m)'
    BY DEF MemOK
  <2>1. mem'[p][m] = IF m = n THEN id ELSE mem[p][m]
    BY <1>0, <1>4 DEF LocalsOK, Entries
  <2> QED BY <1>1, <1>2, <1>3, <2>1
          DEF IndInv, ProcOK, MemOK, EntryOK, Exists, ResolveTokensByName
<1>6. PlanOK(p)'
  <2> SUFFICES ASSUME NEW j \in Nat, Ahead(p, j)' PROVE ActionOK(p, j)'
    BY DEF PlanOK, Ahead
  <2>1. Ahead(p, j) /\ j \in 1..Len(args[p]) /\ j # applied[p] + 1
    BY <1>0, <1>1, <1>3, <1>4 DEF Ahead, LocalsOK
  <2>2. ActionOK(p, j)
    BY <2>1 DEF IndInv, ProcOK, PlanOK, Ahead
  <2>3. args[p][j] \in Names \ {n}
    <3>1. args[p] \in Seq(Names) /\ ValidateAll(args[p])
      BY <1>0 DEF IndInv, ProcOK, SpecsOK, LocalsOK
    <3>2. j \in DOMAIN args[p] /\ applied[p] + 1 \in DOMAIN args[p] /\ args[p][j] \in Names
      BY <1>0, <1>1, <2>1, <3>1 DEF LocalsOK
    <3> QED BY <1>1, <1>2, <2>1, <3>1, <3>2 DEF ValidateAll
  <2>4. mem'[p][args[p][j]] = mem[p][args[p][j]]
    BY <1>0, <1>4, <2>3 DEF LocalsOK, Entries
  <2> QED BY <1>3, <2>2, <2>4 DEF ActionOK, EntryOK, Exists, ResolveTokensByName
<1>7. ProcOK(p)'
  BY <1>3, <1>4, <1>5, <1>6 DEF IndInv, ProcOK, SpecsOK, KeepOK, TargetOK
<1>8. Mutex' /\ \A q \in Procs \ {p} : SameLocals(q)
  BY <1>0, <1>1, <1>3, <1>4 DEF IndInv, Mutex, Holds, LocalsOK, SameLocals
<1> QED BY <1>7, <1>8, PutTogetherSameWorld

(* An update sends the name the token has, so that nothing changes.          *)
LEMMA UpdateKeepsRemote ==
  ASSUME TypeInv, IndInv, NEW p \in Procs, UpdateToken(p)
  PROVE  /\ pc[p] = "exec" /\ applied[p] < Len(plan[p]) /\ Step(p).op # "create"
         /\ UNCHANGED world
<1>1. pc[p] = "exec" /\ applied[p] < Len(plan[p]) /\ Step(p).op # "create"
  BY DEF UpdateToken, Executing
<1>2. PICK n \in Names, id \in Ids :
        n = Item(p) /\ id = Step(p).id /\ EntryOK(id, n) /\ remote[id].name = n
  BY <1>1, ItemOfStep DEF EntryOK, Exists
<1>3. remote \in [Ids -> Tokens]
  BY DEF TypeInv, TypeOK
<1>4. UNCHANGED remote
  <2>1. CASE remote[id].status = "live"
    <3>1. remote' = [remote EXCEPT ![id].name = n]
      BY <1>2, <2>1 DEF UpdateToken
    <3>2. [remote[id] EXCEPT !.name = n] = remote[id]
      BY <1>2, <1>3 DEF Tokens
    <3> QED BY <1>3, <3>1, <3>2
  <2>2. CASE remote[id].status # "live"
    BY <1>2, <2>2 DEF UpdateToken
  <2> QED BY <2>1, <2>2
<1> QED BY <1>1, <1>4 DEF UpdateToken, world

(* The two steps of an update: an error, one more step of the request or the *)
(* read that follows it, or the entry.                                       *)
LEMMA UpdateMoves ==
  ASSUME TypeInv, IndInv, NEW p \in Procs, UpdateToken(p) \/ CheckSecret(p)
  PROVE  /\ pc[p] \in {"exec", "check"} /\ applied[p] < Len(plan[p]) /\ Step(p).op # "create"
         /\ UNCHANGED world
         /\ \/ StepFailed(p) /\ pc[p] = "exec"
            \/ /\ lock' = lock /\ cmd' = cmd /\ args' = args /\ target' = target /\ plan' = plan
               /\ \A q \in Procs : pc'[q] = IF q = p THEN pc'[p] ELSE pc[q]
               /\ \/ /\ mem' = mem /\ applied' = applied /\ pc'[p] \in {"exec", "check"}
                  \/ /\ pc'[p] = "exec" /\ applied' = [applied EXCEPT ![p] = @ + 1]
                     /\ mem' = [mem EXCEPT ![p][Item(p)] = Step(p).id]
<1>0. LocalsOK /\ ShapeOK(p)
  BY TypeSplit DEF TypeInv
<1>1. /\ pc[p] \in {"exec", "check"} /\ applied[p] < Len(plan[p]) /\ Step(p).op # "create"
      /\ UNCHANGED world /\ (UpdateToken(p) => pc[p] = "exec")
  BY <1>0, UpdateKeepsRemote DEF CheckSecret, ShapeOK, Step
<1>2. CASE RecordEntry(p)
  BY <1>0, <1>1, <1>2 DEF RecordEntry, Goto, LocalsOK
<1>3. CASE UpdateToken(p) /\ ~RecordEntry(p)
  <2>1. StepFailed(p) \/ Unanswered(p) \/ Answered(p, "check", NoSecret)
    BY <1>3 DEF UpdateToken
  <2>2. CASE Unanswered(p) /\ ~StepFailed(p)
    BY <1>0, <1>1, <1>3, <2>2, UnansweredMoves
  <2>3. CASE Answered(p, "check", NoSecret)
    BY <1>0, <1>1, <2>3 DEF Answered, Goto, LocalsOK
  <2> QED BY <1>1, <1>3, <2>1, <2>2, <2>3
<1> QED BY <1>2, <1>3 DEF CheckSecret

(* A deletion at Cloudflare keeps every name and issue number.               *)
LEMMA DeletionFrame ==
  ASSUME WorldOK, NEW id,
         remote' = remote \/ remote' = [remote EXCEPT ![id].status = "deleted"]
  PROVE  Grows /\ Shrinks
<1>1. ASSUME NEW i \in Ids
      PROVE  remote'[i] = remote[i] \/ remote'[i] = [remote[i] EXCEPT !.status = "deleted"]
  BY DEF WorldOK
<1>2. ASSUME NEW i \in Ids
      PROVE  /\ remote'[i].name = remote[i].name /\ remote'[i].ver = remote[i].ver
             /\ remote'[i].status \in {remote[i].status, "deleted"}
             /\ remote[i].ver \in Nat
  BY <1>1 DEF WorldOK, Tokens
<1> QED BY <1>2 DEF Grows, Shrinks

(* Every action keeps the invariant.                                         *)
LEMMA StepInv ==
  ASSUME TypeInv, TypeInv', IndInv, [Next]_vars
  PROVE  IndInv'
<1> USE DEF Goto
<1>0. /\ LocalsOK /\ WorldOK /\ LocalsOK' /\ WorldOK'
      /\ \A q \in Procs : ShapeOK(q) /\ ShapeOK(q)'
  BY DEF TypeInv, TypeOK, LocalsOK, WorldOK
<1>1. ASSUME NEW p \in Procs, StartApply(p) PROVE IndInv'
  <2>1. PICK c \in CommandsOf[p] \cap {"apply", "dryrun"}, l \in SpecLists :
       IF ValidateAll(l) /\ ~torn
       THEN /\ cmd' = [cmd EXCEPT ![p] = c] /\ args' = [args EXCEPT ![p] = l]
            /\ Goto(p, "lock")
            /\ UNCHANGED <<lock, target, mem, plan, applied, value, tries>>
       ELSE Exit(p, "failed")
    BY <1>1 DEF StartApply
  <2>2. UNCHANGED world /\ pc[p] = "idle"
    BY <1>1 DEF StartApply
  <2>3. CASE ValidateAll(l) /\ ~torn
    <3>1. /\ args' = [args EXCEPT ![p] = l] /\ pc' = [pc EXCEPT ![p] = "lock"]
          /\ UNCHANGED lock /\ UNCHANGED target /\ UNCHANGED mem /\ UNCHANGED plan
          /\ UNCHANGED applied /\ UNCHANGED value
      BY <2>1, <2>3
    <3>2. Mutex'
      BY <1>0, <2>2, <3>1 DEF IndInv, Mutex, Holds, LocalsOK
    <3>3. ProcOK(p)'
      BY <1>0, <2>3, <3>1 DEF LocalsOK, ProcOK, SpecsOK, ValidateAll, PlanOK, MemOK, KeepOK, TargetOK, Holds
    <3>4. \A q \in Procs \ {p} : SameLocals(q)
      BY <1>0, <3>1 DEF LocalsOK, SameLocals
    <3> QED BY <2>2, <3>2, <3>3, <3>4, PutTogetherSameWorld
  <2>4. CASE ~(ValidateAll(l) /\ ~torn)
    BY <2>1, <2>2, <2>4, ExitSameWorld DEF Ended
  <2> QED BY <2>3, <2>4
<1>2. ASSUME NEW p \in Procs, StartOnToken(p) PROVE IndInv'
  <2>1. PICK c \in CommandsOf[p] \cap {"rotate", "delete", "exec"}, n \in Names :
       IF torn \/ index[n] = NoId
       THEN Exit(p, "failed")
       ELSE /\ cmd' = [cmd EXCEPT ![p] = c] /\ args' = [args EXCEPT ![p] = <<n>>]
            /\ target' = [target EXCEPT ![p] = index[n]]
            /\ Goto(p, IF c = "exec" THEN "fetch" ELSE "confirm")
            /\ UNCHANGED <<lock, mem, plan, applied, value, tries>>
    BY <1>2 DEF StartOnToken
  <2>2. UNCHANGED world /\ pc[p] = "idle"
    BY <1>2 DEF StartOnToken
  <2>3. CASE ~torn /\ index[n] # NoId
    <3> DEFINE s == IF c = "exec" THEN "fetch" ELSE "confirm"
    <3>1. /\ s \in {"fetch", "confirm"}
          /\ args' = [args EXCEPT ![p] = <<n>>] /\ pc' = [pc EXCEPT ![p] = s]
          /\ target' = [target EXCEPT ![p] = index[n]]
          /\ UNCHANGED lock /\ UNCHANGED mem /\ UNCHANGED plan
          /\ UNCHANGED applied /\ UNCHANGED value
      BY <2>1, <2>3
    <3> HIDE DEF s
    <3>2. Mutex'
      BY <1>0, <2>2, <3>1 DEF IndInv, Mutex, Holds, LocalsOK
    <3>3. args'[p] = <<n>> /\ pc'[p] = s /\ target'[p] = index[n]
      BY <1>0, <3>1 DEF LocalsOK
    <3>4. SpecsOK(p)'
      BY <3>1, <3>3 DEF SpecsOK, ValidateAll
    <3>5. index[n] \in Ids /\ remote'[index[n]].status # "unused" /\ remote'[index[n]].name = n
      BY <2>2, <2>3 DEF IndInv, StoresOK, EntryOK, Exists, world
    <3>6. TargetOK(p)'
      BY <3>1, <3>3, <3>5 DEF TargetOK, Name, Exists
    <3>7. ProcOK(p)'
      BY <3>1, <3>3, <3>4, <3>6 DEF ProcOK, PlanOK, MemOK, KeepOK, Holds
    <3>8. \A q \in Procs \ {p} : SameLocals(q)
      BY <1>0, <3>1 DEF LocalsOK, SameLocals
    <3> QED BY <2>2, <3>2, <3>7, <3>8, PutTogetherSameWorld
  <2>4. CASE torn \/ index[n] = NoId
    BY <2>1, <2>2, <2>4, ExitSameWorld DEF Ended
  <2> QED BY <2>3, <2>4
<1>3. ASSUME NEW p \in Procs, Confirm(p) PROVE IndInv'
  <2>1. UNCHANGED world /\ pc[p] = "confirm"
    BY <1>3 DEF Confirm
  <2>2. CASE Exit(p, "aborted")
    BY <2>1, <2>2, ExitSameWorld DEF Ended
  <2>3. CASE /\ Goto(p, "call")
             /\ UNCHANGED <<lock, cmd, args, target, mem, plan, applied, value, tries>>
    <3>1. /\ pc' = [pc EXCEPT ![p] = "call"]
          /\ UNCHANGED lock /\ UNCHANGED mem /\ UNCHANGED plan /\ UNCHANGED args
          /\ UNCHANGED target /\ UNCHANGED applied /\ UNCHANGED value /\ UNCHANGED remote
      BY <2>1, <2>3 DEF world
    <3>2. Mutex'
      BY <1>0, <2>1, <3>1 DEF IndInv, Mutex, Holds, LocalsOK
    <3>3. ProcOK(p)'
      BY <1>0, <2>1, <3>1 DEF IndInv, LocalsOK, ProcOK, SpecsOK, ValidateAll, PlanOK, MemOK,
         KeepOK, TargetOK, Holds, Name, Exists
    <3>4. \A q \in Procs \ {p} : SameLocals(q)
      BY <1>0, <3>1 DEF LocalsOK, SameLocals
    <3> QED BY <2>1, <3>2, <3>3, <3>4, PutTogetherSameWorld
  <2> QED BY <1>3, <2>2, <2>3 DEF Confirm
<1>4. ASSUME NEW p \in Procs, Acquire(p) PROVE IndInv'
  <2>1. CASE torn
    BY <1>4, <2>1, ExitSameWorld DEF Acquire, Ended
  <2>2. CASE ~torn
    <3>1. /\ pc[p] = "lock" /\ lock = NoProc /\ lock' = p
          /\ UNCHANGED world /\ UNCHANGED index /\ UNCHANGED remote /\ UNCHANGED args
          /\ UNCHANGED target /\ UNCHANGED plan /\ UNCHANGED applied /\ UNCHANGED value
      BY <1>4, <2>2 DEF Acquire, world
    <3>2. /\ pc'[p] \in {"commit", "plan"} /\ (pc'[p] = "plan" => mem'[p] = index)
          /\ \A n \in Names : mem'[p][n] \in {index[n], NoId}
          /\ \A q \in Procs \ {p} : pc'[q] = pc[q] /\ mem'[q] = mem[q]
      BY <1>0, <1>4, <2>2 DEF Acquire, LocalsOK, WorldOK, Entries
    <3>3. Mutex'
      BY <1>0, <3>1, <3>2, SentinelsAreFresh DEF IndInv, Mutex, Holds, LocalsOK
    <3>4. MemOK(p)'
      <4> SUFFICES ASSUME NEW n \in Names PROVE EntryOK(mem[p][n], n)'
        BY DEF MemOK
      <4>1. CASE mem'[p][n] = index[n]
        BY <3>1, <4>1 DEF IndInv, StoresOK, EntryOK, Exists, ResolveTokensByName
      <4>2. CASE mem'[p][n] = NoId
        BY <4>2 DEF EntryOK
      <4> QED BY <3>2, <4>1, <4>2
    <3>5. SpecsOK(p)' /\ PlanOK(p)'
      BY <1>0, <3>1, <3>2 DEF IndInv, ProcOK, SpecsOK, ValidateAll, PlanOK, Ahead, ShapeOK
    <3>6. ProcOK(p)'
      BY <3>2, <3>4, <3>5 DEF ProcOK, KeepOK, TargetOK
    <3>7. \A q \in Procs \ {p} : SameLocals(q)
      BY <3>1, <3>2 DEF SameLocals
    <3> QED BY <3>1, <3>3, <3>6, <3>7, PutTogetherSameWorld
  <2> QED BY <2>1, <2>2
<1>5. ASSUME NEW p \in Procs, BuildPlan(p) PROVE IndInv'
  <2>1. /\ pc[p] = "plan" /\ Len(plan[p]) < Len(args[p]) /\ UNCHANGED world
        /\ mem[p] = index /\ applied[p] = 0
    BY <1>0, <1>5 DEF BuildPlan, IndInv, ProcOK, SpecsOK, ShapeOK
  <2>2. CASE Exit(p, "failed")
    BY <2>1, <2>2, ExitSameWorld DEF Ended
  <2>3. ASSUME NEW a \in Decision(p, args[p][Len(plan[p]) + 1]),
               plan' = [plan EXCEPT ![p] = Append(@, a)],
               UNCHANGED <<lock, pc, cmd, args, target, mem, applied, value, tries>>
        PROVE  IndInv'
    <3>1. /\ plan' = [plan EXCEPT ![p] = Append(@, a)]
          /\ UNCHANGED lock /\ UNCHANGED pc /\ UNCHANGED args /\ UNCHANGED target
          /\ UNCHANGED mem /\ UNCHANGED applied /\ UNCHANGED value
          /\ UNCHANGED remote /\ UNCHANGED index
      BY <2>1, <2>3 DEF world
    <3>k. PICK k \in Nat : k = Len(plan[p]) + 1
      BY <1>0 DEF LocalsOK
    <3>2. /\ Len(plan'[p]) = k /\ plan'[p][k] = a
          /\ \A j \in 1..Len(plan[p]) : plan'[p][j] = plan[p][j]
      <4>1. a \in Actions
        <5>1. args[p][k] \in Names
          BY <1>0, <2>1, <3>k DEF LocalsOK
        <5> QED BY <1>0, <2>3, <3>k, <5>1 DEF Decision, Actions, LocalsOK, Entries, ResolveTokensByName
      <4>2. plan[p] \in Seq(Actions) /\ plan'[p] = Append(plan[p], a)
        BY <1>0, <3>1 DEF LocalsOK
      <4> QED BY <3>k, <4>1, <4>2
    <3>3. ActionOK(p, k)'
      <4>1. PICK n \in Names : n = args[p][k] /\ a \in Decision(p, n)
        BY <1>0, <2>1, <2>3, <3>k DEF LocalsOK
      <4>2. CASE mem[p][n] # NoId
        <5>1. a = [op |-> "update", id |-> mem[p][n]]
          BY <4>1, <4>2 DEF Decision
        <5>2. EntryOK(mem[p][n], n)
          BY <2>1, <4>1 DEF IndInv, StoresOK
        <5> QED BY <2>1, <3>1, <3>2, <4>1, <4>2, <5>1, <5>2 DEF ActionOK, EntryOK, Exists, ResolveTokensByName
      <4>3. CASE mem[p][n] = NoId /\ ResolveTokensByName(n) = {}
        <5>1. a = [op |-> "create", id |-> NoId]
          BY <4>1, <4>3 DEF Decision
        <5> QED BY <2>1, <3>1, <3>2, <4>1, <4>3, <5>1 DEF ActionOK, ResolveTokensByName
      <4>4. CASE mem[p][n] = NoId /\ ResolveTokensByName(n) # {}
        <5>1. PICK id \in ResolveTokensByName(n) :
                ResolveTokensByName(n) = {id} /\ a = [op |-> "adopt", id |-> id]
          BY <4>1, <4>4 DEF Decision
        <5>2. id \in Ids /\ id # NoId /\ EntryOK(id, n)
          BY <5>1, SentinelsAreFresh DEF EntryOK, Exists, ResolveTokensByName
        <5> QED BY <2>1, <3>1, <3>2, <4>1, <4>4, <5>1, <5>2 DEF ActionOK, EntryOK, Exists, ResolveTokensByName
      <4> QED BY <4>2, <4>3, <4>4
    <3>4. PlanOK(p)'
      <4> SUFFICES ASSUME NEW j \in Nat, Ahead(p, j)' PROVE ActionOK(p, j)'
        BY DEF PlanOK, Ahead
      <4>1. CASE j = k
        BY <3>3, <4>1
      <4>2. CASE j # k
        <5>1. Ahead(p, j) /\ plan'[p][j] = plan[p][j]
          <6>1. j \in 1..k /\ (IF pc[p] = "keep" THEN j > applied[p] + 1 ELSE j > applied[p])
            BY <3>1, <3>2 DEF Ahead
          <6>2. Len(plan[p]) \in Nat
            BY <1>0 DEF LocalsOK
          <6>3. j \in 1..Len(plan[p])
            BY <3>k, <4>2, <6>1, <6>2
          <6> QED BY <3>2, <6>1, <6>3 DEF Ahead
        <5>2. ActionOK(p, j)
          BY <2>1, <5>1 DEF IndInv, ProcOK, PlanOK, Ahead
        <5> QED BY <3>1, <5>1, <5>2 DEF ActionOK, EntryOK, Exists, ResolveTokensByName
      <4> QED BY <4>1, <4>2
    <3>5. ProcOK(p)'
      BY <2>1, <3>1, <3>4 DEF IndInv, ProcOK, SpecsOK, ValidateAll, MemOK, KeepOK, TargetOK,
         Holds, EntryOK, Exists, ResolveTokensByName
    <3>6. Mutex' /\ \A q \in Procs \ {p} : SameLocals(q)
      BY <1>0, <3>1 DEF IndInv, Mutex, Holds, LocalsOK, SameLocals
    <3> QED BY <2>1, <3>5, <3>6, PutTogetherSameWorld
  <2> QED BY <1>5, <2>2, <2>3 DEF BuildPlan
<1>6. ASSUME NEW p \in Procs, PlanReady(p) PROVE IndInv'
  <2> DEFINE s == IF cmd[p] = "dryrun" THEN "commit" ELSE "exec"
  <2>1. /\ pc[p] = "plan" /\ pc' = [pc EXCEPT ![p] = s] /\ s \in {"commit", "exec"}
        /\ UNCHANGED lock /\ UNCHANGED args /\ UNCHANGED target /\ UNCHANGED mem
        /\ UNCHANGED plan /\ UNCHANGED applied /\ UNCHANGED value
        /\ UNCHANGED remote /\ UNCHANGED index /\ UNCHANGED world
    BY <1>6 DEF PlanReady, world
  <2> HIDE DEF s
  <2>2. pc'[p] = s /\ Holds(p)
    BY <1>0, <2>1 DEF LocalsOK, Holds
  <2>3. PlanOK(p)'
    BY <2>1, <2>2 DEF IndInv, ProcOK, PlanOK, Ahead, ActionOK, EntryOK, Exists, ResolveTokensByName
  <2>4. ProcOK(p)'
    BY <2>1, <2>2, <2>3 DEF IndInv, ProcOK, SpecsOK, ValidateAll, MemOK, KeepOK, TargetOK,
       EntryOK, Exists, ResolveTokensByName
  <2>5. Mutex' /\ \A q \in Procs \ {p} : SameLocals(q)
    BY <1>0, <2>1, <2>2 DEF IndInv, Mutex, Holds, LocalsOK, SameLocals
  <2> QED BY <2>1, <2>4, <2>5, PutTogetherSameWorld
<1>7. ASSUME NEW p \in Procs, CreateToken(p) PROVE IndInv'
  <2>1. PICK id \in Ids :
          /\ remote[id].status = "unused"
          /\ remote' = [remote EXCEPT ![id] = [status |-> "live", name |-> Item(p), ver |-> 1]]
          /\ Answered(p, "keep", [id |-> id, ver |-> 1]) \/ Unanswered(p)
    BY <1>7 DEF CreateToken
  <2>2. /\ pc[p] = "exec" /\ Holds(p) /\ index' = index /\ keychain' = keychain
        /\ applied[p] \in Nat /\ applied[p] < Len(plan[p]) /\ Len(plan[p]) <= Len(args[p])
        /\ plan[p][applied[p] + 1].op = "create"
        /\ Item(p) = args[p][applied[p] + 1] /\ Item(p) \in Names
    BY <1>0, <1>7 DEF CreateToken, Executing, Step, Item, Holds, ShapeOK, LocalsOK
  <2>3. PICK n \in Names : n = Item(p)
    BY <2>2
  <2>4. /\ RequestsSentOnce => ResolveTokensByName(n) = {}
        /\ mem[p][n] = NoId /\ index[n] = NoId
    <3>1. Len(plan[p]) \in Nat
      BY <1>0 DEF LocalsOK
    <3>2. Ahead(p, applied[p] + 1)
      BY <2>2, <3>1 DEF Ahead
    <3>3. ActionOK(p, applied[p] + 1)
      BY <2>2, <3>2 DEF IndInv, ProcOK, PlanOK, Ahead
    <3> QED BY <2>2, <2>3, <3>3 DEF ActionOK
  <2>5. /\ remote'[id] = [status |-> "live", name |-> n, ver |-> 1]
        /\ \A i \in Ids \ {id} : remote'[i] = remote[i]
    BY <1>0, <2>1, <2>3 DEF WorldOK
  <2>6. Grows
    BY <1>0, <2>1, <2>5 DEF Grows, WorldOK, Tokens
  <2>7. /\ ResolveTokensByName(n)' = ResolveTokensByName(n) \cup {id}
        /\ \A m \in Names \ {n} : ResolveTokensByName(m)' = ResolveTokensByName(m)
    BY <2>1, <2>5 DEF ResolveTokensByName
  <2>8. ASSUME NEW x, NEW m \in Names \ {n}, EntryOK(x, m) PROVE EntryOK(x, m)'
    BY <2>6, <2>7, <2>8 DEF EntryOK, Exists, Grows
  <2>9. StoresOK'
    <3>1. RequestsSentOnce => OneTokenPerName'
      BY <2>4, <2>7 DEF IndInv, StoresOK, OneTokenPerName
    <3>2. ASSUME NEW m \in Names PROVE EntryOK(index[m], m)'
      <4>1. CASE m = n
        BY <2>2, <2>4, <4>1 DEF EntryOK
      <4>2. CASE m # n
        BY <2>2, <2>8, <4>2 DEF IndInv, StoresOK
      <4> QED BY <4>1, <4>2
    <3>3. ASSUME NEW m \in Names, keychain[m] # NoSecret PROVE Issued(keychain[m], m)'
      BY <1>0, <2>2, <2>6, <3>3, IssuedStays DEF IndInv, StoresOK
    <3> QED BY <2>2, <3>1, <3>2, <3>3 DEF StoresOK
  <2>10. \A m \in Names : EntryOK(mem[p][m], m) /\ (m = n => mem[p][m] = NoId)
    BY <2>2, <2>4 DEF IndInv, ProcOK, MemOK
  <2>11. ASSUME mem'[p] = mem[p] PROVE MemOK(p)'
    <3> SUFFICES ASSUME NEW m \in Names PROVE EntryOK(mem[p][m], m)'
      BY DEF MemOK
    <3>1. CASE m = n
      BY <2>10, <2>11, <3>1 DEF EntryOK
    <3>2. CASE m # n
      BY <2>8, <2>10, <2>11, <3>2
    <3> QED BY <3>1, <3>2
  <2>12. ASSUME NEW j \in Nat, Ahead(p, j), j # applied[p] + 1,
                args'[p] = args[p], plan'[p] = plan[p], mem'[p] = mem[p]
         PROVE  ActionOK(p, j)'
    <3>1. j \in 1..Len(plan[p]) /\ j \in 1..Len(args[p])
      BY <1>0, <2>2, <2>12 DEF Ahead, LocalsOK
    <3>2. ActionOK(p, j)
      BY <2>2, <2>12, <3>1 DEF IndInv, ProcOK, PlanOK
    <3>3. args[p][j] \in Names \ {n}
      <4>1. args[p] \in Seq(Names) /\ ValidateAll(args[p])
        BY <1>0 DEF IndInv, ProcOK, SpecsOK, LocalsOK
      <4>2. j \in DOMAIN args[p] /\ applied[p] + 1 \in DOMAIN args[p] /\ args[p][j] \in Names
        BY <2>2, <3>1, <4>1
      <4> QED BY <2>2, <2>3, <2>12, <4>1, <4>2 DEF ValidateAll
    <3>4. CASE plan[p][j].op = "create"
      BY <2>2, <2>7, <2>12, <3>2, <3>3, <3>4 DEF ActionOK
    <3>5. CASE plan[p][j].op # "create"
      BY <2>2, <2>8, <2>12, <3>2, <3>3, <3>5 DEF ActionOK
    <3> QED BY <3>4, <3>5
  <2>13. CASE Answered(p, "keep", [id |-> id, ver |-> 1])
    <3>1. /\ pc' = [pc EXCEPT ![p] = "keep"] /\ value' = [value EXCEPT ![p] = [id |-> id, ver |-> 1]]
          /\ UNCHANGED lock /\ UNCHANGED args /\ UNCHANGED target /\ UNCHANGED mem
          /\ UNCHANGED plan /\ UNCHANGED applied
      BY <2>13 DEF Answered
    <3>2. pc'[p] = "keep" /\ value'[p] = [id |-> id, ver |-> 1] /\ Item(p)' = n
      BY <1>0, <2>3, <3>1 DEF LocalsOK, Item
    <3>3. PlanOK(p)'
      <4> SUFFICES ASSUME NEW j \in Nat, Ahead(p, j)' PROVE ActionOK(p, j)'
        BY DEF PlanOK, Ahead
      <4>1. Ahead(p, j) /\ j # applied[p] + 1
        BY <1>0, <2>2, <3>1, <3>2 DEF Ahead, LocalsOK
      <4> QED BY <2>12, <3>1, <4>1
    <3>4. KeepOK(p)'
      <4>1. Issued([id |-> id, ver |-> 1], n)' /\ EntryOK(id, n)'
        BY <2>4, <2>5, <2>7 DEF Issued, EntryOK, Exists, Secrets
      <4> QED BY <3>2, <4>1 DEF KeepOK
    <3>5. ProcOK(p)'
      BY <2>2, <2>11, <3>1, <3>2, <3>3, <3>4 DEF IndInv, ProcOK, SpecsOK, TargetOK
    <3>6. Mutex' /\ \A q \in Procs \ {p} : SameLocals(q)
      BY <1>0, <2>2, <3>1, <3>2 DEF IndInv, Mutex, Holds, LocalsOK, SameLocals
    <3> QED BY <2>2, <2>6, <2>9, <3>5, <3>6, PutTogether
  <2>14. CASE StepFailed(p)
    <3>1. ASSUME NEW m \in Names PROVE EntryOK(mem[p][m], m)'
      <4>1. mem'[p][m] \in {mem[p][m], NoId}
        <5>1. mem' = mem \/ mem' = [mem EXCEPT ![p] = NoEntries]
          BY <2>14 DEF StepFailed, Exit
        <5>2. CASE mem' = mem
          BY <5>2
        <5>3. CASE mem' = [mem EXCEPT ![p] = NoEntries]
          <6>1. mem'[p] = NoEntries
            BY <1>0, <5>3 DEF LocalsOK
          <6> QED BY <6>1 DEF NoEntries
        <5> QED BY <5>1, <5>2, <5>3
      <4>2. CASE m = n
        BY <2>10, <4>1, <4>2 DEF EntryOK
      <4>3. CASE m # n
        <5>1. CASE mem'[p][m] = NoId
          BY <5>1 DEF EntryOK
        <5>2. CASE mem'[p][m] = mem[p][m]
          BY <2>8, <2>10, <4>3, <5>2
        <5> QED BY <4>1, <5>1, <5>2
      <4> QED BY <4>2, <4>3
    <3>2. /\ Mutex' /\ ProcOK(p)'
          /\ \A q \in Procs \ {p} : SameLocals(q)
      BY <1>0, <2>6, <2>14, <3>1, StepFailedStays
    <3> QED BY <2>2, <2>6, <2>9, <3>2, PutTogether
  <2>15. CASE Unanswered(p) /\ ~StepFailed(p)
    <3>1. /\ ~RequestsSentOnce
          /\ UNCHANGED pc /\ UNCHANGED lock /\ UNCHANGED args /\ UNCHANGED target
          /\ UNCHANGED mem /\ UNCHANGED plan /\ UNCHANGED applied /\ UNCHANGED value
      BY <2>15, UnansweredMoves
    <3>2. PlanOK(p)'
      <4> SUFFICES ASSUME NEW j \in Nat, Ahead(p, j)' PROVE ActionOK(p, j)'
        BY DEF PlanOK, Ahead
      <4>1. Ahead(p, j)
        BY <3>1 DEF Ahead
      <4>2. CASE j = applied[p] + 1
        BY <2>2, <2>3, <2>4, <3>1, <4>2 DEF ActionOK
      <4>3. CASE j # applied[p] + 1
        BY <2>12, <3>1, <4>1, <4>3
      <4> QED BY <4>2, <4>3
    <3>3. ProcOK(p)'
      BY <2>2, <2>11, <3>1, <3>2 DEF IndInv, ProcOK, SpecsOK, KeepOK, TargetOK
    <3>4. Mutex' /\ \A q \in Procs \ {p} : SameLocals(q)
      BY <3>1 DEF IndInv, Mutex, Holds, SameLocals
    <3> QED BY <2>2, <2>6, <2>9, <3>3, <3>4, PutTogether
  <2> QED BY <2>1, <2>13, <2>14, <2>15
<1>8. ASSUME NEW p \in Procs, StoreCreated(p) PROVE IndInv'
  <2>1. /\ pc[p] = "keep"
        /\ keychain' = [keychain EXCEPT ![Item(p)] = value[p]]
        /\ mem' = [mem EXCEPT ![p][Item(p)] = value[p].id]
        /\ applied' = [applied EXCEPT ![p] = @ + 1]
        /\ value' = [value EXCEPT ![p] = NoSecret]
        /\ pc' = [pc EXCEPT ![p] = "exec"]
        /\ UNCHANGED lock /\ UNCHANGED args /\ UNCHANGED target
        /\ UNCHANGED plan /\ UNCHANGED remote /\ UNCHANGED index
    BY <1>8 DEF StoreCreated
  <2>2. /\ applied[p] \in Nat /\ applied[p] < Len(plan[p]) /\ Len(plan[p]) <= Len(args[p])
        /\ Item(p) = args[p][applied[p] + 1] /\ Item(p) \in Names /\ Holds(p)
    BY <1>0, <2>1 DEF Item, Holds, ShapeOK, LocalsOK
  <2>3. PICK n \in Names : n = Item(p)
    BY <2>2
  <2>4. Issued(value[p], n) /\ EntryOK(value[p].id, n) /\ value[p] # NoSecret
    BY <2>1, <2>3, SentinelsAreFresh DEF IndInv, ProcOK, KeepOK, Issued
  <2>5. Grows /\ Shrinks
    BY <1>0, <2>1 DEF Grows, Shrinks, WorldOK, Tokens
  <2>6. StoresOK'
    <3>1. ASSUME NEW m \in Names, keychain'[m] # NoSecret PROVE Issued(keychain[m], m)'
      BY <1>0, <2>1, <2>3, <2>4, <3>1 DEF IndInv, StoresOK, Issued, Exists, WorldOK
    <3> QED BY <2>1, <3>1 DEF IndInv, StoresOK, OneTokenPerName, EntryOK, Exists, ResolveTokensByName
  <2>7. /\ pc'[p] = "exec" /\ applied'[p] = applied[p] + 1
        /\ mem'[p] = [mem[p] EXCEPT ![n] = value[p].id]
    BY <1>0, <2>1, <2>3 DEF LocalsOK
  <2>8. MemOK(p)'
    <3> SUFFICES ASSUME NEW m \in Names PROVE EntryOK(mem[p][m], m)'
      BY DEF MemOK
    <3>1. mem'[p][m] = IF m = n THEN value[p].id ELSE mem[p][m]
      BY <1>0, <2>7 DEF LocalsOK, Entries
    <3> QED BY <2>1, <2>2, <2>4, <3>1
            DEF IndInv, ProcOK, MemOK, EntryOK, Exists, ResolveTokensByName
  <2>9. PlanOK(p)'
    <3> SUFFICES ASSUME NEW j \in Nat, Ahead(p, j)' PROVE ActionOK(p, j)'
      BY DEF PlanOK, Ahead
    <3>1. Ahead(p, j) /\ j \in 1..Len(args[p]) /\ j # applied[p] + 1
      BY <1>0, <2>1, <2>2, <2>7 DEF Ahead, LocalsOK
    <3>2. ActionOK(p, j)
      BY <2>1, <3>1 DEF IndInv, ProcOK, PlanOK, Ahead
    <3>3. args[p][j] \in Names \ {n}
      <4>1. args[p] \in Seq(Names) /\ ValidateAll(args[p])
        BY <1>0 DEF IndInv, ProcOK, SpecsOK, LocalsOK
      <4>2. j \in DOMAIN args[p] /\ applied[p] + 1 \in DOMAIN args[p] /\ args[p][j] \in Names
        BY <2>2, <3>1, <4>1
      <4> QED BY <2>2, <2>3, <3>1, <4>1, <4>2 DEF ValidateAll
    <3>4. mem'[p][args[p][j]] = mem[p][args[p][j]]
      BY <1>0, <2>7, <3>3 DEF LocalsOK, Entries
    <3> QED BY <2>1, <3>2, <3>4 DEF ActionOK, EntryOK, Exists, ResolveTokensByName
  <2>10. ProcOK(p)'
    BY <2>1, <2>7, <2>8, <2>9 DEF IndInv, ProcOK, SpecsOK, KeepOK, TargetOK
  <2>11. Mutex' /\ \A q \in Procs \ {p} : SameLocals(q)
    BY <1>0, <2>1, <2>2, <2>7 DEF IndInv, Mutex, Holds, LocalsOK, SameLocals
  <2> QED BY <2>1, <2>5, <2>6, <2>10, <2>11, PutTogether
<1>9. ASSUME NEW p \in Procs, UpdateToken(p) PROVE IndInv'
  <2>1. /\ pc[p] = "exec" /\ applied[p] < Len(plan[p]) /\ Step(p).op # "create"
        /\ UNCHANGED world
    BY <1>9, UpdateKeepsRemote
  <2>2. CASE Answered(p, "check", NoSecret)
    <3>1. /\ pc' = [pc EXCEPT ![p] = "check"] /\ value' = [value EXCEPT ![p] = NoSecret]
          /\ UNCHANGED lock /\ UNCHANGED args /\ UNCHANGED target /\ UNCHANGED mem
          /\ UNCHANGED plan /\ UNCHANGED applied /\ UNCHANGED remote /\ UNCHANGED index
      BY <2>1, <2>2 DEF Answered, world
    <3>2. pc'[p] = "check"
      BY <1>0, <3>1 DEF LocalsOK
    <3>3. PlanOK(p)'
      BY <2>1, <3>1, <3>2 DEF IndInv, ProcOK, PlanOK, Ahead, ActionOK, EntryOK, Exists,
         ResolveTokensByName
    <3>4. ProcOK(p)'
      BY <2>1, <3>1, <3>2, <3>3 DEF IndInv, ProcOK, SpecsOK, ValidateAll, MemOK, KeepOK, TargetOK,
         Holds, EntryOK, Exists, ResolveTokensByName
    <3>5. Mutex' /\ \A q \in Procs \ {p} : SameLocals(q)
      BY <1>0, <2>1, <3>1, <3>2 DEF IndInv, Mutex, Holds, LocalsOK, SameLocals
    <3> QED BY <2>1, <3>4, <3>5, PutTogetherSameWorld
  <2>3. CASE RecordEntry(p)
    BY <2>1, <2>3, RecordStays
  <2>4. CASE StepFailed(p)
    BY <2>1, <2>4, FailedSameWorld
  <2>5. CASE Unanswered(p) /\ ~StepFailed(p)
    <3>1. /\ UNCHANGED pc /\ UNCHANGED lock /\ UNCHANGED args /\ UNCHANGED target
          /\ UNCHANGED mem /\ UNCHANGED plan /\ UNCHANGED applied /\ UNCHANGED value
      BY <2>5, UnansweredMoves
    <3>2. Mutex' /\ \A q \in Procs : SameLocals(q)
      BY <3>1 DEF IndInv, Mutex, Holds, SameLocals
    <3>3. ProcOK(p)'
      BY <1>0, <2>1, <3>2, SameWorld, OthersStay DEF IndInv
    <3> QED BY <2>1, <3>2, <3>3, PutTogetherSameWorld
  <2> QED BY <1>9, <2>2, <2>3, <2>4, <2>5 DEF UpdateToken
<1>10. ASSUME NEW p \in Procs, PlanExecuted(p) PROVE IndInv'
  <2>1. /\ pc[p] = "exec" /\ pc' = [pc EXCEPT ![p] = "commit"]
        /\ UNCHANGED lock /\ UNCHANGED args /\ UNCHANGED target /\ UNCHANGED mem
        /\ UNCHANGED plan /\ UNCHANGED applied /\ UNCHANGED value
        /\ UNCHANGED remote /\ UNCHANGED world
    BY <1>10 DEF PlanExecuted, world
  <2>2. pc'[p] = "commit" /\ Holds(p)
    BY <1>0, <2>1 DEF LocalsOK, Holds
  <2>3. ProcOK(p)'
    BY <2>1, <2>2 DEF IndInv, ProcOK, SpecsOK, ValidateAll, PlanOK, MemOK, KeepOK, TargetOK,
       EntryOK, Exists, ResolveTokensByName
  <2>4. Mutex' /\ \A q \in Procs \ {p} : SameLocals(q)
    BY <1>0, <2>1, <2>2 DEF IndInv, Mutex, Holds, LocalsOK, SameLocals
  <2> QED BY <2>1, <2>3, <2>4, PutTogetherSameWorld
<1>11. ASSUME NEW p \in Procs, Truncate(p) PROVE IndInv'
  <2>1. /\ pc[p] = "commit" /\ pc' = [pc EXCEPT ![p] = "write"] /\ index' = NoEntries
        /\ UNCHANGED lock /\ UNCHANGED args /\ UNCHANGED target /\ UNCHANGED mem
        /\ UNCHANGED plan /\ UNCHANGED applied /\ UNCHANGED value
        /\ UNCHANGED remote /\ UNCHANGED keychain
    BY <1>11 DEF Truncate
  <2>2. pc'[p] = "write" /\ Holds(p)
    BY <1>0, <2>1 DEF LocalsOK, Holds
  <2>3. Grows
    BY <1>0, <2>1 DEF Grows, WorldOK, Tokens
  <2>4. StoresOK'
    BY <2>1 DEF IndInv, StoresOK, OneTokenPerName, NoEntries, EntryOK, Issued, Exists, ResolveTokensByName
  <2>5. ProcOK(p)'
    BY <2>1, <2>2 DEF IndInv, ProcOK, SpecsOK, ValidateAll, PlanOK, MemOK, KeepOK, TargetOK,
       EntryOK, Exists, ResolveTokensByName
  <2>6. Mutex' /\ \A q \in Procs \ {p} : SameLocals(q)
    BY <1>0, <2>1, <2>2 DEF IndInv, Mutex, Holds, LocalsOK, SameLocals
  <2> QED BY <2>2, <2>3, <2>4, <2>5, <2>6, PutTogether
<1>12. ASSUME NEW p \in Procs, Write(p) PROVE IndInv'
  <2>1. /\ Holds(p) /\ index' \in {index, mem[p]}
        /\ UNCHANGED remote /\ UNCHANGED keychain
    BY <1>12 DEF Write, Holds
  <2>2. Grows
    BY <1>0, <2>1 DEF Grows, WorldOK, Tokens
  <2>3. StoresOK'
    <3>1. ASSUME NEW n \in Names PROVE EntryOK(index[n], n)'
      BY <2>1 DEF IndInv, StoresOK, ProcOK, MemOK, EntryOK, Exists, ResolveTokensByName
    <3> QED BY <2>1, <3>1 DEF IndInv, StoresOK, OneTokenPerName, Issued, Exists, ResolveTokensByName
  <2>4. Mutex' /\ ProcOK(p)' /\ \A q \in Procs \ {p} : SameLocals(q)
    BY <1>12, ExitStays DEF Write, IndInv, Ended
  <2> QED BY <2>1, <2>2, <2>3, <2>4, PutTogether
<1>13. ASSUME NEW p \in Procs, WriteFails(p) PROVE IndInv'
  <2>1. /\ Holds(p) /\ index' \in {index, mem[p]}
        /\ UNCHANGED remote /\ UNCHANGED keychain
    BY <1>0, <1>13, CutShortType DEF WriteFails, Holds, WorldOK
  <2>2. Grows
    BY <1>0, <2>1 DEF Grows, WorldOK, Tokens
  <2>3. StoresOK'
    <3>1. ASSUME NEW n \in Names PROVE EntryOK(index[n], n)'
      BY <2>1 DEF IndInv, StoresOK, ProcOK, MemOK, EntryOK, Exists, ResolveTokensByName
    <3> QED BY <2>1, <3>1 DEF IndInv, StoresOK, OneTokenPerName, Issued, Exists, ResolveTokensByName
  <2>4. Mutex' /\ ProcOK(p)' /\ \A q \in Procs \ {p} : SameLocals(q)
    BY <1>13, ExitStays DEF WriteFails, IndInv, Ended
  <2> QED BY <2>1, <2>2, <2>3, <2>4, PutTogether
<1>14. ASSUME NEW p \in Procs, RollToken(p) PROVE IndInv'
  <2>1. PICK id \in Ids : id = target[p] /\ remote[id].status # "unused" /\ remote[id].name = Name(p)
    BY <1>14 DEF RollToken, IndInv, ProcOK, TargetOK, Exists
  <2>2. /\ pc[p] = "call" /\ index' = index /\ keychain' = keychain /\ remote[id].ver \in Nat
    BY <1>0, <1>14 DEF RollToken, WorldOK, Tokens
  <2>3. CASE remote[id].status = "live"
    <3>1. /\ remote' = [remote EXCEPT ![id].ver = @ + 1]
          /\ \/ Answered(p, "store", [id |-> id, ver |-> remote[id].ver + 1])
             \/ Unanswered(p)
      BY <1>14, <2>1, <2>3 DEF RollToken
    <3>2. /\ remote'[id] = [remote[id] EXCEPT !.ver = @ + 1]
          /\ \A i \in Ids \ {id} : remote'[i] = remote[i]
      BY <1>0, <3>1 DEF WorldOK
    <3>3. Grows /\ Shrinks
      BY <1>0, <3>2 DEF WorldOK, Tokens, Grows, Shrinks
    <3>4. StoresOK'
      BY <1>0, <2>2, <3>3, StoresStay DEF IndInv
    <3>5. CASE Answered(p, "store", [id |-> id, ver |-> remote[id].ver + 1])
      <4>1. /\ pc' = [pc EXCEPT ![p] = "store"]
            /\ value' = [value EXCEPT ![p] = [id |-> id, ver |-> remote[id].ver + 1]]
            /\ UNCHANGED lock /\ UNCHANGED args /\ UNCHANGED target /\ UNCHANGED mem
            /\ UNCHANGED plan /\ UNCHANGED applied
        BY <3>5 DEF Answered
      <4>2. /\ pc'[p] = "store" /\ value'[p] = [id |-> id, ver |-> remote[id].ver + 1]
            /\ Name(p)' = Name(p)
        BY <1>0, <4>1 DEF LocalsOK, Name
      <4>3. Issued(value[p], Name(p))'
        BY <1>0, <2>1, <2>2, <3>2, <4>2 DEF Issued, Exists, Secrets, WorldOK, Tokens
      <4>4. ProcOK(p)'
        BY <4>1, <4>2, <4>3 DEF IndInv, ProcOK, SpecsOK, PlanOK, MemOK, KeepOK, TargetOK, Holds
      <4>5. Mutex' /\ \A q \in Procs \ {p} : SameLocals(q)
        BY <1>0, <2>2, <4>1 DEF IndInv, Mutex, Holds, LocalsOK, SameLocals
      <4> QED BY <2>2, <3>3, <3>4, <4>4, <4>5, PutTogether
    <3>6. CASE Unanswered(p)
      <4>1. /\ Mutex' /\ ProcOK(p)'
            /\ \A q \in Procs \ {p} : SameLocals(q)
        BY <2>2, <3>3, <3>6, UnansweredStays DEF Holds
      <4> QED BY <2>2, <3>3, <3>4, <4>1, PutTogether
    <3> QED BY <3>1, <3>5, <3>6
  <2>4. CASE remote[id].status # "live"
    BY <1>14, <2>1, <2>4, ExitSameWorld DEF RollToken, Ended, world
  <2> QED BY <2>3, <2>4
<1>15. ASSUME NEW p \in Procs, StoreRolled(p) PROVE IndInv'
  <2>1. /\ pc[p] = "store" /\ keychain' = [keychain EXCEPT ![Name(p)] = value[p]]
        /\ UNCHANGED remote /\ UNCHANGED index /\ Exit(p, "ok")
    BY <1>15 DEF StoreRolled
  <2>2. Issued(value[p], Name(p))
    BY <2>1 DEF IndInv, ProcOK, TargetOK
  <2>3. Grows /\ Shrinks
    BY <1>0, <2>1 DEF Grows, Shrinks, WorldOK, Tokens
  <2>4. StoresOK'
    <3>1. ASSUME NEW m \in Names, keychain'[m] # NoSecret PROVE Issued(keychain[m], m)'
      BY <1>0, <2>1, <2>2, <3>1 DEF IndInv, StoresOK, Issued, Exists, WorldOK
    <3> QED BY <2>1, <3>1 DEF IndInv, StoresOK, OneTokenPerName, EntryOK, Exists, ResolveTokensByName
  <2>5. Mutex' /\ ProcOK(p)' /\ \A q \in Procs \ {p} : SameLocals(q)
    BY <2>1, ExitStays DEF IndInv, Ended
  <2> QED BY <2>1, <2>3, <2>4, <2>5, PutTogether
<1>16. ASSUME NEW p \in Procs, DeleteToken(p) PROVE IndInv'
  <2>1. /\ pc[p] = "call" /\ index' = index /\ keychain' = keychain
        /\ Answered(p, "forget", NoSecret) \/ Unanswered(p)
    BY <1>16 DEF DeleteToken
  <2>2. remote' = remote \/ remote' = [remote EXCEPT ![target[p]].status = "deleted"]
    BY <1>16 DEF DeleteToken
  <2>3. Grows /\ Shrinks
    BY <1>0, <2>2, DeletionFrame
  <2>4. StoresOK'
    BY <1>0, <2>1, <2>3, StoresStay DEF IndInv
  <2>5. CASE Answered(p, "forget", NoSecret)
    <3>1. /\ pc' = [pc EXCEPT ![p] = "forget"] /\ value' = [value EXCEPT ![p] = NoSecret]
          /\ UNCHANGED lock /\ UNCHANGED args /\ UNCHANGED target /\ UNCHANGED mem
          /\ UNCHANGED plan /\ UNCHANGED applied
      BY <2>5 DEF Answered
    <3>2. ProcOK(p)'
      BY <1>0, <3>1 DEF LocalsOK, IndInv, ProcOK, SpecsOK, PlanOK, MemOK, KeepOK, TargetOK, Holds
    <3>3. Mutex' /\ \A q \in Procs \ {p} : SameLocals(q)
      BY <1>0, <2>1, <3>1 DEF IndInv, Mutex, Holds, LocalsOK, SameLocals
    <3> QED BY <2>1, <2>3, <2>4, <3>2, <3>3, PutTogether
  <2>6. CASE Unanswered(p)
    <3>1. /\ Mutex' /\ ProcOK(p)'
          /\ \A q \in Procs \ {p} : SameLocals(q)
      BY <2>1, <2>3, <2>6, UnansweredStays DEF Holds
    <3> QED BY <2>1, <2>3, <2>4, <3>1, PutTogether
  <2> QED BY <2>1, <2>5, <2>6
<1>17. ASSUME NEW p \in Procs, DeleteSecret(p) PROVE IndInv'
  <2>1. /\ pc[p] = "forget" /\ keychain' = [keychain EXCEPT ![Name(p)] = NoSecret]
        /\ pc' = [pc EXCEPT ![p] = "lock"]
        /\ UNCHANGED remote /\ UNCHANGED index /\ UNCHANGED lock /\ UNCHANGED args
        /\ UNCHANGED target /\ UNCHANGED mem /\ UNCHANGED plan /\ UNCHANGED applied
        /\ UNCHANGED value
    BY <1>17 DEF DeleteSecret
  <2>2. Grows /\ Shrinks
    BY <1>0, <2>1 DEF Grows, Shrinks, WorldOK, Tokens
  <2>3. StoresOK'
    <3>1. ASSUME NEW m \in Names, keychain'[m] # NoSecret PROVE Issued(keychain[m], m)'
      BY <1>0, <2>1, <3>1 DEF IndInv, StoresOK, Issued, Exists, WorldOK
    <3> QED BY <2>1, <3>1 DEF IndInv, StoresOK, OneTokenPerName, EntryOK, Exists, ResolveTokensByName
  <2>4. ProcOK(p)'
    BY <1>0, <2>1 DEF LocalsOK, IndInv, ProcOK, SpecsOK, PlanOK, MemOK, KeepOK, TargetOK, Holds
  <2>5. Mutex' /\ \A q \in Procs \ {p} : SameLocals(q)
    BY <1>0, <2>1 DEF IndInv, Mutex, Holds, LocalsOK, SameLocals
  <2> QED BY <2>1, <2>2, <2>3, <2>4, <2>5, PutTogether
<1>18. ASSUME NEW p \in Procs, FetchSecret(p) PROVE IndInv'
  BY <1>18, ExitSameWorld DEF FetchSecret, Ended
<1>19. ASSUME NEW p \in Procs, CallFails(p) PROVE IndInv'
  BY <1>19, FailedSameWorld DEF CallFails
<1>20. ASSUME NEW p \in Procs, Crash(p) PROVE IndInv'
  <2>1. CASE pc[p] = "write"
    <3>1. /\ Holds(p) /\ index' \in {index, mem[p]}
          /\ UNCHANGED remote /\ UNCHANGED keychain
      BY <1>0, <1>20, <2>1, CutShortType DEF Crash, Holds, WorldOK
    <3>2. Grows
      BY <1>0, <3>1 DEF Grows, WorldOK, Tokens
    <3>3. StoresOK'
      <4>1. ASSUME NEW n \in Names PROVE EntryOK(index[n], n)'
        BY <3>1 DEF IndInv, StoresOK, ProcOK, MemOK, EntryOK, Exists, ResolveTokensByName
      <4> QED BY <3>1, <4>1 DEF IndInv, StoresOK, OneTokenPerName, Issued, Exists, ResolveTokensByName
    <3>4. Mutex' /\ ProcOK(p)' /\ \A q \in Procs \ {p} : SameLocals(q)
      BY <1>20, ExitStays DEF Crash, IndInv, Ended
    <3> QED BY <3>1, <3>2, <3>3, <3>4, PutTogether
  <2>2. CASE pc[p] # "write"
    BY <1>20, <2>2, ExitSameWorld DEF Crash, Ended, world
  <2> QED BY <2>1, <2>2
<1>21. CASE DashboardDelete
  <2>1. PICK id \in Ids : remote' = [remote EXCEPT ![id].status = "deleted"]
    BY <1>21 DEF DashboardDelete
  <2>2. Grows /\ Shrinks
    BY <1>0, <1>21, <2>1, DeletionFrame DEF DashboardDelete
  <2>3. index' = index /\ keychain' = keychain
    BY <1>21 DEF DashboardDelete
  <2>4. Mutex' /\ \A q \in Procs : SameLocals(q)
    BY <1>21 DEF DashboardDelete, procVars, IndInv, Mutex, Holds, SameLocals
  <2>5. StoresOK'
    BY <1>0, <2>2, <2>3, StoresStay DEF IndInv
  <2>6. ASSUME NEW q \in Procs PROVE ProcOK(q)'
    BY <1>0, <2>2, <2>3, <2>4, OthersStay DEF IndInv
  <2> QED BY <2>4, <2>5, <2>6 DEF IndInv
<1>22. CASE RemoveTorn \/ UNCHANGED vars
  <2>1. Mutex' /\ \A q \in Procs : SameLocals(q)
    BY <1>22 DEF RemoveTorn, vars, procVars, IndInv, Mutex, Holds, SameLocals
  <2>2. Grows /\ Shrinks /\ index' = index /\ keychain' = keychain
    BY <1>0, <1>22 DEF RemoveTorn, vars, world, WorldOK, Tokens, Grows, Shrinks
  <2>3. StoresOK'
    BY <1>0, <2>2, StoresStay DEF IndInv
  <2>4. ASSUME NEW q \in Procs PROVE ProcOK(q)'
    BY <1>0, <2>1, <2>2, OthersStay DEF IndInv
  <2> QED BY <2>1, <2>3, <2>4 DEF IndInv
<1>23. ASSUME NEW p \in Procs, CheckSecret(p) PROVE IndInv'
  <2>1. /\ pc[p] = "check" /\ applied[p] < Len(plan[p]) /\ Step(p).op # "create"
        /\ RecordEntry(p) /\ UNCHANGED world
    BY <1>0, <1>23 DEF CheckSecret, ShapeOK, Step
  <2> QED BY <2>1, RecordStays
<1> QED BY <1>1, <1>2, <1>3, <1>4, <1>5, <1>6, <1>7, <1>8, <1>9, <1>10, <1>11, <1>12,
           <1>13, <1>14, <1>15, <1>16, <1>17, <1>18, <1>19, <1>20, <1>21, <1>22, <1>23
        DEF Next, Work, Call

(* The invariant holds in every behaviour.                                   *)
LEMMA Safety == Spec => [](TypeInv /\ IndInv)
<1>1. Init => TypeInv /\ IndInv
  BY InitType, InitInv
<1>2. TypeInv /\ IndInv /\ [Next]_vars => TypeInv' /\ IndInv'
  BY StepType, StepInv
<1> QED BY <1>1, <1>2, PTL DEF Spec

(* The inductive invariant itself, as the runs check it: whoever is between  *)
(* flock and close is there alone, and what it has read and planned is still *)
(* true, however often requests are sent (apply.go:114-126).                 *)
THEOREM PlansStayTrue == Spec => []IndInv
<1>1. TypeInv /\ IndInv => IndInv
  OBVIOUS
<1> QED BY <1>1, Safety, PTL

(* Without resent requests, Cloudflare never holds two live tokens of one    *)
(* managed name, whatever runs, fails or crashes (apply.go:114-126).         *)
THEOREM NoDuplicates ==
  ASSUME RequestsSentOnce
  PROVE  Spec => []OneTokenPerName
<1>1. TypeInv /\ IndInv => OneTokenPerName
  BY DEF IndInv, StoresOK
<1> QED BY <1>1, Safety, PTL

(* Without resent requests, no entry of the index hides a live token of      *)
(* its name (apply.go:161).                                                  *)
THEOREM NoShadowing ==
  ASSUME RequestsSentOnce
  PROVE  Spec => []IndexNotShadowed
<1>1. TypeInv /\ IndInv => IndexNotShadowed
  BY DEF IndInv, StoresOK, EntryOK, IndexNotShadowed
<1> QED BY <1>1, Safety, PTL

(* Every value in the Keychain was issued for a token of the name it is      *)
(* stored under, with any number of retries (apply.go:237, rotate.go:87).    *)
THEOREM ValuesStayWithTheirNames == Spec => []SecretProvenance
<1>1. TypeInv /\ IndInv => SecretProvenance
  BY DEF IndInv, StoresOK, Issued, SecretProvenance
<1> QED BY <1>1, Safety, PTL
-------------------------------------------------------------------------------
(* What is committed                                                         *)
(*                                                                           *)
(* The argument: the file changes only under the lock, so what was decoded   *)
(* from it stays equal to it, but for the names the command has dealt with.  *)

Acts(p) ==
  \/ StartApply(p) \/ StartOnToken(p) \/ Confirm(p) \/ Work(p) \/ Call(p)
  \/ CallFails(p) \/ WriteFails(p) \/ Crash(p)

Done(p) == {args[p][j] : j \in 1..applied[p]}

Exact(p) ==
  /\ pc[p] \in {"plan", "exec", "check", "keep"} => cmd[p] # "delete"
  /\ pc[p] \in {"exec", "check", "keep", "commit"} /\ cmd[p] # "delete" =>
       \A n \in Names : IF n \in Done(p) THEN mem[p][n] # NoId ELSE mem[p][n] = index[n]
  /\ pc[p] = "commit" /\ cmd[p] = "delete" =>
       \A n \in Names : mem[p][n] = IF n = Name(p) THEN NoId ELSE index[n]
ExactInv == \A p \in Procs : Exact(p)

(* A step of one process leaves what the others hold in memory.              *)
LEMMA OthersKeep ==
  ASSUME TypeInv, NEW p \in Procs, Acts(p), NEW q \in Procs, q # p
  PROVE  SameLocals(q) /\ cmd'[q] = cmd[q]
<1>0. LocalsOK
  BY TypeSplit DEF TypeInv
<1> USE DEF LocalsOK, SameLocals, Goto
<1>1. CASE StartApply(p)
  BY <1>0, <1>1 DEF StartApply, Exit
<1>2. CASE StartOnToken(p)
  BY <1>0, <1>2 DEF StartOnToken, Exit
<1>3. CASE Confirm(p)
  BY <1>0, <1>3 DEF Confirm, Exit
<1>4. CASE Acquire(p)
  BY <1>0, <1>4 DEF Acquire, Exit
<1>5. CASE BuildPlan(p)
  BY <1>0, <1>5 DEF BuildPlan, Exit
<1>6. CASE PlanReady(p) \/ PlanExecuted(p) \/ Truncate(p)
  BY <1>0, <1>6 DEF PlanReady, PlanExecuted, Truncate
<1>7. CASE CreateToken(p) \/ DeleteToken(p) \/ RollToken(p)
  <2>1. (\E s, v : Answered(p, s, v)) \/ Unanswered(p) \/ Exit(p, "failed")
    BY <1>7 DEF CreateToken, DeleteToken, RollToken
  <2>2. ASSUME NEW s, NEW v, Answered(p, s, v) PROVE SameLocals(q) /\ cmd'[q] = cmd[q]
    BY <1>0, <2>2 DEF Answered
  <2>3. CASE Exit(p, "failed")
    BY <1>0, <2>3 DEF Exit
  <2>4. CASE Unanswered(p)
    BY <2>4, UnansweredMoves, StepFailedMoves
  <2> QED BY <2>1, <2>2, <2>3, <2>4
<1>8. CASE StoreCreated(p) \/ DeleteSecret(p)
  BY <1>0, <1>8 DEF StoreCreated, DeleteSecret
<1>9. CASE UpdateToken(p) \/ CheckSecret(p)
  <2>1. \/ StepFailed(p) \/ Unanswered(p)
        \/ Answered(p, "check", NoSecret) \/ RecordEntry(p)
    BY <1>9 DEF UpdateToken, CheckSecret
  <2>2. CASE StepFailed(p) \/ Unanswered(p)
    BY <2>2, UnansweredMoves, StepFailedMoves
  <2>3. CASE Answered(p, "check", NoSecret)
    BY <1>0, <2>3 DEF Answered
  <2>4. CASE RecordEntry(p)
    BY <1>0, <2>4 DEF RecordEntry
  <2> QED BY <2>1, <2>2, <2>3, <2>4
<1>10. CASE Write(p) \/ WriteFails(p) \/ StoreRolled(p) \/ FetchSecret(p) \/ Crash(p)
  <2>1. \E s : Exit(p, s)
    BY <1>10 DEF Write, WriteFails, StoreRolled, FetchSecret, Crash
  <2> QED BY <1>0, <2>1 DEF Exit
<1>11. CASE CallFails(p)
  BY <1>11, StepFailedMoves DEF CallFails
<1> QED BY <1>1, <1>2, <1>3, <1>4, <1>5, <1>6, <1>7, <1>8, <1>9, <1>10, <1>11 DEF Acts, Work, Call

(* The file is changed by the process that holds the lock.                   *)
LEMMA IndexStays ==
  ASSUME NEW p \in Procs, Acts(p), index' # index
  PROVE  /\ Holds(p)
         /\ Truncate(p) \/ Write(p) \/ WriteFails(p) \/ (Crash(p) /\ pc[p] = "write")
  BY DEF Acts, Work, Call, CheckSecret, StartApply, StartOnToken, Confirm, Acquire, BuildPlan, PlanReady, CreateToken,
     StoreCreated, UpdateToken, PlanExecuted, Truncate, Write, WriteFails, RollToken, StoreRolled,
     DeleteToken, DeleteSecret, FetchSecret, CallFails, Crash, world, Holds

(* What a process that stays under the lock may do to its copy.              *)
LEMMA ExactStays ==
  ASSUME NEW p \in Procs, Exact(p), index' = index, pc[p] \in {"exec", "check", "keep", "commit"},
         cmd'[p] = cmd[p], args'[p] = args[p], mem'[p] = mem[p], applied'[p] = applied[p],
         pc'[p] \in {"exec", "check", "keep", "commit"}, cmd[p] # "delete"
  PROVE  Exact(p)'
  BY DEF Exact, Done, Name

(* One more name is dealt with.                                              *)
LEMMA ExactGrows ==
  ASSUME TypeInv, NEW p \in Procs, Exact(p), pc[p] \in {"exec", "check", "keep"}, pc'[p] = "exec",
         index' = index, applied[p] < Len(args[p]), NEW id, id # NoId,
         cmd' = cmd, args' = args, applied' = [applied EXCEPT ![p] = @ + 1],
         mem' = [mem EXCEPT ![p][Item(p)] = id]
  PROVE  Exact(p)'
<1>1. /\ mem[p] \in [Names -> Ids \cup {NoId}] /\ mem \in [Procs -> Entries]
      /\ applied \in [Procs -> Nat] /\ args[p] \in Seq(Names)
  BY DEF TypeInv, TypeOK, Entries
<1>2. Item(p) \in Names /\ applied'[p] = applied[p] + 1 /\ Item(p) = args[p][applied[p] + 1]
  BY <1>1 DEF Item
<1>3. Done(p)' = Done(p) \cup {Item(p)}
  BY <1>1, <1>2 DEF Done
<1>4. \A n \in Names : mem'[p][n] = IF n = Item(p) THEN id ELSE mem[p][n]
  BY <1>1, <1>2
<1> QED BY <1>3, <1>4 DEF Exact
(* A process that is not about to write has nothing to be exact about.       *)
LEMMA ExactElsewhere ==
  ASSUME NEW p \in Procs, pc'[p] \notin {"plan", "exec", "check", "keep", "commit"}
  PROVE  Exact(p)'
  BY DEF Exact

LEMMA FailedExact ==
  ASSUME TypeInv, NEW p \in Procs, Exact(p), StepFailed(p), index' = index
  PROVE  Exact(p)'
<1>1. CASE pc'[p] = "failed"
  BY <1>1, ExactElsewhere
<1>2. CASE pc'[p] # "failed"
  <2>1. /\ pc[p] \in {"exec", "keep"} /\ pc'[p] = "commit"
        /\ cmd' = cmd /\ args' = args /\ mem' = mem /\ applied' = applied
    BY <1>2, StepFailedMoves
  <2> QED BY <2>1, ExactStays DEF Exact
<1> QED BY <1>1, <1>2

(* The process that acts stays exact.                                        *)
LEMMA ActorExact ==
  ASSUME TypeInv, IndInv, ExactInv, NEW p \in Procs, Acts(p)
  PROVE  Exact(p)'
<1>0. LocalsOK /\ WorldOK /\ ShapeOK(p) /\ ProcOK(p) /\ Exact(p)
  BY TypeSplit DEF TypeInv, IndInv, ExactInv
<1> USE DEF Goto
<1>1. CASE StartApply(p) \/ StartOnToken(p) \/ Confirm(p)
  <2>1. pc'[p] \in {"lock", "failed", "fetch", "confirm", "call", "aborted"}
    BY <1>0, <1>1 DEF StartApply, StartOnToken, Confirm, Exit, LocalsOK
  <2> QED BY <2>1, ExactElsewhere
<1>2. CASE Acquire(p)
  <2>1. CASE cmd[p] = "delete" /\ ~torn
    <3>1. /\ mem' = [mem EXCEPT ![p] = [index EXCEPT ![Name(p)] = NoId]]
          /\ pc' = [pc EXCEPT ![p] = "commit"] /\ cmd' = cmd /\ args' = args /\ index' = index
      BY <1>2, <2>1 DEF Acquire, world
    <3> QED BY <1>0, <2>1, <3>1 DEF LocalsOK, WorldOK, Entries, Exact, Name
  <2>2. CASE cmd[p] # "delete" /\ ~torn
    <3>1. pc' = [pc EXCEPT ![p] = "plan"] /\ cmd' = cmd
      BY <1>2, <2>2 DEF Acquire
    <3> QED BY <1>0, <2>2, <3>1 DEF LocalsOK, Exact
  <2>3. CASE torn
    BY <1>0, <1>2, <2>3, ExactElsewhere DEF Acquire, Exit, LocalsOK
  <2> QED BY <2>1, <2>2, <2>3
<1>3. CASE BuildPlan(p)
  <2>1. pc[p] = "plan" /\ (pc'[p] = "failed" \/ (pc' = pc /\ cmd' = cmd))
    BY <1>0, <1>3 DEF BuildPlan, Exit, LocalsOK
  <2> QED BY <1>0, <2>1 DEF Exact
<1>4. CASE PlanReady(p)
  <2>1. /\ pc[p] = "plan" /\ pc'[p] \in {"commit", "exec"} /\ cmd' = cmd /\ args' = args
        /\ mem' = mem /\ applied' = applied /\ index' = index
    BY <1>0, <1>4 DEF PlanReady, world, LocalsOK
  <2>2. applied[p] = 0 /\ mem[p] = index /\ cmd[p] # "delete"
    BY <1>0, <2>1 DEF ShapeOK, ProcOK, SpecsOK, Exact
  <2>3. Done(p)' = {}
    BY <2>1, <2>2 DEF Done
  <2> QED BY <2>1, <2>2, <2>3 DEF Exact
<1>5. CASE CreateToken(p)
  <2>1. pc[p] = "exec" /\ index' = index /\ cmd[p] # "delete"
    BY <1>0, <1>5 DEF CreateToken, Executing, Exact
  <2>2. (\E v : Answered(p, "keep", v)) \/ Unanswered(p)
    BY <1>5 DEF CreateToken
  <2>3. ASSUME NEW v, Answered(p, "keep", v) PROVE Exact(p)'
    <3>1. /\ pc'[p] = "keep" /\ cmd' = cmd /\ args' = args /\ mem' = mem /\ applied' = applied
      BY <1>0, <2>3 DEF Answered, LocalsOK
    <3> QED BY <1>0, <2>1, <3>1, ExactStays
  <2>4. CASE Unanswered(p) /\ ~StepFailed(p)
    BY <1>0, <2>1, <2>4, UnansweredMoves, ExactStays
  <2> QED BY <1>0, <2>1, <2>2, <2>3, <2>4, FailedExact
<1>6. CASE StoreCreated(p)
  <2>1. /\ pc[p] = "keep" /\ pc'[p] = "exec" /\ index' = index /\ cmd' = cmd /\ args' = args
        /\ applied' = [applied EXCEPT ![p] = @ + 1]
        /\ mem' = [mem EXCEPT ![p][Item(p)] = value[p].id]
    BY <1>0, <1>6 DEF StoreCreated, LocalsOK
  <2>2. value[p].id \in Ids /\ value[p].id # NoId /\ applied[p] < Len(args[p])
    BY <1>0, <2>1, SentinelsAreFresh DEF ShapeOK, Secrets, LocalsOK
  <2> QED BY <1>0, <2>1, <2>2, ExactGrows
<1>7. CASE UpdateToken(p) \/ CheckSecret(p)
  <2>1. /\ pc[p] \in {"exec", "check"} /\ index' = index /\ applied[p] < Len(plan[p])
        /\ Step(p).op # "create" /\ cmd[p] # "delete"
    BY <1>0, <1>7 DEF UpdateToken, CheckSecret, Executing, world, ShapeOK, Step, Exact
  <2>2. CASE StepFailed(p)
    BY <1>0, <2>1, <2>2, FailedExact
  <2>3. CASE Unanswered(p) /\ ~StepFailed(p)
    BY <1>0, <2>1, <2>3, UnansweredMoves, ExactStays
  <2>4. CASE Answered(p, "check", NoSecret)
    <3>1. pc'[p] = "check" /\ cmd' = cmd /\ args' = args /\ mem' = mem /\ applied' = applied
      BY <1>0, <2>4 DEF Answered, LocalsOK
    <3> QED BY <1>0, <2>1, <3>1, ExactStays
  <2>5. CASE RecordEntry(p)
    <3>1. /\ pc'[p] = "exec" /\ cmd' = cmd /\ args' = args
          /\ applied' = [applied EXCEPT ![p] = @ + 1]
          /\ mem' = [mem EXCEPT ![p][Item(p)] = Step(p).id]
      BY <1>0, <2>5 DEF RecordEntry, LocalsOK
    <3>2. Step(p).id # NoId /\ applied[p] < Len(args[p])
      BY <1>0, <2>1, ItemOfStep DEF ShapeOK, LocalsOK
    <3> QED BY <1>0, <2>1, <3>1, <3>2, ExactGrows
  <2> QED BY <1>7, <2>2, <2>3, <2>4, <2>5 DEF UpdateToken, CheckSecret
<1>8. CASE PlanExecuted(p)
  <2>1. /\ pc[p] = "exec" /\ pc'[p] = "commit" /\ cmd' = cmd /\ args' = args
        /\ mem' = mem /\ applied' = applied /\ index' = index
    BY <1>0, <1>8 DEF PlanExecuted, world, LocalsOK
  <2> QED BY <1>0, <2>1, ExactStays DEF Exact
<1>9. CASE Truncate(p) \/ DeleteSecret(p)
  <2>1. pc'[p] \in {"write", "lock"}
    BY <1>0, <1>9 DEF Truncate, DeleteSecret, LocalsOK
  <2> QED BY <2>1, ExactElsewhere
<1>10. CASE Write(p) \/ WriteFails(p) \/ StoreRolled(p) \/ FetchSecret(p) \/ Crash(p)
  <2>1. pc'[p] \in Ended
    BY <1>0, <1>10 DEF Write, WriteFails, StoreRolled, FetchSecret, Crash, Exit, LocalsOK, Ended
  <2> QED BY <2>1, ExactElsewhere DEF Ended
<1>11. CASE RollToken(p) \/ DeleteToken(p)
  <2>1. pc[p] = "call" /\ index' = index
    BY <1>11 DEF RollToken, DeleteToken
  <2>2. \/ \E v : Answered(p, "store", v) \/ Answered(p, "forget", v)
        \/ Unanswered(p) \/ Exit(p, "failed")
    BY <1>11 DEF RollToken, DeleteToken
  <2>3. ASSUME NEW s \in {"store", "forget"}, NEW v, Answered(p, s, v) PROVE Exact(p)'
    <3>1. pc'[p] \in {"store", "forget"}
      BY <1>0, <2>3 DEF Answered, LocalsOK
    <3> QED BY <3>1, ExactElsewhere
  <2>4. CASE Exit(p, "failed")
    BY <1>0, <2>4, ExactElsewhere DEF Exit, LocalsOK
  <2>5. CASE Unanswered(p) /\ ~StepFailed(p)
    BY <2>1, <2>5, UnansweredMoves, ExactElsewhere
  <2> QED BY <1>0, <2>1, <2>2, <2>3, <2>4, <2>5, FailedExact
<1>12. CASE CallFails(p)
  BY <1>0, <1>12, FailedExact DEF CallFails, world
<1> QED BY <1>1, <1>2, <1>3, <1>4, <1>5, <1>6, <1>7, <1>8, <1>9, <1>10, <1>11, <1>12 DEF Acts, Work, Call

LEMMA ExactStep ==
  ASSUME TypeInv, IndInv, ExactInv, [Next]_vars
  PROVE  ExactInv'
<1>1. CASE DashboardDelete \/ RemoveTorn \/ UNCHANGED vars
  BY <1>1 DEF DashboardDelete, RemoveTorn, vars, world, procVars, ExactInv, Exact, Done, Name
<1>2. ASSUME NEW p \in Procs, Acts(p) PROVE ExactInv'
  <2>1. ASSUME NEW q \in Procs, q # p PROVE Exact(q)'
    <3>1. SameLocals(q) /\ cmd'[q] = cmd[q] /\ Exact(q)
      BY <1>2, <2>1, OthersKeep DEF ExactInv
    <3>2. CASE Holds(q)
      <4>1. index' = index
        BY <1>2, <2>1, <3>2, IndexStays DEF IndInv, Mutex
      <4> QED BY <3>1, <4>1 DEF Exact, SameLocals, Done, Name
    <3>3. CASE ~Holds(q)
      BY <3>1, <3>3, ExactElsewhere DEF Holds, SameLocals
    <3> QED BY <3>2, <3>3
  <2> QED BY <1>2, <2>1, ActorExact DEF ExactInv
<1> QED BY <1>1, <1>2 DEF Next, Acts

LEMMA Exactness == Spec => [](TypeInv /\ IndInv /\ ExactInv)
<1>1. Init => TypeInv /\ IndInv /\ ExactInv
  <2>1. Init => ExactInv
    BY DEF Init, ExactInv, Exact
  <2> QED BY <2>1, InitType, InitInv
<1>2. TypeInv /\ IndInv /\ ExactInv /\ [Next]_vars => TypeInv' /\ IndInv' /\ ExactInv'
  BY StepType, StepInv, ExactStep
<1> QED BY <1>1, <1>2, PTL DEF Spec

(* What a command writes is the file as it is, less or more the entries it   *)
(* dealt with: no commit overwrites another, with any number of retries      *)
(* (index.go:182-213, apply.go:217).                                         *)
THEOREM CommitsAreExact == Spec => []CommitIsExact
<1>1. ASSUME TypeInv, IndInv, ExactInv, NEW p \in Procs, pc[p] = "commit", NEW n \in Names
      PROVE  LET done == IF cmd[p] = "delete" THEN {} ELSE Done(p) IN
             CASE n \in done -> mem[p][n] # NoId /\ remote[mem[p][n]].name = n
               [] n \notin done /\ cmd[p] = "delete" /\ n = Name(p) -> mem[p][n] = NoId
               [] OTHER -> mem[p][n] = index[n]
  <2>1. Exact(p) /\ EntryOK(mem[p][n], n)
    BY <1>1 DEF ExactInv, IndInv, ProcOK, MemOK, Holds
  <2>2. CASE cmd[p] = "delete"
    BY <1>1, <2>1, <2>2 DEF Exact
  <2>3. CASE cmd[p] # "delete"
    BY <1>1, <2>1, <2>3 DEF Exact, EntryOK
  <2> QED BY <2>2, <2>3
<1>2. TypeInv /\ IndInv /\ ExactInv => CommitIsExact
  BY <1>1 DEF CommitIsExact, Done
<1> QED BY <1>2, Exactness, PTL
-------------------------------------------------------------------------------
(* What is never forgotten                                                   *)
(*                                                                           *)
(* The argument: while nothing is deleted and no write of the file fails,    *)
(* the entries only grow, counting those that the holder of the lock has in  *)
(* memory and is bound to write.                                             *)

NothingDeletes == \A p \in Procs : "delete" \notin CommandsOf[p]
NobodyCrashed == \A p \in Procs : pc[p] # "crashed"

Grown(p) ==
  /\ cmd[p] # "delete" /\ pc[p] # "forget"
  /\ pc[p] = "write" => \A n \in Names : index[n] = NoId
GrownInv == \A p \in Procs : Grown(p)

Known(n) == IF lock = NoProc THEN index[n] # NoId ELSE mem[lock][n] # NoId
KnownInv == NobodyCrashed =>
  /\ \A n \in Names : keychain[n] # NoSecret => Known(n)
  /\ \A p \in Procs : pc[p] \in {"confirm", "call", "store"} =>
       Name(p) \in Names /\ Known(Name(p))

LEMMA ActorGrown ==
  ASSUME NothingDeletes, TypeInv, GrownInv, NEW p \in Procs, Acts(p)
  PROVE  Grown(p)'
<1>0. LocalsOK /\ Grown(p) /\ "none" # "delete"
  BY TypeSplit DEF TypeInv, GrownInv
<1>1. cmd'[p] \in {cmd[p], "none"} \cup CommandsOf[p]
  <2> USE DEF LocalsOK, Exit
  <2>1. CASE StartApply(p) \/ StartOnToken(p)
    BY <1>0, <2>1 DEF StartApply, StartOnToken
  <2>2. CASE Confirm(p) \/ Acquire(p) \/ BuildPlan(p) \/ PlanReady(p) \/ PlanExecuted(p)
    BY <1>0, <2>2 DEF Confirm, Acquire, BuildPlan, PlanReady, PlanExecuted
  <2>3. CASE CreateToken(p) \/ RollToken(p) \/ DeleteToken(p)
    <3>1. (\E s, v : Answered(p, s, v)) \/ Unanswered(p) \/ Exit(p, "failed")
      BY <2>3 DEF CreateToken, DeleteToken, RollToken
    <3> QED BY <1>0, <3>1 DEF Answered, Unanswered, StepFailed
  <2>4. CASE StoreCreated(p) \/ DeleteSecret(p) \/ Truncate(p)
    BY <2>4 DEF StoreCreated, DeleteSecret, Truncate
  <2>5. CASE UpdateToken(p) \/ CheckSecret(p) \/ CallFails(p)
    BY <1>0, <2>5 DEF UpdateToken, CheckSecret, RecordEntry, Answered, Unanswered, CallFails, StepFailed
  <2>6. CASE Write(p) \/ WriteFails(p) \/ StoreRolled(p) \/ FetchSecret(p) \/ Crash(p)
    BY <1>0, <2>6 DEF Write, WriteFails, StoreRolled, FetchSecret, Crash
  <2> QED BY <2>1, <2>2, <2>3, <2>4, <2>5, <2>6 DEF Acts, Work, Call
<1>2. pc'[p] # "forget" /\ (pc'[p] = "write" => Truncate(p))
  <2> USE DEF LocalsOK, Exit, Goto
  <2>1. CASE StartApply(p) \/ StartOnToken(p) \/ Confirm(p)
    BY <1>0, <2>1 DEF StartApply, StartOnToken, Confirm
  <2>2. CASE Acquire(p) \/ BuildPlan(p) \/ PlanReady(p) \/ PlanExecuted(p)
    BY <1>0, <2>2 DEF Acquire, BuildPlan, PlanReady, PlanExecuted
  <2>3. CASE CreateToken(p) \/ RollToken(p) \/ DeleteToken(p)
    <3>1. ~DeleteToken(p) /\ pc[p] \in {"exec", "call"}
      BY <1>0, <2>3 DEF DeleteToken, CreateToken, RollToken, Executing, Grown
    <3>2. \/ \E v : Answered(p, "keep", v) \/ Answered(p, "store", v)
          \/ Unanswered(p) \/ Exit(p, "failed")
      BY <2>3, <3>1 DEF CreateToken, RollToken
    <3> QED BY <1>0, <3>1, <3>2, UnansweredMoves, StepFailedMoves DEF Answered
  <2>4. CASE StoreCreated(p) \/ DeleteSecret(p) \/ Truncate(p)
    BY <1>0, <2>4 DEF StoreCreated, DeleteSecret, Truncate
  <2>5. CASE UpdateToken(p) \/ CheckSecret(p)
    <3>1. StepFailed(p) \/ Unanswered(p) \/ Answered(p, "check", NoSecret) \/ RecordEntry(p)
      BY <2>5 DEF UpdateToken, CheckSecret
    <3>2. pc[p] \in {"exec", "check"}
      BY <2>5 DEF UpdateToken, CheckSecret, Executing
    <3> QED BY <1>0, <3>1, <3>2, UnansweredMoves, StepFailedMoves DEF Answered, RecordEntry
  <2>6. CASE CallFails(p)
    BY <2>6, StepFailedMoves DEF CallFails
  <2>7. CASE Write(p) \/ WriteFails(p) \/ StoreRolled(p) \/ FetchSecret(p) \/ Crash(p)
    BY <1>0, <2>7 DEF Write, WriteFails, StoreRolled, FetchSecret, Crash
  <2> QED BY <2>1, <2>2, <2>3, <2>4, <2>5, <2>6, <2>7 DEF Acts, Work, Call
<1>3. Truncate(p) => \A n \in Names : index'[n] = NoId
  BY DEF Truncate, NoEntries
<1> QED BY <1>0, <1>1, <1>2, <1>3 DEF Grown, NothingDeletes

LEMMA GrownStep ==
  ASSUME NothingDeletes, TypeInv, IndInv, GrownInv, [Next]_vars
  PROVE  GrownInv'
<1>1. CASE DashboardDelete \/ RemoveTorn \/ UNCHANGED vars
  BY <1>1 DEF DashboardDelete, RemoveTorn, vars, world, procVars, GrownInv, Grown
<1>2. ASSUME NEW p \in Procs, Acts(p) PROVE GrownInv'
  <2>1. ASSUME NEW q \in Procs, q # p PROVE Grown(q)'
    <3>1. SameLocals(q) /\ cmd'[q] = cmd[q] /\ Grown(q)
      BY <1>2, <2>1, OthersKeep DEF GrownInv
    <3>2. Holds(q) => index' = index
      BY <1>2, <2>1, IndexStays DEF IndInv, Mutex
    <3> QED BY <3>1, <3>2 DEF Grown, SameLocals, Holds
  <2> QED BY <1>2, <2>1, ActorGrown DEF GrownInv
<1> QED BY <1>1, <1>2 DEF Next, Acts

(* What the holder of the lock has in memory includes the file.              *)
LEMMA HolderKnows ==
  ASSUME TypeInv, IndInv, ExactInv, GrownInv, NEW n \in Names, index[n] # NoId
  PROVE  Known(n)
<1>1. CASE lock = NoProc
  BY <1>1 DEF Known
<1>2. ASSUME NEW q \in Procs, lock = q PROVE mem[q][n] # NoId
  <2>1. Holds(q) /\ Exact(q) /\ Grown(q) /\ SpecsOK(q)
    BY <1>2 DEF IndInv, Mutex, ExactInv, GrownInv, ProcOK
  <2> QED BY <2>1 DEF Holds, Exact, Grown, SpecsOK
<1>3. lock \in Procs \cup {NoProc}
  BY DEF TypeInv, TypeOK
<1> QED BY <1>1, <1>2, <1>3, SentinelsAreFresh DEF Known
(* A step takes the lock, keeps it and what it has in memory, or ends the    *)
(* command with everything it had in memory in the file.                     *)
LEMMA ActorKeeps ==
  ASSUME "file" \notin Faults, TypeInv, IndInv, ExactInv, GrownInv,
         NEW p \in Procs, Acts(p), NobodyCrashed'
  PROVE  \/ Acquire(p) /\ ~torn
         \/ lock' = lock /\ \A n \in Names : mem[p][n] # NoId => mem'[p][n] # NoId
         \/ /\ \E s : Exit(p, s)
            /\ Holds(p) => \A n \in Names : mem[p][n] # NoId => index'[n] # NoId
<1> DEFINE Keeps == lock' = lock /\ \A n \in Names : mem[p][n] # NoId => mem'[p][n] # NoId
           Ends == /\ \E s : Exit(p, s)
                   /\ Holds(p) => \A n \in Names : mem[p][n] # NoId => index'[n] # NoId
<1>0. LocalsOK /\ WorldOK /\ ShapeOK(p) /\ ProcOK(p) /\ Exact(p) /\ Grown(p)
  BY TypeSplit DEF TypeInv, IndInv, ExactInv, GrownInv
<1>1. CASE StartApply(p) \/ StartOnToken(p) \/ Confirm(p) \/ (Acquire(p) /\ torn)
  <2>1. ~Holds(p) /\ ((\E s : Exit(p, s)) \/ (lock' = lock /\ mem' = mem))
    BY <1>1 DEF StartApply, StartOnToken, Confirm, Acquire, Holds
  <2> QED BY <2>1
<1>2. ASSUME StepFailed(p), index' = index, pc[p] # "check" PROVE Keeps \/ Ends
  <2>1. CASE pc[p] \in {"exec", "keep"} /\ applied[p] > 0
    BY <1>2, <2>1 DEF StepFailed
  <2>2. CASE pc[p] \in {"exec", "keep"} /\ ~(applied[p] > 0)
    <3>1. Done(p) = {}
      BY <1>0, <2>2 DEF Done, LocalsOK
    <3>2. \A n \in Names : mem[p][n] = index[n]
      BY <1>0, <2>2, <3>1 DEF Exact
    <3> QED BY <1>2, <2>2, <3>2 DEF StepFailed
  <2>3. CASE pc[p] \notin {"exec", "check", "keep", "commit", "write"}
    <3>1. Holds(p) => mem[p] = index
      BY <1>0, <2>3 DEF Holds, ProcOK, SpecsOK
    <3> QED BY <1>2, <2>3, <3>1 DEF StepFailed
  <2>4. CASE pc[p] \in {"commit", "write"}
    <3>1. CallFails(p) \/ Truncate(p) \/ Write(p) \/ WriteFails(p) \/ Crash(p)
      BY <2>4 DEF Acts, Work, Call, CheckSecret, StartApply, StartOnToken, Confirm, Acquire, BuildPlan, PlanReady,
         CreateToken, StoreCreated, UpdateToken, PlanExecuted, RollToken, StoreRolled, DeleteToken,
         DeleteSecret, FetchSecret, Executing
    <3>2. ~CallFails(p) /\ ~WriteFails(p)
      BY <2>4 DEF CallFails, CanFail, Requests, WriteFails
    <3>3. pc'[p] = "failed"
      BY <1>2, <2>4, StepFailedMoves
    <3>4. ~Truncate(p) /\ ~Crash(p)
      BY <1>0, <3>3 DEF Truncate, Crash, Exit, Goto, LocalsOK
    <3>5. Write(p)
      BY <3>1, <3>2, <3>4
    <3> QED BY <3>5 DEF Write
  <2> QED BY <1>2, <2>1, <2>2, <2>3, <2>4
<1>3. CASE BuildPlan(p)
  <2>1. pc[p] = "plan" /\ index' = index /\ mem[p] = index
    BY <1>0, <1>3 DEF BuildPlan, world, ProcOK, SpecsOK
  <2> QED BY <1>3, <2>1 DEF BuildPlan
<1>4. CASE PlanReady(p) \/ PlanExecuted(p) \/ Truncate(p) \/ DeleteSecret(p)
  BY <1>4 DEF PlanReady, PlanExecuted, Truncate, DeleteSecret
<1>5. CASE CreateToken(p) \/ RollToken(p) \/ DeleteToken(p)
  <2>1. \/ \E s, v : Answered(p, s, v)
        \/ Unanswered(p) \/ (~Holds(p) /\ Exit(p, "failed"))
    BY <1>5 DEF CreateToken, RollToken, DeleteToken, Holds
  <2>2. index' = index
    BY <1>5 DEF CreateToken, RollToken, DeleteToken
  <2>3. ASSUME NEW s, NEW v, Answered(p, s, v) PROVE Keeps
    BY <2>3 DEF Answered
  <2>4. CASE Unanswered(p) /\ ~StepFailed(p)
    BY <2>4, UnansweredMoves
  <2>5. pc[p] # "check"
    BY <1>5 DEF CreateToken, RollToken, DeleteToken, Executing
  <2> QED BY <1>2, <2>1, <2>2, <2>3, <2>4, <2>5
<1>6. CASE StoreCreated(p)
  <2>1. /\ pc[p] = "keep" /\ lock' = lock
        /\ mem' = [mem EXCEPT ![p][Item(p)] = value[p].id]
    BY <1>6 DEF StoreCreated
  <2>2. value[p].id # NoId
    BY <1>0, <2>1, SentinelsAreFresh DEF ShapeOK, Secrets
  <2> QED BY <1>0, <2>1, <2>2 DEF LocalsOK, Entries
<1>7. CASE UpdateToken(p) \/ CheckSecret(p)
  <2>1. index' = index
    BY <1>7, UpdateMoves DEF world
  <2>2. CASE StepFailed(p) /\ pc[p] = "exec"
    BY <1>2, <2>1, <2>2
  <2>3. CASE ~(StepFailed(p) /\ pc[p] = "exec")
    <3>1. /\ lock' = lock
          /\ mem' = mem \/ mem' = [mem EXCEPT ![p][Item(p)] = Step(p).id]
      BY <1>7, <2>3, UpdateMoves
    <3>2. Step(p).id # NoId
      BY <1>7, UpdateMoves, ItemOfStep
    <3> QED BY <1>0, <3>1, <3>2 DEF LocalsOK, Entries
  <2> QED BY <2>2, <2>3
<1>8. CASE Write(p)
  <2>1. \E s : Exit(p, s)
    BY <1>8 DEF Write
  <2> QED BY <1>8, <2>1 DEF Write
<1>9. CASE StoreRolled(p) \/ FetchSecret(p)
  <2>1. ~Holds(p) /\ \E s : Exit(p, s)
    BY <1>9 DEF StoreRolled, FetchSecret, Holds
  <2> QED BY <2>1
<1>10. ~WriteFails(p) /\ ~Crash(p)
  BY <1>0 DEF WriteFails, Crash, Exit, Goto, LocalsOK, NobodyCrashed
<1>11. CASE CallFails(p)
  BY <1>2, <1>11 DEF CallFails, CanFail, Requests, world
<1> QED BY <1>1, <1>3, <1>4, <1>5, <1>6, <1>7, <1>8, <1>9, <1>10, <1>11 DEF Acts, Work, Call

(* So nothing known is forgotten.                                            *)
LEMMA KnownStays ==
  ASSUME "file" \notin Faults, TypeInv, IndInv, ExactInv, GrownInv,
         NEW p \in Procs, Acts(p), NobodyCrashed', NEW n \in Names, Known(n)
  PROVE  Known(n)'
<1>0. LocalsOK /\ WorldOK /\ (Holds(p) <=> lock = p) /\ p # NoProc /\ Grown(p)
  BY TypeSplit, SentinelsAreFresh DEF TypeInv, IndInv, Mutex, GrownInv
<1>1. CASE Acquire(p) /\ ~torn
  <2>1. /\ lock = NoProc /\ lock' = p /\ index[n] # NoId
        /\ mem' = [mem EXCEPT ![p] = index]
    BY <1>0, <1>1 DEF Acquire, Known, Grown
  <2> QED BY <1>0, <2>1 DEF Known, LocalsOK
<1>2. CASE lock = p
  <2>1. mem[p][n] # NoId
    BY <1>0, <1>2 DEF Known
  <2>2. CASE lock' = lock /\ mem'[p][n] # NoId
    BY <1>0, <1>2, <2>2 DEF Known
  <2>3. ASSUME NEW s, Exit(p, s), index'[n] # NoId PROVE Known(n)'
    BY <1>2, <2>3 DEF Known, Exit
  <2> QED BY <1>0, <1>1, <1>2, <2>1, <2>2, <2>3, ActorKeeps
<1>3. CASE lock # p /\ ~(Acquire(p) /\ ~torn)
  <2>1. lock' = lock
    <3>1. ASSUME NEW s, Exit(p, s) PROVE lock' = lock
      BY <1>3, <3>1 DEF Exit
    <3> QED BY <1>3, <3>1, ActorKeeps
  <2>2. lock = NoProc => index' = index
    BY <1>0, <1>3, IndexStays
  <2>3. lock # NoProc => mem'[lock] = mem[lock]
    BY <1>0, <1>3, OthersKeep DEF LocalsOK, SameLocals
  <2> QED BY <2>1, <2>2, <2>3 DEF Known
<1> QED BY <1>1, <1>2, <1>3
LEMMA CrashStays ==
  ASSUME TypeInv, NEW p \in Procs, Acts(p), NobodyCrashed'
  PROVE  NobodyCrashed
<1> SUFFICES ASSUME NEW q \in Procs, pc[q] = "crashed" PROVE pc'[q] = "crashed"
  BY DEF NobodyCrashed
<1>1. CASE q # p
  BY <1>1, OthersKeep DEF SameLocals
<1>2. CASE q = p
  BY <1>2 DEF Acts, Work, Call, CheckSecret, StartApply, StartOnToken, Confirm, Acquire, BuildPlan, PlanReady,
     CreateToken, StoreCreated, UpdateToken, PlanExecuted, Truncate, Write, WriteFails, RollToken,
     StoreRolled, DeleteToken, DeleteSecret, FetchSecret, CallFails, CanFail, Requests, Crash, Executing, Ended
<1> QED BY <1>1, <1>2

(* Only rotate and delete hold a token's ID, from the start of the command.  *)
LEMMA HasTarget ==
  ASSUME TypeInv, NEW p \in Procs, Acts(p), pc'[p] \in {"confirm", "call", "store"}
  PROVE  StartOnToken(p) \/ (pc[p] \in {"confirm", "call"} /\ args' = args)
<1>0. LocalsOK
  BY TypeSplit DEF TypeInv
<1> USE DEF LocalsOK, Exit, Goto
<1>1. CASE StartApply(p) \/ Acquire(p) \/ BuildPlan(p) \/ PlanReady(p) \/ PlanExecuted(p)
  BY <1>0, <1>1 DEF StartApply, Acquire, BuildPlan, PlanReady, PlanExecuted
<1>2. CASE Confirm(p)
  BY <1>0, <1>2 DEF Confirm
<1>3. CASE CreateToken(p) \/ RollToken(p) \/ DeleteToken(p)
  <2>1. /\ pc[p] \in {"exec", "call"}
        /\ pc[p] = "exec" => (\E v : Answered(p, "keep", v)) \/ Unanswered(p)
        /\ (\E s, v : Answered(p, s, v)) \/ Unanswered(p) \/ Exit(p, "failed")
    BY <1>3 DEF CreateToken, RollToken, DeleteToken, Executing
  <2> QED BY <1>0, <2>1, UnansweredMoves, StepFailedMoves DEF Answered
<1>4. CASE StoreCreated(p) \/ DeleteSecret(p) \/ Truncate(p)
  BY <1>0, <1>4 DEF StoreCreated, DeleteSecret, Truncate
<1>5. CASE UpdateToken(p) \/ CheckSecret(p)
  <2>1. StepFailed(p) \/ Unanswered(p) \/ Answered(p, "check", NoSecret) \/ RecordEntry(p)
    BY <1>5 DEF UpdateToken, CheckSecret
  <2>2. pc[p] \in {"exec", "check"}
    BY <1>5 DEF UpdateToken, CheckSecret, Executing
  <2> QED BY <1>0, <2>1, <2>2, UnansweredMoves, StepFailedMoves DEF Answered, RecordEntry
<1>6. CASE CallFails(p)
  BY <1>6, StepFailedMoves DEF CallFails
<1>7. CASE Write(p) \/ WriteFails(p) \/ StoreRolled(p) \/ FetchSecret(p) \/ Crash(p)
  BY <1>0, <1>7 DEF Write, WriteFails, StoreRolled, FetchSecret, Crash
<1> QED BY <1>1, <1>2, <1>3, <1>4, <1>5, <1>6, <1>7 DEF Acts, Work, Call

LEMMA KnownStep ==
  ASSUME "file" \notin Faults, TypeInv, IndInv, ExactInv, GrownInv, KnownInv, [Next]_vars
  PROVE  KnownInv'
<1>1. CASE DashboardDelete \/ RemoveTorn \/ UNCHANGED vars
  BY <1>1 DEF DashboardDelete, RemoveTorn, vars, world, procVars, KnownInv, Known, NobodyCrashed, Name
<1>2. ASSUME NEW p \in Procs, Acts(p), NobodyCrashed',
             NEW n \in Names, keychain'[n] # NoSecret
      PROVE  Known(n)'
  <2>0. NobodyCrashed /\ Grown(p) /\ LocalsOK /\ WorldOK /\ ShapeOK(p) /\ (Holds(p) <=> lock = p)
    BY <1>2, CrashStays, TypeSplit DEF GrownInv, TypeInv, IndInv, Mutex
  <2>1. CASE keychain[n] # NoSecret
    BY <1>2, <2>0, <2>1, KnownStays DEF KnownInv
  <2>2. CASE keychain[n] = NoSecret
    <3>1. \/ StoreCreated(p) /\ n = Item(p)
          \/ StoreRolled(p) /\ n = Name(p)
      BY <1>2, <2>0, <2>2 DEF Acts, Work, Call, CheckSecret, StartApply, StartOnToken, Confirm, Acquire, BuildPlan,
         PlanReady, CreateToken, StoreCreated, UpdateToken, PlanExecuted, Truncate, Write,
         WriteFails, RollToken, StoreRolled, DeleteToken, DeleteSecret, FetchSecret, CallFails,
         Crash, world, WorldOK, Grown
    <3>2. CASE StoreCreated(p) /\ n = Item(p)
      <4>1. /\ pc[p] = "keep" /\ lock' = lock
            /\ mem' = [mem EXCEPT ![p][Item(p)] = value[p].id]
        BY <3>2 DEF StoreCreated
      <4>2. value[p].id # NoId /\ lock = p
        BY <2>0, <4>1, SentinelsAreFresh DEF ShapeOK, Secrets, Holds
      <4>3. mem'[p][n] # NoId
        BY <2>0, <3>2, <4>1, <4>2 DEF LocalsOK, Entries
      <4> QED BY <4>1, <4>2, <4>3, SentinelsAreFresh DEF Known
    <3>3. CASE StoreRolled(p) /\ n = Name(p)
      <4>1. Known(n)
        BY <2>0, <3>3 DEF StoreRolled, KnownInv
      <4> QED BY <1>2, <4>1, KnownStays
    <3> QED BY <3>1, <3>2, <3>3
  <2> QED BY <2>1, <2>2
<1>3. ASSUME NEW p \in Procs, Acts(p), NobodyCrashed',
             NEW q \in Procs, pc'[q] \in {"confirm", "call", "store"}
      PROVE  Name(q)' \in Names /\ Known(Name(q))'
  <2>0. NobodyCrashed /\ LocalsOK
    BY <1>3, CrashStays, TypeSplit DEF TypeInv
  <2>1. PICK n : n = Name(q)'
    OBVIOUS
  <2>2. n \in Names /\ Known(n)
    <3>1. CASE q # p
      BY <1>3, <2>0, <2>1, <3>1, OthersKeep DEF SameLocals, KnownInv, Name
    <3>2. CASE q = p /\ StartOnToken(p)
      <4>1. PICK m \in Names : /\ index[m] # NoId /\ args' = [args EXCEPT ![p] = <<m>>]
        BY <1>3, <2>0, <3>2 DEF StartOnToken, Exit, Goto, LocalsOK
      <4>2. n = m
        BY <2>0, <2>1, <3>2, <4>1 DEF Name, LocalsOK
      <4> QED BY <4>1, <4>2, HolderKnows
    <3>3. CASE q = p /\ ~StartOnToken(p)
      BY <1>3, <2>0, <2>1, <3>3, HasTarget DEF KnownInv, Name
    <3> QED BY <3>1, <3>2, <3>3
  <2>3. Known(n)'
    BY <1>3, <2>2, KnownStays
  <2> QED BY <2>1, <2>2, <2>3 DEF Known
<1> QED BY <1>1, <1>2, <1>3 DEF Next, Acts, KnownInv

LEMMA KnownSafety ==
  ASSUME NothingDeletes, "file" \notin Faults
  PROVE  Spec => [](TypeInv /\ KnownInv)
<1>1. Init => TypeInv /\ IndInv /\ ExactInv /\ GrownInv /\ KnownInv
  <2>1. Init => ExactInv /\ GrownInv
    BY DEF Init, ExactInv, Exact, GrownInv, Grown
  <2>2. Init => KnownInv
    <3> SUFFICES ASSUME Init, NEW n \in Names, keychain[n] # NoSecret PROVE index[n] # NoId
      BY DEF Init, KnownInv, Known
    <3> QED BY DEF Init
  <2> QED BY <2>1, <2>2, InitType, InitInv
<1>2. TypeInv /\ IndInv /\ ExactInv /\ GrownInv /\ KnownInv /\ [Next]_vars =>
        TypeInv' /\ IndInv' /\ ExactInv' /\ GrownInv' /\ KnownInv'
  BY StepType, StepInv, ExactStep, GrownStep, KnownStep
<1> QED BY <1>1, <1>2, PTL DEF Spec

(* Whatever requests and Keychain calls fail, a value in the Keychain is of  *)
(* a name the index has (index.go:33-38); nothing being deleted and no write *)
(* of the file failing.                                                      *)
THEOREM NothingIsForgotten ==
  ASSUME NothingDeletes, "file" \notin Faults
  PROVE  Spec => []NoForgottenSecret
<1>1. TypeInv /\ KnownInv => NoForgottenSecret
  BY DEF KnownInv, NoForgottenSecret, Known, NobodyCrashed
<1> QED BY <1>1, KnownSafety, PTL
(* Where nothing is deleted, at Cloudflare either, every token stays alive.  *)
AliveInv == \A id \in Ids : remote[id].status # "deleted"

LEMMA AliveStep ==
  ASSUME NothingDeletes, Dashboard = FALSE, TypeInv, GrownInv, AliveInv, [Next]_vars
  PROVE  AliveInv'
<1>0. WorldOK
  BY TypeSplit DEF TypeInv
<1>1. CASE DashboardDelete \/ RemoveTorn \/ UNCHANGED vars
  BY <1>1 DEF DashboardDelete, RemoveTorn, vars, world, AliveInv
<1>2. ASSUME NEW p \in Procs, Acts(p) PROVE AliveInv'
  <2>0. cmd[p] # "delete"
    BY DEF GrownInv, Grown
  <2>1. CASE CreateToken(p)
    <3>1. PICK id \in Ids :
            remote' = [remote EXCEPT ![id] = [status |-> "live", name |-> Item(p), ver |-> 1]]
      BY <2>1 DEF CreateToken
    <3> QED BY <1>0, <3>1 DEF AliveInv, WorldOK
  <2>2. CASE UpdateToken(p)
    BY <1>0, <2>2 DEF UpdateToken, AliveInv, WorldOK, Tokens
  <2>3. CASE RollToken(p)
    BY <1>0, <2>3 DEF RollToken, AliveInv, WorldOK, Tokens
  <2>4. CASE ~CreateToken(p) /\ ~UpdateToken(p) /\ ~RollToken(p)
    BY <1>2, <2>0, <2>4 DEF Acts, Work, Call, CheckSecret, StartApply, StartOnToken, Confirm, Acquire, BuildPlan,
       PlanReady, StoreCreated, PlanExecuted, Truncate, Write, WriteFails, StoreRolled,
       DeleteToken, DeleteSecret, FetchSecret, CallFails, Crash, world, AliveInv
  <2> QED BY <2>1, <2>2, <2>3, <2>4
<1> QED BY <1>1, <1>2 DEF Next, Acts

(* After any crashes and failures, as long as nothing is deleted and no      *)
(* request is resent, an apply that can decode the file (which is not torn)  *)
(* finds every indexed token, and at most one to adopt for a name it does    *)
(* not find (apply.go:161-180, index.go:199-202).                            *)
THEOREM ApplyGoesThrough ==
  ASSUME RequestsSentOnce, NothingDeletes, Dashboard = FALSE
  PROVE  Spec => []ApplyWouldSucceed
<1> DEFINE Inv == TypeInv /\ IndInv /\ GrownInv /\ AliveInv
<1>1. Init => Inv
  <2>1. Init => GrownInv /\ AliveInv
    BY DEF Init, GrownInv, Grown, AliveInv, Unused
  <2> QED BY <2>1, InitType, InitInv
<1>2. Inv /\ [Next]_vars => Inv'
  BY StepType, StepInv, GrownStep, AliveStep
<1>3. Inv => ApplyWouldSucceed
  <2> SUFFICES ASSUME Inv, NEW n \in Names
               PROVE  IF index[n] # NoId THEN index[n] \in ResolveTokensByName(n)
                      ELSE Cardinality(ResolveTokensByName(n)) <= 1
    BY DEF ApplyWouldSucceed
  <2>1. CASE index[n] # NoId
    <3>1. Exists(index[n]) /\ remote[index[n]].name = n
      BY <2>1 DEF IndInv, StoresOK, EntryOK
    <3>2. remote[index[n]].status \in {"unused", "live", "deleted"}
      BY <3>1 DEF Exists, TypeInv, TypeOK, Tokens
    <3> QED BY <2>1, <3>1, <3>2 DEF Exists, AliveInv, ResolveTokensByName
  <2>2. CASE ResolveTokensByName(n) = {} /\ index[n] = NoId
    BY <2>2, FS_EmptySet
  <2>3. ASSUME NEW id \in ResolveTokensByName(n), index[n] = NoId
        PROVE  Cardinality(ResolveTokensByName(n)) <= 1
    <3>1. ResolveTokensByName(n) = {id}
      BY <2>3 DEF IndInv, StoresOK, OneTokenPerName
    <3>2. Cardinality({id}) = 1
      BY FS_Singleton
    <3> QED BY <3>1, <3>2
  <2> QED BY <2>1, <2>2, <2>3
<1> QED BY <1>1, <1>2, <1>3, PTL DEF Spec
-------------------------------------------------------------------------------
(* What cft promises                                                         *)
(*                                                                           *)
(* The argument: a command that holds the lock never moves an entry from one *)
(* token to another, since it looks for a token by name only where the index *)
(* has none; so rewrite, taken as done when it empties the file, only adds   *)
(* entries or drops one.                                                     *)

Keeps(p) ==
  /\ pc[p] \in {"exec", "check", "keep", "commit"} /\ cmd[p] # "delete" =>
       \A n \in Names : index[n] # NoId => mem[p][n] = index[n]
  /\ pc[p] = "keep" => index[Item(p)] = NoId
  /\ pc[p] = "write" => index = NoEntries
KeepsInv == \A p \in Procs : Keeps(p)

(* A process elsewhere keeps nothing.                                        *)
LEMMA KeepsElsewhere ==
  ASSUME NEW p \in Procs, pc'[p] \notin {"exec", "check", "keep", "commit", "write"}
  PROVE  Keeps(p)'
  BY DEF Keeps

(* One that goes on with the copy it has keeps what it kept.                 *)
LEMMA KeepsStays ==
  ASSUME NEW p \in Procs, Keeps(p), index' = index, pc[p] \in {"exec", "check", "keep", "commit"},
         cmd'[p] = cmd[p], mem'[p] = mem[p], pc'[p] \in {"exec", "check", "commit"}
  PROVE  Keeps(p)'
  BY DEF Keeps

(* One that adds the token of the name it is at, too.                        *)
LEMMA KeepsGrows ==
  ASSUME TypeInv, NEW p \in Procs, Keeps(p), index' = index, pc[p] \in {"exec", "check", "keep"},
         cmd'[p] = cmd[p], pc'[p] = "exec", NEW id,
         mem' = [mem EXCEPT ![p][Item(p)] = id], index[Item(p)] \in {NoId, id}
  PROVE  Keeps(p)'
<1>1. mem \in [Procs -> Entries]
  BY DEF TypeInv, TypeOK
<1>2. \A n \in Names : mem'[p][n] = IF n = Item(p) THEN id ELSE mem[p][n]
  BY <1>1 DEF Entries
<1> QED BY <1>2 DEF Keeps

LEMMA FailedKeeps ==
  ASSUME TypeInv, NEW p \in Procs, Keeps(p), StepFailed(p), index' = index
  PROVE  Keeps(p)'
  BY StepFailedMoves, KeepsElsewhere, KeepsStays

LEMMA ActorKeepsItsEntries ==
  ASSUME TypeInv, IndInv, KeepsInv, NEW p \in Procs, Acts(p)
  PROVE  Keeps(p)'
<1>0. LocalsOK /\ WorldOK /\ ShapeOK(p) /\ ProcOK(p) /\ Keeps(p)
  BY TypeSplit DEF TypeInv, IndInv, KeepsInv
<1> USE DEF Goto
<1>1. CASE StartApply(p) \/ StartOnToken(p) \/ Confirm(p)
  <2>1. pc'[p] \in {"lock", "failed", "fetch", "confirm", "call", "aborted"}
    BY <1>0, <1>1 DEF StartApply, StartOnToken, Confirm, Exit, LocalsOK
  <2> QED BY <2>1, KeepsElsewhere
<1>2. CASE Acquire(p)
  <2>1. \/ cmd' = cmd /\ pc'[p] = IF cmd[p] = "delete" THEN "commit" ELSE "plan"
        \/ pc'[p] = "failed"
    BY <1>0, <1>2 DEF Acquire, Exit, LocalsOK
  <2> QED BY <2>1 DEF Keeps
<1>3. CASE BuildPlan(p)
  <2>1. pc'[p] \in {"plan", "failed"}
    BY <1>0, <1>3 DEF BuildPlan, Exit, LocalsOK
  <2> QED BY <2>1, KeepsElsewhere
<1>4. CASE PlanReady(p)
  <2>1. /\ pc[p] = "plan" /\ pc'[p] \in {"commit", "exec"} /\ mem' = mem /\ index' = index
    BY <1>0, <1>4 DEF PlanReady, world, LocalsOK
  <2> QED BY <1>0, <2>1 DEF ProcOK, SpecsOK, Keeps
<1>5. CASE CreateToken(p)
  <2>1. /\ pc[p] = "exec" /\ applied[p] < Len(plan[p]) /\ Step(p).op = "create" /\ index' = index
    BY <1>5 DEF CreateToken, Executing
  <2>2. (\E v : Answered(p, "keep", v)) \/ Unanswered(p)
    BY <1>5 DEF CreateToken
  <2>3. ASSUME NEW v, Answered(p, "keep", v) PROVE Keeps(p)'
    <3>1. /\ pc'[p] = "keep" /\ cmd' = cmd /\ args' = args /\ mem' = mem /\ applied' = applied
      BY <1>0, <2>3 DEF Answered, LocalsOK
    <3>2. Item(p)' = Item(p) /\ index[Item(p)] = NoId
      BY <2>1, <3>1, ItemOfStep DEF Item
    <3> QED BY <1>0, <2>1, <3>1, <3>2 DEF Keeps
  <2>4. CASE Unanswered(p) /\ ~StepFailed(p)
    BY <1>0, <2>1, <2>4, UnansweredMoves, KeepsStays
  <2> QED BY <1>0, <2>1, <2>2, <2>3, <2>4, FailedKeeps
<1>6. CASE StoreCreated(p)
  <2>1. /\ pc[p] = "keep" /\ pc'[p] = "exec" /\ index' = index /\ cmd' = cmd
        /\ mem' = [mem EXCEPT ![p][Item(p)] = value[p].id]
    BY <1>0, <1>6 DEF StoreCreated, LocalsOK
  <2>2. index[Item(p)] = NoId
    BY <1>0, <2>1 DEF Keeps
  <2> QED BY <1>0, <2>1, <2>2, KeepsGrows
<1>7. CASE UpdateToken(p) \/ CheckSecret(p)
  <2>1. index' = index
    BY <1>7, UpdateMoves DEF world
  <2>2. CASE StepFailed(p)
    BY <1>0, <2>1, <2>2, FailedKeeps
  <2>3. CASE ~StepFailed(p) /\ mem' = mem
    BY <1>0, <1>7, <2>1, <2>3, UpdateMoves, KeepsStays
  <2>4. CASE ~StepFailed(p) /\ mem' # mem
    <3>1. /\ pc[p] \in {"exec", "check"} /\ pc'[p] = "exec" /\ cmd' = cmd
          /\ mem' = [mem EXCEPT ![p][Item(p)] = Step(p).id]
      BY <1>7, <2>4, UpdateMoves
    <3>2. index[Item(p)] \in {NoId, Step(p).id}
      BY <1>7, UpdateMoves, ItemOfStep
    <3> QED BY <1>0, <2>1, <3>1, <3>2, KeepsGrows
  <2> QED BY <2>2, <2>3, <2>4
<1>8. CASE PlanExecuted(p)
  <2>1. /\ pc[p] = "exec" /\ pc'[p] = "commit" /\ cmd' = cmd /\ mem' = mem /\ index' = index
    BY <1>0, <1>8 DEF PlanExecuted, world, LocalsOK
  <2> QED BY <1>0, <2>1, KeepsStays
<1>9. CASE Truncate(p)
  <2>1. pc'[p] = "write" /\ index' = NoEntries
    BY <1>0, <1>9 DEF Truncate, LocalsOK
  <2> QED BY <2>1 DEF Keeps, NoEntries
<1>10. CASE Write(p) \/ WriteFails(p) \/ StoreRolled(p) \/ FetchSecret(p) \/ Crash(p)
  <2>1. pc'[p] \in Ended
    BY <1>0, <1>10 DEF Write, WriteFails, StoreRolled, FetchSecret, Crash, Exit, LocalsOK, Ended
  <2> QED BY <2>1, KeepsElsewhere DEF Ended
<1>11. CASE RollToken(p) \/ DeleteToken(p)
  <2>1. pc[p] = "call" /\ index' = index
    BY <1>11 DEF RollToken, DeleteToken
  <2>2. \/ \E v : Answered(p, "store", v) \/ Answered(p, "forget", v)
        \/ Unanswered(p) \/ Exit(p, "failed")
    BY <1>11 DEF RollToken, DeleteToken
  <2>3. ASSUME NEW s \in {"store", "forget"}, NEW v, Answered(p, s, v) PROVE Keeps(p)'
    <3>1. pc'[p] \in {"store", "forget"}
      BY <1>0, <2>3 DEF Answered, LocalsOK
    <3> QED BY <3>1, KeepsElsewhere
  <2>4. CASE Exit(p, "failed")
    BY <1>0, <2>4, KeepsElsewhere DEF Exit, LocalsOK
  <2>5. CASE Unanswered(p) /\ ~StepFailed(p)
    BY <2>1, <2>5, UnansweredMoves, KeepsElsewhere
  <2> QED BY <1>0, <2>1, <2>2, <2>3, <2>4, <2>5, FailedKeeps
<1>12. CASE CallFails(p)
  BY <1>0, <1>12, FailedKeeps DEF CallFails, world
<1>13. CASE DeleteSecret(p)
  <2>1. pc'[p] = "lock"
    BY <1>0, <1>13 DEF DeleteSecret, LocalsOK
  <2> QED BY <2>1, KeepsElsewhere
<1> QED BY <1>1, <1>2, <1>3, <1>4, <1>5, <1>6, <1>7, <1>8, <1>9, <1>10, <1>11, <1>12, <1>13 DEF Acts, Work, Call

LEMMA KeepsStep ==
  ASSUME TypeInv, IndInv, KeepsInv, [Next]_vars
  PROVE  KeepsInv'
<1>1. CASE DashboardDelete \/ RemoveTorn \/ UNCHANGED vars
  BY <1>1 DEF DashboardDelete, RemoveTorn, vars, world, procVars, KeepsInv, Keeps, Item
<1>2. ASSUME NEW p \in Procs, Acts(p) PROVE KeepsInv'
  <2>1. ASSUME NEW q \in Procs, q # p PROVE Keeps(q)'
    <3>1. SameLocals(q) /\ cmd'[q] = cmd[q] /\ Keeps(q)
      BY <1>2, <2>1, OthersKeep DEF KeepsInv
    <3>2. CASE Holds(q)
      <4>1. index' = index
        BY <1>2, <2>1, <3>2, IndexStays DEF IndInv, Mutex
      <4> QED BY <3>1, <4>1 DEF Keeps, SameLocals, Item
    <3>3. CASE ~Holds(q)
      BY <3>1, <3>3, KeepsElsewhere DEF Holds, SameLocals
    <3> QED BY <3>2, <3>3
  <2> QED BY <1>2, <2>1, ActorKeepsItsEntries DEF KeepsInv
<1> QED BY <1>1, <1>2 DEF Next, Acts

(* What ManagedTokens sees of a step that gives no token another name.       *)
LEMMA SameTokens ==
  ASSUME \A id \in Ids : remote'[id].status = remote[id].status /\ remote'[id].name = remote[id].name
  PROVE  IssuedTo' = IssuedTo /\ LiveIds' = LiveIds
  BY DEF IssuedTo, LiveIds

LEMMA EndsOne ==
  ASSUME TypeInv, NEW id \in Ids, remote[id].status = "live", Recorded' = Recorded,
         remote' = [remote EXCEPT ![id].status = "deleted"]
  PROVE  Managed!Next
<1>1. remote \in [Ids -> Tokens]
  BY DEF TypeInv, TypeOK
<1>2. \A i \in Ids : /\ remote'[i].name = remote[i].name
                     /\ remote'[i].status = IF i = id THEN "deleted" ELSE remote[i].status
  BY <1>1 DEF Tokens
<1>3. IssuedTo' = IssuedTo /\ LiveIds' = LiveIds \ {id}
  BY <1>2 DEF IssuedTo, LiveIds
<1> QED BY <1>3 DEF Managed!End, Managed!Next

(* The index seen from outside moves only when its writer starts or ends.    *)
LEMMA RecordedStays ==
  ASSUME TypeInv, IndInv, IndInv', NEW p \in Procs, Acts(p), pc[p] # "write", pc'[p] # "write"
  PROVE  Recorded' = Recorded
<1>1. \A q \in Procs : pc[q] = "write" => lock = q
  BY DEF IndInv, Mutex, Holds
<1>2. \A q \in Procs : pc'[q] = "write" => lock' = q
  BY DEF IndInv, Mutex, Holds
<1>3. \A q \in Procs \ {p} : pc'[q] = pc[q] /\ mem'[q] = mem[q]
  BY OthersKeep DEF SameLocals
<1>4. lock \in Procs \cup {NoProc} /\ lock' \in Procs \cup {NoProc}
  <2>1. lock' \in Procs \cup {NoProc, lock}
    BY DEF Acts, Work, Call, CheckSecret, StartApply, StartOnToken, Confirm, Acquire, BuildPlan, PlanReady,
       CreateToken, StoreCreated, UpdateToken, PlanExecuted, Truncate, Write, WriteFails,
       RollToken, StoreRolled, DeleteToken, DeleteSecret, FetchSecret, CallFails, Crash,
       Answered, RecordEntry, Unanswered, StepFailed, Exit
  <2> QED BY <2>1 DEF TypeInv, TypeOK
<1>5. CASE index' = index
  BY <1>1, <1>2, <1>3, <1>4, <1>5, SentinelsAreFresh DEF Recorded
<1>6. CASE index' # index
  <2>1. Truncate(p) \/ Write(p) \/ WriteFails(p) \/ pc[p] = "write"
    BY <1>6, IndexStays
  <2>2. Truncate(p) => pc'[p] = "write"
    BY DEF Truncate, Goto, TypeInv, TypeOK
  <2> QED BY <2>1, <2>2 DEF Write, WriteFails
<1> QED BY <1>5, <1>6

(* rewrite: a commit when it starts, nothing or the loss of all when it ends.*)
LEMMA TruncateMaps ==
  ASSUME TypeInv, IndInv, IndInv', ExactInv, KeepsInv, NEW p \in Procs, Truncate(p)
  PROVE  [Managed!Next]_(Managed!vars)
<1>1. /\ pc[p] = "commit" /\ pc'[p] = "write" /\ mem' = mem /\ remote' = remote
      /\ lock = p /\ lock' = p
  BY DEF Truncate, Goto, TypeInv, TypeOK, IndInv, Mutex, Holds
<1>2. Recorded = index /\ Recorded' = mem[p]
  BY <1>1, SentinelsAreFresh DEF Recorded
<1>3. IssuedTo' = IssuedTo /\ LiveIds' = LiveIds
  BY <1>1, SameTokens
<1>4. index \in Entries /\ mem[p] \in Entries
  BY DEF TypeInv, TypeOK
<1>5. Exact(p) /\ Keeps(p) /\ \A n \in Names : EntryOK(mem[p][n], n)
  BY <1>1 DEF ExactInv, KeepsInv, IndInv, ProcOK, MemOK, Holds
<1>6. CASE cmd[p] = "delete"
  <2>1. \A n \in Names : mem[p][n] = IF n = Name(p) THEN NoId ELSE index[n]
    BY <1>1, <1>5, <1>6 DEF Exact
  <2>2. CASE Name(p) \in Names
    <3>1. mem[p] = [index EXCEPT ![Name(p)] = NoId]
      BY <1>4, <2>1, <2>2 DEF Entries
    <3> QED BY <1>2, <1>3, <2>2, <3>1 DEF Managed!Forget, Managed!Next
  <2>3. CASE Name(p) \notin Names
    <3>1. mem[p] = index
      BY <1>4, <2>1, <2>3 DEF Entries
    <3> QED BY <1>2, <1>3, <3>1 DEF Managed!vars
  <2> QED BY <2>2, <2>3
<1>7. CASE cmd[p] # "delete"
  <2>1. ASSUME NEW n \in Names
        PROVE  mem[p][n] = index[n] \/ (index[n] = NoId /\ mem[p][n] \in IssuedTo[n])
    <3>1. CASE index[n] # NoId \/ mem[p][n] = NoId
      BY <1>1, <1>5, <1>7, <3>1 DEF Keeps
    <3>2. CASE index[n] = NoId /\ mem[p][n] # NoId
      BY <1>5, <3>2 DEF EntryOK, Exists, IssuedTo
    <3> QED BY <3>1, <3>2
  <2>2. Managed!Record
    BY <1>2, <1>3, <1>4, <2>1 DEF Managed!Record, Managed!Entries, Entries
  <2> QED BY <2>2 DEF Managed!Next
<1> QED BY <1>6, <1>7

LEMMA WriterMaps ==
  ASSUME TypeInv, IndInv, KeepsInv, NEW p \in Procs, Acts(p), pc[p] = "write"
  PROVE  [Managed!Next]_(Managed!vars)
<1>1. Write(p) \/ WriteFails(p) \/ Crash(p)
  BY DEF Acts, Work, Call, CheckSecret, StartApply, StartOnToken, Confirm, Acquire, BuildPlan, PlanReady,
     CreateToken, StoreCreated, UpdateToken, PlanExecuted, Truncate, RollToken, StoreRolled,
     DeleteToken, DeleteSecret, FetchSecret, CallFails, CanFail, Requests, Executing
<1>2. lock = p /\ index = NoEntries
  BY DEF IndInv, Mutex, Holds, KeepsInv, Keeps
<1>3. lock' = NoProc /\ remote' = remote /\ index' \in {NoEntries, mem[p]}
  BY <1>1, <1>2 DEF Write, WriteFails, CutShort, Crash, Exit
<1>4. Recorded = mem[p] /\ Recorded' = index'
  BY <1>2, <1>3, SentinelsAreFresh DEF Recorded
<1>5. IssuedTo' = IssuedTo /\ LiveIds' = LiveIds
  BY <1>3, SameTokens
<1> QED BY <1>3, <1>4, <1>5 DEF NoEntries, Managed!Lose, Managed!Next, Managed!vars

(* A planned create is still one for a name without token and entry.         *)
LEMMA CreateMaps ==
  ASSUME RequestsSentOnce, TypeInv, IndInv, NEW p \in Procs, CreateToken(p), Recorded' = Recorded
  PROVE  Managed!Next
<1>1. /\ pc[p] = "exec" /\ applied[p] < Len(plan[p]) /\ Step(p).op = "create"
  BY DEF CreateToken, Executing
<1>2. PICK id \in Ids :
        /\ remote[id].status = "unused"
        /\ remote' = [remote EXCEPT ![id] = [status |-> "live", name |-> Item(p), ver |-> 1]]
  BY DEF CreateToken
<1>3. Item(p) \in Names /\ ResolveTokensByName(Item(p)) = {} /\ index[Item(p)] = NoId
  BY <1>1, ItemOfStep
<1>4. Recorded = index
  BY <1>1, SentinelsAreFresh DEF Recorded, IndInv, Mutex, Holds
<1>5. remote \in [Ids -> Tokens]
  BY DEF TypeInv, TypeOK
<1>6. LiveIds' = LiveIds \cup {id}
  BY <1>2, <1>5 DEF LiveIds
<1>7. IssuedTo' = [IssuedTo EXCEPT ![Item(p)] = @ \cup {id}]
  <2>1. \A n \in Names : IssuedTo'[n] = IF n = Item(p) THEN IssuedTo[n] \cup {id} ELSE IssuedTo[n]
    BY <1>2, <1>5 DEF IssuedTo
  <2> QED BY <1>3, <2>1 DEF IssuedTo
<1>8. IssuedTo[Item(p)] \cap LiveIds = {} /\ \A m \in Names : id \notin IssuedTo[m]
  BY <1>2, <1>3 DEF IssuedTo, LiveIds, ResolveTokensByName
<1> QED BY <1>3, <1>4, <1>6, <1>7, <1>8 DEF Managed!Create, Managed!Next

LEMMA ActsMap ==
  ASSUME RequestsSentOnce, TypeInv, IndInv, IndInv', ExactInv, KeepsInv, NEW p \in Procs, Acts(p)
  PROVE  [Managed!Next]_(Managed!vars)
<1>0. WorldOK
  BY TypeSplit DEF TypeInv
<1>1. CASE pc[p] = "write"
  BY <1>1, WriterMaps
<1>2. CASE pc[p] # "write" /\ pc'[p] = "write"
  <2>1. Truncate(p)
    <3>1. pc'[p] \in {"failed", "commit"} \/ ~(StepFailed(p) \/ Unanswered(p))
      BY <1>2, StepFailedMoves, UnansweredMoves
    <3> QED
      BY <1>2, <3>1, TypeSplit DEF TypeInv, LocalsOK, Acts, Work, Call, CheckSecret, StartApply, StartOnToken,
         Confirm, Acquire, BuildPlan, PlanReady, CreateToken, StoreCreated, UpdateToken,
         PlanExecuted, Write, WriteFails, RollToken, StoreRolled, DeleteToken, DeleteSecret,
         FetchSecret, CallFails, Crash, Answered, RecordEntry, Exit, Goto
  <2> QED BY <2>1, TruncateMaps
<1>3. CASE pc[p] # "write" /\ pc'[p] # "write"
  <2>1. Recorded' = Recorded
    BY <1>3, RecordedStays
  <2>2. CASE CreateToken(p)
    BY <2>1, <2>2, CreateMaps
  <2>3. CASE DeleteToken(p) /\ remote' # remote
    <3>1. /\ pc[p] = "call" /\ remote[target[p]].status = "live"
          /\ remote' = [remote EXCEPT ![target[p]].status = "deleted"]
      BY <2>3 DEF DeleteToken
    <3>2. target[p] \in Ids
      BY <3>1 DEF IndInv, ProcOK, TargetOK, Exists
    <3> QED BY <2>1, <3>1, <3>2, EndsOne
  <2>4. CASE UpdateToken(p)
    BY <2>1, <2>4, UpdateKeepsRemote, SameTokens DEF world, Managed!vars
  <2>5. CASE RollToken(p)
    <3>1. \A i \in Ids : remote'[i].status = remote[i].status /\ remote'[i].name = remote[i].name
      BY <1>0, <2>5 DEF RollToken, WorldOK, Tokens
    <3> QED BY <2>1, <3>1, SameTokens DEF Managed!vars
  <2>6. CASE remote' = remote
    BY <2>1, <2>6, SameTokens DEF Managed!vars
  <2>7. remote' # remote => CreateToken(p) \/ DeleteToken(p) \/ UpdateToken(p) \/ RollToken(p)
    BY DEF Acts, Work, Call, CheckSecret, StartApply, StartOnToken, Confirm, Acquire, BuildPlan, PlanReady,
       StoreCreated, PlanExecuted, Truncate, Write, WriteFails, StoreRolled, DeleteSecret,
       FetchSecret, CallFails, Crash, world
  <2> QED BY <2>2, <2>3, <2>4, <2>5, <2>6, <2>7
<1> QED BY <1>1, <1>2, <1>3

LEMMA StepMaps ==
  ASSUME RequestsSentOnce, TypeInv, IndInv, IndInv', ExactInv, KeepsInv, [Next]_vars
  PROVE  [Managed!Next]_(Managed!vars)
<1>1. CASE RemoveTorn \/ UNCHANGED vars
  BY <1>1 DEF RemoveTorn, vars, world, procVars, Managed!vars, IssuedTo, LiveIds, Recorded
<1>2. CASE DashboardDelete
  <2>1. PICK id \in Ids : /\ remote[id].status = "live"
                          /\ remote' = [remote EXCEPT ![id].status = "deleted"]
    BY <1>2 DEF DashboardDelete
  <2>2. Recorded' = Recorded
    BY <1>2 DEF DashboardDelete, procVars, Recorded
  <2> QED BY <2>1, <2>2, EndsOne
<1> QED BY <1>1, <1>2, ActsMap DEF Next, Acts

LEMMA InitMaps ==
  ASSUME RequestsSentOnce, Init
  PROVE  Managed!Init
<1>1. TypeInv /\ IndInv
  BY InitType, InitInv
<1>2. Recorded = index
  BY DEF Init, Recorded
<1>3. \A id \in Ids : remote[id].status # "unused" =>
        remote[id].status = "live" /\ remote[id].name \in Names
  <2>1. PICK s \in Seeds :
         remote = [id \in Ids |->
            IF \E n \in Names : s.token[n] = id
            THEN [status |-> "live", name |-> CHOOSE n \in Names : s.token[n] = id, ver |-> 1]
            ELSE Unused]
    BY DEF Init
  <2> QED BY <2>1 DEF Unused
<1>4. IssuedTo \in [Names -> SUBSET Ids] /\ LiveIds = UNION {IssuedTo[n] : n \in Names}
  BY <1>3 DEF IssuedTo, LiveIds
<1>5. \A m, n \in Names : \A i \in IssuedTo[m], j \in IssuedTo[n] : m = n <=> i = j
  BY <1>1, <1>3 DEF IssuedTo, IndInv, StoresOK, OneTokenPerName, ResolveTokensByName
<1>6. \A n \in Names : index[n] \in IssuedTo[n] \cup {NoId}
  BY <1>1 DEF IndInv, StoresOK, EntryOK, Exists, IssuedTo
<1>7. index \in Entries
  BY <1>1 DEF TypeInv, TypeOK
<1> QED BY <1>2, <1>4, <1>5, <1>6, <1>7 DEF Managed!Init, Managed!Entries, Entries

(* Without resent requests, all the invocations together implement           *)
(* ManagedTokens: no plan is carried out on tokens or entries that are no    *)
(* longer as it found them (apply.go:114-126, index.go:182-213).             *)
THEOREM LifecycleRefines ==
  ASSUME RequestsSentOnce
  PROVE  Spec => KeepsItsPromise
<1> DEFINE Inv == TypeInv /\ IndInv /\ ExactInv /\ KeepsInv
<1>1. Init => Inv
  <2>1. Init => ExactInv /\ KeepsInv
    BY DEF Init, ExactInv, Exact, KeepsInv, Keeps
  <2> QED BY <2>1, InitType, InitInv
<1>2. Inv /\ [Next]_vars => Inv'
  BY StepType, StepInv, ExactStep, KeepsStep
<1>3. Inv /\ Inv' /\ [Next]_vars => [Managed!Next]_(Managed!vars)
  BY StepMaps
<1> QED BY <1>1, <1>2, <1>3, InitMaps, PTL DEF Spec, KeepsItsPromise, Managed!Spec
-------------------------------------------------------------------------------
(* When nothing fails                                                        *)
(*                                                                           *)
(* The argument: while one rotate or delete at a time is on a token, the     *)
(* entry it read stays the entry of its name, so nobody creates a token of   *)
(* that name, and nobody else rolls or deletes the one there is.             *)

FilesAreWritten == "file" \notin Faults /\ Crashes = FALSE
NothingFails == Faults = {} /\ Crashes = FALSE
SeedsAreKnown == \A s \in Seeds, n \in Names : s.token[n] # NoId => n \in s.known

(* The entry a rotate or delete read is still there; a delete that got past  *)
(* its request has left no token, one past its Keychain call no value.       *)
Aimed(p) ==
  /\ pc[p] \in {"confirm", "call"} => cmd[p] \in {"rotate", "delete"}
  /\ pc[p] = "forget" => cmd[p] = "delete"
  /\ OnToken(p) /\ pc[p] # "commit" =>
       Name(p) \in Names /\ target[p] \in Ids /\ Recorded[Name(p)] = target[p]
  /\ OnToken(p) /\ pc[p] \in {"forget", "lock"} => remote[target[p]].status = "deleted"
  /\ OnToken(p) /\ pc[p] = "lock" => keychain[Name(p)] = NoSecret
AimedInv == \A p \in Procs : Aimed(p)

(* A value under way to the Keychain is the last one of its token.           *)
UpToDate(p) ==
  /\ pc[p] \in {"keep", "store"} => value[p].ver = remote[value[p].id].ver
  /\ pc[p] = "store" => value[p].id = target[p]
FreshInv == \A p \in Procs : UpToDate(p)

(* A value is stored under a name with the entry of its token, counting what *)
(* the holder of the lock has in memory.                                     *)
Kept(n) == IF lock = NoProc THEN index[n] ELSE mem[lock][n]
MatchedInv == \A n \in Names : keychain[n] # NoSecret => keychain[n].id = Kept(n)

(* A stored value of a live token is the last one, unless the last one is on *)
(* its way.                                                                  *)
Refreshed(n) ==
  keychain[n] # NoSecret /\ remote[keychain[n].id].status = "live" =>
    \/ keychain[n].ver = remote[keychain[n].id].ver
    \/ \E p \in Procs : pc[p] = "store" /\ Name(p) = n /\ value[p].id = keychain[n].id
RefreshedInv == \A n \in Names : Refreshed(n)

(* The entries there will be once the token just created has its entry.      *)
Entered(n) ==
  IF lock # NoProc /\ pc[lock] = "keep" /\ Item(lock) = n THEN value[lock].id ELSE Kept(n)
EnteredInv ==
  \A id \in Ids : remote[id].status = "live" =>
    remote[id].name \in Names /\ Entered(remote[id].name) = id

(* The two inductive invariants: what holds as long as the file is written,  *)
(* and what holds besides when no call fails.                                *)
AgreeInv == TypeInv /\ IndInv /\ ExactInv /\ KeepsInv /\ AimedInv /\ FreshInv /\ MatchedInv
CaughtUp == RefreshedInv /\ EnteredInv

(* Which steps change what.                                                  *)
LEMMA LockMoves ==
  ASSUME NEW p \in Procs, Acts(p)
  PROVE  lock' = lock \/ Acquire(p) \/ (lock = p /\ lock' = NoProc)
  BY DEF Acts, Work, Call, CheckSecret, StartApply, StartOnToken, Confirm, BuildPlan, PlanReady, CreateToken,
     StoreCreated, UpdateToken, PlanExecuted, Truncate, Write, WriteFails, RollToken, StoreRolled,
     DeleteToken, DeleteSecret, FetchSecret, CallFails, Crash, Answered, RecordEntry, Unanswered,
     StepFailed, Exit

LEMMA RemoteMoves ==
  ASSUME TypeInv, IndInv, NEW p \in Procs, Acts(p)
  PROVE  remote' = remote \/ CreateToken(p) \/ RollToken(p) \/ DeleteToken(p)
<1>1. UpdateToken(p) => UNCHANGED world
  BY UpdateKeepsRemote
<1> QED
  BY <1>1 DEF Acts, Work, Call, CheckSecret, StartApply, StartOnToken, Confirm, Acquire, BuildPlan, PlanReady,
     StoreCreated, PlanExecuted, Truncate, Write, WriteFails, StoreRolled, DeleteSecret,
     FetchSecret, CallFails, Crash, world

LEMMA KeychainMoves ==
  ASSUME NEW p \in Procs, Acts(p)
  PROVE  keychain' = keychain \/ StoreCreated(p) \/ StoreRolled(p) \/ DeleteSecret(p)
  BY DEF Acts, Work, Call, CheckSecret, StartApply, StartOnToken, Confirm, Acquire, BuildPlan, PlanReady, CreateToken,
     UpdateToken, PlanExecuted, Truncate, Write, WriteFails, RollToken, DeleteToken, FetchSecret,
     CallFails, Crash, world

LEMMA ValueComes ==
  ASSUME TypeInv, IndInv, NEW p \in Procs, Acts(p)
  PROVE  (pc'[p] = "keep" => CreateToken(p)) /\ (pc'[p] = "store" => RollToken(p))
<1>0. LocalsOK
  BY TypeSplit DEF TypeInv
<1>1. StepFailed(p) => pc'[p] \in {"failed", "commit"}
  BY StepFailedMoves
<1>2. Unanswered(p) => pc'[p] \in {"failed", "commit", pc[p]}
  BY <1>1, UnansweredMoves
<1>3. CASE CreateToken(p) \/ RollToken(p) \/ DeleteToken(p)
  BY <1>0, <1>2, <1>3 DEF LocalsOK, CreateToken, RollToken, DeleteToken, Executing, Answered, Exit, Goto
<1>4. CASE CallFails(p)
  BY <1>1, <1>4 DEF CallFails
<1>5. CASE UpdateToken(p) \/ CheckSecret(p)
  BY <1>1, <1>5, UpdateMoves
<1> QED
  BY <1>0, <1>3, <1>4, <1>5 DEF LocalsOK, Acts, Work, Call, CheckSecret, StartApply, StartOnToken,
     Confirm, Acquire, BuildPlan, PlanReady, StoreCreated, PlanExecuted, Truncate, Write, WriteFails,
     StoreRolled, DeleteSecret, FetchSecret, Crash, Ended, Exit, Goto

(* A token that is gone stays gone.                                          *)
LEMMA DeadStays ==
  ASSUME TypeInv, IndInv, NEW p \in Procs, Acts(p), NEW id \in Ids, remote[id].status = "deleted"
  PROVE  remote'[id].status = "deleted"
<1>1. remote \in [Ids -> Tokens]
  BY DEF TypeInv, TypeOK
<1>2. CASE CreateToken(p)
  BY <1>1, <1>2 DEF CreateToken
<1>3. CASE RollToken(p)
  BY <1>1, <1>3 DEF RollToken, Tokens
<1>4. CASE DeleteToken(p)
  BY <1>1, <1>4 DEF DeleteToken, Tokens
<1> QED BY <1>2, <1>3, <1>4, RemoteMoves

(* An entry seen from outside stays, but for a delete of its name.           *)
LEMMA EntriesStay ==
  ASSUME FilesAreWritten, TypeInv, IndInv, IndInv', ExactInv, KeepsInv,
         NEW p \in Procs, Acts(p), NEW n \in Names, Recorded[n] # NoId,
         ~(pc[p] = "commit" /\ cmd[p] = "delete" /\ Name(p) = n)
  PROVE  Recorded'[n] = Recorded[n]
<1>1. CASE pc[p] = "write"
  <2>1. Write(p)
    BY <1>1 DEF FilesAreWritten, Acts, Work, Call, CheckSecret, StartApply, StartOnToken, Confirm, Acquire, BuildPlan,
       PlanReady, CreateToken, StoreCreated, UpdateToken, PlanExecuted, Truncate, RollToken,
       StoreRolled, DeleteToken, DeleteSecret, FetchSecret, CallFails, CanFail, Requests, Executing,
       WriteFails, Crash
  <2>2. lock = p /\ lock' = NoProc /\ index' = mem[p]
    BY <1>1, <2>1 DEF IndInv, Mutex, Holds, Write, Exit
  <2> QED BY <1>1, <2>2, SentinelsAreFresh DEF Recorded
<1>2. CASE Truncate(p)
  <2>1. /\ pc[p] = "commit" /\ pc'[p] = "write" /\ mem' = mem /\ lock = p /\ lock' = p
    BY <1>2 DEF Truncate, Goto, TypeInv, TypeOK, IndInv, Mutex, Holds
  <2>2. Recorded = index /\ Recorded' = mem[p]
    BY <2>1, SentinelsAreFresh DEF Recorded
  <2> QED BY <2>1, <2>2 DEF ExactInv, Exact, KeepsInv, Keeps
<1>3. CASE pc[p] # "write" /\ ~Truncate(p)
  <2>1. index' = index
    BY <1>3, IndexStays DEF Write, WriteFails
  <2>2. pc'[p] # "write"
    <3>1. pc'[p] \in {"failed", "commit"} \/ pc'[p] = pc[p] \/ ~(StepFailed(p) \/ Unanswered(p))
      BY StepFailedMoves, UnansweredMoves
    <3> QED
      BY <1>3, <3>1, TypeSplit DEF TypeInv, LocalsOK, Acts, Work, Call, CheckSecret, StartApply, StartOnToken,
         Confirm, Acquire, BuildPlan, PlanReady, CreateToken, StoreCreated, UpdateToken,
         PlanExecuted, Write, WriteFails, RollToken, StoreRolled, DeleteToken, DeleteSecret,
         FetchSecret, CallFails, Crash, Answered, RecordEntry, Exit, Goto, Ended
  <2> QED BY <1>3, <2>2, RecordedStays
<1> QED BY <1>1, <1>2, <1>3

(* What an error of apply leaves: its copy, or the file it has not touched.  *)
LEMMA FailureKeepsEntries ==
  ASSUME TypeInv, IndInv, ExactInv, NEW p \in Procs, pc[p] \in {"plan", "exec", "keep"},
         StepFailed(p) \/ (Exit(p, "failed") /\ pc[p] = "plan"), NEW n \in Names
  PROVE  \/ lock' = lock /\ mem' = mem
         \/ lock' = NoProc /\ mem[p][n] = index[n]
<1>1. lock = p /\ Exact(p) /\ SpecsOK(p) /\ applied[p] \in Nat
  BY DEF IndInv, Mutex, Holds, ExactInv, ProcOK, TypeInv, TypeOK
<1>2. CASE pc[p] = "plan"
  BY <1>1, <1>2 DEF SpecsOK, StepFailed, Exit
<1>3. CASE pc[p] # "plan" /\ applied[p] > 0
  BY <1>3 DEF StepFailed
<1>4. CASE pc[p] # "plan" /\ ~(applied[p] > 0)
  <2>1. Done(p) = {}
    BY <1>1, <1>4 DEF Done
  <2> QED BY <1>1, <1>4, <2>1 DEF Exact, StepFailed, Exit
<1> QED BY <1>2, <1>3, <1>4

(* The entries the holder of the lock is bound to leave stay as they are,    *)
(* but for the steps that add one and the callback of delete.                *)
LEMMA KeptStays ==
  ASSUME FilesAreWritten, TypeInv, IndInv, ExactInv, NEW p \in Procs, Acts(p), NEW n \in Names,
         ~StoreCreated(p), UpdateToken(p) \/ CheckSecret(p) => StepFailed(p) \/ mem' = mem,
         ~(Acquire(p) /\ cmd[p] = "delete" /\ n = Name(p))
  PROVE  Kept(n)' = Kept(n)
<1>0. LocalsOK /\ WorldOK /\ lock \in Procs \cup {NoProc}
  BY TypeSplit DEF TypeInv, LocalsOK
<1>1. CASE lock = NoProc
  <2>1. index' = index
    BY <1>1, IndexStays, SentinelsAreFresh DEF IndInv, Mutex
  <2>2. CASE Acquire(p) /\ ~torn
    BY <1>0, <1>1, <2>2, SentinelsAreFresh DEF Acquire, Kept, LocalsOK, WorldOK, Entries
  <2>3. CASE Acquire(p) /\ torn
    BY <1>1, <2>1, <2>3, SentinelsAreFresh DEF Acquire, Exit, Kept
  <2> QED BY <1>1, <2>1, <2>2, <2>3, LockMoves DEF Kept
<1>2. CASE lock \in Procs /\ lock # p
  <2>1. lock' = lock
    BY <1>2, LockMoves, SentinelsAreFresh DEF Acquire
  <2>2. mem'[lock] = mem[lock]
    BY <1>2, OthersKeep DEF SameLocals
  <2> QED BY <1>2, <2>1, <2>2, SentinelsAreFresh DEF Kept
<1>3. CASE lock = p
  <2>0. lock # NoProc /\ Kept(n) = mem[p][n]
    BY <1>3, SentinelsAreFresh DEF Kept
  <2>1. CASE lock' = lock /\ mem' = mem
    BY <2>0, <2>1 DEF Kept
  <2>2. CASE lock' = NoProc /\ (index' = mem[p] \/ (index' = index /\ mem[p][n] = index[n]))
    BY <2>0, <2>2 DEF Kept
  <2>3. Holds(p)
    BY <1>3 DEF IndInv, Mutex
  <2>4. ASSUME StepFailed(p) \/ Unanswered(p), pc[p] \in {"plan", "exec", "keep"}
        PROVE  (lock' = lock /\ mem' = mem) \/ (lock' = NoProc /\ mem[p][n] = index[n])
    <3>1. CASE StepFailed(p)
      BY <2>4, <3>1, FailureKeepsEntries
    <3>2. CASE ~StepFailed(p)
      BY <2>4, <3>2, UnansweredMoves
    <3> QED BY <3>1, <3>2
  <2>5. CASE BuildPlan(p)
    <3>1. (Exit(p, "failed") /\ pc[p] = "plan") \/ (lock' = lock /\ mem' = mem)
      BY <2>5 DEF BuildPlan
    <3> QED BY <2>1, <2>2, <2>5, <3>1, FailureKeepsEntries DEF BuildPlan, world
  <2>6. CASE CreateToken(p)
    <3>1. pc[p] = "exec" /\ index' = index
      BY <2>6 DEF CreateToken, Executing
    <3>2. (lock' = lock /\ mem' = mem) \/ Unanswered(p)
      BY <2>6 DEF CreateToken, Answered
    <3> QED BY <2>1, <2>2, <2>4, <3>1, <3>2
  <2>7. CASE CallFails(p)
    <3>1. StepFailed(p) /\ pc[p] \in {"plan", "exec", "keep"} /\ index' = index
      BY <2>3, <2>7 DEF CallFails, CanFail, Requests, Holds, FilesAreWritten, world
    <3> QED BY <2>1, <2>2, <2>4, <3>1
  <2>10. CASE UpdateToken(p) \/ CheckSecret(p)
    <3>1. index' = index /\ ((StepFailed(p) /\ pc[p] = "exec") \/ (lock' = lock /\ (StepFailed(p) \/ mem' = mem)))
      BY <2>10, UpdateMoves DEF world
    <3>2. pc[p] \in {"plan", "exec", "keep"} \/ ~StepFailed(p) \/ lock' # lock
      BY <1>3, <2>0, <2>10, UpdateMoves, SentinelsAreFresh DEF StepFailed, Exit
    <3> QED BY <2>1, <2>2, <2>4, <3>1, <3>2
  <2>8. CASE PlanReady(p) \/ PlanExecuted(p) \/ Truncate(p)
    BY <2>1, <2>8 DEF PlanReady, PlanExecuted, Truncate
  <2>9. CASE Write(p)
    BY <1>3, <2>2, <2>9 DEF Write, Exit
  <2> QED
    BY <2>3, <2>5, <2>6, <2>7, <2>8, <2>9, <2>10 DEF Acts, Work, Call, Holds, FilesAreWritten, StartApply,
       StartOnToken, Confirm, Acquire, WriteFails, RollToken, StoreRolled, DeleteToken, DeleteSecret,
       FetchSecret, Crash
<1> QED BY <1>0, <1>1, <1>2, <1>3

(* An entry that is there will still be there, unless a delete takes it.     *)
LEMMA KeptIsRecorded ==
  ASSUME TypeInv, IndInv, ExactInv, KeepsInv, NEW n \in Names, Recorded[n] # NoId,
         \A p \in Procs : ~(pc[p] = "commit" /\ cmd[p] = "delete" /\ Name(p) = n)
  PROVE  Kept(n) = Recorded[n]
<1>1. CASE lock = NoProc
  BY <1>1 DEF Kept, Recorded
<1>2. CASE lock # NoProc
  <2>1. lock \in Procs
    BY <1>2 DEF TypeInv, TypeOK
  <2>2. Holds(lock) /\ SpecsOK(lock) /\ Exact(lock) /\ Keeps(lock)
    BY <2>1 DEF IndInv, Mutex, ProcOK, ExactInv, KeepsInv
  <2>3. CASE pc[lock] = "write"
    BY <1>2, <2>3 DEF Kept, Recorded
  <2>4. CASE pc[lock] = "plan"
    BY <1>2, <2>2, <2>4 DEF Kept, Recorded, SpecsOK
  <2>5. CASE pc[lock] \in {"exec", "check", "keep", "commit"}
    BY <1>2, <2>1, <2>2, <2>5 DEF Kept, Recorded, Exact, Keeps
  <2> QED BY <2>2, <2>3, <2>4, <2>5 DEF Holds
<1> QED BY <1>1, <1>2

(* A rotate or delete that does nothing stays on its target.                 *)
LEMMA OthersAimed ==
  ASSUME FilesAreWritten, TypeInv, IndInv, IndInv', ExactInv, KeepsInv, AimedInv, OneAtATime,
         NEW p \in Procs, Acts(p), NEW q \in Procs, q # p
  PROVE  Aimed(q)'
<1>1. SameLocals(q) /\ cmd'[q] = cmd[q]
  BY OthersKeep
<1>2. OnToken(q)' = OnToken(q) /\ Name(q)' = Name(q) /\ Aimed(q)
  BY <1>1 DEF OnToken, Name, SameLocals, AimedInv
<1>3. SUFFICES ASSUME OnToken(q), pc[q] # "commit" PROVE Aimed(q)'
  BY <1>1, <1>2 DEF Aimed, SameLocals, OnToken
<1>4. Name(q) \in Names /\ target[q] \in Ids /\ Recorded[Name(q)] = target[q]
  BY <1>2, <1>3 DEF Aimed
<1>5. Recorded'[Name(q)] = target[q]
  <2>1. ~(pc[p] = "commit" /\ cmd[p] = "delete" /\ Name(p) = Name(q))
    BY <1>3 DEF OneAtATime, OnToken
  <2> QED BY <1>4, <2>1, EntriesStay, SentinelsAreFresh
<1>6. ASSUME pc[q] \in {"forget", "lock"} PROVE remote'[target[q]].status = "deleted"
  BY <1>2, <1>3, <1>4, <1>6, DeadStays DEF Aimed
<1>7. ASSUME pc[q] = "lock" PROVE keychain'[Name(q)] = NoSecret
  <2>1. keychain[Name(q)] = NoSecret /\ keychain \in [Names -> Secrets \cup {NoSecret}]
    BY <1>2, <1>3, <1>7 DEF Aimed, TypeInv, TypeOK
  <2>2. CASE StoreCreated(p)
    <3>1. /\ pc[p] = "keep" /\ keychain' = [keychain EXCEPT ![Item(p)] = value[p]]
          /\ lock = p /\ index[Item(p)] = NoId
      BY <2>2 DEF StoreCreated, IndInv, Mutex, Holds, KeepsInv, Keeps
    <3>2. Recorded = index
      BY <3>1 DEF Recorded
    <3> QED BY <1>4, <2>1, <3>1, <3>2, SentinelsAreFresh
  <2>3. CASE StoreRolled(p)
    <3>1. OnToken(p) /\ keychain' = [keychain EXCEPT ![Name(p)] = value[p]]
      BY <2>3 DEF StoreRolled, OnToken
    <3>2. Name(p) # Name(q)
      BY <1>3, <3>1 DEF OneAtATime
    <3> QED BY <2>1, <3>1, <3>2
  <2>4. CASE DeleteSecret(p)
    BY <2>1, <2>4 DEF DeleteSecret
  <2> QED BY <2>1, <2>2, <2>3, <2>4, KeychainMoves
<1> QED BY <1>1, <1>2, <1>3, <1>4, <1>5, <1>6, <1>7 DEF Aimed, SameLocals

(* One that is not, or no longer, on a token has no target to keep.          *)
LEMMA NotAimed ==
  ASSUME NEW p \in Procs, pc'[p] \notin {"confirm", "call", "store", "forget", "lock"}
  PROVE  Aimed(p)'
  BY DEF Aimed, OnToken

LEMMA ActorAimed ==
  ASSUME FilesAreWritten, TypeInv, IndInv, IndInv', ExactInv, KeepsInv, AimedInv, OneAtATime,
         NEW p \in Procs, Acts(p)
  PROVE  Aimed(p)'
<1>0. LocalsOK /\ WorldOK /\ ShapeOK(p) /\ Aimed(p) /\ ProcOK(p)
  BY TypeSplit DEF TypeInv, AimedInv, IndInv
<1> USE DEF Goto
<1>1. ASSUME OnToken(p), pc[p] # "commit" PROVE Recorded'[Name(p)] = target[p]
  BY <1>0, <1>1, EntriesStay, SentinelsAreFresh DEF Aimed
<1>2. CASE StartApply(p)
  <2>1. pc'[p] = "failed" \/ (pc'[p] = "lock" /\ cmd'[p] \in {"apply", "dryrun"})
    BY <1>0, <1>2 DEF StartApply, Exit, LocalsOK
  <2> QED BY <2>1, NotAimed DEF Aimed, OnToken
<1>3. CASE StartOnToken(p)
  <2>1. PICK c \in CommandsOf[p] \cap {"rotate", "delete", "exec"}, n \in Names :
       IF torn \/ index[n] = NoId
       THEN Exit(p, "failed")
       ELSE /\ cmd' = [cmd EXCEPT ![p] = c] /\ args' = [args EXCEPT ![p] = <<n>>]
            /\ target' = [target EXCEPT ![p] = index[n]]
            /\ Goto(p, IF c = "exec" THEN "fetch" ELSE "confirm")
            /\ UNCHANGED <<lock, mem, plan, applied, value, tries>>
    BY <1>3 DEF StartOnToken
  <2>2. CASE torn \/ index[n] = NoId
    <3>1. pc'[p] = "failed"
      BY <1>0, <2>1, <2>2 DEF Exit, LocalsOK
    <3> QED BY <3>1, NotAimed
  <2>3. CASE ~torn /\ index[n] # NoId /\ c = "exec"
    <3>1. pc'[p] = "fetch"
      BY <1>0, <2>1, <2>3 DEF LocalsOK
    <3> QED BY <3>1, NotAimed
  <2>4. CASE ~torn /\ index[n] # NoId /\ c # "exec"
    <3>1. /\ pc'[p] = "confirm" /\ cmd'[p] = c /\ c \in {"rotate", "delete"}
          /\ args'[p] = <<n>> /\ target'[p] = index[n]
      BY <1>0, <2>1, <2>4 DEF LocalsOK
    <3>2. index[n] \in Ids /\ pc[p] = "idle"
      BY <1>0, <1>3, <2>4 DEF StartOnToken, WorldOK, Entries
    <3>3. Recorded' = Recorded
      BY <3>1, <3>2, RecordedStays
    <3>4. Recorded = index
      <4>1. lock # NoProc => lock \in Procs /\ Keeps(lock)
        BY <1>0 DEF LocalsOK, KeepsInv
      <4> QED BY <2>4, <4>1 DEF Recorded, Keeps, NoEntries
    <3> QED BY <3>1, <3>2, <3>3, <3>4 DEF Aimed, Name
  <2> QED BY <2>2, <2>3, <2>4
<1>4. CASE Confirm(p)
  <2>1. pc'[p] = "aborted" \/ (pc[p] = "confirm" /\ pc'[p] = "call" /\ UNCHANGED <<cmd, args, target>>)
    BY <1>0, <1>4 DEF Confirm, Exit, LocalsOK
  <2>2. CASE pc'[p] = "call"
    BY <1>0, <1>1, <2>1, <2>2 DEF Aimed, OnToken, Name
  <2> QED BY <2>1, <2>2, NotAimed
<1>5. CASE RollToken(p) \/ DeleteToken(p)
  <2>1. pc[p] = "call" /\ OnToken(p)
    BY <1>5 DEF RollToken, DeleteToken, OnToken
  <2>2. CASE pc'[p] = "failed"
    BY <2>2, NotAimed
  <2>3. CASE Unanswered(p)
    <3>1. pc'[p] = "failed" \/ (pc' = pc /\ cmd' = cmd /\ args' = args /\ target' = target)
      BY <2>1, <2>3, UnansweredMoves, StepFailedMoves
    <3> QED BY <1>0, <1>1, <2>1, <2>2, <3>1 DEF Aimed, OnToken, Name
  <2>4. CASE RollToken(p) /\ \E v : Answered(p, "store", v)
    <3>1. pc'[p] = "store" /\ args' = args /\ target' = target
      BY <1>0, <2>4 DEF Answered, LocalsOK
    <3> QED BY <1>0, <1>1, <2>1, <3>1 DEF Aimed, OnToken, Name
  <2>5. CASE DeleteToken(p) /\ Answered(p, "forget", NoSecret)
    <3>1. /\ pc'[p] = "forget" /\ cmd' = cmd /\ args' = args /\ target' = target /\ cmd[p] = "delete"
      BY <1>0, <2>5 DEF Answered, LocalsOK, DeleteToken
    <3>2. target[p] \in Ids /\ remote[target[p]].status # "unused" /\ remote[target[p]] \in Tokens
      BY <1>0, <2>1 DEF ProcOK, TargetOK, Exists, WorldOK
    <3>3. remote'[target[p]].status = "deleted"
      BY <1>0, <2>5, <3>2 DEF DeleteToken, WorldOK, Tokens
    <3> QED BY <1>0, <1>1, <2>1, <3>1, <3>2, <3>3 DEF Aimed, OnToken, Name
  <2> QED
    <3>1. \/ Unanswered(p) \/ Exit(p, "failed")
          \/ RollToken(p) /\ \E v : Answered(p, "store", v)
          \/ DeleteToken(p) /\ Answered(p, "forget", NoSecret)
      BY <1>5 DEF RollToken, DeleteToken
    <3>2. Exit(p, "failed") => pc'[p] = "failed"
      BY <1>0 DEF Exit, LocalsOK
    <3> QED BY <2>2, <2>3, <2>4, <2>5, <3>1, <3>2
<1>6. CASE DeleteSecret(p)
  <2>1. /\ pc[p] = "forget" /\ pc'[p] = "lock" /\ cmd' = cmd /\ args' = args /\ target' = target
        /\ remote' = remote /\ keychain' = [keychain EXCEPT ![Name(p)] = NoSecret]
    BY <1>0, <1>6 DEF DeleteSecret, LocalsOK
  <2>2. OnToken(p)
    BY <2>1 DEF OnToken
  <2>3. keychain'[Name(p)] = NoSecret
    BY <1>0, <2>1, <2>2 DEF Aimed, WorldOK
  <2> QED BY <1>0, <1>1, <2>1, <2>2, <2>3 DEF Aimed, OnToken, Name
<1>7. CASE CallFails(p)
  <2>1. pc'[p] \in {"failed", "commit"}
    BY <1>7, StepFailedMoves DEF CallFails
  <2> QED BY <2>1, NotAimed
<1>8. CASE CreateToken(p)
  <2>1. pc[p] = "exec"
    BY <1>8 DEF CreateToken, Executing
  <2>2. StepFailed(p) \/ Unanswered(p) => pc'[p] \in {"failed", "commit", "exec"}
    BY <2>1, StepFailedMoves, UnansweredMoves
  <2>3. pc'[p] \in {"failed", "commit", "exec", "keep"}
    BY <1>0, <1>8, <2>1, <2>2 DEF CreateToken, Answered, LocalsOK
  <2> QED BY <2>3, NotAimed
<1>11. CASE UpdateToken(p) \/ CheckSecret(p)
  <2>1. pc'[p] \in {"failed", "commit", "exec", "check"}
    BY <1>11, UpdateMoves, StepFailedMoves
  <2> QED BY <2>1, NotAimed
<1>9. CASE Acquire(p) \/ BuildPlan(p) \/ PlanReady(p) \/ StoreCreated(p) \/ PlanExecuted(p) \/ Truncate(p)
  <2>1. pc'[p] \in {"plan", "commit", "failed", "exec", "write"}
    BY <1>0, <1>9 DEF Acquire, BuildPlan, PlanReady, StoreCreated, PlanExecuted, Truncate, Exit, LocalsOK
  <2> QED BY <2>1, NotAimed
<1>10. CASE Write(p) \/ WriteFails(p) \/ StoreRolled(p) \/ FetchSecret(p) \/ Crash(p)
  <2>1. pc'[p] \in Ended
    BY <1>0, <1>10 DEF Write, WriteFails, StoreRolled, FetchSecret, Crash, Exit, LocalsOK, Ended
  <2> QED BY <2>1, NotAimed DEF Ended
<1> QED BY <1>2, <1>3, <1>4, <1>5, <1>6, <1>7, <1>8, <1>9, <1>10, <1>11 DEF Acts, Work, Call

LEMMA AimedStep ==
  ASSUME FilesAreWritten, TypeInv, IndInv, IndInv', ExactInv, KeepsInv, AimedInv, OneAtATime,
         [Next]_vars
  PROVE  AimedInv'
<1>1. CASE DashboardDelete \/ RemoveTorn \/ UNCHANGED vars
  <2>1. UNCHANGED <<keychain, index, procVars>>
    BY <1>1 DEF DashboardDelete, RemoveTorn, vars, world
  <2>2. \A id \in Ids : remote[id].status = "deleted" => remote'[id].status = "deleted"
    BY <1>1 DEF DashboardDelete, RemoveTorn, vars, world, TypeInv, TypeOK, Tokens
  <2> QED BY <2>1, <2>2 DEF procVars, AimedInv, Aimed, OnToken, Name, Recorded
<1>2. ASSUME NEW p \in Procs, Acts(p) PROVE AimedInv'
  BY <1>2, OthersAimed, ActorAimed DEF AimedInv
<1> QED BY <1>1, <1>2 DEF Next, Acts

(* A token under way to the Keychain is not rolled by anyone else.           *)
LEMMA OthersFresh ==
  ASSUME TypeInv, IndInv, KeepsInv, AimedInv, FreshInv, OneAtATime,
         NEW p \in Procs, Acts(p), NEW q \in Procs, q # p
  PROVE  UpToDate(q)'
<1>0. WorldOK /\ ShapeOK(q) /\ ProcOK(q) /\ ProcOK(p) /\ UpToDate(q) /\ Aimed(p)
  BY TypeSplit DEF TypeInv, IndInv, FreshInv, AimedInv
<1>1. SameLocals(q)
  BY OthersKeep
<1>2. SUFFICES ASSUME pc[q] \in {"keep", "store"}
               PROVE  remote'[value[q].id].ver = remote[value[q].id].ver
  BY <1>0, <1>1 DEF UpToDate, SameLocals
<1>3. value[q].id \in Ids /\ remote[value[q].id].status # "unused"
  BY <1>0, <1>2 DEF ProcOK, KeepOK, TargetOK, Issued, Exists
<1>4. CASE CreateToken(p)
  BY <1>0, <1>3, <1>4 DEF CreateToken, WorldOK
<1>5. CASE DeleteToken(p)
  BY <1>0, <1>3, <1>5 DEF DeleteToken, WorldOK, Tokens
<1>6. CASE RollToken(p)
  <2>1. /\ pc[p] = "call" /\ OnToken(p) /\ target[p] \in Ids /\ Name(p) \in Names
        /\ remote[target[p]].name = Name(p) /\ Recorded[Name(p)] = target[p]
    BY <1>0, <1>6 DEF RollToken, OnToken, Aimed, ProcOK, TargetOK
  <2>2. target[p] # value[q].id
    <3>1. CASE pc[q] = "keep"
      <4>1. lock = q /\ Recorded = index /\ index[Item(q)] = NoId
        BY <3>1 DEF IndInv, Mutex, Holds, Recorded, KeepsInv, Keeps
      <4>2. remote[value[q].id].name = Item(q)
        BY <1>0, <3>1 DEF ProcOK, KeepOK, Issued
      <4> QED BY <2>1, <4>1, <4>2, SentinelsAreFresh
    <3>2. CASE pc[q] = "store"
      <4>1. remote[value[q].id].name = Name(q) /\ OnToken(q)
        BY <1>0, <3>2 DEF ProcOK, TargetOK, Issued, OnToken
      <4> QED BY <2>1, <4>1 DEF OneAtATime
    <3> QED BY <1>2, <3>1, <3>2
  <2> QED BY <1>0, <1>3, <1>6, <2>1, <2>2 DEF RollToken, WorldOK
<1> QED BY <1>4, <1>5, <1>6, RemoteMoves

LEMMA ActorFresh ==
  ASSUME TypeInv, IndInv, NEW p \in Procs, Acts(p)
  PROVE  UpToDate(p)'
<1>0. LocalsOK /\ WorldOK /\ ShapeOK(p)
  BY TypeSplit DEF TypeInv
<1>1. CASE pc'[p] = "keep"
  <2>1. PICK id \in Ids :
          /\ remote' = [remote EXCEPT ![id] = [status |-> "live", name |-> Item(p), ver |-> 1]]
          /\ Answered(p, "keep", [id |-> id, ver |-> 1]) \/ Unanswered(p)
    BY <1>1, ValueComes DEF CreateToken
  <2>2. pc[p] = "exec"
    BY <1>1, ValueComes DEF CreateToken, Executing
  <2>3. ~Unanswered(p)
    BY <1>1, <2>2, UnansweredMoves, StepFailedMoves
  <2>4. value'[p] = [id |-> id, ver |-> 1]
    BY <1>0, <2>1, <2>3 DEF Answered, LocalsOK
  <2> QED BY <1>0, <1>1, <2>1, <2>4 DEF UpToDate, WorldOK
<1>2. CASE pc'[p] = "store"
  <2>1. RollToken(p) /\ pc[p] = "call"
    BY <1>2, ValueComes DEF RollToken
  <2>2. ~Unanswered(p) /\ ~Exit(p, "failed")
    BY <1>0, <1>2, <2>1, UnansweredMoves, StepFailedMoves DEF Exit, Goto, LocalsOK
  <2>3. /\ remote' = [remote EXCEPT ![target[p]].ver = @ + 1]
        /\ Answered(p, "store", [id |-> target[p], ver |-> remote[target[p]].ver + 1])
    BY <2>1, <2>2 DEF RollToken
  <2>4. value'[p] = [id |-> target[p], ver |-> remote[target[p]].ver + 1] /\ target'[p] = target[p]
    BY <1>0, <2>3 DEF Answered, LocalsOK
  <2>5. target[p] \in Ids /\ remote[target[p]] \in Tokens
    BY <1>0, <2>1 DEF ShapeOK, WorldOK
  <2>6. remote'[target[p]].ver = remote[target[p]].ver + 1
    BY <1>0, <2>3, <2>5 DEF WorldOK, Tokens
  <2> QED BY <1>2, <2>4, <2>6 DEF UpToDate
<1> QED BY <1>1, <1>2 DEF UpToDate

LEMMA FreshStep ==
  ASSUME TypeInv, IndInv, KeepsInv, AimedInv, FreshInv, OneAtATime, [Next]_vars
  PROVE  FreshInv'
<1>1. CASE DashboardDelete \/ RemoveTorn \/ UNCHANGED vars
  <2>1. UNCHANGED procVars
    BY <1>1 DEF DashboardDelete, RemoveTorn, vars
  <2>2. \A id \in Ids : remote'[id].ver = remote[id].ver
    <3>1. remote \in [Ids -> Tokens]
      BY DEF TypeInv, TypeOK
    <3>2. CASE DashboardDelete
      BY <3>1, <3>2 DEF DashboardDelete, Tokens
    <3> QED BY <1>1, <3>2 DEF vars, world, RemoveTorn
  <2>3. \A p \in Procs : pc[p] \in {"keep", "store"} => value[p].id \in Ids
    BY DEF TypeInv, ShapeOK, Secrets
  <2> QED BY <2>1, <2>2, <2>3 DEF procVars, FreshInv, UpToDate
<1>2. ASSUME NEW p \in Procs, Acts(p) PROVE FreshInv'
  BY <1>2, OthersFresh, ActorFresh DEF FreshInv
<1> QED BY <1>1, <1>2 DEF Next, Acts

(* The name apply is at is none of those it has dealt with.                  *)
LEMMA ItemNotDone ==
  ASSUME TypeInv, IndInv, NEW p \in Procs, pc[p] \in {"exec", "check", "keep"}, applied[p] < Len(plan[p])
  PROVE  Item(p) \in Names /\ Item(p) \notin Done(p)
<1>1. /\ args[p] \in Seq(Names) /\ applied[p] \in Nat /\ plan[p] \in Seq(Actions)
      /\ Len(plan[p]) <= Len(args[p]) /\ ValidateAll(args[p])
  BY DEF TypeInv, TypeOK, ShapeOK, IndInv, ProcOK, SpecsOK
<1>2. applied[p] + 1 \in DOMAIN args[p] /\ \A j \in 1..applied[p] : j \in DOMAIN args[p] /\ j # applied[p] + 1
  BY <1>1
<1> QED BY <1>1, <1>2 DEF Item, Done, ValidateAll

(* Whoever is on a token of n has the entry of n, and nobody removes it.     *)
LEMMA KeptIsTarget ==
  ASSUME TypeInv, IndInv, ExactInv, KeepsInv, AimedInv, OneAtATime,
         NEW p \in Procs, pc[p] \in {"confirm", "call", "store", "forget"}
  PROVE  /\ Name(p) \in Names /\ target[p] \in Ids
         /\ Recorded[Name(p)] = target[p] /\ Kept(Name(p)) = target[p]
<1>1. OnToken(p) /\ Aimed(p)
  BY DEF OnToken, AimedInv
<1>2. Name(p) \in Names /\ target[p] \in Ids /\ Recorded[Name(p)] = target[p]
  BY <1>1 DEF Aimed
<1>3. \A q \in Procs : ~(pc[q] = "commit" /\ cmd[q] = "delete" /\ Name(q) = Name(p))
  BY <1>1 DEF OneAtATime, OnToken
<1> QED BY <1>2, <1>3, KeptIsRecorded, SentinelsAreFresh

LEMMA MatchedActs ==
  ASSUME FilesAreWritten, TypeInv, IndInv, ExactInv, KeepsInv, AimedInv, FreshInv, MatchedInv,
         OneAtATime, NEW p \in Procs, Acts(p), NEW n \in Names, keychain'[n] # NoSecret
  PROVE  keychain'[n].id = Kept(n)'
<1>0. /\ WorldOK /\ LocalsOK /\ ShapeOK(p) /\ ProcOK(p) /\ Aimed(p) /\ UpToDate(p)
      /\ keychain[n] # NoSecret => keychain[n].id = Kept(n) /\ keychain[n].id \in Ids
  BY TypeSplit DEF TypeInv, WorldOK, Secrets, IndInv, AimedInv, FreshInv, MatchedInv
<1>1. CASE StoreCreated(p)
  <2>1. /\ lock = p /\ lock' = lock /\ lock # NoProc
        /\ keychain' = [keychain EXCEPT ![Item(p)] = value[p]]
        /\ mem' = [mem EXCEPT ![p][Item(p)] = value[p].id]
    BY <1>1, SentinelsAreFresh DEF StoreCreated, IndInv, Mutex, Holds
  <2>2. Kept(n) = mem[p][n] /\ Kept(n)' = mem'[p][n]
    BY <2>1 DEF Kept
  <2> QED BY <1>0, <2>1, <2>2 DEF WorldOK, LocalsOK, Entries
<1>2. CASE (UpdateToken(p) \/ CheckSecret(p)) /\ ~(StepFailed(p) \/ mem' = mem)
  <2>1. /\ pc[p] \in {"exec", "check"} /\ applied[p] < Len(plan[p]) /\ Step(p).op # "create"
        /\ keychain' = keychain /\ lock' = lock
        /\ mem' = [mem EXCEPT ![p][Item(p)] = Step(p).id]
    BY <1>2, UpdateMoves DEF world
  <2>2. lock = p /\ lock # NoProc /\ Exact(p)
    BY <2>1, SentinelsAreFresh DEF IndInv, Mutex, Holds, ExactInv
  <2>3. Kept(n) = mem[p][n] /\ Kept(n)' = mem'[p][n]
    BY <2>1, <2>2 DEF Kept
  <2>4. CASE n = Item(p)
    <3>1. mem[p][n] = index[n] /\ index[n] \in {NoId, Step(p).id}
      BY <2>1, <2>2, <2>4, ItemNotDone, ItemOfStep DEF Exact
    <3>2. mem'[p][n] = Step(p).id
      BY <1>0, <2>1, <2>4 DEF LocalsOK, Entries
    <3> QED BY <1>0, <2>1, <2>3, <3>1, <3>2, SentinelsAreFresh
  <2>5. CASE n # Item(p)
    BY <1>0, <2>1, <2>3, <2>5 DEF LocalsOK, Entries
  <2> QED BY <2>4, <2>5
<1>3. CASE Acquire(p) /\ cmd[p] = "delete" /\ n = Name(p)
  <2>1. pc[p] = "lock" /\ OnToken(p) /\ keychain' = keychain
    BY <1>3 DEF Acquire, OnToken, world
  <2> QED BY <1>0, <1>3, <2>1 DEF Aimed
<1>4. CASE /\ ~StoreCreated(p)
           /\ ~((UpdateToken(p) \/ CheckSecret(p)) /\ ~(StepFailed(p) \/ mem' = mem))
           /\ ~(Acquire(p) /\ cmd[p] = "delete" /\ n = Name(p))
  <2>1. Kept(n)' = Kept(n)
    BY <1>4, KeptStays
  <2>2. CASE StoreRolled(p)
    <3>1. pc[p] = "store" /\ keychain' = [keychain EXCEPT ![Name(p)] = value[p]]
      BY <2>2 DEF StoreRolled
    <3>2. value[p].id = Kept(Name(p))
      BY <1>0, <3>1, KeptIsTarget DEF UpToDate
    <3> QED BY <1>0, <2>1, <3>1, <3>2 DEF WorldOK
  <2>3. CASE DeleteSecret(p)
    BY <1>0, <2>1, <2>3 DEF DeleteSecret, WorldOK
  <2> QED BY <1>0, <1>4, <2>1, <2>2, <2>3, KeychainMoves
<1> QED BY <1>1, <1>2, <1>3, <1>4

LEMMA MatchedStep ==
  ASSUME FilesAreWritten, TypeInv, IndInv, ExactInv, KeepsInv, AimedInv, FreshInv, MatchedInv,
         OneAtATime, [Next]_vars
  PROVE  MatchedInv'
<1>1. CASE DashboardDelete \/ RemoveTorn \/ UNCHANGED vars
  BY <1>1 DEF DashboardDelete, RemoveTorn, vars, world, procVars, MatchedInv, Kept
<1>2. ASSUME NEW p \in Procs, Acts(p) PROVE MatchedInv'
  <2>1. ASSUME NEW n \in Names, keychain'[n] # NoSecret PROVE keychain'[n].id = Kept(n)'
    BY <1>2, <2>1, MatchedActs
  <2> QED BY <2>1 DEF MatchedInv
<1> QED BY <1>1, <1>2 DEF Next, Acts

(* A value in force is replaced by itself, and not removed.                  *)
LEMMA InForceStays ==
  ASSUME TypeInv, IndInv, ExactInv, KeepsInv, AimedInv, FreshInv, MatchedInv, OneAtATime,
         [Next]_vars, NEW n \in Names, InForce(keychain[n])
  PROVE  keychain'[n] = keychain[n]
<1>0. /\ keychain \in [Names -> Secrets \cup {NoSecret}] /\ keychain[n] \in Secrets
      /\ keychain[n].id = Kept(n) /\ keychain[n].id \in Ids
  BY DEF TypeInv, TypeOK, InForce, MatchedInv, Secrets
<1>1. CASE DashboardDelete \/ RemoveTorn \/ UNCHANGED vars
  BY <1>1 DEF DashboardDelete, RemoveTorn, vars, world
<1>2. ASSUME NEW p \in Procs, Acts(p) PROVE keychain'[n] = keychain[n]
  <2>0. ShapeOK(p) /\ Aimed(p) /\ UpToDate(p)
    BY DEF TypeInv, AimedInv, FreshInv
  <2>1. CASE StoreCreated(p)
    <3>1. /\ pc[p] = "keep" /\ lock = p /\ lock # NoProc
          /\ keychain' = [keychain EXCEPT ![Item(p)] = value[p]]
      BY <2>1, SentinelsAreFresh DEF StoreCreated, IndInv, Mutex, Holds
    <3>2. applied[p] < Len(plan[p]) /\ Exact(p) /\ Keeps(p)
      BY <2>0, <3>1 DEF ShapeOK, ExactInv, KeepsInv
    <3>3. mem[p][Item(p)] = NoId
      BY <3>1, <3>2, ItemNotDone DEF Exact, Keeps
    <3>4. n # Item(p)
      BY <1>0, <3>1, <3>3, SentinelsAreFresh DEF Kept
    <3> QED BY <1>0, <3>1, <3>4
  <2>2. CASE StoreRolled(p)
    <3>1. pc[p] = "store" /\ keychain' = [keychain EXCEPT ![Name(p)] = value[p]]
      BY <2>2 DEF StoreRolled
    <3>2. CASE n = Name(p)
      <4>1. value[p] \in Secrets /\ value[p].id = keychain[n].id
        BY <1>0, <2>0, <3>1, <3>2, KeptIsTarget DEF UpToDate, ShapeOK
      <4>2. value[p].ver = keychain[n].ver
        BY <2>0, <3>1, <4>1 DEF UpToDate, InForce
      <4>3. value[p] = keychain[n]
        BY <1>0, <4>1, <4>2 DEF Secrets
      <4> QED BY <1>0, <3>1, <3>2, <4>3
    <3> QED BY <1>0, <3>1, <3>2
  <2>3. CASE DeleteSecret(p)
    <3>1. pc[p] = "forget" /\ keychain' = [keychain EXCEPT ![Name(p)] = NoSecret]
      BY <2>3 DEF DeleteSecret
    <3>2. remote[target[p]].status = "deleted"
      BY <2>0, <3>1 DEF Aimed, OnToken
    <3>3. n # Name(p)
      BY <1>0, <3>1, <3>2, KeptIsTarget DEF InForce
    <3> QED BY <1>0, <3>1, <3>3
  <2> QED BY <1>2, <2>1, <2>2, <2>3, KeychainMoves
<1> QED BY <1>1, <1>2 DEF Next, Acts

(* Without faults a request is answered and a call goes through.             *)
LEMMA NothingFailing ==
  ASSUME NothingFails, TypeInv, NEW p \in Procs
  PROVE  ~Unanswered(p) /\ ~CallFails(p) /\ ~WriteFails(p) /\ ~Crash(p)
  BY DEF NothingFails, Unanswered, CallFails, CanFail, Requests, WriteFails, Crash

LEMMA RefreshedActs ==
  ASSUME NothingFails, TypeInv, IndInv, AimedInv, FreshInv, RefreshedInv, OneAtATime,
         NEW p \in Procs, Acts(p), NEW n \in Names
  PROVE  Refreshed(n)'
<1>0. WorldOK /\ LocalsOK /\ ShapeOK(p) /\ ProcOK(p) /\ UpToDate(p) /\ Refreshed(n)
  BY TypeSplit DEF TypeInv, IndInv, FreshInv, RefreshedInv
<1>1. ASSUME keychain' = [keychain EXCEPT ![n] = value[p]], remote' = remote,
             pc[p] \in {"keep", "store"}
      PROVE  Refreshed(n)'
  <2>1. keychain'[n] = value[p]
    BY <1>0, <1>1 DEF WorldOK
  <2> QED BY <1>0, <1>1, <2>1 DEF UpToDate, Refreshed
<1>2. CASE StoreCreated(p) /\ n = Item(p)
  BY <1>1, <1>2 DEF StoreCreated
<1>3. CASE StoreRolled(p) /\ n = Name(p)
  BY <1>1, <1>3 DEF StoreRolled
<1>4. CASE ~(StoreCreated(p) /\ n = Item(p)) /\ ~(StoreRolled(p) /\ n = Name(p))
  <2>1. SUFFICES ASSUME keychain'[n] # NoSecret, remote'[keychain'[n].id].status = "live"
                 PROVE  \/ keychain'[n].ver = remote'[keychain'[n].id].ver
                        \/ \E q \in Procs : pc'[q] = "store" /\ Name(q)' = n
                                            /\ value'[q].id = keychain'[n].id
    BY DEF Refreshed
  <2>2. keychain'[n] = keychain[n]
    BY <1>0, <1>4, <2>1, KeychainMoves DEF StoreCreated, StoreRolled, DeleteSecret, WorldOK
  <2> DEFINE id == keychain[n].id
  <2>3. id \in Ids /\ remote[id].status # "unused" /\ remote[id].name = n
    BY <2>1, <2>2 DEF IndInv, StoresOK, Issued, Exists
  <2>4. CASE RollToken(p) /\ target[p] = id
    <3>1. pc[p] = "call"
      BY <2>4 DEF RollToken
    <3>2. CASE remote[id].status = "live"
      <4>1. Answered(p, "store", [id |-> id, ver |-> remote[id].ver + 1])
        BY <2>4, <3>2, NothingFailing DEF RollToken
      <4>2. pc'[p] = "store" /\ Name(p)' = Name(p) /\ value'[p].id = id
        BY <1>0, <4>1 DEF Answered, LocalsOK, Goto, Name
      <4>3. Name(p) = n
        BY <1>0, <2>3, <2>4, <3>1 DEF ProcOK, TargetOK
      <4> QED BY <2>2, <4>2, <4>3
    <3>3. CASE remote[id].status # "live"
      BY <2>1, <2>2, <2>4, <3>3 DEF RollToken
    <3> QED BY <3>2, <3>3
  <2>5. CASE ~(RollToken(p) /\ target[p] = id)
    <3>1. remote'[id].ver = remote[id].ver /\ remote[id].status = "live"
      <4>1. CASE CreateToken(p)
        BY <1>0, <2>1, <2>2, <2>3, <4>1 DEF CreateToken, WorldOK
      <4>2. CASE RollToken(p)
        BY <1>0, <2>1, <2>2, <2>3, <2>5, <4>2 DEF RollToken, WorldOK
      <4>3. CASE DeleteToken(p)
        BY <1>0, <2>1, <2>2, <2>3, <4>3 DEF DeleteToken, WorldOK, Tokens
      <4> QED BY <2>1, <2>2, <4>1, <4>2, <4>3, RemoteMoves
    <3>2. CASE keychain[n].ver = remote[id].ver
      BY <2>2, <3>1, <3>2
    <3>3. CASE keychain[n].ver # remote[id].ver
      <4>1. PICK q \in Procs : pc[q] = "store" /\ Name(q) = n /\ value[q].id = id
        BY <1>0, <2>1, <2>2, <3>1, <3>3 DEF Refreshed
      <4>2. q # p
        <5>1. pc[p] = "store" => StoreRolled(p)
          BY NothingFailing DEF Acts, Work, Call, CheckSecret, StartApply, StartOnToken, Confirm, Acquire, BuildPlan,
             PlanReady, CreateToken, StoreCreated, UpdateToken, PlanExecuted, Truncate, Write,
             RollToken, DeleteToken, DeleteSecret, FetchSecret, Executing
        <5> QED BY <1>4, <4>1, <5>1
      <4>3. SameLocals(q)
        BY <4>2, OthersKeep
      <4> QED BY <2>2, <4>1, <4>3 DEF SameLocals, Name
    <3> QED BY <3>2, <3>3
  <2> QED BY <2>4, <2>5
<1> QED BY <1>2, <1>3, <1>4

LEMMA RefreshedStep ==
  ASSUME NothingFails, TypeInv, IndInv, AimedInv, FreshInv, RefreshedInv, OneAtATime, [Next]_vars
  PROVE  RefreshedInv'
<1>1. CASE DashboardDelete \/ RemoveTorn \/ UNCHANGED vars
  <2>1. ASSUME NEW n \in Names, keychain[n] # NoSecret
        PROVE  /\ remote'[keychain[n].id].ver = remote[keychain[n].id].ver
               /\ remote'[keychain[n].id].status = "live" => remote[keychain[n].id].status = "live"
    <3>1. remote \in [Ids -> Tokens] /\ keychain[n].id \in Ids
      BY <2>1 DEF TypeInv, TypeOK, Secrets
    <3>2. CASE DashboardDelete
      BY <3>1, <3>2 DEF DashboardDelete, Tokens
    <3> QED BY <1>1, <3>2 DEF vars, world, RemoveTorn
  <2>2. keychain' = keychain /\ UNCHANGED procVars
    BY <1>1 DEF DashboardDelete, RemoveTorn, vars, world
  <2>3. ASSUME NEW n \in Names PROVE Refreshed(n)'
    BY <2>1, <2>2 DEF procVars, RefreshedInv, Refreshed, Name
  <2> QED BY <2>3 DEF RefreshedInv
<1>2. ASSUME NEW p \in Procs, Acts(p) PROVE RefreshedInv'
  <2>1. ASSUME NEW n \in Names PROVE Refreshed(n)'
    BY <1>2, RefreshedActs
  <2> QED BY <2>1 DEF RefreshedInv
<1> QED BY <1>1, <1>2 DEF Next, Acts

(* The steps that neither create, record nor delete leave the entries there  *)
(* will be.                                                                  *)
LEMMA EnteredStays ==
  ASSUME NothingFails, TypeInv, IndInv, ExactInv, NEW p \in Procs, Acts(p), NEW n \in Names,
         ~CreateToken(p), ~StoreCreated(p),
         UpdateToken(p) \/ CheckSecret(p) => StepFailed(p) \/ mem' = mem,
         ~(Acquire(p) /\ cmd[p] = "delete" /\ n = Name(p))
  PROVE  Entered(n)' = Entered(n)
<1>1. Kept(n)' = Kept(n)
  BY KeptStays DEF NothingFails, FilesAreWritten
<1>2. pc[p] # "keep" /\ pc'[p] # "keep"
  <2>1. pc[p] = "keep" => StoreCreated(p)
    BY NothingFailing DEF Acts, Work, Call, CheckSecret, StartApply, StartOnToken, Confirm, Acquire, BuildPlan,
       PlanReady, CreateToken, StoreCreated, UpdateToken, PlanExecuted, Truncate, Write,
       RollToken, StoreRolled, DeleteToken, DeleteSecret, FetchSecret, Executing
  <2> QED BY <2>1, ValueComes
<1>3. CASE lock \in Procs /\ lock # p
  <2>1. lock' = lock
    BY <1>3, LockMoves, SentinelsAreFresh DEF Acquire
  <2>2. SameLocals(lock)
    BY <1>3, OthersKeep
  <2> QED BY <1>1, <2>1, <2>2 DEF Entered, Item, SameLocals
<1>4. CASE lock \in {p, NoProc}
  <2>1. lock' \in {p, NoProc}
    BY <1>4, LockMoves DEF Acquire, Exit
  <2>2. ~(lock # NoProc /\ pc[lock] = "keep") /\ ~(lock' # NoProc /\ pc'[lock'] = "keep")
    BY <1>2, <1>4, <2>1
  <2> QED BY <1>1, <2>2 DEF Entered
<1> QED BY <1>3, <1>4 DEF TypeInv, TypeOK

LEMMA EnteredActs ==
  ASSUME NothingFails, TypeInv, IndInv, ExactInv, AimedInv, EnteredInv, OneAtATime,
         NEW p \in Procs, Acts(p), NEW id \in Ids, NEW m,
         remote'[id].status = "live", remote'[id].name = m
  PROVE  m \in Names /\ Entered(m)' = id
<1>0. /\ WorldOK /\ LocalsOK /\ ShapeOK(p) /\ ProcOK(p) /\ Aimed(p)
      /\ remote[id].status = "live" => remote[id].name \in Names /\ Entered(remote[id].name) = id
  BY TypeSplit DEF TypeInv, IndInv, AimedInv, EnteredInv
<1>1. CASE CreateToken(p)
  <2>1. PICK i \in Ids :
          /\ remote[i].status = "unused"
          /\ remote' = [remote EXCEPT ![i] = [status |-> "live", name |-> Item(p), ver |-> 1]]
          /\ Answered(p, "keep", [id |-> i, ver |-> 1])
    BY <1>1, NothingFailing DEF CreateToken
  <2>2. pc[p] = "exec" /\ applied[p] < Len(plan[p]) /\ Step(p).op = "create"
    BY <1>1 DEF CreateToken, Executing
  <2>3. lock = p /\ lock' = p /\ lock # NoProc
    BY <2>1, <2>2, SentinelsAreFresh DEF IndInv, Mutex, Holds, Answered
  <2>4. /\ pc'[p] = "keep" /\ Item(p)' = Item(p) /\ value'[p].id = i /\ mem' = mem
    BY <1>0, <2>1 DEF Answered, Goto, LocalsOK, Item
  <2>5. Item(p) \in Names /\ ResolveTokensByName(Item(p)) = {}
    BY <2>2, ItemOfStep DEF NothingFails
  <2>6. CASE id = i
    <3>1. m = Item(p)
      BY <1>0, <2>1, <2>6 DEF WorldOK
    <3> QED BY <2>3, <2>4, <2>5, <2>6, <3>1 DEF Entered
  <2>7. CASE id # i
    <3>1. remote'[id] = remote[id]
      BY <1>0, <2>1, <2>7 DEF WorldOK
    <3>2. m # Item(p)
      BY <2>5, <3>1 DEF ResolveTokensByName
    <3>3. m \in Names /\ mem[p][m] = id
      BY <1>0, <2>2, <2>3, <3>1 DEF Entered, Kept
    <3>4. Entered(m)' = mem'[p][m]
      BY <2>3, <2>4, <3>2 DEF Entered, Kept
    <3> QED BY <2>4, <3>3, <3>4
  <2> QED BY <2>6, <2>7
<1>2. CASE StoreCreated(p)
  <2>1. /\ pc[p] = "keep" /\ remote' = remote /\ lock' = lock
        /\ pc' = [pc EXCEPT ![p] = "exec"]
        /\ mem' = [mem EXCEPT ![p][Item(p)] = value[p].id]
    BY <1>2 DEF StoreCreated, Goto
  <2>2. lock = p /\ lock # NoProc /\ pc'[p] = "exec"
    BY <1>0, <2>1, SentinelsAreFresh DEF IndInv, Mutex, Holds, LocalsOK
  <2>3. m \in Names /\ Entered(m) = id
    BY <1>0, <2>1
  <2>4. Entered(m)' = mem'[p][m]
    BY <2>1, <2>2 DEF Entered, Kept
  <2>5. CASE m = Item(p)
    BY <1>0, <2>1, <2>2, <2>3, <2>4, <2>5 DEF Entered, LocalsOK, Entries
  <2>6. CASE m # Item(p)
    BY <1>0, <2>1, <2>2, <2>3, <2>4, <2>6 DEF Entered, Kept, LocalsOK, Entries
  <2> QED BY <2>5, <2>6
<1>3. CASE (UpdateToken(p) \/ CheckSecret(p)) /\ ~(StepFailed(p) \/ mem' = mem)
  <2>1. /\ pc[p] \in {"exec", "check"} /\ applied[p] < Len(plan[p]) /\ Step(p).op # "create"
        /\ pc'[p] = "exec" /\ lock' = lock /\ mem' = [mem EXCEPT ![p][Item(p)] = Step(p).id]
    BY <1>3, UpdateMoves
  <2>2. lock = p /\ lock # NoProc
    BY <2>1, SentinelsAreFresh DEF IndInv, Mutex, Holds
  <2>3. remote' = remote
    BY <1>3, UpdateMoves DEF world
  <2>4. m \in Names /\ mem[p][m] = id /\ Entered(m)' = mem'[p][m]
    BY <1>0, <2>1, <2>2, <2>3 DEF Entered, Kept
  <2>5. CASE m = Item(p)
    <3>1. id = Step(p).id
      BY <2>1, <2>3, <2>5, ItemOfStep DEF EntryOK, ResolveTokensByName, NothingFails
    <3> QED BY <1>0, <2>1, <2>3, <2>4, <2>5, <3>1 DEF LocalsOK, Entries
  <2>6. CASE m # Item(p)
    BY <1>0, <2>1, <2>3, <2>4, <2>6 DEF LocalsOK, Entries
  <2> QED BY <2>5, <2>6
<1>4. CASE /\ ~CreateToken(p) /\ ~StoreCreated(p)
           /\ UpdateToken(p) \/ CheckSecret(p) => StepFailed(p) \/ mem' = mem
  <2>1. remote[id].status = "live" /\ remote[id].name = m
    <3>1. CASE RollToken(p)
      BY <1>0, <3>1 DEF RollToken, WorldOK, Tokens
    <3>2. CASE DeleteToken(p)
      BY <1>0, <3>2 DEF DeleteToken, WorldOK, Tokens
    <3> QED BY <1>4, <3>1, <3>2, RemoteMoves
  <2>2. CASE Acquire(p) /\ cmd[p] = "delete" /\ m = Name(p)
    <3>1. pc[p] = "lock" /\ lock = NoProc /\ OnToken(p)
      BY <2>2 DEF Acquire, OnToken
    <3>2. Recorded[Name(p)] = id
      BY <1>0, <2>1, <2>2, <3>1 DEF Entered, Kept, Recorded
    <3> QED BY <1>0, <2>1, <3>1, <3>2 DEF Aimed
  <2>3. CASE ~(Acquire(p) /\ cmd[p] = "delete" /\ m = Name(p))
    BY <1>0, <1>4, <2>1, <2>3, EnteredStays
  <2> QED BY <2>2, <2>3
<1> QED BY <1>1, <1>2, <1>3, <1>4

LEMMA EnteredStep ==
  ASSUME NothingFails, TypeInv, IndInv, ExactInv, AimedInv, EnteredInv, OneAtATime, [Next]_vars
  PROVE  EnteredInv'
<1>1. CASE DashboardDelete \/ RemoveTorn \/ UNCHANGED vars
  <2>1. ASSUME NEW id \in Ids, remote'[id].status = "live"
        PROVE  remote[id].status = "live" /\ remote'[id].name = remote[id].name
    <3>1. remote \in [Ids -> Tokens]
      BY DEF TypeInv, TypeOK
    <3>2. CASE DashboardDelete
      BY <2>1, <3>1, <3>2 DEF DashboardDelete, Tokens
    <3> QED BY <1>1, <2>1, <3>2 DEF vars, world, RemoveTorn
  <2>2. index' = index /\ UNCHANGED procVars
    BY <1>1 DEF DashboardDelete, RemoveTorn, vars, world
  <2> QED BY <2>1, <2>2 DEF procVars, EnteredInv, Entered, Kept, Item
<1>2. ASSUME NEW p \in Procs, Acts(p) PROVE EnteredInv'
  <2>1. ASSUME NEW id \in Ids, remote'[id].status = "live", NEW m, remote'[id].name = m
        PROVE  m \in Names /\ Entered(m)' = id
    BY <1>2, <2>1, EnteredActs
  <2> QED BY <2>1 DEF EnteredInv, Entered, Kept, Item
<1> QED BY <1>1, <1>2 DEF Next, Acts

(* What earlier commands left satisfies all of it.                           *)
LEMMA InitQuiet ==
  Init => ExactInv /\ KeepsInv /\ AimedInv /\ FreshInv /\ MatchedInv /\ RefreshedInv
<1> SUFFICES ASSUME Init
             PROVE  ExactInv /\ KeepsInv /\ AimedInv /\ FreshInv /\ MatchedInv /\ RefreshedInv
  OBVIOUS
<1>1. ExactInv /\ KeepsInv /\ AimedInv /\ FreshInv
  BY DEF Init, ExactInv, Exact, KeepsInv, Keeps, AimedInv, Aimed, OnToken, FreshInv, UpToDate
<1>2. PICK s \in Seeds :
       /\ remote = [id \in Ids |->
            IF \E n \in Names : s.token[n] = id
            THEN [status |-> "live", name |-> CHOOSE n \in Names : s.token[n] = id, ver |-> 1]
            ELSE Unused]
       /\ index = [n \in Names |-> IF n \in s.known THEN s.token[n] ELSE NoId]
       /\ keychain = [n \in Names |->
            IF n \in s.known /\ s.token[n] # NoId
            THEN [id |-> s.token[n], ver |-> 1] ELSE NoSecret]
  BY DEF Init
<1>3. ASSUME NEW n \in Names, keychain[n] # NoSecret
      PROVE  /\ keychain[n].id = index[n]
             /\ keychain[n].ver = remote[keychain[n].id].ver
  <2>1. n \in s.known /\ s.token[n] # NoId /\ keychain[n] = [id |-> s.token[n], ver |-> 1]
    BY <1>2, <1>3
  <2>2. s.token[n] \in Ids
    BY <2>1, SeedsAreConsistent DEF Entries
  <2> QED BY <1>2, <2>1, <2>2
<1> QED BY <1>1, <1>3 DEF Init, MatchedInv, Kept, RefreshedInv, Refreshed

LEMMA InitEntered == SeedsAreKnown /\ Init => EnteredInv
<1> SUFFICES ASSUME SeedsAreKnown, Init, NEW id \in Ids, remote[id].status = "live"
             PROVE  remote[id].name \in Names /\ Entered(remote[id].name) = id
  BY DEF EnteredInv
<1>1. PICK s \in Seeds :
       /\ remote = [i \in Ids |->
            IF \E n \in Names : s.token[n] = i
            THEN [status |-> "live", name |-> CHOOSE n \in Names : s.token[n] = i, ver |-> 1]
            ELSE Unused]
       /\ index = [n \in Names |-> IF n \in s.known THEN s.token[n] ELSE NoId]
  BY DEF Init
<1>2. \E n \in Names : s.token[n] = id
  BY <1>1 DEF Unused
<1>3. remote[id].name \in Names /\ s.token[remote[id].name] = id
  BY <1>1, <1>2
<1>4. index[remote[id].name] = id
  BY <1>1, <1>3, SentinelsAreFresh DEF SeedsAreKnown
<1> QED BY <1>3, <1>4 DEF Init, Entered, Kept

(* The inductive invariant behind the theorems below: what whoever is on a   *)
(* token knows is still true, and the Keychain has the values of the tokens  *)
(* that the holder of the lock leaves in the index (delete.go:84-108).       *)
THEOREM TargetsStayTrue ==
  ASSUME FilesAreWritten
  PROVE  Spec /\ []OneAtATime => []AgreeInv
<1> USE DEF AgreeInv
<1>1. Init => AgreeInv
  BY InitType, InitInv, InitQuiet
<1>2. AgreeInv /\ OneAtATime /\ [Next]_vars => AgreeInv'
  BY StepType, StepInv, ExactStep, KeepsStep, AimedStep, FreshStep, MatchedStep
<1> QED BY <1>1, <1>2, PTL DEF Spec

(* Whatever calls fail or are repeated, the Keychain has values of the       *)
(* tokens the index has, as long as the file is written, nothing is killed,  *)
(* and one rotate or delete at a time is on a name (delete.go:97-108,        *)
(* apply.go:237-250).                                                        *)
THEOREM TheStoresAgree ==
  ASSUME FilesAreWritten
  PROVE  Spec /\ []OneAtATime => []ValuesMatchEntries
<1>1. AgreeInv => ValuesMatchEntries
  BY DEF AgreeInv, MatchedInv, Kept, ValuesMatchEntries
<1> QED BY <1>1, TargetsStayTrue, PTL

(* Under the same conditions no step overwrites or removes a value that      *)
(* Cloudflare accepts (apply.go:237, rotate.go:87, delete.go:97).            *)
THEOREM ValuesInForceAreKept ==
  ASSUME FilesAreWritten
  PROVE  Spec /\ []OneAtATime => ValueInForceIsKept
<1> DEFINE Keep == \A n \in Names : InForce(keychain[n]) => keychain'[n] = keychain[n]
<1>1. AgreeInv /\ OneAtATime /\ [Next]_vars => [Keep]_vars
  BY InForceStays DEF AgreeInv
<1>2. Spec /\ []OneAtATime => []AgreeInv
  BY TargetsStayTrue
<1>3. Spec /\ []OneAtATime => [][Keep]_vars
  BY <1>1, <1>2, PTL DEF Spec
<1> QED BY <1>3 DEF ValueInForceIsKept

(* When no call fails either, and the index had every managed token at the   *)
(* start, each live token has its entry or is on its way to get it, and the  *)
(* Keychain has, or is about to get, the last value of each live token of    *)
(* which it has one (apply.go:230-250, rotate.go:42-44).                     *)
THEOREM NothingDrifts ==
  ASSUME NothingFails, SeedsAreKnown
  PROVE  Spec /\ []OneAtATime => []CaughtUp
<1>1. Init => CaughtUp
  BY InitQuiet, InitEntered DEF CaughtUp
<1>2. AgreeInv /\ OneAtATime /\ CaughtUp /\ [Next]_vars => CaughtUp'
  BY RefreshedStep, EnteredStep DEF AgreeInv, CaughtUp
<1>3. Spec /\ []OneAtATime => []AgreeInv
  BY TargetsStayTrue DEF NothingFails, FilesAreWritten
<1> QED BY <1>1, <1>2, <1>3, PTL DEF Spec

(* When no call fails either, the Keychain has the last value of each live   *)
(* token once every command has ended, even while the dashboard deletes      *)
(* tokens (rotate.go:42-44).                                                 *)
THEOREM ValuesStayCurrent ==
  ASSUME NothingFails
  PROVE  Spec /\ []OneAtATime => []KeychainIsCurrent
<1>1. RefreshedInv => KeychainIsCurrent
  BY DEF RefreshedInv, Refreshed, KeychainIsCurrent, Quiet, Ended
<1>2. AgreeInv /\ OneAtATime /\ RefreshedInv /\ [Next]_vars => RefreshedInv'
  BY RefreshedStep DEF AgreeInv
<1>3. Spec /\ []OneAtATime => []AgreeInv
  BY TargetsStayTrue DEF NothingFails, FilesAreWritten
<1>4. Init => RefreshedInv
  BY InitQuiet
<1> QED BY <1>1, <1>2, <1>3, <1>4, PTL DEF Spec

(* And if the index had an entry for each managed token at the start, it has *)
(* one for each live token whenever every command has ended (delete.go:45).  *)
THEOREM NothingIsLost ==
  ASSUME NothingFails, SeedsAreKnown
  PROVE  Spec /\ []OneAtATime => []NoLostToken
<1>1. AgreeInv /\ CaughtUp => NoLostToken
  <2> SUFFICES ASSUME AgreeInv, EnteredInv, Quiet, NEW id \in Ids, remote[id].status = "live"
               PROVE  index[remote[id].name] = id
    BY DEF NoLostToken, CaughtUp
  <2>1. lock = NoProc
    BY DEF AgreeInv, Quiet, Ended, IndInv, Mutex, Holds, TypeInv, TypeOK
  <2> QED BY <2>1 DEF EnteredInv, Entered, Kept
<1>2. Spec /\ []OneAtATime => []AgreeInv
  BY TargetsStayTrue DEF NothingFails, FilesAreWritten
<1> QED BY <1>1, <1>2, NothingDrifts, PTL

(* Only rotate and delete are ever on a token.                               *)
Asked(p) ==
  /\ cmd[p] \in CommandsOf[p] \cup {"none"}
  /\ pc[p] \in {"confirm", "call", "store", "forget"} => cmd[p] \in {"rotate", "delete"}
AskedInv == \A p \in Procs : Asked(p)

LEMMA ActorAsked ==
  ASSUME TypeInv, AskedInv, NEW p \in Procs, Acts(p)
  PROVE  Asked(p)'
<1>0. LocalsOK /\ Asked(p)
  BY TypeSplit DEF TypeInv, AskedInv
<1> USE DEF Goto
<1>1. ASSUME NEW s \in Ended, Exit(p, s) PROVE Asked(p)'
  BY <1>0, <1>1 DEF Exit, LocalsOK, Asked, Ended
<1>2. ASSUME StepFailed(p) PROVE Asked(p)'
  <2>1. CASE Exit(p, "failed")
    BY <1>1, <2>1 DEF Ended
  <2>2. CASE ~Exit(p, "failed")
    BY <1>0, <1>2, <2>2 DEF StepFailed, LocalsOK, Asked
  <2> QED BY <2>1, <2>2
<1>3. ASSUME Unanswered(p) PROVE Asked(p)'
  <2>1. StepFailed(p) \/ (pc' = pc /\ cmd' = cmd)
    BY <1>3, UnansweredMoves
  <2> QED BY <1>0, <1>2, <2>1 DEF Asked
<1>4. CASE StartApply(p)
  <2>1. Exit(p, "failed") \/ (pc'[p] = "lock" /\ cmd'[p] \in CommandsOf[p])
    BY <1>0, <1>4 DEF StartApply, LocalsOK
  <2> QED BY <1>1, <2>1 DEF Asked, Ended
<1>5. CASE StartOnToken(p)
  <2>1. \/ Exit(p, "failed")
        \/ pc'[p] = "fetch" /\ cmd'[p] \in CommandsOf[p]
        \/ pc'[p] = "confirm" /\ cmd'[p] \in CommandsOf[p] \cap {"rotate", "delete"}
    BY <1>0, <1>5 DEF StartOnToken, LocalsOK
  <2> QED BY <1>1, <2>1 DEF Asked, Ended
<1>6. CASE Confirm(p)
  <2>1. Exit(p, "aborted") \/ (pc[p] = "confirm" /\ cmd' = cmd)
    BY <1>6 DEF Confirm
  <2> QED BY <1>0, <1>1, <2>1 DEF Asked, Ended
<1>7. CASE Acquire(p) \/ PlanReady(p) \/ PlanExecuted(p) \/ Truncate(p) \/ StoreCreated(p) \/ DeleteSecret(p)
  <2>1. Exit(p, "failed") \/ (cmd' = cmd /\ pc'[p] \in {"plan", "exec", "commit", "write", "lock"})
    BY <1>0, <1>7 DEF Acquire, PlanReady, PlanExecuted, Truncate, StoreCreated, DeleteSecret, LocalsOK
  <2> QED BY <1>0, <1>1, <2>1 DEF Asked, Ended
<1>8. CASE BuildPlan(p)
  <2>1. Exit(p, "failed") \/ (pc'[p] = "plan" /\ cmd' = cmd)
    BY <1>8 DEF BuildPlan
  <2> QED BY <1>0, <1>1, <2>1 DEF Asked, Ended
<1>9. CASE CreateToken(p) \/ RollToken(p) \/ DeleteToken(p)
  <2>1. \/ Unanswered(p) \/ Exit(p, "failed")
        \/ cmd' = cmd /\ pc'[p] = "keep"
        \/ cmd' = cmd /\ cmd[p] \in {"rotate", "delete"}
    BY <1>0, <1>9 DEF CreateToken, RollToken, DeleteToken, Answered, LocalsOK
  <2> QED BY <1>0, <1>1, <1>3, <2>1 DEF Asked, Ended
<1>10. CASE UpdateToken(p) \/ CheckSecret(p)
  <2>1. StepFailed(p) \/ Unanswered(p) \/ (cmd' = cmd /\ pc'[p] \in {"exec", "check"})
    BY <1>0, <1>10 DEF UpdateToken, CheckSecret, RecordEntry, Answered, LocalsOK
  <2> QED BY <1>0, <1>2, <1>3, <2>1 DEF Asked
<1>11. CASE CallFails(p)
  BY <1>2, <1>11 DEF CallFails
<1>12. CASE Write(p) \/ WriteFails(p) \/ StoreRolled(p) \/ FetchSecret(p) \/ Crash(p)
  BY <1>1, <1>12 DEF Write, WriteFails, StoreRolled, FetchSecret, Crash, Ended
<1> QED BY <1>4, <1>5, <1>6, <1>7, <1>8, <1>9, <1>10, <1>11, <1>12 DEF Acts, Work, Call

(* Where at most one of the invocations may turn out to be a rotate or a     *)
(* delete, one at a time is on a token, whatever fails (delete.go:54-76,     *)
(* rotate.go:53-73).                                                         *)
THEOREM OneAloneIsOneAtATime ==
  ASSUME \A p, q \in Procs : CommandsOf[p] \cap {"rotate", "delete"} # {}
                             /\ CommandsOf[q] \cap {"rotate", "delete"} # {} => p = q
  PROVE  Spec => []OneAtATime
<1>1. Init => TypeInv /\ AskedInv
  <2>1. Init => AskedInv
    BY DEF Init, AskedInv, Asked
  <2> QED BY <2>1, InitType
<1>2. TypeInv /\ AskedInv /\ [Next]_vars => TypeInv' /\ AskedInv'
  <2> SUFFICES ASSUME TypeInv, AskedInv, [Next]_vars PROVE AskedInv'
    BY StepType
  <2>1. CASE DashboardDelete \/ RemoveTorn \/ UNCHANGED vars
    BY <2>1 DEF DashboardDelete, RemoveTorn, vars, world, procVars, AskedInv, Asked
  <2>2. ASSUME NEW p \in Procs, Acts(p) PROVE AskedInv'
    <3>1. ASSUME NEW q \in Procs, q # p PROVE Asked(q)'
      BY <2>2, <3>1, OthersKeep DEF SameLocals, AskedInv, Asked
    <3> QED BY <2>2, <3>1, ActorAsked DEF AskedInv
  <2> QED BY <2>1, <2>2 DEF Next, Acts
<1>3. AskedInv => OneAtATime
  <2>1. ASSUME AskedInv, NEW p \in Procs, OnToken(p) PROVE CommandsOf[p] \cap {"rotate", "delete"} # {}
    BY <2>1 DEF AskedInv, Asked, OnToken
  <2> QED BY <2>1 DEF OneAtATime
<1> QED BY <1>1, <1>2, <1>3, PTL DEF Spec
===============================================================================
