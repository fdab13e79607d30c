----------------------------- MODULE ProfilesProofs -----------------------------
(*****************************************************************************)
(* Proofs about Profiles for any number of commands, any profiles, names and *)
(* accounts, and whichever calls fail.                                       *)
(*****************************************************************************)
EXTENDS Profiles, IndexDataProofs

-------------------------------------------------------------------------------
(* Where a process is tells what it runs and what it has already resolved;   *)
(* the lock is held by whoever is under it, who sees the index as it is.     *)
Underway(p) ==
  /\ pc[p] \in {"inside", "write"} <=> lock = p
  /\ pc[p] = "inside" => mem[p] = index
  /\ pc[p] \in {"verify", "store", "update", "create"} =>
       Is(p, {"login", "add"}) /\ req[p].token # NoToken
  /\ pc[p] \in {"store", "update", "create"} => req[p].token # BadToken
  /\ pc[p] = "create" => req[p].anyApp
  /\ pc[p] \in {"load", "read"} => Is(p, {"apply", "list", "current", "profiles"})
  /\ pc[p] = "scan" => Is(p, {"profiles"})
  /\ pc[p] = "fetch" => Is(p, {"apply"})
  /\ pc[p] \in {"lock", "inside", "write"} => Is(p, {"add", "use", "apply"})
  /\ pc[p] \in {"verify", "store", "update", "create", "fetch", "lock", "inside", "write"} =>
       target[p] \in Profiles
  /\ Is(p, {"add"}) /\ pc[p] \notin {"idle", "failed"} => target[p] = req[p].name
  /\ became[p] => Is(p, {"add"})
PcInv == \A p \in Procs : Underway(p)

(* One step of one process.                                                  *)
Step(p) ==
  \/ SetBootstrap(p)
  \/ /\ \/ Start(p) \/ Verify(p) \/ OpenIndex(p) \/ LoadIndex(p) \/ FetchBootstrap(p)
        \/ ListBootstraps(p) \/ Enter(p) \/ Rewrite(p) \/ NotFound(p) \/ Written(p)
        \/ Stop(p)
     /\ UNCHANGED owners

LEMMA ResolveTyped ==
  ASSUME NEW f \in Profiles \cup {NoProfile}, NEW e \in Profiles \cup {NoProfile},
         NEW c \in Profiles \cup {NoProfile}
  PROVE  ResolveProfile(f, e, c) \in Profiles
BY DefaultIsAProfile DEF ResolveProfile

LEMMA RequestTyped ==
  ASSUME TypeOK, NEW p \in Procs
  PROVE  /\ req[p].cmd \in Commands /\ req[p].name \in Profiles \cup {NoProfile}
         /\ req[p].env \in Profiles \cup {NoProfile} /\ req[p].token \in Bootstraps
         /\ Is(p, {"add", "use"}) => req[p].name \in Profiles
         /\ pc[p] \in PCs /\ mem[p] \in Indexes /\ target[p] \in Profiles \cup {NoProfile}
         /\ lock \in Procs \cup {NoProc} /\ (req[p].anyApp => Is(p, {"login"}))
<1>1. req[p] \in Request /\ (req[p].anyApp => req[p].cmd = "login")
      /\ (req[p].cmd \in {"add", "use"} => req[p].name # NoProfile)
  <2>1. req[p] \in Requests
    BY DEF TypeOK
  <2> QED BY <2>1, InputsAreTyped
<1>2. /\ req[p].cmd \in Commands /\ req[p].name \in Profiles \cup {NoProfile}
      /\ req[p].env \in Profiles \cup {NoProfile} /\ req[p].token \in Bootstraps
  BY <1>1 DEF Request
<1> QED BY <1>1, <1>2 DEF TypeOK, Is

(* One token of a name, as apply records it.                                 *)
LEMMA OneToken ==
  ASSUME NEW n \in Names, NEW id \in Ids
  PROVE  [m \in {n} |-> id] \in Partial(Names, Ids)
<1>1. {n} \in SUBSET Names /\ [m \in {n} |-> id] \in [{n} -> Ids]
  OBVIOUS
<1> QED BY <1>1, Zenon DEF Partial

(* Every callback leaves an index, with the profiles there were and its      *)
(* target; it may move the pointer to its target, and apply may set one      *)
(* token there, its account's.                                               *)
Follows(i, p) ==
  /\ i \in Indexes
  /\ i.current \in {mem[p].current, target[p]}
  /\ mem[p].current # NoProfile => i.current # NoProfile
  /\ Is(p, {"add"}) => i.current # NoProfile
  /\ DOMAIN i.profiles = DOMAIN mem[p].profiles \cup {target[p]}
  /\ \A q : \A n \in DOMAIN All(i, q) :
       \/ n \in DOMAIN All(mem[p], q) /\ All(i, q)[n] = All(mem[p], q)[n]
       \/ q = target[p] /\ Is(p, {"apply"}) /\ All(i, q)[n] = account[p]
LEMMA ChangeDoes ==
  ASSUME NEW p \in Procs, mem[p] \in Indexes, target[p] \in Profiles,
         Is(p, {"add", "use", "apply"}), Is(p, {"apply"}) => account[p] \in Ids,
         NEW i \in Change(p)
  PROVE  Follows(i, p)
<1>0. target[p] # NoProfile
  BY DefaultIsAProfile
<1>1. CASE Is(p, {"add"})
  <2>1. i = AddProfile(mem[p], target[p])
    BY <1>1 DEF Change, Is
  <2>2. /\ i \in Indexes /\ i.current = IF mem[p].current = NoProfile THEN target[p] ELSE mem[p].current
        /\ DOMAIN i.profiles = DOMAIN mem[p].profiles \cup {target[p]}
        /\ \A r : All(i, r) = All(mem[p], r)
    BY <2>1, AddProfileDoes
  <2> QED BY <1>0, <2>2 DEF Follows
<1>2. CASE Is(p, {"use"}) /\ ~Is(p, {"add"})
  <2>1. i = UseProfile(mem[p], target[p])
    BY <1>2 DEF Change, Is
  <2> QED BY <1>0, <1>2, <2>1, UseProfileDoes DEF Follows
<1>3. CASE ~Is(p, {"use"}) /\ ~Is(p, {"add"})
  <2>0. Is(p, {"apply"}) /\ account[p] \in Ids
    BY <1>3 DEF Is
  <2>1. i \in Apply(p, target[p])
    BY <1>3 DEF Change, Is
  <2>2. CASE i = Profile(mem[p], target[p])
    BY <1>3, <2>2, ProfileDoes, ProfileTyped DEF Follows
  <2>3. ASSUME NEW n \in Names, i = Set(mem[p], target[p], [m \in {n} |-> account[p]])
        PROVE  Follows(i, p)
    <3> DEFINE f == [m \in {n} |-> account[p]]
    <3>1. f \in Partial(Names, Ids)
      BY <2>0, OneToken
    <3>2. DOMAIN f = {n} /\ f[n] = account[p] /\ i = Set(mem[p], target[p], f)
      BY <2>3
    <3> HIDE DEF f
    <3>3. /\ i \in Indexes /\ i.current = mem[p].current
          /\ DOMAIN i.profiles = DOMAIN mem[p].profiles \cup {target[p]}
          /\ \A r : r # target[p] => All(i, r) = All(mem[p], r)
          /\ \A k \in DOMAIN All(i, target[p]) :
               \/ k \in DOMAIN f /\ All(i, target[p])[k] = f[k]
               \/ /\ k \in DOMAIN All(mem[p], target[p])
                  /\ All(i, target[p])[k] = All(mem[p], target[p])[k]
      BY <3>1, <3>2, SetDoes
    <3>5. \A q : \A k \in DOMAIN All(i, q) :
            \/ k \in DOMAIN All(mem[p], q) /\ All(i, q)[k] = All(mem[p], q)[k]
            \/ q = target[p] /\ All(i, q)[k] = account[p]
      BY <3>2, <3>3
    <3> QED BY <1>0, <1>3, <2>0, <3>3, <3>5 DEF Follows
  <2> QED BY <2>1, <2>2, <2>3 DEF Apply
<1> QED BY <1>1, <1>2, <1>3

-------------------------------------------------------------------------------
LEMMA InitPc == Init => TypeOK /\ PcInv
<1> SUFFICES ASSUME Init PROVE TypeOK /\ PcInv
  OBVIOUS
<1>1. PICK s \in Starts : bootstrap = s.bootstrap /\ index = s.index
  BY DEF Init
<1>2. bootstrap \in [Profiles -> Accounts \cup {NoToken}] /\ index \in Indexes
  BY <1>1, InputsAreTyped
<1>3. bootstrap \in [Profiles -> Bootstraps] /\ owners \in [Profiles -> SUBSET Accounts]
  BY <1>2 DEF Init, Bootstraps
<1>4. TypeOK
  BY <1>2, <1>3, NewIndexTyped DEF Init, TypeOK, PCs, Bootstraps
<1>5. PcInv
  BY SentinelsAreFresh DEF Init, PcInv, Underway
<1> QED BY <1>4, <1>5

(* The index apply records into: its account is the bootstrap token's.       *)
Paid(p) ==
  pc[p] \in {"lock", "inside", "write"} /\ Is(p, {"apply"}) => account[p] \in Ids

(* What the program holds is typed, the history aside.                       *)
ProgramTyped ==
  /\ bootstrap \in [Profiles -> Bootstraps] /\ index \in Indexes \cup {Unreadable}
  /\ lock \in Procs \cup {NoProc} /\ pc \in [Procs -> PCs] /\ req \in [Procs -> Requests]
  /\ target \in [Procs -> Profiles \cup {NoProfile}]
  /\ stored \in [Procs -> SUBSET Profiles] /\ known \in [Procs -> SUBSET Profiles]
  /\ account \in [Procs -> Bootstraps] /\ mem \in [Procs -> Indexes]
  /\ became \in [Procs -> BOOLEAN] /\ owners \in [Profiles -> SUBSET Accounts]

(* What a load may return, and what a command makes of it.                   *)
LEMMA LoadableTyped ==
  ASSUME TypeOK, NEW p \in Procs
  PROVE  Loadable(p) \subseteq Indexes \cup {Unreadable}
<1>1. ASSUME NEW c \in pointers[p], NEW f \in Pieces
      PROVE  [current |-> c, profiles |-> f] \in Indexes
  <2>1. c \in Profiles \cup {NoProfile} /\ f \in Partial(Profiles, Partial(Names, Ids))
    BY InputsAreTyped DEF TypeOK
  <2> QED BY <2>1 DEF Indexes
<1>2. Mixed(p) \subseteq Indexes
  BY <1>1 DEF Mixed
<1> QED BY <1>2, NewIndexTyped DEF Loadable, TypeOK

LEMMA LoadDoes ==
  ASSUME TypeOK, NEW p \in Procs, LoadIndex(p)
  PROVE  /\ mem' \in [Procs -> Indexes] /\ target' \in [Procs -> Profiles \cup {NoProfile}]
         /\ \A q \in Procs \ {p} :
              pc'[q] = pc[q] /\ mem'[q] = mem[q] /\ target'[q] = target[q] /\ known'[q] = known[q]
         /\ pc' = [pc EXCEPT ![p] = pc'[p]] /\ pc[p] = "read"
         /\ pc'[p] = "failed" \/ (pc'[p] = AfterLoad(p) /\ target'[p] \in Profiles)
         /\ \/ mem' = mem /\ (Is(p, {"list", "profiles"}) => pc'[p] = "failed")
            \/ Is(p, {"list", "profiles"}) /\ mem'[p] \in Loadable(p) \ {Unreadable}
         /\ known'[p] = HasBootstrap \cup (IF calm[p] THEN Indexed(index) ELSE {})
         /\ UNCHANGED <<bootstrap, index, lock, req, account, became, stored>>
<1> USE DEF TypeOK
<1>1. PICK i \in Loadable(p) :
     IF i = Unreadable
     THEN Goto(p, "failed") /\ UNCHANGED <<target, mem>>
     ELSE /\ Goto(p, AfterLoad(p))
          /\ target' = [target EXCEPT ![p] = Selected(p, i)]
          /\ mem' = [mem EXCEPT ![p] = IF Is(p, {"list", "profiles"}) THEN i ELSE @]
  BY DEF LoadIndex
<1>2. i \in Indexes \cup {Unreadable}
  BY LoadableTyped
<1>3. i \in Indexes => Selected(p, i) \in Profiles
  <2>1. i \in Indexes => i.current \in Profiles \cup {NoProfile}
    BY IndexFields
  <2> QED BY <2>1, RequestTyped, ResolveTyped DEF Selected
<1>4. /\ known' = [known EXCEPT ![p] =
           HasBootstrap \cup (IF calm[p] THEN Indexed(index) ELSE {})]
      /\ pc[p] = "read" /\ UNCHANGED <<bootstrap, index, lock, req, account, became, stored>>
  BY DEF LoadIndex, stores
<1>5. CASE i = Unreadable
  BY <1>1, <1>4, <1>5 DEF Goto
<1>6. CASE i # Unreadable
  <2>1. /\ pc' = [pc EXCEPT ![p] = AfterLoad(p)]
        /\ target' = [target EXCEPT ![p] = Selected(p, i)]
        /\ mem' = [mem EXCEPT ![p] = IF Is(p, {"list", "profiles"}) THEN i ELSE @]
    BY <1>1, <1>6 DEF Goto
  <2>2. i \in Indexes /\ Selected(p, i) \in Profiles
    BY <1>2, <1>3, <1>6
  <2>3. CASE Is(p, {"list", "profiles"})
    BY <1>4, <1>6, <2>1, <2>2, <2>3
  <2>4. CASE ~Is(p, {"list", "profiles"})
    <3>1. mem' = mem
      BY <2>1, <2>4
    <3> QED BY <1>4, <2>1, <2>2, <2>4, <3>1
  <2> QED BY <2>3, <2>4
<1> QED BY <1>5, <1>6

LEMMA WatchTyped ==
  ASSUME TypeOK, Watch, index' \in Indexes \cup {Unreadable}
  PROVE  /\ calm' \in [Procs -> BOOLEAN]
         /\ pointers' \in [Procs -> SUBSET (Profiles \cup {NoProfile})]
<1>1. index' # Unreadable => index'.current \in Profiles \cup {NoProfile}
  BY IndexFields
<1>2. ASSUME NEW p \in Procs
      PROVE  (IF pc'[p] # "read" THEN {}
              ELSE pointers[p] \cup (IF index' = Unreadable THEN {} ELSE {index'.current}))
               \in SUBSET (Profiles \cup {NoProfile})
  BY <1>1 DEF TypeOK
<1>3. ASSUME NEW p \in Procs
      PROVE  (CASE pc'[p] = "read" -> calm[p] /\ ~Rewriting'
                [] pc'[p] = "inside" -> TRUE
                [] OTHER -> calm[p]) \in BOOLEAN
  BY DEF TypeOK
<1> QED BY <1>2, <1>3 DEF Watch

LEMMA TypeStep ==
  ASSUME TypeOK, PcInv, NEW p \in Procs, Paid(p), Step(p), Watch
  PROVE  TypeOK'
<1> SUFFICES ProgramTyped'
  BY WatchTyped DEF ProgramTyped, TypeOK
<1>0. /\ req[p].token \in Bootstraps /\ mem[p] \in Indexes /\ Underway(p)
      /\ lock \in Procs \cup {NoProc} /\ index \in Indexes \cup {Unreadable}
  BY RequestTyped DEF PcInv, TypeOK
<1>1. CASE SetBootstrap(p)
  <2>1. /\ target[p] \in Profiles /\ Put(p) =>
             bootstrap' \in [Profiles -> Bootstraps] /\ owners' \in [Profiles -> SUBSET Accounts]
        /\ Put(p) => pc' \in [Procs -> PCs]
    BY <1>0 DEF Put, TypeOK, Goto, PCs, Ended
  <2>2. bootstrap' \in [Profiles -> Bootstraps] /\ owners' \in [Profiles -> SUBSET Accounts]
    BY <1>0, <1>1, <2>1 DEF SetBootstrap, AddBootstrap, UpdateBootstrap, ClearBootstrap,
       CreateBootstrap, Keep, Underway, TypeOK, Bootstraps
  <2>3. pc' \in [Procs -> PCs]
    BY <1>1, <2>1 DEF SetBootstrap, AddBootstrap, UpdateBootstrap, ClearBootstrap, CreateBootstrap,
       Keep, Goto, TypeOK, PCs, Ended
  <2>4. UNCHANGED <<index, lock, locals>>
    BY <1>1 DEF SetBootstrap, AddBootstrap, UpdateBootstrap, ClearBootstrap, CreateBootstrap
  <2> QED BY <2>2, <2>3, <2>4 DEF TypeOK, ProgramTyped, locals
<1>2. CASE Start(p) /\ UNCHANGED owners
  <2>1. target' \in [Procs -> Profiles \cup {NoProfile}]
    <3>1. ResolveProfile(req[p].name, req[p].env, NoProfile) \in Profiles
      BY RequestTyped, ResolveTyped
    <3> QED BY <1>2, <3>1, RequestTyped DEF TypeOK, Start, Is
  <2>2. pc' \in [Procs -> PCs]
    BY <1>2 DEF TypeOK, Start, Goto, PCs, Ended
  <2> QED BY <1>2, <2>1, <2>2 DEF TypeOK, ProgramTyped, Start, stores
<1>3. CASE (Verify(p) \/ OpenIndex(p)) /\ UNCHANGED owners
  BY <1>3 DEF TypeOK, ProgramTyped, Verify, OpenIndex, Goto, PCs, Ended, stores, locals
<1>4. CASE LoadIndex(p) /\ UNCHANGED owners
  <2>1. known' \in [Procs -> SUBSET Profiles]
    <3>1. index \in Indexes => DOMAIN index.profiles \subseteq Profiles
      BY IndexFields, PartialFunctions
    <3>2. HasBootstrap \cup (IF calm[p] THEN Indexed(index) ELSE {}) \subseteq Profiles
      BY <1>0, <3>1 DEF HasBootstrap, Indexed
    <3> QED BY <1>4, <3>2 DEF TypeOK, LoadIndex
  <2>2. pc' \in [Procs -> PCs]
    BY <1>4, LoadDoes DEF AfterLoad, PCs, Ended, TypeOK
  <2> QED BY <1>4, <2>1, <2>2, LoadDoes DEF TypeOK, ProgramTyped
<1>5. CASE FetchBootstrap(p) /\ UNCHANGED owners
  BY <1>0, <1>5 DEF TypeOK, ProgramTyped, FetchBootstrap, Goto, PCs, Ended, stores, Underway
<1>6. CASE ListBootstraps(p) /\ UNCHANGED owners
  BY <1>6 DEF TypeOK, ProgramTyped, ListBootstraps, Goto, PCs, Ended, stores, HasBootstrap
<1>7. CASE Enter(p) /\ UNCHANGED owners
  BY <1>0, <1>7 DEF TypeOK, ProgramTyped, Enter, Exit, Goto, PCs, Ended, stores
<1>8. CASE Rewrite(p) /\ UNCHANGED owners
  <2>1. index' \in Indexes
    <3>1. Is(p, {"add", "use", "apply"}) /\ target[p] \in Profiles
          /\ (Is(p, {"apply"}) => account[p] \in Ids)
      BY <1>0, <1>8 DEF Rewrite, Underway, Paid
    <3> QED BY <1>0, <1>8, <3>1, ChangeDoes DEF Rewrite, Follows
  <2> QED BY <1>8, <2>1 DEF TypeOK, ProgramTyped, Rewrite, Goto, PCs, Ended
<1>9. CASE (NotFound(p) \/ Written(p)) /\ UNCHANGED owners
  BY <1>0, <1>9 DEF TypeOK, ProgramTyped, NotFound, Written, Exit, Goto, PCs, Ended, stores, locals
<1>10. CASE Stop(p) /\ UNCHANGED owners
  <2>1. index' \in Indexes \cup {Unreadable}
    BY <1>0, <1>10, NewIndexTyped DEF Stop
  <2> QED BY <1>0, <1>10, <2>1 DEF TypeOK, ProgramTyped, Stop, Exit, Goto, PCs, Ended, locals
<1> QED BY <1>1, <1>2, <1>3, <1>4, <1>5, <1>6, <1>7, <1>8, <1>9, <1>10 DEF Step

(* The commands keep what they were asked; a step on the Keychain leaves     *)
(* everything else alone.                                                    *)
LEMMA ReqStays ==
  ASSUME NEW p \in Procs, Step(p)
  PROVE  req' = req
BY DEF Step, SetBootstrap, AddBootstrap, UpdateBootstrap, ClearBootstrap, CreateBootstrap, Start,
   Verify, OpenIndex, LoadIndex, FetchBootstrap, ListBootstraps, Enter, Rewrite, NotFound, Written,
   Stop, locals

LEMMA SetDoesOnly ==
  ASSUME NEW p \in Procs, SetBootstrap(p)
  PROVE  UNCHANGED <<index, lock, req, target, account, mem, became, stored, known>>
BY DEF SetBootstrap, AddBootstrap, UpdateBootstrap, ClearBootstrap, CreateBootstrap, locals

LEMMA SetMoves ==
  ASSUME TypeOK, NEW p \in Procs, SetBootstrap(p)
  PROVE  /\ \E s \in {"update", "create", "halfway", "failed", "ok", "lock"} :
              /\ pc' = [pc EXCEPT ![p] = s]
              /\ s = "ok" => Is(p, {"login"})
              /\ s = "lock" => ~Is(p, {"login"})
              /\ s = "create" => pc[p] = "store" /\ req[p].anyApp
              /\ s = "update" => pc[p] = "store"
         /\ pc[p] \in {"store", "update", "create"}
BY DEF SetBootstrap, AddBootstrap, UpdateBootstrap, ClearBootstrap, CreateBootstrap, Put, Keep, Goto

(* What a step of one process does to another: nothing but to the stores and *)
(* the lock, and the index only under the lock.                              *)
LEMMA OthersStay ==
  ASSUME TypeOK, NEW p \in Procs, Step(p), NEW q \in Procs, q # p
  PROVE  /\ pc'[q] = pc[q] /\ target'[q] = target[q]
         /\ account'[q] = account[q] /\ mem'[q] = mem[q] /\ became'[q] = became[q]
         /\ stored'[q] = stored[q] /\ known'[q] = known[q]
<1>1. CASE SetBootstrap(p)
  BY <1>1, SetDoesOnly, SetMoves DEF TypeOK
<1>4. CASE LoadIndex(p)
  BY <1>4, LoadDoes
<1> USE DEF TypeOK
<1>2. CASE Start(p)
  BY <1>2 DEF Start, Goto
<1>3. CASE Verify(p) \/ OpenIndex(p)
  BY <1>3 DEF Verify, OpenIndex, Goto, locals
<1>5. CASE FetchBootstrap(p) \/ ListBootstraps(p)
  BY <1>5 DEF FetchBootstrap, ListBootstraps, Goto
<1>6. CASE Enter(p) \/ Rewrite(p)
  BY <1>6 DEF Enter, Rewrite, Exit, Goto
<1>7. CASE NotFound(p) \/ Written(p) \/ Stop(p)
  BY <1>7 DEF NotFound, Written, Stop, Exit, Goto, locals
<1> QED BY <1>1, <1>2, <1>3, <1>4, <1>5, <1>6, <1>7 DEF Step

LEMMA LockStays ==
  ASSUME TypeOK, PcInv, NEW p \in Procs, Step(p)
  PROVE  /\ lock' = lock \/ (lock = NoProc /\ lock' = p) \/ (lock = p /\ lock' = NoProc)
         /\ index' # index => lock = p
<1>1. CASE SetBootstrap(p)
  BY <1>1, SetDoesOnly
<1>2. CASE LoadIndex(p)
  BY <1>2, LoadDoes
<1> USE DEF PcInv, Underway
<1>3. CASE Start(p) \/ Verify(p) \/ OpenIndex(p) \/ FetchBootstrap(p) \/ ListBootstraps(p)
  BY <1>3 DEF Start, Verify, OpenIndex, FetchBootstrap, ListBootstraps, stores
<1>4. CASE Enter(p) \/ NotFound(p) \/ Written(p)
  BY <1>4 DEF Enter, NotFound, Written, Exit, stores
<1>5. CASE Rewrite(p)
  BY <1>5 DEF Rewrite
<1>6. CASE Stop(p)
  BY <1>6 DEF Stop, Exit
<1> QED BY <1>1, <1>2, <1>3, <1>4, <1>5, <1>6 DEF Step

LEMMA PcStep ==
  ASSUME TypeOK, PcInv, NEW p \in Procs, Step(p)
  PROVE  PcInv'
<1>0. req' = req
  BY ReqStays
<1>1. \A q \in Procs \ {p} : Underway(q)'
  <2> SUFFICES ASSUME NEW q \in Procs, q # p PROVE Underway(q)'
    OBVIOUS
  <2>1. Underway(q) /\ Underway(p)
    BY DEF PcInv
  <2>2. /\ pc'[q] = pc[q] /\ target'[q] = target[q] /\ mem'[q] = mem[q]
        /\ became'[q] = became[q]
    BY OthersStay
  <2>3. lock' = q <=> lock = q
    BY LockStays, SentinelsAreFresh
  <2>4. pc[q] = "inside" => index' = index
    BY <2>1, LockStays DEF Underway
  <2> QED BY <1>0, <2>1, <2>2, <2>3, <2>4 DEF Underway, Is
<1>2. Underway(p)'
  <2>0. /\ Underway(p) /\ lock \in Procs \cup {NoProc} /\ pc \in [Procs -> PCs]
        /\ target \in [Procs -> Profiles \cup {NoProfile}] /\ mem \in [Procs -> Indexes]
        /\ req[p].cmd \in Commands /\ p # NoProc /\ became \in [Procs -> BOOLEAN]
    BY RequestTyped, SentinelsAreFresh DEF PcInv, TypeOK
  <2> USE DEF Underway, Is, Goto
  <2>1. CASE SetBootstrap(p)
    <3>1. UNCHANGED <<lock, index, mem, target, became>>
      BY <2>1, SetDoesOnly
    <3> QED BY <1>0, <2>0, <2>1, <3>1, SetMoves
  <2>2. CASE Start(p)
    <3>1. ResolveProfile(req[p].name, req[p].env, NoProfile) \in Profiles
      BY RequestTyped, ResolveTyped
    <3>2. Is(p, {"add", "use"}) => req[p].name \in Profiles
      BY RequestTyped
    <3> QED BY <2>0, <2>2, <3>1, <3>2 DEF Start
  <2>3. CASE Verify(p) \/ OpenIndex(p)
    BY <2>0, <2>3 DEF Verify, OpenIndex, locals
  <2>4. CASE LoadIndex(p)
    BY <1>0, <2>0, <2>4, LoadDoes DEF AfterLoad
  <2>5. CASE FetchBootstrap(p)
    BY <2>0, <2>5 DEF FetchBootstrap
  <2>6. CASE ListBootstraps(p)
    BY <2>0, <2>6 DEF ListBootstraps
  <2>7. CASE Enter(p)
    BY <2>0, <2>7 DEF Enter, Exit, stores
  <2>8. CASE Rewrite(p)
    BY <2>0, <2>8 DEF Rewrite
  <2>9. CASE NotFound(p)
    BY <2>0, <2>9 DEF NotFound, Exit, locals
  <2>10. CASE Written(p)
    BY <2>0, <2>10 DEF Written, Exit, locals
  <2>11. CASE Stop(p)
    <3>1. /\ pc'[p] \in {"failed", "halfway", "torn"} /\ lock' # p
          /\ target' = target /\ became' = became /\ pc[p] \notin Ended
          /\ pc'[p] = "torn" => pc[p] = "write"
          /\ pc'[p] = "halfway" => pc[p] = "create"
      BY <2>0, <2>11 DEF Stop, Exit, locals
    <3> QED BY <1>0, <2>0, <3>1
  <2> QED
    BY <2>1, <2>2, <2>3, <2>4, <2>5, <2>6, <2>7, <2>8, <2>9, <2>10, <2>11 DEF Step
<1> QED BY <1>1, <1>2 DEF PcInv

-------------------------------------------------------------------------------
(* An index is sound if its pointer names one of its profiles and the tokens *)
(* of a profile belong to an account whose bootstrap token it was given.     *)
Sound(i) == (i.current # NoProfile => HasProfile(i, i.current)) /\ Owned(i)

(* The profile that was given a token has one, unless its item was deleted   *)
(* to be made anew; the token it has is one that it was given.               *)
Given ==
  \A q \in Profiles :
    /\ owners[q] # {} => q \in HasBootstrap \cup Cleared
    /\ bootstrap[q] \in Accounts => bootstrap[q] \in owners[q]

(* The client of an apply is of an account of its profile.                   *)
Client(p) ==
  pc[p] \in {"lock", "inside", "write"} /\ Is(p, {"apply"}) =>
    account[p] \in Ids /\ account[p] \in owners[target[p]]

(* Every index at hand is sound, but for one in pieces.                      *)
DataInv ==
  /\ StoredWasVerified /\ Given
  /\ index # Unreadable => Sound(index)
  /\ \A p \in Procs : (calm[p] => Sound(mem[p])) /\ Client(p)
Inv == TypeOK /\ PcInv /\ DataInv

LEMMA NewIndexSound == Sound(NewIndex)
BY DEF Sound, Owned, NewIndex, All, HasProfile, NoTokens

LEMMA InitInv == Init => Inv
<1> SUFFICES ASSUME Init PROVE DataInv
  BY InitPc DEF Inv
<1>1. PICK s \in Starts : bootstrap = s.bootstrap /\ index = s.index
  BY DEF Init
<1>2. bootstrap \in [Profiles -> Ids \cup {NoToken}] /\ index \in Indexes
  BY <1>1, InputsAreTyped DEF Accounts
<1>3. \A q \in Profiles : \A n \in DOMAIN All(index, q) : All(index, q)[n] \in Ids
  BY <1>2, AllTyped, PartialFunctions
<1>4. Sound(index)
  <2>1. \A q \in Profiles : owners[q] = {bootstrap[q]} \ {NoToken}
    BY DEF Init
  <2>2. \A q \in Profiles : \A n \in DOMAIN All(index, q) : All(index, q)[n] = bootstrap[q]
    BY <1>1, StartsAreSound
  <2>3. index.current # NoProfile => HasProfile(index, index.current)
    BY <1>1, StartsAreSound
  <2> QED BY <1>3, <2>1, <2>2, <2>3, SentinelsAreFresh DEF Sound, Owned
<1>5. StoredWasVerified
  BY <1>2, SentinelsAreFresh DEF Init, StoredWasVerified
<1>6. Given
  BY <1>2, SentinelsAreFresh DEF Init, Given, HasBootstrap, Accounts
<1>7. \A p \in Procs : mem[p] = NewIndex /\ pc[p] = "idle"
  BY DEF Init
<1> QED BY <1>4, <1>5, <1>6, <1>7, NewIndexSound DEF DataInv, Client

(* Who has deleted an item to make it anew has not made it yet, or never     *)
(* will; who may have done so stays among those.                             *)
LEMMA AnyAppStays ==
  ASSUME Inv, NEW p \in Procs, Step(p)
  PROVE  /\ Relaxed \subseteq Relaxed' /\ Cleared' \subseteq Relaxed'
         /\ Cleared \subseteq Cleared' \cup {target[p]}
         /\ ~(pc[p] = "create" /\ pc'[p] = "ok") => Cleared \subseteq Cleared'
<1>1. req' = req
  BY ReqStays
<1>2. ASSUME NEW r \in Procs, pc[r] \in {"create", "halfway", "ok"}
      PROVE  /\ target'[r] = target[r] /\ pc'[r] \in {"create", "halfway", "ok"}
             /\ pc[r] = "halfway" => pc'[r] = "halfway"
             /\ pc[r] = "create" => pc'[r] \in {"create", "halfway"}
                                    \/ (r = p /\ pc'[r] = "ok") \/ ~req[r].anyApp
  <2>1. CASE r # p
    BY <1>2, <2>1, OthersStay DEF Inv
  <2>2. CASE r = p
    <3>1. CASE SetBootstrap(p)
      <4>1. pc[p] = "create" /\ target' = target
        BY <1>2, <2>2, <3>1, SetDoesOnly, SetMoves DEF Inv
      <4>2. pc'[p] \in {"halfway", "ok", "lock"} /\ (pc'[p] = "lock" => ~Is(p, {"login"}))
        BY <3>1, <4>1 DEF SetBootstrap, AddBootstrap, UpdateBootstrap, ClearBootstrap,
           CreateBootstrap, Put, Keep, Goto, Inv, TypeOK
      <4>3. Is(p, {"login"})
        BY <4>1, RequestTyped DEF Inv, PcInv, Underway
      <4> QED BY <2>2, <4>1, <4>2, <4>3
    <3>2. CASE Stop(p)
      BY <1>2, <2>2, <3>2 DEF Stop, Ended, Exit, Goto, Inv, TypeOK, locals
    <3>3. CASE ~SetBootstrap(p) /\ ~Stop(p)
      BY <1>2, <2>2, <3>3 DEF Step, Start, Verify, OpenIndex, LoadIndex, FetchBootstrap,
         ListBootstraps, Enter, Rewrite, NotFound, Written
    <3> QED BY <3>1, <3>2, <3>3
  <2> QED BY <2>1, <2>2
<1>3. Relaxed \subseteq Relaxed'
  BY <1>1, <1>2 DEF Relaxed, AnyApp
<1>4. Cleared' \subseteq Relaxed'
  BY DEF Relaxed, Cleared, AnyApp
<1>5. Cleared \subseteq Cleared' \cup {target[p]}
  BY <1>1, <1>2 DEF Cleared, AnyApp
<1>6. ~(pc[p] = "create" /\ pc'[p] = "ok") => Cleared \subseteq Cleared'
  BY <1>1, <1>2 DEF Cleared, AnyApp
<1> QED BY <1>3, <1>4, <1>5, <1>6

(* Bootstrap tokens come and are replaced; one is removed only to be made    *)
(* anew.                                                                     *)
LEMMA StoredStays ==
  ASSUME Inv, NEW p \in Procs, Step(p)
  PROVE  /\ HasBootstrap \cup Cleared \subseteq HasBootstrap' \cup Cleared'
         /\ HasBootstrap \subseteq HasBootstrap' \cup Relaxed'
         /\ \A q \in Profiles : owners[q] \subseteq owners'[q] /\ bootstrap'[q] # BadToken
         /\ Given'
<1> USE DEF Inv, TypeOK
<1>0. \A q \in Profiles : bootstrap[q] # BadToken
  BY DEF DataInv, StoredWasVerified
<1>1. CASE SetBootstrap(p) /\ Put(p)
  <2>1. /\ req[p].token \in Bootstraps \ {NoToken, BadToken} /\ target[p] \in Profiles
        /\ pc[p] \in {"store", "update", "create"}
    BY <1>1, SetMoves, RequestTyped DEF PcInv, Underway
  <2>2. /\ bootstrap' = [bootstrap EXCEPT ![target[p]] = req[p].token]
        /\ owners' = [owners EXCEPT ![target[p]] = @ \cup ({req[p].token} \cap Accounts)]
    BY <1>1 DEF Put
  <2>3. HasBootstrap' = HasBootstrap \cup {target[p]}
    BY <2>1, <2>2 DEF HasBootstrap
  <2>4. HasBootstrap \cup Cleared \subseteq HasBootstrap' \cup Cleared'
    BY <2>3, AnyAppStays
  <2>5. \A q \in Profiles : owners[q] \subseteq owners'[q] /\ bootstrap'[q] # BadToken
    BY <1>0, <2>1, <2>2
  <2>6. Given'
    <3> SUFFICES ASSUME NEW q \in Profiles
                 PROVE  /\ owners'[q] # {} => q \in HasBootstrap' \cup Cleared'
                        /\ bootstrap'[q] \in Accounts => bootstrap'[q] \in owners'[q]
      BY DEF Given
    <3>1. CASE q = target[p]
      BY <2>1, <2>2, <2>3, <3>1
    <3>2. CASE q # target[p]
      BY <2>1, <2>2, <2>4, <3>2 DEF DataInv, Given
    <3> QED BY <3>1, <3>2
  <2> QED BY <2>3, <2>4, <2>5, <2>6
<1>2. CASE ClearBootstrap(p)
  <2>1. /\ target[p] \in Profiles /\ pc'[p] = "create" /\ req[p].anyApp
        /\ req' = req /\ target' = target /\ owners' = owners
        /\ bootstrap' = [bootstrap EXCEPT ![target[p]] = NoToken]
    BY <1>2 DEF ClearBootstrap, PcInv, Underway, Goto, locals
  <2>2. target[p] \in Cleared'
    BY <2>1 DEF Cleared, AnyApp
  <2>3. HasBootstrap \subseteq HasBootstrap' \cup {target[p]}
    BY <2>1 DEF HasBootstrap
  <2>4. HasBootstrap \cup Cleared \subseteq HasBootstrap' \cup Cleared'
    BY <2>2, <2>3, AnyAppStays
  <2>5. Given'
    BY <2>1, <2>4, SentinelsAreFresh DEF DataInv, Given, Accounts
  <2>6. \A q \in Profiles : bootstrap'[q] # BadToken
    BY <1>0, <2>1, SentinelsAreFresh
  <2> QED BY <2>1, <2>2, <2>3, <2>4, <2>5, <2>6, AnyAppStays
<1>3. CASE ~(SetBootstrap(p) /\ Put(p)) /\ ~ClearBootstrap(p)
  <2>1. bootstrap' = bootstrap /\ owners' = owners
    BY <1>3 DEF Step, SetBootstrap, AddBootstrap, UpdateBootstrap, CreateBootstrap, Keep, Start,
       Verify, OpenIndex, LoadIndex, FetchBootstrap, ListBootstraps, Enter, Rewrite, NotFound,
       Written, Stop, stores
  <2>2. ~(pc[p] = "create" /\ pc'[p] = "ok")
    <3>1. CASE SetBootstrap(p)
      BY <1>3, <3>1 DEF SetBootstrap, AddBootstrap, UpdateBootstrap, CreateBootstrap, Keep, Goto
    <3>2. CASE ~SetBootstrap(p)
      BY <3>2 DEF Step, Start, Verify, OpenIndex, LoadIndex, FetchBootstrap, ListBootstraps, Enter,
         Rewrite, NotFound, Written, Stop, Exit, Goto
    <3> QED BY <3>1, <3>2
  <2>3. HasBootstrap' = HasBootstrap /\ Cleared \subseteq Cleared'
    BY <2>1, <2>2, AnyAppStays DEF HasBootstrap
  <2> QED BY <1>0, <2>1, <2>3 DEF DataInv, Given
<1> QED BY <1>1, <1>2, <1>3

(* So an index that is sound stays it.                                       *)
LEMMA SoundStays ==
  ASSUME Inv, NEW p \in Procs, Step(p), NEW i, Sound(i)
  PROVE  Sound(i)'
BY StoredStays DEF Sound, Owned

(* What a step makes of the index a process has decoded: a load that met no  *)
(* rewrite returns the index as it is, and so does what is under the lock.   *)
LEMMA MemStep ==
  ASSUME Inv, NEW p \in Procs, Step(p), Watch, NEW q \in Procs, calm'[q]
  PROVE  \/ calm[q] /\ mem'[q] = mem[q]
         \/ mem'[q] = index /\ index # Unreadable /\ index' = index
<1>0. /\ mem \in [Procs -> Indexes] /\ index \in Indexes \cup {Unreadable} /\ Underway(q)
      /\ pc \in [Procs -> PCs]
  BY DEF Inv, TypeOK, PcInv
<1>1. pc'[q] # "inside" => calm[q]
  BY DEF Watch
<1>2. CASE mem'[q] = mem[q] /\ pc'[q] # "inside"
  BY <1>1, <1>2
<1>3. CASE pc'[q] = "inside" /\ pc[q] = "inside"
  <2>1. q # p
    <3>1. CASE SetBootstrap(p)
      BY <1>3, <3>1, SetMoves DEF Inv
    <3>2. CASE ~SetBootstrap(p)
      BY <1>0, <1>3, <3>2 DEF Step, Start, Verify, OpenIndex, LoadIndex, FetchBootstrap,
         ListBootstraps, Enter, Rewrite, NotFound, Written, Stop, Exit, Goto
    <3> QED BY <3>1, <3>2
  <2>2. lock = q /\ mem[q] = index /\ mem'[q] = mem[q]
    BY <1>0, <1>3, <2>1, OthersStay DEF Underway, Inv
  <2>3. index' = index /\ index # Unreadable
    BY <1>0, <2>1, <2>2, LockStays, UnreadableIsNoIndex DEF Inv
  <2> QED BY <2>2, <2>3
<1>4. CASE pc'[q] = "inside" /\ pc[q] # "inside"
  <2>1. q = p
    BY <1>4, OthersStay DEF Inv
  <2>2. Enter(p)
    <3>1. ~SetBootstrap(p)
      BY <1>0, <1>4, <2>1, SetMoves DEF Inv
    <3>2. ~LoadIndex(p)
      BY <1>4, <2>1, LoadDoes DEF Inv, AfterLoad
    <3> QED BY <1>0, <1>4, <2>1, <3>1, <3>2 DEF Step, Start, Verify, OpenIndex, FetchBootstrap,
           ListBootstraps, Rewrite, NotFound, Written, Stop, Exit, Goto
  <2> QED BY <1>0, <1>4, <2>1, <2>2 DEF Enter, Exit, Goto, stores
<1>5. CASE mem'[q] # mem[q] /\ pc'[q] # "inside"
  <2>1. q = p
    BY <1>5, OthersStay DEF Inv
  <2>2. LoadIndex(p)
    <3>1. ~SetBootstrap(p)
      BY <1>5, <2>1, SetDoesOnly
    <3>2. ~Enter(p)
      BY <1>0, <1>5, <2>1 DEF Enter, Exit, Goto
    <3> QED BY <1>5, <2>1, <3>1, <3>2 DEF Step, Start, Verify, OpenIndex, FetchBootstrap,
           ListBootstraps, Rewrite, NotFound, Written, Stop, locals
  <2>3. mem'[p] \in Loadable(p) \ {Unreadable} /\ index' = index
    BY <1>5, <2>1, <2>2, LoadDoes DEF Inv
  <2> QED BY <1>1, <1>5, <2>1, <2>3 DEF Loadable
<1> QED BY <1>2, <1>3, <1>4, <1>5

LEMMA SoundMem ==
  ASSUME Inv, NEW p \in Procs, Step(p), Watch, NEW q \in Procs, calm'[q]
  PROVE  Sound(mem[q])'
<1>1. PICK i : i = mem'[q]
  OBVIOUS
<1>2. Sound(i)
  BY <1>1, MemStep DEF Inv, DataInv
<1>3. Sound(i)'
  BY <1>2, SoundStays
<1> QED BY <1>1, <1>3 DEF Sound, Owned

(* The callback of p is applied to the index as it is.                       *)
LEMMA RewriteFollows ==
  ASSUME Inv, NEW p \in Procs, Rewrite(p)
  PROVE  Follows(index', p) /\ mem[p] = index /\ target[p] \in Profiles
         /\ (Is(p, {"add"}) => target[p] = req[p].name)
<1>1. /\ Is(p, {"add", "use", "apply"}) /\ target[p] \in Profiles /\ mem[p] \in Indexes
      /\ mem[p] = index /\ (Is(p, {"add"}) => target[p] = req[p].name)
  BY DEF Rewrite, Inv, PcInv, Underway, TypeOK
<1>2. Is(p, {"apply"}) => account[p] \in Ids
  BY DEF Rewrite, Inv, DataInv, Client
<1>3. PICK i \in Change(p) : i = index'
  BY DEF Rewrite
<1> QED BY <1>1, <1>2, <1>3, ChangeDoes

LEMMA SoundIndex ==
  ASSUME Inv, NEW p \in Procs, Step(p), index' # Unreadable
  PROVE  Sound(index)'
<1>0. index # Unreadable => Sound(index)
  BY DEF Inv, DataInv
<1>1. PICK i : i = index'
  OBVIOUS
<1>2. CASE Rewrite(p)
  <2>1. Follows(i, p) /\ mem[p] = index
    BY <1>1, <1>2, RewriteFollows
  <2>2. index # Unreadable
    BY <2>1, UnreadableIsNoIndex DEF Inv, TypeOK
  <2>3. Is(p, {"apply"}) => account[p] \in owners[target[p]]
    BY <1>2 DEF Rewrite, Inv, DataInv, Client
  <2>4. i.current # NoProfile => HasProfile(i, i.current)
    BY <1>0, <2>1, <2>2 DEF Follows, Sound, HasProfile
  <2>5. Owned(i)
    BY <1>0, <2>1, <2>2, <2>3 DEF Follows, Sound, Owned
  <2> QED BY <1>1, <2>4, <2>5, SoundStays DEF Sound, Owned
<1>3. CASE ~Rewrite(p)
  <2>1. i \in {index, NewIndex}
    <3>1. CASE SetBootstrap(p)
      BY <1>1, <3>1, SetDoesOnly
    <3>2. CASE ~SetBootstrap(p)
      BY <1>1, <1>3, <3>2 DEF Step, Start, Verify, OpenIndex, LoadIndex, FetchBootstrap,
         ListBootstraps, Enter, NotFound, Written, Stop, stores
    <3> QED BY <3>1, <3>2
  <2>2. Sound(i)
    BY <1>0, <1>1, <2>1, NewIndexSound
  <2>3. Sound(i)'
    BY <2>2, SoundStays
  <2> QED BY <1>1, <2>3 DEF Sound, Owned
<1> QED BY <1>2, <1>3

LEMMA ClientStep ==
  ASSUME Inv, NEW p \in Procs, Step(p), NEW q \in Procs
  PROVE  Client(q)' /\ account'[q] # BadToken
<1>0. Client(q) /\ account[q] # BadToken /\ req' = req /\ Underway(q)
  BY ReqStays DEF Inv, DataInv, StoredWasVerified, PcInv
<1>1. ASSUME account'[q] = account[q], target'[q] = target[q],
             pc'[q] \in {"lock", "inside", "write"} /\ Is(q, {"apply"}) =>
               pc[q] \in {"lock", "inside", "write"}
      PROVE  Client(q)' /\ account'[q] # BadToken
  <2>1. CASE pc'[q] \in {"lock", "inside", "write"} /\ Is(q, {"apply"})
    <3>1. account[q] \in Ids /\ account[q] \in owners[target[q]] /\ target[q] \in Profiles
      BY <1>0, <1>1, <2>1 DEF Client, Underway
    <3> QED BY <1>0, <1>1, <3>1, StoredStays DEF Client
  <2>2. CASE ~(pc'[q] \in {"lock", "inside", "write"} /\ Is(q, {"apply"}))
    BY <1>0, <1>1, <2>2 DEF Client, Is
  <2> QED BY <2>1, <2>2
<1>2. CASE q # p
  BY <1>1, <1>2, OthersStay DEF Inv
<1>3. CASE q = p
  <2>1. CASE FetchBootstrap(p)
    <3>1. target[p] \in Profiles /\ bootstrap[target[p]] \in Bootstraps \ {BadToken}
      BY <1>0, <1>3, <2>1 DEF FetchBootstrap, Underway, Inv, TypeOK, DataInv, StoredWasVerified
    <3>2. account'[p] = bootstrap[target[p]] /\ owners' = owners /\ target' = target
          /\ (pc'[p] = "lock" => bootstrap[target[p]] \in Accounts)
          /\ pc'[p] \in {"lock", "failed"}
      BY <2>1 DEF FetchBootstrap, Goto, stores, Inv, TypeOK, Step, SetBootstrap, AddBootstrap,
         UpdateBootstrap, ClearBootstrap, CreateBootstrap
    <3>3. bootstrap[target[p]] \in Accounts => bootstrap[target[p]] \in owners[target[p]]
      BY <3>1 DEF Inv, DataInv, Given
    <3> QED BY <1>3, <3>1, <3>2, <3>3 DEF Client, Accounts
  <2>2. CASE SetBootstrap(p)
    <3>1. ~Is(p, {"apply"})
      BY <1>0, <1>3, <2>2, SetMoves DEF Underway, Is, Inv
    <3> QED BY <1>1, <1>3, <2>2, <3>1, SetDoesOnly
  <2> USE DEF Inv, TypeOK
  <2>3. CASE Start(p)
    <3>1. pc'[p] \in {"lock", "inside", "write"} => ~Is(p, {"apply"})
      BY <2>3 DEF Start, Goto, Is
    <3>2. ~(pc'[q] \in {"lock", "inside", "write"} /\ Is(q, {"apply"}))
      BY <1>3, <3>1
    <3> QED BY <1>0, <2>3, <3>2 DEF Start, Client, Is
  <2>4. CASE Verify(p) \/ OpenIndex(p)
    BY <1>1, <1>3, <2>4 DEF Verify, OpenIndex, Goto, locals
  <2>5. CASE LoadIndex(p)
    <3>1. pc'[p] \notin {"lock", "inside", "write"} /\ account' = account
      BY <2>5, LoadDoes DEF AfterLoad
    <3> QED BY <1>0, <1>3, <3>1 DEF Client
  <2>6. CASE ListBootstraps(p)
    BY <1>1, <1>3, <2>6 DEF ListBootstraps, Goto
  <2>7. CASE Enter(p) \/ Rewrite(p)
    BY <1>1, <1>3, <2>7 DEF Enter, Rewrite, Exit, Goto
  <2>8. CASE NotFound(p) \/ Written(p) \/ Stop(p)
    BY <1>1, <1>3, <2>8 DEF NotFound, Written, Stop, Exit, Goto, locals
  <2> QED BY <2>1, <2>2, <2>3, <2>4, <2>5, <2>6, <2>7, <2>8 DEF Step
<1> QED BY <1>2, <1>3

LEMMA InvStep == Inv /\ [Next]_vars => Inv'
<1> SUFFICES ASSUME Inv, [Next]_vars PROVE Inv'
  OBVIOUS
<1>1. CASE UNCHANGED vars
  BY <1>1 DEF vars, stores, locals, watched, Inv, TypeOK, PcInv, Underway, DataInv,
     StoredWasVerified, Given, Sound, Owned, Client, HasBootstrap, Cleared, AnyApp, Is
<1>2. ASSUME NEW p \in Procs, Step(p), Watch PROVE Inv'
  <2>1. TypeOK' /\ PcInv'
    BY <1>2, TypeStep, PcStep DEF Inv, DataInv, Client, Paid
  <2>2. DataInv'
    BY <1>2, SoundMem, SoundIndex, ClientStep, StoredStays DEF DataInv, StoredWasVerified
  <2> QED BY <2>1, <2>2 DEF Inv
<1>3. CASE Next
  BY <1>2, <1>3 DEF Next, Step
<1> QED BY <1>1, <1>3

(* TypeOK: the variables keep their types.                                   *)
THEOREM TypeCorrect == Spec => []TypeOK
<1>1. Inv => TypeOK
  BY DEF Inv
<1> QED BY <1>1, InitInv, InvStep, PTL DEF Spec

(* OneAccountPerProfile: the entries of a profile belong to the account of   *)
(* its bootstrap token, until the user replaces it by another's, and then to *)
(* one of these (apply.go:82-131).                                           *)
THEOREM AccountsAreKept == Spec => []OneAccountPerProfile
<1>1. Inv => OneAccountPerProfile
  BY DEF Inv, DataInv, Sound, OneAccountPerProfile
<1> QED BY <1>1, InitInv, InvStep, PTL DEF Spec

(* StoredWasVerified: no bootstrap token is stored that Cloudflare did not   *)
(* accept (login.go:82-111, profile.go:98-136); its status nobody looks at.  *)
THEOREM BootstrapsAreVerified == Spec => []StoredWasVerified
<1>1. Inv => StoredWasVerified
  BY DEF Inv, DataInv
<1> QED BY <1>1, InitInv, InvStep, PTL DEF Spec

(* CurrentIsKnown: the pointer of the index names one of its profiles        *)
(* (profile.go:247-275).                                                     *)
THEOREM CurrentStaysKnown == Spec => []CurrentIsKnown
<1>1. Inv => CurrentIsKnown
  BY DEF Inv, DataInv, Sound, CurrentIsKnown
<1> QED BY <1>1, InitInv, InvStep, PTL DEF Spec

-------------------------------------------------------------------------------
(* While no write is cut short the index only grows: what was seen in it is  *)
(* still there, and a `profile add` past its callback finds its profile      *)
(* there, and alone has set the pointer if it did.                           *)
Past(p) == pc[p] \in {"write", "ok"}
Fresh ==
  /\ index # Unreadable
  /\ \A p \in Procs : calm[p] => DOMAIN mem[p].profiles \subseteq DOMAIN index.profiles
  /\ \A p \in Procs : Past(p) /\ Is(p, {"add"}) => HasProfile(index, req[p].name)
  /\ \A p \in Procs : Past(p) /\ became[p] => index.current # NoProfile
  /\ \A p, q \in Procs : Past(p) /\ became[p] /\ Past(q) /\ became[q] => p = q
FreshInv == NoTornWrite => Fresh

LEMMA NeverRisen ==
  ASSUME Inv, NEW p \in Procs, Step(p), NoTornWrite'
  PROVE  NoTornWrite
<1> SUFFICES ASSUME NEW q \in Procs, pc[q] = "torn" PROVE pc'[q] = "torn"
  BY DEF NoTornWrite
<1>1. CASE q # p
  BY <1>1, OthersStay DEF Inv
<1>2. CASE q = p
  BY <1>2, SetMoves DEF Step, Start, Verify, OpenIndex, LoadIndex, FetchBootstrap, ListBootstraps,
     Enter, Rewrite, NotFound, Written, Stop, Ended, Inv
<1> QED BY <1>1, <1>2

LEMMA IndexGrows ==
  ASSUME Inv, NEW p \in Procs, Step(p), NoTornWrite', index # Unreadable
  PROVE  /\ index' # Unreadable
         /\ DOMAIN index.profiles \subseteq DOMAIN index'.profiles
         /\ index.current # NoProfile => index'.current # NoProfile
<1>1. CASE Rewrite(p)
  <2>1. Follows(index', p) /\ mem[p] = index
    BY <1>1, RewriteFollows
  <2> QED BY <2>1, UnreadableIsNoIndex DEF Follows
<1>2. CASE Stop(p)
  <2>1. pc[p] = "write" => pc'[p] = "torn"
    BY <1>2 DEF Stop, Exit, Goto, Inv, TypeOK
  <2> QED BY <1>2, <2>1 DEF Stop, NoTornWrite
<1>3. CASE ~Rewrite(p) /\ ~Stop(p)
  BY <1>3, SetDoesOnly DEF Step, Start, Verify, OpenIndex, LoadIndex, FetchBootstrap,
     ListBootstraps, Enter, NotFound, Written, stores
<1> QED BY <1>1, <1>2, <1>3

LEMMA FreshStep ==
  ASSUME Inv, FreshInv, NEW p \in Procs, Step(p), Watch, NoTornWrite'
  PROVE  Fresh'
<1>0. Fresh
  BY NeverRisen DEF FreshInv
<1>1. /\ index' # Unreadable /\ DOMAIN index.profiles \subseteq DOMAIN index'.profiles
      /\ index.current # NoProfile => index'.current # NoProfile
  BY <1>0, IndexGrows DEF Fresh
<1>2. ASSUME NEW q \in Procs, calm'[q] PROVE DOMAIN mem'[q].profiles \subseteq DOMAIN index'.profiles
  <2>1. CASE calm[q] /\ mem'[q] = mem[q]
    BY <1>0, <1>1, <2>1 DEF Fresh
  <2>2. CASE mem'[q] = index
    BY <1>1, <2>2
  <2> QED BY <1>2, <2>1, <2>2, MemStep
<1>3. req' = req
  BY ReqStays
<1>4. CASE ~Rewrite(p)
  <2>1. became' = became
    BY <1>4, SetDoesOnly DEF Step, Start, Verify, OpenIndex, LoadIndex, FetchBootstrap,
       ListBootstraps, Enter, NotFound, Written, Stop, locals
  <2>2. ASSUME NEW q \in Procs, Past(q)', Is(q, {"add"}) \/ became[q] PROVE Past(q)
    <3>1. CASE q # p
      BY <2>2, <3>1, OthersStay DEF Inv, Past
    <3>2. CASE q = p
      <4>1. Underway(p) /\ Is(p, {"add"}) /\ pc'[p] \in {"write", "ok"}
        BY <2>2, <3>2 DEF Inv, PcInv, Underway, Past
      <4>2. ~SetBootstrap(p)
        <5> SUFFICES ASSUME SetBootstrap(p) PROVE FALSE
          OBVIOUS
        <5>1. pc'[p] = "ok" => Is(p, {"login"})
          BY SetMoves DEF Inv, TypeOK
        <5>2. pc'[p] # "write"
          BY SetMoves DEF Inv, TypeOK
        <5> QED BY <4>1, <5>1, <5>2 DEF Is
      <4>3. ~LoadIndex(p)
        BY <4>1 DEF LoadIndex, Underway, Is
      <4> QED
        BY <1>4, <3>2, <4>1, <4>2, <4>3 DEF Step, Start, Verify, OpenIndex, FetchBootstrap,
           ListBootstraps, Enter, NotFound, Written, Stop, Exit, Goto, Past, Inv, TypeOK,
           Underway, Is, Ended
    <3> QED BY <3>1, <3>2
  <2> QED BY <1>0, <1>1, <1>2, <1>3, <2>1, <2>2 DEF Fresh, HasProfile, Is
<1>5. CASE Rewrite(p)
  <2>1. /\ Follows(index', p) /\ mem[p] = index /\ target[p] \in Profiles
        /\ Is(p, {"add"}) => target[p] = req[p].name
    BY <1>5, RewriteFollows
  <2>2. \A q \in Procs : q # p => (Past(q)' <=> Past(q)) /\ became'[q] = became[q]
    BY OthersStay DEF Inv, Past
  <2>3. /\ became'[p] => Is(p, {"add"}) /\ index.current = NoProfile
        /\ ~Past(p)
    BY <1>5, <2>1 DEF Rewrite, Inv, TypeOK, Past
  <2>4. Is(p, {"add"}) => HasProfile(index', req[p].name) /\ index'.current # NoProfile
    BY <2>1 DEF Follows, HasProfile
  <2> QED BY <1>0, <1>1, <1>2, <1>3, <2>2, <2>3, <2>4 DEF Fresh, HasProfile, Is
<1> QED BY <1>4, <1>5

(* The profile an add went on with has a bootstrap token, or had one that is *)
(* being made anew.                                                          *)
BootInv == \A p \in Procs :
  Is(p, {"add"}) /\ pc[p] \in {"lock", "inside", "write", "ok"} =>
    req[p].name \in HasBootstrap \cup Cleared

LEMMA BootStep ==
  ASSUME Inv, BootInv, NEW p \in Procs, Step(p)
  PROVE  BootInv'
<1> SUFFICES ASSUME NEW q \in Procs, Is(q, {"add"})',
                    pc'[q] \in {"lock", "inside", "write", "ok"}
             PROVE  (req[q].name \in HasBootstrap \cup Cleared)'
  BY DEF BootInv
<1>1. req' = req /\ Is(q, {"add"})
  BY ReqStays DEF Is
<1>2. CASE pc[q] \in {"lock", "inside", "write", "ok"}
  BY <1>1, <1>2, StoredStays DEF BootInv
<1>3. CASE pc[q] \notin {"lock", "inside", "write", "ok"}
  <2>1. q = p
    BY <1>3, OthersStay DEF Inv
  <2>2. SetBootstrap(p)
    <3>1. Underway(p) /\ pc \in [Procs -> PCs]
      BY DEF Inv, TypeOK, PcInv
    <3> QED BY <1>1, <1>3, <2>1, <3>1 DEF Step, Start, Verify, OpenIndex, LoadIndex,
         FetchBootstrap, ListBootstraps, Enter, Rewrite, NotFound, Written, Stop, Exit, Goto,
         Underway, Is, AfterLoad
  <2>3. Put(p)
    <3>1. pc \in [Procs -> PCs]
      BY DEF Inv, TypeOK
    <3> QED BY <2>1, <2>2, <3>1 DEF SetBootstrap, AddBootstrap, UpdateBootstrap, ClearBootstrap,
         CreateBootstrap, Keep, Goto
  <2>4. target[p] = req[p].name /\ target[p] \in Profiles /\ req[p].token # NoToken
    BY <1>1, <2>1, <2>2, SetMoves DEF Inv, PcInv, Underway, Is
  <2> QED BY <1>1, <2>1, <2>3, <2>4 DEF Put, HasBootstrap, Inv, TypeOK
<1> QED BY <1>2, <1>3

(* `profile list` holds what it could know from the index it decoded, then   *)
(* from the Keychain, where meanwhile items only come, but for those made    *)
(* anew; a profile with tokens in the index it decoded had its item by then. *)
Listing(p) ==
  /\ stored[p] \subseteq HasBootstrap \cup Relaxed
  /\ pc[p] = "scan" => known[p] \subseteq HasBootstrap \cup Relaxed \cup DOMAIN mem[p].profiles
  /\ pc[p] = "ok" =>
       /\ known[p] \subseteq Listed(p) \cup Relaxed
       /\ calm[p] => \A q \in Profiles : DOMAIN All(mem[p], q) # {} => q \in stored[p] \cup Relaxed
ListInv == \A p \in Procs : Is(p, {"profiles"}) => Listing(p)

LEMMA ListStep ==
  ASSUME Inv, ListInv, NEW p \in Procs, Step(p), Watch
  PROVE  ListInv'
<1> SUFFICES ASSUME NEW q \in Procs, Is(q, {"profiles"})' PROVE Listing(q)'
  BY DEF ListInv
<1>1. req' = req /\ Is(q, {"profiles"}) /\ Listing(q)
  BY ReqStays DEF Is, ListInv
<1>2. HasBootstrap \subseteq HasBootstrap' \cup Relaxed' /\ Relaxed \subseteq Relaxed'
  BY StoredStays, AnyAppStays
<1>c. pc'[q] \in {"scan", "ok"} => calm'[q] = calm[q]
  BY DEF Watch
<1>3. ASSUME stored'[q] = stored[q], known'[q] = known[q], mem'[q] = mem[q],
             pc'[q] \in {"scan", "ok"} => pc[q] = pc'[q]
      PROVE  Listing(q)'
  BY <1>1, <1>2, <1>c, <1>3 DEF Listing, Listed, All
<1>4. CASE q # p
  BY <1>3, <1>4, OthersStay DEF Inv
<1>5. CASE q = p
  <2>0. /\ Underway(p) /\ (calm[p] => Sound(mem[p])) /\ TypeOK /\ Is(p, {"profiles"}) /\ Given
    BY <1>1, <1>5 DEF Inv, PcInv, DataInv
  <2>1. CASE LoadIndex(p)
    <3>1. /\ stored' = stored /\ bootstrap' = bootstrap /\ pc'[p] \in {"failed", "scan"}
          /\ known'[p] = HasBootstrap \cup (IF calm[p] THEN Indexed(index) ELSE {})
          /\ pc'[p] = "scan" => mem'[p] \in Loadable(p) \ {Unreadable}
      BY <2>0, <2>1, LoadDoes DEF AfterLoad, Is
    <3>2. HasBootstrap' = HasBootstrap
      BY <3>1 DEF HasBootstrap
    <3>3. pc'[p] = "scan" => known'[p] \subseteq HasBootstrap \cup DOMAIN mem'[p].profiles
      BY <3>1 DEF Loadable, Indexed
    <3> QED BY <1>1, <1>2, <1>5, <3>1, <3>2, <3>3 DEF Listing
  <2>2. CASE ListBootstraps(p)
    <3>1. /\ stored'[p] = HasBootstrap /\ bootstrap' = bootstrap /\ pc[p] = "scan" /\ pc'[p] = "ok"
          /\ known' = known /\ mem' = mem
      BY <2>0, <2>2 DEF ListBootstraps, Goto, stores, TypeOK
    <3>2. HasBootstrap' = HasBootstrap
      BY <3>1 DEF HasBootstrap
    <3>3. known[p] \subseteq HasBootstrap \cup Relaxed \cup DOMAIN mem[p].profiles
      BY <1>1, <1>5, <3>1 DEF Listing
    <3>4. ASSUME calm[p], NEW r \in Profiles, DOMAIN All(mem[p], r) # {}
          PROVE  r \in HasBootstrap \cup Relaxed
      <4>1. owners[r] # {}
        BY <2>0, <3>4 DEF Sound, Owned
      <4>2. Cleared \subseteq Relaxed
        BY DEF Cleared, Relaxed, AnyApp
      <4> QED BY <2>0, <4>1, <4>2 DEF Given
    <3>5. known'[p] \subseteq Listed(p)' \cup Relaxed'
      BY <1>2, <3>1, <3>3 DEF Listed
    <3>6. calm'[p] => \A r \in Profiles : DOMAIN All(mem'[p], r) # {} => r \in stored'[p] \cup Relaxed'
      BY <1>2, <1>c, <1>5, <3>1, <3>4
    <3> QED BY <1>5, <3>1, <3>2, <3>5, <3>6 DEF Listing, All
  <2>3. CASE SetBootstrap(p)
    BY <2>0, <2>3, SetMoves DEF Underway, Is
  <2>4. CASE Verify(p) \/ FetchBootstrap(p) \/ Enter(p) \/ Rewrite(p) \/ NotFound(p) \/ Written(p)
    BY <2>0, <2>4 DEF Underway, Is, Verify, FetchBootstrap, Enter, Rewrite, NotFound, Written
  <2>5. CASE Start(p) \/ OpenIndex(p) \/ Stop(p)
    <3>1. stored' = stored /\ known' = known /\ mem' = mem
      BY <2>5 DEF Start, OpenIndex, Stop, locals
    <3>2. pc'[p] \notin {"scan", "ok"}
      BY <2>0, <2>5 DEF Start, OpenIndex, Stop, Exit, Goto, Is, TypeOK
    <3> QED BY <1>3, <1>5, <3>1, <3>2
  <2> QED BY <2>1, <2>2, <2>3, <2>4, <2>5 DEF Step
<1> QED BY <1>4, <1>5

(* All of it together.                                                       *)
AllInv == Inv /\ FreshInv /\ BootInv /\ ListInv

LEMMA InitAll == Init => AllInv
<1> SUFFICES ASSUME Init PROVE AllInv
  OBVIOUS
<1>1. Inv
  BY InitInv
<1>2. \A p \in Procs : pc[p] = "idle" /\ became[p] = FALSE /\ mem[p] = NewIndex
  BY DEF Init
<1>3. index \in Indexes /\ DOMAIN NewIndex.profiles = {}
  BY InputsAreTyped DEF Init, NewIndex, NoTokens
<1>4. Fresh
  BY <1>2, <1>3, UnreadableIsNoIndex DEF Fresh, Past
<1>5. ListInv
  BY DEF Init, ListInv, Listing
<1> QED BY <1>1, <1>2, <1>4, <1>5 DEF AllInv, FreshInv, BootInv

LEMMA AllStep == AllInv /\ [Next]_vars => AllInv'
<1> SUFFICES ASSUME AllInv, [Next]_vars PROVE AllInv'
  OBVIOUS
<1>1. Inv'
  BY InvStep DEF AllInv
<1>2. CASE UNCHANGED vars
  <2>0. HasBootstrap' = HasBootstrap /\ Cleared' = Cleared /\ Relaxed' = Relaxed
    BY <1>2 DEF vars, stores, locals, HasBootstrap, Cleared, Relaxed, AnyApp
  <2>1. FreshInv'
    BY <1>2 DEF vars, stores, locals, watched, AllInv, FreshInv, Fresh, Past, NoTornWrite, Is
  <2>2. BootInv'
    BY <1>2, <2>0 DEF vars, stores, locals, AllInv, BootInv, Is
  <2>3. ListInv'
    BY <1>2, <2>0 DEF vars, stores, locals, watched, AllInv, ListInv, Listing, Listed, Is, All,
       HasProfile
  <2> QED BY <1>1, <2>1, <2>2, <2>3 DEF AllInv
<1>3. ASSUME NEW p \in Procs, Step(p), Watch PROVE AllInv'
  BY <1>1, <1>3, FreshStep, BootStep, ListStep DEF AllInv, FreshInv
<1>4. CASE Next
  BY <1>3, <1>4 DEF Next, Step
<1> QED BY <1>2, <1>4

(* AddedIsUsable: a profile that `profile add` reported as added stays in    *)
(* the index, and its bootstrap token stays stored, but for one that a login *)
(* --allow-any-app for it has deleted and not created again (profile.go:     *)
(* 98-136, acl_darwin.go:101-121).                                           *)
THEOREM AddsAreKept == Spec => []AddedIsUsable
<1>1. AllInv => AddedIsUsable
  BY DEF AllInv, FreshInv, Fresh, BootInv, AddedIsUsable, Past, HasBootstrap
<1> QED BY <1>1, InitAll, AllStep, PTL DEF Spec

(* OneBecameCurrent: of the adds that run side by side, one at most reports  *)
(* that its profile became the current one (profile.go:98-136).              *)
THEOREM OneAddIsFirst == Spec => []OneBecameCurrent
<1>1. AllInv => OneBecameCurrent
  BY DEF AllInv, FreshInv, Fresh, OneBecameCurrent, Past
<1> QED BY <1>1, InitAll, AllStep, PTL DEF Spec

(* ListingIsBracketed: `profile list`, which reads the index and the         *)
(* Keychain at two moments, still shows one picture of them if no rewrite    *)
(* met its load, and misses no bootstrap token in any case, but for a        *)
(* profile whose item a login --allow-any-app makes anew (profile.go:        *)
(* 165-206, acl_darwin.go:101-121).                                          *)
THEOREM ListingsAreBracketed == Spec => []ListingIsBracketed
<1>1. ASSUME AllInv, NEW p \in Procs, Is(p, {"profiles"}), pc[p] = "ok"
      PROVE  /\ known[p] \ Relaxed \subseteq Listed(p)
             /\ calm[p] =>
                  /\ NoTornWrite => Listed(p) \subseteq HasBootstrap \cup Indexed(index) \cup Relaxed
                  /\ mem[p].current # NoProfile => \E q \in Listed(p) : Row(p, q).current
                  /\ \A q \in Listed(p) \ Relaxed : Row(p, q).tokens # {} => Row(p, q).bootstrap
  <2>1. Listing(p) /\ mem[p] \in Indexes /\ (calm[p] => Sound(mem[p]))
    BY <1>1 DEF AllInv, ListInv, Inv, TypeOK, DataInv
  <2>2. known[p] \ Relaxed \subseteq Listed(p)
    BY <1>1, <2>1 DEF Listing
  <2>3. calm[p] /\ NoTornWrite => Listed(p) \subseteq HasBootstrap \cup Indexed(index) \cup Relaxed
    BY <1>1, <2>1 DEF AllInv, FreshInv, Fresh, Listed, Listing, Indexed
  <2>4. calm[p] /\ mem[p].current # NoProfile => \E q \in Listed(p) : Row(p, q).current
    BY <2>1 DEF Sound, HasProfile, Listed, Row
  <2>5. ASSUME calm[p], NEW q \in Listed(p) \ Relaxed, Row(p, q).tokens # {} PROVE Row(p, q).bootstrap
    <3>1. DOMAIN All(mem[p], q) # {}
      BY <2>5 DEF Row
    <3>2. q \in Profiles
      BY <2>1, <3>1, IndexFields, PartialFunctions DEF All, HasProfile, NoTokens
    <3> QED BY <1>1, <2>1, <2>5, <3>1, <3>2 DEF Listing, Row
  <2> QED BY <2>2, <2>3, <2>4, <2>5
<1>2. AllInv => ListingIsBracketed
  BY <1>1 DEF ListingIsBracketed
<1> QED BY <1>2, InitAll, AllStep, PTL DEF Spec
=================================================================================
