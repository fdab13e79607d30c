---------------------------- MODULE IndexFileProofs ----------------------------
(*****************************************************************************)
(* Proofs about IndexFile for any number of writers and readers, any         *)
(* profiles, names and IDs: types, that WithLock is the atomic register      *)
(* IndexRegister, that an unreadable index is never overwritten, and what    *)
(* a load can return.                                                        *)
(*****************************************************************************)
EXTENDS IndexFile, IndexDataProofs

(* Decoding any file gives an index or an error.                             *)
LEMMA DecodeTyped ==
  ASSUME NEW f \in Files
  PROVE  /\ Decode(f) \in Indexes \cup {Unreadable}
         /\ Parse(f) \in Indexes \cup {Unreadable}
<1>1. CASE f \in {Absent, Empty, Torn, Foreign}
  BY <1>1, NewIndexTyped DEF Decode, Parse, Absent, Empty, Torn, Foreign
<1>2. ASSUME NEW t \in Partial(Names, Ids), f = V1(t)
      PROVE  Decode(f) \in Indexes /\ Parse(f) \in Indexes
  <2>1. Migrated(t) \in Indexes
    BY NewIndexTyped, UseTyped, SetTyped, DefaultIsAProfile DEF Migrated
  <2>2. f.form = "v1" /\ f.tokens = t
    BY <1>2 DEF V1
  <2> QED
    BY <2>1, <2>2 DEF Decode, Parse
<1>3. ASSUME NEW i \in Indexes, f = V2(i)
      PROVE  Decode(f) \in Indexes /\ Parse(f) \in Indexes
  BY <1>3 DEF Decode, Parse, V2
<1> QED
  BY <1>1, <1>2, <1>3 DEF Files

(* How the forms decode.                                                     *)
LEMMA Forms ==
  /\ Decode(Empty) = NewIndex /\ Decode(Absent) = NewIndex
  /\ Decode(Torn) = Unreadable /\ Parse(Empty) = Unreadable
  /\ \A i : Decode(V2(i)) = i /\ V2(i) # Empty /\ V2(i) # Absent
  /\ Empty # Absent /\ Torn # Absent /\ Torn # Empty
  /\ Empty \in Files /\ Torn \in Files /\ \A i \in Indexes : V2(i) \in Files
BY DEF Decode, Parse, Empty, Absent, Torn, V2, Files

(* Only for a missing or an empty file do Decode and Parse differ.           *)
LEMMA ParseDecode ==
  ASSUME NEW f \in Files, f # Empty, f # Absent
  PROVE  Parse(f) = Decode(f)
<1>1. f.form \notin {"absent", "empty"}
  BY DEF Files, Empty, Absent, Torn, Foreign, V1, V2
<1> QED
  BY <1>1 DEF Decode

-------------------------------------------------------------------------------
(* The invariant.  Writers: whoever is past the flock holds it, and knows    *)
(* what the file says.  Readers: while a load runs, the value of the index   *)
(* is in its basis, as is that of the piece it has read, and if nothing was  *)
(* rewritten the file it looks at is the file it opened.                     *)
Inside == {"decode", "callback", "truncate", "encode", "sync"}

WriterInv == \A p \in Writers :
  /\ pc[p] \in Inside => lock = p
  /\ pc[p] = "callback" => mem[p] = Decode(file)
  /\ pc[p] = "truncate" => Decode(file) \in Indexes /\ mem[p] \in Mutations(Decode(file))
  /\ pc[p] = "encode" => file = Empty
  /\ pc[p] = "sync" => file = V2(mem[p])

ReaderInv == \A r \in Readers :
  /\ rpc[r] \in {"stat", "read", "rest"} =>
       file # Absent /\ Register \in basis[r] /\ (calm[r] => ~Rewriting)
  /\ rpc[r] \in {"read", "rest"} /\ calm[r] => file # Empty
  /\ rpc[r] = "rest" => /\ head[r] # NoFile /\ Parse(head[r]) \in basis[r]
                        /\ calm[r] => file = head[r]

(* What Register is, without the choice in it.                               *)
RegisterIs ==
  /\ \A p \in Writers : pc[p] = "encode" => Register = mem[p]
  /\ ~Rewriting => Register = Decode(file)

(* While a writer encodes, its index is the value of the register.           *)
LEMMA RegisterKnown == WriterInv => RegisterIs
<1> SUFFICES ASSUME WriterInv, NEW p \in Writers, pc[p] = "encode"
             PROVE  Register = mem[p]
  BY DEF RegisterIs, Register
<1> DEFINE c == CHOOSE q \in Writers : pc[q] = "encode"
<1>1. c \in Writers /\ pc[c] = "encode"
  OBVIOUS
<1>2. c = p
  BY <1>1 DEF WriterInv, Inside
<1>3. Register = mem[c]
  BY DEF Register, Rewriting
<1> QED
  BY <1>2, <1>3

(* A writer that leaves the region of the others.                            *)
LEMMA OneInside ==
  ASSUME WriterInv, NEW p \in Writers, NEW q \in Writers,
         pc[p] \in Inside, pc[q] \in Inside
  PROVE  p = q
BY DEF WriterInv

-------------------------------------------------------------------------------
(* Types.                                                                    *)

(* A writer that ends is well typed.                                         *)
LEMMA ExitTyped ==
  ASSUME TypeOK, NEW p \in Writers, NEW s \in {"nil", "error", "killed"}, Exit(p, s)
  PROVE  /\ pc' \in [Writers -> PCs] /\ lock' \in Writers \cup {NoWriter}
         /\ mem' \in [Writers -> Indexes] /\ ret' \in [Writers -> {"nil", "error"}]
BY NewIndexTyped DEF TypeOK, Exit, Goto, PCs

(* Every step of a writer keeps the types of the file and the writers.       *)
LEMMA WriterTypes ==
  ASSUME TypeOK, NEW p \in Writers, WithLock(p)
  PROVE  /\ file' \in Files /\ lock' \in Writers \cup {NoWriter}
         /\ pc' \in [Writers -> PCs]
         /\ mem' \in [Writers -> Indexes] /\ ret' \in [Writers -> {"nil", "error"}]
<1>1. CASE Open(p)
  BY <1>1, Forms DEF TypeOK, Open, Goto, PCs
<1>2. CASE Flock(p)
  BY <1>2 DEF TypeOK, Flock, Goto, PCs
<1>3. CASE DecodeLocked(p)
  <2>1. CASE Decode(file) = Unreadable
    BY <1>3, <2>1, ExitTyped DEF DecodeLocked, TypeOK
  <2>2. CASE Decode(file) # Unreadable
    <3>1. Decode(file) \in Indexes
      BY <2>2, DecodeTyped DEF TypeOK
    <3> QED
      BY <1>3, <2>2, <3>1 DEF DecodeLocked, TypeOK, Goto, PCs
  <2> QED
    BY <2>1, <2>2
<1>4. CASE Callback(p)
  <2>1. mem[p] \in Indexes
    BY DEF TypeOK
  <2>2. ASSUME NEW j \in Mutations(mem[p]), mem' = [mem EXCEPT ![p] = j],
               Goto(p, "truncate"), UNCHANGED <<lock, ret, file>>
        PROVE  mem' \in [Writers -> Indexes] /\ pc' \in [Writers -> PCs]
               /\ UNCHANGED <<lock, ret, file>>
    BY <2>1, <2>2, MutationsTyped DEF TypeOK, Goto, PCs
  <2>3. ASSUME NEW j \in Applied(mem[p]), mem' = [mem EXCEPT ![p] = j],
               ret' = [ret EXCEPT ![p] = "error"], Goto(p, "truncate"),
               UNCHANGED <<lock, file>>
        PROVE  /\ mem' \in [Writers -> Indexes] /\ pc' \in [Writers -> PCs]
               /\ ret' \in [Writers -> {"nil", "error"}] /\ UNCHANGED <<lock, file>>
    BY <2>1, <2>3, MutationsTyped DEF TypeOK, Goto, PCs
  <2>4. CASE Exit(p, "error")
    BY <1>4, <2>4, ExitTyped DEF Callback, TypeOK
  <2> QED
    BY <1>4, <2>2, <2>3, <2>4 DEF Callback, TypeOK
<1>5. CASE Truncate(p)
  BY <1>5, Forms DEF TypeOK, Truncate, Goto, PCs
<1>6. CASE Encode(p)
  BY <1>6, Forms DEF TypeOK, Encode, Goto, PCs
<1>7. CASE Sync(p)
  <2>1. ret[p] \in {"nil", "error", "killed"}
    BY DEF TypeOK
  <2> QED
    BY <1>7, <2>1, ExitTyped DEF Sync, TypeOK
<1>8. CASE Fail(p)
  BY <1>8, ExitTyped, Forms DEF Fail, TypeOK
<1>9. CASE Kill(p)
  BY <1>9, ExitTyped, Forms DEF Kill, TypeOK
<1> QED
  BY <1>1, <1>2, <1>3, <1>4, <1>5, <1>6, <1>7, <1>8, <1>9 DEF WithLock

(* Every step of a load keeps the types of the readers.                      *)
LEMMA ReaderTypes ==
  ASSUME TypeOK, NEW r \in Readers, Load(r)
  PROVE  /\ rpc' \in [Readers -> {"idle", "stat", "read", "rest", "done"}]
         /\ head' \in [Readers -> Files \cup {NoFile}]
         /\ seen' \in [Readers -> Indexes \cup {Unreadable}]
<1>1. ASSUME NEW i \in Indexes \cup {Unreadable}, Return(r, i)
      PROVE  /\ rpc' \in [Readers -> {"idle", "stat", "read", "rest", "done"}]
             /\ seen' \in [Readers -> Indexes \cup {Unreadable}]
  BY <1>1 DEF Return, TypeOK
<1>2. Parse(file) \in Indexes \cup {Unreadable}
  BY DecodeTyped DEF TypeOK
<1>3. CASE LoadOpen(r)
  BY <1>1, <1>3, NewIndexTyped DEF LoadOpen, TypeOK
<1>4. CASE Stat(r)
  BY <1>1, <1>4, NewIndexTyped DEF Stat, TypeOK
<1>5. CASE Read(r)
  BY <1>1, <1>2, <1>5 DEF Read, TypeOK
<1>6. CASE ReadRest(r)
  <2>1. Mixtures(head[r], file) \subseteq Indexes \cup {Unreadable}
    BY DEF Mixtures
  <2>2. head' \in [Readers -> Files \cup {NoFile}]
    BY <1>6 DEF ReadRest, TypeOK
  <2>3. PICK i \in Indexes \cup {Unreadable} : Return(r, i)
    BY <1>2, <1>6, <2>1 DEF ReadRest
  <2> QED
    BY <1>1, <2>2, <2>3
<1> QED
  BY <1>3, <1>4, <1>5, <1>6 DEF Load

(* Every step keeps every type.                                              *)
LEMMA TypeStep == TypeOK /\ [Next]_vars => TypeOK'
<1> SUFFICES ASSUME TypeOK, [Next]_vars PROVE TypeOK'
  OBVIOUS
<1>1. CASE UNCHANGED vars
  BY <1>1 DEF vars, writerVars, readerVars, TypeOK
<1>2. CASE Next
  <2>1. /\ file' \in Files /\ lock' \in Writers \cup {NoWriter}
        /\ pc' \in [Writers -> PCs]
        /\ mem' \in [Writers -> Indexes] /\ ret' \in [Writers -> {"nil", "error"}]
        /\ rpc' \in [Readers -> {"idle", "stat", "read", "rest", "done"}]
        /\ head' \in [Readers -> Files \cup {NoFile}]
        /\ seen' \in [Readers -> Indexes \cup {Unreadable}]
    <3>1. ASSUME NEW p \in Writers, WithLock(p) PROVE <2>1!:
      BY <3>1, WriterTypes DEF WithLock, readerVars, TypeOK
    <3>2. ASSUME NEW r \in Readers, Load(r) PROVE <2>1!:
      BY <3>2, ReaderTypes DEF Load, writerVars, TypeOK
    <3> QED
      BY <1>2, <3>1, <3>2 DEF Next
  <2>2. Register' \in Indexes \cup {Unreadable}
    <3>1. Decode(file)' \in Indexes \cup {Unreadable}
      BY <2>1, DecodeTyped
    <3>2. \A p \in Writers : mem'[p] \in Indexes
      BY <2>1
    <3> QED
      BY <3>1, <3>2 DEF Register, Rewriting
  <2>3. basis' \in [Readers -> SUBSET (Indexes \cup {Unreadable})]
    BY <1>2, <2>2 DEF Next, Watch, TypeOK
  <2>4. calm' \in [Readers -> BOOLEAN]
    BY <1>2 DEF Next, Watch, TypeOK, Rewriting
  <2> QED
    BY <2>1, <2>3, <2>4 DEF TypeOK
<1> QED
  BY <1>1, <1>2

(* The variables of a load keep their types through any step of Spec, and    *)
(* so do the writers' (TypeOK; mem is never the result of a failed decode).  *)
THEOREM TypeCorrect == Spec => []TypeOK
<1>1. ASSUME Init PROVE TypeOK
  BY <1>1, NewIndexTyped, InputsAreTyped DEF Init, TypeOK, PCs
<1>2. Init => TypeOK
  BY <1>1
<1> QED
  BY <1>2, TypeStep, PTL DEF Spec

-------------------------------------------------------------------------------
(* The writers.                                                              *)

(* A step of one writer that leaves the file's meaning alone, or that only   *)
(* the holder of the flock takes, keeps the others where they were.          *)
LEMMA WriterStep ==
  ASSUME TypeOK, WriterInv, NEW p \in Writers, WithLock(p)
  PROVE  WriterInv'
<1> DEFINE Inv(q) ==
      /\ pc[q] \in Inside => lock = q
      /\ pc[q] = "callback" => mem[q] = Decode(file)
      /\ pc[q] = "truncate" => Decode(file) \in Indexes /\ mem[q] \in Mutations(Decode(file))
      /\ pc[q] = "encode" => file = Empty
      /\ pc[q] = "sync" => file = V2(mem[q])
<1>1. \A q \in Writers : Inv(q)
  BY DEF WriterInv
<1> SUFFICES ASSUME NEW q \in Writers PROVE Inv(q)'
  BY DEF WriterInv
<1>a. pc \in [Writers -> PCs] /\ mem \in [Writers -> Indexes] /\ NoWriter \notin Writers
  BY SentinelsAreFresh DEF TypeOK
<1>e. ASSUME NEW s \in {"nil", "error", "killed"}, Exit(p, s),
             q = p \/ pc[q] \notin Inside \/ file' = file
      PROVE  Inv(q)'
  <2>1. CASE q = p
    BY <1>a, <1>e, <2>1 DEF Exit, Goto, Inside
  <2>2. CASE q # p
    <3>1. pc'[q] = pc[q] /\ mem'[q] = mem[q]
      BY <1>a, <1>e, <2>2 DEF Exit, Goto
    <3>2. pc[q] \in Inside => lock' = q
      BY <1>1, <1>e, <2>2 DEF Exit
    <3> QED
      BY <1>1, <1>e, <2>2, <3>1, <3>2 DEF Inside
  <2> QED
    BY <2>1, <2>2
<1>x. pc[p] \in Inside /\ q # p => pc[q] \notin Inside
  BY OneInside
<1>2. CASE Open(p)
  <2>1. pc'[q] \in Inside => pc'[q] = pc[q]
    BY <1>2, <1>a DEF Open, Goto, Inside
  <2>2. Decode(file') = Decode(file)
    BY <1>2, Forms DEF Open
  <2>3. file \in {Empty, V2(mem[q])} => file' = file
    BY <1>2, Forms DEF Open
  <2> QED
    BY <1>1, <1>2, <2>1, <2>2, <2>3 DEF Open, Inside
<1>3. CASE Flock(p)
  <2>1. pc[q] \notin Inside
    BY <1>1, <1>3, <1>a DEF Flock
  <2> QED
    BY <1>3, <1>a, <2>1 DEF Flock, Goto, Inside
<1>4. CASE DecodeLocked(p)
  <2>1. CASE Exit(p, "error")
    BY <1>4, <1>e, <2>1 DEF DecodeLocked
  <2>2. CASE ~Exit(p, "error")
    BY <1>1, <1>4, <1>a, <2>2 DEF DecodeLocked, Goto, Inside
  <2> QED
    BY <2>1, <2>2
<1>5. CASE Callback(p)
  <2>1. CASE Exit(p, "error")
    BY <1>5, <1>e, <2>1 DEF Callback
  <2>2. ASSUME NEW j \in Mutations(mem[p]), mem' = [mem EXCEPT ![p] = j],
               Goto(p, "truncate"), UNCHANGED <<lock, file>>, pc[p] = "callback"
        PROVE  Inv(q)'
    <3>1. mem[p] = Decode(file) /\ mem[p] \in Indexes /\ lock = p
      BY <1>1, <1>a, <2>2 DEF Inside
    <3>2. q # p => pc[q] \notin Inside
      BY <1>x, <2>2 DEF Inside
    <3> QED
      BY <1>a, <2>2, <3>1, <3>2 DEF Goto, Inside
  <2>3. Applied(mem[p]) \subseteq Mutations(mem[p])
    BY DEF Mutations
  <2> QED
    BY <1>5, <2>1, <2>2, <2>3 DEF Callback
<1>6. CASE Truncate(p)
  BY <1>1, <1>6, <1>a, <1>x DEF Truncate, Goto, Inside
<1>7. CASE Encode(p)
  BY <1>1, <1>7, <1>a, <1>x DEF Encode, Goto, Inside
<1>8. CASE Sync(p)
  BY <1>8, <1>e DEF Sync, TypeOK
<1>9. CASE Fail(p)
  BY <1>9, <1>e, <1>x DEF Fail, Inside
<1>10. CASE Kill(p)
  BY <1>10, <1>e, <1>x DEF Kill, Inside
<1> QED
  BY <1>2, <1>3, <1>4, <1>5, <1>6, <1>7, <1>8, <1>9, <1>10 DEF WithLock

(* Every step, of a writer or a reader, keeps WriterInv.                     *)
LEMMA WriterStays == TypeOK /\ WriterInv /\ [Next]_vars => WriterInv'
<1> SUFFICES ASSUME TypeOK, WriterInv, [Next]_vars PROVE WriterInv'
  OBVIOUS
<1>1. ASSUME UNCHANGED <<file, writerVars>> PROVE WriterInv'
  BY <1>1 DEF writerVars, WriterInv
<1>2. CASE UNCHANGED vars
  BY <1>1, <1>2 DEF vars
<1>3. CASE Next
  BY <1>1, <1>3, WriterStep DEF Next, Load
<1> QED
  BY <1>2, <1>3

(* The invariant of the writers, for every behaviour.                        *)
LEMMA WriterInvariant == Spec => [](TypeOK /\ WriterInv /\ RegisterIs)
<1>1. Init => WriterInv
  BY DEF Init, WriterInv, Inside
<1>2. Init => TypeOK
  BY NewIndexTyped, InputsAreTyped DEF Init, TypeOK, PCs
<1> QED
  BY <1>1, <1>2, TypeStep, WriterStays, RegisterKnown, PTL DEF Spec

(* A file that cannot be decoded stays as it is (UnreadableIsKept): only the *)
(* holder of the flock truncates, and it has decoded the file it truncates.  *)
THEOREM UnreadableStays == Spec => UnreadableIsKept
<1>1. ASSUME TypeOK, WriterInv, [Next]_vars, Decode(file) = Unreadable
      PROVE  file' = file
  <2>1. ASSUME NEW p \in Writers, WithLock(p) PROVE file' = file
    <3>1. Unreadable # NewIndex
      BY NewIndexTyped, UnreadableIsNoIndex
    <3>2. pc[p] # "encode" /\ pc[p] # "truncate"
      BY <1>1, <3>1, Forms, UnreadableIsNoIndex DEF WriterInv
    <3>3. file # Absent
      BY <1>1, <3>1, Forms
    <3> QED
      BY <2>1, <3>2, <3>3 DEF WithLock, Open, Flock, DecodeLocked, Callback,
           Truncate, Encode, Sync, Fail, Kill
  <2> QED
    BY <1>1, <2>1 DEF Next, Load, vars
<1>2. TypeOK /\ WriterInv /\ [Next]_vars => [Decode(file) = Unreadable => file' = file]_vars
  BY <1>1
<1> QED
  BY <1>2, WriterInvariant, PTL DEF Spec, UnreadableIsKept

-------------------------------------------------------------------------------
(* WithLock implements the register.                                         *)

(* The register's operators on indexes are the file's.                       *)
LEMMA SameData ==
  /\ Atomic!Indexes = Indexes /\ Atomic!NewIndex = NewIndex
  /\ \A i : Atomic!Mutations(i) = Mutations(i)
<1>1. Atomic!Indexes = Indexes
  BY DEF Atomic!Indexes, Indexes, Atomic!Partial, Partial
<1>2. Atomic!NewIndex = NewIndex
  BY DEF Atomic!NewIndex, NewIndex, Atomic!NoTokens, NoTokens
<1>3. \A i : Atomic!Mutations(i) = Mutations(i)
  BY DEF Atomic!Mutations, Mutations, Atomic!Applied, Applied, Atomic!UseProfile, UseProfile,
     Atomic!AddProfile, AddProfile, Atomic!Delete, Delete, Atomic!Set, Set,
     Atomic!Profile, Profile, Atomic!All, All, Atomic!HasProfile, HasProfile,
     Atomic!NoTokens, NoTokens, Atomic!Partial, Partial
<1> QED
  BY <1>1, <1>2, <1>3

(* A writer that goes on moves its own status and nobody else's.             *)
LEMMA StatusStep ==
  ASSUME TypeOK, NEW p \in Writers, NEW s, Goto(p, s)
  PROVE  Status' = [Status EXCEPT ![p] = StatusAt(s)] /\ Status[p] = StatusAt(pc[p])
BY DEF TypeOK, Goto, Status

(* Going on within one status changes none.                                  *)
LEMMA StatusUnchanged ==
  ASSUME TypeOK, NEW p \in Writers, NEW s, Goto(p, s), StatusAt(s) = StatusAt(pc[p])
  PROVE  Status' = Status
<1>1. Status \in [Writers -> {StatusAt(pc[q]) : q \in Writers}]
  BY DEF Status
<1> QED
  BY <1>1, StatusStep

(* Where the register holds someone.                                         *)
LEMMA HoldingIsInside ==
  ASSUME TypeOK, NEW p \in Writers
  PROVE  Status[p] \in Atomic!Holding => pc[p] \in Inside \ {"decode"}
BY DEF TypeOK, PCs, Status, StatusAt, Atomic!Holding, Inside

(* A writer that is outside the rewrite before and after does not change     *)
(* the register as long as the file keeps its meaning.                       *)
LEMMA RegisterKept ==
  ASSUME TypeOK, WriterInv, RegisterIs, RegisterIs', NEW p \in Writers,
         NEW s \in PCs \ {"encode"}, Goto(p, s), pc[p] # "encode",
         \A q \in Writers \ {p} : mem'[q] = mem[q],
         Decode(file)' = Decode(file)
  PROVE  Register' = Register
<1>1. \A q \in Writers : pc'[q] = "encode" <=> pc[q] = "encode"
  BY DEF TypeOK, Goto
<1>2. CASE Rewriting
  <2>1. PICK q \in Writers : pc[q] = "encode"
    BY <1>2 DEF Rewriting
  <2>2. Register = mem[q] /\ Register' = mem'[q]
    BY <1>1, <2>1 DEF RegisterIs
  <2> QED
    BY <2>1, <2>2
<1>3. CASE ~Rewriting
  <2>1. ~Rewriting'
    BY <1>1, <1>3 DEF Rewriting
  <2> QED
    BY <1>3, <2>1 DEF RegisterIs
<1> QED
  BY <1>2, <1>3

(* A step of WithLock is a step of the register, or none.                    *)
LEMMA WriterRefines ==
  ASSUME TypeOK, WriterInv, RegisterIs, WriterInv', RegisterIs', TypeOK',
         NEW p \in Writers, WithLock(p)
  PROVE  Atomic!Next \/ UNCHANGED <<Register, Status>>
<1>a. pc \in [Writers -> PCs] /\ mem \in [Writers -> Indexes]
  BY DEF TypeOK
<1>b. ASSUME NEW s \in PCs \ {"encode"}, Goto(p, s), pc[p] # "encode",
             mem' = mem \/ \E i : mem' = [mem EXCEPT ![p] = i],
             Decode(file)' = Decode(file)
      PROVE  Register' = Register
  <2>1. \A q \in Writers \ {p} : mem'[q] = mem[q]
    BY <1>a, <1>b
  <2> QED
    BY <1>b, <2>1, RegisterKept
<1>i. ASSUME pc[p] = "encode"
      PROVE  /\ \A q \in Writers : q # p => pc[q] # "encode"
             /\ Register = mem[p]
  BY <1>i, OneInside DEF RegisterIs, Inside
<1>n. ASSUME pc'[p] # "encode", \A q \in Writers : q # p => pc'[q] # "encode"
      PROVE  Register' = Decode(file)'
  BY <1>n DEF RegisterIs, Rewriting
<1>s. ASSUME NEW s \in PCs, Goto(p, s)
      PROVE  /\ Status' = [Status EXCEPT ![p] = StatusAt(s)]
             /\ Status[p] = StatusAt(pc[p])
             /\ StatusAt(s) = StatusAt(pc[p]) => Status' = Status
  BY <1>s, StatusStep, StatusUnchanged
<1>e. ASSUME NEW s \in {"error", "killed"}, Exit(p, s), pc[p] # "sync",
             pc[p] \in {"idle", "lock", "decode", "callback", "truncate", "encode"},
             file' = file \/ (pc[p] = "encode" /\ file' = Torn)
      PROVE  Atomic!Abort(p) \/ Atomic!Lose(p)
  <2>1. Status' = [Status EXCEPT ![p] = s] /\ Status[p] = StatusAt(pc[p])
    BY <1>e, <1>s DEF Exit, StatusAt, PCs
  <2>2. CASE pc[p] # "encode"
    <3>1. Register' = Register
      BY <1>b, <1>e, <2>2 DEF Exit, PCs
    <3>2. Status[p] \in {"idle", "running"}
      BY <1>e, <2>1, <2>2 DEF StatusAt
    <3> QED
      BY <2>1, <3>1, <3>2 DEF Atomic!Abort, Atomic!Become
  <2>3. CASE pc[p] = "encode"
    <3>1. Register' = Decode(file)'
      BY <1>a, <1>e, <1>i, <1>n, <2>3 DEF Exit, Goto
    <3>2. Register' \in {Atomic!NewIndex, Unreadable}
      BY <1>e, <2>3, <3>1, Forms, SameData DEF WriterInv
    <3>3. Status[p] = "committing"
      BY <2>1, <2>3 DEF StatusAt
    <3> QED
      BY <2>1, <3>2, <3>3 DEF Atomic!Lose, Atomic!Become
  <2> QED
    BY <2>2, <2>3
<1>f. ASSUME NEW s \in {"nil", "error", "killed"}, Exit(p, s), pc[p] = "sync", file' = file
      PROVE  Atomic!Finish(p)
  <2>1. Status' = [Status EXCEPT ![p] = s] /\ Status[p] = "committed"
    BY <1>f, <1>s DEF Exit, StatusAt, PCs
  <2>2. Register' = Register
    BY <1>b, <1>f DEF Exit, PCs
  <2> QED
    BY <2>1, <2>2 DEF Atomic!Finish, Atomic!Become, Atomic!Returned
<1>1. CASE Open(p)
  <2>1. Decode(file)' = Decode(file)
    BY <1>1, Forms DEF Open
  <2>2. Register' = Register
    BY <1>1, <1>b, <2>1 DEF Open, PCs
  <2>3. Status' = Status
    BY <1>1, <1>s DEF Open, PCs, StatusAt
  <2> QED
    BY <2>2, <2>3
<1>2. CASE Flock(p)
  <2>1. Register' = Register
    BY <1>2, <1>b DEF Flock, PCs
  <2>2. Status' = Status
    BY <1>2, <1>s DEF Flock, PCs, StatusAt
  <2> QED
    BY <2>1, <2>2
<1>3. CASE DecodeLocked(p)
  <2>1. CASE Decode(file) = Unreadable
    BY <1>3, <1>e, <2>1 DEF DecodeLocked, Atomic!Next
  <2>2. CASE Decode(file) # Unreadable
    <3>1. Goto(p, "callback") /\ file' = file /\ pc[p] = "decode"
      BY <1>3, <2>2 DEF DecodeLocked
    <3>2. Register' = Register
      BY <1>3, <1>b, <2>2, <3>1 DEF DecodeLocked, PCs
    <3>3. Status' = [Status EXCEPT ![p] = "running"] /\ Status[p] = "idle"
      BY <1>s, <3>1 DEF PCs, StatusAt
    <3>4. \A q \in Writers : q # p => pc[q] \notin Inside
      BY <3>1, OneInside DEF Inside
    <3>5. \A q \in Writers : Status[q] \notin Atomic!Holding
      BY <3>1, <3>4, HoldingIsInside
    <3>6. Register # Unreadable
      <4>1. ~Rewriting
        BY <3>1, <3>4 DEF Rewriting, Inside
      <4> QED
        BY <2>2, <4>1 DEF RegisterIs
    <3>7. Atomic!Begin(p)
      BY <3>2, <3>3, <3>5, <3>6 DEF Atomic!Begin, Atomic!Become
    <3> QED
      BY <3>7 DEF Atomic!Next
  <2> QED
    BY <2>1, <2>2
<1>4. CASE Callback(p)
  <2>1. CASE Exit(p, "error")
    BY <1>4, <1>e, <2>1 DEF Callback, Atomic!Next
  <2>2. CASE ~Exit(p, "error")
    <3>1. /\ Goto(p, "truncate") /\ file' = file /\ pc[p] = "callback"
          /\ \E i : mem' = [mem EXCEPT ![p] = i]
      BY <1>4, <2>2 DEF Callback
    <3>2. Register' = Register
      BY <1>b, <3>1 DEF PCs
    <3>3. Status' = Status
      BY <1>s, <3>1 DEF PCs, StatusAt
    <3> QED
      BY <3>2, <3>3
  <2> QED
    BY <2>1, <2>2
<1>5. CASE Truncate(p)
  <2>1. Goto(p, "encode") /\ pc[p] = "truncate" /\ mem' = mem
    BY <1>5 DEF Truncate
  <2>2. Status' = [Status EXCEPT ![p] = "committing"] /\ Status[p] = "running"
    BY <1>s, <2>1 DEF PCs, StatusAt
  <2>3. Register = Decode(file)
    <3>1. \A q \in Writers : pc[q] # "encode"
      BY <2>1, OneInside DEF Inside
    <3> QED
      BY <3>1 DEF RegisterIs, Rewriting
  <2>4. Register' = mem[p]
    BY <1>a, <2>1 DEF Goto, RegisterIs
  <2>5. mem[p] \in Atomic!Mutations(Register)
    BY <2>1, <2>3, SameData DEF WriterInv
  <2> QED
    BY <2>2, <2>4, <2>5 DEF Atomic!Commit, Atomic!Become, Atomic!Next
<1>6. CASE Encode(p)
  <2>1. Goto(p, "sync") /\ pc[p] = "encode" /\ mem' = mem /\ file' = V2(mem[p])
    BY <1>6 DEF Encode
  <2>2. Status' = [Status EXCEPT ![p] = "committed"] /\ Status[p] = "committing"
    BY <1>s, <2>1 DEF PCs, StatusAt
  <2>3. Register' = Decode(file)'
    BY <1>a, <1>i, <1>n, <2>1 DEF Goto
  <2>4. Register' = Register
    BY <1>i, <2>1, <2>3, Forms
  <2> QED
    BY <2>2, <2>4 DEF Atomic!Settle, Atomic!Become, Atomic!Next
<1>7. CASE Sync(p)
  <2>1. ret[p] \in {"nil", "error", "killed"}
    BY DEF TypeOK
  <2> QED
    BY <1>7, <1>f, <2>1 DEF Sync, Atomic!Next
<1>8. CASE Fail(p)
  <2>1. CASE pc[p] = "sync"
    BY <1>8, <1>f, <2>1 DEF Fail, Atomic!Next
  <2>2. CASE pc[p] # "sync"
    BY <1>8, <1>e, <2>2 DEF Fail, Atomic!Next
  <2> QED
    BY <2>1, <2>2
<1>9. CASE Kill(p)
  <2>1. CASE pc[p] = "sync"
    BY <1>9, <1>f, <2>1 DEF Kill, Atomic!Next
  <2>2. CASE pc[p] # "sync"
    BY <1>9, <1>e, <2>2 DEF Kill, Atomic!Next
  <2> QED
    BY <2>1, <2>2
<1> QED
  BY <1>1, <1>2, <1>3, <1>4, <1>5, <1>6, <1>7, <1>8, <1>9 DEF WithLock

(* WithLockIsAtomic: callbacks run one at a time on the current index, and   *)
(* no result is lost to another's (index.go:182-213).                        *)
THEOREM WithLockRefines == Spec => WithLockIsAtomic
<1>1. Init => Atomic!Init
  <2> SUFFICES ASSUME Init PROVE Atomic!Init
    OBVIOUS
  <2>1. Register = Decode(file) /\ file \in Files
    BY InputsAreTyped DEF Init, Register, Rewriting
  <2>2. Register \in Atomic!Indexes \cup {Unreadable}
    BY <2>1, DecodeTyped, SameData
  <2>3. Status = [p \in Writers |-> "idle"]
    BY DEF Init, Status, StatusAt
  <2> QED
    BY <2>2, <2>3 DEF Atomic!Init
<1>2. /\ TypeOK /\ WriterInv /\ RegisterIs /\ TypeOK' /\ WriterInv' /\ RegisterIs'
      /\ [Next]_vars
      => [Atomic!Next]_(Atomic!vars)
  <2> SUFFICES ASSUME TypeOK, WriterInv, RegisterIs, TypeOK', WriterInv', RegisterIs', [Next]_vars
               PROVE  Atomic!Next \/ UNCHANGED <<Register, Status>>
    BY DEF Atomic!vars
  <2>1. ASSUME UNCHANGED <<file, writerVars>> PROVE UNCHANGED <<Register, Status>>
    BY <2>1 DEF writerVars, Register, Rewriting, Status
  <2>2. CASE UNCHANGED vars
    BY <2>1, <2>2 DEF vars
  <2>3. CASE Next
    BY <2>1, <2>3, WriterRefines DEF Next, Load
  <2> QED
    BY <2>2, <2>3
<1> QED
  BY <1>1, <1>2, WriterInvariant, PTL DEF Spec, WithLockIsAtomic, Atomic!Spec

-------------------------------------------------------------------------------
(* The readers.                                                              *)

(* The file never disappears, and changes only in a rewrite.                 *)
LEMMA FileChange ==
  ASSUME TypeOK, NEW p \in Writers, WithLock(p), file # Absent
  PROVE  file' # Absent /\ (~Rewriting /\ ~Rewriting' => file' = file)
<1>1. file' # Absent
  BY Forms DEF WithLock, Open, Flock, DecodeLocked, Callback, Truncate, Encode, Sync, Fail, Kill
<1>2. CASE Truncate(p)
  <2>1. Rewriting'
    BY <1>2 DEF Truncate, Goto, Rewriting, TypeOK
  <2> QED
    BY <1>1, <2>1
<1>3. CASE pc[p] = "encode"
  BY <1>1, <1>3 DEF Rewriting
<1>4. CASE ~Truncate(p) /\ pc[p] # "encode"
  BY <1>1, <1>4 DEF WithLock, Open, Flock, DecodeLocked, Callback, Encode, Sync, Fail, Kill
<1> QED
  BY <1>2, <1>3, <1>4

(* What Watch keeps of a load: it is not over, or was over already.          *)
LEMMA Watched ==
  ASSUME Watch, NEW r \in Readers
  PROVE  /\ rpc[r] = "done" => basis'[r] = basis[r] /\ calm'[r] = calm[r]
         /\ rpc[r] # "done" /\ rpc'[r] # "idle" =>
              basis'[r] = basis[r] \cup {Register'} /\ calm'[r] = (calm[r] /\ ~Rewriting')
BY DEF Watch

(* What LoadInventsNothing allows a load to have returned.                   *)
Allowed(r) ==
  \/ seen[r] \in basis[r]
  \/ ~calm[r] /\ \/ seen[r] \in {NewIndex, Unreadable}
                 \/ /\ head[r] # NoFile
                    /\ \E i \in basis[r] : i # Unreadable /\ i.current = seen[r].current

(* A load that returns has a result LoadInventsNothing allows.               *)
LEMMA ReaderStep ==
  ASSUME TypeOK, WriterInv, RegisterIs, ReaderInv, NEW r \in Readers, Load(r), Watch
  PROVE  rpc'[r] = "done" => Allowed(r)'
<1> USE DEF Allowed
<1> SUFFICES ASSUME rpc'[r] = "done" PROVE Allowed(r)'
  OBVIOUS
<1>a. UNCHANGED <<file, writerVars>>
  BY DEF Load
<1>b. Register' = Register /\ Rewriting' = Rewriting
  BY <1>a DEF writerVars, Register, Rewriting
<1>c. rpc[r] # "done"
  BY DEF Load, LoadOpen, Stat, Read, ReadRest
<1>d. Register \in basis'[r] /\ (calm'[r] => calm[r] /\ ~Rewriting)
  BY <1>b, <1>c, Watched
<1>e. ~Rewriting => Register = Decode(file)
  BY DEF RegisterIs
<1>f. Rewriting => file = Empty
  BY DEF Rewriting, WriterInv
<1>g. file # Empty /\ file # Absent => Parse(file) = Register
  BY <1>e, <1>f, ParseDecode DEF TypeOK
<1>h. rpc \in [Readers -> {"idle", "stat", "read", "rest", "done"}] /\ seen \in [Readers -> Indexes \cup {Unreadable}]
  BY DEF TypeOK
<1>i. ASSUME NEW i, Return(r, i) PROVE seen'[r] = i
  BY <1>h, <1>i DEF Return
<1>1. CASE LoadOpen(r)
  <2>1. file = Absent /\ seen'[r] = NewIndex
    BY <1>1, <1>h, <1>i DEF LoadOpen
  <2>2. ~Rewriting
    BY <1>f, <2>1, Forms
  <2> QED
    BY <1>d, <1>e, <2>1, <2>2, Forms
<1>2. CASE Stat(r)
  <2>1. file = Empty /\ seen'[r] = NewIndex
    BY <1>2, <1>h, <1>i DEF Stat
  <2> QED
    BY <1>d, <1>e, <2>1, Forms
<1>3. CASE Read(r)
  <2>1. seen'[r] = Parse(file) /\ rpc[r] = "read"
    BY <1>3, <1>h, <1>i DEF Read
  <2>2. CASE file = Empty
    BY <1>d, <2>1, <2>2, Forms DEF ReaderInv
  <2>3. CASE file # Empty
    BY <1>d, <1>g, <2>1, <2>3 DEF ReaderInv
  <2> QED
    BY <2>2, <2>3
<1>4. CASE ReadRest(r)
  <2>1. rpc[r] = "rest" /\ head'[r] = head[r] /\ head[r] # NoFile
    BY <1>4 DEF ReadRest, ReaderInv
  <2>2. CASE file = head[r]
    <3>1. Parse(head[r]) \in basis'[r]
      BY <1>c, <2>1, Watched DEF ReaderInv
    <3>2. seen'[r] = Parse(file)
      BY <1>4, <1>i, <2>2 DEF ReadRest
    <3> QED
      BY <2>2, <3>1, <3>2
  <2>3. CASE file # head[r]
    <3>1. ~calm'[r]
      BY <1>d, <2>1, <2>3 DEF ReaderInv
    <3>2. PICK i \in Mixtures(head[r], file) : seen'[r] = i
      BY <1>4, <1>i, <2>3 DEF ReadRest
    <3>3. i # Unreadable => Parse(head[r]) # Unreadable /\ i.current = Parse(head[r]).current
      BY DEF Mixtures
    <3>4. Parse(head[r]) \in basis'[r]
      BY <1>c, <2>1, Watched DEF ReaderInv
    <3> QED
      BY <2>1, <3>1, <3>2, <3>3, <3>4
  <2> QED
    BY <2>2, <2>3
<1> QED
  BY <1>1, <1>2, <1>3, <1>4 DEF Load

(* A load that goes on keeps what ReaderInv says of it.                      *)
LEMMA ReaderKeeps ==
  ASSUME TypeOK, WriterInv, RegisterIs, ReaderInv, NEW r \in Readers, Load(r), Watch
  PROVE  /\ rpc'[r] \in {"stat", "read", "rest"} =>
              file' # Absent /\ Register' \in basis'[r] /\ (calm'[r] => ~Rewriting')
         /\ rpc'[r] \in {"read", "rest"} /\ calm'[r] => file' # Empty
         /\ rpc'[r] = "rest" => /\ head'[r] # NoFile /\ Parse(head'[r]) \in basis'[r]
                                /\ calm'[r] => file' = head'[r]
<1>a. UNCHANGED <<file, writerVars>>
  BY DEF Load
<1>h. /\ rpc \in [Readers -> {"idle", "stat", "read", "rest", "done"}]
      /\ head \in [Readers -> Files \cup {NoFile}] /\ file \in Files
  BY DEF TypeOK
<1>c. rpc[r] # "done"
  BY DEF Load, LoadOpen, Stat, Read, ReadRest
<1>d. rpc'[r] # "idle" => Register' \in basis'[r] /\ (calm'[r] => calm[r] /\ ~Rewriting')
  BY <1>c, Watched
<1>1. CASE LoadOpen(r)
  BY <1>1, <1>a, <1>d, <1>h DEF LoadOpen, Return
<1>2. CASE Stat(r)
  BY <1>2, <1>a, <1>d, <1>h DEF Stat, Return, ReaderInv
<1>3. CASE Read(r)
  <2>1. file # Empty /\ file # Absent => Parse(file) = Register'
    <3>1. Rewriting => file = Empty
      BY DEF Rewriting, WriterInv
    <3>2. Register' = Register
      BY <1>a DEF writerVars, Register, Rewriting
    <3> QED
      BY <1>h, <3>1, <3>2, ParseDecode DEF RegisterIs
  <2> QED
    BY <1>3, <1>a, <1>d, <1>h, <2>1, SentinelsAreFresh DEF Read, Return, ReaderInv
<1>4. CASE ReadRest(r)
  BY <1>4, <1>h DEF ReadRest, Return
<1> QED
  BY <1>1, <1>2, <1>3, <1>4 DEF Load

(* Every step keeps ReaderInv and LoadInventsNothing.                        *)
LEMMA LoadStep ==
  ASSUME TypeOK, WriterInv, RegisterIs, ReaderInv, LoadInventsNothing, Next
  PROVE  ReaderInv' /\ LoadInventsNothing'
<1> DEFINE Inv(r) ==
      /\ rpc[r] \in {"stat", "read", "rest"} =>
           file # Absent /\ Register \in basis[r] /\ (calm[r] => ~Rewriting)
      /\ rpc[r] \in {"read", "rest"} /\ calm[r] => file # Empty
      /\ rpc[r] = "rest" => /\ head[r] # NoFile /\ Parse(head[r]) \in basis[r]
                            /\ calm[r] => file = head[r]
             Out(r) == rpc[r] = "done" => Allowed(r)
<1>1. \A r \in Readers : Inv(r) /\ Out(r)
  BY DEF ReaderInv, LoadInventsNothing, Allowed
<1> SUFFICES ASSUME NEW r \in Readers PROVE Inv(r)' /\ Out(r)'
  BY DEF ReaderInv, LoadInventsNothing, Allowed
<1>w. Watch
  BY DEF Next
<1>2. ASSUME NEW p \in Writers, WithLock(p) PROVE Inv(r)' /\ Out(r)'
  <2>1. rpc' = rpc /\ head' = head /\ seen' = seen
    BY <1>2 DEF WithLock, readerVars
  <2>2. CASE rpc[r] = "done"
    BY <1>1, <1>w, <2>1, <2>2, Watched DEF Allowed
  <2>3. CASE rpc[r] \in {"stat", "read", "rest"}
    <3>1. basis'[r] = basis[r] \cup {Register'} /\ calm'[r] = (calm[r] /\ ~Rewriting')
      BY <1>w, <2>1, <2>3, Watched
    <3>2. file' # Absent /\ (~Rewriting /\ ~Rewriting' => file' = file)
      BY <1>1, <1>2, <2>3, FileChange
    <3> QED
      BY <1>1, <2>1, <2>3, <3>1, <3>2
  <2>4. CASE rpc[r] = "idle"
    BY <2>1, <2>4
  <2> QED
    BY <2>2, <2>3, <2>4 DEF TypeOK
<1>3. ASSUME NEW s \in Readers, Load(s), s # r PROVE Inv(r)' /\ Out(r)'
  <2>1. UNCHANGED <<file, writerVars>>
    BY <1>3 DEF Load
  <2>2. Register' = Register /\ Rewriting' = Rewriting
    BY <2>1 DEF writerVars, Register, Rewriting
  <2>3. rpc'[r] = rpc[r] /\ head'[r] = head[r] /\ seen'[r] = seen[r]
    BY <1>3 DEF Load, LoadOpen, Stat, Read, ReadRest, Return, TypeOK
  <2>4. CASE rpc[r] = "done"
    BY <1>1, <1>w, <2>3, <2>4, Watched DEF Allowed
  <2>5. CASE rpc[r] \in {"stat", "read", "rest"}
    <3>1. basis'[r] = basis[r] \cup {Register'} /\ calm'[r] = (calm[r] /\ ~Rewriting')
      BY <1>w, <2>3, <2>5, Watched
    <3> QED
      BY <1>1, <2>1, <2>2, <2>3, <2>5, <3>1
  <2>6. CASE rpc[r] = "idle"
    BY <2>3, <2>6
  <2> QED
    BY <2>4, <2>5, <2>6 DEF TypeOK
<1>4. ASSUME Load(r) PROVE Inv(r)' /\ Out(r)'
  BY <1>4, <1>w, ReaderStep, ReaderKeeps
<1> QED
  BY <1>2, <1>3, <1>4 DEF Next

(* LoadInventsNothing: what a load without the lock can return               *)
(* (index.go:161-171), for any number of concurrent writers and readers.     *)
THEOREM LoadsInventNothing == Spec => []LoadInventsNothing
<1>1. Init => ReaderInv /\ LoadInventsNothing
  BY DEF Init, ReaderInv, LoadInventsNothing
<1>2. TypeOK /\ WriterInv /\ RegisterIs /\ ReaderInv /\ LoadInventsNothing /\ [Next]_vars
      => ReaderInv' /\ LoadInventsNothing'
  <2> SUFFICES ASSUME TypeOK, WriterInv, RegisterIs, ReaderInv, LoadInventsNothing, [Next]_vars
               PROVE  ReaderInv' /\ LoadInventsNothing'
    OBVIOUS
  <2>1. CASE UNCHANGED vars
    BY <2>1 DEF vars, writerVars, readerVars, ReaderInv, LoadInventsNothing, Register, Rewriting
  <2>2. CASE Next
    BY <2>2, LoadStep
  <2> QED
    BY <2>1, <2>2
<1> QED
  BY <1>1, <1>2, WriterInvariant, PTL DEF Spec
================================================================================
