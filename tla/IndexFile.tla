------------------------------- MODULE IndexFile -------------------------------
(*****************************************************************************)
(* The index file under store.WithLock and store.Load, one system call to    *)
(* an action.  WithLock holds an exclusive flock from before it decodes      *)
(* until it returns, and writes by truncating the file and filling it        *)
(* again.  Load takes no lock: it opens the file, asks for its size, and     *)
(* reads it in one or more pieces, with the writers free to move between.    *)
(* Bytes are left out: a file is one of the forms below, and what a reader   *)
(* can make of two pieces of different contents is Mixtures.                 *)
(*****************************************************************************)
EXTENDS IndexData

CONSTANTS
  Writers,   \* invocations inside WithLock, one call each
  Readers,   \* invocations inside Load, one call each
  Files0,    \* the files there can be before any of them runs
  Faults,    \* whether a system call may fail
  Crashes,   \* whether an invocation may be killed
  NoWriter, NoFile

VARIABLES
  file,      \* the content of the file
  lock,      \* the writer that holds the flock, or NoWriter
  pc, mem,   \* writers: where each is, the index it decoded and changed
  ret,       \* whether its callback returned nil or a PartialError
  rpc,       \* readers: where each is
  head,      \* the first piece it read, if it read the file in pieces
  seen,      \* what Load returned
  basis,     \* history: the values the index had while the load ran
  calm       \* history: no rewrite was under way while it ran

PCs == {"idle", "lock", "decode", "callback", "truncate", "encode", "sync",
        "nil", "error", "killed"}
writerVars == <<lock, pc, mem, ret>>
readerVars == <<rpc, head, seen>>
vars == <<file, writerVars, readerVars, basis, calm>>

-------------------------------------------------------------------------------
(* The forms: no file, an empty one, version 1, version 2, one with another  *)
(* version number, and a proper prefix of an encoded index.                  *)
Absent == [form |-> "absent"]
Empty == [form |-> "empty"]
Torn == [form |-> "torn"]
Foreign == [form |-> "foreign"]
V1(tokens) == [form |-> "v1", tokens |-> tokens]
V2(i) == [form |-> "v2", idx |-> i]
Files == {Absent, Empty, Torn, Foreign} \cup {V1(t) : t \in Partial(Names, Ids)}
           \cup {V2(i) : i \in Indexes}

ASSUME SentinelsAreFresh == NoWriter \notin Writers /\ NoFile \notin Files
ASSUME InputsAreTyped ==
  /\ Files0 \subseteq Files
  /\ Faults \in BOOLEAN /\ Crashes \in BOOLEAN

(* The JSON of a file read whole.  An empty stream is no JSON value; only    *)
(* the size check before it makes an empty file an empty index.              *)
Parse(f) ==
  CASE f.form = "v1" -> Migrated(f.tokens)
    [] f.form = "v2" -> f.idx
    [] OTHER -> Unreadable
Decode(f) == IF f.form \in {"absent", "empty"} THEN NewIndex ELSE Parse(f)

(* The beginning of one file and the rest of another: an error, or, where    *)
(* the pieces happen to fit, the current pointer of the first, which stands  *)
(* before the profiles, with anything below: an entry that is cut may give a *)
(* name another's ID, and what follows may land in another profile.          *)
Mixtures(f, g) ==
  {Unreadable} \cup
  {k \in Indexes : /\ Parse(f) # Unreadable /\ g # Empty
                   /\ k.current = Parse(f).current}

Rewriting == \E p \in Writers : pc[p] = "encode"

(* The value of the index: while the file is being filled again, the one     *)
(* that is going in.                                                         *)
Register ==
  IF Rewriting THEN mem[CHOOSE p \in Writers : pc[p] = "encode"] ELSE Decode(file)

-------------------------------------------------------------------------------
Init ==
  /\ file \in Files0 /\ lock = NoWriter
  /\ pc = [p \in Writers |-> "idle"] /\ mem = [p \in Writers |-> NewIndex]
  /\ ret = [p \in Writers |-> "nil"]
  /\ rpc = [r \in Readers |-> "idle"] /\ head = [r \in Readers |-> NoFile]
  /\ seen = [r \in Readers |-> Unreadable]
  /\ basis = [r \in Readers |-> {}] /\ calm = [r \in Readers |-> TRUE]

Goto(p, s) == pc' = [pc EXCEPT ![p] = s]

(* WithLock returns, or the process dies: closing the file drops the flock.  *)
Exit(p, s) ==
  /\ Goto(p, s)
  /\ lock' = IF lock = p THEN NoWriter ELSE lock
  /\ mem' = [mem EXCEPT ![p] = NewIndex] /\ ret' = [ret EXCEPT ![p] = "nil"]

Open(p) ==
  /\ pc[p] = "idle" /\ Goto(p, "lock")
  /\ file' = IF file = Absent THEN Empty ELSE file
  /\ UNCHANGED <<lock, mem, ret>>

(* Mutant of Flock: the lock is not taken.                                   *)
Flock_Skipped(p) ==
  /\ pc[p] = "lock" /\ Goto(p, "decode")
  /\ UNCHANGED <<file, lock, mem, ret>>

Flock(p) ==
  /\ pc[p] = "lock" /\ lock = NoWriter
  /\ lock' = p /\ Goto(p, "decode")
  /\ UNCHANGED <<file, mem, ret>>

(* Mutant of DecodeLocked: an unreadable file is taken for an empty one.     *)
DecodeLocked_StartsAfresh(p) ==
  /\ pc[p] = "decode" /\ UNCHANGED file
  /\ Goto(p, "callback")
  /\ mem' = [mem EXCEPT ![p] = IF Decode(file) = Unreadable THEN NewIndex ELSE Decode(file)]
  /\ UNCHANGED <<lock, ret>>

(* Mutant of DecodeLocked: the decoding error is not looked at.              *)
DecodeLocked_Unchecked(p) ==
  /\ pc[p] = "decode" /\ UNCHANGED file
  /\ Goto(p, "callback")
  /\ mem' = [mem EXCEPT ![p] = Decode(file)]
  /\ UNCHANGED <<lock, ret>>

DecodeLocked(p) ==
  /\ pc[p] = "decode" /\ UNCHANGED file
  /\ IF Decode(file) = Unreadable THEN Exit(p, "error")
     ELSE /\ Goto(p, "callback")
          /\ mem' = [mem EXCEPT ![p] = Decode(file)]
          /\ UNCHANGED <<lock, ret>>

(* fn(idx): nil with its changes, a PartialError from apply with the part    *)
(* it did, or an error that discards what it did in memory.                  *)
Callback(p) ==
  /\ pc[p] = "callback" /\ UNCHANGED file
  /\ \/ \E j \in Mutations(mem[p]) :
          mem' = [mem EXCEPT ![p] = j] /\ Goto(p, "truncate") /\ UNCHANGED <<lock, ret>>
     \/ \E j \in Applied(mem[p]) :
          /\ mem' = [mem EXCEPT ![p] = j] /\ ret' = [ret EXCEPT ![p] = "error"]
          /\ Goto(p, "truncate") /\ UNCHANGED lock
     \/ Exit(p, "error")

(* Mutant of Truncate: the old content stays until it is written over.       *)
Truncate_Skipped(p) ==
  /\ pc[p] = "truncate" /\ UNCHANGED file
  /\ Goto(p, "encode") /\ UNCHANGED <<lock, mem, ret>>

Truncate(p) ==
  /\ pc[p] = "truncate" /\ file' = Empty
  /\ Goto(p, "encode") /\ UNCHANGED <<lock, mem, ret>>

Encode(p) ==
  /\ pc[p] = "encode" /\ file' = V2(mem[p])
  /\ Goto(p, "sync") /\ UNCHANGED <<lock, mem, ret>>

Sync(p) == pc[p] = "sync" /\ Exit(p, ret[p]) /\ UNCHANGED file

(* A system call returns an error: WithLock returns it.  A write that fails  *)
(* may have put a prefix into the file, or nothing.                          *)
Fail(p) ==
  /\ Faults /\ pc[p] \in {"idle", "lock", "decode", "truncate", "encode", "sync"}
  /\ Exit(p, "error")
  /\ \/ UNCHANGED file
     \/ pc[p] = "encode" /\ file' = Torn

Kill(p) ==
  /\ Crashes
  /\ pc[p] \in {"idle", "lock", "decode", "callback", "truncate", "encode", "sync"}
  /\ Exit(p, "killed")
  /\ \/ UNCHANGED file
     \/ pc[p] = "encode" /\ file' = Torn

WithLock(p) ==
  /\ \/ Open(p) \/ Flock(p) \/ DecodeLocked(p) \/ Callback(p) \/ Truncate(p)
     \/ Encode(p) \/ Sync(p) \/ Fail(p) \/ Kill(p)
  /\ UNCHANGED readerVars

-------------------------------------------------------------------------------
Return(r, i) == seen' = [seen EXCEPT ![r] = i] /\ rpc' = [rpc EXCEPT ![r] = "done"]

LoadOpen(r) ==
  /\ rpc[r] = "idle"
  /\ IF file = Absent THEN Return(r, NewIndex)
     ELSE rpc' = [rpc EXCEPT ![r] = "stat"] /\ UNCHANGED seen
  /\ UNCHANGED head

Stat(r) ==
  /\ rpc[r] = "stat"
  /\ IF file = Empty THEN Return(r, NewIndex)
     ELSE rpc' = [rpc EXCEPT ![r] = "read"] /\ UNCHANGED seen
  /\ UNCHANGED head

(* The decoder reads what fits its buffer, and the rest, if any, later.  The *)
(* file may have been emptied since the size check: then it meets its end.   *)
Read(r) ==
  /\ rpc[r] = "read"
  /\ \/ Return(r, Parse(file)) /\ UNCHANGED head
     \/ /\ file # Empty
        /\ head' = [head EXCEPT ![r] = file]
        /\ rpc' = [rpc EXCEPT ![r] = "rest"] /\ UNCHANGED seen

ReadRest(r) ==
  /\ rpc[r] = "rest"
  /\ IF file = head[r] THEN Return(r, Parse(file))
     ELSE \E i \in Mixtures(head[r], file) : Return(r, i)
  /\ UNCHANGED head

Load(r) ==
  /\ LoadOpen(r) \/ Stat(r) \/ Read(r) \/ ReadRest(r)
  /\ UNCHANGED <<file, writerVars>>

(* The history of the loads that run.                                        *)
Watch ==
  /\ basis' = [r \in Readers |->
       IF rpc'[r] = "idle" \/ rpc[r] = "done" THEN basis[r] ELSE basis[r] \cup {Register'}]
  /\ calm' = [r \in Readers |->
       IF rpc'[r] = "idle" \/ rpc[r] = "done" THEN calm[r] ELSE calm[r] /\ ~Rewriting']

Next ==
  /\ (\E p \in Writers : WithLock(p)) \/ (\E r \in Readers : Load(r))
  /\ Watch

Spec == Init /\ [][Next]_vars
-------------------------------------------------------------------------------
(* The variables keep their types (mem is always a decoded index).           *)
TypeOK ==
  /\ file \in Files /\ lock \in Writers \cup {NoWriter}
  /\ pc \in [Writers -> PCs]
  /\ mem \in [Writers -> Indexes] /\ ret \in [Writers -> {"nil", "error"}]
  /\ rpc \in [Readers -> {"idle", "stat", "read", "rest", "done"}]
  /\ head \in [Readers -> Files \cup {NoFile}]
  /\ seen \in [Readers -> Indexes \cup {Unreadable}]
  /\ basis \in [Readers -> SUBSET (Indexes \cup {Unreadable})]
  /\ calm \in [Readers -> BOOLEAN]

StatusAt(s) ==
  CASE s \in {"idle", "lock", "decode"} -> "idle"
    [] s \in {"callback", "truncate"} -> "running"
    [] s = "encode" -> "committing"
    [] s = "sync" -> "committed"
    [] OTHER -> s
Status == [p \in Writers |-> StatusAt(pc[p])]
Atomic == INSTANCE IndexRegister WITH value <- Register, status <- Status

(* WithLock is an atomic read-modify-write (index.go:172-177): callbacks run *)
(* one at a time, on the current index, which does not change under them;    *)
(* a result is stored whole, none is lost to another's, a plain error        *)
(* leaves the index as it was, and only a failure between the truncation     *)
(* and the write loses it.                                                   *)
WithLockIsAtomic == Atomic!Spec

(* An index file WithLock cannot decode - a newer version, a torn write - is *)
(* never overwritten (index.go:199-202).                                     *)
UnreadableIsKept == [][Decode(file) = Unreadable => file' = file]_vars

(* A load, though it takes no lock (index.go:161-171), returns a value the   *)
(* index had while it ran, in however many pieces it reads the file; only    *)
(* if a rewrite was under way may it return something else: the empty index, *)
(* an error, or, if it read the file in pieces, an index whose current       *)
(* profile, at least, was the current one while it ran.                      *)
LoadInventsNothing ==
  \A r \in Readers : rpc[r] = "done" =>
    \/ seen[r] \in basis[r]
    \/ ~calm[r] /\ \/ seen[r] \in {NewIndex, Unreadable}
                   \/ /\ head[r] # NoFile
                      /\ \E i \in basis[r] : i # Unreadable /\ i.current = seen[r].current
===============================================================================
