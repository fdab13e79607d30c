----------------------------- MODULE IndexRegister -----------------------------
(*****************************************************************************)
(* What store.WithLock promises its callers: the index is one value that     *)
(* is read, changed and written back by one invocation at a time.  A         *)
(* callback's result takes effect at once or not at all, except that an      *)
(* invocation that dies or fails between emptying the file and filling it    *)
(* again (status "committing") loses the index: what is left is the empty    *)
(* index or an unreadable file.  An unreadable index admits no change.       *)
(*****************************************************************************)
EXTENDS IndexData

CONSTANT Writers

VARIABLES
  value,     \* the index, or Unreadable
  status     \* what each WithLock call is doing or has returned

vars == <<value, status>>
Holding == {"running", "committing", "committed"}
Returned == {"nil", "error", "killed"}

Init ==
  /\ value \in Indexes \cup {Unreadable}
  /\ status = [p \in Writers |-> "idle"]

Become(p, s) == status' = [status EXCEPT ![p] = s]

Begin(p) ==
  /\ status[p] = "idle" /\ \A q \in Writers : status[q] \notin Holding
  /\ value # Unreadable
  /\ Become(p, "running") /\ UNCHANGED value

Commit(p) ==
  /\ status[p] = "running"
  /\ value' \in Mutations(value)
  /\ Become(p, "committing")

Settle(p) == status[p] = "committing" /\ Become(p, "committed") /\ UNCHANGED value

(* A callback may return an error with its changes kept (PartialError).      *)
Finish(p) ==
  /\ status[p] = "committed"
  /\ \E s \in Returned : Become(p, s)
  /\ UNCHANGED value

Abort(p) ==
  /\ status[p] \in {"idle", "running"}
  /\ \E s \in {"error", "killed"} : Become(p, s)
  /\ UNCHANGED value

Lose(p) ==
  /\ status[p] = "committing"
  /\ value' \in {NewIndex, Unreadable}
  /\ \E s \in {"error", "killed"} : Become(p, s)

Next == \E p \in Writers :
  Begin(p) \/ Commit(p) \/ Settle(p) \/ Finish(p) \/ Abort(p) \/ Lose(p)

Spec == Init /\ [][Next]_vars
================================================================================
