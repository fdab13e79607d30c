--------------------------- MODULE MCTokenLifecycle ---------------------------
(* Small instances of TokenLifecycle for TLC: who may run what, and from     *)
(* which state of the stores.                                                *)
EXTENDS TokenLifecycleProofs, TLC

CONSTANTS p1, p2, p3, p4, n1, n2, i1, i2, i3, i4

(* Spec files: one name, two in either order, and a duplicate.               *)
TwoNameLists == {<<n1>>, <<n1, n2>>, <<n2, n1>>, <<n1, n1>>}
PairLists == {<<n1, n2>>, <<n1, n1>>}
OneNameLists == {<<n1>>}

(* Nothing anywhere; one token in the index and one the index lost or never  *)
(* had; everything known.                                                    *)
Seed(a, b, known) == [token |-> n1 :> a @@ n2 :> b, known |-> known]
Fresh == Seed(NoId, NoId, {})
MixedSeeds == {Fresh, Seed(i1, i2, {n1}), Seed(i1, i2, {n1, n2})}
FreshOrLost == {Fresh, Seed(i1, i2, {n1})}
KnownSeeds == {Fresh, Seed(i1, NoId, {n1}), Seed(i1, i2, {n1, n2})}
OneKnown == {[token |-> n1 :> i1, known |-> {n1}]}
OneName == OneKnown \cup {[token |-> n1 :> NoId, known |-> {}]}

(* Who runs what: anything; no deletion.                                     *)
AnyCommand == [p \in Procs |-> Commands]
NoDeletion == [p \in Procs |-> {"apply", "rotate", "exec"}]

ProcSymmetry == Permutations(Procs)
===============================================================================
