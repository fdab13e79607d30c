------------------------------ MODULE MCIndexFile ------------------------------
(* Small instances of IndexFile for TLC: the files there may be at first.    *)
EXTENDS IndexFile, TLC

CONSTANTS w1, w2, r1, dev, prod, n1, i1, i2

OneToken == V2([current |-> prod, profiles |-> prod :> (n1 :> i1)])
AllForms == {Absent, Empty, Torn, Foreign, V1(n1 :> i1), OneToken}
================================================================================
