------------------------------- MODULE MCProfiles -------------------------------
(* Small instances of Profiles for TLC: two profiles, dev being the default, *)
(* an account each, and what the invocations may be asked.                   *)
EXTENDS Profiles, TLC

CONSTANTS p1, p2, p3, dev, prod, n1, n2, a1, a2

Ask(cmd, name, env, token) ==
  [cmd |-> cmd, name |-> name, env |-> env, token |-> token, anyApp |-> FALSE]
Own == dev :> a1 @@ prod :> a2

(* Every profile is given its own account's token, or none, a bad or an      *)
(* inactive one, and prod perhaps another account's or one for any app.      *)
Logins == {Ask("login", NoProfile, NoProfile, a1), Ask("login", NoProfile, prod, a2),
           Ask("login", prod, NoProfile, BadToken), Ask("login", prod, NoProfile, InactiveToken),
           Ask("login", prod, dev, a1), [Ask("login", prod, NoProfile, a2) EXCEPT !.anyApp = TRUE]}
Adds == {Ask("add", q, NoProfile, Own[q]) : q \in Profiles}
          \cup {Ask("add", dev, NoProfile, NoToken)}
Uses == {Ask("use", q, NoProfile, NoToken) : q \in Profiles}
Applies == {Ask("apply", q, e, NoToken) : q \in {NoProfile, prod}, e \in {NoProfile, dev}}
Shows == {Ask("list", NoProfile, NoProfile, NoToken), Ask("current", NoProfile, dev, NoToken),
          Ask("profiles", NoProfile, NoProfile, NoToken)}
AnyRequest == Logins \cup Adds \cup Uses \cup Applies \cup Shows

Nothing == [bootstrap |-> [q \in Profiles |-> NoToken], index |-> NewIndex]
BothInUse ==
  [bootstrap |-> Own,
   index |-> [current |-> prod, profiles |-> dev :> (n1 :> a1) @@ prod :> (n1 :> a2)]]
AnyStart == {Nothing, BothInUse}

(* Pieces of two files may lack a profile, or give it another's token.       *)
SomePieces == {prod :> NoTokens, dev :> (n1 :> a2) @@ prod :> NoTokens}

ProcSymmetry == Permutations(Procs)
=================================================================================
