------------------------------- MODULE IndexData -------------------------------
(*****************************************************************************)
(* The content of the index file as the program holds it in memory, and      *)
(* what the commands do to it.  An index is the current pointer and a        *)
(* partial function from profiles to partial functions from token names to   *)
(* Cloudflare IDs; an entry's expiry is left out.                            *)
(*****************************************************************************)
CONSTANTS
  Profiles,    \* profile names
  Names,       \* token names
  Ids,         \* Cloudflare IDs
  Default,     \* store.DefaultProfile
  NoProfile,   \* the empty string in Current
  Unreadable   \* what decoding returns for a file it rejects

Partial(S, T) == UNION {[D -> T] : D \in SUBSET S}
NoTokens == [n \in {} |-> n]
Indexes == [current : Profiles \cup {NoProfile},
            profiles : Partial(Profiles, Partial(Names, Ids))]

ASSUME DefaultIsAProfile == Default \in Profiles /\ NoProfile \notin Profiles
ASSUME UnreadableIsNoIndex == Unreadable \notin Indexes

NewIndex == [current |-> NoProfile, profiles |-> NoTokens]
HasProfile(i, q) == q \in DOMAIN i.profiles
All(i, q) == IF HasProfile(i, q) THEN i.profiles[q] ELSE NoTokens

(* Index.Profile creates the profile it is asked for.                        *)
Profile(i, q) ==
  [i EXCEPT !.profiles = [r \in DOMAIN @ \cup {q} |-> All(i, r)]]
Set(i, q, f) ==       \* one Profile.Set for each name of f
  [Profile(i, q) EXCEPT !.profiles[q] =
     [n \in DOMAIN @ \cup DOMAIN f |-> IF n \in DOMAIN f THEN f[n] ELSE @[n]]]
Delete(i, q, n) ==
  [Profile(i, q) EXCEPT !.profiles[q] = [m \in DOMAIN @ \ {n} |-> @[m]]]

(* The callbacks of WithLock that return nil: `profile use`, `profile add`,  *)
(* `apply` (a dry run sets nothing), the last step of `delete`.              *)
UseProfile(i, q) == [Profile(i, q) EXCEPT !.current = q]
AddProfile(i, q) == IF i.current = NoProfile THEN UseProfile(i, q) ELSE Profile(i, q)
Applied(i) == {Set(i, q, f) : q \in Profiles, f \in Partial(Names, Ids)}
Mutations(i) ==
  Applied(i) \cup {UseProfile(i, q) : q \in Profiles}
             \cup {AddProfile(i, q) : q \in Profiles}
             \cup {Delete(i, q, n) : q \in Profiles, n \in Names}

(* A version 1 file: its flat token map becomes the default profile.         *)
Migrated(tokens) == Set(UseProfile(NewIndex, Default), Default, tokens)
================================================================================
