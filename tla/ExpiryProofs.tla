------------------------------ MODULE ExpiryProofs ------------------------------
(*****************************************************************************)
(* Proofs about Expiry, for any texts, any length of a day, any fractions    *)
(* and any clock.                                                            *)
(*****************************************************************************)
EXTENDS Expiry, TLAPS

(* What was sent was valid, and Cloudflare enforces it to the second; what   *)
(* is recorded was valid; a request under way is of a valid text.            *)
Valid(t) == t # NoEntry /\ ParseExpires(t)
Enforced(t) ==
  IF t = NoEntry \/ t.form = "empty" THEN NoExpiry ELSE [sec |-> Instant(t).sec, part |-> 0]
ExpiryInv ==
  /\ remote = Enforced(sent)
  /\ sent # NoEntry => Valid(sent)
  /\ entry # NoEntry => Valid(entry)
  /\ pc # "idle" => Valid(asked)
  /\ pc = "record" => sent = asked
  /\ result = "unsendable" => asked \in Text /\ ~Sendable(asked)
  /\ result # "untranslatable"
  /\ result = "ok" /\ pc = "idle" => entry = sent

(* A valid text that is not empty has a date and an instant.                 *)
LEMMA ValidHasInstant ==
  ASSUME NEW t \in Text, Valid(t), t.form # "empty"
  PROVE  /\ t.form \in {"time", "date"} /\ Instant(t) \in Instants
         /\ ParsesForList(t) /\ Parses(Layouts, t)
<1>1. Parses(Layouts, t) /\ t.form \in {"time", "date"}
  BY DEF Valid, ParseExpires, Parses, Accepts
<1>2. t.at \in Int /\ t.east \in Int /\ t.part \in 0..Parts - 1 /\ t.at * Day \in Int
  BY ClockIsSane DEF Text
<1>3. 0 \in 0..Parts - 1
  BY ClockIsSane
<1> QED
  BY <1>1, <1>2, <1>3 DEF Instant, Instants, ParsesForList

(* NormaliseExpires keeps the second of the instant, drops the fraction, and *)
(* writes a text the client reads unless its year has not four digits.       *)
LEMMA NormaliseKeepsTheSecond ==
  ASSUME NEW t \in Text, Valid(t), t.form # "empty"
  PROVE  /\ Instant(NormaliseExpires(t)) = [sec |-> Instant(t).sec, part |-> 0]
         /\ Sendable(t) <=> Instant(t).sec \in First..Last
<1>1. Instant(t).sec \in Int
  BY ValidHasInstant DEF Instants
<1>2. Instant(NormaliseExpires(t)) = [sec |-> Instant(t).sec, part |-> 0]
  BY <1>1 DEF NormaliseExpires, Instant
<1>3. Parses({"RFC3339"}, NormaliseExpires(t)) <=> Instant(t).sec \in First..Last
  BY <1>1, ClockIsSane DEF Parses, Accepts, NormaliseExpires, ShownSecond
<1> QED
  BY <1>2, <1>3 DEF Sendable

(* The invariant holds at first and every step keeps it.                     *)
LEMMA InitInv == Init => TypeOK /\ ExpiryInv
<1>1. 0 \in 0..Parts - 1
  BY ClockIsSane
<1> QED
  BY <1>1, ClockIsSane DEF Init, TypeOK, ExpiryInv, Enforced, Instants

LEMMA InvStep == TypeOK /\ ExpiryInv /\ [Next]_vars => TypeOK' /\ ExpiryInv'
<1> SUFFICES ASSUME TypeOK, ExpiryInv, [Next]_vars PROVE TypeOK' /\ ExpiryInv'
  OBVIOUS
<1> USE TextsAreTyped
<1>1. CASE UNCHANGED vars
  BY <1>1 DEF vars, TypeOK, ExpiryInv, Enforced, Valid
<1>2. ASSUME NEW t \in Texts, StartApply(t) PROVE TypeOK' /\ ExpiryInv'
  <2>1. ParseExpires(t) => Translatable(t)
    BY DEF ParseExpires, Translatable
  <2>2. t \in Text /\ t # NoEntry
    OBVIOUS
  <2> QED
    BY <1>2, <2>1, <2>2 DEF StartApply, Finish, TypeOK, ExpiryInv, Enforced, Valid
<1>3. CASE Send
  <2>1. asked \in Texts /\ Valid(asked)
    BY <1>3 DEF Send, ExpiryInv, TypeOK, Valid
  <2>2. asked.form # "empty" =>
          /\ Instant(NormaliseExpires(asked)) = [sec |-> Instant(asked).sec, part |-> 0]
          /\ Instant(NormaliseExpires(asked)) \in Instants
    <3>1. 0 \in 0..Parts - 1
      BY ClockIsSane
    <3> QED
      BY <2>1, <3>1, ValidHasInstant, NormaliseKeepsTheSecond DEF Instants
  <2>3. remote' = Enforced(asked) /\ sent' = asked /\ remote' \in Instants \cup {NoExpiry}
    BY <1>3, <2>1, <2>2 DEF Send, Enforced, Valid
  <2>4. TypeOK'
    BY <1>3, <2>1, <2>3 DEF Send, Finish, TypeOK
  <2>5. /\ \/ pc' = "record" /\ result' = result
           \/ pc' = "idle" /\ result' = "failed"
        /\ asked' = asked /\ entry' = entry
    BY <1>3 DEF Send, Finish
  <2> QED
    BY <1>3, <2>1, <2>3, <2>4, <2>5 DEF Send, ExpiryInv, Enforced, Valid
<1>4. CASE NotSendable
  BY <1>4 DEF NotSendable, Finish, TypeOK, ExpiryInv, Enforced, Valid
<1>5. CASE Record
  BY <1>5 DEF Record, Finish, TypeOK, ExpiryInv, Enforced, Valid
<1>6. CASE Fail
  BY <1>6 DEF Fail, Finish, TypeOK, ExpiryInv, Enforced, Valid
<1>7. CASE Tick
  <2>1. now' \in Instants
    BY <1>7, ClockIsSane DEF Tick, TypeOK, Instants
  <2> QED
    BY <1>7, <2>1 DEF Tick, TypeOK, ExpiryInv, Enforced, Valid
<1> QED
  BY <1>1, <1>2, <1>3, <1>4, <1>5, <1>6, <1>7 DEF Next

(* Where the invariant holds, the parsers agree and list tells the truth.    *)
LEMMA InvParsers == TypeOK /\ ExpiryInv => ParsersAgree /\ RecordedIsSent
<1> SUFFICES ASSUME TypeOK, ExpiryInv PROVE ParsersAgree /\ RecordedIsSent
  OBVIOUS
<1> USE TextsAreTyped
<1>1. entry # NoEntry => entry.form = "empty" \/ ParsesForList(entry)
  BY ValidHasInstant DEF ExpiryInv, TypeOK
<1>2. ASSUME result = "unsendable" PROVE Instant(asked).sec \notin First..Last
  <2>1. asked \in Text /\ ~Sendable(asked) /\ asked.form # "empty"
    BY <1>2 DEF ExpiryInv, Sendable
  <2>2. Instant(asked).sec \in Int
    BY <2>1, ClockIsSane DEF Instant, Text
  <2> QED
    BY <2>1, <2>2, ClockIsSane DEF Sendable, Parses, Accepts, NormaliseExpires, ShownSecond
<1> QED
  BY <1>1, <1>2 DEF ExpiryInv, ParsersAgree, RecordedIsSent

LEMMA InvStatus == TypeOK /\ ExpiryInv => StatusIsTrue
<1> SUFFICES ASSUME TypeOK, ExpiryInv, entry # NoEntry, entry = sent PROVE StatusIsTrue
  BY DEF StatusIsTrue
<1> USE TextsAreTyped
<1>1. entry \in Text /\ Valid(entry) /\ remote = Enforced(entry)
  BY DEF TypeOK, ExpiryInv
<1>2. now.sec \in Int /\ now.part \in 0..Parts - 1 /\ Window \in Nat
  BY ClockIsSane DEF TypeOK, Instants
<1>3. CASE entry.form = "empty"
  <2>1. remote = NoExpiry
    BY <1>1, <1>3 DEF Enforced
  <2>2. ~ParsesForList(entry)
    BY <1>3 DEF ParsesForList, Parses, Accepts
  <2> QED
    BY <2>1, <2>2 DEF StatusIsTrue, Status, Refused
<1>4. CASE entry.form # "empty"
  <2>1. ParsesForList(entry) /\ Instant(entry) \in Instants
    BY <1>1, <1>4, ValidHasInstant
  <2>2. PICK s \in Int, k \in 0..Parts - 1 : Instant(entry) = [sec |-> s, part |-> k]
    BY <2>1 DEF Instants
  <2>3. remote = [sec |-> s, part |-> 0]
    BY <1>1, <1>4, <2>2 DEF Enforced
  <2>4. remote # NoExpiry
    <3>1. 0 \in 0..Parts - 1
      BY ClockIsSane
    <3> QED
      BY <2>3, <3>1 DEF Instants
  <2>5. /\ Before(now, Instant(entry)) <=> now.sec < s \/ (now.sec = s /\ now.part < k)
        /\ Before(Later(now, Window), Instant(entry)) <=>
             now.sec + Window < s \/ (now.sec + Window = s /\ now.part < k)
        /\ Before(now, remote) <=> now.sec < s \/ (now.sec = s /\ now.part < 0)
        /\ Before(Later(now, Window), remote) <=>
             now.sec + Window < s \/ (now.sec + Window = s /\ now.part < 0)
        /\ Before(now, Later(remote, 1)) <=>
             now.sec < s + 1 \/ (now.sec = s + 1 /\ now.part < 0)
        /\ Before(Later(now, Window), Later(remote, 1)) <=>
             now.sec + Window < s + 1 \/ (now.sec + Window = s + 1 /\ now.part < 0)
    BY <2>2, <2>3 DEF Before, Later, TypeOK, Instants
  <2>6. /\ Status(entry) = "expired" <=> ~Before(now, Instant(entry))
        /\ Status(entry) = "expiring_soon" <=>
             Before(now, Instant(entry)) /\ ~Before(Later(now, Window), Instant(entry))
        /\ Status(entry) = "active" <=>
             Before(now, Instant(entry)) /\ Before(Later(now, Window), Instant(entry))
    BY <2>1 DEF Status
  <2> QED
    BY <1>2, <2>2, <2>4, <2>5, <2>6 DEF StatusIsTrue, Refused
<1> QED
  BY <1>3, <1>4

(* Clock, requests and index keep their types.                               *)
THEOREM TypeCorrect == Spec => []TypeOK
<1> QED
  BY InitInv, InvStep, PTL DEF Spec

(* ParsersAgree: what the validator lets through the translator reads too,   *)
(* the client refuses only instants out of its range, and list reads every   *)
(* date that was recorded.                                                   *)
THEOREM DatesSurvive == Spec => []ParsersAgree
<1> QED
  BY InitInv, InvStep, InvParsers, PTL DEF Spec

(* RecordedIsSent: an apply that succeeded recorded the date it sent.        *)
THEOREM RecordedDateIsSent == Spec => []RecordedIsSent
<1> QED
  BY InitInv, InvStep, InvParsers, PTL DEF Spec

(* StatusIsTrue: whatever the offset, the fraction and the instant at which  *)
(* it is asked, `cft list` says what Cloudflare does, to the second.         *)
THEOREM ListTellsTheTruth == Spec => []StatusIsTrue
<1> QED
  BY InitInv, InvStep, InvStatus, PTL DEF Spec
================================================================================
