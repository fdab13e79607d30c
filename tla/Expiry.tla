--------------------------------- MODULE Expiry ---------------------------------
(*****************************************************************************)
(* Expiry: the `expires:` of one managed token.  Its text is parsed by the   *)
(* validator, by the translator, which rewrites it, by the API client, which *)
(* parses what the translator wrote, and, from the copy apply leaves in the  *)
(* index, by `cft list`, which compares it with the clock to say what is     *)
(* expired; Cloudflare enforces the instant it was sent.                     *)
(*                                                                           *)
(* A text is a time (the second and the fraction it shows, and how far east  *)
(* of UTC it is), a date, empty or junk.  An instant is a second and a part  *)
(* of that second.  Apply holds the flock, so there is one at a time.        *)
(*****************************************************************************)
EXTENDS Integers

CONSTANTS
  Texts,         \* what specs say
  First, Last,   \* the seconds that four digits of a year can show
  Day,           \* seconds per day
  Parts,         \* parts of a second
  Window,        \* expiringSoonWindow, in seconds
  Start, End,    \* the clock runs from Start to the end of second End
  Faults,        \* whether requests and writes may fail
  NoExpiry,      \* Cloudflare: no expires_on
  NoEntry        \* no token, no entry in the index

Text == [form : {"time", "date", "empty", "junk"}, at : Int, part : 0..Parts - 1, east : Int]
Instants == [sec : Int, part : 0..Parts - 1]

ASSUME ClockIsSane ==
  /\ First \in Int /\ Last \in Int /\ Start \in Int /\ End \in Int
  /\ Day \in Nat /\ Parts \in Nat \ {0} /\ Window \in Nat /\ Faults \in BOOLEAN
ASSUME TextsAreTyped == Texts \subseteq Text /\ NoEntry \notin Text /\ NoExpiry \notin Instants

VARIABLES
  now,      \* the clock
  asked,    \* the text apply is working on, or worked on last
  pc,       \* where apply is: "idle", "send", "record"
  result,   \* how the last apply ended
  sent,     \* history: the text whose request took effect last
  remote,   \* Cloudflare: when it stops to accept the token
  entry     \* Entry.Expires in the index

vars == <<now, asked, pc, result, sent, remote, entry>>

(* time.Parse: both time layouts take a fraction or none, and a year of four *)
(* digits only; a date is midnight UTC.                                      *)
Layouts == {"RFC3339", "RFC3339Nano", "2006-01-02"}
ShownSecond(t) == IF t.form = "date" THEN t.at * Day ELSE t.at
Accepts(layout, t) ==
  /\ t.form = IF layout = "2006-01-02" THEN "date" ELSE "time"
  /\ First <= ShownSecond(t) /\ ShownSecond(t) <= Last
Parses(layouts, t) == \E l \in layouts : Accepts(l, t)
Instant(t) ==
  IF t.form = "date" THEN [sec |-> t.at * Day, part |-> 0]
                     ELSE [sec |-> t.at - t.east, part |-> t.part]

Before(a, b) == a.sec < b.sec \/ (a.sec = b.sec /\ a.part < b.part)
Later(a, seconds) == [a EXCEPT !.sec = @ + seconds]

(* Mutant of ParseExpires: any text will do.                                 *)
ParseExpires_Unchecked(t) == TRUE
ParseExpires(t) == t.form = "empty" \/ Parses(Layouts, t)

(* The time in UTC, to the second: the fraction is not written.              *)
NormaliseExpires(t) == [form |-> "time", at |-> Instant(t).sec, part |-> 0, east |-> 0]
Translatable(t) == t.form = "empty" \/ Parses(Layouts, t)

-------------------------------------------------------------------------------
Init ==
  /\ now = [sec |-> Start, part |-> 0]
  /\ asked = NoEntry /\ pc = "idle" /\ result = "none"
  /\ sent = NoEntry /\ remote = NoExpiry /\ entry = NoEntry

Finish(r) == pc' = "idle" /\ result' = r

(* ValidateAll, then translateToken.                                         *)
StartApply(t) ==
  /\ pc = "idle" /\ asked' = t
  /\ IF ParseExpires(t) /\ Translatable(t)
     THEN pc' = "send" /\ result' = "none"
     ELSE Finish(IF ParseExpires(t) THEN "untranslatable" ELSE "invalid")
  /\ UNCHANGED <<now, sent, remote, entry>>

(* buildNewParams or buildUpdateParams, and the request; an update replaces  *)
(* the token's expiry, by none if the body has none.  The answer may be      *)
(* lost.                                                                     *)
Sendable(t) == t.form = "empty" \/ Parses({"RFC3339"}, NormaliseExpires(t))
Send ==
  /\ pc = "send" /\ Sendable(asked)
  /\ remote' = IF asked.form = "empty" THEN NoExpiry ELSE Instant(NormaliseExpires(asked))
  /\ sent' = asked
  /\ \/ pc' = "record" /\ UNCHANGED result
     \/ Faults /\ Finish("failed")
  /\ UNCHANGED <<now, asked, entry>>

NotSendable ==
  /\ pc = "send" /\ ~Sendable(asked) /\ Finish("unsendable")
  /\ UNCHANGED <<now, asked, sent, remote, entry>>

(* Mutants of Record: a known entry keeps its date; the text sent is kept.   *)
Record_Once ==
  /\ pc = "record" /\ Finish("ok")
  /\ entry' = IF entry = NoEntry THEN asked ELSE entry
  /\ UNCHANGED <<now, asked, sent, remote>>
Record_Normalised ==
  /\ pc = "record" /\ Finish("ok")
  /\ entry' = IF asked.form = "empty" THEN asked ELSE NormaliseExpires(asked)
  /\ UNCHANGED <<now, asked, sent, remote>>

(* The entry gets the text of the spec, and the index is written.            *)
Record ==
  /\ pc = "record" /\ entry' = asked /\ Finish("ok")
  /\ UNCHANGED <<now, asked, sent, remote>>

(* A request without effect; a kill or a write that keeps the file, loses    *)
(* it (until it is removed, if torn), or took place though its Sync failed.  *)
Fail ==
  /\ Faults /\ pc # "idle" /\ Finish("failed")
  /\ entry' \in {entry} \cup (IF pc = "record" THEN {NoEntry, asked} ELSE {})
  /\ UNCHANGED <<now, asked, sent, remote>>

Tick ==
  /\ now.sec <= End
  /\ now' = IF now.part + 1 < Parts THEN [now EXCEPT !.part = @ + 1]
                                    ELSE [sec |-> now.sec + 1, part |-> 0]
  /\ UNCHANGED <<asked, pc, result, sent, remote, entry>>

Next ==
  \/ \E t \in Texts : StartApply(t)
  \/ Send \/ NotSendable \/ Record \/ Fail \/ Tick
Spec == Init /\ [][Next]_vars

-------------------------------------------------------------------------------
(* cft list                                                                  *)

(* Mutant of ParsesForList: times only.                                      *)
ParsesForList_Times(t) == Parses({"RFC3339Nano", "RFC3339"}, t)
ParsesForList(t) == Parses(Layouts, t)

(* Mutant of Status: at the instant itself it only expires soon.             *)
Status_StrictlyAfter(t) ==
  CASE ~ParsesForList(t) -> "active"
    [] ParsesForList(t) /\ Before(Instant(t), now) -> "expired"
    [] ParsesForList(t) /\ ~Before(Instant(t), now) /\ ~Before(Later(now, Window), Instant(t))
         -> "expiring_soon"
    [] OTHER -> "active"

(* expiresStyle and statusFor: red and "expired" from the instant itself on, *)
(* yellow and "expiring_soon" up to a window's length before it; what cannot *)
(* be parsed is "active".                                                    *)
Status(t) ==
  CASE ~ParsesForList(t) -> "active"
    [] ParsesForList(t) /\ ~Before(now, Instant(t)) -> "expired"
    [] ParsesForList(t) /\ Before(now, Instant(t)) /\ ~Before(Later(now, Window), Instant(t))
         -> "expiring_soon"
    [] OTHER -> "active"

Refused == remote # NoExpiry /\ ~Before(now, remote)   \* by Cloudflare

-------------------------------------------------------------------------------
(* The variables keep their types; the index has texts of specs.             *)
TypeOK ==
  /\ now \in Instants /\ asked \in Texts \cup {NoEntry} /\ pc \in {"idle", "send", "record"}
  /\ result \in {"none", "ok", "failed", "invalid", "untranslatable", "unsendable"}
  /\ sent \in Texts \cup {NoEntry} /\ entry \in Texts \cup {NoEntry}
  /\ remote \in Instants \cup {NoExpiry}

(* The four parsers agree (validate.go:101-109, translate.go:105-116,        *)
(* tokens.go:186-192, list.go:141-148): what the validator lets pass can be  *)
(* translated, it can be sent unless it is out of the years that can be      *)
(* written once it is in UTC, and the date apply recorded is one that list   *)
(* can read, so that "active" is never only a text it could not parse.       *)
ParsersAgree ==
  /\ result # "untranslatable"
  /\ result = "unsendable" => Instant(asked).sec \notin First..Last
  /\ entry # NoEntry => entry.form = "empty" \/ ParsesForList(entry)

(* An apply that succeeded leaves in the index the text Cloudflare was sent, *)
(* whatever failed before it (apply.go:240, 248, 258).                       *)
RecordedIsSent == result = "ok" /\ pc = "idle" => entry = sent

(* What list says of an entry that is in step with Cloudflare (list.go:124): *)
(* a token it calls expired is refused, one refused for a second, or whose   *)
(* date has no fraction and is reached, is called expired, one it calls      *)
(* expiring soon is gone a window's length from now, and one it calls active *)
(* is accepted for that long, to the second.                                 *)
StatusIsTrue ==
  entry # NoEntry /\ entry = sent =>
    /\ Status(entry) = "expired" => Refused
    /\ Refused /\ (Instant(entry).part = 0 \/ ~Before(now, Later(remote, 1)))
         => Status(entry) = "expired"
    /\ Status(entry) = "expiring_soon" =>
         remote # NoExpiry /\ ~Before(Later(now, Window), remote)
    /\ Status(entry) = "active" =>
         remote = NoExpiry \/ Before(Later(now, Window), Later(remote, 1))
================================================================================
