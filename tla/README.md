# cft: models, checks and proofs

`cft` (Go, `src/`) manages Cloudflare API tokens from YAML files. It keeps the
values of the tokens in the macOS Keychain and their IDs in an index file. It is
a command-line program: no daemon, no goroutines of its own. What makes it hard
is that **every invocation is a process, and the processes share three stores
that no transaction covers** (Cloudflare, the Keychain, the index file). Only
the index file has a lock, and only some commands take it, for some of their
steps. This directory holds TLA+ models of that system, what TLC checks of
them, and theorems that TLAPS checks for every size of instance.

## The system

| component | state | operations | talks to |
|---|---|---|---|
| `apply` (`cli/apply.go`) | plan, in-memory index | validate specs, choose profile, list groups, lock, plan, create/update/adopt, write the index | all stores |
| `rotate`, `delete`, `exec` (`cli/*.go`) | the entry loaded at the start | load without lock, prompt, roll or delete the token, set or delete the value; `delete` then locks and removes the entry; `exec` reads the value | all stores |
| `login`, `profile add/use/list/current` (`cli/login.go`, `cli/profile.go`) | bootstrap token, current pointer | verify, store the bootstrap token, change the index under the lock; show index and Keychain side by side | Keychain, index, Cloudflare |
| resolver (`cli/resolver.go`, `cli/translate.go`) | group index, zone cache | name to ID of permission groups and zones, expiry dates | Cloudflare |
| `list` (`cli/list.go`) | none | load, choose profile, compare dates with the clock | index |
| index file (`store/index.go`) | one JSON file | `Load` (no lock), `WithLock` (flock, decode, callback, truncate, write, sync) | file system |
| Keychain adapter (`keychain/`) | one entry per (service, account) | Get, Set, Delete, List; Set is two framework calls | Security framework |
| Cloudflare client (`cfapi/`) | none | create, update, roll, delete, list, verify; the SDK retries | Cloudflare |
| spec (`spec/`) | none | parse and validate token specs | - |
| completion, exit codes, schema (`cli/root.go`, `cli/completion.go`, `cli/schema.go`) | none | - | - |

What is hard, and where it bites, is in `PROJECT.json` under `hazards`: an
unlocked load in the middle of a rewrite, a crash between two stores, a request
that took effect although its answer was lost, an ID that went stale behind a
prompt, two rotations in opposite order, a plan that fails half way, a Set that
is two calls, a date that four parsers read.

## Modules

| module | models | extends or instantiates |
|---|---|---|
| `ManagedTokens` | abstract: the tokens and entries of the names, and the only ways in which they change | - |
| `TokenLifecycle` | apply, dry run, rotate, delete, exec on the tokens of one profile; Cloudflare, Keychain, index, flock | instantiates `ManagedTokens` |
| `TokenLifecycleProofs` | proofs about it, with the inductive invariant; it implements `ManagedTokens` | `TokenLifecycle` |
| `IndexData` | what an index is, and the operators the callbacks apply to it | - |
| `IndexRegister` | abstract: a value read and written atomically under a lock, lost only by a failing commit | `IndexData` |
| `IndexFile` | `Load` and `WithLock`, one system call per action | `IndexData`, instantiates `IndexRegister` |
| `IndexDataProofs` | lemmas: the callbacks keep an index an index | `IndexData` |
| `IndexFileProofs` | `IndexFile` implements `IndexRegister`; what unlocked loads return | `IndexFile`, `IndexDataProofs` |
| `KeychainMap` | abstract: an entry per secret (a profile's bootstrap token, a profile's token); with any-app an entry may vanish for a while | - |
| `KeychainStore` | `Darwin.Get/Set/Delete/List`, one framework call per action, on items found by service and account string (`TokenAccount`) | instantiates `KeychainMap` |
| `KeychainStoreProofs` | `KeychainStore` implements `KeychainMap`; no two secrets share an item | `KeychainStore` |
| `Exec` | `cft exec` among the other users of the Keychain: arguments, environment | `KeychainStore` |
| `ExecProofs` | what the command gets | `Exec`, `KeychainStoreProofs` |
| `Profiles` | login, list, profile add, use, list and current, and how apply finds its profile and account | `IndexData` |
| `ProfilesProofs` | proofs about it | `Profiles`, `IndexDataProofs` |
| `Resolution` | policy validation, the permission-group index, policy translation, the zone cache | - |
| `ResolutionProofs` | proofs about it | `Resolution` |
| `Expiry` | one token's `expires:` from the spec through validation, translation, request and index to `cft list`, with a clock | - |
| `ExpiryProofs` | proofs about it | `Expiry` |
| `MC*` | small instances for TLC | the module or its proofs |

The modules meet at three places. `TokenLifecycle` and `Profiles` treat the
index as one value changed under a lock: that is what `IndexRegister` says, and
`WithLockRefines` proves `IndexFile` implements it. Both let a load return an
empty index while another process is writing (`Profiles` also an error), which
is what `LoadsInventNothing` allows. `Profiles` also lets it return an error or
pieces of two values (`Mixed`); in `TokenLifecycle`, where a load looks at one
entry, the pieces give the entry of the one file or of the other, as a load a
moment earlier or later would, or an error; an entry that is itself cut and still
parses is left to `IndexFile` (`Mixtures`). `TokenLifecycle` treats a Keychain
call as one step on a variable per secret, which `StoreRefines` proves for the
default access option, the only one its commands use; `Profiles` takes `Set` call
by call, because `login --allow-any-app` deletes and creates.

### How they correspond to the code

`PROJECT.json` ("map") names the lines of every definition. The main choices:

- **One action is one call that leaves the process**: a request, a Keychain
  call, a system call on the index file, an answer at a prompt. Everything
  between two calls is private to the process, so no other process can tell.
- **A request has four outcomes** (`Answered`, `Unanswered`, the 404 branches,
  `CallFails`): answered; took effect but the answer was lost, and the SDK sends
  it again up to `MaxRetries` times, `client.go` leaving the SDK's default of 2
  in place; refused because the token is gone; failed without effect.
- **`StepFailed`** is the `PartialError` logic: an action that fails after
  another succeeded still leads to the write of the index.
- **A crash or kill** (`Crash`, `Kill`, `Stop`) forgets the process and closes
  its files, which releases the flock. Kills of processes are modelled, losses
  of power are not: what a completed write put in the file stays there.
- **The file** in `IndexFile` is absent, empty, a version 1 or 2 index, a newer
  version, or torn (a proper prefix of an encoded index). `encode` failing or
  killed leaves nothing or a prefix. A load that needs several reads may get the
  beginning of one file and the rest of another (`Mixtures`): an error, or the
  current pointer of the first above any profiles and entries at all.
- In `TokenLifecycle` a write that is cut short (`CutShort`) leaves an empty file,
  which is an empty index, the whole new index, or a torn file (`torn`). A torn
  file makes every later load and `WithLock` fail (`StartApply`, `StartOnToken`,
  `Acquire`) until someone removes it, which leaves the empty index
  (`RemoveTorn`). No command does that: the step is the user's.
- An update is followed by a read of the Keychain, lock in hand (`CheckSecret`):
  its result only decides a warning, but the call may wait for the user.
- A token value is (ID, number of the issue). Policies, scopes and dates are not
  part of the life cycle; `Resolution` has the policies, `Expiry` the dates.
- In `KeychainStore` a name is a sequence of symbols, one of them the separator,
  since whether two accounts are the same string is the question; profile names
  may contain it, token names may not (`nameRe`), and no profile is resolved to
  the empty string (`resolveProfile`).
- In `Exec` an environment is a sequence of (name, value), in which a name may
  occur more than once.
- In `Expiry` a date is the seconds it shows, a fraction and an offset from UTC;
  `time.Parse` accepts the years that four digits can show. Cloudflare is sent
  an instant, an update without `expires_on` clears it, and a token is refused
  from that instant on.
- In `Profiles` a bootstrap token stands for its account. `BadToken` is one that
  Cloudflare refuses; `InactiveToken` one that it answers is disabled or expired,
  which `Verify` lets through, `login` stores and Cloudflare does not serve.
  `Pieces` are the profiles that a load in pieces may find. The variables `known`,
  `owners`, `calm` and `pointers` are history: what a load could find, the accounts
  whose bootstrap tokens a profile was given, and whether a rewrite met the load.
  A command that ended `"halfway"` had deleted an item and not created it again.
- In `Resolution` the sequence of policies of all tokens stands for the specs.

Definitions whose name ends in `_Something` are deliberate mistakes
(`Acquire_NoFlock` is `Acquire` without waiting for the lock). No specification
uses them; `PROJECT.json` ("mutants") pairs each with the property that it
breaks, as evidence that the property depends on the code it is about.

## What the runs check

Passing runs:

| run | what it checks | bounds |
|---|---|---|
| `LifecycleAny` | one live token per name, index entries hide no live token, values stay with their names, commits are exact; the stores change only as `ManagedTokens` allows; the invariant of the proofs | 3 processes, any command; 2 names, 4 IDs; crashes, all failures, lost answers, dashboard deletions; no retries |
| `LifecycleFailures` | after any crash or failure the next apply goes through, unless the file is torn, and then once it has been removed; unless a process is killed, a stored value is never under a name the index has forgotten | 4 processes of apply, rotate, exec; crashes, torn files, failing requests and Keychain calls |
| `LifecycleQuiet` | the stores agree once the commands ended; a stored value is of the token the index has; no value in force is overwritten; the invariants that prove it | 3 processes, any command, one rotate or delete of a name at a time; 2 names, 4 IDs; dashboard deletions, nothing fails |
| `LifecycleLive` | a command ends unless it waits for ever for an answer, or for a lock whose holder does; the invariant of the proofs, with retries | 3 processes, 1 name, failing and unanswered requests, 1 retry |
| `IndexAny` | `WithLock` implements the register; unreadable files are kept; what an unlocked load may return, in one read or in two: a value of the index unless a rewrite met it, never invented otherwise | 2 writers and 1 reader, all forms of file, kills, I/O errors |
| `ProfilesAny` | known current pointer, no refused token, tokens only of accounts a profile was given; unless a write is cut short, one `profile add` becomes current and an added profile stays; its bootstrap token stays unless an any-app login is replacing it or failed half way; `profile list` misses nothing and, if no rewrite met it, invents nothing | 3 commands of seven kinds, with and without `--allow-any-app`, 2 profiles, 2 accounts, an inactive and a refused token, 2 kinds of pieces; kills, failing requests and Keychain calls |
| `Keychain` | the adapter implements a map with an entry per secret; an exec's command gets its own token and nothing else changes | 3 clients, one with the any-app option, 3 secrets two of which would collide without a separator, 2 values, 2 environments, failures |
| `Expiry` | validator, translator, client and list agree on dates; the index has the date that was sent; list's status is what Cloudflare does | 12 dates around a clock of 10 seconds with two parts each: offsets, fractions, dates, the last year and the first, none, junk; failing and unanswered requests |
| `Resolve` | the group index does not depend on the order of the listing; grants are what was asked; one zone name is one zone per run; no policy without scope gets past the validator | all listings of up to 3 of 8 groups; 3 policies on 2 zone names and an ID, zones changing; files of up to 2 of 15 policies; failing calls |

Runs that end in a counterexample show where the code and what is said of it
differ; each checks one sentence of the repository (`findings` quotes them):

| run | counterexample |
|---|---|
| `RetryDuplicates` | a create whose answer is lost is sent again: two tokens of one name |
| `StaleDelete` | two deletes and an apply: the second delete sends a stale ID, takes its 404 for done, and removes the value and entry of the token created meanwhile |
| `TwoRotations` | the first to roll is the last to store: the Keychain keeps a dead value |

Eleven more differences are visible in the modules, without a run of their own:

- an indexed token deleted in the dashboard makes apply fail with 404 on every
  run, although it "creates missing tokens" (`apply.go:54`);
- a dry run lists tokens at Cloudflare for a name the index misses, although the
  flag's help says "without calling the Cloudflare API" (`apply.go:86`);
- a load sees the file truncated, although a rewrite is to show the new state
  "atomically" (`delete.go:101`): `LoadInventsNothing` has to allow it;
- after a login with another account's token a profile holds tokens of two
  accounts, although a profile is "one account's worth" (`index.go:53`):
  `OneAccountPerProfile` has to count the accounts it was given (`owners`);
- a disabled or expired bootstrap token is stored, although `Verify` "confirms the
  configured bearer token is active" (`tokens.go:49`): `login.go:104` looks at its
  error and not at the status it returns;
- `login --allow-any-app` deletes the item before it creates the new one
  (`acl_darwin.go:101-121`), so one that fails between the two leaves a profile
  that was in use without a bootstrap token: `Cleared`, `Relaxed`;
- a torn file makes every command refuse from then on (`index.go:199-202,
  235-239`), and none repairs it: `ApplyWouldSucceed` has to leave it out;
- apply reads the Keychain, which may ask for Touch ID or a password
  (`keychain_darwin.go:37-39`), with the lock held (`apply.go:245`): whoever is
  next waits for that answer, which is why `CommandsEnd` has to allow it;
- during a rewrite a load finds no current pointer, so a command without
  `--profile` may act on the default profile, although the documented order has
  the pointer before it (`profile.go:21`): `Loadable`, `Selected`; for the same
  reason `profile list` may miss profiles, which is why `known` leaves out the
  index while it is rewritten;
- `9999-12-31T23:59:59-01:00` is valid, but in UTC it is a year that RFC 3339
  cannot show, and apply ends with an error of the client after the file has
  passed validation and translation: `NotSendable`;
- a `Set` whose item is deleted between its two framework calls fails, although
  it "creates or replaces" the entry (`keychain.go:95`): `UpdateItem`.

**Why the bounds are enough.** Two processes are needed for every race here and
a third acts between their steps (`StaleDelete` needs three). Two names let a
plan succeed in part and let values be swapped; four IDs let a name be created,
deleted and created again while the other name exists. Two profiles are one that
is the default and one that is not. A second of two parts and a window of two
seconds put an instant before, at and after every boundary of `expiresStyle`. The invariants that matter most are also
proved without bounds. `MaxRetries`, the number of IDs and the instances of the
`MC` modules, `Pieces` in `Profiles` among them, are the only bounds. `SYMMETRY` is used on processes only, in runs
that check invariants, an action property and, in `LifecycleAny`, a refinement
without liveness, none of which names a process.

**One rotate or delete of a name at a time.** `LifecycleQuiet`
has the state constraint `OneAtATime`: no two commands are
between the load of an entry of one name and the store of its new value, or the
commit of its removal. It is an assumption about the user, since nothing in cft
sees to it, and it is needed: `StaleDelete` and `TwoRotations` are what happens
without it. Applies, dry runs and execs are not constrained, nor are rotates and
deletes of different names. With `Faults = {"api", "keychain"}` and
`MaxRetries = 1` the configuration passes too, in a few minutes, but for
`NoLostToken`, `KeychainIsCurrent` and `CaughtUp`, which need that nothing fails.

**Assumptions of the starts.** A seed gives each name at most one token
(`SeedsAreConsistent`): a duplicate made outside cft is refused by `buildPlan`.
In `Profiles` an index left by earlier commands has tokens only in profiles that
have the bootstrap token they were made with, and a current pointer to one of
its profiles (`StartsAreSound`): what `OneAccountPerProfile`, `CurrentIsKnown`
and `ListingIsBracketed` say of the commands before. That leaves out the starts
after an any-app login that failed half way, or after a login with another
account's token; both happen within a run.

**Failing writes and kills.** A write that fails and one that is killed leave the
file in the same states, so `LifecycleFailures` and `ProfilesAny` leave failing
writes to the kills. Either may lose the index or leave a torn file, and with it
what `NoForgottenSecret`, `OneBecameCurrent` and half of `AddedIsUsable` promise:
the first is stated for the behaviours in which nobody has been killed, the others
for those in which nobody was stopped while it wrote (`NoTornWrite`).

**Fairness** is used in `LifecycleLive` only: weak fairness of what each process
does by itself (`Work`): the system calls on the index file, and taking a free
flock; while another holds it the step is disabled, so nothing is assumed about
who goes first. Since every process runs one command, weak fairness is enough.
Nothing is assumed of a request (`client.go` sets no timeout), a call of the
Keychain (which may ask the user) or `Confirm`: they may never return. So
`CommandsEnd` says that a command ends, or waits for ever for an answer of its
own, or for a lock whose holder does. What it still excludes is a command that is
stuck although nobody owes it anything: a lock that is not given back on one of
the error paths, or two commands that wait for each other.

`CHECK_DEADLOCK FALSE` is in every configuration because every process runs one
command and ends; that none is stuck earlier, but for those that wait, is
`CommandsEnd`.

`CHECK_DEADLOCK FALSE` also ends the clock of `Expiry`, which stops at `End`.

## What is proved

For any number of processes, names, IDs, profiles, clients, values, dates,
listings and environments:

- `TokenLifecycleProofs`, for any `MaxRetries`: `TypeCorrect`, `PlansStayTrue`
  (the invariant `IndInv`), `ValuesStayWithTheirNames`, `CommitsAreExact`.
  - If no request is sent twice (`RequestsSentOnce`; answers may still be lost):
    `NoDuplicates`, `NoShadowing`, `LifecycleRefines` (the refinement of
    `ManagedTokens`). They are false otherwise (`RetryDuplicates`).
  - If nobody deletes and writes of the file do not fail: `NothingIsForgotten`.
    If nothing is deleted, in the dashboard neither, and no request is sent twice,
    but writes fail and processes are killed: `ApplyGoesThrough`, of every file
    that can be decoded.
  - For the behaviours with one rotate or delete of a name at a time
    (`[]OneAtATime`), in which the file is written and nothing is killed
    (`FilesAreWritten`), and whatever requests and Keychain calls fail or are
    repeated: `TargetsStayTrue` (the invariant `AgreeInv`), `TheStoresAgree`,
    `ValuesInForceAreKept` (an action property).
  - If moreover no call fails (`NothingFails`): `ValuesStayCurrent`, and, if the
    index had every token at the start (`SeedsAreKnown`), `NothingDrifts` (the
    invariant `CaughtUp`) and `NothingIsLost`. Tokens may still be deleted in the
    dashboard.
  - `OneAloneIsOneAtATime`: at most one rotate or delete among the invocations is
    enough for `[]OneAtATime`, whatever else runs and fails.
- `IndexFileProofs`: `TypeCorrect`, `UnreadableStays`, `WithLockRefines` (the
  refinement of `IndexRegister`), `LoadsInventNothing`.
- `KeychainStoreProofs`: `TypeCorrect`, `StoreRefines` (the refinement of
  `KeychainMap`). `ExecProofs`: `ChildrenHaveTheirTokens`, and `ExecRefines`, the
  same refinement with execs among the callers.
- `ProfilesProofs`: `TypeCorrect`, `AccountsAreKept`, `BootstrapsAreVerified`,
  `CurrentStaysKnown`, `AddsAreKept`, `OneAddIsFirst`, `ListingsAreBracketed`.
- `ResolutionProofs`: `TypeCorrect`, `IndexMeansTheListing`,
  `GrantsFollowTheFile`, `OneZonePerName`, `TranslationNeedsNoScopeCheck`.
- `ExpiryProofs`: `TypeCorrect`, `DatesSurvive`, `RecordedDateIsSent`,
  `ListTellsTheTruth`.

**The invariant of the life cycle.** `OneTokenPerName` alone is not inductive: a
create is safe only because what the plan saw still holds when its request goes
out. `IndInv` says so: whoever is between flock and close is the lock's holder
(`Mutex`); each entry, of the index or of the holder's copy, names a token that
has or had that name and, if no request is sent twice, no other live token has it
(`EntryOK`, which gives `IndexNotShadowed`); each planned action still ahead is
still right, a create's name having no entry and, on the same condition, no token
(`PlanOK`); a value not yet stored belongs to the name it
is about to be stored under, also in rotations, which hold no lock (`KeepOK`,
`TargetOK`). A step of one process disturbs the others only by `Grows` (tokens
keep their names, issues only grow) and, unless it holds the lock, `Shrinks` (no
token appears): `OthersStay` carries each process's part over, and `StepInv` goes
through the actions. `TypeInv` adds to the types the shapes (loop counters within
the plan, a value present where one is stored) without which they are not
inductive. TLC checks `IndInv` in `LifecycleAny` and, with retries, in
`LifecycleLive`. On top of it, `ExactInv` says
how far the holder's copy differs from the file at each point of its command;
`KnownInv` that a stored value's name is in the index, counting the copy that the
holder is bound to write; `GrownInv` and `AliveInv` that without deletions an
entry and a token stay.

**When the stores agree.** rotate and delete act on an ID they read without the
lock, so nothing about them is invariant by itself. While one of them at a time is
on a name, `AimedInv` says that the entry it read is still there: only a delete
removes an entry, and only its own. So nobody creates a token of that name (a
create is for a name without entry, `KeepsInv`) and nobody else rolls it, so the
value under way to the Keychain is the last one (`FreshInv`). `MatchedInv` says
that a stored value is of the token which the holder of the lock leaves in the index; a
delete commits only after it removed the value, and the token before that. The
three, with the invariants above, are `AgreeInv`; that no value in force is
overwritten is a property of its steps. `CaughtUp` needs besides that no call
fails: a stored value that is not the last one is about to be replaced
(`RefreshedInv`), and every live token has its entry, or is the one whose value is
about to be stored (`EnteredInv`). When all commands have ended nothing is under
way, and these are `KeychainIsCurrent` and `NoLostToken`.

**The refinement of the managed tokens.** `ManagedTokens` has no processes: a name
gets a token only when it has none and no entry; an entry is made where there was
none, and never moves from one token to another; entries go one at a time
(a delete) or all at once (a write that broke off). The index it sees is the
committed copy from the moment `rewrite` empties the file, so `Truncate` is the
commit, and what follows it is nothing or the loss of all. `KeepsInv` says what
makes a commit only add: the holder's copy has every entry of the file unchanged,
because an update of an indexed name and its entry both name the only live token
(`EntryOK`), and a created name has no entry. A delete's `Forget` has no guard:
the entry it drops may by then be another token's (`StaleDelete`).

**The refinement of the register.** The register's value is what the file decodes
to, except while a writer encodes, when it is the index going in. `WriterInv`
says that only the holder of the flock is past it and that the index it decoded
is still the file's, so a commit replaces exactly what its callback read. For
loads, `ReaderInv` says that the present value and what was read of the first
piece are among those seen since the load began, and that where no rewrite was met
the file is not empty and both pieces are of one file.

**The refinement of the map** needs that no two secrets share an item
(`ItemsDiffer`). `AccountsDiffer` shows it of `TokenAccount`: the last separator
of an account ends the profile, as token names have none, and an account without
one is the default profile's. `StepInv` ties each client's framework call to the
call it makes. For `Exec`, `HeldInv` says that an item holds a value its secret
has had, and `BuildEnvGives` what `buildEnv` returns.

**Profiles.** `Sound` says of an index that its pointer is known and its tokens are
of the accounts its profiles were given (`Owned`); `DataInv` says so of the stored
index and of every copy that no rewrite met. `Given` says that a stored bootstrap
token is among its profile's accounts, `Client` that the client of a running apply
is of one, which is what makes the entries it adds sound, and `LoadDoes` what a
load can return. `FreshInv` holds until a write is cut short: profiles are only
added, and one add at most has set the pointer. `BootInv` says that bootstrap
tokens stay, but for those of `Cleared`, and `ListInv` what a half-done listing
knows.

**Resolution.** `Stage` says what each step of the command may rely on, `Holding`
that the indexed prefix of the listing and the index say the same, `Grants` that
each translated policy grants what its policy asks for, with the zone the cache
has.

**Expiry.** `ExpiryInv` says that what was sent was valid, that Cloudflare enforces
its instant to the second, and where text and entry agree. `NormaliseKeepsTheSecond`
and `ValidHasInstant` are what the four parsers share.

Only model-checked: liveness (`CommandsEnd`), since the prover treats neither
fairness nor `ENABLED`. Every other property of a passing run is a theorem.

Assumptions of the proofs are the named `ASSUME`s of the modules: sentinels are
fresh, inputs are typed, seeds and starts are consistent, the clock is sane. TLC
evaluates them in every run. What a theorem assumes besides is in its statement.

## What is not modelled

YAML decoding, the pattern of names, the JSON schema, shell completion, flag
parsing, output, colours and exit codes, `main`, the build and CI: no state, or
not this program's. The Security framework's access control and prompts, and loss
of power: outside the code. `Index.DeleteProfile` and `Client.GetToken` are
called by no command. The path of the index file changes no step. Listing tokens
page by page while others change them: the SDK's, and what it returns then is
not known. The rest of a request's body copies `Resolution`'s result field by
field. `time.Time.Sub` saturates at 292 years, which changes no comparison with
30 days.

## Plan

Done: the life cycle, the index file, the Keychain and exec, the profiles, the
resolution, the dates, their runs and the theorems above. What is left:

1. An abstract specification of the stores when requests are repeated, which
   `LifecycleRefines` leaves out.
2. The life cycle over several profiles, the Keychain being `KeychainMap`'s.
