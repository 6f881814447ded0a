# Verification of fincubes-fastapi

`fincubes-fastapi` is the backend of a site with the results of fin swimming: FastAPI handlers
over PostgreSQL (Tortoise ORM), Redis, MongoDB and an object storage. This directory holds
TLA+ models of the parts of it that keep state, configurations that model-check them on small
instances, and proofs, checked by TLAPS, of what holds on every instance.

Contents: [the system](#the-system), [how it is modelled](#how-the-code-is-modelled),
[the modules](#the-modules), [the runs](#the-runs), [what is proved](#what-is-proved),
[where code and text disagree](#where-code-and-text-disagree),
[what is not modelled](#what-is-not-modelled), [the plan](#the-plan).

Check a model with `tlc -config X.cfg M.tla`, a proof with `tlapm M.tla`. The list of runs,
mutants, theorems, hazards and the lines each definition models are in `PROJECT.json`.

## The system

| part | state | operations | what makes it hard |
|---|---|---|---|
| sessions and refresh tokens | `sessions`, `refresh_tokens`; JWTs in clients' hands | login, refresh (rotation, adoption, reuse detection), revoke one or all sessions | two refreshes of one token at once; a revocation between the check and the insertion |
| user account | `users`, `user_verifications`; the scheduler's jobs | send and enter a code, ask for and follow a reset link, change a password, grant `*`, delete; the job that deletes unverified accounts | saves of whole rows that were read before another save |
| registration and roles | `users`, `user_roles`, `athletes`, `coaches`, `parents` | sign up with a role; an administrator writes roles, deletes users and athletes | transactions that do not see each other; references that are plain numbers |
| scopes | the scopes in an access token | merge defaults, roles and user; look one up | priorities, masks, negation, inheritance |
| athlete identity and import | `athletes`; answers in clients' hands | resolve candidates, preview, bulk create, bulk update | nothing ties the calls together |
| review of results | `review_sessions`, `review_items`, `review_decisions`, `results` | load rows, apply decisions, complete, upload | counts and checks that are out of date when they are used |
| results and maintenance | `results`, `athletes`, `competitions` | upload, delete, transfer, clear what is empty | read, count and delete in separate statements |
| coaches and athletes | `coach_athlete` | invite, agree, reject | two sides that decide on what they read before |
| profile and avatar | `athletes`; objects in the bucket | edit, mark, replace, upload and delete an avatar, files | two stores and nothing that undoes half a change |
| request limits and protection | counters and nonces in Redis | limited sending, challenge, token | check and act in two commands; a time to live set by a command of its own |
| administration of competitions, distances, standards | their tables | create, replace, mark, order, retire, clear | retire and create in two statements; whole rows |
| times, top tables, best marks | the generated column `resolved_time` | read and print a time, rank, page, mark | boundaries: hundredths, ages, seasons, ties |
| caches and ratings | Redis, MongoDB | top tables, performances, sitemap; the nightly job | how old an answer is; a job that goes through the cache |
| reading | – | listings, search | – |
| access and start-up | – | bots, service tokens, configuration, scheduler, mail, captcha, CDN | – |

**How they interact.** Registration makes the `users` row, schedules the deletion job (user
account) and opens the first session. Refreshing asks `scopes` for the scopes of the new access
token; every administrative endpoint looks one up. The review of results and the import both ask
`athlete identity` who a row is, and both write `athletes`; results are uploaded under a review
session or without one, and maintenance moves and deletes what was uploaded. Top tables are computed of
results, kept in Redis, and the nightly job makes rankings of what Redis gives it. Deleting a competition takes
its results and its distances along. Deleting a user or an
athlete, in whatever part, deletes the rows that refer to it through the database, but not a role's
profile, which is a plain number. There are no messages and no locks: parts meet in the tables.

**What each must guarantee.** Sessions: a session ends for a cause, never crosses users, and a
replayed token ends it. Account: what is verified was mailed, a used code is dead, a password is
somebody's choice. Registration: one account for an e-mail, one user for an athlete. Scopes: no
more than somebody grants, and what the highest source says. Identity: what was imported is
recognised again and loses nothing. Review: results only for athletes somebody chose; completion
means that nothing is open. Maintenance: tidying loses nothing. Links: nobody is linked by the
other alone. Profile: the avatar is there. Limits: what they admit, and that they lift.
Administration: one active standard of a kind, one order of the distances. Tables: everybody stands
once, with his best, in his place. Caches: no answer is older than it says; the rankings settle. Several of these hold only
up to a race; then the property says which, and the race is the only excuse it allows.

## How the code is modelled

The program is one asyncio process. A handler runs alone between two awaits, and any other handler
may run at an await. So one action is what a handler does from one round trip (to the database,
Redis, the bucket, the mail server) to the next, and the state in between is in `pc` and the
locals of the request. A transaction is one action, except in `Registration`, where statements of
one transaction wait for each other and their isolation is modelled. The program may run in several
processes; nothing in the models assumes one, since nothing is kept in memory between awaits but
the locals of the handlers.

Conventions shared by all modules:

- `Requests` are executions of a handler. Each is used once, so what a request creates (an id, a
  token, a code, a password) is named after it. That bounds every run, and is why deadlock is not
  checked: a run ends when the requests are used up.
- `None` stands for no row, no value and no text. A row that is deleted is `None` again.
- `save()` writes every column of the object that was read; with `update_fields`, the named ones.
  Saving or deleting a row that is gone does nothing.
- `Fail(r)`: at any await a statement may fail or the process may die; the handler stops there.
- What is only there for a property is under `history` and read by no action.
- An operator named like `Xyz…` with the comment *Mutated* is a plausible bug in `Xyz`. No action
  uses it; the mutants of `PROJECT.json` put it in the place of `Xyz` and the run must then fail.

Times are not counted but in `ResultCaches`. That an hour, a day or a time to live is over is an action that may happen
at any time after its beginning. Texts are values of small sets, told apart only where the code
tells them apart.

## The modules

Each part has a specification, an `MC…` module with the values of its constants (small modules share one), its `.cfg`,
and, where there are theorems, a `…Proofs` module that extends the specification.

### SessionLedger, SessionTokens

`SessionLedger` is what the tables promise: sessions open and end, tokens enter a session and are
spent, and neither is taken back nor changes hands. `SessionTokens` is the code of `shared/utils/tokens.py`,
`shared/utils/session.py`, `core/security/deps/refresh_auth.py` and the session endpoints, and implements the ledger (`KeepsLedger`).

`owner`, `ended` and `old` are the columns of `sessions`, `family` and `spent` those of
`refresh_tokens`; `jwt` and `access` are the tokens that clients hold. Login is one transaction.
Refresh reads the token's row, then the session, then the user, and rotates in a last transaction; a token
without a row is adopted into a new session in two statements. Revoking ends the sessions and sweeps their
tokens in two. A lost answer is not a separate action: the client that retries presents the
spent token, which ends its session (`grace_until`, `models/tokens/refresh_tokens.py:18`, is read by nobody).
Revoking one session by its id never finds one (it compares a number with a UUID): `RevokeOne` answers
and changes nothing. An expired refresh token is one that is not presented; access tokens are good until
they expire whatever happens to their session.

### UserAccount

One user's row, its codes and the deletion job: `me/auth/email/*`, `me/auth/password/*`,
`admin/user/[id]/*`, `services/admin_maintenance.change_password`, `jobs/jobs.py`. `row` is the user
(verified, password, scopes), `codes`, `active` and `attempts` are the columns of
`user_verifications`, `expired` and `day` the clock, `mailed` the mailbox. Each handler is
a chain: read the user, look for the code, write the code row, write the user row. `MaxAttempts` is 3 in the code.
The job may be dropped (it was not run in time), run late, or die.

### Registration

`shared/utils/registration.py` and the administrator's roles. A sign-up is a transaction: its rows
are in the locals of the request until `Commit`, and nobody else sees them. The unique index on
e-mails makes an insertion wait for the transaction that holds the e-mail: `InsertUser` is not
enabled until it ended. `raced` remembers who bound an athlete since a sign-up looked, `assigned` what
an administrator wrote, `gone` whose athlete was deleted after it was found.

### Scopes

`shared/utils/scopes/combine.py`, `check.py` and their use in `tokens.py`. No concurrency: one
action takes an input (defaults, roles, a user's list) and makes the token. A scope is
`[negated, category, right]`. Merging, simplification by masks, inheritance by rank, flattening and
looking up follow the code; `TokenMeans` compares the result with a definition by priority that knows none of these steps:
*voices*, each as high as its level, rank and place in a line of roles. It is exact for inputs that are `Plain`, and says why
others are not: a category that is denied as a whole takes part in none of the rules, and a right of all categories (`*:read`)
replaces what is below it and is never found. A role inherits from one other at most: several would be merged in the
order of a set of strings, another one in each process.
`Orders` has `Sorted`, for the ranks here and the competitions of `ResultTables`.
At this commit only a user's own list is passed in (`tokens.py:79`); the model covers the function as written.

### AthleteIdentity, AthleteImport

`AthleteIdentity` is `services/athlete_identity` without its texts of reasons: what a row and
an athlete of the same person have in common, the points it is worth, the patch that is suggested, the patch
that is safe, and the recommendation with its confidence. A team is the set of its words. A name is a record: the
`person` whom it means once it is normalised (small letters, ё as е, one blank between words), the `text` that the query compares
(capitals, no blanks around it), and whether it is `padded`, written with blanks around it. The query strips the row's name but not
the stored one (`candidate_search.py:37`), the second test of a candidate and the cache of a request compare persons (`normalizer.py:116`),
and what is created keeps its blanks (`preview.py:48`). So `SpeltAs`, `SameCandidate` and `CacheKey` are three
relations, and the instance has a name in two spellings, one of them padded too. (The branch of the scorer that
adds 70 is never reached: `_can_enrich_club` is true wherever its condition is, and comes first.)
`AthleteImport` adds the table, and clients that ask for a preview, then create and update in bulk by
what it answered, one row or several at a time, while others edit and delete.
`frame` is what a client knows. `disturbed` are athletes that have lost a value (by an edit), `written[r]` what
others wrote since the client's preview. Left out are the limit of 50 candidates (taken before they are scored), names
that are empty, and genders that an administrator writes in small letters.

What the code does with names is an exception that two properties state. An athlete created from a padded name is not found by
the row it is from, so each import of the row is advised to create one more; and a row answered from the cache may be taken to be
an athlete that its own spelling does not find. `Recognised` speaks of athletes `SpeltAs` the row, `TwoAtMost` of
those that one spelling finds. Without these words TLC finds both violated.

### ReviewWorkflow

One review session (`services/athlete_identity/apply.py`, `admin/athlete/review-sessions/*`,
`admin/result/bulk-create`). A load resolves each row and writes its item; an application of
decisions goes through match, enrich, create, skip or defer, saves the item, logs the decision, and at the end counts
what is open and completes the session; an upload checks that the rows are resolved, reads
the athletes and inserts results. `sanctioned` are the pairs of source and athlete that a decision has saved, `late` the items that
were opened again after a count. Of an athlete the model keeps the `Fields` that enrichment may fill, and in `filled[a][f]` which request
filled one, `None` while it is blank (a club that says little counts as blank, since a club may replace it). A created
athlete has the fields of its row and the others blank, an edit writes what its body has and blanks the rest, an enrichment writes those of
its patch that were blank in the object it read, and only those columns (`update_fields`). Two enrichments that both
read a blank do overwrite each other; `FilledKept` says that nothing else is lost but by an edit. Columns that nobody decides on are left out, and an upload
without a session is in `ResultMaintenance`.

### ResultMaintenance, CompetitionAdmin

`ResultMaintenance` is `services/admin_maintenance.py`, deletions and the upload of results by statements: transfer
(read the target, read the results, move, count, drop the empty source), clearing what is empty (count, then
delete one after the other), clearing results. `arrived[r]` are results that came to an athlete after request
`r` found it empty, `strayed[r]` results that another transfer moved after `r` read them. A dry run ends at
the read and is left out; `POST /admin/result` reads a column that is gone and always fails.

`CompetitionAdmin` extends it by clerks at `admin/competition`, `admin/distance` and `admin/standard`: whole-row
edits and marks of a competition, distances that are created, ordered and removed, standards that are retired and
created. `details[c][f]` is who wrote column `f` last, `order` of a distance which request put it there, `rivals[m]` are the
standards created between the two statements of `m`. Both kinds of requests meet in the table of competitions, and a step of one is a
stutter of the other (`Implements`). As in the code: an edit that leaves `last_processed_at` out resets it;
updating a distance awaits what cannot be awaited and fails before it writes; deleting one answers 404 after it has deleted.

### ResultTables

No concurrency: one action is one call on given rows. `validate` and `str` are `FlexibleTime`, `resolved_time` the
generated column, `build_top_results_query` the query of `repositories/sa/top_results.py` as sets (with
`row_num`, which is a dense rank, and every page that the order allows: rows of one rank have no
order of their own, so two pages may repeat one and miss another), `get_athlete_results` the marks of best results,
`get_random_top` the pick of the front page. Each is compared with a definition that says what the
answer means. As in the code: a blank text is the time zero; one digit after the point is a number of hundredths, so 56.7 is
56.07 (of such a text `TimesRead` says only that it is read as no later time of the same second; it would hold as well if the digit were read as tenths); the
endpoint for servers passes its arguments by position, so a season arrives as the categories, which fails, and
`current_season` as the year 1.

### ResultCaches

`shared/cache`, `repositories/get_top_results.py`, `repositories/ratings.py`, the performances of an athlete and the
sitemap. The database is a `version`; a fill is a look-up, its statements one by one (each finds the version of that moment) and
the storing; nothing removes an entry but its age. An empty list is stored and never served. The job goes through
the tables in a fixed order, by the cache, and then writes one athlete at a time: who is in no table keeps
the rankings he had, and a night without a single result ends in an exception (`bulk_write` of nothing).
Here time is counted, in ticks (below). `past[v]` is for how long version `v` has not been the newest.

### CoachLinks

`me/role/coach/athlete` and `me/role/athlete/coach`. Four handlers that read any link of the pair, decide by its status
(`Invitation`, `Agreement`, `Rejection`), and save the row or insert one. `rivals[r]` are links
of the pair inserted since `r` found none, `agreed` pairs whose athlete once agreed, `withdrawn` links a coach once rejected.

### RequestLimits

`core/deps/ratelimit.py` (get, then set or incrby) and the counters of `auth/challenge` and
`auth/token` (incr, then expire), with the nonce a token is paid with. One counter of each kind
stands for all of them: counters do not touch each other. `ends` are counters that have a time to live, `passed` who
was let through since the counter began, `stale` who acted on a counter that had changed since it was read.
The chain of `SecureRequest` is used by no route at this commit.
Its requests are `Askers`, their labels `place`, and `Proceed` and `BreakOff` what `Continue` and `Fail` are elsewhere: its
proofs stand beside those of `UserAccount`.

### AthleteProfile

Handlers that save the whole `athletes` row (the club, the top mark, the
administrator's replacement) and the avatar in the bucket: `me/role/athlete/*`, `admin/athlete/[id]/*`,
`admin/files`, `integrations/yandexcloud.py`. `seen` is the row a request read and `want` the row it will write.
An object stands for every URL that `extract_object_path` takes to it. The club stands for all columns that are not the mark or the avatar. A failed prefetch leaves the upload
running (`asyncio.gather`), hence `LatePut`.

## The runs

`completes_closed` ends in a violation, which is a finding; the others pass. States are distinct states.

| run | instance | shows |
|---|---|---|
| `sessions` | 2 users, 4 requests, 1 token without a row; 684k | reuse is only detected where a token was rotated; sessions fork only by two rotations; sweeps miss only what came late; sessions end for a cause and nothing crosses users; sessions without rows are lost adoptions; the tables keep to the ledger |
| `sessions_end` | 1 user, 3 requests, 1 token without a row; 74k | a replay ends its session; an ended session is swept |
| `account` | the job and 3 requests, 2 attempts; 489k | what whole-row saves cannot break: verification and passwords are earned, counts are not too high, dead codes stay dead but for one race; an accepted code takes effect; an unverified account goes |
| `review` | 3 requests, lists of up to 2 sources, 2 fields of an athlete; 1735k | what is uploaded was chosen; orphans are reported; resolutions are logged; a filled field is lost only to an edit or to an enrichment that had read it blank; completion is neither early nor forgotten but for the named race |
| `completes_closed` | 3 requests, 1 source, 1 athlete | *violation*, see below |
| `imports` | 3 clients, rows alone and in pairs, 2 persons, 3 ways to write one of them; 499k | imported rows stay recognised by athletes spelt like them; the order of candidates never puts a conflict before a match; advice makes at most two athletes that a spelling finds; what the preview answered is what happens |
| `functions` | lists of scopes, times, up to 5 results under 10 questions; 65k | the token says what the sources say by priority, and no more than somebody grants; a time with two digits is read and printed as itself or refused; tables show everybody's best, in place; one result of a style is marked, the first of the best |
| `caches` | 1 client, 2 tables and 2 pages, 1 change, 1 failed night; 753k | an answer is not older than its life and its fill; rankings are explained by the last night that ended; they settle |
| `administration` | 2 requests, 3 clerks, 3 athletes, 2 competitions, 2 results, 2 distances; 725k | tidying loses only what came after the count; a transfer takes what it was told; orders do not mix; two active standards were asked for at once; columns change only by their own request or an overtaken save |
| `registration` | 4 requests, 2 e-mails, 1 athlete; 789k | one account for an e-mail; the only ways to share, lose or orphan a profile |
| `roles` | 4 requests on one pair; or 3 savers, 1 file, 1 URL elsewhere, 1 club; 172k | links repeat only by a race; an invitation alone accepts nothing; a rejection is the rejecter's; three explanations for a missing avatar, and no other; other columns change only where a save was overtaken |
| `limits` | 4 requests, 3 counters that admit 2; 211k | what is admitted; when a counter has no end; a nonce pays once; a full counter comes down |

Some properties are conjunctions whose parts are named in the module: `LateRows`, `Ownership` and `EndsComplete`
(sessions), `CodesCounted` and `ColumnsKept` (account), `DecisionsAccounted` (review), `TokenMeans` and
`TableIsBest` (functions), `RowsAgree` (administration), `AccountsUnique` and `ProfilesExplained`
(registration), `LinksExplained` (roles), `CountersExplained` (limits). `TypeOK` says more than types: it holds the
references between tables that a deletion could break. It is part of `CodesCounted`, `CountersExplained` and `RowsAgree`,
and proved for every state machine that has proofs.

**Three runs check two modules each**, since these share no state: `functions` (`Scopes` and `ResultTables`: an input of
either), `roles` (`CoachLinks` and `AthleteProfile`: a behaviour of either), `administration` (a composition:
`MCCompetitionAdmin!Meeting` keeps of `AllNext` the steps where requests and clerks can meet. They do where a competition is deleted;
clerks meet each other where they change the same kind of row, and two of the three see to distances. Other pairs of steps
commute; requests by themselves take every step of `ResultMaintenance`).

**Why the bounds are enough.** Every property that names a race needs two requests to race and
one to be harmed: three requests, four with one that prepares the state. (Two are enough in `administration` for transfers and
clean-up, where the first prepares and is overtaken.) A second user, person, e-mail, competition or
source is there exactly in the runs whose properties speak of two. Attempts and counters are at two: the
first value at which "not yet" and "now" differ after one increment. Each of the pairs (coach, athlete) and each
counter is untouched by the others, so one stands for all. In `functions` five results are a tie, somebody better, one
of another gender, and one that counts in another period; the texts and durations lie on both sides of each boundary. In `caches` an
hour is two ticks, a quarter of one is one, a day three, a fill or the job lasts one tick at most (`MaxTook`): an entry may
outlive the end of what it shows, a fill may straddle an expiry, and an entry of one night is gone the next, as with
24 hours. `MaxVersion` is one change, in which an athlete leaves one table for one that was empty: both the empty answer
and the night between are there. `MaxFailures` bounds the failed nights; without a bound nothing would settle. One page at a
time is in use (`OnePage`), since keys do not touch each other.
Every action fires in some run, and every
property has a mutant that breaks it within the bounds of its run, which shows that the case it is about occurs there.
One interleaving is known to be out of the bounds: revoking all sessions needs a login, another
login, a day, and a refresh before it, so a refresh of one of the revoked sessions at the same time
would be a fifth request. The theorems about sessions cover it.

**Symmetry.** In `review` every athlete is created with a city and without a club (the action constraint `CityFirst`): no step looks at the
fields of two athletes, so which of an athlete's two fields is the filled one is a matter of names. Requests are interchangeable, and the safety runs say so. The runs with liveness
properties cannot; `account` and `limits` have the action constraint `InOrder` instead: requests begin
in the order of their names, which leaves out only renamed behaviours, and beginning is never fair, so
no fair step is cut off. The clerks of `administration` begin in order likewise.

**Fairness.** `FairSpec` gives weak fairness to `Continue(r)`: the event loop resumes every handler
whose await is over, and an await that never ends is `Fail`. `UserAccount` adds weak fairness of the deletion
job, which the scheduler keeps in the database and runs once due (`Misfire` is the case in which it
drops it); `RequestLimits` that of the end of a counter that has an end, which Redis
promises; `ResultCaches` that of time, and so of the nightly job, which cron starts. Clients, administrators,
changes, failures and the passing of an hour of a code are not fair.

## What is proved

Eight modules hold proofs, and every safety property of every run is the statement of a theorem. Those about state
machines follow the same argument: an inductive invariant (`IInv`; other names where a module has several), a lemma that
`Init` implies it, one lemma for each action that the action preserves it, and from it, for any values of the constants that
satisfy the named assumptions, `Spec => []IInv` (`Invariance`), the invariants, and the action properties. Hardly any
of the safety properties is inductive by itself: a property about what a handler writes needs what the
handler holds, so each invariant has a layer for the locals (by `pc`), one for what is not there
yet (ids and rows of requests that have not run), and the layers below.

| module | layers of the invariant | theorems |
|---|---|---|
| `SessionTokensProofs` | rows, owners, why a row is spent, why a session is being ended, late rows, forks (a session without a double rotation is one chain), row-less sessions | every invariant of `sessions`, `EndedForCause`, and that `SessionTokens` implements `SessionLedger` (`KeepsLedger`) |
| `UserAccountProofs` | what a handler holds at each label (`LocalInv`); codes are of requests that made them (`MadeInv`); counts have their wrong guesses (`CountInv`); whatever row somebody holds a copy of was earned (`EarnedInv`). `ColumnsKept` needs to know whose write a copy has missed | every safety property of `account` |
| `UserAccountProofs`, second part | of `RequestLimits`: who was let through since a counter began, who holds an old count, nonces paid and unpaid | `CountersExplained` |
| `ReviewWorkflowProofs` | locals, references, what an upload rests on, counts, new athletes, decisions under way; and who may be the last to count | every safety property of `review` |
| `AthleteImportProofs` | ids not created yet, answers that stay true of athletes that lose nothing, imported rows are *settled*, reads are current unless raced; who was created on whose advice | every safety property of `imports`; of the functions, `SuggestionIsSafe`, `EnrichmentConverges`, `HighMeansMatched` |
| `FunctionsProofs` | of the functions none: sets of rows and rights are compared element by element | `TimesRead`, `TableIsBest`; `MergeIsPriority`, `LookupIsMeaning` |
| `FunctionsProofs`, lists of any length | what is true after each result, each parent and each rank (below) | `BestMarked`, `TokenMeans` |
| `FunctionsProofs`, last part | of `ResultCaches`: what a caller has read, what an entry holds and what the job has got is each no older than its own clock says | `ServesRecent`, `RankingsExplained` |
| `CompetitionAdminProofs` | of `ResultMaintenance`: locals, results not inserted yet, what came after a count, what was moved on after a read; of the clerks: references of distances, what a reordering holds, who stands between retiring and creating | every property of `administration`; `Implements` (the composition is `ResultMaintenance` with stutters, so its theorems hold of it) |
| `RegistrationProofs` | locals, rows not committed yet, e-mails that open transactions hold, roles they give, who bound an athlete meanwhile, who was found | every property of `registration` |
| `RolesProofs` | of `CoachLinks`: locals, links not inserted yet, links since none was found, the status a decision was made on; of `AthleteProfile`: the row a saver read and what was written since, objects under way | every property of `roles`; `PartsTheorem` (a behaviour of the run is one of each of the two) |

`Recognised` is the deepest of them: that a row once taken to be an athlete that is spelt like it is not recommended as new again is not
kept by enrichment as such. It is kept because what an accepted patch settles (`Settled`: the city is the
row's, the club shares an informative word with it) is again a match or a review in every later decision, and no later
patch takes it away. `RankedByTrust` is arithmetic: over every combination of signals an athlete that would be matched beats the
others by 5 points at least (`ClubMargins`, `CityMargins`, `Margins`) and one that meaningfully conflicts loses by 20, which no sum of small
bonuses makes up for. `CompletionNotLost` is about all requests at once: where nothing is open, nobody is still on his way and
the session is not completed, some request was the last to decide, and what its count found is what excuses it.
`BestMarked` and `TokenMeans` are about recursive functions of the models: the marks after `n` results, the scopes of a role
after its parent's, the merge after `k` ranks. Nothing says in advance that such a function exists. `MarksThere` and
`Recursion` build it level by level (`Reached` is induction over a *set* of numbers, which is first-order), a role's level
being the number of roles before it (`Levels`). Then what is claimed goes along the recursion: `BestsOf`
says what the marks are of the first `n` results; `Tells` says that a source grants and denies what the highest *voice* that says anything
does, and `OnTop` that merging keeps this when all voices of one source are above those of the other. The
inductive claim has to speak of denials and of silence as well as of grants, and of a role's voices at any rank, since
its heirs repeat them at theirs. `SortedOrder` says of `Sorted` what both need: everybody is there, in order.
`RankingsExplained` is about two clocks: what the job has collected ages while it runs, so its bound is stated
by the time since the job began, and becomes that of the rankings when it ends.

**From which assumptions.** Names are distinct from `None` (`Absent` in `Scopes`, `Nothing` in `RequestLimits`) and from each other, and lists and tables are finite. A row of a user or
of a session is not `None` (`NoneAssumption` of `UserAccount` and `ReviewWorkflow`). Names of one text mean one person (`NamesAssumption` of
`AthleteIdentity`), and what a row, a patch or a body has are fields of an athlete (`GivenAssumption`). The tables of the job are not the other keys
of the cache, and its times are numbers (`KeysAssumption`, `RowsAssumption`, `TimeAssumption`). Rows that a question finds
are a finite set in which an athlete has one gender and one year of birth, as a join makes them (`QuestionsAssumption`). TLC evaluates
all of these on the instances of the runs.

The roles of an input have different names, being keys of a dictionary, and inherit from one other at most (`InputsAssumption`; see `Scopes`
above). The results of an athlete that are of one competition have its one date of beginning.

**Only model-checked.** Liveness (`EndsComplete`, `AcceptedTakesEffect`, `UnverifiedGoes`, `RankingsSettle`, `LimitLifts`), which rests on
fairness and `ENABLED`. Nothing else.

## Where code and text disagree

The run `completes_closed` ends in a violation: a session is completed with an unresolved item
if a load or a decision comes between the count and the save (`apply.py:226`); a test's name
(`tests/test_athlete_identity.py:647`) says that it cannot be. `CompletedWasClosed` is what does hold.

Other disagreements were met while modelling. They have no run of their own; where a property
leaves the excuse that they need, it is named.

- Two sign-ups at once bind one athlete (`registration.py:58`); there is an error for an athlete
  that has a user already (`errors.py:91`). `BoundOnceUnlessRaced` excuses exactly this.
- An athlete counted as empty is deleted with the results that came since
  (`admin_maintenance.py:177`); the message says athletes without results. `ResultsLostForCause` excuses it.
- A used reset link is active again if a wrong guess that had read its row writes it back
  (`me/auth/password/reset/route.py:69`); `reset-password.html:340` says the link is void after its use.
  `DeadCodesStayDead` excuses it.
- Verification codes expire after an hour (`me/auth/email/send/route.py:18`); `verify-email.html:325` says 24 hours.
- `*` with `-posts` permits posts (`combine.py:70`); the comment above it says that of a denied
  category only the other denials go. Of two roles of one rank only the last counts (`combine.py:235`);
  the comment says all sources are combined. `TokenMeans` defines the meaning with both.

Not against a text, but a reader will stumble over them: rankings stay with an athlete who left every table
(`ratings.py`; `RankingsExplained` says who); a record cannot be created (`admin/record/route.py` reads a field its schema does not
have); and see the sections of `AthleteImport` (names), `ResultTables` (one digit) and `CompetitionAdmin` above.

## What is not modelled

- Reading: listings, search, serialisation. They change nothing; the ordering and filtering of them is PostgreSQL's.
- Children of parents and the profile of a coach: an insertion into a relation whose pairs the database keeps unique, and a row
  that nobody saves but its owner. There is no second actor to go wrong with, and nothing modelled reads them.
- Records, whose creation fails before its first statement, and regions, which are inserted and that is all.
- Outside services: mail, captcha, CDN and the bucket are calls that succeed or fail; the token of the storage API
  is fetched again by whoever finds it expired. Passwords, JWTs and
  signatures are names; that a signature cannot be made is assumed. Whether a proof of work is good is a choice.
- Start-up, configuration, migrations, bots (no handler writes one) and `SecureRequest`, which no route uses.
- In the modelled parts: what each section above says it leaves out.

## The plan

Done, in the order in which the parts matter: sessions, account, review, identity and import, scopes, maintenance,
registration, links, limits, profiles; then tables and times, caches and rankings, administration of competitions, the
order of candidates, and their proofs.

What could come next: roles that inherit several, in any order; that two review
sessions do not meet; and a run of `ResultCaches` over the moves and deletions of `ResultMaintenance` in the place of its `version`.
