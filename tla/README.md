# A formal model of Grant Finder Studio

Grant Finder Studio helps small charities and community interest companies find
a fund, see whether they are eligible for it, draft an application from facts
they have confirmed, and keep track of what was sent and what came back. It is a
Next.js application in TypeScript over one PostgreSQL database. This directory
holds TLA+ modules of the parts where order, overlap and stale reads decide
whether the product keeps its word, the TLC configurations that check them on
small instances, and TLAPS proofs for every size of the same things.

Source paths below leave out the leading `src/` of the repository copy: `db/`
means `src/src/db/`.

## 1. How the program runs

Facts about the whole program that every module uses:

- **Requests, not processes.** A page visit, a form or the daily call of
  `vercel.json` starts a function, stopped by the platform after at most 300
  seconds. A request can die between any two statements. Nothing is kept in memory
  from one to the next.
- **READ COMMITTED, and no `SELECT ... FOR UPDATE`.** Each statement sees what is
  committed when it starts. Only writing a row locks it, until the transaction
  ends. A value that was read is a memory of what used to be so.
- **Short transactions that never nest.** `withTenant`, `withUser`, `withAdmin`
  and `withOperator` (`db/client.ts`) each take a connection of their own. An
  operation that needs two of them is two transactions, and another request may
  come between.
- **Old pages.** A form carries ids, and seldom what its reader saw. It may be sent
  hours after it was drawn.
- **Slow neighbours.** 360Giving, Companies House, websites, the mail service and
  the language model are awaited between transactions; each may fail or answer in
  part.

So the unit of interleaving is a transaction, or a statement where the order of
statements inside one matters. What a request holds between two transactions is a
record in a variable of the module (`step`, `writer`, `form`, `desk`).

## 2. Inventory

| Part | State it keeps | Operations | What is hard about it | What makes it right |
|---|---|---|---|---|
| Corpus walk: `db/corpus.ts`, `ingestion/threesixtygiving/corpus.ts`, `app/corpus-autostart.ts` | the one `corpus_load` row: cursor, counters, lease, finished | nudge by visit, daily call or button; claim the lease; read the cursor; fetch a page; store a funder; record; restart | steps outlive their lease and overlap; steps die; the list grows; a restart while a step runs | no funder skipped in silence, one lease per interval, the walk ends |
| Award shelf: `storeFunderAwards`, `connector.ts`, `app/admin/funders` | one funder's awards, dataset row and funder row | read a publisher, replace, keep the fuller, remove | a count and a delete in two statements; partial reads | a partial read never costs awards |
| Corpus standing: `corpusStanding` | four timestamps | claim, record, restart | an attempt is not progress | "stalled" and "filling" are true when said |
| Calls to the world: `ingestion/*/http.ts`, `ingestion/web`, `ingestion/companieshouse`, `ai/run.ts` | a queue of list requests, a timer per call | ask, connect, redirect, read, retry, give up | the other side may be slow, silent, redirecting or halved | nothing half-read is passed on, nowhere private is connected to, every call ends |
| Prospects and behaviour: `domain/prospect`, `domain/funder`, `domain/grants` | none (pure); the organisation's words, the awards, the day | weigh every funder, order the cards, score a list | ties, boundaries, three screens each computing for itself | one order, one size of ask, evidence never costs a place |
| Grant search: `app/grants`, `db/grants.ts`, `domain/grants/facets.ts` | the address of the page | search, narrow, widen, scope to an organisation | one answer is five statements while shelves are replaced; a list and a number cut off at different places; a label counted as often as it stands | numbers are the list's, cut off where the limits say; chips lead to something, and all but a topic's to no less than they say |
| Limit on attempts: `app/(auth)/limit.ts`, `domain/auth/throttle.ts` | `auth_attempts` | check, read the count, write it, clear, sweep | check, work and count are three transactions | nobody shut out early or for ever |
| Console accounts: `db/admin.ts`, `app/admin` | admins and their sessions | claim the console, sign in, stand down, restore, add, set a password | proof, count and write apart; two admins at once | the console can be opened, ended sessions stay ended |
| Operator's settings: `secrets/`, `settings/`, `app/admin/settings` | one encrypted key per service with the verdict on it; settings | save, remove, test a key; set and reset a cap; restart | a test waits for the service between its read and its write; the environment and the master key change under the row | what is used is what the operator set last |
| Customer passwords: `app/(auth)/actions.ts`, `db/password-reset.ts` | password hash, sessions, reset links | sign up, sign in, rehash, ask for a link, reset | row locks held while hashing; two links at once; a deadlock broken by the database | a used link is dead, the last chosen password opens |
| Organisations: `app/session.ts`, `db/onboarding.ts`, `db/erasure.ts` | users, organisations, memberships, sessions | sign up, onboarding, erase, sandbox | the organisation is captured in the session; erasure is two transactions on two connections | an organisation is one person's; nobody left behind; nobody else cut off |
| Review links: `db/shares.ts`, `db/comments.ts`, `app/review` | links, views, comments | share, withdraw, expire, read, comment, deal with a comment | a bearer token resolved in one transaction and used in the next | dead links open nothing; the cap is nearly held; a visit leaves a line |
| Eligibility: `domain/eligibility`, `db/criteria-mapper.ts`, `db/queries.ts`, `db/opportunities.ts`, `db/own-funds.ts`, `db/onboarding.ts` | the rules of a fund, profile, project | paste a fund, verify, reject, type a rule, withdraw it, describe the organisation and the project | rules written in one shape and read in another; answers missing; a third truth value | no verdict surer than its answers |
| Assessment and setup guide: `domain/assessment`, `domain/setup`, `db/queries.ts` | none (pure) | recommend, price, say what is next | the list, the fund's page and the guide each compute for themselves | one fund is weighed alike; the guide says what is true |
| Fact base: `db/workspace.ts`, `db/documents.ts`, `domain/provenance` | facts, documents, citations of an answer | type, confirm, correct, read the register, a page or a document, draft, save, delete | the Writer and the Analyst are awaited between read and write; ids made from positions on a page | only checked facts are cited, and citations stand |
| Documents cut up: `documents/chunk.ts` | none (pure) | pages to segments, chunks, batches | ceilings, repeated ends, sentences longer than a chunk | nothing goes unread |
| Drafting: `db/workspace.ts`, `db/reviews.ts`, `ai/agents/critic.ts` | applications, questions, answers, reviews | start, paste questions, save, review | reads of a maximum, then an insert; the Critic is awaited | one application per fund but for a race; current reviews quote live words |
| Readiness: `domain/readiness`, `domain/budget`, `db/budget.ts` | budget lines, outcome rows | edit lines and outcomes, measure | rounding, empty lists, parts that do not apply | full marks are earned and work never costs them |
| Schedule and tracker: `domain/tracker`, `db/tracker.ts`, `app/tracker`, `app/api/tracker/calendar` | none of its own; the days | list, timeline, calendar file | three surfaces from the same rows; halves of hours and whole days | nobody is told too late; the three tell one story |
| Answer of the funder: `db/tracker.ts`, `db/decision.ts`, `app/tracker/actions.ts` | status, dates, sum and note of an application | send, un-send, record an answer, clear it | the submission date is read, judged on and then written past | status and dates agree, no half-written answer |
| Serving: `db/index.ts`, `db/migrate.ts`, `db/postgres.ts`, `db/client.ts` | the cached handle of each process, the table of migrations, a pool, a role and a tenant per transaction | build, migrate, connect, set, end | instances start together, fail or are killed; a connection is handed on | each migration runs once; a connection carries its own request's tenant; a failed start is forgotten |
| Catalogue: `db/catalogue.ts`, `db/own-funds.ts`, `db/opportunities.ts`, `app/opportunities`, `app/admin/catalogue` | funders and funds, the platform's and each organisation's | add by hand or from guidance, edit, move to another funder, remove; the operator's adding and removing; the register's renaming | a funder is found or made in one transaction and its fund stored in the next; foreign keys take rows along or refuse | no fund hangs on a funder another organisation added, and work is not lost with a fund |
| Audit trail and export, mail, pages, seed | see PROJECT.json | | | |

How they meet: sign-in gives a session; the session names the organisation of every
`withTenant`; the corpus gives the awards that search, prospects and assessment
read; facts and rules are proposed by agents that read documents and guidance, and
decided on by people; the Writer is given facts and its draft becomes an answer;
the application that holds the answers is measured, reviewed, shared, sent, and
answered.

`PROJECT.json` lists every part, with what is modelled of it, and every hazard at
its line.

## 3. Modules

| Module | Models | State and its counterpart |
|---|---|---|
| `CorpusLoad` | one walk of the list, every round trip an action | `row` is `corpus_load`; `step` what each function holds; `held`, `everWalked`, `walkedThisLoad` are history |
| `ShelfContract` | abstract: what readers rely on of one funder's awards | `shelf` |
| `AwardShelf` | the transaction that replaces awards, with its row locks | `shelf`, `datasetLock`, `funderLock`, `writer` |
| `CorpusClock` | timestamps and `corpusStanding` | ages in units of twelve hours |
| `AttemptLimit` | one bucket | `record` is the row, `attempts` the requests, `counted` history |
| `Serving` | processes, migrations, pool, the role and tenant of a transaction | `handle`, `build` per process; `table`, `applied`, `lock` the database's; `pool` what each connection carries; `request` who waits and works; `failures`, `twice` history |
| `Fetching` | outgoing calls of four kinds and a model's retries | `call` is what each request awaits, `chain` the list requests in the order asked for, `since` the start of the last |
| `Giving` | the arithmetic of a funder's awards; no state | shared by the next two |
| `Prospects` | cards of the funders page, scores of a searched list | `published` awards, `project`, `where`, `today` |
| `Assessment` | list, fund page and setup guide | the rows they read |
| `Console` | admins | `standing`, `hash`, `sessions`, `desks`; `ended`, `crossed` are history |
| `OperatorKeys` | one service's key, one setting | `row`, `env`, `request` of each screen and what it has `shown`, `cap`; `chosen`, `overtaken` are history |
| `SignIn` | passwords and links | `hash`, `sessions`, `resets`, `desks`; row locks follow from `desks` |
| `Tenancy` | organisations and who belongs to them | `users`, `orgs`, `joined` (memberships in the order made), `named` (other rows that name a person), `sessions`, `desks` |
| `ReviewLink` | links, their readers and comments | `share`, `comments`, `trail`, `clock`, and `request` of each reader |
| `FactBase` | facts, documents, one answer | `facts` by primary key; `desk`, `reading`, `upload`, `draft` between read and write |
| `ApplicationOutcome` | one application after drafting | `row`, and `form` of each request |
| `Eligibility` | one fund's rules against one organisation | `rules`, `fund`, `org`, `project`; the verdict is an operator, as it is a function in the code |
| `Chunking` | one document as it is cut up | the segment being read, `buffer`, `last` chunk, the batch |
| `GrantSearch` | the address and one answer in five statements | `asked`, `held` awards, `page` drawn so far |
| `Drafting` | applications to one fund | `apps`, `questions`, `answers`, `review`, and `request` between its transactions |
| `Readiness` | one application as its page measures it | `lines`, `outcomes`, `sheet` of questions, the funder's `rules` on money |
| `Catalogue` | funders, funds and who applies to them | `funders`, `funds`, `applied` are rows, `orgs` the organisations there are, `desk` what a request has found between its transactions |
| `Tracker` | one fund's row over the days | `today`, `deadline`, the fund's `rule`, the form, what was sent and decided |

Each `*Proofs` module proves theorems of the module it extends; `SignInProofs` and
`FactBaseProofs` are used again by the proofs of the composites those machines are part
of. `Totals` is one operator, the sum of a weight over a set, and `TotalFacts` what is
proved of it. The `MC*` modules define the values of the constants, the symmetries and one `CONSTRAINT`, and no state or action. `PROJECT.json` ("map") names the lines each definition
stands for.

### Composites

Parts that share no state and write different tables are put side by side and checked
in one run: `focus` picks one in the initial state, and the others stay where they
began. That is exactly as strong as a run of each, because no action of one machine
reads a variable of another; a property says what it says of the machine in focus. That
a behaviour of a composite is one of each of its parts is a theorem (section 6), so a
theorem about a part is one about the whole.

| Module | EXTENDed | INSTANCEs | Checked by |
|---|---|---|---|
| `ContestedRow` | shelf, prospects, clock, serving | `Limit` (AttemptLimit), `Net` (Fetching) | `MCContestedRow` |
| `People` | console, keys | `T` (Tenancy), `S` (SignIn), `R` (ReviewLink) | `MCPeople` |
| `Application` | facts, the funder's answer, rules, fund (assessment and guide), document (chunking) | | `MCApplication` |
| `Workbench` | search, draft, ready, track, funds | | `MCWorkbench` |

Machines are EXTENDed where their names allow it, so that a property of the run is the
very definition that its proof module proves; otherwise they are INSTANCEs, and the
composite states their promises as definitions of its own.

### What the modules abstract, and why that is sound

- Texts, names and sums are model values or small sets: no modelled branch looks at
  more than equality, order or membership. `Eligibility` keeps two of the seven legal
  forms that are not CICs, which the engine only ever looks up in a list. A text that
  is searched for words is the set of its words; one that is cut up is its length and
  its pages.
- Ids drawn from time and chance are fresh model values, each drawn once.
- Time is an age counted to the oldest that can be told apart, or a day number, or the
  ticks left of a timer.
- Fractions are kept exact by counting in a common part: quartiles times four, hours in
  2800ths, sums in tenths of a penny, a percentage in twelfths.
- A reading of the register, of a page or by a model is chosen when it is asked for,
  since nothing it says depends on what happens meanwhile. What `Fetching` shows of
  calls is why the others may take one as answered, refused or failed.
- Isolation between tenants is assumed by every module but `Serving`, which models what
  the setting on a connection may carry over, and `Tenancy`, which has the one place
  where row security changes an answer. Which database it is, one whose owner is bound
  by row security, as `docs/DEPLOYMENT.md` and `db/onboarding.ts` describe, or one whose
  owner is not, as in the tests, is the constant `OwnerBypassesRLS`. TLC checks the
  first; the theorems hold of both.

## 4. Runs

All bounds are constants of the cfg or named in the module.

| Run | Question | Bounds | Why they suffice |
|---|---|---|---|
| `corpus_load` | may overlap, crash and restart lose a funder, a lease or the walk? | 2 steps, list and page of 2, 1 restart, 1 setback, three ways for a funder to end | every hazard is a matter of two steps; a second funder gives a before and an after |
| `corpus_live` | does the walk end, having read the list? | 2 steps, a list that grows from 2 to 3 whose third entry has no org_id, 1 setback | two pages, growth while a step holds an old count |
| `contested_row` | rows and services that many use at once | shelf: 3 writers, 2 awards. clock: 2 steps in flight. limit: 2 attempts, 3 failures allowed, a window of 3 parts. serving: 2 instances, 2 requests, 2 tenants, 2 migrations, a pool of 1, 1 failure. prospects: 3 funders, 6 lists of awards (one past twenty texts), 7 projects, 2 places, 2 days. calls: 2 of any kind, 2 redirects, 2 units of body, 2 attempts of a model, intervals and timers of 1 or 2 ticks | a third writer can come between a pair; a window has an inside and two edges; a pool of one makes every connection second-hand; three cards can disagree about an order; two calls are one and the one queued behind it |
| `people` | who may do what, and what the operator set | console, tenancy, sign-in: 2 admins, passwords, tokens and requests; 2 persons, the operator, 2 organisations and a sandbox; 1 address, 2 links, 3 requests. review: 1 link, 2 readers, lengths 1 and 2, 2 comments, 3 views. keys: 2 keys, 2 master keys, 2 screens, caps 0, 7 and 900 | crossings are pairwise; three requests let a sign-in cross two resets; a cap below, inside and above what is allowed |
| `application` | facts, the funder's answer, rules, a fund weighed, a document read | facts: 1 claim, 2 values, 2 people, 1 document, 1 page slot, 2 corrections, 1 cited fact, 2 slow operations (and CONSTRAINT `FewAtOnce`). outcome: 2 requests, 3 days. rules: 2 rules, numbers 0..2. fund: 3 claims about the work, 2 questions, 3 funds, two sums sought, 3 other facts. document: a target of 4 under a ceiling of 6, an overlap of 2, sentences up to 7, 2 pages | see below |
| `workbench` | a search, an application and its row on the tracker, the list of funds | search: 4 awards of three funders, one of which repeats a label, chips 1 wide, 2 values per dimension, list and funders cut off at 2, at most 2 values of a dimension in force, links of 3 entries, 1 shelf replaced. draft: 2 requests, applications and texts, 2 questions, 3 writes. ready: 2 lines, 1 outcome, 2 questions, four funders. track: 13 days, deadlines on days 3 and 12, 2 questions, 2 claims. funds: 2 organisations, 2 requests, 2 names, 1 funder of the register, 1 typed and 1 fund at a time | a chip, a list and a row of funders that are cut off, a word that is only part of a name, a label that stands twice; two presses of Start; an empty form and a full one; a deadline that cannot be met and one that can; one organisation names the funder another has typed, and a fund may be moved and removed at once |

Notes on these bounds:

- `FewAtOnce` holds the fact base to three facts at once, and to one person at work and
  one correction as soon as something is cited or a document has been uploaded. Two
  people may so correct one fact at the same moment, or one after the other, or a
  correction of a correction, while the register, the website and typing write the rows
  around them. TLC still checks the invariants in the states where it stops. With one
  claim, that a correction keeps its claim is shown by the proof alone;
  `FactBaseProofs` has none of these bounds.
- `Eligibility` starts with `topics`, the one or two kinds of rule the behaviour is
  about. A verdict over two rules involves at most two kinds, and the answers that
  other kinds ask for play no part in it, so nothing is lost with two rule ids. The
  boxes and the guidance include refused and unreadable ones: both ends missing, ends in
  the wrong order, an empty list, no treatment.
- `lines` of `ApplicationOutcome` counts audit lines up to `MaxLines` and goes on
  without counting.
- SYMMETRY is used for steps, tokens, passwords, requests, people, values, clerks and
  rule ids, which the modules only compare for equality, and never in a run with a
  liveness property.
- Deadlock is checked in every passing run.

Passing runs hold that:

- **Corpus.** Everything below the recorded cursor was really tried
  (`CursorCovered`); what is missing there is counted (`MissingIsCounted`); one lease
  per interval, none once finished (`LeaseIsSingle`); overlapping steps never undo each
  other for ever (`LowWaterRises`); a step that calls the walk finished left nobody out
  (`FinishedMeansListRead`); the walk ends (`LoadFinishes`). The awards of a funder
  written only by the walk implement `ShelfContract` (`ImplementsContract`); filling and
  stalled are true when said (`FillingIsHonest`).
- **What is around it.** Nobody is told to wait before the failures allowed were counted
  in the window they wait for (`BlocksAreJust`); no migration runs twice, nobody is
  served before the last, and a connection carries only its own request's role and
  tenant (`ServingIsSafe`); a block is lifted by time alone, whoever waits for a
  connection is answered, after a failed start too, and every outgoing call ends
  (`WaitsEnd`). Cards have one order, screens agree on the size
  of an ask, one more award that speaks for a funder never moves it down
  (`CardsAreFair`). List requests go out one at a time and spaced, nothing half-read is
  passed on, and nothing private is connected to (`CallsAreCareful`).
- **People.** The console stays openable unless two stand-downs cross
  (`OnlyCrossingsClose`); an ended session never opens it again (`EndedStaysEnded`);
  a session acts as an organisation that exists and that nobody else belongs to or acts
  as (`SessionsAreTheirOwn`); an erasure leaves no account behind unless the request
  dies, and nobody loses an account, or a membership of an organisation that stays, but
  by an erasure they asked for (`ErasureIsExact`); links
  die with the reset that used one, and the password last chosen opens the account, but
  for a rewrite caught by a reset (`ResetsAreFinal`). A review link that was withdrawn
  or ran out opens nothing for a request that comes later, its comments pass the cap by
  no more than the requests in progress, and a visit leaves a line (`LinkLimitsHold`).
  The key and the cap in use are those last set (`OperatorIsObeyed`).
- **Application.** What the Writer may use was confirmed by somebody
  (`CheckedByAPerson`); of two people who correct one fact at once neither loses what they
  wrote, a corrected fact leads on to a later, confirmed correction of the same claim, and
  nothing read or typed since puts it back into use (`CorrectionStands`); citations of
  documents and corrections stand, and no draft comes back to find its fact gone
  (`CitationsHold`). Status and submission date never disagree, no answer is
  half-written, a second click moves nothing (`OutcomeIsWhole`). No eligibility verdict
  is surer than its answers (`VerdictIsSure`), answering a question never takes one back
  (`AnswersOnlySettle`), and a typed rule works (`HandRulesWork`). The list and the
  page weigh a fund alike and the guide says what is true (`ScreensAgree`). Every part
  of a document is in a chunk, every chunk in a batch, and neither is larger than it may
  be (`NothingGoesUnread`).
- **Workbench.** A chip leads to something and, a topic's aside, to no less than its
  number, every filter can be taken off, and list, numbers and groups answer one
  question, each as far as its limit goes: the list is as long as the number and its
  limit allow, no row counts less than what is listed of its funder, and the rows make
  up the number unless they are cut off (`SearchIsHonest`).
  One fund gets two applications only by two presses in progress at once, and a review
  that reads as current quotes live words unless something was saved while the Critic
  read (`OneWorkUnderReview`). At 100 % nothing is
  on the list of blockers but claims without a source and one open question in forty, and
  a step that eases the list never lowers the percentage
  (`ScoreIsFair`). Nobody with work left is told too late, but by an edit or the clock
  (`UrgencyIsFair`); badge, timeline and calendar file tell one story (`SurfacesAgree`).
  No fund hangs on a funder another organisation added, an application keeps a fund that
  exists and goes only with its organisation, and what an organisation added leaves its
  list by its own hand or with its funder (`FundsAreKept`).

Every property of a passing run has a mutant in `PROJECT.json`: a slip in one
definition of the code that makes TLC find the property broken.

### Fairness

Liveness is claimed four times. No safety property depends on fairness.

- `LoadFinishes` under `CorpusLoad!Fairness`: time passes, a step that is running goes
  on (a platform does not freeze a function, it ends it: a setback, of which there are
  finitely many), and the daily call gets its step. Strong fairness on the call and on
  its claim says that the cron of `vercel.json` fires again after every day in which
  the lease was free at some time; visits and the button are never obliged to happen.
- `BlockIsLifted` (in `WaitsEnd`) under weak fairness of time alone: nobody has to
  do anything.
- `ServesInTheEnd` (in `WaitsEnd`) under weak fairness of a build that is under way, of the pool, which
  gives a free connection to somebody who waits or times them out, and of a transaction
  that has begun. Requests are never obliged to come, nor a failure to happen; failures
  are finitely many.
- `EveryCallEnds` (in `WaitsEnd`) under weak fairness of the clock and of what is
  due: a timer that has run out fires, a queue that is free goes on. The other side is
  obliged to nothing but two things the code has no timer for: the body of a list
  request ends, by the platform's own limit if nothing else (see `AlwaysOnAClock`
  below), and the model's library answers or gives up.

## 5. Disagreements found

Each is a run that TLC refutes, with the code's behaviour and the sentence it
contradicts quoted in `PROJECT.json`.

| Run | What happens |
|---|---|
| `facts_unseen` | A confirmation sent from an old page confirms whatever the website put in that row since. |
| `unknown_coerced` | A project saved before the organisation's form and nation are known is judged as "other" and as UK-wide: rules pass and fail on answers nobody gave. |
| `console_closed` | Two admins who stand each other down at once leave nobody to open the console. |
| `erased_elsewhere` | Where the owner does not bypass row security, an erasure deletes the account of somebody who still belongs to another organisation. |
| `tracker_unverified` | The tracker and the calendar set a fund aside on a rule a model proposed and nobody has looked at. |
| `removal_refused` | A fund somebody applies to cannot be removed, although its page says the application goes too and asks for a tick: the foreign key refuses, and the request fails. |

### Claims stated but in no run

These are sentences of the code's comments that the modules state as definitions and
that their own behaviours break. They are kept out of the runs because each is small,
or follows from a hazard a property already bounds; the passing property next to them
says how much is kept.

| Definition | The sentence, and how it fails |
|---|---|
| `RestartRewalks` (`CorpusLoad`) | `app/admin/funders/corpus-actions.ts:18`, a restart re-walks the list: a step in flight across it writes its old cursor over the restart's 0, and the new walk skips everything below. |
| `OptionsSayWhatTheyLeave` (`GrantSearch`) | `domain/grants/facets.ts:20-22`, every option says how many grants it would leave: a topic is counted over unnested labels, so an award that carries one twice makes the chip read 2 and lead to 1. |
| `RemovalTakesOnlyIngested` (`Catalogue`) | `db/awards.ts:187`, everything ingested for a funder goes with it: so do the funds that organisations typed under it. |
| `NoAnswerNoDate` (`ApplicationOutcome`) | `db/tracker.ts:47`, null exactly when the decision is: un-sending an answered application from an old page leaves date, sum and note on a draft. |
| `TypedIsUsable` (`FactBase`) | `app/organisation/actions.ts:130`, confirmed and can be used: typed, corrected and typed again, a fact stays superseded. |
| `WithdrawnWritesNoMore` (`ReviewLink`) | `app/review/[token]/actions.ts:27`: a comment whose token was resolved before the withdrawal is still written. |
| `StaleReadingIsMarked` (`Drafting`) | `db/reviews.ts:18-22`: an answer saved while the Critic reads is older than the review that did not see it. |
| `PartialNeverReplacesFuller` (`AwardShelf`) | `ingestion/threesixtygiving/corpus.ts`: the ingest by hand replaces a fuller shelf with a partial read. |
| `WordsExplainTheScore` (`Prospects`) | `domain/grants/funders.ts:112`: below five matching grants the ask counts in the score and has no clause. |
| `SamePriceEverywhere` (`Assessment`) | `app/drafting.ts:4-6`: the list prices every fund unassisted. |
| `VerdictIsTheKeys` (`OperatorKeys`) | `secrets/store.ts:108-110`: a test writes its verdict on whichever key is stored by then. |
| `AvailableMeansWorking` (`OperatorKeys`) | header of `app/drafting.ts`: a stored key whose check failed beats a working one of the environment. |
| `LookupNeverBreaks` (`OperatorKeys`) | `app/onboarding/actions.ts`: after another master key the lookup throws instead of letting the person type. |
| `MarkedWhereItStarts` (`Chunking`) | `documents/chunk.ts:25`: a chunk that begins with a repeated end is marked with the next page. |
| `AlwaysOnAClock` (`Fetching`) | `ingestion/threesixtygiving/http.ts:15`: the timer of a list request is cleared when its headers arrive; nothing in the program watches the body. |

### Smaller observations

Met while reading, too small for a property:

- *Answers and facts.* An answer dated before a re-sent submission; two current
  replacements of one fact; facts edited in place under citations; a verified rule that
  cannot be read vanishing from the verdict while the edit page still lists it;
  `deleteQuestion` is defined and never called.
- *Search and prospects.* `byRelevance` is NaN for two funders that publish nothing, so
  the order of the query stays; "both counts are on the card" is not so when only some
  matching awards match the work's text; chips in the view of peers lose the view
  (`app/grants/page.tsx:369`), and a seventh does nothing; the sentence that words match
  but not once the filters are applied is also shown when no word matches; a place is
  counted exactly and filtered by substring; a `~` in a label breaks the address.
- *Fund and guide.* The fund page promises that a pasted form fills its features in, but
  they come from a fixed table only; the step "application" says there is nothing to
  apply to while shared funds are visible.
- *List of funds.* `startApplication` takes whatever id the form sends, and asks for
  nothing but that the row exists: that the fund is one the organisation sees is left to
  the page the button is on. `Catalogue` lets an application be started on any fund there
  is, and nothing is claimed of whose fund it is.
- *Tracker.* The uid of a calendar event changes when the application starts
  (`calendar.ts:75`); pasted rolling funds with a date appear in the file.
- *Documents.* Page marks and separators are added beyond the batch limit; the header
  of `chunk.ts` says pages are joined before splitting, but segments are made per page.
- *Settings and calls.* A cap in the environment is not checked against 1..500, and the
  console shows it in force while the ingest falls back to 50; `runAgent` records the
  usage of the successful attempt only; a Companies House search whose body has another
  shape reads as "no companies"; a JSON body is measured after it was read whole; two
  ingests at once are two independent streams of requests. Two transactions of one
  request that nest would wait on each other in production until the pool's ten seconds
  are over; the development database keeps a failed start for the life of the process.

## 6. Proofs

Every safety and action property of the passing runs is also a theorem, proved by TLAPS
for every value of the constants. What TLC shows on a small instance therefore holds for
any number of requests, rows, funds, awards or migrations, and any order of their steps.

### Assumptions

Constants carry named ASSUMEs, as weak as the proofs allow: bounds are naturals or
positive, `None`, `Blank`, `Nothing` and the like are not values, sets of rows are
finite, `Target <= MaxChars`, an award's sum and date are numbers. TLC evaluates them in
every run whose module extends the one that states them. Modules used through INSTANCE
state theirs as definitions (`PolicyAssumption`, `FetchingAssumption`,
`NamesAssumption`, ...); the composite assumes those in its `OthersAssumption`.

No theorem has a condition of its own. In particular none says which database it is
(`OwnerBypassesRLS`), so what is proved of sessions and erasures is what holds under
row security too. Two things one might expect do not hold there and are not claimed: that
the account of somebody who still belongs elsewhere stays (the run `erased_elsewhere`),
and that a session's person is a member of its organisation: the end of an erasure of
the sandbox may delete the operator's account, and with it the membership of a sandbox
made again meanwhile, before another visit makes the account anew and starts a session.

### Invariants

Seldom is a promise inductive as it stands. In each case the strengthening was checked
by TLC, then Init, every action and the implication were proved, one lemma per action or
group of actions.

| Module | Theorems | What the induction rests on |
|---|---|---|
| `CorpusLoadProofs` | types, `CursorCovered`, `LeaseIsSingle`, `LowWaterRises`, `FinishedMeansListRead`, `MissingIsCounted` | The cursor may be overwritten by a step that began elsewhere, so `IInv` speaks of each step: it never goes back, everything below where it is was tried, its page has no gaps. On it rest what a grant leaves in the row (`LeaseInv`), the floor under the row and each step, what a step knows of the end of the list (`EndInv`), and what a step and the row owe the counters (`CountInv`): a step counts for itself what it passed over, and what lies below where it started was counted in the row. |
| `ContestedRowProofs`, shelf | `DecisionHolds`, the refinement of `ShelfContract` | From its first statement a writer holds the dataset row (`LockHeld`), so nobody else is between count and delete. |
| ..., clock | `FillingIsHonest` | The quiet of a load is counted from its last progress, or from its start if there was none (`ClockInv`). |
| ..., limit | `RowsBlocksAreJust` | Every record, stored or held by a request that has read it, was counted in its own window (`WasCounted` in `LimitInv`). |
| ..., serving | `ServingIsSafe` | Who holds the lock is the only builder past its read, and knows what was applied (`BuildsInv`); a connection in use has one holder and carries its settings (`PoolInv`). |
| ..., calls | `RowsCallsAreCareful` | Only list requests stand in line, each once, and only the first is at work or waits for the interval (`QueueInv`); each call knows the address it was checked for (`NetInv`). |
| ..., prospects | `RowsCardsAreFair` | Each key of the order is a difference of numbers, an unknown recency counting as later than any day, so the first that differs decides alike in both directions and along a chain (`TellsOnward`). The k-th amount is the least with k at or below it: it rises with k, so a quartile lies between the least and the largest, and the three screens cannot cross. Awards for the cause and near can only be gained by a list that grows (`TierRises`). |
| `ApplicationProofs`, answer | `SentIffDated`, `WholeDecision`, `SubmissionKept`, `OutcomeIsWhole` | A judged decision in flight is whole (`FormsJudged`), and the guard of the write makes up for the age of the read. |
| ..., rules | `VerdictIsSure`, `AnswersOnlySettle`, `HandRulesWork` | One rule at a time: the outcome agrees with every answer left open, and a decided one survives filling in a blank. Both lift through the combination. Typed rules are stored verified and as the form built them (`TypedAreBuilt`). |
| ..., fund | `SpecFundIsWeighed`, `AppScreensAgree` | The list and the page put the same rows through the same functions and differ in one argument, whether a draft is written or checked: checking is never dearer, and the recommendation falls as the hours rise. The guide is a case analysis over what a question about the work may have. |
| ..., document | `NothingGoesUnread` | What the buffer holds of its own is never dropped: the ceiling can cost a chunk only the end it repeats. |
| `FactBaseProofs` | types, `CheckedByAPerson`, `CorrectionStands`, `CitationsHold` | Corrections are numbered in the order they are stored, so what replaces a fact is always later and a chain of them ends; a row that is read between a look and a write keeps its claim, a page's apart; rows of documents and corrections are written once; and a row that is confirmed, or not a document's, is never removed. `FactsMove` says so of a step, and every part of `IInv` is proved to survive it. |
| `PeopleProofs`, console | `EndedStaysEnded`, `OnlyCrossingsClose` | What survives of a stale read: the account exists, a token is drawn once, a stand-down that nobody crosses still has the colleague it counted. |
| ..., keys | `OperatorIsObeyed` | The row is the key chosen last, and its verdict is of that key or `overtaken` is set (`KeysInv`). |
| ..., tenancy | `SessionsAreTheirOwn`, `ErasureIsExact` | Everything that names an organisation, in the tables or in a request's hands, an erasure confirmed long ago included, names it for one person; a token and every copy of it belong to one person; so an erasure reads no member but whoever asked for it, and if a row still names them they still belong somewhere (`TenancyInv`). |
| ..., links | `LinkLimitsHold` | Places and lines last, views only move on, and a link that is shut stays shut (`LinkInv`). |
| `SignInProofs`, and `PeopleResetsAreFinal` | `ResetsAreFinal` | Row locks: a reset under way holds its link, no two hold the same, and it commits only when every link it deletes is nobody else's (`LinkInv`). A rewrite of a hash puts back what it was checked against (`PasswordInv`). |
| `WorkbenchProofs`, search | `SearchIsHonest` | As long as no shelf is replaced each of the five statements answers the question the one before it did, every chip not in force carries what it adds (a topic's counted in labels), and what a followed chip promised is remembered (`SearchInv`). Where a list stops is the choice of a subset that nothing left out precedes (`Firsts`); groups are sums over disjoint parts of what was found. |
| ..., draft | `OneWorkUnderReview` | A press of Start that found nothing where there is something now overlapped another (`FoundNothing`); what the Critic holds is written, or was saved over (`ReadIsWritten`, `QuotesAreLive`). |
| ..., ready | `ScoreIsFair` | Nothing but types; the work is in the mean: what rounds to a hundred, and how a mean moves when a mark rises, a complete part joins it or an empty one leaves. |
| ..., track | `SurfacesAgree`, `UrgencyIsFair` | Only types; the rest is a case analysis of what a row is called, over the days there are and the days the work left needs, a sum over the form that no answer raises. |
| ..., funds | `FundsAreKept` | A funder that a request found is gone, the platform's or its own organisation's by the time it writes (`DesksAreSound`), and every stored row hangs on rows that exist, a fund on no funder another organisation added (`FundsHang`, `FundersHang`, `WorkHangs`). |
| `TotalFacts` | `SumOfAny` and its kin | A sum over a finite set does not depend on the order of adding. Induction is by a smallest counterexample: strict inclusion is well-founded on the subsets of a finite set, and the library states so without an operator as a parameter. `HeaviestMember`, from which the cards take the latest award and the k-th amount, is proved the same way. |

### Composition

`RowsHaveParts`, `PeopleHasParts`, `BenchHasParts` and `AppHasParts` say that a
behaviour of the composite is one of each of its machines. A step of another machine
leaves this one's variables alone, so it is a stutter here. The fairness of the whole is
not used: parts are taken without theirs. From them follow the theorems that the runs'
properties are stated by, all types at once (`RowsTypesOK`, `PeopleTypesOK`,
`BenchTypesOK`, `AppTypesOK`), and all promises at once (`RowsKeepTheirPromises`,
`PeopleKeepTheirPromises`, `BenchKeepsItsPromises`, `AppKeepsItsPromises`).

### What proof attempts changed

- `FullMarksAreEarned` used to say that 100 % leaves nothing open. It is false for a form
  of forty questions or more, which no run reached: 99.5 is rounded up. The property now
  says what the code keeps.
- `WorkNeverCosts` compared only steps that clear a blocker. It now takes every step
  that clears or eases one and puts up none.
- `AttemptLimit` bounded its counter in the type. With three or more attempts in progress
  the stored count passes that bound, so the count is a natural number, and what was
  counted is kept in a history that stops at the number allowed.
- The type of `Fetching` did not tie the line of requests to the calls that stand in it.
  It now does.
- A CASE whose guards overlap is a choice to the prover and an order to the reader; such
  definitions are chains of IF, as they are in the code.
- The amounts a funder gave are no longer sorted: the k-th of them is said directly, so
  that it can be reasoned about. Memberships are dropped one by one, as they are unique.

### Only model-checked

- Liveness: `LoadFinishes` and `WaitsEnd` (`BlockIsLifted`, `ServesInTheEnd`,
  `EveryCallEnds`). Leads-to under fairness needs ENABLED, which this prover does not
  handle.
- The words taken from a text, and which of them narrow anything (`WorkWords`,
  `Distinctive`): the theorems about cards hold for whatever words are in force, and
  TLC computes real ones.
- The six runs that expect a violation are counterexamples, and need no proof.

## 7. Not modelled

Layout, wording, the prompts of the agents and what makes a model's answer good; the
ciphers and hash functions (a hash is the password it was made of and the age of its
work factor); PostgreSQL's text search (a rank per word and award); the parsers of PDF
and Word; the pages, but for their age and for the numbers they compute; the policies
of row security themselves. Of parts that are modelled in part, `PROJECT.json` says
what is left out. The particulars of a fund, the audit trail and export, mail, and
health keep little or no state that order can spoil.

## 8. Plan

Done: the corpus, the rows several transactions fight over, people, the application,
the workbench, and the calls to the world outside are modelled and checked, and their
safety properties proved. What is left, most important first:

1. **Composition**: `Drafting`, `FactBase` and `ApplicationOutcome` over one
   application, so that a review, a draft and a submission may cross, with the proofs of
   the parts as a start.
2. **More refinement**: a bucket that counts each failure at once as what
   `AttemptLimit` implements when attempts do not overlap; a queue of one as what the
   list requests of `Fetching` implement.
3. **The claims of section 5 that fail**: for each, the exact condition under which it
   would hold, as a theorem with that condition (no overlap, no restart, the bar met).
4. The audit lines of every writer; the spelling of labels in search.
