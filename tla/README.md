# KorriPay, modelled and checked in TLA+

KorriPay settles payments across borders. Its core logic is a set of TypeScript
engines (`src/services/*/src/engine.ts`) over Prisma repositories
(`src/packages/database/src/repositories/`) on PostgreSQL, an in-memory event
dispatcher and a pure domain package (`src/packages/domain`). The engines keep no
state between calls: what one call knows of another it reads from the database,
and every `await` is a point where other calls run.

## Inventory

| Component | State | Operations | Hard part | What makes it correct |
|---|---|---|---|---|
| Settlement state machine (`domain/src/state-machine`) | none | `canTransition`, `transition`, `allowedTransitions`, `isTerminal` | none by itself | terminal = no exit; no shortcut to COMPLETED |
| SettlementEngine + repository | `settlements`, `settlement_events` | create, progress, cancel, fail, complete, validate | read-check-write with no version or lock between check and UPDATE; steps after the commit | timeline = status; only allowed changes; terminal is final; audit follows change |
| TreasuryEngine + repository | `ledger_accounts`, `ledger_transactions`, `ledger_entries` | reserveFunds, releaseFunds, getAvailableBalance, calculateFee | balance read outside the transaction that spends it; sign of the balance; `Decimal(18,4)` | double entry; no reservation beyond funds; a release follows a reservation (the code looks for none) |
| AuditRepository, AuditEngine | `audit_logs` | log, recordEvent/Failure/Approval/Compliance | written after the commit it reports | an audit row tells of something that happened |
| Event dispatcher | handlers, event log | subscribe, unsubscribe, dispatch | a handler that throws aborts the caller; nothing durable | an event is announced after the fact it announces is durable |
| ProofEngine + repository | `settlement_proofs`, `settlement_certificates` | generateProof, generateCertificate, verifyProof | save, dispatch, audit are three steps; a certificate lists row ids where `verifyProof` compares `proofId`s; the hash is cut off | audited proofs exist; a certificate lists all proofs of its settlement; documented: binds them (it does not) |
| ComplianceEngine + repository | assessments, rules, country policies | evaluate, calculateRisk, validateCountry | policies change while a call evaluates; rejection is stored, then thrown | approval agrees with policies and rules in force |
| IdentityEngine + repository | identity profiles, verification records | verifyIdentity, calculateTrustScore, validateCredential, verifyAttestation | find-then-create; two writes in no transaction; `kycLevel` of an existing profile never updated | VERIFIED has a record; documented: verifying again updates the profile (the score answered is that of the level asked for, the profile keeps its first level) |
| OrganizationEngine + repository | organizations, members | createOrganization, inviteMember, assignRole, validateTenant | `assignRole` inserts under a unique constraint | one membership per user; a logged role is the one on record; documented: a role can be re-assigned (it cannot: `assignRole` fails for every member) |
| NotificationEngine | none | preparePayload, selectChannel, send | provider errors | a payload reaches the provider of its channel |
| Money, Percentage, SettlementPolicy, identifiers, factories | none | arithmetic, limits, parsing, hashes | rounding, truncation, overflow after the check for a finite amount | results agree with exact arithmetic up to the rounding they promise |
| Validation schemas (`shared/src/validation`) | none | `ledgerTransactionSchema` and schemas of fields | sums in floating point, across currencies, against an epsilon; columns that round | what is accepted is stored in balance |
| Seed script (`prisma/seed.ts`) | rows of thirteen tables | one statement after the other, in no transaction | stopped half-way and run again, also while engines work | one tenant, and a sign that all of it is there |
| Validators, errors, metrics, providers | none | checks, wrappers, interfaces | checks that run after a write | a rejected call changes nothing |
| API, web, SDK, UI, contracts, infrastructure | none of the above | health routes, pages, placeholders | - | they call no engine |

Every line where something hard to test bites is listed under `hazards` in
`PROJECT.json` with the properties that watch it.

Calls: SettlementEngine, TreasuryEngine, ProofEngine, ComplianceEngine,
IdentityEngine and OrganizationEngine each call their repository, then
`AuditRepository.log`; Settlement and Proof also call `dispatch`. No engine calls
another one. They share the database, the audit log and the dispatcher.

## How the code is modelled

A method of an engine is a sequence of actions of its caller `c`, one for each
stretch of code between two awaits. `pc[c]` names the step the call waits at,
`req[c]` holds its arguments, and the variables a method keeps across an await
(`seen`, `flags`, `decision`, `proof`, `content`, ...) are per-caller state, so a
value that is stale when it is used is stale in the model too. Several callers
interleave freely. The following holds in every module.

- A call that is rejected before its first write (a validator, a missing row, an
  illegal transition, too small a balance) changes nothing: it is a stuttering
  step and has no action. A rejection after a write is an action.
- `Fail(c)`, in runs with `Faults = TRUE`, is a database call that fails, a
  transaction that times out, or the end of the process: an open transaction is
  rolled back, committed rows stay, and nothing resumes the call. A commit whose
  outcome the client does not learn is resolved at once: it either happened, and
  the call fails at its next step, or it did not.
- A transaction is visible at its COMMIT. Where two calls of one transaction can
  be told apart from outside (row locks, rows that must not be seen alone) it is
  several actions, elsewhere it is one.
- A history variable (`cutShort`, `steady`) records what a property needs to know of
  earlier steps; no action reads it.
- Audit rows keep the fields a property compares; ids, timestamps and hashes of
  rows are left out, except for the hash of a certificate.
- Bounds are constants of the modules (`MaxTimeline`, `TxIds`, `ProofIds`,
  `MaxSubscriptions`, `MaxAssessments`, `MaxRoundings`, `MaxEntries`) or the sizes of the sets in the `.cfg`.
  Nobody is obliged to start a call and the bounds stop new ones, so the runs
  check no deadlock; that a call of the settlement engine under way never hangs is
  `EveryCallEnds`.
- Definitions commented "Slip" are not part of any specification. Each is a
  plausible mistake in the definition after it, and the property it is listed
  with in `PROJECT.json` fails when it takes that definition's place.

| Module | Models | Proofs | Run on |
|---|---|---|---|
| `SettlementStateMachine` | the transition table and its functions | `SettlementEngineProofs` | - |
| `SettlementLifecycle` | abstract: one status per settlement, moved along the table | as the target of the refinement | - |
| `SettlementEngine` | engine, `settlements`, `settlement_events`, audit rows, dispatched events | `SettlementEngineProofs` | `MCSettlementEngine` |
| `DoubleEntryLedger` | abstract: balances that one posting at a time moves | as the target of the refinement | - |
| `Treasury` | engine, ledger tables, audit rows | `TreasuryProofs` | `MCTreasury` |
| `EventDispatcher` | the dispatcher's live set of handlers and its log | `ProofEngineProofs` | with `ProofEngine` |
| `ProofEngine` | engine, proofs, certificates, audit rows, over `EventDispatcher` | `ProofEngineProofs` | `MCProofEngine` |
| `ComplianceEngine` | evaluate, country policies, rules, assessments, audit rows | `ComplianceEngineProofs` | `MCComplianceEngine` |
| `FoldLemmas` | no code: what a fold over a finite set computes | its own, used by two modules of proofs | - |
| `Calls` | what calls of several engines on one database have in common | - | - |
| `OrganizationEngine` | engine, organizations, members, audit rows | `OnboardingProofs` | with `Onboarding` |
| `IdentityEngine` | engine, profiles, verification records, audit rows | `OnboardingProofs` | with `Onboarding` |
| `Onboarding` | composes the last two on one database | `OnboardingProofs` | `MCOnboarding` |
| `Seed` | composes `Onboarding` with runs of the seed script | `SeedProofs` | `MCSeed` |
| `Money` | Money, Percentage, SettlementPolicy, SettlementFactory, calculateFee as operators | `DomainValuesProofs` | - |
| `MoneyFlow` | a balance created, added to, subtracted from and charged fees | `DomainValuesProofs` | with `DomainValues` |
| `LedgerSchema` | `ledgerTransactionSchema` and what the columns keep | `DomainValuesProofs` | with `DomainValues` |
| `DomainValues` | the last two side by side | `DomainValuesProofs` | `MCDomainValues` |

### SettlementEngine

`status` is the committed row, `timeline` its `settlement_events`, `lock` the row
lock a transaction takes with its UPDATE, `audit` the audit rows, `eventLog` the
SettlementRequested events that were announced (what the process's log would hold
had it never restarted). `cutShort` is a history variable: the settlements for which
a call ended between a COMMIT and the audit row or the event it owed, because it
failed or because its correlation id was malformed. `AuditEveryChange` and
`RequestedAnnounced` hold with failures and tell by it what is missing from what was
lost: a settlement without a call cut short has every audit row and its event.

| Action | Code |
|---|---|
| `createSettlement`, `LogCreated`, `DispatchRequested` | `createSettlement`: INSERT, audit row, `dispatch` |
| `progressSettlement` | the row is read and the state machine asked; what it read stays in `seen` |
| `UpdateStatus` | the UPDATE of `updateSettlementStatus`, unconditional: it waits for the row lock only |
| `CommitStatus` | the event row and the COMMIT |
| `LogChange` | the audit row; `makeCorrelationId` is an argument of that call and throws here if it throws |
| `cancelSettlement`, `failSettlement`, `completeSettlement` | `progressSettlement` to that status |

`SettlementLifecycle` knows only `status`: created REQUESTED, then moved along the
table. With one call at a time the engine implements it (`LifecycleSpec`); with
two it does not, which is what `settlement_terminal_race` shows.

### Treasury

One organization and one currency. Amounts are in units of 10^-5 when requested
and rounded half up to 10^-4 when stored, as `Decimal(18,4)` does, so that an
amount can differ from what is stored of it. The code computes with JavaScript
numbers; amounts here are exact. How money comes in is not in the repository:
`fund` uses the same `executeLedgerTransaction` and debits the SETTLEMENT account,
the side the balance counts as money. `reserveFunds` and `releaseFunds` are
`Begin` with their checks, then `WriteDebit`, `CommitCredit` and, for a
reservation, `LogReserved`. `DoubleEntryLedger` is the ledger seen through its
balances: one posting moves one amount from one account to another.

### ProofEngine and EventDispatcher

`dispatch` loops over a live JavaScript `Set` and awaits each handler. `entries`
is that set as an iterator sees it: the entries ever added, in order, some of them
holes; an iterator is a position, deleting leaves a hole, adding again appends.
`DispatchGenerated` and `HandlerReturns` call the next live entry or resolve;
`HandlerThrows` ends the call with the proof saved and announced but not audited.
`Restart` loses what the process holds.

A proof has two ids: the id of its row and the `proofId` in its payload. Rows are
numbered in commit order and `proofs[i]` is the row whose id is `i`. Events, audit
rows and `verifyProof` name a proof by its `proofId`, a certificate lists row ids
(`services/proof/src/engine.ts:85`), so `verifyProof` is false for every id a
certificate lists; `CertificatesAreCuts` is about the rows alone. A certificate's
content is kept in the model although no column does, so that properties can speak
of it. `computeHash` keeps 48 bytes of it, which are the first 31 of the 36
characters of the settlement's id (`IdStart`, any function: two settlements may
share them) and nothing of the list of proofs. The signature is computed from the
hash and the organization and tells no more.

### ComplianceEngine

One organization; rules are only added (nothing removes one). `evaluate` reads the
two policies and the rules in three steps during which
`upsertCountryPolicy` and `createRule` change them, then stores the assessment and
logs it. `steady` is a history variable: the countries that were blocked since the
call began. `calculateRisk` is left out: it stores a random number that nothing
reads.

### Onboarding

`verifyIdentity` looks for the profile, creates it if there is none
(`createProfile`, refused by the unique constraint if another call was faster, or
by the foreign key), reads it back (`Refetch`), sets its status and adds the
verification record. The organization engine's calls run meanwhile on the same
database. Users and roles exist from the start.

### Seed

A run `s` of `prisma/seed.ts` stands before statement `seedAt[s]` of `Script`; 0
says that no run is under way. The script shares `organizations`, `members` and
`profiles` with the engines of `Onboarding`, whose calls go on meanwhile, and the
same constraints refuse its rows. `seeded` holds its rows in tables that no engine
here writes, and for the profile a mark that it is the script's. A statement that
is refused ends the run (`Exit`), as does `SeedFails`; `StartSeed` begins another
one, at any time. The six upserts of roles are one statement, since a run stopped
among them is repeated by the next. Here users and roles do not exist from the
start: `IdsKnown` lets calls name only those that do. `upsertCountryPolicy` is the
repository's method, which no engine calls, and competes for the unique codes.

### Money, MoneyFlow and LedgerSchema

A JavaScript number is an integer count of ticks of 10^-5 currency units, a whole
number of percent, `NaN`, `Infinity`, or `Huge`, which stands for the finite numbers
whose hundredfold is `Infinity`. Integers stand for numbers below about 2^53 cents,
where doubles tell neighbouring cents apart; what happens between there and `Huge`
is not modelled. An operation is the set of values it may return; the empty set says
that it throws. `Math.round` of a quotient may go either way at a tie, and only there:
the floating-point error of these operations is far smaller than the distance of any
other quotient of ticks to a tie. The same holds for
`Math.abs(debits - credits) < 0.0001` at a difference of exactly 0.0001.

The constructor of `Money` checks that the amount is finite before it multiplies it by
100 (`money.ts:12-15`), so `Money.of(1e307)` holds `Infinity` cents. Such a Money can be
created where the currency has no maximum, and every operation on it throws. The limits
of a policy are any numbers, whole cents or not, and an override of
`maxAmountByCurrency` replaces the whole table (`config`).

Nothing in the repository calls these classes outside their tests, so `MoneyFlow` is
any client of them: it creates a balance by the factory, adds, subtracts and charges
fees, and keeps beside it the `exact` sum, in ticks. `Charge` computes a fee both ways,
by `Percentage` and `multiply` and by the treasury's `calculateFee`, and keeps what came
of either, a value or that it threw, so that the percentages and balances which one of
them refuses are compared too. `LedgerSchema` builds any transaction, entry by entry,
and keeps of it the one sum the schema compares, which runs across currencies, and
what the columns would hold in each currency. A transaction that balances only across
currencies is accepted; `AcceptedNearlyBalanced` says nothing of it, as nothing can be
said.

## Runs

| Run | Instance | Shows |
|---|---|---|
| `settlement_race` | 2 callers, 1 settlement, 4 changes, failures, correlation ids good and bad, fairness | status and timeline never part, no change without a status that allowed it, audit rows and events tell of what happened and only calls cut short owe any, a terminal status that no call is about to replace is final, every call ends |
| `settlement_serial` | 1 caller, 1 settlement, 11 changes (the whole protocol), failures | the engine implements the lifecycle; terminal is final; COMPLETED means every stage |
| `settlement_terminal_race` | 2 callers, no failures | violated: a terminal status is overwritten |
| `treasury_race` | 2 callers, 2 settlements, 4 ledger transactions, failures, an amount (4) that is stored as zero | double entry, evidence for audit rows, atomic postings |
| `treasury_over_reservation` | 1 caller, 3 transactions | violated: more is reserved than was funded |
| `proof_dispatch` | 2 callers, 2 proofs, 2 settlements, 2 handlers one of which throws, 3 subscriptions, failures and restarts | events, audit rows and certificates tell the truth; no handler is skipped |
| `proof_certificate` | 1 caller, 1 settlement, 2 proofs, no failures | violated: two certificates over different proofs have one hash |
| `compliance_race` | 2 callers, 2 countries, 3 amounts at the thresholds, 3 rules, evaluations begin until 1 is stored | decisions agree with their record, are stored before told, and a country blocked all along is never approved |
| `onboarding_race` | 2 callers, 2 users, 2 roles, 2 levels, failures | answers and invitations are on record |
| `onboarding_trust_score` | 1 caller, 1 user, 2 levels, no failures | violated: the score answered is not the one the profile has |
| `seed_rerun` | 2 runs of the script, 1 caller, 2 organizations, 1 user, 2 roles, failures | one organization is filled at most; the script's last row means that all are there |
| `domain_values` | 8 inputs about the limits and ties, limits that are no whole cents, one currency left without a maximum, 6 percentages, 2 amounts in or out and any number of fees; 2 entry amounts, 2 currencies, 3 entries | nothing drifts by more than roundings justify, the two ways to a fee agree, a Money is beyond a limit by half a cent at most, what the schema accepts in one currency nearly balances |

Why the bounds are enough. Calls meet only in rows they share, so two callers
show every pairwise race; the theorems below hold for any number. Four changes of
a settlement allow a race at its start, at its end, and one more call after it;
eleven are the whole protocol. Three subscriptions of two handlers are the least
with which a handler unsubscribes and comes back during a dispatch. In
`compliance_race` two evaluations run before either is stored, and calls that
fail before are followed by others. In `seed_rerun` the organizations bound how
often the script gets past its second statement; two runs that overlap, and a
third after either failed before it, are what the interference needs, and one
engine call at a time is enough to be faster than one of its statements. In
`domain_values` the inputs stand at, just below and just above each limit and
each tie, the minimum and the maximum are ties themselves, the two entry amounts are
stored as less and as more than they are, and three entries are the least that make
an accepted transaction err by more than one of them. Symmetry is used for sets of
callers, ids, users, countries and handlers that no definition tells apart, never with
liveness.

Fairness, in `settlement_race` only: WF on the steps of a call, since a promise
that settles resumes its caller, and SF on `UpdateStatus`, which other callers'
transactions enable and disable, since PostgreSQL queues those who wait for a row
lock. No call is obliged to start.

## Findings

1. `settlement_terminal_race`: two calls that read the same status both commit;
   the second replaces a terminal status. `docs/state-machine.md:77` says terminal
   states are irreversible. What remains of that promise is `SettledForGood`,
   proved for any number of callers: only a call that passed its check before the
   status became terminal can still replace it, and none begins afterwards.
2. `treasury_over_reservation`: a reservation debits the account whose balance is
   debits minus credits, so reserving raises what the next one is checked against.
   `ReservationsRaiseBalance` proves it of every history: that balance is what was
   funded plus what is reserved and not released.
3. `proof_certificate`: the hash of a certificate (`domain/src/factories/index.ts:60`)
   covers 48 bytes, which end inside the settlement's id, and the signature covers the
   hash alone: certificates over different proofs are the same.
   `docs/domain-services.md:87` says "binding all proofs for a settlement".
4. `onboarding_trust_score`: `verifyIdentity` answers and records the score of the
   level it is asked for and never updates the level of an existing profile, so that
   `calculateTrustScore` keeps answering the first level's score, where
   `docs/domain-services.md:73` says "Creates/updates identity profile". It is so in
   every history: `TrustScoreNeverChanges`.

More disagreements with the documentation have no run of their own.

- `assignRole` ("Re-assigns a member's role", `docs/domain-services.md:102`) inserts
  under a unique constraint and fails for every member. That a role is re-assigned is
  the violated promise; what holds instead, that no role ever changes in any history,
  is the theorem `RolesNeverChange`, stronger evidence than one trace.
- The correlation id of a change is validated after the change is committed
  (`settlement-engine/src/engine.ts:98`), so that a malformed one makes the call throw
  with the change made and no audit row, where `docs/domain-services.md:32` says
  "updates status, creates audit log". `AuditEveryChange` counts such a call among
  those that were cut short.
- `releaseFunds` looks for no reservation and no earlier release, where
  `docs/domain-services.md:47` says "Reverses reservation via corrective ledger
  transaction". `Treasury` models it so.
- `AuditRepository.log` truncates the hash of a row in the way of `computeHash`
  (`repositories/audit.ts:29`), where `docs/db-naming-convention.md:22` says SHA-256;
  nothing reads it.

## What is proved

TLAPS checks the following for every value of the constants that satisfies the
named assumptions (`SettlementAssumption`, `TreasuryAssumption`, `ProofAssumption`,
`ComplianceAssumption`, `IdentityAssumption`, `MoneyAssumption`, ...), which say
that `None`, `NaN`, `Infinity` and `Huge` are no other values, that bounds are numbers,
that the callers of the settlement engine are finitely many and that `Faults` is a
boolean. Each runs as a proof
that an invariant is inductive, action by action; the type invariant comes first.

- `SettlementEngineProofs`. `TypeCorrect`. `LockDisciplined`: a call holds the row
  lock exactly between UPDATE and COMMIT. `TimelinesFaithful` and
  `TimelinesJustified`: status and timeline agree, and every change was allowed from
  some earlier status; by themselves these are not inductive, since a commit writes
  what an earlier check allowed, hence `HistoryInv`, which adds that what a call
  under way is about to commit was allowed from a status in the history
  (`InFlightJustified`). `AuditTruthful` from `AuditInv`, which adds the same of a
  call that owes its audit row (`OwedJustified`); the rows, those owed and the
  records of the timeline are counted status by status (`CountNext`).
  `AuditComplete`: rows written and rows owed are as many as the creation and the
  changes, or one was lost with a call that `cutShort` names (`Complete`).
  `AnnouncedDurable` from `CreationInv`: one call at most is creating a settlement,
  and it is about to dispatch exactly when the row of the creation is there. `CompletedInFull`
  walks back from COMPLETED, one stage at a time (`StepBack`), so the promise that
  nothing completes by a shortcut survives all races. `SerialRefinement` and
  `SerialTerminal`: with one caller what was read is still so at the COMMIT
  (`StillSo`), and a commit is a step of the lifecycle. `SettledIsFinal`, with any
  number of callers: a commit needs a call at its `update` or `commit` step, and
  from a terminal status no change is allowed, so none gets there. `ValidateTruthful`:
  `validateSettlement` agrees with `progressSettlement`.
- `TreasuryProofs`. `LedgerIsDoubleEntry` and `AuditIsBacked` from `LedgerInv`:
  every committed transaction has its pair of entries (`Paired`), the id of an
  open one is in no table (`OpenIsFresh`), and who is about to write an audit
  row has its reservation committed (`AuditDue`). `LedgerRefined`: every step is a
  step of `DoubleEntryLedger` or leaves its balances unchanged. Only the COMMIT
  writes entries (`EntriesNext`), a debit and a credit of one amount that were not
  there (`CommitEnters`), and a balance is a sum over the entries, which are
  finitely many (`FiniteNext`), so the pair moves that amount from one account to
  the other (`PairPosts`). `MoneyConserved` follows from the abstract ledger alone:
  a posting keeps the sum of all balances at zero. `ReservationsRaiseBalance` adds
  up the debits of each operation beside the balance (`CountNext`).
- `FoldLemmas`. Balances and scores are folds over sets. A fold is chosen to solve a
  recursion over the subsets of its set (`FoldUnfolds`); that the solution is
  unique, and what it is for a set with one element more (`FoldAdd`), is an
  induction over finite sets, done by a minimal counterexample (`SmallestSubset`),
  since an induction theorem that takes an operator cannot be instantiated here.
  For the same reason the folding operator and the weight are CONSTANTS of the
  module: the proofs take it by `INSTANCE`, once for each fold. `AnyOrder` says
  that the order of two elements makes no difference, which a sum satisfies.
- `ProofEngineProofs`. `EventsAreTruthful` and `AuditIsLast` from `EvidenceInv`:
  a call's proof is its own and in the table, announced exactly from its dispatch
  on. `DispatchIsComplete` from `DispatchInv`: a dispatch at a position has
  called every live handler up to it. `CalledOncePerSubscription` from `OnceInv`:
  what was delivered to a handler is in no more entries than the dispatch has
  passed. `CertificatesConsistent` from `CutInv`: the list is what the table held for
  the settlement at some commit.
- `ComplianceEngineProofs`. `TypeCorrect` and `DecisionsFollow` rest on what the
  fold over the violated rules computes, however many there are: each takes 15
  from the score, which stops at zero, so the order is of no account and the score
  is one subtraction (`ScoreIs`). `FollowInv`: a decision is what the blocked ends,
  the amount and the violations call for (`Follows`) from the step that takes it,
  before it is stored. `DecisionsRecorded` from `RecordInv`;
  `BlockedRejected` from `BlockInv`: an end that was blocked since the call began
  has its flag once it was read, and no decision approves where there is a flag.
- `OnboardingProofs`. `VerificationsOnRecord` from `RecordInv` (profiles are in
  organizations that exist, what is logged was recorded), `InvitationsHold` from
  `MemberInv`. `TrustScoreNeverChanges`, from `ProfilesStay`, and `RolesNeverChange`
  say for every history what contradicts the documentation (Findings); their properties
  are stated beside them and belong to no run.
- `SeedProofs`. `SeededTypeCorrect`. `OneTenant` from `TenantInv`: the user's row
  comes before every row of an organization, and only the run that inserted it is
  past that statement (`UserFirst`). `ProfileComesLast` from `CompleteInv`: the rows
  of every statement before the place of a run are there (`Behind`), whatever the
  engines do. The engines' lemmas of `OnboardingProofs` are used again.
- `DomainValuesProofs`. Rounding an amount that is already whole cents changes
  nothing (`WholeCents`), so sums and differences are exact (`SumExact`,
  `DifferenceExact`) and `NoFurtherDrift` follows. `FeesAlwaysAgree`: Money's way gives
  a fee for no other percentages and balances (`FeeByMoney`) and for all of those
  (`FeeExists`), and both roundings are bounded. `LimitsHold`, for any limits: an amount
  within one is rounded by half a cent at most. `AcceptedBalance` from the bound on each
  stored entry of one currency (`StoredNearly`). `MoneyTracked` is there because an
  infinite Money has no drift to bound: it is infinite from its creation or never.

Only model-checked: `EveryCallEnds` and `RequestedAnnounced`, which are liveness under
fairness, and the violated properties of the findings. Every other property of a run
is a theorem. No operator here is RECURSIVE.

## What is not modelled

- `NotificationEngine` and `AuditEngine` keep no state and pass each call on to one
  other; nobody calls them. What they build is wording.
- Metrics only observe; providers are interfaces nobody implements.
- Repository methods without a caller: treasury accounts, liquidity pools,
  sanction results, credentials, attestations, API keys, `saveDomainEvent`.
- Comparisons and getters of `Money`, corridors, the approval threshold and the
  velocity limit of `SettlementPolicy`, and the schemas of single fields: look-ups
  with nothing to go wrong between two of them. The five events that no engine
  dispatches.
- `infrastructure/scripts/seed.ts` writes columns the schema does not have, and no
  script of `package.json` names it.
- The API server, web app, SDK, UI and smart contract packages hold health routes,
  pages and placeholders that reach no engine.

## Plan

Done: settlement, treasury, proof and dispatcher, compliance, onboarding, the seed
script, the value objects and the ledger schema, each with its runs and theorems.
What could follow are engines that do not exist yet: whatever calls the engines in
the order of the protocol would have to relate a settlement's status to its
reservation, assessment and proofs, which no code does now.
