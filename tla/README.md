# A TLA+ verification of FairMarket

FairMarket is a sealed-bid NFT auction house. Sellers deposit collateral and a token, bidders lock
escrow and place encrypted bids, off-chain keepers and AVS operators find the winner, and every
party pulls what it is owed. The rules are in eight contracts that call each other; three keeper
processes drive them, pages in a browser show and use them, scripts deploy them. This directory
models the contracts as they are composed, the quorum of AVS operators, the keeper's processes with
the file they share and the winner they pick, the wallet session and the pages of a lot, and the
deployment scripts. It checks the models with TLC and proves with TLAPS that the contracts are type
correct and solvent, that they implement two abstract specifications (the course of an auction on
which operators, keepers and pages rely, and sales in escrow, in which every due is paid once, whole
and at nobody else's expense), that only a quorum settles and that the winner a keeper picks is the
one the market takes, what the keeper's records and the pages' reports may say, and what the scripts
leave wired and owned.

Everything is translated from the source under `src/`. `PROJECT.json` maps each definition to the
lines it models and lists the runs, mutants, hazards, findings and theorems.

## 1. The system

### 1.1 Contracts (`packages/contracts/contracts`)

| part | state | operations | correct when |
|---|---|---|---|
| **FhenixFairMarket** (core) | auctions and their phase, escrow per bidder, encrypted bids, the pending resolution request, claim flags, the native balance, the moving average of block intervals, configured and snapshotted dependencies | `createAuction`, `lockEscrow`, `lockShieldedEscrow`, `placeBid`, `placeShieldedBid`, `triggerFinalize`, `submitResolution`, `submitShieldedResolution`, `cancelAuction`, `triggerFallbackVoid`, six claims, owner setters | it can pay everything it owes and keeps nothing else; one outcome per auction; nothing changes after the end time; no party can block another one's recovery |
| **SettlementEngine** | the address of the AVS | slashes, payouts, shares, timeouts; relays attestations | bounded results, rounding never creates value |
| **SlashedPot** | slash and escrow total per auction, who claimed, balance | `registerSlash`, `claimFor`, `claimForKey` | pays every share, each once |
| **ShieldedEscrowVault** | deposits by commitment, totals per auction, unlocked refunds, slash reserves, used authorizations, balance | `lockEscrow`, `allocateSlash`, `settleWinningCommitment`, `unlockRefunds`, two authorized claims, owner setters | its books equal its balance; each commitment is spent once, and only by its authority |
| **ShieldedIdentityRegistry** | identity/commitment bindings, the winning identity | `bindIdentity`, `markWinningIdentity`, `setMarket` | a bijection per auction |
| **NFTGuard**, ERC-721 | who owns a token | `lockIntoEscrow`, `releaseFromEscrow` | the token leaves the market once |
| **CofheAdapter**, ciphertext encoding | none | `gt`, `gte`, decoding of tagged words | compares only numeric words |
| **bid verifiers** (mock, ZK) | none | `verifyBidCoverage` | a bid is covered by its commitment |
| **MockEigenLayerAVS** | operators, threshold, slash counts | `setOperator`, `setThreshold`, attestation checks, slashing | only a quorum of current operators resolves; who signs falsely is slashed once |

A transaction runs through several of them: a cancellation computes a slash in the engine, sends it
to the vault, which keeps the shielded bidders' part and returns the rest, forwards that to the
pot, unlocks refunds in the vault and returns the token. It is atomic, so the interleavings that
matter are those of *transactions*: of different bidders, the seller, keepers and claimants, and
of an owner who exchanges pots, vaults, registries and engines while auctions run. Each auction
keeps a snapshot of the dependencies it was created with.

### 1.2 Keeper (`packages/keeper`)

Three processes, `runner.ts` being the main program of each:

* **auction monitor**: polls the chain, takes a Redis lock and calls `triggerFinalize` on auctions
  that end, and stores a dispatch job for each auction that is being resolved;
* **CoFHE dispatcher**: sends batches of jobs to the FHE service with retries and stores a
  resolution artifact for each answer;
* **AVS submitter**: collects operator signatures for pending artifacts and submits them.

They share one JSON state file, which each reads whole and writes whole, and a lock in Redis with a
time to live. The monitor reads the file when it starts, the others at every poll. The hard
behaviours are lost updates in that file, a read that meets a write, a crash between truncation
and write or between "completed" and "stored", a lease that ends during an attempt, polls that
overlap, and a submission that is lost or rejected. A keeper is correct when what it records never
runs ahead of the chain, when it marks as done only what is, and when each auction moves on while
it runs.

### 1.3 Frontend (`packages/frontend/src`)

| part | state | operations | correct when |
|---|---|---|---|
| **wallet provider** | account, network and dismissal of the session; the wallet has its own | snapshot at load, wallet events, connect, switch, disconnect | nothing is done or reported in the name of an account that did not sign |
| **marketplace data** (server) | the record of a lot: answers of several reads, each with a default | page load, refresh | what it offers an account belongs to it |
| **actions** (`lib/*-actions.ts`, `create-auction.ts`) | one call under way: checks, prompt, receipt, verification | create, lock, bid, trigger, claim, cancel, payout | success is reported only of what happened, and every action ends |
| **panels, form, portfolio** (`components`) | React state beside the record: some initialized by the first record, some set by actions, some read through the wallet | click handlers, effects, steps of the form | controls come back, and what is shown agrees with the market, at least in the end |

All of it is asynchronous. Between a click and its report lie prompts of the wallet, two networks,
receipts that are looked up on the network of the moment, and a visitor who changes the account,
leaves the page, or does something else; the server's record is read meanwhile, from a lot that
others move.

### 1.4 Deployment scripts (`packages/contracts/deploy`)

Scripts 00 to 08 are sequences of owner transactions around one JSON file of addresses that each
reads when it starts and writes when it ends. They are correct if, whatever was run before and
wherever a run was killed, what the file names belongs together, and if a hand-over to a timelock
leaves nothing behind. Scripts 03 (source verification) and 09 (a monitor) only read.

`packages/zk` holds a demonstration circuit, and monitoring is configuration; neither is modelled.

## 2. The modules

| module | models | lines |
|---|---|---|
| `MarketDomain` | the ids that contracts share; 0 is Solidity's zero value | |
| `NetworkClock` | block time, `_observeNetwork` | core |
| `SettlementEngine` | the engine's arithmetic | engine |
| `SlashedPot`, `ShieldedEscrowVault`, `ShieldedIdentityRegistry` | one contract each, with every deployed instance an index, so that rotation can be modelled | pot, vault, registry |
| `FairMarket` | the core market composed with the modules above: one action per external call, with everything it calls | core, guard, adapter |
| `AuctionPhases` | abstract specification: the course of an auction, as a keeper sees it | core |
| `EscrowedSale` | abstract specification: what a sale owes to bidders, seller and executor, when it may change, and how it is paid | core, vault |
| `FairMarketProperties` | invariants, action properties, liveness, both refinement mappings | |
| `MCFairMarket` | definitions for the `.cfg` files | |
| `MockEigenLayerAVS` | operators, threshold, verification of envelopes in both lanes, slashing | AVS |
| `AttestedResolution` | the AVS composed with `AuctionPhases`: signing, submission of arbitrary envelopes, rotation of operators | AVS, core, submitter |
| `KeeperStore` | the state file, the memory of each process, writes that take time | stores |
| `KeeperProcess` | start, crash and failure of a process; the steps of a poll | runner |
| `AuctionMonitor` | synchronization, finalization under a lease, job queueing, the event listener | monitor, lock, runner |
| `CofheDispatcher`, `AvsSubmitter` | the polls of the two other processes | dispatcher, submitter, runner |
| `Keeper`, `KeeperProperties` | the three processes over `AuctionPhases` as the chain | |
| `BidResolution` | from the bids on chain to the outcome a keeper submits: collection, choice, checks of an answer | runner, dispatcher |
| `PageAccounts`, `WalletSession` | what a tab believes of the wallet, and the wallet | wallet provider |
| `LotFacts` | one lot as pages see it: `AuctionPhases` with winner, claims, escrow and bids, and the calls that wallets send | core |
| `MarketplaceData` | the record of a lot and the claims of the portfolio | marketplace data |
| `WalletActions` | the seven actions, from request to report | `lib/*-actions.ts` |
| `CreateForm` | the steps of the form and its duration | form |
| `AuctionPage` | panels, form and portfolio over all of these | components |
| `Deployment` | the scripts, the chain they change and the files they write | deploy |
| `MCAttestedResolution`, `MCKeeper`, `MCAuctionPage`, `MCDeployment` | what the other `.cfg` files instantiate | |
| `Sums` | finite sums as recursive functions | |
| `ArithmeticProofs`, `FairMarketProofs`, `SolvencyProofs`, `AuctionProofs` | theorems about the market: arithmetic and sums, types, money, and the course of an auction with its bids and tokens | |
| `AttestationProofs`, `KeeperProofs`, `PageProofs`, `DeploymentProofs` | theorems about the AVS, the keeper's processes, the pages and the scripts | |

How to read `FairMarket` beside the source:

* An action has the name of the function. Its conjuncts follow the order of the code: modifiers and
  `require`-style reverts first, then assignments, then calls. A revert anywhere undoes the whole
  transaction, so every check of a callee (`onlyMarket`, an insufficient balance, a recipient that
  refuses) is a conjunct of the calling action.
* The names of variables are those of the storage, with the `Auction` struct split by who writes
  it: `listing` is what creation fixes, including the dependency snapshot.
* `nonReentrant` excludes reentry into the market, so callbacks of recipients appear only as
  refusals: `RejectsValue` (a contract whose `receive` reverts) and `RejectsToken` (one without
  `onERC721Received`).
* Ciphertexts are the tagged words of the prototype encoding: a kind and a payload, with
  `ZeroWord` for an empty slot. Signatures and proofs are inputs: `signer` is whoever signed, and
  an authorization digest is the record of what it signs.
* A resolution is *any* outcome that passes the checks of the market. The operators are thus
  arbitrary, which is stronger than a quorum of honest ones.
* `donated` is a ghost variable, the value that `receive()` took.
* Instance 1 of a pot, vault or registry is wired to the market by the deployment; others after
  `setMarket` (`WireContracts`).

How to read the keeper modules:

* A *slot* is one run of a timer callback or one event handler; `setInterval` does not wait, so a
  process may have several. `thread[s].pc` is the `await` at which a slot is, named for what it
  does next; `at`, `saw`, `todo`, `tries`, `pass` and `got` are the locals that live across it.
* A step goes from one `await` to the next. A read of the chain and the write of what was read are
  thus two steps (`Synchronize`, `SynchronizeEnds`), and whatever happens in between happens.
* `Save` is every store operation: the memory changes, the file is truncated, and `writing` holds
  the contents until `WriteDone`. Records of attempts and races are left out, but not their
  writes, which carry the whole memory. A slot waits for its own write; other slots do not.
* A read that meets a truncated or mixed file fails: a poll tries again later, a start does not.
* `Fault` is a call that fails, or whose effect happens although its answer is lost.

How to read the frontend and deployment modules:

* A handler is its click (`handle...`, with the conditions under which its button is there and
  enabled), the steps of its library function (`WalletActions`, one step from `await` to `await`),
  and its report (`Report`). `Busy` is the flag that disables the buttons of a panel.
* A panel that is replaced (`Detached`: in-application navigation, or a refresh that fails) leaves
  its handlers running, whose reports change nothing; a document that is replaced (`Abandoned`)
  ends them, but not what the wallet shows or has sent.
* The browser's clock may be off, so `closeWindowReached` is no guard. `reading.fresh` tells a page
  load from `router.refresh()`, which keeps the React state of the panels.
* The other network stands for every network without the market: a transaction sent there is mined
  and changes nothing here, and receipts of one network are not found on the other.
* `Visits` lists what a visitor does in one behaviour; it bounds, and changes no handler.
* In `Deployment`, addresses are the nonces that created them, so that a local chain that is started
  again gives old addresses to new contracts. One step is one transaction or one file.

Definitions named in a comment as "Mutant of X" are plausible bugs of the code. No run uses them;
each shows that a property fails when the definition before it is so changed.

### Abstractions

Left out of `FairMarket` because nothing checked depends on them: request and handle ids, salts and
nonces, `lastBlockTimestamp`, `winnerCiphertext` after resolution, `isVickrey` (which the contract
stores and never reads), events, view functions other than the previews that payouts use,
`setPreviewReader` (who may call a view), `claimForKey` (no caller). A resolution whose attestation
is rejected leaves the market unchanged; that branch is in `AttestedResolution`. Also left out, and
open:

* `setCofheAdapter` and upgrades: the modelled adapter has no state, so a rotation changes nothing;
* auctions created before the dependency snapshot existed (an upgrade path in the getters);
* overflow of `uint256`: amounts in wei stay far below it. `bidCount` (`uint32`) and the starting
  price (`uint96`) keep their limits as constants in the guards.

In `MockEigenLayerAVS` a signature is the record of who signed which statement (auction and
outcome), so that replays and forged entries are entries that do not match; ECDSA is taken to be
sound, and both lanes differ only in the type of the winner.

Left out of the keeper's processes: the contents of jobs and artifacts (`BidResolution` has them, as
functions of the state of the market), the in-memory lock of a monitor without Redis, the slashing log and the metrics, the
observe-only modes without keys, a write that fails, the batch limit (it exceeds the auctions of
the model), and reorganizations of the chain. The retries of a dispatcher's call come down to one
call that answers, answers in part or fails. Reading a file into memory is one step. In
`BidResolution` a list of bids is a set, so that which of two equal bids wins is open, and the
keeper may read the amounts of the vault (a preview reader; otherwise it skips every shielded bid).

Left out of the frontend: wording, progress messages, amounts beyond their comparison with escrow,
encryption, the token number and the format (an empty number is read as token 0, whose owner the
library then asks for), lists of several lots, seeded demonstration lots, a market that is not
configured, refunds (no page offers them), and the local prototype chain, on which a bid ends without one. The
button that refreshes the payout preview asks and shows in one step. Left out of the scripts: gas, the contents of runtime
files beside the market, roles and delay of the timelock, and the check that keeps the prototype
adapter off public networks (`docs/phase-6-audit-deploy.md` describes such a deployment all the same).

## 3. Plan

Done: the market with engine, pot, vault and registry; the AVS; the keeper; the keeper's choice of a
winner; the frontend of one lot; the deployment scripts; the theorems of section 5.

Open, in this order:

1. Two auctions in one batch of the submitter (an artifact the market refuses holds up the others),
   with fewer processes to pay for it.
2. That the market implements `LotFacts`, the lot as pages see it. `LotFacts` would first need the
   shielded escrow, which `SellerPayout` leaves out, and a seller that is a variable.
3. For shielded bidders what `PromisesKept` says for public ones. Their shares are computed from what
   is left, so other claims move them by a rounding; the property would have to bound it.

## 4. What the runs check

Runs are of module `MCFairMarket`, `MCAttestedResolution` (`attestation`), `MCKeeper`
(`keeper_...`), `MCAuctionPage` or `MCDeployment`. The market may stop (all time has passed, all is
claimed, all is submitted), a keeper without processes that could start may too, and so may scripts
that nobody starts, so these do not check deadlock: there is no process that waits for another. A
page can always be loaded, and `auction_page` does check it.

| run | instance | question |
|---|---|---|
| `public_auction` | 1 auction, 2 public bidders, prices 0 to 3, escrow to 3, deposit 999, times 61 to 8161, under `FairSpec` | money, outcomes, refunds and the recovery path in the public lane; every auction ends, every refund is paid |
| `shielded_auction` | 1 auction, 1 public bidder, 2 commitments, 2 identities | the vault's books, reserves, replaced bids, shielded winners, the refinement of `EscrowedSale`, and the winner a keeper picks |
| `rotation` | 2 auctions of 1 token, 2 pots, 2 vaults, 1 commitment | snapshots under rotation, one token listed twice, the recovery path, and the refinement of `AuctionPhases` |
| `attestation` | 1 auction, 3 operators, 2 outcomes, envelopes of up to 3 entries, 1 slash | who can settle an auction while the owner changes operators and threshold |
| `keeper_processes` | 1 auction, 3 processes, 1 crash or failed call | what is recorded, in memory and on disk, across restarts, lost, refused and rejected calls |
| `keeper_overlap` | 1 auction, 2 polls of the monitor, 1 crash, under `FairSpec` | leases, stale reads and progress of overlapping polls |
| `keeper_requests` | monitor, listener and dispatcher, under `FairSpec` | requests are answered, settlements noticed |
| `auction_page` | 1 lot, 2 accounts, 2 networks, 10 kinds of visits, under `FairSpec` | what pages report, offer and show while account, network and lot change |
| `deployment` | 5 runs of the scripts in any order, 1 killed, 1 restart of the chain | what the file of addresses names |
| `shielded_winner_claim`, `keeper_forwarding`, `keeper_outage` | one violated claim each | section 7 |

Of the market, in `FairMarketProperties`:

* `MarketSolvent`: the market's balance *equals* escrow, deposits, proceeds and rewards still owed,
  plus what outsiders sent. It ties `previewRefund`, `previewSellerPayout` and the reward to the
  balance through every sequence of slashes and claims.
* `PotSolvent`, `VaultSolvent` (balance and totals per auction), `NoStrandedReserve`: the same for the pot (which may
  keep a remainder, since shares are rounded down per bidder and nothing sweeps it) and the vault
  (which may not).
* `SlashBacked`: a slash lies where the auction's snapshot says and in the proportion its shares
  are computed from, whatever the owner rotated to.
* `Custody`: an auction that has not handed out its token has it, and no two have the same.
* `BidsSettleable`, `OutcomeCovered`, `BidCountExact`: what was accepted as a bid can be resolved
  at its price, and what was resolved can be paid.
* `PublicRefundsReachable`, `ShieldedRefundsReachable`: after an outcome every refund can be
  claimed, and no shielded one before it; market and vault agree on that.
* `FallbackAvailable`: after `MAX_DYNAMIC_TIMEOUT` the void is enabled. `FallbackOpen` says the same
  guard by guard (`FallbackUnobstructed`) and under rotation: the only things that block it are a
  pot or vault that was never wired and a seller who refuses the token.
* Steps: `BidsFrozenAtEnd`. `PromisesKept`: what a settled auction promises a public bidder, escrow
  and share of the slash, stays what it is while the owner rotates pots and others claim, and one
  claim of the bidder takes both in full, from the market and from the pot of the snapshot.
* `PhasesImplemented`: the market implements `AuctionPhases`. `phase` is the `state` field, `ended`
  the set of existing auctions whose `endTime` the block time has reached; so a withdrawal happens
  before the end, resolution starts after it, one outcome follows, and an outcome is final.
* `SalesImplemented`: the market implements `EscrowedSale`, for all auctions at once over the balance
  they share. `refund`, `proceeds` and `reward` are what `previewRefund`, `previewSellerPayout` and
  the reward still promise (before an outcome: the escrow, the deposit, nothing), `sealed` is what
  the vault holds under the commitments of the auction. The dues of an open sale only grow, by what
  is paid in; one outcome shifts them, within the buyer's escrow and the seller's deposit, and slashes
  a seller only if some bidder has value in the sale; then each is paid once, whole, and no other
  due changes. `MarketSolvent` says that the sum is right in each state, this says whom each step
  pays. That a live auction keeps its value is a part of it, and also proved on its own
  (`LiveAuctionsKeepValue`, which no run lists).
* Progress: `AuctionsSettle`, `RefundsPaid`.

Of the keeper's choice, in `BidResolution`:

* `HighestBidResolved`: the outcome that a keeper computes from the bids on chain passes its own
  checks of an answer and all checks of the market, and no bid of either lane that the market would
  take is higher. It relates four programs: what bids are admitted, what the keeper collects, what
  it picks, what the market admits. A *rotation* of vault or registry costs something, since the
  keeper asks the market for its present vault and registry and not for the auction's, and the property
  says how much. After one of the vault the keeper finds none of the older commitments: its answer
  still passes and beats every public bid, but shielded ones may be higher. After one of the registry
  it may name a shielded winner by an identity of the wrong registry, which the market may refuse; an
  answer without a shielded winner it takes. TLC refutes the property
  without either condition once the shielded instance has a second vault or registry. Excepted is a
  best bid of *zero*: a lot without a minimum takes it, the local client picks it, and no resolution
  may name it, so that the lot can only be voided. The run that lists the property has one vault;
  that it holds in states after a rotation is proved.

Of the AVS, in `AttestedResolution`:

* `ThresholdInReach`: however the owner orders removals and thresholds, the operators in office
  can reach the threshold.
* `AgreementSettles`: when enough of them have signed one outcome, it can be submitted.
* `SettledByQuorum`: only then: an auction is finalized with an outcome that a threshold of
  *distinct* operators in office have signed.
* `SlashedOnce`: a submission slashes an operator once at most, only one in office, and only if it
  settles nothing.

Of the keeper, in `KeeperProperties`:

* `RecordsNotAhead`: no record of an auction, in any memory, in the file or on its way there, and no
  state that some slot has read and will write, is one that the chain has not reached. An auction
  recorded as settled is never read again, so this is what keeps it from being forgotten.
* `SubmittedMeansDone`: an artifact that is marked, and thus never sent again, belongs to an
  auction that is settled, or to a proof that the AVS rejected.
* `AttemptsExclusive`: two polls are not between reservation and release for one auction, unless an
  attempt has outlasted its lease. All polls use the same keeper id, so that the check of the
  owner in `releaseLock` protects nobody once a lease has run out: that is why the property ends
  there.
* Progress while the processes run: `ClosureTriggered`, `SettlementNoticed`, `RequestsAnswered`.

Of the pages, in `AuctionPage`:

* `ReportsTrue`: whatever changed while an action was under way, and whatever was sent meanwhile, an
  asset shown as claimed is claimed, an auction reported as cancelled is, one reported with its
  number exists. It does not extend to the trigger, whose panel shows "resolving" whatever the
  market answered, and to the payout, which is reported on the receipt.
* `RoutesBelong`: the portfolio, although its record mixes answers of different moments, sends an
  account for a token or a payout only if the market gives it that. Excepted are records whose
  details are defaults (a read of more than the timeout), and shielded winners, of whom the market
  has no address: then the portfolio offers a reclaim to the *seller*, which the market refuses.
* `ReviewComplete`: what the form asks to confirm is complete and the market takes its duration and
  deposit, and the summary of the duration says what is sent.
* `ShownEscrowCovered`: after a change of account the console may gate a bid by the escrow of
  another one, but not for good.
* `ControlsComeBack`: every panel becomes usable again.

Of the scripts, in `Deployment`:

* `RecordedMarketServed`: while nothing was killed and no chain was restarted, market, pot and engine
  of the file belong together after any sequence of runs, and the smoke test can object to one thing
  only, an adapter or engine that was redeployed and is recorded but not in use.
* `CoreWires`, `HandoverComplete`: also after kills and restarts, a run of 01 or 08 that ends has
  wired, or handed over, everything it records.

### Bounds, and why they are enough

* *Amounts.* Escrow of 1 and 2 with a slash of 997 makes both shares fractional; the commitments of
  1 and 3 do so in the vault. A deposit of 999 gives a reward of 1: it does not vanish in the
  rounding, and a slash that forgot it would differ by 1.
* *Times.* A cancellation at once costs a quarter of the deposit, one at 41 (`shielded_auction`)
  more; 61 is the end to the second; 561 and 961 are samples below the ceiling of the moving average and lie before and
  after the shortest timeout; 8161 is past the longest timeout after each of them.
* *Two bidders* make orders of claims matter; *two commitments* over two identities do in the vault,
  where a share depends on what is left. *Two auctions* are needed only where auctions share
  something: tokens, commitments, instances. Money is summed over auctions and the proof of
  `MarketSolvent` is for every number of them.
* `MaxEscrow`, `MaxDonated`, `MaxBidCount` and `BlockTimes` bound what would grow for ever.
  `MaxBidCount` is not reached.
* Owner actions may happen at any moment in `rotation`, so that contracts that are configured but
  not wired occur as well: cancellations and voids of the auctions that snapshot them are then
  disabled, and enabled again by `setMarket`. `FallbackAvailable` is checked where the deployment's
  wired contracts are in use, `FallbackOpen` in `rotation`; in both all recipients accept tokens.
  Section 7 says what happens when a seller does not.

* *Operators.* Three let a majority change by one rotation; two outcomes make disagreement and
  replayed signatures possible; three entries make room for a name given twice beside an honest
  one. After one slash nothing more is submitted (`MaxSlashes`). Operators are alike, and so are
  outcomes: the run uses their symmetry.
* *Keeper.* One auction: the processes treat auctions one after the other, and all their races are
  about one record; a batch that is held up by another auction's artifact is the exception (plan,
  1). Two slots of a role suffice for an overlap. `MaxFaults`, `MaxCrashes` and `MaxFailures` of 1
  give one failure at each of the awaits; a crash on top of a failure adds nothing new to a record.
  A retry repeats the attempt under the same lease, as a further poll does under a new one:
  `MaxRetries` is 1 in `keeper_processes` and 0 in the other runs. `RequestsAnswered` is checked
  without crashes; section 7 says why.
* *Pages.* Two actions (`ActionLimit`) let a second one of the same panel or of another meet the
  first; kinds that share a panel or a record are used together, and one of them alone when account
  or network change once. Amounts are 1 and sum up. Four moves of the lot take it from its creation
  to a claimed end. Parts of a duration are 0, 1 or 3 (`Entries`), so that with the default of a
  day three edits reach 0, the whole of 90 days, and more.
* *Scripts.* Five runs give a deployment, two kinds of change, a hand-over and one more; `MaxNonce` is
  not reached by scripts that end. One kill and one restart each combine with every order.

### Fairness

`FairSpec` of the market assumes weak fairness of new blocks, of `triggerFinalize` by some executor, of
`triggerFallbackVoid` and of each bidder's `claimRefund`. The first is the chain. Finalizing is
what every keeper's monitor polls for, and the finalizer is paid for it; claiming is in the
bidder's interest. Voiding is open to everybody, but *no keeper role in the repository calls it*:
progress rests on some party that wants its escrow back. Nothing is assumed of operators,
sellers, the owner or resolutions. Weak fairness is enough although the timeout moves with the
average: once `MAX_DYNAMIC_TIMEOUT` has passed, the void stays enabled until it happens. Time ends
at the last of `BlockTimes`, so `AuctionsSettle` speaks of auctions whose deadlines lie before it.

`FairSpec` of the keeper assumes that a process that is down is started, that a slot goes on
(timers fire, calls return or fail), that writes end and leases run out: weak fairness of each.
Strong fairness of the polls of dispatcher and submitter says that they do not meet a file that
another process is writing each time, for ever; the timers and the writes of milliseconds justify
no more than that. In particular nothing says *which* contents a poll finds. Nothing is assumed of
the chain, which others move as well.

`FairSpec` of the pages assumes that a handler goes on: what it awaits answers, refuses or runs into
its limit (`waitForReceipt` stops after three minutes), and the user answers or dismisses a prompt;
that the console's read of the escrow ends; and, as strong fairness, that a read by the server does,
since each refresh replaces the one under way. Nothing is assumed of the chain, of wallet events or
of clicks. The model of the scripts has no liveness.

## 5. What is proved

TLAPS proves the following for every number of auctions, accounts, commitments, identities and
instances, all inputs within the assumptions that the modules state on their constants
(`DomainAssumption`, `ClockAssumption`, `PotAssumption`, `VaultAssumption`, `RegistryAssumption`,
`MarketAssumption`, `OperatorsAssumption`, `SlotsAssumption`, `KeeperAssumption`, `LotAssumption`,
`PageAccountsAssumption`, `PendingAssumption`, `ActionAssumption`, `EntriesAssumption`,
`PageAssumption`, `DeploymentAssumption`: mostly that amounts and times are naturals and that a marker is none of the values
it stands beside; TLC evaluates them on every run of a module that has them).

* **`TypeCorrect`** (`FairMarketProofs`): `Spec => []TypeOK`. It says more than shapes: balances,
  totals and reserves are naturals, so no subtraction in the contracts can underflow in a
  transaction that is not reverted; the average stays at most 600; a slash never exceeds the
  balance it is taken from. `TypeOK` is not inductive alone: the slash of a cancellation is a
  natural only because an auction ends after it was created and is created in the past, so the
  invariant is `TypeOK /\ ListingTimes`. One lemma per action.
* **`MarketAlwaysSolvent`** (`SolvencyProofs`): `Spec => []MarketSolvent`. `MarketSolvent` is not
  inductive: paying a refund is right only if the claimant had not been paid, a price is covered
  by the winner's escrow, the public total is the sum of escrows that decides whether a void
  leaves something to the seller, and a fresh auction slot owes nothing. `Booked(a)` collects
  these facts per auction, and `MoneyInv == TypeOK /\ ListingTimes /\ MarketSolvent /\ \A a : Booked(a)`
  is inductive. For each action the proof computes what the action adds to `Owed(a)` for one
  auction, shows all other auctions untouched (`SameBooksOwed`), and adds up with the lemmas on
  sums (`BookedStep`, `QuietStep`). `Booked` was checked by TLC on the three passing safety
  instances before it was proved.
* **`VaultsAlwaysSolvent`, `ReservesNeverStranded`, `ShieldedRefundsNeverBlocked`**
  (`SolvencyProofs`): the vaults, for any number of instances, auctions and commitments and under
  every rotation. `VaultInv` is `TypeOK /\ ListingTimes`, the books (`VaultSolvent`), and two facts
  without which they say nothing about refunds. `DepositSound`: a commitment that was ever locked
  belongs to an existing auction whose snapshot names this vault, and one that holds value has an
  authority and was never paid. `PathSound`: market and vault open refunds of an auction at the same
  time, namely at its outcome; before it there is no reserve, and afterwards a reserve never outlives
  the escrow it compensates. The last of these needs arithmetic: a share is
  `reserve * amount \div total`, and the refund for which `amount = total` takes the whole reserve
  (`QuotientExact`), while no other takes more than the reserve holds. The theorem on refunds then
  computes for an arbitrary deposit that its claim is enabled after the outcome (`RefundCovered`),
  and that it is not before.
* **`LiveAuctionsNeverDrained`** (`SolvencyProofs`): one lemma per action (`OnlyGrows`: an auction
  without an outcome keeps its listing, and neither an escrow nor a vault's total of it shrinks),
  and monotony of sums (`LiveOwed`). It needs `TypeOK` alone.
* **`PotsAlwaysSolvent`, `SlashesBacked`, `PublicRefundsNeverBlocked`** (`SolvencyProofs`): the pots,
  for any number of them. A share is `totalSlash * escrow \div totalEscrow`; that the shares still
  due fit into the pot follows from `SharesFit` (floors of shares add up to no more than the slash),
  if `totalEscrow` is at least the sum of the escrows still unclaimed. `PotInv` therefore joins
  `VaultInv` with the books of the pots (`PotSolvent`), with `SlashSound` (only the pot of the
  snapshot has received anything for the auction, over the escrow as it was, and with the vault's
  reserve that is the whole slash until the first shielded refund) and with `RefundSound` (total and
  sum of escrows agree until the outcome, and a paid refund took its escrow). The refund itself is
  covered by `MarketSolvent`, of which it is one term: the last theorem uses `MoneyInv` as well.
* **`BidsAlwaysSettleable`** (`AuctionProofs`): both lanes check a bid twice, when it is placed and
  when it wins, against state that others may change in between. `BidInv` adds to `VaultInv` that
  the first check keeps holding while the auction lives: escrow covers each bid and the bid meets the
  starting price (`PublicBidsSound`); the deposit of each shielded bid stays what and whose it was
  (`ShieldedBidsSound`, by `DepositStays`); the two maps of a registry are inverse
  (`BindingsSound`), and a commitment that was locked for an auction has an identity there (`Bound`).
  That the vault's total covers the bid is a bound on a sum (`SumBound`).
* **`HighestBidAlwaysResolved`** (`AuctionProofs`): for any number of bids in either lane. `BidInv`
  carries most of it, because a bid that is settleable is one that both the keeper and the market
  admit (`CollectedAdmitted`); that the keeper finds a highest one among those above the minimum is
  a maximum of a bounded set of naturals (`HighestExists`); and whatever the market would take comes
  from a bid that the keeper has collected (`AdmittedEligible`). Nothing is assumed of the owner: the
  vault and the registry that the keeper reads are those of the day, the conditions on them are in the
  property.
* **`BidsCountedOnce`** (`AuctionProofs`): the contract tells a first bid by an empty slot. `CountInv`
  says that a slot is the zero word exactly if its owner is not in the set of bidders, and that the
  counter is the size of both sets. This needs `WordsDecode`: no zero word is sent as a bid, or no
  vault is given the ZK verifier, which reads the payload of a word and not its kind. Without it the
  statement is false: on a lot without a minimum such a bid is taken, leaves its slot empty and is
  counted again. `placeBid` and the mock verifier decode the word and so refuse it.
* **`FallbackAlwaysOpen`** (`AuctionProofs`): the recovery path. `FallbackUnobstructed` lists
  everything that could revert `triggerFallbackVoid` in the market, the vault, the pot and the guard;
  `FallbackOpen` says that it holds for every resolving auction from `MAX_DYNAMIC_TIMEOUT` on. The
  conditions are those the code leaves to others (`Connected`): the seller takes the token back, the
  vault of the auction, and the pot if there is public escrow, answer to the market. Solvency gives
  that the slash is there (`SlashInMarket`), the engine's bounds that the timeout is over
  (`TimeoutBounded`), custody that the market still has the token, and a slash without any escrow to
  share it among does not occur (`SlashNeedsEscrow`). It is `FallbackAvailable` with the guards in
  the place of `ENABLED`, on which the prover cannot work.
* **`TokensInCustody`, `NoBidAfterEnd`, `OutcomesCovered`** (`AuctionProofs`): `Custody` is inductive with one addition
  (`RealTokens`: what is listed exists), since a token can be listed again once the market gave it
  back and two auctions must never hold one; `BidsFrozenAtEnd` follows from `TypeOK`, action by
  action. `OutcomeCovered` needs that no identity of a winner is recorded before the lot is finalized,
  since `submitResolution` does not clear it (`OutcomeSound`), and that the
  escrow of a winner stays until the winner withdraws (`SameOutcome`).
* **`MarketImplementsPhases`** (`AuctionProofs`): `Spec => PhasesImplemented`, the refinement above.
  The steps that touch neither states, listings nor time are stutters of `AuctionPhases`; each of
  the others has a lemma that names its abstract step. They need the invariant
  `TypeOK /\ ListingTimes /\ Begun`: a new auction ends in the future, and none that exists is in
  the state `CREATED`, so `createAuction` cannot be mistaken for anything but `Create`.
* **`MarketImplementsSales`** (`AuctionProofs`): `Spec => SalesImplemented`, the other refinement. The
  mapping reads the dues off the same preview functions that the payments use, so the proof is about
  what each transaction does to the dues of *every* auction. `SaleInv == MoneyInv /\ PotInv`, the two
  inductive invariants of solvency, gives what the abstract step demands: a claimant was not paid
  before, a fresh slot owes nothing, the deposit covers reward and slash, the price is within the
  escrow or the deposit of the winner, a slash meets a bidder whose value is still there, and a
  commitment belongs to one auction, so that sealing or opening it changes one sale. One lemma per
  action names its abstract step; those that write none of the dues are stutters (`QuietSale`), and
  the outcomes share `SaleSettles`.
* **`PromisesAlwaysKept`** (`AuctionProofs`): `Spec => PromisesKept`, from `TypeOK` alone. No step writes
  the state, the snapshot, the outcome, the slash or the record in any pot of a settled auction
  (`SettledTerms`, since only live ones are resolved, `ResolveElsewhere`); only a claim writes an
  escrow, that of its claimant, and what it takes is what both previews said (`RefundTakesPromise`).
* **`CancellationSlashBounded`**, **`DynamicTimeoutBounded`** (`ArithmeticProofs`): the
  engine's results for all amounts and times. A cancelling seller loses nothing while nobody has
  escrowed; otherwise at least a quarter of the deposit, at most all of it, and exactly all of it
  from the end on, the two roundings notwithstanding (`QuotientExact`). The timeout lies between 15
  minutes and two hours.
* **`QuorumInReach`, `AgreementAlwaysSettles`, `OnlyQuorumSettles`, `SlashesCountOnce`**
  (`AttestationProofs`): the four properties of the AVS, for every finite set of operators
  (`OperatorsAssumption`). The invariant is `ResolutionTypeOK /\ ThresholdInReach`. An envelope with
  enough valid entries names as many distinct operators, by the injection from positions to names;
  conversely, enough signers can be listed in an envelope, if envelopes may be as long as there are
  operators, which the theorem assumes (the contract sets no limit).
* **`KeeperTypeCorrect`, `RecordsNeverAhead`, `SubmittedOnlyWhenDone`, `LeasesExclude`**
  (`KeeperProofs`): the invariants of the keeper, for any number of auctions, of overlapping polls
  and listeners, of retries, failures and crashes; the slots of the roles are disjoint
  (`SlotsAssumption`). None of the properties is inductive. What a poll writes it has read
  several awaits before, so `KeeperInv` also says what a poll may rely on at each place:
  `SoundThread` (between `Confirm` and its fallback write the auction is resolving or settled; a
  batch of the dispatcher or the submitter holds only auctions whose resolution started; what is
  about to be marked as submitted is settled or rejected) and `SoundStore`, the same for every
  store in a memory, on its way to the file or in it. Both survive every step of the chain because
  an auction only moves on (`Grows`). For the leases, `LeasesKept` says that an attempt still has
  the lease it took, unless that lease ran out during the attempt. There is one lemma for each
  action of a poll (it goes on soundly, or saves a sound store) and one for each step outside of
  the polls: chain, lease, start, crash, write, failure.
* **`ReportsHold`, `RoutesHold`, `ReviewIsComplete`, `PageTypesHold`** (`PageProofs`): the pages, for any
  accounts and amounts, any numbers that can be entered, any kinds of visits and any number of
  actions under way. A report is late: what makes it true is either that the verification of the
  same action read the market, or that a transaction which is mined has had its effect
  (`ActionsSound`), together with two facts on steps of the lot: claims, cancellations and existence
  are permanent (`Stays`), and a settled lot keeps its winner (`Frozen`). For the portfolio it
  matters that a load reads the state first and the winner later (`CoreSound`, `RecordSound`): the
  other order would not be inductive. For the form, that a passed step stays valid while a later one
  is edited (`PassedValid`), and that days, hours and minutes of the summary add up to the duration
  that is sent. `PageInv` joins these with the types of all parts.
* **`CoreAlwaysWires`, `HandoverAlwaysComplete`, `RecordedMarketAlwaysServed`,
  `DeploymentTypeCorrect`** (`DeploymentProofs`): the scripts, for any number of transactions, runs,
  crashes and restarts of the chain. The first two say what a script that gets to its last step has
  done, whatever it found at its start; they follow from `PointsInv`, which says for each step of the
  two scripts what they have done so far. That is known because one script runs at a time and nobody
  else has the key. The third speaks of what an idle operator finds, so it has to carry facts over
  from one run to the next. `RegistryInv` does: what a registry records is there, its market is
  wired to its parts, and everything belongs to the signer or, after a hand-over, to the timelock
  (`Good`), except between the last steps of a core deployment and of a hand-over. These last steps
  cannot fail: the first transaction of the wiring throws unless the pot is still the signer's
  (`CoreFound`), so that nothing is half wired after a hand-over, and the hand-over touches only what
  belongs to signer or timelock (`TimelockFound`). An engine that is deployed alone is not the one
  the market uses (`AdaptersFound`), which is why the smoke test can object to it and to nothing
  else. The inductive invariant is `PointsInv /\ (crashes = 0 /\ resets = 0 => RegistryInv)`; TLC
  found no violation of it on the instance of `deployment` before it was proved. After a crash the
  second part is really false, as section 7 tells of the scripts.
* `ArithmeticProofs` proves of `SumTo` that the recursive function exists and is unique, what an update
  of one argument does to the sum, bounds, monotony, scaling, and that the floors of the shares of
  an amount add up to no more than the amount (`SharesFit`). Induction on the length goes through a lemma on
  sets of naturals, since theorems that take an operator cannot be instantiated here.

Every invariant and every action property that a passing run checks is stated by a theorem, but for
`FallbackAvailable`, which has `ENABLED` in it (`FallbackOpen` has its guards, under rotation, and is
proved). `LiveAuctionsNeverDrained`, `PageTypesHold` and `DeploymentTypeCorrect` state properties that no run
lists.
Out of reach of the prover is liveness: `AuctionsSettle`, `RefundsPaid`, the progress of the keeper,
`ControlsComeBack` and `ShownEscrowCovered` of the pages are model-checked only.
What a recursive definition computes for *all* inputs cannot be proved in general for want of
induction over data; `Sums` gets by with a set-based argument. No module uses a `RECURSIVE`
operator.

## 6. How to run

    tlc -config MCPublic.cfg MCFairMarket.tla
    tlc -config MCAttested.cfg MCAttestedResolution.tla
    tlc -config MCKeeperProcesses.cfg MCKeeper.tla
    tlc -config MCAuctionPage.cfg MCAuctionPage.tla
    tlc -config MCDeployment.cfg MCDeployment.tla
    tlapm SolvencyProofs.tla
    tlapm AuctionProofs.tla
    tlapm AttestationProofs.tla
    tlapm KeeperProofs.tla
    tlapm PageProofs.tla
    tlapm DeploymentProofs.tla

## 7. Findings

* `shielded_winner_claim`: `lockEscrow` of the vault accepts any commitment with amount 0 that was
  never refunded. A winning commitment that paid exactly its escrow is in that state. If it is
  locked again for another auction, its `auctionId` changes and the token it won cannot be
  claimed any more.
* `keeper_forwarding`: the monitor never reads the file again after its start and writes all of its
  memory in every poll while an auction is resolving. That puts a completed job back to pending and
  removes the artifact the dispatcher has stored. The submitter sees the artifact only if its poll
  falls between the two writes; polls have the same period, so that one keeper may forward every
  resolution and another one none. The counterexample is such a rhythm, with nothing failing.
* `keeper_outage`: `writeFile` truncates first. A crash before the contents are written leaves a
  file that does not parse; `hydrate` throws on everything but a missing file, so the restarted
  process ends its start before it reads the chain, while its metrics server keeps it alive. The
  same happens to a process that starts while another one is writing. The market itself does not
  suffer: anybody may call `triggerFinalize` and `triggerFallbackVoid`.

Beside these, a crash can lose a resolution for good. The dispatcher marks a job as completed, then
stores its artifact; a monitor that starts in between has in its memory a completed job without an
artifact, removes the stored artifact with its next write, and never queues the job again
(`RequestsAnswered` with `MaxCrashes = 1` shows it). The auction then waits for somebody to call
`triggerFallbackVoid`. And a start that fails for any other reason (one failed read of the chain)
leaves the process in the same state as a torn file: alive, without polls.

Observed besides, of the contracts and the keeper's choice:

* Cancellation and fallback *push* the token to the seller. A seller that is a contract without
  `onERC721Received` makes the void revert, and with it every refund of that auction, for as long as
  operators do not resolve it; `FallbackAvailable` therefore speaks of sellers that accept tokens.
* A best bid of zero on a lot without a minimum is taken as a bid, picked, and refused as a
  resolution. After a rotation of the vault the keeper overlooks the older shielded bids, and may
  submit that nobody won, which the market takes. A keeper that is not the vault's preview reader
  skips every shielded bid.

Of the pages, each in the model and excepted from, or left out of, the properties above:

* After an account or network change during the snapshot, or during a connection, session and wallet
  may disagree until the next event. What a panel has set ("resolving", a winner's address) survives
  `router.refresh()`.
* A record with details that timed out, and one with a shielded winner, offers the seller a reclaim.
* A lock whose receipt is not found in three minutes is offered again and may lock twice.
* A creation is reported on its receipt, as is a payout, without reading the market; the trigger shows
  "resolving" whatever state the market has. A refresh that fails replaces the page by "not found",
  panels and their messages included.

Of the scripts, excluded by the condition of `RecordedMarketServed` or named in it:

* A market that is redeployed by a killed run of 01 already has the pot, while the file names the
  old one (the smoke test objects). A rerun that ends takes the pot from auctions that still run.
* After a rerun of 00 and then 01 the pot keeps the old engine, so that the smoke test never passes.
  A rerun of 00 after the hand-over records an engine that the timelock does not own.
* A run killed in its write leaves a file without addresses. A killed 08 deploys a second timelock when it is
  repeated, and may leave its three files in disagreement. On a chain that was started again 08 may take
  an address for its timelock that is now something else.
