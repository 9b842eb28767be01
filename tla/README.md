# TLA+ verification of hedera-smart-contracts

Specifications, model-checking configurations and machine-checked proofs for
the programs of this repository. `PROJECT.json` lists components, runs, the
source lines each definition stands for, the hazards and the findings.

## The system

The repository is a collection around Hedera smart contracts. Its parts, the
state they keep and what is hard about them:

| part | state | operations | interacts with | hard |
|---|---|---|---|---|
| ERC indexer, runner (`tools/erc-repository-indexer/.../runner.ts`) | place of the loop | one loop: list a page, await its analysis, start its writes, go on | all services | the writes are not awaited; crashes and restarts |
| registry generator (`registryGenerator.ts`) | `erc-20.json`, `erc-721.json`, `erc-1155.json`, `next-pointer.json` | read, merge, write; store and retrieve the pointer | file system | lost updates, torn files, string order, duplicates |
| bytecode analyzer (`byteCodeAnalyzer.ts`) | results of one page | fetch all objects, analyse one after another | scanner | order of answers, partial failure |
| contract scanner (`contractScanner.ts`) | none | three requests, retried on status 429, null on other failures | mirror node | retries without bound |
| configuration (`config.ts`, `constants.ts`, `helper.ts`) | environment, stored pointer | validate, resolve the starting point, build URLs | generator, scanner | two layers of regular expressions |
| HTS mock (`test/foundry/mocks`) | tokens, balances, associations, KYC, freeze, approvals | the HTS precompile's functions behind precheck tables | foundry tests | sequences of legal calls |
| HTSConnector (`lib/layer-zero`) | token supply on each chain, messages | `_debit`, `_credit` | LayerZero endpoint, HTS precompile | supply across two chains, int64 |
| WHBAR, auctions, purchase, payment channel, ballot (`contracts/`) | balances, bids, phases, votes | one method each | HBAR ledger, block time, callers | re-entrance, phases at their boundaries, who may withdraw what |
| upgradeable votes, proxies, vaults, Diamond, ERC-777/1820, Multicall3 | storage behind a proxy, operators | thin or vendored | OpenZeppelin | upgrades |
| EVM, Yul, precompile and Solidity feature contracts, state registry | hardly any | one EVM feature per function | tests | - |
| polling helpers (`utils/helpers.js`) | value before, tries | read until a quantity differs, wait in between | tests, network, mirror node | the mirror trails; failed reads; ends of loops; bigints |
| pull request check (`.github/scripts/check-pr.js`) | references still to check | request an item, check it, go on or fail | GitHub, people who edit | what it reads changes while it runs; failures |
| other scripts and workflows | none | sequential calls of remote services | network | - |

What makes the modelled parts correct: the registries hold only what was
scanned, once, in order, and all of it; the stored pointer never passes what
was not scanned; runs end; the configuration does what it says. Of a mocked
token: only associated accounts hold it, its two books of NFTs do not
contradict each other, the supply is what is held, nobody loses what he holds
without having called or allowed it, and a deleted token stays as it is. A polling
helper returns what its own test did and gives up only on a late mirror; the
pull request check passes only what is in order. Of the contracts over HBAR:
whatever the order of calls, and whoever calls back in while he is paid, each
account gets out what it is owed, once, and each vote counts once.

## Modules

| module | models | state and actions |
|---|---|---|
| `RegistryArray` | the array of a registry file and the merge of `updateRegistry` | pure operators: an array is its set of entries, its last number and whether it ascends, the three things the code and its readers look at |
| `UpdateRegistry` | `updateRegistry` on real arrays with lodash's `uniqBy` and `sortBy` (by rank: before the n-th element come n - 1 others) and JavaScript's string order | `contracts`, and beside it what `Merge` computes; its specification is `Updates` |
| `ErcIndexer` | `runner.ts`, `registryGenerator.ts` and the listing of `contractScanner.ts`, over disk, mirror node, crashes | see below |
| `ErcRegistry` | nothing of the code: the abstract promise that a page is committed in one step | `Grow`, `Commit` |
| `ByteCodeAnalyzer` | `categorizeERCContracts` request by request | one state per request, the pairs of contract and standard still to analyse, of which the first by `Precedes` is in hand, the three lists |
| `IndexerConfig` | `ConfigService`, `Helper.buildUrl`, `Helper.buildStartingPoint` and the regular expressions | environment, `Validate`, `Resolve`, `NotFound`, `List` |
| `Erc20` | nothing of the code: the abstract promise of a fungible token, which `WHBAR` and the fungible tokens of `HtsMock` implement | `Mint`, `Burn`, `Transfer`, `Approve` |
| `MCErcIndexer`, `MCByteCodeAnalyzer` | instances for TLC | |
| `HtsMock` | `HtsSystemContractMock.sol`, `HederaTokenValidation.sol`, `HederaFungibleToken.sol`, `HederaNonFungibleToken.sol` | see below |
| `MCHtsMock` | instances for TLC | |
| `Polling` | `utils/helpers.js` and the tests that call it, over a network with a trailing mirror node | see below |
| `CheckPr` | `check-pr.js` request by request, over GitHub | see below |
| `HbarLedger` | nothing under `src/`: HBAR balances, block time, calls within calls, as the contracts see them | payments as operators; `Donate`, `Tick` |
| `WHBAR`, `SimpleAuction`, `BlindAuction`, `SafeRemotePurchase`, `PaymentChannel`, `Ballot` | the contract of that name | one record per contract, one action per method |
| `HbarContracts` | the six contracts on one ledger, called by the same accounts | `WhbarStep`, ..., `NetworkStep` |
| `MCCheckPr`, `MCHbarContracts` | instances for TLC | |
| `ErcIndexer_proofs`, `IndexerConfig_proofs`, `HtsMock_proofs`, `Polling_proofs`, `CheckPr_proofs`, `HbarContracts_proofs` | theorems about the module of that name | |
| `Registry_proofs` | theorems about `ByteCodeAnalyzer` and `UpdateRegistry`, and that the lists of the one are batches of the other | |
| `DataLemmas` | lemmas the proofs share: induction over numbers and finite sets, the largest of some numbers, sums of a function over a finite set | |

### ErcIndexer

`pc` is where the loop is (`off`, `list`, `backoff` for the wait after status
429, `scan`, and `drain` when the loop has returned and the process lives on
for its pending writes). `next` is the loop's pointer, as the first contract
number it asks for, 0 for null; `batch` the page in hand. `disk[f]` is the
content of a file; a missing, an empty and an `[]` file have the same value,
and a `torn` one does not parse. `jobs[f]` are the writes of a file the process
has pending. `scanned` and `seen` are history variables that no action reads.

`Dispatch` is one turn of the event loop: when the analysis of a page returns,
`generateErcRegistry` reads the registry files, merges and reaches the first
`await` of `writeContentsToFile`, and so does `updateNextPointer`, before
anything else runs. A write is then one to three steps (`OpenForWrite`
truncates, `WriteChunk` leaves a text longer than one chunk half written,
`WriteRest` ends it), interleaved with other writes of the same file and with
the loop. Writers that have a file open together write over each other from its
start; the file is then the text of the last one or torn. `DispatchDies` is a
merge that meets a torn registry: `JSON.parse` throws in a promise nobody
awaits, and Node ends the process. `Crash` leaves the disk as it is and drops
what was pending. `Deploy` and `Page`, `Link` are the mirror node: pages in
ascending order, a null link after a short page, new contracts with larger
numbers.

Which standards a contract follows is data (`Kinds`); so is which standard's
token information came back null (`unnamed`). For ERC-1155, which is never
called, the code always writes a full entry; the instances name ERC-20 and
ERC-721 and the theorems hold for the larger set of behaviours. The detailed
analysis is in `ByteCodeAnalyzer`, whose `ReturnsWhatArrived` states what
`Found` takes for granted, and `ListsAscend` what `Merge` takes for granted.

### HtsMock

One token, from its creation on. `token` is what the mock keeps of it,
`association`, `kyc` and `unfrozen` are `_association`, `_kyc` and `_unfrozen`
(a mark is `unset`, or explicit `yes` or `no`). `balance`, `allowance`,
`supply` are the ERC-20 contract, `owner`, `approved`, `operators`, `minted`,
`burned` the ERC-721 contract, `ownerId`, `spenderId` the mock's own book
`_partialNonFungibleTokenInfos`. `sender` (who made the last call) and
`treasuries` are history variables.

A transaction is atomic, so a call is one action, and a call that is refused or
reverts is no step. A precheck is the list of its validations in the order of
the source, each with the response code it fails with (`Check`): `Passes` says
the call goes on, `ReplyTo` what it answers otherwise. The mock decides by
`msg.sender`, which is the token contract when the call comes through it: the
first parameter `m` of a precheck. This matters for KYC and freeze, which the
mock looks at only when `m` holds the key (`Told`).

The two faces are separate actions: `MockTransfer` (the mock's `transferFrom`
and `transferToken`), `Transfer` and `TransferFrom` (the ERC-20 functions);
`MockTransferNft`, `TransferNft`, `SafeTransferNft`; `Approve`, `ApproveNft`
and `SetApprovalForAll` with `m` the caller or the token. `transferTokens`,
`transferNFTs`, `associateTokens`, `dissociateTokens` are sequences of these
steps and not actions of their own. What the source does oddly is kept:
`safeTransferFrom` runs its precheck twice, so that it succeeds only from an
owner to himself; `wipeTokenAccountNFT` tells the mock's book only; a burn
checks and records the first serial and burns them all; `wipeTokenAccount`
always reverts (it reads `serialNumbers[0]` of an empty array) and so is no
action; a paused token goes on as before.

Neither `approve` caps its amount. `Unlimited` is the largest uint256: it passes
every precheck (`Covers`), and OpenZeppelin's `_spendAllowance`, behind both
faces, leaves it as it is (`SpendAllowance`). The foundry helper asserts after a
spender's transfer that the allowance shrank by the amount
(`HederaTokenUtils.sol:404-409`), which is false of such an allowance;
`SpentByAuthority` therefore says which allowances shrink.

### Polling

`ledger` holds all values the quantity has had, `seen` how many of them the
mirror node has applied: a read answers `ledger[seen]`. `age` makes the mirror
timely: a change is applied within `Lag` ticks, which only `delay`, the wait
between two tries, lets pass. A test is `ReadBefore`, `Submit` (with or without
waiting for the receipt), `Call`, and then `Read`, `ReadFails`, `delay` and
`GiveUp` until the call ends. The fifteen helpers are one loop with four
parameters (`Helper`): how tries are counted, which value ends the loop,
whether a failed read is one more try, what happens when no try is left.
`pauseAndPoll` and `unPauseAndPoll` submit themselves. What the source does
oddly is kept: `genericPoll` awaits one read for all its tries (`ReadVersion`;
its branch for a result with a `wait` method is left out, as no caller gives it
a transaction),
`unPauseAndPoll` compares MAX_RETRY with itself, two helpers look for a number
0 where the value is a bigint. `poll.ownAt`, `beforeAt`, `readAt`, `errors`
are history. Any value may be submitted, the one before as well.

### CheckPr

`remote` is what GitHub holds, an item or `NotFound` per number; `pr` and
`body` what the run has fetched, `issueRefs` and `prRefs` the references it has
still to check, in the order of the text. A description is the sequence of its
references; the regular expressions tell three forms apart, and what stands in
a tag or in code is stripped. One request is one step; any request may fail
otherwise than with "not found", which ends the run. `Edit` changes labels,
milestone or description between requests. `wasFine` remembers which items
were in order at some moment.

### HbarContracts

A transaction is atomic and one that reverts is no step, so a method is one
action, with one exception: `WHBAR.withdraw` pays by `call`, which gives the
payee gas to call others. If the payee is a program, `WHBAR_withdraw` opens a
frame (`depth`), in which programs call any method of any contract before
`WHBAR_withdrawReturns`. The other contracts pay by `transfer` and `send`,
whose receivers cannot call. `hbar` are the balances, `stake[c][a]`, a history
variable, what account a paid contract c less what c paid it: most properties
relate it to what the contract keeps. A hash is what it hides
(`BlindAuction`), a signature the amount signed (`PaymentChannel`). A contract
that does not exist is a record with `exists` alone. `Donate` is HBAR that
reaches a contract without a call (a transfer of the network).

`WhbarIsErc20` maps `whbar` to the state of `Erc20` (the empty token before WHBAR
is deployed), in which who called matters: only the caller's tokens burn, only
his or those approved to him move, only his approvals change.

Kept as the source has it: `SimpleAuction` accepts a bid in the second in which
`auctionEnd` was called, after which nobody can take out the highest bid, and
everybody outbid still gets his; a purchase with an odd amount is created, and
one unit stays in it; `close` leaves the channel open, so that a signature
holds again if HBAR comes in; anybody may call `claimTimeout` and a bidder may
be the beneficiary, the buyer the seller.

## Runs

| run | checks | bounds |
|---|---|---|
| `indexer_hazards` | `TypeOK`, `RegistrySound`, `NoDuplicates`, `ResumeCovered`, `RegistrySorted`, `DetectionWritesNothing` with slow, torn and lost writes, detection-only runs among updating ones | four contracts of both, one or no standard, two of them deployed later, pages of two, one failed request, one crash, any number of restarts and of status 429; the ERC-20 file takes two chunks |
| `indexer_calm` | `RegistryComplete`, `ImplementsRegistry`, and under fairness `RunEnds`, `EventuallyRegistered`, when writes keep up and nothing is interrupted | the same network, two failed requests |
| `update_registry` | `AbstractionExact`, `FirstRecordStays` over every sequence of batches | numerals of one, two and three digits: 8, 9, 10, 100 |
| `analyzer` | `ListsAscend`, `ReturnsWhatArrived`, and under fairness `Returns` | a page of four, three standards, two failed requests |
| `config` | `ListsAsConfigured` for every environment | pointers with two limits and both comparisons, three numbers |
| `hts_mock` | `TypeOK`, `HoldersAssociated`, `BooksAgree`, `SupplyIsHeld`, `SpentByAuthority`, `DeletedStays` | three accounts; three fungible tokens and two NFTs (`ManyCreations`), with the admin, supply, freeze, KYC, wipe and pause key in different hands; supply up to 2 in amounts of 1 and 2, approvals of 0, 1, 2 and without limit, two serials |
| `polling` | `TypeOK`, `SeesOwnChange`, `GivesUpOnlyIfLate` and under fairness `CallEnds`, for all helpers | two tests in a row, three values, MAX_RETRY unset, 2 or 3, a mirror 2 ticks late, one failed read |
| `check_pr` | `TypeOK`, `VerdictIsRight`, `GreenWasFine` and under fairness `Ends` | 5184 repositories of three numbers, descriptions of up to two references, one edit, one failed request |
| `contracts` | `TypeOK`, `WhbarBacked`, `WhbarSupplyHeld`, `WhbarIsErc20`, `BidsReturnable`, `BlindBidsReturnable`, `PurchaseSettles`, `ChannelHolds`, `ChannelPaysOnce`, `EachVoiceCounts` | two people and a program, each contract alone and WHBAR beside a purchase, 1 to 3 HBAR each, time up to 4, frames up to 2 deep, one unit donated, three blind bids, two proposals |
| `indexer_overlap`, `indexer_interrupt`, `hts_success` | find the counterexamples below | the smallest that show them |

Four contracts and pages of two give a full page, a short page, a page that is
scanned again after it grew and an empty page behind a full one; one write per
file and batch makes two batches enough for two writers of one file. Numbers
11 to 14 have numerals of one length: `RegistrySorted` holds there and not
across lengths, since `'0.0.10' < '0.0.9'` (`update_registry` has both, and
checks that `Merge` computes what the code does there). The history
variables, `MaxFaults` and `MaxCrashes` are the only unbounded parts of the
environment and are bounded by these constants. `analyzer` turns deadlock
checking off because the function it models returns, `hts_mock` because a
deleted token refuses every call.

In `HtsMock`, `MaxSupply` and `MaxSerial` bound the supply; `Amounts` are
positive, `Approvals` also 0, which revokes, and `Unlimited`; `Screened`, `Grants`, `Heirs` and `Keyrings` say whom KYC and freeze
calls, approvals, changes of treasury and of keys are about. Three accounts
give an owner, a spender and a receiver, of whom one holds a key; two serials
give a list whose first one differs from the rest. The theorems below need none
of these bounds.

In `Polling`, MAX_RETRY below and above the lag and two tests in a row are what
the properties tell apart: a transaction of the test before may be under way.
In `CheckPr`, three numbers are the pull request, another one and an issue, and
one edit can come between any two requests. In `HbarContracts`, time 4 passes
every phase by one tick on both sides (`BiddingTime`, `RevealTime`,
`Duration`); contracts that read the time are deployed at time 0, since they
use differences of times only (`Timed`); allowances are given where WHBAR is
alone, to programs (`Approving`); three blind bids let one account outbid
itself and another. The two people are interchangeable, hence the symmetry; no
liveness is checked there. Deadlock checking is off where a pull request
check or the phases of all contracts are over.

Fairness: the event loop runs what is ready (weak fairness on its steps and on
writes); a listing that is retried every nine seconds is not answered with
status 429 for ever (strong fairness on `ListPage`, on an answer in
`ByteCodeAnalyzer`); somebody starts the next run (weak, `RepeatedSpec` only).
`Crash`, failures and `Deploy` are never forced. In `Polling` the network
executes what was submitted, the mirror applies it, timers fire and a test that
can go on does; nothing forces a read to fail or a test to begin. In `CheckPr`
the next request is answered or fails.

### What the counterexamples show

- `indexer_overlap`: a batch's write is pending when the next batch reads the
  file; the later write drops the earlier batch (`registryGenerator.ts:127`).
  The comment at line 112 promises merging with what is there.
- `indexer_interrupt`: the pointer is on disk, the registries of its batch are
  not, the process is interrupted; the next run starts behind contracts no
  registry has (`runner.ts:67`, against `registry_design.md:126`).
- `hts_success`: `_validateAccountUnfrozen` answers for a frozen account with
  the response code of `isFrozen`, which is SUCCESS
  (`HtsSystemContractMock.sol:459`); a transfer that the holder of the freeze
  key asks for is answered SUCCESS and moves nothing, which the helper of the
  foundry tests (`HederaTokenUtils.sol:396`) takes for impossible.

`EventuallyRegistered` is stated for runs without a failed request: with one,
the contract is skipped, the pointer of its page stored, and no later run asks
for it (`byteCodeAnalyzer.ts:57`). STARTING_POINT refuses the `next` pointers
of the mirror node (`contract.id=gt:`; `constants.ts:15` has `gte:`), although
README.md:51 of the indexer has one as an example; `ListsAsConfigured` is about
those it accepts. `RegistryComplete` holds where writes keep up, `SeesOwnChange` needs `Settled`, and `CallEnds` holds of
`unPauseAndPoll` only because the network executes in the end.

## Proofs

`ErcIndexer_proofs` proves for all networks, page limits, starting points,
numbers of standards, failures and crashes:

- `TypeCorrect`: `Spec => []TypeOK`.
- `Sound`, `Unique`: `RegistrySound` and `NoDuplicates`. Both are inductive
  with `TypeOK`, because they speak of every value on disk or pending
  (`Values`); the lemmas `WriteStepValues`, `OtherStepValues` and
  `DispatchValues` say where values come from, whatever writers do to each
  other.
- `Sorted`: `RegistrySorted`, if `IdLess` agrees with `<` on `Ids` (it does where
  numerals have one length, `OneLength` in `Registry_proofs`). The
  strengthening says that the last number of an array is the number of one of
  its entries (`LastIsEntry`), without which the fast path says nothing.
- `Covered`: `ResumeCovered`, by `ResumeInv`: not only the stored pointer but
  every pending one and the place of an updating run's loop is `Safe`, which
  also says that no contract still to come can get a number below it
  (`WithinReach`); otherwise `Deploy` would break the invariant. `SafePage`
  shows that a page leaves nothing out between its ends, by the cardinality of
  finite sets.
- `DetectionReadOnly`: `DetectionWritesNothing`, by: in a detection-only run,
  and while none runs, nothing is pending.

and, for the same networks, limits and failed requests, if `~SlowDisk` and
`MaxCrashes = 0`:

- `NothingIsLost`: `RegistryComplete`, by `WritersInv`: a file has at most one
  writer, which nobody disturbed, is torn only while it has one, and nothing is
  pending between runs. So a merge reads what is on disk (`DispatchHolds`), no
  write changes what a file is going to hold (`WriteStepHolds`), and neither
  `DispatchDies` nor `Crash` can happen (`OthersHold`).
- `Implements`: `ImplementsRegistry`, the refinement of `ErcRegistry`. A dispatch
  is a `Commit` of its page (`DispatchCommits`: what a merge adds is what
  `Registers` asks for, and the new pointer covers what is before it by
  `ResumeInvariance`), a deployment a `Grow`, all other steps stutter.

`IndexerConfig_proofs` proves `ListingsAsConfigured` (`ListsAsConfigured`) for
all contract numbers and limits of pointers, by: a run past validation has a
valid configuration, and before its first listing its place is what
`resolveStartingPoint` returned.

`Registry_proofs` proves for all pages, standards, orders of answers and numbers
of failed requests, and for every sequence of batches:

- `ListsAscending`, `ReturnedAsArrived`: `ListsAscend` and `ReturnsWhatArrived`,
  by `Invariance`: a list is what the pairs analysed so far came to, nothing
  else and nothing twice, and every pair still to be analysed comes behind all
  of them in the order of the page; their answers do not change any more
  (`DoneStays`).
- `WaitsForWhatIsSent`, the safety half of `Returns`: while the function has not
  returned, what it awaits has been sent and no other call is in flight. The
  invariant needs that there is a pair in hand and only one (`SomeInHand`,
  `OneInHand`).
- `MergeIsExact`, `FirstRecordKept`: `AbstractionExact` and `FirstRecordStays`, for
  numbers of up to nine digits, of any and mixed lengths. `InOrderOrders` says
  that an order by ranks is a bijection that ascends; `UniqByIs`, `UniqByAppends`
  and `ByIdIs` say from it what uniqBy and sortBy make of an array, and
  `SameOrder` that the order of JavaScript strings on numerals, first difference
  or proper prefix, is `IdLess` of the numbers, which is the one fact on which
  `Merge` and the code decide whether to append or to sort.
- `ListsAreBatches` joins the two: at every moment a list is empty or one of the
  batches `updateRegistry` is modelled for, if the registry may get the
  contracts of the page. So what the two modules assume of each other is proved
  of each.
- `OneLength`: on numerals of one length `IdLess` is `<`.

`HtsMock_proofs` proves for all accounts, keys, tokens, amounts and supplies:

- `TypeCorrect`; `MovedType` is its arithmetic: a transfer the balance covers
  leaves naturals, also from an account to itself.
- `HoldersAreAssociated`: `HoldersAssociated`, with `Fresh` (before its
  creation nobody is associated and nothing is deleted). Each family of calls
  (`SettingsFrame`, `FungibleFrame`, `NftFrame` say what it leaves alone) either
  moves nothing or moves to a treasury or to an account the precheck found
  associated.
- `AgreementOfBooks`: `BooksAgree`, by `BookInv`: an NFT without owner has no
  spender either, in each book, and serials beyond `minted` have neither.
  `MockTransferMoves` shows on the way that the error branch of
  `transferRequestFromHtsPrecompile` (`HederaNonFungibleToken.sol:86`), which
  would leave the books apart, cannot be reached.
- `DeletionIsFinal`: `DeletedStays`; `CallsNeedToken` goes through the precheck
  of every call.
- `SpendingNeedsAuthority`: `SpentByAuthority`, with `BookInv` for the serial a
  mint takes. Approvals are any naturals and `Unlimited`; `SpentFinite` says
  what becomes of the former, the latter stays.
- `SupplyHeld`: `SupplyIsHeld`. A transfer moves a part of the sum
  (`MovedSum`, from an account to itself too), a mint and a burn change one
  summand; a burn of a list of NFTs takes as many owned serials as the list has
  entries, because a list that names one twice reverts (`ListedOnce`). Before a
  token is created nobody has a balance (`SupplyInv`).
  The accounts are assumed to be finitely many.
- `MockImplementsErc20`: `FungibleIsErc20`, the refinement of the same `Erc20` by a
  fungible token of the mock: a creation is a `Mint` of the initial supply
  (`SettingsRefine`), a call through either face the action it is named for
  (`FungibleRefines`), all else stutters. `Unlimited` is the same value on both
  sides, so that both branches of `Spend` are met. TLC agrees on the instance of
  `hts_mock`, which does not list it, since `SpentByAuthority` says of it what
  can be said of NFTs too.

`Polling_proofs` proves for all amounts, values of MAX_RETRY, lags, numbers of
tests and of failed reads:

- `TypeCorrect`; `AnswersOwnChange`: `SeesOwnChange`, by: the test's own change
  is the last one (`OwnIsLast`), and an answer was read (`AnswerWasRead`).
- `TriesSuffice`: `GivesUpOnlyIfLate`, by `TriesCounted`: since the receipt the
  change has been on the ledger, and the mirror without it, for as many ticks
  as there were tries.

`CheckPr_proofs` proves for all repositories, descriptions, edits and failures:

- `TypeCorrect`; `RightVerdict`: `VerdictIsRight`, by `Checked`: of every
  repository nobody edited, what was checked so far and what is left make the
  verdict.
- `PassesOnFineIssues`: `GreenWasFine`, by what a run remembers of the issues it
  found in order (`FineRemembered`), and that a failed request ends it.

`HbarContracts_proofs` proves for all accounts, programs, deployments, funds,
times and depths of re-entrance, `Invariance`, and from it:

- `WhbarIsBacked`: `WhbarBacked`.
- `WhbarImplementsErc20`: `WhbarIsErc20`, the refinement of `Erc20`, method by method
  (`DepositMints`, `WithdrawalBurns`, `ApprovalApproves`, `TransferTransfers`);
  deploying WHBAR, returns from frames and all other contracts stutter.
- `BidsReturned`: `BidsReturnable`, with `highestBid = 0` just when there is no
  highest bidder, without which the first bid would owe somebody something.
- `PurchaseSettled`: `PurchaseSettles`; while a purchase can be aborted what it
  holds is the seller's stake and at most what was donated.
- `ChannelKept`: `ChannelHolds`.
- `WhbarSupplied`: `WhbarSupplyHeld`: each method changes the supply as it changes
  the sum of the balances, and `withdraw` has done both when it pays, so that
  what calls back in finds the invariant.
- `BlindBidsReturned`: `BlindBidsReturnable`. One call of `reveal` goes through
  all bids of an account, and each may place itself and outbid another one
  before: `Settled` is the invariant of that loop, kept by each bid
  (`TurnSettles`): what the account has a claim to (`Owed`: deposits not yet
  looked at, its return, its highest bid) and the refund are together what they
  were when the loop began, and the claims of all others are untouched. Without
  the reset of a revealed bid it is not kept.
- `ChannelPaidOnce`: `ChannelPaysOnce`, with the largest amount signed so far
  (`LargestExists`): a signature signed later only raises it.
- `VoicesCounted`: `EachVoiceCounts`, by `Sound`: there is an assignment of an end
  and a distance to each voter such that each delegation comes one nearer to
  its end, and the weight and count at an end are the number of those who lead
  to it (`Leads`, `Tallied`). `delegate` moves all who lead to the caller on to
  another end (`Redirected`, `LeadsOn`), which is another one because the
  source refuses loops.
- `TypeCorrect`: `TypeOK`, whose bounds on WHBAR's supply and on refunds follow
  from the sums.

The invariant is a conjunction of one part per contract. That a contract's
steps keep its own part is one lemma per method (`BidKeeps`, `AbortKeeps`);
that they leave the parts of the others alone, although all move HBAR on one
ledger, is shown once, by the books: a step about contract c changes the
balance and the stakes of no other contract (`StepOf`, one lemma `...StepBooks`
each), and a step that spares a contract's books and state keeps its part
(`WhbarSpared` and so on), also if it gives HBAR to it.

The theorems assume what the modules' named assumptions say of their constants,
the mirror node and OpenZeppelin's contracts as modelled. Those assumptions
are weak: pages ascend, accounts and contracts are finitely many, amounts are
naturals, contract numbers have at most nine digits (the domain of `Digits`,
which counts them without recursion; the largest number on Hedera has eight).

Where a proof needs induction over numbers or finite sets, it is stated over
sets (`NumbersInduct`, `SubsetsInduct` in `DataLemmas`: a set that contains what
its predecessors contain contains everything) and derived from the library's
well-founded relations; the lemmas with a predicate as parameter are out of
reach of the provers. `SumFunction` is a fold, defined by a CHOOSE of a recursive
function; `SumsExist` shows that the function exists and `SumFunctionSums` ties
it to the relation `SumsOf`, of which all else is proved.

Every invariant and every action property that a passing run checks is thus
the conclusion of a theorem. Only model-checked is what says that something
happens in the end, under fairness: `RunEnds`, `EventuallyRegistered`, `Returns`,
`CallEnds`, `Ends`. TLAPS has no rule for ENABLED, which weak and strong fairness
are defined by.

## Not modelled

Wording of logs, file paths per network, HTTP details; which bytecode contains
which signature; `isErc`'s search. Of the HTS mock: expiry, metadata, custom
fees, the getters' replies, negative amounts and their int64 conversions,
several tokens side by side, keys of accounts without HBAR. Of the polling
helpers: `pollForLastEvent`, which nobody calls and which reads nothing anew. Of
the contracts: views and events, gas, a payee that refuses (the call reverts,
or in `SimpleAuction.withdraw` changes nothing), names of proposals, transfers
of WHBAR to WHBAR's own address (they revert), uint256 overflow, out of reach
with the HBAR there is. The components that `PROJECT.json` lists as
`not_modelled`, with their reasons: thin wrappers over or copies of OpenZeppelin
and other vendored code, contracts that show one stateless feature of the EVM
each, a cron job that keeps no state.

## Plan

1. Indexer, polling helpers, pull request check, contracts over HBAR: done.
2. `HtsMock`: done for one token; left are batches over several tokens.
3. `HtsBridge`: `HTSConnector` on two chains and the messages between them;
   total supply and the int64 bound of `HTSConnectorExistingToken`.
4. Proofs: the safety halves of `CallEnds` and `Ends`, as for `Returns`: what a
   run waits for is under way, and a measure goes down with each answer.
