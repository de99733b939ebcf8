# Verification of the Manifest order book in TLA+

Manifest is a Solana program: a limit-order book whose whole state, traders'
balances and resting orders alike, lives in one account per market, cut into
equal blocks, plus one *global* account per mint whose deposits can back
resting orders on many markets at once. Two more programs, the wrapper and the
UI wrapper, remember a trader's orders and call it. This directory holds a TLA+
model of the three programs and of the data structures in `src/lib`, TLC
configurations that check it on small instances, and TLAPS proofs of the
core's main safety properties, and of the red-black tree - links, order, balance, search,
and the sorted list it implements - for every value of the constants.

## Inventory

| part | state it keeps | operations | hard to get right |
|---|---|---|---|
| `quantities.rs` | none | quote for base, base for quote, rational scaling, each rounded up or down, checked against u64/u128 | who gains the rounding, overflow |
| `state/market.rs`, `claimed_seat.rs`, `resting_order.rs`, `lib/src/free_list.rs` | header (sequence number, tree roots and cached maxima, free list head), blocks with seats and orders | claim/release seat, update balance, insert/remove/resize order, expand | a block leaked or handed out twice, an empty free list where nothing checks for it |
| matching: `place_order_on_side`, `rest_remaining_on_side`, `cancel_order*`, `market_helpers.rs` | locals of a loop over the opposite side | clean expired and unbacked orders, fill, reverse and coalesce, stop, deliver global tokens, rest | rounding over many partial fills, blocks taken by reversals inside the loop, termination |
| estimator `impact_base_atoms` | locals of a read-only walk | size the order of a swap | must predict what matching will do |
| `state/global.rs`, `state/utils.rs` | seats, deposits, vault, gas prepayments | add trader, deposit, withdraw, evict, back an order, refund gas | stale backing, double refunds |
| `program/processor/*` | none | the instructions | tokens move after the accounting; a failed instruction must leave nothing |
| `lib/src/red_black_tree.rs` | nodes in blocks, cached maximum | insert, remove, lookup, iterate, validate | rotations against the cached maximum; lookup with a non-transitive equality |
| `lib/src/linked_list.rs` | the same nodes as a list | insert, remove, lookup, convert a tree in place | links are overwritten that the walk still reads |
| `state/market_helpers.rs` | none | one iteration of matching, written again for the Certora prover | must agree with the loop |
| `validation/loaders.rs`, instruction builders | global accounts a market remembers | recognize the accounts of a list, optional ones included | one account taken for another |
| `programs/wrapper` | entries for open orders, balances and sequence number of the last sync | claim, deposit, withdraw, batch update in one or more calls of the core | the copy is stale whenever others act on the market; one refused cancel or order fails the batch |
| `programs/ui-wrapper` | entries, volume seen and volume unpaid | place, cancel, settle | funds an order lacks, volume billed twice or never, a counter that wraps around |
| `client/rust/jup`, `slim`, `okx` | none | read a market, quote, build lists | the quote against what a swap pays; an order of the book the reader does not expect |
| TypeScript client, scripts, `certora`, logs, `lib/src/llrb.rs` | none on chain | build transactions, replay, other verification | - |

The parts interact by calls inside one instruction: a processor borrows the
market account, calls the market's methods, and moves tokens with the token
program before or after. An instruction runs alone and is rolled back when it
fails, so there is no interleaving of instructions; what interleaves are whole
instructions of many traders and, within one, the loops over cancels, orders
and makers, whose intermediate states break and restore the accounting.

For each component the properties that make it correct are: *blocks* - the
free list is exactly the unused blocks, there is one whenever the program takes
one, orders belong to seats, one seat per trader; *accounting* - vaults equal
what is owed, per token, after every rounding; *book* - uncrossed, sequence
numbers unique, orders always removable; *traders* - nothing but a trade
changes what anyone owns, swaps honour their limits; *global* - vault equals
deposits, gas covers refunds; *progress* - every instruction ends; *wrappers* -
no call of the core is refused for what the wrapper believed, the copy is exact
when it is trusted, volume is billed once; *accounts of an instruction* - what a
client builds loads as meant, what loads belongs together.

## Modules

| module | models |
|---|---|
| `Quantities` | rounding and checked arithmetic; the sizing of a coalesced reverse bid |
| `MarketState` | the market account as a value and its changes |
| `GlobalState` | a global account as a value and its changes |
| `Matching` | one iteration of the matching loop as functions of the market: refund, trade, bonus atom, reversal |
| `Manifest` | variables, one action per instruction or loop iteration, `Next`, `Spec`, `FairSpec` |
| `ManifestProperties` | type invariant, invariants, action and liveness properties |
| `SingleStep` | `place_single_order` and `place_reverse_order` of `market_helpers.rs`, compared with the steps of the loop |
| `JupQuote` | the quote of the Jupiter client, compared with what a swap pays |
| `TransferFees` | fees of Token-2022 around a swap |
| `MCStart`, `MCManifest` | constants, start states, scenes and next-state restrictions for TLC |
| `ManifestProofs` | sums over finite sets; lemmas about `MarketState`, `Quantities` and `Matching`; the inductive invariant `IInv`, one lemma per action, the induction, the theorems that follow from `IInv` alone, and the book: sequence numbers, bids below asks |
| `FundsProofs` | the global accounts: deposits, gas; the limits of a swap; transfer fees |
| `LedgerProofs` | the supply of a mint; orders can always be returned; what each trader owns; seats stay; reversals are paid for |
| `TreeProofs` | the links of the tree under rotations, insertion, removal and repair |
| `OrderProofs` | the order of the tree: places of its blocks, keys, maximum, walks and searches, the refinement of `PriorityList` |
| `BalanceProofs` | colors and black heights of the tree under rotations, insertion, removal and repair |
| `WrapperProofs` | the core's invariants when it is called; lists and blocks of the wrapper account |
| `CallProofs` | what a wrapper and the core know of each other during its calls: arguments, numbers over time, cancels |
| `PriorityList` | what a tree promises: entries in priority order, first in first out among equal keys |
| `RedBlackTree` | the tree of `red_black_tree.rs` on links between blocks, each iteration of a repair loop a step |
| `LinkedList` | the list in the same blocks and the conversion of a tree |
| `TreeProperties` | invariants and loop invariants of the tree, the refinement of `PriorityList`, the conversion |
| `MCRedBlackTree` | the view of a tree without block names, for TLC |
| `CoreCall` | a call of the core's `BatchUpdate` in the middle of an instruction of another program, and the rollback of both |
| `Wrapper`, `WrapperProperties`, `MCWrapper` | the wrapper program, its properties, its instance |
| `UiWrapper`, `UiProperties`, `MCUiWrapper` | the UI wrapper program, its properties, its instance |
| `Loaders`, `LoaderProperties` | the lists that clients build and what each loader makes of them |

`Manifest` extends `Matching` and `GlobalState`, both of which extend
`MarketState`, which extends `Quantities`. `Wrapper` and `UiWrapper` extend
`CoreCall`, which extends `Manifest`: the programs that call and the one that is
called run on the same variables. `SingleStep`, `JupQuote` and `TransferFees` extend
`Manifest` with operators over its steps and have no state of their own.

### State and steps

`accounts` is the committed state of the chain, a record of the market `m`, the
market vaults, the traders' wallets and the two global accounts. `work` is what
the instruction in progress has made of it and `ctx` holds that instruction's
locals (`Idle` between instructions). Instructions without a loop are one
action that commits. `BatchUpdate` and `Swap` set `ctx.phase` and go on step by
step:

    BatchUpdate -> cancel: CancelOrder* ; PrepayGas
                -> next:   BeginOrder ; match ... ; FinishOrder, per order
                -> FinishBatch (gas refunds, commit)
    Swap -> impact: WalkPast | CountMaker ... StopWalking   (quote-sized swaps)
         -> next:   BeginOrder ; match ... ; FinishOrder
         -> FinishSwap (settle the seat, move the tokens, commit)
    match: CleanStaleMaker | CleanUnbackedMaker | Fill [-> PlaceReverse] ...
           StopMatching -> settle

For every point where the code returns an error or panics inside a loop there is
an action `...Fails` that ends in `Abort`: the runtime restores `accounts`. An
instruction of one step that fails changes nothing and has no action.

A block is a seat, an order or empty; the index of a block is its number, and
`NIL` is -1. The two booksides are not stored: the tree order is price, then
insertion, so an order remembers in `arrival` the sequence counter at its
insertion, and the best order of a side is computed from that. Sequence numbers
cannot play this role: an order that rests after its own matching has placed
reversals has an older number than they, but arrives later.

### The tree

`RedBlackTree` stands beside the market model and justifies how that one treats
booksides, seats and deposits. Its `tree` is root, cached maximum and the node in
each block, `used` the blocks the caller has inserted. `InsertLeaf` and
`RemoveByIndex` link or cut a node and leave in `repair` where insert_fix or
remove_fix must go on; each iteration of those loops is one of the actions
`InsertFix...`, `RemoveFix...`. A caller has to let a repair end before it starts
the next operation. The mirrored halves of the code are one action with a side as
parameter. `PriorityList`, the refined specification, is the order by price and
`arrival` of the market model, and `LookupExact` is its assumption about
`LookupResults`.

A tree may be turned into a list at any time its repair has ended, so
`ListTakesOver` asks this of every tree the run reaches.

### The wrappers

`call` (in `CoreCall`) holds the locals of the caller: its phase, the orders it has
still to prepare, those it has forwarded, the records the core returned, and what
a rollback restores. A batch of the wrapper goes

    WrapperBatchUpdate (sync, match the cancels)
      -> prepare: DropOrder | ForwardOrder ... ExecuteCpi | SkipCall
      -> cpi:     the steps of Manifest
      -> record:  ProcessResult (sync, drop and add entries), then prepare again
                  or the end
      -> rollback: RollBack, when the core failed

`prepare` ends early at a post-only order behind an order of another type, as in
`batch_upate.rs`, so one instruction may call the core several times with states in
between that no other instruction sees. The UI wrapper places or cancels one order
per instruction and calls once. `wrapper` and `ui` are the accounts: blocks, free list,
and the open orders as a sequence in the order of a walk. Between two
instructions of the wrapper the owner and others act on the core directly: fills,
expiries, cancels, cleans, deposits, withdrawals. `outside` is a history variable:
how orders of the owner were removed since the last full walk; `bill` collects
what the UI wrapper has charged. Volumes of the seats, which the core only counts,
are in `volume` of `UiWrapper`.

Every ClaimSeat adds a node to the tree of market infos. `wrapper.info` is the one that
lookups find, `twins` are the other ones of the same market. The third node changes places with
the first (`Overtaken`): the wrapper goes on with an empty one, and the entries it had are
kept in `lost`, with their blocks. Further ones change nothing, as long as there are no more
than seven (`MAX_INFOS`) and no other markets in the tree; with other markets another
insertion may be the one that rotates, and the first node can even come back, which is
not modelled.

`MCWrapper` starts from a funded market without a wrapper, and from a wrapper that an
older version has left, with its orders in a tree. `MCUiWrapper` starts without a seat,
and with a seat whose volume counter is one below its limit.

### Lists of accounts

In `Loaders` an instruction is a kind and a list of addresses. Derived addresses
are named for what they are derived from. `Instructions` are the lists that the
builders of the core and of the Rust clients produce for every subset of global
accounts asked for and of optional accounts left out; a step takes one of them, or
one with an account replaced, a signature missing, two accounts moved to another
mint together, or its end cut off, and stores what its loader makes of it.

### Abstractions

- Prices are naturals over a denominator `D18` (10^18 on chain, 2 for TLC, so
  that odd products round); `ATOM_LIMIT` and `PRICE_LIMIT` are the u64 and u128
  bounds; `SPREAD_BASE` and `SPREAD_MODULUS` the scaling and width of a reverse
  spread.
- In the market model the trees are the ordered sets they implement (`RedBlackTree`
  shows that they do). What their shape decides is left open: `lookup_index` finds
  an order at exactly the reversed price, and may or may not find one an increment
  away; the smallest deposit of a global account is any smallest one.
- Total withdrawable and total order-backing atoms per token are fields of the
  market, as in the build for the other prover; `TotalsAreSums` ties them to
  the blocks.
- Traded volumes are modelled where they are read, in the UI wrapper; logs and
  return data only as the records the wrappers read.
- Transfer fees are modelled for swaps, where the program computes with them
  (`TransferFees`); a deposit credits what arrives. A mint with a transfer hook
  (`HookMints`) cannot deliver global tokens, as in the code.
- Lamports are left out except gas prepayments, counted in units of one.
- Seat hints must match the signer and so name the same seat; block hints of
  cancels are modelled.
- One market. The other markets that share a global account act on it like
  withdrawals. `MAX_BLOCKS` stands for the maximal size of an account.
- The rollback of a failed instruction, the clock and the token program are the
  runtime's: `Abort`, `Commit`, `Step` and `AdvanceSlot` are external.

## What is checked

The runs of the programs have `CHECK_DEADLOCK FALSE`: the bounds on sequence numbers,
slots and amounts stop the arrival of instructions, and a program nobody calls
does nothing.

| run | question | bounds |
|---|---|---|
| `accounts` | types, blocks, seats, vaults, orders that can always be returned, termination | scenes `lifecycle`, `edges` |
| `trading` | totals, book, sequence numbers, seats, reversals, ownership, global backing and gas, swap limits, why orders leave the book; the client's quote, the second matching step, transfer fees | scenes `spot`, `reverse`, `swap`, `global` |
| `tree_order` | the tree is a balanced priority list with its maximum cached, repairs climb, it can become a list | 10 blocks, 2 keys |
| `tree_lookup` | a tree without a stored maximum: iteration, lookups under the tolerant equality | 5 blocks, 5 adjacent keys, 2 owners |
| `wrapper` | blocks, accepted cancels, post-only orders, funds, exactness of the view | 5 batches, 3 sequence numbers, slots 1-3, 7 core blocks, 3 seat claims, a repeated one only with two open orders or more (`ClaimsAgain`) |
| `ui_wrapper` | blocks, billing, funds, exactness of the view | 4 orders, 3 sequence numbers, a counter that wraps around at 100, fee 3/4, half of it to the platform |
| `loaders` | lists as built, and with one mistake | 2 wallets, 3 mints, both token programs, every set of global accounts |

A run of `MCManifest` explores several *scenes*. A scene is a start state, the batches
and swaps that may arrive, and bounds; the constants are the same in every scene
(two traders, `D18` = 2, one global seat per mint, so that every newcomer evicts; in `trading` the base mint has a
transfer hook, so that global asks cannot be delivered and global bids can).

| scene | contents | start | bounds |
|---|---|---|---|
| `lifecycle` | every instruction but swaps; expansion | the market that `CreateMarket` leaves | 1 atom of base each, 1 of quote, 2 sequence numbers |
| `edges` | amounts at `ATOM_LIMIT` 8, the supply of each token, no or all global accounts passed, a hook mint, cleaning, swaps past unbacked orders | a trader with global deposits, one without | 3 sequence numbers, slots 1-3 |
| `spot` | limit, post-only, immediate orders, expiry, a cancel with two orders | both funded, 3+3 atoms | 3 sequence numbers, slots 1-3 |
| `reverse` | reverse and tight reverse orders that come back fresh or coalesced | as `spot` | 4 sequence numbers |
| `swap` | four kinds of swap, with and without a seat, between limit, expiring and reverse orders | one seat, 4+4 atoms | 4 sequence numbers, 6 blocks, so that the market fills up and cannot grow |
| `global` | global orders with withdrawals, eviction, cleaning, gas, swaps | as `edges` | 3 sequence numbers, slots 1-3 |

The start states are composed of the operators of the instructions that lead to
them from `Init`, so that the bounds are spent on trading. Between them the scenes
have orders that are filled in part, filled whole, cleaned and cancelled; every
action and disjunct of `Next` fires in a passing run. Amounts up to 3 and a
denominator of 2 give every combination of exact and rounded full and partial
fills; two traders give self-trades, trades with others and contention for the one
global seat; a third trader adds only symmetric copies.

The runs of the tree use `MCRedBlackTree` and its `VIEW`: indices are only compared
for equality and any free block may be inserted, so trees of equal shape, colors
and values behave alike, and TLC keeps one of each. Ten nodes are the least with
which a missing black climbs more than one level and every case of both loops
occurs above the leaves; two keys give equal runs on either side of a boundary.
There the maximum repair of the tree is reached in every case but one that the
code cannot take: insert_fix under a red root, which `BalancedUpToRepair` excludes.

In `wrapper` and `ui_wrapper` one trader owns the account and both act on the core. Three
sequence numbers are enough for an order that is placed, partly filled, found gone
and replaced, and for a batch of two calls whose second depends on the first; with
a fourth number the properties of `ui_wrapper` were found to hold as well, in three
minutes. The five batches of `wrapper` contain equal client ids, a cancel by id and of
everything, a post-only order behind another order, a global order, and orders
longer than the funds.

The properties that carry most are

- `VaultBacksClaims`: per token, vault + virtual swap credit + undelivered
  global tokens = withdrawable + order backing, at every step.
- `ValueMovesByTradesOnly`: per trader and token, wallet + global deposit +
  seats + order backing changes in nothing but a fill; a fill moves tokens
  between traders and creates none. What matching does besides filling, cleaning expired
  and unbacked makers, must leave everybody with what they had.
- `OrdersLeaveForCause`: no order leaves the book but for a cancel that names it by number
  and block, a fill of all of it, its expiry, the loss of its backing or its own
  reversal; a stale block hint cannot take another order away.
- `SpareBlock`, `BlocksSound`: blocks never run out where nothing checks, never
  leak, and never give a trader a second seat (`OneSeatEach`).
- `SeatsKept`: nobody's instruction frees or moves a seat; the wrappers remember the
  index of their owner's, and orders name it.
- `NumbersGivenOnce`: what a client knows by number and index is that order or gone,
  over any stretch of time; the wrappers live on it.
- `ReversalAffordable`, `BookNotCrossed`, `OrdersReturnable`,
  `SequenceNumbersUnique`, `GasCoversOrders`, `GlobalVaultBacksDeposits`,
  `SwapHonoursLimits`.
- `InstructionTerminates`, under weak fairness of `Progress`. The runtime
  executes a started instruction to its end, so `WF_vars(Progress)` is what it
  guarantees; arrivals, and the clock, get no fairness.
- `SingleStepAgrees`: every iteration of the matching loop is a
  `place_single_order`, failures and the next order included.
- `QuoteKept`: a swap that asks for what the Jupiter client quotes does not fail. It
  holds when nothing alive on the side will expire (the client leaves such orders
  out on purpose), no owner has two global orders there, and no global order there is in a
  mint with a transfer hook or fee (`BookSteady`): see `shared_backing` below for
  the last two. In `trading` the base mint has a hook, so the last condition is not idle.
- `FeesLeaveVaultWhole`: with transfer fees, what arrives is what was consumed.
- For the tree: `ImplementsPriorityList`, `BalancedUpToRepair` (the loop invariants
  of both repairs), `MaximumExact`, `LookupExact`, and `RepairClimbs`, the bound
  on the repair loops.
- For the wrapper: `CancelsAccepted` and `PostOnlyNeverCrosses` (nothing it forwards is
  refused), `FundedUnlessGlobalCancelled`, `ViewExactWhenQuiet` (the walk is skipped only when
  it would find nothing, but for an order cancelled on the core or cleaned),
  `OrdersTracked`, `PlacementHeals`. The wrapper finds all that
  `OrdersTracked` is about until a third ClaimSeat puts entries out of reach (`LostEntries`),
  see below.
- For the UI wrapper: `VolumeBilledOnce`, volume traded since the seat was taken is unpaid
  or paid, never both and never neither, over a counter that wraps around, and
  the fees charged cover what counts as paid; `UiOrderFunded`; `UiViewExact`.
- For the loaders: `ListsAgree`: `BuiltListsLoad` and `LoadedAccountsBelongTogether`.

### Where code and comments differ

Five runs show a statement of the repository violated:

- `exact_quote_out` (`EstimateErrorFree`): the estimator is described as
  computing error-free sizes (`quantities.rs:902-904`), but with a limit rounded
  up to a whole bid its subtraction underflows and the swap fails.
- `shared_backing` (`ExactQuoteInStaysWithinLimit`): the estimator compares each
  global order with the undiminished deposit of its owner; two orders on one
  deposit make it oversize the swap, which then fails for lack of funds although
  the size was meant "to not cross quote limit" (`swap.rs:236`). Nor does it know that
  matching treats every global order of a mint with a transfer hook or fee as unbacked
  (`utils.rs:424-459`): with `HookMints <- BaseHook` the same scene fails the same way with one
  order. The quote of the Jupiter client counts as the estimator does.
- `slim_reader` (`SlimReaderAccepts`): the slim client orders equal prices by sequence
  number and refuses a market that is not in this order; the program orders them
  by insertion, and a taker that rests behind a reverse order it has filled has
  the smaller number.
- `validate_equal_keys` (`ValidationAccepts`): `validate_red_black_tree` demands that
  every node right of an ancestor is strictly greater, since equal keys are inserted
  on the left (`red_black_tree.rs:182`). Rotations move them to the right: three
  orders at one price suffice, and the clients that validate a market before they
  read it refuse it. The program does not call the validation.
- `global_cancel_funds` (`OrdersFunded`): the wrapper counts the notional of cancelled
  global orders as funds that the cancels free (`shared.rs:271`), the core frees none,
  and the order that was meant to use them fails the batch with its cancels.

More that need no run of their own:

- The wrapper's ClaimSeat reuses the seat of the core but inserts a market info whether or
  not there is one (`claim_seat.rs:87-115`). The third equal node makes `insert_fix` rotate
  the second, which is empty, to the root, where lookups find it
  (`red_black_tree.rs:1640-1645`, `shared.rs:519-537`): the open orders of the first are out of
  reach of cancels by client order id and of `cancel_all`, although only "orders placed
  directly through the core are not tracked here" (`shared.rs:314-316`). Run `wrapper` claims
  three times; without the exception for it (`EntriesOnAccount`), `OrdersTracked` is violated.
- `place_single_order` "must stay behaviourally identical" to the loop
  (`market_helpers.rs:249-251`), but debits the taker before it credits the maker
  (445-487), the loop the other way round (`market.rs:1332-1357`). They differ when a
  taker meets its own order: the debit may fail where the loop succeeds. `SingleStepAgrees`
  names this as its one exception.
- `sync_fast` describes the one way to leave an entry without its order on a market that
  looks quiet as a cancel sent straight to the core; `global_clean.rs` also removes
  expired local orders and leaves the sequence number alone. `ViewExactWhenQuiet`
  therefore excuses both; `CancelsAccepted` shows that neither makes a cancel fail.
- Prices one increment apart are equal for reverse orders so that they coalesce
  (`resting_order.rs:293`), but a lookup descends by exact price and can miss the
  equal order: `LookupExact` promises only the exact one and `LookupResults` leaves the
  other open.
- With exactly n free blocks `free_blocks_short_of_n` returns `Some(0)` where its
  doc says `None` (`FreeBlocksShortOfN` follows the code).
- A unit test of `global_clean.rs` speaks of historical global bids whose notional
  exceeds a u64 and that are "clean eligible"; the removal of such an order unwraps the
  same overflow (`market.rs:1874`). The program at this commit creates none, which
  `OrdersReturnable` shows.
- Fees of the UI wrapper round down and the volume they pay for is computed back, so
  settling twice may charge an atom more than settling once. `VolumeBilledOnce` shows
  that it never charges less than the volume that counts as paid is worth.

## What is proved

The theorems hold for all constants that satisfy the named assumptions of the
modules: a positive denominator, at least one block, a spread modulus no larger
than the spread bases, amounts and limits that are naturals, well-typed batches and
swaps, finitely many traders, and a supply of each mint - what the wallets hold at
first - that fits in the width of an amount (the token program keeps the supply in a
u64). Only `OrdersAlwaysReturnable` uses the last one. `FeesLeaveVaultExact` takes
fee schedules with a rate up to the whole amount and any cap; the theorems of the tree
take any finite set of blocks, `NIL` outside it, and any keys and owners.

| theorem | states | inductive invariant |
|---|---|---|
| `TypeCorrect` | `[]TypeOK` | `IInv` |
| `BlocksNeverLeak` | `[]BlocksSound` | `IInv` |
| `TotalsExact` | `[]TotalsAreSums` | `IInv` |
| `BlockAlwaysSpare` | `[]SpareBlock` | `IInv` |
| `Solvent` | `[]VaultBacksClaims` | `IInv` |
| `SequenceNumbersNameOneOrder` | `[]SequenceNumbersUnique` | `BookInv` |
| `BookNeverCrossed` | `[]BookNotCrossed` | `BookInv` |
| `GlobalVaultsExact` | `[]GlobalVaultBacksDeposits` | `DepositsInv` |
| `GasAlwaysCovers` | `[]GasCoversOrders` | `GasInv` |
| `SwapWithinLimits` | `SwapHonoursLimits` | `SwapInv` |
| `SupplyConserved` | `[]SupplyInv` | `SupplyInv` |
| `OrdersAlwaysReturnable` | `[]OrdersReturnable` | `SupplyInv`, `BidsInv`, `DepositsInv` |
| `ValueMovesOnlyInTrades` | `ValueMovesByTradesOnly` | `SupplyInv`, `DepositsInv` |
| `SeatsNeverLost` | `SeatsKept` | `SeatInv` |
| `ReversalAlwaysAffordable` | `[](ReversalFits => ReversalAffordable)` | `PaidInv` |
| `FeesLeaveVaultExact` | `FeesLeaveVaultWhole` | `SwapInv` |
| `TreeInductive` | `[]TreeInv` | `TreeInv` |
| `LinksAlwaysSound` | `[]LinksSound` | `TreeInv` |
| `OrderInductive` | `[]OrderInv` | `OrderInv` |
| `MaximumAlwaysExact` | `[]MaximumExact` | `OrderInv` |
| `TreeImplementsList` | `ImplementsPriorityList` | `OrderInv` |
| `IterationAlwaysComplete` | `[]IterationComplete` | `OrderInv` |
| `LookupAlwaysExact` | `[]LookupExact` | `OrderInv` |
| `BalanceInductive` | `[]BalanceInv` | `BalanceInv` |
| `TreeAlwaysBalanced` | `[]BalancedUpToRepair` | `BalanceInv` |
| `WrapperBlocksNeverLeak` | `[]WrapperBlocksSound` | `BlockInv` |
| `CoreSoundWhenCalled` | ten invariants of the core under `OpenSpec` | `OpenInv` |
| `NumbersNeverReused` | `NumbersGivenOnce` | `KeptInv`, `BookInv` |
| `CancelsAlwaysAccepted` | `[]CancelsAccepted` | `TracedInv` |

`Inductive == Spec => []IInv` comes first; the other invariants of the market are
inductive relative to it. `IInv` says that the committed accounts are sound (typed, free list
exact, owners seated, totals exact, seats unique, one block spare, vault equal to
claims) and, while an instruction runs, that its working copy is sound up to the
virtual credit and the undelivered tokens. What has to be added to the properties,
and why:

- `SwapSound`: while a swap runs, its seat never holds more of the input token
  than before plus the credit (`PaysOnlySound`: as taker it only pays that
  token). Without it the transfer of the consumed input could be less than what
  the settlement takes off the seat: the saturating subtraction of
  `calculate_consumed_input_transfer` hides the difference.
- `TempSound`: a temporary seat owns no resting order and no pending reversal, so
  releasing it leaves every order with an owner.
- `SpareSound`: how many blocks are free in each phase. A full fill returns a
  block before a reversal takes one; a partial fill takes the one that was kept
  for the taker's rest, but then nothing remains to rest.
- the owner of a pending reversal has a seat, and nothing is undelivered outside
  matching.
- `BookInv`: the number of the order being placed is reserved, older than the
  counter and on no order of the book, although reversals draw later numbers
  before it rests (`Reserved`); what a maker's reversal asks for, and what rests of
  the order itself, lies outside the opposite side (`Outside`). The first holds
  because the maker was the best of its side and comes back no nearer than the price
  it was hit at; the second because matching stops only when no order of the other
  side is as good as the limit.
- `DepositsInv`: between a fill and the delivery of the tokens, a global vault
  holds what its makers have sold, and nobody without a seat has a deposit.
- `GasInv`: gas is paid in for all global orders of a batch before the first is
  placed, and refunds are paid when it ends. In between the account holds a
  prepayment for every order that is `Ahead` and for every deferred refund.
- `SwapInv`: the seat of a swap holds at least its initial balance and what the
  swap has bought, so the settlement finds what it pays out.
- `SupplyInv`: wallets, market vault and global vault hold the supply of a mint.
  So any balance and any order, parts of what the vault holds, fit together.
- `BidsInv`: the notional of a global bid, which nobody has paid in, was checked
  when it was placed, and a fill only makes it smaller.

The induction has one lemma per action. Each first names the new market as a
value and cites a lemma about the operator that made it
(`UpdateBalance`, `RemoveOrder`, `InsertOrder`, `ClaimSeatOn`, `TradedSound`,
`ReversedSound`, ...): that it keeps `MarketSound`, which seats and orders it keeps
(`SameOrders`, `Removed`, `Resized`, `Inserted`), how many blocks it leaves free and
by how much it changes the claims per token. Those of a fill cancel out exactly:
bonus, payment and receipt against the change of the order's backing. The later
modules rely on these relations and not on the operators.

What a single trader owns - wallet, deposit, balance and the backing of its orders,
without the virtual credit of a swap - is the sum of a dozen changes that cancel out
differently in every step. `ValueMovesOnlyInTrades` avoids adding them up. Vault,
deposits and supply being exact, what all traders own together is the supply of the
mint (`AllOwned`). So a step that changes nothing for any trader but one changes nothing
for that one either (`StepKeeps`), and each step but a fill touches blocks, wallet and
deposit of a single trader (`OneActor`): the one who signs, or the owner of the order
that is returned or reversed. On a global account, evictions included, tokens go between
a trader's own wallet and deposit. Only a fill has two traders, and each of them is left
at least as rich in the token it buys (`TradeMoves`).

A reversal is paid with what its maker has just been paid (`PaidInv`), so all depends
on how amounts round: what the base atoms bought for a quote are worth, rounded up, is
never more than that quote (`RoundTrip`), and an order that is worth some quote is never
larger than what that quote buys (`RoundTripBack`). So a coalesced bid grows by no more
backing than was received and never shrinks (`CoalesceAffordable`), even at a price that
is not the reversal's own. `ReversalFits`, the hypothesis of the theorem, says that the
sizes and notionals a reversal computes fit in a u64; the code checks them and fails
otherwise, and with a price low enough a quote can buy more base than fits.
It holds in every state of `trading`. Seats stay (`SeatInv`) because an instruction works
on accounts that have all seats of the committed ones at the same indices, and a swap
took its temporary seat at an index where no seat was.

Fees: `PreFee`, rounding and cap included, is the least amount of which enough arrives
(`PreFeeLeast`), a Galois connection with `PostFee`. So the transfer that is computed
back from what was matched neither asks for more than was offered nor leaves the vault
short by the atom two roundings might cost, and an exact output arrives whole; the rest
is `SwapInv`.

The tree: `TreeInv` says that the links of the blocks in use form a tree (`IsTree`)
and that the place under repair, which may be the empty place under a parent that
`remove_fix` is handed explicitly, is where the code takes it to be (`RepairSound`).
`IsTree` is local but for one thing: links down and up belong together, one block at
most per place (`Joined`), and some number per block grows along every link up
(`Graded`), which excludes a circle apart from the root. A number is only ever
asked for, and each operation hands on another: a rotation doubles the numbers and
puts the block that rises just above the one that sinks, the others rise by one over a
new leaf, and the successor that takes the place of a removed node takes its number. Rotations,
written by the code as up to six
assignments, are first reduced to what they make of each link (`RotateLinks`,
`RotateDoubleLinks`), and the removal of an internal node, with its case for a successor
that is a kid, to cutting the successor and giving it another name (`LiftedTree`,
`RenamedTree`). That the walks of the code - to a free leaf, to the outermost node - end
within as many steps as there are blocks follows from how many blocks are below each
(`WeightsGraded`), which also makes the recursive `InOrder` list each of them once
(`InOrderLists`).

The order of the tree: a walk in order is a recursive definition, of which no step of
the program says anything, and rotations change the subtrees it is made of. `OrderInv`
avoids it. There is a list `s` of the blocks in use such that what hangs from a block on
either side fills consecutive places of `s` next to the block (`Spanned`: first and last
place per block, the root has all of them), the keys rise along `s` (`Sorted`), and the
stored maximum is its last block (`MaxExact`). As with the numbers of `Graded`, places
and spans are only asked for. A rotation leaves `s` as it is and gives the risen block
the span of the sunken one; a new leaf is put into `s` next to its parent, and all the
places and spans behind it move by one (`InsertAt`); a cut node is taken out of it
(`RemoveAt`), after its successor, which is next to it, has changed places with it
(`NextLowerPlace` and its mirror image: the outermost block of a subtree has the outermost
place of its span). That the descent of an insertion keeps the keys sorted is an
invariant of its steps - what is left of the span is behind all smaller keys and before
all others (`DescentPlace`) - and so it is the position `PriorityList` asks for. The
recursive definitions come last, each by an induction over its fuel: `InOrder` is `s`
(`OrderedWalk`), the iterator is `s` backwards (`IterationReverses`), and a search, which
goes to both sides where keys are the same, never leaves a span in which the value is
(`LookupFinds`).

The balance of the tree: its black heights are again a recursive definition, and while a
repair climbs, no subtree on the way up has the height it will have. `BalanceInv` asks for
a level `b[i]` of each block instead, 0 for no block, such that the level of a block is
that of either kid, plus one if the block itself is dark, plus one if a removal still owes
the place of that kid a dark block (`Levelled`, `Owed`). Nothing is owed but at the place under
repair in `remove_fix` (`Short`), and no red block has a red kid but the one that
`insert_fix` is about to look at (`Calm`, `Excused`), which is red all the time, as what
`remove_fix` looks at is dark all the time. Each case of the two repairs is then arithmetic on the levels
of at most three blocks: a rotation writes new ones for the blocks it turns and leaves all
others, which is why the cases that end the repair leave nothing owed above, and those that
go on move the debt one level up. The recursive definition comes last (`HeightsLevel`, by
induction over its fuel): what it returns of a subtree is the one height that its level
stands for.

The blocks of the wrapper: `OpenSpec`, of which the theorem speaks, starts before anything
exists and has, besides the steps of `Wrapper`, every other instruction of the core
between those of the wrapper; the runs of `Wrapper` start later and leave some out.
`BlockInv` says that free list, entries and market infos share the blocks of the account
without overlap (`BlocksPartitioned`), those of entries out of reach included, of which
there are none before there are two twins (`LostSound`: otherwise a third claim would
put some in their place); that the blocks an instruction has remembered for
release are those of different entries (`BlocksHeld`), and the same of the account that a
rollback restores. All lists are filtered lists (`Filter`): `Picks` says what is at which
place of one, and `Thinned`, `CutInTwo` that the blocks taken out and those that stay are the
blocks that were there. `EnsureFreeSlots` makes room for the orders of a batch, and what is
processed afterwards are at most as many (`RestedRecordsTyped`, `ChunksSuffice`).

The calls of the wrapper: all theorems about the core are about instructions that reach it
directly. A wrapper sends it other batches, several in one instruction, and takes them all
back if one fails. `CoreSoundWhenCalled` shows the same invariants under `OpenSpec`. A call
starts from committed accounts for which they hold (`CoreInv`), a rollback returns to ones
for which they held, and what is passed is typed (`CallInv`): hints, orders and records, a
signer with a seat, as many records to come as orders are left.

`NumbersNeverReused` relates states that many instructions lie between, though every step of it
relates two. While an instruction runs, the orders of its working copy that have a number from
before it are those of the committed market (`KeptInv`), at the same index and of the same
trader (`OlderKept`): each step removes or resizes orders, or adds one with a number that is
not older than `NextNumber`, the one reserved for the order in hand.

`CancelsAlwaysAccepted` rests on it. An entry of the wrapper names an order by number and index, and
what it names is gone or is an order of the owner (`SeqOwner`): the number had been given out when it
was recorded, so it is nobody else's later. `OwnInv` says so of the entries, of the account a
rollback restores and of the records of the call in progress, whose numbers are all different and
behind those of the entries (`Before`), so entries never name one order twice. The cancels are chosen
from entries whose order was just looked up by index and number, and from blocks of the book that no
entry names; `CancelsLive` says that each of those not yet executed names a live order of the owner and
no two the same, which a cancel keeps for the rest. That the order can be returned is
`SupplyInv` and `BidsInv` again.

Sums over traders and blocks are `SumFunctionOnSet` of the community modules.
`ManifestProofs` shows that the recursive function behind it has a value, that any
element can be taken out of a sum, that changing one changes it by as much and that
two sums can change places, from the well-foundedness of strict inclusion between
finite sets.

Only model-checked:

- `InstructionTerminates` (liveness under fairness).
- Of the tree: what the validation of clients makes of it, and the conversion to a list.
- Of the wrapper the funding of its orders, post-only orders and how exact its copy is, and
  all of the UI wrapper; the loaders, the quote and the
  second matching step.

## Not modelled

- Core: the volume counters outside the UI wrapper, lamports other than gas
  prepayments, transfer fees of deposits, the word-wise multiplication and division
  of `quantities.rs` (exact arithmetic stands for it) and its conversions from
  mantissa and exponent and from floating point, logs and serialization.
- Loaders: error codes, gas payer and receiver, writability of most accounts, lists
  with the wrong token program, the mint account of deposits and withdrawals, and
  the accounts of a second market.
- Wrapper: `Collect`, which moves lamports only.
- UI wrapper: transfer fees of its deposits, lamports, the ownership of the token
  accounts fees go to. `claim_seat.rs` is no module of the crate, and the dispatch
  answers `ClaimSeatUnused` and `EditOrder` with `unimplemented!`.
- `lib/src/llrb.rs` is compiled for tests only. The okx client estimates in floating
  point; the TypeScript client, the web front end and the scripts read accounts and
  print them. The Certora specifications are another verification of the code.

## Plan

1. Done: `Quantities`, `MarketState`, `GlobalState`, `Matching`, `Manifest` with
   their properties; those that hold are all proved but `InstructionTerminates`.
2. Done: `RedBlackTree` against `PriorityList`, its order and balance proved, lookups and
   validation, `LinkedList`.
3. Done: `SingleStep` (the second implementation of the matching iteration), `JupQuote`,
   `TransferFees`.
4. Done: `Wrapper` and `UiWrapper` on top of the core, `Loaders`.
5. Done: `WrapperBlocksSound`, `CancelsAccepted` and the core when called proved. To prove:
   `PlacementHeals`, `PostOnlyNeverCrosses`, `UiBlocksSound`.
6. Several markets on one global account; an abstract ledger - tokens owned per
   trader, moved by deposits, withdrawals and trades - that `Manifest` refines.
