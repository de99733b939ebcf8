------------------------------ MODULE Manifest ------------------------------
(***************************************************************************)
(* The Manifest program: one market, the global accounts of its two mints, *)
(* the vaults and the traders' wallets, and the instructions of            *)
(* programs/manifest/src/program/processor.                                *)
(*                                                                         *)
(* A Solana instruction runs to its end and is rolled back when it fails.  *)
(* "accounts" is the committed state of the chain; "work" is what the      *)
(* instruction in progress has made of it.  Instructions without a loop    *)
(* are one step; one that fails leaves no trace, so only their successes   *)
(* are steps.  BatchUpdate and Swap loop over cancels, orders and the      *)
(* book: they run step by step, one step per iteration, with the local     *)
(* variables in "ctx", and end in a commit or in Abort.                    *)
(*                                                                         *)
(* accounts = [m      |-> the market (MarketState),                        *)
(*             vault  |-> token -> atoms in the market vault,              *)
(*             wallet |-> trader -> token -> atoms,                        *)
(*             glob   |-> token -> its global account (GlobalState)]       *)
(*                                                                         *)
(* Instructions name a seat directly or by a hint that must match the      *)
(* signer, which comes to the same seat.                                   *)
(***************************************************************************)
EXTENDS Matching, GlobalState

CONSTANTS
    InitialWallet,   \* trader -> token -> atoms it owns at first
    Amounts,         \* amounts of deposits and withdrawals
    Batches,         \* batch updates a trader may send: how many cancels, which orders
    Swaps,           \* swaps a trader may send
    GlobalsPassed,   \* which global accounts a batch or swap may pass
    HookMints,       \* mints with a transfer hook, whose tokens no global maker delivers
    MAX_PRICE,       \* QuoteAtomsPerBaseAtom::MAX
    MaxSeq,          \* bound: no batch or swap starts at this sequence number
    MaxSlot,         \* bound: last slot
    MaxExpand        \* bound: largest argument of Expand

VARIABLES accounts, work, ctx, slot

vars == <<accounts, work, ctx, slot>>

MIN_PRICE == 1

OrderArgs ==
    [is_bid : BOOLEAN, base : Nat, price : Nat, type : OrderTypes, last_valid : Nat]

SwapArgs == [in : Nat, out : Nat, is_base_in : BOOLEAN, is_exact_in : BOOLEAN]

ASSUME ManifestAssumption ==
    /\ InitialWallet \in [Traders -> [Tokens -> Nat]]
    /\ Amounts \subseteq Nat
    /\ Batches \in [Traders -> SUBSET [cancels : Nat, orders : Seq(OrderArgs)]]
    /\ Swaps \in [Traders -> SUBSET SwapArgs]
    /\ GlobalsPassed \subseteq SUBSET Tokens
    /\ HookMints \subseteq Tokens
    /\ MAX_PRICE \in Nat
    /\ MaxSeq \in Nat /\ MaxSlot \in Nat /\ MaxExpand \in Nat

\* The tokens of a mint, wherever they are: the token program moves them between
\* accounts and keeps the supply of a mint in a u64.
Supply(token) == SumFunctionOnSet([t \in Traders |-> InitialWallet[t][token]], Traders)

ASSUME SupplyAssumption == \A token \in Tokens : FitsAtoms(Supply(token))

-----------------------------------------------------------------------------
(* The local variables of an instruction. *)

NoOrder == [is_bid |-> FALSE, base |-> 0, price |-> 0, type |-> "Limit", last_valid |-> 0]

NoSwap == [in |-> 0, out |-> 0, is_base_in |-> FALSE, is_exact_in |-> FALSE]

NoReversal ==
    [trader_index |-> 0, type |-> "Reverse", spread |-> 0, price |-> 0, base |-> 0,
     quote |-> 0, full |-> FALSE]

NoTokens == [token \in Tokens |-> 0]

Idle ==
    [phase     |-> "idle",      \* where the instruction is
     kind      |-> "batch",     \* batch or swap
     seat      |-> 0,           \* trader_index of the signer
     globals   |-> {},          \* global_trade_accounts_opts that are Some
     cancels   |-> <<>>,        \* cancels not yet done
     orders    |-> <<>>,        \* orders not yet placed
     args      |-> NoOrder,     \* the order being placed
     seq       |-> 0,           \* this_order_sequence_number
     remaining |-> 0,           \* remaining_base_atoms
     pending   |-> 0,           \* global_atoms_to_transfer
     refunds   |-> NoTokens,    \* num_deferred_gas_refunds
     traded    |-> NoTokens,    \* total_base/quote_atoms_traded
     reversal  |-> NoReversal,  \* the reverse order to place
     swap      |-> NoSwap,      \* SwapParams
     temp      |-> FALSE,       \* the swap's seat is temporary
     initial   |-> NoTokens,    \* initial_base/quote_atoms of a swap
     visited   |-> {},          \* orders impact_base_atoms has walked past
     total     |-> 0,           \* total_matched_base_atoms
     left      |-> 0]           \* remaining_quote_atoms

Init ==
    /\ accounts = [m |-> NewMarket, vault |-> NoTokens, wallet |-> InitialWallet,
                   glob |-> [token \in Tokens |-> NewGlobal]]
    /\ work = accounts
    /\ ctx = Idle
    /\ slot = 1

Commit(new_accounts) ==
    /\ accounts' = new_accounts
    /\ work' = new_accounts
    /\ ctx' = Idle
    /\ UNCHANGED slot

\* The instruction fails and the runtime discards what it did.
Abort ==
    /\ work' = accounts
    /\ ctx' = Idle
    /\ UNCHANGED <<accounts, slot>>

Step(new_work, new_ctx) ==
    /\ work' = new_work
    /\ ctx' = new_ctx
    /\ UNCHANGED <<accounts, slot>>

-----------------------------------------------------------------------------
(* Instructions of one step. *)

\* Mutant: a trader with a seat claims another one.
ClaimSeatAgain(trader) ==
    LET claimed == ClaimSeatOn(accounts.m, trader)
    IN  /\ ctx = Idle
        /\ HasFreeBlock(accounts.m)
        /\ CanExpandIfNeeded(claimed)
        /\ Commit([accounts EXCEPT !.m = ExpandIfNeeded(claimed)])

ClaimSeat(trader) ==
    LET claimed == ClaimSeatOn(accounts.m, trader)
    IN  /\ ctx = Idle
        /\ GetTraderIndex(accounts.m, trader) = NIL
        /\ HasFreeBlock(accounts.m)
        /\ CanExpandIfNeeded(claimed)
        /\ Commit([accounts EXCEPT !.m = ExpandIfNeeded(claimed)])

Deposit(trader, token, atoms) ==
    LET seat == GetTraderIndex(accounts.m, trader)
    IN  /\ ctx = Idle
        /\ seat # NIL
        /\ atoms <= accounts.wallet[trader][token]
        /\ CanUpdateBalance(accounts.m, seat, token, atoms)
        /\ Commit([accounts EXCEPT !.m = UpdateBalance(@, seat, token, atoms),
                                   !.vault[token] = @ + atoms,
                                   !.wallet[trader][token] = @ - atoms])

Withdraw(trader, token, atoms) ==
    LET seat == GetTraderIndex(accounts.m, trader)
    IN  /\ ctx = Idle
        /\ seat # NIL
        /\ atoms <= accounts.vault[token]
        /\ CanUpdateBalance(accounts.m, seat, token, - atoms)
        /\ Commit([accounts EXCEPT !.m = UpdateBalance(@, seat, token, - atoms),
                                   !.vault[token] = @ - atoms,
                                   !.wallet[trader][token] = @ + atoms])

\* Expand without an argument: keep two free blocks.
Expand ==
    /\ ctx = Idle
    /\ Len(accounts.m.free) < 2
    /\ accounts.m.num < MAX_BLOCKS
    /\ Commit([accounts EXCEPT !.m = ExpandBy(@, 1)])

\* Expand with the number of free blocks wanted.
ExpandTo(n) ==
    LET missing == FreeBlocksShortOfN(accounts.m, n)
    IN  /\ ctx = Idle
        /\ missing # NIL
        /\ accounts.m.num + missing <= MAX_BLOCKS
        /\ Commit([accounts EXCEPT !.m = ExpandBy(@, missing)])

GlobalAddTrader(trader, token) ==
    LET g == accounts.glob[token]
    IN  /\ ctx = Idle
        /\ ~ HasGlobalSeat(g, trader)
        /\ ~ NeedsEviction(g)
        /\ Commit([accounts EXCEPT !.glob[token] = AddTrader(@, trader)])

GlobalDeposit(trader, token, atoms) ==
    LET deposited == UpdateDeposit(accounts.glob[token], trader, atoms)
    IN  /\ ctx = Idle
        /\ atoms <= accounts.wallet[trader][token]
        /\ CanUpdateDeposit(accounts.glob[token], trader, atoms)
        /\ Commit([accounts EXCEPT
                     !.glob[token] = [deposited EXCEPT !.vault = @ + atoms],
                     !.wallet[trader][token] = @ - atoms])

GlobalWithdraw(trader, token, atoms) ==
    LET withdrawn == UpdateDeposit(accounts.glob[token], trader, - atoms)
    IN  /\ ctx = Idle
        /\ CanUpdateDeposit(accounts.glob[token], trader, - atoms)
        /\ atoms <= accounts.glob[token].vault
        /\ Commit([accounts EXCEPT
                     !.glob[token] = [withdrawn EXCEPT !.vault = @ - atoms],
                     !.wallet[trader][token] = @ + atoms])

\* Pay the evictee out, take its seat, deposit more than it had.
GlobalEvict(trader, evictee, token, atoms) ==
    LET g       == accounts.glob[token]
        balance == g.dep[evictee]
        emptied == [UpdateDeposit(g, evictee, - balance) EXCEPT !.vault = @ - balance]
        seated  == EvictAndTakeSeat(emptied, evictee, trader)
        paid    == [accounts.wallet EXCEPT ![evictee][token] = @ + balance]
    IN  /\ ctx = Idle
        /\ NeedsEviction(g)
        /\ IsMinBalance(g, evictee)
        /\ balance <= g.vault
        /\ trader \notin g.seats \ {evictee}
        /\ atoms <= paid[trader][token]
        /\ balance < atoms
        /\ CanUpdateDeposit(seated, trader, atoms)
        /\ Commit([accounts EXCEPT
                     !.glob[token] = [UpdateDeposit(seated, trader, atoms)
                                        EXCEPT !.vault = @ + atoms],
                     !.wallet = [paid EXCEPT ![trader][token] = @ - atoms]])

\* Expired, or global and more than its owner's deposit can back.
CleanEligible(i) ==
    LET order    == accounts.m.data[i]
        token    == Backing(order.is_bid)
        maker    == accounts.m.data[order.trader_index].trader
        required == NotionalAtoms(order.is_bid, order.price, order.base)
    IN  \/ IsExpired(order, slot)
        \/ /\ order.type = "Global"
           /\ ~ FitsAtoms(required) \/ ~ CanBackOrder(accounts.glob[token], maker, required)

\* Anyone may remove such an order, and collects the gas prepayment of a global
\* one.
GlobalClean(i) ==
    LET order == accounts.m.data[i]
        token == Backing(order.is_bid)
    IN  /\ ctx = Idle
        /\ i \in OrderIndices(accounts.m)
        /\ CleanEligible(i)
        /\ CanCancelOrder(accounts.m, i)
        /\ Commit([accounts EXCEPT
                     !.m = ReturnOrder(@, i),
                     !.glob[token].gas = IF order.type = "Global" THEN @ - 1 ELSE @])

AdvanceSlot ==
    /\ ctx = Idle
    /\ slot < MaxSlot
    /\ slot' = slot + 1
    /\ UNCHANGED <<accounts, work, ctx>>

-----------------------------------------------------------------------------
(* BatchUpdate: cancels, gas prepayments, then the orders. *)

CancelParams(m) == [seq : 0 .. (m.seq - 1), hint : {NIL} \cup 0 .. (m.num - 1)]

BatchUpdate(trader, batch, globals, cancels) ==
    LET seat == GetTraderIndex(accounts.m, trader)
    IN  /\ ctx = Idle
        /\ seat # NIL
        /\ accounts.m.seq < MaxSeq
        /\ Step(work, [Idle EXCEPT !.phase = "cancel", !.seat = seat, !.globals = globals,
                                   !.cancels = cancels, !.orders = batch.orders])

\* Mutant: the type of the order is not looked at.
DeferredRefundsOfAny(order) == [ctx.refunds EXCEPT ![Backing(order.is_bid)] = @ + 1]

\* remove_from_global counts a refund when the instruction can pay it out: the
\* loader of a swap passes no system program.
DeferredRefunds(order) ==
    IF order.type = "Global" /\ Backing(order.is_bid) \in ctx.globals /\ ctx.kind = "batch"
    THEN [ctx.refunds EXCEPT ![Backing(order.is_bid)] = @ + 1]
    ELSE ctx.refunds

\* Mutant: whatever order of the signer's is at the hinted index.
IsCancelTargetByHint(i, cancel) ==
    /\ i \in OrderIndices(work.m)
    /\ work.m.data[i].trader_index = ctx.seat
    /\ IF cancel.hint = NIL THEN work.m.data[i].seq = cancel.seq ELSE i = cancel.hint

\* The order a cancel names: found by a scan for its sequence number, or at the
\* hinted index if the sequence number matches; in both cases the signer's.
IsCancelTarget(i, cancel) ==
    /\ i \in OrderIndices(work.m)
    /\ work.m.data[i].seq = cancel.seq
    /\ work.m.data[i].trader_index = ctx.seat
    /\ IF cancel.hint = NIL
       THEN \A j \in OrderIndices(work.m) : work.m.data[j].seq = cancel.seq => j = i
       ELSE i = cancel.hint

CancelOrder ==
    /\ ctx.phase = "cancel"
    /\ ctx.cancels # <<>>
    /\ \E i \in Index :
        /\ IsCancelTarget(i, Head(ctx.cancels))
        /\ CanCancelOrder(work.m, i)
        /\ Step([work EXCEPT !.m = ReturnOrder(@, i)],
                [ctx EXCEPT !.cancels = Tail(@), !.refunds = DeferredRefunds(work.m.data[i])])

CancelFails ==
    /\ ctx.phase = "cancel"
    /\ ctx.cancels # <<>>
    /\ \A i \in Index :
        ~ (IsCancelTarget(i, Head(ctx.cancels)) /\ CanCancelOrder(work.m, i))
    /\ Abort

\* try_to_pay_all_global_gas_prepayment: one deposit per global order.
GasPrepayments(token) ==
    Cardinality({k \in 1 .. Len(ctx.orders) :
                    ctx.orders[k].type = "Global" /\ Backing(ctx.orders[k].is_bid) = token})

CanPrepayGas == \A token \in Tokens : GasPrepayments(token) > 0 => token \in ctx.globals

PrepayGas ==
    /\ ctx.phase = "cancel"
    /\ ctx.cancels = <<>>
    /\ CanPrepayGas
    /\ Step([work EXCEPT !.glob = [token \in Tokens |->
                [work.glob[token] EXCEPT !.gas = @ + GasPrepayments(token)]]],
            [ctx EXCEPT !.phase = "next"])

PrepayGasFails ==
    /\ ctx.phase = "cancel"
    /\ ctx.cancels = <<>>
    /\ ~ CanPrepayGas
    /\ Abort

\* settle_global_gas_refunds, and the instruction ends.
FinishBatch ==
    /\ ctx.phase = "next"
    /\ ctx.kind = "batch"
    /\ ctx.orders = <<>>
    /\ Commit([work EXCEPT !.glob = [token \in Tokens |->
                [work.glob[token] EXCEPT !.gas = @ - ctx.refunds[token]]]])

-----------------------------------------------------------------------------
(* place_order, one iteration of its loop per step. *)

CanBegin(args) ==
    IsReversible(args.type) \/ NotAlreadyExpired(args.last_valid, slot)

\* Mutant: the sequence number is not claimed.
BeginOrderUnnumbered ==
    LET args == Head(ctx.orders)
    IN  /\ ctx.phase = "next"
        /\ ctx.orders # <<>>
        /\ CanBegin(args)
        /\ Step(work,
                [ctx EXCEPT !.phase = "match", !.orders = Tail(@), !.args = args,
                            !.seq = work.m.seq, !.remaining = args.base, !.pending = 0,
                            !.traded = NoTokens])

\* The sequence number is claimed before matching.
BeginOrder ==
    LET args == Head(ctx.orders)
    IN  /\ ctx.phase = "next"
        /\ ctx.orders # <<>>
        /\ CanBegin(args)
        /\ Step([work EXCEPT !.m.seq = @ + 1],
                [ctx EXCEPT !.phase = "match", !.orders = Tail(@), !.args = args,
                            !.seq = work.m.seq, !.remaining = args.base, !.pending = 0,
                            !.traded = NoTokens])

BeginOrderFails ==
    /\ ctx.phase = "next"
    /\ ctx.orders # <<>>
    /\ ~ CanBegin(Head(ctx.orders))
    /\ Abort

\* The maker the loop looks at, while something remains to be matched.
IsMaker(i) ==
    /\ ctx.phase = "match"
    /\ ctx.remaining > 0
    /\ i \in BestAmong(work.m, BookSide(work.m, ~ ctx.args.is_bid))

\* Its order is alive and within the limit of the taker.
IsMatch(i) ==
    /\ ~ IsStale(work.m.data[i], slot)
    /\ Crosses(work.m.data[i], ctx.args.is_bid, ctx.args.price)

Trade(i) == TradeWith(work.m.data[i], ctx.args.is_bid, ctx.remaining)

\* The token a global maker must supply, and whether it can: no deposit, too
\* small a deposit and a transfer hook (or fee) on the mint all count as unbacked.
MakerToken == Backing(~ ctx.args.is_bid)

IsBacked(i) ==
    LET maker == work.m.data[work.m.data[i].trader_index].trader
        g     == work.glob[MakerToken]
    IN  /\ HasGlobalSeat(g, maker)
        /\ CanBackOrder(g, maker, Trade(i).got)
        /\ MakerToken \notin HookMints

IsGlobalMaker(i) == work.m.data[i].type = "Global"

MissingGlobal(i) == IsGlobalMaker(i) /\ MakerToken \notin ctx.globals

\* Mutant: what backed the maker's order goes to the taker.
CleanMakerForTaker(i) ==
    LET takers == [work.m EXCEPT !.data[i].trader_index = ctx.seat]
    IN  /\ CanReturnOrder(takers, i)
        /\ Step([work EXCEPT !.m = ReturnOrder(takers, i)],
                [ctx EXCEPT !.refunds = DeferredRefunds(work.m.data[i])])

CleanMaker(i) ==
    /\ CanReturnOrder(work.m, i)
    /\ Step([work EXCEPT !.m = ReturnOrder(@, i)],
            [ctx EXCEPT !.refunds = DeferredRefunds(work.m.data[i])])

\* An expired (or empty) order at the top of the book is removed.
CleanStaleMaker ==
    \E i \in Index : IsMaker(i) /\ IsStale(work.m.data[i], slot) /\ CleanMaker(i)

\* So is a global order whose owner cannot supply the tokens.
CleanUnbackedMaker ==
    \E i \in Index :
        /\ IsMaker(i) /\ IsMatch(i)
        /\ CanTake(ctx.args.type)
        /\ IsGlobalMaker(i) /\ ~ MissingGlobal(i)
        /\ FitsAtoms(Trade(i).quote)
        /\ ~ IsBacked(i)
        /\ CleanMaker(i)

CanFill(i) ==
    /\ CanTake(ctx.args.type)
    /\ ~ MissingGlobal(i)
    /\ IsGlobalMaker(i) => IsBacked(i)
    /\ CanTrade(work.m, ctx.seat, work.m.data[i], ctx.args.is_bid, Trade(i))
    /\ FitsAtoms(ctx.traded["base"] + Trade(i).base)
    /\ FitsAtoms(ctx.traded["quote"] + Trade(i).quote)

Fill ==
    \E i \in Index :
        LET order == work.m.data[i]
            trade == Trade(i)
            maker == work.m.data[order.trader_index].trader
            reverses == IsReversible(order.type) /\ HasReversePrice(order)
        IN  /\ IsMaker(i) /\ IsMatch(i) /\ CanFill(i)
            /\ Step([work EXCEPT
                        !.m = Traded(@, ctx.seat, i, ctx.args.is_bid, trade),
                        !.glob[MakerToken] = IF IsGlobalMaker(i)
                                             THEN UpdateDeposit(@, maker, - trade.got)
                                             ELSE @],
                    [ctx EXCEPT
                        !.phase = IF reverses THEN "reverse" ELSE @,
                        !.remaining = IF trade.full THEN @ - trade.base ELSE 0,
                        !.pending = IF IsGlobalMaker(i) THEN @ + trade.got ELSE @,
                        !.refunds = IF trade.full THEN DeferredRefunds(order) ELSE @,
                        !.traded = [base |-> @["base"] + trade.base,
                                    quote |-> @["quote"] + trade.quote],
                        !.reversal = IF ~ reverses THEN @ ELSE
                                     [trader_index |-> order.trader_index,
                                      type |-> order.type, spread |-> order.spread,
                                      price |-> ReversePrice(order), base |-> trade.base,
                                      quote |-> trade.quote, full |-> trade.full]])

\* A post-only order crosses, a needed global account is missing for an order
\* that would rest, the taker cannot pay, or an amount overflows.
FillFails ==
    /\ \E i \in Index :
        /\ IsMaker(i)
        /\ \/ IsStale(work.m.data[i], slot) /\ ~ CanReturnOrder(work.m, i)
           \/ /\ IsMatch(i)
              /\ \/ ~ CanTake(ctx.args.type)
                 \/ MissingGlobal(i) /\ CanRest(ctx.args.type)
                 \/ ~ FitsAtoms(Trade(i).quote)
                 \/ /\ ~ MissingGlobal(i)
                    /\ IF IsGlobalMaker(i) /\ ~ IsBacked(i)
                       THEN ~ CanReturnOrder(work.m, i)
                       ELSE ~ CanFill(i)
    /\ Abort

\* A filled reverse order comes back on the other side: coalesced into an order
\* of its owner if the lookup finds one, else in a block of its own.
ReverseTargets ==
    LookupResults(work.m, ctx.args.is_bid, ctx.reversal.trader_index,
                  ctx.reversal.type, ctx.reversal.price)

PlaceReverse ==
    /\ ctx.phase = "reverse"
    /\ \E i \in ReverseTargets :
        /\ CanReverse(work.m, i, ctx.reversal, ctx.args.is_bid)
        /\ Step([work EXCEPT !.m = Reversed(@, i, ctx.reversal, ctx.args.is_bid)],
                [ctx EXCEPT !.phase = "match", !.reversal = NoReversal])

PlaceReverseFails ==
    /\ ctx.phase = "reverse"
    /\ \E i \in ReverseTargets : ~ CanReverse(work.m, i, ctx.reversal, ctx.args.is_bid)
    /\ Abort

\* The loop ends: nothing remains, no maker, none within the limit, or an order
\* that cannot rest stops at a global maker whose account was not passed.
StopMatching ==
    /\ ctx.phase = "match"
    /\ \/ ctx.remaining = 0
       \/ BookSide(work.m, ~ ctx.args.is_bid) = {}
       \/ \E i \in Index :
            /\ IsMaker(i)
            /\ ~ IsStale(work.m.data[i], slot)
            /\ \/ ~ Crosses(work.m.data[i], ctx.args.is_bid, ctx.args.price)
               \/ /\ CanTake(ctx.args.type) /\ ~ CanRest(ctx.args.type)
                  /\ FitsAtoms(Trade(i).quote) /\ MissingGlobal(i)
    /\ Step(work, [ctx EXCEPT !.phase = "settle"])

-----------------------------------------------------------------------------
(* The end of place_order: tokens of global makers, and the resting order. *)

Rests == CanRest(ctx.args.type) /\ ctx.remaining > 0 /\ ctx.args.price > 0

\* Mutant: the order takes the next number, not the one it was given.
RestingOrderNext(m) ==
    [kind |-> "order", trader_index |-> ctx.seat, base |-> ctx.remaining,
     price |-> ctx.args.price, seq |-> m.seq,
     last_valid |-> IF IsReversible(ctx.args.type) THEN NO_EXPIRATION ELSE ctx.args.last_valid,
     is_bid |-> ctx.args.is_bid, type |-> ctx.args.type,
     spread |-> IF IsReversible(ctx.args.type) THEN ctx.args.last_valid % SPREAD_MODULUS ELSE 0,
     arrival |-> m.seq]

RestingOrder(m) ==
    [kind |-> "order", trader_index |-> ctx.seat, base |-> ctx.remaining,
     price |-> ctx.args.price, seq |-> ctx.seq,
     last_valid |-> IF IsReversible(ctx.args.type) THEN NO_EXPIRATION ELSE ctx.args.last_valid,
     is_bid |-> ctx.args.is_bid, type |-> ctx.args.type,
     spread |-> IF IsReversible(ctx.args.type) THEN ctx.args.last_valid % SPREAD_MODULUS ELSE 0,
     arrival |-> m.seq]

RestNotional == NotionalAtoms(ctx.args.is_bid, ctx.args.price, ctx.remaining)

\* Mutant: the notional is not checked.
CanRestOnUnchecked(m) ==
    LET token == Backing(ctx.args.is_bid)
    IN  /\ HasFreeBlock(m)
        /\ IF ctx.args.type = "Global"
           THEN token \in ctx.globals /\ HasGlobalSeat(work.glob[token], m.data[ctx.seat].trader)
           ELSE CanUpdateBalance(m, ctx.seat, token, - RestNotional)

\* A global order needs its owner's seat on the global account, another one the
\* funds on the market.
CanRestOn(m) ==
    LET token == Backing(ctx.args.is_bid)
    IN  /\ HasFreeBlock(m)
        /\ FitsAtoms(RestNotional)
        /\ IF ctx.args.type = "Global"
           THEN token \in ctx.globals /\ HasGlobalSeat(work.glob[token], m.data[ctx.seat].trader)
           ELSE CanUpdateBalance(m, ctx.seat, token, - RestNotional)

Rested(m) ==
    IF ctx.args.type = "Global"
    THEN InsertOrder(m, RestingOrder(m))
    ELSE InsertOrder(UpdateBalance(m, ctx.seat, Backing(ctx.args.is_bid), - RestNotional),
                     RestingOrder(m))

AfterRest == IF Rests THEN Rested(work.m) ELSE work.m

CanFinishOrder ==
    /\ ctx.pending <= work.glob[MakerToken].vault
    /\ Rests => CanRestOn(work.m)
    /\ ctx.kind = "batch" => CanExpandIfNeeded(AfterRest)

\* Mutant: the market is not expanded.
FinishOrderUnexpanded ==
    /\ ctx.phase = "settle"
    /\ CanFinishOrder
    /\ Step([work EXCEPT !.vault[MakerToken] = @ + ctx.pending,
                         !.glob[MakerToken].vault = @ - ctx.pending,
                         !.m = AfterRest],
            [ctx EXCEPT !.phase = "next", !.pending = 0, !.remaining = 0, !.seq = 0])

\* A batch leaves a free block for the next order.
FinishOrder ==
    /\ ctx.phase = "settle"
    /\ CanFinishOrder
    /\ Step([work EXCEPT !.vault[MakerToken] = @ + ctx.pending,
                         !.glob[MakerToken].vault = @ - ctx.pending,
                         !.m = IF ctx.kind = "batch" THEN ExpandIfNeeded(AfterRest)
                                                     ELSE AfterRest],
            [ctx EXCEPT !.phase = "next", !.pending = 0, !.remaining = 0, !.seq = 0])

FinishOrderFails ==
    /\ ctx.phase = "settle"
    /\ ~ CanFinishOrder
    /\ Abort

-----------------------------------------------------------------------------
(* Swap: a market order of a trader who may have no seat, paid from and to *)
(* its wallet.                                                             *)

InToken(swap) == Backing(~ swap.is_base_in)

OutToken(swap) == Backing(swap.is_base_in)

SwapOrder(swap, base_atoms) ==
    [is_bid |-> ~ swap.is_base_in, base |-> base_atoms,
     price |-> IF swap.is_base_in THEN MIN_PRICE ELSE MAX_PRICE,
     type |-> "ImmediateOrCancel", last_valid |-> NO_EXPIRATION]

\* The amount that fixes the size of the order, the input of an exact-in swap
\* or the output of an exact-out one, is an amount of quote.
IsQuoteSized(swap) == swap.is_base_in # swap.is_exact_in

SizingAtoms(swap) == IF swap.is_exact_in THEN swap.in ELSE swap.out

\* Take a seat if there is none, keep a free block, and credit the whole input
\* before any token has moved.
Swap(trader, swap, globals) ==
    LET existing == GetTraderIndex(accounts.m, trader)
        seated   == IF existing = NIL THEN ClaimSeatOn(accounts.m, trader) ELSE accounts.m
        m        == ExpandIfNeeded(seated)
        seat     == GetTraderIndex(m, trader)
        begun    == [Idle EXCEPT !.kind = "swap", !.seat = seat, !.globals = globals,
                                 !.swap = swap, !.temp = (existing = NIL),
                                 !.initial = m.data[seat].bal]
    IN  /\ ctx = Idle
        /\ accounts.m.seq < MaxSeq
        /\ existing = NIL => HasFreeBlock(accounts.m)
        /\ CanExpandIfNeeded(seated)
        /\ swap.is_exact_in => swap.in <= accounts.wallet[trader][InToken(swap)]
        /\ CanUpdateBalance(m, seat, InToken(swap), swap.in)
        /\ Step([work EXCEPT !.m = UpdateBalance(m, seat, InToken(swap), swap.in)],
                IF IsQuoteSized(swap)
                THEN [begun EXCEPT !.phase = "impact", !.left = SizingAtoms(swap)]
                ELSE [begun EXCEPT !.phase = "next",
                                   !.orders = <<SwapOrder(swap, SizingAtoms(swap))>>])

\* impact_base_atoms walks the book without changing it.
TakerIsBid == ~ ctx.swap.is_base_in

Walked(i) ==
    /\ ctx.phase = "impact"
    /\ i \in BestAmong(work.m, BookSide(work.m, ~ TakerIsBid) \ ctx.visited)

BaseLimit(i) == BaseForQuote(work.m.data[i].price, ctx.left, ~ TakerIsBid)

Estimate(i) ==
    LET order == work.m.data[i]
        full  == BaseLimit(i) >= order.base
        base  == IF full THEN order.base ELSE BaseLimit(i)
        quote == QuoteForBase(order.price, base, TakerIsBid # full)
    IN  [full |-> full, base |-> base, quote |-> quote,
         got |-> IF TakerIsBid THEN base ELSE quote]

EstimateFits(i) == FitsAtoms(BaseLimit(i)) /\ FitsAtoms(Estimate(i).quote)

EstimateMissingGlobal(i) ==
    work.m.data[i].type = "Global" /\ Backing(~ TakerIsBid) \notin ctx.globals

EstimateUnbacked(i) ==
    LET order == work.m.data[i]
    IN  order.type = "Global" /\
        ~ CanBackOrder(work.glob[Backing(~ TakerIsBid)],
                       work.m.data[order.trader_index].trader, Estimate(i).got)

\* The walk is over: the swap places an order of the estimated size.
EstimateDone(total) ==
    [ctx EXCEPT !.phase = "next", !.visited = {}, !.total = 0, !.left = 0,
                !.orders = <<SwapOrder(ctx.swap, total)>>]

\* Mutant: the walk does not advance.
WalkPastNothing ==
    \E i \in Index :
        /\ Walked(i)
        /\ IsExpired(work.m.data[i], slot) \/ EstimateUnbacked(i)
        /\ Step(work, ctx)

WalkPast ==
    \E i \in Index :
        /\ Walked(i)
        /\ \/ IsExpired(work.m.data[i], slot)
           \/ EstimateFits(i) /\ ~ EstimateMissingGlobal(i) /\ EstimateUnbacked(i)
        /\ Step(work, [ctx EXCEPT !.visited = @ \cup {i}])

\* The maker counts.
Counts(i) ==
    /\ Walked(i)
    /\ ~ IsExpired(work.m.data[i], slot)
    /\ EstimateFits(i)
    /\ ~ EstimateMissingGlobal(i)
    /\ ~ EstimateUnbacked(i)

CanCount(i) ==
    /\ FitsAtoms(ctx.total + Estimate(i).base)
    /\ Estimate(i).full => Estimate(i).quote <= ctx.left

CountMaker ==
    \E i \in Index :
        LET estimate == Estimate(i)
            total    == ctx.total + estimate.base
        IN  /\ Counts(i)
            /\ CanCount(i)
            /\ Step(work, IF ~ estimate.full \/ estimate.quote = ctx.left
                          THEN EstimateDone(total)
                          ELSE [ctx EXCEPT !.visited = @ \cup {i}, !.total = total,
                                           !.left = @ - estimate.quote])

EstimateFails ==
    /\ \E i \in Index :
        \/ Walked(i) /\ ~ IsExpired(work.m.data[i], slot) /\ ~ EstimateFits(i)
        \/ Counts(i) /\ ~ CanCount(i)
    /\ Abort

\* No order is left, or the next one is global and its account was not passed.
StopWalking ==
    /\ ctx.phase = "impact"
    /\ \A i \in Index : Walked(i) =>
        ~ IsExpired(work.m.data[i], slot) /\ EstimateFits(i) /\ EstimateMissingGlobal(i)
    /\ Step(work, EstimateDone(ctx.total))

\* What the swap leaves on the seat beyond what was there before.
Extra(token) == work.m.data[ctx.seat].bal[token] - ctx.initial[token]

\* calculate_consumed_input_transfer, a saturating subtraction.
Consumed ==
    LET unused == Extra(InToken(ctx.swap))
    IN  IF unused >= ctx.swap.in THEN 0 ELSE ctx.swap.in - unused

\* Mutant: an exact-in swap accepts any output.
WithinLimitOut == ctx.swap.is_exact_in \/ ctx.swap.in >= ctx.traded[InToken(ctx.swap)]

WithinLimit ==
    IF ctx.swap.is_exact_in
    THEN ctx.swap.out <= ctx.traded[OutToken(ctx.swap)]
    ELSE ctx.swap.in >= ctx.traded[InToken(ctx.swap)]

\* Mutant: a swap gives the seat back whether it took it or not.
SeatGivenBack == ReleaseSeat(work.m, ctx.seat)

SeatSettled ==
    IF ctx.temp
    THEN ReleaseSeat(work.m, ctx.seat)
    ELSE UpdateBalance(UpdateBalance(work.m, ctx.seat, "base", - Extra("base")),
                       ctx.seat, "quote", - Extra("quote"))

SwapOrderDone == ctx.phase = "next" /\ ctx.kind = "swap" /\ ctx.orders = <<>>

Swapper == work.m.data[ctx.seat].trader

CanFinishSwap ==
    /\ WithinLimit
    /\ \A token \in Tokens : Extra(token) >= 0
    /\ Consumed <= work.wallet[Swapper][InToken(ctx.swap)]
    /\ Extra(OutToken(ctx.swap)) <= work.vault[OutToken(ctx.swap)]
    /\ HasFreeBlock(SeatSettled)

FinishSwap ==
    LET in     == InToken(ctx.swap)
        out    == OutToken(ctx.swap)
        vault  == [work.vault EXCEPT ![in] = @ + Consumed, ![out] = @ - Extra(out)]
        wallet == [work.wallet EXCEPT ![Swapper][in] = @ - Consumed,
                                      ![Swapper][out] = @ + Extra(out)]
    IN  /\ SwapOrderDone
        /\ CanFinishSwap
        /\ Commit([work EXCEPT !.m = SeatSettled, !.vault = vault, !.wallet = wallet])

FinishSwapFails == SwapOrderDone /\ ~ CanFinishSwap /\ Abort

-----------------------------------------------------------------------------

\* An instruction arrives: one that manages seats, funds and blocks of the
\* market, one on a global account, or one that trades.
MarketArrival ==
    \/ \E trader \in Traders : ClaimSeat(trader)
    \/ \E trader \in Traders, token \in Tokens, atoms \in Amounts :
        Deposit(trader, token, atoms) \/ Withdraw(trader, token, atoms)
    \/ Expand
    \/ \E n \in 0 .. MaxExpand : ExpandTo(n)

GlobalArrival ==
    \/ \E trader \in Traders, token \in Tokens : GlobalAddTrader(trader, token)
    \/ \E trader \in Traders, token \in Tokens, atoms \in Amounts :
        \/ GlobalDeposit(trader, token, atoms)
        \/ GlobalWithdraw(trader, token, atoms)
        \/ \E evictee \in Traders : GlobalEvict(trader, evictee, token, atoms)
    \/ \E i \in Index : GlobalClean(i)

TradeArrival ==
    \E trader \in Traders, globals \in GlobalsPassed :
        \/ \E batch \in Batches[trader] :
            \E cancels \in [1 .. batch.cancels -> CancelParams(accounts.m)] :
                BatchUpdate(trader, batch, globals, cancels)
        \/ \E swap \in Swaps[trader] : Swap(trader, swap, globals)

\* The instruction in progress goes on.
Progress ==
    \/ CancelOrder \/ CancelFails \/ PrepayGas \/ PrepayGasFails \/ FinishBatch
    \/ BeginOrder \/ BeginOrderFails
    \/ CleanStaleMaker \/ CleanUnbackedMaker \/ Fill \/ FillFails
    \/ PlaceReverse \/ PlaceReverseFails \/ StopMatching
    \/ FinishOrder \/ FinishOrderFails
    \/ WalkPast \/ CountMaker \/ EstimateFails \/ StopWalking
    \/ FinishSwap \/ FinishSwapFails

Next == MarketArrival \/ GlobalArrival \/ TradeArrival \/ AdvanceSlot \/ Progress

Spec == Init /\ [][Next]_vars

\* The runtime runs an instruction to its end; nobody has to send one.
FairSpec == Spec /\ WF_vars(Progress)

=============================================================================
