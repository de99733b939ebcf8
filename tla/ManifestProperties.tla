------------------------- MODULE ManifestProperties -------------------------
(***************************************************************************)
(* What makes the Manifest program correct.  "work" equals "accounts"      *)
(* between instructions, so an invariant of "work" speaks about both the   *)
(* committed state and every intermediate state of an instruction.         *)
(***************************************************************************)
EXTENDS Manifest, FiniteSetsExt

Accounts ==
    [m : Markets, vault : [Tokens -> Nat], wallet : [Traders -> [Tokens -> Nat]],
     glob : [Tokens -> Globals]]

Phases == {"idle", "cancel", "next", "match", "reverse", "settle", "impact"}

Reversals ==
    [trader_index : Index, type : ReversibleTypes, spread : Spreads, price : Nat,
     base : Nat, quote : Nat, full : BOOLEAN]

Contexts ==
    [phase : Phases, kind : {"batch", "swap"}, seat : Index, globals : SUBSET Tokens,
     cancels : Seq([seq : Nat, hint : {NIL} \cup Index]), orders : Seq(OrderArgs),
     args : OrderArgs, seq : Nat, remaining : Nat, pending : Nat,
     refunds : [Tokens -> Nat], traded : [Tokens -> Nat], reversal : Reversals,
     swap : SwapArgs, temp : BOOLEAN, initial : [Tokens -> Nat],
     visited : SUBSET Index, total : Nat, left : Nat]

\* Every balance, vault, deposit and order size is a natural number: no checked
\* subtraction of an instruction that commits went below zero.
TypeOK ==
    /\ accounts \in Accounts
    /\ work \in Accounts
    /\ ctx \in Contexts
    /\ slot \in Nat

-----------------------------------------------------------------------------
(* Blocks and the free list. *)

\* A trader has at most one seat, also while a swap holds a temporary one.
OneSeatEach ==
    \A i, j \in SeatIndices(work.m) : work.m.data[i].trader = work.m.data[j].trader => i = j

\* The free list holds exactly the allocated blocks that hold nothing, each
\* once, and a resting order's trader_index is a seat: removing, inserting and
\* releasing blocks in any order never leaks one or hands it out twice, nor is a
\* second one made the seat of a trader.
BlocksSound ==
    /\ FreeListSound(work.m)
    /\ OwnersSeated(work.m)
    /\ OneSeatEach

\* The program never takes a block from an empty free list (it would index the
\* account at NIL): one is left between instructions, when a reversal is placed
\* and when the rest of an order is.
SpareBlock ==
    /\ HasFreeBlock(accounts.m)
    /\ ctx.phase = "reverse" => HasFreeBlock(work.m)
    /\ ctx.phase = "settle" /\ Rests => HasFreeBlock(work.m)

\* Whoever has a seat on m has it on n, at the same index.
SeatsStay(m, n) ==
    \A i \in SeatIndices(m) : i \in SeatIndices(n) /\ n.data[i].trader = m.data[i].trader

\* No instruction, of anybody, takes a seat away or moves it: the wrappers
\* remember the index of their owner's seat for good, and orders name it.  Only a
\* swap gives a seat back, the one it took itself.
SeatsKept == [][SeatsStay(accounts.m, accounts'.m)]_vars

-----------------------------------------------------------------------------
(* Solvency. *)

\* What an instruction in progress has credited before the tokens move: the
\* input of a swap, and the tokens that global makers owe.
Virtual(token) == IF ctx.kind = "swap" /\ token = InToken(ctx.swap) THEN ctx.swap.in ELSE 0

Pending(token) == IF token = MakerToken THEN ctx.pending ELSE 0

\* The market vault holds exactly what the seats can withdraw plus what backs
\* the resting orders (the totals MarketFixed keeps in the certora build).
VaultBacksClaims ==
    \A token \in Tokens :
        /\ accounts.vault[token] = accounts.m.withdrawable[token] + accounts.m.orderbook[token]
        /\ work.vault[token] + Virtual(token) + Pending(token)
                = work.m.withdrawable[token] + work.m.orderbook[token]

\* Those totals are what the blocks add up to.
TotalsAreSums == TotalsSound(work.m)

\* A global vault holds exactly the deposits of the seated traders (and, within
\* an instruction, what its makers have sold but not yet delivered).
GlobalVaultBacksDeposits ==
    \A token \in Tokens :
        LET g == work.glob[token]
        IN  /\ g.vault = g.deposited + Pending(token)
            /\ g.deposited = SumFunctionOnSet(g.dep, Traders)
            /\ \A t \in Traders \ g.seats : g.dep[t] = 0

\* Whatever an order has been through, returning it never overflows its owner's
\* balance, as long as the supply of a token fits in a u64: no order is stuck
\* (cancel_order_on_side unwraps the refund).
OrdersReturnable ==
    \A i \in OrderIndices(accounts.m) : CanCancelOrder(accounts.m, i)

\* The gas prepayments kept by a global account cover the refund of every
\* global order that rests on it, and those an instruction has deferred.
GasCoversOrders ==
    \A token \in Tokens :
        work.glob[token].gas >= ctx.refunds[token]
            + Cardinality({i \in OrderIndices(work.m) :
                               /\ work.m.data[i].type = "Global"
                               /\ Backing(work.m.data[i].is_bid) = token})

-----------------------------------------------------------------------------
(* The book. *)

\* No bid is above an ask, reversed and coalesced orders included.
BookNotCrossed ==
    \A i \in BookSide(work.m, TRUE), j \in BookSide(work.m, FALSE) :
        work.m.data[i].price <= work.m.data[j].price

\* A sequence number names one order, so a cancel cannot hit another one.
SequenceNumbersUnique ==
    LET m == work.m
    IN  /\ \A i \in OrderIndices(m) : m.data[i].seq < m.seq
        /\ \A i, j \in OrderIndices(m) : m.data[i].seq = m.data[j].seq => i = j
        /\ ctx.phase \in {"match", "reverse", "settle"} =>
                \A i \in OrderIndices(m) : m.data[i].seq # ctx.seq

\* Each order of n was on m, with its number and of the same trader, or has a number
\* that was given out in between.
NumbersAdvance(m, n) ==
    /\ m.seq <= n.seq
    /\ \A i \in OrderIndices(n) :
        \/ /\ i \in OrderIndices(m)
           /\ n.data[i].seq = m.data[i].seq /\ n.data[i].trader_index = m.data[i].trader_index
        \/ m.seq <= n.data[i].seq /\ n.data[i].seq < n.seq

\* Nor does it name another one later: whatever is cancelled, filled, reversed,
\* evicted or fails, no number is given out twice and no order that left the book
\* comes back.  A client that kept a number and an index finds its order or nothing.
NumbersGivenOnce == [][NumbersAdvance(accounts.m, accounts'.m)]_vars

\* The owner of an order names it in a cancel, it has expired or is empty, its owner's
\* deposit cannot deliver what it offers, or a taker within the limit of its order
\* takes all of it.
CancelledByName(order) ==
    /\ ctx.phase = "cancel" /\ ctx.cancels # <<>>
    /\ Head(ctx.cancels).seq = order.seq /\ order.trader_index = ctx.seat

Undeliverable(order) ==
    LET token  == Backing(order.is_bid)
        g      == work.glob[token]
        owner  == work.m.data[order.trader_index].trader
        offers == NotionalAtoms(order.is_bid, order.price, order.base)
    IN  /\ order.type = "Global"
        /\ \/ token \in HookMints \/ ~ HasGlobalSeat(g, owner)
           \/ ~ FitsAtoms(offers) \/ ~ CanBackOrder(g, owner, offers)

TakenWhole(order) ==
    /\ ctx.phase = "match"
    /\ order.is_bid # ctx.args.is_bid /\ Crosses(order, ctx.args.is_bid, ctx.args.price)
    /\ ctx'.traded["base"] = ctx.traded["base"] + order.base

MayLeave(order) ==
    CancelledByName(order) \/ IsStale(order, slot) \/ Undeliverable(order) \/ TakenWhole(order)

\* No order leaves the book for another reason, whatever a cancel's hint points at by
\* now (a block that was freed, reused, given to another order or a seat), whatever
\* the loop has met before it, and only a failed instruction undoes what it placed.
OrdersLeaveForCause ==
    [][\/ ctx.phase # "idle" /\ ctx' = Idle /\ accounts' = accounts
       \/ \A i \in OrderIndices(work.m) :
            \/ i \in OrderIndices(work'.m) /\ work'.m.data[i].seq = work.m.data[i].seq
            \/ MayLeave(work.m.data[i])]_vars

\* What a reverse order was paid always covers the order it places on the other
\* side, alone or coalesced, so a reverse maker cannot make its taker fail.
ReversalAffordable ==
    ctx.phase = "reverse" /\ ctx.reversal.trader_index # ctx.seat =>
        \A i \in ReverseTargets : CanReverse(work.m, i, ctx.reversal, ctx.args.is_bid)

-----------------------------------------------------------------------------
(* Traders. *)

\* What block i of the market holds for a trader: the balance of its seat, or
\* what backs an order of its.
HeldBy(m, i, trader, token) ==
    LET block == m.data[i]
    IN  CASE block.kind = "seat" /\ block.trader = trader -> block.bal[token]
          [] block.kind = "order" /\ m.data[block.trader_index].trader = trader ->
                OrderbookAtoms(block, token)
          [] OTHER -> 0

\* What a trader owns of a token in a state of the accounts.
Holdings(a, trader, token) ==
    a.wallet[trader][token] + a.glob[token].dep[trader]
        + SumFunctionOnSet([i \in Index |-> HeldBy(a.m, i, trader, token)], Index)

\* In the course of a swap, its virtual credit is not the swapper's.
Owned(trader, token) ==
    Holdings(work, trader, token)
        - IF ctx.kind = "swap" /\ Swapper = trader THEN Virtual(token) ELSE 0

\* Nothing but a trade changes what anybody owns: not a cancel, the removal of an
\* expired or unbacked maker by the loop that fills the others, a reversal, an
\* eviction or the settlement of a swap.  A trade, which the taker is told of, moves
\* tokens between traders, and nobody loses both tokens in it.
ValueMovesByTradesOnly ==
    [][\/ ctx.phase # "idle" /\ ctx' = Idle /\ accounts' = accounts
       \/ \A trader \in Traders, token \in Tokens :
            Owned(trader, token)' = Owned(trader, token)
       \/ /\ ctx.phase = "match" /\ ctx'.traded # ctx.traded
          /\ \A trader \in Traders : \E token \in Tokens :
                Owned(trader, token)' >= Owned(trader, token)
          /\ \A token \in Tokens :
                SumFunctionOnSet([t \in Traders |-> Owned(t, token)'], Traders)
                    = SumFunctionOnSet([t \in Traders |-> Owned(t, token)], Traders)]_vars

\* A swap takes no more than in_atoms from the wallet, an exact-in swap pays at
\* least out_atoms to it, and the balances on an existing seat are as before.
SwapHonoursLimits ==
    [][SwapOrderDone /\ accounts' # accounts =>
        LET in  == InToken(ctx.swap)
            out == OutToken(ctx.swap)
        IN  /\ accounts'.wallet[Swapper][in] >= accounts.wallet[Swapper][in] - ctx.swap.in
            /\ ctx.swap.is_exact_in =>
                accounts'.wallet[Swapper][out] >= accounts.wallet[Swapper][out] + ctx.swap.out
            /\ IF ctx.temp THEN GetTraderIndex(accounts'.m, Swapper) = NIL
                           ELSE accounts'.m.data[ctx.seat].bal = ctx.initial]_vars

\* An exact quote-in swap sizes its order so that it never has to pay more
\* than its input ("round down base amount to not cross quote limit").
ExactQuoteInStaysWithinLimit ==
    ctx.kind = "swap" /\ ctx.swap.is_exact_in /\ ~ ctx.swap.is_base_in =>
        \A i \in Index :
            IsMaker(i) /\ IsMatch(i) /\ ~ MissingGlobal(i) /\ (IsGlobalMaker(i) => IsBacked(i))
                => ctx.traded["quote"] + Trade(i).quote <= ctx.swap.in

\* The estimator only fails on an amount that does not fit: "used to calculate
\* error free order sizes" (quantities.rs, checked_base_for_quote).
EstimateErrorFree == \A i \in Index : Counts(i) => CanCount(i)

\* The reader of the slim client checks that orders at one price are in the order
\* of their sequence numbers: "this validator must match the on-chain ordering
\* exactly or it can reject authentic trees".  The book keeps them in the order in
\* which they were inserted, so this should be the same.
SlimReaderAccepts ==
    \A is_bid \in BOOLEAN : \A i, j \in BookSide(accounts.m, is_bid) :
        LET a == accounts.m.data[i]
            b == accounts.m.data[j]
        IN  a.price = b.price /\ a.arrival < b.arrival => a.seq < b.seq

\* Every instruction comes to its end: the matching loop and the estimator
\* always make progress.
InstructionTerminates == ctx # Idle ~> ctx = Idle

=============================================================================
