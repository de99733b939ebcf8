------------------------------ MODULE UiWrapper ------------------------------
(***************************************************************************)
(* The UI wrapper program (programs/ui-wrapper): for a trader behind a web *)
(* front end it claims the seat, deposits what an order lacks, remembers   *)
(* the open orders by client order id, and charges a fee on the volume     *)
(* traded when the funds are settled.  An instruction places or cancels    *)
(* one order, so it calls the core's BatchUpdate at most once; its other   *)
(* calls (expand, claim a seat, deposit, withdraw, transfer) are parts of  *)
(* the same step.                                                          *)
(*                                                                         *)
(* The account of one trader on one market:                                *)
(*   num, free   blocks and the free list, as in MarketState               *)
(*   info        index of the MarketInfo node (NIL: none)                  *)
(*   seat        trader_index                                              *)
(*   orders      the open orders in the order of a walk of their tree: the *)
(*               largest client id first, the oldest first among equals    *)
(*   bal         balances of the seat at the last sync                     *)
(*   volume      quote_volume of the seat at the last sync                 *)
(*   unpaid      quote_volume_unpaid                                       *)
(* The tree itself is the matter of RedBlackTree.                          *)
(***************************************************************************)
EXTENDS CoreCall, SequencesExt

CONSTANTS
    Owner,             \* the trader the account belongs to
    UiOrders,          \* orders the owner may place, each with a client id
    FEE_DENOMINATOR,   \* 10^9 on chain
    FeeMantissas,      \* fee rates that a settlement may ask for
    PlatformPercents   \* shares of the platform when there is a referrer

VARIABLES
    ui,
    volume,   \* quote atoms the seat of the owner has traded: committed, and by
              \* the instruction in progress; the seat keeps a u64 of it
    bill      \* history: where billing began, the volume paid for, the same at the
              \* rate of its settlement, the fees received

uvars == <<accounts, work, ctx, slot, call, ui, volume, bill>>

ASSUME UiAssumption ==
    /\ Owner \in Traders
    /\ UiOrders \subseteq [id : Nat, args : OrderArgs]
    /\ FEE_DENOMINATOR \in Nat \ {0}
    /\ FeeMantissas \subseteq Nat
    /\ PlatformPercents \subseteq Nat

NoUi ==
    [num |-> 0, free |-> <<>>, info |-> NIL, seat |-> NIL,
     orders |-> <<>>, bal |-> NoTokens, volume |-> 0, unpaid |-> 0]

NoCall ==
    [phase   |-> "idle",
     kind    |-> "place",
     order   |-> [id |-> 0, args |-> NoOrder],
     block   |-> NIL,          \* wrapper_index of the order being cancelled
     records |-> <<>>,         \* BatchUpdateReturn
     saved   |-> <<>>]         \* what a rollback restores

HasUi == ui.num > 0

HasInfo == ui.info # NIL

Ready == ctx = Idle /\ call = NoCall

Least(a, b) == IF a < b THEN a ELSE b

-----------------------------------------------------------------------------
(* Blocks of the wrapper account. *)

\* expand_wrapper_if_needed.
EnsureFreeSlot(u) ==
    IF u.free = <<>> THEN [u EXCEPT !.num = @ + 1, !.free = <<u.num>>] ELSE u

\* Mutant: the blocks are lost.
UnlinkLeaking(u, blocks) ==
    [u EXCEPT !.orders = Filter(@, LAMBDA o : \A k \in DOMAIN blocks : blocks[k] # o.block)]

\* Open orders leave the tree and their blocks go on the free list.
Unlink(u, blocks) ==
    [u EXCEPT !.orders = Filter(@, LAMBDA o : \A k \in DOMAIN blocks : blocks[k] # o.block),
              !.free = Reverse(blocks) \o @]

\* The tree is ordered by client id alone.
InsertByClientId(orders, new) ==
    Filter(orders, LAMBDA o : o.id >= new.id)
        \o <<new>> \o Filter(orders, LAMBDA o : o.id < new.id)

-----------------------------------------------------------------------------
(* sync_fast: every open order is read from the core. *)

\* quote_volume of the seat, which wraps around.
Counter(total) == total % (ATOM_LIMIT + 1)

\* The balances, and the volume traded since the last sync.
Accrued(u, m, total) ==
    LET difference == (Counter(total) - u.volume) % (ATOM_LIMIT + 1)
    IN  [u EXCEPT !.bal = m.data[u.seat].bal,
                  !.unpaid = Least(@ + difference, ATOM_LIMIT),
                  !.volume = Counter(total)]

\* Mutant: the size is not read.
RefreshedPrice(m, o) ==
    [o EXCEPT !.price = m.data[o.index].price, !.is_bid = m.data[o.index].is_bid]

Refreshed(m, o) ==
    [o EXCEPT !.base = m.data[o.index].base, !.price = m.data[o.index].price,
              !.is_bid = m.data[o.index].is_bid]

Synced(u, m, total) ==
    LET gone == Filter(u.orders, LAMBDA o : Gone(m, o))
        kept == Unlink(u, [k \in DOMAIN gone |-> gone[k].block])
    IN  Accrued([kept EXCEPT !.orders = [k \in DOMAIN @ |-> Refreshed(m, @[k])]], m, total)

-----------------------------------------------------------------------------
(* Setting up. *)

\* process_create_wrapper.
UiCreate ==
    /\ Ready
    /\ ~ HasUi
    /\ ui' = EnsureFreeSlot(NoUi)
    /\ UNCHANGED <<accounts, work, ctx, slot, call, volume, bill>>

\* A market info starts from the volume of the seat, which may be older ("to
\* prevent double billing"), and with balances of zero.
WithInfo(u, seat) ==
    [u EXCEPT !.free = Tail(@), !.info = Head(u.free), !.seat = seat,
              !.volume = Counter(volume.kept)]

-----------------------------------------------------------------------------
(* Placing an order. *)

\* Mutant: the balances of the last sync are used.
KnownStale(m) ==
    IF HasInfo THEN ui ELSE WithInfo(EnsureFreeSlot(ui), GetTraderIndex(m, Owner))

\* get_or_create_market_info.
Known(m) ==
    IF HasInfo THEN Synced(ui, m, volume.kept)
    ELSE WithInfo(EnsureFreeSlot(ui), GetTraderIndex(m, Owner))

\* What the seat lacks for an order, as far as the market info tells.
Missing(known, args) ==
    LET required == NotionalAtoms(args.is_bid, args.price, args.base)
        balance  == known.bal[Backing(args.is_bid)]
    IN  IF required > balance THEN required - balance ELSE 0

MovedIn(a, seat, token, atoms) ==
    [a EXCEPT !.m = UpdateBalance(@, seat, token, atoms),
              !.vault[token] = @ + atoms, !.wallet[Owner][token] = @ - atoms]

\* expand_market_if_needed: two free blocks, one for the order and one to spare.
TwoBlocks(m) == IF Len(m.free) < 2 THEN ExpandBy(m, 1) ELSE m

Before == [accounts |-> accounts, ui |-> ui, volume |-> volume, bill |-> bill]

UiPlaceOrder(order, globals) ==
    LET args   == order.args
        token  == Backing(args.is_bid)
        m      == SeatedMarket(accounts.m, Owner)
        seat   == GetTraderIndex(m, Owner)
        known  == Known(m)
        atoms  == Missing(known, args)
        funded == MovedIn([accounts EXCEPT !.m = m], seat, token, atoms)
        ready  == [funded EXCEPT !.m = TwoBlocks(@)]
    IN  /\ Ready
        /\ HasUi
        /\ accounts.m.seq < MaxSeq
        /\ FitsAtoms(NotionalAtoms(args.is_bid, args.price, args.base))
        /\ atoms <= accounts.wallet[Owner][token]
        /\ CanUpdateBalance(m, seat, token, atoms)
        /\ ready.m.num <= MAX_BLOCKS
        /\ CallCore(ready, seat, globals, <<>>, <<args>>,
                    [NoCall EXCEPT !.order = order, !.saved = Before])
        /\ ui' = known
        /\ bill' = IF HasInfo THEN bill ELSE [bill EXCEPT !.since = volume.kept]
        /\ UNCHANGED volume

\* Size, price and side of the entry may be wrong until the sync.
NewEntry(block) ==
    LET record == call.records[1]
        order  == call.order
    IN  [block |-> block, id |-> order.id, seq |-> record.seq, index |-> record.index,
         base |-> order.args.base, price |-> order.args.price, is_bid |-> order.args.is_bid]

Remembered ==
    LET room == EnsureFreeSlot(ui)
    IN  IF call.records[1].index = NIL THEN ui
        ELSE [room EXCEPT !.free = Tail(@),
                          !.orders = InsertByClientId(@, NewEntry(Head(room.free)))]

UiOrderPlaced ==
    /\ call.phase = "record"
    /\ call.kind = "place"
    /\ ui' = Synced(Remembered, accounts.m, volume.kept)
    /\ call' = NoCall
    /\ UNCHANGED <<accounts, work, ctx, slot, volume, bill>>

-----------------------------------------------------------------------------
(* Cancelling one. *)

\* The first open order with the client id.  Nothing is synced before, so the
\* hint may be stale; then the call fails.
UiCancelOrder(id) ==
    LET matches == Filter(ui.orders, LAMBDA o : o.id = id)
    IN  /\ Ready
        /\ HasInfo
        /\ matches # <<>>
        /\ LET o == Head(matches)
           IN  CallCore(accounts, ui.seat, {}, <<[seq |-> o.seq, hint |-> o.index]>>, <<>>,
                        [NoCall EXCEPT !.kind = "cancel", !.block = o.block, !.saved = Before])
        /\ UNCHANGED <<ui, volume, bill>>

\* Mutant: the volume is advanced without being billed.
UiOrderCancelledUnbilled ==
    /\ call.phase = "record"
    /\ call.kind = "cancel"
    /\ ui' = [Accrued(Unlink(ui, <<call.block>>), accounts.m, volume.kept)
                EXCEPT !.unpaid = ui.unpaid]
    /\ call' = NoCall
    /\ UNCHANGED <<accounts, work, ctx, slot, volume, bill>>

\* The other entries are left as they are.
UiOrderCancelled ==
    /\ call.phase = "record"
    /\ call.kind = "cancel"
    /\ ui' = Accrued(Unlink(ui, <<call.block>>), accounts.m, volume.kept)
    /\ call' = NoCall
    /\ UNCHANGED <<accounts, work, ctx, slot, volume, bill>>

\* The call has failed, and with it the instruction.
UiRollBack ==
    /\ call.phase = "rollback"
    /\ Commit(call.saved.accounts)
    /\ ui' = call.saved.ui
    /\ volume' = call.saved.volume
    /\ bill' = call.saved.bill
    /\ call' = NoCall

-----------------------------------------------------------------------------
(* Settling: all funds are withdrawn, and the fee on the volume that has    *)
(* not been paid for is transferred from the owner's token account.        *)

FeeAtoms(unpaid, rate) == (unpaid * rate) \div FEE_DENOMINATOR

\* The volume that the fee, a whole number of atoms, pays for.
PaidVolume(unpaid, rate) == (FeeAtoms(unpaid, rate) * FEE_DENOMINATOR) \div rate

PlatformFee(fee, percent, referred) ==
    IF referred THEN (fee * Least(percent, 100)) \div 100 ELSE fee

UiSettleFunds(mantissa, percent, referred) ==
    LET known    == Synced(ui, accounts.m, volume.kept)
        rate     == Least(mantissa, FEE_DENOMINATOR)
        fee      == FeeAtoms(known.unpaid, rate)
        paid     == PaidVolume(known.unpaid, rate)
        platform == PlatformFee(fee, percent, referred)
        Out(a, token) == MovedIn(a, ui.seat, token, - known.bal[token])
        settled  == Out(Out(accounts, "base"), "quote")
    IN  /\ Ready
        /\ HasInfo
        /\ rate # 0
        /\ \A token \in Tokens : known.bal[token] <= accounts.vault[token]
        /\ fee <= settled.wallet[Owner]["quote"]
        /\ Commit([settled EXCEPT !.wallet[Owner]["quote"] = @ - fee])
        /\ ui' = [Synced(known, settled.m, volume.kept)
                    EXCEPT !.unpaid = IF paid < @ THEN @ - paid ELSE 0]
        /\ bill' = [bill EXCEPT !.paid = @ + paid, !.owed = @ + paid * rate,
                                !.platform = @ + platform, !.referrer = @ + (fee - platform)]
        /\ UNCHANGED <<call, volume>>

-----------------------------------------------------------------------------
(* The core, called or on its own. *)

\* record_volume_by_trader_index, for the maker and for the taker: an owner who
\* trades with itself is recorded twice.
RecordVolume ==
    LET seat  == GetTraderIndex(work.m, Owner)
        quote == ctx'.traded["quote"] - ctx.traded["quote"]
        maker == \E i \in Index : IsMaker(i) /\ work.m.data[i].trader_index = seat
    IN  volume' = [volume EXCEPT !.work = @ + (IF maker THEN quote ELSE 0)
                                            + (IF ctx.seat = seat THEN quote ELSE 0)]

UiCoreSteps ==
    \/ (CoreGoesOn \/ CorePlaced) /\ UNCHANGED volume
    \/ Fill /\ RecordVolume /\ UNCHANGED call
    \/ CoreReturns /\ volume' = [volume EXCEPT !.kept = volume.work]
    \/ CoreFails /\ volume' = [volume EXCEPT !.work = volume.kept]

UiArrival ==
    \/ UiCreate
    \/ \E order \in UiOrders, globals \in GlobalsPassed : UiPlaceOrder(order, globals)
    \/ \E order \in UiOrders : UiCancelOrder(order.id)
    \/ \E mantissa \in FeeMantissas, percent \in PlatformPercents, referred \in BOOLEAN :
        UiSettleFunds(mantissa, percent, referred)

UiDirectArrival ==
    /\ Ready
    /\ \/ TradeArrival
       \/ AdvanceSlot
       \/ \E token \in Tokens, atoms \in Amounts :
            Withdraw(Owner, token, atoms)
    /\ UNCHANGED <<call, ui, volume, bill>>

UiSteps == UiOrderPlaced \/ UiOrderCancelled \/ UiRollBack

UiProgress == UiSteps \/ (UiCoreSteps /\ UNCHANGED <<ui, bill>>)

UiNext == UiArrival \/ UiDirectArrival \/ UiProgress

=============================================================================
