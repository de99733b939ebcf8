------------------------------ MODULE Wrapper ------------------------------
(***************************************************************************)
(* The wrapper program (programs/wrapper): an account that remembers, for  *)
(* one trader, the orders it has placed through it and the balances of its *)
(* seat, and forwards deposits, withdrawals and batch updates to the core. *)
(* The copy is refreshed only when the wrapper runs; fills, expiries,      *)
(* cleans and instructions sent straight to the core happen in between.    *)
(*                                                                         *)
(* The account of one trader on one market:                                *)
(*   num, free   blocks and the free list, as in MarketState               *)
(*   info        index of the MarketInfo node that lookups find (NIL: none) *)
(*   twins       the other MarketInfo nodes of this market, one for every  *)
(*               repeated ClaimSeat                                        *)
(*   lost        the open orders of a node that lookups used to find       *)
(*   layout      payload_type of the node: the open orders are a tree      *)
(*               (written by an older version) or a list                   *)
(*   orders      the open orders in the order of a walk, with the block    *)
(*               each one is in                                            *)
(*   seat        trader_index                                              *)
(*   bal, seq    balances and sequence number at the last sync             *)
(*   globals     num_open_global_orders                                    *)
(* How tree and list are laid out in the blocks is the matter of           *)
(* RedBlackTree and LinkedList.                                            *)
(***************************************************************************)
EXTENDS CoreCall, SequencesExt

CONSTANTS
    Owner,                  \* the trader the wrapper belongs to
    WrapperBatches,         \* batch updates the owner may send
    WRAPPER_EXPAND_BLOCKS,  \* 4 on chain
    RELATIVE_SLOTS,         \* a last_valid_slot below it counts from now
    MAX_INFOS               \* bound: how often the owner claims the seat

VARIABLES
    wrapper,
    outside     \* history: how orders of the owner were removed other than by
                \* a trade or the wrapper, since the open orders were last walked

wvars == <<accounts, work, ctx, slot, call, wrapper, outside>>

WrapperOrders == [id : Nat, args : OrderArgs]

ASSUME WrapperAssumption ==
    /\ Owner \in Traders
    /\ WrapperBatches \subseteq [cancels : SUBSET Nat, cancel_all : BOOLEAN,
                                 orders : Seq(WrapperOrders)]
    /\ WRAPPER_EXPAND_BLOCKS \in Nat \ {0}
    /\ RELATIVE_SLOTS \in Nat
    /\ MAX_INFOS \in 1 .. 7

NoWrapper ==
    [num |-> 0, free |-> <<>>, info |-> NIL, twins |-> {}, lost |-> <<>>, layout |-> "list",
     orders |-> <<>>, seat |-> NIL, bal |-> NoTokens, seq |-> 0, globals |-> 0]

NoCall ==
    [phase     |-> "idle",
     cancels   |-> <<>>,      \* core_cancels
     blocks    |-> <<>>,      \* cancel_indices
     orders    |-> <<>>,      \* remaining_orders, not inspected yet
     forwarded |-> <<>>,      \* prepared
     left      |-> NoTokens,  \* remaining_base/quote_atoms
     globals   |-> {},        \* global accounts passed through
     placed    |-> FALSE,     \* placed_orders
     records   |-> <<>>,      \* BatchUpdateReturn
     unfunded  |-> FALSE,     \* history: a global order is being cancelled
     saved     |-> <<>>]      \* what a rollback restores

Sum(value(_), seq) == FoldLeft(LAMBDA acc, x : acc + value(x), 0, seq)

HasWrapper == wrapper.num > 0

HasInfo == wrapper.info # NIL

Ready == ctx = Idle /\ call = NoCall

-----------------------------------------------------------------------------
(* Blocks of the wrapper account. *)

\* expand_wrapper, as often as needed: each new block becomes the head.
ExpandWrapper(w, blocks) ==
    [w EXCEPT !.num = @ + blocks, !.free = [k \in 1 .. blocks |-> w.num + blocks - k] \o @]

\* Grow once, by a multiple of WRAPPER_EXPAND_BLOCKS.
EnsureFreeSlots(w, needed) ==
    LET missing == needed - Len(w.free)
        chunks  == (missing + WRAPPER_EXPAND_BLOCKS - 1) \div WRAPPER_EXPAND_BLOCKS
    IN  IF missing <= 0 THEN w ELSE ExpandWrapper(w, chunks * WRAPPER_EXPAND_BLOCKS)

\* Mutant: the blocks are lost.
UnlinkLeaking(w, blocks) ==
    [w EXCEPT !.orders = Filter(@, LAMBDA o : \A k \in DOMAIN blocks : blocks[k] # o.block)]

\* Open orders leave the list and their blocks go on the free list one by one.
Unlink(w, blocks) ==
    [w EXCEPT !.orders = Filter(@, LAMBDA o : \A k \in DOMAIN blocks : blocks[k] # o.block),
              !.free = Reverse(blocks) \o @]

BlocksOf(orders) == [k \in DOMAIN orders |-> orders[k].block]

-----------------------------------------------------------------------------
(* sync_fast. *)

\* Mutant: only the price is read.
RefreshedPrice(m, o) == [o EXCEPT !.price = m.data[o.index].price]

Refreshed(m, o) == [o EXCEPT !.base = m.data[o.index].base, !.price = m.data[o.index].price]

\* Nothing is known to have happened on the market since the last sync.
Quiet(w, m) ==
    /\ w.seq = m.seq
    /\ w.globals = 0
    /\ w.bal = m.data[w.seat].bal

NoMatcher == [cancels |-> {}, cancel_all |-> FALSE]

IsMatched(matcher, o) == matcher.cancel_all \/ o.id \in matcher.cancels

GlobalCount(orders) == Len(Filter(orders, LAMBDA o : o.type = "Global"))

\* Whether the orders are walked against the core; if not, only those that are
\* about to be cancelled are read from it.
ReadsCore(w, m, orders_exact) == ~ orders_exact /\ ~ Quiet(w, m)

\* Mutant: a cancel that is matched on a quiet market is not read from the core.
DroppedTrusting(w, m, orders_exact, matcher) ==
    Filter(w.orders, LAMBDA o : ReadsCore(w, m, orders_exact) /\ Gone(m, o))

Dropped(w, m, orders_exact, matcher) ==
    Filter(w.orders, LAMBDA o :
        (ReadsCore(w, m, orders_exact) \/ IsMatched(matcher, o)) /\ Gone(m, o))

\* The account after sync_fast.
SyncFast(w, m, orders_exact, matcher) ==
    LET reads == ReadsCore(w, m, orders_exact)
        kept  == Unlink([w EXCEPT !.layout = "list"],
                        BlocksOf(Dropped(w, m, orders_exact, matcher)))
        seen  == [k \in DOMAIN kept.orders |->
                    IF reads THEN Refreshed(m, kept.orders[k]) ELSE kept.orders[k]]
    IN  [kept EXCEPT !.orders = seen,
                     !.globals = IF reads /\ w.orders # <<>> THEN GlobalCount(seen) ELSE @,
                     !.seq = m.seq,
                     !.bal = m.data[w.seat].bal]

\* A walk that reads every order leaves nothing to be found later.
OutsideAfter(w, m, orders_exact) == IF ReadsCore(w, m, orders_exact) THEN {} ELSE outside

Synced(orders_exact) ==
    /\ wrapper' = SyncFast(wrapper, accounts'.m, orders_exact, NoMatcher)
    /\ outside' = OutsideAfter(wrapper, accounts'.m, orders_exact)

-----------------------------------------------------------------------------
(* Instructions without a batch. *)

\* process_create_wrapper.
CreateWrapper ==
    /\ Ready
    /\ ~ HasWrapper
    /\ wrapper' = EnsureFreeSlots(NoWrapper, 1)
    /\ UNCHANGED <<accounts, work, ctx, slot, call, outside>>

InfoNodes == (IF HasInfo THEN {wrapper.info} ELSE {}) \cup wrapper.twins

\* The third equal node makes insert_fix rotate the second one, which is as good as
\* new, to the root: it is the one that lookups find from then on.  Its trader_index
\* is the same, for seats stay.
Overtaken(w, block) ==
    [w EXCEPT !.info = CHOOSE twin \in w.twins : TRUE, !.twins = {w.info, block},
              !.layout = "list", !.orders = <<>>, !.lost = w.orders,
              !.bal = NoTokens, !.seq = 0, !.globals = 0]

\* A node goes into the tree whether or not there is one of this market: equal ones
\* go to the left, and lookups return the first that they meet below the root.  That
\* is the second one when there are three to seven of them, the only ones in the tree.
\* (Next to nodes of other markets, another insertion may be the one that rotates.)
InfoAdded(w, block, seat) ==
    CASE w.info = NIL -> [w EXCEPT !.info = block, !.layout = "list", !.seat = seat]
      [] w.info # NIL /\ Cardinality(w.twins) = 1 -> Overtaken(w, block)
      [] OTHER -> [w EXCEPT !.twins = @ \cup {block}]

\* Nothing keeps the owner from doing it again.
WrapperClaimSeat ==
    LET m == SeatedMarket(accounts.m, Owner)
        w == EnsureFreeSlots(wrapper, 1)
    IN  /\ Ready
        /\ HasWrapper
        /\ Cardinality(InfoNodes) < MAX_INFOS
        /\ m.num <= MAX_BLOCKS
        /\ Commit([accounts EXCEPT !.m = m])
        /\ wrapper' = InfoAdded([w EXCEPT !.free = Tail(@)], Head(w.free),
                                GetTraderIndex(m, Owner))
        /\ UNCHANGED <<call, outside>>

WrapperDeposit(token, atoms) ==
    /\ Ready
    /\ HasInfo
    /\ Deposit(Owner, token, atoms)
    /\ Synced(FALSE)
    /\ UNCHANGED call

WrapperWithdraw(token, atoms) ==
    /\ Ready
    /\ HasInfo
    /\ Withdraw(Owner, token, atoms)
    /\ Synced(FALSE)
    /\ UNCHANGED call

-----------------------------------------------------------------------------
(* Batch update: sync and match the cancels, then as many calls of the core *)
(* as its post-only orders need.                                           *)

\* CancelMatcher::record and prepare_cancel_all: the atoms of a token that an
\* order backs.  The type of the order is not looked at.
Frees(order, token) ==
    IF token = Backing(order.is_bid)
    THEN NotionalAtoms(order.is_bid, order.price, order.base)
    ELSE 0

CoreCancel(seq, index) == [seq |-> seq, hint |-> index]

\* prepare_cancel_all: the owner's orders in the book that are not among the
\* cancels yet.  Bids come before asks, each side in the order of its tree;
\* the order of cancels makes no difference.
UntrackedOrders(m, seat, matched) ==
    SetToSeq({i \in OrderIndices(m) :
                /\ m.data[i].trader_index = seat
                /\ \A k \in DOMAIN matched : matched[k].seq # m.data[i].seq})

\* Whether an order of the batch needs the balance check for a token.
Needs(batch, token) ==
    \E k \in DOMAIN batch.orders :
        /\ batch.orders[k].args.type # "Global"
        /\ Backing(batch.orders[k].args.is_bid) = token

WrapperBatchUpdate(batch, globals) ==
    LET m         == accounts.m
        w         == SyncFast(wrapper, m, FALSE, batch)
        matched   == Filter(w.orders, LAMBDA o : IsMatched(batch, o))
        untracked == IF batch.cancel_all THEN UntrackedOrders(m, w.seat, matched) ELSE <<>>
        freed     == [token \in Tokens |->
                        IF Needs(batch, token)
                        THEN Sum(LAMBDA o : Frees(o, token), matched)
                                + Sum(LAMBDA i : Frees(m.data[i], token), untracked)
                        ELSE 0]
    IN  /\ Ready
        /\ HasInfo
        /\ m.seq < MaxSeq
        /\ wrapper' = w
        /\ outside' = OutsideAfter(wrapper, m, FALSE)
        /\ call' = [NoCall EXCEPT
                !.phase = "prepare",
                !.cancels = [k \in DOMAIN matched |-> CoreCancel(matched[k].seq, matched[k].index)]
                            \o [k \in DOMAIN untracked |->
                                    CoreCancel(m.data[untracked[k]].seq, untracked[k])],
                !.blocks = BlocksOf(matched),
                !.orders = batch.orders,
                !.left = [token \in Tokens |-> w.bal[token] + freed[token]],
                !.globals = globals,
                !.unfunded = \/ \E k \in DOMAIN matched : matched[k].type = "Global"
                             \/ \E k \in DOMAIN untracked :
                                    m.data[untracked[k]].type = "Global",
                !.saved = [accounts |-> accounts, wrapper |-> wrapper, outside |-> outside]]
        /\ UNCHANGED <<accounts, work, ctx, slot>>

-----------------------------------------------------------------------------
(* prepare_orders, one order of the batch per step.                        *)

Preparing == call.phase = "prepare" /\ ctx = Idle

NextArgs == Head(call.orders).args

\* Every order is inspected, or a post-only one follows an order that may take:
\* what the book will look like can only be told after that one has run.
EndsPrefix ==
    \/ call.orders = <<>>
    \/ /\ call.orders # <<>>
       /\ NextArgs.type = "PostOnly"
       /\ call.forwarded # <<>>
       /\ Last(call.forwarded).args.type # "PostOnly"

\* Mutant: the orders before it in the batch are not looked at.
OpposingPricesInBook(is_bid) ==
    {accounts.m.data[i].price : i \in
        {j \in BookSide(accounts.m, ~ is_bid) :
            /\ ~ IsStale(accounts.m.data[j], slot)
            /\ \A k \in DOMAIN call.cancels : call.cancels[k].seq # accounts.m.data[j].seq}}

\* The opposing prices a post-only order is compared with: live orders that are
\* not being cancelled, and the orders before it in this prefix.
OpposingPrices(is_bid) ==
    {accounts.m.data[i].price : i \in
        {j \in BookSide(accounts.m, ~ is_bid) :
            /\ ~ IsStale(accounts.m.data[j], slot)
            /\ \A k \in DOMAIN call.cancels : call.cancels[k].seq # accounts.m.data[j].seq}}
    \cup {call.forwarded[k].args.price : k \in
            {n \in DOMAIN call.forwarded : call.forwarded[n].args.is_bid # is_bid}}

WouldCross(args) ==
    \E price \in OpposingPrices(args.is_bid) :
        IF args.is_bid THEN args.price >= price ELSE args.price <= price

\* The atoms that the balance check reserves.
Desired(args) ==
    IF args.type = "Global" THEN 0 ELSE NotionalAtoms(args.is_bid, args.price, args.base)

IsDropped(args) ==
    \/ args.type = "PostOnly" /\ WouldCross(args)
    \/ Desired(args) > call.left[Backing(args.is_bid)]
    \/ args.base = 0

DropOrder ==
    /\ Preparing
    /\ ~ EndsPrefix
    /\ IsDropped(NextArgs)
    /\ call' = [call EXCEPT !.orders = Tail(@)]
    /\ UNCHANGED <<accounts, work, ctx, slot, wrapper, outside>>

\* A small last_valid_slot counts from the current slot.
Expiration(args) ==
    IF /\ args.last_valid # NO_EXPIRATION
       /\ args.last_valid < RELATIVE_SLOTS
       /\ ~ IsReversible(args.type)
    THEN slot + args.last_valid
    ELSE args.last_valid

\* Mutant: the funds of an order are not reserved.
ForwardOrderUnreserved ==
    /\ Preparing
    /\ ~ EndsPrefix
    /\ ~ IsDropped(NextArgs)
    /\ call' = [call EXCEPT
            !.orders = Tail(@),
            !.forwarded = Append(@, [id |-> Head(call.orders).id,
                                     args |-> [NextArgs EXCEPT !.last_valid = Expiration(NextArgs)]])]
    /\ UNCHANGED <<accounts, work, ctx, slot, wrapper, outside>>

ForwardOrder ==
    /\ Preparing
    /\ ~ EndsPrefix
    /\ ~ IsDropped(NextArgs)
    /\ call' = [call EXCEPT
            !.orders = Tail(@),
            !.left[Backing(NextArgs.is_bid)] = @ - Desired(NextArgs),
            !.forwarded = Append(@, [id |-> Head(call.orders).id,
                                     args |-> [NextArgs EXCEPT !.last_valid = Expiration(NextArgs)]])]
    /\ UNCHANGED <<accounts, work, ctx, slot, wrapper, outside>>

\* execute_cpi.  A later prefix without orders needs no call.
NeedsCall == call.forwarded # <<>> \/ ~ call.placed

ExecuteCpi ==
    /\ Preparing
    /\ EndsPrefix
    /\ NeedsCall
    /\ CallCore(accounts, wrapper.seat, call.globals, call.cancels,
                [k \in DOMAIN call.forwarded |-> call.forwarded[k].args],
                [call EXCEPT !.placed = @ \/ call.forwarded # <<>>])
    /\ UNCHANGED <<wrapper, outside>>

-----------------------------------------------------------------------------
(* What the core's answer changes.                                         *)

\* Mutant: cancelled global orders stay counted.
CancelsProcessedUncounted(w) == Unlink(w, call.blocks)

\* process_cancels.
CancelsProcessed(w) ==
    LET cancelled == Filter(w.orders, LAMBDA o : \E k \in DOMAIN call.blocks :
                                                        call.blocks[k] = o.block)
        fewer     == w.globals - GlobalCount(cancelled)
    IN  [Unlink(w, call.blocks) EXCEPT !.globals = IF fewer < 0 THEN 0 ELSE fewer]

\* The orders that rest, each with the record of the core.
RestedRecords ==
    LET all == [k \in DOMAIN call.forwarded |-> [sent |-> call.forwarded[k],
                                                 record |-> call.records[k]]]
    IN  Filter(all, LAMBDA r : r.record.index # NIL)

\* An entry; its size and price are left for the sync that follows.
NewEntry(block, r) ==
    [block |-> block, id |-> r.sent.id, seq |-> r.record.seq, index |-> r.record.index,
     base |-> 0, price |-> 0, is_bid |-> r.sent.args.is_bid, type |-> r.sent.args.type]

\* process_orders: room is made once, each order goes on at the head.
OrdersProcessed(w) ==
    LET n    == Len(RestedRecords)
        room == EnsureFreeSlots(w, n)
        new  == [k \in 1 .. n |-> NewEntry(room.free[k], RestedRecords[k])]
    IN  IF n = 0 THEN w
        ELSE [room EXCEPT !.free = SubSeq(@, n + 1, Len(@)),
                          !.orders = Reverse(new) \o @,
                          !.globals = @ + GlobalCount(new)]

\* Mutant: the view is taken to be exact.
EndBatchTrusting(w) ==
    /\ wrapper' = SyncFast(w, accounts.m, TRUE, NoMatcher)
    /\ outside' = OutsideAfter(w, accounts.m, TRUE)
    /\ call' = NoCall

\* The last sync, and the instruction ends.
EndBatch(w) ==
    /\ wrapper' = SyncFast(w, accounts.m, ~ call.placed, NoMatcher)
    /\ outside' = OutsideAfter(w, accounts.m, ~ call.placed)
    /\ call' = NoCall

\* The call has returned.  Cancels are sent once; a later prefix starts from the
\* balances the core has now.
ProcessResult ==
    LET w == OrdersProcessed(CancelsProcessed(wrapper))
    IN  /\ call.phase = "record"
        /\ IF call.orders = <<>>
           THEN EndBatch(w)
           ELSE /\ wrapper' = w
                /\ call' = [call EXCEPT !.phase = "prepare", !.cancels = <<>>, !.blocks = <<>>,
                                        !.forwarded = <<>>, !.records = <<>>,
                                        !.left = accounts.m.data[wrapper.seat].bal]
                /\ UNCHANGED outside
        /\ UNCHANGED <<accounts, work, ctx, slot>>

\* The rest of the batch was dropped.
SkipCall ==
    /\ Preparing
    /\ EndsPrefix
    /\ ~ NeedsCall
    /\ EndBatch(wrapper)
    /\ UNCHANGED <<accounts, work, ctx, slot>>

\* The call has failed, and with it the batch update.
RollBack ==
    /\ call.phase = "rollback"
    /\ Commit(call.saved.accounts)
    /\ wrapper' = call.saved.wrapper
    /\ outside' = call.saved.outside
    /\ call' = NoCall

-----------------------------------------------------------------------------

WrapperArrival ==
    \/ CreateWrapper
    \/ WrapperClaimSeat
    \/ \E token \in Tokens, atoms \in Amounts :
        WrapperDeposit(token, atoms) \/ WrapperWithdraw(token, atoms)
    \/ \E batch \in WrapperBatches, globals \in GlobalsPassed :
        WrapperBatchUpdate(batch, globals)

\* Instructions that reach the core directly, the owner's included.
DirectArrival ==
    /\ Ready
    /\ \/ TradeArrival
       \/ AdvanceSlot
       \/ \E token \in Tokens, atoms \in Amounts : Withdraw(Owner, token, atoms)
    /\ UNCHANGED <<call, wrapper, outside>>

\* Anybody may clean an expired order of the owner, of any type.
DirectClean ==
    /\ Ready
    /\ \E i \in Index :
        /\ GlobalClean(i)
        /\ outside' = IF accounts.m.data[i].trader_index = wrapper.seat
                      THEN outside \cup {"clean"} ELSE outside
    /\ UNCHANGED <<call, wrapper>>

WrapperSteps ==
    DropOrder \/ ForwardOrder \/ ExecuteCpi \/ ProcessResult \/ SkipCall \/ RollBack

CoreSteps ==
    \/ CoreGoesOn /\ UNCHANGED <<wrapper, outside>>
    \/ Fill /\ UNCHANGED <<call, wrapper, outside>>
    \/ CorePlaced /\ UNCHANGED <<wrapper, outside>>
    \/ CoreFails /\ UNCHANGED <<wrapper, outside>>
    \/ /\ CoreReturns
       /\ outside' = IF ~ Calling /\ ctx.seat = wrapper.seat
                     THEN outside \cup {"cancel"} ELSE outside
       /\ UNCHANGED wrapper

WrapperProgress == WrapperSteps \/ CoreSteps

WrapperNext == WrapperArrival \/ DirectArrival \/ DirectClean \/ WrapperProgress

=============================================================================
