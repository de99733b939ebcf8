---------------------------- MODULE MarketState ----------------------------
(***************************************************************************)
(* The market account as a value: the fixed header MarketFixed and the     *)
(* dynamic bytes, cut into blocks that hold a ClaimedSeat, a RestingOrder  *)
(* or nothing (programs/manifest/src/state/market.rs, market_helpers.rs,   *)
(* resting_order.rs, claimed_seat.rs and lib/src/free_list.rs).            *)
(*                                                                         *)
(* A market m is a record:                                                 *)
(*   num           number of allocated blocks (num_bytes_allocated / 80)   *)
(*   data          the block at each index                                 *)
(*   free          the free list, head first                               *)
(*   seq           order_sequence_number                                   *)
(*   withdrawable  total withdrawable atoms per token                      *)
(*   orderbook     total atoms that back resting orders, per token         *)
(* The two totals are the fields MarketFixed has in the certora build.     *)
(*                                                                         *)
(* The two booksides are red-black trees keyed by price alone, in which    *)
(* equal keys keep their order of insertion.  Here an order remembers the  *)
(* value "arrival" of the sequence counter when it was inserted, and the   *)
(* best order of a side is the one with the best price and, among those,   *)
(* the earliest arrival.                                                   *)
(***************************************************************************)
EXTENDS Quantities, Sequences, Functions

CONSTANTS
    Traders,          \* public keys
    MAX_BLOCKS,       \* blocks that fit in an account of maximal size
    SPREAD_BASE,      \* reverse type -> denominator of its spread
    SPREAD_MODULUS    \* 2^16: a reverse spread is a u16

Tokens == {"base", "quote"}

ReversibleTypes == {"Reverse", "ReverseTight"}

OrderTypes == {"Limit", "ImmediateOrCancel", "PostOnly", "Global"} \cup ReversibleTypes

ASSUME MarketAssumption ==
    /\ MAX_BLOCKS \in Nat \ {0}
    /\ SPREAD_MODULUS \in Nat \ {0}
    /\ SPREAD_BASE \in [ReversibleTypes -> Nat]
    /\ \A type \in ReversibleTypes : SPREAD_BASE[type] >= SPREAD_MODULUS

NIL == -1

NO_EXPIRATION == 0

Index == 0 .. (MAX_BLOCKS - 1)

Spreads == 0 .. (SPREAD_MODULUS - 1)

EmptyBlock == [kind |-> "empty"]

Seats == [kind : {"seat"}, trader : Traders, bal : [Tokens -> Nat]]

RestingOrders ==
    [kind : {"order"}, trader_index : Index, base : Nat, price : Nat,
     seq : Nat, last_valid : Nat, is_bid : BOOLEAN, type : OrderTypes,
     spread : Spreads, arrival : Nat]

Blocks == {EmptyBlock} \cup Seats \cup RestingOrders

Markets ==
    [num : 0 .. MAX_BLOCKS, data : [Index -> Blocks], free : Seq(Index),
     seq : Nat, withdrawable : [Tokens -> Int], orderbook : [Tokens -> Int]]

-----------------------------------------------------------------------------
(* Order types and resting orders. *)

IsReversible(type) == type \in ReversibleTypes

CanRest(type) == type # "ImmediateOrCancel"

CanTake(type) == type \notin {"PostOnly", "Global"}

IsExpired(order, now_slot) ==
    order.last_valid # NO_EXPIRATION /\ order.last_valid < now_slot

\* A placement is refused unless it is still valid in the next slot.
NotAlreadyExpired(last_valid, now_slot) ==
    last_valid = NO_EXPIRATION \/ last_valid > now_slot

\* The token that backs an order of this side.
Backing(is_bid) == IF is_bid THEN "quote" ELSE "base"

\* Atoms of its backing token that an order of this size ties up: the most that
\* matching it can consume, hence rounded up for a bid.
NotionalAtoms(is_bid, price, base_atoms) ==
    IF is_bid THEN QuoteForBase(price, base_atoms, TRUE) ELSE base_atoms

\* Atoms of the market vault that back an order; a global order has none.
OrderbookAtoms(order, token) ==
    IF order.type # "Global" /\ token = Backing(order.is_bid)
    THEN NotionalAtoms(order.is_bid, order.price, order.base)
    ELSE 0

\* The atoms of a token in a block: those its seat can withdraw, and those of the
\* market vault that back its order.
SeatAtoms(block, token) == IF block.kind = "seat" THEN block.bal[token] ELSE 0

BackingAtoms(block, token) == IF block.kind = "order" THEN OrderbookAtoms(block, token) ELSE 0

\* Whether reverse_price succeeds: its product is a checked u128.
HasReversePrice(order) ==
    FitsPrice(order.price * IF order.is_bid
                            THEN SPREAD_BASE[order.type]
                            ELSE SPREAD_BASE[order.type] - order.spread)

\* Mutant: the spread lowers the price on both sides.
ReversePriceOneSided(order) ==
    LET base == SPREAD_BASE[order.type]
    IN  MultiplyRational(order.price, base - order.spread, base, FALSE)

ReversePrice(order) ==
    LET base == SPREAD_BASE[order.type]
    IN  IF order.is_bid
        THEN MultiplyRational(order.price, base, base - order.spread, FALSE)
        ELSE MultiplyRational(order.price, base - order.spread, base, TRUE)

-----------------------------------------------------------------------------
(* Reading a market. *)

SeatIndices(m) == {i \in Index : m.data[i].kind = "seat"}

OrderIndices(m) == {i \in Index : m.data[i].kind = "order"}

BookSide(m, is_bid) == {i \in OrderIndices(m) : m.data[i].is_bid = is_bid}

GetTraderIndex(m, trader) ==
    IF \E i \in SeatIndices(m) : m.data[i].trader = trader
    THEN CHOOSE i \in SeatIndices(m) : m.data[i].trader = trader
    ELSE NIL

HasFreeBlock(m) == m.free # <<>>

\* The tree order of two orders of one side: price, then insertion.
Precedes(m, i, j) ==
    LET a == m.data[i]
        b == m.data[j]
    IN  \/ IF a.is_bid THEN a.price > b.price ELSE a.price < b.price
        \/ a.price = b.price /\ a.arrival < b.arrival

\* The index the tree caches as its maximum (none when the side is empty).
BestAmong(m, indices) == {i \in indices : \A j \in indices : ~ Precedes(m, j, i)}

\* Orders that RestingOrder::eq identifies with a reverse order of this maker at
\* this price: same seat, same type, a price at most one increment away.
CoalesceCandidates(m, is_bid, trader_index, type, price) ==
    {i \in BookSide(m, is_bid) :
        /\ m.data[i].trader_index = trader_index
        /\ m.data[i].type = type
        /\ m.data[i].price \in (price - 1) .. (price + 1)}

\* What lookup_index may return: a candidate it meets on its descent.  An order
\* at exactly this price is never missed; one that is an increment away is found
\* only if the shape of the tree puts it on the path.
LookupResults(m, is_bid, trader_index, type, price) ==
    LET candidates == CoalesceCandidates(m, is_bid, trader_index, type, price)
    IN  IF \E i \in candidates : m.data[i].price = price
        THEN candidates
        ELSE candidates \cup {NIL}

\* The free list holds exactly the allocated blocks that hold nothing, each
\* once; nothing lies beyond the allocated blocks.
FreeListSound(m) ==
    /\ \A j, k \in 1 .. Len(m.free) : j # k => m.free[j] # m.free[k]
    /\ \A k \in 1 .. Len(m.free) : m.free[k] < m.num /\ m.data[m.free[k]] = EmptyBlock
    /\ \A i \in Index : m.data[i] = EmptyBlock /\ i < m.num =>
                            \E k \in 1 .. Len(m.free) : m.free[k] = i
    /\ \A i \in Index : i >= m.num => m.data[i] = EmptyBlock

\* The trader_index of a resting order is the index of a seat.
OwnersSeated(m) ==
    \A i \in OrderIndices(m) : m.data[i].trader_index \in SeatIndices(m)

\* The totals of the header are what the blocks add up to.
TotalsSound(m) ==
    \A token \in Tokens :
        /\ m.withdrawable[token] =
                SumFunctionOnSet([i \in Index |-> SeatAtoms(m.data[i], token)], Index)
        /\ m.orderbook[token] =
                SumFunctionOnSet([i \in Index |-> BackingAtoms(m.data[i], token)], Index)

-----------------------------------------------------------------------------
(* Changing a market. *)

\* update_balance, increase (delta >= 0) or decrease.
UpdateBalance(m, i, token, delta) ==
    [m EXCEPT !.data[i].bal[token] = @ + delta, !.withdrawable[token] = @ + delta]

\* Mutant: a decrease is not checked.
CanUpdateBalanceUnchecked(m, i, token, delta) == FitsAtoms(m.data[i].bal[token] + delta)

\* The require! of update_balance for a decrease, and its checked_add for an
\* increase.
CanUpdateBalance(m, i, token, delta) ==
    LET balance == m.data[i].bal[token] + delta
    IN  balance >= 0 /\ FitsAtoms(balance)

\* Mutant: the block is not put on the free list.
RemoveOrderLeaking(m, i) ==
    [m EXCEPT !.data[i] = EmptyBlock,
              !.orderbook = [token \in Tokens |->
                                @[token] - OrderbookAtoms(m.data[i], token)]]

\* remove_order_from_tree_and_free: the block is zeroed and becomes the head of
\* the free list.
RemoveOrder(m, i) ==
    [m EXCEPT !.data[i] = EmptyBlock,
              !.free = <<i>> \o @,
              !.orderbook = [token \in Tokens |->
                                @[token] - OrderbookAtoms(m.data[i], token)]]

\* get_free_address_on_market_fixed and insert_order_into_tree.
InsertOrder(m, order) ==
    [m EXCEPT !.data[Head(m.free)] = order,
              !.free = Tail(@),
              !.orderbook = [token \in Tokens |->
                                @[token] + OrderbookAtoms(order, token)]]

\* Mutant: the total is not maintained.
ResizeOrderOnly(m, i, base_atoms) == [m EXCEPT !.data[i].base = base_atoms]

\* RestingOrder::reduce and RestingOrder::increase.
ResizeOrder(m, i, base_atoms) ==
    LET order == [m.data[i] EXCEPT !.base = base_atoms]
    IN  [m EXCEPT !.data[i] = order,
                  !.orderbook = [token \in Tokens |->
                                    @[token] + OrderbookAtoms(order, token)
                                             - OrderbookAtoms(m.data[i], token)]]

NewSeat(trader) ==
    [kind |-> "seat", trader |-> trader, bal |-> [token \in Tokens |-> 0]]

\* claim_seat_with_index; the seat's index is the head of the free list.
ClaimSeatOn(m, trader) ==
    [m EXCEPT !.data[Head(m.free)] = NewSeat(trader), !.free = Tail(@)]

ReleaseSeat(m, i) ==
    [m EXCEPT !.data[i] = EmptyBlock,
              !.free = <<i>> \o @,
              !.withdrawable = [token \in Tokens |-> @[token] - m.data[i].bal[token]]]

\* market_expand_n: each new block is pushed on the free list.
ExpandBy(m, n) ==
    [m EXCEPT !.num = @ + n, !.free = [k \in 1 .. n |-> m.num + n - k] \o @]

\* expand_market_if_needed: the account cannot outgrow its maximal size.
CanExpandIfNeeded(m) == HasFreeBlock(m) \/ m.num < MAX_BLOCKS

ExpandIfNeeded(m) == IF HasFreeBlock(m) THEN m ELSE ExpandBy(m, 1)

\* free_blocks_short_of_n: NIL stands for None.
FreeBlocksShortOfN(m, n) ==
    IF Len(m.free) <= n THEN n - Len(m.free) ELSE NIL

\* process_create_market leaves one free block on an empty market.
NewMarket ==
    [num |-> 1, data |-> [i \in Index |-> EmptyBlock], free |-> <<0>>, seq |-> 0,
     withdrawable |-> [token \in Tokens |-> 0],
     orderbook |-> [token \in Tokens |-> 0]]

=============================================================================
