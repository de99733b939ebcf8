------------------------------ MODULE Matching ------------------------------
(***************************************************************************)
(* What one iteration of the matching loop of place_order_on_side does to  *)
(* the market account (programs/manifest/src/state/market.rs).             *)
(*                                                                         *)
(* is_bid is the side of the taker's order; the taker pays in              *)
(* Backing(is_bid), the token the maker receives, and gets                 *)
(* Backing(~is_bid), the token that backs the maker's order.               *)
(***************************************************************************)
EXTENDS MarketState

\* Mutant: nothing is refunded.
ReturnOrderUnrefunded(m, i) == RemoveOrder(m, i)

\* Give a resting order's atoms back to its owner and drop it: what
\* remove_and_update_balances and cancel_order_on_side both do.
ReturnOrder(m, i) ==
    LET order == m.data[i]
    IN  IF order.type = "Global"
        THEN RemoveOrder(m, i)
        ELSE RemoveOrder(
                UpdateBalance(m, order.trader_index, Backing(order.is_bid),
                    NotionalAtoms(order.is_bid, order.price, order.base)), i)

CanReturnOrder(m, i) ==
    LET order == m.data[i]
    IN  order.type = "Global" \/
        CanUpdateBalance(m, order.trader_index, Backing(order.is_bid),
            NotionalAtoms(order.is_bid, order.price, order.base))

\* cancel_order_on_side computes the refund of any bid and unwraps it before it
\* looks at the type of the order.
CanCancelOrder(m, i) ==
    LET order == m.data[i]
    IN  /\ order.is_bid => FitsAtoms(NotionalAtoms(order.is_bid, order.price, order.base))
        /\ CanReturnOrder(m, i)

\* Orders that the loop drops before it looks at their price.
IsStale(order, now_slot) == IsExpired(order, now_slot) \/ order.base = 0

\* Whether a maker's price satisfies the taker's limit.
Crosses(order, is_bid, price) ==
    IF is_bid THEN order.price <= price ELSE order.price >= price

\* Mutant: the quote is always rounded up.
TradeWithRoundedUp(order, is_bid, remaining) ==
    LET full  == remaining >= order.base
        base  == IF full THEN order.base ELSE remaining
        quote == QuoteForBase(order.price, base, TRUE)
    IN  [full |-> full, base |-> base, quote |-> quote,
         paid |-> IF is_bid THEN quote ELSE base,
         got  |-> IF is_bid THEN base ELSE quote]

\* The trade between a maker's order and what remains of the taker's: a full
\* fill rounds the quote in favour of the taker, a partial one in favour of the
\* maker.
TradeWith(order, is_bid, remaining) ==
    LET full  == remaining >= order.base
        base  == IF full THEN order.base ELSE remaining
        quote == QuoteForBase(order.price, base, is_bid # full)
    IN  [full |-> full, base |-> base, quote |-> quote,
         paid |-> IF is_bid THEN quote ELSE base,
         got  |-> IF is_bid THEN base ELSE quote]

\* The atom that a bid reserved for the rounding and no longer needs.
BonusAtom(order, trade) ==
    IF order.is_bid /\ order.type # "Global"
    THEN QuoteForBase(order.price, order.base, TRUE)
            - QuoteForBase(order.price, order.base - trade.base, TRUE)
            - trade.quote
    ELSE 0

\* The balances after a trade: the maker is credited the bonus and what the
\* taker pays, then the taker is debited, then credited.
MakerCredited(m, order, is_bid, trade) ==
    UpdateBalance(
        UpdateBalance(m, order.trader_index, Backing(~ is_bid), BonusAtom(order, trade)),
        order.trader_index, Backing(is_bid), trade.paid)

TakerDebited(m, taker, order, is_bid, trade) ==
    UpdateBalance(MakerCredited(m, order, is_bid, trade),
                  taker, Backing(is_bid), - trade.paid)

Settled(m, taker, order, is_bid, trade) ==
    UpdateBalance(TakerDebited(m, taker, order, is_bid, trade),
                  taker, Backing(~ is_bid), trade.got)

\* Every checked operation of the trade succeeds.
CanTrade(m, taker, order, is_bid, trade) ==
    /\ FitsAtoms(trade.quote)
    /\ BonusAtom(order, trade) >= 0
    /\ CanUpdateBalance(m, order.trader_index, Backing(~ is_bid), BonusAtom(order, trade))
    /\ CanUpdateBalance(
            UpdateBalance(m, order.trader_index, Backing(~ is_bid), BonusAtom(order, trade)),
            order.trader_index, Backing(is_bid), trade.paid)
    /\ CanUpdateBalance(MakerCredited(m, order, is_bid, trade),
                        taker, Backing(is_bid), - trade.paid)
    /\ CanUpdateBalance(TakerDebited(m, taker, order, is_bid, trade),
                        taker, Backing(~ is_bid), trade.got)

\* The market after the trade: the maker's order is gone or smaller.
Traded(m, taker, i, is_bid, trade) ==
    LET order == m.data[i]
        after == Settled(m, taker, order, is_bid, trade)
    IN  IF trade.full THEN RemoveOrder(after, i)
                      ELSE ResizeOrder(after, i, order.base - trade.base)

-----------------------------------------------------------------------------
(* The order that a filled reverse order places on the other side.  A      *)
(* reversal r is [trader_index, type, spread, price, base, quote]: the     *)
(* maker, the reversed price and what was traded.                          *)

ReverseBase(r, is_bid) ==
    IF is_bid THEN BaseForQuote(r.price, r.quote, FALSE) ELSE r.base

\* Base atoms added to the order at index i that the reversal coalesces into.
CoalescedBase(m, i, r, is_bid) ==
    IF is_bid
    THEN ReverseBidCoalesceBase(m.data[i].price, m.data[i].base,
                                ReverseBase(r, is_bid), r.quote)
    ELSE ReverseBase(r, is_bid)

\* Atoms of Backing(is_bid) the maker pays for the reversal (i = NIL: it rests
\* as an order of its own).
ReverseDebit(m, i, r, is_bid) ==
    CASE i = NIL -> NotionalAtoms(is_bid, r.price, ReverseBase(r, is_bid))
      [] i # NIL /\ is_bid -> ReverseBidCoalesceQuote(m.data[i].price, m.data[i].base,
                                                      CoalescedBase(m, i, r, is_bid))
      [] i # NIL /\ ~ is_bid -> ReverseBase(r, is_bid)

\* The book with the reversal on it, before the maker is debited.
ReversePlaced(m, i, r, is_bid) ==
    CASE i # NIL -> ResizeOrder(m, i, m.data[i].base + CoalescedBase(m, i, r, is_bid))
      [] i = NIL /\ ReverseBase(r, is_bid) = 0 -> m
      [] i = NIL /\ ReverseBase(r, is_bid) # 0 ->
            [InsertOrder(m, [kind |-> "order", trader_index |-> r.trader_index,
                             base |-> ReverseBase(r, is_bid), price |-> r.price,
                             seq |-> m.seq, last_valid |-> NO_EXPIRATION,
                             is_bid |-> is_bid, type |-> r.type,
                             spread |-> r.spread, arrival |-> m.seq])
             EXCEPT !.seq = @ + 1]

Reversed(m, i, r, is_bid) ==
    UpdateBalance(ReversePlaced(m, i, r, is_bid), r.trader_index, Backing(is_bid),
                  - ReverseDebit(m, i, r, is_bid))

\* A fresh reverse order takes a block; with none left the program would index
\* the account at NIL.
ReverseNeedsBlock(i, r, is_bid) == i = NIL /\ ReverseBase(r, is_bid) # 0

CanReverse(m, i, r, is_bid) ==
    /\ FitsAtoms(ReverseBase(r, is_bid))
    /\ ReverseNeedsBlock(i, r, is_bid) => HasFreeBlock(m)
    /\ i # NIL =>
        /\ CoalescedBase(m, i, r, is_bid) >= 0
        /\ FitsAtoms(m.data[i].base + ReverseBase(r, is_bid))
        /\ FitsAtoms(NotionalAtoms(is_bid, m.data[i].price,
                                   m.data[i].base + ReverseBase(r, is_bid)))
    /\ i = NIL => FitsAtoms(ReverseDebit(m, i, r, is_bid))
    /\ CanUpdateBalance(m, r.trader_index, Backing(is_bid), - ReverseDebit(m, i, r, is_bid))

=============================================================================
