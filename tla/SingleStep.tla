----------------------------- MODULE SingleStep -----------------------------
(***************************************************************************)
(* place_single_order and place_reverse_order of                           *)
(* programs/manifest/src/state/market_helpers.rs: the iteration of the     *)
(* matching loop of place_order, written a second time for the formal      *)
(* verification of the program, which reasons about this step in place of  *)
(* the loop.  "It must stay behaviourally identical to the body of that    *)
(* loop."                                                                  *)
(*                                                                         *)
(* A call is an action here, over the variables of Manifest, to compare    *)
(* with the steps that the loop takes.  An error ends the instruction.     *)
(***************************************************************************)
EXTENDS Manifest

\* The fields of AddSingleOrderCtx and what the call changes elsewhere.
StepState ==
    [m |-> work.m, global |-> work.glob[MakerToken], remaining |-> ctx.remaining,
     traded |-> ctx.traded, pending |-> ctx.pending, refunds |-> ctx.refunds]

BestIndex(m, indices) ==
    IF indices = {} THEN NIL ELSE CHOOSE i \in BestAmong(m, indices) : TRUE

\* get_next_candidate_match_index, read before the order at i is touched.
NextOrderIndex(i) == BestIndex(work.m, BookSide(work.m, ~ ctx.args.is_bid) \ {i})

\* The caller goes on with the returned index, or stops at NIL.
GoesOn(next_order_index) ==
    /\ ctx'.phase # "settle"
    /\ ctx'.remaining > 0 =>
            BestIndex(work.m, BookSide(work.m, ~ ctx.args.is_bid))' = next_order_index

Stops == ctx'.phase = "settle" \/ ctx'.remaining = 0

Fails == ctx' = Idle

Maker(i) == work.m.data[i]

Full(i) == ctx.remaining >= Maker(i).base

BaseTraded(i) == IF Full(i) THEN Maker(i).base ELSE ctx.remaining

QuoteTraded(i) == QuoteForBase(Maker(i).price, BaseTraded(i), ctx.args.is_bid # Full(i))

AtomsNeeded(i) == IF ctx.args.is_bid THEN BaseTraded(i) ELSE QuoteTraded(i)

AtomsPaid(i) == IF ctx.args.is_bid THEN QuoteTraded(i) ELSE BaseTraded(i)

GlobalPassed == MakerToken \in ctx.globals

HasEnoughTokens(i) ==
    LET maker == work.m.data[Maker(i).trader_index].trader
    IN  /\ HasGlobalSeat(work.glob[MakerToken], maker)
        /\ CanBackOrder(work.glob[MakerToken], maker, AtomsNeeded(i))
        /\ MakerToken \notin HookMints

\* remove_and_update_balances, when an order expired or cannot be backed.
DropMaker(i) ==
    IF CanReturnOrder(work.m, i)
    THEN /\ StepState' = [StepState EXCEPT !.m = ReturnOrder(@, i),
                                           !.refunds = DeferredRefunds(Maker(i))]
         /\ GoesOn(NextOrderIndex(i))
    ELSE Fails

-----------------------------------------------------------------------------
(* The calls of update_balance, in their order.  The taker is debited      *)
(* before the maker is credited: "Certora : the manifest code first        *)
(* increased the maker for the matched amount, then decreased the taker."  *)

Move(seat, token, atoms) == [seat |-> seat, token |-> token, atoms |-> atoms]

Bonus(i) ==
    QuoteForBase(Maker(i).price, Maker(i).base, TRUE)
        - QuoteForBase(Maker(i).price, Maker(i).base - BaseTraded(i), TRUE)
        - QuoteTraded(i)

Moves(i) ==
    LET pays  == Backing(ctx.args.is_bid)
        gets  == Backing(~ ctx.args.is_bid)
        maker == Maker(i).trader_index
    IN  (IF ctx.args.is_bid \/ Maker(i).type = "Global" THEN << >>
         ELSE << Move(maker, gets, Bonus(i)) >>)
        \o << Move(ctx.seat, pays, - AtomsPaid(i)), Move(maker, pays, AtomsPaid(i)),
              Move(ctx.seat, gets, AtomsNeeded(i)) >>

\* The market after the first n moves.
MovedBy(i) ==
    LET moves == Moves(i)
        after[n \in 0 .. Len(moves)] ==
            IF n = 0 THEN work.m
            ELSE UpdateBalance(after[n - 1], moves[n].seat, moves[n].token, moves[n].atoms)
    IN  after

CanSettle(i) ==
    LET moves == Moves(i)
    IN  /\ FitsAtoms(ctx.pending + AtomsNeeded(i))
        /\ FitsAtoms(ctx.traded["base"] + BaseTraded(i))
        /\ FitsAtoms(ctx.traded["quote"] + QuoteTraded(i))
        /\ ~ ctx.args.is_bid /\ Maker(i).type # "Global" => Bonus(i) >= 0
        /\ \A n \in DOMAIN moves :
            CanUpdateBalance(MovedBy(i)[n - 1], moves[n].seat, moves[n].token, moves[n].atoms)

\* The trade itself: a full fill goes on to the next order, a partial one stops;
\* a reverse order whose price can be computed comes back.
SettleTrade(i) ==
    LET order    == Maker(i)
        settled  == MovedBy(i)[Len(Moves(i))]
        maker    == work.m.data[order.trader_index].trader
        reverses == IsReversible(order.type) /\ HasReversePrice(order)
    IN  /\ StepState' =
            [m         |-> IF Full(i) THEN RemoveOrder(settled, i)
                           ELSE ResizeOrder(settled, i, order.base - BaseTraded(i)),
             global    |-> IF order.type = "Global"
                           THEN UpdateDeposit(work.glob[MakerToken], maker, - AtomsNeeded(i))
                           ELSE work.glob[MakerToken],
             remaining |-> IF Full(i) THEN ctx.remaining - BaseTraded(i) ELSE 0,
             traded    |-> [base  |-> ctx.traded["base"] + BaseTraded(i),
                            quote |-> ctx.traded["quote"] + QuoteTraded(i)],
             pending   |-> ctx.pending + IF order.type = "Global" THEN AtomsNeeded(i) ELSE 0,
             refunds   |-> IF Full(i) THEN DeferredRefunds(order) ELSE ctx.refunds]
        /\ IF Full(i) THEN GoesOn(NextOrderIndex(i)) ELSE Stops
        /\ (ctx'.phase = "reverse") = reverses
        /\ reverses =>
            ctx'.reversal = [trader_index |-> order.trader_index, type |-> order.type,
                             spread |-> order.spread, price |-> ReversePrice(order),
                             base |-> BaseTraded(i), quote |-> QuoteTraded(i), full |-> Full(i)]

Take(i) == IF CanSettle(i) THEN SettleTrade(i) ELSE Fails

\* A global maker: its account must be there, and its tokens.
TakeGlobal(i) ==
    IF ~ GlobalPassed
    THEN IF CanRest(ctx.args.type) THEN Fails ELSE Stops /\ StepState' = StepState
    ELSE IF HasEnoughTokens(i) THEN Take(i) ELSE DropMaker(i)

Match(i) ==
    IF ~ CanTake(ctx.args.type) \/ ~ FitsAtoms(QuoteTraded(i))
    THEN Fails
    ELSE IF Maker(i).type = "Global" THEN TakeGlobal(i) ELSE Take(i)

WithinPrice(i) ==
    IF ctx.args.is_bid THEN Maker(i).price <= ctx.args.price ELSE Maker(i).price >= ctx.args.price

PlaceSingleOrder(i) ==
    IF IsExpired(Maker(i), slot) \/ Maker(i).base = 0
    THEN DropMaker(i)
    ELSE IF WithinPrice(i) THEN Match(i) ELSE Stops /\ StepState' = StepState

-----------------------------------------------------------------------------
(* place_reverse_order, with r as in Matching and the lookup's result i.   *)

BaseReversed(r) ==
    IF ctx.args.is_bid THEN BaseForQuote(r.price, r.quote, FALSE) ELSE r.base

\* What the reversal adds to the order it coalesces into, or rests with, and what
\* its owner pays for it.
BaseAdded(r, i) ==
    IF ctx.args.is_bid /\ i # NIL
    THEN ReverseBidCoalesceBase(Maker(i).price, Maker(i).base, BaseReversed(r), r.quote)
    ELSE BaseReversed(r)

ReversePaid(r, i) ==
    IF ~ ctx.args.is_bid THEN BaseReversed(r)
    ELSE IF i = NIL THEN QuoteForBase(r.price, BaseReversed(r), TRUE)
    ELSE ReverseBidCoalesceQuote(Maker(i).price, Maker(i).base, BaseAdded(r, i))

NewReverseOrder(r) ==
    [kind |-> "order", trader_index |-> r.trader_index, base |-> BaseReversed(r),
     price |-> r.price, seq |-> work.m.seq, last_valid |-> NO_EXPIRATION,
     is_bid |-> ctx.args.is_bid, type |-> r.type, spread |-> r.spread,
     arrival |-> work.m.seq]

ReverseOnBook(r, i) ==
    IF i # NIL THEN ResizeOrder(work.m, i, Maker(i).base + BaseAdded(r, i))
    ELSE IF BaseReversed(r) = 0 THEN work.m
    ELSE InsertOrder([work.m EXCEPT !.seq = @ + 1], NewReverseOrder(r))

PlaceReverseOrder(i) ==
    LET r     == ctx.reversal
        token == Backing(ctx.args.is_bid)
        fits  == IF i = NIL
                 THEN /\ FitsAtoms(ReversePaid(r, i))
                      /\ BaseReversed(r) > 0 => HasFreeBlock(work.m)
                 ELSE /\ BaseAdded(r, i) >= 0
                      /\ FitsAtoms(Maker(i).base + BaseReversed(r))
                      /\ ctx.args.is_bid =>
                            FitsAtoms(QuoteForBase(Maker(i).price, Maker(i).base + BaseReversed(r), TRUE))
    IN  IF /\ FitsAtoms(BaseReversed(r))
           /\ fits
           /\ CanUpdateBalance(work.m, r.trader_index, token, - ReversePaid(r, i))
        THEN /\ work'.m = UpdateBalance(ReverseOnBook(r, i), r.trader_index, token,
                                        - ReversePaid(r, i))
             /\ ctx'.phase = "match"
        ELSE Fails

-----------------------------------------------------------------------------

\* Whether the taker meets its own order.
OwnOrder(i) == Maker(i).trader_index = ctx.seat

\* Every iteration of the matching loop does what place_single_order does with
\* the same order (market_helpers.rs:249: "It must stay behaviourally identical to
\* the body of that loop"), and every reversal what place_reverse_order does: the
\* same book, balances, deposits and counters, the same next order and the same
\* failures.  The one exception is a taker that meets its own order, where a debit
\* before the credit may fail and a credit before the debit may overflow.
SingleStepAgrees ==
    [][/\ ctx.phase = "match" /\ ctx.remaining > 0 =>
            \A i \in BestAmong(work.m, BookSide(work.m, ~ ctx.args.is_bid)) :
                \/ PlaceSingleOrder(i)
                \/ OwnOrder(i) /\ IsMatch(i) /\ (Fails \/ ~ CanSettle(i))
       /\ ctx.phase = "reverse" => \E i \in ReverseTargets : PlaceReverseOrder(i)]_vars

=============================================================================
