----------------------------- MODULE MCWrapper -----------------------------
(***************************************************************************)
(* Instances of Wrapper for TLC: t1 has the wrapper and its orders, t2     *)
(* trades with it directly.                                                *)
(***************************************************************************)
EXTENDS WrapperProperties, MCStart

Sent(id, is_bid, base, price, type, last_valid) ==
    [id |-> id, args |-> Order(is_bid, base, price, type, last_valid)]

WrapperBatch(cancels, cancel_all, orders) ==
    [cancels |-> cancels, cancel_all |-> cancel_all, orders |-> orders]

\* Both traders are funded; t1 also has a global deposit.
WrapperFunded ==
    LET seated == Seated(Seated(NewAccounts(InitialWallet), t1), t2)
        local  == Deposited(Deposited(Deposited(seated, t1, "base", 2), t1, "quote", 2),
                            t2, "base", 1)
    IN  GlobalDeposited(Deposited(local, t2, "quote", 2), t1, "base", 1)

\* A wrapper from before the list: a market info and an order of t1 in a tree.
LegacyBid(m) ==
    [kind |-> "order", trader_index |-> GetTraderIndex(m, t1), base |-> 1, price |-> 4,
     seq |-> 0, last_valid |-> 1, is_bid |-> TRUE, type |-> "Limit", spread |-> 0,
     arrival |-> 0]

LegacyMarket(m) ==
    [ExpandIfNeeded(InsertOrder(UpdateBalance(m, GetTraderIndex(m, t1), "quote", -2),
                                LegacyBid(m))) EXCEPT !.seq = 1]

LegacyWrapper(m) ==
    LET made == EnsureFreeSlots(NoWrapper, 1)
    IN  [EnsureFreeSlots(made, 2) EXCEPT
            !.info = 0, !.layout = "tree", !.seat = GetTraderIndex(m, t1),
            !.free = SelectSeq(@, LAMBDA b : b > 1),
            !.orders = <<[block |-> 1, id |-> 1, seq |-> 0,
                          index |-> CHOOSE i \in OrderIndices(m) : TRUE,
                          base |-> 1, price |-> 4, is_bid |-> TRUE, type |-> "Limit"]>>]

LegacyAccounts == [WrapperFunded EXCEPT !.m = LegacyMarket(@)]

WrapperInit ==
    /\ call = NoCall
    /\ outside = {}
    /\ \/ StartFrom(WrapperFunded) /\ wrapper = NoWrapper
       \/ StartFrom(LegacyAccounts) /\ wrapper = LegacyWrapper(LegacyAccounts.m)

\* A bound: the owner claims its seat again only while it has several orders that
\* the market info it adds may hide.
ClaimsAgain == wrapper'.twins # wrapper.twins => Len(wrapper.orders) > 1

StartWrapper == WrapperInit /\ [][WrapperNext /\ ClaimsAgain]_wvars

MCWrapperBatches ==
    {WrapperBatch({}, FALSE, <<Sent(1, TRUE, 1, 3, "Limit", 1), Sent(2, FALSE, 1, 3, "PostOnly", 0)>>),
     WrapperBatch({}, FALSE, <<Sent(1, TRUE, 2, 2, "PostOnly", 0), Sent(3, FALSE, 1, 4, "Global", 0)>>),
     WrapperBatch({1}, FALSE, <<Sent(1, TRUE, 1, 4, "Limit", 0), Sent(2, TRUE, 1, 2, "Limit", 0)>>),
     WrapperBatch({3}, FALSE, <<Sent(2, FALSE, 3, 5, "Limit", 0)>>),
     WrapperBatch({2}, TRUE, <<Sent(1, TRUE, 1, 3, "PostOnly", 0), Sent(2, FALSE, 1, 3, "PostOnly", 0)>>)}

WrapperDirect ==
    PerTrader({Batch(1, <<>>)},
              Single({Order(FALSE, 1, 2, "Limit", 0), Order(TRUE, 1, 4, "ImmediateOrCancel", 0)}))

WrapperWallet == [t \in Traders |-> [base |-> IF t = t1 THEN 3 ELSE 1, quote |-> 2]]

BaseOnly == {{"base"}}

=============================================================================
