------------------------- MODULE WrapperProperties -------------------------
(***************************************************************************)
(* What the owner of a wrapper relies on.  Entry and core order are        *)
(* compared only between instructions or where the program compares them.  *)
(***************************************************************************)
EXTENDS Wrapper

WrapperEntries == {wrapper.orders[k] : k \in DOMAIN wrapper.orders}

IsExact(o, m) ==
    /\ ~ Gone(m, o)
    /\ o.base = m.data[o.index].base
    /\ o.price = m.data[o.index].price

LostEntries == {wrapper.lost[k] : k \in DOMAIN wrapper.lost}

\* The blocks of the wrapper hold a market info or one open order, or are on
\* the free list, each of them once, whatever was synced, cancelled or placed in
\* one instruction: no block leaks and none is handed out twice.
WrapperBlocksSound ==
    LET free    == {wrapper.free[k] : k \in DOMAIN wrapper.free}
        entries == {o.block : o \in WrapperEntries \cup LostEntries}
    IN  /\ free \cup entries \cup InfoNodes = 0 .. (wrapper.num - 1)
        /\ Len(wrapper.free) + Len(wrapper.orders) + Len(wrapper.lost)
                + Cardinality(InfoNodes) = wrapper.num

\* The core never rejects a cancel that the wrapper sends: every hint names a
\* live order of the owner and none is sent twice, though the walk may have been
\* skipped, orders share client ids and cancel_all adds orders from the book
\* ("one stale hint fails the whole instruction").
CancelsAccepted ==
    Calling /\ ctx.phase = "cancel" /\ ctx.cancels # <<>> =>
        \E i \in Index : /\ IsCancelTarget(i, Head(ctx.cancels))
                         /\ CanCancelOrder(work.m, i)

\* A post-only order that the wrapper forwards never crosses when the core gets
\* to it, whatever the orders before it in the batch have done to the book: it
\* would fail the whole batch.
PostOnlyNeverCrosses ==
    Calling /\ ctx.args.type = "PostOnly" => ~ \E i \in Index : IsMaker(i) /\ IsMatch(i)

\* The core can always debit the owner for an order that the wrapper forwards,
\* when it trades and when the rest of it is placed.
OrdersFunded == Calling => DebitsSucceed

\* So it is in a batch that cancels no global order: the funds of the orders it
\* forwards are there, together, after its cancels.
FundedUnlessGlobalCancelled == ~ call.unfunded => OrdersFunded

\* On a market where nothing seems to have happened since the last sync, which
\* is when the walk is skipped, an entry has the size and price of its order;
\* and its order is there unless it was cancelled on the core or cleaned.
ViewExactWhenQuiet ==
    Ready /\ HasInfo /\ Quiet(wrapper, accounts.m) =>
        \A o \in WrapperEntries :
            /\ outside = {} => ~ Gone(accounts.m, o)
            /\ ~ Gone(accounts.m, o) => IsExact(o, accounts.m)

\* An order of the owner that rests on the core, and was not put there by a
\* reversal, has an entry of its side and type that the wrapper finds (the owner
\* places orders through the wrapper only), and the global ones are counted.  It
\* takes a third ClaimSeat to hide entries behind an empty market info; those are
\* out of reach of cancels by client order id and of cancel_all, but not gone.
EntriesOnAccount ==
    IF Cardinality(InfoNodes) > 2 THEN WrapperEntries \cup LostEntries ELSE WrapperEntries

OrdersTracked ==
    Ready /\ HasInfo =>
        /\ \A i \in OrderIndices(accounts.m) :
            LET core == accounts.m.data[i]
            IN  core.trader_index = wrapper.seat /\ ~ IsReversible(core.type) =>
                    \E o \in EntriesOnAccount :
                        /\ o.seq = core.seq /\ o.index = i
                        /\ o.is_bid = core.is_bid /\ o.type = core.type
        /\ wrapper.globals = GlobalCount(wrapper.orders)

\* A batch that has placed an order leaves an exact view, whatever had been
\* missed before: no entry without its order.
PlacementHeals ==
    [][call.placed /\ call' = NoCall /\ call.phase # "rollback" =>
        \A k \in DOMAIN wrapper'.orders : IsExact(wrapper'.orders[k], accounts'.m)]_wvars

=============================================================================
