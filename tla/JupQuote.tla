------------------------------ MODULE JupQuote ------------------------------
(***************************************************************************)
(* The quote that the Jupiter client (client/rust/jup/src/lib.rs) gives    *)
(* for an exact input: it walks the book of the market account it has      *)
(* read, as the last slot there is, so that every order that can expire    *)
(* is left out.  The program sizes and matches the swap in ways of its     *)
(* own.  Mints are free of transfer fees.                                  *)
(***************************************************************************)
EXTENDS Manifest

LOCAL INSTANCE SequencesExt

\* The orders a taker of this side meets, best first.
Book(m, is_bid) ==
    SetToSortSeq(BookSide(m, ~ is_bid), LAMBDA i, j : Precedes(m, i, j))

Asleep(order) == order.last_valid # NO_EXPIRATION

\* State of a walk: atoms of the input left, atoms of the output matched.
Walk(atoms) == [left |-> atoms, out |-> 0, over |-> FALSE]

\* Mutant: rounded as a full fill.
MatchedQuoteAlwaysFull(order, base, is_bid, full) ==
    QuoteForBase(order.price, base, ~ is_bid)

MatchedQuote(order, base, is_bid, full) == QuoteForBase(order.price, base, is_bid # full)

\* One order: the walk is over at a global order whose account is not passed, goes
\* past one that is not backed or may have expired, and ends in a partial fill.
WalkOrder(a, walk, order, is_bid, globals, limit) ==
    LET full  == limit >= order.base
        base  == IF full THEN order.base ELSE limit
        quote == MatchedQuote(order, base, is_bid, full)
        given == IF is_bid THEN quote ELSE base
        got   == IF is_bid THEN base ELSE quote
        token == Backing(~ is_bid)
        maker == a.m.data[order.trader_index].trader
    IN  IF walk.over \/ Asleep(order) THEN walk
        ELSE IF order.type = "Global" /\ token \notin globals THEN [walk EXCEPT !.over = TRUE]
        ELSE IF order.type = "Global" /\ ~ CanBackOrder(a.glob[token], maker, got) THEN walk
        ELSE [left |-> walk.left - given, out |-> walk.out + got,
              over |-> ~ full \/ (is_bid /\ given = walk.left)]

\* impact_quote_atoms_with_slot for base atoms that are sold.
ImpactQuoteAtoms(a, base_atoms, globals) ==
    LET Visit(walk, i) == WalkOrder(a, walk, a.m.data[i], FALSE, globals, walk.left)
    IN  FoldLeft(Visit, Walk(base_atoms), Book(a.m, FALSE)).out

\* impact_base_atoms_with_slot for quote atoms that are spent.
ImpactBaseAtoms(a, quote_atoms, globals) ==
    LET Visit(walk, i) ==
            WalkOrder(a, walk, a.m.data[i], TRUE, globals,
                      BaseForQuote(a.m.data[i].price, walk.left, FALSE))
    IN  FoldLeft(Visit, Walk(quote_atoms), Book(a.m, TRUE)).out

HasTwoFreeBlocks(m) == Len(m.free) >= 2

\* What the swap of an exact input pays; one atom less than that is quoted.
Impact(a, swap, globals) ==
    IF swap.is_base_in THEN ImpactQuoteAtoms(a, swap.in, globals)
                       ELSE ImpactBaseAtoms(a, swap.in, globals)

Quoted(a, swap, globals) ==
    LET out == Impact(a, swap, globals)
    IN  IF HasTwoFreeBlocks(a.m) /\ out > 0 THEN out - 1 ELSE 0

-----------------------------------------------------------------------------

\* On the side a swap walks, nothing is alive that will expire, no deposit backs two
\* orders, and no global order stands in a mint with a transfer hook (or fee): the
\* walks look at its owner's deposit only, matching refuses to deliver it.
BookSteady(is_bid) ==
    LET side == {accounts.m.data[i] : i \in BookSide(accounts.m, ~ is_bid)}
        globals == {order \in side : order.type = "Global"}
    IN  /\ \A order \in side : Asleep(order) => IsExpired(order, slot)
        /\ \A order, other \in globals :
            order.trader_index = other.trader_index => order = other
        /\ globals # {} => Backing(~ is_bid) \notin HookMints

\* A swap that asks for no more than the client quotes on the state the swap runs
\* on does not fail and pays it, though the program sizes the order with a walk
\* that skips by the slot of the day and fills it with a loop that removes,
\* reduces and reverses the orders it meets.  The exceptions are those of BookSteady:
\* what the quote takes for an offer, and the swap does not find.
QuoteKept ==
    [][ctx.kind = "swap" /\ ctx' = Idle =>
        LET swap == ctx.swap
            out  == OutToken(swap)
        IN  /\ swap.is_exact_in
            /\ BookSteady(~ swap.is_base_in)
            /\ HasTwoFreeBlocks(accounts.m)
            /\ swap.out <= Impact(accounts, swap, ctx.globals)
            => accounts'.wallet[Swapper][out]
                    >= accounts.wallet[Swapper][out] + Impact(accounts, swap, ctx.globals)]_vars

=============================================================================
