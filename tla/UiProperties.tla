---------------------------- MODULE UiProperties ----------------------------
(* What the owner of a UI wrapper account, and whoever charges it, relies on. *)
EXTENDS UiWrapper

UiEntries == {ui.orders[k] : k \in DOMAIN ui.orders}

UiInfoNodes == IF HasInfo THEN {ui.info} ELSE {}

\* The blocks of the account hold a market info or one open order, or are on
\* the free list, each of them once, whatever was placed, cancelled or dropped
\* by a sync in the same instruction.
UiBlocksSound ==
    LET free    == {ui.free[k] : k \in DOMAIN ui.free}
        entries == {o.block : o \in UiEntries}
    IN  /\ free \cup entries \cup UiInfoNodes = 0 .. (ui.num - 1)
        /\ Len(ui.free) + Len(ui.orders) + Cardinality(UiInfoNodes) = ui.num

\* The fees received, by the platform and the referrer, are worth the volume that
\* counts as paid: settling often, with a fee that rounds to nothing, never makes
\* volume disappear.
FeesCoverPaidVolume == (bill.platform + bill.referrer) * FEE_DENOMINATOR >= bill.owed

\* Every quote atom that the seat has traded since the account registered it,
\* as a maker or a taker, is paid for, waits to be, or is not seen yet: it is
\* billed once, across cancels, settlements, failed calls and the overflow of
\* the seat's counter (cancel_order: a later settlement would "permanently skip
\* the platform/referrer fee"; place_order: "prevent double billing").  And what
\* counts as paid was.
VolumeBilledOnce ==
    /\ HasInfo =>
        volume.kept - bill.since
            = bill.paid + ui.unpaid + ((Counter(volume.kept) - ui.volume) % (ATOM_LIMIT + 1))
    /\ FeesCoverPaidVolume

\* What process_place_order deposits always suffices: the core never turns the
\* order down for want of funds, whether the seat is new, was traded on or
\* withdrawn from directly, and also when the owner's orders meet each other.
UiOrderFunded == Calling /\ call.kind = "place" => DebitsSucceed

\* Placing an order and settling leave the exact truth: the entries are the
\* owner's live orders (but for those a reversal has placed), each with its size,
\* price and side, and the balances are those of the seat.
UiViewExact ==
    [][ui' # ui /\ call' = NoCall /\ HasInfo'
            /\ call.kind = "place" /\ call.phase # "rollback" =>
        LET m == accounts'.m
        IN  /\ \A k \in DOMAIN ui'.orders :
                LET o == ui'.orders[k]
                IN  /\ ~ Gone(m, o)
                    /\ <<o.base, o.price, o.is_bid>>
                        = <<m.data[o.index].base, m.data[o.index].price, m.data[o.index].is_bid>>
            /\ \A i \in OrderIndices(m) :
                m.data[i].trader_index = ui'.seat /\ ~ IsReversible(m.data[i].type) =>
                    \E k \in DOMAIN ui'.orders : ui'.orders[k].index = i
            /\ HasInfo => ui'.bal = m.data[ui'.seat].bal]_uvars

=============================================================================
