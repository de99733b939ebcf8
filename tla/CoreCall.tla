------------------------------ MODULE CoreCall ------------------------------
(***************************************************************************)
(* A program that wraps Manifest calls its BatchUpdate (a cross-program    *)
(* invocation) in the middle of an instruction of its own.  "call" holds   *)
(* the local variables of the caller; the callee runs in "ctx" and "work"  *)
(* as it does on its own.  Only the outermost instruction is atomic: when  *)
(* the callee fails, or the caller does after it, everything the           *)
(* instruction has done is rolled back, earlier calls included.            *)
(*                                                                         *)
(* call.phase is "idle", "prepare", "cpi" while the callee runs, "record"  *)
(* once it has returned and "rollback" once it has failed.  call.records   *)
(* is the BatchUpdateReturn, the sequence number and the index of each     *)
(* order, NIL if it does not rest; call.saved what a rollback restores.    *)
(***************************************************************************)
EXTENDS Manifest

VARIABLE call

\* The callee starts on the accounts as the caller has left them.  The trader
\* index passed as a hint is the signer's seat.
CallCore(a, seat, globals, cancels, orders, caller) ==
    /\ accounts' = a
    /\ work' = a
    /\ ctx' = [Idle EXCEPT !.phase = "cancel", !.seat = seat, !.globals = globals,
                           !.cancels = cancels, !.orders = orders]
    /\ call' = [caller EXCEPT !.phase = "cpi", !.records = <<>>]
    /\ UNCHANGED slot

Calling == call.phase = "cpi"

\* One more step of the callee, other than a trade.
CoreGoesOn ==
    /\ \/ CancelOrder \/ PrepayGas \/ BeginOrder
       \/ CleanStaleMaker \/ CleanUnbackedMaker
       \/ PlaceReverse \/ StopMatching
    /\ UNCHANGED call

\* An order is done: its record is appended to the return data.
CoreRecord == [seq |-> ctx.seq, index |-> IF Rests THEN Head(work.m.free) ELSE NIL]

CorePlaced ==
    /\ FinishOrder
    /\ call' = IF Calling THEN [call EXCEPT !.records = Append(@, CoreRecord)] ELSE call

\* The callee returns, or fails.
CoreReturns ==
    /\ FinishBatch
    /\ call' = IF Calling THEN [call EXCEPT !.phase = "record"] ELSE call

CoreFails ==
    /\ \/ CancelFails \/ PrepayGasFails \/ BeginOrderFails
       \/ FillFails \/ PlaceReverseFails \/ FinishOrderFails
    /\ call' = IF Calling THEN [call EXCEPT !.phase = "rollback"] ELSE call

-----------------------------------------------------------------------------
(* What the two wrapper programs have in common.                           *)

\* The market with a seat of this trader: a wrapper first makes room for it.
SeatedMarket(m, trader) ==
    IF GetTraderIndex(m, trader) # NIL THEN m
    ELSE ExpandIfNeeded(ClaimSeatOn(IF Len(m.free) < 2 THEN ExpandBy(m, 1) ELSE m, trader))

\* The order that an entry o points at: the core has another one at the index,
\* or none.
Gone(m, o) ==
    LET core == m.data[o.index]
    IN  core.kind # "order" \/ core.seq # o.seq \/ core.base = 0

\* The elements of s at some of its positions, in their order.
ElementsAt(s, positions) ==
    LET Rank(k) == Cardinality({j \in positions : j <= k})
    IN  [n \in 1 .. Cardinality(positions) |-> s[CHOOSE k \in positions : Rank(k) = n]]

\* SelectSeq, by the positions of what it selects.
Filter(s, Test(_)) == ElementsAt(s, {k \in DOMAIN s : Test(s[k])})

\* What a taker pays in a trade, and what backs the rest of an order, is there.
DebitsSucceed ==
    /\ \A i \in Index :
        /\ IsMaker(i) /\ IsMatch(i)
        /\ CanTake(ctx.args.type)
        /\ ~ MissingGlobal(i)
        /\ IsGlobalMaker(i) => IsBacked(i)
        => CanUpdateBalance(
                MakerCredited(work.m, work.m.data[i], ctx.args.is_bid, Trade(i)),
                ctx.seat, Backing(ctx.args.is_bid), - Trade(i).paid)
    /\ ctx.phase = "settle" /\ Rests /\ ctx.args.type # "Global" =>
            CanUpdateBalance(work.m, ctx.seat, Backing(ctx.args.is_bid), - RestNotional)

=============================================================================
