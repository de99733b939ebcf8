----------------------------- MODULE MCManifest -----------------------------
(***************************************************************************)
(* Instances of Manifest for TLC.  Prices are in halves (D18 = 2), so that *)
(* odd amounts round.  A run explores several scenes, each with a start    *)
(* state, the batches, swaps and other instructions that may arrive, and   *)
(* its bounds.  The start states are reached from Init by the instructions *)
(* they are composed of.                                                   *)
(***************************************************************************)
EXTENDS MCStart, ManifestProperties, SingleStep, JupQuote, TransferFees

VARIABLE scene

\* Both traders hold a seat and some of each token on the market.
TwoFunded == BothTokens(BothTokens(BothSeated(NewAccounts(Wallets(3, 3))), t1, 3, 3), t2, 3, 3)

\* At the edges the supply of a token is just what fits.
EdgesWallet == Wallets(4, 4)

\* One trader deposits on the global accounts, the other may evict it.
GlobalFunded ==
    LET local == BothTokens(BothSeated(NewAccounts(EdgesWallet)), t2, 2, 2)
    IN  GlobalDeposited(GlobalDeposited(local, t1, "base", 1), t1, "quote", 2)

\* One trader has a seat, the other swaps without.
SwapFunded == BothTokens(Seated(NewAccounts(Wallets(6, 6)), t1), t1, 4, 4)

-----------------------------------------------------------------------------
(* The scenes. *)

\* lifecycle: everything a trader can do, from an empty market.
LifecycleAccounts ==
    NewAccounts([t \in Traders |-> [base |-> 1, quote |-> IF t = t1 THEN 1 ELSE 0]])

LifecycleBatches ==
    PerTrader(Single({Order(TRUE, 1, 2, "Limit", 0)}) \cup {Batch(1, <<>>)},
              Single({Order(FALSE, 1, 2, "Limit", 0)}))

\* edges: amounts at their limit, global accounts that are not passed, a mint
\* with a transfer hook, swaps that walk past orders they cannot take.
EdgesBatches ==
    PerTrader(
        Single({Order(TRUE, 2, 2, "Global", 0), Order(FALSE, 1, 3, "Global", 2),
                Order(FALSE, 5, 4, "Global", 0), Order(TRUE, 5, 4, "Global", 0)}),
        Single({Order(FALSE, 1, 1, "Limit", 0), Order(FALSE, 1, 4, "Limit", 2),
                Order(TRUE, 5, 5, "ImmediateOrCancel", 0)}))

EdgesSwaps ==
    PerTrader({Swap4(2, 1, FALSE, TRUE), Swap4(2, 1, TRUE, FALSE)},
              {Swap4(1, 0, TRUE, TRUE), Swap4(1, 2, TRUE, FALSE), Swap4(2, 0, FALSE, TRUE)})

\* spot: limit, post-only and immediate-or-cancel orders that expire, and
\* batches of a cancel and two orders.
SpotBatches ==
    PerTrader(
        Single({Order(TRUE, 2, 1, "PostOnly", 2), Order(TRUE, 1, 3, "Limit", 0),
                Order(FALSE, 2, 3, "PostOnly", 0)}) \cup {Batch(1, <<>>)},
        Single({Order(FALSE, 2, 1, "Limit", 2), Order(TRUE, 1, 3, "Limit", 0)})
            \cup {Batch(1, <<Order(FALSE, 2, 1, "ImmediateOrCancel", 0),
                             Order(TRUE, 1, 3, "Limit", 0)>>)})

\* reverse: orders that come back on the other side when they are filled.
ReverseBatches ==
    PerTrader(
        Single({Order(FALSE, 3, 4, "Reverse", 2), Order(TRUE, 2, 3, "Reverse", 1),
                Order(FALSE, 2, 5, "Reverse", 1), Order(TRUE, 1, 5, "Limit", 0)}),
        Single({Order(TRUE, 1, 5, "Limit", 0), Order(TRUE, 2, 5, "ImmediateOrCancel", 0),
                Order(FALSE, 1, 2, "Limit", 0), Order(FALSE, 3, 2, "ReverseTight", 1)}))

\* swap: market orders of a trader with and without a seat.
SwapBatches ==
    PerTrader(
        Single({Order(FALSE, 1, 3, "Limit", 2),
                Order(TRUE, 3, 1, "Reverse", 1), Order(TRUE, 1, 2, "Limit", 0)}), {})

SwapKinds ==
    PerTrader({Swap4(2, 1, TRUE, TRUE)},
        {Swap4(2, 1, TRUE, TRUE), Swap4(4, 1, FALSE, TRUE), Swap4(1, 0, FALSE, TRUE),
         Swap4(4, 1, TRUE, FALSE), Swap4(4, 2, FALSE, FALSE)})

\* global: orders that a deposit on a global account backs.
GlobalBatches ==
    PerTrader(
        Single({Order(TRUE, 2, 2, "Global", 0), Order(FALSE, 1, 3, "Global", 2),
                Order(FALSE, 1, 3, "Global", 0)})
            \cup {Batch(1, <<>>)},
        Single({Order(FALSE, 1, 1, "Limit", 0), Order(TRUE, 3, 3, "ImmediateOrCancel", 0)}))

GlobalSwaps == PerTrader({}, {Swap4(1, 1, TRUE, TRUE), Swap4(2, 1, FALSE, TRUE)})

\* exact_quote_out: a swap for an exact output of quote.
ExactOutBatches == PerTrader(Single({Order(TRUE, 1, 3, "Limit", 0)}), {})

ExactOutSwaps == PerTrader({}, {Swap4(4, 1, TRUE, FALSE)})

\* shared_backing: two global orders that one deposit backs one at a time.
SharedBatches ==
    PerTrader(Single({Order(FALSE, 1, 2, "Global", 0)}),
              Single({Order(FALSE, 2, 8, "Limit", 0)}))

SharedSwaps == PerTrader({}, {Swap4(2, 0, FALSE, TRUE)})

\* slim_reader: a taker that rests at the price a reverse order came back at.
SlimBatches ==
    PerTrader(Single({Order(FALSE, 1, 2, "Reverse", 0)}), Single({Order(TRUE, 2, 2, "Limit", 0)}))

Scene(start, batches, swaps, globals, seqs, slots) ==
    [start |-> start, batches |-> batches, swaps |-> swaps, globals |-> globals,
     seqs |-> seqs, slots |-> slots]

Scenes ==
    [lifecycle       |-> Scene(LifecycleAccounts, LifecycleBatches, Nothing, {{}}, 2, 1),
     edges           |-> Scene(GlobalFunded, EdgesBatches, EdgesSwaps, {{}, Tokens}, 3, 3),
     spot            |-> Scene(TwoFunded, SpotBatches, Nothing, {{}}, 3, 3),
     reverse         |-> Scene(TwoFunded, ReverseBatches, Nothing, {{}}, 4, 1),
     swap            |-> Scene(SwapFunded, SwapBatches, SwapKinds, {{}}, 4, 3),
     global          |-> Scene(GlobalFunded, GlobalBatches, GlobalSwaps, {Tokens}, 3, 3),
     exact_quote_out |-> Scene(SwapFunded, ExactOutBatches, ExactOutSwaps, {{}}, 4, 3),
     shared_backing  |-> Scene(GlobalFunded, SharedBatches, SharedSwaps, {Tokens}, 4, 1),
     slim_reader     |-> Scene(TwoFunded, SlimBatches, Nothing, {{}}, 4, 1)]

MCBatches == [t \in Traders |-> UNION {Scenes[s].batches[t] : s \in DOMAIN Scenes}]

MCSwaps == [t \in Traders |-> UNION {Scenes[s].swaps[t] : s \in DOMAIN Scenes}]

MCGlobals == {{}, Tokens}

QuoteHook == {"quote"}

BaseHook == {"base"}

\* A fee of a quarter, capped and not, of three quarters, and of everything.
MCFeeSchedules ==
    {[basis_points |-> 1, maximum |-> 1], [basis_points |-> 1, maximum |-> 9],
     [basis_points |-> 3, maximum |-> 9], [basis_points |-> 4, maximum |-> 2]}

-----------------------------------------------------------------------------

SceneTrade(trader, globals) ==
    /\ accounts.m.seq < Scenes[scene].seqs
    /\ \/ \E batch \in Scenes[scene].batches[trader] :
            \E cancels \in [1 .. batch.cancels -> CancelParams(accounts.m)] :
                BatchUpdate(trader, batch, globals, cancels)
       \/ \E swap \in Scenes[scene].swaps[trader] : Swap(trader, swap, globals)

SceneClock == slot < Scenes[scene].slots /\ AdvanceSlot

Trading ==
    \/ \E trader \in Traders, globals \in Scenes[scene].globals : SceneTrade(trader, globals)
    \/ SceneClock
    \/ Progress

SceneNext ==
    /\ \/ Trading
       \/ scene = "lifecycle" /\ MarketArrival
       \/ scene \in {"lifecycle", "global"} /\ GlobalArrival
       \/ scene \in {"spot", "reverse", "swap"} /\ Expand
       \/ scene = "edges" /\ \E i \in Index : GlobalClean(i)
    /\ UNCHANGED scene

Starts(scenes) == scene \in scenes /\ StartFrom(Scenes[scene].start)

SceneSteps == [][SceneNext]_<<vars, scene>> /\ WF_vars(Progress)

RunAccounts == Starts({"lifecycle", "edges"}) /\ SceneSteps

RunTrading == Starts({"spot", "reverse", "swap", "global"}) /\ SceneSteps

RunExactQuoteOut == Starts({"exact_quote_out"}) /\ SceneSteps

RunSharedBacking == Starts({"shared_backing"}) /\ SceneSteps

RunSlimReader == Starts({"slim_reader"}) /\ SceneSteps

=============================================================================
