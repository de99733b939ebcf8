---------------------------- MODULE GlobalState ----------------------------
(***************************************************************************)
(* A global account as a value (programs/manifest/src/state/global.rs):    *)
(* one per mint, it lets a trader back resting orders on many markets with *)
(* one deposit.  A global account g is a record:                           *)
(*   seats      traders with a GlobalTrader node (num_seats_claimed many)  *)
(*   dep        balance_atoms of each trader's GlobalDeposit (0: no seat)  *)
(*   deposited  global_deposited_atoms, the total kept by the certora build*)
(*   vault      balance of the global vault                                *)
(*   gas        lamports paid in for resting global orders, in units of    *)
(*              GAS_DEPOSIT_LAMPORTS                                       *)
(* The deposits tree is ordered so that its cached maximum is a smallest   *)
(* balance; which one, among equals, depends on the tree's history and is  *)
(* left open.                                                              *)
(***************************************************************************)
EXTENDS MarketState, FiniteSets

CONSTANT MAX_GLOBAL_SEATS   \* 999 on chain

ASSUME GlobalAssumption == MAX_GLOBAL_SEATS \in Nat \ {0} /\ IsFiniteSet(Traders)

Globals ==
    [seats : SUBSET Traders, dep : [Traders -> Nat], deposited : Int,
     vault : Int, gas : Int]

NewGlobal ==
    [seats |-> {}, dep |-> [t \in Traders |-> 0], deposited |-> 0, vault |-> 0, gas |-> 0]

HasGlobalSeat(g, trader) == trader \in g.seats

NeedsEviction(g) == Cardinality(g.seats) >= MAX_GLOBAL_SEATS

\* verify_min_balance_at_deposit_index.
IsMinBalance(g, trader) ==
    trader \in g.seats /\ \A other \in g.seats : g.dep[trader] <= g.dep[other]

\* add_trader.
AddTrader(g, trader) == [g EXCEPT !.seats = @ \cup {trader}]

\* deposit_global (delta > 0), withdraw_global and reduce (delta < 0): the
\* accounting only, tokens move separately.
UpdateDeposit(g, trader, delta) ==
    [g EXCEPT !.dep[trader] = @ + delta, !.deposited = @ + delta]

\* Mutant: the trader's seat is not looked up.
CanUpdateDepositUnseated(g, trader, delta) ==
    g.dep[trader] + delta >= 0 /\ FitsAtoms(g.dep[trader] + delta)

CanUpdateDeposit(g, trader, delta) ==
    /\ HasGlobalSeat(g, trader)
    /\ g.dep[trader] + delta >= 0
    /\ FitsAtoms(g.dep[trader] + delta)

\* can_back_order: the balance of an evicted trader counts as zero.
CanBackOrder(g, trader, atoms) == atoms <= g.dep[trader]

\* evict_and_take_seat, once the evictee's balance has been paid out.
EvictAndTakeSeat(g, evictee, trader) ==
    [g EXCEPT !.seats = (@ \ {evictee}) \cup {trader}]

=============================================================================
