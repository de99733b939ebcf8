------------------------------ MODULE MCStart ------------------------------
(***************************************************************************)
(* What the instances for TLC share: two traders, orders and batches, and  *)
(* start states composed of the instructions that lead to them from Init.  *)
(***************************************************************************)
EXTENDS Manifest

CONSTANTS t1, t2

MCTwoTraders == {t1, t2}

MCSpreadBase == [Reverse |-> 4, ReverseTight |-> 8]

Wallets(base, quote) == [t \in Traders |-> [base |-> base, quote |-> quote]]

MCWallet == Wallets(6, 6)

Order(is_bid, base, price, type, last_valid) ==
    [is_bid |-> is_bid, base |-> base, price |-> price, type |-> type,
     last_valid |-> last_valid]

Batch(cancels, orders) == [cancels |-> cancels, orders |-> orders]

Swap4(in, out, is_base_in, is_exact_in) ==
    [in |-> in, out |-> out, is_base_in |-> is_base_in, is_exact_in |-> is_exact_in]

Single(orders) == {Batch(0, <<order>>) : order \in orders}

\* One trader's batches or swaps, and the other's.
PerTrader(one, other) == [t \in Traders |-> IF t = t1 THEN one ELSE other]

Nothing == PerTrader({}, {})

-----------------------------------------------------------------------------
(* Start states. *)

NewAccounts(wallet) ==
    [m |-> NewMarket, vault |-> NoTokens, wallet |-> wallet,
     glob |-> [token \in Tokens |-> NewGlobal]]

Seated(a, t) == [a EXCEPT !.m = ExpandIfNeeded(ClaimSeatOn(@, t))]

Deposited(a, t, token, atoms) ==
    [a EXCEPT !.m = UpdateBalance(@, GetTraderIndex(@, t), token, atoms),
              !.vault[token] = @ + atoms, !.wallet[t][token] = @ - atoms]

GlobalDeposited(a, t, token, atoms) ==
    [a EXCEPT !.glob[token] = [UpdateDeposit(AddTrader(@, t), t, atoms) EXCEPT !.vault = atoms + @],
              !.wallet[t][token] = @ - atoms]

BothSeated(a) == Seated(Seated(a, t1), t2)

BothTokens(a, t, base, quote) == Deposited(Deposited(a, t, "base", base), t, "quote", quote)

StartFrom(a) == accounts = a /\ work = a /\ ctx = Idle /\ slot = 1

NoHooks == {}

=============================================================================
