----------------------------- MODULE Quantities -----------------------------
(***************************************************************************)
(* The arithmetic of programs/manifest/src/quantities.rs, and the sizing   *)
(* of a coalesced reverse bid (state/market_helpers.rs).                   *)
(*                                                                         *)
(* A price is the integer QuoteAtomsPerBaseAtom::inner: quote atoms per    *)
(* base atom, times D18.  The code's D18 is 10^18 and its ATOM_LIMIT is    *)
(* 2^64 - 1; here they are parameters, so that small instances exercise    *)
(* the same roundings and the same overflow tests.  An operator returns    *)
(* the exact quotient; the code's range check is the separate predicate    *)
(* FitsAtoms (FitsPrice for a u128), tested where the code tests it.       *)
(***************************************************************************)
EXTENDS Integers

CONSTANTS
    D18,          \* price denominator
    ATOM_LIMIT,   \* largest u64 amount of atoms
    PRICE_LIMIT   \* largest u128 product of a price

ASSUME QuantitiesAssumption ==
    /\ D18 \in Nat \ {0}
    /\ ATOM_LIMIT \in Nat
    /\ PRICE_LIMIT \in Nat

FitsAtoms(atoms) == atoms <= ATOM_LIMIT

FitsPrice(product) == product <= PRICE_LIMIT

\* u128::div and u128::div_ceil by a positive divisor.
Div(a, b, round_up) == IF round_up THEN (a + b - 1) \div b ELSE a \div b

\* Quote atoms of base_atoms at this price.
QuoteForBase(price, base_atoms, round_up) ==
    Div(price * base_atoms, D18, round_up)

\* Base atoms that quote_atoms buy at this price; zero at price zero.
BaseForQuote(price, quote_atoms, round_up) ==
    IF price = 0 THEN 0 ELSE Div(D18 * quote_atoms, price, round_up)

\* price * numerator / denominator; the multiplication may overflow.
MultiplyRational(price, numerator, denominator, round_up) ==
    Div(price * numerator, denominator, round_up)

\* Mutant: what was received is not looked at.
ReverseBidCoalesceRequested(price, old_base, requested_base, quote_received) == requested_base

\* Base atoms to add to the bid that a reverse order is coalesced into: the
\* requested amount when the order's allocation grows by no more than the maker
\* received, else what the received quote can back at the order's own price.
ReverseBidCoalesceBase(price, old_base, requested_base, quote_received) ==
    LET previous   == QuoteForBase(price, old_base, TRUE)
        requested  == QuoteForBase(price, old_base + requested_base, TRUE)
        affordable == BaseForQuote(price, previous + quote_received, FALSE)
    IN  IF requested - previous <= quote_received
        THEN requested_base
        ELSE IF affordable - old_base < requested_base
             THEN affordable - old_base
             ELSE requested_base

\* Mutant: the added atoms are priced on their own.
ReverseBidCoalesceAlone(price, old_base, added_base) == QuoteForBase(price, added_base, TRUE)

\* Quote atoms debited for it: the growth of what the order will refund.
ReverseBidCoalesceQuote(price, old_base, added_base) ==
    QuoteForBase(price, old_base + added_base, TRUE)
        - QuoteForBase(price, old_base, TRUE)

=============================================================================
