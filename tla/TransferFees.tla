---------------------------- MODULE TransferFees ----------------------------
(***************************************************************************)
(* Swaps of Token-2022 tokens that withhold a fee from every transfer      *)
(* (swap.rs, calculate_post_fee_amount and calculate_pre_fee_amount).      *)
(* Matching never sees the fees: a swap that is given a gross input and    *)
(* asked for a net output is the swap of Manifest for the input that will  *)
(* arrive and the output that has to leave, and only what is transferred   *)
(* at its end is computed back.                                            *)
(***************************************************************************)
EXTENDS Manifest

CONSTANTS
    ONE_IN_BASIS_POINTS,   \* 10^4 on chain
    FeeSchedules,          \* the fees that a mint may charge
    MaxGross               \* bound on the amounts that are asked for

ASSUME FeeAssumption ==
    /\ ONE_IN_BASIS_POINTS \in Nat \ {0}
    /\ FeeSchedules \subseteq [basis_points : 0 .. ONE_IN_BASIS_POINTS, maximum : Nat]
    /\ MaxGross \in Nat

CeilDiv(a, b) == (a + b - 1) \div b

AtMost(atoms, maximum) == IF atoms < maximum THEN atoms ELSE maximum

\* What the token program withholds.
Fee(schedule, atoms) ==
    AtMost(CeilDiv(atoms * schedule.basis_points, ONE_IN_BASIS_POINTS), schedule.maximum)

PostFee(schedule, atoms) == atoms - Fee(schedule, atoms)

PreFee(schedule, atoms) ==
    LET kept == ONE_IN_BASIS_POINTS - schedule.basis_points
    IN  IF atoms = 0 THEN 0
        ELSE IF kept = 0 THEN atoms + schedule.maximum
        ELSE AtMost(CeilDiv(atoms * ONE_IN_BASIS_POINTS, kept), atoms + schedule.maximum)

\* Mutant: what was not used, after the fee, is taken off the gross input.
ChargedInputUnused(schedule, gross) == gross - Extra(InToken(ctx.swap))

\* What is transferred from the trader for the input that was consumed.
ChargedInput(schedule, gross) == PreFee(schedule, Consumed)

-----------------------------------------------------------------------------

\* Whatever the fee and however little of the input was used, what arrives in the
\* vault is what matching has consumed, to the atom, for a charge within the gross
\* input; a trader who asked for an exact output and was filled receives it; and a
\* swap that used nothing costs nothing.
FeesLeaveVaultWhole ==
    [][SwapOrderDone /\ accounts' # accounts =>
        \A schedule \in FeeSchedules, atoms \in 0 .. MaxGross :
            /\ PostFee(schedule, atoms) = ctx.swap.in =>
                LET charged == ChargedInput(schedule, atoms)
                IN  /\ charged <= atoms
                    /\ PostFee(schedule, charged) = Consumed
                    /\ Consumed = 0 => charged = 0
            /\ /\ ~ ctx.swap.is_exact_in
               /\ PreFee(schedule, atoms) = ctx.swap.out
               /\ ctx.traded[OutToken(ctx.swap)] >= ctx.swap.out
               => PostFee(schedule, Extra(OutToken(ctx.swap))) >= atoms]_vars

=============================================================================
