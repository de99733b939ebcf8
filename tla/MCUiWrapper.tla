---------------------------- MODULE MCUiWrapper ----------------------------
(***************************************************************************)
(* Instances of UiWrapper for TLC: t1 uses the UI wrapper, t2 trades with  *)
(* it directly.                                                            *)
(***************************************************************************)
EXTENDS UiProperties, MCStart

UiOrder(id, is_bid, base, price, type, last_valid) ==
    [id |-> id, args |-> Order(is_bid, base, price, type, last_valid)]

MCUiOrders ==
    {UiOrder(1, TRUE, 1, 3, "Limit", 0), UiOrder(1, FALSE, 2, 3, "Limit", 2),
     UiOrder(2, FALSE, 1, 3, "Reverse", 2), UiOrder(2, TRUE, 2, 3, "PostOnly", 0)}

UiDirect ==
    PerTrader({Batch(1, <<>>)},
              Single({Order(FALSE, 1, 2, "Limit", 0), Order(TRUE, 1, 4, "ImmediateOrCancel", 0)}))

\* t2 is funded.  t1 has no seat, or one whose counter is about to overflow.
UiFunded == Deposited(Deposited(Seated(NewAccounts(InitialWallet), t2), t2, "base", 2), t2, "quote", 4)

UiInit ==
    /\ call = NoCall
    /\ ui = NoUi
    /\ \E seated \in BOOLEAN :
        LET traded == IF seated THEN ATOM_LIMIT - 1 ELSE 0
        IN  /\ StartFrom(IF seated THEN Seated(UiFunded, t1) ELSE UiFunded)
            /\ volume = [kept |-> traded, work |-> traded]
            /\ bill = [since |-> 0, paid |-> 0, owed |-> 0, platform |-> 0, referrer |-> 0]

StartUi == UiInit /\ [][UiNext]_uvars

NoGlobals == {{}}

UiWallet == [t \in Traders |-> [base |-> IF t = t1 THEN 3 ELSE 2, quote |-> 4]]

=============================================================================
