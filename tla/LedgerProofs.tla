---------------------------- MODULE LedgerProofs ----------------------------
(***************************************************************************)
(* Where the tokens are, for every value of the constants: the wallets and *)
(* the vaults always hold the supply of a mint (SupplyInv).  What rests is *)
(* part of a vault and so fits in a u64 with any balance; what backs a     *)
(* global bid was checked when it was placed (BidsInv).  Hence every order *)
(* can be cancelled.                                                       *)
(*                                                                         *)
(* Whose the tokens are: what the traders own adds up to the supply, too.  *)
(* So a step that leaves all traders but one alone leaves that one alone,  *)
(* and every step but a trade is of that kind.                             *)
(*                                                                         *)
(* Last, seats stay where they are, and reverse makers can pay for their   *)
(* reversals out of what they were just paid (PaidInv).                    *)
(***************************************************************************)
EXTENDS FundsProofs

-----------------------------------------------------------------------------
(* Supply. *)

InWallets(wallet, token) == SumFunctionOnSet([t \in Traders |-> wallet[t][token]], Traders)

\* Wallets, market vault and global vault hold the supply.
SupplySound(a) ==
    \A token \in Tokens :
        InWallets(a.wallet, token) + a.vault[token] + a.glob[token].vault = Supply(token)

SupplyInv == SupplySound(accounts) /\ SupplySound(work)

\* No vault and no wallet differs.
SameVaults(a, b) ==
    /\ b.wallet = a.wallet /\ b.vault = a.vault
    /\ \A token \in Tokens : b.glob[token].vault = a.glob[token].vault

LEMMA SameVaultsSound ==
    ASSUME NEW a, NEW b, SupplySound(a), SameVaults(a, b)
    PROVE  SupplySound(b)
BY DEF SupplySound, SameVaults

LEMMA WalletsInt ==
    ASSUME NEW wallet \in [Traders -> [Tokens -> Nat]], NEW token \in Tokens
    PROVE  InWallets(wallet, token) \in Nat
<1> DEFINE h == [t \in Traders |-> wallet[t][token]]
<1>1. \A t \in Traders : h[t] \in Nat
  OBVIOUS
<1> HIDE DEF h
<1>2. SumFunctionOnSet(h, Traders) \in Nat
  BY <1>1, GlobalAssumption, SumNat
<1>3. QED
  BY <1>2 DEF InWallets, h

\* delta atoms of one token.
Flow(token, delta) == [k \in Tokens |-> IF k = token THEN delta ELSE 0]

\* after is wallet but for what flows to one trader.
Moved(wallet, after, trader, flow) ==
    \A t \in Traders, k \in Tokens :
        after[t][k] = wallet[t][k] + (IF t = trader THEN flow[k] ELSE 0)

LEMMA WalletsMoved ==
    ASSUME NEW wallet \in [Traders -> [Tokens -> Nat]], NEW after, NEW trader \in Traders,
           NEW flow \in [Tokens -> Int], Moved(wallet, after, trader, flow), NEW k \in Tokens
    PROVE  InWallets(after, k) = InWallets(wallet, k) + flow[k]
<1> DEFINE g == [t \in Traders |-> wallet[t][k]]
           h == [t \in Traders |-> after[t][k]]
<1>1. /\ \A t \in Traders : g[t] \in Int
      /\ h[trader] = g[trader] + flow[k]
      /\ \A t \in Traders \ {trader} : h[t] = g[t]
      /\ flow[k] \in Int
  BY DEF Moved
<1> HIDE DEF g, h
<1>2. g[trader] \in Int /\ h[trader] \in Int
  BY <1>1
<1>3. SumFunctionOnSet(h, Traders) = SumFunctionOnSet(g, Traders) + h[trader] - g[trader]
  BY <1>1, <1>2, GlobalAssumption, SumChangeOne
<1>4. SumFunctionOnSet(g, Traders) \in Int
  BY <1>1, GlobalAssumption, SumInt
<1>5. QED
  BY <1>1, <1>2, <1>3, <1>4 DEF InWallets, g, h

\* A payment between wallets and the vaults.
LEMMA PaidSupply ==
    ASSUME NEW a \in Accounts, SupplySound(a), NEW trader \in Traders,
           NEW flow \in [Tokens -> Int], NEW b, Moved(a.wallet, b.wallet, trader, flow),
           \A k \in Tokens : /\ b.vault[k] \in Int /\ b.glob[k].vault \in Int
                             /\ a.vault[k] + a.glob[k].vault
                                    = b.vault[k] + b.glob[k].vault + flow[k]
    PROVE  SupplySound(b)
<1> SUFFICES ASSUME NEW k \in Tokens
             PROVE  InWallets(b.wallet, k) + b.vault[k] + b.glob[k].vault = Supply(k)
  BY DEF SupplySound
<1>1. a.wallet \in [Traders -> [Tokens -> Nat]]
  BY DEF Accounts
<1>2. InWallets(b.wallet, k) = InWallets(a.wallet, k) + flow[k]
  BY <1>1, WalletsMoved
<1>3. InWallets(a.wallet, k) + a.vault[k] + a.glob[k].vault = Supply(k)
  BY DEF SupplySound
<1> DEFINE before == InWallets(a.wallet, k)
           after == InWallets(b.wallet, k)
           vault == a.vault[k] + a.glob[k].vault
           left == b.vault[k] + b.glob[k].vault
<1>4. vault = left + flow[k] /\ left \in Int /\ flow[k] \in Int
  <2>1. /\ b.vault[k] \in Int /\ b.glob[k].vault \in Int
        /\ a.vault[k] + a.glob[k].vault = b.vault[k] + b.glob[k].vault + flow[k]
    OBVIOUS
  <2>2. QED
    BY <2>1
<1>5. before \in Int /\ after = before + flow[k] /\ before + vault = Supply(k)
  <2>1. before \in Nat /\ a.vault[k] \in Int /\ a.glob[k].vault \in Int
    BY <1>1, WalletsInt DEF Accounts, Globals
  <2>2. QED
    BY <1>2, <1>3, <2>1
<1> HIDE DEF before, after, vault, left
<1>6. after + left = Supply(k)
  BY <1>4, <1>5
<1>7. QED
  <2>1. b.vault[k] \in Int /\ b.glob[k].vault \in Int /\ after \in Int
    BY <1>4, <1>5
  <2>2. QED
    BY <1>6, <2>1 DEF after, left

\* A transfer between the vaults.
LEMMA TransferSupply ==
    ASSUME NEW a \in Accounts, SupplySound(a), NEW b, b.wallet = a.wallet,
           \A k \in Tokens : /\ b.vault[k] \in Int /\ b.glob[k].vault \in Int
                             /\ a.vault[k] + a.glob[k].vault = b.vault[k] + b.glob[k].vault
    PROVE  SupplySound(b)
<1> SUFFICES ASSUME NEW k \in Tokens
             PROVE  InWallets(b.wallet, k) + b.vault[k] + b.glob[k].vault = Supply(k)
  BY DEF SupplySound
<1>1. a.wallet \in [Traders -> [Tokens -> Nat]]
  BY DEF Accounts
<1>2. /\ InWallets(b.wallet, k) + a.vault[k] + a.glob[k].vault = Supply(k)
      /\ a.vault[k] + a.glob[k].vault = b.vault[k] + b.glob[k].vault
      /\ b.vault[k] \in Int /\ b.glob[k].vault \in Int
  BY DEF SupplySound
<1>3. InWallets(b.wallet, k) \in Nat /\ a.vault[k] \in Int /\ a.glob[k].vault \in Int
  BY <1>1, WalletsInt DEF Accounts, Globals
<1>4. QED
  BY <1>2, <1>3

-----------------------------------------------------------------------------
(* How a step ends. *)

LEMMA CommitSupply ==
    ASSUME NEW a, SupplySound(a), Commit(a)
    PROVE  SupplyInv'
BY DEF SupplyInv, SupplySound, Commit, InWallets, Supply

LEMMA StepSupply ==
    ASSUME SupplyInv, accounts' = accounts, SupplySound(work')
    PROVE  SupplyInv'
BY DEF SupplyInv, SupplySound, InWallets, Supply

LEMMA AbortSupply ==
    ASSUME SupplyInv, Abort
    PROVE  SupplyInv'
BY DEF SupplyInv, SupplySound, Abort, InWallets, Supply

-----------------------------------------------------------------------------
(* What the instructions of one step move. *)

\* A deposit or withdrawal of delta atoms on the market.
BalanceMoved(a, trader, token, delta) ==
    LET seat == GetTraderIndex(accounts.m, trader)
    IN  /\ ctx = Idle /\ Commit(a)
        /\ seat \in SeatIndices(accounts.m) /\ accounts.m.data[seat].trader = trader
        /\ accounts.m.data[seat].bal[token] + delta >= 0
        /\ a.m = UpdateBalance(accounts.m, seat, token, delta)
        /\ Moved(accounts.wallet, a.wallet, trader, Flow(token, - delta))
        /\ a.glob = accounts.glob
        /\ \A k \in Tokens : a.vault[k] = accounts.vault[k] + (IF k = token THEN delta ELSE 0)

LEMMA BalanceEffect ==
    ASSUME IInv, NEW trader \in Traders, NEW token \in Tokens, NEW atoms \in Nat,
           Deposit(trader, token, atoms) \/ Withdraw(trader, token, atoms)
    PROVE  \E delta \in Int : \E a : BalanceMoved(a, trader, token, delta)
<1> DEFINE seat == GetTraderIndex(accounts.m, trader)
           Moves(delta) ==
                LET vault  == [accounts.vault EXCEPT ![token] = @ + delta]
                    wallet == [accounts.wallet EXCEPT ![trader][token] = @ - delta]
                IN  /\ CanUpdateBalance(accounts.m, seat, token, delta)
                    /\ Commit([accounts EXCEPT !.m = UpdateBalance(accounts.m, seat, token, delta),
                                               !.vault = vault, !.wallet = wallet])
<1>1. ctx = Idle /\ seat # NIL
  BY DEF Deposit, Withdraw
<1>2. MarketSound(accounts.m) /\ accounts \in Accounts
  BY <1>1, IdleSound DEF AccountsSound
<1>3. seat \in SeatIndices(accounts.m) /\ accounts.m.data[seat].trader = trader
  BY <1>1, <1>2, TraderIndexSound
<1>4. /\ accounts.wallet \in [Traders -> [Tokens -> Nat]]
      /\ accounts.vault \in [Tokens -> Nat]
  BY <1>2 DEF Accounts
<1>5. \E delta \in Int : Moves(delta)
  <2>1. CASE Deposit(trader, token, atoms)
    <3>1. Moves(atoms)
        BY <1>2, <2>1 DEF Deposit, Accounts
    <3> HIDE DEF Moves
    <3>2. QED
        BY <3>1
  <2>2. CASE Withdraw(trader, token, atoms)
    <3>1. accounts.vault[token] - atoms = accounts.vault[token] + (- atoms)
        BY <1>4
    <3>2. accounts.wallet[trader][token] + atoms = accounts.wallet[trader][token] - (- atoms)
        BY <1>4
    <3>3. Moves(- atoms)
        BY <1>2, <2>2, <3>1, <3>2 DEF Withdraw, Accounts
    <3>4. - atoms \in Int
        OBVIOUS
    <3> HIDE DEF Moves
    <3>5. QED
        BY <3>3, <3>4
  <2>3. QED
    BY <2>1, <2>2
<1>6. PICK delta \in Int : Moves(delta)
  BY <1>5
<1> DEFINE vault == [accounts.vault EXCEPT ![token] = @ + delta]
           wallet == [accounts.wallet EXCEPT ![trader][token] = @ - delta]
           m == UpdateBalance(accounts.m, seat, token, delta)
           a == [accounts EXCEPT !.m = m, !.vault = vault, !.wallet = wallet]
<1>7. Commit(a) /\ accounts.m.data[seat].bal[token] + delta >= 0
  BY <1>6 DEF CanUpdateBalance
<1> HIDE DEF seat
<1>8. \A k \in Tokens : vault[k] = accounts.vault[k] + (IF k = token THEN delta ELSE 0)
  BY <1>4
<1>9. Moved(accounts.wallet, wallet, trader, Flow(token, - delta))
  BY <1>4 DEF Moved, Flow
<1> HIDE DEF m, vault, wallet
<1>10. a.m = m /\ a.vault = vault /\ a.wallet = wallet /\ a.glob = accounts.glob
  BY <1>2 DEF Accounts
<1> HIDE DEF a
<1>11. BalanceMoved(a, trader, token, delta)
  BY <1>1, <1>3, <1>7, <1>8, <1>9, <1>10 DEF BalanceMoved, m, seat
<1>12. QED
  BY <1>11

\* b is a but for delta atoms that a trader has brought to a global account.
GlobalMoved(a, b, trader, token, delta) ==
    /\ b.m = a.m /\ b.vault = a.vault
    /\ Moved(a.wallet, b.wallet, trader, Flow(token, - delta))
    /\ \A t \in Traders, k \in Tokens :
          b.glob[k].dep[t] = a.glob[k].dep[t] + (IF t = trader /\ k = token THEN delta ELSE 0)
    /\ \A k \in Tokens :
          b.glob[k].vault = a.glob[k].vault + (IF k = token THEN delta ELSE 0)

\* h is g but for delta atoms that a trader has more on deposit, and the vault with it.
DepositMovedBy(g, h, trader, delta) ==
    /\ h \in Globals /\ h.vault = g.vault + delta
    /\ \A t \in Traders : h.dep[t] = g.dep[t] + (IF t = trader THEN delta ELSE 0)

LEMMA DepositedGlobal ==
    ASSUME NEW g \in Globals, NEW trader \in Traders, NEW delta \in Int,
           g.dep[trader] + delta >= 0
    PROVE  DepositMovedBy(g, [UpdateDeposit(g, trader, delta) EXCEPT !.vault = @ + delta],
                          trader, delta)
<1> DEFINE u == UpdateDeposit(g, trader, delta)
           h == [u EXCEPT !.vault = @ + delta]
<1>1. u \in Globals
  BY UpdateDepositTyped
<1>2. /\ u.vault = g.vault
      /\ \A t \in Traders : u.dep[t] = g.dep[t] + (IF t = trader THEN delta ELSE 0)
  BY DEF UpdateDeposit, Globals
<1> HIDE DEF u
<1>3. h \in Globals /\ h.vault = u.vault + delta /\ h.dep = u.dep
  BY <1>1 DEF Globals
<1> HIDE DEF h
<1>4. DepositMovedBy(g, h, trader, delta)
  BY <1>2, <1>3 DEF DepositMovedBy
<1>5. QED
  BY <1>4 DEF h, u

LEMMA SeatTaken ==
    ASSUME NEW g \in Globals, NEW evictee, NEW trader \in Traders
    PROVE  LET h == EvictAndTakeSeat(g, evictee, trader)
           IN  h \in Globals /\ h.dep = g.dep /\ h.vault = g.vault
BY DEF EvictAndTakeSeat, Globals

\* The update of a deposit with the transfer that goes with it.
LEMMA DepositEffect ==
    ASSUME NEW a \in Accounts, NEW trader \in Traders, NEW token \in Tokens, NEW delta \in Int,
           NEW g, DepositMovedBy(a.glob[token], g, trader, delta),
           a.wallet[trader][token] - delta >= 0
    PROVE  LET wallet == [a.wallet EXCEPT ![trader][token] = @ - delta]
               b == [a EXCEPT !.glob = [a.glob EXCEPT ![token] = g], !.wallet = wallet]
           IN  /\ b \in Accounts /\ b.wallet = wallet /\ b.glob[token] = g
               /\ GlobalMoved(a, b, trader, token, delta)
<1> DEFINE wallet == [a.wallet EXCEPT ![trader][token] = @ - delta]
           before == a.glob[token]
           glob == [a.glob EXCEPT ![token] = g]
           b == [a EXCEPT !.glob = glob, !.wallet = wallet]
<1>1. /\ a.wallet \in [Traders -> [Tokens -> Nat]] /\ a.glob \in [Tokens -> Globals]
      /\ before \in Globals
  BY DEF Accounts
<1>2. /\ wallet \in [Traders -> [Tokens -> Nat]]
      /\ Moved(a.wallet, wallet, trader, Flow(token, - delta))
  <2>1. a.wallet[trader][token] + (- delta) >= 0 /\ - delta \in Int
    BY <1>1
  <2>2. wallet = [a.wallet EXCEPT ![trader][token] = @ + (- delta)]
    BY <1>1
  <2>3. wallet \in [Traders -> [Tokens -> Nat]]
    BY <1>1, <2>1, <2>2, WalletTyped
  <2>4. QED
    BY <1>1, <2>3 DEF Moved, Flow
<1>4. /\ g \in Globals /\ g.vault = before.vault + delta
      /\ \A t \in Traders : g.dep[t] = before.dep[t] + (IF t = trader THEN delta ELSE 0)
  BY DEF DepositMovedBy
<1>7. /\ glob \in [Tokens -> Globals] /\ glob[token] = g
      /\ \A k \in Tokens \ {token} : glob[k] = a.glob[k]
  BY <1>1, <1>4
<1> HIDE DEF wallet, glob
<1>8. /\ b \in Accounts /\ b.m = a.m /\ b.vault = a.vault /\ b.wallet = wallet /\ b.glob = glob
  BY <1>2, <1>7 DEF Accounts
<1> HIDE DEF b
<1>9. \A t \in Traders, k \in Tokens :
        glob[k].dep[t] = a.glob[k].dep[t] + (IF t = trader /\ k = token THEN delta ELSE 0)
  <2> SUFFICES ASSUME NEW t \in Traders, NEW k \in Tokens
               PROVE  glob[k].dep[t]
                        = a.glob[k].dep[t] + (IF t = trader /\ k = token THEN delta ELSE 0)
    OBVIOUS
  <2>1. a.glob[k].dep[t] \in Int
    BY <1>1 DEF Globals
  <2>2. CASE k = token
    <3>1. glob[k] = g
      BY <1>7, <2>2
    <3>2. QED
      BY <1>4, <2>2, <3>1
  <2>3. CASE k # token
    <3>1. glob[k] = a.glob[k]
      BY <1>7, <2>3
    <3>2. QED
      BY <2>1, <2>3, <3>1
  <2>4. QED
    BY <2>2, <2>3
<1>10. \A k \in Tokens :
        glob[k].vault = a.glob[k].vault + (IF k = token THEN delta ELSE 0)
  <2> SUFFICES ASSUME NEW k \in Tokens
               PROVE  glob[k].vault = a.glob[k].vault + (IF k = token THEN delta ELSE 0)
    OBVIOUS
  <2>1. a.glob[k].vault \in Int
    BY <1>1 DEF Globals
  <2>2. CASE k = token
    BY <1>4, <1>7, <2>2
  <2>3. CASE k # token
    <3>1. glob[k] = a.glob[k]
      BY <1>7, <2>3
    <3>2. QED
      BY <2>1, <2>3, <3>1
  <2>4. QED
    BY <2>2, <2>3
<1>11. GlobalMoved(a, b, trader, token, delta)
  BY <1>2, <1>8, <1>9, <1>10 DEF GlobalMoved
<1>12. QED
  BY <1>7, <1>8, <1>11 DEF b, glob, wallet

LEMMA GlobalBalanceEffect ==
    ASSUME IInv, NEW trader \in Traders, NEW token \in Tokens, NEW atoms \in Nat,
           GlobalDeposit(trader, token, atoms) \/ GlobalWithdraw(trader, token, atoms)
    PROVE  \E delta \in Int : \E b \in Accounts :
                Commit(b) /\ GlobalMoved(accounts, b, trader, token, delta)
<1> DEFINE before == accounts.glob[token]
           Deposited(delta) == [UpdateDeposit(before, trader, delta) EXCEPT !.vault = @ + delta]
           Paid(delta) == [accounts.wallet EXCEPT ![trader][token] = @ - delta]
           After(delta) == [accounts EXCEPT !.glob = [accounts.glob EXCEPT ![token] = Deposited(delta)],
                                            !.wallet = Paid(delta)]
           Moves(delta) == /\ before.dep[trader] + delta >= 0
                           /\ accounts.wallet[trader][token] - delta >= 0
                           /\ Commit(After(delta))
<1>1. accounts \in Accounts
  <2>1. ctx = Idle
    BY DEF GlobalDeposit, GlobalWithdraw
  <2>2. QED
    BY <2>1, IdleSound DEF AccountsSound
<1>2. /\ before \in Globals /\ accounts.wallet \in [Traders -> [Tokens -> Nat]]
      /\ accounts.wallet[trader][token] \in Nat
  BY <1>1 DEF Accounts
<1>3. \E delta \in Int : Moves(delta)
  <2>1. CASE GlobalDeposit(trader, token, atoms)
    <3>1. Commit(After(atoms))
      BY <2>1 DEF GlobalDeposit
    <3>2. /\ before.dep[trader] + atoms >= 0 /\ atoms <= accounts.wallet[trader][token]
      BY <2>1 DEF GlobalDeposit, CanUpdateDeposit
    <3>3. Moves(atoms)
      BY <1>2, <3>1, <3>2
    <3> HIDE DEF Moves
    <3>4. QED
      BY <3>3
  <2>2. CASE GlobalWithdraw(trader, token, atoms)
    <3> DEFINE withdrawn == UpdateDeposit(before, trader, - atoms)
    <3>1. - atoms \in Int /\ before.dep[trader] + (- atoms) >= 0
      BY <2>2 DEF GlobalWithdraw, CanUpdateDeposit
    <3>2. withdrawn \in Globals
      BY <1>2, <3>1, UpdateDepositTyped
    <3>3. Commit([accounts EXCEPT !.glob[token] = [withdrawn EXCEPT !.vault = @ - atoms],
                                  !.wallet[trader][token] = @ + atoms])
      BY <2>2 DEF GlobalWithdraw
    <3> HIDE DEF withdrawn
    <3>4. /\ withdrawn.vault - atoms = withdrawn.vault + (- atoms)
          /\ accounts.wallet[trader][token] + atoms = accounts.wallet[trader][token] - (- atoms)
      BY <1>2, <3>2 DEF Globals
    <3>5. Commit(After(- atoms))
      BY <3>3, <3>4 DEF withdrawn
    <3>6. Moves(- atoms)
      BY <1>2, <3>1, <3>5
    <3> HIDE DEF Moves
    <3>7. QED
      BY <3>1, <3>6
  <2>3. QED
    BY <2>1, <2>2
<1>4. PICK delta \in Int : Moves(delta)
  BY <1>3
<1>5. DepositMovedBy(before, Deposited(delta), trader, delta)
  BY <1>2, <1>4, DepositedGlobal
<1> HIDE DEF Deposited
<1>6. After(delta) \in Accounts /\ GlobalMoved(accounts, After(delta), trader, token, delta)
  BY <1>1, <1>4, <1>5, DepositEffect
<1> HIDE DEF After
<1>7. QED
  BY <1>4, <1>6

\* The evictee is paid out, then its successor pays in.
LEMMA GlobalEvictEffect ==
    ASSUME IInv, NEW trader \in Traders, NEW evictee \in Traders, NEW token \in Tokens,
           NEW atoms \in Nat, GlobalEvict(trader, evictee, token, atoms)
    PROVE  \E delta \in Int : \E b, c \in Accounts :
                /\ Commit(c)
                /\ GlobalMoved(accounts, b, evictee, token, delta)
                /\ GlobalMoved(b, c, trader, token, atoms)
<1> DEFINE before == accounts.glob[token]
           balance == before.dep[evictee]
           delta == - balance
           emptied == [UpdateDeposit(before, evictee, delta) EXCEPT !.vault = @ - balance]
           seated == EvictAndTakeSeat(emptied, evictee, trader)
           g == [UpdateDeposit(seated, trader, atoms) EXCEPT !.vault = @ + atoms]
           paid == [accounts.wallet EXCEPT ![evictee][token] = @ - delta]
           wallet == [paid EXCEPT ![trader][token] = @ - atoms]
           b == [accounts EXCEPT !.glob = [accounts.glob EXCEPT ![token] = emptied],
                                 !.wallet = paid]
           c == [b EXCEPT !.glob = [b.glob EXCEPT ![token] = g],
                          !.wallet = [b.wallet EXCEPT ![trader][token] = @ - atoms]]
           a == [accounts EXCEPT !.glob[token] = g, !.wallet = wallet]
<1>1. ctx = Idle
  BY DEF GlobalEvict
<1>2. /\ accounts \in Accounts /\ before \in Globals /\ before.dep \in [Traders -> Nat]
      /\ accounts.wallet \in [Traders -> [Tokens -> Nat]]
  BY <1>1, IdleSound DEF AccountsSound, Accounts, Globals
<1>3. balance \in Nat /\ delta \in Int /\ balance + delta = 0
  BY <1>2
<1>6. /\ accounts.wallet[evictee][token] - delta >= 0
      /\ accounts.wallet[evictee][token] + balance = accounts.wallet[evictee][token] - delta
  BY <1>2, <1>3
<1>7. /\ atoms <= paid[trader][token] /\ seated.dep[trader] + atoms >= 0
      /\ Commit(a)
  BY <1>6 DEF GlobalEvict, CanUpdateDeposit
<1>4. DepositMovedBy(before, emptied, evictee, delta)
  <2> DEFINE withdrawn == UpdateDeposit(before, evictee, delta)
  <2>1. withdrawn \in Globals
    BY <1>2, <1>3, UpdateDepositTyped
  <2>2. DepositMovedBy(before, [withdrawn EXCEPT !.vault = @ + delta], evictee, delta)
    BY <1>2, <1>3, DepositedGlobal
  <2> HIDE DEF withdrawn
  <2>3. withdrawn.vault - balance = withdrawn.vault + delta
    BY <1>3, <2>1 DEF Globals
  <2>4. QED
    BY <2>2, <2>3 DEF withdrawn
<1>5. emptied \in Globals
  BY <1>4 DEF DepositMovedBy
<1> HIDE DEF emptied
<1> HIDE DEF delta
<1>8. /\ b \in Accounts /\ b.wallet = paid /\ b.glob[token] = emptied
      /\ GlobalMoved(accounts, b, evictee, token, delta)
  BY <1>2, <1>3, <1>4, <1>6, DepositEffect
<1> HIDE DEF paid
<1>9. seated \in Globals /\ seated.dep = emptied.dep /\ seated.vault = emptied.vault
  BY <1>5, SeatTaken
<1> HIDE DEF seated
<1>10. DepositMovedBy(seated, g, trader, atoms)
  BY <1>7, <1>9, DepositedGlobal
<1> HIDE DEF g
<1>11. DepositMovedBy(b.glob[token], g, trader, atoms)
  BY <1>8, <1>9, <1>10 DEF DepositMovedBy
<1>12. b.glob = [accounts.glob EXCEPT ![token] = emptied]
  BY <1>2 DEF Accounts
<1>13. a = c
  <2>1. /\ c = [accounts EXCEPT !.glob = c.glob, !.wallet = c.wallet]
        /\ a = [accounts EXCEPT !.glob = a.glob, !.wallet = a.wallet]
        /\ c.wallet = wallet /\ a.wallet = wallet
        /\ c.glob = [b.glob EXCEPT ![token] = g] /\ a.glob = [accounts.glob EXCEPT ![token] = g]
    BY <1>2, <1>8 DEF Accounts
  <2>2. [b.glob EXCEPT ![token] = g] = [accounts.glob EXCEPT ![token] = g]
    BY <1>2, <1>12 DEF Accounts
  <2>3. QED
    BY <2>1, <2>2
<1> HIDE DEF a, b
<1>14. b.wallet[trader][token] - atoms >= 0
  <2>1. paid[trader][token] \in Nat
    BY <1>8 DEF Accounts
  <2>2. QED
    BY <1>7, <1>8, <2>1
<1>15. c \in Accounts /\ GlobalMoved(b, c, trader, token, atoms)
  <2>1. /\ b \in Accounts /\ atoms \in Int
        /\ DepositMovedBy(b.glob[token], g, trader, atoms) /\ b.wallet[trader][token] - atoms >= 0
    BY <1>8, <1>11, <1>14
  <2>2. QED
    BY <2>1, DepositEffect
<1> HIDE DEF c
<1>16. QED
  BY <1>3, <1>7, <1>8, <1>13, <1>15

-----------------------------------------------------------------------------
(* The steps in which no token moves, and no deposit changes. *)

SameFunds(a, b) ==
    /\ b.wallet = a.wallet /\ b.vault = a.vault
    /\ \A k \in Tokens : b.glob[k].vault = a.glob[k].vault /\ b.glob[k].dep = a.glob[k].dep

QuietMarketArrival ==
    \/ \E trader \in Traders : ClaimSeat(trader)
    \/ Expand
    \/ \E n \in 0 .. MaxExpand : ExpandTo(n)

QuietGlobalArrival ==
    \/ \E trader \in Traders, token \in Tokens : GlobalAddTrader(trader, token)
    \/ \E i \in Index : GlobalClean(i)

QuietProgress ==
    \/ CancelOrder \/ PrepayGas \/ FinishBatch \/ BeginOrder
    \/ CleanStaleMaker \/ CleanUnbackedMaker \/ PlaceReverse \/ StopMatching
    \/ WalkPast \/ CountMaker \/ StopWalking

LEMMA QuietMarketFunds ==
    ASSUME IInv, QuietMarketArrival
    PROVE  SameFunds(work, work') /\ accounts' = work'
<1>1. \E m : ctx = Idle /\ Commit([accounts EXCEPT !.m = m])
  BY DEF QuietMarketArrival, ClaimSeat, Expand, ExpandTo
<1>2. PICK m : ctx = Idle /\ Commit([accounts EXCEPT !.m = m])
  BY <1>1
<1>3. accounts \in Accounts /\ work = accounts
  BY <1>2, IdleSound DEF AccountsSound
<1>4. QED
  BY <1>2, <1>3 DEF Commit, SameFunds, Accounts

LEMMA QuietGlobalFunds ==
    ASSUME IInv, QuietGlobalArrival
    PROVE  SameFunds(work, work') /\ accounts' = work'
<1>1. ctx = Idle
  BY DEF QuietGlobalArrival, GlobalAddTrader, GlobalClean
<1>2. accounts \in Accounts /\ work = accounts
  BY <1>1, IdleSound DEF AccountsSound
<1>3. \A token \in Tokens : accounts.glob[token] \in Globals
  BY <1>2 DEF Accounts
<1>4. ASSUME NEW token \in Tokens, NEW g, NEW m, g.vault = accounts.glob[token].vault,
             g.dep = accounts.glob[token].dep,
             Commit([accounts EXCEPT !.m = m, !.glob = [accounts.glob EXCEPT ![token] = g]])
      PROVE  SameFunds(work, work') /\ accounts' = work'
  <2> DEFINE glob == [accounts.glob EXCEPT ![token] = g]
             a == [accounts EXCEPT !.m = m, !.glob = glob]
  <2>1. \A k \in Tokens : /\ glob[k].vault = accounts.glob[k].vault
                          /\ glob[k].dep = accounts.glob[k].dep
    BY <1>2, <1>4 DEF Accounts
  <2> HIDE DEF glob
  <2>2. a.wallet = accounts.wallet /\ a.vault = accounts.vault /\ a.glob = glob
    BY <1>2 DEF Accounts
  <2>3. accounts' = a /\ work' = a
    BY <1>4 DEF Commit, glob
  <2> HIDE DEF a
  <2>4. QED
    BY <1>2, <2>1, <2>2, <2>3 DEF SameFunds
<1>5. CASE \E trader \in Traders, token \in Tokens : GlobalAddTrader(trader, token)
  <2>1. PICK trader \in Traders, token \in Tokens : GlobalAddTrader(trader, token)
    BY <1>5
  <2> DEFINE g == AddTrader(accounts.glob[token], trader)
  <2>2. Commit([accounts EXCEPT !.glob[token] = g])
    BY <2>1 DEF GlobalAddTrader
  <2>3. g.vault = accounts.glob[token].vault /\ g.dep = accounts.glob[token].dep
    BY <1>3 DEF AddTrader, Globals
  <2> HIDE DEF g
  <2>4. [accounts EXCEPT !.glob[token] = g]
            = [accounts EXCEPT !.m = accounts.m, !.glob = [accounts.glob EXCEPT ![token] = g]]
    BY <1>2 DEF Accounts
  <2>5. QED
    BY <1>4, <2>2, <2>3, <2>4
<1>6. CASE \E i \in Index : GlobalClean(i)
  <2>1. PICK i \in Index : GlobalClean(i)
    BY <1>6
  <2> DEFINE order == accounts.m.data[i]
             token == Backing(order.is_bid)
             m == ReturnOrder(accounts.m, i)
             g == [accounts.glob[token] EXCEPT !.gas =
                      IF order.type = "Global" THEN @ - 1 ELSE @]
  <2>2. token \in Tokens
    BY DEF Backing, Tokens
  <2>3. Commit([accounts EXCEPT !.m = m, !.glob = [accounts.glob EXCEPT ![token] = g]])
    BY <1>2, <2>1 DEF GlobalClean, Accounts
  <2>4. g.vault = accounts.glob[token].vault /\ g.dep = accounts.glob[token].dep
    BY <1>3, <2>2 DEF Globals
  <2> HIDE DEF g, m, token
  <2>5. QED
    BY <1>4, <2>2, <2>3, <2>4
<1>7. QED
  BY <1>5, <1>6 DEF QuietGlobalArrival

LEMMA QuietTradeFunds ==
    ASSUME IInv, TradeArrival
    PROVE  SameFunds(work, work') /\ accounts' = accounts
<1>1. PICK trader \in Traders, globals \in GlobalsPassed :
        \/ \E batch \in Batches[trader] :
            \E cancels \in [1 .. batch.cancels -> CancelParams(accounts.m)] :
                BatchUpdate(trader, batch, globals, cancels)
        \/ \E swap \in Swaps[trader] : Swap(trader, swap, globals)
  BY DEF TradeArrival
<1>2. CASE \E batch \in Batches[trader] :
            \E cancels \in [1 .. batch.cancels -> CancelParams(accounts.m)] :
                BatchUpdate(trader, batch, globals, cancels)
  BY <1>2 DEF BatchUpdate, Step, SameFunds
<1>3. CASE \E swap \in Swaps[trader] : Swap(trader, swap, globals)
  <2>1. PICK swap \in Swaps[trader] : Swap(trader, swap, globals)
    BY <1>3
  <2>2. accounts' = accounts /\ SameTokens(work, work')
    BY <2>1, SwapEffect
  <2>3. QED
    BY <2>2 DEF SameTokens, SameFunds
<1>4. QED
  BY <1>1, <1>2, <1>3

LEMMA QuietProgressFunds ==
    ASSUME IInv, QuietProgress
    PROVE  SameFunds(work, work') /\ (accounts' = accounts \/ accounts' = work')
<1>1. CASE CancelOrder \/ CleanStaleMaker \/ CleanUnbackedMaker
  BY <1>1, ReturnEffect DEF ReturnedBy, SameTokens, SameFunds
<1>2. CASE PlaceReverse
  BY <1>2, PlaceReverseEffect DEF SameFunds
<1>3. CASE StopMatching
  BY <1>3, StopMatchingEffect DEF SameFunds
<1>4. CASE WalkPast \/ CountMaker \/ StopWalking
  BY <1>4, WalkEffect DEF SameFunds
<1>5. CASE BeginOrder
  BY <1>5, BeginOrderEffect DEF SameFunds, SameTokens
<1>6. ASSUME NEW gas, work \in Accounts,
             LET glob == [token \in Tokens |-> [work.glob[token] EXCEPT !.gas = gas[token]]]
             IN  work' = [work EXCEPT !.glob = glob]
      PROVE  SameFunds(work, work')
  <2> DEFINE glob == [token \in Tokens |-> [work.glob[token] EXCEPT !.gas = gas[token]]]
  <2>1. \A k \in Tokens : /\ glob[k].vault = work.glob[k].vault
                          /\ glob[k].dep = work.glob[k].dep
    BY <1>6 DEF Accounts, Globals
  <2> HIDE DEF glob
  <2>2. /\ work'.wallet = work.wallet /\ work'.vault = work.vault /\ work'.glob = glob
    BY <1>6 DEF Accounts, glob
  <2>3. QED
    BY <2>1, <2>2 DEF SameFunds
<1>7. CASE PrepayGas
  <2>1. work \in Accounts
    BY <1>7, BusySound DEF PrepayGas, WorkSound
  <2> DEFINE gas == [token \in Tokens |-> work.glob[token].gas + GasPrepayments(token)]
  <2>2. /\ work' = [work EXCEPT !.glob = [token \in Tokens |->
                        [work.glob[token] EXCEPT !.gas = gas[token]]]]
        /\ accounts' = accounts
    BY <1>7 DEF PrepayGas, Step
  <2> HIDE DEF gas
  <2>3. QED
    BY <1>6, <2>1, <2>2
<1>8. CASE FinishBatch
  <2>1. work \in Accounts
    BY <1>8, BusySound DEF FinishBatch, WorkSound
  <2> DEFINE gas == [token \in Tokens |-> work.glob[token].gas - ctx.refunds[token]]
  <2>2. /\ work' = [work EXCEPT !.glob = [token \in Tokens |->
                        [work.glob[token] EXCEPT !.gas = gas[token]]]]
        /\ accounts' = work'
    BY <1>8 DEF FinishBatch, Commit
  <2> HIDE DEF gas
  <2>3. QED
    BY <1>6, <2>1, <2>2
<1>9. QED
  BY <1>1, <1>2, <1>3, <1>4, <1>5, <1>7, <1>8 DEF QuietProgress

-----------------------------------------------------------------------------
(* The supply, step by step. *)

LEMMA SameVaultsStep ==
    ASSUME SupplyInv, SameVaults(work, work'), accounts' = accounts \/ accounts' = work'
    PROVE  SupplyInv'
BY DEF SupplyInv, SupplySound, SameVaults, InWallets, Supply

LEMMA FundsAreVaults ==
    ASSUME NEW a, NEW b, SameFunds(a, b)
    PROVE  SameVaults(a, b)
BY DEF SameFunds, SameVaults

LEMMA GlobalMovedSupply ==
    ASSUME NEW a \in Accounts, SupplySound(a), NEW trader \in Traders, NEW token \in Tokens,
           NEW delta \in Int, NEW b \in Accounts, GlobalMoved(a, b, trader, token, delta)
    PROVE  SupplySound(b)
<1> DEFINE flow == Flow(token, - delta)
<1>1. flow \in [Tokens -> Int]
  BY DEF Flow
<1>2. ASSUME NEW k \in Tokens
      PROVE  /\ b.vault[k] \in Int /\ b.glob[k].vault \in Int
             /\ a.vault[k] + a.glob[k].vault = b.vault[k] + b.glob[k].vault + flow[k]
  <2>1. a.vault[k] \in Int /\ a.glob[k].vault \in Int
    BY DEF Accounts, Globals
  <2>2. b.vault[k] = a.vault[k]
    BY DEF GlobalMoved
  <2>3. b.glob[k].vault = a.glob[k].vault + (IF k = token THEN delta ELSE 0)
    BY DEF GlobalMoved
  <2>4. flow[k] = IF k = token THEN - delta ELSE 0
    BY DEF Flow
  <2> DEFINE d == IF k = token THEN delta ELSE 0
  <2>5. d \in Int /\ flow[k] = - d /\ b.glob[k].vault = a.glob[k].vault + d
    BY <2>3, <2>4
  <2> HIDE DEF d, flow
  <2>6. QED
    BY <2>1, <2>2, <2>5
<1>3. Moved(a.wallet, b.wallet, trader, flow)
  BY DEF GlobalMoved
<1> HIDE DEF flow
<1>4. QED
  BY <1>1, <1>2, <1>3, PaidSupply

LEMMA BalanceSupply ==
    ASSUME IInv, SupplyInv, NEW trader \in Traders, NEW token \in Tokens, NEW atoms \in Nat,
           Deposit(trader, token, atoms) \/ Withdraw(trader, token, atoms)
    PROVE  SupplyInv'
<1>1. PICK delta \in Int : \E a : BalanceMoved(a, trader, token, delta)
  BY BalanceEffect
<1>2. PICK a : BalanceMoved(a, trader, token, delta)
  BY <1>1
<1>3. accounts \in Accounts
  BY <1>2, IdleSound DEF BalanceMoved, AccountsSound
<1> DEFINE flow == Flow(token, - delta)
<1>4. flow \in [Tokens -> Int]
  BY DEF Flow
<1>5. ASSUME NEW k \in Tokens
      PROVE  /\ a.vault[k] \in Int /\ a.glob[k].vault \in Int
             /\ accounts.vault[k] + accounts.glob[k].vault
                    = a.vault[k] + a.glob[k].vault + flow[k]
  <2>1. accounts.vault[k] \in Int /\ accounts.glob[k].vault \in Int
    BY <1>3 DEF Accounts, Globals
  <2>2. a.glob[k].vault = accounts.glob[k].vault
    BY <1>2 DEF BalanceMoved
  <2>3. a.vault[k] = accounts.vault[k] + (IF k = token THEN delta ELSE 0)
    BY <1>2 DEF BalanceMoved
  <2>4. flow[k] = IF k = token THEN - delta ELSE 0
    BY DEF Flow
  <2> DEFINE d == IF k = token THEN delta ELSE 0
  <2>5. d \in Int /\ flow[k] = - d /\ a.vault[k] = accounts.vault[k] + d
    BY <2>3, <2>4
  <2> HIDE DEF d, flow
  <2>6. QED
    BY <2>1, <2>2, <2>5
<1>6. Moved(accounts.wallet, a.wallet, trader, flow)
  BY <1>2 DEF BalanceMoved
<1> HIDE DEF flow
<1>7. SupplySound(accounts)
  BY DEF SupplyInv
<1>8. SupplySound(a)
  BY <1>3, <1>4, <1>5, <1>6, <1>7, PaidSupply
<1>9. QED
  BY <1>2, <1>8, CommitSupply DEF BalanceMoved

LEMMA GlobalBalanceSupply ==
    ASSUME IInv, SupplyInv, NEW trader \in Traders, NEW token \in Tokens, NEW atoms \in Nat,
           \/ GlobalDeposit(trader, token, atoms)
           \/ GlobalWithdraw(trader, token, atoms)
           \/ \E evictee \in Traders : GlobalEvict(trader, evictee, token, atoms)
    PROVE  SupplyInv'
<1>1. ctx = Idle
  BY DEF GlobalDeposit, GlobalWithdraw, GlobalEvict
<1>2. accounts \in Accounts /\ SupplySound(accounts)
  BY <1>1, IdleSound DEF AccountsSound, SupplyInv
<1>3. CASE GlobalDeposit(trader, token, atoms) \/ GlobalWithdraw(trader, token, atoms)
  <2>1. PICK delta \in Int : \E b \in Accounts :
                Commit(b) /\ GlobalMoved(accounts, b, trader, token, delta)
    BY <1>3, GlobalBalanceEffect
  <2>2. PICK b \in Accounts : Commit(b) /\ GlobalMoved(accounts, b, trader, token, delta)
    BY <2>1
  <2>3. SupplySound(b)
    BY <1>2, <2>2, GlobalMovedSupply
  <2>4. QED
    BY <2>2, <2>3, CommitSupply
<1>4. CASE \E evictee \in Traders : GlobalEvict(trader, evictee, token, atoms)
  <2>1. PICK evictee \in Traders : GlobalEvict(trader, evictee, token, atoms)
    BY <1>4
  <2>2. PICK delta \in Int : \E b, c \in Accounts :
                /\ Commit(c)
                /\ GlobalMoved(accounts, b, evictee, token, delta)
                /\ GlobalMoved(b, c, trader, token, atoms)
    BY <2>1, GlobalEvictEffect
  <2>3. PICK b \in Accounts, c \in Accounts :
                /\ Commit(c)
                /\ GlobalMoved(accounts, b, evictee, token, delta)
                /\ GlobalMoved(b, c, trader, token, atoms)
    BY <2>2
  <2>4. SupplySound(b)
    BY <1>2, <2>3, GlobalMovedSupply
  <2>5. SupplySound(c)
    <3>1. atoms \in Int
      OBVIOUS
    <3>2. QED
      BY <2>3, <2>4, <3>1, GlobalMovedSupply
  <2>6. QED
    BY <2>3, <2>5, CommitSupply
<1>5. QED
  BY <1>3, <1>4

\* A global maker sells from its deposit; the tokens move when the order is done.
LEMMA FillSupply ==
    ASSUME IInv, SupplyInv, Fill
    PROVE  SupplyInv'
<1>1. PICK i \in Index : FilledBy(i)
  BY FillEffect
<1> DEFINE order == work.m.data[i]
           maker == work.m.data[order.trader_index].trader
           before == work.glob[MakerToken]
<1>2. work \in Accounts /\ MakerToken \in Tokens
  <2>1. ctx.phase # "idle"
    BY <1>1 DEF FilledBy, IsMaker
  <2>2. QED
    BY <2>1, BusySound, BackingToken DEF WorkSound, MakerToken, Backing, Tokens
<1> DEFINE g == IF order.type = "Global"
                 THEN UpdateDeposit(before, maker, - Trade(i).got) ELSE before
<1>3. /\ work'.vault = work.vault /\ work'.wallet = work.wallet /\ accounts' = accounts
      /\ work'.glob = [work.glob EXCEPT ![MakerToken] = g]
  BY <1>1 DEF FilledBy
<1>4. g.vault = before.vault
  <2>1. before \in Globals
    BY <1>2 DEF Accounts
  <2> HIDE DEF before
  <2>2. QED
    BY <2>1 DEF UpdateDeposit, Globals
<1> HIDE DEF g
<1>5. \A k \in Tokens : work'.glob[k].vault = work.glob[k].vault
  BY <1>2, <1>3, <1>4 DEF Accounts
<1>6. SameVaults(work, work')
  BY <1>3, <1>5 DEF SameVaults
<1>7. QED
  BY <1>3, <1>6, SameVaultsStep

\* The tokens that global makers owe go from the global vault to the market's.
LEMMA FinishOrderSupply ==
    ASSUME IInv, SupplyInv, FinishOrder
    PROVE  SupplyInv'
<1>1. /\ work \in Accounts /\ ctx \in Contexts /\ accounts' = accounts
      /\ work'.wallet = work.wallet
      /\ work'.vault = [work.vault EXCEPT ![MakerToken] = @ + ctx.pending]
      /\ work'.glob = [work.glob EXCEPT ![MakerToken].vault = @ - ctx.pending]
  BY FinishOrderEffect
<1>2. ASSUME NEW k \in Tokens
      PROVE  /\ work'.vault[k] \in Int /\ work'.glob[k].vault \in Int
             /\ work.vault[k] + work.glob[k].vault = work'.vault[k] + work'.glob[k].vault
  <2>1. /\ work.vault[k] \in Int /\ work.glob[k] \in Globals /\ ctx.pending \in Int
        /\ work.vault \in [Tokens -> Nat] /\ work.glob \in [Tokens -> Globals]
    BY <1>1 DEF Accounts, Contexts
  <2>2. work.glob[k].vault \in Int
    BY <2>1 DEF Globals
  <2>3. CASE k = MakerToken
    <3>1. /\ work'.vault[k] = work.vault[k] + ctx.pending
          /\ work'.glob[k] = [work.glob[k] EXCEPT !.vault = @ - ctx.pending]
      BY <1>1, <2>1, <2>3
    <3>2. work'.glob[k].vault = work.glob[k].vault - ctx.pending
      BY <2>1, <3>1 DEF Globals
    <3>3. QED
      BY <2>1, <2>2, <3>1, <3>2
  <2>4. CASE k # MakerToken
    <3>1. work'.vault[k] = work.vault[k] /\ work'.glob[k] = work.glob[k]
      BY <1>1, <2>1, <2>4
    <3>2. QED
      BY <2>1, <2>2, <3>1
  <2>5. QED
    BY <2>3, <2>4
<1>3. SupplySound(work)
  BY DEF SupplyInv
<1>4. SupplySound(work')
  BY <1>1, <1>2, <1>3, TransferSupply
<1>5. QED
  BY <1>1, <1>4, StepSupply

\* What a swap pays to the swapper.
SwapFlow ==
    [k \in Tokens |-> IF k = InToken(ctx.swap) THEN - Consumed ELSE Extra(OutToken(ctx.swap))]

LEMMA FinishSwapEffect ==
    ASSUME IInv, FinishSwap
    PROVE  /\ ctx.phase = "next" /\ ctx.kind = "swap"
           /\ Swapper \in Traders /\ SwapFlow \in [Tokens -> Int]
           /\ \A t \in Tokens : Extra(t) >= 0
           /\ \E a : /\ Commit(a) /\ a.m = SeatSettled /\ a.glob = work.glob
                     /\ Moved(work.wallet, a.wallet, Swapper, SwapFlow)
                     /\ \A k \in Tokens : a.vault[k] = work.vault[k] - SwapFlow[k]
<1> DEFINE in == InToken(ctx.swap)
           out == OutToken(ctx.swap)
           vault == [work.vault EXCEPT ![in] = @ + Consumed, ![out] = @ - Extra(out)]
           wallet == [work.wallet EXCEPT ![Swapper][in] = @ - Consumed,
                                         ![Swapper][out] = @ + Extra(out)]
           a == [work EXCEPT !.m = SeatSettled, !.vault = vault, !.wallet = wallet]
<1>1. /\ ctx.phase = "next" /\ ctx.phase # "idle" /\ ctx.kind = "swap"
      /\ \A t \in Tokens : Extra(t) >= 0
  BY DEF FinishSwap, SwapOrderDone, CanFinishSwap
<1>2. Commit(a)
  BY DEF FinishSwap
<1>3. /\ work \in Accounts /\ ctx \in Contexts /\ ctx.seat \in SeatIndices(work.m)
      /\ work.m \in Markets
  BY <1>1, BusySound DEF WorkSound, MarketSound
<1>4. in \in Tokens /\ out \in Tokens /\ in # out /\ \A k \in Tokens : k = in \/ k = out
  <2>1. ctx.swap.is_base_in \in BOOLEAN
    BY <1>3 DEF Contexts, SwapArgs
  <2>2. QED
    BY <2>1 DEF InToken, OutToken, Backing, Tokens
<1>5. Swapper \in Traders
  BY <1>3, SeatTyped DEF Swapper, Seats
<1>6. Extra(in) \in Int /\ Extra(out) \in Int
  <2>1. \A t \in Tokens : Extra(t) \in Int
    BY <1>1, SeatNumbers DEF Extra
  <2>2. QED
    BY <1>4, <2>1
<1>7. Consumed \in Int
  <2>1. ctx.swap.in \in Nat
    BY <1>3 DEF Contexts, SwapArgs
  <2>2. QED
    BY <1>6, <2>1 DEF Consumed
<1>8. /\ SwapFlow \in [Tokens -> Int]
      /\ SwapFlow[in] = - Consumed /\ SwapFlow[out] = Extra(out)
  BY <1>4, <1>6, <1>7 DEF SwapFlow
<1>9. work.vault \in [Tokens -> Nat] /\ work.wallet \in [Traders -> [Tokens -> Nat]]
  BY <1>3 DEF Accounts
<1> HIDE DEF in, out
<1>10. \A k \in Tokens : vault[k] = work.vault[k] - SwapFlow[k]
  <2>1. vault[in] = work.vault[in] + Consumed /\ vault[out] = work.vault[out] - Extra(out)
    BY <1>4, <1>9
  <2>2. work.vault[in] \in Int /\ work.vault[out] \in Int
    BY <1>4, <1>9
  <2> HIDE DEF vault
  <2>3. /\ vault[in] = work.vault[in] - SwapFlow[in]
        /\ vault[out] = work.vault[out] - SwapFlow[out]
    BY <1>6, <1>7, <1>8, <2>1, <2>2
  <2>4. QED
    BY <1>4, <2>3
<1>11. Moved(work.wallet, wallet, Swapper, SwapFlow)
  <2>1. \A t \in Traders \ {Swapper} : wallet[t] = work.wallet[t]
    BY <1>9
  <2>2. /\ wallet[Swapper][in] = work.wallet[Swapper][in] - Consumed
        /\ wallet[Swapper][out] = work.wallet[Swapper][out] + Extra(out)
    BY <1>4, <1>5, <1>9
  <2>3. \A t \in Traders, k \in Tokens : work.wallet[t][k] \in Int
    BY <1>9
  <2> HIDE DEF wallet
  <2>4. \A k \in Tokens : wallet[Swapper][k] = work.wallet[Swapper][k] + SwapFlow[k]
    <3>1. work.wallet[Swapper][in] \in Int /\ work.wallet[Swapper][out] \in Int
      BY <1>4, <1>5, <2>3
    <3>2. /\ wallet[Swapper][in] = work.wallet[Swapper][in] + SwapFlow[in]
          /\ wallet[Swapper][out] = work.wallet[Swapper][out] + SwapFlow[out]
      BY <1>6, <1>7, <1>8, <2>2, <3>1
    <3>3. QED
      BY <1>4, <3>2
  <2>5. \A t \in Traders \ {Swapper}, k \in Tokens :
            wallet[t][k] = work.wallet[t][k] + 0
    BY <2>1, <2>3
  <2>6. QED
    BY <2>4, <2>5 DEF Moved
<1> HIDE DEF vault, wallet
<1>12. a.m = SeatSettled /\ a.glob = work.glob /\ a.vault = vault /\ a.wallet = wallet
  BY <1>3 DEF Accounts
<1> HIDE DEF a
<1>13. QED
  BY <1>1, <1>2, <1>5, <1>8, <1>10, <1>11, <1>12

LEMMA FinishSwapSupply ==
    ASSUME IInv, SupplyInv, FinishSwap
    PROVE  SupplyInv'
<1> DEFINE flow == SwapFlow
<1>1. /\ Swapper \in Traders /\ flow \in [Tokens -> Int] /\ ctx.phase = "next"
      /\ \E a : /\ Commit(a) /\ a.m = SeatSettled /\ a.glob = work.glob
                /\ Moved(work.wallet, a.wallet, Swapper, flow)
                /\ \A k \in Tokens : a.vault[k] = work.vault[k] - flow[k]
  BY FinishSwapEffect
<1> HIDE DEF flow
<1>2. PICK a : /\ Commit(a) /\ a.glob = work.glob
               /\ Moved(work.wallet, a.wallet, Swapper, flow)
               /\ \A k \in Tokens : a.vault[k] = work.vault[k] - flow[k]
  BY <1>1
<1>3. work \in Accounts
  BY <1>1, BusySound DEF WorkSound
<1>4. ASSUME NEW k \in Tokens
      PROVE  /\ a.vault[k] \in Int /\ a.glob[k].vault \in Int
             /\ work.vault[k] + work.glob[k].vault = a.vault[k] + a.glob[k].vault + flow[k]
  <2>1. work.vault[k] \in Int /\ work.glob[k].vault \in Int /\ flow[k] \in Int
    BY <1>1, <1>3 DEF Accounts, Globals
  <2>2. a.vault[k] = work.vault[k] - flow[k] /\ a.glob[k].vault = work.glob[k].vault
    BY <1>2
  <2>3. QED
    BY <2>1, <2>2
<1>5. SupplySound(work)
  BY DEF SupplyInv
<1>6. SupplySound(a)
  BY <1>1, <1>2, <1>3, <1>4, <1>5, PaidSupply
<1>7. QED
  BY <1>2, <1>6, CommitSupply

LEMMA InitSupply ==
    ASSUME Init
    PROVE  SupplyInv
<1>1. ASSUME NEW k \in Tokens
      PROVE  InWallets(accounts.wallet, k) + accounts.vault[k] + accounts.glob[k].vault
                = Supply(k)
  <2>1. accounts.wallet = InitialWallet /\ accounts.vault[k] = 0 /\ accounts.glob[k].vault = 0
    BY DEF Init, NoTokens, NewGlobal
  <2>2. InWallets(InitialWallet, k) \in Nat
    BY ManifestAssumption, WalletsInt
  <2>3. InWallets(InitialWallet, k) = Supply(k)
    BY DEF InWallets, Supply
  <2>4. QED
    BY <2>1, <2>2, <2>3
<1>2. work = accounts
  BY DEF Init
<1>3. QED
  BY <1>1, <1>2 DEF SupplyInv, SupplySound

LEMMA NextSupply ==
    ASSUME IInv, SupplyInv, [Next]_vars
    PROVE  SupplyInv'
<1>1. Amounts \subseteq Nat
  BY ManifestAssumption
<1>2. CASE MarketArrival
  <2>1. CASE QuietMarketArrival
    BY <2>1, QuietMarketFunds, FundsAreVaults, SameVaultsStep
  <2>2. CASE \E trader \in Traders, token \in Tokens, atoms \in Amounts :
                Deposit(trader, token, atoms) \/ Withdraw(trader, token, atoms)
    BY <1>1, <2>2, BalanceSupply
  <2>3. QED
    BY <1>2, <2>1, <2>2 DEF MarketArrival, QuietMarketArrival
<1>3. CASE GlobalArrival
  <2>1. CASE QuietGlobalArrival
    BY <2>1, QuietGlobalFunds, FundsAreVaults, SameVaultsStep
  <2>2. CASE \E trader \in Traders, token \in Tokens, atoms \in Amounts :
                \/ GlobalDeposit(trader, token, atoms)
                \/ GlobalWithdraw(trader, token, atoms)
                \/ \E evictee \in Traders : GlobalEvict(trader, evictee, token, atoms)
    BY <1>1, <2>2, GlobalBalanceSupply
  <2>3. QED
    BY <1>3, <2>1, <2>2 DEF GlobalArrival, QuietGlobalArrival
<1>4. CASE TradeArrival
  BY <1>4, QuietTradeFunds, FundsAreVaults, SameVaultsStep
<1>5. CASE QuietProgress
  BY <1>5, QuietProgressFunds, FundsAreVaults, SameVaultsStep
<1>6. CASE Fill
  BY <1>6, FillSupply
<1>7. CASE FinishOrder
  BY <1>7, FinishOrderSupply
<1>8. CASE FinishSwap
  BY <1>8, FinishSwapSupply
<1>9. CASE \/ CancelFails \/ PrepayGasFails \/ BeginOrderFails \/ FillFails
           \/ PlaceReverseFails \/ FinishOrderFails \/ EstimateFails \/ FinishSwapFails
  <2>1. Abort
    BY <1>9 DEF CancelFails, PrepayGasFails, BeginOrderFails, FillFails,
                PlaceReverseFails, FinishOrderFails, EstimateFails, FinishSwapFails
  <2>2. QED
    BY <2>1, AbortSupply
<1>10. CASE AdvanceSlot \/ UNCHANGED vars
  BY <1>10 DEF AdvanceSlot, vars, SupplyInv, SupplySound, InWallets, Supply
<1>11. QED
  BY <1>2, <1>3, <1>4, <1>5, <1>6, <1>7, <1>8, <1>9, <1>10
     DEF Next, Progress, QuietProgress

\* Whatever happens, the wallets, the market vault and the global vault of a mint
\* together hold what the wallets held at first: no instruction loses or makes a
\* token, not a swap that fails half way, nor an eviction.
THEOREM SupplyConserved == Spec => []SupplyInv
<1>1. Init => IInv /\ SupplyInv
  BY InitSound, InitSupply
<1>2. IInv /\ SupplyInv /\ [Next]_vars => (IInv /\ SupplyInv)'
  BY NextSound, NextSupply
<1>3. QED
  BY <1>1, <1>2, PTL DEF Spec

-----------------------------------------------------------------------------
(* Orders whose backing nobody has paid in: the notional of a global bid     *)
(* fits since it was computed when the order was placed.                     *)

BidsFit(m) ==
    \A i \in OrderIndices(m) :
        LET order == m.data[i]
        IN  order.type = "Global" /\ order.is_bid =>
                FitsAtoms(NotionalAtoms(order.is_bid, order.price, order.base))

BidsInv == BidsFit(accounts.m) /\ BidsFit(work.m)

\* Every global order of n is one of m, and no larger.
NoNewGlobal(m, n) ==
    \A i \in OrderIndices(n) :
        n.data[i].type = "Global" =>
            /\ i \in OrderIndices(m)
            /\ n.data[i].type = m.data[i].type /\ n.data[i].is_bid = m.data[i].is_bid
            /\ n.data[i].price = m.data[i].price /\ n.data[i].base <= m.data[i].base

LEMMA NotionalMonotone ==
    ASSUME NEW is_bid \in BOOLEAN, NEW price \in Nat, NEW a \in Nat, NEW b \in Nat, a <= b
    PROVE  NotionalAtoms(is_bid, price, a) <= NotionalAtoms(is_bid, price, b)
<1>1. b - a \in Nat /\ a + (b - a) = b
  OBVIOUS
<1>2. QuoteForBase(price, a, TRUE) <= QuoteForBase(price, a + (b - a), TRUE)
  BY <1>1, QuoteForBaseMonotone
<1>3. QED
  BY <1>1, <1>2 DEF NotionalAtoms

LEMMA NoNewGlobalFits ==
    ASSUME NEW m \in Markets, NEW n \in Markets, BidsFit(m), NoNewGlobal(m, n)
    PROVE  BidsFit(n)
<1> SUFFICES ASSUME NEW i \in OrderIndices(n), n.data[i].type = "Global", n.data[i].is_bid
             PROVE  FitsAtoms(NotionalAtoms(n.data[i].is_bid, n.data[i].price, n.data[i].base))
  BY DEF BidsFit
<1> DEFINE old == m.data[i]
           new == n.data[i]
<1>1. /\ i \in OrderIndices(m) /\ old.type = "Global" /\ old.is_bid = new.is_bid
      /\ old.price = new.price /\ new.base <= old.base
  BY DEF NoNewGlobal
<1>2. old \in RestingOrders /\ new \in RestingOrders
  BY <1>1, OrderTyped
<1>3. FitsAtoms(NotionalAtoms(old.is_bid, old.price, old.base))
  BY <1>1 DEF BidsFit
<1>4. /\ old.is_bid \in BOOLEAN /\ old.price \in Nat /\ old.base \in Nat
      /\ new.base \in Nat /\ new.is_bid = old.is_bid /\ new.price = old.price
  BY <1>1, <1>2 DEF RestingOrders
<1> DEFINE before == NotionalAtoms(old.is_bid, old.price, old.base)
           after == NotionalAtoms(old.is_bid, old.price, new.base)
<1> HIDE DEF old, new
<1>5. after <= before /\ before \in Nat /\ after \in Nat
  BY <1>1, <1>4, NotionalMonotone, NotionalAtomsNat
<1> HIDE DEF before, after
<1>6. FitsAtoms(after)
  BY <1>3, <1>5, QuantitiesAssumption DEF FitsAtoms, before
<1>7. NotionalAtoms(new.is_bid, new.price, new.base) = after
  BY <1>4 DEF after
<1>8. QED
  BY <1>6, <1>7 DEF new

LEMMA SameNoNewGlobal ==
    ASSUME NEW m \in Markets, NEW n, SameOrders(m, n)
    PROVE  NoNewGlobal(m, n)
<1> SUFFICES ASSUME NEW i \in OrderIndices(n)
             PROVE  /\ i \in OrderIndices(m) /\ n.data[i] = m.data[i]
                    /\ m.data[i].base \in Nat
  BY DEF NoNewGlobal
<1>1. i \in OrderIndices(m) /\ n.data[i] = m.data[i]
  BY DEF SameOrders
<1>2. m.data[i].base \in Nat
  BY <1>1, OrderTyped DEF RestingOrders
<1>3. QED
  BY <1>1, <1>2

LEMMA RemovedNoNewGlobal ==
    ASSUME NEW m \in Markets, NEW n, NEW i, Removed(m, n, i)
    PROVE  NoNewGlobal(m, n)
<1> SUFFICES ASSUME NEW j \in OrderIndices(n)
             PROVE  /\ j \in OrderIndices(m) /\ n.data[j] = m.data[j]
                    /\ m.data[j].base \in Nat
  BY DEF NoNewGlobal
<1>1. j \in OrderIndices(m) /\ n.data[j] = m.data[j]
  BY DEF Removed
<1>2. m.data[j].base \in Nat
  BY <1>1, OrderTyped DEF RestingOrders
<1>3. QED
  BY <1>1, <1>2

LEMMA ResizedNoNewGlobal ==
    ASSUME NEW m \in Markets, NEW n, NEW i \in OrderIndices(m), Resized(m, n, i),
           n.data[i].base <= m.data[i].base \/ m.data[i].type # "Global"
    PROVE  NoNewGlobal(m, n)
<1> SUFFICES ASSUME NEW j \in OrderIndices(n), n.data[j].type = "Global"
             PROVE  /\ j \in OrderIndices(m)
                    /\ n.data[j].type = m.data[j].type /\ n.data[j].is_bid = m.data[j].is_bid
                    /\ n.data[j].price = m.data[j].price /\ n.data[j].base <= m.data[j].base
  BY DEF NoNewGlobal
<1>1. j \in OrderIndices(m) /\ m.data[j] \in RestingOrders
  BY OrderTyped DEF Resized
<1>2. CASE j # i
  <2>1. n.data[j] = m.data[j] /\ m.data[j].base \in Nat
    BY <1>1, <1>2 DEF Resized, RestingOrders
  <2>2. QED
    BY <1>1, <2>1
<1>3. CASE j = i
  <2>1. PICK base \in Nat : n.data[i] = [m.data[i] EXCEPT !.base = base]
    BY DEF Resized
  <2>2. /\ n.data[i].type = m.data[i].type /\ n.data[i].is_bid = m.data[i].is_bid
        /\ n.data[i].price = m.data[i].price
    BY <1>1, <1>3, <2>1 DEF RestingOrders
  <2>3. QED
    BY <1>1, <1>3, <2>2
<1>4. QED
  BY <1>2, <1>3

LEMMA InsertedFits ==
    ASSUME NEW m, NEW n, NEW order, Inserted(m, n, order), BidsFit(m),
           order.type = "Global" /\ order.is_bid =>
                FitsAtoms(NotionalAtoms(order.is_bid, order.price, order.base))
    PROVE  BidsFit(n)
BY DEF Inserted, BidsFit

\* What one of these steps may do to the orders.
LEMMA BidsStep ==
    ASSUME IInv, IInv', BidsInv, BidsFit(work'.m), accounts' = accounts \/ accounts' = work'
    PROVE  BidsInv'
BY DEF BidsInv, BidsFit

LEMMA NoNewGlobalStep ==
    ASSUME IInv, IInv', BidsInv, NoNewGlobal(work.m, work'.m),
           accounts' = accounts \/ accounts' = work'
    PROVE  BidsInv'
<1>1. work.m \in Markets /\ work'.m \in Markets
  BY BothMarkets, BothMarketsNext
<1>2. BidsFit(work'.m)
  BY <1>1, NoNewGlobalFits DEF BidsInv
<1>3. QED
  BY <1>2, BidsStep

\* Instructions on a global account, but for GlobalClean.
LEMMA GlobalArrivalCommit ==
    ASSUME IInv,
           \/ \E trader \in Traders, token \in Tokens : GlobalAddTrader(trader, token)
           \/ \E trader \in Traders, token \in Tokens, atoms \in Amounts :
                \/ GlobalDeposit(trader, token, atoms)
                \/ GlobalWithdraw(trader, token, atoms)
                \/ \E evictee \in Traders : GlobalEvict(trader, evictee, token, atoms)
    PROVE  /\ ctx = Idle
           /\ \E glob, wallet : Commit([accounts EXCEPT !.glob = glob, !.wallet = wallet])
<1>1. ASSUME NEW trader \in Traders, NEW token \in Tokens, GlobalAddTrader(trader, token)
      PROVE  /\ ctx = Idle
             /\ \E glob, wallet : Commit([accounts EXCEPT !.glob = glob, !.wallet = wallet])
  <2> DEFINE glob == [accounts.glob EXCEPT ![token] = AddTrader(@, trader)]
  <2>1. ctx = Idle
    BY <1>1 DEF GlobalAddTrader
  <2>2. accounts \in Accounts
    BY <2>1, IdleSound DEF AccountsSound
  <2>3. Commit([accounts EXCEPT !.glob = glob, !.wallet = accounts.wallet])
    BY <1>1, <2>2 DEF GlobalAddTrader, Accounts
  <2> HIDE DEF glob
  <2>4. QED
    BY <2>1, <2>3
<1>2. ASSUME NEW trader \in Traders, NEW token \in Tokens, NEW atoms,
             \/ GlobalDeposit(trader, token, atoms)
             \/ GlobalWithdraw(trader, token, atoms)
             \/ \E evictee \in Traders : GlobalEvict(trader, evictee, token, atoms)
      PROVE  /\ ctx = Idle
             /\ \E glob, wallet : Commit([accounts EXCEPT !.glob = glob, !.wallet = wallet])
  <2>1. ctx = Idle
    BY <1>2 DEF GlobalDeposit, GlobalWithdraw, GlobalEvict
  <2>2. accounts \in Accounts
    BY <2>1, IdleSound DEF AccountsSound
  <2>3. CASE GlobalDeposit(trader, token, atoms)
    BY <2>1, <2>2, <2>3 DEF GlobalDeposit, Accounts
  <2>4. CASE GlobalWithdraw(trader, token, atoms)
    BY <2>1, <2>2, <2>4 DEF GlobalWithdraw, Accounts
  <2>5. CASE \E evictee \in Traders : GlobalEvict(trader, evictee, token, atoms)
    BY <2>1, <2>2, <2>5 DEF GlobalEvict, Accounts
  <2>6. QED
    BY <1>2, <2>3, <2>4, <2>5
<1>3. QED
  BY <1>1, <1>2

LEMMA ArrivalBids ==
    ASSUME IInv, IInv', BidsInv, MarketArrival \/ GlobalArrival \/ TradeArrival
    PROVE  BidsInv'
<1>1. work.m \in Markets
  BY BothMarkets
<1>2. CASE MarketArrival
  <2>1. OrdersStay
    BY <1>2, MarketArrivalOrders
  <2>2. PICK a : Commit(a) /\ SameOrders(accounts.m, a.m)
    BY <2>1 DEF OrdersStay
  <2>3. work = accounts /\ accounts' = work' /\ work'.m = a.m
    BY <2>1, <2>2, IdleSound DEF OrdersStay, Commit
  <2>4. NoNewGlobal(work.m, work'.m)
    BY <1>1, <2>2, <2>3, SameNoNewGlobal
  <2>5. QED
    BY <2>3, <2>4, NoNewGlobalStep
<1>3. CASE GlobalArrival
  <2>1. CASE \E i \in Index : GlobalClean(i)
    <3>1. PICK i \in Index : GlobalClean(i)
      BY <2>1
    <3>2. /\ ctx = Idle /\ i \in OrderIndices(accounts.m) /\ CanReturnOrder(accounts.m, i)
          /\ \E g : Commit([accounts EXCEPT !.m = ReturnOrder(accounts.m, i), !.glob = g])
      <4> DEFINE order == accounts.m.data[i]
                 token == Backing(order.is_bid)
                 glob == [accounts.glob EXCEPT ![token].gas =
                              IF order.type = "Global" THEN @ - 1 ELSE @]
      <4>1. ctx = Idle
        BY <3>1 DEF GlobalClean
      <4>2. accounts \in Accounts
        BY <4>1, IdleSound DEF AccountsSound
      <4>3. Commit([accounts EXCEPT !.m = ReturnOrder(accounts.m, i), !.glob = glob])
        BY <3>1, <4>2 DEF GlobalClean, Accounts
      <4> HIDE DEF glob
      <4>4. QED
        BY <3>1, <4>3 DEF GlobalClean, CanCancelOrder
    <3>3. MarketSound(accounts.m) /\ accounts \in Accounts /\ work = accounts
      BY <3>2, IdleSound DEF AccountsSound
    <3> DEFINE n == ReturnOrder(accounts.m, i)
    <3>4. Removed(accounts.m, n, i)
      BY <3>2, <3>3, ReturnOrderSound
    <3> HIDE DEF n
    <3>5. PICK g : Commit([accounts EXCEPT !.m = n, !.glob = g])
      BY <3>2 DEF n
    <3>6. accounts' = work' /\ work'.m = n
      BY <3>3, <3>5 DEF Commit, Accounts
    <3>7. NoNewGlobal(work.m, work'.m)
      BY <1>1, <3>3, <3>4, <3>6, RemovedNoNewGlobal
    <3>8. QED
      BY <3>6, <3>7, NoNewGlobalStep
  <2>2. CASE ~ \E i \in Index : GlobalClean(i)
    <3>1. /\ ctx = Idle
          /\ \E glob, wallet : Commit([accounts EXCEPT !.glob = glob, !.wallet = wallet])
      BY <1>3, <2>2, GlobalArrivalCommit DEF GlobalArrival
    <3>2. accounts \in Accounts /\ work = accounts
      BY <3>1, IdleSound DEF AccountsSound
    <3>3. PICK glob, wallet : Commit([accounts EXCEPT !.glob = glob, !.wallet = wallet])
      BY <3>1
    <3>4. accounts' = work' /\ work'.m = work.m
      BY <3>2, <3>3 DEF Commit, Accounts
    <3>5. NoNewGlobal(work.m, work'.m)
      BY <1>1, <3>4, SameNoNewGlobal DEF SameOrders
    <3>6. QED
      BY <3>4, <3>5, NoNewGlobalStep
  <2>3. QED
    BY <2>1, <2>2
<1>4. CASE TradeArrival
  <2>1. accounts' = accounts
    BY <1>4, QuietTradeFunds
  <2>2. SameOrders(work.m, work'.m)
    <3>1. PICK trader \in Traders, globals \in GlobalsPassed :
            \/ \E batch \in Batches[trader] :
                \E cancels \in [1 .. batch.cancels -> CancelParams(accounts.m)] :
                    BatchUpdate(trader, batch, globals, cancels)
            \/ \E swap \in Swaps[trader] : Swap(trader, swap, globals)
      BY <1>4 DEF TradeArrival
    <3>2. CASE \E batch \in Batches[trader] :
                \E cancels \in [1 .. batch.cancels -> CancelParams(accounts.m)] :
                    BatchUpdate(trader, batch, globals, cancels)
      BY <3>2 DEF BatchUpdate, Step, SameOrders
    <3>3. CASE \E swap \in Swaps[trader] : Swap(trader, swap, globals)
      BY <3>3, SwapEffect
    <3>4. QED
      BY <3>1, <3>2, <3>3
  <2>3. QED
    BY <1>1, <2>1, <2>2, SameNoNewGlobal, NoNewGlobalStep
<1>5. QED
  BY <1>2, <1>3, <1>4

LEMMA ProgressBids ==
    ASSUME IInv, IInv', BidsInv, QuietProgress \/ Fill \/ FinishSwap
    PROVE  BidsInv'
<1>1. work.m \in Markets /\ work'.m \in Markets
  BY BothMarkets, BothMarketsNext
<1>2. CASE CancelOrder \/ CleanStaleMaker \/ CleanUnbackedMaker
  BY <1>1, <1>2, ReturnEffect, RemovedNoNewGlobal, NoNewGlobalStep DEF ReturnedBy
<1>3. CASE PlaceReverse
  <2> DEFINE r == ctx.reversal
             is_bid == ctx.args.is_bid
             m == work.m
             n == work'.m
  <2>1. PICK i : ReversalOnBook(m, n, i, r, is_bid)
    BY <1>3, PlaceReverseEffect
  <2>2. accounts' = accounts /\ ctx.phase = "reverse" /\ ctx \in Contexts
    BY <1>3, PlaceReverseEffect
  <2>3. r.type # "Global"
    BY <2>2 DEF Contexts, Reversals, ReversibleTypes
  <2> HIDE DEF r, is_bid, m, n
  <2>4. m \in Markets /\ n \in Markets
    BY <1>1 DEF m, n
  <2>5. CASE SameOrders(m, n)
    BY <2>2, <2>4, <2>5, SameNoNewGlobal, NoNewGlobalStep DEF m, n
  <2>6. CASE i \in OrderIndices(m) /\ m.data[i].type = r.type /\ Resized(m, n, i)
    BY <2>2, <2>3, <2>4, <2>6, ResizedNoNewGlobal, NoNewGlobalStep DEF m, n
  <2>7. CASE \E order \in RestingOrders : order.type = r.type /\ Inserted(m, n, order)
    <3>1. BidsFit(m)
      BY DEF BidsInv, m
    <3>2. BidsFit(n)
      BY <2>3, <2>7, <3>1, InsertedFits
    <3>3. QED
      BY <2>2, <3>2, BidsStep DEF n
  <2>8. QED
    BY <2>1, <2>5, <2>6, <2>7 DEF ReversalOnBook
<1>4. CASE StopMatching \/ WalkPast \/ CountMaker \/ StopWalking
  <2>1. work' = work /\ accounts' = accounts
    BY <1>4, StopMatchingEffect, WalkEffect
  <2>2. SameOrders(work.m, work'.m)
    BY <2>1 DEF SameOrders
  <2>3. QED
    BY <1>1, <2>1, <2>2, SameNoNewGlobal, NoNewGlobalStep
<1>5. CASE BeginOrder
  BY <1>1, <1>5, BeginOrderEffect, SameNoNewGlobal, NoNewGlobalStep
<1>6. CASE PrepayGas \/ FinishBatch
  <2>1. work \in Accounts
    BY <1>6, BusySound DEF PrepayGas, FinishBatch, WorkSound
  <2>2. /\ \E glob : work' = [work EXCEPT !.glob = glob]
        /\ accounts' = accounts \/ accounts' = work'
    BY <1>6 DEF PrepayGas, FinishBatch, Step, Commit
  <2>3. work'.m = work.m
    BY <2>1, <2>2 DEF Accounts
  <2>4. SameOrders(work.m, work'.m)
    BY <2>3 DEF SameOrders
  <2>5. QED
    BY <1>1, <2>2, <2>4, SameNoNewGlobal, NoNewGlobalStep
<1>7. CASE Fill
  <2>1. PICK i \in Index : FilledBy(i)
    BY <1>7, FillEffect
  <2>2. /\ accounts' = accounts /\ i \in OrderIndices(work.m)
        /\ \/ Removed(work.m, work'.m, i)
           \/ Resized(work.m, work'.m, i) /\ work'.m.data[i].base <= work.m.data[i].base
    BY <2>1 DEF FilledBy
  <2>3. NoNewGlobal(work.m, work'.m)
    BY <1>1, <2>2, RemovedNoNewGlobal, ResizedNoNewGlobal
  <2>4. QED
    BY <2>2, <2>3, NoNewGlobalStep
<1>8. CASE FinishSwap
  <2>1. /\ ctx.phase = "next" /\ \A t \in Tokens : Extra(t) >= 0
        /\ \E a : Commit(a) /\ a.m = SeatSettled
    BY <1>8, FinishSwapEffect
  <2>2. WorkSound(work, ctx)
    BY <2>1, BusySound
  <2>3. SameOrders(work.m, SeatSettled)
    BY <2>1, <2>2, SeatSettledSound
  <2>4. accounts' = work' /\ work'.m = SeatSettled
    BY <2>1 DEF Commit
  <2>5. QED
    BY <1>1, <2>3, <2>4, SameNoNewGlobal, NoNewGlobalStep
<1>9. QED
  BY <1>2, <1>3, <1>4, <1>5, <1>6, <1>7, <1>8 DEF QuietProgress

\* Here the notional is checked.
LEMMA FinishOrderBids ==
    ASSUME IInv, IInv', BidsInv, FinishOrder
    PROVE  BidsInv'
<1>1. /\ accounts' = accounts /\ CanFinishOrder
      /\ IF Rests THEN Inserted(work.m, work'.m, RestingOrder(work.m))
                  ELSE SameOrders(work.m, work'.m)
  BY FinishOrderEffect
<1>2. work.m \in Markets
  BY BothMarkets
<1>3. CASE ~ Rests
  BY <1>1, <1>2, <1>3, SameNoNewGlobal, NoNewGlobalStep
<1>4. CASE Rests
  <2> DEFINE order == RestingOrder(work.m)
  <2>1. FitsAtoms(NotionalAtoms(order.is_bid, order.price, order.base))
    BY <1>1, <1>4 DEF CanFinishOrder, CanRestOn, RestNotional, RestingOrder
  <2>2. Inserted(work.m, work'.m, order)
    BY <1>1, <1>4
  <2> HIDE DEF order
  <2>3. BidsFit(work'.m)
    BY <2>1, <2>2, InsertedFits DEF BidsInv
  <2>4. QED
    BY <1>1, <2>3, BidsStep
<1>5. QED
  BY <1>3, <1>4

LEMMA NextBids ==
    ASSUME IInv, IInv', BidsInv, [Next]_vars
    PROVE  BidsInv'
<1>1. CASE MarketArrival \/ GlobalArrival \/ TradeArrival
  BY <1>1, ArrivalBids
<1>2. CASE QuietProgress \/ Fill \/ FinishSwap
  BY <1>2, ProgressBids
<1>3. CASE FinishOrder
  BY <1>3, FinishOrderBids
<1>4. CASE \/ CancelFails \/ PrepayGasFails \/ BeginOrderFails \/ FillFails
           \/ PlaceReverseFails \/ FinishOrderFails \/ EstimateFails \/ FinishSwapFails
  <2>1. Abort
    BY <1>4 DEF CancelFails, PrepayGasFails, BeginOrderFails, FillFails,
                PlaceReverseFails, FinishOrderFails, EstimateFails, FinishSwapFails
  <2>2. QED
    BY <2>1 DEF Abort, BidsInv, BidsFit
<1>5. CASE AdvanceSlot \/ UNCHANGED vars
  BY <1>5 DEF AdvanceSlot, vars, BidsInv, BidsFit
<1>6. QED
  BY <1>1, <1>2, <1>3, <1>4, <1>5 DEF Next, Progress, QuietProgress

LEMMA InitBids ==
    ASSUME Init
    PROVE  BidsInv
BY DEF Init, NewMarket, EmptyBlock, BidsInv, BidsFit, OrderIndices

-----------------------------------------------------------------------------
(* What rests is part of what the vault holds, hence of the supply. *)

\* One of the numbers that are added up is at most their sum.
LEMMA PartOfSum ==
    ASSUME NEW S, IsFiniteSet(S), NEW h, \A x \in S : h[x] \in Nat, NEW a \in S
    PROVE  h[a] <= SumFunctionOnSet(h, S)
<1> DEFINE rest == SumFunctionOnSet(h, S \ {a})
<1>1. IsFiniteSet(S \ {a}) /\ \A x \in S \ {a} : h[x] \in Nat
  BY FS_Subset
<1>2. rest \in Nat
  BY <1>1, SumNat
<1>3. SumFunctionOnSet(h, S) = h[a] + rest
  <2>1. \A x \in S : h[x] \in Int
    OBVIOUS
  <2>2. QED
    BY <2>1, SumTakeOut
<1>4. h[a] \in Nat
  OBVIOUS
<1> HIDE DEF rest
<1>5. QED
  BY <1>2, <1>3, <1>4

\* The claims on the market vault include any one seat and any one order.
LEMMA ClaimsIncludeBlocks ==
    ASSUME NEW m, MarketSound(m), NEW token \in Tokens,
           NEW s \in SeatIndices(m), NEW i \in OrderIndices(m)
    PROVE  m.data[s].bal[token] + OrderbookAtoms(m.data[i], token) <= Claims(m, token)
<1> DEFINE g == [j \in Index |-> SeatAtoms(m.data[j], token)]
           h == [j \in Index |-> BackingAtoms(m.data[j], token)]
<1>1. m \in Markets /\ s \in Index /\ i \in Index
  BY SeatTyped, OrderTyped DEF MarketSound
<1>2. \A j \in Index : m.data[j] \in Blocks
  BY <1>1 DEF Markets
<1>3. (\A j \in Index : g[j] \in Nat) /\ (\A j \in Index : h[j] \in Nat)
  BY <1>2, BlockAtomsNat
<1>4. g[s] = m.data[s].bal[token] /\ h[i] = OrderbookAtoms(m.data[i], token)
  BY <1>1 DEF SeatAtoms, BackingAtoms, SeatIndices, OrderIndices
<1>5. /\ m.withdrawable[token] = SumFunctionOnSet(g, Index)
      /\ m.orderbook[token] = SumFunctionOnSet(h, Index)
  BY DEF MarketSound, TotalsSound
<1> HIDE DEF g, h
<1>6. g[s] <= m.withdrawable[token] /\ h[i] <= m.orderbook[token]
  BY <1>1, <1>3, <1>5, IndexFinite, PartOfSum
<1>7. /\ g[s] \in Nat /\ h[i] \in Nat
      /\ m.withdrawable[token] \in Int /\ m.orderbook[token] \in Int
  BY <1>1, <1>3 DEF Markets
<1>8. QED
  BY <1>4, <1>6, <1>7 DEF Claims

\* No vault holds more than there is of its mint.
LEMMA VaultWithinSupply ==
    ASSUME NEW a \in Accounts, AllDepositsSound(a.glob, Idle), SupplySound(a),
           NEW token \in Tokens
    PROVE  /\ a.vault[token] \in Nat
           /\ FitsAtoms(a.vault[token])
<1>1. /\ a.wallet \in [Traders -> [Tokens -> Nat]] /\ a.vault[token] \in Nat
      /\ a.glob[token] \in Globals
  BY DEF Accounts
<1>2. InWallets(a.wallet, token) \in Nat
  BY <1>1, WalletsInt
<1>3. a.glob[token].vault \in Nat
  <2> DEFINE dep == a.glob[token].dep
  <2>1. /\ a.glob[token].vault = a.glob[token].deposited + 0
        /\ a.glob[token].deposited = SumFunctionOnSet(dep, Traders)
    BY NothingPending DEF AllDepositsSound, DepositsSound
  <2>2. \A t \in Traders : dep[t] \in Nat
    BY <1>1 DEF Globals
  <2> HIDE DEF dep
  <2>3. SumFunctionOnSet(dep, Traders) \in Nat
    BY <2>2, GlobalAssumption, SumNat
  <2>4. QED
    BY <2>1, <2>3
<1>4. InWallets(a.wallet, token) + a.vault[token] + a.glob[token].vault
        = Supply(token)
  BY DEF SupplySound
<1>5. Supply(token) <= ATOM_LIMIT
  BY SupplyAssumption DEF FitsAtoms
<1>6. ATOM_LIMIT \in Int
  BY QuantitiesAssumption
<1>7. a.vault[token] <= ATOM_LIMIT
  BY <1>1, <1>2, <1>3, <1>4, <1>5, <1>6
<1>8. QED
  BY <1>1, <1>7 DEF FitsAtoms

LEMMA ReturnFits ==
    ASSUME NEW a \in Accounts, MarketSound(a.m),
           \A t \in Tokens : a.vault[t] = Claims(a.m, t),
           AllDepositsSound(a.glob, Idle), SupplySound(a), BidsFit(a.m),
           NEW i \in OrderIndices(a.m)
    PROVE  CanCancelOrder(a.m, i)
<1> DEFINE order == a.m.data[i]
           token == Backing(order.is_bid)
           notional == NotionalAtoms(order.is_bid, order.price, order.base)
           s == order.trader_index
<1>1. MarketSound(a.m) /\ a.m \in Markets
  BY DEF MarketSound
<1>2. order \in RestingOrders /\ s \in SeatIndices(a.m)
  BY <1>1, OrderTyped DEF MarketSound, OwnersSeated
<1>3. token \in Tokens
  BY <1>2, BackingToken DEF RestingOrders
<1>4. notional \in Nat
  BY <1>2, NotionalAtomsNat DEF RestingOrders
<1>5. a.m.data[s].bal[token] \in Nat
  BY <1>1, <1>2, <1>3, SeatTyped DEF Seats
<1>6. CASE order.type = "Global"
  <2>1. order.is_bid => FitsAtoms(notional)
    BY <1>6 DEF BidsFit
  <2>2. QED
    BY <1>6, <2>1 DEF CanCancelOrder, CanReturnOrder
<1>7. CASE order.type # "Global"
  <2>1. OrderbookAtoms(order, token) = notional
    BY <1>7 DEF OrderbookAtoms
  <2> DEFINE balance == a.m.data[s].bal[token]
  <2>2. balance + notional <= Claims(a.m, token)
    BY <1>1, <1>2, <1>3, <2>1, ClaimsIncludeBlocks
  <2>3. Claims(a.m, token) = a.vault[token]
    BY <1>3
  <2>4. a.vault[token] \in Nat /\ a.vault[token] <= ATOM_LIMIT
    BY <1>3, VaultWithinSupply DEF FitsAtoms
  <2>5. ATOM_LIMIT \in Int
    BY QuantitiesAssumption
  <2>6. balance \in Nat
    BY <1>5
  <2> HIDE DEF notional, balance
  <2>7. balance + notional <= ATOM_LIMIT /\ notional <= ATOM_LIMIT /\ balance + notional >= 0
    BY <1>4, <2>2, <2>3, <2>4, <2>5, <2>6
  <2>8. QED
    BY <2>7 DEF CanCancelOrder, CanReturnOrder, CanUpdateBalance, FitsAtoms, notional, balance
<1>8. QED
  BY <1>6, <1>7

\* Whatever an order has been through, its owner can cancel it: the refund never
\* overflows a balance, for all that rests and all balances are part of the supply
\* of a mint, and the notional of a global bid was computed when it was placed.
THEOREM OrdersAlwaysReturnable == Spec => []OrdersReturnable
<1>1. Init => IInv /\ DepositsInv /\ SupplyInv /\ BidsInv
  BY InitSound, InitDeposits, InitSupply, InitBids
<1>2. /\ IInv /\ DepositsInv /\ SupplyInv /\ BidsInv /\ [Next]_vars
      => (IInv /\ DepositsInv /\ SupplyInv)'
  BY NextSound, NextDeposits, NextSupply
<1>3. IInv /\ IInv' /\ BidsInv /\ [Next]_vars => BidsInv'
  BY NextBids
<1>4. IInv /\ DepositsInv /\ SupplyInv /\ BidsInv => OrdersReturnable
  BY ReturnFits DEF OrdersReturnable, IInv, AccountsSound, DepositsInv, SupplyInv, BidsInv
<1>5. QED
  BY <1>1, <1>2, <1>3, <1>4, PTL DEF Spec

-----------------------------------------------------------------------------
(* Whose the blocks of the market are. *)

OnMarket(m, trader, token) ==
    SumFunctionOnSet([i \in Index |-> HeldBy(m, i, trader, token)], Index)

LEMMA HeldBySeat ==
    ASSUME NEW m, NEW i \in SeatIndices(m), NEW trader, NEW token
    PROVE  HeldBy(m, i, trader, token) =
                IF m.data[i].trader = trader THEN m.data[i].bal[token] ELSE 0
<1>1. m.data[i].kind = "seat"
  BY DEF SeatIndices
<1>2. QED
  BY <1>1 DEF HeldBy

LEMMA HeldByOrder ==
    ASSUME NEW m, NEW i \in OrderIndices(m), NEW trader, NEW token
    PROVE  HeldBy(m, i, trader, token) =
                IF m.data[m.data[i].trader_index].trader = trader
                THEN OrderbookAtoms(m.data[i], token) ELSE 0
<1>1. m.data[i].kind = "order"
  BY DEF OrderIndices
<1>2. QED
  BY <1>1 DEF HeldBy

LEMMA HeldByNobody ==
    ASSUME NEW m, NEW i \in Index, i \notin SeatIndices(m), i \notin OrderIndices(m),
           NEW trader, NEW token
    PROVE  HeldBy(m, i, trader, token) = 0
BY DEF HeldBy, SeatIndices, OrderIndices

LEMMA SeatOrOrder ==
    ASSUME NEW m, NEW i \in SeatIndices(m)
    PROVE  i \notin OrderIndices(m)
BY DEF SeatIndices, OrderIndices

\* The trader who owns the order at index i.
OrderOwner(m, i) == m.data[m.data[i].trader_index].trader

LEMMA OrderOwnerSeated ==
    ASSUME NEW m, MarketSound(m), NEW i \in OrderIndices(m)
    PROVE  /\ m.data[i].trader_index \in SeatIndices(m)
           /\ OrderOwner(m, i) \in Traders
<1>1. m.data[i].trader_index \in SeatIndices(m)
  BY DEF MarketSound, OwnersSeated
<1>2. m.data[m.data[i].trader_index] \in Seats
  BY <1>1, SeatTyped DEF MarketSound
<1>3. QED
  BY <1>1, <1>2 DEF OrderOwner, Seats

LEMMA HeldByNat ==
    ASSUME NEW m, MarketSound(m), NEW i \in Index, NEW trader, NEW token \in Tokens
    PROVE  HeldBy(m, i, trader, token) \in Nat
<1>1. m \in Markets
  BY DEF MarketSound
<1>2. CASE i \in SeatIndices(m)
  <2>1. m.data[i].bal[token] \in Nat
    BY <1>1, <1>2, SeatTyped DEF Seats
  <2>2. QED
    BY <1>2, <2>1, HeldBySeat
<1>3. CASE i \in OrderIndices(m)
  <2>1. OrderbookAtoms(m.data[i], token) \in Nat
    BY <1>1, <1>3, OrderTyped, OrderbookAtomsNat
  <2>2. QED
    BY <1>3, <2>1, HeldByOrder
<1>4. CASE i \notin SeatIndices(m) /\ i \notin OrderIndices(m)
  BY <1>4, HeldByNobody
<1>5. QED
  BY <1>2, <1>3, <1>4

LEMMA OnMarketNat ==
    ASSUME NEW m, MarketSound(m), NEW trader, NEW token \in Tokens
    PROVE  OnMarket(m, trader, token) \in Nat
<1> DEFINE h == [i \in Index |-> HeldBy(m, i, trader, token)]
<1>1. \A i \in Index : h[i] \in Nat
  BY HeldByNat
<1> HIDE DEF h
<1>2. SumFunctionOnSet(h, Index) \in Nat
  BY <1>1, IndexFinite, SumNat
<1>3. QED
  BY <1>2 DEF OnMarket, h

\* Every block is one trader's.
LEMMA OneOwner ==
    ASSUME NEW m, MarketSound(m), NEW i \in Index, NEW token \in Tokens
    PROVE  SumFunctionOnSet([t \in Traders |-> HeldBy(m, i, t, token)], Traders)
                = SeatAtoms(m.data[i], token) + BackingAtoms(m.data[i], token)
<1> DEFINE h == [t \in Traders |-> HeldBy(m, i, t, token)]
           block == m.data[i]
<1>1. m \in Markets /\ block \in Blocks
  BY DEF MarketSound, Markets
<1>2. SeatAtoms(block, token) \in Nat /\ BackingAtoms(block, token) \in Nat
  BY <1>1, BlockAtomsNat
<1>3. \A t \in Traders : h[t] \in Int
  BY HeldByNat
<1>4. CASE i \in SeatIndices(m)
  <2> DEFINE owner == block.trader
  <2>1. owner \in Traders
    BY <1>1, <1>4, SeatTyped DEF Seats
  <2>2. SeatAtoms(block, token) = block.bal[token] /\ BackingAtoms(block, token) = 0
    BY <1>4 DEF SeatIndices, SeatAtoms, BackingAtoms
  <2>3. h[owner] = SeatAtoms(block, token) /\ \A t \in Traders \ {owner} : h[t] = 0
    BY <1>4, <2>1, <2>2, HeldBySeat
  <2> HIDE DEF h, owner
  <2>4. SumFunctionOnSet(h, Traders) = h[owner]
    BY <1>3, <2>1, <2>3, GlobalAssumption, SumOfOne
  <2>5. QED
    BY <1>2, <2>2, <2>3, <2>4 DEF h
<1>5. CASE i \in OrderIndices(m)
  <2> DEFINE owner == OrderOwner(m, i)
  <2>1. owner \in Traders
    BY <1>5, OrderOwnerSeated
  <2>2. SeatAtoms(block, token) = 0 /\ BackingAtoms(block, token) = OrderbookAtoms(block, token)
    BY <1>5 DEF OrderIndices, SeatAtoms, BackingAtoms
  <2>3. h[owner] = BackingAtoms(block, token) /\ \A t \in Traders \ {owner} : h[t] = 0
    BY <1>5, <2>1, <2>2, HeldByOrder DEF OrderOwner
  <2> HIDE DEF h, owner
  <2>4. SumFunctionOnSet(h, Traders) = h[owner]
    BY <1>3, <2>1, <2>3, GlobalAssumption, SumOfOne
  <2>5. QED
    BY <1>2, <2>2, <2>3, <2>4 DEF h
<1>6. CASE i \notin SeatIndices(m) /\ i \notin OrderIndices(m)
  <2>1. \A t \in Traders : h[t] = 0
    BY <1>6, HeldByNobody
  <2>2. SeatAtoms(block, token) = 0 /\ BackingAtoms(block, token) = 0
    BY <1>6 DEF SeatIndices, OrderIndices, SeatAtoms, BackingAtoms
  <2> HIDE DEF h
  <2>3. SumFunctionOnSet(h, Traders) = 0
    BY <2>1, GlobalAssumption, SumOfZeros
  <2>4. QED
    BY <2>2, <2>3 DEF h
<1>7. QED
  BY <1>4, <1>5, <1>6

\* What all traders own on the market is what its vault must hold.
LEMMA MarketOwned ==
    ASSUME NEW m, MarketSound(m), NEW token \in Tokens
    PROVE  SumFunctionOnSet([t \in Traders |-> OnMarket(m, t, token)], Traders)
                = Claims(m, token)
<1> DEFINE h == [i \in Index |-> [t \in Traders |-> HeldBy(m, i, t, token)]]
           col == [t \in Traders |-> [i \in Index |-> HeldBy(m, i, t, token)]]
           seats == [i \in Index |-> SeatAtoms(m.data[i], token)]
           backing == [i \in Index |-> BackingAtoms(m.data[i], token)]
           rows == [i \in Index |-> SeatAtoms(m.data[i], token) + BackingAtoms(m.data[i], token)]
           cols == [t \in Traders |-> OnMarket(m, t, token)]
<1>1. \A i \in Index, t \in Traders : h[i][t] \in Int /\ col[t][i] = h[i][t]
  BY HeldByNat
<1>2. \A i \in Index : rows[i] = SumFunctionOnSet(h[i], Traders)
  BY OneOwner
<1>3. \A t \in Traders : cols[t] = SumFunctionOnSet(col[t], Index)
  BY DEF OnMarket
<1>4. \A i \in Index : seats[i] \in Int /\ backing[i] \in Int /\ rows[i] = seats[i] + backing[i]
  <2>1. \A i \in Index : m.data[i] \in Blocks
    BY DEF MarketSound, Markets
  <2>2. QED
    BY <2>1, BlockAtomsNat
<1>5. /\ m.withdrawable[token] = SumFunctionOnSet(seats, Index)
      /\ m.orderbook[token] = SumFunctionOnSet(backing, Index)
  BY DEF MarketSound, TotalsSound
<1> HIDE DEF h, col, rows, cols, seats, backing
<1>6. SumFunctionOnSet(cols, Traders) = SumFunctionOnSet(rows, Index)
  <2>1. IsTable(h, col, rows, cols, Index, Traders)
    BY <1>1, <1>2, <1>3 DEF IsTable
  <2>2. QED
    BY <2>1, IndexFinite, GlobalAssumption, SumExchange
<1>7. SumFunctionOnSet(rows, Index)
        = SumFunctionOnSet(seats, Index) + SumFunctionOnSet(backing, Index)
  BY <1>4, IndexFinite, SumAdd
<1>8. QED
  BY <1>5, <1>6, <1>7 DEF Claims, cols

-----------------------------------------------------------------------------
(* Whose holdings an operation on the market changes. *)

\* From m to n, only what the owner holds of a token differs.
ChangesOnly(m, n, owner, token) ==
    \A t \in Traders, k \in Tokens :
        t # owner \/ k # token => OnMarket(n, t, k) = OnMarket(m, t, k)

\* Only what the owner holds differs.
ChangesOnlyOf(m, n, owner) ==
    \A t \in Traders \ {owner}, k \in Tokens : OnMarket(n, t, k) = OnMarket(m, t, k)

\* What nobody's holdings lose.
Gains(m, n, token) == \A t \in Traders : OnMarket(n, t, token) >= OnMarket(m, t, token)

LEMMA SameHeld ==
    ASSUME NEW m, NEW n, NEW t, NEW k, \A i \in Index : HeldBy(n, i, t, k) = HeldBy(m, i, t, k)
    PROVE  OnMarket(n, t, k) = OnMarket(m, t, k)
<1> DEFINE g == [i \in Index |-> HeldBy(m, i, t, k)]
           h == [i \in Index |-> HeldBy(n, i, t, k)]
<1>1. \A i \in Index : h[i] = g[i]
  OBVIOUS
<1> HIDE DEF g, h
<1>2. SumFunctionOnSet(h, Index) = SumFunctionOnSet(g, Index)
  BY <1>1, IndexFinite, SumSame
<1>3. QED
  BY <1>2 DEF OnMarket, g, h

LEMMA MoreHeld ==
    ASSUME NEW m, MarketSound(m), NEW n, MarketSound(n), NEW t, NEW k \in Tokens,
           \A i \in Index : HeldBy(n, i, t, k) >= HeldBy(m, i, t, k)
    PROVE  OnMarket(n, t, k) >= OnMarket(m, t, k)
<1> DEFINE g == [i \in Index |-> HeldBy(m, i, t, k)]
           h == [i \in Index |-> HeldBy(n, i, t, k)]
<1>1. \A i \in Index : g[i] \in Int /\ h[i] \in Int /\ h[i] >= g[i]
  BY HeldByNat
<1> HIDE DEF g, h
<1>2. SumFunctionOnSet(h, Index) >= SumFunctionOnSet(g, Index)
  BY <1>1, IndexFinite, SumMonotone
<1>3. QED
  BY <1>2 DEF OnMarket, g, h

LEMMA ChangesOnlyTwice ==
    ASSUME NEW m, NEW n, NEW l, NEW owner, NEW token,
           ChangesOnly(m, n, owner, token), ChangesOnly(n, l, owner, token)
    PROVE  ChangesOnly(m, l, owner, token)
BY DEF ChangesOnly

LEMMA ChangesOnlyOwner ==
    ASSUME NEW m, NEW n, NEW owner, NEW token, ChangesOnly(m, n, owner, token)
    PROVE  ChangesOnlyOf(m, n, owner)
BY DEF ChangesOnly, ChangesOnlyOf

\* What update_balance changes.
LEMMA UpdateOwned ==
    ASSUME NEW m, MarketSound(m), NEW i \in SeatIndices(m), NEW token \in Tokens,
           NEW delta \in Int, m.data[i].bal[token] + delta >= 0
    PROVE  LET n == UpdateBalance(m, i, token, delta)
           IN  /\ ChangesOnly(m, n, m.data[i].trader, token)
               /\ delta >= 0 => \A k \in Tokens : Gains(m, n, k)
<1> DEFINE n == UpdateBalance(m, i, token, delta)
<1>1. /\ MarketSound(n) /\ SameBlocks(m, n)
      /\ \A j \in SeatIndices(m), k \in Tokens :
            n.data[j].bal[k] = m.data[j].bal[k] + (IF j = i /\ k = token THEN delta ELSE 0)
  BY UpdateBalanceSound
<1> HIDE DEF n
<1>2. ASSUME NEW j \in Index, NEW t \in Traders, NEW k \in Tokens
      PROVE  HeldBy(n, j, t, k) = HeldBy(m, j, t, k)
                + (IF j = i /\ k = token /\ t = m.data[i].trader THEN delta ELSE 0)
  <2>1. HeldBy(m, j, t, k) \in Nat
    BY HeldByNat
  <2>2. CASE j \in SeatIndices(m)
    <3>1. j \in SeatIndices(n) /\ n.data[j].trader = m.data[j].trader
      BY <1>1, <2>2 DEF SameBlocks
    <3>2. /\ HeldBy(n, j, t, k) = IF n.data[j].trader = t THEN n.data[j].bal[k] ELSE 0
          /\ HeldBy(m, j, t, k) = IF m.data[j].trader = t THEN m.data[j].bal[k] ELSE 0
      BY <2>2, <3>1, HeldBySeat
    <3>3. n.data[j].bal[k] = m.data[j].bal[k] + (IF j = i /\ k = token THEN delta ELSE 0)
      BY <1>1, <2>2
    <3>4. CASE m.data[j].trader = t
      BY <3>1, <3>2, <3>3, <3>4
    <3>5. CASE m.data[j].trader # t
      BY <3>1, <3>2, <3>5
    <3>6. QED
      BY <3>4, <3>5
  <2>3. CASE j \in OrderIndices(m)
    <3>1. j \in OrderIndices(n) /\ n.data[j] = m.data[j]
      BY <1>1, <2>3 DEF SameBlocks
    <3>2. m.data[j].trader_index \in SeatIndices(m)
      BY <2>3, OrderOwnerSeated
    <3>3. n.data[m.data[j].trader_index].trader = m.data[m.data[j].trader_index].trader
      BY <1>1, <3>2 DEF SameBlocks
    <3>4. HeldBy(n, j, t, k) = HeldBy(m, j, t, k)
      BY <2>3, <3>1, <3>3, HeldByOrder
    <3>5. j # i
      BY <2>3, SeatOrOrder
    <3>6. QED
      BY <2>1, <3>4, <3>5
  <2>4. CASE j \notin SeatIndices(m) /\ j \notin OrderIndices(m)
    <3>1. HeldBy(n, j, t, k) = 0 /\ HeldBy(m, j, t, k) = 0
      BY <1>1, <2>4, HeldByNobody DEF SameBlocks
    <3>2. QED
      BY <2>4, <3>1
  <2>5. QED
    BY <2>2, <2>3, <2>4
<1>3. ChangesOnly(m, n, m.data[i].trader, token)
  <2> SUFFICES ASSUME NEW t \in Traders, NEW k \in Tokens, t # m.data[i].trader \/ k # token
               PROVE  OnMarket(n, t, k) = OnMarket(m, t, k)
    BY DEF ChangesOnly
  <2>1. ASSUME NEW j \in Index PROVE HeldBy(n, j, t, k) = HeldBy(m, j, t, k)
    <3>1. HeldBy(m, j, t, k) \in Nat
      BY HeldByNat
    <3>2. HeldBy(n, j, t, k) = HeldBy(m, j, t, k) + 0
      BY <1>2
    <3>3. QED
      BY <3>1, <3>2
  <2>2. QED
    BY <2>1, SameHeld
<1>4. ASSUME delta >= 0, NEW t \in Traders, NEW k \in Tokens
      PROVE  OnMarket(n, t, k) >= OnMarket(m, t, k)
  <2>1. ASSUME NEW j \in Index PROVE HeldBy(n, j, t, k) >= HeldBy(m, j, t, k)
    <3> DEFINE change == IF j = i /\ k = token /\ t = m.data[i].trader THEN delta ELSE 0
    <3>1. HeldBy(m, j, t, k) \in Nat /\ change \in Nat
      BY <1>4, HeldByNat
    <3>2. HeldBy(n, j, t, k) = HeldBy(m, j, t, k) + change
      BY <1>2
    <3> HIDE DEF change
    <3>3. QED
      BY <3>1, <3>2
  <2>2. QED
    BY <1>1, <2>1, MoreHeld
<1>5. QED
  BY <1>3, <1>4 DEF n, Gains

\* From m to n one block changes, which is no seat that owns another block.
BlockChanges(m, n, i) ==
    /\ \A j \in Index \ {i} : n.data[j] = m.data[j]
    /\ \A j \in OrderIndices(m) \ {i} : m.data[j].trader_index \in Index \ {i}

LEMMA BlockOwned ==
    ASSUME NEW m, NEW n, NEW i \in Index, BlockChanges(m, n, i),
           NEW t, NEW k, HeldBy(n, i, t, k) = HeldBy(m, i, t, k)
    PROVE  OnMarket(n, t, k) = OnMarket(m, t, k)
<1>1. ASSUME NEW j \in Index \ {i} PROVE HeldBy(n, j, t, k) = HeldBy(m, j, t, k)
  <2>1. n.data[j] = m.data[j]
    BY DEF BlockChanges
  <2>2. CASE j \in SeatIndices(m)
    <3>1. j \in SeatIndices(n)
      BY <2>1, <2>2 DEF SeatIndices
    <3>2. QED
      BY <2>1, <2>2, <3>1, HeldBySeat
  <2>3. CASE j \in OrderIndices(m)
    <3>1. j \in OrderIndices(n)
      BY <2>1, <2>3 DEF OrderIndices
    <3>2. m.data[j].trader_index \in Index \ {i}
      BY <2>3 DEF BlockChanges
    <3>3. n.data[m.data[j].trader_index] = m.data[m.data[j].trader_index]
      BY <3>2 DEF BlockChanges
    <3>4. QED
      BY <2>1, <2>3, <3>1, <3>3, HeldByOrder
  <2>4. CASE j \notin SeatIndices(m) /\ j \notin OrderIndices(m)
    <3>1. j \notin SeatIndices(n) /\ j \notin OrderIndices(n)
      BY <2>1, <2>4 DEF SeatIndices, OrderIndices
    <3>2. QED
      BY <2>4, <3>1, HeldByNobody
  <2>5. QED
    BY <2>2, <2>3, <2>4
<1>2. QED
  BY <1>1, SameHeld

\* Block i holds nothing but, perhaps, atoms of a token for its owner.
HoldsOnly(m, i, owner, token) ==
    \A t \in Traders, k \in Tokens : t # owner \/ k # token => HeldBy(m, i, t, k) = 0

LEMMA OrderHoldsOnly ==
    ASSUME NEW m, NEW i \in OrderIndices(m)
    PROVE  HoldsOnly(m, i, OrderOwner(m, i), Backing(m.data[i].is_bid))
BY HeldByOrder DEF HoldsOnly, OrderOwner, OrderbookAtoms

LEMMA EmptyHoldsOnly ==
    ASSUME NEW m, NEW i \in Index, m.data[i] = EmptyBlock, NEW owner, NEW token
    PROVE  HoldsOnly(m, i, owner, token)
<1>1. i \notin SeatIndices(m) /\ i \notin OrderIndices(m)
  BY DEF SeatIndices, OrderIndices, EmptyBlock
<1>2. QED
  BY <1>1, HeldByNobody DEF HoldsOnly

\* An order is removed, inserted or resized.
LEMMA OrderOwned ==
    ASSUME NEW m, MarketSound(m), NEW n, NEW i \in Index \ SeatIndices(m),
           \A j \in Index \ {i} : n.data[j] = m.data[j], NEW owner, NEW token,
           HoldsOnly(m, i, owner, token), HoldsOnly(n, i, owner, token)
    PROVE  ChangesOnly(m, n, owner, token)
<1>1. BlockChanges(m, n, i)
  BY OrderOwnerSeated DEF SeatIndices, BlockChanges
<1>2. SUFFICES ASSUME NEW t \in Traders, NEW k \in Tokens, t # owner \/ k # token
               PROVE  OnMarket(n, t, k) = OnMarket(m, t, k)
  BY DEF ChangesOnly
<1>3. HeldBy(n, i, t, k) = HeldBy(m, i, t, k)
  BY <1>2 DEF HoldsOnly
<1>4. QED
  BY <1>1, <1>3, BlockOwned

LEMMA RemoveOwned ==
    ASSUME NEW m, MarketSound(m), NEW i \in OrderIndices(m)
    PROVE  ChangesOnly(m, RemoveOrder(m, i), OrderOwner(m, i), Backing(m.data[i].is_bid))
<1> DEFINE n == RemoveOrder(m, i)
<1>1. m \in Markets /\ i \in Index \ SeatIndices(m)
  BY SeatOrOrder DEF MarketSound, OrderIndices
<1>2. (\A j \in Index \ {i} : n.data[j] = m.data[j]) /\ n.data[i] = EmptyBlock
  BY <1>1 DEF RemoveOrder, Markets
<1> HIDE DEF n
<1>3. QED
  BY <1>1, <1>2, OrderHoldsOnly, EmptyHoldsOnly, OrderOwned DEF n

LEMMA ResizeOwned ==
    ASSUME NEW m, MarketSound(m), NEW i \in OrderIndices(m), NEW base_atoms \in Nat
    PROVE  ChangesOnly(m, ResizeOrder(m, i, base_atoms), OrderOwner(m, i),
                       Backing(m.data[i].is_bid))
<1> DEFINE n == ResizeOrder(m, i, base_atoms)
<1>1. m \in Markets /\ i \in Index \ SeatIndices(m) /\ m.data[i] \in RestingOrders
  BY SeatOrOrder, OrderTyped DEF MarketSound, OrderIndices
<1>2. \A j \in Index \ {i} : n.data[j] = m.data[j]
  BY <1>1 DEF ResizeOrder, Markets
<1>3. i \in OrderIndices(n) /\ n.data[i] = [m.data[i] EXCEPT !.base = base_atoms]
  BY ResizeOrderSound
<1> HIDE DEF n
<1>4. /\ n.data[i].is_bid = m.data[i].is_bid
      /\ n.data[i].trader_index = m.data[i].trader_index
  BY <1>1, <1>3 DEF RestingOrders
<1>5. OrderOwner(n, i) = OrderOwner(m, i)
  <2>1. m.data[i].trader_index \in Index \ {i}
    BY <1>1, OrderOwnerSeated DEF SeatIndices
  <2>2. QED
    BY <1>2, <1>4, <2>1 DEF OrderOwner
<1>6. HoldsOnly(n, i, OrderOwner(m, i), Backing(m.data[i].is_bid))
  BY <1>3, <1>4, <1>5, OrderHoldsOnly
<1>7. QED
  BY <1>1, <1>2, <1>6, OrderHoldsOnly, OrderOwned DEF n

LEMMA InsertOwned ==
    ASSUME NEW m, MarketSound(m), HasFreeBlock(m), NEW order \in RestingOrders,
           order.trader_index \in SeatIndices(m)
    PROVE  ChangesOnly(m, InsertOrder(m, order), m.data[order.trader_index].trader,
                       Backing(order.is_bid))
<1> DEFINE n == InsertOrder(m, order)
           i == Head(m.free)
<1>1. m \in Markets /\ m.free \in Seq(Index) /\ m.free # <<>> /\ i \in Index
  BY DEF MarketSound, Markets, HasFreeBlock
<1>2. m.data[i] = EmptyBlock
  BY <1>1 DEF MarketSound, FreeListSound
<1>3. i \notin SeatIndices(m) /\ order.trader_index # i
  BY <1>2 DEF SeatIndices, EmptyBlock
<1>4. (\A j \in Index \ {i} : n.data[j] = m.data[j]) /\ n.data[i] = order
  BY <1>1 DEF InsertOrder, Markets
<1> HIDE DEF n, i
<1>5. i \in OrderIndices(n)
  BY <1>1, <1>4 DEF OrderIndices, RestingOrders
<1>6. OrderOwner(n, i) = m.data[order.trader_index].trader
  BY <1>3, <1>4 DEF OrderOwner, SeatIndices
<1>7. HoldsOnly(n, i, m.data[order.trader_index].trader, Backing(order.is_bid))
  BY <1>4, <1>5, <1>6, OrderHoldsOnly
<1>8. QED
  BY <1>1, <1>2, <1>3, <1>4, <1>7, EmptyHoldsOnly, OrderOwned DEF n

LEMMA SameDataOwned ==
    ASSUME NEW m, NEW n, n.data = m.data, NEW owner
    PROVE  ChangesOnlyOf(m, n, owner)
BY DEF ChangesOnlyOf, OnMarket, HeldBy

LEMMA ClaimOwned ==
    ASSUME NEW m, MarketSound(m), HasFreeBlock(m), NEW trader
    PROVE  ChangesOnlyOf(m, ClaimSeatOn(m, trader), trader)
<1> DEFINE n == ClaimSeatOn(m, trader)
           i == Head(m.free)
<1>1. m \in Markets /\ m.free \in Seq(Index) /\ m.free # <<>> /\ i \in Index
  BY DEF MarketSound, Markets, HasFreeBlock
<1>2. m.data[i] = EmptyBlock
  BY <1>1 DEF MarketSound, FreeListSound
<1>3. (\A j \in Index \ {i} : n.data[j] = m.data[j]) /\ n.data[i] = NewSeat(trader)
  BY <1>1 DEF ClaimSeatOn, Markets
<1> HIDE DEF n, i
<1>4. BlockChanges(m, n, i)
  BY <1>2, <1>3, OrderOwnerSeated DEF SeatIndices, EmptyBlock, BlockChanges
<1>5. ASSUME NEW t \in Traders \ {trader}, NEW k \in Tokens
      PROVE  OnMarket(n, t, k) = OnMarket(m, t, k)
  <2>1. HeldBy(m, i, t, k) = 0
    BY <1>1, <1>2, HeldByNobody DEF SeatIndices, OrderIndices, EmptyBlock
  <2>2. i \in SeatIndices(n) /\ n.data[i].trader = trader
    BY <1>1, <1>3 DEF SeatIndices, NewSeat
  <2>3. HeldBy(n, i, t, k) = 0
    BY <2>2, HeldBySeat
  <2>4. QED
    BY <1>1, <1>4, <2>1, <2>3, BlockOwned
<1>6. QED
  BY <1>5 DEF ChangesOnlyOf, n

LEMMA ReleaseOwned ==
    ASSUME NEW m, MarketSound(m), NEW i \in SeatIndices(m), NoOrdersOf(m, i)
    PROVE  ChangesOnlyOf(m, ReleaseSeat(m, i), m.data[i].trader)
<1> DEFINE n == ReleaseSeat(m, i)
<1>1. m \in Markets /\ i \in Index
  BY DEF MarketSound, SeatIndices
<1>2. (\A j \in Index \ {i} : n.data[j] = m.data[j]) /\ n.data[i] = EmptyBlock
  BY <1>1 DEF ReleaseSeat, Markets
<1> HIDE DEF n
<1>3. BlockChanges(m, n, i)
  BY <1>2, OrderOwnerSeated DEF SeatIndices, NoOrdersOf, BlockChanges
<1>4. ASSUME NEW t \in Traders \ {m.data[i].trader}, NEW k \in Tokens
      PROVE  OnMarket(n, t, k) = OnMarket(m, t, k)
  <2>1. HeldBy(m, i, t, k) = 0
    BY <1>4, HeldBySeat
  <2>2. HeldBy(n, i, t, k) = 0
    BY <1>1, <1>2, HeldByNobody DEF SeatIndices, OrderIndices, EmptyBlock
  <2>3. QED
    BY <1>1, <1>3, <2>1, <2>2, BlockOwned
<1>5. QED
  BY <1>4 DEF ChangesOnlyOf, n

\* An update changes neither owners nor orders.
LEMMA SameBlocksOwner ==
    ASSUME NEW m, MarketSound(m), NEW n, SameBlocks(m, n), NEW i \in OrderIndices(m)
    PROVE  i \in OrderIndices(n) /\ n.data[i] = m.data[i] /\ OrderOwner(n, i) = OrderOwner(m, i)
BY OrderOwnerSeated DEF SameBlocks, OrderOwner

LEMMA ReturnOwned ==
    ASSUME NEW m, MarketSound(m), NEW i \in OrderIndices(m), CanReturnOrder(m, i)
    PROVE  ChangesOnly(m, ReturnOrder(m, i), OrderOwner(m, i), Backing(m.data[i].is_bid))
<1> DEFINE order == m.data[i]
           token == Backing(order.is_bid)
           atoms == NotionalAtoms(order.is_bid, order.price, order.base)
           s == order.trader_index
           paid == UpdateBalance(m, s, token, atoms)
<1>1. CASE order.type = "Global"
  BY <1>1, RemoveOwned DEF ReturnOrder
<1>2. CASE order.type # "Global"
  <2>1. order \in RestingOrders /\ s \in SeatIndices(m)
    BY OrderTyped, OrderOwnerSeated DEF MarketSound
  <2>2. token \in Tokens /\ atoms \in Int
    <3>1. order.is_bid \in BOOLEAN /\ order.price \in Nat /\ order.base \in Nat
        BY <2>1 DEF RestingOrders
    <3>2. token \in Tokens /\ atoms \in Nat
        BY <3>1, BackingToken, NotionalAtomsNat
    <3>3. QED
        BY <3>2
  <2>3. m.data[s].bal[token] + atoms >= 0
    BY <1>2 DEF CanReturnOrder, CanUpdateBalance
  <2>4. ReturnOrder(m, i) = RemoveOrder(paid, i)
    BY <1>2 DEF ReturnOrder
  <2> HIDE DEF token, atoms, s
  <2>5. MarketSound(paid) /\ SameBlocks(m, paid)
    BY <2>1, <2>2, <2>3, UpdateBalanceSound
  <2>6. ChangesOnly(m, paid, m.data[s].trader, token)
    BY <2>1, <2>2, <2>3, UpdateOwned
  <2> HIDE DEF paid
  <2>7. /\ i \in OrderIndices(paid) /\ paid.data[i] = order
        /\ OrderOwner(paid, i) = OrderOwner(m, i)
    BY <2>5, SameBlocksOwner
  <2>8. ChangesOnly(paid, RemoveOrder(paid, i), OrderOwner(m, i), token)
    BY <2>5, <2>7, RemoveOwned DEF token
  <2>9. ChangesOnly(m, paid, OrderOwner(m, i), token)
    BY <2>6 DEF OrderOwner, s
  <2>10. QED
    BY <2>4, <2>8, <2>9, ChangesOnlyTwice DEF token
<1>3. QED
  BY <1>1, <1>2

\* A trade between a taker who pays in token A and a maker who pays in token B.
TradeMoves(m, n, taker, maker, A, B) ==
    /\ \A t \in Traders \ {taker, maker}, k \in Tokens : OnMarket(n, t, k) = OnMarket(m, t, k)
    /\ taker # maker =>
        /\ OnMarket(n, taker, B) >= OnMarket(m, taker, B)
        /\ OnMarket(n, maker, A) >= OnMarket(m, maker, A)

LEMMA SettledOwned ==
    ASSUME NEW m, MarketSound(m), NEW taker \in SeatIndices(m), NEW order,
           order.trader_index \in SeatIndices(m), NEW is_bid \in BOOLEAN, NEW trade,
           trade.paid \in Nat, trade.got \in Nat, BonusAtom(order, trade) \in Nat,
           CanTrade(m, taker, order, is_bid, trade)
    PROVE  TradeMoves(m, Settled(m, taker, order, is_bid, trade), m.data[taker].trader,
                      m.data[order.trader_index].trader, Backing(is_bid), Backing(~ is_bid))
<1> DEFINE A == Backing(is_bid)
           B == Backing(~ is_bid)
           bonus == BonusAtom(order, trade)
           maker == order.trader_index
           T == m.data[taker].trader
           K == m.data[maker].trader
           m1 == UpdateBalance(m, maker, B, bonus)
           m2 == UpdateBalance(m1, maker, A, trade.paid)
           m3 == UpdateBalance(m2, taker, A, - trade.paid)
           m4 == UpdateBalance(m3, taker, B, trade.got)
<1>1. Settled(m, taker, order, is_bid, trade) = m4
  BY DEF Settled, TakerDebited, MakerCredited
<1>2. /\ m.data[maker].bal[B] + bonus >= 0
      /\ m1.data[maker].bal[A] + trade.paid >= 0
      /\ m2.data[taker].bal[A] + (- trade.paid) >= 0
      /\ m3.data[taker].bal[B] + trade.got >= 0
  BY DEF CanTrade, CanUpdateBalance, TakerDebited, MakerCredited
<1>3. A \in Tokens /\ B \in Tokens /\ A # B
  BY BackingToken
<1>4. /\ - trade.paid \in Int /\ trade.paid \in Int /\ trade.got \in Int /\ bonus \in Int
      /\ trade.paid >= 0 /\ trade.got >= 0
  OBVIOUS
<1>5. maker \in SeatIndices(m) /\ taker \in SeatIndices(m)
  OBVIOUS
<1> HIDE DEF A, B, bonus, maker
<1>6. MarketSound(m1) /\ SameBlocks(m, m1) /\ ChangesOnly(m, m1, K, B)
  BY <1>2, <1>3, <1>4, <1>5, UpdateBalanceSound, UpdateOwned
<1> HIDE DEF m1
<1>7. /\ maker \in SeatIndices(m1) /\ taker \in SeatIndices(m1)
      /\ m1.data[maker].trader = K /\ m1.data[taker].trader = T
  BY <1>5, <1>6 DEF SameBlocks
<1>8. /\ MarketSound(m2) /\ SameBlocks(m1, m2) /\ ChangesOnly(m1, m2, K, A)
      /\ \A k \in Tokens : Gains(m1, m2, k)
  <2>1. ChangesOnly(m1, m2, m1.data[maker].trader, A)
    BY <1>2, <1>3, <1>4, <1>6, <1>7, UpdateOwned
  <2>2. MarketSound(m2) /\ SameBlocks(m1, m2) /\ \A k \in Tokens : Gains(m1, m2, k)
    BY <1>2, <1>3, <1>4, <1>6, <1>7, UpdateBalanceSound, UpdateOwned
  <2>3. QED
    BY <1>7, <2>1, <2>2
<1> HIDE DEF m2
<1>9. taker \in SeatIndices(m2) /\ m2.data[taker].trader = T
  BY <1>7, <1>8 DEF SameBlocks
<1>10. MarketSound(m3) /\ SameBlocks(m2, m3) /\ ChangesOnly(m2, m3, T, A)
  <2>1. ChangesOnly(m2, m3, m2.data[taker].trader, A)
    BY <1>2, <1>3, <1>4, <1>8, <1>9, UpdateOwned
  <2>2. MarketSound(m3) /\ SameBlocks(m2, m3)
    BY <1>2, <1>3, <1>4, <1>8, <1>9, UpdateBalanceSound
  <2>3. QED
    BY <1>9, <2>1, <2>2
<1> HIDE DEF m3
<1>11. taker \in SeatIndices(m3) /\ m3.data[taker].trader = T
  BY <1>9, <1>10 DEF SameBlocks
<1>12. ChangesOnly(m3, m4, T, B) /\ \A k \in Tokens : Gains(m3, m4, k)
  <2>1. ChangesOnly(m3, m4, m3.data[taker].trader, B)
    BY <1>2, <1>3, <1>4, <1>10, <1>11, UpdateOwned
  <2>2. \A k \in Tokens : Gains(m3, m4, k)
    BY <1>2, <1>3, <1>4, <1>10, <1>11, UpdateOwned
  <2>3. QED
    BY <1>11, <2>1, <2>2
<1> HIDE DEF m4
<1>13. T \in Traders /\ K \in Traders
  <2>1. m.data[taker] \in Seats /\ m.data[maker] \in Seats
    BY <1>5, SeatTyped DEF MarketSound
  <2>2. QED
    BY <2>1 DEF Seats
<1> HIDE DEF T, K
<1>14. \A t \in Traders \ {T, K}, k \in Tokens : OnMarket(m4, t, k) = OnMarket(m, t, k)
  BY <1>6, <1>8, <1>10, <1>12 DEF ChangesOnly
<1>15. T # K => OnMarket(m4, T, B) >= OnMarket(m, T, B)
  <2>1. T # K => OnMarket(m3, T, B) = OnMarket(m, T, B)
    BY <1>3, <1>6, <1>8, <1>10, <1>13 DEF ChangesOnly
  <2>2. OnMarket(m4, T, B) >= OnMarket(m3, T, B)
    BY <1>3, <1>12, <1>13 DEF Gains
  <2>3. QED
    BY <2>1, <2>2
<1>16. T # K => OnMarket(m4, K, A) >= OnMarket(m, K, A)
  <2>1. OnMarket(m1, K, A) = OnMarket(m, K, A)
    BY <1>3, <1>6, <1>13 DEF ChangesOnly
  <2>2. OnMarket(m2, K, A) >= OnMarket(m1, K, A)
    BY <1>3, <1>8, <1>13 DEF Gains
  <2>3. T # K => OnMarket(m4, K, A) = OnMarket(m2, K, A)
    BY <1>3, <1>10, <1>12, <1>13 DEF ChangesOnly
  <2>4. QED
    BY <2>1, <2>2, <2>3
<1>17. QED
  BY <1>1, <1>14, <1>15, <1>16 DEF TradeMoves, A, B, T, K, maker

\* What the trade leaves of the maker's order backs token B, too.
LEMMA TradedOwned ==
    ASSUME NEW m, MarketSound(m), NEW taker, NEW i, NEW order, NEW is_bid, NEW remaining,
           NEW trade, NEW n, IsTraded(m, n, taker, i, order, is_bid, remaining, trade)
    PROVE  TradeMoves(m, n, m.data[taker].trader, OrderOwner(m, i),
                      Backing(is_bid), Backing(~ is_bid))
<1> USE DEF IsTraded
<1> DEFINE A == Backing(is_bid)
           B == Backing(~ is_bid)
           T == m.data[taker].trader
           K == OrderOwner(m, i)
           after == Settled(m, taker, order, is_bid, trade)
<1>1. order \in RestingOrders /\ order.trader_index \in SeatIndices(m)
  BY OrderTyped, OrderOwnerSeated DEF MarketSound
<1>2. order.price \in Nat /\ order.base \in Nat /\ order.is_bid = ~ is_bid
  BY <1>1 DEF RestingOrders
<1>3. A \in Tokens /\ B \in Tokens /\ A # B
  BY BackingToken
<1>4. /\ trade.base \in Nat /\ trade.base <= order.base /\ trade.quote \in Nat
      /\ trade.paid \in Nat /\ trade.got \in Nat
  <2> DEFINE step == TradeWith(order, is_bid, remaining)
  <2>1. /\ step.base \in Nat /\ step.base <= order.base /\ step.quote \in Nat
        /\ step.paid \in Nat /\ step.got \in Nat
    BY <1>1, TradeNat
  <2>2. trade = step
    OBVIOUS
  <2> HIDE DEF step
  <2>3. QED
    BY <2>1, <2>2
<1>5. order.base - trade.base \in Nat
  BY <1>2, <1>4
<1>6. BonusAtom(order, trade) \in Nat
  <2> DEFINE q == QuoteForBase(order.price, order.base, TRUE)
             left == QuoteForBase(order.price, order.base - trade.base, TRUE)
  <2>1. q \in Nat /\ left \in Nat /\ trade.quote \in Nat
    BY <1>2, <1>4, <1>5, QuoteForBaseNat
  <2>2. BonusAtom(order, trade) =
            IF order.is_bid /\ order.type # "Global" THEN q - left - trade.quote ELSE 0
    BY DEF BonusAtom
  <2>3. BonusAtom(order, trade) >= 0
    BY DEF CanTrade
  <2> HIDE DEF q, left
  <2>4. BonusAtom(order, trade) \in Int
    BY <2>1, <2>2
  <2>5. QED
    BY <2>3, <2>4
<1>7. CanTrade(m, taker, order, is_bid, trade)
  OBVIOUS
<1>8. MarketSound(after) /\ SameBlocks(m, after)
  BY <1>1, <1>4, <1>6, <1>7, SettledSound
<1>9. TradeMoves(m, after, T, K, A, B)
  BY <1>1, <1>4, <1>6, <1>7, SettledOwned DEF OrderOwner
<1>10. n = IF trade.full THEN RemoveOrder(after, i)
                         ELSE ResizeOrder(after, i, order.base - trade.base)
  BY DEF Traded
<1> HIDE DEF after
<1>11. /\ i \in OrderIndices(after) /\ after.data[i].is_bid = ~ is_bid
       /\ OrderOwner(after, i) = K
  BY <1>2, <1>8, SameBlocksOwner
<1>12. ChangesOnly(after, n, K, B)
  <2>1. ChangesOnly(after, n, OrderOwner(after, i), Backing(after.data[i].is_bid))
    BY <1>5, <1>8, <1>10, <1>11, RemoveOwned, ResizeOwned
  <2>2. QED
    BY <1>11, <2>1
<1>13. T \in Traders /\ K \in Traders
  <2>1. m.data[taker] \in Seats
    BY SeatTyped DEF MarketSound
  <2>2. QED
    BY <2>1, OrderOwnerSeated DEF Seats
<1> HIDE DEF A, B, T, K
<1>14. TradeMoves(m, n, T, K, A, B)
  BY <1>3, <1>9, <1>12, <1>13 DEF TradeMoves, ChangesOnly
<1>15. QED
  BY <1>14 DEF A, B, T, K

\* A reversal moves its owner's funds from its seat to the book.
LEMMA ReversedOwned ==
    ASSUME NEW m, MarketSound(m), NEW is_bid \in BOOLEAN, NEW r,
           r.trader_index \in SeatIndices(m), r.type \in ReversibleTypes,
           r.spread \in Spreads, r.price \in Nat, r.base \in Nat, r.quote \in Nat,
           NEW i \in LookupResults(m, is_bid, r.trader_index, r.type, r.price),
           CanReverse(m, i, r, is_bid)
    PROVE  ChangesOnlyOf(m, Reversed(m, i, r, is_bid), m.data[r.trader_index].trader)
<1> DEFINE A == Backing(is_bid)
           s == r.trader_index
           owner == m.data[s].trader
           base == ReverseBase(r, is_bid)
           debit == ReverseDebit(m, i, r, is_bid)
           placed == ReversePlaced(m, i, r, is_bid)
           n == Reversed(m, i, r, is_bid)
<1>1. debit \in Nat /\ MarketSound(placed) /\ SameSeats(m, placed)
  BY ReversePlacedSound
<1>2. A \in Tokens /\ base \in Nat /\ m \in Markets
  BY BackingToken, BaseForQuoteNat DEF ReverseBase, MarketSound
<1>3. ChangesOnlyOf(m, placed, owner)
  <2>1. CASE i = NIL /\ base = 0
    <3>1. placed = m
        BY <2>1 DEF ReversePlaced
    <3>2. QED
        BY <3>1, SameDataOwned
  <2>2. CASE i = NIL /\ base # 0
    <3> DEFINE order == [kind |-> "order", trader_index |-> s,
                         base |-> base, price |-> r.price, seq |-> m.seq,
                         last_valid |-> NO_EXPIRATION, is_bid |-> is_bid, type |-> r.type,
                         spread |-> r.spread, arrival |-> m.seq]
               inserted == InsertOrder(m, order)
    <3>1. placed = [inserted EXCEPT !.seq = @ + 1]
        BY <2>2 DEF ReversePlaced
    <3>2. HasFreeBlock(m)
        BY <2>2 DEF CanReverse, ReverseNeedsBlock
    <3>3. s \in Index /\ r.type \in OrderTypes /\ m.seq \in Nat /\ s \in SeatIndices(m)
        BY <1>2 DEF SeatIndices, ReversibleTypes, OrderTypes, Markets
    <3> HIDE DEF base, s
    <3>4. order \in RestingOrders /\ order.trader_index = s
        BY <1>2, <3>3 DEF RestingOrders, NO_EXPIRATION
    <3> HIDE DEF order
    <3>5. ChangesOnly(m, inserted, m.data[order.trader_index].trader, Backing(order.is_bid))
        BY <3>2, <3>3, <3>4, InsertOwned
    <3>6. ChangesOnlyOf(m, inserted, owner)
        BY <3>4, <3>5, ChangesOnlyOwner
    <3>7. MarketSound(inserted)
        BY <3>2, <3>3, <3>4, InsertOrderSound
    <3> HIDE DEF inserted
    <3>8. placed.data = inserted.data
      <4>1. inserted \in Markets
          BY <3>7 DEF MarketSound
      <4>2. QED
          BY <3>1, <4>1 DEF Markets
    <3> HIDE DEF placed, owner
    <3>9. QED
        BY <3>6, <3>8, SameDataOwned DEF ChangesOnlyOf
  <2>3. CASE i # NIL
    <3> DEFINE order == m.data[i]
               added == CoalescedBase(m, i, r, is_bid)
    <3>1. i \in OrderIndices(m) /\ order.is_bid = is_bid /\ order.trader_index = s
        BY <2>3 DEF LookupResults, CoalesceCandidates, BookSide
    <3>2. order \in RestingOrders /\ order.base \in Nat /\ order.price \in Nat
        BY <1>2, <3>1, OrderTyped DEF RestingOrders
    <3>3. added \in Nat
      <4>1. added \in Int
          BY <1>2, <3>2, ReverseBidCoalesceBaseInt, SMTT(30) DEF CoalescedBase
      <4>2. added >= 0
          BY <2>3 DEF CanReverse
      <4>3. QED
          BY <4>1, <4>2
    <3>4. placed = ResizeOrder(m, i, order.base + added)
        BY <2>3 DEF ReversePlaced
    <3>5. order.base + added \in Nat
        BY <3>2, <3>3
    <3>6. OrderOwner(m, i) = owner
        BY <3>1 DEF OrderOwner
    <3> HIDE DEF order, added, placed, owner
    <3>7. ChangesOnly(m, placed, owner, Backing(m.data[i].is_bid))
        BY <3>1, <3>4, <3>5, <3>6, ResizeOwned
    <3>8. QED
        BY <3>7, ChangesOnlyOwner
  <2>4. QED
    BY <2>1, <2>2, <2>3
<1>4. n = UpdateBalance(placed, s, A, - debit)
  BY DEF Reversed
<1>5. s \in SeatIndices(placed) /\ placed.data[s].trader = owner
  BY <1>1 DEF SameSeats
<1>6. placed.data[s].bal[A] + (- debit) >= 0
  <2>1. m.data[s].bal[A] + (- debit) >= 0
    BY DEF CanReverse, CanUpdateBalance
  <2>2. QED
    BY <1>1, <2>1 DEF SameSeats
<1> HIDE DEF placed, debit, A, n, base, s, owner
<1>7. ChangesOnlyOf(placed, n, owner)
  <2>1. - debit \in Int /\ MarketSound(placed)
    BY <1>1
  <2>2. ChangesOnly(placed, n, placed.data[s].trader, A)
    BY <1>2, <1>4, <1>5, <1>6, <2>1, UpdateOwned
  <2>3. QED
    BY <1>5, <2>2, ChangesOnlyOwner
<1>8. ChangesOnlyOf(m, n, owner)
  BY <1>3, <1>7 DEF ChangesOnlyOf
<1>9. QED
  BY <1>8 DEF n, owner, s

LEMMA ChangesOnlyOfTwice ==
    ASSUME NEW m, NEW n, NEW l, NEW owner, ChangesOnlyOf(m, n, owner), ChangesOnlyOf(n, l, owner)
    PROVE  ChangesOnlyOf(m, l, owner)
BY DEF ChangesOnlyOf

LEMMA ExpandOwned ==
    ASSUME NEW m \in Markets, NEW owner
    PROVE  /\ \A k \in Nat : ChangesOnlyOf(m, ExpandBy(m, k), owner)
           /\ ChangesOnlyOf(m, ExpandIfNeeded(m), owner)
<1>1. ASSUME NEW k \in Nat
      PROVE  ExpandBy(m, k).data = m.data
  BY DEF ExpandBy, Markets
<1>2. ExpandIfNeeded(m).data = m.data
  BY <1>1 DEF ExpandIfNeeded
<1>3. QED
  BY <1>1, <1>2, SameDataOwned

\* Resting an order moves its owner's funds from its seat to the book.
LEMMA RestedOwned ==
    ASSUME ctx \in Contexts, MarketSound(work.m), ctx.seat \in SeatIndices(work.m),
           CanRestOn(work.m)
    PROVE  ChangesOnlyOf(work.m, Rested(work.m), Swapper)
<1> DEFINE m == work.m
           seat == ctx.seat
           owner == m.data[seat].trader
           token == Backing(ctx.args.is_bid)
           order == RestingOrder(m)
           paid == UpdateBalance(m, seat, token, - RestNotional)
           n == Rested(m)
<1>1. /\ ctx.args.is_bid \in BOOLEAN /\ ctx.args.price \in Nat /\ ctx.remaining \in Nat
      /\ token \in Tokens
  BY BackingToken DEF Contexts, OrderArgs
<1>2. RestNotional \in Nat
  BY <1>1, NotionalAtomsNat DEF RestNotional
<1>3. /\ m \in Markets /\ HasFreeBlock(m) /\ MarketSound(m) /\ seat \in SeatIndices(m)
  BY DEF MarketSound, CanRestOn
<1>4. order \in RestingOrders
  BY <1>3, RestingOrderTyped
<1>5. order.trader_index = seat /\ owner = Swapper
  BY DEF RestingOrder, Swapper
<1>6. CASE ctx.args.type = "Global"
  <2>1. n = InsertOrder(m, order)
    BY <1>6 DEF Rested
  <2> HIDE DEF m, seat, order, n, owner
  <2>2. ChangesOnly(m, n, m.data[order.trader_index].trader, Backing(order.is_bid))
    BY <1>3, <1>4, <1>5, <2>1, InsertOwned
  <2>3. ChangesOnlyOf(m, n, owner)
    BY <1>5, <2>2, ChangesOnlyOwner DEF owner
  <2>4. QED
    BY <1>5, <2>3 DEF n, m
<1>7. CASE ctx.args.type # "Global"
  <2>1. n = InsertOrder(paid, order)
    BY <1>7 DEF Rested
  <2>2. m.data[seat].bal[token] + (- RestNotional) >= 0
    BY <1>7 DEF CanRestOn, CanUpdateBalance
  <2> HIDE DEF m, seat, order, n, token
  <2>3. - RestNotional \in Int
    BY <1>2
  <2>4. MarketSound(paid) /\ SameBlocks(m, paid)
    BY <1>1, <1>3, <2>2, <2>3, UpdateBalanceSound
  <2>5. ChangesOnly(m, paid, owner, token)
    BY <1>1, <1>3, <2>2, <2>3, UpdateOwned
  <2> HIDE DEF paid, owner
  <2>6. /\ HasFreeBlock(paid) /\ order.trader_index \in SeatIndices(paid)
        /\ paid.data[order.trader_index].trader = owner
    BY <1>3, <1>5, <2>4 DEF SameBlocks, HasFreeBlock, owner
  <2>7. ChangesOnly(paid, n, paid.data[order.trader_index].trader, Backing(order.is_bid))
    BY <1>4, <2>1, <2>4, <2>6, InsertOwned
  <2>8. ChangesOnlyOf(m, n, owner)
    BY <2>5, <2>6, <2>7, ChangesOnlyOwner, ChangesOnlyOfTwice
  <2>9. QED
    BY <1>5, <2>8 DEF n, m
<1>8. QED
  BY <1>6, <1>7

\* The settlement of a swap changes the seat of the swapper alone.
LEMMA SeatSettledOwned ==
    ASSUME WorkSound(work, ctx), ctx.phase = "next", \A t \in Tokens : Extra(t) >= 0
    PROVE  ChangesOnlyOf(work.m, SeatSettled, Swapper)
<1> DEFINE m == work.m
           seat == ctx.seat
<1>1. /\ MarketSound(m) /\ seat \in SeatIndices(m) /\ ctx \in Contexts
      /\ Swapper = m.data[seat].trader
  BY DEF WorkSound, Swapper
<1>2. CASE ctx.temp
  <2>1. NoOrdersOf(m, seat)
    BY <1>2 DEF WorkSound, TempSound
  <2>2. SeatSettled = ReleaseSeat(m, seat)
    BY <1>2 DEF SeatSettled
  <2> HIDE DEF m, seat
  <2>3. ChangesOnlyOf(m, SeatSettled, m.data[seat].trader)
    BY <1>1, <2>1, <2>2, ReleaseOwned
  <2>4. QED
    BY <1>1, <2>3 DEF m
<1>3. CASE ~ ctx.temp
  <2> DEFINE k == UpdateBalance(m, seat, "base", - Extra("base"))
             n == UpdateBalance(k, seat, "quote", - Extra("quote"))
  <2>1. SeatSettled = n
    BY <1>3 DEF SeatSettled
  <2>2. \A t \in Tokens : /\ m.data[seat].bal[t] \in Nat /\ ctx.initial[t] \in Nat
                          /\ Extra(t) = m.data[seat].bal[t] - ctx.initial[t]
    <3>1. m.data[seat].bal \in [Tokens -> Nat] /\ ctx.initial \in [Tokens -> Nat]
        BY <1>1, SeatTyped DEF Seats, Contexts, MarketSound
    <3>2. QED
        BY <3>1 DEF Extra
  <2>3. /\ "base" \in Tokens /\ "quote" \in Tokens
        /\ - Extra("base") \in Int /\ - Extra("quote") \in Int
    BY <2>2 DEF Tokens
  <2>4. m.data[seat].bal["base"] + (- Extra("base")) >= 0
    BY <2>2, <2>3
  <2> HIDE DEF m, seat
  <2>5. /\ MarketSound(k) /\ SameBlocks(m, k)
        /\ k.data[seat].bal["quote"] = m.data[seat].bal["quote"] + 0
    <3>1. /\ MarketSound(k) /\ SameBlocks(m, k)
          /\ \A j \in SeatIndices(m), t \in Tokens : k.data[j].bal[t] = m.data[j].bal[t]
                + (IF j = seat /\ t = "base" THEN - Extra("base") ELSE 0)
        BY <1>1, <2>3, <2>4, UpdateBalanceSound
    <3> HIDE DEF k
    <3>2. QED
        BY <1>1, <2>3, <3>1
  <2>6. ChangesOnly(m, k, m.data[seat].trader, "base")
    BY <1>1, <2>3, <2>4, UpdateOwned
  <2> HIDE DEF k
  <2>7. seat \in SeatIndices(k) /\ k.data[seat].trader = m.data[seat].trader
    BY <1>1, <2>5 DEF SameBlocks
  <2>8. k.data[seat].bal["quote"] + (- Extra("quote")) >= 0
    BY <2>2, <2>3, <2>5
  <2>9. ChangesOnly(k, n, k.data[seat].trader, "quote")
    BY <2>3, <2>5, <2>7, <2>8, UpdateOwned
  <2>10. ChangesOnlyOf(m, n, Swapper)
    BY <1>1, <2>6, <2>7, <2>9, ChangesOnlyOwner, ChangesOnlyOfTwice
  <2>11. QED
    BY <2>1, <2>10 DEF m
<1>4. QED
  BY <1>2, <1>3

-----------------------------------------------------------------------------
(* What each trader owns. *)

\* The wallet of a trader and its global deposit.
Purse(w, t, k) == w.wallet[t][k] + w.glob[k].dep[t]

\* The virtual credit of a swap.
Lent(w, c, t, k) ==
    IF c.kind = "swap" /\ w.m.data[c.seat].trader = t THEN VirtualOf(c, k) ELSE 0

Own(w, c, t, k) == (Purse(w, t, k) + OnMarket(w.m, t, k)) - Lent(w, c, t, k)

LEMMA OwnedIs ==
    ASSUME NEW t, NEW k
    PROVE  Owned(t, k) = Own(work, ctx, t, k)
<1> DEFINE loan == IF ctx.kind = "swap" /\ Swapper = t THEN Virtual(k) ELSE 0
<1>1. loan = Lent(work, ctx, t, k)
  BY DEF Lent, VirtualOf, Virtual, Swapper
<1>2. Owned(t, k) = Holdings(work, t, k) - loan
  BY DEF Owned
<1> HIDE DEF loan
<1>3. Holdings(work, t, k) = Purse(work, t, k) + OnMarket(work.m, t, k)
  BY DEF Holdings, Purse, OnMarket
<1>4. QED
  BY <1>1, <1>2, <1>3 DEF Own

LEMMA OwnedNext ==
    ASSUME NEW CONSTANT t, NEW CONSTANT k
    PROVE  Owned(t, k)' = Own(work', ctx', t, k)
<1> DEFINE loan == IF ctx'.kind = "swap" /\ Swapper' = t THEN Virtual(k)' ELSE 0
<1>1. loan = Lent(work', ctx', t, k)
  BY DEF Lent, VirtualOf, Virtual, Swapper, InToken
<1>2. Owned(t, k)' = Holdings(work', t, k) - loan
  BY DEF Owned, Holdings, HeldBy
<1> HIDE DEF loan
<1>3. Holdings(work', t, k) = Purse(work', t, k) + OnMarket(work'.m, t, k)
  BY DEF Holdings, Purse, OnMarket
<1>4. QED
  BY <1>1, <1>2, <1>3 DEF Own

\* What the sums below need of a state.
LedgerSound(w, c) ==
    /\ w \in Accounts /\ MarketSound(w.m)
    /\ Balanced(w, c) /\ AllDepositsSound(w.glob, c) /\ SupplySound(w)
    /\ c.kind = "swap" => w.m.data[c.seat].trader \in Traders /\ c.swap.in \in Nat
    /\ c.kind = "swap" \/ c.kind = "batch"
    /\ c.pending \in Nat

LEMMA LedgerHolds ==
    ASSUME IInv, DepositsInv, SupplyInv
    PROVE  LedgerSound(work, ctx)
<1>1. CASE ctx.phase = "idle"
  <2>1. ctx = Idle /\ AccountsSound(accounts) /\ work = accounts
    BY <1>1 DEF IInv
  <2>2. /\ ctx.kind = "batch" /\ ctx.pending = 0
        /\ \A k \in Tokens : VirtualOf(ctx, k) = 0 /\ PendingOf(ctx, k) = 0
    BY <2>1 DEF Idle, VirtualOf, PendingOf
  <2>3. work \in Accounts /\ MarketSound(work.m)
    BY <2>1 DEF AccountsSound
  <2>4. Balanced(work, ctx)
    <3>1. ASSUME NEW k \in Tokens
          PROVE  work.vault[k] + VirtualOf(ctx, k) + PendingOf(ctx, k) = Claims(work.m, k)
      <4>1. work.vault[k] = Claims(work.m, k) /\ work.vault[k] \in Int
          BY <2>1, <2>3 DEF AccountsSound, Accounts
      <4>2. QED
          BY <2>2, <4>1
    <3>2. QED
        BY <3>1 DEF Balanced
  <2>5. QED
    BY <2>2, <2>3, <2>4 DEF LedgerSound, DepositsInv, SupplyInv
<1>2. CASE ctx.phase # "idle"
  <2>1. WorkSound(work, ctx)
    BY <1>2 DEF IInv
  <2>2. /\ work \in Accounts /\ MarketSound(work.m) /\ Balanced(work, ctx) /\ ctx \in Contexts
        /\ ctx.seat \in SeatIndices(work.m)
    BY <2>1 DEF WorkSound
  <2>3. /\ ctx.swap.in \in Nat /\ ctx.pending \in Nat
        /\ ctx.kind = "swap" \/ ctx.kind = "batch"
    BY <2>2 DEF Contexts, SwapArgs
  <2>4. work.m.data[ctx.seat].trader \in Traders
    BY <2>2, SeatTyped DEF MarketSound, Seats
  <2>5. QED
    BY <2>2, <2>3, <2>4 DEF LedgerSound, DepositsInv, SupplyInv
<1>3. QED
  BY <1>1, <1>2

LEMMA LedgerHoldsNext == IInv' /\ DepositsInv' /\ SupplyInv' => LedgerSound(work, ctx)'
  BY LedgerHolds, PTL

LEMMA LedgerNext ==
    ASSUME LedgerSound(work, ctx)'
    PROVE  LedgerSound(work', ctx')
BY DEF LedgerSound

LEMMA OwnParts ==
    ASSUME NEW w, NEW c, LedgerSound(w, c), NEW t \in Traders, NEW k \in Tokens
    PROVE  /\ w.wallet[t][k] \in Int /\ w.glob[k].dep[t] \in Int
           /\ Purse(w, t, k) = w.wallet[t][k] + w.glob[k].dep[t]
           /\ Purse(w, t, k) \in Int /\ OnMarket(w.m, t, k) \in Int
           /\ Lent(w, c, t, k) \in Int /\ Own(w, c, t, k) \in Int
           /\ Purse(w, t, k) + OnMarket(w.m, t, k) = Own(w, c, t, k) + Lent(w, c, t, k)
<1>1. w.wallet[t][k] \in Int /\ w.glob[k].dep[t] \in Int
  BY DEF LedgerSound, Accounts, Globals
<1>2. Purse(w, t, k) = w.wallet[t][k] + w.glob[k].dep[t] /\ Purse(w, t, k) \in Int
  BY <1>1 DEF Purse
<1>3. OnMarket(w.m, t, k) \in Int
  BY OnMarketNat DEF LedgerSound
<1>4. Lent(w, c, t, k) \in Int
  BY DEF LedgerSound, Lent, VirtualOf
<1>5. QED
  BY <1>1, <1>2, <1>3, <1>4 DEF Own

\* Lent is the virtual credit, all of it the swapper's.
LEMMA AllLent ==
    ASSUME NEW w, NEW c, LedgerSound(w, c), NEW k \in Tokens
    PROVE  SumFunctionOnSet([t \in Traders |-> Lent(w, c, t, k)], Traders) = VirtualOf(c, k)
<1> DEFINE lent == [t \in Traders |-> Lent(w, c, t, k)]
           swapper == w.m.data[c.seat].trader
<1>1. CASE c.kind = "swap"
  <2>1. swapper \in Traders /\ VirtualOf(c, k) \in Int
    BY <1>1 DEF LedgerSound, VirtualOf
  <2>2. lent[swapper] = VirtualOf(c, k) /\ \A t \in Traders \ {swapper} : lent[t] = 0
    BY <1>1, <2>1 DEF Lent
  <2> HIDE DEF lent, swapper
  <2>3. SumFunctionOnSet(lent, Traders) = lent[swapper]
    BY <2>1, <2>2, GlobalAssumption, SumOfOne
  <2>4. QED
    BY <2>2, <2>3 DEF lent
<1>2. CASE c.kind # "swap"
  <2>1. \A t \in Traders : lent[t] = 0
    BY <1>2 DEF Lent
  <2> HIDE DEF lent
  <2>2. SumFunctionOnSet(lent, Traders) = 0
    BY <2>1, GlobalAssumption, SumOfZeros
  <2>3. QED
    BY <1>2, <2>2 DEF lent, VirtualOf
<1>3. QED
  BY <1>1, <1>2

\* What the traders own is the supply, at every moment.
LEMMA AllOwned ==
    ASSUME NEW w, NEW c, LedgerSound(w, c), NEW k \in Tokens
    PROVE  SumFunctionOnSet([t \in Traders |-> Own(w, c, t, k)], Traders) = Supply(k)
<1> DEFINE wallets == [t \in Traders |-> w.wallet[t][k]]
           dep == w.glob[k].dep
           purses == [t \in Traders |-> Purse(w, t, k)]
           market == [t \in Traders |-> OnMarket(w.m, t, k)]
           held == [t \in Traders |-> Purse(w, t, k) + OnMarket(w.m, t, k)]
           lent == [t \in Traders |-> Lent(w, c, t, k)]
           own == [t \in Traders |-> Own(w, c, t, k)]
<1>1. ASSUME NEW t \in Traders
      PROVE  /\ wallets[t] \in Int /\ dep[t] \in Int /\ purses[t] = wallets[t] + dep[t]
             /\ purses[t] \in Int /\ market[t] \in Int /\ held[t] = purses[t] + market[t]
             /\ lent[t] \in Int /\ own[t] \in Int /\ held[t] = own[t] + lent[t]
  BY OwnParts
<1>2. SumFunctionOnSet(wallets, Traders) = InWallets(w.wallet, k)
  BY DEF InWallets
<1>3. SumFunctionOnSet(market, Traders) = Claims(w.m, k)
  BY MarketOwned DEF LedgerSound
<1>4. SumFunctionOnSet(lent, Traders) = VirtualOf(c, k)
  BY AllLent
<1>5. SumFunctionOnSet(dep, Traders) = w.glob[k].deposited
  BY DEF LedgerSound, AllDepositsSound, DepositsSound
<1> HIDE DEF wallets, dep, purses, market, held, lent, own
<1>6. /\ SumFunctionOnSet(purses, Traders)
            = SumFunctionOnSet(wallets, Traders) + SumFunctionOnSet(dep, Traders)
      /\ SumFunctionOnSet(held, Traders)
            = SumFunctionOnSet(purses, Traders) + SumFunctionOnSet(market, Traders)
      /\ SumFunctionOnSet(held, Traders)
            = SumFunctionOnSet(own, Traders) + SumFunctionOnSet(lent, Traders)
  <2>1. \A t \in Traders : wallets[t] \in Int /\ dep[t] \in Int /\ purses[t] = wallets[t] + dep[t]
    BY <1>1
  <2>2. \A t \in Traders : purses[t] \in Int /\ market[t] \in Int
                                /\ held[t] = purses[t] + market[t]
    BY <1>1
  <2>3. \A t \in Traders : own[t] \in Int /\ lent[t] \in Int /\ held[t] = own[t] + lent[t]
    BY <1>1
  <2>4. IsFiniteSet(Traders)
    BY GlobalAssumption
  <2>5. SumFunctionOnSet(purses, Traders)
            = SumFunctionOnSet(wallets, Traders) + SumFunctionOnSet(dep, Traders)
    BY <2>1, <2>4, SumAdd
  <2>6. SumFunctionOnSet(held, Traders)
            = SumFunctionOnSet(purses, Traders) + SumFunctionOnSet(market, Traders)
    BY <2>2, <2>4, SumAdd
  <2>7. SumFunctionOnSet(held, Traders)
            = SumFunctionOnSet(own, Traders) + SumFunctionOnSet(lent, Traders)
    BY <2>3, <2>4, SumAdd
  <2>8. QED
    BY <2>5, <2>6, <2>7
<1>7. /\ InWallets(w.wallet, k) + w.vault[k] + w.glob[k].vault = Supply(k)
      /\ w.vault[k] + VirtualOf(c, k) + PendingOf(c, k) = Claims(w.m, k)
      /\ w.glob[k].vault = w.glob[k].deposited + PendingOf(c, k)
  BY DEF LedgerSound, SupplySound, Balanced, AllDepositsSound, DepositsSound
<1>8. /\ w.vault[k] \in Int /\ w.glob[k].vault \in Int /\ w.glob[k].deposited \in Int
      /\ PendingOf(c, k) \in Int /\ VirtualOf(c, k) \in Int
  BY DEF LedgerSound, Accounts, Globals, PendingOf, VirtualOf
<1>9. /\ SumFunctionOnSet(own, Traders) \in Int /\ InWallets(w.wallet, k) \in Int
      /\ Claims(w.m, k) \in Int
  <2>1. IsFiniteSet(Traders) /\ (\A t \in Traders : own[t] \in Int)
            /\ (\A t \in Traders : wallets[t] \in Int) /\ (\A t \in Traders : market[t] \in Int)
    BY <1>1, GlobalAssumption
  <2>2. QED
    BY <1>2, <1>3, <2>1, SumInt
<1> DEFINE O == SumFunctionOnSet(own, Traders)
           I == InWallets(w.wallet, k)
           V == VirtualOf(c, k)
           P == PendingOf(c, k)
           C == Claims(w.m, k)
           D == w.glob[k].deposited
<1>10. I + D + C = O + V
  <2>1. SumFunctionOnSet(purses, Traders) = I + D
    BY <1>2, <1>5, <1>6
  <2>2. SumFunctionOnSet(held, Traders) = (I + D) + C
    BY <1>3, <1>6, <2>1
  <2>3. SumFunctionOnSet(held, Traders) = O + V
    BY <1>4, <1>6
  <2> HIDE DEF O, I, V, C, D
  <2>4. (I + D) + C = O + V
    BY <2>2, <2>3
  <2>5. I + D \in Int /\ I \in Int /\ D \in Int /\ C \in Int
    BY <1>8, <1>9 DEF I, D, C
  <2>6. QED
    BY <2>4, <2>5
<1>11. O = Supply(k)
  <2> DEFINE A == w.vault[k]
             G == w.glob[k].vault
  <2>1. /\ I + A + G = Supply(k) /\ A + V + P = C /\ G = D + P /\ I + D + C = O + V
        /\ A \in Int /\ G \in Int /\ D \in Int /\ P \in Int /\ V \in Int /\ I \in Int
        /\ C \in Int /\ O \in Int
    BY <1>7, <1>8, <1>9, <1>10
  <2> HIDE DEF O, I, V, P, C, D, A, G
  <2>2. QED
    BY <2>1
<1>12. QED
  BY <1>11 DEF own

\* From w and c to x and d, nothing of any other trader than actor changes.
OthersKeep(w, c, x, d, actor) ==
    \A t \in Traders \ {actor}, k \in Tokens : Own(x, d, t, k) = Own(w, c, t, k)

SamePurses(w, x, actor) ==
    \A t \in Traders \ {actor}, k \in Tokens : Purse(x, t, k) = Purse(w, t, k)

SameLoans(w, c, x, d, actor) ==
    \A t \in Traders \ {actor}, k \in Tokens : Lent(x, d, t, k) = Lent(w, c, t, k)

LEMMA OthersKept ==
    ASSUME NEW w, NEW c, NEW x, NEW d, NEW actor,
           ChangesOnlyOf(w.m, x.m, actor), SamePurses(w, x, actor), SameLoans(w, c, x, d, actor)
    PROVE  OthersKeep(w, c, x, d, actor)
BY DEF OthersKeep, ChangesOnlyOf, SamePurses, SameLoans, Own

\* Nothing of actor does either then, because nothing is made or lost.
LEMMA ActorKeeps ==
    ASSUME NEW w, NEW c, LedgerSound(w, c), NEW x, NEW d, LedgerSound(x, d),
           NEW actor, OthersKeep(w, c, x, d, actor), NEW k \in Tokens, NEW t \in Traders
    PROVE  Own(x, d, t, k) = Own(w, c, t, k)
<1>1. CASE t # actor
  BY <1>1 DEF OthersKeep
<1>2. CASE t = actor
  <2> DEFINE before == [s \in Traders |-> Own(w, c, s, k)]
             after == [s \in Traders |-> Own(x, d, s, k)]
             others == Traders \ {t}
  <2>1. \A s \in Traders : before[s] \in Int /\ after[s] \in Int
    BY OwnParts
  <2>2. \A s \in others : before[s] = after[s]
    BY <1>2 DEF OthersKeep
  <2>3. SumFunctionOnSet(before, Traders) = SumFunctionOnSet(after, Traders)
    BY AllOwned
  <2>4. before[t] = Own(w, c, t, k) /\ after[t] = Own(x, d, t, k)
    OBVIOUS
  <2>5. IsFiniteSet(Traders) /\ IsFiniteSet(others)
    BY GlobalAssumption, FS_RemoveElement
  <2> HIDE DEF before, after
  <2>6. /\ SumFunctionOnSet(before, Traders) = before[t] + SumFunctionOnSet(before, others)
        /\ SumFunctionOnSet(after, Traders) = after[t] + SumFunctionOnSet(after, others)
    BY <2>1, <2>5, SumTakeOut
  <2> HIDE DEF others
  <2>7. SumFunctionOnSet(before, others) = SumFunctionOnSet(after, others)
    BY <2>2, <2>5, SumSame
  <2>8. SumFunctionOnSet(before, others) \in Int /\ before[t] \in Int /\ after[t] \in Int
    BY <2>1, <2>5, SumInt DEF others
  <2>9. before[t] = after[t]
    <3> DEFINE rest == SumFunctionOnSet(before, others)
               B == before[t]
               A == after[t]
    <3>1. B + rest = A + rest /\ rest \in Int /\ A \in Int /\ B \in Int
        BY <2>3, <2>6, <2>7, <2>8
    <3> HIDE DEF rest, B, A
    <3>2. A = B
        BY <3>1
    <3>3. QED
        BY <3>2 DEF A, B
  <2>10. QED
    BY <2>4, <2>9
<1>3. QED
  BY <1>1, <1>2

\* Nobody's property changes.
AllKeep == \A trader \in Traders, token \in Tokens : Owned(trader, token)' = Owned(trader, token)

LEMMA StepKeeps ==
    ASSUME LedgerSound(work, ctx), LedgerSound(work', ctx'),
           NEW actor, OthersKeep(work, ctx, work', ctx', actor)
    PROVE  AllKeep
<1>1. SUFFICES ASSUME NEW CONSTANT trader \in Traders, NEW CONSTANT token \in Tokens
               PROVE  Owned(trader, token)' = Owned(trader, token)
  BY DEF AllKeep
<1>2. Own(work', ctx', trader, token) = Own(work, ctx, trader, token)
  BY ActorKeeps
<1>3. QED
  BY <1>2, OwnedIs, OwnedNext

-----------------------------------------------------------------------------
(* Whose property a step may change: that of one trader, except for a trade. *)

OneActor == \E actor : OthersKeep(work, ctx, work', ctx', actor)

LEMMA FundsPurses ==
    ASSUME NEW w, NEW x, SameFunds(w, x), NEW actor
    PROVE  SamePurses(w, x, actor)
BY DEF SameFunds, SamePurses, Purse

LEMMA ActorLoans ==
    ASSUME NEW w, NEW c, NEW x, NEW d, NEW actor,
           c.kind = "swap" => w.m.data[c.seat].trader = actor,
           d.kind = "swap" => x.m.data[d.seat].trader = actor
    PROVE  SameLoans(w, c, x, d, actor)
BY DEF SameLoans, Lent

LEMMA KeptLoans ==
    ASSUME NEW w, NEW c, NEW x, NEW d, NEW actor,
           d.kind = c.kind, d.swap = c.swap, d.seat = c.seat,
           x.m.data[c.seat].trader = w.m.data[c.seat].trader
    PROVE  SameLoans(w, c, x, d, actor)
BY DEF SameLoans, Lent, VirtualOf

\* An instruction of one step.
LEMMA CommitKeeps ==
    ASSUME ctx = Idle, work = accounts, NEW a, Commit(a), NEW actor,
           ChangesOnlyOf(accounts.m, a.m, actor), SamePurses(accounts, a, actor)
    PROVE  OneActor
<1>1. work' = a /\ ctx'.kind = "batch" /\ ctx.kind = "batch"
  BY DEF Commit, Idle
<1>2. SameLoans(work, ctx, work', ctx', actor)
  BY <1>1, ActorLoans
<1>3. ChangesOnlyOf(work.m, work'.m, actor) /\ SamePurses(work, work', actor)
  BY <1>1
<1>4. OthersKeep(work, ctx, work', ctx', actor)
  BY <1>2, <1>3, OthersKept
<1>5. QED
  BY <1>4 DEF OneActor

LEMMA QuietMarketKeeps ==
    ASSUME IInv, QuietMarketArrival
    PROVE  OneActor
<1>1. ctx = Idle
  BY DEF QuietMarketArrival, ClaimSeat, Expand, ExpandTo
<1>2. /\ accounts \in Accounts /\ work = accounts /\ MarketSound(accounts.m)
      /\ accounts.m \in Markets
  BY <1>1, IdleSound DEF AccountsSound, MarketSound
<1>3. ASSUME NEW m, NEW actor, ChangesOnlyOf(accounts.m, m, actor),
             Commit([accounts EXCEPT !.m = m])
      PROVE  OneActor
  <2> DEFINE a == [accounts EXCEPT !.m = m]
  <2>1. a.m = m /\ a.wallet = accounts.wallet /\ a.glob = accounts.glob
    BY <1>2 DEF Accounts
  <2>2. Commit(a)
    BY <1>3
  <2> HIDE DEF a
  <2>3. SamePurses(accounts, a, actor)
    BY <2>1 DEF SamePurses, Purse
  <2>4. ChangesOnlyOf(accounts.m, a.m, actor)
    BY <1>3, <2>1
  <2>5. QED
    BY <1>1, <1>2, <2>2, <2>3, <2>4, CommitKeeps
<1>4. CASE \E trader \in Traders : ClaimSeat(trader)
  <2>1. PICK trader \in Traders : ClaimSeat(trader)
    BY <1>4
  <2> DEFINE claimed == ClaimSeatOn(accounts.m, trader)
             m == ExpandIfNeeded(claimed)
  <2>2. HasFreeBlock(accounts.m) /\ Commit([accounts EXCEPT !.m = m])
    BY <2>1 DEF ClaimSeat
  <2>3. ChangesOnlyOf(accounts.m, claimed, trader) /\ claimed \in Markets
    BY <1>2, <2>2, ClaimOwned, ClaimSeatSound DEF MarketSound
  <2> HIDE DEF claimed
  <2>4. ChangesOnlyOf(claimed, m, trader)
    BY <2>3, ExpandOwned
  <2> HIDE DEF m
  <2>5. ChangesOnlyOf(accounts.m, m, trader)
    BY <2>3, <2>4, ChangesOnlyOfTwice
  <2>6. QED
    BY <1>3, <2>2, <2>5
<1>5. CASE Expand \/ \E n \in 0 .. MaxExpand : ExpandTo(n)
  <2>1. \E k \in Nat : Commit([accounts EXCEPT !.m = ExpandBy(accounts.m, k)])
    <3>1. CASE Expand
        BY <3>1 DEF Expand
    <3>2. CASE \E n \in 0 .. MaxExpand : ExpandTo(n)
      <4>1. PICK n \in 0 .. MaxExpand : ExpandTo(n)
          BY <3>2
      <4> DEFINE missing == FreeBlocksShortOfN(accounts.m, n)
      <4>2. missing # NIL /\ Commit([accounts EXCEPT !.m = ExpandBy(accounts.m, missing)])
          BY <4>1 DEF ExpandTo
      <4>3. missing \in Nat
        <5>1. n \in Nat /\ Len(accounts.m.free) \in Nat
            BY <1>2, ManifestAssumption DEF Markets
        <5>2. QED
            BY <4>2, <5>1 DEF FreeBlocksShortOfN
      <4> HIDE DEF missing
      <4>4. QED
          BY <4>2, <4>3
    <3>3. QED
        BY <1>5, <3>1, <3>2
  <2>2. PICK k \in Nat : Commit([accounts EXCEPT !.m = ExpandBy(accounts.m, k)])
    BY <2>1
  <2>3. ChangesOnlyOf(accounts.m, ExpandBy(accounts.m, k), NIL)
    BY <1>2, ExpandOwned
  <2>4. QED
    BY <1>3, <2>2, <2>3
<1>6. QED
  BY <1>4, <1>5 DEF QuietMarketArrival

LEMMA MovedPurses ==
    ASSUME NEW w \in Accounts, NEW x, NEW trader, NEW flow,
           Moved(w.wallet, x.wallet, trader, flow),
           \A k \in Tokens : x.glob[k].dep = w.glob[k].dep
    PROVE  SamePurses(w, x, trader)
<1>1. SUFFICES ASSUME NEW t \in Traders \ {trader}, NEW k \in Tokens
               PROVE  Purse(x, t, k) = Purse(w, t, k)
  BY DEF SamePurses
<1>2. w.wallet[t][k] \in Int
  BY DEF Accounts
<1>3. x.wallet[t][k] = w.wallet[t][k] + 0
  BY DEF Moved
<1>4. QED
  BY <1>2, <1>3 DEF Purse

\* What leaves a wallet for a global deposit stays its trader's.
LEMMA GlobalMovedPurses ==
    ASSUME NEW a \in Accounts, NEW b, NEW trader, NEW token \in Tokens, NEW delta \in Int,
           GlobalMoved(a, b, trader, token, delta), NEW actor
    PROVE  SamePurses(a, b, actor)
<1>1. SUFFICES ASSUME NEW t \in Traders, NEW k \in Tokens
               PROVE  Purse(b, t, k) = Purse(a, t, k)
  BY DEF SamePurses
<1> DEFINE d == IF t = trader /\ k = token THEN delta ELSE 0
<1>2. /\ a.wallet[t][k] \in Int /\ a.glob[k].dep[t] \in Int /\ d \in Int
  BY DEF Accounts, Globals
<1>3. b.glob[k].dep[t] = a.glob[k].dep[t] + d
  BY DEF GlobalMoved
<1>4. b.wallet[t][k] = a.wallet[t][k] - d
  <2>1. b.wallet[t][k] = a.wallet[t][k] + (IF t = trader THEN Flow(token, - delta)[k] ELSE 0)
    BY DEF GlobalMoved, Moved
  <2>2. (IF t = trader THEN Flow(token, - delta)[k] ELSE 0) = - d
    BY DEF Flow
  <2> HIDE DEF d
  <2>3. QED
    BY <1>2, <2>1, <2>2
<1> HIDE DEF d
<1>5. QED
  BY <1>2, <1>3, <1>4 DEF Purse

LEMMA BalanceKeeps ==
    ASSUME IInv, NEW trader \in Traders, NEW token \in Tokens, NEW atoms \in Nat,
           Deposit(trader, token, atoms) \/ Withdraw(trader, token, atoms)
    PROVE  OneActor
<1>1. PICK delta \in Int : \E a : BalanceMoved(a, trader, token, delta)
  BY BalanceEffect
<1>2. PICK a : BalanceMoved(a, trader, token, delta)
  BY <1>1
<1> DEFINE seat == GetTraderIndex(accounts.m, trader)
<1>3. /\ ctx = Idle /\ Commit(a) /\ seat \in SeatIndices(accounts.m)
      /\ accounts.m.data[seat].trader = trader
      /\ accounts.m.data[seat].bal[token] + delta >= 0
      /\ a.m = UpdateBalance(accounts.m, seat, token, delta)
      /\ Moved(accounts.wallet, a.wallet, trader, Flow(token, - delta))
      /\ a.glob = accounts.glob
  BY <1>2 DEF BalanceMoved
<1>4. accounts \in Accounts /\ work = accounts /\ MarketSound(accounts.m)
  BY <1>3, IdleSound DEF AccountsSound
<1> HIDE DEF seat
<1>5. ChangesOnly(accounts.m, a.m, accounts.m.data[seat].trader, token)
  BY <1>3, <1>4, UpdateOwned
<1>6. ChangesOnlyOf(accounts.m, a.m, trader)
  BY <1>3, <1>5, ChangesOnlyOwner
<1>7. SamePurses(accounts, a, trader)
  BY <1>3, <1>4, MovedPurses
<1>8. QED
  BY <1>3, <1>4, <1>6, <1>7, CommitKeeps

LEMMA GlobalBalanceKeeps ==
    ASSUME IInv, NEW trader \in Traders, NEW token \in Tokens, NEW atoms \in Nat,
           \/ GlobalDeposit(trader, token, atoms)
           \/ GlobalWithdraw(trader, token, atoms)
           \/ \E evictee \in Traders : GlobalEvict(trader, evictee, token, atoms)
    PROVE  OneActor
<1>1. ctx = Idle
  BY DEF GlobalDeposit, GlobalWithdraw, GlobalEvict
<1>2. accounts \in Accounts /\ work = accounts
  BY <1>1, IdleSound DEF AccountsSound
<1>3. ASSUME NEW a, Commit(a), a.m = accounts.m, SamePurses(accounts, a, NIL)
      PROVE  OneActor
  <2>1. ChangesOnlyOf(accounts.m, a.m, NIL)
    BY <1>3, SameDataOwned
  <2>2. QED
    BY <1>1, <1>2, <1>3, <2>1, CommitKeeps
<1>4. CASE GlobalDeposit(trader, token, atoms) \/ GlobalWithdraw(trader, token, atoms)
  <2>1. PICK delta \in Int : \E b \in Accounts :
                Commit(b) /\ GlobalMoved(accounts, b, trader, token, delta)
    BY <1>4, GlobalBalanceEffect
  <2>2. PICK b \in Accounts : Commit(b) /\ GlobalMoved(accounts, b, trader, token, delta)
    BY <2>1
  <2>3. SamePurses(accounts, b, NIL)
    BY <1>2, <2>2, GlobalMovedPurses
  <2>4. b.m = accounts.m
    BY <2>2 DEF GlobalMoved
  <2>5. QED
    BY <1>3, <2>2, <2>3, <2>4
<1>5. CASE \E evictee \in Traders : GlobalEvict(trader, evictee, token, atoms)
  <2>1. PICK evictee \in Traders : GlobalEvict(trader, evictee, token, atoms)
    BY <1>5
  <2>2. PICK delta \in Int : \E b, c \in Accounts :
                /\ Commit(c)
                /\ GlobalMoved(accounts, b, evictee, token, delta)
                /\ GlobalMoved(b, c, trader, token, atoms)
    BY <2>1, GlobalEvictEffect
  <2>3. PICK b \in Accounts : \E c \in Accounts :
                /\ Commit(c)
                /\ GlobalMoved(accounts, b, evictee, token, delta)
                /\ GlobalMoved(b, c, trader, token, atoms)
    BY <2>2
  <2>4. PICK c \in Accounts :
                /\ Commit(c)
                /\ GlobalMoved(accounts, b, evictee, token, delta)
                /\ GlobalMoved(b, c, trader, token, atoms)
    BY <2>3
  <2>5. SamePurses(accounts, b, NIL)
    BY <1>2, <2>4, GlobalMovedPurses
  <2>6. atoms \in Int /\ SamePurses(b, c, NIL)
    <3>1. atoms \in Int
        OBVIOUS
    <3>2. QED
        BY <2>4, <3>1, GlobalMovedPurses
  <2>7. SamePurses(accounts, c, NIL)
    BY <2>5, <2>6 DEF SamePurses
  <2>8. c.m = accounts.m
    BY <2>4 DEF GlobalMoved
  <2>9. QED
    BY <1>3, <2>4, <2>7, <2>8
<1>6. QED
  BY <1>4, <1>5

LEMMA QuietGlobalKeeps ==
    ASSUME IInv, QuietGlobalArrival
    PROVE  OneActor
<1>1. ctx = Idle
  BY DEF QuietGlobalArrival, GlobalAddTrader, GlobalClean
<1>2. accounts \in Accounts /\ work = accounts /\ MarketSound(accounts.m)
  BY <1>1, IdleSound DEF AccountsSound
<1>3. SameFunds(work, work') /\ accounts' = work'
  BY QuietGlobalFunds
<1>4. work'.wallet = work.wallet /\ \A actor : SamePurses(work, work', actor)
  BY <1>3, FundsPurses DEF SameFunds
<1>5. ctx' = Idle
  BY DEF QuietGlobalArrival, GlobalAddTrader, GlobalClean, Commit
<1>6. ASSUME NEW actor, ChangesOnlyOf(work.m, work'.m, actor)
      PROVE  OneActor
  <2>1. ctx.kind # "swap" /\ ctx'.kind # "swap"
    BY <1>1, <1>5 DEF Idle
  <2>2. SameLoans(work, ctx, work', ctx', actor)
    BY <2>1, ActorLoans
  <2>3. OthersKeep(work, ctx, work', ctx', actor)
    BY <1>4, <1>6, <2>2, OthersKept
  <2>4. QED
    BY <2>3 DEF OneActor
<1>7. CASE \E trader \in Traders, token \in Tokens : GlobalAddTrader(trader, token)
  <2>1. \E glob : Commit([accounts EXCEPT !.glob = glob])
    BY <1>7 DEF GlobalAddTrader
  <2>2. work'.m = work.m
    BY <1>2, <2>1 DEF Commit, Accounts
  <2>3. ChangesOnlyOf(work.m, work'.m, NIL)
    BY <2>2, SameDataOwned
  <2>4. QED
    BY <1>6, <2>3
<1>8. CASE \E i \in Index : GlobalClean(i)
  <2>1. PICK i \in Index : GlobalClean(i)
    BY <1>8
  <2>2. i \in OrderIndices(work.m) /\ CanReturnOrder(work.m, i)
    BY <1>2, <2>1 DEF GlobalClean, CanCancelOrder
  <2>3. work'.m = ReturnOrder(work.m, i)
    <3> DEFINE m == ReturnOrder(accounts.m, i)
    <3>1. \E glob : Commit([accounts EXCEPT !.m = m, !.glob = glob])
        BY <2>1 DEF GlobalClean
    <3> HIDE DEF m
    <3>2. work'.m = m
        BY <1>2, <3>1 DEF Commit, Accounts
    <3>3. QED
        BY <1>2, <3>2 DEF m
  <2>4. ChangesOnly(work.m, work'.m, OrderOwner(work.m, i), Backing(work.m.data[i].is_bid))
    BY <1>2, <2>2, <2>3, ReturnOwned
  <2>5. QED
    BY <1>6, <2>4, ChangesOnlyOwner
<1>9. QED
  BY <1>7, <1>8 DEF QuietGlobalArrival

\* A swap changes its swapper's seat, which is credited what it owes.
LEMMA SwapKeeps ==
    ASSUME IInv, NEW trader \in Traders, NEW swap \in Swaps[trader],
           NEW globals \in GlobalsPassed, Swap(trader, swap, globals)
    PROVE  OneActor
<1> DEFINE existing == GetTraderIndex(accounts.m, trader)
           seated == IF existing = NIL THEN ClaimSeatOn(accounts.m, trader) ELSE accounts.m
           m == ExpandIfNeeded(seated)
           seat == GetTraderIndex(m, trader)
           token == InToken(swap)
           initial == m.data[seat].bal
           temp == (existing = NIL)
           begun == [Idle EXCEPT !.kind = "swap", !.seat = seat, !.globals = globals,
                                 !.swap = swap, !.temp = temp, !.initial = initial]
           n == UpdateBalance(m, seat, token, swap.in)
           w == [work EXCEPT !.m = n]
           orders == <<SwapOrder(swap, SizingAtoms(swap))>>
           walk == [begun EXCEPT !.phase = "impact", !.left = SizingAtoms(swap)]
           order == [begun EXCEPT !.phase = "next", !.orders = orders]
           c == IF IsQuoteSized(swap) THEN walk ELSE order
<1>1. /\ ctx = Idle /\ CanExpandIfNeeded(seated)
      /\ CanUpdateBalance(m, seat, token, swap.in)
      /\ existing = NIL => HasFreeBlock(accounts.m)
  BY DEF Swap
<1>2. Step(w, c)
  BY DEF Swap
<1>3. AccountsSound(accounts) /\ work = accounts /\ accounts \in Accounts /\ MarketSound(accounts.m)
  BY <1>1, IdleSound DEF AccountsSound
<1>4. MarketSound(seated) /\ ChangesOnlyOf(accounts.m, seated, trader)
  <2>1. CASE existing = NIL
    BY <1>1, <1>3, <2>1, ClaimSeatSound, ClaimOwned
  <2>2. CASE existing # NIL
    BY <1>3, <2>2, SameDataOwned
  <2>3. QED
    BY <2>1, <2>2
<1>5. MarketSound(m) /\ seat \in SeatIndices(m)
  BY <1>1, <1>3, SwapSeated
<1>6. m.data[seat].trader = trader
  <2>1. NIL \notin SeatIndices(m)
    BY DEF SeatIndices, NIL, Index
  <2> HIDE DEF m
  <2>2. QED
    BY <1>5, <2>1, TraderIndexSound
<1> HIDE DEF temp, existing, seated
<1>7. ChangesOnlyOf(seated, m, trader)
  BY <1>4, ExpandOwned DEF MarketSound
<1>8. swap.in \in Int /\ token \in Tokens
  <2>1. swap \in SwapArgs
    BY ManifestAssumption
  <2>2. QED
    BY <2>1 DEF SwapArgs, InToken, Backing, Tokens
<1>9. m.data[seat].bal[token] + swap.in >= 0
  BY <1>1 DEF CanUpdateBalance
<1> HIDE DEF m, seat, token
<1>10. ChangesOnly(m, n, m.data[seat].trader, token) /\ SameBlocks(m, n)
  BY <1>5, <1>8, <1>9, UpdateOwned, UpdateBalanceSound
<1> HIDE DEF n, initial
<1>11. ChangesOnlyOf(accounts.m, n, trader) /\ n.data[seat].trader = trader
  <2>1. ChangesOnlyOf(m, n, trader)
    BY <1>6, <1>10, ChangesOnlyOwner
  <2>2. QED
    BY <1>4, <1>5, <1>6, <1>7, <1>10, <2>1, ChangesOnlyOfTwice DEF SameBlocks
<1>12. w.m = n /\ SameFunds(work, w)
  BY <1>3 DEF Accounts, SameFunds
<1> HIDE DEF orders
<1>13. c.seat = seat
  <2>1. walk.seat = seat /\ order.seat = seat
    BY DEF Idle
  <2> HIDE DEF walk, order
  <2>2. QED
    BY <2>1
<1> HIDE DEF w, c
<1>14. work' = w /\ ctx' = c
  BY <1>2 DEF Step
<1>15. SameLoans(work, ctx, work', ctx', trader)
  <2>1. ctx.kind # "swap"
    BY <1>1 DEF Idle
  <2>2. work'.m.data[ctx'.seat].trader = trader
    BY <1>11, <1>12, <1>13, <1>14
  <2>3. QED
    BY <2>1, <2>2, ActorLoans
<1>16. ChangesOnlyOf(work.m, work'.m, trader) /\ SamePurses(work, work', trader)
  BY <1>3, <1>11, <1>12, <1>14, FundsPurses
<1>17. OthersKeep(work, ctx, work', ctx', trader)
  BY <1>15, <1>16, OthersKept
<1>18. QED
  BY <1>17 DEF OneActor

LEMMA TradeArrivalKeeps ==
    ASSUME IInv, TradeArrival
    PROVE  OneActor
<1>1. PICK trader \in Traders, globals \in GlobalsPassed :
        \/ \E batch \in Batches[trader] :
            \E cancels \in [1 .. batch.cancels -> CancelParams(accounts.m)] :
                BatchUpdate(trader, batch, globals, cancels)
        \/ \E swap \in Swaps[trader] : Swap(trader, swap, globals)
  BY DEF TradeArrival
<1>2. CASE \E batch \in Batches[trader] :
            \E cancels \in [1 .. batch.cancels -> CancelParams(accounts.m)] :
                BatchUpdate(trader, batch, globals, cancels)
  <2>1. work' = work /\ ctx.kind # "swap" /\ ctx'.kind # "swap"
    BY <1>2 DEF BatchUpdate, Step, Idle
  <2>2. SameLoans(work, ctx, work', ctx', NIL)
    BY <2>1, ActorLoans
  <2>3. ChangesOnlyOf(work.m, work'.m, NIL) /\ SamePurses(work, work', NIL)
    BY <2>1, SameDataOwned DEF SamePurses
  <2>4. OthersKeep(work, ctx, work', ctx', NIL)
    BY <2>2, <2>3, OthersKept
  <2>5. QED
    BY <2>4 DEF OneActor
<1>3. CASE \E swap \in Swaps[trader] : Swap(trader, swap, globals)
  BY <1>3, SwapKeeps
<1>4. QED
  BY <1>1, <1>2, <1>3

\* A step in the course of an instruction keeps what its swap, if it is one, lent.
LEMMA CourseKeeps ==
    ASSUME NEW actor, ctx'.kind = ctx.kind, ctx'.swap = ctx.swap, ctx'.seat = ctx.seat,
           ctx.seat \in SeatIndices(work.m), SameTraders(work.m, work'.m),
           ChangesOnlyOf(work.m, work'.m, actor), SamePurses(work, work', actor)
    PROVE  OneActor
<1>1. work'.m.data[ctx.seat].trader = work.m.data[ctx.seat].trader
  BY DEF SameTraders
<1>2. SameLoans(work, ctx, work', ctx', actor)
  BY <1>1, KeptLoans
<1>3. QED
  BY <1>2, OthersKept DEF OneActor

\* What an order returns is its owner's.
LEMMA ReturnKeeps ==
    ASSUME IInv, CancelOrder \/ CleanStaleMaker \/ CleanUnbackedMaker
    PROVE  OneActor
<1>1. PICK i \in OrderIndices(work.m) : ReturnedBy(i)
  BY ReturnEffect
<1>2. /\ CanReturnOrder(work.m, i) /\ work'.m = ReturnOrder(work.m, i)
      /\ SameTokens(work, work') /\ SameOrderPlaced(ctx, ctx') /\ ctx.phase # "idle"
  BY <1>1 DEF ReturnedBy
<1>3. MarketSound(work.m) /\ ctx.seat \in SeatIndices(work.m)
  BY <1>2, BusySound DEF WorkSound
<1> DEFINE actor == OrderOwner(work.m, i)
<1>4. ChangesOnlyOf(work.m, work'.m, actor)
  BY <1>2, <1>3, ReturnOwned, ChangesOnlyOwner
<1>5. SameTraders(work.m, work'.m)
  BY <1>2, <1>3, ReturnOrderSound
<1> HIDE DEF actor
<1>6. SameFunds(work, work')
  BY <1>2 DEF SameTokens, SameFunds
<1>7. SamePurses(work, work', actor)
  BY <1>6, FundsPurses
<1>8. ctx'.kind = ctx.kind /\ ctx'.swap = ctx.swap /\ ctx'.seat = ctx.seat
  BY <1>2 DEF SameOrderPlaced
<1>9. QED
  BY <1>3, <1>4, <1>5, <1>7, <1>8, CourseKeeps

\* A reversal spends what its owner has just been paid.
LEMMA ReverseKeeps ==
    ASSUME IInv, PlaceReverse
    PROVE  OneActor
<1> DEFINE r == ctx.reversal
           is_bid == ctx.args.is_bid
           m == work.m
           actor == m.data[r.trader_index].trader
<1>1. PICK i \in ReverseTargets :
        /\ CanReverse(m, i, r, is_bid) /\ work'.m = Reversed(m, i, r, is_bid)
        /\ work'.vault = work.vault /\ work'.wallet = work.wallet /\ work'.glob = work.glob
        /\ ctx.phase = "reverse"
        /\ ctx' = [ctx EXCEPT !.phase = "match", !.reversal = NoReversal]
  BY PlaceReverseEffect
<1>2. /\ MarketSound(m) /\ ctx \in Contexts /\ r.trader_index \in SeatIndices(m)
      /\ ctx.seat \in SeatIndices(m)
  BY <1>1, BusySound DEF WorkSound
<1>3. is_bid \in BOOLEAN /\ r \in Reversals
  BY <1>2 DEF Contexts, OrderArgs
<1>4. /\ r.type \in ReversibleTypes /\ r.spread \in Spreads
      /\ r.price \in Nat /\ r.base \in Nat /\ r.quote \in Nat
  BY <1>3 DEF Reversals
<1>5. i \in LookupResults(m, is_bid, r.trader_index, r.type, r.price)
  BY <1>1 DEF ReverseTargets
<1>6. ctx'.kind = ctx.kind /\ ctx'.swap = ctx.swap /\ ctx'.seat = ctx.seat
  BY <1>1, <1>2 DEF Contexts
<1>7. SameFunds(work, work')
  BY <1>1 DEF SameFunds
<1>8. SameTraders(m, work'.m) /\ ChangesOnlyOf(m, work'.m, actor)
  <2> HIDE DEF m, r, is_bid
  <2>1. SameTraders(m, work'.m)
    BY <1>1, <1>2, <1>3, <1>4, <1>5, ReversedSound
  <2>2. QED
    BY <1>1, <1>2, <1>3, <1>4, <1>5, <2>1, ReversedOwned
<1> HIDE DEF actor
<1>9. SamePurses(work, work', actor)
  BY <1>7, FundsPurses
<1>10. QED
  BY <1>2, <1>6, <1>8, <1>9, CourseKeeps DEF m

\* The steps that leave every block as it is.
LEMMA QuietProgressKeeps ==
    ASSUME IInv, QuietProgress
    PROVE  OneActor
<1>1. SameFunds(work, work')
  BY QuietProgressFunds
<1>2. ASSUME NEW actor
      PROVE  SamePurses(work, work', actor)
  BY <1>1, FundsPurses
<1>3. ASSUME work'.m.data = work.m.data, ctx.phase # "idle",
             ctx'.kind = ctx.kind, ctx'.swap = ctx.swap, ctx'.seat = ctx.seat
      PROVE  OneActor
  <2>1. \A actor : ChangesOnlyOf(work.m, work'.m, actor)
    BY <1>3, SameDataOwned
  <2>2. work'.m.data[ctx.seat].trader = work.m.data[ctx.seat].trader
    BY <1>3
  <2>3. SameLoans(work, ctx, work', ctx', NIL)
    BY <1>3, <2>2, KeptLoans
  <2>4. QED
    BY <1>2, <2>1, <2>3, OthersKept DEF OneActor
<1>4. CASE CancelOrder \/ CleanStaleMaker \/ CleanUnbackedMaker
  BY <1>4, ReturnKeeps
<1>5. CASE PlaceReverse
  BY <1>5, ReverseKeeps
<1>6. CASE StopMatching \/ WalkPast \/ CountMaker \/ StopWalking
  <2>1. work' = work /\ SameOrderPlaced(ctx, ctx') /\ ctx.phase # "idle"
    BY <1>6, StopMatchingEffect, WalkEffect
  <2>2. QED
    BY <1>3, <2>1 DEF SameOrderPlaced
<1>7. CASE BeginOrder
  BY <1>3, <1>7, BeginOrderEffect
<1>8. CASE PrepayGas
  <2>1. work \in Accounts /\ ctx \in Contexts /\ ctx.phase # "idle"
    BY <1>8, BusySound DEF PrepayGas, WorkSound
  <2>2. /\ \E glob : work' = [work EXCEPT !.glob = glob]
        /\ ctx' = [ctx EXCEPT !.phase = "next"]
    BY <1>8 DEF PrepayGas, Step
  <2>3. work'.m.data = work.m.data
    BY <2>1, <2>2 DEF Accounts
  <2>4. ctx'.kind = ctx.kind /\ ctx'.swap = ctx.swap /\ ctx'.seat = ctx.seat
    BY <2>1, <2>2 DEF Contexts
  <2>5. QED
    BY <1>3, <2>1, <2>3, <2>4
<1>9. CASE FinishBatch
  <2>1. work \in Accounts
    BY <1>9, BusySound DEF FinishBatch, WorkSound
  <2>2. /\ \E glob : work' = [work EXCEPT !.glob = glob]
        /\ ctx.kind = "batch" /\ ctx' = Idle
    BY <1>9 DEF FinishBatch, Commit
  <2>3. work'.m = work.m
    BY <2>1, <2>2 DEF Accounts
  <2>4. ctx.kind # "swap" /\ ctx'.kind # "swap"
    BY <2>2 DEF Idle
  <2>5. SameLoans(work, ctx, work', ctx', NIL)
    BY <2>4, ActorLoans
  <2>6. ChangesOnlyOf(work.m, work'.m, NIL)
    BY <2>3, SameDataOwned
  <2>7. QED
    BY <1>2, <2>5, <2>6, OthersKept DEF OneActor
<1>10. QED
  BY <1>4, <1>5, <1>6, <1>7, <1>8, <1>9 DEF QuietProgress

\* An order that rests is paid for by its owner, the one who trades.
LEMMA FinishOrderKeeps ==
    ASSUME IInv, FinishOrder
    PROVE  OneActor
<1>1. /\ CanFinishOrder /\ work \in Accounts /\ ctx \in Contexts /\ MarketSound(work.m)
      /\ ctx.seat \in SeatIndices(work.m)
      /\ work'.wallet = work.wallet
      /\ work'.glob = [work.glob EXCEPT ![MakerToken].vault = @ - ctx.pending]
      /\ ctx' = [ctx EXCEPT !.phase = "next", !.pending = 0, !.remaining = 0, !.seq = 0]
  BY FinishOrderEffect
<1> DEFINE after == AfterRest
           actor == Swapper
           m == work.m
           n == work'.m
<1>2. n = IF ctx.kind = "batch" THEN ExpandIfNeeded(after) ELSE after
  <2> DEFINE vault == [work.vault EXCEPT ![MakerToken] = @ + ctx.pending]
             glob == [work.glob EXCEPT ![MakerToken].vault = @ - ctx.pending]
             market == IF ctx.kind = "batch" THEN ExpandIfNeeded(after) ELSE after
  <2>1. work' = [work EXCEPT !.vault = vault, !.glob = glob, !.m = market]
    BY <1>1 DEF FinishOrder, Step, Accounts
  <2> HIDE DEF vault, glob, market
  <2>2. QED
    BY <1>1, <2>1 DEF Accounts, market
<1>3. MarketSound(after) /\ SameTraders(m, after) /\ ChangesOnlyOf(m, after, actor)
  <2>1. CASE Rests
    <3>1. CanRestOn(work.m) /\ after = Rested(work.m)
      BY <1>1, <2>1 DEF CanFinishOrder, AfterRest
    <3>2. QED
      BY <1>1, <3>1, RestedSound, RestedOwned
  <2>2. CASE ~ Rests
    <3>1. after = m
      BY <2>2 DEF AfterRest
    <3>2. ChangesOnlyOf(m, after, actor)
      BY <3>1, SameDataOwned
    <3>3. QED
      BY <1>1, <3>1, <3>2 DEF SameTraders
  <2>3. QED
    BY <2>1, <2>2
<1>4. SameTraders(after, n) /\ ChangesOnlyOf(after, n, actor)
  <2>1. CASE ctx.kind = "batch"
    <3>1. CanExpandIfNeeded(after) /\ n = ExpandIfNeeded(after)
      BY <1>1, <1>2, <2>1 DEF CanFinishOrder
    <3>2. after \in Markets
      BY <1>3 DEF MarketSound
    <3> HIDE DEF after, n, actor
    <3>3. SameSeats(after, n) /\ ChangesOnlyOf(after, n, actor)
      BY <1>3, <3>1, <3>2, ExpandIfNeededSound, ExpandOwned
    <3>4. QED
      BY <3>3 DEF SameSeats, SameTraders
  <2>2. CASE ctx.kind # "batch"
    <3>1. n = after
      BY <1>2, <2>2
    <3>2. ChangesOnlyOf(after, n, actor)
      BY <3>1, SameDataOwned
    <3>3. QED
      BY <3>1, <3>2 DEF SameTraders
  <2>3. QED
    BY <2>1, <2>2
<1>5. SameTraders(m, n) /\ ChangesOnlyOf(m, n, actor)
  <2> HIDE DEF m, n, after, actor
  <2>1. SameTraders(m, n)
    BY <1>3, <1>4 DEF SameTraders
  <2>2. QED
    BY <1>3, <1>4, <2>1, ChangesOnlyOfTwice
<1>6. \A k \in Tokens : work'.glob[k].dep = work.glob[k].dep
  <2> DEFINE paid == [work.glob[MakerToken] EXCEPT !.vault = @ - ctx.pending]
  <2>1. MakerToken \in Tokens
    BY BackingToken DEF MakerToken, Backing, Tokens
  <2>2. work.glob \in [Tokens -> Globals]
    BY <1>1 DEF Accounts
  <2>3. paid.dep = work.glob[MakerToken].dep
    BY <2>1, <2>2 DEF Globals
  <2>4. work'.glob = [work.glob EXCEPT ![MakerToken] = paid]
    BY <1>1
  <2> HIDE DEF paid
  <2>5. QED
    BY <2>1, <2>2, <2>3, <2>4
<1>7. SamePurses(work, work', actor)
  BY <1>1, <1>6 DEF SamePurses, Purse
<1>8. ctx'.kind = ctx.kind /\ ctx'.swap = ctx.swap /\ ctx'.seat = ctx.seat
  BY <1>1 DEF Contexts
<1>9. QED
  <2> HIDE DEF actor
  <2>1. QED
    BY <1>1, <1>5, <1>7, <1>8, CourseKeeps

\* A swap ends: what it used of its virtual credit is paid, the rest is taken back.
LEMMA FinishSwapKeeps ==
    ASSUME IInv, FinishSwap
    PROVE  OneActor
<1> DEFINE flow == SwapFlow
<1>1. /\ ctx.phase = "next" /\ Swapper \in Traders /\ flow \in [Tokens -> Int]
      /\ \A t \in Tokens : Extra(t) >= 0
      /\ \E a : /\ Commit(a) /\ a.m = SeatSettled /\ a.glob = work.glob
                /\ Moved(work.wallet, a.wallet, Swapper, flow)
  BY FinishSwapEffect
<1>2. PICK a : /\ Commit(a) /\ a.m = SeatSettled /\ a.glob = work.glob
               /\ Moved(work.wallet, a.wallet, Swapper, flow)
  BY <1>1
<1>3. WorkSound(work, ctx) /\ work \in Accounts
  BY <1>1, BusySound DEF WorkSound
<1> DEFINE actor == Swapper
<1>4. ChangesOnlyOf(work.m, a.m, actor)
  BY <1>1, <1>2, <1>3, SeatSettledOwned
<1>5. SamePurses(work, a, actor)
  <2> HIDE DEF flow, actor
  <2>1. \A k \in Tokens : a.glob[k].dep = work.glob[k].dep
    BY <1>2
  <2>2. Moved(work.wallet, a.wallet, actor, flow)
    BY <1>2 DEF actor
  <2>3. QED
    BY <1>3, <2>1, <2>2, MovedPurses
<1>6. work' = a /\ ctx' = Idle
  BY <1>2 DEF Commit
<1>7. SameLoans(work, ctx, work', ctx', actor)
  <2>1. ctx'.kind # "swap"
    BY <1>6 DEF Idle
  <2>2. work.m.data[ctx.seat].trader = actor
    BY DEF Swapper
  <2> HIDE DEF actor
  <2>3. QED
    BY <2>1, <2>2, ActorLoans
<1> HIDE DEF actor
<1>8. QED
  BY <1>4, <1>5, <1>6, <1>7, OthersKept DEF OneActor

-----------------------------------------------------------------------------
(* A trade: two traders exchange, the others keep, the sums stay. *)

LEMMA OwnsMore ==
    ASSUME NEW w, NEW c, LedgerSound(w, c), NEW x, NEW d, LedgerSound(x, d),
           NEW t \in Traders, NEW k \in Tokens, Purse(x, t, k) = Purse(w, t, k),
           Lent(x, d, t, k) = Lent(w, c, t, k), OnMarket(x.m, t, k) >= OnMarket(w.m, t, k)
    PROVE  Own(x, d, t, k) >= Own(w, c, t, k)
<1> DEFINE own == Own(w, c, t, k)
           new == Own(x, d, t, k)
           purse == Purse(w, t, k)
           loan == Lent(w, c, t, k)
           held == OnMarket(w.m, t, k)
           more == OnMarket(x.m, t, k)
<1>1. purse \in Int /\ held \in Int /\ loan \in Int /\ own \in Int /\ purse + held = own + loan
  BY OwnParts
<1>2. more \in Int /\ new \in Int /\ purse + more = new + loan
  BY OwnParts
<1>3. more >= held
  OBVIOUS
<1> HIDE DEF own, new, purse, loan, held, more
<1>4. new >= own
  BY <1>1, <1>2, <1>3
<1>5. QED
  BY <1>4 DEF own, new

\* The tokens of the traders add up to what they did.
SumsKeep ==
    \A token \in Tokens :
        SumFunctionOnSet([t \in Traders |-> Owned(t, token)'], Traders)
            = SumFunctionOnSet([t \in Traders |-> Owned(t, token)], Traders)

LEMMA StepSums ==
    ASSUME LedgerSound(work, ctx), LedgerSound(work', ctx')
    PROVE  SumsKeep
<1>1. SUFFICES ASSUME NEW CONSTANT token \in Tokens
               PROVE  SumFunctionOnSet([t \in Traders |-> Owned(t, token)'], Traders)
                        = SumFunctionOnSet([t \in Traders |-> Owned(t, token)], Traders)
  BY DEF SumsKeep
<1> DEFINE own == [t \in Traders |-> Own(work, ctx, t, token)]
           new == [t \in Traders |-> Own(work', ctx', t, token)]
<1>2. SumFunctionOnSet(own, Traders) = SumFunctionOnSet(new, Traders)
  <2>1. SumFunctionOnSet(own, Traders) = Supply(token)
    BY AllOwned
  <2>2. SumFunctionOnSet(new, Traders) = Supply(token)
    BY AllOwned
  <2>3. QED
    BY <2>1, <2>2
<1>3. [t \in Traders |-> Owned(t, token)] = own
  BY OwnedIs
<1>4. [t \in Traders |-> Owned(t, token)'] = new
  <2>1. ASSUME NEW CONSTANT t \in Traders
        PROVE  Owned(t, token)' = Own(work', ctx', t, token)
    BY OwnedNext
  <2>2. QED
    BY <2>1
<1>5. QED
  BY <1>2, <1>3, <1>4

\* Nobody is poorer in every token.
SomeTokenKeeps ==
    \A trader \in Traders : \E token \in Tokens :
        Owned(trader, token)' >= Owned(trader, token)

LEMMA StepSomeToken ==
    ASSUME \A t \in Traders : \E k \in Tokens :
                Own(work', ctx', t, k) >= Own(work, ctx, t, k)
    PROVE  SomeTokenKeeps
<1>1. SUFFICES ASSUME NEW CONSTANT trader \in Traders
               PROVE  \E token \in Tokens : Owned(trader, token)' >= Owned(trader, token)
  BY DEF SomeTokenKeeps
<1>2. PICK k \in Tokens : Own(work', ctx', trader, k) >= Own(work, ctx, trader, k)
  OBVIOUS
<1>3. \A token \in Tokens : /\ Owned(trader, token) = Own(work, ctx, trader, token)
                            /\ Owned(trader, token)' = Own(work', ctx', trader, token)
  <2>1. SUFFICES ASSUME NEW CONSTANT token \in Tokens
                 PROVE  /\ Owned(trader, token) = Own(work, ctx, trader, token)
                        /\ Owned(trader, token)' = Own(work', ctx', trader, token)
    OBVIOUS
  <2>2. QED
    BY OwnedIs, OwnedNext
<1>4. QED
  BY <1>2, <1>3

\* A fill moves tokens between the owners of the seat and of the order, the
\* taker's payment one way and what backs the order the other.
LEMMA FillMoves ==
    ASSUME IInv, Fill
    PROVE  /\ ctx.phase = "match"
           /\ \E taker, maker : \E A, B \in Tokens :
                /\ A # B /\ TradeMoves(work.m, work'.m, taker, maker, A, B)
                /\ \A t \in Traders, k \in Tokens :
                        t # maker \/ k # B => Purse(work', t, k) = Purse(work, t, k)
                /\ \A t \in Traders, k \in Tokens :
                        Lent(work', ctx', t, k) = Lent(work, ctx, t, k)
<1>1. PICK i \in Index : FilledBy(i)
  BY FillEffect
<1> DEFINE m == work.m
           n == work'.m
           order == m.data[i]
           trade == Trade(i)
           is_bid == ctx.args.is_bid
           taker == m.data[ctx.seat].trader
           maker == OrderOwner(m, i)
           A == Backing(is_bid)
           B == Backing(~ is_bid)
<1>2. /\ IsMaker(i) /\ CanFill(i) /\ i \in OrderIndices(m) /\ order.is_bid = ~ is_bid
      /\ n = Traded(m, ctx.seat, i, is_bid, trade) /\ trade.got \in Nat
      /\ work'.wallet = work.wallet
      /\ work'.glob = [work.glob EXCEPT ![MakerToken] =
                            IF order.type = "Global"
                            THEN UpdateDeposit(@, maker, - trade.got) ELSE @]
      /\ ctx'.kind = ctx.kind /\ ctx'.seat = ctx.seat /\ ctx'.swap = ctx.swap
  BY <1>1 DEF FilledBy, OrderOwner
<1>3. ctx.phase = "match"
  BY <1>2 DEF IsMaker
<1>4. /\ work \in Accounts /\ ctx \in Contexts /\ MarketSound(m)
      /\ ctx.seat \in SeatIndices(m)
  BY <1>3, BusySound DEF WorkSound
<1>5. is_bid \in BOOLEAN /\ ctx.remaining \in Nat
  BY <1>4 DEF Contexts, OrderArgs
<1>6. A \in Tokens /\ B \in Tokens /\ A # B /\ MakerToken = B
  BY <1>5 DEF Backing, Tokens, MakerToken
<1>7. trade = TradeWith(order, is_bid, ctx.remaining)
  BY DEF Trade
<1>8. CanTrade(m, ctx.seat, order, is_bid, trade)
  BY <1>2 DEF CanFill
<1>9. IsTraded(m, n, ctx.seat, i, order, is_bid, ctx.remaining, trade)
  <2> HIDE DEF m, n, trade, is_bid
  <2>1. QED
    BY <1>2, <1>4, <1>5, <1>7, <1>8 DEF IsTraded
<1>10. TradeMoves(m, n, taker, maker, A, B) /\ SameTraders(m, n)
  <2> HIDE DEF m, n, order, trade, is_bid
  <2>1. SameTraders(m, n)
    BY <1>4, <1>9, TradedSound
  <2>2. QED
    BY <1>4, <1>9, <2>1, TradedOwned
<1>11. \A t \in Traders, k \in Tokens :
            t # maker \/ k # B => work'.glob[k].dep[t] = work.glob[k].dep[t]
  <2> DEFINE before == work.glob[B]
             got == trade.got
             g == IF order.type = "Global" THEN UpdateDeposit(before, maker, - got) ELSE before
  <2>1. work'.glob = [work.glob EXCEPT ![B] = g] /\ work.glob \in [Tokens -> Globals]
    BY <1>2, <1>4, <1>6 DEF Accounts
  <2>2. before \in Globals
    BY <1>6, <2>1
  <2> HIDE DEF before, got
  <2>3. \A t \in Traders \ {maker} : g.dep[t] = before.dep[t]
    BY <2>2 DEF UpdateDeposit, Globals
  <2> HIDE DEF g, B, maker
  <2>4. work'.glob[B] = g /\ \A k \in Tokens \ {B} : work'.glob[k] = work.glob[k]
    BY <1>6, <2>1
  <2>5. QED
    BY <1>6, <2>3, <2>4 DEF before
<1>12. \A t \in Traders, k \in Tokens :
            t # maker \/ k # B => Purse(work', t, k) = Purse(work, t, k)
  BY <1>2, <1>11 DEF Purse
<1>13. n.data[ctx.seat].trader = m.data[ctx.seat].trader
  BY <1>4, <1>10 DEF SameTraders
<1>14. \A t \in Traders, k \in Tokens : Lent(work', ctx', t, k) = Lent(work, ctx, t, k)
  BY <1>2, <1>13 DEF Lent, VirtualOf
<1> HIDE DEF m, n, taker, maker, A, B
<1>15. /\ A \in Tokens /\ B \in Tokens /\ A # B
       /\ TradeMoves(work.m, work'.m, taker, maker, A, B)
  BY <1>6, <1>10 DEF m, n
<1>16. QED
  BY <1>3, <1>12, <1>14, <1>15

\* The taker is told that more was traded.
InTrade == ctx.phase = "match" /\ ctx'.traded # ctx.traded

\* A fill trades some base, as neither order is empty.
LEMMA FillTrades ==
    ASSUME IInv, Fill
    PROVE  ctx'.traded # ctx.traded
<1>1. PICK i \in Index : FilledBy(i)
  BY FillEffect
<1> DEFINE order == work.m.data[i]
           trade == Trade(i)
<1>2. /\ IsMaker(i) /\ IsMatch(i) /\ order \in RestingOrders
      /\ trade.base \in Nat
      /\ ctx'.traded = [base |-> ctx.traded["base"] + trade.base,
                        quote |-> ctx.traded["quote"] + trade.quote]
  BY <1>1 DEF FilledBy
<1>3. ctx.phase = "match" /\ ctx.remaining > 0 /\ order.base # 0
  BY <1>2 DEF IsMaker, IsMatch, IsStale
<1>4. ctx \in Contexts
  BY <1>3, BusySound DEF WorkSound
<1>5. ctx.remaining \in Nat /\ ctx.traded["base"] \in Nat
  BY <1>4 DEF Contexts, Tokens
<1>6. order.base \in Nat
  BY <1>2 DEF RestingOrders
<1>7. trade.base = IF ctx.remaining >= order.base THEN order.base ELSE ctx.remaining
  BY DEF Trade, TradeWith
<1>8. trade.base > 0
  <2> HIDE DEF trade, order
  <2>1. QED
    BY <1>3, <1>5, <1>6, <1>7
<1>9. ctx'.traded["base"] = ctx.traded["base"] + trade.base
  BY <1>2
<1> HIDE DEF trade, order
<1>10. QED
  BY <1>2, <1>5, <1>8, <1>9

\* Two traders who are one exchange nothing; two who differ gain a token each.
LEMMA FillKeeps ==
    ASSUME IInv, Fill, LedgerSound(work, ctx), LedgerSound(work', ctx')
    PROVE  AllKeep \/ (InTrade /\ SomeTokenKeeps /\ SumsKeep)
<1>1. InTrade /\ SumsKeep
  BY FillMoves, FillTrades, StepSums DEF InTrade
<1>2. PICK taker, maker : \E A, B \in Tokens :
        /\ A # B /\ TradeMoves(work.m, work'.m, taker, maker, A, B)
        /\ \A t \in Traders, k \in Tokens :
                t # maker \/ k # B => Purse(work', t, k) = Purse(work, t, k)
        /\ \A t \in Traders, k \in Tokens : Lent(work', ctx', t, k) = Lent(work, ctx, t, k)
  BY FillMoves
<1>3. PICK A \in Tokens, B \in Tokens :
        /\ A # B /\ TradeMoves(work.m, work'.m, taker, maker, A, B)
        /\ \A t \in Traders, k \in Tokens :
                t # maker \/ k # B => Purse(work', t, k) = Purse(work, t, k)
        /\ \A t \in Traders, k \in Tokens : Lent(work', ctx', t, k) = Lent(work, ctx, t, k)
  BY <1>2
<1>4. CASE taker = maker
  <2>1. ChangesOnlyOf(work.m, work'.m, maker)
    BY <1>3, <1>4 DEF TradeMoves, ChangesOnlyOf
  <2>2. SamePurses(work, work', maker) /\ SameLoans(work, ctx, work', ctx', maker)
    BY <1>3 DEF SamePurses, SameLoans
  <2>3. OthersKeep(work, ctx, work', ctx', maker)
    BY <2>1, <2>2, OthersKept
  <2>4. QED
    BY <2>3, StepKeeps
<1>5. CASE taker # maker
  <2>1. ASSUME NEW t \in Traders
        PROVE  \E k \in Tokens : Own(work', ctx', t, k) >= Own(work, ctx, t, k)
    <3> DEFINE k == IF t = maker THEN A ELSE B
    <3>1. k \in Tokens /\ Purse(work', t, k) = Purse(work, t, k)
          /\ Lent(work', ctx', t, k) = Lent(work, ctx, t, k)
      BY <1>3
    <3>2. OnMarket(work'.m, t, k) >= OnMarket(work.m, t, k)
      <4>1. CASE t = maker \/ t = taker
        BY <1>3, <1>5, <4>1 DEF TradeMoves
      <4>2. CASE t # maker /\ t # taker
        <5>1. OnMarket(work'.m, t, B) = OnMarket(work.m, t, B)
          BY <1>3, <4>2 DEF TradeMoves
        <5>2. OnMarket(work.m, t, B) \in Int
          BY OwnParts
        <5>3. QED
          BY <4>2, <5>1, <5>2
      <4>3. QED
        BY <4>1, <4>2
    <3> HIDE DEF k
    <3>3. QED
      BY <3>1, <3>2, OwnsMore
  <2>2. SomeTokenKeeps
    BY <2>1, StepSomeToken
  <2>3. QED
    BY <1>1, <2>2
<1>6. QED
  BY <1>4, <1>5

-----------------------------------------------------------------------------
(* Value, step by step. *)

\* A step that is neither a trade nor a failure changes one trader's property at
\* most, and so nobody's.
LEMMA OneActorSteps ==
    ASSUME IInv, \/ MarketArrival \/ GlobalArrival \/ TradeArrival
                 \/ QuietProgress \/ FinishOrder \/ FinishSwap
    PROVE  OneActor
<1>1. CASE MarketArrival
  <2>1. \/ QuietMarketArrival
        \/ \E trader \in Traders, token \in Tokens, atoms \in Amounts :
            Deposit(trader, token, atoms) \/ Withdraw(trader, token, atoms)
    BY <1>1 DEF MarketArrival, QuietMarketArrival
  <2>2. CASE QuietMarketArrival
    BY <2>2, QuietMarketKeeps
  <2>3. CASE \E trader \in Traders, token \in Tokens, atoms \in Amounts :
                Deposit(trader, token, atoms) \/ Withdraw(trader, token, atoms)
    <3>1. PICK trader \in Traders, token \in Tokens, atoms \in Amounts :
                Deposit(trader, token, atoms) \/ Withdraw(trader, token, atoms)
      BY <2>3
    <3>2. atoms \in Nat
      BY ManifestAssumption
    <3>3. QED
      BY <3>1, <3>2, BalanceKeeps
  <2>4. QED
    BY <2>1, <2>2, <2>3
<1>2. CASE GlobalArrival
  <2>1. \/ QuietGlobalArrival
        \/ \E trader \in Traders, token \in Tokens, atoms \in Amounts :
            \/ GlobalDeposit(trader, token, atoms)
            \/ GlobalWithdraw(trader, token, atoms)
            \/ \E evictee \in Traders : GlobalEvict(trader, evictee, token, atoms)
    BY <1>2 DEF GlobalArrival, QuietGlobalArrival
  <2>2. CASE QuietGlobalArrival
    BY <2>2, QuietGlobalKeeps
  <2>3. CASE \E trader \in Traders, token \in Tokens, atoms \in Amounts :
                \/ GlobalDeposit(trader, token, atoms)
                \/ GlobalWithdraw(trader, token, atoms)
                \/ \E evictee \in Traders : GlobalEvict(trader, evictee, token, atoms)
    <3>1. PICK trader \in Traders, token \in Tokens, atoms \in Amounts :
                \/ GlobalDeposit(trader, token, atoms)
                \/ GlobalWithdraw(trader, token, atoms)
                \/ \E evictee \in Traders : GlobalEvict(trader, evictee, token, atoms)
      BY <2>3
    <3>2. atoms \in Nat
      BY ManifestAssumption
    <3>3. QED
      BY <3>1, <3>2, GlobalBalanceKeeps
  <2>4. QED
    BY <2>1, <2>2, <2>3
<1>3. CASE TradeArrival
  BY <1>3, TradeArrivalKeeps
<1>4. CASE QuietProgress
  BY <1>4, QuietProgressKeeps
<1>5. CASE FinishOrder \/ FinishSwap
  BY <1>5, FinishOrderKeeps, FinishSwapKeeps
<1>6. QED
  BY <1>1, <1>2, <1>3, <1>4, <1>5

\* An instruction that fails leaves the accounts as they were before it.
Reverted == ctx.phase # "idle" /\ ctx' = Idle /\ accounts' = accounts

LEMMA FailureReverts ==
    ASSUME \/ CancelFails \/ PrepayGasFails \/ BeginOrderFails \/ FillFails
           \/ PlaceReverseFails \/ FinishOrderFails \/ EstimateFails \/ FinishSwapFails
    PROVE  Reverted
<1>1. Abort
  BY DEF CancelFails, PrepayGasFails, BeginOrderFails, FillFails,
         PlaceReverseFails, FinishOrderFails, EstimateFails, FinishSwapFails
<1>2. ctx.phase # "idle"
  BY DEF CancelFails, PrepayGasFails, BeginOrderFails, FillFails, PlaceReverseFails,
         FinishOrderFails, EstimateFails, FinishSwapFails, SwapOrderDone, IsMaker,
         Walked, Counts
<1>3. QED
  BY <1>1, <1>2 DEF Abort, Reverted

LEMMA StillKeeps ==
    ASSUME work' = work, ctx' = ctx
    PROVE  AllKeep
<1>1. SUFFICES ASSUME NEW CONSTANT trader \in Traders, NEW CONSTANT token \in Tokens
               PROVE  Owned(trader, token)' = Owned(trader, token)
  BY DEF AllKeep
<1>2. Owned(trader, token) = Own(work, ctx, trader, token)
  BY OwnedIs
<1>3. Owned(trader, token)' = Own(work', ctx', trader, token)
  BY OwnedNext
<1>4. QED
  BY <1>2, <1>3

LEMMA NextMoves ==
    ASSUME IInv, LedgerSound(work, ctx), LedgerSound(work', ctx'), [Next]_vars
    PROVE  Reverted \/ AllKeep \/ (InTrade /\ SomeTokenKeeps /\ SumsKeep)
<1>1. CASE \/ MarketArrival \/ GlobalArrival \/ TradeArrival
           \/ QuietProgress \/ FinishOrder \/ FinishSwap
  <2>1. PICK actor : OthersKeep(work, ctx, work', ctx', actor)
    BY <1>1, OneActorSteps DEF OneActor
  <2>2. QED
    BY <2>1, StepKeeps
<1>2. CASE Fill
  BY <1>2, FillKeeps
<1>3. CASE \/ CancelFails \/ PrepayGasFails \/ BeginOrderFails \/ FillFails
           \/ PlaceReverseFails \/ FinishOrderFails \/ EstimateFails \/ FinishSwapFails
  BY <1>3, FailureReverts
<1>4. CASE AdvanceSlot \/ UNCHANGED vars
  <2>1. work' = work /\ ctx' = ctx
    BY <1>4 DEF AdvanceSlot, vars
  <2>2. QED
    BY <2>1, StillKeeps
<1>5. QED
  BY <1>1, <1>2, <1>3, <1>4 DEF Next, Progress, QuietProgress

\* However many traders there are and whatever they send, only a fill, which adds to
\* what the taker has traded, changes what somebody owns in wallet, deposit, seat and
\* orders together; it takes both tokens from nobody and leaves their sums over the
\* traders.  No order that the loop removes without a trade costs its owner an atom.
\* A failed instruction leaves the accounts as they were.
THEOREM ValueMovesOnlyInTrades == Spec => ValueMovesByTradesOnly
<1>1. Init => IInv /\ DepositsInv /\ SupplyInv
  BY InitSound, InitDeposits, InitSupply
<1>2. IInv /\ DepositsInv /\ SupplyInv /\ [Next]_vars => (IInv /\ DepositsInv /\ SupplyInv)'
  BY NextSound, NextDeposits, NextSupply
<1> DEFINE Moves ==
              \/ ctx.phase # "idle" /\ ctx' = Idle /\ accounts' = accounts
              \/ \A trader \in Traders, token \in Tokens :
                    Owned(trader, token)' = Owned(trader, token)
              \/ /\ ctx.phase = "match" /\ ctx'.traded # ctx.traded
                 /\ \A trader \in Traders : \E token \in Tokens :
                        Owned(trader, token)' >= Owned(trader, token)
                 /\ \A token \in Tokens :
                        SumFunctionOnSet([t \in Traders |-> Owned(t, token)'], Traders)
                            = SumFunctionOnSet([t \in Traders |-> Owned(t, token)], Traders)
<1>3. IInv /\ DepositsInv /\ SupplyInv => LedgerSound(work, ctx)
  BY LedgerHolds
<1>4. LedgerSound(work, ctx)' => LedgerSound(work', ctx')
  BY LedgerNext
<1>5. IInv /\ LedgerSound(work, ctx) /\ LedgerSound(work', ctx') /\ [Next]_vars => Moves
  <2> SUFFICES ASSUME IInv, LedgerSound(work, ctx), LedgerSound(work', ctx'), [Next]_vars
               PROVE  Moves
    OBVIOUS
  <2>1. Reverted \/ AllKeep \/ (InTrade /\ SomeTokenKeeps /\ SumsKeep)
    BY NextMoves
  <2>2. QED
    BY <2>1 DEF Reverted, AllKeep, InTrade, SomeTokenKeeps, SumsKeep
<1> HIDE DEF Moves
<1>6. Spec => [][Moves]_vars
  BY <1>1, <1>2, <1>3, <1>4, <1>5, PTL DEF Spec
<1>7. QED
  BY <1>6, PTL DEF ValueMovesByTradesOnly, Moves

-----------------------------------------------------------------------------
(* Seats that stay. *)

\* An instruction takes no seat away from those who had one before it; the seat
\* it may have to give back is its own.
SeatInv ==
    /\ SeatsStay(accounts.m, work.m)
    /\ ctx.temp => ctx.seat \notin SeatIndices(accounts.m)

LEMMA SeatsStaySame ==
    ASSUME NEW m, NEW n, SameTraders(m, n) \/ SameSeats(m, n) \/ SameBlocks(m, n) \/ m = n
    PROVE  SeatsStay(m, n)
BY DEF SeatsStay, SameTraders, SameSeats, SameBlocks

LEMMA SeatsStayTwice ==
    ASSUME NEW m, NEW n, NEW k, SeatsStay(m, n), SeatsStay(n, k)
    PROVE  SeatsStay(m, k)
BY DEF SeatsStay

\* The instruction goes on.
LEMMA StepSeats ==
    ASSUME SeatInv, SeatsStay(work.m, work'.m), accounts' = accounts,
           ctx'.temp = ctx.temp, ctx'.seat = ctx.seat
    PROVE  SeatInv' /\ SeatsStay(accounts.m, accounts'.m)
BY SeatsStayTwice DEF SeatInv, SeatsStay

\* It ends, or one of a single step was carried out.
LEMMA CommitSeats ==
    ASSUME NEW a, SeatsStay(accounts.m, a.m), Commit(a)
    PROVE  SeatInv' /\ SeatsStay(accounts.m, accounts'.m)
BY DEF SeatInv, SeatsStay, Commit, Idle

LEMMA AbortSeats ==
    ASSUME Abort
    PROVE  SeatInv' /\ SeatsStay(accounts.m, accounts'.m)
BY DEF SeatInv, SeatsStay, Abort, Idle

LEMMA ClaimSeats ==
    ASSUME NEW m, MarketSound(m), HasFreeBlock(m), NEW trader \in Traders
    PROVE  SeatsStay(m, ClaimSeatOn(m, trader))
BY ClaimSeatSound DEF SeatsStay

LEMMA MarketArrivalSeats ==
    ASSUME IInv, MarketArrival
    PROVE  SeatInv' /\ SeatsStay(accounts.m, accounts'.m)
<1>1. ctx = Idle
  BY OneStep
<1>2. /\ MarketSound(accounts.m) /\ accounts \in Accounts
      /\ HasFreeBlock(accounts.m)
  BY <1>1, IdleSound DEF AccountsSound
<1>3. ASSUME NEW m, NEW vault, NEW wallet, SeatsStay(accounts.m, m),
             Commit([accounts EXCEPT !.m = m, !.vault = vault, !.wallet = wallet])
      PROVE  SeatInv' /\ SeatsStay(accounts.m, accounts'.m)
  <2> DEFINE a == [accounts EXCEPT !.m = m, !.vault = vault, !.wallet = wallet]
  <2>1. a.m = m
    BY <1>2 DEF Accounts
  <2> HIDE DEF a
  <2>2. Commit(a) /\ SeatsStay(accounts.m, a.m)
    BY <1>3, <2>1 DEF a
  <2>3. QED
    BY <2>2, CommitSeats
<1>4. ASSUME NEW m, SeatsStay(accounts.m, m), Commit([accounts EXCEPT !.m = m])
      PROVE  SeatInv' /\ SeatsStay(accounts.m, accounts'.m)
  <2>1. [accounts EXCEPT !.m = m].m = m
    BY <1>2 DEF Accounts
  <2>2. QED
    BY <1>4, <2>1, CommitSeats
<1>5. ASSUME NEW trader \in Traders, ClaimSeat(trader)
      PROVE  SeatInv' /\ SeatsStay(accounts.m, accounts'.m)
  <2> DEFINE claimed == ClaimSeatOn(accounts.m, trader)
             m == ExpandIfNeeded(claimed)
  <2>1. HasFreeBlock(accounts.m) /\ CanExpandIfNeeded(claimed) /\ Commit([accounts EXCEPT !.m = m])
    BY <1>5 DEF ClaimSeat
  <2>2. MarketSound(claimed) /\ SeatsStay(accounts.m, claimed)
    BY <1>2, <2>1, ClaimSeatSound, ClaimSeats
  <2> HIDE DEF claimed
  <2>3. SeatsStay(claimed, m)
    BY <2>1, <2>2, ExpandIfNeededSound, SeatsStaySame
  <2> HIDE DEF m
  <2>4. QED
    BY <1>4, <2>1, <2>2, <2>3, SeatsStayTwice
<1>6. ASSUME NEW trader \in Traders, NEW token \in Tokens, NEW atoms \in Amounts,
             Deposit(trader, token, atoms) \/ Withdraw(trader, token, atoms)
      PROVE  SeatInv' /\ SeatsStay(accounts.m, accounts'.m)
  <2> DEFINE seat == GetTraderIndex(accounts.m, trader)
  <2>1. atoms \in Nat
    BY ManifestAssumption
  <2>2. PICK delta \in Int : /\ seat # NIL /\ CanUpdateBalance(accounts.m, seat, token, delta)
                             /\ \E vault, wallet :
                                 Commit([accounts EXCEPT !.m = UpdateBalance(accounts.m, seat, token, delta),
                                                         !.vault = vault, !.wallet = wallet])
    <3>1. CASE Deposit(trader, token, atoms)
      <4> DEFINE vault == [accounts.vault EXCEPT ![token] = @ + atoms]
                 wallet == [accounts.wallet EXCEPT ![trader][token] = @ - atoms]
                 next == [accounts EXCEPT !.m = UpdateBalance(accounts.m, seat, token, atoms),
                                          !.vault = vault, !.wallet = wallet]
      <4>1. seat # NIL /\ CanUpdateBalance(accounts.m, seat, token, atoms) /\ Commit(next)
        BY <1>2, <2>1, <3>1 DEF Deposit, Accounts
      <4>2. atoms \in Int
        BY <2>1
      <4> HIDE DEF seat, vault, wallet
      <4>3. \E v, w : Commit([accounts EXCEPT !.m = UpdateBalance(accounts.m, seat, token, atoms),
                                              !.vault = v, !.wallet = w])
        BY <4>1
      <4> HIDE DEF next
      <4>4. QED
        BY <4>1, <4>2, <4>3
    <3>2. CASE Withdraw(trader, token, atoms)
      <4>1. - atoms \in Int
        BY <2>1
      <4>2. QED
        BY <1>2, <3>2, <4>1 DEF Withdraw, Accounts
    <3>3. QED
      BY <1>6, <3>1, <3>2
  <2>3. seat \in SeatIndices(accounts.m)
    BY <1>2, <2>2, TraderIndexSound
  <2> HIDE DEF seat
  <2>4. SeatsStay(accounts.m, UpdateBalance(accounts.m, seat, token, delta))
    BY <1>2, <2>2, <2>3, UpdateBalanceSound, SeatsStaySame DEF CanUpdateBalance
  <2>5. QED
    BY <1>3, <2>2, <2>4
<1>7. ASSUME NEW n \in Nat, accounts.m.num + n <= MAX_BLOCKS,
             Commit([accounts EXCEPT !.m = ExpandBy(@, n)])
      PROVE  SeatInv' /\ SeatsStay(accounts.m, accounts'.m)
  <2>1. SeatsStay(accounts.m, ExpandBy(accounts.m, n))
    BY <1>2, <1>7, ExpandBySound, SeatsStaySame
  <2>2. QED
    BY <1>4, <1>7, <2>1
<1>8. CASE Expand
  <2>1. accounts.m.num + 1 <= MAX_BLOCKS /\ Commit([accounts EXCEPT !.m = ExpandBy(@, 1)])
    BY <1>2, <1>8, MarketAssumption DEF Expand, MarketSound, Markets
  <2>2. QED
    BY <1>7, <2>1
<1>9. ASSUME NEW n \in 0 .. MaxExpand, ExpandTo(n)
      PROVE  SeatInv' /\ SeatsStay(accounts.m, accounts'.m)
  <2> DEFINE missing == FreeBlocksShortOfN(accounts.m, n)
  <2>1. /\ missing # NIL /\ accounts.m.num + missing <= MAX_BLOCKS
        /\ Commit([accounts EXCEPT !.m = ExpandBy(@, missing)])
    BY <1>9 DEF ExpandTo
  <2>2. missing \in Nat
    BY <1>2, <2>1 DEF FreeBlocksShortOfN, MarketSound, Markets
  <2> HIDE DEF missing
  <2>3. QED
    BY <1>7, <2>1, <2>2
<1>10. QED
  BY <1>5, <1>6, <1>8, <1>9 DEF MarketArrival

LEMMA GlobalArrivalSeats ==
    ASSUME IInv, GlobalArrival
    PROVE  SeatInv' /\ SeatsStay(accounts.m, accounts'.m)
<1>1. ctx = Idle
  BY OneStep
<1>2. MarketSound(accounts.m) /\ accounts \in Accounts
  BY <1>1, IdleSound DEF AccountsSound
<1>3. ASSUME NEW i \in Index, GlobalClean(i)
      PROVE  SeatInv' /\ SeatsStay(accounts.m, accounts'.m)
  <2> DEFINE order == accounts.m.data[i]
             token == Backing(order.is_bid)
             glob == [accounts.glob EXCEPT ![token].gas = IF order.type = "Global" THEN @ - 1 ELSE @]
             m == ReturnOrder(accounts.m, i)
             a == [accounts EXCEPT !.m = m, !.glob = glob]
  <2>1. Commit(a)
    BY <1>2, <1>3 DEF GlobalClean, Accounts
  <2>2. i \in OrderIndices(accounts.m) /\ CanReturnOrder(accounts.m, i)
    BY <1>3 DEF GlobalClean, CanCancelOrder
  <2> HIDE DEF glob
  <2>3. SeatsStay(accounts.m, m)
    BY <1>2, <2>2, ReturnOrderSound, SeatsStaySame
  <2> HIDE DEF m
  <2>4. a.m = m
    BY <1>2 DEF Accounts
  <2> HIDE DEF a
  <2>5. QED
    BY <2>1, <2>3, <2>4, CommitSeats
<1>4. CASE \E glob, wallet : Commit([accounts EXCEPT !.glob = glob, !.wallet = wallet])
  <2>1. PICK glob, wallet : Commit([accounts EXCEPT !.glob = glob, !.wallet = wallet])
    BY <1>4
  <2>2. [accounts EXCEPT !.glob = glob, !.wallet = wallet].m = accounts.m
    BY <1>2 DEF Accounts
  <2>3. SeatsStay(accounts.m, [accounts EXCEPT !.glob = glob, !.wallet = wallet].m)
    BY <2>2, SeatsStaySame
  <2>4. QED
    BY <2>1, <2>3, CommitSeats
<1>5. QED
  BY <1>3, <1>4, GlobalArrivalCommit DEF GlobalArrival

LEMMA SwapSeats ==
    ASSUME IInv, NEW trader \in Traders, NEW swap \in Swaps[trader],
           NEW globals \in GlobalsPassed, Swap(trader, swap, globals)
    PROVE  SeatInv' /\ SeatsStay(accounts.m, accounts'.m)
<1> DEFINE existing == GetTraderIndex(accounts.m, trader)
           seated == IF existing = NIL THEN ClaimSeatOn(accounts.m, trader) ELSE accounts.m
           m == ExpandIfNeeded(seated)
           seat == GetTraderIndex(m, trader)
           token == InToken(swap)
           n == UpdateBalance(m, seat, token, swap.in)
           w == [work EXCEPT !.m = n]
<1>1. /\ ctx = Idle /\ CanExpandIfNeeded(seated)
      /\ CanUpdateBalance(m, seat, token, swap.in)
      /\ existing = NIL => HasFreeBlock(accounts.m)
  BY DEF Swap
<1>2. /\ accounts' = accounts /\ work' = w /\ ctx'.seat = seat
      /\ ctx'.temp => existing = NIL
  BY DEF Swap, Step, Idle
<1>3. AccountsSound(accounts) /\ work = accounts /\ accounts \in Accounts /\ MarketSound(accounts.m)
  BY <1>1, IdleSound DEF AccountsSound
<1>4. MarketSound(m) /\ seat \in SeatIndices(m)
  BY <1>1, <1>3, SwapSeated
<1>5. MarketSound(seated) /\ SeatsStay(accounts.m, seated)
  BY <1>1, <1>3, ClaimSeatSound, ClaimSeats, SeatsStaySame
<1>6. existing = NIL => \A i \in SeatIndices(accounts.m) : accounts.m.data[i].trader # trader
  BY <1>3, TraderIndexSound DEF AccountsSound
<1> HIDE DEF existing, seated
<1>7. SeatsStay(seated, m)
  BY <1>1, <1>5, ExpandIfNeededSound, SeatsStaySame
<1>8. m.data[seat].trader = trader
  <2>1. NIL \notin SeatIndices(m)
    BY DEF SeatIndices, NIL, Index
  <2>2. QED
    BY <1>4, <2>1, TraderIndexSound
<1> HIDE DEF m, seat
<1>9. SeatsStay(m, n)
  <2>1. swap.in \in Nat /\ token \in Tokens
    <3>1. swap \in SwapArgs
      BY ManifestAssumption
    <3>2. QED
      BY <3>1 DEF SwapArgs, InToken, Backing, Tokens
  <2>2. m.data[seat].bal[token] + swap.in >= 0 /\ swap.in \in Int
    BY <1>1, <2>1 DEF CanUpdateBalance
  <2>3. QED
    BY <1>4, <2>1, <2>2, UpdateBalanceSound, SeatsStaySame
<1> HIDE DEF n
<1>10. w.m = n
  BY <1>3 DEF Accounts
<1> HIDE DEF w
<1>11. SeatsStay(accounts.m, m) /\ SeatsStay(accounts.m, n)
  BY <1>5, <1>7, <1>9, SeatsStayTwice
<1>12. existing = NIL => seat \notin SeatIndices(accounts.m)
  BY <1>6, <1>8, <1>11 DEF SeatsStay
<1>13. QED
  BY <1>2, <1>10, <1>11, <1>12, SeatsStaySame DEF SeatInv
LEMMA FilledTraders ==
    ASSUME IInv, NEW i \in Index, FilledBy(i)
    PROVE  SameTraders(work.m, work'.m)
<1> DEFINE order == work.m.data[i]
           trade == Trade(i)
           is_bid == ctx.args.is_bid
           n == work'.m
<1>1. /\ IsMaker(i) /\ IsMatch(i) /\ CanFill(i)
      /\ i \in OrderIndices(work.m) /\ order.is_bid = ~ is_bid
      /\ n = Traded(work.m, ctx.seat, i, is_bid, trade)
  BY DEF FilledBy
<1>2. ctx.phase # "idle"
  BY <1>1 DEF IsMaker
<1>3. /\ MarketSound(work.m) /\ ctx \in Contexts /\ ctx.seat \in SeatIndices(work.m)
  BY <1>2, BusySound DEF WorkSound
<1>4. is_bid \in BOOLEAN /\ ctx.remaining \in Nat
  BY <1>3 DEF Contexts, OrderArgs
<1>5. trade = TradeWith(order, is_bid, ctx.remaining)
  BY DEF Trade
<1>6. CanTrade(work.m, ctx.seat, order, is_bid, trade)
  BY <1>1 DEF CanFill
<1>7. IsTraded(work.m, n, ctx.seat, i, order, is_bid, ctx.remaining, trade)
  BY <1>1, <1>3, <1>4, <1>5, <1>6 DEF IsTraded
<1> HIDE DEF order, trade, is_bid
<1>8. QED
  BY <1>3, <1>7, TradedSound

LEMMA FinishOrderTraders ==
    ASSUME IInv, FinishOrder
    PROVE  SeatsStay(work.m, work'.m)
<1> DEFINE after == AfterRest
           m == IF ctx.kind = "batch" THEN ExpandIfNeeded(after) ELSE after
<1>1. /\ CanFinishOrder /\ work \in Accounts /\ ctx \in Contexts /\ MarketSound(work.m)
      /\ ctx.seat \in SeatIndices(work.m)
  BY FinishOrderEffect
<1>2. work'.m = m
  BY <1>1 DEF FinishOrder, Step, Accounts
<1>3. MarketSound(after) /\ SeatsStay(work.m, after)
  <2>1. CASE Rests
    <3>1. CanRestOn(work.m) /\ after = Rested(work.m)
      BY <1>1, <2>1 DEF CanFinishOrder, AfterRest
    <3>2. QED
      BY <1>1, <3>1, RestedSound, SeatsStaySame
  <2>2. CASE ~ Rests
    BY <1>1, <2>2, SeatsStaySame DEF AfterRest
  <2>3. QED
    BY <2>1, <2>2
<1>4. ctx.kind = "batch" => CanExpandIfNeeded(after)
  BY <1>1 DEF CanFinishOrder
<1> HIDE DEF after
<1>5. SeatsStay(after, m)
  <2>1. CASE ctx.kind = "batch"
    BY <1>3, <1>4, <2>1, ExpandIfNeededSound, SeatsStaySame
  <2>2. CASE ctx.kind # "batch"
    BY <2>2, SeatsStaySame
  <2>3. QED
    BY <2>1, <2>2
<1> HIDE DEF m
<1>6. QED
  BY <1>2, <1>3, <1>5, SeatsStayTwice

\* A swap gives back its temporary seat and no other.
LEMMA SettledTraders ==
    ASSUME SeatInv, WorkSound(work, ctx), ctx.phase = "next", \A t \in Tokens : Extra(t) >= 0
    PROVE  SeatsStay(accounts.m, SeatSettled)
<1>1. MarketSound(work.m) /\ ctx \in Contexts /\ ctx.seat \in SeatIndices(work.m)
  BY DEF WorkSound
<1>2. CASE ctx.temp
  <2>1. /\ SeatIndices(SeatSettled) = SeatIndices(work.m) \ {ctx.seat}
        /\ \A j \in SeatIndices(SeatSettled) :
                SeatSettled.data[j].trader = work.m.data[j].trader
    BY <1>2, SeatSettledSound
  <2>2. QED
    BY <1>2, <2>1 DEF SeatInv, SeatsStay
<1>3. CASE ~ ctx.temp
  <2> DEFINE m1 == UpdateBalance(work.m, ctx.seat, "base", - Extra("base"))
             m2 == UpdateBalance(m1, ctx.seat, "quote", - Extra("quote"))
  <2>1. SeatSettled = m2
    BY <1>3 DEF SeatSettled
  <2>2. /\ "base" \in Tokens /\ "quote" \in Tokens
        /\ \A t \in Tokens : /\ work.m.data[ctx.seat].bal[t] \in Nat /\ ctx.initial[t] \in Nat
    <3>1. \A t \in Tokens : work.m.data[ctx.seat].bal[t] \in Nat
      BY <1>1, SeatTyped DEF Seats, MarketSound
    <3>2. QED
      BY <1>1, <3>1 DEF Contexts, Tokens
  <2>3. /\ - Extra("base") \in Int /\ work.m.data[ctx.seat].bal["base"] + (- Extra("base")) >= 0
        /\ - Extra("quote") \in Int /\ work.m.data[ctx.seat].bal["quote"] + (- Extra("quote")) >= 0
    BY <2>2 DEF Extra
  <2>4. /\ MarketSound(m1) /\ SameBlocks(work.m, m1)
        /\ m1.data[ctx.seat].bal["quote"] = work.m.data[ctx.seat].bal["quote"]
    <3>1. m1.data[ctx.seat].bal["quote"] = work.m.data[ctx.seat].bal["quote"]
                + (IF ctx.seat = ctx.seat /\ "quote" = "base" THEN - Extra("base") ELSE 0)
      BY <1>1, <2>2, <2>3, UpdateBalanceSound
    <3>2. work.m.data[ctx.seat].bal["quote"] \in Nat
      BY <2>2
    <3>3. m1.data[ctx.seat].bal["quote"] = work.m.data[ctx.seat].bal["quote"]
      BY <3>1, <3>2
    <3>4. QED
      BY <1>1, <2>2, <2>3, <3>3, UpdateBalanceSound
  <2> HIDE DEF m1
  <2>5. ctx.seat \in SeatIndices(m1)
    BY <1>1, <2>4 DEF SameBlocks
  <2>6. SameBlocks(m1, m2)
    BY <2>2, <2>3, <2>4, <2>5, UpdateBalanceSound
  <2> HIDE DEF m2
  <2>7. QED
    BY <2>1, <2>4, <2>6, SeatsStaySame, SeatsStayTwice DEF SeatInv
<1>4. QED
  BY <1>2, <1>3

LEMMA ProgressSeats ==
    ASSUME IInv, SeatInv, Progress
    PROVE  SeatInv' /\ SeatsStay(accounts.m, accounts'.m)
<1>1. work \in Accounts /\ ctx \in Contexts
  <2>1. CASE ctx.phase = "idle"
    BY <2>1, NothingTyped DEF IInv, AccountsSound
  <2>2. CASE ctx.phase # "idle"
    BY <2>2, BusySound DEF WorkSound
  <2>3. QED
    BY <2>1, <2>2
<1>2. CASE CancelOrder \/ CleanStaleMaker \/ CleanUnbackedMaker
  <2>1. PICK i \in OrderIndices(work.m) : ReturnedBy(i)
    BY <1>2, ReturnEffect
  <2>2. MarketSound(work.m)
    BY <2>1, BusySound DEF ReturnedBy, WorkSound
  <2>3. SeatsStay(work.m, work'.m)
    BY <2>1, <2>2, ReturnOrderSound, SeatsStaySame DEF ReturnedBy
  <2>4. QED
    BY <2>1, <2>3, StepSeats DEF ReturnedBy, SameOrderPlaced
<1>3. CASE PrepayGas
  <2>1. work'.m = work.m /\ accounts' = accounts /\ ctx'.temp = ctx.temp /\ ctx'.seat = ctx.seat
    BY <1>1, <1>3 DEF PrepayGas, Step, Accounts, Contexts
  <2>2. QED
    BY <2>1, SeatsStaySame, StepSeats
<1>4. CASE BeginOrder
  <2>1. SeatsStay(work.m, work'.m)
    BY <1>4, BeginOrderEffect DEF SeatsStay, SeatIndices
  <2>2. QED
    BY <1>4, <2>1, BeginOrderEffect, StepSeats
<1>5. CASE Fill
  <2>1. PICK i \in Index : FilledBy(i)
    BY <1>5, FillEffect
  <2>2. SeatsStay(work.m, work'.m)
    BY <1>5, <2>1, FilledTraders, SeatsStaySame
  <2>3. QED
    BY <2>1, <2>2, StepSeats DEF FilledBy
<1>6. CASE PlaceReverse
  <2>1. PICK i \in ReverseTargets :
             /\ CanReverse(work.m, i, ctx.reversal, ctx.args.is_bid)
             /\ MarketSound(work.m)
             /\ work'.m = Reversed(work.m, i, ctx.reversal, ctx.args.is_bid)
             /\ ctx.phase = "reverse"
             /\ ctx' = [ctx EXCEPT !.phase = "match", !.reversal = NoReversal]
             /\ accounts' = accounts
    BY <1>6, PlaceReverseEffect
  <2>2. /\ ctx.reversal.trader_index \in SeatIndices(work.m)
        /\ ctx.reversal \in Reversals /\ ctx.args \in OrderArgs
    BY <1>1, <2>1, BusySound DEF WorkSound, Contexts
  <2>3. SeatsStay(work.m, work'.m)
    BY <2>1, <2>2, ReversedSound, SeatsStaySame DEF Reversals, OrderArgs, ReverseTargets
  <2>4. ctx'.temp = ctx.temp /\ ctx'.seat = ctx.seat
    BY <1>1, <2>1 DEF Contexts
  <2>5. QED
    BY <2>1, <2>3, <2>4, StepSeats
<1>7. CASE StopMatching
  <2>1. QED
    BY <1>7, StopMatchingEffect, SeatsStaySame, StepSeats DEF SameOrderPlaced
<1>8. CASE WalkPast \/ CountMaker \/ StopWalking
  <2>1. QED
    BY <1>8, WalkEffect, SeatsStaySame, StepSeats DEF SameOrderPlaced
<1>9. CASE FinishOrder
  <2>1. SeatsStay(work.m, work'.m)
    BY <1>9, FinishOrderTraders
  <2>2. ctx'.temp = ctx.temp /\ ctx'.seat = ctx.seat /\ accounts' = accounts
    BY <1>1, <1>9 DEF FinishOrder, Step, Contexts
  <2>3. QED
    BY <2>1, <2>2, StepSeats
<1>10. CASE FinishBatch
  <2> DEFINE glob == [token \in Tokens |->
                        [work.glob[token] EXCEPT !.gas = @ - ctx.refunds[token]]]
             a == [work EXCEPT !.glob = glob]
  <2>1. Commit(a)
    BY <1>10 DEF FinishBatch
  <2> HIDE DEF glob
  <2>2. a.m = work.m
    BY <1>1 DEF Accounts
  <2> HIDE DEF a
  <2>3. QED
    BY <2>1, <2>2, CommitSeats DEF SeatInv
<1>11. CASE FinishSwap
  <2> DEFINE in == InToken(ctx.swap)
             out == OutToken(ctx.swap)
             vault == [work.vault EXCEPT ![in] = @ + Consumed, ![out] = @ - Extra(out)]
             wallet == [work.wallet EXCEPT ![Swapper][in] = @ - Consumed,
                                           ![Swapper][out] = @ + Extra(out)]
             a == [work EXCEPT !.m = SeatSettled, !.vault = vault, !.wallet = wallet]
  <2>1. Commit(a) /\ \A t \in Tokens : Extra(t) >= 0
    BY <1>11 DEF FinishSwap, CanFinishSwap
  <2>2. ctx.phase = "next" /\ WorkSound(work, ctx)
    BY <1>11, BusySound DEF FinishSwap, SwapOrderDone
  <2> HIDE DEF vault, wallet
  <2>3. a.m = SeatSettled
    BY <1>1 DEF Accounts
  <2> HIDE DEF a
  <2>4. SeatsStay(accounts.m, SeatSettled)
    BY <2>1, <2>2, SettledTraders
  <2>5. QED
    BY <2>1, <2>3, <2>4, CommitSeats
<1>12. CASE \/ CancelFails \/ PrepayGasFails \/ BeginOrderFails \/ FillFails
            \/ PlaceReverseFails \/ FinishOrderFails \/ EstimateFails \/ FinishSwapFails
  BY <1>12, AbortSeats DEF CancelFails, PrepayGasFails, BeginOrderFails, FillFails,
        PlaceReverseFails, FinishOrderFails, EstimateFails, FinishSwapFails
<1>13. QED
  BY <1>2, <1>3, <1>4, <1>5, <1>6, <1>7, <1>8, <1>9, <1>10, <1>11, <1>12 DEF Progress

LEMMA NextSeats ==
    ASSUME IInv, SeatInv, [Next]_vars
    PROVE  SeatInv' /\ SeatsStay(accounts.m, accounts'.m)
<1>1. CASE MarketArrival \/ GlobalArrival
  BY <1>1, MarketArrivalSeats, GlobalArrivalSeats
<1>2. ASSUME NEW trader, NEW batch, NEW globals, NEW cancels,
             BatchUpdate(trader, batch, globals, cancels)
      PROVE  SeatInv' /\ SeatsStay(accounts.m, accounts'.m)
  <2>1. ctx = Idle /\ work' = work /\ accounts' = accounts /\ ~ ctx'.temp
    BY <1>2 DEF BatchUpdate, Step, Idle
  <2>2. work = accounts
    BY <2>1, IdleSound
  <2>3. QED
    BY <2>1, <2>2 DEF SeatInv, SeatsStay
<1>3. CASE TradeArrival
  <2>1. PICK trader \in Traders, globals \in GlobalsPassed :
            \/ \E batch \in Batches[trader] :
                \E cancels \in [1 .. batch.cancels -> CancelParams(accounts.m)] :
                    BatchUpdate(trader, batch, globals, cancels)
            \/ \E swap \in Swaps[trader] : Swap(trader, swap, globals)
    BY <1>3 DEF TradeArrival
  <2>2. CASE \E batch \in Batches[trader] :
                \E cancels \in [1 .. batch.cancels -> CancelParams(accounts.m)] :
                    BatchUpdate(trader, batch, globals, cancels)
    BY <1>2, <2>2
  <2>3. CASE \E swap \in Swaps[trader] : Swap(trader, swap, globals)
    BY <2>3, SwapSeats
  <2>4. QED
    BY <2>1, <2>2, <2>3
<1>4. CASE AdvanceSlot \/ UNCHANGED vars
  BY <1>4 DEF AdvanceSlot, vars, SeatInv, SeatsStay
<1>5. QED
  BY <1>1, <1>3, <1>4, ProgressSeats DEF Next

\* For any number of traders and blocks, and whatever instructions arrive, whoever
\* has a seat keeps it, at its index: no cancel, eviction, swap or failure of
\* anybody frees or moves it.
THEOREM SeatsNeverLost == Spec => SeatsKept
<1>1. Init => IInv
  BY InitSound
<1>2. Init => SeatInv
  BY DEF Init, Idle, SeatInv, SeatsStay
<1>3. IInv /\ [Next]_vars => IInv'
  BY NextSound
<1>4. IInv /\ SeatInv /\ [Next]_vars => SeatInv' /\ SeatsStay(accounts.m, accounts'.m)
  BY NextSeats
<1> HIDE DEF SeatsStay
<1>5. QED
  BY <1>1, <1>2, <1>3, <1>4, PTL DEF Spec, SeatsKept

-----------------------------------------------------------------------------
(* What a reversal costs. *)

\* What base atoms bought for a quote are worth, is no more than the quote.
LEMMA RoundTrip ==
    ASSUME NEW price \in Nat, NEW quote \in Nat
    PROVE  QuoteForBase(price, BaseForQuote(price, quote, FALSE), TRUE) <= quote
<1> DEFINE base == BaseForQuote(price, quote, FALSE)
           n == D18 * quote
           q == n \div price
           r == n % price
<1>1. D18 \in Nat \ {0} /\ n \in Nat
  BY QuantitiesAssumption
<1>2. CASE price = 0
  <2>1. base = 0
    BY <1>2 DEF BaseForQuote
  <2>2. TRUE \in BOOLEAN
    OBVIOUS
  <2>3. QuoteForBase(price, 0, TRUE) = 0
    BY <2>2, QuoteForNothing
  <2> DEFINE value == QuoteForBase(price, base, TRUE)
  <2>4. value = 0
    BY <2>1, <2>3
  <2> HIDE DEF value
  <2>5. value <= quote
    BY <2>4
  <2>6. QED
    BY <2>5 DEF value
<1>3. CASE price # 0
  <2>1. base = q
    BY <1>3 DEF BaseForQuote, Div
  <2>2. price \in Nat \ {0}
    BY <1>3
  <2> HIDE DEF n
  <2>3. q \in Nat /\ r \in 0 .. (price - 1) /\ n = price * q + r
    BY <1>1, <2>2
  <2> HIDE DEF q, r, base
  <2>4. price * q \in Nat
    BY <2>3
  <2>5. price * q <= D18 * quote
    BY <2>3, <2>4 DEF n
  <2>6. CeilDiv(price * q, D18) <= quote
    BY <1>1, <2>4, <2>5, CeilLeast
  <2>7. QuoteForBase(price, q, TRUE) = CeilDiv(price * q, D18)
    BY DEF QuoteForBase, Div, CeilDiv
  <2>8. QuoteForBase(price, q, TRUE) <= quote
    BY <2>6, <2>7
  <2>9. QED
    BY <2>1, <2>8 DEF base
<1>4. QED
  BY <1>2, <1>3

\* And no fewer base atoms are bought for what some are worth and more.
LEMMA RoundTripBack ==
    ASSUME NEW price \in Nat \ {0}, NEW base \in Nat, NEW more \in Nat
    PROVE  base <= BaseForQuote(price, QuoteForBase(price, base, TRUE) + more, FALSE)
<1> DEFINE quote == QuoteForBase(price, base, TRUE)
           n == D18 * (quote + more)
<1>1. D18 \in Nat \ {0} /\ quote \in Nat /\ price * base \in Nat
  <2>1. price \in Nat /\ TRUE \in BOOLEAN
    OBVIOUS
  <2>2. quote \in Nat
    BY <2>1, QuoteForBaseNat
  <2>3. price * base \in Nat
    BY <2>1
  <2>4. QED
    BY <2>2, <2>3, QuantitiesAssumption
<1>2. quote = CeilDiv(price * base, D18)
  BY DEF QuoteForBase, Div, CeilDiv
<1> HIDE DEF quote
<1>3. price * base <= D18 * quote
  BY <1>1, <1>2, CeilLeast
<1>4. D18 * (quote + more) = D18 * quote + D18 * more /\ D18 * more \in Nat /\ D18 * quote \in Nat
  BY <1>1
<1>5. n \in Nat /\ price * base <= n
  BY <1>1, <1>3, <1>4
<1> HIDE DEF n
<1>6. (price * base) \div price <= n \div price
  BY <1>1, <1>5, QuotientMonotone
<1>7. (price * base) \div price = base
  <2>1. (base * price + 0) \div price = base
    BY QuotientExact
  <2>2. base * price + 0 = price * base
    OBVIOUS
  <2>3. QED
    BY <2>1, <2>2
<1>8. BaseForQuote(price, quote + more, FALSE) = n \div price
  BY DEF BaseForQuote, Div, n
<1>9. QED
  BY <1>6, <1>7, <1>8 DEF quote

\* A coalesced bid never shrinks, and its backing grows by no more than the maker
\* received.
LEMMA CoalesceAffordable ==
    ASSUME NEW price \in Nat, NEW old \in Nat, NEW requested \in Nat, NEW received \in Nat
    PROVE  LET added == ReverseBidCoalesceBase(price, old, requested, received)
           IN  /\ added \in Nat
               /\ added <= requested
               /\ ReverseBidCoalesceQuote(price, old, added) \in Nat
               /\ ReverseBidCoalesceQuote(price, old, added) <= received
<1> DEFINE previous == QuoteForBase(price, old, TRUE)
           wanted == QuoteForBase(price, old + requested, TRUE)
           affordable == BaseForQuote(price, previous + received, FALSE)
           added == ReverseBidCoalesceBase(price, old, requested, received)
           after == QuoteForBase(price, old + added, TRUE)
<1>1. old + requested \in Nat
  OBVIOUS
<1>2. previous \in Nat /\ wanted \in Nat
  BY <1>1, QuoteForBaseNat
<1>3. previous + received \in Nat /\ affordable \in Nat
  <2> HIDE DEF previous
  <2>1. previous + received \in Nat
    BY <1>2
  <2>2. FALSE \in BOOLEAN
    OBVIOUS
  <2>3. QED
    BY <2>1, <2>2, BaseForQuoteNat
<1>4. added = IF wanted - previous <= received THEN requested
              ELSE IF affordable - old < requested THEN affordable - old ELSE requested
  BY DEF ReverseBidCoalesceBase
<1>5. ReverseBidCoalesceQuote(price, old, added) = after - previous
  BY DEF ReverseBidCoalesceQuote
<1>6. QuoteForBase(price, affordable, TRUE) <= previous + received
  <2> HIDE DEF previous
  <2>1. QED
    BY <1>3, RoundTrip
<1>7. ~ (wanted - previous <= received) => old <= affordable
  <2>1. CASE price = 0
    <3>1. 0 * old = 0 /\ 0 * (old + requested) = 0
      BY <1>1
    <3>2. wanted = previous
      BY <2>1, <3>1 DEF QuoteForBase
    <3> HIDE DEF previous, wanted, affordable
    <3>3. QED
      BY <1>2, <3>2
  <2>2. CASE price # 0
    <3>1. price \in Nat \ {0}
      BY <2>2
    <3>2. old <= affordable
      BY <3>1, RoundTripBack
    <3> HIDE DEF affordable
    <3>3. QED
      BY <3>2
  <2>3. QED
    BY <2>1, <2>2
<1>8. added \in Nat /\ added <= requested
  <2> HIDE DEF affordable, wanted, previous, added
  <2>1. QED
    BY <1>2, <1>3, <1>4, <1>7
<1>9. after \in Nat /\ previous <= after
  <2> HIDE DEF added
  <2>1. old + added \in Nat
    BY <1>8
  <2>2. QED
    BY <1>8, <2>1, QuoteForBaseNat, QuoteForBaseMonotone
<1>10. after <= previous + received
  <2>1. CASE wanted - previous <= received
    <3>1. added = requested
      BY <1>4, <2>1
    <3>2. after = wanted
      BY <3>1
    <3> HIDE DEF after, wanted, previous
    <3>3. QED
      BY <1>2, <2>1, <3>2
  <2>2. CASE ~ (wanted - previous <= received)
    <3>1. old + added <= affordable
      <4> HIDE DEF affordable, wanted, previous, added
      <4>1. QED
        BY <1>2, <1>3, <1>4, <1>7, <2>2
    <3> DEFINE rest == affordable - (old + added)
    <3>2. rest \in Nat /\ old + added \in Nat /\ affordable = (old + added) + rest
      <4> HIDE DEF affordable, added
      <4>1. QED
        BY <1>3, <1>8, <3>1
    <3> HIDE DEF affordable, added, rest
    <3> DEFINE most == QuoteForBase(price, affordable, TRUE)
    <3>3. after <= most
      BY <3>2, QuoteForBaseMonotone
    <3>4. most \in Nat
      BY <1>3, QuoteForBaseNat
    <3>5. most <= previous + received
      BY <1>6 DEF affordable
    <3> HIDE DEF after, previous, most
    <3>6. QED
      BY <1>3, <1>9, <3>3, <3>4, <3>5
  <2>3. QED
    BY <2>1, <2>2
<1> HIDE DEF after, previous, added
<1>11. QED
  BY <1>2, <1>5, <1>8, <1>9, <1>10 DEF added
\* What the maker of a reversal was paid, in the token the reversal is backed by.
Received(r, is_bid) == IF is_bid THEN r.quote ELSE r.base

\* The reversal costs its maker no more than that, alone or coalesced, and never
\* shrinks the order it joins.
LEMMA ReversalPaidFor ==
    ASSUME NEW m, MarketSound(m), NEW is_bid \in BOOLEAN, NEW r,
           r.price \in Nat, r.base \in Nat, r.quote \in Nat,
           NEW i \in LookupResults(m, is_bid, r.trader_index, r.type, r.price)
    PROVE  /\ ReverseDebit(m, i, r, is_bid) \in Nat
           /\ ReverseDebit(m, i, r, is_bid) <= Received(r, is_bid)
           /\ i # NIL => CoalescedBase(m, i, r, is_bid) >= 0
<1> DEFINE base == ReverseBase(r, is_bid)
           debit == ReverseDebit(m, i, r, is_bid)
<1>1. base \in Nat
  BY BaseForQuoteNat DEF ReverseBase
<1>2. i = NIL \/ i \in OrderIndices(m)
  BY DEF LookupResults, CoalesceCandidates, BookSide
<1>3. CASE i = NIL
  <2>1. debit = NotionalAtoms(is_bid, r.price, base)
    BY <1>3 DEF ReverseDebit
  <2>2. CASE is_bid
    <3> DEFINE cost == QuoteForBase(r.price, BaseForQuote(r.price, r.quote, FALSE), TRUE)
    <3>1. debit = cost
      BY <2>1, <2>2 DEF NotionalAtoms, ReverseBase
    <3>2. cost \in Nat
      <4>1. BaseForQuote(r.price, r.quote, FALSE) \in Nat
        BY BaseForQuoteNat
      <4>2. QED
        BY <4>1, QuoteForBaseNat
    <3>3. cost <= r.quote
      BY RoundTrip
    <3> HIDE DEF cost, debit
    <3>4. QED
      BY <1>3, <2>2, <3>1, <3>2, <3>3 DEF Received, debit
  <2>3. CASE ~ is_bid
    <3>1. debit = r.base
      BY <2>1, <2>3 DEF NotionalAtoms, ReverseBase
    <3> HIDE DEF debit
    <3>2. QED
      BY <1>3, <2>3, <3>1 DEF Received, debit
  <2>4. QED
    BY <2>2, <2>3
<1>4. CASE i # NIL
  <2> DEFINE price == m.data[i].price
             old == m.data[i].base
             added == CoalescedBase(m, i, r, is_bid)
  <2>1. price \in Nat /\ old \in Nat
    BY <1>2, <1>4, OrderTyped DEF MarketSound, RestingOrders
  <2>2. CASE is_bid
    <3>1. added = ReverseBidCoalesceBase(price, old, base, r.quote)
      BY <2>2 DEF CoalescedBase
    <3>2. debit = ReverseBidCoalesceQuote(price, old, added)
      BY <1>4, <2>2 DEF ReverseDebit
    <3> HIDE DEF price, old, base, added, debit
    <3>3. /\ ReverseBidCoalesceBase(price, old, base, r.quote) \in Nat
          /\ ReverseBidCoalesceQuote(price, old,
                ReverseBidCoalesceBase(price, old, base, r.quote)) \in Nat
          /\ ReverseBidCoalesceQuote(price, old,
                ReverseBidCoalesceBase(price, old, base, r.quote)) <= r.quote
      BY <1>1, <2>1, CoalesceAffordable
    <3>4. added \in Nat /\ debit \in Nat /\ debit <= r.quote
      BY <3>1, <3>2, <3>3
    <3>5. added >= 0
      BY <3>4
    <3>6. Received(r, is_bid) = r.quote
      BY <2>2 DEF Received
    <3>7. QED
      BY <3>4, <3>5, <3>6 DEF debit, added
  <2>3. CASE ~ is_bid
    <3>1. debit = r.base /\ added = r.base
      BY <1>4, <2>3 DEF ReverseDebit, CoalescedBase, ReverseBase
    <3> HIDE DEF debit, added
    <3>2. QED
      BY <2>3, <3>1 DEF Received, debit, added
  <2>4. QED
    BY <2>2, <2>3
<1>5. QED
  BY <1>3, <1>4

\* The amounts a reversal r computes for the order at i it joins, or for one of its
\* own, are within a u64.
SizesFit(m, i, r, is_bid) ==
    LET base == ReverseBase(r, is_bid)
    IN  /\ FitsAtoms(base)
        /\ i # NIL => /\ FitsAtoms(m.data[i].base + base)
                      /\ FitsAtoms(NotionalAtoms(is_bid, m.data[i].price, m.data[i].base + base))

\* So a maker that holds what it was paid can pay.
LEMMA ReversalAccepted ==
    ASSUME NEW m, MarketSound(m), HasFreeBlock(m), NEW is_bid \in BOOLEAN, NEW r,
           r.trader_index \in SeatIndices(m),
           r.price \in Nat, r.base \in Nat, r.quote \in Nat,
           NEW i \in LookupResults(m, is_bid, r.trader_index, r.type, r.price),
           SizesFit(m, i, r, is_bid),
           Received(r, is_bid) <= m.data[r.trader_index].bal[Backing(is_bid)],
           FitsAtoms(m.data[r.trader_index].bal[Backing(is_bid)])
    PROVE  CanReverse(m, i, r, is_bid)
<1> DEFINE debit == ReverseDebit(m, i, r, is_bid)
           received == Received(r, is_bid)
           held == m.data[r.trader_index].bal[Backing(is_bid)]
<1>1. debit \in Nat /\ debit <= received /\ (i # NIL => CoalescedBase(m, i, r, is_bid) >= 0)
  BY ReversalPaidFor
<1>2. held \in Nat /\ received \in Nat
  <2>1. Backing(is_bid) \in Tokens /\ m.data[r.trader_index] \in Seats
    BY BackingToken, SeatTyped DEF MarketSound
  <2>2. QED
    BY <2>1 DEF Seats, Received
<1> HIDE DEF debit, received, held
<1>3. ATOM_LIMIT \in Nat
  BY QuantitiesAssumption
<1>4. received <= held /\ held <= ATOM_LIMIT
  BY DEF received, held, FitsAtoms
<1>5. debit <= ATOM_LIMIT /\ held + (- debit) >= 0 /\ held + (- debit) <= ATOM_LIMIT
  BY <1>1, <1>2, <1>3, <1>4
<1>6. CanUpdateBalance(m, r.trader_index, Backing(is_bid), - debit)
  BY <1>5 DEF CanUpdateBalance, FitsAtoms, held
<1>7. FitsAtoms(debit)
  BY <1>5 DEF FitsAtoms
<1>8. QED
  BY <1>1, <1>6, <1>7 DEF CanReverse, SizesFit, debit
\* After a trade its maker, unless it is the taker, holds what it was paid.
LEMMA TradedPaid ==
    ASSUME NEW m, MarketSound(m), NEW taker, NEW i, NEW order, NEW is_bid, NEW remaining,
           NEW trade, NEW n, IsTraded(m, n, taker, i, order, is_bid, remaining, trade),
           order.trader_index # taker
    PROVE  /\ trade.paid <= n.data[order.trader_index].bal[Backing(is_bid)]
           /\ FitsAtoms(n.data[order.trader_index].bal[Backing(is_bid)])
<1> USE DEF IsTraded
<1> DEFINE after == Settled(m, taker, order, is_bid, trade)
           maker == order.trader_index
<1>1. order \in RestingOrders /\ maker \in SeatIndices(m)
  BY OrderTyped, OrderOwnerSeated DEF MarketSound
<1>2. order.price \in Nat /\ order.base \in Nat
  BY <1>1 DEF RestingOrders
<1>3. /\ trade.base \in Nat /\ trade.base <= order.base /\ trade.quote \in Nat
      /\ trade.paid \in Nat /\ trade.got \in Nat
  <2> DEFINE step == TradeWith(order, is_bid, remaining)
  <2>1. /\ step.base \in Nat /\ step.base <= order.base /\ step.quote \in Nat
        /\ step.paid \in Nat /\ step.got \in Nat
    BY <1>1, TradeNat
  <2>2. trade = step
    OBVIOUS
  <2> HIDE DEF step
  <2>3. QED
    BY <2>1, <2>2
<1>4. order.base - trade.base \in Nat
  BY <1>2, <1>3
<1>5. BonusAtom(order, trade) \in Nat
  <2> DEFINE q == QuoteForBase(order.price, order.base, TRUE)
             left == QuoteForBase(order.price, order.base - trade.base, TRUE)
  <2>1. q \in Nat /\ left \in Nat /\ trade.quote \in Nat
    BY <1>2, <1>3, <1>4, QuoteForBaseNat
  <2>2. BonusAtom(order, trade) =
            IF order.is_bid /\ order.type # "Global" THEN q - left - trade.quote ELSE 0
    BY DEF BonusAtom
  <2>3. BonusAtom(order, trade) >= 0
    BY DEF CanTrade
  <2> HIDE DEF q, left
  <2>4. BonusAtom(order, trade) \in Int
    BY <2>1, <2>2
  <2>5. QED
    BY <2>3, <2>4
<1>6. CanTrade(m, taker, order, is_bid, trade)
  OBVIOUS
<1>7. /\ MarketSound(after) /\ SameBlocks(m, after)
      /\ trade.paid <= after.data[maker].bal[Backing(is_bid)]
      /\ FitsAtoms(after.data[maker].bal[Backing(is_bid)])
  BY <1>1, <1>3, <1>5, <1>6, SettledSound
<1>8. n = IF trade.full THEN RemoveOrder(after, i)
                        ELSE ResizeOrder(after, i, order.base - trade.base)
  BY DEF Traded
<1> HIDE DEF after
<1>9. i \in OrderIndices(after) /\ maker \in SeatIndices(after)
  BY <1>1, <1>7 DEF SameBlocks
<1>10. SameSeats(after, n)
  <2> HIDE DEF IsTraded
  <2>1. SameSeats(after, RemoveOrder(after, i))
    BY <1>7, <1>9, RemoveOrderSound
  <2>2. SameSeats(after, ResizeOrder(after, i, order.base - trade.base))
    BY <1>4, <1>7, <1>9, ResizeOrderSound
  <2>3. QED
    BY <1>8, <2>1, <2>2
<1>11. n.data[maker] = after.data[maker]
  BY <1>9, <1>10 DEF SameSeats
<1>12. QED
  BY <1>7, <1>11

\* When a reversal is about to be placed, its maker holds what it was paid, or is
\* the taker.
PaidInv ==
    ctx.phase = "reverse" /\ ctx.reversal.trader_index # ctx.seat =>
        LET held == work.m.data[ctx.reversal.trader_index].bal[Backing(ctx.args.is_bid)]
        IN  Received(ctx.reversal, ctx.args.is_bid) <= held /\ FitsAtoms(held)

LEMMA FillPaid ==
    ASSUME IInv, Fill
    PROVE  PaidInv'
<1>1. PICK i \in Index : FilledBy(i)
  BY FillEffect
<1> DEFINE m == work.m
           n == work'.m
           order == m.data[i]
           trade == Trade(i)
           is_bid == ctx.args.is_bid
           reverses == IsReversible(order.type) /\ HasReversePrice(order)
<1>2. /\ IsMaker(i) /\ CanFill(i) /\ i \in OrderIndices(m) /\ order.is_bid = ~ is_bid
      /\ n = Traded(m, ctx.seat, i, is_bid, trade)
      /\ ctx'.phase = IF reverses THEN "reverse" ELSE "match"
      /\ reverses => /\ ctx'.reversal.trader_index = order.trader_index
                     /\ ctx'.reversal.base = trade.base /\ ctx'.reversal.quote = trade.quote
      /\ ctx'.seat = ctx.seat /\ ctx'.args = ctx.args
  BY <1>1 DEF FilledBy
<1>3. ctx.phase = "match"
  BY <1>2 DEF IsMaker
<1>4. ctx \in Contexts /\ MarketSound(m) /\ ctx.seat \in SeatIndices(m)
  BY <1>3, BusySound DEF WorkSound
<1>5. is_bid \in BOOLEAN /\ ctx.remaining \in Nat
  BY <1>4 DEF Contexts, OrderArgs
<1>6. trade = TradeWith(order, is_bid, ctx.remaining)
  BY DEF Trade
<1>7. CanTrade(m, ctx.seat, order, is_bid, trade)
  BY <1>2 DEF CanFill
<1>8. trade.paid = IF is_bid THEN trade.quote ELSE trade.base
  BY <1>6 DEF TradeWith
<1> HIDE DEF m, n, order, trade, is_bid, reverses
<1>9. IsTraded(m, n, ctx.seat, i, order, is_bid, ctx.remaining, trade)
  BY <1>2, <1>4, <1>5, <1>6, <1>7 DEF IsTraded, order
<1>10. order.trader_index # ctx.seat =>
            /\ trade.paid <= n.data[order.trader_index].bal[Backing(is_bid)]
            /\ FitsAtoms(n.data[order.trader_index].bal[Backing(is_bid)])
  BY <1>4, <1>9, TradedPaid
<1>11. SUFFICES ASSUME ctx'.phase = "reverse", ctx'.reversal.trader_index # ctx'.seat
                PROVE  LET held == n.data[ctx'.reversal.trader_index].bal[Backing(ctx'.args.is_bid)]
                       IN  /\ Received(ctx'.reversal, ctx'.args.is_bid) <= held
                           /\ FitsAtoms(held)
  BY DEF PaidInv, n, Received, FitsAtoms, Backing
<1>12. reverses /\ ctx'.args.is_bid = is_bid
  BY <1>2, <1>11 DEF is_bid
<1>13. Received(ctx'.reversal, is_bid) = trade.paid
  BY <1>2, <1>8, <1>12 DEF Received
<1>14. QED
  BY <1>2, <1>10, <1>11, <1>12, <1>13

LEMMA OnlyFillReverses ==
    ASSUME IInv, [Next]_vars
    PROVE  Fill \/ ctx'.phase # "reverse" \/ (work' = work /\ ctx' = ctx)
<1>1. ctx \in Contexts
  BY BothMarkets
<1>2. CASE MarketArrival \/ GlobalArrival
  BY <1>2, OneStep DEF Idle
<1>3. CASE TradeArrival
  <2>1. ASSUME NEW trader, NEW batch, NEW globals, NEW cancels,
               BatchUpdate(trader, batch, globals, cancels)
        PROVE  ctx'.phase = "cancel"
    BY <2>1 DEF BatchUpdate, Step, Idle
  <2>2. ASSUME NEW trader, NEW swap, NEW globals, Swap(trader, swap, globals)
        PROVE  ctx'.phase \in {"impact", "next"}
    BY <2>2 DEF Swap, Step, Idle
  <2>3. QED
    BY <1>3, <2>1, <2>2 DEF TradeArrival
<1>4. CASE \/ CancelOrder \/ CleanStaleMaker \/ CleanUnbackedMaker
  BY <1>1, <1>4 DEF CancelOrder, CleanStaleMaker, CleanUnbackedMaker, CleanMaker,
        IsMaker, Step, Contexts
<1>5. CASE PrepayGas \/ BeginOrder \/ StopMatching \/ FinishOrder \/ PlaceReverse
  BY <1>1, <1>5 DEF PrepayGas, BeginOrder, StopMatching, FinishOrder, PlaceReverse, Step,
        Contexts
<1>6. CASE WalkPast \/ CountMaker \/ StopWalking
  BY <1>6, WalkEffect
<1>7. CASE FinishBatch \/ FinishSwap
  BY <1>7 DEF FinishBatch, FinishSwap, Commit, Idle
<1>8. CASE \/ CancelFails \/ PrepayGasFails \/ BeginOrderFails \/ FillFails
           \/ PlaceReverseFails \/ FinishOrderFails \/ EstimateFails \/ FinishSwapFails
  BY <1>8 DEF CancelFails, PrepayGasFails, BeginOrderFails, FillFails,
        PlaceReverseFails, FinishOrderFails, EstimateFails, FinishSwapFails, Abort, Idle
<1>9. CASE AdvanceSlot \/ UNCHANGED vars
  BY <1>9 DEF AdvanceSlot, vars
<1>10. QED
  BY <1>2, <1>3, <1>4, <1>5, <1>6, <1>7, <1>8, <1>9 DEF Next, Progress

LEMMA NextPaid ==
    ASSUME IInv, PaidInv, [Next]_vars
    PROVE  PaidInv'
<1>1. CASE Fill
  BY <1>1, FillPaid
<1>2. CASE ctx'.phase # "reverse" \/ (work' = work /\ ctx' = ctx)
  BY <1>2 DEF PaidInv, Received, FitsAtoms, Backing
<1>3. QED
  BY <1>1, <1>2, OnlyFillReverses
\* What a reversal computes is within a u64.
ReversalFits ==
    ctx.phase = "reverse" =>
        \A i \in ReverseTargets : SizesFit(work.m, i, ctx.reversal, ctx.args.is_bid)

LEMMA PaidAffords ==
    ASSUME IInv, PaidInv, ReversalFits
    PROVE  ReversalAffordable
<1> SUFFICES ASSUME ctx.phase = "reverse", ctx.reversal.trader_index # ctx.seat,
                    NEW i \in ReverseTargets
             PROVE  CanReverse(work.m, i, ctx.reversal, ctx.args.is_bid)
  BY DEF ReversalAffordable
<1> DEFINE m == work.m
           r == ctx.reversal
           is_bid == ctx.args.is_bid
<1>1. WorkSound(work, ctx)
  BY BusySound
<1>2. /\ MarketSound(m) /\ ctx \in Contexts /\ r.trader_index \in SeatIndices(m)
  BY <1>1 DEF WorkSound
<1>3. is_bid \in BOOLEAN /\ r \in Reversals /\ ctx.remaining \in Nat
  BY <1>2 DEF Contexts, OrderArgs
<1>4. r.price \in Nat /\ r.base \in Nat /\ r.quote \in Nat
  BY <1>3 DEF Reversals
<1>5. HasFreeBlock(m)
  <2>1. Len(m.free) >= 1
    <3>1. Len(m.free) >= (IF ctx.remaining > 0 THEN 2 ELSE 1) /\ m.free \in Seq(Index)
      BY <1>1, <1>2 DEF WorkSound, SpareSound, MarketSound, Markets
    <3>2. QED
      BY <3>1
  <2>2. QED
    BY <2>1 DEF HasFreeBlock
<1>6. /\ i \in LookupResults(m, is_bid, r.trader_index, r.type, r.price)
      /\ SizesFit(m, i, r, is_bid)
  BY DEF ReverseTargets, ReversalFits
<1>7. /\ Received(r, is_bid) <= m.data[r.trader_index].bal[Backing(is_bid)]
      /\ FitsAtoms(m.data[r.trader_index].bal[Backing(is_bid)])
  BY DEF PaidInv
<1> HIDE DEF m, r, is_bid
<1>8. CanReverse(m, i, r, is_bid)
  BY <1>2, <1>3, <1>4, <1>5, <1>6, <1>7, ReversalAccepted
<1>9. QED
  BY <1>8 DEF m, r, is_bid

\* However prices round, and whether or not the order it joins is an increment
\* away, a reverse maker that is not the taker was paid what its reversal costs, and
\* has a block for it: only an amount beyond a u64 could make the taker fail.
THEOREM ReversalAlwaysAffordable == Spec => [](ReversalFits => ReversalAffordable)
<1>1. Init => IInv /\ PaidInv
  <2>1. Init => PaidInv
    BY DEF Init, Idle, PaidInv
  <2>2. QED
    BY <2>1, InitSound
<1>2. IInv /\ PaidInv /\ [Next]_vars => (IInv /\ PaidInv)'
  BY NextSound, NextPaid
<1>3. IInv /\ PaidInv /\ ReversalFits => ReversalAffordable
  BY PaidAffords
<1>4. QED
  BY <1>1, <1>2, <1>3, PTL DEF Spec

=============================================================================
