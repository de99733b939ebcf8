---------------------------- MODULE FundsProofs ----------------------------
(***************************************************************************)
(* What the global accounts promise, for every value of the constants:     *)
(* their vaults hold the deposits of the seated traders, and the gas       *)
(* prepayments cover every refund still to be paid.  DepositsInv and       *)
(* GasInv add to these what an instruction in progress owes: the atoms its *)
(* global makers have sold, and the prepayments of orders that are yet to  *)
(* be placed.  SwapInv says that the seat of a swap holds what it held     *)
(* and what it has bought, so that the swap ends within its limits.  What  *)
(* has to be sent for an amount to arrive after a transfer fee is the      *)
(* least one of which it does: the two functions of the token program are  *)
(* a Galois connection, and all that a swap relies on follows from that.   *)
(***************************************************************************)
EXTENDS TransferFees, ManifestProofs

-----------------------------------------------------------------------------
(* Deposits. *)

\* The vault holds the deposits and what is sold but not delivered, the total
\* is the sum of the deposits, and only seated traders have one.
DepositsSound(g, owed) ==
    /\ g.vault = g.deposited + owed
    /\ g.deposited = SumFunctionOnSet(g.dep, Traders)
    /\ \A t \in Traders \ g.seats : g.dep[t] = 0

\* The global accounts in the course of an instruction c.
AllDepositsSound(glob, c) == \A token \in Tokens : DepositsSound(glob[token], PendingOf(c, token))

DepositsInv ==
    /\ AllDepositsSound(accounts.glob, Idle)
    /\ AllDepositsSound(work.glob, ctx)

\* Nothing but the gas of the global accounts may differ.
SameDeposits(glob, after) ==
    \A token \in Tokens :
        /\ after[token].seats = glob[token].seats
        /\ after[token].dep = glob[token].dep
        /\ after[token].deposited = glob[token].deposited
        /\ after[token].vault = glob[token].vault

LEMMA NothingPending == \A token \in Tokens : PendingOf(Idle, token) = 0
BY DEF PendingOf, Idle

\* A change of one deposit of a seated trader changes the total as much.
LEMMA DepositMoved ==
    ASSUME NEW g \in Globals, NEW owed \in Int, DepositsSound(g, owed),
           NEW trader \in g.seats, NEW delta \in Int, g.dep[trader] + delta >= 0
    PROVE  DepositsSound(UpdateDeposit(g, trader, delta), owed - delta)
<1> DEFINE dep == [g.dep EXCEPT ![trader] = @ + delta]
           h == UpdateDeposit(g, trader, delta)
<1>1. /\ trader \in Traders /\ g.dep \in [Traders -> Nat] /\ g.deposited \in Int
      /\ g.vault \in Int
  BY DEF Globals
<1>2. /\ h.dep = dep /\ h.deposited = g.deposited + delta /\ h.vault = g.vault
      /\ h.seats = g.seats
  BY DEF UpdateDeposit, Globals
<1>3. /\ dep[trader] = g.dep[trader] + delta /\ dep[trader] \in Int
      /\ \A t \in Traders \ {trader} : dep[t] = g.dep[t]
      /\ \A t \in Traders : g.dep[t] \in Int
  BY <1>1
<1> HIDE DEF dep, h
<1>4. SumFunctionOnSet(dep, Traders) = SumFunctionOnSet(g.dep, Traders) + delta
  <2> DEFINE before == g.dep
             sum == SumFunctionOnSet(before, Traders)
  <2>1. \A t \in Traders : before[t] \in Int
    BY <1>3
  <2>2. IsFiniteSet(Traders)
    BY GlobalAssumption
  <2>3. sum \in Int
    BY <2>1, <2>2, SumInt
  <2>4. \A t \in Traders \ {trader} : dep[t] = before[t]
    BY <1>3
  <2> HIDE DEF before
  <2>5. SumFunctionOnSet(dep, Traders) = sum + dep[trader] - before[trader]
    BY <1>1, <1>3, <2>1, <2>2, <2>4, SumChangeOne
  <2> HIDE DEF sum
  <2>6. dep[trader] = before[trader] + delta /\ before[trader] \in Int
    BY <1>1, <1>3, <2>1 DEF before
  <2>7. SumFunctionOnSet(dep, Traders) = sum + delta
    BY <2>3, <2>5, <2>6
  <2>8. QED
    BY <2>7 DEF before, sum
<1>5. h.vault = h.deposited + (owed - delta)
  BY <1>1, <1>2 DEF DepositsSound
<1>6. h.deposited = SumFunctionOnSet(h.dep, Traders)
  BY <1>2, <1>4 DEF DepositsSound
<1>7. \A t \in Traders \ h.seats : h.dep[t] = 0
  BY <1>2, <1>3 DEF DepositsSound
<1>8. QED
  BY <1>5, <1>6, <1>7 DEF DepositsSound, h

\* Tokens arrive in the vault or leave it.
LEMMA VaultMoved ==
    ASSUME NEW g \in Globals, NEW owed \in Int, DepositsSound(g, owed), NEW delta \in Int
    PROVE  DepositsSound([g EXCEPT !.vault = @ + delta], owed + delta)
BY DEF DepositsSound, Globals

LEMMA NewGlobalDeposits == DepositsSound(NewGlobal, 0)
<1> DEFINE dep == [t \in Traders |-> 0]
<1>1. \A t \in Traders : dep[t] = 0
  OBVIOUS
<1> HIDE DEF dep
<1>2. SumFunctionOnSet(dep, Traders) = 0
  BY <1>1, GlobalAssumption, SumOfZeros
<1>3. QED
  BY <1>2 DEF DepositsSound, NewGlobal, dep

LEMMA SameDepositsSound ==
    ASSUME NEW glob, NEW after, NEW c, NEW d, AllDepositsSound(glob, c),
           SameDeposits(glob, after), \A token \in Tokens : PendingOf(d, token) = PendingOf(c, token)
    PROVE  AllDepositsSound(after, d)
BY DEF AllDepositsSound, SameDeposits, DepositsSound

-----------------------------------------------------------------------------
(* How a step ends. *)

LEMMA CommitDeposits ==
    ASSUME NEW a, AllDepositsSound(a.glob, Idle), Commit(a)
    PROVE  DepositsInv'
BY DEF DepositsInv, Commit, AllDepositsSound, DepositsSound, PendingOf, Idle

LEMMA AbortDeposits ==
    ASSUME DepositsInv, Abort
    PROVE  DepositsInv'
BY DEF DepositsInv, Abort, AllDepositsSound, DepositsSound, PendingOf, Idle

LEMMA StepDeposits ==
    ASSUME DepositsInv, accounts' = accounts, AllDepositsSound(work'.glob, ctx')
    PROVE  DepositsInv'
BY DEF DepositsInv, AllDepositsSound, DepositsSound, PendingOf, Idle

\* A commit that leaves deposits and vaults alone.
LEMMA SameDepositsCommit ==
    ASSUME IInv, DepositsInv, ctx.phase \notin MatchingPhases, NEW a, Commit(a),
           SameDeposits(work.glob, a.glob)
    PROVE  DepositsInv'
<1>1. \A token \in Tokens : PendingOf(ctx, token) = 0 /\ PendingOf(Idle, token) = 0
  BY BusySound, NothingPending, IdleSound DEF IInv, PendingOf, Idle, WorkSound
<1>2. AllDepositsSound(a.glob, Idle)
  BY <1>1, SameDepositsSound DEF DepositsInv
<1>3. QED
  BY <1>2, CommitDeposits

\* A step that does.
LEMMA SameDepositsStep ==
    ASSUME DepositsInv, accounts' = accounts, SameDeposits(work.glob, work'.glob),
           \A token \in Tokens : PendingOf(ctx', token) = PendingOf(ctx, token)
    PROVE  DepositsInv'
<1>1. AllDepositsSound(work'.glob, ctx')
  BY SameDepositsSound DEF DepositsInv
<1>2. QED
  BY <1>1, StepDeposits

\* An instruction on one global account.
LEMMA OneGlobalCommit ==
    ASSUME IInv, DepositsInv, ctx = Idle, NEW token \in Tokens, NEW g, DepositsSound(g, 0),
           NEW wallet,
           Commit([accounts EXCEPT !.glob = [accounts.glob EXCEPT ![token] = g],
                                   !.wallet = wallet])
    PROVE  DepositsInv'
<1> DEFINE glob == [accounts.glob EXCEPT ![token] = g]
           a == [accounts EXCEPT !.glob = glob, !.wallet = wallet]
<1>1. accounts \in Accounts
  BY IdleSound DEF AccountsSound
<1>2. /\ a.glob = glob /\ glob[token] = g
      /\ \A t \in Tokens \ {token} : glob[t] = accounts.glob[t]
  BY <1>1 DEF Accounts
<1> HIDE DEF a, glob
<1>3. AllDepositsSound(a.glob, Idle)
  BY <1>2, NothingPending DEF DepositsInv, AllDepositsSound
<1>4. QED
  BY <1>3, CommitDeposits DEF a, glob

-----------------------------------------------------------------------------
(* Instructions on a global account. *)

LEMMA IdleGlobal ==
    ASSUME IInv, DepositsInv, ctx = Idle, NEW token \in Tokens
    PROVE  /\ accounts \in Accounts /\ accounts.glob[token] \in Globals
           /\ DepositsSound(accounts.glob[token], 0)
<1>1. accounts \in Accounts
  BY IdleSound DEF AccountsSound
<1>2. QED
  BY <1>1, NothingPending DEF DepositsInv, AllDepositsSound, Accounts

LEMMA GlobalAddTraderDeposits ==
    ASSUME IInv, DepositsInv, NEW trader \in Traders, NEW token \in Tokens,
           GlobalAddTrader(trader, token)
    PROVE  DepositsInv'
<1> DEFINE before == accounts.glob[token]
           g == AddTrader(before, trader)
           a == [accounts EXCEPT !.glob = [accounts.glob EXCEPT ![token] = g],
                                 !.wallet = accounts.wallet]
<1>1. ctx = Idle /\ Commit([accounts EXCEPT !.glob[token] = g])
  BY DEF GlobalAddTrader
<1>2. accounts \in Accounts /\ before \in Globals /\ DepositsSound(before, 0)
  BY <1>1, IdleGlobal
<1>3. DepositsSound(g, 0)
  BY <1>2 DEF DepositsSound, AddTrader, Globals
<1> HIDE DEF g
<1>4. a = [accounts EXCEPT !.glob[token] = g]
  BY <1>2 DEF Accounts
<1>5. Commit(a)
  BY <1>1, <1>4
<1>6. QED
  BY <1>1, <1>3, <1>5, OneGlobalCommit

LEMMA GlobalDepositDeposits ==
    ASSUME IInv, DepositsInv, NEW trader \in Traders, NEW token \in Tokens, NEW atoms \in Nat,
           GlobalDeposit(trader, token, atoms)
    PROVE  DepositsInv'
<1> DEFINE before == accounts.glob[token]
           updated == UpdateDeposit(before, trader, atoms)
           g == [updated EXCEPT !.vault = @ + atoms]
           wallet == [accounts.wallet EXCEPT ![trader][token] = @ - atoms]
           a == [accounts EXCEPT !.glob = [accounts.glob EXCEPT ![token] = g],
                                 !.wallet = wallet]
<1>1. Commit([accounts EXCEPT !.glob[token] = g, !.wallet[trader][token] = @ - atoms])
  BY DEF GlobalDeposit
<1> HIDE DEF g, a, wallet
<1>2. ctx = Idle /\ trader \in before.seats /\ before.dep[trader] + atoms >= 0
  BY DEF GlobalDeposit, CanUpdateDeposit, HasGlobalSeat
<1>3. before \in Globals /\ DepositsSound(before, 0)
  BY <1>2, IdleGlobal
<1>4. updated \in Globals
  BY <1>2, <1>3, UpdateDepositTyped
<1> HIDE DEF before
<1>5. DepositsSound(updated, 0 - atoms)
  BY <1>2, <1>3, DepositMoved
<1> HIDE DEF updated
<1>6. DepositsSound(g, (0 - atoms) + atoms)
  BY <1>4, <1>5, VaultMoved DEF g
<1>7. DepositsSound(g, 0)
  <2>1. (0 - atoms) + atoms = 0
    OBVIOUS
  <2>2. QED
    BY <1>6, <2>1
<1>8. Commit(a)
  BY <1>1 DEF a, wallet
<1>9. QED
  BY <1>2, <1>7, <1>8, OneGlobalCommit DEF a

LEMMA GlobalWithdrawDeposits ==
    ASSUME IInv, DepositsInv, NEW trader \in Traders, NEW token \in Tokens, NEW atoms \in Nat,
           GlobalWithdraw(trader, token, atoms)
    PROVE  DepositsInv'
<1> DEFINE before == accounts.glob[token]
           updated == UpdateDeposit(before, trader, - atoms)
           g == [updated EXCEPT !.vault = @ - atoms]
           wallet == [accounts.wallet EXCEPT ![trader][token] = @ + atoms]
           a == [accounts EXCEPT !.glob = [accounts.glob EXCEPT ![token] = g],
                                 !.wallet = wallet]
<1>1. Commit([accounts EXCEPT !.glob[token] = g, !.wallet[trader][token] = @ + atoms])
  BY DEF GlobalWithdraw
<1> HIDE DEF g, a, wallet
<1>2. ctx = Idle /\ trader \in before.seats /\ before.dep[trader] + (- atoms) >= 0
  BY DEF GlobalWithdraw, CanUpdateDeposit, HasGlobalSeat
<1>3. before \in Globals /\ DepositsSound(before, 0)
  BY <1>2, IdleGlobal
<1>4. updated \in Globals
  BY <1>2, <1>3, UpdateDepositTyped
<1> HIDE DEF before
<1>5. DepositsSound(updated, 0 - (- atoms))
  <2>1. - atoms \in Int
    OBVIOUS
  <2>2. QED
    BY <1>2, <1>3, <2>1, DepositMoved
<1> HIDE DEF updated
<1>6. DepositsSound(g, 0)
  BY <1>4, <1>5 DEF g, DepositsSound, Globals
<1>7. Commit(a)
  BY <1>1 DEF a, wallet
<1>8. QED
  BY <1>2, <1>6, <1>7, OneGlobalCommit DEF a

\* The evictee leaves with all it had, so its seat backs nothing any more.
LEMMA EvictedDeposits ==
    ASSUME NEW before \in Globals, DepositsSound(before, 0), NEW evictee \in before.seats,
           NEW trader \in Traders
    PROVE  LET balance == before.dep[evictee]
               emptied == [UpdateDeposit(before, evictee, - balance)
                             EXCEPT !.vault = @ - balance]
           IN  /\ EvictAndTakeSeat(emptied, evictee, trader) \in Globals
               /\ DepositsSound(EvictAndTakeSeat(emptied, evictee, trader), 0)
<1> DEFINE balance == before.dep[evictee]
           withdrawn == UpdateDeposit(before, evictee, - balance)
           emptied == [withdrawn EXCEPT !.vault = @ - balance]
           seated == EvictAndTakeSeat(emptied, evictee, trader)
<1>1. evictee \in Traders /\ balance \in Nat
  BY DEF Globals
<1>2. - balance \in Int /\ before.dep[evictee] + (- balance) >= 0
  BY <1>1
<1>3. /\ withdrawn \in Globals /\ withdrawn.dep[evictee] = 0
      /\ withdrawn.seats = before.seats
  <2>1. withdrawn \in Globals
    BY <1>1, <1>2, UpdateDepositTyped
  <2>2. QED
    BY <1>1, <2>1 DEF UpdateDeposit, Globals
<1>4. DepositsSound(withdrawn, 0 - (- balance))
  <2> HIDE DEF balance
  <2>1. QED
    BY <1>2, DepositMoved
<1> HIDE DEF withdrawn, balance
<1>5. /\ emptied \in Globals /\ DepositsSound(emptied, 0) /\ emptied.dep[evictee] = 0
      /\ emptied.seats = before.seats
  BY <1>1, <1>3, <1>4 DEF DepositsSound, Globals
<1> HIDE DEF emptied
<1>6. /\ seated.seats = (before.seats \ {evictee}) \cup {trader} /\ seated.dep = emptied.dep
      /\ seated.deposited = emptied.deposited /\ seated.vault = emptied.vault
      /\ seated \in Globals
  BY <1>5 DEF EvictAndTakeSeat, Globals
<1> HIDE DEF seated
<1>7. DepositsSound(seated, 0)
  BY <1>5, <1>6 DEF DepositsSound
<1>8. QED
  BY <1>6, <1>7 DEF seated, emptied, withdrawn, balance

LEMMA GlobalEvictDeposits ==
    ASSUME IInv, DepositsInv, NEW trader \in Traders, NEW evictee \in Traders,
           NEW token \in Tokens, NEW atoms \in Nat, GlobalEvict(trader, evictee, token, atoms)
    PROVE  DepositsInv'
<1> DEFINE before == accounts.glob[token]
           balance == before.dep[evictee]
           emptied == [UpdateDeposit(before, evictee, - balance) EXCEPT !.vault = @ - balance]
           seated == EvictAndTakeSeat(emptied, evictee, trader)
           updated == UpdateDeposit(seated, trader, atoms)
           g == [updated EXCEPT !.vault = @ + atoms]
           paid == [accounts.wallet EXCEPT ![evictee][token] = @ + balance]
           wallet == [paid EXCEPT ![trader][token] = @ - atoms]
           a == [accounts EXCEPT !.glob = [accounts.glob EXCEPT ![token] = g],
                                 !.wallet = wallet]
<1>1. /\ ctx = Idle /\ evictee \in before.seats
      /\ trader \in seated.seats /\ seated.dep[trader] + atoms >= 0
      /\ Commit([accounts EXCEPT !.glob[token] = g, !.wallet = wallet])
  BY DEF GlobalEvict, CanUpdateDeposit, IsMinBalance, HasGlobalSeat
<1>2. before \in Globals /\ DepositsSound(before, 0)
  BY <1>1, IdleGlobal
<1>3. seated \in Globals /\ DepositsSound(seated, 0)
  BY <1>1, <1>2, EvictedDeposits
<1> HIDE DEF seated
<1>4. updated \in Globals
  BY <1>1, <1>3, UpdateDepositTyped
<1>5. DepositsSound(updated, 0 - atoms)
  BY <1>1, <1>3, DepositMoved
<1> HIDE DEF updated
<1>6. DepositsSound(g, 0)
  BY <1>4, <1>5 DEF DepositsSound, Globals
<1> HIDE DEF g
<1>7. Commit(a)
  BY <1>1
<1> HIDE DEF wallet
<1>8. QED
  BY <1>1, <1>6, <1>7, OneGlobalCommit

\* GlobalClean takes gas alone.
LEMMA GlobalCleanDeposits ==
    ASSUME IInv, DepositsInv, NEW i \in Index, GlobalClean(i)
    PROVE  DepositsInv'
<1> DEFINE order == accounts.m.data[i]
           token == Backing(order.is_bid)
           m == ReturnOrder(accounts.m, i)
           g == [accounts.glob[token] EXCEPT !.gas =
                    IF order.type = "Global" THEN @ - 1 ELSE @]
           glob == [accounts.glob EXCEPT ![token] = g]
           a == [accounts EXCEPT !.m = m, !.glob = glob]
<1>1. ctx = Idle /\ token \in Tokens
  BY DEF GlobalClean, Backing, Tokens
<1>2. accounts \in Accounts /\ accounts.glob[token] \in Globals /\ work = accounts
  BY <1>1, IdleGlobal, IdleSound
<1>3. Commit(a)
  BY <1>2 DEF GlobalClean, Accounts
<1>4. /\ g.seats = accounts.glob[token].seats /\ g.dep = accounts.glob[token].dep
      /\ g.deposited = accounts.glob[token].deposited
      /\ g.vault = accounts.glob[token].vault
  BY <1>2 DEF Globals
<1> HIDE DEF g, m
<1>5. SameDeposits(accounts.glob, glob)
  BY <1>1, <1>2, <1>4 DEF SameDeposits, Accounts
<1> HIDE DEF glob
<1>6. a.glob = glob
  BY <1>2 DEF Accounts
<1> HIDE DEF a
<1>7. ctx.phase = "idle"
  BY <1>1 DEF Idle
<1>8. QED
  BY <1>2, <1>3, <1>5, <1>6, <1>7, SameDepositsCommit DEF MatchingPhases

LEMMA GlobalArrivalDeposits ==
    ASSUME IInv, DepositsInv, GlobalArrival
    PROVE  DepositsInv'
<1>1. Amounts \subseteq Nat
  BY ManifestAssumption
<1>2. CASE \E trader \in Traders, token \in Tokens : GlobalAddTrader(trader, token)
  BY <1>2, GlobalAddTraderDeposits
<1>3. CASE \E trader \in Traders, token \in Tokens, atoms \in Amounts :
              \/ GlobalDeposit(trader, token, atoms)
              \/ GlobalWithdraw(trader, token, atoms)
              \/ \E evictee \in Traders : GlobalEvict(trader, evictee, token, atoms)
  BY <1>1, <1>3, GlobalDepositDeposits, GlobalWithdrawDeposits, GlobalEvictDeposits
<1>4. CASE \E i \in Index : GlobalClean(i)
  BY <1>4, GlobalCleanDeposits
<1>5. QED
  BY <1>2, <1>3, <1>4 DEF GlobalArrival

-----------------------------------------------------------------------------
(* Instructions on the market. *)

LEMMA MarketArrivalGlobals ==
    ASSUME IInv, MarketArrival
    PROVE  /\ ctx = Idle /\ work = accounts
           /\ \E m \in Markets : \E vault, wallet :
                Commit([accounts EXCEPT !.m = m, !.vault = vault, !.wallet = wallet])
<1>1. ASSUME ctx = Idle, NEW m, Commit([accounts EXCEPT !.m = m])
      PROVE  \E vault, wallet :
                Commit([accounts EXCEPT !.m = m, !.vault = vault, !.wallet = wallet])
  <2>1. accounts \in Accounts
    BY <1>1, IdleSound DEF AccountsSound
  <2>2. [accounts EXCEPT !.m = m]
            = [accounts EXCEPT !.m = m, !.vault = accounts.vault, !.wallet = accounts.wallet]
    BY <2>1 DEF Accounts
  <2>3. QED
    BY <1>1, <2>2
<1>2. ctx = Idle /\ \E m, vault, wallet :
                Commit([accounts EXCEPT !.m = m, !.vault = vault, !.wallet = wallet])
  <2>1. CASE \E trader \in Traders : ClaimSeat(trader)
    <3>1. PICK trader \in Traders : ClaimSeat(trader)
        BY <2>1
    <3> DEFINE m == ExpandIfNeeded(ClaimSeatOn(accounts.m, trader))
    <3>2. ctx = Idle /\ Commit([accounts EXCEPT !.m = m])
        BY <3>1 DEF ClaimSeat
    <3> HIDE DEF m
    <3>3. QED
        BY <1>1, <3>2
  <2>2. CASE \E trader \in Traders, token \in Tokens, atoms \in Amounts :
                Deposit(trader, token, atoms) \/ Withdraw(trader, token, atoms)
    <3>1. PICK trader \in Traders, token \in Tokens, atoms \in Amounts :
                Deposit(trader, token, atoms) \/ Withdraw(trader, token, atoms)
        BY <2>2
    <3>2. ctx = Idle
        BY <3>1 DEF Deposit, Withdraw
    <3>3. accounts \in Accounts
        BY <3>2, IdleSound DEF AccountsSound
    <3>4. CASE Deposit(trader, token, atoms)
        BY <3>2, <3>3, <3>4 DEF Deposit, Accounts
    <3>5. CASE Withdraw(trader, token, atoms)
        BY <3>2, <3>3, <3>5 DEF Withdraw, Accounts
    <3>6. QED
        BY <3>1, <3>4, <3>5
  <2>3. CASE Expand
    <3> DEFINE m == ExpandBy(accounts.m, 1)
    <3>1. ctx = Idle /\ Commit([accounts EXCEPT !.m = m])
        BY <2>3 DEF Expand
    <3> HIDE DEF m
    <3>2. QED
        BY <1>1, <3>1
  <2>4. CASE \E n \in 0 .. MaxExpand : ExpandTo(n)
    <3>1. PICK n \in 0 .. MaxExpand : ExpandTo(n)
        BY <2>4
    <3> DEFINE m == ExpandBy(accounts.m, FreeBlocksShortOfN(accounts.m, n))
    <3>2. ctx = Idle /\ Commit([accounts EXCEPT !.m = m])
        BY <3>1 DEF ExpandTo
    <3> HIDE DEF m
    <3>3. QED
        BY <1>1, <3>2
  <2>5. QED
    BY <2>1, <2>2, <2>3, <2>4 DEF MarketArrival
<1>3. accounts \in Accounts /\ work = accounts
  BY <1>2, IdleSound DEF AccountsSound
<1>4. PICK m, vault, wallet :
        Commit([accounts EXCEPT !.m = m, !.vault = vault, !.wallet = wallet])
  BY <1>2
<1>5. accounts'.m = m
  BY <1>3, <1>4 DEF Commit, Accounts
<1>6. IInv'
  BY NextSound DEF Next
<1>7. m \in Markets
  BY <1>5, <1>6, BothMarketsNext
<1>8. QED
  BY <1>2, <1>3, <1>4, <1>7

LEMMA MarketArrivalDeposits ==
    ASSUME IInv, DepositsInv, MarketArrival
    PROVE  DepositsInv'
<1>1. PICK m \in Markets : \E vault, wallet :
        Commit([accounts EXCEPT !.m = m, !.vault = vault, !.wallet = wallet])
  BY MarketArrivalGlobals
<1>0. PICK vault, wallet :
        Commit([accounts EXCEPT !.m = m, !.vault = vault, !.wallet = wallet])
  BY <1>1
<1> DEFINE a == [accounts EXCEPT !.m = m, !.vault = vault, !.wallet = wallet]
<1>2. ctx = Idle /\ work = accounts /\ accounts \in Accounts
  BY MarketArrivalGlobals, IdleSound DEF AccountsSound
<1>3. a.glob = work.glob
  BY <1>2 DEF Accounts
<1>4. ctx.phase \notin MatchingPhases
  BY <1>2 DEF Idle, MatchingPhases
<1> HIDE DEF a
<1>5. SameDeposits(work.glob, a.glob)
  BY <1>3 DEF SameDeposits
<1>6. QED
  BY <1>0, <1>4, <1>5, SameDepositsCommit DEF a

-----------------------------------------------------------------------------
(* What the steps of a batch or swap leave as it was. *)

\* The same order is in the course of the same instruction.
SameOrderPlaced(c, d) ==
    /\ d.kind = c.kind /\ d.seat = c.seat /\ d.globals = c.globals /\ d.args = c.args
    /\ d.pending = c.pending /\ d.traded = c.traded
    /\ d.swap = c.swap /\ d.temp = c.temp /\ d.initial = c.initial

\* No token moves.
SameTokens(a, b) == b.glob = a.glob /\ b.vault = a.vault /\ b.wallet = a.wallet

\* The owner of an order gets back what it tied up, and nobody pays.
LEMMA ReturnOrderCredits ==
    ASSUME NEW m, MarketSound(m), NEW i \in OrderIndices(m), CanReturnOrder(m, i),
           NEW s \in SeatIndices(m), NEW t \in Tokens
    PROVE  ReturnOrder(m, i).data[s].bal[t] >= m.data[s].bal[t]
<1> DEFINE order == m.data[i]
           backing == Backing(order.is_bid)
           atoms == NotionalAtoms(order.is_bid, order.price, order.base)
           paid == UpdateBalance(m, order.trader_index, backing, atoms)
<1>1. /\ m \in Markets /\ order \in RestingOrders
      /\ order.trader_index \in SeatIndices(m)
  BY OrderTyped DEF MarketSound, OwnersSeated
<1>2. backing \in Tokens /\ atoms \in Nat
  <2>1. order.is_bid \in BOOLEAN /\ order.price \in Nat /\ order.base \in Nat
    BY <1>1 DEF RestingOrders
  <2>2. QED
    BY <2>1, BackingToken, NotionalAtomsNat
<1>3. m.data[s].bal[t] \in Nat
  BY <1>1, SeatTyped DEF Seats
<1>4. CASE order.type = "Global"
  <2>1. SameSeats(m, ReturnOrder(m, i))
    BY <1>4, RemoveOrderSound DEF ReturnOrder
  <2>2. QED
    BY <1>3, <2>1 DEF SameSeats
<1>5. CASE order.type # "Global"
  <2>1. ReturnOrder(m, i) = RemoveOrder(paid, i)
    BY <1>5 DEF ReturnOrder
  <2>2. m.data[order.trader_index].bal[backing] + atoms >= 0
    BY <1>5 DEF CanReturnOrder, CanUpdateBalance
  <2>3. atoms \in Int
    BY <1>2
  <2> DEFINE seat == order.trader_index
  <2>4. /\ MarketSound(paid) /\ SameBlocks(m, paid)
        /\ paid.data[s].bal[t] = m.data[s].bal[t]
                  + (IF s = seat /\ t = backing THEN atoms ELSE 0)
    <3>1. seat \in SeatIndices(m) /\ m.data[seat].bal[backing] + atoms >= 0
      BY <1>1, <2>2
    <3>2. paid = UpdateBalance(m, seat, backing, atoms)
      OBVIOUS
    <3> HIDE DEF atoms, backing, order, seat, paid
    <3>3. /\ MarketSound(paid) /\ SameBlocks(m, paid)
          /\ \A j \in SeatIndices(m), k \in Tokens :
                paid.data[j].bal[k] = m.data[j].bal[k]
                    + (IF j = seat /\ k = backing THEN atoms ELSE 0)
      BY <1>2, <2>3, <3>1, <3>2, UpdateBalanceSound
    <3>4. QED
      BY <3>3
  <2> HIDE DEF atoms, backing, order, seat
  <2> HIDE DEF paid
  <2>5. i \in OrderIndices(paid) /\ s \in SeatIndices(paid)
    BY <2>4 DEF SameBlocks
  <2>6. RemoveOrder(paid, i).data[s] = paid.data[s]
    BY <2>4, <2>5, RemoveOrderSound DEF SameSeats
  <2>7. paid.data[s].bal[t] >= m.data[s].bal[t]
    BY <1>2, <1>3, <2>4
  <2>8. QED
    BY <2>1, <2>6, <2>7
<1>6. QED
  BY <1>4, <1>5

\* A cancel, or the loop at a stale or unbacked maker, returns the order at i.
ReturnedBy(i) ==
    /\ i \in OrderIndices(work.m) /\ work.m.data[i] \in RestingOrders
    /\ CanReturnOrder(work.m, i) /\ work'.m = ReturnOrder(work.m, i)
    /\ Removed(work.m, work'.m, i)
    /\ \A s \in SeatIndices(work.m), t \in Tokens :
            work'.m.data[s].bal[t] >= work.m.data[s].bal[t]
    /\ SameTokens(work, work')
    /\ SameOrderPlaced(ctx, ctx')
    /\ ctx.phase \in {"cancel", "match"} /\ ctx'.phase = ctx.phase
    /\ ctx'.orders = ctx.orders
    /\ ctx'.refunds = DeferredRefunds(work.m.data[i])
    /\ accounts' = accounts

LEMMA ReturnStep ==
    ASSUME IInv, ctx.phase \in {"cancel", "match"}, NEW i \in OrderIndices(work.m),
           CanReturnOrder(work.m, i), NEW cancels,
           Step([work EXCEPT !.m = ReturnOrder(work.m, i)],
                [ctx EXCEPT !.cancels = cancels, !.refunds = DeferredRefunds(work.m.data[i])])
    PROVE  ReturnedBy(i)
<1> DEFINE m == ReturnOrder(work.m, i)
           refunds == DeferredRefunds(work.m.data[i])
           w == [work EXCEPT !.m = m]
           c == [ctx EXCEPT !.cancels = cancels, !.refunds = refunds]
<1>1. work \in Accounts /\ ctx \in Contexts /\ MarketSound(work.m)
  BY BusySound DEF WorkSound
<1>2. /\ Removed(work.m, m, i) /\ work.m.data[i] \in RestingOrders
      /\ \A s \in SeatIndices(work.m), t \in Tokens : m.data[s].bal[t] >= work.m.data[s].bal[t]
  BY <1>1, ReturnOrderSound, ReturnOrderCredits, OrderTyped DEF MarketSound
<1> HIDE DEF m, refunds
<1>3. w.m = m /\ SameTokens(work, w)
  BY <1>1 DEF Accounts, SameTokens
<1>4. /\ c.phase = ctx.phase /\ c.orders = ctx.orders /\ c.refunds = refunds
      /\ SameOrderPlaced(ctx, c)
  BY <1>1 DEF Contexts, SameOrderPlaced
<1>5. accounts' = accounts /\ work' = w /\ ctx' = c
  BY DEF Step, m, refunds
<1> HIDE DEF w, c
<1>6. CanReturnOrder(work.m, i) /\ work'.m = ReturnOrder(work.m, i)
  BY <1>3, <1>5 DEF m
<1>7. QED
  BY <1>2, <1>3, <1>4, <1>5, <1>6 DEF ReturnedBy, refunds

LEMMA ReturnEffect ==
    ASSUME IInv, CancelOrder \/ CleanStaleMaker \/ CleanUnbackedMaker
    PROVE  \E i \in OrderIndices(work.m) : ReturnedBy(i)
<1>1. CASE CancelOrder
  <2>1. PICK i \in Index :
            /\ i \in OrderIndices(work.m) /\ CanReturnOrder(work.m, i)
            /\ Step([work EXCEPT !.m = ReturnOrder(@, i)],
                    [ctx EXCEPT !.cancels = Tail(@),
                                !.refunds = DeferredRefunds(work.m.data[i])])
    BY <1>1 DEF CancelOrder, IsCancelTarget, CanCancelOrder
  <2>2. ctx.phase = "cancel"
    BY <1>1 DEF CancelOrder
  <2>3. Step([work EXCEPT !.m = ReturnOrder(work.m, i)],
             [ctx EXCEPT !.cancels = Tail(ctx.cancels),
                         !.refunds = DeferredRefunds(work.m.data[i])])
    BY <2>1
  <2>4. QED
    BY <2>1, <2>2, <2>3, ReturnStep
<1>2. CASE CleanStaleMaker \/ CleanUnbackedMaker
  <2>1. PICK i \in Index : IsMaker(i) /\ CleanMaker(i)
    BY <1>2 DEF CleanStaleMaker, CleanUnbackedMaker
  <2>2. ctx.phase = "match" /\ i \in OrderIndices(work.m)
    BY <2>1, MakerSound
  <2>3. ctx \in Contexts
    BY BothMarkets
  <2>4. [ctx EXCEPT !.refunds = DeferredRefunds(work.m.data[i])]
          = [ctx EXCEPT !.cancels = ctx.cancels, !.refunds = DeferredRefunds(work.m.data[i])]
    BY <2>3 DEF Contexts
  <2>5. /\ CanReturnOrder(work.m, i)
        /\ Step([work EXCEPT !.m = ReturnOrder(work.m, i)],
                [ctx EXCEPT !.cancels = ctx.cancels,
                            !.refunds = DeferredRefunds(work.m.data[i])])
    BY <2>1, <2>4 DEF CleanMaker
  <2>6. QED
    BY <2>2, <2>5, ReturnStep
<1>3. QED
  BY <1>1, <1>2

\* The walk of the estimator touches nothing, and ends in an order of the swap.
LEMMA WalkEffect ==
    ASSUME IInv, WalkPast \/ CountMaker \/ StopWalking
    PROVE  /\ ctx.phase = "impact" /\ work' = work /\ accounts' = accounts
           /\ SameOrderPlaced(ctx, ctx') /\ ctx'.refunds = ctx.refunds
           /\ \/ ctx'.phase = "impact" /\ ctx'.orders = ctx.orders
              \/ ctx'.phase = "next" /\ \E total : ctx'.orders = <<SwapOrder(ctx.swap, total)>>
<1>1. ctx.phase = "impact"
  BY DEF WalkPast, CountMaker, StopWalking, Walked, Counts
<1>2. ctx \in Contexts
  BY BothMarkets
<1>3. ASSUME NEW total, Step(work, EstimateDone(total))
      PROVE  /\ work' = work /\ accounts' = accounts
             /\ SameOrderPlaced(ctx, ctx') /\ ctx'.refunds = ctx.refunds
             /\ ctx'.phase = "next" /\ ctx'.orders = <<SwapOrder(ctx.swap, total)>>
  <2> DEFINE c == EstimateDone(total)
             orders == <<SwapOrder(ctx.swap, total)>>
  <2>1. c = [ctx EXCEPT !.phase = "next", !.visited = {}, !.total = 0, !.left = 0,
                        !.orders = orders]
    BY DEF EstimateDone
  <2> HIDE DEF orders, c
  <2>2. /\ SameOrderPlaced(ctx, c) /\ c.refunds = ctx.refunds
        /\ c.phase = "next" /\ c.orders = orders
    BY <1>2, <2>1 DEF Contexts, SameOrderPlaced
  <2>3. QED
    BY <1>3, <2>2 DEF Step, c, orders
<1>4. ASSUME NEW visited, NEW total, NEW left,
             Step(work, [ctx EXCEPT !.visited = visited, !.total = total, !.left = left])
      PROVE  /\ work' = work /\ accounts' = accounts
             /\ SameOrderPlaced(ctx, ctx') /\ ctx'.refunds = ctx.refunds
             /\ ctx'.phase = "impact" /\ ctx'.orders = ctx.orders
  <2> DEFINE c == [ctx EXCEPT !.visited = visited, !.total = total, !.left = left]
  <2>1. /\ SameOrderPlaced(ctx, c) /\ c.refunds = ctx.refunds
        /\ c.phase = "impact" /\ c.orders = ctx.orders
    BY <1>1, <1>2 DEF Contexts, SameOrderPlaced
  <2>2. QED
    BY <1>4, <2>1 DEF Step
<1>5. CASE WalkPast
  <2>1. PICK i \in Index : Step(work, [ctx EXCEPT !.visited = @ \cup {i}])
    BY <1>5 DEF WalkPast
  <2> DEFINE visited == ctx.visited \cup {i}
  <2>2. [ctx EXCEPT !.visited = @ \cup {i}]
            = [ctx EXCEPT !.visited = visited, !.total = ctx.total, !.left = ctx.left]
    BY <1>2 DEF Contexts
  <2> HIDE DEF visited
  <2>3. QED
    BY <1>1, <1>4, <2>1, <2>2
<1>6. CASE CountMaker
  <2>1. PICK i \in Index :
          LET estimate == Estimate(i)
              total    == ctx.total + estimate.base
          IN  Step(work, IF ~ estimate.full \/ estimate.quote = ctx.left
                         THEN EstimateDone(total)
                         ELSE [ctx EXCEPT !.visited = @ \cup {i}, !.total = total,
                                          !.left = @ - estimate.quote])
    BY <1>6 DEF CountMaker
  <2> DEFINE estimate == Estimate(i)
             total == ctx.total + estimate.base
             visited == ctx.visited \cup {i}
             left == ctx.left - estimate.quote
  <2>2. \/ Step(work, EstimateDone(total))
        \/ Step(work, [ctx EXCEPT !.visited = visited, !.total = total, !.left = left])
    BY <2>1
  <2> HIDE DEF estimate, total, visited, left
  <2>3. QED
    BY <1>1, <1>3, <1>4, <2>2
<1>7. CASE StopWalking
  BY <1>1, <1>3, <1>7 DEF StopWalking
<1>8. QED
  BY <1>5, <1>6, <1>7

LEMMA StopMatchingEffect ==
    ASSUME IInv, StopMatching
    PROVE  /\ ctx.phase = "match" /\ ctx'.phase = "settle"
           /\ work' = work /\ accounts' = accounts
           /\ SameOrderPlaced(ctx, ctx') /\ ctx'.refunds = ctx.refunds
           /\ ctx'.orders = ctx.orders
BY BothMarkets DEF StopMatching, Step, Contexts, SameOrderPlaced

LEMMA BeginOrderEffect ==
    ASSUME IInv, BeginOrder
    PROVE  /\ ctx.phase = "next" /\ ctx'.phase = "match" /\ ctx.orders # <<>>
           /\ ctx.orders \in Seq(OrderArgs) /\ ctx.pending = 0
           /\ accounts' = accounts /\ SameTokens(work, work')
           /\ SameOrders(work.m, work'.m)
           /\ work'.m.data = work.m.data
           /\ ctx'.kind = ctx.kind /\ ctx'.seat = ctx.seat /\ ctx'.globals = ctx.globals
           /\ ctx'.swap = ctx.swap /\ ctx'.temp = ctx.temp /\ ctx'.initial = ctx.initial
           /\ ctx'.args = Head(ctx.orders) /\ ctx'.orders = Tail(ctx.orders)
           /\ ctx'.refunds = ctx.refunds
           /\ ctx'.pending = 0 /\ ctx'.traded = NoTokens
<1> DEFINE args == Head(ctx.orders)
           m == [work.m EXCEPT !.seq = @ + 1]
           w == [work EXCEPT !.m = m]
           c == [ctx EXCEPT !.phase = "match", !.orders = Tail(@), !.args = args,
                            !.seq = work.m.seq, !.remaining = args.base, !.pending = 0,
                            !.traded = NoTokens]
<1>1. ctx.phase = "next" /\ ctx.orders # <<>>
  BY DEF BeginOrder
<1>2. /\ work \in Accounts /\ ctx \in Contexts /\ work.m \in Markets /\ MarketSound(work.m)
      /\ ctx.orders \in Seq(OrderArgs) /\ ctx.pending = 0
  BY <1>1, BusySound DEF WorkSound, MarketSound, Contexts, MatchingPhases
<1>3. Step(w, c)
  BY <1>2 DEF BeginOrder, Accounts
<1>4. m.data = work.m.data /\ SameOrders(work.m, m)
  BY <1>2, SequenceSound DEF Markets, SameOrders
<1> HIDE DEF m
<1>5. w.m = m /\ SameTokens(work, w)
  BY <1>2 DEF Accounts, SameTokens
<1> HIDE DEF args
<1>6. /\ c.phase = "match" /\ c.kind = ctx.kind /\ c.seat = ctx.seat
      /\ c.globals = ctx.globals /\ c.swap = ctx.swap /\ c.temp = ctx.temp
      /\ c.initial = ctx.initial /\ c.args = args /\ c.orders = Tail(ctx.orders)
      /\ c.refunds = ctx.refunds /\ c.pending = 0 /\ c.traded = NoTokens
  BY <1>2 DEF Contexts
<1> HIDE DEF w, c
<1>7. work' = w /\ ctx' = c /\ accounts' = accounts
  BY <1>3 DEF Step
<1>8. QED
  BY <1>1, <1>2, <1>4, <1>5, <1>6, <1>7 DEF args

\* A swap starts with its input credited and nothing traded.
LEMMA SwapEffect ==
    ASSUME IInv, NEW trader \in Traders, NEW swap \in Swaps[trader],
           NEW globals \in GlobalsPassed, Swap(trader, swap, globals)
    PROVE  /\ ctx = Idle /\ work = accounts
           /\ accounts' = accounts /\ SameTokens(work, work')
           /\ SameOrders(work.m, work'.m)
           /\ \A t \in Tokens : work'.m.data[ctx'.seat].bal[t]
                    = ctx'.initial[t] + (IF t = InToken(ctx'.swap) THEN ctx'.swap.in ELSE 0)
           /\ ctx'.kind = "swap" /\ ctx'.swap = swap
           /\ ctx'.args = NoOrder /\ ctx'.pending = 0 /\ ctx'.refunds = NoTokens
           /\ ctx'.traded = NoTokens
           /\ \/ ctx'.phase = "impact" /\ ctx'.orders = <<>>
              \/ ctx'.phase = "next" /\ \E total : ctx'.orders = <<SwapOrder(swap, total)>>
<1> DEFINE existing == GetTraderIndex(accounts.m, trader)
           seated == IF existing = NIL THEN ClaimSeatOn(accounts.m, trader) ELSE accounts.m
           m == ExpandIfNeeded(seated)
           seat == GetTraderIndex(m, trader)
           token == InToken(swap)
           initial == m.data[seat].bal
           temp == (existing = NIL)
           begun == [Idle EXCEPT !.kind = "swap", !.seat = seat, !.globals = globals,
                                 !.swap = swap, !.temp = temp, !.initial = initial]
           n == UpdateBalance(m, seat, token, swap.in)
           w == [work EXCEPT !.m = n]
           orders == <<SwapOrder(swap, SizingAtoms(swap))>>
           walk == [begun EXCEPT !.phase = "impact", !.left = SizingAtoms(swap)]
           order == [begun EXCEPT !.phase = "next", !.orders = orders]
           c == IF IsQuoteSized(swap) THEN walk ELSE order
<1>1. /\ ctx = Idle /\ CanExpandIfNeeded(seated)
      /\ CanUpdateBalance(m, seat, token, swap.in)
      /\ existing = NIL => HasFreeBlock(accounts.m)
  BY DEF Swap
<1>2. Step(w, c)
  BY DEF Swap
<1>3. AccountsSound(accounts) /\ work = accounts /\ accounts \in Accounts /\ MarketSound(accounts.m)
  BY <1>1, IdleSound DEF AccountsSound
<1>4. MarketSound(m) /\ seat \in SeatIndices(m)
  BY <1>1, <1>3, SwapSeated
<1>5. MarketSound(seated) /\ SameOrders(accounts.m, seated)
  BY <1>1, <1>3, ClaimSeatSound DEF SameOrders
<1> HIDE DEF temp, existing, seated
<1>6. SameOrders(seated, m)
  BY <1>1, <1>5, ExpandIfNeededSound DEF SameOrders
<1> HIDE DEF m, seat
<1>7. swap.in \in Nat /\ token \in Tokens
  <2>1. swap \in SwapArgs
    BY ManifestAssumption
  <2>2. QED
    BY <2>1 DEF SwapArgs, InToken, Backing, Tokens
<1>8. /\ SameBlocks(m, n)
      /\ \A t \in Tokens : n.data[seat].bal[t]
                            = initial[t] + (IF t = token THEN swap.in ELSE 0)
  <2>1. m.data[seat].bal[token] + swap.in >= 0 /\ swap.in \in Int
    BY <1>1, <1>7 DEF CanUpdateBalance
  <2> HIDE DEF token
  <2>2. QED
    BY <1>4, <1>7, <2>1, UpdateBalanceSound
<1> HIDE DEF n, initial
<1>9. w.m = n /\ SameTokens(work, w)
  BY <1>3 DEF Accounts, SameTokens
<1>10. SameOrders(work.m, n)
  BY <1>3, <1>5, <1>6, <1>8, SameBlocksOrders DEF SameOrders
<1> HIDE DEF orders
<1>11. /\ c.kind = "swap" /\ c.seat = seat /\ c.swap = swap /\ c.initial = initial
       /\ c.args = NoOrder /\ c.pending = 0 /\ c.refunds = NoTokens /\ c.traded = NoTokens
       /\ \/ c.phase = "impact" /\ c.orders = <<>>
          \/ c.phase = "next" /\ c.orders = orders
  <2>1. /\ walk.kind = "swap" /\ walk.seat = seat /\ walk.swap = swap /\ walk.initial = initial
        /\ walk.args = NoOrder /\ walk.pending = 0 /\ walk.refunds = NoTokens
        /\ walk.traded = NoTokens /\ walk.phase = "impact" /\ walk.orders = <<>>
    BY DEF Idle
  <2>2. /\ order.kind = "swap" /\ order.seat = seat /\ order.swap = swap
        /\ order.initial = initial /\ order.args = NoOrder /\ order.pending = 0
        /\ order.refunds = NoTokens /\ order.traded = NoTokens
        /\ order.phase = "next" /\ order.orders = orders
    BY DEF Idle
  <2> HIDE DEF walk, order
  <2>3. QED
    BY <2>1, <2>2
<1> HIDE DEF w, c
<1>12. work' = w /\ ctx' = c /\ accounts' = accounts
  BY <1>2 DEF Step
<1>13. c.phase = "next" => \E total : c.orders = <<SwapOrder(swap, total)>>
  BY <1>11 DEF orders
<1>14. \A t \in Tokens : n.data[seat].bal[t]
            = initial[t] + (IF t = InToken(swap) THEN swap.in ELSE 0)
  BY <1>8
<1> HIDE DEF token
<1>15. QED
  BY <1>1, <1>3, <1>9, <1>10, <1>11, <1>12, <1>13, <1>14

-----------------------------------------------------------------------------
(* Deposits in the course of a batch or swap. *)

\* Steps at which no deposit changes and nothing new is owed.
LEMMA QuietDeposits ==
    ASSUME DepositsInv, accounts' = accounts, work'.glob = work.glob,
           ctx'.args = ctx.args, ctx'.pending = ctx.pending
    PROVE  DepositsInv'
<1>1. SameDeposits(work.glob, work'.glob)
  BY DEF SameDeposits
<1>2. \A token \in Tokens : PendingOf(ctx', token) = PendingOf(ctx, token)
  BY DEF PendingOf
<1>3. QED
  BY <1>1, <1>2, SameDepositsStep

LEMMA TradeArrivalDeposits ==
    ASSUME IInv, DepositsInv, TradeArrival
    PROVE  DepositsInv'
<1>1. PICK trader \in Traders, globals \in GlobalsPassed :
        \/ \E batch \in Batches[trader] :
            \E cancels \in [1 .. batch.cancels -> CancelParams(accounts.m)] :
                BatchUpdate(trader, batch, globals, cancels)
        \/ \E swap \in Swaps[trader] : Swap(trader, swap, globals)
  BY DEF TradeArrival
<1>2. CASE \E batch \in Batches[trader] :
            \E cancels \in [1 .. batch.cancels -> CancelParams(accounts.m)] :
                BatchUpdate(trader, batch, globals, cancels)
  <2>1. /\ accounts' = accounts /\ work' = work
        /\ ctx'.args = ctx.args /\ ctx'.pending = ctx.pending
    BY <1>2 DEF BatchUpdate, Step, Idle
  <2>2. QED
    BY <2>1, QuietDeposits
<1>3. CASE \E swap \in Swaps[trader] : Swap(trader, swap, globals)
  <2>1. PICK swap \in Swaps[trader] : Swap(trader, swap, globals)
    BY <1>3
  <2>2. /\ accounts' = accounts /\ SameTokens(work, work') /\ ctx = Idle
        /\ ctx'.args = NoOrder /\ ctx'.pending = 0
    BY <2>1, SwapEffect
  <2>3. ctx.args = NoOrder /\ ctx.pending = 0
    BY <2>2 DEF Idle
  <2>4. QED
    BY <2>2, <2>3, QuietDeposits DEF SameTokens
<1>4. QED
  BY <1>1, <1>2, <1>3

LEMMA QuietStepDeposits ==
    ASSUME IInv, DepositsInv,
           \/ CancelOrder \/ CleanStaleMaker \/ CleanUnbackedMaker \/ PlaceReverse
           \/ StopMatching \/ WalkPast \/ CountMaker \/ StopWalking
    PROVE  DepositsInv'
<1>1. CASE CancelOrder \/ CleanStaleMaker \/ CleanUnbackedMaker
  BY <1>1, ReturnEffect, QuietDeposits DEF ReturnedBy, SameTokens, SameOrderPlaced
<1>2. CASE PlaceReverse
  <2>1. /\ ctx \in Contexts /\ work'.glob = work.glob /\ accounts' = accounts
        /\ ctx' = [ctx EXCEPT !.phase = "match", !.reversal = NoReversal]
    BY <1>2, PlaceReverseEffect
  <2>2. ctx'.args = ctx.args /\ ctx'.pending = ctx.pending
    BY <2>1 DEF Contexts
  <2>3. QED
    BY <2>1, <2>2, QuietDeposits
<1>3. CASE StopMatching
  BY <1>3, StopMatchingEffect, QuietDeposits DEF SameOrderPlaced
<1>4. CASE WalkPast \/ CountMaker \/ StopWalking
  BY <1>4, WalkEffect, QuietDeposits DEF SameOrderPlaced
<1>5. QED
  BY <1>1, <1>2, <1>3, <1>4

\* Gas prepayments and refunds leave the deposits alone, and FinishSwap the
\* global accounts.
LEMMA GasStepDeposits ==
    ASSUME IInv, DepositsInv, PrepayGas \/ FinishBatch \/ FinishSwap
    PROVE  DepositsInv'
<1>1. ctx.phase \in {"cancel", "next"}
  BY DEF PrepayGas, FinishBatch, FinishSwap, SwapOrderDone
<1>2. work \in Accounts /\ ctx \in Contexts /\ ctx.phase \notin MatchingPhases
  BY <1>1, BusySound DEF WorkSound, MatchingPhases
<1>3. CASE PrepayGas
  <2> DEFINE glob == [token \in Tokens |->
                        [work.glob[token] EXCEPT !.gas = @ + GasPrepayments(token)]]
             w == [work EXCEPT !.glob = glob]
             c == [ctx EXCEPT !.phase = "next"]
  <2>1. Step(w, c)
    BY <1>3 DEF PrepayGas
  <2>2. SameDeposits(work.glob, glob)
    BY <1>2 DEF SameDeposits, Accounts, Globals
  <2> HIDE DEF glob
  <2>3. w.glob = glob /\ c.args = ctx.args /\ c.pending = ctx.pending
    BY <1>2 DEF Accounts, Contexts
  <2> HIDE DEF w, c
  <2>4. accounts' = accounts /\ work' = w /\ ctx' = c
    BY <2>1 DEF Step
  <2>5. \A token \in Tokens : PendingOf(ctx', token) = PendingOf(ctx, token)
    BY <2>3, <2>4 DEF PendingOf
  <2>6. QED
    BY <2>2, <2>3, <2>4, <2>5, SameDepositsStep
<1>4. CASE FinishBatch
  <2> DEFINE glob == [token \in Tokens |->
                        [work.glob[token] EXCEPT !.gas = @ - ctx.refunds[token]]]
             a == [work EXCEPT !.glob = glob]
  <2>1. Commit(a)
    BY <1>4 DEF FinishBatch
  <2>2. SameDeposits(work.glob, glob)
    BY <1>2 DEF SameDeposits, Accounts, Globals
  <2> HIDE DEF glob
  <2>3. a.glob = glob
    BY <1>2 DEF Accounts
  <2> HIDE DEF a
  <2>4. QED
    BY <1>2, <2>1, <2>2, <2>3, SameDepositsCommit
<1>5. CASE FinishSwap
  <2>1. PICK vault, wallet :
            Commit([work EXCEPT !.m = SeatSettled, !.vault = vault, !.wallet = wallet])
    BY <1>5 DEF FinishSwap
  <2> DEFINE a == [work EXCEPT !.m = SeatSettled, !.vault = vault, !.wallet = wallet]
  <2>2. a.glob = work.glob
    BY <1>2 DEF Accounts
  <2> HIDE DEF a
  <2>3. SameDeposits(work.glob, a.glob)
    BY <2>2 DEF SameDeposits
  <2>4. QED
    BY <1>2, <2>1, <2>3, SameDepositsCommit DEF a
<1>6. QED
  BY <1>3, <1>4, <1>5

LEMMA BeginOrderDeposits ==
    ASSUME IInv, DepositsInv, BeginOrder
    PROVE  DepositsInv'
<1>1. /\ ctx.pending = 0 /\ ctx'.pending = 0
      /\ accounts' = accounts /\ SameTokens(work, work')
  BY BeginOrderEffect
<1>2. \A token \in Tokens : PendingOf(ctx', token) = PendingOf(ctx, token)
  BY <1>1 DEF PendingOf
<1>3. SameDeposits(work.glob, work'.glob)
  BY <1>1 DEF SameDeposits, SameTokens
<1>4. QED
  BY <1>1, <1>2, <1>3, SameDepositsStep

\* What a trade takes from the deposit of a global maker is owed until the end
\* of the order: the maker holds a seat with as much, or it would not match.
LEMMA FillDeposits ==
    ASSUME IInv, DepositsInv, Fill
    PROVE  DepositsInv'
<1>1. PICK i \in Index : FilledBy(i)
  BY FillEffect
<1> DEFINE order == work.m.data[i]
           got == Trade(i).got
           maker == work.m.data[order.trader_index].trader
           owes == order.type = "Global"
           token == MakerToken
           before == work.glob[token]
           g == IF owes THEN UpdateDeposit(before, maker, - got) ELSE before
           glob == [work.glob EXCEPT ![token] = g]
<1>2. /\ IsMaker(i) /\ CanFill(i) /\ maker \in Traders /\ got \in Nat
      /\ accounts' = accounts /\ ctx'.args = ctx.args
      /\ work'.glob = glob
      /\ ctx'.pending = IF owes THEN ctx.pending + got ELSE ctx.pending
  BY <1>1 DEF FilledBy
<1>3. work \in Accounts /\ ctx \in Contexts
  BY <1>2, MakerSound, BusySound DEF WorkSound
<1>4. token \in Tokens /\ before \in Globals /\ ctx.pending \in Nat
  BY <1>3 DEF MakerToken, Backing, Tokens, Accounts, Contexts
<1>5. owes => maker \in before.seats /\ before.dep[maker] + (- got) >= 0
  <2>1. owes => HasGlobalSeat(before, maker) /\ CanBackOrder(before, maker, got)
    BY <1>2 DEF CanFill, IsGlobalMaker, IsBacked
  <2>2. before.dep[maker] \in Nat
    BY <1>2, <1>4 DEF Globals
  <2> HIDE DEF got, maker, before, owes
  <2>3. QED
    BY <1>2, <2>1, <2>2 DEF HasGlobalSeat, CanBackOrder
<1>6. DepositsSound(before, ctx.pending)
  BY <1>4 DEF DepositsInv, AllDepositsSound, PendingOf, MakerToken
<1> HIDE DEF order, got, maker, owes, before, token
<1>7. DepositsSound(g, ctx'.pending)
  <2>1. CASE owes
    <3>1. - got \in Int /\ ctx.pending \in Int /\ ctx.pending - (- got) = ctx.pending + got
        BY <1>2, <1>4
    <3>2. DepositsSound(UpdateDeposit(before, maker, - got), ctx.pending - (- got))
        BY <1>4, <1>5, <1>6, <2>1, <3>1, DepositMoved
    <3>3. QED
        BY <1>2, <2>1, <3>1, <3>2
  <2>2. CASE ~ owes
    BY <1>2, <1>6, <2>2
  <2>3. QED
    BY <2>1, <2>2
<1> HIDE DEF g
<1>8. \A t \in Tokens : DepositsSound(glob[t], PendingOf(ctx', t))
  <2> SUFFICES ASSUME NEW t \in Tokens
               PROVE  DepositsSound(glob[t], PendingOf(ctx', t))
    OBVIOUS
  <2>1. CASE t = token
    <3>1. glob[t] = g
        BY <1>3, <1>4, <2>1 DEF Accounts
    <3>2. PendingOf(ctx', t) = ctx'.pending
        BY <1>2, <2>1 DEF PendingOf, token, MakerToken
    <3>3. QED
        BY <1>7, <3>1, <3>2
  <2>2. CASE t # token
    <3>1. glob[t] = work.glob[t]
        BY <1>3, <1>4, <2>2 DEF Accounts
    <3>2. PendingOf(ctx', t) = 0 /\ PendingOf(ctx, t) = 0
        BY <1>2, <2>2 DEF PendingOf, token, MakerToken
    <3>3. DepositsSound(work.glob[t], PendingOf(ctx, t))
        BY DEF DepositsInv, AllDepositsSound
    <3>4. QED
        BY <3>1, <3>2, <3>3
  <2>3. QED
    BY <2>1, <2>2
<1>9. QED
  BY <1>2, <1>8, StepDeposits DEF AllDepositsSound

\* The vault delivers what the global makers owe.
LEMMA FinishOrderDeposits ==
    ASSUME IInv, DepositsInv, FinishOrder
    PROVE  DepositsInv'
<1> DEFINE token == MakerToken
           before == work.glob[token]
           g == [before EXCEPT !.vault = @ - ctx.pending]
           glob == [work.glob EXCEPT ![token] = g]
<1>1. /\ work \in Accounts /\ ctx \in Contexts /\ accounts' = accounts
      /\ work'.glob = [work.glob EXCEPT ![MakerToken].vault = @ - ctx.pending]
      /\ ctx' = [ctx EXCEPT !.phase = "next", !.pending = 0, !.remaining = 0, !.seq = 0]
  BY FinishOrderEffect
<1>2. /\ token \in Tokens /\ before \in Globals /\ ctx.pending \in Nat
      /\ ctx'.pending = 0 /\ work'.glob = glob
  BY <1>1 DEF MakerToken, Backing, Tokens, Accounts, Contexts
<1>3. DepositsSound(before, ctx.pending)
  BY <1>2 DEF DepositsInv, AllDepositsSound, PendingOf, MakerToken
<1> HIDE DEF before
<1>4. DepositsSound(g, 0)
  BY <1>2, <1>3 DEF DepositsSound, Globals
<1> HIDE DEF g, token
<1>5. \A t \in Tokens : PendingOf(ctx', t) = 0
  BY <1>2 DEF PendingOf
<1>6. \A t \in Tokens : DepositsSound(glob[t], 0)
  <2> SUFFICES ASSUME NEW t \in Tokens PROVE DepositsSound(glob[t], 0)
    OBVIOUS
  <2>1. CASE t = token
    BY <1>1, <1>2, <1>4, <2>1 DEF Accounts
  <2>2. CASE t # token
    <3>1. glob[t] = work.glob[t]
        BY <1>1, <1>2, <2>2 DEF Accounts
    <3>2. PendingOf(ctx, t) = 0
        BY <2>2 DEF PendingOf, token, MakerToken
    <3>3. QED
        BY <3>1, <3>2 DEF DepositsInv, AllDepositsSound
  <2>3. QED
    BY <2>1, <2>2
<1>7. QED
  BY <1>1, <1>2, <1>5, <1>6, StepDeposits DEF AllDepositsSound

LEMMA NextDeposits ==
    ASSUME IInv, DepositsInv, [Next]_vars
    PROVE  DepositsInv'
<1>1. CASE MarketArrival \/ GlobalArrival \/ TradeArrival
  BY <1>1, MarketArrivalDeposits, GlobalArrivalDeposits, TradeArrivalDeposits
<1>2. CASE AdvanceSlot \/ UNCHANGED vars
  BY <1>2 DEF AdvanceSlot, vars, DepositsInv, AllDepositsSound, DepositsSound, PendingOf, Idle
<1>3. CASE Progress
  <2>1. CASE \/ CancelFails \/ PrepayGasFails \/ BeginOrderFails \/ FillFails
             \/ PlaceReverseFails \/ FinishOrderFails \/ EstimateFails \/ FinishSwapFails
    <3>1. Abort
        BY <2>1 DEF CancelFails, PrepayGasFails, BeginOrderFails, FillFails,
                    PlaceReverseFails, FinishOrderFails, EstimateFails, FinishSwapFails
    <3>2. QED
        BY <3>1, AbortDeposits
  <2>2. CASE \/ CancelOrder \/ CleanStaleMaker \/ CleanUnbackedMaker \/ PlaceReverse
             \/ StopMatching \/ WalkPast \/ CountMaker \/ StopWalking
    BY <2>2, QuietStepDeposits
  <2>3. CASE PrepayGas \/ FinishBatch \/ FinishSwap
    BY <2>3, GasStepDeposits
  <2>4. CASE BeginOrder \/ Fill \/ FinishOrder
    BY <2>4, BeginOrderDeposits, FillDeposits, FinishOrderDeposits
  <2>5. QED
    BY <1>3, <2>1, <2>2, <2>3, <2>4 DEF Progress
<1>4. QED
  BY <1>1, <1>2, <1>3 DEF Next

LEMMA InitDeposits ==
    ASSUME Init
    PROVE  DepositsInv
<1>1. /\ accounts.glob = [token \in Tokens |-> NewGlobal]
      /\ work = accounts /\ ctx = Idle
  BY DEF Init
<1>2. QED
  BY <1>1, NewGlobalDeposits, NothingPending DEF DepositsInv, AllDepositsSound

\* A global vault holds exactly the deposits of the traders who have a seat on the
\* account, and within an instruction what its global makers have sold and the
\* market vault has not received: whoever is evicted, withdraws or is matched on
\* whichever market, no deposit is backed by another trader's tokens.
THEOREM GlobalVaultsExact == Spec => []GlobalVaultBacksDeposits
<1>1. Init => DepositsInv
  BY InitDeposits
<1>2. IInv /\ DepositsInv /\ [Next]_vars => DepositsInv'
  BY NextDeposits
<1>3. Spec => []DepositsInv
  BY <1>1, <1>2, Inductive, PTL DEF Spec
<1>4. DepositsInv => GlobalVaultBacksDeposits
  BY DEF DepositsInv, AllDepositsSound, DepositsSound, PendingOf, GlobalVaultBacksDeposits,
         Pending, MakerToken
<1>5. QED
  BY <1>3, <1>4, PTL

-----------------------------------------------------------------------------
(* Gas. *)

\* The resting orders that the global account of the token backs.
GlobalOrders(m, token) ==
    {i \in OrderIndices(m) :
        m.data[i].type = "Global" /\ Backing(m.data[i].is_bid) = token}

IsGlobalOf(order, token) == order.type = "Global" /\ Backing(order.is_bid) = token

\* The orders still to be placed that it will.
Prepaid(orders, token) ==
    Cardinality({k \in 1 .. Len(orders) :
                    orders[k].type = "Global" /\ Backing(orders[k].is_bid) = token})

\* Prepayments made for orders that do not rest yet: the prepayments come after the
\* cancels, and an order that is being matched has not been placed.
Ahead(c, token) ==
    CASE c.phase = "next" -> Prepaid(c.orders, token)
      [] c.phase \in MatchingPhases ->
            Prepaid(c.orders, token) + (IF IsGlobalOf(c.args, token) THEN 1 ELSE 0)
      [] OTHER -> 0

GasSound(m, glob, c) ==
    \A token \in Tokens :
        glob[token].gas >=
            c.refunds[token] + Ahead(c, token) + Cardinality(GlobalOrders(m, token))

GasInv ==
    /\ GasSound(accounts.m, accounts.glob, Idle)
    /\ GasSound(work.m, work.glob, ctx)

LEMMA GlobalOrdersFinite ==
    ASSUME NEW m, NEW token
    PROVE  IsFiniteSet(GlobalOrders(m, token)) /\ Cardinality(GlobalOrders(m, token)) \in Nat
<1>1. GlobalOrders(m, token) \subseteq Index
  BY DEF GlobalOrders, OrderIndices
<1>2. IsFiniteSet(GlobalOrders(m, token))
  BY <1>1, IndexFinite, FS_Subset
<1>3. QED
  BY <1>2, FS_CardinalityType

LEMMA SameGlobalOrders ==
    ASSUME NEW m, NEW n, SameOrders(m, n), NEW token
    PROVE  GlobalOrders(n, token) = GlobalOrders(m, token)
BY DEF SameOrders, GlobalOrders

LEMMA ResizedGlobalOrders ==
    ASSUME NEW m \in Markets, NEW n, NEW i \in OrderIndices(m), Resized(m, n, i), NEW token
    PROVE  GlobalOrders(n, token) = GlobalOrders(m, token)
<1>1. m.data[i] \in RestingOrders
  BY OrderTyped
<1>2. n.data[i].type = m.data[i].type /\ n.data[i].is_bid = m.data[i].is_bid
  BY <1>1 DEF Resized, RestingOrders
<1>3. \A j \in OrderIndices(m) :
        n.data[j].type = m.data[j].type /\ n.data[j].is_bid = m.data[j].is_bid
  BY <1>2 DEF Resized
<1>4. QED
  BY <1>3 DEF Resized, GlobalOrders

LEMMA RemovedGlobalOrders ==
    ASSUME NEW m, NEW n, NEW i \in OrderIndices(m), Removed(m, n, i), NEW token
    PROVE  Cardinality(GlobalOrders(n, token)) =
             Cardinality(GlobalOrders(m, token)) - (IF IsGlobalOf(m.data[i], token) THEN 1 ELSE 0)
<1>1. GlobalOrders(n, token) = GlobalOrders(m, token) \ {i}
  BY DEF GlobalOrders, Removed
<1>2. i \in GlobalOrders(m, token) <=> IsGlobalOf(m.data[i], token)
  BY DEF GlobalOrders, IsGlobalOf
<1>3. /\ IsFiniteSet(GlobalOrders(m, token))
      /\ Cardinality(GlobalOrders(m, token)) \in Nat
  BY GlobalOrdersFinite
<1>4. Cardinality(GlobalOrders(m, token) \ {i}) =
        IF i \in GlobalOrders(m, token) THEN Cardinality(GlobalOrders(m, token)) - 1
        ELSE Cardinality(GlobalOrders(m, token))
  BY <1>3, FS_RemoveElement
<1>5. CASE IsGlobalOf(m.data[i], token)
  BY <1>1, <1>2, <1>3, <1>4, <1>5
<1>6. CASE ~ IsGlobalOf(m.data[i], token)
  BY <1>1, <1>2, <1>3, <1>4, <1>6
<1>7. QED
  BY <1>5, <1>6

LEMMA InsertedGlobalOrders ==
    ASSUME NEW m, NEW n, NEW order, Inserted(m, n, order), NEW token
    PROVE  Cardinality(GlobalOrders(n, token)) =
             Cardinality(GlobalOrders(m, token)) + (IF IsGlobalOf(order, token) THEN 1 ELSE 0)
<1>1. PICK h \in Index \ OrderIndices(m) :
        /\ OrderIndices(n) = OrderIndices(m) \cup {h}
        /\ \A j \in OrderIndices(m) : n.data[j] = m.data[j]
        /\ n.data[h] = order
  BY DEF Inserted
<1>2. h \notin GlobalOrders(m, token)
  BY DEF GlobalOrders
<1>3. CASE IsGlobalOf(order, token)
  <2>1. GlobalOrders(n, token) = GlobalOrders(m, token) \cup {h}
    BY <1>1, <1>3 DEF GlobalOrders, IsGlobalOf
  <2>2. QED
    BY <1>2, <1>3, <2>1, GlobalOrdersFinite, FS_AddElement
<1>4. CASE ~ IsGlobalOf(order, token)
  <2>1. GlobalOrders(n, token) = GlobalOrders(m, token)
    BY <1>1, <1>4 DEF GlobalOrders, IsGlobalOf
  <2>2. QED
    BY <1>4, <2>1, GlobalOrdersFinite
<1>5. QED
  BY <1>3, <1>4

LEMMA PrepaidNat ==
    ASSUME NEW orders \in Seq(OrderArgs), NEW token
    PROVE  /\ IsFiniteSet({k \in 1 .. Len(orders) : IsGlobalOf(orders[k], token)})
           /\ Prepaid(orders, token) =
                Cardinality({k \in 1 .. Len(orders) : IsGlobalOf(orders[k], token)})
           /\ Prepaid(orders, token) \in Nat
<1> DEFINE S == {k \in 1 .. Len(orders) : IsGlobalOf(orders[k], token)}
<1>1. IsFiniteSet(1 .. Len(orders))
  BY FS_Interval
<1>2. IsFiniteSet(S)
  BY <1>1, FS_Subset
<1>3. Prepaid(orders, token) = Cardinality(S)
  BY DEF Prepaid, IsGlobalOf
<1>4. QED
  BY <1>2, <1>3, FS_CardinalityType

\* The prepayment of the next order is one of those for all the orders.
LEMMA PrepaidTail ==
    ASSUME NEW orders \in Seq(OrderArgs), orders # <<>>, NEW token
    PROVE  Prepaid(Tail(orders), token) + (IF IsGlobalOf(Head(orders), token) THEN 1 ELSE 0)
             <= Prepaid(orders, token)
<1> DEFINE tail == Tail(orders)
           S == {k \in 1 .. Len(orders) : IsGlobalOf(orders[k], token)}
           T == {k \in 1 .. Len(tail) : IsGlobalOf(tail[k], token)}
           shift == [k \in T |-> k + 1]
<1>1. /\ Len(orders) \in Nat /\ Len(orders) >= 1 /\ Head(orders) = orders[1]
      /\ tail \in Seq(OrderArgs) /\ Len(tail) = Len(orders) - 1
      /\ \A k \in 1 .. Len(tail) : tail[k] = orders[k + 1]
  OBVIOUS
<1> HIDE DEF tail
<1>2. /\ IsFiniteSet(S) /\ IsFiniteSet(T)
      /\ Prepaid(orders, token) = Cardinality(S) /\ Prepaid(tail, token) = Cardinality(T)
  BY <1>1, PrepaidNat
<1>3. Cardinality(S) \in Nat /\ Cardinality(T) \in Nat
  BY <1>2, FS_CardinalityType
<1>4. /\ IsFiniteSet(S \ {1})
      /\ Cardinality(S \ {1}) = IF 1 \in S THEN Cardinality(S) - 1 ELSE Cardinality(S)
  BY <1>2, FS_RemoveElement
<1>5. shift \in Injection(T, S \ {1})
  <2>1. \A k \in T : k \in Nat /\ k + 1 \in S /\ k + 1 # 1
    BY <1>1
  <2> HIDE DEF S, T
  <2>2. shift \in [T -> S \ {1}]
    BY <2>1
  <2>3. \A j, k \in T : shift[j] = shift[k] => j = k
    BY <2>1
  <2>4. QED
    BY <2>2, <2>3 DEF Injection, IsInjective
<1>6. Cardinality(T) <= Cardinality(S \ {1})
  BY <1>4, <1>5, FS_Injection
<1>7. 1 \in S <=> IsGlobalOf(Head(orders), token)
  BY <1>1
<1> HIDE DEF S, T
<1>8. QED
  BY <1>2, <1>3, <1>4, <1>6, <1>7 DEF tail

\* An order of a swap is not a global one.
LEMMA PrepaidSwap ==
    ASSUME NEW swap, NEW total, NEW token
    PROVE  Prepaid(<<SwapOrder(swap, total)>>, token) = 0
<1> DEFINE orders == <<SwapOrder(swap, total)>>
<1>1. Len(orders) = 1 /\ orders[1].type = "ImmediateOrCancel"
  BY DEF SwapOrder
<1>2. \A k \in 1 .. Len(orders) : k = 1
  BY <1>1
<1> HIDE DEF orders
<1>3. {k \in 1 .. Len(orders) :
         orders[k].type = "Global" /\ Backing(orders[k].is_bid) = token} = {}
  BY <1>1, <1>2
<1>4. QED
  BY <1>3, FS_EmptySet DEF Prepaid, orders

LEMMA PrepaidNone ==
    ASSUME NEW token
    PROVE  Prepaid(<<>>, token) = 0
<1>1. \A k \in 1 .. Len(<<>>) : FALSE
  OBVIOUS
<1>2. {k \in 1 .. Len(<<>>) :
         <<>>[k].type = "Global" /\ Backing(<<>>[k].is_bid) = token} = {}
  BY <1>1
<1>3. QED
  BY <1>2, FS_EmptySet DEF Prepaid

\* The counters are integers.
LEMMA GasNumbers ==
    ASSUME NEW w \in Accounts, NEW c \in Contexts, NEW token \in Tokens
    PROVE  /\ w.glob[token].gas \in Int /\ c.refunds[token] \in Nat
           /\ Cardinality(GlobalOrders(w.m, token)) \in Nat
           /\ Prepaid(c.orders, token) \in Nat /\ Ahead(c, token) \in Nat
<1>1. w.glob[token].gas \in Int
  BY DEF Accounts, Globals
<1>2. c.refunds[token] \in Nat /\ c.orders \in Seq(OrderArgs)
  BY DEF Contexts
<1>3. Prepaid(c.orders, token) \in Nat
  BY <1>2, PrepaidNat
<1>4. Ahead(c, token) \in Nat
  BY <1>3 DEF Ahead
<1>5. QED
  BY <1>1, <1>2, <1>3, <1>4, GlobalOrdersFinite

LEMMA NothingAhead == \A token \in Tokens : Ahead(Idle, token) = 0 /\ Idle.refunds[token] = 0
BY DEF Ahead, Idle, MatchingPhases, NoTokens

\* The same gas for the same orders.
LEMMA SameGas ==
    ASSUME NEW m, NEW n, NEW glob, NEW after, NEW c, NEW d, GasSound(m, glob, c),
           SameOrders(m, n),
           \A token \in Tokens :
                /\ after[token].gas = glob[token].gas
                /\ d.refunds[token] = c.refunds[token] /\ Ahead(d, token) = Ahead(c, token)
    PROVE  GasSound(n, after, d)
BY SameGlobalOrders DEF GasSound

LEMMA GasInvNext ==
    ASSUME GasSound(accounts'.m, accounts'.glob, Idle), GasSound(work'.m, work'.glob, ctx')
    PROVE  GasInv'
BY DEF GasInv, GasSound, Ahead, Prepaid, IsGlobalOf, GlobalOrders, OrderIndices, Backing,
       MatchingPhases, Idle

LEMMA StepGas ==
    ASSUME GasInv, accounts' = accounts, GasSound(work'.m, work'.glob, ctx')
    PROVE  GasInv'
BY GasInvNext DEF GasInv

LEMMA CommitGas ==
    ASSUME NEW a, Commit(a), GasSound(a.m, a.glob, Idle)
    PROVE  GasInv'
BY GasInvNext DEF Commit

LEMMA AbortGas ==
    ASSUME GasInv, Abort
    PROVE  GasInv'
BY GasInvNext DEF Abort, GasInv

-----------------------------------------------------------------------------
(* Gas of the instructions of one step. *)

\* Seats, funds and blocks of the market.
LEMMA MarketArrivalGas ==
    ASSUME IInv, GasInv, MarketArrival
    PROVE  GasInv'
<1>1. PICK a : Commit(a) /\ SameOrders(accounts.m, a.m)
  BY MarketArrivalOrders DEF OrdersStay
<1>2. PICK m \in Markets : \E vault, wallet :
        Commit([accounts EXCEPT !.m = m, !.vault = vault, !.wallet = wallet])
  BY MarketArrivalGlobals
<1>3. PICK vault, wallet :
        Commit([accounts EXCEPT !.m = m, !.vault = vault, !.wallet = wallet])
  BY <1>2
<1> DEFINE b == [accounts EXCEPT !.m = m, !.vault = vault, !.wallet = wallet]
<1>4. b.glob = accounts.glob
  BY MarketArrivalGlobals, IdleSound DEF AccountsSound, Accounts
<1> HIDE DEF b
<1>5. accounts' = a /\ accounts' = b
  BY <1>1, <1>3 DEF Commit, b
<1>6. a.glob = accounts.glob
  BY <1>4, <1>5
<1>7. GasSound(a.m, a.glob, Idle)
  BY <1>1, <1>6, SameGas DEF GasInv
<1>8. QED
  BY <1>1, <1>7, CommitGas

\* Seats and deposits on a global account.
LEMMA OneGlobalGas ==
    ASSUME IInv, GasInv, ctx = Idle, NEW token \in Tokens, NEW g, NEW wallet,
           g.gas = accounts.glob[token].gas,
           Commit([accounts EXCEPT !.glob = [accounts.glob EXCEPT ![token] = g],
                                   !.wallet = wallet])
    PROVE  GasInv'
<1> DEFINE glob == [accounts.glob EXCEPT ![token] = g]
           a == [accounts EXCEPT !.glob = glob, !.wallet = wallet]
<1>1. accounts \in Accounts
  BY IdleSound DEF AccountsSound
<1>2. \A t \in Tokens : glob[t].gas = accounts.glob[t].gas
  BY <1>1 DEF Accounts
<1> HIDE DEF glob
<1>3. a.m = accounts.m /\ a.glob = glob
  BY <1>1 DEF Accounts
<1> HIDE DEF a
<1>4. SameOrders(accounts.m, a.m)
  BY <1>3 DEF SameOrders
<1>5. GasSound(a.m, a.glob, Idle)
  BY <1>2, <1>3, <1>4, SameGas DEF GasInv
<1>6. QED
  BY <1>5, CommitGas DEF a, glob

LEMMA GlobalSeatGas ==
    ASSUME IInv, GasInv, NEW trader \in Traders, NEW token \in Tokens, NEW atoms \in Nat,
           \/ GlobalAddTrader(trader, token) \/ GlobalDeposit(trader, token, atoms)
           \/ GlobalWithdraw(trader, token, atoms)
           \/ \E evictee \in Traders : GlobalEvict(trader, evictee, token, atoms)
    PROVE  GasInv'
<1>1. ctx = Idle
  BY DEF GlobalAddTrader, GlobalDeposit, GlobalWithdraw, GlobalEvict
<1>2. accounts \in Accounts /\ accounts.glob[token] \in Globals
  BY <1>1, IdleSound DEF AccountsSound, Accounts
<1> DEFINE before == accounts.glob[token]
<1>3. CASE GlobalAddTrader(trader, token)
  <2> DEFINE g == AddTrader(before, trader)
             wallet == accounts.wallet
  <2>1. g.gas = before.gas
    BY <1>2 DEF AddTrader, Globals
  <2>2. Commit([accounts EXCEPT !.glob = [accounts.glob EXCEPT ![token] = g],
                                !.wallet = wallet])
    BY <1>2, <1>3 DEF GlobalAddTrader, Accounts
  <2> HIDE DEF g, wallet
  <2>3. QED
    BY <1>1, <2>1, <2>2, OneGlobalGas
<1>4. CASE GlobalDeposit(trader, token, atoms)
  <2> DEFINE g == [UpdateDeposit(before, trader, atoms) EXCEPT !.vault = @ + atoms]
             wallet == [accounts.wallet EXCEPT ![trader][token] = @ - atoms]
  <2>1. g.gas = before.gas
    BY <1>2 DEF UpdateDeposit, Globals
  <2>2. Commit([accounts EXCEPT !.glob = [accounts.glob EXCEPT ![token] = g],
                                !.wallet = wallet])
    BY <1>2, <1>4 DEF GlobalDeposit, Accounts
  <2> HIDE DEF g, wallet
  <2>3. QED
    BY <1>1, <2>1, <2>2, OneGlobalGas
<1>5. CASE GlobalWithdraw(trader, token, atoms)
  <2> DEFINE g == [UpdateDeposit(before, trader, - atoms) EXCEPT !.vault = @ - atoms]
             wallet == [accounts.wallet EXCEPT ![trader][token] = @ + atoms]
  <2>1. g.gas = before.gas
    BY <1>2 DEF UpdateDeposit, Globals
  <2>2. Commit([accounts EXCEPT !.glob = [accounts.glob EXCEPT ![token] = g],
                                !.wallet = wallet])
    BY <1>2, <1>5 DEF GlobalWithdraw, Accounts
  <2> HIDE DEF g, wallet
  <2>3. QED
    BY <1>1, <2>1, <2>2, OneGlobalGas
<1>6. CASE \E evictee \in Traders : GlobalEvict(trader, evictee, token, atoms)
  <2>1. PICK evictee \in Traders : GlobalEvict(trader, evictee, token, atoms)
    BY <1>6
  <2> DEFINE balance == before.dep[evictee]
             emptied == [UpdateDeposit(before, evictee, - balance) EXCEPT !.vault = @ - balance]
             seated == EvictAndTakeSeat(emptied, evictee, trader)
             g == [UpdateDeposit(seated, trader, atoms) EXCEPT !.vault = @ + atoms]
             paid == [accounts.wallet EXCEPT ![evictee][token] = @ + balance]
             wallet == [paid EXCEPT ![trader][token] = @ - atoms]
  <2>2. Commit([accounts EXCEPT !.glob = [accounts.glob EXCEPT ![token] = g],
                                !.wallet = wallet])
    BY <2>1 DEF GlobalEvict
  <2>3. emptied.gas = before.gas /\ "gas" \in DOMAIN emptied
    BY <1>2 DEF UpdateDeposit, Globals
  <2> HIDE DEF emptied
  <2>4. seated.gas = before.gas /\ "gas" \in DOMAIN seated
    BY <2>3 DEF EvictAndTakeSeat
  <2> HIDE DEF seated
  <2>5. g.gas = before.gas
    BY <2>4 DEF UpdateDeposit
  <2> HIDE DEF g, wallet
  <2>6. QED
    BY <1>1, <2>2, <2>5, OneGlobalGas
<1>7. QED
  BY <1>3, <1>4, <1>5, <1>6

\* GlobalClean takes the prepayment of the order it removes.
LEMMA GlobalCleanGas ==
    ASSUME IInv, GasInv, NEW i \in Index, GlobalClean(i)
    PROVE  GasInv'
<1> DEFINE order == accounts.m.data[i]
           token == Backing(order.is_bid)
           m == ReturnOrder(accounts.m, i)
           g == [accounts.glob[token] EXCEPT !.gas =
                    IF order.type = "Global" THEN @ - 1 ELSE @]
           glob == [accounts.glob EXCEPT ![token] = g]
           a == [accounts EXCEPT !.m = m, !.glob = glob]
<1>1. ctx = Idle /\ i \in OrderIndices(accounts.m) /\ CanReturnOrder(accounts.m, i)
  BY DEF GlobalClean, CanCancelOrder
<1>2. MarketSound(accounts.m) /\ accounts \in Accounts
  BY <1>1, IdleSound DEF AccountsSound
<1>3. Commit(a)
  BY <1>2 DEF GlobalClean, Accounts
<1>4. Removed(accounts.m, m, i)
  BY <1>1, <1>2, ReturnOrderSound
<1> HIDE DEF m
<1>5. \A t \in Tokens :
        glob[t].gas = accounts.glob[t].gas - (IF IsGlobalOf(order, t) THEN 1 ELSE 0)
  <2> SUFFICES ASSUME NEW t \in Tokens
               PROVE  glob[t].gas =
                        accounts.glob[t].gas - (IF IsGlobalOf(order, t) THEN 1 ELSE 0)
    OBVIOUS
  <2>1. token \in Tokens /\ accounts.glob[t] \in Globals /\ accounts.glob[t].gas \in Int
    BY <1>2 DEF Accounts, Globals, Backing, Tokens
  <2>2. CASE t = token
    <3>1. glob[t] = g
        BY <1>2, <2>2 DEF Accounts
    <3>2. g.gas = IF order.type = "Global" THEN accounts.glob[t].gas - 1
                                           ELSE accounts.glob[t].gas
        BY <2>1, <2>2 DEF Globals
    <3> HIDE DEF g, glob, order
    <3>3. IsGlobalOf(order, t) <=> order.type = "Global"
        BY <2>2 DEF IsGlobalOf
    <3>4. QED
        BY <2>1, <3>1, <3>2, <3>3
  <2>3. CASE t # token
    <3>1. glob[t] = accounts.glob[t]
        BY <1>2, <2>1, <2>3 DEF Accounts
    <3>2. ~ IsGlobalOf(order, t)
        BY <2>3 DEF IsGlobalOf
    <3> HIDE DEF glob, order
    <3>3. QED
        BY <2>1, <3>1, <3>2
  <2>4. QED
    BY <2>2, <2>3
<1> HIDE DEF glob
<1>6. a.m = m /\ a.glob = glob
  BY <1>2 DEF Accounts
<1> HIDE DEF a
<1>7. GasSound(a.m, a.glob, Idle)
  <2> SUFFICES ASSUME NEW t \in Tokens
               PROVE  glob[t].gas >= Idle.refunds[t] + Ahead(Idle, t)
                                       + Cardinality(GlobalOrders(m, t))
    BY <1>6 DEF GasSound
  <2> DEFINE k == IF IsGlobalOf(order, t) THEN 1 ELSE 0
             after == Cardinality(GlobalOrders(m, t))
             before == Cardinality(GlobalOrders(accounts.m, t))
  <2>1. after = before - k
    BY <1>1, <1>4, RemovedGlobalOrders
  <2>2. glob[t].gas = accounts.glob[t].gas - k
    BY <1>5
  <2>3. accounts.glob[t].gas \in Int /\ before \in Nat /\ k \in Nat
    BY <1>2, GlobalOrdersFinite DEF Accounts, Globals
  <2>4. Idle.refunds[t] = 0 /\ Ahead(Idle, t) = 0
    BY NothingAhead
  <2>5. accounts.glob[t].gas >= Idle.refunds[t] + Ahead(Idle, t) + before
    BY DEF GasInv, GasSound
  <2> HIDE DEF k, after, before
  <2>6. QED
    BY <2>1, <2>2, <2>3, <2>4, <2>5 DEF after
<1>8. QED
  BY <1>3, <1>7, CommitGas DEF a

LEMMA GlobalArrivalGas ==
    ASSUME IInv, GasInv, GlobalArrival
    PROVE  GasInv'
<1>1. Amounts \subseteq Nat
  BY ManifestAssumption
<1>2. CASE \E trader \in Traders, token \in Tokens : GlobalAddTrader(trader, token)
  <2>1. 0 \in Nat
    OBVIOUS
  <2>2. QED
    BY <1>2, <2>1, GlobalSeatGas
<1>3. CASE \E trader \in Traders, token \in Tokens, atoms \in Amounts :
              \/ GlobalDeposit(trader, token, atoms)
              \/ GlobalWithdraw(trader, token, atoms)
              \/ \E evictee \in Traders : GlobalEvict(trader, evictee, token, atoms)
  <2>1. PICK trader \in Traders, token \in Tokens, atoms \in Amounts :
              \/ GlobalDeposit(trader, token, atoms)
              \/ GlobalWithdraw(trader, token, atoms)
              \/ \E evictee \in Traders : GlobalEvict(trader, evictee, token, atoms)
    BY <1>3
  <2>2. atoms \in Nat
    BY <1>1
  <2>3. QED
    BY <2>1, <2>2, GlobalSeatGas
<1>4. CASE \E i \in Index : GlobalClean(i)
  BY <1>4, GlobalCleanGas
<1>5. QED
  BY <1>2, <1>3, <1>4 DEF GlobalArrival

\* A batch begins with nothing ahead; the order of a swap is never global.
LEMMA TradeArrivalGas ==
    ASSUME IInv, GasInv, TradeArrival
    PROVE  GasInv'
<1>1. PICK trader \in Traders, globals \in GlobalsPassed :
        \/ \E batch \in Batches[trader] :
            \E cancels \in [1 .. batch.cancels -> CancelParams(accounts.m)] :
                BatchUpdate(trader, batch, globals, cancels)
        \/ \E swap \in Swaps[trader] : Swap(trader, swap, globals)
  BY DEF TradeArrival
<1>2. CASE \E batch \in Batches[trader] :
            \E cancels \in [1 .. batch.cancels -> CancelParams(accounts.m)] :
                BatchUpdate(trader, batch, globals, cancels)
  <2>1. /\ ctx = Idle /\ accounts' = accounts /\ work' = work
        /\ ctx'.refunds = NoTokens /\ ctx'.phase = "cancel"
    BY <1>2 DEF BatchUpdate, Step, Idle
  <2>2. \A t \in Tokens : ctx'.refunds[t] = ctx.refunds[t] /\ Ahead(ctx', t) = Ahead(ctx, t)
    BY <2>1, NothingAhead DEF Ahead, MatchingPhases, NoTokens
  <2>3. GasSound(work'.m, work'.glob, ctx')
    BY <2>1, <2>2 DEF GasInv, GasSound
  <2>4. QED
    BY <2>1, <2>3, StepGas
<1>3. CASE \E swap \in Swaps[trader] : Swap(trader, swap, globals)
  <2>1. PICK swap \in Swaps[trader] : Swap(trader, swap, globals)
    BY <1>3
  <2>2. /\ accounts' = accounts /\ SameTokens(work, work') /\ SameOrders(work.m, work'.m)
        /\ ctx = Idle /\ ctx'.refunds = NoTokens
        /\ \/ ctx'.phase = "impact"
           \/ ctx'.phase = "next" /\ \E total : ctx'.orders = <<SwapOrder(swap, total)>>
    BY <2>1, SwapEffect
  <2>3. \A t \in Tokens : Ahead(ctx', t) = 0
    BY <2>2, PrepaidSwap DEF Ahead, MatchingPhases
  <2>4. \A t \in Tokens : ctx'.refunds[t] = ctx.refunds[t] /\ Ahead(ctx', t) = Ahead(ctx, t)
    BY <2>2, <2>3, NothingAhead DEF NoTokens
  <2>5. \A t \in Tokens : work'.glob[t].gas = work.glob[t].gas
    BY <2>2 DEF SameTokens
  <2>6. GasSound(work'.m, work'.glob, ctx')
    BY <2>2, <2>4, <2>5, SameGas DEF GasInv
  <2>7. QED
    BY <2>2, <2>6, StepGas
<1>4. QED
  BY <1>1, <1>2, <1>3

\* remove_from_global counts at most the refund of the order.
LEMMA RefundCounted ==
    ASSUME ctx \in Contexts, NEW order, NEW token \in Tokens
    PROVE  /\ DeferredRefunds(order)[token] \in Nat
           /\ DeferredRefunds(order)[token]
                <= ctx.refunds[token] + (IF IsGlobalOf(order, token) THEN 1 ELSE 0)
<1>1. ctx.refunds \in [Tokens -> Nat] /\ ctx.refunds[token] \in Nat
  BY DEF Contexts
<1>2. DeferredRefunds(order)[token] \in Nat
  BY DeferredRefundsTyped
<1>3. CASE order.type = "Global" /\ Backing(order.is_bid) = token
  <2>1. DeferredRefunds(order)[token] <= ctx.refunds[token] + 1
    BY <1>1, <1>3 DEF DeferredRefunds
  <2>2. QED
    BY <1>2, <1>3, <2>1 DEF IsGlobalOf
<1>4. CASE ~ (order.type = "Global" /\ Backing(order.is_bid) = token)
  <2>1. DeferredRefunds(order)[token] = ctx.refunds[token]
    BY <1>1, <1>4 DEF DeferredRefunds
  <2>2. QED
    BY <1>1, <1>4, <2>1 DEF IsGlobalOf
<1>5. QED
  BY <1>3, <1>4

-----------------------------------------------------------------------------
(* Gas in the course of a batch or swap. *)

\* A refund is counted when an order leaves the book, and only for a global one.
LEMMA ReturnGas ==
    ASSUME IInv, GasInv, CancelOrder \/ CleanStaleMaker \/ CleanUnbackedMaker
    PROVE  GasInv'
<1>1. PICK i \in OrderIndices(work.m) : ReturnedBy(i)
  BY ReturnEffect
<1> DEFINE order == work.m.data[i]
<1>2. /\ work \in Accounts /\ ctx \in Contexts
      /\ Removed(work.m, work'.m, i) /\ work'.glob = work.glob /\ accounts' = accounts
      /\ ctx'.phase = ctx.phase /\ ctx'.orders = ctx.orders /\ ctx'.args = ctx.args
      /\ ctx'.refunds = DeferredRefunds(order)
  BY <1>1, BusySound DEF ReturnedBy, WorkSound, SameTokens, SameOrderPlaced
<1>3. GasSound(work'.m, work'.glob, ctx')
  <2> SUFFICES ASSUME NEW t \in Tokens
               PROVE  work'.glob[t].gas >= ctx'.refunds[t] + Ahead(ctx', t)
                                             + Cardinality(GlobalOrders(work'.m, t))
    BY DEF GasSound
  <2> DEFINE k == IF IsGlobalOf(order, t) THEN 1 ELSE 0
             before == Cardinality(GlobalOrders(work.m, t))
  <2>1. Cardinality(GlobalOrders(work'.m, t)) = before - k
    BY <1>2, RemovedGlobalOrders
  <2>2. ctx'.refunds[t] <= ctx.refunds[t] + k /\ ctx'.refunds[t] \in Nat
    BY <1>2, RefundCounted
  <2>3. Ahead(ctx', t) = Ahead(ctx, t)
    BY <1>2 DEF Ahead
  <2>4. /\ work.glob[t].gas \in Int /\ before \in Nat /\ k \in Nat
        /\ ctx.refunds[t] \in Nat /\ Ahead(ctx, t) \in Nat
    BY <1>2, GasNumbers
  <2>5. work.glob[t].gas >= ctx.refunds[t] + Ahead(ctx, t) + before
    BY DEF GasInv, GasSound
  <2>6. work'.glob[t] = work.glob[t]
    BY <1>2
  <2> HIDE DEF k, before
  <2>7. QED
    BY <2>1, <2>2, <2>3, <2>4, <2>5, <2>6
<1>4. QED
  BY <1>2, <1>3, StepGas

\* The prepayments are counted from now on for the orders that follow.
LEMMA PrepayGasGas ==
    ASSUME IInv, GasInv, PrepayGas
    PROVE  GasInv'
<1> DEFINE glob == [token \in Tokens |->
                        [work.glob[token] EXCEPT !.gas = @ + GasPrepayments(token)]]
           w == [work EXCEPT !.glob = glob]
           c == [ctx EXCEPT !.phase = "next"]
<1>1. ctx.phase = "cancel" /\ Step(w, c)
  BY DEF PrepayGas
<1>2. work \in Accounts /\ ctx \in Contexts
  BY <1>1, BusySound DEF WorkSound
<1>3. \A t \in Tokens : glob[t].gas = work.glob[t].gas + GasPrepayments(t)
  BY <1>2 DEF Accounts, Globals
<1> HIDE DEF glob
<1>4. w.m = work.m /\ w.glob = glob
  BY <1>2 DEF Accounts
<1>5. c.phase = "next" /\ c.orders = ctx.orders /\ c.refunds = ctx.refunds
  BY <1>2 DEF Contexts
<1> HIDE DEF w, c
<1>6. GasSound(w.m, w.glob, c)
  <2> SUFFICES ASSUME NEW t \in Tokens
               PROVE  glob[t].gas >= ctx.refunds[t] + Ahead(c, t)
                                       + Cardinality(GlobalOrders(work.m, t))
    BY <1>4, <1>5 DEF GasSound
  <2>1. Ahead(c, t) = Prepaid(ctx.orders, t)
    BY <1>5 DEF Ahead, MatchingPhases
  <2>2. GasPrepayments(t) = Prepaid(ctx.orders, t)
    BY DEF GasPrepayments, Prepaid
  <2>3. Ahead(ctx, t) = 0
    BY <1>1 DEF Ahead, MatchingPhases
  <2>4. /\ work.glob[t].gas \in Int /\ ctx.refunds[t] \in Nat
        /\ Cardinality(GlobalOrders(work.m, t)) \in Nat /\ Prepaid(ctx.orders, t) \in Nat
    BY <1>2, GasNumbers
  <2>5. work.glob[t].gas >= ctx.refunds[t] + Ahead(ctx, t)
                              + Cardinality(GlobalOrders(work.m, t))
    BY DEF GasInv, GasSound
  <2>6. glob[t].gas = work.glob[t].gas + Prepaid(ctx.orders, t)
    BY <1>3, <2>2
  <2>7. QED
    BY <2>1, <2>3, <2>4, <2>5, <2>6
<1>7. accounts' = accounts /\ work' = w /\ ctx' = c
  BY <1>1 DEF Step, w, c
<1>8. QED
  BY <1>6, <1>7, StepGas

\* The refunds that were counted are paid, and no more.
LEMMA FinishBatchGas ==
    ASSUME IInv, GasInv, FinishBatch
    PROVE  GasInv'
<1> DEFINE glob == [token \in Tokens |->
                        [work.glob[token] EXCEPT !.gas = @ - ctx.refunds[token]]]
           a == [work EXCEPT !.glob = glob]
<1>1. ctx.phase = "next" /\ Commit(a)
  BY DEF FinishBatch
<1>2. work \in Accounts /\ ctx \in Contexts
  BY <1>1, BusySound DEF WorkSound
<1>3. \A t \in Tokens : glob[t].gas = work.glob[t].gas - ctx.refunds[t]
  BY <1>2 DEF Accounts, Globals
<1> HIDE DEF glob
<1>4. a.m = work.m /\ a.glob = glob
  BY <1>2 DEF Accounts
<1> HIDE DEF a
<1>5. GasSound(a.m, a.glob, Idle)
  <2> SUFFICES ASSUME NEW t \in Tokens
               PROVE  glob[t].gas >= Idle.refunds[t] + Ahead(Idle, t)
                                       + Cardinality(GlobalOrders(work.m, t))
    BY <1>4 DEF GasSound
  <2>1. Idle.refunds[t] = 0 /\ Ahead(Idle, t) = 0
    BY NothingAhead
  <2>2. /\ work.glob[t].gas \in Int /\ ctx.refunds[t] \in Nat /\ Ahead(ctx, t) \in Nat
        /\ Cardinality(GlobalOrders(work.m, t)) \in Nat
    BY <1>2, GasNumbers
  <2>3. work.glob[t].gas >= ctx.refunds[t] + Ahead(ctx, t)
                              + Cardinality(GlobalOrders(work.m, t))
    BY DEF GasInv, GasSound
  <2>4. QED
    BY <1>3, <2>1, <2>2, <2>3
<1>6. QED
  BY <1>1, <1>5, CommitGas DEF a

\* A swap counts no refund and has prepaid nothing.
LEMMA FinishSwapGas ==
    ASSUME IInv, GasInv, FinishSwap
    PROVE  GasInv'
<1>1. ctx.phase = "next" /\ \A t \in Tokens : Extra(t) >= 0
  BY DEF FinishSwap, SwapOrderDone, CanFinishSwap
<1>2. WorkSound(work, ctx) /\ work \in Accounts /\ ctx \in Contexts
  BY <1>1, BusySound DEF WorkSound
<1>3. PICK vault, wallet :
        Commit([work EXCEPT !.m = SeatSettled, !.vault = vault, !.wallet = wallet])
  BY DEF FinishSwap
<1> DEFINE a == [work EXCEPT !.m = SeatSettled, !.vault = vault, !.wallet = wallet]
<1>4. a.m = SeatSettled /\ a.glob = work.glob
  BY <1>2 DEF Accounts
<1> HIDE DEF a
<1>5. SameOrders(work.m, a.m)
  BY <1>1, <1>2, <1>4, SeatSettledSound
<1>6. GasSound(a.m, a.glob, Idle)
  <2> SUFFICES ASSUME NEW t \in Tokens
               PROVE  work.glob[t].gas >= Idle.refunds[t] + Ahead(Idle, t)
                                            + Cardinality(GlobalOrders(work.m, t))
    BY <1>4, <1>5, SameGlobalOrders DEF GasSound
  <2>1. Idle.refunds[t] = 0 /\ Ahead(Idle, t) = 0
    BY NothingAhead
  <2>2. /\ work.glob[t].gas \in Int /\ ctx.refunds[t] \in Nat /\ Ahead(ctx, t) \in Nat
        /\ Cardinality(GlobalOrders(work.m, t)) \in Nat
    BY <1>2, GasNumbers
  <2>3. work.glob[t].gas >= ctx.refunds[t] + Ahead(ctx, t)
                              + Cardinality(GlobalOrders(work.m, t))
    BY DEF GasInv, GasSound
  <2>4. QED
    BY <2>1, <2>2, <2>3
<1>7. QED
  BY <1>3, <1>6, CommitGas DEF a

\* The next order takes its prepayment along.
LEMMA BeginOrderGas ==
    ASSUME IInv, GasInv, BeginOrder
    PROVE  GasInv'
<1> DEFINE order == Head(ctx.orders)
<1>1. /\ ctx.phase = "next" /\ ctx'.phase = "match" /\ ctx.orders # <<>>
      /\ ctx.orders \in Seq(OrderArgs) /\ accounts' = accounts /\ work'.glob = work.glob
      /\ SameOrders(work.m, work'.m)
      /\ ctx'.args = order /\ ctx'.orders = Tail(ctx.orders) /\ ctx'.refunds = ctx.refunds
  BY BeginOrderEffect DEF SameTokens
<1>2. work \in Accounts /\ ctx \in Contexts /\ Tail(ctx.orders) \in Seq(OrderArgs)
  BY <1>1, BusySound DEF WorkSound
<1>3. GasSound(work'.m, work'.glob, ctx')
  <2> SUFFICES ASSUME NEW t \in Tokens
               PROVE  work.glob[t].gas >= ctx.refunds[t] + Ahead(ctx', t)
                                            + Cardinality(GlobalOrders(work.m, t))
    BY <1>1, SameGlobalOrders DEF GasSound
  <2> DEFINE k == IF IsGlobalOf(order, t) THEN 1 ELSE 0
             before == Prepaid(ctx.orders, t)
             after == Prepaid(Tail(ctx.orders), t)
  <2>1. after + k <= before
    BY <1>1, PrepaidTail
  <2>2. Ahead(ctx, t) = before
    BY <1>1 DEF Ahead, MatchingPhases
  <2>3. Ahead(ctx', t) = after + k
    BY <1>1 DEF Ahead, MatchingPhases
  <2>4. /\ work.glob[t].gas \in Int /\ ctx.refunds[t] \in Nat /\ before \in Nat
        /\ after \in Nat /\ k \in Nat /\ Cardinality(GlobalOrders(work.m, t)) \in Nat
    BY <1>2, GasNumbers, PrepaidNat
  <2>5. work.glob[t].gas >= ctx.refunds[t] + Ahead(ctx, t)
                              + Cardinality(GlobalOrders(work.m, t))
    BY DEF GasInv, GasSound
  <2> HIDE DEF k, before, after
  <2>6. QED
    BY <2>1, <2>2, <2>3, <2>4, <2>5
<1>4. QED
  BY <1>1, <1>3, StepGas

\* A filled global maker leaves the book and its refund is counted, or is not.
LEMMA FillGas ==
    ASSUME IInv, GasInv, Fill
    PROVE  GasInv'
<1>1. PICK i \in Index : FilledBy(i)
  BY FillEffect
<1> DEFINE order == work.m.data[i]
           full == Trade(i).full
<1>2. /\ IsMaker(i) /\ i \in OrderIndices(work.m) /\ accounts' = accounts
      /\ IF full THEN Removed(work.m, work'.m, i) ELSE Resized(work.m, work'.m, i)
      /\ ctx'.phase \in {"match", "reverse"} /\ ctx'.orders = ctx.orders /\ ctx'.args = ctx.args
      /\ ctx'.refunds = IF full THEN DeferredRefunds(order) ELSE ctx.refunds
  BY <1>1 DEF FilledBy
<1>3. /\ ctx.phase = "match" /\ work \in Accounts /\ ctx \in Contexts /\ work.m \in Markets
  BY <1>2, BusySound, BothMarkets DEF IsMaker, WorkSound
<1>4. \A t \in Tokens : work'.glob[t].gas = work.glob[t].gas
  <2> DEFINE maker == work.m.data[order.trader_index].trader
             delta == - Trade(i).got
             g == IF order.type = "Global" THEN UpdateDeposit(work.glob[MakerToken], maker, delta)
                                           ELSE work.glob[MakerToken]
  <2>1. work'.glob = [work.glob EXCEPT ![MakerToken] = g]
    BY <1>1 DEF FilledBy
  <2>2. MakerToken \in Tokens
    BY DEF MakerToken, Backing, Tokens
  <2>3. work.glob \in [Tokens -> Globals] /\ work.glob[MakerToken] \in Globals
    BY <1>3, <2>2 DEF Accounts
  <2> HIDE DEF maker, delta
  <2>4. g.gas = work.glob[MakerToken].gas
    BY <2>3 DEF UpdateDeposit, Globals
  <2> HIDE DEF g
  <2>5. QED
    BY <2>1, <2>2, <2>3, <2>4
<1> HIDE DEF full
<1>5. GasSound(work'.m, work'.glob, ctx')
  <2> SUFFICES ASSUME NEW t \in Tokens
               PROVE  work.glob[t].gas >= ctx'.refunds[t] + Ahead(ctx', t)
                                            + Cardinality(GlobalOrders(work'.m, t))
    BY <1>4 DEF GasSound
  <2> DEFINE k == IF IsGlobalOf(order, t) THEN 1 ELSE 0
             before == Cardinality(GlobalOrders(work.m, t))
             after == Cardinality(GlobalOrders(work'.m, t))
  <2>1. Ahead(ctx', t) = Ahead(ctx, t)
    BY <1>2, <1>3 DEF Ahead, MatchingPhases
  <2>2. /\ work.glob[t].gas \in Int /\ ctx.refunds[t] \in Nat /\ before \in Nat
        /\ k \in Nat /\ Ahead(ctx, t) \in Nat
    BY <1>3, GasNumbers
  <2>3. work.glob[t].gas >= ctx.refunds[t] + Ahead(ctx, t) + before
    BY DEF GasInv, GasSound
  <2>4. CASE full
    <3>1. Removed(work.m, work'.m, i)
        BY <1>2, <2>4
    <3>2. after = before - k
        BY <1>2, <3>1, RemovedGlobalOrders
    <3>3. ctx'.refunds[t] <= ctx.refunds[t] + k /\ ctx'.refunds[t] \in Nat
        BY <1>2, <1>3, <2>4, RefundCounted
    <3> HIDE DEF k, before, after
    <3>4. QED
        BY <2>1, <2>2, <2>3, <3>2, <3>3 DEF after
  <2>5. CASE ~ full
    <3>1. Resized(work.m, work'.m, i) /\ ctx'.refunds = ctx.refunds
        BY <1>2, <2>5
    <3>2. after = before
        BY <1>2, <1>3, <3>1, ResizedGlobalOrders
    <3>3. QED
        BY <2>1, <2>3, <3>1, <3>2
  <2>6. QED
    BY <2>4, <2>5
<1>6. QED
  BY <1>2, <1>5, StepGas

\* A reversal is never global.
LEMMA PlaceReverseGas ==
    ASSUME IInv, GasInv, PlaceReverse
    PROVE  GasInv'
<1>1. PICK i \in ReverseTargets :
        /\ work.m \in Markets /\ ctx \in Contexts /\ work'.glob = work.glob
        /\ ReversalOnBook(work.m, work'.m, i, ctx.reversal, ctx.args.is_bid)
        /\ ctx.phase = "reverse" /\ ctx' = [ctx EXCEPT !.phase = "match", !.reversal = NoReversal]
        /\ accounts' = accounts
  BY PlaceReverseEffect
<1>2. /\ ctx'.phase = "match" /\ ctx'.orders = ctx.orders /\ ctx'.args = ctx.args
      /\ ctx'.refunds = ctx.refunds
  BY <1>1 DEF Contexts
<1>3. ctx.reversal.type # "Global"
  BY <1>1 DEF Contexts, Reversals, ReversibleTypes
<1>4. \A t \in Tokens :
        Cardinality(GlobalOrders(work'.m, t)) = Cardinality(GlobalOrders(work.m, t))
  <2> SUFFICES ASSUME NEW t \in Tokens
               PROVE  Cardinality(GlobalOrders(work'.m, t)) = Cardinality(GlobalOrders(work.m, t))
    OBVIOUS
  <2>1. CASE SameOrders(work.m, work'.m)
    BY <2>1, SameGlobalOrders
  <2>2. CASE i \in OrderIndices(work.m) /\ Resized(work.m, work'.m, i)
    BY <1>1, <2>2, ResizedGlobalOrders
  <2>3. CASE \E order \in RestingOrders :
                /\ order.type = ctx.reversal.type /\ Inserted(work.m, work'.m, order)
    <3>1. PICK order \in RestingOrders :
                /\ order.type = ctx.reversal.type /\ Inserted(work.m, work'.m, order)
        BY <2>3
    <3>2. ~ IsGlobalOf(order, t)
        BY <1>3, <3>1 DEF IsGlobalOf
    <3>3. Cardinality(GlobalOrders(work.m, t)) \in Nat
        BY GlobalOrdersFinite
    <3>4. QED
        BY <3>1, <3>2, <3>3, InsertedGlobalOrders
  <2>4. QED
    BY <1>1, <2>1, <2>2, <2>3 DEF ReversalOnBook
<1>5. \A t \in Tokens : Ahead(ctx', t) = Ahead(ctx, t)
  BY <1>1, <1>2 DEF Ahead, MatchingPhases
<1>6. GasSound(work'.m, work'.glob, ctx')
  BY <1>1, <1>2, <1>4, <1>5 DEF GasInv, GasSound
<1>7. QED
  BY <1>1, <1>6, StepGas

\* The order comes to rest on its prepayment, or the prepayment is left over.
LEMMA FinishOrderGas ==
    ASSUME IInv, GasInv, FinishOrder
    PROVE  GasInv'
<1> DEFINE order == RestingOrder(work.m)
<1>1. /\ ctx.phase = "settle" /\ work \in Accounts /\ ctx \in Contexts
      /\ IF Rests THEN Inserted(work.m, work'.m, order) ELSE SameOrders(work.m, work'.m)
      /\ work'.glob = [work.glob EXCEPT ![MakerToken].vault = @ - ctx.pending]
      /\ ctx' = [ctx EXCEPT !.phase = "next", !.pending = 0, !.remaining = 0, !.seq = 0]
      /\ accounts' = accounts
  BY FinishOrderEffect
<1>2. ctx'.phase = "next" /\ ctx'.orders = ctx.orders /\ ctx'.refunds = ctx.refunds
  BY <1>1 DEF Contexts
<1>3. \A t \in Tokens : work'.glob[t].gas = work.glob[t].gas
  BY <1>1 DEF Accounts, Globals, MakerToken, Backing, Tokens
<1>4. order.type = ctx.args.type /\ order.is_bid = ctx.args.is_bid
  BY DEF RestingOrder
<1> HIDE DEF order
<1>5. GasSound(work'.m, work'.glob, ctx')
  <2> SUFFICES ASSUME NEW t \in Tokens
               PROVE  work.glob[t].gas >= ctx.refunds[t] + Ahead(ctx', t)
                                            + Cardinality(GlobalOrders(work'.m, t))
    BY <1>2, <1>3 DEF GasSound
  <2> DEFINE k == IF IsGlobalOf(ctx.args, t) THEN 1 ELSE 0
             prepaid == Prepaid(ctx.orders, t)
             before == Cardinality(GlobalOrders(work.m, t))
             after == Cardinality(GlobalOrders(work'.m, t))
  <2>1. Ahead(ctx, t) = prepaid + k
    BY <1>1 DEF Ahead, MatchingPhases
  <2>2. Ahead(ctx', t) = prepaid
    BY <1>2 DEF Ahead, MatchingPhases
  <2>3. /\ work.glob[t].gas \in Int /\ ctx.refunds[t] \in Nat /\ before \in Nat
        /\ k \in Nat /\ prepaid \in Nat
    BY <1>1, GasNumbers
  <2>4. after <= before + k /\ after \in Nat
    <3>1. IsGlobalOf(order, t) <=> IsGlobalOf(ctx.args, t)
        BY <1>4 DEF IsGlobalOf
    <3>2. CASE Rests
        BY <1>1, <2>3, <3>1, <3>2, InsertedGlobalOrders
    <3>3. CASE ~ Rests
        BY <1>1, <2>3, <3>3, SameGlobalOrders
    <3>4. QED
        BY <3>2, <3>3
  <2>5. work.glob[t].gas >= ctx.refunds[t] + Ahead(ctx, t) + before
    BY DEF GasInv, GasSound
  <2> HIDE DEF k, before, after, prepaid
  <2>6. QED
    BY <2>1, <2>2, <2>3, <2>4, <2>5 DEF after
<1>6. QED
  BY <1>1, <1>5, StepGas

LEMMA QuietGas ==
    ASSUME IInv, GasInv, StopMatching \/ WalkPast \/ CountMaker \/ StopWalking
    PROVE  GasInv'
<1>1. /\ work' = work /\ accounts' = accounts /\ ctx'.refunds = ctx.refunds
      /\ ctx'.args = ctx.args
  BY StopMatchingEffect, WalkEffect DEF SameOrderPlaced
<1>2. \A t \in Tokens : Ahead(ctx', t) = Ahead(ctx, t)
  <2>1. CASE StopMatching
    <3>1. ctx.phase = "match" /\ ctx'.phase = "settle" /\ ctx'.orders = ctx.orders
        BY <2>1, StopMatchingEffect
    <3>2. QED
        BY <1>1, <3>1 DEF Ahead, MatchingPhases
  <2>2. CASE WalkPast \/ CountMaker \/ StopWalking
    <3>1. /\ ctx.phase = "impact"
          /\ \/ ctx'.phase = "impact"
             \/ ctx'.phase = "next" /\ \E total : ctx'.orders = <<SwapOrder(ctx.swap, total)>>
        BY <2>2, WalkEffect
    <3>2. \A t \in Tokens : Ahead(ctx, t) = 0
        BY <3>1 DEF Ahead, MatchingPhases
    <3>3. \A t \in Tokens : Ahead(ctx', t) = 0
        BY <3>1, PrepaidSwap DEF Ahead, MatchingPhases
    <3>4. QED
        BY <3>2, <3>3
  <2>3. QED
    BY <2>1, <2>2
<1>3. GasSound(work'.m, work'.glob, ctx')
  BY <1>1, <1>2 DEF GasInv, GasSound
<1>4. QED
  BY <1>1, <1>3, StepGas

LEMMA NextGas ==
    ASSUME IInv, GasInv, [Next]_vars
    PROVE  GasInv'
<1>1. CASE MarketArrival \/ GlobalArrival \/ TradeArrival
  BY <1>1, MarketArrivalGas, GlobalArrivalGas, TradeArrivalGas
<1>2. CASE AdvanceSlot \/ UNCHANGED vars
  <2>1. accounts' = accounts /\ work' = work /\ ctx' = ctx
    BY <1>2 DEF AdvanceSlot, vars
  <2>2. QED
    BY <2>1, StepGas DEF GasInv
<1>3. CASE Progress
  <2>1. CASE \/ CancelFails \/ PrepayGasFails \/ BeginOrderFails \/ FillFails
             \/ PlaceReverseFails \/ FinishOrderFails \/ EstimateFails \/ FinishSwapFails
    <3>1. Abort
        BY <2>1 DEF CancelFails, PrepayGasFails, BeginOrderFails, FillFails,
                    PlaceReverseFails, FinishOrderFails, EstimateFails, FinishSwapFails
    <3>2. QED
        BY <3>1, AbortGas
  <2>2. CASE CancelOrder \/ CleanStaleMaker \/ CleanUnbackedMaker
    BY <2>2, ReturnGas
  <2>3. CASE PrepayGas \/ FinishBatch \/ FinishSwap
    BY <2>3, PrepayGasGas, FinishBatchGas, FinishSwapGas
  <2>4. CASE StopMatching \/ WalkPast \/ CountMaker \/ StopWalking
    BY <2>4, QuietGas
  <2>5. CASE BeginOrder \/ Fill \/ PlaceReverse \/ FinishOrder
    BY <2>5, BeginOrderGas, FillGas, PlaceReverseGas, FinishOrderGas
  <2>6. QED
    BY <1>3, <2>1, <2>2, <2>3, <2>4, <2>5 DEF Progress
<1>4. QED
  BY <1>1, <1>2, <1>3 DEF Next

LEMMA InitGas ==
    ASSUME Init
    PROVE  GasInv
<1>1. /\ accounts.m = NewMarket /\ accounts.glob = [token \in Tokens |-> NewGlobal]
      /\ work = accounts /\ ctx = Idle
  BY DEF Init
<1>2. \A t \in Tokens : accounts.glob[t].gas = 0
  BY <1>1 DEF NewGlobal
<1>3. OrderIndices(NewMarket) = {}
  BY DEF OrderIndices, NewMarket, EmptyBlock
<1>4. \A t : GlobalOrders(NewMarket, t) = {}
  BY <1>3 DEF GlobalOrders
<1>5. \A t \in Tokens : Cardinality(GlobalOrders(accounts.m, t)) = 0
  BY <1>1, <1>4, FS_EmptySet
<1>6. GasSound(accounts.m, accounts.glob, Idle)
  BY <1>2, <1>5, NothingAhead DEF GasSound
<1>7. QED
  BY <1>1, <1>6 DEF GasInv

\* The prepayments cover the orders and the refunds that are due.
LEMMA GasCovered == IInv /\ GasInv => GasCoversOrders
<1> SUFFICES ASSUME IInv, GasInv, NEW t \in Tokens
             PROVE  work.glob[t].gas >= ctx.refunds[t] + Cardinality(GlobalOrders(work.m, t))
  BY DEF GasCoversOrders, GlobalOrders
<1>1. work \in Accounts /\ ctx \in Contexts
  BY WorkIsSound
<1>2. /\ work.glob[t].gas \in Int /\ ctx.refunds[t] \in Nat /\ Ahead(ctx, t) \in Nat
      /\ Cardinality(GlobalOrders(work.m, t)) \in Nat
  BY <1>1, GasNumbers
<1>3. work.glob[t].gas >= ctx.refunds[t] + Ahead(ctx, t)
                            + Cardinality(GlobalOrders(work.m, t))
  BY DEF GasInv, GasSound
<1>4. QED
  BY <1>2, <1>3

\* Each global account holds a gas prepayment for every global order that rests on
\* it and for every refund an instruction has counted: prepayments are made before
\* the orders of a batch are matched, an order may leave the book by a cancel, a fill,
\* an expiry, an unbacked match or a clean, and still no refund is paid twice.
THEOREM GasAlwaysCovers == Spec => []GasCoversOrders
<1>1. Init => GasInv
  BY InitGas
<1>2. IInv /\ GasInv /\ [Next]_vars => GasInv'
  BY NextGas
<1>3. Spec => []GasInv
  BY <1>1, <1>2, Inductive, PTL DEF Spec
<1>4. IInv /\ GasInv => GasCoversOrders
  BY GasCovered
<1>5. QED
  BY <1>3, <1>4, Inductive, PTL

-----------------------------------------------------------------------------
(* Swaps. *)

\* The seat of a swap w's instruction c holds what it has bought so far.
OutputOnSeat(w, c) ==
    c.kind = "swap" =>
        w.m.data[c.seat].bal[OutToken(c.swap)]
            >= c.initial[OutToken(c.swap)] + c.traded[OutToken(c.swap)]

\* No wallet pays or is paid before the end.
SwapInv == work.wallet = accounts.wallet /\ OutputOnSeat(work, ctx)

LEMMA SwapInvNext ==
    ASSUME work'.wallet = accounts'.wallet, OutputOnSeat(work', ctx')
    PROVE  SwapInv'
BY DEF SwapInv, OutputOnSeat, OutToken, Backing

LEMMA EndSwapInv ==
    ASSUME work' = accounts', ctx' = Idle
    PROVE  SwapInv'
<1>1. OutputOnSeat(work', ctx')
  BY DEF OutputOnSeat, Idle
<1>2. QED
  BY <1>1, SwapInvNext

\* What the seat holds and what the swap has bought.
LEMMA SeatNumbers ==
    ASSUME IInv, ctx.phase # "idle"
    PROVE  /\ ctx.seat \in SeatIndices(work.m) /\ OutToken(ctx.swap) \in Tokens
           /\ InToken(ctx.swap) \in Tokens
           /\ \A t \in Tokens : /\ work.m.data[ctx.seat].bal[t] \in Nat
                                /\ ctx.initial[t] \in Nat /\ ctx.traded[t] \in Nat
<1>1. ctx \in Contexts /\ work.m \in Markets /\ ctx.seat \in SeatIndices(work.m)
  BY BusySound, BothMarkets DEF WorkSound
<1>2. work.m.data[ctx.seat].bal \in [Tokens -> Nat]
  BY <1>1, SeatTyped DEF Seats
<1>3. ctx.initial \in [Tokens -> Nat] /\ ctx.traded \in [Tokens -> Nat]
  BY <1>1 DEF Contexts
<1>4. OutToken(ctx.swap) \in Tokens /\ InToken(ctx.swap) \in Tokens
  BY DEF OutToken, InToken, Backing, Tokens
<1>5. QED
  BY <1>1, <1>2, <1>3, <1>4

LEMMA SeatNext ==
    IInv' => (ctx.phase # "idle" => work.m \in Markets /\ ctx.seat \in SeatIndices(work.m))'
<1>1. IInv => (ctx.phase # "idle" => work.m \in Markets /\ ctx.seat \in SeatIndices(work.m))
  BY BusySound, BothMarkets DEF WorkSound
<1>2. QED
  BY <1>1, PTL

\* A step that buys nothing and takes nothing of it from the seat.
LEMMA QuietSwapInv ==
    ASSUME IInv, IInv', SwapInv, ctx.phase # "idle", ctx'.phase # "idle",
           accounts' = accounts, work'.wallet = work.wallet,
           ctx'.kind = ctx.kind, ctx'.seat = ctx.seat, ctx'.swap = ctx.swap,
           ctx'.initial = ctx.initial, ctx'.traded = ctx.traded,
           LET out == OutToken(ctx.swap)
           IN  ctx.kind = "swap" =>
                  work'.m.data[ctx.seat].bal[out] >= work.m.data[ctx.seat].bal[out]
    PROVE  SwapInv'
<1> DEFINE out == OutToken(ctx.swap)
<1>1. /\ work.m.data[ctx.seat].bal[out] \in Nat /\ ctx.initial[out] \in Nat
      /\ ctx.traded[out] \in Nat
  BY SeatNumbers
<1>2. work'.m.data[ctx.seat].bal[out] \in Nat
  <2>1. work'.m \in Markets /\ ctx'.seat \in SeatIndices(work'.m)
    BY SeatNext DEF SeatIndices
  <2>2. out \in Tokens
    BY SeatNumbers
  <2> HIDE DEF out
  <2>3. QED
    BY <2>1, <2>2, SeatTyped DEF Seats
<1>3. ctx.kind = "swap" =>
        work'.m.data[ctx.seat].bal[out] >= ctx.initial[out] + ctx.traded[out]
  <2>1. ctx.kind = "swap" =>
            /\ work'.m.data[ctx.seat].bal[out] >= work.m.data[ctx.seat].bal[out]
            /\ work.m.data[ctx.seat].bal[out] >= ctx.initial[out] + ctx.traded[out]
    BY DEF SwapInv, OutputOnSeat
  <2> HIDE DEF out
  <2>2. QED
    BY <1>1, <1>2, <2>1
<1>4. OutputOnSeat(work', ctx')
  BY <1>3 DEF OutputOnSeat
<1>5. QED
  BY <1>4, SwapInvNext DEF SwapInv

LEMMA TradeArrivalSwap ==
    ASSUME IInv, IInv', SwapInv, TradeArrival
    PROVE  SwapInv'
<1>1. PICK trader \in Traders, globals \in GlobalsPassed :
        \/ \E batch \in Batches[trader] :
            \E cancels \in [1 .. batch.cancels -> CancelParams(accounts.m)] :
                BatchUpdate(trader, batch, globals, cancels)
        \/ \E swap \in Swaps[trader] : Swap(trader, swap, globals)
  BY DEF TradeArrival
<1>2. CASE \E batch \in Batches[trader] :
            \E cancels \in [1 .. batch.cancels -> CancelParams(accounts.m)] :
                BatchUpdate(trader, batch, globals, cancels)
  <2>1. accounts' = accounts /\ work' = work /\ ctx'.kind = "batch"
    BY <1>2 DEF BatchUpdate, Step, Idle
  <2>2. OutputOnSeat(work', ctx')
    BY <2>1 DEF OutputOnSeat
  <2>3. QED
    BY <2>1, <2>2, SwapInvNext DEF SwapInv
<1>3. CASE \E swap \in Swaps[trader] : Swap(trader, swap, globals)
  <2>1. PICK swap \in Swaps[trader] : Swap(trader, swap, globals)
    BY <1>3
  <2> DEFINE out == OutToken(ctx'.swap)
  <2>2. /\ accounts' = accounts /\ work'.wallet = work.wallet /\ ctx'.traded = NoTokens
        /\ \A t \in Tokens : work'.m.data[ctx'.seat].bal[t]
                    = ctx'.initial[t] + (IF t = InToken(ctx'.swap) THEN ctx'.swap.in ELSE 0)
    BY <2>1, SwapEffect DEF SameTokens
  <2>3. ctx' \in Contexts
    BY BothMarketsNext
  <2>4. out \in Tokens /\ out # InToken(ctx'.swap) /\ ctx'.initial[out] \in Nat
    BY <2>3 DEF Contexts, SwapArgs, OutToken, InToken, Backing, Tokens
  <2>5. ctx'.traded[out] = 0
    BY <2>2, <2>4 DEF NoTokens
  <2>6. work'.m.data[ctx'.seat].bal[out] = ctx'.initial[out]
    BY <2>2, <2>4
  <2>7. OutputOnSeat(work', ctx')
    BY <2>4, <2>5, <2>6 DEF OutputOnSeat
  <2>8. QED
    BY <2>2, <2>7, SwapInvNext DEF SwapInv
<1>4. QED
  BY <1>1, <1>2, <1>3

LEMMA QuietStepSwap ==
    ASSUME IInv, IInv', SwapInv,
           \/ CancelOrder \/ CleanStaleMaker \/ CleanUnbackedMaker
           \/ PrepayGas \/ StopMatching \/ WalkPast \/ CountMaker \/ StopWalking
    PROVE  SwapInv'
<1>1. CASE CancelOrder \/ CleanStaleMaker \/ CleanUnbackedMaker
  <2>1. PICK i \in OrderIndices(work.m) : ReturnedBy(i)
    BY <1>1, ReturnEffect
  <2>2. /\ ctx.phase # "idle" /\ ctx'.phase # "idle"
        /\ accounts' = accounts /\ work'.wallet = work.wallet
        /\ ctx'.kind = ctx.kind /\ ctx'.seat = ctx.seat /\ ctx'.swap = ctx.swap
        /\ ctx'.initial = ctx.initial /\ ctx'.traded = ctx.traded
        /\ \A s \in SeatIndices(work.m), t \in Tokens :
                work'.m.data[s].bal[t] >= work.m.data[s].bal[t]
    BY <2>1 DEF ReturnedBy, SameTokens, SameOrderPlaced
  <2>3. ctx.seat \in SeatIndices(work.m) /\ OutToken(ctx.swap) \in Tokens
    BY <2>2, SeatNumbers
  <2>4. QED
    BY <2>2, <2>3, QuietSwapInv
<1>2. CASE PrepayGas
  <2>1. ctx.phase = "cancel" /\ ctx.phase # "idle"
    BY <1>2 DEF PrepayGas
  <2>2. ctx \in Contexts /\ ctx.kind # "swap"
    BY <2>1, BusySound DEF WorkSound, SwapSound
  <2>3. work \in Accounts
    BY <2>1, BusySound DEF WorkSound
  <2>4. /\ accounts' = accounts /\ work'.wallet = work.wallet /\ ctx'.kind = ctx.kind
    BY <1>2, <2>2, <2>3 DEF PrepayGas, Step, Accounts, Contexts
  <2>5. OutputOnSeat(work', ctx')
    BY <2>2, <2>4 DEF OutputOnSeat
  <2>6. QED
    BY <2>4, <2>5, SwapInvNext DEF SwapInv
<1>3. CASE StopMatching \/ WalkPast \/ CountMaker \/ StopWalking
  <2>1. /\ work' = work /\ accounts' = accounts /\ SameOrderPlaced(ctx, ctx')
        /\ ctx.phase # "idle" /\ ctx'.phase # "idle"
    BY <1>3, StopMatchingEffect, WalkEffect
  <2>2. work.m.data[ctx.seat].bal[OutToken(ctx.swap)] \in Nat
    BY <2>1, SeatNumbers
  <2>3. QED
    BY <2>1, <2>2, QuietSwapInv DEF SameOrderPlaced
<1>4. QED
  BY <1>1, <1>2, <1>3

\* A swap buys with its order: the token the loop credits is its output.
LEMMA SwapBuysOut ==
    ASSUME IInv, ctx.phase \in MatchingPhases, ctx.kind = "swap"
    PROVE  OutToken(ctx.swap) = Backing(~ ctx.args.is_bid)
<1>1. ctx.phase # "idle"
  BY DEF MatchingPhases
<1>2. ctx \in Contexts /\ IsSwapOrder(ctx.swap, ctx.args)
  BY <1>1, BusySound DEF WorkSound, SwapSound
<1>3. ctx.swap.is_base_in \in BOOLEAN /\ ctx.args.is_bid = ~ ctx.swap.is_base_in
  BY <1>2 DEF Contexts, SwapArgs, IsSwapOrder
<1>4. CASE ctx.swap.is_base_in = TRUE
  BY <1>3, <1>4 DEF OutToken, Backing
<1>5. CASE ctx.swap.is_base_in = FALSE
  BY <1>3, <1>5 DEF OutToken, Backing
<1>6. QED
  BY <1>3, <1>4, <1>5

LEMMA BeginOrderSwap ==
    ASSUME IInv, SwapInv, BeginOrder
    PROVE  SwapInv'
<1> DEFINE out == OutToken(ctx.swap)
<1>1. /\ ctx.phase = "next" /\ accounts' = accounts /\ work'.wallet = work.wallet
      /\ work'.m.data = work.m.data
      /\ ctx'.kind = ctx.kind /\ ctx'.seat = ctx.seat /\ ctx'.swap = ctx.swap
      /\ ctx'.initial = ctx.initial /\ ctx'.traded = NoTokens
  BY BeginOrderEffect DEF SameTokens
<1>2. /\ work.m.data[ctx.seat].bal[out] \in Nat /\ ctx.initial[out] \in Nat
      /\ ctx.traded[out] \in Nat /\ out \in Tokens
  BY <1>1, SeatNumbers
<1>3. ctx.kind = "swap" =>
        work.m.data[ctx.seat].bal[out] >= ctx.initial[out] + ctx.traded[out]
  BY DEF SwapInv, OutputOnSeat
<1>4. ctx'.traded[out] = 0
  BY <1>1, <1>2 DEF NoTokens
<1> HIDE DEF out
<1>5. ctx.kind = "swap" =>
        work.m.data[ctx.seat].bal[out] >= ctx.initial[out] + ctx'.traded[out]
  BY <1>2, <1>3, <1>4
<1>6. OutputOnSeat(work', ctx')
  BY <1>1, <1>5 DEF OutputOnSeat, out
<1>7. QED
  BY <1>1, <1>6, SwapInvNext DEF SwapInv

\* What the trade pays the taker is credited to its seat.
LEMMA FillSwap ==
    ASSUME IInv, SwapInv, Fill
    PROVE  SwapInv'
<1>1. PICK i \in Index : FilledBy(i)
  BY FillEffect
<1> DEFINE trade == Trade(i)
           is_bid == ctx.args.is_bid
           out == OutToken(ctx.swap)
<1>2. /\ IsMaker(i) /\ accounts' = accounts /\ work'.wallet = work.wallet
      /\ trade.base \in Nat /\ trade.quote \in Nat /\ trade.got \in Nat
      /\ work'.m.data[ctx.seat].bal[Backing(~ is_bid)]
            >= work.m.data[ctx.seat].bal[Backing(~ is_bid)] + trade.got
      /\ ctx'.traded = [base |-> ctx.traded["base"] + trade.base,
                        quote |-> ctx.traded["quote"] + trade.quote]
      /\ ctx'.kind = ctx.kind /\ ctx'.seat = ctx.seat /\ ctx'.swap = ctx.swap
      /\ ctx'.initial = ctx.initial
      /\ ctx'.phase \in {"match", "reverse"}
  BY <1>1 DEF FilledBy
<1>3. ctx.phase = "match" /\ ctx.phase # "idle" /\ ctx.phase \in MatchingPhases
  BY <1>2 DEF IsMaker, MatchingPhases
<1>4. ctx \in Contexts /\ is_bid \in BOOLEAN
  BY BothMarkets DEF Contexts, OrderArgs
<1>5. trade.got = IF is_bid THEN trade.base ELSE trade.quote
  BY DEF Trade, TradeWith
<1> HIDE DEF trade
<1>6. ctx'.traded[Backing(~ is_bid)] = ctx.traded[Backing(~ is_bid)] + trade.got
  <2>1. CASE is_bid = TRUE
    BY <1>2, <1>5, <2>1 DEF Backing
  <2>2. CASE is_bid = FALSE
    BY <1>2, <1>5, <2>2 DEF Backing
  <2>3. QED
    BY <1>4, <2>1, <2>2
<1>7. \A t \in Tokens : work.m.data[ctx.seat].bal[t] \in Nat
                        /\ ctx.initial[t] \in Nat /\ ctx.traded[t] \in Nat
  BY <1>3, SeatNumbers
<1>8. ctx.kind = "swap" =>
        work'.m.data[ctx.seat].bal[out] >= ctx.initial[out] + ctx'.traded[out]
  <2> SUFFICES ASSUME ctx.kind = "swap"
               PROVE  work'.m.data[ctx.seat].bal[out] >= ctx.initial[out] + ctx'.traded[out]
    OBVIOUS
  <2>1. out = Backing(~ is_bid) /\ out \in Tokens
    BY <1>3, SwapBuysOut, SeatNumbers
  <2>2. work.m.data[ctx.seat].bal[out] >= ctx.initial[out] + ctx.traded[out]
    BY DEF SwapInv, OutputOnSeat
  <2>3. /\ work'.m.data[ctx.seat].bal[out] >= work.m.data[ctx.seat].bal[out] + trade.got
        /\ ctx'.traded[out] = ctx.traded[out] + trade.got
    BY <1>2, <1>6, <2>1
  <2>4. work'.m.data[ctx.seat].bal[out] \in Nat
    <3>1. ctx'.phase # "idle"
        BY <1>2
    <3>2. work'.m \in Markets /\ ctx'.seat \in SeatIndices(work'.m)
        BY <3>1, SeatNext, NextSound DEF SeatIndices, Next, Progress
    <3> HIDE DEF out
    <3>3. QED
        BY <1>2, <2>1, <3>2, SeatTyped DEF Seats
  <2>5. /\ work.m.data[ctx.seat].bal[out] \in Nat /\ ctx.initial[out] \in Nat
        /\ ctx.traded[out] \in Nat /\ trade.got \in Nat
    BY <1>2, <1>7, <2>1
  <2> HIDE DEF out
  <2>6. QED
    BY <2>2, <2>3, <2>4, <2>5
<1>9. OutputOnSeat(work', ctx')
  BY <1>2, <1>8 DEF OutputOnSeat
<1>10. QED
  BY <1>2, <1>9, SwapInvNext DEF SwapInv

\* A reversal is paid in the token that the taker sells.
LEMMA PlaceReverseSwap ==
    ASSUME IInv, IInv', SwapInv, PlaceReverse
    PROVE  SwapInv'
<1> DEFINE out == OutToken(ctx.swap)
<1>1. /\ ctx \in Contexts /\ ctx.phase = "reverse" /\ ctx.phase # "idle"
      /\ ctx' = [ctx EXCEPT !.phase = "match", !.reversal = NoReversal]
      /\ accounts' = accounts /\ work'.wallet = work.wallet
      /\ \A s \in SeatIndices(work.m) :
            work'.m.data[s].bal[Backing(~ ctx.args.is_bid)]
                = work.m.data[s].bal[Backing(~ ctx.args.is_bid)]
  BY PlaceReverseEffect
<1>2. /\ ctx'.phase # "idle" /\ ctx'.kind = ctx.kind /\ ctx'.seat = ctx.seat
      /\ ctx'.swap = ctx.swap /\ ctx'.initial = ctx.initial /\ ctx'.traded = ctx.traded
  <2>1. ctx \in Contexts /\ ctx' = [ctx EXCEPT !.phase = "match", !.reversal = NoReversal]
    BY <1>1
  <2>2. QED
    BY <2>1 DEF Contexts
<1>3. ctx.seat \in SeatIndices(work.m) /\ work.m.data[ctx.seat].bal[out] \in Nat
  BY <1>1, SeatNumbers
<1>4. ctx.kind = "swap" => out = Backing(~ ctx.args.is_bid)
  BY <1>1, SwapBuysOut DEF MatchingPhases
<1>5. ctx.kind = "swap" =>
        work'.m.data[ctx.seat].bal[out] >= work.m.data[ctx.seat].bal[out]
  <2> SUFFICES ASSUME ctx.kind = "swap"
               PROVE  work'.m.data[ctx.seat].bal[out] >= work.m.data[ctx.seat].bal[out]
    OBVIOUS
  <2> DEFINE before == work.m.data[ctx.seat].bal[out]
             after == work'.m.data[ctx.seat].bal[out]
  <2>1. before \in Nat
    BY <1>3
  <2>2. after = before
    <3>1. work'.m.data[ctx.seat].bal[Backing(~ ctx.args.is_bid)]
            = work.m.data[ctx.seat].bal[Backing(~ ctx.args.is_bid)]
      BY <1>1, <1>3
    <3>2. out = Backing(~ ctx.args.is_bid)
      BY <1>4
    <3> HIDE DEF out
    <3>3. QED
      BY <3>1, <3>2
  <2> HIDE DEF before, after
  <2>3. after >= before
    BY <2>1, <2>2
  <2>4. QED
    BY <2>3 DEF before, after
<1>6. QED
  BY <1>1, <1>2, <1>5, QuietSwapInv

\* The order of a swap does not rest.
LEMMA FinishOrderSwap ==
    ASSUME IInv, IInv', SwapInv, FinishOrder
    PROVE  SwapInv'
<1>1. /\ ctx \in Contexts /\ ctx.phase = "settle" /\ ctx.phase # "idle"
      /\ ctx' = [ctx EXCEPT !.phase = "next", !.pending = 0, !.remaining = 0, !.seq = 0]
      /\ accounts' = accounts /\ work'.wallet = work.wallet
      /\ ctx.kind = "swap" => work'.m = work.m
  BY FinishOrderEffect
<1>2. /\ ctx'.phase # "idle" /\ ctx'.kind = ctx.kind /\ ctx'.seat = ctx.seat
      /\ ctx'.swap = ctx.swap /\ ctx'.initial = ctx.initial /\ ctx'.traded = ctx.traded
  BY <1>1 DEF Contexts
<1>3. work.m.data[ctx.seat].bal[OutToken(ctx.swap)] \in Nat
  BY <1>1, SeatNumbers
<1>4. QED
  BY <1>1, <1>2, <1>3, QuietSwapInv

\* An instruction of one step ends as it begins.
LEMMA OneStep ==
    ASSUME MarketArrival \/ GlobalArrival
    PROVE  ctx = Idle /\ work' = accounts' /\ ctx' = Idle
<1>1. ASSUME NEW a, ctx = Idle /\ Commit(a)
      PROVE  ctx = Idle /\ work' = accounts' /\ ctx' = Idle
  BY <1>1 DEF Commit
<1>2. CASE MarketArrival
  <2>1. CASE \E trader \in Traders : ClaimSeat(trader)
    BY <1>1, <2>1 DEF ClaimSeat
  <2>2. CASE \E trader \in Traders, token \in Tokens, atoms \in Amounts :
                Deposit(trader, token, atoms) \/ Withdraw(trader, token, atoms)
    BY <1>1, <2>2 DEF Deposit, Withdraw
  <2>3. CASE Expand \/ \E n \in 0 .. MaxExpand : ExpandTo(n)
    BY <1>1, <2>3 DEF Expand, ExpandTo
  <2>4. QED
    BY <1>2, <2>1, <2>2, <2>3 DEF MarketArrival
<1>3. CASE GlobalArrival
  <2>1. CASE \E trader \in Traders, token \in Tokens : GlobalAddTrader(trader, token)
    BY <1>1, <2>1 DEF GlobalAddTrader
  <2>2. CASE \E trader \in Traders, token \in Tokens, atoms \in Amounts :
                \/ GlobalDeposit(trader, token, atoms)
                \/ GlobalWithdraw(trader, token, atoms)
                \/ \E evictee \in Traders : GlobalEvict(trader, evictee, token, atoms)
    <3>1. PICK trader \in Traders, token \in Tokens, atoms \in Amounts :
                \/ GlobalDeposit(trader, token, atoms)
                \/ GlobalWithdraw(trader, token, atoms)
                \/ \E evictee \in Traders : GlobalEvict(trader, evictee, token, atoms)
        BY <2>2
    <3>2. CASE GlobalDeposit(trader, token, atoms)
        BY <1>1, <3>2 DEF GlobalDeposit
    <3>3. CASE GlobalWithdraw(trader, token, atoms)
        BY <1>1, <3>3 DEF GlobalWithdraw
    <3>4. CASE \E evictee \in Traders : GlobalEvict(trader, evictee, token, atoms)
        BY <1>1, <3>4 DEF GlobalEvict
    <3>5. QED
        BY <3>1, <3>2, <3>3, <3>4
  <2>3. CASE \E i \in Index : GlobalClean(i)
    BY <1>1, <2>3 DEF GlobalClean
  <2>4. QED
    BY <1>3, <2>1, <2>2, <2>3 DEF GlobalArrival
<1>4. QED
  BY <1>2, <1>3

\* Which steps end an instruction, and how.
LEMMA EndOrStep ==
    ASSUME [Next]_vars
    PROVE  \/ accounts' = accounts
           \/ ctx = Idle /\ work' = accounts' /\ ctx' = Idle
           \/ FinishBatch \/ FinishSwap
<1>1. CASE MarketArrival \/ GlobalArrival
  BY <1>1, OneStep
<1>2. CASE TradeArrival
  <2>1. ASSUME NEW a, NEW c, Step(a, c)
        PROVE  accounts' = accounts
    BY <2>1 DEF Step
  <2>2. PICK trader \in Traders, globals \in GlobalsPassed :
            \/ \E batch \in Batches[trader] :
                \E cancels \in [1 .. batch.cancels -> CancelParams(accounts.m)] :
                    BatchUpdate(trader, batch, globals, cancels)
            \/ \E swap \in Swaps[trader] : Swap(trader, swap, globals)
    BY <1>2 DEF TradeArrival
  <2>3. CASE \E batch \in Batches[trader] :
                \E cancels \in [1 .. batch.cancels -> CancelParams(accounts.m)] :
                    BatchUpdate(trader, batch, globals, cancels)
    BY <2>1, <2>3 DEF BatchUpdate
  <2>4. CASE \E swap \in Swaps[trader] : Swap(trader, swap, globals)
    BY <2>1, <2>4 DEF Swap
  <2>5. QED
    BY <2>2, <2>3, <2>4
<1>3. CASE AdvanceSlot \/ UNCHANGED vars
  BY <1>3 DEF AdvanceSlot, vars
<1>4. CASE Progress
  <2>1. CASE \/ CancelOrder \/ PrepayGas \/ BeginOrder \/ CleanStaleMaker \/ CleanUnbackedMaker
             \/ Fill \/ PlaceReverse \/ StopMatching \/ FinishOrder
             \/ WalkPast \/ CountMaker \/ StopWalking
    BY <2>1 DEF CancelOrder, PrepayGas, BeginOrder, CleanStaleMaker, CleanUnbackedMaker,
                CleanMaker, Fill, PlaceReverse, StopMatching, FinishOrder, WalkPast,
                CountMaker, StopWalking, Step
  <2>2. CASE \/ CancelFails \/ PrepayGasFails \/ BeginOrderFails \/ FillFails
             \/ PlaceReverseFails \/ FinishOrderFails \/ EstimateFails \/ FinishSwapFails
    BY <2>2 DEF CancelFails, PrepayGasFails, BeginOrderFails, FillFails, PlaceReverseFails,
                FinishOrderFails, EstimateFails, FinishSwapFails, Abort
  <2>3. QED
    BY <1>4, <2>1, <2>2 DEF Progress
<1>5. QED
  BY <1>1, <1>2, <1>3, <1>4 DEF Next

LEMMA NextSwapInv ==
    ASSUME IInv, IInv', SwapInv, [Next]_vars
    PROVE  SwapInv'
<1>1. CASE MarketArrival \/ GlobalArrival
  <2>1. ctx = Idle /\ work' = accounts' /\ ctx' = Idle
    BY <1>1, OneStep
  <2>2. QED
    BY <2>1, EndSwapInv
<1>2. CASE AdvanceSlot \/ UNCHANGED vars
  <2>1. accounts' = accounts /\ work' = work /\ ctx' = ctx
    BY <1>2 DEF AdvanceSlot, vars
  <2>2. QED
    BY <2>1, SwapInvNext DEF SwapInv
<1>3. CASE TradeArrival
  BY <1>3, TradeArrivalSwap
<1>4. CASE Progress
  <2>1. CASE \/ CancelFails \/ PrepayGasFails \/ BeginOrderFails \/ FillFails
             \/ PlaceReverseFails \/ FinishOrderFails \/ EstimateFails \/ FinishSwapFails
    <3>1. Abort
        BY <2>1 DEF CancelFails, PrepayGasFails, BeginOrderFails, FillFails,
                    PlaceReverseFails, FinishOrderFails, EstimateFails, FinishSwapFails
    <3>2. work' = accounts' /\ ctx' = Idle
        BY <3>1 DEF Abort
    <3>3. QED
        BY <3>2, EndSwapInv
  <2>2. CASE \/ CancelOrder \/ CleanStaleMaker \/ CleanUnbackedMaker
             \/ PrepayGas \/ StopMatching \/ WalkPast \/ CountMaker \/ StopWalking
    BY <2>2, QuietStepSwap
  <2>3. CASE FinishBatch \/ FinishSwap
    <3>1. work' = accounts' /\ ctx' = Idle
        BY <2>3 DEF FinishBatch, FinishSwap, Commit
    <3>2. QED
        BY <3>1, EndSwapInv
  <2>4. CASE BeginOrder \/ Fill \/ PlaceReverse \/ FinishOrder
    BY <2>4, BeginOrderSwap, FillSwap, PlaceReverseSwap, FinishOrderSwap
  <2>5. QED
    BY <1>4, <2>1, <2>2, <2>3, <2>4 DEF Progress
<1>5. QED
  BY <1>1, <1>2, <1>3, <1>4 DEF Next

\* The transfers at the end of a swap stay within its limits.
\* What a swap that is done has consumed, at most its input, and what its seat
\* holds of the token it bought.
LEMMA SwapAmounts ==
    ASSUME IInv, SwapInv, FinishSwap
    PROVE  /\ InToken(ctx.swap) \in Tokens /\ OutToken(ctx.swap) \in Tokens
           /\ InToken(ctx.swap) # OutToken(ctx.swap)
           /\ ctx.swap.in \in Nat /\ ctx.swap.out \in Nat
           /\ \A t \in Tokens : Extra(t) \in Nat /\ ctx.traded[t] \in Nat
           /\ Consumed \in Nat /\ Consumed <= ctx.swap.in
           /\ ctx.traded[OutToken(ctx.swap)] <= Extra(OutToken(ctx.swap))
<1> DEFINE in == InToken(ctx.swap)
           out == OutToken(ctx.swap)
<1>1. /\ ctx.phase = "next" /\ ctx.phase # "idle" /\ ctx.kind = "swap"
      /\ \A t \in Tokens : Extra(t) >= 0
  BY DEF FinishSwap, SwapOrderDone, CanFinishSwap
<1>2. ctx \in Contexts
  BY <1>1, BusySound DEF WorkSound
<1>3. in \in Tokens /\ out \in Tokens /\ in # out
  <2>1. ctx.swap.is_base_in \in BOOLEAN
    BY <1>2 DEF Contexts, SwapArgs
  <2>2. QED
    BY <2>1, BackingToken DEF InToken, OutToken
<1>4. \A t \in Tokens : /\ work.m.data[ctx.seat].bal[t] \in Nat /\ ctx.initial[t] \in Nat
                        /\ ctx.traded[t] \in Nat /\ Extra(t) \in Nat
                        /\ Extra(t) = work.m.data[ctx.seat].bal[t] - ctx.initial[t]
  BY <1>1, SeatNumbers DEF Extra
<1>5. ctx.swap.in \in Nat /\ ctx.swap.out \in Nat
  BY <1>2 DEF Contexts, SwapArgs
<1>6. Consumed \in Nat /\ Consumed <= ctx.swap.in
  <2> DEFINE unused == Extra(in)
  <2>1. unused \in Nat
    BY <1>3, <1>4
  <2>2. Consumed = IF unused >= ctx.swap.in THEN 0 ELSE ctx.swap.in - unused
    BY DEF Consumed
  <2> HIDE DEF unused
  <2>3. QED
    BY <1>5, <2>1, <2>2
<1>7. ctx.traded[out] <= Extra(out)
  <2>1. work.m.data[ctx.seat].bal[out] >= ctx.initial[out] + ctx.traded[out]
    BY <1>1 DEF SwapInv, OutputOnSeat
  <2>2. /\ work.m.data[ctx.seat].bal[out] \in Nat /\ ctx.initial[out] \in Nat
        /\ ctx.traded[out] \in Nat
        /\ Extra(out) = work.m.data[ctx.seat].bal[out] - ctx.initial[out]
    BY <1>3, <1>4
  <2> HIDE DEF out
  <2>3. QED
    BY <2>1, <2>2
<1>8. QED
  BY <1>3, <1>4, <1>5, <1>6, <1>7

LEMMA FinishSwapLimits ==
    ASSUME IInv, SwapInv, FinishSwap
    PROVE  LET in  == InToken(ctx.swap)
               out == OutToken(ctx.swap)
           IN  /\ accounts'.wallet[Swapper][in] >= accounts.wallet[Swapper][in] - ctx.swap.in
               /\ ctx.swap.is_exact_in =>
                    accounts'.wallet[Swapper][out] >= accounts.wallet[Swapper][out] + ctx.swap.out
               /\ IF ctx.temp THEN GetTraderIndex(accounts'.m, Swapper) = NIL
                              ELSE accounts'.m.data[ctx.seat].bal = ctx.initial
<1> DEFINE in == InToken(ctx.swap)
           out == OutToken(ctx.swap)
           vault == [work.vault EXCEPT ![in] = @ + Consumed, ![out] = @ - Extra(out)]
           wallet == [work.wallet EXCEPT ![Swapper][in] = @ - Consumed,
                                         ![Swapper][out] = @ + Extra(out)]
           a == [work EXCEPT !.m = SeatSettled, !.vault = vault, !.wallet = wallet]
<1>1. /\ ctx.phase = "next" /\ ctx.phase # "idle" /\ ctx.kind = "swap" /\ WithinLimit
      /\ \A t \in Tokens : Extra(t) >= 0
  BY DEF FinishSwap, SwapOrderDone, CanFinishSwap
<1>2. Commit(a)
  BY DEF FinishSwap
<1>3. /\ WorkSound(work, ctx) /\ work \in Accounts /\ ctx \in Contexts
      /\ MarketSound(work.m) /\ UniqueSeats(work.m)
      /\ ctx.seat \in SeatIndices(work.m) /\ work.m \in Markets
  BY <1>1, BusySound DEF WorkSound, MarketSound
<1>4. in \in Tokens /\ out \in Tokens /\ in # out
  BY SwapAmounts
<1>5. Swapper \in Traders
  BY <1>3, SeatTyped DEF Swapper, Seats
<1>6. \A t \in Tokens : Extra(t) \in Nat /\ ctx.traded[t] \in Nat
  BY SwapAmounts
<1>7. ctx.swap.in \in Nat /\ ctx.swap.out \in Nat
  BY SwapAmounts
<1>8. Consumed \in Nat /\ Consumed <= ctx.swap.in
  BY SwapAmounts
<1>9. ctx.swap.is_exact_in => ctx.swap.out <= Extra(out)
  <2>1. ctx.traded[out] <= Extra(out) /\ ctx.traded[out] \in Nat /\ Extra(out) \in Nat
    BY <1>4, <1>6, SwapAmounts
  <2>2. ctx.swap.is_exact_in => ctx.swap.out <= ctx.traded[out]
    BY <1>1 DEF WithinLimit
  <2> HIDE DEF out
  <2>3. QED
    BY <1>7, <2>1, <2>2
<1>10. /\ wallet[Swapper][in] = work.wallet[Swapper][in] - Consumed
       /\ wallet[Swapper][out] = work.wallet[Swapper][out] + Extra(out)
       /\ work.wallet[Swapper][in] \in Nat /\ work.wallet[Swapper][out] \in Nat
  <2>1. work.wallet \in [Traders -> [Tokens -> Nat]]
    BY <1>3 DEF Accounts
  <2>2. work.wallet[Swapper] \in [Tokens -> Nat]
    BY <1>5, <2>1
  <2> HIDE DEF in, out
  <2>3. QED
    BY <1>4, <1>5, <2>1, <2>2
<1> HIDE DEF vault, wallet
<1>11. a.m = SeatSettled /\ a.wallet = wallet
  BY <1>3 DEF Accounts
<1> HIDE DEF a
<1>12. /\ MarketSound(SeatSettled)
       /\ IF ctx.temp
          THEN /\ SeatIndices(SeatSettled) = SeatIndices(work.m) \ {ctx.seat}
               /\ \A j \in SeatIndices(SeatSettled) :
                    SeatSettled.data[j].trader = work.m.data[j].trader
          ELSE SeatSettled.data[ctx.seat].bal = ctx.initial
  BY <1>1, <1>3, SeatSettledSound
<1>13. ctx.temp => GetTraderIndex(SeatSettled, Swapper) = NIL
  <2> SUFFICES ASSUME ctx.temp
               PROVE  GetTraderIndex(SeatSettled, Swapper) = NIL
    OBVIOUS
  <2> DEFINE n == SeatSettled
  <2>1. \A j \in SeatIndices(n) : n.data[j].trader # Swapper
    BY <1>3, <1>12 DEF UniqueSeats, Swapper
  <2>2. MarketSound(n)
    BY <1>12
  <2> HIDE DEF n
  <2>3. GetTraderIndex(n, Swapper) = NIL
    BY <2>1, <2>2, TraderIndexSound
  <2>4. QED
    BY <2>3 DEF n
<1>14. accounts' = a /\ work.wallet = accounts.wallet
  BY <1>2 DEF Commit, SwapInv
<1>15. wallet[Swapper][in] >= work.wallet[Swapper][in] - ctx.swap.in
  BY <1>7, <1>8, <1>10
<1>16. ctx.swap.is_exact_in =>
            wallet[Swapper][out] >= work.wallet[Swapper][out] + ctx.swap.out
  <2>1. Extra(out) \in Nat
    BY <1>4, <1>6
  <2> HIDE DEF out
  <2>2. QED
    BY <1>7, <1>9, <1>10, <2>1
<1>17. IF ctx.temp THEN GetTraderIndex(accounts'.m, Swapper) = NIL
                   ELSE accounts'.m.data[ctx.seat].bal = ctx.initial
  BY <1>11, <1>12, <1>13, <1>14
<1>18. QED
  BY <1>11, <1>14, <1>15, <1>16, <1>17

\* An order of a swap that is done ends in FinishSwap, unless nothing changes.
LEMMA SwapDone ==
    ASSUME [Next]_vars, SwapOrderDone, accounts' # accounts
    PROVE  FinishSwap
<1>1. ctx # Idle /\ ~ FinishBatch
  BY DEF SwapOrderDone, FinishBatch, Idle
<1>2. QED
  BY <1>1, EndOrStep

LEMMA SwapInductive == Spec => [](IInv /\ SwapInv)
<1>1. Init => SwapInv
  <2> SUFFICES ASSUME Init PROVE SwapInv
    OBVIOUS
  <2>1. work = accounts /\ ctx.kind = "batch"
    BY DEF Init, Idle
  <2>2. QED
    BY <2>1 DEF SwapInv, OutputOnSeat
<1>2. IInv /\ IInv' /\ SwapInv /\ [Next]_vars => SwapInv'
  BY NextSwapInv
<1>3. QED
  BY <1>1, <1>2, Inductive, PTL DEF Spec

\* A swap takes no more than its input from the wallet, pays an exact-in one at
\* least its output, and leaves no temporary seat or the balances of the trader's seat as
\* they were, whatever the book does meanwhile, reversals of its own orders included.
THEOREM SwapWithinLimits == Spec => SwapHonoursLimits
<1> DEFINE Honoured ==
              SwapOrderDone /\ accounts' # accounts =>
                LET in  == InToken(ctx.swap)
                    out == OutToken(ctx.swap)
                IN  /\ accounts'.wallet[Swapper][in] >= accounts.wallet[Swapper][in] - ctx.swap.in
                    /\ ctx.swap.is_exact_in =>
                        accounts'.wallet[Swapper][out]
                            >= accounts.wallet[Swapper][out] + ctx.swap.out
                    /\ IF ctx.temp THEN GetTraderIndex(accounts'.m, Swapper) = NIL
                                   ELSE accounts'.m.data[ctx.seat].bal = ctx.initial
<1>1. IInv /\ SwapInv /\ [Next]_vars => Honoured
  <2> SUFFICES ASSUME IInv, SwapInv, [Next]_vars, SwapOrderDone, accounts' # accounts
               PROVE  Honoured
    OBVIOUS
  <2>1. FinishSwap
    BY SwapDone
  <2> HIDE DEF Honoured
  <2>2. QED
    BY <2>1, FinishSwapLimits DEF Honoured
<1>2. Honoured => [Honoured]_vars
  OBVIOUS
<1> HIDE DEF Honoured
<1>3. Spec => [][Honoured]_vars
  BY <1>1, <1>2, SwapInductive, PTL DEF Spec
<1>4. QED
  BY <1>3 DEF SwapHonoursLimits, Honoured

-----------------------------------------------------------------------------
(* The fee and its inverse. *)

\* A quotient that is rounded up is the least bound of its kind.
LEMMA CeilLeast ==
    ASSUME NEW a \in Nat, NEW d \in Nat \ {0}, NEW c \in Nat
    PROVE  CeilDiv(a, d) \in Nat /\ (CeilDiv(a, d) <= c <=> a <= d * c)
<1> DEFINE n == a + d - 1
           q == n \div d
           r == n % d
<1>1. n \in Nat
  OBVIOUS
<1>2. CeilDiv(a, d) = q
  BY DEF CeilDiv
<1> HIDE DEF n
<1>3. q \in Nat /\ r \in 0 .. (d - 1) /\ n = d * q + r
  BY <1>1
<1> HIDE DEF q, r
<1>4. d * q \in Nat /\ d * c \in Nat /\ a + d - 1 = d * q + r
  BY <1>3 DEF n
<1>5. CASE q <= c
  <2> DEFINE k == c - q
  <2>1. k \in Nat /\ c = q + k
    BY <1>3, <1>5
  <2> HIDE DEF k
  <2>2. d * c = d * q + d * k /\ d * k \in Nat
    BY <1>3, <2>1
  <2>3. a <= d * c
    BY <1>3, <1>4, <2>2
  <2>4. QED
    BY <1>2, <1>3, <1>5, <2>3
<1>6. CASE ~ (q <= c)
  <2> DEFINE k == q - c - 1
  <2>1. k \in Nat /\ q = c + 1 + k
    BY <1>3, <1>6
  <2> HIDE DEF k
  <2>2. d * q = d * c + d + d * k /\ d * k \in Nat
    BY <1>3, <2>1
  <2>3. ~ (a <= d * c)
    BY <1>3, <1>4, <2>2
  <2>4. QED
    BY <1>2, <1>3, <1>6, <2>3
<1>7. QED
  BY <1>5, <1>6

\* Enough for c arrives of a: what the rate leaves is enough, or the fee is
\* capped.
Enough(schedule, a, c) ==
    \/ ONE_IN_BASIS_POINTS * c <= (ONE_IN_BASIS_POINTS - schedule.basis_points) * a
    \/ c + schedule.maximum <= a

LEMMA ArrivesEnough ==
    ASSUME NEW schedule \in FeeSchedules, NEW a \in Nat, NEW c \in Nat
    PROVE  PostFee(schedule, a) \in Int /\ (PostFee(schedule, a) >= c <=> Enough(schedule, a, c))
<1> DEFINE d == ONE_IN_BASIS_POINTS
           b == schedule.basis_points
           k == d - b
           max == schedule.maximum
           fee == CeilDiv(a * b, d)
<1>1. d \in Nat \ {0} /\ b \in 0 .. d /\ max \in Nat
  BY FeeAssumption
<1>2. PostFee(schedule, a) = a - (IF fee < max THEN fee ELSE max)
  BY DEF PostFee, Fee, AtMost
<1>3. Enough(schedule, a, c) <=> d * c <= k * a \/ c + max <= a
  BY DEF Enough
<1> HIDE DEF d, b, max
<1>4. a * b \in Nat /\ k \in Nat /\ k * a \in Nat /\ d * c \in Nat /\ d * a \in Nat
  BY <1>1
<1>5. k * a = d * a - a * b
  BY <1>1
<1>6. fee \in Nat
  BY <1>1, <1>4, CeilLeast
<1>7. CASE c <= a
  <2> DEFINE e == a - c
  <2>1. e \in Nat /\ a = c + e
    BY <1>7
  <2>2. fee <= e <=> a * b <= d * e
    BY <1>1, <1>4, <2>1, CeilLeast
  <2> HIDE DEF e
  <2>3. d * a = d * c + d * e /\ d * e \in Nat
    BY <1>1, <2>1
  <2>4. fee <= e <=> d * c <= k * a
    BY <1>4, <1>5, <2>2, <2>3
  <2> HIDE DEF fee, k
  <2>5. QED
    BY <1>1, <1>2, <1>3, <1>6, <2>1, <2>4
<1>8. CASE ~ (c <= a)
  <2> DEFINE e == c - a - 1
  <2>1. e \in Nat /\ c = a + 1 + e
    BY <1>8
  <2> HIDE DEF e
  <2>2. d * c = d * a + d + d * e /\ d * e \in Nat
    BY <1>1, <2>1
  <2>3. ~ (d * c <= k * a)
    BY <1>1, <1>4, <1>5, <2>2
  <2> HIDE DEF fee, k
  <2>4. QED
    BY <1>1, <1>2, <1>3, <1>6, <1>8, <2>3
<1>9. QED
  BY <1>7, <1>8

\* An amount before the fee is the least of which the amount after it arrives.
LEMMA PreFeeLeast ==
    ASSUME NEW schedule \in FeeSchedules, NEW a \in Nat, NEW c \in Nat
    PROVE  /\ PreFee(schedule, c) \in Nat
           /\ PreFee(schedule, c) <= a <=> PostFee(schedule, a) >= c
<1> DEFINE d == ONE_IN_BASIS_POINTS
           k == d - schedule.basis_points
           max == schedule.maximum
           gross == CeilDiv(c * d, k)
<1>1. d \in Nat \ {0} /\ k \in 0 .. d /\ max \in Nat
  BY FeeAssumption
<1>2. PreFee(schedule, c) =
        IF c = 0 THEN 0
        ELSE IF k = 0 THEN c + max
        ELSE IF gross < c + max THEN gross ELSE c + max
  BY DEF PreFee, AtMost
<1>3. PostFee(schedule, a) >= c <=> d * c <= k * a \/ c + max <= a
  BY ArrivesEnough DEF Enough
<1> HIDE DEF d, k, max
<1>4. k * a \in Nat /\ d * c \in Nat /\ c * d = d * c
  BY <1>1
<1>5. CASE c = 0
  <2>1. d * c = 0
    BY <1>1, <1>5
  <2>2. QED
    BY <1>2, <1>3, <1>4, <1>5, <2>1
<1>6. CASE c # 0 /\ k = 0
  <2>1. d * c > 0 /\ k * a = 0
    BY <1>1, <1>6
  <2>2. QED
    BY <1>1, <1>2, <1>3, <1>6, <2>1
<1>7. CASE c # 0 /\ k # 0
  <2>1. gross \in Nat /\ (gross <= a <=> c * d <= k * a)
    BY <1>1, <1>4, <1>7, CeilLeast
  <2> HIDE DEF gross
  <2>2. QED
    BY <1>1, <1>2, <1>3, <1>4, <1>7, <2>1
<1>8. QED
  BY <1>5, <1>6, <1>7

\* One more atom has to be sent for one more to arrive.
LEMMA PreFeeStrict ==
    ASSUME NEW schedule \in FeeSchedules, NEW c \in Nat
    PROVE  ~ (PreFee(schedule, c + 1) <= PreFee(schedule, c))
<1> DEFINE d == ONE_IN_BASIS_POINTS
           k == d - schedule.basis_points
           max == schedule.maximum
           a == PreFee(schedule, c)
<1>1. d \in Nat \ {0} /\ k \in 0 .. d /\ max \in Nat
  BY FeeAssumption
<1>2. a \in Nat
  BY PreFeeLeast
<1>3. SUFFICES ASSUME PreFee(schedule, c + 1) <= a PROVE FALSE
  OBVIOUS
<1>4. Enough(schedule, a, c + 1)
  BY <1>2, <1>3, PreFeeLeast, ArrivesEnough
<1>5. d * (c + 1) <= k * a \/ c + 1 + max <= a
  BY <1>4 DEF Enough
<1> HIDE DEF a
<1> HIDE DEF d, k, max
<1>6. d * (c + 1) = d * c + d /\ d * c \in Nat /\ k * a \in Nat
  BY <1>1, <1>2
<1>7. a # 0
  <2>1. a = 0 => k * a = 0
    BY <1>1
  <2>2. QED
    BY <1>1, <1>2, <1>5, <1>6, <2>1
<1> DEFINE e == a - 1
<1>8. e \in Nat /\ a = e + 1
  BY <1>2, <1>7
<1> HIDE DEF e
<1>9. k * a = k * e + k /\ k * e \in Nat
  BY <1>1, <1>8
<1>10. d * c <= k * e \/ c + max <= e
  BY <1>1, <1>5, <1>6, <1>8, <1>9
<1>11. Enough(schedule, e, c)
  BY <1>10 DEF Enough, d, k, max
<1>12. PreFee(schedule, c) <= e
  BY <1>8, <1>11, PreFeeLeast, ArrivesEnough
<1>13. QED
  BY <1>2, <1>8, <1>12 DEF a

\* An amount before the fee arrives as the amount after it, to the atom.
LEMMA ArrivesExactly ==
    ASSUME NEW schedule \in FeeSchedules, NEW c \in Nat
    PROVE  PostFee(schedule, PreFee(schedule, c)) = c
<1> DEFINE a == PreFee(schedule, c)
<1>1. a \in Nat
  BY PreFeeLeast
<1>2. ~ (PreFee(schedule, c + 1) <= a)
  BY PreFeeStrict
<1> HIDE DEF a
<1>3. PostFee(schedule, a) \in Int
  BY <1>1, ArrivesEnough
<1>4. PostFee(schedule, a) >= c
  BY <1>1, PreFeeLeast DEF a
<1>5. ~ (PostFee(schedule, a) >= c + 1)
  BY <1>1, <1>2, PreFeeLeast
<1>6. QED
  BY <1>3, <1>4, <1>5 DEF a

-----------------------------------------------------------------------------
(* The swap. *)

LEMMA FinishSwapFees ==
    ASSUME IInv, SwapInv, FinishSwap, NEW schedule \in FeeSchedules, NEW atoms \in 0 .. MaxGross
    PROVE  /\ PostFee(schedule, atoms) = ctx.swap.in =>
                LET charged == ChargedInput(schedule, atoms)
                IN  /\ charged <= atoms
                    /\ PostFee(schedule, charged) = Consumed
                    /\ Consumed = 0 => charged = 0
           /\ /\ ~ ctx.swap.is_exact_in
              /\ PreFee(schedule, atoms) = ctx.swap.out
              /\ ctx.traded[OutToken(ctx.swap)] >= ctx.swap.out
              => PostFee(schedule, Extra(OutToken(ctx.swap))) >= atoms
<1> DEFINE used == Consumed
           paid == Extra(OutToken(ctx.swap))
           traded == ctx.traded[OutToken(ctx.swap)]
<1>1. atoms \in Nat
  BY FeeAssumption
<1>2. /\ used \in Nat /\ used <= ctx.swap.in /\ ctx.swap.in \in Nat /\ ctx.swap.out \in Nat
      /\ paid \in Nat /\ traded \in Nat /\ traded <= paid
  BY SwapAmounts
<1>3. ChargedInput(schedule, atoms) = PreFee(schedule, used)
  BY DEF ChargedInput
<1> HIDE DEF used, paid, traded
<1>4. ASSUME PostFee(schedule, atoms) = ctx.swap.in
      PROVE  /\ PreFee(schedule, used) <= atoms
             /\ PostFee(schedule, PreFee(schedule, used)) = used
             /\ used = 0 => PreFee(schedule, used) = 0
  <2>1. PostFee(schedule, atoms) >= used
    BY <1>2, <1>4
  <2>2. PreFee(schedule, used) <= atoms
    BY <1>1, <1>2, <2>1, PreFeeLeast
  <2>3. PostFee(schedule, PreFee(schedule, used)) = used
    BY <1>2, ArrivesExactly
  <2>4. used = 0 => PreFee(schedule, used) = 0
    BY DEF PreFee
  <2>5. QED
    BY <2>2, <2>3, <2>4
<1>5. ASSUME PreFee(schedule, atoms) = ctx.swap.out, traded >= ctx.swap.out
      PROVE  PostFee(schedule, paid) >= atoms
  <2>1. PreFee(schedule, atoms) <= paid
    BY <1>2, <1>5
  <2>2. QED
    BY <1>1, <1>2, <2>1, PreFeeLeast
<1>6. QED
  BY <1>3, <1>4, <1>5 DEF used, paid, traded

\* Whatever fee a mint charges and however little of its input a swap has used,
\* what is charged arrives in the vault as what was matched, within the input
\* that was offered, and an exact output arrives in full.
THEOREM FeesLeaveVaultExact == Spec => FeesLeaveVaultWhole
<1> DEFINE Whole ==
              SwapOrderDone /\ accounts' # accounts =>
                \A schedule \in FeeSchedules, atoms \in 0 .. MaxGross :
                    /\ PostFee(schedule, atoms) = ctx.swap.in =>
                        LET charged == ChargedInput(schedule, atoms)
                        IN  /\ charged <= atoms
                            /\ PostFee(schedule, charged) = Consumed
                            /\ Consumed = 0 => charged = 0
                    /\ /\ ~ ctx.swap.is_exact_in
                       /\ PreFee(schedule, atoms) = ctx.swap.out
                       /\ ctx.traded[OutToken(ctx.swap)] >= ctx.swap.out
                       => PostFee(schedule, Extra(OutToken(ctx.swap))) >= atoms
<1>1. IInv /\ SwapInv /\ [Next]_vars => Whole
  <2> SUFFICES ASSUME IInv, SwapInv, [Next]_vars, SwapOrderDone, accounts' # accounts
               PROVE  Whole
    OBVIOUS
  <2>1. FinishSwap
    BY SwapDone
  <2>2. QED
    BY <2>1, FinishSwapFees
<1>2. Whole => [Whole]_vars
  OBVIOUS
<1> HIDE DEF Whole
<1>3. Spec => [][Whole]_vars
  BY <1>1, <1>2, SwapInductive, PTL DEF Spec
<1>4. QED
  BY <1>3, PTL DEF FeesLeaveVaultWhole, Whole

=============================================================================
