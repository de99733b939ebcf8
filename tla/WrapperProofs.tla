--------------------------- MODULE WrapperProofs ---------------------------
(***************************************************************************)
(* What the wrapper program promises, for any number of traders, blocks,   *)
(* prices, batches and amounts, whatever reaches the core in between.      *)
(*                                                                         *)
(* OpenSpec starts before there is anything: no deposits, no seats, no     *)
(* wrapper.  Its steps are those of Wrapper and, between instructions of   *)
(* the wrapper, everything else that anybody may send to the core.         *)
(*                                                                         *)
(* The core's own invariants survive the calls (CoreInv): a rollback       *)
(* restores accounts for which they held.  BlockInv is about the blocks of *)
(* the account and the local variables that name some of them.             *)
(***************************************************************************)
EXTENDS WrapperProperties, LedgerProofs, SequenceTheorems

-----------------------------------------------------------------------------
(* The wrapper among all other instructions. *)

OpenInit == Init /\ wrapper = NoWrapper /\ call = NoCall /\ outside = {}

\* Seats, blocks, deposits and the global accounts, by anybody.  (Cleans are among
\* the steps of Wrapper.)
SetupArrival ==
    /\ Ready
    /\ MarketArrival \/ (GlobalArrival /\ accounts'.m = accounts.m)
    /\ UNCHANGED <<call, wrapper, outside>>

\* A swap that was sent to the core goes on.
SwapSteps ==
    /\ ctx.kind = "swap"
    /\ \/ WalkPast \/ CountMaker \/ EstimateFails \/ StopWalking
       \/ FinishSwap \/ FinishSwapFails
    /\ UNCHANGED <<call, wrapper, outside>>

OpenNext == WrapperNext \/ SetupArrival \/ SwapSteps

OpenSpec == OpenInit /\ [][OpenNext]_wvars

-----------------------------------------------------------------------------
(* The invariants of the core. *)

CoreInv ==
    IInv /\ BookInv /\ DepositsInv /\ GasInv /\ SupplyInv /\ BidsInv /\ SeatInv

\* What they say of accounts between instructions.
CommittedSound(a) ==
    /\ AccountsSound(a)
    /\ BookSound(a.m)
    /\ AllDepositsSound(a.glob, Idle)
    /\ GasSound(a.m, a.glob, Idle)
    /\ SupplySound(a)
    /\ BidsFit(a.m)

LEMMA CoreInit == ASSUME OpenInit PROVE CoreInv
<1>1. Init
  BY DEF OpenInit
<1>2. SeatInv
  BY <1>1 DEF Init, Idle, SeatInv, SeatsStay
<1>3. QED
  BY <1>1, <1>2, InitSound, InitBook, InitDeposits, InitGas, InitSupply, InitBids DEF CoreInv

LEMMA CoreStep ==
    ASSUME CoreInv, [Next]_vars
    PROVE  CoreInv' /\ SeatsStay(accounts.m, accounts'.m)
<1>1. IInv'
  BY NextSound DEF CoreInv
<1>2. BookInv' /\ DepositsInv' /\ GasInv' /\ SupplyInv' /\ BidsInv'
  BY <1>1, NextBook, NextDeposits, NextGas, NextSupply, NextBids DEF CoreInv
<1>3. SeatInv' /\ SeatsStay(accounts.m, accounts'.m)
  BY NextSeats DEF CoreInv
<1>4. QED
  BY <1>1, <1>2, <1>3 DEF CoreInv

LEMMA CoreCommitted == CoreInv => CommittedSound(accounts)
BY DEF CoreInv, CommittedSound, IInv, BookInv, DepositsInv, GasInv, SupplyInv, BidsInv

\* A wrapper commits, or rolls back to, accounts that are sound.
LEMMA CoreCommit ==
    ASSUME CoreInv, NEW a, CommittedSound(a), Commit(a)
    PROVE  CoreInv'
<1>1. IInv'
  BY CommitSound DEF CoreInv, CommittedSound
<1>2. BookInv'
  BY CommitBook DEF CommittedSound
<1>3. accounts' = a /\ work' = a /\ ctx' = Idle
  BY DEF Commit
<1>4. DepositsInv'
  BY <1>3 DEF CommittedSound, DepositsInv, AllDepositsSound, DepositsSound, PendingOf, Idle
<1>5. GasInv'
  BY CommitGas DEF CommittedSound
<1>6. SupplyInv'
  BY <1>3 DEF CommittedSound, SupplyInv, SupplySound
<1>7. BidsInv'
  BY <1>3 DEF CommittedSound, BidsInv, BidsFit
<1>8. SeatInv'
  BY <1>3 DEF SeatInv, SeatsStay, Idle
<1>9. QED
  BY <1>1, <1>2, <1>4, <1>5, <1>6, <1>7, <1>8 DEF CoreInv

\* The core's batch update starts with any seat, cancels and orders.
LEMMA CoreCalled ==
    ASSUME CoreInv, ctx = Idle, NEW seat \in SeatIndices(accounts.m),
           NEW globals \in SUBSET Tokens,
           NEW cancels \in Seq([seq : Nat, hint : {NIL} \cup Index]),
           NEW orders \in Seq(OrderArgs), NEW caller,
           CallCore(accounts, seat, globals, cancels, orders, caller)
    PROVE  CoreInv' /\ work' = accounts /\ accounts' = accounts
<1> DEFINE c == [Idle EXCEPT !.phase = "cancel", !.seat = seat, !.globals = globals,
                             !.cancels = cancels, !.orders = orders]
<1>1. AccountsSound(accounts) /\ work = accounts
  BY IdleSound DEF CoreInv
<1>2. Step(work, c)
  BY <1>1 DEF CallCore, Step
<1>3. /\ MarketSound(accounts.m) /\ UniqueSeats(accounts.m) /\ HasFreeBlock(accounts.m)
      /\ accounts \in Accounts
      /\ \A t \in Tokens : accounts.vault[t] = Claims(accounts.m, t)
  BY <1>1 DEF AccountsSound
<1>4. c \in Contexts
  <2>1. seat \in Index
    BY DEF SeatIndices
  <2>2. QED
    BY <2>1, NothingTyped DEF Contexts, Phases
<1>5. /\ c.phase = "cancel" /\ c.kind = "batch" /\ c.seat = seat /\ c.pending = 0
      /\ c.temp = FALSE /\ c.refunds = NoTokens
  BY DEF Idle
<1> HIDE DEF c
<1>6. Balanced(work, c)
  <2>1. \A t \in Tokens : accounts.vault[t] \in Nat
    BY <1>3 DEF Accounts
  <2>2. \A t \in Tokens : VirtualOf(c, t) = 0 /\ PendingOf(c, t) = 0
    BY <1>5 DEF VirtualOf, PendingOf
  <2>3. QED
    BY <1>1, <1>3, <2>1, <2>2 DEF Balanced
<1>7. WorkSound(work, c)
  BY <1>1, <1>3, <1>4, <1>5, <1>6
     DEF WorkSound, SwapSound, TempSound, SpareSound, MatchingPhases
<1>8. IInv'
  BY <1>2, <1>5, <1>7, StepSound DEF CoreInv
<1>9. accounts' = accounts /\ work' = work /\ ctx' = c
  BY <1>2 DEF Step
<1>10. BookInv'
  <2>1. FewerOrders(work.m, work.m') /\ work.m.seq \in Nat
    BY <1>9, BothMarkets, BookTyped DEF CoreInv, FewerOrders
  <2>2. QED
    BY <1>5, <1>8, <1>9, <2>1, FewerStep DEF CoreInv, MatchingPhases
<1>11. DepositsInv'
  <2>1. \A t \in Tokens : PendingOf(c, t) = PendingOf(Idle, t)
    BY <1>5 DEF PendingOf, Idle
  <2>2. AllDepositsSound(work'.glob, ctx')
    BY <1>1, <1>9, <2>1 DEF CoreInv, DepositsInv, AllDepositsSound
  <2>3. QED
    BY <1>9, <2>2, StepDeposits DEF CoreInv
<1>12. GasInv'
  <2>1. \A t \in Tokens : c.refunds[t] = Idle.refunds[t] /\ Ahead(c, t) = Ahead(Idle, t)
    BY <1>5 DEF Idle, Ahead, MatchingPhases
  <2>2. GasSound(work'.m, work'.glob, ctx')
    BY <1>1, <1>9, <2>1 DEF CoreInv, GasInv, GasSound
  <2>3. QED
    BY <1>9, <2>2, StepGas DEF CoreInv
<1>13. SupplyInv' /\ BidsInv' /\ SeatInv'
  BY <1>1, <1>5, <1>9 DEF CoreInv, SupplyInv, SupplySound, BidsInv, BidsFit, SeatInv, SeatsStay
<1>14. QED
  BY <1>1, <1>8, <1>9, <1>10, <1>11, <1>12, <1>13 DEF CoreInv

\* A seat taken on the way to the wrapper, in a market that is made larger for it.
LEMMA SeatedSound ==
    ASSUME NEW a, CommittedSound(a), NEW trader \in Traders,
           SeatedMarket(a.m, trader).num <= MAX_BLOCKS
    PROVE  LET m == SeatedMarket(a.m, trader)
           IN  /\ CommittedSound([a EXCEPT !.m = m])
               /\ [a EXCEPT !.m = m].m = m
               /\ SeatsStay(a.m, m) /\ SameOrders(a.m, m) /\ m.seq = a.m.seq
               /\ GetTraderIndex(m, trader) \in SeatIndices(m)
<1> DEFINE m == SeatedMarket(a.m, trader)
           b == [a EXCEPT !.m = m]
           roomy == IF Len(a.m.free) < 2 THEN ExpandBy(a.m, 1) ELSE a.m
           claimed == ClaimSeatOn(roomy, trader)
<1>1. /\ MarketSound(a.m) /\ UniqueSeats(a.m) /\ HasFreeBlock(a.m) /\ a \in Accounts
      /\ \A t \in Tokens : a.vault[t] = Claims(a.m, t)
  BY DEF CommittedSound, AccountsSound
<1>2. a.m.num \in Nat /\ a.m.free \in Seq(Index) /\ a.m.free # <<>> /\ MAX_BLOCKS \in Nat
  BY <1>1, MarketAssumption DEF MarketSound, Markets, HasFreeBlock
<1>3. CASE GetTraderIndex(a.m, trader) # NIL
  <2>1. m = a.m /\ b = a
    BY <1>1, <1>3 DEF SeatedMarket, Accounts
  <2>2. GetTraderIndex(a.m, trader) \in SeatIndices(a.m)
    BY <1>1, <1>3, TraderIndexSound
  <2>3. QED
    BY <2>1, <2>2 DEF SeatsStay, SameOrders
<1>4. CASE GetTraderIndex(a.m, trader) = NIL
  <2>1. m = ExpandIfNeeded(claimed)
    BY <1>4 DEF SeatedMarket
  <2>2. /\ MarketSound(roomy) /\ Len(roomy.free) >= 2 /\ SameSeats(a.m, roomy)
        /\ SameOrders(a.m, roomy) /\ roomy.seq = a.m.seq /\ roomy.orderbook = a.m.orderbook
    <3>1. CASE Len(a.m.free) < 2
      <4>1. m.num <= MAX_BLOCKS
          OBVIOUS
      <4>2. m.num \in Int /\ a.m.num + 1 <= m.num
        <5> DEFINE grown == ExpandBy(a.m, 1)
        <5>1. roomy = grown /\ grown.num = a.m.num + 1
            BY <1>1, <3>1 DEF ExpandBy, MarketSound, Markets
        <5>2. grown \in [num : {grown.num}, data : {grown.data}, free : {grown.free}, seq : {grown.seq},
                         withdrawable : {grown.withdrawable}, orderbook : {grown.orderbook}]
            BY <1>1 DEF ExpandBy, MarketSound, Markets
        <5> HIDE DEF grown
        <5>3. claimed.num = grown.num
            BY <5>1, <5>2 DEF ClaimSeatOn
        <5>4. claimed \in [num : {grown.num}, data : {claimed.data}, free : {claimed.free}, seq : {grown.seq},
                           withdrawable : {grown.withdrawable}, orderbook : {grown.orderbook}]
            BY <5>1, <5>2 DEF ClaimSeatOn
        <5> HIDE DEF claimed, m
        <5>5. m.num \in {claimed.num, claimed.num + 1}
            BY <2>1, <5>4 DEF ExpandIfNeeded, ExpandBy
        <5>6. QED
            BY <1>2, <5>1, <5>3, <5>5
      <4> HIDE DEF m, roomy
      <4>3. a.m.num + 1 <= MAX_BLOCKS
        <5> DEFINE n == m.num
        <5>1. n \in Int /\ n <= MAX_BLOCKS /\ a.m.num + 1 <= n
          BY <4>1, <4>2
        <5> HIDE DEF n
        <5>2. QED
          BY <1>2, <5>1
      <4>4. Len(a.m.free) >= 1
          BY <1>2
      <4>5. roomy = ExpandBy(a.m, 1)
          BY <3>1 DEF roomy
      <4>6. /\ MarketSound(roomy) /\ SameSeats(a.m, roomy) /\ roomy.seq = a.m.seq
            /\ Len(roomy.free) = Len(a.m.free) + 1
            /\ OrderIndices(roomy) = OrderIndices(a.m)
            /\ \A j \in OrderIndices(a.m) : roomy.data[j] = a.m.data[j]
            /\ roomy.orderbook = a.m.orderbook
          BY <1>1, <4>3, <4>5, ExpandBySound
      <4>7. Len(roomy.free) >= 2
          BY <1>2, <4>4, <4>6
      <4>8. QED
          BY <4>6, <4>7 DEF SameOrders
    <3>2. CASE ~ (Len(a.m.free) < 2)
        BY <1>1, <1>2, <3>2 DEF SameSeats, SameOrders
    <3>3. QED
        BY <3>1, <3>2
  <2>3. HasFreeBlock(roomy) /\ roomy.free \in Seq(Index)
    BY <2>2 DEF HasFreeBlock, MarketSound, Markets
  <2>4. GetTraderIndex(roomy, trader) = NIL
    BY <1>1, <1>4, <2>2, TraderIndexSound DEF SameSeats
  <2>5. UniqueSeats(roomy)
    BY <1>1, <2>2, UniqueKept DEF SameSeats, SameTraders
  <2> HIDE DEF roomy, m
  <2>6. /\ MarketSound(claimed) /\ claimed.seq = roomy.seq
        /\ Len(claimed.free) = Len(roomy.free) - 1
        /\ SameOrders(roomy, claimed)
        /\ claimed.withdrawable = roomy.withdrawable /\ claimed.orderbook = roomy.orderbook
    BY <2>2, <2>3, ClaimSeatSound DEF SameOrders
  <2>7. /\ SeatsStay(roomy, claimed)
        /\ Head(roomy.free) \in SeatIndices(claimed)
        /\ claimed.data[Head(roomy.free)].trader = trader
    <3>1. /\ Head(roomy.free) \in SeatIndices(claimed)
          /\ claimed.data[Head(roomy.free)] = NewSeat(trader)
        BY <2>2, <2>3, ClaimSeatSound
    <3>2. NewSeat(trader).trader = trader
        BY DEF NewSeat
    <3>3. SeatsStay(roomy, claimed)
        BY <2>2, <2>3, ClaimSeats
    <3>4. QED
        BY <3>1, <3>2, <3>3
  <2>8. UniqueSeats(claimed)
    BY <2>2, <2>3, <2>4, <2>5, ClaimUnique
  <2> HIDE DEF claimed
  <2>9. HasFreeBlock(claimed) /\ m = claimed
    <3>1. claimed.free \in Seq(Index)
        BY <2>6 DEF MarketSound, Markets
    <3>2. claimed.free # <<>>
        BY <2>2, <2>3, <2>6, <3>1
    <3>3. QED
        BY <2>1, <3>2 DEF HasFreeBlock, ExpandIfNeeded
  <2>10. SameOrders(a.m, m) /\ m.seq = a.m.seq /\ SeatsStay(a.m, m)
    <3>1. SeatsStay(a.m, roomy)
        BY <2>2, SeatsStaySame
    <3>2. QED
        BY <2>2, <2>6, <2>7, <2>9, <3>1, SeatsStayTwice DEF SameOrders
  <2>11. GetTraderIndex(m, trader) \in SeatIndices(m)
    BY <2>6, <2>7, <2>9, TraderIndexSound
  <2>12. \A t \in Tokens : Claims(m, t) = Claims(a.m, t)
    BY <2>2, <2>6, <2>9 DEF Claims, SameSeats
  <2>13. /\ b \in Accounts /\ b.m = m /\ b.vault = a.vault /\ b.glob = a.glob
         /\ b.wallet = a.wallet
    BY <1>1, <2>6, <2>9 DEF Accounts, MarketSound
  <2> HIDE DEF b
  <2>14. AccountsSound(b)
    BY <1>1, <2>6, <2>8, <2>9, <2>12, <2>13 DEF AccountsSound
  <2>15. BookSound(m)
    <3>1. BookSound(a.m) /\ FewerOrders(a.m, m) /\ a.m \in Markets /\ m \in Markets
        BY <1>1, <2>6, <2>9, <2>10, SameFewer DEF CommittedSound, MarketSound
    <3>2. m.seq >= a.m.seq
        BY <2>10, <3>1, BookTyped
    <3>3. QED
        BY <3>1, <3>2, FewerSound
  <2>16. GasSound(m, b.glob, Idle)
    <3>1. \A t \in Tokens : GlobalOrders(m, t) = GlobalOrders(a.m, t)
        BY <2>10 DEF SameOrders, GlobalOrders
    <3>2. QED
        BY <2>13, <3>1 DEF CommittedSound, GasSound
  <2>17. SupplySound(b) /\ BidsFit(m) /\ AllDepositsSound(b.glob, Idle)
    BY <2>10, <2>13 DEF CommittedSound, SupplySound, BidsFit, SameOrders
  <2>18. CommittedSound(b)
    BY <2>13, <2>14, <2>15, <2>16, <2>17 DEF CommittedSound
  <2>19. QED
    BY <2>10, <2>11, <2>13, <2>18 DEF b, m
<1>5. QED
  BY <1>3, <1>4

-----------------------------------------------------------------------------
(* Sequences.                                                              *)

\* A way to pick elements of a sequence: r maps the positions of what is picked,
\* in order, to positions of the sequence.
Picks(r, n, positions) ==
    /\ r \in [1 .. n -> positions]
    /\ \A k \in positions : \E j \in 1 .. n : r[j] = k
    /\ \A i, j \in 1 .. n : i < j => r[i] < r[j]

\* Counting the members of a finite set of numbers from the smallest one.
LEMMA Ranks ==
    ASSUME NEW P, P \subseteq Nat, IsFiniteSet(P)
    PROVE  LET Rank(k) == Cardinality({j \in P : j <= k})
           IN  /\ Cardinality(P) \in Nat
               /\ Picks([n \in 1 .. Cardinality(P) |-> CHOOSE k \in P : Rank(k) = n],
                        Cardinality(P), P)
<1> DEFINE size == Cardinality(P)
           Upto(k) == {j \in P : j <= k}
           Rank(k) == Cardinality(Upto(k))
           rank == [k \in P |-> Rank(k)]
           r == [n \in 1 .. size |-> CHOOSE k \in P : Rank(k) = n]
<1>1. size \in Nat
  BY FS_CardinalityType
<1>2. ASSUME NEW k \in P
      PROVE  Rank(k) \in 1 .. size
  <2>1. IsFiniteSet(Upto(k)) /\ Rank(k) <= size
    <3>1. Upto(k) \in SUBSET P
      OBVIOUS
    <3>2. QED
      BY <3>1, FS_Subset
  <2>2. Rank(k) \in Nat
    BY <2>1, FS_CardinalityType
  <2>3. k \in Upto(k)
    BY <1>2
  <2>4. Rank(k) # 0
    BY <2>1, <2>3, FS_EmptySet
  <2> HIDE DEF Rank, size
  <2>5. QED
    BY <1>1, <2>1, <2>2, <2>4
<1>3. ASSUME NEW i \in P, NEW k \in P, i < k
      PROVE  Rank(i) < Rank(k)
  <2>1. Upto(i) \in SUBSET Upto(k)
    <3>1. \A j \in P : j <= i => j <= k
      BY <1>3
    <3>2. QED
      BY <3>1
  <2>2. IsFiniteSet(Upto(k))
    <3>1. Upto(k) \in SUBSET P
      OBVIOUS
    <3>2. QED
      BY <3>1, FS_Subset
  <2>3. Upto(i) # Upto(k)
    <3>1. k \in Upto(k) /\ k \notin Upto(i)
      BY <1>3
    <3>2. QED
      BY <3>1
  <2>4. Rank(i) <= Rank(k) /\ (Rank(k) = Rank(i) => Upto(k) = Upto(i))
    BY <2>1, <2>2, FS_Subset
  <2>5. Rank(i) \in Int /\ Rank(k) \in Int
    BY <1>1, <1>2
  <2> HIDE DEF Rank, Upto
  <2>6. QED
    BY <2>3, <2>4, <2>5
<1>4. rank \in Injection(P, 1 .. size)
  <2>1. rank \in [P -> 1 .. size]
    BY <1>2
  <2>2. \A i, k \in P : rank[i] = rank[k] => i = k
    <3> SUFFICES ASSUME NEW i \in P, NEW k \in P, i # k
                 PROVE  Rank(i) # Rank(k)
      OBVIOUS
    <3>1. i < k \/ k < i
      OBVIOUS
    <3>2. Rank(i) \in Int /\ Rank(k) \in Int
      BY <1>1, <1>2
    <3> HIDE DEF Rank
    <3>3. QED
      BY <1>3, <3>1, <3>2
  <2> HIDE DEF rank, size
  <2>3. QED
    BY <2>1, <2>2 DEF Injection, IsInjective
<1>5. rank \in Surjection(P, 1 .. size)
  <2>1. IsFiniteSet(1 .. size) /\ Cardinality(1 .. size) = size
    BY <1>1, FS_Interval
  <2>2. QED
    BY <1>4, <2>1, FS_Injection
<1>6. ASSUME NEW n \in 1 .. size
      PROVE  r[n] \in P /\ Rank(r[n]) = n
  <2>1. \E k \in P : rank[k] = n
    BY <1>5 DEF Surjection
  <2>2. \E k \in P : Rank(k) = n
    BY <2>1
  <2> HIDE DEF Rank
  <2>3. QED
    BY <2>2
<1> HIDE DEF Rank, size
<1>7. r \in [1 .. size -> P]
  BY <1>6
<1>8. ASSUME NEW k \in P
      PROVE  \E n \in 1 .. size : r[n] = k
  <2>1. Rank(k) \in 1 .. size /\ Rank(k) \in Int
    BY <1>1, <1>2
  <2>2. r[Rank(k)] \in P /\ Rank(r[Rank(k)]) = Rank(k)
    BY <1>6, <2>1
  <2>3. r[Rank(k)] = k
    <3> DEFINE i == r[Rank(k)]
    <3>1. i \in P /\ Rank(i) = Rank(k)
      BY <2>2
    <3> HIDE DEF i
    <3>2. ~ (i < k) /\ ~ (k < i)
      BY <1>3, <2>1, <3>1
    <3>3. i = k
      BY <3>1, <3>2
    <3>4. QED
      BY <3>3 DEF i
  <2>4. QED
    BY <2>1, <2>3
<1>9. ASSUME NEW i \in 1 .. size, NEW j \in 1 .. size, i < j
      PROVE  r[i] < r[j]
  <2>1. r[i] \in P /\ r[j] \in P /\ Rank(r[i]) = i /\ Rank(r[j]) = j
    BY <1>6
  <2> DEFINE a == r[i]
             b == r[j]
  <2>2. a \in P /\ b \in P /\ Rank(a) = i /\ Rank(b) = j
    BY <2>1
  <2> HIDE DEF a, b, r
  <2>3. ~ (b < a) /\ a # b
    BY <1>1, <1>3, <1>9, <2>2
  <2>4. a < b
    BY <2>2, <2>3
  <2>5. QED
    BY <2>4 DEF a, b
<1>10. Picks(r, size, P)
  <2> HIDE DEF r
  <2>1. QED
    BY <1>7, <1>8, <1>9 DEF Picks
<1>11. QED
  BY <1>1, <1>10 DEF size, Rank

\* ElementsAt picks the elements at those positions.
LEMMA ElementsPicked ==
    ASSUME NEW S, NEW s \in Seq(S), NEW P, P \subseteq DOMAIN s
    PROVE  LET f == ElementsAt(s, P)
           IN  /\ f \in Seq(S)
               /\ \E r : Picks(r, Len(f), P) /\ \A n \in 1 .. Len(f) : f[n] = s[r[n]]
<1> DEFINE f == ElementsAt(s, P)
           Rank(k) == Cardinality({j \in P : j <= k})
           size == Cardinality(P)
           r == [n \in 1 .. size |-> CHOOSE k \in P : Rank(k) = n]
<1>1. P \subseteq Nat /\ IsFiniteSet(P)
  <2>1. DOMAIN s = 1 .. Len(s) /\ Len(s) \in Nat
    OBVIOUS
  <2>2. IsFiniteSet(1 .. Len(s))
    BY <2>1, FS_Interval
  <2>3. QED
    BY <2>1, <2>2, FS_Subset
<1>2. size \in Nat /\ Picks(r, size, P)
  BY <1>1, Ranks
<1>3. f = [n \in 1 .. size |-> s[CHOOSE k \in P : Rank(k) = n]]
  BY DEF ElementsAt
<1>4. \A n \in 1 .. size : f[n] = s[r[n]]
  BY <1>3
<1>5. \A n \in 1 .. size : r[n] \in P
  BY <1>2 DEF Picks
<1>6. \A n \in 1 .. size : s[r[n]] \in S
  <2>1. \A k \in DOMAIN s : s[k] \in S
    OBVIOUS
  <2> HIDE DEF r
  <2>2. QED
    BY <1>5, <2>1
<1>7. DOMAIN f = 1 .. size /\ f = [n \in 1 .. size |-> f[n]]
  BY <1>3
<1> HIDE DEF f, size, r
<1>8. f \in Seq(S) /\ Len(f) = size
  <2>1. [n \in 1 .. size |-> f[n]] \in Seq(S) /\ Len([n \in 1 .. size |-> f[n]]) = size
    BY <1>2, <1>4, <1>6
  <2>2. QED
    BY <1>7, <2>1
<1>9. QED
  BY <1>2, <1>4, <1>8 DEF f
\* The same of a sequence without repetitions.
LEMMA PickedOnce ==
    ASSUME NEW S, NEW s \in Seq(S), NEW P, P \subseteq DOMAIN s
    PROVE  LET f == ElementsAt(s, P)
           IN  /\ f \in Seq(S)
               /\ \A n \in DOMAIN f : \E k \in P : f[n] = s[k]
               /\ \A k \in P : \E n \in DOMAIN f : f[n] = s[k]
               /\ \E r : /\ r \in [DOMAIN f -> P]
                         /\ \A n \in DOMAIN f : f[n] = s[r[n]]
                         /\ \A i, j \in DOMAIN f : r[i] = r[j] => i = j
<1> DEFINE f == ElementsAt(s, P)
<1>1. f \in Seq(S) /\ \E r : Picks(r, Len(f), P) /\ \A n \in 1 .. Len(f) : f[n] = s[r[n]]
  BY ElementsPicked
<1> HIDE DEF f
<1>2. PICK r : Picks(r, Len(f), P) /\ \A n \in 1 .. Len(f) : f[n] = s[r[n]]
  BY <1>1
<1>3. DOMAIN f = 1 .. Len(f) /\ Len(f) \in Nat
  BY <1>1
<1>4. r \in [DOMAIN f -> P]
  BY <1>2, <1>3 DEF Picks
<1>5. \A n \in DOMAIN f : f[n] = s[r[n]]
  BY <1>2, <1>3
<1>6. \A k \in P : \E n \in DOMAIN f : f[n] = s[k]
  BY <1>2, <1>3 DEF Picks
<1>7. \A i, j \in DOMAIN f : r[i] = r[j] => i = j
  <2> SUFFICES ASSUME NEW i \in 1 .. Len(f), NEW j \in 1 .. Len(f), r[i] = r[j]
               PROVE  i = j
    BY <1>3
  <2>1. P \subseteq Nat
    <3>1. DOMAIN s \subseteq Nat
      OBVIOUS
    <3>2. QED
      BY <3>1
  <2>2. r[i] \in Nat /\ r[j] \in Nat
    BY <1>3, <1>4, <2>1
  <2>3. ~ (i < j) /\ ~ (j < i)
    BY <1>2, <2>2 DEF Picks
  <2>4. QED
    BY <1>3, <2>3
<1>8. QED
  BY <1>1, <1>4, <1>5, <1>6, <1>7 DEF f

LEMMA PutTogether ==
    ASSUME NEW S, NEW s \in Seq(S), NEW t \in Seq(S)
    PROVE  /\ s \o t \in Seq(S) /\ Len(s \o t) = Len(s) + Len(t)
           /\ Range(s \o t) = Range(s) \cup Range(t)
           /\ IsInjective(s) /\ IsInjective(t) /\ Range(s) \cap Range(t) = {} =>
                IsInjective(s \o t)
<1> DEFINE c == s \o t
           m == Len(s)
           n == Len(t)
<1>1. c \in Seq(S) /\ Len(c) = m + n /\ m \in Nat /\ n \in Nat
  OBVIOUS
<1>2. \A k \in 1 .. m : c[k] = s[k]
  OBVIOUS
<1>3. \A k \in 1 .. n : c[m + k] = t[k]
  OBVIOUS
<1>4. DOMAIN s = 1 .. m /\ DOMAIN t = 1 .. n /\ DOMAIN c = 1 .. (m + n)
  BY <1>1
<1> HIDE DEF c, m, n
<1>5. \A k \in DOMAIN c : \/ k \in DOMAIN s /\ c[k] = s[k]
                          \/ k - m \in DOMAIN t /\ c[k] = t[k - m] /\ k \notin DOMAIN s
  <2> SUFFICES ASSUME NEW k \in 1 .. (m + n), ~ (k <= m)
               PROVE  k - m \in 1 .. n /\ c[k] = t[k - m]
    BY <1>1, <1>2, <1>4
  <2>1. k - m \in 1 .. n /\ m + (k - m) = k
    BY <1>1
  <2>2. QED
    BY <1>3, <2>1
<1>6. Range(c) = Range(s) \cup Range(t)
  <2>1. Range(c) \subseteq Range(s) \cup Range(t)
    BY <1>5 DEF Range
  <2>2. Range(s) \subseteq Range(c)
    BY <1>1, <1>2, <1>4 DEF Range
  <2>3. Range(t) \subseteq Range(c)
    <3>1. \A k \in DOMAIN t : m + k \in DOMAIN c
      BY <1>1, <1>4
    <3>2. QED
      BY <1>3, <1>4, <3>1 DEF Range
  <2>4. QED
    BY <2>1, <2>2, <2>3
<1>7. ASSUME IsInjective(s), IsInjective(t), Range(s) \cap Range(t) = {}
      PROVE  IsInjective(c)
  <2>1. \A i \in DOMAIN s, j \in DOMAIN t : s[i] # t[j]
    BY <1>7 DEF Range
  <2>2. ASSUME NEW i \in DOMAIN c, NEW j \in DOMAIN c, c[i] = c[j]
        PROVE  i = j
    <3>1. CASE i \in DOMAIN s /\ j \in DOMAIN s
      BY <1>2, <1>4, <1>7, <2>2, <3>1 DEF IsInjective
    <3>2. CASE i \notin DOMAIN s /\ j \notin DOMAIN s
      <4>1. i - m \in DOMAIN t /\ j - m \in DOMAIN t /\ t[i - m] = t[j - m]
        BY <1>5, <2>2, <3>2
      <4>2. i - m = j - m
        BY <1>7, <4>1 DEF IsInjective
      <4>3. QED
        BY <1>1, <1>4, <4>2
    <3>3. CASE i \in DOMAIN s /\ j \notin DOMAIN s
      BY <1>2, <1>4, <1>5, <2>1, <2>2, <3>3
    <3>4. CASE i \notin DOMAIN s /\ j \in DOMAIN s
      BY <1>2, <1>4, <1>5, <2>1, <2>2, <3>4
    <3>5. QED
      BY <3>1, <3>2, <3>3, <3>4
  <2>3. QED
    BY <2>2 DEF IsInjective
<1>8. QED
  BY <1>1, <1>6, <1>7 DEF c, m, n

LEMMA TurnedRound ==
    ASSUME NEW S, NEW s \in Seq(S)
    PROVE  /\ Reverse(s) \in Seq(S) /\ Len(Reverse(s)) = Len(s)
           /\ Range(Reverse(s)) = Range(s)
           /\ IsInjective(s) => IsInjective(Reverse(s))
<1> DEFINE n == Len(s)
           f == Reverse(s)
<1>1. n \in Nat /\ DOMAIN s = 1 .. n
  OBVIOUS
<1>2. f = [i \in 1 .. n |-> s[(n - i) + 1]]
  BY DEF Reverse
<1> HIDE DEF n, f
<1>3. \A i \in 1 .. n : (n - i) + 1 \in 1 .. n /\ (n - ((n - i) + 1)) + 1 = i
  BY <1>1
<1>4. \A i \in 1 .. n : s[(n - i) + 1] \in S
  BY <1>1, <1>3
<1>5. f \in Seq(S) /\ Len(f) = n /\ DOMAIN f = 1 .. n
  BY <1>1, <1>2, <1>4
<1>6. Range(f) = Range(s)
  <2>1. \A i \in 1 .. n : f[i] = s[(n - i) + 1] /\ f[(n - i) + 1] = s[i]
    BY <1>2, <1>3
  <2>2. Range(f) \subseteq Range(s)
    BY <1>1, <1>3, <1>5, <2>1 DEF Range
  <2>3. Range(s) \subseteq Range(f)
    <3>1. \A i \in DOMAIN s : (n - i) + 1 \in DOMAIN f /\ f[(n - i) + 1] = s[i]
      BY <1>1, <1>3, <1>5, <2>1
    <3>2. \A i \in DOMAIN s : \E k \in DOMAIN f : f[k] = s[i]
      BY <3>1
    <3>3. QED
      BY <3>2 DEF Range
  <2>4. QED
    BY <2>2, <2>3
<1>7. ASSUME IsInjective(s), NEW i \in 1 .. n, NEW j \in 1 .. n, f[i] = f[j]
      PROVE  i = j
  <2>1. s[(n - i) + 1] = s[(n - j) + 1]
    BY <1>2, <1>7
  <2>2. (n - i) + 1 = (n - j) + 1
    BY <1>1, <1>3, <1>7, <2>1 DEF IsInjective
  <2>3. QED
    BY <1>1, <2>2
<1>8. QED
  BY <1>5, <1>6, <1>7 DEF n, f, IsInjective
\* Some elements of all, each at most once.
Thinned(orders, all) ==
    \E r \in [DOMAIN orders -> DOMAIN all] :
        IsInjective(r) /\ \A n \in DOMAIN orders : orders[n] = all[r[n]]

-----------------------------------------------------------------------------
(* The blocks of the wrapper account. *)

\* An open order has the fields of one.
EntryShape(o) ==
    o \in [block : Nat, id : {o.id}, seq : {o.seq}, index : {o.index}, base : {o.base},
           price : {o.price}, is_bid : {o.is_bid}, type : {o.type}]

WrapperShape(w) ==
    /\ w \in [num : Nat, free : Seq(Nat), info : {w.info}, twins : {w.twins},
              lost : {w.lost}, layout : {w.layout}, orders : {w.orders}, seat : {w.seat},
              bal : {w.bal}, seq : {w.seq}, globals : {w.globals}]
    /\ w.orders \in Seq(Range(w.orders))
    /\ \A k \in DOMAIN w.orders : EntryShape(w.orders[k])

NodesOf(w) == (IF w.info # NIL THEN {w.info} ELSE {}) \cup w.twins

\* What lookups do not find: the nodes, and the open orders of one that they used to.
InfoOf(w) == NodesOf(w) \cup Range(BlocksOf(w.lost))

LostSound(w) ==
    /\ w.lost \in Seq(Range(w.lost)) /\ \A k \in DOMAIN w.lost : EntryShape(w.lost[k])
    /\ IsInjective(BlocksOf(w.lost)) /\ NodesOf(w) \cap Range(BlocksOf(w.lost)) = {}
    /\ w.lost = <<>> \/ \E x, y \in w.twins : x # y

\* Every block is free, or has one open order, or a market info.
BlocksPartitioned(w) ==
    /\ IsInjective(w.free) /\ IsInjective(BlocksOf(w.orders))
    /\ Range(w.free) \cap Range(BlocksOf(w.orders)) = {}
    /\ Range(w.free) \cap InfoOf(w) = {}
    /\ Range(BlocksOf(w.orders)) \cap InfoOf(w) = {}
    /\ Range(w.free) \cup Range(BlocksOf(w.orders)) \cup InfoOf(w) = 0 .. (w.num - 1)
    /\ LostSound(w)

\* Blocks of open orders.
BlocksHeld(blocks, w) ==
    blocks \in Seq(Nat) /\ IsInjective(blocks) /\ Range(blocks) \subseteq Range(BlocksOf(w.orders))

\* The blocks of some entries.
LEMMA EntriesTyped ==
    ASSUME NEW s, s \in Seq(Range(s)), \A k \in DOMAIN s : EntryShape(s[k])
    PROVE  /\ BlocksOf(s) \in Seq(Nat) /\ Len(BlocksOf(s)) = Len(s)
           /\ DOMAIN BlocksOf(s) = DOMAIN s
           /\ \A k \in DOMAIN s : BlocksOf(s)[k] = s[k].block /\ s[k].block \in Nat
<1> DEFINE f == BlocksOf(s)
<1>1. \A k \in DOMAIN s : s[k].block \in Nat
  BY DEF EntryShape
<1>2. f = [k \in DOMAIN s |-> s[k].block]
  BY DEF BlocksOf
<1> HIDE DEF f
<1>3. DOMAIN s = 1 .. Len(s) /\ Len(s) \in Nat
  OBVIOUS
<1>4. f \in Seq(Nat) /\ Len(f) = Len(s)
  BY <1>1, <1>2, <1>3
<1>5. QED
  BY <1>1, <1>2, <1>4 DEF f

LEMMA BlocksRange ==
    ASSUME NEW s
    PROVE  {o.block : o \in {s[k] : k \in DOMAIN s}} = Range(BlocksOf(s))
BY DEF BlocksOf, Range

LEMMA EntryBlocks ==
    ASSUME NEW w, WrapperShape(w)
    PROVE  /\ BlocksOf(w.orders) \in Seq(Nat) /\ Len(BlocksOf(w.orders)) = Len(w.orders)
           /\ DOMAIN BlocksOf(w.orders) = DOMAIN w.orders
           /\ \A k \in DOMAIN w.orders : /\ BlocksOf(w.orders)[k] = w.orders[k].block
                                         /\ w.orders[k].block \in Nat
<1>1. w.orders \in Seq(Range(w.orders)) /\ \A k \in DOMAIN w.orders : EntryShape(w.orders[k])
  BY DEF WrapperShape
<1>2. QED
  BY <1>1, EntriesTyped

\* f is what a filter leaves of the open orders, those at the positions P.
OrdersPicked(f, P, w) ==
    /\ f \in Seq(Range(w.orders)) /\ Thinned(f, w.orders)
    /\ \A n \in DOMAIN f : \E k \in P : f[n] = w.orders[k]
    /\ \A k \in P : \E n \in DOMAIN f : f[n] = w.orders[k]
    /\ BlocksHeld(BlocksOf(f), w)
    /\ \A b : b \in Range(BlocksOf(f)) <=> \E k \in P : b = w.orders[k].block

LEMMA PickedBlocks ==
    ASSUME NEW w, WrapperShape(w), BlocksPartitioned(w), NEW P, P \subseteq DOMAIN w.orders
    PROVE  OrdersPicked(ElementsAt(w.orders, P), P, w)
<1> DEFINE s == w.orders
           f == ElementsAt(s, P)
           b == BlocksOf(f)
<1>1. s \in Seq(Range(s))
  BY DEF WrapperShape
<1>2. /\ f \in Seq(Range(s))
      /\ \A n \in DOMAIN f : \E k \in P : f[n] = s[k]
      /\ \A k \in P : \E n \in DOMAIN f : f[n] = s[k]
      /\ \E r : /\ r \in [DOMAIN f -> P]
                /\ \A n \in DOMAIN f : f[n] = s[r[n]]
                /\ \A i, j \in DOMAIN f : r[i] = r[j] => i = j
  BY <1>1, PickedOnce
<1>3. b = [n \in DOMAIN f |-> f[n].block]
  BY DEF BlocksOf
<1>4. /\ DOMAIN BlocksOf(s) = DOMAIN s
      /\ \A k \in DOMAIN s : BlocksOf(s)[k] = s[k].block /\ s[k].block \in Nat
  BY EntryBlocks
<1>5. IsInjective(BlocksOf(s))
  BY DEF BlocksPartitioned
<1>6. P \subseteq DOMAIN s
  OBVIOUS
<1> HIDE DEF f, s, b
<1>7. PICK r : /\ r \in [DOMAIN f -> P]
               /\ \A n \in DOMAIN f : f[n] = s[r[n]]
               /\ \A i, j \in DOMAIN f : r[i] = r[j] => i = j
  BY <1>2
<1>8. \A n \in DOMAIN f : r[n] \in DOMAIN s /\ b[n] = s[r[n]].block
  BY <1>3, <1>6, <1>7
<1>9. DOMAIN f = 1 .. Len(f) /\ Len(f) \in Nat /\ DOMAIN b = DOMAIN f
  BY <1>2, <1>3
<1>10. b \in Seq(Nat)
  <2>1. \A n \in 1 .. Len(f) : f[n].block \in Nat
    BY <1>3, <1>4, <1>8, <1>9
  <2>2. QED
    BY <1>3, <1>9, <2>1
<1>11. IsInjective(b)
  <2> SUFFICES ASSUME NEW i \in DOMAIN f, NEW j \in DOMAIN f, b[i] = b[j]
               PROVE  i = j
    BY <1>9 DEF IsInjective
  <2>1. r[i] \in DOMAIN s /\ r[j] \in DOMAIN s /\ BlocksOf(s)[r[i]] = BlocksOf(s)[r[j]]
    BY <1>4, <1>8
  <2>2. r[i] = r[j]
    BY <1>4, <1>5, <2>1 DEF IsInjective
  <2>3. QED
    BY <1>7, <2>2
<1>12. \A x : x \in Range(b) <=> \E k \in P : x = s[k].block
  <2>1. \A k \in P : \E n \in DOMAIN b : b[n] = s[k].block
    BY <1>2, <1>3, <1>9
  <2>2. \A n \in DOMAIN b : \E k \in P : b[n] = s[k].block
    BY <1>2, <1>3, <1>9
  <2>3. QED
    BY <2>1, <2>2 DEF Range
<1>13. Range(b) \subseteq Range(BlocksOf(s))
  <2>1. \A k \in P : \E n \in DOMAIN BlocksOf(s) : BlocksOf(s)[n] = s[k].block
    BY <1>4, <1>6
  <2>2. QED
    BY <1>12, <2>1 DEF Range
<1>14. Thinned(f, s)
  <2>1. r \in [DOMAIN f -> DOMAIN s]
    BY <1>6, <1>7
  <2>2. IsInjective(r)
    BY <1>7 DEF IsInjective
  <2>3. QED
    BY <1>7, <2>1, <2>2 DEF Thinned
<1>15. QED
  BY <1>2, <1>10, <1>11, <1>12, <1>13, <1>14 DEF OrdersPicked, BlocksHeld, s, f, b
\* What two accounts of a wrapper have in common when only open orders and free
\* blocks differ.
SameInfo(w, u) ==
    /\ u.num = w.num /\ u.info = w.info /\ u.twins = w.twins /\ u.lost = w.lost /\ u.seat = w.seat
    /\ InfoOf(u) = InfoOf(w)

\* Open orders that leave give their blocks back.
LEMMA UnlinkSound ==
    ASSUME NEW w, WrapperShape(w), BlocksPartitioned(w), NEW blocks, BlocksHeld(blocks, w)
    PROVE  LET u == Unlink(w, blocks)
           IN  /\ WrapperShape(u) /\ BlocksPartitioned(u) /\ SameInfo(w, u)
               /\ Thinned(u.orders, w.orders)
               /\ \A n \in DOMAIN u.orders :
                    \E k \in DOMAIN w.orders : /\ u.orders[n] = w.orders[k]
                                               /\ w.orders[k].block \notin Range(blocks)
<1> DEFINE s == w.orders
           P == {k \in DOMAIN s : \A j \in DOMAIN blocks : blocks[j] # s[k].block}
           f == ElementsAt(s, P)
           free == Reverse(blocks) \o w.free
           u == Unlink(w, blocks)
           held == Range(BlocksOf(s))
<1>1. u = [w EXCEPT !.orders = f, !.free = free]
  BY DEF Unlink, Filter
<1>2. P \subseteq DOMAIN s
  OBVIOUS
<1> HIDE DEF P
<1>3. /\ BlocksHeld(BlocksOf(f), w)
      /\ \A b : b \in Range(BlocksOf(f)) <=> \E k \in P : b = s[k].block
      /\ Thinned(f, s)
      /\ f \in Seq(Range(s))
      /\ \A n \in DOMAIN f : \E k \in P : f[n] = s[k]
  <2>1. OrdersPicked(f, P, w)
    BY <1>2, PickedBlocks
  <2>2. QED
    BY <2>1 DEF OrdersPicked
<1>4. /\ DOMAIN BlocksOf(s) = DOMAIN s
      /\ \A k \in DOMAIN s : BlocksOf(s)[k] = s[k].block /\ s[k].block \in Nat
  BY EntryBlocks
<1>5. \A k \in DOMAIN s : k \in P <=> s[k].block \notin Range(blocks)
  BY DEF P, Range
<1>6. held = {s[k].block : k \in DOMAIN s}
  <2>1. held = {BlocksOf(s)[k] : k \in DOMAIN s}
    BY <1>4 DEF Range
  <2> HIDE DEF held
  <2>2. QED
    BY <1>4, <2>1
<1>7. Range(BlocksOf(f)) = held \ Range(blocks)
  BY <1>2, <1>3, <1>5, <1>6
<1>8. /\ w.free \in Seq(Nat) /\ blocks \in Seq(Nat) /\ Range(blocks) \subseteq held
      /\ IsInjective(blocks)
  BY DEF WrapperShape, BlocksHeld
<1>9. /\ IsInjective(w.free) /\ Range(w.free) \cap held = {}
      /\ Range(w.free) \cap InfoOf(w) = {} /\ held \cap InfoOf(w) = {}
      /\ Range(w.free) \cup held \cup InfoOf(w) = 0 .. (w.num - 1)
      /\ LostSound(w)
  BY DEF BlocksPartitioned
<1>10. /\ Reverse(blocks) \in Seq(Nat) /\ Range(Reverse(blocks)) = Range(blocks)
       /\ IsInjective(Reverse(blocks))
  BY <1>8, TurnedRound
<1>11. free \in Seq(Nat) /\ Range(free) = Range(blocks) \cup Range(w.free)
  BY <1>8, <1>10, PutTogether
<1>12. IsInjective(free)
  <2>1. Range(Reverse(blocks)) \cap Range(w.free) = {}
    BY <1>8, <1>9, <1>10
  <2>2. QED
    BY <1>8, <1>9, <1>10, <2>1, PutTogether
<1> HIDE DEF u, f, free, held
<1>13. /\ u \in [num : Nat, free : {free}, info : {w.info}, twins : {w.twins},
                 lost : {w.lost}, layout : {w.layout}, orders : {f}, seat : {w.seat},
                 bal : {w.bal}, seq : {w.seq}, globals : {w.globals}]
  BY <1>1 DEF WrapperShape
<1>14. /\ u.orders = f /\ u.free = free /\ u.num = w.num /\ u.info = w.info
       /\ u.twins = w.twins /\ u.lost = w.lost /\ u.seat = w.seat
  <2>1. w.num \in Nat /\ u.num = w.num
    BY <1>1 DEF WrapperShape
  <2>2. QED
    BY <1>13, <2>1
<1>15. \A n \in DOMAIN f : EntryShape(f[n])
  BY <1>2, <1>3 DEF WrapperShape
<1>16. f \in Seq(Range(f))
  <2>1. DOMAIN f = 1 .. Len(f) /\ Len(f) \in Nat /\ f = [n \in DOMAIN f |-> f[n]]
    BY <1>3
  <2>2. \A n \in 1 .. Len(f) : f[n] \in Range(f)
    BY <2>1 DEF Range
  <2>3. QED
    BY <2>1, <2>2
<1>17. WrapperShape(u)
  BY <1>11, <1>13, <1>14, <1>15, <1>16 DEF WrapperShape
<1>18. InfoOf(u) = InfoOf(w) /\ (LostSound(w) => LostSound(u))
  BY <1>14 DEF InfoOf, NodesOf, LostSound
<1>19. BlocksPartitioned(u)
  <2>1. IsInjective(BlocksOf(f))
    BY <1>3 DEF BlocksHeld
  <2>2. Range(free) \cap Range(BlocksOf(f)) = {}
    BY <1>7, <1>9, <1>11
  <2>3. Range(free) \cap InfoOf(w) = {} /\ Range(BlocksOf(f)) \cap InfoOf(w) = {}
    BY <1>7, <1>8, <1>9, <1>11
  <2>4. Range(free) \cup Range(BlocksOf(f)) \cup InfoOf(w) = 0 .. (w.num - 1)
    BY <1>7, <1>8, <1>9, <1>11
  <2>5. QED
    BY <1>9, <1>12, <1>14, <1>18, <2>1, <2>2, <2>3, <2>4 DEF BlocksPartitioned
<1>20. \A n \in DOMAIN f : \E k \in DOMAIN s : f[n] = s[k] /\ s[k].block \notin Range(blocks)
  BY <1>2, <1>3, <1>5
<1>21. QED
  BY <1>3, <1>14, <1>17, <1>18, <1>19, <1>20 DEF u, SameInfo
\* The account grows by some blocks: they are free.
LEMMA ExpandWrapperSound ==
    ASSUME NEW w, WrapperShape(w), BlocksPartitioned(w), NEW b \in Nat
    PROVE  LET u == ExpandWrapper(w, b)
           IN  /\ WrapperShape(u) /\ BlocksPartitioned(u)
               /\ u.num = w.num + b /\ Len(u.free) = Len(w.free) + b
               /\ u.info = w.info /\ u.twins = w.twins /\ u.lost = w.lost /\ u.seat = w.seat
               /\ u.orders = w.orders /\ InfoOf(u) = InfoOf(w)
<1> DEFINE new == [k \in 1 .. b |-> w.num + b - k]
           free == new \o w.free
           held == Range(BlocksOf(w.orders))
           u == ExpandWrapper(w, b)
<1>1. u = [w EXCEPT !.num = w.num + b, !.free = free]
  BY DEF ExpandWrapper, WrapperShape
<1>2. w.num \in Nat /\ w.free \in Seq(Nat)
  BY DEF WrapperShape
<1>3. /\ IsInjective(w.free) /\ Range(w.free) \cap held = {}
      /\ Range(w.free) \cap InfoOf(w) = {} /\ held \cap InfoOf(w) = {}
      /\ Range(w.free) \cup held \cup InfoOf(w) = 0 .. (w.num - 1)
      /\ IsInjective(BlocksOf(w.orders)) /\ LostSound(w)
  BY DEF BlocksPartitioned
<1>4. new \in Seq(Nat) /\ Len(new) = b /\ IsInjective(new)
  <2>1. \A k \in 1 .. b : w.num + b - k \in Nat
    BY <1>2
  <2>2. \A i, j \in 1 .. b : w.num + b - i = w.num + b - j => i = j
    BY <1>2
  <2>3. QED
    BY <2>1, <2>2 DEF IsInjective
<1>5. \A x : x \in Range(new) <=> x \in Nat /\ w.num <= x /\ x < w.num + b
  <2>1. \A k \in 1 .. b : new[k] \in Nat /\ w.num <= new[k] /\ new[k] < w.num + b
    BY <1>2
  <2>2. DOMAIN new = 1 .. b
    OBVIOUS
  <2>3. \A x \in Nat : w.num <= x /\ x < w.num + b =>
            w.num + b - x \in 1 .. b /\ new[w.num + b - x] = x
    BY <1>2
  <2> HIDE DEF new
  <2>4. \A x \in Nat : w.num <= x /\ x < w.num + b => \E k \in DOMAIN new : new[k] = x
    BY <2>2, <2>3
  <2>5. QED
    BY <2>1, <2>2, <2>4 DEF Range
<1> HIDE DEF new, held, u
<1>6. \A x : x \in Range(w.free) \cup held \cup InfoOf(w) <=> x \in Nat /\ x < w.num
  BY <1>2, <1>3
<1>7. Range(new) \cap (Range(w.free) \cup held \cup InfoOf(w)) = {}
  <2>1. \A x \in Nat : ~ (w.num <= x /\ x < w.num)
    BY <1>2
  <2>2. QED
    BY <1>5, <1>6, <2>1
<1>8. /\ free \in Seq(Nat) /\ Len(free) = Len(w.free) + b
      /\ Range(free) = Range(new) \cup Range(w.free)
  <2>1. free \in Seq(Nat) /\ Len(free) = Len(new) + Len(w.free)
    BY <1>2, <1>4, PutTogether
  <2>2. Range(free) = Range(new) \cup Range(w.free)
    BY <1>2, <1>4, PutTogether
  <2>3. QED
    BY <1>2, <1>4, <2>1, <2>2
<1>9. IsInjective(free)
  <2>1. Range(new) \cap Range(w.free) = {}
    BY <1>7
  <2>2. QED
    BY <1>2, <1>3, <1>4, <2>1, PutTogether
<1> HIDE DEF free
<1>10. \A x : x \in Range(free) \cup held \cup InfoOf(w) <=> x \in 0 .. (w.num + b - 1)
  <2>1. \A x : x \in Range(free) \cup held \cup InfoOf(w) <=>
                x \in Nat /\ (x < w.num \/ (w.num <= x /\ x < w.num + b))
    BY <1>5, <1>6, <1>8
  <2>2. \A x \in Nat : (x < w.num \/ (w.num <= x /\ x < w.num + b)) <=> x \in 0 .. (w.num + b - 1)
    BY <1>2
  <2>3. 0 .. (w.num + b - 1) \subseteq Nat
    BY <1>2
  <2>4. QED
    BY <2>1, <2>2, <2>3
<1>11. u \in [num : {w.num + b}, free : {free}, info : {w.info}, twins : {w.twins},
              lost : {w.lost}, layout : {w.layout}, orders : {w.orders}, seat : {w.seat},
              bal : {w.bal}, seq : {w.seq}, globals : {w.globals}]
  BY <1>1 DEF WrapperShape
<1>12. /\ u.num = w.num + b /\ u.free = free /\ u.info = w.info /\ u.twins = w.twins
       /\ u.lost = w.lost
       /\ u.seat = w.seat /\ u.orders = w.orders
  BY <1>11
<1>13. InfoOf(u) = InfoOf(w) /\ (LostSound(w) => LostSound(u))
  BY <1>12 DEF InfoOf, NodesOf, LostSound
<1>14. WrapperShape(u)
  <2>1. w.num + b \in Nat
    BY <1>2
  <2>2. QED
    BY <1>8, <1>11, <1>12, <2>1 DEF WrapperShape
<1>15. BlocksPartitioned(u)
  <2>1. Range(free) \cap held = {} /\ Range(free) \cap InfoOf(w) = {}
    BY <1>3, <1>7, <1>8
  <2>2. Range(free) \cup held \cup InfoOf(w) = 0 .. (w.num + b - 1)
    BY <1>10
  <2>3. Range(u.free) \cup Range(BlocksOf(u.orders)) \cup InfoOf(u) = 0 .. (u.num - 1)
    <3>1. 0 .. (u.num - 1) = 0 .. (w.num + b - 1)
      <4>1. u.num = w.num + b
        BY <1>12
      <4>2. QED
        BY <1>2, <4>1
    <3>2. Range(u.free) = Range(free) /\ Range(BlocksOf(u.orders)) = held
      BY <1>12 DEF held
    <3>3. QED
      BY <1>13, <2>2, <3>1, <3>2
  <2>4. IsInjective(u.free) /\ IsInjective(BlocksOf(u.orders)) /\ LostSound(u)
    BY <1>3, <1>9, <1>12, <1>13
  <2>5. /\ Range(u.free) \cap Range(BlocksOf(u.orders)) = {}
        /\ Range(u.free) \cap InfoOf(u) = {}
        /\ Range(BlocksOf(u.orders)) \cap InfoOf(u) = {}
    BY <1>3, <1>12, <1>13, <2>1 DEF held
  <2>6. QED
    BY <2>3, <2>4, <2>5 DEF BlocksPartitioned
<1>16. QED
  BY <1>8, <1>12, <1>13, <1>14, <1>15 DEF u

\* Rounding up to a multiple of WRAPPER_EXPAND_BLOCKS.
LEMMA ChunksSuffice ==
    ASSUME NEW missing \in Int, missing > 0
    PROVE  LET chunks == (missing + WRAPPER_EXPAND_BLOCKS - 1) \div WRAPPER_EXPAND_BLOCKS
           IN  chunks * WRAPPER_EXPAND_BLOCKS \in Nat /\ chunks * WRAPPER_EXPAND_BLOCKS >= missing
<1> DEFINE d == WRAPPER_EXPAND_BLOCKS
           a == missing + d - 1
           q == a \div d
<1>1. d \in Nat /\ d > 0
  BY WrapperAssumption
<1>2. a \in Nat /\ a >= d
  BY <1>1
<1>3. a = d * q + (a % d) /\ a % d \in Nat /\ a % d <= d - 1 /\ q \in Int
  BY <1>1, <1>2
<1> DEFINE p == d * q
<1>4. p \in Int /\ q * d = p
  BY <1>1, <1>3
<1>5. p >= missing
  <2> DEFINE r == a % d
  <2>1. a = p + r /\ r \in Nat /\ r <= d - 1 /\ a = missing + d - 1
    BY <1>3
  <2> HIDE DEF p, r, a, d
  <2>2. QED
    BY <1>1, <1>4, <2>1
<1>6. QED
  BY <1>1, <1>4, <1>5

LEMMA EnsureFreeSlotsSound ==
    ASSUME NEW w, WrapperShape(w), BlocksPartitioned(w), NEW needed \in Nat
    PROVE  LET u == EnsureFreeSlots(w, needed)
           IN  /\ WrapperShape(u) /\ BlocksPartitioned(u)
               /\ u.num >= w.num /\ Len(u.free) >= needed
               /\ u.info = w.info /\ u.twins = w.twins /\ u.lost = w.lost /\ u.seat = w.seat
               /\ u.orders = w.orders /\ InfoOf(u) = InfoOf(w)
<1> DEFINE missing == needed - Len(w.free)
           b == ((missing + WRAPPER_EXPAND_BLOCKS - 1) \div WRAPPER_EXPAND_BLOCKS)
                    * WRAPPER_EXPAND_BLOCKS
           u == EnsureFreeSlots(w, needed)
           grown == ExpandWrapper(w, b)
<1>1. w.num \in Nat /\ w.free \in Seq(Nat)
  BY DEF WrapperShape
<1>2. Len(w.free) \in Nat /\ missing \in Int
  BY <1>1
<1>3. CASE missing <= 0
  <2>1. u = w
    BY <1>3 DEF EnsureFreeSlots
  <2>2. Len(w.free) >= needed
    BY <1>2, <1>3
  <2> HIDE DEF u
  <2>3. u.num >= w.num
    BY <1>1, <2>1
  <2>4. QED
    BY <2>1, <2>2, <2>3 DEF u
<1>4. CASE ~ (missing <= 0)
  <2>1. u = grown
    BY <1>4 DEF EnsureFreeSlots
  <2>2. b \in Nat /\ b >= missing
    BY <1>2, <1>4, ChunksSuffice
  <2> HIDE DEF b
  <2>3. /\ WrapperShape(grown) /\ BlocksPartitioned(grown)
        /\ grown.num = w.num + b /\ Len(grown.free) = Len(w.free) + b
        /\ grown.info = w.info /\ grown.twins = w.twins
        /\ grown.lost = w.lost /\ grown.seat = w.seat
        /\ grown.orders = w.orders /\ InfoOf(grown) = InfoOf(w)
    BY <2>2, ExpandWrapperSound
  <2> HIDE DEF u, grown
  <2>4. u.num >= w.num /\ Len(u.free) >= needed
    BY <1>1, <1>2, <2>1, <2>2, <2>3
  <2>5. QED
    BY <2>1, <2>3, <2>4 DEF u
<1>5. QED
  BY <1>3, <1>4
\* What remains of the open orders after a sync: some of them, each at most once.
\* Those that were looked up, or are about to be cancelled, are in the core.
OrdersSynced(u, w, m, orders_exact, matcher) ==
    \E r \in [DOMAIN u.orders -> DOMAIN w.orders] :
        /\ IsInjective(r)
        /\ \A n \in DOMAIN u.orders :
            /\ u.orders[n].seq = w.orders[r[n]].seq
            /\ u.orders[n].index = w.orders[r[n]].index
            /\ u.orders[n].id = w.orders[r[n]].id
            /\ ReadsCore(w, m, orders_exact) \/ IsMatched(matcher, w.orders[r[n]]) =>
                    ~ Gone(m, w.orders[r[n]])

LEMMA SyncFastSound ==
    ASSUME NEW w, WrapperShape(w), BlocksPartitioned(w), NEW m, NEW orders_exact, NEW matcher
    PROVE  LET u == SyncFast(w, m, orders_exact, matcher)
           IN  /\ WrapperShape(u) /\ BlocksPartitioned(u) /\ SameInfo(w, u)
               /\ OrdersSynced(u, w, m, orders_exact, matcher)
<1> DEFINE s == w.orders
           reads == ReadsCore(w, m, orders_exact)
           P == {k \in DOMAIN s : (reads \/ IsMatched(matcher, s[k])) /\ Gone(m, s[k])}
           f == ElementsAt(s, P)
           blocks == BlocksOf(f)
           v == [w EXCEPT !.layout = "list"]
           kept == Unlink(v, blocks)
           seen == [k \in DOMAIN kept.orders |->
                        IF reads THEN Refreshed(m, kept.orders[k]) ELSE kept.orders[k]]
           u == SyncFast(w, m, orders_exact, matcher)
<1>1. Dropped(w, m, orders_exact, matcher) = f
  BY DEF Dropped, Filter
<1>2. P \subseteq DOMAIN s
  OBVIOUS
<1>3. \A k \in DOMAIN s : (reads \/ IsMatched(matcher, s[k])) /\ Gone(m, s[k]) => k \in P
  OBVIOUS
<1>4. u = [kept EXCEPT !.orders = seen,
                       !.globals = IF reads /\ w.orders # <<>> THEN GlobalCount(seen) ELSE @,
                       !.seq = m.seq,
                       !.bal = m.data[w.seat].bal]
  BY <1>1 DEF SyncFast
<1>5. seen = [k \in DOMAIN kept.orders |->
                IF reads THEN Refreshed(m, kept.orders[k]) ELSE kept.orders[k]]
  OBVIOUS
<1> HIDE DEF P, reads, seen, kept
<1>6. OrdersPicked(f, P, w)
  BY <1>2, PickedBlocks
<1>7. /\ v \in [num : {w.num}, free : {w.free}, info : {w.info}, twins : {w.twins},
                lost : {w.lost}, layout : {"list"}, orders : {w.orders}, seat : {w.seat},
                bal : {w.bal}, seq : {w.seq}, globals : {w.globals}]
  BY DEF WrapperShape
<1>8. /\ v.num = w.num /\ v.free = w.free /\ v.info = w.info /\ v.twins = w.twins
      /\ v.lost = w.lost
      /\ v.orders = w.orders /\ v.seat = w.seat
  BY <1>7
<1>9. InfoOf(v) = InfoOf(w) /\ (LostSound(w) => LostSound(v))
  BY <1>8 DEF InfoOf, NodesOf, LostSound
<1> HIDE DEF v, f, blocks
<1>10. WrapperShape(v) /\ BlocksPartitioned(v) /\ BlocksHeld(blocks, v)
  <2>1. WrapperShape(v)
    BY <1>7, <1>8 DEF WrapperShape
  <2>2. BlocksPartitioned(v)
    BY <1>8, <1>9 DEF BlocksPartitioned
  <2>3. BlocksHeld(blocks, v)
    BY <1>6, <1>8 DEF OrdersPicked, BlocksHeld, blocks
  <2>4. QED
    BY <2>1, <2>2, <2>3
<1>11. /\ WrapperShape(kept) /\ BlocksPartitioned(kept) /\ SameInfo(v, kept)
       /\ Thinned(kept.orders, v.orders)
       /\ \A n \in DOMAIN kept.orders :
            \E k \in DOMAIN v.orders : /\ kept.orders[n] = v.orders[k]
                                       /\ v.orders[k].block \notin Range(blocks)
  BY <1>10, UnlinkSound DEF kept
<1>12. DOMAIN seen = DOMAIN kept.orders
  BY <1>5
<1>13. ASSUME NEW n \in DOMAIN kept.orders
       PROVE  /\ EntryShape(seen[n])
              /\ seen[n].block = kept.orders[n].block /\ seen[n].seq = kept.orders[n].seq
              /\ seen[n].index = kept.orders[n].index /\ seen[n].id = kept.orders[n].id
  <2> DEFINE o == kept.orders[n]
             q == m.data[o.index].base
             p == m.data[o.index].price
  <2>1. o \in [block : Nat, id : {o.id}, seq : {o.seq}, index : {o.index}, base : {o.base},
               price : {o.price}, is_bid : {o.is_bid}, type : {o.type}]
    BY <1>11 DEF WrapperShape, EntryShape
  <2>2. CASE reads
    <3>1. seen[n] = [o EXCEPT !.base = q, !.price = p]
      BY <1>5, <2>2 DEF Refreshed
    <3> HIDE DEF o, q, p
    <3>2. seen[n] \in [block : {o.block}, id : {o.id}, seq : {o.seq}, index : {o.index}, base : {q},
                       price : {p}, is_bid : {o.is_bid}, type : {o.type}]
      BY <2>1, <3>1
    <3>3. o.block \in Nat
      BY <2>1
    <3>4. QED
      BY <3>2, <3>3 DEF EntryShape, o
  <2>3. CASE ~ reads
    BY <1>5, <2>1, <2>3 DEF EntryShape
  <2>4. QED
    BY <2>2, <2>3
<1>14. BlocksOf(seen) = BlocksOf(kept.orders)
  BY <1>12, <1>13 DEF BlocksOf
<1>15. seen \in Seq(Range(seen))
  <2>1. kept.orders \in Seq(Range(kept.orders))
    BY <1>11 DEF WrapperShape
  <2>2. DOMAIN seen = 1 .. Len(kept.orders) /\ Len(kept.orders) \in Nat
    BY <1>12, <2>1
  <2>3. \A n \in 1 .. Len(kept.orders) : seen[n] \in Range(seen)
    BY <2>2 DEF Range
  <2>4. seen = [n \in DOMAIN seen |-> seen[n]]
    BY <1>5
  <2>5. QED
    BY <2>2, <2>3, <2>4
<1> DEFINE globals == IF reads /\ w.orders # <<>> THEN GlobalCount(seen) ELSE kept.globals
           bal == m.data[w.seat].bal
<1>16. /\ u \in [num : Nat, free : Seq(Nat), info : {kept.info}, twins : {kept.twins},
                 lost : {kept.lost}, layout : {kept.layout}, orders : {seen}, seat : {kept.seat},
                 bal : {bal}, seq : {m.seq}, globals : {globals}]
       /\ u.num = kept.num /\ u.free = kept.free
  <2> HIDE DEF u, bal
  <2>1. u = [kept EXCEPT !.orders = seen, !.globals = globals, !.seq = m.seq, !.bal = bal]
    <3>1. kept \in [num : Nat, free : Seq(Nat), info : {kept.info}, twins : {kept.twins},
                    lost : {kept.lost}, layout : {kept.layout}, orders : {kept.orders}, seat : {kept.seat},
                    bal : {kept.bal}, seq : {kept.seq}, globals : {kept.globals}]
      BY <1>11 DEF WrapperShape
    <3>2. QED
      BY <1>4, <3>1 DEF bal
  <2> HIDE DEF globals
  <2>2. QED
    BY <1>11, <2>1 DEF WrapperShape
<1> HIDE DEF u, globals, bal
<1>17. /\ u.orders = seen /\ u.info = kept.info /\ u.twins = kept.twins
       /\ u.lost = kept.lost /\ u.seat = kept.seat
  BY <1>16
<1>18. InfoOf(u) = InfoOf(kept) /\ (LostSound(kept) => LostSound(u))
  BY <1>17 DEF InfoOf, NodesOf, LostSound
<1>19. WrapperShape(u)
  <2>1. \A k \in DOMAIN u.orders : EntryShape(u.orders[k])
    BY <1>12, <1>13, <1>17
  <2>2. u \in [num : Nat, free : Seq(Nat), info : {u.info}, twins : {u.twins},
               lost : {u.lost}, layout : {u.layout}, orders : {u.orders}, seat : {u.seat},
               bal : {u.bal}, seq : {u.seq}, globals : {u.globals}]
    BY <1>16
  <2>3. QED
    BY <1>15, <1>17, <2>1, <2>2 DEF WrapperShape
<1>20. BlocksPartitioned(u)
  BY <1>11, <1>14, <1>16, <1>17, <1>18 DEF BlocksPartitioned
<1>21. SameInfo(w, u)
  BY <1>8, <1>9, <1>11, <1>16, <1>17, <1>18 DEF SameInfo
<1>22. OrdersSynced(u, w, m, orders_exact, matcher)
  <2>1. PICK r \in [DOMAIN kept.orders -> DOMAIN v.orders] :
            IsInjective(r) /\ \A n \in DOMAIN kept.orders : kept.orders[n] = v.orders[r[n]]
    BY <1>11 DEF Thinned
  <2>2. r \in [DOMAIN u.orders -> DOMAIN s] /\ IsInjective(r)
    BY <1>8, <1>12, <1>17, <2>1
  <2>3. ASSUME NEW n \in DOMAIN u.orders
        PROVE  /\ u.orders[n].seq = s[r[n]].seq
               /\ u.orders[n].index = s[r[n]].index
               /\ u.orders[n].id = s[r[n]].id
               /\ reads \/ IsMatched(matcher, s[r[n]]) => ~ Gone(m, s[r[n]])
    <3>1. n \in DOMAIN kept.orders /\ kept.orders[n] = s[r[n]] /\ r[n] \in DOMAIN s
      BY <1>8, <1>12, <1>17, <2>1, <2>3
    <3>2. s[r[n]].block \notin Range(blocks)
      BY <1>8, <1>11, <3>1
    <3>3. r[n] \notin P
      BY <1>6, <3>2 DEF OrdersPicked, blocks
    <3>4. QED
      BY <1>3, <1>13, <1>17, <3>1, <3>3
  <2>4. QED
    BY <2>2, <2>3 DEF OrdersSynced, reads
<1>23. QED
  BY <1>19, <1>20, <1>21, <1>22 DEF u
\* The first n elements of a sequence, and the rest of it.
LEMMA CutInTwo ==
    ASSUME NEW S, NEW s \in Seq(S), NEW n \in Nat, n <= Len(s), IsInjective(s)
    PROVE  LET rest == SubSeq(s, n + 1, Len(s))
           IN  /\ rest \in Seq(S) /\ IsInjective(rest)
               /\ \A i \in 1 .. n : s[i] \notin Range(rest)
               /\ \A x : x \in Range(s) <=> x \in Range(rest) \/ \E i \in 1 .. n : x = s[i]
<1> DEFINE rest == SubSeq(s, n + 1, Len(s))
           l == Len(s)
<1>1. l \in Nat /\ DOMAIN s = 1 .. l /\ \A i \in 1 .. l : s[i] \in S
  OBVIOUS
<1>2. rest = [i \in 1 .. (l - n) |-> s[n + i]] /\ rest \in Seq(S) /\ Len(rest) = l - n
  <2>1. l - n \in Nat
    BY <1>1
  <2>2. \A i \in 1 .. (l - n) : n + i \in 1 .. l
    BY <1>1
  <2>3. rest \in Seq(S) /\ Len(rest) = l - n /\ \A i \in 1 .. (l - n) : rest[i] = s[n + i]
    <3>1. n + 1 \in 1 .. (l + 1) /\ l \in n .. l
      BY <1>1
    <3>2. \A i \in (n + 1) .. l : s[i] \in S
      BY <1>1
    <3>3. /\ rest \in Seq(S)
          /\ Len(rest) = IF n + 1 <= l THEN l - (n + 1) + 1 ELSE 0
          /\ \A i \in 1 .. (l - (n + 1) + 1) : rest[i] = s[(n + 1) + i - 1]
      <4>1. n + 1 \in Int /\ l \in Int
        BY <1>1
      <4>2. QED
        BY <3>2, <4>1, SubSeqProperties
    <3> HIDE DEF rest, l
    <3>4. l - (n + 1) + 1 = l - n /\ n <= l
      BY <1>1, n <= l DEF l
    <3>5. Len(rest) = l - n
      BY <1>1, <3>3, <3>4
    <3>6. \A i \in 1 .. (l - n) : (n + 1) + i - 1 = n + i
      BY <1>1
    <3>7. QED
      BY <3>3, <3>4, <3>5, <3>6
  <2> HIDE DEF rest, l
  <2>4. DOMAIN rest = 1 .. (l - n) /\ rest = [i \in DOMAIN rest |-> rest[i]]
    BY <2>1, <2>3
  <2>5. rest = [i \in 1 .. (l - n) |-> s[n + i]]
    BY <2>3, <2>4
  <2>6. QED
    BY <2>3, <2>5
<1> HIDE DEF rest, l
<1>3. DOMAIN rest = 1 .. (l - n) /\ \A i \in 1 .. (l - n) : rest[i] = s[n + i] /\ n + i \in 1 .. l
  BY <1>1, <1>2
<1>4. IsInjective(rest)
  <2> SUFFICES ASSUME NEW i \in 1 .. (l - n), NEW j \in 1 .. (l - n), rest[i] = rest[j]
               PROVE  i = j
    BY <1>3 DEF IsInjective
  <2>1. n + i = n + j
    BY <1>1, <1>3 DEF IsInjective
  <2>2. QED
    BY <2>1
<1>5. ASSUME NEW i \in 1 .. n
      PROVE  s[i] \notin Range(rest)
  <2>1. \A j \in 1 .. (l - n) : i # n + j /\ i \in 1 .. l
    BY <1>1, l >= n DEF l
  <2>2. \A j \in 1 .. (l - n) : s[i] # rest[j]
    BY <1>1, <1>3, <2>1 DEF IsInjective
  <2>3. QED
    BY <1>3, <2>2 DEF Range
<1>6. n <= l
  BY DEF l
<1>7. \A x : x \in Range(s) <=> x \in Range(rest) \/ \E i \in 1 .. n : x = s[i]
  <2>1. ASSUME NEW k \in 1 .. l, ~ (k <= n)
        PROVE  s[k] \in Range(rest)
    <3>1. k - n \in 1 .. (l - n) /\ n + (k - n) = k
      BY <1>1, <1>6, <2>1
    <3>2. rest[k - n] = s[k]
      BY <1>3, <3>1
    <3>3. QED
      BY <1>3, <3>1, <3>2 DEF Range
  <2>2. \A k \in 1 .. l : s[k] \in Range(rest) \/ k \in 1 .. n
    BY <2>1
  <2>3. \A i \in 1 .. n : i \in 1 .. l
    BY <1>1, <1>6
  <2>4. ASSUME NEW x, x \in Range(s)
        PROVE  x \in Range(rest) \/ \E i \in 1 .. n : x = s[i]
    BY <1>1, <2>2, <2>4 DEF Range
  <2>5. ASSUME NEW x, x \in Range(rest) \/ \E i \in 1 .. n : x = s[i]
        PROVE  x \in Range(s)
    <3>1. CASE x \in Range(rest)
      BY <1>1, <1>3, <3>1 DEF Range
    <3>2. CASE \E i \in 1 .. n : x = s[i]
      BY <1>1, <2>3, <3>2 DEF Range
    <3>3. QED
      BY <2>5, <3>1, <3>2
  <2>6. QED
    BY <2>4, <2>5
<1>8. QED
  BY <1>2, <1>4, <1>5, <1>7 DEF rest, l
\* A function on 1 .. n is a sequence.
LEMMA OwnSequence ==
    ASSUME NEW n \in Nat, NEW f, DOMAIN f = 1 .. n, f = [k \in 1 .. n |-> f[k]]
    PROVE  f \in Seq(Range(f)) /\ Len(f) = n
<1>1. \A k \in 1 .. n : f[k] \in Range(f)
  BY DEF Range
<1>2. QED
  BY <1>1

\* The orders of a call that has returned, with the record of the core.
SentOrders ==
    [k \in DOMAIN call.forwarded |-> [sent |-> call.forwarded[k], record |-> call.records[k]]]

LEMMA RestedRecordsTyped ==
    ASSUME call.forwarded \in Seq(Range(call.forwarded))
    PROVE  LET rested == RestedRecords
           IN  /\ rested \in Seq(Range(SentOrders))
               /\ \E r : /\ r \in [DOMAIN rested -> DOMAIN call.forwarded]
                         /\ \A n \in DOMAIN rested : /\ rested[n] = SentOrders[r[n]]
                                                       /\ rested[n].record.index # NIL
                         /\ \A i, j \in DOMAIN rested : r[i] = r[j] => i = j
<1> DEFINE all == SentOrders
           P == {k \in DOMAIN all : all[k].record.index # NIL}
           rested == ElementsAt(all, P)
           n == Len(call.forwarded)
<1>1. RestedRecords = rested
  BY DEF RestedRecords, Filter, SentOrders
<1>2. n \in Nat /\ DOMAIN call.forwarded = 1 .. n
  OBVIOUS
<1>3. DOMAIN all = 1 .. n /\ all = [k \in 1 .. n |-> all[k]]
  BY <1>2 DEF SentOrders
<1> HIDE DEF all, n
<1>4. all \in Seq(Range(all))
  BY <1>2, <1>3, OwnSequence
<1>5. P \subseteq DOMAIN all /\ \A k \in P : all[k].record.index # NIL
  OBVIOUS
<1> HIDE DEF P
<1>6. /\ rested \in Seq(Range(all))
      /\ \E r : /\ r \in [DOMAIN rested -> P]
                /\ \A k \in DOMAIN rested : rested[k] = all[r[k]]
                /\ \A i, j \in DOMAIN rested : r[i] = r[j] => i = j
  BY <1>4, <1>5, PickedOnce
<1> HIDE DEF rested
<1>7. PICK r : /\ r \in [DOMAIN rested -> P]
               /\ \A k \in DOMAIN rested : rested[k] = all[r[k]]
               /\ \A i, j \in DOMAIN rested : r[i] = r[j] => i = j
  BY <1>6
<1>8. r \in [DOMAIN rested -> DOMAIN call.forwarded]
  BY <1>2, <1>3, <1>5, <1>7
<1>9. \A k \in DOMAIN rested : rested[k] = all[r[k]] /\ rested[k].record.index # NIL
  BY <1>5, <1>7
<1>10. QED
  BY <1>1, <1>6, <1>7, <1>8, <1>9 DEF all

\* The entries of the orders that rest go on before the others.
OrdersAdded(u, w) ==
    \E new : /\ new \in Seq(Range(new)) /\ DOMAIN new = DOMAIN RestedRecords
             /\ \A k \in DOMAIN new : /\ new[k].seq = RestedRecords[k].record.seq
                                      /\ new[k].index = RestedRecords[k].record.index
             /\ u.orders = Reverse(new) \o w.orders

LEMMA OrdersProcessedSound ==
    ASSUME NEW w, WrapperShape(w), BlocksPartitioned(w),
           call.forwarded \in Seq(Range(call.forwarded))
    PROVE  LET u == OrdersProcessed(w)
           IN  /\ WrapperShape(u) /\ BlocksPartitioned(u)
               /\ u.info = w.info /\ u.twins = w.twins /\ u.lost = w.lost /\ u.seat = w.seat
               /\ OrdersAdded(u, w)
<1> DEFINE rested == RestedRecords
           n == Len(rested)
           room == EnsureFreeSlots(w, n)
           new == [k \in 1 .. n |-> NewEntry(room.free[k], rested[k])]
           rest == SubSeq(room.free, n + 1, Len(room.free))
           orders == Reverse(new) \o w.orders
           globals == room.globals + GlobalCount(new)
           u == OrdersProcessed(w)
<1>1. n \in Nat /\ DOMAIN rested = 1 .. n
  <2>1. rested \in Seq(Range(SentOrders))
    BY RestedRecordsTyped
  <2> HIDE DEF rested
  <2>2. QED
    BY <2>1
<1>2. /\ WrapperShape(room) /\ BlocksPartitioned(room)
      /\ Len(room.free) >= n
      /\ room.info = w.info /\ room.twins = w.twins /\ room.lost = w.lost /\ room.seat = w.seat
      /\ room.orders = w.orders /\ InfoOf(room) = InfoOf(w)
  BY <1>1, EnsureFreeSlotsSound
<1>3. DOMAIN new = 1 .. n /\ new = [k \in 1 .. n |-> new[k]]
  OBVIOUS
<1>4. u = IF n = 0 THEN w ELSE [room EXCEPT !.free = rest, !.orders = orders, !.globals = globals]
  <2>1. room \in [num : Nat, free : Seq(Nat), info : {room.info}, twins : {room.twins},
                  lost : {room.lost}, layout : {room.layout}, orders : {w.orders}, seat : {room.seat},
                  bal : {room.bal}, seq : {room.seq}, globals : {room.globals}]
    BY <1>2 DEF WrapperShape
  <2>2. u = IF n = 0 THEN w
            ELSE [room EXCEPT !.free = SubSeq(@, n + 1, Len(@)), !.orders = Reverse(new) \o @,
                              !.globals = @ + GlobalCount(new)]
    BY DEF OrdersProcessed
  <2> HIDE DEF room, new, u
  <2>3. [room EXCEPT !.free = SubSeq(@, n + 1, Len(@)), !.orders = Reverse(new) \o @,
                     !.globals = @ + GlobalCount(new)]
            = [room EXCEPT !.free = rest, !.orders = orders, !.globals = globals]
    BY <1>2, <2>1
  <2>4. QED
    BY <2>2, <2>3
<1>5. \A k \in 1 .. n : /\ new[k] = NewEntry(room.free[k], rested[k])
                        /\ room.free[k] \in Nat /\ k \in DOMAIN room.free
  <2>1. room.free \in Seq(Nat)
    BY <1>2 DEF WrapperShape
  <2> HIDE DEF room, n
  <2>2. \A k \in 1 .. n : k \in 1 .. Len(room.free)
    BY <1>1, <1>2, <2>1
  <2>3. \A k \in 1 .. n : room.free[k] \in Nat /\ k \in DOMAIN room.free
    BY <2>1, <2>2
  <2>4. QED
    BY <2>3
<1> HIDE DEF rested, n, room, new, u, globals
<1>6. \A k \in 1 .. n : /\ EntryShape(new[k]) /\ new[k].block = room.free[k]
                        /\ new[k].seq = rested[k].record.seq
                        /\ new[k].index = rested[k].record.index
  <2> TAKE k \in 1 .. n
  <2>1. new[k] = NewEntry(room.free[k], rested[k]) /\ room.free[k] \in Nat
    BY <1>5
  <2> DEFINE o == NewEntry(room.free[k], rested[k])
  <2>2. /\ o \in [block : {room.free[k]}, id : {o.id}, seq : {rested[k].record.seq},
                  index : {rested[k].record.index}, base : {o.base}, price : {o.price},
                  is_bid : {o.is_bid}, type : {o.type}]
    BY DEF NewEntry
  <2> HIDE DEF o
  <2>3. EntryShape(o) /\ o.block = room.free[k] /\ o.seq = rested[k].record.seq
        /\ o.index = rested[k].record.index
    BY <2>1, <2>2 DEF EntryShape
  <2>4. QED
    BY <2>1, <2>3 DEF o
<1>7. new \in Seq(Range(new)) /\ Len(new) = n
  BY <1>1, <1>3, OwnSequence
<1>8. CASE n = 0
  <2>1. u = w /\ new = <<>>
    BY <1>4, <1>7, <1>8
  <2>2. Reverse(new) \o w.orders = w.orders
    <3>1. w.orders \in Seq(Range(w.orders))
      BY DEF WrapperShape
    <3>2. Reverse(new) = <<>>
      <4>1. Reverse(new) \in Seq(Range(new)) /\ Len(Reverse(new)) = Len(new)
        BY <1>7, TurnedRound
      <4>2. Len(Reverse(new)) = 0
        BY <1>7, <1>8, <4>1
      <4>3. QED
        BY <4>1, <4>2
    <3>3. QED
      BY <3>1, <3>2
  <2>3. OrdersAdded(u, w)
    <3>1. DOMAIN new = DOMAIN RestedRecords
      BY <1>1, <1>3 DEF rested
    <3>2. \A k \in DOMAIN new : /\ new[k].seq = RestedRecords[k].record.seq
                                /\ new[k].index = RestedRecords[k].record.index
      BY <1>3, <1>6 DEF rested
    <3>3. QED
      BY <1>7, <2>1, <2>2, <3>1, <3>2 DEF OrdersAdded
  <2>4. QED
    BY <2>1, <2>3 DEF u
<1>9. CASE n # 0
  <2>1. /\ room.free \in Seq(Nat) /\ IsInjective(room.free)
        /\ w.orders \in Seq(Range(w.orders)) /\ IsInjective(BlocksOf(w.orders))
        /\ \A k \in DOMAIN w.orders : EntryShape(w.orders[k])
    BY <1>2 DEF WrapperShape, BlocksPartitioned
  <2>2. /\ rest \in Seq(Nat) /\ IsInjective(rest)
        /\ \A i \in 1 .. n : room.free[i] \notin Range(rest)
        /\ \A x : x \in Range(room.free) <=> x \in Range(rest) \/ \E i \in 1 .. n : x = room.free[i]
    <3>1. n <= Len(room.free)
      BY <1>1, <1>2, <2>1
    <3>2. QED
      BY <1>1, <2>1, <3>1, CutInTwo
  <2> DEFINE back == Reverse(new)
             blocks == BlocksOf(orders)
             olds == BlocksOf(w.orders)
             news == BlocksOf(back)
  <2>3. /\ back \in Seq(Range(new)) /\ Len(back) = n
        /\ back = [k \in 1 .. n |-> new[(n - k) + 1]]
    BY <1>7, TurnedRound DEF Reverse
  <2>4. \A k \in 1 .. n : (n - k) + 1 \in 1 .. n /\ (n - ((n - k) + 1)) + 1 = k
    BY <1>1
  <2>5. \A k \in 1 .. n : EntryShape(back[k]) /\ back[k].block = room.free[(n - k) + 1]
    BY <1>6, <2>3, <2>4
  <2>6. /\ olds \in Seq(Nat) /\ Len(olds) = Len(w.orders) /\ DOMAIN olds = DOMAIN w.orders
        /\ \A k \in DOMAIN w.orders : olds[k] = w.orders[k].block
    BY EntryBlocks
  <2> HIDE DEF back
  <2>7. DOMAIN back = 1 .. n /\ n \in Nat
    BY <1>1, <2>3
  <2>8. /\ news = [k \in 1 .. n |-> back[k].block] /\ news \in Seq(Nat) /\ Len(news) = n
        /\ \A k \in 1 .. n : news[k] = room.free[(n - k) + 1]
    <3>1. news = [k \in 1 .. n |-> back[k].block]
      BY <2>7 DEF BlocksOf
    <3> HIDE DEF news
    <3>2. \A k \in 1 .. n : back[k].block \in Nat
      BY <1>5, <2>4, <2>5
    <3>3. QED
      BY <2>5, <2>7, <3>1, <3>2
  <2>9. orders \in Seq(Range(orders)) /\ \A k \in DOMAIN orders : EntryShape(orders[k])
    <3> DEFINE both == Range(new) \cup Range(w.orders)
    <3>1. back \in Seq(both) /\ w.orders \in Seq(both)
      BY <2>1, <2>3
    <3>2. orders \in Seq(both) /\ Range(orders) = Range(back) \cup Range(w.orders)
      BY <3>1, PutTogether DEF back
    <3>3. \A x \in Range(orders) : EntryShape(x)
      BY <2>1, <2>5, <2>7, <3>2 DEF Range
    <3> HIDE DEF orders, both
    <3>4. DOMAIN orders = 1 .. Len(orders) /\ Len(orders) \in Nat /\ orders = [k \in DOMAIN orders |-> orders[k]]
      BY <3>2
    <3>5. orders \in Seq(Range(orders))
      BY <3>4, OwnSequence
    <3>6. QED
      BY <3>3, <3>5 DEF Range
  <2>10. blocks = news \o olds
    <3> DEFINE m == Len(w.orders)
    <3>1. /\ Len(back) = n /\ Len(w.orders) = m /\ m \in Nat /\ n \in Nat
          /\ DOMAIN w.orders = 1 .. m
      BY <1>1, <2>1, <2>3
    <3>2. orders = [k \in 1 .. (n + m) |-> IF k <= n THEN back[k] ELSE w.orders[k - n]]
      <4>1. orders = back \o w.orders
        BY DEF back
      <4> HIDE DEF orders
      <4>2. QED
        BY <2>1, <2>3, <3>1, <4>1
    <3>3. news \o olds = [k \in 1 .. (n + m) |-> IF k <= n THEN news[k] ELSE olds[k - n]]
      <4>1. Len(olds) = m /\ olds \in Seq(Nat)
        BY <2>6
      <4>2. Len(news) = n /\ news \in Seq(Nat)
        BY <2>8
      <4> HIDE DEF news, olds, m
      <4>3. news \o olds = [k \in 1 .. (Len(news) + Len(olds)) |->
                                IF k <= Len(news) THEN news[k] ELSE olds[k - Len(news)]]
        <5> DEFINE c == news \o olds
        <5>1. c \in Seq(Nat) /\ Len(c) = Len(news) + Len(olds)
          BY <4>1, <4>2, ConcatProperties
        <5>2. \A k \in 1 .. (Len(news) + Len(olds)) :
                c[k] = IF k <= Len(news) THEN news[k] ELSE olds[k - Len(news)]
          BY <4>1, <4>2, ConcatProperties
        <5> HIDE DEF c
        <5>3. DOMAIN c = 1 .. (Len(news) + Len(olds)) /\ c = [k \in DOMAIN c |-> c[k]]
          BY <5>1
        <5>4. QED
          BY <5>2, <5>3 DEF c
      <4>4. QED
        BY <4>1, <4>2, <4>3
    <3>4. blocks = [k \in 1 .. (n + m) |-> orders[k].block]
      BY <3>2 DEF BlocksOf
    <3> HIDE DEF blocks, orders, news, olds
    <3>5. \A k \in 1 .. (n + m) : orders[k].block = IF k <= n THEN news[k] ELSE olds[k - n]
      <4>1. \A k \in 1 .. (n + m) : IF k <= n THEN k \in 1 .. n ELSE k - n \in 1 .. m
        BY <3>1
      <4>2. \A k \in 1 .. n : news[k] = back[k].block
        BY <2>8
      <4>3. \A k \in 1 .. m : olds[k] = w.orders[k].block
        BY <2>6, <3>1
      <4> HIDE DEF m
      <4>4. QED
        BY <3>2, <4>1, <4>2, <4>3
    <3>6. QED
      BY <3>3, <3>4, <3>5
  <2>11. \A x : x \in Range(news) <=> \E i \in 1 .. n : x = room.free[i]
    <3>1. DOMAIN news = 1 .. n
      BY <2>8
    <3>2. \A i \in 1 .. n : news[(n - i) + 1] = room.free[i]
      BY <2>4, <2>8
    <3>3. \A i \in 1 .. n : \E k \in DOMAIN news : news[k] = room.free[i]
      BY <2>4, <3>1, <3>2
    <3>4. \A k \in DOMAIN news : \E i \in 1 .. n : news[k] = room.free[i]
      BY <2>4, <2>8, <3>1
    <3> HIDE DEF news
    <3>5. QED
      BY <3>3, <3>4 DEF Range
  <2>12. IsInjective(news)
    <3> SUFFICES ASSUME NEW i \in 1 .. n, NEW j \in 1 .. n, news[i] = news[j]
                 PROVE  i = j
      BY <2>8 DEF IsInjective
    <3>1. (n - i) + 1 \in DOMAIN room.free /\ (n - j) + 1 \in DOMAIN room.free
      BY <1>5, <2>4
    <3>2. (n - i) + 1 = (n - j) + 1
      BY <2>1, <2>8, <3>1 DEF IsInjective
    <3>3. QED
      BY <1>1, <3>2
  <2>13. /\ Range(room.free) \cap Range(olds) = {} /\ Range(room.free) \cap InfoOf(w) = {}
         /\ Range(olds) \cap InfoOf(w) = {}
         /\ Range(room.free) \cup Range(olds) \cup InfoOf(w) = 0 .. (room.num - 1)
         /\ LostSound(w)
    BY <1>2 DEF BlocksPartitioned
  <2> HIDE DEF blocks, olds, news, rest
  <2>14. Range(news) \subseteq Range(room.free) /\ Range(news) \cup Range(rest) = Range(room.free)
         /\ Range(news) \cap Range(rest) = {}
    <3>1. \A x \in Range(news) : x \in Range(room.free) /\ x \notin Range(rest)
      BY <2>2, <2>11
    <3>2. \A x : x \in Range(room.free) <=> x \in Range(rest) \/ x \in Range(news)
      BY <2>2, <2>11
    <3>3. QED
      BY <3>1, <3>2
  <2>15. IsInjective(blocks) /\ Range(blocks) = Range(news) \cup Range(olds)
    <3>1. Range(news) \cap Range(olds) = {}
      BY <2>13, <2>14
    <3>2. IsInjective(olds)
      BY <2>1 DEF olds
    <3>3. olds \in Seq(Nat) /\ news \in Seq(Nat)
      BY <2>6, <2>8
    <3>4. Range(blocks) = Range(news) \cup Range(olds)
      BY <2>10, <3>3, PutTogether
    <3>5. IsInjective(blocks)
      BY <2>10, <2>12, <3>1, <3>2, <3>3, PutTogether
    <3>6. QED
      BY <3>4, <3>5
  <2>16. /\ u.num = room.num /\ u.free = rest /\ u.info = w.info /\ u.twins = w.twins
         /\ u.lost = w.lost
         /\ u.orders = orders /\ u.seat = w.seat
         /\ u \in [num : Nat, free : Seq(Nat), info : {u.info}, twins : {u.twins},
                   lost : {u.lost}, layout : {u.layout}, orders : {u.orders}, seat : {u.seat},
                   bal : {u.bal}, seq : {u.seq}, globals : {u.globals}]
    <3> HIDE DEF orders
    <3>1. u = [room EXCEPT !.free = rest, !.orders = orders, !.globals = globals]
      BY <1>4, <1>9
    <3>2. u \in [num : Nat, free : {rest}, info : {room.info}, twins : {room.twins},
                 lost : {room.lost}, layout : {room.layout}, orders : {orders}, seat : {room.seat},
                 bal : {room.bal}, seq : {room.seq}, globals : {globals}]
          /\ u.num = room.num
      BY <1>2, <3>1 DEF WrapperShape
    <3>3. QED
      BY <1>2, <2>2, <3>2
  <2>17. InfoOf(u) = InfoOf(w) /\ (LostSound(w) => LostSound(u))
    BY <2>16 DEF InfoOf, NodesOf, LostSound
  <2>18. WrapperShape(u)
    BY <2>9, <2>16 DEF WrapperShape
  <2>19. BlocksPartitioned(u)
    <3>1. BlocksOf(u.orders) = blocks
      BY <2>16 DEF blocks
    <3>2. Range(rest) \cap Range(blocks) = {} /\ Range(rest) \cap InfoOf(w) = {}
          /\ Range(blocks) \cap InfoOf(w) = {}
          /\ Range(rest) \cup Range(blocks) \cup InfoOf(w) = 0 .. (room.num - 1)
      BY <2>13, <2>14, <2>15
    <3> HIDE DEF orders
    <3>3. QED
      BY <2>2, <2>13, <2>15, <2>16, <2>17, <3>1, <3>2 DEF BlocksPartitioned
  <2>20. OrdersAdded(u, w)
    <3>1. DOMAIN new = DOMAIN RestedRecords
      BY <1>1, <1>3 DEF rested
    <3>2. \A k \in DOMAIN new : /\ new[k].seq = RestedRecords[k].record.seq
                                /\ new[k].index = RestedRecords[k].record.index
      BY <1>3, <1>6 DEF rested
    <3>3. QED
      BY <1>7, <2>16, <3>1, <3>2 DEF OrdersAdded
  <2>21. QED
    BY <2>16, <2>18, <2>19, <2>20 DEF u
<1>10. QED
  BY <1>8, <1>9
\* A block off the free list.
LEMMA HeadTaken ==
    ASSUME NEW s \in Seq(Nat), Len(s) >= 1, IsInjective(s)
    PROVE  /\ Head(s) \in Nat /\ Tail(s) \in Seq(Nat) /\ IsInjective(Tail(s))
           /\ Head(s) \notin Range(Tail(s))
           /\ Range(s) = {Head(s)} \cup Range(Tail(s))
<1> DEFINE rest == SubSeq(s, 1 + 1, Len(s))
<1>1. Len(s) \in Nat /\ s # <<>> /\ Head(s) = s[1] /\ Head(s) \in Nat
  OBVIOUS
<1>2. 1 <= Len(s) /\ 1 \in Nat
  OBVIOUS
<1>3. /\ rest \in Seq(Nat) /\ IsInjective(rest)
      /\ \A i \in 1 .. 1 : s[i] \notin Range(rest)
      /\ \A x : x \in Range(s) <=> x \in Range(rest) \/ \E i \in 1 .. 1 : x = s[i]
  BY <1>2, CutInTwo
<1>4. Tail(s) = rest
  BY <1>1
<1> HIDE DEF rest
<1>5. 1 .. 1 = {1}
  OBVIOUS
<1>6. Head(s) \notin Range(rest) /\ Range(s) = {Head(s)} \cup Range(rest)
  BY <1>1, <1>3, <1>5
<1>7. QED
  BY <1>1, <1>3, <1>4, <1>6

\* The account of a wrapper takes a block for a market info.  The open orders stay those
\* that lookups find, unless a node without any takes the place of theirs.
LEMMA InfoTaken ==
    ASSUME NEW w, WrapperShape(w), BlocksPartitioned(w), Len(w.free) >= 1, NEW seat
    PROVE  LET u == InfoAdded([w EXCEPT !.free = Tail(@)], Head(w.free), seat)
           IN  /\ WrapperShape(u) /\ BlocksPartitioned(u)
               /\ u.orders \in {w.orders, <<>>} /\ u.info # NIL
               /\ u.seat = IF w.info # NIL THEN w.seat ELSE seat
<1> DEFINE b == Head(w.free)
           t == Tail(w.free)
           held == Range(BlocksOf(w.orders))
           taken == [w EXCEPT !.free = Tail(@)]
           u == InfoAdded(taken, b, seat)
<1> SUFFICES /\ WrapperShape(u) /\ BlocksPartitioned(u)
             /\ u.orders \in {w.orders, <<>>} /\ u.info # NIL
             /\ u.seat = IF w.info # NIL THEN w.seat ELSE seat
  OBVIOUS
<1>1. w.free \in Seq(Nat) /\ IsInjective(w.free) /\ w.num \in Nat
  BY DEF WrapperShape, BlocksPartitioned
<1>2. /\ b \in Nat /\ t \in Seq(Nat) /\ IsInjective(t) /\ b \notin Range(t)
      /\ Range(w.free) = {b} \cup Range(t)
  BY <1>1, HeadTaken
<1>3. /\ Range(w.free) \cap held = {} /\ Range(w.free) \cap InfoOf(w) = {}
      /\ held \cap InfoOf(w) = {}
      /\ Range(w.free) \cup held \cup InfoOf(w) = 0 .. (w.num - 1)
      /\ IsInjective(BlocksOf(w.orders)) /\ LostSound(w)
  BY DEF BlocksPartitioned
<1>4. /\ taken \in [num : {w.num}, free : {t}, info : {w.info}, twins : {w.twins},
                    lost : {w.lost}, layout : {w.layout}, orders : {w.orders},
                    seat : {w.seat}, bal : {w.bal}, seq : {w.seq}, globals : {w.globals}]
  BY DEF WrapperShape
<1>5. /\ taken.info = w.info /\ taken.twins = w.twins /\ taken.orders = w.orders
      /\ taken.seat = w.seat /\ taken.lost = w.lost
  BY <1>4
<1>6. BlocksOf(<<>>) = <<>> /\ Range(<<>>) = {} /\ IsInjective(<<>>) /\ DOMAIN <<>> = {}
      /\ <<>> \in Seq(Range(<<>>))
  <2>1. BlocksOf(<<>>) = <<>> /\ DOMAIN <<>> = {}
    BY DEF BlocksOf
  <2>2. QED
    BY <2>1 DEF Range, IsInjective
<1>7. w.orders \in Seq(Range(w.orders)) /\ \A k \in DOMAIN w.orders : EntryShape(w.orders[k])
  BY DEF WrapperShape
<1>8. b # NIL /\ b \notin InfoOf(w)
  BY <1>2, <1>3 DEF NIL
<1>9. \A x \in InfoOf(w) : x # NIL
  <2>1. InfoOf(w) \subseteq Nat
    <3>1. 0 .. (w.num - 1) \subseteq Nat
      BY <1>1
    <3>2. QED
      BY <1>3, <3>1
  <2>2. QED
    BY <2>1 DEF NIL
<1> HIDE DEF b, t, taken, held
<1>10. ASSUME u \in [num : {w.num}, free : {t}, info : {u.info}, twins : {u.twins},
                     lost : {u.lost}, layout : {u.layout}, orders : {w.orders, <<>>},
                     seat : {u.seat}, bal : {u.bal}, seq : {u.seq}, globals : {u.globals}],
              u.info # NIL, u.seat = IF w.info # NIL THEN w.seat ELSE seat,
              NodesOf(u) = NodesOf(w) \cup {b}, LostSound(u),
              \/ u.lost = w.lost /\ u.orders = w.orders
              \/ w.lost = <<>> /\ u.lost = w.orders /\ u.orders = <<>>
       PROVE  /\ WrapperShape(u) /\ BlocksPartitioned(u)
              /\ u.orders \in {w.orders, <<>>} /\ u.info # NIL
              /\ u.seat = IF w.info # NIL THEN w.seat ELSE seat
  <2> HIDE DEF u
  <2>1. /\ u.num = w.num /\ u.free = t /\ u.orders \in {w.orders, <<>>}
        /\ u \in [num : Nat, free : Seq(Nat), info : {u.info}, twins : {u.twins},
                  lost : {u.lost}, layout : {u.layout}, orders : {u.orders}, seat : {u.seat},
                  bal : {u.bal}, seq : {u.seq}, globals : {u.globals}]
    BY <1>1, <1>2, <1>10
  <2>2. WrapperShape(u)
    <3>1. CASE u.orders = w.orders
      BY <1>7, <2>1, <3>1 DEF WrapperShape
    <3>2. CASE u.orders = <<>>
      BY <1>6, <2>1, <3>2 DEF WrapperShape
    <3>3. QED
      BY <2>1, <3>1, <3>2
  <2> DEFINE entries == Range(BlocksOf(u.orders))
  <2>3. /\ IsInjective(BlocksOf(u.orders)) /\ entries \cap InfoOf(u) = {}
        /\ entries \cup InfoOf(u) = held \cup InfoOf(w) \cup {b}
    <3>1. CASE u.lost = w.lost /\ u.orders = w.orders
      <4>1. InfoOf(u) = InfoOf(w) \cup {b} /\ entries = held
        BY <1>10, <3>1 DEF InfoOf, held
      <4>2. b \notin held
        BY <1>2, <1>3
      <4>3. QED
        BY <1>3, <3>1, <4>1, <4>2
    <3>2. CASE w.lost = <<>> /\ u.lost = w.orders /\ u.orders = <<>>
      <4>1. InfoOf(w) = NodesOf(w) /\ InfoOf(u) = NodesOf(w) \cup {b} \cup held
        BY <1>6, <1>10, <3>2 DEF InfoOf, held
      <4>2. QED
        BY <1>6, <3>2, <4>1
    <3>3. QED
      BY <1>10, <3>1, <3>2
  <2>4. Range(t) \cap (entries \cup InfoOf(u)) = {}
    BY <1>2, <1>3, <2>3
  <2>5. Range(t) \cup entries \cup InfoOf(u) = 0 .. (w.num - 1)
    BY <1>2, <1>3, <2>3
  <2>6. BlocksPartitioned(u)
    BY <1>2, <1>10, <2>1, <2>3, <2>4, <2>5 DEF BlocksPartitioned
  <2>7. QED
    BY <1>10, <2>1, <2>2, <2>6
<1>11. CASE w.info = NIL
  <2>1. u = [taken EXCEPT !.info = b, !.layout = "list", !.seat = seat]
    BY <1>5, <1>11 DEF InfoAdded
  <2> HIDE DEF u
  <2>2. u \in [num : {w.num}, free : {t}, info : {b}, twins : {w.twins}, lost : {w.lost},
               layout : {"list"}, orders : {w.orders}, seat : {seat}, bal : {w.bal},
               seq : {w.seq}, globals : {w.globals}]
    BY <1>4, <2>1
  <2>3. /\ u.info = b /\ u.twins = w.twins /\ u.lost = w.lost /\ u.orders = w.orders
        /\ u.seat = seat
    BY <2>2
  <2>4. NodesOf(u) = NodesOf(w) \cup {b}
    BY <1>8, <1>11, <2>3 DEF NodesOf
  <2>5. LostSound(u)
    BY <1>3, <1>8, <2>3, <2>4 DEF LostSound, InfoOf
  <2>6. QED
    BY <1>8, <1>10, <1>11, <2>2, <2>3, <2>4, <2>5
<1>12. CASE w.info # NIL /\ Cardinality(w.twins) = 1
  <2> DEFINE twin == CHOOSE x \in w.twins : TRUE
  <2>1. u = [taken EXCEPT !.info = twin, !.twins = {w.info, b}, !.layout = "list",
                          !.orders = <<>>, !.lost = w.orders,
                          !.bal = NoTokens, !.seq = 0, !.globals = 0]
    BY <1>5, <1>12 DEF InfoAdded, Overtaken
  <2>2. w.twins = {twin}
    <3>1. IsFiniteSet(0 .. (w.num - 1))
      BY <1>1, FS_Interval
    <3>2. w.twins \in SUBSET (0 .. (w.num - 1))
      BY <1>3 DEF InfoOf, NodesOf
    <3>3. IsFiniteSet(w.twins)
      BY <3>1, <3>2, FS_Subset
    <3>4. \E x : w.twins = {x}
      BY <1>12, <3>3, FS_Singleton
    <3>5. QED
      BY <3>4
  <2> HIDE DEF u, twin
  <2>3. u \in [num : {w.num}, free : {t}, info : {twin}, twins : {{w.info, b}},
               lost : {w.orders}, layout : {"list"}, orders : {<<>>}, seat : {w.seat},
               bal : {NoTokens}, seq : {0}, globals : {0}]
    BY <1>4, <2>1
  <2>4. /\ u.info = twin /\ u.twins = {w.info, b} /\ u.lost = w.orders /\ u.orders = <<>>
        /\ u.seat = w.seat
    BY <2>3
  <2>5. NodesOf(w) = {w.info, twin} /\ w.info \in InfoOf(w) /\ twin \in InfoOf(w)
    BY <1>12, <2>2 DEF NodesOf, InfoOf
  <2>6. u.info # NIL /\ NodesOf(u) = NodesOf(w) \cup {b}
    BY <1>9, <2>4, <2>5 DEF NodesOf
  <2>7. w.lost = <<>>
    BY <1>3, <2>2 DEF LostSound
  <2>8. b # w.info /\ b \notin held
    BY <1>2, <1>3, <1>8, <2>5
  <2>9. LostSound(u)
    <3>1. NodesOf(u) \cap Range(BlocksOf(u.lost)) = {}
      BY <1>3, <2>4, <2>5, <2>6, <2>8 DEF held
    <3>2. \E x, y \in u.twins : x # y
      BY <2>4, <2>8
    <3>3. QED
      BY <1>3, <1>7, <2>4, <3>1, <3>2 DEF LostSound
  <2>10. QED
    BY <1>10, <1>12, <2>3, <2>4, <2>6, <2>7, <2>9
<1>13. CASE w.info # NIL /\ Cardinality(w.twins) # 1
  <2>1. u = [taken EXCEPT !.twins = w.twins \cup {b}]
    <3>1. u = [taken EXCEPT !.twins = @ \cup {b}]
      BY <1>5, <1>13 DEF InfoAdded
    <3>2. QED
      BY <1>4, <1>5, <3>1
  <2> HIDE DEF u
  <2>2. u \in [num : {w.num}, free : {t}, info : {w.info}, twins : {w.twins \cup {b}},
               lost : {w.lost}, layout : {w.layout}, orders : {w.orders}, seat : {w.seat},
               bal : {w.bal}, seq : {w.seq}, globals : {w.globals}]
    BY <1>4, <2>1
  <2>3. /\ u.info = w.info /\ u.twins = w.twins \cup {b} /\ u.lost = w.lost
        /\ u.orders = w.orders /\ u.seat = w.seat
    BY <2>2
  <2>4. NodesOf(u) = NodesOf(w) \cup {b}
    BY <1>13, <2>3 DEF NodesOf
  <2>5. LostSound(u)
    <3>1. NodesOf(u) \cap Range(BlocksOf(u.lost)) = {}
      BY <1>3, <1>8, <2>3, <2>4 DEF LostSound, InfoOf
    <3>2. u.lost = <<>> \/ \E x, y \in u.twins : x # y
      BY <1>3, <2>3 DEF LostSound
    <3>3. QED
      BY <1>3, <2>3, <3>1, <3>2 DEF LostSound
  <2>6. QED
    BY <1>10, <1>13, <2>2, <2>3, <2>4, <2>5
<1>14. QED
  BY <1>11, <1>12, <1>13

LEMMA NoWrapperSound ==
    /\ WrapperShape(NoWrapper) /\ BlocksPartitioned(NoWrapper)
    /\ NoWrapper.orders = <<>> /\ NoWrapper.info = NIL /\ NoWrapper.twins = {}
    /\ NoWrapper.seat = NIL /\ NoWrapper.lost = <<>>
<1> DEFINE w == NoWrapper
<1>1. /\ w.num = 0 /\ w.free = <<>> /\ w.info = NIL /\ w.twins = {} /\ w.orders = <<>>
      /\ w.seat = NIL /\ w.lost = <<>>
      /\ w \in [num : Nat, free : Seq(Nat), info : {w.info}, twins : {w.twins},
                lost : {w.lost}, layout : {w.layout}, orders : {w.orders}, seat : {w.seat},
                bal : {w.bal}, seq : {w.seq}, globals : {w.globals}]
  BY DEF NoWrapper
<1> HIDE DEF w
<1>2. BlocksOf(<<>>) = <<>> /\ DOMAIN <<>> = {}
  BY DEF BlocksOf
<1>3. Range(<<>>) = {} /\ IsInjective(<<>>)
  BY <1>2 DEF Range, IsInjective
<1>4. WrapperShape(w)
  BY <1>1, <1>2 DEF WrapperShape
<1>5. InfoOf(w) = {} /\ NodesOf(w) = {} /\ 0 .. (0 - 1) = {}
  BY <1>1, <1>2, <1>3 DEF InfoOf, NodesOf
<1>6. LostSound(w)
  BY <1>1, <1>2, <1>3, <1>5 DEF LostSound
<1>7. BlocksPartitioned(w)
  BY <1>1, <1>2, <1>3, <1>5, <1>6 DEF BlocksPartitioned
<1>8. QED
  BY <1>1, <1>4, <1>7 DEF w

-----------------------------------------------------------------------------
(* Every block of the wrapper once. *)

\* A sequence without repetitions has as many elements as places.
LEMMA RangeCounted ==
    ASSUME NEW s \in Seq(Nat), IsInjective(s)
    PROVE  IsFiniteSet(Range(s)) /\ Cardinality(Range(s)) = Len(s)
<1> DEFINE n == Len(s)
<1>1. n \in Nat /\ DOMAIN s = 1 .. n
  OBVIOUS
<1>2. IsFiniteSet(1 .. n) /\ Cardinality(1 .. n) = n
  <2> HIDE DEF n
  <2>1. IsFiniteSet(1 .. n) /\ Cardinality(1 .. n) = IF 1 > n THEN 0 ELSE n - 1 + 1
    BY <1>1, FS_Interval
  <2>2. QED
    BY <1>1, <2>1
<1>3. s \in Bijection(1 .. n, Range(s))
  <2>1. s \in [1 .. n -> Range(s)]
    BY <1>1 DEF Range
  <2>2. \A y \in Range(s) : \E k \in 1 .. n : s[k] = y
    BY <1>1 DEF Range
  <2>3. \A i, j \in 1 .. n : s[i] = s[j] => i = j
    BY <1>1 DEF IsInjective
  <2>4. QED
    BY <2>1, <2>2, <2>3 DEF Bijection, Injection, Surjection, IsInjective
<1>4. QED
  BY <1>2, <1>3, FS_Bijection DEF ExistsBijection

LEMMA BlocksCounted ==
    ASSUME NEW w, WrapperShape(w), BlocksPartitioned(w)
    PROVE  Len(w.free) + Len(w.orders) + Cardinality(InfoOf(w)) = w.num
<1> DEFINE A == Range(w.free)
           B == Range(BlocksOf(w.orders))
           C == InfoOf(w)
           n == w.num
<1>1. w.free \in Seq(Nat) /\ n \in Nat /\ w.orders \in Seq(Range(w.orders))
  BY DEF WrapperShape
<1>2. BlocksOf(w.orders) \in Seq(Nat) /\ Len(BlocksOf(w.orders)) = Len(w.orders)
  BY EntryBlocks
<1>3. IsInjective(w.free) /\ IsInjective(BlocksOf(w.orders))
  BY DEF BlocksPartitioned
<1>4. IsFiniteSet(A) /\ Cardinality(A) = Len(w.free)
  BY <1>1, <1>3, RangeCounted
<1>5. IsFiniteSet(B) /\ Cardinality(B) = Len(w.orders)
  BY <1>2, <1>3, RangeCounted
<1>6. A \cap B = {} /\ (A \cup B) \cap C = {} /\ (A \cup B) \cup C = 0 .. (n - 1)
  BY DEF BlocksPartitioned
<1>7. IsFiniteSet(0 .. (n - 1)) /\ Cardinality(0 .. (n - 1)) = n
  <2> HIDE DEF n
  <2>1. n - 1 \in Int /\ 0 \in Int
    BY <1>1
  <2>2. IsFiniteSet(0 .. (n - 1))
        /\ Cardinality(0 .. (n - 1)) = IF 0 > n - 1 THEN 0 ELSE (n - 1) - 0 + 1
    BY <2>1, FS_Interval
  <2>3. QED
    BY <1>1, <2>2
<1> HIDE DEF A, B, C, n
<1>8. IsFiniteSet(C)
  <2>1. C \in SUBSET (0 .. (n - 1))
    BY <1>6
  <2>2. QED
    BY <1>7, <2>1, FS_Subset
<1>9. IsFiniteSet(A \cup B) /\ Cardinality(A \cup B) = Cardinality(A) + Cardinality(B)
  <2>1. /\ IsFiniteSet(A \cup B)
        /\ Cardinality(A \cup B) = Cardinality(A) + Cardinality(B) - Cardinality(A \cap B)
    BY <1>4, <1>5, FS_Union
  <2>2. Cardinality(A \cap B) = 0
    BY <1>6, FS_EmptySet
  <2>3. Cardinality(A) \in Nat /\ Cardinality(B) \in Nat
    BY <1>4, <1>5, FS_CardinalityType
  <2>4. QED
    BY <2>1, <2>2, <2>3
<1>10. n = Cardinality(A \cup B) + Cardinality(C)
  <2>1. Cardinality((A \cup B) \cup C)
            = Cardinality(A \cup B) + Cardinality(C) - Cardinality((A \cup B) \cap C)
    BY <1>8, <1>9, FS_Union
  <2>2. Cardinality((A \cup B) \cap C) = 0
    BY <1>6, FS_EmptySet
  <2>3. Cardinality(A \cup B) \in Nat /\ Cardinality(C) \in Nat
    BY <1>8, <1>9, FS_CardinalityType
  <2>4. Cardinality((A \cup B) \cup C) = n
    BY <1>6, <1>7
  <2>5. QED
    BY <2>1, <2>2, <2>3, <2>4
<1>11. Len(w.free) \in Nat /\ Len(w.orders) \in Nat /\ Cardinality(C) \in Nat
  BY <1>1, <1>8, FS_CardinalityType
<1>12. n = Len(w.free) + Len(w.orders) + Cardinality(C)
  BY <1>4, <1>5, <1>9, <1>10, <1>11
<1>13. QED
  BY <1>12 DEF C, n
\* process_cancels: the orders that were cancelled leave.
LEMMA CancelsProcessedSound ==
    ASSUME NEW w, WrapperShape(w), BlocksPartitioned(w), BlocksHeld(call.blocks, w)
    PROVE  LET u == CancelsProcessed(w)
           IN  /\ WrapperShape(u) /\ BlocksPartitioned(u) /\ SameInfo(w, u)
               /\ Thinned(u.orders, w.orders)
<1> DEFINE v == Unlink(w, call.blocks)
           cancelled == Filter(w.orders, LAMBDA o : \E k \in DOMAIN call.blocks :
                                                        call.blocks[k] = o.block)
           fewer == w.globals - GlobalCount(cancelled)
           globals == IF fewer < 0 THEN 0 ELSE fewer
           u == CancelsProcessed(w)
<1>1. /\ WrapperShape(v) /\ BlocksPartitioned(v) /\ SameInfo(w, v)
      /\ Thinned(v.orders, w.orders)
  BY UnlinkSound
<1>2. u = [v EXCEPT !.globals = globals]
  BY DEF CancelsProcessed
<1> HIDE DEF v, u, globals
<1>3. u \in [num : Nat, free : Seq(Nat), info : {v.info}, twins : {v.twins},
             lost : {v.lost}, layout : {v.layout}, orders : {v.orders}, seat : {v.seat},
             bal : {v.bal}, seq : {v.seq}, globals : {globals}]
      /\ u.num = v.num /\ u.free = v.free
  BY <1>1, <1>2 DEF WrapperShape
<1>4. /\ u.orders = v.orders /\ u.info = v.info /\ u.twins = v.twins
      /\ u.lost = v.lost /\ u.seat = v.seat
  BY <1>3
<1>5. InfoOf(u) = InfoOf(v) /\ (LostSound(v) => LostSound(u))
  BY <1>4 DEF InfoOf, NodesOf, LostSound
<1>6. WrapperShape(u)
  <2>1. v.orders \in Seq(Range(v.orders)) /\ \A k \in DOMAIN v.orders : EntryShape(v.orders[k])
    BY <1>1 DEF WrapperShape
  <2>2. QED
    BY <1>3, <1>4, <2>1 DEF WrapperShape
<1>7. BlocksPartitioned(u)
  BY <1>1, <1>3, <1>4, <1>5 DEF BlocksPartitioned
<1>8. QED
  BY <1>1, <1>3, <1>4, <1>5, <1>6, <1>7 DEF SameInfo, u

\* The local variables of the instruction.
CallShape(c) ==
    /\ c \in [phase : {"idle", "prepare", "cpi", "record", "rollback"}, cancels : {c.cancels},
              blocks : Seq(Nat), orders : {c.orders}, forwarded : {c.forwarded},
              left : {c.left}, globals : {c.globals}, placed : {c.placed},
              records : {c.records}, unfunded : {c.unfunded}, saved : {c.saved}]
    /\ c.forwarded \in Seq(Range(c.forwarded))

Busy == {"prepare", "cpi", "record"}

\* The blocks of the orders that are being cancelled are those of open orders until
\* the core has answered; what a rollback restores is sound.
BlockInv ==
    /\ WrapperShape(wrapper) /\ BlocksPartitioned(wrapper)
    /\ CallShape(call)
    /\ call.phase \in Busy => BlocksHeld(call.blocks, wrapper)
    /\ call.phase # "idle" =>
        WrapperShape(call.saved.wrapper) /\ BlocksPartitioned(call.saved.wrapper)

LEMMA NoCallShape == CallShape(NoCall) /\ NoCall.phase = "idle"
<1> DEFINE c == NoCall
<1>1. c \in [phase : {"idle", "prepare", "cpi", "record", "rollback"}, cancels : {c.cancels},
             blocks : Seq(Nat), orders : {c.orders}, forwarded : {<<>>},
             left : {c.left}, globals : {c.globals}, placed : {c.placed},
             records : {c.records}, unfunded : {c.unfunded}, saved : {c.saved}]
      /\ c.phase = "idle"
  BY DEF NoCall
<1> HIDE DEF c
<1>2. <<>> \in Seq(Range(<<>>))
  OBVIOUS
<1>3. c.forwarded = <<>>
  BY <1>1
<1>4. QED
  BY <1>1, <1>2, <1>3 DEF CallShape, c

LEMMA BlockInit == ASSUME OpenInit PROVE BlockInv
<1>1. wrapper = NoWrapper /\ call = NoCall
  BY DEF OpenInit
<1>2. QED
  BY <1>1, NoWrapperSound, NoCallShape DEF BlockInv, Busy

\* The instruction goes on without touching the account.
LEMMA CallMoves ==
    ASSUME BlockInv, wrapper' = wrapper, CallShape(call'),
           call'.blocks = call.blocks, call'.saved = call.saved,
           call'.phase \in Busy => call.phase \in Busy,
           call'.phase # "idle" => call.phase # "idle"
    PROVE  BlockInv'
BY DEF BlockInv, Busy

\* The instruction has ended.
LEMMA CallEnds ==
    ASSUME WrapperShape(wrapper'), BlocksPartitioned(wrapper'), call' = NoCall
    PROVE  BlockInv'
BY NoCallShape DEF BlockInv, Busy

LEMMA BlockCreate == ASSUME BlockInv, CreateWrapper PROVE BlockInv'
<1> DEFINE u == EnsureFreeSlots(NoWrapper, 1)
<1>1. wrapper' = u /\ call' = call /\ call = NoCall
  BY DEF CreateWrapper, Ready
<1>2. WrapperShape(u) /\ BlocksPartitioned(u)
  <2>1. 1 \in Nat
    OBVIOUS
  <2>2. QED
    BY <2>1, NoWrapperSound, EnsureFreeSlotsSound
<1> HIDE DEF u
<1>3. QED
  BY <1>1, <1>2, CallEnds

\* What a repeated ClaimSeat does to the account of the wrapper.
LEMMA ClaimedWrapper ==
    ASSUME BlockInv, WrapperClaimSeat
    PROVE  /\ WrapperShape(wrapper') /\ BlocksPartitioned(wrapper')
           /\ wrapper'.orders \in {wrapper.orders, <<>>} /\ wrapper'.info # NIL
           /\ wrapper'.seat = IF wrapper.info # NIL THEN wrapper.seat
                              ELSE GetTraderIndex(SeatedMarket(accounts.m, Owner), Owner)
<1> DEFINE w == EnsureFreeSlots(wrapper, 1)
           seat == GetTraderIndex(SeatedMarket(accounts.m, Owner), Owner)
           u == InfoAdded([w EXCEPT !.free = Tail(@)], Head(w.free), seat)
<1>1. /\ WrapperShape(w) /\ BlocksPartitioned(w) /\ Len(w.free) >= 1
      /\ w.info = wrapper.info /\ w.seat = wrapper.seat /\ w.orders = wrapper.orders
  <2>1. 1 \in Nat /\ WrapperShape(wrapper) /\ BlocksPartitioned(wrapper)
    BY DEF BlockInv
  <2>2. QED
    BY <2>1, EnsureFreeSlotsSound
<1>2. wrapper' = u
  BY DEF WrapperClaimSeat
<1> HIDE DEF w, seat
<1>3. /\ WrapperShape(u) /\ BlocksPartitioned(u)
      /\ u.orders \in {w.orders, <<>>} /\ u.info # NIL
      /\ u.seat = IF w.info # NIL THEN w.seat ELSE seat
  BY <1>1, InfoTaken
<1>4. QED
  BY <1>1, <1>2, <1>3 DEF seat

LEMMA BlockClaim == ASSUME BlockInv, WrapperClaimSeat PROVE BlockInv'
<1>1. call' = call /\ call = NoCall
  BY DEF WrapperClaimSeat, Ready
<1>2. QED
  BY <1>1, ClaimedWrapper, CallEnds

LEMMA BlockSynced == ASSUME BlockInv, Synced(FALSE), call = NoCall, call' = call PROVE BlockInv'
<1> DEFINE m == accounts'.m
           u == SyncFast(wrapper, m, FALSE, NoMatcher)
<1>1. wrapper' = u
  BY DEF Synced
<1> HIDE DEF m
<1>2. WrapperShape(u) /\ BlocksPartitioned(u)
  BY SyncFastSound DEF BlockInv
<1> HIDE DEF u
<1>3. QED
  BY <1>1, <1>2, CallEnds
\* The entries that a batch update cancels, after its sync.
MatchedEntries(w, batch) == Filter(w.orders, LAMBDA o : IsMatched(batch, o))

LEMMA MatchedPicked ==
    ASSUME NEW w, WrapperShape(w), BlocksPartitioned(w), NEW batch
    PROVE  LET P == {k \in DOMAIN w.orders : IsMatched(batch, w.orders[k])}
           IN  OrdersPicked(MatchedEntries(w, batch), P, w)
<1> DEFINE P == {k \in DOMAIN w.orders : IsMatched(batch, w.orders[k])}
<1>1. MatchedEntries(w, batch) = ElementsAt(w.orders, P)
  BY DEF MatchedEntries, Filter
<1>2. P \subseteq DOMAIN w.orders
  OBVIOUS
<1> HIDE DEF P
<1>3. OrdersPicked(MatchedEntries(w, batch), P, w)
  BY <1>1, <1>2, PickedBlocks
<1>4. QED
  BY <1>3 DEF P

LEMMA BlockBatch ==
    ASSUME BlockInv, NEW batch, NEW globals, WrapperBatchUpdate(batch, globals)
    PROVE  BlockInv'
<1> DEFINE m == accounts.m
           w == SyncFast(wrapper, m, FALSE, batch)
           matched == MatchedEntries(w, batch)
           saved == [accounts |-> accounts, wrapper |-> wrapper, outside |-> outside]
           d == call'
<1>1. wrapper' = w /\ WrapperShape(wrapper) /\ BlocksPartitioned(wrapper)
  BY DEF WrapperBatchUpdate, BlockInv
<1>2. WrapperShape(w) /\ BlocksPartitioned(w)
  <2> HIDE DEF m
  <2>1. QED
    BY <1>1, SyncFastSound
<1>3. /\ d \in [phase : {"prepare"}, cancels : {d.cancels}, blocks : {BlocksOf(matched)},
                orders : {d.orders}, forwarded : {<<>>}, left : {d.left},
                globals : {d.globals}, placed : {d.placed}, records : {d.records},
                unfunded : {d.unfunded}, saved : {saved}]
  <2>1. \E cancels, left, unfunded :
            d = [NoCall EXCEPT !.phase = "prepare", !.cancels = cancels,
                               !.blocks = BlocksOf(matched), !.orders = batch.orders,
                               !.left = left, !.globals = globals, !.unfunded = unfunded,
                               !.saved = saved]
    BY DEF WrapperBatchUpdate, MatchedEntries
  <2> HIDE DEF d, saved, matched
  <2>2. QED
    BY <2>1 DEF NoCall
<1> HIDE DEF d, w, matched
<1>4. BlocksHeld(BlocksOf(matched), w)
  BY <1>2, MatchedPicked DEF matched, OrdersPicked
<1>5. saved.wrapper = wrapper
  OBVIOUS
<1> HIDE DEF saved
<1>6. CallShape(d)
  <2>1. <<>> \in Seq(Range(<<>>))
    OBVIOUS
  <2>2. BlocksOf(matched) \in Seq(Nat)
    BY <1>4 DEF BlocksHeld
  <2>3. d.forwarded = <<>>
    BY <1>3
  <2>4. QED
    BY <1>3, <2>1, <2>2, <2>3 DEF CallShape
<1>7. d.blocks = BlocksOf(matched) /\ d.saved.wrapper = wrapper
  BY <1>3, <1>5
<1>8. QED
  BY <1>1, <1>2, <1>4, <1>6, <1>7 DEF BlockInv, d

LEMMA AppendOwn ==
    ASSUME NEW s, s \in Seq(Range(s)), NEW x
    PROVE  Append(s, x) \in Seq(Range(Append(s, x)))
<1> DEFINE a == Append(s, x)
           n == Len(s)
<1>1. n \in Nat
  OBVIOUS
<1>2. DOMAIN a = 1 .. (n + 1) /\ a = [k \in 1 .. (n + 1) |-> a[k]]
  <2>1. Len(a) = n + 1 /\ a \in Seq(Range(s) \cup {x})
    <3>1. s \in Seq(Range(s) \cup {x})
      OBVIOUS
    <3>2. QED
      BY <3>1, AppendProperties
  <2> HIDE DEF a
  <2>2. QED
    BY <2>1
<1> HIDE DEF a, n
<1>3. n + 1 \in Nat
  BY <1>1
<1>4. a \in Seq(Range(a))
  BY <1>2, <1>3, OwnSequence
<1>5. QED
  BY <1>4 DEF a

LEMMA BlockPrepare == ASSUME BlockInv, DropOrder \/ ForwardOrder PROVE BlockInv'
<1> DEFINE c == call
           d == call'
<1>1. wrapper' = wrapper /\ c.phase = "prepare"
  BY DEF DropOrder, ForwardOrder, Preparing
<1>2. /\ c \in [phase : {c.phase}, cancels : {c.cancels},
                blocks : Seq(Nat), orders : {c.orders}, forwarded : {c.forwarded},
                left : {c.left}, globals : {c.globals}, placed : {c.placed},
                records : {c.records}, unfunded : {c.unfunded}, saved : {c.saved}]
      /\ c.forwarded \in Seq(Range(c.forwarded))
  BY DEF BlockInv, CallShape
<1>3. \E orders, forwarded, left :
        /\ d = [c EXCEPT !.orders = orders, !.forwarded = forwarded, !.left = left]
        /\ forwarded \in Seq(Range(forwarded))
  <2>1. CASE DropOrder
    <3>1. d = [c EXCEPT !.orders = Tail(@)]
      BY <2>1 DEF DropOrder
    <3> HIDE DEF c, d
    <3>2. d = [c EXCEPT !.orders = Tail(c.orders), !.forwarded = c.forwarded, !.left = c.left]
      BY <1>2, <3>1
    <3>3. QED
      BY <1>2, <3>2
  <2>2. CASE ForwardOrder
    <3> DEFINE x == [id |-> Head(call.orders).id,
                     args |-> [NextArgs EXCEPT !.last_valid = Expiration(NextArgs)]]
               f == Append(c.forwarded, x)
               left == [c.left EXCEPT ![Backing(NextArgs.is_bid)] = @ - Desired(NextArgs)]
    <3>1. d = [c EXCEPT !.orders = Tail(@),
                        !.left[Backing(NextArgs.is_bid)] = @ - Desired(NextArgs),
                        !.forwarded = Append(@, x)]
      BY <2>2 DEF ForwardOrder
    <3> HIDE DEF x
    <3>2. f \in Seq(Range(f))
      BY <1>2, AppendOwn
    <3> HIDE DEF c, d
    <3>3. d = [c EXCEPT !.orders = Tail(c.orders), !.forwarded = f, !.left = left]
      BY <1>2, <3>1
    <3>4. QED
      BY <3>2, <3>3
  <2>3. QED
    BY <2>1, <2>2
<1> HIDE DEF c, d
<1>4. PICK orders, forwarded, left :
        /\ d = [c EXCEPT !.orders = orders, !.forwarded = forwarded, !.left = left]
        /\ forwarded \in Seq(Range(forwarded))
  BY <1>3
<1>5. /\ d \in [phase : {"prepare"}, cancels : {c.cancels}, blocks : Seq(Nat), orders : {orders},
                forwarded : {forwarded}, left : {left}, globals : {c.globals},
                placed : {c.placed}, records : {c.records}, unfunded : {c.unfunded},
                saved : {c.saved}]
      /\ d.blocks = c.blocks
  BY <1>1, <1>2, <1>4 DEF c
<1>6. CallShape(d) /\ d.saved = c.saved /\ d.phase = "prepare"
  BY <1>4, <1>5 DEF CallShape
<1>7. QED
  BY <1>1, <1>5, <1>6, CallMoves DEF c, d, Busy

\* The phase, the records and whether an order was placed are all that a call of the
\* core changes.
LEMMA CallSteps ==
    ASSUME BlockInv, wrapper' = wrapper, call.phase \in Busy,
           NEW phase \in {"prepare", "cpi", "record", "rollback"}, NEW placed, NEW records,
           call' = [call EXCEPT !.phase = phase, !.placed = placed, !.records = records]
    PROVE  /\ BlockInv' /\ call'.phase = phase /\ call'.records = records
           /\ call'.forwarded = call.forwarded /\ call'.saved = call.saved
           /\ call'.blocks = call.blocks /\ call'.orders = call.orders
           /\ call'.cancels = call.cancels /\ call'.globals = call.globals
<1> DEFINE c == call
           d == call'
<1>1. /\ c \in [phase : {c.phase}, cancels : {c.cancels},
                blocks : Seq(Nat), orders : {c.orders}, forwarded : {c.forwarded},
                left : {c.left}, globals : {c.globals}, placed : {c.placed},
                records : {c.records}, unfunded : {c.unfunded}, saved : {c.saved}]
      /\ c.forwarded \in Seq(Range(c.forwarded))
  BY DEF BlockInv, CallShape
<1>2. d = [c EXCEPT !.phase = phase, !.placed = placed, !.records = records]
  OBVIOUS
<1> HIDE DEF c, d
<1>3. /\ d \in [phase : {phase}, cancels : {c.cancels},
                blocks : Seq(Nat), orders : {c.orders}, forwarded : {c.forwarded},
                left : {c.left}, globals : {c.globals}, placed : {placed},
                records : {records}, unfunded : {c.unfunded}, saved : {c.saved}]
      /\ d.blocks = c.blocks
  BY <1>1, <1>2
<1>4. /\ d.phase = phase /\ d.records = records /\ d.forwarded = c.forwarded
      /\ d.saved = c.saved /\ d.orders = c.orders /\ d.cancels = c.cancels
      /\ d.globals = c.globals
  BY <1>3
<1>5. CallShape(d)
  BY <1>1, <1>3, <1>4 DEF CallShape
<1>6. BlockInv'
  BY <1>3, <1>4, <1>5, CallMoves DEF c, d, Busy
<1>7. QED
  BY <1>3, <1>4, <1>6 DEF c, d
LEMMA CallFields ==
    ASSUME CallShape(call), NEW phase, NEW placed, NEW records
    PROVE  LET d == [call EXCEPT !.phase = phase, !.placed = placed, !.records = records]
           IN  /\ [call EXCEPT !.phase = phase]
                    = [call EXCEPT !.phase = phase, !.placed = call.placed, !.records = call.records]
               /\ [call EXCEPT !.records = records]
                    = [call EXCEPT !.phase = call.phase, !.placed = call.placed, !.records = records]
               /\ [[call EXCEPT !.placed = placed] EXCEPT !.phase = phase, !.records = records] = d
BY DEF CallShape

\* A step of the core changes no more than the phase and the records of the caller.
LEMMA CoreSteps_Call ==
    ASSUME BlockInv, CoreSteps
    PROVE  /\ wrapper' = wrapper
           /\ \/ call' = call
              \/ Calling /\ \E phase \in {"cpi", "record", "rollback"} : \E records :
                    call' = [call EXCEPT !.phase = phase, !.placed = call.placed,
                                         !.records = records]
<1>1. wrapper' = wrapper
  BY DEF CoreSteps
<1>2. CallShape(call) /\ (Calling => call.phase = "cpi")
  BY DEF BlockInv, Calling
<1>3. CASE CoreGoesOn
  BY <1>1, <1>3 DEF CoreGoesOn
<1>4. CASE Fill /\ UNCHANGED <<call, wrapper, outside>>
  BY <1>1, <1>4
<1>5. CASE CorePlaced
  <2>1. CASE Calling
    <3>1. call' = [call EXCEPT !.records = Append(@, CoreRecord)]
      BY <1>5, <2>1 DEF CorePlaced
    <3> DEFINE records == Append(call.records, CoreRecord)
    <3>2. call' = [call EXCEPT !.records = records]
      BY <1>2, <3>1 DEF CallShape
    <3> HIDE DEF records
    <3>3. call' = [call EXCEPT !.phase = "cpi", !.placed = call.placed, !.records = records]
      BY <1>2, <2>1, <3>2, CallFields
    <3>4. QED
      BY <1>1, <2>1, <3>3
  <2>2. CASE ~ Calling
    BY <1>1, <1>5, <2>2 DEF CorePlaced
  <2>3. QED
    BY <2>1, <2>2
<1>6. CASE CoreFails
  <2>1. CASE Calling
    <3>1. call' = [call EXCEPT !.phase = "rollback"]
      BY <1>6, <2>1 DEF CoreFails
    <3>2. QED
      BY <1>1, <1>2, <2>1, <3>1, CallFields
  <2>2. CASE ~ Calling
    BY <1>1, <1>6, <2>2 DEF CoreFails
  <2>3. QED
    BY <2>1, <2>2
<1>7. CASE CoreReturns
  <2>1. CASE Calling
    <3>1. call' = [call EXCEPT !.phase = "record"]
      BY <1>7, <2>1 DEF CoreReturns
    <3>2. QED
      BY <1>1, <1>2, <2>1, <3>1, CallFields
  <2>2. CASE ~ Calling
    BY <1>1, <1>7, <2>2 DEF CoreReturns
  <2>3. QED
    BY <2>1, <2>2
<1>8. QED
  BY <1>3, <1>4, <1>5, <1>6, <1>7 DEF CoreSteps

LEMMA BlockStays == ASSUME BlockInv, wrapper' = wrapper, call' = call PROVE BlockInv'
BY DEF BlockInv

LEMMA BlockCore == ASSUME BlockInv, CoreSteps PROVE BlockInv'
<1>1. wrapper' = wrapper
  BY CoreSteps_Call
<1>2. CASE call' = call
  BY <1>1, <1>2, BlockStays
<1>3. CASE Calling /\ \E phase \in {"cpi", "record", "rollback"} : \E records :
                call' = [call EXCEPT !.phase = phase, !.placed = call.placed,
                                     !.records = records]
  <2>1. call.phase \in Busy
    BY <1>3 DEF Calling, Busy
  <2>2. PICK phase \in {"cpi", "record", "rollback"} : \E records :
            call' = [call EXCEPT !.phase = phase, !.placed = call.placed, !.records = records]
    BY <1>3
  <2> PICK records :
            call' = [call EXCEPT !.phase = phase, !.placed = call.placed, !.records = records]
    BY <2>2
  <2>3. QED
    BY <1>1, <2>1, <2>2, CallSteps
<1>4. QED
  BY <1>2, <1>3, CoreSteps_Call

\* The call of the core.
LEMMA BlockExecute ==
    ASSUME BlockInv, ExecuteCpi
    PROVE  /\ BlockInv' /\ call'.phase = "cpi" /\ call'.records = <<>>
           /\ call'.forwarded = call.forwarded /\ call'.saved = call.saved
           /\ call'.blocks = call.blocks
<1> DEFINE placed == call.placed \/ call.forwarded # <<>>
<1>1. wrapper' = wrapper /\ call.phase \in Busy
  BY DEF ExecuteCpi, Preparing, Busy
<1>2. call' = [[call EXCEPT !.placed = placed] EXCEPT !.phase = "cpi", !.records = <<>>]
  <2>1. call' = [[call EXCEPT !.placed = @ \/ call.forwarded # <<>>] EXCEPT
                        !.phase = "cpi", !.records = <<>>]
    BY DEF ExecuteCpi, CallCore
  <2>2. QED
    BY <2>1 DEF BlockInv, CallShape
<1> HIDE DEF placed
<1>3. call' = [call EXCEPT !.phase = "cpi", !.placed = placed, !.records = <<>>]
  BY <1>2, CallFields DEF BlockInv
<1>4. QED
  BY <1>1, <1>3, CallSteps

\* process_cancels and process_orders, one after the other.
LEMMA ResultProcessed ==
    ASSUME BlockInv, call.phase = "record"
    PROVE  LET v == CancelsProcessed(wrapper)
               u == OrdersProcessed(v)
           IN  /\ WrapperShape(v) /\ BlocksPartitioned(v) /\ SameInfo(wrapper, v)
               /\ Thinned(v.orders, wrapper.orders)
               /\ WrapperShape(u) /\ BlocksPartitioned(u) /\ u.info = wrapper.info
               /\ u.twins = wrapper.twins
               /\ u.lost = wrapper.lost /\ u.seat = wrapper.seat /\ OrdersAdded(u, v)
<1> DEFINE v == CancelsProcessed(wrapper)
           u == OrdersProcessed(v)
<1>1. /\ WrapperShape(wrapper) /\ BlocksPartitioned(wrapper)
      /\ BlocksHeld(call.blocks, wrapper) /\ call.forwarded \in Seq(Range(call.forwarded))
  BY DEF BlockInv, Busy, CallShape
<1>2. /\ WrapperShape(v) /\ BlocksPartitioned(v) /\ SameInfo(wrapper, v)
      /\ Thinned(v.orders, wrapper.orders)
  BY <1>1, CancelsProcessedSound
<1> HIDE DEF v
<1>3. /\ WrapperShape(u) /\ BlocksPartitioned(u)
      /\ u.info = v.info /\ u.twins = v.twins /\ u.lost = v.lost /\ u.seat = v.seat
      /\ OrdersAdded(u, v)
  BY <1>1, <1>2, OrdersProcessedSound
<1> HIDE DEF u
<1>4. QED
  BY <1>2, <1>3 DEF SameInfo, u, v

LEMMA BlockEnd ==
    ASSUME NEW w, WrapperShape(w), BlocksPartitioned(w), EndBatch(w)
    PROVE  BlockInv'
<1> DEFINE m == accounts.m
           exact == ~ call.placed
           u == SyncFast(w, m, exact, NoMatcher)
<1>1. wrapper' = u /\ call' = NoCall
  BY DEF EndBatch
<1> HIDE DEF m, exact
<1>2. WrapperShape(u) /\ BlocksPartitioned(u)
  BY SyncFastSound
<1> HIDE DEF u
<1>3. QED
  BY <1>1, <1>2, CallEnds

LEMMA BlockResult == ASSUME BlockInv, ProcessResult PROVE BlockInv'
<1> DEFINE v == CancelsProcessed(wrapper)
           u == OrdersProcessed(v)
<1>1. call.phase = "record"
  BY DEF ProcessResult
<1>2. WrapperShape(u) /\ BlocksPartitioned(u)
  BY <1>1, ResultProcessed
<1>3. \/ EndBatch(u)
      \/ wrapper' = u /\ call' = [call EXCEPT !.phase = "prepare", !.cancels = <<>>, !.blocks = <<>>,
                                              !.forwarded = <<>>, !.records = <<>>,
                                              !.left = accounts.m.data[wrapper.seat].bal]
  BY DEF ProcessResult
<1> HIDE DEF v, u
<1>4. CASE EndBatch(u)
  BY <1>2, <1>4, BlockEnd
<1>5. CASE wrapper' = u /\ call' = [call EXCEPT !.phase = "prepare", !.cancels = <<>>, !.blocks = <<>>,
                                                !.forwarded = <<>>, !.records = <<>>,
                                                !.left = accounts.m.data[wrapper.seat].bal]
  <2> DEFINE c == call
             d == call'
             left == accounts.m.data[wrapper.seat].bal
  <2>1. /\ c \in [phase : {c.phase}, cancels : {c.cancels},
                  blocks : Seq(Nat), orders : {c.orders}, forwarded : {c.forwarded},
                  left : {c.left}, globals : {c.globals}, placed : {c.placed},
                  records : {c.records}, unfunded : {c.unfunded}, saved : {c.saved}]
    BY DEF BlockInv, CallShape
  <2>2. d = [c EXCEPT !.phase = "prepare", !.cancels = <<>>, !.blocks = <<>>,
                      !.forwarded = <<>>, !.records = <<>>, !.left = left]
    BY <1>5
  <2> HIDE DEF c, d, left
  <2>3. d \in [phase : {"prepare"}, cancels : {<<>>}, blocks : {<<>>}, orders : {c.orders},
               forwarded : {<<>>}, left : {left}, globals : {c.globals}, placed : {c.placed},
               records : {<<>>}, unfunded : {c.unfunded}, saved : {c.saved}]
    BY <2>1, <2>2
  <2>4. <<>> \in Seq(Range(<<>>)) /\ <<>> \in Seq(Nat)
    OBVIOUS
  <2>5. d.blocks = <<>> /\ d.forwarded = <<>> /\ d.phase = "prepare" /\ d.saved = c.saved
    BY <2>3
  <2>6. CallShape(d)
    BY <2>3, <2>4, <2>5 DEF CallShape
  <2>7. BlocksHeld(<<>>, u)
    <3>1. DOMAIN <<>> = {}
      OBVIOUS
    <3>2. QED
      BY <2>4, <3>1 DEF BlocksHeld, IsInjective, Range
  <2>8. WrapperShape(c.saved.wrapper) /\ BlocksPartitioned(c.saved.wrapper)
    BY <1>1 DEF BlockInv, c
  <2>9. QED
    BY <1>2, <1>5, <2>5, <2>6, <2>7, <2>8 DEF BlockInv, d
<1>6. QED
  BY <1>3, <1>4, <1>5

LEMMA BlockStep == ASSUME BlockInv, [OpenNext]_wvars PROVE BlockInv'
<1>1. CASE WrapperArrival
  <2>1. CASE CreateWrapper
    BY <2>1, BlockCreate
  <2>2. CASE WrapperClaimSeat
    BY <2>2, BlockClaim
  <2>3. CASE \E token \in Tokens, atoms \in Amounts :
                WrapperDeposit(token, atoms) \/ WrapperWithdraw(token, atoms)
    <3>1. Synced(FALSE) /\ call = NoCall /\ call' = call
      BY <2>3 DEF WrapperDeposit, WrapperWithdraw, Ready
    <3>2. QED
      BY <3>1, BlockSynced
  <2>4. CASE \E batch \in WrapperBatches, globals \in GlobalsPassed :
                WrapperBatchUpdate(batch, globals)
    BY <2>4, BlockBatch
  <2>5. QED
    BY <1>1, <2>1, <2>2, <2>3, <2>4 DEF WrapperArrival
<1>2. CASE DirectArrival \/ DirectClean \/ SetupArrival \/ SwapSteps
  <2>1. wrapper' = wrapper /\ call' = call
    BY <1>2 DEF DirectArrival, DirectClean, SetupArrival, SwapSteps
  <2>2. QED
    BY <2>1, BlockStays
<1>3. CASE DropOrder \/ ForwardOrder
  BY <1>3, BlockPrepare
<1>4. CASE ExecuteCpi
  BY <1>4, BlockExecute
<1>5. CASE ProcessResult
  BY <1>5, BlockResult
<1>6. CASE SkipCall
  BY <1>6, BlockEnd DEF SkipCall, BlockInv
<1>7. CASE RollBack
  BY <1>7, CallEnds DEF RollBack, BlockInv
<1>8. CASE CoreSteps
  BY <1>8, BlockCore
<1>9. CASE UNCHANGED wvars
  BY <1>9, BlockStays DEF wvars
<1>10. QED
  BY <1>1, <1>2, <1>3, <1>4, <1>5, <1>6, <1>7, <1>8, <1>9
     DEF OpenNext, WrapperNext, WrapperProgress, WrapperSteps

\* No block of the wrapper is lost or handed out twice, whatever is synced, cancelled,
\* placed or rolled back (WrapperBlocksSound): open orders and market infos keep theirs,
\* and unlinking, expanding and process_orders move each block from one place to another.
THEOREM WrapperBlocksNeverLeak == OpenSpec => []WrapperBlocksSound
<1>1. OpenInit => BlockInv
  BY BlockInit
<1>2. BlockInv /\ [OpenNext]_wvars => BlockInv'
  BY BlockStep
<1>3. BlockInv => WrapperBlocksSound
  <2> SUFFICES ASSUME BlockInv PROVE WrapperBlocksSound
    OBVIOUS
  <2>1. WrapperShape(wrapper) /\ BlocksPartitioned(wrapper)
    BY DEF BlockInv
  <2> DEFINE free == {wrapper.free[k] : k \in DOMAIN wrapper.free}
             entries == {o.block : o \in WrapperEntries}
             lost == {o.block : o \in LostEntries}
             all == {o.block : o \in WrapperEntries \cup LostEntries}
  <2>2. NodesOf(wrapper) = InfoNodes
    BY DEF NodesOf, InfoNodes, HasInfo
  <2>3. Len(wrapper.free) + Len(wrapper.orders) + Cardinality(InfoOf(wrapper)) = wrapper.num
    BY <2>1, BlocksCounted
  <2>4. free = Range(wrapper.free)
    BY DEF Range
  <2>5. entries = Range(BlocksOf(wrapper.orders)) /\ lost = Range(BlocksOf(wrapper.lost))
    BY BlocksRange DEF WrapperEntries, LostEntries
  <2>6. all = entries \cup lost
    OBVIOUS
  <2>7. LostSound(wrapper) /\ InfoOf(wrapper) = InfoNodes \cup lost
    BY <2>1, <2>2, <2>5 DEF BlocksPartitioned, InfoOf
  <2> HIDE DEF free, entries, lost, all
  <2>8. free \cup all \cup InfoNodes = 0 .. (wrapper.num - 1)
    BY <2>1, <2>4, <2>5, <2>6, <2>7 DEF BlocksPartitioned
  <2>9. Len(wrapper.free) + Len(wrapper.orders) + Len(wrapper.lost) + Cardinality(InfoNodes)
            = wrapper.num
    <3>1. BlocksOf(wrapper.lost) \in Seq(Nat) /\ Len(BlocksOf(wrapper.lost)) = Len(wrapper.lost)
      BY <2>7, EntriesTyped DEF LostSound
    <3>2. IsFiniteSet(lost) /\ Cardinality(lost) = Len(wrapper.lost)
      BY <2>5, <2>7, <3>1, RangeCounted DEF LostSound
    <3>3. IsFiniteSet(InfoNodes) /\ IsFiniteSet(InfoNodes \cup lost)
      <4>1. wrapper.num \in Nat
        BY <2>1 DEF WrapperShape
      <4>2. IsFiniteSet(0 .. (wrapper.num - 1))
        BY <4>1, FS_Interval
      <4>3. InfoNodes \in SUBSET (0 .. (wrapper.num - 1))
        BY <2>8
      <4>4. IsFiniteSet(InfoNodes)
        BY <4>2, <4>3, FS_Subset
      <4>5. QED
        BY <3>2, <4>4, FS_Union
    <3>4. InfoNodes \cap lost = {}
      BY <2>2, <2>5, <2>7 DEF LostSound
    <3>5. Cardinality(InfoNodes \cup lost) = Cardinality(InfoNodes) + Cardinality(lost)
      <4>1. Cardinality(InfoNodes \cup lost)
                = Cardinality(InfoNodes) + Cardinality(lost) - Cardinality(InfoNodes \cap lost)
        BY <3>2, <3>3, FS_Union
      <4>2. Cardinality(InfoNodes \cap lost) = 0
        BY <3>4, FS_EmptySet
      <4>3. Cardinality(InfoNodes) \in Nat /\ Cardinality(lost) \in Nat
        BY <3>2, <3>3, FS_CardinalityType
      <4>4. QED
        BY <4>1, <4>2, <4>3
    <3>6. /\ Len(wrapper.free) \in Nat /\ Len(wrapper.orders) \in Nat
          /\ Cardinality(InfoNodes) \in Nat /\ Cardinality(lost) \in Nat
      <4>1. wrapper.free \in Seq(Nat) /\ wrapper.orders \in Seq(Range(wrapper.orders))
        BY <2>1 DEF WrapperShape
      <4>2. QED
        BY <3>2, <3>3, <4>1, FS_CardinalityType
    <3>7. Cardinality(InfoOf(wrapper)) = Cardinality(InfoNodes) + Len(wrapper.lost)
      BY <2>7, <3>2, <3>5
    <3>8. Len(wrapper.lost) \in Nat
      BY <3>2, <3>6
    <3> DEFINE f == Len(wrapper.free)
               o == Len(wrapper.orders)
               l == Len(wrapper.lost)
               i == Cardinality(InfoNodes)
               c == Cardinality(InfoOf(wrapper))
    <3>9. f \in Nat /\ o \in Nat /\ l \in Nat /\ i \in Nat /\ c = i + l /\ f + o + c = wrapper.num
      BY <2>3, <3>6, <3>7, <3>8
    <3> HIDE DEF f, o, l, i, c
    <3>10. f + o + l + i = wrapper.num
      BY <3>9
    <3>11. QED
      BY <3>10 DEF f, o, l, i
  <2>10. QED
    BY <2>8, <2>9 DEF WrapperBlocksSound, free, all
<1>4. QED
  BY <1>1, <1>2, <1>3, PTL DEF OpenSpec

=============================================================================
