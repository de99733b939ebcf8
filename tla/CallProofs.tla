----------------------------- MODULE CallProofs -----------------------------
(***************************************************************************)
(* A wrapper in the middle of its batch: the market it reads, the calls it *)
(* makes and what it believes between them, for any number of traders,     *)
(* blocks, prices, batches and amounts.                                    *)
(*                                                                         *)
(* OpenInv is inductive under OpenSpec: the invariants of the core, the    *)
(* blocks of the wrapper account, and CallInv, by which the arguments of a *)
(* call are such as the core may be given.  KeptInv is about time: a       *)
(* number that was given out never names another order.  OwnInv follows    *)
(* the numbers that the wrapper keeps: entries, cancels and the records of *)
(* placed orders name orders of the owner, no two of them the same one.    *)
(***************************************************************************)
EXTENDS WrapperProofs

-----------------------------------------------------------------------------
(* The batch update of the core, seen from its caller.                     *)

\* Orders of a batch that have no record yet.
Unplaced(c) == Len(c.orders) + (IF c.phase \in MatchingPhases THEN 1 ELSE 0)

\* The batch goes on, with as many orders to place.
SameBatch(c, d) ==
    /\ d.phase # "idle" /\ d.kind = c.kind /\ d.seat = c.seat
    /\ Unplaced(d) = Unplaced(c)

LEMMA BatchGoesOn ==
    ASSUME IInv, CoreGoesOn \/ Fill
    PROVE  SameBatch(ctx, ctx') /\ accounts' = accounts /\ ctx.phase # "idle"
<1> DEFINE c == ctx
           d == ctx'
<1>1. c.phase \in {"cancel", "next", "match", "reverse"}
  BY DEF CoreGoesOn, CancelOrder, PrepayGas, BeginOrder, CleanStaleMaker, CleanUnbackedMaker,
         IsMaker, PlaceReverse, StopMatching, Fill
<1>2. c \in Contexts
  BY <1>1, BusySound DEF WorkSound
<1>3. CASE \/ CancelOrder
           \/ CleanStaleMaker \/ CleanUnbackedMaker
  <2>1. \E cancels, refunds : d = [c EXCEPT !.cancels = cancels, !.refunds = refunds]
    <3>1. CASE CancelOrder
        <4>1. \E refunds : d = [c EXCEPT !.cancels = Tail(@), !.refunds = refunds]
            BY <3>1 DEF CancelOrder, Step
        <4>2. QED
            BY <4>1, <1>2 DEF Contexts
    <3>2. CASE CleanStaleMaker \/ CleanUnbackedMaker
        <4>1. \E refunds : d = [c EXCEPT !.refunds = refunds]
            BY <3>2 DEF CleanStaleMaker, CleanUnbackedMaker, CleanMaker, Step
        <4> HIDE DEF c, d
        <4>2. PICK refunds : d = [c EXCEPT !.refunds = refunds]
            BY <4>1
        <4>3. d = [c EXCEPT !.cancels = c.cancels, !.refunds = refunds]
            BY <4>2, <1>2 DEF Contexts
        <4>4. QED
            BY <4>3
    <3>3. QED
        BY <1>3, <3>1, <3>2
  <2>2. accounts' = accounts
    BY <1>3 DEF CancelOrder, CleanStaleMaker, CleanUnbackedMaker, CleanMaker, Step
  <2> HIDE DEF c, d
  <2>3. d.phase = c.phase /\ d.kind = c.kind /\ d.seat = c.seat /\ d.orders = c.orders
    BY <2>1, <1>2 DEF Contexts
  <2>4. QED
    BY <1>1, <2>2, <2>3 DEF SameBatch, Unplaced, c, d
<1>4. CASE PrepayGas \/ StopMatching
  <2>1. /\ accounts' = accounts
        /\ \/ c.phase = "cancel" /\ d = [c EXCEPT !.phase = "next"]
           \/ c.phase = "match" /\ d = [c EXCEPT !.phase = "settle"]
    BY <1>4 DEF PrepayGas, StopMatching, Step
  <2> HIDE DEF c, d
  <2>2. /\ d.kind = c.kind /\ d.seat = c.seat /\ d.orders = c.orders
        /\ \/ c.phase = "cancel" /\ d.phase = "next"
           \/ c.phase = "match" /\ d.phase = "settle"
    BY <2>1, <1>2 DEF Contexts
  <2>3. QED
    BY <1>1, <2>1, <2>2 DEF SameBatch, Unplaced, MatchingPhases, c, d
<1>5. CASE PlaceReverse
  <2>1. /\ accounts' = accounts /\ c.phase = "reverse"
        /\ d = [c EXCEPT !.phase = "match", !.reversal = NoReversal]
    BY <1>5 DEF PlaceReverse, Step
  <2> HIDE DEF c, d
  <2>2. d.kind = c.kind /\ d.seat = c.seat /\ d.orders = c.orders /\ d.phase = "match"
    BY <2>1, <1>2 DEF Contexts
  <2>3. QED
    BY <1>1, <2>1, <2>2 DEF SameBatch, Unplaced, MatchingPhases, c, d
<1>6. CASE BeginOrder
  <2>1. /\ accounts' = accounts /\ c.phase = "next" /\ c.orders # <<>>
        /\ \E args, seq, remaining :
            d = [c EXCEPT !.phase = "match", !.orders = Tail(@), !.args = args,
                          !.seq = seq, !.remaining = remaining, !.pending = 0,
                          !.traded = NoTokens]
    BY <1>6 DEF BeginOrder, Step
  <2> HIDE DEF c, d
  <2>2. /\ d.kind = c.kind /\ d.seat = c.seat /\ d.orders = Tail(c.orders)
        /\ d.phase = "match" /\ c.orders \in Seq(OrderArgs)
    BY <2>1, <1>2 DEF Contexts
  <2>3. Len(c.orders) = Len(Tail(c.orders)) + 1 /\ Len(c.orders) \in Nat
    BY <2>1, <2>2
  <2>4. QED
    BY <2>1, <2>2, <2>3 DEF SameBatch, Unplaced, MatchingPhases, c, d
<1>7. CASE Fill
  <2>1. /\ accounts' = accounts /\ c.phase = "match"
        /\ d.kind = c.kind /\ d.seat = c.seat /\ d.orders = c.orders
        /\ d.phase \in {"match", "reverse"}
    <3>1. accounts' = accounts /\ c.phase = "match"
      BY <1>7 DEF Fill, Step, IsMaker
    <3>2. ctx.phase = "match"
      BY <3>1
    <3>3. PICK i \in Index :
            LET order == work.m.data[i]
                trade == Trade(i)
                reverses == IsReversible(order.type) /\ HasReversePrice(order)
            IN  ctx' = [ctx EXCEPT
                        !.phase = IF reverses THEN "reverse" ELSE @,
                        !.remaining = IF trade.full THEN @ - trade.base ELSE 0,
                        !.pending = IF IsGlobalMaker(i) THEN @ + trade.got ELSE @,
                        !.refunds = IF trade.full THEN DeferredRefunds(order) ELSE @,
                        !.traded = [base |-> @["base"] + trade.base,
                                    quote |-> @["quote"] + trade.quote],
                        !.reversal = IF ~ reverses THEN @ ELSE
                                     [trader_index |-> order.trader_index,
                                      type |-> order.type, spread |-> order.spread,
                                      price |-> ReversePrice(order), base |-> trade.base,
                                      quote |-> trade.quote, full |-> trade.full]]
      BY <1>7 DEF Fill, Step
    <3> DEFINE order == work.m.data[i]
               trade == Trade(i)
               reverses == IsReversible(order.type) /\ HasReversePrice(order)
               phase == IF reverses THEN "reverse" ELSE c.phase
               remaining == IF trade.full THEN c.remaining - trade.base ELSE 0
               pending == IF IsGlobalMaker(i) THEN c.pending + trade.got ELSE c.pending
               refunds == IF trade.full THEN DeferredRefunds(order) ELSE c.refunds
               traded == [base |-> c.traded["base"] + trade.base,
                          quote |-> c.traded["quote"] + trade.quote]
               reversal == IF ~ reverses THEN c.reversal ELSE
                                     [trader_index |-> order.trader_index,
                                      type |-> order.type, spread |-> order.spread,
                                      price |-> ReversePrice(order), base |-> trade.base,
                                      quote |-> trade.quote, full |-> trade.full]
    <3>4. d = [c EXCEPT !.phase = phase, !.remaining = remaining, !.pending = pending,
                        !.refunds = refunds, !.traded = traded, !.reversal = reversal]
      BY <1>2, <3>3 DEF Contexts
    <3>5. phase \in {"match", "reverse"}
      BY <3>1
    <3> HIDE DEF c, d, phase, remaining, pending, refunds, traded, reversal
    <3>6. QED
      BY <1>2, <3>1, <3>4, <3>5 DEF Contexts
  <2>2. QED
    BY <2>1 DEF SameBatch, Unplaced, MatchingPhases, c, d
<1>8. QED
  BY <1>3, <1>4, <1>5, <1>6, <1>7 DEF CoreGoesOn

\* The number and the block that the core returns for an order.
Records == [seq : Nat, index : {NIL} \cup Index]

\* FinishOrder, and what it adds to the return data.
LEMMA BatchPlaces ==
    ASSUME IInv, FinishOrder
    PROVE  /\ ctx.phase = "settle" /\ accounts' = accounts
           /\ ctx'.phase = "next" /\ ctx'.kind = ctx.kind /\ ctx'.seat = ctx.seat
           /\ Unplaced(ctx) = Unplaced(ctx') + 1 /\ Unplaced(ctx') \in Nat
           /\ CoreRecord \in Records /\ CoreRecord.seq = ctx.seq
<1> DEFINE c == ctx
           d == ctx'
<1>1. /\ ctx.phase = "settle" /\ CanFinishOrder /\ ctx \in Contexts /\ MarketSound(work.m)
      /\ d = [c EXCEPT !.phase = "next", !.pending = 0, !.remaining = 0, !.seq = 0]
      /\ accounts' = accounts
  BY FinishOrderEffect
<1>2. CoreRecord \in Records /\ CoreRecord.seq = ctx.seq
  <2>1. ctx.seq \in Nat
    BY <1>1 DEF Contexts
  <2>2. ASSUME Rests PROVE Head(work.m.free) \in Index
    <3>1. work.m.free \in Seq(Index) /\ work.m.free # <<>>
      BY <1>1, <2>2 DEF CanFinishOrder, CanRestOn, HasFreeBlock, MarketSound, Markets
    <3>2. QED
      BY <3>1
  <2>3. QED
    BY <2>1, <2>2 DEF CoreRecord, Records
<1> HIDE DEF c, d
<1>3. /\ d.phase = "next" /\ d.kind = c.kind /\ d.seat = c.seat /\ d.orders = c.orders
      /\ c.orders \in Seq(OrderArgs)
  BY <1>1 DEF Contexts, c
<1>4. Len(c.orders) \in Nat
  BY <1>3
<1>5. QED
  BY <1>1, <1>2, <1>3, <1>4 DEF Unplaced, MatchingPhases, c, d

-----------------------------------------------------------------------------
(* What the wrapper knows of the core, and what it sends.                  *)

LEMMA SetListed ==
    ASSUME NEW S, IsFiniteSet(S)
    PROVE  SetToSeq(S) \in Seq(S) /\ IsInjective(SetToSeq(S))
<1> DEFINE n == Cardinality(S)
           Listed(f) == f \in [1 .. n -> S] /\ IsInjective(f)
<1>1. n \in Nat /\ ExistsBijection(1 .. n, S)
  BY FS_CardinalityType
<1>2. PICK f : f \in Bijection(1 .. n, S)
  BY <1>1 DEF ExistsBijection
<1>3. Listed(f)
  BY <1>2 DEF Bijection, Injection, IsInjective
<1>4. SetToSeq(S) = CHOOSE g \in [1 .. n -> S] : IsInjective(g)
  BY DEF SetToSeq
<1>5. Listed(SetToSeq(S))
  BY <1>3, <1>4
<1> HIDE DEF n
<1>6. QED
  BY <1>1, <1>5

\* The cancels of a batch update: those of the matched entries, then those of the
\* owner's orders in the book that no matched entry stands for.
EntryCancels(matched) ==
    [k \in DOMAIN matched |-> CoreCancel(matched[k].seq, matched[k].index)]

BookCancels(untracked, m) ==
    [k \in DOMAIN untracked |-> CoreCancel(m.data[untracked[k]].seq, untracked[k])]

IsUntracked(i, m, seat, matched) ==
    /\ i \in OrderIndices(m)
    /\ m.data[i].trader_index = seat
    /\ \A k \in DOMAIN matched : matched[k].seq # m.data[i].seq

LEMMA UntrackedListed ==
    ASSUME NEW m, NEW seat, NEW matched
    PROVE  LET u == UntrackedOrders(m, seat, matched)
           IN  /\ u \in Seq(OrderIndices(m)) /\ IsInjective(u)
               /\ \A k \in DOMAIN u : IsUntracked(u[k], m, seat, matched)
<1> DEFINE S == {i \in OrderIndices(m) :
                    /\ m.data[i].trader_index = seat
                    /\ \A k \in DOMAIN matched : matched[k].seq # m.data[i].seq}
           u == UntrackedOrders(m, seat, matched)
<1>1. u = SetToSeq(S)
  BY DEF UntrackedOrders
<1>2. S \subseteq OrderIndices(m) /\ \A i \in S : IsUntracked(i, m, seat, matched)
  BY DEF IsUntracked
<1>3. IsFiniteSet(S)
  <2>1. OrderIndices(m) \subseteq Index /\ IsFiniteSet(Index)
    BY IndexFinite DEF OrderIndices
  <2>2. QED
    BY <1>2, <2>1, FS_Subset
<1> HIDE DEF S, u
<1>4. u \in Seq(S) /\ IsInjective(u)
  BY <1>1, <1>3, SetListed
<1>5. \A k \in DOMAIN u : u[k] \in S
  BY <1>4
<1>6. u \in Seq(OrderIndices(m))
  BY <1>2, <1>4
<1>7. QED
  BY <1>2, <1>4, <1>5, <1>6 DEF u

\* The local variables that a batch update starts with.
BatchStarts(d, w, m, batch, globals, saved) ==
    /\ d.phase = "prepare" /\ d.blocks = BlocksOf(MatchedEntries(w, batch))
    /\ d.orders = batch.orders /\ d.forwarded = <<>> /\ d.globals = globals
    /\ d.records = <<>> /\ d.saved = saved
    /\ \E untracked \in Seq(OrderIndices(m)) :
        /\ IsInjective(untracked)
        /\ \A k \in DOMAIN untracked :
                IsUntracked(untracked[k], m, w.seat, MatchedEntries(w, batch))
        /\ d.cancels = EntryCancels(MatchedEntries(w, batch)) \o BookCancels(untracked, m)

LEMMA BatchStarted ==
    ASSUME NEW batch, NEW globals, WrapperBatchUpdate(batch, globals)
    PROVE  LET w == SyncFast(wrapper, accounts.m, FALSE, batch)
           IN  /\ wrapper' = w /\ ctx = Idle /\ call = NoCall /\ wrapper.info # NIL
               /\ UNCHANGED <<accounts, work, ctx, slot>>
               /\ BatchStarts(call', w, accounts.m, batch, globals,
                        [accounts |-> accounts, wrapper |-> wrapper, outside |-> outside])
<1> DEFINE m == accounts.m
           w == SyncFast(wrapper, m, FALSE, batch)
           matched == MatchedEntries(w, batch)
           untracked == IF batch.cancel_all THEN UntrackedOrders(m, w.seat, matched) ELSE <<>>
           cancels == EntryCancels(matched) \o BookCancels(untracked, m)
           saved == [accounts |-> accounts, wrapper |-> wrapper, outside |-> outside]
           d == call'
<1>1. /\ wrapper' = w /\ ctx = Idle /\ call = NoCall /\ wrapper.info # NIL
      /\ UNCHANGED <<accounts, work, ctx, slot>>
  BY DEF WrapperBatchUpdate, Ready, HasInfo
<1>2. \E left, unfunded :
        d = [NoCall EXCEPT !.phase = "prepare", !.cancels = cancels,
                           !.blocks = BlocksOf(matched), !.orders = batch.orders,
                           !.left = left, !.globals = globals, !.unfunded = unfunded,
                           !.saved = saved]
  BY DEF WrapperBatchUpdate, MatchedEntries, EntryCancels, BookCancels
<1>3. /\ untracked \in Seq(OrderIndices(m)) /\ IsInjective(untracked)
      /\ \A k \in DOMAIN untracked : IsUntracked(untracked[k], m, w.seat, matched)
  <2> HIDE DEF m, w, matched
  <2>1. CASE batch.cancel_all
    BY <2>1, UntrackedListed
  <2>2. CASE ~ batch.cancel_all
    <3>1. untracked = <<>>
      BY <2>2
    <3> HIDE DEF untracked
    <3>2. DOMAIN untracked = {} /\ untracked \in Seq(OrderIndices(m))
      BY <3>1
    <3>3. QED
      BY <3>2 DEF IsInjective
  <2>3. QED
    BY <2>1, <2>2
<1> HIDE DEF d, saved, untracked
<1>4. cancels = EntryCancels(matched) \o BookCancels(untracked, m)
  OBVIOUS
<1> HIDE DEF matched, cancels
<1>5. /\ d.phase = "prepare" /\ d.blocks = BlocksOf(matched)
      /\ d.orders = batch.orders /\ d.forwarded = <<>> /\ d.globals = globals
      /\ d.records = <<>> /\ d.saved = saved /\ d.cancels = cancels
  BY <1>2 DEF NoCall
<1> HIDE DEF w, m
<1>6. BatchStarts(d, w, m, batch, globals, saved)
  BY <1>3, <1>4, <1>5 DEF BatchStarts, matched
<1>7. QED
  BY <1>1, <1>6 DEF d, saved, w, m

\* An entry names an order by number and block; the market info names a seat.
EntriesNamed(w) == \A o \in Range(w.orders) : o.seq \in Nat /\ o.index \in Index

SeatNamed(w, m) == w.info # NIL => w.seat \in SeatIndices(m)

Hints == [seq : Nat, hint : {NIL} \cup Index]

\* The call is where the caller takes it to be, and its arguments are some that the
\* core may be given.
CallInv ==
    /\ EntriesNamed(wrapper) /\ SeatNamed(wrapper, accounts.m)
    /\ call.cancels \in Seq(Hints) /\ call.globals \in SUBSET Tokens
    /\ call.orders \in Seq(WrapperOrders) /\ call.forwarded \in Seq(WrapperOrders)
    /\ call.records \in Seq(Records)
    /\ call.phase # "idle" =>
        /\ wrapper.info # NIL
        /\ CommittedSound(call.saved.accounts)
        /\ EntriesNamed(call.saved.wrapper)
        /\ SeatNamed(call.saved.wrapper, call.saved.accounts.m)
    /\ call.phase \in {"prepare", "record", "rollback"} => ctx = Idle
    /\ Calling =>
        /\ ctx.phase # "idle" /\ ctx.kind = "batch" /\ ctx.seat = wrapper.seat
        /\ Len(call.forwarded) = Len(call.records) + Unplaced(ctx)
    /\ call.phase = "record" => Len(call.forwarded) = Len(call.records)

LEMMA ThinnedNamed ==
    ASSUME NEW w, NEW u, EntriesNamed(w), Thinned(u.orders, w.orders)
    PROVE  EntriesNamed(u)
BY DEF EntriesNamed, Thinned, Range

LEMMA SyncedNamed ==
    ASSUME NEW w, WrapperShape(w), BlocksPartitioned(w), EntriesNamed(w),
           NEW m, NEW orders_exact, NEW matcher
    PROVE  LET u == SyncFast(w, m, orders_exact, matcher)
           IN  EntriesNamed(u) /\ u.seat = w.seat /\ u.info = w.info
<1> DEFINE u == SyncFast(w, m, orders_exact, matcher)
<1>1. SameInfo(w, u) /\ OrdersSynced(u, w, m, orders_exact, matcher)
  BY SyncFastSound
<1> HIDE DEF u
<1>2. QED
  BY <1>1 DEF OrdersSynced, SameInfo, EntriesNamed, Range, u

\* The answer names orders, so do the entries made of it.
LEMMA RestedNamed ==
    ASSUME call.forwarded \in Seq(Range(call.forwarded)), call.records \in Seq(Records),
           Len(call.forwarded) = Len(call.records), NEW n \in DOMAIN RestedRecords
    PROVE  /\ RestedRecords[n].record.seq \in Nat /\ RestedRecords[n].record.index \in Index
           /\ \E k \in DOMAIN call.records : RestedRecords[n].record = call.records[k]
<1>1. PICK r : /\ r \in [DOMAIN RestedRecords -> DOMAIN call.forwarded]
               /\ \A i \in DOMAIN RestedRecords :
                    /\ RestedRecords[i] = SentOrders[r[i]]
                    /\ RestedRecords[i].record.index # NIL
  BY RestedRecordsTyped
<1>2. r[n] \in DOMAIN call.forwarded /\ r[n] \in DOMAIN call.records
  BY <1>1
<1>3. RestedRecords[n].record = call.records[r[n]]
  <2> DEFINE k == r[n]
  <2>1. SentOrders[k] = [sent |-> call.forwarded[k], record |-> call.records[k]]
    BY <1>2 DEF SentOrders
  <2> HIDE DEF k
  <2>2. SentOrders[k].record = call.records[k]
    BY <2>1
  <2>3. QED
    BY <1>1, <2>2 DEF k
<1>4. RestedRecords[n].record.index # NIL
  BY <1>1
<1> DEFINE record == RestedRecords[n].record
<1> HIDE DEF record
<1>5. record \in Records /\ record.index # NIL /\ record = call.records[r[n]]
  BY <1>2, <1>3, <1>4 DEF record
<1>6. record.seq \in Nat /\ record.index \in Index
  BY <1>5 DEF Records
<1>7. QED
  BY <1>2, <1>5, <1>6 DEF record

LEMMA AddedNamed ==
    ASSUME NEW u, NEW w, WrapperShape(w), EntriesNamed(w), OrdersAdded(u, w),
           call.forwarded \in Seq(Range(call.forwarded)), call.records \in Seq(Records),
           Len(call.forwarded) = Len(call.records)
    PROVE  EntriesNamed(u)
<1>1. PICK new : /\ new \in Seq(Range(new)) /\ DOMAIN new = DOMAIN RestedRecords
                 /\ \A k \in DOMAIN new : /\ new[k].seq = RestedRecords[k].record.seq
                                          /\ new[k].index = RestedRecords[k].record.index
                 /\ u.orders = Reverse(new) \o w.orders
  BY DEF OrdersAdded
<1> DEFINE S == Range(new) \cup Range(w.orders)
<1>2. new \in Seq(S) /\ w.orders \in Seq(S)
  BY <1>1 DEF WrapperShape
<1>3. Range(u.orders) = Range(new) \cup Range(w.orders)
  <2> HIDE DEF S
  <2>1. Reverse(new) \in Seq(S) /\ Range(Reverse(new)) = Range(new)
    BY <1>2, TurnedRound
  <2>2. QED
    BY <1>1, <1>2, <2>1, PutTogether
<1>4. \A o \in Range(new) : o.seq \in Nat /\ o.index \in Index
  BY <1>1, RestedNamed DEF Range
<1>5. QED
  BY <1>3, <1>4 DEF EntriesNamed

\* Commits of the core keep the seat of the wrapper.
LEMMA SeatNamedStays ==
    ASSUME NEW w, NEW m, NEW n, SeatNamed(w, m), SeatsStay(m, n)
    PROVE  SeatNamed(w, n)
BY DEF SeatNamed, SeatsStay

LEMMA CallInit == ASSUME OpenInit PROVE CallInv
<1>1. wrapper = NoWrapper /\ call = NoCall
  BY DEF OpenInit
<1>2. wrapper.orders = <<>> /\ wrapper.info = NIL
  BY <1>1, NoWrapperSound
<1>3. Range(<<>>) = {}
  BY DEF Range
<1>4. /\ call.cancels = <<>> /\ call.globals = {} /\ call.orders = <<>> /\ call.forwarded = <<>>
      /\ call.records = <<>> /\ call.phase = "idle"
  BY <1>1 DEF NoCall
<1>5. QED
  BY <1>2, <1>3, <1>4 DEF CallInv, EntriesNamed, SeatNamed, Calling

\* Between instructions of the wrapper, or at the end of one.
LEMMA CallIdle ==
    ASSUME EntriesNamed(wrapper'), SeatNamed(wrapper', accounts'.m), call' = NoCall
    PROVE  CallInv'
<1>1. /\ call'.cancels = <<>> /\ call'.globals = {} /\ call'.orders = <<>>
      /\ call'.forwarded = <<>> /\ call'.records = <<>> /\ call'.phase = "idle"
  BY DEF NoCall
<1>2. QED
  BY <1>1 DEF CallInv, EntriesNamed, SeatNamed, Calling

\* Nothing of the wrapper is in progress: the core takes a step of its own.
LEMMA CallApart ==
    ASSUME CoreInv, CallInv, call.phase = "idle", wrapper' = wrapper, call' = call, [Next]_vars
    PROVE  CoreInv' /\ CallInv'
<1>1. CoreInv' /\ SeatsStay(accounts.m, accounts'.m)
  BY CoreStep
<1>2. SeatNamed(wrapper, accounts'.m)
  BY <1>1, SeatNamedStays DEF CallInv
<1>3. ~ Calling /\ ~ Calling' /\ call'.phase = "idle"
  BY DEF Calling
<1>4. QED
  BY <1>1, <1>2, <1>3 DEF CallInv, EntriesNamed, SeatNamed

LEMMA NothingMoves == ASSUME CoreInv, UNCHANGED <<accounts, work, ctx, slot>> PROVE CoreInv'
BY CoreStep DEF vars

LEMMA CallCreate == ASSUME CoreInv, BlockInv, CallInv, CreateWrapper PROVE CoreInv' /\ CallInv'
<1> DEFINE u == EnsureFreeSlots(NoWrapper, 1)
<1>1. wrapper' = u /\ call' = NoCall /\ UNCHANGED <<accounts, work, ctx, slot>>
  BY DEF CreateWrapper, Ready
<1>2. u.orders = <<>> /\ u.info = NIL
  <2>1. 1 \in Nat
    OBVIOUS
  <2>2. QED
    BY <2>1, NoWrapperSound, EnsureFreeSlotsSound
<1> HIDE DEF u
<1>3. EntriesNamed(u) /\ SeatNamed(u, accounts'.m)
  BY <1>2 DEF EntriesNamed, SeatNamed, Range
<1>4. QED
  BY <1>1, <1>3, CallIdle, NothingMoves

LEMMA CallClaim ==
    ASSUME CoreInv, BlockInv, CallInv, WrapperClaimSeat
    PROVE  CoreInv' /\ CallInv'
<1> DEFINE m == SeatedMarket(accounts.m, Owner)
           a == [accounts EXCEPT !.m = m]
<1>1. /\ call' = NoCall /\ Commit(a) /\ SeatedMarket(accounts.m, Owner).num <= MAX_BLOCKS
  BY DEF WrapperClaimSeat, Ready
<1>2. CommittedSound(accounts) /\ Owner \in Traders
  BY CoreCommitted, WrapperAssumption
<1>3. /\ CommittedSound(a) /\ a.m = m /\ SeatsStay(accounts.m, m)
      /\ GetTraderIndex(m, Owner) \in SeatIndices(m)
  BY <1>1, <1>2, SeatedSound
<1>4. /\ wrapper'.orders \in {wrapper.orders, <<>>}
      /\ wrapper'.seat = IF wrapper.info # NIL THEN wrapper.seat ELSE GetTraderIndex(m, Owner)
  BY ClaimedWrapper
<1> HIDE DEF m, a
<1>5. CoreInv' /\ accounts'.m = m
  BY <1>1, <1>3, CoreCommit DEF Commit
<1>6. EntriesNamed(wrapper')
  <2>1. CASE wrapper'.orders = wrapper.orders
    BY <2>1 DEF CallInv, EntriesNamed
  <2>2. CASE wrapper'.orders = <<>>
    BY <2>2 DEF EntriesNamed, Range
  <2>3. QED
    BY <1>4, <2>1, <2>2
<1>7. SeatNamed(wrapper', m)
  BY <1>3, <1>4 DEF CallInv, SeatNamed, SeatsStay
<1>8. QED
  BY <1>1, <1>5, <1>6, <1>7, CallIdle

LEMMA CallSynced ==
    ASSUME CoreInv, BlockInv, CallInv, Synced(FALSE), call = NoCall, call' = call, [Next]_vars
    PROVE  CoreInv' /\ CallInv'
<1> DEFINE m == accounts'.m
           u == SyncFast(wrapper, m, FALSE, NoMatcher)
<1>1. wrapper' = u
  BY DEF Synced
<1>2. CoreInv' /\ SeatNamed(wrapper, m)
  BY CoreStep, SeatNamedStays DEF CallInv
<1> HIDE DEF m
<1>3. EntriesNamed(u) /\ u.seat = wrapper.seat /\ u.info = wrapper.info
  <2>1. WrapperShape(wrapper) /\ BlocksPartitioned(wrapper) /\ EntriesNamed(wrapper)
    BY DEF BlockInv, CallInv
  <2>2. \A exact : /\ EntriesNamed(SyncFast(wrapper, m, exact, NoMatcher))
                   /\ SyncFast(wrapper, m, exact, NoMatcher).seat = wrapper.seat
                   /\ SyncFast(wrapper, m, exact, NoMatcher).info = wrapper.info
    BY <2>1, SyncedNamed
  <2>3. QED
    BY <2>2
<1> HIDE DEF u
<1>4. EntriesNamed(wrapper') /\ SeatNamed(wrapper', accounts'.m)
  BY <1>1, <1>2, <1>3 DEF SeatNamed, m
<1>5. QED
  BY <1>2, <1>4, CallIdle

\* The cancels of a batch, as the core wants them.
LEMMA CancelsListed ==
    ASSUME NEW m, MarketSound(m), NEW w, WrapperShape(w), BlocksPartitioned(w), EntriesNamed(w),
           NEW batch, NEW untracked \in Seq(OrderIndices(m))
    PROVE  /\ EntryCancels(MatchedEntries(w, batch)) \in Seq(Hints)
           /\ BookCancels(untracked, m) \in Seq(Hints)
           /\ EntryCancels(MatchedEntries(w, batch)) \o BookCancels(untracked, m) \in Seq(Hints)
<1> DEFINE matched == MatchedEntries(w, batch)
<1>1. matched \in Seq(Range(w.orders))
  BY MatchedPicked DEF OrdersPicked
<1> HIDE DEF matched
<1>2. \A k \in DOMAIN matched : CoreCancel(matched[k].seq, matched[k].index) \in Hints
  <2> TAKE k \in DOMAIN matched
  <2>1. matched[k] \in Range(w.orders)
    BY <1>1
  <2>2. matched[k].seq \in Nat /\ matched[k].index \in Index
    BY <2>1 DEF EntriesNamed
  <2>3. QED
    BY <2>2 DEF CoreCancel, Hints
<1>3. EntryCancels(matched) \in Seq(Hints)
  <2>1. DOMAIN matched = 1 .. Len(matched) /\ Len(matched) \in Nat
    BY <1>1
  <2>2. QED
    BY <1>2, <2>1 DEF EntryCancels
<1>4. \A i \in OrderIndices(m) : CoreCancel(m.data[i].seq, i) \in Hints
  <2>1. \A i \in OrderIndices(m) : m.data[i].seq \in Nat /\ i \in Index
    BY BookTyped DEF MarketSound, OrderIndices
  <2>2. QED
    BY <2>1 DEF CoreCancel, Hints
<1>5. BookCancels(untracked, m) \in Seq(Hints)
  <2>1. DOMAIN untracked = 1 .. Len(untracked) /\ Len(untracked) \in Nat
    OBVIOUS
  <2>2. \A k \in DOMAIN untracked : untracked[k] \in OrderIndices(m)
    OBVIOUS
  <2>3. QED
    BY <1>4, <2>1, <2>2 DEF BookCancels
<1>6. QED
  BY <1>3, <1>5 DEF matched

LEMMA CallBatch ==
    ASSUME CoreInv, BlockInv, CallInv, NEW batch \in WrapperBatches, NEW globals \in GlobalsPassed,
           WrapperBatchUpdate(batch, globals)
    PROVE  CoreInv' /\ CallInv'
<1> DEFINE m == accounts.m
           w == SyncFast(wrapper, m, FALSE, batch)
           saved == [accounts |-> accounts, wrapper |-> wrapper, outside |-> outside]
           d == call'
<1>1. /\ wrapper' = w /\ ctx = Idle /\ wrapper.info # NIL
      /\ UNCHANGED <<accounts, work, ctx, slot>>
      /\ BatchStarts(d, w, m, batch, globals, saved)
  BY BatchStarted
<1>2. CoreInv' /\ MarketSound(m) /\ CommittedSound(accounts)
  <2>1. CommittedSound(accounts)
    BY CoreCommitted
  <2>2. QED
    BY <1>1, <2>1, NothingMoves DEF CommittedSound, AccountsSound
<1>3. saved.accounts = accounts /\ saved.wrapper = wrapper
  OBVIOUS
<1>4. /\ WrapperShape(w) /\ BlocksPartitioned(w) /\ EntriesNamed(w)
      /\ w.seat = wrapper.seat /\ w.info = wrapper.info
  <2>1. WrapperShape(wrapper) /\ BlocksPartitioned(wrapper) /\ EntriesNamed(wrapper)
    BY DEF BlockInv, CallInv
  <2> HIDE DEF m
  <2>2. WrapperShape(w) /\ BlocksPartitioned(w)
    BY <2>1, SyncFastSound
  <2>3. \A exact : LET u == SyncFast(wrapper, m, exact, batch)
                   IN  EntriesNamed(u) /\ u.seat = wrapper.seat /\ u.info = wrapper.info
    BY <2>1, SyncedNamed
  <2>4. QED
    BY <2>2, <2>3
<1> HIDE DEF w, saved, d
<1>5. d.cancels \in Seq(Hints)
  BY <1>1, <1>2, <1>4, CancelsListed DEF BatchStarts
<1>6. /\ d.phase = "prepare" /\ d.orders = batch.orders /\ d.forwarded = <<>>
      /\ d.globals = globals /\ d.records = <<>> /\ d.saved = saved
  BY <1>1 DEF BatchStarts
<1>7. batch.orders \in Seq(WrapperOrders) /\ globals \in SUBSET Tokens
  BY WrapperAssumption, ManifestAssumption
<1>8. /\ EntriesNamed(saved.wrapper) /\ SeatNamed(saved.wrapper, saved.accounts.m)
      /\ SeatNamed(w, m)
  BY <1>3, <1>4 DEF CallInv, SeatNamed
<1>9. CallInv'
  <2>1. wrapper' = w /\ accounts'.m = m /\ call' = d /\ ctx' = Idle
    BY <1>1 DEF d
  <2>2. d.forwarded \in Seq(WrapperOrders) /\ d.records \in Seq(Records)
    BY <1>6
  <2>3. EntriesNamed(wrapper') /\ SeatNamed(wrapper', accounts'.m)
    BY <1>4, <1>8, <2>1
  <2>4. wrapper'.info # NIL
    BY <1>1, <1>4, <2>1
  <2> HIDE DEF m
  <2>5. QED
    BY <1>2, <1>3, <1>5, <1>6, <1>7, <1>8, <2>1, <2>2, <2>3, <2>4
       DEF CallInv, Calling, EntriesNamed, SeatNamed
<1>10. QED
  BY <1>2, <1>9

\* What prepare_orders does to the call: one order less to inspect, and one more to
\* forward or none.
LEMMA PrepareMoves ==
    ASSUME BlockInv, CallInv, slot \in Nat, DropOrder \/ ForwardOrder
    PROVE  /\ wrapper' = wrapper /\ UNCHANGED <<accounts, work, ctx, slot>>
           /\ call.phase = "prepare" /\ ctx = Idle /\ ~ EndsPrefix
           /\ call'.phase = "prepare" /\ call'.orders = Tail(call.orders)
           /\ call'.cancels = call.cancels /\ call'.blocks = call.blocks
           /\ call'.globals = call.globals /\ call'.records = call.records
           /\ call'.saved = call.saved /\ call'.placed = call.placed
           /\ call.orders # <<>> /\ Head(call.orders) \in WrapperOrders
           /\ \/ call'.forwarded = call.forwarded
              \/ \E x \in WrapperOrders :
                    /\ call'.forwarded = Append(call.forwarded, x)
                    /\ ~ IsDropped(NextArgs)
                    /\ x.args.is_bid = NextArgs.is_bid /\ x.args.price = NextArgs.price
                    /\ x.args.type = NextArgs.type
<1> DEFINE c == call
           d == call'
           x == [id |-> Head(call.orders).id,
                 args |-> [NextArgs EXCEPT !.last_valid = Expiration(NextArgs)]]
<1>1. /\ wrapper' = wrapper /\ UNCHANGED <<accounts, work, ctx, slot>>
      /\ c.phase = "prepare" /\ ctx = Idle /\ ~ EndsPrefix
  BY DEF DropOrder, ForwardOrder, Preparing
<1>2. /\ c \in [phase : {c.phase}, cancels : {c.cancels},
                blocks : Seq(Nat), orders : {c.orders}, forwarded : {c.forwarded},
                left : {c.left}, globals : {c.globals}, placed : {c.placed},
                records : {c.records}, unfunded : {c.unfunded}, saved : {c.saved}]
  BY DEF BlockInv, CallShape
<1>3. call.orders # <<>> /\ call.orders \in Seq(WrapperOrders) /\ Head(call.orders) \in WrapperOrders
  <2>1. call.orders # <<>> /\ call.orders \in Seq(WrapperOrders)
    BY <1>1 DEF EndsPrefix, CallInv
  <2>2. QED
    BY <2>1
<1>4. /\ x \in WrapperOrders /\ x.args.is_bid = NextArgs.is_bid
      /\ x.args.price = NextArgs.price /\ x.args.type = NextArgs.type
  <2> DEFINE args == NextArgs
             e == Expiration(args)
             y == [args EXCEPT !.last_valid = e]
  <2>1. args \in OrderArgs /\ Head(call.orders).id \in Nat
    BY <1>3 DEF NextArgs, WrapperOrders
  <2>2. e \in Nat
    BY <2>1 DEF Expiration, OrderArgs
  <2> HIDE DEF e, args
  <2>3. y \in OrderArgs /\ y.is_bid = args.is_bid /\ y.price = args.price /\ y.type = args.type
    BY <2>1, <2>2 DEF OrderArgs
  <2> HIDE DEF y
  <2>4. QED
    BY <2>1, <2>3 DEF WrapperOrders, y, args, e
<1> HIDE DEF x
<1>5. CASE DropOrder
  <2>1. d = [c EXCEPT !.orders = Tail(@)]
    BY <1>5 DEF DropOrder
  <2> HIDE DEF c, d
  <2>2. /\ d.phase = c.phase /\ d.orders = Tail(c.orders) /\ d.cancels = c.cancels
        /\ d.blocks = c.blocks /\ d.globals = c.globals /\ d.records = c.records
        /\ d.saved = c.saved /\ d.placed = c.placed /\ d.forwarded = c.forwarded
    BY <1>2, <2>1
  <2>3. QED
    BY <1>1, <1>3, <2>2 DEF c, d
<1>6. CASE ForwardOrder
  <2> DEFINE f == Append(c.forwarded, x)
             left == [c.left EXCEPT ![Backing(NextArgs.is_bid)] = @ - Desired(NextArgs)]
  <2>1. d = [c EXCEPT !.orders = Tail(@),
                      !.left[Backing(NextArgs.is_bid)] = @ - Desired(NextArgs),
                      !.forwarded = Append(@, x)] /\ ~ IsDropped(NextArgs)
    BY <1>6 DEF ForwardOrder, x
  <2> HIDE DEF c, d
  <2>2. d = [c EXCEPT !.orders = Tail(c.orders), !.forwarded = f, !.left = left]
    BY <1>2, <2>1
  <2> HIDE DEF f, left
  <2>3. /\ d.phase = c.phase /\ d.orders = Tail(c.orders) /\ d.cancels = c.cancels
        /\ d.blocks = c.blocks /\ d.globals = c.globals /\ d.records = c.records
        /\ d.saved = c.saved /\ d.placed = c.placed /\ d.forwarded = f
    BY <1>2, <2>2
  <2>4. QED
    BY <1>1, <1>3, <1>4, <2>1, <2>3 DEF c, d, f
<1>7. QED
  BY <1>5, <1>6

LEMMA CallPrepare ==
    ASSUME CoreInv, BlockInv, CallInv, DropOrder \/ ForwardOrder
    PROVE  CoreInv' /\ CallInv'
<1>1. slot \in Nat
  BY DEF CoreInv, IInv
<1>2. /\ wrapper' = wrapper /\ UNCHANGED <<accounts, work, ctx, slot>>
      /\ call.phase = "prepare" /\ ctx = Idle
      /\ call'.phase = "prepare" /\ call'.orders = Tail(call.orders)
      /\ call'.cancels = call.cancels
      /\ call'.globals = call.globals /\ call'.records = call.records
      /\ call'.saved = call.saved /\ call.orders # <<>>
      /\ \/ call'.forwarded = call.forwarded
         \/ \E x \in WrapperOrders : call'.forwarded = Append(call.forwarded, x)
  BY <1>1, PrepareMoves
<1>3. Tail(call.orders) \in Seq(WrapperOrders)
  <2>1. call.orders \in Seq(WrapperOrders)
    BY DEF CallInv
  <2>2. QED
    BY <1>2, <2>1
<1>4. call'.forwarded \in Seq(WrapperOrders)
  <2>1. call.forwarded \in Seq(WrapperOrders)
    BY DEF CallInv
  <2>2. QED
    BY <1>2, <2>1, AppendProperties
<1>5. CallInv'
  BY <1>2, <1>3, <1>4 DEF CallInv, Calling, EntriesNamed, SeatNamed
<1>6. QED
  BY <1>2, <1>5, NothingMoves

\* The core is called with the batch as it was prepared.
LEMMA CallExecute ==
    ASSUME CoreInv, BlockInv, CallInv, ExecuteCpi
    PROVE  CoreInv' /\ CallInv'
<1> DEFINE c == call
           d == call'
           args == [k \in DOMAIN call.forwarded |-> call.forwarded[k].args]
           placed == call.placed \/ call.forwarded # <<>>
<1>1. /\ wrapper' = wrapper /\ call.phase = "prepare" /\ ctx = Idle
      /\ CallCore(accounts, wrapper.seat, call.globals, call.cancels, args,
                  [call EXCEPT !.placed = @ \/ call.forwarded # <<>>])
  BY DEF ExecuteCpi, Preparing
<1>2. /\ args \in Seq(OrderArgs) /\ Len(args) = Len(call.forwarded)
      /\ Len(call.forwarded) \in Nat
  <2> DEFINE sent == call.forwarded
  <2>1. sent \in Seq(WrapperOrders)
    BY DEF CallInv
  <2> HIDE DEF sent
  <2>2. \A k \in DOMAIN sent : sent[k].args \in OrderArgs
    <3>1. \A k \in DOMAIN sent : sent[k] \in WrapperOrders
      BY <2>1
    <3>2. \A x \in WrapperOrders : x.args \in OrderArgs
      BY DEF WrapperOrders
    <3>3. QED
      BY <3>1, <3>2
  <2>3. DOMAIN sent = 1 .. Len(sent) /\ Len(sent) \in Nat
    BY <2>1
  <2>4. /\ [k \in DOMAIN sent |-> sent[k].args] \in Seq(OrderArgs)
        /\ Len([k \in DOMAIN sent |-> sent[k].args]) = Len(sent)
    <3> DEFINE n == Len(sent)
               f == [k \in 1 .. n |-> sent[k].args]
    <3>1. f = [k \in DOMAIN sent |-> sent[k].args] /\ n \in Nat
      BY <2>3
    <3>2. f \in Seq(OrderArgs) /\ DOMAIN f = 1 .. n
      BY <2>2, <2>3
    <3> HIDE DEF f
    <3>3. Len(f) = n
      BY <3>1, <3>2
    <3>4. QED
      BY <3>1, <3>2, <3>3
  <2>5. QED
    BY <2>3, <2>4 DEF sent
<1> HIDE DEF args
<1>3. /\ wrapper.info # NIL /\ wrapper.seat \in SeatIndices(accounts.m)
      /\ call.globals \in SUBSET Tokens /\ call.cancels \in Seq(Hints)
  BY <1>1 DEF CallInv, SeatNamed
<1>4. CoreInv' /\ accounts' = accounts
  <2> DEFINE caller == [call EXCEPT !.placed = @ \/ call.forwarded # <<>>]
  <2>1. CallCore(accounts, wrapper.seat, call.globals, call.cancels, args, caller)
    BY <1>1
  <2> HIDE DEF caller
  <2>2. QED
    BY <1>1, <1>2, <1>3, <2>1, CoreCalled DEF Hints
<1>5. d = [[c EXCEPT !.placed = placed] EXCEPT !.phase = "cpi", !.records = <<>>]
  <2>1. d = [[c EXCEPT !.placed = @ \/ call.forwarded # <<>>] EXCEPT
                        !.phase = "cpi", !.records = <<>>]
    BY <1>1 DEF CallCore
  <2>2. QED
    BY <2>1 DEF BlockInv, CallShape
<1> HIDE DEF placed
<1>6. d = [c EXCEPT !.phase = "cpi", !.placed = placed, !.records = <<>>]
  BY <1>5, CallFields DEF BlockInv
<1>7. /\ d.phase = "cpi" /\ d.records = <<>> /\ d.forwarded = c.forwarded
      /\ d.saved = c.saved /\ d.orders = c.orders
      /\ d.cancels = c.cancels /\ d.globals = c.globals
  <2>1. call.phase \in Busy
    BY <1>1 DEF Busy
  <2>2. QED
    BY <1>1, <1>6, <2>1, CallSteps
<1>8. /\ ctx'.phase = "cancel" /\ ctx'.kind = "batch" /\ ctx'.seat = wrapper.seat
      /\ ctx'.orders = args
  BY <1>1 DEF CallCore, Idle
<1>9. Unplaced(ctx') = Len(args)
  BY <1>2, <1>8 DEF Unplaced, MatchingPhases
<1> HIDE DEF c, d
<1>10. d.records \in Seq(Records) /\ Len(d.records) = 0
  BY <1>7
<1>11. CallInv'
  <2>1. /\ EntriesNamed(wrapper') /\ SeatNamed(wrapper', accounts'.m) /\ wrapper'.info # NIL
    BY <1>1, <1>3, <1>4 DEF CallInv, EntriesNamed, SeatNamed
  <2>2. /\ d.cancels \in Seq(Hints) /\ d.globals \in SUBSET Tokens
        /\ d.orders \in Seq(WrapperOrders) /\ d.forwarded \in Seq(WrapperOrders)
    BY <1>7 DEF CallInv, c
  <2>3. /\ CommittedSound(d.saved.accounts) /\ EntriesNamed(d.saved.wrapper)
        /\ SeatNamed(d.saved.wrapper, d.saved.accounts.m)
    BY <1>1, <1>7 DEF CallInv, c
  <2>4. /\ Len(d.forwarded) = Len(d.records) + Unplaced(ctx')
    BY <1>2, <1>7, <1>9, <1>10 DEF c
  <2>5. wrapper'.seat = wrapper.seat
    BY <1>1
  <2>6. QED
    BY <1>7, <1>8, <1>10, <2>1, <2>2, <2>3, <2>4, <2>5
       DEF CallInv, Calling, EntriesNamed, SeatNamed, d
<1>12. QED
  BY <1>4, <1>11

\* The steps of the core are steps of Manifest.
LEMMA CoreSteps_Next ==
    ASSUME CoreSteps
    PROVE  [Next]_vars /\ ctx.phase # "idle" /\ wrapper' = wrapper
<1>1. CASE CoreGoesOn \/ Fill
  <2>1. Next
    BY <1>1 DEF CoreGoesOn, Next, Progress
  <2>2. ctx.phase # "idle"
    BY <1>1 DEF CoreGoesOn, CancelOrder, PrepayGas, BeginOrder, CleanStaleMaker, CleanUnbackedMaker,
         IsMaker, PlaceReverse, StopMatching, Fill
  <2>3. QED
    BY <2>1, <2>2 DEF CoreSteps
<1>2. CASE CorePlaced \/ CoreReturns
  BY <1>2 DEF CorePlaced, CoreReturns, Next, Progress, FinishOrder, FinishBatch, CoreSteps
<1>3. CASE CoreFails
  <2>1. Next
    BY <1>3 DEF CoreFails, Next, Progress
  <2>2. ctx.phase # "idle"
    BY <1>3 DEF CoreFails, CancelFails, PrepayGasFails, BeginOrderFails, FillFails,
         IsMaker, PlaceReverseFails, FinishOrderFails
  <2>3. QED
    BY <2>1, <2>2 DEF CoreSteps
<1>4. QED
  BY <1>1, <1>2, <1>3 DEF CoreSteps

\* The caller waits: its phase and its records may change.
CallWaits(phase, records) ==
    /\ call'.phase = phase /\ call'.records = records
    /\ call'.forwarded = call.forwarded /\ call'.saved = call.saved
    /\ call'.orders = call.orders /\ call'.cancels = call.cancels
    /\ call'.globals = call.globals

LEMMA CallWaiting ==
    ASSUME CallShape(call), Calling
    PROVE  /\ call' = call => CallWaits("cpi", call.records)
           /\ CorePlaced => CallWaits("cpi", Append(call.records, CoreRecord))
           /\ CoreFails => CallWaits("rollback", call.records)
           /\ CoreReturns => CallWaits("record", call.records)
<1> DEFINE c == call
           d == call'
<1>1. /\ c \in [phase : {"cpi"}, cancels : {c.cancels},
                blocks : Seq(Nat), orders : {c.orders}, forwarded : {c.forwarded},
                left : {c.left}, globals : {c.globals}, placed : {c.placed},
                records : {c.records}, unfunded : {c.unfunded}, saved : {c.saved}]
  BY DEF CallShape, Calling
<1>2. call' = call => CallWaits("cpi", call.records)
  BY DEF CallWaits, Calling
<1>3. ASSUME CorePlaced PROVE CallWaits("cpi", Append(call.records, CoreRecord))
  <2> DEFINE records == Append(call.records, CoreRecord)
  <2>1. d = [c EXCEPT !.records = Append(@, CoreRecord)]
    BY <1>3 DEF CorePlaced
  <2>2. d = [c EXCEPT !.records = records]
    BY <1>1, <2>1
  <2> HIDE DEF c, d, records
  <2>3. /\ d.phase = "cpi" /\ d.records = records /\ d.forwarded = c.forwarded
        /\ d.saved = c.saved /\ d.orders = c.orders /\ d.cancels = c.cancels
        /\ d.globals = c.globals
    BY <1>1, <2>2
  <2>4. QED
    BY <2>3 DEF CallWaits, c, d, records
<1>4. ASSUME NEW phase, d = [c EXCEPT !.phase = phase] PROVE CallWaits(phase, call.records)
  <2> HIDE DEF c, d
  <2>1. /\ d.phase = phase /\ d.records = c.records /\ d.forwarded = c.forwarded
        /\ d.saved = c.saved /\ d.orders = c.orders /\ d.cancels = c.cancels
        /\ d.globals = c.globals
    BY <1>1, <1>4
  <2>2. QED
    BY <2>1 DEF CallWaits, c, d
<1>5. CoreFails => CallWaits("rollback", call.records)
  BY <1>4 DEF CoreFails
<1>6. CoreReturns => CallWaits("record", call.records)
  BY <1>4 DEF CoreReturns
<1>7. QED
  BY <1>2, <1>3, <1>5, <1>6

\* What a step of the core leaves to be shown of the call it is part of.
LEMMA CallGoesOn ==
    ASSUME CallInv, Calling, wrapper' = wrapper, SeatsStay(accounts.m, accounts'.m),
           NEW phase \in {"cpi", "record", "rollback"}, NEW records \in Seq(Records),
           CallWaits(phase, records),
           phase # "cpi" => ctx' = Idle,
           phase = "cpi" => /\ ctx'.phase # "idle" /\ ctx'.kind = "batch"
                            /\ ctx'.seat = wrapper.seat
                            /\ Len(call.forwarded) = Len(records) + Unplaced(ctx'),
           phase = "record" => Len(call.forwarded) = Len(records)
    PROVE  CallInv'
<1> DEFINE d == call'
<1>1. call.phase # "idle"
  BY DEF Calling
<1>2. /\ d.phase = phase /\ d.records = records /\ d.forwarded = call.forwarded
      /\ d.saved = call.saved /\ d.orders = call.orders
      /\ d.cancels = call.cancels /\ d.globals = call.globals
  BY DEF CallWaits
<1>3. EntriesNamed(wrapper) /\ SeatNamed(wrapper, accounts'.m) /\ wrapper.info # NIL
  <2>1. EntriesNamed(wrapper) /\ SeatNamed(wrapper, accounts.m) /\ wrapper.info # NIL
    BY <1>1 DEF CallInv
  <2>2. QED
    BY <2>1, SeatNamedStays
<1> HIDE DEF d
<1>4. /\ d.cancels \in Seq(Hints) /\ d.globals \in SUBSET Tokens
      /\ d.orders \in Seq(WrapperOrders) /\ d.forwarded \in Seq(WrapperOrders)
      /\ CommittedSound(d.saved.accounts) /\ EntriesNamed(d.saved.wrapper)
      /\ SeatNamed(d.saved.wrapper, d.saved.accounts.m)
  BY <1>1, <1>2 DEF CallInv
<1>5. EntriesNamed(wrapper') /\ SeatNamed(wrapper', accounts'.m) /\ wrapper'.info # NIL
  BY <1>3
<1>6. d.phase = "cpi" => /\ ctx'.phase # "idle" /\ ctx'.kind = "batch"
                         /\ ctx'.seat = wrapper'.seat
                         /\ Len(d.forwarded) = Len(d.records) + Unplaced(ctx')
  BY <1>2
<1>7. /\ d.phase = "record" => Len(d.forwarded) = Len(d.records)
      /\ d.phase \in {"prepare", "record", "rollback"} => ctx' = Idle
  BY <1>2
<1>8. QED
  BY <1>2, <1>4, <1>5, <1>6, <1>7 DEF CallInv, Calling, EntriesNamed, SeatNamed, d

\* The core runs: on its own, or for the wrapper.
LEMMA CallRuns ==
    ASSUME CoreInv, BlockInv, CallInv, CoreSteps
    PROVE  CoreInv' /\ CallInv'
<1>1. [Next]_vars /\ ctx.phase # "idle" /\ wrapper' = wrapper
  BY CoreSteps_Next
<1>2. CoreInv' /\ SeatsStay(accounts.m, accounts'.m)
  BY <1>1, CoreStep
<1>3. CallShape(call) /\ IInv
  BY DEF BlockInv, CoreInv
<1>4. CASE ~ Calling
  <2>1. call.phase = "idle"
    <3>1. ctx # Idle
      BY <1>1 DEF Idle
    <3>2. QED
      BY <1>3, <1>4, <3>1 DEF CallInv, Calling, CallShape
  <2>2. call' = call
    BY <1>4, CoreSteps_Call
  <2>3. QED
    BY <1>1, <2>1, <2>2, CallApart
<1>5. CASE Calling
  <2>1. /\ ctx.kind = "batch" /\ ctx.seat = wrapper.seat
        /\ Len(call.forwarded) = Len(call.records) + Unplaced(ctx)
        /\ call.records \in Seq(Records)
    BY <1>5 DEF CallInv
  <2>2. CASE (CoreGoesOn /\ UNCHANGED <<wrapper, outside>>)
                \/ (Fill /\ UNCHANGED <<call, wrapper, outside>>)
    <3>1. SameBatch(ctx, ctx')
      BY <1>3, <2>2, BatchGoesOn
    <3>2. CallWaits("cpi", call.records)
      <4>1. call' = call
        BY <2>2 DEF CoreGoesOn
      <4>2. QED
        BY <1>3, <1>5, <4>1, CallWaiting
    <3>3. /\ ctx'.phase # "idle" /\ ctx'.kind = "batch" /\ ctx'.seat = wrapper.seat
          /\ Len(call.forwarded) = Len(call.records) + Unplaced(ctx')
      BY <2>1, <3>1 DEF SameBatch
    <3>4. QED
      BY <1>1, <1>2, <1>5, <2>1, <3>2, <3>3, CallGoesOn
  <2>3. CASE CorePlaced /\ UNCHANGED <<wrapper, outside>>
    <3> DEFINE records == Append(call.records, CoreRecord)
    <3>1. /\ ctx'.phase = "next" /\ ctx'.kind = ctx.kind /\ ctx'.seat = ctx.seat
          /\ Unplaced(ctx) = Unplaced(ctx') + 1 /\ Unplaced(ctx') \in Nat
          /\ CoreRecord \in Records
      BY <1>3, <2>3, BatchPlaces DEF CorePlaced
    <3>2. CallWaits("cpi", records)
      BY <1>3, <1>5, <2>3, CallWaiting
    <3>3. records \in Seq(Records) /\ Len(records) = Len(call.records) + 1
      BY <2>1, <3>1, AppendProperties
    <3> HIDE DEF records
    <3>4. Len(call.records) \in Nat
      BY <2>1
    <3>5. /\ ctx'.phase # "idle" /\ ctx'.kind = "batch" /\ ctx'.seat = wrapper.seat
          /\ Len(call.forwarded) = Len(records) + Unplaced(ctx')
      BY <2>1, <3>1, <3>3, <3>4
    <3>6. QED
      BY <1>1, <1>2, <1>5, <3>2, <3>3, <3>5, CallGoesOn
  <2>4. CASE CoreFails /\ UNCHANGED <<wrapper, outside>>
    <3>1. ctx' = Idle
      BY <2>4 DEF CoreFails, CancelFails, PrepayGasFails, BeginOrderFails, FillFails,
           PlaceReverseFails, FinishOrderFails, Abort
    <3>2. CallWaits("rollback", call.records)
      BY <1>3, <1>5, <2>4, CallWaiting
    <3>3. QED
      BY <1>1, <1>2, <1>5, <2>1, <3>1, <3>2, CallGoesOn
  <2>5. CASE CoreReturns
    <3>1. ctx.phase = "next" /\ ctx.orders = <<>> /\ ctx' = Idle
      BY <2>5 DEF CoreReturns, FinishBatch, Commit
    <3>2. Unplaced(ctx) = 0
      BY <3>1 DEF Unplaced, MatchingPhases
    <3>3. Len(call.forwarded) = Len(call.records)
      <4>1. Len(call.records) \in Nat
        BY <2>1
      <4>2. QED
        BY <2>1, <3>2, <4>1
    <3>4. CallWaits("record", call.records)
      BY <1>3, <1>5, <2>5, CallWaiting
    <3>5. QED
      BY <1>1, <1>2, <1>5, <2>1, <3>1, <3>3, <3>4, CallGoesOn
  <2>6. QED
    BY <1>2, <2>2, <2>3, <2>4, <2>5 DEF CoreSteps
<1>6. QED
  BY <1>4, <1>5

LEMMA CallEnded ==
    ASSUME CoreInv, NEW w, WrapperShape(w), BlocksPartitioned(w), EntriesNamed(w),
           SeatNamed(w, accounts.m), EndBatch(w), UNCHANGED <<accounts, work, ctx, slot>>
    PROVE  CoreInv' /\ CallInv'
<1> DEFINE m == accounts.m
           exact == ~ call.placed
           u == SyncFast(w, m, exact, NoMatcher)
<1>1. wrapper' = u /\ call' = NoCall /\ accounts'.m = m
  BY DEF EndBatch
<1> HIDE DEF m, exact
<1>2. EntriesNamed(u) /\ u.seat = w.seat /\ u.info = w.info
  BY SyncedNamed
<1> HIDE DEF u
<1>3. EntriesNamed(wrapper') /\ SeatNamed(wrapper', accounts'.m)
  BY <1>1, <1>2 DEF SeatNamed, m
<1>4. QED
  BY <1>1, <1>3, CallIdle, NothingMoves

LEMMA CallResult ==
    ASSUME CoreInv, BlockInv, CallInv, ProcessResult
    PROVE  CoreInv' /\ CallInv'
<1> DEFINE v == CancelsProcessed(wrapper)
           u == OrdersProcessed(v)
<1>1. call.phase = "record" /\ UNCHANGED <<accounts, work, ctx, slot>>
  BY DEF ProcessResult
<1>2. /\ WrapperShape(v) /\ BlocksPartitioned(v) /\ Thinned(v.orders, wrapper.orders)
      /\ WrapperShape(u) /\ BlocksPartitioned(u) /\ u.info = wrapper.info
      /\ u.seat = wrapper.seat /\ OrdersAdded(u, v)
  BY <1>1, ResultProcessed
<1>3. \/ EndBatch(u)
      \/ wrapper' = u /\ call' = [call EXCEPT !.phase = "prepare", !.cancels = <<>>, !.blocks = <<>>,
                                              !.forwarded = <<>>, !.records = <<>>,
                                              !.left = accounts.m.data[wrapper.seat].bal]
  BY DEF ProcessResult
<1> HIDE DEF v, u
<1>4. EntriesNamed(v)
  BY <1>2, ThinnedNamed DEF CallInv
<1>5. EntriesNamed(u) /\ SeatNamed(u, accounts.m)
  <2>1. /\ call.forwarded \in Seq(Range(call.forwarded)) /\ call.records \in Seq(Records)
        /\ Len(call.forwarded) = Len(call.records)
    BY <1>1 DEF BlockInv, CallShape, CallInv
  <2>2. EntriesNamed(u)
    BY <1>2, <1>4, <2>1, AddedNamed
  <2>3. QED
    BY <1>2, <2>2 DEF CallInv, SeatNamed
<1>6. CASE EndBatch(u)
  BY <1>1, <1>2, <1>5, <1>6, CallEnded
<1>7. CASE wrapper' = u /\ call' = [call EXCEPT !.phase = "prepare", !.cancels = <<>>, !.blocks = <<>>,
                                                !.forwarded = <<>>, !.records = <<>>,
                                                !.left = accounts.m.data[wrapper.seat].bal]
  <2> DEFINE c == call
             d == call'
             left == accounts.m.data[wrapper.seat].bal
  <2>1. /\ c \in [phase : {c.phase}, cancels : {c.cancels},
                  blocks : Seq(Nat), orders : {c.orders}, forwarded : {c.forwarded},
                  left : {c.left}, globals : {c.globals}, placed : {c.placed},
                  records : {c.records}, unfunded : {c.unfunded}, saved : {c.saved}]
    BY DEF BlockInv, CallShape
  <2>2. d = [c EXCEPT !.phase = "prepare", !.cancels = <<>>, !.blocks = <<>>,
                      !.forwarded = <<>>, !.records = <<>>, !.left = left]
    BY <1>7
  <2> HIDE DEF c, d, left
  <2>3. /\ d.phase = "prepare" /\ d.cancels = <<>> /\ d.forwarded = <<>> /\ d.records = <<>>
        /\ d.orders = c.orders /\ d.globals = c.globals /\ d.saved = c.saved
    BY <2>1, <2>2
  <2>4. /\ d.cancels \in Seq(Hints) /\ d.globals \in SUBSET Tokens
        /\ d.orders \in Seq(WrapperOrders) /\ d.forwarded \in Seq(WrapperOrders)
        /\ d.records \in Seq(Records)
    BY <2>3 DEF CallInv, c
  <2>5. /\ CommittedSound(d.saved.accounts) /\ EntriesNamed(d.saved.wrapper)
        /\ SeatNamed(d.saved.wrapper, d.saved.accounts.m) /\ wrapper.info # NIL /\ ctx = Idle
    BY <1>1, <2>3 DEF CallInv, c
  <2>6. EntriesNamed(wrapper') /\ SeatNamed(wrapper', accounts'.m) /\ wrapper'.info # NIL
    BY <1>1, <1>2, <1>5, <1>7, <2>5
  <2>7. CallInv'
    BY <1>1, <2>3, <2>4, <2>5, <2>6 DEF CallInv, Calling, EntriesNamed, SeatNamed, d
  <2>8. QED
    BY <1>1, <2>7, NothingMoves
<1>8. QED
  BY <1>3, <1>6, <1>7

\* The rollback restores accounts that were sound when the instruction began.
LEMMA CallUndone ==
    ASSUME CoreInv, BlockInv, CallInv, RollBack
    PROVE  CoreInv' /\ CallInv'
<1> DEFINE a == call.saved.accounts
           w == call.saved.wrapper
<1>1. call.phase # "idle" /\ Commit(a) /\ wrapper' = w /\ call' = NoCall
  BY DEF RollBack
<1>2. CommittedSound(a) /\ EntriesNamed(w) /\ SeatNamed(w, a.m)
  BY <1>1 DEF CallInv
<1> HIDE DEF a, w
<1>3. CoreInv' /\ accounts'.m = a.m
  BY <1>1, <1>2, CoreCommit DEF Commit
<1>4. QED
  BY <1>1, <1>2, <1>3, CallIdle

\* The invariants of the core, those of the wrapper account, and what relates the two.
OpenInv == CoreInv /\ BlockInv /\ CallInv

LEMMA OpenStarts == ASSUME OpenInit PROVE OpenInv
BY CoreInit, BlockInit, CallInit DEF OpenInv

LEMMA OpenSteps == ASSUME OpenInv, [OpenNext]_wvars PROVE OpenInv'
<1>1. CoreInv /\ BlockInv /\ CallInv
  BY DEF OpenInv
<1>2. BlockInv'
  BY <1>1, BlockStep
<1>3. NoCall.phase = "idle"
  BY DEF NoCall
<1>4. CoreInv' /\ CallInv'
  <2>1. CASE WrapperArrival
    <3>1. CASE CreateWrapper
      BY <1>1, <3>1, CallCreate
    <3>2. CASE WrapperClaimSeat
      BY <1>1, <3>2, CallClaim
    <3>3. CASE \E token \in Tokens, atoms \in Amounts :
                    WrapperDeposit(token, atoms) \/ WrapperWithdraw(token, atoms)
      <4>1. Synced(FALSE) /\ call = NoCall /\ call' = call
        BY <3>3 DEF WrapperDeposit, WrapperWithdraw, Ready
      <4>2. [Next]_vars
        <5>1. \E token \in Tokens, atoms \in Amounts :
                    Deposit(Owner, token, atoms) \/ Withdraw(Owner, token, atoms)
          BY <3>3 DEF WrapperDeposit, WrapperWithdraw
        <5>2. MarketArrival
          BY <5>1, WrapperAssumption DEF MarketArrival
        <5>3. QED
          BY <5>2 DEF Next
      <4>3. QED
        BY <1>1, <4>1, <4>2, CallSynced
    <3>4. CASE \E batch \in WrapperBatches, globals \in GlobalsPassed :
                    WrapperBatchUpdate(batch, globals)
      BY <1>1, <3>4, CallBatch
    <3>5. QED
      BY <2>1, <3>1, <3>2, <3>3, <3>4 DEF WrapperArrival
  <2>2. CASE DirectArrival \/ DirectClean \/ SetupArrival
    <3>1. wrapper' = wrapper /\ call' = call /\ call = NoCall
      BY <2>2 DEF DirectArrival, DirectClean, SetupArrival, Ready
    <3>2. [Next]_vars
      <4>1. CASE DirectArrival
        <5>1. CASE \E token \in Tokens, atoms \in Amounts : Withdraw(Owner, token, atoms)
          BY <5>1, WrapperAssumption DEF MarketArrival, Next
        <5>2. CASE TradeArrival \/ AdvanceSlot
          BY <5>2 DEF Next
        <5>3. QED
          BY <4>1, <5>1, <5>2 DEF DirectArrival
      <4>2. CASE DirectClean
        BY <4>2 DEF DirectClean, GlobalArrival, Next
      <4>3. CASE SetupArrival
        BY <4>3 DEF SetupArrival, Next
      <4>4. QED
        BY <2>2, <4>1, <4>2, <4>3
    <3>3. QED
      BY <1>1, <1>3, <3>1, <3>2, CallApart
  <2>3. CASE SwapSteps
    <3>1. wrapper' = wrapper /\ call' = call /\ ctx.kind = "swap"
      BY <2>3 DEF SwapSteps
    <3>2. [Next]_vars
      BY <2>3 DEF SwapSteps, Next, Progress
    <3>3. call.phase = "idle"
      <4>1. ctx # Idle
        BY <3>1 DEF Idle
      <4>2. call.phase \in {"idle", "prepare", "cpi", "record", "rollback"}
        BY <1>1 DEF BlockInv, CallShape
      <4>3. QED
        BY <1>1, <3>1, <4>1, <4>2 DEF CallInv, Calling
    <3>4. QED
      BY <1>1, <3>1, <3>2, <3>3, CallApart
  <2>4. CASE DropOrder \/ ForwardOrder
    BY <1>1, <2>4, CallPrepare
  <2>5. CASE ExecuteCpi
    BY <1>1, <2>5, CallExecute
  <2>6. CASE ProcessResult
    BY <1>1, <2>6, CallResult
  <2>7. CASE SkipCall
    <3>1. /\ WrapperShape(wrapper) /\ BlocksPartitioned(wrapper) /\ EntriesNamed(wrapper)
          /\ SeatNamed(wrapper, accounts.m) /\ EndBatch(wrapper)
          /\ UNCHANGED <<accounts, work, ctx, slot>>
      BY <1>1, <2>7 DEF SkipCall, BlockInv, CallInv
    <3>2. QED
      BY <1>1, <3>1, CallEnded
  <2>8. CASE RollBack
    BY <1>1, <2>8, CallUndone
  <2>9. CASE CoreSteps
    BY <1>1, <2>9, CallRuns
  <2>10. CASE UNCHANGED wvars
    <3>1. UNCHANGED <<accounts, work, ctx, slot>> /\ call' = call /\ wrapper' = wrapper
      BY <2>10 DEF wvars
    <3>2. CoreInv'
      BY <1>1, <3>1, NothingMoves
    <3>3. CallInv'
      BY <1>1, <3>1 DEF CallInv, Calling, EntriesNamed, SeatNamed
    <3>4. QED
      BY <3>2, <3>3
  <2>11. QED
    BY <2>1, <2>2, <2>3, <2>4, <2>5, <2>6, <2>7, <2>8, <2>9, <2>10
       DEF OpenNext, WrapperNext, WrapperProgress, WrapperSteps
<1>5. QED
  BY <1>2, <1>4 DEF OpenInv

\* Calls of the wrapper do the core no harm: what holds of the market and the global
\* accounts when instructions reach the core directly still holds when a wrapper seats
\* its owner, moves its funds, calls the batch update several times in one instruction
\* with cancels and orders it has worked out, and is rolled back as a whole.
THEOREM CoreSoundWhenCalled ==
    OpenSpec => [](/\ TypeOK /\ BlocksSound /\ TotalsAreSums /\ SpareBlock
                   /\ SequenceNumbersUnique /\ BookNotCrossed /\ VaultBacksClaims
                   /\ GlobalVaultBacksDeposits /\ GasCoversOrders /\ OrdersReturnable)
<1>1. OpenInit => OpenInv
  BY OpenStarts
<1>2. OpenInv /\ [OpenNext]_wvars => OpenInv'
  BY OpenSteps
<1>3. OpenInv => /\ TypeOK /\ BlocksSound /\ TotalsAreSums /\ SpareBlock
                 /\ SequenceNumbersUnique /\ BookNotCrossed /\ VaultBacksClaims
                 /\ GlobalVaultBacksDeposits /\ GasCoversOrders /\ OrdersReturnable
  <2> SUFFICES ASSUME OpenInv
               PROVE  /\ TypeOK /\ BlocksSound /\ TotalsAreSums /\ SpareBlock
                      /\ SequenceNumbersUnique /\ BookNotCrossed /\ VaultBacksClaims
                      /\ GlobalVaultBacksDeposits /\ GasCoversOrders /\ OrdersReturnable
    OBVIOUS
  <2>1. /\ IInv /\ BookInv /\ DepositsInv /\ GasInv /\ SupplyInv /\ BidsInv
    BY DEF OpenInv, CoreInv
  <2>2. TypeOK
    BY <2>1, WorkIsSound DEF TypeOK
  <2>3. BlocksSound
    <3>1. OneSeatEach
      BY <2>1, WorkIsSound DEF OneSeatEach, UniqueSeats
    <3>2. QED
      BY <2>1, <3>1, WorkIsSound DEF BlocksSound, MarketSound
  <2>4. TotalsAreSums
    BY <2>1, WorkIsSound DEF TotalsAreSums, MarketSound
  <2>5. SequenceNumbersUnique
    BY <2>1 DEF BookInv, WorkBookSound, BookSound, SequencesSound, Reserved, MatchingPhases,
             SequenceNumbersUnique
  <2>6. BookNotCrossed
    BY <2>1 DEF BookInv, WorkBookSound, BookSound, NotCrossed, BookNotCrossed
  <2>7. GlobalVaultBacksDeposits
    BY <2>1 DEF DepositsInv, AllDepositsSound, DepositsSound, PendingOf, GlobalVaultBacksDeposits,
             Pending, MakerToken
  <2>8. OrdersReturnable
    BY <2>1, ReturnFits DEF OrdersReturnable, IInv, AccountsSound, DepositsInv, SupplyInv, BidsInv
  <2>9. QED
    BY <2>1, <2>2, <2>3, <2>4, <2>5, <2>6, <2>7, <2>8, BlockSpare, VaultBacks, GasCovered
<1>4. QED
  BY <1>1, <1>2, <1>3, PTL DEF OpenSpec

-----------------------------------------------------------------------------
(* Numbers name orders: what bears a number that was given out before a step, *)
(* was on the book before the step, of the same owner.                        *)

\* The orders of n with numbers below seq are orders of m.
OlderKept(m, n, seq) ==
    \A i \in OrderIndices(n) :
        n.data[i].seq < seq =>
            /\ i \in OrderIndices(m)
            /\ n.data[i].seq = m.data[i].seq
            /\ n.data[i].trader_index = m.data[i].trader_index

\* n came after m.
KeptOrders(m, n) == m.seq <= n.seq /\ OlderKept(m, n, m.seq)

\* No order with this number or a later one has come to rest.
NextNumber(m, c) == IF c.phase \in MatchingPhases THEN c.seq ELSE m.seq

KeptInv ==
    /\ accounts.m.seq <= NextNumber(work.m, ctx)
    /\ OlderKept(accounts.m, work.m, accounts.m.seq)

\* A step of the instruction in progress.
WorkMoves ==
    /\ accounts' = accounts
    /\ work.m.seq <= work'.m.seq
    /\ OlderKept(work.m, work'.m, NextNumber(work.m, ctx))
    /\ NextNumber(work.m, ctx) <= NextNumber(work'.m, ctx')

LEMMA SameOlder ==
    ASSUME NEW m, NEW n, SameOrders(m, n), NEW seq
    PROVE  OlderKept(m, n, seq)
BY DEF SameOrders, OlderKept

LEMMA RemovedOlder ==
    ASSUME NEW m, NEW n, NEW i, Removed(m, n, i), NEW seq
    PROVE  OlderKept(m, n, seq)
BY DEF Removed, OlderKept

LEMMA ResizedOlder ==
    ASSUME NEW m \in Markets, NEW n, NEW i \in OrderIndices(m), Resized(m, n, i), NEW seq
    PROVE  OlderKept(m, n, seq)
<1>1. PICK base \in Nat : n.data[i] = [m.data[i] EXCEPT !.base = base]
  BY DEF Resized
<1>2. m.data[i] \in RestingOrders
  BY OrderTyped
<1>3. n.data[i].seq = m.data[i].seq /\ n.data[i].trader_index = m.data[i].trader_index
  BY <1>1, <1>2 DEF RestingOrders
<1>4. QED
  BY <1>3 DEF Resized, OlderKept

LEMMA InsertedOlder ==
    ASSUME NEW m, NEW n, NEW order, Inserted(m, n, order), NEW seq, ~ (order.seq < seq)
    PROVE  OlderKept(m, n, seq)
BY DEF Inserted, OlderKept

LEMMA OlderTwice ==
    ASSUME NEW k, NEW m, NEW n, NEW seq, OlderKept(k, m, seq), OlderKept(m, n, seq)
    PROVE  OlderKept(k, n, seq)
BY DEF OlderKept

LEMMA OlderLess ==
    ASSUME NEW m, NEW n \in Markets, NEW seq \in Int, NEW less \in Int, less <= seq,
           OlderKept(m, n, seq)
    PROVE  OlderKept(m, n, less)
BY BookTyped DEF OlderKept

LEMMA KeptTwice ==
    ASSUME NEW k \in Markets, NEW m \in Markets, NEW n \in Markets,
           KeptOrders(k, m), KeptOrders(m, n)
    PROVE  KeptOrders(k, n)
<1>1. k.seq \in Nat /\ m.seq \in Nat /\ n.seq \in Nat
  BY BookTyped
<1>2. OlderKept(m, n, k.seq)
  BY <1>1, OlderLess DEF KeptOrders
<1>3. QED
  BY <1>1, <1>2, OlderTwice DEF KeptOrders

\* The number of the order being placed is taken.
LEMMA NumbersTyped ==
    ASSUME IInv, BookInv
    PROVE  /\ accounts.m.seq \in Nat /\ work.m.seq \in Nat /\ ctx.seq \in Nat
           /\ NextNumber(work.m, ctx) \in Nat /\ NextNumber(work.m, ctx) <= work.m.seq
           /\ ctx.phase \in MatchingPhases => ctx.seq < work.m.seq
<1>1. accounts.m.seq \in Nat /\ work.m.seq \in Nat /\ ctx.seq \in Nat
  BY BothMarkets, BookTyped DEF Contexts
<1>2. ctx.phase \in MatchingPhases => ctx.seq < work.m.seq
  BY DEF BookInv, WorkBookSound, Reserved
<1>3. QED
  BY <1>1, <1>2 DEF NextNumber

\* Most steps neither place an order nor take a number.
LEMMA QuietMoves ==
    ASSUME IInv, IInv', BookInv, accounts' = accounts, work.m.seq <= work'.m.seq,
           \A seq : OlderKept(work.m, work'.m, seq),
           ctx'.phase \in MatchingPhases => ctx.phase \in MatchingPhases /\ ctx'.seq = ctx.seq
    PROVE  WorkMoves
<1>1. /\ work.m.seq \in Nat /\ NextNumber(work.m, ctx) \in Nat
      /\ NextNumber(work.m, ctx) <= work.m.seq
  BY NumbersTyped
<1>2. work'.m.seq \in Nat
  BY BothMarketsNext, BookTyped
<1>3. NextNumber(work.m, ctx) <= NextNumber(work'.m, ctx')
  BY <1>1, <1>2 DEF NextNumber
<1>4. QED
  BY <1>3 DEF WorkMoves

LEMMA ReturnMoves ==
    ASSUME IInv, IInv', BookInv, ctx.phase \in {"cancel", "match"}, NEW i \in OrderIndices(work.m),
           CanReturnOrder(work.m, i), NEW cancels, NEW refunds,
           Step([work EXCEPT !.m = ReturnOrder(work.m, i)],
                [ctx EXCEPT !.cancels = cancels, !.refunds = refunds])
    PROVE  WorkMoves
<1> DEFINE m == ReturnOrder(work.m, i)
           w == [work EXCEPT !.m = m]
           c == [ctx EXCEPT !.cancels = cancels, !.refunds = refunds]
<1>1. WorkSound(work, ctx) /\ work \in Accounts /\ ctx \in Contexts /\ MarketSound(work.m)
  BY BusySound DEF WorkSound
<1>2. Removed(work.m, m, i) /\ m.seq = work.m.seq
  BY <1>1, ReturnOrderSound
<1> HIDE DEF m
<1>3. w.m = m /\ c.phase = ctx.phase /\ c.seq = ctx.seq
  BY <1>1 DEF Accounts, Contexts
<1>4. accounts' = accounts /\ work' = w /\ ctx' = c
  BY DEF Step, m
<1> HIDE DEF w, c
<1>5. work.m.seq <= work'.m.seq /\ \A seq : OlderKept(work.m, work'.m, seq)
  BY <1>1, <1>2, <1>3, <1>4, BookTyped, RemovedOlder DEF MarketSound
<1>6. QED
  BY <1>3, <1>4, <1>5, QuietMoves

LEMMA CancelMoves ==
    ASSUME IInv, IInv', BookInv, CancelOrder
    PROVE  WorkMoves
<1>1. PICK i \in Index :
        /\ i \in OrderIndices(work.m) /\ CanReturnOrder(work.m, i)
        /\ Step([work EXCEPT !.m = ReturnOrder(@, i)],
                [ctx EXCEPT !.cancels = Tail(@), !.refunds = DeferredRefunds(work.m.data[i])])
  BY DEF CancelOrder, IsCancelTarget, CanCancelOrder
<1>2. ctx.phase = "cancel" /\ work \in Accounts /\ ctx \in Contexts
  BY BusySound DEF CancelOrder, WorkSound
<1>3. Step([work EXCEPT !.m = ReturnOrder(work.m, i)],
           [ctx EXCEPT !.cancels = Tail(ctx.cancels),
                       !.refunds = DeferredRefunds(work.m.data[i])])
  BY <1>1
<1>4. QED
  BY <1>1, <1>2, <1>3, ReturnMoves

LEMMA CleanMoves ==
    ASSUME IInv, IInv', BookInv, CleanStaleMaker \/ CleanUnbackedMaker
    PROVE  WorkMoves
<1>1. PICK i \in Index : IsMaker(i) /\ CleanMaker(i)
  BY DEF CleanStaleMaker, CleanUnbackedMaker
<1>2. ctx.phase = "match" /\ i \in OrderIndices(work.m)
  BY <1>1, MakerSound
<1>3. ctx \in Contexts
  BY BothMarkets
<1>4. [ctx EXCEPT !.refunds = DeferredRefunds(work.m.data[i])]
        = [ctx EXCEPT !.cancels = ctx.cancels, !.refunds = DeferredRefunds(work.m.data[i])]
  BY <1>3 DEF Contexts
<1>5. /\ CanReturnOrder(work.m, i)
      /\ Step([work EXCEPT !.m = ReturnOrder(work.m, i)],
              [ctx EXCEPT !.cancels = ctx.cancels, !.refunds = DeferredRefunds(work.m.data[i])])
  BY <1>1, <1>4 DEF CleanMaker
<1>6. QED
  BY <1>2, <1>5, ReturnMoves

\* A step that leaves the book as it is.
LEMMA SameBookMoves ==
    ASSUME IInv, IInv', BookInv, accounts' = accounts, work'.m = work.m,
           ctx'.phase \in MatchingPhases => ctx.phase \in MatchingPhases /\ ctx'.seq = ctx.seq
    PROVE  WorkMoves
<1>1. work.m.seq <= work'.m.seq
  BY NumbersTyped
<1>2. \A seq : OlderKept(work.m, work'.m, seq)
  BY DEF OlderKept
<1>3. QED
  BY <1>1, <1>2, QuietMoves

LEMMA PrepayMoves ==
    ASSUME IInv, IInv', BookInv, PrepayGas
    PROVE  WorkMoves
<1> DEFINE glob == [token \in Tokens |->
                        [work.glob[token] EXCEPT !.gas = @ + GasPrepayments(token)]]
           w == [work EXCEPT !.glob = glob]
           c == [ctx EXCEPT !.phase = "next"]
<1>1. Step(w, c) /\ ctx.phase = "cancel"
  BY DEF PrepayGas
<1>2. work \in Accounts /\ ctx \in Contexts
  BY <1>1, BusySound DEF WorkSound
<1> HIDE DEF glob
<1>3. w.m = work.m /\ c.phase = "next"
  BY <1>2 DEF Accounts, Contexts
<1> HIDE DEF w, c
<1>4. QED
  BY <1>1, <1>3, SameBookMoves DEF Step, MatchingPhases

LEMMA StopMatchingMoves ==
    ASSUME IInv, IInv', BookInv, StopMatching
    PROVE  WorkMoves
<1>1. ctx.phase = "match" /\ Step(work, [ctx EXCEPT !.phase = "settle"])
  BY DEF StopMatching
<1>2. ctx \in Contexts
  BY BothMarkets
<1>3. accounts' = accounts /\ work' = work /\ ctx'.seq = ctx.seq
  BY <1>1, <1>2 DEF Step, Contexts
<1>4. QED
  BY <1>1, <1>3, SameBookMoves DEF MatchingPhases

LEMMA WalkMoves ==
    ASSUME IInv, IInv', BookInv, WalkPast \/ CountMaker \/ StopWalking
    PROVE  WorkMoves
<1>1. work' = work /\ accounts' = accounts /\ ctx'.phase \in {"impact", "next"}
  BY WalkEffect
<1>2. QED
  BY <1>1, SameBookMoves DEF MatchingPhases

LEMMA BeginOrderMoves ==
    ASSUME IInv, IInv', BookInv, BeginOrder
    PROVE  WorkMoves /\ ctx'.seq = work.m.seq /\ work'.m.seq = work.m.seq + 1
<1> DEFINE args == Head(ctx.orders)
           n == [work.m EXCEPT !.seq = @ + 1]
           w == [work EXCEPT !.m = n]
           c == [ctx EXCEPT !.phase = "match", !.orders = Tail(@), !.args = args,
                            !.seq = work.m.seq, !.remaining = args.base, !.pending = 0,
                            !.traded = NoTokens]
<1>1. ctx.phase = "next" /\ accounts' = accounts /\ SameOrders(work.m, work'.m)
  BY BeginOrderEffect
<1>2. work \in Accounts /\ ctx \in Contexts /\ work.m \in Markets
  BY <1>1, BusySound DEF WorkSound, MarketSound
<1>3. Step(w, c)
  BY <1>2 DEF BeginOrder, Accounts
<1>4. n.seq = work.m.seq + 1
  BY <1>2 DEF Markets
<1> HIDE DEF n
<1>5. w.m = n /\ c.phase = "match" /\ c.seq = work.m.seq
  BY <1>2 DEF Accounts, Contexts
<1> HIDE DEF w, c
<1>6. work'.m.seq = work.m.seq + 1 /\ ctx'.phase = "match" /\ ctx'.seq = work.m.seq
  BY <1>3, <1>4, <1>5 DEF Step
<1>7. NextNumber(work.m, ctx) = work.m.seq /\ NextNumber(work'.m, ctx') = work.m.seq
  BY <1>1, <1>6 DEF NextNumber, MatchingPhases
<1>8. OlderKept(work.m, work'.m, NextNumber(work.m, ctx)) /\ work.m.seq \in Nat
  BY <1>1, SameOlder, NumbersTyped
<1>9. QED
  BY <1>1, <1>6, <1>7, <1>8 DEF WorkMoves

LEMMA FilledMoves ==
    ASSUME IInv, IInv', BookInv, Fill
    PROVE  WorkMoves /\ ctx'.seq = ctx.seq
<1>1. PICK i \in Index : FilledBy(i)
  BY FillEffect
<1>2. /\ i \in OrderIndices(work.m) /\ accounts' = accounts /\ work'.m.seq = work.m.seq
      /\ ctx'.seq = ctx.seq /\ ctx'.phase \in {"match", "reverse"}
      /\ Removed(work.m, work'.m, i) \/ Resized(work.m, work'.m, i)
  BY <1>1 DEF FilledBy
<1>3. ctx.phase = "match" /\ work.m \in Markets
  BY <1>1, BothMarkets, MakerSound DEF FilledBy
<1>4. \A seq : OlderKept(work.m, work'.m, seq)
  BY <1>2, <1>3, RemovedOlder, ResizedOlder
<1>5. work.m.seq <= work'.m.seq
  BY <1>2, NumbersTyped
<1>6. WorkMoves
  BY <1>2, <1>3, <1>4, <1>5, QuietMoves DEF MatchingPhases
<1>7. QED
  BY <1>2, <1>6

\* A reversal comes after the order that is being placed.
LEMMA PlaceReverseMoves ==
    ASSUME IInv, IInv', BookInv, PlaceReverse
    PROVE  WorkMoves /\ ctx'.seq = ctx.seq
<1> DEFINE m == work.m
           n == work'.m
           r == ctx.reversal
           is_bid == ctx.args.is_bid
           c == [ctx EXCEPT !.phase = "match", !.reversal = NoReversal]
           next == NextNumber(m, ctx)
<1>1. PICK i : /\ ReversalOnBook(m, n, i, r, is_bid) /\ m \in Markets /\ ctx \in Contexts
               /\ ctx.phase = "reverse" /\ ctx' = c /\ accounts' = accounts
  BY PlaceReverseEffect
<1>2. c.phase = "match" /\ c.seq = ctx.seq
  BY <1>1 DEF Contexts
<1> HIDE DEF c
<1>3. ctx'.phase = "match" /\ ctx'.seq = ctx.seq
  BY <1>1, <1>2
<1>4. /\ m.seq \in Nat /\ ctx.seq \in Nat /\ ctx.seq < m.seq /\ next = ctx.seq
      /\ NextNumber(n, ctx') = ctx.seq
  BY <1>1, <1>3, NumbersTyped DEF NextNumber, MatchingPhases
<1> HIDE DEF m, n, r, is_bid, next
<1>5. m.seq <= n.seq /\ OlderKept(m, n, next)
  <2>1. CASE SameOrders(m, n) /\ n.seq = m.seq
    BY <1>4, <2>1, SameOlder
  <2>2. CASE i \in OrderIndices(m) /\ Resized(m, n, i) /\ n.seq = m.seq
    BY <1>1, <1>4, <2>2, ResizedOlder
  <2>3. CASE \E order \in RestingOrders :
                order.seq = m.seq /\ Inserted(m, n, order) /\ n.seq = m.seq + 1
    <3>1. PICK order \in RestingOrders :
                order.seq = m.seq /\ Inserted(m, n, order) /\ n.seq = m.seq + 1
      BY <2>3
    <3>2. ~ (order.seq < next)
      BY <1>4, <3>1
    <3>3. QED
      BY <1>4, <3>1, <3>2, InsertedOlder
  <2>4. QED
    BY <1>1, <2>1, <2>2, <2>3 DEF ReversalOnBook
<1>6. QED
  BY <1>1, <1>3, <1>4, <1>5 DEF WorkMoves, m, n, next

\* What rests has the number that was taken for it.
LEMMA FinishOrderMoves ==
    ASSUME IInv, IInv', BookInv, FinishOrder
    PROVE  WorkMoves /\ work'.m.seq = work.m.seq /\ ctx'.phase = "next"
<1> DEFINE order == RestingOrder(work.m)
<1>1. /\ ctx.phase = "settle" /\ accounts' = accounts /\ work'.m.seq = work.m.seq
      /\ IF Rests THEN Inserted(work.m, work'.m, order) ELSE SameOrders(work.m, work'.m)
      /\ ctx \in Contexts
      /\ ctx' = [ctx EXCEPT !.phase = "next", !.pending = 0, !.remaining = 0, !.seq = 0]
  BY FinishOrderEffect
<1>2. order.seq = ctx.seq
  BY DEF RestingOrder
<1> HIDE DEF order
<1>3. ctx'.phase = "next"
  BY <1>1 DEF Contexts
<1>4. /\ NextNumber(work.m, ctx) = ctx.seq /\ NextNumber(work'.m, ctx') = work.m.seq
      /\ ctx.seq \in Nat /\ work.m.seq \in Nat /\ ctx.seq < work.m.seq
  BY <1>1, <1>3, NumbersTyped DEF NextNumber, MatchingPhases
<1>5. ~ (order.seq < ctx.seq)
  BY <1>2, <1>4
<1>6. OlderKept(work.m, work'.m, ctx.seq)
  BY <1>1, <1>5, SameOlder, InsertedOlder
<1>7. work.m.seq <= work'.m.seq /\ ctx.seq <= work.m.seq
  BY <1>1, <1>4
<1>8. QED
  BY <1>1, <1>3, <1>4, <1>6, <1>7 DEF WorkMoves

LEMMA CommitFresh ==
    ASSUME IInv', NEW a, Commit(a)
    PROVE  KeptInv'
<1>1. accounts' = a /\ work' = a /\ ctx' = Idle
  BY DEF Commit
<1>2. accounts'.m \in Markets
  BY BothMarketsNext
<1>3. a.m.seq \in Nat
  BY <1>1, <1>2, BookTyped
<1>4. NextNumber(work'.m, ctx') = a.m.seq
  BY <1>1 DEF NextNumber, Idle, MatchingPhases
<1>5. OlderKept(accounts'.m, work'.m, accounts'.m.seq)
  BY <1>1 DEF OlderKept
<1>6. accounts'.m.seq <= NextNumber(work'.m, ctx')
  BY <1>1, <1>3, <1>4
<1>7. QED
  BY <1>5, <1>6 DEF KeptInv, NextNumber, OlderKept, OrderIndices

LEMMA CommitKept ==
    ASSUME IInv', NEW a, Commit(a), KeptOrders(accounts.m, a.m)
    PROVE  KeptInv' /\ KeptOrders(accounts.m, accounts'.m)
<1>1. KeptInv'
  BY CommitFresh
<1>2. QED
  BY <1>1 DEF Commit

LEMMA StepKept ==
    ASSUME IInv, IInv', BookInv, KeptInv, WorkMoves
    PROVE  KeptInv' /\ KeptOrders(accounts.m, accounts'.m)
<1> DEFINE next == NextNumber(work.m, ctx)
           after == NextNumber(work'.m, ctx')
           since == accounts.m.seq
<1>1. /\ accounts' = accounts /\ since <= next /\ next <= after
      /\ OlderKept(work.m, work'.m, next) /\ OlderKept(accounts.m, work.m, since)
  BY DEF KeptInv, WorkMoves
<1>2. since \in Nat /\ next \in Nat
  BY NumbersTyped
<1>3. after \in Nat /\ work'.m \in Markets
  <2>1. work'.m \in Markets /\ ctx'.seq \in Nat
    BY BothMarketsNext DEF Contexts
  <2>2. QED
    BY <2>1, BookTyped DEF NextNumber
<1> HIDE DEF next, after, since
<1>4. since <= after
  BY <1>1, <1>2, <1>3
<1>5. OlderKept(accounts.m, work'.m, since)
  BY <1>1, <1>2, <1>3, OlderLess, OlderTwice
<1>6. accounts'.m.seq <= NextNumber(work'.m, ctx')
  BY <1>1, <1>4 DEF since, after
<1>7. OlderKept(accounts'.m, work'.m, accounts'.m.seq)
  BY <1>1, <1>5 DEF since
<1>8. KeptInv'
  BY <1>6, <1>7 DEF KeptInv, NextNumber, OlderKept, OrderIndices
<1>9. KeptOrders(accounts.m, accounts'.m)
  BY <1>1, <1>2 DEF KeptOrders, OlderKept, since
<1>10. QED
  BY <1>8, <1>9

LEMMA AbortKept ==
    ASSUME IInv, IInv', BookInv, Abort
    PROVE  KeptInv' /\ KeptOrders(accounts.m, accounts'.m)
<1>1. accounts' = accounts /\ work' = accounts /\ ctx' = Idle
  BY DEF Abort
<1>2. accounts.m.seq \in Nat
  BY NumbersTyped
<1>3. KeptOrders(accounts.m, accounts.m)
  BY <1>2 DEF KeptOrders, OlderKept
<1>4. Commit(accounts)
  BY <1>1 DEF Abort, Commit
<1>5. QED
  BY <1>3, <1>4, CommitKept

LEMMA GlobalArrivalKept ==
    ASSUME IInv, IInv', BookInv, GlobalArrival
    PROVE  KeptInv' /\ KeptOrders(accounts.m, accounts'.m)
<1>1. accounts.m.seq \in Nat
  BY NumbersTyped
<1>2. CASE \E i \in Index : GlobalClean(i)
  <2>1. PICK i \in Index : GlobalClean(i)
    BY <1>2
  <2>2. /\ ctx = Idle /\ i \in OrderIndices(accounts.m) /\ CanReturnOrder(accounts.m, i)
        /\ \E g : Commit([accounts EXCEPT !.m = ReturnOrder(accounts.m, i), !.glob = g])
    <3> DEFINE order == accounts.m.data[i]
               token == Backing(order.is_bid)
               glob == [accounts.glob EXCEPT ![token].gas =
                            IF order.type = "Global" THEN @ - 1 ELSE @]
    <3>1. ctx = Idle
      BY <2>1 DEF GlobalClean
    <3>2. accounts \in Accounts
      BY <3>1, IdleSound DEF AccountsSound
    <3>3. Commit([accounts EXCEPT !.m = ReturnOrder(accounts.m, i), !.glob = glob])
      BY <2>1, <3>2 DEF GlobalClean, Accounts
    <3> HIDE DEF glob
    <3>4. QED
      BY <2>1, <3>3 DEF GlobalClean, CanCancelOrder
  <2>3. MarketSound(accounts.m) /\ accounts \in Accounts
    BY <2>2, IdleSound DEF AccountsSound
  <2> DEFINE n == ReturnOrder(accounts.m, i)
  <2>4. Removed(accounts.m, n, i) /\ n.seq = accounts.m.seq
    BY <2>2, <2>3, ReturnOrderSound
  <2> HIDE DEF n
  <2>5. PICK g : Commit([accounts EXCEPT !.m = n, !.glob = g])
    BY <2>2 DEF n
  <2> DEFINE a == [accounts EXCEPT !.m = n, !.glob = g]
  <2>6. a.m = n
    BY <2>3 DEF Accounts
  <2> HIDE DEF a
  <2>7. KeptOrders(accounts.m, a.m)
    BY <1>1, <2>4, <2>6, RemovedOlder DEF KeptOrders
  <2>8. QED
    BY <2>5, <2>7, CommitKept DEF a
<1>3. CASE ~ \E i \in Index : GlobalClean(i)
  <2>1. /\ ctx = Idle
        /\ \E glob, wallet : Commit([accounts EXCEPT !.glob = glob, !.wallet = wallet])
    BY <1>3, GlobalArrivalCommit DEF GlobalArrival
  <2>2. PICK glob, wallet : Commit([accounts EXCEPT !.glob = glob, !.wallet = wallet])
    BY <2>1
  <2> DEFINE a == [accounts EXCEPT !.glob = glob, !.wallet = wallet]
  <2>3. a.m = accounts.m
    BY <2>1, IdleSound DEF AccountsSound, Accounts
  <2> HIDE DEF a
  <2>4. KeptOrders(accounts.m, a.m)
    BY <1>1, <2>3 DEF KeptOrders, OlderKept
  <2>5. QED
    BY <2>2, <2>4, CommitKept DEF a
<1>4. QED
  BY <1>2, <1>3

\* A swap takes a seat if it has none, and credits it.
LEMMA SwapKept ==
    ASSUME IInv, IInv', BookInv, NEW trader \in Traders, NEW swap \in Swaps[trader],
           NEW globals \in GlobalsPassed, Swap(trader, swap, globals)
    PROVE  WorkMoves
<1> DEFINE existing == GetTraderIndex(accounts.m, trader)
           seated == IF existing = NIL THEN ClaimSeatOn(accounts.m, trader) ELSE accounts.m
           m == ExpandIfNeeded(seated)
           seat == GetTraderIndex(m, trader)
           token == InToken(swap)
           n == UpdateBalance(m, seat, token, swap.in)
           w == [work EXCEPT !.m = n]
<1>1. /\ ctx = Idle /\ CanExpandIfNeeded(seated)
      /\ CanUpdateBalance(m, seat, token, swap.in)
      /\ existing = NIL => HasFreeBlock(accounts.m)
  BY DEF Swap
<1>2. accounts' = accounts /\ work' = w /\ ctx'.phase \in {"impact", "next"}
  BY DEF Swap, Step, Idle
<1>3. AccountsSound(accounts) /\ work = accounts /\ accounts \in Accounts /\ MarketSound(accounts.m)
  BY <1>1, IdleSound DEF AccountsSound
<1>4. MarketSound(m) /\ seat \in SeatIndices(m)
  BY <1>1, <1>3, SwapSeated
<1>5. MarketSound(seated) /\ SameOrders(accounts.m, seated) /\ seated.seq = accounts.m.seq
  BY <1>1, <1>3, ClaimSeatSound DEF SameOrders
<1> HIDE DEF existing, seated
<1>6. m.seq = seated.seq
  BY <1>1, <1>5, ExpandIfNeededSound
<1> HIDE DEF m, seat
<1>7. swap.in \in Nat /\ token \in Tokens
  <2>1. swap \in SwapArgs
    BY ManifestAssumption
  <2>2. QED
    BY <2>1 DEF SwapArgs, InToken, Backing, Tokens
<1>8. n.seq = m.seq
  <2>1. m.data[seat].bal[token] + swap.in >= 0 /\ swap.in \in Int
    BY <1>1, <1>7 DEF CanUpdateBalance
  <2>2. SameBlocks(m, n)
    BY <1>4, <1>7, <2>1, UpdateBalanceSound
  <2>3. QED
    BY <2>2 DEF SameBlocks
<1> HIDE DEF n
<1>9. w.m = n
  BY <1>3 DEF Accounts
<1> HIDE DEF w
<1>10. work'.m.seq = work.m.seq
  BY <1>2, <1>3, <1>5, <1>6, <1>8, <1>9
<1>11. \A seq : OlderKept(work.m, work'.m, seq)
  BY SwapEffect, SameOlder
<1>12. work.m.seq <= work'.m.seq
  BY <1>10, NumbersTyped
<1>13. QED
  BY <1>2, <1>11, <1>12, QuietMoves DEF MatchingPhases

\* FinishBatch and FinishSwap commit the orders as they are.
LEMMA FinishKept ==
    ASSUME IInv, IInv', BookInv, KeptInv, FinishBatch \/ FinishSwap
    PROVE  KeptInv' /\ KeptOrders(accounts.m, accounts'.m)
<1>1. ctx.phase = "next"
  BY DEF FinishBatch, FinishSwap, SwapOrderDone
<1>2. WorkSound(work, ctx) /\ work \in Accounts /\ work.m \in Markets
  BY <1>1, BusySound DEF WorkSound, MarketSound
<1>3. PICK a : Commit(a) /\ SameOrders(work.m, a.m) /\ a.m.seq = work.m.seq
  <2>1. CASE FinishBatch
    <3> DEFINE glob == [token \in Tokens |->
                            [work.glob[token] EXCEPT !.gas = @ - ctx.refunds[token]]]
               a == [work EXCEPT !.glob = glob]
    <3>1. Commit(a)
      BY <2>1 DEF FinishBatch
    <3> HIDE DEF glob
    <3>2. a.m = work.m
      BY <1>2 DEF Accounts
    <3> HIDE DEF a
    <3>3. QED
      BY <3>1, <3>2 DEF SameOrders
  <2>2. CASE FinishSwap
    <3>1. \A t \in Tokens : Extra(t) >= 0
      BY <2>2, FinishSwapEffect
    <3>2. PICK a : Commit(a) /\ a.m = SeatSettled
      BY <2>2, FinishSwapEffect
    <3>3. SameOrders(work.m, SeatSettled) /\ SeatSettled.seq = work.m.seq
      BY <1>1, <1>2, <3>1, SeatSettledSound
    <3>4. QED
      BY <3>2, <3>3
  <2>3. QED
    BY <2>1, <2>2
<1>4. accounts.m.seq <= work.m.seq /\ OlderKept(accounts.m, work.m, accounts.m.seq)
  BY <1>1 DEF KeptInv, NextNumber, MatchingPhases
<1>5. OlderKept(accounts.m, a.m, accounts.m.seq)
  BY <1>3, <1>4, SameOlder, OlderTwice
<1>6. KeptOrders(accounts.m, a.m)
  BY <1>3, <1>4, <1>5 DEF KeptOrders
<1>7. QED
  BY <1>3, <1>6, CommitKept

LEMMA NextKept ==
    ASSUME IInv, IInv', BookInv, KeptInv, [Next]_vars
    PROVE  KeptInv' /\ KeptOrders(accounts.m, accounts'.m)
<1>1. CASE MarketArrival
  <2>1. PICK a : Commit(a) /\ SameOrders(accounts.m, a.m) /\ a.m.seq = accounts.m.seq
    BY <1>1, MarketArrivalOrders DEF OrdersStay
  <2>2. KeptOrders(accounts.m, a.m)
    BY <2>1, SameOlder, NumbersTyped DEF KeptOrders
  <2>3. QED
    BY <2>1, <2>2, CommitKept
<1>2. CASE GlobalArrival
  BY <1>2, GlobalArrivalKept
<1>3. ASSUME NEW trader, NEW batch, NEW globals, NEW cancels,
             BatchUpdate(trader, batch, globals, cancels)
      PROVE  WorkMoves
  <2>1. accounts' = accounts /\ work' = work /\ ctx'.phase = "cancel"
    BY <1>3 DEF BatchUpdate, Step, Idle
  <2>2. QED
    BY <2>1, SameBookMoves DEF MatchingPhases
<1>4. CASE TradeArrival
  BY <1>3, <1>4, SwapKept, StepKept DEF TradeArrival
<1>5. CASE AdvanceSlot \/ UNCHANGED vars
  <2>1. accounts' = accounts /\ work' = work /\ ctx' = ctx
    BY <1>5 DEF AdvanceSlot, vars
  <2>2. WorkMoves
    BY <2>1, SameBookMoves
  <2>3. QED
    BY <2>2, StepKept
<1>6. CASE Progress
  <2>1. CASE \/ CancelFails \/ PrepayGasFails \/ BeginOrderFails \/ FillFails
             \/ PlaceReverseFails \/ FinishOrderFails \/ EstimateFails \/ FinishSwapFails
    <3>1. Abort
      BY <2>1 DEF CancelFails, PrepayGasFails, BeginOrderFails, FillFails,
                  PlaceReverseFails, FinishOrderFails, EstimateFails, FinishSwapFails
    <3>2. QED
      BY <3>1, AbortKept
  <2>2. CASE CancelOrder \/ CleanStaleMaker \/ CleanUnbackedMaker \/ PrepayGas \/ StopMatching
                \/ WalkPast \/ CountMaker \/ StopWalking
    <3>1. WorkMoves
      BY <2>2, CancelMoves, CleanMoves, PrepayMoves, StopMatchingMoves, WalkMoves
    <3>2. QED
      BY <3>1, StepKept
  <2>3. CASE BeginOrder \/ Fill \/ PlaceReverse \/ FinishOrder
    <3>1. WorkMoves
      BY <2>3, BeginOrderMoves, FilledMoves, PlaceReverseMoves, FinishOrderMoves
    <3>2. QED
      BY <3>1, StepKept
  <2>4. CASE FinishBatch \/ FinishSwap
    BY <2>4, FinishKept
  <2>5. QED
    BY <1>6, <2>1, <2>2, <2>3, <2>4 DEF Progress
<1>7. QED
  BY <1>1, <1>2, <1>4, <1>5, <1>6 DEF Next

LEMMA InitKept == ASSUME Init PROVE KeptInv
<1>1. work = accounts /\ ctx = Idle /\ accounts.m.seq = 0
  BY DEF Init, NewMarket
<1>2. QED
  BY <1>1 DEF KeptInv, NextNumber, Idle, MatchingPhases, OlderKept

LEMMA KeptAdvances ==
    ASSUME IInv', BookInv', KeptOrders(accounts.m, accounts'.m), accounts.m.seq \in Nat
    PROVE  NumbersAdvance(accounts.m, accounts'.m)
<1> DEFINE n == accounts'.m
<1>1. n \in Markets
  BY BothMarketsNext
<1>2. \A i \in OrderIndices(n) : n.data[i].seq \in Nat /\ n.data[i].seq < n.seq
  BY <1>1, BookTyped DEF BookInv, BookSound, SequencesSound
<1>3. QED
  BY <1>2 DEF KeptOrders, OlderKept, NumbersAdvance

\* For any number of traders, blocks, prices and amounts: an order of the market was
\* there before the instruction, at the same index, with its number and of the same
\* trader, or has a number that the instruction has given out (NumbersGivenOnce).  No
\* number is given twice, whatever cancels, reversals, evictions and failures come
\* between, and no order that left the book comes back.
THEOREM NumbersNeverReused == Spec => NumbersGivenOnce
<1>1. Init => IInv /\ BookInv /\ KeptInv
  BY InitSound, InitBook, InitKept
<1>2. IInv /\ BookInv /\ [Next]_vars => IInv' /\ BookInv'
  BY NextSound, NextBook
<1>3. ASSUME IInv, IInv', BookInv, BookInv', KeptInv, [Next]_vars
      PROVE  KeptInv' /\ NumbersAdvance(accounts.m, accounts'.m)
  <2>1. KeptInv' /\ KeptOrders(accounts.m, accounts'.m)
    BY <1>3, NextKept
  <2>2. accounts.m.seq \in Nat
    BY <1>3, BookTyped DEF IInv, AccountsSound, MarketSound
  <2>3. QED
    BY <1>3, <2>1, <2>2, KeptAdvances
<1> HIDE DEF NumbersAdvance
<1>4. QED
  BY <1>1, <1>2, <1>3, PTL DEF Spec, NumbersGivenOnce

-----------------------------------------------------------------------------
(* Whom the entries, the cancels and the records name.                     *)

\* If there is an order with this number, it is of this seat.
SeqOwner(m, seq, seat) ==
    \A i \in OrderIndices(m) : m.data[i].seq = seq => m.data[i].trader_index = seat

\* Entries, or records, name orders of the seat, each another one, with numbers that
\* were given out before next.
RecordsOwned(s, seat, m, next) ==
    /\ \A k \in DOMAIN s : s[k].seq \in Nat /\ s[k].seq < next /\ SeqOwner(m, s[k].seq, seat)
    /\ \A j, k \in DOMAIN s : s[j].seq = s[k].seq => j = k

EntriesOwned(w, m) ==
    /\ w.info = NIL => w.orders = <<>>
    /\ RecordsOwned(w.orders, w.seat, m, m.seq)

\* The core has what is to be cancelled, and nothing is cancelled twice.
CancelsLive(cancels, m, seat) ==
    /\ \A k \in DOMAIN cancels :
        /\ cancels[k].hint \in OrderIndices(m)
        /\ m.data[cancels[k].hint].seq = cancels[k].seq
        /\ m.data[cancels[k].hint].trader_index = seat
    /\ \A j, k \in DOMAIN cancels : cancels[j].hint = cancels[k].hint => j = k

Before(s, t) == \A j \in DOMAIN s, k \in DOMAIN t : s[j].seq < t[k].seq

OwnInv ==
    /\ EntriesOwned(wrapper, accounts.m)
    /\ call.phase # "idle" => EntriesOwned(call.saved.wrapper, call.saved.accounts.m)
    /\ call.phase = "prepare" => CancelsLive(call.cancels, accounts.m, wrapper.seat)
    /\ call.phase = "cpi" /\ ctx.phase = "cancel" => CancelsLive(ctx.cancels, work.m, ctx.seat)
    /\ call.phase \in {"cpi", "record"} =>
        /\ RecordsOwned(call.records, wrapper.seat, work.m, NextNumber(work.m, ctx))
        /\ Before(wrapper.orders, call.records)

LEMMA OwnedNone == ASSUME NEW seat, NEW m, NEW next PROVE RecordsOwned(<<>>, seat, m, next)
<1> DEFINE s == <<>>
<1>1. DOMAIN s = {}
  OBVIOUS
<1> HIDE DEF s
<1>2. RecordsOwned(s, seat, m, next)
  BY <1>1 DEF RecordsOwned
<1>3. QED
  BY <1>2 DEF s

\* The market moves on.
LEMMA OwnedLater ==
    ASSUME NEW s, NEW seat, NEW m, NEW n, NEW next \in Int, NEW later \in Int,
           RecordsOwned(s, seat, m, next), OlderKept(m, n, next), next <= later
    PROVE  RecordsOwned(s, seat, n, later)
<1> SUFFICES ASSUME NEW k \in DOMAIN s
             PROVE  s[k].seq \in Nat /\ s[k].seq < later /\ SeqOwner(n, s[k].seq, seat)
  BY DEF RecordsOwned
<1>1. s[k].seq \in Nat /\ s[k].seq < next /\ SeqOwner(m, s[k].seq, seat)
  BY DEF RecordsOwned
<1> DEFINE seq == s[k].seq
<1> HIDE DEF seq
<1>2. seq \in Nat /\ seq < next /\ SeqOwner(m, seq, seat)
  BY <1>1 DEF seq
<1>3. SeqOwner(n, seq, seat)
  BY <1>2 DEF SeqOwner, OlderKept
<1>4. seq < later
  BY <1>2
<1>5. QED
  BY <1>2, <1>3, <1>4 DEF seq

\* Some of them, each at most once.
LEMMA OwnedSome ==
    ASSUME NEW s, NEW all, NEW seat, NEW m, NEW next, RecordsOwned(all, seat, m, next),
           NEW r \in [DOMAIN s -> DOMAIN all], \A i, j \in DOMAIN s : r[i] = r[j] => i = j,
           \A n \in DOMAIN s : s[n].seq = all[r[n]].seq
    PROVE  RecordsOwned(s, seat, m, next)
<1>1. ASSUME NEW k \in DOMAIN s
      PROVE  s[k].seq \in Nat /\ s[k].seq < next /\ SeqOwner(m, s[k].seq, seat)
  BY DEF RecordsOwned
<1>2. ASSUME NEW j \in DOMAIN s, NEW k \in DOMAIN s, s[j].seq = s[k].seq
      PROVE  j = k
  <2>1. r[j] \in DOMAIN all /\ r[k] \in DOMAIN all /\ all[r[j]].seq = all[r[k]].seq
    BY <1>2
  <2>2. r[j] = r[k]
    BY <2>1 DEF RecordsOwned
  <2>3. QED
    BY <2>2
<1>3. QED
  BY <1>1, <1>2 DEF RecordsOwned

LEMMA OwnedThinned ==
    ASSUME NEW s, NEW all, NEW seat, NEW m, NEW next, RecordsOwned(all, seat, m, next), Thinned(s, all)
    PROVE  RecordsOwned(s, seat, m, next)
BY OwnedSome DEF Thinned, IsInjective

\* In the order in which they came, or the other way round.
LEMMA OwnedTurned ==
    ASSUME NEW S, NEW s \in Seq(S), NEW seat, NEW m, NEW next, RecordsOwned(s, seat, m, next)
    PROVE  RecordsOwned(Reverse(s), seat, m, next)
<1> DEFINE n == Len(s)
           f == Reverse(s)
           r == [i \in 1 .. n |-> (n - i) + 1]
<1>1. n \in Nat /\ DOMAIN s = 1 .. n
  OBVIOUS
<1>2. f = [i \in 1 .. n |-> s[(n - i) + 1]]
  BY DEF Reverse
<1> HIDE DEF n, f
<1>3. DOMAIN f = 1 .. n /\ r \in [DOMAIN f -> DOMAIN s]
  BY <1>1, <1>2
<1>4. \A i, j \in DOMAIN f : r[i] = r[j] => i = j
  BY <1>1, <1>3
<1>5. \A i \in DOMAIN f : f[i] = s[r[i]]
  BY <1>2, <1>3
<1> HIDE DEF r
<1>6. \A i \in DOMAIN f : f[i].seq = s[r[i]].seq
  BY <1>5
<1>7. QED
  BY <1>3, <1>4, <1>6, OwnedSome DEF f

LEMMA OwnedTogether ==
    ASSUME NEW S, NEW s \in Seq(S), NEW t \in Seq(S), NEW seat, NEW m, NEW next,
           RecordsOwned(s, seat, m, next), RecordsOwned(t, seat, m, next), Before(t, s)
    PROVE  RecordsOwned(s \o t, seat, m, next)
<1> DEFINE c == s \o t
           p == Len(s)
           q == Len(t)
<1>1. c \in Seq(S) /\ Len(c) = p + q /\ p \in Nat /\ q \in Nat
  OBVIOUS
<1>2. \A k \in 1 .. p : c[k] = s[k]
  OBVIOUS
<1>3. \A k \in 1 .. q : c[p + k] = t[k]
  OBVIOUS
<1>4. DOMAIN s = 1 .. p /\ DOMAIN t = 1 .. q
  OBVIOUS
<1> HIDE DEF c, p, q
<1>5. DOMAIN c = 1 .. (p + q)
  BY <1>1
<1>6. \A k \in DOMAIN c : \/ k \in DOMAIN s /\ c[k] = s[k]
                          \/ k - p \in DOMAIN t /\ c[k] = t[k - p]
  <2> TAKE k \in DOMAIN c
  <2>1. CASE k <= p
    BY <1>1, <1>2, <1>4, <1>5, <2>1
  <2>2. CASE ~ (k <= p)
    <3>1. k - p \in 1 .. q /\ p + (k - p) = k
      BY <1>1, <1>5, <2>2
    <3>2. QED
      BY <1>3, <1>4, <3>1
  <2>3. QED
    BY <2>1, <2>2
<1>7. \A k \in DOMAIN c : c[k].seq \in Nat /\ c[k].seq < next /\ SeqOwner(m, c[k].seq, seat)
  BY <1>6 DEF RecordsOwned
<1>8. ASSUME NEW j \in DOMAIN c, NEW k \in DOMAIN c, c[j].seq = c[k].seq
      PROVE  j = k
  <2>1. CASE j \in DOMAIN s /\ c[j] = s[j] /\ k \in DOMAIN s /\ c[k] = s[k]
    BY <1>8, <2>1 DEF RecordsOwned
  <2>2. CASE /\ j - p \in DOMAIN t /\ c[j] = t[j - p]
             /\ k - p \in DOMAIN t /\ c[k] = t[k - p]
    <3>1. j - p = k - p
      BY <1>8, <2>2 DEF RecordsOwned
    <3>2. QED
      BY <1>1, <1>5, <3>1
  <2>3. ASSUME NEW x \in DOMAIN s, NEW y \in DOMAIN t PROVE s[x].seq # t[y].seq
    <3>1. t[y].seq < s[x].seq /\ t[y].seq \in Nat /\ s[x].seq \in Nat
      BY DEF Before, RecordsOwned
    <3>2. QED
      BY <3>1
  <2>4. QED
    BY <1>6, <1>8, <2>1, <2>2, <2>3
<1>9. QED
  BY <1>7, <1>8 DEF RecordsOwned, c

LEMMA CancelsNone == ASSUME NEW m, NEW seat PROVE CancelsLive(<<>>, m, seat)
<1> DEFINE s == <<>>
<1>1. DOMAIN s = {}
  OBVIOUS
<1> HIDE DEF s
<1>2. CancelsLive(s, m, seat)
  BY <1>1 DEF CancelsLive
<1>3. QED
  BY <1>2 DEF s

LEMMA CancelsTogether ==
    ASSUME NEW s \in Seq(Hints), NEW t \in Seq(Hints), NEW m, NEW seat,
           CancelsLive(s, m, seat), CancelsLive(t, m, seat),
           \A j \in DOMAIN s, k \in DOMAIN t : s[j].hint # t[k].hint
    PROVE  CancelsLive(s \o t, m, seat)
<1> DEFINE c == s \o t
           p == Len(s)
           q == Len(t)
<1>1. c \in Seq(Hints) /\ Len(c) = p + q /\ p \in Nat /\ q \in Nat
  OBVIOUS
<1>2. \A k \in 1 .. p : c[k] = s[k]
  OBVIOUS
<1>3. \A k \in 1 .. q : c[p + k] = t[k]
  OBVIOUS
<1>4. DOMAIN s = 1 .. p /\ DOMAIN t = 1 .. q
  OBVIOUS
<1> HIDE DEF c, p, q
<1>5. DOMAIN c = 1 .. (p + q)
  BY <1>1
<1>6. \A k \in DOMAIN c : \/ k \in DOMAIN s /\ c[k] = s[k]
                          \/ k - p \in DOMAIN t /\ c[k] = t[k - p]
  <2> TAKE k \in DOMAIN c
  <2>1. CASE k <= p
    BY <1>1, <1>2, <1>4, <1>5, <2>1
  <2>2. CASE ~ (k <= p)
    <3>1. k - p \in 1 .. q /\ p + (k - p) = k
      BY <1>1, <1>5, <2>2
    <3>2. QED
      BY <1>3, <1>4, <3>1
  <2>3. QED
    BY <2>1, <2>2
<1>7. ASSUME NEW k \in DOMAIN c
      PROVE  /\ c[k].hint \in OrderIndices(m)
             /\ m.data[c[k].hint].seq = c[k].seq
             /\ m.data[c[k].hint].trader_index = seat
  BY <1>6 DEF CancelsLive
<1>8. ASSUME NEW j \in DOMAIN c, NEW k \in DOMAIN c, c[j].hint = c[k].hint
      PROVE  j = k
  <2>1. CASE j \in DOMAIN s /\ c[j] = s[j] /\ k \in DOMAIN s /\ c[k] = s[k]
    BY <1>8, <2>1 DEF CancelsLive
  <2>2. CASE /\ j - p \in DOMAIN t /\ c[j] = t[j - p]
             /\ k - p \in DOMAIN t /\ c[k] = t[k - p]
    <3>1. j - p = k - p
      BY <1>8, <2>2 DEF CancelsLive
    <3>2. QED
      BY <1>1, <1>5, <3>1
  <2>3. QED
    BY <1>6, <1>8, <2>1, <2>2
<1>9. QED
  BY <1>7, <1>8 DEF CancelsLive, c

\* A sync leaves entries that name what the ones before it named.
LEMMA SyncedOwned ==
    ASSUME NEW w, WrapperShape(w), BlocksPartitioned(w), NEW m, NEW n, EntriesOwned(w, n),
           NEW orders_exact, NEW matcher
    PROVE  EntriesOwned(SyncFast(w, m, orders_exact, matcher), n)
<1> DEFINE u == SyncFast(w, m, orders_exact, matcher)
<1>1. SameInfo(w, u) /\ OrdersSynced(u, w, m, orders_exact, matcher) /\ WrapperShape(u)
  BY SyncFastSound
<1> HIDE DEF u
<1>2. PICK r \in [DOMAIN u.orders -> DOMAIN w.orders] :
        /\ IsInjective(r)
        /\ \A k \in DOMAIN u.orders : u.orders[k].seq = w.orders[r[k]].seq
  BY <1>1 DEF OrdersSynced
<1>3. RecordsOwned(u.orders, w.seat, n, n.seq)
  <2>1. \A i, j \in DOMAIN u.orders : r[i] = r[j] => i = j
    BY <1>2 DEF IsInjective
  <2>2. RecordsOwned(w.orders, w.seat, n, n.seq)
    BY DEF EntriesOwned
  <2>3. QED
    BY <1>2, <2>1, <2>2, OwnedSome
<1>4. u.info = NIL => u.orders = <<>>
  <2> SUFFICES ASSUME u.info = NIL PROVE u.orders = <<>>
    OBVIOUS
  <2>1. w.orders = <<>>
    BY <1>1 DEF SameInfo, EntriesOwned
  <2>2. DOMAIN w.orders = {}
    BY <2>1
  <2>3. DOMAIN u.orders = {}
    BY <1>2, <2>2
  <2>4. u.orders \in Seq(Range(u.orders))
    BY <1>1 DEF WrapperShape
  <2> DEFINE s == u.orders
  <2> HIDE DEF s
  <2>5. s \in Seq(Range(s)) /\ DOMAIN s = {}
    BY <2>3, <2>4 DEF s
  <2>6. Len(s) \in Nat /\ 1 .. Len(s) = {}
    BY <2>5
  <2>7. Len(s) = 0
    <3>1. ~ (1 \in 1 .. Len(s))
      BY <2>6
    <3>2. QED
      BY <2>6, <3>1
  <2>8. QED
    BY <2>5, <2>7 DEF s
<1>5. QED
  BY <1>1, <1>3, <1>4 DEF EntriesOwned, SameInfo, u

\* What a batch update is about to cancel is there: it has just been read.
LEMMA MatchedLive ==
    ASSUME NEW w, WrapperShape(w), BlocksPartitioned(w), EntriesNamed(w), NEW m,
           EntriesOwned(w, m), NEW batch
    PROVE  LET u == SyncFast(w, m, FALSE, batch)
           IN  CancelsLive(EntryCancels(MatchedEntries(u, batch)), m, u.seat)
<1> DEFINE u == SyncFast(w, m, FALSE, batch)
           f == MatchedEntries(u, batch)
           c == EntryCancels(f)
<1>1. /\ WrapperShape(u) /\ BlocksPartitioned(u)
      /\ \A exact : exact = FALSE => OrdersSynced(u, w, m, exact, batch)
  <2>1. \A exact : LET v == SyncFast(w, m, exact, batch)
                   IN  WrapperShape(v) /\ BlocksPartitioned(v) /\ OrdersSynced(v, w, m, exact, batch)
    BY SyncFastSound
  <2>2. QED
    BY <2>1
<1>2. EntriesNamed(u)
  <2>1. \A exact : EntriesNamed(SyncFast(w, m, exact, batch))
    BY SyncedNamed
  <2>2. QED
    BY <2>1
<1>3. RecordsOwned(u.orders, u.seat, m, m.seq)
  <2>1. \A exact : EntriesOwned(SyncFast(w, m, exact, batch), m)
    BY SyncedOwned
  <2>2. EntriesOwned(u, m)
    BY <2>1
  <2> HIDE DEF u
  <2>3. QED
    BY <2>2 DEF EntriesOwned
<1> HIDE DEF u
<1>4. OrdersPicked(f, {k \in DOMAIN u.orders : IsMatched(batch, u.orders[k])}, u)
  BY <1>1, MatchedPicked
<1>5. PICK r \in [DOMAIN u.orders -> DOMAIN w.orders] :
        \A k \in DOMAIN u.orders :
            /\ u.orders[k].seq = w.orders[r[k]].seq
            /\ u.orders[k].index = w.orders[r[k]].index
            /\ u.orders[k].id = w.orders[r[k]].id
            /\ IsMatched(batch, w.orders[r[k]]) => ~ Gone(m, w.orders[r[k]])
  BY <1>1 DEF OrdersSynced
<1>6. \A k \in DOMAIN u.orders : IsMatched(batch, u.orders[k]) =>
            /\ u.orders[k].index \in OrderIndices(m)
            /\ m.data[u.orders[k].index].seq = u.orders[k].seq
  <2> SUFFICES ASSUME NEW k \in DOMAIN u.orders, IsMatched(batch, u.orders[k])
               PROVE  /\ u.orders[k].index \in OrderIndices(m)
                      /\ m.data[u.orders[k].index].seq = u.orders[k].seq
    OBVIOUS
  <2>1. ~ Gone(m, w.orders[r[k]])
    BY <1>5 DEF IsMatched
  <2>2. m.data[u.orders[k].index].kind = "order" /\ m.data[u.orders[k].index].seq = u.orders[k].seq
    BY <1>5, <2>1 DEF Gone
  <2>3. u.orders[k].index \in Index
    BY <1>2 DEF EntriesNamed, Range
  <2>4. QED
    BY <2>2, <2>3 DEF OrderIndices
<1>7. RecordsOwned(f, u.seat, m, m.seq)
  BY <1>3, <1>4, OwnedThinned DEF OrdersPicked
<1>8. ASSUME NEW n \in DOMAIN f
      PROVE  /\ f[n].index \in OrderIndices(m) /\ m.data[f[n].index].seq = f[n].seq
             /\ m.data[f[n].index].trader_index = u.seat
  <2>1. PICK k \in DOMAIN u.orders : IsMatched(batch, u.orders[k]) /\ f[n] = u.orders[k]
    BY <1>4 DEF OrdersPicked
  <2>2. f[n].index \in OrderIndices(m) /\ m.data[f[n].index].seq = f[n].seq
    BY <1>6, <2>1
  <2>3. SeqOwner(m, f[n].seq, u.seat)
    BY <1>7 DEF RecordsOwned
  <2>4. QED
    BY <2>2, <2>3 DEF SeqOwner
<1>9. DOMAIN c = DOMAIN f /\ \A n \in DOMAIN f : c[n].hint = f[n].index /\ c[n].seq = f[n].seq
  BY DEF EntryCancels, CoreCancel
<1> HIDE DEF f, c
<1>10. ASSUME NEW j \in DOMAIN c, NEW k \in DOMAIN c, c[j].hint = c[k].hint
       PROVE  j = k
  <2>1. f[j].seq = f[k].seq
    BY <1>8, <1>9, <1>10
  <2>2. QED
    BY <1>7, <1>9, <2>1 DEF RecordsOwned
<1>11. ASSUME NEW k \in DOMAIN c
       PROVE  /\ c[k].hint \in OrderIndices(m)
              /\ m.data[c[k].hint].seq = c[k].seq
              /\ m.data[c[k].hint].trader_index = u.seat
  BY <1>8, <1>9
<1>12. CancelsLive(c, m, u.seat)
  BY <1>10, <1>11 DEF CancelsLive
<1>13. QED
  BY <1>12 DEF u, f, c

LEMMA BatchLive ==
    ASSUME NEW w, WrapperShape(w), BlocksPartitioned(w), EntriesNamed(w), NEW m, MarketSound(m),
           EntriesOwned(w, m), NEW batch, NEW d, NEW globals, NEW saved,
           BatchStarts(d, SyncFast(w, m, FALSE, batch), m, batch, globals, saved)
    PROVE  CancelsLive(d.cancels, m, SyncFast(w, m, FALSE, batch).seat)
<1> DEFINE u == SyncFast(w, m, FALSE, batch)
           f == MatchedEntries(u, batch)
           c == EntryCancels(f)
<1>1. CancelsLive(c, m, u.seat)
  BY MatchedLive
<1>2. WrapperShape(u) /\ BlocksPartitioned(u) /\ EntriesNamed(u)
  <2>1. \A exact : LET v == SyncFast(w, m, exact, batch)
                   IN  WrapperShape(v) /\ BlocksPartitioned(v)
    BY SyncFastSound
  <2>2. \A exact : EntriesNamed(SyncFast(w, m, exact, batch))
    BY SyncedNamed
  <2>3. QED
    BY <2>1, <2>2
<1>3. PICK untracked \in Seq(OrderIndices(m)) :
        /\ IsInjective(untracked)
        /\ \A k \in DOMAIN untracked : IsUntracked(untracked[k], m, u.seat, f)
        /\ d.cancels = c \o BookCancels(untracked, m)
  BY DEF BatchStarts
<1> DEFINE t == BookCancels(untracked, m)
<1> HIDE DEF u
<1>4. DOMAIN c = DOMAIN f /\ \A n \in DOMAIN f : c[n].seq = f[n].seq
  BY DEF EntryCancels, CoreCancel
<1>5. DOMAIN t = DOMAIN untracked /\ \A k \in DOMAIN untracked :
                t[k].hint = untracked[k] /\ t[k].seq = m.data[untracked[k]].seq
  BY DEF BookCancels, CoreCancel
<1>6. c \in Seq(Hints) /\ t \in Seq(Hints)
  BY <1>2, CancelsListed
<1> HIDE DEF c, t, f
<1>7. \A k \in DOMAIN t : IsUntracked(t[k].hint, m, u.seat, f) /\ t[k].seq = m.data[t[k].hint].seq
  BY <1>3, <1>5
<1>8. \A j, k \in DOMAIN t : t[j].hint = t[k].hint => j = k
  BY <1>3, <1>5 DEF IsInjective
<1>9. CancelsLive(t, m, u.seat)
  BY <1>7, <1>8 DEF CancelsLive, IsUntracked
<1>10. ASSUME NEW j \in DOMAIN c, NEW k \in DOMAIN t
       PROVE  c[j].hint # t[k].hint
  <2>1. m.data[c[j].hint].seq = f[j].seq
    BY <1>1, <1>4 DEF CancelsLive
  <2>2. f[j].seq # m.data[t[k].hint].seq
    BY <1>4, <1>7 DEF IsUntracked
  <2>3. QED
    BY <2>1, <2>2
<1>11. CancelsLive(c \o t, m, u.seat)
  BY <1>1, <1>6, <1>9, <1>10, CancelsTogether
<1>12. QED
  BY <1>3, <1>11 DEF u, t

LEMMA EntriesLater ==
    ASSUME NEW w, NEW m, NEW n, EntriesOwned(w, m), KeptOrders(m, n), m.seq \in Int, n.seq \in Int
    PROVE  EntriesOwned(w, n)
<1>1. RecordsOwned(w.orders, w.seat, n, n.seq)
  BY OwnedLater DEF EntriesOwned, KeptOrders
<1>2. QED
  BY <1>1 DEF EntriesOwned

\* Between instructions of the wrapper, or at the end of one.
LEMMA OwnIdle ==
    ASSUME EntriesOwned(wrapper', accounts'.m), call' = NoCall
    PROVE  OwnInv'
<1>1. call'.phase = "idle"
  BY DEF NoCall
<1>2. QED
  BY <1>1 DEF OwnInv, EntriesOwned, RecordsOwned, SeqOwner, OrderIndices

LEMMA SeqsTyped ==
    ASSUME CoreInv, CoreInv'
    PROVE  /\ accounts.m.seq \in Int /\ accounts'.m.seq \in Int
           /\ NextNumber(work.m, ctx) \in Int /\ NextNumber(work'.m, ctx') \in Int
<1>1. IInv /\ BookInv /\ IInv'
  BY DEF CoreInv
<1>2. accounts'.m \in Markets /\ work'.m \in Markets /\ ctx' \in Contexts
  BY <1>1, BothMarketsNext
<1>3. accounts'.m.seq \in Nat /\ work'.m.seq \in Nat /\ ctx'.seq \in Nat
  BY <1>2, BookTyped DEF Contexts
<1>4. QED
  BY <1>1, <1>3, NumbersTyped DEF NextNumber

\* Another instruction is sent to the core.
LEMMA OwnApart ==
    ASSUME CoreInv, CoreInv', OwnInv, call.phase = "idle", wrapper' = wrapper, call' = call,
           KeptOrders(accounts.m, accounts'.m)
    PROVE  OwnInv'
<1>1. EntriesOwned(wrapper, accounts.m)
  BY DEF OwnInv
<1>2. EntriesOwned(wrapper, accounts'.m)
  BY <1>1, SeqsTyped, EntriesLater
<1>3. call'.phase = "idle"
  OBVIOUS
<1>4. QED
  BY <1>2, <1>3 DEF OwnInv, EntriesOwned, RecordsOwned, SeqOwner, OrderIndices

LEMMA OwnCreate == ASSUME CreateWrapper PROVE OwnInv'
<1> DEFINE u == EnsureFreeSlots(NoWrapper, 1)
<1>1. wrapper' = u /\ call' = NoCall
  BY DEF CreateWrapper, Ready
<1>2. u.orders = <<>>
  <2>1. 1 \in Nat
    OBVIOUS
  <2>2. QED
    BY <2>1, NoWrapperSound, EnsureFreeSlotsSound
<1> HIDE DEF u
<1>3. \A m : EntriesOwned(u, m)
  BY <1>2, OwnedNone DEF EntriesOwned
<1>4. QED
  BY <1>1, <1>3, OwnIdle

LEMMA OwnClaim ==
    ASSUME CoreInv, CoreInv', BlockInv, OwnInv, WrapperClaimSeat
    PROVE  OwnInv' /\ KeptOrders(accounts.m, accounts'.m)
<1> DEFINE m == SeatedMarket(accounts.m, Owner)
           a == [accounts EXCEPT !.m = m]
<1>1. /\ call' = NoCall /\ Commit(a) /\ SeatedMarket(accounts.m, Owner).num <= MAX_BLOCKS
  BY DEF WrapperClaimSeat, Ready
<1>2. CommittedSound(accounts) /\ Owner \in Traders
  BY CoreCommitted, WrapperAssumption
<1>3. a.m = m /\ SameOrders(accounts.m, m) /\ m.seq = accounts.m.seq
  BY <1>1, <1>2, SeatedSound
<1>4. /\ wrapper'.orders \in {wrapper.orders, <<>>} /\ wrapper'.info # NIL
      /\ wrapper'.seat = IF wrapper.info # NIL THEN wrapper.seat ELSE GetTraderIndex(m, Owner)
  BY ClaimedWrapper
<1> HIDE DEF m, a
<1>5. accounts'.m = m
  BY <1>1, <1>3 DEF Commit
<1>6. KeptOrders(accounts.m, m)
  BY <1>3, SeqsTyped, SameOlder DEF KeptOrders
<1>7. EntriesOwned(wrapper, m)
  BY <1>5, <1>6, SeqsTyped, EntriesLater DEF OwnInv
<1>8. EntriesOwned(wrapper', m)
  <2>1. CASE wrapper'.orders = wrapper.orders /\ wrapper.info # NIL
    BY <1>4, <1>7, <2>1 DEF EntriesOwned
  <2>2. CASE wrapper'.orders = <<>>
    BY <1>4, <2>2, OwnedNone DEF EntriesOwned
  <2>3. CASE wrapper.info = NIL
    <3>1. wrapper'.orders = <<>>
      BY <1>4, <1>7, <2>3 DEF EntriesOwned
    <3>2. QED
      BY <1>4, <3>1, OwnedNone DEF EntriesOwned
  <2>4. QED
    BY <1>4, <2>1, <2>2, <2>3
<1>9. QED
  BY <1>1, <1>5, <1>6, <1>8, OwnIdle

LEMMA OwnSynced ==
    ASSUME CoreInv, CoreInv', BlockInv, OwnInv, Synced(FALSE), call = NoCall, call' = call,
           KeptOrders(accounts.m, accounts'.m)
    PROVE  OwnInv'
<1> DEFINE m == accounts'.m
           u == SyncFast(wrapper, m, FALSE, NoMatcher)
<1>1. wrapper' = u
  BY DEF Synced
<1>2. EntriesOwned(wrapper, m)
  BY SeqsTyped, EntriesLater DEF OwnInv
<1>3. WrapperShape(wrapper) /\ BlocksPartitioned(wrapper)
  BY DEF BlockInv
<1> HIDE DEF m
<1>4. \A exact : EntriesOwned(SyncFast(wrapper, m, exact, NoMatcher), m)
  BY <1>2, <1>3, SyncedOwned
<1>5. EntriesOwned(u, m)
  BY <1>4
<1> HIDE DEF u
<1>6. QED
  BY <1>1, <1>5, OwnIdle DEF m

LEMMA OwnBatch ==
    ASSUME CoreInv, BlockInv, CallInv, OwnInv, NEW batch, NEW globals,
           WrapperBatchUpdate(batch, globals)
    PROVE  OwnInv' /\ accounts' = accounts
<1> DEFINE m == accounts.m
           w == SyncFast(wrapper, m, FALSE, batch)
           saved == [accounts |-> accounts, wrapper |-> wrapper, outside |-> outside]
           d == call'
<1>1. wrapper' = w /\ accounts' = accounts /\ BatchStarts(d, w, m, batch, globals, saved)
  BY BatchStarted
<1>2. /\ WrapperShape(wrapper) /\ BlocksPartitioned(wrapper) /\ EntriesNamed(wrapper)
      /\ EntriesOwned(wrapper, m) /\ MarketSound(m)
  BY CoreCommitted DEF BlockInv, CallInv, OwnInv, CommittedSound, AccountsSound
<1>3. saved.accounts = accounts /\ saved.wrapper = wrapper
  OBVIOUS
<1> HIDE DEF saved, d, m
<1>4. CancelsLive(d.cancels, m, w.seat)
  BY <1>1, <1>2, BatchLive
<1>5. \A exact : EntriesOwned(SyncFast(wrapper, m, exact, batch), m)
  BY <1>2, SyncedOwned
<1>6. EntriesOwned(w, m)
  BY <1>5
<1> HIDE DEF w
<1>7. d.phase = "prepare" /\ d.saved = saved
  BY <1>1 DEF BatchStarts
<1>8. /\ call'.phase = "prepare" /\ EntriesOwned(call'.saved.wrapper, call'.saved.accounts.m)
      /\ CancelsLive(call'.cancels, accounts'.m, wrapper'.seat)
      /\ EntriesOwned(wrapper', accounts'.m)
  BY <1>1, <1>2, <1>3, <1>4, <1>6, <1>7 DEF m, d
<1>9. QED
  BY <1>1, <1>8 DEF OwnInv, EntriesOwned, RecordsOwned, SeqOwner, CancelsLive, OrderIndices

\* What must be shown when the instruction goes on.
LEMMA OwnOn ==
    ASSUME wrapper' = wrapper, EntriesOwned(wrapper, accounts'.m),
           EntriesOwned(call'.saved.wrapper, call'.saved.accounts.m),
           call'.phase = "prepare" => CancelsLive(call'.cancels, accounts'.m, wrapper.seat),
           call'.phase = "cpi" /\ ctx'.phase = "cancel" =>
                CancelsLive(ctx'.cancels, work'.m, ctx'.seat),
           call'.phase \in {"cpi", "record"} =>
                /\ RecordsOwned(call'.records, wrapper.seat, work'.m, NextNumber(work'.m, ctx'))
                /\ Before(wrapper.orders, call'.records)
    PROVE  OwnInv'
<1>1. wrapper'.seat = wrapper.seat /\ wrapper'.orders = wrapper.orders
  OBVIOUS
<1>2. EntriesOwned(wrapper', accounts'.m)
  OBVIOUS
<1>3. QED
  BY <1>1, <1>2 DEF OwnInv, EntriesOwned, RecordsOwned, SeqOwner, CancelsLive, OrderIndices, NextNumber,
                    Before

LEMMA OwnPrepare ==
    ASSUME CoreInv, BlockInv, CallInv, OwnInv, DropOrder \/ ForwardOrder
    PROVE  OwnInv' /\ accounts' = accounts
<1>1. slot \in Nat
  BY DEF CoreInv, IInv
<1>2. /\ wrapper' = wrapper /\ UNCHANGED <<accounts, work, ctx, slot>>
      /\ call.phase = "prepare" /\ call'.phase = "prepare"
      /\ call'.cancels = call.cancels /\ call'.saved = call.saved
  BY <1>1, PrepareMoves
<1>3. /\ EntriesOwned(wrapper, accounts.m)
      /\ EntriesOwned(call.saved.wrapper, call.saved.accounts.m)
      /\ CancelsLive(call.cancels, accounts.m, wrapper.seat)
  BY <1>2 DEF OwnInv
<1>4. QED
  BY <1>2, <1>3, OwnOn

\* The core is given what the wrapper has read in the accounts it is called with.
LEMMA OwnExecute ==
    ASSUME CoreInv, BlockInv, CallInv, OwnInv, ExecuteCpi
    PROVE  OwnInv' /\ KeptInv' /\ accounts' = accounts
<1> DEFINE c == call
           d == call'
           args == [k \in DOMAIN call.forwarded |-> call.forwarded[k].args]
           placed == call.placed \/ call.forwarded # <<>>
<1>1. /\ wrapper' = wrapper /\ call.phase = "prepare" /\ ctx = Idle
      /\ CallCore(accounts, wrapper.seat, call.globals, call.cancels, args,
                  [call EXCEPT !.placed = @ \/ call.forwarded # <<>>])
  BY DEF ExecuteCpi, Preparing
<1>2. accounts' = accounts /\ work' = accounts
  BY <1>1 DEF CallCore
<1>3. ctx'.phase = "cancel" /\ ctx'.seat = wrapper.seat /\ ctx'.cancels = call.cancels
  BY <1>1 DEF CallCore, Idle
<1>4. d = [[c EXCEPT !.placed = placed] EXCEPT !.phase = "cpi", !.records = <<>>]
  <2>1. d = [[c EXCEPT !.placed = @ \/ call.forwarded # <<>>] EXCEPT
                        !.phase = "cpi", !.records = <<>>]
    BY <1>1 DEF CallCore
  <2>2. QED
    BY <2>1 DEF BlockInv, CallShape
<1> HIDE DEF placed
<1>5. d = [c EXCEPT !.phase = "cpi", !.placed = placed, !.records = <<>>]
  BY <1>4, CallFields DEF BlockInv
<1>6. d.phase = "cpi" /\ d.records = <<>> /\ d.saved = c.saved
  <2>1. call.phase \in Busy
    BY <1>1 DEF Busy
  <2>2. QED
    BY <1>1, <1>5, <2>1, CallSteps
<1>7. /\ EntriesOwned(wrapper, accounts.m)
      /\ EntriesOwned(call.saved.wrapper, call.saved.accounts.m)
      /\ CancelsLive(call.cancels, accounts.m, wrapper.seat)
  BY <1>1 DEF OwnInv
<1>8. Before(wrapper.orders, <<>>)
  <2> DEFINE s == <<>>
  <2>1. DOMAIN s = {}
    OBVIOUS
  <2> HIDE DEF s
  <2>2. Before(wrapper.orders, s)
    BY <2>1 DEF Before
  <2>3. QED
    BY <2>2 DEF s
<1>9. OwnInv'
  <2>1. call'.phase = "cpi" /\ call'.records = <<>> /\ call'.saved = call.saved
    BY <1>6
  <2> HIDE DEF c, d
  <2>2. QED
    BY <1>1, <1>2, <1>3, <1>7, <1>8, <2>1, OwnedNone, OwnOn
<1>10. accounts.m.seq \in Nat
  BY NumbersTyped DEF CoreInv
<1>11. KeptInv'
  <2>1. NextNumber(work'.m, ctx') = accounts.m.seq
    BY <1>2, <1>3 DEF NextNumber, MatchingPhases
  <2>2. OlderKept(accounts'.m, work'.m, accounts'.m.seq)
    BY <1>2 DEF OlderKept
  <2>3. accounts'.m.seq <= NextNumber(work'.m, ctx')
    BY <1>2, <1>10, <2>1
  <2>4. QED
    BY <2>2, <2>3 DEF KeptInv, NextNumber, OlderKept, OrderIndices
<1>12. QED
  BY <1>2, <1>9, <1>11

\* A batch does not return to its cancels.
LEMMA CancelPhase ==
    ASSUME IInv, CoreGoesOn \/ Fill, ctx'.phase = "cancel"
    PROVE  CancelOrder
<1> DEFINE c == ctx
           d == ctx'
<1>1. c \in Contexts
  BY BothMarkets
<1>2. \/ CancelOrder \/ PrepayGas \/ BeginOrder \/ CleanStaleMaker \/ CleanUnbackedMaker
      \/ PlaceReverse \/ StopMatching \/ Fill
  BY DEF CoreGoesOn
<1>3. ~ PrepayGas
  BY <1>1 DEF PrepayGas, Step, Contexts
<1>4. ~ (BeginOrder \/ PlaceReverse \/ StopMatching)
  BY <1>1 DEF BeginOrder, PlaceReverse, StopMatching, Step, Contexts
<1>5. ~ (CleanStaleMaker \/ CleanUnbackedMaker)
  <2> SUFFICES ASSUME CleanStaleMaker \/ CleanUnbackedMaker PROVE FALSE
    OBVIOUS
  <2>1. \E refunds : c.phase = "match" /\ d = [c EXCEPT !.refunds = refunds]
    BY DEF CleanStaleMaker, CleanUnbackedMaker, CleanMaker, Step, IsMaker
  <2> HIDE DEF c, d
  <2>2. d.phase = "match"
    BY <1>1, <2>1 DEF Contexts
  <2>3. QED
    BY <2>2 DEF d
<1>6. ~ Fill
  <2>1. Fill => \E i \in Index : FilledBy(i)
    BY FillEffect
  <2>2. QED
    BY <2>1 DEF FilledBy
<1>7. QED
  BY <1>2, <1>3, <1>4, <1>5, <1>6

\* A cancel that is done takes no other order off the book.
LEMMA CancelsMove ==
    ASSUME IInv, CoreGoesOn \/ Fill, ctx'.phase = "cancel",
           CancelsLive(ctx.cancels, work.m, ctx.seat)
    PROVE  CancelsLive(ctx'.cancels, work'.m, ctx'.seat)
<1> DEFINE c == ctx
           d == ctx'
           m == work.m
           n == work'.m
<1>1. CancelOrder
  BY CancelPhase
<1>2. PICK i \in Index :
        /\ i \in OrderIndices(m) /\ CanReturnOrder(m, i) /\ c.cancels # <<>>
        /\ IsCancelTarget(i, Head(c.cancels))
        /\ Step([work EXCEPT !.m = ReturnOrder(@, i)],
                [c EXCEPT !.cancels = Tail(@), !.refunds = DeferredRefunds(m.data[i])])
  BY <1>1 DEF CancelOrder, IsCancelTarget, CanCancelOrder
<1>3. ctx.phase = "cancel" /\ work \in Accounts /\ ctx \in Contexts /\ MarketSound(m)
  BY <1>1, BusySound DEF CancelOrder, WorkSound
<1> DEFINE r == ReturnOrder(m, i)
           w == [work EXCEPT !.m = r]
           refunds == DeferredRefunds(m.data[i])
           e == [c EXCEPT !.cancels = Tail(c.cancels), !.refunds = refunds]
<1>4. work' = w /\ d = e
  BY <1>2 DEF Step
<1>5. Removed(m, r, i)
  BY <1>2, <1>3, ReturnOrderSound
<1> HIDE DEF r, refunds
<1>6. w.m = r /\ e.cancels = Tail(c.cancels) /\ e.seat = c.seat
  BY <1>3 DEF Accounts, Contexts
<1>7. c.cancels \in Seq(Hints) /\ c.cancels # <<>>
  BY <1>2, <1>3 DEF Contexts, Hints
<1> DEFINE s == c.cancels
           t == Tail(s)
<1>8. /\ Head(s) = s[1] /\ 1 \in DOMAIN s
      /\ \A k \in DOMAIN t : k + 1 \in DOMAIN s /\ t[k] = s[k + 1] /\ k \in Nat /\ k # 0
  BY <1>7
<1>9. i = s[1].hint
  <2>1. s[1].hint \in OrderIndices(m) /\ s[1].hint # NIL
    <3>1. s[1].hint \in OrderIndices(m)
      BY <1>8 DEF CancelsLive
    <3> DEFINE h == s[1].hint
    <3> HIDE DEF h
    <3>2. h \in Index
      BY <3>1 DEF OrderIndices, h
    <3>3. h # NIL
      BY <3>2, MarketAssumption DEF Index, NIL
    <3>4. QED
      BY <3>1, <3>3 DEF h
  <2>2. QED
    BY <1>2, <1>8, <2>1 DEF IsCancelTarget
<1>10. CancelsLive(s, m, c.seat)
  OBVIOUS
<1> HIDE DEF s, t, m, c, d, e, w
<1>11. ASSUME NEW k \in DOMAIN t
       PROVE  /\ t[k].hint \in OrderIndices(r) /\ r.data[t[k].hint].seq = t[k].seq
              /\ r.data[t[k].hint].trader_index = c.seat
  <2>1. /\ t[k].hint \in OrderIndices(m) /\ m.data[t[k].hint].seq = t[k].seq
        /\ m.data[t[k].hint].trader_index = c.seat
    BY <1>8, <1>10 DEF CancelsLive
  <2>2. t[k].hint # i
    <3>1. k + 1 \in DOMAIN s /\ t[k] = s[k + 1] /\ k + 1 # 1
      BY <1>8
    <3>2. QED
      BY <1>8, <1>9, <1>10, <3>1 DEF CancelsLive
  <2>3. QED
    BY <1>5, <2>1, <2>2 DEF Removed
<1>12. ASSUME NEW j \in DOMAIN t, NEW k \in DOMAIN t, t[j].hint = t[k].hint
       PROVE  j = k
  <2>1. /\ j + 1 \in DOMAIN s /\ t[j] = s[j + 1] /\ j \in Nat
        /\ k + 1 \in DOMAIN s /\ t[k] = s[k + 1] /\ k \in Nat
    BY <1>8
  <2>2. j + 1 = k + 1
    BY <1>10, <1>12, <2>1 DEF CancelsLive
  <2>3. QED
    BY <2>1, <2>2
<1>13. CancelsLive(t, r, c.seat)
  BY <1>11, <1>12 DEF CancelsLive
<1>14. work'.m = r /\ ctx'.cancels = t /\ ctx'.seat = c.seat
  BY <1>4, <1>6 DEF d, s, t
<1>15. QED
  BY <1>13, <1>14

\* What rests is the owner's and has a number of its own.
LEMMA PlacedOwned ==
    ASSUME CoreInv, CoreInv', CallInv, KeptInv, OwnInv, CorePlaced, Calling
    PROVE  LET records == Append(call.records, CoreRecord)
           IN  /\ RecordsOwned(records, wrapper.seat, work'.m, NextNumber(work'.m, ctx'))
               /\ Before(wrapper.orders, records)
<1> DEFINE s == call.records
           x == CoreRecord
           t == Append(s, x)
           m == work.m
           n == work'.m
           next == NextNumber(work.m, ctx)
           after == NextNumber(work'.m, ctx')
           seat == wrapper.seat
<1>1. FinishOrder /\ IInv /\ IInv' /\ BookInv
  BY DEF CorePlaced, CoreInv
<1>2. WorkMoves /\ work'.m.seq = work.m.seq /\ ctx'.phase = "next"
  BY <1>1, FinishOrderMoves
<1>3. /\ ctx.phase = "settle" /\ CoreRecord.seq = ctx.seq
      /\ \/ Inserted(m, n, RestingOrder(m))
         \/ SameOrders(m, n)
  BY <1>1, BatchPlaces, FinishOrderEffect
<1>4. RestingOrder(m).trader_index = seat /\ ctx.seat = seat
  BY DEF RestingOrder, CallInv
<1>5. /\ next = ctx.seq /\ after = work.m.seq /\ ctx.seq \in Nat /\ ctx.seq < work.m.seq
      /\ accounts.m.seq \in Nat /\ work.m.seq \in Nat
  BY <1>1, <1>2, <1>3, NumbersTyped DEF NextNumber, MatchingPhases
<1>6. Reserved(m, ctx.seq)
  BY <1>1, <1>3 DEF BookInv, WorkBookSound, MatchingPhases
<1>7. /\ RecordsOwned(s, seat, m, next) /\ Before(wrapper.orders, s) /\ s \in Seq(Records)
      /\ RecordsOwned(wrapper.orders, seat, accounts.m, accounts.m.seq)
      /\ accounts.m.seq <= next /\ OlderKept(m, n, next) /\ next <= after
  BY <1>2 DEF OwnInv, Calling, CallInv, EntriesOwned, KeptInv, WorkMoves
<1>8. x.seq = ctx.seq
  BY <1>3
<1> HIDE DEF x
<1>9. /\ DOMAIN t = DOMAIN s \cup {Len(s) + 1} /\ Len(s) + 1 \notin DOMAIN s
      /\ t[Len(s) + 1] = x /\ \A k \in DOMAIN s : t[k] = s[k]
  <2> DEFINE S == Records \cup {x}
  <2>1. s \in Seq(S) /\ x \in S
    BY <1>7
  <2> HIDE DEF S
  <2>2. QED
    BY <2>1, AppendProperties
<1> DEFINE last == Len(s) + 1
<1> HIDE DEF last, t, s, m, n, next, after, seat
<1>10. RecordsOwned(s, seat, n, after)
  BY <1>5, <1>7, OwnedLater
<1>11. SeqOwner(n, ctx.seq, seat)
  <2>1. CASE Inserted(m, n, RestingOrder(m))
    BY <1>4, <1>6, <2>1 DEF Inserted, Reserved, SeqOwner
  <2>2. CASE SameOrders(m, n)
    BY <1>6, <2>2 DEF SameOrders, Reserved, SeqOwner
  <2>3. QED
    BY <1>3, <2>1, <2>2
<1>12. x.seq \in Nat /\ x.seq < after /\ SeqOwner(n, x.seq, seat)
  BY <1>5, <1>8, <1>11
<1>13. \A k \in DOMAIN s : s[k].seq < x.seq /\ s[k].seq \in Nat
  BY <1>5, <1>7, <1>8 DEF RecordsOwned
<1>14. RecordsOwned(t, seat, n, after)
  <2>1. ASSUME NEW k \in DOMAIN t
        PROVE  t[k].seq \in Nat /\ t[k].seq < after /\ SeqOwner(n, t[k].seq, seat)
    BY <1>9, <1>10, <1>12 DEF RecordsOwned, last
  <2>2. ASSUME NEW j \in DOMAIN t, NEW k \in DOMAIN t, t[j].seq = t[k].seq
        PROVE  j = k
    <3>1. CASE j \in DOMAIN s /\ k \in DOMAIN s
      BY <1>9, <1>10, <2>2, <3>1 DEF RecordsOwned
    <3>2. \A y \in DOMAIN s : t[y].seq # x.seq
      BY <1>9, <1>12, <1>13
    <3>3. t[last].seq = x.seq /\ (j \in DOMAIN s \/ j = last) /\ (k \in DOMAIN s \/ k = last)
      BY <1>9 DEF last
    <3>4. QED
      BY <2>2, <3>1, <3>2, <3>3
  <2>3. QED
    BY <2>1, <2>2 DEF RecordsOwned
<1>15. Before(wrapper.orders, t)
  <2> DEFINE o == wrapper.orders
  <2> HIDE DEF o
  <2>1. \A j \in DOMAIN o : o[j].seq \in Nat /\ o[j].seq < accounts.m.seq
    BY <1>7 DEF RecordsOwned, o
  <2>2. \A j \in DOMAIN o : o[j].seq < x.seq
    BY <1>5, <1>7, <1>8, <2>1
  <2>3. Before(o, s)
    BY <1>7 DEF o
  <2>4. QED
    BY <1>9, <2>2, <2>3 DEF Before, last, o
<1>16. QED
  BY <1>14, <1>15 DEF t, s, n, after, seat, x

\* The core runs: on its own, or for the wrapper.
LEMMA OwnRuns ==
    ASSUME CoreInv, CoreInv', BlockInv, CallInv, KeptInv, OwnInv, CoreSteps,
           KeptOrders(accounts.m, accounts'.m)
    PROVE  OwnInv'
<1>1. wrapper' = wrapper /\ ctx.phase # "idle" /\ CallShape(call)
  BY CoreSteps_Next DEF BlockInv
<1>2. IInv /\ IInv' /\ BookInv
  BY DEF CoreInv
<1>3. EntriesOwned(wrapper, accounts'.m)
  BY SeqsTyped, EntriesLater DEF OwnInv
<1>4. CASE ~ Calling
  <2>1. call.phase = "idle"
    <3>1. ctx # Idle
      BY <1>1 DEF Idle
    <3>2. QED
      BY <1>1, <1>4, <3>1 DEF CallInv, Calling, CallShape
  <2>2. call' = call
    BY <1>4, CoreSteps_Call
  <2>3. QED
    BY <1>1, <2>1, <2>2, OwnApart
<1>5. CASE Calling
  <2> DEFINE next == NextNumber(work.m, ctx)
             after == NextNumber(work'.m, ctx')
  <2>1. /\ call.phase = "cpi" /\ ctx.seat = wrapper.seat
        /\ EntriesOwned(call.saved.wrapper, call.saved.accounts.m)
        /\ ctx.phase = "cancel" => CancelsLive(ctx.cancels, work.m, ctx.seat)
        /\ RecordsOwned(call.records, wrapper.seat, work.m, next) /\ Before(wrapper.orders, call.records)
    BY <1>5 DEF OwnInv, CallInv, Calling
  <2>2. next \in Int /\ after \in Int
    BY SeqsTyped
  <2>3. CASE (CoreGoesOn /\ UNCHANGED <<wrapper, outside>>)
                \/ (Fill /\ UNCHANGED <<call, wrapper, outside>>)
    <3>1. WorkMoves
      BY <1>2, <2>3, CancelMoves, CleanMoves, PrepayMoves, StopMatchingMoves, BeginOrderMoves,
         FilledMoves, PlaceReverseMoves DEF CoreGoesOn
    <3>2. OlderKept(work.m, work'.m, next) /\ next <= after
      BY <3>1 DEF WorkMoves
    <3> HIDE DEF next, after
    <3>3. RecordsOwned(call.records, wrapper.seat, work'.m, after)
      BY <2>1, <2>2, <3>2, OwnedLater
    <3>4. call' = call
      BY <2>3 DEF CoreGoesOn
    <3>5. ctx'.phase = "cancel" => CancelsLive(ctx'.cancels, work'.m, ctx'.seat)
      <4> SUFFICES ASSUME ctx'.phase = "cancel" PROVE CancelsLive(ctx'.cancels, work'.m, ctx'.seat)
        OBVIOUS
      <4>1. ctx.phase = "cancel"
        BY <1>2, <2>3, CancelPhase DEF CancelOrder
      <4>2. QED
        BY <1>2, <2>1, <2>3, <4>1, CancelsMove
    <3>6. QED
      BY <1>1, <1>3, <2>1, <3>3, <3>4, <3>5, OwnOn DEF after
  <2>4. CASE CorePlaced /\ UNCHANGED <<wrapper, outside>>
    <3> DEFINE records == Append(call.records, CoreRecord)
    <3>1. RecordsOwned(records, wrapper.seat, work'.m, after) /\ Before(wrapper.orders, records)
      BY <1>5, <2>4, PlacedOwned
    <3>2. CallWaits("cpi", records)
      BY <1>1, <1>5, <2>4, CallWaiting
    <3>3. ctx'.phase = "next"
      BY <1>2, <2>4, FinishOrderMoves DEF CorePlaced
    <3> HIDE DEF records
    <3>4. call'.phase = "cpi" /\ call'.records = records /\ call'.saved = call.saved
      BY <3>2 DEF CallWaits
    <3>5. QED
      BY <1>1, <1>3, <2>1, <3>1, <3>3, <3>4, OwnOn
  <2>5. CASE CoreFails /\ UNCHANGED <<wrapper, outside>>
    <3>1. call'.phase = "rollback" /\ call'.saved = call.saved
      BY <1>1, <1>5, <2>5, CallWaiting DEF CallWaits
    <3>2. QED
      BY <1>1, <1>3, <2>1, <3>1, OwnOn
  <2>6. CASE CoreReturns
    <3>1. ctx.phase = "next" /\ FinishBatch
      BY <2>6 DEF CoreReturns, FinishBatch
    <3>2. call'.phase = "record" /\ call'.records = call.records /\ call'.saved = call.saved
      BY <1>1, <1>5, <2>6, CallWaiting DEF CallWaits
    <3>3. work'.m = work.m /\ ctx' = Idle
      <4>1. work \in Accounts
        BY <1>2, WorkIsSound
      <4>2. \E glob : Commit([work EXCEPT !.glob = glob])
        BY <3>1 DEF FinishBatch
      <4>3. PICK glob : Commit([work EXCEPT !.glob = glob])
        BY <4>2
      <4> DEFINE a == [work EXCEPT !.glob = glob]
      <4>4. a.m = work.m
        BY <4>1 DEF Accounts
      <4> HIDE DEF a
      <4>5. QED
        BY <4>3, <4>4 DEF Commit, a
    <3>4. after = next
      BY <3>1, <3>3 DEF NextNumber, Idle, MatchingPhases
    <3>5. QED
      BY <1>1, <1>3, <2>1, <3>2, <3>3, <3>4, OwnOn
  <2>7. QED
    BY <2>3, <2>4, <2>5, <2>6 DEF CoreSteps
<1>6. QED
  BY <1>4, <1>5

\* The end of an instruction of the wrapper.
LEMMA OwnEnded ==
    ASSUME NEW w, WrapperShape(w), BlocksPartitioned(w), EntriesOwned(w, accounts.m), EndBatch(w),
           accounts' = accounts
    PROVE  OwnInv'
<1> DEFINE m == accounts.m
           exact == ~ call.placed
           u == SyncFast(w, m, exact, NoMatcher)
<1>1. wrapper' = u /\ call' = NoCall /\ accounts'.m = m
  BY DEF EndBatch
<1> HIDE DEF m, exact
<1>2. EntriesOwned(u, m)
  BY SyncedOwned DEF m
<1> HIDE DEF u
<1>3. QED
  BY <1>1, <1>2, OwnIdle

\* The answer becomes entries.
LEMMA OwnResult ==
    ASSUME CoreInv, BlockInv, CallInv, OwnInv, ProcessResult
    PROVE  OwnInv'
<1> DEFINE v == CancelsProcessed(wrapper)
           u == OrdersProcessed(v)
           m == accounts.m
           seat == wrapper.seat
<1>1. call.phase = "record" /\ UNCHANGED <<accounts, work, ctx, slot>>
  BY DEF ProcessResult
<1>2. /\ WrapperShape(v) /\ BlocksPartitioned(v) /\ Thinned(v.orders, wrapper.orders)
      /\ WrapperShape(u) /\ BlocksPartitioned(u) /\ u.info = wrapper.info
      /\ u.seat = wrapper.seat /\ OrdersAdded(u, v)
  BY <1>1, ResultProcessed
<1>3. \/ EndBatch(u)
      \/ wrapper' = u /\ call' = [call EXCEPT !.phase = "prepare", !.cancels = <<>>, !.blocks = <<>>,
                                              !.forwarded = <<>>, !.records = <<>>,
                                              !.left = accounts.m.data[wrapper.seat].bal]
  BY DEF ProcessResult
<1>4. /\ EntriesOwned(wrapper, m) /\ Before(wrapper.orders, call.records)
      /\ RecordsOwned(call.records, seat, work.m, NextNumber(work.m, ctx))
      /\ EntriesOwned(call.saved.wrapper, call.saved.accounts.m)
      /\ wrapper.info # NIL /\ ctx = Idle
      /\ Len(call.forwarded) = Len(call.records) /\ call.records \in Seq(Records)
      /\ call.forwarded \in Seq(WrapperOrders)
  BY <1>1 DEF OwnInv, CallInv
<1>5. work = accounts /\ NextNumber(work.m, ctx) = m.seq
  BY <1>4, IdleSound DEF CoreInv, NextNumber, Idle, MatchingPhases
<1>6. RecordsOwned(call.records, seat, m, m.seq)
  BY <1>4, <1>5
<1> HIDE DEF v, u, m, seat
<1>7. RecordsOwned(v.orders, seat, m, m.seq)
  BY <1>2, <1>4, OwnedThinned DEF EntriesOwned, seat
<1>8. PICK new : /\ new \in Seq(Range(new)) /\ DOMAIN new = DOMAIN RestedRecords
                 /\ \A k \in DOMAIN new : /\ new[k].seq = RestedRecords[k].record.seq
                                          /\ new[k].index = RestedRecords[k].record.index
                 /\ u.orders = Reverse(new) \o v.orders
  BY <1>2 DEF OrdersAdded
<1>9. PICK r : /\ r \in [DOMAIN new -> DOMAIN call.records]
               /\ \A k \in DOMAIN new : new[k].seq = call.records[r[k]].seq
               /\ \A i, j \in DOMAIN new : r[i] = r[j] => i = j
  <2>1. call.forwarded \in Seq(Range(call.forwarded))
    BY DEF BlockInv, CallShape
  <2>2. PICK r : /\ r \in [DOMAIN RestedRecords -> DOMAIN call.forwarded]
                 /\ \A n \in DOMAIN RestedRecords : RestedRecords[n] = SentOrders[r[n]]
                 /\ \A i, j \in DOMAIN RestedRecords : r[i] = r[j] => i = j
    BY <2>1, RestedRecordsTyped
  <2>3. DOMAIN call.forwarded = DOMAIN call.records
    BY <1>4
  <2>4. \A k \in DOMAIN call.forwarded : SentOrders[k].record = call.records[k]
    <3> TAKE k \in DOMAIN call.forwarded
    <3>1. SentOrders[k] = [sent |-> call.forwarded[k], record |-> call.records[k]]
      BY DEF SentOrders
    <3> HIDE DEF SentOrders
    <3>2. QED
      BY <3>1
  <2>5. \A k \in DOMAIN new : new[k].seq = call.records[r[k]].seq
    <3> TAKE k \in DOMAIN new
    <3>1. r[k] \in DOMAIN call.forwarded /\ RestedRecords[k] = SentOrders[r[k]]
      BY <1>8, <2>2
    <3>2. RestedRecords[k].record = call.records[r[k]]
      BY <2>4, <3>1
    <3>3. QED
      BY <1>8, <3>2
  <2>6. r \in [DOMAIN new -> DOMAIN call.records]
    BY <1>8, <2>2, <2>3
  <2>7. QED
    BY <1>8, <2>2, <2>5, <2>6
<1>10. RecordsOwned(new, seat, m, m.seq)
  BY <1>6, <1>9, OwnedSome
<1> DEFINE f == Reverse(new)
           S == Range(new) \cup Range(v.orders)
<1>11. /\ new \in Seq(S) /\ v.orders \in Seq(S) /\ f \in Seq(S)
       /\ Range(f) = Range(new)
  <2>1. new \in Seq(S) /\ v.orders \in Seq(S)
    BY <1>2, <1>8 DEF WrapperShape
  <2> HIDE DEF S
  <2>2. QED
    BY <2>1, TurnedRound
<1>12. RecordsOwned(f, seat, m, m.seq)
  BY <1>10, <1>11, OwnedTurned
<1> HIDE DEF f, S
<1>13. Before(v.orders, f)
  <2> SUFFICES ASSUME NEW j \in DOMAIN v.orders, NEW k \in DOMAIN f
               PROVE  v.orders[j].seq < f[k].seq
    BY DEF Before
  <2>1. PICK i \in DOMAIN new : f[k] = new[i]
    BY <1>11 DEF Range
  <2>2. PICK x \in DOMAIN wrapper.orders : v.orders[j] = wrapper.orders[x]
    BY <1>2 DEF Thinned
  <2>3. r[i] \in DOMAIN call.records /\ new[i].seq = call.records[r[i]].seq
    BY <1>9
  <2>4. wrapper.orders[x].seq < call.records[r[i]].seq
    BY <1>4, <2>3 DEF Before
  <2>5. QED
    BY <2>1, <2>2, <2>3, <2>4
<1>14. RecordsOwned(u.orders, seat, m, m.seq)
  BY <1>7, <1>8, <1>11, <1>12, <1>13, OwnedTogether DEF f
<1>15. EntriesOwned(u, m)
  BY <1>2, <1>4, <1>14 DEF EntriesOwned, seat
<1>16. CASE EndBatch(u)
  BY <1>1, <1>2, <1>15, <1>16, OwnEnded DEF m
<1>17. CASE wrapper' = u /\ call' = [call EXCEPT !.phase = "prepare", !.cancels = <<>>, !.blocks = <<>>,
                                                !.forwarded = <<>>, !.records = <<>>,
                                                !.left = accounts.m.data[wrapper.seat].bal]
  <2> DEFINE c == call
             d == call'
             left == accounts.m.data[wrapper.seat].bal
  <2>1. /\ c \in [phase : {c.phase}, cancels : {c.cancels},
                  blocks : Seq(Nat), orders : {c.orders}, forwarded : {c.forwarded},
                  left : {c.left}, globals : {c.globals}, placed : {c.placed},
                  records : {c.records}, unfunded : {c.unfunded}, saved : {c.saved}]
    BY DEF BlockInv, CallShape
  <2>2. d = [c EXCEPT !.phase = "prepare", !.cancels = <<>>, !.blocks = <<>>,
                      !.forwarded = <<>>, !.records = <<>>, !.left = left]
    BY <1>17
  <2> HIDE DEF c, d, left
  <2>3. d.phase = "prepare" /\ d.cancels = <<>> /\ d.saved = c.saved
    BY <2>1, <2>2
  <2>4. CancelsLive(d.cancels, accounts'.m, wrapper'.seat)
    BY <2>3, CancelsNone
  <2>5. /\ call'.phase = "prepare" /\ EntriesOwned(wrapper', accounts'.m)
        /\ EntriesOwned(call'.saved.wrapper, call'.saved.accounts.m)
        /\ CancelsLive(call'.cancels, accounts'.m, wrapper'.seat)
    BY <1>1, <1>4, <1>15, <1>17, <2>3, <2>4 DEF c, d, m
  <2>6. QED
    BY <2>5 DEF OwnInv, EntriesOwned, RecordsOwned, SeqOwner, CancelsLive, OrderIndices
<1>18. QED
  BY <1>3, <1>16, <1>17

LEMMA OwnUndone ==
    ASSUME CoreInv, CoreInv', OwnInv, RollBack
    PROVE  OwnInv' /\ KeptInv'
<1> DEFINE a == call.saved.accounts
           w == call.saved.wrapper
<1>1. call.phase # "idle" /\ Commit(a) /\ wrapper' = w /\ call' = NoCall
  BY DEF RollBack
<1>2. EntriesOwned(w, a.m)
  BY <1>1 DEF OwnInv
<1>3. accounts'.m = a.m
  BY <1>1 DEF Commit
<1> HIDE DEF a, w
<1>4. OwnInv'
  BY <1>1, <1>2, <1>3, OwnIdle
<1>5. IInv'
  BY DEF CoreInv
<1>6. QED
  BY <1>1, <1>4, <1>5, CommitFresh

\* What the wrapper is to the core, and what it knows of it.
TracedInv == OpenInv /\ KeptInv /\ OwnInv

LEMMA TracedStarts == ASSUME OpenInit PROVE TracedInv
<1>1. OpenInv /\ KeptInv
  BY OpenStarts, InitKept DEF OpenInit
<1>2. wrapper.orders = <<>> /\ call.phase = "idle"
  BY NoWrapperSound DEF OpenInit, NoCall
<1>3. OwnInv
  BY <1>2, OwnedNone DEF OwnInv, EntriesOwned
<1>4. QED
  BY <1>1, <1>3 DEF TracedInv

LEMMA TracedSteps == ASSUME TracedInv, [OpenNext]_wvars PROVE TracedInv'
<1>1. OpenInv /\ KeptInv /\ OwnInv /\ CoreInv /\ BlockInv /\ CallInv /\ IInv /\ BookInv
  BY DEF TracedInv, OpenInv, CoreInv
<1>2. OpenInv' /\ CoreInv' /\ IInv'
  <2>1. OpenInv'
    BY <1>1, OpenSteps
  <2>2. QED
    BY <2>1 DEF OpenInv, CoreInv
<1>3. NoCall.phase = "idle"
  BY DEF NoCall
<1>4. [Next]_vars => KeptInv' /\ KeptOrders(accounts.m, accounts'.m)
  BY <1>1, <1>2, NextKept
<1>5. UNCHANGED <<accounts, work, ctx, slot>> => [Next]_vars
  BY DEF vars
<1>6. KeptInv' /\ OwnInv'
  <2>1. CASE WrapperArrival
    <3>1. CASE CreateWrapper
      BY <1>4, <1>5, <3>1, OwnCreate DEF CreateWrapper
    <3>2. CASE WrapperClaimSeat
      <4>1. OwnInv'
        BY <1>1, <1>2, <3>2, OwnClaim
      <4>2. KeptInv'
        BY <1>2, <3>2, CommitFresh DEF WrapperClaimSeat
      <4>3. QED
        BY <4>1, <4>2
    <3>3. CASE \E token \in Tokens, atoms \in Amounts :
                    WrapperDeposit(token, atoms) \/ WrapperWithdraw(token, atoms)
      <4>1. Synced(FALSE) /\ call = NoCall /\ call' = call
        BY <3>3 DEF WrapperDeposit, WrapperWithdraw, Ready
      <4>2. [Next]_vars
        <5>1. \E token \in Tokens, atoms \in Amounts :
                    Deposit(Owner, token, atoms) \/ Withdraw(Owner, token, atoms)
          BY <3>3 DEF WrapperDeposit, WrapperWithdraw
        <5>2. MarketArrival
          BY <5>1, WrapperAssumption DEF MarketArrival
        <5>3. QED
          BY <5>2 DEF Next
      <4>3. QED
        BY <1>1, <1>2, <1>4, <4>1, <4>2, OwnSynced
    <3>4. CASE \E batch \in WrapperBatches, globals \in GlobalsPassed :
                    WrapperBatchUpdate(batch, globals)
      <4>1. PICK batch \in WrapperBatches, globals \in GlobalsPassed :
                    WrapperBatchUpdate(batch, globals)
        BY <3>4
      <4>2. OwnInv'
        BY <1>1, <4>1, OwnBatch
      <4>3. UNCHANGED <<accounts, work, ctx, slot>>
        BY <4>1 DEF WrapperBatchUpdate
      <4>4. QED
        BY <1>4, <1>5, <4>2, <4>3
    <3>5. QED
      BY <2>1, <3>1, <3>2, <3>3, <3>4 DEF WrapperArrival
  <2>2. CASE DirectArrival \/ DirectClean \/ SetupArrival
    <3>1. wrapper' = wrapper /\ call' = call /\ call = NoCall
      BY <2>2 DEF DirectArrival, DirectClean, SetupArrival, Ready
    <3>2. [Next]_vars
      <4>1. CASE DirectArrival
        <5>1. CASE \E token \in Tokens, atoms \in Amounts : Withdraw(Owner, token, atoms)
          BY <5>1, WrapperAssumption DEF MarketArrival, Next
        <5>2. CASE TradeArrival \/ AdvanceSlot
          BY <5>2 DEF Next
        <5>3. QED
          BY <4>1, <5>1, <5>2 DEF DirectArrival
      <4>2. CASE DirectClean
        BY <4>2 DEF DirectClean, GlobalArrival, Next
      <4>3. CASE SetupArrival
        BY <4>3 DEF SetupArrival, Next
      <4>4. QED
        BY <2>2, <4>1, <4>2, <4>3
    <3>3. QED
      BY <1>1, <1>2, <1>3, <1>4, <3>1, <3>2, OwnApart
  <2>3. CASE SwapSteps
    <3>1. wrapper' = wrapper /\ call' = call /\ ctx.kind = "swap"
      BY <2>3 DEF SwapSteps
    <3>2. [Next]_vars
      BY <2>3 DEF SwapSteps, Next, Progress
    <3>3. call.phase = "idle"
      <4>1. ctx # Idle
        BY <3>1 DEF Idle
      <4>2. call.phase \in {"idle", "prepare", "cpi", "record", "rollback"}
        BY <1>1 DEF BlockInv, CallShape
      <4>3. QED
        BY <1>1, <3>1, <4>1, <4>2 DEF CallInv, Calling
    <3>4. QED
      BY <1>1, <1>2, <1>4, <3>1, <3>2, <3>3, OwnApart
  <2>4. CASE DropOrder \/ ForwardOrder
    <3>1. OwnInv' /\ UNCHANGED <<accounts, work, ctx, slot>>
      BY <1>1, <2>4, OwnPrepare DEF DropOrder, ForwardOrder
    <3>2. QED
      BY <1>4, <1>5, <3>1
  <2>5. CASE ExecuteCpi
    BY <1>1, <2>5, OwnExecute
  <2>6. CASE ProcessResult
    <3>1. OwnInv' /\ UNCHANGED <<accounts, work, ctx, slot>>
      BY <1>1, <2>6, OwnResult DEF ProcessResult
    <3>2. QED
      BY <1>4, <1>5, <3>1
  <2>7. CASE SkipCall
    <3>1. /\ WrapperShape(wrapper) /\ BlocksPartitioned(wrapper)
          /\ EntriesOwned(wrapper, accounts.m) /\ EndBatch(wrapper)
          /\ UNCHANGED <<accounts, work, ctx, slot>>
      BY <1>1, <2>7 DEF SkipCall, BlockInv, OwnInv
    <3>2. OwnInv'
      BY <3>1, OwnEnded
    <3>3. QED
      BY <1>4, <1>5, <3>1, <3>2
  <2>8. CASE RollBack
    BY <1>1, <1>2, <2>8, OwnUndone
  <2>9. CASE CoreSteps
    BY <1>1, <1>2, <1>4, <2>9, CoreSteps_Next, OwnRuns
  <2>10. CASE UNCHANGED wvars
    <3>1. UNCHANGED <<accounts, work, ctx, slot>> /\ call' = call /\ wrapper' = wrapper
      BY <2>10 DEF wvars
    <3>2. OwnInv'
      BY <1>1, <3>1 DEF OwnInv
    <3>3. QED
      BY <1>4, <1>5, <3>1, <3>2
  <2>11. QED
    BY <2>1, <2>2, <2>3, <2>4, <2>5, <2>6, <2>7, <2>8, <2>9, <2>10
       DEF OpenNext, WrapperNext, WrapperProgress, WrapperSteps
<1>7. QED
  BY <1>2, <1>6 DEF TracedInv

\* The core can do what it is asked to cancel.
LEMMA CancelsReach == TracedInv => CancelsAccepted
<1> SUFFICES ASSUME TracedInv, Calling, ctx.phase = "cancel", ctx.cancels # <<>>
             PROVE  \E i \in Index : /\ IsCancelTarget(i, Head(ctx.cancels))
                                     /\ CanCancelOrder(work.m, i)
  BY DEF CancelsAccepted
<1>1. /\ IInv /\ DepositsInv /\ SupplyInv /\ BidsInv /\ WorkSound(work, ctx)
      /\ CancelsLive(ctx.cancels, work.m, ctx.seat) /\ ctx.kind = "batch"
  BY BusySound DEF TracedInv, OpenInv, CoreInv, OwnInv, Calling, CallInv
<1> DEFINE s == ctx.cancels
           i == Head(s).hint
<1>2. s \in Seq(Hints)
  BY <1>1 DEF WorkSound, Contexts, Hints
<1>3. Head(s) = s[1] /\ 1 \in DOMAIN s
  BY <1>2
<1>4. /\ i \in OrderIndices(work.m) /\ work.m.data[i].seq = Head(s).seq
      /\ work.m.data[i].trader_index = ctx.seat
  BY <1>1, <1>3 DEF CancelsLive
<1> HIDE DEF i
<1>5. i \in Index /\ i # NIL
  <2>1. i \in Index
    BY <1>4 DEF OrderIndices
  <2>2. QED
    BY <2>1, MarketAssumption DEF Index, NIL
<1>6. IsCancelTarget(i, Head(s))
  BY <1>4, <1>5 DEF IsCancelTarget, i
<1>7. CanCancelOrder(work.m, i)
  <2>1. ctx.pending = 0 /\ work \in Accounts /\ MarketSound(work.m)
    BY <1>1 DEF WorkSound, MatchingPhases
  <2>2. \A t \in Tokens : VirtualOf(ctx, t) = 0 /\ PendingOf(ctx, t) = 0 /\ PendingOf(Idle, t) = 0
    BY <1>1, <2>1 DEF VirtualOf, PendingOf, Idle
  <2>3. \A t \in Tokens : work.vault[t] = Claims(work.m, t)
    <3>1. \A t \in Tokens : work.vault[t] \in Int
      BY <2>1 DEF Accounts
    <3>2. \A t \in Tokens : work.vault[t] + 0 + 0 = Claims(work.m, t)
      BY <1>1, <2>2 DEF WorkSound, Balanced
    <3>3. QED
      BY <3>1, <3>2
  <2>4. AllDepositsSound(work.glob, Idle)
    BY <1>1, <2>2 DEF DepositsInv, AllDepositsSound
  <2>5. SupplySound(work) /\ BidsFit(work.m)
    BY <1>1 DEF SupplyInv, BidsInv
  <2>6. QED
    BY <1>4, <2>1, <2>3, <2>4, <2>5, ReturnFits
<1>8. QED
  BY <1>5, <1>6, <1>7

\* For any number of traders, blocks, batches and prices: the core rejects no cancel
\* that a wrapper sends.  Each one names, by its hint, an order of the owner that is on
\* the book with that number when the core comes to it, and the order can be returned,
\* whatever has been filled, cleaned, cancelled on the core or placed since the wrapper
\* last ran, though entries share client ids and the walk may have been skipped, and
\* however many orders are added from the book.
THEOREM CancelsAlwaysAccepted == OpenSpec => []CancelsAccepted
<1>1. OpenInit => TracedInv
  BY TracedStarts
<1>2. TracedInv /\ [OpenNext]_wvars => TracedInv'
  BY TracedSteps
<1>3. QED
  BY <1>1, <1>2, CancelsReach, PTL DEF OpenSpec

=============================================================================
