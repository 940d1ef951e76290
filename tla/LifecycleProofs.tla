--------------------------- MODULE LifecycleProofs ---------------------------
(***************************************************************************)
(* Proofs about Lifecycle.  A register is its journal, so everything is an *)
(* invariant of the journal: each event is lawful for the book replayed    *)
(* from the events before it.  That is inductive over the register's       *)
(* operations; what it implies about a whole journal is then shown by      *)
(* going along the journal (the least position that fails), once per       *)
(* property, whatever operations wrote it.                                 *)
(***************************************************************************)
EXTENDS Lifecycle, OrderBookProofs, WellFoundedInduction,
        SequenceTheorems, FiniteSetTheorems

-----------------------------------------------------------------------------
\* A set of naturals with an element has a least one.
LEMMA Least ==
  ASSUME NEW S, S \subseteq Nat, S # {}
  PROVE  \E n \in S : \A m \in S : n <= m
<1>1. PICK n \in S : \A m \in S : ~(<<m, n>> \in OpToRel(<, Nat))
  BY NatLessThanWellFounded, WFMin
<1>2. ASSUME NEW m \in S PROVE n <= m
  <2>1. m \in Nat /\ n \in Nat
    OBVIOUS
  <2>2. <<m, n>> \notin {ss \in Nat \X Nat : ss[1] < ss[2]}
    BY <1>1 DEF OpToRel
  <2> QED BY <2>1, <2>2
<1> QED BY <1>2

-----------------------------------------------------------------------------
(* Replay *)

\* The equation replay() satisfies, for a function of the events so far.
IsReplay(after, events) ==
  after = [n \in 0 .. Len(events) |->
             IF n = 0 THEN EmptyBook ELSE Recorded(after[n - 1], events[n])]

\* Some function satisfies it: one for n events extends to one for n + 1.
LEMMA ReplayExists ==
  ASSUME NEW events, Len(events) \in Nat
  PROVE  \E after : IsReplay(after, events)
<1> DEFINE UpTo(f, n) ==
             f = [m \in 0 .. n |->
                    IF m = 0 THEN EmptyBook ELSE Recorded(f[m - 1], events[m])]
           Missing == {n \in 0 .. Len(events) : ~ \E f : UpTo(f, n)}
<1>1. SUFFICES ASSUME Missing # {} PROVE FALSE
  BY DEF IsReplay
<1>2. PICK n \in Missing : \A m \in Missing : n <= m
  <2>1. Missing \subseteq Nat
    OBVIOUS
  <2> HIDE DEF Missing
  <2> QED BY <1>1, <2>1, Least
<1>3. n \in 0 .. Len(events) /\ n \in Nat
  OBVIOUS
<1>4. n # 0
  <2>1. UpTo([m \in 0 .. 0 |-> EmptyBook], 0)
    OBVIOUS
  <2> QED BY <2>1
<1>5. n - 1 \in 0 .. Len(events) /\ ~(n <= n - 1)
  BY <1>3, <1>4
<1>6. PICK f : UpTo(f, n - 1)
  BY <1>2, <1>5
<1> DEFINE g == [m \in 0 .. n |->
                   IF m = n THEN Recorded(f[n - 1], events[n]) ELSE f[m]]
<1>7. UpTo(g, n)
  <2>1. ASSUME NEW m \in 0 .. n
        PROVE  g[m] = IF m = 0 THEN EmptyBook ELSE Recorded(g[m - 1], events[m])
    <3>1. CASE m = n
      BY <1>3, <1>4, <3>1
    <3>2. CASE m = 0
      <4>1. 0 \in 0 .. n - 1 /\ 0 # n
        BY <1>3, <1>4
      <4>2. f[0] = EmptyBook
        BY <1>6, <4>1
      <4> QED BY <3>2, <4>1, <4>2
    <3>3. CASE m # n /\ m # 0
      <4>1. /\ m \in 0 .. n - 1 /\ m - 1 \in 0 .. n
            /\ m - 1 # n
        BY <1>3, <3>3
      <4>2. f[m] = Recorded(f[m - 1], events[m])
        BY <1>6, <4>1, <3>3
      <4> QED BY <3>3, <4>1, <4>2
    <3> QED BY <3>1, <3>2, <3>3
  <2>2. g = [m \in 0 .. n |-> g[m]]
    OBVIOUS
  <2> HIDE DEF g
  <2> QED BY <2>1, <2>2
<1> QED BY <1>3, <1>7

\* So the book after no event is empty, and each event is recorded in the
\* book of those before it.
LEMMA ReplayStep ==
  ASSUME NEW events, Len(events) \in Nat
  PROVE  /\ ReplayEach(events)[0] = EmptyBook
         /\ \A n \in 1 .. Len(events) :
              ReplayEach(events)[n] =
                Recorded(ReplayEach(events)[n - 1], events[n])
<1>1. ASSUME NEW f, IsReplay(f, events) PROVE IsReplay(ReplayEach(events), events)
  BY <1>1, Zenon DEF ReplayEach, IsReplay
<1>2. IsReplay(ReplayEach(events), events)
  BY <1>1, ReplayExists
<1> HIDE DEF ReplayEach
<1> DEFINE r == ReplayEach(events)
<1>3. \A n \in 0 .. Len(events) :
        r[n] = IF n = 0 THEN EmptyBook ELSE Recorded(r[n - 1], events[n])
  <2> DEFINE body == [n \in 0 .. Len(events) |->
               IF n = 0 THEN EmptyBook ELSE Recorded(r[n - 1], events[n])]
  <2>1. r = body
    BY <1>2 DEF IsReplay
  <2>2. \A n \in 0 .. Len(events) :
          body[n] = IF n = 0 THEN EmptyBook ELSE Recorded(r[n - 1], events[n])
    OBVIOUS
  <2> HIDE DEF r, body
  <2> QED BY <2>1, <2>2
<1> QED BY <1>3

\* What comes later in a journal does not change the books before it.
LEMMA ReplayOfPrefix ==
  ASSUME NEW s, NEW t, Len(s) \in Nat, Len(t) \in Nat, Len(s) <= Len(t),
         \A i \in 1 .. Len(s) : t[i] = s[i]
  PROVE  \A n \in 0 .. Len(s) : ReplayEach(t)[n] = ReplayEach(s)[n]
<1> DEFINE Differ == {n \in 0 .. Len(s) : ReplayEach(t)[n] # ReplayEach(s)[n]}
<1>1. SUFFICES ASSUME Differ # {} PROVE FALSE
  OBVIOUS
<1>2. PICK n \in Differ : \A m \in Differ : n <= m
  <2>1. Differ \subseteq Nat
    OBVIOUS
  <2> HIDE DEF Differ
  <2> QED BY <1>1, <2>1, Least
<1>3. n \in 0 .. Len(s) /\ n \in Nat
  OBVIOUS
<1>4. n # 0
  BY ReplayStep
<1>5. /\ n \in 1 .. Len(s) /\ n \in 1 .. Len(t) /\ n - 1 \in 0 .. Len(s)
      /\ ~(n <= n - 1)
  BY <1>3, <1>4
<1>6. ReplayEach(t)[n - 1] = ReplayEach(s)[n - 1]
  BY <1>2, <1>5
<1> QED BY <1>5, <1>6, ReplayStep

\* The snapshot of an order that no event names stays as it was.
LEMMA ReplayUntouched ==
  ASSUME NEW events, Len(events) \in Nat, NEW o,
         NEW from \in 0 .. Len(events), NEW to \in from .. Len(events),
         \A i \in from + 1 .. to : events[i].order # o
  PROVE  ReplayEach(events)[to][o] = ReplayEach(events)[from][o]
<1> DEFINE Differ == {n \in from .. to :
                        ReplayEach(events)[n][o] # ReplayEach(events)[from][o]}
<1>1. SUFFICES ASSUME Differ # {} PROVE FALSE
  OBVIOUS
<1>2. PICK n \in Differ : \A m \in Differ : n <= m
  <2>1. Differ \subseteq Nat
    OBVIOUS
  <2> HIDE DEF Differ
  <2> QED BY <1>1, <2>1, Least
<1>3. n \in from .. to /\ n # from
  OBVIOUS
<1>4. /\ n \in 1 .. Len(events) /\ n - 1 \in from .. to /\ ~(n <= n - 1)
      /\ n \in from + 1 .. to
  BY <1>3
<1>5. ReplayEach(events)[n - 1][o] = ReplayEach(events)[from][o]
  BY <1>2, <1>4
<1>6. ReplayEach(events)[n] =
        Recorded(ReplayEach(events)[n - 1], events[n])
  BY <1>4, ReplayStep
<1>7. ReplayEach(events)[n][o] = ReplayEach(events)[n - 1][o]
  BY <1>4, <1>6 DEF Recorded
<1> QED BY <1>5, <1>7

-----------------------------------------------------------------------------
(* Books of typed journals *)

\* Recording an event keeps a book well formed.
LEMMA RecordedWellFormed ==
  ASSUME NEW book, WellFormed(book), NEW e \in Event
  PROVE  WellFormed(Recorded(book, e))
<1> DEFINE snapshot == Snapshot(book[e.order], e)
<1>1. /\ book \in Books /\ e.order \in OrderIds
      /\ book[e.order] \in OrderSnapshot
      /\ book[e.order].state # Unseen => book[e.order].quantity > 0
  BY DEF WellFormed, Books, Event
<1>2. /\ e.state \in LifecycleState /\ e.state # Unseen
      /\ e.quantity \in Nat /\ e.quantity > 0 /\ e.consideration \in Nat
      /\ e.parent \in OrderIds \cup {NoOrder}
      /\ e.terms \in Terms \cup {NoTerms}
  BY DEF Event, LifecycleState, Unseen
<1>3. /\ snapshot \in OrderSnapshot /\ snapshot.state # Unseen
      /\ snapshot.quantity > 0
  BY <1>1, <1>2 DEF Snapshot, OrderSnapshot
<1> HIDE DEF snapshot
<1>4. WellFormed([book EXCEPT ![e.order] = snapshot])
  BY <1>1, <1>3, WellFormedStep
<1> QED BY <1>4 DEF Recorded, snapshot

\* Every book a journal of events passes through is well formed.
LEMMA EachWellFormed ==
  ASSUME NEW events \in Seq(Event)
  PROVE  \A n \in 0 .. Len(events) : WellFormed(ReplayEach(events)[n])
<1> DEFINE IllFormed == {n \in 0 .. Len(events) : ~WellFormed(ReplayEach(events)[n])}
<1>1. SUFFICES ASSUME IllFormed # {} PROVE FALSE
  OBVIOUS
<1>2. Len(events) \in Nat /\ \A n \in 1 .. Len(events) : events[n] \in Event
  OBVIOUS
<1>3. PICK n \in IllFormed : \A m \in IllFormed : n <= m
  <2>1. IllFormed \subseteq Nat
    BY <1>2
  <2> HIDE DEF IllFormed
  <2> QED BY <1>1, <2>1, Least
<1>4. n \in 0 .. Len(events) /\ n \in Nat
  BY <1>2
<1>5. n # 0
  <2>1. WellFormed(EmptyBook)
    BY DEF WellFormed, EmptyBook, Books, OrderSnapshot, LifecycleState
  <2> QED BY <1>2, <2>1, ReplayStep
<1>6. /\ n \in 1 .. Len(events) /\ n - 1 \in 0 .. Len(events)
      /\ ~(n <= n - 1)
  BY <1>2, <1>4, <1>5
<1>7. WellFormed(ReplayEach(events)[n - 1])
  BY <1>3, <1>6
<1>8. WellFormed(ReplayEach(events)[n])
  BY <1>2, <1>6, <1>7, ReplayStep, RecordedWellFormed
<1> QED BY <1>8

\* What one event does to a well-formed book, order by order.
LEMMA RecordedFields ==
  ASSUME NEW book, WellFormed(book), NEW e \in Event
  PROVE  LET prior == book[e.order]
             after == Recorded(book, e)
         IN  /\ after[e.order].state = e.state
             /\ after[e.order].quantity =
                  IF prior.state # Unseen THEN prior.quantity ELSE e.quantity
             /\ after[e.order].executed =
                  IF prior.state # Unseen /\ e.state \in Executions
                  THEN prior.executed + e.quantity ELSE prior.executed
             /\ after[e.order].parent = e.parent
             /\ \A o \in OrderIds \ {e.order} : after[o] = book[o]
<1>1. /\ book \in Books /\ e.order \in OrderIds
      /\ book[e.order].executed \in Nat
  BY DEF WellFormed, Books, OrderSnapshot, Event
<1> QED BY <1>1 DEF Recorded, Snapshot, Books

-----------------------------------------------------------------------------
(* Lawful journals *)

\* What an event may record in a book: what DecidedOnHead says, an execution
\* no larger than what remains, and complete exactly when it is all of it.
Lawful(book, e) ==
  LET was == book[e.order]
  IN  \/ e.state = "NOT_REACHED" /\ was.state # Unseen
      \/ <<was.state, e.state>> \in Allowed /\ e.state \notin Executions
      \/ /\ e.state \in Executions
         /\ was.state \in Fillable
         /\ e.quantity <= Remaining(was)
         /\ e.state = "EXECUTED" <=> e.quantity = Remaining(was)
      \/ e.state \in {"INTENT_ACCEPTED", "REFUSED"} /\ was.state = Unseen
      \/ e.state = "STRATEGY_AUTHORIZED" /\ was.state = "INTENT_ACCEPTED"
      \/ /\ e.state = "PARENT_ACTIVE"
         /\ was.state \in {Unseen, "STRATEGY_AUTHORIZED"} \/ e.parent # NoOrder

LawfulJournal(events) ==
  \A n \in 1 .. Len(events) : Lawful(ReplayEach(events)[n - 1], events[n])

\* Up to place n, o passed the gate and was not replaced since.
Gated(events, n, o) ==
  \E j \in 1 .. n :
    /\ events[j].order = o /\ events[j].state = "MARKET_ACCESS_PASSED"
    /\ \A k \in j .. n : events[k].order = o => events[k].state # "REPLACED"

\* In a lawful journal an order that may be filled is gated: only the gate's
\* pass leads to a fillable state from outside, and a replacement leads out.
LEMMA FillableGated ==
  ASSUME NEW events \in Seq(Event), LawfulJournal(events)
  PROVE  \A n \in 0 .. Len(events), o \in OrderIds :
           ReplayEach(events)[n][o].state \in Fillable => Gated(events, n, o)
<1> DEFINE r == ReplayEach(events)
           Held(n) == \A o \in OrderIds :
                        r[n][o].state \in Fillable => Gated(events, n, o)
           Open == {n \in 0 .. Len(events) : ~Held(n)}
<1>1. SUFFICES ASSUME Open # {} PROVE FALSE
  OBVIOUS
<1>2. Len(events) \in Nat /\ \A n \in 1 .. Len(events) : events[n] \in Event
  OBVIOUS
<1>3. PICK n \in Open : \A m \in Open : n <= m
  <2>1. Open \subseteq Nat
    BY <1>2
  <2> HIDE DEF Open
  <2> QED BY <1>1, <2>1, Least
<1>4. n \in 0 .. Len(events) /\ n \in Nat /\ ~Held(n)
  BY <1>2
<1>5. n # 0
  <2>1. \A o \in OrderIds : r[0][o].state = Unseen
    BY <1>2, ReplayStep DEF EmptyBook
  <2> QED BY <2>1, <1>4 DEF Unseen, Fillable
<1>6. /\ n \in 1 .. Len(events) /\ n - 1 \in 0 .. Len(events)
      /\ ~(n <= n - 1)
  BY <1>2, <1>4, <1>5
<1>7. Held(n - 1)
  BY <1>3, <1>6
<1> DEFINE e == events[n]
<1>8. /\ e \in Event /\ WellFormed(r[n - 1]) /\ Lawful(r[n - 1], e)
      /\ r[n] = Recorded(r[n - 1], e)
  BY <1>2, <1>6, EachWellFormed, ReplayStep DEF LawfulJournal
<1> HIDE DEF r
<1>9. ASSUME NEW o \in OrderIds, r[n][o].state \in Fillable
      PROVE  Gated(events, n, o)
  <2>1. CASE o # e.order
    <3>1. r[n][o] = r[n - 1][o]
      BY <1>8, <2>1, RecordedFields
    <3>2. PICK j \in 1 .. n - 1 :
            /\ events[j].order = o /\ events[j].state = "MARKET_ACCESS_PASSED"
            /\ \A k \in j .. n - 1 :
                 events[k].order = o => events[k].state # "REPLACED"
      BY <1>7, <1>9, <3>1 DEF Gated
    <3>3. j \in 1 .. n /\ \A k \in j .. n : k = n \/ k \in j .. n - 1
      BY <1>4, <1>6
    <3> QED BY <2>1, <3>2, <3>3 DEF Gated
  <2>2. CASE o = e.order /\ e.state = "MARKET_ACCESS_PASSED"
    <3>1. n \in 1 .. n /\ \A k \in n .. n : k = n
      BY <1>6
    <3> QED BY <2>2, <3>1 DEF Gated
  <2>3. CASE o = e.order /\ e.state # "MARKET_ACCESS_PASSED"
    <3>1. e.state = "PARTIALLY_EXECUTED"
      BY <1>8, <1>9, <2>3, RecordedFields DEF Fillable
    <3>2. r[n - 1][o].state \in Fillable
      BY <1>8, <2>3, <3>1
         DEF Lawful, Executions, Allowed, WorkingMoves, PostTradeMoves
    <3>3. PICK j \in 1 .. n - 1 :
            /\ events[j].order = o /\ events[j].state = "MARKET_ACCESS_PASSED"
            /\ \A k \in j .. n - 1 :
                 events[k].order = o => events[k].state # "REPLACED"
      BY <1>7, <3>2 DEF Gated
    <3>4. j \in 1 .. n /\ \A k \in j .. n : k = n \/ k \in j .. n - 1
      BY <1>4, <1>6
    <3> QED BY <3>1, <3>3, <3>4 DEF Gated
  <2> QED BY <2>1, <2>2, <2>3
<1> QED BY <1>4, <1>9

-----------------------------------------------------------------------------
(* The checkpoints of a lawful journal *)

\* The checkpoints, and which state each one is reached from.
LEMMA PathStates ==
  /\ DOMAIN SettlementPath = 1 .. 8
  /\ SettlementPath[1] = "EXECUTED"
  /\ SettlementPath[8] = "SETTLEMENT_CANDIDATE_READY"
  /\ \A i \in 1 .. 8 : /\ SettlementPath[i] # "PARTIALLY_EXECUTED"
                       /\ SettlementPath[i] # Unseen
                       /\ i > 1 => SettlementPath[i] \notin Executions
  /\ \A i, k \in 1 .. 8 : SettlementPath[i] = SettlementPath[k] => i = k
  /\ \A i \in 1 .. 8 : SettlementPath[i] \notin
       {"HANDED_TO_ATREIDES", "REFUSED_BY_ATREIDES", "NOT_REACHED",
        "PARENT_ACTIVE", "STRATEGY_AUTHORIZED", "INTENT_ACCEPTED", "REFUSED"}
  /\ \A i \in 2 .. 8, state \in LifecycleState \cup {Unseen} :
       <<state, SettlementPath[i]>> \in Allowed => state = SettlementPath[i - 1]
<1>1. /\ SettlementPath[1] = "EXECUTED"
      /\ SettlementPath[2] = "TRADE_CAPTURED"
      /\ SettlementPath[3] = "ALLOCATED"
      /\ SettlementPath[4] = "MATCHED"
      /\ SettlementPath[5] = "AFFIRMED"
      /\ SettlementPath[6] = "CLEARING_TRANSFORMED"
      /\ SettlementPath[7] = "OBLIGATION_READY"
      /\ SettlementPath[8] = "SETTLEMENT_CANDIDATE_READY"
      /\ DOMAIN SettlementPath = 1 .. 8
  BY DEF SettlementPath
<1>2. \A i \in 1 .. 8 : i = 1 \/ i = 2 \/ i = 3 \/ i = 4 \/ i = 5 \/ i = 6
                        \/ i = 7 \/ i = 8
  OBVIOUS
<1>3. \A i \in 1 .. 8 : /\ SettlementPath[i] # "PARTIALLY_EXECUTED"
                        /\ SettlementPath[i] # Unseen
                        /\ i > 1 => SettlementPath[i] \notin Executions
  BY <1>1, <1>2 DEF Executions, Unseen
<1>4. \A i, k \in 1 .. 8 : SettlementPath[i] = SettlementPath[k] => i = k
  BY <1>1, <1>2
<1>5. \A i \in 1 .. 8 : SettlementPath[i] \notin
        {"HANDED_TO_ATREIDES", "REFUSED_BY_ATREIDES", "NOT_REACHED",
         "PARENT_ACTIVE", "STRATEGY_AUTHORIZED", "INTENT_ACCEPTED", "REFUSED"}
  BY <1>1, <1>2
<1>6. ASSUME NEW i \in 2 .. 8, NEW state \in LifecycleState \cup {Unseen},
             <<state, SettlementPath[i]>> \in Allowed
      PROVE  state = SettlementPath[i - 1]
  <2>1. \/ i = 2 /\ i - 1 = 1
        \/ i = 3 /\ i - 1 = 2
        \/ i = 4 /\ i - 1 = 3
        \/ i = 5 /\ i - 1 = 4
        \/ i = 6 /\ i - 1 = 5
        \/ i = 7 /\ i - 1 = 6
        \/ i = 8 /\ i - 1 = 7
    OBVIOUS
  <2> QED BY <1>1, <1>6, <2>1 DEF Allowed, WorkingMoves, PostTradeMoves
<1> QED BY <1>1, <1>3, <1>4, <1>5, <1>6

\* Where the first n events have o pass checkpoint i.
PassedAt(events, n, o, i) ==
  {j \in 1 .. n : events[j].order = o /\ events[j].state = SettlementPath[i]}

\* Among the first n events o passed the first m checkpoints, once each and in
\* order, and none of the others.
PassedUpTo(events, n, o, m) ==
  /\ \A i \in 1 .. m : \E j \in 1 .. n :
       /\ PassedAt(events, n, o, i) = {j}
       /\ i > 1 => \A k \in PassedAt(events, n, o, i - 1) : k < j
  /\ \A i \in m + 1 .. 8 : PassedAt(events, n, o, i) = {}

\* How many checkpoints o passed, tied to its snapshot: a first one exactly
\* once it is completely filled.
Progress(events, n, o, m) ==
  LET order == ReplayEach(events)[n][o]
  IN  /\ m \in 0 .. 8
      /\ PassedUpTo(events, n, o, m)
      /\ m = 0 => order.state = Unseen \/ order.executed < order.quantity
      /\ m > 0 => order.state # Unseen /\ order.executed = order.quantity
      /\ \A i \in 1 .. 8 : order.state = SettlementPath[i] => m = i
      /\ order.state \in {"HANDED_TO_ATREIDES", "REFUSED_BY_ATREIDES"} => m = 8

\* An event that is not a checkpoint of o leaves o's checkpoints as they were.
LEMMA PassedAtSame ==
  ASSUME NEW events, NEW n \in Nat \ {0}, NEW o, NEW m \in 0 .. 8,
         \/ events[n].order # o
         \/ \A i \in 1 .. 8 : events[n].state # SettlementPath[i],
         PassedUpTo(events, n - 1, o, m)
  PROVE  PassedUpTo(events, n, o, m)
<1>1. n - 1 \in Nat /\ 1 .. n = (1 .. n - 1) \cup {n}
  OBVIOUS
<1>2. \A i \in 1 .. 8 : PassedAt(events, n, o, i) = PassedAt(events, n - 1, o, i)
  BY <1>1 DEF PassedAt
<1>3. /\ 1 .. m \subseteq 1 .. 8 /\ m + 1 .. 8 \subseteq 1 .. 8
      /\ \A i \in 1 .. m : i > 1 => i - 1 \in 1 .. 8
  OBVIOUS
<1> QED BY <1>1, <1>2, <1>3 DEF PassedUpTo

\* The next checkpoint of o adds itself, after the ones before.
LEMMA PassedAtNext ==
  ASSUME NEW events, NEW n \in Nat \ {0}, NEW o, NEW m \in 0 .. 7,
         events[n].order = o, events[n].state = SettlementPath[m + 1],
         PassedUpTo(events, n - 1, o, m)
  PROVE  PassedUpTo(events, n, o, m + 1)
<1>1. n - 1 \in Nat /\ 1 .. n = (1 .. n - 1) \cup {n} /\ n \notin 1 .. n - 1
  OBVIOUS
<1>2. ASSUME NEW i \in 1 .. 8, i # m + 1
      PROVE  PassedAt(events, n, o, i) = PassedAt(events, n - 1, o, i)
  <2>1. events[n].state # SettlementPath[i]
    BY <1>2, PathStates
  <2> QED BY <1>1, <2>1 DEF PassedAt
<1>3. PassedAt(events, n, o, m + 1) = {n}
  <2>1. PassedAt(events, n - 1, o, m + 1) = {}
    BY DEF PassedUpTo
  <2> QED BY <1>1, <2>1 DEF PassedAt
<1>4. ASSUME NEW i \in 1 .. m + 1
      PROVE  \E j \in 1 .. n :
               /\ PassedAt(events, n, o, i) = {j}
               /\ i > 1 => \A k \in PassedAt(events, n, o, i - 1) : k < j
  <2>1. CASE i = m + 1
    <3>1. ASSUME i > 1, NEW k \in PassedAt(events, n, o, i - 1) PROVE k < n
      <4>1. i - 1 \in 1 .. 8 /\ i - 1 # m + 1
        BY <2>1, <3>1
      <4>2. k \in 1 .. n - 1
        BY <1>2, <3>1, <4>1 DEF PassedAt
      <4> QED BY <4>2
    <3> QED BY <1>1, <1>3, <2>1, <3>1
  <2>2. CASE i # m + 1
    <3>1. i \in 1 .. m /\ i \in 1 .. 8 /\ (i > 1 => i - 1 \in 1 .. 8 /\ i - 1 # m + 1)
      BY <2>2
    <3>2. PICK j \in 1 .. n - 1 :
            /\ PassedAt(events, n - 1, o, i) = {j}
            /\ i > 1 => \A k \in PassedAt(events, n - 1, o, i - 1) : k < j
      BY <3>1 DEF PassedUpTo
    <3> QED BY <1>1, <1>2, <2>2, <3>1, <3>2
  <2> QED BY <2>1, <2>2
<1>5. ASSUME NEW i \in m + 1 + 1 .. 8 PROVE PassedAt(events, n, o, i) = {}
  <2>1. i \in 1 .. 8 /\ i # m + 1 /\ i \in m + 1 .. 8
    OBVIOUS
  <2> QED BY <1>2, <2>1 DEF PassedUpTo
<1> QED BY <1>4, <1>5 DEF PassedUpTo

\* One lawful event keeps progress and snapshot in step, for every order.
LEMMA ProgressStep ==
  ASSUME NEW events \in Seq(Event), NEW n \in 1 .. Len(events),
         LawfulJournal(events), NEW o \in OrderIds,
         NEW m, Progress(events, n - 1, o, m)
  PROVE  \E now \in 0 .. 8 : Progress(events, n, o, now)
<1> DEFINE r == ReplayEach(events)
           e == events[n]
           was == r[n - 1][o]
           is == r[n][o]
<1>1. /\ Len(events) \in Nat /\ n \in Nat \ {0} /\ n - 1 \in 0 .. Len(events)
      /\ n \in 0 .. Len(events) /\ e \in Event
  OBVIOUS
<1>2. /\ WellFormed(r[n - 1]) /\ WellFormed(r[n])
      /\ Lawful(r[n - 1], e) /\ r[n] = Recorded(r[n - 1], e)
  BY <1>1, EachWellFormed, ReplayStep DEF LawfulJournal
<1>book.
      /\ was \in OrderSnapshot /\ is \in OrderSnapshot
      /\ was.state # Unseen => was.quantity > 0
      /\ was.state = Unseen => was = EmptyBook[o]
  BY <1>2 DEF WellFormed, Books
<1>zero. was.state = Unseen => was.executed = 0
  BY <1>book DEF EmptyBook
<1>event. /\ e.quantity \in Nat /\ e.quantity > 0 /\ e.state # Unseen
  BY <1>1 DEF Event, LifecycleState, Unseen
<1>3. /\ was \in OrderSnapshot /\ is \in OrderSnapshot
      /\ was.quantity \in Nat /\ was.executed \in Nat
      /\ was.state \in LifecycleState \cup {Unseen}
      /\ was.state # Unseen => was.quantity > 0
      /\ was.state = Unseen => was.executed = 0
      /\ e.quantity \in Nat /\ e.quantity > 0 /\ e.state # Unseen
  BY <1>book, <1>zero, <1>event DEF OrderSnapshot
<1>4. /\ m \in 0 .. 8 /\ PassedUpTo(events, n - 1, o, m)
      /\ m = 0 => was.state = Unseen \/ was.executed < was.quantity
      /\ m > 0 => was.state # Unseen /\ was.executed = was.quantity
      /\ \A i \in 1 .. 8 : was.state = SettlementPath[i] => m = i
      /\ was.state \in {"HANDED_TO_ATREIDES", "REFUSED_BY_ATREIDES"} => m = 8
  BY DEF Progress
<1> HIDE DEF r
<1>5. CASE e.order # o
  <2>1. is = was
    BY <1>1, <1>2, <1>5, RecordedFields
  <2>2. PassedUpTo(events, n, o, m)
    BY <1>1, <1>4, <1>5, PassedAtSame
  <2> QED BY <1>4, <2>1, <2>2 DEF Progress, r
<1>6. ASSUME e.order = o
      PROVE  /\ is.state = e.state
             /\ is.quantity = IF was.state # Unseen THEN was.quantity
                              ELSE e.quantity
             /\ is.executed = IF was.state # Unseen /\ e.state \in Executions
                              THEN was.executed + e.quantity
                              ELSE was.executed
             /\ Lawful(r[n - 1], e)
  BY <1>1, <1>2, <1>6, RecordedFields
<1>7. CASE e.order = o /\ e.state = "EXECUTED"
  <2>1. /\ was.state \in Fillable /\ was.state # Unseen
        /\ e.quantity = was.quantity - was.executed
    BY <1>6, <1>7
       DEF Lawful, Remaining, Allowed, WorkingMoves, PostTradeMoves, Executions,
           Fillable, Unseen
  <2>2. m = 0
    BY <1>3, <1>4, <2>1
  <2>3. PassedUpTo(events, n, o, 0 + 1)
    BY <1>1, <1>4, <1>7, <2>2, PassedAtNext, PathStates
  <2>4. is.state = "EXECUTED" /\ is.executed = is.quantity
    BY <1>3, <1>6, <1>7, <2>1 DEF Executions
  <2>5. \A i \in 1 .. 8 : is.state = SettlementPath[i] => 1 = i
    BY <2>4, PathStates
  <2>6. Progress(events, n, o, 1)
    BY <2>3, <2>4, <2>5 DEF Progress, r, Unseen
  <2> QED BY <2>6
<1>8. CASE e.order = o /\ \E i \in 2 .. 8 : e.state = SettlementPath[i]
  <2>1. PICK i \in 2 .. 8 : e.state = SettlementPath[i]
    BY <1>8
  <2>2. i \in 1 .. 8 /\ i - 1 \in 1 .. 8 /\ i - 1 \in 0 .. 7 /\ i - 1 + 1 = i
    OBVIOUS
  <2>3. /\ <<was.state, e.state>> \in Allowed /\ e.state \notin Executions
    BY <1>6, <1>8, <2>1, <2>2, PathStates DEF Lawful
  <2>4. was.state = SettlementPath[i - 1]
    BY <1>3, <2>1, <2>3, PathStates
  <2>5. m = i - 1
    BY <1>4, <2>2, <2>4
  <2>6. PassedUpTo(events, n, o, i)
    BY <1>1, <1>4, <1>8, <2>1, <2>2, <2>5, PassedAtNext
  <2>7. was.state # Unseen
    BY <2>2, <2>4, PathStates
  <2>8. /\ is.state = SettlementPath[i] /\ is.state # Unseen
        /\ is.executed = is.quantity
    BY <1>3, <1>4, <1>6, <1>8, <2>1, <2>2, <2>3, <2>5, <2>7
  <2>9. /\ \A k \in 1 .. 8 : is.state = SettlementPath[k] => i = k
        /\ is.state \notin {"HANDED_TO_ATREIDES", "REFUSED_BY_ATREIDES"}
    BY <2>2, <2>8, PathStates
  <2>10. Progress(events, n, o, i)
    BY <2>2, <2>6, <2>8, <2>9 DEF Progress, r
  <2> QED BY <2>2, <2>10
<1>9. CASE e.order = o /\ \A i \in 1 .. 8 : e.state # SettlementPath[i]
  <2>1. PassedUpTo(events, n, o, m)
    BY <1>1, <1>4, <1>9, PassedAtSame
  <2>2. is.state # Unseen /\ \A i \in 1 .. 8 : is.state # SettlementPath[i]
    BY <1>3, <1>6, <1>9
  <2>3. is.state \in {"HANDED_TO_ATREIDES", "REFUSED_BY_ATREIDES"} => m = 8
    <3>1. ASSUME is.state \in {"HANDED_TO_ATREIDES", "REFUSED_BY_ATREIDES"}
          PROVE  was.state = "SETTLEMENT_CANDIDATE_READY"
      BY <1>6, <1>9, <3>1
         DEF Lawful, Allowed, WorkingMoves, PostTradeMoves, Executions
    <3> QED BY <1>4, <3>1, PathStates
  <2>4. CASE e.state = "PARTIALLY_EXECUTED"
    <3>1. /\ was.state \in Fillable /\ e.quantity <= Remaining(was)
          /\ e.quantity # Remaining(was)
      BY <1>6, <1>9, <2>4 DEF Lawful, Executions
    <3>2. was.state # Unseen
      BY <3>1 DEF Fillable, Unseen
    <3>3. e.quantity < was.quantity - was.executed
      <4>1. Remaining(was) = was.quantity - was.executed
        BY DEF Remaining
      <4> QED BY <1>3, <3>1, <4>1
    <3>4. m = 0
      <4>1. was.executed # was.quantity
        BY <1>3, <3>3
      <4>2. m \in 0 .. 8 /\ (m > 0 => was.executed = was.quantity)
        BY <1>4
      <4> QED BY <4>1, <4>2
    <3>5. /\ is.quantity = was.quantity
          /\ is.executed = was.executed + e.quantity
      BY <1>6, <1>9, <2>4, <3>2 DEF Executions
    <3>6. is.executed < is.quantity
      BY <1>3, <3>3, <3>5
    <3> QED BY <1>4, <2>1, <2>2, <2>3, <3>4, <3>6 DEF Progress, r
  <2>5. CASE e.state # "PARTIALLY_EXECUTED"
    <3>1. e.state \notin Executions
      BY <1>9, <2>5, PathStates DEF Executions
    <3>2. is.executed = was.executed
      BY <1>6, <1>9, <3>1
    <3>3. m = 0 => is.executed < is.quantity
      BY <1>3, <1>4, <1>6, <1>9, <3>2
    <3>4. m > 0 => is.executed = is.quantity
      BY <1>4, <1>6, <1>9, <3>2
    <3> QED BY <1>4, <2>1, <2>2, <2>3, <3>3, <3>4 DEF Progress, r
  <2> QED BY <2>4, <2>5
<1>10. \/ \E i \in 2 .. 8 : e.state = SettlementPath[i]
       \/ e.state = "EXECUTED"
       \/ \A i \in 1 .. 8 : e.state # SettlementPath[i]
  <2>1. \A i \in 1 .. 8 : i = 1 \/ i \in 2 .. 8
    OBVIOUS
  <2> QED BY <2>1, PathStates
<1> QED BY <1>5, <1>7, <1>8, <1>9, <1>10

\* So every order of a lawful journal is somewhere along its checkpoints.
LEMMA EachProgresses ==
  ASSUME NEW events \in Seq(Event), LawfulJournal(events), NEW o \in OrderIds
  PROVE  \A n \in 0 .. Len(events) : \E m \in 0 .. 8 : Progress(events, n, o, m)
<1> DEFINE Lost == {n \in 0 .. Len(events) :
                      ~ \E m \in 0 .. 8 : Progress(events, n, o, m)}
<1>1. SUFFICES ASSUME Lost # {} PROVE FALSE
  OBVIOUS
<1>2. Len(events) \in Nat
  OBVIOUS
<1>3. PICK n \in Lost : \A m \in Lost : n <= m
  <2>1. Lost \subseteq Nat
    BY <1>2
  <2> HIDE DEF Lost
  <2> QED BY <1>1, <2>1, Least
<1>4. n \in 0 .. Len(events) /\ n \in Nat
  BY <1>2
<1>5. CASE n = 0
  <2>1. ReplayEach(events)[0][o].state = Unseen
    BY <1>2, ReplayStep DEF EmptyBook
  <2>2. PassedUpTo(events, 0, o, 0)
    BY DEF PassedUpTo, PassedAt
  <2>3. Progress(events, 0, o, 0)
    BY <2>1, <2>2, PathStates DEF Progress, Unseen
  <2> QED BY <1>5, <2>3
<1>6. CASE n # 0
  <2>1. /\ n \in 1 .. Len(events) /\ n - 1 \in 0 .. Len(events)
        /\ ~(n <= n - 1)
    BY <1>2, <1>4, <1>6
  <2>2. PICK m \in 0 .. 8 : Progress(events, n - 1, o, m)
    BY <1>3, <2>1
  <2>3. \E now \in 0 .. 8 : Progress(events, n, o, now)
    BY <2>1, <2>2, ProgressStep
  <2> QED BY <2>3
<1> QED BY <1>5, <1>6

-----------------------------------------------------------------------------
(* The inductive invariant *)

JournalTyped == journal \in Seq(Event) /\ Len(journal) <= MaxChain

ParentTyped == parent \in OrderIds \cup {NoOrder} /\ refused \in BOOLEAN

\* Each event was sealed against the one before it.
Chained ==
  \A i \in 1 .. Len(journal) :
    journal[i].prior = IF i = 1 THEN NoEvent ELSE journal[i - 1].id

\* The register's own events are numbered by place, others above; no event is
\* there twice.
IdsByPlace ==
  /\ \A i \in 1 .. Len(journal) :
       journal[i].id = i \/ journal[i].id > MaxChain
  /\ \A i, j \in 1 .. Len(journal) : i # j => journal[i].id # journal[j].id

\* The intent is the journal's first order, and only its events are about
\* acceptance and authorization.
IntentIsParent ==
  /\ parent # NoOrder => Len(journal) > 0 /\ journal[1].order = parent
  /\ \A i \in 1 .. Len(journal) :
       journal[i].state \in {"INTENT_ACCEPTED", "STRATEGY_AUTHORIZED"} =>
         parent # NoOrder /\ journal[i].order = parent

\* An event sealed outside the register opens an order; it was sealed when the
\* journal was as long as the place it names, and its order unseen there.
SealedAt(e, events, n) ==
  /\ n < MaxEvents
  /\ e.prior = IF n = 0 THEN NoEvent ELSE events[n].id
  /\ ReplayEach(events)[n][e.order].state = Unseen

SealedAhead ==
  /\ IsFiniteSet(sealed)
  /\ \A e \in sealed :
       /\ e \in Event
       /\ e.state = "PARENT_ACTIVE" /\ e.parent = NoOrder
       /\ e.id > MaxChain \/ e.id \in UsedIds
       /\ \E n \in 0 .. Len(journal) : SealedAt(e, journal, n)

IInv ==
  /\ JournalTyped
  /\ ParentTyped
  /\ Chained
  /\ IdsByPlace
  /\ LawfulJournal(journal)
  /\ IntentIsParent
  /\ SealedAhead

-----------------------------------------------------------------------------
(* Appending to the journal *)

\* What the register seals, without its place in the chain.
Payload ==
  [order : OrderIds, parent : OrderIds \cup {NoOrder}, state : LifecycleState,
   quantity : Nat \ {0}, consideration : Nat, terms : Terms \cup {NoTerms}]

\* The journal only grows.
Grows ==
  /\ Len(journal) <= Len(journal')
  /\ \A i \in 1 .. Len(journal) : journal'[i] = journal[i]


\* _append, for each payload in turn: the journal stays typed, chained and
\* numbered, its new events carry the payloads, and the books so far stay.
LEMMA EachAppended ==
  ASSUME IInv, NEW k \in Nat \ {0}, NEW payloads \in [1 .. k -> Payload],
         AppendEach(payloads)
  PROVE  /\ Grows /\ JournalTyped' /\ Chained' /\ IdsByPlace'
         /\ Len(journal') = Len(journal) + k
         /\ \A i \in 1 .. k :
              LET e == journal'[Len(journal) + i]
              IN  /\ e \in Event
                  /\ e.order = payloads[i].order /\ e.state = payloads[i].state
                  /\ e.parent = payloads[i].parent
                  /\ e.quantity = payloads[i].quantity
         /\ \A n \in 0 .. Len(journal) :
              ReplayEach(journal')[n] = ReplayEach(journal)[n]
<1> DEFINE place == Len(journal)
           chain ==
             [i \in 1 .. k |->
                [id            |-> place + i,
                 prior         |-> IF i = 1 THEN HeadId ELSE place + i - 1,
                 order         |-> payloads[i].order,
                 parent        |-> payloads[i].parent,
                 state         |-> payloads[i].state,
                 quantity      |-> payloads[i].quantity,
                 consideration |-> payloads[i].consideration,
                 terms         |-> payloads[i].terms]]
<1>1. /\ journal' = journal \o chain
      /\ Len(journal \o chain) <= LengthBound(journal \o chain)
  <2>1. DOMAIN payloads = 1 .. k
    OBVIOUS
  <2> QED BY <2>1 DEF AppendEach
<1>2. place \in Nat /\ place <= MaxChain /\ journal \in Seq(Event)
  BY DEF IInv, JournalTyped
<1>3. HeadId = IF place = 0 THEN NoEvent ELSE journal[place].id
  BY <1>2 DEF HeadId, Last
<1>4. place + k <= MaxChain
  <2>1. LengthBound(journal \o chain) <= MaxChain
    BY BoundsAssumption DEF LengthBound
  <2>2. chain = [i \in 1 .. k |-> chain[i]]
    OBVIOUS
  <2>3. Len(journal \o chain) = place + k
    <3> DEFINE Pool == Event \cup {chain[i] : i \in 1 .. k}
    <3> HIDE DEF chain
    <3>1. chain \in [1 .. k -> Pool]
      BY <2>2
    <3>2. journal \in Seq(Pool)
      BY <1>2
    <3> HIDE DEF Pool
    <3>3. chain \in Seq(Pool) /\ Len(chain) = k
      BY <3>1
    <3> QED BY <3>2, <3>3, ConcatProperties
  <2>4. LengthBound(journal \o chain) \in Nat
    BY BoundsAssumption DEF LengthBound
  <2> HIDE DEF chain
  <2> QED BY <1>1, <1>2, <2>1, <2>3, <2>4, BoundsAssumption
<1>5. ASSUME NEW i \in 1 .. k PROVE chain[i] \in Event
  <2>1. payloads[i] \in Payload
    OBVIOUS
  <2>2. place + i \in EventIds
    BY <1>2, <1>4, BoundsAssumption DEF EventIds
  <2>3. i # 1 => place + i - 1 \in EventIds
    BY <1>2, <1>4, BoundsAssumption DEF EventIds
  <2>4. HeadId \in EventIds \cup {NoEvent}
    <3>1. place # 0 => journal[place] \in Event
      BY <1>2
    <3> QED BY <1>3, <3>1 DEF Event
  <2>5. chain[i].prior \in EventIds \cup {NoEvent}
    BY <2>3, <2>4
  <2> QED BY <2>1, <2>2, <2>5 DEF Payload, Event
<1>6. chain \in Seq(Event) /\ Len(chain) = k
  <2>1. chain \in [1 .. k -> Event]
    BY <1>5
  <2> HIDE DEF chain
  <2> QED BY <2>1
<1> HIDE DEF chain
<1>7. /\ journal' \in Seq(Event) /\ Len(journal') = place + k
      /\ \A i \in 1 .. place : journal'[i] = journal[i]
      /\ \A i \in 1 .. k : journal'[place + i] = chain[i]
  <2>1. /\ journal \o chain \in Seq(Event)
        /\ Len(journal \o chain) = Len(journal) + Len(chain)
        /\ \A i \in 1 .. Len(journal) : (journal \o chain)[i] = journal[i]
        /\ \A i \in 1 .. Len(chain) : (journal \o chain)[Len(journal) + i] = chain[i]
    <3>1. journal \in Seq(Event) /\ chain \in Seq(Event)
      BY <1>2, <1>6
    <3> QED BY <3>1
  <2>2. journal' = journal \o chain
    BY <1>1
  <2> QED BY <1>6, <2>1, <2>2
<1>8. \A i \in 1 .. place + k : i \in 1 .. place \/ i - place \in 1 .. k
  BY <1>2
<1>9. \A i \in 1 .. k :
        /\ chain[i].id = place + i
        /\ chain[i].prior = IF i = 1 THEN HeadId ELSE place + i - 1
        /\ chain[i].order = payloads[i].order
        /\ chain[i].state = payloads[i].state
        /\ chain[i].parent = payloads[i].parent
        /\ chain[i].quantity = payloads[i].quantity
  BY DEF chain
<1>10. Grows
  BY <1>2, <1>7 DEF Grows
<1>11. JournalTyped'
  BY <1>4, <1>7 DEF JournalTyped
<1>12. Chained'
  <2>1. ASSUME NEW i \in 1 .. place + k
        PROVE  journal'[i].prior = IF i = 1 THEN NoEvent ELSE journal'[i - 1].id
    <3>1. CASE i \in 1 .. place
      <4>1. i # 1 => i - 1 \in 1 .. place
        BY <1>2, <3>1
      <4> QED BY <1>7, <3>1, <4>1 DEF IInv, Chained
    <3>2. CASE i - place = 1
      <4>1. 1 \in 1 .. k /\ journal'[i] = chain[1]
        BY <1>2, <1>7, <3>2
      <4>2. (i = 1 <=> place = 0) /\ (place # 0 => place \in 1 .. place /\ i - 1 = place)
        BY <1>2, <3>2
      <4>3. journal'[i].prior = HeadId
        BY <1>9, <4>1
      <4>4. place # 0 => journal'[i - 1].id = journal[place].id
        BY <1>7, <4>2
      <4> QED BY <1>3, <4>2, <4>3, <4>4
    <3>3. CASE i - place \in 2 .. k
      <4>1. /\ i - place \in 1 .. k /\ i - place - 1 \in 1 .. k
            /\ i # 1 /\ place + (i - place) = i
            /\ place + (i - place - 1) = i - 1
        BY <1>2, <3>3
      <4>2. journal'[i] = chain[i - place]
        BY <1>7, <4>1
      <4>3. journal'[i - 1] = chain[i - place - 1]
        BY <1>7, <4>1
      <4> QED BY <1>9, <4>1, <4>2, <4>3, <3>3, <1>2
    <3>4. i - place \in 1 .. k => i - place = 1 \/ i - place \in 2 .. k
      BY <1>2
    <3> QED BY <1>8, <3>1, <3>2, <3>3, <3>4
  <2> QED BY <1>7, <2>1 DEF Chained
<1>13. IdsByPlace'
  <2>1. \A i \in 1 .. place :
          journal'[i].id = i \/ journal'[i].id > MaxChain
    BY <1>7 DEF IInv, IdsByPlace
  <2>2. ASSUME NEW i \in 1 .. place + k, i \notin 1 .. place
        PROVE  journal'[i].id = i /\ i <= MaxChain
    <3>1. i - place \in 1 .. k /\ place + (i - place) = i
      BY <1>2, <1>8, <2>2
    <3>2. journal'[i] = chain[i - place]
      BY <1>7, <3>1
    <3>3. journal'[i].id = i
      BY <1>9, <3>1, <3>2
    <3>4. i <= MaxChain
      BY <1>2, <1>4, BoundsAssumption
    <3> QED BY <3>3, <3>4
  <2>3. ASSUME NEW i \in 1 .. place + k, NEW j \in 1 .. place + k, i # j
        PROVE  journal'[i].id # journal'[j].id
    <3>1. CASE i \in 1 .. place /\ j \in 1 .. place
      BY <1>7, <2>3, <3>1 DEF IInv, IdsByPlace
    <3>2. CASE i \notin 1 .. place \/ j \notin 1 .. place
      BY <1>2, <2>1, <2>2, <2>3, <3>2, BoundsAssumption
    <3> QED BY <3>1, <3>2
  <2> QED BY <1>7, <2>1, <2>2, <2>3 DEF IdsByPlace
<1>14. \A i \in 1 .. k :
         LET e == journal'[place + i]
         IN  /\ e \in Event
             /\ e.order = payloads[i].order /\ e.state = payloads[i].state
             /\ e.parent = payloads[i].parent
             /\ e.quantity = payloads[i].quantity
  BY <1>5, <1>7, <1>9
<1>15. \A n \in 0 .. place : ReplayEach(journal')[n] = ReplayEach(journal)[n]
  <2>1. /\ Len(journal) \in Nat /\ Len(journal') \in Nat
        /\ Len(journal) <= Len(journal')
    BY <1>2, <1>7
  <2> QED BY <1>7, <2>1, ReplayOfPrefix
<1> QED BY <1>7, <1>10, <1>11, <1>12, <1>13, <1>14, <1>15

\* The book now is the last of the books so far.
LEMMA BookNow ==
  ASSUME JournalTyped
  PROVE  /\ Book = ReplayEach(journal)[Len(journal)]
         /\ WellFormed(Book) /\ Book \in Books
         /\ Len(journal) \in Nat
         /\ \A n \in 1 .. Len(journal) : journal[n] \in Event
<1>1. journal \in Seq(Event) /\ Len(journal) \in 0 .. Len(journal)
  BY DEF JournalTyped
<1>2. Book = ReplayEach(journal)[Len(journal)]
  BY DEF Book, Replay
<1>3. WellFormed(Book)
  BY <1>1, <1>2, EachWellFormed
<1> QED BY <1>1, <1>2, <1>3 DEF WellFormed

\* What was sealed outside stays as it was when the journal grows.
LEMMA SealedKept ==
  ASSUME IInv, Grows, JournalTyped', sealed' = sealed,
         \A n \in 0 .. Len(journal) :
           ReplayEach(journal')[n] = ReplayEach(journal)[n]
  PROVE  SealedAhead'
<1>1. Len(journal) \in Nat /\ Len(journal') \in Nat /\ Len(journal) <= Len(journal')
  BY DEF IInv, JournalTyped, Grows
<1>2. UsedIds \subseteq UsedIds'
  <2>1. DOMAIN journal = 1 .. Len(journal) /\ DOMAIN journal' = 1 .. Len(journal')
    BY DEF IInv, JournalTyped
  <2> QED BY <1>1, <2>1 DEF UsedIds, Grows
<1>3. ASSUME NEW e \in sealed
      PROVE  \E n \in 0 .. Len(journal') : SealedAt(e, journal', n)
  <2>1. PICK n \in 0 .. Len(journal) : SealedAt(e, journal, n)
    BY DEF IInv, SealedAhead
  <2>2. /\ n \in 0 .. Len(journal') /\ (n # 0 => n \in 1 .. Len(journal))
    BY <1>1
  <2> QED BY <2>1, <2>2 DEF SealedAt, Grows
<1> QED BY <1>2, <1>3 DEF IInv, SealedAhead

\* Payloads that are lawful where they land keep the journal lawful.
LEMMA LawfulKept ==
  ASSUME IInv, NEW k \in Nat \ {0}, NEW payloads \in [1 .. k -> Payload],
         AppendEach(payloads),
         \A i \in 1 .. k :
           Lawful(ReplayEach(journal')[Len(journal) + i - 1], payloads[i])
  PROVE  LawfulJournal(journal')
<1> DEFINE place == Len(journal)
<1>1. place \in Nat
  BY DEF IInv, JournalTyped
<1>2. /\ Grows /\ Len(journal') = place + k
      /\ \A i \in 1 .. k :
           LET e == journal'[place + i]
           IN  /\ e.order = payloads[i].order /\ e.state = payloads[i].state
               /\ e.parent = payloads[i].parent
               /\ e.quantity = payloads[i].quantity
      /\ \A n \in 0 .. place : ReplayEach(journal')[n] = ReplayEach(journal)[n]
  BY EachAppended
<1>3. ASSUME NEW n \in 1 .. place + k
      PROVE  Lawful(ReplayEach(journal')[n - 1], journal'[n])
  <2>1. CASE n \in 1 .. place
    <3>1. n - 1 \in 0 .. place
      BY <1>1, <2>1
    <3> QED BY <1>2, <2>1, <3>1 DEF IInv, LawfulJournal, Grows
  <2>2. CASE n \notin 1 .. place
    <3>1. /\ n - place \in 1 .. k /\ place + (n - place) = n
          /\ place + (n - place) - 1 = n - 1
      BY <1>1, <2>2
    <3>2. Lawful(ReplayEach(journal')[n - 1], payloads[n - place])
      BY <3>1
    <3> QED BY <1>2, <3>1, <3>2 DEF Lawful
  <2> QED BY <2>1, <2>2
<1> QED BY <1>2, <1>3 DEF LawfulJournal

\* The operations that append one payload or several, the intent's own first
\* or later, keep the invariant.
LEMMA AppendKeeps ==
  ASSUME IInv, NEW k \in Nat \ {0}, NEW payloads \in [1 .. k -> Payload],
         AppendEach(payloads),
         \A i \in 1 .. k :
           Lawful(ReplayEach(journal')[Len(journal) + i - 1], payloads[i]),
         \/ parent' = parent
         \/ Len(journal) = 0 /\ parent' = payloads[1].order,
         \A i \in 1 .. k :
           payloads[i].state \in {"INTENT_ACCEPTED", "STRATEGY_AUTHORIZED"} =>
             parent' # NoOrder /\ payloads[i].order = parent',
         refused' \in BOOLEAN, sealed' = sealed
  PROVE  IInv'
<1> DEFINE place == Len(journal)
<1>1. place \in Nat
  BY DEF IInv, JournalTyped
<1>2. /\ Grows /\ JournalTyped' /\ Chained' /\ IdsByPlace'
      /\ Len(journal') = place + k
      /\ \A i \in 1 .. k :
           LET e == journal'[place + i]
           IN  /\ e.order = payloads[i].order /\ e.state = payloads[i].state
               /\ e.parent = payloads[i].parent
               /\ e.quantity = payloads[i].quantity
      /\ \A n \in 0 .. place : ReplayEach(journal')[n] = ReplayEach(journal)[n]
  BY EachAppended
<1>3. LawfulJournal(journal')
  BY LawfulKept
<1>4. SealedAhead'
  BY <1>2, SealedKept
<1>5. payloads[1].order \in OrderIds /\ 1 \in 1 .. k
  BY DEF Payload
<1>6. ParentTyped'
  BY <1>5 DEF ParentTyped, IInv
<1>7. IntentIsParent'
  <2>1. ASSUME parent' # NoOrder
        PROVE  Len(journal') > 0 /\ journal'[1].order = parent'
    <3>1. CASE parent' = parent
      <4>1. place > 0 /\ journal[1].order = parent
        BY <2>1, <3>1 DEF IInv, IntentIsParent
      <4>2. 1 \in 1 .. place
        BY <1>1, <4>1
      <4> QED BY <1>1, <1>2, <3>1, <4>1, <4>2 DEF Grows
    <3>2. CASE place = 0 /\ parent' = payloads[1].order
      <4>1. journal'[place + 1].order = payloads[1].order
        BY <1>2, <1>5
      <4>2. place + 1 = 1 /\ Len(journal') > 0
        BY <1>2, <3>2
      <4> QED BY <3>2, <4>1, <4>2
    <3> QED BY <3>1, <3>2
  <2>2. ASSUME NEW n \in 1 .. place + k,
               journal'[n].state \in {"INTENT_ACCEPTED", "STRATEGY_AUTHORIZED"}
        PROVE  parent' # NoOrder /\ journal'[n].order = parent'
    <3>1. CASE n \in 1 .. place
      <4>1. parent' = parent
        BY <1>1, <3>1
      <4> QED BY <1>2, <2>2, <3>1, <4>1 DEF IInv, IntentIsParent, Grows
    <3>2. CASE n \notin 1 .. place
      <4> DEFINE i == n - place
      <4>1. i \in 1 .. k /\ place + i = n
        BY <1>1, <3>2
      <4> HIDE DEF i, place
      <4>2. /\ journal'[place + i].order = payloads[i].order
            /\ journal'[place + i].state = payloads[i].state
        BY <1>2, <4>1
      <4>3. /\ journal'[n].order = payloads[i].order
            /\ payloads[i].state \in {"INTENT_ACCEPTED", "STRATEGY_AUTHORIZED"}
        BY <2>2, <4>1, <4>2
      <4> QED BY <4>1, <4>3
    <3> QED BY <3>1, <3>2
  <2> QED BY <1>2, <2>1, <2>2 DEF IntentIsParent
<1> QED BY <1>2, <1>3, <1>4, <1>6, <1>7 DEF IInv

\* The same for one payload: it need only be lawful in the book as it is.
LEMMA OneKeeps ==
  ASSUME IInv, NEW payload \in Payload, AppendEach(<<payload>>),
         Lawful(Book, payload),
         \/ parent' = parent
         \/ Len(journal) = 0 /\ parent' = payload.order,
         payload.state \in {"INTENT_ACCEPTED", "STRATEGY_AUTHORIZED"} =>
           parent' # NoOrder /\ payload.order = parent',
         refused' \in BOOLEAN, sealed' = sealed
  PROVE  IInv'
<1> DEFINE payloads == <<payload>>
<1>1. /\ payloads \in [1 .. 1 -> Payload] /\ payloads[1] = payload
      /\ 1 \in Nat \ {0} /\ \A i \in 1 .. 1 : i = 1
  OBVIOUS
<1> HIDE DEF payloads
<1>2. AppendEach(payloads)
  BY DEF payloads
<1>3. Lawful(ReplayEach(journal')[Len(journal) + 1 - 1], payloads[1])
  <2>1. Len(journal) \in Nat /\ Len(journal) \in 0 .. Len(journal)
        /\ Len(journal) + 1 - 1 = Len(journal)
    BY DEF IInv, JournalTyped
  <2>2. ReplayEach(journal')[Len(journal)] = ReplayEach(journal)[Len(journal)]
    BY <1>1, <1>2, <2>1, EachAppended
  <2>3. Book = ReplayEach(journal)[Len(journal)]
    BY DEF Book, Replay
  <2> QED BY <1>1, <2>1, <2>2, <2>3
<1>4. \A i \in 1 .. 1 :
        Lawful(ReplayEach(journal')[Len(journal) + i - 1], payloads[i])
  BY <1>1, <1>3
<1>5. \A i \in 1 .. 1 :
        payloads[i].state \in {"INTENT_ACCEPTED", "STRATEGY_AUTHORIZED"} =>
          parent' # NoOrder /\ payloads[i].order = parent'
  BY <1>1
<1>6. \/ parent' = parent
      \/ Len(journal) = 0 /\ parent' = payloads[1].order
  BY <1>1
<1> QED BY <1>1, <1>2, <1>4, <1>5, <1>6, AppendKeeps

-----------------------------------------------------------------------------
(* The operations keep the invariant *)

\* An order some event names is known from that event on.
LEMMA KnownStays ==
  ASSUME NEW events \in Seq(Event), NEW j \in 1 .. Len(events)
  PROVE  \A n \in j .. Len(events) :
           ReplayEach(events)[n][events[j].order].state # Unseen
<1> DEFINE o == events[j].order
           Gone == {n \in j .. Len(events) : ReplayEach(events)[n][o].state = Unseen}
<1>1. SUFFICES ASSUME Gone # {} PROVE FALSE
  OBVIOUS
<1>2. /\ Len(events) \in Nat /\ o \in OrderIds
      /\ \A n \in 1 .. Len(events) : events[n] \in Event
  <2>1. /\ Len(events) \in Nat /\ events[j] \in Event
        /\ \A n \in 1 .. Len(events) : events[n] \in Event
    OBVIOUS
  <2> QED BY <2>1 DEF Event
<1>3. PICK n \in Gone : \A m \in Gone : n <= m
  <2>1. Gone \subseteq Nat
    BY <1>2
  <2> HIDE DEF Gone
  <2> QED BY <1>1, <2>1, Least
<1>4. /\ n \in j .. Len(events) /\ n \in 1 .. Len(events)
      /\ n - 1 \in 0 .. Len(events) /\ n - 1 < n
      /\ ReplayEach(events)[n][o].state = Unseen
  BY <1>2
<1>5. /\ WellFormed(ReplayEach(events)[n - 1]) /\ events[n] \in Event
      /\ ReplayEach(events)[n] = Recorded(ReplayEach(events)[n - 1], events[n])
  BY <1>2, <1>4, EachWellFormed, ReplayStep
<1>6. events[n].order # o
  <2>1. events[n].state # Unseen
    BY <1>5 DEF Event, LifecycleState, Unseen
  <2> QED BY <1>4, <1>5, <2>1, RecordedFields
<1>7. n # j /\ n - 1 \in j .. Len(events)
  BY <1>2, <1>4, <1>6
<1>8. ReplayEach(events)[n - 1][o].state = Unseen
  BY <1>2, <1>4, <1>5, <1>6, RecordedFields
<1>9. n - 1 \in Gone /\ ~(n <= n - 1)
  BY <1>2, <1>4, <1>7, <1>8
<1> HIDE DEF Gone
<1> QED BY <1>3, <1>9

\* The order the last event names is in the state it records; the intent's
\* order is known.
LEMMA LastAndParent ==
  ASSUME IInv, parent # NoOrder
  PROVE  /\ Len(journal) \in Nat \ {0} /\ Last(journal) \in Event
         /\ Book[Last(journal).order].state = Last(journal).state
         /\ Last(journal).state \in {"INTENT_ACCEPTED", "STRATEGY_AUTHORIZED"} =>
              Last(journal).order = parent
         /\ parent \in OrderIds /\ Book[parent].state # Unseen
<1> DEFINE place == Len(journal)
<1>1. /\ place \in Nat \ {0} /\ journal[1].order = parent
      /\ journal \in Seq(Event) /\ parent \in OrderIds
  BY DEF IInv, IntentIsParent, JournalTyped, ParentTyped
<1>2. /\ Last(journal) = journal[place] /\ journal[place] \in Event
      /\ place \in 1 .. place /\ 1 \in 1 .. place /\ place - 1 \in 0 .. place
  BY <1>1 DEF Last
<1>3. Book = ReplayEach(journal)[place]
  BY DEF Book, Replay
<1>4. Book[journal[place].order].state = journal[place].state
  <2>1. /\ WellFormed(ReplayEach(journal)[place - 1])
        /\ Book = Recorded(ReplayEach(journal)[place - 1], journal[place])
    BY <1>1, <1>2, <1>3, EachWellFormed, ReplayStep
  <2> QED BY <1>2, <2>1, RecordedFields
<1>5. Book[parent].state # Unseen
  BY <1>1, <1>2, <1>3, KnownStays
<1> QED BY <1>1, <1>2, <1>4, <1>5 DEF IInv, IntentIsParent

LEMMA InitHolds == Init => IInv
<1> SUFFICES ASSUME Init PROVE IInv
  OBVIOUS
<1>1. journal = <<>> /\ Len(journal) = 0 /\ journal \in Seq(Event)
  BY DEF Init
<1>2. IsFiniteSet(sealed) /\ sealed = {}
  BY FS_EmptySet DEF Init
<1>3. parent = NoOrder /\ refused = FALSE
  BY DEF Init
<1>4. JournalTyped /\ ParentTyped
  <2>1. JournalTyped
    BY <1>1, BoundsAssumption DEF JournalTyped
  <2>2. ParentTyped
    BY <1>3 DEF ParentTyped
  <2> QED BY <2>1, <2>2
<1>5. 1 .. Len(journal) = {}
  BY <1>1
<1>6. Chained /\ IdsByPlace /\ LawfulJournal(journal) /\ IntentIsParent
  BY <1>3, <1>5 DEF Chained, IdsByPlace, LawfulJournal, IntentIsParent
<1> QED BY <1>2, <1>4, <1>6 DEF IInv, SealedAhead

\* accept_intent: the first event of an empty register.
LEMMA AcceptHolds ==
  ASSUME IInv, NEW o \in OrderIds, NEW q \in Quantities, NEW v \in BOOLEAN,
         AcceptIntent(o, q, v)
  PROVE  IInv'
<1> DEFINE payload ==
             IntentEvent(o, IF v THEN "INTENT_ACCEPTED" ELSE "REFUSED", q)
<1>1. /\ payload \in Payload /\ payload.order = o
      /\ payload.state \in {"INTENT_ACCEPTED", "REFUSED"}
  BY QuantitiesAssumption DEF IntentEvent, Payload, LifecycleState
<1>2. journal = <<>> /\ Len(journal) = 0
  BY DEF AcceptIntent
<1>3. Book[o].state = Unseen
  <2>1. Book = EmptyBook
    BY <1>2, ReplayStep DEF Book, Replay
  <2> QED BY <2>1 DEF EmptyBook
<1>4. Lawful(Book, payload)
  BY <1>1, <1>3 DEF Lawful
<1>5. o # NoOrder
  BY NoOrderAssumption
<1>6. /\ AppendEach(<<payload>>) /\ parent' = o /\ refused' \in BOOLEAN
      /\ sealed' = sealed
  BY DEF AcceptIntent
<1> HIDE DEF payload
<1> QED BY <1>1, <1>2, <1>4, <1>5, <1>6, OneKeeps

\* authorize_strategy and activate_parent: on the parent, the state asked for
\* only if the register's last event is the parent's own previous one.
LEMMA NextOnParentHolds ==
  ASSUME IInv,
         NEW required, NEW reached,
         \/ required = "INTENT_ACCEPTED" /\ reached = "STRATEGY_AUTHORIZED"
         \/ required = "STRATEGY_AUTHORIZED" /\ reached = "PARENT_ACTIVE",
         NextOnParent(required, reached)
  PROVE  IInv'
<1> DEFINE state == IF Last(journal).state = required THEN reached
                    ELSE "NOT_REACHED"
           payload == IntentEvent(parent, state, Last(journal).quantity)
<1>1. /\ parent # NoOrder /\ AppendEach(<<payload>>)
      /\ parent' = parent /\ refused' = refused /\ sealed' = sealed
  BY DEF NextOnParent
<1>2. /\ Last(journal) \in Event /\ parent \in OrderIds
      /\ Book[Last(journal).order].state = Last(journal).state
      /\ Last(journal).state \in {"INTENT_ACCEPTED", "STRATEGY_AUTHORIZED"} =>
           Last(journal).order = parent
      /\ Book[parent].state # Unseen
  BY <1>1, LastAndParent
<1>3. /\ payload \in Payload /\ payload.order = parent
      /\ payload.state = state
  BY <1>2 DEF IntentEvent, Payload, LifecycleState, Event
<1>4. Lawful(Book, payload)
  <2>1. CASE Last(journal).state = required
    BY <1>2, <1>3, <2>1 DEF Lawful
  <2>2. CASE Last(journal).state # required
    BY <1>2, <1>3, <2>2 DEF Lawful
  <2> QED BY <2>1, <2>2
<1>5. refused' \in BOOLEAN
  BY <1>1 DEF IInv, ParentTyped
<1> HIDE DEF payload, state
<1> QED BY <1>1, <1>3, <1>4, <1>5, OneKeeps

\* split_parent: one opening event per child, each of another order and each
\* naming the parent, which any order may be given.
LEMMA SplitPayloads ==
  ASSUME IInv, NEW children \in ChildLists, SplitParent(children)
  PROVE  LET payloads ==
               [i \in DOMAIN children |->
                  OpeningEvent(children[i].order, parent, children[i].quantity,
                               children[i].terms)]
         IN  \E k \in Nat \ {0} :
               /\ payloads \in [1 .. k -> Payload] /\ AppendEach(payloads)
               /\ \A i \in 1 .. k : /\ payloads[i].state = "PARENT_ACTIVE"
                                    /\ payloads[i].parent # NoOrder
               /\ \A i, j \in 1 .. k :
                    i # j => payloads[i].order # payloads[j].order
<1> DEFINE payloads ==
             [i \in DOMAIN children |->
                OpeningEvent(children[i].order, parent, children[i].quantity,
                             children[i].terms)]
<1>1. PICK k \in 1 .. MaxChildren : children \in [1 .. k -> Child]
  BY DEF ChildLists
<1>2. k \in Nat \ {0} /\ DOMAIN children = 1 .. k
  <2>1. MaxChildren \in Nat
    BY BoundsAssumption
  <2> QED BY <1>1, <2>1
<1>3. parent # NoOrder /\ AppendEach(payloads)
  BY DEF SplitParent
<1>4. parent \in OrderIds
  BY <1>3 DEF IInv, ParentTyped
<1>5. ASSUME NEW i \in 1 .. k
      PROVE  /\ payloads[i] \in Payload /\ payloads[i].state = "PARENT_ACTIVE"
             /\ payloads[i].parent # NoOrder
             /\ payloads[i].order = children[i].order
  <2>1. children[i] \in Child
    BY <1>1
  <2>2. children[i].quantity \in Nat \ {0}
    BY <2>1, QuantitiesAssumption DEF Child
  <2>3. payloads[i] = OpeningEvent(children[i].order, parent,
                                   children[i].quantity, children[i].terms)
    BY <1>2
  <2> QED BY <1>3, <1>4, <2>1, <2>2, <2>3
       DEF OpeningEvent, Payload, Child, LifecycleState
<1>6. payloads \in [1 .. k -> Payload]
  BY <1>2, <1>5
<1>7. ASSUME NEW i \in 1 .. k, NEW j \in 1 .. k, i # j
      PROVE  children[i].order # children[j].order
  <2> DEFINE orders == [n \in DOMAIN children |-> children[n].order]
  <2>1. IsInjective(orders) /\ DOMAIN orders = 1 .. k
    BY <1>2 DEF SplitParent
  <2>2. orders[i] = children[i].order /\ orders[j] = children[j].order
    BY <1>2
  <2> HIDE DEF orders
  <2> QED BY <1>7, <2>1, <2>2 DEF IsInjective
<1> HIDE DEF payloads
<1>8. /\ \A i \in 1 .. k : /\ payloads[i].state = "PARENT_ACTIVE"
                           /\ payloads[i].parent # NoOrder
      /\ \A i, j \in 1 .. k : i # j => payloads[i].order # payloads[j].order
  BY <1>5, <1>7
<1> QED BY <1>2, <1>3, <1>6, <1>8 DEF payloads

LEMMA SplitHolds ==
  ASSUME IInv, NEW children \in ChildLists, SplitParent(children)
  PROVE  IInv'
<1> DEFINE payloads ==
             [i \in DOMAIN children |->
                OpeningEvent(children[i].order, parent, children[i].quantity,
                             children[i].terms)]
<1>1. PICK k \in Nat \ {0} :
        /\ payloads \in [1 .. k -> Payload] /\ AppendEach(payloads)
        /\ \A i \in 1 .. k : /\ payloads[i].state = "PARENT_ACTIVE"
                             /\ payloads[i].parent # NoOrder
  BY SplitPayloads
<1>2. parent' = parent /\ refused' = refused /\ sealed' = sealed
  BY DEF SplitParent
<1>3. \A i \in 1 .. k :
        Lawful(ReplayEach(journal')[Len(journal) + i - 1], payloads[i])
  BY <1>1 DEF Lawful
<1>4. refused' \in BOOLEAN
  BY <1>2 DEF IInv, ParentTyped
<1>5. \A i \in 1 .. k : payloads[i].state \notin
        {"INTENT_ACCEPTED", "STRATEGY_AUTHORIZED"}
  BY <1>1
<1> HIDE DEF payloads
<1> QED BY <1>1, <1>2, <1>3, <1>4, <1>5, AppendKeeps

\* transition, of a state that is no execution: what the table says, or
\* NOT_REACHED.
LEMMA RequestedMoves ==
  /\ Requested \subseteq Moves
  /\ \A target \in Requested : target \notin
       {"PARENT_ACTIVE", "STRATEGY_AUTHORIZED", "INTENT_ACCEPTED", "REFUSED"}
BY DEF Requested, Moves, Executions, LifecycleState

\* What the register holds of a known order is fit to be sealed again.
LEMMA KnownTyped ==
  ASSUME IInv, NEW o \in Known(Book)
  PROVE  /\ o \in OrderIds /\ Book[o] \in OrderSnapshot
         /\ Book[o].state \in LifecycleState /\ Book[o].state # Unseen
         /\ Book[o].quantity \in Nat \ {0} /\ Book[o].executed \in Nat
         /\ Book[o].parent \in OrderIds \cup {NoOrder}
         /\ Book[o].terms \in Terms \cup {NoTerms}
<1>1. WellFormed(Book)
  BY BookNow DEF IInv
<1>2. o \in OrderIds /\ Book[o].state # Unseen
  BY DEF Known
<1>3. Book[o] \in OrderSnapshot /\ Book[o].quantity > 0
  BY <1>1, <1>2 DEF WellFormed, Books
<1> QED BY <1>2, <1>3 DEF OrderSnapshot

LEMMA TransitionPayload ==
  ASSUME IInv, NEW o \in OrderIds, Transition(o)
  PROVE  \E payload \in Payload :
           /\ AppendEach(<<payload>>) /\ Lawful(Book, payload)
           /\ payload.state \notin
                {"INTENT_ACCEPTED", "STRATEGY_AUTHORIZED", "PARENT_ACTIVE"}
<1>0. PICK target \in Requested :
        \E terms \in IF target = "REPLACED" THEN Terms ELSE {Book[o].terms} :
          AppendEach(<<TransitionEvent(Book, o, target, Book[o].quantity,
                                       terms, 0)>>)
  BY DEF Transition
<1>1. PICK terms \in IF target = "REPLACED" THEN Terms ELSE {Book[o].terms} :
        AppendEach(<<TransitionEvent(Book, o, target, Book[o].quantity,
                                     terms, 0)>>)
  BY <1>0
<1> DEFINE payload ==
             TransitionEvent(Book, o, target, Book[o].quantity, terms, 0)
<1>2. o \in Known(Book)
  BY DEF Transition
<1>3. /\ Book[o].state # Unseen /\ Book[o].quantity \in Nat \ {0}
      /\ Book[o].parent \in OrderIds \cup {NoOrder}
      /\ Book[o].terms \in Terms \cup {NoTerms}
  BY <1>2, KnownTyped
<1>4. /\ target \in Moves /\ target \in LifecycleState
      /\ target \notin {"PARENT_ACTIVE", "STRATEGY_AUTHORIZED",
                        "INTENT_ACCEPTED", "REFUSED"}
  BY RequestedMoves DEF Moves
<1>5. /\ payload.state \in LifecycleState \ Executions
      /\ payload.state = target \/ payload.state = "NOT_REACHED"
      /\ payload.state = target /\ target # "NOT_REACHED" =>
           <<Book[o].state, target>> \in Allowed
      /\ payload.order = o
  BY <1>4, ReachedTyped DEF TransitionEvent, Reached, Moves
<1>6. payload \in Payload
  BY <1>3, <1>5 DEF TransitionEvent, Payload
<1>7. Lawful(Book, payload)
  BY <1>3, <1>5 DEF Lawful
<1>8. payload.state \notin
        {"INTENT_ACCEPTED", "STRATEGY_AUTHORIZED", "PARENT_ACTIVE"}
  BY <1>4, <1>5
<1>9. AppendEach(<<payload>>)
  BY <1>1
<1> HIDE DEF payload
<1> QED BY <1>6, <1>7, <1>8, <1>9

LEMMA TransitionHolds ==
  ASSUME IInv, NEW o \in OrderIds, Transition(o)
  PROVE  IInv'
<1>1. PICK payload \in Payload :
        /\ AppendEach(<<payload>>) /\ Lawful(Book, payload)
        /\ payload.state \notin
             {"INTENT_ACCEPTED", "STRATEGY_AUTHORIZED", "PARENT_ACTIVE"}
  BY TransitionPayload
<1>2. parent' = parent /\ refused' = refused /\ sealed' = sealed
  BY DEF Transition
<1>3. refused' \in BOOLEAN
  BY <1>2 DEF IInv, ParentTyped
<1> QED BY <1>1, <1>2, <1>3, OneKeeps

\* apply_execution's transition: the fill is recorded, as the whole of what
\* remains or as a part of it.
LEMMA FillPayload ==
  ASSUME IInv, NEW o \in OrderIds, NEW quantity \in FillQuantities,
         RecordFill(o, quantity)
  PROVE  LET target == IF quantity = Remaining(Book[o]) THEN "EXECUTED"
                       ELSE "PARTIALLY_EXECUTED"
             payload == TransitionEvent(Book, o, target, quantity,
                                        Book[o].terms, quantity)
         IN  /\ AppendEach(<<payload>>)
             /\ payload \in Payload
             /\ payload.order = o /\ payload.state = target
             /\ payload.quantity = quantity
             /\ Book[o].state \in Fillable /\ o \in Known(Book)
             /\ quantity <= Remaining(Book[o]) /\ quantity \in Nat \ {0}
<1> DEFINE target == IF quantity = Remaining(Book[o]) THEN "EXECUTED"
                     ELSE "PARTIALLY_EXECUTED"
           payload == TransitionEvent(Book, o, target, quantity,
                                      Book[o].terms, quantity)
<1>1. /\ AppendEach(<<payload>>) /\ Book[o].state \in Fillable
      /\ quantity <= Remaining(Book[o])
  BY DEF RecordFill
<1>2. o \in Known(Book)
  BY <1>1 DEF Known, Fillable, Unseen
<1>3. /\ Book[o].parent \in OrderIds \cup {NoOrder}
      /\ Book[o].terms \in Terms \cup {NoTerms}
  BY <1>2, KnownTyped
<1>4. quantity \in Nat \ {0}
  BY DEF FillQuantities
<1>5. target \in {"EXECUTED", "PARTIALLY_EXECUTED"}
  OBVIOUS
<1> HIDE DEF target
<1>6. Reached(Book[o].state, target) = target /\ target \in LifecycleState
  BY <1>1, <1>5 DEF Reached, Allowed, WorkingMoves, Fillable, LifecycleState
<1>7. /\ payload \in Payload /\ payload.order = o /\ payload.state = target
      /\ payload.quantity = quantity
  BY <1>3, <1>4, <1>6 DEF TransitionEvent, Payload
<1> QED BY <1>1, <1>2, <1>4, <1>7 DEF target

LEMMA FillHolds ==
  ASSUME IInv, NEW o \in OrderIds, NEW quantity \in FillQuantities,
         RecordFill(o, quantity)
  PROVE  IInv'
<1> DEFINE target == IF quantity = Remaining(Book[o]) THEN "EXECUTED"
                     ELSE "PARTIALLY_EXECUTED"
           payload == TransitionEvent(Book, o, target, quantity,
                                      Book[o].terms, quantity)
<1>1. /\ AppendEach(<<payload>>) /\ payload \in Payload
      /\ payload.order = o /\ payload.state = target
      /\ payload.quantity = quantity
      /\ Book[o].state \in Fillable /\ quantity <= Remaining(Book[o])
  BY FillPayload
<1>2. parent' = parent /\ refused' = refused /\ sealed' = sealed
  BY DEF RecordFill
<1>3. Lawful(Book, payload) /\ payload.state \in Executions
  BY <1>1 DEF Lawful, Executions
<1>4. refused' \in BOOLEAN
  BY <1>2 DEF IInv, ParentTyped
<1>5. payload.state \notin {"INTENT_ACCEPTED", "STRATEGY_AUTHORIZED"}
  BY <1>3 DEF Executions
<1>6. AppendEach(<<payload>>) /\ payload \in Payload
  BY <1>1
<1> HIDE DEF payload
<1> QED BY <1>2, <1>3, <1>4, <1>5, <1>6, OneKeeps

\* record_not_reached: of a known order, whatever its state.
LEMMA NotReachedHolds ==
  ASSUME IInv, NEW o \in OrderIds, RecordNotReached(o)
  PROVE  IInv'
<1> DEFINE payload ==
             [order |-> o, parent |-> Book[o].parent, state |-> "NOT_REACHED",
              quantity |-> Book[o].quantity, consideration |-> 0,
              terms |-> Book[o].terms]
<1>1. /\ o \in Known(Book) /\ AppendEach(<<payload>>)
      /\ parent' = parent /\ refused' = refused /\ sealed' = sealed
  BY DEF RecordNotReached
<1>2. payload \in Payload /\ Book[o].state # Unseen
  BY <1>1, KnownTyped DEF Payload, LifecycleState
<1>3. Lawful(Book, payload)
  BY <1>2 DEF Lawful
<1>4. refused' \in BOOLEAN
  BY <1>1 DEF IInv, ParentTyped
<1>5. payload.state \notin {"INTENT_ACCEPTED", "STRATEGY_AUTHORIZED"}
  OBVIOUS
<1> HIDE DEF payload
<1> QED BY <1>1, <1>2, <1>3, <1>4, <1>5, OneKeeps

\* The id of the head is that of the last event.
LEMMA HeadIdNow ==
  ASSUME IInv
  PROVE  /\ HeadId = IF Len(journal) = 0 THEN NoEvent ELSE journal[Len(journal)].id
         /\ HeadId \in EventIds \cup {NoEvent}
         /\ HeadId \in EventIds => HeadId \in UsedIds
<1> DEFINE place == Len(journal)
<1>1. /\ place \in Nat /\ journal \in Seq(Event)
      /\ DOMAIN journal = 1 .. place
      /\ journal = <<>> <=> place = 0
      /\ place # 0 => place \in DOMAIN journal /\ journal[place] \in Event
  BY DEF IInv, JournalTyped
<1>2. HeadId = IF place = 0 THEN NoEvent ELSE journal[place].id
  BY <1>1 DEF HeadId, Last
<1>3. NoEvent \notin EventIds
  BY DEF NoEvent, EventIds
<1> QED BY <1>1, <1>2, <1>3 DEF Event, UsedIds

\* seal_order_event: against the head as it is, of an order unseen so far.
LEMMA SealOrderHolds ==
  ASSUME IInv, NEW o \in OrderIds, NEW q \in Quantities,
         NEW t \in Terms \cup {NoTerms}, SealOrder(o, q, t)
  PROVE  IInv'
<1> DEFINE new(id) ==
             [id |-> id, prior |-> HeadId, order |-> o, parent |-> NoOrder,
              state |-> "PARENT_ACTIVE", quantity |-> q,
              consideration |-> 0, terms |-> t]
<1>1. /\ journal' = journal /\ parent' = parent /\ refused' = refused
      /\ Len(journal) < MaxEvents /\ Book[o].state = Unseen
  BY DEF SealOrder
<1>2. PICK id \in EventIds \cap {MaxChain + 1 + Cardinality(sealed), HeadId} :
        sealed' = sealed \cup {new(id)}
  BY DEF SealOrder
<1>3. /\ IsFiniteSet(sealed) /\ Cardinality(sealed) \in Nat
      /\ MaxChain \in Nat
  BY FS_CardinalityType, BoundsAssumption DEF IInv, SealedAhead
<1>4. IsFiniteSet(sealed')
  BY <1>2, <1>3, FS_AddElement
<1>5. new(id) \in Event
  <2>1. q \in Nat \ {0}
    BY QuantitiesAssumption
  <2> QED BY <1>2, <2>1, HeadIdNow DEF Event, LifecycleState
<1>6. id > MaxChain \/ id \in UsedIds
  <2>1. CASE id = HeadId
    BY <1>2, <2>1, HeadIdNow
  <2>2. CASE id = MaxChain + 1 + Cardinality(sealed)
    BY <1>3, <2>2
  <2> QED BY <1>2, <2>1, <2>2
<1>7. /\ new(id).id = id /\ new(id).prior = HeadId /\ new(id).order = o
      /\ new(id).state = "PARENT_ACTIVE" /\ new(id).parent = NoOrder
  OBVIOUS
<1> HIDE DEF new
<1>8. SealedAt(new(id), journal, Len(journal))
  <2>1. Book = ReplayEach(journal)[Len(journal)]
    BY DEF Book, Replay
  <2> QED BY <1>1, <1>7, <2>1, HeadIdNow DEF SealedAt
<1>9. UsedIds' = UsedIds
  BY <1>1 DEF UsedIds
<1>10. Len(journal) \in 0 .. Len(journal)
  BY DEF IInv, JournalTyped
<1>11. ASSUME NEW e \in sealed'
       PROVE  /\ e \in Event
              /\ e.state = "PARENT_ACTIVE" /\ e.parent = NoOrder
              /\ e.id > MaxChain \/ e.id \in UsedIds'
              /\ \E n \in 0 .. Len(journal') : SealedAt(e, journal', n)
  <2>1. CASE e \in sealed
    BY <1>1, <1>9, <2>1 DEF IInv, SealedAhead
  <2>2. CASE e = new(id)
    BY <1>1, <1>5, <1>6, <1>7, <1>8, <1>9, <1>10, <2>2
  <2> QED BY <1>2, <2>1, <2>2
<1>12. SealedAhead'
  BY <1>4, <1>11 DEF SealedAhead
<1> QED BY <1>1, <1>12
      DEF IInv, JournalTyped, ParentTyped, Chained, IdsByPlace, LawfulJournal,
          IntentIsParent

\* What append accepts of a sealed event: it was sealed against this very
\* head, so its order is still unseen, and its id is the callers' own.
LEMMA SealedExtends ==
  ASSUME IInv, NEW e \in sealed, Extends(e)
  PROVE  /\ e \in Event /\ e.state = "PARENT_ACTIVE"
         /\ e.id > MaxChain /\ e.id \notin UsedIds
         /\ e.prior = HeadId
         /\ Len(journal) < MaxEvents /\ Book[e.order].state = Unseen
<1>1. /\ e \in Event /\ e.state = "PARENT_ACTIVE"
      /\ e.id > MaxChain \/ e.id \in UsedIds
  BY DEF IInv, SealedAhead
<1>2. e.prior = HeadId /\ e.id \notin UsedIds
  BY DEF Extends
<1>3. PICK n \in 0 .. Len(journal) : SealedAt(e, journal, n)
  BY DEF IInv, SealedAhead
<1>4. Len(journal) \in Nat /\ \A i \in 1 .. Len(journal) : journal[i] \in Event
  BY DEF IInv, JournalTyped
<1>5. \A i \in 1 .. Len(journal) : journal[i].id # NoEvent
  BY <1>4 DEF Event, EventIds, NoEvent
<1>6. n = Len(journal)
  <2>1. n = 0 \/ n \in 1 .. Len(journal)
    BY <1>4
  <2>2. Len(journal) = 0 \/ Len(journal) \in 1 .. Len(journal)
    BY <1>4
  <2>3. (IF n = 0 THEN NoEvent ELSE journal[n].id)
          = IF Len(journal) = 0 THEN NoEvent ELSE journal[Len(journal)].id
    BY <1>2, <1>3, HeadIdNow DEF SealedAt
  <2>4. CASE n = 0 \/ Len(journal) = 0
    BY <1>4, <1>5, <2>1, <2>2, <2>3, <2>4
  <2>5. CASE n # 0 /\ Len(journal) # 0
    BY <2>1, <2>2, <2>3, <2>5 DEF IInv, IdsByPlace
  <2> QED BY <2>4, <2>5
<1>7. Book = ReplayEach(journal)[Len(journal)]
  BY DEF Book, Replay
<1> QED BY <1>1, <1>2, <1>3, <1>6, <1>7 DEF SealedAt

\* append of a sealed event: what one appended event leaves of the journal.
LEMMA SealedAppended ==
  ASSUME IInv, NEW e \in sealed, AppendSealed(e)
  PROVE  /\ Grows /\ JournalTyped' /\ Len(journal') = Len(journal) + 1
         /\ journal'[Len(journal) + 1] = e
         /\ \A n \in 0 .. Len(journal) :
              ReplayEach(journal')[n] = ReplayEach(journal)[n]
<1>1. /\ journal' = Append(journal, e) /\ e \in Event
      /\ Len(journal) < MaxEvents
  BY SealedExtends DEF AppendSealed
<1>2. journal \in Seq(Event) /\ Len(journal) \in Nat
  BY DEF IInv, JournalTyped
<1>3. /\ journal' \in Seq(Event) /\ Len(journal') = Len(journal) + 1
      /\ journal'[Len(journal) + 1] = e
      /\ \A i \in 1 .. Len(journal) : journal'[i] = journal[i]
  BY <1>1, <1>2, AppendProperties
<1>4. JournalTyped'
  BY <1>1, <1>2, <1>3, BoundsAssumption DEF JournalTyped
<1>5. Grows
  BY <1>2, <1>3 DEF Grows
<1>6. Len(journal') \in Nat /\ Len(journal) <= Len(journal')
  BY <1>2, <1>3
<1> QED BY <1>2, <1>3, <1>4, <1>5, <1>6, ReplayOfPrefix

LEMMA AppendSealedHolds ==
  ASSUME IInv, NEW e \in sealed, AppendSealed(e)
  PROVE  IInv'
<1> DEFINE place == Len(journal)
<1>1. /\ Grows /\ JournalTyped' /\ Len(journal') = place + 1
      /\ journal'[place + 1] = e
      /\ \A n \in 0 .. place : ReplayEach(journal')[n] = ReplayEach(journal)[n]
  BY SealedAppended
<1>2. /\ e \in Event /\ e.state = "PARENT_ACTIVE"
      /\ e.id > MaxChain /\ e.id \notin UsedIds /\ e.prior = HeadId
      /\ Book[e.order].state = Unseen
  BY SealedExtends DEF AppendSealed
<1>3. /\ parent' = parent /\ refused' = refused /\ sealed' = sealed
  BY DEF AppendSealed
<1>4. /\ place \in Nat /\ DOMAIN journal = 1 .. place
      /\ place \in 0 .. place
      /\ \A n \in 1 .. place + 1 : n \in 1 .. place \/ n = place + 1
      /\ \A n \in 1 .. place :
           n - 1 \in 0 .. place /\ (n # 1 => n - 1 \in 1 .. place)
      /\ place + 1 - 1 = place
  BY DEF IInv, JournalTyped
<1>5. \A n \in 1 .. place : journal'[n] = journal[n]
  BY <1>1 DEF Grows
<1>6. Chained'
  <2>1. ASSUME NEW n \in 1 .. place + 1
        PROVE  journal'[n].prior = IF n = 1 THEN NoEvent ELSE journal'[n - 1].id
    <3>1. CASE n \in 1 .. place
      BY <1>4, <1>5, <3>1 DEF IInv, Chained
    <3>2. CASE n = place + 1
      <4>1. journal'[n].prior = HeadId
        BY <1>1, <1>2, <3>2
      <4>2. (n = 1 <=> place = 0) /\ n - 1 = place
        BY <1>4, <3>2
      <4>3. place # 0 => journal'[place] = journal[place]
        BY <1>4, <1>5
      <4> QED BY <4>1, <4>2, <4>3, HeadIdNow
    <3> QED BY <1>4, <3>1, <3>2
  <2> QED BY <1>1, <2>1 DEF Chained
<1>7. IdsByPlace'
  <2>1. \A n \in 1 .. place : journal[n].id # e.id
    BY <1>2, <1>4 DEF UsedIds
  <2>2. \A n \in 1 .. place + 1 :
          journal'[n].id = n \/ journal'[n].id > MaxChain
    BY <1>1, <1>2, <1>4, <1>5 DEF IInv, IdsByPlace
  <2>3. \A i, j \in 1 .. place + 1 : i # j => journal'[i].id # journal'[j].id
    BY <1>1, <1>4, <1>5, <2>1 DEF IInv, IdsByPlace
  <2> QED BY <1>1, <2>2, <2>3 DEF IdsByPlace
<1>8. LawfulJournal(journal')
  <2>1. Book = ReplayEach(journal)[place]
    BY DEF Book, Replay
  <2>2. Lawful(ReplayEach(journal')[place], e)
    BY <1>1, <1>2, <1>4, <2>1 DEF Lawful
  <2>3. ASSUME NEW n \in 1 .. place + 1
        PROVE  Lawful(ReplayEach(journal')[n - 1], journal'[n])
    <3>1. CASE n \in 1 .. place
      BY <1>1, <1>4, <1>5, <3>1 DEF IInv, LawfulJournal
    <3>2. CASE n = place + 1
      BY <1>1, <1>4, <2>2, <3>2
    <3> QED BY <1>4, <3>1, <3>2
  <2> QED BY <1>1, <2>3 DEF LawfulJournal
<1>9. IntentIsParent'
  <2>1. parent # NoOrder => Len(journal') > 0 /\ journal'[1].order = parent
    <3>1. ASSUME parent # NoOrder
          PROVE  Len(journal') > 0 /\ journal'[1].order = parent
      <4>1. place > 0 /\ journal[1].order = parent
        BY <3>1 DEF IInv, IntentIsParent
      <4>2. 1 \in 1 .. place /\ Len(journal') > 0
        BY <1>1, <1>4, <4>1
      <4> QED BY <1>5, <4>1, <4>2
    <3> QED BY <3>1
  <2>2. \A n \in 1 .. place + 1 :
          journal'[n].state \in {"INTENT_ACCEPTED", "STRATEGY_AUTHORIZED"} =>
            parent # NoOrder /\ journal'[n].order = parent
    BY <1>1, <1>2, <1>4, <1>5 DEF IInv, IntentIsParent
  <2> QED BY <1>1, <1>3, <2>1, <2>2 DEF IntentIsParent
<1>10. SealedAhead'
  BY <1>1, <1>3, SealedKept
<1>11. ParentTyped'
  BY <1>3 DEF IInv, ParentTyped
<1> QED BY <1>1, <1>6, <1>7, <1>8, <1>9, <1>10, <1>11 DEF IInv

\* IInv is inductive.
LEMMA NextHolds == IInv /\ [Next]_vars => IInv'
<1> SUFFICES ASSUME IInv, [Next]_vars PROVE IInv'
  OBVIOUS
<1>1. CASE \E o \in OrderIds, q \in Quantities, v \in BOOLEAN : AcceptIntent(o, q, v)
  BY <1>1, AcceptHolds
<1>2. CASE AuthorizeStrategy
  BY <1>2, NextOnParentHolds DEF AuthorizeStrategy
<1>3. CASE ActivateParent
  BY <1>3, NextOnParentHolds DEF ActivateParent
<1>4. CASE \E children \in ChildLists : SplitParent(children)
  BY <1>4, SplitHolds
<1>5. CASE \E o \in OrderIds, q \in Quantities, t \in Terms \cup {NoTerms} :
             SealOrder(o, q, t)
  BY <1>5, SealOrderHolds
<1>6. CASE \E e \in sealed : AppendSealed(e)
  BY <1>6, AppendSealedHolds
<1>7. CASE \E o \in OrderIds : Transition(o)
  BY <1>7, TransitionHolds
<1>8. CASE \E o \in OrderIds, q \in FillQuantities : RecordFill(o, q)
  BY <1>8, FillHolds
<1>9. CASE \E o \in OrderIds : RecordNotReached(o)
  BY <1>9, NotReachedHolds
<1>10. CASE UNCHANGED vars
  <2>1. /\ journal' = journal /\ parent' = parent /\ refused' = refused
        /\ sealed' = sealed
    BY <1>10 DEF vars
  <2>2. UsedIds' = UsedIds
    BY <2>1 DEF UsedIds
  <2> QED BY <2>1, <2>2
       DEF IInv, JournalTyped, ParentTyped, Chained, IdsByPlace, LawfulJournal,
           IntentIsParent, SealedAhead
<1> QED BY <1>1, <1>2, <1>3, <1>4, <1>5, <1>6, <1>7, <1>8, <1>9, <1>10 DEF Next

-----------------------------------------------------------------------------
(* What the invariant says of a journal *)

LEMMA TypesHold == IInv => TypeOK
<1> SUFFICES ASSUME IInv PROVE TypeOK
  OBVIOUS
<1>1. /\ \A i \in DOMAIN journal : journal[i] \in Event
      /\ Len(journal) <= MaxChain
  BY DEF IInv, JournalTyped
<1>2. parent \in OrderIds \cup {NoOrder} /\ refused \in BOOLEAN
  BY DEF IInv, ParentTyped
<1>3. \A e \in sealed : e \in Event
  BY DEF IInv, SealedAhead
<1> QED BY <1>1, <1>2, <1>3 DEF TypeOK

\* The states an execution is lawful from are those the table lists.
LEMMA FillableAllowed == Fillable \X Executions \subseteq Allowed
BY DEF Fillable, Executions, Allowed, WorkingMoves

LEMMA ChainHolds == IInv => OneChain
<1> SUFFICES ASSUME IInv PROVE OneChain
  OBVIOUS
<1>1. DOMAIN journal = 1 .. Len(journal) /\ Len(journal) \in Nat
  BY DEF IInv, JournalTyped
<1>2. ASSUME NEW i \in 1 .. Len(journal) PROVE DecidedOnHead(i)
  <2> DEFINE e == journal[i]
             was == ReplayEach(journal)[i - 1][e.order]
  <2>1. Lawful(ReplayEach(journal)[i - 1], e)
    BY DEF IInv, LawfulJournal
  <2>2. CASE e.state \in Executions /\ was.state \in Fillable
    <3>1. <<was.state, e.state>> \in Allowed
      BY <2>2, FillableAllowed
    <3> QED BY <3>1 DEF DecidedOnHead
  <2>3. CASE ~(e.state \in Executions /\ was.state \in Fillable)
    BY <2>1, <2>3 DEF Lawful, DecidedOnHead
  <2> QED BY <2>2, <2>3
<1>3. \A i \in 1 .. Len(journal), j \in 1 .. Len(journal) :
        i # j => journal[i].id # journal[j].id
  BY DEF IInv, IdsByPlace
<1>4. ASSUME NEW i \in 1 .. Len(journal), NEW j \in 1 .. i - 1
      PROVE  journal[j].id # journal[i].id
  <2>1. j \in 1 .. Len(journal) /\ j # i
    BY <1>1
  <2> QED BY <1>3, <2>1
<1> QED BY <1>1, <1>2, <1>4 DEF OneChain, IInv, Chained

LEMMA GateHolds == IInv => GatePrecedesFill
<1> SUFFICES ASSUME IInv PROVE GatePrecedesFill
  OBVIOUS
<1>1. /\ DOMAIN journal = 1 .. Len(journal) /\ Len(journal) \in Nat
      /\ journal \in Seq(Event)
      /\ \A i \in 1 .. Len(journal) : journal[i] \in Event
  BY DEF IInv, JournalTyped
<1>2. ASSUME NEW i \in 1 .. Len(journal), journal[i].state \in Executions
      PROVE  Gated(journal, i - 1, journal[i].order)
  <2>1. Lawful(ReplayEach(journal)[i - 1], journal[i])
    BY DEF IInv, LawfulJournal
  <2>2. ReplayEach(journal)[i - 1][journal[i].order].state \in Fillable
    BY <1>2, <2>1 DEF Lawful, Executions
  <2>3. i - 1 \in 0 .. Len(journal) /\ journal[i].order \in OrderIds
    BY <1>1 DEF Event
  <2>4. LawfulJournal(journal)
    BY DEF IInv
  <2> QED BY <1>1, <2>2, <2>3, <2>4, FillableGated
<1> QED BY <1>1, <1>2 DEF GatePrecedesFill, Gated

LEMMA HandedHolds == IInv => HandedInOrder
<1> SUFFICES ASSUME IInv, NEW o \in OrderIds,
                    Book[o].state \in {"HANDED_TO_ATREIDES", "REFUSED_BY_ATREIDES"},
                    NEW i \in DOMAIN SettlementPath
             PROVE  \E j \in DOMAIN journal :
                      /\ Checkpoint(o, i) = {j}
                      /\ i > 1 => \A k \in Checkpoint(o, i - 1) : k < j
  BY DEF HandedInOrder
<1> DEFINE place == Len(journal)
<1>1. /\ DOMAIN journal = 1 .. place /\ place \in Nat /\ place \in 0 .. place
      /\ journal \in Seq(Event)
  BY DEF IInv, JournalTyped
<1>2. Book = ReplayEach(journal)[place]
  BY DEF Book, Replay
<1>3. PICK m \in 0 .. 8 : Progress(journal, place, o, m)
  BY <1>1, EachProgresses DEF IInv
<1>4. PassedUpTo(journal, place, o, 8)
  BY <1>2, <1>3 DEF Progress
<1>5. i \in 1 .. 8
  BY DEF SettlementPath
<1>6. \A k : Checkpoint(o, k) = PassedAt(journal, place, o, k)
  BY <1>1 DEF Checkpoint, PassedAt
<1> QED BY <1>1, <1>4, <1>5, <1>6 DEF PassedUpTo

LEMMA AlwaysIInv == Spec => []IInv
<1> QED BY InitHolds, NextHolds, PTL DEF Spec

-----------------------------------------------------------------------------
\* Every event of every journal is a well-formed event of the register.
THEOREM TypeCorrect == Spec => []TypeOK
BY AlwaysIInv, TypesHold, PTL

\* Whatever callers interleave, a journal is one chain of events with ids of
\* their own, each decided on the register as it stood just before.
THEOREM JournalIsOneChain == Spec => []OneChain
BY AlwaysIInv, ChainHolds, PTL

\* No execution is recorded of an order that had not passed the gate, or had
\* been replaced since.
THEOREM GateComesFirst == Spec => []GatePrecedesFill
BY AlwaysIInv, GateHolds, PTL

\* No order reaches Atreides' answer but along the whole settlement path, each
\* checkpoint once and in order.
THEOREM CheckpointsInOrder == Spec => []HandedInOrder
BY AlwaysIInv, HandedHolds, PTL

-----------------------------------------------------------------------------
(* Every step keeps OrderLife's promise *)

\* The life of one order, as LifeOf tells it.
Life(order) ==
  [phase |-> PhaseOf(order.state), quantity |-> order.quantity,
   filled |-> order.executed]

LEMMA PhasesOfStates ==
  /\ PhaseOf(Unseen) = "absent"
  /\ \A s \in {"INTENT_ACCEPTED", "STRATEGY_AUTHORIZED", "PARENT_ACTIVE",
               "REPLACED"} : PhaseOf(s) = "working"
  /\ \A s \in Fillable : PhaseOf(s) = "released"
  /\ \A s \in Filled : PhaseOf(s) = "filled"
  /\ PhaseOf("HANDED_TO_ATREIDES") = "settled"
  /\ \A s \in {"REFUSED", "MARKET_ACCESS_REFUSED", "CANCELLED", "EXPIRED",
               "EXCEPTION_OPEN", "REFUSED_BY_ATREIDES", "NOT_REACHED"} :
       PhaseOf(s) = "closed"
  /\ \A s \in LifecycleState : PhaseOf(s) \in Promise!Phases \ {"absent"}
<1> USE FilledStates DEF PhaseOf, Unseen, Fillable
<1>1. /\ PhaseOf(Unseen) = "absent"
      /\ PhaseOf("HANDED_TO_ATREIDES") = "settled"
  OBVIOUS
<1>2. \A s \in {"INTENT_ACCEPTED", "STRATEGY_AUTHORIZED", "PARENT_ACTIVE",
               "REPLACED"} : PhaseOf(s) = "working"
  OBVIOUS
<1>3. \A s \in Fillable : PhaseOf(s) = "released"
  OBVIOUS
<1>4. \A s \in Filled : PhaseOf(s) = "filled"
  OBVIOUS
<1>5. \A s \in {"REFUSED", "MARKET_ACCESS_REFUSED", "CANCELLED", "EXPIRED",
               "EXCEPTION_OPEN", "REFUSED_BY_ATREIDES", "NOT_REACHED"} :
        PhaseOf(s) = "closed"
  OBVIOUS
<1>6. ASSUME NEW s \in LifecycleState
      PROVE  PhaseOf(s) \in Promise!Phases \ {"absent"}
  <2>1. s # Unseen
    BY DEF LifecycleState
  <2> QED BY <2>1 DEF Promise!Phases
<1> QED BY <1>1, <1>2, <1>3, <1>4, <1>5, <1>6

\* A move of the table that is no execution, as its phases see it.
LEMMA MovePhases ==
  ASSUME NEW was, NEW is, <<was, is>> \in Allowed, is \notin Executions
  PROVE  \/ /\ PhaseOf(was) \in {"working", "released"}
            /\ PhaseOf(is) \in {"working", "released"}
         \/ PhaseOf(was) = "filled" /\ PhaseOf(is) \in {"filled", "settled"}
         \/ was # Unseen /\ PhaseOf(was) # "absent" /\ PhaseOf(is) = "closed"
<1>2. /\ "EXECUTED" \in Filled /\ "TRADE_CAPTURED" \in Filled
      /\ "ALLOCATED" \in Filled /\ "MATCHED" \in Filled
      /\ "AFFIRMED" \in Filled /\ "CLEARING_TRANSFORMED" \in Filled
      /\ "OBLIGATION_READY" \in Filled
      /\ "SETTLEMENT_CANDIDATE_READY" \in Filled
  BY FilledStates
<1>3. CASE <<was, is>> \in WorkingMoves
  BY <1>3, PhasesOfStates DEF WorkingMoves, Fillable, Executions, Unseen
<1>4. CASE <<was, is>> \in PostTradeMoves
  BY <1>2, <1>4, PhasesOfStates DEF PostTradeMoves, Unseen
<1> QED BY <1>3, <1>4 DEF Allowed

\* What a lawful event makes of the order it names, unless it opens an order
\* there is already.
LEMMA RecordedIsLawful ==
  ASSUME NEW book, WellFormed(book), NEW e \in Event, Lawful(book, e),
         \/ book[e.order].state = Unseen
         \/ e.state # "PARENT_ACTIVE"
         \/ e.parent = NoOrder
  PROVE  LET was == Life(book[e.order])
             is  == Life(Recorded(book, e)[e.order])
         IN  is = was \/ Promise!Lawful(was, is)
<1> DEFINE prior == book[e.order]
           after == Recorded(book, e)[e.order]
           was == Life(prior)
           is == Life(after)
<1>1. /\ after.state = e.state
      /\ after.quantity =
           IF prior.state # Unseen THEN prior.quantity ELSE e.quantity
      /\ after.executed =
           IF prior.state # Unseen /\ e.state \in Executions
           THEN prior.executed + e.quantity ELSE prior.executed
  BY RecordedFields
<1>2. /\ e.order \in OrderIds /\ e.quantity \in Nat \ {0}
      /\ e.state \in LifecycleState /\ e.state # Unseen
  BY DEF Event, LifecycleState, Unseen
<1>3. /\ prior.quantity \in Nat /\ prior.executed \in Nat
      /\ prior.state = Unseen => prior.executed = 0
      /\ prior.state \in LifecycleState \cup {Unseen}
  BY <1>2 DEF WellFormed, Books, OrderSnapshot, EmptyBook
<1> HIDE DEF prior, after
<1>4. /\ was.phase = PhaseOf(prior.state) /\ was.quantity = prior.quantity
      /\ was.filled = prior.executed
      /\ is.phase = PhaseOf(after.state) /\ is.quantity = after.quantity
      /\ is.filled = after.executed
      /\ (is.phase = was.phase /\ is.quantity = was.quantity
          /\ is.filled = was.filled => is = was)
  BY DEF Life
<1> HIDE DEF was, is
<1>5. PhaseOf(prior.state) # "absent" <=> prior.state # Unseen
  BY <1>3, PhasesOfStates
<1>6. Lawful(book, e) <=>
        \/ e.state = "NOT_REACHED" /\ prior.state # Unseen
        \/ <<prior.state, e.state>> \in Allowed /\ e.state \notin Executions
        \/ /\ e.state \in Executions
           /\ prior.state \in Fillable
           /\ e.quantity <= Remaining(prior)
           /\ e.state = "EXECUTED" <=> e.quantity = Remaining(prior)
        \/ e.state \in {"INTENT_ACCEPTED", "REFUSED"} /\ prior.state = Unseen
        \/ e.state = "STRATEGY_AUTHORIZED" /\ prior.state = "INTENT_ACCEPTED"
        \/ /\ e.state = "PARENT_ACTIVE"
           /\ prior.state \in {Unseen, "STRATEGY_AUTHORIZED"} \/ e.parent # NoOrder
  BY DEF Lawful, prior
<1>7. \/ prior.state = Unseen \/ e.state # "PARENT_ACTIVE" \/ e.parent = NoOrder
  BY DEF prior
<1>8. CASE e.state = "NOT_REACHED" /\ prior.state # Unseen
  <2>1. is.quantity = was.quantity /\ is.filled = was.filled
    BY <1>1, <1>4, <1>8 DEF Executions
  <2>2. was.phase # "absent" /\ is.phase = "closed"
    BY <1>1, <1>4, <1>5, <1>8, PhasesOfStates
  <2>3. Promise!Close(was, is)
    BY <2>1, <2>2 DEF Promise!Close, Promise!SameSize
  <2> QED BY <2>3 DEF Promise!Lawful, was, is, prior, after
<1>9. CASE <<prior.state, e.state>> \in Allowed /\ e.state \notin Executions
  <2>0. prior.state # Unseen
    BY <1>9 DEF Allowed, WorkingMoves, PostTradeMoves, Unseen
  <2>1. is.quantity = was.quantity /\ is.filled = was.filled
    BY <1>1, <1>4, <1>9, <2>0
  <2>2. \/ /\ was.phase \in {"working", "released"}
           /\ is.phase \in {"working", "released"}
        \/ was.phase = "filled" /\ is.phase \in {"filled", "settled"}
        \/ was.phase # "absent" /\ is.phase = "closed"
    BY <1>1, <1>4, <1>9, MovePhases
  <2>3. is = was \/ Promise!Lawful(was, is)
    BY <1>4, <2>1, <2>2
       DEF Promise!Lawful, Promise!Release, Promise!Settle, Promise!Close,
           Promise!SameSize
  <2> QED BY <2>3 DEF was, is, prior, after
<1>10. CASE /\ e.state \in Executions
            /\ prior.state \in Fillable
            /\ e.quantity <= Remaining(prior)
            /\ e.state = "EXECUTED" <=> e.quantity = Remaining(prior)
  <2>0. prior.state # Unseen
    BY <1>10 DEF Fillable, Unseen
  <2>1. /\ is.quantity = was.quantity /\ is.filled = was.filled + e.quantity
        /\ was.quantity \in Nat /\ was.filled \in Nat
    BY <1>1, <1>3, <1>4, <1>10, <2>0
  <2>2. /\ e.quantity <= was.quantity - was.filled
        /\ e.state = "EXECUTED" <=> e.quantity = was.quantity - was.filled
    BY <1>4, <1>10 DEF Remaining
  <2>3. was.phase = "released"
    BY <1>4, <1>10, PhasesOfStates
  <2>4. was.filled < is.filled /\ is.filled <= was.quantity
    BY <1>2, <2>1, <2>2
  <2>5. is.phase \in IF is.filled = was.quantity THEN {"filled"}
                     ELSE {"released", "closed"}
    <3>1. CASE e.state = "EXECUTED"
      <4>1. is.filled = was.quantity
        BY <1>2, <2>1, <2>2, <3>1
      <4>2. "EXECUTED" \in Filled
        BY FilledStates
      <4> QED BY <1>1, <1>4, <3>1, <4>1, <4>2, PhasesOfStates
    <3>2. CASE e.state # "EXECUTED"
      <4>1. e.state = "PARTIALLY_EXECUTED"
        BY <1>10, <3>2 DEF Executions
      <4>2. is.filled # was.quantity
        BY <1>2, <2>1, <2>2, <3>2
      <4> QED BY <1>1, <1>4, <4>1, <4>2, PhasesOfStates DEF Fillable
    <3> QED BY <3>1, <3>2
  <2>6. Promise!Fill(was, is)
    BY <2>1, <2>3, <2>4, <2>5 DEF Promise!Fill
  <2> QED BY <2>6 DEF Promise!Lawful, was, is, prior, after
<1>11. CASE prior.state = Unseen /\
            e.state \in {"INTENT_ACCEPTED", "REFUSED", "PARENT_ACTIVE"}
  <2>1. was.phase = "absent" /\ is.phase \in {"working", "closed"}
    BY <1>1, <1>4, <1>11, PhasesOfStates
  <2>2. is.quantity > 0 /\ is.filled = 0
    BY <1>1, <1>2, <1>3, <1>4, <1>11
  <2>3. Promise!Place(was, is)
    BY <2>1, <2>2 DEF Promise!Place
  <2> QED BY <2>3 DEF Promise!Lawful, was, is, prior, after
<1>12. CASE \/ e.state = "STRATEGY_AUTHORIZED" /\ prior.state = "INTENT_ACCEPTED"
            \/ e.state = "PARENT_ACTIVE" /\ prior.state = "STRATEGY_AUTHORIZED"
  <2>1. prior.state # Unseen /\ e.state \notin Executions
    BY <1>12 DEF Unseen, Executions
  <2>2. is.quantity = was.quantity /\ is.filled = was.filled
    BY <1>1, <1>4, <2>1
  <2>3. was.phase = "working" /\ is.phase = "working"
    BY <1>1, <1>4, <1>12, PhasesOfStates
  <2>4. Promise!Release(was, is)
    BY <2>2, <2>3 DEF Promise!Release, Promise!SameSize
  <2> QED BY <2>4 DEF Promise!Lawful, was, is, prior, after
<1> QED BY <1>6, <1>7, <1>8, <1>9, <1>10, <1>11, <1>12

\* What KeepsPromise says of one step and one order.
LifeKept(o) ==
  \/ NamedAgain(o)
  \/ LifeOf(Book)'[o] = LifeOf(Book)[o]
  \/ Promise!Lawful(LifeOf(Book)[o], LifeOf(Book)'[o])

\* The life of an order is that of its snapshot.
LEMMA LivesOfBook ==
  ASSUME NEW book \in Books
  PROVE  /\ LifeOf(book) \in [OrderIds -> Promise!Lives]
         /\ \A o \in OrderIds : LifeOf(book)[o] = Life(book[o])
<1>1. \A o \in OrderIds : LifeOf(book)[o] = Life(book[o])
  BY DEF LifeOf, Life
<1>2. ASSUME NEW o \in OrderIds PROVE Life(book[o]) \in Promise!Lives
  <2>1. book[o] \in OrderSnapshot
    BY DEF Books
  <2>2. PhaseOf(book[o].state) \in Promise!Phases
    BY <2>1, PhasesOfStates DEF OrderSnapshot, Promise!Phases
  <2> QED BY <2>1, <2>2 DEF Life, Promise!Lives, OrderSnapshot
<1> QED BY <1>1, <1>2 DEF LifeOf, Life

\* A step that appends one event that does not open an order there is.
LEMMA OneMoreEvent ==
  ASSUME IInv, IInv', Len(journal') = Len(journal) + 1,
         \A n \in 0 .. Len(journal) :
           ReplayEach(journal')[n] = ReplayEach(journal)[n],
         LET e == journal'[Len(journal) + 1]
         IN  \/ Book[e.order].state = Unseen
             \/ e.state # "PARENT_ACTIVE"
             \/ e.parent = NoOrder,
         NEW o \in OrderIds
  PROVE  LifeKept(o)
<1> DEFINE place == Len(journal)
           e == journal'[place + 1]
<1>1. /\ place \in Nat /\ place \in 0 .. place /\ place + 1 \in 1 .. Len(journal')
      /\ place + 1 - 1 = place /\ journal' \in Seq(Event) /\ Len(journal') \in Nat
  BY DEF IInv, JournalTyped
<1>2. e \in Event
  BY <1>1
<1>3. /\ Book = ReplayEach(journal)[place] /\ WellFormed(Book)
      /\ Book' = ReplayEach(journal')[place + 1]
  <2>1. Book' = ReplayEach(journal')[Len(journal')]
    BY DEF Book, Replay
  <2> QED BY <2>1, BookNow DEF IInv
<1>4. Book' = Recorded(Book, e)
  BY <1>1, <1>3, ReplayStep
<1>5. Lawful(Book, e)
  BY <1>1, <1>3 DEF IInv, LawfulJournal
<1>6. /\ LifeOf(Book)[o] = Life(Book[o]) /\ LifeOf(Book)'[o] = Life(Book'[o])
  BY DEF LifeOf, Life
<1> HIDE DEF e
<1>7. CASE e.order = o
  <2>1. \/ Life(Book'[o]) = Life(Book[o])
        \/ Promise!Lawful(Life(Book[o]), Life(Book'[o]))
    BY <1>2, <1>3, <1>4, <1>5, <1>7, RecordedIsLawful DEF e
  <2> QED BY <1>6, <2>1 DEF LifeKept
<1>8. CASE e.order # o
  <2>1. Book'[o] = Book[o]
    BY <1>2, <1>3, <1>4, <1>8, RecordedFields
  <2> QED BY <1>6, <2>1 DEF LifeKept
<1> QED BY <1>7, <1>8

\* The same for an operation that appends one payload.
LEMMA OneMorePayload ==
  ASSUME IInv, IInv', NEW payload \in Payload, AppendEach(<<payload>>),
         payload.state # "PARENT_ACTIVE" \/ payload.parent = NoOrder,
         NEW o \in OrderIds
  PROVE  LifeKept(o)
<1> DEFINE payloads == <<payload>>
<1>1. /\ payloads \in [1 .. 1 -> Payload] /\ payloads[1] = payload
      /\ 1 \in Nat \ {0} /\ 1 \in 1 .. 1 /\ AppendEach(payloads)
  OBVIOUS
<1> HIDE DEF payloads
<1>2. /\ Len(journal') = Len(journal) + 1
      /\ \A n \in 0 .. Len(journal) :
           ReplayEach(journal')[n] = ReplayEach(journal)[n]
      /\ LET e == journal'[Len(journal) + 1]
         IN  e.state = payloads[1].state /\ e.parent = payloads[1].parent
  BY <1>1, EachAppended
<1> QED BY <1>1, <1>2, OneMoreEvent

\* split_parent: a child the register does not hold is opened; one that it
\* holds is named again.
LEMMA SplitLives ==
  ASSUME IInv, IInv', NEW children \in ChildLists, SplitParent(children),
         NEW o \in OrderIds
  PROVE  LifeKept(o)
<1> DEFINE payloads ==
             [i \in DOMAIN children |->
                OpeningEvent(children[i].order, parent, children[i].quantity,
                             children[i].terms)]
           place == Len(journal)
           r == ReplayEach(journal')
<1>1. PICK k \in Nat \ {0} :
        /\ payloads \in [1 .. k -> Payload] /\ AppendEach(payloads)
        /\ \A i \in 1 .. k : /\ payloads[i].state = "PARENT_ACTIVE"
                             /\ payloads[i].parent # NoOrder
        /\ \A i, j \in 1 .. k :
             i # j => payloads[i].order # payloads[j].order
  BY SplitPayloads
<1> HIDE DEF payloads
<1>2. /\ Len(journal') = place + k
      /\ \A i \in 1 .. k :
           LET e == journal'[place + i]
           IN  /\ e \in Event
               /\ e.order = payloads[i].order /\ e.state = payloads[i].state
               /\ e.parent = payloads[i].parent
      /\ \A n \in 0 .. place : r[n] = ReplayEach(journal)[n]
  BY <1>1, EachAppended
<1>3. /\ place \in Nat /\ place \in 0 .. place /\ Len(journal') \in Nat
      /\ journal' \in Seq(Event)
  BY DEF IInv, JournalTyped
<1>4. /\ Book = r[place] /\ Book' = r[place + k]
  <2>1. Book' = r[Len(journal')] /\ Book = ReplayEach(journal)[place]
    BY DEF Book, Replay
  <2> QED BY <1>2, <1>3, <2>1
<1>5. /\ LifeOf(Book)[o] = Life(Book[o]) /\ LifeOf(Book)'[o] = Life(Book'[o])
  BY DEF LifeOf, Life
<1>6. CASE \A i \in 1 .. k : payloads[i].order # o
  <2>1. ASSUME NEW n \in place + 1 .. place + k PROVE journal'[n].order # o
    <3>1. n - place \in 1 .. k /\ place + (n - place) = n
      BY <1>1, <1>3
    <3> QED BY <1>2, <1>6, <3>1
  <2>2. place \in 0 .. Len(journal') /\ place + k \in place .. Len(journal')
    BY <1>1, <1>2, <1>3
  <2>3. Book'[o] = Book[o]
    BY <1>3, <1>4, <2>1, <2>2, ReplayUntouched
  <2> QED BY <1>5, <2>3 DEF LifeKept
<1>7. ASSUME NEW i \in 1 .. k, payloads[i].order = o PROVE LifeKept(o)
  <2> DEFINE at == place + i
             e == journal'[at]
  <2>1. /\ at \in 1 .. place + k /\ at - 1 \in 0 .. place + k
        /\ at \in place + 1 .. place + k
        /\ at - 1 \in place .. place + k /\ place \in 0 .. place + k
        /\ at \in 0 .. place + k /\ place + k \in at .. place + k
        /\ at - 1 + 1 = at
    BY <1>1, <1>3
  <2>2. e \in Event /\ e.order = o /\ e.state = "PARENT_ACTIVE" /\ e.parent # NoOrder
    BY <1>1, <1>2, <1>7
  <2> HIDE DEF e
  <2>3. CASE Book[o].state # Unseen
    BY <1>2, <2>1, <2>2, <2>3 DEF LifeKept, NamedAgain, e
  <2>4. CASE Book[o].state = Unseen
    <3>1. ASSUME NEW n \in place + 1 .. place + k, n # at
          PROVE  journal'[n].order # o
      <4>1. n - place \in 1 .. k /\ place + (n - place) = n /\ n - place # i
        BY <1>1, <1>3, <3>1
      <4>2. journal'[n].order = payloads[n - place].order
        BY <1>2, <4>1
      <4>3. payloads[n - place].order # payloads[i].order
        BY <1>1, <4>1
      <4> QED BY <1>7, <4>2, <4>3
    <3>2. \A n \in place + 1 .. at - 1 : journal'[n].order # o
      <4>1. \A n \in place + 1 .. at - 1 : n \in place + 1 .. place + k /\ n # at
        BY <1>1, <1>3, <2>1
      <4> QED BY <3>1, <4>1
    <3>3. \A n \in at + 1 .. place + k : journal'[n].order # o
      <4>1. \A n \in at + 1 .. place + k : n \in place + 1 .. place + k /\ n # at
        BY <1>1, <1>3, <2>1
      <4> QED BY <3>1, <4>1
    <3> HIDE DEF at
    <3>4. r[at - 1][o] = Book[o]
      <4>1. place \in 0 .. Len(journal') /\ at - 1 \in place .. Len(journal')
        BY <1>2, <2>1
      <4> DEFINE last == at - 1
      <4>2. last \in place .. Len(journal')
        BY <4>1
      <4>3. \A n \in place + 1 .. last : journal'[n].order # o
        BY <3>2
      <4> HIDE DEF last, place
      <4>4. r[last][o] = r[place][o]
        BY <1>3, <4>1, <4>2, <4>3, ReplayUntouched
      <4> QED BY <1>4, <4>4 DEF last
    <3>5. Book'[o] = r[at][o]
      <4> DEFINE last == place + k
      <4>1. at \in 0 .. Len(journal') /\ last \in at .. Len(journal')
        BY <1>2, <2>1
      <4>2. \A n \in at + 1 .. last : journal'[n].order # o
        BY <3>3
      <4> HIDE DEF last
      <4>3. r[last][o] = r[at][o]
        BY <1>3, <4>1, <4>2, ReplayUntouched
      <4> QED BY <1>4, <4>3 DEF last
    <3>6. /\ r[at] = Recorded(r[at - 1], e) /\ WellFormed(r[at - 1])
          /\ Lawful(r[at - 1], e)
      BY <1>2, <1>3, <2>1, ReplayStep, EachWellFormed DEF e, IInv, LawfulJournal
    <3> HIDE DEF r
    <3>7. \/ Life(Book'[o]) = Life(Book[o])
          \/ Promise!Lawful(Life(Book[o]), Life(Book'[o]))
      BY <2>2, <2>4, <3>4, <3>5, <3>6, RecordedIsLawful
    <3> QED BY <1>5, <3>7 DEF LifeKept
  <2> QED BY <2>3, <2>4
<1> QED BY <1>6, <1>7

\* Every step of the register.
LEMMA StepKept ==
  ASSUME IInv, IInv', [Next]_vars, NEW o \in OrderIds
  PROVE  LifeKept(o)
<1>1. CASE \E p \in OrderIds, q \in Quantities, v \in BOOLEAN : AcceptIntent(p, q, v)
  <2>1. PICK p \in OrderIds, q \in Quantities, v \in BOOLEAN : AcceptIntent(p, q, v)
    BY <1>1
  <2> DEFINE payload ==
               IntentEvent(p, IF v THEN "INTENT_ACCEPTED" ELSE "REFUSED", q)
  <2>2. /\ payload \in Payload /\ payload.parent = NoOrder
        /\ AppendEach(<<payload>>)
    BY <2>1, QuantitiesAssumption
       DEF IntentEvent, Payload, LifecycleState, AcceptIntent
  <2> HIDE DEF payload
  <2> QED BY <2>2, OneMorePayload
<1>2. ASSUME NEW required, NEW reached \in LifecycleState,
             NextOnParent(required, reached)
      PROVE  LifeKept(o)
  <2> DEFINE payload == IntentEvent(parent,
                                    IF Last(journal).state = required
                                    THEN reached ELSE "NOT_REACHED",
                                    Last(journal).quantity)
  <2>1. parent # NoOrder /\ AppendEach(<<payload>>)
    BY <1>2 DEF NextOnParent
  <2>2. parent \in OrderIds /\ Last(journal) \in Event
    BY <2>1, LastAndParent
  <2>3. payload \in Payload /\ payload.parent = NoOrder
    BY <2>2 DEF IntentEvent, Payload, Event, LifecycleState
  <2> HIDE DEF payload
  <2> QED BY <2>1, <2>3, OneMorePayload
<1>3. CASE AuthorizeStrategy
  BY <1>2, <1>3 DEF AuthorizeStrategy, LifecycleState
<1>4. CASE ActivateParent
  BY <1>2, <1>4 DEF ActivateParent, LifecycleState
<1>5. CASE \E children \in ChildLists : SplitParent(children)
  BY <1>5, SplitLives
<1>6. CASE \/ \E p \in OrderIds, q \in Quantities, t \in Terms \cup {NoTerms} :
                SealOrder(p, q, t)
           \/ UNCHANGED vars
  <2>1. journal' = journal
    BY <1>6 DEF SealOrder, vars
  <2>2. LifeOf(Book)'[o] = LifeOf(Book)[o]
    BY <2>1 DEF LifeOf, Book
  <2> QED BY <2>2 DEF LifeKept
<1>7. CASE \E e \in sealed : AppendSealed(e)
  <2>1. PICK e \in sealed : AppendSealed(e)
    BY <1>7
  <2>2. e.parent = NoOrder
    BY DEF IInv, SealedAhead
  <2> QED BY <2>1, <2>2, SealedAppended, OneMoreEvent
<1>8. CASE \E p \in OrderIds : Transition(p)
  <2>1. PICK p \in OrderIds : Transition(p)
    BY <1>8
  <2>2. PICK payload \in Payload :
          AppendEach(<<payload>>) /\ payload.state # "PARENT_ACTIVE"
    BY <2>1, TransitionPayload
  <2> QED BY <2>2, OneMorePayload
<1>9. CASE \E p \in OrderIds, q \in FillQuantities : RecordFill(p, q)
  <2>1. PICK p \in OrderIds, q \in FillQuantities : RecordFill(p, q)
    BY <1>9
  <2> DEFINE target == IF q = Remaining(Book[p]) THEN "EXECUTED"
                       ELSE "PARTIALLY_EXECUTED"
             payload == TransitionEvent(Book, p, target, q, Book[p].terms, q)
  <2>2. /\ AppendEach(<<payload>>) /\ payload \in Payload
        /\ payload.state = target
    BY <2>1, FillPayload
  <2> HIDE DEF payload
  <2> QED BY <2>2, OneMorePayload
<1>10. CASE \E p \in OrderIds : RecordNotReached(p)
  <2>1. PICK p \in OrderIds : RecordNotReached(p)
    BY <1>10
  <2> DEFINE payload ==
               [order |-> p, parent |-> Book[p].parent, state |-> "NOT_REACHED",
                quantity |-> Book[p].quantity, consideration |-> 0,
                terms |-> Book[p].terms]
  <2>2. /\ p \in Known(Book) /\ AppendEach(<<payload>>)
    BY <2>1 DEF RecordNotReached
  <2>3. payload \in Payload /\ payload.state # "PARENT_ACTIVE"
    BY <2>2, KnownTyped DEF Payload, LifecycleState
  <2> HIDE DEF payload
  <2> QED BY <2>2, <2>3, OneMorePayload
<1> QED BY <1>1, <1>3, <1>4, <1>5, <1>6, <1>7, <1>8, <1>9, <1>10 DEF Next

\* A register starts with no order, and each step gives every order a life as
\* OrderLife promises it, but for an order that a split names again.
THEOREM PromiseKept == Spec => KeepsPromise
<1>1. Init => Promise!Init
  <2> SUFFICES ASSUME Init PROVE Promise!Init
    OBVIOUS
  <2>1. Book = EmptyBook
    BY ReplayStep DEF Init, Book, Replay
  <2>2. \A o \in OrderIds : Life(EmptyBook[o]) = Promise!Unborn
    BY PhasesOfStates DEF EmptyBook, Life, Promise!Unborn
  <2> QED BY <2>1, <2>2 DEF Promise!Init, LifeOf, Life
<1> DEFINE Step == LET before == LifeOf(Book)
                       after  == LifeOf(Book)'
                   IN  /\ after \in [OrderIds -> Promise!Lives]
                       /\ \A o \in OrderIds :
                            \/ NamedAgain(o)
                            \/ after[o] = before[o]
                            \/ Promise!Lawful(before[o], after[o])
<1>2. IInv /\ IInv' /\ [Next]_vars => [Step]_vars
  <2> SUFFICES ASSUME IInv, IInv', [Next]_vars PROVE Step
    OBVIOUS
  <2>1. LifeOf(Book)' \in [OrderIds -> Promise!Lives]
    <3>1. /\ Book' = ReplayEach(journal')[Len(journal')]
          /\ journal' \in Seq(Event) /\ Len(journal') \in 0 .. Len(journal')
      BY DEF IInv, JournalTyped, Book, Replay
    <3>2. Book' \in Books
      BY <3>1, EachWellFormed DEF WellFormed
    <3>3. LifeOf(Book)' = [o \in OrderIds |-> Life(Book'[o])]
      BY DEF LifeOf, Life
    <3>4. \A o \in OrderIds : Life(Book'[o]) \in Promise!Lives
      <4>1. ASSUME NEW book \in Books, NEW o \in OrderIds
            PROVE  Life(book[o]) \in Promise!Lives
        BY LivesOfBook
      <4> QED BY <3>2, <4>1
    <3> QED BY <3>3, <3>4
  <2>2. \A o \in OrderIds : LifeKept(o)
    BY StepKept
  <2> QED BY <2>1, <2>2 DEF LifeKept
<1>3. Spec => Promise!Init /\ [][Step]_vars
  BY <1>1, <1>2, AlwaysIInv, PTL DEF Spec
<1> QED BY <1>3 DEF KeepsPromise
=============================================================================
