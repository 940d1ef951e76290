----------------------------- MODULE OrderStates -----------------------------
(***************************************************************************)
(* The vocabulary of an order's life and the table of moves a register     *)
(* records (lc/events.py, lc/lifecycle.py).  No variables: every module    *)
(* that keeps orders extends this one.                                     *)
(***************************************************************************)

\* The states an order event may carry.
LifecycleState ==
  {"INTENT_ACCEPTED", "REFUSED", "STRATEGY_AUTHORIZED", "PARENT_ACTIVE",
   "MARKET_ACCESS_PASSED", "MARKET_ACCESS_REFUSED", "CANCELLED", "REPLACED",
   "EXPIRED", "PARTIALLY_EXECUTED", "EXECUTED", "TRADE_CAPTURED", "ALLOCATED",
   "MATCHED", "AFFIRMED", "EXCEPTION_OPEN", "CLEARING_TRANSFORMED",
   "OBLIGATION_READY", "SETTLEMENT_CANDIDATE_READY", "HANDED_TO_ATREIDES",
   "REFUSED_BY_ATREIDES", "NOT_REACHED"}

\* The rows of _ALLOWED for an order that still works, was withdrawn, or is
\* having its controls rerun after a replacement.
WorkingMoves ==
  ({"PARENT_ACTIVE"} \X
     {"MARKET_ACCESS_PASSED", "MARKET_ACCESS_REFUSED", "CANCELLED",
      "REPLACED", "EXPIRED"})
    \cup
  ({"MARKET_ACCESS_PASSED", "PARTIALLY_EXECUTED"} \X
     {"PARTIALLY_EXECUTED", "EXECUTED", "CANCELLED", "REPLACED", "EXPIRED"})
    \cup
  ({"CANCELLED", "EXPIRED"} \X {"EXCEPTION_OPEN"})
    \cup
  ({"REPLACED"} \X {"MARKET_ACCESS_PASSED", "MARKET_ACCESS_REFUSED"})

\* The rows of _ALLOWED from a full execution to Atreides' answer.
PostTradeMoves ==
  {<<"EXECUTED", "TRADE_CAPTURED">>,
   <<"TRADE_CAPTURED", "ALLOCATED">>,
   <<"AFFIRMED", "CLEARING_TRANSFORMED">>,
   <<"CLEARING_TRANSFORMED", "OBLIGATION_READY">>,
   <<"OBLIGATION_READY", "SETTLEMENT_CANDIDATE_READY">>}
    \cup
  ({"ALLOCATED"} \X {"MATCHED", "EXCEPTION_OPEN"})
    \cup
  ({"MATCHED"} \X {"AFFIRMED", "EXCEPTION_OPEN"})
    \cup
  ({"SETTLEMENT_CANDIDATE_READY"} \X
     {"HANDED_TO_ATREIDES", "REFUSED_BY_ATREIDES"})

\* Mutant of Allowed: a replaced order may go straight back to execution,
\* and an allocated one straight to affirmation.
AllowedSkippingControls ==
  WorkingMoves \cup PostTradeMoves
    \cup {<<"PARENT_ACTIVE", "PARTIALLY_EXECUTED">>,
          <<"ALLOCATED", "AFFIRMED">>}

\* _ALLOWED: the moves a transition may record; anything else is recorded
\* as NOT_REACHED.  A state without a row has no move.
Allowed == WorkingMoves \cup PostTradeMoves

\* What a transition records when `target` is requested of an order in `state`.
Reached(state, target) ==
  IF <<state, target>> \in Allowed THEN target ELSE "NOT_REACHED"

\* The states in which an order still works at the firm or at the venue: the
\* set expire_day_orders, engage_halt and the market access gate each spell out.
Live == {"PARENT_ACTIVE", "MARKET_ACCESS_PASSED", "PARTIALLY_EXECUTED"}

\* The states in which apply_execution accepts a fill.
Fillable == {"MARKET_ACCESS_PASSED", "PARTIALLY_EXECUTED"}

\* The event states whose quantity replay adds to what has been executed.
Executions == {"PARTIALLY_EXECUTED", "EXECUTED"}

\* The checkpoints a filled order passes on its way to Atreides, in order.
SettlementPath ==
  <<"EXECUTED", "TRADE_CAPTURED", "ALLOCATED", "MATCHED", "AFFIRMED",
    "CLEARING_TRANSFORMED", "OBLIGATION_READY",
    "SETTLEMENT_CANDIDATE_READY">>

Filled == {SettlementPath[i] : i \in DOMAIN SettlementPath}
=============================================================================
