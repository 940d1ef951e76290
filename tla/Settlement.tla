----------------------------- MODULE Settlement -----------------------------
(***************************************************************************)
(* From an affirmed trade to Atreides' answer (lc/clearing.py,             *)
(* lc/obligation.py, derive_cash_from_fills of lc/institutional.py): the   *)
(* captured trades are cleared gross, an obligation is formed from a       *)
(* clearing result and what the register holds of the order, and the       *)
(* answer to it is recorded.  Days are business days of one calendar.      *)
(***************************************************************************)
EXTENDS PostTrade

CONSTANTS
  Obligations,      \* obligation identifiers
  Days,             \* value dates a caller may state
  Cycle,            \* settlement cycle of the asset profile, in business days
  Accrued(_, _),    \* accrued interest in cents: quantity, value date
  Intents,          \* approved intents: [id, side, accounts]
  Participants,     \* the parties a caller may name on a leg
  Firm,             \* firm_participant_id of the attested document
  Capacity,         \* account -> its attested capacity
  NoCapacity

ASSUME CycleAssumption == Cycle \in Nat
ASSUME IntentsAssumption == \A intent \in Intents : intent.side \in {"BUY", "SELL"}

VARIABLES
  formed,   \* order that has one -> the envelope of its FormedObligation
  answered  \* order that has one -> its HandoffOutcome: [acceptance, of], the
            \* answer and the order on whose FormedObligation it was recorded

vars == <<orders, fills, tradeVars, holder, formed, answered>>

Formed(o) == <<"FORMED", o>>

\* The records f with the one of order o set to r.
With(f, o, r) == [x \in DOMAIN f \cup {o} |-> IF x = o THEN r ELSE f[x]]

-----------------------------------------------------------------------------
(* Clearing *)

\* derive_cash_from_fills: principal and accrued interest.
Total(quantity, money, day) == Cents(money) + Accrued(quantity, day)

\* gross_trade_from_capture: the order stands for the trade it was captured as.
GrossTrade(o, id, day) ==
  [trade |-> o, obligation |-> id, quantity |-> captures[o].quantity,
   cash |-> Total(captures[o].quantity, captures[o].money, day)]

\* clear_gross: one obligation per trade, each with that trade's economics, no
\* trade and no obligation twice.  The result is a value; nothing keeps it.
Cleared(S, ids, days) == {GrossTrade(o, ids[o], days[o]) : o \in S}

Clearings ==
  UNION {{Cleared(S, ids, days) :
            ids \in {f \in [S -> Obligations] : IsInjective(f)},
            days \in [S -> Days]} :
         S \in (SUBSET {o \in OrderIds : captures[o] # NoCapture}) \ {{}}}

-----------------------------------------------------------------------------
(* Forming an obligation *)

\* The legs a caller hands over, economics as some clearing result has them.
Legs ==
  [day : Days, deliverer : Participants, receiver : Participants,
   payer : Participants, payee : Participants]

TradeDay(o) == CHOOSE d \in {fills[o][i].day : i \in DOMAIN fills[o]} :
                 \A i \in DOMAIN fills[o] : fills[o][i].day <= d

\* _sealed_order: the order is affirmed, and was sealed under this intent for
\* the intent's side.
Sealed(o, intent) ==
  /\ orders[o].state = "AFFIRMED"
  /\ orders[o].terms # NoTerms
  /\ orders[o].terms.intent = intent.id
  /\ orders[o].terms.side = intent.side
  /\ fills[o] # <<>>

\* Mutant of EconomicsHold: the clearing result is believed.
EconomicsBelieved(o, gross, day) ==
  gross.quantity = orders[o].executed /\ day = TradeDay(o) + Cycle

\* Quantity, value date and cash are those of the sealed fills.
EconomicsHold(o, gross, day) ==
  /\ gross.quantity = orders[o].executed
  /\ day = TradeDay(o) + Cycle
  /\ gross.cash = Total(orders[o].executed, orders[o].consideration, day)

\* _payload_is_complete: a security leg and a cash leg between two distinct
\* parties, each delivering on one and receiving on the other.
PartiesMatch(legs) ==
  /\ legs.deliverer # legs.receiver
  /\ legs.deliverer = legs.payee
  /\ legs.receiver = legs.payer

\* The firm is the attested participant, and has the sealed side's duties.
FirmTakesItsSide(intent, legs) ==
  IF intent.side = "BUY" THEN legs.receiver = Firm /\ legs.payer = Firm
  ELSE legs.deliverer = Firm /\ legs.payee = Firm

\* _attested_firm: every account of the order is attested; a delivery has the
\* most protective capacity among them.
Accounts(o, intent) == {orders[o].terms.account} \cup intent.accounts

SellerCapacity(o, intent) ==
  LET stated == {Capacity[a] : a \in Accounts(o, intent)}
  IN  CASE intent.side = "BUY" -> NoCapacity
        [] intent.side # "BUY" /\ "CUSTOMER" \in stated -> "CUSTOMER"
        [] intent.side # "BUY" /\ "CUSTOMER" \notin stated /\ "PAB" \in stated -> "PAB"
        [] OTHER -> "PROPRIETARY"

\* The other trades of the clearing result are left out of its identity.
Envelope(o, gross, intent, legs) ==
  [obligation |-> gross.obligation, trade |-> gross.trade, intent |-> intent,
   quantity |-> gross.quantity, cash |-> gross.cash, legs |-> legs,
   capacity |-> SellerCapacity(o, intent)]

\* Mutant of Readied: the obligation's own move is left out.
ReadiedWithoutObligation(book, o) ==
  Moved(Moved(book, o, "CLEARING_TRANSFORMED"), o, "SETTLEMENT_CANDIDATE_READY")

\* The three moves form_obligation makes once every check has passed.
Readied(book, o) ==
  Moved(Moved(Moved(book, o, "CLEARING_TRANSFORMED"), o, "OBLIGATION_READY"),
        o, "SETTLEMENT_CANDIDATE_READY")

\* form_obligation.  The obligation is any output of the clearing result.
FormObligation(o, intent, legs) ==
  /\ Sealed(o, intent)
  /\ Accounts(o, intent) \subseteq DOMAIN Capacity
  /\ PartiesMatch(legs)
  /\ FirmTakesItsSide(intent, legs)
  /\ \E clearing \in Clearings : \E gross \in clearing :
       /\ EconomicsHold(o, gross, legs.day)
       /\ formed' = With(formed, o, Envelope(o, gross, intent, legs))
  /\ orders' = Readied(orders, o)
  /\ holder' = Formed(o)
  /\ UNCHANGED <<fills, tradeVars, answered>>

-----------------------------------------------------------------------------
(* Atreides' answer *)

\* Mutant of Binds: only the obligation's identifier is compared.
BindsById(acceptance, envelope) ==
  acceptance.envelope.obligation = envelope.obligation

\* The acceptance names the obligation and the digest of its envelope.
Binds(acceptance, envelope) == acceptance.envelope = envelope

\* What Atreides may have answered: any envelope it was given.
Acceptances ==
  [envelope : {formed[o] : o \in DOMAIN formed}, disposition : {"PASS", "HOLD"}]

\* record_atreides_handoff works on the register of the formed obligation of
\* some order p, for whichever order its caller names: a FormedObligation does
\* not say which order it is of.  Its callers use it while its register is the
\* latest one they hold.
RecordHandoff(o, p, acceptance) ==
  /\ holder = Formed(p)
  /\ orders[o].state # Unseen
  /\ Binds(acceptance, formed[p])
  /\ MoveTo(o, IF acceptance.disposition = "PASS"
               THEN "HANDED_TO_ATREIDES" ELSE "REFUSED_BY_ATREIDES", NoHolder)
  /\ answered' = With(answered, o, [acceptance |-> acceptance, of |-> p])
  /\ UNCHANGED <<fills, tradeVars, formed>>

-----------------------------------------------------------------------------
Init ==
  /\ TradeInit
  /\ formed = <<>>
  /\ answered = <<>>

Next ==
  \/ TradeStep /\ UNCHANGED <<formed, answered>>
  \/ \E o \in OrderIds, intent \in Intents, legs \in Legs :
       FormObligation(o, intent, legs)
  \/ \E o, p \in OrderIds, acceptance \in Acceptances : RecordHandoff(o, p, acceptance)

Spec == Init /\ [][Next]_vars

-----------------------------------------------------------------------------
(* Properties *)

\* The register and the records callers keep have their shape.
TypeOK ==
  /\ TradeTypeOK
  /\ \A o \in DOMAIN formed :
       formed[o].obligation \in Obligations /\ formed[o].legs \in Legs
  /\ \A o \in OrderIds :
       holder = Formed(o) => orders[o].state = "SETTLEMENT_CANDIDATE_READY"

\* An obligation settles what was filled: its quantity and cash are those of the
\* order's sealed fills on the day it settles, whatever prices were captured,
\* cleared or stated since (capture, clear_gross, form_obligation).
SettlesWhatWasFilled ==
  \A o \in DOMAIN formed :
    LET e == formed[o]
    IN  /\ e.quantity = Quantity(fills[o])
        /\ e.cash = HalfEven(Money(fills[o]), Unit * PerCent)
                      + Accrued(Quantity(fills[o]), e.legs.day)
        /\ \E i \in DOMAIN fills[o] : e.legs.day = fills[o][i].day + Cycle
        /\ \A i \in DOMAIN fills[o] : e.legs.day >= fills[o][i].day + Cycle

\* In an obligation the attested firm delivers the securities of an order sealed
\* to sell and is paid for them, receives and pays for those of one sealed to
\* buy, and faces somebody else (form_obligation, _payload_is_complete).
FirmOnItsSide ==
  \A o \in DOMAIN formed :
    LET legs  == formed[o].legs
        sells == orders[o].terms.side = "SELL"
    IN  /\ Firm = IF sells THEN legs.deliverer ELSE legs.receiver
        /\ Firm = IF sells THEN legs.payee ELSE legs.payer
        /\ Firm # IF sells THEN legs.receiver ELSE legs.deliverer
        /\ Firm # IF sells THEN legs.payer ELSE legs.payee

\* An order that was handed over or refused had an obligation formed, and was
\* closed by an answer that means this and that binds, whole, the envelope of
\* the obligation it was recorded on; no obligation closes two orders
\* (record_atreides_handoff).  That the obligation is the order's own is not
\* so: the caller names the order, and nothing compares the two.
AnswerBinds ==
  LET closed == {o \in OrderIds :
                   orders[o].state \in {"HANDED_TO_ATREIDES", "REFUSED_BY_ATREIDES"}}
  IN  /\ closed \subseteq DOMAIN formed \cap DOMAIN answered
      /\ \A o \in closed :
           LET answer == answered[o].acceptance
           IN  /\ answer.envelope = formed[answered[o].of]
               /\ (answer.disposition = "PASS") = (orders[o].state = "HANDED_TO_ATREIDES")
      /\ \A o, p \in closed : o # p => answered[o].of # answered[p].of
=============================================================================
