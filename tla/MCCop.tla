-------------------------------- MODULE MCCop ---------------------------------
(* A small operating picture: one repository, two commits, most of the      *)
(* feeds, and few kinds of trouble.  The board is without repo publications: *)
(* their rows alone keep the overall state from ever being green.           *)
EXTENDS CopRefresher

Answer(v, age) ==
    [sent |-> "answered", status |-> 200, limited |-> FALSE, flaw |-> None,
     value |-> v, age |-> age]

Flawed(r, flaw)   == [r EXCEPT !.flaw = flaw]
Status(r, status) == [r EXCEPT !.status = status]

MCRepositories == {"aureon"}
MCAureonRepo   == "aureon"
MCConnected    == {"agents", "advisories", "lifecycles", "escalations", "breaks",
                   "cash_leg", "exceptions", "governance"}
MCLimit        == [key \in Keys |-> IF key = ProgramKey THEN None ELSE 1]

Run(conclusion, scheduled) ==
    [workflow |-> 1, head |-> "c1", scheduled |-> scheduled, status |-> "completed",
     conclusion |-> conclusion, started |-> IF conclusion = "success" THEN 1 ELSE 2]

(* A pull request whose checks could not be read.                          *)
Pull == [number |-> 1, checks |-> Failed("Timeout"), merge |-> Value("clean", 0)]

Aureon(sha, pending) ==
    [deploy_sha |-> sha, stack |-> "ready", positions |-> 1, pending |-> pending,
     market_open |-> TRUE]

Doc(kind, naive) ==
    [kind |-> kind, naive |-> naive, age |-> 0, recorded |-> FiccStages,
     stages |-> [c \in Checkpoints |-> "PASS"]]
Board(naive) == {Doc("bilateral", naive), Doc("oms", FALSE)}

Agents(halted) ==
    [halted |-> halted, disposition |-> "PASS",
     rows |-> {[probe |-> FALSE, up |-> TRUE, disposition |-> "PASS"]}]

Break == [break_id |-> 1, owner |-> "ops", absence_reason |-> FALSE, state |-> "OPEN",
          history |-> <<[previous |-> None, assigned |-> "ops"]>>, evidence |-> None,
          originating_event |-> 0, sla_target |-> 1]

Fetched == {ProgramKey, AureonKey} \cup (MCRepositories \X RepoParts)
               \cup {Feed(name) : name \in MCConnected}

MCUsual ==
    [key \in Fetched |->
        CASE key = ProgramKey -> Answer([blocked |-> FALSE, decisions |-> FALSE], 0)
          [] key = AureonKey -> Answer(Aureon("c1", 1), 0)
          [] key[2] = "main" -> Answer("c1", 0)
          [] key[2] \in {"main_ci", "scheduled"} ->
                 Answer({Run("success", FALSE), Run("success", TRUE)}, 0)
          [] key[2] = "tag" -> Answer(<<1>>, 0)
          [] key[2] = "pulls" -> Answer({}, 0)
          [] key = Feed("agents") -> Answer(Agents(FALSE), 0)
          [] key = Feed("lifecycles") -> Answer(Board(FALSE), 0)
          [] key \in {Feed("escalations"), Feed("breaks")} -> Answer({}, 0)
          [] key = Feed("cash_leg") -> Answer("will_settle", 0)
          [] key = Feed("exceptions") -> Answer({Break}, 0)
          [] key \in {Feed("advisories"), Feed("governance")} -> Answer({"PASS"}, 0)]

MCUnusual ==
    [key \in Fetched |->
        LET usual == MCUsual[key]
        IN  CASE key = ProgramKey -> {Flawed(usual, "invalid")}
              [] key = AureonKey -> {Answer(Aureon("c2", 0), 0), Answer(Aureon(None, 0), 0)}
              [] key[2] = "main" -> {Answer("c2", 0)}
              [] key[2] = "main_ci" -> {Flawed(usual, "incomplete")}
              [] key[2] = "pulls" -> {Answer({Pull}, 0)}
              [] key = Feed("agents") -> {Status(usual, 429)}
              [] key = Feed("lifecycles") -> {Answer(Board(TRUE), 0)}
              [] key = Feed("advisories") -> {Flawed(usual, "extra_field")}
              [] key = Feed("escalations") -> {Flawed(usual, "decides")}
              [] OTHER -> {}]
=============================================================================
