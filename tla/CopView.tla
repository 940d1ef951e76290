-------------------------------- MODULE CopView -------------------------------
(***************************************************************************)
(* What the operating picture shows of a snapshot (cop/view.py, the blind  *)
(* spots of cop/blindspots.py and the health report of cop/app.py).  All   *)
(* of it is computed from the snapshot and the time of the request; a      *)
(* badge is its code, and wording and layout are left out.                 *)
(*                                                                         *)
(* A snapshot is [obs, refreshed, clean]: the observation under every key, *)
(* and how long ago the last refresh and the last clean one ended.         *)
(***************************************************************************)
EXTENDS CopRules

CONSTANTS Repositories,    \* the repositories watched
          Limit            \* by key: the age past which a value is stale, or None

ProgramKey == <<"program", "file">>
AureonKey  == <<"aureon", "snapshot">>
DriftKey   == <<"aureon", "drift">>
DropKey    == <<"aureon", "pending_drop">>

RepoParts == {"main", "main_ci", "tag", "pulls", "scheduled"}
RepoKeys  == Repositories \X RepoParts

FeedNames == {"agents", "advisories", "traceability", "layer_clock", "lifecycles",
              "escalations", "breaks", "cash_leg", "exceptions", "governance",
              "controls", "risks"}
Feed(name) == <<name, "feed">>
FeedKeys   == {Feed(name) : name \in FeedNames}

ComputedKeys == {DriftKey, DropKey}
Keys == {ProgramKey, AureonKey} \cup ComputedKeys \cup RepoKeys \cup FeedKeys

-----------------------------------------------------------------------------
(* Badges of values that are current.                                      *)

(* A probe's pass means that its refusal held; a stopped agent says        *)
(* nothing, whatever it last reported.                                     *)
AgentBadge(a) == IF ~a.probe /\ ~a.up THEN "INDETERMINATE" ELSE a.disposition

AgentsBadge(v) == IF v.halted THEN "BLOCK" ELSE v.disposition

LifecyclesBadge(rows) == WorstOr({RowDisposition(row) : row \in rows}, "INDETERMINATE")

HoldIf(condition) == IF condition THEN "HOLD" ELSE "PASS"

MergeBadge(state) == CASE state = "behind"  -> "HOLD"
                       [] state = "unknown" -> "INDETERMINATE"
                       [] state = "dirty"   -> "BLOCK"
                       [] OTHER             -> "OBSERVED"

BadgeOf(key, v) ==
    CASE key[2] = "file"         -> "PASS"
      [] key[2] = "main_ci"      -> v
      [] key[2] = "drift"        -> HoldIf(v.drift)
      [] key[2] = "pending_drop" -> HoldIf(v.event)
      [] key = Feed("agents")    -> AgentsBadge(v)
      [] key = Feed("lifecycles") -> LifecyclesBadge(v)
      [] key \in {Feed("escalations"), Feed("breaks")} -> HoldIf(v # {})
      [] key = Feed("cash_leg")  -> HoldIf(v = "will_queue")
      [] OTHER                   -> "OBSERVED"

\* Mutant of Tile: a value read without an error is current at any age.
TileOfAnyAge(s, key) ==
    LET o == s.obs[key]
    IN  [current |-> IsOk(o) /\ o.value # None,
         shown   |-> IF IsOk(o) \/ o.last = None THEN o.value ELSE o.last.value,
         badge   |-> IF IsOk(o) /\ o.value # None THEN BadgeOf(key, o.value)
                     ELSE "INDETERMINATE",
         error   |-> o.error]

\* Mutant of Tile: the last good value keeps its badge.
TileCarried(s, key) ==
    LET o       == s.obs[key]
        current == IsCurrent(o, Limit[key]) /\ o.value # None
        shown   == IF IsOk(o) \/ o.last = None THEN o.value ELSE o.last.value
    IN  [current |-> current, shown |-> shown,
         badge   |-> IF shown = None THEN "INDETERMINATE" ELSE BadgeOf(key, shown),
         error   |-> o.error]

(* A tile shows a current value, or the last good one marked as stale under *)
(* a badge that says unknown.                                              *)
Tile(s, key) ==
    LET o       == s.obs[key]
        current == IsCurrent(o, Limit[key]) /\ o.value # None
        stale   == IF IsOk(o) THEN o.value
                   ELSE IF o.last = None THEN None ELSE o.last.value
    IN  [current |-> current,
         shown   |-> IF current THEN o.value ELSE stale,
         badge   |-> IF current THEN BadgeOf(key, o.value) ELSE "INDETERMINATE",
         error   |-> IF current THEN None ELSE IF IsOk(o) THEN "Stale" ELSE o.error]

FeedTile(s, name) == Tile(s, Feed(name))

(* The rows of a panel that are built from what its tile shows, which may  *)
(* be the last good value of a source that failed since.                   *)
ShownRows(s, name) ==
    IF FeedTile(s, name).shown = None THEN {} ELSE FeedTile(s, name).shown

(* A pull request's row: its own two readings, each current while it is    *)
(* young enough.  They are as old as the list that holds them, which may   *)
(* be the last good one.                                                   *)
PullBadges(s, repo) ==
    LET key   == <<repo, "pulls">>
        list  == Tile(s, key)
        young == Limit[key] = None \/ GoodAge(s.obs[key]) <= Limit[key]
        badge(result, of) == IF young /\ result.error = None THEN of ELSE "INDETERMINATE"
    IN  IF list.shown = None THEN {}
        ELSE {[number |-> p.number,
               checks |-> badge(p.checks, p.checks.value),
               merge  |-> badge(p.merge, MergeBadge(p.merge.value))] : p \in list.shown}

-----------------------------------------------------------------------------
(* The overall state: the worst of the reasons found.                      *)

IfCurrent(tile, reasons) == IF tile.current THEN reasons ELSE {"INDETERMINATE"}

ProgramReasons(s) ==
    LET t == Tile(s, ProgramKey)
    IN  IfCurrent(t, IF t.current /\ t.shown.blocked THEN {"BLOCK"} ELSE {})

RepoReasons(s, repo) ==
    LET tile(part) == Tile(s, <<repo, part>>)
    IN  (UNION {IfCurrent(tile(part), {}) : part \in {"main", "tag", "pulls"}})
            \cup IfCurrent(tile("main_ci"), {tile("main_ci").badge})
            \cup IfCurrent(tile("scheduled"), tile("scheduled").shown)

StackBadge(stack) == CASE stack = "ready"    -> "PASS"
                       [] stack = "starting" -> "HOLD"
                       [] OTHER              -> "INDETERMINATE"

AureonFields(v) == {StackBadge(v.stack)}
                       \cup {"INDETERMINATE" : f \in {f \in DOMAIN v : v[f] = None}}

AureonReasons(s) ==
    LET snapshot == Tile(s, AureonKey)
        reasons(key) == IfCurrent(Tile(s, key), {Tile(s, key).badge})
    IN  (IF snapshot.current THEN AureonFields(snapshot.shown) ELSE {"INDETERMINATE"})
            \cup reasons(DriftKey) \cup reasons(DropKey)

(* Of a probe only a broken refusal counts.                                *)
AgentsReasons(s) ==
    LET t == FeedTile(s, "agents")
    IN  IF ~t.current THEN {"INDETERMINATE"}
        ELSE (IF t.shown.halted THEN {"BLOCK"} ELSE {})
                 \cup {AgentBadge(a) : a \in {a \in t.shown.rows :
                                        a.probe => a.disposition = "BLOCK"}}

AdvisoryReasons(s) ==
    LET t == FeedTile(s, "advisories") IN IF t.current THEN t.shown ELSE {"INDETERMINATE"}

LifecycleReasons(s) ==
    LET t == FeedTile(s, "lifecycles")
    IN  IF t.current THEN {RowDisposition(row) : row \in t.shown} ELSE {"INDETERMINATE"}

(* The observations it is found from.  The other feeds are not among them. *)
OverallKeys == {ProgramKey, AureonKey, DriftKey, DropKey} \cup RepoKeys
                   \cup {Feed("agents"), Feed("advisories"), Feed("lifecycles")}

Overall(s) ==
    WorstOr(ProgramReasons(s) \cup AureonReasons(s) \cup AgentsReasons(s)
                \cup AdvisoryReasons(s) \cup LifecycleReasons(s)
                \cup UNION {RepoReasons(s, repo) : repo \in Repositories}, "PASS")

-----------------------------------------------------------------------------
(* The rail: one badge for each section of the page.                       *)

SourceBadge(tile) == IF tile.error = "NotConfigured" THEN "ABSENT" ELSE tile.badge

WorstBadge(badges) == WorstOr(badges \cap Dispositions, "INDETERMINATE")

TradesBadge(s) ==
    LET parts == {SourceBadge(FeedTile(s, f)) : f \in {"lifecycles", "breaks"}}
    IN  IF "ABSENT" \in parts THEN "ABSENT" ELSE WorstBadge(parts)

RowsBadge(s, name, of(_)) ==
    LET rows == ShownRows(s, name)
    IN  IF rows = {} THEN SourceBadge(FeedTile(s, name))
        ELSE WorstBadge({of(row) : row \in rows})

ExceptionsBadge(s) == RowsBadge(s, "exceptions", ExceptionDisposition)
GovernanceBadge(s) == RowsBadge(s, "governance", LAMBDA event : event)
ControlsBadge(s)   == RowsBadge(s, "controls", ControlDisposition)
RiskBadge(s)       == RowsBadge(s, "risks", RiskDisposition)

DecisionsBadge(s) ==
    LET program == Tile(s, ProgramKey)
        open    == program.current /\ program.shown.decisions
    IN  IF GovernanceBadge(s) = "ABSENT" THEN "INDETERMINATE"
        ELSE WorstBadge({FeedTile(s, "escalations").badge, GovernanceBadge(s),
                         IF open THEN "HOLD" ELSE program.badge})

ProgrammeKeys == {ProgramKey, AureonKey, DriftKey, DropKey}
                     \cup (Repositories \X {"main_ci", "scheduled"})

ProgrammeBadge(s) == WorstBadge({Tile(s, key).badge : key \in ProgrammeKeys})

Sections == {"now", "trades", "cns", "exceptions", "cash", "xrpl", "decisions", "controls",
             "risk", "agents", "advisories", "traceability", "programme", "blind"}

Rail(s) ==
    [section \in Sections |->
        CASE section = "now" -> Overall(s)
          [] section \in {"trades", "cns"} -> TradesBadge(s)
          [] section = "exceptions" -> ExceptionsBadge(s)
          [] section \in {"cash", "xrpl"} -> SourceBadge(FeedTile(s, "cash_leg"))
          [] section = "decisions" -> DecisionsBadge(s)
          [] section = "controls" -> ControlsBadge(s)
          [] section = "risk" -> RiskBadge(s)
          [] section \in {"agents", "advisories", "traceability"} ->
                 SourceBadge(FeedTile(s, section))
          [] section = "programme" -> ProgrammeBadge(s)
          [] section = "blind" -> "INDETERMINATE"]

-----------------------------------------------------------------------------
(* The stale-source warning, the blind spots and the health report.        *)

TooOld(s, key) == LET age == GoodAge(s.obs[key])
                      limit == IF Limit[key] = None THEN Limit[AureonKey] ELSE Limit[key]
                  IN  age = None \/ ~(age <= limit)

(* The sources the warning speaks of, each by its observations: GitHub of  *)
(* a repository as a whole, and three others.                              *)
StaleSources(s) ==
    {keys \in {{repo} \X RepoParts : repo \in Repositories} : \E key \in keys : TooOld(s, key)}
        \cup {{key} : key \in {key \in {Feed("agents"), Feed("layer_clock")} :
                                 s.obs[key].error # "NotConfigured" /\ TooOld(s, key)}}
        \cup (IF TooOld(s, AureonKey) THEN {{AureonKey}} ELSE {})

BlindSources == {AureonKey} \cup {Feed(name) : name \in {"agents", "escalations",
                                                         "lifecycles", "cash_leg"}}

NotConnected(s) == {key \in BlindSources : s.obs[key].error = "NotConfigured"}

NotAnswering(s) ==
    {key \in BlindSources \ NotConnected(s) : ~IsCurrent(s.obs[key], Limit[key])}

HealthSource(s, keys) ==
    IF keys # {} /\ \A key \in keys : s.obs[key].error = "NotConfigured"
    THEN "not_configured"
    ELSE IF \E key \in keys : ~IsOk(s.obs[key]) THEN "failing"
    ELSE IF \E key \in keys : ~IsCurrent(s.obs[key], Limit[key]) THEN "stale"
    ELSE "configured"

(* The entries of /healthz, and the observations each is asked of.  The    *)
(* drift, the marker, the exceptions, the governance and the risks have    *)
(* none, and those that are always absent are left out.                    *)
HealthGroups ==
    [program |-> {ProgramKey}, github |-> RepoKeys, aureon_snapshot |-> {AureonKey},
     cash_leg |-> {Feed("cash_leg")}, agents |-> {Feed("agents")},
     advisories |-> {Feed("advisories")}, traceability |-> {Feed("traceability")},
     layer_clock |-> {Feed("layer_clock")}, escalations |-> {Feed("escalations")},
     lifecycles |-> {Feed("lifecycles")}, breaks |-> {Feed("breaks")},
     controls |-> {Feed("controls")}]

Health(s) == [entry \in DOMAIN HealthGroups |-> HealthSource(s, HealthGroups[entry])]

(* Every source the warning speaks of is fetched with a limit.             *)
ASSUME LimitAssumption ==
    \A key \in RepoKeys \cup {AureonKey, Feed("agents"), Feed("layer_clock")} :
        Limit[key] # None

=============================================================================
