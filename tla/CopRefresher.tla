----------------------------- MODULE CopRefresher -----------------------------
(***************************************************************************)
(* The background refresher of the operating picture (cop/refresher.py):   *)
(* one daemon thread reads every source in turn and swaps in a complete    *)
(* snapshot; the requests of the web app start the thread and read the     *)
(* snapshot, and never call a source.                                      *)
(*                                                                         *)
(* A refresh is four steps: the program file and GitHub, Aureon and what   *)
(* is computed from it, the feeds, and the publication.  Time may pass     *)
(* between them.  Every time is kept as an age in ticks, up to OldestAge.  *)
(***************************************************************************)
EXTENDS CopView

CONSTANTS
    AureonRepo,       \* the repository whose main commit Aureon should serve
    Connected,        \* the feeds that have a source
    Usual,            \* by key that is fetched: the answer of an ordinary day
    Unusual,          \* by key that is fetched: the other answers it may give
    RefreshTicks,     \* the time the thread sleeps between two refreshes
    SlowestRefresh,   \* bound: the ticks that may pass within one refresh
    OldestAge,        \* bound: an age stops growing here
    Workers           \* the threads of the web server

ConnectedKeys == {Feed(name) : name \in Connected}
FetchedKeys   == {ProgramKey, AureonKey} \cup RepoKeys \cup ConnectedKeys
Unconnected   == FeedKeys \ ConnectedKeys

(* A sleep takes time (settings.py: 60 or 600 seconds).                    *)
ASSUME RefresherAssumption ==
    /\ Connected \subseteq FeedNames
    /\ AureonRepo \in Repositories
    /\ RefreshTicks \in Nat \ {0} /\ SlowestRefresh \in Nat /\ OldestAge \in Nat

MayAnswer(key) == {Usual[key]} \cup Unusual[key]

(* None is no value and no error.  Every answer is dated; one of Aureon    *)
(* that can be read has a value, and the board, of which the feed reads a  *)
(* fixed list of documents, has one too.  The readers of the agents, the   *)
(* advisories and the board refuse what is not a disposition.              *)
ASSUME AnswerAssumption ==
    /\ None \notin ErrorClasses /\ None \notin Nat
    /\ \A now, event \in BOOLEAN : None # [detected_now |-> now, event |-> event]
    /\ \A key \in FetchedKeys : \A r \in MayAnswer(key) : r.age \in 0..OldestAge
    /\ \A r \in MayAnswer(AureonKey) : ReadAureon(r).error = None => r.value # None
    /\ "agents" \in Connected =>
          \A r \in MayAnswer(Feed("agents")) : ReadAgents(r).error = None =>
              \A a \in r.value.rows : a.disposition \in Dispositions
    /\ "advisories" \in Connected =>
          \A r \in MayAnswer(Feed("advisories")) :
              ReadAdvisories(r).error = None => r.value \subseteq Dispositions
    /\ "lifecycles" \in Connected =>
          \A r \in MayAnswer(Feed("lifecycles")) : ReadLifecycles(r).error = None =>
              /\ r.value # {}
              /\ \A doc \in r.value :
                    /\ doc.age \in 0..OldestAge
                    /\ doc.kind \in {"bilateral", "ficc", "repo", "equities", "oms"}
                    /\ doc.kind = "bilateral" =>
                          \A c \in Checkpoints : doc.stages[c] \in Dispositions \cup {None}

VARIABLES
    snapshot,    \* what is published: _snapshot
    good,        \* by key: the last good value and its age, or None: _good
    previous,    \* the last comparable Aureon snapshot: _previous_aureon
    drop,        \* the AUR-I-17 marker so far: _pending_drop
    failed,      \* whether a source failed in this refresh: _source_failed
    clean,       \* the age of the last clean refresh: _last_clean_refresh_at
    reading,     \* by key: what this refresh has observed so far
    thread,      \* where the refresh thread is
    launched,    \* how many refresh threads were ever started
    stopping,    \* the stop event
    workers,     \* by worker: where it is in start()
    elapsed,     \* the ticks this sleep, or this refresh, has taken
    odd          \* whether this refresh, until it is slept on, met an unusual answer

refresher == <<good, previous, drop, failed, clean, reading>>
vars == <<snapshot, refresher, thread, launched, stopping, workers, elapsed, odd>>

Refreshing == {"github", "aureon", "feeds", "publish"}
ThreadPlaces == {"absent", "made", "ready", "asleep", "ended"} \cup Refreshing

-----------------------------------------------------------------------------
(* One observation: _observe.                                              *)

\* Mutant of Observed: a source that fails leaves its last value in place.
ObservedKept(key, result) ==
    LET kept == IF result.error = None THEN result.value
                ELSE IF good[key] = None THEN None ELSE good[key].value
    IN  [error |-> result.error, value |-> kept, age |-> result.age,
         last |-> IF result.error = None THEN None ELSE good[key]]

Observed(key, result) ==
    IF result.error = None
    THEN [error |-> None, value |-> result.value, age |-> result.age, last |-> None]
    ELSE [error |-> result.error, value |-> None, age |-> None, last |-> good[key]]

\* Mutant of SourceFailed: the readings inside a pull request are forgotten.
SourceFailedItself(key, result) == key \notin ComputedKeys /\ result.error # None

(* Only a source that fails spoils a clean refresh; a computed value that  *)
(* cannot be computed yet does not.  A pull request's readings are sources *)
(* too, although its list was read.                                        *)
SourceFailed(key, result) ==
    /\ key \notin ComputedKeys
    /\ \/ result.error # None
       \/ /\ key \in RepoKeys /\ key[2] = "pulls"
          /\ \E p \in result.value : p.checks.error # None \/ p.merge.error # None

\* Mutant of Learned: a failure forgets what the source gave before.
LearnedOrForgotten(results) ==
    [key \in Keys |->
        IF key \notin DOMAIN results THEN good[key]
        ELSE IF results[key].error = None
        THEN [value |-> results[key].value, age |-> results[key].age] ELSE None]

Learned(results) ==
    [key \in Keys |->
        IF key \in DOMAIN results /\ results[key].error = None
        THEN [value |-> results[key].value, age |-> results[key].age] ELSE good[key]]

(* The observations a step of the refresh makes, given their results.      *)
ObserveAll(results) ==
    /\ reading' = [key \in Keys |->
                      IF key \in DOMAIN results THEN Observed(key, results[key])
                      ELSE IF thread = "feeds" /\ key \in Unconnected THEN NotConfigured
                      ELSE reading[key]]
    /\ good' = Learned(results)
    /\ failed' = (failed \/ \E key \in DOMAIN results : SourceFailed(key, results[key]))

-----------------------------------------------------------------------------
(* What the sources answer: as usual, all down at once, or with one of     *)
(* them unusual; at most one unusual answer in a refresh.                  *)

Down(r) == [sent |-> "refused", status |-> r.status, limited |-> r.limited,
            flaw |-> r.flaw, value |-> r.value, age |-> r.age]

Answers(keys) ==
    LET usual  == [key \in keys |-> Usual[key]]
        outage == [key \in keys |-> IF key = ProgramKey THEN usual[key] ELSE Down(usual[key])]
    IN  {usual} \cup IF odd THEN {}
                     ELSE {outage} \cup {[usual EXCEPT ![c[1]] = c[2]] :
                              c \in UNION {{key} \X Unusual[key] : key \in keys}}

MarkOdd(answers) == odd' = (odd \/ \E key \in DOMAIN answers : answers[key] # Usual[key])

(* The commit of main is read first: without it there is nothing to ask    *)
(* the runs of.                                                            *)
MainCi(main, runs) ==
    IF main.error # None THEN Failed("InputUnavailable")
    ELSE IF ReadRuns(runs).error # None THEN ReadRuns(runs)
    ELSE Value(CombineCi(runs.value, main.value), runs.age)

Mapped(result, of(_)) ==
    IF result.error # None THEN result ELSE [result EXCEPT !.value = of(result.value)]

RepoResult(part, answers, repo) ==
    LET answer == answers[<<repo, part>>]
    IN  CASE part = "main"      -> ReadCommit(answer)
          [] part = "main_ci"   -> MainCi(ReadCommit(answers[<<repo, "main">>]), answer)
          [] part = "tag"       -> Mapped(ReadTags(answer), LatestTag)
          [] part = "pulls"     -> ReadPulls(answer)
          [] part = "scheduled" -> Mapped(ReadScheduled(answer), ScheduledSummary)

FeedResult(name, r) ==
    CASE name = "agents"       -> ReadAgents(r)
      [] name = "advisories"   -> ReadAdvisories(r)
      [] name = "traceability" -> ReadTraceability(r)
      [] name = "layer_clock"  -> ReadLayerClock(r)
      [] name = "lifecycles"   -> ReadLifecycles(r)
      [] name = "escalations"  -> ReadEscalations(r)
      [] name = "cash_leg"     -> ReadCashLeg(r)
      [] name = "exceptions"   -> PublicationToRegister(ReadBreaks(r))
      [] OTHER                 -> Value(r.value, 0)

-----------------------------------------------------------------------------
(* The steps of refresh_once.                                              *)

RefreshGithub ==
    /\ thread = "github"
    /\ \E answers \in Answers({ProgramKey} \cup RepoKeys) :
        /\ ObserveAll([key \in {ProgramKey} \cup RepoKeys |->
                          IF key = ProgramKey THEN LoadProgram(answers[key])
                          ELSE RepoResult(key[2], answers, key[1])])
        /\ MarkOdd(answers)
    /\ thread' = "aureon"
    /\ UNCHANGED <<snapshot, previous, drop, clean, launched, stopping, workers, elapsed>>

(* The previous snapshot is kept whenever the new one can be compared, even *)
(* when the comparison itself could not be made; the marker only when it   *)
(* was.                                                                    *)
RefreshAureon ==
    /\ thread = "aureon"
    /\ \E answers \in Answers({AureonKey}) :
        LET read    == ReadAureon(answers[AureonKey])
            seen    == Observed(AureonKey, read)
            drift   == ComputeDrift(seen, reading[<<AureonRepo, "main">>])
            dropped == IF read.error # None THEN Failed("InputUnavailable")
                       ELSE DetectPendingDrop(previous, read.value, drop)
            compare == read.error = None /\ Comparable(read.value)
        IN  /\ ObserveAll([key \in {AureonKey} \cup ComputedKeys |->
                              CASE key = AureonKey -> read
                                [] key = DriftKey  -> drift
                                [] OTHER           -> dropped])
            /\ previous' = IF compare THEN read.value ELSE previous
            /\ drop' = IF dropped.error = None THEN dropped.value ELSE drop
            /\ MarkOdd(answers)
    /\ thread' = "feeds"
    /\ UNCHANGED <<snapshot, clean, launched, stopping, workers, elapsed>>

(* The time of the board is the least of its documents' times, taken after *)
(* the fetch and outside its error handling: some boards have none.        *)
Unordered(answers) ==
    /\ "lifecycles" \in Connected
    /\ LET board == answers[Feed("lifecycles")]
       IN  ReadLifecycles(board).error = None /\ ClocksMixed(board.value)

RefreshFeeds ==
    /\ thread = "feeds"
    /\ \E answers \in Answers(ConnectedKeys) :
        /\ ~Unordered(answers)
        /\ ObserveAll([key \in ConnectedKeys |-> FeedResult(key[1], answers[key])])
        /\ MarkOdd(answers)
    /\ thread' = "publish"
    /\ UNCHANGED <<snapshot, previous, drop, clean, launched, stopping, workers, elapsed>>

\* Mutant of AbortRefresh: the error ends the thread.
EndOnAbort ==
    /\ thread = "feeds"
    /\ \E answers \in Answers(ConnectedKeys) : Unordered(answers) /\ MarkOdd(answers)
    /\ thread' = "ended" /\ elapsed' = 0
    /\ UNCHANGED <<snapshot, refresher, launched, stopping, workers>>

(* An unordered board ends the whole refresh at the feed that has it: what *)
(* was observed before it is remembered, and nothing is published.         *)
ReadBeforeLifecycles ==
    {Feed(name) : name \in Connected \cap {"agents", "advisories", "traceability", "layer_clock"}}

AbortRefresh ==
    /\ thread = "feeds"
    /\ \E answers \in Answers(ConnectedKeys) :
        /\ Unordered(answers)
        /\ ObserveAll([key \in ReadBeforeLifecycles |-> FeedResult(key[1], answers[key])])
        /\ MarkOdd(answers)
    /\ thread' = "asleep" /\ elapsed' = 0
    /\ UNCHANGED <<snapshot, previous, drop, clean, launched, stopping, workers>>

Publish ==
    /\ thread = "publish"
    /\ clean' = IF failed THEN clean ELSE 0
    /\ snapshot' = [obs |-> reading, refreshed |-> 0, clean |-> clean']
    /\ thread' = "asleep" /\ elapsed' = 0
    /\ UNCHANGED <<good, previous, drop, failed, reading, launched, stopping, workers, odd>>

-----------------------------------------------------------------------------
(* The thread: _run, start and stop.                                       *)

(* When the thread can take a step.                                        *)
Runnable == \/ thread \in Refreshing \cup {"ready"}
            \/ thread = "asleep" /\ (stopping \/ elapsed >= RefreshTicks)

Wake ==
    /\ thread \in {"ready", "asleep"} /\ Runnable
    /\ IF stopping
       THEN thread' = "ended" /\ UNCHANGED <<failed, elapsed, odd>>
       ELSE thread' = "github" /\ failed' = FALSE /\ elapsed' = 0 /\ odd' = FALSE
    /\ UNCHANGED <<snapshot, good, previous, drop, clean, reading, launched, stopping, workers>>

(* start() looks before it takes the lock and again once it holds it.      *)
Request(w) ==
    /\ workers[w] = "serving" /\ thread = "absent"
    /\ workers' = [workers EXCEPT ![w] = "waiting"]
    /\ UNCHANGED <<snapshot, refresher, thread, launched, stopping, elapsed, odd>>

\* Mutant of TakeStartLock: the thread is not looked for again.
TakeStartLockUnchecked(w) ==
    /\ workers[w] = "waiting"
    /\ \A v \in Workers : workers[v] \notin {"starting", "launching"}
    /\ workers' = [workers EXCEPT ![w] = "starting"]
    /\ UNCHANGED <<snapshot, refresher, thread, launched, stopping, elapsed, odd>>

TakeStartLock(w) ==
    /\ workers[w] = "waiting"
    /\ \A v \in Workers : workers[v] \notin {"starting", "launching"}
    /\ workers' = [workers EXCEPT ![w] = IF thread = "absent" THEN "starting" ELSE "serving"]
    /\ UNCHANGED <<snapshot, refresher, thread, launched, stopping, elapsed, odd>>

MakeThread(w) ==
    /\ workers[w] = "starting"
    /\ thread' = "made"
    /\ workers' = [workers EXCEPT ![w] = "launching"]
    /\ UNCHANGED <<snapshot, refresher, launched, stopping, elapsed, odd>>

LaunchThread(w) ==
    /\ workers[w] = "launching"
    /\ thread' = "ready" /\ launched' = launched + 1
    /\ workers' = [workers EXCEPT ![w] = "serving"]
    /\ UNCHANGED <<snapshot, refresher, stopping, elapsed, odd>>

(* The event is never cleared.                                             *)
Stop ==
    /\ ~stopping /\ stopping' = TRUE
    /\ UNCHANGED <<snapshot, refresher, thread, launched, workers, elapsed, odd>>

-----------------------------------------------------------------------------
(* Time.  Requests to sources time out, so a refresh is never longer than  *)
(* SlowestRefresh.                                                         *)

Older(age) == IF age = None \/ age = OldestAge THEN age ELSE age + 1

OlderLast(last) ==
    IF last = None THEN None ELSE [value |-> last.value, age |-> Older(last.age)]

OlderObs(obs) ==
    [key \in Keys |->
        [error |-> obs[key].error, value |-> obs[key].value,
         age |-> Older(obs[key].age), last |-> OlderLast(obs[key].last)]]

Tick ==
    /\ thread \in Refreshing => elapsed < SlowestRefresh
    /\ snapshot' = [obs |-> OlderObs(snapshot.obs), refreshed |-> Older(snapshot.refreshed),
                    clean |-> Older(snapshot.clean)]
    /\ good' = [key \in Keys |-> OlderLast(good[key])]
    /\ reading' = OlderObs(reading)
    /\ clean' = Older(clean)
    /\ elapsed' = IF thread \in Refreshing \/ (thread = "asleep" /\ elapsed < RefreshTicks)
                  THEN elapsed + 1 ELSE elapsed
    /\ odd' = (odd /\ thread \in Refreshing)
    /\ UNCHANGED <<previous, drop, failed, thread, launched, stopping, workers>>

-----------------------------------------------------------------------------
(* The app makes the refresher and loads the program file at once, before  *)
(* any request: load_program_now.                                          *)

StartingObs(answer) ==
    [key \in Keys |->
        CASE key = ProgramKey -> LET result == LoadProgram(answer)
                                 IN  [error |-> result.error, value |-> result.value,
                                      age |-> result.age, last |-> None]
          [] OTHER -> Pending]

Init ==
    /\ \E answer \in MayAnswer(ProgramKey) :
        /\ reading = StartingObs(answer)
        /\ good = [key \in Keys |->
                      IF key = ProgramKey /\ LoadProgram(answer).error = None
                      THEN [value |-> answer.value, age |-> 0] ELSE None]
        /\ failed = (LoadProgram(answer).error # None)
    /\ snapshot = [obs |-> reading, refreshed |-> None, clean |-> None]
    /\ previous = None /\ drop = None /\ clean = None
    /\ thread = "absent" /\ launched = 0 /\ stopping = FALSE
    /\ workers = [w \in Workers |-> "serving"]
    /\ elapsed = 0 /\ odd = FALSE

Refresh == RefreshGithub \/ RefreshAureon \/ RefreshFeeds \/ AbortRefresh \/ Publish \/ Wake

Launch == \E w \in Workers :
              Request(w) \/ TakeStartLock(w) \/ MakeThread(w) \/ LaunchThread(w)

Next == Refresh \/ Launch \/ Stop \/ Tick

(* Every step of the thread changes its place, and every tick of a sleep    *)
(* its length, so fairness is stated of these alone.                       *)
ThreadStep == Runnable /\ thread' \in ThreadPlaces
SleepStep  == thread = "asleep" /\ elapsed < RefreshTicks /\ elapsed' = elapsed + 1

(* The thread is scheduled, a fetch ends (it times out at the latest), a    *)
(* sleep ends, and the pages that reload themselves keep requests coming.  *)
Fairness == WF_thread(ThreadStep) /\ WF_elapsed(SleepStep) /\ WF_workers(Launch)

Spec == Init /\ [][Next]_vars /\ Fairness

-----------------------------------------------------------------------------
(* Properties.                                                             *)

Ages == (0..OldestAge) \cup {None}

WellFormed(o) ==
    /\ DOMAIN o = {"error", "value", "age", "last"}
    /\ o.age \in Ages /\ o.error \in ErrorClasses \cup {None}
    /\ o.error # None => o.age = None /\ o.value = None
    /\ o.error = None => o.age # None /\ o.last = None

(* Every observation holds a current value or an error class and, apart    *)
(* from it, the last good value: never both (observation.py:3-5).          *)
TypeOK ==
    /\ \A obs \in {snapshot.obs, reading} :
          DOMAIN obs = Keys /\ \A key \in Keys : WellFormed(obs[key])
    /\ {snapshot.refreshed, snapshot.clean, clean} \subseteq Ages
    /\ DOMAIN good = Keys
    /\ failed \in BOOLEAN /\ odd \in BOOLEAN /\ stopping \in BOOLEAN
    /\ thread \in ThreadPlaces /\ launched \in Nat
    /\ workers \in [Workers -> {"serving", "waiting", "starting", "launching"}]
    /\ elapsed \in 0..(RefreshTicks + SlowestRefresh)

(* However many requests race into start(), one refresh thread is made     *)
(* (refresher.py:790-798: "Start the refresh thread once").                *)
OneRefresher == launched <= 1 /\ (launched = 0 => thread \in {"absent", "made"})

(* The page dates a refresh as clean exactly when every source that is     *)
(* connected answered in it, the two readings of each pull request         *)
(* included; a computed value that could not be computed does not count.   *)
CleanMeansAnswered ==
    snapshot.refreshed \notin {None, OldestAge} =>
        (snapshot.clean = snapshot.refreshed <=>
            /\ \A key \in FetchedKeys : IsOk(snapshot.obs[key])
            /\ \A repo \in Repositories :
                  \A p \in snapshot.obs[<<repo, "pulls">>].value :
                      p.checks.error = None /\ p.merge.error = None)

DriftFits(obs) ==
    LET drift == obs[DriftKey]
        main  == obs[<<AureonRepo, "main">>]
    IN  IsOk(drift) => /\ IsOk(main) /\ drift.value.main = main.value
                       /\ IsOk(obs[AureonKey])
                       /\ drift.value.deployed = obs[AureonKey].value.deploy_sha

(* A drift that is shown compares the deployed commit and the main commit  *)
(* of one and the same refresh, never a value carried over.                *)
DriftOfOneRefresh == DriftFits(snapshot.obs)

(* When two good snapshots of Aureon in succession show the pending count  *)
(* falling to 0 at a deploy, however many refreshes failed in between, the *)
(* marker records it, and it is never lost again (AUR-I-17).               *)
DropSeen ==
    [][LET before == good[AureonKey]
           after  == good'[AureonKey]
       IN  /\ (/\ thread = "aureon" /\ thread' = "feeds"
               /\ before # None /\ after.age = 0
               /\ Comparable(before.value) /\ Comparable(after.value)
               /\ DroppedBetween(before.value, after.value)) => drop' # None /\ drop'.event
           /\ drop # None /\ drop.event => drop' # None /\ drop'.event]_vars

(* A failing source never costs the page the last good value it had: what  *)
(* is published beside the error is the value the source gave last, and    *)
(* how long ago.                                                           *)
LastGoodKept ==
    thread = "asleep" /\ snapshot.obs = reading =>
        \A key \in FetchedKeys : snapshot.obs[key].error # None =>
            snapshot.obs[key].last = good[key]

(* The page and /healthz, each computed in its own way from the same       *)
(* snapshot, do not contradict each other.  What /healthz calls configured *)
(* is neither in the page's stale-source warning nor among its blind       *)
(* spots; of what it calls failing, stale or not configured, the page does *)
(* not show every reading as current (the layer clock in its banner, the   *)
(* others in tiles); and the overall state is green only while every entry *)
(* it is found from is configured, all five readings of github included.   *)
HealthAgrees ==
    LET health     == Health(snapshot)
        shown(key) == IF key = Feed("layer_clock") THEN IsCurrent(snapshot.obs[key], Limit[key])
                      ELSE Tile(snapshot, key).current
        warned     == NotConnected(snapshot) \cup NotAnswering(snapshot)
                        \cup UNION StaleSources(snapshot)
    IN  /\ \A entry \in DOMAIN HealthGroups :
              IF health[entry] = "configured"
              THEN HealthGroups[entry] \cap warned = {}
              ELSE \E key \in HealthGroups[entry] : ~shown(key)
        /\ Overall(snapshot) = "PASS" =>
              \A entry \in DOMAIN HealthGroups :
                  HealthGroups[entry] \subseteq OverallKeys => health[entry] = "configured"

FeedSections == [trades |-> {"lifecycles", "breaks"}, cash |-> {"cash_leg"},
                 agents |-> {"agents"}, decisions |-> {"escalations"},
                 advisories |-> {"advisories"}, traceability |-> {"traceability"}]

(* A source that failed, or whose answer is too old, never leaves a        *)
(* section that rests on its tile greener than unknown, nor the overall    *)
(* state when it is one of those the overall state is found from: the      *)
(* refresher may even have ended.  (The sections of the exceptions,        *)
(* governance, controls and risks rest on rows that may be stale, and are  *)
(* not among these; nor are the sources the overall state never looks at,  *)
(* see OverallKnowsEverySource.)                                           *)
FailsClosed ==
    LET stale(key) == ~IsCurrent(snapshot.obs[key], Limit[key])
        green      == {"PASS", "HOLD", "OBSERVED"}
        rail       == Rail(snapshot)
    IN  /\ \A section \in DOMAIN FeedSections :
              (\E name \in FeedSections[section] : stale(Feed(name))) =>
                  rail[section] \notin green
        /\ (\E key \in OverallKeys : stale(key)) => rail.now \notin green

(* The overall state is green only while every source the refresher asks   *)
(* is current: it "is never PASS while any source is unknown"              *)
(* (view.py:7-8), "Worst of: every source tile" (view.py:1296).            *)
OverallKnowsEverySource ==
    Overall(snapshot) = "PASS" =>
        \A key \in FetchedKeys : Tile(snapshot, key).current

AllCurrent ==
    \A key \in FetchedKeys \cup ComputedKeys : IsCurrent(snapshot.obs[key], Limit[key])

(* Once the sources answer as usual and nobody stops the thread, the page  *)
(* shows every one of them as current again and again: "look at the        *)
(* source; the panels will recover on their own" (blindspots.py:227).      *)
PanelsRecover == (<>[]~odd /\ []~stopping) => []<>AllCurrent

(* A refresh ends by publishing its snapshot: "Call every source once,     *)
(* then publish the new snapshot. Never raises." (refresher.py:691).       *)
EveryRefreshPublishes ==
    [][(thread \in Refreshing /\ thread' \notin Refreshing) => thread = "publish"]_vars
=============================================================================
