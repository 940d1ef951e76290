-------------------------- MODULE CopRefresherProofs --------------------------
(* Proofs about the refresher of the operating picture, for any sources,    *)
(* answers, ages and workers.                                               *)
EXTENDS CopRefresher, TLAPS, WellFoundedInduction

-----------------------------------------------------------------------------
(* One refresh thread.                                                      *)

\* Who holds the lock of start(), and what that says of the thread.
StartInv ==
  /\ launched \in Nat
  /\ workers \in [Workers -> {"serving", "waiting", "starting", "launching"}]
  /\ launched <= 1
  /\ launched = 0 => thread \in {"absent", "made"}
  /\ thread \in {"absent", "made"} => launched = 0
  /\ \A w \in Workers : workers[w] = "starting" => thread = "absent"
  /\ \A w \in Workers : workers[w] = "launching" => thread = "made"
  /\ \A v, w \in Workers :
       workers[v] \in {"starting", "launching"} /\ workers[w] \in {"starting", "launching"}
         => v = w

\* The refresher at work, or asleep, ended or told to stop, touches neither
\* the start nor its lock (refresh_once, _run, stop).
LEMMA WorkLeavesStart ==
  ASSUME StartInv, Refresh \/ Stop \/ Tick \/ UNCHANGED vars
  PROVE  StartInv'
<1>1. UNCHANGED <<launched, workers>>
  BY DEF Refresh, Stop, Tick, RefreshGithub, RefreshAureon, RefreshFeeds, AbortRefresh,
         Publish, Wake, vars
<1>2. \/ UNCHANGED thread
      \/ thread \notin {"absent", "made"} /\ thread' \notin {"absent", "made"}
  BY DEF Refresh, Stop, Tick, RefreshGithub, RefreshAureon, RefreshFeeds, AbortRefresh,
         Publish, Wake, vars
<1> QED
  BY <1>1, <1>2 DEF StartInv

\* A request at each step of start() keeps the lock's promise (start).
LEMMA LaunchKeepsStart ==
  ASSUME StartInv, Launch
  PROVE  StartInv'
<1>1. PICK w \in Workers : Request(w) \/ TakeStartLock(w) \/ MakeThread(w) \/ LaunchThread(w)
  BY DEF Launch
<1>2. CASE Request(w)
  BY <1>2 DEF Request, StartInv
<1>3. CASE TakeStartLock(w)
  BY <1>3 DEF TakeStartLock, StartInv
<1>4. CASE MakeThread(w)
  BY <1>4 DEF MakeThread, StartInv
<1>5. CASE LaunchThread(w)
  BY <1>5 DEF LaunchThread, StartInv
<1> QED
  BY <1>1, <1>2, <1>3, <1>4, <1>5

\* However many requests race into start(), one refresh thread is made, for any
\* number of workers (start: "Start the refresh thread once").
THEOREM StartedOnce == Spec => []OneRefresher
<1>1. Init => StartInv
  BY DEF Init, StartInv
<1>2. StartInv /\ [Next]_vars => StartInv'
  BY WorkLeavesStart, LaunchKeepsStart DEF Next
<1>3. StartInv => OneRefresher
  BY DEF StartInv, OneRefresher
<1> QED
  BY <1>1, <1>2, <1>3, PTL DEF Spec

-----------------------------------------------------------------------------
(* What the refresher remembers of its sources.                             *)

\* The observations of this refresh and the readings kept over refreshes.
KeptInv ==
  /\ reading = [key \in Keys |-> reading[key]]
  /\ good = [key \in Keys |-> good[key]]
  /\ \A key \in FetchedKeys : reading[key].error # None => reading[key].last = good[key]

\* Every source is under a key of its own, and a feed that has a source is not
\* among those that have none (refresh_once: the keys it observes).
LEMMA KeysOfSources ==
  /\ FetchedKeys \subseteq Keys
  /\ FetchedKeys \cap Unconnected = {}
  /\ FetchedKeys \cap ComputedKeys = {}
<1>1. ConnectedKeys \subseteq FeedKeys
  BY RefresherAssumption DEF ConnectedKeys, FeedKeys
<1>2. \A key \in {ProgramKey, AureonKey} \cup RepoKeys : key[2] # "feed"
  BY DEF ProgramKey, AureonKey, RepoKeys, RepoParts
<1>3. \A key \in FeedKeys : key[2] = "feed"
  BY DEF FeedKeys, Feed
<1>4. \A key \in FetchedKeys : key \notin ComputedKeys
  <2>1. \A key \in ComputedKeys : key[2] \in {"drift", "pending_drop"}
    BY DEF ComputedKeys, DriftKey, DropKey
  <2>2. \A key \in {ProgramKey, AureonKey} \cup RepoKeys : key[2] \notin {"drift", "pending_drop"}
    BY DEF ProgramKey, AureonKey, RepoKeys, RepoParts
  <2> QED
    BY <1>1, <1>3, <2>1, <2>2 DEF FetchedKeys
<1> QED
  BY <1>1, <1>2, <1>3, <1>4 DEF FetchedKeys, Unconnected, Keys

\* What an observation of a result holds (_observe).
LEMMA ObservedFields ==
  ASSUME NEW key, NEW result
  PROVE  /\ Observed(key, result).error = result.error
         /\ result.error # None => Observed(key, result).last = good[key]
<1>1. CASE result.error = None
  BY <1>1 DEF Observed
<1>2. CASE result.error # None
  BY <1>2 DEF Observed
<1> QED
  BY <1>1, <1>2

\* Observing some sources keeps, of each, what it gave last (_observe).
LEMMA ObservingKeeps ==
  ASSUME KeptInv, NEW results, DOMAIN results \subseteq Keys, ObserveAll(results)
  PROVE  KeptInv'
<1>1. ASSUME NEW key \in FetchedKeys, reading'[key].error # None
      PROVE  reading'[key].last = good'[key]
  <2>1. key \in Keys /\ key \notin Unconnected
    BY KeysOfSources
  <2>2. CASE key \in DOMAIN results
    <3>1. reading'[key] = Observed(key, results[key])
      BY <2>1, <2>2 DEF ObserveAll
    <3>2. results[key].error # None
      BY <1>1, <3>1, ObservedFields
    <3>3. good'[key] = good[key]
      BY <2>1, <3>2 DEF ObserveAll, Learned
    <3> QED
      BY <3>1, <3>2, <3>3, ObservedFields
  <2>3. CASE key \notin DOMAIN results
    <3>1. reading'[key] = reading[key] /\ good'[key] = good[key]
      BY <2>1, <2>3 DEF ObserveAll, Learned
    <3> QED
      BY <1>1, <3>1 DEF KeptInv
  <2> QED
    BY <2>2, <2>3
<1>2. reading' = [key \in Keys |-> reading'[key]] /\ good' = [key \in Keys |-> good'[key]]
  BY DEF ObserveAll, Learned
<1> QED
  BY <1>1, <1>2 DEF KeptInv

\* Time passing ages a reading and the copy of it alike.
LEMMA TickKeeps ==
  ASSUME KeptInv, Tick
  PROVE  KeptInv'
<1>1. ASSUME NEW key \in FetchedKeys, reading'[key].error # None
      PROVE  reading'[key].last = good'[key]
  <2>1. key \in Keys
    BY KeysOfSources
  <2>2. reading'[key] = [error |-> reading[key].error, value |-> reading[key].value,
                         age |-> Older(reading[key].age), last |-> OlderLast(reading[key].last)]
    BY <2>1 DEF Tick, OlderObs
  <2>3. reading'[key].error = reading[key].error /\ reading'[key].last = OlderLast(reading[key].last)
    BY <2>2
  <2>4. good'[key] = OlderLast(good[key])
    BY <2>1 DEF Tick
  <2> QED
    BY <1>1, <2>3, <2>4 DEF KeptInv
<1>2. reading' = [key \in Keys |-> reading'[key]] /\ good' = [key \in Keys |-> good'[key]]
  BY DEF Tick, OlderObs
<1> QED
  BY <1>1, <1>2 DEF KeptInv

\* Every step keeps what is remembered of the sources.
LEMMA NextKeeps ==
  ASSUME KeptInv, [Next]_vars
  PROVE  KeptInv'
<1>1. CASE RefreshGithub
  <2>1. PICK answers \in Answers({ProgramKey} \cup RepoKeys) :
          ObserveAll([key \in {ProgramKey} \cup RepoKeys |->
                        IF key = ProgramKey THEN LoadProgram(answers[key])
                        ELSE RepoResult(key[2], answers, key[1])])
    BY <1>1 DEF RefreshGithub
  <2> QED
    BY <2>1, ObservingKeeps DEF Keys
<1>2. CASE RefreshAureon
  <2>1. \E results : DOMAIN results = {AureonKey} \cup ComputedKeys /\ ObserveAll(results)
    BY <1>2 DEF RefreshAureon
  <2> QED
    BY <2>1, ObservingKeeps DEF Keys
<1>3. CASE RefreshFeeds
  <2>1. \E results : DOMAIN results = ConnectedKeys /\ ObserveAll(results)
    BY <1>3 DEF RefreshFeeds
  <2> QED
    BY <2>1, ObservingKeeps, KeysOfSources DEF FetchedKeys
<1>4. CASE AbortRefresh
  <2>1. \E results : DOMAIN results = ReadBeforeLifecycles /\ ObserveAll(results)
    BY <1>4 DEF AbortRefresh
  <2>2. ReadBeforeLifecycles \subseteq Keys
    BY RefresherAssumption DEF ReadBeforeLifecycles, Keys, FeedKeys
  <2> QED
    BY <2>1, <2>2, ObservingKeeps
<1>5. CASE Tick
  BY <1>5, TickKeeps
<1>6. CASE Publish \/ Wake \/ Launch \/ Stop \/ UNCHANGED vars
  <2>1. UNCHANGED <<reading, good>>
    BY <1>6 DEF Publish, Wake, Launch, Request, TakeStartLock, MakeThread, LaunchThread,
                Stop, refresher, vars
  <2> QED
    BY <2>1 DEF KeptInv
<1> QED
  BY <1>1, <1>2, <1>3, <1>4, <1>5, <1>6 DEF Next, Refresh

\* Before any request, nothing but the program file has been read
\* (load_program_now).
LEMMA InitKeeps == Init => KeptInv
<1> SUFFICES ASSUME Init PROVE KeptInv
  OBVIOUS
<1>1. PICK answer \in MayAnswer(ProgramKey) :
        /\ reading = StartingObs(answer)
        /\ good = [key \in Keys |->
                     IF key = ProgramKey /\ LoadProgram(answer).error = None
                     THEN [value |-> answer.value, age |-> 0] ELSE None]
  BY DEF Init
<1>2. ASSUME NEW key \in FetchedKeys, reading[key].error # None
      PROVE  reading[key].last = good[key]
  <2>1. key \in Keys
    BY KeysOfSources
  <2>2. CASE key = ProgramKey
    <3>1. reading[key] = [error |-> LoadProgram(answer).error,
                          value |-> LoadProgram(answer).value,
                          age |-> LoadProgram(answer).age, last |-> None]
      BY <1>1, <2>1, <2>2 DEF StartingObs
    <3>2. LoadProgram(answer).error # None /\ reading[key].last = None
      BY <1>2, <3>1
    <3> QED
      BY <1>1, <2>1, <3>2
  <2>3. CASE key # ProgramKey
    <3>1. reading[key] = Pending /\ good[key] = None
      BY <1>1, <2>1, <2>3 DEF StartingObs
    <3> QED
      BY <3>1 DEF Pending, Unread
  <2> QED
    BY <2>2, <2>3
<1>3. reading = [key \in Keys |-> reading[key]] /\ good = [key \in Keys |-> good[key]]
  BY <1>1 DEF StartingObs
<1> QED
  BY <1>2, <1>3 DEF KeptInv

\* A failing source never costs the page the last good value it had, for any
\* sources and answers, however refreshes fail, end early and are repeated
\* (_observe: the last good value and its time go with the error).
THEOREM LastGoodPublished == Spec => []LastGoodKept
<1>1. KeptInv => LastGoodKept
  BY DEF KeptInv, LastGoodKept
<1> QED
  BY <1>1, InitKeeps, NextKeeps, PTL DEF Spec

-----------------------------------------------------------------------------
(* Aureon: the marker of a dropped count and the drift of a deployment.     *)

MainKey == <<AureonRepo, "main">>

\* The keys of Aureon's sources are of no other step.
LEMMA AureonKeys ==
  /\ {AureonKey, DriftKey, MainKey} \subseteq Keys
  /\ {AureonKey, DriftKey, MainKey} \cap FeedKeys = {}
  /\ AureonKey \notin {ProgramKey} \cup RepoKeys /\ DriftKey \notin {ProgramKey} \cup RepoKeys
  /\ MainKey \in RepoKeys /\ MainKey # ProgramKey
  /\ MainKey \notin {AureonKey} \cup ComputedKeys
  /\ AureonKey \in {AureonKey} \cup ComputedKeys /\ DriftKey \in {AureonKey} \cup ComputedKeys
  /\ AureonKey # DriftKey /\ DriftKey # DropKey /\ AureonKey # DropKey
<1>1. AureonKey[2] = "snapshot" /\ DriftKey[2] = "drift" /\ DropKey[2] = "pending_drop"
  BY DEF AureonKey, DriftKey, DropKey
<1>2. MainKey[2] = "main" /\ ProgramKey[2] = "file"
  BY DEF MainKey, ProgramKey
<1>3. \A key \in FeedKeys : key[2] = "feed"
  BY DEF FeedKeys, Feed
<1>4. \A key \in RepoKeys : key[2] \notin {"snapshot", "drift", "pending_drop"}
  BY DEF RepoKeys, RepoParts
<1>5. MainKey \in RepoKeys
  BY RefresherAssumption DEF MainKey, RepoKeys, RepoParts
<1> QED
  BY <1>1, <1>2, <1>3, <1>4, <1>5 DEF ComputedKeys, Keys

\* A source that is down gives no value (http.py: a connection refused).
LEMMA DownUnread ==
  ASSUME NEW r
  PROVE  ReadAureon(Down(r)).error # None /\ ReadCommit(Down(r)).error # None
<1>1. Transport(Down(r)) = "ConnectionError"
  BY DEF Transport, Down
<1>2. "ConnectionError" # None
  BY AnswerAssumption DEF ErrorClasses
<1> QED
  BY <1>1, <1>2 DEF ReadAureon, ReadCommit, Read, Failed

\* An answer that is read without an error is read as it stands.
LEMMA ReadAsIs ==
  ASSUME NEW r
  PROVE  /\ ReadAureon(r).error = None => ReadAureon(r).value = r.value /\ ReadAureon(r).age = r.age
         /\ ReadCommit(r).error = None => ReadCommit(r).value = r.value /\ ReadCommit(r).age = r.age
<1>1. ASSUME NEW malformed, NEW absent, Read(r, malformed, absent).error = None
      PROVE  /\ Read(r, malformed, absent).value = r.value
             /\ Read(r, malformed, absent).age = r.age
  <2>1. \A class : class # None => Failed(class).error # None
    BY DEF Failed
  <2>2. "MalformedResponse" # None /\ "FieldAbsent" # None
    BY AnswerAssumption DEF ErrorClasses
  <2>3. Read(r, malformed, absent) = Value(r.value, r.age)
    BY <1>1, <2>1, <2>2 DEF Read
  <2> QED
    BY <2>3 DEF Value
<1> QED
  BY <1>1 DEF ReadAureon, ReadCommit

\* Which answers a step of the refresh may be given (of any key it asks for but
\* the program file's).
LEMMA AnswerOf ==
  ASSUME NEW keys, NEW answers \in Answers(keys), NEW key \in keys, key # ProgramKey
  PROVE  answers[key] \in {Usual[key], Down(Usual[key])} \cup Unusual[key]
<1> DEFINE usual  == [k \in keys |-> Usual[k]]
           outage == [k \in keys |-> IF k = ProgramKey THEN usual[k] ELSE Down(usual[k])]
           others == {[usual EXCEPT ![c[1]] = c[2]] :
                        c \in UNION {{k} \X Unusual[k] : k \in keys}}
<1>1. answers \in {usual, outage} \cup others
  BY DEF Answers
<1>2. CASE answers = usual \/ answers = outage
  BY <1>2
<1>3. CASE answers \in others
  <2>1. PICK k \in keys : \E r \in Unusual[k] : answers = [usual EXCEPT ![k] = r]
    BY <1>3
  <2>2. PICK r \in Unusual[k] : answers = [usual EXCEPT ![k] = r]
    BY <2>1
  <2>3. answers[key] = IF k = key THEN r ELSE Usual[key]
    BY <2>2
  <2> QED
    BY <2>3
<1> QED
  BY <1>1, <1>2, <1>3

\* An answer to Aureon's reader that can be read has a value and a date, and an
\* answer to the reader of main a date.
LEMMA AnswersDated ==
  /\ \A answers \in Answers({AureonKey}) :
       LET read == ReadAureon(answers[AureonKey])
       IN  read.error = None => read.value # None /\ read.age \in Nat
  /\ \A answers \in Answers({ProgramKey} \cup RepoKeys) :
       LET read == ReadCommit(answers[MainKey])
       IN  read.error = None => read.age \in Nat
<1>1. ASSUME NEW r \in {Usual[AureonKey], Down(Usual[AureonKey])} \cup Unusual[AureonKey],
             ReadAureon(r).error = None
      PROVE  ReadAureon(r).value # None /\ ReadAureon(r).age \in Nat
  <2>1. r \in MayAnswer(AureonKey) /\ AureonKey \in FetchedKeys
    BY <1>1, DownUnread DEF MayAnswer, FetchedKeys
  <2>2. r.value # None /\ r.age \in Nat
    BY <1>1, <2>1, AnswerAssumption, RefresherAssumption
  <2> QED
    BY <1>1, <2>2, ReadAsIs
<1>2. ASSUME NEW r \in {Usual[MainKey], Down(Usual[MainKey])} \cup Unusual[MainKey],
             ReadCommit(r).error = None
      PROVE  ReadCommit(r).age \in Nat
  <2>1. r \in MayAnswer(MainKey) /\ MainKey \in FetchedKeys
    BY <1>2, DownUnread, AureonKeys DEF MayAnswer, FetchedKeys
  <2>2. r.age \in Nat
    BY <2>1, AnswerAssumption, RefresherAssumption
  <2> QED
    BY <1>2, <2>2, ReadAsIs
<1>3. AureonKey # ProgramKey /\ MainKey # ProgramKey /\ MainKey \in {ProgramKey} \cup RepoKeys
  BY AureonKeys
<1>4. ASSUME NEW answers \in Answers({AureonKey})
      PROVE  answers[AureonKey] \in {Usual[AureonKey], Down(Usual[AureonKey])} \cup Unusual[AureonKey]
  BY <1>3, AnswerOf
<1>5. ASSUME NEW answers \in Answers({ProgramKey} \cup RepoKeys)
      PROVE  answers[MainKey] \in {Usual[MainKey], Down(Usual[MainKey])} \cup Unusual[MainKey]
  BY <1>3, AnswerOf
<1> QED
  BY <1>1, <1>2, <1>4, <1>5

\* The refresher compares Aureon's snapshots against the last one it could read
\* that can be compared.
SeenInv ==
  /\ good[AureonKey] # None => good[AureonKey].value # None
  /\ good[AureonKey] # None /\ Comparable(good[AureonKey].value) =>
       previous = good[AureonKey].value

\* What one step may do to the marker (the body of DropSeen).
DropStep ==
  /\ (/\ thread = "aureon" /\ thread' = "feeds"
      /\ good[AureonKey] # None /\ good'[AureonKey].age = 0
      /\ Comparable(good[AureonKey].value) /\ Comparable(good'[AureonKey].value)
      /\ DroppedBetween(good[AureonKey].value, good'[AureonKey].value))
        => drop' # None /\ drop'.event
  /\ drop # None /\ drop.event => drop' # None /\ drop'.event

\* A step that leaves Aureon's reading and the marker alone keeps both.
LEMMA AureonLeft ==
  ASSUME SeenInv, UNCHANGED <<previous, drop>>, ~(thread = "aureon" /\ thread' = "feeds"),
         \/ good'[AureonKey] = good[AureonKey]
         \/ good'[AureonKey] = OlderLast(good[AureonKey])
  PROVE  SeenInv' /\ DropStep
<1>1. DropStep
  BY DEF DropStep
<1>2. CASE good'[AureonKey] = good[AureonKey]
  BY <1>1, <1>2 DEF SeenInv
<1>3. CASE good'[AureonKey] = OlderLast(good[AureonKey]) /\ good[AureonKey] = None
  BY <1>1, <1>3 DEF SeenInv, OlderLast
<1>4. CASE good'[AureonKey] = OlderLast(good[AureonKey]) /\ good[AureonKey] # None
  <2>1. good'[AureonKey].value = good[AureonKey].value
    BY <1>4 DEF OlderLast
  <2> QED
    BY <1>1, <1>4, <2>1 DEF SeenInv
<1> QED
  BY <1>1, <1>2, <1>3, <1>4

\* What the comparison of two snapshots gives (detect_pending_drop).
LEMMA Detected ==
  ASSUME NEW before, NEW current, NEW prior
  PROVE  LET result == DetectPendingDrop(before, current, prior)
         IN  /\ result.error = None =>
                  /\ result.value # None
                  /\ DroppedBetween(before, current) => result.value.event
                  /\ prior # None /\ prior.event => result.value.event
             /\ Comparable(current) /\ before # None => result.error = None
<1> DEFINE now == DroppedBetween(before, current)
           event == now \/ (prior # None /\ prior.event)
           marker == [detected_now |-> now, event |-> event]
           result == DetectPendingDrop(before, current, prior)
<1>1. CASE ~Comparable(current) \/ before = None
  <2>1. result = Failed("FieldAbsent") \/ result = Failed("InputUnavailable")
    BY <1>1 DEF DetectPendingDrop
  <2>2. result.error # None
    BY <2>1, AnswerAssumption DEF Failed, ErrorClasses
  <2> QED
    BY <1>1, <2>2
<1>2. CASE Comparable(current) /\ before # None
  <2>1. result = Value(marker, 0)
    BY <1>2 DEF DetectPendingDrop
  <2>2. now \in BOOLEAN /\ event \in BOOLEAN
    BY DEF DroppedBetween
  <2>3. marker # None
    BY <2>2, AnswerAssumption
  <2>4. result.error = None /\ result.value = marker
    BY <2>1 DEF Value
  <2>5. marker.event <=> event
    OBVIOUS
  <2>6. result.value.event <=> event
    BY <2>4, <2>5
  <2>7. result.value # None
    BY <2>3, <2>4
  <2> HIDE DEF result, marker
  <2> QED
    BY <2>4, <2>6, <2>7 DEF result
<1> QED
  BY <1>1, <1>2

\* Aureon is read once in a refresh and compared with what was read before.
LEMMA AureonReadKeeps == SeenInv /\ RefreshAureon => SeenInv' /\ DropStep
<1> SUFFICES ASSUME SeenInv, RefreshAureon PROVE SeenInv' /\ DropStep
  OBVIOUS
<1>1. PICK answers \in Answers({AureonKey}) :
        LET read    == ReadAureon(answers[AureonKey])
            dropped == IF read.error # None THEN Failed("InputUnavailable")
                       ELSE DetectPendingDrop(previous, read.value, drop)
            compare == read.error = None /\ Comparable(read.value)
        IN  /\ good'[AureonKey] = IF read.error = None
                                  THEN [value |-> read.value, age |-> read.age]
                                  ELSE good[AureonKey]
            /\ previous' = IF compare THEN read.value ELSE previous
            /\ drop' = IF dropped.error = None THEN dropped.value ELSE drop
  BY AureonKeys DEF RefreshAureon, ObserveAll, Learned
<1> DEFINE read == ReadAureon(answers[AureonKey])
<1>2. read.error = None => read.value # None
  BY AnswersDated
<1> HIDE DEF read
<1>3. CASE read.error # None
  <2>1. Failed("InputUnavailable").error # None
    BY AnswerAssumption DEF Failed, ErrorClasses
  <2>2. UNCHANGED <<previous, drop>> /\ good'[AureonKey] = good[AureonKey]
    BY <1>1, <1>3, <2>1 DEF read
  <2>3. ~DroppedBetween(good[AureonKey].value, good[AureonKey].value)
    BY DEF DroppedBetween
  <2> QED
    BY <2>2, <2>3 DEF SeenInv, DropStep
<1>4. CASE read.error = None
  <2> DEFINE dropped == DetectPendingDrop(previous, read.value, drop)
  <2>1. /\ good'[AureonKey] = [value |-> read.value, age |-> read.age]
        /\ previous' = IF Comparable(read.value) THEN read.value ELSE previous
        /\ drop' = IF dropped.error = None THEN dropped.value ELSE drop
    BY <1>1, <1>4 DEF read
  <2>2. good'[AureonKey].value = read.value
    BY <2>1
  <2>3. SeenInv'
    BY <1>2, <1>4, <2>1, <2>2 DEF SeenInv
  <2>4. /\ dropped.error = None =>
             /\ dropped.value # None
             /\ DroppedBetween(previous, read.value) => dropped.value.event
             /\ drop # None /\ drop.event => dropped.value.event
        /\ Comparable(read.value) /\ previous # None => dropped.error = None
    BY Detected
  <2> HIDE DEF dropped
  <2>5. ASSUME good[AureonKey] # None, Comparable(good[AureonKey].value), Comparable(read.value),
               DroppedBetween(good[AureonKey].value, read.value)
        PROVE  drop' # None /\ drop'.event
    <3>1. previous = good[AureonKey].value /\ previous # None
      BY <2>5 DEF SeenInv
    <3> QED
      BY <2>1, <2>4, <2>5, <3>1
  <2>6. ASSUME drop # None, drop.event
        PROVE  drop' # None /\ drop'.event
    BY <2>1, <2>4, <2>6
  <2>7. DropStep
    BY <2>2, <2>5, <2>6 DEF DropStep
  <2> QED
    BY <2>3, <2>7
<1> QED
  BY <1>3, <1>4

\* Only the reading of Aureon touches what was seen of it.
LEMMA SeenKept == SeenInv /\ [Next]_vars => SeenInv' /\ DropStep
<1> SUFFICES ASSUME SeenInv, [Next]_vars PROVE SeenInv' /\ DropStep
  OBVIOUS
<1>1. CASE RefreshAureon
  BY <1>1, AureonReadKeeps
<1>2. CASE RefreshGithub
  <2>1. good'[AureonKey] = good[AureonKey]
    BY <1>2, AureonKeys DEF RefreshGithub, ObserveAll, Learned
  <2> QED
    BY <1>2, <2>1, AureonLeft DEF RefreshGithub
<1>3. CASE RefreshFeeds
  <2>1. AureonKey \notin ConnectedKeys
    BY AureonKeys, RefresherAssumption DEF ConnectedKeys, FeedKeys
  <2>2. good'[AureonKey] = good[AureonKey]
    BY <1>3, <2>1, AureonKeys DEF RefreshFeeds, ObserveAll, Learned
  <2> QED
    BY <1>3, <2>2, AureonLeft DEF RefreshFeeds
<1>4. CASE AbortRefresh
  <2>1. AureonKey \notin ReadBeforeLifecycles
    BY AureonKeys, RefresherAssumption DEF ReadBeforeLifecycles, FeedKeys
  <2>2. good'[AureonKey] = good[AureonKey]
    BY <1>4, <2>1, AureonKeys DEF AbortRefresh, ObserveAll, Learned
  <2> QED
    BY <1>4, <2>2, AureonLeft DEF AbortRefresh
<1>5. CASE Tick
  <2>1. good'[AureonKey] = OlderLast(good[AureonKey])
    BY <1>5, AureonKeys DEF Tick
  <2> QED
    BY <1>5, <2>1, AureonLeft DEF Tick
<1>6. CASE Publish \/ Wake \/ Launch \/ Stop \/ UNCHANGED vars
  <2>1. UNCHANGED <<good, previous, drop>> /\ ~(thread = "aureon" /\ thread' = "feeds")
    BY <1>6 DEF Publish, Wake, Launch, Request, TakeStartLock, MakeThread, LaunchThread,
                Stop, refresher, vars
  <2> QED
    BY <2>1, AureonLeft
<1> QED
  BY <1>1, <1>2, <1>3, <1>4, <1>5, <1>6 DEF Next, Refresh

\* A drop of the pending count at a deploy is seen between any two snapshots
\* that can be compared, however many refreshes failed between them, and stays
\* marked, for any sources and answers (detect_pending_drop, _previous_aureon).
THEOREM DropIsSeen == Spec => DropSeen
<1>1. Init => SeenInv
  <2> SUFFICES ASSUME Init PROVE SeenInv
    OBVIOUS
  <2>1. good[AureonKey] = None
    BY AureonKeys DEF Init
  <2> QED
    BY <2>1 DEF SeenInv
<1>2. SeenInv /\ [Next]_vars => SeenInv' /\ [DropStep]_vars
  BY SeenKept
<1> QED
  BY <1>1, <1>2, PTL DEF Spec, DropSeen, DropStep

\* The two readings a drift is computed from are dated when they are good.
Dated(obs) == /\ obs[AureonKey].error = None => obs[AureonKey].age \in Nat \cup {None}
              /\ obs[MainKey].error = None => obs[MainKey].age \in Nat \cup {None}

\* A drift fits the readings beside it once both were made in this refresh.
DriftInv ==
  /\ Dated(reading) /\ Dated(snapshot.obs)
  /\ thread \in {"feeds", "publish"} => DriftFits(reading)
  /\ DriftFits(snapshot.obs)

\* Whether a drift fits depends on three readings.
LEMMA SameReadings ==
  ASSUME NEW before, NEW after,
         \A key \in {AureonKey, DriftKey, MainKey} : after[key] = before[key]
  PROVE  /\ DriftFits(before) => DriftFits(after)
         /\ Dated(before) => Dated(after)
<1>1. /\ after[AureonKey] = before[AureonKey] /\ after[DriftKey] = before[DriftKey]
      /\ after[MainKey] = before[MainKey]
  OBVIOUS
<1> QED
  BY <1>1 DEF DriftFits, Dated, MainKey

\* Time passing keeps a good reading good.
LEMMA OlderFits ==
  ASSUME NEW obs, Dated(obs)
  PROVE  Dated(OlderObs(obs)) /\ (DriftFits(obs) => DriftFits(OlderObs(obs)))
<1> DEFINE older == OlderObs(obs)
<1>1. ASSUME NEW key \in Keys
      PROVE  /\ older[key].error = obs[key].error /\ older[key].value = obs[key].value
             /\ older[key].age = Older(obs[key].age)
  <2>1. older[key] = [error |-> obs[key].error, value |-> obs[key].value,
                      age |-> Older(obs[key].age), last |-> OlderLast(obs[key].last)]
    BY DEF OlderObs
  <2> QED
    BY <2>1
<1>2. \A age : Older(age) # None => age # None
  BY DEF Older
<1>3. \A age \in Nat : Older(age) \in Nat /\ Older(age) # None
  BY AnswerAssumption, RefresherAssumption DEF Older
<1>4. Older(None) = None
  BY DEF Older
<1> HIDE DEF older
<1>5. Dated(older)
  BY <1>1, <1>3, <1>4, AureonKeys DEF Dated
<1>6. ASSUME NEW key \in Keys, IsOk(older[key]) PROVE IsOk(obs[key])
  BY <1>1, <1>2, <1>6 DEF IsOk
<1>7. ASSUME NEW key \in {AureonKey, MainKey}, IsOk(obs[key]) PROVE IsOk(older[key])
  <2>1. key \in Keys
    BY AureonKeys
  <2>2. obs[key].age \in Nat
    BY <1>7 DEF IsOk, Dated
  <2> QED
    BY <1>1, <1>3, <1>7, <2>1, <2>2 DEF IsOk
<1>8. ASSUME DriftFits(obs) PROVE DriftFits(older)
  BY <1>1, <1>6, <1>7, <1>8, AureonKeys DEF DriftFits, MainKey
<1> QED
  BY <1>5, <1>8 DEF older

\* The readings of the first step: the drift is still that of the refresh before.
LEMMA GithubKeepsDrift == DriftInv /\ RefreshGithub => DriftInv'
<1> SUFFICES ASSUME DriftInv, RefreshGithub PROVE DriftInv'
  OBVIOUS
<1>1. PICK answers \in Answers({ProgramKey} \cup RepoKeys) :
        ObserveAll([key \in {ProgramKey} \cup RepoKeys |->
                      IF key = ProgramKey THEN LoadProgram(answers[key])
                      ELSE RepoResult(key[2], answers, key[1])])
  BY DEF RefreshGithub
<1> DEFINE read == ReadCommit(answers[MainKey])
<1>2. reading'[AureonKey] = reading[AureonKey]
  BY <1>1, AureonKeys DEF ObserveAll, RefreshGithub
<1>3. reading'[MainKey] = Observed(MainKey, RepoResult(MainKey[2], answers, MainKey[1]))
  BY <1>1, AureonKeys DEF ObserveAll
<1>4. RepoResult(MainKey[2], answers, MainKey[1]) = read
  BY DEF RepoResult, MainKey
<1>5. read.error = None => read.age \in Nat
  BY <1>1, AnswersDated
<1> HIDE DEF read
<1>6. reading'[MainKey].error = None => reading'[MainKey].age \in Nat
  <2>1. reading'[MainKey].error = read.error
    BY <1>3, <1>4, ObservedFields
  <2>2. ASSUME read.error = None PROVE reading'[MainKey].age = read.age
    BY <1>3, <1>4, <2>2 DEF Observed
  <2> QED
    BY <1>5, <2>1, <2>2
<1>7. Dated(reading)'
  BY <1>2, <1>6 DEF DriftInv, Dated
<1> QED
  BY <1>7 DEF RefreshGithub, DriftInv

\* The drift is computed from this refresh's two readings (compute_drift).
LEMMA AureonKeepsDrift == DriftInv /\ RefreshAureon => DriftInv'
<1> SUFFICES ASSUME DriftInv, RefreshAureon PROVE DriftInv'
  OBVIOUS
<1>1. PICK answers \in Answers({AureonKey}) :
        LET read == ReadAureon(answers[AureonKey])
            seen == Observed(AureonKey, read)
        IN  /\ reading'[AureonKey] = seen
            /\ reading'[DriftKey] = Observed(DriftKey, ComputeDrift(seen, reading[MainKey]))
            /\ reading'[MainKey] = reading[MainKey]
  BY AureonKeys DEF RefreshAureon, ObserveAll, MainKey
<1> DEFINE read  == ReadAureon(answers[AureonKey])
           seen  == Observed(AureonKey, read)
           drift == ComputeDrift(seen, reading[MainKey])
<1>2. read.error = None => read.age \in Nat
  BY AnswersDated
<1> HIDE DEF read
<1>3. seen.error = None => seen.age \in Nat
  <2>1. ASSUME read.error = None PROVE seen.age = read.age
    BY <2>1 DEF Observed
  <2> QED
    BY <1>2, <2>1, ObservedFields
<1> HIDE DEF seen
<1>4. Dated(reading)'
  BY <1>1, <1>3 DEF DriftInv, Dated, seen, read
<1>5. ASSUME drift.error = None
      PROVE  /\ IsOk(seen) /\ IsOk(reading[MainKey])
             /\ drift.value.main = reading[MainKey].value
             /\ drift.value.deployed = seen.value.deploy_sha
  <2> DEFINE deployed == seen.value.deploy_sha
             shown == [deployed |-> deployed, main |-> reading[MainKey].value,
                       drift |-> deployed # reading[MainKey].value]
  <2>1. \A class \in ErrorClasses : Failed(class).error # None
    BY AnswerAssumption DEF Failed
  <2>2. IsOk(seen) /\ IsOk(reading[MainKey]) /\ drift = Value(shown, 0)
    BY <1>5, <2>1 DEF ComputeDrift, ErrorClasses
  <2>3. drift.value = shown
    BY <2>2 DEF Value
  <2> HIDE DEF drift
  <2> QED
    BY <2>2, <2>3
<1> HIDE DEF drift
<1>6. /\ reading'[AureonKey] = seen /\ reading'[DriftKey] = Observed(DriftKey, drift)
      /\ reading'[MainKey] = reading[MainKey]
  BY <1>1 DEF seen, read, drift
<1>7. ASSUME drift.error = None PROVE reading'[DriftKey].value = drift.value
  BY <1>6, <1>7 DEF Observed
<1>8. reading'[DriftKey].error = drift.error
  BY <1>6, ObservedFields
<1>9. DriftFits(reading)'
  BY <1>5, <1>6, <1>7, <1>8 DEF DriftFits, IsOk, MainKey
<1> QED
  BY <1>4, <1>9 DEF RefreshAureon, DriftInv

\* Every step keeps the drift beside the readings it was computed from.
LEMMA DriftKept == DriftInv /\ [Next]_vars => DriftInv'
<1> SUFFICES ASSUME DriftInv, [Next]_vars PROVE DriftInv'
  OBVIOUS
<1>1. CASE RefreshFeeds \/ AbortRefresh
  <2>1. {AureonKey, DriftKey, MainKey} \cap (ConnectedKeys \cup ReadBeforeLifecycles) = {}
    BY AureonKeys, RefresherAssumption DEF ConnectedKeys, ReadBeforeLifecycles, FeedKeys
  <2>2. \A key \in {AureonKey, DriftKey, MainKey} : reading'[key] = reading[key]
    BY <1>1, <2>1, AureonKeys DEF RefreshFeeds, AbortRefresh, ObserveAll, Unconnected
  <2>3. (DriftFits(reading) => DriftFits(reading')) /\ (Dated(reading) => Dated(reading'))
    BY <2>2, SameReadings
  <2>4. thread = "feeds" /\ UNCHANGED snapshot
    BY <1>1 DEF RefreshFeeds, AbortRefresh
  <2> QED
    BY <2>3, <2>4 DEF DriftInv
<1>2. CASE Publish
  <2>1. snapshot'.obs = reading /\ thread = "publish" /\ thread' = "asleep" /\ reading' = reading
    BY <1>2 DEF Publish
  <2> QED
    BY <2>1 DEF DriftInv
<1>3. CASE Tick
  <2>1. snapshot'.obs = OlderObs(snapshot.obs) /\ reading' = OlderObs(reading) /\ thread' = thread
    BY <1>3 DEF Tick
  <2> QED
    BY <2>1, OlderFits DEF DriftInv
<1>4. CASE Wake \/ Launch \/ Stop \/ UNCHANGED vars
  <2>1. UNCHANGED <<snapshot, reading>> /\ (thread' \in {"feeds", "publish"} => thread' = thread)
    BY <1>4 DEF Wake, Launch, Request, TakeStartLock, MakeThread, LaunchThread, Stop,
                refresher, vars
  <2> QED
    BY <2>1 DEF DriftInv
<1> QED
  BY <1>1, <1>2, <1>3, <1>4, GithubKeepsDrift, AureonKeepsDrift DEF Next, Refresh

\* A drift the page shows was computed from the very readings it shows beside
\* it, for any sources and answers and however refreshes fail or end early.
THEOREM DriftIsOfOneRefresh == Spec => []DriftOfOneRefresh
<1>1. Init => DriftInv
  <2> SUFFICES ASSUME Init PROVE DriftInv
    OBVIOUS
  <2>1. /\ reading[AureonKey] = Pending /\ reading[MainKey] = Pending
        /\ reading[DriftKey] = Pending
    BY AureonKeys DEF Init, StartingObs, ProgramKey, AureonKey, DriftKey
  <2>2. Pending.error # None
    BY AnswerAssumption DEF Pending, Unread, ErrorClasses
  <2>3. Dated(reading) /\ DriftFits(reading)
    BY <2>1, <2>2 DEF Dated, DriftFits, IsOk
  <2>4. snapshot.obs = reading
    BY DEF Init
  <2> QED
    BY <2>3, <2>4 DEF DriftInv
<1>2. DriftInv => DriftOfOneRefresh
  BY DEF DriftInv, DriftOfOneRefresh
<1> QED
  BY <1>1, <1>2, DriftKept, PTL DEF Spec

-----------------------------------------------------------------------------
(* The page and the health report.                                          *)

\* The worst of some dispositions is one of them, and none is worse (worst_of).
LEMMA WorstIsWorst ==
  ASSUME NEW found, found \subseteq Dispositions, found # {}
  PROVE  Worst(found) \in found /\ \A d \in found : Severity[d] <= Severity[Worst(found)]
<1>1. /\ Severity["PASS"] = 0 /\ Severity["HOLD"] = 1
      /\ Severity["INDETERMINATE"] = 2 /\ Severity["BLOCK"] = 3
  BY DEF Severity
<1>2. \E d \in found : \A other \in found : Severity[other] <= Severity[d]
  <2>1. CASE "BLOCK" \in found
    BY <1>1, <2>1 DEF Dispositions
  <2>2. CASE "BLOCK" \notin found /\ "INDETERMINATE" \in found
    BY <1>1, <2>2 DEF Dispositions
  <2>3. CASE found \cap {"BLOCK", "INDETERMINATE"} = {} /\ "HOLD" \in found
    BY <1>1, <2>3 DEF Dispositions
  <2>4. CASE found \cap {"BLOCK", "INDETERMINATE", "HOLD"} = {}
    <3>1. found = {"PASS"}
      BY <2>4 DEF Dispositions
    <3> QED
      BY <1>1, <3>1
  <2> QED
    BY <2>1, <2>2, <2>3, <2>4
<1> QED
  BY <1>2 DEF Worst

-----------------------------------------------------------------------------
(* What the readers give, and what an observation of it holds.              *)

\* A result of a reader: an error class, or a value with a date.
Sound(result) ==
  /\ result.error \in ErrorClasses \cup {None}
  /\ result.error = None => result.age \in 0..OldestAge

\* What the readers have checked of the values the overall state is made from.
GoodContents(key, v) ==
  /\ key[2] = "main_ci" => v \in Dispositions
  /\ key[2] = "scheduled" => v \subseteq Dispositions
  /\ key = Feed("agents") => \A a \in v.rows : a.disposition \in Dispositions
  /\ key = Feed("advisories") => v \subseteq Dispositions
  /\ key = Feed("lifecycles") => \A row \in v : RowDisposition(row) \in Dispositions

Given(key, result) == Sound(result) /\ (result.error = None => GoodContents(key, result.value))
Kept(key, o) == WellFormed(o) /\ (o.error = None => GoodContents(key, o.value))

\* Zero is an age, and no age is taken for None.
LEMMA AgesAre ==
  /\ 0..OldestAge \subseteq Nat /\ 0 \in 0..OldestAge /\ None \notin 0..OldestAge
  /\ Ages = (0..OldestAge) \cup {None}
<1>1. OldestAge \in Nat /\ None \notin Nat
  BY RefresherAssumption, AnswerAssumption
<1> QED
  BY <1>1 DEF Ages

\* Failed is an error class and no value; Value is a value and no error.
LEMMA ResultFields ==
  /\ \A class : Failed(class).error = class /\ Failed(class).value = None
  /\ \A v, age : Value(v, age).error = None /\ Value(v, age).value = v /\ Value(v, age).age = age
BY DEF Failed, Value

\* A fetch gives what was sent, or one of the error classes (http.py).
LEMMA ReadIs ==
  ASSUME NEW r, NEW malformed, NEW absent
  PROVE  \/ \E class \in ErrorClasses : Read(r, malformed, absent) = Failed(class)
         \/ r.sent # "refused" /\ Read(r, malformed, absent) = Value(r.value, r.age)
<1>1. Transport(r) \in ErrorClasses \cup {None}
  BY DEF Transport, ErrorClasses
<1>2. {"MalformedResponse", "FieldAbsent"} \subseteq ErrorClasses /\ None \notin ErrorClasses
  BY AnswerAssumption DEF ErrorClasses
<1>3. Transport(r) = None => r.sent # "refused"
  BY <1>2 DEF Transport, ErrorClasses
<1> QED
  BY <1>1, <1>2, <1>3 DEF Read

\* What is observed of a result is well formed (_observe).
LEMMA ObservationKept ==
  ASSUME NEW key, NEW result, Given(key, result)
  PROVE  Kept(key, Observed(key, result))
<1>1. CASE result.error = None
  <2>1. Observed(key, result) = [error |-> None, value |-> result.value, age |-> result.age,
                                 last |-> None]
    BY <1>1 DEF Observed
  <2> QED
    BY <1>1, <2>1, AgesAre DEF Given, Sound, Kept, WellFormed
<1>2. CASE result.error # None
  <2>1. Observed(key, result) = [error |-> result.error, value |-> None, age |-> None,
                                 last |-> good[key]]
    BY <1>2 DEF Observed
  <2> QED
    BY <1>2, <2>1, AgesAre DEF Given, Sound, Kept, WellFormed
<1> QED
  BY <1>1, <1>2

\* Some results satisfy the readers whatever they carry.
LEMMA GivenAtOnce ==
  ASSUME NEW key
  PROVE  /\ \A class \in ErrorClasses : Given(key, Failed(class))
         /\ \A v, age : age \in 0..OldestAge /\ GoodContents(key, v) => Given(key, Value(v, age))
         /\ \A class \in ErrorClasses : class # None
BY ResultFields, AnswerAssumption DEF Given, Sound

\* An observation that was never made is well formed (pending, not_configured).
LEMMA UnreadKept ==
  ASSUME NEW key, NEW class \in ErrorClasses
  PROVE  Kept(key, Unread(class))
<1>1. Unread(class) = [error |-> class, value |-> None, age |-> None, last |-> None]
  BY DEF Unread
<1>2. class # None
  BY AnswerAssumption
<1> QED
  BY <1>1, <1>2, AgesAre DEF Kept, WellFormed

\* Time passing keeps a well formed observation well formed.
LEMMA OlderKept ==
  ASSUME NEW key, NEW o, Kept(key, o)
  PROVE  Kept(key, [error |-> o.error, value |-> o.value, age |-> Older(o.age),
                    last |-> OlderLast(o.last)])
<1> DEFINE older == [error |-> o.error, value |-> o.value, age |-> Older(o.age),
                     last |-> OlderLast(o.last)]
<1>1. Older(o.age) \in Ages /\ (Older(o.age) = None <=> o.age = None)
  <2>1. o.age \in (0..OldestAge) \cup {None}
    BY AgesAre DEF Kept, WellFormed
  <2>2. CASE o.age = None
    BY <2>2, AgesAre DEF Older
  <2>3. CASE o.age \in 0..OldestAge
    <3>1. Older(o.age) \in 0..OldestAge
      BY <2>3, RefresherAssumption, AgesAre DEF Older
    <3> QED
      BY <2>3, <3>1, AgesAre
  <2> QED
    BY <2>1, <2>2, <2>3
<1>2. OlderLast(None) = None
  BY DEF OlderLast
<1>3. /\ older.error = o.error /\ older.value = o.value /\ older.age = Older(o.age)
      /\ older.last = OlderLast(o.last) /\ DOMAIN older = {"error", "value", "age", "last"}
  OBVIOUS
<1> HIDE DEF older
<1>4. Kept(key, older)
  BY <1>1, <1>2, <1>3 DEF Kept, WellFormed
<1> QED
  BY <1>4 DEF older

-----------------------------------------------------------------------------
(* What each source gives.                                                  *)

\* The worst of some dispositions, or what stands for none, is a disposition.
LEMMA WorstOrIs ==
  ASSUME NEW found, found \subseteq Dispositions, NEW none \in Dispositions
  PROVE  WorstOr(found, none) \in Dispositions
BY WorstIsWorst DEF WorstOr

\* A run is one of the four dispositions, and so are runs combined
\* (run_disposition, combine_ci).
LEMMA RunsAreDispositions ==
  /\ \A runs : ScheduledSummary(runs) \subseteq Dispositions
  /\ \A runs, sha : CombineCi(runs, sha) \in Dispositions
<1>1. \A run : RunDisposition(run) \in Dispositions
  BY DEF RunDisposition, Dispositions
<1> QED
  BY <1>1 DEF ScheduledSummary, CombineCi, Dispositions

\* The row of a document that can be read is one of the four dispositions
\* (parse_document and the parsers of the other publications).
LEMMA RowsAreDispositions ==
  ASSUME NEW doc, doc.kind \in {"bilateral", "ficc", "repo", "equities", "oms"},
         doc.kind = "bilateral" =>
           \A c \in Checkpoints : doc.stages[c] \in Dispositions \cup {None}
  PROVE  RowDisposition(ParsedRow(doc)) \in Dispositions
<1>1. ASSUME NEW cells, NEW facts, cells \subseteq Dispositions, facts \subseteq Dispositions
      PROVE  RowDisposition(Row(cells, facts)) \in Dispositions
  <2>1. Row(cells, facts).cells = cells /\ Row(cells, facts).facts = facts
    BY DEF Row
  <2>2. facts # {} => Worst(facts) \in Dispositions
    BY <1>1, WorstIsWorst
  <2>3. WorstOr(cells, "INDETERMINATE") \in Dispositions
    BY <1>1, WorstOrIs DEF Dispositions
  <2> QED
    BY <2>1, <2>2, <2>3 DEF RowDisposition
<1>2. \E cells, facts : /\ ParsedRow(doc) = Row(cells, facts)
                        /\ cells \subseteq Dispositions /\ facts \subseteq Dispositions
  <2>1. CASE doc.kind = "bilateral"
    <3> DEFINE cells == {StageCell(doc.stages[c]) : c \in Checkpoints}
    <3>1. cells \subseteq Dispositions
      BY <2>1 DEF StageCell, Dispositions
    <3>2. ParsedRow(doc) = Row(cells, {})
      BY <2>1 DEF ParsedRow, ParseDocument
    <3> HIDE DEF cells
    <3> QED
      BY <3>1, <3>2
  <2>2. CASE doc.kind = "ficc"
    <3> DEFINE facts == {IF s \in doc.recorded THEN "PASS" ELSE "INDETERMINATE" : s \in FiccStages}
    <3>1. facts \subseteq Dispositions
      BY DEF Dispositions
    <3>2. ParsedRow(doc) = Row({}, facts)
      BY <2>2 DEF ParsedRow, ParseFicc
    <3> QED
      BY <3>1, <3>2
  <2>3. CASE doc.kind = "repo"
    BY <2>3 DEF ParsedRow, ParseRepo
  <2>4. CASE doc.kind \in {"equities", "oms"}
    <3>1. ParsedRow(doc) = Row({}, {"PASS"})
      BY <2>4 DEF ParsedRow, ParseEquities, ParseOms
    <3> QED
      BY <3>1 DEF Dispositions
  <2> QED
    BY <2>1, <2>2, <2>3, <2>4
<1> QED
  BY <1>1, <1>2

\* Among some natural numbers there is a least.
LEMMA LeastNat ==
  ASSUME NEW S, S \subseteq Nat, S # {}
  PROVE  \E n \in S : \A m \in S : n <= m
<1>1. PICK n \in S : \A m \in S : ~(<<m, n>> \in OpToRel(<, Nat))
  BY NatLessThanWellFounded, WFMin
<1>2. ASSUME NEW m \in S PROVE n <= m
  <2>1. m \in Nat /\ n \in Nat
    OBVIOUS
  <2>2. <<m, n>> \notin {pair \in Nat \X Nat : pair[1] < pair[2]}
    BY <1>1 DEF OpToRel
  <2> QED
    BY <2>1, <2>2
<1> QED
  BY <1>2

\* The oldest of some documents dates the board: among ages there is a greatest.
LEMMA OldestIs ==
  ASSUME NEW ages, ages \subseteq 0..OldestAge, ages # {}
  PROVE  Max(ages) \in ages
<1> DEFINE young == {n \in Nat : OldestAge - n \in ages}
<1>1. young \subseteq Nat /\ young # {}
  <2>1. PICK age \in ages : TRUE
    OBVIOUS
  <2>2. age \in Nat /\ age <= OldestAge /\ OldestAge \in Nat
    BY RefresherAssumption
  <2>3. OldestAge - age \in Nat /\ OldestAge - (OldestAge - age) = age
    BY <2>2
  <2> QED
    BY <2>1, <2>3
<1>2. PICK n \in young : \A m \in young : n <= m
  BY <1>1, LeastNat
<1>3. \A age \in ages : OldestAge - n >= age
  <2> SUFFICES ASSUME NEW age \in ages PROVE OldestAge - n >= age
    OBVIOUS
  <2>1. age \in Nat /\ age <= OldestAge /\ OldestAge \in Nat /\ n \in Nat
    BY RefresherAssumption
  <2>2. OldestAge - age \in Nat /\ OldestAge - (OldestAge - age) = age
    BY <2>1
  <2>3. n <= OldestAge - age
    BY <1>2, <2>2
  <2> QED
    BY <2>1, <2>3
<1>4. OldestAge - n \in ages
  BY <1>2
<1> QED
  BY <1>3, <1>4 DEF Max

\* The results of the observations of GitHub and the program file
\* (_refresh_github, _load_program).
LEMMA RepoGiven ==
  ASSUME NEW answers, NEW repo \in Repositories, NEW part \in RepoParts,
         \A p \in RepoParts : answers[<<repo, p>>].age \in 0..OldestAge
  PROVE  Given(<<repo, part>>, RepoResult(part, answers, repo))
<1> DEFINE key == <<repo, part>>
           answer == answers[key]
<1>1. answer.age \in 0..OldestAge
  OBVIOUS
<1>2. key[1] = repo /\ key[2] = part /\ part # "feed"
  BY DEF RepoParts
<1>3. key \notin {Feed("agents"), Feed("advisories"), Feed("lifecycles")}
  BY <1>2 DEF Feed
<1> HIDE DEF key
<1>4. ASSUME NEW v, part \notin {"main_ci", "scheduled"} PROVE GoodContents(key, v)
  BY <1>2, <1>3, <1>4 DEF GoodContents
<1>5. \A v : part = "main_ci" /\ v \in Dispositions => GoodContents(key, v)
  BY <1>2, <1>3 DEF GoodContents
<1>6. \A v : part = "scheduled" /\ v \subseteq Dispositions => GoodContents(key, v)
  BY <1>2, <1>3 DEF GoodContents
<1>7. ASSUME NEW malformed, NEW absent
      PROVE  \/ \E class \in ErrorClasses : Read(answer, malformed, absent) = Failed(class)
             \/ Read(answer, malformed, absent) = Value(answer.value, answer.age)
  BY ReadIs
<1> HIDE DEF answer
<1>8. CASE part \in {"main", "pulls"}
  <2>1. \E malformed, absent : RepoResult(part, answers, repo) = Read(answer, malformed, absent)
    BY <1>8 DEF RepoResult, ReadCommit, ReadPulls, answer, key
  <2> QED
    BY <1>1, <1>4, <1>7, <1>8, <2>1, GivenAtOnce DEF key
<1>9. CASE part = "main_ci"
  <2> DEFINE main == ReadCommit(answers[<<repo, "main">>])
  <2>1. RepoResult(part, answers, repo) = MainCi(main, answer)
    BY <1>9 DEF RepoResult, answer, key
  <2>2. CASE main.error # None
    BY <2>1, <2>2, GivenAtOnce DEF MainCi, ErrorClasses, key
  <2>3. CASE main.error = None /\ ReadRuns(answer).error # None
    <3>1. MainCi(main, answer) = ReadRuns(answer)
      BY <2>3 DEF MainCi
    <3> QED
      BY <1>7, <2>1, <2>3, <3>1, ResultFields, GivenAtOnce DEF ReadRuns, key
  <2>4. CASE main.error = None /\ ReadRuns(answer).error = None
    <3>1. MainCi(main, answer) = Value(CombineCi(answer.value, main.value), answer.age)
      BY <2>4 DEF MainCi
    <3> QED
      BY <1>1, <1>5, <1>9, <2>1, <3>1, RunsAreDispositions, GivenAtOnce DEF key
  <2> QED
    BY <2>2, <2>3, <2>4
<1>10. CASE part \in {"tag", "scheduled"}
  <2> DEFINE of(v) == IF part = "tag" THEN LatestTag(v) ELSE ScheduledSummary(v)
             read == Read(answer, Unversioned, {})
  <2>1. RepoResult(part, answers, repo) =
          IF read.error # None THEN read ELSE [read EXCEPT !.value = of(read.value)]
    BY <1>10 DEF RepoResult, Mapped, ReadTags, ReadScheduled, answer, key
  <2>2. CASE \E class \in ErrorClasses : read = Failed(class)
    BY <2>1, <2>2, ResultFields, GivenAtOnce DEF key
  <2>3. CASE read = Value(answer.value, answer.age)
    <3>1. RepoResult(part, answers, repo) = Value(of(answer.value), answer.age)
      BY <2>1, <2>3 DEF Value
    <3>2. GoodContents(key, of(answer.value))
      BY <1>4, <1>6, <1>10, RunsAreDispositions
    <3> QED
      BY <1>1, <3>1, <3>2, GivenAtOnce DEF key
  <2> QED
    BY <1>7, <2>2, <2>3
<1> QED
  BY <1>8, <1>9, <1>10 DEF RepoParts, key

\* What the readers of the feeds with rules of their own give
\* (traceability.py, breaks.py): what was read, or that it is malformed.
LEMMA RuledFeeds ==
  ASSUME NEW r, r.age \in 0..OldestAge
  PROVE  \A result \in {ReadTraceability(r), PublicationToRegister(ReadBreaks(r))} :
           \/ \E class \in ErrorClasses : result = Failed(class)
           \/ \E v : result = Value(v, r.age)
<1>1. "MalformedResponse" \in ErrorClasses /\ None \notin ErrorClasses
  BY AnswerAssumption DEF ErrorClasses
<1>2. ASSUME NEW result \in {ReadTraceability(r), ReadBreaks(r)}
      PROVE  \/ \E class \in ErrorClasses : result = Failed(class)
             \/ result = Value(r.value, r.age)
  <2>1. \E malformed, absent : result \in {Read(r, malformed, absent), Failed("MalformedResponse")}
    BY DEF ReadTraceability, ReadBreaks, Ruled
  <2> QED
    BY <1>1, <2>1, ReadIs
<1>3. ASSUME NEW class \in ErrorClasses, ReadBreaks(r) = Failed(class)
      PROVE  PublicationToRegister(ReadBreaks(r)) = Failed(class)
  BY <1>1, <1>3, ResultFields DEF PublicationToRegister
<1>4. ASSUME ReadBreaks(r) = Value(r.value, r.age)
      PROVE  \E v : PublicationToRegister(ReadBreaks(r)) = Value(v, r.age)
  <2>1. PublicationToRegister(ReadBreaks(r)) =
          Value({BreakToException(b) : b \in r.value}, r.age)
    BY <1>4 DEF PublicationToRegister, Value
  <2> QED
    BY <2>1
<1> QED
  BY <1>2, <1>3, <1>4

\* The board is dated by its oldest document, and its rows are dispositions.
LEMMA BoardGiven ==
  ASSUME "lifecycles" \in Connected,
         NEW r \in MayAnswer(Feed("lifecycles")) \cup {Down(Usual[Feed("lifecycles")])}
  PROVE  Given(Feed("lifecycles"), ReadLifecycles(r))
<1> DEFINE key == Feed("lifecycles")
           malformed == Versioned \cup {"unordered", "extra_field"}
           absent == {"bilateral_no_version"}
           result == Read(r, malformed, absent)
           rows == {ParsedRow(doc) : doc \in r.value}
           ages == {doc.age : doc \in r.value}
<1>1. None \notin ErrorClasses /\ {"UnexpectedError"} \subseteq ErrorClasses
  BY AnswerAssumption DEF ErrorClasses
<1>2. CASE \E class \in ErrorClasses : result = Failed(class)
  <2>1. ReadLifecycles(r) = result
    BY <1>1, <1>2, ResultFields DEF ReadLifecycles
  <2> QED
    BY <1>2, <2>1, GivenAtOnce
<1>3. CASE r.sent # "refused" /\ result = Value(r.value, r.age)
  <2>1. r \in MayAnswer(key)
    BY <1>3 DEF Down
  <2>2. result.error = None
    BY <1>3, ResultFields
  <2>3. CASE r.flaw \in {"repo_leg", "oms_time"}
    <3>1. ReadLifecycles(r) = Failed("UnexpectedError")
      BY <2>2, <2>3 DEF ReadLifecycles
    <3> QED
      BY <1>1, <3>1, GivenAtOnce
  <2>4. CASE r.flaw \notin {"repo_leg", "oms_time"}
    <3>1. ReadLifecycles(r) = Value(rows, Max(ages))
      BY <2>2, <2>4 DEF ReadLifecycles
    <3>2. ReadLifecycles(r).error = None
      BY <3>1, ResultFields
    <3>3. /\ r.value # {}
          /\ \A doc \in r.value :
               /\ doc.age \in 0..OldestAge
               /\ doc.kind \in {"bilateral", "ficc", "repo", "equities", "oms"}
               /\ doc.kind = "bilateral" =>
                    \A c \in Checkpoints : doc.stages[c] \in Dispositions \cup {None}
      BY <2>1, <3>2, AnswerAssumption
    <3>4. Max(ages) \in 0..OldestAge
      <4>1. ages \subseteq 0..OldestAge /\ ages # {}
        BY <3>3
      <4> HIDE DEF ages
      <4> QED
        BY <4>1, OldestIs
    <3>5. \A row \in rows : RowDisposition(row) \in Dispositions
      BY <3>3, RowsAreDispositions
    <3>6. key[2] = "feed" /\ key \notin {Feed("agents"), Feed("advisories")}
      BY DEF Feed
    <3> HIDE DEF rows, ages
    <3>7. GoodContents(key, rows)
      BY <3>5, <3>6 DEF GoodContents
    <3> QED
      BY <3>1, <3>4, <3>7, GivenAtOnce
  <2> QED
    BY <2>3, <2>4
<1> QED
  BY <1>2, <1>3, ReadIs

\* The results of the observations of the feeds (_refresh_feeds).
LEMMA FeedGiven ==
  ASSUME NEW name \in Connected,
         NEW r \in MayAnswer(Feed(name)) \cup {Down(Usual[Feed(name)])}
  PROVE  Given(Feed(name), FeedResult(name, r))
<1> DEFINE key == Feed(name)
<1>1. key[1] = name /\ key[2] = "feed"
  BY DEF Feed
<1>2. \A other : key = Feed(other) <=> name = other
  BY DEF Feed
<1>3. r.age \in 0..OldestAge
  <2>1. key \in FetchedKeys
    BY DEF FetchedKeys, ConnectedKeys
  <2>2. \A a \in MayAnswer(key) : a.age \in 0..OldestAge
    BY <2>1, AnswerAssumption
  <2>3. Down(Usual[key]).age = Usual[key].age /\ Usual[key] \in MayAnswer(key)
    BY DEF Down, MayAnswer
  <2> QED
    BY <2>2, <2>3
<1>4. name \in FeedNames
  BY RefresherAssumption
<1>5. ASSUME NEW v, name \notin {"agents", "advisories", "lifecycles"} PROVE GoodContents(key, v)
  BY <1>1, <1>2, <1>5 DEF GoodContents
<1>6. CASE name \in {"layer_clock", "escalations", "cash_leg"}
  <2>1. \E malformed, absent : FeedResult(name, r) = Read(r, malformed, absent)
    BY <1>6 DEF FeedResult, ReadLayerClock, ReadEscalations, ReadCashLeg
  <2> QED
    BY <1>3, <1>5, <1>6, <2>1, ReadIs, GivenAtOnce
<1>7. CASE name \in {"agents", "advisories"}
  <2> DEFINE result == FeedResult(name, r)
  <2>1. /\ name = "agents" => result = ReadAgents(r)
        /\ name = "advisories" => result = ReadAdvisories(r)
    BY DEF FeedResult
  <2>2. \/ \E class \in ErrorClasses : result = Failed(class)
        \/ r.sent # "refused" /\ result = Value(r.value, r.age)
    BY <1>7, <2>1, ReadIs DEF ReadAgents, ReadAdvisories
  <2> HIDE DEF result
  <2>3. CASE \E class \in ErrorClasses : result = Failed(class)
    BY <2>3, GivenAtOnce DEF result
  <2>4. CASE r.sent # "refused" /\ result = Value(r.value, r.age)
    <3>1. r \in MayAnswer(key)
      BY <2>4 DEF Down
    <3>2. result.error = None
      BY <2>4, ResultFields
    <3>3. GoodContents(key, r.value)
      BY <1>1, <1>2, <1>7, <2>1, <3>1, <3>2, AnswerAssumption DEF GoodContents
    <3> QED
      BY <1>3, <2>4, <3>3, GivenAtOnce DEF result
  <2> QED
    BY <2>2, <2>3, <2>4
<1>8. CASE name \in {"traceability", "exceptions"}
  <2>1. FeedResult(name, r) \in {ReadTraceability(r), PublicationToRegister(ReadBreaks(r))}
    BY <1>8 DEF FeedResult
  <2> QED
    BY <1>3, <1>5, <1>8, <2>1, RuledFeeds, GivenAtOnce
<1>9. CASE name = "lifecycles"
  BY <1>9, BoardGiven DEF FeedResult
<1>10. CASE name \in {"breaks", "governance", "controls", "risks"}
  <2>1. FeedResult(name, r) = Value(r.value, 0)
    BY <1>10 DEF FeedResult
  <2> QED
    BY <1>5, <1>10, <2>1, AgesAre, GivenAtOnce
<1> QED
  BY <1>4, <1>6, <1>7, <1>8, <1>9, <1>10 DEF FeedNames

-----------------------------------------------------------------------------
(* Type correctness.                                                        *)

\* The types, and that every observation is a well formed one.
PictureInv ==
  /\ TypeOK
  /\ \A key \in Keys : Kept(key, reading[key]) /\ Kept(key, snapshot.obs[key])

\* An answer to a step of the refresh is dated.
LEMMA AnswerDated ==
  ASSUME NEW keys, NEW answers \in Answers(keys), NEW key \in keys \cap FetchedKeys,
         key # ProgramKey
  PROVE  /\ answers[key] \in MayAnswer(key) \cup {Down(Usual[key])}
         /\ answers[key].age \in 0..OldestAge
<1>1. answers[key] \in MayAnswer(key) \cup {Down(Usual[key])}
  BY AnswerOf DEF MayAnswer
<1>2. \A a \in MayAnswer(key) : a.age \in 0..OldestAge
  BY AnswerAssumption
<1>3. Down(Usual[key]).age = Usual[key].age /\ Usual[key] \in MayAnswer(key)
  BY DEF Down, MayAnswer
<1> QED
  BY <1>1, <1>2, <1>3

\* The observations of the first step (_refresh_github).
GithubResults(answers) ==
  [key \in {ProgramKey} \cup RepoKeys |->
     IF key = ProgramKey THEN LoadProgram(answers[key])
     ELSE RepoResult(key[2], answers, key[1])]

\* The program file is there, or its absence is an error (load_program).
LEMMA ProgramGiven ==
  ASSUME NEW answer
  PROVE  Given(ProgramKey, LoadProgram(answer))
<1>1. ProgramKey[2] = "file" /\ \A name : ProgramKey # Feed(name)
  BY DEF ProgramKey, Feed
<1>2. \A v : GoodContents(ProgramKey, v)
  BY <1>1 DEF GoodContents
<1> QED
  BY <1>2, AgesAre, GivenAtOnce DEF LoadProgram, ErrorClasses

LEMMA GithubGiven ==
  ASSUME NEW answers \in Answers({ProgramKey} \cup RepoKeys), NEW key \in {ProgramKey} \cup RepoKeys
  PROVE  Given(key, GithubResults(answers)[key])
<1>1. CASE key = ProgramKey
  BY <1>1, ProgramGiven DEF GithubResults
<1>2. CASE key \in RepoKeys /\ key # ProgramKey
  <2>1. PICK repo \in Repositories, part \in RepoParts : key = <<repo, part>>
    BY <1>2 DEF RepoKeys
  <2>2. ASSUME NEW p \in RepoParts PROVE answers[<<repo, p>>].age \in 0..OldestAge
    <3>1. <<repo, p>> \in RepoKeys /\ <<repo, p>> # ProgramKey
      BY DEF RepoKeys, RepoParts, ProgramKey
    <3> QED
      BY <3>1, AnswerDated DEF FetchedKeys
  <2>3. Given(<<repo, part>>, RepoResult(part, answers, repo))
    BY <2>2, RepoGiven
  <2>4. GithubResults(answers)[key] = RepoResult(part, answers, repo)
    BY <1>2, <2>1 DEF GithubResults
  <2> QED
    BY <2>1, <2>3, <2>4
<1> QED
  BY <1>1, <1>2

\* The observations of the second step (_refresh_aureon), of any readings.
AureonResults(answers, main, before, prior) ==
  LET read    == ReadAureon(answers[AureonKey])
      drift   == ComputeDrift(Observed(AureonKey, read), main)
      dropped == IF read.error # None THEN Failed("InputUnavailable")
                 ELSE DetectPendingDrop(before, read.value, prior)
  IN  [key \in {AureonKey} \cup ComputedKeys |->
         CASE key = AureonKey -> read [] key = DriftKey -> drift [] OTHER -> dropped]

LEMMA AureonGiven ==
  ASSUME NEW answers \in Answers({AureonKey}), NEW main, NEW before, NEW prior,
         NEW key \in {AureonKey} \cup ComputedKeys
  PROVE  Given(key, AureonResults(answers, main, before, prior)[key])
<1> DEFINE read    == ReadAureon(answers[AureonKey])
           drift   == ComputeDrift(Observed(AureonKey, read), main)
           dropped == IF read.error # None THEN Failed("InputUnavailable")
                      ELSE DetectPendingDrop(before, read.value, prior)
<1>1. AureonResults(answers, main, before, prior)[key] =
        CASE key = AureonKey -> read [] key = DriftKey -> drift [] OTHER -> dropped
  BY DEF AureonResults
<1>2. \A k \in {AureonKey} \cup ComputedKeys :
        k[2] \in {"snapshot", "drift", "pending_drop"} /\ \A name : k # Feed(name)
  BY DEF AureonKey, ComputedKeys, DriftKey, DropKey, Feed
<1>3. \A v : GoodContents(key, v)
  BY <1>2 DEF GoodContents
<1>4. {"InputUnavailable", "FieldAbsent", "MalformedResponse"} \subseteq ErrorClasses
  BY DEF ErrorClasses
<1>5. Given(key, read)
  <2>1. answers[AureonKey].age \in 0..OldestAge
    BY AnswerDated, AureonKeys DEF FetchedKeys
  <2>2. \/ \E class \in ErrorClasses : read = Failed(class)
        \/ read = Value(answers[AureonKey].value, answers[AureonKey].age)
    BY ReadIs DEF ReadAureon
  <2> HIDE DEF read
  <2> QED
    BY <1>3, <2>1, <2>2, GivenAtOnce
<1>6. Given(key, drift)
  <2>1. \/ \E class \in ErrorClasses : drift = Failed(class)
        \/ \E v : drift = Value(v, 0)
    BY <1>4 DEF ComputeDrift
  <2> HIDE DEF drift
  <2> QED
    BY <1>3, <2>1, AgesAre, GivenAtOnce
<1>7. Given(key, dropped)
  <2>1. \/ \E class \in ErrorClasses : dropped = Failed(class)
        \/ \E v : dropped = Value(v, 0)
    BY <1>4 DEF DetectPendingDrop
  <2> HIDE DEF dropped
  <2> QED
    BY <1>3, <2>1, AgesAre, GivenAtOnce
<1> HIDE DEF read, drift, dropped
<1> QED
  BY <1>1, <1>5, <1>6, <1>7

\* The observations of the third step, of all the feeds or of those before the
\* board (_refresh_feeds).
FeedResults(answers, keys) == [key \in keys |-> FeedResult(key[1], answers[key])]

LEMMA FeedsGiven ==
  ASSUME NEW answers \in Answers(ConnectedKeys), NEW keys \in SUBSET ConnectedKeys,
         NEW key \in keys
  PROVE  Given(key, FeedResults(answers, keys)[key])
<1>1. PICK name \in Connected : key = Feed(name)
  BY DEF ConnectedKeys
<1>2. key[1] = name /\ key # ProgramKey
  BY <1>1 DEF Feed, ProgramKey
<1>3. answers[key] \in MayAnswer(key) \cup {Down(Usual[key])}
  BY <1>2, AnswerDated DEF FetchedKeys
<1>4. FeedResults(answers, keys)[key] = FeedResult(name, answers[key])
  BY <1>2 DEF FeedResults
<1> QED
  BY <1>1, <1>3, <1>4, FeedGiven

\* Observing results of the readers keeps every observation well formed.
LEMMA ObservingTyped ==
  ASSUME PictureInv, NEW results, DOMAIN results \subseteq Keys, ObserveAll(results),
         \A key \in DOMAIN results : Given(key, results[key])
  PROVE  /\ DOMAIN reading' = Keys /\ DOMAIN good' = Keys /\ failed' \in BOOLEAN
         /\ \A key \in Keys : Kept(key, reading'[key])
<1>1. ASSUME NEW key \in Keys PROVE Kept(key, reading'[key])
  <2>1. reading'[key] = IF key \in DOMAIN results THEN Observed(key, results[key])
                        ELSE IF thread = "feeds" /\ key \in Unconnected THEN NotConfigured
                        ELSE reading[key]
    BY DEF ObserveAll
  <2>2. key \in DOMAIN results => Kept(key, Observed(key, results[key]))
    BY ObservationKept
  <2>3. Kept(key, NotConfigured)
    BY UnreadKept DEF NotConfigured, ErrorClasses
  <2>4. Kept(key, reading[key])
    BY DEF PictureInv
  <2> QED
    BY <2>1, <2>2, <2>3, <2>4
<1>2. DOMAIN reading' = Keys /\ DOMAIN good' = Keys
  BY DEF ObserveAll, Learned
<1>3. failed' \in BOOLEAN
  BY DEF ObserveAll, PictureInv, TypeOK
<1> QED
  BY <1>1, <1>2, <1>3

\* What each step of the refresh observes, with its results.
LEMMA StepsObserve ==
  ASSUME RefreshGithub \/ RefreshAureon \/ RefreshFeeds \/ AbortRefresh
  PROVE  \E results : /\ ObserveAll(results) /\ DOMAIN results \subseteq Keys
                      /\ \A key \in DOMAIN results : Given(key, results[key])
<1>1. CASE RefreshGithub
  <2>1. PICK answers \in Answers({ProgramKey} \cup RepoKeys) : ObserveAll(GithubResults(answers))
    BY <1>1 DEF RefreshGithub, GithubResults
  <2>2. DOMAIN GithubResults(answers) = {ProgramKey} \cup RepoKeys
    BY DEF GithubResults
  <2> QED
    BY <2>1, <2>2, GithubGiven DEF Keys
<1>2. CASE RefreshAureon
  <2>1. PICK answers \in Answers({AureonKey}) :
          ObserveAll(AureonResults(answers, reading[<<AureonRepo, "main">>], previous, drop))
    BY <1>2 DEF RefreshAureon, AureonResults
  <2>2. \A main, before, prior :
          DOMAIN AureonResults(answers, main, before, prior) = {AureonKey} \cup ComputedKeys
    BY DEF AureonResults
  <2> QED
    BY <2>1, <2>2, AureonGiven DEF Keys
<1>3. CASE RefreshFeeds
  <2>1. PICK answers \in Answers(ConnectedKeys) : ObserveAll(FeedResults(answers, ConnectedKeys))
    BY <1>3 DEF RefreshFeeds, FeedResults
  <2>2. DOMAIN FeedResults(answers, ConnectedKeys) = ConnectedKeys
    BY DEF FeedResults
  <2> QED
    BY <2>1, <2>2, FeedsGiven, KeysOfSources DEF FetchedKeys
<1>4. CASE AbortRefresh
  <2>1. PICK answers \in Answers(ConnectedKeys) :
          ObserveAll(FeedResults(answers, ReadBeforeLifecycles))
    BY <1>4 DEF AbortRefresh, FeedResults
  <2>2. DOMAIN FeedResults(answers, ReadBeforeLifecycles) = ReadBeforeLifecycles
    BY DEF FeedResults
  <2>3. ReadBeforeLifecycles \subseteq ConnectedKeys
    BY DEF ReadBeforeLifecycles, ConnectedKeys
  <2> QED
    BY <2>1, <2>2, <2>3, FeedsGiven, KeysOfSources DEF FetchedKeys
<1> QED
  BY <1>1, <1>2, <1>3, <1>4

\* Whatever the refresh observes, the types hold (refresh_once).
LEMMA ObservationsTyped ==
  PictureInv /\ (RefreshGithub \/ RefreshAureon \/ RefreshFeeds \/ AbortRefresh) => PictureInv'
<1> SUFFICES ASSUME PictureInv, RefreshGithub \/ RefreshAureon \/ RefreshFeeds \/ AbortRefresh
             PROVE  PictureInv'
  OBVIOUS
<1>1. /\ DOMAIN reading' = Keys /\ DOMAIN good' = Keys /\ failed' \in BOOLEAN
      /\ \A key \in Keys : Kept(key, reading'[key])
  BY StepsObserve, ObservingTyped
<1>2. odd' \in BOOLEAN
  BY DEF RefreshGithub, RefreshAureon, RefreshFeeds, AbortRefresh, MarkOdd, PictureInv, TypeOK
<1>3. /\ UNCHANGED <<snapshot, clean, launched, stopping, workers>>
      /\ thread' \in ThreadPlaces /\ (elapsed' = elapsed \/ elapsed' = 0)
  BY DEF RefreshGithub, RefreshAureon, RefreshFeeds, AbortRefresh, ThreadPlaces, Refreshing
<1>4. 0 \in 0..(RefreshTicks + SlowestRefresh)
  BY RefresherAssumption
<1> QED
  BY <1>1, <1>2, <1>3, <1>4 DEF PictureInv, TypeOK, Kept

\* Publishing what was observed keeps the types (Snapshot).
LEMMA PublishTyped == PictureInv /\ Publish => PictureInv'
<1> SUFFICES ASSUME PictureInv, Publish PROVE PictureInv'
  OBVIOUS
<1>1. /\ snapshot'.obs = reading /\ snapshot'.refreshed = 0 /\ snapshot'.clean = clean'
      /\ clean' \in {clean, 0} /\ thread' = "asleep" /\ elapsed' = 0
      /\ UNCHANGED <<good, previous, drop, failed, reading, launched, stopping, workers, odd>>
  BY DEF Publish
<1>2. 0 \in Ages /\ "asleep" \in ThreadPlaces /\ 0 \in 0..(RefreshTicks + SlowestRefresh)
  BY AgesAre, RefresherAssumption DEF ThreadPlaces
<1> QED
  BY <1>1, <1>2 DEF PictureInv, TypeOK, Kept

\* Time passing keeps the types.
LEMMA TickTyped == PictureInv /\ Tick => PictureInv'
<1> SUFFICES ASSUME PictureInv, Tick PROVE PictureInv'
  OBVIOUS
<1>1. /\ snapshot'.obs = OlderObs(snapshot.obs) /\ snapshot'.refreshed = Older(snapshot.refreshed)
      /\ snapshot'.clean = Older(snapshot.clean) /\ clean' = Older(clean)
      /\ reading' = OlderObs(reading) /\ DOMAIN good' = Keys
      /\ odd' \in BOOLEAN /\ UNCHANGED <<failed, thread, launched, stopping, workers>>
  BY DEF Tick
<1>2. \A age \in Ages : Older(age) \in Ages
  BY RefresherAssumption, AgesAre DEF Older
<1>3. ASSUME NEW obs, \A key \in Keys : Kept(key, obs[key])
      PROVE  DOMAIN OlderObs(obs) = Keys /\ \A key \in Keys : Kept(key, OlderObs(obs)[key])
  BY <1>3, OlderKept DEF OlderObs
<1>4. /\ DOMAIN snapshot'.obs = Keys /\ DOMAIN reading' = Keys
      /\ \A key \in Keys : Kept(key, reading'[key]) /\ Kept(key, snapshot'.obs[key])
  BY <1>1, <1>3 DEF PictureInv
<1>5. {snapshot'.refreshed, snapshot'.clean, clean'} \subseteq Ages
  BY <1>1, <1>2 DEF PictureInv, TypeOK
<1>6. elapsed' \in 0..(RefreshTicks + SlowestRefresh)
  <2>1. elapsed \in 0..(RefreshTicks + SlowestRefresh)
    BY DEF PictureInv, TypeOK
  <2> QED
    BY <2>1, RefresherAssumption DEF Tick
<1> QED
  BY <1>1, <1>4, <1>5, <1>6 DEF PictureInv, TypeOK, Kept

\* The steps of the thread between two refreshes, of start() and of stop() keep
\* the types.
LEMMA LaunchTyped == PictureInv /\ (Wake \/ Launch \/ Stop \/ UNCHANGED vars) => PictureInv'
<1> SUFFICES ASSUME PictureInv, Wake \/ Launch \/ Stop \/ UNCHANGED vars PROVE PictureInv'
  OBVIOUS
<1>1. UNCHANGED <<snapshot, reading, good, clean>>
  BY DEF Wake, Launch, Request, TakeStartLock, MakeThread, LaunchThread, Stop, refresher, vars
<1>2. /\ failed' \in BOOLEAN /\ odd' \in BOOLEAN /\ stopping' \in BOOLEAN
      /\ thread' \in ThreadPlaces /\ (elapsed' = elapsed \/ elapsed' = 0)
  BY DEF Wake, Launch, Request, TakeStartLock, MakeThread, LaunchThread, Stop, refresher, vars,
         ThreadPlaces, Refreshing, PictureInv, TypeOK
<1>3. launched' \in Nat /\ workers' \in [Workers -> {"serving", "waiting", "starting", "launching"}]
  <2>1. launched \in Nat /\ workers \in [Workers -> {"serving", "waiting", "starting", "launching"}]
    BY DEF PictureInv, TypeOK
  <2>2. CASE Launch
    BY <2>1, <2>2 DEF Launch, Request, TakeStartLock, MakeThread, LaunchThread
  <2>3. CASE Wake \/ Stop \/ UNCHANGED vars
    BY <2>1, <2>3 DEF Wake, Stop, vars
  <2> QED
    BY <2>2, <2>3
<1>4. 0 \in 0..(RefreshTicks + SlowestRefresh)
  BY RefresherAssumption
<1> QED
  BY <1>1, <1>2, <1>3, <1>4 DEF PictureInv, TypeOK

LEMMA PictureKept == PictureInv /\ [Next]_vars => PictureInv'
BY ObservationsTyped, PublishTyped, TickTyped, LaunchTyped DEF Next, Refresh

LEMMA PictureStarts == Init => PictureInv
<1> SUFFICES ASSUME Init PROVE PictureInv
  OBVIOUS
<1>1. PICK answer \in MayAnswer(ProgramKey) :
        /\ reading = StartingObs(answer) /\ DOMAIN good = Keys
        /\ failed = (LoadProgram(answer).error # None)
  BY DEF Init
<1>2. ASSUME NEW key \in Keys PROVE Kept(key, reading[key])
  <2>1. CASE key # ProgramKey
    <3>1. reading[key] = Pending
      BY <1>1, <2>1 DEF StartingObs
    <3> QED
      BY <3>1, UnreadKept DEF Pending, ErrorClasses
  <2>2. CASE key = ProgramKey
    <3> DEFINE result == LoadProgram(answer)
    <3>1. reading[key] = [error |-> result.error, value |-> result.value,
                          age |-> result.age, last |-> None]
      BY <1>1, <2>2 DEF StartingObs
    <3>2. result = Failed("InvalidProgramFile") \/ result = Value(answer.value, 0)
      BY DEF LoadProgram
    <3>3. Given(key, result)
      BY <2>2, ProgramGiven
    <3>4. result.error # None => result.age = None /\ result.value = None
      BY <3>2 DEF Failed, Value
    <3> HIDE DEF result
    <3> QED
      BY <3>1, <3>3, <3>4, AgesAre DEF Given, Sound, Kept, WellFormed
  <2> QED
    BY <2>1, <2>2
<1>3. DOMAIN reading = Keys
  BY <1>1 DEF StartingObs
<1>4. /\ snapshot.obs = reading /\ {snapshot.refreshed, snapshot.clean, clean} = {None}
      /\ thread = "absent" /\ launched = 0 /\ stopping = FALSE /\ odd = FALSE /\ elapsed = 0
      /\ workers = [w \in Workers |-> "serving"]
  BY DEF Init
<1>5. 0 \in 0..(RefreshTicks + SlowestRefresh) /\ None \in Ages /\ "absent" \in ThreadPlaces
  BY RefresherAssumption, AgesAre DEF ThreadPlaces
<1> QED
  BY <1>1, <1>2, <1>3, <1>4, <1>5 DEF PictureInv, TypeOK, Kept

\* Every observation holds a current value with its date or an error class,
\* never both, whatever the sources answer and however refreshes fail, end
\* early and are repeated (observation.py, _observe).
THEOREM ObservationsWellFormed == Spec => []TypeOK
<1>1. PictureInv => TypeOK
  BY DEF PictureInv
<1> QED
  BY <1>1, PictureStarts, PictureKept, PTL DEF Spec

-----------------------------------------------------------------------------
(* What fails is never shown as green.                                      *)

Green == {"PASS", "HOLD", "OBSERVED"}

\* Among dispositions one of which is unknown, the worst is not green.
LEMMA UnknownIsNotGreen ==
  ASSUME NEW found, found \subseteq Dispositions, "INDETERMINATE" \in found
  PROVE  Worst(found) \notin Green
<1>1. Worst(found) \in Dispositions /\ Severity["INDETERMINATE"] <= Severity[Worst(found)]
  BY WorstIsWorst
<1>2. /\ Severity["PASS"] = 0 /\ Severity["HOLD"] = 1 /\ Severity["INDETERMINATE"] = 2
      /\ "OBSERVED" \notin Dispositions
  BY DEF Severity, Dispositions
<1> QED
  BY <1>1, <1>2 DEF Green

\* What a tile shows of a current value, and of anything else (_tile).
LEMMA TileShows ==
  ASSUME NEW s, NEW key
  PROVE  /\ Tile(s, key).current => /\ s.obs[key].error = None
                                    /\ Tile(s, key).shown = s.obs[key].value
                                    /\ Tile(s, key).badge = BadgeOf(key, s.obs[key].value)
         /\ ~Tile(s, key).current => Tile(s, key).badge = "INDETERMINATE"
         /\ ~IsCurrent(s.obs[key], Limit[key]) => ~Tile(s, key).current
<1>1. CASE IsCurrent(s.obs[key], Limit[key]) /\ s.obs[key].value # None
  BY <1>1 DEF Tile, IsCurrent, IsOk
<1>2. CASE ~(IsCurrent(s.obs[key], Limit[key]) /\ s.obs[key].value # None)
  BY <1>2 DEF Tile
<1> QED
  BY <1>1, <1>2

\* The badge of a feed that is not current is unknown, or says there is none.
LEMMA StaleBadge ==
  ASSUME NEW s, NEW name, ~IsCurrent(s.obs[Feed(name)], Limit[Feed(name)])
  PROVE  /\ FeedTile(s, name).badge = "INDETERMINATE"
         /\ SourceBadge(FeedTile(s, name)) \in {"INDETERMINATE", "ABSENT"}
BY TileShows DEF FeedTile, SourceBadge

\* Badges with an unknown one among them are not green together (_worst_row).
LEMMA UnknownBadges ==
  ASSUME NEW badges, "INDETERMINATE" \in badges
  PROVE  WorstBadge(badges) \notin Green
<1>1. /\ badges \cap Dispositions \subseteq Dispositions
      /\ "INDETERMINATE" \in badges \cap Dispositions
  BY DEF Dispositions
<1> QED
  BY <1>1, UnknownIsNotGreen DEF WorstBadge, WorstOr

\* The sections of the rail that rest on a feed (the rail of the page).
LEMMA SectionsFailClosed ==
  ASSUME NEW s, NEW section \in DOMAIN FeedSections, NEW name \in FeedSections[section],
         ~IsCurrent(s.obs[Feed(name)], Limit[Feed(name)])
  PROVE  Rail(s)[section] \notin Green
<1>1. section \in {"trades", "cash", "agents", "decisions", "advisories", "traceability"}
  BY DEF FeedSections
<1>2. SourceBadge(FeedTile(s, name)) \notin Green /\ FeedTile(s, name).badge = "INDETERMINATE"
  BY StaleBadge DEF Green
<1>3. CASE section = "trades"
  <2> DEFINE parts == {SourceBadge(FeedTile(s, f)) : f \in {"lifecycles", "breaks"}}
  <2>1. name \in {"lifecycles", "breaks"}
    BY <1>3 DEF FeedSections
  <2>2. "INDETERMINATE" \in parts \/ "ABSENT" \in parts
    BY <2>1, StaleBadge
  <2>3. TradesBadge(s) = IF "ABSENT" \in parts THEN "ABSENT" ELSE WorstBadge(parts)
    BY DEF TradesBadge
  <2> HIDE DEF parts
  <2>4. TradesBadge(s) \notin Green
    BY <2>2, <2>3, UnknownBadges DEF Green
  <2>5. Rail(s).trades = TradesBadge(s)
    BY DEF Rail, Sections
  <2> QED
    BY <1>3, <2>4, <2>5
<1>4. CASE section = "decisions"
  <2>1. name = "escalations"
    BY <1>4 DEF FeedSections
  <2>2. DecisionsBadge(s) \notin Green
    BY <1>2, <2>1, UnknownBadges DEF DecisionsBadge, Green
  <2>3. Rail(s).decisions = DecisionsBadge(s)
    BY DEF Rail, Sections
  <2> QED
    BY <1>4, <2>2, <2>3
<1>5. CASE section = "cash"
  <2>1. name = "cash_leg" /\ Rail(s).cash = SourceBadge(FeedTile(s, "cash_leg"))
    BY <1>5 DEF FeedSections, Rail, Sections
  <2> QED
    BY <1>2, <1>5, <2>1
<1>6. CASE section \in {"agents", "advisories", "traceability"}
  <2>1. name = section
    BY <1>6 DEF FeedSections
  <2>2. /\ Rail(s).agents = SourceBadge(FeedTile(s, "agents"))
        /\ Rail(s).advisories = SourceBadge(FeedTile(s, "advisories"))
        /\ Rail(s).traceability = SourceBadge(FeedTile(s, "traceability"))
    BY DEF Rail, Sections
  <2> QED
    BY <1>2, <1>6, <2>1, <2>2
<1> QED
  BY <1>1, <1>3, <1>4, <1>5, <1>6

\* A snapshot whose observations are well formed.
Readable(s) == \A key \in Keys : Kept(key, s.obs[key])

\* The reasons for the overall state are dispositions, part by part.
LEMMA RepoReasonsAre ==
  ASSUME NEW s, Readable(s), NEW repo \in Repositories
  PROVE  RepoReasons(s, repo) \subseteq Dispositions
<1> DEFINE tile(part) == Tile(s, <<repo, part>>)
<1>1. ASSUME NEW part \in {"main_ci", "scheduled"}, tile(part).current
      PROVE  /\ GoodContents(<<repo, part>>, tile(part).shown)
             /\ tile(part).badge = BadgeOf(<<repo, part>>, tile(part).shown)
  <2>1. <<repo, part>> \in Keys
    BY DEF Keys, RepoKeys, RepoParts
  <2> QED
    BY <1>1, <2>1, TileShows DEF Readable, Kept
<1>2. tile("main_ci").current => tile("main_ci").badge \in Dispositions
  <2> SUFFICES ASSUME tile("main_ci").current PROVE tile("main_ci").badge \in Dispositions
    OBVIOUS
  <2> DEFINE v == tile("main_ci").shown
  <2>1. GoodContents(<<repo, "main_ci">>, v) /\ tile("main_ci").badge = BadgeOf(<<repo, "main_ci">>, v)
    BY <1>1
  <2> HIDE DEF v
  <2>2. \A name : <<repo, "main_ci">> # Feed(name)
    BY DEF Feed
  <2>3. v \in Dispositions
    BY <2>1 DEF GoodContents
  <2>4. BadgeOf(<<repo, "main_ci">>, v) = v
    BY <2>2 DEF BadgeOf
  <2> QED
    BY <2>1, <2>3, <2>4
<1>3. tile("scheduled").current => tile("scheduled").shown \subseteq Dispositions
  BY <1>1 DEF GoodContents
<1>4. "INDETERMINATE" \in Dispositions
  BY DEF Dispositions
<1> QED
  BY <1>2, <1>3, <1>4 DEF RepoReasons, IfCurrent

LEMMA AureonReasonsAre ==
  ASSUME NEW s
  PROVE  AureonReasons(s) \subseteq Dispositions
<1>1. \A v : AureonFields(v) \subseteq Dispositions
  BY DEF AureonFields, StackBadge, Dispositions
<1>2. \A key \in {DriftKey, DropKey} :
        Tile(s, key).current => Tile(s, key).badge \in Dispositions
  <2> SUFFICES ASSUME NEW key \in {DriftKey, DropKey}, NEW v
               PROVE  BadgeOf(key, v) \in Dispositions
    BY TileShows
  <2>1. \A name : key # Feed(name)
    BY DEF DriftKey, DropKey, Feed
  <2> QED
    BY <2>1 DEF BadgeOf, DriftKey, DropKey, HoldIf, Dispositions
<1>3. "INDETERMINATE" \in Dispositions
  BY DEF Dispositions
<1> QED
  BY <1>1, <1>2, <1>3 DEF AureonReasons, IfCurrent

LEMMA FeedReasonsAre ==
  ASSUME NEW s, Readable(s)
  PROVE  AgentsReasons(s) \cup AdvisoryReasons(s) \cup LifecycleReasons(s) \subseteq Dispositions
<1>1. ASSUME NEW name \in FeedNames, FeedTile(s, name).current
      PROVE  GoodContents(Feed(name), FeedTile(s, name).shown)
  <2>1. Feed(name) \in Keys
    BY DEF Keys, FeedKeys
  <2> QED
    BY <1>1, <2>1, TileShows DEF Readable, Kept, FeedTile
<1>2. {"agents", "advisories", "lifecycles"} \subseteq FeedNames
  BY DEF FeedNames
<1>3. {"INDETERMINATE", "BLOCK"} \subseteq Dispositions
  BY DEF Dispositions
<1>4. AgentsReasons(s) \subseteq Dispositions
  <2>1. FeedTile(s, "agents").current =>
          \A a \in FeedTile(s, "agents").shown.rows : a.disposition \in Dispositions
    BY <1>1, <1>2 DEF GoodContents
  <2> QED
    BY <1>3, <2>1 DEF AgentsReasons, AgentBadge
<1>5. AdvisoryReasons(s) \subseteq Dispositions
  BY <1>1, <1>2, <1>3 DEF AdvisoryReasons, GoodContents
<1>6. LifecycleReasons(s) \subseteq Dispositions
  BY <1>1, <1>2, <1>3 DEF LifecycleReasons, GoodContents
<1> QED
  BY <1>4, <1>5, <1>6

\* The overall state when something it is found from is not current
\* (overall_state): whatever it is, it gives the reason "unknown".
LEMMA OverallUnknown ==
  ASSUME NEW s, Readable(s), NEW key \in OverallKeys, ~IsCurrent(s.obs[key], Limit[key])
  PROVE  Overall(s) \notin Green
<1> DEFINE repos == UNION {RepoReasons(s, repo) : repo \in Repositories}
           found == ProgramReasons(s) \cup AureonReasons(s) \cup AgentsReasons(s)
                      \cup AdvisoryReasons(s) \cup LifecycleReasons(s) \cup repos
<1>1. found \subseteq Dispositions
  <2>1. ProgramReasons(s) \subseteq Dispositions
    BY DEF ProgramReasons, IfCurrent, Dispositions
  <2> QED
    BY <2>1, RepoReasonsAre, AureonReasonsAre, FeedReasonsAre
<1>2. ~Tile(s, key).current
  BY TileShows
<1>3. "INDETERMINATE" \in found
  <2>1. CASE key = ProgramKey
    BY <1>2, <2>1 DEF ProgramReasons, IfCurrent
  <2>2. CASE key \in {AureonKey, DriftKey, DropKey}
    BY <1>2, <2>2 DEF AureonReasons, IfCurrent
  <2>3. CASE key \in {Feed("agents"), Feed("advisories"), Feed("lifecycles")}
    BY <1>2, <2>3 DEF AgentsReasons, AdvisoryReasons, LifecycleReasons, FeedTile
  <2>4. CASE key \in RepoKeys
    <3>1. PICK repo \in Repositories, part \in RepoParts : key = <<repo, part>>
      BY <2>4 DEF RepoKeys
    <3>2. "INDETERMINATE" \in RepoReasons(s, repo)
      BY <1>2, <3>1 DEF RepoReasons, IfCurrent, RepoParts
    <3>3. "INDETERMINATE" \in repos
      BY <3>2
    <3> QED
      BY <3>3
  <2> QED
    BY <2>1, <2>2, <2>3, <2>4 DEF OverallKeys
<1>4. Overall(s) = WorstOr(found, "PASS")
  BY DEF Overall
<1> HIDE DEF found
<1> QED
  BY <1>1, <1>3, <1>4, UnknownIsNotGreen DEF WorstOr

\* A source that failed, or whose answer is too old, leaves no section that
\* rests on it greener than unknown, nor the overall state if it is one of those
\* that is found from, for any answers the readers let through (overall_state,
\* the rail).
THEOREM StaleIsNeverGreen == Spec => []FailsClosed
<1>1. PictureInv => FailsClosed
  <2> SUFFICES ASSUME PictureInv PROVE FailsClosed
    OBVIOUS
  <2>1. Readable(snapshot)
    BY DEF PictureInv, Readable
  <2>2. Rail(snapshot).now = Overall(snapshot)
    BY DEF Rail, Sections
  <2> QED
    BY <2>1, <2>2, SectionsFailClosed, OverallUnknown DEF FailsClosed, Green
<1> QED
  BY <1>1, PictureStarts, PictureKept, PTL DEF Spec

\* An entry of the health report is configured when all its readings are current.
LEMMA ConfiguredMeans ==
  ASSUME NEW s, NEW keys
  PROVE  HealthSource(s, keys) = "configured" <=>
           \A key \in keys : IsCurrent(s.obs[key], Limit[key])
<1>1. None # "NotConfigured"
  BY AnswerAssumption DEF ErrorClasses
<1>2. \A key : IsCurrent(s.obs[key], Limit[key]) =>
                 IsOk(s.obs[key]) /\ s.obs[key].error # "NotConfigured"
  BY <1>1 DEF IsCurrent, IsOk
<1>3. CASE \A key \in keys : IsCurrent(s.obs[key], Limit[key])
  BY <1>2, <1>3 DEF HealthSource
<1>4. CASE ~\A key \in keys : IsCurrent(s.obs[key], Limit[key])
  BY <1>4 DEF HealthSource
<1> QED
  BY <1>3, <1>4

\* The page and /healthz agree on every entry of the report, whatever the
\* sources answer and the limits are: what the report calls configured is in no
\* warning and no blind spot of the page, of anything else the page shows
\* something as not current, and a green overall state leaves no entry it is
\* found from failing, stale or not configured.
THEOREM PageAgreesWithHealth == Spec => []HealthAgrees
<1>1. PictureInv => HealthAgrees
  <2> SUFFICES ASSUME PictureInv PROVE HealthAgrees
    OBVIOUS
  <2> DEFINE fresh(key) == IsCurrent(snapshot.obs[key], Limit[key])
             shown(key) == IF key = Feed("layer_clock") THEN fresh(key)
                           ELSE Tile(snapshot, key).current
             blind      == NotConnected(snapshot) \cup NotAnswering(snapshot)
             stale      == UNION StaleSources(snapshot)
             warned     == NotConnected(snapshot) \cup NotAnswering(snapshot) \cup stale
             health     == Health(snapshot)
  <2>1. ASSUME NEW entry \in DOMAIN HealthGroups
        PROVE  health[entry] = "configured" <=> \A key \in HealthGroups[entry] : fresh(key)
    BY ConfiguredMeans DEF Health
  <2>2. ASSUME NEW entry \in DOMAIN HealthGroups, health[entry] = "configured",
               NEW key \in HealthGroups[entry]
        PROVE  key \notin warned
    <3>1. \A other \in HealthGroups[entry] : fresh(other)
      BY <2>1, <2>2
    <3>2. /\ None # "NotConfigured"
          /\ snapshot.obs[key].error = None
      BY <3>1, AnswerAssumption DEF IsCurrent, IsOk, ErrorClasses
    <3>3. key \notin blind
      BY <3>1, <3>2 DEF NotConnected, NotAnswering
    <3>4. \A other : fresh(other) /\ Limit[other] # None => ~TooOld(snapshot, other)
      BY DEF TooOld, GoodAge, IsCurrent, IsOk
    <3>5. ASSUME NEW repo \in Repositories, NEW part \in RepoParts,
                 TooOld(snapshot, <<repo, part>>)
          PROVE  key \notin {repo} \X RepoParts
      <4>1. <<repo, part>> \in RepoKeys
        BY DEF RepoKeys
      <4>2. Limit[<<repo, part>>] # None
        BY <4>1, LimitAssumption
      <4>3. ~fresh(<<repo, part>>)
        BY <3>4, <3>5, <4>2
      <4>4. entry # "github"
        BY <3>1, <4>1, <4>3 DEF HealthGroups
      <4>5. key[2] \notin RepoParts
        BY <4>4 DEF HealthGroups, RepoParts, ProgramKey, AureonKey, Feed
      <4> QED
        BY <4>5
    <3>6. \A other \in {AureonKey, Feed("agents"), Feed("layer_clock")} :
            TooOld(snapshot, other) => key # other
      BY <3>1, <3>4, LimitAssumption
    <3>7. key \notin stale
      BY <3>5, <3>6 DEF StaleSources
    <3> QED
      BY <3>3, <3>7
  <2>3. ASSUME NEW entry \in DOMAIN HealthGroups, health[entry] # "configured"
        PROVE  \E key \in HealthGroups[entry] : ~shown(key)
    <3>1. PICK key \in HealthGroups[entry] : ~fresh(key)
      BY <2>1, <2>3
    <3>2. ~shown(key)
      BY <3>1, TileShows
    <3> QED
      BY <3>2
  <2>4. ASSUME Overall(snapshot) = "PASS",
               NEW entry \in DOMAIN HealthGroups, HealthGroups[entry] \subseteq OverallKeys
        PROVE  health[entry] = "configured"
    <3>1. Readable(snapshot)
      BY DEF PictureInv, Readable
    <3>2. Overall(snapshot) \in Green
      BY <2>4 DEF Green
    <3>3. \A key \in HealthGroups[entry] : fresh(key)
      BY <2>4, <3>1, <3>2, OverallUnknown
    <3> QED
      BY <2>1, <3>3
  <2>5. ASSUME NEW entry \in DOMAIN HealthGroups, health[entry] = "configured"
        PROVE  HealthGroups[entry] \cap warned = {}
    BY <2>2, <2>5
  <2>6. \A entry \in DOMAIN HealthGroups :
          IF health[entry] = "configured"
          THEN HealthGroups[entry] \cap warned = {}
          ELSE \E key \in HealthGroups[entry] : ~shown(key)
    BY <2>3, <2>5
  <2> QED
    BY ONLY <2>4, <2>6 DEF HealthAgrees
<1> QED
  BY <1>1, PictureStarts, PictureKept, PTL DEF Spec

-----------------------------------------------------------------------------
(* The last clean refresh.                                                  *)

\* Whether an observation says that its source answered, a pull request's two
\* readings included.
AnsweredIn(key, o) ==
  /\ o.error = None
  /\ key \in RepoKeys /\ key[2] = "pulls" =>
       \A p \in o.value : p.checks.error = None /\ p.merge.error = None

\* The sources a refresh has asked when it gets to a place.
AskedBefore(place) ==
  CASE place = "aureon"  -> {ProgramKey} \cup RepoKeys
    [] place = "feeds"   -> {ProgramKey, AureonKey} \cup RepoKeys
    [] place = "publish" -> FetchedKeys
    [] OTHER             -> {}

\* A refresh knows of each source it has asked whether it answered, and until
\* it publishes no refresh was clean in this tick.
CleanInv ==
  /\ thread \in {"absent", "made", "ready"} => clean = None
  /\ thread \in Refreshing \/ (thread = "asleep" /\ elapsed > 0) => clean # 0 \/ OldestAge = 0
  /\ thread \in Refreshing =>
       (failed <=> \E key \in AskedBefore(thread) : ~AnsweredIn(key, reading[key]))
  /\ CleanMeansAnswered

\* The page's clean refresh, source by source.
LEMMA AllAnswered ==
  ASSUME NEW obs, \A key \in Keys : Kept(key, obs[key])
  PROVE  (\A key \in FetchedKeys : AnsweredIn(key, obs[key])) <=>
           /\ \A key \in FetchedKeys : IsOk(obs[key])
           /\ \A repo \in Repositories : \A p \in obs[<<repo, "pulls">>].value :
                p.checks.error = None /\ p.merge.error = None
<1>1. \A key \in FetchedKeys : IsOk(obs[key]) <=> obs[key].error = None
  BY KeysOfSources DEF Kept, WellFormed, IsOk
<1>2. \A key : key \in RepoKeys /\ key[2] = "pulls" <=>
                 \E repo \in Repositories : key = <<repo, "pulls">>
  BY DEF RepoKeys, RepoParts
<1>3. \A repo \in Repositories : <<repo, "pulls">> \in FetchedKeys
  BY <1>2 DEF FetchedKeys
<1> QED
  BY <1>1, <1>2, <1>3 DEF AnsweredIn

\* What a refresh has failed at, counted as it asks further sources
\* (_source_failed).
LEMMA ObservingCounts ==
  ASSUME NEW done \in SUBSET FetchedKeys, NEW results, DOMAIN results \subseteq Keys,
         done \cap DOMAIN results = {}, ObserveAll(results),
         failed <=> \E key \in done : ~AnsweredIn(key, reading[key])
  PROVE  failed' <=> \E key \in done \cup (DOMAIN results \ ComputedKeys) :
                       ~AnsweredIn(key, reading'[key])
<1>1. ASSUME NEW key \in done PROVE reading'[key] = reading[key]
  BY <1>1, KeysOfSources DEF ObserveAll
<1>2. ASSUME NEW key \in DOMAIN results \ ComputedKeys
      PROVE  SourceFailed(key, results[key]) <=> ~AnsweredIn(key, reading'[key])
  <2>1. reading'[key] = Observed(key, results[key])
    BY <1>2 DEF ObserveAll
  <2>2. reading'[key].error = results[key].error
    BY <2>1, ObservedFields
  <2>3. results[key].error = None => reading'[key].value = results[key].value
    BY <2>1 DEF Observed
  <2> QED
    BY <2>2, <2>3 DEF SourceFailed, AnsweredIn
<1>3. \A key \in ComputedKeys : ~SourceFailed(key, results[key])
  BY DEF SourceFailed
<1>4. failed' <=> failed \/ \E key \in DOMAIN results : SourceFailed(key, results[key])
  BY DEF ObserveAll
<1> QED
  BY <1>1, <1>2, <1>3, <1>4

\* A step of the refresh asks the sources between two places.
LEMMA StepsCount ==
  ASSUME CleanInv, RefreshGithub \/ RefreshAureon \/ RefreshFeeds
  PROVE  failed' <=> \E key \in AskedBefore(thread') : ~AnsweredIn(key, reading'[key])
<1>1. failed <=> \E key \in AskedBefore(thread) : ~AnsweredIn(key, reading[key])
  BY DEF CleanInv, RefreshGithub, RefreshAureon, RefreshFeeds, Refreshing
<1>2. AskedBefore(thread) \subseteq FetchedKeys
  BY DEF AskedBefore, FetchedKeys
<1>3. \E results :
        /\ ObserveAll(results) /\ DOMAIN results \subseteq Keys
        /\ AskedBefore(thread) \cap DOMAIN results = {}
        /\ AskedBefore(thread') = AskedBefore(thread) \cup (DOMAIN results \ ComputedKeys)
  <2>1. CASE RefreshGithub
    <3>1. PICK answers \in Answers({ProgramKey} \cup RepoKeys) : ObserveAll(GithubResults(answers))
      BY <2>1 DEF RefreshGithub, GithubResults
    <3>2. DOMAIN GithubResults(answers) = {ProgramKey} \cup RepoKeys
      BY DEF GithubResults
    <3>3. AskedBefore(thread) = {} /\ AskedBefore(thread') = {ProgramKey} \cup RepoKeys
      BY <2>1 DEF RefreshGithub, AskedBefore
    <3>4. ({ProgramKey} \cup RepoKeys) \cap ComputedKeys = {}
      BY KeysOfSources DEF FetchedKeys
    <3> QED
      BY <3>1, <3>2, <3>3, <3>4 DEF Keys
  <2>2. CASE RefreshAureon
    <3> DEFINE results(answers) ==
                 AureonResults(answers, reading[<<AureonRepo, "main">>], previous, drop)
    <3>1. PICK answers \in Answers({AureonKey}) : ObserveAll(results(answers))
      BY <2>2 DEF RefreshAureon, AureonResults
    <3>2. DOMAIN results(answers) = {AureonKey} \cup ComputedKeys
      BY DEF AureonResults
    <3>3. /\ AskedBefore(thread) = {ProgramKey} \cup RepoKeys
          /\ AskedBefore(thread') = {ProgramKey, AureonKey} \cup RepoKeys
      BY <2>2 DEF RefreshAureon, AskedBefore
    <3>4. /\ ({ProgramKey} \cup RepoKeys) \cap ({AureonKey} \cup ComputedKeys) = {}
          /\ AureonKey \notin ComputedKeys
      BY KeysOfSources, AureonKeys DEF FetchedKeys
    <3> HIDE DEF results
    <3> QED
      BY <3>1, <3>2, <3>3, <3>4 DEF Keys
  <2>3. CASE RefreshFeeds
    <3>1. PICK answers \in Answers(ConnectedKeys) : ObserveAll(FeedResults(answers, ConnectedKeys))
      BY <2>3 DEF RefreshFeeds, FeedResults
    <3>2. DOMAIN FeedResults(answers, ConnectedKeys) = ConnectedKeys
      BY DEF FeedResults
    <3>3. /\ AskedBefore(thread) = {ProgramKey, AureonKey} \cup RepoKeys
          /\ AskedBefore(thread') = FetchedKeys
      BY <2>3 DEF RefreshFeeds, AskedBefore
    <3>4. ({ProgramKey, AureonKey} \cup RepoKeys) \cap ConnectedKeys = {}
      <4>1. \A key \in ConnectedKeys : key[2] = "feed"
        BY DEF ConnectedKeys, Feed
      <4>2. \A key \in {ProgramKey, AureonKey} \cup RepoKeys : key[2] # "feed"
        BY DEF ProgramKey, AureonKey, RepoKeys, RepoParts
      <4> QED
        BY <4>1, <4>2
    <3> QED
      BY <3>1, <3>2, <3>3, <3>4, KeysOfSources DEF FetchedKeys
  <2> QED
    BY <2>1, <2>2, <2>3
<1> QED
  BY <1>1, <1>2, <1>3, ObservingCounts

\* Publishing dates the snapshot, and dates it clean when nothing failed.
LEMMA PublishKeepsClean == PictureInv /\ CleanInv /\ Publish => CleanInv'
<1> SUFFICES ASSUME PictureInv, CleanInv, Publish PROVE CleanInv'
  OBVIOUS
<1>1. /\ thread = "publish" /\ thread' = "asleep" /\ elapsed' = 0
      /\ clean' = IF failed THEN clean ELSE 0
      /\ snapshot'.obs = reading /\ snapshot'.refreshed = 0 /\ snapshot'.clean = clean'
  BY DEF Publish
<1>2. failed <=> \E key \in FetchedKeys : ~AnsweredIn(key, reading[key])
  BY <1>1 DEF CleanInv, AskedBefore, Refreshing
<1>3. clean # 0 \/ OldestAge = 0
  BY <1>1 DEF CleanInv, Refreshing
<1>4. \A key \in Keys : Kept(key, reading[key])
  BY DEF PictureInv
<1>5. ~failed <=>
        /\ \A key \in FetchedKeys : IsOk(reading[key])
        /\ \A repo \in Repositories : \A p \in reading[<<repo, "pulls">>].value :
             p.checks.error = None /\ p.merge.error = None
  BY <1>2, <1>4, AllAnswered
<1>6. CleanMeansAnswered'
  <2>1. CASE OldestAge = 0
    BY <1>1, <2>1 DEF CleanMeansAnswered
  <2>2. CASE clean # 0
    <3>1. snapshot'.clean = snapshot'.refreshed <=> ~failed
      BY <1>1, <2>2
    <3> QED
      BY <1>1, <1>5, <3>1 DEF CleanMeansAnswered
  <2> QED
    BY <1>3, <2>1, <2>2
<1> QED
  BY <1>1, <1>6 DEF CleanInv, Refreshing

\* Two ages that are below the oldest that is told apart are equal after a tick
\* when they were before.
LEMMA AgesApart ==
  ASSUME NEW a \in Ages, NEW b \in Ages, Older(a) \notin {None, OldestAge}
  PROVE  /\ a \notin {None, OldestAge}
         /\ Older(b) = Older(a) <=> b = a
<1>1. OldestAge \in Nat
  BY RefresherAssumption
<1>2. a \in 0..OldestAge /\ a # OldestAge /\ Older(a) = a + 1 /\ a + 1 < OldestAge
  <2>1. a # None /\ a # OldestAge
    BY DEF Older
  <2>2. Older(a) = a + 1 /\ a \in 0..OldestAge
    BY <2>1, AgesAre DEF Older
  <2> QED
    BY <1>1, <2>1, <2>2
<1>3. CASE b = None
  BY <1>1, <1>2, <1>3, AgesAre DEF Older
<1>4. CASE b = OldestAge
  BY <1>1, <1>2, <1>4, AgesAre DEF Older
<1>5. CASE b \in 0..OldestAge /\ b # OldestAge
  <2>1. Older(b) = b + 1
    BY <1>5, AgesAre DEF Older
  <2> QED
    BY <1>1, <1>2, <1>5, <2>1, AgesAre
<1> QED
  BY <1>3, <1>4, <1>5, AgesAre

\* Time passing changes no answer, and takes the clean refresh out of this tick.
LEMMA TickKeepsClean == PictureInv /\ CleanInv /\ Tick => CleanInv'
<1> SUFFICES ASSUME PictureInv, CleanInv, Tick PROVE CleanInv'
  OBVIOUS
<1>1. /\ snapshot'.obs = OlderObs(snapshot.obs) /\ snapshot'.refreshed = Older(snapshot.refreshed)
      /\ snapshot'.clean = Older(snapshot.clean) /\ clean' = Older(clean)
      /\ reading' = OlderObs(reading) /\ thread' = thread /\ failed' = failed
  BY DEF Tick
<1>2. \A obs : \A key \in Keys : /\ OlderObs(obs)[key].error = obs[key].error
                                 /\ OlderObs(obs)[key].value = obs[key].value
  BY DEF OlderObs
<1>3. \A obs : \A key \in FetchedKeys :
        AnsweredIn(key, OlderObs(obs)[key]) <=> AnsweredIn(key, obs[key])
  BY <1>2, KeysOfSources DEF AnsweredIn
<1>4. AskedBefore(thread) \subseteq FetchedKeys
  BY DEF AskedBefore, FetchedKeys
<1>5. thread' \in Refreshing =>
        (failed' <=> \E key \in AskedBefore(thread') : ~AnsweredIn(key, reading'[key]))
  BY <1>1, <1>3, <1>4 DEF CleanInv
<1>6. clean = None => clean' = None
  BY <1>1 DEF Older
<1>7. clean' # 0 \/ OldestAge = 0
  <2>1. clean \in Ages
    BY DEF PictureInv, TypeOK
  <2> QED
    BY <1>1, <2>1, RefresherAssumption, AgesAre DEF Older
<1>8. CleanMeansAnswered'
  <2> SUFFICES ASSUME snapshot'.refreshed \notin {None, OldestAge}
               PROVE  snapshot'.clean = snapshot'.refreshed <=>
                        /\ \A key \in FetchedKeys : IsOk(snapshot'.obs[key])
                        /\ \A repo \in Repositories :
                             \A p \in snapshot'.obs[<<repo, "pulls">>].value :
                               p.checks.error = None /\ p.merge.error = None
    BY DEF CleanMeansAnswered
  <2>1. snapshot.refreshed \in Ages /\ snapshot.clean \in Ages
    BY DEF PictureInv, TypeOK
  <2>2. /\ snapshot.refreshed \notin {None, OldestAge}
        /\ snapshot'.clean = snapshot'.refreshed <=> snapshot.clean = snapshot.refreshed
    BY <1>1, <2>1, AgesApart
  <2>3. \A key \in Keys : Kept(key, snapshot.obs[key])
    BY DEF PictureInv
  <2>4. \A key \in Keys : Kept(key, snapshot'.obs[key])
    BY TickTyped DEF PictureInv
  <2>5. snapshot.clean = snapshot.refreshed <=>
          \A key \in FetchedKeys : AnsweredIn(key, snapshot.obs[key])
    BY <2>2, <2>3, AllAnswered DEF CleanInv, CleanMeansAnswered
  <2>6. snapshot'.clean = snapshot'.refreshed <=>
          \A key \in FetchedKeys : AnsweredIn(key, snapshot'.obs[key])
    BY <1>1, <1>3, <2>2, <2>5
  <2> QED
    BY <2>4, <2>6, AllAnswered
<1> QED
  BY <1>1, <1>5, <1>6, <1>7, <1>8 DEF CleanInv

\* Between two refreshes the thread sleeps at least a tick (_run).
LEMMA LaunchKeepsClean ==
  PictureInv /\ StartInv /\ CleanInv /\ (Wake \/ Launch \/ Stop \/ UNCHANGED vars) => CleanInv'
<1> SUFFICES ASSUME PictureInv, StartInv, CleanInv, Wake \/ Launch \/ Stop \/ UNCHANGED vars
             PROVE  CleanInv'
  OBVIOUS
<1>1. UNCHANGED <<snapshot, reading, clean>>
  BY DEF Wake, Launch, Request, TakeStartLock, MakeThread, LaunchThread, Stop, refresher, vars
<1>2. CleanMeansAnswered'
  BY <1>1 DEF CleanInv, CleanMeansAnswered
<1>3. None # 0
  BY AnswerAssumption
<1>4. CASE Wake /\ stopping
  <2>1. thread' = "ended"
    BY <1>4 DEF Wake
  <2> QED
    BY <1>2, <2>1 DEF CleanInv, Refreshing
<1>5. CASE Wake /\ ~stopping
  <2>1. thread' = "github" /\ failed' = FALSE
    BY <1>5 DEF Wake
  <2>2. thread = "ready" \/ (thread = "asleep" /\ elapsed > 0)
    <3>1. thread = "ready" \/ (thread = "asleep" /\ elapsed >= RefreshTicks)
      BY <1>5 DEF Wake, Runnable, Refreshing
    <3>2. elapsed \in Nat /\ RefreshTicks \in Nat /\ RefreshTicks > 0
      BY RefresherAssumption DEF PictureInv, TypeOK
    <3> QED
      BY <3>1, <3>2
  <2>3. clean # 0 \/ OldestAge = 0
    BY <1>3, <2>2 DEF CleanInv
  <2>4. AskedBefore(thread') = {}
    BY <2>1 DEF AskedBefore
  <2> QED
    BY <1>1, <1>2, <2>1, <2>3, <2>4 DEF CleanInv
<1>6. CASE Stop \/ UNCHANGED vars
  <2>1. UNCHANGED <<thread, failed, elapsed>>
    BY <1>6 DEF Stop, refresher, vars
  <2> QED
    BY <1>1, <1>2, <2>1 DEF CleanInv
<1>7. CASE Launch
  <2>1. PICK w \in Workers : Request(w) \/ TakeStartLock(w) \/ MakeThread(w) \/ LaunchThread(w)
    BY <1>7 DEF Launch
  <2>2. CASE Request(w) \/ TakeStartLock(w)
    <3>1. UNCHANGED <<thread, failed, elapsed>>
      BY <2>2 DEF Request, TakeStartLock, refresher
    <3> QED
      BY <1>1, <1>2, <3>1 DEF CleanInv
  <2>3. CASE MakeThread(w) \/ LaunchThread(w)
    <3>1. thread \in {"absent", "made"} /\ thread' \in {"made", "ready"}
      BY <2>3 DEF MakeThread, LaunchThread, StartInv
    <3> QED
      BY <1>1, <1>2, <3>1 DEF CleanInv, Refreshing
  <2> QED
    BY <2>1, <2>2, <2>3
<1> QED
  BY <1>4, <1>5, <1>6, <1>7

LEMMA CleanKept == PictureInv /\ StartInv /\ CleanInv /\ [Next]_vars => CleanInv'
<1> SUFFICES ASSUME PictureInv, StartInv, CleanInv, [Next]_vars PROVE CleanInv'
  OBVIOUS
<1>1. CASE RefreshGithub \/ RefreshAureon \/ RefreshFeeds
  <2>1. /\ UNCHANGED <<snapshot, clean>> /\ thread \in Refreshing
        /\ thread' \in {"aureon", "feeds", "publish"}
    BY <1>1 DEF RefreshGithub, RefreshAureon, RefreshFeeds, Refreshing
  <2>2. failed' <=> \E key \in AskedBefore(thread') : ~AnsweredIn(key, reading'[key])
    BY <1>1, StepsCount
  <2> QED
    BY <2>1, <2>2 DEF CleanInv, CleanMeansAnswered, Refreshing
<1>2. CASE AbortRefresh
  <2>1. UNCHANGED <<snapshot, clean>> /\ thread' = "asleep" /\ elapsed' = 0
    BY <1>2 DEF AbortRefresh
  <2> QED
    BY <2>1 DEF CleanInv, CleanMeansAnswered, Refreshing
<1> QED
  BY <1>1, <1>2, PublishKeepsClean, TickKeepsClean, LaunchKeepsClean DEF Next, Refresh

\* The page dates a refresh as clean exactly when every source that is connected
\* answered in it, for any sources and answers, whatever fails, ends early or is
\* repeated (_source_failed, _last_clean_refresh_at).
THEOREM CleanIsAnswered == Spec => []CleanMeansAnswered
<1>1. Init => PictureInv /\ StartInv /\ CleanInv
  <2> SUFFICES ASSUME Init PROVE PictureInv /\ StartInv /\ CleanInv
    OBVIOUS
  <2>1. thread = "absent" /\ clean = None /\ snapshot.refreshed = None
    BY DEF Init
  <2>2. CleanInv
    BY <2>1 DEF CleanInv, CleanMeansAnswered, Refreshing
  <2>3. StartInv
    BY DEF Init, StartInv
  <2> QED
    BY <2>2, <2>3, PictureStarts
<1>2. PictureInv /\ StartInv /\ CleanInv /\ [Next]_vars => (PictureInv /\ StartInv /\ CleanInv)'
  BY PictureKept, CleanKept, WorkLeavesStart, LaunchKeepsStart DEF Next
<1>3. CleanInv => CleanMeansAnswered
  BY DEF CleanInv
<1> QED
  BY <1>1, <1>2, <1>3, PTL DEF Spec
=============================================================================
