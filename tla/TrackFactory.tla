---------------------------- MODULE TrackFactory ----------------------------
(* TrackFactory: what is deployed on the file system, the list of it, which  *)
(* is cached for a while, and the map of the tracks that have been loaded.   *)
(* Threads of the web application and the StartGoalActor call it at the same *)
(* time and nothing is synchronised, so a call is several steps; loading a   *)
(* track schedules it.  A version may be deployed again, with other code:    *)
(* its revision.  Any access to the file system may fail.                    *)
EXTENDS TrackScheduler

CONSTANTS
  MaxAge,      \* of the cached list; half an hour
  MaxFetch,    \* how long a call may be inside the cache's get, listing the files
  MaxTime,     \* bound: the clock
  MaxRevision, \* bound: deployments of a version
  NoList, NoTrack

ASSUME FactoryConstants ==
  /\ MaxAge \in Nat /\ MaxFetch \in Nat /\ MaxFetch < MaxAge
  /\ MaxTime \in Nat /\ MaxRevision \in Nat \ {0}

VARIABLES
  now,
  revision,      \* track -> version -> what is deployed; 0 when nothing is
  deployedAt,    \* when a version was first deployed
  cached,        \* _cachedAllTracks._cached: the descriptors found
  lastAccessed,  \* its _lastAccessed
  trackMap,      \* _trackMap: the Track objects by descriptor
  toInitialize,  \* the tracks initializeAllTracks has yet to load
  call,          \* what each caller is doing, one of Calls
  began,         \* when it called the cache's get, while it is in it
  hand,          \* the list it has in hand there: read, or listed and not stored
  object         \* the Track object it has in hand, and returns, as it was when
                 \* it was taken from the map

deployVars == <<now, revision, deployedAt>>
factoryVars ==
  <<cached, lastAccessed, trackMap, toInitialize, call, began, hand, object>>
vars == <<schedulerVars, deployVars, factoryVars>>

\* A Track object: what it was loaded from, by whom, and whether initializeTrack
\* has set its properties and path.
Object(r, c, ready) == [revision |-> r, loader |-> c, ready |-> ready]

Calls == {"getLatestTrack", "refreshTrack", "initializeAllTracks"}

\* Where a caller is in the cache's get.
Getting == {"reading", "testing", "listing", "storing", "fetched"}

Deployed == {d \in Descriptors : d.version # LATEST /\ revision[d.track][d.version] > 0}
Loaded(d) == trackMap[d] # NoTrack

Init ==
  /\ SchedulerInit
  /\ now = 0
  /\ revision = [t \in Tracks |-> [v \in Versions |-> IF v = 1 THEN 1 ELSE 0]]
  /\ deployedAt = [t \in Tracks |-> [v \in Versions |-> 0]]
  /\ cached = NoList /\ lastAccessed = 0
  /\ trackMap = [d \in Descriptors |-> NoTrack]
  /\ toInitialize = Tracks
  /\ call = [c \in Callers |-> "none"]
  /\ began = [c \in Callers |-> 0]
  /\ hand = [c \in Callers |-> NoList]
  /\ object = [c \in Callers |-> NoTrack]
-----------------------------------------------------------------------------
\* sbt-satisfy uploads a version, the next one or one that is there already.
Upload(t, v) ==
  /\ \A w \in Versions : w < v => revision[t][w] > 0
  /\ revision[t][v] < MaxRevision
  /\ revision' = [revision EXCEPT ![t][v] = @ + 1]
  /\ deployedAt' = IF revision[t][v] = 0
                   THEN [deployedAt EXCEPT ![t][v] = now] ELSE deployedAt
  /\ UNCHANGED <<schedulerVars, now, factoryVars>>

\* No listing takes longer than MaxFetch.
Tick ==
  /\ now < MaxTime
  /\ \A c \in Callers : pc[c] \in Getting => now < began[c] + MaxFetch
  /\ now' = now + 1
  /\ UNCHANGED <<schedulerVars, revision, deployedAt, factoryVars>>

Begin(c, t, what) ==
  /\ pc' = [pc EXCEPT ![c] = "reading"]
  /\ target' = [target EXCEPT ![c] = Descriptor(t, LATEST)]
  /\ call' = [call EXCEPT ![c] = what]
  /\ began' = [began EXCEPT ![c] = now]
  /\ UNCHANGED <<hand, object>>

\* When the application starts, one thread loads the latest version of every
\* track; pages are served after that.  The order is that of the list.
InitializeAllTracks(c, t) ==
  /\ \A d \in Callers \ {Starter} : pc[d] = "idle"
  /\ c # Starter /\ t \in toInitialize
  /\ toInitialize' = toInitialize \ {t}
  /\ Begin(c, t, "initializeAllTracks")
  /\ UNCHANGED <<scheduleMap, jobs, quartzBox, startBox, fires, reply, deployVars,
                 cached, lastAccessed, trackMap>>

Serving == toInitialize = {} /\ \A c \in Callers : call[c] # "initializeAllTracks"

\* A page shows a project, which it knows by its name alone.
GetTrack(c, t) ==
  /\ Serving /\ pc[c] = "idle" /\ c # Starter /\ t \in Plain
  /\ Begin(c, t, "getLatestTrack")
  /\ UNCHANGED <<scheduleMap, jobs, quartzBox, startBox, fires, reply, deployVars,
                 cached, lastAccessed, trackMap, toInitialize>>

\* The StartGoalActor takes a StartGoalMessage.
StartGoal ==
  /\ pc[Starter] = "idle" /\ startBox # <<>>
  /\ startBox' = Tail(startBox)
  /\ Begin(Starter, Head(startBox).track, "getLatestTrack")
  /\ UNCHANGED <<scheduleMap, jobs, quartzBox, fires, reply, deployVars,
                 cached, lastAccessed, trackMap, toInitialize>>

\* Bug: the list is not forgotten, only taken for new.
RefreshTrackTouches(c, t) ==
  LET found == {d \in Descriptors : d.track = t /\ Loaded(d)} IN
  /\ Serving /\ pc[c] = "idle" /\ c # Starter /\ t \in Plain
  /\ Begin(c, t, "refreshTrack")
  /\ \/ found = {} /\ UNCHANGED trackMap
     \/ \E d \in found : trackMap' = [trackMap EXCEPT ![d] = NoTrack]
  /\ lastAccessed' = now
  /\ UNCHANGED <<scheduleMap, jobs, quartzBox, startBox, fires, reply, deployVars,
                 toInitialize, cached>>

\* refreshTrack removes one version of the track from the map, whichever the map
\* yields first, and releases the list.
RefreshTrack(c, t) ==
  LET found == {d \in Descriptors : d.track = t /\ Loaded(d)} IN
  /\ Serving /\ pc[c] = "idle" /\ c # Starter /\ t \in Plain
  /\ Begin(c, t, "refreshTrack")
  /\ \/ found = {} /\ UNCHANGED trackMap
     \/ \E d \in found : trackMap' = [trackMap EXCEPT ![d] = NoTrack]
  /\ cached' = NoList /\ lastAccessed' = now
  /\ UNCHANGED <<scheduleMap, jobs, quartzBox, startBox, fires, reply, deployVars,
                 toInitialize>>
-----------------------------------------------------------------------------
(* Cacheable.get, which takes no lock: whoever is in it reads _cached, tests  *)
(* its age, lists the files, stores what it has found and reads that again,   *)
(* while others do the same or release the list.                              *)
getVars == <<scheduleMap, jobs, quartzBox, startBox, fires, reply, deployVars,
             trackMap, call, object>>

LeaveGet(c, stage) ==
  /\ pc' = [pc EXCEPT ![c] = stage]
  /\ began' = [began EXCEPT ![c] = 0]
  /\ hand' = [hand EXCEPT ![c] = NoList]

\* TracksUnavailableException, or NoSuchElementException; it ends a start as well.
GetThrows(c) ==
  /\ LeaveGet(c, "returned")
  /\ toInitialize' = IF call[c] = "initializeAllTracks" THEN {} ELSE toInitialize
  /\ UNCHANGED target

\* Bug: the version asked for, LATEST, is kept.
ChoosesLatest(c, list) ==
  /\ LeaveGet(c, "looking")
  /\ UNCHANGED <<target, toInitialize>>

\* get returns list: the newest version of the track in it, if there is one.
Chooses(c, list) ==
  LET found == {d \in list : d.track = target[c].track} IN
  /\ \/ found = {} /\ LeaveGet(c, "returned") /\ UNCHANGED target
     \/ \E d \in found :
          /\ \A e \in found : e.version <= d.version
          /\ target' = [target EXCEPT ![c] = d]
          /\ LeaveGet(c, "looking")
  /\ UNCHANGED toInitialize

ReadCached(c) ==
  /\ pc[c] = "reading"
  /\ pc' = [pc EXCEPT ![c] = IF cached = NoList THEN "listing" ELSE "testing"]
  /\ hand' = [hand EXCEPT ![c] = cached]
  /\ UNCHANGED <<began, target, toInitialize, cached, lastAccessed, getVars>>

\* Some list is there; accessed is what becomes of _lastAccessed.
TestsAge(c, accessed) ==
  /\ pc[c] = "testing"
  /\ \/ /\ now - lastAccessed >= MaxAge
        /\ pc' = [pc EXCEPT ![c] = "listing"]
        /\ hand' = [hand EXCEPT ![c] = NoList]
        /\ UNCHANGED <<began, target, toInitialize>>
     \/ now - lastAccessed < MaxAge /\ Chooses(c, hand[c])
  /\ lastAccessed' = accessed
  /\ UNCHANGED <<cached, getVars>>

\* Bug: every access counts as one, as the field's name has it.
TestAgeTouches(c) == TestsAge(c, now)

\* _lastAccessed is left alone: a list is fetched at every access once it is MaxAge
\* since one was last released.
TestAge(c) == TestsAge(c, lastAccessed)

ListTracks(c) ==
  /\ pc[c] = "listing"
  /\ \/ GetThrows(c)
     \/ /\ pc' = [pc EXCEPT ![c] = "storing"]
        /\ hand' = [hand EXCEPT ![c] = Deployed]
        /\ UNCHANGED <<began, target, toInitialize>>
  /\ UNCHANGED <<cached, lastAccessed, getVars>>

StoreTracks(c) ==
  /\ pc[c] = "storing"
  /\ cached' = hand[c]
  /\ pc' = [pc EXCEPT ![c] = "fetched"]
  /\ hand' = [hand EXCEPT ![c] = NoList]
  /\ UNCHANGED <<began, target, toInitialize, lastAccessed, getVars>>

\* What is cached by now: another's list perhaps, or none.
TakeFetched(c) ==
  /\ pc[c] = "fetched"
  /\ \/ cached = NoList /\ GetThrows(c)
     \/ cached # NoList /\ Chooses(c, cached)
  /\ UNCHANGED <<cached, lastAccessed, getVars>>

CacheStep(c) ==
  ReadCached(c) \/ TestAge(c) \/ ListTracks(c) \/ StoreTracks(c) \/ TakeFetched(c)
-----------------------------------------------------------------------------
\* getTrack: a version that is in the map is taken from there; initializeAllTracks
\* does not look.
LookUp(c) ==
  LET inMap == Loaded(target[c]) /\ call[c] # "initializeAllTracks" IN
  /\ pc[c] = "looking"
  /\ \/ /\ inMap
        /\ object' = [object EXCEPT ![c] = trackMap[target[c]]]
        /\ pc' = [pc EXCEPT ![c] = "returned"]
     \/ /\ ~inMap
        /\ pc' = [pc EXCEPT ![c] = "loading"]
        /\ UNCHANGED object
  /\ UNCHANGED <<scheduleMap, jobs, quartzBox, startBox, fires, target, reply,
                 deployVars, cached, lastAccessed, trackMap, toInitialize, call, began, hand>>

\* generateTrack: the object is in the map before it is initialised.
GenerateTrack(c) ==
  LET d == target[c]
      new == Object(revision[d.track][d.version], c, FALSE) IN
  /\ pc[c] = "loading"
  /\ \/ /\ pc' = [pc EXCEPT ![c] = "returned"]      \* no properties, no class, no access
        /\ UNCHANGED <<trackMap, object>>
     \/ /\ pc' = [pc EXCEPT ![c] = "initializing"]
        /\ trackMap' = [trackMap EXCEPT ![d] = new]
        /\ object' = [object EXCEPT ![c] = new]
  /\ UNCHANGED <<scheduleMap, jobs, quartzBox, startBox, fires, target, reply,
                 deployVars, cached, lastAccessed, toInitialize, call, began, hand>>

\* The object is ready, wherever it is.
Ready(c) ==
  /\ object' = [object EXCEPT ![c].ready = TRUE]
  /\ trackMap' = IF trackMap[target[c]] = object[c]
                 THEN [trackMap EXCEPT ![target[c]].ready = TRUE] ELSE trackMap

\* initializeTrack ends by scheduling the track; an exception of Track.init, or
\* before it, ends the call without a track and leaves the map as it is.
InitializeTrack(c) ==
  LET d == target[c]
      schedule == Schedule[d.track][d.version] IN
  /\ pc[c] = "initializing"
  /\ \/ /\ pc' = [pc EXCEPT ![c] = "returned"]
        /\ object' = [object EXCEPT ![c] = NoTrack]
        /\ UNCHANGED <<trackMap, quartzBox, reply>>
     \/ /\ schedule = "none"
        /\ Ready(c)
        /\ pc' = [pc EXCEPT ![c] = "scheduled"]
        /\ UNCHANGED <<quartzBox, reply>>
     \/ /\ schedule # "none"
        /\ Ready(c)
        /\ pc' = [pc EXCEPT ![c] = "scheduling"]
        /\ SendSchedule(c, d, schedule = "valid")
  /\ UNCHANGED <<scheduleMap, jobs, startBox, fires, target, deployVars, cached,
                 lastAccessed, toInitialize, call, began, hand>>

\* Back in getTrack: whether it could be scheduled or not, the track is put into
\* the map once more; initializeAllTracks goes on to the next track.
ReturnTrack(c) ==
  /\ pc[c] = "scheduled"
  /\ trackMap' = IF call[c] = "initializeAllTracks" THEN trackMap
                 ELSE [trackMap EXCEPT ![target[c]] = object[c]]
  /\ pc' = [pc EXCEPT ![c] = "returned"]
  /\ UNCHANGED <<scheduleMap, jobs, quartzBox, startBox, fires, target, reply,
                 deployVars, cached, lastAccessed, toInitialize, call, began, hand, object>>

\* The caller gets its track, or none, or an exception.
Return(c) ==
  /\ pc[c] = "returned"
  /\ pc' = [pc EXCEPT ![c] = "idle"]
  /\ target' = [target EXCEPT ![c] = NoJob]
  /\ call' = [call EXCEPT ![c] = "none"]
  /\ object' = [object EXCEPT ![c] = NoTrack]
  /\ UNCHANGED <<scheduleMap, jobs, quartzBox, startBox, fires, reply, deployVars,
                 cached, lastAccessed, trackMap, toInitialize, began, hand>>

CallerStep(c) ==
  \/ CacheStep(c)
  \/ LookUp(c) \/ GenerateTrack(c) \/ InitializeTrack(c) \/ ReturnTrack(c) \/ Return(c)
  \/ (Answered(c) /\ UNCHANGED <<deployVars, factoryVars>>)

QuartzStep ==
  /\ QuartzAdd \/ QuartzRemove
  /\ UNCHANGED <<deployVars, factoryVars>>

\* The schedule page, and the triggers, which leave the factory alone.
SchedulerStep ==
  /\ \/ /\ Serving
        /\ \E c \in Callers, t \in Tracks, valid \in BOOLEAN : ScheduleTrack(c, t, valid)
     \/ /\ Serving
        /\ \E c \in Callers, d \in Descriptors : UnscheduleTrack(c, d)
     \/ \E n \in Names : Fire(n)
  /\ UNCHANGED <<deployVars, factoryVars>>

Next ==
  \/ \E c \in Callers : \/ CallerStep(c)
                        \/ \E t \in Tracks : \/ InitializeAllTracks(c, t)
                                            \/ GetTrack(c, t) \/ RefreshTrack(c, t)
  \/ \E t \in Tracks, v \in Versions : Upload(t, v)
  \/ SchedulerStep \/ StartGoal \/ QuartzStep \/ Tick

\* Threads go on and the actors handle their mail.
Fairness ==
  /\ \A c \in Callers : WF_vars(CallerStep(c))
  /\ WF_vars(QuartzStep) /\ WF_vars(StartGoal)

Spec == Init /\ [][Next]_vars
FairSpec == Spec /\ Fairness
-----------------------------------------------------------------------------
Tracked == [revision : 1..MaxRevision, loader : Callers, ready : BOOLEAN]

\* Who is in the cache's get began before now, not long ago, and holds a list when
\* it has read or listed one.
GetTypeOK(c) ==
  /\ began[c] <= now
  /\ pc[c] \in Getting => now <= began[c] + MaxFetch
  /\ IF pc[c] \in {"testing", "storing"} THEN hand[c] \subseteq Deployed ELSE hand[c] = NoList
  /\ pc[c] = "testing" => hand[c] # NoList

\* Maps, mailboxes and callers hold values of their types, and whoever is past
\* the list has a version in view.
TypeOK ==
  /\ scheduleMap \subseteq Descriptors
  /\ jobs \in [Names -> Descriptors \cup {NoJob}]
  /\ trackMap \in [Descriptors -> Tracked \cup {NoTrack}]
  /\ object \in [Callers -> Tracked \cup {NoTrack}]
  /\ toInitialize \subseteq Tracks /\ call \in [Callers -> Calls \cup {"none"}]
  /\ cached = NoList \/ cached \subseteq Deployed
  /\ lastAccessed \in 0..now
  /\ began \in [Callers -> Nat] /\ hand \in [Callers -> (SUBSET Descriptors) \cup {NoList}]
  /\ \A c \in Callers : GetTypeOK(c)
  /\ reply \in [Callers -> {"none", "success", "failure"}]
  /\ \A c \in Callers :
       pc[c] \in {"looking", "loading", "initializing", "scheduling", "scheduled"}
         => target[c] \in Deployed

\* What a page lists as scheduled has a job, made for it and no other track.
EntryHasJob == \A d \in scheduleMap : jobs[Key(d)] = d

\* A job can be unscheduled: it is in scheduleMap, or about to be entered there
\* by the thread that made it, or about to be removed.
JobIsKnown ==
  \A n \in Names : jobs[n] # NoJob =>
    \/ jobs[n] \in scheduleMap
    \/ \E c \in Callers : reply[c] = "success" /\ target[c] = jobs[n]
    \/ \E i \in DOMAIN quartzBox : quartzBox[i] = RemoveJob(n)

\* No thread, and not the StartGoalActor, waits for the scheduler forever, even
\* when jobs are refused.
CallsReturn == \A c \in Callers : pc[c] # "idle" ~> pc[c] = "idle"

\* get returns, and the caller goes on with a version of the list.
Chosen(c) == pc[c] \in {"testing", "fetched"} /\ pc'[c] = "looking"

\* Version v of the track it asks for: how long it has been deployed, and is it
\* overlooked?
Age(c, v) == now - deployedAt[target[c].track][v]
Misses(c, v) == revision[target[c].track][v] > 0 /\ v > target'[c].version

\* The list c has read has been released since: nothing is known of its age.
Released(c) == pc[c] = "testing" /\ lastAccessed >= began[c] /\ cached # hand[c]

\* A version that has been deployed for as long as a list may be cached and
\* another be under way is not overlooked by anyone who asks for the newest,
\* unless the list in its hand is released before it has tested its age.
NewestIsFound ==
  [][\A c \in Callers, v \in Versions :
       Chosen(c) /\ ~Released(c) /\ Age(c, v) >= MaxAge + MaxFetch
         => ~Misses(c, v)]_vars

\* refreshTrack overlooks no version deployed before the listings that were under
\* way when it began, although one of them may be stored after its release.
RefreshFindsNewest ==
  [][\A c \in Callers, v \in Versions :
       Chosen(c) /\ call[c] = "refreshTrack" /\ Age(c, v) > 2 * MaxFetch
         => ~Misses(c, v)]_vars
-----------------------------------------------------------------------------
(* What comments of the code say and the code does not keep.                 *)

\* initializeTrack: "make sure that it has setup everything it needs to run".  No
\* one is given the object another thread is still initializing.
ReturnedIsReady ==
  \A c, l \in Callers : pc[c] = "returned" /\ pc[l] = "initializing" => object[c] # object[l]
=============================================================================
