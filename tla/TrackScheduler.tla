--------------------------- MODULE TrackScheduler ---------------------------
(* TrackScheduler and its QuartzActor.  A schedule is a job of Quartz, whose *)
(* key is the track's name alone, and an entry of scheduleMap for the        *)
(* descriptor it was made for.  Whoever schedules sends a message to the     *)
(* QuartzActor and blocks on the answer; whoever unschedules does not wait.  *)
(* Triggers are left out: a job may fire at any time.                        *)
EXTENDS Naturals, Sequences, FiniteSets

CONSTANTS
  Tracks,      \* descriptors without their version
  NameOf,      \* track -> its name, which tracks of several users or variants share
  Plain,       \* the tracks of the user named like the track, without a variant
  MaxVersion,  \* bound: versions of a track
  Schedule,    \* track -> version -> "none", "valid" or "invalid"
  Callers,     \* threads in the scheduler or the factory
  Starter,     \* the one among them that is the StartGoalActor
  MaxFires,    \* bound: times a job fires
  NoJob

Versions == 1..MaxVersion
LATEST == 0
Descriptors == [track : Tracks, version : Versions \cup {LATEST}]
Descriptor(t, v) == [track |-> t, version |-> v]
Key(d) == NameOf[d.track]

ASSUME SchedulerConstants ==
  /\ MaxVersion \in Nat \ {0} /\ MaxFires \in Nat
  /\ Starter \in Callers /\ Plain \subseteq Tracks
  /\ Schedule \in [Tracks -> [Versions -> {"none", "valid", "invalid"}]]
  /\ NoJob \notin Descriptors

VARIABLES
  scheduleMap,  \* the descriptors in TrackScheduler.scheduleMap
  jobs,         \* Quartz: job key -> the descriptor in its StartGoalMessage
  quartzBox,    \* mailbox of the QuartzActor
  startBox,     \* mailbox of the StartGoalActor
  fires,        \* jobs fired so far
  pc,           \* how far each caller is
  target,       \* the descriptor it is about
  reply         \* what the QuartzActor has answered it: "none", "success", "failure"

schedulerVars == <<scheduleMap, jobs, quartzBox, startBox, fires, pc, target, reply>>

Names == {NameOf[t] : t \in Tracks}

AddSchedule(c, d, valid) == [type |-> "Add", from |-> c, desc |-> d, valid |-> valid]
RemoveJob(key) == [type |-> "Remove", key |-> key]

SchedulerInit ==
  /\ scheduleMap = {}
  /\ jobs = [n \in Names |-> NoJob]
  /\ quartzBox = <<>> /\ startBox = <<>> /\ fires = 0
  /\ pc = [c \in Callers |-> "idle"]
  /\ target = [c \in Callers |-> NoJob]
  /\ reply = [c \in Callers |-> "none"]
-----------------------------------------------------------------------------
\* sendScheduleMessage: from here the caller waits for the answer.
SendSchedule(c, d, valid) ==
  /\ quartzBox' = Append(quartzBox, AddSchedule(c, d, valid))
  /\ reply' = [reply EXCEPT ![c] = "none"]

\* The QuartzActor handles an AddSchedule: it does what Quartz says of it, and
\* answers.
Adds(accepted, answer) ==
  LET m == Head(quartzBox) IN
  /\ quartzBox # <<>> /\ m.type = "Add"
  /\ jobs' = IF accepted THEN [jobs EXCEPT ![Key(m.desc)] = m.desc] ELSE jobs
  /\ reply' = [reply EXCEPT ![m.from] = answer]
  /\ quartzBox' = Tail(quartzBox)
  /\ UNCHANGED <<scheduleMap, startBox, fires, pc, target>>

\* Quartz refuses a job whose key is taken, whatever its descriptor, and a
\* schedule it cannot read.
Accepted == Head(quartzBox).valid /\ jobs[Key(Head(quartzBox).desc)] = NoJob

\* Bugs: a refused job is not answered; a job of the same key is replaced.
QuartzAddSilent == Adds(Accepted, IF Accepted THEN "success" ELSE "none")
QuartzAddReplaces ==
  LET valid == Head(quartzBox).valid IN
  Adds(valid, IF valid THEN "success" ELSE "failure")

QuartzAdd == Adds(Accepted, IF Accepted THEN "success" ELSE "failure")

QuartzRemove ==
  /\ quartzBox # <<>> /\ Head(quartzBox).type = "Remove"
  /\ jobs' = [jobs EXCEPT ![Head(quartzBox).key] = NoJob]
  /\ quartzBox' = Tail(quartzBox)
  /\ UNCHANGED <<scheduleMap, startBox, fires, pc, target, reply>>

\* A job tells the StartGoalActor to start its track.
Fire(n) ==
  /\ jobs[n] # NoJob /\ fires < MaxFires
  /\ fires' = fires + 1
  /\ startBox' = Append(startBox, jobs[n])
  /\ UNCHANGED <<scheduleMap, jobs, quartzBox, pc, target, reply>>

\* The answer is there: a success is entered in scheduleMap.
Answered(c) ==
  /\ pc[c] \in {"scheduling", "schedulingPage"} /\ reply[c] # "none"
  /\ scheduleMap' = IF reply[c] = "success"
                    THEN scheduleMap \cup {target[c]} ELSE scheduleMap
  /\ pc' = [pc EXCEPT ![c] = IF @ = "scheduling" THEN "scheduled" ELSE "returned"]
  /\ reply' = [reply EXCEPT ![c] = "none"]
  /\ UNCHANGED <<jobs, quartzBox, startBox, fires, target>>

\* The schedule page makes a Track of a name alone and a schedule that is typed
\* in, which Quartz may not be able to read.
ScheduleTrack(c, t, valid) ==
  /\ pc[c] = "idle" /\ c # Starter /\ t \in Plain
  /\ pc' = [pc EXCEPT ![c] = "schedulingPage"]
  /\ target' = [target EXCEPT ![c] = Descriptor(t, LATEST)]
  /\ SendSchedule(c, Descriptor(t, LATEST), valid)
  /\ UNCHANGED <<scheduleMap, jobs, startBox, fires>>

\* Bug: the QuartzActor is not told.
UnscheduleForgetsJob(c, d) ==
  /\ pc[c] = "idle" /\ c # Starter
  /\ d \in scheduleMap
  /\ scheduleMap' = scheduleMap \ {d}
  /\ UNCHANGED <<jobs, quartzBox, startBox, fires, pc, target, reply>>

\* The entry goes at once, the job when the QuartzActor gets to it.
UnscheduleTrack(c, d) ==
  /\ pc[c] = "idle" /\ c # Starter
  /\ d \in scheduleMap
  /\ scheduleMap' = scheduleMap \ {d}
  /\ quartzBox' = Append(quartzBox, RemoveJob(Key(d)))
  /\ UNCHANGED <<jobs, startBox, fires, pc, target, reply>>
=============================================================================
