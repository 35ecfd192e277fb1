------------------------- MODULE TrackFactoryProofs -------------------------
(* For any tracks, callers and bounds: what is listed as scheduled has its   *)
(* job, every job is listed or on its way in or out, and the list of tracks  *)
(* overlooks no version that has been deployed for long.                     *)
EXTENDS TrackFactory, Integers, TLAPS

Stages == {"idle", "looking", "loading", "initializing", "scheduling",
           "schedulingPage", "scheduled", "returned"} \cup Getting
QuartzMsg == [type : {"Add"}, from : Callers, desc : Descriptors, valid : BOOLEAN]
             \cup [type : {"Remove"}, key : Names]

\* The types TypeOK leaves to the steps, and what an object in hand is.
Typed ==
  /\ pc \in [Callers -> Stages]
  /\ target \in [Callers -> Descriptors \cup {NoJob}]
  /\ quartzBox \in Seq(QuartzMsg) /\ startBox \in Seq(Descriptors)
  /\ now \in Nat /\ revision \in [Tracks -> [Versions -> 0..MaxRevision]]
  /\ \A t \in Tracks : revision[t][1] > 0
  /\ \A c \in Callers : pc[c] = "initializing" => object[c] \in Tracked
  /\ \A c \in Callers : pc[c] \in Getting \cup {"schedulingPage"} => target[c] \in Descriptors

WaitingStages == {"scheduling", "schedulingPage"}
Waiting(c) == pc[c] \in WaitingStages
Granted(c) == reply[c] = "success"
Slots == DOMAIN quartzBox
Asked(i, c) == quartzBox[i].type = "Add" /\ quartzBox[i].from = c

\* Only who waits is answered or has an AddSchedule queued, one at most, for what
\* it is about, and is not answered yet when it has.
OneAdd ==
  /\ \A c \in Callers : reply[c] # "none" => Waiting(c)
  /\ \A i \in Slots, c \in Callers : Asked(i, c) =>
       Waiting(c) /\ reply[c] = "none" /\ target[c] = quartzBox[i].desc
  /\ \A i, j \in Slots, c \in Callers : Asked(i, c) /\ Asked(j, c) => i = j

\* Who has been told of success is the only one with that key, and finds no entry.
GrantIsAlone ==
  \A c \in Callers : Granted(c) =>
    /\ jobs[Key(target[c])] = target[c]
    /\ \A d \in scheduleMap : Key(d) # Key(target[c])
    /\ \A e \in Callers : Granted(e) /\ Key(target[e]) = Key(target[c]) => e = c

\* A job that is to be removed is nobody's.
RemoveIsAlone ==
  \A i \in Slots : quartzBox[i].type = "Remove" =>
    /\ jobs[quartzBox[i].key] # NoJob
    /\ \A d \in scheduleMap : Key(d) # quartzBox[i].key
    /\ \A c \in Callers : Granted(c) => Key(target[c]) # quartzBox[i].key
    /\ \A j \in Slots : quartzBox[j].type = "Remove" /\ quartzBox[j].key = quartzBox[i].key
         => j = i

\* A job is under the name of its track.
JobsKeyed == \A n \in Names : jobs[n] # NoJob => Key(jobs[n]) = n

SchedulerInv ==
  OneAdd /\ GrantIsAlone /\ RemoveIsAlone /\ JobsKeyed /\ EntryHasJob /\ JobIsKnown
Inv == TypeOK /\ Typed /\ SchedulerInv

USE SchedulerConstants, FactoryConstants
-----------------------------------------------------------------------------
LEMMA KeyOf == \A d \in Descriptors : Key(d) \in Names
  BY DEF Descriptors, Key, Names

LEMMA InitInv == Init => Inv
<1>. SUFFICES ASSUME Init PROVE Inv
  OBVIOUS
<1>1. TypeOK
  BY DEF Init, SchedulerInit, TypeOK, GetTypeOK, Getting
<1>2. Typed
  <2>1. 1 \in Versions /\ revision \in [Tracks -> [Versions -> 0..MaxRevision]]
    BY DEF Init, Versions
  <2>. QED  BY <2>1 DEF Init, SchedulerInit, Typed, Stages, Getting
<1>3. SchedulerInv
  BY DEF Init, SchedulerInit, SchedulerInv, OneAdd, GrantIsAlone, RemoveIsAlone,
         JobsKeyed, EntryHasJob, JobIsKnown, Slots, Granted
<1>. QED  BY <1>1, <1>2, <1>3 DEF Inv

\* A step of a caller that neither waits nor is going to.
Quiet(c) ==
  /\ ~Waiting(c) /\ ~Waiting(c)'
  /\ \A e \in Callers \ {c} : pc'[e] = pc[e] /\ target'[e] = target[e]
  /\ UNCHANGED <<scheduleMap, jobs, quartzBox, reply>>

LEMMA QuietInv ==
  ASSUME SchedulerInv, Typed, TypeOK, NEW c \in Callers, Quiet(c)
  PROVE  SchedulerInv'
<1>1. reply[c] = "none" /\ \A i \in Slots : ~Asked(i, c)
  BY DEF SchedulerInv, OneAdd, Quiet
<1>4. OneAdd'
  BY <1>1 DEF SchedulerInv, OneAdd, Quiet, Waiting, Slots, Asked
<1>5. GrantIsAlone' /\ RemoveIsAlone'
  BY <1>1 DEF SchedulerInv, GrantIsAlone, RemoveIsAlone, Quiet, Granted, Slots
<1>6. JobsKeyed' /\ EntryHasJob' /\ JobIsKnown'
  BY <1>1 DEF SchedulerInv, JobsKeyed, EntryHasJob, JobIsKnown, Quiet
<1>. QED  BY <1>4, <1>5, <1>6 DEF SchedulerInv
-----------------------------------------------------------------------------
\* An AddSchedule is queued by a caller that did not wait, and now does.
Asks(c) ==
  \E d \in Descriptors, valid \in BOOLEAN :
    /\ ~Waiting(c) /\ Waiting(c)' /\ target'[c] = d
    /\ SendSchedule(c, d, valid)
    /\ \A e \in Callers \ {c} : pc'[e] = pc[e] /\ target'[e] = target[e]
    /\ UNCHANGED <<scheduleMap, jobs>>

LEMMA AsksInv ==
  ASSUME SchedulerInv, Typed, TypeOK, NEW c \in Callers, Asks(c)
  PROVE  SchedulerInv'
<1>. PICK d \in Descriptors, valid \in BOOLEAN :
       /\ ~Waiting(c) /\ Waiting(c)' /\ target'[c] = d
       /\ SendSchedule(c, d, valid)
       /\ \A e \in Callers \ {c} : pc'[e] = pc[e] /\ target'[e] = target[e]
       /\ UNCHANGED <<scheduleMap, jobs>>
  BY DEF Asks
<1>. PICK n \in Nat : n = Len(quartzBox) + 1
  BY DEF Typed
<1>1. /\ Slots = 1..Len(quartzBox) /\ Len(quartzBox) \in Nat /\ Slots' = 1..n
      /\ quartzBox'[n] = AddSchedule(c, d, valid)
      /\ \A i \in Slots : quartzBox'[i] = quartzBox[i] /\ quartzBox[i] \in QuartzMsg
  BY DEF SendSchedule, Slots, Typed
<1>2. reply[c] = "none" /\ reply' = reply
  BY DEF SchedulerInv, OneAdd, SendSchedule, TypeOK
<1>4. quartzBox'[n].type = "Add" /\ quartzBox'[n].from = c /\ quartzBox'[n].desc = d
  BY <1>1 DEF AddSchedule
<1>5. \A i \in Slots' : i \in Slots \/ i = n
  BY <1>1
<1>6. OneAdd'
  <2>1. \A e \in Callers : reply'[e] # "none" => Waiting(e)'
    BY <1>2 DEF SchedulerInv, OneAdd, Waiting
  <2>2. /\ \A i \in Slots, e \in Callers : Asked(i, e)' <=> Asked(i, e)
        /\ \A e \in Callers : Asked(n, e)' <=> e = c
        /\ \A i \in Slots : ~Asked(i, c)
        /\ n \notin Slots
    BY <1>1, <1>4 DEF Asked, SchedulerInv, OneAdd
  <2>3. ASSUME NEW i \in Slots', NEW e \in Callers, Asked(i, e)'
        PROVE  Waiting(e)' /\ reply'[e] = "none" /\ target'[e] = quartzBox'[i].desc
    <3>1. CASE i = n
      BY <1>2, <1>4, <2>2, <2>3, <3>1
    <3>2. CASE i \in Slots
      BY <1>1, <1>2, <2>2, <2>3, <3>2 DEF SchedulerInv, OneAdd, Waiting
    <3>. QED  BY <1>5, <3>1, <3>2
  <2>4. ASSUME NEW i \in Slots', NEW j \in Slots', NEW e \in Callers, Asked(i, e)', Asked(j, e)'
        PROVE  i = j
    BY <1>5, <2>2, <2>4 DEF SchedulerInv, OneAdd
  <2>. QED  BY <2>1, <2>3, <2>4 DEF OneAdd
<1>7. GrantIsAlone'
  BY <1>2 DEF SchedulerInv, GrantIsAlone, Granted
<1>8. RemoveIsAlone'
  <2>1. \A i \in Slots' : quartzBox'[i].type = "Remove" => i \in Slots /\ quartzBox'[i] = quartzBox[i]
    BY <1>1, <1>4, <1>5
  <2>. QED  BY <1>2, <2>1 DEF SchedulerInv, RemoveIsAlone, Granted
<1>9. JobsKeyed' /\ EntryHasJob' /\ JobIsKnown'
  <2>1. JobIsKnown'
    <3>. SUFFICES ASSUME NEW k \in Names, jobs[k] # NoJob
         PROVE  \/ jobs[k] \in scheduleMap
                \/ \E e \in Callers : reply'[e] = "success" /\ target'[e] = jobs[k]
                \/ \E i \in Slots' : quartzBox'[i] = RemoveJob(k)
      BY DEF JobIsKnown, Slots
    <3>. QED  BY <1>1, <1>2 DEF SchedulerInv, JobIsKnown, Slots
  <2>. QED  BY <2>1 DEF SchedulerInv, JobsKeyed, EntryHasJob
<1>. QED  BY <1>6, <1>7, <1>8, <1>9 DEF SchedulerInv
-----------------------------------------------------------------------------
\* The mailbox of the QuartzActor without its head.
LEMMA Taken ==
  ASSUME Typed, quartzBox # <<>>, quartzBox' = Tail(quartzBox)
  PROVE  /\ 1 \in Slots /\ quartzBox[1] = Head(quartzBox) /\ quartzBox[1] \in QuartzMsg
         /\ \A i \in Slots' : i + 1 \in Slots /\ quartzBox'[i] = quartzBox[i + 1]
         /\ \A i \in Slots : i # 1 => i - 1 \in Slots' /\ quartzBox'[i - 1] = quartzBox[i]
         /\ \A i \in Slots : i \in Nat /\ quartzBox[i] \in QuartzMsg
         /\ \A i \in Slots' : i \in Nat \ {0}
  BY DEF Typed, Slots

\* The QuartzActor adds a job, or refuses it, and answers.
LEMMA QuartzAddInv ==
  ASSUME SchedulerInv, Typed, TypeOK, QuartzAdd
  PROVE  SchedulerInv'
<1>. DEFINE m == Head(quartzBox)
            c == m.from
            k == Key(m.desc)
<1>1. /\ quartzBox # <<>> /\ quartzBox' = Tail(quartzBox) /\ m.type = "Add"
      /\ UNCHANGED <<scheduleMap, startBox, fires, pc, target>>
      /\ jobs' = IF Accepted THEN [jobs EXCEPT ![k] = m.desc] ELSE jobs
      /\ reply' = [reply EXCEPT ![c] = IF Accepted THEN "success" ELSE "failure"]
  BY DEF QuartzAdd, Adds
<1>2. c \in Callers /\ m.desc \in Descriptors /\ k \in Names /\ m.desc # NoJob
  BY <1>1, Taken, KeyOf DEF QuartzMsg
<1>3. /\ Waiting(c) /\ reply[c] = "none" /\ target[c] = m.desc
      /\ \A i \in Slots : Asked(i, c) => i = 1
  <2>. Asked(1, c) /\ quartzBox[1].desc = m.desc /\ 1 \in Slots
    BY <1>1, Taken DEF Asked
  <2>. QED  BY <1>2 DEF SchedulerInv, OneAdd
<1>4. Accepted => jobs[k] = NoJob
  BY DEF Accepted
<1>5. OneAdd'
  <2>1. \A e \in Callers : reply'[e] # "none" => Waiting(e)'
    BY <1>1, <1>3 DEF SchedulerInv, OneAdd, Waiting, TypeOK
  <2>2. ASSUME NEW i \in Slots', NEW e \in Callers, Asked(i, e)'
        PROVE  e # c /\ i + 1 \in Slots /\ Asked(i + 1, e)
    <3>1. i + 1 \in Slots /\ quartzBox'[i] = quartzBox[i + 1] /\ i \in Nat \ {0}
      BY <1>1, Taken
    <3>2. Asked(i + 1, e)
      BY <2>2, <3>1 DEF Asked
    <3>. QED  BY <1>3, <3>1, <3>2
  <2>3. \A i \in Slots' : quartzBox'[i].desc = quartzBox[i + 1].desc /\ i \in Nat
    BY <1>1, Taken
  <2>4. \A i \in Slots', e \in Callers : Asked(i, e)' =>
          Waiting(e)' /\ reply'[e] = "none" /\ target'[e] = quartzBox'[i].desc
    BY <1>1, <2>2, <2>3 DEF SchedulerInv, OneAdd, Waiting, TypeOK
  <2>5. \A i, j \in Slots', e \in Callers : Asked(i, e)' /\ Asked(j, e)' => i = j
    BY <2>2, <2>3 DEF SchedulerInv, OneAdd
  <2>. QED  BY <2>1, <2>4, <2>5 DEF OneAdd
<1>6. CASE Accepted
  <2>1. /\ jobs' = [jobs EXCEPT ![k] = m.desc] /\ jobs'[k] = m.desc
        /\ \A e \in Callers : Granted(e)' <=> e = c \/ Granted(e)
    BY <1>1, <1>2, <1>3, <1>6 DEF Granted, TypeOK
  <2>2. /\ \A d \in scheduleMap : Key(d) # k
        /\ \A e \in Callers : Granted(e) => Key(target[e]) # k
        /\ \A i \in Slots : quartzBox[i].type = "Remove" => quartzBox[i].key # k
    <3>1. jobs[k] = NoJob
      BY <1>4, <1>6
    <3>2. \A d \in scheduleMap : d # NoJob /\ jobs[Key(d)] = d
      BY DEF SchedulerInv, EntryHasJob, TypeOK
    <3>3. \A e \in Callers : Granted(e) => target[e] \in Descriptors /\ jobs[Key(target[e])] = target[e]
      <4>1. \A e \in Callers : Granted(e) => Waiting(e)
        BY DEF SchedulerInv, OneAdd, Granted
      <4>2. \A e \in Callers : Waiting(e) => target[e] \in Descriptors
        BY DEF Waiting, WaitingStages, Typed, TypeOK, Deployed
      <4>. QED  BY <4>1, <4>2 DEF SchedulerInv, GrantIsAlone
    <3>. QED  BY <3>1, <3>2, <3>3 DEF SchedulerInv, RemoveIsAlone
  <2>3. GrantIsAlone'
    <3>. SUFFICES ASSUME NEW e \in Callers, Granted(e)'
         PROVE  /\ jobs'[Key(target[e])] = target[e]
                /\ \A d \in scheduleMap : Key(d) # Key(target[e])
                /\ \A f \in Callers : Granted(f)' /\ Key(target[f]) = Key(target[e]) => f = e
      BY <1>1 DEF GrantIsAlone
    <3>1. CASE e = c
      BY <1>3, <2>1, <2>2, <3>1
    <3>2. CASE e # c /\ Granted(e)
      BY <1>3, <2>1, <2>2, <3>2 DEF SchedulerInv, GrantIsAlone
    <3>. QED  BY <2>1, <3>1, <3>2
  <2>4. RemoveIsAlone'
    <3>. SUFFICES ASSUME NEW i \in Slots', quartzBox'[i].type = "Remove"
         PROVE  /\ jobs'[quartzBox'[i].key] # NoJob
                /\ \A d \in scheduleMap : Key(d) # quartzBox'[i].key
                /\ \A e \in Callers : Granted(e)' => Key(target[e]) # quartzBox'[i].key
                /\ \A j \in Slots' : quartzBox'[j].type = "Remove"
                     /\ quartzBox'[j].key = quartzBox'[i].key => j = i
      BY <1>1 DEF RemoveIsAlone
    <3>1. i + 1 \in Slots /\ quartzBox'[i] = quartzBox[i + 1] /\ i \in Nat
      BY <1>1, Taken
    <3>2. quartzBox[i + 1].key # k
      BY <2>2, <3>1
    <3>3. ASSUME NEW j \in Slots', quartzBox'[j].type = "Remove",
                 quartzBox'[j].key = quartzBox'[i].key
          PROVE  j = i
      <4>1. j + 1 \in Slots /\ quartzBox'[j] = quartzBox[j + 1] /\ j \in Nat
        BY <1>1, Taken
      <4>2. j + 1 = i + 1
        BY <3>1, <3>3, <4>1 DEF SchedulerInv, RemoveIsAlone
      <4>. QED  BY <3>1, <4>1, <4>2
    <3>4. jobs'[quartzBox'[i].key] = jobs[quartzBox[i + 1].key]
      BY <2>1, <3>1, <3>2
    <3>. QED  BY <1>3, <2>1, <3>1, <3>2, <3>3, <3>4 DEF SchedulerInv, RemoveIsAlone
  <2>5. JobsKeyed' /\ EntryHasJob'
    BY <1>1, <2>1, <2>2 DEF SchedulerInv, JobsKeyed, EntryHasJob
  <2>6. JobIsKnown'
    <3>. SUFFICES ASSUME NEW q \in Names, jobs'[q] # NoJob
         PROVE  \/ jobs'[q] \in scheduleMap
                \/ \E e \in Callers : reply'[e] = "success" /\ target[e] = jobs'[q]
                \/ \E i \in Slots' : quartzBox'[i] = RemoveJob(q)
      BY <1>1 DEF JobIsKnown, Slots
    <3>1. CASE q = k
      BY <1>2, <1>3, <2>1, <3>1 DEF Granted
    <3>2. CASE q # k
      <4>1. jobs'[q] = jobs[q]
        BY <2>1, <3>2
      <4>2. CASE jobs[q] \in scheduleMap
        BY <4>1, <4>2
      <4>3. ASSUME NEW e \in Callers, reply[e] = "success", target[e] = jobs[q]
            PROVE  reply'[e] = "success" /\ target[e] = jobs'[q]
        BY <1>1, <1>3, <4>1, <4>3, <1>6
      <4>4. ASSUME NEW i \in Slots, quartzBox[i] = RemoveJob(q)
            PROVE  i - 1 \in Slots' /\ quartzBox'[i - 1] = RemoveJob(q)
        <5>1. i # 1
          BY <1>1, <4>4, Taken DEF RemoveJob
        <5>. QED  BY <1>1, <4>4, <5>1, Taken
      <4>. QED  BY <4>1, <4>2, <4>3, <4>4 DEF SchedulerInv, JobIsKnown, Slots
    <3>. QED  BY <3>1, <3>2
  <2>. QED  BY <1>5, <2>3, <2>4, <2>5, <2>6 DEF SchedulerInv
<1>7. CASE ~Accepted
  <2>1. jobs' = jobs /\ \A e \in Callers : Granted(e)' <=> Granted(e)
    BY <1>1, <1>2, <1>3, <1>7 DEF Granted, TypeOK
  <2>2. GrantIsAlone' /\ JobsKeyed' /\ EntryHasJob'
    BY <1>1, <2>1 DEF SchedulerInv, GrantIsAlone, JobsKeyed, EntryHasJob
  <2>3. RemoveIsAlone'
    <3>. SUFFICES ASSUME NEW i \in Slots', quartzBox'[i].type = "Remove"
         PROVE  /\ jobs[quartzBox'[i].key] # NoJob
                /\ \A d \in scheduleMap : Key(d) # quartzBox'[i].key
                /\ \A e \in Callers : Granted(e) => Key(target[e]) # quartzBox'[i].key
                /\ \A j \in Slots' : quartzBox'[j].type = "Remove"
                     /\ quartzBox'[j].key = quartzBox'[i].key => j = i
      BY <1>1, <2>1 DEF RemoveIsAlone
    <3>1. i + 1 \in Slots /\ quartzBox'[i] = quartzBox[i + 1] /\ i \in Nat
      BY <1>1, Taken
    <3>2. ASSUME NEW j \in Slots', quartzBox'[j].type = "Remove",
                 quartzBox'[j].key = quartzBox'[i].key
          PROVE  j = i
      <4>1. j + 1 \in Slots /\ quartzBox'[j] = quartzBox[j + 1] /\ j \in Nat
        BY <1>1, Taken
      <4>2. j + 1 = i + 1
        BY <3>1, <3>2, <4>1 DEF SchedulerInv, RemoveIsAlone
      <4>. QED  BY <3>1, <4>1, <4>2
    <3>. QED  BY <3>1, <3>2 DEF SchedulerInv, RemoveIsAlone
  <2>4. JobIsKnown'
    <3>1. \A q \in Names, i \in Slots : quartzBox[i] = RemoveJob(q)
            => i - 1 \in Slots' /\ quartzBox'[i - 1] = RemoveJob(q)
      <4>. TAKE q \in Names, i \in Slots
      <4>. HAVE quartzBox[i] = RemoveJob(q)
      <4>1. i # 1
        BY <1>1, Taken DEF RemoveJob
      <4>. QED  BY <1>1, <4>1, Taken
    <3>2. \A e \in Callers : reply[e] = "success" => reply'[e] = "success"
      BY <2>1 DEF Granted
    <3>. QED  BY <1>1, <2>1, <3>1, <3>2 DEF SchedulerInv, JobIsKnown, Slots
  <2>. QED  BY <1>5, <2>2, <2>3, <2>4 DEF SchedulerInv
<1>. QED  BY <1>6, <1>7
-----------------------------------------------------------------------------
\* The QuartzActor removes a job, which was nobody's.
LEMMA QuartzRemoveInv ==
  ASSUME SchedulerInv, Typed, TypeOK, QuartzRemove
  PROVE  SchedulerInv'
<1>. DEFINE k == Head(quartzBox).key
<1>1. /\ quartzBox # <<>> /\ quartzBox' = Tail(quartzBox)
      /\ UNCHANGED <<scheduleMap, pc, target, reply>>
      /\ jobs' = [jobs EXCEPT ![k] = NoJob]
  BY DEF QuartzRemove
<1>2. 1 \in Slots /\ quartzBox[1].type = "Remove" /\ quartzBox[1].key = k /\ k \in Names
  BY <1>1, Taken DEF QuartzRemove, QuartzMsg
<1>3. \A q \in Names : q # k => jobs'[q] = jobs[q]
  BY <1>1 DEF TypeOK
<1>4. \A i \in Slots' : i + 1 \in Slots /\ quartzBox'[i] = quartzBox[i + 1] /\ i \in Nat \ {0}
  BY <1>1, Taken
<1>5. \A i \in Slots : i # 1 /\ quartzBox[i].type = "Remove" => quartzBox[i].key # k
  BY <1>2 DEF SchedulerInv, RemoveIsAlone
<1>6. /\ \A d \in scheduleMap : Key(d) # k
      /\ \A e \in Callers : Granted(e) => Key(target[e]) # k
  BY <1>2 DEF SchedulerInv, RemoveIsAlone
<1>7. OneAdd'
  <2>1. \A i \in Slots', e \in Callers : Asked(i, e)' => Asked(i + 1, e)
    BY <1>4 DEF Asked
  <2>2. \A i \in Slots', e \in Callers : Asked(i, e)' =>
          Waiting(e)' /\ reply'[e] = "none" /\ target'[e] = quartzBox'[i].desc
    <3>. SUFFICES ASSUME NEW i \in Slots', NEW e \in Callers, Asked(i, e)'
         PROVE  Waiting(e) /\ reply[e] = "none" /\ target[e] = quartzBox'[i].desc
      BY <1>1 DEF Waiting
    <3>1. Asked(i + 1, e) /\ i + 1 \in Slots /\ quartzBox'[i] = quartzBox[i + 1]
      BY <1>4, <2>1
    <3>. QED  BY <3>1 DEF SchedulerInv, OneAdd
  <2>3. \A i, j \in Slots', e \in Callers : Asked(i, e)' /\ Asked(j, e)' => i = j
    BY <1>4, <2>1 DEF SchedulerInv, OneAdd
  <2>. QED  BY <1>1, <2>2, <2>3 DEF SchedulerInv, OneAdd, Waiting
<1>8. \A e \in Callers : Granted(e) => target[e] \in Descriptors
  BY DEF SchedulerInv, OneAdd, Granted, Waiting, WaitingStages, Typed, TypeOK, Deployed
<1>9. GrantIsAlone'
  BY <1>1, <1>3, <1>6, <1>8, KeyOf DEF SchedulerInv, GrantIsAlone, Granted
<1>10. JobsKeyed' /\ EntryHasJob'
  BY <1>1, <1>3, <1>6, KeyOf DEF SchedulerInv, JobsKeyed, EntryHasJob, TypeOK
<1>11. RemoveIsAlone'
  <2>. SUFFICES ASSUME NEW i \in Slots', quartzBox'[i].type = "Remove"
       PROVE  /\ jobs'[quartzBox'[i].key] # NoJob
              /\ \A d \in scheduleMap : Key(d) # quartzBox'[i].key
              /\ \A e \in Callers : Granted(e) => Key(target[e]) # quartzBox'[i].key
              /\ \A j \in Slots' : quartzBox'[j].type = "Remove"
                   /\ quartzBox'[j].key = quartzBox'[i].key => j = i
    BY <1>1 DEF RemoveIsAlone, Granted
  <2>1. quartzBox[i + 1].key \in Names /\ quartzBox[i + 1].key # k
    <3>1. i + 1 \in Slots /\ i + 1 # 1 /\ quartzBox[i + 1].type = "Remove"
      BY <1>4
    <3>2. quartzBox[i + 1] \in QuartzMsg
      BY <1>1, <3>1, Taken
    <3>. QED  BY <1>5, <3>1, <3>2 DEF QuartzMsg
  <2>2. ASSUME NEW j \in Slots', quartzBox'[j].type = "Remove",
               quartzBox'[j].key = quartzBox'[i].key
        PROVE  j = i
    <3>1. j + 1 = i + 1
      BY <1>4, <2>2 DEF SchedulerInv, RemoveIsAlone
    <3>. QED  BY <1>4, <3>1
  <2>. QED  BY <1>3, <1>4, <2>1, <2>2 DEF SchedulerInv, RemoveIsAlone
<1>12. JobIsKnown'
  <2>. SUFFICES ASSUME NEW q \in Names, jobs'[q] # NoJob
       PROVE  \/ jobs'[q] \in scheduleMap
              \/ \E e \in Callers : reply[e] = "success" /\ target[e] = jobs'[q]
              \/ \E i \in Slots' : quartzBox'[i] = RemoveJob(q)
    BY <1>1 DEF JobIsKnown, Slots
  <2>1. q # k /\ jobs'[q] = jobs[q]
    BY <1>1, <1>3 DEF TypeOK
  <2>2. ASSUME NEW i \in Slots, quartzBox[i] = RemoveJob(q)
        PROVE  i - 1 \in Slots' /\ quartzBox'[i - 1] = RemoveJob(q)
    <3>1. i # 1
      BY <1>2, <2>1, <2>2 DEF RemoveJob
    <3>. QED  BY <1>1, <2>2, <3>1, Taken
  <2>. QED  BY <2>1, <2>2 DEF SchedulerInv, JobIsKnown, Slots
<1>. QED  BY <1>7, <1>9, <1>10, <1>11, <1>12 DEF SchedulerInv

\* A caller that has its answer enters the track it was granted.
LEMMA AnsweredInv ==
  ASSUME SchedulerInv, Typed, TypeOK, NEW c \in Callers, Answered(c)
  PROVE  SchedulerInv'
<1>1. /\ UNCHANGED <<jobs, quartzBox, target>> /\ Slots' = Slots
      /\ \A e \in Callers : reply'[e] = IF e = c THEN "none" ELSE reply[e]
      /\ \A e \in Callers \ {c} : pc'[e] = pc[e]
      /\ scheduleMap' = IF reply[c] = "success" THEN scheduleMap \cup {target[c]} ELSE scheduleMap
      /\ reply[c] # "none"
  BY DEF Answered, TypeOK, Typed, Slots
<1>2. OneAdd'
  <2>1. \A i \in Slots, e \in Callers : Asked(i, e)' => Asked(i, e) /\ e # c
    BY <1>1 DEF Asked, SchedulerInv, OneAdd
  <2>. QED  BY <1>1, <2>1 DEF SchedulerInv, OneAdd, Waiting
<1>3. \A e \in Callers : Granted(e)' => Granted(e) /\ e # c
  BY <1>1 DEF Granted
<1>4. \A d \in scheduleMap' : d \in scheduleMap \/ (d = target[c] /\ Granted(c))
  BY <1>1 DEF Granted
<1>5. GrantIsAlone'
  BY <1>1, <1>3, <1>4 DEF SchedulerInv, GrantIsAlone
<1>6. RemoveIsAlone'
  BY <1>1, <1>3, <1>4 DEF SchedulerInv, RemoveIsAlone
<1>7. JobsKeyed' /\ EntryHasJob'
  BY <1>1, <1>4 DEF SchedulerInv, JobsKeyed, EntryHasJob, GrantIsAlone
<1>8. JobIsKnown'
  BY <1>1 DEF SchedulerInv, JobIsKnown
<1>. QED  BY <1>2, <1>5, <1>6, <1>7, <1>8 DEF SchedulerInv

\* Somebody takes an entry out and queues the removal of its job.
LEMMA UnscheduleInv ==
  ASSUME SchedulerInv, Typed, TypeOK, NEW c \in Callers, NEW d \in Descriptors, UnscheduleTrack(c, d)
  PROVE  SchedulerInv'
<1>. PICK n \in Nat : n = Len(quartzBox) + 1
  BY DEF Typed
<1>. DEFINE k == Key(d)
<1>1. /\ Slots = 1..Len(quartzBox) /\ Len(quartzBox) \in Nat /\ Slots' = 1..n
      /\ quartzBox'[n] = RemoveJob(k) /\ n \notin Slots
      /\ \A i \in Slots : quartzBox'[i] = quartzBox[i]
      /\ \A i \in Slots' : i \in Slots \/ i = n
  BY DEF UnscheduleTrack, Slots, Typed
<1>2. /\ UNCHANGED <<jobs, pc, target, reply>> /\ d \in scheduleMap
      /\ scheduleMap' = scheduleMap \ {d}
  BY DEF UnscheduleTrack
<1>3. k \in Names /\ jobs[k] = d /\ d # NoJob
  BY <1>2, KeyOf DEF SchedulerInv, EntryHasJob
<1>4. quartzBox'[n].type = "Remove" /\ quartzBox'[n].key = k
  BY <1>1 DEF RemoveJob
<1>5. OneAdd'
  <2>1. \A i \in Slots', e \in Callers : Asked(i, e)' => i \in Slots /\ Asked(i, e)
    BY <1>1, <1>4 DEF Asked
  <2>. QED  BY <1>1, <1>2, <2>1 DEF SchedulerInv, OneAdd, Waiting
<1>6. GrantIsAlone' /\ JobsKeyed' /\ EntryHasJob'
  BY <1>2 DEF SchedulerInv, GrantIsAlone, JobsKeyed, EntryHasJob, Granted
<1>7. /\ \A e \in scheduleMap' : Key(e) # k
      /\ \A e \in Callers : Granted(e) => Key(target[e]) # k
      /\ \A i \in Slots : quartzBox[i].type = "Remove" => quartzBox[i].key # k
  BY <1>2, <1>3 DEF SchedulerInv, EntryHasJob, GrantIsAlone, RemoveIsAlone
<1>8. RemoveIsAlone'
  <2>. SUFFICES ASSUME NEW i \in Slots', quartzBox'[i].type = "Remove"
       PROVE  /\ jobs[quartzBox'[i].key] # NoJob
              /\ \A e \in scheduleMap' : Key(e) # quartzBox'[i].key
              /\ \A e \in Callers : Granted(e) => Key(target[e]) # quartzBox'[i].key
              /\ \A j \in Slots' : quartzBox'[j].type = "Remove"
                   /\ quartzBox'[j].key = quartzBox'[i].key => j = i
    BY <1>2 DEF RemoveIsAlone, Granted
  <2>1. CASE i = n
    BY <1>1, <1>3, <1>4, <1>7, <2>1
  <2>2. CASE i \in Slots
    BY <1>1, <1>2, <1>4, <1>7, <2>2 DEF SchedulerInv, RemoveIsAlone
  <2>. QED  BY <1>1, <2>1, <2>2
<1>9. JobIsKnown'
  <2>. SUFFICES ASSUME NEW q \in Names, jobs[q] # NoJob
       PROVE  \/ jobs[q] \in scheduleMap'
              \/ \E e \in Callers : reply[e] = "success" /\ target[e] = jobs[q]
              \/ \E i \in Slots' : quartzBox'[i] = RemoveJob(q)
    BY <1>2 DEF JobIsKnown, Slots
  <2>1. CASE jobs[q] = d
    <3>1. q = k
      BY <1>3, <2>1 DEF SchedulerInv, JobsKeyed
    <3>. QED  BY <1>1, <3>1
  <2>2. CASE jobs[q] # d
    BY <1>1, <1>2, <2>2 DEF SchedulerInv, JobIsKnown, Slots
  <2>. QED  BY <2>1, <2>2
<1>. QED  BY <1>5, <1>6, <1>8, <1>9 DEF SchedulerInv
-----------------------------------------------------------------------------
Types == TypeOK /\ Typed

\* Who is in get and does nothing stays there as it is, when versions are added.
LEMMA GetStays ==
  ASSUME Inv, NEW c \in Callers, pc'[c] = pc[c], began'[c] = began[c], hand'[c] = hand[c],
         now' = now, Deployed \subseteq Deployed'
  PROVE  GetTypeOK(c)'
BY DEF Inv, TypeOK, GetTypeOK

\* Who is not in get stays out of it, or leaves nothing behind.
LEMMA OutOfGet ==
  ASSUME Inv, NEW c \in Callers, pc'[c] \notin Getting, hand'[c] = NoList,
         began'[c] \in {0, began[c]}, now' = now
  PROVE  GetTypeOK(c)'
BY DEF Inv, TypeOK, Typed, GetTypeOK, Getting

\* What a step inside get does: it goes on, ends without a version or ends with one.
GetEffect(c) ==
  /\ pc[c] \in Getting /\ pc' \in [Callers -> Stages]
  /\ target' \in [Callers -> Descriptors \cup {NoJob}]
  /\ began' \in [Callers -> Nat] /\ hand' \in [Callers -> (SUBSET Descriptors) \cup {NoList}]
  /\ pc'[c] \in (Getting \ {"reading"}) \cup {"returned", "looking"}
  /\ IF pc'[c] = "looking" THEN target'[c] \in Deployed ELSE target'[c] = target[c]
  /\ \A e \in Callers \ {c} : /\ pc'[e] = pc[e] /\ target'[e] = target[e]
                              /\ began'[e] = began[e] /\ hand'[e] = hand[e]
  /\ GetTypeOK(c)'
  /\ toInitialize' \subseteq Tracks /\ lastAccessed' = lastAccessed
  /\ cached' = NoList \/ cached' \subseteq Deployed
  /\ UNCHANGED getVars /\ Deployed' = Deployed

LEMMA CacheSteps ==
  ASSUME Inv, NEW c \in Callers, CacheStep(c)
  PROVE  GetEffect(c)
<1>. USE DEF Inv
<1>0. /\ Deployed \subseteq Descriptors /\ now \in Nat /\ hand \in [Callers -> (SUBSET Descriptors) \cup {NoList}]
      /\ pc \in [Callers -> Stages] /\ target \in [Callers -> Descriptors \cup {NoJob}]
      /\ began \in [Callers -> Nat] /\ GetTypeOK(c) /\ toInitialize \subseteq Tracks
      /\ cached = NoList \/ cached \subseteq Deployed
  BY DEF Deployed, TypeOK, Typed
<1>1. UNCHANGED getVars /\ Deployed' = Deployed /\ now' = now /\ lastAccessed' = lastAccessed
  BY DEF CacheStep, ReadCached, TestAge, TestsAge, ListTracks, StoreTracks, TakeFetched, getVars,
         deployVars, Deployed
<1>2. ASSUME NEW stage \in {"looking", "returned"}, LeaveGet(c, stage)
      PROVE  /\ pc' \in [Callers -> Stages] /\ pc'[c] = stage
             /\ began' \in [Callers -> Nat] /\ hand' \in [Callers -> (SUBSET Descriptors) \cup {NoList}]
             /\ \A e \in Callers \ {c} : /\ pc'[e] = pc[e] /\ began'[e] = began[e]
                                         /\ hand'[e] = hand[e]
             /\ GetTypeOK(c)'
  <2>1. /\ pc' \in [Callers -> Stages] /\ pc'[c] = stage
        /\ began' \in [Callers -> Nat] /\ hand' \in [Callers -> (SUBSET Descriptors) \cup {NoList}]
        /\ \A e \in Callers \ {c} : /\ pc'[e] = pc[e] /\ began'[e] = began[e]
                                    /\ hand'[e] = hand[e]
        /\ began'[c] = 0 /\ hand'[c] = NoList
    BY <1>0, <1>2 DEF LeaveGet, Stages
  <2>. QED  BY <1>1, <2>1, OutOfGet DEF Getting
<1>3. ASSUME GetThrows(c), cached' = cached, pc[c] \in Getting
      PROVE  GetEffect(c)
  BY <1>0, <1>1, <1>2, <1>3 DEF GetThrows, GetEffect
<1>4. ASSUME NEW list \in SUBSET Deployed, Chooses(c, list), cached' = cached, pc[c] \in Getting
      PROVE  GetEffect(c)
  <2>1. CASE LeaveGet(c, "returned") /\ UNCHANGED target
    BY <1>0, <1>1, <1>2, <1>4, <2>1 DEF Chooses, GetEffect
  <2>2. ASSUME NEW d \in list, target' = [target EXCEPT ![c] = d], LeaveGet(c, "looking")
        PROVE  GetEffect(c)
    BY <1>0, <1>1, <1>2, <1>4, <2>2 DEF Chooses, GetEffect
  <2>. QED  BY <1>4, <2>1, <2>2 DEF Chooses
<1>5. ASSUME NEW stage \in Getting \ {"reading"}, pc[c] \in Getting, pc' = [pc EXCEPT ![c] = stage],
             NEW list, hand' = [hand EXCEPT ![c] = list],
             IF stage \in {"testing", "storing"} THEN list \subseteq Deployed ELSE list = NoList,
             stage = "testing" => list # NoList,
             UNCHANGED <<began, target, toInitialize>>,
             cached' = NoList \/ cached' \subseteq Deployed
      PROVE  GetEffect(c)
  <2>1. list \in (SUBSET Descriptors) \cup {NoList}
    BY <1>0, <1>5
  <2>2. /\ pc' \in [Callers -> Stages] /\ hand' \in [Callers -> (SUBSET Descriptors) \cup {NoList}]
        /\ pc'[c] = stage /\ hand'[c] = list
        /\ \A e \in Callers \ {c} : pc'[e] = pc[e] /\ hand'[e] = hand[e]
    BY <1>0, <1>5, <2>1 DEF Stages
  <2>3. GetTypeOK(c)'
    BY <1>0, <1>1, <1>5, <2>2 DEF GetTypeOK
  <2>. QED  BY <1>0, <1>1, <1>5, <2>2, <2>3 DEF Getting, GetEffect
<1>6. CASE ReadCached(c)
  <2>1. CASE cached = NoList
    <3>1. /\ pc' = [pc EXCEPT ![c] = "listing"] /\ hand' = [hand EXCEPT ![c] = NoList]
          /\ UNCHANGED <<began, target, toInitialize, cached>> /\ pc[c] \in Getting
      BY <1>6, <2>1 DEF ReadCached, Getting
    <3>2. "listing" \in Getting \ {"reading"} /\ "listing" \notin {"testing", "storing"}
      BY DEF Getting
    <3>. QED  BY <1>5, <2>1, <3>1, <3>2
  <2>2. CASE cached # NoList
    BY <1>0, <1>5, <1>6, <2>2 DEF ReadCached, Getting
  <2>. QED  BY <2>1, <2>2
<1>7. CASE TestAge(c)
  <2>1. CASE now - lastAccessed >= MaxAge /\ pc' = [pc EXCEPT ![c] = "listing"]
    <3>1. /\ hand' = [hand EXCEPT ![c] = NoList] /\ UNCHANGED <<began, target, toInitialize>>
      BY <1>0, <1>7, <2>1, SMTT(30) DEF TestAge, TestsAge, Chooses, LeaveGet
    <3>2. UNCHANGED cached /\ pc[c] \in Getting
      BY <1>7 DEF TestAge, TestsAge, Getting
    <3>3. "listing" \in Getting \ {"reading"} /\ "listing" \notin {"testing", "storing"}
      BY DEF Getting
    <3>. QED  BY <1>0, <1>5, <2>1, <3>1, <3>2, <3>3
  <2>2. CASE now - lastAccessed < MaxAge /\ Chooses(c, hand[c])
    <3>1. hand[c] \subseteq Deployed /\ pc[c] \in Getting /\ cached' = cached
      BY <1>0, <1>7 DEF TestAge, TestsAge, GetTypeOK, Getting
    <3>. QED  BY <1>4, <2>2, <3>1
  <2>. QED  BY <1>7, <2>1, <2>2 DEF TestAge, TestsAge
<1>8. CASE ListTracks(c)
  <2>1. CASE GetThrows(c)
    BY <1>3, <1>8, <2>1 DEF ListTracks, Getting
  <2>2. CASE ~GetThrows(c)
    BY <1>0, <1>5, <1>8, <2>2 DEF ListTracks, Getting
  <2>. QED  BY <2>1, <2>2
<1>9. CASE StoreTracks(c)
  <2>1. hand[c] \subseteq Deployed
    BY <1>0, <1>9 DEF StoreTracks, GetTypeOK
  <2>2. /\ pc' = [pc EXCEPT ![c] = "fetched"] /\ hand' = [hand EXCEPT ![c] = NoList]
        /\ UNCHANGED <<began, target, toInitialize>> /\ pc[c] \in Getting
        /\ cached' \subseteq Deployed
    BY <1>9, <2>1 DEF StoreTracks, Getting
  <2>3. "fetched" \in Getting \ {"reading"} /\ "fetched" \notin {"testing", "storing"}
    BY DEF Getting
  <2>. QED  BY <1>5, <2>2, <2>3
<1>10. CASE TakeFetched(c)
  <2>1. CASE GetThrows(c)
    BY <1>3, <1>10, <2>1 DEF TakeFetched, Getting
  <2>2. CASE cached # NoList /\ Chooses(c, cached)
    BY <1>0, <1>4, <1>10, <2>2 DEF TakeFetched, Getting
  <2>. QED  BY <1>10, <2>1, <2>2 DEF TakeFetched
<1>. QED  BY <1>6, <1>7, <1>8, <1>9, <1>10 DEF CacheStep

\* Whoever has a version in view keeps it, and objects and callers stay apart.
LEMMA CallerTypes ==
  ASSUME Inv, NEW c \in Callers, CallerStep(c)
  PROVE  Types'
<1>. USE DEF Inv
<1>1. Deployed' = Deployed /\ now' = now
  <2>1. CASE CacheStep(c)
    BY <2>1, CacheSteps DEF GetEffect, getVars, deployVars
  <2>2. CASE ~CacheStep(c)
    BY <2>2 DEF CallerStep, LookUp, GenerateTrack, InitializeTrack, ReturnTrack, Return, Answered,
                deployVars, Deployed
  <2>. QED  BY <2>1, <2>2
<1>0. ASSUME ~CacheStep(c)
      PROVE  /\ began' = began /\ hand' = hand /\ cached' = cached /\ lastAccessed' = lastAccessed
             /\ pc[c] \notin Getting /\ pc'[c] \notin Getting
             /\ \A e \in Callers : GetTypeOK(e)'
  <2>1. /\ began' = began /\ hand' = hand /\ cached' = cached /\ lastAccessed' = lastAccessed
        /\ pc[c] \notin Getting /\ pc'[c] \notin Getting
        /\ \A e \in Callers \ {c} : pc'[e] = pc[e]
    BY <1>0 DEF CallerStep, LookUp, GenerateTrack, InitializeTrack, ReturnTrack, Return, Answered,
                factoryVars, Getting, Typed
  <2>2. hand[c] = NoList
    BY <2>1 DEF TypeOK, GetTypeOK, Getting
  <2>. QED  BY <1>1, <2>1, <2>2, OutOfGet, GetStays
<1>2. CASE CacheStep(c)
  <2>1. GetEffect(c)
    BY <1>2, CacheSteps
  <2>2. UNCHANGED <<scheduleMap, jobs, quartzBox, startBox, fires, reply, deployVars, trackMap,
                    call, object>>
    BY <2>1 DEF GetEffect, getVars
  <2>3. \A e \in Callers : GetTypeOK(e)'
    BY <1>1, <2>1, GetStays DEF GetEffect
  <2>4. \A e \in Callers :
          pc'[e] \in {"looking", "loading", "initializing", "scheduling", "scheduled"}
            => target'[e] \in Deployed
    BY <2>1 DEF GetEffect, TypeOK, Getting
  <2>5. TypeOK'
    BY <1>1, <2>1, <2>2, <2>3, <2>4 DEF GetEffect, TypeOK, deployVars
  <2>6. \A e \in Callers : /\ pc'[e] = "initializing" => object'[e] \in Tracked
                           /\ pc'[e] \in Getting \cup {"schedulingPage"} => target'[e] \in Descriptors
    BY <2>1, <2>2 DEF GetEffect, Typed, Getting
  <2>. QED  BY <2>1, <2>2, <2>5, <2>6 DEF GetEffect, Types, Typed, deployVars
<1>3. CASE LookUp(c)
  <2>0. ~CacheStep(c)
    BY <1>3 DEF LookUp, CacheStep, ReadCached, TestAge, TestsAge, ListTracks, StoreTracks, TakeFetched
  <2>1. TypeOK'
    BY <1>0, <1>1, <2>0, <1>3 DEF LookUp, TypeOK, Typed, deployVars, Deployed
  <2>2. /\ pc' \in [Callers -> Stages] /\ pc'[c] \in {"returned", "loading"}
        /\ \A e \in Callers \ {c} : pc'[e] = pc[e] /\ object'[e] = object[e]
        /\ UNCHANGED <<target, quartzBox, startBox, now, revision>>
    BY <1>3 DEF LookUp, Typed, TypeOK, deployVars, Stages
  <2>3. Typed'
    BY <1>0, <2>0, <2>2 DEF Typed
  <2>. QED  BY <2>1, <2>3 DEF Types
<1>4. CASE GenerateTrack(c)
  <2>0. ~CacheStep(c)
    BY <1>4 DEF GenerateTrack, CacheStep, ReadCached, TestAge, TestsAge, ListTracks, StoreTracks, TakeFetched
  <2>. DEFINE d == target[c]
              new == Object(revision[d.track][d.version], c, FALSE)
  <2>1. d \in Deployed /\ d \in Descriptors /\ new \in Tracked
    <3>1. d \in Deployed
      BY <1>4 DEF GenerateTrack, TypeOK
    <3>2. d \in Descriptors /\ d.track \in Tracks /\ d.version \in Versions
      BY <3>1 DEF Deployed, Descriptors
    <3>3. revision[d.track][d.version] \in 1..MaxRevision
      BY <3>1, <3>2 DEF Deployed, Typed
    <3>. QED  BY <3>1, <3>2, <3>3 DEF Object, Tracked
  <2>2. /\ trackMap' \in [Descriptors -> Tracked \cup {NoTrack}]
        /\ object' \in [Callers -> Tracked \cup {NoTrack}]
        /\ pc' \in [Callers -> Stages]
        /\ \/ pc'[c] = "returned"
           \/ pc'[c] = "initializing" /\ object'[c] \in Tracked
        /\ \A e \in Callers \ {c} : pc'[e] = pc[e] /\ object'[e] = object[e]
    <3>1. CASE pc' = [pc EXCEPT ![c] = "returned"] /\ UNCHANGED <<trackMap, object>>
      BY <3>1 DEF TypeOK, Typed, Stages
    <3>2. CASE /\ pc' = [pc EXCEPT ![c] = "initializing"]
               /\ trackMap' = [trackMap EXCEPT ![d] = new] /\ object' = [object EXCEPT ![c] = new]
      <4>. HIDE DEF new
      <4>. QED  BY <2>1, <3>2 DEF TypeOK, Typed, Stages
    <3>. QED  BY <1>4, <3>1, <3>2 DEF GenerateTrack
  <2>3. UNCHANGED <<scheduleMap, jobs, quartzBox, startBox, fires, target, reply,
                    deployVars, cached, lastAccessed, toInitialize, call>>
    BY <1>4 DEF GenerateTrack
  <2>4. TypeOK'
    BY <1>0, <1>1, <2>0, <2>1, <2>2, <2>3 DEF TypeOK, deployVars
  <2>. QED  BY <1>0, <2>0, <2>2, <2>3, <2>4 DEF Types, Typed, deployVars
<1>5. CASE InitializeTrack(c)
  <2>0. ~CacheStep(c)
    BY <1>5 DEF InitializeTrack, CacheStep, ReadCached, TestAge, TestsAge, ListTracks, StoreTracks, TakeFetched
  <2>. DEFINE d == target[c]
  <2>1. d \in Deployed /\ d \in Descriptors /\ object[c] \in Tracked
    BY <1>5 DEF InitializeTrack, TypeOK, Typed, Deployed
  <2>2. trackMap' \in [Descriptors -> Tracked \cup {NoTrack}]
        /\ object' \in [Callers -> Tracked \cup {NoTrack}]
    <3>1. CASE UNCHANGED trackMap /\ object' = [object EXCEPT ![c] = NoTrack]
      BY <3>1 DEF TypeOK
    <3>2. CASE Ready(c)
      <4>1. [object[c] EXCEPT !.ready = TRUE] \in Tracked
        BY <2>1 DEF Tracked
      <4>2. object' = [object EXCEPT ![c] = [object[c] EXCEPT !.ready = TRUE]]
        BY <3>2 DEF Ready
      <4>3. trackMap' = IF trackMap[d] = object[c]
                        THEN [trackMap EXCEPT ![d] = [object[c] EXCEPT !.ready = TRUE]] ELSE trackMap
        BY <3>2 DEF Ready
      <4>. QED  BY <2>1, <4>1, <4>2, <4>3 DEF TypeOK
    <3>. QED  BY <1>5, <3>1, <3>2 DEF InitializeTrack
  <2>3. quartzBox' \in Seq(QuartzMsg) /\ reply' \in [Callers -> {"none", "success", "failure"}]
    <3>1. CASE UNCHANGED <<quartzBox, reply>>
      BY <3>1 DEF TypeOK, Typed
    <3>2. ASSUME NEW valid \in BOOLEAN, SendSchedule(c, d, valid)
          PROVE  <2>3!:
      <4>1. AddSchedule(c, d, valid) \in QuartzMsg
        BY <2>1 DEF AddSchedule, QuartzMsg
      <4>. QED  BY <3>2, <4>1 DEF SendSchedule, TypeOK, Typed
    <3>. QED  BY <1>5, <3>1, <3>2 DEF InitializeTrack
  <2>4. /\ pc' \in [Callers -> Stages] /\ pc'[c] \in {"returned", "scheduled", "scheduling"}
        /\ \A e \in Callers \ {c} : pc'[e] = pc[e] /\ object'[e] = object[e]
    BY <1>5 DEF InitializeTrack, Ready, TypeOK, Typed, Stages
  <2>5. UNCHANGED <<scheduleMap, jobs, startBox, fires, target, deployVars, cached,
                    lastAccessed, toInitialize, call>>
    BY <1>5 DEF InitializeTrack
  <2>6. TypeOK'
    BY <1>0, <1>1, <2>0, <2>1, <2>2, <2>3, <2>4, <2>5 DEF TypeOK, deployVars
  <2>. QED  BY <1>0, <2>0, <2>1, <2>3, <2>4, <2>5, <2>6 DEF Types, Typed, deployVars
<1>6. CASE ReturnTrack(c)
  <2>0. ~CacheStep(c)
    BY <1>6 DEF ReturnTrack, CacheStep, ReadCached, TestAge, TestsAge, ListTracks, StoreTracks, TakeFetched
  <2>1. target[c] \in Descriptors
    BY <1>6 DEF ReturnTrack, TypeOK, Deployed
  <2>2. TypeOK'
    BY <1>0, <1>1, <2>0, <1>6, <2>1 DEF ReturnTrack, TypeOK, Typed, deployVars
  <2>. QED  BY <1>0, <2>0, <1>6, <2>2 DEF ReturnTrack, Types, Typed, deployVars, Stages, Getting
<1>7. CASE Return(c)
  <2>0. ~CacheStep(c)
    BY <1>7 DEF Return, CacheStep, ReadCached, TestAge, TestsAge, ListTracks, StoreTracks, TakeFetched
  <2>1. TypeOK'
    BY <1>0, <1>1, <2>0, <1>7 DEF Return, TypeOK, Typed, deployVars
  <2>. QED  BY <1>0, <2>0, <1>7, <2>1 DEF Return, Types, Typed, deployVars, Stages, Getting
<1>8. CASE Answered(c) /\ UNCHANGED <<deployVars, factoryVars>>
  <2>0. ~CacheStep(c)
    BY <1>8 DEF Answered, CacheStep, ReadCached, TestAge, TestsAge, ListTracks, StoreTracks, TakeFetched
  <2>1. target[c] \in Descriptors
    BY <1>8 DEF Answered, TypeOK, Typed, Deployed
  <2>2. TypeOK'
    BY <1>0, <1>1, <2>0, <1>8, <2>1 DEF Answered, TypeOK, Typed, deployVars, factoryVars
  <2>. QED  BY <1>0, <2>0, <1>8, <2>2 DEF Answered, Types, Typed, deployVars, factoryVars, Stages, Getting
<1>. QED  BY <1>2, <1>3, <1>4, <1>5, <1>6, <1>7, <1>8, CallerStep(c) DEF CallerStep

\* A call begins: the caller was not past reading, and now reads.
LEMMA BeginTypes ==
  ASSUME Inv, NEW c \in Callers, NEW t \in Tracks, NEW what \in Calls, Begin(c, t, what),
         pc[c] = "idle",
         trackMap' \in [Descriptors -> Tracked \cup {NoTrack}],
         cached' = cached \/ cached' = NoList, lastAccessed' \in 0..now,
         toInitialize' \subseteq Tracks, startBox' \in Seq(Descriptors),
         UNCHANGED <<scheduleMap, jobs, quartzBox, reply, deployVars>>
  PROVE  Types'
<1>. USE DEF Inv
<1>1. /\ pc' = [pc EXCEPT ![c] = "reading"] /\ pc' \in [Callers -> Stages]
      /\ target' = [target EXCEPT ![c] = Descriptor(t, LATEST)]
      /\ Descriptor(t, LATEST) \in Descriptors
      /\ call' \in [Callers -> Calls \cup {"none"}] /\ object' = object
      /\ began' = [began EXCEPT ![c] = now] /\ began' \in [Callers -> Nat] /\ hand' = hand
  BY DEF Begin, Typed, TypeOK, Stages, Getting, Descriptor, Descriptors, LATEST
<1>2. Deployed' = Deployed
  BY DEF deployVars, Deployed
<1>4. hand[c] = NoList
  BY DEF TypeOK, GetTypeOK, Getting
<1>5. \A e \in Callers : GetTypeOK(e)'
  <2>1. GetTypeOK(c)'
    BY <1>1, <1>4 DEF Typed, TypeOK, GetTypeOK, deployVars
  <2>2. \A e \in Callers \ {c} : GetTypeOK(e)'
    BY <1>1, <1>2, GetStays DEF deployVars
  <2>. QED  BY <2>1, <2>2
<1>3. TypeOK'
  BY <1>1, <1>2, <1>5 DEF TypeOK, Typed, deployVars
<1>. QED  BY <1>1, <1>3 DEF Types, Typed, deployVars, Getting

\* A step that is no caller's own.
LEMMA OtherTypes ==
  ASSUME Inv, [Next]_vars,
         ~(\E c \in Callers : CallerStep(c)
             \/ \E t \in Tracks : InitializeAllTracks(c, t) \/ GetTrack(c, t) \/ RefreshTrack(c, t)),
         ~StartGoal
  PROVE  Types'
<1>. USE DEF Inv
<1>1. ASSUME NEW t \in Tracks, NEW v \in Versions, Upload(t, v)
      PROVE  Types'
  <2>1. /\ revision' \in [Tracks -> [Versions -> 0..MaxRevision]]
        /\ \A u \in Tracks, w \in Versions : revision'[u][w] >= revision[u][w]
    <3>1. /\ revision' = [revision EXCEPT ![t] = [revision[t] EXCEPT ![v] = revision[t][v] + 1]]
          /\ revision[t] \in [Versions -> 0..MaxRevision] /\ revision[t][v] < MaxRevision
      BY <1>1 DEF Upload, Typed
    <3>2. [revision[t] EXCEPT ![v] = revision[t][v] + 1] \in [Versions -> 0..MaxRevision]
      BY <3>1
    <3>. QED  BY <3>1, <3>2 DEF Typed
  <2>2. Deployed \subseteq Deployed' /\ 1 \in Versions
    BY <2>1 DEF Deployed, Descriptors, Typed, Versions
  <2>3. UNCHANGED <<schedulerVars, now, factoryVars>>
    BY <1>1 DEF Upload
  <2>6. \A e \in Callers : GetTypeOK(e)'
    BY <2>2, <2>3, GetStays DEF schedulerVars, factoryVars
  <2>4. TypeOK'
    BY <2>2, <2>3, <2>6 DEF TypeOK, schedulerVars, factoryVars
  <2>5. \A u \in Tracks : revision'[u][1] > 0
    BY <2>1, <2>2 DEF Typed
  <2>. QED  BY <2>1, <2>3, <2>4, <2>5 DEF Types, Typed, schedulerVars, factoryVars
<1>2. CASE Tick
  <2>1. UNCHANGED <<schedulerVars, revision, factoryVars>> /\ now' = now + 1 /\ Deployed' = Deployed
    BY <1>2 DEF Tick, Deployed
  <2>3. \A e \in Callers : GetTypeOK(e)'
    BY <1>2, <2>1 DEF Tick, TypeOK, Typed, GetTypeOK, schedulerVars, factoryVars
  <2>2. TypeOK'
    BY <2>1, <2>3 DEF TypeOK, Typed, schedulerVars, factoryVars
  <2>. QED  BY <2>1, <2>2 DEF Types, Typed, schedulerVars, factoryVars
<1>3. ASSUME UNCHANGED <<deployVars, factoryVars>>,
             scheduleMap' \subseteq Descriptors, jobs' \in [Names -> Descriptors \cup {NoJob}],
             quartzBox' \in Seq(QuartzMsg), startBox' \in Seq(Descriptors),
             reply' \in [Callers -> {"none", "success", "failure"}],
             \/ UNCHANGED <<pc, target>>
             \/ \E c \in Callers, d \in Descriptors : pc[c] = "idle" /\
                  pc' = [pc EXCEPT ![c] = "schedulingPage"] /\ target' = [target EXCEPT ![c] = d]
      PROVE  Types'
  <2>1. Deployed' = Deployed
    BY <1>3 DEF deployVars, Deployed
  <2>2. CASE UNCHANGED <<pc, target>>
    <3>1. \A e \in Callers : GetTypeOK(e)'
      BY <1>3, <2>1, <2>2, GetStays DEF deployVars, factoryVars
    <3>. QED  BY <1>3, <2>1, <2>2, <3>1 DEF Types, TypeOK, Typed, deployVars, factoryVars
  <2>3. ASSUME NEW c \in Callers, NEW d \in Descriptors, pc[c] = "idle",
               pc' = [pc EXCEPT ![c] = "schedulingPage"], target' = [target EXCEPT ![c] = d]
        PROVE  Types'
    <3>2. pc'[c] = "schedulingPage" /\ hand[c] = NoList
          /\ \A e \in Callers \ {c} : pc'[e] = pc[e]
      BY <2>3 DEF Typed, TypeOK, GetTypeOK, Getting
    <3>3. \A e \in Callers : GetTypeOK(e)'
      BY <1>3, <2>1, <3>2, GetStays, OutOfGet DEF deployVars, factoryVars, Getting
    <3>1. TypeOK'
      BY <1>3, <2>1, <2>3, <3>3 DEF TypeOK, Typed, deployVars, factoryVars
    <3>. QED  BY <1>3, <2>3, <3>1 DEF Types, Typed, deployVars, factoryVars, Stages, Getting
  <2>. QED  BY <1>3, <2>2, <2>3
<1>4. CASE SchedulerStep
  <2>1. ASSUME NEW c \in Callers, NEW t \in Tracks, NEW valid \in BOOLEAN, ScheduleTrack(c, t, valid)
        PROVE  Types'
    <3>1. Descriptor(t, LATEST) \in Descriptors /\ AddSchedule(c, Descriptor(t, LATEST), valid) \in QuartzMsg
      BY DEF Descriptor, Descriptors, LATEST, AddSchedule, QuartzMsg
    <3>2. quartzBox' \in Seq(QuartzMsg) /\ reply' \in [Callers -> {"none", "success", "failure"}]
      BY <2>1, <3>1 DEF ScheduleTrack, SendSchedule, Typed, TypeOK
    <3>. QED  BY <1>3, <1>4, <2>1, <3>1, <3>2 DEF SchedulerStep, ScheduleTrack, Typed, TypeOK
  <2>2. ASSUME NEW c \in Callers, NEW d \in Descriptors, UnscheduleTrack(c, d)
        PROVE  Types'
    <3>1. RemoveJob(Key(d)) \in QuartzMsg
      BY KeyOf DEF RemoveJob, QuartzMsg
    <3>2. quartzBox' \in Seq(QuartzMsg)
      BY <2>2, <3>1 DEF UnscheduleTrack, Typed
    <3>. QED  BY <1>3, <1>4, <2>2, <3>2 DEF SchedulerStep, UnscheduleTrack, Typed, TypeOK
  <2>3. ASSUME NEW n \in Names, Fire(n)
        PROVE  Types'
    <3>1. startBox' \in Seq(Descriptors)
      BY <2>3 DEF Fire, Typed, TypeOK
    <3>. QED  BY <1>3, <1>4, <2>3, <3>1 DEF SchedulerStep, Fire, Typed, TypeOK
  <2>. QED  BY <1>4, <2>1, <2>2, <2>3 DEF SchedulerStep
<1>5. CASE QuartzStep
  <2>1. CASE QuartzAdd
    <3>. DEFINE m == Head(quartzBox)
    <3>1. m.from \in Callers /\ m.desc \in Descriptors /\ Key(m.desc) \in Names
      BY <2>1, Taken, KeyOf DEF QuartzAdd, Adds, QuartzMsg
    <3>2. quartzBox' \in Seq(QuartzMsg)
      BY <2>1 DEF QuartzAdd, Adds, Typed
    <3>3. jobs' \in [Names -> Descriptors \cup {NoJob}] /\ reply' \in [Callers -> {"none", "success", "failure"}]
      BY <2>1, <3>1 DEF QuartzAdd, Adds, TypeOK
    <3>. QED  BY <1>3, <1>5, <2>1, <3>2, <3>3 DEF QuartzStep, QuartzAdd, Adds, Typed, TypeOK
  <2>2. CASE QuartzRemove
    <3>1. quartzBox' \in Seq(QuartzMsg) /\ jobs' \in [Names -> Descriptors \cup {NoJob}]
      BY <2>2, Taken DEF QuartzRemove, QuartzMsg, Typed, TypeOK
    <3>. QED  BY <1>3, <1>5, <2>2, <3>1 DEF QuartzStep, QuartzRemove, Typed, TypeOK
  <2>. QED  BY <1>5, <2>1, <2>2 DEF QuartzStep
<1>6. CASE UNCHANGED vars
  BY <1>3, <1>6 DEF vars, schedulerVars, Typed, TypeOK
<1>. QED  BY <1>1, <1>2, <1>4, <1>5, <1>6 DEF Next

\* Every step keeps the types.
LEMMA StepTypes ==
  ASSUME Inv, [Next]_vars
  PROVE  Types'
<1>. USE DEF Inv
<1>1. ASSUME NEW c \in Callers, CallerStep(c)
      PROVE  Types'
  BY <1>1, CallerTypes
<1>2. ASSUME NEW c \in Callers, NEW t \in Tracks, InitializeAllTracks(c, t)
      PROVE  Types'
  BY <1>2, BeginTypes DEF InitializeAllTracks, TypeOK, Typed, Calls
<1>3. ASSUME NEW c \in Callers, NEW t \in Tracks, GetTrack(c, t)
      PROVE  Types'
  BY <1>3, BeginTypes DEF GetTrack, TypeOK, Typed, Calls
<1>4. ASSUME NEW c \in Callers, NEW t \in Tracks, RefreshTrack(c, t)
      PROVE  Types'
  <2>1. trackMap' \in [Descriptors -> Tracked \cup {NoTrack}] /\ lastAccessed' \in 0..now
    <3>1. lastAccessed' = now /\ now \in Nat
      BY <1>4 DEF RefreshTrack, Typed
    <3>2. trackMap' = trackMap \/ \E d \in Descriptors : trackMap' = [trackMap EXCEPT ![d] = NoTrack]
      BY <1>4 DEF RefreshTrack
    <3>3. trackMap' \in [Descriptors -> Tracked \cup {NoTrack}]
      BY <3>2 DEF TypeOK
    <3>. QED  BY <3>1, <3>3
  <2>. QED  BY <1>4, <2>1, BeginTypes DEF RefreshTrack, TypeOK, Typed, Calls
<1>5. CASE StartGoal
  <2>1. Head(startBox).track \in Tracks /\ startBox' \in Seq(Descriptors)
    <3>1. startBox # <<>> /\ startBox' = Tail(startBox)
      BY <1>5 DEF StartGoal
    <3>2. Head(startBox) \in Descriptors /\ startBox' \in Seq(Descriptors)
      BY <3>1 DEF Typed
    <3>. QED  BY <3>2 DEF Descriptors
  <2>. QED  BY <1>5, <2>1, BeginTypes DEF StartGoal, TypeOK, Typed, Calls
<1>. QED  BY <1>1, <1>2, <1>3, <1>4, <1>5, OtherTypes

\* Every step keeps jobs, entries and requests together.
LEMMA StepScheduler ==
  ASSUME Inv, [Next]_vars
  PROVE  SchedulerInv'
<1>. USE DEF Inv
<1>1. ASSUME UNCHANGED <<scheduleMap, jobs, quartzBox, pc, target, reply>>
      PROVE  SchedulerInv'
  BY <1>1 DEF SchedulerInv, OneAdd, GrantIsAlone, RemoveIsAlone, JobsKeyed, EntryHasJob,
              JobIsKnown, Waiting, Granted, Slots, Asked
<1>2. ASSUME NEW c \in Callers, NEW t \in Tracks, NEW what \in Calls, pc[c] = "idle",
             Begin(c, t, what), UNCHANGED <<scheduleMap, jobs, quartzBox, reply>>
      PROVE  SchedulerInv'
  <2>1. Quiet(c)
    BY <1>2 DEF Quiet, Begin, Waiting, WaitingStages, Typed
  <2>. QED  BY <2>1, QuietInv
<1>3. ASSUME NEW c \in Callers, CallerStep(c)
      PROVE  SchedulerInv'
  <2>1. ASSUME ~Waiting(c), ~Waiting(c)', \A e \in Callers \ {c} : pc'[e] = pc[e] /\ target'[e] = target[e],
               UNCHANGED <<scheduleMap, jobs, quartzBox, reply>>
        PROVE  SchedulerInv'
    BY <2>1, QuietInv DEF Quiet
  <2>2. CASE CacheStep(c)
    <3>1. ~Waiting(c) /\ ~Waiting(c)' /\ \A e \in Callers \ {c} : pc'[e] = pc[e] /\ target'[e] = target[e]
      BY <2>2, CacheSteps DEF GetEffect, Waiting, WaitingStages, Getting
    <3>. QED  BY <2>1, <2>2, <3>1, CacheSteps DEF GetEffect, getVars
  <2>3. CASE LookUp(c)
    <3>1. ~Waiting(c) /\ ~Waiting(c)' /\ \A e \in Callers \ {c} : pc'[e] = pc[e] /\ target'[e] = target[e]
      BY <2>3 DEF LookUp, Waiting, WaitingStages, Typed
    <3>. QED  BY <2>1, <2>3, <3>1 DEF LookUp
  <2>4. CASE GenerateTrack(c)
    <3>1. ~Waiting(c) /\ ~Waiting(c)' /\ \A e \in Callers \ {c} : pc'[e] = pc[e] /\ target'[e] = target[e]
      BY <2>4 DEF GenerateTrack, Waiting, WaitingStages, Typed
    <3>. QED  BY <2>1, <2>4, <3>1 DEF GenerateTrack
  <2>5. CASE InitializeTrack(c)
    <3>1. UNCHANGED <<scheduleMap, jobs, target>> /\ ~Waiting(c) /\ target[c] \in Descriptors
          /\ \A e \in Callers \ {c} : pc'[e] = pc[e]
      BY <2>5 DEF InitializeTrack, Waiting, WaitingStages, Typed, TypeOK, Deployed
    <3>2. CASE UNCHANGED <<quartzBox, reply>> /\ ~Waiting(c)'
      BY <2>1, <3>1, <3>2
    <3>3. ASSUME NEW valid \in BOOLEAN, Waiting(c)', SendSchedule(c, target[c], valid)
          PROVE  SchedulerInv'
      <4>1. Asks(c)
        BY <3>1, <3>3 DEF Asks
      <4>. QED  BY <4>1, AsksInv
    <3>4. \/ UNCHANGED <<quartzBox, reply>> /\ ~Waiting(c)'
          \/ \E valid \in BOOLEAN : Waiting(c)' /\ SendSchedule(c, target[c], valid)
      BY <2>5 DEF InitializeTrack, Waiting, WaitingStages, Typed
    <3>. QED  BY <3>2, <3>3, <3>4
  <2>6. CASE ReturnTrack(c)
    <3>1. ~Waiting(c) /\ ~Waiting(c)' /\ \A e \in Callers \ {c} : pc'[e] = pc[e] /\ target'[e] = target[e]
      BY <2>6 DEF ReturnTrack, Waiting, WaitingStages, Typed
    <3>. QED  BY <2>1, <2>6, <3>1 DEF ReturnTrack
  <2>7. CASE Return(c)
    <3>1. ~Waiting(c) /\ ~Waiting(c)' /\ \A e \in Callers \ {c} : pc'[e] = pc[e] /\ target'[e] = target[e]
      BY <2>7 DEF Return, Waiting, WaitingStages, Typed
    <3>. QED  BY <2>1, <2>7, <3>1 DEF Return
  <2>8. CASE Answered(c)
    BY <2>8, AnsweredInv
  <2>. QED  BY <1>3, <2>2, <2>3, <2>4, <2>5, <2>6, <2>7, <2>8 DEF CallerStep
<1>4. ASSUME NEW c \in Callers, NEW t \in Tracks,
             InitializeAllTracks(c, t) \/ GetTrack(c, t) \/ RefreshTrack(c, t)
      PROVE  SchedulerInv'
  BY <1>2, <1>4 DEF InitializeAllTracks, GetTrack, RefreshTrack, Calls
<1>5. CASE StartGoal
  <2>1. Head(startBox).track \in Tracks
    <3>1. Head(startBox) \in Descriptors
      BY <1>5 DEF StartGoal, Typed
    <3>. QED  BY <3>1 DEF Descriptors
  <2>. QED  BY <1>2, <1>5, <2>1 DEF StartGoal, Calls
<1>6. CASE SchedulerStep
  <2>1. ASSUME NEW c \in Callers, NEW t \in Tracks, NEW valid \in BOOLEAN, ScheduleTrack(c, t, valid)
        PROVE  SchedulerInv'
    <3>1. Descriptor(t, LATEST) \in Descriptors
      BY DEF Descriptor, Descriptors, LATEST
    <3>2. Asks(c)
      BY <2>1, <3>1 DEF ScheduleTrack, Asks, Waiting, WaitingStages, Typed
    <3>. QED  BY <3>2, AsksInv
  <2>2. ASSUME NEW c \in Callers, NEW d \in Descriptors, UnscheduleTrack(c, d)
        PROVE  SchedulerInv'
    BY <2>2, UnscheduleInv
  <2>3. ASSUME NEW n \in Names, Fire(n)
        PROVE  SchedulerInv'
    BY <1>1, <2>3 DEF Fire
  <2>. QED  BY <1>6, <2>1, <2>2, <2>3 DEF SchedulerStep
<1>7. CASE QuartzStep
  BY <1>7, QuartzAddInv, QuartzRemoveInv DEF QuartzStep
<1>8. ASSUME NEW t \in Tracks, NEW v \in Versions, Upload(t, v)
      PROVE  SchedulerInv'
  BY <1>1, <1>8 DEF Upload, schedulerVars
<1>9. CASE Tick \/ UNCHANGED vars
  BY <1>1, <1>9 DEF Tick, vars, schedulerVars
<1>. QED  BY <1>3, <1>4, <1>5, <1>6, <1>7, <1>8, <1>9 DEF Next
-----------------------------------------------------------------------------
(* The age of a list: it lacks nothing that was deployed before some time.    *)
(* What is cached was listed at most MaxFetch before lastAccessed, although a *)
(* release may come between a listing and its being stored.                   *)
Holds(list, time) == \A d \in Deployed : deployedAt[d.track][d.version] < time => d \in list

Refreshing(c) == pc[c] \in Getting /\ call[c] = "refreshTrack"

\* What each caller in get knows of the list in its hand, or of its own that it
\* has stored and any that has taken its place since.
GetAge(c) ==
  /\ pc[c] = "storing" => Holds(hand[c], began[c])
  /\ pc[c] = "testing" =>
       lastAccessed >= began[c] \/ Holds(hand[c], lastAccessed - MaxFetch)
  /\ pc[c] = "testing" /\ Refreshing(c) => Holds(hand[c], began[c] - MaxFetch)
  /\ pc[c] = "fetched" => cached = NoList \/ Holds(cached, began[c] - MaxFetch)
  /\ Refreshing(c) => lastAccessed >= began[c]

ListAge ==
  /\ deployedAt \in [Tracks -> [Versions -> 0..now]]
  /\ cached # NoList => Holds(cached, lastAccessed - MaxFetch)
  /\ \A c \in Callers : GetAge(c)

LEMMA Clocks ==
  ASSUME Inv
  PROVE  /\ now \in Nat /\ lastAccessed \in Nat /\ lastAccessed <= now
         /\ \A c \in Callers : began[c] \in Nat /\ began[c] <= now
         /\ \A c \in Callers : pc[c] \in Getting => now <= began[c] + MaxFetch
BY DEF Inv, TypeOK, Typed, GetTypeOK

LEMMA InitListAge == Init => ListAge
  BY DEF Init, SchedulerInit, ListAge, GetAge, Refreshing, Getting

\* A list that lacks nothing up to some time lacks nothing up to an earlier one.
LEMMA HoldsEarlier ==
  ASSUME ListAge, Inv, NEW list, NEW t \in Int, NEW u \in Int, u <= t, Holds(list, t)
  PROVE  Holds(list, u)
<1>1. \A d \in Deployed : deployedAt[d.track][d.version] \in Nat
  BY Clocks DEF Deployed, Descriptors, ListAge
<1>. QED  BY <1>1 DEF Holds

\* An upload adds nothing that was deployed before now.
LEMMA UploadHolds ==
  ASSUME ListAge, Inv, NEW t \in Tracks, NEW v \in Versions, Upload(t, v),
         NEW list, NEW time \in Int, time <= now, Holds(list, time)
  PROVE  Holds(list, time)'
<1>1. /\ UNCHANGED now
      /\ revision' = [revision EXCEPT ![t] = [revision[t] EXCEPT ![v] = revision[t][v] + 1]]
      /\ \/ revision[t][v] = 0
            /\ deployedAt' = [deployedAt EXCEPT ![t] = [deployedAt[t] EXCEPT ![v] = now]]
         \/ revision[t][v] # 0 /\ deployedAt' = deployedAt
  BY DEF Upload, Inv, Typed, ListAge
<1>2. /\ revision \in [Tracks -> [Versions -> 0..MaxRevision]]
      /\ deployedAt \in [Tracks -> [Versions -> 0..now]] /\ now \in Nat
  BY DEF Inv, Typed, ListAge
<1>3. SUFFICES ASSUME NEW d \in Deployed', deployedAt'[d.track][d.version] < time
      PROVE  d \in list
  BY DEF Holds
<1>4. d \in Descriptors /\ d.track \in Tracks /\ d.version \in Versions
  BY DEF Deployed, Descriptors
<1>5. CASE d.track # t \/ d.version # v
  <2>1. revision'[d.track][d.version] = revision[d.track][d.version]
        /\ deployedAt'[d.track][d.version] = deployedAt[d.track][d.version]
    BY <1>1, <1>2, <1>4, <1>5
  <2>. QED  BY <1>3, <1>4, <2>1 DEF Deployed, Holds
<1>6. CASE d.track = t /\ d.version = v /\ revision[t][v] = 0
  BY <1>1, <1>2, <1>3, <1>6
<1>7. CASE d.track = t /\ d.version = v /\ revision[t][v] # 0
  BY <1>1, <1>2, <1>3, <1>4, <1>7 DEF Deployed, Holds
<1>. QED  BY <1>5, <1>6, <1>7

\* Where nothing is uploaded a list holds what it held.
LEMMA SameHolds ==
  ASSUME revision' = revision, deployedAt' = deployedAt, NEW list, NEW time
  PROVE  Holds(list, time)' <=> Holds(list, time)
BY DEF Holds, Deployed

\* Steps that leave the cache and those in it alone.
LEMMA SameListAge ==
  ASSUME ListAge, Inv, revision' = revision, deployedAt' = deployedAt,
         now' \in Nat, now <= now', UNCHANGED <<cached, lastAccessed, hand>>,
         \A c \in Callers : pc'[c] \in Getting \ {"reading"} =>
             pc'[c] = pc[c] /\ began'[c] = began[c] /\ call'[c] = call[c],
         \A c \in Callers : pc'[c] = "reading" =>
             \/ pc[c] = "reading" /\ began'[c] = began[c] /\ call'[c] = call[c]
             \/ call'[c] # "refreshTrack"
  PROVE  ListAge'
<1>2. deployedAt' \in [Tracks -> [Versions -> 0..now']]
  <2>1. 0..now \subseteq 0..now'
    BY Clocks
  <2>2. \A t \in Tracks : deployedAt[t] \in [Versions -> 0..now']
    BY <2>1 DEF ListAge
  <2>. QED  BY <2>2 DEF ListAge
<1>3. cached' # NoList => Holds(cached, lastAccessed - MaxFetch)'
  BY SameHolds DEF ListAge, Holds, Deployed
<1>4. ASSUME NEW c \in Callers
      PROVE  GetAge(c)'
  <2>1. CASE pc'[c] = "reading"
    BY <2>1 DEF ListAge, GetAge, Refreshing
  <2>2. CASE pc'[c] \in Getting \ {"reading"}
    <3>1. pc'[c] = pc[c] /\ began'[c] = began[c] /\ call'[c] = call[c] /\ GetAge(c)
      BY <2>2 DEF ListAge
    <3>. QED  BY <3>1 DEF GetAge, Refreshing, Holds, Deployed
  <2>3. CASE pc'[c] \notin Getting
    BY <2>3 DEF GetAge, Refreshing, Getting
  <2>. QED  BY <2>1, <2>2, <2>3
<1>. QED  BY <1>2, <1>3, <1>4 DEF ListAge

\* Steps inside get: a list comes with the time it was listed at or later.
LEMMA CacheStepAge ==
  ASSUME ListAge, Inv, NEW c \in Callers, CacheStep(c)
  PROVE  ListAge'
<1>. USE Clocks
<1>1. /\ GetEffect(c) /\ UNCHANGED <<now, revision, deployedAt, call, lastAccessed>>
  BY CacheSteps DEF GetEffect, getVars, deployVars
<1>2. deployedAt' \in [Tracks -> [Versions -> 0..now']]
  BY <1>1 DEF ListAge
<1>3. \A list, time : Holds(list, time)' <=> Holds(list, time)
  BY <1>1 DEF Holds, Deployed
<1>4. ASSUME NEW e \in Callers, e # c, cached' = cached
      PROVE  GetAge(e)'
  <2>1. GetAge(e) /\ pc'[e] = pc[e] /\ began'[e] = began[e] /\ hand'[e] = hand[e]
    BY <1>1, <1>4 DEF GetEffect, ListAge
  <2>2. (Refreshing(e)' <=> Refreshing(e)) /\ lastAccessed' = lastAccessed
    BY <1>1, <2>1 DEF Refreshing
  <2>3. /\ Holds(hand[e], began[e])' <=> Holds(hand[e], began[e])
        /\ Holds(hand[e], lastAccessed - MaxFetch)' <=> Holds(hand[e], lastAccessed - MaxFetch)
        /\ Holds(hand[e], began[e] - MaxFetch)' <=> Holds(hand[e], began[e] - MaxFetch)
        /\ Holds(cached, began[e] - MaxFetch)' <=> Holds(cached, began[e] - MaxFetch)
    BY <1>1, <1>4, <2>1 DEF Holds, Deployed
  <2>. QED  BY <1>4, <2>1, <2>2, <2>3 DEF GetAge
<1>5. ASSUME cached' = cached
      PROVE  cached' # NoList => Holds(cached, lastAccessed - MaxFetch)'
  BY <1>1, <1>5 DEF ListAge, Holds, Deployed
<1>6. ASSUME pc'[c] \notin {"testing", "storing", "fetched"}
      PROVE  GetAge(c)'
  <2>1. Refreshing(c)' => Refreshing(c) /\ began'[c] = began[c]
    BY <1>1, CacheStep(c) DEF GetEffect, Refreshing, CacheStep, ReadCached, TestAge, TestsAge, Chooses,
       LeaveGet, GetThrows, ListTracks, StoreTracks, TakeFetched, Getting
  <2>. QED  BY <1>1, <1>6, <2>1 DEF GetAge, ListAge
<1>7. CASE ReadCached(c)
  <2>1. cached' = cached /\ began' = began /\ hand'[c] = cached
        /\ pc'[c] = IF cached = NoList THEN "listing" ELSE "testing"
    BY <1>7 DEF ReadCached, Inv, TypeOK, Typed
  <2>2. CASE cached = NoList
    BY <1>2, <1>4, <1>5, <1>6, <2>1, <2>2 DEF ListAge
  <2>3. CASE cached # NoList
    <3>1. Holds(cached, lastAccessed - MaxFetch)
      BY <2>3 DEF ListAge
    <3>2. Refreshing(c)' => lastAccessed >= began[c]
      BY <1>1, <1>7 DEF Refreshing, ReadCached, Getting, ListAge, GetAge
    <3>3. Refreshing(c)' => Holds(cached, began[c] - MaxFetch)
      BY <3>1, <3>2, HoldsEarlier
    <3>4. Holds(hand[c], lastAccessed - MaxFetch)' /\ (Refreshing(c)' => Holds(hand[c], began[c] - MaxFetch)')
      BY <1>1, <2>1, <3>1, <3>3 DEF Holds, Deployed
    <3>5. GetAge(c)'
      BY <1>1, <2>1, <2>3, <3>2, <3>4 DEF GetAge
    <3>. QED  BY <1>2, <1>4, <1>5, <2>1, <3>5 DEF ListAge
  <2>. QED  BY <2>2, <2>3
<1>8. CASE TestAge(c)
  <2>1. cached' = cached /\ pc'[c] \in {"listing", "looking", "returned"}
    BY <1>8 DEF TestAge, TestsAge, Chooses, LeaveGet, Inv, Typed
  <2>. QED  BY <1>2, <1>4, <1>5, <1>6, <2>1 DEF ListAge
<1>9. CASE ListTracks(c)
  <2>1. cached' = cached
    BY <1>9 DEF ListTracks
  <2>2. CASE pc'[c] = "storing"
    <3>1. hand'[c] = Deployed /\ began' = began
      BY <1>9, <2>2 DEF ListTracks, GetThrows, LeaveGet, Inv, Typed, TypeOK
    <3>2. Holds(hand[c], began[c])'
      BY <1>1, <3>1 DEF GetEffect, Holds
    <3>3. Refreshing(c)' => lastAccessed' >= began'[c]
      BY <1>1, <1>9, <3>1 DEF Refreshing, ListTracks, Getting, ListAge, GetAge
    <3>. QED  BY <1>2, <1>4, <1>5, <2>1, <2>2, <3>2, <3>3 DEF ListAge, GetAge
  <2>3. CASE pc'[c] # "storing"
    <3>1. pc'[c] = "returned"
      BY <1>9, <2>3 DEF ListTracks, GetThrows, LeaveGet, Inv, Typed, TypeOK
    <3>. QED  BY <1>2, <1>4, <1>5, <1>6, <2>1, <3>1 DEF ListAge
  <2>. QED  BY <2>2, <2>3
<1>10. CASE StoreTracks(c)
  <2>1. /\ cached' = hand[c] /\ pc[c] = "storing" /\ pc'[c] = "fetched" /\ began' = began
        /\ \A e \in Callers \ {c} : pc'[e] = pc[e] /\ hand'[e] = hand[e]
    BY <1>10 DEF StoreTracks, Inv, Typed, TypeOK
  <2>2. Holds(hand[c], began[c]) /\ now <= began[c] + MaxFetch
    BY <2>1 DEF ListAge, GetAge, Getting
  <2>3. \A e \in Callers : Holds(hand[c], began[e] - MaxFetch)
    BY <2>2, HoldsEarlier
  <2>4. Holds(hand[c], lastAccessed - MaxFetch)
    BY <2>2, HoldsEarlier
  <2>5. Holds(cached, lastAccessed - MaxFetch)'
    BY <1>1, <2>1, <2>4 DEF Holds, Deployed
  <2>6. \A e \in Callers : Holds(cached, began[e] - MaxFetch)'
    BY <1>1, <2>1, <2>3 DEF Holds, Deployed
  <2>7. ASSUME NEW e \in Callers
        PROVE  GetAge(e)'
    <3>1. CASE e = c
      <4>1. Refreshing(c)' => Refreshing(c)
        BY <1>1, <2>1 DEF Refreshing, Getting
      <4>. QED  BY <1>1, <2>1, <2>6, <3>1, <4>1 DEF ListAge, GetAge
    <3>2. CASE e # c
      <4>1. GetAge(e) /\ pc'[e] = pc[e] /\ hand'[e] = hand[e] /\ began'[e] = began[e]
            /\ (Refreshing(e)' <=> Refreshing(e))
        BY <1>1, <2>1, <3>2 DEF ListAge, Refreshing
      <4>2. /\ Holds(hand[e], began[e])' <=> Holds(hand[e], began[e])
            /\ Holds(hand[e], lastAccessed - MaxFetch)' <=> Holds(hand[e], lastAccessed - MaxFetch)
            /\ Holds(hand[e], began[e] - MaxFetch)' <=> Holds(hand[e], began[e] - MaxFetch)
        BY <1>1, <4>1 DEF Holds, Deployed
      <4>. QED  BY <1>1, <2>6, <4>1, <4>2 DEF GetAge
    <3>. QED  BY <3>1, <3>2
  <2>. QED  BY <1>2, <2>5, <2>7 DEF ListAge
<1>11. CASE TakeFetched(c)
  <2>1. cached' = cached /\ pc'[c] \in {"looking", "returned"}
    BY <1>11 DEF TakeFetched, GetThrows, Chooses, LeaveGet, Inv, Typed
  <2>. QED  BY <1>2, <1>4, <1>5, <1>6, <2>1 DEF ListAge
<1>. QED  BY <1>7, <1>8, <1>9, <1>10, <1>11 DEF CacheStep

\* A release leaves those who have listed, or stored, without a claim on it.
LEMMA RefreshAge ==
  ASSUME ListAge, Inv, NEW c \in Callers, NEW t \in Tracks, RefreshTrack(c, t)
  PROVE  ListAge'
<1>. USE Clocks
<1>1. /\ UNCHANGED <<now, revision, deployedAt, hand>> /\ cached' = NoList /\ lastAccessed' = now
      /\ pc' = [pc EXCEPT ![c] = "reading"] /\ began' = [began EXCEPT ![c] = now]
      /\ call' = [call EXCEPT ![c] = "refreshTrack"]
  BY DEF RefreshTrack, Begin, deployVars
<1>2. ASSUME NEW e \in Callers
      PROVE  GetAge(e)'
  <2>1. CASE e = c
    <3>1. pc'[c] = "reading" /\ began'[c] = now
      BY <1>1 DEF Inv, Typed, TypeOK
    <3>. QED  BY <1>1, <2>1, <3>1 DEF GetAge
  <2>2. CASE e # c
    <3>1. GetAge(e) /\ pc'[e] = pc[e] /\ began'[e] = began[e] /\ (Refreshing(e)' <=> Refreshing(e))
      BY <1>1, <2>2 DEF ListAge, Refreshing
    <3>2. /\ Holds(hand[e], began[e])' <=> Holds(hand[e], began[e])
          /\ Holds(hand[e], began[e] - MaxFetch)' <=> Holds(hand[e], began[e] - MaxFetch)
      BY <1>1, <3>1 DEF Holds, Deployed
    <3>. QED  BY <1>1, <3>1, <3>2 DEF GetAge
  <2>. QED  BY <2>1, <2>2
<1>. QED  BY <1>1, <1>2 DEF ListAge

LEMMA UploadAge ==
  ASSUME ListAge, Inv, NEW t \in Tracks, NEW v \in Versions, Upload(t, v)
  PROVE  ListAge'
<1>. USE Clocks
<1>1. UNCHANGED <<now, cached, lastAccessed, call, began, hand, pc>>
  BY DEF Upload, factoryVars, schedulerVars
<1>2. deployedAt' \in [Tracks -> [Versions -> 0..now]]
  <2>1. [deployedAt[t] EXCEPT ![v] = now] \in [Versions -> 0..now]
    BY DEF ListAge
  <2>2. deployedAt' = deployedAt \/ deployedAt' = [deployedAt EXCEPT ![t] = [deployedAt[t] EXCEPT ![v] = now]]
    BY DEF Upload, ListAge
  <2>. QED  BY <2>1, <2>2 DEF ListAge
<1>3. cached # NoList => Holds(cached, lastAccessed - MaxFetch)'
  <2>1. cached # NoList => \E list, time : /\ list = cached /\ time = lastAccessed - MaxFetch
                                           /\ time \in Int /\ time <= now /\ Holds(list, time)
    BY DEF ListAge
  <2>. QED  BY <1>1, <2>1, UploadHolds DEF Holds
<1>4. ASSUME NEW c \in Callers
      PROVE  GetAge(c)'
  <2>1. GetAge(c) /\ (Refreshing(c)' <=> Refreshing(c))
    BY <1>1 DEF ListAge, Refreshing
  <2>2. \A list : \A time \in Int : time <= now /\ Holds(list, time) =>
          \A d \in Deployed' : deployedAt'[d.track][d.version] < time => d \in list
    BY UploadHolds DEF Holds
  <2>4. began[c] \in Int /\ began[c] - MaxFetch \in Int /\ lastAccessed - MaxFetch \in Int
        /\ began[c] - MaxFetch <= now /\ lastAccessed - MaxFetch <= now
    OBVIOUS
  <2>3. /\ Holds(hand[c], began[c]) => Holds(hand[c], began[c])'
        /\ Holds(hand[c], lastAccessed - MaxFetch) => Holds(hand[c], lastAccessed - MaxFetch)'
        /\ Holds(hand[c], began[c] - MaxFetch) => Holds(hand[c], began[c] - MaxFetch)'
        /\ Holds(cached, began[c] - MaxFetch) => Holds(cached, began[c] - MaxFetch)'
    <3>1. Holds(hand[c], began[c]) => Holds(hand[c], began[c])'
      BY <1>1, <2>2, <2>4 DEF Holds
    <3>2. Holds(hand[c], lastAccessed - MaxFetch) => Holds(hand[c], lastAccessed - MaxFetch)'
      BY <1>1, <2>2, <2>4 DEF Holds
    <3>3. Holds(hand[c], began[c] - MaxFetch) => Holds(hand[c], began[c] - MaxFetch)'
      BY <1>1, <2>2, <2>4 DEF Holds
    <3>4. Holds(cached, began[c] - MaxFetch) => Holds(cached, began[c] - MaxFetch)'
      BY <1>1, <2>2, <2>4 DEF Holds
    <3>. QED  BY <3>1, <3>2, <3>3, <3>4
  <2>. QED  BY <1>1, <2>1, <2>3 DEF GetAge
<1>. QED  BY <1>1, <1>2, <1>3, <1>4 DEF ListAge

LEMMA StepListAge ==
  ASSUME ListAge, Inv, [Next]_vars
  PROVE  ListAge'
<1>. USE Clocks
<1>1. ASSUME UNCHANGED <<deployVars, cached, lastAccessed, hand, began, call>>,
             \A c \in Callers : pc'[c] \in Getting => pc'[c] = pc[c]
      PROVE  ListAge'
  <2>1. /\ UNCHANGED <<now, revision, deployedAt, cached, lastAccessed, hand>>
        /\ \A c \in Callers : began'[c] = began[c] /\ call'[c] = call[c]
    BY <1>1 DEF deployVars
  <2>2. \A c \in Callers : pc'[c] \in Getting => pc'[c] = pc[c]
    BY <1>1
  <2>3. \A c \in Callers : pc'[c] = "reading" => pc[c] = "reading"
    BY <2>2 DEF Getting
  <2>. QED  BY <2>1, <2>2, <2>3, SameListAge
<1>2. ASSUME NEW c \in Callers, CallerStep(c)
      PROVE  ListAge'
  <2>1. CASE CacheStep(c)
    BY <2>1, CacheStepAge
  <2>2. CASE ~CacheStep(c) /\ ~Return(c)
    <3>1. UNCHANGED <<deployVars, cached, lastAccessed, hand, began, call>>
      BY <1>2, <2>2 DEF CallerStep, LookUp, GenerateTrack, InitializeTrack, ReturnTrack, factoryVars
    <3>2. ASSUME NEW e \in Callers, pc'[e] \in Getting
          PROVE  pc'[e] = pc[e]
      BY <1>2, <2>2, <3>2 DEF CallerStep, LookUp, GenerateTrack, InitializeTrack, ReturnTrack, Answered,
                        Inv, Typed, Getting
    <3>. QED  BY <1>1, <3>1, <3>2
  <2>3. CASE Return(c)
    <3>1. UNCHANGED <<now, revision, deployedAt, cached, lastAccessed, hand, began>>
      BY <2>3 DEF Return, deployVars
    <3>2. \A e \in Callers : pc'[e] \in Getting => pc'[e] = pc[e] /\ call'[e] = call[e]
      BY <2>3 DEF Return, Inv, Typed, TypeOK, Getting
    <3>3. \A e \in Callers : began'[e] = began[e] /\ (pc'[e] = "reading" => pc'[e] \in Getting)
      BY <3>1 DEF Getting
    <3>. QED  BY <3>1, <3>2, <3>3, SameListAge
  <2>. QED  BY <2>1, <2>2, <2>3
<1>3. ASSUME NEW c \in Callers, NEW t \in Tracks, NEW what \in Calls, what # "refreshTrack",
             Begin(c, t, what), UNCHANGED <<deployVars, cached, lastAccessed>>
      PROVE  ListAge'
  <2>1. /\ hand' = hand /\ pc' = [pc EXCEPT ![c] = "reading"]
        /\ began' = [began EXCEPT ![c] = now] /\ call' = [call EXCEPT ![c] = what]
    BY <1>3 DEF Begin
  <2>2. \A e \in Callers \ {c} : pc'[e] = pc[e] /\ began'[e] = began[e] /\ call'[e] = call[e]
    BY <2>1 DEF Inv, Typed, TypeOK
  <2>3. pc'[c] = "reading" /\ call'[c] # "refreshTrack"
    BY <1>3, <2>1 DEF Inv, Typed, TypeOK
  <2>. QED  BY <1>3, <2>1, <2>2, <2>3, SameListAge DEF deployVars
<1>4. ASSUME NEW c \in Callers, NEW t \in Tracks, InitializeAllTracks(c, t) \/ GetTrack(c, t)
      PROVE  ListAge'
  BY <1>3, <1>4 DEF InitializeAllTracks, GetTrack, Calls
<1>5. ASSUME NEW c \in Callers, NEW t \in Tracks, RefreshTrack(c, t)
      PROVE  ListAge'
  BY <1>5, RefreshAge
<1>6. CASE StartGoal
  <2>1. Head(startBox).track \in Tracks
    <3>1. Head(startBox) \in Descriptors
      BY <1>6 DEF StartGoal, Inv, Typed
    <3>. QED  BY <3>1 DEF Descriptors
  <2>. QED  BY <1>3, <1>6, <2>1 DEF StartGoal, Calls
<1>7. ASSUME NEW t \in Tracks, NEW v \in Versions, Upload(t, v)
      PROVE  ListAge'
  BY <1>7, UploadAge
<1>8. CASE Tick
  BY <1>8, SameListAge DEF Tick, factoryVars, schedulerVars
<1>9. CASE SchedulerStep
  <2>1. \A c \in Callers : pc'[c] \in Getting => pc'[c] = pc[c]
    BY <1>9 DEF SchedulerStep, ScheduleTrack, UnscheduleTrack, Fire, Inv, Typed, Getting
  <2>. QED  BY <1>1, <1>9, <2>1 DEF SchedulerStep, factoryVars
<1>10. CASE QuartzStep \/ UNCHANGED vars
  <2>1. UNCHANGED <<deployVars, factoryVars, pc>>
    BY <1>10 DEF QuartzStep, QuartzAdd, QuartzRemove, Adds, vars, schedulerVars
  <2>. QED  BY <1>1, <2>1 DEF factoryVars
<1>. QED  BY <1>2, <1>4, <1>5, <1>6, <1>7, <1>8, <1>9, <1>10 DEF Next

\* Only a step that takes a list brings a caller from get to a version in view.
LEMMA OnlyChooses ==
  ASSUME Inv, [Next]_vars, NEW c \in Callers, Chosen(c)
  PROVE  \/ TestAge(c) /\ now - lastAccessed < MaxAge /\ Chooses(c, hand[c])
         \/ TakeFetched(c) /\ cached # NoList /\ Chooses(c, cached)
<1>. USE DEF Inv
<1>1. pc \in [Callers -> Stages] /\ pc[c] \in {"testing", "fetched"} /\ pc'[c] = "looking"
  BY DEF Typed, Chosen
<1>2. ASSUME NEW e \in Callers, CallerStep(e)
      PROVE  e = c /\ CacheStep(c)
  <2>1. CASE e = c
    BY <1>1, <1>2, <2>1 DEF CallerStep, LookUp, GenerateTrack, InitializeTrack, ReturnTrack,
                      Return, Answered
  <2>2. CASE e # c
    <3>1. pc'[c] = pc[c]
      <4>1. CASE CacheStep(e)
        BY <2>2, <4>1, CacheSteps DEF GetEffect
      <4>2. CASE ~CacheStep(e)
        BY <1>1, <1>2, <2>2, <4>2 DEF CallerStep, LookUp, GenerateTrack, InitializeTrack,
             ReturnTrack, Return, Answered
      <4>. QED  BY <4>1, <4>2
    <3>. QED  BY <1>1, <3>1
  <2>. QED  BY <2>1, <2>2
<1>3. ASSUME NEW e \in Callers, NEW t \in Tracks,
             InitializeAllTracks(e, t) \/ GetTrack(e, t) \/ RefreshTrack(e, t)
      PROVE  FALSE
  <2>1. pc' = [pc EXCEPT ![e] = "reading"]
    BY <1>3 DEF InitializeAllTracks, GetTrack, RefreshTrack, Begin
  <2>. QED  BY <1>1, <2>1
<1>4. ASSUME StartGoal
      PROVE  FALSE
  <2>1. pc' = [pc EXCEPT ![Starter] = "reading"]
    BY <1>4 DEF StartGoal, Begin
  <2>. QED  BY <1>1, <2>1
<1>5. ASSUME NEW e \in Callers, NEW t \in Tracks, NEW valid \in BOOLEAN, ScheduleTrack(e, t, valid)
      PROVE  FALSE
  <2>1. pc' = [pc EXCEPT ![e] = "schedulingPage"]
    BY <1>5 DEF ScheduleTrack
  <2>. QED  BY <1>1, <2>1
<1>6. ASSUME UNCHANGED pc
      PROVE  FALSE
  BY <1>1, <1>6
<1>7. ASSUME SchedulerStep
      PROVE  FALSE
  BY <1>5, <1>6, <1>7 DEF SchedulerStep, UnscheduleTrack, Fire
<1>8. ASSUME (\E t \in Tracks, v \in Versions : Upload(t, v)) \/ QuartzStep \/ Tick \/ UNCHANGED vars
      PROVE  FALSE
  BY <1>6, <1>8 DEF Upload, QuartzStep, QuartzAdd, QuartzRemove, Adds, Tick, vars, schedulerVars
<1>9. CacheStep(c)
  BY <1>2, <1>3, <1>4, <1>7, <1>8 DEF Next
<1>10. ASSUME NEW stage, pc' = [pc EXCEPT ![c] = stage]
       PROVE  stage = "looking"
  BY <1>1, <1>10
<1>. QED  BY <1>1, <1>9, <1>10 DEF CacheStep, ReadCached, TestAge, TestsAge, ListTracks, StoreTracks,
          TakeFetched, GetThrows, LeaveGet

\* The list a caller chooses from, and what it holds.
LEMMA ChoosesFrom ==
  ASSUME Inv, ListAge, [Next]_vars, NEW c \in Callers, Chosen(c), NEW v \in Versions, Misses(c, v)
  PROVE  /\ pc[c] = "testing" => /\ ~Holds(hand[c], deployedAt[target[c].track][v] + 1)
                                 /\ now - lastAccessed < MaxAge
         /\ pc[c] = "fetched" => /\ ~Holds(cached, deployedAt[target[c].track][v] + 1)
                                 /\ cached # NoList
<1>. DEFINE t == target[c].track
            this == Descriptor(t, v)
<1>1. t \in Tracks /\ target \in [Callers -> Descriptors \cup {NoJob}]
  BY DEF Inv, Typed, Descriptors, Chosen, Getting
<1>2. this \in Deployed /\ this.track = t /\ this.version = v /\ deployedAt[t][v] \in Nat
  BY <1>1, Clocks DEF Deployed, Descriptor, Descriptors, LATEST, Versions, Misses, ListAge
<1>3. ASSUME NEW list, list \subseteq Deployed, Chooses(c, list)
      PROVE  ~Holds(list, deployedAt[t][v] + 1)
  <2>1. PICK d \in {x \in list : x.track = t} :
          /\ \A e \in {x \in list : x.track = t} : e.version <= d.version
          /\ target' = [target EXCEPT ![c] = d]
    <3>1. pc' # [pc EXCEPT ![c] = "returned"]
      BY DEF Inv, Typed, Chosen
    <3>. QED  BY <1>3, <3>1 DEF Chooses, LeaveGet
  <2>2. target'[c] = d /\ d.version \in Nat
    BY <1>1, <1>3, <2>1 DEF Deployed, Descriptors, Versions
  <2>3. SUFFICES ASSUME this \in list PROVE FALSE
    BY <1>2 DEF Holds
  <2>4. v <= target'[c].version
    BY <1>2, <2>1, <2>2, <2>3
  <2>5. v > target'[c].version
    BY DEF Misses
  <2>. QED  BY <2>2, <2>4, <2>5 DEF Versions
<1>4. /\ pc[c] = "testing" => hand[c] \subseteq Deployed
      /\ cached # NoList => cached \subseteq Deployed
  BY DEF Inv, TypeOK, GetTypeOK
<1>. QED  BY <1>3, <1>4, OnlyChooses DEF TestAge, TestsAge, TakeFetched

LEMMA StepFindsNewest ==
  ASSUME Inv, ListAge, [Next]_vars, NEW c \in Callers, Chosen(c), NEW v \in Versions,
         ~Released(c), Age(c, v) >= MaxAge + MaxFetch
  PROVE  ~Misses(c, v)
<1>. USE Clocks
<1>. DEFINE deployed == deployedAt[target[c].track][v]
<1>1. SUFFICES ASSUME Misses(c, v) PROVE FALSE
  OBVIOUS
<1>2. deployed \in Nat /\ now - deployed >= MaxAge + MaxFetch
  BY DEF Age, Inv, Typed, Descriptors, Chosen, Getting, ListAge
<1>3. CASE pc[c] = "testing"
  <2>1. ~Holds(hand[c], deployed + 1) /\ now - lastAccessed < MaxAge
    BY <1>1, <1>3, ChoosesFrom
  <2>2. Holds(hand[c], lastAccessed - MaxFetch)
    BY <1>3 DEF Released, ListAge, GetAge, Inv, TypeOK, GetTypeOK
  <2>3. deployed + 1 <= lastAccessed - MaxFetch
    BY <1>2, <2>1
  <2>. QED  BY <1>2, <2>1, <2>2, <2>3, HoldsEarlier
<1>4. CASE pc[c] = "fetched"
  <2>1. ~Holds(cached, deployed + 1) /\ cached # NoList
    BY <1>1, <1>4, ChoosesFrom
  <2>2. Holds(cached, began[c] - MaxFetch) /\ now <= began[c] + MaxFetch
    BY <1>4, <2>1 DEF ListAge, GetAge, Getting
  <2>3. deployed + 1 <= began[c] - MaxFetch
    BY <1>2, <2>2, FactoryConstants
  <2>. QED  BY <1>2, <2>1, <2>2, <2>3, HoldsEarlier
<1>. QED  BY <1>3, <1>4 DEF Chosen

LEMMA StepRefreshFinds ==
  ASSUME Inv, ListAge, [Next]_vars, NEW c \in Callers, Chosen(c), NEW v \in Versions,
         call[c] = "refreshTrack", Age(c, v) > 2 * MaxFetch
  PROVE  ~Misses(c, v)
<1>. USE Clocks
<1>. DEFINE deployed == deployedAt[target[c].track][v]
<1>1. SUFFICES ASSUME Misses(c, v) PROVE FALSE
  OBVIOUS
<1>2. deployed \in Nat /\ now - deployed > 2 * MaxFetch
  BY DEF Age, Inv, Typed, Descriptors, Chosen, Getting, ListAge
<1>3. deployed + 1 <= began[c] - MaxFetch
  <2>1. now <= began[c] + MaxFetch
    BY DEF Chosen, Getting
  <2>. QED  BY <1>2, <2>1, FactoryConstants
<1>4. CASE pc[c] = "testing"
  <2>1. ~Holds(hand[c], deployed + 1)
    BY <1>1, <1>4, ChoosesFrom
  <2>2. Holds(hand[c], began[c] - MaxFetch)
    BY <1>4 DEF ListAge, GetAge, Refreshing, Getting
  <2>. QED  BY <1>2, <1>3, <2>1, <2>2, HoldsEarlier
<1>5. CASE pc[c] = "fetched"
  <2>1. ~Holds(cached, deployed + 1) /\ cached # NoList
    BY <1>1, <1>5, ChoosesFrom
  <2>2. Holds(cached, began[c] - MaxFetch)
    BY <1>5, <2>1 DEF ListAge, GetAge
  <2>. QED  BY <1>2, <1>3, <2>1, <2>2, HoldsEarlier
<1>. QED  BY <1>4, <1>5 DEF Chosen

-----------------------------------------------------------------------------
LEMMA Invariance == Spec => []Inv
<1>1. Inv /\ [Next]_vars => Inv'
  BY StepTypes, StepScheduler DEF Inv, Types
<1>. QED  BY <1>1, InitInv, PTL DEF Spec

\* Maps, mailboxes and callers hold values of their types; whoever is past reading
\* the list has a deployed version in view.
THEOREM TracksTypeCorrect == Spec => []TypeOK
  BY Invariance, PTL DEF Inv

\* A track that the pages list as scheduled has its own job in Quartz, whatever
\* callers schedule, refuse and unschedule meanwhile.
THEOREM EntriesHaveJobs == Spec => []EntryHasJob
  BY Invariance, PTL DEF Inv, SchedulerInv

\* No job of Quartz is out of reach: it is listed, or a caller is about to list
\* it, or its removal is queued.
THEOREM JobsAreKnown == Spec => []JobIsKnown
  BY Invariance, PTL DEF Inv, SchedulerInv

\* A version deployed for as long as a list may be cached and another be under way
\* is found by whoever asks for the newest, whatever lists others fetch, store late
\* and release meanwhile, unless its own is released before it has tested its age.
THEOREM NewestFound == Spec => NewestIsFound
<1>. DEFINE Finds == \A c \in Callers, v \in Versions :
                       Chosen(c) /\ ~Released(c) /\ Age(c, v) >= MaxAge + MaxFetch
                         => ~Misses(c, v)
<1>1. Inv /\ ListAge /\ [Next]_vars => ListAge' /\ [Finds]_vars
  BY StepListAge, StepFindsNewest
<1>2. NewestIsFound <=> [][Finds]_vars
  BY DEF NewestIsFound
<1>. QED  BY <1>1, <1>2, Invariance, InitListAge, PTL DEF Spec

\* refreshTrack finds what was deployed before the listings that were under way
\* when it began, although one of them may be stored after its release.
THEOREM RefreshFinds == Spec => RefreshFindsNewest
<1>. DEFINE Finds == \A c \in Callers, v \in Versions :
                       Chosen(c) /\ call[c] = "refreshTrack" /\ Age(c, v) > 2 * MaxFetch
                         => ~Misses(c, v)
<1>1. Inv /\ ListAge /\ [Next]_vars => ListAge' /\ [Finds]_vars
  BY StepListAge, StepRefreshFinds
<1>2. RefreshFindsNewest <=> [][Finds]_vars
  BY DEF RefreshFindsNewest
<1>. QED  BY <1>1, <1>2, Invariance, InitListAge, PTL DEF Spec
=============================================================================
