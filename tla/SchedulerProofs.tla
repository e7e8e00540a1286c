--------------------------- MODULE SchedulerProofs ---------------------------
(* Proofs of the safety properties of Scheduler. *)
EXTENDS Scheduler, TLAPS

\* Inserting the next row into a table keeps it a table, and the rows it has.
LEMMA PutNext ==
    ASSUME NEW S, NEW n \in Nat, NEW table \in [1..n -> S], NEW row \in S
    PROVE  /\ Put(table, n + 1, row) \in [1..(n + 1) -> S]
           /\ \A i \in 1..n : Put(table, n + 1, row)[i] = table[i]
           /\ Put(table, n + 1, row)[n + 1] = row
BY DEF Put

\* A submitted form and the next occurrence of a row are rows.
LEMMA NextOccurrenceType ==
    ASSUME NEW job \in Job, job.rule \in Repeat
    PROVE  /\ NextOccurrence(job) \in Job
           /\ NextOccurrence(job).origin = job.origin
           /\ NextOccurrence(job).to = job.to
           /\ NextOccurrence(job).wanted = job.wanted
           /\ NextOccurrence(job).at = job.at + Period[job.rule]
BY PeriodAssumption DEF NextOccurrence, Job

\* The type of the message tables survives an insertion ...
LEMMA CreateType ==
    ASSUME StoreTypeOK, NEW row \in Job, CreateScheduledMessage(row),
           UNCHANGED groupTable
    PROVE  /\ StoreTypeOK'
           /\ lastMsg' = lastMsg + 1
           /\ jobs'[lastMsg + 1] = row
           /\ \A i \in DOMAIN jobs : jobs'[i] = jobs[i]
<1>1. lastMsg \in Nat /\ lastMsg < MaxMsg /\ lastMsg' = lastMsg + 1
  BY BoundAssumption DEF StoreTypeOK, CreateScheduledMessage, NextMsgId
<1>2. jobs' = Put(jobs, lastMsg + 1, row)
  BY DEF CreateScheduledMessage, NextMsgId
<1>3. /\ jobs' \in [1..(lastMsg + 1) -> Job]
      /\ jobs'[lastMsg + 1] = row
      /\ \A i \in 1..lastMsg : jobs'[i] = jobs[i]
  <2>1. jobs \in [1..lastMsg -> Job]
    BY DEF StoreTypeOK
  <2> QED
    BY <1>1, <1>2, <2>1, PutNext
<1>4. stored' \subseteq 1..lastMsg' /\ sent' \subseteq stored'
  BY <1>1 DEF StoreTypeOK, CreateScheduledMessage, NextMsgId
<1> QED
  BY <1>1, <1>3, <1>4, BoundAssumption DEF StoreTypeOK, groupTable

\* ... and a deletion.
LEMMA DeleteType ==
    ASSUME StoreTypeOK, NEW ids, DeleteMessages(ids), UNCHANGED groupTable
    PROVE  StoreTypeOK'
BY DEF StoreTypeOK, DeleteMessages, groupTable

LEMMA Counting ==
    ASSUME NEW n \in Count
    PROVE  Once(n) \in Count /\ (n = 0 => Once(n) = 1)
BY DEF Count, Once, Many

LEMMA StoreUnchanged ==
    ASSUME StoreTypeOK, UNCHANGED <<msgTable, groupTable>>
    PROVE  StoreTypeOK'
BY DEF StoreTypeOK, msgTable, groupTable

-----------------------------------------------------------------------------
(* The type invariant *)

LEMMA InitType == Init => TypeOK
<1>1. SUFFICES ASSUME Init PROVE TypeOK
  OBVIOUS
<1>2. StoreTypeOK
  <2>1. jobs = [i \in {} |-> i] /\ members = [g \in {} |-> g] /\ 1..0 = {}
    BY <1>1 DEF Init, StoreInit
  <2>2. jobs \in [1..0 -> Job] /\ members \in [1..0 -> SUBSET JID]
    BY <2>1
  <2> QED
    BY <1>1, <2>2, BoundAssumption DEF Init, StoreInit, StoreTypeOK
<1>3. delivered \in [MsgId \X JID -> Count]
  BY <1>1 DEF Init, Count, Many
<1>4. /\ now \in 0..MaxTime /\ outages \in 0..MaxOutages
      /\ resets \in 0..MaxResets /\ lastFile \in 0..MaxFile
  BY <1>1, BoundAssumption, EnvironmentAssumption DEF Init, MediaInit
<1>5. online \in BOOLEAN
  BY <1>1 DEF Init
<1> QED
  BY <1>1, <1>2, <1>3, <1>4, <1>5 DEF Init, MediaInit, TypeOK

LEMMA SnapshotType ==
    ASSUME StoreTypeOK, NEW id \in DOMAIN jobs
    PROVE  SnapshotOf(id) \in Snapshot
BY BoundAssumption DEF StoreTypeOK, SnapshotOf, Snapshot, Job, MsgId

LEMMA ExpandType ==
    ASSUME StoreTypeOK, NEW id \in DOMAIN jobs, Resolves(jobs[id].to)
    PROVE  Expand(jobs[id].to) \subseteq JID
BY DEF StoreTypeOK, Expand, Resolves, Job

LEMMA ReceivedType ==
    ASSUME TypeOK, NEW j \in JID, Received(j)
    PROVE  delivered' \in [MsgId \X JID -> Count]
BY Counting DEF TypeOK, Received

LEMMA SubmitRow ==
    ASSUME StoreTypeOK, NEW form \in Forms, ScheduleSubmit(form)
    PROVE  /\ SubmittedRow(form) \in Job
           /\ CreateScheduledMessage(SubmittedRow(form))
<1>1. form \in Form /\ (form.to \in GroupId => form.to <= lastGroup)
  BY FormsAssumption DEF ScheduleSubmit, Offered
<1>2. Expand(form.to) \subseteq JID
  BY <1>1 DEF StoreTypeOK, Expand, Form, GroupId
<1>3. NextMsgId(lastMsg, stored) \in MsgId
  BY BoundAssumption
  DEF StoreTypeOK, ScheduleSubmit, Offered, CreateScheduledMessage, NextMsgId, MsgId
<1>4. SubmittedRow(form) \in Job
  BY <1>1, <1>2, <1>3 DEF SubmittedRow, Form, Job
<1> QED
  BY <1>4 DEF ScheduleSubmit, Offered

LEMMA SubmitType ==
    ASSUME TypeOK, NEW form \in Forms, ScheduleSubmit(form)
    PROVE  TypeOK'
<1>1. UNCHANGED <<groupTable, media, others, reset>>
  BY DEF ScheduleSubmit
<1>2. StoreTypeOK' /\ lastMsg' = lastMsg + 1
  BY <1>1, SubmitRow, CreateType DEF TypeOK
<1> QED
  BY <1>1, <1>2
  DEF TypeOK, StoreTypeOK, media, others, loop, ghost, env, reset

\* One step of any actor keeps the types.
LEMMA TypeStep ==
    ASSUME TypeOK, LoopOK, [Next]_vars
    PROVE  TypeOK'
<1> USE DEF TypeOK
<1>a. DOMAIN jobs = 1..lastMsg /\ DOMAIN jobs \subseteq MsgId
  BY BoundAssumption DEF StoreTypeOK, MsgId
<1>b. pc \in {"send", "mark"} => cur.id \in DOMAIN jobs
  BY DEF LoopOK
<1>c. \A m \in batch : m.id \in DOMAIN jobs
  BY DEF LoopOK
<1>1. CASE NothingToDo \/ UNCHANGED vars
  BY <1>1, StoreUnchanged
  DEF NothingToDo, vars, loop, media, ghost, env, reset, groupTable, msgTable
<1>2. CASE Load
  <2>1. PendingMessages(now) \subseteq DOMAIN jobs
    BY DEF PendingMessages, StoreTypeOK
  <2>2. batch' \subseteq Snapshot
    BY <1>2, <2>1, SnapshotType DEF Load
  <2> QED
    BY <1>2, <2>2, StoreUnchanged
    DEF Load, media, ghost, env, reset, msgTable, groupTable
<1>3. CASE EndOfBatch
  BY <1>3, StoreUnchanged
  DEF EndOfBatch, media, ghost, env, reset, msgTable, groupTable
<1>4. ASSUME NEW m \in batch, Take(m) PROVE TypeOK'
  <2>1. Expand(jobs[m.id].to) \subseteq JID
    BY <1>4, <1>c, ExpandType DEF Take
  <2> QED
    BY <1>4, <2>1, StoreUnchanged
    DEF Take, media, ghost, env, reset, msgTable, groupTable, StoreTypeOK
<1>5. ASSUME NEW m \in batch, TakeUnresolved(m) PROVE TypeOK'
  BY <1>5, StoreUnchanged
  DEF TakeUnresolved, Continue, media, ghost, env, reset, msgTable, groupTable
<1>6. ASSUME NEW j \in todo, SendOk(j) PROVE TypeOK'
  <2>1. delivered' \in [MsgId \X JID -> Count]
    BY <1>6, ReceivedType DEF SendOk
  <2> QED
    BY <1>6, <2>1, StoreUnchanged
    DEF SendOk, media, ghost, env, reset, msgTable, groupTable
<1>7. ASSUME NEW j \in todo, SendFails(j) PROVE TypeOK'
  BY <1>7, StoreUnchanged
  DEF SendFails, media, ghost, env, reset, msgTable, groupTable
<1>8. ASSUME NEW j \in todo, SendLate(j) PROVE TypeOK'
  <2>1. delivered' \in [MsgId \X JID -> Count]
    BY <1>8, ReceivedType DEF SendLate
  <2>2. faulty' \subseteq 1..lastMsg'
    BY <1>8, <1>a, <1>b DEF SendLate, msgTable
  <2> QED
    BY <1>8, <2>1, <2>2, StoreUnchanged
    DEF SendLate, media, ghost, env, reset, msgTable, groupTable
<1>9. CASE Retry
  BY <1>9, StoreUnchanged
  DEF Retry, AllFailed, Continue, media, ghost, env, reset, msgTable,
      groupTable
<1>10. CASE Reschedule
  <2>1. jobs[cur.id] \in Job /\ jobs[cur.id].rule \in Repeat
    BY <1>10, <1>b DEF Reschedule, Finished, Repeats, StoreTypeOK
  <2>2. NextOccurrence(jobs[cur.id]) \in Job
    BY <2>1, NextOccurrenceType
  <2>3. StoreTypeOK' /\ lastMsg' = lastMsg + 1
    BY <1>10, <2>2, CreateType DEF Reschedule
  <2>4. /\ pc' = "mark" /\ UNCHANGED <<batch, cur, jids, todo, sentTo>>
        /\ UNCHANGED <<media, ghost, env, reset>>
    BY <1>10 DEF Reschedule
  <2>5. 1..lastMsg \subseteq 1..lastMsg'
    BY <2>3, BoundAssumption DEF StoreTypeOK
  <2> QED
    BY <2>3, <2>4, <2>5 DEF media, ghost, env, reset
<1>11. CASE RescheduleFails
  BY <1>11, <1>a, <1>b, StoreUnchanged
  DEF RescheduleFails, Finished, media, env, reset, msgTable, groupTable
<1>12. CASE NoReschedule
  BY <1>12, StoreUnchanged
  DEF NoReschedule, media, ghost, env, reset, msgTable, groupTable
<1>13. CASE Mark
  BY <1>13
  DEF LoopOK, Mark, MarkAsSent, EndMessage, StoreTypeOK, media, ghost, env, reset,
      groupTable
<1>14. CASE MarkFails
  BY <1>14, <1>a, <1>b, StoreUnchanged
  DEF LoopOK, MarkFails, EndMessage, media, env, reset, msgTable, groupTable
<1>15. ASSUME NEW form \in Forms, ScheduleSubmit(form) PROVE TypeOK'
  BY <1>15, SubmitType
<1>16. ASSUME NEW ids, DeleteMessages(ids), UNCHANGED groupTable,
              UNCHANGED <<media, others>>,
              resetPc' \in {"idle", "groups"},
              resets' \in 0..MaxResets
       PROVE  TypeOK'
  BY <1>16, DeleteType
  DEF DeleteMessages, media, others, loop, ghost, env
<1>17. ASSUME NEW id \in stored, ScheduleDelete(id) PROVE TypeOK'
  BY <1>17, <1>16 DEF ScheduleDelete, reset
<1>18. CASE ResetMessages
  BY <1>18, <1>16, EnvironmentAssumption DEF ResetMessages
<1>19. ASSUME NEW roster \in Rosters, GroupCreate(roster) PROVE TypeOK'
  <2>1. roster \in SUBSET JID
    BY FormsAssumption
  <2>2. /\ lastGroup \in Nat /\ lastGroup < MaxGroup
        /\ lastGroup' = lastGroup + 1
        /\ members' = Put(members, lastGroup + 1, roster)
        /\ groups' = groups \cup {lastGroup + 1}
        /\ members \in [1..lastGroup -> SUBSET JID]
        /\ groups \subseteq 1..lastGroup
    BY <1>19, BoundAssumption
    DEF GroupCreate, CreateContactGroup, NextGroupId, StoreTypeOK
  <2>3. members' \in [1..(lastGroup + 1) -> SUBSET JID]
    BY <2>1, <2>2, PutNext
  <2>4. StoreTypeOK'
    BY <1>19, <2>2, <2>3, BoundAssumption
    DEF GroupCreate, StoreTypeOK, msgTable
  <2> QED
    BY <1>19, <2>4
    DEF GroupCreate, msgTable, media, others, loop, ghost, env, reset
<1>20. ASSUME NEW ids, DeleteContactGroups(ids),
              UNCHANGED <<msgTable, media, others, resets>>,
              resetPc' \in {"idle", "groups"}
       PROVE  TypeOK'
  <2>1. StoreTypeOK'
    BY <1>20 DEF DeleteContactGroups, StoreTypeOK, msgTable
  <2> QED
    BY <1>20, <2>1 DEF msgTable, media, others, loop, ghost, env
<1>21. ASSUME NEW g \in groups, GroupDelete(g) PROVE TypeOK'
  BY <1>21, <1>20 DEF GroupDelete, reset
<1>22. CASE ResetGroups
  BY <1>22, <1>20 DEF ResetGroups
<1>23. CASE ResetFails
  BY <1>23, StoreUnchanged
  DEF ResetFails, msgTable, groupTable, media, others, loop,
      ghost, env
<1>24. CASE MediaStep
  <2>1. /\ lastFile' \in 0..MaxFile
        /\ files' \subseteq 1..lastFile' /\ disk' \subseteq 1..lastFile'
    <3>1. lastFile \in 0..MaxFile /\ files \subseteq 1..lastFile
          /\ disk \subseteq 1..lastFile
      OBVIOUS
    <3>2. CASE Appear
      BY <3>1, <3>2, BoundAssumption DEF Appear
    <3>3. CASE \E ids \in SUBSET files : Forget(ids)
      BY <3>1, <3>3 DEF Forget
    <3>4. CASE \E ids \in SUBSET disk : Erase(ids)
      BY <3>1, <3>4 DEF Erase
    <3> QED
      BY <1>24, <3>2, <3>3, <3>4 DEF MediaStep, MediaNext
  <2> QED
    BY <1>24, <2>1, StoreUnchanged
    DEF MediaStep, msgTable, groupTable, others, loop, ghost, env, reset
<1>25. CASE Tick \/ GoOnline \/ GoOffline
  <2>1. now' \in 0..MaxTime /\ outages' \in 0..MaxOutages
    BY <1>25, EnvironmentAssumption DEF Tick, GoOnline, GoOffline
  <2>3. online' \in BOOLEAN
    BY <1>25 DEF Tick, GoOnline, GoOffline
  <2>2. UNCHANGED <<msgTable, groupTable, loop, media, ghost, reset>>
    BY <1>25 DEF Tick, GoOnline, GoOffline
  <2> QED
    BY <2>1, <2>2, <2>3, StoreUnchanged
    DEF msgTable, groupTable, media, loop, ghost, reset
<1>26. CASE Crash
  <2>1. faulty' \subseteq 1..lastMsg'
    BY <1>26, <1>a, <1>b DEF Crash, msgTable, LoopOK
  <2>2. outages' \in 0..MaxOutages
    BY <1>26, EnvironmentAssumption DEF Crash
  <2>4. online' \in BOOLEAN
    BY <1>26 DEF Crash
  <2>3. /\ pc' = "idle" /\ batch' = {} /\ cur' = NoMsg
        /\ jids' = {} /\ todo' = {} /\ sentTo' = {} /\ resetPc' = "idle"
        /\ UNCHANGED <<now, msgTable, groupTable, media, delivered, lost,
                      resets>>
    BY <1>26 DEF Crash
  <2> QED
    BY <2>1, <2>2, <2>3, <2>4, StoreUnchanged DEF msgTable, groupTable, media
<1> QED
  BY <1>1, <1>2, <1>3, <1>4, <1>5, <1>6, <1>7, <1>8, <1>9, <1>10, <1>11,
     <1>12, <1>13, <1>14, <1>15, <1>17, <1>18, <1>19, <1>21, <1>22, <1>23,
     <1>24, <1>25, <1>26
  DEF Next, Scheduling, Handling

-----------------------------------------------------------------------------
(* What the loop may rely on *)

\* What a step of the handlers and of the surroundings leaves alone: the loop
\* itself, the rows and the groups there have ever been, and the messages that
\* are no longer pending.
Rely ==
    /\ UNCHANGED <<loop, ghost>>
    /\ \A id \in DOMAIN jobs : id \in DOMAIN jobs' /\ jobs'[id] = jobs[id]
    /\ sent' \subseteq sent
    /\ \A id \in DOMAIN jobs : id \in stored' => id \in stored
    /\ \A id \in DOMAIN jobs : id \in Pending' => id \in Pending
    /\ \A g \in DOMAIN members :
          g \in DOMAIN members' /\ members'[g] = members[g]

\* An insertion leaves the other rows alone.
LEMMA CreateFrame ==
    ASSUME StoreTypeOK, NEW row \in Job, CreateScheduledMessage(row),
           UNCHANGED groupTable
    PROVE  /\ lastMsg + 1 \in MsgId \ DOMAIN jobs
           /\ DOMAIN jobs' = DOMAIN jobs \cup {lastMsg + 1}
           /\ \A id \in DOMAIN jobs : jobs'[id] = jobs[id]
           /\ jobs'[lastMsg + 1] = row
           /\ stored' = stored \cup {lastMsg + 1}
           /\ sent' = sent
           /\ Pending' = Pending \cup {lastMsg + 1}
<1>1. /\ StoreTypeOK' /\ lastMsg' = lastMsg + 1
      /\ jobs'[lastMsg + 1] = row
      /\ \A i \in DOMAIN jobs : jobs'[i] = jobs[i]
  BY CreateType
<1>2. /\ lastMsg \in Nat /\ lastMsg < MaxMsg
      /\ stored' = stored \cup {lastMsg + 1}
      /\ sent' = sent \ {lastMsg + 1}
      /\ sent \subseteq stored /\ stored \subseteq 1..lastMsg
      /\ DOMAIN jobs = 1..lastMsg /\ DOMAIN jobs' = 1..lastMsg'
  BY <1>1, BoundAssumption DEF StoreTypeOK, CreateScheduledMessage, NextMsgId
<1>3. lastMsg + 1 \in MsgId /\ lastMsg + 1 \notin 1..lastMsg
  BY <1>2, BoundAssumption DEF MsgId
<1>4. DOMAIN jobs' = DOMAIN jobs \cup {lastMsg + 1}
  BY <1>1, <1>2
<1>5. sent' = sent
  BY <1>2, <1>3
<1>6. Pending' = Pending \cup {lastMsg + 1}
  BY <1>2, <1>3, <1>5 DEF Pending
<1> QED
  BY <1>1, <1>2, <1>3, <1>4, <1>5, <1>6

\* So does the creation of a group.
LEMMA CreateGroupFrame ==
    ASSUME StoreTypeOK, NEW roster \in SUBSET JID, CreateContactGroup(roster)
    PROVE  \A g \in DOMAIN members :
              g \in DOMAIN members' /\ members'[g] = members[g]
<1>1. /\ lastGroup \in Nat
      /\ members \in [1..lastGroup -> SUBSET JID]
      /\ members' = Put(members, lastGroup + 1, roster)
  BY BoundAssumption DEF StoreTypeOK, CreateContactGroup, NextGroupId
<1>2. /\ members' \in [1..(lastGroup + 1) -> SUBSET JID]
      /\ \A g \in 1..lastGroup : members'[g] = members[g]
  BY <1>1 DEF Put
<1>3. DOMAIN members = 1..lastGroup /\ DOMAIN members' = 1..(lastGroup + 1)
  BY <1>1, <1>2
<1>4. 1..lastGroup \subseteq 1..(lastGroup + 1)
  BY <1>1
<1> QED
  BY <1>2, <1>3, <1>4

\* The row that process inserts for the next occurrence.
LEMMA RescheduleFrame ==
    ASSUME TypeOK, LoopOK, Reschedule
    PROVE  /\ lastMsg + 1 \in MsgId \ DOMAIN jobs
           /\ DOMAIN jobs' = DOMAIN jobs \cup {lastMsg + 1}
           /\ \A id \in DOMAIN jobs : jobs'[id] = jobs[id]
           /\ jobs'[lastMsg + 1] = NextOccurrence(jobs[cur.id])
           /\ stored' = stored \cup {lastMsg + 1}
           /\ sent' = sent
           /\ Pending' = Pending \cup {lastMsg + 1}
<1>1. jobs[cur.id] \in Job /\ jobs[cur.id].rule \in Repeat
  BY DEF Reschedule, Finished, Repeats, TypeOK, StoreTypeOK, LoopOK
<1>2. NextOccurrence(jobs[cur.id]) \in Job
  BY <1>1, NextOccurrenceType
<1> QED
  BY <1>2, CreateFrame DEF Reschedule, TypeOK

LEMMA RelyStep ==
    ASSUME TypeOK, LoopOK,
           \/ Handling \/ Tick \/ GoOnline \/ GoOffline
           \/ NothingToDo \/ UNCHANGED vars
    PROVE  Rely
<1>a. StoreTypeOK
  BY DEF TypeOK
<1>1. ASSUME UNCHANGED <<msgTable, groupTable, loop, ghost>> PROVE Rely
  BY <1>1 DEF Rely, msgTable, groupTable, Pending
<1>2. CASE Tick \/ GoOnline \/ GoOffline
  BY <1>1, <1>2 DEF Tick, GoOnline, GoOffline
<1>3. CASE NothingToDo \/ UNCHANGED vars
  BY <1>1, <1>3 DEF NothingToDo, vars
<1>4. CASE ResetFails \/ MediaStep
  BY <1>1, <1>4 DEF ResetFails, MediaStep, others
<1>5. ASSUME NEW form \in Forms, ScheduleSubmit(form) PROVE Rely
  <2>1. PICK row \in Job : CreateScheduledMessage(row)
    BY <1>5, SubmitRow DEF TypeOK
  <2>2. UNCHANGED <<groupTable, loop, ghost>>
    BY <1>5 DEF ScheduleSubmit, others
  <2> QED
    BY <1>a, <2>1, <2>2, CreateFrame DEF Rely, groupTable
<1>6. ASSUME NEW ids, DeleteMessages(ids), UNCHANGED <<groupTable, loop, ghost>>
      PROVE  Rely
  BY <1>6 DEF DeleteMessages, Rely, groupTable, Pending
<1>7. ASSUME NEW id \in stored, ScheduleDelete(id) PROVE Rely
  BY <1>6, <1>7 DEF ScheduleDelete, others
<1>8. CASE ResetMessages
  BY <1>6, <1>8 DEF ResetMessages, others
<1>9. ASSUME NEW roster \in Rosters, GroupCreate(roster) PROVE Rely
  <2>1. \A g \in DOMAIN members :
           g \in DOMAIN members' /\ members'[g] = members[g]
    BY <1>9, <1>a, CreateGroupFrame, FormsAssumption DEF GroupCreate
  <2> QED
    BY <1>9, <2>1 DEF GroupCreate, Rely, others, msgTable, Pending
<1>10. ASSUME NEW ids, DeleteContactGroups(ids),
              UNCHANGED <<msgTable, loop, ghost>>
       PROVE  Rely
  BY <1>10 DEF DeleteContactGroups, Rely, msgTable, Pending
<1>11. ASSUME NEW g \in groups, GroupDelete(g) PROVE Rely
  BY <1>10, <1>11 DEF GroupDelete, others
<1>12. CASE ResetGroups
  BY <1>10, <1>12 DEF ResetGroups, others
<1> QED
  BY <1>2, <1>3, <1>4, <1>5, <1>7, <1>8, <1>9, <1>11, <1>12 DEF Handling

-----------------------------------------------------------------------------
(* The loop of process *)

LEMMA InitLoop == Init => LoopOK
BY DEF Init, LoopOK

LEMMA LoopStep ==
    ASSUME TypeOK, LoopOK, [Next]_vars
    PROVE  LoopOK'
<1>a. StoreTypeOK /\ DOMAIN jobs \subseteq MsgId /\ 0 \notin MsgId
  BY BoundAssumption DEF TypeOK, StoreTypeOK, MsgId
<1>1. CASE \/ Handling \/ Tick \/ GoOnline \/ GoOffline
           \/ NothingToDo \/ UNCHANGED vars
  <2>1. Rely
    BY <1>1, RelyStep
  <2> QED
    BY <2>1 DEF Rely, LoopOK, loop
<1>2. CASE Load
  <2>1. cur.id \notin MsgId /\ cur' = cur
    BY <1>2, <1>a DEF Load, LoopOK, NoMsg
  <2>2. \A m \in batch' : m.id \in PendingMessages(now)
    BY <1>2 DEF Load, SnapshotOf
  <2>3. PendingMessages(now) \subseteq DOMAIN jobs \ sent
    BY <1>a DEF PendingMessages, StoreTypeOK
  <2>4. \A m, n \in batch' : m.id = n.id => m = n
    BY <1>2 DEF Load, SnapshotOf
  <2> QED
    BY <1>2, <1>a, <2>1, <2>2, <2>3, <2>4 DEF Load, LoopOK, msgTable
<1>3. ASSUME NEW m \in batch, Take(m) PROVE LoopOK'
  BY <1>3 DEF Take, LoopOK, msgTable
<1>4. ASSUME NEW m \in batch, TakeUnresolved(m) PROVE LoopOK'
  BY <1>4 DEF TakeUnresolved, Continue, LoopOK, msgTable
<1>5. CASE EndOfBatch
  BY <1>5 DEF EndOfBatch, LoopOK, msgTable
<1>6. ASSUME NEW j \in todo, SendOk(j) \/ SendFails(j) \/ SendLate(j)
      PROVE  LoopOK'
  BY <1>6 DEF SendOk, SendFails, SendLate, LoopOK, msgTable
<1>7. CASE Retry
  <2>1. sentTo = {} /\ todo = {} /\ pc = "send"
    BY <1>7 DEF Retry, AllFailed
  <2>2. /\ pc' = "next" /\ batch' = batch /\ cur' = NoMsg
        /\ UNCHANGED <<todo, sentTo, msgTable>>
    BY <1>7 DEF Retry, Continue
  <2>3. \A m \in batch : m.id # NoMsg.id
    BY <1>a DEF LoopOK, NoMsg
  <2> QED
    BY <2>1, <2>2, <2>3 DEF LoopOK, msgTable
<1>8. CASE Reschedule
  <2>1. /\ pc = "send" /\ todo = {} /\ pc' = "mark"
        /\ UNCHANGED <<batch, cur, todo, sentTo>>
    BY <1>8 DEF Reschedule, Finished
  <2>2. DOMAIN jobs \subseteq DOMAIN jobs' /\ sent' = sent
    BY <1>8, RescheduleFrame
  <2> QED
    BY <2>1, <2>2 DEF LoopOK
<1>9. CASE RescheduleFails \/ NoReschedule
  BY <1>9 DEF RescheduleFails, NoReschedule, Finished, LoopOK, msgTable
<1>10. CASE Mark
  <2>1. /\ pc' = "next" /\ cur' = NoMsg /\ sentTo' = {} /\ todo' = {}
        /\ UNCHANGED <<batch, jobs>> /\ sent' \subseteq sent \cup {cur.id}
    BY <1>10 DEF Mark, MarkAsSent, EndMessage, LoopOK
  <2>2. \A m \in batch : m.id # NoMsg.id
    BY <1>a DEF LoopOK, NoMsg
  <2> QED
    BY <2>1, <2>2 DEF LoopOK
<1>11. CASE MarkFails
  <2>1. /\ pc' = "next" /\ cur' = NoMsg /\ sentTo' = {} /\ todo' = {}
        /\ UNCHANGED <<batch, jobs, sent>>
    BY <1>11 DEF MarkFails, EndMessage, LoopOK, msgTable
  <2>2. \A m \in batch : m.id # NoMsg.id
    BY <1>a DEF LoopOK, NoMsg
  <2> QED
    BY <2>1, <2>2 DEF LoopOK
<1>12. CASE Crash
  BY <1>12 DEF Crash, LoopOK
<1> QED
  BY <1>1, <1>2, <1>3, <1>4, <1>5, <1>6, <1>7, <1>8, <1>9, <1>10, <1>11,
     <1>12
  DEF Next, Scheduling

-----------------------------------------------------------------------------
(* No message goes out twice *)

LEMMA InitOnce == Init => SendOnce /\ NoDuplicate
BY DEF Init, NoMsg, SendOnce, NoDuplicate, MsgId, Many

\* Steps that send nothing, change no message being handled, and let no message
\* become sendable.
LEMMA OnceKept ==
    ASSUME SendOnce, NoDuplicate,
           UNCHANGED <<cur, sentTo, delivered>>, faulty \subseteq faulty',
           Unsent' \cap MsgId \subseteq Unsent
    PROVE  SendOnce' /\ NoDuplicate'
BY DEF SendOnce, NoDuplicate

\* Steps after which no message is being handled: the one that was has been
\* given up with nothing sent, or is not sendable any more, or met a fault.
LEMMA OnceReleased ==
    ASSUME SendOnce, NoDuplicate,
           cur' = NoMsg, UNCHANGED delivered, faulty \subseteq faulty',
           Unsent' \cap MsgId \subseteq Unsent \cup {cur.id},
           \/ sentTo = {}
           \/ cur.id \notin Unsent'
           \/ cur.id \in faulty'
    PROVE  SendOnce' /\ NoDuplicate'
<1>1. cur'.id \notin MsgId
  BY DEF NoMsg, MsgId
<1> QED
  BY <1>1 DEF SendOnce, NoDuplicate

LEMMA OnceStep ==
    ASSUME TypeOK, LoopOK, SendOnce, NoDuplicate, [Next]_vars
    PROVE  SendOnce' /\ NoDuplicate'
<1>a. StoreTypeOK /\ DOMAIN jobs \subseteq MsgId /\ 0 \notin MsgId
  BY BoundAssumption DEF TypeOK, StoreTypeOK, MsgId
<1>b. Pending \subseteq DOMAIN jobs
  BY <1>a DEF Pending, StoreTypeOK
<1>1. CASE \/ Handling \/ Tick \/ GoOnline \/ GoOffline
           \/ NothingToDo \/ UNCHANGED vars
  <2>1. Rely
    BY <1>1, RelyStep
  <2>2. Unsent' \cap MsgId \subseteq Unsent
    BY <2>1 DEF Rely, Unsent, loop
  <2> QED
    BY <2>1, <2>2, OnceKept DEF Rely, loop, ghost
<1>2. CASE Load
  <2>1. PendingMessages(now) \subseteq Pending
    BY DEF PendingMessages, Pending
  <2>2. \A m \in batch' : m.id \in Pending
    BY <1>2, <2>1 DEF Load, SnapshotOf
  <2>3. Unsent' \cap MsgId \subseteq Unsent
    BY <1>2, <2>2 DEF Load, Unsent, Pending, msgTable
  <2> QED
    BY <1>2, <2>3, OnceKept DEF Load, ghost
<1>3. ASSUME NEW m \in batch, Take(m) PROVE SendOnce' /\ NoDuplicate'
  <2>1. /\ cur = NoMsg /\ cur' = m /\ sentTo' = {} /\ batch' = batch \ {m}
        /\ UNCHANGED <<msgTable, ghost>>
    BY <1>3 DEF Take, LoopOK
  <2>2. m.id \in MsgId /\ m.id \in Unsent
    BY <1>a, <2>1 DEF LoopOK, Unsent, NoMsg
  <2>3. Unsent' \cap MsgId \subseteq Unsent \ {m.id}
    BY <2>1, <1>a DEF Unsent, Pending, msgTable, NoMsg
  <2> QED
    BY <2>1, <2>2, <2>3 DEF SendOnce, NoDuplicate, ghost
<1>4. ASSUME NEW m \in batch, TakeUnresolved(m)
      PROVE  SendOnce' /\ NoDuplicate'
  <2>1. Unsent' \subseteq Unsent
    BY <1>4 DEF TakeUnresolved, Continue, Unsent, Pending, msgTable
  <2> QED
    BY <1>4, <2>1, OnceKept DEF TakeUnresolved, ghost
<1>5. CASE EndOfBatch \/ NoReschedule \/ RescheduleFails
  <2>1. Unsent' \subseteq Unsent
    BY <1>5
    DEF EndOfBatch, NoReschedule, RescheduleFails, Unsent, Pending, msgTable
  <2> QED
    BY <1>5, <2>1, OnceKept DEF EndOfBatch, NoReschedule, RescheduleFails, ghost
<1>6. ASSUME NEW j \in todo, SendFails(j) PROVE SendOnce' /\ NoDuplicate'
  <2>1. Unsent' \subseteq Unsent
    BY <1>6 DEF SendFails, Unsent, Pending, msgTable
  <2> QED
    BY <1>6, <2>1, OnceKept DEF SendFails, ghost
<1>7. ASSUME NEW j \in todo, SendOk(j) \/ SendLate(j)
      PROVE  SendOnce' /\ NoDuplicate'
  <2>1. /\ cur.id \in MsgId /\ j \in JID /\ j \notin sentTo
        /\ delivered \in [MsgId \X JID -> Count]
    BY <1>7, <1>a DEF SendOk, SendLate, LoopOK, TypeOK
  <2>2. /\ delivered' = [delivered EXCEPT ![<<cur.id, j>>] = Once(@)]
        /\ UNCHANGED <<cur, batch, msgTable>>
        /\ \/ sentTo' = sentTo \cup {j} /\ faulty' = faulty
           \/ sentTo' = sentTo /\ faulty' = faulty \cup {cur.id}
    BY <1>7 DEF SendOk, SendLate, Received
  <2>3. Unsent' = Unsent /\ cur.id \notin Unsent
    BY <2>2 DEF Unsent, Pending, msgTable
  <2>4. ASSUME NEW id \in MsgId \ faulty', NEW k \in JID
        PROVE  /\ id \in Unsent' => delivered'[<<id, k>>] = 0
               /\ id = cur'.id =>
                     delivered'[<<id, k>>] = IF k \in sentTo' THEN 1 ELSE 0
               /\ delivered'[<<id, k>>] # Many
    <3>1. id \notin faulty
      BY <2>2
    <3>2. CASE <<id, k>> = <<cur.id, j>>
      <4>1. delivered[<<id, k>>] = 0
        BY <2>1, <3>1, <3>2 DEF SendOnce
      <4>2. delivered'[<<id, k>>] = 1
        BY <2>1, <2>2, <3>2, <4>1, Counting DEF Count, Many
      <4>3. sentTo' = sentTo \cup {j}
        BY <2>2, <3>2
      <4> QED
        BY <2>2, <2>3, <3>2, <4>2, <4>3 DEF Many
    <3>3. CASE <<id, k>> # <<cur.id, j>>
      <4>1. delivered'[<<id, k>>] = delivered[<<id, k>>]
        BY <2>1, <2>2, <3>3
      <4>2. id = cur.id => (k \in sentTo' <=> k \in sentTo)
        BY <2>2, <3>3
      <4> QED
        BY <2>2, <2>3, <3>1, <4>1, <4>2 DEF SendOnce, NoDuplicate
    <3> QED
      BY <3>2, <3>3
  <2> QED
    BY <2>4 DEF SendOnce, NoDuplicate
<1>8. CASE Retry
  <2>1. Unsent' \subseteq Unsent \cup {cur.id}
    BY <1>8 DEF Retry, Continue, Unsent, Pending, msgTable
  <2> QED
    BY <1>8, <2>1, OnceReleased DEF Retry, AllFailed, ghost
<1>9. CASE Reschedule
  <2>1. Unsent' \cap MsgId \subseteq Unsent
    BY <1>9, <1>a, RescheduleFrame DEF Reschedule, Unsent, LoopOK
  <2> QED
    BY <1>9, <2>1, OnceKept DEF Reschedule, ghost
<1>10. CASE Mark
  <2>1. /\ cur' = NoMsg /\ UNCHANGED <<batch, jobs, stored, delivered, faulty>>
        /\ sent' = sent \cup ({cur.id} \cap stored)
    BY <1>10 DEF Mark, MarkAsSent, EndMessage, ghost
  <2>2. cur.id \in DOMAIN jobs /\ \A m \in batch : m.id # cur.id
    BY <1>10 DEF Mark, LoopOK
  <2>3. cur.id \notin Unsent' /\ Unsent' \subseteq Unsent \cup {cur.id}
    BY <2>1, <2>2 DEF Unsent, Pending
  <2> QED
    BY <2>1, <2>3, OnceReleased
<1>11. CASE MarkFails
  <2>1. Unsent' \subseteq Unsent \cup {cur.id}
    BY <1>11 DEF MarkFails, EndMessage, Unsent, Pending, msgTable
  <2> QED
    BY <1>11, <2>1, OnceReleased DEF MarkFails, EndMessage
<1>12. CASE Crash
  <2>1. Unsent' \subseteq Unsent \cup {cur.id}
    BY <1>12 DEF Crash, Unsent, Pending, msgTable
  <2> QED
    BY <1>12, <2>1, OnceReleased DEF Crash
<1> QED
  BY <1>1, <1>2, <1>3, <1>4, <1>5, <1>6, <1>7, <1>8, <1>9, <1>10, <1>11,
     <1>12
  DEF Next, Scheduling

-----------------------------------------------------------------------------
(* A message reaches only those it was meant for *)

LEMMA InitAudience == Init => AudienceOK /\ OnlyIntended
BY DEF Init, StoreInit, NoMsg, AudienceOK, OnlyIntended

LEMMA AudienceStep ==
    ASSUME TypeOK, LoopOK, SendOnce, AudienceOK, OnlyIntended, [Next]_vars
    PROVE  AudienceOK' /\ OnlyIntended'
<1>a. StoreTypeOK /\ DOMAIN jobs \subseteq MsgId /\ 0 \notin DOMAIN jobs
  BY BoundAssumption DEF TypeOK, StoreTypeOK, MsgId
<1>b. ASSUME UNCHANGED <<jobs, members, delivered>>,
             cur' = NoMsg \/ UNCHANGED <<cur, jids>>
      PROVE  AudienceOK' /\ OnlyIntended'
  <2>2. (\A id \in DOMAIN jobs :
            /\ jobs[id].to \in GroupId => jobs[id].to \in DOMAIN members
            /\ jobs[id].wanted = Expand(jobs[id].to))'
    BY <1>b DEF AudienceOK, Expand
  <2>3. (cur.id \in DOMAIN jobs => jids \subseteq jobs[cur.id].wanted)'
    BY <1>a, <1>b DEF AudienceOK, NoMsg
  <2>4. OnlyIntended'
    BY <1>b DEF OnlyIntended
  <2> QED
    BY <2>2, <2>3, <2>4 DEF AudienceOK
<1>c. \A id \in MsgId \ DOMAIN jobs, j \in JID : delivered[<<id, j>>] = 0
  <2>1. \A id \in MsgId \ DOMAIN jobs : id \notin faulty
    BY <1>a DEF TypeOK, StoreTypeOK
  <2>2. \A id \in MsgId \ DOMAIN jobs : id \in Unsent \/ id = cur.id
    BY DEF Unsent
  <2>3. \A id \in MsgId \ DOMAIN jobs : id = cur.id => sentTo = {}
    BY DEF LoopOK, TypeOK
  <2> QED
    BY <2>1, <2>2, <2>3 DEF SendOnce
<1>1. ASSUME NEW form \in Forms, ScheduleSubmit(form)
      PROVE  AudienceOK' /\ OnlyIntended'
  <2>1. /\ UNCHANGED <<groupTable, loop, ghost>>
        /\ form.to \in GroupId => form.to \in DOMAIN members
    <3>1. form.to \in GroupId => form.to <= lastGroup
      BY <1>1 DEF ScheduleSubmit, Offered
    <3>2. UNCHANGED <<groupTable, loop, ghost>>
      BY <1>1 DEF ScheduleSubmit, others
    <3> QED
      BY <3>1, <3>2, <1>a, BoundAssumption DEF StoreTypeOK, GroupId
  <2>2. /\ lastMsg + 1 \in MsgId \ DOMAIN jobs
        /\ DOMAIN jobs' = DOMAIN jobs \cup {lastMsg + 1}
        /\ \A id \in DOMAIN jobs : jobs'[id] = jobs[id]
        /\ jobs'[lastMsg + 1] = SubmittedRow(form)
    BY <1>1, <1>a, <2>1, SubmitRow, CreateFrame
  <2>3. /\ SubmittedRow(form).to = form.to
        /\ SubmittedRow(form).wanted = Expand(form.to)
    BY DEF SubmittedRow
  <2>4. \A to : Expand(to)' = Expand(to)
    BY <2>1 DEF Expand, groupTable
  <2>5. cur.id # lastMsg + 1
    BY <1>a, <2>2 DEF LoopOK, TypeOK, NoMsg, MsgId
  <2>6. AudienceOK'
    BY <2>1, <2>2, <2>3, <2>4, <2>5 DEF AudienceOK, loop, groupTable
  <2>7. OnlyIntended'
    BY <1>c, <2>1, <2>2 DEF OnlyIntended, ghost
  <2> QED
    BY <2>6, <2>7
<1>2. ASSUME NEW roster \in Rosters, GroupCreate(roster)
      PROVE  AudienceOK' /\ OnlyIntended'
  <2>1. UNCHANGED <<msgTable, loop, ghost>>
    BY <1>2 DEF GroupCreate, others
  <2>2. \A g \in DOMAIN members :
           g \in DOMAIN members' /\ members'[g] = members[g]
    BY <1>2, <1>a, CreateGroupFrame, FormsAssumption DEF GroupCreate
  <2>3. \A id \in DOMAIN jobs : Expand(jobs[id].to)' = Expand(jobs[id].to)
    BY <2>1, <2>2 DEF AudienceOK, Expand, msgTable
  <2>4. AudienceOK'
    BY <2>1, <2>2, <2>3 DEF AudienceOK, msgTable, loop
  <2>5. OnlyIntended'
    BY <2>1 DEF OnlyIntended, msgTable, ghost
  <2> QED
    BY <2>4, <2>5
<1>3. CASE \/ \E id \in stored : ScheduleDelete(id)
           \/ \E g \in groups : GroupDelete(g)
           \/ ResetMessages \/ ResetGroups \/ ResetFails
           \/ MediaStep \/ Tick \/ GoOnline \/ GoOffline
           \/ NothingToDo \/ UNCHANGED vars
  <2>1. UNCHANGED <<jobs, members, delivered, cur, jids>>
    BY <1>3
    DEF ScheduleDelete, DeleteMessages, GroupDelete, DeleteContactGroups,
        ResetMessages, ResetGroups, ResetFails, MediaStep, Tick,
        GoOnline, GoOffline, NothingToDo, vars, msgTable, groupTable, loop,
        ghost, others
  <2> QED
    BY <1>b, <2>1
<1>4. ASSUME NEW m \in batch, Take(m) PROVE AudienceOK' /\ OnlyIntended'
  <2>1. /\ UNCHANGED <<jobs, members, delivered>>
        /\ cur' = m /\ jids' = Expand(jobs[m.id].to)
    BY <1>4 DEF Take, msgTable, groupTable, ghost
  <2>2. m.id \in DOMAIN jobs
    BY DEF LoopOK
  <2> QED
    BY <2>1, <2>2 DEF AudienceOK, OnlyIntended, Expand
<1>5. ASSUME NEW j \in todo, SendOk(j) \/ SendLate(j)
      PROVE  AudienceOK' /\ OnlyIntended'
  <2>1. /\ UNCHANGED <<jobs, members, cur, jids>>
        /\ delivered' = [delivered EXCEPT ![<<cur.id, j>>] = Once(@)]
    BY <1>5 DEF SendOk, SendLate, Received, msgTable, groupTable
  <2>2. j \in jobs[cur.id].wanted
    BY <1>5 DEF SendOk, SendLate, LoopOK, AudienceOK, TypeOK
  <2>3. \A id \in DOMAIN jobs, k \in JID :
           delivered'[<<id, k>>] = delivered[<<id, k>>] \/ <<id, k>> = <<cur.id, j>>
    BY <2>1, <1>a DEF TypeOK
  <2> QED
    BY <2>1, <2>2, <2>3 DEF AudienceOK, OnlyIntended, Expand
<1>6. CASE Reschedule
  <2>1. UNCHANGED <<members, delivered, cur, jids>>
    BY <1>6 DEF Reschedule, groupTable, ghost
  <2>2. /\ lastMsg + 1 \in MsgId \ DOMAIN jobs
        /\ DOMAIN jobs' = DOMAIN jobs \cup {lastMsg + 1}
        /\ \A id \in DOMAIN jobs : jobs'[id] = jobs[id]
        /\ jobs'[lastMsg + 1] = NextOccurrence(jobs[cur.id])
    BY <1>6, RescheduleFrame
  <2>3. cur.id \in DOMAIN jobs /\ cur.id # lastMsg + 1
    BY <1>6, <2>2 DEF Reschedule, Finished, LoopOK
  <2>4. /\ NextOccurrence(jobs[cur.id]).to = jobs[cur.id].to
        /\ NextOccurrence(jobs[cur.id]).wanted = jobs[cur.id].wanted
    BY <1>6, <1>a, <2>3, NextOccurrenceType
    DEF Reschedule, Repeats, StoreTypeOK
  <2>5. \A to : Expand(to)' = Expand(to)
    BY <2>1 DEF Expand
  <2>6. AudienceOK'
    BY <2>1, <2>2, <2>3, <2>4, <2>5 DEF AudienceOK
  <2>7. OnlyIntended'
    BY <1>c, <2>1, <2>2 DEF OnlyIntended
  <2> QED
    BY <2>6, <2>7
<1>7. CASE \/ Load \/ EndOfBatch
           \/ \E m \in batch : TakeUnresolved(m)
           \/ \E j \in todo : SendFails(j)
           \/ Retry \/ RescheduleFails \/ NoReschedule
           \/ Mark \/ MarkFails \/ Crash
  <2>1. /\ UNCHANGED <<jobs, members, delivered>>
        /\ cur' = NoMsg \/ UNCHANGED <<cur, jids>>
    BY <1>7
    DEF Load, EndOfBatch, TakeUnresolved, SendFails, Retry, RescheduleFails,
        NoReschedule, Mark, MarkFails, EndMessage, Crash, msgTable, groupTable,
        ghost
  <2> QED
    BY <1>b, <2>1
<1> QED
  BY <1>1, <1>2, <1>3, <1>4, <1>5, <1>6, <1>7
  DEF Next, Scheduling, Handling

-----------------------------------------------------------------------------
(* A repeating message has a successor *)

LEMMA InitSuccessor == Init => NextPlanned /\ SuccessorExists
BY DEF Init, StoreInit, NextPlanned, SuccessorExists

\* Rows are only added, so a successor stays one.
LEMMA FollowedKept ==
    ASSUME \A id \in DOMAIN jobs : id \in DOMAIN jobs' /\ jobs'[id] = jobs[id],
           NEW id \in DOMAIN jobs, Followed(id)
    PROVE  Followed(id)'
BY DEF Followed

LEMMA SuccessorStep ==
    ASSUME TypeOK, LoopOK, NextPlanned, SuccessorExists, [Next]_vars
    PROVE  NextPlanned' /\ SuccessorExists'
<1>a. sent \subseteq DOMAIN jobs
  BY DEF TypeOK, StoreTypeOK
<1>b. ASSUME UNCHANGED jobs, pc' # "mark", sent' \subseteq sent,
             lost \subseteq lost'
      PROVE  NextPlanned' /\ SuccessorExists'
  BY <1>b DEF NextPlanned, SuccessorExists, Followed
<1>1. CASE \/ Handling \/ Tick \/ GoOnline \/ GoOffline
           \/ NothingToDo \/ UNCHANGED vars
  <2>1. Rely
    BY <1>1, RelyStep
  <2>2. \A id \in DOMAIN jobs : Followed(id) => Followed(id)'
    BY <2>1, FollowedKept DEF Rely
  <2>3. /\ \A id \in DOMAIN jobs : jobs'[id] = jobs[id]
        /\ sent' \subseteq sent /\ UNCHANGED <<pc, cur, lost>>
    BY <2>1 DEF Rely, loop, ghost
  <2>4. pc = "mark" => cur.id \in DOMAIN jobs
    BY DEF LoopOK
  <2> QED
    BY <1>a, <2>2, <2>3, <2>4 DEF NextPlanned, SuccessorExists
<1>2. CASE \/ Load \/ EndOfBatch
           \/ \E m \in batch : Take(m) \/ TakeUnresolved(m)
           \/ Retry \/ MarkFails \/ Crash
  <2>1. /\ UNCHANGED jobs /\ pc' # "mark" /\ sent' = sent /\ lost' = lost
    BY <1>2
    DEF Load, EndOfBatch, Take, TakeUnresolved, Retry, MarkFails, EndMessage,
        Crash, msgTable, ghost
  <2> QED
    BY <1>b, <2>1
<1>3. ASSUME NEW j \in todo, SendOk(j) \/ SendFails(j) \/ SendLate(j)
      PROVE  NextPlanned' /\ SuccessorExists'
  <2>1. /\ UNCHANGED jobs /\ pc' # "mark" /\ sent' = sent /\ lost' = lost
    BY <1>3 DEF SendOk, SendFails, SendLate, msgTable, ghost
  <2> QED
    BY <1>b, <2>1
<1>4. CASE Reschedule
  <2>1. /\ lastMsg + 1 \in DOMAIN jobs'
        /\ \A id \in DOMAIN jobs : id \in DOMAIN jobs' /\ jobs'[id] = jobs[id]
        /\ jobs'[lastMsg + 1] = NextOccurrence(jobs[cur.id])
        /\ sent' = sent
    BY <1>4, RescheduleFrame
  <2>2. /\ cur.id \in DOMAIN jobs /\ jobs[cur.id] \in Job
        /\ jobs[cur.id].rule \in Repeat
        /\ UNCHANGED <<cur, lost>>
    BY <1>4
    DEF Reschedule, Finished, Repeats, LoopOK, TypeOK, StoreTypeOK, ghost
  <2>3. /\ NextOccurrence(jobs[cur.id]).origin = jobs[cur.id].origin
        /\ NextOccurrence(jobs[cur.id]).at =
              jobs[cur.id].at + Period[jobs[cur.id].rule]
    BY <2>2, NextOccurrenceType
  <2>4. Followed(cur.id)'
    BY <2>1, <2>2, <2>3 DEF Followed
  <2>5. \A id \in DOMAIN jobs : Followed(id) => Followed(id)'
    BY <2>1, FollowedKept
  <2> QED
    BY <1>a, <2>1, <2>2, <2>4, <2>5 DEF NextPlanned, SuccessorExists
<1>5. CASE RescheduleFails
  BY <1>5 DEF RescheduleFails, NextPlanned, SuccessorExists, Followed, msgTable
<1>6. CASE NoReschedule
  BY <1>6
  DEF NoReschedule, Repeats, NextPlanned, SuccessorExists, Followed, msgTable,
      ghost
<1>7. CASE Mark
  BY <1>7
  DEF Mark, MarkAsSent, EndMessage, NextPlanned, SuccessorExists, Followed,
      ghost
<1> QED
  BY <1>1, <1>2, <1>3, <1>4, <1>5, <1>6, <1>7 DEF Next, Scheduling

-----------------------------------------------------------------------------
(* The theorems *)

LEMMA InvInit == Init => Inv
BY InitType, InitLoop, InitOnce, InitAudience, InitSuccessor DEF Inv

LEMMA InvStep == Inv /\ [Next]_vars => Inv'
BY TypeStep, LoopStep, OnceStep, AudienceStep, SuccessorStep DEF Inv

\* Every reachable state satisfies the inductive invariant.
THEOREM Invariance == Spec => []Inv
BY InvInit, InvStep, PTL DEF Spec

\* The variables have the types their declarations say.
THEOREM TypeCorrect == Spec => []TypeOK
<1>1. Inv => TypeOK
  BY DEF Inv
<1> QED
  BY Invariance, <1>1, PTL

\* Nobody gets a message twice, unless a fault hit the handling of that message:
\* process tries a message again only when nobody got it.
THEOREM SentAtMostOnce == Spec => []NoDuplicate
<1>1. Inv => NoDuplicate
  BY DEF Inv
<1> QED
  BY Invariance, <1>1, PTL

\* A message goes only to those its target named when it was submitted, although
\* send looks the group up by its id at the time of sending.
THEOREM RightAudience == Spec => []OnlyIntended
<1>1. Inv => OnlyIntended
  BY DEF Inv
<1> QED
  BY Invariance, <1>1, PTL

\* A repeating message that is marked as sent has a successor, unless inserting
\* it failed: process inserts it before it marks.
THEOREM ChainContinues == Spec => []SuccessorExists
<1>1. Inv => SuccessorExists
  BY DEF Inv
<1> QED
  BY Invariance, <1>1, PTL

\* What one step may not do to a message whose row is gone.
LEMMA GoneStep ==
    ASSUME TypeOK, LoopOK, [Next]_vars, NEW id \in Gone
    PROVE  /\ id \in Gone'
           /\ jobs'[id] = jobs[id]
           /\ \A j \in JID : delivered'[<<id, j>>] = delivered[<<id, j>>]
<1>a. /\ id \in DOMAIN jobs /\ id \notin stored /\ id # cur.id
      /\ \A m \in batch : id # m.id
      /\ id # NoMsg.id
  BY BoundAssumption DEF Gone, Held, TypeOK, StoreTypeOK, NoMsg
<1>b. ASSUME id \in DOMAIN jobs', jobs'[id] = jobs[id], id \notin stored',
             id # cur'.id, \A m \in batch' : id # m.id,
             \A j \in JID : delivered'[<<id, j>>] = delivered[<<id, j>>]
      PROVE  /\ id \in Gone' /\ jobs'[id] = jobs[id]
             /\ \A j \in JID : delivered'[<<id, j>>] = delivered[<<id, j>>]
  BY <1>b DEF Gone, Held
<1>1. CASE \/ Handling \/ Tick \/ GoOnline \/ GoOffline
           \/ NothingToDo \/ UNCHANGED vars
  <2>1. Rely
    BY <1>1, RelyStep
  <2> QED
    BY <1>a, <1>b, <2>1 DEF Rely, loop, ghost
<1>2. CASE Load
  <2>1. \A m \in batch' : m.id \in stored
    BY <1>2 DEF Load, SnapshotOf, PendingMessages
  <2> QED
    BY <1>2, <1>a, <1>b, <2>1 DEF Load, msgTable, ghost
<1>3. CASE \/ EndOfBatch \/ \E m \in batch : Take(m) \/ TakeUnresolved(m)
           \/ \E j \in todo : SendFails(j)
           \/ Retry \/ RescheduleFails \/ NoReschedule \/ Mark \/ MarkFails
           \/ Crash
  <2>1. /\ UNCHANGED <<jobs, stored, delivered>> /\ batch' \subseteq batch
        /\ cur' \in batch \cup {cur, NoMsg}
    BY <1>3
    DEF EndOfBatch, Take, TakeUnresolved, SendFails, Retry, RescheduleFails,
        NoReschedule, Mark, MarkFails, EndMessage, Crash, Continue, msgTable,
        ghost
  <2> QED
    BY <1>a, <1>b, <2>1
<1>4. ASSUME NEW j \in todo, SendOk(j) \/ SendLate(j)
      PROVE  /\ id \in Gone' /\ jobs'[id] = jobs[id]
             /\ \A k \in JID : delivered'[<<id, k>>] = delivered[<<id, k>>]
  <2>1. /\ UNCHANGED <<jobs, stored, batch, cur>>
        /\ delivered' = [delivered EXCEPT ![<<cur.id, j>>] = Once(@)]
    BY <1>4 DEF SendOk, SendLate, Received, msgTable
  <2>2. \A k \in JID : delivered'[<<id, k>>] = delivered[<<id, k>>]
    <3>1. \A k \in JID : <<id, k>> \in MsgId \X JID /\ <<id, k>> # <<cur.id, j>>
      BY <1>a, BoundAssumption DEF TypeOK, StoreTypeOK, MsgId
    <3> QED
      BY <2>1, <3>1 DEF TypeOK
  <2> QED
    BY <1>a, <1>b, <2>1, <2>2
<1>5. CASE Reschedule
  BY <1>5, <1>a, <1>b, RescheduleFrame DEF Reschedule, ghost
<1> QED
  BY <1>1, <1>2, <1>3, <1>4, <1>5 DEF Next, Scheduling

\* A message whose row is gone and that the running scheduler does not hold
\* stays as it is for ever: it is not sent, and its id is not used again.
THEOREM DeletionIsFinal == Spec => DeletedIsFinal
<1>1. Inv /\ [Next]_vars =>
        [\A id \in Gone :
            /\ id \in Gone'
            /\ jobs'[id] = jobs[id]
            /\ \A j \in JID : delivered'[<<id, j>>] = delivered[<<id, j>>]]_vars
  BY GoneStep DEF Inv
<1> QED
  BY Invariance, <1>1, PTL DEF Spec, DeletedIsFinal

-----------------------------------------------------------------------------
(* A chain has one pending row *)

\* The messages that are pending or that the loop still holds.
Active ==
    Pending \cup {m.id : m \in batch}
            \cup (IF pc \in {"send", "mark"} THEN {cur.id} ELSE {})

\* No group is empty, so a message that is being sent has recipients, and one
\* that is about to be marked has reached one of them.
Reaching ==
    /\ \A g \in DOMAIN members : members[g] # {}
    /\ pc = "send" => jids # {}
    /\ pc = "mark" => sentTo # {}

\* A chain starts with its origin, and as long as no fault hit it, only its last
\* row is active: the one before it is, until it is marked, the one at hand.
LastIsActive ==
    /\ \A id \in DOMAIN jobs : jobs[id].origin <= id
    /\ \A a \in Active, b \in DOMAIN jobs :
          /\ a < b
          /\ jobs[a].origin = jobs[b].origin
          /\ ~ChainFaulty(a)
          => pc = "mark" /\ cur.id = a

ChainInv == Inv /\ Reaching /\ LastIsActive

\* The rows an active message can be are rows there have been.
LEMMA ActiveRows ==
    ASSUME TypeOK, LoopOK
    PROVE  /\ Active \subseteq DOMAIN jobs
           /\ DOMAIN jobs = 1..lastMsg /\ lastMsg \in Nat
           /\ faulty \subseteq DOMAIN jobs
<1>1. DOMAIN jobs = 1..lastMsg /\ lastMsg \in Nat /\ faulty \subseteq 1..lastMsg
  BY BoundAssumption DEF TypeOK, StoreTypeOK
<1>2. Pending \subseteq DOMAIN jobs
  BY <1>1 DEF TypeOK, StoreTypeOK, Pending
<1>3. {m.id : m \in batch} \subseteq DOMAIN jobs
  BY DEF LoopOK
<1>4. pc \in {"send", "mark"} => cur.id \in DOMAIN jobs
  BY DEF LoopOK
<1> QED
  BY <1>1, <1>2, <1>3, <1>4 DEF Active

LEMMA ReachingStep ==
    ASSUME TypeOK, LoopOK, Reaching, [Next]_vars
    PROVE  Reaching'
<1>a. StoreTypeOK
  BY DEF TypeOK
<1>1. ASSUME NEW roster \in Rosters, GroupCreate(roster) PROVE Reaching'
  <2>1. /\ members' = Put(members, lastGroup + 1, roster)
        /\ roster # {} /\ UNCHANGED loop
    BY <1>1, FormsAssumption
    DEF GroupCreate, CreateContactGroup, NextGroupId, others
  <2> QED
    BY <2>1 DEF Put, Reaching, loop
<1>2. CASE \/ \E form \in Forms : ScheduleSubmit(form)
           \/ \E id \in stored : ScheduleDelete(id)
           \/ \E g \in groups : GroupDelete(g)
           \/ ResetMessages \/ ResetGroups \/ ResetFails
           \/ MediaStep \/ Tick \/ GoOnline \/ GoOffline
           \/ NothingToDo \/ UNCHANGED vars
  <2>1. UNCHANGED <<members, loop>>
    BY <1>2
    DEF ScheduleSubmit, ScheduleDelete, GroupDelete, DeleteContactGroups,
        ResetMessages, ResetGroups, ResetFails, MediaStep, Tick,
        GoOnline, GoOffline, NothingToDo, vars, groupTable, others
  <2> QED
    BY <2>1 DEF Reaching, loop
<1>3. ASSUME NEW m \in batch, Take(m) PROVE Reaching'
  <2>1. /\ pc' = "send" /\ jids' = Expand(jobs[m.id].to) /\ members' = members
        /\ jobs[m.id].to \in GroupId => jobs[m.id].to \in DOMAIN members
    BY <1>3, <1>a DEF Take, Resolves, StoreTypeOK, groupTable
  <2> QED
    BY <2>1 DEF Expand, Reaching
<1>4. CASE \/ Load \/ EndOfBatch \/ \E m \in batch : TakeUnresolved(m)
           \/ Retry \/ Mark \/ MarkFails \/ Crash
  <2>1. members' = members /\ pc' \notin {"send", "mark"}
    BY <1>4
    DEF Load, EndOfBatch, TakeUnresolved, Retry, Mark, MarkFails, EndMessage,
        Crash, groupTable
  <2> QED
    BY <2>1 DEF Reaching
<1>5. ASSUME NEW j \in todo, SendOk(j) \/ SendFails(j) \/ SendLate(j)
      PROVE  Reaching'
  BY <1>5 DEF SendOk, SendFails, SendLate, Reaching, groupTable
<1>6. CASE Reschedule \/ RescheduleFails \/ NoReschedule
  BY <1>6
  DEF Reschedule, RescheduleFails, NoReschedule, Finished, AllFailed, Reaching,
      groupTable
<1> QED
  BY <1>1, <1>2, <1>3, <1>4, <1>5, <1>6 DEF Next, Scheduling, Handling

\* Steps that insert nothing and make nothing active; the one at hand may be let
\* go only when it is no longer active, met a fault, or was not to be marked.
LEMMA LastKept ==
    ASSUME LastIsActive, UNCHANGED jobs, Active' \subseteq Active,
           faulty \subseteq faulty',
           \/ pc # "mark"
           \/ UNCHANGED <<pc, cur>>
           \/ cur.id \notin Active'
           \/ cur.id \in faulty'
    PROVE  LastIsActive'
<1>1. ASSUME NEW a \in Active', NEW b \in DOMAIN jobs, a < b,
             jobs[a].origin = jobs[b].origin, ~ChainFaulty(a)'
      PROVE  pc' = "mark" /\ cur'.id = a
  <2>1. ~ChainFaulty(a) /\ a \notin faulty'
    BY <1>1 DEF ChainFaulty
  <2>2. pc = "mark" /\ cur.id = a
    BY <1>1, <2>1 DEF LastIsActive
  <2> QED
    BY <1>1, <2>1, <2>2
<1> QED
  BY <1>1 DEF LastIsActive

\* A new row that starts a chain of its own.
LEMMA LastSubmitted ==
    ASSUME TypeOK, LoopOK, LastIsActive, NEW form \in Forms, ScheduleSubmit(form)
    PROVE  LastIsActive'
<1> DEFINE n == lastMsg + 1
<1>1. /\ Active \subseteq DOMAIN jobs /\ faulty \subseteq DOMAIN jobs
      /\ DOMAIN jobs = 1..lastMsg /\ lastMsg \in Nat
  BY ActiveRows
<1>2. UNCHANGED <<loop, ghost, groupTable>> /\ StoreTypeOK
  BY DEF ScheduleSubmit, others, TypeOK
<1>3. /\ DOMAIN jobs' = DOMAIN jobs \cup {n}
      /\ \A id \in DOMAIN jobs : jobs'[id] = jobs[id]
      /\ jobs'[n] = SubmittedRow(form)
      /\ Pending' = Pending \cup {n}
  BY <1>2, SubmitRow, CreateFrame
<1>4. jobs'[n].origin = n
  BY <1>3 DEF SubmittedRow, NextMsgId
<1>5. Active' \subseteq Active \cup {n}
  BY <1>2, <1>3 DEF Active, loop
<1>6. \A id \in DOMAIN jobs : jobs'[id].origin < n
  <2>1. \A id \in DOMAIN jobs : jobs[id].origin <= id /\ jobs[id].origin \in Nat
    BY BoundAssumption DEF LastIsActive, TypeOK, StoreTypeOK, Job, MsgId
  <2> QED
    BY <1>1, <1>3, <2>1
<1>7. ASSUME NEW a \in Active', NEW b \in DOMAIN jobs', a < b,
             jobs'[a].origin = jobs'[b].origin, ~ChainFaulty(a)'
      PROVE  pc' = "mark" /\ cur'.id = a
  <2>1. a \in DOMAIN jobs /\ a \in Active
    BY <1>1, <1>3, <1>5, <1>7
  <2>2. b \in DOMAIN jobs
    BY <1>3, <1>4, <1>6, <1>7, <2>1, <1>1
  <2>3. ~ChainFaulty(a)
    BY <1>1, <1>2, <1>3, <1>7, <2>1 DEF ChainFaulty, ghost
  <2> QED
    BY <1>2, <1>3, <1>7, <2>1, <2>2, <2>3 DEF LastIsActive, loop
<1>8. \A id \in DOMAIN jobs' : jobs'[id].origin <= id
  BY <1>1, <1>3, <1>4 DEF LastIsActive
<1> QED
  BY <1>7, <1>8 DEF LastIsActive

\* The next row of the chain at hand.
LEMMA LastRescheduled ==
    ASSUME TypeOK, LoopOK, LastIsActive, Reschedule
    PROVE  LastIsActive'
<1> DEFINE n == lastMsg + 1
<1>1. /\ Active \subseteq DOMAIN jobs /\ faulty \subseteq DOMAIN jobs
      /\ DOMAIN jobs = 1..lastMsg /\ lastMsg \in Nat
  BY ActiveRows
<1>2. /\ pc = "send" /\ pc' = "mark" /\ UNCHANGED <<batch, cur, faulty>>
      /\ cur.id \in DOMAIN jobs /\ cur.id \in Active
  BY DEF Reschedule, Finished, ghost, LoopOK, Active
<1>3. /\ DOMAIN jobs' = DOMAIN jobs \cup {n}
      /\ \A id \in DOMAIN jobs : jobs'[id] = jobs[id]
      /\ jobs'[n] = NextOccurrence(jobs[cur.id])
      /\ Pending' = Pending \cup {n}
  BY RescheduleFrame
<1>4. jobs'[n].origin = jobs[cur.id].origin
  BY <1>2, <1>3, NextOccurrenceType
  DEF Reschedule, Repeats, TypeOK, StoreTypeOK
<1>5. Active' \subseteq Active \cup {n}
  BY <1>2, <1>3 DEF Active
<1>6. ASSUME NEW a \in Active', NEW b \in DOMAIN jobs', a < b,
             jobs'[a].origin = jobs'[b].origin, ~ChainFaulty(a)'
      PROVE  cur.id = a
  <2>1. a \in DOMAIN jobs /\ a \in Active
    BY <1>1, <1>3, <1>5, <1>6
  <2>2. ~ChainFaulty(a)
    BY <1>1, <1>2, <1>3, <1>6, <2>1 DEF ChainFaulty
  <2>3. b = n
    BY <1>2, <1>3, <1>6, <2>1, <2>2 DEF LastIsActive
  <2>4. jobs[a].origin = jobs[cur.id].origin
    BY <1>3, <1>4, <1>6, <2>1, <2>3
  <2>5. ~ChainFaulty(cur.id)
    BY <2>2, <2>4 DEF ChainFaulty
  <2>6. ~(a < cur.id)
    BY <1>2, <2>1, <2>2, <2>4 DEF LastIsActive
  <2>7. ~(cur.id < a)
    BY <1>2, <2>1, <2>4, <2>5 DEF LastIsActive
  <2> QED
    BY <1>1, <1>2, <2>1, <2>6, <2>7
<1>7. \A id \in DOMAIN jobs' : jobs'[id].origin <= id
  <2>1. jobs[cur.id].origin <= cur.id /\ jobs[cur.id].origin \in Nat
    BY <1>2, BoundAssumption DEF LastIsActive, TypeOK, StoreTypeOK, Job, MsgId
  <2> QED
    BY <1>1, <1>2, <1>3, <1>4, <2>1 DEF LastIsActive
<1> QED
  BY <1>2, <1>6, <1>7 DEF LastIsActive

LEMMA LastStep ==
    ASSUME TypeOK, LoopOK, Reaching, LastIsActive, [Next]_vars
    PROVE  LastIsActive'
<1>1. ASSUME NEW form \in Forms, ScheduleSubmit(form) PROVE LastIsActive'
  BY <1>1, LastSubmitted
<1>2. ASSUME UNCHANGED jobs,
             \/ Handling \/ Tick \/ GoOnline \/ GoOffline
             \/ NothingToDo \/ UNCHANGED vars
      PROVE  LastIsActive'
  <2>1. Rely
    BY <1>2, RelyStep
  <2>2. Pending' \subseteq Pending
    <3>1. Pending' \subseteq DOMAIN jobs'
      BY <1>2, TypeStep DEF TypeOK, StoreTypeOK, Pending
    <3> QED
      BY <1>2, <2>1, <3>1 DEF Rely
  <2>3. Active' \subseteq Active
    BY <2>1, <2>2 DEF Rely, Active, loop
  <2> QED
    BY <1>2, <2>1, <2>3, LastKept DEF Rely, loop, ghost
<1>3. CASE \/ \E id \in stored : ScheduleDelete(id)
           \/ \E roster \in Rosters : GroupCreate(roster)
           \/ \E g \in groups : GroupDelete(g)
           \/ ResetMessages \/ ResetGroups \/ ResetFails
           \/ MediaStep \/ Tick \/ GoOnline \/ GoOffline
           \/ NothingToDo \/ UNCHANGED vars
  <2>1. UNCHANGED jobs
    BY <1>3
    DEF ScheduleDelete, DeleteMessages, GroupCreate, GroupDelete,
        ResetMessages, ResetGroups, ResetFails, MediaStep, Tick, GoOnline,
        GoOffline, NothingToDo, vars, msgTable
  <2> QED
    BY <1>2, <1>3, <2>1 DEF Handling
<1>4. CASE Load
  <2>1. \A m \in batch' : m.id \in Pending
    BY <1>4 DEF Load, SnapshotOf, PendingMessages, Pending
  <2>2. Active' \subseteq Active
    BY <1>4, <2>1 DEF Load, Active, Pending, msgTable
  <2> QED
    BY <1>4, <2>2, LastKept DEF Load, msgTable, ghost
<1>5. ASSUME NEW m \in batch, Take(m) \/ TakeUnresolved(m) PROVE LastIsActive'
  <2>1. Active' \subseteq Active
    BY <1>5 DEF Take, TakeUnresolved, Continue, Active, Pending, msgTable
  <2> QED
    BY <1>5, <2>1, LastKept DEF Take, TakeUnresolved, msgTable, ghost
<1>6. CASE EndOfBatch \/ Retry \/ RescheduleFails \/ NoReschedule
  <2>1. Active' \subseteq Active
    BY <1>6
    DEF EndOfBatch, Retry, RescheduleFails, NoReschedule, Finished, Continue,
        Active, Pending, msgTable
  <2> QED
    BY <1>6, <2>1, LastKept
    DEF EndOfBatch, Retry, RescheduleFails, NoReschedule, Finished, msgTable,
        ghost
<1>7. ASSUME NEW j \in todo, SendOk(j) \/ SendFails(j) \/ SendLate(j)
      PROVE  LastIsActive'
  <2>1. Active' = Active
    BY <1>7 DEF SendOk, SendFails, SendLate, Active, Pending, msgTable
  <2> QED
    BY <1>7, <2>1, LastKept DEF SendOk, SendFails, SendLate, msgTable, ghost
<1>8. CASE Reschedule
  BY <1>8, LastRescheduled
<1>9. CASE Mark
  <2>1. /\ pc' = "next" /\ UNCHANGED <<batch, jobs, stored, faulty>>
        /\ sent' = sent \cup ({cur.id} \cap stored)
    BY <1>9 DEF Mark, MarkAsSent, EndMessage, ghost
  <2>2. \A m \in batch : m.id # cur.id
    BY <1>9 DEF Mark, LoopOK
  <2>3. Active' \subseteq Active /\ cur.id \notin Active'
    BY <2>1, <2>2 DEF Active, Pending
  <2> QED
    BY <2>1, <2>3, LastKept
<1>10. CASE MarkFails \/ Crash
  <2>1. Active' \subseteq Active
    BY <1>10 DEF MarkFails, EndMessage, Crash, Active, Pending, msgTable
  <2>2. /\ UNCHANGED jobs /\ faulty \subseteq faulty'
        /\ pc = "mark" => cur.id \in faulty'
    BY <1>10 DEF MarkFails, Crash, Reaching, msgTable
  <2> QED
    BY <2>1, <2>2, LastKept
<1> QED
  BY <1>1, <1>3, <1>4, <1>5, <1>6, <1>7, <1>8, <1>9, <1>10
  DEF Next, Scheduling, Handling

LEMMA ChainInit == Init => ChainInv
<1>1. ASSUME Init PROVE Reaching /\ LastIsActive
  BY <1>1 DEF Init, StoreInit, Reaching, LastIsActive
<1> QED
  BY <1>1, InvInit DEF ChainInv

LEMMA ChainStep == ChainInv /\ [Next]_vars => ChainInv'
<1>1. ASSUME Inv, Reaching, LastIsActive, [Next]_vars
      PROVE  Inv' /\ Reaching' /\ LastIsActive'
  BY <1>1, InvStep, ReachingStep, LastStep DEF Inv
<1> QED
  BY <1>1 DEF ChainInv

LEMMA OnlyOnePending ==
    ASSUME TypeOK, LoopOK, LastIsActive
    PROVE  OnePendingPerChain
<1>1. Pending \subseteq Active
  BY DEF Active
<1>2. ASSUME NEW a \in Pending, NEW b \in Pending, a # b,
             jobs[a].origin = jobs[b].origin, ~ChainFaulty(a)
      PROVE  pc = "mark" /\ cur.id \in {a, b}
  <2>1. a < b \/ b < a
    BY <1>1, <1>2, ActiveRows
  <2>2. ~ChainFaulty(b)
    BY <1>2 DEF ChainFaulty
  <2> QED
    BY <1>1, <1>2, <2>1, <2>2, ActiveRows DEF LastIsActive
<1> QED
  BY <1>2 DEF OnePendingPerChain

\* A repeating message never forks: process inserts the next row of a chain only
\* from its last one, and only crashes and failed updates leave both pending.
THEOREM ChainNeverForks == Spec => []OnePendingPerChain
<1>1. ChainInv => OnePendingPerChain
  BY OnlyOnePending DEF ChainInv, Inv
<1> QED
  BY ChainInit, ChainStep, <1>1, PTL DEF Spec
=============================================================================
