--------------------------- MODULE DeliveryProofs ---------------------------
(* Proof that Scheduler implements Delivery. *)
EXTENDS SchedulerProofs

\* What the loop of process knows of the message it is working on: it is due,
\* it is for somebody, those counted as reached have got it, and it is marked
\* only after somebody has.
LoopPromise ==
    /\ \A m \in batch : jobs[m.id].at <= now
    /\ pc \in {"send", "mark"} => jobs[cur.id].at <= now /\ jids # {}
    /\ \A j \in sentTo : delivered[<<cur.id, j>>] > 0
    /\ pc = "mark" => sentTo # {}

\* No group is without members: handleGroupCreate refuses it.
NoEmptyGroup == \A g \in DOMAIN members : members[g] # {}

LEMMA InitPromise == Init => LoopPromise /\ NoEmptyGroup
BY DEF Init, StoreInit, LoopPromise, NoEmptyGroup

LEMMA GroupsStayPeopled ==
    ASSUME Inv, NoEmptyGroup, [Next]_vars
    PROVE  NoEmptyGroup'
<1>a. StoreTypeOK
  BY DEF Inv, TypeOK
<1>1. ASSUME NEW roster \in Rosters, GroupCreate(roster) PROVE NoEmptyGroup'
  <2>1. roster # {} /\ lastGroup \in Nat
    BY <1>a, FormsAssumption, BoundAssumption DEF StoreTypeOK
  <2>2. members' = Put(members, lastGroup + 1, roster)
    BY <1>1 DEF GroupCreate, CreateContactGroup, NextGroupId
  <2> QED
    BY <2>1, <2>2 DEF NoEmptyGroup, Put
<1>2. ASSUME UNCHANGED members PROVE NoEmptyGroup'
  BY <1>2 DEF NoEmptyGroup
<1>3. ASSUME Scheduling PROVE UNCHANGED members
  BY <1>3
  DEF Scheduling, NothingToDo, Load, EndOfBatch, Take, TakeUnresolved, SendOk,
      SendFails, SendLate, Retry, Reschedule, RescheduleFails, NoReschedule,
      Mark, MarkFails, vars, groupTable
<1>4. ASSUME Handling, ~\E roster \in Rosters : GroupCreate(roster)
      PROVE  UNCHANGED members
  BY <1>4
  DEF Handling, ScheduleSubmit, ScheduleDelete, GroupDelete, ResetMessages,
      ResetGroups, ResetFails, MediaStep, DeleteContactGroups, groupTable
<1>5. ASSUME Tick \/ GoOnline \/ GoOffline \/ Crash \/ UNCHANGED vars
      PROVE  UNCHANGED members
  BY <1>5 DEF Tick, GoOnline, GoOffline, Crash, vars, groupTable
<1> QED
  BY <1>1, <1>2, <1>3, <1>4, <1>5 DEF Next

\* The clock never goes back.
LEMMA ClockStep ==
    ASSUME TypeOK, [Next]_vars
    PROVE  now \in Nat /\ now' \in Nat /\ now <= now'
<1>1. now \in Nat
  BY EnvironmentAssumption DEF TypeOK
<1>2. CASE Tick
  BY <1>1, <1>2 DEF Tick
<1>3. ASSUME ~Tick PROVE now' = now
  <2>1. ASSUME Scheduling PROVE now' = now
    BY <2>1
    DEF Scheduling, NothingToDo, Load, EndOfBatch, Take, TakeUnresolved, SendOk,
        SendFails, SendLate, Retry, Reschedule, RescheduleFails, NoReschedule,
        Mark, MarkFails, vars, env
  <2>2. ASSUME Handling PROVE now' = now
    BY <2>2
    DEF Handling, ScheduleSubmit, ScheduleDelete, GroupCreate, GroupDelete,
        ResetMessages, ResetGroups, ResetFails, MediaStep, others, env
  <2>3. ASSUME GoOnline \/ GoOffline \/ Crash \/ UNCHANGED vars
        PROVE  now' = now
    BY <2>3 DEF GoOnline, GoOffline, Crash, vars, env
  <2> QED
    BY <1>3, <2>1, <2>2, <2>3 DEF Next
<1> QED
  BY <1>1, <1>2, <1>3

\* Rows are rows.
LEMMA RowTypes ==
    ASSUME StoreTypeOK
    PROVE  \A id \in DOMAIN jobs : id \in MsgId /\ jobs[id].at \in Nat
<1>1. DOMAIN jobs = 1..lastMsg /\ \A id \in DOMAIN jobs : jobs[id] \in Job
  BY DEF StoreTypeOK
<1>2. 1..lastMsg \subseteq MsgId
  BY BoundAssumption DEF StoreTypeOK, MsgId
<1> QED
  BY <1>1, <1>2 DEF Job

LEMMA PromiseStep ==
    ASSUME Inv, LoopPromise, NoEmptyGroup, [Next]_vars
    PROVE  LoopPromise'
<1>a. /\ TypeOK /\ LoopOK /\ StoreTypeOK
      /\ now \in Nat /\ now' \in Nat /\ now <= now'
      /\ \A id \in DOMAIN jobs : id \in MsgId /\ jobs[id].at \in Nat
  <2>1. TypeOK /\ LoopOK /\ StoreTypeOK
    BY DEF Inv, TypeOK
  <2> QED
    BY <2>1, ClockStep, RowTypes
<1>b. ASSUME \A id \in DOMAIN jobs : jobs'[id] = jobs[id],
             UNCHANGED <<cur, batch, pc, jids, sentTo, delivered>>
      PROVE  LoopPromise'
  <2>1. /\ \A m \in batch : m.id \in DOMAIN jobs
        /\ pc \in {"send", "mark"} => cur.id \in DOMAIN jobs
    BY <1>a DEF LoopOK
  <2>2. \A id \in DOMAIN jobs : jobs[id].at <= now => jobs'[id].at <= now'
    BY <1>a, <1>b
  <2> QED
    BY <1>b, <2>1, <2>2 DEF LoopPromise
<1>1. CASE \/ Handling \/ Tick \/ GoOnline \/ GoOffline
           \/ NothingToDo \/ UNCHANGED vars
  <2>1. Rely
    BY <1>1, <1>a, RelyStep
  <2> QED
    BY <1>b, <2>1 DEF Rely, loop, ghost
<1>2. CASE Load
  <2>1. \A m \in batch' : jobs[m.id].at <= now
    BY <1>2 DEF Load, SnapshotOf, PendingMessages
  <2>2. /\ sentTo' = {} /\ pc' = "next" /\ UNCHANGED <<jobs, now>>
    BY <1>2, <1>a DEF Load, LoopOK, msgTable, env
  <2> QED
    BY <2>1, <2>2 DEF LoopPromise
<1>3. ASSUME NEW m \in batch, Take(m) PROVE LoopPromise'
  <2>1. /\ UNCHANGED <<jobs, now>> /\ batch' \subseteq batch /\ m \in batch
        /\ cur' = m /\ sentTo' = {} /\ pc' = "send"
        /\ jids' = Expand(jobs[m.id].to) /\ Resolves(jobs[m.id].to)
    BY <1>3 DEF Take, msgTable, env
  <2>2. jids' # {}
    BY <1>a, <2>1 DEF Expand, Resolves, NoEmptyGroup, StoreTypeOK
  <2> QED
    BY <2>1, <2>2 DEF LoopPromise
<1>4. CASE \/ EndOfBatch \/ Retry \/ MarkFails \/ Mark \/ Crash
           \/ \E m \in batch : TakeUnresolved(m)
  <2>1. /\ UNCHANGED <<jobs, now>> /\ batch' \subseteq batch
        /\ sentTo' = {} /\ pc' \in {"idle", "next"}
    BY <1>4, <1>a
    DEF EndOfBatch, Retry, AllFailed, MarkFails, Mark, EndMessage, Crash,
        TakeUnresolved, Continue, LoopOK, msgTable, env
  <2> QED
    BY <2>1 DEF LoopPromise
<1>5. ASSUME NEW j \in todo, SendFails(j) PROVE LoopPromise'
  <2>1. UNCHANGED <<jobs, now, batch, cur, pc, jids, sentTo, delivered>>
    BY <1>5 DEF SendFails, msgTable, env, ghost
  <2> QED
    BY <1>b, <2>1
<1>6. ASSUME NEW j \in todo, SendOk(j) \/ SendLate(j) PROVE LoopPromise'
  <2>1. /\ UNCHANGED <<jobs, now, batch, cur, pc, jids>> /\ pc = "send"
        /\ delivered' = [delivered EXCEPT ![<<cur.id, j>>] = Once(@)]
        /\ sentTo' \subseteq sentTo \cup {j}
    BY <1>6 DEF SendOk, SendLate, Received, msgTable, env
  <2>2. /\ cur.id \in MsgId /\ j \in JID /\ sentTo \subseteq JID
        /\ delivered \in [MsgId \X JID -> Count]
    BY <1>a, <2>1 DEF LoopOK, TypeOK
  <2>3. \A n \in Count : Once(n) > 0
    BY DEF Count, Once, Many
  <2>4. \A k \in sentTo' : delivered'[<<cur.id, k>>] > 0
    BY <2>1, <2>2, <2>3 DEF LoopPromise
  <2> QED
    BY <2>1, <2>4 DEF LoopPromise
<1>7. CASE Reschedule \/ RescheduleFails \/ NoReschedule
  <2>1. \A id \in DOMAIN jobs : jobs'[id] = jobs[id]
    BY <1>7, <1>a, RescheduleFrame DEF RescheduleFails, NoReschedule, msgTable
  <2>2. /\ UNCHANGED <<now, batch, cur, jids, sentTo, delivered>>
        /\ pc = "send" /\ pc' = "mark" /\ ~AllFailed
    BY <1>7
    DEF Reschedule, RescheduleFails, NoReschedule, Finished, ghost, env
  <2>3. sentTo # {} /\ jids # {}
    BY <2>2 DEF AllFailed, LoopPromise
  <2>4. /\ \A m \in batch : m.id \in DOMAIN jobs
        /\ cur.id \in DOMAIN jobs
    BY <1>a, <2>2 DEF LoopOK
  <2> QED
    BY <2>1, <2>2, <2>3, <2>4 DEF LoopPromise
<1> QED
  BY <1>1, <1>2, <1>3, <1>4, <1>5, <1>6, <1>7 DEF Next, Scheduling

LEMMA Promised == Spec => [](Inv /\ LoopPromise /\ NoEmptyGroup)
<1>1. Init => Inv /\ LoopPromise /\ NoEmptyGroup
  BY InvInit, InitPromise
<1>2. Inv /\ LoopPromise /\ NoEmptyGroup /\ [Next]_vars =>
          (Inv /\ LoopPromise /\ NoEmptyGroup)'
  BY InvStep, GroupsStayPeopled, PromiseStep
<1> QED
  BY <1>1, <1>2, PTL DEF Spec

-----------------------------------------------------------------------------
(* The refinement mapping *)

LEMMA StatusCases ==
    ASSUME TypeOK, NEW id
    PROVE  /\ id \notin DOMAIN jobs => StatusOf(id) = "none"
           /\ id \in Pending => StatusOf(id) = "pending"
           /\ id \in sent => StatusOf(id) = "done"
           /\ id \in DOMAIN jobs \ stored => StatusOf(id) = "gone"
           /\ id \in stored => id \in Pending \/ id \in sent
<1>1. sent \subseteq stored /\ stored \subseteq DOMAIN jobs
  BY DEF TypeOK, StoreTypeOK
<1> QED
  BY <1>1 DEF StatusOf, Pending

LEMMA MappedInit == Init => Contract!Init
<1> SUFFICES ASSUME Init PROVE Contract!Init
  OBVIOUS
<1>1. DOMAIN jobs = {} /\ stored = {} /\ sent = {} /\ now = 0
  BY DEF Init, StoreInit
<1>2. \A id \in MsgId : StatusOf(id) = "none" /\ DueOf(id) = 0
  BY <1>1 DEF StatusOf, DueOf, Pending
<1>3. \A id \in MsgId : ReachedBy(id) = {}
  BY DEF Init, ReachedBy
<1> QED
  BY <1>1, <1>2, <1>3 DEF Contract!Init

LEMMA MappedStutter ==
    ASSUME UNCHANGED <<jobs, stored, sent, delivered, now>>
    PROVE  UNCHANGED Contract!vars
BY DEF Contract!vars, StatusOf, DueOf, ReachedBy, Pending

\* An inserted row is an issued message.
LEMMA MappedInsert ==
    ASSUME TypeOK, TypeOK', NEW id \in MsgId \ DOMAIN jobs,
           DOMAIN jobs' = DOMAIN jobs \cup {id},
           \A k \in DOMAIN jobs : jobs'[k] = jobs[k],
           stored' = stored \cup {id}, sent' = sent,
           Pending' = Pending \cup {id}, UNCHANGED <<delivered, now>>
    PROVE  Contract!Next
<1>1. /\ sent \subseteq stored /\ stored \subseteq DOMAIN jobs
      /\ jobs'[id].at \in Nat
  BY DEF TypeOK, StoreTypeOK, Job
<1>2. /\ StatusOf(id) = "none"
      /\ \A k \in MsgId : StatusOf(k)' = IF k = id THEN "pending" ELSE StatusOf(k)
  <2>1. StatusOf(id) = "none"
    BY <1>1, StatusCases
  <2>2. ASSUME NEW k \in MsgId, k # id PROVE StatusOf(k)' = StatusOf(k)
    BY <2>2 DEF StatusOf
  <2>3. ASSUME NEW k \in MsgId, k = id PROVE StatusOf(k)' = "pending"
    BY <1>1, <2>3 DEF StatusOf
  <2> QED
    BY <2>1, <2>2, <2>3
<1>3. /\ DueOf(id)' \in Nat
      /\ \A k \in MsgId : k # id => DueOf(k)' = DueOf(k)
  BY <1>1 DEF DueOf
<1>4. Contract!Issue(id)
  BY <1>2, <1>3 DEF Contract!Issue, ReachedBy
<1> QED
  BY <1>4 DEF Contract!Next

\* Deleted rows are withdrawn messages.
LEMMA MappedDelete ==
    ASSUME TypeOK, NEW ids \in SUBSET stored, DeleteMessages(ids),
           UNCHANGED <<delivered, now>>
    PROVE  Contract!Next
<1>1. /\ sent \subseteq stored /\ stored \subseteq DOMAIN jobs
      /\ stored' = stored \ ids /\ sent' = sent \ ids /\ jobs' = jobs
  BY DEF TypeOK, StoreTypeOK, DeleteMessages
<1>2. \A k \in MsgId : StatusOf(k)' = IF k \in ids THEN "gone" ELSE StatusOf(k)
  BY <1>1 DEF StatusOf, Pending
<1>3. \A k \in ids : k \in MsgId /\ StatusOf(k) \in {"pending", "done"}
  BY <1>1, StatusCases, RowTypes DEF TypeOK
<1>4. Contract!Withdraw(ids)
  BY <1>1, <1>2, <1>3 DEF Contract!Withdraw, DueOf, ReachedBy
<1> QED
  BY <1>3, <1>4 DEF Contract!Next

\* The message reaches a JID while process is sending it.
LEMMA MappedSend ==
    ASSUME Inv, LoopPromise, NEW j \in todo, SendOk(j) \/ SendLate(j)
    PROVE  Contract!Next
<1>1. /\ UNCHANGED <<jobs, stored, sent, now>> /\ pc = "send"
      /\ delivered' = [delivered EXCEPT ![<<cur.id, j>>] = Once(@)]
  BY DEF SendOk, SendLate, Received, msgTable, env
<1>2. /\ TypeOK /\ cur.id \in DOMAIN jobs \ sent /\ cur.id \in MsgId
      /\ j \in JID /\ delivered \in [MsgId \X JID -> Count]
      /\ jobs[cur.id].at <= now
  BY <1>1, RowTypes DEF Inv, TypeOK, LoopOK, LoopPromise
<1>3. StatusOf(cur.id) \in {"pending", "gone"} /\ DueOf(cur.id) <= now
  BY <1>2, StatusCases DEF Pending, DueOf
<1>4. \A n \in Count : Once(n) > 0
  BY DEF Count, Once, Many
<1>5. \A k \in MsgId : ReachedBy(k)' =
          IF k = cur.id THEN ReachedBy(k) \cup {j} ELSE ReachedBy(k)
  BY <1>1, <1>2, <1>4 DEF ReachedBy
<1>6. \A k \in MsgId : StatusOf(k)' = StatusOf(k) /\ DueOf(k)' = DueOf(k)
  BY <1>1 DEF StatusOf, DueOf, Pending
<1>7. Contract!Deliver(cur.id, j)
  BY <1>1, <1>2, <1>3, <1>5, <1>6 DEF Contract!Deliver
<1> QED
  BY <1>2, <1>7 DEF Contract!Next

\* A message is marked as sent, unless it was deleted meanwhile.
LEMMA MappedMark ==
    ASSUME Inv, LoopPromise, Mark
    PROVE  Contract!Next \/ UNCHANGED Contract!vars
<1>1. /\ UNCHANGED <<jobs, stored, delivered, now>> /\ pc = "mark"
      /\ sent' = sent \cup ({cur.id} \cap stored)
  BY DEF Mark, MarkAsSent, ghost, env
<1>2. /\ TypeOK /\ cur.id \in DOMAIN jobs \ sent /\ cur.id \in MsgId
      /\ sent \subseteq stored /\ stored \subseteq DOMAIN jobs
  BY <1>1, RowTypes DEF Inv, TypeOK, LoopOK, StoreTypeOK
<1>3. ReachedBy(cur.id) # {}
  <2>1. sentTo # {} /\ sentTo \subseteq JID
    BY <1>1 DEF Inv, TypeOK, LoopPromise
  <2> QED
    BY <2>1 DEF LoopPromise, ReachedBy
<1>4. CASE cur.id \in stored
  <2>1. /\ StatusOf(cur.id) = "pending"
        /\ \A k \in MsgId :
              StatusOf(k)' = IF k = cur.id THEN "done" ELSE StatusOf(k)
    BY <1>1, <1>2, <1>4 DEF StatusOf, Pending
  <2>2. Contract!Finish(cur.id)
    BY <1>1, <1>2, <1>3, <2>1 DEF Contract!Finish, DueOf, ReachedBy
  <2> QED
    BY <1>2, <2>2 DEF Contract!Next
<1>5. CASE cur.id \notin stored
  BY <1>1, <1>5, MappedStutter
<1> QED
  BY <1>4, <1>5

LEMMA MappedStep ==
    ASSUME Inv, LoopPromise, [Next]_vars
    PROVE  [Contract!Next]_(Contract!vars)
<1>a. TypeOK /\ TypeOK' /\ LoopOK /\ StoreTypeOK
  BY InvStep DEF Inv, TypeOK
<1>1. CASE \/ NothingToDo \/ Load \/ EndOfBatch
           \/ \E m \in batch : Take(m) \/ TakeUnresolved(m)
           \/ \E j \in todo : SendFails(j)
           \/ Retry \/ RescheduleFails \/ NoReschedule \/ MarkFails
           \/ GoOnline \/ GoOffline \/ Crash \/ UNCHANGED vars
  BY <1>1, MappedStutter
  DEF NothingToDo, Load, EndOfBatch, Take, TakeUnresolved, SendFails, Retry,
      RescheduleFails, NoReschedule, MarkFails, GoOnline, GoOffline, Crash,
      vars, msgTable, ghost, env
<1>2. CASE \/ \E roster \in Rosters : GroupCreate(roster)
           \/ \E g \in groups : GroupDelete(g)
           \/ ResetGroups \/ ResetFails \/ MediaStep
  BY <1>2, MappedStutter
  DEF GroupCreate, GroupDelete, ResetGroups, ResetFails, MediaStep, others,
      msgTable, ghost, env
<1>3. ASSUME NEW j \in todo, SendOk(j) \/ SendLate(j) PROVE Contract!Next
  BY <1>3, MappedSend
<1>4. CASE Reschedule
  <2>1. UNCHANGED <<delivered, now>>
    BY <1>4 DEF Reschedule, ghost, env
  <2> QED
    BY <1>a, <1>4, <2>1, RescheduleFrame, MappedInsert
<1>5. ASSUME NEW form \in Forms, ScheduleSubmit(form) PROVE Contract!Next
  <2>1. PICK row \in Job : CreateScheduledMessage(row)
    BY <1>a, <1>5, SubmitRow
  <2>2. UNCHANGED <<groupTable, delivered, now>>
    BY <1>5 DEF ScheduleSubmit, others, ghost, env
  <2> QED
    BY <1>a, <2>1, <2>2, CreateFrame, MappedInsert
<1>6. CASE Mark
  BY <1>6, MappedMark
<1>7. ASSUME NEW id \in stored, ScheduleDelete(id) PROVE Contract!Next
  <2>1. DeleteMessages({id}) /\ UNCHANGED <<delivered, now>>
    BY <1>7 DEF ScheduleDelete, others, ghost, env
  <2> QED
    BY <1>a, <2>1, MappedDelete
<1>8. CASE ResetMessages
  <2>1. DeleteMessages(stored) /\ UNCHANGED <<delivered, now>>
    BY <1>8 DEF ResetMessages, others, ghost, env
  <2> QED
    BY <1>a, <2>1, MappedDelete
<1>9. CASE Tick
  <2>1. now' = now + 1 /\ UNCHANGED <<jobs, stored, sent, delivered>>
    BY <1>9 DEF Tick, msgTable, ghost
  <2>2. Contract!Pass
    BY <2>1 DEF Contract!Pass, StatusOf, DueOf, ReachedBy, Pending
  <2> QED
    BY <2>2 DEF Contract!Next
<1> QED
  BY <1>1, <1>2, <1>3, <1>4, <1>5, <1>6, <1>7, <1>8, <1>9
  DEF Next, Scheduling, Handling

\* Whatever the handlers, the faults and the crashes do in between: no message is
\* sent before its time or after it is marked, and none is marked that reached
\* nobody.
THEOREM PromiseKept == Spec => ImplementsDelivery
<1>1. Init => Contract!Init
  BY MappedInit
<1>2. Inv /\ LoopPromise /\ [Next]_vars => [Contract!Next]_(Contract!vars)
  BY MappedStep
<1> QED
  BY <1>1, <1>2, Promised, PTL DEF Spec, ImplementsDelivery, Contract!Spec
=============================================================================
