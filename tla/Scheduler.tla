------------------------------ MODULE Scheduler ------------------------------
(***************************************************************************)
(* scheduler/scheduler.go over the tables of MessageStore, together with   *)
(* everything that runs beside it in the process: the web handlers that    *)
(* submit and delete messages and groups, the reset handler, the media     *)
(* archive, the WhatsApp connection, and the process being killed.         *)
(*                                                                         *)
(* Run is one goroutine: on a tick it takes a snapshot of the due messages *)
(* and works through it, one message and one JID at a time, for as long as *)
(* that takes.  Between any two of its steps every other actor may step.   *)
(* Only the database survives a crash.                                     *)
(***************************************************************************)
EXTENDS MessageStore

CONSTANTS
    Forms,      \* the schedule forms users may submit
    Rosters,    \* the member lists of the groups users may create
    MaxTime,    \* bound on the clock
    MaxOutages, \* bound: lost connections and crashes, together
    MaxResets   \* bound: resets

ASSUME FormsAssumption ==
    Forms \subseteq Form /\ Rosters \subseteq (SUBSET JID) \ {{}}
ASSUME EnvironmentAssumption ==
    MaxTime \in Nat /\ MaxOutages \in Nat /\ MaxResets \in Nat

VARIABLES
    now,        \* the clock
    online,     \* IsConnected() && IsLoggedIn()
    outages,    \* lost connections and crashes so far
    pc,         \* where process is: "idle", "next", "send", "mark"
    batch,      \* the messages of the snapshot that process has not reached
    cur,        \* msg, the loop variable of process
    jids,       \* what send expanded msg.Phone to
    todo,       \* the JIDs send has not tried yet
    sentTo,     \* the JIDs for which send got no error
    resetPc,    \* the next statement of a running ResetAll
    resets,     \* resets so far
    delivered,  \* (ghost) how often a message reached a JID
    faulty,     \* (ghost) messages whose handling a fault interrupted
    lost        \* (ghost) messages whose next occurrence was not inserted

loop  == <<pc, batch, cur, jids, todo, sentTo>>
ghost == <<delivered, faulty, lost>>
env   == <<now, online, outages>>
reset == <<resetPc, resets>>
vars  == <<msgTable, groupTable, loop, media, ghost, env, reset>>

\* One message of the snapshot.  The other columns are jobs[id]: they never
\* change, but the path comes from a join with media_files.
Snapshot == [id : MsgId, path : FileId \cup {NoFile}]
NoMsg    == [id |-> 0, path |-> NoFile]

\* Deliveries are counted as none, one and many.
Many == 2
Count == 0..Many
Once(n) == IF n = Many THEN Many ELSE n + 1

TypeOK ==
    /\ StoreTypeOK
    /\ now \in 0..MaxTime
    /\ online \in BOOLEAN
    /\ outages \in 0..MaxOutages
    /\ pc \in {"idle", "next", "send", "mark"}
    /\ batch \subseteq Snapshot
    /\ cur \in Snapshot \cup {NoMsg}
    /\ jids \subseteq JID /\ todo \subseteq jids /\ sentTo \subseteq jids \ todo
    /\ resetPc \in {"idle", "groups"} /\ resets \in 0..MaxResets
    /\ lastFile \in 0..MaxFile
    /\ files \subseteq 1..lastFile
    /\ disk \subseteq 1..lastFile
    /\ delivered \in [MsgId \X JID -> Count]
    /\ faulty \subseteq 1..lastMsg
    /\ lost \subseteq 1..lastMsg

Init ==
    /\ StoreInit
    /\ now = 0 /\ online = FALSE /\ outages = 0
    /\ pc = "idle" /\ batch = {} /\ cur = NoMsg
    /\ jids = {} /\ todo = {} /\ sentTo = {}
    /\ resetPc = "idle" /\ resets = 0
    /\ MediaInit
    /\ delivered = [d \in MsgId \X JID |-> 0]
    /\ faulty = {} /\ lost = {}

-----------------------------------------------------------------------------
(* The scheduler goroutine *)

SnapshotOf(id) ==
    [id |-> id,
     path |-> IF jobs[id].file \in files THEN jobs[id].file ELSE NoFile]

\* A tick on which process returns at once: not connected, nothing due, or the
\* query failed.
NothingToDo ==
    /\ pc = "idle"
    /\ UNCHANGED vars

\* A tick on which there is something to do: the guard of process, and
\* GetPendingMessages.
Load ==
    /\ pc = "idle"
    /\ online
    /\ PendingMessages(now) # {}
    /\ batch' = {SnapshotOf(id) : id \in PendingMessages(now)}
    /\ pc' = "next"
    /\ UNCHANGED <<cur, jids, todo, sentTo>>
    /\ UNCHANGED <<msgTable, groupTable, media, ghost, env, reset>>

\* The snapshot is ordered by scheduled_at; equal times come in any order.
Earliest(m) == \A n \in batch : jobs[m.id].at <= jobs[n.id].at

\* The JIDs a target stands for at this moment, and whether there are any to
\* be had: GetContactGroupJIDs finds no row for a deleted group.
Expand(to) == IF to \in GroupId THEN members[to] ELSE {to}
Resolves(to) == to \in GroupId => to \in groups

\* The loop of process ends instead of going on (return for continue).
DropBatch(b) == {}

\* What process goes on with after a message that is to be tried again.
Continue(b) == b

\* The next message of the loop, and the expansion of its target in send.
Take(m) ==
    /\ pc = "next" /\ m \in batch /\ Earliest(m)
    /\ Resolves(jobs[m.id].to)
    /\ pc' = "send"
    /\ batch' = batch \ {m}
    /\ cur' = m
    /\ jids' = Expand(jobs[m.id].to)
    /\ todo' = Expand(jobs[m.id].to)
    /\ sentTo' = {}
    /\ UNCHANGED <<msgTable, groupTable, media, ghost, env, reset>>

\* send returns (0, 1) because the group is gone or the query failed: the
\* message is left as it is for a later tick.
TakeUnresolved(m) ==
    /\ pc = "next" /\ m \in batch /\ Earliest(m)
    /\ jobs[m.id].to \in GroupId
    /\ batch' = Continue(batch \ {m})
    /\ UNCHANGED <<pc, cur, jids, todo, sentTo>>
    /\ UNCHANGED <<msgTable, groupTable, media, ghost, env, reset>>

EndOfBatch ==
    /\ pc = "next" /\ batch = {}
    /\ pc' = "idle"
    /\ UNCHANGED <<batch, cur, jids, todo, sentTo>>
    /\ UNCHANGED <<msgTable, groupTable, media, ghost, env, reset>>

\* os.ReadFile finds the picture.  A text message needs none.
Readable(m) == jobs[m.id].kind = "image" => m.path \in disk

Received(j) ==
    delivered' = [delivered EXCEPT ![<<cur.id, j>>] = Once(@)]

\* The message reaches j and SendMessage or SendImage returns nil.  (The row it
\* adds to message_history is left out: nothing reads that table.)
SendOk(j) ==
    /\ pc = "send" /\ j \in todo /\ online /\ Readable(cur)
    /\ Received(j)
    /\ todo' = todo \ {j}
    /\ sentTo' = sentTo \cup {j}
    /\ UNCHANGED <<pc, batch, cur, jids, faulty, lost>>
    /\ UNCHANGED <<msgTable, groupTable, media, env, reset>>

\* An error, and the message did not reach j: not connected, no such file, the
\* upload or the server refused, or the two minutes are over.
SendFails(j) ==
    /\ pc = "send" /\ j \in todo
    /\ todo' = todo \ {j}
    /\ UNCHANGED <<pc, batch, cur, jids, sentTo>>
    /\ UNCHANGED <<msgTable, groupTable, media, ghost, env, reset>>

\* The two minutes are over before the answer arrives: an error, although
\* the message reached j.
SendLate(j) ==
    /\ pc = "send" /\ j \in todo /\ online /\ Readable(cur)
    /\ Received(j)
    /\ faulty' = faulty \cup {cur.id}
    /\ todo' = todo \ {j}
    /\ UNCHANGED <<pc, batch, cur, jids, sentTo, lost>>
    /\ UNCHANGED <<msgTable, groupTable, media, env, reset>>

\* sent < total: a message one recipient missed is tried again as a whole.
AnyFailed == sentTo # jids

\* No condition at all: a message nobody got is done with.
NeverRetry == FALSE

\* sent == 0 && total > 0
AllFailed == sentTo = {} /\ jids # {}

Retry ==
    /\ pc = "send" /\ todo = {} /\ AllFailed
    /\ pc' = "next"
    /\ batch' = Continue(batch)
    /\ cur' = NoMsg /\ jids' = {}
    /\ UNCHANGED <<todo, sentTo>>
    /\ UNCHANGED <<msgTable, groupTable, media, ghost, env, reset>>

\* A switch of nextSchedule without its last case.
RepeatsButMonthly(rule) == rule \in Repeat \ {"monthly"}

\* RepeatRule is set and nextSchedule knows it.
Repeats(rule) == rule \in Repeat

\* The row process inserts for the next occurrence of job.
NextOccurrence(job) == [job EXCEPT !.at = @ + Period[job.rule]]

Finished == pc = "send" /\ todo = {} /\ ~AllFailed

Reschedule ==
    /\ Finished /\ Repeats(jobs[cur.id].rule)
    /\ CreateScheduledMessage(NextOccurrence(jobs[cur.id]))
    /\ pc' = "mark"
    /\ UNCHANGED <<batch, cur, jids, todo, sentTo>>
    /\ UNCHANGED <<groupTable, media, ghost, env, reset>>

\* The error of CreateScheduledMessage is dropped: process goes on to mark.
RescheduleFails ==
    /\ Finished /\ Repeats(jobs[cur.id].rule)
    /\ lost' = lost \cup {cur.id}
    /\ pc' = "mark"
    /\ UNCHANGED <<batch, cur, jids, todo, sentTo, delivered, faulty>>
    /\ UNCHANGED <<msgTable, groupTable, media, env, reset>>

NoReschedule ==
    /\ Finished /\ ~Repeats(jobs[cur.id].rule)
    /\ pc' = "mark"
    /\ UNCHANGED <<batch, cur, jids, todo, sentTo>>
    /\ UNCHANGED <<msgTable, groupTable, media, ghost, env, reset>>

EndMessage ==
    /\ pc' = "next"
    /\ cur' = NoMsg /\ jids' = {} /\ sentTo' = {}
    /\ UNCHANGED <<batch, todo>>

Mark ==
    /\ pc = "mark"
    /\ MarkAsSent(cur.id)
    /\ EndMessage
    /\ UNCHANGED <<jobs, stored, lastMsg>>
    /\ UNCHANGED <<groupTable, media, ghost, env, reset>>

\* The error of MarkAsSent is logged: the row keeps sent = FALSE.
MarkFails ==
    /\ pc = "mark"
    /\ faulty' = faulty \cup {cur.id}
    /\ EndMessage
    /\ UNCHANGED <<delivered, lost>>
    /\ UNCHANGED <<msgTable, groupTable, media, env, reset>>

Scheduling ==
    \/ NothingToDo \/ Load \/ EndOfBatch
    \/ \E m \in batch : Take(m) \/ TakeUnresolved(m)
    \/ \E j \in todo : SendOk(j) \/ SendFails(j) \/ SendLate(j)
    \/ Retry \/ Reschedule \/ RescheduleFails \/ NoReschedule
    \/ Mark \/ MarkFails

-----------------------------------------------------------------------------
(* The web handlers *)

others == <<loop, ghost, env>>

\* The row a form becomes.
SubmittedRow(form) ==
    [to |-> form.to, at |-> form.at, rule |-> form.rule, kind |-> form.kind,
     file |-> form.file, origin |-> NextMsgId(lastMsg, stored),
     wanted |-> Expand(form.to)]

\* What a page may offer.  It may be stale: a form names any group or file there
\* has ever been, whether or not its row is still there.
Offered(form) ==
    /\ form.to \in GroupId => form.to <= lastGroup
    /\ form.file <= lastFile

\* handleScheduleSubmit
ScheduleSubmit(form) ==
    /\ Offered(form)
    /\ form.kind = "image" => form.file # NoFile
    /\ CreateScheduledMessage(SubmittedRow(form))
    /\ UNCHANGED <<groupTable, media, others, reset>>

ScheduleDelete(id) ==
    /\ DeleteMessages({id})
    /\ UNCHANGED <<groupTable, media, others, reset>>

\* handleGroupCreate refuses a group without members.
GroupCreate(roster) ==
    /\ CreateContactGroup(roster)
    /\ UNCHANGED <<msgTable, media, others, reset>>

GroupDelete(g) ==
    /\ DeleteContactGroups({g})
    /\ UNCHANGED <<msgTable, media, others, reset>>

\* handleReset runs ResetAll: one DELETE after the other, each its own
\* transaction.  (The media tables and uploads/ are left to MediaStep.)
ResetMessages ==
    /\ resetPc = "idle" /\ resets < MaxResets
    /\ resetPc' = "groups" /\ resets' = resets + 1
    /\ DeleteMessages(stored)
    /\ UNCHANGED <<groupTable, media, others>>

ResetGroups ==
    /\ resetPc = "groups"
    /\ resetPc' = "idle"
    /\ DeleteContactGroups(groups)
    /\ UNCHANGED <<msgTable, media, others, resets>>

\* A statement fails, and Exec returns without running the others.
ResetFails ==
    /\ resetPc # "idle"
    /\ resetPc' = "idle"
    /\ UNCHANGED <<msgTable, groupTable, media, others, resets>>

\* All the scheduler sees of the archive handlers.
MediaStep ==
    /\ MediaNext
    /\ UNCHANGED <<msgTable, groupTable, others, reset>>

Handling ==
    \/ \E form \in Forms : ScheduleSubmit(form)
    \/ \E id \in stored : ScheduleDelete(id)
    \/ \E roster \in Rosters : GroupCreate(roster)
    \/ \E g \in groups : GroupDelete(g)
    \/ ResetMessages \/ ResetGroups \/ ResetFails
    \/ MediaStep

-----------------------------------------------------------------------------
(* The surroundings *)

Tick ==
    /\ now < MaxTime
    /\ now' = now + 1
    /\ UNCHANGED <<online, outages, msgTable, groupTable, loop, media, ghost>>
    /\ UNCHANGED reset

\* whatsmeow connects, and reconnects by itself after a drop.
GoOnline ==
    /\ ~online
    /\ online' = TRUE
    /\ UNCHANGED <<now, outages, msgTable, groupTable, loop, media, ghost>>
    /\ UNCHANGED reset

GoOffline ==
    /\ online /\ outages < MaxOutages
    /\ online' = FALSE
    /\ outages' = outages + 1
    /\ UNCHANGED <<now, msgTable, groupTable, loop, media, ghost>>
    /\ UNCHANGED reset

\* The process is killed, or main returns on a signal without waiting for the
\* goroutines; it is started again.
Crash ==
    /\ outages < MaxOutages
    /\ outages' = outages + 1
    /\ online' = FALSE
    /\ pc' = "idle" /\ batch' = {} /\ cur' = NoMsg
    /\ jids' = {} /\ todo' = {} /\ sentTo' = {}
    /\ resetPc' = "idle"
    /\ faulty' = IF sentTo # {} THEN faulty \cup {cur.id} ELSE faulty
    /\ UNCHANGED <<now, msgTable, groupTable, media, delivered, lost>>
    /\ UNCHANGED resets

Next == Scheduling \/ Handling \/ Tick \/ GoOnline \/ GoOffline \/ Crash

Spec == Init /\ [][Next]_vars

\* The goroutine keeps running and the ticker keeps ticking; whatsmeow keeps
\* reconnecting.  No database or network error is permanent: a query, a send
\* to some recipient or an update tried again and again succeeds in the end.
\* Nothing is assumed of users, and outages are finitely many by their bound.
Fairness ==
    /\ WF_vars(Tick) /\ WF_vars(GoOnline) /\ WF_vars(Scheduling)
    /\ \A id \in MsgId :
        /\ SF_vars(\E m \in batch : m.id = id /\ Take(m))
        /\ SF_vars(cur.id = id /\ \E j \in todo : SendOk(j))
        /\ SF_vars(cur.id = id /\ Mark)

FairSpec == Spec /\ Fairness

-----------------------------------------------------------------------------
(* Properties *)

Pending == stored \ sent

\* Unless a fault hit the handling of a message (an answer that came too late,
\* a failed update, a crash after a send), no recipient gets it twice: it is
\* tried again only when nobody got it (process, "sent == 0 && total > 0").
NoDuplicate ==
    \A id \in MsgId \ faulty, j \in JID : delivered[<<id, j>>] # Many

\* A message goes only to those its target named when it was submitted, however
\* late it goes out, however often it repeats, and whatever groups were deleted
\* and created meanwhile (send reads the group by id only when it sends).
OnlyIntended ==
    \A id \in DOMAIN jobs, j \in JID :
        delivered[<<id, j>>] > 0 => j \in jobs[id].wanted

ChainFaulty(id) == \E f \in faulty : jobs[f].origin = jobs[id].origin

\* A repeating message never forks: as long as no fault hit a message of the
\* chain, it has one pending row, and two only between the insertion of the
\* next row and the marking of the last one.
OnePendingPerChain ==
    \A a, b \in Pending :
        /\ a # b
        /\ jobs[a].origin = jobs[b].origin
        /\ ~ChainFaulty(a)
        => pc = "mark" /\ cur.id \in {a, b}

Followed(id) ==
    \E k \in DOMAIN jobs :
        /\ jobs[k].origin = jobs[id].origin
        /\ jobs[k].at = jobs[id].at + Period[jobs[id].rule]

\* A repeating message that is marked as sent has a successor, unless inserting
\* it failed: no crash between the two statements of process breaks a chain.
SuccessorExists ==
    \A id \in sent \ lost : jobs[id].rule \in Repeat => Followed(id)

\* What the question before a deletion says ("Bu planlamayı silmek ..."): a plan
\* whose every row was deleted gets no further row.
DeletedPlanEnds ==
    [][\A id \in DOMAIN jobs' \ DOMAIN jobs :
          \/ jobs'[id].origin = id
          \/ \E k \in stored : jobs[k].origin = jobs'[id].origin]_vars

\* The messages the running scheduler still holds from its snapshot.
Held == {m.id : m \in batch} \cup {cur.id}

\* Those whose row is gone and that the scheduler does not hold.
Gone == DOMAIN jobs \ (stored \cup Held)

\* Deleting a message that is not in the snapshot of a running tick is final:
\* it never goes out again and its id never becomes another message's.
DeletedIsFinal ==
    [][\A id \in Gone :
          /\ id \in Gone'
          /\ jobs'[id] = jobs[id]
          /\ \A j \in JID : delivered'[<<id, j>>] = delivered[<<id, j>>]]_vars

\* What Delivery sees of a message: where it stands, when it is due, and whom it
\* has reached.
StatusOf(id) ==
    CASE id \notin DOMAIN jobs -> "none"
      [] id \in Pending -> "pending"
      [] id \in sent -> "done"
      [] OTHER -> "gone"
DueOf(id) == IF id \in DOMAIN jobs THEN jobs[id].at ELSE 0
ReachedBy(id) == {j \in JID : delivered[<<id, j>>] > 0}

\* The scheduler implements the promise of Delivery: no message goes out early
\* or again after it is marked, and it is marked only if somebody got it.
Contract == INSTANCE Delivery WITH
    Msg <- MsgId,
    Recipient <- JID,
    status <- [id \in MsgId |-> StatusOf(id)],
    due <- [id \in MsgId |-> DueOf(id)],
    reached <- [id \in MsgId |-> ReachedBy(id)],
    clock <- now

ImplementsDelivery == Contract!Spec

\* No later tick can send it: its group or its picture is gone for good.
Unsendable(id) ==
    \/ ~Resolves(jobs[id].to)
    \/ jobs[id].kind = "image" /\ jobs[id].file \notin files \cap disk

\* Every message that can be sent is sent (or deleted) in the end: no message
\* that fails on every tick keeps the ones behind it waiting.
Settles ==
    \A id \in MsgId :
        id \in Pending /\ jobs[id].at <= MaxTime
            ~> id \notin Pending \/ Unsendable(id)

-----------------------------------------------------------------------------
(* The inductive invariant behind the safety properties *)

\* What holds of the loop of process between its steps: the snapshot has one
\* entry per row, none of them marked as sent or being handled.
LoopOK ==
    /\ pc \in {"idle", "next"} => cur = NoMsg /\ todo = {} /\ sentTo = {}
    /\ pc = "idle" => batch = {}
    /\ pc \in {"send", "mark"} => cur.id \in DOMAIN jobs \ sent
    /\ pc = "mark" => todo = {}
    /\ \A m \in batch : m.id \in DOMAIN jobs \ (sent \cup {cur.id})
    /\ \A m, n \in batch : m.id = n.id => m = n

\* Messages nobody may have got yet.
Unsent == (Pending \cup {m.id : m \in batch} \cup (MsgId \ DOMAIN jobs))
              \ {cur.id}

\* A message that can still be taken has reached nobody; the one being sent has
\* reached those in sentTo, once.
SendOnce ==
    \A id \in MsgId \ faulty, j \in JID :
        /\ id \in Unsent => delivered[<<id, j>>] = 0
        /\ id = cur.id =>
              delivered[<<id, j>>] = IF j \in sentTo THEN 1 ELSE 0

\* A group keeps its members as long as its id is known, so what a message
\* expands to is what it named when it was submitted.
AudienceOK ==
    /\ \A id \in DOMAIN jobs :
          /\ jobs[id].to \in GroupId => jobs[id].to \in DOMAIN members
          /\ jobs[id].wanted = Expand(jobs[id].to)
    /\ cur.id \in DOMAIN jobs => jids \subseteq jobs[cur.id].wanted

\* The next occurrence is inserted before the message is marked.
NextPlanned ==
    /\ pc = "mark"
    /\ cur.id \notin lost
    /\ jobs[cur.id].rule \in Repeat
    => Followed(cur.id)

\* The invariant that Next preserves, from which the properties follow.
Inv ==
    /\ TypeOK
    /\ LoopOK
    /\ SendOnce /\ NoDuplicate
    /\ AudienceOK /\ OnlyIntended
    /\ NextPlanned /\ SuccessorExists
=============================================================================
