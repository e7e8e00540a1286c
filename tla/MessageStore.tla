---------------------------- MODULE MessageStore ----------------------------
(***************************************************************************)
(* The two tables of store/db.go that decide what is sent to whom:         *)
(* scheduled_messages and contact_groups.                                  *)
(*                                                                         *)
(* A row is never rewritten: the only UPDATE on scheduled_messages sets    *)
(* the flag sent, and the only one on contact_groups sets the name, which  *)
(* nothing here depends on.  So a table is the function of every row ever  *)
(* inserted (jobs, members), the set of rows still present (stored,        *)
(* groups) and, for messages, the set of rows with sent = TRUE.  The ids   *)
(* are AUTOINCREMENT: sqlite keeps the largest id ever used (lastMsg,      *)
(* lastGroup) even when the rows are deleted.                              *)
(*                                                                         *)
(* Each operator below the variables is one SQL statement; it constrains   *)
(* the variables of the table it writes, and its caller the others.        *)
(***************************************************************************)
EXTENDS Media, FiniteSets

CONSTANTS
    JID,        \* WhatsApp numbers and group addresses a message can go to
    MaxMsg,     \* bound: rows ever inserted into scheduled_messages
    MaxGroup,   \* bound: rows ever inserted into contact_groups
    Period      \* Period[r]: how far rule r moves a message (see Calendar)

MsgId   == 1..MaxMsg
GroupId == 1..MaxGroup
NoFile  == 0

Repeat == {"daily", "weekly", "monthly"}
Rule   == Repeat \cup {"none"}
Kind   == {"text", "image"}

ASSUME BoundAssumption ==
    MaxMsg \in Nat /\ MaxGroup \in Nat /\ MaxFile \in Nat

\* A target is either a JID or the id of a contact group ("cg:ID").
ASSUME TargetAssumption == JID \cap GroupId = {}

ASSUME PeriodAssumption == Period \in [Repeat -> Nat \ {0}]

\* What a submitted form says, and the row it becomes.  The last two columns
\* are not in the database: origin is the first row of the chain a repeating
\* message builds, and wanted the JIDs its target named when it was submitted.
Form == [to : JID \cup GroupId, at : Nat, rule : Rule, kind : Kind,
         file : FileId \cup {NoFile}]
Job  == [to : JID \cup GroupId, at : Nat, rule : Rule, kind : Kind,
         file : FileId \cup {NoFile}, origin : MsgId, wanted : SUBSET JID]

VARIABLES
    jobs,       \* every row ever inserted into scheduled_messages, by id
    stored,     \* the ids whose row is in the table
    sent,       \* those with sent = TRUE
    lastMsg,    \* sqlite_sequence of scheduled_messages
    members,    \* the jids column of every contact group ever created
    groups,     \* the ids whose row is in the table
    lastGroup   \* sqlite_sequence of contact_groups

msgTable   == <<jobs, stored, sent, lastMsg>>
groupTable == <<members, groups, lastGroup>>

StoreTypeOK ==
    /\ lastMsg \in 0..MaxMsg
    /\ jobs \in [1..lastMsg -> Job]
    /\ stored \subseteq 1..lastMsg
    /\ sent \subseteq stored
    /\ lastGroup \in 0..MaxGroup
    /\ members \in [1..lastGroup -> SUBSET JID]
    /\ groups \subseteq 1..lastGroup

StoreInit ==
    /\ jobs = [i \in {} |-> i] /\ stored = {} /\ sent = {} /\ lastMsg = 0
    /\ members = [g \in {} |-> g] /\ groups = {} /\ lastGroup = 0

Put(table, id, row) ==
    [i \in DOMAIN table \cup {id} |-> IF i = id THEN row ELSE table[i]]

-----------------------------------------------------------------------------
(* Row ids *)

\* What INTEGER PRIMARY KEY without AUTOINCREMENT would allocate.
LargestPlusOne(last, present) ==
    1 + CHOOSE m \in present \cup {0} : \A i \in present : i <= m

\* The id AUTOINCREMENT gives the next row: larger than any id ever used.
NextMsgId(last, present) == last + 1

NextGroupId(last, present) == last + 1

-----------------------------------------------------------------------------
(* scheduled_messages *)

\* CreateScheduledMessage inserts a row with sent = FALSE.
CreateScheduledMessage(row) ==
    LET id == NextMsgId(lastMsg, stored)
    IN  /\ lastMsg < MaxMsg
        /\ jobs' = Put(jobs, id, row)
        /\ stored' = stored \cup {id}
        /\ sent' = sent \ {id}
        /\ lastMsg' = id

\* Without the flag in the WHERE clause.
PendingOrSent(before) == {id \in stored : jobs[id].at <= before}

\* The WHERE clause of GetPendingMessages.
PendingMessages(before) == {id \in stored \ sent : jobs[id].at <= before}

\* An INSERT OR REPLACE in the place of the UPDATE.
UpsertSent(id) == sent' = sent \cup {id}

\* MarkAsSent updates no row when the message was deleted meanwhile.
MarkAsSent(id) == sent' = sent \cup ({id} \cap stored)

\* The DELETE of DeleteScheduledMessage ({id}) and of ResetAll (every id).
DeleteMessages(ids) ==
    /\ stored' = stored \ ids
    /\ sent' = sent \ ids
    /\ UNCHANGED <<jobs, lastMsg>>

-----------------------------------------------------------------------------
(* contact_groups *)

CreateContactGroup(jids) ==
    LET id == NextGroupId(lastGroup, groups)
    IN  /\ lastGroup < MaxGroup
        /\ members' = Put(members, id, jids)
        /\ groups' = groups \cup {id}
        /\ lastGroup' = id

\* The DELETE of DeleteContactGroup ({id}) and of ResetAll (every id).
DeleteContactGroups(ids) ==
    /\ groups' = groups \ ids
    /\ UNCHANGED <<members, lastGroup>>
=============================================================================
