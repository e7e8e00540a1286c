----------------------------- MODULE DirectSend -----------------------------
(***************************************************************************)
(* web/handlers.go: handleSendImage, which sends a picture of the archive  *)
(* at once and beside the scheduler, and the page of /schedule it is asked *)
(* from.                                                                   *)
(*                                                                         *)
(* The page shows the groups of the moment it was drawn and, from a fetch  *)
(* of its own, the files of a moment after; what its user picks may be     *)
(* gone, or mean something else, when the handler looks it up.  The        *)
(* handler keeps no record of what it sent, and works under the context of *)
(* the request: once the browser leaves, every further send fails.         *)
(***************************************************************************)
EXTENDS MessageStore

CONSTANTS
    MaxClicks,  \* bound: submissions of the form
    MaxOutages  \* bound: lost connections and crashes, together

ASSUME ClicksAssumption == MaxClicks \in Nat /\ MaxOutages \in Nat

VARIABLES
    online,     \* IsConnected() && IsLoggedIn()
    outages,    \* lost connections and crashes so far
    page,       \* the page in the browser: what it offers
    click,      \* the requests sent from it, one per submission
    clicks,     \* submissions so far
    got         \* (ghost) how often a click reached a JID

store    == <<msgTable, groupTable, media>>
requests == <<click, clicks, got>>
vars     == <<store, online, outages, page, requests>>

ClickId == 1..MaxClicks

\* Deliveries are counted as none, one and many.
Many == 2
Count == 0..Many
Once(n) == IF n = Many THEN Many ELSE n + 1

\* The groups of the database with their members, the groups of WhatsApp, and
\* the files the user may pick from.
EmptyPage == [groups |-> [g \in {} |-> {}], jids |-> {}, files |-> {}]

\* A request.  busy holds the JID whose copy of the picture has been read, left
\* tells that the browser is gone, and wanted (a ghost) whom the page meant.
Request == [at : {"asked", "found", "sending", "done"},
            to : JID \cup GroupId, file : FileId, todo : SUBSET JID,
            busy : SUBSET JID, left : BOOLEAN, wanted : SUBSET JID]

DirectTypeOK ==
    /\ StoreTypeOK
    /\ lastFile \in 0..MaxFile
    /\ files \subseteq 1..lastFile /\ disk \subseteq 1..lastFile
    /\ online \in BOOLEAN /\ outages \in 0..MaxOutages
    /\ page.groups \in [DOMAIN page.groups -> SUBSET JID]
    /\ page = [groups |-> page.groups, jids |-> page.jids, files |-> page.files]
    /\ page.jids \subseteq JID /\ page.files \subseteq 1..lastFile
    /\ clicks \in 0..MaxClicks
    /\ click \in [1..clicks -> Request]
    /\ got \in [ClickId \X JID -> Count]

DirectInit ==
    /\ StoreInit /\ MediaInit
    /\ online = FALSE /\ outages = 0
    /\ page = EmptyPage
    /\ click = [r \in {} |-> r] /\ clicks = 0
    /\ got = [d \in ClickId \X JID |-> 0]

-----------------------------------------------------------------------------
(* The page *)

\* GetGroups: the groups the device has joined, an error unless it is connected
\* and logged in, or any other error.
JoinedGroups == IF online THEN {JID, {}} ELSE {{}}

\* GetContactGroups, or an error.
ContactGroups == {[g \in groups |-> members[g]], [g \in {} |-> {}]}

\* handleScheduleForm: an error leaves its part of the page empty.
ScheduleForm ==
    /\ page' \in [groups : ContactGroups, jids : JoinedGroups, files : {{}}]
    /\ UNCHANGED <<store, online, outages, requests>>

GetAllMediaFiles == files

\* The script of the page fetches /api/media-tree, once, and handleMediaTree
\* answers with the rows of media_files.
MediaTree ==
    /\ page.files = {}
    /\ page' = [page EXCEPT !.files = GetAllMediaFiles]
    /\ UNCHANGED <<store, online, outages, requests>>

\* Whom the user means by an option of the page.
Means(to) == IF to \in GroupId THEN page.groups[to] ELSE {to}

\* The form is submitted.  While its request is under way its user may draw the
\* page anew and submit it again, in another tab or after leaving.
Submit(to, file) ==
    /\ clicks < MaxClicks
    /\ clicks' = clicks + 1
    /\ click' = Put(click, clicks + 1,
                    [at |-> "asked", to |-> to, file |-> file, todo |-> {},
                     busy |-> {}, left |-> FALSE, wanted |-> Means(to)])
    /\ UNCHANGED <<store, online, outages, page, got>>

\* The forms beside it.
GroupCreate(roster) ==
    /\ roster # {}
    /\ CreateContactGroup(roster)
    /\ UNCHANGED <<msgTable, media, online, outages, page, requests>>

GroupDelete(g) ==
    /\ DeleteContactGroups({g})
    /\ UNCHANGED <<msgTable, media, online, outages, page, requests>>

\* The group gets another name, under which later pages offer the same members.
GroupRename(g) == UNCHANGED vars

Browsing ==
    \/ ScheduleForm \/ MediaTree
    \/ \E to \in DOMAIN page.groups \cup page.jids, file \in page.files :
          Submit(to, file)
    \/ \E roster \in SUBSET page.jids : GroupCreate(roster)
    \/ \E g \in DOMAIN page.groups : GroupDelete(g) \/ GroupRename(g)

-----------------------------------------------------------------------------
(* handleSendImage, for click r *)

Becomes(r, c) == click' = [click EXCEPT ![r] = c]

Around == <<store, online, outages, page, clicks>>

\* http.Error or the redirect: they look alike whoever got the picture.
Answered(c) == [c EXCEPT !.at = "done", !.todo = {}, !.busy = {}, !.left = FALSE]

GetMediaFile(id) == files \cap {id}

\* The file's row, and 404 if there is no such row.
FindFile(r) ==
    /\ click[r].at = "asked"
    /\ Becomes(r, IF GetMediaFile(click[r].file) # {}
                  THEN [click[r] EXCEPT !.at = "found"] ELSE Answered(click[r]))
    /\ UNCHANGED <<Around, got>>

Resolves(to) == to \in GroupId => to \in groups
Expand(to)   == IF to \in GroupId THEN members[to] ELSE {to}

\* GetContactGroupJIDs, and 400 if there is no such row.
FindTarget(r) ==
    /\ click[r].at = "found"
    /\ Becomes(r, IF Resolves(click[r].to)
                  THEN [click[r] EXCEPT !.at = "sending",
                                        !.todo = Expand(click[r].to)]
                  ELSE Answered(click[r]))
    /\ UNCHANGED <<Around, got>>

\* A query fails: 404, or 400.
QueryFails(r) ==
    /\ click[r].at \in {"asked", "found"}
    /\ Becomes(r, Answered(click[r]))
    /\ UNCHANGED <<Around, got>>

\* SendImage for the next JID: os.ReadFile finds the bytes.
ReadPicture(r, j) ==
    /\ click[r].at = "sending" /\ click[r].busy = {} /\ j \in click[r].todo
    /\ click[r].file \in disk
    /\ Becomes(r, [click[r] EXCEPT !.todo = @ \ {j}, !.busy = {j}])
    /\ UNCHANGED <<Around, got>>

\* It does not: the error is logged, and the loop goes on.
ReadFails(r, j) ==
    /\ click[r].at = "sending" /\ click[r].busy = {} /\ j \in click[r].todo
    /\ Becomes(r, [click[r] EXCEPT !.todo = @ \ {j}])
    /\ UNCHANGED <<Around, got>>

Received(r, j) == got' = [got EXCEPT ![<<r, j>>] = Once(@)]

\* The upload and the message went through.  (The row it adds to message_history
\* is left out: nothing reads that table.)
SendOk(r, j) ==
    /\ j \in click[r].busy /\ online /\ ~click[r].left
    /\ Received(r, j)
    /\ Becomes(r, [click[r] EXCEPT !.busy = {}])
    /\ UNCHANGED Around

\* The loop would try j again.
TryAgain(c, j) == [c EXCEPT !.busy = {}, !.todo = @ \cup {j}]

\* What an error of SendImage leads to: it is logged, and the loop goes on.
GoOn(c, j) == [c EXCEPT !.busy = {}]

\* An error, and the picture did not reach j: not connected, the upload or the
\* server refused, or the browser is gone.
SendFails(r, j) ==
    /\ j \in click[r].busy
    /\ Becomes(r, GoOn(click[r], j))
    /\ UNCHANGED <<Around, got>>

\* An error, although it did: the answer was lost, or the browser left while
\* SendImage waited for it.
SendLate(r, j) ==
    /\ j \in click[r].busy /\ online /\ ~click[r].left
    /\ Received(r, j)
    /\ Becomes(r, GoOn(click[r], j))
    /\ UNCHANGED Around

\* http.Redirect, whatever happened to the sends.
Redirect(r) ==
    /\ click[r].at = "sending" /\ click[r].todo = {} /\ click[r].busy = {}
    /\ Becomes(r, Answered(click[r]))
    /\ UNCHANGED <<Around, got>>

SendImage(r) ==
    \/ FindFile(r) \/ FindTarget(r) \/ QueryFails(r)
    \/ \E j \in click[r].todo : ReadPicture(r, j) \/ ReadFails(r, j)
    \/ \E j \in click[r].busy : SendOk(r, j) \/ SendFails(r, j) \/ SendLate(r, j)
    \/ Redirect(r)

-----------------------------------------------------------------------------
(* The surroundings *)

\* The user does not wait for the answer: r.Context() is cancelled.
Leave(r) ==
    /\ click[r].at # "done" /\ ~click[r].left
    /\ Becomes(r, [click[r] EXCEPT !.left = TRUE])
    /\ UNCHANGED <<Around, got>>

\* All this handler sees of the archive handlers.
MediaStep ==
    /\ MediaNext
    /\ UNCHANGED <<msgTable, groupTable, online, outages, page, requests>>

\* The statement of ResetAll that matters here.  (The media tables and uploads/
\* are left to MediaStep.)
ResetGroups ==
    /\ DeleteContactGroups(groups)
    /\ UNCHANGED <<msgTable, media, online, outages, page, requests>>

GoOnline ==
    /\ ~online /\ online' = TRUE
    /\ UNCHANGED <<store, outages, page, requests>>

GoOffline ==
    /\ online /\ outages < MaxOutages
    /\ online' = FALSE /\ outages' = outages + 1
    /\ UNCHANGED <<store, page, requests>>

\* The process is killed, and started again: requests end without an answer.  The
\* page stays in the browser.
Crash ==
    /\ outages < MaxOutages
    /\ outages' = outages + 1 /\ online' = FALSE
    /\ click' = [r \in 1..clicks |-> Answered(click[r])]
    /\ UNCHANGED <<store, page, clicks, got>>

Surroundings ==
    \/ \E r \in 1..clicks : Leave(r)
    \/ MediaStep \/ ResetGroups
    \/ GoOnline \/ GoOffline \/ Crash

DirectNext == Browsing \/ Surroundings \/ \E r \in 1..clicks : SendImage(r)

\* net/http runs every handler in a goroutine of its own, and each call it makes
\* of the database, the disk or WhatsApp returns, with an error if need be.
DirectFairness ==
    \A r \in ClickId : WF_vars(r <= clicks /\ SendImage(r))

DirectSpec == DirectInit /\ [][DirectNext]_vars /\ DirectFairness

-----------------------------------------------------------------------------
(* Properties *)

\* One submission reaches nobody twice, although an answer may be lost after the
\* picture arrived: no error makes handleSendImage send again.  (Its user cannot
\* tell who got the picture, and a second submission reaches all of them again.)
OncePerClick ==
    \A r \in ClickId, j \in JID : got[<<r, j>>] # Many

\* The picture goes to nobody but whom the page its user looked at meant by the
\* option that was picked, however old that page was, and whatever groups were
\* deleted and created since.
OnlyMeant ==
    \A r \in ClickId, j \in JID :
        got[<<r, j>>] > 0 => j \in click[r].wanted

\* A group keeps its members as long as its id is known, so what a page offers
\* it means for good.
PageOK ==
    /\ DOMAIN page.groups \subseteq DOMAIN members
    /\ \A g \in DOMAIN page.groups : page.groups[g] = members[g]

\* Whoever a click has still to reach it has not reached.
ClickOK(r) ==
    LET c == click[r]
    IN  /\ c.to \in GroupId => c.to \in DOMAIN members
        /\ c.wanted = Expand(c.to)
        /\ c.todo \cup c.busy \subseteq c.wanted /\ c.todo \cap c.busy = {}
        /\ c.at \in {"asked", "found"} =>
              c.busy = {} /\ \A j \in JID : got[<<r, j>>] = 0
        /\ \A j \in c.todo \cup c.busy : got[<<r, j>>] = 0

\* The invariant that DirectNext preserves, from which both properties follow.
DirectInv ==
    /\ DirectTypeOK
    /\ PageOK
    /\ \A r \in 1..clicks : ClickOK(r)
    /\ \A r \in ClickId \ 1..clicks, j \in JID : got[<<r, j>>] = 0
    /\ OncePerClick /\ OnlyMeant

\* Every submission ends, whoever cannot be reached, whether or not WhatsApp is
\* connected, and also when the group or the file is gone: with an answer, or, when
\* the process is killed, without one.
EveryClickEnds ==
    \A r \in ClickId : r <= clicks ~> r <= clicks /\ click[r].at = "done"
=============================================================================
