-------------------------- MODULE DirectSendProofs --------------------------
(* Proofs about DirectSend. *)
EXTENDS DirectSend, TLAPS

LEMMA DirectStarts == DirectInit => DirectInv
<1> SUFFICES ASSUME DirectInit PROVE DirectInv
  OBVIOUS
<1>1. StoreTypeOK
  <2>1. jobs = [i \in {} |-> i] /\ members = [g \in {} |-> g] /\ 1..0 = {}
    BY DEF DirectInit, StoreInit
  <2>2. jobs \in [1..0 -> Job] /\ members \in [1..0 -> SUBSET JID]
    BY <2>1
  <2> QED
    BY <2>2, BoundAssumption DEF DirectInit, StoreInit, StoreTypeOK
<1>2. click \in [1..clicks -> Request] /\ 1..clicks = {} /\ clicks \in 0..MaxClicks
  BY ClicksAssumption DEF DirectInit
<1>3. got \in [ClickId \X JID -> Count]
  BY DEF DirectInit, Count, Many
<1>4. /\ page.groups \in [DOMAIN page.groups -> SUBSET JID]
      /\ page = [groups |-> page.groups, jids |-> page.jids, files |-> page.files]
      /\ page.jids = {} /\ page.files = {} /\ DOMAIN page.groups = {}
  BY DEF DirectInit, EmptyPage
<1>5. /\ lastFile \in 0..MaxFile /\ files = {} /\ disk = {}
      /\ outages \in 0..MaxOutages
  BY BoundAssumption, ClicksAssumption DEF DirectInit, MediaInit
<1>8. online \in BOOLEAN
  BY DEF DirectInit
<1>6. DirectTypeOK
  BY <1>1, <1>2, <1>3, <1>4, <1>5, <1>8 DEF DirectTypeOK
<1>7. \A r \in ClickId, j \in JID : got[<<r, j>>] = 0
  BY DEF DirectInit
<1> QED
  BY <1>2, <1>4, <1>6, <1>7
  DEF DirectInv, PageOK, OncePerClick, OnlyMeant, Many

-----------------------------------------------------------------------------
(* The handler *)

\* A step of the handler for click r that makes it c and reaches at most one JID
\* it has still to reach.
LEMMA HandlerStep ==
    ASSUME DirectInv, NEW r \in 1..clicks, NEW c \in Request,
           Becomes(r, c), UNCHANGED Around,
           c.to = click[r].to, c.wanted = click[r].wanted,
           c.todo \cup c.busy \subseteq c.wanted, c.todo \cap c.busy = {},
           c.at \in {"asked", "found"} =>
               click[r].at \in {"asked", "found"} /\ c.busy = {},
           \/ /\ UNCHANGED got
              /\ \A j \in c.todo \cup c.busy : got[<<r, j>>] = 0
           \/ \E j \in click[r].busy :
                 /\ Received(r, j) /\ c.at \notin {"asked", "found"}
                 /\ c.todo \cup c.busy \subseteq
                       (click[r].todo \cup click[r].busy) \ {j}
    PROVE  DirectInv'
<1> USE DEF DirectInv, DirectTypeOK
<1>1. /\ UNCHANGED <<jobs, stored, sent, lastMsg, members, groups, lastGroup>>
      /\ UNCHANGED <<files, disk, lastFile, online, outages, page, clicks>>
  BY DEF Around, store, msgTable, groupTable, media
<1>2. r \in ClickId /\ click[r] \in Request /\ ClickOK(r)
  BY ClicksAssumption DEF ClickId
<1>3. /\ click' \in [1..clicks -> Request] /\ click'[r] = c
      /\ \A q \in 1..clicks : q # r => click'[q] = click[q]
  BY DEF Becomes
<1>4. /\ got' \in [ClickId \X JID -> Count]
      /\ \A q \in ClickId, j \in JID : q # r => got'[<<q, j>>] = got[<<q, j>>]
      /\ \A j \in c.todo \cup c.busy : got'[<<r, j>>] = 0
      /\ \A j \in JID : got'[<<r, j>>] # Many
      /\ \A j \in JID : got'[<<r, j>>] > 0 => j \in c.wanted
      /\ c.at \in {"asked", "found"} => \A j \in JID : got'[<<r, j>>] = 0
  <2>1. c.todo \cup c.busy \subseteq JID /\ c.wanted \subseteq JID
    BY DEF Request
  <2>2. /\ \A j \in JID : got[<<r, j>>] # Many
        /\ \A j \in JID : got[<<r, j>>] > 0 => j \in click[r].wanted
    BY <1>2 DEF OncePerClick, OnlyMeant
  <2>3. click[r].at \in {"asked", "found"} => \A j \in JID : got[<<r, j>>] = 0
    BY <1>2 DEF ClickOK
  <2>4. CASE UNCHANGED got /\ \A j \in c.todo \cup c.busy : got[<<r, j>>] = 0
    BY <2>2, <2>3, <2>4
  <2>5. ASSUME NEW k \in click[r].busy, Received(r, k), c.at \notin {"asked", "found"},
               c.todo \cup c.busy \subseteq
                  (click[r].todo \cup click[r].busy) \ {k}
        PROVE <1>4!1 /\ <1>4!2 /\ <1>4!3 /\ <1>4!4 /\ <1>4!5 /\ <1>4!6
    <3>1. k \in JID /\ k \in click[r].wanted /\ got[<<r, k>>] = 0
      BY <1>2 DEF ClickOK, Request
    <3>2. got' = [got EXCEPT ![<<r, k>>] = 1]
      BY <1>2, <2>5, <3>1 DEF Received, Once, Many
    <3>3. \A q \in ClickId, j \in JID :
             got'[<<q, j>>] = IF q = r /\ j = k THEN 1 ELSE got[<<q, j>>]
      BY <1>2, <3>1, <3>2
    <3>4. \A j \in c.todo \cup c.busy : got[<<r, j>>] = 0 /\ j # k /\ j \in JID
      BY <1>2, <2>1, <2>5 DEF ClickOK
    <3>5. got' \in [ClickId \X JID -> Count]
      <4>1. 1 \in Count
        BY DEF Count, Many
      <4>2. got \in [ClickId \X JID -> Count]
        OBVIOUS
      <4> QED
        BY ONLY <3>2, <4>1, <4>2
    <3>6. \A j \in JID : got'[<<r, j>>] # Many
      BY <1>2, <2>2, <3>3 DEF Many
    <3>7. \A j \in JID : got'[<<r, j>>] > 0 => j \in c.wanted
      BY <1>2, <2>2, <3>1, <3>3
    <3>8. \A q \in ClickId, j \in JID : q # r => got'[<<q, j>>] = got[<<q, j>>]
      BY <3>3
    <3>9. \A j \in c.todo \cup c.busy : got'[<<r, j>>] = 0
      BY <1>2, <3>3, <3>4
    <3> QED
      BY ONLY <2>5, <3>5, <3>6, <3>7, <3>8, <3>9
  <2> QED
    BY <2>4, <2>5
<1>5. DirectTypeOK'
  BY <1>1, <1>3, <1>4 DEF StoreTypeOK
<1>6. \A q \in 1..clicks : ClickOK(q)'
  <2> TAKE q \in 1..clicks
  <2>1. ClickOK(q) /\ q \in ClickId /\ click[q] \in Request
    BY ClicksAssumption DEF ClickId
  <2>2. CASE q = r
    <3>1. c.to = click[r].to /\ c.wanted = Expand(c.to)
      BY <1>2 DEF ClickOK
    <3> QED
      BY <1>1, <1>2, <1>3, <1>4, <2>2, <3>1 DEF ClickOK, Expand
  <2>3. CASE q # r
    <3>1. /\ \A j \in JID : got'[<<q, j>>] = got[<<q, j>>]
          /\ click'[q] = click[q]
          /\ click[q].todo \cup click[q].busy \subseteq JID
      BY <1>3, <1>4, <2>1, <2>3 DEF Request
    <3> QED
      BY <1>1, <2>1, <3>1 DEF ClickOK, Expand
  <2> QED
    BY <2>2, <2>3
<1>7. PageOK'
  BY <1>1 DEF PageOK
<1>8. \A q \in ClickId \ 1..clicks, j \in JID : got'[<<q, j>>] = 0
  <2>1. \A q \in ClickId \ 1..clicks : q # r
    OBVIOUS
  <2>2. \A q \in ClickId \ 1..clicks, j \in JID : got[<<q, j>>] = 0
    OBVIOUS
  <2> QED
    BY ONLY <1>4, <2>1, <2>2
<1>9. (OncePerClick /\ OnlyMeant)'
  <2> SUFFICES ASSUME NEW q \in ClickId, NEW j \in JID
               PROVE  /\ got'[<<q, j>>] # Many
                      /\ got'[<<q, j>>] > 0 => j \in click'[q].wanted
    BY DEF OncePerClick, OnlyMeant
  <2>1. CASE q = r
    BY <1>3, <1>4, <2>1
  <2>2. CASE q # r /\ q \in 1..clicks
    BY <1>3, <1>4, <2>2 DEF OncePerClick, OnlyMeant
  <2>3. CASE q \notin 1..clicks
    BY <1>8, <2>3 DEF Many
  <2> QED
    BY <2>1, <2>2, <2>3
<1> QED
  BY <1>1, <1>5, <1>6, <1>7, <1>8, <1>9

\* What SendImage does for a click is such a step.
LEMMA LookUpStep ==
    ASSUME DirectInv, NEW r \in 1..clicks,
           FindFile(r) \/ FindTarget(r) \/ QueryFails(r) \/ Redirect(r)
    PROVE  DirectInv'
<1> DEFINE old == click[r]
<1>1. old \in Request /\ ClickOK(r) /\ UNCHANGED Around /\ UNCHANGED got
  BY DEF DirectInv, DirectTypeOK, FindFile, FindTarget, QueryFails, Redirect
<1>2. ASSUME Becomes(r, Answered(old)) PROVE DirectInv'
  <2>1. /\ Answered(old) \in Request
        /\ Answered(old).at = "done"
        /\ Answered(old).todo = {} /\ Answered(old).busy = {}
        /\ Answered(old).to = old.to /\ Answered(old).wanted = old.wanted
    BY <1>1 DEF Answered, Request
  <2> QED
    BY <1>1, <1>2, <2>1, HandlerStep
<1>3. ASSUME old.at = "asked", Becomes(r, [old EXCEPT !.at = "found"])
      PROVE  DirectInv'
  <2> DEFINE c == [old EXCEPT !.at = "found"]
  <2>1. /\ c \in Request /\ c.at = "found"
        /\ c.todo = old.todo /\ c.busy = old.busy
        /\ c.to = old.to /\ c.wanted = old.wanted
    BY <1>1 DEF Request
  <2>2. /\ old.todo \cup old.busy \subseteq old.wanted /\ old.busy = {}
        /\ \A j \in old.todo \cup old.busy : got[<<r, j>>] = 0
    BY <1>1, <1>3 DEF ClickOK
  <2> HIDE DEF c, old
  <2> QED
    BY <1>1, <1>3, <2>1, <2>2, HandlerStep DEF c, old
<1>4. ASSUME old.at = "found", Resolves(old.to),
             Becomes(r, [old EXCEPT !.at = "sending", !.todo = Expand(old.to)])
      PROVE  DirectInv'
  <2> DEFINE c == [old EXCEPT !.at = "sending", !.todo = Expand(old.to)]
  <2>1. /\ old.wanted = Expand(old.to) /\ old.busy = {}
        /\ \A j \in JID : got[<<r, j>>] = 0
    BY <1>1, <1>4 DEF ClickOK
  <2>2. old.wanted \subseteq JID
    BY <1>1 DEF Request
  <2>3. /\ c \in Request /\ c.at = "sending"
        /\ c.todo = old.wanted /\ c.busy = {}
        /\ c.to = old.to /\ c.wanted = old.wanted
    BY <1>1, <2>1, <2>2 DEF Request
  <2> HIDE DEF c, old
  <2> QED
    BY <1>1, <1>4, <2>1, <2>2, <2>3, HandlerStep DEF c, old
<1> QED
  BY <1>2, <1>3, <1>4 DEF FindFile, FindTarget, QueryFails, Redirect

LEMMA ReadStep ==
    ASSUME DirectInv, NEW r \in 1..clicks, NEW j,
           ReadPicture(r, j) \/ ReadFails(r, j)
    PROVE  DirectInv'
<1> DEFINE old == click[r]
<1>1. old \in Request /\ ClickOK(r) /\ UNCHANGED Around /\ UNCHANGED got
  BY DEF DirectInv, DirectTypeOK, ReadPicture, ReadFails
<1>2. old.at = "sending" /\ old.busy = {} /\ j \in old.todo /\ j \in JID
  BY <1>1 DEF ReadPicture, ReadFails, Request
<1>3. PICK c \in {[old EXCEPT !.todo = @ \ {j}, !.busy = {j}],
                  [old EXCEPT !.todo = @ \ {j}]} : Becomes(r, c)
  BY DEF ReadPicture, ReadFails
<1>4. /\ c \in Request /\ c.at = "sending" /\ c.todo = old.todo \ {j}
      /\ c.busy \in {{}, {j}} /\ c.to = old.to /\ c.wanted = old.wanted
  <2>1. CASE c = [old EXCEPT !.todo = @ \ {j}, !.busy = {j}]
    BY <1>1, <1>2, <2>1 DEF Request
  <2>2. CASE c = [old EXCEPT !.todo = @ \ {j}]
    BY <1>1, <1>2, <2>2 DEF Request
  <2> QED
    BY <1>3, <2>1, <2>2
<1>5. /\ old.todo \cup old.busy \subseteq old.wanted
      /\ \A k \in old.todo \cup old.busy : got[<<r, k>>] = 0
  BY <1>1 DEF ClickOK
<1>6. /\ c.todo \cup c.busy \subseteq old.todo
      /\ c.todo \cap c.busy = {}
  BY <1>2, <1>4
<1> HIDE DEF old
<1> QED
  BY <1>1, <1>3, <1>4, <1>5, <1>6, HandlerStep DEF old

LEMMA SendStep ==
    ASSUME DirectInv, NEW r \in 1..clicks, NEW j \in click[r].busy,
           SendOk(r, j) \/ SendFails(r, j) \/ SendLate(r, j)
    PROVE  DirectInv'
<1> DEFINE old == click[r]
           c   == [old EXCEPT !.busy = {}]
<1>1. old \in Request /\ ClickOK(r) /\ UNCHANGED Around /\ Becomes(r, c)
  BY DEF DirectInv, DirectTypeOK, SendOk, SendFails, SendLate, GoOn, Around
<1>2. UNCHANGED got \/ Received(r, j)
  BY DEF SendOk, SendFails, SendLate
<1>3. /\ c \in Request /\ c.at = old.at /\ c.todo = old.todo /\ c.busy = {}
      /\ c.to = old.to /\ c.wanted = old.wanted
  BY <1>1 DEF Request
<1>4. /\ old.todo \cup old.busy \subseteq old.wanted /\ old.todo \cap old.busy = {}
      /\ \A k \in old.todo \cup old.busy : got[<<r, k>>] = 0
      /\ old.at \notin {"asked", "found"}
  BY <1>1 DEF ClickOK
<1>5. c.at \notin {"asked", "found"} /\ c.todo \cup c.busy \subseteq
         (old.todo \cup old.busy) \ {j}
  BY <1>3, <1>4
<1>6. \A k \in c.todo \cup c.busy : got[<<r, k>>] = 0
  BY <1>3, <1>4
<1>7. c.todo \cup c.busy \subseteq c.wanted /\ c.todo \cap c.busy = {}
  BY <1>3, <1>4
<1> HIDE DEF c, old
<1> QED
  BY <1>1, <1>2, <1>3, <1>5, <1>6, <1>7, HandlerStep DEF old

-----------------------------------------------------------------------------
(* The page and the surroundings *)

\* A step that writes no request keeps the invariant if no group gets others.
LEMMA FrameStep ==
    ASSUME DirectInv, UNCHANGED requests, DirectTypeOK', PageOK',
           DOMAIN members \subseteq DOMAIN members',
           \A g \in DOMAIN members : members'[g] = members[g]
    PROVE  DirectInv'
<1>1. UNCHANGED <<click, clicks, got>>
  BY DEF requests
<1>2. \A r \in 1..clicks : ClickOK(r)'
  <2> TAKE r \in 1..clicks
  <2>1. ClickOK(r)
    BY DEF DirectInv
  <2>2. Expand(click[r].to)' = Expand(click[r].to)
    BY <1>1, <2>1 DEF ClickOK, Expand
  <2> QED
    BY <1>1, <2>1, <2>2 DEF ClickOK
<1> QED
  BY <1>1, <1>2 DEF DirectInv, OncePerClick, OnlyMeant

LEMMA SameTables ==
    ASSUME StoreTypeOK, UNCHANGED <<msgTable, groupTable>>
    PROVE  StoreTypeOK' /\ UNCHANGED <<members, groups>>
BY DEF StoreTypeOK, msgTable, groupTable

LEMMA NothingStep == ASSUME DirectInv, UNCHANGED vars PROVE DirectInv'
<1>1. UNCHANGED requests /\ UNCHANGED <<members, page>>
  BY DEF vars, store, groupTable
<1>2. DirectTypeOK' /\ PageOK'
  BY <1>1, SameTables DEF DirectInv, DirectTypeOK, PageOK,
     vars, store, media, requests
<1> QED
  BY <1>1, <1>2, FrameStep

LEMMA FormStep ==
    ASSUME DirectInv, ScheduleForm \/ MediaTree
    PROVE  DirectInv'
<1> USE DEF DirectInv, DirectTypeOK
<1>1. UNCHANGED <<files, disk, lastFile, online, outages, click, clicks, got>>
  BY DEF ScheduleForm, MediaTree, store, media, requests
<1>2. StoreTypeOK' /\ UNCHANGED <<members, groups>>
  BY SameTables DEF ScheduleForm, MediaTree, store
<1>3. /\ page'.groups \in [DOMAIN page'.groups -> SUBSET JID]
      /\ page' = [groups |-> page'.groups, jids |-> page'.jids,
                  files |-> page'.files]
      /\ page'.jids \subseteq JID /\ page'.files \subseteq 1..lastFile
      /\ PageOK'
  <2>1. CASE ScheduleForm
    <3>1. PICK G \in ContactGroups, J \in JoinedGroups :
             page' = [groups |-> G, jids |-> J, files |-> {}]
      BY <2>1 DEF ScheduleForm
    <3>2. J \subseteq JID
      BY DEF JoinedGroups
    <3>3. /\ G \in [DOMAIN G -> SUBSET JID] /\ DOMAIN G \subseteq DOMAIN members
          /\ \A g \in DOMAIN G : G[g] = members[g]
      BY DEF ContactGroups, StoreTypeOK
    <3> QED
      BY <1>2, <3>1, <3>2, <3>3 DEF PageOK
  <2>2. CASE MediaTree
    <3>1. page' = [groups |-> page.groups, jids |-> page.jids, files |-> files]
      BY <2>2 DEF MediaTree, GetAllMediaFiles
    <3> QED
      BY <1>2, <3>1 DEF PageOK
  <2> QED
    BY <2>1, <2>2
<1>4. DirectTypeOK'
  BY <1>1, <1>2, <1>3
<1> QED
  BY <1>1, <1>2, <1>3, <1>4, FrameStep DEF requests

\* Whom the page means now is whom the handler will find, if anybody.
LEMMA SubmitStep ==
    ASSUME DirectInv, NEW to \in DOMAIN page.groups \cup page.jids,
           NEW file \in page.files, Submit(to, file)
    PROVE  DirectInv'
<1> USE DEF DirectInv, DirectTypeOK
<1> DEFINE n == clicks + 1
           c == [at |-> "asked", to |-> to, file |-> file, todo |-> {},
                 busy |-> {}, left |-> FALSE, wanted |-> Means(to)]
<1>1. /\ clicks \in Nat /\ n \in 1..MaxClicks /\ clicks' = n
      /\ 1..n = (1..clicks) \cup {n} /\ n \notin 1..clicks
      /\ n \in ClickId /\ 1..clicks \subseteq ClickId
  BY ClicksAssumption DEF Submit, ClickId
<1>2. /\ UNCHANGED <<files, disk, lastFile, online, outages, page, got>>
      /\ StoreTypeOK' /\ UNCHANGED <<members, groups>>
  BY SameTables DEF Submit, store, media
<1>3. /\ to \in JID \cup GroupId /\ (to \in GroupId => to \in DOMAIN members)
      /\ Means(to) = Expand(to) /\ Means(to) \subseteq JID
  <2>1. DOMAIN members = 1..lastGroup /\ 1..lastGroup \subseteq GroupId
    BY BoundAssumption DEF StoreTypeOK, GroupId
  <2>2. CASE to \in DOMAIN page.groups
    BY <2>1, <2>2 DEF PageOK, Means, Expand
  <2>3. CASE to \in page.jids
    BY <2>3, TargetAssumption DEF Means, Expand
  <2> QED
    BY <2>2, <2>3
<1>4. file \in FileId
  BY BoundAssumption DEF FileId
<1>5. c \in Request
  BY <1>3, <1>4 DEF Request
<1>6. /\ click' \in [1..n -> Request] /\ click'[n] = c
      /\ \A r \in 1..clicks : click'[r] = click[r]
  BY <1>1, <1>5 DEF Submit, Put
<1>7. DirectTypeOK'
  BY <1>1, <1>2, <1>6
<1>8. ASSUME NEW r \in ClickId, r = n PROVE ClickOK(r)'
  <2>1. /\ c.to = to /\ c.wanted = Expand(to) /\ c.at = "asked"
        /\ c.todo = {} /\ c.busy = {}
    BY <1>3
  <2>2. \A j \in JID : got'[<<r, j>>] = 0
    BY <1>1, <1>2, <1>8
  <2>3. /\ click'[r].to \in GroupId => click'[r].to \in DOMAIN members
        /\ click'[r].wanted = Expand(click'[r].to)
        /\ click'[r].todo = {} /\ click'[r].busy = {}
    BY <1>3, <1>6, <1>8, <2>1
  <2> QED
    BY <1>2, <2>2, <2>3 DEF ClickOK, Expand
<1>9. \A r \in 1..clicks : ClickOK(r)'
  <2> TAKE r \in 1..clicks
  <2>1. ClickOK(r) /\ click'[r] = click[r]
    BY <1>6
  <2> QED
    BY <1>2, <2>1 DEF ClickOK, Expand
<1>10. (OncePerClick /\ OnlyMeant)'
  <2> SUFFICES ASSUME NEW r \in ClickId, NEW j \in JID
               PROVE  /\ got[<<r, j>>] # Many
                      /\ got[<<r, j>>] > 0 => j \in click'[r].wanted
    BY <1>2 DEF OncePerClick, OnlyMeant
  <2>1. got[<<r, j>>] # Many /\ (got[<<r, j>>] > 0 => j \in click[r].wanted)
    BY DEF OncePerClick, OnlyMeant
  <2>2. r \notin 1..clicks => got[<<r, j>>] = 0
    OBVIOUS
  <2> QED
    BY <1>6, <2>1, <2>2
<1>11. \A r \in 1..clicks' : ClickOK(r)'
  BY <1>1, <1>8, <1>9
<1>12. \A r \in ClickId \ 1..clicks', j \in JID : got'[<<r, j>>] = 0
  BY <1>1, <1>2
<1>13. PageOK'
  BY <1>2 DEF PageOK
<1> QED
  BY ONLY <1>7, <1>10, <1>11, <1>12, <1>13 DEF DirectInv

LEMMA GroupStep ==
    ASSUME DirectInv,
           \/ \E roster \in SUBSET page.jids : GroupCreate(roster)
           \/ \E g \in DOMAIN page.groups : GroupDelete(g)
           \/ ResetGroups
    PROVE  DirectInv'
<1> USE DEF DirectInv, DirectTypeOK
<1>1. /\ UNCHANGED <<jobs, stored, sent, lastMsg, files, disk, lastFile>>
      /\ UNCHANGED <<online, outages, page, click, clicks, got>>
  BY DEF GroupCreate, GroupDelete, ResetGroups, msgTable, media, requests
<1>2. CASE UNCHANGED <<members, lastGroup>> /\ groups' \subseteq groups
  <2>1. DirectTypeOK' /\ PageOK'
    BY <1>1, <1>2 DEF StoreTypeOK, PageOK
  <2> QED
    BY <1>1, <1>2, <2>1, FrameStep DEF requests
<1>3. ASSUME NEW roster \in SUBSET page.jids, GroupCreate(roster)
      PROVE  DirectInv'
  <2> DEFINE n == lastGroup + 1
  <2>1. /\ lastGroup \in Nat /\ n \in 1..MaxGroup /\ lastGroup' = n
        /\ 1..n = (1..lastGroup) \cup {n} /\ n \notin 1..lastGroup
        /\ groups' = groups \cup {n} /\ members' = Put(members, n, roster)
    BY <1>3, BoundAssumption
    DEF StoreTypeOK, GroupCreate, CreateContactGroup, NextGroupId
  <2>2. roster \subseteq JID /\ members \in [1..lastGroup -> SUBSET JID]
    BY DEF StoreTypeOK
  <2>3. /\ members' \in [1..n -> SUBSET JID]
        /\ \A g \in DOMAIN members : members'[g] = members[g]
    BY <2>1, <2>2 DEF Put
  <2>4. n \in 0..MaxGroup /\ groups' \subseteq 1..n
    BY <2>1 DEF StoreTypeOK
  <2>5. StoreTypeOK'
    BY <1>1, <2>1, <2>3, <2>4 DEF StoreTypeOK
  <2>6. PageOK' /\ DOMAIN members \subseteq DOMAIN members'
    BY <1>1, <2>1, <2>2, <2>3 DEF PageOK
  <2>7. DirectTypeOK'
    BY <1>1, <2>5
  <2> QED
    BY <1>1, <2>3, <2>6, <2>7, FrameStep DEF requests
<1> QED
  BY <1>2, <1>3 DEF GroupDelete, ResetGroups, DeleteContactGroups

LEMMA MediaKept == ASSUME DirectInv, MediaStep PROVE DirectInv'
<1> USE DEF DirectInv, DirectTypeOK
<1>1. /\ UNCHANGED <<online, outages, page, click, clicks, got>>
      /\ StoreTypeOK' /\ UNCHANGED <<members, groups>>
  BY SameTables DEF MediaStep, requests
<1>2. /\ lastFile' \in 0..MaxFile /\ lastFile \in Nat
      /\ 1..lastFile \subseteq 1..lastFile'
      /\ files' \subseteq 1..lastFile' /\ disk' \subseteq 1..lastFile'
  BY BoundAssumption DEF MediaStep, MediaNext, Appear, Forget, Erase
<1>3. DirectTypeOK' /\ PageOK'
  BY <1>1, <1>2 DEF PageOK
<1> QED
  BY <1>1, <1>3, FrameStep DEF requests

LEMMA OnlineStep == ASSUME DirectInv, GoOnline \/ GoOffline PROVE DirectInv'
<1> USE DEF DirectInv, DirectTypeOK
<1>1. UNCHANGED <<files, disk, lastFile, page, click, clicks, got>>
  BY DEF GoOnline, GoOffline, store, media, requests
<1>2. StoreTypeOK' /\ UNCHANGED <<members, groups>>
  BY SameTables DEF GoOnline, GoOffline, store
<1>3. online' \in BOOLEAN
  BY DEF GoOnline, GoOffline
<1>4. outages' \in 0..MaxOutages
  BY ClicksAssumption DEF GoOnline, GoOffline
<1>5. DirectTypeOK' /\ PageOK'
  BY <1>1, <1>2, <1>3, <1>4 DEF PageOK
<1> QED
  BY <1>1, <1>2, <1>5, FrameStep DEF requests

\* The browser leaves, or the process is killed: nobody is added to those a click
\* has still to reach.
LEMMA EndingStep ==
    ASSUME DirectInv, Crash \/ \E r \in 1..clicks : Leave(r)
    PROVE  DirectInv'
<1> USE DEF DirectInv, DirectTypeOK
<1>1. CASE Crash
  <2>1. /\ UNCHANGED <<files, disk, lastFile, page, clicks, got>>
        /\ click' = [r \in 1..clicks |-> Answered(click[r])]
    BY <1>1 DEF Crash, store, media
  <2>2. StoreTypeOK' /\ UNCHANGED <<members, groups>>
    BY <1>1, SameTables DEF Crash, store
  <2>3. online' \in BOOLEAN
    BY <1>1 DEF Crash
  <2>4. outages' \in 0..MaxOutages
    BY <1>1, ClicksAssumption DEF Crash
  <2>5. ASSUME NEW r \in 1..clicks
        PROVE  /\ click'[r] \in Request /\ click'[r].at = "done"
               /\ click'[r].to = click[r].to
               /\ click'[r].wanted = click[r].wanted
               /\ click'[r].todo = {} /\ click'[r].busy = {}
    BY <2>1 DEF Answered, Request
  <2>6. DirectTypeOK'
    BY <2>1, <2>2, <2>3, <2>4, <2>5
  <2>7. ASSUME NEW r \in 1..clicks PROVE ClickOK(r)'
    <3>1. /\ click'[r].to \in GroupId => click'[r].to \in DOMAIN members
          /\ click'[r].wanted = Expand(click'[r].to)
      BY <2>5 DEF ClickOK
    <3> QED
      BY <2>2, <2>5, <3>1 DEF ClickOK, Expand
  <2>8. (OncePerClick /\ OnlyMeant)'
    <3> SUFFICES ASSUME NEW r \in ClickId, NEW j \in JID
                 PROVE  /\ got[<<r, j>>] # Many
                        /\ got[<<r, j>>] > 0 => j \in click'[r].wanted
      BY <2>1 DEF OncePerClick, OnlyMeant
    <3>1. CASE r \in 1..clicks
      BY <2>5, <3>1 DEF OncePerClick, OnlyMeant
    <3>2. CASE r \notin 1..clicks
      BY <3>2 DEF Many
    <3> QED
      BY <3>1, <3>2
  <2> QED
    BY <2>1, <2>2, <2>6, <2>7, <2>8 DEF PageOK
<1>2. ASSUME NEW r \in 1..clicks, Leave(r) PROVE DirectInv'
  <2> DEFINE old == click[r]
             c   == [old EXCEPT !.left = TRUE]
  <2>1. old \in Request /\ ClickOK(r) /\ UNCHANGED Around /\ UNCHANGED got
    BY <1>2 DEF Leave
  <2>2. /\ c \in Request /\ c.at = old.at /\ c.to = old.to
        /\ c.wanted = old.wanted /\ c.todo = old.todo /\ c.busy = old.busy
    BY <2>1 DEF Request
  <2>3. /\ old.todo \cup old.busy \subseteq old.wanted
        /\ old.todo \cap old.busy = {}
        /\ old.at \in {"asked", "found"} => old.busy = {}
        /\ \A j \in old.todo \cup old.busy : got[<<r, j>>] = 0
    BY <2>1 DEF ClickOK
  <2>4. Becomes(r, c)
    BY <1>2 DEF Leave
  <2> HIDE DEF c, old
  <2> QED
    BY <2>1, <2>2, <2>3, <2>4, HandlerStep DEF old
<1> QED
  BY <1>1, <1>2

LEMMA DirectStays ==
    ASSUME DirectInv, [DirectNext]_vars
    PROVE  DirectInv'
<1>1. CASE Browsing
  BY <1>1, NothingStep, FormStep, SubmitStep, GroupStep
  DEF Browsing, GroupRename
<1>2. CASE Surroundings
  BY <1>2, EndingStep, MediaKept, GroupStep, OnlineStep DEF Surroundings
<1>3. ASSUME NEW r \in 1..clicks, SendImage(r) PROVE DirectInv'
  BY <1>3, LookUpStep, ReadStep, SendStep DEF SendImage
<1>4. CASE UNCHANGED vars
  BY <1>4, NothingStep
<1> QED
  BY <1>1, <1>2, <1>3, <1>4 DEF DirectNext

\* The inductive invariant, for any number of JIDs, groups, files and clicks.
THEOREM DirectInvariance == DirectSpec => []DirectInv
<1> QED
  BY DirectStarts, DirectStays, PTL DEF DirectSpec

\* No submission reaches anybody twice.
THEOREM SentOncePerClick == DirectSpec => []OncePerClick
<1>1. DirectInv => OncePerClick
  BY DEF DirectInv
<1> QED
  BY <1>1, DirectInvariance, PTL

\* No picture goes to anybody else than the page meant.
THEOREM SentAsMeant == DirectSpec => []OnlyMeant
<1>1. DirectInv => OnlyMeant
  BY DEF DirectInv
<1> QED
  BY <1>1, DirectInvariance, PTL
=============================================================================
