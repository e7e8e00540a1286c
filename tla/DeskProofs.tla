----------------------------- MODULE DeskProofs -----------------------------
(* Proofs about Desk. *)
EXTENDS Desk, TLAPS

LEMMA DeskStarts == DeskInit => DeskInv
<1> SUFFICES ASSUME DeskInit PROVE DeskInv
  OBVIOUS
<1>1. 1..0 = {}
  OBVIOUS
<1>2. answer \in [1..lastTicket -> Tab \cup {NoAnswer}]
  BY <1>1 DEF DeskInit
<1> QED
  BY <1>2, DeskAssumption DEF DeskInit, DeskInv, DeskTypeOK, NoPage

\* A step of the table keeps the pages, if it forgets no ticket.
LEMMA TableStep ==
    ASSUME DeskInv, UNCHANGED page,
           lastTicket' \in lastTicket..MaxTicket,
           tickets' \subseteq 1..lastTicket',
           answer' \in [1..lastTicket' -> Tab \cup {NoAnswer}]
    PROVE  DeskInv'
<1>1. lastTicket \in Nat /\ 1..lastTicket \subseteq 1..lastTicket'
  BY DeskAssumption DEF DeskInv, DeskTypeOK
<1>2. lastTicket' \in 0..MaxTicket
  BY DeskAssumption DEF DeskInv, DeskTypeOK
<1> QED
  BY <1>1, <1>2 DEF DeskInv, DeskTypeOK

LEMMA CreateStep == ASSUME DeskInv, HandleTicketCreate PROVE DeskInv'
<1> DEFINE id == lastTicket + 1
<1>1. /\ lastTicket \in Nat /\ MaxTicket \in Nat /\ lastTicket < MaxTicket
      /\ lastTicket' = id /\ tickets' = tickets \cup {id}
      /\ answer' = [i \in DOMAIN answer \cup {id} |->
                       IF i = id THEN NoAnswer ELSE answer[i]]
      /\ UNCHANGED page
  BY DeskAssumption
  DEF DeskInv, DeskTypeOK, HandleTicketCreate, CreateSupportTicket, NextTicketId
<1>2. (1..lastTicket) \cup {id} = 1..id /\ id \in lastTicket..MaxTicket
  BY <1>1
<1>3. answer' \in [1..id -> Tab \cup {NoAnswer}]
  BY <1>1, <1>2 DEF DeskInv, DeskTypeOK
<1>4. tickets' \subseteq 1..id
  BY <1>1, <1>2 DEF DeskInv, DeskTypeOK
<1> QED
  BY <1>1, <1>2, <1>3, <1>4, TableStep

LEMMA ReplyStep ==
    ASSUME DeskInv, NEW t \in Tab, HandleTicketReply(t)
    PROVE  DeskInv'
<1>1. answer' \in [1..lastTicket -> Tab \cup {NoAnswer}]
  BY DEF DeskInv, DeskTypeOK, HandleTicketReply, ReplySupportTicket
<1>2. UNCHANGED <<tickets, lastTicket, page>>
  BY DEF HandleTicketReply, ReplySupportTicket
<1>3. lastTicket \in lastTicket..MaxTicket /\ tickets \subseteq 1..lastTicket
  BY DeskAssumption DEF DeskInv, DeskTypeOK
<1> QED
  BY <1>1, <1>2, <1>3, TableStep

LEMMA DeleteStep ==
    ASSUME DeskInv, NEW ids, DeleteSupportTickets(ids), UNCHANGED page
    PROVE  DeskInv'
<1>1. UNCHANGED <<answer, lastTicket, page>> /\ tickets' \subseteq tickets
  BY DEF DeleteSupportTickets
<1>2. lastTicket \in lastTicket..MaxTicket /\ tickets \subseteq 1..lastTicket
  BY DeskAssumption DEF DeskInv, DeskTypeOK
<1> QED
  BY <1>1, <1>2, TableStep DEF DeskInv, DeskTypeOK

LEMMA DrawStep ==
    ASSUME DeskInv, NEW t \in Tab, HandleDestek(t)
    PROVE  DeskInv'
<1>1. /\ DOMAIN Destek.shown = tickets /\ Destek.open \subseteq tickets
      /\ \A id \in Destek.open : Destek.shown[id] = NoAnswer
  BY DEF Destek, GetSupportTickets
<1>2. \A u \in Tab : page'[u] = IF u = t THEN Destek ELSE page[u]
  BY DEF DeskInv, DeskTypeOK, HandleDestek
<1>3. DOMAIN page' = Tab
  BY DEF DeskInv, DeskTypeOK, HandleDestek
<1> QED
  BY <1>1, <1>2, <1>3 DEF DeskInv, DeskTypeOK, HandleDestek, table

LEMMA DeskStays ==
    ASSUME DeskInv, [DeskNext]_deskVars
    PROVE  DeskInv'
<1>1. ASSUME NEW t \in Tab,
             HandleDestek(t) \/ HandleTicketReply(t) \/ HandleTicketDelete(t)
      PROVE  DeskInv'
  BY <1>1, DrawStep, ReplyStep, DeleteStep DEF HandleTicketDelete
<1>2. CASE HandleTicketCreate
  BY <1>2, CreateStep
<1>3. CASE HandleReset
  BY <1>3, DeleteStep DEF HandleReset
<1>4. CASE UNCHANGED deskVars
  BY <1>4 DEF DeskInv, DeskTypeOK, deskVars, table
<1> QED
  BY <1>1, <1>2, <1>3, <1>4 DEF DeskNext

\* Of any number of tabs, every page offers a form only where it shows no answer.
THEOREM DeskHolds == DeskSpec => []DeskInv
<1> QED
  BY DeskStarts, DeskStays, PTL DEF DeskSpec

\* A deleted ticket, or its id, does not come back.
THEOREM DeletedIsGone == DeskSpec => DeletedTicketStays
<1>1. ASSUME DeskInv, [DeskNext]_deskVars
      PROVE  [\A id \in 1..lastTicket \ tickets : id \notin tickets']_deskVars
  <2>1. ASSUME HandleTicketCreate, NEW id \in 1..lastTicket \ tickets
        PROVE  id \notin tickets'
    BY <1>1, <2>1 DEF DeskInv, DeskTypeOK, HandleTicketCreate,
       CreateSupportTicket, NextTicketId
  <2>2. ASSUME NEW t \in Tab,
               HandleDestek(t) \/ HandleTicketReply(t) \/ HandleTicketDelete(t)
        PROVE  tickets' \subseteq tickets
    BY <2>2 DEF HandleDestek, table, HandleTicketReply, ReplySupportTicket,
       HandleTicketDelete, DeleteSupportTickets
  <2>3. HandleReset => tickets' \subseteq tickets
    BY DEF HandleReset, DeleteSupportTickets
  <2> QED
    BY <1>1, <2>1, <2>2, <2>3 DEF DeskNext
<1> QED
  BY <1>1, DeskHolds, PTL DEF DeskSpec, DeletedTicketStays

\* Nobody replaces an answer he was shown.
THEOREM RepliesAreUnseen == DeskSpec => ReplacedUnseen
<1>1. ASSUME DeskInv, [DeskNext]_deskVars, NEW id \in 1..lastTicket,
             answer[id] \in Tab, answer'[id] # answer[id]
      PROVE  answer'[id] \in Tab /\ page[answer'[id]].shown[id] = NoAnswer
  <2>1. PICK t \in Tab : HandleTicketReply(t)
    <3>1. ~HandleTicketCreate
      BY <1>1 DEF DeskInv, DeskTypeOK, HandleTicketCreate,
         CreateSupportTicket, NextTicketId
    <3>2. answer' # answer
      BY <1>1
    <3>3. /\ ~HandleReset /\ ~UNCHANGED deskVars
          /\ \A t \in Tab : ~HandleDestek(t) /\ ~HandleTicketDelete(t)
      BY <3>2 DEF HandleReset, DeleteSupportTickets, deskVars, table,
         HandleDestek, HandleTicketDelete
    <3> QED
      BY <1>1, <3>1, <3>3 DEF DeskNext
  <2>2. id \in page[t].open /\ answer'[id] = t
    BY <1>1, <2>1
    DEF DeskInv, DeskTypeOK, HandleTicketReply, ReplySupportTicket
  <2> QED
    BY <1>1, <2>2 DEF DeskInv
<1>2. ASSUME DeskInv, [DeskNext]_deskVars
      PROVE  [\A id \in 1..lastTicket :
                 answer[id] \in Tab /\ answer'[id] # answer[id] =>
                     /\ answer'[id] \in Tab
                     /\ page[answer'[id]].shown[id] = NoAnswer]_deskVars
  BY <1>1, <1>2
<1> QED
  BY <1>2, DeskHolds, PTL DEF DeskSpec, ReplacedUnseen
=============================================================================
