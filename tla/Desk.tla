-------------------------------- MODULE Desk --------------------------------
(***************************************************************************)
(* The support tickets: the table support_tickets of store/db.go, its      *)
(* handlers, and the pages its users see.                                  *)
(*                                                                         *)
(* A page is the table of the moment it was drawn.  It has a form for an   *)
(* answer under every ticket that was open then and a button to delete     *)
(* each ticket, so what its user asks for may be out of date when it is    *)
(* handled.  Answering sets reply and status in one statement: a ticket is *)
(* closed if and only if it has an answer, which here is the tab it was    *)
(* written in.                                                             *)
(***************************************************************************)
EXTENDS Naturals

CONSTANTS
    Tab,        \* the tabs of all users
    MaxTicket,  \* bound: rows ever inserted into support_tickets
    NoAnswer    \* the reply '' of an open ticket

ASSUME DeskAssumption == MaxTicket \in Nat /\ NoAnswer \notin Tab

VARIABLES
    answer,     \* the answer of every ticket ever created
    tickets,    \* the tickets whose row is in the table
    lastTicket, \* sqlite_sequence of support_tickets
    page        \* the page in each tab: the tickets on it, with their answers,
                \* and those with a form

table    == <<answer, tickets, lastTicket>>
deskVars == <<table, page>>

NoPage == [shown |-> [i \in {} |-> i], open |-> {}]

DeskTypeOK ==
    /\ lastTicket \in 0..MaxTicket
    /\ tickets \subseteq 1..lastTicket
    /\ answer \in [1..lastTicket -> Tab \cup {NoAnswer}]
    /\ DOMAIN page = Tab
    /\ \A t \in Tab :
          /\ DOMAIN page[t].shown \subseteq 1..lastTicket
          /\ page[t].open \subseteq DOMAIN page[t].shown

DeskInit ==
    /\ answer = [i \in {} |-> i] /\ tickets = {} /\ lastTicket = 0
    /\ page = [t \in Tab |-> NoPage]

-----------------------------------------------------------------------------
(* support_tickets *)

\* What INTEGER PRIMARY KEY without AUTOINCREMENT would allocate.
LargestPlusOne(last, present) ==
    1 + CHOOSE m \in present \cup {0} : \A i \in present : i <= m

\* AUTOINCREMENT.
NextTicketId(last, present) == last + 1

CreateSupportTicket ==
    LET id == NextTicketId(lastTicket, tickets)
    IN  /\ lastTicket < MaxTicket
        /\ answer' = [i \in DOMAIN answer \cup {id} |->
                         IF i = id THEN NoAnswer ELSE answer[i]]
        /\ tickets' = tickets \cup {id}
        /\ lastTicket' = id

ReplySupportTicket(id, text) ==
    /\ answer' = IF id \in tickets THEN [answer EXCEPT ![id] = text] ELSE answer
    /\ UNCHANGED <<tickets, lastTicket>>

\* The DELETE of DeleteSupportTicket ({id}) and of ResetAll (every id).
DeleteSupportTickets(ids) ==
    /\ tickets' = tickets \ ids
    /\ UNCHANGED <<answer, lastTicket>>

-----------------------------------------------------------------------------
(* The page *)

GetSupportTickets == [id \in tickets |-> answer[id]]

\* A form for an answer under every ticket.
AllTickets == [shown |-> GetSupportTickets, open |-> tickets]

\* The form is there if Status == "open".
Destek == [shown |-> GetSupportTickets,
           open |-> {id \in tickets : answer[id] = NoAnswer}]

-----------------------------------------------------------------------------
(* The handlers.  What they are asked for is on the page of a tab, as it was *)
(* drawn.  Each of them ends with a redirect to handleDestek.                *)

HandleDestek(t) ==
    /\ page' = [page EXCEPT ![t] = Destek]
    /\ UNCHANGED table

HandleTicketCreate ==
    /\ CreateSupportTicket
    /\ UNCHANGED page

HandleTicketReply(t) ==
    /\ \E id \in page[t].open : ReplySupportTicket(id, t)
    /\ UNCHANGED page

HandleTicketDelete(t) ==
    /\ \E id \in DOMAIN page[t].shown : DeleteSupportTickets({id})
    /\ UNCHANGED page

HandleReset ==
    /\ DeleteSupportTickets(tickets)
    /\ UNCHANGED page

DeskNext ==
    \/ HandleTicketCreate \/ HandleReset
    \/ \E t \in Tab :
          HandleDestek(t) \/ HandleTicketReply(t) \/ HandleTicketDelete(t)

DeskSpec == DeskInit /\ [][DeskNext]_deskVars

-----------------------------------------------------------------------------
(* Properties *)

\* What is on a page has been a ticket, with no answer where there is a form for
\* one; the table has no row that was not created.
DeskInv ==
    /\ DeskTypeOK
    /\ \A t \in Tab : \A id \in page[t].open : page[t].shown[id] = NoAnswer

\* A ticket that was deleted does not come back, nor does another one under its
\* id: what a page asks for long after never hits a ticket that was not on it.
DeletedTicketStays ==
    [][\A id \in 1..lastTicket \ tickets : id \notin tickets']_deskVars

\* Two may answer the same ticket, and the second answer replaces the first; but
\* nobody replaces an answer that was on the page in front of him, however long
\* ago that page was drawn.
ReplacedUnseen ==
    [][\A id \in 1..lastTicket :
          answer[id] \in Tab /\ answer'[id] # answer[id] =>
              /\ answer'[id] \in Tab
              /\ page[answer'[id]].shown[id] = NoAnswer]_deskVars
=============================================================================
