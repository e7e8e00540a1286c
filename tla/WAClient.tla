------------------------------ MODULE WAClient ------------------------------
(***************************************************************************)
(* wa/client.go: the goroutine Start, which connects a paired device or    *)
(* shows QR codes until a phone has scanned one, and what the whatsmeow    *)
(* library, the WhatsApp server, the phone and the logout handler do       *)
(* beside it.                                                              *)
(*                                                                         *)
(* whatsmeow is not in the repository.  Of it the module has what Start    *)
(* relies on: GetQRChannel refuses a paired or connected client, the       *)
(* channel ends with one event that is not a code, a connection that has   *)
(* just paired is dropped and made again, and a paired device that lost    *)
(* its connection gets it back without being asked to.                     *)
(***************************************************************************)
EXTENDS Naturals, Sequences

CONSTANTS
    MaxFaults,  \* bound: dropped connections, failed pairings and restarts
    MaxLogouts  \* bound: logouts, from the page or from the phone

ASSUME BoundAssumption ==
    MaxFaults \in Nat /\ MaxLogouts \in Nat

VARIABLES
    pc,         \* where Start is
    qrCode,     \* the code the page shows: none, one that is valid, or an old one
    channel,    \* qrChan: nil, open or closed
    queue,      \* the events in it
    paired,     \* Store.ID # nil
    link,       \* the connection: down, up, new (just paired), or auth
    auto,       \* whatsmeow is about to reconnect by itself
    faults,
    logouts

start     == <<pc, qrCode>>
qrChannel == <<channel, queue>>
session   == <<paired, link, auto>>
counts    == <<faults, logouts>>
vars      == <<start, qrChannel, session, counts>>

IsConnected == link # "down"
IsLoggedIn  == link = "auth"

LastEvent == {"success", "timeout", "error"}

\* Besides the types: the last event is what closes the channel, and Start never
\* reads from a nil channel, which would block it for good.
TypeOK ==
    /\ pc \in {"top", "id", "channel", "dial", "events",
               "connect", "backoff", "wait"}
    /\ qrCode \in {"none", "valid", "old"}
    /\ channel \in {"nil", "open", "closed"}
    /\ queue \in Seq({"code"} \cup LastEvent) /\ Len(queue) <= 2
    /\ \A i \in 1..Len(queue) :
          queue[i] # "code" => channel = "closed" /\ i = Len(queue)
    /\ pc = "events" => channel # "nil"
    /\ paired \in BOOLEAN /\ auto \in BOOLEAN
    /\ link \in {"down", "up", "new", "auth"}
    /\ link \in {"new", "auth"} => paired
    /\ faults \in 0..MaxFaults /\ logouts \in 0..MaxLogouts

Init ==
    /\ pc = "top" /\ qrCode = "none"
    /\ channel = "nil" /\ queue = <<>>
    /\ paired = FALSE /\ link = "down" /\ auto = FALSE
    /\ faults = 0 /\ logouts = 0

-----------------------------------------------------------------------------
(* whatsmeow, as Start calls it *)

Old(code) == IF code = "valid" THEN "old" ELSE code

\* Connect fails when connected already, or when the server cannot be reached.
ConnectOk ==
    /\ ~IsConnected
    /\ link' = "up" /\ auto' = FALSE
    /\ UNCHANGED paired

ConnectFails == UNCHANGED session

Disconnect ==
    /\ link' = "down" /\ auto' = FALSE
    /\ UNCHANGED paired

-----------------------------------------------------------------------------
(* Start *)

\* The head of the loop, the test of IsConnected.
FindConnected ==
    /\ pc = "top" /\ IsConnected
    /\ pc' = "wait"
    /\ UNCHANGED <<qrCode, qrChannel, session, counts>>

FindDisconnected ==
    /\ pc = "top" /\ ~IsConnected
    /\ pc' = "id"
    /\ UNCHANGED <<qrCode, qrChannel, session, counts>>

\* Without the test of Store.ID.
AlwaysLogIn ==
    /\ pc = "id"
    /\ pc' = "channel"
    /\ UNCHANGED <<qrCode, qrChannel, session, counts>>

\* Store.ID == nil, a moment after IsConnected was read.
CheckID ==
    /\ pc = "id"
    /\ pc' = IF paired THEN "connect" ELSE "channel"
    /\ UNCHANGED <<qrCode, qrChannel, session, counts>>

\* GetQRChannel: loginWithQR drops its error, and then has no channel.
OpenChannel ==
    /\ pc = "channel"
    /\ pc' = "dial"
    /\ channel' = IF IsConnected \/ paired THEN "nil" ELSE "open"
    /\ queue' = <<>>
    /\ UNCHANGED <<qrCode, session, counts>>

DialForQR ==
    /\ pc = "dial"
    /\ ConnectOk
    /\ pc' = "events"
    /\ UNCHANGED <<qrCode, qrChannel, counts>>

\* loginWithQR returns, and Start is at the head of its loop without a pause.
DialForQRFails ==
    /\ pc = "dial"
    /\ ConnectFails
    /\ pc' = "top"
    /\ UNCHANGED <<qrCode, qrChannel, counts>>

\* The channel is read with the next event at its head.
Reading(events) ==
    /\ pc = "events"
    /\ queue # <<>> /\ Head(queue) \in events
    /\ queue' = Tail(queue)

ShowCode ==
    /\ Reading({"code"})
    /\ qrCode' = IF channel = "open" THEN "valid" ELSE "old"
    /\ UNCHANGED <<pc, channel, session, counts>>

\* The code is left on the page.
LeaveCode ==
    /\ Reading({"success"})
    /\ pc' = "top"
    /\ UNCHANGED <<qrCode, channel, session, counts>>

LogIn ==
    /\ Reading({"success"})
    /\ qrCode' = "none"
    /\ pc' = "top"
    /\ UNCHANGED <<channel, session, counts>>

\* The connection is left as it is.
LeaveConnected ==
    /\ Reading({"timeout", "error"})
    /\ pc' = "top"
    /\ UNCHANGED <<qrCode, channel, session, counts>>

\* Any other event: start again from a closed connection.  (The channel never
\* ends without an event that makes loginWithQR return.)
GiveUp ==
    /\ Reading({"timeout", "error"})
    /\ Disconnect
    /\ qrCode' = Old(qrCode)
    /\ pc' = "top"
    /\ UNCHANGED <<channel, counts>>

Connect ==
    /\ pc = "connect"
    /\ ConnectOk
    /\ pc' = "wait"
    /\ UNCHANGED <<qrCode, qrChannel, counts>>

\* A failed Connect ends Start.
ConnectOnce ==
    /\ pc = "connect"
    /\ ConnectFails
    /\ pc' = "wait"
    /\ UNCHANGED <<qrCode, qrChannel, counts>>

ConnectAgain ==
    /\ pc = "connect"
    /\ ConnectFails
    /\ pc' = "backoff"
    /\ UNCHANGED <<qrCode, qrChannel, counts>>

\* Five seconds have passed.
BackOff ==
    /\ pc = "backoff"
    /\ pc' = "top"
    /\ UNCHANGED <<qrCode, qrChannel, session, counts>>

Start ==
    \/ FindConnected \/ FindDisconnected \/ CheckID
    \/ OpenChannel \/ DialForQR \/ DialForQRFails
    \/ ShowCode \/ LogIn \/ GiveUp
    \/ Connect \/ ConnectAgain \/ BackOff

-----------------------------------------------------------------------------
(* whatsmeow, by itself; the server and the phone *)

\* An event that is not a code, and the end of the channel, if it is open.
Finish(event) ==
    IF channel = "open"
    THEN channel' = "closed" /\ queue' = Append(queue, event)
    ELSE UNCHANGED qrChannel

Authenticate ==
    /\ link = "up" /\ paired
    /\ link' = "auth"
    /\ UNCHANGED <<start, qrChannel, paired, auto, counts>>

Pairing == link = "up" /\ ~paired /\ channel = "open"

\* A new code makes the one before it invalid.  Codes are at least 20 seconds
\* apart, so Start has read the one before.
EmitCode ==
    /\ Pairing /\ queue = <<>>
    /\ queue' = Append(queue, "code")
    /\ qrCode' = Old(qrCode)
    /\ UNCHANGED <<pc, channel, session, counts>>

\* The last code has been on the page for its time.
CodesRunOut ==
    /\ Pairing /\ qrCode = "valid"
    /\ Finish("timeout")
    /\ link' = "down"
    /\ qrCode' = Old(qrCode)
    /\ UNCHANGED <<pc, paired, auto, counts>>

\* The phone scans the code the page shows.
Scan ==
    /\ Pairing /\ qrCode = "valid"
    /\ Finish("success")
    /\ paired' = TRUE /\ link' = "new"
    /\ qrCode' = "old"
    /\ UNCHANGED <<pc, auto, counts>>

\* Pairing is refused; the connection stays.
PairError ==
    /\ Pairing /\ faults < MaxFaults
    /\ faults' = faults + 1
    /\ Finish("error")
    /\ qrCode' = Old(qrCode)
    /\ UNCHANGED <<pc, session, logouts>>

\* The server ends the connection the device has just been paired on.
EndPairing ==
    /\ link = "new"
    /\ link' = "down" /\ auto' = TRUE
    /\ UNCHANGED <<start, qrChannel, paired, counts>>

Drop ==
    /\ IsConnected /\ faults < MaxFaults
    /\ faults' = faults + 1
    /\ link' = "down" /\ auto' = paired
    /\ Finish("timeout")
    /\ qrCode' = Old(qrCode)
    /\ UNCHANGED <<pc, paired, logouts>>

Reconnect ==
    /\ auto /\ ConnectOk
    /\ UNCHANGED <<start, qrChannel, counts>>

\* handleLogout, when Logout succeeds, or the device is removed on the phone:
\* the device is deleted from the store and the connection closed.
Logout ==
    /\ IsLoggedIn /\ logouts < MaxLogouts
    /\ logouts' = logouts + 1
    /\ paired' = FALSE /\ link' = "down" /\ auto' = FALSE
    /\ UNCHANGED <<start, qrChannel, faults>>

\* The process is killed and started again; wa.db keeps the device.
Restart ==
    /\ faults < MaxFaults
    /\ faults' = faults + 1
    /\ pc' = "top" /\ qrCode' = "none"
    /\ channel' = "nil" /\ queue' = <<>>
    /\ link' = "down" /\ auto' = FALSE
    /\ UNCHANGED <<paired, logouts>>

Surroundings ==
    \/ Authenticate \/ EmitCode \/ CodesRunOut \/ Scan \/ PairError
    \/ EndPairing \/ Drop \/ Reconnect \/ Logout

Environment == Surroundings \/ Restart

Next == Start \/ Environment

Spec == Init /\ [][Next]_vars

\* The goroutine runs; a server that is tried again and again is reached in the
\* end; whatsmeow does what Start leaves to it.  Nobody has to scan a code.
Fairness ==
    /\ WF_vars(Start)
    /\ SF_vars(DialForQR) /\ SF_vars(Connect)
    /\ WF_vars(Authenticate) /\ WF_vars(EmitCode)
    /\ WF_vars(EndPairing) /\ WF_vars(Reconnect)

FairSpec == Spec /\ Fairness

-----------------------------------------------------------------------------
(* Properties *)

\* Once Start only waits, it never acts again: so then the device is paired, for
\* whatsmeow to reconnect, and no code is left on the page.
RestsReady == pc = "wait" /\ logouts = 0 => paired /\ qrCode = "none"

\* Until a logout, Start waits only for what can come: for an event, while there is
\* one to read or pairing goes on; for the end of the process, while the device is
\* connected or whatsmeow is about to reconnect it.
NeverInVain ==
    logouts = 0 =>
        /\ pc = "events" => queue # <<>> \/ Pairing
        /\ pc = "wait" => IsConnected \/ auto

\* Start never leaves the page without a connection and without a code it could
\* show: until somebody logs out, again and again the client is logged in or holds
\* a valid code, whatever codes run out, connections drop or dials fail.
NeverStuck == []<>(IsLoggedIn \/ qrCode = "valid" \/ logouts > 0)

\* A paired device gets back to being logged in after every drop and restart, or
\* is logged out: what the scheduler's messages wait for.
PairedLogsIn == paired ~> IsLoggedIn \/ ~paired

\* What Logout says of itself: after it the QR code is shown again.
LogoutShowsQR == ~paired ~> qrCode = "valid"
=============================================================================
