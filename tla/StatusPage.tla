----------------------------- MODULE StatusPage -----------------------------
(***************************************************************************)
(* The card "Bağlantı Durumu" of the index page in somebody's browser,     *)
(* beside the client of WAClient: how handleIndex chooses it, what the     *)
(* script of the card with the QR code asks for every 15 seconds, and the  *)
(* picture of the code, which is drawn by a request of its own.            *)
(*                                                                         *)
(* The browser keeps what it has been sent: the card, and a picture of a   *)
(* code that may have been replaced since.  Sessions are in the memory of  *)
(* the process, so after a restart the browser is sent to /login instead   *)
(* of being answered.                                                      *)
(***************************************************************************)
EXTENDS WAClient

VARIABLES
    card,       \* the card on the screen (closed, connected, qr or waiting), or
                \* the next read of handleIndex
    image,      \* the picture on the card: of no code (none), the valid one or an
                \* old
    fetching,   \* /api/qr.png has been asked for
    known       \* the browser's session exists

page     == <<card, image, fetching>>
pageVars == <<vars, page, known>>

Drawing == {"IsLoggedIn", "GetQRCode"}

PageInit ==
    /\ Init
    /\ card = "closed" /\ image = "none" /\ fetching = FALSE
    /\ known = FALSE

ShowCard(c) == card' = c /\ image' = "none" /\ fetching' = FALSE

-----------------------------------------------------------------------------
(* handleIndex *)

\* The page is asked for: IsConnected is read, and IsLoggedIn only after a yes.
Ask == ShowCard(IF IsConnected THEN "IsLoggedIn" ELSE "GetQRCode")

\* A user opens or reloads the page, after a login where it is needed.
Open ==
    /\ known' = TRUE
    /\ Ask
    /\ UNCHANGED vars

ReadLoggedIn ==
    /\ card = "IsLoggedIn"
    /\ ShowCard(IF IsLoggedIn THEN "connected" ELSE "GetQRCode")
    /\ UNCHANGED <<vars, known>>

ReadQRCode ==
    /\ card = "GetQRCode"
    /\ IF qrCode # "none"
       THEN card' = "qr" /\ fetching' = TRUE /\ UNCHANGED image
       ELSE ShowCard("waiting")
    /\ UNCHANGED <<vars, known>>

-----------------------------------------------------------------------------
(* handleQRImage, handleStatus *)

\* The code of this moment is drawn; without one the answer is 404.
FetchImage ==
    /\ fetching
    /\ fetching' = FALSE
    /\ image' = qrCode
    /\ UNCHANGED <<vars, card, known>>

\* The script only draws the code again.
PollCode ==
    /\ card = "qr" /\ known /\ ~fetching
    /\ fetching' = (qrCode # "none")
    /\ UNCHANGED <<vars, card, image, known>>

\* The script only looks for the login.
PollLogin ==
    /\ card = "qr" /\ known /\ ~fetching
    /\ IF IsLoggedIn THEN Ask ELSE UNCHANGED page
    /\ UNCHANGED <<vars, known>>

\* The script of the QR card: /api/status, then a reload or a new picture.
\* Without a session the answer is the login page, which is no JSON.
Poll ==
    /\ card = "qr" /\ known /\ ~fetching
    /\ IF IsLoggedIn
       THEN Ask
       ELSE fetching' = (qrCode # "none") /\ UNCHANGED <<card, image>>
    /\ UNCHANGED <<vars, known>>

-----------------------------------------------------------------------------
(* Together with the client *)

\* A picture is of a valid code as long as its code is.
Fade == image' = IF image = "valid" /\ qrCode' # "valid" THEN "old" ELSE image

\* A step of the client or of what is around it.
Beside(Step) == Step /\ Fade /\ UNCHANGED <<card, fetching, known>>

\* Answers under way are lost; the card with its script stays where it was.
RestartProcess ==
    /\ Restart
    /\ known' = FALSE
    /\ IF card \in Drawing
       THEN ShowCard("closed")
       ELSE Fade /\ fetching' = FALSE /\ UNCHANGED card

Browsing == ReadLoggedIn \/ ReadQRCode \/ FetchImage \/ Poll

PageNext ==
    \/ Open \/ Browsing
    \/ Beside(Start) \/ Beside(Surroundings)
    \/ RestartProcess

\* The handlers answer and the script asks on.  A code is valid for 20 seconds or
\* more and old, before its successor is read, for an instant: of the requests
\* made every 15 seconds, some are made and answered while there is a valid one.
PageFairness ==
    /\ WF_pageVars(Browsing)
    /\ SF_pageVars(Poll /\ qrCode = "valid")
    /\ SF_pageVars(FetchImage /\ qrCode = "valid")

PageSpec ==
    /\ PageInit /\ [][PageNext]_pageVars
    /\ PageFairness
    /\ WF_pageVars(Beside(Start))
    /\ SF_pageVars(Beside(DialForQR)) /\ SF_pageVars(Beside(Connect))
    /\ WF_pageVars(Beside(Authenticate)) /\ WF_pageVars(Beside(EmitCode))
    /\ WF_pageVars(Beside(EndPairing)) /\ WF_pageVars(Beside(Reconnect))

-----------------------------------------------------------------------------
(* Properties *)

\* The QR card does not outlive the pairing: as long as its session lasts, it
\* does not stay on the screen of a client that is logged in.
QRCardEnds == []<>~(card = "qr" /\ known /\ IsLoggedIn)

\* Whoever looks at the QR card gets a code that can be scanned, again and again,
\* although the picture is a copy and codes are replaced, run out or are refused.
ScannableOnScreen ==
    []<>(card = "qr" /\ known /\ ~IsLoggedIn /\ logouts = 0 => image = "valid")
=============================================================================
