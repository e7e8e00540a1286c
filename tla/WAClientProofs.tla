--------------------------- MODULE WAClientProofs ---------------------------
(* Proofs about WAClient and the page of StatusPage. *)
EXTENDS StatusPage, SequenceTheorems, TLAPS

\* What the channel holds while Start reads it.
ReadingOK ==
    \/ channel = "open" /\ ~paired /\ queue \in {<<>>, <<"code">>}
    \/ /\ channel = "closed" /\ paired
       /\ queue \in {<<"success">>, <<"code", "success">>}
    \/ /\ channel = "closed" /\ ~paired
       /\ queue \in {<<"timeout">>, <<"code", "timeout">>,
                     <<"error">>, <<"code", "error">>}

\* Everywhere else: an unpaired client is not connected, so that nothing pairs it
\* behind Start's back, and a paired one has no code on the page.
ElsewhereOK ==
    IF paired THEN qrCode = "none" /\ channel # "open" /\ pc \notin {"channel", "dial"}
    ELSE link = "down" /\ pc \notin {"connect", "backoff", "wait"}

\* The invariant from which RestsReady follows.
Steady ==
    /\ logouts \in Nat
    /\ logouts = 0 =>
          /\ link = "new" \/ auto => paired
          /\ pc = "dial" => channel = "open" /\ queue = <<>>
          /\ IF pc = "events" THEN ReadingOK ELSE ElsewhereOK

LEMMA OneEvent ==
    ASSUME NEW e
    PROVE  /\ Head(<<e>>) = e /\ Tail(<<e>>) = <<>>
           /\ Append(<<>>, e) = <<e>>
OBVIOUS

LEMMA TwoEvents ==
    ASSUME NEW e, NEW f
    PROVE  /\ Head(<<e, f>>) = e /\ Tail(<<e, f>>) = <<f>>
           /\ Append(<<e>>, f) = <<e, f>>
<1> DEFINE S == {e, f}
           app == Append(<<e>>, f)
<1>1. /\ <<e>> \in Seq(S) /\ <<e, f>> \in Seq(S) /\ app \in Seq(S)
      /\ Len(app) = 2 /\ Len(<<e, f>>) = 2
  OBVIOUS
<1>2. \A i \in 1..2 : app[i] = <<e, f>>[i]
  <2>1. app[1] = e /\ app[2] = f
    BY <1>1
  <2> QED
    BY <2>1
<1>3. app = <<e, f>>
  <2> HIDE DEF app
  <2> QED
    BY <1>1, <1>2, SeqEqual
<1>4. Head(<<e, f>>) = e
  OBVIOUS
<1>5. Tail(<<e, f>>) = <<f>>
  OBVIOUS
<1> QED
  BY <1>3, <1>4, <1>5

LEMMA SteadyStarts == Init => Steady
BY DEF Init, Steady, ElsewhereOK

\* Start's own steps.
LEMMA StartSteady ==
    ASSUME Steady, Start, logouts = 0
    PROVE  Steady'
<1>1. CASE FindConnected
  BY <1>1 DEF FindConnected, Steady, ElsewhereOK, IsConnected, qrChannel,
     session, counts
<1>2. CASE FindDisconnected
  BY <1>2 DEF FindDisconnected, Steady, ElsewhereOK, IsConnected, qrChannel,
     session, counts
<1>3. CASE CheckID
  BY <1>3 DEF CheckID, Steady, ElsewhereOK, qrChannel, session, counts
<1>4. CASE OpenChannel
  BY <1>4 DEF OpenChannel, Steady, ElsewhereOK, IsConnected, session, counts
<1>5. CASE DialForQR
  BY <1>5 DEF DialForQR, ConnectOk, Steady, ReadingOK, ElsewhereOK, qrChannel,
     counts
<1>6. CASE DialForQRFails
  BY <1>6 DEF DialForQRFails, ConnectFails, Steady, ElsewhereOK, qrChannel,
     session, counts
<1>7. CASE ShowCode
  <2>1. /\ pc = "events" /\ ReadingOK /\ queue # <<>> /\ Head(queue) = "code"
        /\ pc' = pc /\ channel' = channel /\ paired' = paired
        /\ link' = link /\ auto' = auto /\ logouts' = logouts
        /\ queue' = Tail(queue)
    BY <1>7 DEF ShowCode, Reading, Steady, session, counts
  <2>2. CASE queue = <<"code">>
    <3>1. channel = "open" /\ ~paired
      BY <2>1, <2>2, OneEvent, TwoEvents DEF ReadingOK
    <3>2. queue' = <<>>
      BY <2>1, <2>2, OneEvent
    <3>3. ReadingOK'
      BY <2>1, <3>1, <3>2 DEF ReadingOK
    <3> QED
      BY <2>1, <3>3 DEF Steady
  <2>3. ASSUME NEW e, queue = <<"code", e>>
        PROVE  ReadingOK'
    <3>1. queue' = <<e>>
      BY <2>1, <2>3, TwoEvents
    <3> QED
      BY <2>1, <2>3, <3>1 DEF ReadingOK
  <2> QED
    <3>1. queue = <<"code">> \/ \E e : queue = <<"code", e>>
      BY <2>1, OneEvent DEF ReadingOK
    <3>2. CASE \E e : queue = <<"code", e>>
      BY <2>1, <2>3, <3>2 DEF Steady
    <3> QED
      BY <2>2, <3>1, <3>2
<1>8. CASE LogIn
  <2>1. /\ ReadingOK /\ Head(queue) = "success" /\ queue # <<>>
        /\ pc' = "top" /\ qrCode' = "none" /\ channel' = channel
        /\ paired' = paired /\ link' = link /\ auto' = auto
        /\ logouts' = logouts
    BY <1>8 DEF LogIn, Reading, Steady, session, counts
  <2>2. paired /\ channel = "closed"
    BY <2>1, OneEvent, TwoEvents DEF ReadingOK
  <2> QED
    BY <2>1, <2>2 DEF Steady, ElsewhereOK
<1>9. CASE GiveUp
  <2>1. /\ ReadingOK /\ Head(queue) \in {"timeout", "error"} /\ queue # <<>>
        /\ pc' = "top" /\ link' = "down" /\ auto' = FALSE
        /\ paired' = paired /\ logouts' = logouts
    BY <1>9 DEF GiveUp, Disconnect, Reading, Steady, counts
  <2>2. ~paired
    BY <2>1, OneEvent, TwoEvents DEF ReadingOK
  <2> QED
    BY <2>1, <2>2 DEF Steady, ElsewhereOK
<1>10. CASE Connect
  BY <1>10 DEF Connect, ConnectOk, Steady, ElsewhereOK, qrChannel, counts
<1>11. CASE ConnectAgain
  BY <1>11 DEF ConnectAgain, ConnectFails, Steady, ElsewhereOK, qrChannel,
     session, counts
<1>12. CASE BackOff
  BY <1>12 DEF BackOff, Steady, ElsewhereOK, qrChannel, session, counts
<1> QED
  BY <1>1, <1>2, <1>3, <1>4, <1>5, <1>6, <1>7, <1>8, <1>9, <1>10, <1>11, <1>12
  DEF Start

\* A step of pairing needs an unpaired, connected client: only while Start reads.
LEMMA PairingWhileReading ==
    ASSUME Steady, logouts = 0, Pairing
    PROVE  pc = "events" /\ channel = "open" /\ queue \in {<<>>, <<"code">>}
BY DEF Steady, Pairing, ReadingOK, ElsewhereOK

\* The steps of everybody else.
LEMMA OthersSteady ==
    ASSUME Steady, Environment, logouts = 0
    PROVE  Steady'
<1>1. CASE Authenticate
  BY <1>1 DEF Authenticate, Steady, ReadingOK, ElsewhereOK, start, qrChannel,
     counts
<1>2. CASE EmitCode
  <2>1. pc = "events" /\ channel = "open" /\ queue' = <<"code">> /\ ~paired
    BY <1>2, PairingWhileReading, OneEvent DEF EmitCode, Pairing
  <2> QED
    BY <1>2, <2>1 DEF EmitCode, Steady, ReadingOK, session, counts
<1>3. ASSUME NEW e \in LastEvent, Pairing, Finish(e)
      PROVE  /\ pc = "events" /\ channel' = "closed"
             /\ queue' \in {<<e>>, <<"code", e>>}
  BY <1>3, PairingWhileReading, OneEvent, TwoEvents DEF Finish, Pairing
<1>4. CASE CodesRunOut
  <2>1. pc = "events" /\ channel' = "closed"
        /\ queue' \in {<<"timeout">>, <<"code", "timeout">>} /\ ~paired
    BY <1>3, <1>4 DEF CodesRunOut, LastEvent, Pairing
  <2> QED
    BY <1>4, <2>1 DEF CodesRunOut, Steady, ReadingOK, counts
<1>5. CASE Scan
  <2>1. pc = "events" /\ channel' = "closed"
        /\ queue' \in {<<"success">>, <<"code", "success">>}
    BY <1>3, <1>5 DEF Scan, LastEvent
  <2> QED
    BY <1>5, <2>1 DEF Scan, Steady, ReadingOK, counts
<1>6. CASE PairError
  <2>1. pc = "events" /\ channel' = "closed"
        /\ queue' \in {<<"error">>, <<"code", "error">>} /\ ~paired
    BY <1>3, <1>6 DEF PairError, LastEvent, Pairing
  <2> QED
    BY <1>6, <2>1 DEF PairError, Steady, ReadingOK, session
<1>7. CASE EndPairing
  BY <1>7 DEF EndPairing, Steady, ReadingOK, ElsewhereOK, start, qrChannel, counts
<1>8. CASE Drop
  <2>1. /\ pc' = pc /\ paired' = paired /\ link' = "down" /\ auto' = paired
        /\ logouts' = logouts
        /\ Finish("timeout") /\ qrCode' = Old(qrCode) /\ link # "down"
    BY <1>8 DEF Drop, IsConnected
  <2>2. CASE paired
    <3>1. channel # "open"
      BY <2>2 DEF Steady, ReadingOK, ElsewhereOK
    <3>2. channel' = channel /\ queue' = queue
      BY <2>1, <3>1 DEF Finish, qrChannel
    <3> QED
      BY <2>1, <2>2, <3>2 DEF Steady, ReadingOK, ElsewhereOK, Old
  <2>3. CASE ~paired
    <3>1. pc = "events" /\ ReadingOK
      BY <2>1, <2>3 DEF Steady, ElsewhereOK
    <3>2. CASE channel = "open"
      <4>1. /\ channel' = "closed"
            /\ queue' \in {<<"timeout">>, <<"code", "timeout">>}
        BY <2>1, <2>3, <3>1, <3>2, OneEvent, TwoEvents DEF Finish, ReadingOK
      <4> QED
        BY <2>1, <2>3, <3>1, <4>1 DEF Steady, ReadingOK
    <3>3. CASE channel # "open"
      <4>1. channel' = channel /\ queue' = queue
        BY <2>1, <3>3 DEF Finish, qrChannel
      <4> QED
        BY <2>1, <2>3, <3>1, <4>1 DEF Steady, ReadingOK
    <3> QED
      BY <3>2, <3>3
  <2> QED
    BY <2>2, <2>3
<1>9. CASE Reconnect
  <2>1. paired
    BY <1>9 DEF Reconnect, Steady
  <2> QED
    BY <1>9, <2>1 DEF Reconnect, ConnectOk, Steady, ReadingOK, ElsewhereOK, start,
       qrChannel, counts
<1>10. CASE Logout
  BY <1>10 DEF Logout, Steady
<1>11. CASE Restart
  BY <1>11 DEF Restart, Steady, ElsewhereOK
<1> QED
  BY <1>1, <1>2, <1>4, <1>5, <1>6, <1>7, <1>8, <1>9, <1>10, <1>11 DEF Environment, Surroundings

LEMMA SteadyStays == Steady /\ [Next]_vars => Steady'
<1> SUFFICES ASSUME Steady, [Next]_vars PROVE Steady'
  OBVIOUS
<1>1. CASE logouts = 0 /\ Next
  BY <1>1, StartSteady, OthersSteady DEF Next
<1>2. CASE logouts # 0
  <2>1. logouts' \in {logouts, logouts + 1}
    BY DEF Next, Start, Environment, Surroundings, FindConnected, FindDisconnected, CheckID,
       OpenChannel, DialForQR, DialForQRFails, ShowCode, LogIn, GiveUp, Connect,
       ConnectAgain, BackOff, Authenticate, EmitCode, CodesRunOut, Scan,
       PairError, EndPairing, Drop, Reconnect, Logout, Restart, counts, vars
  <2> QED
    BY <1>2, <2>1 DEF Steady
<1>3. CASE UNCHANGED vars
  BY <1>3 DEF vars, start, qrChannel, session, counts, Steady, ReadingOK,
     ElsewhereOK
<1> QED
  BY <1>1, <1>2, <1>3

\* However often codes run out, dials fail, connections drop and the process is
\* restarted: when Start only waits, the device is paired and no code is shown.
THEOREM StartRestsReady == Spec => []RestsReady
<1>1. Steady => RestsReady
  BY DEF Steady, ElsewhereOK, RestsReady
<1> QED
  BY <1>1, SteadyStarts, SteadyStays, PTL DEF Spec
-----------------------------------------------------------------------------
\* What the channel can hold: at most one code, and its last event when it is
\* closed.
Shape ==
    \/ channel = "nil" /\ queue = <<>>
    \/ channel = "open" /\ queue \in {<<>>, <<"code">>}
    \/ /\ channel = "closed"
       /\ queue = <<>> \/ \E e \in LastEvent : queue \in {<<e>>, <<"code", e>>}

Typed ==
    /\ pc \in {"top", "id", "channel", "dial", "events",
               "connect", "backoff", "wait"}
    /\ qrCode \in {"none", "valid", "old"}
    /\ paired \in BOOLEAN /\ auto \in BOOLEAN
    /\ link \in {"down", "up", "new", "auth"}
    /\ faults \in 0..MaxFaults /\ logouts \in 0..MaxLogouts

\* The invariant from which TypeOK follows, also after logouts.  An unpaired
\* client is connected only while Start reads the channel or has stopped acting,
\* so the channel asked for at "channel" is never refused; and one whose last
\* event is still "success" is connected only if it is paired.
Wired ==
    /\ auto \/ link \in {"new", "auth"} => paired
    /\ ~paired /\ pc \notin {"events", "wait"} => link = "down"
    /\ channel = "open" => ~paired /\ pc \notin {"connect", "backoff", "wait"}
    /\ pc = "channel" => ~paired
    /\ pc = "dial" => ~paired /\ channel = "open" /\ queue = <<>>
    /\ pc = "events" => channel # "nil"
    /\ pc = "events" /\ ~paired /\ link = "up" =>
          queue \notin {<<"success">>, <<"code", "success">>}

LEMMA WiredStarts == Init => Typed /\ Shape /\ Wired
<1> SUFFICES ASSUME Init PROVE Typed /\ Shape /\ Wired
  OBVIOUS
<1>1. Typed
  <2>1. faults \in 0..MaxFaults /\ logouts \in 0..MaxLogouts
    BY BoundAssumption DEF Init
  <2> QED
    BY <2>1 DEF Init, Typed
<1>2. Shape
  BY DEF Init, Shape
<1>3. Wired
  BY DEF Init, Wired
<1> QED
  BY <1>1, <1>2, <1>3

LEMMA ShapeTyped ==
    ASSUME Shape
    PROVE  /\ channel \in {"nil", "open", "closed"}
           /\ queue \in Seq({"code"} \cup LastEvent) /\ Len(queue) <= 2
           /\ \A i \in 1..Len(queue) :
                 queue[i] # "code" => channel = "closed" /\ i = Len(queue)
<1>1. CASE queue = <<>> /\ channel \in {"nil", "open", "closed"}
  BY <1>1
<1>2. CASE queue = <<"code">> /\ channel = "open"
  BY <1>2
<1>3. ASSUME NEW e \in LastEvent, queue = <<e>>, channel = "closed"
      PROVE  /\ queue \in Seq({"code"} \cup LastEvent) /\ Len(queue) <= 2
             /\ \A i \in 1..Len(queue) : i = Len(queue)
  BY <1>3
<1>4. ASSUME NEW e \in LastEvent, queue = <<"code", e>>, channel = "closed"
      PROVE  /\ queue \in Seq({"code"} \cup LastEvent) /\ Len(queue) <= 2
             /\ \A i \in 1..Len(queue) : queue[i] # "code" => i = Len(queue)
  <2>1. Len(queue) = 2 /\ queue[1] = "code"
    BY <1>4
  <2>2. \A i \in 1..2 : i # 1 => i = 2
    OBVIOUS
  <2> QED
    BY <1>4, <2>1, <2>2
<1> QED
  BY <1>1, <1>2, <1>3, <1>4 DEF Shape

\* The queue's end is read off, or an event is added to it.
LEMMA ReadingShape ==
    ASSUME Shape, NEW events, Reading(events), channel' = channel
    PROVE  /\ Shape'
           /\ Head(queue) # "code" => channel = "closed" /\ queue' = <<>>
           /\ queue' \notin {<<"success">>, <<"code", "success">>}
                 \/ queue \in {<<"success">>, <<"code", "success">>}
<1>1. queue # <<>> /\ queue' = Tail(queue)
  BY DEF Reading
<1>2. CASE queue = <<"code">>
  BY <1>1, <1>2, OneEvent DEF Shape
<1>3. ASSUME NEW e \in LastEvent, queue = <<e>>, channel = "closed"
      PROVE  queue' = <<>>
  BY <1>1, <1>3, OneEvent
<1>4. ASSUME NEW e \in LastEvent, queue = <<"code", e>>, channel = "closed"
      PROVE  queue' = <<e>> /\ Head(queue) = "code"
  BY <1>1, <1>4, TwoEvents
<1>5. <<>> \notin {<<"success">>, <<"code", "success">>}
  OBVIOUS
<1>6. \A e : <<e>> = <<"success">> => e = "success"
  BY OneEvent
<1>7. \A e : <<e>> # <<"code", "success">>
  OBVIOUS
<1>8. CASE \E e \in LastEvent : queue = <<e>> /\ channel = "closed"
  BY <1>3, <1>5, <1>8 DEF Shape
<1>9. CASE \E e \in LastEvent : queue = <<"code", e>> /\ channel = "closed"
  BY <1>4, <1>6, <1>7, <1>9 DEF Shape
<1> QED
  BY <1>1, <1>2, <1>8, <1>9 DEF Shape

LEMMA FinishShape ==
    ASSUME Shape, NEW e \in LastEvent, Finish(e)
    PROVE  /\ Shape'
           /\ channel # "open" => UNCHANGED qrChannel
           /\ channel = "open" =>
                 channel' = "closed" /\ queue' \in {<<e>>, <<"code", e>>}
<1>1. CASE channel = "open"
  <2>1. channel' = "closed" /\ queue' = Append(queue, e)
    BY <1>1 DEF Finish
  <2>2. queue' \in {<<e>>, <<"code", e>>}
    <3>1. queue = <<>> \/ queue = <<"code">>
      BY <1>1 DEF Shape
    <3>2. CASE queue = <<>>
      BY <2>1, <3>2, OneEvent
    <3>3. CASE queue = <<"code">>
      BY <2>1, <3>3, TwoEvents
    <3> QED
      BY <3>1, <3>2, <3>3
  <2> QED
    BY <1>1, <2>1, <2>2 DEF Shape
<1>2. CASE channel # "open"
  BY <1>2 DEF Finish, Shape, qrChannel
<1> QED
  BY <1>1, <1>2

LEMMA TypedStays ==
    ASSUME Typed, [Next]_vars
    PROVE  Typed'
<1> USE BoundAssumption
<1>1. CASE FindConnected \/ FindDisconnected \/ CheckID \/ OpenChannel \/ BackOff
  BY <1>1 DEF Typed, FindConnected, FindDisconnected, CheckID, OpenChannel,
     BackOff, session, counts
<1>2. CASE DialForQR \/ DialForQRFails \/ Connect \/ ConnectAgain
  BY <1>2 DEF Typed, DialForQR, DialForQRFails, Connect, ConnectAgain, ConnectOk,
     ConnectFails, session, counts
<1>3. CASE ShowCode \/ LogIn \/ GiveUp
  BY <1>3 DEF Typed, ShowCode, LogIn, GiveUp, Disconnect, Old, session, counts
<1>4. CASE Authenticate \/ EmitCode \/ CodesRunOut \/ Scan \/ EndPairing \/ Reconnect
  BY <1>4 DEF Typed, Authenticate, EmitCode, CodesRunOut, Scan, EndPairing,
     Reconnect, ConnectOk, Old, start, session, counts
<1>5. CASE PairError \/ Drop \/ Restart
  <2>1. faults' \in 0..MaxFaults /\ logouts' = logouts
    BY <1>5 DEF Typed, PairError, Drop, Restart
  <2>2. /\ pc' \in {pc, "top"} /\ qrCode' \in {"none", "valid", "old"}
        /\ paired' = paired /\ link' \in {link, "down"}
        /\ auto' \in {auto, paired, FALSE}
    BY <1>5 DEF Typed, PairError, Drop, Restart, Old, session
  <2> QED
    BY <2>1, <2>2 DEF Typed
<1>7. CASE Logout
  <2>1. faults' \in 0..MaxFaults /\ logouts' \in 0..MaxLogouts
    BY <1>7 DEF Typed, Logout
  <2>2. /\ UNCHANGED <<pc, qrCode>> /\ paired' = FALSE /\ auto' = FALSE
        /\ link' = "down"
    BY <1>7 DEF Logout, start
  <2> QED
    BY <2>1, <2>2 DEF Typed
<1>6. CASE UNCHANGED vars
  BY <1>6 DEF Typed, vars, start, session, counts
<1> QED
  BY <1>1, <1>2, <1>3, <1>4, <1>5, <1>6, <1>7
  DEF Next, Start, Environment, Surroundings

LEMMA StartWired ==
    ASSUME Typed, Shape, Wired, Start
    PROVE  Shape' /\ Wired'
<1>1. CASE FindConnected \/ FindDisconnected \/ CheckID \/ BackOff
  BY <1>1 DEF FindConnected, FindDisconnected, CheckID, BackOff, Typed, Shape,
     Wired, IsConnected, qrChannel, session, counts
<1>2. CASE OpenChannel
  BY <1>2 DEF OpenChannel, Typed, Shape, Wired, IsConnected, session
<1>3. CASE DialForQR
  <2>1. /\ pc = "dial" /\ pc' = "events" /\ link' = "up" /\ auto' = FALSE
        /\ UNCHANGED <<paired, channel, queue>>
    BY <1>3 DEF DialForQR, ConnectOk, qrChannel
  <2>2. queue = <<>> /\ channel = "open" /\ ~paired
    BY <2>1 DEF Wired
  <2>3. <<>> \notin {<<"success">>, <<"code", "success">>}
    OBVIOUS
  <2> QED
    BY <2>1, <2>2, <2>3 DEF Shape, Wired
<1>8. CASE DialForQRFails
  BY <1>8 DEF DialForQRFails, ConnectFails, Shape, Wired, qrChannel, session
<1>4. CASE ShowCode
  <2>1. /\ Reading({"code"}) /\ pc = "events"
        /\ UNCHANGED <<pc, channel, paired, link, auto>>
    BY <1>4 DEF ShowCode, Reading, session
  <2> QED
    BY <2>1, ReadingShape DEF Wired
<1>5. CASE LogIn
  <2>1. /\ Reading({"success"}) /\ pc = "events" /\ pc' = "top"
        /\ Head(queue) = "success"
        /\ UNCHANGED <<channel, paired, link, auto>>
    BY <1>5 DEF LogIn, Reading, session
  <2>2. Shape' /\ channel = "closed"
    BY <2>1, ReadingShape
  <2>3. queue \in {<<"success">>, <<"code", "success">>}
    BY <2>1, OneEvent, TwoEvents DEF Shape, Reading
  <2>4. ~paired => link = "down"
    BY <2>1, <2>3 DEF Wired, Typed
  <2> QED
    BY <2>1, <2>2, <2>4 DEF Wired
<1>6. CASE GiveUp
  <2>1. /\ Reading({"timeout", "error"}) /\ pc = "events" /\ pc' = "top"
        /\ Head(queue) # "code"
        /\ UNCHANGED <<channel, paired>> /\ link' = "down" /\ auto' = FALSE
    BY <1>6 DEF GiveUp, Reading, Disconnect
  <2>2. Shape' /\ channel = "closed"
    BY <2>1, ReadingShape
  <2> QED
    BY <2>1, <2>2 DEF Wired
<1>7. CASE Connect \/ ConnectAgain
  BY <1>7 DEF Connect, ConnectAgain, ConnectOk, ConnectFails, Typed, Shape, Wired,
     qrChannel, session
<1> QED
  BY <1>1, <1>2, <1>3, <1>4, <1>5, <1>6, <1>7, <1>8 DEF Start

LEMMA OthersWired ==
    ASSUME Typed, Shape, Wired, Environment
    PROVE  Shape' /\ Wired'
<1>1. CASE Authenticate \/ EndPairing
  BY <1>1 DEF Authenticate, EndPairing, Typed, Shape, Wired, start, qrChannel
<1>2. ASSUME Pairing PROVE pc = "events" /\ ~paired /\ channel = "open"
  BY <1>2 DEF Pairing, Wired
<1>3. CASE EmitCode
  <2>1. queue' = <<"code">> /\ pc = "events" /\ ~paired /\ channel = "open"
    BY <1>2, <1>3, OneEvent DEF EmitCode
  <2>2. UNCHANGED <<pc, channel, paired, link, auto>>
    BY <1>3 DEF EmitCode, session
  <2>3. <<"code">> \notin {<<"success">>, <<"code", "success">>}
    BY OneEvent
  <2> QED
    BY <2>1, <2>2, <2>3 DEF Shape, Wired
<1>4. CASE CodesRunOut
  <2>1. Pairing /\ Finish("timeout") /\ UNCHANGED <<pc, paired, auto>> /\ link' = "down"
    BY <1>4 DEF CodesRunOut
  <2> QED
    BY <1>2, <2>1, FinishShape DEF Wired, LastEvent
<1>5. CASE Scan
  <2>1. /\ Pairing /\ Finish("success") /\ UNCHANGED <<pc, auto>>
        /\ paired' = TRUE /\ link' = "new"
    BY <1>5 DEF Scan
  <2> QED
    BY <1>2, <2>1, FinishShape DEF Wired, LastEvent
<1>6. CASE PairError
  <2>1. Pairing /\ Finish("error") /\ UNCHANGED <<pc, paired, auto, link>>
    BY <1>6 DEF PairError, session
  <2>2. /\ Shape' /\ channel' = "closed" /\ pc = "events" /\ ~paired
        /\ queue' \in {<<"error">>, <<"code", "error">>}
    BY <1>2, <2>1, FinishShape DEF LastEvent
  <2>3. queue' \notin {<<"success">>, <<"code", "success">>}
    BY <2>2
  <2> QED
    BY <2>1, <2>2, <2>3 DEF Wired
<1>7. CASE Drop
  <2>1. /\ Finish("timeout") /\ UNCHANGED <<pc, paired>> /\ auto' = paired
        /\ link' = "down" /\ link # "down"
    BY <1>7 DEF Drop, IsConnected
  <2>2. pc # "dial"
    BY <2>1 DEF Wired
  <2>3. Shape' /\ channel' # "open" /\ (channel # "nil" => channel' # "nil")
    BY <2>1, FinishShape DEF LastEvent, qrChannel
  <2> QED
    BY <2>1, <2>2, <2>3 DEF Wired
<1>8. CASE Reconnect \/ Logout
  BY <1>8 DEF Reconnect, ConnectOk, Logout, Typed, Shape, Wired, start, qrChannel
<1>9. CASE Restart
  BY <1>9 DEF Restart, Shape, Wired
<1> QED
  BY <1>1, <1>3, <1>4, <1>5, <1>6, <1>7, <1>8, <1>9 DEF Environment, Surroundings

\* The types, after any number of faults and logouts; the last event of a channel
\* closes it, and Start never reads from the nil channel that a refused
\* GetQRChannel returns.
THEOREM TypeCorrect == Spec => []TypeOK
<1>1. Typed /\ Shape /\ Wired => TypeOK
  BY ShapeTyped DEF Typed, Wired, TypeOK
<1>2. Typed /\ Shape /\ Wired /\ [Next]_vars => (Typed /\ Shape /\ Wired)'
  <2>1. Shape /\ Wired /\ UNCHANGED vars => Shape' /\ Wired'
    BY DEF Shape, Wired, vars, start, qrChannel, session
  <2> QED
    BY <2>1, TypedStays, StartWired, OthersWired DEF Next
<1> QED
  BY <1>1, <1>2, WiredStarts, PTL DEF Spec
-----------------------------------------------------------------------------
\* An open channel that is read has its connection.
Served ==
    logouts = 0 =>
        /\ pc = "events" /\ channel = "open" => link = "up"
        /\ pc = "wait" => link # "down" \/ auto

LEMMA ServedStays ==
    ASSUME Steady, Served, [Next]_vars, logouts' = 0
    PROVE  Served'
<1>1. CASE FindConnected \/ FindDisconnected \/ CheckID \/ OpenChannel \/ BackOff
  BY <1>1 DEF FindConnected, FindDisconnected, CheckID, OpenChannel, BackOff,
     IsConnected, session, Served
<1>2. CASE DialForQR \/ DialForQRFails \/ Connect \/ ConnectAgain
  BY <1>2 DEF DialForQR, DialForQRFails, Connect, ConnectAgain, ConnectOk, Served
<1>3. CASE ShowCode \/ LogIn \/ GiveUp
  BY <1>3 DEF ShowCode, LogIn, GiveUp, Reading, session, counts, Served
<1>4. CASE Authenticate \/ EmitCode \/ EndPairing
  BY <1>4 DEF Authenticate, EmitCode, EndPairing, Steady, ReadingOK, start,
     qrChannel, session, counts, Served
<1>5. ASSUME NEW e, Finish(e) PROVE channel' # "open"
  BY <1>5 DEF Finish, qrChannel
<1>6. CASE CodesRunOut \/ Scan \/ PairError
  <2>1. Pairing /\ pc' = pc /\ logouts = 0
    BY <1>6 DEF CodesRunOut, Scan, PairError, counts
  <2>2. channel' # "open"
    BY <1>5, <1>6 DEF CodesRunOut, Scan, PairError
  <2>3. pc = "events"
    BY <2>1, PairingWhileReading
  <2> QED
    BY <2>1, <2>2, <2>3 DEF Served
<1>7. CASE Drop
  <2>1. channel' # "open"
    BY <1>5, <1>7 DEF Drop
  <2>2. pc' = "wait" => auto'
    BY <1>7 DEF Drop, Steady, ElsewhereOK, IsConnected
  <2> QED
    BY <2>1, <2>2 DEF Served
<1>8. CASE Reconnect
  BY <1>8 DEF Reconnect, ConnectOk, Served
<1>9. CASE Logout
  BY <1>9 DEF Logout, Steady
<1>10. CASE Restart
  BY <1>10 DEF Restart, Served
<1>11. CASE UNCHANGED vars
  BY <1>11 DEF vars, start, qrChannel, session, counts, Served
<1> QED
  BY <1>1, <1>2, <1>3, <1>4, <1>6, <1>7, <1>8, <1>9, <1>10, <1>11
  DEF Next, Start, Environment, Surroundings

\* Until a logout, Start never waits in vain: it reads the channel only while an
\* event is in it or the connection it dialled can still bring one, and it rests
\* only on a connection or on whatsmeow's reconnection.  (The safety half of
\* NeverStuck.)
THEOREM StartNeverWaitsInVain == Spec => []NeverInVain
<1>1. Init => Served
  BY DEF Init, Served
<1>2. Steady /\ Served => NeverInVain
  BY DEF Steady, Served, NeverInVain, ReadingOK, Pairing, IsConnected
<1>3. Steady /\ Served /\ [Next]_vars => Served'
  <2>1. CASE logouts' = 0
    BY <2>1, ServedStays
  <2>2. CASE logouts' # 0
    BY <2>2 DEF Served
  <2> QED
    BY <2>1, <2>2
<1> QED
  BY <1>1, <1>2, <1>3, SteadyStarts, SteadyStays, PTL DEF Spec
-----------------------------------------------------------------------------
(* The card in the browser *)

\* A step of the browser leaves the client alone, and every other step of the two
\* is one of the client.
LEMMA PageStepIsClientStep ==
    ASSUME [PageNext]_pageVars
    PROVE  [Next]_vars
<1>1. CASE Open \/ Browsing
  BY <1>1
  DEF Open, Browsing, ReadLoggedIn, ReadQRCode, FetchImage, Poll
<1>2. CASE Beside(Start) \/ Beside(Surroundings) \/ RestartProcess
  BY <1>2 DEF Beside, RestartProcess, Next, Environment
<1>3. CASE UNCHANGED pageVars
  BY <1>3 DEF pageVars
<1> QED
  BY <1>1, <1>2, <1>3 DEF PageNext

\* Pages only read: whatever is opened, polled and drawn, the client beside them
\* behaves as it does alone, so what is proved of Spec holds of PageSpec.
THEOREM PagesOnlyRead == PageSpec => Spec
<1>1. PageInit => Init
  BY DEF PageInit
<1>2. [PageNext]_pageVars => [Next]_vars
  BY PageStepIsClientStep
<1> QED
  BY <1>1, <1>2, PTL DEF PageSpec, Spec
=============================================================================
