--------------------------- MODULE ModelCall_proofs ---------------------------
(* Proofs about ModelCall, for any clients and any limit on their number.    *)
EXTENDS ModelCall, TLAPS

(* Nothing has happened yet. *)
Fresh ==
  /\ ~broker.closing /\ ~broker.faults
  /\ \A c \in Clients : conns[c] = NewConn /\ session.events[c] = None

(* An invocation has one session, and whatever the broker does happens while *)
(* it is open.                                                               *)
OneSession ==
  /\ call.at \in InProgress => session.state = "OPEN"
  /\ session.state = "NONE" => call.at \in {"idle", "answered"} /\ Fresh
  /\ call.at = "opened" => Fresh
  /\ call.answer = "RECORDED" => call.at = "answered"

(* What the record says of a connection that has been decided. *)
Decided(c) ==
  LET event == session.events[c]
  IN /\ conns[c].asked # None => event # None
     /\ conns[c].upstream # "none" <=> event = "CONNECTED"
     /\ conns[c].asked \in {"OTHER", "PART"} => event = "DENIED"

(* The record of a connection is true of it, or a fault is known. *)
Told(c) ==
  /\ conns[c].task \in {"none", "head", "dial"} =>
       session.events[c] = None /\ conns[c].upstream = "none"
  /\ conns[c].task = "none" => conns[c].asked = None
  /\ conns[c].task = "head" => conns[c].asked \in {None, "PART"}
  /\ conns[c].task = "dial" => conns[c].asked = "ALLOWED"
  /\ conns[c].task = "done" => broker.faults \/ Decided(c)

ToldWhileUp ==
  call.at \in InProgress \/ call.answer = "RECORDED" => \A c \in Clients : Told(c)

NothingInFlight == call.answer = "RECORDED" => ~broker.faults /\ Pending = {}

(* No dial is under way after the call unless the broker knows it closes. *)
NoLateDial ==
  /\ call.at \in {"draining", "dropping"} => broker.closing
  /\ call.at \notin Serving => broker.closing \/ Pending = {}

CallInv ==
  /\ TypeOK /\ OneSession /\ ToldWhileUp /\ NothingInFlight /\ NoLateDial
  /\ NoTunnelOutlivesCall

-----------------------------------------------------------------------------
(* What one connection's step may do *)

(* A decision recorded changes the event of its connection only, and a write *)
(* that fails is a fault.                                                    *)
LEMMA RecordsFacts ==
  ASSUME TypeOK, NEW c \in Clients, NEW result \in Results, NEW ok \in BOOLEAN,
         Records(c, result, ok)
  PROVE  /\ session' \in Session /\ session'.state = session.state
         /\ \A d \in Clients \ {c} : session'.events[d] = session.events[d]
         /\ ok => session'.events[c] = result
         /\ broker' \in [closing: BOOLEAN, faults: BOOLEAN]
         /\ broker'.closing = broker.closing
         /\ broker'.faults = (broker.faults \/ ~ok)
<1>1. broker' = [broker EXCEPT !.faults = broker.faults \/ ~ok]
  BY DEF Records
<1>2. /\ broker' \in [closing: BOOLEAN, faults: BOOLEAN]
      /\ broker'.closing = broker.closing
      /\ broker'.faults = (broker.faults \/ ~ok)
  BY <1>1 DEF TypeOK
<1>3. session' \in {session, [session EXCEPT !.events[c] = result]}
  BY DEF Records, Writes
<1>4. ok => session' = [session EXCEPT !.events[c] = result]
  BY DEF Records, Writes
<1>5. [session EXCEPT !.events[c] = result] \in Session
  BY DEF TypeOK, Session
<1> QED
  BY <1>2, <1>3, <1>4, <1>5 DEF TypeOK, Session

(* A refusal ends the handshake with its evidence written, or with a fault.  *)
Ends(c, results) ==
  \E ok \in BOOLEAN, result \in results :
    /\ ok => session'.events[c] = result
    /\ broker'.faults = (broker.faults \/ ~ok)

ConnFrame(c) ==
  /\ UNCHANGED <<call, cli>>
  /\ session' \in Session /\ session'.state = session.state
  /\ broker' \in [closing: BOOLEAN, faults: BOOLEAN]
  /\ broker'.closing = broker.closing
  /\ broker.faults => broker'.faults
  /\ conns' \in [Clients -> Conn]
  /\ \A d \in Clients \ {c} : conns'[d] = conns[d] /\ session'.events[d] = session.events[d]

LEMMA RefusesFacts ==
  ASSUME TypeOK, NEW c \in Clients, NEW result \in Results, NEW conn \in Conn,
         Refuses(c, conn, result)
  PROVE  /\ ConnFrame(c)
         /\ conns'[c].task = "done" /\ conns'[c].upstream = conn.upstream
         /\ conns'[c].asked = conn.asked
         /\ Ends(c, {result})
<1>1. PICK ok \in BOOLEAN :
        /\ Records(c, result, ok)
        /\ Becomes(c, [conn EXCEPT !.task = "done",
                                   !.client = IF ok THEN conn.client ELSE "gone"])
  BY DEF Refuses
<1>2. PICK new \in Conn :
        /\ new = [conn EXCEPT !.task = "done", !.client = IF ok THEN conn.client ELSE "gone"]
        /\ new.task = "done" /\ new.upstream = conn.upstream /\ new.asked = conn.asked
  <2>1. CASE ok
    <3>1. [conn EXCEPT !.task = "done", !.client = conn.client] \in Conn
      BY DEF Conn
    <3> QED
      BY <2>1, <3>1 DEF Conn
  <2>2. CASE ~ok
    <3>1. [conn EXCEPT !.task = "done", !.client = "gone"] \in Conn
      BY DEF Conn
    <3> QED
      BY <2>2, <3>1 DEF Conn
  <2> QED
    BY <2>1, <2>2
<1>3. conns' = [conns EXCEPT ![c] = new]
  BY <1>1, <1>2 DEF Becomes
<1>4. /\ conns' \in [Clients -> Conn] /\ conns'[c] = new
      /\ \A d \in Clients \ {c} : conns'[d] = conns[d]
  BY <1>3 DEF TypeOK
<1>5. UNCHANGED <<call, cli>>
  BY DEF Refuses
<1>6. /\ session' \in Session /\ session'.state = session.state
      /\ \A d \in Clients \ {c} : session'.events[d] = session.events[d]
      /\ ok => session'.events[c] = result
      /\ broker' \in [closing: BOOLEAN, faults: BOOLEAN]
      /\ broker'.closing = broker.closing
      /\ broker'.faults = (broker.faults \/ ~ok)
  BY <1>1, RecordsFacts
<1>7. Ends(c, {result})
  BY <1>6 DEF Ends
<1> QED
  BY <1>2, <1>4, <1>5, <1>6, <1>7 DEF ConnFrame

(* Nothing is recorded: only the connection changes. *)
LEMMA BecomesFacts ==
  ASSUME TypeOK, NEW c \in Clients, NEW conn \in Conn, Becomes(c, conn),
         UNCHANGED <<call, session, broker, cli>>
  PROVE  ConnFrame(c) /\ conns'[c] = conn /\ session' = session /\ broker' = broker
  BY DEF ConnFrame, TypeOK, Becomes

(* What any step of a connection needs, and all it can start or open. *)
Moves(c) ==
  /\ call.at \in Serving \/ conns[c].task \in {"head", "dial"} \/ conns[c].client = "open"
  /\ conns'[c].task \in {"head", "dial"} => call.at \in Serving \/ conns[c].task \in {"head", "dial"}
  /\ broker'.faults => broker.faults \/ call.at \in Serving \/ conns[c].task \in {"head", "dial"}
  /\ conns'[c].upstream = "open" =>
       conns[c].upstream = "open" \/ (conns[c].task = "dial" /\ ~broker.closing)

LEMMA TypedConn ==
  ASSUME TypeOK, NEW c \in Clients, NEW conn, conn = conns[c]
  PROVE  /\ conn \in Conn
         /\ [conn EXCEPT !.asked = "PART"] \in Conn
         /\ [conn EXCEPT !.asked = "ALLOWED"] \in Conn
         /\ [conn EXCEPT !.asked = "OTHER"] \in Conn
  BY DEF TypeOK, Conn, Requests

(* A handshake that ends with a denial: nothing was dialled, or nothing      *)
(* answered, and what was asked is on record or a fault is.                  *)
LEMMA EndStep ==
  ASSUME TypeOK, NEW c \in Clients, NEW conn \in Conn, NEW result \in Results \ {"CONNECTED"},
         Refuses(c, conn, result),
         conn.upstream = "open" => conns[c].upstream = "open",
         call.at \in Serving \/ conns[c].task \in {"head", "dial"},
         Told(c) => conn.upstream = "none",
         conn.asked \in {"OTHER", "PART"} => result = "DENIED" \/ ~Told(c)
  PROVE  ConnFrame(c) /\ Moves(c) /\ (Told(c) => Told(c)')
<1>1. /\ ConnFrame(c)
      /\ conns'[c].task = "done" /\ conns'[c].upstream = conn.upstream
      /\ conns'[c].asked = conn.asked
      /\ Ends(c, {result})
  BY RefusesFacts
<1>2. Moves(c)
  BY <1>1 DEF Moves
<1>3. ASSUME Told(c) PROVE Told(c)'
  <2>1. CASE broker'.faults
    BY <1>1, <2>1 DEF Told
  <2>2. CASE ~broker'.faults
    <3>1. session'.events[c] = result
      BY <1>1, <2>2 DEF Ends
    <3>2. result # None
      BY ModelCallAssumption
    <3>3. Decided(c)'
      BY <1>1, <1>3, <3>1, <3>2 DEF Decided
    <3> QED
      BY <1>1, <3>3 DEF Told
  <2> QED
    BY <2>1, <2>2
<1> QED
  BY <1>1, <1>2, <1>3

(* A step that records nothing. *)
LEMMA QuietStep ==
  ASSUME TypeOK, NEW c \in Clients, NEW conn \in Conn, Becomes(c, conn),
         UNCHANGED <<call, session, broker, cli>>,
         conn.upstream = "open" => conns[c].upstream = "open",
         call.at \in Serving \/ conns[c].task \in {"head", "dial"} \/ conns[c].client = "open",
         conn.task \in {"head", "dial"} => call.at \in Serving \/ conns[c].task \in {"head", "dial"},
         Told(c) =>
           /\ conn.upstream # "none" <=> conns[c].upstream # "none"
           /\ \/ conn.task = conns[c].task /\ conn.asked = conns[c].asked
              \/ conn.task = "head" /\ conns[c].task \in {"none", "head"} /\ conn.asked \in {None, "PART"}
              \/ conn.task = "dial" /\ conns[c].task = "head" /\ conn.asked = "ALLOWED"
              \/ conn.task = "done" /\ conns[c].task = "head" /\ conn.asked = None
  PROVE  ConnFrame(c) /\ Moves(c) /\ (Told(c) => Told(c)')
<1>1. ConnFrame(c) /\ conns'[c] = conn /\ session' = session /\ broker' = broker
  BY BecomesFacts
<1>2. Moves(c)
  BY <1>1 DEF Moves
<1>3. ASSUME Told(c) PROVE Told(c)'
  <2>1. None # "CONNECTED" /\ None \notin Requests
    BY ModelCallAssumption DEF Results
  <2>2. /\ conns[c] \in Conn
        /\ session' = session /\ broker' = broker /\ conns'[c] = conn
    BY <1>1 DEF TypeOK
  <2> QED
    BY <1>3, <2>1, <2>2 DEF Told, Decided, Conn, Requests
<1> QED
  BY <1>1, <1>2, <1>3

(* Losing one end closes what was open of the other, and nothing else. *)
LEMMA LostConn ==
  ASSUME NEW conn \in Conn
  PROVE  /\ Lost(conn) \in Conn
         /\ Lost(conn).task = conn.task /\ Lost(conn).asked = conn.asked
         /\ Lost(conn).upstream # "open" /\ Lost(conn).client # "open"
         /\ Lost(conn).upstream = "none" <=> conn.upstream = "none"
<1>1. PICK client \in {"none", "gone"} :
        client = IF conn.client = "open" THEN "gone" ELSE conn.client
  BY DEF Conn
<1>2. PICK upstream \in {"none", "gone"} :
        /\ upstream = IF conn.upstream = "open" THEN "gone" ELSE conn.upstream
        /\ upstream = "none" <=> conn.upstream = "none"
  BY DEF Conn
<1>3. Lost(conn) = [conn EXCEPT !.client = client, !.upstream = upstream]
  BY <1>1, <1>2 DEF Lost, Conn
<1> QED
  BY <1>2, <1>3 DEF Conn

LEMMA DialledStep ==
  ASSUME TypeOK, NEW c \in Clients, Dialled(c)
  PROVE  ConnFrame(c) /\ Moves(c) /\ (Told(c) => Told(c)')
<1>1. PICK conn \in Conn : conn = conns[c]
  BY DEF TypeOK
<1>2. PICK ok \in BOOLEAN :
        /\ Records(c, "CONNECTED", ok)
        /\ Becomes(c, IF ok /\ MayTunnel(c)
                      THEN [conn EXCEPT !.task = "done", !.upstream = "open"]
                      ELSE [conn EXCEPT !.task = "done", !.upstream = "gone", !.client = "gone"])
  BY <1>1 DEF Dialled
<1>3. UNCHANGED <<call, cli>> /\ conn.task = "dial"
  BY <1>1 DEF Dialled
<1>4. /\ session' \in Session /\ session'.state = session.state
      /\ \A d \in Clients \ {c} : session'.events[d] = session.events[d]
      /\ ok => session'.events[c] = "CONNECTED"
      /\ broker' \in [closing: BOOLEAN, faults: BOOLEAN]
      /\ broker'.closing = broker.closing
      /\ broker'.faults = (broker.faults \/ ~ok)
  BY <1>2, RecordsFacts DEF Results
<1>5. PICK new \in Conn :
        /\ conns' = [conns EXCEPT ![c] = new]
        /\ new.task = "done" /\ new.upstream \in {"open", "gone"} /\ new.asked = conn.asked
        /\ new.upstream = "open" => MayTunnel(c)
  <2>1. CASE ok /\ MayTunnel(c)
    <3>1. [conn EXCEPT !.task = "done", !.upstream = "open"] \in Conn
      BY DEF Conn
    <3> QED
      BY <1>2, <2>1, <3>1 DEF Becomes, Conn
  <2>2. CASE ~(ok /\ MayTunnel(c))
    <3>1. [conn EXCEPT !.task = "done", !.upstream = "gone", !.client = "gone"] \in Conn
      BY DEF Conn
    <3> QED
      BY <1>2, <2>2, <3>1 DEF Becomes, Conn
  <2> QED
    BY <2>1, <2>2
<1>6. /\ conns' \in [Clients -> Conn] /\ conns'[c] = new
      /\ \A d \in Clients \ {c} : conns'[d] = conns[d]
  BY <1>5 DEF TypeOK
<1>7. ConnFrame(c)
  BY <1>3, <1>4, <1>6 DEF ConnFrame
<1>8. Moves(c)
  BY <1>1, <1>3, <1>5, <1>6 DEF Moves, MayTunnel
<1>9. ASSUME Told(c) PROVE Told(c)'
  <2>1. CASE broker'.faults
    BY <1>5, <1>6, <2>1 DEF Told
  <2>2. CASE ~broker'.faults
    <3>1. session'.events[c] = "CONNECTED"
      BY <1>4, <2>2
    <3>2. new.asked = "ALLOWED"
      BY <1>1, <1>3, <1>5, <1>9 DEF Told
    <3>3. Decided(c)'
      BY <1>5, <1>6, <3>1, <3>2, ModelCallAssumption DEF Decided, Results
    <3> QED
      BY <1>5, <1>6, <3>3 DEF Told
  <2> QED
    BY <2>1, <2>2
<1> QED
  BY <1>7, <1>8, <1>9

(* One step per callback of a connection. *)
LEMMA ConnSteps ==
  ASSUME TypeOK, NEW c \in Clients, ConnStep(c)
  PROVE  ConnFrame(c) /\ Moves(c) /\ (Told(c) => Told(c)')
<1> PICK conn : conn = conns[c]
  OBVIOUS
<1>0. /\ conn \in Conn
      /\ [conn EXCEPT !.asked = "PART"] \in Conn
      /\ [conn EXCEPT !.asked = "ALLOWED"] \in Conn
      /\ [conn EXCEPT !.asked = "OTHER"] \in Conn
  BY TypedConn
<1>1. CASE Accept(c)
  <2>1. PICK new \in Conn : new = [NewConn EXCEPT !.task = "head", !.client = "open"]
    BY DEF Conn, NewConn
  <2>2. new.task = "head" /\ new.upstream = "none" /\ new.asked = None
    BY <2>1 DEF NewConn
  <2>3. Becomes(c, new) /\ UNCHANGED <<call, session, broker, cli>>
    BY <1>1, <2>1 DEF Accept
  <2>4. call.at \in Serving /\ conn.task = "none"
    BY <1>1 DEF Accept
  <2>5. Told(c) => conn.upstream = "none"
    BY <2>4 DEF Told
  <2> QED
    BY <2>2, <2>3, <2>4, <2>5, QuietStep
<1>2. CASE OverLimit(c)
  <2>1. PICK new \in Conn : new = [NewConn EXCEPT !.client = "gone"]
    BY DEF Conn, NewConn
  <2>2. new.upstream = "none" /\ new.asked = None
    BY <2>1 DEF NewConn
  <2>3. Refuses(c, new, "DENIED") /\ call.at \in Serving /\ conn.task = "none"
    BY <1>2, <2>1 DEF OverLimit
  <2> QED
    BY <2>2, <2>3, EndStep DEF Results
<1>3. CASE SendsPart(c)
  <2>1. PICK new \in Conn : new = [conn EXCEPT !.asked = "PART"]
    BY <1>0
  <2>2. /\ new.asked = "PART" /\ new.task = conn.task
        /\ new.upstream = conn.upstream
    BY <1>0, <2>1 DEF Conn
  <2>3. Becomes(c, new) /\ UNCHANGED <<call, session, broker, cli>> /\ conn.task = "head"
    BY <1>3, <2>1 DEF SendsPart, Reading
  <2> QED
    BY <2>2, <2>3, QuietStep
<1>4. CASE Asks(c)
  <2>1. PICK new \in Conn : new = [conn EXCEPT !.asked = "ALLOWED"]
    BY <1>0
  <2>2. /\ new.asked = "ALLOWED" /\ new.task = conn.task
        /\ new.upstream = conn.upstream
    BY <1>0, <2>1 DEF Conn
  <2>3. conn.task = "head"
    BY <1>4 DEF Asks, Reading
  <2>4. CASE broker.closing
    <3>1. Refuses(c, new, "DENIED")
      BY <1>4, <2>1, <2>4 DEF Asks
    <3>2. Told(c) => new.upstream = "none"
      BY <2>2, <2>3 DEF Told
    <3> QED
      BY <2>2, <2>3, <3>1, <3>2, EndStep DEF Results
  <2>5. CASE ~broker.closing
    <3>1. PICK dial \in Conn : dial = [new EXCEPT !.task = "dial"]
      BY DEF Conn
    <3>2. dial.task = "dial" /\ dial.asked = "ALLOWED" /\ dial.upstream = conn.upstream
      BY <2>2, <3>1 DEF Conn
    <3>3. Becomes(c, dial) /\ UNCHANGED <<call, session, broker, cli>>
      BY <1>4, <2>1, <2>5, <3>1 DEF Asks
    <3> QED
      BY <2>3, <3>2, <3>3, QuietStep
  <2> QED
    BY <2>4, <2>5
<1>5. CASE AsksElse(c)
  <2>1. PICK new \in Conn : new = [conn EXCEPT !.asked = "OTHER"]
    BY <1>0
  <2>2. new.asked = "OTHER" /\ new.upstream = conn.upstream
    BY <1>0, <2>1 DEF Conn
  <2>3. Refuses(c, new, "DENIED") /\ conn.task = "head"
    BY <1>5, <2>1 DEF AsksElse, Reading
  <2>4. Told(c) => new.upstream = "none"
    BY <2>2, <2>3 DEF Told
  <2> QED
    BY <2>2, <2>3, <2>4, EndStep DEF Results
<1>6. CASE HandshakeTimeout(c)
  <2>1. Refuses(c, conn, "DENIED") /\ conn.task = "head"
    BY <1>6 DEF HandshakeTimeout, Reading
  <2>2. Told(c) => conn.upstream = "none"
    BY <2>1 DEF Told
  <2> QED
    BY <1>0, <2>1, <2>2, EndStep DEF Results
<1>7. CASE HeadEnds(c)
  <2>1. conn.task = "head"
    BY <1>7 DEF HeadEnds, Reading
  <2>2. CASE conn.asked = None
    <3>0. [conn EXCEPT !.task = "done"] \in Conn
      BY <1>0 DEF Conn
    <3>1. PICK new \in Conn : new = [conn EXCEPT !.task = "done"]
      BY <3>0
    <3>2. new.task = "done" /\ new.asked = None /\ new.upstream = conn.upstream
      BY <1>0, <2>2, <3>1 DEF Conn
    <3>3. Becomes(c, new) /\ UNCHANGED <<call, session, broker, cli>>
      BY <1>7, <2>2, <3>1 DEF HeadEnds
    <3> QED
      BY <2>1, <3>2, <3>3, QuietStep
  <2>3. CASE conn.asked # None
    <3>1. Refuses(c, conn, "DENIED")
      BY <1>7, <2>3 DEF HeadEnds
    <3>2. Told(c) => conn.upstream = "none"
      BY <2>1 DEF Told
    <3> QED
      BY <1>0, <2>1, <3>1, <3>2, EndStep DEF Results
  <2> QED
    BY <2>2, <2>3
<1>8. CASE DialFails(c)
  <2>1. PICK result \in Unreached : Refuses(c, conn, result)
    BY <1>8 DEF DialFails
  <2>2. result \in Results \ {"CONNECTED"} /\ conn.task = "dial"
    BY <1>8 DEF DialFails, Unreached, Results
  <2>3. Told(c) => conn.upstream = "none" /\ conn.asked = "ALLOWED"
    BY <2>2 DEF Told
  <2> QED
    BY <1>0, <2>1, <2>2, <2>3, EndStep
<1>9. CASE Dialled(c)
  BY <1>9, DialledStep
<1>10. CASE Leaves(c)
  <2>1. PICK new \in Conn : /\ new = Lost(conn)
                            /\ new.task = conn.task /\ new.asked = conn.asked
                            /\ new.upstream # "open"
                            /\ new.upstream = "none" <=> conn.upstream = "none"
    BY <1>0, LostConn
  <2>2. Becomes(c, new) /\ UNCHANGED <<call, session, broker, cli>> /\ conn.client = "open"
    BY <1>10, <2>1 DEF Leaves
  <2> QED
    BY <2>1, <2>2, QuietStep
<1> QED
  BY <1>1, <1>2, <1>3, <1>4, <1>5, <1>6, <1>7, <1>8, <1>9, <1>10 DEF ConnStep

-----------------------------------------------------------------------------
(* Every step of the program preserves CallInv *)

LEMMA ConnPreserves ==
  ASSUME CallInv, NEW c \in Clients, ConnStep(c)
  PROVE  CallInv'
<1>1. ConnFrame(c) /\ Moves(c) /\ (Told(c) => Told(c)')
  BY ConnSteps DEF CallInv
<1>2. /\ UNCHANGED <<call, cli>> /\ session'.state = session.state
      /\ broker'.closing = broker.closing /\ (broker.faults => broker'.faults)
      /\ \A d \in Clients \ {c} : conns'[d] = conns[d] /\ session'.events[d] = session.events[d]
  BY <1>1 DEF ConnFrame
<1>3. TypeOK'
  BY <1>1 DEF ConnFrame, CallInv, TypeOK
<1>4. session.state = "NONE" \/ call.at = "opened" => FALSE
  BY <1>1 DEF CallInv, OneSession, Fresh, Moves, NewConn, Serving
<1>5. OneSession'
  BY <1>2, <1>4 DEF CallInv, OneSession
<1>6. ToldWhileUp'
  <2>1. ASSUME call.at \in InProgress \/ call.answer = "RECORDED", NEW d \in Clients
        PROVE  Told(d)'
    <3>1. Told(d)
      BY <2>1 DEF CallInv, ToldWhileUp
    <3>2. CASE d # c
      BY <1>2, <3>1, <3>2 DEF Told, Decided
    <3> QED
      BY <1>1, <3>1, <3>2
  <2> QED
    BY <1>2, <2>1 DEF ToldWhileUp
<1>7. call.at \notin Serving /\ Pending = {} => Pending' = {} /\ (broker'.faults => broker.faults)
  <2>1. ASSUME call.at \notin Serving, Pending = {}
        PROVE  \A d \in Clients : conns'[d].task \notin {"head", "dial"}
    BY <1>1, <1>2, <2>1 DEF Moves, Pending
  <2> QED
    BY <1>1, <2>1 DEF Pending, Moves
<1>8. call.answer = "RECORDED" => call.at \notin Serving
  BY DEF CallInv, OneSession, Serving
<1>9. NothingInFlight' /\ NoLateDial'
  BY <1>2, <1>7, <1>8 DEF CallInv, NothingInFlight, NoLateDial
<1>10. NoTunnelOutlivesCall'
  <2>1. ASSUME call.at \notin {"probing", "launching", "running", "draining"}, NEW d \in Clients
        PROVE  conns'[d].upstream # "open"
    <3>1. conns[d].upstream # "open"
      BY <2>1 DEF CallInv, NoTunnelOutlivesCall
    <3>2. broker.closing \/ Pending = {}
      BY <2>1 DEF CallInv, NoLateDial, Serving
    <3>3. conns[c].task = "dial" => Pending # {}
      BY DEF Pending
    <3> QED
      BY <1>1, <1>2, <3>1, <3>2, <3>3 DEF Moves
  <2> QED
    BY <1>2, <2>1 DEF NoTunnelOutlivesCall
<1> QED
  BY <1>3, <1>5, <1>6, <1>9, <1>10 DEF CallInv

(* The process tree writes no evidence: the executor and its signals change  *)
(* nothing the record or the tunnels rest on.                                *)
LEMMA ProcessPreserves ==
  ASSUME CallInv, cli' \in Process, UNCHANGED <<call, session, broker, conns>>
  PROVE  CallInv'
<1>1. TypeOK'
  BY DEF CallInv, TypeOK
<1>2. OneSession' /\ ToldWhileUp' /\ NothingInFlight' /\ NoLateDial' /\ NoTunnelOutlivesCall'
  BY DEF CallInv, OneSession, Fresh, ToldWhileUp, Told, Decided, NothingInFlight, Pending,
         NoLateDial, NoTunnelOutlivesCall
<1> QED
  BY <1>1, <1>2 DEF CallInv

LEMMA SignalPreserves ==
  ASSUME CallInv, NEW process \in Process, NEW mayIgnore \in BOOLEAN, Signal(process, mayIgnore)
  PROVE  CallInv'
<1>1. PICK kills \in {TRUE, ~mayIgnore}, killsHelper \in {TRUE, ~mayIgnore} :
        CliBecomes([process EXCEPT
          !.leader = IF process.leader = "running" /\ kills THEN "gone" ELSE process.leader,
          !.helper = IF process.helper = "group" /\ killsHelper THEN "gone" ELSE process.helper,
          !.holds = process.holds /\ ~(process.helper = "group" /\ killsHelper)])
  BY DEF Signal
<1>2. PICK leader \in {"none", "running", "gone"} :
        leader = IF process.leader = "running" /\ kills THEN "gone" ELSE process.leader
  BY DEF Process
<1>3. PICK helper \in {"none", "group", "escaped", "gone"} :
        helper = IF process.helper = "group" /\ killsHelper THEN "gone" ELSE process.helper
  BY DEF Process
<1>4. PICK holds \in BOOLEAN :
        holds = (process.holds /\ ~(process.helper = "group" /\ killsHelper))
  OBVIOUS
<1>5. CliBecomes([process EXCEPT !.leader = leader, !.helper = helper, !.holds = holds])
  BY <1>1, <1>2, <1>3, <1>4
<1>6. [process EXCEPT !.leader = leader, !.helper = helper, !.holds = holds] \in Process
  BY DEF Process
<1> QED
  BY <1>5, <1>6, ProcessPreserves DEF CliBecomes

LEMMA CliPreserves ==
  ASSUME CallInv, CliStep
  PROVE  CallInv'
<1> PICK process \in Process : process = cli
  BY DEF CallInv, TypeOK
<1>1. ASSUME NEW p \in Process, CliBecomes(p) PROVE CallInv'
  BY <1>1, ProcessPreserves DEF CliBecomes
<1>2. ASSUME NEW q \in Process, NEW why \in {"TIMED_OUT", "OUTPUT_LIMIT"}, Terminate(why, q)
      PROVE  CallInv'
  <2>1. PICK armed \in Process : armed = [q EXCEPT !.why = why, !.hardKill = TRUE]
    <3>1. [q EXCEPT !.why = why, !.hardKill = TRUE] \in Process
      BY DEF Process, Outcomes
    <3> QED
      BY <3>1
  <2>2. CASE q.why = "EXITED"
    <3>1. Signal(armed, TRUE)
      BY <1>2, <2>1, <2>2 DEF Terminate
    <3> QED
      BY <3>1, SignalPreserves
  <2>3. CASE q.why # "EXITED"
    BY <1>1, <1>2, <2>3 DEF Terminate
  <2> QED
    BY <2>2, <2>3
<1>3. CASE Exit
  <2>1. PICK ok \in BOOLEAN : CliBecomes([process EXCEPT !.leader = "gone", !.ok = ok])
    BY <1>3 DEF Exit
  <2>2. [process EXCEPT !.leader = "gone", !.ok = ok] \in Process
    BY DEF Process
  <2> QED
    BY <1>1, <2>1, <2>2
<1>4. CASE Fork
  <2>1. [process EXCEPT !.helper = "group", !.holds = TRUE] \in Process
    BY DEF Process
  <2> QED
    BY <1>1, <1>4, <2>1 DEF Fork
<1>5. CASE HelperDetaches
  <2>1. [process EXCEPT !.helper = "escaped"] \in Process
    BY DEF Process
  <2> QED
    BY <1>1, <1>5, <2>1 DEF HelperDetaches
<1>6. CASE HelperLetsGo
  <2>1. [process EXCEPT !.holds = FALSE] \in Process
    BY DEF Process
  <2> QED
    BY <1>1, <1>6, <2>1 DEF HelperLetsGo
<1>7. CASE HelperExits
  <2>1. [process EXCEPT !.helper = "gone", !.holds = FALSE] \in Process
    BY DEF Process
  <2> QED
    BY <1>1, <1>7, <2>1 DEF HelperExits
<1>8. CASE Timeout
  <2>1. PICK q \in Process : q = [process EXCEPT !.timer = FALSE]
    <3>1. [process EXCEPT !.timer = FALSE] \in Process
      BY DEF Process
    <3> QED
      BY <3>1
  <2> QED
    BY <1>2, <1>8, <2>1 DEF Timeout
<1>9. CASE Overrun
  BY <1>2, <1>9 DEF Overrun
<1>10. CASE HardKill
  <2>1. PICK q \in Process : q = [process EXCEPT !.hardKill = FALSE]
    <3>1. [process EXCEPT !.hardKill = FALSE] \in Process
      BY DEF Process
    <3> QED
      BY <3>1
  <2>2. Signal(q, FALSE)
    BY <1>10, <2>1 DEF HardKill
  <2> QED
    BY <2>2, SignalPreserves
<1> QED
  BY <1>3, <1>4, <1>5, <1>6, <1>7, <1>8, <1>9, <1>10 DEF CliStep

(* Every connection loses what it held: what was told stays told. *)
LEMMA AllLost ==
  ASSUME TypeOK, conns' = [c \in Clients |-> Lost(conns[c])]
  PROVE  /\ conns' \in [Clients -> Conn]
         /\ \A c \in Clients : /\ conns'[c].task = conns[c].task /\ conns'[c].asked = conns[c].asked
                               /\ conns'[c].upstream # "open"
                               /\ conns'[c].upstream = "none" <=> conns[c].upstream = "none"
<1>1. ASSUME NEW c \in Clients
      PROVE  /\ Lost(conns[c]) \in Conn
             /\ Lost(conns[c]).task = conns[c].task /\ Lost(conns[c]).asked = conns[c].asked
             /\ Lost(conns[c]).upstream # "open"
             /\ Lost(conns[c]).upstream = "none" <=> conns[c].upstream = "none"
  <2>1. PICK conn \in Conn : conn = conns[c]
    BY DEF TypeOK
  <2> QED
    BY <2>1, LostConn
<1> QED
  BY <1>1

(* The steps of runModel that leave connections, session and faults alone. *)
LEMMA Advances ==
  ASSUME CallInv, UNCHANGED <<session, conns>>, cli' \in Process,
         broker' \in [closing: BOOLEAN, faults: BOOLEAN], broker'.faults = broker.faults,
         call.at \in InProgress, call' \in [at: Serving \ {"dropping"}, answer: Answers \cup {None}],
         call'.answer # "RECORDED",
         call'.at # "draining" => broker'.closing = broker.closing,
         call'.at = "draining" => broker'.closing
  PROVE  CallInv'
<1>1. TypeOK'
  BY DEF CallInv, TypeOK, Serving, InProgress
<1>2. session.state = "OPEN"
  BY DEF CallInv, OneSession
<1>3. OneSession' /\ NothingInFlight'
  BY <1>2 DEF OneSession, NothingInFlight, Serving, InProgress
<1>4. ToldWhileUp'
  BY DEF CallInv, ToldWhileUp, Told, Decided
<1>5. NoLateDial'
  BY DEF NoLateDial, Serving
<1>6. NoTunnelOutlivesCall'
  BY DEF NoTunnelOutlivesCall, Serving
<1> QED
  BY <1>1, <1>3, <1>4, <1>5, <1>6 DEF CallInv

LEMMA ShutsPreserves ==
  ASSUME CallInv, UNCHANGED <<session, conns>>, cli' \in Process, call.at \in InProgress,
         NEW answer \in Answers \ {"RECORDED"}, Shuts(answer)
  PROVE  CallInv'
<1>1. call' = [at |-> "draining", answer |-> answer]
  BY DEF Shuts, Goes
<1>2. broker' \in [closing: BOOLEAN, faults: BOOLEAN] /\ broker'.closing /\ broker'.faults = broker.faults
  BY DEF Shuts, CallInv, TypeOK
<1>3. /\ call' \in [at: Serving \ {"dropping"}, answer: Answers \cup {None}]
      /\ call'.answer # "RECORDED" /\ call'.at = "draining"
  BY <1>1 DEF Serving, Answers
<1> QED
  BY <1>2, <1>3, Advances

LEMMA GoesPreserves ==
  ASSUME CallInv, UNCHANGED <<session, broker, conns>>, cli' \in Process, call.at \in InProgress,
         NEW at \in {"probing", "launching", "running"}, Goes(at, None)
  PROVE  CallInv'
<1>1. broker \in [closing: BOOLEAN, faults: BOOLEAN]
  BY DEF CallInv, TypeOK
<1>2. /\ call' \in [at: Serving \ {"dropping"}, answer: Answers \cup {None}]
      /\ call'.answer # "RECORDED" /\ call'.at = at
  BY ModelCallAssumption DEF Goes, Serving, Answers
<1> QED
  BY <1>1, <1>2, Advances

LEMMA DropPreserves ==
  ASSUME CallInv, Drop
  PROVE  CallInv'
<1>1. /\ call.at = "draining" /\ call'.at = "dropping" /\ call'.answer = call.answer
      /\ call' \in [at: {"dropping"}, answer: Answers \cup {None}]
      /\ UNCHANGED <<session, broker, cli>>
  BY DEF Drop, Goes, CallInv, TypeOK
<1>2. /\ conns' \in [Clients -> Conn]
      /\ \A c \in Clients : /\ conns'[c].task = conns[c].task /\ conns'[c].asked = conns[c].asked
                            /\ conns'[c].upstream # "open"
                            /\ conns'[c].upstream = "none" <=> conns[c].upstream = "none"
  BY AllLost DEF CallInv, Drop
<1>3. TypeOK'
  BY <1>1, <1>2 DEF CallInv, TypeOK, Serving, InProgress
<1>4. OneSession' /\ NothingInFlight'
  BY <1>1 DEF CallInv, OneSession, NothingInFlight, Serving, InProgress
<1>5. ToldWhileUp'
  <2>1. \A c \in Clients : Told(c)
    BY <1>1 DEF CallInv, ToldWhileUp, InProgress, Serving
  <2> QED
    BY <1>1, <1>2, <2>1 DEF ToldWhileUp, Told, Decided
<1>6. NoLateDial'
  BY <1>1 DEF CallInv, NoLateDial
<1>7. NoTunnelOutlivesCall'
  BY <1>2 DEF NoTunnelOutlivesCall
<1> QED
  BY <1>3, <1>4, <1>5, <1>6, <1>7 DEF CallInv

(* The answer: RECORDED only without a fault and with nothing in flight. *)
LEMMA AnswerPreserves ==
  ASSUME CallInv, Answer
  PROVE  CallInv'
<1>1. PICK ok \in BOOLEAN, readable \in BOOLEAN :
        /\ ClosesSession(ok)
        /\ Goes("answered", IF call.answer # "ENFORCED" THEN call.answer
                            ELSE IF ~FaultsAtClose /\ ok /\ readable THEN "RECORDED" ELSE "AMBIGUOUS")
  BY DEF Answer
<1>2. /\ call.at = "dropping" /\ UNCHANGED <<conns, cli>>
      /\ broker' = [broker EXCEPT !.faults = FaultsAtClose]
  BY DEF Answer
<1>3. session.state = "OPEN" /\ call.answer # "RECORDED" /\ broker.closing
  BY <1>2 DEF CallInv, OneSession, NoLateDial, InProgress, Serving
<1>4. PICK answer \in Answers \cup {None} :
        /\ call' = [at |-> "answered", answer |-> answer]
        /\ answer = "RECORDED" => ~FaultsAtClose
  BY <1>1, <1>3 DEF Goes, CallInv, TypeOK, Answers
<1>5. session' \in Session /\ session'.events = session.events /\ session'.state # "NONE"
  BY <1>1, <1>3 DEF ClosesSession, Writes, CallInv, TypeOK, Session
<1>6. FaultsAtClose \in BOOLEAN
  BY DEF FaultsAtClose, CallInv, TypeOK
<1>7. /\ broker' \in [closing: BOOLEAN, faults: BOOLEAN]
      /\ broker'.closing /\ broker'.faults = FaultsAtClose
  BY <1>2, <1>3, <1>6 DEF CallInv, TypeOK
<1>8. TypeOK'
  BY <1>2, <1>4, <1>5, <1>7 DEF CallInv, TypeOK
<1>9. OneSession'
  BY <1>4, <1>5 DEF OneSession, InProgress, Serving
<1>10. NothingInFlight'
  BY <1>2, <1>4, <1>7 DEF NothingInFlight, FaultsAtClose, Pending
<1>11. ToldWhileUp'
  <2>1. \A c \in Clients : Told(c)
    BY <1>2 DEF CallInv, ToldWhileUp, InProgress, Serving
  <2>2. broker.faults => broker'.faults
    BY <1>7 DEF FaultsAtClose
  <2> QED
    BY <1>2, <1>5, <2>1, <2>2 DEF ToldWhileUp, Told, Decided
<1>12. NoLateDial'
  BY <1>4, <1>7 DEF NoLateDial
<1>13. NoTunnelOutlivesCall'
  BY <1>2 DEF CallInv, NoTunnelOutlivesCall
<1> QED
  BY <1>8, <1>9, <1>10, <1>11, <1>12, <1>13 DEF CallInv

LEMMA CallPreserves ==
  ASSUME CallInv, CallStep
  PROVE  CallInv'
<1> USE DEF InProgress, Serving
<1>0. cli \in Process
  BY DEF CallInv, TypeOK
<1>1. CASE StartBroker
  BY <1>0, <1>1, GoesPreserves DEF StartBroker
<1>2. CASE BrokerFails
  <2>1. /\ call.at = "opened" /\ call' = [at |-> "answered", answer |-> "UNAVAILABLE"]
        /\ UNCHANGED <<broker, conns, cli>>
    BY <1>2 DEF BrokerFails, Goes
  <2>2. session' \in Session /\ session'.events = session.events /\ session'.state # "NONE"
    BY <1>2, <2>1 DEF BrokerFails, ClosesSession, Writes, CallInv, TypeOK, OneSession, Session
  <2>3. TypeOK' /\ OneSession'
    BY <2>1, <2>2 DEF CallInv, TypeOK, OneSession, Answers
  <2>4. ToldWhileUp' /\ NothingInFlight'
    BY <2>1 DEF ToldWhileUp, NothingInFlight
  <2>5. NoLateDial' /\ NoTunnelOutlivesCall'
    BY <2>1 DEF CallInv, NoLateDial, NoTunnelOutlivesCall, Pending
  <2> QED
    BY <2>3, <2>4, <2>5 DEF CallInv
<1>3. CASE ProbeApplies
  BY <1>0, <1>3, GoesPreserves DEF ProbeApplies
<1>4. CASE NotRun
  <2>1. PICK answer \in {"UNAVAILABLE", "THROWN"} : Shuts(answer)
    BY <1>4 DEF NotRun
  <2> QED
    BY <1>0, <1>4, <2>1, ShutsPreserves DEF NotRun, Answers
<1>5. CASE Spawn
  <2>1. [NoCli EXCEPT !.leader = "running", !.timer = TRUE] \in Process
    BY DEF NoCli, Process, Outcomes
  <2> QED
    BY <1>5, <2>1, GoesPreserves DEF Spawn
<1>6. CASE SpawnFails
  <2>1. [NoCli EXCEPT !.result = "SPAWN_FAILED"] \in Process
    BY DEF NoCli, Process, Outcomes
  <2> QED
    BY <1>6, <2>1, ShutsPreserves DEF SpawnFails, Answers
<1>7. CASE Close
  <2>1. [cli EXCEPT !.result = cli.why, !.timer = FALSE, !.hardKill = FALSE] \in Process
    BY <1>0 DEF Process
  <2> QED
    BY <1>7, <2>1, ShutsPreserves DEF Close, Supervised, Answers
<1>8. CASE Drop
  BY <1>8, DropPreserves
<1>9. CASE Answer
  BY <1>9, AnswerPreserves
<1> QED
  BY <1>1, <1>2, <1>3, <1>4, <1>5, <1>6, <1>7, <1>8, <1>9 DEF CallStep

LEMMA OpenPreserves ==
  ASSUME CallInv, OpenSession
  PROVE  CallInv'
<1> USE DEF InProgress, Serving
<1>1. PICK ok \in BOOLEAN :
        /\ session.state = "NONE" \/ ~ok
        /\ IF session.state = "NONE" THEN Writes(session, Opened, ok) ELSE UNCHANGED session
        /\ IF ok THEN Goes("opened", None) ELSE Goes("answered", "UNAVAILABLE")
  BY DEF OpenSession
<1>2. call.at = "idle" /\ UNCHANGED <<broker, conns, cli>>
  BY DEF OpenSession
<1>3. /\ Opened \in Session /\ Opened.state = "OPEN"
      /\ \A c \in Clients : Opened.events[c] = None
  BY DEF Opened, Session
<1>4. None # "RECORDED"
  BY ModelCallAssumption DEF Answers
<1>5. NoTunnelOutlivesCall'
  BY <1>2 DEF CallInv, NoTunnelOutlivesCall
<1>6. NoLateDial'
  BY <1>1, <1>2 DEF CallInv, NoLateDial, Pending, Goes
<1>7. CASE ok
  <2>1. /\ call' = [at |-> "opened", answer |-> None] /\ session' = Opened /\ Fresh
    BY <1>1, <1>7 DEF Goes, Writes, CallInv, OneSession
  <2>2. Fresh'
    BY <1>2, <1>3, <2>1 DEF Fresh
  <2>3. TypeOK' /\ OneSession' /\ NothingInFlight'
    BY <1>2, <1>3, <1>4, <2>1, <2>2 DEF CallInv, TypeOK, OneSession, NothingInFlight, Answers
  <2>4. ToldWhileUp'
    BY <2>2 DEF Fresh, ToldWhileUp, Told, NewConn
  <2> QED
    BY <1>5, <1>6, <2>3, <2>4 DEF CallInv
<1>8. CASE ~ok
  <2>1. /\ call' = [at |-> "answered", answer |-> "UNAVAILABLE"]
        /\ session' = session \/ session' = Opened
    BY <1>1, <1>8 DEF Goes, Writes
  <2>2. TypeOK' /\ ToldWhileUp' /\ NothingInFlight'
    BY <1>2, <1>3, <2>1 DEF CallInv, TypeOK, ToldWhileUp, NothingInFlight, Answers
  <2>3. OneSession'
    BY <1>2, <1>3, <2>1 DEF CallInv, OneSession, Fresh
  <2> QED
    BY <1>5, <1>6, <2>2, <2>3 DEF CallInv
<1> QED
  BY <1>7, <1>8

LEMMA CrashPreserves ==
  ASSUME CallInv, Crash
  PROVE  CallInv'
<1> USE DEF InProgress, Serving
<1>1. /\ call' = [at |-> "crashed", answer |-> None] /\ UNCHANGED <<session, broker>>
      /\ session.state = "OPEN"
  BY DEF Crash, Goes, CallInv, OneSession
<1>2. ASSUME NEW c \in Clients
      PROVE  [Lost(conns[c]) EXCEPT !.task = "done"] \in Conn
  <2>1. PICK conn \in Conn : conn = conns[c]
    BY DEF CallInv, TypeOK
  <2>2. PICK lost \in Conn : lost = Lost(conn)
    BY LostConn
  <2>3. [lost EXCEPT !.task = "done"] \in Conn
    BY DEF Conn
  <2> QED
    BY <2>1, <2>2, <2>3
<1>3. ASSUME NEW c \in Clients
      PROVE  conns'[c].task = "done" /\ conns'[c].upstream # "open"
  <2>1. PICK conn \in Conn : conn = conns[c]
    BY DEF CallInv, TypeOK
  <2>2. PICK lost \in Conn : lost = Lost(conn) /\ lost.upstream # "open"
    BY LostConn
  <2>3. conns'[c] = [lost EXCEPT !.task = "done"]
    BY <2>1, <2>2 DEF Crash
  <2> QED
    BY <2>2, <2>3 DEF Conn
<1>4. conns' \in [Clients -> Conn]
  BY <1>2 DEF Crash
<1>5. cli' \in Process
  <2>1. PICK process \in Process : process = cli
    BY DEF CallInv, TypeOK
  <2>2. [process EXCEPT !.timer = FALSE, !.hardKill = FALSE] \in Process
    BY DEF Process
  <2> QED
    BY <2>1, <2>2 DEF Crash
<1>6. TypeOK'
  BY <1>1, <1>4, <1>5 DEF CallInv, TypeOK
<1>7. OneSession' /\ ToldWhileUp' /\ NothingInFlight'
  BY <1>1, ModelCallAssumption DEF OneSession, ToldWhileUp, NothingInFlight, Answers
<1>8. NoLateDial' /\ NoTunnelOutlivesCall'
  BY <1>1, <1>3 DEF NoLateDial, NoTunnelOutlivesCall, Pending
<1> QED
  BY <1>6, <1>7, <1>8 DEF CallInv

(* Before and after a call. *)
LEMMA RestPreserves ==
  ASSUME CallInv, RefusedEarly \/ Again
  PROVE  CallInv'
<1> USE DEF InProgress, Serving
<1>1. /\ UNCHANGED <<session, broker, conns, cli>>
      /\ call.at \in {"idle", "answered", "crashed"}
      /\ \/ call.at = "idle" /\ call' = [at |-> "answered", answer |-> "UNAVAILABLE"]
         \/ call' = [at |-> "idle", answer |-> None]
  BY DEF RefusedEarly, Again, Goes
<1>2. TypeOK'
  BY <1>1 DEF CallInv, TypeOK, Answers
<1>3. OneSession' /\ ToldWhileUp' /\ NothingInFlight'
  BY <1>1, ModelCallAssumption
  DEF CallInv, OneSession, Fresh, ToldWhileUp, NothingInFlight, Answers
<1>4. NoLateDial' /\ NoTunnelOutlivesCall'
  BY <1>1 DEF CallInv, NoLateDial, NoTunnelOutlivesCall, Pending
<1> QED
  BY <1>2, <1>3, <1>4 DEF CallInv

-----------------------------------------------------------------------------
(* The theorems *)

(* The inductive invariant: every callback of broker, executor and runModel  *)
(* keeps the record true of each connection, or counts a fault.              *)
THEOREM CallCorrect == Spec => []CallInv
<1>1. Init => CallInv
  <2> SUFFICES ASSUME Init PROVE CallInv
    OBVIOUS
  <2>1. TypeOK
    BY DEF Init, TypeOK, Session, Conn, NewConn, Process, NoCli, Outcomes
  <2>2. Fresh
    BY DEF Init, Fresh
  <2>3. OneSession /\ ToldWhileUp /\ NothingInFlight
    BY <2>2, ModelCallAssumption
    DEF Init, OneSession, InProgress, Serving, ToldWhileUp, NothingInFlight, Answers
  <2>4. NoLateDial /\ NoTunnelOutlivesCall
    BY <2>2 DEF Init, Fresh, NewConn, NoLateDial, Pending, NoTunnelOutlivesCall
  <2> QED
    BY <2>1, <2>2, <2>3, <2>4 DEF CallInv
<1>2. CallInv /\ [Next]_vars => CallInv'
  <2> SUFFICES ASSUME CallInv, [Next]_vars PROVE CallInv'
    OBVIOUS
  <2>1. CASE UNCHANGED vars
    BY <2>1 DEF vars, CallInv, TypeOK, OneSession, Fresh, ToldWhileUp, Told, Decided,
                NothingInFlight, Pending, NoLateDial, NoTunnelOutlivesCall
  <2>2. CASE \E c \in Clients : ConnStep(c)
    BY <2>2, ConnPreserves
  <2> QED
    BY <2>1, <2>2, CliPreserves, CallPreserves, RestPreserves, OpenPreserves, CrashPreserves DEF Next
<1> QED
  BY <1>1, <1>2, PTL DEF Spec

(* Every variable of a call keeps to its type, whatever is interleaved. *)
THEOREM CallTypeCorrect == Spec => []TypeOK
<1>1. CallInv => TypeOK
  BY DEF CallInv
<1> QED
  BY <1>1, CallCorrect, PTL

(* Evidence that runModel gives as RECORDED is the whole truth about the     *)
(* call's egress, for any number of clients and any limit.                   *)
THEOREM EvidenceCorrect == Spec => []EvidenceIsComplete
<1>1. CallInv => EvidenceIsComplete
  <2> SUFFICES ASSUME CallInv, call.answer = "RECORDED", NEW c \in Clients
               PROVE  /\ conns[c].asked # None => session.events[c] # None
                      /\ conns[c].upstream # "none" <=> session.events[c] = "CONNECTED"
                      /\ Usable => conns[c].asked \notin {"OTHER", "PART"}
    BY DEF EvidenceIsComplete
  <2>1. Told(c) /\ ~broker.faults /\ conns[c].task \notin {"head", "dial"}
    BY DEF CallInv, ToldWhileUp, NothingInFlight, Pending
  <2>2. None # "CONNECTED" /\ None \notin {"OTHER", "PART"}
    BY ModelCallAssumption DEF Results, Requests
  <2>3. conns[c].task \in {"none", "done"}
    BY <2>1 DEF CallInv, TypeOK, Conn
  <2> QED
    BY <2>1, <2>2, <2>3 DEF Told, Decided, Usable
<1> QED
  BY <1>1, CallCorrect, PTL

(* No tunnel is open, and none opens, once a call has dropped its sockets:   *)
(* neither a dial under way nor a client that connects late makes one.       *)
THEOREM TunnelsCorrect == Spec => []NoTunnelOutlivesCall
<1>1. CallInv => NoTunnelOutlivesCall
  BY DEF CallInv
<1> QED
  BY <1>1, CallCorrect, PTL

=============================================================================
