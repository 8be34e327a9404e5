--------------------------- MODULE RequestsProofs ---------------------------
(* Proofs about Requests, for any set of workers, any messages, any files  *)
(* and any routes of plugins.                                              *)
EXTENDS Requests, FiniteSetTheorems, TLAPS

(* The types of the functions, without the bounds of the counters. *)
Shapes ==
  /\ counter \in Nat
  /\ loc \in [Workers -> Locations]
  /\ left \in [Workers -> 0..KeepAliveMax]
  /\ msg \in [Workers -> Messages \cup {NoMessage}]
  /\ closeAsked \in [Workers -> BOOLEAN]
  /\ status \in [Workers -> {-1, 200, 206, 400, 404, 413, 414, 415, 500}]
  /\ filled \in [Workers -> BOOLEAN]
  /\ number \in [Workers -> Nat]
  /\ said \in [Workers -> BOOLEAN]
  /\ sent \in [Workers -> BOOLEAN]
  /\ outcome \in {"run", "fatal", "terminated"}

(* What is decided about a connection, as far as its request has gone. *)
Headed == {"route", "content", "spin", "dispatch", "view"}

Connection(w) ==
  /\ loc[w] # "idle" => left[w] >= 1
  /\ loc[w] \in {"idle", "wait", "read"} =>
       ~closeAsked[w] /\ status[w] = -1 /\ ~sent[w] /\ ~filled[w]
  /\ sent[w] => loc[w] = "next" /\ said[w] = SaysClose(w)
  /\ loc[w] \in Headed => Line(w) = "good"
  /\ loc[w] = "write" => Line(w) \in {"long", "bad", "cut", "good"}
  /\ loc[w] \in Headed \cup {"write", "next"} =>
       (closeAsked[w] <=> Line(w) = "good" /\ AsksToClose(msg[w]))

(* How far routing has gone. *)
Routed(w) ==
  /\ loc[w] \in {"content", "dispatch", "view"} => ~IsFile(msg[w])
  /\ loc[w] = "content" => ExpectsContent(msg[w])
  /\ loc[w] \in {"dispatch", "view"} /\ ExpectsContent(msg[w]) => BodyRefusal(msg[w]) = 0
  /\ loc[w] = "view" => MatchingRoutes(msg[w]) # {}
  /\ loc[w] = "write" => status[w] \in Expected(msg[w])

-----------------------------------------------------------------------------
(* Every step is that of one worker, and changes what is about it only. *)

Alike(v) ==
  /\ loc'[v] = loc[v] /\ left'[v] = left[v] /\ msg'[v] = msg[v]
  /\ closeAsked'[v] = closeAsked[v] /\ status'[v] = status[v] /\ filled'[v] = filled[v]
  /\ number'[v] = number[v] /\ said'[v] = said[v] /\ sent'[v] = sent[v]

WorkerStep(w) == Work(w) \/ Talk(w) \/ Start(w)

LEMMA RefusalValues ==
  \A m : BodyRefusal(m) \in {0, 400, 413, 415}
BY DEF BodyRefusal

LEMMA ShapesInit == Init => Shapes
BY RequestsAssumption DEF Init, Shapes, Locations

LEMMA ShapesStep ==
  ASSUME Shapes, NEW w \in Workers, WorkerStep(w),
         \A v \in Workers : Connection(v)
  PROVE  Shapes' /\ counter' >= counter
<1> USE DEF Shapes, Set, GoTo, requestVars, responseVars, Locations
<1>1. CASE ReadRequest(w)
  <2>1. PICK l \in {"next", "write", "route"}, c \in BOOLEAN, s \in {-1, 400, 414} :
          /\ loc' = [loc EXCEPT ![w] = l] \/ loc' = loc
          /\ closeAsked' = [closeAsked EXCEPT ![w] = c] \/ closeAsked' = closeAsked
          /\ status' = [status EXCEPT ![w] = s] \/ status' = status
    <3>1. CASE NoLine(w)
      BY <3>1 DEF NoLine
    <3>2. CASE Refuse(w)
      <4>1. CASE Line(w) = "long"
        BY <3>2, <4>1 DEF Refuse
      <4>2. CASE Line(w) # "long"
        BY <3>2, <4>2 DEF Refuse
      <4> QED BY <4>1, <4>2
    <3>3. CASE ReadHeaders(w)
      <4>1. AsksToClose(msg[w]) \in BOOLEAN
        BY DEF AsksToClose
      <4>2. /\ loc' = [loc EXCEPT ![w] = "route"] /\ UNCHANGED status
            /\ closeAsked' = [closeAsked EXCEPT ![w] = AsksToClose(msg[w])]
        BY <3>3 DEF ReadHeaders
      <4>3. "route" \in {"next", "write", "route"} /\ -1 \in {-1, 400, 414}
        OBVIOUS
      <4> HIDE DEF Shapes, Set, GoTo, requestVars, responseVars, Locations
      <4> WITNESS "route" \in {"next", "write", "route"}, AsksToClose(msg[w]) \in BOOLEAN,
                  -1 \in {-1, 400, 414}
      <4> QED BY <4>2
    <3>4. CASE RangeOverflows(w)
      BY <3>4 DEF RangeOverflows
    <3> QED BY <1>1, <3>1, <3>2, <3>3, <3>4 DEF ReadRequest
  <2>2. outcome' \in {"run", "fatal", "terminated"}
    BY <1>1 DEF ReadRequest, NoLine, Refuse, ReadHeaders, RangeOverflows
  <2> QED BY <1>1, <2>1, <2>2 DEF ReadRequest
<1>2. CASE Route(w)
  <2>1. CASE ServeFile(w)
    BY <1>2, <2>1 DEF Route, ServeFile
  <2>2. CASE GoOn(w)
    <3>1. PICK l \in {"content", "dispatch"} : loc' = [loc EXCEPT ![w] = l]
      BY <2>2 DEF GoOn
    <3> QED BY <1>2, <2>2, <3>1 DEF Route, GoOn
  <2> QED BY <1>2, <2>1, <2>2 DEF Route
<1>3. CASE ReadContent(w)
  <2>1. CASE Stick(w)
    BY <1>3, <2>1 DEF ReadContent, Stick
  <2>2. CASE Read(w)
    <3>1. CASE BodyRefusal(msg[w]) = 0
      BY <1>3, <2>2, <3>1 DEF ReadContent, Read
    <3>2. CASE BodyRefusal(msg[w]) # 0
      BY <1>3, <2>2, <3>2, RefusalValues DEF ReadContent, Read
    <3> QED BY <3>1, <3>2
  <2> QED BY <1>3, <2>1, <2>2 DEF ReadContent
<1>4. CASE Dispatch(w)
  BY <1>4 DEF Dispatch, Call, Count, NoHandler, Unrouted
<1>5. CASE View(w)
  <2>1. ASSUME NEW code \in {200, 206, 500}, NEW content \in BOOLEAN, Done(w, code, content)
        PROVE  Shapes' /\ counter' >= counter
    BY <1>5, <2>1 DEF View, Done
  <2>2. CASE Fatal(w)
    BY <1>5, <2>2 DEF View, Fatal
  <2>3. Success(msg[w]) \in {200, 206, 500}
    BY DEF Success
  <2>4. Fatal(w) \/ Done(w, Success(msg[w]), TRUE) \/ Done(w, Success(msg[w]), FALSE) \/ Done(w, 500, FALSE)
    BY <1>5 DEF View, PageView, EmptyView, StatusView, LoginView, PluginView
  <2> HIDE DEF Shapes, Set, GoTo, requestVars, responseVars, Locations
  <2>5. CASE Fatal(w)
    BY <2>2, <2>5
  <2>6. CASE Done(w, Success(msg[w]), TRUE) \/ Done(w, Success(msg[w]), FALSE)
    BY <2>1, <2>3, <2>6
  <2>7. CASE Done(w, 500, FALSE)
    BY <2>1, <2>7
  <2> QED BY <2>4, <2>5, <2>6, <2>7
<1>6. CASE WriteResponse(w)
  <2> DEFINE body == filled[w] \/ status[w] >= 400
  <2>1. body \in BOOLEAN
    OBVIOUS
  <2>2. CASE EndsInWriting(w, body) /\ UNCHANGED <<loc, number, filled, said, sent>>
    <3>1. outcome' \in {"fatal", "terminated"}
      BY <2>2 DEF EndsInWriting
    <3> QED BY <1>6, <2>2, <3>1 DEF WriteResponse, ErrorNumber
  <2>3. CASE /\ number' = IF status[w] >= 400 THEN Set(number, w, counter) ELSE number
             /\ filled' = Set(filled, w, body)
             /\ said' = Set(said, w, SaysClose(w))
             /\ \E ok \in {TRUE, ~body} : sent' = Set(sent, w, ok)
             /\ GoTo(w, "next")
             /\ UNCHANGED outcome
    <3>1. SaysClose(w) \in BOOLEAN
      BY DEF SaysClose, AskedToClose
    <3>2. PICK ok \in BOOLEAN : sent' = Set(sent, w, ok)
      BY <2>1, <2>3
    <3>3. /\ sent' \in [Workers -> BOOLEAN]
          /\ said' \in [Workers -> BOOLEAN]
          /\ filled' \in [Workers -> BOOLEAN]
      <4> HIDE DEF body
      <4> QED BY <2>1, <2>3, <3>1, <3>2
    <3>4. number' \in [Workers -> Nat] /\ loc' \in [Workers -> Locations]
      <4> HIDE DEF body
      <4> QED BY <2>3
    <3> QED BY <1>6, <2>3, <3>3, <3>4 DEF WriteResponse, ErrorNumber
  <2> QED BY <1>6, <2>2, <2>3 DEF WriteResponse, ErrorNumber
<1>7. CASE NextRequest(w)
  <2>1. \/ left' = [left EXCEPT ![w] = left[w] - 1] /\ left[w] >= 1
        \/ left' = [left EXCEPT ![w] = 0]
    BY <1>7 DEF NextRequest, Onwards, Connection
  <2>2. PICK l \in {"wait", "idle"} : loc' = [loc EXCEPT ![w] = l]
    BY <1>7 DEF NextRequest, Onwards
  <2>3. left' \in [Workers -> 0..KeepAliveMax]
    BY <2>1, RequestsAssumption
  <2>4. /\ msg' \in [Workers -> Messages \cup {NoMessage}]
        /\ status' \in [Workers -> {-1, 200, 206, 400, 404, 413, 414, 415, 500}]
        /\ number' \in [Workers -> Nat]
        /\ loc' \in [Workers -> Locations]
    BY <1>7, <2>2 DEF NextRequest
  <2>5. /\ closeAsked' \in [Workers -> BOOLEAN] /\ filled' \in [Workers -> BOOLEAN]
        /\ said' \in [Workers -> BOOLEAN] /\ sent' \in [Workers -> BOOLEAN]
    BY <1>7 DEF NextRequest
  <2> QED BY <1>7, <2>3, <2>4, <2>5 DEF NextRequest
<1>8. CASE TakeConnection(w)
  BY <1>8, RequestsAssumption DEF TakeConnection
<1>9. CASE GiveUp(w)
  BY <1>9 DEF GiveUp
<1>10. ASSUME NEW m \in Messages, Receive(w, m) PROVE Shapes' /\ counter' >= counter
  BY <1>10 DEF Receive
<1> QED BY <1>1, <1>2, <1>3, <1>4, <1>5, <1>6, <1>7, <1>8, <1>9, <1>10
        DEF WorkerStep, Work, Talk, Start

LEMMA OthersAlike ==
  ASSUME Shapes, NEW w \in Workers, WorkerStep(w), NEW v \in Workers, v # w
  PROVE  Alike(v)
<1> USE DEF Shapes, Set, GoTo, requestVars, responseVars, Alike
<1>1. CASE ReadRequest(w)
  BY <1>1 DEF ReadRequest, NoLine, Refuse, ReadHeaders, RangeOverflows
<1>2. CASE Route(w)
  BY <1>2 DEF Route, ServeFile, GoOn
<1>3. CASE ReadContent(w)
  BY <1>3 DEF ReadContent, Stick, Read
<1>4. CASE Dispatch(w)
  BY <1>4 DEF Dispatch, Call, NoHandler
<1>5. CASE View(w)
  <2>1. ASSUME NEW code, NEW content, Done(w, code, content)
        PROVE  Alike(v)
    BY <1>5, <2>1 DEF View, Done
  <2>2. CASE Fatal(w)
    BY <1>5, <2>2 DEF View, Fatal
  <2> QED BY <1>5, <2>1, <2>2
          DEF View, PageView, EmptyView, StatusView, LoginView, PluginView
<1>6. CASE WriteResponse(w)
  BY <1>6 DEF WriteResponse, ErrorNumber
<1>7. CASE NextRequest(w)
  BY <1>7 DEF NextRequest, Onwards
<1>8. CASE TakeConnection(w)
  BY <1>8 DEF TakeConnection
<1>9. CASE GiveUp(w)
  BY <1>9 DEF GiveUp
<1>10. ASSUME NEW m \in Messages, Receive(w, m) PROVE Alike(v)
  BY <1>10 DEF Receive
<1> QED BY <1>1, <1>2, <1>3, <1>4, <1>5, <1>6, <1>7, <1>8, <1>9, <1>10
        DEF WorkerStep, Work, Talk, Start

-----------------------------------------------------------------------------
(* The connection and the route of the request: one step per action. *)

WorkerInv(w) == Connection(w) /\ Routed(w)

LEMMA AlikeInv ==
  ASSUME NEW v \in Workers, WorkerInv(v), Alike(v)
  PROVE  WorkerInv(v)'
<1>1. Line(v)' = Line(v) /\ SaysClose(v)' = SaysClose(v)
  BY DEF Alike, Line, SaysClose, AskedToClose
<1>2. Connection(v)'
  BY <1>1 DEF WorkerInv, Alike, Connection
<1>3. Routed(v)'
  BY DEF WorkerInv, Alike, Routed
<1> QED BY <1>2, <1>3 DEF WorkerInv

LEMMA ReadRequestInv ==
  ASSUME Shapes, NEW w \in Workers, WorkerInv(w), ReadRequest(w)
  PROVE  WorkerInv(w)'
<1> USE DEF Shapes, WorkerInv, Set, GoTo
<1>1. /\ left'[w] = left[w] /\ msg'[w] = msg[w] /\ sent'[w] = sent[w] /\ filled'[w] = filled[w]
      /\ Line(w)' = Line(w) /\ SaysClose(w)' = SaysClose(w)
  BY DEF ReadRequest, Line, SaysClose, AskedToClose
<1>2. loc[w] = "read" /\ left[w] >= 1 /\ ~sent[w] /\ ~closeAsked[w] /\ ~filled[w]
  BY DEF ReadRequest, Connection
<1>3. CASE NoLine(w)
  BY <1>1, <1>2, <1>3 DEF NoLine, Connection, Routed, Headed
<1>4. CASE Refuse(w)
  <2>1. loc'[w] = "write" /\ closeAsked'[w] = closeAsked[w] /\ Line(w) \in {"long", "bad", "cut"}
    BY <1>4 DEF Refuse
  <2>2. status'[w] \in Expected(msg[w])
    BY <1>4 DEF Refuse, Expected, Line
  <2> QED BY <1>1, <1>2, <2>1, <2>2 DEF Connection, Routed, Headed
<1>5. CASE ReadHeaders(w)
  <2>1. loc'[w] = "route" /\ closeAsked'[w] = AsksToClose(msg[w]) /\ Line(w) = "good"
    BY <1>5 DEF ReadHeaders
  <2> QED BY <1>1, <1>2, <2>1 DEF Connection, Routed, Headed
<1>6. CASE RangeOverflows(w)
  <2>1. loc'[w] = "read" /\ closeAsked'[w] = closeAsked[w] /\ status'[w] = status[w]
    BY <1>2, <1>6 DEF RangeOverflows
  <2> QED BY <1>1, <1>2, <2>1 DEF Connection, Routed, Headed
<1> QED BY <1>3, <1>4, <1>5, <1>6 DEF ReadRequest

LEMMA RouteInv ==
  ASSUME Shapes, NEW w \in Workers, WorkerInv(w), Route(w)
  PROVE  WorkerInv(w)'
<1> USE DEF Shapes, WorkerInv, Set, GoTo
<1>1. /\ left'[w] = left[w] /\ msg'[w] = msg[w] /\ sent'[w] = sent[w]
      /\ closeAsked'[w] = closeAsked[w]
      /\ Line(w)' = Line(w) /\ SaysClose(w)' = SaysClose(w)
  BY DEF Route, requestVars, Line, SaysClose, AskedToClose
<1>2. /\ loc[w] = "route" /\ left[w] >= 1 /\ ~sent[w] /\ Line(w) = "good"
      /\ closeAsked[w] <=> AsksToClose(msg[w])
  BY DEF Route, Connection, Headed
<1>3. CASE IsFile(msg[w])
  <2>1. loc'[w] = "write" /\ status'[w] = 200
    BY <1>3 DEF Route, ServeFile
  <2>2. status'[w] \in Expected(msg[w])
    BY <1>2, <1>3, <2>1 DEF Expected, Line
  <2> QED BY <1>1, <1>2, <2>1, <2>2 DEF Connection, Routed, Headed
<1>4. CASE ~IsFile(msg[w])
  <2>1. loc'[w] = IF ExpectsContent(msg[w]) THEN "content" ELSE "dispatch"
    BY <1>4 DEF Route, GoOn
  <2> QED BY <1>1, <1>2, <1>4, <2>1 DEF Connection, Routed, Headed
<1> QED BY <1>3, <1>4

LEMMA ReadContentInv ==
  ASSUME Shapes, NEW w \in Workers, WorkerInv(w), ReadContent(w)
  PROVE  WorkerInv(w)'
<1> USE DEF Shapes, WorkerInv, Set, GoTo
<1>1. /\ left'[w] = left[w] /\ msg'[w] = msg[w] /\ sent'[w] = sent[w]
      /\ closeAsked'[w] = closeAsked[w]
      /\ Line(w)' = Line(w) /\ SaysClose(w)' = SaysClose(w)
  BY DEF ReadContent, requestVars, Line, SaysClose, AskedToClose
<1>2. /\ loc[w] = "content" /\ left[w] >= 1 /\ ~sent[w] /\ Line(w) = "good"
      /\ closeAsked[w] <=> AsksToClose(msg[w])
      /\ ~IsFile(msg[w]) /\ ExpectsContent(msg[w])
  BY DEF ReadContent, Connection, Routed, Headed
<1>3. CASE Stick(w)
  BY <1>1, <1>2, <1>3 DEF Stick, Connection, Routed, Headed
<1>4. CASE Read(w) /\ BodyRefusal(msg[w]) = 0
  <2>1. loc'[w] = "dispatch"
    BY <1>4 DEF Read
  <2> QED BY <1>1, <1>2, <1>4, <2>1 DEF Connection, Routed, Headed
<1>5. CASE Read(w) /\ BodyRefusal(msg[w]) # 0
  <2>1. loc'[w] = "write" /\ status'[w] = BodyRefusal(msg[w])
    BY <1>5 DEF Read
  <2>2. status'[w] \in Expected(msg[w])
    BY <1>2, <1>5, <2>1 DEF Expected, Line
  <2> QED BY <1>1, <1>2, <2>1, <2>2 DEF Connection, Routed, Headed
<1> QED BY <1>3, <1>4, <1>5 DEF ReadContent

LEMMA DispatchInv ==
  ASSUME Shapes, NEW w \in Workers, WorkerInv(w), Dispatch(w)
  PROVE  WorkerInv(w)'
<1> USE DEF Shapes, WorkerInv, Set, GoTo
<1>1. /\ left'[w] = left[w] /\ msg'[w] = msg[w] /\ sent'[w] = sent[w]
      /\ closeAsked'[w] = closeAsked[w]
      /\ Line(w)' = Line(w) /\ SaysClose(w)' = SaysClose(w)
  BY DEF Dispatch, Line, SaysClose, AskedToClose
<1>2. /\ loc[w] = "dispatch" /\ left[w] >= 1 /\ ~sent[w] /\ Line(w) = "good"
      /\ closeAsked[w] <=> AsksToClose(msg[w])
      /\ ~IsFile(msg[w]) /\ (ExpectsContent(msg[w]) => BodyRefusal(msg[w]) = 0)
  BY DEF Dispatch, Connection, Routed, Headed
<1>3. CASE MatchingRoutes(msg[w]) # {}
  <2>1. loc'[w] = "view"
    BY <1>3 DEF Dispatch, Call
  <2> QED BY <1>1, <1>2, <1>3, <2>1 DEF Connection, Routed, Headed
<1>4. CASE MatchingRoutes(msg[w]) = {}
  <2>1. loc'[w] = "write" /\ status'[w] = Unrouted(msg[w])
    BY <1>4 DEF Dispatch, NoHandler
  <2>2. status'[w] \in Expected(msg[w])
    BY <1>2, <1>4, <2>1 DEF Expected, Line
  <2> QED BY <1>1, <1>2, <2>1, <2>2 DEF Connection, Routed, Headed
<1> QED BY <1>3, <1>4

LEMMA ViewInv ==
  ASSUME Shapes, NEW w \in Workers, WorkerInv(w), View(w)
  PROVE  WorkerInv(w)'
<1> USE DEF Shapes, WorkerInv, Set, GoTo
<1>1. /\ left'[w] = left[w] /\ msg'[w] = msg[w] /\ sent'[w] = sent[w]
      /\ closeAsked'[w] = closeAsked[w]
      /\ Line(w)' = Line(w) /\ SaysClose(w)' = SaysClose(w)
  BY DEF View, requestVars, Line, SaysClose, AskedToClose
<1>2. /\ loc[w] = "view" /\ left[w] >= 1 /\ ~sent[w] /\ Line(w) = "good"
      /\ closeAsked[w] <=> AsksToClose(msg[w])
      /\ ~IsFile(msg[w]) /\ (ExpectsContent(msg[w]) => BodyRefusal(msg[w]) = 0)
      /\ MatchingRoutes(msg[w]) # {}
  BY DEF View, Connection, Routed, Headed
<1>3. CASE Fatal(w)
  <2>1. loc'[w] = "view" /\ status'[w] = status[w]
    BY <1>2, <1>3 DEF Fatal
  <2> QED BY <1>1, <1>2, <2>1 DEF Connection, Routed, Headed
<1>4. ASSUME NEW code \in {Success(msg[w]), 500}, NEW content, Done(w, code, content)
      PROVE  WorkerInv(w)'
  <2>1. loc'[w] = "write" /\ status'[w] = code
    <3>1. code \in {200, 206, 500}
      BY DEF Success
    <3> QED BY <1>4 DEF Done
  <2>2. status'[w] \in Expected(msg[w])
    BY <1>2, <2>1 DEF Expected, Line
  <2> QED BY <1>1, <1>2, <2>1, <2>2 DEF Connection, Routed, Headed
<1>5. Fatal(w) \/ \E code \in {Success(msg[w]), 500}, content \in BOOLEAN : Done(w, code, content)
  <2> HIDE DEF Shapes, WorkerInv, Set, GoTo
  <2>1. Fatal(w) \/ Done(w, Success(msg[w]), TRUE) \/ Done(w, Success(msg[w]), FALSE) \/ Done(w, 500, FALSE)
    BY DEF View, PageView, EmptyView, StatusView, LoginView, PluginView
  <2> QED BY <2>1
<1> HIDE DEF Shapes, WorkerInv, Set, GoTo
<1> QED BY <1>3, <1>4, <1>5

LEMMA WriteResponseInv ==
  ASSUME Shapes, NEW w \in Workers, WorkerInv(w), WriteResponse(w)
  PROVE  WorkerInv(w)'
<1> USE DEF Shapes, WorkerInv, Set, GoTo
<1>1. /\ left'[w] = left[w] /\ msg'[w] = msg[w]
      /\ closeAsked'[w] = closeAsked[w] /\ status'[w] = status[w]
      /\ Line(w)' = Line(w) /\ SaysClose(w)' = SaysClose(w)
  BY DEF WriteResponse, Line, SaysClose, AskedToClose
<1>2. /\ loc[w] = "write" /\ left[w] >= 1 /\ ~sent[w]
      /\ closeAsked[w] <=> Line(w) = "good" /\ AsksToClose(msg[w])
      /\ Line(w) \in {"long", "bad", "cut", "good"} /\ status[w] \in Expected(msg[w])
  BY DEF WriteResponse, Connection, Routed, Headed
<1>3. CASE UNCHANGED <<loc, number, filled, said, sent>>
  BY <1>1, <1>2, <1>3 DEF Connection, Routed, Headed
<1>4. CASE said' = Set(said, w, SaysClose(w)) /\ GoTo(w, "next")
  <2>1. loc'[w] = "next" /\ said'[w] = SaysClose(w)
    BY <1>4
  <2> QED BY <1>1, <1>2, <2>1 DEF Connection, Routed, Headed
<1> QED BY <1>3, <1>4 DEF WriteResponse, ErrorNumber

LEMMA NextRequestInv ==
  ASSUME Shapes, NEW w \in Workers, WorkerInv(w), NextRequest(w)
  PROVE  WorkerInv(w)'
<1> USE DEF Shapes, WorkerInv, Set, GoTo
<1>1. ~closeAsked'[w] /\ status'[w] = -1 /\ ~sent'[w] /\ ~filled'[w]
  BY DEF NextRequest
<1>2. loc'[w] = "idle" \/ (loc'[w] = "wait" /\ left'[w] >= 1)
  <2>1. loc'[w] = (IF GoesOn(w) /\ left[w] > 1 THEN "wait" ELSE "idle")
    BY DEF NextRequest, Onwards
  <2>2. GoesOn(w) => left'[w] = left[w] - 1
    BY DEF NextRequest, Onwards
  <2> QED BY <2>1, <2>2
<1> QED BY <1>1, <1>2 DEF Connection, Routed, Headed

LEMMA OtherInv ==
  ASSUME Shapes, NEW w \in Workers, WorkerInv(w), Talk(w) \/ Start(w)
  PROVE  WorkerInv(w)'
<1> USE DEF Shapes, WorkerInv, Set, GoTo
<1>1. /\ closeAsked'[w] = closeAsked[w] /\ status'[w] = status[w] /\ sent'[w] = sent[w]
      /\ filled'[w] = filled[w]
  BY DEF Talk, Start, Receive, GiveUp, TakeConnection, requestVars, responseVars
<1>2. ~closeAsked[w] /\ status[w] = -1 /\ ~sent[w] /\ ~filled[w]
  BY DEF Connection, Talk, Start, Receive, GiveUp, TakeConnection
<1>3. CASE Start(w)
  <2>1. loc'[w] = "wait" /\ left'[w] = KeepAliveMax
    BY <1>3, RequestsAssumption DEF Start, TakeConnection
  <2> QED BY <1>1, <1>2, <2>1, RequestsAssumption DEF Connection, Routed, Headed
<1>4. CASE GiveUp(w)
  <2>1. loc'[w] = "idle"
    BY <1>4 DEF GiveUp
  <2> QED BY <1>1, <1>2, <2>1 DEF Connection, Routed, Headed
<1>5. ASSUME NEW m \in Messages, Receive(w, m)
      PROVE  WorkerInv(w)'
  <2>1. loc'[w] = "read" /\ left'[w] = left[w] /\ loc[w] = "wait"
    BY <1>5 DEF Receive
  <2> QED BY <1>1, <1>2, <2>1 DEF Connection, Routed, Headed
<1> QED BY <1>3, <1>4, <1>5 DEF Talk

-----------------------------------------------------------------------------
(* The whole: shapes, connections and numbers. *)

RequestsInv == Shapes /\ (\A w \in Workers : WorkerInv(w)) /\ NumbersUnique

LEMMA NextIsAWorkersStep == Next => \E w \in Workers : WorkerStep(w)
BY DEF Next, WorkerStep

(* The number of a worker that is in a handler after a step is the one it  *)
(* had, or the next one, given by the increment.                           *)
LEMMA NumberGiven ==
  ASSUME Shapes, NEW w \in Workers, WorkerStep(w), Handled(w)'
  PROVE  \/ Handled(w) /\ number'[w] = number[w]
         \/ number'[w] = counter + 1 /\ counter' = counter + 1
<1> USE DEF Shapes, Handled, Set, GoTo
<1>1. CASE ReadRequest(w)
  BY <1>1 DEF ReadRequest, NoLine, Refuse, ReadHeaders, RangeOverflows
<1>2. CASE Route(w)
  <2>1. loc'[w] \in {"write", "content", "dispatch"}
    BY <1>2 DEF Route, ServeFile, GoOn
  <2> QED BY <2>1
<1>3. CASE ReadContent(w)
  BY <1>3 DEF ReadContent, Stick, Read
<1>4. CASE Dispatch(w)
  <2>1. CASE MatchingRoutes(msg[w]) = {}
    BY <1>4, <2>1 DEF Dispatch, NoHandler
  <2>2. CASE MatchingRoutes(msg[w]) # {}
    BY <1>4, <2>2 DEF Dispatch, Call, Count
  <2> QED BY <2>1, <2>2
<1>5. CASE View(w)
  BY <1>5 DEF View, requestVars
<1>6. CASE WriteResponse(w)
  BY <1>6 DEF WriteResponse, ErrorNumber
<1>7. CASE NextRequest(w)
  <2>1. loc'[w] \in {"wait", "idle"}
    BY <1>7 DEF NextRequest, Onwards
  <2> QED BY <2>1
<1>8. CASE TakeConnection(w)
  BY <1>8 DEF TakeConnection
<1>9. CASE GiveUp(w)
  BY <1>9 DEF GiveUp
<1>10. ASSUME NEW m \in Messages, Receive(w, m)
       PROVE  FALSE
  BY <1>10 DEF Receive
<1> QED BY <1>1, <1>2, <1>3, <1>4, <1>5, <1>6, <1>7, <1>8, <1>9, <1>10
        DEF WorkerStep, Work, Talk, Start

LEMMA NumbersStep ==
  ASSUME RequestsInv, NEW w \in Workers, WorkerStep(w), counter' \in Nat, counter' >= counter
  PROVE  NumbersUnique'
<1> USE DEF RequestsInv
<1>1. \A v \in Workers : v # w => Alike(v)
  BY OthersAlike
<1>2. \A v \in Workers : v # w => (Handled(v)' <=> Handled(v)) /\ number'[v] = number[v]
  BY <1>1 DEF Alike, Handled
<1>3. Handled(w)' =>
        \/ Handled(w) /\ number'[w] = number[w]
        \/ number'[w] = counter + 1 /\ counter' = counter + 1
  BY NumberGiven
<1>4. counter \in Nat
  BY DEF Shapes
<1>5. \A v \in Workers : Handled(v) => number[v] \in 1..counter
  BY DEF NumbersUnique
<1>6. \A v \in Workers : Handled(v)' => number'[v] \in 1..counter'
  BY <1>2, <1>3, <1>4, <1>5
<1>7. \A u, v \in Workers : Handled(u)' /\ Handled(v)' /\ u # v => number'[u] # number'[v]
  <2> SUFFICES ASSUME NEW u \in Workers, NEW v \in Workers,
                      Handled(u)', Handled(v)', u # v
               PROVE  number'[u] # number'[v]
    OBVIOUS
  <2>1. CASE u # w /\ v # w
    BY <1>2, <2>1 DEF NumbersUnique
  <2>2. ASSUME NEW x \in Workers, x # w, Handled(x)', Handled(w)'
        PROVE  number'[x] # number'[w]
    <3>1. Handled(x) /\ number'[x] = number[x] /\ number[x] \in 1..counter
      BY <1>2, <1>5, <2>2
    <3>2. CASE Handled(w) /\ number'[w] = number[w]
      BY <2>2, <3>1, <3>2 DEF NumbersUnique
    <3>3. CASE number'[w] = counter + 1
      BY <1>4, <3>1, <3>3
    <3> QED BY <1>3, <2>2, <3>2, <3>3
  <2> QED BY <2>1, <2>2
<1> QED BY <1>6, <1>7 DEF NumbersUnique

LEMMA RequestsInitInv == Init => RequestsInv
<1> SUFFICES ASSUME Init PROVE RequestsInv
  OBVIOUS
<1>1. Shapes
  BY ShapesInit
<1>2. \A w \in Workers : WorkerInv(w)
  BY DEF Init, WorkerInv, Connection, Routed, Headed
<1>3. NumbersUnique
  BY DEF Init, NumbersUnique, Handled
<1> QED BY <1>1, <1>2, <1>3 DEF RequestsInv

LEMMA RequestsStepInv ==
  ASSUME RequestsInv, NEW w \in Workers, WorkerStep(w)
  PROVE  RequestsInv'
<1> USE DEF RequestsInv
<1>1. Shapes' /\ counter' >= counter
  BY ShapesStep DEF WorkerInv
<1>2. WorkerInv(w)'
  BY ReadRequestInv, RouteInv, ReadContentInv, DispatchInv, ViewInv, WriteResponseInv,
     NextRequestInv, OtherInv DEF WorkerStep, Work
<1>3. \A v \in Workers : v # w => WorkerInv(v)'
  BY OthersAlike, AlikeInv
<1>4. NumbersUnique'
  BY <1>1, NumbersStep DEF Shapes
<1> QED BY <1>1, <1>2, <1>3, <1>4

LEMMA RequestsNextInv == RequestsInv /\ [Next]_vars => RequestsInv'
<1> SUFFICES ASSUME RequestsInv, [Next]_vars PROVE RequestsInv'
  OBVIOUS
<1>1. CASE Next
  BY <1>1, NextIsAWorkersStep, RequestsStepInv
<1>2. CASE UNCHANGED vars
  <2>1. Shapes'
    BY <1>2 DEF RequestsInv, Shapes, vars, requestVars, responseVars
  <2>2. \A w \in Workers : WorkerInv(w)'
    <3>1. \A w \in Workers : Alike(w)
      BY <1>2 DEF Alike, vars, requestVars, responseVars
    <3> QED BY <3>1, AlikeInv DEF RequestsInv
  <2>3. NumbersUnique'
    BY <1>2 DEF RequestsInv, NumbersUnique, Handled, vars, requestVars
  <2> QED BY <2>1, <2>2, <2>3 DEF RequestsInv
<1> QED BY <1>1, <1>2

LEMMA RequestsInvariant == Spec => []RequestsInv
BY RequestsInitInv, RequestsNextInv, PTL DEF Spec

(* The requests that are in handlers at the same time have different       *)
(* numbers, however many threads the pool has.                             *)
THEOREM RequestNumbersUnique == Spec => []NumbersUnique
<1>1. RequestsInv => NumbersUnique
  BY DEF RequestsInv
<1> QED BY <1>1, RequestsInvariant, PTL

(* Every message is answered with the status it should be.                 *)
THEOREM RequestAnswerFits == Spec => []AnswerFits
<1>1. RequestsInv => AnswerFits
  BY DEF RequestsInv, WorkerInv, Routed, AnswerFits
<1> QED BY <1>1, RequestsInvariant, PTL

LEMMA CloseStep ==
  ASSUME RequestsInv, NEW w \in Workers, NextRequest(w)
  PROVE  EndIsAnnounced(w) /\ AnnouncedEnds(w)
<1> USE DEF RequestsInv, Shapes
<1>1. loc[w] = "next" /\ left[w] >= 1
  BY DEF NextRequest, WorkerInv, Connection
<1>2. loc'[w] = (IF GoesOn(w) /\ left[w] > 1 THEN "wait" ELSE "idle")
  BY DEF NextRequest, Onwards, GoTo, Set
<1>3. sent[w] => (said[w] <=> left[w] = 1 \/ AskedToClose(w))
  BY DEF WorkerInv, Connection, SaysClose
<1>4. closeAsked[w] <=> Line(w) = "good" /\ AsksToClose(msg[w])
  BY <1>1 DEF WorkerInv, Connection
<1>5. ASSUME Answered(w), loc'[w] = "idle"
      PROVE  said[w] \/ (Line(w) = "good" /\ msg[w].version = "1.0")
  <2>1. closeAsked[w] \/ left[w] = 1
    BY <1>1, <1>2, <1>5 DEF Answered, GoesOn
  <2>2. CASE left[w] = 1
    BY <1>3, <1>5, <2>2 DEF Answered
  <2>3. CASE closeAsked[w]
    <3>1. Line(w) = "good" /\ AsksToClose(msg[w])
      BY <1>4, <2>3
    <3>2. msg[w].connection = "close" => AskedToClose(w)
      BY <3>1 DEF AskedToClose
    <3>3. msg[w].connection = "close" \/ msg[w].version = "1.0"
      BY <3>1 DEF AsksToClose
    <3> QED BY <1>3, <1>5, <3>1, <3>2, <3>3 DEF Answered
  <2> QED BY <2>1, <2>2, <2>3
<1>6. ASSUME Answered(w), loc'[w] = "wait"
      PROVE  ~said[w]
  <2>1. ~closeAsked[w] /\ left[w] # 1
    BY <1>2, <1>6 DEF GoesOn
  <2>2. ~AskedToClose(w)
    <3>1. CASE Line(w) = "good"
      BY <1>4, <2>1, <3>1 DEF AskedToClose, AsksToClose
    <3>2. CASE Line(w) \in {"long", "bad"}
      BY <3>2 DEF AskedToClose
    <3> QED BY <1>6, <3>1, <3>2 DEF Answered, Line
  <2> QED BY <1>3, <1>6, <2>1, <2>2 DEF Answered
<1> QED BY <1>5, <1>6 DEF EndIsAnnounced, AnnouncedEnds

(* A connection is kept open exactly when the answer did not announce its  *)
(* end, whatever KEEPALIVE_MAX_COUNT is.                                   *)
THEOREM RequestCloseAnnounced == Spec => CloseIffAnnounced
<1>1. RequestsInv /\ [Next]_vars =>
        [\A w \in Workers : EndIsAnnounced(w) /\ AnnouncedEnds(w)]_vars
  <2> SUFFICES ASSUME RequestsInv, Next, NEW v \in Workers
               PROVE  EndIsAnnounced(v) /\ AnnouncedEnds(v)
    OBVIOUS
  <2>1. PICK w \in Workers : WorkerStep(w)
    BY NextIsAWorkersStep
  <2>2. CASE v # w
    <3>1. loc'[v] = loc[v]
      BY <2>1, <2>2, OthersAlike DEF Alike, RequestsInv
    <3> QED BY <3>1 DEF EndIsAnnounced, AnnouncedEnds, Answered
  <2>3. CASE v = w /\ NextRequest(w)
    BY <2>3, CloseStep
  <2>4. CASE v = w /\ loc[w] # "next"
    BY <2>4 DEF EndIsAnnounced, AnnouncedEnds, Answered
  <2>5. loc[w] = "next" => NextRequest(w)
    BY <2>1 DEF WorkerStep, Work, Talk, Start, ReadRequest, Route, ReadContent, Dispatch, View,
         WriteResponse, GiveUp, Receive, TakeConnection
  <2> QED BY <2>2, <2>3, <2>4, <2>5
<1> QED BY <1>1, RequestsInvariant, PTL DEF Spec, CloseIffAnnounced

-----------------------------------------------------------------------------
(* The bound of the model on the counter: a request is received only when  *)
(* there is a number for it, and for those before it.                      *)

Budget ==
  /\ counter + Cardinality(Uncounted) <= MaxRequests
  /\ \A w \in Workers : number[w] <= counter

LEMMA CounterStep ==
  ASSUME Shapes, NEW w \in Workers, WorkerStep(w)
  PROVE  /\ \/ counter' = counter /\ (w \in Uncounted' => w \in Uncounted)
            \/ counter' = counter + 1 /\ w \in Uncounted /\ w \notin Uncounted'
            \/ counter' = counter /\ counter + Cardinality(Uncounted) < MaxRequests
         /\ number'[w] \in {number[w], 0, counter, counter'}
<1> USE DEF Shapes, Set, GoTo, Uncounted
<1>1. CASE ReadRequest(w)
  BY <1>1 DEF ReadRequest
<1>2. CASE Route(w)
  BY <1>2 DEF Route, requestVars
<1>3. CASE ReadContent(w)
  BY <1>3 DEF ReadContent, requestVars
<1>4. CASE Dispatch(w)
  <2>1. CASE MatchingRoutes(msg[w]) = {}
    BY <1>4, <2>1 DEF Dispatch, NoHandler
  <2>2. CASE MatchingRoutes(msg[w]) # {}
    <3>1. counter' = counter + 1 /\ number'[w] = counter' /\ loc'[w] = "view"
      BY <1>4, <2>2 DEF Dispatch, Call, Count
    <3> QED BY <1>4, <3>1 DEF Dispatch
  <2> QED BY <2>1, <2>2
<1>5. CASE View(w)
  <2>1. counter' = counter /\ number' = number /\ loc'[w] \in {"view", "write"}
    BY <1>5 DEF View, requestVars, PageView, EmptyView, StatusView, LoginView, PluginView, Fatal, Done
  <2> QED BY <2>1
<1>6. CASE WriteResponse(w)
  <2>1. counter' = counter /\ loc'[w] \in {"write", "next"}
    BY <1>6 DEF WriteResponse, ErrorNumber
  <2>2. number'[w] \in {number[w], counter}
    BY <1>6 DEF WriteResponse, ErrorNumber
  <2> QED BY <2>1, <2>2
<1>7. CASE NextRequest(w)
  <2>1. counter' = counter /\ loc'[w] \in {"wait", "idle"} /\ number'[w] = 0
    BY <1>7 DEF NextRequest, Onwards
  <2> QED BY <2>1
<1>8. CASE TakeConnection(w)
  BY <1>8 DEF TakeConnection, requestVars
<1>9. CASE GiveUp(w)
  BY <1>9 DEF GiveUp, requestVars
<1>10. ASSUME NEW m \in Messages, Receive(w, m)
       PROVE  /\ counter' = counter /\ counter + Cardinality(Uncounted) < MaxRequests
              /\ number'[w] = number[w]
  <2> HIDE DEF Uncounted
  <2> QED BY <1>10 DEF Receive
<1> QED BY <1>1, <1>2, <1>3, <1>4, <1>5, <1>6, <1>7, <1>8, <1>9, <1>10
        DEF WorkerStep, Work, Talk, Start

LEMMA BudgetStep ==
  ASSUME RequestsInv, Budget, NEW w \in Workers, WorkerStep(w)
  PROVE  Budget'
<1>1. Shapes /\ Shapes' /\ counter' >= counter
  BY RequestsStepInv, ShapesStep DEF RequestsInv, WorkerInv
<1>2. \A v \in Workers : v # w => (v \in Uncounted' <=> v \in Uncounted) /\ number'[v] = number[v]
  BY <1>1, OthersAlike DEF Alike, Uncounted
<1>3. Uncounted \subseteq Workers /\ Uncounted' \subseteq Workers
  BY DEF Uncounted
<1>4. IsFiniteSet(Uncounted) /\ IsFiniteSet(Uncounted')
  BY <1>3, RequestsAssumption, FS_Subset
<1>5. Cardinality(Uncounted) \in Nat /\ Cardinality(Uncounted') \in Nat
  BY <1>4, FS_CardinalityType
<1>6. counter \in Nat /\ counter' \in Nat /\ MaxRequests \in Nat
  BY <1>1, RequestsAssumption DEF Shapes
<1>7. counter' + Cardinality(Uncounted') <= MaxRequests
  <2>1. CASE counter' = counter /\ (w \in Uncounted' => w \in Uncounted)
    <3>1. Uncounted' \subseteq Uncounted
      BY <1>2, <1>3, <2>1
    <3>2. Cardinality(Uncounted') <= Cardinality(Uncounted)
      BY <1>4, <3>1, FS_Subset
    <3> QED BY <1>5, <1>6, <2>1, <3>2 DEF Budget
  <2>2. CASE counter' = counter + 1 /\ w \in Uncounted /\ w \notin Uncounted'
    <3>1. Uncounted' = Uncounted \ {w}
      BY <1>2, <1>3, <2>2
    <3>2. Cardinality(Uncounted') = Cardinality(Uncounted) - 1
      BY <1>4, <2>2, <3>1, FS_RemoveElement
    <3> QED BY <1>5, <1>6, <2>2, <3>2 DEF Budget
  <2>3. CASE counter' = counter /\ counter + Cardinality(Uncounted) < MaxRequests
    <3>1. Uncounted' \subseteq Uncounted \cup {w}
      BY <1>2, <1>3
    <3>2. /\ IsFiniteSet(Uncounted \cup {w})
          /\ Cardinality(Uncounted \cup {w}) <= Cardinality(Uncounted) + 1
      <4>1. /\ IsFiniteSet(Uncounted \cup {w})
            /\ Cardinality(Uncounted \cup {w}) =
                 IF w \in Uncounted THEN Cardinality(Uncounted) ELSE Cardinality(Uncounted) + 1
        BY <1>4, FS_AddElement
      <4> QED BY <1>5, <4>1
    <3>3. Cardinality(Uncounted') <= Cardinality(Uncounted \cup {w})
           /\ Cardinality(Uncounted \cup {w}) \in Nat
      BY <3>1, <3>2, FS_Subset, FS_CardinalityType
    <3> QED BY <1>5, <1>6, <2>3, <3>2, <3>3
  <2> QED BY <1>1, <2>1, <2>2, <2>3, CounterStep
<1>8. \A v \in Workers : number'[v] <= counter'
  <2>1. number'[w] \in {number[w], 0, counter, counter'}
    BY <1>1, CounterStep
  <2>2. \A v \in Workers : number[v] \in Nat /\ number[v] <= counter
    BY <1>1 DEF Budget, Shapes
  <2> QED BY <1>1, <1>2, <1>6, <2>1, <2>2
<1> QED BY <1>7, <1>8 DEF Budget

(* The type invariant, for any numbers of requests and connections.        *)
THEOREM RequestTypes == Spec => []TypeOK
<1>1. Init => Budget
  <2> SUFFICES ASSUME Init PROVE Budget
    OBVIOUS
  <2>1. Uncounted = {}
    BY DEF Init, Uncounted
  <2>2. Cardinality(Uncounted) = 0
    BY <2>1, FS_EmptySet
  <2> QED BY <2>2, RequestsAssumption DEF Init, Budget
<1>2. RequestsInv /\ Budget /\ [Next]_vars => Budget'
  <2>1. ASSUME RequestsInv, Budget, Next PROVE Budget'
    BY <2>1, NextIsAWorkersStep, BudgetStep
  <2>2. ASSUME Budget, UNCHANGED vars PROVE Budget'
    <3>1. UNCHANGED <<counter, loc, number>>
      BY <2>2 DEF vars, requestVars
    <3>2. Uncounted' = Uncounted
      BY <3>1 DEF Uncounted
    <3> QED BY <2>2, <3>1, <3>2 DEF Budget
  <2> QED BY <2>1, <2>2
<1>3. RequestsInv /\ Budget => TypeOK
  <2> SUFFICES ASSUME RequestsInv, Budget PROVE TypeOK
    OBVIOUS
  <2>1. Uncounted \subseteq Workers
    BY DEF Uncounted
  <2>2. Cardinality(Uncounted) \in Nat
    BY <2>1, RequestsAssumption, FS_Subset, FS_CardinalityType
  <2>3. counter \in 0..MaxRequests
    BY <2>2, RequestsAssumption DEF Budget, RequestsInv, Shapes
  <2>4. number \in [Workers -> 0..MaxRequests]
    <3>1. \A w \in Workers : number[w] \in 0..MaxRequests
      BY <2>3, RequestsAssumption DEF Budget, RequestsInv, Shapes
    <3> QED BY <3>1 DEF RequestsInv, Shapes
  <2> QED BY <2>3, <2>4 DEF RequestsInv, Shapes, TypeOK
<1> QED BY <1>1, <1>2, <1>3, RequestsInvariant, PTL DEF Spec
=============================================================================
