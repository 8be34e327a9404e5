------------------------------ MODULE Requests ------------------------------
(***************************************************************************)
(* What a thread of the pool does with a connection: it reads requests one *)
(* after the other, at most KeepAliveMax, and answers each                 *)
(* (process_socket, process_request, routing and write_response of         *)
(* src/httplib.h, with the handlers of src/hcv_web.cc and the views of     *)
(* src/hcv_views.cc).  This is what happens during a job of WebServer.     *)
(*                                                                         *)
(* A message is what a client sends: a record that says how the request    *)
(* line and the headers parse, the method, the path, the version, the      *)
(* header Connection, the range asked for, and what the body is like.      *)
(***************************************************************************)
EXTENDS Integers, Sequences, FiniteSets

CONSTANTS
  Workers,
  Messages,         \* what clients may send
  Files,            \* the paths of the files under the web root
  PluginRoutes,     \* patterns plugins registered for GET, a sequence
  KeepAliveMax,     \* CPPHTTPLIB_KEEPALIVE_MAX_COUNT, 5 in the code
  MaxRequests,      \* bound on hcv_web_request_counter
  NoMessage         \* not a message

ASSUME RequestsAssumption ==
  /\ IsFiniteSet(Workers)
  /\ KeepAliveMax \in Nat \ {0}
  /\ MaxRequests \in Nat
  /\ NoMessage \notin Messages

VARIABLES
  counter,          \* hcv_web_request_counter
  loc,              \* where each worker is
  left,             \* count: how many requests the connection may still make
  msg,              \* the request
  closeAsked,       \* connection_close
  status,           \* res.status, -1 until something sets it
  filled,           \* is there a body in the response?
  number,           \* the number of the request, 0 when no handler got it
  said,             \* has the response the header Connection: close?
  sent,             \* was it sent?
  outcome           \* of the process: "run", "fatal" or "terminated"

requestVars  == <<msg, closeAsked, number>>
responseVars == <<status, filled, said, sent>>
vars == <<counter, loc, left, requestVars, responseVars, outcome>>

Locations == {"idle", "wait", "read", "route", "content", "spin", "dispatch", "view", "write",
              "next"}

Set(f, w, value) == [f EXCEPT ![w] = value]
Line(w) == msg[w].line
Method(w) == msg[w].method
GoTo(w, l) == loc' = Set(loc, w, l)

Init ==
  /\ counter = 0
  /\ loc = [w \in Workers |-> "idle"]
  /\ left = [w \in Workers |-> 0]
  /\ msg = [w \in Workers |-> NoMessage]
  /\ closeAsked = [w \in Workers |-> FALSE]
  /\ status = [w \in Workers |-> -1]
  /\ filled = [w \in Workers |-> FALSE]
  /\ number = [w \in Workers |-> 0]
  /\ said = [w \in Workers |-> FALSE]
  /\ sent = [w \in Workers |-> FALSE]
  /\ outcome = "run"

-----------------------------------------------------------------------------
(* Routes *)

GetRoutes ==
  << "/status.json", "/status.html", "/ajax/", "", "/", "^/?$", "/login", "/register",
     "/profile", "/images/" >> \o PluginRoutes
PostRoutes == << "/ajax/", "/ajax/login", "/register" >>

RoutesOf(method) ==
  IF method \in {"GET", "HEAD"} THEN GetRoutes
  ELSE IF method = "POST" THEN PostRoutes ELSE <<>>

(* std::regex_match of the path *)
Matches(pattern, path) ==
  IF pattern = "^/?$" THEN path \in {"", "/"} ELSE path = pattern

(* The first handler, in the order of registration, whose pattern matches. *)
MatchingRoutes(m) ==
  {i \in DOMAIN RoutesOf(m.method) : Matches(RoutesOf(m.method)[i], m.path)}
FirstRoute(m) == CHOOSE i \in MatchingRoutes(m) : \A j \in MatchingRoutes(m) : i <= j
RouteOf(m) == RoutesOf(m.method)[FirstRoute(m)]

(* handle_file_request: for GET and HEAD only, before any handler. *)
IsFile(m) == m.method \in {"GET", "HEAD"} /\ m.path \in Files

(* detail::expect_content *)
ExpectsContent(m) == m.method \in {"POST", "PUT", "PATCH", "PRI", "DELETE"}

(* read_content and what it calls: 0 when the body was read, else the      *)
(* status of the refusal.  The library is built without zlib.              *)
BodyRefusal(m) ==
  IF m.body \in {"complete", "chunked", "until closed", "form"} THEN 0
  ELSE IF m.body = "gzip" THEN 415
  ELSE IF m.body = "too long" THEN 413 ELSE 400

-----------------------------------------------------------------------------
(* process_socket *)

(* A job gives the worker a connection. *)
TakeConnection(w) ==
  /\ loc[w] = "idle"
  /\ left' = Set(left, w, KeepAliveMax)
  /\ GoTo(w, "wait")
  /\ UNCHANGED <<counter, requestVars, responseVars, outcome>>

(* The requests that no handler has counted yet. *)
Uncounted == {w \in Workers : loc[w] \in {"read", "route", "content", "dispatch"}}

(* select_read: something comes within five seconds, and process_request   *)
(* starts.                                                                 *)
Receive(w, m) ==
  /\ loc[w] = "wait"
  /\ counter + Cardinality(Uncounted) < MaxRequests
  /\ GoTo(w, "read")
  /\ msg' = Set(msg, w, m)
  /\ UNCHANGED <<counter, left, closeAsked, number, responseVars, outcome>>

(* Nothing comes, or the connection ends; with SSL, its handshake fails,   *)
(* before the same loop.                                                   *)
GiveUp(w) ==
  /\ loc[w] = "wait"
  /\ GoTo(w, "idle")
  /\ UNCHANGED <<counter, left, requestVars, responseVars, outcome>>

-----------------------------------------------------------------------------
(* process_request *)

(* The connection ended before a line: no answer. *)
NoLine(w) ==
  /\ Line(w) = "none"
  /\ GoTo(w, "next")
  /\ UNCHANGED <<status, closeAsked, outcome>>

(* A line that is too long or does not parse is answered with an empty     *)
(* Request; so are headers that end early ("cut"), with those read so far. *)
Refuse(w) ==
  /\ Line(w) \in {"long", "bad", "cut"}
  /\ GoTo(w, "write")
  /\ status' = Set(status, w, IF Line(w) = "long" THEN 414 ELSE 400)
  /\ UNCHANGED <<closeAsked, outcome>>

AsksToClose(m) ==
  \/ m.connection = "close"
  \/ m.version = "1.0" /\ m.connection # "Keep-Alive"

Overflows(m) == m.range = "overflow"

ReadHeaders(w) ==
  /\ Line(w) = "good" /\ ~Overflows(msg[w])
  /\ GoTo(w, "route")
  /\ closeAsked' = Set(closeAsked, w, AsksToClose(msg[w]))
  /\ UNCHANGED <<status, outcome>>

(* parse_range_header: a number that no long long holds is an exception    *)
(* that nobody catches.                                                    *)
RangeOverflows(w) ==
  /\ Line(w) = "good" /\ Overflows(msg[w])
  /\ outcome' = "terminated"
  /\ UNCHANGED <<loc, status, closeAsked>>

ReadRequest(w) ==
  /\ loc[w] = "read"
  /\ NoLine(w) \/ Refuse(w) \/ ReadHeaders(w) \/ RangeOverflows(w)
  /\ UNCHANGED <<counter, left, msg, number, filled, said, sent>>

(* Server::routing: a file of the web root, else the content is read, else *)
(* the handlers of the method are tried; other methods are refused.        *)
ServeFile(w) ==
  /\ GoTo(w, "write")
  /\ status' = Set(status, w, 200)
  /\ filled' = Set(filled, w, TRUE)

GoOn(w) ==
  /\ GoTo(w, IF ExpectsContent(msg[w]) THEN "content" ELSE "dispatch")
  /\ UNCHANGED <<status, filled>>

Route(w) ==
  /\ loc[w] = "route"
  /\ IF IsFile(msg[w]) THEN ServeFile(w) ELSE GoOn(w)
  /\ UNCHANGED <<counter, left, requestVars, said, sent, outcome>>

(* MultipartFormDataParser::parse, given a buffer that ends inside the     *)
(* headers of a part, loops over it for ever.                              *)
CutForm(m) == m.body = "cut form"
Stick(w) == CutForm(msg[w]) /\ GoTo(w, "spin") /\ UNCHANGED status

ReadUnchecked(w) ==
  /\ ~CutForm(msg[w])
  /\ GoTo(w, "dispatch")
  /\ status' = Set(status, w, IF BodyRefusal(msg[w]) = 0 THEN -1 ELSE BodyRefusal(msg[w]))
Read(w) ==
  /\ ~CutForm(msg[w])
  /\ IF BodyRefusal(msg[w]) = 0
     THEN GoTo(w, "dispatch") /\ UNCHANGED status
     ELSE GoTo(w, "write") /\ status' = Set(status, w, BodyRefusal(msg[w]))

ReadContent(w) ==
  /\ loc[w] = "content"
  /\ Stick(w) \/ Read(w)
  /\ UNCHANGED <<counter, left, requestVars, filled, said, sent, outcome>>

(* hcv_incremented_request_counter: an atomic increment. *)
NoCount == UNCHANGED counter
Count == counter' = counter + 1

(* Server::dispatch_request: the handler is called and starts by counting  *)
(* the request; without one the answer is 404, and 400 for the methods     *)
(* that have no list of handlers.                                          *)
Call(w) ==
  /\ Count
  /\ number' = Set(number, w, counter + 1)
  /\ GoTo(w, "view")
  /\ UNCHANGED status

Unrouted(m) == IF m.method \in {"CONNECT", "TRACE", "PRI"} THEN 400 ELSE 404

NoHandler(w) ==
  /\ GoTo(w, "write")
  /\ status' = Set(status, w, Unrouted(msg[w]))
  /\ UNCHANGED <<counter, number>>

Dispatch(w) ==
  /\ loc[w] = "dispatch"
  /\ IF MatchingRoutes(msg[w]) # {} THEN Call(w) ELSE NoHandler(w)
  /\ UNCHANGED <<left, msg, closeAsked, filled, said, sent, outcome>>

-----------------------------------------------------------------------------
(* Handlers and views *)

(* Those that make an HTML page abort on a method that is not GET.         *)
Pages == {"", "/", "^/?$", "/login", "/register", "/profile"}

Fatal(w) == outcome' = "fatal" /\ UNCHANGED <<loc, status, filled>>

Done(w, code, content) ==
  /\ GoTo(w, "write")
  /\ status' = Set(status, w, code)
  /\ filled' = Set(filled, w, content)
  /\ UNCHANGED outcome

Success(m) == IF m.range = "none" THEN 200 ELSE 206

(* A template that cannot be expanded is fatal (see Pages), a cookie that  *)
(* cannot be registered too (see Database).  What a closure throws during  *)
(* the expansion is caught by dispatch_request and answered 500.           *)
PageView(w) ==
  /\ RouteOf(msg[w]) \in Pages /\ Method(w) \in {"GET", "HEAD"}
  /\ \/ Fatal(w)
     \/ Method(w) = "GET" /\ (Done(w, Success(msg[w]), TRUE) \/ Done(w, 500, FALSE))

(* /ajax/ and /images/ do nothing but log. *)
EmptyView(w) == RouteOf(msg[w]) \in {"/ajax/", "/images/"} /\ Done(w, Success(msg[w]), FALSE)

(* The status pages, and the registration form, which is not implemented,  *)
(* answer with what they know of the process and of the request.           *)
RegisterPost(w) == RouteOf(msg[w]) = "/register" /\ Method(w) = "POST"

StatusView(w) ==
  /\ RouteOf(msg[w]) \in {"/status.json", "/status.html"} \/ RegisterPost(w)
  /\ Done(w, Success(msg[w]), TRUE)

(* A login runs the statement "user_get_password_by_email", which the      *)
(* models registered under that name and "_pstm": an exception, unless a   *)
(* plugin registered it (see Database), and the answer is 500.             *)
LoginView(w) ==
  /\ RouteOf(msg[w]) = "/ajax/login"
  /\ Done(w, Success(msg[w]), TRUE) \/ Done(w, 500, FALSE)

PluginView(w) ==
  /\ \E i \in DOMAIN PluginRoutes : RouteOf(msg[w]) = PluginRoutes[i]
  /\ Done(w, Success(msg[w]), TRUE) \/ Done(w, 500, FALSE)

View(w) ==
  /\ loc[w] = "view"
  /\ PageView(w) \/ EmptyView(w) \/ StatusView(w) \/ LoginView(w) \/ PluginView(w)
  /\ UNCHANGED <<counter, left, requestVars, said, sent>>

-----------------------------------------------------------------------------
(* write_response and the end of process_socket *)

(* What the header Connection of the response says, when it says close. *)
AskedToClose(w) == Line(w) \in {"good", "cut"} /\ msg[w].connection = "close"
SaysCloseIfAsked(w) == AskedToClose(w)
SaysClose(w) == left[w] = 1 \/ AskedToClose(w)

(* A range that starts after the end of the body is an exception that      *)
(* nobody catches.                                                         *)
Beyond(w) == Line(w) = "good" /\ msg[w].range = "beyond"

(* hcv_web_error_handler gives the body of an error, with the number it    *)
(* finds in the counter: perhaps that of another request.                  *)
ErrorNumber(w) == IF status[w] >= 400 THEN Set(number, w, counter) ELSE number

(* It expands a template, outside any try: what is fatal there, or thrown, *)
(* ends the process.                                                       *)
EndsInWriting(w, body) ==
  \/ status[w] >= 400 /\ outcome' \in {"fatal", "terminated"}
  \/ body /\ Beyond(w) /\ outcome' = "terminated"

(* A body may fail to be sent. *)
WriteResponse(w) ==
  /\ loc[w] = "write"
  /\ LET body == filled[w] \/ status[w] >= 400
     IN \/ /\ EndsInWriting(w, body)
           /\ UNCHANGED <<loc, number, filled, said, sent>>
        \/ /\ ~(body /\ Beyond(w))
           /\ number' = ErrorNumber(w)
           /\ filled' = Set(filled, w, body)
           /\ said' = Set(said, w, SaysClose(w))
           /\ \E ok \in {TRUE, ~body} : sent' = Set(sent, w, ok)
           /\ GoTo(w, "next")
           /\ UNCHANGED outcome
  /\ UNCHANGED <<counter, left, msg, closeAsked, status>>

(* The loop of process_socket goes on unless process_request returned      *)
(* false, the client asked to close or count is down to zero.              *)
GoesOn(w) == sent[w] /\ ~closeAsked[w]

OnwardsUncounted(w) ==
  /\ left' = left
  /\ GoTo(w, IF GoesOn(w) THEN "wait" ELSE "idle")
OnwardsOnceMore(w) ==
  /\ left' = Set(left, w, IF GoesOn(w) THEN left[w] - 1 ELSE 0)
  /\ GoTo(w, IF GoesOn(w) /\ left[w] > 0 THEN "wait" ELSE "idle")
Onwards(w) ==
  /\ left' = Set(left, w, IF GoesOn(w) THEN left[w] - 1 ELSE 0)
  /\ GoTo(w, IF GoesOn(w) /\ left[w] > 1 THEN "wait" ELSE "idle")

(* process_request returns, and its Request and Response are destroyed. *)
NextRequest(w) ==
  /\ loc[w] = "next"
  /\ Onwards(w)
  /\ msg' = Set(msg, w, NoMessage)
  /\ closeAsked' = Set(closeAsked, w, FALSE)
  /\ status' = Set(status, w, -1)
  /\ filled' = Set(filled, w, FALSE)
  /\ number' = Set(number, w, 0)
  /\ said' = Set(said, w, FALSE)
  /\ sent' = Set(sent, w, FALSE)
  /\ UNCHANGED <<counter, outcome>>

(* What a worker does by itself once a request has come. *)
Work(w) ==
  /\ outcome = "run"
  /\ \/ ReadRequest(w) \/ Route(w) \/ ReadContent(w) \/ Dispatch(w) \/ View(w)
     \/ WriteResponse(w) \/ NextRequest(w)

Talk(w) ==
  /\ outcome = "run"
  /\ GiveUp(w) \/ \E m \in Messages : Receive(w, m)

Start(w) == outcome = "run" /\ TakeConnection(w)

Next == \E w \in Workers : Work(w) \/ Talk(w) \/ Start(w)

Spec == Init /\ [][Next]_vars

(* Every read of a socket ends within five seconds, and clients send       *)
(* lines, headers and bodies that end: bytes that trickle in, each within  *)
(* the five seconds, have no other limit, and leave the job stuck, as      *)
(* "spin" does (see WebServer!Stick).                                      *)
FairSpec == Spec /\ \A w \in Workers : WF_vars(Work(w) \/ Talk(w))
-----------------------------------------------------------------------------
(* Properties *)

TypeOK ==
  /\ counter \in 0..MaxRequests
  /\ loc \in [Workers -> Locations]
  /\ left \in [Workers -> 0..KeepAliveMax]
  /\ msg \in [Workers -> Messages \cup {NoMessage}]
  /\ closeAsked \in [Workers -> BOOLEAN]
  /\ status \in [Workers -> {-1, 200, 206, 400, 404, 413, 414, 415, 500}]
  /\ filled \in [Workers -> BOOLEAN]
  /\ number \in [Workers -> 0..MaxRequests]
  /\ said \in [Workers -> BOOLEAN]
  /\ sent \in [Workers -> BOOLEAN]
  /\ outcome \in {"run", "fatal", "terminated"}

(* Requests that are in a handler at the same time have different numbers, *)
(* from 1 to the value of the counter: the logs and the pages that cite a  *)
(* number (hcv_web.cc, "req#") cite one request.                           *)
Handled(w) == loc[w] = "view"
NumbersUnique ==
  /\ \A w \in Workers : Handled(w) => number[w] \in 1..counter
  /\ \A v, w \in Workers : Handled(v) /\ Handled(w) /\ v # w => number[v] # number[w]

(* What each message should be answered with, whatever the connection saw  *)
(* before it and whatever the other workers do.  A request for a file is   *)
(* answered 200 even when it asks for a range.                             *)
Expected(m) ==
  IF m.line = "long" THEN {414}
  ELSE IF m.line # "good" THEN {400}
  ELSE IF IsFile(m) THEN {200}
  ELSE IF ExpectsContent(m) /\ BodyRefusal(m) # 0 THEN {BodyRefusal(m)}
  ELSE IF MatchingRoutes(m) = {} THEN {Unrouted(m)}
  ELSE {Success(m), 500}
AnswerFits == \A w \in Workers : loc[w] = "write" => status[w] \in Expected(msg[w])

(* A connection is kept open after an answer exactly when the answer did   *)
(* not announce its end: no client of HTTP 1.1 sends a request to a        *)
(* connection that is being closed, and none waits for one to be.          *)
(* write_response computes the header, process_socket decides to close.    *)
(* Left out: a header that was cut short, and HTTP 1.0.                    *)
Answered(w) == loc[w] = "next" /\ sent[w] /\ Line(w) \in {"long", "bad", "good"}
EndIsAnnounced(w) ==
  Answered(w) /\ loc'[w] = "idle" => said[w] \/ (Line(w) = "good" /\ msg[w].version = "1.0")
AnnouncedEnds(w) == Answered(w) /\ loc'[w] = "wait" => ~said[w]
CloseIffAnnounced == [][\A w \in Workers : EndIsAnnounced(w) /\ AnnouncedEnds(w)]_vars

(* A worker is done with its connection some day, so that the jobs of the  *)
(* pool end (as WebServer says of those that are not stuck), unless a form *)
(* leaves it in the loop of the parser.                                    *)
ConnectionEnds ==
  \A w \in Workers :
    loc[w] # "idle" ~> loc[w] \in {"idle", "spin"} \/ outcome # "run"

(* The views that make a page get no other request than GET, as they       *)
(* assert: "called with non GET request" (src/hcv_views.cc:101).           *)
OnlyGetReachesViews ==
  \A w \in Workers : Handled(w) /\ RouteOf(msg[w]) \in Pages => Method(w) = "GET"
==============================================================================
