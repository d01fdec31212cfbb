------------------------------ MODULE Pipeline ------------------------------
(***************************************************************************)
(* Pipeline: one HTTP exchange on its way through the middlewares.  They   *)
(* are layers around the application: the body comes in through all of     *)
(* them, a response goes out through those outside the layer that made it, *)
(* and so does an exception.  Which answers carry the headers, which are   *)
(* logged and with what status depends on the order of the layers.         *)
(*                                                                         *)
(* The application (routes and the handlers of domain errors) reads as     *)
(* much of the body as it wants and answers, or raises.  Outside           *)
(* everything is Starlette's ServerErrorMiddleware, which runs the handler *)
(* of unhandled exceptions.                                                *)
(***************************************************************************)
EXTENDS Integers, Sequences

CONSTANTS MaxBytes,  \* max_request_body_bytes
          MaxBody    \* the longest body a client sends

ASSUME BytesAreNatural == MaxBytes \in Nat /\ MaxBody \in Nat

VARIABLES
    path,       \* what the access log distinguishes
    declared,   \* Content-Length
    left,       \* bytes of the body still to come
    received,   \* `received` of BodySizeLimitMiddleware
    delivered,  \* bytes the application was given
    stage,      \* where control is
    answer,     \* the start of the response, as the client gets it
    seen,       \* `status` of AccessLogMiddleware
    logged,     \* the event http.request
    early       \* the response started before the body was too large (history)

body == <<declared, left, received, delivered>>
vars == <<path, declared, left, received, delivered, stage, answer, seen, logged, early>>

Absent == -1
Statuses == {200, 401, 413, 422, 500, 501}
NoAnswer == [status |-> 0, marks |-> {}]
NotLogged == [status |-> 0, level |-> "none"]

\* Outermost first.  Mutant of Stack: the limit is outside the access log.
StackLimitOutside == <<"RequestId", "SecurityHeaders", "BodySizeLimit", "AccessLog", "CORS">>

\* Mutant of Stack: the limit is outside the headers.
StackHeadersInside == <<"RequestId", "BodySizeLimit", "AccessLog", "SecurityHeaders", "CORS">>

Stack == <<"RequestId", "SecurityHeaders", "AccessLog", "BodySizeLimit", "CORS">>

\* Layer m is outside layer n; the application is inside all of them.
Place(layer) == CHOOSE n \in 1..Len(Stack) : Stack[n] = layer
Outside(layer) == {Stack[n] : n \in 1..(Place(layer) - 1)}
Everything == {Stack[n] : n \in 1..Len(Stack)}
Marking == {"RequestId", "SecurityHeaders"}

TypeOK ==
    /\ path \in {"api", "refresh", "ignored"}
    /\ declared \in {Absent} \cup 0..MaxBody
    /\ left \in 0..MaxBody
    /\ received \in 0..MaxBody
    /\ delivered \in 0..MaxBody
    /\ stage \in {"arrived", "app", "reject", "return", "raise", "outer", "done"}
    /\ answer \in [status : Statuses \cup {0}, marks : SUBSET Marking]
    /\ seen \in Statuses
    /\ logged \in [status : Statuses \cup {0}, level : {"none", "INFO", "WARNING", "ERROR"}]
    /\ early \in BOOLEAN

\* The server sees to it that a declared length is the real one.
Init ==
    /\ path \in {"api", "refresh", "ignored"}
    /\ left \in 0..MaxBody
    /\ declared \in {Absent, left}
    /\ received = 0
    /\ delivered = 0
    /\ stage = "arrived"
    /\ answer = NoAnswer
    /\ seen = 500
    /\ logged = NotLogged
    /\ early = FALSE
-----------------------------------------------------------------------------
\* http.response.start, sent by something inside the layers `through`.
Send(status, through) ==
    /\ answer' = [status |-> status, marks |-> through \cap Marking]
    /\ seen' = IF "AccessLog" \in through THEN status ELSE seen

\* BodySizeLimitMiddleware: the declared length is too large already.
Arrive ==
    /\ stage = "arrived"
    /\ stage' = IF declared > MaxBytes THEN "reject" ELSE "app"
    /\ UNCHANGED <<path, body, answer, seen, logged, early>>

\* Mutant of TooLarge: each message is measured alone.
ThisMessageTooLarge(sum, bytes) == bytes > MaxBytes

TooLarge(sum, bytes) == sum > MaxBytes

\* counting_receive: the application asks for the next message of the body.
Receive ==
    /\ stage = "app"
    /\ \E bytes \in 1..left :
        /\ left' = left - bytes
        /\ received' = received + bytes
        /\ IF TooLarge(received', bytes)
           THEN /\ stage' = IF answer = NoAnswer THEN "reject" ELSE "return"
                /\ early' = (answer # NoAnswer)
                /\ UNCHANGED delivered
           ELSE delivered' = delivered + bytes /\ UNCHANGED <<stage, early>>
    /\ UNCHANGED <<path, declared, answer, seen, logged>>

\* _reject
Reject ==
    /\ stage = "reject"
    /\ Send(413, Outside("BodySizeLimit"))
    /\ stage' = "return"
    /\ UNCHANGED <<path, body, logged, early>>

\* CORSMiddleware answers a preflight itself.
Preflight ==
    /\ stage = "app" /\ answer = NoAnswer /\ received = 0
    /\ Send(200, Outside("CORS"))
    /\ stage' = "return"
    /\ UNCHANGED <<path, body, logged, early>>

\* A route, or the handler of a DomainError, an HTTPException or a
\* RequestValidationError, none of which leaves the application.
Respond ==
    /\ stage = "app" /\ answer = NoAnswer
    /\ \E status \in {200, 401, 422, 501} : Send(status, Everything)
    /\ UNCHANGED <<path, body, stage, logged, early>>

Finish ==
    /\ stage = "app" /\ answer # NoAnswer
    /\ stage' = "return"
    /\ UNCHANGED <<path, body, answer, seen, logged, early>>

\* Any other exception, before or after the response started.
Raise ==
    /\ stage = "app"
    /\ stage' = "raise"
    /\ UNCHANGED <<path, body, answer, seen, logged, early>>
-----------------------------------------------------------------------------
\* An anonymous visitor's 401 of /auth/refresh is no warning.
Level(status) ==
    CASE status >= 500 -> "ERROR"
      [] status \in 400..499 /\ ~(status = 401 /\ path = "refresh") -> "WARNING"
      [] OTHER -> "INFO"

\* AccessLogMiddleware, on the way out of a return or an exception.
Log ==
    /\ stage \in {"return", "raise"}
    /\ logged' = IF path = "ignored" THEN logged ELSE [status |-> seen, level |-> Level(seen)]
    /\ stage' = IF stage = "raise" THEN "outer" ELSE "done"
    /\ UNCHANGED <<path, body, answer, seen, early>>

\* ServerErrorMiddleware with unhandled_exception_handler: a 500 if nothing
\* was sent; otherwise the connection is closed.
AnswerUnhandled ==
    /\ stage = "outer"
    /\ IF answer = NoAnswer THEN Send(500, {}) ELSE UNCHANGED <<answer, seen>>
    /\ stage' = "done"
    /\ UNCHANGED <<path, body, logged, early>>

Next ==
    \/ Arrive \/ Receive \/ Reject \/ Preflight \/ Respond \/ Finish \/ Raise
    \/ Log \/ AnswerUnhandled

Spec == Init /\ [][Next]_vars
-----------------------------------------------------------------------------
(***************************************************************************)
(* "Cuerpos > 1 MB se rechazan con 413, tambien si llegan por trozos"      *)
(* (README.md): the application never gets more than the limit, and when   *)
(* more arrived the client is told so, unless the answer was on its way.   *)
(***************************************************************************)
OversizeIsRefused ==
    /\ delivered <= MaxBytes
    /\ stage = "done" /\ (declared > MaxBytes \/ received > MaxBytes) =>
            answer.status = 413 \/ early

(***************************************************************************)
(* The access log tells what the client was told, whichever layer          *)
(* answered: the status is the same, and a failure of the server is an     *)
(* error.                                                                  *)
(***************************************************************************)
LogTellsTheAnswer ==
    stage = "done" /\ path # "ignored" =>
        /\ logged.status = answer.status
        /\ answer.status >= 500 <=> logged.level = "ERROR"

(***************************************************************************)
(* "Cabeceras en toda respuesta" (README.md), and the X-Request-ID: on     *)
(* every answer that a layer or the application made, the 413 included,    *)
(* and missing only on the 500 of an unhandled exception, which is sent    *)
(* from outside all layers.                                                *)
(***************************************************************************)
HeadersOnEveryAnswer ==
    answer.status \notin {0, 500} => answer.marks = Marking
=============================================================================
