-------------------------- MODULE Pipeline_proofs ---------------------------
(***************************************************************************)
(* Proofs about Pipeline, for any limit and bodies of any length.          *)
(***************************************************************************)
EXTENDS Pipeline, TLAPS

USE DEF body

(***************************************************************************)
(* The order of the layers: the limit and CORS are inside the layers that  *)
(* mark and log, so that what they answer goes through both.               *)
(***************************************************************************)
LEMMA StackLayers ==
    /\ Len(Stack) = 5
    /\ Stack[1] = "RequestId" /\ Stack[2] = "SecurityHeaders" /\ Stack[3] = "AccessLog"
    /\ Stack[4] = "BodySizeLimit" /\ Stack[5] = "CORS"
  BY DEF Stack

LEMMA PlaceIs ==
    ASSUME NEW m \in 1..5 PROVE Place(Stack[m]) = m
<1>1. \A n \in 1..Len(Stack) : Stack[n] = Stack[m] <=> n = m
  BY StackLayers
<1>2. m \in 1..Len(Stack)
  BY StackLayers
<1> QED BY <1>1, <1>2 DEF Place

LEMMA AnswersGoThroughTheMarks ==
    /\ Outside("BodySizeLimit") \cap Marking = Marking /\ "AccessLog" \in Outside("BodySizeLimit")
    /\ Outside("CORS") \cap Marking = Marking /\ "AccessLog" \in Outside("CORS")
    /\ Everything \cap Marking = Marking /\ "AccessLog" \in Everything
<1>1. Place("BodySizeLimit") = 4 /\ Place("CORS") = 5
  BY StackLayers, PlaceIs
<1>2. /\ Outside("BodySizeLimit") = {Stack[n] : n \in 1..3}
      /\ Outside("CORS") = {Stack[n] : n \in 1..4}
      /\ Everything = {Stack[n] : n \in 1..5}
  BY <1>1, StackLayers DEF Outside, Everything
<1>3. \A m \in {3, 4, 5} : {"RequestId", "SecurityHeaders", "AccessLog"} \subseteq {Stack[n] : n \in 1..m}
  BY StackLayers
<1> HIDE DEF Outside, Everything
<1> QED BY <1>2, <1>3 DEF Marking

(***************************************************************************)
(* Types, with what the numbers of bytes have to do with each other.       *)
(***************************************************************************)
Bytes ==
    /\ declared \in {Absent} \cup 0..MaxBody
    /\ left \in Nat /\ received \in Nat /\ delivered \in Nat
    /\ received + left <= MaxBody
    /\ delivered <= received /\ delivered <= MaxBytes

Starts == [status : Statuses \cup {0}, marks : SUBSET Marking]

Control ==
    /\ path \in {"api", "refresh", "ignored"}
    /\ stage \in {"arrived", "app", "reject", "return", "raise", "outer", "done"}
    /\ answer \in Starts
    /\ seen \in Statuses
    /\ logged \in [status : Statuses \cup {0}, level : {"none", "INFO", "WARNING", "ERROR"}]
    /\ early \in BOOLEAN

LEMMA SendTypes ==
    ASSUME Control, NEW status \in Statuses, NEW through, Send(status, through)
    PROVE  /\ answer' \in Starts /\ seen' \in Statuses
           /\ answer'.status = status /\ answer'.marks = through \cap Marking
           /\ "AccessLog" \in through => seen' = status
           /\ answer' # NoAnswer
<1>1. seen' \in Statuses /\ ("AccessLog" \in through => seen' = status)
  BY DEF Send, Control
<1>2. /\ answer' = [status |-> status, marks |-> through \cap Marking]
      /\ status # 0
  BY DEF Send, Statuses
<1>3. answer'.status = status /\ answer'.marks = through \cap Marking
  BY <1>2
<1>4. NoAnswer.status = 0
  BY DEF NoAnswer
<1>5. through \cap Marking \subseteq Marking
  OBVIOUS
<1> QED BY <1>1, <1>2, <1>3, <1>4, <1>5 DEF Starts

LEMMA BytesStep == ASSUME Bytes, [Next]_vars PROVE Bytes'
<1>1. CASE Receive
  <2>1. PICK bytes \in 1..left :
            /\ left' = left - bytes /\ received' = received + bytes
            /\ IF TooLarge(received', bytes) THEN UNCHANGED delivered ELSE delivered' = delivered + bytes
    BY <1>1 DEF Receive
  <2>2. declared' = declared
    BY <1>1 DEF Receive
  <2>3. MaxBytes \in Int /\ MaxBody \in Int /\ bytes \in Int
    BY BytesAreNatural
  <2> QED BY <2>1, <2>2, <2>3, BytesAreNatural DEF Bytes, TooLarge
<1>2. CASE UNCHANGED body
  BY <1>2 DEF Bytes
<1> QED BY <1>1, <1>2 DEF Next, vars, Arrive, Reject, Preflight, Respond, Finish, Raise, Log,
                          AnswerUnhandled

LEMMA LogLevels ==
    ASSUME Control
    PROVE  /\ Level(seen) \in {"INFO", "WARNING", "ERROR"}
           /\ Level(seen) = "ERROR" <=> seen >= 500
<1>1. seen \in {200, 401, 413, 422, 500, 501}
  BY DEF Control, Statuses
<1> QED BY <1>1 DEF Level

LEMMA ControlStep == ASSUME Control, [Next]_vars PROVE Control'
<1>1. CASE Arrive \/ Receive \/ Finish \/ Raise
  BY <1>1 DEF Arrive, Receive, Finish, Raise, Control
<1>2. CASE Reject
  BY <1>2, SendTypes DEF Reject, Control, Statuses
<1>3. CASE Preflight
  BY <1>3, SendTypes DEF Preflight, Control, Statuses
<1>4. CASE Respond
  BY <1>4, SendTypes DEF Respond, Control, Statuses
<1>5. CASE Log
  BY <1>5, LogLevels DEF Log, Control
<1>6. CASE AnswerUnhandled
  BY <1>6, SendTypes DEF AnswerUnhandled, Control, Statuses
<1>7. CASE UNCHANGED vars
  BY <1>7 DEF vars, Control
<1> QED BY <1>1, <1>2, <1>3, <1>4, <1>5, <1>6, <1>7 DEF Next

LEMMA TypeInit == ASSUME Init PROVE Bytes /\ Control
<1>1. Bytes
  BY BytesAreNatural DEF Init, Bytes
<1>2. answer \in Starts
  BY DEF Init, NoAnswer, Starts, Marking
<1>3. logged \in [status : Statuses \cup {0}, level : {"none", "INFO", "WARNING", "ERROR"}]
  BY DEF Init, NotLogged
<1>4. seen \in Statuses
  BY DEF Init, Statuses
<1> QED BY <1>1, <1>2, <1>3, <1>4 DEF Init, Control

LEMMA TypeNext == ASSUME Bytes, Control, [Next]_vars PROVE Bytes' /\ Control'
  BY BytesStep, ControlStep

(***************************************************************************)
(* The exchange keeps its types.                                           *)
(***************************************************************************)
THEOREM TypeCorrect == Spec => []TypeOK
<1>1. Bytes /\ Control => TypeOK
  <2> SUFFICES ASSUME Bytes, Control PROVE TypeOK
    OBVIOUS
  <2>1. left \in 0..MaxBody /\ received \in 0..MaxBody /\ delivered \in 0..MaxBody
    BY BytesAreNatural DEF Bytes
  <2> QED BY <2>1 DEF Bytes, Control, Starts, TypeOK
<1>2. Bytes /\ Control /\ [Next]_vars => Bytes' /\ Control'
  BY TypeNext
<1> QED BY TypeInit, <1>1, <1>2, PTL DEF Spec
-----------------------------------------------------------------------------
(***************************************************************************)
(* OversizeIsRefused.  While the application runs, the body is not too     *)
(* large; once it is, the answer is a 413 or was on its way.               *)
(***************************************************************************)
Oversize == declared > MaxBytes \/ received > MaxBytes

SizeInv ==
    /\ stage = "arrived" => received = 0
    /\ stage \in {"app", "raise"} => ~Oversize
    /\ stage \in {"return", "outer", "done"} /\ Oversize => answer.status = 413 \/ early

LEMMA SizeStep == ASSUME Bytes, Control, SizeInv, [Next]_vars PROVE SizeInv'
<1>1. MaxBytes \in Nat /\ declared \in Int /\ received \in Nat
  BY BytesAreNatural DEF Bytes, Absent
<1>2. CASE Arrive
  BY <1>1, <1>2 DEF Arrive, SizeInv, Oversize
<1>3. CASE Receive
  BY <1>1, <1>3 DEF Receive, TooLarge, SizeInv, Oversize
<1>4. CASE Reject
  BY <1>4, SendTypes DEF Reject, SizeInv, Oversize, Statuses
<1>5. CASE Preflight \/ Respond \/ Finish \/ Raise
  BY <1>5 DEF Preflight, Respond, Finish, Raise, SizeInv, Oversize
<1>6. CASE Log
  BY <1>6 DEF Log, SizeInv, Oversize
<1>7. CASE AnswerUnhandled
  <2>1. NoAnswer.status = 0
    BY DEF NoAnswer
  <2> QED BY <1>7, <2>1 DEF AnswerUnhandled, SizeInv, Oversize
<1>8. CASE UNCHANGED vars
  BY <1>8 DEF vars, SizeInv, Oversize
<1> QED BY <1>2, <1>3, <1>4, <1>5, <1>6, <1>7, <1>8 DEF Next

(***************************************************************************)
(* The application never gets more than the limit, and the client of a     *)
(* longer body is told so, unless its answer was on the way.               *)
(***************************************************************************)
THEOREM OversizeIsAlwaysRefused == Spec => []OversizeIsRefused
<1>1. Init => SizeInv
  BY DEF Init, SizeInv
<1>2. Bytes /\ Control /\ SizeInv /\ [Next]_vars => Bytes' /\ Control' /\ SizeInv'
  BY TypeNext, SizeStep
<1>3. Bytes /\ SizeInv => OversizeIsRefused
  BY DEF Bytes, SizeInv, Oversize, OversizeIsRefused
<1> QED BY TypeInit, <1>1, <1>2, <1>3, PTL DEF Spec
-----------------------------------------------------------------------------
(***************************************************************************)
(* LogTellsTheAnswer.  Whatever answers inside the access log passes it,   *)
(* so that it has seen the status of the answer; with no answer it assumes *)
(* the 500 that will be sent outside of it.                                *)
(***************************************************************************)
Foreseen == IF answer = NoAnswer THEN 500 ELSE answer.status

LogInv ==
    /\ stage \notin {"outer", "done"} => seen = Foreseen
    /\ stage \in {"return", "done"} => answer # NoAnswer
    /\ stage \in {"arrived", "reject"} => answer = NoAnswer
    /\ stage \in {"outer", "done"} /\ path # "ignored" =>
            logged.status = Foreseen /\ (logged.level = "ERROR" <=> Foreseen >= 500)

LEMMA SentStatus ==
    ASSUME Control, NEW status \in Statuses, NEW through, Send(status, through)
    PROVE  Foreseen' = status /\ answer' # NoAnswer
  BY SendTypes DEF Foreseen

LEMMA LogStep == ASSUME Control, LogInv, [Next]_vars PROVE LogInv'
<1>1. CASE Arrive \/ Receive \/ Finish \/ Raise
  BY <1>1 DEF Arrive, Receive, Finish, Raise, LogInv, Foreseen
<1>2. ASSUME NEW status \in Statuses, NEW through, Send(status, through), "AccessLog" \in through,
             stage' \in {"app", "return"}
      PROVE  LogInv'
  BY <1>2, SendTypes, SentStatus DEF LogInv
<1>3. CASE Reject
  BY <1>2, <1>3, AnswersGoThroughTheMarks DEF Reject, Statuses
<1>4. CASE Preflight
  BY <1>2, <1>4, AnswersGoThroughTheMarks DEF Preflight, Statuses
<1>5. CASE Respond
  BY <1>2, <1>5, AnswersGoThroughTheMarks DEF Respond, Statuses
<1>6. CASE Log
  <2>1. Foreseen' = Foreseen /\ seen = Foreseen
    BY <1>6 DEF Log, LogInv, Foreseen
  <2>2. path # "ignored" => logged' = [status |-> seen, level |-> Level(seen)]
    BY <1>6 DEF Log
  <2>3. path # "ignored" => logged'.status = seen /\ (logged'.level = "ERROR" <=> seen >= 500)
    BY <2>2, LogLevels
  <2> QED BY <1>6, <2>1, <2>3 DEF Log, LogInv
<1>7. CASE AnswerUnhandled
  <2>1. CASE answer = NoAnswer
    <3>1. Send(500, {}) /\ 500 \in Statuses
      BY <1>7, <2>1 DEF AnswerUnhandled, Statuses
    <3>2. Foreseen' = 500 /\ answer' # NoAnswer /\ Foreseen = 500
      BY <2>1, <3>1, SentStatus DEF Foreseen
    <3> QED BY <1>7, <3>2 DEF AnswerUnhandled, LogInv
  <2>2. CASE answer # NoAnswer
    BY <1>7, <2>2 DEF AnswerUnhandled, LogInv, Foreseen
  <2> QED BY <2>1, <2>2
<1>8. CASE UNCHANGED vars
  BY <1>8 DEF vars, LogInv, Foreseen
<1> QED BY <1>1, <1>3, <1>4, <1>5, <1>6, <1>7, <1>8 DEF Next

(***************************************************************************)
(* The access log tells what the client was told, whichever layer          *)
(* answered.                                                               *)
(***************************************************************************)
THEOREM LogAlwaysTellsTheAnswer == Spec => []LogTellsTheAnswer
<1>1. Init => LogInv
  BY DEF Init, LogInv, Foreseen
<1>2. Bytes /\ Control /\ LogInv /\ [Next]_vars => Bytes' /\ Control' /\ LogInv'
  BY TypeNext, LogStep
<1>3. LogInv => LogTellsTheAnswer
  BY DEF LogInv, Foreseen, LogTellsTheAnswer
<1> QED BY TypeInit, <1>1, <1>2, <1>3, PTL DEF Spec
-----------------------------------------------------------------------------
LEMMA HeadersStep ==
    ASSUME Control, HeadersOnEveryAnswer, [Next]_vars
    PROVE  HeadersOnEveryAnswer'
<1>1. ASSUME NEW status \in Statuses, NEW through, Send(status, through),
             through \cap Marking = Marking
      PROVE  HeadersOnEveryAnswer'
  BY <1>1, SendTypes DEF HeadersOnEveryAnswer
<1>2. CASE Reject
  BY <1>1, <1>2, AnswersGoThroughTheMarks DEF Reject, Statuses
<1>3. CASE Preflight
  BY <1>1, <1>3, AnswersGoThroughTheMarks DEF Preflight, Statuses
<1>4. CASE Respond
  BY <1>1, <1>4, AnswersGoThroughTheMarks DEF Respond, Statuses
<1>5. CASE AnswerUnhandled
  BY <1>5, SendTypes DEF AnswerUnhandled, HeadersOnEveryAnswer, Statuses
<1>6. CASE answer' = answer
  BY <1>6 DEF HeadersOnEveryAnswer
<1> QED BY <1>2, <1>3, <1>4, <1>5, <1>6 DEF Next, vars, Arrive, Receive, Finish, Raise, Log

(***************************************************************************)
(* Every answer that a layer or the application made has the X-Request-ID  *)
(* and the security headers.                                               *)
(***************************************************************************)
THEOREM HeadersAreOnEveryAnswer == Spec => []HeadersOnEveryAnswer
<1>1. Init => HeadersOnEveryAnswer
  BY DEF Init, HeadersOnEveryAnswer, NoAnswer
<1>2. Bytes /\ Control /\ HeadersOnEveryAnswer /\ [Next]_vars
      => Bytes' /\ Control' /\ HeadersOnEveryAnswer'
  BY TypeNext, HeadersStep
<1> QED BY TypeInit, <1>1, <1>2, PTL DEF Spec
=============================================================================
