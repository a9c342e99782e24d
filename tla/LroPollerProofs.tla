-------------------------- MODULE LroPollerProofs --------------------------
(***************************************************************************)
(* Safety of the emitted poller for any number of links and every kind of  *)
(* method.                                                                 *)
(***************************************************************************)
EXTENDS LroPoller, TLAPS

----------------------------------------------------------------------------
(* The inductive invariant. *)

\* Where a poller with this final link looks for the result.
Held(final) == IF final # None THEN final ELSE Origin

\* The operation has been started once the first answer is there.
Started == /\ pc = "initial" => op = "none" /\ monitor = Origin /\ place = Origin
           /\ op = "none" => pc \in {"initial", "sent", "ended"}

\* The links of the poller are those the service has announced last; between an
\* answer and its evaluation they are those it will have.
LinksKept ==
    /\ pc \in {"sent", "more"} => links.next = monitor
    /\ pc = "sent" => url = monitor
    /\ pc \in {"sent", "more", "target"} => place = Held(links.final)
    /\ pc = "answered" => monitor = NextLink(answer) /\ place = Held(FinalLink(answer))
    /\ method.final # "other" => place = Origin

\* A status that ends the poller tells the truth: it is not older than the
\* end of the operation.
StatusTrue == pc = "answered" => /\ Status(answer) = "Succeeded" => op = "succeeded"
                                 /\ Status(answer) = "Failed" => op = "failed"

\* What has not succeeded has a link to poll, so that it does not pass for a
\* PUT or PATCH that was over at once.
LinkUntilSuccess ==
    method.arm = "update" /\ op \in {"running", "failed"} => monitor # Origin

\* There is a result only at the end, and a target only for methods that need
\* one more request.
ResultAtEnd == /\ result # NoResult => pc = "ended"
               /\ pc = "target" => method.final # "polling"

\* The caller is told nothing before the end.
OutcomeAtEnd == /\ pc \in {"initial", "more", "sent", "answered"} => outcome = "none"
                /\ pc = "target" => outcome = "succeeded"

Inv == TypeOK /\ Started /\ LinksKept /\ StatusTrue /\ LinkUntilSuccess
         /\ ResultAtEnd /\ OutcomeAtEnd /\ ResultDelivered

----------------------------------------------------------------------------
LEMMA MethodFields ==
    ASSUME method \in Methods
    PROVE  /\ method.polling \in BOOLEAN
           /\ method.final \in {"polling", "other", "original"}
           /\ method.arm \in {"none", "update", "post", "delete"}
           /\ method.final = "polling" => method.polling
           /\ method.arm \in {"update", "delete"} => method.final = "polling"
  BY LroAssumption DEF Method

LEMMA LinksTyped ==
    ASSUME TypeOK, NEW r \in Response
    PROVE  /\ NextLink(r) \in Urls
           /\ FinalLink(r) \in Places \cup {None}
           /\ FinalBody(r) \in Bodies
           /\ Status(r) \in {"empty", "InProgress", "Succeeded", "Failed"}
<1>1. r.poll \in Monitors \cup {None} /\ r.final \in Places \cup {None} /\ r.body \in Bodies
  BY DEF Response
<1>2. links.next \in Urls /\ links.final \in Places \cup {None}
  BY DEF TypeOK, Links
<1>3. QED
  BY <1>1, <1>2
  DEF NextLink, FinalLink, FinalBody, StatusBody, Status, Urls, Bodies

LEMMA InitEstablishes == Init => Inv
<1>1. SUFFICES ASSUME Init PROVE Inv
  OBVIOUS
<1>2. links \in Links /\ answer \in Response /\ links.next = Origin /\ links.final = None
  BY <1>1 DEF Init, Links, Urls, NoAnswer, Response, Bodies
<1>3. result \in [from : Urls \cup {None}, body : Bodies]
  BY <1>1 DEF Init, NoResult, Bodies
<1>4. QED
  BY <1>1, <1>2, <1>3
  DEF Init, Inv, TypeOK, Started, LinksKept, StatusTrue, LinkUntilSuccess, ResultAtEnd,
      OutcomeAtEnd, ResultDelivered, Held, Urls

\* What an answer of the service tells, whether or not it is the first one.
LEMMA AnswerTells ==
    ASSUME TypeOK, LinksKept, LinkUntilSuccess, pc = "sent", NEW status,
           NEW r \in Response, Announced(r), Truthful(r, status, op = "none"),
           status \in IF op = "none" THEN {"running", "succeeded", "failed"} ELSE {op}
    PROVE  /\ NextLink(r) = IF r.poll # None THEN r.poll ELSE monitor
           /\ Held(FinalLink(r)) = IF r.final # None THEN r.final ELSE place
           /\ method.arm = "update" /\ status \in {"running", "failed"} => NextLink(r) # Origin
           /\ Status(r) = "Succeeded" => status = "succeeded"
           /\ Status(r) = "Failed" => status = "failed"
<1> USE MethodFields, LroAssumption
<1>1. method \in Methods /\ r.poll \in Monitors \cup {None} /\ r.final \in Places \cup {None}
  BY DEF TypeOK, Response
<1>2. NextLink(r) = IF r.poll # None THEN r.poll ELSE monitor
  BY <1>1 DEF LinksKept, Announced, NextLink
<1>3. Held(FinalLink(r)) = IF r.final # None THEN r.final ELSE place
  BY <1>1 DEF LinksKept, Announced, FinalLink, Held
<1>4. ASSUME method.arm = "update", status \in {"running", "failed"}
      PROVE  NextLink(r) # Origin
  <2>1. CASE r.poll # None
    BY <1>1, <1>2, <2>1
  <2>2. CASE r.poll = None
    <3>1. op # "none" \/ monitor # Origin
      BY <1>1, <1>4, <2>2 DEF Truthful, Unfinished, Finished, Failed
    <3>2. op \in {"running", "failed"} => monitor # Origin
      BY <1>4 DEF LinkUntilSuccess
    <3>3. QED
      BY <1>2, <1>4, <2>2, <3>1, <3>2
  <2>3. QED
    BY <2>1, <2>2
<1>5. status # "succeeded" => ~AtOnce(r) /\ r.body # "Succeeded" /\ r.code # 204
  BY <1>4 DEF AtOnce, Truthful, Unfinished, Failed
<1>6. r.body = "Failed" => status = "failed"
  BY DEF Truthful, Unfinished, Finished
<1>7. QED
  BY <1>2, <1>3, <1>4, <1>5, <1>6 DEF Status, StatusBody

----------------------------------------------------------------------------
(* Every step keeps the invariant. *)

LEMMA HandleKeeps == Inv /\ Handle => Inv'
<1>1. SUFFICES ASSUME Inv, Handle PROVE Inv'
  OBVIOUS
<1> USE <1>1 DEF Inv
<1>2. op' \in IF op = "none" THEN {"running", "succeeded", "failed"} ELSE {op}
  BY DEF Handle
<1>3. PICK r \in Response :
          /\ Announced(r) /\ Truthful(r, op', op = "none")
          /\ answer'  = r
          /\ monitor' = IF r.poll  # None THEN r.poll  ELSE monitor
          /\ place'   = IF r.final # None THEN r.final ELSE place
  BY DEF Handle
<1>4. /\ pc = "sent" /\ pc' = "answered"
      /\ UNCHANGED <<method, url, links, outcome, result>>
  BY DEF Handle
<1>5. /\ NextLink(r) = monitor' /\ Held(FinalLink(r)) = place'
      /\ method.arm = "update" /\ op' \in {"running", "failed"} => NextLink(r) # Origin
      /\ Status(r) = "Succeeded" => op' = "succeeded"
      /\ Status(r) = "Failed" => op' = "failed"
  BY <1>2, <1>3, <1>4, AnswerTells
<1>6. NextLink(r)' = NextLink(r) /\ FinalLink(r)' = FinalLink(r) /\ Status(r)' = Status(r)
  BY <1>4 DEF NextLink, FinalLink, Status, StatusBody, AtOnce
<1>7. TypeOK'
  BY <1>2, <1>3, <1>4 DEF TypeOK, Response
<1>8. Started' /\ LinkUntilSuccess' /\ ResultAtEnd'
  BY <1>2, <1>4, <1>5 DEF TypeOK, Started, LinkUntilSuccess, ResultAtEnd
<1>9. LinksKept'
  <2>1. method.final # "other" => place' = Origin
    BY <1>3 DEF LinksKept, Announced
  <2>2. QED
    BY <1>3, <1>4, <1>5, <1>6, <2>1 DEF LinksKept, Held
<1>10. StatusTrue'
  BY <1>3, <1>5, <1>6 DEF StatusTrue
<1>11. OutcomeAtEnd'
  BY <1>2, <1>4 DEF OutcomeAtEnd, Started
<1>12. ResultDelivered'
  BY <1>4 DEF ResultDelivered, ResultAtEnd, NoResult
<1>13. QED
  BY <1>7, <1>8, <1>9, <1>10, <1>11, <1>12

LEMMA ProgressKeeps == Inv /\ Progress => Inv'
<1>1. SUFFICES ASSUME Inv, Progress PROVE Inv'
  OBVIOUS
<1> USE <1>1 DEF Inv, Progress
<1>2. NextLink(answer)' = NextLink(answer) /\ FinalLink(answer)' = FinalLink(answer)
      /\ Status(answer)' = Status(answer)
  BY DEF NextLink, FinalLink, Status, StatusBody, AtOnce
<1>3. TypeOK' /\ Started'
  BY DEF TypeOK, Started
<1>4. LinksKept'
  BY <1>2 DEF LinksKept, Held
<1>5. StatusTrue'
  BY <1>2 DEF StatusTrue
<1>6. LinkUntilSuccess' /\ ResultAtEnd' /\ OutcomeAtEnd'
  BY DEF LinkUntilSuccess, ResultAtEnd, OutcomeAtEnd
<1>7. ResultDelivered'
  BY DEF ResultDelivered
<1>8. QED
  BY <1>3, <1>4, <1>5, <1>6, <1>7

LEMMA ClosureKeeps == Inv /\ Closure => Inv'
<1>1. SUFFICES ASSUME Inv, Closure PROVE Inv'
  OBVIOUS
<1> USE <1>1 DEF Inv
<1>2. answer \in Response /\ method \in Methods /\ Origin \in Urls
  BY DEF TypeOK, Urls
<1>3. /\ NextLink(answer) \in Urls /\ FinalLink(answer) \in Places \cup {None}
      /\ FinalBody(answer) \in Bodies
  BY <1>2, LinksTyped
<1>4. CASE SendFirst
  <2>1. links' = [next |-> Origin, final |-> None] /\ links' \in Links
    BY <1>2, <1>4 DEF SendFirst, Links
  <2>2. QED
    BY <1>2, <1>4, <2>1
    DEF SendFirst, service, TypeOK, Started, LinksKept, StatusTrue, LinkUntilSuccess,
        ResultAtEnd, OutcomeAtEnd, ResultDelivered, Held, NoResult
<1>5. CASE SendPoll
  <2>1. links.next \in Urls
    BY DEF TypeOK, Links
  <2>2. QED
    BY <1>2, <1>5, <2>1
    DEF SendPoll, service, TypeOK, Started, LinksKept, StatusTrue, LinkUntilSuccess,
        ResultAtEnd, OutcomeAtEnd, ResultDelivered, Held, NoResult
<1>6. CASE InProgress
  <2>1. /\ links' \in Links /\ links'.next = NextLink(answer)
        /\ links'.final = FinalLink(answer)
    BY <1>3, <1>6 DEF InProgress, Links
  <2>2. QED
    BY <1>2, <1>6, <2>1
    DEF InProgress, service, TypeOK, Started, LinksKept, StatusTrue, LinkUntilSuccess,
        ResultAtEnd, OutcomeAtEnd, ResultDelivered, Held, NoResult
<1>7. CASE Succeeds
  <2>1. /\ links' \in Links /\ links'.next = NextLink(answer)
        /\ links'.final = FinalLink(answer)
    BY <1>3, <1>7 DEF Succeeds, Links
  <2>2. op = "succeeded" /\ outcome' = "succeeded" /\ pc = "answered"
    BY <1>7 DEF Succeeds, StatusTrue
  <2>3. method.arm # "delete" => FinalBody(answer) = answer.body
    BY <1>7 DEF Succeeds, Status, FinalBody, StatusBody
  <2>4. CASE method.final = "polling"
    <3>1. /\ result' = [from |-> url, body |-> FinalBody(answer)] /\ pc' = "ended"
          /\ UNCHANGED <<method, service, url, answer>>
      BY <1>7, <2>4 DEF Succeeds
    <3>2. TypeOK'
      BY <1>3, <2>1, <2>2, <3>1 DEF TypeOK, service
    <3>3. ResultDelivered'
      BY <2>3, <2>4, <3>1 DEF ResultDelivered
    <3>4. QED
      BY <2>2, <2>4, <3>1, <3>2, <3>3
      DEF service, Started, LinksKept, StatusTrue, LinkUntilSuccess, ResultAtEnd, OutcomeAtEnd
  <2>5. CASE method.final # "polling"
    <3>1. pc' = "target" /\ UNCHANGED <<method, service, url, answer, result>>
      BY <1>7, <2>5 DEF Succeeds
    <3>2. QED
      BY <2>1, <2>2, <2>5, <3>1
      DEF service, TypeOK, Started, LinksKept, StatusTrue, LinkUntilSuccess, ResultAtEnd,
          OutcomeAtEnd, ResultDelivered, Held, NoResult
  <2>6. QED
    BY <2>4, <2>5
<1>8. CASE Target
  <2>1. /\ url' = IF method.final = "other" /\ links.final # None THEN links.final ELSE Origin
        /\ result' = [from |-> url', body |-> "bare"] /\ pc = "target" /\ pc' = "ended"
        /\ UNCHANGED <<method, service, links, answer, outcome>>
    BY <1>8 DEF Target
  <2>2. url' = place /\ url' \in Urls
    BY <1>2, <2>1 DEF LinksKept, Held, TypeOK, Links, Urls
  <2>3. TypeOK'
    BY <1>2, <2>1, <2>2 DEF TypeOK, service, Bodies
  <2>4. ResultDelivered'
    BY <2>1, <2>2 DEF ResultDelivered, ResultAtEnd, service
  <2>5. QED
    BY <2>1, <2>3, <2>4
    DEF service, Started, LinksKept, StatusTrue, LinkUntilSuccess, ResultAtEnd, OutcomeAtEnd
<1>9. CASE EndsOtherwise
  BY <1>2, <1>9
  DEF EndsOtherwise, service, TypeOK, Started, LinksKept, StatusTrue, LinkUntilSuccess,
      ResultAtEnd, OutcomeAtEnd, ResultDelivered, NoResult
<1>10. CASE Fails
  BY <1>2, <1>10
  DEF Fails, service, TypeOK, Started, LinksKept, StatusTrue, LinkUntilSuccess,
      ResultAtEnd, OutcomeAtEnd, ResultDelivered, NoResult
<1>11. QED
  BY <1>1, <1>4, <1>5, <1>6, <1>7, <1>8, <1>9, <1>10 DEF Closure

LEMMA StutterKeeps == Inv /\ UNCHANGED vars => Inv'
<1>1. SUFFICES ASSUME Inv, UNCHANGED vars PROVE Inv'
  OBVIOUS
<1>2. NextLink(answer)' = NextLink(answer) /\ FinalLink(answer)' = FinalLink(answer)
      /\ Status(answer)' = Status(answer)
  BY <1>1 DEF vars, NextLink, FinalLink, Status, StatusBody, AtOnce
<1>3. QED
  BY <1>1, <1>2
  DEF vars, Inv, TypeOK, Started, LinksKept, StatusTrue, LinkUntilSuccess, ResultAtEnd,
      OutcomeAtEnd, ResultDelivered, Held

LEMMA Invariance == Spec => []Inv
<1>1. Inv /\ [Next]_vars => Inv'
  BY HandleKeeps, ProgressKeeps, ClosureKeeps, StutterKeeps DEF Next, Over
<1>2. QED
  BY InitEstablishes, <1>1, PTL DEF Spec

----------------------------------------------------------------------------
\* The links, answers and results of a poller keep their types (the closure and
\* its continuation in getLroMethodBody).
THEOREM TypeCorrect == Spec => []TypeOK
<1>1. Inv => TypeOK
  BY DEF Inv
<1>2. QED
  BY Invariance, <1>1, PTL

\* A poll goes to the link announced last (the continuation that is kept when an
\* answer announces none).
THEOREM PollsGoToMonitor == Spec => []PollsMonitor
<1>1. Inv => PollsMonitor
  BY DEF Inv, LinksKept, PollsMonitor
<1>2. QED
  BY Invariance, <1>1, PTL

\* The result comes from where the service keeps it (the final link, the URL of
\* the first request, or the last answer).
THEOREM ResultIsDelivered == Spec => []ResultDelivered
<1>1. Inv => ResultDelivered
  BY DEF Inv
<1>2. QED
  BY Invariance, <1>1, PTL

----------------------------------------------------------------------------
(* LroPoller implements Operation. *)

LEMMA WatchStart == Init => Watch!NotStarted
  BY DEF Init, Watch!NotStarted

LEMMA WatchStep == Inv /\ [Next]_vars => [Watch!Step]_(Watch!facts)
<1> SUFFICES ASSUME Inv, [Next]_vars
             PROVE  Watch!Step \/ UNCHANGED Watch!facts
  OBVIOUS
<1> USE DEF Inv
<1>1. ASSUME UNCHANGED <<op, outcome, result>>
      PROVE  UNCHANGED Watch!facts
  BY <1>1 DEF Watch!facts
<1>2. \A u \in Urls : \A b \in Bodies : [from |-> u, body |-> b] # NoResult
  BY LroAssumption DEF Urls, NoResult
<1>3. CASE Handle
  <2>1. pc = "sent" /\ outcome = "none" /\ UNCHANGED <<outcome, result>>
    BY <1>3 DEF Handle, OutcomeAtEnd
  <2>2. CASE op = "none"
    <3>1. op' \in {"running", "succeeded", "failed"}
      BY <1>3, <2>2 DEF Handle
    <3>2. QED
      BY <2>1, <2>2, <3>1 DEF Watch!Step, Watch!Begin
  <2>3. CASE op # "none"
    BY <1>1, <1>3, <2>1, <2>3 DEF Handle
  <2>4. QED
    BY <2>2, <2>3
<1>4. CASE Progress
  BY <1>4 DEF Progress, Watch!Step, Watch!End
<1>5. CASE SendFirst \/ SendPoll \/ InProgress \/ Over \/ UNCHANGED vars
  BY <1>1, <1>5 DEF SendFirst, SendPoll, InProgress, Over, vars, service
<1>6. CASE Succeeds
  <2>1. /\ pc = "answered" /\ outcome = "none" /\ outcome' = "succeeded"
        /\ op = "succeeded" /\ op' = op
    BY <1>6 DEF Succeeds, OutcomeAtEnd, StatusTrue, service
  <2>2. (result # NoResult)' \in BOOLEAN
    OBVIOUS
  <2>3. QED
    BY <2>1, <2>2 DEF Watch!Step, Watch!TellSuccess
<1>7. CASE Target
  <2>1. /\ pc = "target" /\ outcome = "succeeded" /\ result = NoResult
        /\ UNCHANGED <<op, outcome>>
    BY <1>7 DEF Target, OutcomeAtEnd, ResultAtEnd, service
  <2>2. /\ result' = [from |-> url', body |-> "bare"]
        /\ url' \in Urls /\ "bare" \in Bodies
    BY <1>7 DEF Target, TypeOK, Links, Urls, Bodies
  <2>3. result' # NoResult
    BY <1>2, <2>2
  <2>4. QED
    BY <2>1, <2>3 DEF Watch!Step, Watch!Deliver, NoResult
<1>8. CASE EndsOtherwise
  <2>1. outcome = "none" /\ outcome' = "done" /\ op = "failed" /\ UNCHANGED <<op, result>>
    BY <1>8 DEF EndsOtherwise, OutcomeAtEnd, StatusTrue, service
  <2>2. QED
    BY <2>1 DEF Watch!Step, Watch!TellOtherwise
<1>9. CASE Fails
  <2>1. CASE outcome = "none"
    BY <1>9, <2>1 DEF Fails, service, Watch!Step, Watch!TellOtherwise
  <2>2. CASE outcome # "none"
    BY <1>1, <1>9, <2>2 DEF Fails, service
  <2>3. QED
    BY <2>1, <2>2
<1>10. QED
  BY <1>3, <1>4, <1>5, <1>6, <1>7, <1>8, <1>9 DEF Next, Closure

\* The poller implements Operation: the caller is told one outcome, that of the
\* operation or an error, and gets the result once and only of an operation that
\* has succeeded (the match on res.status(), the shortcut for a PUT or PATCH that
\* is over at once, and the request for the target).
THEOREM ImplementsOperation == Spec => WatchesOperation
  BY WatchStart, WatchStep, Invariance, PTL DEF Spec, WatchesOperation, Watch!Watched
=============================================================================
