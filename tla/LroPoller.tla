----------------------------- MODULE LroPoller -----------------------------
(***************************************************************************)
(* The poller that getLroMethodBody emits for a long-running operation,    *)
(* and the service it polls.  The first request starts the operation; each *)
(* answer may announce in a header the link to poll next, and in another   *)
(* one the link to the result; the body tells the status.  The operation   *)
(* goes on by itself between the polls.                                    *)
(*                                                                         *)
(* The poller of azure_core, which is external, calls the emitted closure  *)
(* with PollerState::Initial, then with the continuation of every          *)
(* PollerResult::InProgress until there is another result.  A request that *)
(* fails ends it.  Retry-after, request headers and the api-version that   *)
(* is set on each link are left out: none of them tells links apart.       *)
(*                                                                         *)
(* The service is external as well: it tells the truth about the operation *)
(* in the form that the emitted code expects for this kind of method.      *)
(*                                                                         *)
(* A definition Name_Fault is Name with a plausible mistake in the code;   *)
(* no specification uses it: the properties must fail with it.             *)
(***************************************************************************)
EXTENDS Naturals

CONSTANTS Monitors,    \* the links that can be polled
          Places,      \* the links under which a result can be found
          Origin,      \* the URL of the first request
          None,        \* no link
          Methods,     \* the kinds of methods considered
          EmptyOk      \* whether a DELETE may end with an empty 200

(* polling: a header with the link to poll is declared.  final: the result  *)
(* is in the last answer, under the link of another header, or at the URL   *)
(* of the first request.  arm: a pattern of Azure's resource manager that   *)
(* gets special treatment ("update" is a PUT or PATCH).                     *)
Method == {m \in [polling : BOOLEAN, final : {"polling", "other", "original"},
                  arm : {"none", "update", "post", "delete"}] :
              /\ m.final = "polling" => m.polling
              /\ m.arm \in {"update", "delete"} => m.final = "polling"
              /\ m.arm = "post" => m.polling /\ m.final = "other"}

ASSUME LroAssumption == /\ Methods \subseteq Method /\ EmptyOk \in BOOLEAN
                        /\ Origin \notin Monitors \cup Places
                        /\ None \notin Monitors \cup Places \cup {Origin}

Urls   == Monitors \cup Places \cup {Origin}
\* "bare" is a resource without a status.
Bodies == {"empty", "bare", "InProgress", "Succeeded", "Failed"}

Response == [code : {200, 201, 202, 204}, poll : Monitors \cup {None},
             final : Places \cup {None}, body : Bodies]

Links == [next : Urls, final : Places \cup {None}]

VARIABLES method,   \* the kind of the method
          op,       \* the operation at the service
          monitor,  \* where the service expects the next poll
          place,    \* where the service keeps the result
          pc,       \* what the poller does
          url,      \* the URL of its request
          links,    \* PollerContinuation::Links
          answer,   \* the last answer of the service
          outcome,  \* what the poller has reported
          result    \* what the caller got as the result

vars == <<method, op, monitor, place, pc, url, links, answer, outcome, result>>

service == <<op, monitor, place>>

NoAnswer == [code |-> 200, poll |-> None, final |-> None, body |-> "empty"]
NoResult == [from |-> None, body |-> "empty"]

Init == /\ method \in Methods
        /\ op = "none" /\ monitor = Origin /\ place = Origin
        /\ pc = "initial" /\ url = Origin
        /\ links = [next |-> Origin, final |-> None]
        /\ answer = NoAnswer /\ outcome = "none" /\ result = NoResult

----------------------------------------------------------------------------
(* The service. *)

\* Headers which are not declared are not sent.
Announced(r) == /\ ~method.polling => r.poll = None
                /\ method.final # "other" => r.final = None

\* The first answer of an unfinished operation announces the link to poll and
\* may hold the new resource.  An answer may have no body, although not every
\* emitted poller can read that.
Unfinished(r, first) ==
    /\ first => r.code \in {201, 202} /\ (method.polling => r.poll # None)
    /\ ~first => r.code \in {200, 202}
    /\ \/ r.body = "InProgress"
       \/ r.body = "bare" /\ first /\ method.arm \in {"none", "update"}
       \/ r.body = "empty" /\ method.arm = "post"
       \/ r.body = "empty" /\ method.arm = "delete" /\ r.code = 202
       \/ r.body = "empty" /\ method.arm \in {"none", "update"} /\ r.code = 202

Finished(r, first) ==
    \/ /\ r.code = 200 /\ r.body = "Succeeded"
       /\ first /\ method.arm = "update" => r.poll # None
    \/ /\ r.code = 200 /\ r.body = "bare" /\ r.poll = None
       /\ first /\ method.arm = "update"
    \/ r.code = 204 /\ r.body = "empty" /\ method.arm = "delete"
    \/ r.code = 200 /\ r.body = "empty" /\ method.arm = "delete" /\ EmptyOk

Failed(r) == /\ r.code = 200 /\ r.body = "Failed"
             /\ method.arm = "update" => r.poll # None \/ monitor # Origin

Truthful(r, status, first) ==
    \/ status = "running"   /\ Unfinished(r, first)
    \/ status = "succeeded" /\ Finished(r, first)
    \/ status = "failed"    /\ Failed(r)

\* The request reaches the service; the first one starts the operation, which
\* may be over by the time it is answered.
Handle ==
    /\ pc = "sent"
    /\ op' \in IF op = "none" THEN {"running", "succeeded", "failed"} ELSE {op}
    /\ \E r \in Response :
          /\ Announced(r) /\ Truthful(r, op', op = "none")
          /\ answer'  = r
          /\ monitor' = IF r.poll  # None THEN r.poll  ELSE monitor
          /\ place'   = IF r.final # None THEN r.final ELSE place
    /\ pc' = "answered"
    /\ UNCHANGED <<method, url, links, outcome, result>>

\* The operation ends.
Progress == /\ op = "running"
            /\ op' \in {"succeeded", "failed"}
            /\ UNCHANGED <<method, monitor, place, pc, url, links, answer, outcome, result>>

----------------------------------------------------------------------------
(* The poller. *)

\* The request is made from the state of the poller.
SendFirst == /\ pc = "initial"
             /\ url' = Origin
             /\ links' = [next |-> Origin, final |-> None]
             /\ pc' = "sent"
             /\ UNCHANGED <<method, service, answer, outcome, result>>

SendPoll == /\ pc = "more"
            /\ url' = links.next
            /\ pc' = "sent"
            /\ UNCHANGED <<method, service, links, answer, outcome, result>>

\* The link to poll and the link to the result after an answer.
NextLink_NotKept(r) == IF method.polling /\ r.poll # None THEN r.poll ELSE Origin

NextLink(r) == IF method.polling /\ r.poll # None THEN r.poll ELSE links.next

FinalLink_NotKept(r) == IF method.final = "other" THEN r.final ELSE links.final

FinalLink(r) == IF method.final = "other" /\ r.final # None THEN r.final ELSE links.final

\* A PUT or PATCH that is over at once has neither a link nor a status.
AtOnce_AnyLink(r) == method.arm = "update" /\ r.code = 200

AtOnce(r) == method.arm = "update" /\ r.code = 200 /\ NextLink(r) = Origin

\* The body from which the status is read; an empty one is replaced.
StatusBody_EmptyOnly(r) == IF AtOnce(r) THEN "Succeeded"
                           ELSE IF r.body = "empty" THEN "bare" ELSE r.body

StatusBody(r) ==
    IF AtOnce(r) \/ (r.body = "empty" /\ method.arm = "delete" /\ r.code = 204)
    THEN "Succeeded"
    ELSE IF r.body = "empty" /\ method.arm \in {"post", "delete"} THEN "bare" ELSE r.body

\* StatusMonitor::status: without a status the operation is in progress.
Status(r) == IF StatusBody(r) = "bare" THEN "InProgress" ELSE StatusBody(r)

\* The body that is kept as the final response.
FinalBody(r) == IF AtOnce(r) THEN r.body ELSE StatusBody(r)

\* The answer is there and says that the operation is in progress.
InProgress ==
    /\ pc = "answered" /\ Status(answer) = "InProgress"
    /\ links' = [next |-> NextLink(answer), final |-> FinalLink(answer)]
    /\ pc' = "more"
    /\ UNCHANGED <<method, service, url, answer, outcome, result>>

\* The caller may await the target, which is the last answer or one more GET.
Succeeds ==
    /\ pc = "answered" /\ Status(answer) = "Succeeded"
    /\ links' = [next |-> NextLink(answer), final |-> FinalLink(answer)]
    /\ outcome' = "succeeded"
    /\ IF method.final = "polling"
       THEN /\ result' = [from |-> url, body |-> FinalBody(answer)]
            /\ pc' = "ended"
       ELSE /\ pc' = "target"
            /\ UNCHANGED result
    /\ UNCHANGED <<method, service, url, answer>>

Target == /\ pc = "target"
          /\ url' = IF method.final = "other" /\ links.final # None
                    THEN links.final ELSE Origin
          /\ result' = [from |-> url', body |-> "bare"]
          /\ pc' = "ended"
          /\ UNCHANGED <<method, service, links, answer, outcome>>

\* Every other status ends the poller.
EndsOtherwise ==
    /\ pc = "answered" /\ Status(answer) = "Failed"
    /\ outcome' = "done"
    /\ pc' = "ended"
    /\ UNCHANGED <<method, service, url, links, answer, result>>

\* A request fails, its answer is lost, or the answer cannot be parsed, which
\* is the only way out for an empty body that nothing has replaced.
Fails == /\ pc \in {"sent", "answered", "target"}
         /\ outcome' = IF outcome = "none" THEN "error" ELSE outcome
         /\ pc' = "ended"
         /\ UNCHANGED <<method, service, url, links, answer, result>>

Over == pc = "ended" /\ op # "running" /\ UNCHANGED vars

Closure == SendFirst \/ SendPoll \/ InProgress \/ Succeeds \/ Target \/ EndsOtherwise \/ Fails

Next == Handle \/ Progress \/ Closure \/ Over

Spec == Init /\ [][Next]_vars

\* The caller polls until the end, the service answers and does not run for
\* ever.
FairSpec == Spec /\ WF_vars(Closure) /\ WF_vars(Handle) /\ WF_vars(Progress)

----------------------------------------------------------------------------
TypeOK == /\ method \in Methods
          /\ op \in {"none", "running", "succeeded", "failed"}
          /\ monitor \in Monitors \cup {Origin} /\ place \in Places \cup {Origin}
          /\ pc \in {"initial", "more", "sent", "answered", "target", "ended"}
          /\ url \in Urls /\ links \in Links /\ answer \in Response
          /\ outcome \in {"none", "succeeded", "done", "error"}
          /\ result \in [from : Urls \cup {None}, body : Bodies]

\* The caller is told one outcome, once: success only of an operation that has
\* succeeded at the service and Done only of one that has failed, whatever was
\* told before; and gets the result once, after a success: LroPoller implements
\* Operation.
Watch == INSTANCE Operation WITH delivered <- result # NoResult

WatchesOperation == Watch!Watched

\* A poll goes to the link the service has announced last, also when the
\* answers after that announced none.
PollsMonitor == pc \in {"more", "sent"} =>
                    IF pc = "more" THEN links.next = monitor ELSE url = monitor

\* The result comes from where the service keeps it: the link announced last,
\* possibly several answers ago; or it is the last answer itself, and not the
\* status that the closure has put in place of its body.
ResultDelivered ==
    result # NoResult /\ method.arm # "delete" =>
        IF method.final = "polling" THEN result.body = answer.body
        ELSE result.from = place

\* The poller ends, since the operation does.
PollEnds == <>(pc = "ended")
=============================================================================
