---------------------------- MODULE PagerProofs ----------------------------
(***************************************************************************)
(* Safety of the emitted pager for any number of pages and parameters and  *)
(* every kind of method.                                                   *)
(***************************************************************************)
EXTENDS Pager, TLAPS

----------------------------------------------------------------------------
(* The inductive invariant. *)

\* The continuation leads to the page after the last one.
LeadsOn(s, p) == /\ p \in Pages /\ p # LastPage
                 /\ \/ method.strategy = "nextLink" /\ s.kind = "Link" /\ s.link \in LinksTo(p + 1)
                    \/ method.strategy \in {"query", "header"} /\ s.kind = "Token" /\ s.token = p + 1

StateFitsLast == pc # "done" => IF More THEN last # 0 /\ LeadsOn(state, last) ELSE last = 0

StartOnlyWithTokens == start # 0 => method.strategy \in {"query", "header"}

\* The request asks for one page only, the one that is wanted.
AskedOnce == pc = "sent" => Asked = {Wanted}

AnswerFits == pc = "answered" => answer.next \in NextOf(answer.page)

Inv == TypeOK /\ StateFitsLast /\ StartOnlyWithTokens /\ AskedOnce /\ AnswerFits
         /\ InOrder /\ RequestComplete

----------------------------------------------------------------------------
LEMMA NoUrlTyped == NoUrl \in Url /\ \A k \in {"Initial", "Empty", "Absent"} :
                                         Without(k) \in Continuation
  BY PagerAssumption DEF NoUrl, Url, Without, Continuation

LEMMA NextTyped ==
    ASSUME method \in Method, NEW p \in Pages, NEW next \in NextOf(p)
    PROVE  /\ next \in Continuation
           /\ HasNext(next) => LeadsOn(next, p)
           /\ ~HasNext(next) => p = LastPage \/ method.strategy = "none"
<1> USE PagerAssumption
<1>1. p \in Nat /\ p \in 0..LastPage /\ (p # LastPage => p + 1 \in 0..LastPage)
  BY DEF Pages
<1>2. CASE p = LastPage \/ method.strategy = "none"
  <2>1. next \in {Without("Absent"), Without("Empty")}
    BY <1>2 DEF NextOf
  <2>2. next \in Continuation /\ next.kind \in {"Absent", "Empty"}
    BY <2>1, NoUrlTyped DEF Without
  <2>3. QED
    BY <1>2, <2>2 DEF HasNext
<1>3. CASE p # LastPage /\ method.strategy = "nextLink"
  <2>1. PICK u \in LinksTo(p + 1) : next = Link(u)
    BY <1>3 DEF NextOf
  <2>2. u \in Url
    BY <2>1 DEF LinksTo
  <2>3. next.kind = "Link" /\ next.link = u /\ next \in Continuation
    BY <2>1, <2>2 DEF Link, Without, Continuation
  <2>4. QED
    BY <1>3, <2>1, <2>3 DEF HasNext, LeadsOn
<1>4. CASE p # LastPage /\ method.strategy \in {"query", "header"}
  <2>1. next = Token(p + 1)
    BY <1>4 DEF NextOf
  <2>2. next.kind = "Token" /\ next.token = p + 1 /\ next \in Continuation
    BY <1>1, <1>4, <2>1, NoUrlTyped DEF Token, Without, Continuation
  <2>3. QED
    BY <1>4, <2>2 DEF HasNext, LeadsOn
<1>5. method.strategy \in {"nextLink", "query", "header", "none"}
  BY DEF Method
<1>6. QED
  BY <1>2, <1>3, <1>4, <1>5

\* What the URL and the header of a request are for each strategy.
LEMMA RequestForms ==
    ASSUME TypeOK, StateFitsLast, StartOnlyWithTokens, pc = "ready"
    PROVE  /\ RequestUrl \in Url /\ RequestHeader \in 0..LastPage
           /\ RequestUrl.params = given
           /\ RequestUrl.versions = IF method.versioned THEN {"current"} ELSE {}
           /\ Wanted \in Pages
           /\ method.strategy = "nextLink" =>
                  Wanted = IF RequestUrl.page = 0 THEN 1 ELSE RequestUrl.page
           /\ method.strategy = "query" =>
                  {Wanted} = IF RequestUrl.tokens = {} THEN {1} ELSE RequestUrl.tokens
           /\ method.strategy = "header" =>
                  Wanted = IF RequestHeader = 0 THEN 1 ELSE RequestHeader
           /\ method.strategy = "none" => Wanted = 1
<1> USE PagerAssumption
<1>1. /\ method.strategy \in {"nextLink", "query", "header", "none"}
      /\ method.versioned \in BOOLEAN /\ method.reinjected \subseteq Params
      /\ given \subseteq Params /\ start \in 0..LastPage /\ last \in 0..LastPage
      /\ state \in Continuation
  BY DEF TypeOK, Method
<1>2. start # 0 => start \in Pages
  BY <1>1 DEF Pages
<1>3. /\ FirstUrl \in Url /\ FirstUrl.params = given /\ FirstUrl.page = 0
      /\ FirstUrl.versions = IF method.versioned THEN {"current"} ELSE {}
      /\ FirstUrl.tokens = IF method.strategy = "query" /\ start # 0 THEN {start} ELSE {}
  BY <1>1, <1>2 DEF FirstUrl, Url, Versions
<1>4. CASE ~More
  <2>1. RequestUrl = FirstUrl /\ last = 0
    BY <1>4 DEF RequestUrl, StateFitsLast
  <2>2. RequestHeader = IF method.strategy = "header" THEN start ELSE 0
    BY <1>4 DEF RequestHeader
  <2>3. Wanted = (IF start # 0 THEN start ELSE 1) /\ Wanted \in Pages
    BY <1>2, <2>1 DEF Wanted, Pages
  <2>4. QED
    BY <1>1, <1>3, <2>1, <2>2, <2>3 DEF StartOnlyWithTokens
<1>5. CASE More
  <2>1. last \in Pages /\ last # LastPage /\ LeadsOn(state, last) /\ Wanted = last + 1
    BY <1>5 DEF StateFitsLast, LeadsOn, Wanted, Pages
  <2>2. Wanted \in Pages /\ Wanted # 0
    BY <2>1 DEF Pages
  <2>3. CASE method.strategy = "nextLink"
    <3>1. state.link \in LinksTo(last + 1) /\ RequestUrl = Reinjected(state.link)
      BY <1>5, <2>1, <2>3 DEF LeadsOn, RequestUrl
    <3>2. /\ state.link \in Url /\ state.link.page = last + 1
          /\ given \ method.reinjected \subseteq state.link.params
          /\ state.link.params \subseteq given
          /\ ~method.versioned => state.link.versions = {}
      BY <3>1 DEF LinksTo
    <3>3. /\ RequestUrl.page = last + 1
          /\ RequestUrl.params = state.link.params \cup (method.reinjected \cap given)
          /\ RequestUrl.versions = IF method.versioned THEN {"current"} ELSE state.link.versions
          /\ RequestUrl \in Url
      BY <1>1, <3>1, <3>2 DEF Reinjected, Url, Versions
    <3>4. QED
      BY <1>1, <2>1, <2>2, <2>3, <3>2, <3>3 DEF RequestHeader
  <2>4. CASE method.strategy = "query"
    <3>1. state.token = Wanted /\ RequestUrl = WithToken(FirstUrl, state.token)
      BY <1>5, <2>1, <2>4 DEF LeadsOn, RequestUrl
    <3>2. /\ RequestUrl.tokens = {Wanted} /\ RequestUrl \in Url
          /\ RequestUrl.params = FirstUrl.params /\ RequestUrl.versions = FirstUrl.versions
      BY <1>3, <2>2, <3>1 DEF WithToken, Url
    <3>3. QED
      BY <1>3, <2>2, <2>4, <3>2 DEF RequestHeader
  <2>5. CASE method.strategy = "header"
    <3>1. state.token = Wanted /\ RequestUrl = FirstUrl /\ RequestHeader = state.token
      BY <1>5, <2>1, <2>5 DEF LeadsOn, RequestUrl, RequestHeader
    <3>2. QED
      BY <1>3, <2>2, <2>5, <3>1 DEF Pages
  <2>6. QED
    BY <2>1, <2>3, <2>4, <2>5 DEF LeadsOn
<1>6. QED
  BY <1>4, <1>5

----------------------------------------------------------------------------
LEMMA InitEstablishes == Init => Inv
<1>1. SUFFICES ASSUME Init PROVE Inv
  OBVIOUS
<1>2. NoUrl \in Url /\ state \in Continuation /\ state.kind = "Initial"
  BY <1>1, NoUrlTyped DEF Init, Without
<1>3. answer \in Answer
  BY <1>1, NoUrlTyped, PagerAssumption DEF Init, NoAnswer, Answer, Pages
<1>4. TypeOK
  BY <1>1, <1>2, <1>3, PagerAssumption DEF Init, TypeOK
<1>5. QED
  BY <1>1, <1>2, <1>4
  DEF Init, Inv, StateFitsLast, More, StartOnlyWithTokens, AskedOnce, AnswerFits, InOrder,
      RequestComplete

LEMMA StepKeeps == Inv /\ [Next]_vars => Inv'
<1>1. SUFFICES ASSUME Inv, [Next]_vars PROVE Inv'
  OBVIOUS
<1> USE <1>1 DEF Inv
<1>2. CASE Request
  <2>1. /\ pc = "ready" /\ pc' = "sent" /\ url' = RequestUrl /\ header' = RequestHeader
        /\ UNCHANGED <<method, given, start, state, answer, last>>
    BY <1>2 DEF Request, args
  <2>2. TypeOK'
    BY <2>1, RequestForms DEF TypeOK
  <2>3. AskedOnce'
    <3>1. method.strategy \in {"nextLink", "query", "header", "none"}
      BY DEF TypeOK, Method
    <3>2. Wanted' = Wanted
      BY <2>1 DEF Wanted
    <3>3. Asked' = {Wanted}
      BY <2>1, <3>1, RequestForms DEF Asked
    <3>4. QED
      BY <3>2, <3>3 DEF AskedOnce
  <2>4. RequestComplete'
    BY <2>1, RequestForms DEF RequestComplete
  <2>5. QED
    BY <2>1, <2>2, <2>3, <2>4
    DEF StateFitsLast, More, LeadsOn, LinksTo, StartOnlyWithTokens, AnswerFits, InOrder
<1>3. CASE Serve
  <2>1. PICK p \in Asked : \E next \in NextOf(p) : answer' = [page |-> p, next |-> next]
    BY <1>3 DEF Serve
  <2>2. PICK next \in NextOf(p) : answer' = [page |-> p, next |-> next]
    BY <2>1
  <2>3. /\ pc = "sent" /\ pc' = "answered"
        /\ UNCHANGED <<method, given, start, state, url, header, last>>
    BY <1>3 DEF Serve, args
  <2>4. p = Wanted
    BY <2>1, <2>3 DEF AskedOnce
  <2>5. p \in Pages
    BY <2>3, <2>4, PagerAssumption DEF TypeOK, StateFitsLast, LeadsOn, Wanted, Pages
  <2>6. next \in Continuation
    BY <2>5, NextTyped DEF TypeOK
  <2>7. TypeOK'
    BY <2>2, <2>3, <2>5, <2>6 DEF TypeOK, Answer
  <2>8. InOrder'
    BY <2>2, <2>3, <2>4 DEF InOrder, Wanted
  <2>9. AnswerFits'
    BY <2>2, <2>3 DEF AnswerFits, NextOf, LinksTo
  <2>10. QED
    BY <2>3, <2>7, <2>8, <2>9
    DEF StateFitsLast, More, LeadsOn, LinksTo, StartOnlyWithTokens, AskedOnce,
        RequestComplete
<1>4. CASE Continue
  <2>1. /\ pc = "answered" /\ pc' = "ready" /\ HasNext(answer.next)
        /\ last' = answer.page /\ state' = answer.next
        /\ UNCHANGED <<method, given, start, url, header, answer>>
    BY <1>4 DEF Continue, args
  <2>2. answer.page \in Pages /\ answer.next \in NextOf(answer.page)
    BY <2>1 DEF TypeOK, Answer, AnswerFits
  <2>3. answer.next \in Continuation /\ LeadsOn(answer.next, answer.page)
    BY <2>1, <2>2, NextTyped DEF TypeOK
  <2>4. state'.kind \in {"Token", "Link"} /\ last' # 0 /\ last' \in 0..LastPage
    BY <2>1, <2>2, <2>3, PagerAssumption DEF LeadsOn, Pages
  <2>5. TypeOK'
    BY <2>1, <2>3, <2>4 DEF TypeOK
  <2>6. StateFitsLast'
    BY <2>1, <2>3, <2>4 DEF StateFitsLast, More, LeadsOn, LinksTo
  <2>7. QED
    BY <2>1, <2>5, <2>6
    DEF StartOnlyWithTokens, AskedOnce, AnswerFits, InOrder, RequestComplete
<1>5. CASE Finish
  <2>1. /\ pc = "answered" /\ pc' = "done" /\ ~HasNext(answer.next) /\ last' = answer.page
        /\ UNCHANGED <<method, given, start, state, url, header, answer>>
    BY <1>5 DEF Finish, args
  <2>2. answer.page \in Pages /\ answer.next \in NextOf(answer.page)
    BY <2>1 DEF TypeOK, Answer, AnswerFits
  <2>3. answer.page = LastPage \/ method.strategy = "none"
    BY <2>1, <2>2, NextTyped DEF TypeOK
  <2>4. TypeOK'
    BY <2>1, <2>2, PagerAssumption DEF TypeOK, Pages
  <2>5. QED
    BY <2>1, <2>3, <2>4
    DEF StateFitsLast, StartOnlyWithTokens, AskedOnce, AnswerFits, InOrder, RequestComplete
<1>6. CASE Fail
  <2>1. /\ pc \in {"sent", "answered"} /\ pc' = "failed"
        /\ UNCHANGED <<method, given, start, state, url, header, answer, last>>
    BY <1>6 DEF Fail, args
  <2>2. QED
    BY <2>1
    DEF TypeOK, StateFitsLast, More, LeadsOn, LinksTo, StartOnlyWithTokens, AskedOnce,
        AnswerFits, InOrder, RequestComplete
<1>7. CASE Resume
  <2>1. /\ pc = "failed" /\ pc' = "ready"
        /\ UNCHANGED <<method, given, state, url, header, answer, last>>
        /\ start' # start => start' \in 0..LastPage /\ method.strategy \in {"query", "header"}
    BY <1>7 DEF Resume
  <2>2. QED
    BY <2>1
    DEF TypeOK, StateFitsLast, More, LeadsOn, LinksTo, StartOnlyWithTokens, AskedOnce,
        AnswerFits, InOrder, RequestComplete
<1>8. CASE UNCHANGED vars
  BY <1>8
  DEF vars, TypeOK, StateFitsLast, More, LeadsOn, LinksTo, StartOnlyWithTokens, AskedOnce,
      Asked, Wanted, AnswerFits, NextOf, InOrder, RequestComplete
<1>9. QED
  BY <1>1, <1>2, <1>3, <1>4, <1>5, <1>6, <1>7, <1>8 DEF Next, Closure, Over

LEMMA Invariance == Spec => []Inv
  BY InitEstablishes, StepKeeps, PTL DEF Spec

----------------------------------------------------------------------------
\* The state, the requests and the answers of a pager keep their types; an empty
\* next link never becomes a continuation (the match in getPageableMethodBody).
THEOREM TypeCorrect == Spec => []TypeOK
<1>1. Inv => TypeOK
  BY DEF Inv
<1>2. QED
  BY Invariance, <1>1, PTL

\* The pages arrive in order and each one once, across failures and resumptions
\* (PagerState::More against PagerState::Initial in the emitted closure).
THEOREM PagesInOrder == Spec => []InOrder
<1>1. Inv => InOrder
  BY DEF Inv
<1>2. QED
  BY Invariance, <1>1, PTL

\* Every request has the parameters of the caller and the version of the client
\* (the reinjected parameters and set_pair in the emitted closure).
THEOREM RequestsComplete == Spec => []RequestComplete
<1>1. Inv => RequestComplete
  BY DEF Inv
<1>2. QED
  BY Invariance, <1>1, PTL

----------------------------------------------------------------------------
(* Pager implements PageReader. *)

LEMMA ReaderStart == Inv /\ Init => Reader!Reading
<1> SUFFICES ASSUME Inv, Init PROVE Reader!Reading
  OBVIOUS
<1>1. Wanted = (IF start # 0 THEN start ELSE 1) /\ start \in 0..LastPage
      /\ (start # 0 => method.strategy \in {"query", "header"})
  BY DEF Init, Wanted, Inv, TypeOK, StartOnlyWithTokens
<1>2. QED
  BY <1>1, PagerAssumption DEF Init, Reader!Reading

LEMMA ReaderStep ==
    Inv /\ Inv' /\ [Next]_vars => [Reader!HandOut \/ Reader!BeginElsewhere]_(Reader!pages)
<1> SUFFICES ASSUME Inv, Inv', [Next]_vars
             PROVE  Reader!HandOut \/ Reader!BeginElsewhere \/ UNCHANGED Reader!pages
  OBVIOUS
<1> USE PagerAssumption DEF Inv
\* A step that hands out no page shows only when the caller begins elsewhere.
<1>1. ASSUME UNCHANGED <<method, last, start>>, (pc' = "done") = (pc = "done")
      PROVE  UNCHANGED Reader!pages
  BY <1>1 DEF Reader!pages, Wanted
<1>2. ASSUME pc = "answered", last' = answer.page, UNCHANGED <<method, start>>,
             (pc' = "done") = (method.strategy = "none" \/ answer.page = LastPage)
      PROVE  Reader!HandOut
  <2>1. answer.page = Wanted /\ answer.page \in 1..LastPage
    BY <1>2 DEF InOrder, Wanted, TypeOK, Answer, Pages
  <2>2. Wanted' = Wanted + 1
    BY <1>2, <2>1 DEF Wanted
  <2>3. QED
    BY <1>2, <2>1, <2>2 DEF Reader!HandOut
<1>3. CASE Request \/ Fail \/ Serve
  BY <1>1, <1>3 DEF Request, Fail, Serve, args
<1>4. CASE Continue
  <2>1. LeadsOn(answer.next, answer.page) /\ answer.page # LastPage
    BY <1>4, NextTyped DEF Continue, AnswerFits, TypeOK, Answer, LeadsOn
  <2>2. method.strategy # "none"
    BY <2>1 DEF LeadsOn
  <2>3. QED
    BY <1>2, <1>4, <2>1, <2>2 DEF Continue, args
<1>5. CASE Finish
  <2>1. answer.page = LastPage \/ method.strategy = "none"
    BY <1>5, NextTyped DEF Finish, AnswerFits, TypeOK, Answer
  <2>2. QED
    BY <1>2, <1>5, <2>1 DEF Finish, args
<1>6. CASE Resume
  <2>1. pc = "failed" /\ pc' = "ready" /\ UNCHANGED <<method, last, state>>
    BY <1>6 DEF Resume
  <2>2. CASE UNCHANGED start
    BY <1>1, <2>1, <2>2
  <2>3. CASE ~More /\ start' # start
    <3>1. last = 0 /\ last' = 0
      BY <2>1, <2>3 DEF StateFitsLast
    <3>2. start' \in 0..LastPage /\ method.strategy # "none"
      BY <1>6, <2>3 DEF Resume, TypeOK
    <3>3. Wanted' \in 1..LastPage
      BY <3>1, <3>2 DEF Wanted
    <3>4. QED
      BY <2>1, <3>1, <3>2, <3>3 DEF Reader!BeginElsewhere
  <2>4. CASE More
    <3>1. last # 0 /\ last' # 0
      BY <2>1, <2>4 DEF StateFitsLast
    <3>2. QED
      BY <2>1, <3>1 DEF Reader!pages, Wanted
  <2>5. QED
    BY <2>2, <2>3, <2>4
<1>7. CASE UNCHANGED vars
  BY <1>1, <1>7 DEF vars
<1>8. QED
  BY <1>3, <1>4, <1>5, <1>6, <1>7 DEF Next, Closure, Over

\* The pager implements PageReader: what reaches the caller are the pages in
\* order, each one once, and the end after the last of them (PagerResult::More
\* and PagerResult::Done).
THEOREM ImplementsPageReader == Spec => ReadsPages
  BY InitEstablishes, ReaderStart, ReaderStep, Invariance, PTL DEF Spec, ReadsPages, Reader!InTurn
=============================================================================
